---------------------------- MODULE MCYmDelivery ----------------------------
(***************************************************************************)
(* YmDelivery for TLC.  No definition tells two latches apart.             *)
(***************************************************************************)
EXTENDS YmDelivery, TLC

LatchSymmetry == Permutations(Latches)
=============================================================================
