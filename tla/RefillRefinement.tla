------------------------- MODULE RefillRefinement -------------------------
(***************************************************************************)
(* The staged pipeline of RefillPipeline implements PayloadFifo with two   *)
(* slots and one overtaking: a payload stranded by the tick is passed by   *)
(* the one announced in its stead, by no other, and is not lost while the  *)
(* player goes on submitting.                                              *)
(***************************************************************************)
EXTENDS RefillInvariant

\* The announced payload waits until the DSP has taken its block; the queued
\* one is older only when the tick stranded it.
InSlot == IF Occupied /\ base \notin Sent THEN <<base>> ELSE <<>>
InQueue == IF queued THEN <<qbase>> ELSE <<>>
Waiting == IF qbase < base THEN InQueue \o InSlot ELSE InSlot \o InQueue

Pipe == INSTANCE PayloadFifo WITH
  Depth <- 2,
  Slack <- 1,
  submitted <- Handed,
  waiting <- Waiting

\* Every step of the pipeline is a submission, a delivery of one of the two
\* oldest payloads, a refusal that empties it, or none of them.
ImplementsFifo == Pipe!Spec
=============================================================================
