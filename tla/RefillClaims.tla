---------------------------- MODULE RefillClaims ----------------------------
(***************************************************************************)
(* What a comment of dsp_link.s says of the pipeline and RefillPipeline,   *)
(* which is what the code does, violates.  It needs no fault: the tick     *)
(* delivers the announced payload between the test of dsp_stage_posted in  *)
(* dsp_rt_submit and the store to dsp_stage_queued.                        *)
(***************************************************************************)
EXTENDS RefillPipeline

\* dsp_link.s:156: "Block until every announced and queued payload has been
\* delivered."  It is the return of dsp_rt_submit_wait for the exit.
WaitDeliversAll ==
  [][pc["fg"] = "wait" /\ pc'["fg"] = "cleanup" => ~posted /\ ~queued]_vars
=============================================================================
