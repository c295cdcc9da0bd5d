------------------------------ MODULE MdxClaims ------------------------------
(* What mdx.s says of its loop count, of the executor as it is.            *)
EXTENDS MCMdxTracks

\* "When every still-active track has taken its loop jump, the performance
\* wrapped once" (mdx.s:989-990): after a tick no such pass is left uncounted.
\* The count is taken at a jump only, mdx_command_performance_end: a track that
\* ends after the others have jumped leaves theirs uncounted.
WrapCounted == at = "idle" /\ playing => ~(mask \subseteq looped)
=============================================================================
