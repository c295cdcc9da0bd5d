------------------------------ MODULE DspLink ------------------------------
(***************************************************************************)
(* The staged realtime submission of dsp_link.s.  Two contexts run it on   *)
(* one CPU: "fg", the player, and "irq", the Timer-A handler, which enters *)
(* while the player does not hold the interrupt mask and runs to its end.  *)
(* A location pc[c] is a point between two instructions at which another   *)
(* actor matters.                                                          *)
(*                                                                         *)
(* Payload n is assembled in staging buffer (n - 1) % StageBuffers;        *)
(* dsp_stage_base and dsp_stage_qbase hold the number of the payload they  *)
(* point at, and content what each buffer holds by now.                    *)
(***************************************************************************)
EXTENDS HostPort

VARIABLES
  pc,        \* location of each context
  back,      \* where the player's dsp_stage_poll_super returns to
  posted,    \* dsp_stage_posted
  queued,    \* dsp_stage_queued
  base,      \* dsp_stage_base: the announced payload
  qbase,     \* dsp_stage_qbase: the queued payload
  reply,     \* dsp_stage_reply
  content,   \* the payload in each staging buffer, 0 while one is assembled
  damaged,   \* history: payloads sent from a buffer that no longer held them
  stranded,  \* history: payloads queued when nothing was announced
  dropped    \* history: payloads dropped unannounced after a refusal

stageVars == <<posted, queued, base, qbase, reply>>
linkHistory == <<damaged, stranded, dropped>>
linkVars == <<pc, back, stageVars, content, linkHistory>>

Contexts == {"fg", "irq"}
TwoStageBuffers == 2
StageBuffers == 3
Buffer(n) == (n - 1) % StageBuffers

BodyLocations == {"poll", "send", "ack", "next"}
LinkLocations == {"submit", "full", "enqueue", "announce", "mark", "wait"}

\* The player runs its poll body at interrupt level 7.
NeverMasked == FALSE
Masked == pc["fg"] \in BodyLocations

At(c, l) == pc[c] = l /\ (c = "fg" => pc["irq"] = "idle")
GoTo(c, l) == pc' = [pc EXCEPT ![c] = l] /\ UNCHANGED back
Return(c) == GoTo(c, IF c = "irq" THEN "idle" ELSE back)

\* Supexec dsp_stage_poll_super
CallPoll(ret) == pc' = [pc EXCEPT !["fg"] = "poll"] /\ back' = ret
-----------------------------------------------------------------------------
(* dsp_stage_poll_body                                                     *)

PollNothing(c) ==
  /\ At(c, "poll")
  /\ ~RXDF
  /\ Return(c)
  /\ UNCHANGED <<stageVars, content, linkHistory, portVars>>

\* READY releases the announced block.
PollReady(c) ==
  /\ At(c, "poll")
  /\ rx.val = "ready"
  /\ TakeReply
  /\ GoTo(c, "send")
  /\ UNCHANGED <<stageVars, content, linkHistory>>

\* dsp_stage_poll_bad: anything else empties both slots.
RefusalKeepsQueued(c) ==
  /\ At(c, "poll")
  /\ rx.val # "ready"
  /\ TakeReply
  /\ reply' = rx.val
  /\ posted' = FALSE
  /\ dropped' = IF queued THEN dropped \cup {qbase} ELSE dropped
  /\ Return(c)
  /\ UNCHANGED <<queued, base, qbase, content, damaged, stranded>>
PollRefused(c) ==
  /\ At(c, "poll")
  /\ rx.val # "ready"
  /\ TakeReply
  /\ reply' = rx.val
  /\ queued' = FALSE
  /\ posted' = FALSE
  /\ dropped' = IF queued THEN dropped \cup {qbase} ELSE dropped
  /\ Return(c)
  /\ UNCHANGED <<base, qbase, content, damaged, stranded>>

\* The TXDE-paced send of what the announced buffer holds now.
PollSend(c) ==
  /\ At(c, "send")
  /\ SendWord(Word("block", base))
  /\ damaged' = IF content[Buffer(base)] = base THEN damaged ELSE damaged \cup {base}
  /\ GoTo(c, "ack")
  /\ UNCHANGED <<stageVars, content, stranded, dropped>>

\* The acknowledgement; the queued payload becomes the announced one ...
AckKeepsQueued(c) ==
  /\ At(c, "ack")
  /\ queued
  /\ TakeReply
  /\ reply' = rx.val
  /\ base' = qbase
  /\ GoTo(c, "next")
  /\ UNCHANGED <<posted, queued, qbase, content, linkHistory>>
PollAckNext(c) ==
  /\ At(c, "ack")
  /\ queued
  /\ TakeReply
  /\ reply' = rx.val
  /\ base' = qbase
  /\ queued' = FALSE
  /\ GoTo(c, "next")
  /\ UNCHANGED <<posted, qbase, content, linkHistory>>

\* ... or, with nothing queued, the pipeline is empty (dsp_stage_poll_drained).
DrainedStaysPosted(c) ==
  /\ At(c, "ack")
  /\ ~queued
  /\ TakeReply
  /\ reply' = rx.val
  /\ Return(c)
  /\ UNCHANGED <<posted, queued, base, qbase, content, linkHistory>>
PollAckDrained(c) ==
  /\ At(c, "ack")
  /\ ~queued
  /\ TakeReply
  /\ reply' = rx.val
  /\ posted' = FALSE
  /\ Return(c)
  /\ UNCHANGED <<queued, base, qbase, content, linkHistory>>

\* The command word of the payload just promoted.
PromoteSilently(c) ==
  /\ At(c, "next")
  /\ Return(c)
  /\ UNCHANGED <<stageVars, content, linkHistory, portVars>>
PollAnnounceNext(c) ==
  /\ At(c, "next")
  /\ SendWord(Word("refill", base))
  /\ Return(c)
  /\ UNCHANGED <<stageVars, content, linkHistory>>

Body(c) == PollNothing(c) \/ PollReady(c) \/ PollRefused(c) \/ PollSend(c)
           \/ PollAckNext(c) \/ PollAckDrained(c) \/ PollAnnounceNext(c)

\* dsp_rt_submit_poll_irq, with Timer A installed.  A tick that finds nothing
\* announced or nothing answered returns at once: a stuttering step.
PollUnannounced(clock) ==
  /\ clock
  /\ pc["irq"] = "idle"
  /\ ~Masked
  /\ RXDF
  /\ GoTo("irq", "poll")
  /\ UNCHANGED <<stageVars, content, linkHistory, portVars>>
PollOnlyQueued(clock) ==
  /\ clock
  /\ pc["irq"] = "idle"
  /\ ~Masked
  /\ posted /\ queued
  /\ RXDF
  /\ GoTo("irq", "poll")
  /\ UNCHANGED <<stageVars, content, linkHistory, portVars>>
PollIrq(clock) ==
  /\ clock
  /\ pc["irq"] = "idle"
  /\ ~Masked
  /\ posted
  /\ RXDF
  /\ GoTo("irq", "poll")
  /\ UNCHANGED <<stageVars, content, linkHistory, portVars>>
-----------------------------------------------------------------------------
(* dsp_rt_submit of payload n: its tests run with interrupts open.         *)

\* tst.b dsp_stage_posted, on entry and after each poll of the full pipeline
SubmitTestPosted ==
  /\ At("fg", "submit")
  /\ GoTo("fg", IF posted THEN "full" ELSE "announce")
  /\ UNCHANGED <<stageVars, content, linkHistory, portVars>>

SubmitTestQueued ==
  /\ At("fg", "full")
  /\ IF queued THEN CallPoll("submit") ELSE GoTo("fg", "enqueue")
  /\ UNCHANGED <<stageVars, content, linkHistory, portVars>>

\* dsp_rt_submit_enqueue: dsp_stage_queued is set last.
Enqueue(n) ==
  /\ At("fg", "enqueue")
  /\ qbase' = n
  /\ queued' = TRUE
  /\ stranded' = IF posted THEN stranded ELSE stranded \cup {n}
  /\ GoTo("fg", "check")
  /\ UNCHANGED <<posted, base, reply, content, damaged, dropped, portVars>>

\* dsp_rt_submit_announce: the command word, then dsp_stage_posted, then one
\* immediate poll.
Announce(n) ==
  /\ At("fg", "announce")
  /\ SendWord(Word("refill", n))
  /\ base' = n
  /\ GoTo("fg", "mark")
  /\ UNCHANGED <<posted, queued, qbase, reply, content, linkHistory>>

AnnounceMark ==
  /\ At("fg", "mark")
  /\ posted' = TRUE
  /\ CallPoll("check")
  /\ UNCHANGED <<queued, base, qbase, reply, content, linkHistory, portVars>>

Submit(n) == SubmitTestPosted \/ SubmitTestQueued \/ Enqueue(n) \/ Announce(n)
             \/ AnnounceMark

\* dsp_rt_submit_poll and the loop of dsp_rt_submit_wait: poll while announced.
PollWhilePosted(l) ==
  /\ At("fg", l)
  /\ posted
  /\ CallPoll(l)
  /\ UNCHANGED <<stageVars, content, linkHistory, portVars>>

\* dsp_stage_reply is loader-zeroed: DSP_REPLY_OK.
LinkInit ==
  /\ back = "loop"
  /\ posted = FALSE
  /\ queued = FALSE
  /\ base = 0
  /\ qbase = 0
  /\ reply = "ok"
  /\ content = [b \in 0 .. StageBuffers - 1 |-> 0]
  /\ damaged = {}
  /\ stranded = {}
  /\ dropped = {}

LinkTypeOK ==
  /\ back \in {"loop", "build", "submit", "check", "wait"}
  /\ posted \in BOOLEAN
  /\ queued \in BOOLEAN
  /\ base \in Numbers
  /\ qbase \in Numbers
  /\ reply \in Answers
  /\ content \in [0 .. StageBuffers - 1 -> Numbers]
  /\ damaged \subseteq Numbers
  /\ stranded \subseteq Numbers
  /\ dropped \subseteq Numbers
=============================================================================
