-------------------------- MODULE RefillInvariant --------------------------
(***************************************************************************)
(* The inductive invariants of RefillPipeline.  PortInv ties the contents   *)
(* of the host port and the DSP's phase to what the two contexts are       *)
(* doing; FifoInv ties the payload numbers in the two slots, the staging   *)
(* buffers and the delivered sequence together.                            *)
(***************************************************************************)
EXTENDS RefillPipeline

NoWords == tx = NoWord /\ hrx = NoWord
Carries(w) == \/ tx = w /\ hrx = NoWord
              \/ tx = NoWord /\ hrx = w

\* What the port and the DSP can be in the middle of.
Idle == NoWords /\ rx = NoReply /\ dsp # "receive"
Commanded == Carries(Word("refill", base)) /\ rx = NoReply /\ dsp # "receive"
Answered == NoWords /\ rx = Reply("ready", "refill") /\ dsp = "receive"
Granted == NoWords /\ rx = NoReply /\ dsp = "receive"
Sending == Carries(Word("block", base)) /\ rx = NoReply /\ dsp = "receive"
Acked == NoWords /\ rx = Reply("ok", "block") /\ dsp # "receive"
Exchanging == Carries(Word(cmd, 0)) /\ rx = NoReply /\ dsp # "receive"
Exchanged == NoWords /\ rx = Reply("ok", cmd) /\ dsp # "receive"
Announced == Commanded \/ Answered

InBody(l) == pc["fg"] = l \/ pc["irq"] = l
Delivering == InBody("send") \/ InBody("ack") \/ InBody("next")
OffPort == {"announce", "mark", "cleanup", "xsend", "xrecv", "done"}

\* The two contexts, whatever the DSP answers.
ContextInv == pc["irq"] \in BodyLocations => pc["fg"] \notin BodyLocations

PortInv ==
  /\ reply = "ok"
  /\ pc["irq"] \in BodyLocations => posted
  /\ pc["fg"] \in OffPort => ~posted
  /\ Delivering => posted
  /\ InBody("send") => Granted
  /\ InBody("ack") => Sending \/ Acked
  /\ InBody("next") => Idle
  /\ pc["irq"] = "poll" => Answered
  /\ pc["fg"] = "mark" => Announced
  /\ pc["fg"] = "xrecv" => Exchanging \/ Exchanged
  /\ ~Delivering /\ pc["fg"] \notin {"mark", "xrecv"} =>
       IF posted THEN Announced ELSE Idle

\* A submission takes effect when the payload enters a slot.
Unsubmitted ==
  \/ pc["fg"] \in {"submit", "full", "enqueue", "announce"}
  \/ pc["fg"] \in BodyLocations /\ back = "submit"
Submitting ==
  \/ Unsubmitted
  \/ pc["fg"] = "build"
  \/ pc["fg"] \in BodyLocations /\ back = "build"
Handed == IF Submitting THEN built - 1 ELSE built

Occupied == posted \/ pc["fg"] = "mark"

FifoInv ==
  /\ \A i \in 1 .. Len(arrived) : arrived[i] = i
  /\ damaged = {}
  /\ queued => posted /\ qbase = base + 1
  /\ pc["fg"] = "enqueue" => ~queued
  /\ Occupied => base = IF rx = Reply("ok", "block") THEN Len(arrived)
                                                     ELSE Len(arrived) + 1
  /\ Handed = IF queued THEN qbase ELSE IF Occupied THEN base ELSE Len(arrived)
  /\ \A n \in Numbers : n > Len(arrived) /\ n <= Handed => content[Buffer(n)] = n
  /\ Submitting => built > 0
  /\ Unsubmitted => content[Buffer(built)] = built

IInv ==
  /\ TypeOK
  /\ ContextInv
  /\ Healthy => PortInv
  /\ Healthy /\ stranded = {} => FifoInv
-----------------------------------------------------------------------------
(* With refusals, and payloads stranded or not: what is lost stays lost.   *)

Refusal == NoWords /\ rx = Reply("error", "refill") /\ dsp # "receive"

\* The error exit leaves with a payload announced; nobody polls after that.
Abandoned == posted /\ pc["fg"] \in {"xsend", "xrecv", "done"}

SlotInv ==
  /\ pc["irq"] \in BodyLocations => posted
  /\ pc["fg"] \in {"announce", "mark"} => ~posted
  /\ Delivering => posted
  /\ InBody("send") => Granted
  /\ InBody("ack") => Sending \/ Acked
  /\ InBody("next") => Idle
  /\ pc["irq"] = "poll" => Answered \/ Refusal
  /\ pc["fg"] = "mark" => Announced \/ Refusal
  /\ pc["fg"] = "xrecv" /\ ~posted => Exchanging \/ Exchanged
  /\ Abandoned =>
       /\ ~clock /\ pc["irq"] = "idle" /\ goal = "exit" /\ rx # Reply("ok", "block")
       /\ \A w \in {tx, hrx} : w.kind # "block" /\ (w.kind = "refill" => w.load = base)
       /\ tx.kind # "refill" \/ hrx.kind # "refill"
  /\ ~Delivering /\ pc["fg"] \notin {"mark", "xrecv"} /\ ~Abandoned =>
       IF posted THEN Announced \/ Refusal ELSE Idle

Settled == Sent \cup refused \cup dropped

\* A payload is announced or queued once, and the announced one is not settled
\* before its answer.
NumberInv ==
  /\ LostNeverSent
  /\ \A n \in Settled : n <= Handed
  /\ Submitting => built > 0
  /\ queued => qbase <= Handed /\ qbase \notin Settled /\ (Occupied => qbase # base)
  /\ pc["fg"] = "enqueue" => ~queued
  /\ Occupied => base <= Handed
  /\ Occupied /\ ~Abandoned /\ ~Acked /\ ~Refusal => base \notin Settled
  /\ Abandoned /\ "refill" \in {tx.kind, hrx.kind} => base \notin Settled
  /\ Occupied /\ Acked => base \in Sent
  /\ Occupied /\ Refusal => base \in refused

LostInv == TypeOK /\ ContextInv /\ SlotInv /\ NumberInv
=============================================================================
