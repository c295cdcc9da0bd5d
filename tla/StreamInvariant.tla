-------------------------- MODULE StreamInvariant --------------------------
(***************************************************************************)
(* The inductive invariant of DspStream.  LinkInv: the host has one word   *)
(* or reply under way, and the program is where that word belongs.         *)
(* PlayInv: which of the two buffers holds which payload, and which of     *)
(* them plays.  LogInv: what has been acknowledged and not yet applied.    *)
(* SpinInv: a watching loop is never late for the pointer.                 *)
(***************************************************************************)
EXTENDS DspStream

Numbers == 0 .. Payloads
Buffers == 0 .. 1
HandoffAt == {"catch", "complete", "switch"}
Returns == {"tail", "halt", "early", "fill", "earlyAck"}

StreamTypeOK ==
  /\ tx \in Port!Words /\ hrx \in Port!Words /\ word \in Port!Words /\ rx \in Port!Replies
  /\ host \in {"idle", "refill", "granted", "block", "write", "stop", "over"} /\ budget \in Nat
  /\ at \in {"stream", "receive", "serve", "commit", "render", "halt", "stopped"}
              \cup Watching \cup HandoffAt
  /\ return \in Returns \cup {"stream", "wait"}
  /\ r6 \in [buf : Buffers, pos : 0 .. Words - 1]
  /\ active \in Buffers /\ refill \in Buffers /\ output \in Buffers
  /\ turn \in BOOLEAN /\ tie \in BOOLEAN /\ pending \in BOOLEAN /\ switched \in BOOLEAN
  /\ early \in BOOLEAN
  /\ pcm \in Numbers /\ frame \in 0 .. Frames
  /\ buffer \in [Buffers -> [0 .. Frames - 1 -> Numbers]]
  /\ out \in [load : Numbers, pos : 0 .. Words - 1]
  /\ accepted \in Seq(Port!Words) /\ applied \in Seq(Port!Words) /\ arrived \in Seq(Numbers)
-----------------------------------------------------------------------------
\* Where the program is, or will be when the handoff it is in returns.
In(places) == at \in places \/ (at \in HandoffAt /\ return \in places)
EarlyPlaces == {"early", "fill", "earlyAck"}

\* The host's word w is under way, in one register; or its answer is.
Alone(w) ==
  \/ tx = w /\ hrx = NoWord /\ word = NoWord
  \/ tx = NoWord /\ hrx = w /\ word = NoWord
  \/ tx = NoWord /\ hrx = NoWord /\ word = w
Travels(w) == Alone(w) /\ rx = NoReply
Answered(v, k) == Alone(NoWord) /\ rx = Reply(v, k)
Quiet == Alone(NoWord) /\ rx = NoReply

WordPlace ==
  CASE In({"fill", "earlyAck"}) -> "block"
    [] at = "serve" -> "write"
    [] at \in {"waitStop", "halt"} \/ (at \in HandoffAt /\ return = "halt") -> "stop"
    [] OTHER -> "none"

LinkInv ==
  /\ host \in {"idle", "granted", "over"} => Quiet
  /\ host = "refill" => Travels(Word("refill", Len(arrived) + 1)) \/ Answered("ready", "refill")
  /\ host = "block" => Travels(Word("block", Len(arrived) + 1)) \/ Answered("ok", "block")
  /\ host \in {"write", "stop"} => Travels(Word(host, 0)) \/ Answered("ok", host)
  /\ host \in {"refill", "granted"} \/ (host = "block" /\ rx = NoReply) => Len(arrived) < Payloads
  /\ Len(arrived) <= Payloads
  /\ word.kind = WordPlace
  /\ In({"receive", "early"}) <=>
       \/ host = "granted" \/ (host = "refill" /\ rx # NoReply)
       \/ host = "block" /\ rx = NoReply /\ word = NoWord
  /\ at = "stopped" <=> host = "over" \/ (host = "stop" /\ rx # NoReply)
-----------------------------------------------------------------------------
\* The newest period that has been rendered plays.
Handed ==
  \/ at \in {"stream", "receive", "commit", "halt", "stopped"}
  \/ at = "serve" /\ return = "stream"
  \/ switched

\* A payload has been acknowledged and its burst is not applied.
Uncommitted == at = "commit" \/ pending
Committed == Len(arrived) - (IF Uncommitted THEN 1 ELSE 0)

Filled(b, frames, n) == \A f \in 0 .. frames - 1 : buffer[b][f] = n

FlowInv ==
  /\ at \in HandoffAt => return \in Returns
  /\ at = "serve" => return \in {"stream", "wait"}
  /\ at = "serve" /\ return = "wait" => early /\ ~pending
  /\ pending => at = "wait" \/ (at \in HandoffAt /\ return = "tail")
  /\ switched => at \in EarlyPlaces
  /\ tie <=> at \notin {"complete", "switch", "stopped"}
  /\ at = "catch" => r6.pos = 0 \/ (r6.pos = 1 /\ ~turn)
  /\ at = "complete" => r6.pos \in {0, 1}
  /\ at = "switch" => r6.pos \in {0, 2}

PlayInv ==
  /\ r6.buf = active
  /\ r6.pos = (out.pos + 1) % Words
  /\ Filled(active, Frames, out.load)
  /\ IF Handed THEN out.load = Committed
     ELSE /\ out.load + 1 = Committed
          /\ refill = Other(active)
          /\ Filled(refill, IF at = "render" THEN frame ELSE Frames, Committed)
  /\ at = "render" => frame < Frames
  /\ at \in {"receive", "commit"} => refill = Other(active)
  /\ pending => output = active
  /\ In(EarlyPlaces) => output = IF switched THEN Other(active) ELSE active
  /\ In({"fill", "earlyAck"}) => pcm = Len(arrived) + 1
  /\ Uncommitted \/ at = "render" => pcm = Len(arrived)

LogInv == accepted = IF Uncommitted THEN Append(applied, Word("block", pcm)) ELSE applied

SpinInv == at \in Watching /\ ~switched /\ r6.pos = 0 => ~turn

StreamInv == StreamTypeOK /\ LinkInv /\ FlowInv /\ PlayInv /\ LogInv /\ SpinInv
=============================================================================
