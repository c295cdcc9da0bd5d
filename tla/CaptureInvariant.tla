-------------------------- MODULE CaptureInvariant --------------------------
(***************************************************************************)
(* The inductive invariant of a capture, besides that of the renderer: the *)
(* scenario that the tool compiled is what the DSP accepted, and the clock *)
(* of every dump is that of the frames before it; and, in PhaseInv, that   *)
(* the chip is what the events applied made of it.                         *)
(***************************************************************************)
EXTENDS CaptureRows, KernelInvariant

ToolTypeOK ==
  /\ tool \in {"none", "trace", "queue", "run", "read", "done"}
  /\ trace \in Seq([sample : Nat, write : {"pitch", "on", "off"}])
  /\ dumps \in [state : Seq({dumps.state[i] : i \in 1 .. Len(dumps.state)}),
                buffer : Seq({dumps.buffer[i] : i \in 1 .. Len(dumps.buffer)})]

\* The tool queues before the first frame, and nothing else does.
ToolInv ==
  /\ transport # "capture" <=> tool = "none"
  /\ tool \in {"none", "trace", "queue"} => dumps.state = <<>> /\ dumps.buffer = <<>>
  /\ tool \in {"trace", "queue"} => dsp = "idle" /\ rendered = <<>> /\ applied = <<>>
  /\ tool = "trace" => accepted = <<>>
  /\ tool = "queue" => Fits(trace)

\* What the DSP has accepted is the head of the trace, and all of it once it
\* renders.
ScenarioInv ==
  tool # "none" =>
    /\ reply # "error"
    /\ Len(accepted) <= Len(trace)
    /\ \A i \in 1 .. Len(accepted) : accepted[i].due = trace[i].sample /\ accepted[i].after = 0
    /\ tool = "run" \/ dumps.state # <<>> => Len(accepted) = Len(trace)

\* A dump of the state for every block entered, one of the buffers for every
\* buffer but the last, which may be due.
DumpInv ==
  /\ \A i \in 1 .. Len(dumps.state) :
       dumps.state[i].clock = Natives((i - 1) * BlockFrames) % ClockMod
  /\ \A n \in 1 .. Len(dumps.buffer) :
       dumps.buffer[n].clock = Natives(n * BufferFrames) % ClockMod
  /\ Len(dumps.buffer) * BufferFrames <= Len(rendered)
  /\ tool = "run" =>
       /\ Len(dumps.state) * BlockFrames = IF dsp = "idle" THEN Len(rendered) ELSE End
       /\ Len(dumps.state) <= (Len(dumps.buffer) + 1) * BufferBlocks

\* Rows are written of a complete run only.
RowsInv ==
  /\ failure # "native clock"
  /\ RowsWritten =>
       tool # "none" /\ dumps.state # <<>> /\ Len(dumps.buffer) * BufferFrames = CaptureFrames

CaptureInv == KernelInv /\ ToolTypeOK /\ ToolInv /\ ScenarioInv /\ DumpInv /\ RowsInv
-----------------------------------------------------------------------------
(* The chip and its phases, in numbers of events applied.                  *)

AppliedAt(f) == IF f = 0 THEN 0 ELSE rendered[f].applied
PhaseAt(f) == IF f = 0 THEN 0 ELSE rendered[f].acc

\* Some event behind the m-th, up to the n-th, is a key-on edge.
EdgeIn(m, n) == \E i \in m + 1 .. n : i \in Edges
\* The increment after n events
IncrementOf(n) == IF \E i \in 1 .. n : trace[i].write = "pitch" THEN 3 ELSE Silent.inc
\* The chip after n events, of which m came before the frame that left it at x
ChipAfter(m, n, x) ==
  [inc |-> IncrementOf(n), key |-> KeyIsOn(n + 1), acc |-> IF EdgeIn(m, n) THEN 0 ELSE x]

\* A frame goes on from the one before it, or from 0 when an edge came between.
FrameFollows(f) ==
  PhaseAt(f) =
    ((IF EdgeIn(AppliedAt(f - 1), AppliedAt(f)) THEN 0 ELSE PhaseAt(f - 1))
       + IncrementOf(AppliedAt(f))) % PhaseMod

ChipInv ==
  tool # "none" =>
    LET n == Len(applied)
        last == Len(rendered)
    IN /\ \A i \in 1 .. Len(accepted) : accepted[i].write = trace[i].write
       /\ chip = ChipAfter(AppliedAt(last), n, PhaseAt(last))
       /\ AppliedAt(last) <= n
       /\ dsp = "idle" => AppliedAt(last) = n
       /\ \A f \in 1 .. last : PhaseAt(f) \in 0 .. PhaseMod - 1 /\ FrameFollows(f)

\* A dump has the chip behind a frame, and a buffer the phases of its frames.
ChipOf(dump, f) == dump.acc = PhaseAt(f) /\ dump.inc = IncrementOf(AppliedAt(f))
DumpedInv ==
  /\ \A i \in 1 .. Len(dumps.state) :
       (i - 1) * BlockFrames <= Len(rendered) /\ ChipOf(dumps.state[i], (i - 1) * BlockFrames)
  /\ \A n \in 1 .. Len(dumps.buffer) :
       /\ ChipOf(dumps.buffer[n], n * BufferFrames)
       /\ LET output == dumps.buffer[n].ssi[dumps.buffer[n].output]
          IN \A i \in 1 .. BufferFrames : output[i] = PhaseAt((n - 1) * BufferFrames + i)

PhaseInv == ChipInv /\ DumpedInv /\ SegmentsAgree
=============================================================================
