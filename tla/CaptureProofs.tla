--------------------------- MODULE CaptureProofs ---------------------------
(***************************************************************************)
(* Proofs about CaptureRows: the tool's schedule in closed form, then      *)
(* CaptureInv step by step, and what follows of the rows; then the chip,   *)
(* PhaseInv step by step, and the rows' phases and outputs.                *)
(***************************************************************************)
EXTENDS CaptureInvariant, KernelProofs

(* Functions defined frame by frame.                                       *)

LEMMA FrameByFrame ==
  ASSUME NEW N \in Nat, NEW a, NEW b, a[0] = b[0],
         \A f \in 1 .. N : a[f - 1] = b[f - 1] => a[f] = b[f]
  PROVE  \A f \in 0 .. N : a[f] = b[f]
  <1> DEFINE Apart == {f \in 0 .. N : a[f] # b[f]}
  <1>1. SUFFICES ASSUME Apart # {} PROVE FALSE
    OBVIOUS
  <1>2. PICK f \in Apart : \A g \in Apart : f <= g
    <2>1. Apart \in SUBSET Nat
      OBVIOUS
    <2> HIDE DEF Apart
    <2>2. QED
      BY <1>1, <2>1, Least
  <1>3. f \in 0 .. N /\ a[f] # b[f]
    BY <1>2
  <1>4. f \in 1 .. N /\ f - 1 \in 0 .. N
    BY <1>3
  <1>5. f - 1 \notin Apart
    BY <1>2, <1>4
  <1>6. QED
    BY <1>3, <1>4, <1>5

\* A frame's step of the native clock.
LEMMA FrameStep ==
  ASSUME NEW f \in Nat \ {0}
  PROVE  /\ Natives(f) = Natives(f - 1) + ((Rest(f - 1) + Num) \div Den)
         /\ Rest(f) = (Rest(f - 1) + Num) % Den
  <1>1. f - 1 \in Nat /\ (f - 1) + 1 = f /\ 1 * Num = Num
    BY Constants
  <1>2. QED
    BY <1>1, NativesPlus

LEMMA NoFrames == Natives(0) = 0 /\ Rest(0) = 0
  <1>1. 0 * Num = 0 /\ 0 \div Den = 0 /\ 0 % Den = 0
    BY Constants
  <1>2. QED
    BY <1>1 DEF Natives, Rest

\* The tool's schedule, stepped frame by frame, is the DSP's clock.
LEMMA ScheduleIs == \A f \in 0 .. CaptureFrames : Schedule[f] = Natives(f)
  <1> DEFINE Steps(a) ==
               [f \in 0 .. CaptureFrames |->
                  IF f = 0 THEN [native |-> 0, phase |-> 0]
                  ELSE LET p == a[f - 1].phase + Num
                       IN [native |-> a[f - 1].native + p \div Den, phase |-> p % Den]]
             at == CHOOSE a : a = Steps(a)
             Closed == [f \in 0 .. CaptureFrames |-> [native |-> Natives(f), phase |-> Rest(f)]]
  <1>0. CaptureFrames \in Nat
    BY CaptureAssumption
  <1>1. Closed = Steps(Closed)
    <2>1. ASSUME NEW f \in 0 .. CaptureFrames PROVE Closed[f] = Steps(Closed)[f]
      <3>1. CASE f = 0
        BY <3>1, NoFrames
      <3>2. CASE f # 0
        <4>1. f \in Nat \ {0} /\ f - 1 \in 0 .. CaptureFrames
          BY <1>0, <3>2
        <4>2. Closed[f - 1].native = Natives(f - 1) /\ Closed[f - 1].phase = Rest(f - 1)
          BY <4>1
        <4>3. QED
          BY <3>2, <4>1, <4>2, FrameStep
      <3>3. QED
        BY <3>1, <3>2
    <2>2. QED
      BY <2>1
  <1>2. at = Steps(at)
    BY <1>1
  <1>3. Schedule = [f \in 0 .. CaptureFrames |-> at[f].native]
    BY DEF Schedule
  <1>4. \A f \in 0 .. CaptureFrames : at[f] = Closed[f]
    <2> HIDE DEF at, Closed
    <2>1. at[0] = Closed[0]
      <3>1. at[0] = [native |-> 0, phase |-> 0]
        BY <1>0, <1>2
      <3>2. Closed[0] = [native |-> 0, phase |-> 0]
        BY <1>0, <1>1
      <3>3. QED
        BY <3>1, <3>2
    <2>2. ASSUME NEW f \in 1 .. CaptureFrames, at[f - 1] = Closed[f - 1] PROVE at[f] = Closed[f]
      <3>1. f \in 0 .. CaptureFrames /\ f # 0
        BY <1>0
      <3>2. at[f] = Steps(at)[f] /\ Closed[f] = Steps(Closed)[f]
        BY <1>1, <1>2
      <3>3. Steps(at)[f] = Steps(Closed)[f]
        BY <2>2, <3>1
      <3>4. QED
        BY <3>2, <3>3
    <2>3. QED
      BY <1>0, <2>1, <2>2, FrameByFrame
  <1>5. ASSUME NEW f \in 0 .. CaptureFrames PROVE Schedule[f] = Natives(f)
    <2>1. Closed[f].native = Natives(f) /\ at[f] = Closed[f]
      BY <1>4
    <2> HIDE DEF at, Closed
    <2>2. Schedule[f] = at[f].native
      BY <1>3
    <2>3. QED
      BY <2>1, <2>2
  <1>6. QED
    BY <1>5
-----------------------------------------------------------------------------
(* Blocks, buffers and the frames of a capture.                            *)

LEMMA Cancel ==
  ASSUME NEW k \in Nat \ {0}, NEW x \in Int, NEW y \in Int
  PROVE  (x * k <= y * k <=> x <= y) /\ (x * k = y * k <=> x = y)
  <1>1. x <= y => x * k <= y * k
    OBVIOUS
  <1>2. x >= y + 1 => x * k >= y * k + k
    OBVIOUS
  <1>3. y >= x + 1 => y * k >= x * k + k
    OBVIOUS
  <1>4. x * k \in Int /\ y * k \in Int
    OBVIOUS
  <1>5. x <= y \/ x >= y + 1
    OBVIOUS
  <1>6. x = y \/ x >= y + 1 \/ y >= x + 1
    OBVIOUS
  <1>7. QED
    BY <1>1, <1>2, <1>3, <1>4, <1>5, <1>6

LEMMA CaptureConstants ==
  /\ BlockFrames \in Nat \ {0} /\ BufferBlocks \in Nat \ {0} /\ BufferFrames \in Nat \ {0}
  /\ CaptureFrames \in Nat \ {0} /\ Blocks \in Nat \ {0} /\ CaptureFrames = Blocks * BlockFrames
  <1>1. /\ BlockFrames \in Nat \ {0} /\ BufferBlocks \in Nat \ {0} /\ CaptureFrames \in Nat \ {0}
        /\ CaptureFrames % (BlockFrames * BufferBlocks) = 0
    BY KernelAssumption, CaptureAssumption
  <1>2. BufferFrames = BlockFrames * BufferBlocks /\ BufferFrames \in Nat \ {0}
    BY <1>1 DEF BufferFrames
  <1>3. PICK m \in Int : CaptureFrames = BufferFrames * m
    <2>1. PICK n \in Nat, k \in Nat \ {0} : n = CaptureFrames /\ k = BufferFrames /\ n % k = 0
      BY <1>1, <1>2
    <2>2. n = k * (n \div k) + (n % k) /\ n \div k \in Int
      BY Division
    <2>3. PICK m \in Int : n = k * m
      BY <2>1, <2>2
    <2>4. CaptureFrames = BufferFrames * m
      BY <2>1, <2>3
    <2>5. QED
      BY <2>4
  <1>4. PICK b \in Int : b = BufferBlocks * m
    BY <1>1
  <1>5. CaptureFrames = BlockFrames * b + 0
    BY <1>1, <1>2, <1>3, <1>4
  <1>6. Blocks = b
    <2>1. 0 \in 0 .. BlockFrames - 1
      BY <1>1
    <2>2. QED
      BY <1>1, <1>5, <2>1, Quotient DEF Blocks
  <1>7. CaptureFrames = b * BlockFrames
    BY <1>1, <1>5
  <1>8. b >= 1
    <2>1. b <= 0 => b * BlockFrames <= 0
      BY <1>1
    <2>2. QED
      BY <1>1, <1>7, <2>1
  <1>9. QED
    BY <1>1, <1>2, <1>6, <1>7, <1>8

\* Buffers of whole blocks.
LEMMA BufferOfBlocks ==
  ASSUME NEW n \in Int
  PROVE  n * BufferFrames = (n * BufferBlocks) * BlockFrames /\ n * BufferBlocks \in Int
         /\ n * BufferFrames \in Int
  BY CaptureConstants DEF BufferFrames

\* While a block is rendered its end stays where it is, and frames are only added.
LEMMA RenderEnds ==
  ASSUME KernelInv, RenderSteps
  PROVE  /\ dsp # "idle" /\ UNCHANGED <<transport, reply, accepted>>
         /\ Len(rendered') \in Nat /\ Len(rendered) <= Len(rendered')
         /\ (IF dsp' = "idle" THEN Len(rendered') ELSE End') = End
  <1>1. PICK R \in Nat : R = Len(rendered)
    BY Lengths DEF KernelInv
  <1>2. KernelTypeOK /\ BlockFrames \in Nat /\ seg.start \in Nat
    BY Constants DEF KernelInv, KernelTypeOK
  <1>3. CASE WholeBlock
    <2>1. dsp = "block" /\ dsp' = "idle" /\ Frames(BlockFrames) /\ UNCHANGED <<transport, reply, accepted>>
      BY <1>3 DEF WholeBlock
    <2>2. Len(rendered') = R + BlockFrames
      BY <1>1, <1>2, <2>1, FramesLists
    <2>3. QED
      BY <1>1, <1>2, <2>1, <2>2 DEF Start, End
  <1>4. CASE Split
    <2>1. dsp = "block" /\ dsp' = "split" /\ rendered' = rendered /\ UNCHANGED <<transport, reply, accepted>>
          /\ seg'.start = 0
      BY <1>4 DEF Split
    <2>2. QED
      BY <1>1, <1>2, <2>1 DEF Start, End
  <1>5. CASE Segment
    <2>1. dsp = "split" /\ HeadLands /\ HeadOffset \in Int
      BY <1>5, HeadSeen DEF Segment, HeadLands
    <2>2. PICK k \in Nat : k = LandingOffset
      <3>1. LandingOffset \in 0 .. BlockFrames - seg.start - 1
        BY <2>1, Landing
      <3>2. QED
        BY <1>2, <3>1
    <2>3. /\ dsp' = "split" /\ Frames(k) /\ UNCHANGED <<transport, reply, accepted>>
          /\ seg' = [seg EXCEPT !.start = @ + k, !.consumed = Consumed(k),
                                !.phase = (seg.phase + k * Num) % Den]
      BY <1>5, <2>1, <2>2 DEF Segment
    <2>4. seg'.start = seg.start + k
      <3>1. seg \in [native : Nat, adv : Nat, start : Nat, phase : Nat, consumed : Nat]
        BY <1>2 DEF KernelTypeOK
      <3>2. PICK c, p, t : c = Consumed(k) /\ p = (seg.phase + k * Num) % Den /\ t = seg.start + k
        OBVIOUS
      <3>3. seg' = [seg EXCEPT !.start = t, !.consumed = c, !.phase = p]
        BY <2>3, <3>2
      <3>4. QED
        BY <3>1, <3>2, <3>3
    <2>5. Len(rendered') = R + k
      BY <1>1, <1>2, <2>3, FramesLists
    <2>6. QED
      BY <1>1, <1>2, <2>1, <2>3, <2>4, <2>5 DEF Start, End
  <1>6. CASE LastSegment
    <2>1. /\ dsp = "split" /\ dsp' = "idle" /\ Frames(BlockFrames - seg.start)
          /\ UNCHANGED <<transport, reply, accepted>>
      BY <1>6 DEF LastSegment
    <2>2. BlockFrames - seg.start \in Nat /\ seg.start < BlockFrames
      BY <1>2, <2>1 DEF KernelInv, CursorInv
    <2>3. Len(rendered') = R + (BlockFrames - seg.start)
      BY <1>1, <1>2, <2>1, <2>2, FramesLists
    <2>4. QED
      BY <1>1, <1>2, <2>1, <2>2, <2>3 DEF Start, End
  <1>7. QED
    BY <1>3, <1>4, <1>5, <1>6 DEF RenderSteps
-----------------------------------------------------------------------------
(* CaptureInv step by step.                                                *)

\* What CaptureInv says of lengths.
LEMMA ToolLengths ==
  ASSUME CaptureInv
  PROVE  /\ Len(trace) \in Nat /\ Len(dumps.state) \in Nat /\ Len(dumps.buffer) \in Nat
         /\ Len(rendered) \in Nat /\ Len(accepted) \in Nat /\ Len(queue) \in Nat
         /\ trace \in Seq([sample : Nat, write : {"pitch", "on", "off"}])
         /\ \A i \in 1 .. Len(trace) : trace[i].sample \in Nat /\ trace[i].write \in {"pitch", "on", "off"}
         /\ dumps.state \in Seq({dumps.state[i] : i \in 1 .. Len(dumps.state)})
         /\ dumps.buffer \in Seq({dumps.buffer[i] : i \in 1 .. Len(dumps.buffer)})
         /\ dumps = [state |-> dumps.state, buffer |-> dumps.buffer]
  <1>1. KernelTypeOK /\ ToolTypeOK
    BY DEF CaptureInv, KernelInv
  <1>2. /\ trace \in Seq([sample : Nat, write : {"pitch", "on", "off"}])
        /\ dumps.state \in Seq({dumps.state[i] : i \in 1 .. Len(dumps.state)})
        /\ dumps.buffer \in Seq({dumps.buffer[i] : i \in 1 .. Len(dumps.buffer)})
        /\ dumps = [state |-> dumps.state, buffer |-> dumps.buffer]
    BY <1>1 DEF ToolTypeOK
  <1>3. ASSUME NEW i \in 1 .. Len(trace)
        PROVE  trace[i].sample \in Nat /\ trace[i].write \in {"pitch", "on", "off"}
    <2>1. trace[i] \in [sample : Nat, write : {"pitch", "on", "off"}]
      BY <1>2, ElementOfSeq
    <2>2. QED
      BY <2>1
  <1>4. Len(trace) \in Nat /\ Len(dumps.state) \in Nat /\ Len(dumps.buffer) \in Nat
    BY <1>2, LenProperties
  <1>5. QED
    BY <1>1, <1>2, <1>3, <1>4, Lengths

\* Steps that leave the renderer alone, but for its replies.
LEMMA StreamOnlyStep ==
  ASSUME CaptureInv, StreamNext, UNCHANGED toolVars
  PROVE  CaptureInv'
  <1>1. transport' = transport /\ transport # "capture"
    BY DEF StreamNext, Host, EnqueueWrite, WriteRealtime, BeginBlock, RenderSteps,
           WholeBlock, Split, Segment, LastSegment
  <1>2. tool = "none" /\ UNCHANGED <<tool, trace, dumps, failure>>
    BY <1>1 DEF CaptureInv, ToolInv, toolVars
  <1>3. KernelInv'
    BY StreamStep DEF CaptureInv
  <1>4. ToolTypeOK' /\ ToolInv' /\ ScenarioInv' /\ RowsInv'
    <2>1. ToolTypeOK'
      BY <1>2 DEF CaptureInv, ToolTypeOK
    <2>2. ToolInv'
      BY <1>1, <1>2 DEF CaptureInv, ToolInv
    <2>3. ScenarioInv' /\ RowsInv'
      BY <1>2 DEF CaptureInv, ScenarioInv, RowsInv, RowsWritten
    <2>4. QED
      BY <2>1, <2>2, <2>3
  <1>5. DumpInv'
    <2>1. dumps'.state = <<>> /\ dumps'.buffer = <<>> /\ tool' = "none"
      BY <1>2 DEF CaptureInv, ToolInv
    <2>2. Len(rendered') \in Nat
      BY <1>3, LenProperties DEF KernelInv, KernelTypeOK
    <2>3. 0 * BufferFrames <= Len(rendered') /\ Len(<<>>) = 0
      BY <2>2, CaptureConstants
    <2>4. QED
      BY <2>1, <2>3 DEF DumpInv
  <1>6. QED
    BY <1>3, <1>4, <1>5 DEF CaptureInv

LEMMA DumpsStay ==
  ASSUME CaptureInv, UNCHANGED <<transport, dsp, seg, rendered, dumps>>, tool' = "run" => tool = "run"
  PROVE  DumpInv'
  BY DEF CaptureInv, DumpInv, End, Start, Natives, BufferFrames

LEMMA ReadEventStep ==
  ASSUME CaptureInv, NEW s \in Stamps, NEW w \in {"pitch", "on", "off"}, ReadEvent(s, w)
  PROVE  CaptureInv'
  <1>1. /\ tool = "trace" /\ trace' = Append(trace, [sample |-> s, write |-> w])
        /\ UNCHANGED <<kernelVars, tool, dumps, failure>>
    BY DEF ReadEvent
  <1>2. s \in Nat
    BY CaptureAssumption
  <1>3. trace' \in Seq([sample : Nat, write : {"pitch", "on", "off"}]) /\ Len(trace') = Len(trace) + 1
    BY <1>1, <1>2, ToolLengths
  <1>4. KernelInv'
    BY <1>1, KernelStutter DEF CaptureInv, kernelVars
  <1>5. ToolTypeOK' /\ ToolInv' /\ RowsInv'
    <2>1. ToolTypeOK'
      BY <1>1, <1>3 DEF CaptureInv, ToolTypeOK
    <2>2. ToolInv'
      BY <1>1, <1>3 DEF CaptureInv, ToolInv, kernelVars
    <2>3. RowsInv'
      BY <1>1, <1>3 DEF CaptureInv, RowsInv, RowsWritten
    <2>4. QED
      BY <2>1, <2>2, <2>3
  <1>6. ScenarioInv'
    <2>1. accepted' = <<>> /\ reply' # "error" /\ dumps'.state = <<>>
      BY <1>1 DEF CaptureInv, ToolInv, ScenarioInv, kernelVars
    <2>2. Len(accepted') = 0 /\ Len(trace') \in Nat
      BY <1>3, <2>1, ToolLengths
    <2>3. QED
      BY <1>1, <2>1, <2>2 DEF ScenarioInv
  <1>7. DumpInv'
    BY <1>1, DumpsStay DEF kernelVars
  <1>8. QED
    BY <1>4, <1>5, <1>6, <1>7 DEF CaptureInv

LEMMA CompileStep ==
  ASSUME CaptureInv, Compile
  PROVE  CaptureInv'
  <1>1. /\ tool = "trace" /\ UNCHANGED <<kernelVars, trace, dumps>>
        /\ \/ Fits(trace) /\ tool' = "queue" /\ failure' = failure
           \/ tool' = "done" /\ failure' = "scenario"
    BY DEF Compile, Fail
  <1>2. KernelInv'
    BY <1>1, KernelStutter DEF CaptureInv, kernelVars
  <1>3. Fits(trace)' <=> Fits(trace)
    BY <1>1 DEF Fits, Ordered
  <1>4. ToolTypeOK' /\ ToolInv' /\ RowsInv'
    <2>1. ToolTypeOK'
      BY <1>1, <1>3 DEF CaptureInv, ToolTypeOK
    <2>2. ToolInv'
      BY <1>1, <1>3 DEF CaptureInv, ToolInv, kernelVars
    <2>3. RowsInv'
      BY <1>1, <1>3 DEF CaptureInv, RowsInv, RowsWritten
    <2>4. QED
      BY <2>1, <2>2, <2>3
  <1>5. ScenarioInv'
    BY <1>1 DEF CaptureInv, ScenarioInv, kernelVars
  <1>6. DumpInv'
    BY <1>1, DumpsStay DEF kernelVars
  <1>7. QED
    BY <1>2, <1>4, <1>5, <1>6 DEF CaptureInv

\* The run that does not start, or ends before its last frame.
LEMMA RunEndsStep ==
  ASSUME CaptureInv, RunCut \/ RunSilent
  PROVE  CaptureInv'
  <1>1. /\ tool \in {"queue", "run"} /\ tool' \in {tool, "read"} /\ UNCHANGED <<kernelVars, trace, dumps, failure>>
    BY DEF RunCut, RunSilent
  <1>2. KernelInv'
    BY <1>1, KernelStutter DEF CaptureInv, kernelVars
  <1>3. Fits(trace)' <=> Fits(trace)
    BY <1>1 DEF Fits, Ordered
  <1>4. ToolTypeOK' /\ ToolInv' /\ RowsInv'
    <2>1. ToolTypeOK'
      BY <1>1, <1>3 DEF CaptureInv, ToolTypeOK
    <2>2. ToolInv'
      BY <1>1, <1>3 DEF CaptureInv, ToolInv, kernelVars
    <2>3. RowsInv'
      BY <1>1, <1>3 DEF CaptureInv, RowsInv, RowsWritten
    <2>4. QED
      BY <2>1, <2>2, <2>3
  <1>5. ScenarioInv'
    BY <1>1 DEF CaptureInv, ScenarioInv, kernelVars
  <1>6. DumpInv'
    BY <1>1, DumpsStay DEF kernelVars
  <1>7. QED
    BY <1>2, <1>4, <1>5, <1>6 DEF CaptureInv

LEMMA StartAudioStep ==
  ASSUME CaptureInv, StartAudio
  PROVE  CaptureInv'
  <1>1. /\ tool = "queue" /\ UNCHANGED <<kernelVars, trace, dumps, failure>> /\ tool' = "run"
        /\ Len(accepted) = Len(trace)
    BY DEF StartAudio, CaptureInv, ScenarioInv
  <1>2. KernelInv'
    BY <1>1, KernelStutter DEF CaptureInv, kernelVars
  <1>3. ToolTypeOK' /\ ToolInv' /\ RowsInv'
    <2>1. ToolTypeOK'
      BY <1>1 DEF CaptureInv, ToolTypeOK
    <2>2. ToolInv'
      BY <1>1 DEF CaptureInv, ToolInv, kernelVars
    <2>3. RowsInv'
      BY <1>1 DEF CaptureInv, RowsInv, RowsWritten
    <2>4. QED
      BY <2>1, <2>2, <2>3
  <1>4. ScenarioInv'
    BY <1>1 DEF CaptureInv, ScenarioInv, kernelVars
  <1>5. DumpInv'
    <2>1. /\ dumps'.state = <<>> /\ dumps'.buffer = <<>> /\ rendered' = <<>> /\ dsp' = "idle"
      BY <1>1 DEF CaptureInv, ToolInv, kernelVars
    <2>2. 0 * BlockFrames = 0 /\ 0 * BufferFrames = 0 /\ 0 <= (0 + 1) * BufferBlocks
      BY CaptureConstants
    <2>3. Len(<<>>) = 0
      OBVIOUS
    <2>4. QED
      BY <2>1, <2>2, <2>3 DEF DumpInv
  <1>6. QED
    BY <1>2, <1>3, <1>4, <1>5 DEF CaptureInv

\* A scenario that fits is accepted, event by event: none is past, beyond the
\* horizon, before its predecessor or without a place in the queue.
LEMMA QueueEventStep ==
  ASSUME CaptureInv, QueueEvent
  PROVE  CaptureInv'
  <1>1. PICK L \in Nat, s \in Nat, w \in {"pitch", "on", "off"} :
          /\ L = Len(accepted) /\ L < Len(trace) /\ L + 1 \in 1 .. Len(trace)
          /\ s = trace[L + 1].sample
          /\ EnqueueWrite(s % ClockMod, w)
    <2>1. PICK L \in Nat : L = Len(accepted) /\ L < Len(trace) /\ L + 1 \in 1 .. Len(trace)
      <3>1. Len(accepted) \in Nat /\ Len(trace) \in Nat
        BY ToolLengths
      <3>2. Len(accepted) < Len(trace)
        BY DEF QueueEvent
      <3>3. Len(accepted) + 1 \in 1 .. Len(trace)
        BY <3>1, <3>2
      <3>4. QED
        BY <3>1, <3>2, <3>3
    <2>2. trace[L + 1].sample \in Nat /\ trace[L + 1].write \in {"pitch", "on", "off"}
      BY <2>1, ToolLengths
    <2>3. QED
      BY <2>1, <2>2 DEF QueueEvent
  <1>2. /\ tool = "queue" /\ transport = "capture" /\ dsp = "idle" /\ rendered = <<>> /\ applied = <<>>
        /\ dumps.state = <<>> /\ dumps.buffer = <<>> /\ Fits(trace)
        /\ UNCHANGED <<tool, trace, dumps, failure>>
    BY DEF QueueEvent, CaptureInv, ToolInv, toolVars
  <1>3. KernelInv /\ LogInv /\ clock = 0
    <2>1. KernelInv /\ LogInv
      BY <1>2 DEF CaptureInv, KernelInv, OnTime
    <2>2. clock = Natives(0) % ClockMod
      BY <1>2, <2>1 DEF KernelInv, ClockInv
    <2>3. 0 % ClockMod = 0
      BY Constants
    <2>4. QED
      BY <2>1, <2>2, <2>3, NoFrames
  <1>4. ASSUME NEW i \in 1 .. Len(trace)
        PROVE  /\ trace[i].sample \in Nat /\ trace[i].sample < Half
               /\ trace[i].sample % ClockMod = trace[i].sample
               /\ Distance(trace[i].sample % ClockMod, clock) = trace[i].sample
               /\ ~Past(trace[i].sample)
    <2>1. PICK t \in Nat : t = trace[i].sample
      BY ToolLengths
    <2>2. DOMAIN trace = 1 .. Len(trace)
      BY ToolLengths, LenProperties
    <2>3. t < ClockMod \div 2
      BY <1>2, <2>1, <2>2 DEF Fits
    <2>4. t < Half /\ ~Past(t)
      BY <2>3, Constants DEF Half, Past
    <2>5. t % ClockMod = t /\ (t - 0) % ClockMod = t
      BY <2>4, Constants
    <2>6. QED
      BY <1>3, <2>1, <2>4, <2>5 DEF Distance
  <1>5. s \in Nat /\ s % ClockMod \in 0 .. ClockMod - 1 /\ Distance(s % ClockMod, clock) = s /\ ~Past(s)
    <2>1. Distance(s % ClockMod, clock) = s /\ ~Past(s)
      BY <1>1, <1>4
    <2>2. s \in Int /\ 0 \in Int
      BY <1>1
    <2>3. s % ClockMod \in 0 .. ClockMod - 1
      BY <2>2, Wrapped
    <2>4. QED
      BY <1>1, <2>1, <2>3
  <1>6. Len(queue) = L /\ L \in Nat /\ Len(trace) <= QueueMax /\ QueueMax \in Nat /\ Len(trace) \in Nat
    <2>1. Len(applied) = 0 /\ Len(queue) \in Nat
      BY <1>2, ToolLengths
    <2>2. QED
      BY <1>1, <1>2, <1>3, <2>1, ToolLengths, KernelAssumption DEF LogInv, Fits
  <1>7. Enqueueable(s % ClockMod)
    <2>1. Len(queue) < QueueMax
      BY <1>1, <1>6
    <2>2. ASSUME queue # <<>> PROVE s >= Distance(Last(queue).time, clock)
      <3>1. L # 0 /\ L \in 1 .. Len(trace) /\ L \in 1 .. Len(trace) - 1 /\ L \in 1 .. L
        <4>1. L # 0
          BY <1>6, <2>2, EmptySeq DEF CaptureInv, KernelInv, KernelTypeOK
        <4>2. QED
          BY <1>1, <1>6, <4>1
      <3>2. Last(queue).time = accepted[L].due % ClockMod
        <4>1. Last(queue) = queue[L]
          BY <1>6 DEF Last
        <4>2. Len(applied) = 0 /\ 0 + L = L
          BY <1>2
        <4>3. queue[L].time = accepted[Len(applied) + L].due % ClockMod
          BY <1>3, <1>6, <3>1 DEF LogInv
        <4>4. QED
          BY <4>1, <4>2, <4>3
      <3>3. accepted[L].due = trace[L].sample
        BY <1>1, <1>2, <3>1 DEF CaptureInv, ScenarioInv
      <3>4. trace[L].sample <= s
        BY <1>1, <1>2, <3>1 DEF Fits, Ordered
      <3>5. trace[L].sample \in Nat /\ Distance(trace[L].sample % ClockMod, clock) = trace[L].sample
        BY <1>4, <3>1
      <3>6. QED
        BY <1>5, <3>2, <3>3, <3>4, <3>5
    <2>3. QED
      BY <1>5, <2>1, <2>2 DEF Enqueueable
  <1>8. /\ accepted' = Append(accepted, Entry(w, s, FALSE)) /\ reply' = "ok"
        /\ UNCHANGED <<transport, dsp, seg, applied, rendered>>
    BY <1>1, <1>5, <1>7 DEF EnqueueWrite
  <1>9. KernelInv'
    BY <1>1, <1>2, <1>3, <1>5, EnqueueStep
  <1>10. ToolTypeOK' /\ ToolInv' /\ RowsInv'
    <2>1. ToolTypeOK'
      BY <1>2 DEF CaptureInv, ToolTypeOK
    <2>2. ToolInv'
      <3>1. Fits(trace)'
        BY <1>2 DEF Fits, Ordered
      <3>2. QED
        BY <1>2, <1>8, <3>1 DEF ToolInv
    <2>3. RowsInv'
      BY <1>2 DEF CaptureInv, RowsInv, RowsWritten
    <2>4. QED
      BY <2>1, <2>2, <2>3
  <1>11. ScenarioInv'
    <2>1. /\ Entry(w, s, FALSE) \in [write : {"pitch", "on", "off"}, due : Nat, after : Nat, live : BOOLEAN]
          /\ Entry(w, s, FALSE).due = s /\ Entry(w, s, FALSE).after = 0 /\ Len(rendered) = 0
      <3>1. Natives(Len(rendered)) = 0 /\ Len(rendered) = 0
        BY <1>2, NoFrames
      <3>2. QED
        BY <1>5, <3>1 DEF Entry
    <2>2. /\ Len(accepted') = L + 1 /\ accepted'[L + 1] = Entry(w, s, FALSE)
          /\ \A i \in 1 .. L : accepted'[i] = accepted[i]
      BY <1>1, <1>3, <1>8, <2>1, Accept DEF KernelInv
    <2>3. ASSUME NEW i \in 1 .. L + 1
          PROVE  accepted'[i].due = trace'[i].sample /\ accepted'[i].after = 0
      <3>1. CASE i = L + 1
        BY <1>1, <1>2, <2>1, <2>2, <3>1
      <3>2. CASE i # L + 1
        <4>1. i \in 1 .. L
          BY <3>2
        <4>2. accepted[i].due = trace[i].sample /\ accepted[i].after = 0
          BY <1>1, <1>2, <4>1 DEF CaptureInv, ScenarioInv
        <4>3. QED
          BY <1>2, <2>2, <4>1, <4>2
      <3>3. QED
        BY <3>1, <3>2
    <2>4. L + 1 <= Len(trace')
      BY <1>1, <1>2, <1>6
    <2>5. QED
      BY <1>2, <1>8, <2>2, <2>3, <2>4 DEF ScenarioInv
  <1>12. DumpInv'
    BY <1>2, <1>8, DumpsStay
  <1>13. QED
    BY <1>9, <1>10, <1>11, <1>12 DEF CaptureInv

\* Sequences of whatever is in them.
LEMMA Longer ==
  ASSUME NEW s, s \in Seq({s[i] : i \in 1 .. Len(s)}), NEW e, NEW t, t = Append(s, e)
  PROVE  /\ Len(t) = Len(s) + 1 /\ t[Len(s) + 1] = e
         /\ \A i \in 1 .. Len(s) : t[i] = s[i]
         /\ t \in Seq({t[i] : i \in 1 .. Len(t)})
  <1> DEFINE Old == {s[i] : i \in 1 .. Len(s)}
             New == {t[i] : i \in 1 .. Len(t)}
  <1>1. s \in Seq(Old)
    OBVIOUS
  <1> HIDE DEF Old
  <1>2. s \in Seq(Old \cup {e})
    BY <1>1, SeqMonotonic, Old \subseteq Old \cup {e}
  <1>3. /\ t \in Seq(Old \cup {e})
        /\ Len(t) = Len(s) + 1 /\ t[Len(s) + 1] = e
        /\ \A i \in 1 .. Len(s) : t[i] = s[i]
    BY <1>2, AppendProperties
  <1>4. Len(t) \in Nat /\ t = [i \in 1 .. Len(t) |-> t[i]]
    BY <1>3, LenProperties
  <1>5. t \in Seq(New)
    <2>1. \A i \in 1 .. Len(t) : t[i] \in New
      OBVIOUS
    <2> HIDE DEF New
    <2>2. QED
      BY <1>4, <2>1
  <1>6. QED
    BY <1>3, <1>5

\* The clock that is dumped at the entry of a block is that of its first frame.
LEMMA EnterBlockStep ==
  ASSUME CaptureInv, EnterBlock
  PROVE  CaptureInv'
  <1>1. PICK R \in Nat, S \in Nat, B \in Nat :
          R = Len(rendered) /\ S = Len(dumps.state) /\ B = Len(dumps.buffer)
    BY ToolLengths
  <1>2. /\ tool = "run" /\ BuffersDue = 0 /\ dsp = "idle" /\ dsp' = "block"
        /\ dumps' = [dumps EXCEPT !.state = Append(@, StateDump)]
        /\ UNCHANGED <<tool, trace, failure, transport, reply, accepted, rendered>>
    BY DEF EnterBlock, BeginBlock
  <1>3. KernelInv'
    BY BeginBlockStep DEF CaptureInv, EnterBlock
  <1>4. /\ dumps'.state = Append(dumps.state, StateDump) /\ dumps'.buffer = dumps.buffer
        /\ dumps' = [state |-> dumps'.state, buffer |-> dumps'.buffer]
    <2>1. PICK st, bu : dumps = [state |-> st, buffer |-> bu] /\ st = dumps.state /\ bu = dumps.buffer
      BY ToolLengths
    <2>2. PICK d : d = Append(st, StateDump)
      OBVIOUS
    <2>3. dumps' = [dumps EXCEPT !.state = d]
      BY <1>2, <2>1, <2>2
    <2>4. QED
      BY <2>1, <2>2, <2>3
  <1>5. /\ Len(dumps'.state) = S + 1 /\ dumps'.state[S + 1] = StateDump
        /\ \A i \in 1 .. S : dumps'.state[i] = dumps.state[i]
        /\ dumps'.state \in Seq({dumps'.state[i] : i \in 1 .. S + 1})
    <2>1. PICK s, d, t : s = dumps.state /\ d = StateDump /\ t = dumps'.state /\ t = Append(s, d)
                         /\ s \in Seq({s[i] : i \in 1 .. Len(s)})
      BY <1>4, ToolLengths
    <2>2. /\ Len(t) = Len(s) + 1 /\ t[Len(s) + 1] = d
          /\ \A i \in 1 .. Len(s) : t[i] = s[i]
          /\ t \in Seq({t[i] : i \in 1 .. Len(t)})
      BY <2>1, Longer
    <2>3. Len(s) = S /\ Len(t) = S + 1
      BY <1>1, <2>1, <2>2
    <2>4. t \in Seq({t[i] : i \in 1 .. S + 1})
      BY <2>2, <2>3
    <2>5. QED
      BY SMTT(30), <2>1, <2>2, <2>3, <2>4
  <1>6. ToolTypeOK' /\ ToolInv' /\ RowsInv'
    <2>1. ToolTypeOK'
      <3>1. dumps'.buffer \in Seq({dumps'.buffer[i] : i \in 1 .. Len(dumps'.buffer)})
        BY <1>4, ToolLengths
      <3>2. dumps'.state \in Seq({dumps'.state[i] : i \in 1 .. Len(dumps'.state)})
        BY <1>5
      <3>3. QED
        BY <1>2, <1>4, <3>1, <3>2 DEF CaptureInv, ToolTypeOK
    <2>2. ToolInv' /\ RowsInv'
      BY <1>2 DEF CaptureInv, ToolInv, RowsInv, RowsWritten
    <2>3. QED
      BY <2>1, <2>2
  <1>7. ScenarioInv'
    BY <1>2 DEF CaptureInv, ScenarioInv
  <1>8. DumpInv'
    <2>1. /\ \A i \in 1 .. S : dumps.state[i].clock = Natives((i - 1) * BlockFrames) % ClockMod
          /\ \A n \in 1 .. B : dumps.buffer[n].clock = Natives(n * BufferFrames) % ClockMod
          /\ B * BufferFrames <= R /\ S * BlockFrames = R /\ S <= (B + 1) * BufferBlocks
      BY <1>1, <1>2 DEF CaptureInv, DumpInv
    <2>2. StateDump.clock = Natives(S * BlockFrames) % ClockMod
      BY <1>1, <1>2, <2>1 DEF CaptureInv, KernelInv, ClockInv, StateDump
    <2>3. ASSUME NEW i \in 1 .. S + 1
          PROVE  dumps'.state[i].clock = Natives((i - 1) * BlockFrames) % ClockMod
      <3>1. CASE i = S + 1
        <4>1. i - 1 = S
          BY <3>1
        <4>2. QED
          BY <1>5, <2>2, <3>1, <4>1
      <3>2. CASE i # S + 1
        <4>1. i \in 1 .. S
          BY <3>2
        <4>2. QED
          BY <1>5, <2>1, <4>1
      <3>3. QED
        BY <3>1, <3>2
    <2>4. S + 1 <= (B + 1) * BufferBlocks
      <3>1. R < (B + 1) * BufferFrames
        <4>1. R \div BufferFrames = B
          BY SMTT(30), <1>1, <1>2, CaptureConstants DEF BuffersDue
        <4>2. PICK k \in Nat \ {0} : k = BufferFrames
          BY CaptureConstants
        <4>3. R = k * (R \div k) + (R % k) /\ R % k \in 0 .. k - 1
          BY <1>1, <4>2, Division
        <4>4. R = k * B + (R % k)
          BY <4>1, <4>2, <4>3
        <4>5. (B + 1) * k = k * B + k /\ k * B \in Int
          BY <1>1, <4>2
        <4>6. QED
          BY <1>1, <4>2, <4>3, <4>4, <4>5
      <3>2. PICK m \in Int : m = (B + 1) * BufferBlocks /\ (B + 1) * BufferFrames = m * BlockFrames
        <4>1. B + 1 \in Int
          OBVIOUS
        <4>2. QED
          BY <4>1, BufferOfBlocks
      <3>3. ~(m <= S)
        <4>1. m <= S => m * BlockFrames <= S * BlockFrames
          BY Cancel, CaptureConstants
        <4>2. m * BlockFrames \in Int
          BY CaptureConstants
        <4>3. QED
          BY <2>1, <3>1, <3>2, <4>1, <4>2
      <3>4. QED
        BY <3>2, <3>3
    <2>5. (S + 1) * BlockFrames = R + BlockFrames
      BY <2>1, CaptureConstants
    <2>6. (IF dsp' = "idle" THEN Len(rendered') ELSE End') = R + BlockFrames
      BY <1>1, <1>2 DEF End, Start
    <2>7. QED
      BY <1>1, <1>2, <1>4, <1>5, <2>1, <2>3, <2>4, <2>5, <2>6 DEF DumpInv, Natives, BufferFrames
  <1>9. QED
    BY <1>3, <1>6, <1>7, <1>8 DEF CaptureInv

LEMMA RenderOnStep ==
  ASSUME CaptureInv, RenderOn
  PROVE  CaptureInv'
  <1>1. tool = "run" /\ RenderSteps /\ UNCHANGED <<tool, trace, dumps, failure>>
    BY DEF RenderOn, toolVars
  <1>2. /\ dsp # "idle" /\ UNCHANGED <<transport, reply, accepted>>
        /\ Len(rendered') \in Nat /\ Len(rendered) <= Len(rendered') /\ Len(rendered) \in Nat
        /\ (IF dsp' = "idle" THEN Len(rendered') ELSE End') = End
    BY <1>1, RenderEnds, ToolLengths DEF CaptureInv
  <1>3. KernelInv'
    BY <1>1, RenderStep DEF CaptureInv
  <1>4. ToolTypeOK' /\ ToolInv' /\ RowsInv'
    <2>1. ToolTypeOK'
      BY <1>1 DEF CaptureInv, ToolTypeOK
    <2>2. ToolInv' /\ RowsInv'
      BY <1>1, <1>2 DEF CaptureInv, ToolInv, RowsInv, RowsWritten
    <2>3. QED
      BY <2>1, <2>2
  <1>5. ScenarioInv'
    BY <1>1, <1>2 DEF CaptureInv, ScenarioInv
  <1>6. DumpInv'
    <2>1. Len(dumps.buffer) * BufferFrames <= Len(rendered) /\ Len(dumps.buffer) * BufferFrames \in Int
      BY ToolLengths, BufferOfBlocks DEF CaptureInv, DumpInv
    <2>2. Len(dumps.buffer) * BufferFrames <= Len(rendered')
      BY <1>2, <2>1
    <2>3. /\ \A i \in 1 .. Len(dumps.state) :
               dumps.state[i].clock = Natives((i - 1) * BlockFrames) % ClockMod
          /\ \A n \in 1 .. Len(dumps.buffer) : dumps.buffer[n].clock = Natives(n * BufferFrames) % ClockMod
          /\ Len(dumps.state) * BlockFrames = End
          /\ Len(dumps.state) <= (Len(dumps.buffer) + 1) * BufferBlocks
      BY <1>1, <1>2 DEF CaptureInv, DumpInv
    <2>4. QED
      BY <1>1, <1>2, <2>2, <2>3 DEF DumpInv, Natives, BufferFrames
  <1>7. QED
    BY <1>3, <1>4, <1>5, <1>6 DEF CaptureInv

\* A buffer is due when its last frame is rendered.
LEMMA BufferDue ==
  ASSUME CaptureInv, tool = "run", dsp = "idle", BuffersDue = 1
  PROVE  /\ (Len(dumps.buffer) + 1) * BufferFrames = Len(rendered)
         /\ Len(rendered) \div BufferFrames = Len(dumps.buffer) + 1
  <1>1. PICK R \in Nat, S \in Nat, B \in Nat :
          R = Len(rendered) /\ S = Len(dumps.state) /\ B = Len(dumps.buffer)
    BY ToolLengths
  <1>2. S * BlockFrames = R /\ S <= (B + 1) * BufferBlocks
    BY <1>1 DEF CaptureInv, DumpInv
  <1>3. PICK k \in Nat \ {0}, m \in Int : /\ k = BufferFrames /\ m = (B + 1) * BufferBlocks
                                          /\ (B + 1) * k = m * BlockFrames
    <2>1. B + 1 \in Int
      OBVIOUS
    <2>2. QED
      BY <2>1, BufferOfBlocks, CaptureConstants
  <1>4. R <= (B + 1) * k
    <2>1. S * BlockFrames <= m * BlockFrames
      BY <1>2, <1>3, Cancel, CaptureConstants
    <2>2. QED
      BY <1>2, <1>3, <2>1
  <1>5. R = k * (R \div k) + (R % k) /\ R % k \in 0 .. k - 1 /\ R \div k \in Int
    <2>1. R \in Int /\ k \in Nat \ {0}
      BY <1>1, <1>3
    <2>2. QED
      BY <2>1, Division
  <1>6. R \div k = B + 1
    <2>1. (R \div k) - B = 1
      BY <1>1, <1>3 DEF BuffersDue
    <2>2. QED
      BY <1>1, <1>5, <2>1
  <1>7. R >= (B + 1) * k
    <2>1. R = k * (B + 1) + (R % k)
      BY <1>5, <1>6
    <2>2. k * (B + 1) = (B + 1) * k /\ k * (B + 1) \in Int
      BY <1>1, <1>3
    <2>3. QED
      BY <1>5, <2>1, <2>2
  <1>8. (B + 1) * k = R
    <2>1. (B + 1) * k \in Int /\ R \in Int
      BY <1>1, <1>3
    <2>2. QED
      BY <1>4, <1>7, <2>1
  <1>9. QED
    BY <1>1, <1>3, <1>6, <1>8

\* The buffers are dumped when the last frame of one is rendered.
LEMMA FinishBufferStep ==
  ASSUME CaptureInv, FinishBuffer
  PROVE  CaptureInv'
  <1>1. PICK R \in Nat, S \in Nat, B \in Nat :
          R = Len(rendered) /\ S = Len(dumps.state) /\ B = Len(dumps.buffer)
    BY ToolLengths
  <1>2. PICK d : d = BufferDump(Len(rendered) \div BufferFrames)
    OBVIOUS
  <1>3. /\ tool = "run" /\ tool' \in {"run", "read"} /\ BuffersDue = 1 /\ dsp = "idle"
        /\ dumps' = [dumps EXCEPT !.buffer = Append(@, d)]
        /\ UNCHANGED <<kernelVars, trace, failure>>
    BY <1>2 DEF FinishBuffer
  <1>4. KernelInv'
    BY <1>3, KernelStutter DEF CaptureInv, kernelVars
  <1>5. /\ dumps'.buffer = Append(dumps.buffer, d) /\ dumps'.state = dumps.state
        /\ dumps' = [state |-> dumps'.state, buffer |-> dumps'.buffer]
    <2>1. PICK st, bu, new : /\ dumps = [state |-> st, buffer |-> bu] /\ st = dumps.state /\ bu = dumps.buffer
                             /\ new = Append(bu, d)
      BY ToolLengths
    <2>2. dumps' = [dumps EXCEPT !.buffer = new]
      BY <1>3, <2>1
    <2>3. QED
      BY <2>1, <2>2
  <1>6. /\ Len(dumps'.buffer) = B + 1 /\ dumps'.buffer[B + 1] = d
        /\ \A n \in 1 .. B : dumps'.buffer[n] = dumps.buffer[n]
        /\ dumps'.buffer \in Seq({dumps'.buffer[n] : n \in 1 .. Len(dumps'.buffer)})
    <2>1. PICK s, t : s = dumps.buffer /\ t = dumps'.buffer /\ t = Append(s, d)
                      /\ s \in Seq({s[i] : i \in 1 .. Len(s)})
      BY <1>5, ToolLengths
    <2>2. /\ Len(t) = Len(s) + 1 /\ t[Len(s) + 1] = d
          /\ \A i \in 1 .. Len(s) : t[i] = s[i]
          /\ t \in Seq({t[i] : i \in 1 .. Len(t)})
      BY <2>1, Longer
    <2>3. QED
      BY SMTT(30), <1>1, <2>1, <2>2
  <1>7. ToolTypeOK' /\ ToolInv' /\ RowsInv'
    <2>1. ToolTypeOK'
      <3>1. dumps'.state \in Seq({dumps'.state[i] : i \in 1 .. Len(dumps'.state)})
        BY <1>5, ToolLengths
      <3>2. QED
        BY <1>3, <1>5, <1>6, <3>1 DEF CaptureInv, ToolTypeOK
    <2>2. ToolInv'
      BY <1>3 DEF CaptureInv, ToolInv, kernelVars
    <2>3. RowsInv'
      BY <1>3 DEF CaptureInv, RowsInv, RowsWritten
    <2>4. QED
      BY <2>1, <2>2, <2>3
  <1>8. ScenarioInv'
    BY <1>3, <1>5 DEF CaptureInv, ScenarioInv, kernelVars
  <1>9. DumpInv'
    <2>1. /\ \A i \in 1 .. S : dumps.state[i].clock = Natives((i - 1) * BlockFrames) % ClockMod
          /\ \A n \in 1 .. B : dumps.buffer[n].clock = Natives(n * BufferFrames) % ClockMod
          /\ S * BlockFrames = R /\ S <= (B + 1) * BufferBlocks
      BY <1>1, <1>3 DEF CaptureInv, DumpInv
    <2>2. PICK k \in Nat \ {0}, m \in Int : /\ k = BufferFrames /\ m = (B + 1) * BufferBlocks
                                            /\ (B + 1) * k = m * BlockFrames
      <3>1. B + 1 \in Int
        OBVIOUS
      <3>2. QED
        BY <3>1, BufferOfBlocks, CaptureConstants
    <2>5. (B + 1) * BufferFrames = R
      BY <1>1, <1>3, BufferDue
    <2>6. d.clock = Natives((B + 1) * BufferFrames) % ClockMod
      <3>1. clock = Natives(R) % ClockMod
        BY <1>1, <1>3 DEF CaptureInv, KernelInv, ClockInv
      <3>2. d.clock = clock
        BY <1>2 DEF BufferDump
      <3>3. QED
        BY <2>5, <3>1, <3>2
    <2>7. ASSUME NEW n \in 1 .. B + 1
          PROVE  dumps'.buffer[n].clock = Natives(n * BufferFrames) % ClockMod
      <3>1. CASE n = B + 1
        BY <1>6, <2>6, <3>1
      <3>2. CASE n # B + 1
        <4>1. n \in 1 .. B
          BY <3>2
        <4>2. QED
          BY <1>6, <2>1, <4>1
      <3>3. QED
        BY <3>1, <3>2
    <2>8. S <= (B + 1 + 1) * BufferBlocks
      <3>1. (B + 1 + 1) * BufferBlocks = m + BufferBlocks /\ m <= m + BufferBlocks
        BY <2>2, CaptureConstants
      <3>2. m + BufferBlocks \in Int /\ S \in Int
        BY <1>1, <2>2, CaptureConstants
      <3>3. QED
        BY <2>1, <2>2, <3>1, <3>2
    <2>9. rendered' = rendered /\ dsp' = "idle"
      BY <1>3 DEF kernelVars
    <2>10. (B + 1) * BufferFrames <= R
      BY <1>1, <2>5
    <2>11. QED
      BY <1>1, <1>5, <1>6, <2>1, <2>7, <2>8, <2>9, <2>10 DEF DumpInv, Natives, BufferFrames
  <1>10. QED
    BY <1>4, <1>7, <1>8, <1>9 DEF CaptureInv

\* The clocks of a complete run are those of the schedule.
LEMMA ClocksAreScheduled ==
  ASSUME CaptureInv, Len(dumps.state) = Blocks, Len(dumps.buffer) * BufferFrames = CaptureFrames
  PROVE  ClockOk
  <1>1. PICK B \in Nat, N \in Nat : B = Blocks /\ N = Len(dumps.buffer) /\ N # 0
    <2>1. Len(dumps.buffer) # 0
      BY CaptureConstants
    <2>2. QED
      BY <2>1, ToolLengths, CaptureConstants
  <1>2. /\ \A i \in 1 .. B : dumps.state[i].clock = Natives((i - 1) * BlockFrames) % ClockMod
        /\ \A n \in 1 .. N : dumps.buffer[n].clock = Natives(n * BufferFrames) % ClockMod
    BY <1>1 DEF CaptureInv, DumpInv
  <1>3. /\ \A i \in 1 .. B : Boundaries[i] = dumps.state[i]
        /\ Boundaries[B + 1] = dumps.buffer[N]
    <2>1. PICK s, e, t : s = dumps.state /\ e = Last(dumps.buffer) /\ t = Boundaries /\ t = Append(s, e)
                         /\ s \in Seq({s[i] : i \in 1 .. Len(s)})
      BY ToolLengths DEF Boundaries
    <2>2. t[Len(s) + 1] = e /\ \A i \in 1 .. Len(s) : t[i] = s[i]
      BY <2>1, Longer
    <2>3. QED
      BY <1>1, <2>1, <2>2 DEF Last
  <1>4. ASSUME NEW b \in 0 .. B
        PROVE  Boundaries[b + 1].clock = Schedule[b * BlockFrames] % ClockMod
    <2>1. Schedule[b * BlockFrames] = Natives(b * BlockFrames)
      <3>1. b * BlockFrames <= B * BlockFrames /\ b * BlockFrames \in Nat
        <4>1. b \in Int /\ B \in Int /\ b <= B
          BY <1>1
        <4>2. QED
          BY <4>1, Cancel, CaptureConstants
      <3>2. b * BlockFrames \in 0 .. CaptureFrames
        BY <1>1, <3>1, CaptureConstants
      <3>3. QED
        BY <3>2, ScheduleIs
    <2>2. CASE b = B
      <3>1. Boundaries[b + 1].clock = Natives(N * BufferFrames) % ClockMod
        BY <1>1, <1>2, <1>3, <2>2
      <3>2. N * BufferFrames = b * BlockFrames
        BY <1>1, <2>2, CaptureConstants
      <3>3. QED
        BY <2>1, <3>1, <3>2
    <2>3. CASE b # B
      <3>1. b + 1 \in 1 .. B /\ (b + 1) - 1 = b
        BY <1>1, <2>3
      <3>2. QED
        BY <1>2, <1>3, <2>1, <3>1
    <2>4. QED
      BY <2>2, <2>3
  <1>5. QED
    BY <1>1, <1>4 DEF ClockOk

LEMMA ReconstructStep ==
  ASSUME CaptureInv, Reconstruct
  PROVE  CaptureInv'
  <1>1. tool = "read" /\ tool' = "done" /\ UNCHANGED <<kernelVars, trace, dumps>>
    BY DEF Reconstruct, Fail
  <1>2. /\ failure' # "native clock"
        /\ failure' = "none" =>
             Len(dumps.state) = Blocks /\ Len(dumps.buffer) * BufferFrames = CaptureFrames
    BY ClocksAreScheduled DEF Reconstruct, Fail
  <1>3. KernelInv'
    BY <1>1, KernelStutter DEF CaptureInv, kernelVars
  <1>4. ToolTypeOK' /\ ToolInv'
    <2>1. ToolTypeOK'
      BY <1>1 DEF CaptureInv, ToolTypeOK
    <2>2. ToolInv'
      BY <1>1 DEF CaptureInv, ToolInv, kernelVars
    <2>3. QED
      BY <2>1, <2>2
  <1>5. RowsInv'
    <2>1. Len(dumps.state) = Blocks => dumps.state # <<>>
      BY CaptureConstants
    <2>2. QED
      BY <1>1, <1>2, <2>1 DEF RowsInv, RowsWritten, BufferFrames
  <1>6. ScenarioInv'
    BY <1>1 DEF CaptureInv, ScenarioInv, kernelVars
  <1>7. DumpInv'
    BY <1>1, DumpsStay DEF kernelVars
  <1>8. QED
    BY <1>3, <1>4, <1>5, <1>6, <1>7 DEF CaptureInv

LEMMA CaptureStep ==
  ASSUME CaptureInv, CaptureNext
  PROVE  CaptureInv'
  BY StreamOnlyStep, ReadEventStep, CompileStep, QueueEventStep, StartAudioStep, EnterBlockStep,
     RenderOnStep, FinishBufferStep, RunEndsStep, ReconstructStep DEF CaptureNext

LEMMA CaptureInitially ==
  ASSUME CaptureInit
  PROVE  CaptureInv
  <1>1. KernelInit /\ rendered = <<>> /\ applied = <<>> /\ accepted = <<>> /\ dsp = "idle" /\ reply = "none"
    BY DEF CaptureInit, KernelInit, KernelReset
  <1>2. /\ tool = IF transport = "capture" THEN "trace" ELSE "none"
        /\ trace = <<>> /\ dumps = [state |-> <<>>, buffer |-> <<>>] /\ failure = "none"
    BY DEF CaptureInit
  <1>3. dumps.state = <<>> /\ dumps.buffer = <<>> /\ Len(<<>>) = 0
    BY <1>2
  <1>4. KernelInv
    BY <1>1, KernelInitially
  <1>5. ToolTypeOK
    <2>1. \A S : <<>> \in Seq(S)
      OBVIOUS
    <2>2. QED
      BY <1>2, <1>3, <2>1 DEF ToolTypeOK
  <1>6. ToolInv /\ ScenarioInv /\ RowsInv
    BY <1>1, <1>2, <1>3 DEF ToolInv, ScenarioInv, RowsInv, RowsWritten
  <1>7. DumpInv
    <2>1. 0 * BufferFrames = 0
      BY CaptureConstants
    <2>2. QED
      BY <1>1, <1>2, <1>3, <2>1 DEF DumpInv
  <1>8. QED
    BY <1>4, <1>5, <1>6, <1>7 DEF CaptureInv

LEMMA CaptureStutter ==
  ASSUME CaptureInv, UNCHANGED captureVars
  PROVE  CaptureInv'
  <1>1. UNCHANGED kernelVars /\ UNCHANGED <<tool, trace, dumps, failure>>
    BY DEF captureVars, toolVars
  <1>2. KernelInv'
    BY <1>1, KernelStutter DEF CaptureInv, kernelVars
  <1>3. ToolTypeOK'
    BY <1>1 DEF CaptureInv, ToolTypeOK
  <1>4. ToolInv'
    <2>1. Fits(trace)' <=> Fits(trace)
      BY <1>1 DEF Fits, Ordered
    <2>2. QED
      BY <1>1, <2>1 DEF CaptureInv, ToolInv, kernelVars
  <1>5. ScenarioInv'
    BY <1>1 DEF CaptureInv, ScenarioInv, kernelVars
  <1>6. RowsInv'
    BY <1>1 DEF CaptureInv, RowsInv, RowsWritten, BufferFrames
  <1>7. DumpInv'
    BY <1>1, DumpsStay DEF kernelVars
  <1>8. QED
    BY <1>2, <1>3, <1>4, <1>5, <1>6, <1>7 DEF CaptureInv

\* With the capture tool driving the renderer by its own commands: the DSP has
\* accepted what was compiled, and every dump holds the clock of the frames
\* before it, for every scenario, block and buffer (capture_ym2151_realtime.py).
THEOREM CaptureInductive == CaptureSpec => []CaptureInv
  <1>1. CaptureInit => CaptureInv
    BY CaptureInitially
  <1>2. CaptureInv /\ [CaptureNext]_captureVars => CaptureInv'
    BY CaptureStep, CaptureStutter
  <1>3. QED
    BY <1>1, <1>2, PTL DEF CaptureSpec

\* Every write of a capture, and of the streams beside it, lands on its frame.
THEOREM CapturesLandOnTime == CaptureSpec => []LandsOnTime
  <1>1. CaptureInv => LandsOnTime
    BY OnTimeLands DEF CaptureInv
  <1>2. QED
    BY <1>1, CaptureInductive, PTL

-----------------------------------------------------------------------------
(* The rows' schedule and their events.                                    *)

\* A schedule stepped with the comparator's remainder is the same clock.
LEMMA ScheduleAccepted ==
  ASSUME NEW rows, NEW N \in Nat, DOMAIN rows = 1 .. N, Len(rows) = N,
         \A f \in 1 .. N : rows[f].native = Natives(f) - 1
  PROVE  ScheduleValid(rows)
  <1> DEFINE Steps(a) == [f \in 0 .. Len(rows) |-> IF f = 0 THEN 0 ELSE (a[f - 1] + Num) % Den]
             step == CHOOSE a : a = Steps(a)
             Counts(a) == [f \in 0 .. Len(rows) |->
                             IF f = 0 THEN 0 ELSE a[f - 1] + (step[f - 1] + Num) \div Den]
             native == CHOOSE a : a = Counts(a)
             Rests == [f \in 0 .. N |-> Rest(f)]
             Clock == [f \in 0 .. N |-> Natives(f)]
  <1>1. Rests = Steps(Rests)
    <2>1. ASSUME NEW f \in 0 .. N PROVE Rests[f] = Steps(Rests)[f]
      <3>1. CASE f = 0
        BY <3>1, NoFrames
      <3>2. CASE f # 0
        <4>1. f \in Nat \ {0} /\ f - 1 \in 0 .. N
          BY <3>2
        <4>2. QED
          BY <3>2, <4>1, FrameStep
      <3>3. QED
        BY <3>1, <3>2
    <2>2. QED
      BY <2>1
  <1>2. step = Steps(step)
    BY <1>1
  <1>3. \A f \in 0 .. N : step[f] = Rest(f)
    <2> HIDE DEF step, Rests
    <2>1. step[0] = Rests[0]
      <3>1. step[0] = 0 /\ Rests[0] = 0
        BY <1>1, <1>2
      <3>2. QED
        BY <3>1
    <2>2. ASSUME NEW f \in 1 .. N, step[f - 1] = Rests[f - 1] PROVE step[f] = Rests[f]
      <3>1. f \in 0 .. N /\ f # 0
        OBVIOUS
      <3>2. step[f] = Steps(step)[f] /\ Rests[f] = Steps(Rests)[f]
        BY <1>1, <1>2
      <3>3. Steps(step)[f] = Steps(Rests)[f]
        BY <2>2, <3>1
      <3>4. QED
        BY <3>2, <3>3
    <2>3. \A f \in 0 .. N : step[f] = Rests[f]
      <3>1. N \in Nat /\ \A f \in 1 .. N : step[f - 1] = Rests[f - 1] => step[f] = Rests[f]
        BY <2>2
      <3>2. QED
        BY ONLY <2>1, <3>1, FrameByFrame
    <2>4. QED
      BY <2>3 DEF Rests
  <1> HIDE DEF step
  <1>4. Clock = Counts(Clock)
    <2>1. ASSUME NEW f \in 0 .. N PROVE Clock[f] = Counts(Clock)[f]
      <3>1. CASE f = 0
        BY <3>1, NoFrames
      <3>2. CASE f # 0
        <4>1. f \in Nat \ {0} /\ f - 1 \in 0 .. N
          BY <3>2
        <4>2. QED
          BY <1>3, <3>2, <4>1, FrameStep
      <3>3. QED
        BY <3>1, <3>2
    <2>2. QED
      BY <2>1
  <1>5. native = Counts(native)
    BY <1>4
  <1>6. \A f \in 0 .. N : native[f] = Natives(f)
    <2> HIDE DEF native, Clock
    <2>1. native[0] = Clock[0]
      <3>1. native[0] = 0 /\ Clock[0] = 0
        BY <1>4, <1>5
      <3>2. QED
        BY <3>1
    <2>2. ASSUME NEW f \in 1 .. N, native[f - 1] = Clock[f - 1] PROVE native[f] = Clock[f]
      <3>1. f \in 0 .. N /\ f # 0
        OBVIOUS
      <3>2. native[f] = Counts(native)[f] /\ Clock[f] = Counts(Clock)[f]
        BY <1>4, <1>5
      <3>3. Counts(native)[f] = Counts(Clock)[f]
        BY <2>2, <3>1
      <3>4. QED
        BY <3>2, <3>3
    <2>3. \A f \in 0 .. N : native[f] = Clock[f]
      <3>1. N \in Nat /\ \A f \in 1 .. N : native[f - 1] = Clock[f - 1] => native[f] = Clock[f]
        BY <2>2
      <3>2. QED
        BY ONLY <2>1, <3>1, FrameByFrame
    <2>4. QED
      BY <2>3 DEF Clock
  <1>7. \A f \in DOMAIN rows : rows[f].native = native[f] - 1
    BY <1>6
  <1>8. QED
    BY <1>7 DEF ScheduleValid, step

\* Each frame consumes a sample.
LEMMA NativesGrow ==
  ASSUME NEW f \in Nat
  PROVE  Natives(f) + 1 <= Natives(f + 1) /\ Natives(f) \in Nat /\ Natives(f + 1) \in Nat
  <1>1. Natives(f) \in Nat /\ Rest(f) \in Nat /\ Natives(f + 1) \in Nat
    <2>1. f + 1 \in Nat
      OBVIOUS
    <2>2. QED
      BY <2>1, NativesType, Constants
  <1>2. Natives(f + 1) = Natives(f) + ((Rest(f) + Num) \div Den)
    <2>1. 1 \in Nat /\ 1 * Num = Num
      BY Constants
    <2>2. QED
      BY <2>1, NativesPlus
  <1>3. (Rest(f) + Num) \div Den >= 1
    <2>1. PICK n \in Nat, d \in Nat \ {0} : n = Rest(f) + Num /\ d = Den /\ d <= n
      <3>1. Rest(f) + Num \in Nat /\ Den <= Rest(f) + Num
        BY <1>1, Constants
      <3>2. QED
        BY <3>1, Constants
    <2>2. d \div d = 1 /\ d \div d <= n \div d
      <3>1. d \in Int /\ n \in Int /\ d <= n
        BY <2>1
      <3>2. d \div d <= n \div d
        BY <3>1, DivisionMonotone
      <3>3. QED
        BY <3>2
    <2>3. QED
      BY <2>1, <2>2
  <1>4. (Rest(f) + Num) \div Den \in Int
    BY <1>1, Constants
  <1>5. QED
    BY <1>1, <1>2, <1>3, <1>4

EventsBefore(n) == {i \in 1 .. Len(trace) : trace[i].sample < n}

\* A frame's events are those before its end and not before its start.
LEMMA EventsCounted ==
  ASSUME CaptureInv, NEW f \in 1 .. CaptureFrames
  PROVE  /\ Cardinality(EventsBefore(Natives(f)))
              = Cardinality(EventsBefore(Natives(f - 1))) + EventCount(f)
         /\ EventsBefore(Natives(0)) = {}
  <1>1. /\ CaptureFrames \in Nat /\ Len(trace) \in Nat /\ DOMAIN trace = 1 .. Len(trace)
        /\ \A i \in 1 .. Len(trace) : trace[i].sample \in Nat
    BY ToolLengths, LenProperties, CaptureConstants
  <1>2. f \in 0 .. CaptureFrames /\ f - 1 \in 0 .. CaptureFrames /\ f - 1 \in Nat /\ (f - 1) + 1 = f
    BY <1>1
  <1>3. Natives(f - 1) <= Natives(f) /\ Natives(f - 1) \in Nat /\ Natives(f) \in Nat
    BY <1>2, NativesGrow
  <1> DEFINE Own == {i \in 1 .. Len(trace) : Natives(f - 1) <= trace[i].sample /\ trace[i].sample < Natives(f)}
             Old == EventsBefore(Natives(f - 1))
  <1>4. EventCount(f) = Cardinality(Own)
    <2>1. Schedule[f - 1] = Natives(f - 1) /\ Schedule[f] = Natives(f)
      BY <1>2, ScheduleIs
    <2>2. QED
      BY <1>1, <2>1 DEF EventCount
  <1>5. EventsBefore(Natives(f)) = Old \cup Own /\ Old \cap Own = {}
    <2>1. ASSUME NEW i \in 1 .. Len(trace)
          PROVE  /\ i \in EventsBefore(Natives(f)) <=> i \in Old \/ i \in Own
                 /\ ~(i \in Old /\ i \in Own)
      <3>1. trace[i].sample \in Nat
        BY <1>1
      <3>2. QED
        BY <1>3, <3>1 DEF EventsBefore
    <2>2. QED
      BY <2>1 DEF EventsBefore
  <1>6. IsFiniteSet(Old) /\ IsFiniteSet(Own)
    <2>1. IsFiniteSet(1 .. Len(trace))
      <3>1. 1 \in Int /\ Len(trace) \in Int
        BY <1>1
      <3>2. QED
        BY ONLY <3>1, FS_Interval
    <2>2. QED
      BY <2>1, FS_Subset DEF EventsBefore
  <1>7. EventsBefore(Natives(0)) = {}
    BY <1>1, NoFrames DEF EventsBefore
  <1> HIDE DEF Old, Own
  <1>8. Cardinality(Old \cup Own) = Cardinality(Old) + Cardinality(Own)
    <2>1. Cardinality(Old \cup Own) = Cardinality(Old) + Cardinality(Own) - Cardinality(Old \cap Own)
      BY <1>6, FS_Union
    <2>2. Cardinality(Old \cap Own) = 0
      BY <1>5, FS_EmptySet
    <2>3. Cardinality(Old) \in Nat /\ Cardinality(Own) \in Nat
      BY <1>6, FS_CardinalityType
    <2>4. QED
      BY <2>1, <2>2, <2>3
  <1>9. QED
    BY <1>4, <1>5, <1>7, <1>8 DEF Old

\* What the renderer had applied, in terms of the trace.
LEMMA AppliedOfTrace ==
  ASSUME CaptureInv, RowsWritten, NEW f \in 1 .. CaptureFrames
  PROVE  rendered[f].applied = Cardinality(EventsBefore(Natives(f) + 1))
  <1>1. /\ tool # "none" /\ transport = "capture" /\ Len(accepted) = Len(trace)
        /\ Len(dumps.buffer) * BufferFrames = CaptureFrames
    BY DEF CaptureInv, RowsInv, ToolInv, ScenarioInv
  <1>2. f \in 1 .. Len(rendered)
    <2>1. CaptureFrames <= Len(rendered) /\ CaptureFrames \in Nat /\ Len(rendered) \in Nat
      BY <1>1, ToolLengths, CaptureConstants DEF CaptureInv, DumpInv
    <2>2. QED
      BY <2>1
  <1>3. DOMAIN rendered = 1 .. Len(rendered) /\ DOMAIN accepted = 1 .. Len(accepted)
    BY LenProperties DEF CaptureInv, KernelInv, KernelTypeOK
  <1>4. rendered[f].applied =
          Cardinality({i \in 1 .. Len(accepted) : accepted[i].after < f /\ accepted[i].due <= Natives(f)})
    <2>1. LandsOnTime
      BY OnTimeLands DEF CaptureInv
    <2>2. QED
      BY <1>1, <1>2, <1>3, <2>1 DEF LandsOnTime
  <1>5. {i \in 1 .. Len(accepted) : accepted[i].after < f /\ accepted[i].due <= Natives(f)}
          = EventsBefore(Natives(f) + 1)
    <2>1. \A i \in 1 .. Len(accepted) : accepted[i].due = trace[i].sample /\ accepted[i].after = 0
      BY <1>1 DEF CaptureInv, ScenarioInv
    <2>2. 0 < f /\ f \in Nat /\ Natives(f) \in Nat
      BY CaptureConstants, NativesGrow
    <2>3. \A i \in 1 .. Len(trace) : trace[i].sample <= Natives(f) <=> trace[i].sample < Natives(f) + 1
      BY <2>2, ToolLengths
    <2>4. QED
      BY <1>1, <2>1, <2>2, <2>3 DEF EventsBefore
  <1>6. QED
    BY <1>4, <1>5

LEMMA RowsRight ==
  ASSUME CaptureInv
  PROVE  RowsCountEvents
  <1> SUFFICES ASSUME RowsWritten PROVE RowsCountEvents
    BY DEF RowsCountEvents
  <1> DEFINE Steps(a) == [f \in 0 .. CaptureFrames |-> IF f = 0 THEN 0 ELSE a[f - 1] + Rows[f].count]
             counted == CHOOSE a : a = Steps(a)
             Held == [f \in 0 .. CaptureFrames |-> Cardinality(EventsBefore(Natives(f)))]
  <1>1. /\ CaptureFrames \in Nat /\ Len(trace) \in Nat
        /\ \A i \in 1 .. Len(trace) : trace[i].sample \in Nat
    BY ToolLengths, CaptureConstants
  <1>2. /\ Rows = [f \in 1 .. CaptureFrames |-> Rows[f]]
        /\ \A f \in 1 .. CaptureFrames :
             Rows[f].native = Schedule[f] - 1 /\ Rows[f].count = EventCount(f)
    BY DEF Rows
  <1>3. ScheduleValid(Rows)
    <2>1. PICK rows : rows = Rows
      OBVIOUS
    <2>2. DOMAIN rows = 1 .. CaptureFrames /\ Len(rows) = CaptureFrames
      BY <1>1, <1>2, <2>1
    <2>3. \A f \in 1 .. CaptureFrames : rows[f].native = Natives(f) - 1
      <3>1. \A f \in 1 .. CaptureFrames : Schedule[f] = Natives(f)
        BY <1>1, ScheduleIs
      <3>2. QED
        BY <1>2, <2>1, <3>1
    <2>4. QED
      BY <1>1, <2>1, <2>2, <2>3, ScheduleAccepted
  <1>4. Held = Steps(Held)
    <2>1. ASSUME NEW f \in 0 .. CaptureFrames PROVE Held[f] = Steps(Held)[f]
      <3>1. CASE f = 0
        <4>1. 1 \in 1 .. CaptureFrames
          BY CaptureConstants
        <4>2. Cardinality(EventsBefore(Natives(0))) = 0
          BY <4>1, EventsCounted, FS_EmptySet
        <4>3. QED
          BY <3>1, <4>2
      <3>2. CASE f # 0
        <4>1. f \in 1 .. CaptureFrames /\ f - 1 \in 0 .. CaptureFrames
          BY <1>1, <3>2
        <4>2. Cardinality(EventsBefore(Natives(f)))
                = Cardinality(EventsBefore(Natives(f - 1))) + Rows[f].count
          BY <1>2, <4>1, EventsCounted
        <4>3. QED
          BY <3>2, <4>1, <4>2
      <3>3. QED
        BY <3>1, <3>2
    <2>2. QED
      BY <2>1
  <1>5. \A f \in 0 .. CaptureFrames : counted[f] = Cardinality(EventsBefore(Natives(f)))
    <2>1. counted = Steps(counted)
      BY <1>4
    <2> HIDE DEF counted, Held
    <2>2. counted[0] = Held[0]
      <3>1. counted[0] = 0 /\ Held[0] = 0
        BY <1>1, <1>4, <2>1
      <3>2. QED
        BY <3>1
    <2>3. ASSUME NEW f \in 1 .. CaptureFrames, counted[f - 1] = Held[f - 1] PROVE counted[f] = Held[f]
      <3>1. f \in 0 .. CaptureFrames /\ f # 0
        BY <1>1
      <3>2. counted[f] = Steps(counted)[f] /\ Held[f] = Steps(Held)[f]
        BY <1>4, <2>1
      <3>3. Steps(counted)[f] = Steps(Held)[f]
        BY <2>3, <3>1
      <3>4. QED
        BY <3>2, <3>3
    <2>4. \A f \in 0 .. CaptureFrames : counted[f] = Held[f]
      <3>1. /\ CaptureFrames \in Nat
            /\ \A f \in 1 .. CaptureFrames : counted[f - 1] = Held[f - 1] => counted[f] = Held[f]
        BY <1>1, <2>3
      <3>2. QED
        BY ONLY <2>2, <3>1, FrameByFrame
    <2>5. QED
      BY <2>4 DEF Held
  <1> HIDE DEF counted
  <1>6. ASSUME NEW f \in 1 .. CaptureFrames
        PROVE  /\ counted[f] <= rendered[f].applied
               /\ f < CaptureFrames => rendered[f].applied <= counted[f + 1]
    <2>1. f \in Nat /\ f \in 0 .. CaptureFrames /\ (f < CaptureFrames => f + 1 \in 0 .. CaptureFrames)
      BY <1>1
    <2>2. Natives(f) + 1 <= Natives(f + 1) /\ Natives(f) \in Nat /\ Natives(f + 1) \in Nat
      BY <2>1, NativesGrow
    <2> DEFINE Before == EventsBefore(Natives(f))
               Until == EventsBefore(Natives(f) + 1)
               Next == EventsBefore(Natives(f + 1))
    <2>3. Before \subseteq Until /\ Until \subseteq Next
      <3>1. ASSUME NEW i \in 1 .. Len(trace)
            PROVE  (i \in Before => i \in Until) /\ (i \in Until => i \in Next)
        <4>1. trace[i].sample \in Nat
          BY <1>1
        <4>2. QED
          BY <2>2, <4>1 DEF EventsBefore
      <3>2. QED
        BY <3>1 DEF EventsBefore
    <2>4. IsFiniteSet(Until) /\ IsFiniteSet(Next)
      <3>1. IsFiniteSet(1 .. Len(trace))
        <4>1. 1 \in Int /\ Len(trace) \in Int
          BY <1>1
        <4>2. QED
          BY ONLY <4>1, FS_Interval
      <3>2. QED
        BY <3>1, FS_Subset DEF EventsBefore
    <2>5. Cardinality(Before) <= Cardinality(Until) /\ Cardinality(Until) <= Cardinality(Next)
      <3> HIDE DEF Before, Until, Next
      <3>1. QED
        BY <2>3, <2>4, FS_Subset
    <2>6. rendered[f].applied = Cardinality(Until)
      BY AppliedOfTrace
    <2>7. QED
      BY <1>5, <2>1, <2>5, <2>6
  <1>7. QED
    BY <1>3, <1>6 DEF RowsCountEvents, counted

\* The times of a capture are the DSP's, for every length of capture, block and
\* trace: the DSP refuses no scenario that the tool compiles
\* (capture_ym2151_realtime.py:156-166, ym2151.asm:3954-4005); the clock it jumps
\* from block to block and the one the tool steps frame by frame agree at every
\* dump (capture_ym2151_realtime.py:618-627); the rows carry a schedule that the
\* comparator takes, and count each event at the frame the DSP applied it for or
\* at the next (336-369, compare_ym2151_realtime.py:223-246).
THEOREM CaptureOnSchedule == CaptureSpec => []ScheduleKept
  <1>1. CaptureInv => ScenarioAccepted
    BY DEF CaptureInv, ToolInv, ScenarioInv, ScenarioAccepted
  <1>2. CaptureInv => ClocksAgree
    BY DEF CaptureInv, RowsInv, ClocksAgree
  <1>3. CaptureInv => RowsCountEvents
    BY RowsRight
  <1>4. CaptureInv => ScheduleKept
    BY <1>1, <1>2, <1>3 DEF ScheduleKept
  <1>5. QED
    BY <1>4, CaptureInductive, PTL
-----------------------------------------------------------------------------
(* The chip in numbers of events.                                          *)

LEMMA PhaseWraps ==
  ASSUME NEW a \in Int, NEW b \in Int
  PROVE  /\ a % PhaseMod \in 0 .. PhaseMod - 1
         /\ ((a % PhaseMod) + b) % PhaseMod = (a + b) % PhaseMod
         /\ ((a % PhaseMod) - b) % PhaseMod = (a - b) % PhaseMod
         /\ a \in 0 .. PhaseMod - 1 => a % PhaseMod = a
  <1>0. PICK m \in Nat \ {0} : m = PhaseMod
    BY KernelAssumption
  <1>1. PICK q \in Int, r \in Int : r \in 0 .. m - 1 /\ a = m * q + r /\ r = a % m
    <2>1. a = m * (a \div m) + (a % m) /\ a % m \in 0 .. m - 1 /\ a \div m \in Int
      BY Division
    <2>2. PICK q \in Int : q = a \div m
      BY <2>1
    <2>3. a = m * q + (a % m) /\ a % m \in 0 .. m - 1 /\ a % m \in Int
      BY <2>1, <2>2
    <2>4. QED
      BY <2>3
  <1>2. a + b = (r + b) + m * q /\ a - b = (r - b) + m * q
    <2>1. \A t, x, y, z \in Int : x = t + z => x + y = (z + y) + t /\ x - y = (z - y) + t
      OBVIOUS
    <2>2. m * q \in Int /\ a \in Int /\ b \in Int /\ r \in Int /\ a = m * q + r
      BY <1>0, <1>1
    <2>3. QED
      BY ONLY <2>1, <2>2
  <1>3. ((r + b) + m * q) % m = (r + b) % m /\ ((r - b) + m * q) % m = (r - b) % m
    <2>1. r + b \in Int /\ r - b \in Int
      OBVIOUS
    <2>2. QED
      BY <2>1, DivisionPlus
  <1>4. \A x \in 0 .. m - 1 : x % m = x
    OBVIOUS
  <1>5. QED
    BY <1>0, <1>1, <1>2, <1>3, <1>4

\* The key and the edges after one more event.
LEMMA KeyNext ==
  ASSUME NEW n \in Nat
  PROVE  /\ KeyIsOn(n + 2)
              <=> trace[n + 1].write = "on" \/ (KeyIsOn(n + 1) /\ trace[n + 1].write # "off")
         /\ KeyIsOn(1) <=> FALSE
  <1>1. (n + 2) - 1 = n + 1 /\ (n + 1) - 1 = n /\ 1 - 1 = 0
    OBVIOUS
  <1>2. \A j \in 1 .. n + 1 : j = n + 1 \/ j \in 1 .. n
    OBVIOUS
  <1>3. ASSUME NEW j \in 1 .. n
        PROVE  /\ j \in 1 .. n + 1 /\ n + 1 \in j + 1 .. n + 1
               /\ \A k \in j + 1 .. n + 1 : k = n + 1 \/ k \in j + 1 .. n
               /\ \A k \in j + 1 .. n : k \in j + 1 .. n + 1
    OBVIOUS
  <1>4. n + 1 \in 1 .. n + 1 /\ \A k \in (n + 1) + 1 .. n + 1 : FALSE
    OBVIOUS
  <1>0. ~KeyIsOn(1)
    BY <1>1 DEF KeyIsOn
  <1>5. CASE trace[n + 1].write = "on"
    <2>1. \E j \in 1 .. n + 1 : trace[j].write = "on" /\ \A k \in j + 1 .. n + 1 : trace[k].write # "off"
      BY <1>4, <1>5
    <2>2. QED
      BY <1>0, <1>1, <1>5, <2>1 DEF KeyIsOn
  <1>6. CASE trace[n + 1].write # "on"
    <2>1. ASSUME KeyIsOn(n + 2) PROVE KeyIsOn(n + 1) /\ trace[n + 1].write # "off"
      <3>1. PICK j \in 1 .. n + 1 : trace[j].write = "on" /\ \A k \in j + 1 .. n + 1 : trace[k].write # "off"
        BY <1>1, <2>1 DEF KeyIsOn
      <3>2. j \in 1 .. n
        BY <1>2, <1>6, <3>1
      <3>3. QED
        BY <1>1, <1>3, <3>1, <3>2 DEF KeyIsOn
    <2>2. ASSUME KeyIsOn(n + 1), trace[n + 1].write # "off" PROVE KeyIsOn(n + 2)
      <3>1. PICK j \in 1 .. n : trace[j].write = "on" /\ \A k \in j + 1 .. n : trace[k].write # "off"
        BY <1>1, <2>2 DEF KeyIsOn
      <3>2. j \in 1 .. n + 1 /\ \A k \in j + 1 .. n + 1 : trace[k].write # "off"
        BY <1>3, <2>2, <3>1
      <3>3. QED
        BY <1>1, <3>1, <3>2 DEF KeyIsOn
    <2>3. QED
      BY <1>0, <1>6, <2>1, <2>2
  <1>7. QED
    BY <1>5, <1>6

LEMMA EdgeNext ==
  ASSUME NEW m \in Nat, NEW n \in Nat, m <= n, n + 1 \in DOMAIN trace
  PROVE  /\ EdgeIn(m, n + 1) <=> EdgeIn(m, n) \/ (trace[n + 1].write = "on" /\ ~KeyIsOn(n + 1))
         /\ ~EdgeIn(n, n)
         /\ (\E i \in 1 .. n + 1 : trace[i].write = "pitch")
              <=> (\E i \in 1 .. n : trace[i].write = "pitch") \/ trace[n + 1].write = "pitch"
  <1>1. /\ \A i \in m + 1 .. n + 1 : i = n + 1 \/ i \in m + 1 .. n
        /\ \A i \in m + 1 .. n : i \in m + 1 .. n + 1
        /\ n + 1 \in m + 1 .. n + 1
        /\ \A i \in 1 .. n + 1 : i = n + 1 \/ i \in 1 .. n
        /\ \A i \in 1 .. n : i \in 1 .. n + 1
        /\ n + 1 \in 1 .. n + 1
        /\ \A i \in n + 1 .. n : FALSE
    OBVIOUS
  <1>2. n + 1 \in Edges <=> trace[n + 1].write = "on" /\ ~KeyIsOn(n + 1)
    BY DEF Edges
  <1>3. QED
    BY ONLY <1>1, <1>2 DEF EdgeIn

\* One event decoded
LEMMA DecodeNext ==
  ASSUME NEW m \in Nat, NEW n \in Nat, NEW x, m <= n, n + 1 \in DOMAIN trace,
         trace[n + 1].write \in {"pitch", "on", "off"}
  PROVE  Decode(ChipAfter(m, n, x), trace[n + 1].write) = ChipAfter(m, n + 1, x)
  <1>1. PICK key, keyThen, edge, edgeThen, inc, incThen, w :
          /\ {key, keyThen, edge, edgeThen} \subseteq BOOLEAN
          /\ key = KeyIsOn(n + 1) /\ keyThen = KeyIsOn((n + 1) + 1)
          /\ edge = EdgeIn(m, n) /\ edgeThen = EdgeIn(m, n + 1)
          /\ inc = IncrementOf(n) /\ incThen = IncrementOf(n + 1) /\ w = trace[n + 1].write
    BY DEF KeyIsOn, EdgeIn
  <1>2. (n + 1) + 1 = n + 2
    OBVIOUS
  <1>3. keyThen = (w = "on" \/ (key /\ w # "off"))
    BY <1>1, <1>2, KeyNext
  <1>4. edgeThen = (edge \/ (w = "on" /\ ~key))
    BY <1>1, EdgeNext
  <1>5. incThen = IF w = "pitch" THEN 3 ELSE inc
    BY <1>1, EdgeNext DEF IncrementOf
  <1>6. /\ ChipAfter(m, n, x) = [inc |-> inc, key |-> key, acc |-> IF edge THEN 0 ELSE x]
        /\ ChipAfter(m, n + 1, x) = [inc |-> incThen, key |-> keyThen, acc |-> IF edgeThen THEN 0 ELSE x]
    BY <1>1 DEF ChipAfter
  <1>7. w \in {"pitch", "on", "off"}
    BY <1>1
  <1>8. Decode([inc |-> inc, key |-> key, acc |-> IF edge THEN 0 ELSE x], w)
          = [inc |-> incThen, key |-> keyThen, acc |-> IF edgeThen THEN 0 ELSE x]
    <2>0. /\ key = TRUE \/ key = FALSE
          /\ edge = TRUE \/ edge = FALSE
      BY <1>1
    <2> HIDE <1>1, <1>6
    <2>1. CASE w = "pitch"
      <3>1. keyThen = key /\ edgeThen = edge /\ incThen = 3
        BY <1>3, <1>4, <1>5, <2>0, <2>1
      <3>2. QED
        BY <2>1, <3>1 DEF Decode
    <2>2. CASE w = "on"
      BY <1>3, <1>4, <1>5, <2>2 DEF Decode
    <2>3. CASE w = "off"
      BY <1>3, <1>4, <1>5, <2>3 DEF Decode
    <2>4. QED
      BY <1>7, <2>1, <2>2, <2>3
  <1>9. QED
    BY <1>1, <1>6, <1>8

\* Events in a row decoded
LEMMA EffectIs ==
  ASSUME NEW m \in Nat, NEW n \in Nat, NEW x, m <= n, NEW K \in Nat, NEW log, NEW ns, Len(ns) = K,
         n + K <= Len(trace), Len(trace) \in Nat, DOMAIN trace = 1 .. Len(trace),
         \A i \in 1 .. Len(trace) : trace[i].write \in {"pitch", "on", "off"},
         \A i \in 1 .. K : log[ns[i]].write = trace[n + i].write
  PROVE  Effect(ChipAfter(m, n, x), log, ns) = ChipAfter(m, n + K, x)
  <1> DEFINE c == ChipAfter(m, n, x)
             Steps(a) == [k \in 0 .. Len(ns) |-> IF k = 0 THEN c ELSE Decode(a[k - 1], log[ns[k]].write)]
             after == CHOOSE a : a = Steps(a)
             Closed == [k \in 0 .. K |-> ChipAfter(m, n + k, x)]
  <1>1. Closed = Steps(Closed)
    <2>1. ASSUME NEW k \in 0 .. K PROVE Closed[k] = Steps(Closed)[k]
      <3>1. CASE k = 0
        <4>1. n + 0 = n
          OBVIOUS
        <4>2. QED
          BY <3>1, <4>1
      <3>2. CASE k # 0
        <4>1. PICK j \in Nat : j = n + (k - 1) /\ j + 1 = n + k /\ m <= j /\ j + 1 \in 1 .. Len(trace)
          BY <3>2
        <4>2. k \in 1 .. K /\ k - 1 \in 0 .. K
          BY <3>2
        <4>3. log[ns[k]].write = trace[j + 1].write /\ trace[j + 1].write \in {"pitch", "on", "off"}
          BY <4>1, <4>2
        <4>4. Decode(ChipAfter(m, j, x), trace[j + 1].write) = ChipAfter(m, j + 1, x)
          BY <4>1, <4>3, DecodeNext
        <4>5. Closed[k - 1] = ChipAfter(m, j, x) /\ Closed[k] = ChipAfter(m, j + 1, x)
          BY <4>1, <4>2
        <4> HIDE DEF Closed
        <4>6. QED
          BY <3>2, <4>2, <4>3, <4>4, <4>5
      <3>3. QED
        BY <3>1, <3>2
    <2>2. QED
      BY <2>1
  <1>2. after = Steps(after)
    BY <1>1
  <1>3. \A k \in 0 .. K : after[k] = Closed[k]
    <2> HIDE DEF after, Closed, c
    <2>1. after[0] = Closed[0]
      <3>1. after[0] = c /\ Closed[0] = c
        BY <1>1, <1>2
      <3>2. QED
        BY <3>1
    <2>2. ASSUME NEW k \in 1 .. K, after[k - 1] = Closed[k - 1] PROVE after[k] = Closed[k]
      <3>1. k \in 0 .. K /\ k # 0
        OBVIOUS
      <3>2. after[k] = Steps(after)[k] /\ Closed[k] = Steps(Closed)[k]
        BY <1>1, <1>2
      <3>3. Steps(after)[k] = Steps(Closed)[k]
        BY <2>2, <3>1
      <3>4. QED
        BY <3>2, <3>3
    <2>3. K \in Nat /\ \A k \in 1 .. K : after[k - 1] = Closed[k - 1] => after[k] = Closed[k]
      BY <2>2
    <2>4. QED
      BY ONLY <2>1, <2>3, FrameByFrame
  <1>4. Effect(c, log, ns) = after[Len(ns)]
    BY DEF Effect
  <1>5. Closed[K] = ChipAfter(m, n + K, x) /\ after[K] = Closed[K]
    BY <1>3
  <1> HIDE DEF after, Closed
  <1>6. QED
    BY <1>4, <1>5
-----------------------------------------------------------------------------
(* What the renderer's steps make of the chip.                             *)

LEMMA TraceKept ==
  ASSUME trace' = trace
  PROVE  \A m, n \in Nat :
           /\ EdgeIn(m, n)' <=> EdgeIn(m, n)
           /\ IncrementOf(n)' = IncrementOf(n)
           /\ \A x : ChipAfter(m, n, x)' = ChipAfter(m, n, x)
  <1>1. ASSUME NEW n \in Nat PROVE KeyIsOn(n)' <=> KeyIsOn(n)
    BY DEF KeyIsOn
  <1>2. ASSUME NEW m \in Nat, NEW n \in Nat PROVE EdgeIn(m, n)' <=> EdgeIn(m, n)
    BY DEF EdgeIn, Edges, KeyIsOn
  <1>3. ASSUME NEW n \in Nat PROVE IncrementOf(n)' = IncrementOf(n)
    BY DEF IncrementOf, Silent
  <1>4. ASSUME NEW m \in Nat, NEW n \in Nat, NEW x PROVE ChipAfter(m, n, x)' = ChipAfter(m, n, x)
    <2>1. n + 1 \in Nat
      OBVIOUS
    <2>2. KeyIsOn(n + 1)' = KeyIsOn(n + 1)
      BY <2>1 DEF KeyIsOn
    <2>3. QED
      BY <1>2, <1>3, <2>2 DEF ChipAfter
  <1>5. QED
    BY <1>2, <1>3, <1>4

\* What is served leaves the chip after the events applied.
LEMMA ServedChip ==
  ASSUME CaptureInv, OnTime, NEW c, NEW now, NEW m \in Nat, NEW x,
         tool # "none", m <= Len(applied), c = ChipAfter(m, Len(applied), x), Service(c, now),
         \A i \in 1 .. Len(accepted) : accepted[i].write = trace[i].write
  PROVE  /\ chip' = ChipAfter(m, Len(applied'), x)
         /\ Len(applied') \in Nat /\ Len(applied) <= Len(applied')
  <1>1. PICK A \in Nat, Q \in Nat, L \in Nat, T \in Nat, k \in Nat :
          /\ A = Len(applied) /\ Q = Len(queue) /\ L = Len(accepted) /\ T = Len(trace)
          /\ k = DueCount(now) /\ k <= Q /\ A + Q = L /\ L <= T
          /\ Len(applied') = A + k
    <2>1. Len(applied) \in Nat /\ Len(queue) \in Nat /\ Len(accepted) \in Nat /\ Len(trace) \in Nat
      BY ToolLengths, Lengths DEF CaptureInv, KernelInv
    <2>2. DueCount(now) \in 0 .. Len(queue) /\ Len(applied') = Len(applied) + DueCount(now)
      BY ServiceLists DEF CaptureInv, KernelInv
    <2>3. Len(applied) + Len(queue) = Len(accepted) /\ Len(accepted) <= Len(trace)
      BY DEF OnTime, LogInv, CaptureInv, ScenarioInv
    <2>4. PICK k \in Nat : k = DueCount(now) /\ k <= Len(queue) /\ Len(applied') = Len(applied) + k
      BY <2>1, <2>2
    <2>5. QED
      BY <2>1, <2>3, <2>4
  <1>2. DueWrites(now) = [i \in 1 .. k |-> queue[i].n]
    BY <1>1 DEF DueWrites
  <1>3. ASSUME NEW i \in 1 .. k PROVE accepted[DueWrites(now)[i]].write = trace[A + i].write
    <2>1. i \in 1 .. Q /\ A + i \in 1 .. L
      BY <1>1
    <2>2. queue[i].n = A + i
      BY <1>1, <2>1 DEF OnTime, LogInv
    <2>3. DueWrites(now)[i] = A + i
      BY <1>2, <2>2
    <2>4. QED
      BY <1>1, <2>1, <2>3
  <1>4. PICK ns, log : ns = DueWrites(now) /\ log = accepted
    OBVIOUS
  <1>5. Len(ns) = k
    BY <1>2, <1>4
  <1>6. /\ Len(trace) \in Nat /\ DOMAIN trace = 1 .. Len(trace) /\ A + k <= Len(trace) /\ m <= A
        /\ \A i \in 1 .. Len(trace) : trace[i].write \in {"pitch", "on", "off"}
    <2>1. DOMAIN trace = 1 .. Len(trace) /\ \A i \in 1 .. Len(trace) : trace[i].write \in {"pitch", "on", "off"}
      BY ToolLengths, LenProperties
    <2>2. QED
      BY <1>1, <2>1
  <1>7. \A i \in 1 .. k : log[ns[i]].write = trace[A + i].write
    BY <1>3, <1>4
  <1>8. Effect(ChipAfter(m, A, x), log, ns) = ChipAfter(m, A + k, x)
    BY <1>5, <1>6, <1>7, EffectIs
  <1>9. chip' = Effect(c, accepted, DueWrites(now))
    BY DEF Service
  <1>10. QED
    BY <1>1, <1>4, <1>8, <1>9

\* What the invariants say of the chip and the last frame.
LEMMA ChipFacts ==
  ASSUME CaptureInv, ChipInv, tool # "none"
  PROVE  /\ KernelTypeOK /\ OnTime
         /\ Len(applied) \in Nat /\ Len(accepted) \in Nat /\ Len(rendered) \in Nat /\ Len(trace) \in Nat
         /\ Len(applied) <= Len(accepted) /\ Len(accepted) <= Len(trace)
         /\ \A f \in 0 .. Len(rendered) : AppliedAt(f) \in Nat /\ PhaseAt(f) \in 0 .. PhaseMod - 1
         /\ AppliedAt(Len(rendered)) <= Len(applied)
         /\ \A n \in Nat : IncrementOf(n) \in Nat
         /\ chip = ChipAfter(AppliedAt(Len(rendered)), Len(applied), PhaseAt(Len(rendered)))
         /\ chip.acc \in 0 .. PhaseMod - 1 /\ chip.inc \in Nat
  <1>1. KernelTypeOK /\ OnTime
    <2>1. transport # "both"
      BY DEF CaptureInv, ToolInv
    <2>2. QED
      BY <2>1 DEF CaptureInv, KernelInv
  <1>2. /\ Len(applied) \in Nat /\ Len(accepted) \in Nat /\ Len(rendered) \in Nat /\ Len(trace) \in Nat
        /\ Len(queue) \in Nat /\ \A f \in 1 .. Len(rendered) : rendered[f].applied \in Nat
    BY <1>1, Lengths, ToolLengths
  <1>3. Len(applied) <= Len(accepted) /\ Len(accepted) <= Len(trace)
    BY <1>1, <1>2 DEF OnTime, LogInv, CaptureInv, ScenarioInv
  <1>4. PhaseMod \in Nat \ {0}
    BY KernelAssumption
  <1>5. ASSUME NEW f \in 0 .. Len(rendered) PROVE AppliedAt(f) \in Nat /\ PhaseAt(f) \in 0 .. PhaseMod - 1
    <2>1. CASE f = 0
      BY <1>4, <2>1 DEF AppliedAt, PhaseAt
    <2>2. CASE f # 0
      <3>1. f \in 1 .. Len(rendered)
        BY <1>2, <2>2
      <3>2. QED
        BY <1>2, <2>2, <3>1 DEF AppliedAt, ChipInv
    <2>3. QED
      BY <2>1, <2>2
  <1>6. \A n \in Nat : IncrementOf(n) \in Nat
    BY DEF IncrementOf, Silent
  <1>7. /\ AppliedAt(Len(rendered)) <= Len(applied)
        /\ chip = ChipAfter(AppliedAt(Len(rendered)), Len(applied), PhaseAt(Len(rendered)))
    BY DEF ChipInv
  <1>8. chip.acc \in 0 .. PhaseMod - 1 /\ chip.inc \in Nat
    <2>1. Len(rendered) \in 0 .. Len(rendered)
      BY <1>2
    <2>2. PICK x, n, m :
            /\ x \in 0 .. PhaseMod - 1 /\ x = PhaseAt(Len(rendered))
            /\ n \in Nat /\ n = Len(applied) /\ m = AppliedAt(Len(rendered))
      BY <1>2, <1>5, <2>1
    <2>3. chip = [inc |-> IncrementOf(n), key |-> KeyIsOn(n + 1), acc |-> IF EdgeIn(m, n) THEN 0 ELSE x]
      BY <1>7, <2>2 DEF ChipAfter
    <2>4. chip.inc = IncrementOf(n) /\ chip.acc = IF EdgeIn(m, n) THEN 0 ELSE x
      BY <2>3
    <2>5. IncrementOf(n) \in Nat /\ 0 \in 0 .. PhaseMod - 1
      BY <1>4, <1>6, <2>2
    <2>6. QED
      BY <2>2, <2>4, <2>5
  <1>9. QED
    BY <1>1, <1>2, <1>3, <1>5, <1>6, <1>7, <1>8

\* The phases of new frames
LEMMA NewFrames ==
  ASSUME KernelTypeOK, NEW k \in Nat, Frames(k)
  PROVE  \A i \in 1 .. k :
           /\ rendered'[Len(rendered) + i].applied = Len(applied)
           /\ rendered'[Len(rendered) + i].acc = (chip.acc + i * chip.inc) % PhaseMod
  <1> DEFINE R == Len(rendered)
             Old == {rendered[f] : f \in 1 .. Len(rendered)}
             new == [i \in 1 .. k |-> [applied |-> Len(applied), acc |-> (chip.acc + i * chip.inc) % PhaseMod]]
             New == {new[i] : i \in 1 .. k}
  <1>1. rendered \in Seq(Old) /\ R \in Nat
    BY DEF KernelTypeOK
  <1>2. new \in [1 .. k -> New]
        /\ \A i \in 1 .. k : new[i].applied = Len(applied) /\ new[i].acc = (chip.acc + i * chip.inc) % PhaseMod
    OBVIOUS
  <1>3. rendered' = rendered \o new
    BY DEF Frames
  <1> HIDE DEF Old, new, New
  <1>4. new \in Seq(New) /\ Len(new) = k
    BY <1>2
  <1>5. rendered \in Seq(Old \cup New) /\ new \in Seq(Old \cup New)
    BY <1>1, <1>4, SeqMonotonic
  <1>6. \A f \in 1 .. R + k : rendered'[f] = IF f <= R THEN rendered[f] ELSE new[f - R]
    BY <1>3, <1>4, <1>5, ConcatProperties
  <1>7. \A i \in 1 .. k : R + i \in 1 .. R + k /\ ~(R + i <= R) /\ (R + i) - R = i
    BY <1>1
  <1>8. \A i \in 1 .. k : rendered'[R + i] = new[i]
    BY <1>6, <1>7
  <1>9. QED
    BY <1>2, <1>8

\* Old frames still follow.
LEMMA OldFrames ==
  ASSUME CaptureInv, ChipInv, tool # "none", trace' = trace, NEW f \in 1 .. Len(rendered),
         \A g \in 0 .. Len(rendered) : PhaseAt(g)' = PhaseAt(g) /\ AppliedAt(g)' = AppliedAt(g)
  PROVE  PhaseAt(f)' \in 0 .. PhaseMod - 1 /\ FrameFollows(f)'
  <1>1. f \in 0 .. Len(rendered) /\ f - 1 \in 0 .. Len(rendered)
    BY ChipFacts
  <1>2. PICK b \in Nat, c \in Nat, p \in 0 .. PhaseMod - 1, q \in 0 .. PhaseMod - 1 :
          b = AppliedAt(f - 1) /\ c = AppliedAt(f) /\ p = PhaseAt(f - 1) /\ q = PhaseAt(f)
    BY <1>1, ChipFacts
  <1>3. b = AppliedAt(f - 1)' /\ c = AppliedAt(f)' /\ p = PhaseAt(f - 1)' /\ q = PhaseAt(f)'
    BY <1>1, <1>2
  <1>4. q = ((IF EdgeIn(b, c) THEN 0 ELSE p) + IncrementOf(c)) % PhaseMod
    BY <1>2 DEF ChipInv, FrameFollows
  <1>5. EdgeIn(b, c)' = EdgeIn(b, c) /\ IncrementOf(c)' = IncrementOf(c)
    BY TraceKept DEF EdgeIn
  <1>6. QED
    BY <1>3, <1>4, <1>5 DEF FrameFollows

\* Old frames stay, and the new ones follow.
LEMMA FramesChip ==
  ASSUME CaptureInv, ChipInv, tool # "none", NEW k \in Nat, Frames(k), trace' = trace
  PROVE  /\ \A f \in 0 .. Len(rendered) : PhaseAt(f)' = PhaseAt(f) /\ AppliedAt(f)' = AppliedAt(f)
         /\ \A f \in 1 .. Len(rendered') : PhaseAt(f)' \in 0 .. PhaseMod - 1 /\ FrameFollows(f)'
         /\ \E m \in Nat, y \in 0 .. PhaseMod - 1 :
              /\ m = AppliedAt(Len(rendered))' /\ y = PhaseAt(Len(rendered))'
              /\ m <= Len(applied) /\ (k > 0 => m = Len(applied))
              /\ After(k) = ChipAfter(m, Len(applied), y)
  <1>1. PICK A \in Nat, R \in Nat, a \in 0 .. PhaseMod - 1, inc \in Nat, m \in Nat, x \in 0 .. PhaseMod - 1 :
          /\ A = Len(applied) /\ R = Len(rendered) /\ a = chip.acc /\ inc = chip.inc
          /\ m = AppliedAt(R) /\ x = PhaseAt(R) /\ m <= A /\ chip = ChipAfter(m, A, x)
    <2>1. Len(rendered) \in 0 .. Len(rendered)
      BY ChipFacts
    <2>2. QED
      BY <2>1, ChipFacts
  <1>2. A <= Len(trace) /\ DOMAIN trace = 1 .. Len(trace) /\ Len(trace) \in Nat
    BY <1>1, ChipFacts, ToolLengths, LenProperties
  <1>3. inc = IncrementOf(A) /\ a = (IF EdgeIn(m, A) THEN 0 ELSE x)
        /\ chip = [inc |-> inc, key |-> KeyIsOn(A + 1), acc |-> a]
    BY <1>1 DEF ChipAfter
  <1>4. ~EdgeIn(A, A)
    BY DEF EdgeIn
  <1>5. /\ Len(rendered') = R + k
        /\ \A f \in 1 .. R : rendered'[f] = rendered[f]
        /\ \A i \in 1 .. k : rendered'[R + i].applied = A /\ rendered'[R + i].acc = (a + i * inc) % PhaseMod
    <2>1. KernelTypeOK
      BY DEF CaptureInv, KernelInv
    <2>2. QED
      BY <1>1, <2>1, FramesLists, NewFrames
  <1>6. ASSUME NEW f \in 0 .. R PROVE PhaseAt(f)' = PhaseAt(f) /\ AppliedAt(f)' = AppliedAt(f)
    <2>1. CASE f = 0
      BY <2>1 DEF PhaseAt, AppliedAt
    <2>2. CASE f # 0
      <3>1. f \in 1 .. R
        BY <2>2
      <3>2. QED
        BY <1>5, <2>2, <3>1 DEF PhaseAt, AppliedAt
    <2>3. QED
      BY <2>1, <2>2
  <1>7. ASSUME NEW i \in 1 .. k
        PROVE  PhaseAt(R + i)' = (a + i * inc) % PhaseMod /\ AppliedAt(R + i)' = A
    <2>1. R + i # 0
      OBVIOUS
    <2>2. QED
      BY <1>5, <2>1 DEF PhaseAt, AppliedAt
  <1>8. \A i \in 0 .. k : i * inc \in Nat /\ (a + i * inc) % PhaseMod \in 0 .. PhaseMod - 1
    <2>1. ASSUME NEW i \in 0 .. k PROVE i * inc \in Nat /\ a + i * inc \in Int
      BY <1>1
    <2>2. QED
      BY <2>1, PhaseWraps
  <1>9. ASSUME NEW f \in 1 .. R + k PROVE PhaseAt(f)' \in 0 .. PhaseMod - 1 /\ FrameFollows(f)'
    <2>1. CASE f <= R
      <3>1. f \in 1 .. R
        BY <2>1
      <3>2. QED
        BY <1>1, <1>6, <3>1, OldFrames
    <2>2. CASE f = R + 1
      <3>1. 1 \in 1 .. k /\ 1 * inc = inc /\ 1 \in 0 .. k /\ R \in 0 .. R /\ (R + 1) - 1 = R
        BY <1>1, <2>2
      <3>2. PhaseAt(R + 1)' = (a + inc) % PhaseMod /\ AppliedAt(R + 1)' = A
        BY <1>7, <3>1
      <3>3. AppliedAt(R)' = m /\ PhaseAt(R)' = x
        BY <1>1, <1>6, <3>1
      <3>4. EdgeIn(m, A)' = EdgeIn(m, A) /\ IncrementOf(A)' = IncrementOf(A)
        BY TraceKept DEF EdgeIn
      <3>5. PhaseAt(R + 1)' \in 0 .. PhaseMod - 1
        BY <1>8, <3>1, <3>2
      <3>6. FrameFollows(R + 1)'
        BY <1>3, <3>1, <3>2, <3>3, <3>4 DEF FrameFollows
      <3>7. QED
        BY <2>2, <3>5, <3>6
    <2>3. CASE f > R + 1
      <3>1. PICK j \in 1 .. k : f = R + (j + 1) /\ j + 1 \in 1 .. k /\ f - 1 = R + j
        <4>1. f - R - 1 \in 1 .. k /\ f = R + ((f - R - 1) + 1) /\ (f - R - 1) + 1 \in 1 .. k
              /\ f - 1 = R + (f - R - 1)
          BY <2>3
        <4>2. QED
          BY <4>1
      <3>2. /\ PhaseAt(f)' = (a + (j + 1) * inc) % PhaseMod /\ AppliedAt(f)' = A
            /\ PhaseAt(f - 1)' = (a + j * inc) % PhaseMod /\ AppliedAt(f - 1)' = A
        BY <1>7, <3>1
      <3>3. EdgeIn(A, A)' = EdgeIn(A, A) /\ IncrementOf(A)' = IncrementOf(A)
        BY TraceKept DEF EdgeIn
      <3>4. (((a + j * inc) % PhaseMod) + inc) % PhaseMod = (a + (j + 1) * inc) % PhaseMod
        <4>1. \A s, u, v \in Nat : u * v \in Nat /\ (u + 1) * v = u * v + v
                                   /\ (s + u * v) + v = s + (u + 1) * v
          OBVIOUS
        <4>2. PICK t \in Int : t = a + j * inc /\ t + inc = a + (j + 1) * inc
          <5>1. a \in Nat /\ j \in Nat /\ inc \in Nat
            BY <1>1
          <5>2. a + j * inc \in Int /\ (a + j * inc) + inc = a + (j + 1) * inc
            BY <4>1, <5>1
          <5>3. QED
            BY <5>2
        <4>3. ((t % PhaseMod) + inc) % PhaseMod = (t + inc) % PhaseMod
          BY PhaseWraps
        <4>4. QED
          BY <4>2, <4>3
      <3>5. PhaseAt(f)' \in 0 .. PhaseMod - 1
        <4>1. PICK i \in 0 .. k : i = j + 1
          BY <3>1
        <4>2. (a + i * inc) % PhaseMod \in 0 .. PhaseMod - 1
          BY <1>8
        <4>3. QED
          BY <3>2, <4>1, <4>2
      <3>6. FrameFollows(f)'
        BY <1>3, <1>4, <3>2, <3>3, <3>4 DEF FrameFollows
      <3>7. QED
        BY <3>5, <3>6
    <2>4. QED
      BY <2>1, <2>2, <2>3
  <1>10. \E n \in Nat, y \in 0 .. PhaseMod - 1 :
           /\ n = AppliedAt(Len(rendered))' /\ y = PhaseAt(Len(rendered))'
           /\ n <= A /\ (k > 0 => n = A)
           /\ After(k) = ChipAfter(n, A, y)
    <2>1. PICK z \in 0 .. PhaseMod - 1 : z = (a + k * inc) % PhaseMod
      BY <1>8
    <2>2. After(k) = [inc |-> inc, key |-> KeyIsOn(A + 1), acc |-> z]
      <3>1. After(k) = [chip EXCEPT !.acc = z]
        BY <1>1, <2>1 DEF After
      <3>2. PICK key : key = KeyIsOn(A + 1)
        OBVIOUS
      <3>3. chip = [inc |-> inc, key |-> key, acc |-> a]
        BY <1>3, <3>2
      <3>4. QED
        BY <3>1, <3>2, <3>3
    <2>3. CASE k = 0
      <3>1. a + k * inc = a /\ a % PhaseMod = a
        <4>1. 0 * inc = 0 /\ a \in Int /\ 0 \in Int
          BY <1>1
        <4>2. a % PhaseMod = a
          BY <4>1, PhaseWraps
        <4>3. QED
          BY <2>3, <4>1, <4>2
      <3>2. After(k) = chip
        BY <1>3, <2>1, <2>2, <3>1
      <3>3. R \in 0 .. R /\ Len(rendered') = R
        BY <1>5, <2>3
      <3>4. m = AppliedAt(Len(rendered))' /\ x = PhaseAt(Len(rendered))'
        BY <1>1, <1>6, <3>3
      <3>5. QED
        BY <1>1, <2>3, <3>2, <3>4
    <2>4. CASE k # 0
      <3>1. k \in 1 .. k /\ Len(rendered') = R + k
        BY <1>5, <2>4
      <3>2. AppliedAt(Len(rendered))' = A /\ PhaseAt(Len(rendered))' = z
        BY <1>7, <2>1, <3>1
      <3>3. After(k) = ChipAfter(A, A, z)
        BY <1>3, <1>4, <2>2 DEF ChipAfter
      <3>4. QED
        BY <3>2, <3>3
    <2>5. QED
      BY <2>3, <2>4
  <1>11. QED
    BY <1>1, <1>5, <1>6, <1>9, <1>10

\* ChipInv from its parts
LEMMA ChipGoesOn ==
  ASSUME CaptureInv, ChipInv, tool # "none", trace' = trace, accepted' = accepted,
         NEW m \in Nat, NEW n \in Nat, NEW y,
         m = AppliedAt(Len(rendered))', y = PhaseAt(Len(rendered))', n = Len(applied'),
         chip' = ChipAfter(m, n, y), m <= n, dsp' = "idle" => m = n,
         \A f \in 1 .. Len(rendered') : PhaseAt(f)' \in 0 .. PhaseMod - 1 /\ FrameFollows(f)'
  PROVE  ChipInv'
  <1>1. ChipAfter(m, n, y)' = ChipAfter(m, n, y)
    BY TraceKept
  <1>2. \A i \in 1 .. Len(accepted') : accepted'[i].write = trace'[i].write
    BY DEF ChipInv
  <1>3. chip' = ChipAfter(AppliedAt(Len(rendered)), Len(applied), PhaseAt(Len(rendered)))'
    BY <1>1
  <1>4. QED
    BY <1>2, <1>3 DEF ChipInv

\* Steps that leave the frames and what was applied.
LEMMA ChipKept ==
  ASSUME CaptureInv, ChipInv, tool # "none", trace' = trace,
         UNCHANGED <<accepted, applied, rendered, chip>>, dsp' = "idle" => dsp = "idle"
  PROVE  ChipInv'
  <1>1. \A f \in 0 .. Len(rendered) : PhaseAt(f)' = PhaseAt(f) /\ AppliedAt(f)' = AppliedAt(f)
    BY DEF PhaseAt, AppliedAt
  <1>2. PICK R \in Nat, m \in Nat, n \in Nat, y \in 0 .. PhaseMod - 1 :
          /\ R = Len(rendered) /\ m = AppliedAt(R) /\ n = Len(applied) /\ y = PhaseAt(R)
          /\ R \in 0 .. R
    <2>1. Len(rendered) \in 0 .. Len(rendered)
      BY ChipFacts
    <2>2. QED
      BY <2>1, ChipFacts
  <1>3. R = Len(rendered)' /\ AppliedAt(R)' = m /\ PhaseAt(R)' = y /\ n = Len(applied')
    BY <1>1, <1>2
  <1>4. chip' = ChipAfter(m, n, y) /\ m <= n /\ (dsp' = "idle" => m = n)
    BY <1>2 DEF ChipInv
  <1>5. \A f \in 1 .. R : PhaseAt(f)' \in 0 .. PhaseMod - 1 /\ FrameFollows(f)'
    BY <1>1, <1>2, OldFrames
  <1>6. m = AppliedAt(Len(rendered))' /\ y = PhaseAt(Len(rendered))'
    BY <1>3
  <1>7. \A f \in 1 .. Len(rendered') : PhaseAt(f)' \in 0 .. PhaseMod - 1 /\ FrameFollows(f)'
    BY <1>3, <1>5
  <1>8. QED
    BY <1>3, <1>4, <1>6, <1>7, ChipGoesOn

LEMMA RenderChip ==
  ASSUME CaptureInv, ChipInv, tool # "none", RenderSteps, trace' = trace
  PROVE  /\ ChipInv'
         /\ \A f \in 0 .. Len(rendered) : PhaseAt(f)' = PhaseAt(f) /\ AppliedAt(f)' = AppliedAt(f)
  <1>1. BlockFrames \in Nat \ {0} /\ Len(applied) \in Nat
    BY CaptureConstants, ChipFacts
  <1>2. ASSUME NEW k \in Nat, Frames(k), k > 0, chip' = After(k), dsp' = "idle",
               UNCHANGED <<accepted, applied>>
        PROVE  /\ ChipInv'
               /\ \A f \in 0 .. Len(rendered) : PhaseAt(f)' = PhaseAt(f) /\ AppliedAt(f)' = AppliedAt(f)
    <2>1. /\ \A f \in 0 .. Len(rendered) : PhaseAt(f)' = PhaseAt(f) /\ AppliedAt(f)' = AppliedAt(f)
          /\ \A f \in 1 .. Len(rendered') : PhaseAt(f)' \in 0 .. PhaseMod - 1 /\ FrameFollows(f)'
      BY <1>2, FramesChip
    <2>2. PICK m \in Nat, y \in 0 .. PhaseMod - 1 :
            /\ m = AppliedAt(Len(rendered))' /\ y = PhaseAt(Len(rendered))'
            /\ m <= Len(applied) /\ (k > 0 => m = Len(applied))
            /\ After(k) = ChipAfter(m, Len(applied), y)
      BY <1>2, FramesChip
    <2>3. PICK n \in Nat : n = Len(applied') /\ n = Len(applied)
      BY <1>1, <1>2
    <2>4. chip' = ChipAfter(m, n, y) /\ m = n
      BY <1>2, <2>2, <2>3
    <2>5. ChipInv'
      BY <1>2, <2>1, <2>2, <2>3, <2>4, ChipGoesOn
    <2>6. QED
      BY <2>1, <2>5
  <1>3. CASE WholeBlock
    <2>1. Frames(BlockFrames) /\ chip' = After(BlockFrames) /\ dsp' = "idle"
          /\ UNCHANGED <<accepted, applied>>
      BY <1>3 DEF WholeBlock
    <2>2. BlockFrames \in Nat /\ BlockFrames > 0
      BY <1>1
    <2>3. QED
      BY <1>2, <2>1, <2>2
  <1>4. CASE Split
    <2>1. UNCHANGED <<accepted, applied, rendered, chip>> /\ dsp' = "split"
      BY <1>4 DEF Split
    <2>2. ChipInv'
      BY <2>1, ChipKept
    <2>3. QED
      BY <2>1, <2>2 DEF PhaseAt, AppliedAt
  <1>5. CASE Segment
    <2>1. PICK k, c, now :
            /\ k \in Nat /\ c = After(k) /\ Frames(k) /\ Service(c, now) /\ dsp' = "split" /\ accepted' = accepted
      <3>1. dsp = "split" /\ HeadLands /\ HeadOffset \in Int /\ seg.start \in Nat
        BY <1>5, HeadSeen DEF Segment, HeadLands, CaptureInv, KernelInv, KernelTypeOK
      <3>2. LandingOffset \in 0 .. BlockFrames - seg.start - 1
        BY <3>1, Landing DEF CaptureInv
      <3>3. PICK k \in Nat : k = LandingOffset
        BY <1>1, <3>1, <3>2
      <3>4. /\ Frames(k) /\ Service(After(k), (seg.native + Consumed(k + 1)) % ClockMod)
            /\ dsp' = "split" /\ accepted' = accepted
        BY <1>5, <3>1, <3>3 DEF Segment
      <3>5. QED
        BY <3>4
    <2>2. /\ \A f \in 0 .. Len(rendered) : PhaseAt(f)' = PhaseAt(f) /\ AppliedAt(f)' = AppliedAt(f)
          /\ \A f \in 1 .. Len(rendered') : PhaseAt(f)' \in 0 .. PhaseMod - 1 /\ FrameFollows(f)'
      BY <2>1, FramesChip
    <2>3. PICK m \in Nat, y \in 0 .. PhaseMod - 1 :
            /\ m = AppliedAt(Len(rendered))' /\ y = PhaseAt(Len(rendered))'
            /\ m <= Len(applied) /\ c = ChipAfter(m, Len(applied), y)
      BY <2>1, FramesChip
    <2>4. OnTime /\ \A i \in 1 .. Len(accepted) : accepted[i].write = trace[i].write
      BY ChipFacts DEF ChipInv
    <2>5. chip' = ChipAfter(m, Len(applied'), y) /\ Len(applied') \in Nat /\ Len(applied) <= Len(applied')
      BY <2>1, <2>3, <2>4, ServedChip
    <2>6. PICK n \in Nat : n = Len(applied') /\ m <= n /\ chip' = ChipAfter(m, n, y)
      <3>1. m <= Len(applied')
        BY <1>1, <2>3, <2>5
      <3>2. QED
        BY <2>5, <3>1
    <2>7. ChipInv'
      BY <2>1, <2>2, <2>3, <2>6, ChipGoesOn
    <2>8. QED
      BY <2>2, <2>7
  <1>6. CASE LastSegment
    <2>1. /\ Frames(BlockFrames - seg.start) /\ chip' = After(BlockFrames - seg.start) /\ dsp' = "idle"
          /\ UNCHANGED <<accepted, applied>>
      BY <1>6 DEF LastSegment
    <2>2. BlockFrames - seg.start \in Nat /\ BlockFrames - seg.start > 0
      <3>1. seg.start \in Nat /\ seg.start < BlockFrames
        BY <1>6 DEF LastSegment, CaptureInv, KernelInv, KernelTypeOK, CursorInv
      <3>2. QED
        BY <1>1, <3>1
    <2>3. QED
      BY <1>2, <2>1, <2>2
  <1>7. QED
    BY <1>3, <1>4, <1>5, <1>6 DEF RenderSteps

\* The indices of a buffer's frames
LEMMA BufferIndex ==
  ASSUME NEW N \in Nat, NEW n \in 1 .. N
  PROVE  /\ n * BufferFrames \in 0 .. N * BufferFrames
         /\ \A i \in 1 .. BufferFrames : (n - 1) * BufferFrames + i \in 1 .. n * BufferFrames
  <1>1. PICK k \in Nat \ {0} : k = BufferFrames
    BY CaptureConstants
  <1>2. PICK p \in Nat, q \in Nat, r \in Nat : p = (n - 1) * k /\ q = n * k /\ r = N * k
    <2>1. n \in Nat /\ n - 1 \in Nat
      OBVIOUS
    <2>2. QED
      BY <1>1, <2>1
  <1>3. q = p + k /\ q <= r
    <2>1. n \in Int /\ N \in Int /\ n <= N
      OBVIOUS
    <2>2. n * k <= N * k
      BY <2>1, Cancel
    <2>3. n * k = (n - 1) * k + k
      BY <1>1
    <2>4. QED
      BY <1>2, <2>2, <2>3
  <1>4. QED
    BY <1>1, <1>2, <1>3

LEMMA DumpsStand ==
  ASSUME CaptureInv, ChipInv, DumpedInv, tool # "none", trace' = trace,
         Len(rendered') \in Nat, Len(rendered) <= Len(rendered'),
         \A f \in 0 .. Len(rendered) : PhaseAt(f)' = PhaseAt(f) /\ AppliedAt(f)' = AppliedAt(f)
  PROVE  /\ \A i \in 1 .. Len(dumps.state) : \A dump :
              dump = dumps.state[i] =>
                (i - 1) * BlockFrames <= Len(rendered') /\ ChipOf(dump, (i - 1) * BlockFrames)'
         /\ \A n \in 1 .. Len(dumps.buffer) : \A dump :
              dump = dumps.buffer[n] =>
                /\ ChipOf(dump, n * BufferFrames)'
                /\ \A i \in 1 .. BufferFrames :
                     dump.ssi[dump.output][i] = PhaseAt((n - 1) * BufferFrames + i)'
  <1>1. PICK R \in Nat, S \in Nat, N \in Nat :
          R = Len(rendered) /\ S = Len(dumps.state) /\ N = Len(dumps.buffer) /\ N * BufferFrames <= R
    <2>1. Len(dumps.buffer) * BufferFrames <= Len(rendered)
      BY DEF CaptureInv, DumpInv
    <2>2. QED
      BY <2>1, ToolLengths
  <1>2. ASSUME NEW dump, NEW f \in 0 .. R, ChipOf(dump, f)
        PROVE  ChipOf(dump, f)'
    <2>1. PICK n \in Nat : n = AppliedAt(f)
      BY <1>1, ChipFacts
    <2>2. n = AppliedAt(f)' /\ PhaseAt(f)' = PhaseAt(f)
      BY <1>1, <2>1
    <2>3. IncrementOf(n)' = IncrementOf(n)
      BY TraceKept
    <2>4. QED
      BY <1>2, <2>1, <2>2, <2>3 DEF ChipOf
  <1>3. ASSUME NEW i \in 1 .. S, NEW dump, dump = dumps.state[i]
        PROVE  (i - 1) * BlockFrames <= Len(rendered') /\ ChipOf(dump, (i - 1) * BlockFrames)'
    <2>1. PICK f \in Nat : f = (i - 1) * BlockFrames
      <3>1. i - 1 \in Nat
        OBVIOUS
      <3>2. QED
        BY <3>1, CaptureConstants
    <2>2. f <= R /\ ChipOf(dump, f)
      BY <1>1, <1>3, <2>1 DEF DumpedInv
    <2>3. f \in 0 .. R /\ f <= Len(rendered')
      BY <1>1, <2>1, <2>2
    <2>4. ChipOf(dump, f)'
      BY <1>2, <2>2, <2>3
    <2>5. QED
      BY <2>1, <2>3, <2>4 DEF ChipOf
  <1>4. ASSUME NEW n \in 1 .. N, NEW dump, dump = dumps.buffer[n]
        PROVE  /\ ChipOf(dump, n * BufferFrames)'
               /\ \A i \in 1 .. BufferFrames :
                    dump.ssi[dump.output][i] = PhaseAt((n - 1) * BufferFrames + i)'
    <2>1. /\ n * BufferFrames \in 0 .. R
          /\ \A i \in 1 .. BufferFrames : (n - 1) * BufferFrames + i \in 0 .. R
      <3>1. PICK r \in Int, q \in Int : r = N * BufferFrames /\ q = n * BufferFrames
        BY CaptureConstants
      <3>2. q \in 0 .. r /\ \A i \in 1 .. BufferFrames : (n - 1) * BufferFrames + i \in 1 .. q
        BY <3>1, BufferIndex
      <3>3. QED
        BY <1>1, <3>1, <3>2
    <2>2. PICK f \in 0 .. R : f = n * BufferFrames
      BY <2>1
    <2>3. ChipOf(dump, f)
      BY <1>1, <1>4, <2>2 DEF DumpedInv
    <2>4. ChipOf(dump, f)'
      BY <1>2, <2>3
    <2>5. ASSUME NEW i \in 1 .. BufferFrames
          PROVE  dump.ssi[dump.output][i] = PhaseAt((n - 1) * BufferFrames + i)'
      <3>1. PICK g \in 0 .. R : g = (n - 1) * BufferFrames + i
        BY <2>1
      <3>2. dump.ssi[dump.output][i] = PhaseAt(g)
        BY <1>1, <1>4, <3>1 DEF DumpedInv
      <3>3. PhaseAt(g)' = PhaseAt(g)
        BY <1>1
      <3>4. QED
        BY <3>1, <3>2, <3>3
    <2>6. ChipOf(dump, n * BufferFrames)'
      BY <2>2, <2>4 DEF ChipOf, BufferFrames
    <2>7. QED
      BY <2>5, <2>6
  <1>5. QED
    BY <1>1, <1>3, <1>4

LEMMA DumpsKept ==
  ASSUME CaptureInv, ChipInv, DumpedInv, tool # "none", trace' = trace, dumps' = dumps,
         Len(rendered') \in Nat, Len(rendered) <= Len(rendered'),
         \A f \in 0 .. Len(rendered) : PhaseAt(f)' = PhaseAt(f) /\ AppliedAt(f)' = AppliedAt(f)
  PROVE  DumpedInv'
  <1>1. ASSUME NEW i \in 1 .. Len(dumps.state)
        PROVE  (i - 1) * BlockFrames <= Len(rendered') /\ ChipOf(dumps.state[i], (i - 1) * BlockFrames)'
    <2>1. PICK dump : dump = dumps.state[i]
      OBVIOUS
    <2>2. (i - 1) * BlockFrames <= Len(rendered') /\ ChipOf(dump, (i - 1) * BlockFrames)'
      BY <2>1, DumpsStand
    <2>3. QED
      BY <2>1, <2>2 DEF ChipOf
  <1>2. ASSUME NEW n \in 1 .. Len(dumps.buffer)
        PROVE  /\ ChipOf(dumps.buffer[n], n * BufferFrames)'
               /\ \A i \in 1 .. BufferFrames :
                    dumps.buffer[n].ssi[dumps.buffer[n].output][i] = PhaseAt((n - 1) * BufferFrames + i)'
    <2>1. PICK dump : dump = dumps.buffer[n]
      OBVIOUS
    <2>2. /\ ChipOf(dump, n * BufferFrames)'
          /\ \A i \in 1 .. BufferFrames : dump.ssi[dump.output][i] = PhaseAt((n - 1) * BufferFrames + i)'
      BY <2>1, DumpsStand
    <2>3. QED
      BY <2>1, <2>2 DEF ChipOf, BufferFrames
  <1>3. QED
    BY <1>1, <1>2 DEF DumpedInv, BufferFrames
-----------------------------------------------------------------------------
(* PhaseInv step by step.                                                  *)

\* Between blocks the chip is as the last frame left it.
LEMMA IdleChip ==
  ASSUME CaptureInv, ChipInv, tool # "none", dsp = "idle"
  PROVE  /\ chip.acc = PhaseAt(Len(rendered)) /\ chip.inc = IncrementOf(AppliedAt(Len(rendered)))
         /\ AppliedAt(Len(rendered)) \in Nat
  <1>1. PICK n, x : n \in Nat /\ n = Len(applied) /\ n = AppliedAt(Len(rendered)) /\ x = PhaseAt(Len(rendered))
    BY ChipFacts DEF ChipInv
  <1>2. ~EdgeIn(n, n)
    BY <1>1 DEF EdgeIn
  <1>3. chip = [inc |-> IncrementOf(n), key |-> KeyIsOn(n + 1), acc |-> x]
    BY <1>1, <1>2 DEF ChipInv, ChipAfter
  <1>4. QED
    BY <1>1, <1>3

\* Steps of the tool beside the renderer
LEMMA PhaseKept ==
  ASSUME CaptureInv, PhaseInv, UNCHANGED <<kernelVars, trace, dumps>>,
         tool' # "none" => tool # "none", failure' # "segments"
  PROVE  PhaseInv'
  <1>1. UNCHANGED <<accepted, applied, rendered, chip, dsp>>
    BY DEF kernelVars
  <1>2. CASE tool # "none"
    <2>1. ChipInv'
      BY <1>1, <1>2, ChipKept DEF PhaseInv
    <2>2. Len(rendered') \in Nat /\ Len(rendered) <= Len(rendered')
      BY <1>1, ToolLengths
    <2>3. \A f \in 0 .. Len(rendered) : PhaseAt(f)' = PhaseAt(f) /\ AppliedAt(f)' = AppliedAt(f)
      BY <1>1 DEF PhaseAt, AppliedAt
    <2>4. DumpedInv'
      BY <1>2, <2>2, <2>3, DumpsKept DEF PhaseInv
    <2>5. QED
      BY <2>1, <2>4 DEF PhaseInv, SegmentsAgree
  <1>3. CASE tool = "none"
    <2>1. tool' = "none" /\ dumps'.state = <<>> /\ dumps'.buffer = <<>> /\ Len(<<>>) = 0
      BY <1>3 DEF CaptureInv, ToolInv
    <2>2. ChipInv' /\ DumpedInv'
      BY <2>1 DEF ChipInv, DumpedInv
    <2>3. QED
      BY <2>2 DEF PhaseInv, SegmentsAgree
  <1>4. QED
    BY <1>2, <1>3

\* Before the first frame nothing is dumped.
LEMMA NothingDumped ==
  ASSUME dumps'.state = <<>>, dumps'.buffer = <<>>
  PROVE  DumpedInv'
  <1>1. Len(<<>>) = 0
    OBVIOUS
  <1>2. QED
    BY <1>1 DEF DumpedInv

LEMMA StreamOnlyPhase ==
  ASSUME CaptureInv, PhaseInv, StreamNext, UNCHANGED toolVars
  PROVE  PhaseInv'
  <1>1. transport # "capture" /\ UNCHANGED <<tool, dumps, failure>>
    BY DEF StreamNext, toolVars
  <1>2. tool' = "none" /\ dumps'.state = <<>> /\ dumps'.buffer = <<>>
    BY <1>1 DEF CaptureInv, ToolInv
  <1>3. ChipInv' /\ DumpedInv'
    BY <1>2, NothingDumped DEF ChipInv
  <1>4. QED
    BY <1>1, <1>3 DEF PhaseInv, SegmentsAgree

\* The chip before the first event is silent, whatever the trace.
LEMMA SilentChip ==
  /\ ChipAfter(0, 0, 0) = Silent
  /\ ChipAfter(0, 0, 0)' = Silent
  <1>1. ~KeyIsOn(0 + 1) /\ ~KeyIsOn(0 + 1)'
    BY DEF KeyIsOn
  <1>2. ~EdgeIn(0, 0) /\ ~EdgeIn(0, 0)'
    BY DEF EdgeIn
  <1>3. IncrementOf(0) = 1 /\ IncrementOf(0)' = 1
    BY DEF IncrementOf, Silent
  <1>4. QED
    BY <1>1, <1>2, <1>3 DEF ChipAfter, Silent, KeyIsOn

LEMMA ReadEventPhase ==
  ASSUME CaptureInv, PhaseInv, NEW s \in Stamps, NEW w \in {"pitch", "on", "off"}, ReadEvent(s, w)
  PROVE  PhaseInv'
  <1>1. tool = "trace" /\ UNCHANGED <<kernelVars, tool, dumps, failure>>
    BY DEF ReadEvent
  <1>2. /\ accepted' = <<>> /\ applied' = <<>> /\ rendered' = <<>> /\ chip' = chip
        /\ applied = <<>> /\ rendered = <<>>
        /\ dumps'.state = <<>> /\ dumps'.buffer = <<>> /\ Len(<<>>) = 0
    BY <1>1 DEF CaptureInv, ToolInv, kernelVars
  <1>3. AppliedAt(0) = 0 /\ PhaseAt(0) = 0 /\ AppliedAt(0)' = 0 /\ PhaseAt(0)' = 0
    BY DEF AppliedAt, PhaseAt
  <1>4. chip = ChipAfter(0, 0, 0)
    BY <1>1, <1>2, <1>3 DEF PhaseInv, ChipInv
  <1>5. chip' = ChipAfter(0, 0, 0)'
    BY <1>2, <1>4, SilentChip
  <1>6. ChipInv'
    BY <1>2, <1>3, <1>5 DEF ChipInv
  <1>7. DumpedInv'
    BY <1>2, NothingDumped
  <1>8. QED
    BY <1>1, <1>6, <1>7 DEF PhaseInv, SegmentsAgree

LEMMA QueueEventPhase ==
  ASSUME CaptureInv, PhaseInv, QueueEvent
  PROVE  PhaseInv'
  <1>1. /\ tool = "queue" /\ UNCHANGED <<tool, trace, dumps, failure>>
        /\ Len(accepted) < Len(trace)
        /\ EnqueueWrite(trace[Len(accepted) + 1].sample % ClockMod, trace[Len(accepted) + 1].write)
    BY DEF QueueEvent, toolVars
  <1>2. /\ applied = <<>> /\ rendered = <<>> /\ dsp = "idle"
        /\ UNCHANGED <<applied, rendered, chip, dsp>> /\ Len(<<>>) = 0
        /\ dumps'.state = <<>> /\ dumps'.buffer = <<>>
    BY <1>1 DEF CaptureInv, ToolInv, EnqueueWrite
  <1>3. AppliedAt(0) = 0 /\ PhaseAt(0) = 0 /\ AppliedAt(0)' = 0 /\ PhaseAt(0)' = 0
    BY DEF AppliedAt, PhaseAt
  <1>4. chip' = ChipAfter(0, 0, 0)'
    <2>1. chip = ChipAfter(0, 0, 0)
      BY <1>1, <1>2, <1>3 DEF PhaseInv, ChipInv
    <2>2. QED
      BY <1>2, <2>1, SilentChip
  <1>5. \A i \in 1 .. Len(accepted') : accepted'[i].write = trace'[i].write
    <2>1. PICK L, e, t : L \in Nat /\ L = Len(accepted) /\ t = trace[L + 1].write /\ e.write = t
                              /\ (accepted' = Append(accepted, e) \/ accepted' = accepted)
      <3>1. PICK L \in Nat : L = Len(accepted)
        BY ToolLengths
      <3>2. PICK t, d : t = trace[L + 1].write
                      /\ (accepted' = Append(accepted, Entry(t, d, FALSE)) \/ accepted' = accepted)
        BY <1>1, <3>1 DEF EnqueueWrite
      <3>3. PICK e : e = Entry(t, d, FALSE)
        OBVIOUS
      <3>4. e.write = t
        BY <3>3 DEF Entry
      <3>5. QED
        BY <3>1, <3>2, <3>3, <3>4
    <2>2. \A i \in 1 .. L : accepted[i].write = trace[i].write
      BY <1>1, <2>1 DEF PhaseInv, ChipInv
    <2>3. CASE accepted' = accepted
      BY <1>1, <2>1, <2>2, <2>3
    <2>4. CASE accepted' = Append(accepted, e)
      <3>1. /\ Len(accepted') = L + 1 /\ accepted'[L + 1] = e
            /\ \A i \in 1 .. L : accepted'[i] = accepted[i]
        <4>1. PICK W : accepted \in Seq(W)
          BY DEF CaptureInv, KernelInv, KernelTypeOK
        <4>2. PICK a \in Seq(W \cup {e}) : a = accepted
          BY <4>1, SeqMonotonic, W \subseteq W \cup {e}
        <4>3. /\ Len(Append(a, e)) = Len(a) + 1 /\ Append(a, e)[Len(a) + 1] = e
              /\ \A i \in 1 .. Len(a) : Append(a, e)[i] = a[i]
          BY e \in W \cup {e}, AppendProperties
        <4>4. QED
          BY <2>1, <2>4, <4>2, <4>3
      <3>2. ASSUME NEW i \in 1 .. L + 1 PROVE accepted'[i].write = trace[i].write
        <4>1. CASE i = L + 1
          BY <2>1, <3>1, <4>1
        <4>2. CASE i # L + 1
          <5>1. i \in 1 .. L
            BY <2>1, <4>2
          <5>2. QED
            BY <2>2, <3>1, <5>1
        <4>3. QED
          BY <4>1, <4>2
      <3>3. QED
        BY <1>1, <3>1, <3>2
    <2>5. QED
      BY <2>1, <2>3, <2>4
  <1>6. ChipInv'
    BY <1>2, <1>3, <1>4, <1>5 DEF ChipInv
  <1>7. DumpedInv'
    BY <1>2, NothingDumped
  <1>8. QED
    BY <1>1, <1>6, <1>7 DEF PhaseInv, SegmentsAgree

LEMMA RenderOnPhase ==
  ASSUME CaptureInv, PhaseInv, RenderOn
  PROVE  PhaseInv'
  <1>1. tool = "run" /\ RenderSteps /\ UNCHANGED <<tool, trace, dumps, failure>>
    BY DEF RenderOn, toolVars
  <1>2. /\ ChipInv'
        /\ \A f \in 0 .. Len(rendered) : PhaseAt(f)' = PhaseAt(f) /\ AppliedAt(f)' = AppliedAt(f)
    BY <1>1, RenderChip DEF PhaseInv
  <1>3. Len(rendered') \in Nat /\ Len(rendered) <= Len(rendered')
    BY <1>1, RenderEnds DEF CaptureInv
  <1>4. DumpedInv'
    BY <1>1, <1>2, <1>3, DumpsKept DEF PhaseInv
  <1>5. QED
    BY <1>1, <1>2, <1>4 DEF PhaseInv, SegmentsAgree

\* The state dumped at the entry of a block is that behind the last frame.
LEMMA EnterBlockPhase ==
  ASSUME CaptureInv, PhaseInv, EnterBlock
  PROVE  PhaseInv'
  <1>1. PICK R \in Nat, S \in Nat : R = Len(rendered) /\ S = Len(dumps.state) /\ R \in 0 .. R
    <2>1. Len(rendered) \in Nat /\ Len(dumps.state) \in Nat /\ Len(rendered) \in 0 .. Len(rendered)
      BY ToolLengths
    <2>2. QED
      BY <2>1
  <1>2. /\ tool = "run" /\ dsp = "idle" /\ dsp' = "block" /\ Service(chip, clock)
        /\ dumps' = [dumps EXCEPT !.state = Append(@, StateDump)]
        /\ UNCHANGED <<trace, failure, accepted, rendered>>
    BY DEF EnterBlock, BeginBlock
  <1>3. ChipInv /\ DumpedInv /\ OnTime /\ tool # "none" /\ S * BlockFrames = R
    <2>1. ChipInv /\ DumpedInv /\ tool # "none"
      BY <1>2 DEF PhaseInv
    <2>2. S * BlockFrames = R
      BY <1>1, <1>2 DEF CaptureInv, DumpInv
    <2>3. QED
      BY <2>1, <2>2, ChipFacts
  <1>4. \A f \in 0 .. Len(rendered) : PhaseAt(f)' = PhaseAt(f) /\ AppliedAt(f)' = AppliedAt(f)
    BY <1>2 DEF PhaseAt, AppliedAt
  <1>5. ChipInv'
    <2>1. PICK m \in Nat, y \in 0 .. PhaseMod - 1 :
            m = AppliedAt(R) /\ y = PhaseAt(R) /\ m <= Len(applied) /\ chip = ChipAfter(m, Len(applied), y)
      BY <1>1, <1>3, ChipFacts
    <2>2. \A i \in 1 .. Len(accepted) : accepted[i].write = trace[i].write
      BY <1>3 DEF ChipInv
    <2>3. chip' = ChipAfter(m, Len(applied'), y) /\ Len(applied') \in Nat /\ Len(applied) <= Len(applied')
      <3>1. PICK c, now : c = chip /\ now = clock
        OBVIOUS
      <3>2. c = ChipAfter(m, Len(applied), y) /\ Service(c, now)
        BY <1>2, <2>1, <3>1
      <3>3. QED
        BY <1>3, <2>1, <2>2, <3>2, ServedChip
    <2>4. PICK n \in Nat : n = Len(applied') /\ m <= n /\ chip' = ChipAfter(m, n, y)
      <3>1. m <= Len(applied') /\ Len(applied) \in Nat
        BY <1>3, <2>1, <2>3, ChipFacts
      <3>2. QED
        BY <2>3, <3>1
    <2>5. m = AppliedAt(Len(rendered))' /\ y = PhaseAt(Len(rendered))'
      <3>1. Len(rendered)' = R
        BY <1>1, <1>2
      <3>2. QED
        BY <1>1, <1>4, <2>1, <3>1
    <2>6. \A f \in 1 .. Len(rendered') : PhaseAt(f)' \in 0 .. PhaseMod - 1 /\ FrameFollows(f)'
      BY <1>2, <1>3, <1>4, OldFrames
    <2>7. QED
      BY <1>2, <1>3, <2>4, <2>5, <2>6, ChipGoesOn
  <1>6. DumpedInv'
    <2>1. dumps'.state = Append(dumps.state, StateDump) /\ dumps'.buffer = dumps.buffer
      <3>1. PICK st, bu, new : /\ dumps = [state |-> st, buffer |-> bu] /\ st = dumps.state /\ bu = dumps.buffer
                               /\ new = Append(st, StateDump)
        BY ToolLengths
      <3>2. dumps' = [dumps EXCEPT !.state = new]
        BY <1>2, <3>1
      <3>3. QED
        BY <3>1, <3>2
    <2>2. /\ Len(dumps'.state) = S + 1 /\ dumps'.state[S + 1] = StateDump
          /\ \A i \in 1 .. S : dumps'.state[i] = dumps.state[i]
      <3>1. PICK s, d, t : s = dumps.state /\ d = StateDump /\ t = dumps'.state /\ t = Append(s, d)
                           /\ s \in Seq({s[i] : i \in 1 .. Len(s)})
        BY <2>1, ToolLengths
      <3>2. /\ Len(t) = Len(s) + 1 /\ t[Len(s) + 1] = d
            /\ \A i \in 1 .. Len(s) : t[i] = s[i]
        BY <3>1, Longer
      <3>3. QED
        BY <1>1, <3>1, <3>2
    <2>3. R = Len(rendered') /\ Len(rendered') \in Nat /\ Len(rendered) <= Len(rendered')
      BY <1>1, <1>2
    <2>4. ASSUME NEW i \in 1 .. S + 1
          PROVE  (i - 1) * BlockFrames <= Len(rendered') /\ ChipOf(dumps.state[i], (i - 1) * BlockFrames)'
      <3>1. PICK dump : dump = dumps'.state[i]
        OBVIOUS
      <3>2. CASE i = S + 1
        <4>1. dump.acc = PhaseAt(R) /\ dump.inc = IncrementOf(AppliedAt(R)) /\ AppliedAt(R) \in Nat
          <5>1. dump = StateDump
            BY <2>2, <3>1, <3>2
          <5>2. chip.acc = PhaseAt(R) /\ chip.inc = IncrementOf(AppliedAt(R)) /\ AppliedAt(R) \in Nat
            BY <1>1, <1>2, <1>3, IdleChip
          <5>3. QED
            BY <5>1, <5>2 DEF StateDump
        <4>2. PICK n \in Nat : n = AppliedAt(R) /\ n = AppliedAt(R)' /\ PhaseAt(R)' = PhaseAt(R)
          BY <1>1, <1>4, <4>1
        <4>3. IncrementOf(n)' = IncrementOf(n)
          BY <1>2, TraceKept
        <4>4. ChipOf(dump, R)'
          BY <4>1, <4>2, <4>3 DEF ChipOf
        <4>5. (i - 1) * BlockFrames = R
          <5>1. i - 1 = S
            BY <3>2
          <5>2. QED
            BY <1>3, <5>1
        <4>6. R <= Len(rendered')
          BY <1>1, <2>3
        <4>7. QED
          BY <3>1, <4>4, <4>5, <4>6 DEF ChipOf
      <3>3. CASE i # S + 1
        <4>1. i \in 1 .. S
          BY <3>3
        <4>2. dump = dumps.state[i]
          BY <2>2, <3>1, <4>1
        <4>3. (i - 1) * BlockFrames <= Len(rendered') /\ ChipOf(dump, (i - 1) * BlockFrames)'
          BY <1>1, <1>2, <1>3, <1>4, <2>3, <4>1, <4>2, DumpsStand
        <4>4. QED
          BY <3>1, <4>3 DEF ChipOf
      <3>4. QED
        BY <3>2, <3>3
    <2>5. ASSUME NEW n \in 1 .. Len(dumps.buffer)
          PROVE  /\ ChipOf(dumps.buffer[n], n * BufferFrames)'
                 /\ \A i \in 1 .. BufferFrames :
                      dumps'.buffer[n].ssi[dumps'.buffer[n].output][i] = PhaseAt((n - 1) * BufferFrames + i)'
      <3>1. PICK dump : dump = dumps.buffer[n] /\ dump = dumps'.buffer[n]
        BY <2>1
      <3>2. /\ ChipOf(dump, n * BufferFrames)'
            /\ \A i \in 1 .. BufferFrames : dump.ssi[dump.output][i] = PhaseAt((n - 1) * BufferFrames + i)'
        BY <1>2, <1>3, <1>4, <2>3, <3>1, DumpsStand
      <3>3. QED
        BY <3>1, <3>2 DEF ChipOf, BufferFrames
    <2>6. QED
      BY <2>1, <2>2, <2>4, <2>5 DEF DumpedInv, BufferFrames
  <1>7. QED
    BY <1>2, <1>5, <1>6 DEF PhaseInv, SegmentsAgree

\* A buffer is dumped from the one that was rendered last.
LEMMA FinishBufferPhase ==
  ASSUME CaptureInv, PhaseInv, FinishBuffer
  PROVE  PhaseInv'
  <1>1. PICK R \in Nat, B \in Nat, N \in Nat :
          R = Len(rendered) /\ B = Len(dumps.buffer) /\ N = B + 1 /\ R \in 0 .. R
    <2>1. Len(rendered) \in Nat /\ Len(dumps.buffer) \in Nat /\ Len(dumps.buffer) + 1 \in Nat
          /\ Len(rendered) \in 0 .. Len(rendered)
      BY ToolLengths
    <2>2. QED
      BY <2>1
  <1>2. /\ tool = "run" /\ dsp = "idle" /\ BuffersDue = 1
        /\ dumps' = [dumps EXCEPT !.buffer = Append(@, BufferDump(Len(rendered) \div BufferFrames))]
        /\ UNCHANGED <<kernelVars, trace, failure>>
    BY DEF FinishBuffer
  <1>3. ChipInv /\ DumpedInv /\ tool # "none"
    BY <1>2 DEF PhaseInv
  <1>4. N * BufferFrames = R /\ R \div BufferFrames = N
    BY <1>1, <1>2, BufferDue
  <1>5. UNCHANGED <<accepted, applied, rendered, chip, dsp>>
    BY <1>2 DEF kernelVars
  <1>6. ChipInv'
    BY <1>2, <1>3, <1>5, ChipKept
  <1>7. \A f \in 0 .. Len(rendered) : PhaseAt(f)' = PhaseAt(f) /\ AppliedAt(f)' = AppliedAt(f)
    BY <1>5 DEF PhaseAt, AppliedAt
  <1>8. PICK d : d = BufferDump(N) /\ dumps' = [dumps EXCEPT !.buffer = Append(@, d)]
    BY <1>1, <1>2, <1>4
  <1>9. dumps'.buffer = Append(dumps.buffer, d) /\ dumps'.state = dumps.state
    <2>1. PICK st, bu, new : /\ dumps = [state |-> st, buffer |-> bu] /\ st = dumps.state /\ bu = dumps.buffer
                             /\ new = Append(bu, d)
      BY ToolLengths
    <2>2. dumps' = [dumps EXCEPT !.buffer = new]
      BY <1>8, <2>1
    <2>3. QED
      BY <2>1, <2>2
  <1>10. /\ Len(dumps'.buffer) = B + 1 /\ dumps'.buffer[B + 1] = d
         /\ \A n \in 1 .. B : dumps'.buffer[n] = dumps.buffer[n]
    <2>1. PICK s, t : s = dumps.buffer /\ t = dumps'.buffer /\ t = Append(s, d)
                      /\ s \in Seq({s[i] : i \in 1 .. Len(s)})
      BY <1>9, ToolLengths
    <2>2. /\ Len(t) = Len(s) + 1 /\ t[Len(s) + 1] = d
          /\ \A i \in 1 .. Len(s) : t[i] = s[i]
      BY <2>1, Longer
    <2>3. QED
      BY <1>1, <2>1, <2>2
  <1>11. /\ ChipOf(d, R)'
         /\ \A i \in 1 .. BufferFrames : d.ssi[d.output][i] = PhaseAt((N - 1) * BufferFrames + i)'
    <2>1. /\ d.acc = chip.acc /\ d.inc = chip.inc /\ d.output = N % 2
          /\ d.ssi = [b \in {0, 1} |-> LET latest == IF N % 2 = b THEN N ELSE N - 1
                                       IN IF latest = 0 THEN <<>> ELSE Samples(latest)]
      BY <1>8 DEF BufferDump
    <2>2. ChipOf(d, R)'
      <3>1. PICK n \in Nat : n = AppliedAt(R) /\ n = AppliedAt(R)' /\ PhaseAt(R)' = PhaseAt(R)
                             /\ d.acc = PhaseAt(R) /\ d.inc = IncrementOf(n)
        BY <1>1, <1>2, <1>3, <1>7, <2>1, IdleChip
      <3>2. IncrementOf(n)' = IncrementOf(n)
        BY <1>2, TraceKept
      <3>3. QED
        BY <3>1, <3>2 DEF ChipOf
    <2>3. d.ssi[d.output] = Samples(N)
      <3>1. N % 2 \in {0, 1} /\ N # 0
        <4>1. \A x \in Nat : x % 2 \in {0, 1}
          OBVIOUS
        <4>2. N \in Nat /\ N # 0
          BY <1>1
        <4>3. QED
          BY <4>1, <4>2
      <3>2. QED
        BY <2>1, <3>1
    <2>4. ASSUME NEW i \in 1 .. BufferFrames
          PROVE  d.ssi[d.output][i] = PhaseAt((N - 1) * BufferFrames + i)'
      <3>1. PICK f \in 1 .. R : f = (N - 1) * BufferFrames + i
        <4>1. N \in 1 .. N
          BY <1>1
        <4>2. QED
          BY <1>4, <4>1, BufferIndex
      <3>2. Samples(N)[i] = rendered[f].acc
        BY <3>1 DEF Samples
      <3>3. PhaseAt(f)' = rendered[f].acc
        BY <1>5, <3>1 DEF PhaseAt
      <3>4. QED
        BY <2>3, <3>1, <3>2, <3>3
    <2>5. QED
      BY <2>2, <2>4
  <1>12. DumpedInv'
    <2>1. Len(rendered') \in Nat /\ Len(rendered) <= Len(rendered')
      BY <1>1, <1>5
    <2>2. ASSUME NEW i \in 1 .. Len(dumps.state)
          PROVE  (i - 1) * BlockFrames <= Len(rendered') /\ ChipOf(dumps.state[i], (i - 1) * BlockFrames)'
      <3>1. PICK dump : dump = dumps.state[i] /\ dump = dumps'.state[i]
        BY <1>9
      <3>2. (i - 1) * BlockFrames <= Len(rendered') /\ ChipOf(dump, (i - 1) * BlockFrames)'
        BY <1>2, <1>3, <1>7, <2>1, <3>1, DumpsStand
      <3>3. QED
        BY <3>1, <3>2 DEF ChipOf
    <2>3. ASSUME NEW n \in 1 .. B + 1
          PROVE  /\ ChipOf(dumps.buffer[n], n * BufferFrames)'
                 /\ \A i \in 1 .. BufferFrames :
                      dumps'.buffer[n].ssi[dumps'.buffer[n].output][i] = PhaseAt((n - 1) * BufferFrames + i)'
      <3>1. PICK dump : dump = dumps'.buffer[n]
        OBVIOUS
      <3>2. /\ ChipOf(dump, n * BufferFrames)'
            /\ \A i \in 1 .. BufferFrames : dump.ssi[dump.output][i] = PhaseAt((n - 1) * BufferFrames + i)'
        <4>1. CASE n = B + 1
          <5>1. dump = d /\ n = N
            BY <1>1, <1>10, <3>1, <4>1
          <5>2. QED
            BY <1>4, <1>11, <5>1 DEF ChipOf, BufferFrames
        <4>2. CASE n # B + 1
          <5>1. n \in 1 .. B
            BY <4>2
          <5>2. dump = dumps.buffer[n] /\ n \in 1 .. Len(dumps.buffer)
            BY <1>1, <1>10, <3>1, <5>1
          <5>3. QED
            BY <1>2, <1>3, <1>7, <2>1, <5>2, DumpsStand
        <4>3. QED
          BY <4>1, <4>2
      <3>3. QED
        BY <3>1, <3>2 DEF ChipOf, BufferFrames
    <2>4. QED
      BY <1>9, <1>10, <2>2, <2>3 DEF DumpedInv, BufferFrames
  <1>13. QED
    BY <1>2, <1>6, <1>12 DEF PhaseInv, SegmentsAgree
-----------------------------------------------------------------------------
(* The frames the tool lands the events in.                                *)

LEMMA LandingIs ==
  ASSUME NEW s \in Nat
  PROVE  /\ LandingFrame(s) \in 1 .. CaptureFrames + 1
         /\ \A f \in 1 .. CaptureFrames : LandingFrame(s) <= f <=> s <= Natives(f)
  <1> DEFINE Later == {f \in 1 .. CaptureFrames : Schedule[f] >= s} \cup {CaptureFrames + 1}
  <1>1. PICK C \in Nat : C = CaptureFrames
    BY CaptureConstants
  <1>2. Later \in SUBSET (1 .. C + 1) /\ C + 1 \in Later
    BY <1>1
  <1>3. \A f \in 1 .. C : Schedule[f] = Natives(f) /\ Natives(f) \in Nat
    <2>1. \A f \in 1 .. C : f \in 0 .. CaptureFrames /\ f \in Nat
      BY <1>1
    <2>2. QED
      BY <2>1, ScheduleIs, NativesType
  <1>4. \A f \in 1 .. C : f \in Later <=> s <= Natives(f)
    <2>1. ASSUME NEW f \in 1 .. C PROVE f # C + 1 /\ (Natives(f) >= s <=> s <= Natives(f))
      BY <1>3
    <2>2. QED
      BY <1>1, <1>3, <2>1
  <1>5. LandingFrame(s) = Min(Later)
    BY DEF LandingFrame
  <1> HIDE DEF Later
  <1>6. PICK x \in Later : \A y \in Later : x <= y
    <2>1. Later \in SUBSET Nat /\ Later # {}
      BY <1>2
    <2>2. QED
      BY <2>1, Least
  <1>7. Min(Later) \in Later /\ \A y \in Later : Min(Later) <= y
    BY <1>6 DEF Min
  <1>8. PICK z \in 1 .. C + 1 : z = LandingFrame(s) /\ z \in Later /\ \A y \in Later : z <= y
    BY <1>2, <1>5, <1>7
  <1>9. ASSUME NEW f \in 1 .. C PROVE z <= f <=> s <= Natives(f)
    <2>1. CASE z <= f
      <3>1. z \in 1 .. C /\ z \in Nat /\ f \in Nat
        BY <2>1
      <3>2. s <= Natives(z) /\ Natives(z) <= Natives(f) /\ Natives(z) \in Nat /\ Natives(f) \in Nat
        BY <1>3, <1>4, <1>8, <2>1, <3>1, NativesMonotone
      <3>3. QED
        BY <2>1, <3>2
    <2>2. CASE ~(z <= f)
      <3>1. f \notin Later
        BY <1>8, <2>2
      <3>2. QED
        BY <1>4, <2>2, <3>1
    <2>3. QED
      BY <2>1, <2>2
  <1>10. QED
    BY <1>1, <1>8, <1>9

\* A run whose dumps are all there
Complete ==
  /\ tool # "none" /\ dumps.state # <<>>
  /\ Len(dumps.buffer) * BufferFrames = CaptureFrames

\* The events applied for a frame are those the tool lands there or before.
LEMMA LandedAt ==
  ASSUME CaptureInv, ChipInv, Complete, NEW f \in 0 .. CaptureFrames
  PROVE  /\ AppliedAt(f) \in 0 .. Len(trace) /\ PhaseAt(f) \in 0 .. PhaseMod - 1
         /\ \A i \in 1 .. Len(trace) : LandingFrame(trace[i].sample) <= f <=> i <= AppliedAt(f)
  <1>1. PICK C \in Nat, R \in Nat, T \in Nat :
          /\ C = CaptureFrames /\ R = Len(rendered) /\ T = Len(trace) /\ C <= R /\ T = Len(accepted)
    <2>1. Len(accepted) = Len(trace)
      BY DEF Complete, CaptureInv, ScenarioInv
    <2>2. CaptureFrames <= Len(rendered)
      BY DEF Complete, CaptureInv, DumpInv
    <2>3. QED
      BY <2>1, <2>2, ToolLengths, CaptureConstants
  <1>2. f \in 0 .. R
    BY <1>1
  <1>3. AppliedAt(f) \in Nat /\ PhaseAt(f) \in 0 .. PhaseMod - 1 /\ OnTime
    BY <1>1, <1>2, ChipFacts DEF Complete
  <1>4. \A i \in 1 .. T : trace[i].sample \in Nat
    BY <1>1, ToolLengths
  <1>5. CASE f = 0
    <2>1. AppliedAt(f) = 0
      BY <1>5 DEF AppliedAt
    <2>2. ASSUME NEW i \in 1 .. T PROVE ~(LandingFrame(trace[i].sample) <= f) /\ ~(i <= 0)
      <3>1. LandingFrame(trace[i].sample) \in 1 .. CaptureFrames + 1
        BY <1>4, LandingIs
      <3>2. QED
        BY <1>1, <1>5, <3>1
    <2>3. QED
      BY <1>1, <1>3, <2>1, <2>2
  <1>6. CASE f # 0
    <2>1. f \in 1 .. C /\ f \in 1 .. R /\ AppliedAt(f) = rendered[f].applied
      BY <1>1, <1>2, <1>6 DEF AppliedAt
    <2>2. AppliedAt(f) <= T
      BY <1>1, <1>3, <2>1 DEF OnTime, FrameInv
    <2>3. ASSUME NEW i \in 1 .. T PROVE LandingFrame(trace[i].sample) <= f <=> i <= AppliedAt(f)
      <3>1. accepted[i].due = trace[i].sample /\ accepted[i].after = 0
        BY <1>1 DEF Complete, CaptureInv, ScenarioInv
      <3>2. accepted[i].after < f /\ accepted[i].due <= Natives(f) <=> i <= rendered[f].applied
        BY <1>1, <1>3, <2>1 DEF OnTime, FrameInv
      <3>3. 0 < f
        BY <2>1
      <3>4. trace[i].sample <= Natives(f) <=> i <= AppliedAt(f)
        BY <2>1, <3>1, <3>2, <3>3
      <3>5. LandingFrame(trace[i].sample) <= f <=> trace[i].sample <= Natives(f)
        BY <1>1, <1>4, <2>1, LandingIs
      <3>6. QED
        BY <3>4, <3>5
    <2>4. QED
      BY <1>1, <1>3, <2>2, <2>3
  <1>7. QED
    BY <1>5, <1>6

\* The pitch mirror has the increment of the events applied.
LEMMA IncrementIs ==
  ASSUME CaptureInv, ChipInv, Complete, NEW f \in 0 .. CaptureFrames
  PROVE  Increment(f) = IncrementOf(AppliedAt(f)) /\ Increment(f) \in Nat
  <1>1. PICK n \in Nat, T \in Nat :
          /\ n = AppliedAt(f) /\ T = Len(trace) /\ n <= T /\ DOMAIN trace = 1 .. T
          /\ \A i \in 1 .. T : LandingFrame(trace[i].sample) <= f <=> i <= n
    <2>1. Len(trace) \in Nat /\ DOMAIN trace = 1 .. Len(trace)
      BY ToolLengths, LenProperties
    <2>2. AppliedAt(f) \in 0 .. Len(trace)
      BY LandedAt
    <2>3. AppliedAt(f) \in Nat /\ AppliedAt(f) <= Len(trace)
      BY <2>1, <2>2
    <2>4. QED
      BY <2>1, <2>3, LandedAt
  <1>2. (\E i \in DOMAIN trace : trace[i].write = "pitch" /\ LandingFrame(trace[i].sample) <= f)
          <=> \E i \in 1 .. n : trace[i].write = "pitch"
    <2>1. \A i \in 1 .. T : i <= n <=> i \in 1 .. n
      BY <1>1
    <2>2. \A i \in 1 .. n : i \in 1 .. T
      BY <1>1
    <2>3. QED
      BY <1>1, <2>1, <2>2
  <1>3. QED
    BY <1>1, <1>2 DEF Increment, IncrementOf, Silent

\* An edge between two frames is one that the tool lands in the second.
EdgeAt(f) == \E i \in Edges : LandingFrame(trace[i].sample) = f

LEMMA EdgeLands ==
  ASSUME CaptureInv, ChipInv, Complete, NEW f \in 1 .. CaptureFrames
  PROVE  /\ EdgeIn(AppliedAt(f - 1), AppliedAt(f)) <=> EdgeAt(f)
         /\ PhaseAt(f) = ((IF EdgeAt(f) THEN 0 ELSE PhaseAt(f - 1)) + Increment(f)) % PhaseMod
  <1>1. PICK g \in Nat : g = f - 1 /\ g \in 0 .. CaptureFrames /\ f \in 0 .. CaptureFrames
    BY CaptureConstants
  <1>2. PICK m \in Nat, n \in Nat, T \in Nat :
          /\ m = AppliedAt(g) /\ n = AppliedAt(f) /\ n <= T /\ T = Len(trace) /\ DOMAIN trace = 1 .. T
          /\ \A i \in 1 .. T : LandingFrame(trace[i].sample) <= g <=> i <= m
          /\ \A i \in 1 .. T : LandingFrame(trace[i].sample) <= f <=> i <= n
    <2>1. Len(trace) \in Nat /\ DOMAIN trace = 1 .. Len(trace)
      BY ToolLengths, LenProperties
    <2>2. AppliedAt(f) \in 0 .. Len(trace) /\ AppliedAt(g) \in 0 .. Len(trace)
      BY <1>1, LandedAt
    <2>3. AppliedAt(f) \in Nat /\ AppliedAt(f) <= Len(trace) /\ AppliedAt(g) \in Nat
      BY <2>1, <2>2
    <2>4. QED
      BY <1>1, <2>1, <2>3, LandedAt
  <1>3. ASSUME NEW i \in 1 .. T
        PROVE  LandingFrame(trace[i].sample) = f <=> i \in m + 1 .. n
    <2>1. PICK z \in Int : z = LandingFrame(trace[i].sample)
      <3>1. trace[i].sample \in Nat
        BY <1>2, ToolLengths
      <3>2. QED
        BY <3>1, LandingIs, CaptureConstants
    <2>2. (z <= g <=> i <= m) /\ (z <= f <=> i <= n)
      BY <1>2, <2>1
    <2>3. z = f <=> z <= f /\ ~(z <= g)
      BY <1>1
    <2>4. i \in m + 1 .. n <=> i <= n /\ ~(i <= m)
      OBVIOUS
    <2>5. QED
      BY <2>1, <2>2, <2>3, <2>4
  <1>4. EdgeIn(m, n) <=> EdgeAt(f)
    <2>1. Edges \subseteq 1 .. T
      BY <1>2 DEF Edges
    <2>2. \A i \in m + 1 .. n : i \in 1 .. T
      BY <1>2
    <2>3. QED
      BY <1>3, <2>1, <2>2 DEF EdgeIn, EdgeAt
  <1>5. FrameFollows(f)
    <2>1. f \in 1 .. Len(rendered)
      <3>1. CaptureFrames <= Len(rendered) /\ CaptureFrames \in Nat /\ Len(rendered) \in Nat
        BY ToolLengths, CaptureConstants DEF Complete, CaptureInv, DumpInv
      <3>2. QED
        BY <3>1
    <2>2. QED
      BY <2>1 DEF ChipInv, Complete
  <1>6. Increment(f) = IncrementOf(n)
    BY <1>1, <1>2, IncrementIs
  <1>7. QED
    BY <1>1, <1>2, <1>4, <1>5, <1>6 DEF FrameFollows
-----------------------------------------------------------------------------
(* The blocks of the tool's tables.                                        *)

\* FrameByFrame with its premises under a name
Alike(N, a, b) ==
  N \in Nat /\ a[0] = b[0] /\ \A f \in 1 .. N : a[f - 1] = b[f - 1] => a[f] = b[f]

LEMMA AlikeThroughout ==
  ASSUME NEW N, NEW a, NEW b, Alike(N, a, b)
  PROVE  \A f \in 0 .. N : a[f] = b[f]
  <1>1. N \in Nat /\ a[0] = b[0] /\ \A f \in 1 .. N : a[f - 1] = b[f - 1] => a[f] = b[f]
    BY DEF Alike
  <1>2. QED
    BY ONLY <1>1, FrameByFrame

\* A function defined step by step has a value.
Stepped(N, S, step) == N \in Nat /\ step \in [1 .. N -> [S -> S]]
Follows(f, N, S, b, step) ==
  /\ f \in [0 .. N -> S]
  /\ f[0] = b /\ \A i \in 1 .. N : f[i] = step[i][f[i - 1]]

LEMMA Stepwise ==
  ASSUME NEW N, NEW S, NEW b \in S, NEW step, Stepped(N, S, step)
  PROVE  \E f : Follows(f, N, S, b, step)
  <1>0. N \in Nat /\ step \in [1 .. N -> [S -> S]]
    BY DEF Stepped
  <1> DEFINE Solves(n, f) == f[0] = b /\ \A i \in 1 .. n : f[i] = step[i][f[i - 1]]
             Bad == {n \in 0 .. N : ~\E f \in [0 .. n -> S] : Solves(n, f)}
  <1>1. SUFFICES Bad = {}
    <2>1. N \in 0 .. N
      BY <1>0
    <2>2. PICK f \in [0 .. N -> S] : Solves(N, f)
      BY <1>1, <2>1
    <2>3. QED
      BY <2>2 DEF Follows
  <1>2. SUFFICES ASSUME Bad # {} PROVE FALSE
    OBVIOUS
  <1>3. Bad \in SUBSET Nat
    OBVIOUS
  <1>4. PICK n \in Bad : \A m \in Bad : n <= m
    BY <1>2, <1>3, Least
  <1>5. n \in 0 .. N
    OBVIOUS
  <1>6. CASE n = 0
    <2>1. [i \in 0 .. 0 |-> b] \in [0 .. 0 -> S] /\ Solves(0, [i \in 0 .. 0 |-> b])
      OBVIOUS
    <2>2. QED
      BY <1>6, <2>1
  <1>7. CASE n # 0
    <2>1. n - 1 \in 0 .. N /\ ~(n <= n - 1)
      BY <1>0, <1>5, <1>7
    <2>2. n - 1 \notin Bad
      BY <1>4, <2>1
    <2>3. PICK f \in [0 .. n - 1 -> S] : Solves(n - 1, f)
      BY <2>1, <2>2
    <2>4. n \in 1 .. N /\ f[n - 1] \in S /\ step[n] \in [S -> S]
      BY <1>0, <1>5, <1>7
    <2> DEFINE g == [i \in 0 .. n |-> IF i = n THEN step[n][f[n - 1]] ELSE f[i]]
    <2>5. step[n][f[n - 1]] \in S
      BY <2>4
    <2>6. g \in [0 .. n -> S]
      BY <1>5, <2>5
    <2>7. g[0] = b
      BY <1>5, <1>7, <2>3
    <2>8. ASSUME NEW i \in 1 .. n PROVE g[i] = step[i][g[i - 1]]
      <3>1. g[i - 1] = f[i - 1]
        BY <1>5
      <3>2. CASE i = n
        BY <1>5, <3>1, <3>2
      <3>3. CASE i # n
        <4>1. i \in 1 .. n - 1 /\ i \in 0 .. n
          BY <1>5, <3>3
        <4>2. f[i] = step[i][f[i - 1]]
          BY <2>3, <4>1
        <4>3. g[i] = f[i]
          BY <3>3, <4>1
        <4>4. QED
          BY <3>1, <4>2, <4>3
      <3>4. QED
        BY <3>2, <3>3
    <2>9. \E h \in [0 .. n -> S] : Solves(n, h)
      BY <2>6, <2>7, <2>8
    <2>10. QED
      BY <2>9
  <1>8. QED
    BY <1>6, <1>7

LEMMA Greatest ==
  ASSUME NEW top \in Nat, NEW T \in SUBSET (0 .. top), T # {}
  PROVE  Max(T) \in T /\ \A y \in T : y <= Max(T)
  <1> DEFINE Below == {top - x : x \in T}
  <1>1. Below \in SUBSET Nat /\ Below # {}
    OBVIOUS
  <1>2. PICK d \in Below : \A e \in Below : d <= e
    BY <1>1, Least
  <1>3. PICK x \in T : d = top - x
    OBVIOUS
  <1>4. ASSUME NEW y \in T PROVE x >= y
    <2>1. d <= top - y
      BY <1>2
    <2>2. x \in 0 .. top /\ y \in 0 .. top
      OBVIOUS
    <2>3. QED
      BY <1>3, <2>1, <2>2
  <1>5. \E z \in T : \A y \in T : z >= y
    BY <1>4
  <1>6. PICK z \in T : z = Max(T) /\ \A y \in T : z >= y
    BY <1>5 DEF Max
  <1>7. ASSUME NEW y \in T PROVE y <= z
    <2>1. z >= y /\ z \in 0 .. top /\ y \in 0 .. top
      BY <1>6
    <2>2. QED
      BY <2>1
  <1>8. QED
    BY <1>6, <1>7

\* A block has its frames, and every frame is in one block.
LEMMA FramesOfBlock ==
  /\ \A b \in 0 .. Blocks - 1 :
       /\ b * BlockFrames \in Nat /\ (b + 1) * BlockFrames = b * BlockFrames + BlockFrames
       /\ (b + 1) * BlockFrames \in 0 .. CaptureFrames /\ b * BlockFrames \in 0 .. CaptureFrames
       /\ FramesOf(b) \subseteq 1 .. CaptureFrames
  /\ \A f \in 1 .. CaptureFrames : BlockOf(f) \in 0 .. Blocks - 1 /\ f \in FramesOf(BlockOf(f))
  <1>1. PICK k \in Nat \ {0}, n \in Nat \ {0} : k = BlockFrames /\ n = Blocks /\ CaptureFrames = n * k
    BY CaptureConstants
  <1>2. ASSUME NEW b \in 0 .. n - 1
        PROVE  /\ b * k \in Nat /\ (b + 1) * k = b * k + k
               /\ (b + 1) * k <= n * k /\ (b + 1) * k \in Nat /\ n * k \in Nat
    <2>1. b + 1 \in Nat /\ b + 1 <= n
      OBVIOUS
    <2>2. (b + 1) * k <= n * k
      BY <2>1, Cancel
    <2>3. QED
      BY <2>2
  <1>3. ASSUME NEW b \in 0 .. n - 1
        PROVE  /\ (b + 1) * k \in 0 .. n * k /\ b * k \in 0 .. n * k
               /\ b * k + 1 .. (b + 1) * k \subseteq 1 .. n * k
    <2>1. PICK x \in Nat, y \in Nat, c \in Nat :
            x = b * k /\ y = (b + 1) * k /\ c = n * k /\ y = x + k /\ y <= c
      BY <1>2
    <2>2. QED
      BY <2>1
  <1>4. ASSUME NEW f \in 1 .. n * k
        PROVE  /\ (f - 1) \div k \in 0 .. n - 1
               /\ f \in ((f - 1) \div k) * k + 1 .. ((f - 1) \div k + 1) * k
    <2>1. PICK c \in Nat : c = n * k
      OBVIOUS
    <2>2. f \in 1 .. c /\ f - 1 \in Int
      BY <2>1
    <2>3. PICK q \in Int, r \in 0 .. k - 1 : q = (f - 1) \div k /\ f - 1 = k * q + r
      BY <2>2, Division
    <2>4. k * q = q * k /\ (q + 1) * k = q * k + k /\ q * k \in Int
      OBVIOUS
    <2>5. PICK x \in Int : x = q * k /\ f - 1 = x + r /\ (q + 1) * k = x + k
      BY <2>3, <2>4
    <2>6. q >= 0
      <3>1. ~(q + 1 <= 0)
        <4>1. ~(x + k <= 0)
          BY <2>2, <2>5
        <4>2. (q + 1) * k <= 0 * k <=> q + 1 <= 0
          BY Cancel
        <4>3. QED
          BY <2>5, <4>1, <4>2
      <3>2. QED
        BY <3>1
    <2>7. q < n
      <3>1. ~(c <= x)
        BY <2>2, <2>5
      <3>2. n * k <= q * k <=> n <= q
        BY Cancel
      <3>3. QED
        BY <2>1, <2>5, <3>1, <3>2
    <2>8. f \in x + 1 .. x + k
      BY <2>2, <2>5
    <2>9. QED
      BY <2>3, <2>5, <2>6, <2>7, <2>8
  <1>5. QED
    BY <1>1, <1>2, <1>3, <1>4 DEF FramesOf, BlockOf

\* The table key_reset has a block's last edge.
LEMMA KeyResetIs ==
  ASSUME NEW b \in 0 .. Blocks - 1
  PROVE  /\ KeyReset(b) = 0 => \A f \in FramesOf(b) : ~EdgeAt(f)
         /\ KeyReset(b) # 0 =>
              /\ KeyReset(b) \in FramesOf(b) /\ EdgeAt(KeyReset(b))
              /\ \A f \in FramesOf(b) : EdgeAt(f) => f <= KeyReset(b)
         /\ \A f \in FramesOf(b) : f \in EdgeFrames(b) <=> EdgeAt(f)
         /\ EdgeFrames(b) \subseteq FramesOf(b)
  <1>1. /\ \A f \in FramesOf(b) : f \in EdgeFrames(b) <=> EdgeAt(f)
        /\ EdgeFrames(b) \subseteq FramesOf(b)
    BY DEF EdgeFrames, EdgeAt
  <1>2. CASE EdgeFrames(b) = {}
    BY <1>1, <1>2 DEF KeyReset
  <1>3. CASE EdgeFrames(b) # {}
    <2>1. PICK top \in Nat : EdgeFrames(b) \in SUBSET (0 .. top) /\ 0 \notin EdgeFrames(b) /\ top = CaptureFrames
      <3>1. FramesOf(b) \subseteq 1 .. CaptureFrames /\ CaptureFrames \in Nat
        BY FramesOfBlock, CaptureConstants
      <3>2. QED
        BY <1>1, <3>1
    <2>2. Max(EdgeFrames(b)) \in EdgeFrames(b) /\ \A f \in EdgeFrames(b) : f <= Max(EdgeFrames(b))
      BY <1>3, <2>1, Greatest
    <2>3. KeyReset(b) = Max(EdgeFrames(b))
      BY <1>3 DEF KeyReset
    <2>4. QED
      BY <1>1, <2>1, <2>2, <2>3
  <1>4. QED
    BY <1>2, <1>3

\* Along frames that go on from each other the phase gains their increments.
LEMMA GainIs ==
  ASSUME NEW first \in Nat \ {0}, NEW last \in Nat, first <= last, NEW base \in Int,
         \A f \in first .. last : Increment(f) \in Nat /\ PhaseAt(f) \in Int,
         PhaseAt(first) = (base + Increment(first)) % PhaseMod,
         \A f \in first + 1 .. last : PhaseAt(f) = (PhaseAt(f - 1) + Increment(f)) % PhaseMod
  PROVE  (PhaseAt(last) - base) % PhaseMod = Gain(first, last) % PhaseMod
  <1> DEFINE Steps(a) ==
               [h \in first - 1 .. last |-> IF h = first - 1 THEN 0 ELSE a[h - 1] + Increment(h)]
             sum == CHOOSE a : a = Steps(a)
  <1>1. PICK d \in Nat, N \in Nat : d = first - 1 /\ last = d + N /\ N >= 1
    OBVIOUS
  <1>2. \A j \in 1 .. N : d + j \in first .. last /\ Increment(d + j) \in Nat
    BY <1>1
  <1>3. PICK g \in [0 .. N -> Nat] : g[0] = 0 /\ \A j \in 1 .. N : g[j] = g[j - 1] + Increment(d + j)
    <2> DEFINE step == [j \in 1 .. N |-> [x \in Nat |-> x + Increment(d + j)]]
    <2>1. step \in [1 .. N -> [Nat -> Nat]]
      BY <1>2
    <2>2. PICK g \in [0 .. N -> Nat] : g[0] = 0 /\ \A j \in 1 .. N : g[j] = step[j][g[j - 1]]
      <3>1. Stepped(N, Nat, step) /\ 0 \in Nat
        BY <1>1, <2>1 DEF Stepped
      <3>2. PICK g : Follows(g, N, Nat, 0, step)
        <4> HIDE DEF step
        <4>1. QED
          BY ONLY <3>1, Stepwise
      <3>3. QED
        BY <3>2 DEF Follows
    <2>3. ASSUME NEW j \in 1 .. N PROVE g[j] = g[j - 1] + Increment(d + j)
      <3>1. g[j - 1] \in Nat
        OBVIOUS
      <3>2. QED
        BY <2>2, <3>1
    <2>4. QED
      BY <2>2, <2>3
  <1> DEFINE Closed == [h \in d .. last |-> g[h - d]]
  <1>4. Closed = Steps(Closed)
    <2>1. ASSUME NEW h \in d .. last PROVE Closed[h] = Steps(Closed)[h]
      <3>1. CASE h = d
        BY <1>1, <1>3, <3>1
      <3>2. CASE h # d
        <4>1. PICK j \in 1 .. N : j = h - d /\ h = d + j /\ h - 1 \in d .. last /\ (h - 1) - d = j - 1
          BY <1>1, <3>2
        <4>2. Closed[h] = g[j] /\ Closed[h - 1] = g[j - 1]
          BY <4>1
        <4>3. Steps(Closed)[h] = Closed[h - 1] + Increment(h)
          BY <1>1, <3>2
        <4>4. QED
          BY <1>3, <4>1, <4>2, <4>3
      <3>3. QED
        BY <3>1, <3>2
    <2>2. QED
      BY <1>1, <2>1
  <1>5. sum = Steps(sum)
    BY <1>4
  <1>6. Gain(first, last) = sum[last]
    BY DEF Gain
  <1>7. \A j \in 0 .. N : sum[d + j] = g[j]
    <2> HIDE DEF sum, Closed
    <2> DEFINE a == [j \in 0 .. N |-> sum[d + j]]
    <2>1. \A h \in d .. last : sum[h] = IF h = d THEN 0 ELSE sum[h - 1] + Increment(h)
      BY <1>1, <1>5
    <2>2. a[0] = g[0]
      <3>1. d + 0 \in d .. last /\ d + 0 = d
        BY <1>1
      <3>2. QED
        BY <1>3, <2>1, <3>1
    <2>3. ASSUME NEW j \in 1 .. N, a[j - 1] = g[j - 1] PROVE a[j] = g[j]
      <3>1. d + j \in d .. last /\ d + j # d /\ (d + j) - 1 = d + (j - 1) /\ j - 1 \in 0 .. N
        BY <1>1
      <3>2. a[j] = sum[d + (j - 1)] + Increment(d + j)
        BY <2>1, <3>1
      <3>3. QED
        BY <1>3, <2>3, <3>1, <3>2
    <2>4. \A j \in 0 .. N : a[j] = g[j]
      <3> DEFINE h == [j \in 0 .. N |-> g[j]]
      <3>1. h[0] = g[0] /\ \A j \in 1 .. N : h[j] = g[j] /\ h[j - 1] = g[j - 1]
        BY <1>1
      <3>2. \A j \in 0 .. N : h[j] = g[j]
        OBVIOUS
      <3> HIDE DEF a, h
      <3>3. a[0] = h[0]
        BY <2>2, <3>1
      <3>4. Alike(N, a, h)
        BY <1>1, <2>3, <3>1, <3>3 DEF Alike
      <3>5. \A j \in 0 .. N : a[j] = h[j]
        BY ONLY <3>4, AlikeThroughout
      <3>6. QED
        BY <3>2, <3>5
    <2>5. QED
      BY <2>4
  <1> HIDE DEF Steps, sum, Closed
  <1> DEFINE v == [j \in 0 .. N |-> IF j = 0 THEN 0 % PhaseMod ELSE (PhaseAt(d + j) - base) % PhaseMod]
             w == [j \in 0 .. N |-> g[j] % PhaseMod]
  <1>8. \A j \in 0 .. N : v[j] = w[j]
    <2>1. v[0] = w[0]
      BY <1>3
    <2>2. ASSUME NEW j \in 1 .. N, v[j - 1] = w[j - 1] PROVE v[j] = w[j]
      <3>1. PICK i \in Nat, p \in Int, x \in Nat :
              i = Increment(d + j) /\ p = PhaseAt(d + j) /\ x = g[j - 1] /\ g[j] = x + i
        <4>1. d + j \in first .. last /\ g[j - 1] \in Nat
          BY <1>1, <1>2, <1>3
        <4>2. QED
          BY <1>3, <4>1
      <3>2. v[j] = (p - base) % PhaseMod /\ w[j] = (x + i) % PhaseMod /\ w[j - 1] = x % PhaseMod
        BY <3>1
      <3>3. CASE j = 1
        <4>1. p = (base + i) % PhaseMod /\ x = 0
          BY <1>1, <1>3, <3>1, <3>3
        <4>2. (((base + i) % PhaseMod) - base) % PhaseMod = ((base + i) - base) % PhaseMod
          BY PhaseWraps
        <4>3. (base + i) - base = x + i
          BY <4>1
        <4>4. QED
          BY <3>2, <4>1, <4>2, <4>3
      <3>4. CASE j # 1
        <4>1. PICK k \in 1 .. N : k = j - 1 /\ d + k = (d + j) - 1
          BY <3>4
        <4>2. PICK q \in Int : q = PhaseAt(d + k)
          BY <1>2
        <4>3. p = (q + i) % PhaseMod
          <5>1. d + j \in first + 1 .. last
            BY <1>1, <3>4
          <5>2. QED
            BY <3>1, <4>1, <4>2, <5>1
        <4>4. (q - base) % PhaseMod = x % PhaseMod
          <5>1. v[k] = (q - base) % PhaseMod
            BY <4>1, <4>2
          <5>2. QED
            BY <2>2, <3>2, <4>1, <5>1
        <4>5. (((q + i) % PhaseMod) - base) % PhaseMod = ((q + i) - base) % PhaseMod
          BY PhaseWraps
        <4>6. (q + i) - base = (q - base) + i
          OBVIOUS
        <4>7. (((q - base) % PhaseMod) + i) % PhaseMod = ((q - base) + i) % PhaseMod
          <5>1. PICK u \in Int : u = q - base
            OBVIOUS
          <5>2. ((u % PhaseMod) + i) % PhaseMod = (u + i) % PhaseMod
            BY PhaseWraps
          <5>3. QED
            BY <5>1, <5>2
        <4>8. ((x % PhaseMod) + i) % PhaseMod = (x + i) % PhaseMod
          BY PhaseWraps
        <4>9. QED
          BY <3>2, <4>3, <4>4, <4>5, <4>6, <4>7, <4>8
      <3>5. QED
        BY <3>3, <3>4
    <2> HIDE DEF v, w
    <2>3. Alike(N, v, w)
      BY <1>1, <2>1, <2>2 DEF Alike
    <2>4. QED
      BY ONLY <2>3, AlikeThroughout
  <1>9. v[N] = (PhaseAt(last) - base) % PhaseMod /\ w[N] = g[N] % PhaseMod /\ sum[last] = g[N]
    BY <1>1, <1>7
  <1> HIDE DEF v, w
  <1>10. N \in 0 .. N
    OBVIOUS
  <1>11. QED
    BY <1>6, <1>8, <1>9, <1>10

\* The state at a block's boundary is the chip after the frame before it.
LEMMA BoundariesAre ==
  ASSUME CaptureInv, DumpedInv, Len(dumps.state) = Blocks,
         Len(dumps.buffer) * BufferFrames = CaptureFrames, NEW b \in 0 .. Blocks
  PROVE  /\ Boundaries[b + 1].acc = PhaseAt(b * BlockFrames)
         /\ Boundaries[b + 1].inc = IncrementOf(AppliedAt(b * BlockFrames))
  <1>1. PICK B \in Nat, N \in Nat : B = Blocks /\ N = Len(dumps.buffer) /\ N # 0
    <2>1. Len(dumps.buffer) # 0
      BY CaptureConstants
    <2>2. QED
      BY <2>1, ToolLengths, CaptureConstants
  <1>2. /\ \A i \in 1 .. B : Boundaries[i] = dumps.state[i]
        /\ Boundaries[B + 1] = dumps.buffer[N]
    <2>1. PICK s, e, t : s = dumps.state /\ e = Last(dumps.buffer) /\ t = Boundaries /\ t = Append(s, e)
                         /\ s \in Seq({s[i] : i \in 1 .. Len(s)})
      BY ToolLengths DEF Boundaries
    <2>2. t[Len(s) + 1] = e /\ \A i \in 1 .. Len(s) : t[i] = s[i]
      BY <2>1, Longer
    <2>3. QED
      BY <1>1, <2>1, <2>2 DEF Last
  <1>3. CASE b = B
    <2>1. N \in 1 .. Len(dumps.buffer) /\ N * BufferFrames = b * BlockFrames
      BY <1>1, <1>3, CaptureConstants
    <2>2. PICK x : x = b * BlockFrames /\ ChipOf(dumps.buffer[N], x)
      BY <2>1 DEF DumpedInv
    <2>3. QED
      BY <1>1, <1>2, <1>3, <2>2 DEF ChipOf
  <1>4. CASE b # B
    <2>1. b + 1 \in 1 .. B /\ (b + 1) - 1 = b
      BY <1>1, <1>4
    <2>2. PICK x : x = b * BlockFrames /\ ChipOf(dumps.state[b + 1], x)
      BY <1>1, <2>1 DEF DumpedInv
    <2>3. QED
      BY <1>2, <2>1, <2>2 DEF ChipOf
  <1>5. QED
    BY <1>3, <1>4

\* From one boundary to the next the tool's mirror gains what the chip does.
LEMMA SegmentsFollow ==
  ASSUME CaptureInv, PhaseInv, tool # "none", Len(dumps.state) = Blocks,
         Len(dumps.buffer) * BufferFrames = CaptureFrames, NEW b \in 0 .. Blocks - 1
  PROVE  IncrementOk(b) /\ AdvanceOk(b)
  <1>1. ChipInv /\ DumpedInv /\ Complete
    <2>1. Len(<<>>) = 0 /\ Blocks # 0
      BY CaptureConstants
    <2>2. QED
      BY <2>1 DEF PhaseInv, Complete
  <1>2. PICK c \in Nat, x \in Nat, y \in Nat, C \in Nat :
          /\ c = b + 1 /\ x = b * BlockFrames /\ y = c * BlockFrames /\ C = CaptureFrames
          /\ y \in 0 .. C /\ x \in 0 .. C /\ x < y /\ FramesOf(b) = x + 1 .. y
          /\ \A f \in x + 1 .. y : f \in 1 .. C
          /\ b \in 0 .. Blocks /\ c \in 0 .. Blocks
    <2>1. /\ b * BlockFrames \in Nat /\ (b + 1) * BlockFrames = b * BlockFrames + BlockFrames
          /\ (b + 1) * BlockFrames \in 0 .. CaptureFrames /\ b * BlockFrames \in 0 .. CaptureFrames
          /\ FramesOf(b) \subseteq 1 .. CaptureFrames
      BY FramesOfBlock
    <2>2. BlockFrames \in Nat \ {0} /\ CaptureFrames \in Nat /\ Blocks \in Nat
      BY CaptureConstants
    <2>3. PICK x \in Nat, y \in Nat : x = b * BlockFrames /\ y = (b + 1) * BlockFrames
      BY <2>1, <2>2
    <2>4. x < y /\ b + 1 \in Nat /\ b \in 0 .. Blocks /\ b + 1 \in 0 .. Blocks
      BY <2>1, <2>2, <2>3
    <2>5. FramesOf(b) = x + 1 .. y
      BY <2>3 DEF FramesOf
    <2>6. QED
      BY <2>1, <2>2, <2>3, <2>4, <2>5
  <1>3. /\ Boundaries[b + 1].acc = PhaseAt(x)
        /\ Boundaries[b + 2].acc = PhaseAt(y) /\ Boundaries[b + 2].inc = IncrementOf(AppliedAt(y))
    <2>1. c + 1 = b + 2
      BY <1>2
    <2>2. Boundaries[b + 1].acc = PhaseAt(b * BlockFrames)
      BY <1>1, <1>2, BoundariesAre
    <2>3. /\ Boundaries[c + 1].acc = PhaseAt(c * BlockFrames)
          /\ Boundaries[c + 1].inc = IncrementOf(AppliedAt(c * BlockFrames))
      BY <1>1, <1>2, BoundariesAre
    <2>4. QED
      BY <1>2, <2>1, <2>2, <2>3
  <1>4. IncrementOk(b)
    <2>1. Increment(y) = IncrementOf(AppliedAt(y))
      BY <1>1, <1>2, IncrementIs
    <2>2. QED
      BY <1>2, <1>3, <2>1 DEF IncrementOk
  <1>5. \A f \in 0 .. C : PhaseAt(f) \in Int /\ Increment(f) \in Nat
    <2>1. ASSUME NEW f \in 0 .. CaptureFrames PROVE PhaseAt(f) \in Int /\ Increment(f) \in Nat
      <3>1. PhaseAt(f) \in 0 .. PhaseMod - 1 /\ Increment(f) \in Nat
        BY <1>1, LandedAt, IncrementIs
      <3>2. QED
        BY <3>1
    <2>2. QED
      BY <1>2, <2>1
  <1>6. \A f \in 1 .. C :
          PhaseAt(f) = ((IF EdgeAt(f) THEN 0 ELSE PhaseAt(f - 1)) + Increment(f)) % PhaseMod
    BY <1>1, <1>2, EdgeLands
  <1>7. /\ KeyReset(b) = 0 => \A f \in x + 1 .. y : ~EdgeAt(f)
        /\ KeyReset(b) # 0 =>
             /\ KeyReset(b) \in x + 1 .. y /\ EdgeAt(KeyReset(b))
             /\ \A f \in x + 1 .. y : EdgeAt(f) => f <= KeyReset(b)
    BY <1>2, KeyResetIs
  <1>8. AdvanceOk(b)
    <2>1. PICK first \in Nat \ {0}, base \in Int :
            /\ first \in x + 1 .. y
            /\ first = IF KeyReset(b) = 0 THEN x + 1 ELSE KeyReset(b)
            /\ base = IF KeyReset(b) = 0 THEN PhaseAt(x) ELSE 0
            /\ PhaseAt(first) = (base + Increment(first)) % PhaseMod
            /\ \A f \in first + 1 .. y : ~EdgeAt(f)
      <3>1. CASE KeyReset(b) = 0
        <4>1. x + 1 \in x + 1 .. y /\ (x + 1) - 1 = x /\ x + 1 \in Nat \ {0} /\ x + 1 \in 1 .. C
          BY <1>2
        <4>2. ~EdgeAt(x + 1) /\ PhaseAt(x) \in Int
          BY <1>2, <1>5, <1>7, <3>1, <4>1
        <4>3. PhaseAt(x + 1) = (PhaseAt(x) + Increment(x + 1)) % PhaseMod
          BY <1>6, <4>1, <4>2
        <4>4. \A f \in (x + 1) + 1 .. y : f \in x + 1 .. y
          BY <1>2
        <4>5. QED
          BY <1>7, <3>1, <4>1, <4>2, <4>3, <4>4
      <3>2. CASE KeyReset(b) # 0
        <4>1. PICK r \in x + 1 .. y : r = KeyReset(b) /\ EdgeAt(r) /\ \A f \in x + 1 .. y : EdgeAt(f) => f <= r
          BY <1>7, <3>2
        <4>2. r \in Nat \ {0} /\ r \in 1 .. C
          BY <1>2, <4>1
        <4>3. PhaseAt(r) = (0 + Increment(r)) % PhaseMod
          BY <1>6, <4>1, <4>2
        <4>4. \A f \in r + 1 .. y : f \in x + 1 .. y /\ ~(f <= r)
          BY <1>2, <4>1
        <4>5. QED
          BY <3>2, <4>1, <4>2, <4>3, <4>4
      <3>3. QED
        BY <3>1, <3>2
    <2>2. \A f \in first + 1 .. y : PhaseAt(f) = (PhaseAt(f - 1) + Increment(f)) % PhaseMod
      <3>1. \A f \in first + 1 .. y : f \in 1 .. C
        BY <1>2, <2>1
      <3>2. QED
        BY <1>6, <2>1, <3>1
    <2>3. \A f \in first .. y : Increment(f) \in Nat /\ PhaseAt(f) \in Int
      <3>1. \A f \in first .. y : f \in 0 .. C
        BY <1>2, <2>1
      <3>2. QED
        BY <1>5, <3>1
    <2>4. first <= y
      BY <2>1
    <2>5. (PhaseAt(y) - base) % PhaseMod = Gain(first, y) % PhaseMod
      BY <1>2, <2>1, <2>2, <2>3, <2>4, GainIs
    <2>6. first = IF KeyReset(b) = 0 THEN b * BlockFrames + 1 ELSE KeyReset(b)
      BY <1>2, <2>1
    <2>7. base = IF KeyReset(b) = 0 THEN Boundaries[b + 1].acc ELSE 0
      BY <1>3, <2>1
    <2>8. (Boundaries[b + 2].acc - base) % PhaseMod = Gain(first, (b + 1) * BlockFrames) % PhaseMod
      BY <1>2, <1>3, <2>5
    <2>9. QED
      BY <2>6, <2>7, <2>8 DEF AdvanceOk
  <1>9. QED
    BY <1>4, <1>8
-----------------------------------------------------------------------------
(* The invariant of the phases.                                            *)

LEMMA ReconstructPhase ==
  ASSUME CaptureInv, PhaseInv, Reconstruct
  PROVE  PhaseInv'
  <1>1. tool = "read" /\ UNCHANGED <<kernelVars, trace, dumps>>
    BY DEF Reconstruct
  <1>2. failure' # "segments"
    <2>1. ASSUME Len(dumps.state) = Blocks, Len(dumps.buffer) * BufferFrames = CaptureFrames
          PROVE  \A b \in 0 .. Blocks - 1 : IncrementOk(b) /\ AdvanceOk(b)
      BY <1>1, <2>1, SegmentsFollow
    <2>2. QED
      BY <2>1 DEF Reconstruct, Fail
  <1>3. QED
    BY <1>1, <1>2, PhaseKept

LEMMA ToolOnlyPhase ==
  ASSUME CaptureInv, PhaseInv, Compile \/ StartAudio \/ RunCut \/ RunSilent \/ UNCHANGED captureVars
  PROVE  PhaseInv'
  <1>1. UNCHANGED <<kernelVars, trace, dumps>> /\ (tool' # "none" => tool # "none")
    BY DEF Compile, StartAudio, RunCut, RunSilent, captureVars, toolVars
  <1>2. failure' # "segments"
    BY DEF Compile, Fail, StartAudio, RunCut, RunSilent, captureVars, toolVars, PhaseInv, SegmentsAgree
  <1>3. QED
    BY <1>1, <1>2, PhaseKept

LEMMA PhaseStep ==
  ASSUME CaptureInv, PhaseInv, [CaptureNext]_captureVars
  PROVE  PhaseInv'
  BY StreamOnlyPhase, ReadEventPhase, ToolOnlyPhase, QueueEventPhase, EnterBlockPhase,
     RenderOnPhase, FinishBufferPhase, ReconstructPhase DEF CaptureNext

LEMMA PhaseInitially ==
  ASSUME CaptureInit
  PROVE  PhaseInv
  <1>1. /\ accepted = <<>> /\ applied = <<>> /\ rendered = <<>> /\ chip = Silent
        /\ dumps = [state |-> <<>>, buffer |-> <<>>] /\ failure = "none" /\ Len(<<>>) = 0
    BY DEF CaptureInit, KernelInit, KernelReset
  <1>2. AppliedAt(0) = 0 /\ PhaseAt(0) = 0
    BY DEF AppliedAt, PhaseAt
  <1>3. chip = ChipAfter(AppliedAt(Len(rendered)), Len(applied), PhaseAt(Len(rendered)))
    BY <1>1, <1>2, SilentChip
  <1>4. ChipInv
    BY <1>1, <1>2, <1>3 DEF ChipInv
  <1>5. DumpedInv
    BY <1>1 DEF DumpedInv
  <1>6. QED
    BY <1>1, <1>4, <1>5 DEF PhaseInv, SegmentsAgree

\* The chip is what the events applied make of it, frame by frame, and every
\* dump shows it behind its frame.
LEMMA PhaseInductive == CaptureSpec => []PhaseInv
  <1>1. CaptureInit => PhaseInv
    BY PhaseInitially
  <1>2. CaptureInv /\ PhaseInv /\ [CaptureNext]_captureVars => PhaseInv'
    BY PhaseStep
  <1>3. QED
    BY <1>1, <1>2, CaptureInductive, PTL DEF CaptureSpec
-----------------------------------------------------------------------------
(* The rows' outputs and phases.                                           *)

\* read_audio takes every frame out of the buffer that held it.
LEMMA AudioIs ==
  ASSUME CaptureInv, PhaseInv, Complete, NEW f \in 1 .. CaptureFrames
  PROVE  Audio[f] = PhaseAt(f)
  <1>1. PICK k \in Nat \ {0}, N \in Nat, c \in Nat :
          k = BufferFrames /\ N = Len(dumps.buffer) /\ c = N * k /\ c = CaptureFrames
    BY ToolLengths, CaptureConstants DEF Complete
  <1>2. f - 1 \in Int /\ f - 1 >= 0 /\ f - 1 < c
    BY <1>1
  <1>3. PICK q \in Int, r \in 0 .. k - 1 :
          q = (f - 1) \div k /\ r = (f - 1) % k /\ f - 1 = k * q + r
    BY <1>2, Division
  <1>4. PICK x \in Int : x = q * k /\ f - 1 = x + r /\ (q + 1) * k = x + k
    <2>1. k * q = q * k /\ (q + 1) * k = q * k + k /\ q * k \in Int
      OBVIOUS
    <2>2. QED
      BY <1>3, <2>1
  <1>5. q >= 0
    <2>1. ~(x + k <= 0)
      BY <1>2, <1>4
    <2>2. (q + 1) * k <= 0 * k <=> q + 1 <= 0
      BY Cancel
    <2>3. ~(q + 1 <= 0)
      BY <1>4, <2>1, <2>2
    <2>4. QED
      BY <2>3
  <1>6. q < N
    <2>1. ~(c <= x)
      BY <1>2, <1>4
    <2>2. N * k <= q * k <=> N <= q
      BY Cancel
    <2>3. ~(N <= q)
      BY <1>1, <1>4, <2>1, <2>2
    <2>4. QED
      BY <1>1, <2>3
  <1>7. PICK n \in 1 .. Len(dumps.buffer), i \in 1 .. BufferFrames :
          /\ n = (f - 1) \div BufferFrames + 1 /\ i = ((f - 1) % BufferFrames) + 1
          /\ (n - 1) * BufferFrames + i = f
    <2>1. q + 1 \in 1 .. N /\ r + 1 \in 1 .. k /\ (q + 1) - 1 = q
      BY <1>1, <1>3, <1>5, <1>6
    <2>2. x + (r + 1) = f
      BY <1>1, <1>3, <1>4
    <2>3. QED
      BY <1>1, <1>3, <1>4, <2>1, <2>2
  <1>8. PICK dump : dump = dumps.buffer[n]
    OBVIOUS
  <1>9. dump.ssi[dump.output][i] = PhaseAt((n - 1) * BufferFrames + i)
    BY <1>8 DEF PhaseInv, DumpedInv
  <1>10. Audio[f] = dump.ssi[dump.output][i]
    BY <1>7, <1>8 DEF Audio
  <1>11. QED
    BY <1>7, <1>9, <1>10

LEMMA OneElement ==
  ASSUME NEW S, IsFiniteSet(S), Cardinality(S) <= 1, NEW x \in S, NEW y \in S
  PROVE  x = y
  <1>1. IsFiniteSet(S \ {x}) /\ Cardinality(S \ {x}) = Cardinality(S) - 1 /\ Cardinality(S) \in Nat
    BY FS_RemoveElement, FS_CardinalityType
  <1>2. Cardinality(S \ {x}) = 0
    <2>1. Cardinality(S \ {x}) \in Nat
      BY <1>1, FS_CardinalityType
    <2>2. QED
      BY <1>1, <2>1
  <1>3. S \ {x} = {}
    BY <1>1, <1>2, FS_EmptySet
  <1>4. QED
    BY <1>3

\* With one edge to a block the table has every edge.
LEMMA ResetsAreEdges ==
  ASSUME OneResetPerBlock, NEW f \in 1 .. CaptureFrames
  PROVE  KeyReset(BlockOf(f)) = f <=> EdgeAt(f)
  <1>1. PICK b \in 0 .. Blocks - 1 : b = BlockOf(f) /\ f \in FramesOf(b)
    BY FramesOfBlock
  <1>2. /\ KeyReset(b) = 0 => \A g \in FramesOf(b) : ~EdgeAt(g)
        /\ KeyReset(b) # 0 => KeyReset(b) \in FramesOf(b) /\ EdgeAt(KeyReset(b))
        /\ \A g \in FramesOf(b) : g \in EdgeFrames(b) <=> EdgeAt(g)
        /\ EdgeFrames(b) \subseteq FramesOf(b)
    BY KeyResetIs
  <1>3. IsFiniteSet(EdgeFrames(b)) /\ Cardinality(EdgeFrames(b)) <= 1
    <2>1. EdgeFrames(b) \subseteq 1 .. CaptureFrames
      BY <1>2, FramesOfBlock
    <2>2. IsFiniteSet(1 .. CaptureFrames)
      BY FS_Interval, CaptureConstants
    <2>3. QED
      BY <2>1, <2>2, FS_Subset DEF OneResetPerBlock
  <1>4. CASE EdgeAt(f)
    <2>1. KeyReset(b) # 0
      BY <1>1, <1>2, <1>4
    <2>2. f \in EdgeFrames(b) /\ KeyReset(b) \in EdgeFrames(b)
      BY <1>1, <1>2, <1>4, <2>1
    <2>3. QED
      BY <1>1, <1>3, <1>4, <2>2, OneElement
  <1>5. CASE ~EdgeAt(f)
    <2>1. f # 0
      BY CaptureConstants
    <2>2. QED
      BY <1>1, <1>2, <1>5, <2>1
  <1>6. QED
    BY <1>4, <1>5

\* Then the phase the tool writes for a frame is the frame's.
LEMMA PhaseIs ==
  ASSUME CaptureInv, ChipInv, Complete, OneResetPerBlock
  PROVE  \A f \in 0 .. CaptureFrames : Phase[f] % PhaseMod = PhaseAt(f)
  <1> DEFINE Steps(a) ==
               [f \in 0 .. CaptureFrames |->
                  IF f = 0 THEN 0
                  ELSE (IF KeyReset(BlockOf(f)) = f THEN 0 ELSE a[f - 1]) + Increment(f)]
             step == [f \in 1 .. CaptureFrames |->
                        [x \in Nat |-> (IF KeyReset(BlockOf(f)) = f THEN 0 ELSE x) + Increment(f)]]
             at == CHOOSE a : a = Steps(a)
  <1>1. PICK C \in Nat : C = CaptureFrames
    BY CaptureConstants
  <1>2. \A f \in 1 .. C : Increment(f) \in Nat
    <2>1. \A f \in 1 .. C : f \in 0 .. CaptureFrames
      BY <1>1
    <2>2. QED
      BY <2>1, IncrementIs
  <1>3. PICK g \in [0 .. C -> Nat] :
          /\ g[0] = 0
          /\ \A f \in 1 .. C :
               g[f] = (IF KeyReset(BlockOf(f)) = f THEN 0 ELSE g[f - 1]) + Increment(f)
    <2>1. step \in [1 .. C -> [Nat -> Nat]]
      <3>1. ASSUME NEW f \in 1 .. C, NEW x \in Nat
            PROVE  (IF KeyReset(BlockOf(f)) = f THEN 0 ELSE x) + Increment(f) \in Nat
        BY <1>2
      <3>2. QED
        BY <1>1, <3>1
    <2>2. Stepped(C, Nat, step) /\ 0 \in Nat
      BY <1>1, <2>1 DEF Stepped
    <2>3. PICK g : Follows(g, C, Nat, 0, step)
      <3> HIDE DEF step
      <3>1. QED
        BY ONLY <2>2, Stepwise
    <2>4. g \in [0 .. C -> Nat] /\ g[0] = 0 /\ \A f \in 1 .. C : g[f] = step[f][g[f - 1]]
      <3> HIDE DEF step
      <3>1. QED
        BY <2>3 DEF Follows
    <2>5. ASSUME NEW f \in 1 .. C
          PROVE  g[f] = (IF KeyReset(BlockOf(f)) = f THEN 0 ELSE g[f - 1]) + Increment(f)
      <3>1. g[f - 1] \in Nat
        BY <1>1, <2>4
      <3>2. QED
        BY <1>1, <2>4, <3>1
    <2>6. QED
      BY <2>4, <2>5
  <1> HIDE DEF step
  <1>4. g = Steps(g)
    <2>1. ASSUME NEW f \in 0 .. C PROVE g[f] = Steps(g)[f]
      <3>1. CASE f = 0
        BY <1>1, <1>3, <3>1
      <3>2. CASE f # 0
        BY <1>1, <1>3, <3>2
      <3>3. QED
        BY <3>1, <3>2
    <2>2. QED
      BY <1>1, <2>1
  <1>5. at = Steps(at)
    BY <1>4
  <1>6. Phase = at
    BY DEF Phase
  <1> HIDE DEF at
  <1>7. /\ at[0] = 0
        /\ \A f \in 1 .. C :
             at[f] = (IF KeyReset(BlockOf(f)) = f THEN 0 ELSE at[f - 1]) + Increment(f)
    <2>1. \A f \in 0 .. C : at[f] = Steps(at)[f]
      BY <1>5
    <2>2. Steps(at)[0] = 0
      BY <1>1
    <2>3. ASSUME NEW f \in 1 .. C
          PROVE  Steps(at)[f] = (IF KeyReset(BlockOf(f)) = f THEN 0 ELSE at[f - 1]) + Increment(f)
      <3>1. f \in 0 .. CaptureFrames /\ f # 0
        BY <1>1
      <3>2. QED
        BY <3>1
    <2> HIDE DEF Steps
    <2>4. 0 \in 0 .. C /\ \A f \in 1 .. C : f \in 0 .. C
      BY <1>1
    <2>5. QED
      BY <2>1, <2>2, <2>3, <2>4
  <1> HIDE DEF Steps
  <1> DEFINE v == [f \in 0 .. C |-> at[f] % PhaseMod]
             w == [f \in 0 .. C |-> PhaseAt(f)]
             h == [f \in 0 .. C |-> g[f]]
  <1>8. \A f \in 0 .. C : at[f] = g[f]
    <2>1. at[0] = h[0] /\ \A f \in 0 .. C : h[f] = g[f]
      BY <1>1, <1>3, <1>7
    <2>2. ASSUME NEW f \in 1 .. C, at[f - 1] = h[f - 1] PROVE at[f] = h[f]
      <3>1. f \in 0 .. C /\ f - 1 \in 0 .. C
        BY <1>1
      <3>2. QED
        BY <1>3, <1>7, <2>1, <2>2, <3>1
    <2> HIDE DEF h
    <2>3. Alike(C, at, h)
      BY <1>1, <2>1, <2>2 DEF Alike
    <2>4. \A f \in 0 .. C : at[f] = h[f]
      BY ONLY <2>3, AlikeThroughout
    <2>5. QED
      BY <2>1, <2>4
  <1>9. \A f \in 0 .. C : v[f] = w[f]
    <2>1. v[0] = w[0]
      <3>1. 0 % PhaseMod = 0
        BY KernelAssumption
      <3>2. QED
        BY <1>1, <1>7, <3>1 DEF PhaseAt
    <2>2. ASSUME NEW f \in 1 .. C, v[f - 1] = w[f - 1] PROVE v[f] = w[f]
      <3>1. PICK e \in 0 .. C : e = f - 1
        BY <1>1
      <3>2. PICK i, x, p : /\ i \in Nat /\ x \in Nat /\ i = Increment(f) /\ x = at[e]
                           /\ p = PhaseAt(e) /\ x % PhaseMod = p
        <4>1. at[e] \in Nat
          BY <1>1, <1>3, <1>8
        <4>2. at[e] % PhaseMod = PhaseAt(e)
          BY <2>2, <3>1
        <4>3. QED
          BY <1>2, <4>1, <4>2
      <3>3. PhaseAt(f) = ((IF EdgeAt(f) THEN 0 ELSE p) + i) % PhaseMod
        BY <1>1, <3>1, <3>2, EdgeLands
      <3>4. at[f] = (IF EdgeAt(f) THEN 0 ELSE x) + i
        BY <1>1, <1>7, <3>1, <3>2, ResetsAreEdges
      <3>5. ((x % PhaseMod) + i) % PhaseMod = (x + i) % PhaseMod
        <4>1. x \in Int /\ i \in Int
          BY <3>2
        <4>2. QED
          BY ONLY <4>1, PhaseWraps
      <3>6. v[f] = at[f] % PhaseMod /\ w[f] = PhaseAt(f)
        BY <1>1
      <3> HIDE DEF v, w
      <3>7. QED
        BY <3>2, <3>3, <3>4, <3>5, <3>6
    <2> HIDE DEF v, w
    <2>3. Alike(C, v, w)
      BY <1>1, <2>1, <2>2 DEF Alike
    <2>4. QED
      BY ONLY <2>3, AlikeThroughout
  <1>10. QED
    BY <1>1, <1>6, <1>9

LEMMA RowsAre ==
  ASSUME CaptureInv, PhaseInv
  PROVE  RowsMatchKernel
  <1>1. SUFFICES ASSUME RowsWritten, NEW f \in 1 .. CaptureFrames
                 PROVE  /\ Rows[f].output = rendered[f].acc
                        /\ OneResetPerBlock => Rows[f].phase % PhaseMod = rendered[f].acc
    BY DEF RowsMatchKernel, PhaseInv
  <1>2. Complete /\ ChipInv
    BY <1>1 DEF CaptureInv, RowsInv, Complete, PhaseInv
  <1>3. PhaseAt(f) = rendered[f].acc /\ f \in 0 .. CaptureFrames
    BY CaptureConstants DEF PhaseAt
  <1>4. Rows[f].output = Audio[f] /\ Rows[f].phase = Phase[f]
    BY DEF Rows
  <1>5. Audio[f] = PhaseAt(f)
    BY <1>2, AudioIs
  <1>6. OneResetPerBlock => Phase[f] % PhaseMod = PhaseAt(f)
    BY <1>2, <1>3, PhaseIs
  <1>7. QED
    BY <1>3, <1>4, <1>5, <1>6

\* No complete run of a capture fails for its phases or increments, and the
\* rows written have every frame's output, and its phase when no block holds
\* two key-on edges (reconstruct_rows, capture_ym2151_realtime.py:740-781).
THEOREM RowsMatch == CaptureSpec => []RowsMatchKernel
  <1>1. CaptureInv /\ PhaseInv => RowsMatchKernel
    BY RowsAre
  <1>2. QED
    BY <1>1, CaptureInductive, PhaseInductive, PTL
=============================================================================
