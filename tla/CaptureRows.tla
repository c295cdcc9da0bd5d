---------------------------- MODULE CaptureRows ----------------------------
(***************************************************************************)
(* tools/capture_ym2151_realtime.py over the renderer it observes: a trace *)
(* is compiled into a scenario, the player's capture mode queues it and    *)
(* renders its frames, the debugger dumps the state at the entry of every  *)
(* block and at the end, and from the dumps and the trace the tool works   *)
(* out what every frame was.  compare_ym2151_realtime.py then compares     *)
(* those rows with the chip's.                                             *)
(***************************************************************************)
EXTENDS BlockKernel, FiniteSetsExt

CONSTANTS
  CaptureFrames,  \* frames of the scenario, whole buffers
  Stamps          \* bound: timestamps of the trace

ASSUME CaptureAssumption ==
  /\ CaptureFrames \in Nat \ {0} /\ CaptureFrames % (BlockFrames * BufferBlocks) = 0
  /\ Stamps \subseteq Nat

VARIABLES
  tool,     \* the step of the tool: trace, queue, run, read, done
  trace,    \* the events, [sample, write]
  attempt,  \* of running Hatari
  dumps,    \* the records by kind: the state at each block's entry, each buffer's end
  failure   \* why there are no rows; "none"

toolVars == <<tool, trace, attempt, dumps, failure>>
captureVars == <<kernelVars, toolVars>>

BufferFrames == BlockFrames * BufferBlocks
Blocks == CaptureFrames \div BlockFrames

Fail(why) == tool' = "done" /\ failure' = why
-----------------------------------------------------------------------------
(* The scenario and the run.                                               *)

\* apply_overrides changes the algorithm and feedback bits of an event, never
\* its time or its register.
ReadEvent(s, w) ==
  /\ tool = "trace" /\ Len(trace) < Writes
  /\ trace' = Append(trace, [sample |-> s, write |-> w])
  /\ UNCHANGED <<kernelVars, tool, attempt, dumps, failure>>

\* load_trace and compile_scenario: in order, no more than the ring holds,
\* within its horizon.
Ordered(events) == \A i \in 1 .. Len(events) - 1 : events[i].sample <= events[i + 1].sample
Fits(events) ==
  /\ Ordered(events) /\ Len(events) <= QueueMax
  /\ \A i \in DOMAIN events : events[i].sample < ClockMod \div 2

Compile ==
  /\ tool = "trace"
  /\ IF Fits(trace) THEN tool' = "queue" /\ UNCHANGED failure ELSE Fail("scenario")
  /\ UNCHANGED <<kernelVars, trace, attempt, dumps>>

\* capture_try_run: every event before the first frame, then the refills; an
\* answer that is not OK ends the player, and no block is ever dumped.
QueueEvent ==
  /\ tool = "queue" /\ reply # "error" /\ Len(accepted) < Len(trace)
  /\ EnqueueWrite(trace[Len(accepted) + 1].sample % ClockMod, trace[Len(accepted) + 1].write)
  /\ UNCHANGED toolVars

StartAudio ==
  /\ tool = "queue"
  /\ reply = "error" \/ Len(accepted) = Len(trace)
  /\ tool' = IF reply = "error" THEN "read" ELSE "run"
  /\ UNCHANGED <<kernelVars, trace, attempt, dumps, failure>>

\* STATE_RANGES and BUFFER_RANGES: what a dump holds of the model is the
\* clock, the operator's phase and increment; and, when the n-th buffer is
\* rendered, both buffers and which of them it is.  A frame's output is its
\* phase.
StateDump == [clock |-> clock, acc |-> chip.acc, inc |-> chip.inc]
Samples(n) == [i \in 1 .. BufferFrames |-> rendered[(n - 1) * BufferFrames + i].acc]
BufferDump(n) ==
  [clock |-> clock, acc |-> chip.acc, inc |-> chip.inc, output |-> n % 2,
   ssi |-> [b \in {0, 1} |-> LET latest == IF n % 2 = b THEN n ELSE n - 1
                             IN IF latest = 0 THEN <<>> ELSE Samples(latest)]]
BuffersDue == Len(rendered) \div BufferFrames - Len(dumps.buffer)

EnterBlock ==
  /\ tool = "run" /\ Len(rendered) < CaptureFrames /\ BuffersDue = 0
  /\ BeginBlock
  /\ dumps' = [dumps EXCEPT !.state = Append(@, StateDump)]
  /\ UNCHANGED <<tool, trace, attempt, failure>>

RenderOn == tool = "run" /\ RenderSteps /\ UNCHANGED toolVars

\* command_rt_start_buffer_ready, command_rt_refill_buffer_ready; the player
\* ends with the last
FinishBuffer ==
  /\ tool = "run" /\ dsp = "idle" /\ BuffersDue = 1
  /\ dumps' = [dumps EXCEPT !.buffer = Append(@, BufferDump(Len(rendered) \div BufferFrames))]
  /\ tool' = IF Len(rendered) = CaptureFrames THEN "read" ELSE "run"
  /\ UNCHANGED <<kernelVars, trace, attempt, failure>>

\* --run-vbls, or a crash
RunCut ==
  /\ tool = "run"
  /\ tool' = "read"
  /\ UNCHANGED <<kernelVars, trace, attempt, dumps, failure>>

\* run_scenario: a Hatari that ends without a word is started once more
RunSilent ==
  /\ tool = "queue" /\ accepted = <<>> /\ reply = "none"
  /\ attempt' = attempt + 1
  /\ tool' = IF attempt = 1 THEN "queue" ELSE "read"
  /\ UNCHANGED <<kernelVars, trace, dumps, failure>>
-----------------------------------------------------------------------------
(* schedule_events: per frame the native clock behind it and its events.   *)

Schedule ==
  LET at[f \in 0 .. CaptureFrames] ==
        IF f = 0 THEN [native |-> 0, phase |-> 0]
        ELSE LET p == at[f - 1].phase + Num
             IN [native |-> at[f - 1].native + p \div Den, phase |-> p % Den]
  IN [f \in 0 .. CaptureFrames |-> at[f].native]

CountAfterStart(f) ==
  Cardinality({i \in DOMAIN trace :
    Schedule[f - 1] < trace[i].sample /\ trace[i].sample <= Schedule[f]})
EventCount(f) ==
  Cardinality({i \in DOMAIN trace :
    Schedule[f - 1] <= trace[i].sample /\ trace[i].sample < Schedule[f]})

\* landing_frame: bisect_left over the native clocks; frames count from 1
AtOrBefore(sample) ==
  Min({f \in 1 .. CaptureFrames : Schedule[f] > sample} \cup {CaptureFrames + 1})
LandingFrame(sample) ==
  Min({f \in 1 .. CaptureFrames : Schedule[f] >= sample} \cup {CaptureFrames + 1})

BlockOf(f) == (f - 1) \div BlockFrames
FramesOf(b) == b * BlockFrames + 1 .. (b + 1) * BlockFrames
-----------------------------------------------------------------------------
(* reconstruct_rows.                                                       *)

\* The key-on edges, by the bits of the last key event; of several in a block
\* the table key_reset keeps the last.
KeyIsOn(i) ==
  \E j \in 1 .. i - 1 :
    trace[j].write = "on" /\ \A k \in j + 1 .. i - 1 : trace[k].write # "off"
Edges == {i \in DOMAIN trace : trace[i].write = "on" /\ ~KeyIsOn(i)}
EdgeFrames(b) == {LandingFrame(trace[i].sample) : i \in Edges} \cap FramesOf(b)
KeyReset(b) == IF EdgeFrames(b) = {} THEN 0 ELSE Max(EdgeFrames(b))

\* seg_incs and segment_at: the pitch mirror at a frame
Increment(f) ==
  IF \E i \in DOMAIN trace : trace[i].write = "pitch" /\ LandingFrame(trace[i].sample) <= f
    THEN 3 ELSE Silent.inc

\* The phase gained from frame f to frame g
Gain(f, g) ==
  LET sum[h \in f - 1 .. g] == IF h = f - 1 THEN 0 ELSE sum[h - 1] + Increment(h)
  IN sum[g]

\* The dumps against the schedule and the mirror, block by block.
Boundaries == Append(dumps.state, Last(dumps.buffer))
ClockOk ==
  \A b \in 0 .. Blocks : Boundaries[b + 1].clock = Schedule[b * BlockFrames] % ClockMod
IncrementOk(b) == Boundaries[b + 2].inc = Increment((b + 1) * BlockFrames)
AdvanceOk(b) ==
  LET reset == KeyReset(b)
      base == IF reset = 0 THEN Boundaries[b + 1].acc ELSE 0
      first == IF reset = 0 THEN b * BlockFrames + 1 ELSE reset
  IN (Boundaries[b + 2].acc - base) % PhaseMod = Gain(first, (b + 1) * BlockFrames) % PhaseMod

Reconstruct ==
  /\ tool = "read"
  /\ IF Len(dumps.state) # Blocks \/ Len(dumps.buffer) * BufferFrames # CaptureFrames
       THEN Fail("dump count")
     ELSE IF ~ClockOk THEN Fail("native clock")
     ELSE IF \E b \in 0 .. Blocks - 1 : ~(IncrementOk(b) /\ AdvanceOk(b)) THEN Fail("segments")
     ELSE Fail("none")
  /\ UNCHANGED <<kernelVars, trace, attempt, dumps>>

\* read_audio: of each buffer dump, in order, the buffer its output pointer ends
Audio ==
  [f \in 1 .. CaptureFrames |->
    LET dump == dumps.buffer[(f - 1) \div BufferFrames + 1]
    IN dump.ssi[dump.output][((f - 1) % BufferFrames) + 1]]

\* The rows written when nothing failed.
Phase ==
  LET at[f \in 0 .. CaptureFrames] ==
        IF f = 0 THEN 0
        ELSE (IF KeyReset(BlockOf(f)) = f THEN 0 ELSE at[f - 1]) + Increment(f)
  IN at
Rows ==
  LET native == Schedule
      phases == Phase
      audio == Audio
  IN [f \in 1 .. CaptureFrames |->
       [native |-> native[f] - 1, count |-> EventCount(f), phase |-> phases[f], output |-> audio[f]]]

\* compare_ym2151_realtime.py: validate_schedule
ScheduleValid(rows) ==
  LET step[f \in 0 .. Len(rows)] == IF f = 0 THEN 0 ELSE (step[f - 1] + Num) % Den
      native[f \in 0 .. Len(rows)] ==
        IF f = 0 THEN 0 ELSE native[f - 1] + (step[f - 1] + Num) \div Den
  IN \A f \in DOMAIN rows : rows[f].native = native[f] - 1
-----------------------------------------------------------------------------
CaptureInit ==
  /\ KernelInit
  /\ tool = IF transport = "capture" THEN "trace" ELSE "none"
  /\ trace = <<>> /\ attempt = 1 /\ dumps = [state |-> <<>>, buffer |-> <<>>] /\ failure = "none"

CaptureNext ==
  \/ StreamNext /\ UNCHANGED toolVars
  \/ \E s \in Stamps, w \in {"pitch", "on", "off"} : ReadEvent(s, w)
  \/ Compile \/ QueueEvent \/ StartAudio \/ EnterBlock \/ RenderOn \/ FinishBuffer
  \/ RunCut \/ RunSilent \/ Reconstruct

CaptureSpec == CaptureInit /\ [][CaptureNext]_captureVars
-----------------------------------------------------------------------------
(* Properties.                                                             *)

\* No scenario that the tool compiles is refused by the DSP
\* (capture_ym2151_realtime.py:156-166).
ScenarioAccepted == reply = "error" => transport # "capture"

\* No run that went to its end fails: the clocks that the DSP jumps to from
\* block to block, split or whole and past their wrap, are those that the tool
\* steps to frame by frame (capture_ym2151_realtime.py:618-627).
ClocksAgree == failure # "native clock"

OneResetPerBlock == \A b \in 0 .. Blocks - 1 : Cardinality(EdgeFrames(b)) <= 1

RowsWritten == tool = "done" /\ failure = "none"

\* Rows that are written say when the DSP applied its events, up to the one
\* frame by which the exact schedule counts later, and the comparator takes
\* their schedule.
RowsCountEvents ==
  RowsWritten =>
    LET rows == Rows
        counted[f \in 0 .. CaptureFrames] ==
          IF f = 0 THEN 0 ELSE counted[f - 1] + rows[f].count
    IN /\ ScheduleValid(rows)
       /\ \A f \in 1 .. CaptureFrames :
            /\ counted[f] <= rendered[f].applied
            /\ f < CaptureFrames => rendered[f].applied <= counted[f + 1]

\* The times of a capture are the DSP's, from the scenario to the rows.
ScheduleKept == ScenarioAccepted /\ ClocksAgree /\ RowsCountEvents

\* Nor does such a run fail for its phases and increments
\* (capture_ym2151_realtime.py:740-781), and the rows say what the DSP made of
\* the events: every frame's output from the buffer that held it, and its phase
\* when no block holds two key-on edges.
SegmentsAgree == failure # "segments"
RowsMatchKernel ==
  /\ SegmentsAgree
  /\ RowsWritten =>
    LET rows == Rows
    IN \A f \in 1 .. CaptureFrames :
         /\ rows[f].output = rendered[f].acc
         /\ OneResetPerBlock => rows[f].phase % PhaseMod = rendered[f].acc

\* "The DSP's own bookkeeping must agree with the exact schedule ...; a silent
\* mismatch here would turn the comparator into a test of this script instead
\* of the DSP" (capture_ym2151_realtime.py:618-620): no row is wrong unseen.
NoSilentMismatch ==
  RowsWritten => LET rows == Rows
                 IN \A f \in 1 .. CaptureFrames : rows[f].phase % PhaseMod = rendered[f].acc
=============================================================================
