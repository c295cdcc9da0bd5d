---------------------------- MODULE BlockKernel ----------------------------
(***************************************************************************)
(* The production renderer of the DSP (ym2151.asm): the queue of writes,   *)
(* each stamped with a 16-bit time on the native-sample clock, and blocks  *)
(* of 32 codec frames, which consume 1920/1007 native samples a frame and  *)
(* are split where a write lands inside.  The chip is one operator: its    *)
(* pitch, its key and its phase.                                           *)
(***************************************************************************)
EXTENDS Integers, Sequences, FiniteSets, SequencesExt

CONSTANTS
  BlockFrames,   \* DSP_RT5_BLOCK_FRAMES, 32
  BufferBlocks,  \* DSP_RT_MIX_BLOCK_COUNT, 16
  Num, Den,      \* 1920 and 1007
  ClockMod,      \* 2^16
  QueueMax,      \* DSP_RT_EVENT_MAX, 32
  PhaseMod,      \* what the stored phase wraps at, 2^32
  Transports,    \* bound: how writes come, of those below
  Distances,     \* bound: how far ahead the host stamps
  Writes,        \* bound: writes
  StreamFrames   \* bound: frames, but for a capture

ASSUME KernelAssumption ==
  /\ {BlockFrames, BufferBlocks, Den, ClockMod, QueueMax, PhaseMod, StreamFrames} \subseteq Nat \ {0}
  /\ Num \in Den .. 2 * Den /\ ClockMod % 2 = 0 /\ 2 * BlockFrames * 2 <= ClockMod
  /\ Transports \subseteq {"queue", "live", "both", "capture"}
  /\ Distances \subseteq 0 .. ClockMod - 1

VARIABLES
  transport,  \* commands 0e, 02, or both; or a capture's scenario
  clock,      \* ssi_native_sample_count
  phase,      \* rt5_native_phase
  queue,      \* the ring of entries [time, n], n an index into accepted
  chip,       \* the operator: increment, key and phase
  dsp,        \* between blocks, in one, or splitting one
  seg,        \* the split driver's cursor, rt5_seg_*
  reply,      \* the answer to the last command
  accepted,   \* every write accepted, with its true time and first frame
  applied,    \* the order in which they were applied
  rendered    \* for every frame how many had been, and the phase after it

kernelVars == <<transport, clock, phase, queue, chip, dsp, seg, reply, accepted, applied, rendered>>

Base == (BlockFrames * Num) \div Den       \* DSP_RT_BLOCK_NATIVE_BASE, 61
Remainder == (BlockFrames * Num) % Den     \* DSP_RT_BLOCK_NATIVE_REMAINDER, 13

Distance(time, now) == (time - now) % ClockMod
Past(distance) == distance >= ClockMod \div 2    \* bit 15
-----------------------------------------------------------------------------
(* The chip.  A write is "pitch", "on" or "off".                           *)

Silent == [inc |-> 1, key |-> FALSE, acc |-> 0]

\* rt5_decode_register: a key-on is an edge only when the key is up
Decode(c, w) ==
  CASE w = "pitch" -> [c EXCEPT !.inc = 3]
    [] w = "on"    -> IF c.key THEN c ELSE [c EXCEPT !.key = TRUE, !.acc = 0]
    [] w = "off"   -> [c EXCEPT !.key = FALSE]

\* The chip after the writes ns of a log
Effect(c, log, ns) ==
  LET after[k \in 0 .. Len(ns)] == IF k = 0 THEN c ELSE Decode(after[k - 1], log[ns[k]].write)
  IN after[Len(ns)]

\* rt5_service_transport_event: the head of the queue while it is due
Due(entry, now) == Distance(entry.time, now) = 0 \/ Past(Distance(entry.time, now))
DueCount(now) ==
  CHOOSE n \in 0 .. Len(queue) :
    /\ \A i \in 1 .. n : Due(queue[i], now)
    /\ n = Len(queue) \/ ~Due(queue[n + 1], now)
DueWrites(now) == [i \in 1 .. DueCount(now) |-> queue[i].n]
Service(c, now) ==
  /\ queue' = SubSeq(queue, DueCount(now) + 1, Len(queue))
  /\ applied' = applied \o DueWrites(now)
  /\ chip' = Effect(c, accepted, DueWrites(now))

\* k frames rendered with the chip as it is, and the chip after them
Frames(k) ==
  rendered' = rendered \o
    [i \in 1 .. k |-> [applied |-> Len(applied), acc |-> (chip.acc + i * chip.inc) % PhaseMod]]
After(k) == [chip EXCEPT !.acc = (@ + k * chip.inc) % PhaseMod]
-----------------------------------------------------------------------------
(* The commands.  They are taken between the periods only.                 *)

\* The native samples of f frames
Natives(f) == (f * Num) \div Den

BetweenBuffers == dsp = "idle" /\ Len(rendered) % (BlockFrames * BufferBlocks) = 0

Entry(w, distance, isLive) ==
  [write |-> w, due |-> Natives(Len(rendered)) + distance, after |-> Len(rendered), live |-> isLive]

\* ym_enqueue_write: neither past nor beyond the horizon, no full queue, and
\* not before the tail
Enqueueable(time) ==
  /\ ~Past(Distance(time, clock))
  /\ Len(queue) < QueueMax
  /\ queue # <<>> => Distance(time, clock) >= Distance(Last(queue).time, clock)

EnqueueWrite(time, w) ==
  /\ IF Enqueueable(time)
       THEN /\ queue' = Append(queue, [time |-> time, n |-> Len(accepted) + 1])
            /\ accepted' = Append(accepted, Entry(w, Distance(time, clock), FALSE))
            /\ reply' = "ok"
       ELSE reply' = "error" /\ UNCHANGED <<queue, accepted>>
  /\ UNCHANGED <<transport, clock, phase, chip, dsp, seg, applied, rendered>>

\* ssi_stream_write_realtime: stamped now; a full queue is first drained, and
\* a queue still full is overtaken
WriteRealtime(w) ==
  /\ accepted' = Append(accepted, Entry(w, 0, TRUE))
  /\ reply' = "ok"
  /\ LET n == IF Len(queue) < QueueMax THEN 0 ELSE DueCount(clock)
         rest == SubSeq(queue, n + 1, Len(queue))
         own == Len(accepted) + 1
         now == SubSeq(DueWrites(clock), 1, n) \o (IF Len(rest) < QueueMax THEN <<>> ELSE <<own>>)
     IN /\ queue' = IF Len(rest) < QueueMax THEN Append(rest, [time |-> clock, n |-> own]) ELSE rest
        /\ applied' = applied \o now
        /\ chip' = Effect(chip, accepted', now)
  /\ UNCHANGED <<transport, clock, phase, dsp, seg, rendered>>

Host ==
  /\ BetweenBuffers /\ Len(accepted) < Writes /\ Len(rendered) < StreamFrames
  /\ \/ /\ transport \in {"queue", "both"}
        /\ \E d \in Distances : EnqueueWrite((clock + d) % ClockMod, "pitch")
     \/ transport \in {"live", "both"} /\ WriteRealtime("pitch")
-----------------------------------------------------------------------------
(* rt5_render_runtime_block.                                               *)

Advance == IF phase + Remainder < Den THEN Base ELSE Base + 1

\* rt5_update_support_block: what is due at the start, then the clock's step
BeginBlock ==
  /\ dsp = "idle"
  /\ Service(chip, clock)
  /\ phase' = (phase + Remainder) % Den
  /\ clock' = (clock + Advance) % ClockMod
  /\ dsp' = "block"
  /\ UNCHANGED <<transport, seg, reply, accepted, rendered>>

\* The head is due before the block's end, or at it
LandsStrictlyInside == queue # <<>> /\ Past(Distance(Head(queue).time, clock))
LandsInside ==
  /\ queue # <<>>
  /\ Distance(Head(queue).time, clock) = 0 \/ Past(Distance(Head(queue).time, clock))

WholeBlock ==
  /\ dsp = "block" /\ ~LandsInside
  /\ Frames(BlockFrames) /\ chip' = After(BlockFrames)
  /\ dsp' = "idle"
  /\ UNCHANGED <<transport, clock, phase, queue, seg, reply, accepted, applied>>

\* rt5_render_split_block: the clock and the remainder the block began with,
\* taken back from those it ends with
Split ==
  /\ dsp = "block" /\ LandsInside
  /\ LET adv == IF phase >= Remainder THEN Base ELSE Base + 1
     IN seg' = [native |-> (clock - adv) % ClockMod, adv |-> adv, start |-> 0,
                phase |-> (phase - Remainder) % Den, consumed |-> 0]
  /\ dsp' = "split"
  /\ UNCHANGED <<transport, clock, phase, queue, chip, reply, accepted, applied, rendered>>

\* rt5_split_segment_loop, for a head that lands before the end: the walk to
\* its frame, the frames before it, and what is due at the native samples
\* that frame consumes.
HeadOffset == Distance(Head(queue).time, seg.native)
HeadLands == queue # <<>> /\ HeadOffset <= seg.adv
Consumed(frames) == seg.consumed + (seg.phase + frames * Num) \div Den
LandingOffset ==
  CHOOSE k \in 0 .. BlockFrames :
    Consumed(k + 1) >= HeadOffset /\ \A j \in 0 .. k - 1 : Consumed(j + 1) < HeadOffset

Segment ==
  /\ dsp = "split" /\ HeadLands
  /\ LET k == LandingOffset
     IN /\ Frames(k)
        /\ Service(After(k), (seg.native + Consumed(k + 1)) % ClockMod)
        /\ seg' = [seg EXCEPT !.start = @ + k, !.consumed = Consumed(k),
                              !.phase = (seg.phase + k * Num) % Den]
  /\ UNCHANGED <<transport, clock, phase, dsp, reply, accepted>>

LastSegment ==
  /\ dsp = "split" /\ ~HeadLands
  /\ Frames(BlockFrames - seg.start) /\ chip' = After(BlockFrames - seg.start)
  /\ dsp' = "idle"
  /\ UNCHANGED <<transport, clock, phase, queue, seg, reply, accepted, applied>>

RenderSteps == WholeBlock \/ Split \/ Segment \/ LastSegment
-----------------------------------------------------------------------------
NoSegment == [native |-> 0, adv |-> 0, start |-> 0, phase |-> 0, consumed |-> 0]

KernelReset ==
  /\ clock = 0 /\ phase = 0 /\ queue = <<>> /\ chip = Silent
  /\ dsp = "idle" /\ seg = NoSegment /\ reply = "none"
  /\ accepted = <<>> /\ applied = <<>> /\ rendered = <<>>

KernelInit == transport \in Transports /\ KernelReset

StreamNext ==
  /\ transport # "capture"
  /\ Host \/ (Len(rendered) < StreamFrames /\ BeginBlock) \/ RenderSteps

StreamSpec == KernelInit /\ [][StreamNext]_kernelVars
-----------------------------------------------------------------------------
(* Properties.                                                             *)

\* Every write is in effect from the first frame f at whose end the native clock
\* has come to its time (due <= Natives(f)), or, when that has passed, from the
\* next one to be rendered, whatever the block, the wrap of the clock, the writes
\* before it and the fill of the queue
\* (ym2151.asm:6469-6472).  With both transports a write may be late: see
\* LiveInOrder.
LandsOnTime ==
  transport # "both" =>
    /\ \A f \in DOMAIN rendered :
         rendered[f].applied =
           Cardinality({i \in DOMAIN accepted :
             accepted[i].after < f /\ accepted[i].due <= Natives(f)})
    /\ \A i \in DOMAIN applied : applied[i] = i

\* "no write is ever dropped or reordered" (ym2151.asm:7748-7749): two writes
\* without a time of their own are applied in the order they came.
LiveInOrder ==
  \A i, j \in DOMAIN applied :
    i < j /\ accepted[applied[i]].live /\ accepted[applied[j]].live => applied[i] < applied[j]
=============================================================================
