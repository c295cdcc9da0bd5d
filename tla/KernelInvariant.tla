-------------------------- MODULE KernelInvariant --------------------------
(***************************************************************************)
(* The inductive invariant of BlockKernel, in native samples that do not   *)
(* wrap: where the clocks of the block and of the split driver stand, what *)
(* of the accepted writes is queued and what applied, and for every frame  *)
(* rendered which of them it had.                                          *)
(***************************************************************************)
EXTENDS BlockKernel

Half == ClockMod \div 2
Rest(f) == (f * Num) % Den

\* Frames before the block that is being rendered.
Start == IF dsp = "split" THEN Len(rendered) - seg.start ELSE Len(rendered)
End == Start + BlockFrames

\* The chip and the phases it leaves are not typed: no step depends on them.
KernelTypeOK ==
  /\ transport \in Transports
  /\ dsp \in {"idle", "block", "split"}
  /\ queue \in Seq([time : 0 .. ClockMod - 1, n : Nat])
  /\ accepted \in Seq([write : {"pitch", "on", "off"}, due : Nat, after : Nat, live : BOOLEAN])
  /\ applied \in Seq(Nat)
  /\ seg \in [native : Nat, adv : Nat, start : Nat, phase : Nat, consumed : Nat]
  /\ rendered \in Seq({rendered[f] : f \in 1 .. Len(rendered)})
  /\ \A f \in 1 .. Len(rendered) : rendered[f].applied \in Nat

\* The clock and its remainder are those of the block's end.
ClockInv ==
  LET now == IF dsp = "idle" THEN Len(rendered) ELSE End
  IN clock = Natives(now) % ClockMod /\ phase = Rest(now)

\* The split driver's cursor is at the last frame rendered.
CursorInv ==
  dsp = "split" =>
    /\ seg.start < BlockFrames /\ seg.start <= Len(rendered)
    /\ seg.native = Natives(Start) % ClockMod
    /\ seg.adv = Natives(End) - Natives(Start)
    /\ seg.consumed = Natives(Len(rendered)) - Natives(Start)
    /\ seg.phase = Rest(Len(rendered))

\* What was accepted has been applied or is queued, in order.
LogInv ==
  /\ Len(applied) + Len(queue) = Len(accepted)
  /\ \A i \in 1 .. Len(applied) : applied[i] = i
  /\ \A i \in 1 .. Len(queue) :
       /\ queue[i].n = Len(applied) + i
       /\ queue[i].time = accepted[Len(applied) + i].due % ClockMod
  /\ \A i, j \in 1 .. Len(accepted) : i <= j => accepted[i].due <= accepted[j].due
  /\ \A i \in 1 .. Len(accepted) :
       /\ accepted[i].after <= Len(rendered)
       /\ transport = "live" => accepted[i].due = Natives(accepted[i].after)

\* Applied is what the next frame needs, and nothing that it does not.
DueInv ==
  /\ \A i \in 1 .. Len(applied) :
       accepted[i].due <= Natives(IF dsp = "split" THEN Len(rendered) + 1 ELSE Len(rendered))
  /\ \A i \in Len(applied) + 1 .. Len(accepted) :
       /\ accepted[i].due >= Natives(Len(rendered))
       /\ dsp # "idle" => accepted[i].due # Natives(Len(rendered))
       /\ accepted[i].due < Natives(Start) + Half

\* A frame had the writes of the frames before it that were due by its end.
FrameInv ==
  \A f \in 1 .. Len(rendered) :
    /\ rendered[f].applied <= Len(accepted)
    /\ \A i \in 1 .. Len(accepted) :
         accepted[i].after < f /\ accepted[i].due <= Natives(f) <=> i <= rendered[f].applied

OnTime == LogInv /\ DueInv /\ FrameInv

KernelInv == KernelTypeOK /\ ClockInv /\ CursorInv /\ (transport # "both" => OnTime)
=============================================================================
