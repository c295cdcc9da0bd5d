------------------------------- MODULE YmBatch -------------------------------
(***************************************************************************)
(* The coalescing write accumulator of mxdrv_port.s.  A write is its       *)
(* number, in the order the driver makes them: written[n] is the register  *)
(* write n addresses.  The data byte is abstracted, except for the bit     *)
(* that tells the two depths behind register $19 apart: they are two       *)
(* latches, as they have a slot each.                                      *)
(***************************************************************************)
EXTENDS Naturals, Sequences

CONSTANTS
  Latches,    \* registers of which the last value of a batch counts
  Edges,      \* $08 and $14: every write is an event
  BatchMax    \* DSP_RT_BATCH_MAX

ASSUME BatchAssumption == Latches \cap Edges = {} /\ BatchMax \in Nat \ {0}

VARIABLES
  written,     \* history: the register of every write so far
  mirror,      \* mxdrv_opm_buffer: the last write to each latch, 0 for none
  active,      \* mxdrv_ym_batch_active
  words,       \* the first mxdrv_ym_batch_count of mxdrv_ym_batch_words
  generation,  \* mxdrv_ym_batch_generation
  genOf,       \* .._generation_by_reg and .._pm_generation
  slotOf,      \* .._slot_by_reg and .._pm_slot, counted from 1
  held,        \* the write mxdrv_write_ym2151 holds while it uses the port, 0
  sent,        \* words flushed so far
  opened       \* history: writes made before the batch was opened

slotVars == <<genOf, slotOf>>
batchVars == <<written, mirror, active, words, generation, slotVars, held, sent, opened>>

Registers == Latches \cup Edges
Latest == Len(written)
NoWrite == 0
-----------------------------------------------------------------------------
(* mxdrv_write_ym2151 of register r.                                       *)

\* The mirror takes every write, on whichever path it leaves.
Mirrored(r) ==
  /\ held = NoWrite
  /\ written' = Append(written, r)
  /\ mirror' = IF r \in Latches THEN [mirror EXCEPT ![r] = Latest + 1] ELSE mirror

Mapped(r) == r \in Latches /\ genOf[r] = generation
RoomForOneMore == Len(words) <= BatchMax
Room == Len(words) < BatchMax

\* _batch_replace_slot: the latch keeps its place in the batch.
ReplaceSlot(r) ==
  /\ active /\ Mapped(r)
  /\ Mirrored(r)
  /\ words' = [words EXCEPT ![slotOf[r]] = Latest + 1]
  /\ UNCHANGED <<active, generation, slotVars, held, sent, opened>>

\* _batch_append_register and _batch_append_pm
SlotAfterCount(r) ==
  /\ active /\ r \in Latches /\ ~Mapped(r) /\ Room
  /\ Mirrored(r)
  /\ words' = Append(words, Latest + 1)
  /\ genOf' = [genOf EXCEPT ![r] = generation]
  /\ slotOf' = [slotOf EXCEPT ![r] = Len(words) + 2]
  /\ UNCHANGED <<active, generation, held, sent, opened>>
AppendLatch(r) ==
  /\ active /\ r \in Latches /\ ~Mapped(r) /\ Room
  /\ Mirrored(r)
  /\ words' = Append(words, Latest + 1)
  /\ genOf' = [genOf EXCEPT ![r] = generation]
  /\ slotOf' = [slotOf EXCEPT ![r] = Len(words) + 1]
  /\ UNCHANGED <<active, generation, held, sent, opened>>

\* _batch_append_edge
EdgeReplacesLast(r) ==
  /\ active /\ r \in Edges /\ Room
  /\ Mirrored(r)
  /\ words' = IF words # <<>> /\ written[words[Len(words)]] = r
                THEN [words EXCEPT ![Len(words)] = Latest + 1]
                ELSE Append(words, Latest + 1)
  /\ UNCHANGED <<active, generation, slotVars, held, sent, opened>>
AppendEdge(r) ==
  /\ active /\ r \in Edges /\ Room
  /\ Mirrored(r)
  /\ words' = Append(words, Latest + 1)
  /\ UNCHANGED <<active, generation, slotVars, held, sent, opened>>

\* _batch_full: the write is held until the pending batch has left as direct
\* writes.
Overflow(r) ==
  /\ active /\ ~Mapped(r) /\ ~Room
  /\ Mirrored(r)
  /\ held' = Latest + 1
  /\ UNCHANGED <<active, words, generation, slotVars, sent, opened>>

\* mxdrv_write_ym2151_direct
DirectWrite(r) ==
  /\ ~active
  /\ Mirrored(r)
  /\ held' = Latest + 1
  /\ UNCHANGED <<active, words, generation, slotVars, sent, opened>>

\* The word the flush, or the direct write, exchanges next ...
HeldFirst == IF sent = 0 THEN held ELSE words[sent]
FlushWord == IF words # <<>> THEN words[sent + 1] ELSE held

\* ... and what follows its reply: the next word, the held write once the
\* batch is empty, or the return.
FlushKeepsGeneration ==
  /\ held # NoWrite
  /\ IF sent + 1 < Len(words)
       THEN sent' = sent + 1 /\ UNCHANGED <<words, generation, held, opened>>
       ELSE /\ sent' = 0
            /\ words' = <<>>
            /\ held' = IF words = <<>> THEN NoWrite ELSE held
            /\ opened' = IF words = <<>> THEN opened ELSE Latest
            /\ UNCHANGED generation
  /\ UNCHANGED <<written, mirror, active, slotVars>>
FlushNext ==
  /\ held # NoWrite
  /\ IF sent + 1 < Len(words)
       THEN sent' = sent + 1 /\ UNCHANGED <<words, generation, held, opened>>
       ELSE IF words # <<>>
       THEN /\ words' = <<>>
            /\ sent' = 0
            /\ generation' = generation + 1
            /\ opened' = Latest
            /\ UNCHANGED held
       ELSE held' = NoWrite /\ UNCHANGED <<words, sent, generation, opened>>
  /\ UNCHANGED <<written, mirror, active, slotVars>>
-----------------------------------------------------------------------------
(* The batch of a period.                                                  *)

\* A new, empty batch: the count is cleared and the generation advanced.
OpenKeepsWords ==
  /\ held = NoWrite
  /\ generation' = generation + 1
  /\ opened' = Latest
  /\ UNCHANGED <<written, mirror, words, slotVars, held, sent>>
OpenKeepsGeneration ==
  /\ held = NoWrite
  /\ words' = <<>>
  /\ opened' = Latest
  /\ UNCHANGED <<written, mirror, generation, slotVars, held, sent>>
OpenBatch ==
  /\ held = NoWrite
  /\ words' = <<>>
  /\ generation' = generation + 1
  /\ opened' = Latest
  /\ UNCHANGED <<written, mirror, slotVars, held, sent>>

BatchEnable == OpenBatch /\ active' = TRUE
BatchDisable == OpenBatch /\ active' = FALSE

\* mxdrv_ym_batch_copy: the words go into the payload.
BatchCopy == OpenBatch /\ UNCHANGED active

BatchInit ==
  /\ written = <<>>
  /\ mirror = [l \in Latches |-> 0]
  /\ active = FALSE
  /\ words = <<>>
  /\ generation = 0
  /\ genOf = [l \in Latches |-> 0]
  /\ slotOf = [l \in Latches |-> 0]
  /\ held = NoWrite
  /\ sent = 0
  /\ opened = 0

BufferedWrite(r) == ReplaceSlot(r) \/ AppendLatch(r) \/ AppendEdge(r)

BatchNext ==
  \/ \E r \in Registers : BufferedWrite(r) \/ Overflow(r) \/ DirectWrite(r)
  \/ FlushNext
  \/ BatchEnable \/ BatchDisable \/ BatchCopy

BatchSpec == BatchInit /\ [][BatchNext]_batchVars
-----------------------------------------------------------------------------
(* Properties.                                                             *)

BatchTypeOK ==
  /\ written \in Seq(Registers)
  /\ mirror \in [Latches -> 0 .. Latest]
  /\ active \in BOOLEAN
  /\ words \in Seq(Nat) /\ \A k \in 1 .. Len(words) : words[k] \in 1 .. Latest
  /\ Len(words) <= BatchMax
  /\ generation \in Nat
  /\ genOf \in [Latches -> Nat]
  /\ slotOf \in [Latches -> Nat]
  /\ held \in 0 .. Latest
  /\ sent \in Nat
  /\ opened \in 0 .. Latest

Target(k) == written[words[k]]
Places == 1 .. Len(words)

\* The slot map names the place of a latch exactly when the batch holds it,
\* and only the newest write of a latch is in the batch.
SlotsCurrent ==
  /\ \A l \in Latches : genOf[l] <= generation
  /\ active => \A l \in Latches : genOf[l] = generation =>
       slotOf[l] \in Places /\ words[slotOf[l]] = mirror[l]
  /\ \A k \in Places : Target(k) \in Latches =>
       genOf[Target(k)] = generation /\ slotOf[Target(k)] = k

\* Coalescing loses nothing (mxdrv_port.s:55-63): the batch holds every edge
\* written since it was opened, and of every latch written the newest value.
BatchComplete ==
  active => \A n \in opened + 1 .. Latest : n # held =>
    \E k \in Places :
      words[k] = IF written[n] \in Edges THEN n ELSE mirror[written[n]]

\* "First-occurrence order (voice parameters therefore remain ahead of
\* key-on)": an edge is behind the edges and behind every latch written before
\* it.
VoiceAheadOfKey ==
  active => \A k \in Places : Target(k) \in Edges =>
    \A n \in opened + 1 .. words[k] - 1 :
      \E j \in 1 .. k - 1 : Target(j) = written[n] /\ words[j] >= n

\* The strengthening the three need: what a write number means, and when one
\* is held.
BatchAux ==
  /\ \A l \in Latches : mirror[l] # 0 => written[mirror[l]] = l
  /\ \A n \in 1 .. Latest : written[n] \in Latches => mirror[written[n]] >= n
  /\ held # NoWrite => held = Latest
  /\ held # NoWrite /\ active => words # <<>> \/ opened = Latest

BatchInv == BatchTypeOK /\ SlotsCurrent /\ BatchComplete /\ VoiceAheadOfKey /\ BatchAux

\* What the path to the chip needs besides: the batch holds writes made since it
\* was opened, edges in their order, and is not flushed but for a held write.
BatchOrder ==
  /\ \A k \in Places : words[k] > opened
  /\ \A j, k \in Places : j < k /\ Target(j) \in Edges /\ Target(k) \in Edges => words[j] < words[k]
  /\ held # NoWrite => \A k \in Places : words[k] < held
  /\ held = NoWrite => sent = 0
  /\ sent = 0 \/ sent < Len(words)
  /\ ~active => words = <<>>
=============================================================================
