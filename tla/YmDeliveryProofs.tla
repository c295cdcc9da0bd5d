-------------------------- MODULE YmDeliveryProofs --------------------------
(***************************************************************************)
(* Proofs about YmBatch, for every set of registers and every capacity,    *)
(* and about YmDelivery: every step of it is one of the pipeline and one   *)
(* of the accumulator, so what RefillProofs and the first part show holds  *)
(* of it; DeliveryInv then follows each write to the chip.                 *)
(***************************************************************************)
EXTENDS DeliveryInvariant, RefillProofs
-----------------------------------------------------------------------------
(* The accumulator.                                                        *)

LEMMA InitBatch == BatchInit => BatchInv
  <1> SUFFICES ASSUME BatchInit PROVE BatchInv
    OBVIOUS
  <1>1. Latest = 0 /\ Len(words) = 0
    BY DEF BatchInit, Latest
  <1>2. BatchTypeOK
    <2>1. written \in Seq(Registers) /\ words \in Seq(Nat)
      BY DEF BatchInit
    <2>2. active \in BOOLEAN
      BY DEF BatchInit
    <2>3. /\ mirror \in [Latches -> 0 .. Latest]
          /\ genOf \in [Latches -> Nat] /\ slotOf \in [Latches -> Nat]
          /\ held \in 0 .. Latest /\ opened \in 0 .. Latest
          /\ generation \in Nat /\ sent \in Nat
      BY <1>1 DEF BatchInit, NoWrite
    <2>4. Len(words) <= BatchMax /\ \A k \in 1 .. Len(words) : words[k] \in 1 .. Latest
      BY <1>1, BatchAssumption
    <2>5. QED
      BY <2>1, <2>2, <2>3, <2>4 DEF BatchTypeOK
  <1>3. SlotsCurrent /\ BatchComplete /\ VoiceAheadOfKey /\ BatchAux
    BY <1>1 DEF BatchInit, SlotsCurrent, BatchComplete, VoiceAheadOfKey, BatchAux, Places, NoWrite
  <1>4. QED
    BY <1>2, <1>3 DEF BatchInv

\* A write is the newest of all, and the older ones keep their register.
LEMMA WriteMade ==
  ASSUME BatchInv, NEW r \in Registers, Mirrored(r)
  PROVE  /\ Latest \in Nat /\ Latest' = Latest + 1
         /\ written' \in Seq(Registers)
         /\ written'[Latest + 1] = r
         /\ \A n \in 1 .. Latest : written'[n] = written[n] /\ written[n] \in Registers
         /\ mirror' \in [Latches -> 0 .. Latest']
         /\ \A l \in Latches : mirror'[l] = IF l = r THEN Latest + 1 ELSE mirror[l]
         /\ held = NoWrite
  <1> USE DEF BatchInv, BatchTypeOK, Latest, Mirrored
  <1>1. Latest \in Nat /\ \A n \in 1 .. Latest : written[n] \in Registers
    OBVIOUS
  <1>2. /\ Latest' = Latest + 1 /\ written' \in Seq(Registers)
        /\ written'[Latest + 1] = r
        /\ \A n \in 1 .. Latest : written'[n] = written[n]
    BY AppendProperties
  <1>3. /\ mirror' \in [Latches -> 0 .. Latest']
        /\ \A l \in Latches : mirror'[l] = IF l = r THEN Latest + 1 ELSE mirror[l]
    BY <1>1, <1>2
  <1>4. QED
    BY <1>1, <1>2, <1>3

\* What a write number means survives the next write.
LEMMA AuxWrite ==
  ASSUME BatchInv, NEW r \in Registers, Mirrored(r)
  PROVE  /\ \A l \in Latches : mirror'[l] # 0 => written'[mirror'[l]] = l
         /\ \A n \in 1 .. Latest' : written'[n] \in Latches => mirror'[written'[n]] >= n
  <1>1. \A l \in Latches : mirror[l] \in 0 .. Latest
    BY DEF BatchInv, BatchTypeOK
  <1>2. \A l \in Latches : mirror'[l] # 0 => written'[mirror'[l]] = l
    BY <1>1, WriteMade DEF BatchInv, BatchAux
  <1>3. \A n \in 1 .. Latest' : written'[n] \in Latches => mirror'[written'[n]] >= n
    BY <1>1, WriteMade DEF BatchInv, BatchAux
  <1>4. QED
    BY <1>2, <1>3

\* A mapped latch is in the batch at its slot.
LEMMA MappedSlot ==
  ASSUME BatchInv, active, NEW r \in Latches, Mapped(r)
  PROVE  slotOf[r] \in Places /\ Target(slotOf[r]) = r
  BY DEF BatchInv, BatchTypeOK, SlotsCurrent, BatchAux, Mapped, Target, Places, Latest
-----------------------------------------------------------------------------
\* A new word at the end of the batch.
LEMMA Appended ==
  ASSUME BatchInv, NEW r \in Registers, Mirrored(r), words' = Append(words, Latest + 1)
  PROVE  /\ words' \in Seq(Nat)
         /\ Len(words) \in Nat /\ Len(words') = Len(words) + 1
         /\ words'[Len(words) + 1] = Latest + 1
         /\ written'[words'[Len(words) + 1]] = r
         /\ \A k \in Places : /\ words'[k] = words[k] /\ words[k] \in 1 .. Latest
                              /\ Target(k)' = Target(k)
  <1>1. words \in Seq(Nat) /\ Latest + 1 \in Nat
    BY WriteMade DEF BatchInv, BatchTypeOK
  <1>2. /\ words' \in Seq(Nat)
        /\ Len(words) \in Nat /\ Len(words') = Len(words) + 1
        /\ words'[Len(words) + 1] = Latest + 1
        /\ \A k \in Places : words'[k] = words[k]
    BY <1>1, AppendProperties DEF Places
  <1>3. \A k \in Places : words[k] \in 1 .. Latest
    BY DEF BatchInv, BatchTypeOK, Places
  <1>4. QED
    BY <1>2, <1>3, WriteMade DEF Target

\* Appending keeps the batch complete.
LEMMA AppendComplete ==
  ASSUME BatchInv, active, NEW r \in Registers, Mirrored(r),
         words' = Append(words, Latest + 1), opened' = opened, held' = held
  PROVE  BatchComplete'
  <1>1. Places' = Places \cup {Len(words) + 1} /\ Places = 1 .. Len(words)
    BY Appended DEF Places
  <1> SUFFICES ASSUME NEW n \in opened + 1 .. Latest + 1, n # held'
               PROVE \E k \in Places' : words'[k] = IF written'[n] \in Edges THEN n
                                                    ELSE mirror'[written'[n]]
    BY WriteMade DEF BatchComplete
  <1>2. CASE n = Latest + 1 \/ (written'[n] = r /\ r \notin Edges)
    BY <1>1, <1>2, WriteMade, Appended DEF Registers
  <1>3. CASE n # Latest + 1 /\ (written'[n] = r => r \in Edges)
    <2>1. n \in opened + 1 .. Latest /\ n \in 1 .. Latest
      <3>1. opened \in 0 .. Latest /\ Latest \in Nat
        BY WriteMade DEF BatchInv, BatchTypeOK
      <3>2. QED
        BY <1>3, <3>1
    <2>2. PICK k \in Places : words[k] = IF written[n] \in Edges THEN n
                                         ELSE mirror[written[n]]
      BY <2>1 DEF BatchInv, BatchComplete
    <2>3. QED
      BY <1>1, <1>3, <2>1, <2>2, WriteMade, Appended DEF Registers
  <1>4. QED
    BY <1>2, <1>3

LEMMA BatchAppendLatch ==
  ASSUME BatchInv, NEW r \in Registers, AppendLatch(r)
  PROVE  BatchInv'
  <1>1. r \in Latches /\ ~Mapped(r) /\ Mirrored(r) /\ words' = Append(words, Latest + 1)
        /\ r \notin Edges
    BY BatchAssumption DEF AppendLatch
  <1>2. Places' = Places \cup {Len(words) + 1} /\ Places = 1 .. Len(words)
    BY <1>1, Appended DEF Places
  <1>3. /\ active = TRUE /\ active' = active /\ generation' = generation /\ held' = held
        /\ sent' = sent /\ opened' = opened /\ Len(words) < BatchMax
        /\ genOf' = [genOf EXCEPT ![r] = generation]
        /\ slotOf' = [slotOf EXCEPT ![r] = Len(words) + 1]
    BY DEF AppendLatch, Room, BatchInv, BatchTypeOK
  <1>4. BatchTypeOK'
    <2>1. Len(words') <= BatchMax
      BY <1>1, <1>3, Appended, BatchAssumption
    <2>2. \A k \in 1 .. Len(words') : words'[k] \in 1 .. Latest'
      BY <1>1, <1>2, WriteMade, Appended DEF Places
    <2>3. genOf' \in [Latches -> Nat] /\ slotOf' \in [Latches -> Nat]
      BY <1>1, <1>3, Appended DEF BatchInv, BatchTypeOK
    <2>4. /\ held' \in 0 .. Latest' /\ opened' \in 0 .. Latest'
          /\ sent' \in Nat /\ generation' \in Nat
      BY <1>1, <1>3, WriteMade DEF BatchInv, BatchTypeOK
    <2>5. active' \in BOOLEAN
      BY <1>3
    <2>6. QED
      BY <1>1, <2>1, <2>2, <2>3, <2>4, <2>5, WriteMade, Appended DEF BatchTypeOK
  <1>5. SlotsCurrent'
    <2>1. \A l \in Latches : genOf'[l] <= generation'
      BY <1>3 DEF BatchInv, BatchTypeOK, SlotsCurrent
    <2>2. ASSUME NEW l \in Latches, genOf'[l] = generation'
          PROVE  slotOf'[l] \in Places' /\ words'[slotOf'[l]] = mirror'[l]
      <3>1. CASE l = r
        BY <1>1, <1>2, <1>3, <3>1, WriteMade, Appended DEF BatchInv, BatchTypeOK
      <3>2. CASE l # r
        <4>1. genOf[l] = generation /\ slotOf'[l] = slotOf[l]
          BY <1>3, <2>2, <3>2 DEF BatchInv, BatchTypeOK
        <4>2. slotOf[l] \in Places /\ words[slotOf[l]] = mirror[l]
          BY <1>3, <2>2, <4>1 DEF BatchInv, SlotsCurrent
        <4>3. words'[slotOf[l]] = words[slotOf[l]]
          BY <1>1, <4>2, Appended
        <4>4. mirror'[l] = mirror[l]
          BY <1>1, <2>2, <3>2, WriteMade
        <4>5. QED
          BY <1>2, <4>1, <4>2, <4>3, <4>4
      <3>3. QED
        BY <3>1, <3>2
    <2>3. ASSUME NEW k \in Places', Target(k)' \in Latches
          PROVE  genOf'[Target(k)'] = generation' /\ slotOf'[Target(k)'] = k
      <3>1. CASE k = Len(words) + 1
        <4>1. Target(k)' = r
          BY <1>1, <3>1, Appended DEF Target
        <4>2. QED
          BY <1>1, <1>3, <3>1, <4>1 DEF BatchInv, BatchTypeOK
      <3>2. CASE k \in Places
        <4>1. Target(k)' = Target(k) /\ genOf[Target(k)] = generation /\ slotOf[Target(k)] = k
          BY <1>1, <2>3, <3>2, Appended DEF BatchInv, SlotsCurrent
        <4>2. Target(k) # r
          BY <1>1, <4>1 DEF Mapped
        <4>3. QED
          BY <1>3, <2>3, <4>1, <4>2 DEF BatchInv, BatchTypeOK
      <3>3. QED
        BY <1>2, <3>1, <3>2
    <2>4. QED
      BY <1>3, <2>1, <2>2, <2>3 DEF SlotsCurrent
  <1>6. BatchComplete'
    BY <1>1, <1>3, AppendComplete
  <1>7. VoiceAheadOfKey'
    <2> SUFFICES ASSUME NEW k \in Places', Target(k)' \in Edges,
                        NEW n \in opened + 1 .. words'[k] - 1
                 PROVE  \E j \in 1 .. k - 1 : Target(j)' = written'[n] /\ words'[j] >= n
      BY <1>3 DEF VoiceAheadOfKey
    <2>0. k # Len(words) + 1
      BY <1>1, Appended DEF Target
    <2>1. k \in Places /\ Target(k) \in Edges /\ n \in opened + 1 .. words[k] - 1
      BY <1>1, <1>2, <2>0, Appended
    <2>2. n \in 1 .. Latest
      <3>1. words[k] \in 1 .. Latest /\ opened \in 0 .. Latest /\ Latest \in Nat
        BY <1>1, <2>1, Appended, WriteMade DEF BatchInv, BatchTypeOK
      <3>2. QED
        BY <2>1, <3>1
    <2>3. PICK j \in 1 .. k - 1 : Target(j) = written[n] /\ words[j] >= n
      BY <1>3, <2>1 DEF BatchInv, VoiceAheadOfKey
    <2>4. j \in Places
      BY <1>1, <1>2, <2>1, Appended
    <2>5. QED
      BY <1>1, <2>2, <2>3, <2>4, Appended, WriteMade
  <1>8. BatchAux'
    BY <1>1, <1>3, AuxWrite, WriteMade DEF BatchAux
  <1>9. QED
    BY <1>4, <1>5, <1>6, <1>7, <1>8 DEF BatchInv

LEMMA BatchAppendEdge ==
  ASSUME BatchInv, NEW r \in Registers, AppendEdge(r)
  PROVE  BatchInv'
  <1>1. r \in Edges /\ r \notin Latches /\ Mirrored(r) /\ words' = Append(words, Latest + 1)
    BY BatchAssumption DEF AppendEdge
  <1>2. Places' = Places \cup {Len(words) + 1} /\ Places = 1 .. Len(words)
    BY <1>1, Appended DEF Places
  <1>3. /\ active = TRUE /\ active' = active /\ generation' = generation /\ held' = held
        /\ sent' = sent /\ opened' = opened /\ Len(words) < BatchMax
        /\ genOf' = genOf /\ slotOf' = slotOf
    BY DEF AppendEdge, Room, BatchInv, BatchTypeOK, slotVars
  <1>4. BatchTypeOK'
    <2>1. Len(words') <= BatchMax
      BY <1>1, <1>3, Appended, BatchAssumption
    <2>2. \A k \in 1 .. Len(words') : words'[k] \in 1 .. Latest'
      BY <1>1, <1>2, WriteMade, Appended DEF Places
    <2>3. /\ held' \in 0 .. Latest' /\ opened' \in 0 .. Latest'
          /\ sent' \in Nat /\ generation' \in Nat
          /\ genOf' \in [Latches -> Nat] /\ slotOf' \in [Latches -> Nat]
      BY <1>1, <1>3, WriteMade DEF BatchInv, BatchTypeOK
    <2>4. active' \in BOOLEAN
      BY <1>3
    <2>5. QED
      BY <1>1, <2>1, <2>2, <2>3, <2>4, WriteMade, Appended DEF BatchTypeOK
  <1>5. SlotsCurrent'
    <2>1. ASSUME NEW l \in Latches, genOf'[l] = generation'
          PROVE  slotOf'[l] \in Places' /\ words'[slotOf'[l]] = mirror'[l]
      BY <1>1, <1>2, <1>3, <2>1, WriteMade, Appended DEF BatchInv, SlotsCurrent
    <2>2. ASSUME NEW k \in Places', Target(k)' \in Latches
          PROVE  genOf'[Target(k)'] = generation' /\ slotOf'[Target(k)'] = k
      <3>1. k \in Places
        BY <1>1, <1>2, <2>2, Appended DEF Target
      <3>2. QED
        BY <1>1, <1>3, <2>2, <3>1, Appended DEF BatchInv, SlotsCurrent
    <2>3. QED
      BY <1>3, <2>1, <2>2 DEF BatchInv, SlotsCurrent
  <1>6. BatchComplete'
    BY <1>1, <1>3, AppendComplete
  <1>7. VoiceAheadOfKey'
    <2> SUFFICES ASSUME NEW k \in Places', Target(k)' \in Edges,
                        NEW n \in opened + 1 .. words'[k] - 1
                 PROVE  \E j \in 1 .. k - 1 : Target(j)' = written'[n] /\ words'[j] >= n
      BY <1>3 DEF VoiceAheadOfKey
    <2>1. n \in 1 .. Latest
      <3>1. opened \in 0 .. Latest /\ Latest \in Nat
        BY <1>1, WriteMade DEF BatchInv, BatchTypeOK
      <3>2. words'[k] \in 1 .. Latest + 1
        BY <1>1, <1>2, <3>1, Appended
      <3>3. QED
        BY <3>1, <3>2
    <2>2. CASE k \in Places
      <3>1. Target(k) \in Edges /\ n \in opened + 1 .. words[k] - 1
        BY <1>1, <2>2, Appended
      <3>2. PICK j \in 1 .. k - 1 : Target(j) = written[n] /\ words[j] >= n
        BY <1>3, <2>2, <3>1 DEF BatchInv, VoiceAheadOfKey
      <3>3. j \in Places
        BY <1>1, <1>2, <2>2, Appended
      <3>4. QED
        BY <1>1, <2>1, <3>2, <3>3, Appended, WriteMade
    <2>3. CASE k = Len(words) + 1
      <3>1. n \in opened + 1 .. Latest /\ n # held
        BY <1>1, <2>1, <2>3, WriteMade, Appended DEF NoWrite
      <3>2. PICK j \in Places : words[j] = IF written[n] \in Edges THEN n
                                           ELSE mirror[written[n]]
        BY <1>3, <3>1 DEF BatchInv, BatchComplete
      <3>3. Target(j) = written[n] /\ words[j] >= n /\ j \in 1 .. k - 1
        <4>1. CASE written[n] \in Edges
          BY <1>1, <1>2, <2>1, <2>3, <3>2, <4>1, Appended DEF Target
        <4>2. CASE written[n] \in Latches
          BY <1>1, <1>2, <2>1, <2>3, <3>2, <4>2, Appended, BatchAssumption
             DEF Target, BatchInv, BatchTypeOK, BatchAux
        <4>3. QED
          BY <1>1, <2>1, <4>1, <4>2, WriteMade DEF Registers
      <3>4. QED
        BY <1>1, <2>1, <3>2, <3>3, Appended, WriteMade
    <2>4. QED
      BY <1>2, <2>2, <2>3
  <1>8. BatchAux'
    BY <1>1, <1>3, AuxWrite, WriteMade DEF BatchAux
  <1>9. QED
    BY <1>4, <1>5, <1>6, <1>7, <1>8 DEF BatchInv
-----------------------------------------------------------------------------
LEMMA BatchReplaceSlot ==
  ASSUME BatchInv, NEW r \in Registers, ReplaceSlot(r)
  PROVE  BatchInv'
  <1>1. /\ r \in Latches /\ Mapped(r) /\ Mirrored(r)
        /\ words' = [words EXCEPT ![slotOf[r]] = Latest + 1]
    BY DEF ReplaceSlot, Mapped
  <1>2. /\ active = TRUE /\ active' = active /\ generation' = generation /\ held' = held
        /\ sent' = sent /\ opened' = opened /\ genOf' = genOf /\ slotOf' = slotOf
    BY DEF ReplaceSlot, BatchInv, BatchTypeOK, slotVars
  <1>3. slotOf[r] \in Places /\ Target(slotOf[r]) = r /\ genOf[r] = generation
    BY <1>1, <1>2, MappedSlot DEF Mapped
  <1>4. /\ words' \in Seq(Nat) /\ Len(words') = Len(words) /\ Places' = Places
        /\ \A k \in Places : words'[k] = IF k = slotOf[r] THEN Latest + 1 ELSE words[k]
    <2>1. words \in Seq(Nat) /\ Latest + 1 \in Nat /\ slotOf[r] \in 1 .. Len(words)
      BY <1>1, <1>3, WriteMade DEF BatchInv, BatchTypeOK, Places
    <2>2. QED
      BY <1>1, <2>1, ExceptSeq DEF Places
  <1>5. \A k \in Places : words[k] \in 1 .. Latest
    BY DEF BatchInv, BatchTypeOK, Places
  <1>6. \A k \in Places : Target(k)' = Target(k)
    BY <1>1, <1>3, <1>4, <1>5, WriteMade DEF Target
  <1>7. BatchTypeOK'
    <2>1. \A k \in 1 .. Len(words') : words'[k] \in 1 .. Latest'
      BY <1>1, <1>4, <1>5, WriteMade DEF Places
    <2>2. /\ held' \in 0 .. Latest' /\ opened' \in 0 .. Latest'
          /\ sent' \in Nat /\ generation' \in Nat /\ Len(words') <= BatchMax
          /\ genOf' \in [Latches -> Nat] /\ slotOf' \in [Latches -> Nat]
      BY <1>1, <1>2, <1>4, WriteMade DEF BatchInv, BatchTypeOK
    <2>3. active' \in BOOLEAN
      BY <1>2
    <2>4. QED
      BY <1>1, <1>4, <2>1, <2>2, <2>3, WriteMade DEF BatchTypeOK
  <1>8. SlotsCurrent'
    <2>1. ASSUME NEW l \in Latches, genOf[l] = generation
          PROVE  slotOf[l] \in Places /\ words'[slotOf[l]] = mirror'[l]
      <3>1. slotOf[l] \in Places /\ Target(slotOf[l]) = l /\ words[slotOf[l]] = mirror[l]
        BY <1>2, <2>1, MappedSlot DEF Mapped, BatchInv, SlotsCurrent
      <3>2. QED
        BY <1>1, <1>3, <1>4, <3>1, WriteMade
    <2>2. QED
      BY <1>2, <1>4, <1>6, <2>1 DEF BatchInv, SlotsCurrent
  <1>9. BatchComplete'
    <2> SUFFICES ASSUME NEW n \in opened + 1 .. Latest + 1, n # held
                 PROVE \E k \in Places : words'[k] = IF written'[n] \in Edges THEN n
                                                     ELSE mirror'[written'[n]]
      BY <1>1, <1>2, <1>4, WriteMade DEF BatchComplete
    <2>1. CASE written'[n] = r
      BY <1>1, <1>3, <1>4, <2>1, WriteMade, BatchAssumption
    <2>2. CASE written'[n] # r
      <3>1. n \in opened + 1 .. Latest /\ n \in 1 .. Latest
        BY <1>1, <2>2, WriteMade DEF BatchInv, BatchTypeOK
      <3>2. PICK k \in Places : words[k] = IF written[n] \in Edges THEN n
                                           ELSE mirror[written[n]]
        BY <1>2, <3>1 DEF BatchInv, BatchComplete
      <3>3. Target(k) = written[n]
        BY <1>1, <1>5, <3>1, <3>2, WriteMade DEF Target, BatchInv, BatchAux, Registers
      <3>4. k # slotOf[r]
        BY <1>1, <1>3, <2>2, <3>1, <3>3, WriteMade
      <3>5. QED
        BY <1>1, <1>4, <2>2, <3>1, <3>2, <3>4, WriteMade DEF Registers
    <2>3. QED
      BY <2>1, <2>2
  <1>10. VoiceAheadOfKey'
    <2> SUFFICES ASSUME NEW k \in Places, Target(k) \in Edges,
                        NEW n \in opened + 1 .. words'[k] - 1
                 PROVE  \E j \in 1 .. k - 1 : Target(j)' = written'[n] /\ words'[j] >= n
      BY <1>2, <1>4, <1>6 DEF VoiceAheadOfKey
    <2>1. words'[k] = words[k]
      BY <1>1, <1>3, <1>4, BatchAssumption
    <2>2. n \in 1 .. Latest
      <3>1. words[k] \in 1 .. Latest /\ opened \in 0 .. Latest /\ Latest \in Nat
        BY <1>1, <1>5, WriteMade DEF BatchInv, BatchTypeOK
      <3>2. QED
        BY <2>1, <3>1
    <2>3. PICK j \in 1 .. k - 1 : Target(j) = written[n] /\ words[j] >= n
      BY <1>2, <2>1 DEF BatchInv, VoiceAheadOfKey
    <2>4. j \in Places
      BY DEF Places
    <2>5. words'[j] >= n
      BY <1>1, <1>4, <1>5, <2>2, <2>3, <2>4, WriteMade
    <2>6. QED
      BY <1>1, <1>6, <2>2, <2>3, <2>4, <2>5, WriteMade
  <1>11. BatchAux'
    BY <1>1, <1>2, AuxWrite, WriteMade DEF BatchAux
  <1>12. QED
    BY <1>7, <1>8, <1>9, <1>10, <1>11 DEF BatchInv
-----------------------------------------------------------------------------
\* A write that leaves the batch alone and is held: a direct one, or one that
\* found no room.
LEMMA BatchHeldWrite ==
  ASSUME BatchInv, NEW r \in Registers, Overflow(r) \/ DirectWrite(r)
  PROVE  BatchInv'
  <1>1. /\ Mirrored(r) /\ held' = Latest + 1 /\ words' = words /\ active' = active
        /\ generation' = generation /\ genOf' = genOf /\ slotOf' = slotOf
        /\ sent' = sent /\ opened' = opened
    BY DEF Overflow, DirectWrite, slotVars
  <1>2. active = TRUE => ~Mapped(r) /\ ~Room
    BY DEF Overflow, DirectWrite
  <1>3. Places' = Places /\ \A k \in Places : words[k] \in 1 .. Latest
    BY <1>1 DEF Places, BatchInv, BatchTypeOK
  <1>4. \A k \in Places : Target(k)' = Target(k)
    BY <1>1, <1>3, WriteMade DEF Target
  <1>5. opened \in 0 .. Latest /\ Latest \in Nat
    BY <1>1, WriteMade DEF BatchInv, BatchTypeOK
  <1>6. BatchTypeOK'
    <2>1. /\ \A k \in 1 .. Len(words') : words'[k] \in 1 .. Latest'
          /\ held' \in 0 .. Latest' /\ opened' \in 0 .. Latest'
      BY <1>1, <1>3, <1>5, WriteMade DEF Places
    <2>2. /\ words' \in Seq(Nat) /\ Len(words') <= BatchMax /\ sent' \in Nat /\ generation' \in Nat
          /\ genOf' \in [Latches -> Nat] /\ slotOf' \in [Latches -> Nat]
      BY <1>1 DEF BatchInv, BatchTypeOK
    <2>3. active' \in BOOLEAN
      BY <1>1 DEF BatchInv, BatchTypeOK
    <2>4. QED
      BY <1>1, <2>1, <2>2, <2>3, WriteMade DEF BatchTypeOK
  <1>7. SlotsCurrent'
    <2>1. ASSUME active = TRUE, NEW l \in Latches, genOf[l] = generation
          PROVE  slotOf[l] \in Places /\ words[slotOf[l]] = mirror'[l]
      BY <1>1, <1>2, <2>1, WriteMade DEF BatchInv, SlotsCurrent, Mapped
    <2>2. \A l \in Latches : genOf[l] <= generation
      BY DEF BatchInv, SlotsCurrent
    <2>3. \A k \in Places : Target(k) \in Latches =>
            genOf[Target(k)] = generation /\ slotOf[Target(k)] = k
      BY DEF BatchInv, SlotsCurrent
    <2>4. active' => active = TRUE
      BY <1>1 DEF BatchInv, BatchTypeOK
    <2>5. QED
      BY <1>1, <1>3, <1>4, <2>1, <2>2, <2>3, <2>4 DEF SlotsCurrent
  <1>8. BatchComplete'
    <2> SUFFICES ASSUME active = TRUE, NEW n \in opened + 1 .. Latest + 1, n # Latest + 1
                 PROVE \E k \in Places : words[k] = IF written'[n] \in Edges THEN n
                                                    ELSE mirror'[written'[n]]
      BY <1>1, <1>3, WriteMade DEF BatchComplete, BatchInv, BatchTypeOK
    <2>1. n \in opened + 1 .. Latest /\ n \in 1 .. Latest /\ n # held
      BY <1>1, <1>5, WriteMade DEF NoWrite
    <2>2. PICK k \in Places : words[k] = IF written[n] \in Edges THEN n
                                         ELSE mirror[written[n]]
      BY <2>1 DEF BatchInv, BatchComplete
    <2>3. Target(k) = written[n]
      BY <1>1, <1>3, <2>1, <2>2, WriteMade DEF Target, BatchInv, BatchAux, Registers
    <2>4. written[n] \in Latches => written[n] # r
      BY <1>2, <2>3 DEF BatchInv, SlotsCurrent, Mapped
    <2>5. QED
      BY <1>1, <2>1, <2>2, <2>4, WriteMade DEF Registers
  <1>9. VoiceAheadOfKey'
    <2> SUFFICES ASSUME active = TRUE, NEW k \in Places, Target(k) \in Edges,
                        NEW n \in opened + 1 .. words[k] - 1
                 PROVE  \E j \in 1 .. k - 1 : Target(j)' = written'[n] /\ words[j] >= n
      BY <1>1, <1>3, <1>4 DEF VoiceAheadOfKey, BatchInv, BatchTypeOK
    <2>1. n \in 1 .. Latest
      <3>1. words[k] \in 1 .. Latest
        BY <1>3
      <3>2. QED
        BY <1>5, <3>1
    <2>2. PICK j \in 1 .. k - 1 : Target(j) = written[n] /\ words[j] >= n
      BY DEF BatchInv, VoiceAheadOfKey
    <2>3. j \in Places
      BY DEF Places
    <2>4. QED
      BY <1>1, <1>4, <2>1, <2>2, <2>3, WriteMade
  <1>10. BatchAux'
    <2>1. held' = Latest'
      BY <1>1, WriteMade
    <2>2. active' => words' # <<>>
      BY <1>1, <1>2, BatchAssumption DEF Room, BatchInv, BatchTypeOK
    <2>3. QED
      BY <1>1, <2>1, <2>2, AuxWrite DEF BatchAux
  <1>11. QED
    BY <1>6, <1>7, <1>8, <1>9, <1>10 DEF BatchInv
-----------------------------------------------------------------------------
\* Opening an empty batch, at an enable, a disable, a copy or a flush.
LEMMA BatchOpened ==
  ASSUME BatchInv, active' \in BOOLEAN, words' = <<>>, generation' = generation + 1,
         opened' = Latest, held' = held, sent' \in Nat,
         written' = written, mirror' = mirror, genOf' = genOf, slotOf' = slotOf
  PROVE  BatchInv'
  <1>1. Latest' = Latest /\ Latest \in Nat /\ Len(words') = 0 /\ Places' = {}
    BY DEF Latest, Places, BatchInv, BatchTypeOK
  <1>2. BatchTypeOK'
    <2>1. words' \in Seq(Nat) /\ Len(words') <= BatchMax
      BY <1>1, BatchAssumption
    <2>2. /\ \A k \in 1 .. Len(words') : words'[k] \in 1 .. Latest'
          /\ opened' \in 0 .. Latest' /\ generation' \in Nat
      BY <1>1 DEF BatchInv, BatchTypeOK
    <2>3. QED
      BY <1>1, <2>1, <2>2 DEF BatchInv, BatchTypeOK
  <1>3. SlotsCurrent'
    <2>1. \A l \in Latches : genOf'[l] < generation' /\ genOf'[l] <= generation'
      BY DEF BatchInv, BatchTypeOK, SlotsCurrent
    <2>2. \A l \in Latches : genOf'[l] # generation'
      BY <2>1 DEF BatchInv, BatchTypeOK
    <2>3. QED
      BY <1>1, <2>1, <2>2 DEF SlotsCurrent
  <1>4. BatchComplete' /\ VoiceAheadOfKey'
    BY <1>1 DEF BatchComplete, VoiceAheadOfKey
  <1>5. BatchAux'
    BY <1>1 DEF BatchInv, BatchAux
  <1>6. QED
    BY <1>2, <1>3, <1>4, <1>5 DEF BatchInv

\* The rest of a flush: the batch and the writes stay.
LEMMA BatchKept ==
  ASSUME BatchInv, UNCHANGED <<written, mirror, active, words, generation, genOf, slotOf, opened>>,
         sent' \in Nat, held' = held \/ (held' = NoWrite /\ words = <<>> /\ held # NoWrite)
  PROVE  BatchInv'
  <1>1. Latest' = Latest /\ Latest \in Nat /\ Places' = Places /\ \A k \in Places : Target(k)' = Target(k)
    BY DEF Latest, Places, Target, BatchInv, BatchTypeOK
  <1>2. BatchTypeOK'
    <2>1. held' \in 0 .. Latest'
      BY <1>1 DEF BatchInv, BatchTypeOK, NoWrite
    <2>2. QED
      BY <1>1, <2>1 DEF BatchInv, BatchTypeOK
  <1>3. SlotsCurrent'
    BY <1>1 DEF BatchInv, SlotsCurrent
  <1>4. VoiceAheadOfKey'
    <2> SUFFICES ASSUME active, NEW k \in Places, Target(k) \in Edges,
                        NEW n \in opened + 1 .. words[k] - 1
                 PROVE  \E j \in 1 .. k - 1 : Target(j)' = written[n] /\ words[j] >= n
      BY <1>1 DEF VoiceAheadOfKey
    <2>1. PICK j \in 1 .. k - 1 : Target(j) = written[n] /\ words[j] >= n
      BY DEF BatchInv, VoiceAheadOfKey
    <2>2. j \in Places
      BY DEF Places
    <2>3. QED
      BY <1>1, <2>1, <2>2
  <1>5. BatchComplete'
    <2>1. CASE held' = held
      BY <1>1, <2>1 DEF BatchInv, BatchComplete
    <2>2. CASE words = <<>> /\ held # NoWrite
      <3>1. active => opened = Latest
        BY <2>2 DEF BatchInv, BatchAux
      <3>2. QED
        BY <1>1, <3>1 DEF BatchComplete
    <2>3. QED
      BY <2>1, <2>2
  <1>6. BatchAux'
    BY <1>1 DEF BatchInv, BatchAux
  <1>7. QED
    BY <1>2, <1>3, <1>4, <1>5, <1>6 DEF BatchInv

LEMMA BatchFlush == BatchInv /\ FlushNext => BatchInv'
  <1> SUFFICES ASSUME BatchInv, FlushNext PROVE BatchInv'
    OBVIOUS
  <1>1. sent \in Nat /\ sent + 1 \in Nat /\ 0 \in Nat /\ active \in BOOLEAN
    BY DEF BatchInv, BatchTypeOK
  <1>2. CASE sent + 1 < Len(words)
    <2>1. /\ UNCHANGED <<written, mirror, active, words, generation, genOf, slotOf, opened>>
          /\ sent' \in Nat /\ held' = held
      BY <1>1, <1>2 DEF FlushNext, slotVars
    <2>2. QED
      BY <2>1, BatchKept
  <1>3. CASE ~(sent + 1 < Len(words)) /\ words # <<>>
    <2>1. /\ words' = <<>> /\ generation' = generation + 1 /\ opened' = Latest /\ held' = held
          /\ sent' \in Nat /\ UNCHANGED <<written, mirror, active, genOf, slotOf>>
      BY <1>1, <1>3 DEF FlushNext, slotVars
    <2>2. active' \in BOOLEAN
      BY <1>1, <2>1
    <2>3. QED
      BY <2>1, <2>2, BatchOpened
  <1>4. CASE ~(sent + 1 < Len(words)) /\ words = <<>>
    <2>1. /\ UNCHANGED <<written, mirror, active, words, generation, genOf, slotOf, opened>>
          /\ sent' \in Nat /\ held' = NoWrite /\ held # NoWrite
      BY <1>1, <1>4 DEF FlushNext, slotVars
    <2>2. QED
      BY <1>4, <2>1, BatchKept
  <1>5. QED
    BY <1>2, <1>3, <1>4

LEMMA BatchOpens == BatchInv /\ (BatchEnable \/ BatchDisable \/ BatchCopy) => BatchInv'
  <1> SUFFICES ASSUME BatchInv, BatchEnable \/ BatchDisable \/ BatchCopy PROVE BatchInv'
    OBVIOUS
  <1>1. OpenBatch
    BY DEF BatchEnable, BatchDisable, BatchCopy
  <1>2. active' \in BOOLEAN
    BY DEF BatchEnable, BatchDisable, BatchCopy, BatchInv, BatchTypeOK
  <1>3. /\ words' = <<>> /\ generation' = generation + 1 /\ opened' = Latest
        /\ UNCHANGED <<written, mirror, genOf, slotOf, held, sent>> /\ sent' \in Nat
    BY <1>1 DEF OpenBatch, slotVars, BatchInv, BatchTypeOK
  <1>4. QED
    BY <1>2, <1>3, BatchOpened
-----------------------------------------------------------------------------
\* The accumulator's invariant holds for every register set, every split of it
\* into latches and edges, and every capacity.
THEOREM BatchInductive == BatchSpec => []BatchInv
  <1>1. BatchInv /\ [BatchNext]_batchVars => BatchInv'
    <2> SUFFICES ASSUME BatchInv, [BatchNext]_batchVars PROVE BatchInv'
      OBVIOUS
    <2>1. ASSUME NEW r \in Registers, BufferedWrite(r) PROVE BatchInv'
      BY <2>1, BatchReplaceSlot, BatchAppendLatch, BatchAppendEdge DEF BufferedWrite
    <2>2. ASSUME NEW r \in Registers, Overflow(r) \/ DirectWrite(r) PROVE BatchInv'
      BY <2>2, BatchHeldWrite
    <2>3. CASE UNCHANGED batchVars
      <3>1. /\ UNCHANGED <<written, mirror, active, words, generation, genOf, slotOf, opened>>
            /\ sent' \in Nat /\ held' = held
        BY <2>3 DEF batchVars, slotVars, BatchInv, BatchTypeOK
      <3>2. QED
        BY <3>1, BatchKept
    <2>4. QED
      BY <2>1, <2>2, <2>3, BatchFlush, BatchOpens DEF BatchNext
  <1>2. QED
    BY <1>1, InitBatch, PTL DEF BatchSpec

\* The slot map and the batch name each other (mxdrv_port.s:60-63): a write to
\* a latch goes to the one word that holds the latch's previous value.
THEOREM SlotsAlwaysCurrent == BatchSpec => []SlotsCurrent
  <1>1. BatchInv => SlotsCurrent
    BY DEF BatchInv
  <1>2. QED
    BY <1>1, BatchInductive, PTL

\* Coalescing loses no edge and no newest value (mxdrv_port.s:55-60), whatever
\* the capacity and whenever the batch overflows.
THEOREM NothingCoalescedAway == BatchSpec => []BatchComplete
  <1>1. BatchInv => BatchComplete
    BY DEF BatchInv
  <1>2. QED
    BY <1>1, BatchInductive, PTL

\* A key edge stays behind every voice parameter written before it
\* (mxdrv_port.s:57-58).
THEOREM KeysBehindTheirVoice == BatchSpec => []VoiceAheadOfKey
  <1>1. BatchInv => VoiceAheadOfKey
    BY DEF BatchInv
  <1>2. QED
    BY <1>1, BatchInductive, PTL

\* The slots stay inside mxdrv_ym_batch_words and name writes already made, and
\* the count never passes DSP_RT_BATCH_MAX.
THEOREM BatchTypeCorrect == BatchSpec => []BatchTypeOK
  <1>1. BatchInv => BatchTypeOK
    BY DEF BatchInv
  <1>2. QED
    BY <1>1, BatchInductive, PTL
-----------------------------------------------------------------------------
(* The order of the batch.                                                 *)

\* A new last word is newer than the others.
LEMMA OrderAppend ==
  ASSUME BatchInv, BatchOrder, NEW r \in Registers, Mirrored(r), active' = active, active,
         words' = Append(words, Latest + 1), UNCHANGED <<held, sent, opened>>
  PROVE  BatchOrder'
  <1>1. /\ Len(words) \in Nat /\ Len(words') = Len(words) + 1 /\ sent \in Nat /\ Latest \in Nat
        /\ opened \in 0 .. Latest /\ held = NoWrite
        /\ words'[Len(words) + 1] = Latest + 1
        /\ \A k \in Places : words'[k] = words[k] /\ words[k] \in 1 .. Latest /\ Target(k)' = Target(k)
    BY Appended, WriteMade DEF BatchInv, BatchTypeOK
  <1>2. Places' = Places \cup {Len(words) + 1} /\ Places = 1 .. Len(words)
    BY <1>1 DEF Places
  <1>3. \A k \in Places' : words'[k] > opened'
    BY <1>1, <1>2 DEF BatchOrder
  <1>4. ASSUME NEW j \in Places', NEW k \in Places', j < k, Target(j)' \in Edges, Target(k)' \in Edges
        PROVE  words'[j] < words'[k]
    <2>1. j \in Places
      BY <1>1, <1>2, <1>4
    <2>2. CASE k \in Places
      BY <1>1, <1>4, <2>1, <2>2 DEF BatchOrder
    <2>3. CASE k = Len(words) + 1
      <3>1. words'[k] = Latest + 1 /\ words'[j] \in 1 .. Latest
        BY <1>1, <2>1, <2>3
      <3>2. Latest \in Nat
        BY <1>1
      <3>3. \A a \in 1 .. Latest : a < Latest + 1
        BY <3>2
      <3>4. QED
        BY <3>1, <3>3
    <2>4. QED
      BY <1>2, <2>2, <2>3
  <1>5. QED
    BY <1>1, <1>3, <1>4 DEF BatchOrder

LEMMA OrderReplace ==
  ASSUME BatchInv, BatchOrder, NEW r \in Registers, ReplaceSlot(r)
  PROVE  BatchOrder'
  <1>1. r \in Latches /\ r \notin Edges /\ Mirrored(r) /\ active /\ active' = active
        /\ words' = [words EXCEPT ![slotOf[r]] = Latest + 1] /\ UNCHANGED <<held, sent, opened>>
    BY BatchAssumption DEF ReplaceSlot, Mapped
  <1>2. slotOf[r] \in Places /\ Target(slotOf[r]) = r
    BY <1>1, MappedSlot DEF ReplaceSlot
  <1>3. /\ Latest \in Nat /\ opened \in 0 .. Latest /\ held = NoWrite
        /\ words \in Seq(Nat) /\ \A k \in Places : words[k] \in 1 .. Latest
    BY <1>1, WriteMade DEF BatchInv, BatchTypeOK, Places
  <1>4. /\ Places' = Places /\ Len(words') = Len(words)
        /\ \A k \in Places : words'[k] = IF k = slotOf[r] THEN Latest + 1 ELSE words[k]
    BY <1>1, <1>2, <1>3 DEF Places
  <1>5. \A k \in Places : k # slotOf[r] => Target(k)' = Target(k)
    BY <1>1, <1>3, <1>4, WriteMade DEF Target
  <1>6. Target(slotOf[r])' \notin Edges
    <2>1. slotOf' = slotOf
      BY DEF ReplaceSlot, slotVars
    <2>3. QED
      BY <1>1, <1>2, <1>4, <2>1, WriteMade DEF Target
  <1>7. \A k \in Places' : words'[k] > opened'
    BY <1>1, <1>3, <1>4 DEF BatchOrder
  <1>8. ASSUME NEW j \in Places', NEW k \in Places', j < k, Target(j)' \in Edges, Target(k)' \in Edges
        PROVE  words'[j] < words'[k]
    <2>0. slotOf' = slotOf
      BY DEF ReplaceSlot, slotVars
    <2>1. j # slotOf[r] /\ k # slotOf[r]
      BY <1>6, <1>8, <2>0
    <2>2. QED
      BY <1>4, <1>5, <1>8, <2>1 DEF BatchOrder
  <1>9. QED
    BY <1>1, <1>3, <1>4, <1>7, <1>8 DEF BatchOrder

LEMMA OrderHeld ==
  ASSUME BatchInv, BatchOrder, NEW r \in Registers, Overflow(r) \/ DirectWrite(r)
  PROVE  BatchOrder'
  <1>1. Mirrored(r) /\ held' = Latest + 1 /\ UNCHANGED <<active, words, sent, opened>>
    BY DEF Overflow, DirectWrite
  <1>2. /\ Latest \in Nat /\ sent = 0
        /\ \A k \in Places : words[k] \in 1 .. Latest /\ Target(k)' = Target(k)
    BY <1>1, WriteMade DEF BatchInv, BatchTypeOK, BatchOrder, Places, Target
  <1>3. QED
    BY <1>1, <1>2 DEF BatchOrder, Places, NoWrite

LEMMA OrderEmpty ==
  ASSUME BatchOrder, words' = <<>>, sent' = 0
  PROVE  BatchOrder'
  BY DEF BatchOrder, Places

LEMMA BatchOrderStep ==
  ASSUME BatchInv, BatchOrder, [BatchNext]_batchVars
  PROVE  BatchOrder'
  <1>1. ASSUME NEW r \in Registers, BufferedWrite(r) PROVE BatchOrder'
    <2>1. CASE ReplaceSlot(r)
      BY <2>1, OrderReplace
    <2>2. CASE AppendLatch(r) \/ AppendEdge(r)
      BY <2>2, OrderAppend DEF AppendLatch, AppendEdge
    <2>3. QED
      BY <1>1, <2>1, <2>2 DEF BufferedWrite
  <1>2. ASSUME NEW r \in Registers, Overflow(r) \/ DirectWrite(r) PROVE BatchOrder'
    BY <1>2, OrderHeld
  <1>3. CASE FlushNext
    <2>1. UNCHANGED <<written, active>> /\ held # NoWrite /\ sent \in Nat
      BY <1>3 DEF FlushNext, BatchInv, BatchTypeOK
    <2>2. CASE sent + 1 < Len(words)
      <3>1. sent' = sent + 1 /\ UNCHANGED <<words, held, opened>>
        BY <1>3, <2>2 DEF FlushNext
      <3>2. QED
        BY <2>1, <2>2, <3>1 DEF BatchOrder, Places, Target
    <2>3. CASE ~(sent + 1 < Len(words)) /\ words # <<>>
      BY <1>3, <2>1, <2>3, OrderEmpty DEF FlushNext
    <2>4. CASE ~(sent + 1 < Len(words)) /\ words = <<>>
      <3>1. sent = 0
        BY <2>1, <2>4 DEF BatchOrder
      <3>2. words' = <<>> /\ sent' = 0
        BY <1>3, <2>4, <3>1 DEF FlushNext
      <3>3. QED
        BY <3>2, OrderEmpty
    <2>5. QED
      BY <2>2, <2>3, <2>4
  <1>4. CASE BatchEnable \/ BatchDisable \/ BatchCopy
    <2>1. words' = <<>> /\ held = NoWrite /\ sent' = sent
      BY <1>4 DEF BatchEnable, BatchDisable, BatchCopy, OpenBatch
    <2>2. QED
      BY <2>1, OrderEmpty DEF BatchOrder
  <1>5. CASE UNCHANGED batchVars
    BY <1>5 DEF batchVars, slotVars, BatchOrder, Places, Target
  <1>6. QED
    BY <1>1, <1>2, <1>3, <1>4, <1>5 DEF BatchNext

\* The batch holds what was written since it was opened, and the player starts
\* to flush it only with a write it then finds room for (_batch_full).
THEOREM BatchOrderly == BatchSpec => []BatchOrder
  <1>1. BatchInit => BatchOrder
    BY DEF BatchInit, BatchOrder, Places, NoWrite
  <1>2. BatchInv /\ BatchOrder /\ [BatchNext]_batchVars => BatchOrder'
    BY BatchOrderStep
  <1>3. QED
    BY <1>1, <1>2, BatchInductive, PTL DEF BatchSpec
-----------------------------------------------------------------------------
(* The composition.                                                        *)

LEMMA WriterSteps ==
  ASSUME Writer
  PROVE  /\ Player \/ UNCHANGED vars
         /\ BatchNext \/ UNCHANGED batchVars
  <1>1. CASE Enable \/ PumpWrite
    BY <1>1 DEF Enable, PumpWrite, BatchNext
  <1>2. CASE StageBatch \/ FlushBegins \/ CleanupDisables
    BY <1>2 DEF StageBatch, FlushBegins, CleanupDisables, BatchNext, Player
  <1>3. CASE FlushSend \/ KeyOffSend \/ StopSend
    BY <1>3 DEF FlushSend, KeyOffSend, StopSend, BatchNext, Player, Registers
  <1>4. CASE FlushReply \/ KeyOffReply \/ StopReply
    BY <1>4 DEF FlushReply, KeyOffReply, StopReply, BatchNext, Player
  <1>5. QED
    BY <1>1, <1>2, <1>3, <1>4 DEF Writer

\* Every step of the composition is a step of either part, or none of it.
LEMMA DeliverySteps ==
  ASSUME [DeliveryNext]_deliveryVars
  PROVE  [Next]_vars /\ [BatchNext]_batchVars
  <1>1. CASE Writer
    BY <1>1, WriterSteps DEF Next, Foreground
  <1>2. CASE Bystander
    BY <1>2 DEF Bystander, Next, Foreground, Player
  <1>3. CASE Submission
    BY <1>3 DEF Submission, Next, Foreground, TimerA
  <1>4. CASE Delivery
    BY <1>4 DEF Delivery, Next, Foreground, TimerA, Contexts
  <1>5. CASE Taken
    BY <1>5 DEF Taken, Next, Hardware, Dsp
  <1>6. CASE OtherHardware
    BY <1>6 DEF OtherHardware, Next, Hardware
  <1>7. CASE UNCHANGED deliveryVars
    BY <1>7 DEF deliveryVars
  <1>8. QED
    BY <1>1, <1>2, <1>3, <1>4, <1>5, <1>6, <1>7 DEF DeliveryNext

\* The composition is the player's pipeline, and it is the accumulator: what
\* is proved of either holds of it.
THEOREM BothParts == DeliverySpec => Spec /\ BatchSpec
  <1>1. DeliveryInit => Init /\ BatchInit
    BY DEF DeliveryInit
  <1>2. [DeliveryNext]_deliveryVars => [Next]_vars /\ [BatchNext]_batchVars
    BY DeliverySteps
  <1>3. QED
    BY <1>1, <1>2, PTL DEF DeliverySpec, Spec, BatchSpec

LEMMA PartsHold == DeliverySpec => [](IInv /\ BatchInv /\ BatchOrder)
  BY BothParts, Inductive, BatchInductive, BatchOrderly, PTL
-----------------------------------------------------------------------------
(* Where the player is, and what the accumulator then does.                *)

Elsewhere == {"build", "check", "cleanup", "submit", "full", "enqueue", "announce", "mark"}

LEMMA GoCaller ==
  ASSUME TypeOK, NEW l, GoTo("fg", l), l \notin BodyLocations
  PROVE  Caller' = l /\ pc'["fg"] = l /\ pc'["irq"] = pc["irq"]
  <1>1. pc' = [pc EXCEPT !["fg"] = l] /\ pc \in [Contexts -> {"idle"} \cup PlayerLocations \cup LinkLocations \cup BodyLocations]
    BY DEF TypeOK, PcTypeOK, GoTo
  <1>2. "fg" \in Contexts /\ "irq" \in Contexts /\ "fg" # "irq"
    BY DEF Contexts
  <1>3. pc'["fg"] = l /\ pc'["irq"] = pc["irq"]
    BY <1>1, <1>2
  <1>4. QED
    BY <1>3 DEF Caller

LEMMA CallKept ==
  ASSUME CallInv, UNCHANGED <<held, goal, cmd, active, written, built>>,
         Caller' = Caller \/ {Caller, Caller'} \subseteq Elsewhere
  PROVE  CallInv'
  BY DEF CallInv, Latest, Elsewhere

LEMMA CallWriter == ASSUME TypeOK, BatchInv, BatchOrder, CallInv, Writer PROVE CallInv'
  <1>0. Latest \in Nat
    BY DEF BatchInv, BatchTypeOK, Latest
  <1> USE DEF At, Step, Local, BodyLocations
  <1>1. CASE Enable
    <2>1. Caller = "loop" /\ Caller' = Caller /\ active' /\ held' = held /\ held = NoWrite
      BY <1>1 DEF Enable, BatchEnable, OpenBatch, Caller, vars, linkVars
    <2>2. goal' = goal /\ cmd' = cmd
      BY <1>1 DEF Enable, vars, playerVars
    <2>3. QED
      BY <2>1, <2>2 DEF CallInv
  <1>2. CASE PumpWrite
    <2>1. Caller = "loop" /\ Caller' = Caller /\ active /\ active' /\ held' = held /\ held = NoWrite
      BY <1>2 DEF PumpWrite, BufferedWrite, ReplaceSlot, AppendLatch, AppendEdge, Mirrored, Caller,
         vars, linkVars
    <2>2. goal' = goal /\ cmd' = cmd
      BY <1>2 DEF PumpWrite, vars, playerVars
    <2>3. QED
      BY <2>1, <2>2 DEF CallInv
  <1>3. CASE StageBatch
    <2>1. Caller' = "build" /\ active /\ active' /\ held' = NoWrite
      BY <1>3, GoCaller DEF StageBatch, StageBegin, BatchCopy, OpenBatch
    <2>2. QED
      BY <2>1 DEF CallInv
  <1>4. CASE FlushBegins
    <2>1. Caller' = "wait" /\ active' /\ goal' = "flush" /\ held' # NoWrite
      BY <1>0, <1>4, GoCaller DEF FlushBegins, BatchFull, Drain, Overflow, NoWrite
    <2>2. QED
      BY <2>1 DEF CallInv
  <1>5. CASE CleanupDisables
    <2>1. Caller' = "xsend" /\ active' = FALSE /\ goal' = "exit" /\ held' = NoWrite
      BY <1>5, GoCaller DEF CleanupDisables, Cleanup, BatchDisable, OpenBatch
    <2>2. QED
      BY <2>1 DEF CallInv
  <1>6. CASE FlushSend \/ StopSend
    <2>1. Caller = "xsend" /\ Caller' = "xrecv" /\ UNCHANGED <<goal, cmd, active, held>>
          /\ (goal = "flush" \/ cmd = "stop")
      BY <1>6, GoCaller DEF FlushSend, StopSend, ExchangeSend, playerVars, batchVars, Caller
    <2>2. QED
      BY <2>1 DEF CallInv
  <1>7. CASE KeyOffSend
    <2>1. Caller' = "xrecv" /\ goal' = "exit" /\ cmd' = "write"
      BY <1>7, GoCaller DEF KeyOffSend, ExchangeSend, playerVars
    <2>2. ~active' /\ held' # NoWrite
      BY <1>0, <1>7 DEF KeyOffSend, DirectWrite, NoWrite
    <2>3. QED
      BY <2>1, <2>2 DEF CallInv
  <1>8. CASE FlushReply
    <2>1. pc["fg"] = "xrecv" /\ Caller = "xrecv" /\ goal = "flush" /\ cmd = "write" /\ active' = active /\ goal' = goal
      BY <1>8 DEF FlushReply, ExchangeLast, ExchangeMore, FlushNext, Caller, CallInv, playerVars
    <2>2. active
      BY <2>1 DEF CallInv
    <2>3. CASE held' = NoWrite
      <3>1. Caller' = "loop"
        BY <1>8, <2>1, <2>3, GoCaller DEF FlushReply, ExchangeLast
      <3>2. QED
        BY <2>1, <2>2, <2>3, <3>1 DEF CallInv
    <2>4. CASE held' # NoWrite
      <3>1. Caller' = "xsend" /\ cmd' = cmd
        BY <1>8, <2>4, GoCaller DEF FlushReply, ExchangeMore, playerVars
      <3>2. QED
        BY <2>1, <2>2, <2>4, <3>1 DEF CallInv
    <2>5. QED
      BY <2>3, <2>4
  <1>9. CASE KeyOffReply
    <2>1. Caller = "xrecv" /\ goal = "exit" /\ cmd = "write" /\ active' = active /\ goal' = goal
      BY <1>9 DEF KeyOffReply, ExchangeLast, ExchangeMore, FlushNext, Caller, CallInv, playerVars
    <2>2. ~active /\ words = <<>>
      BY <2>1 DEF CallInv, BatchOrder
    <2>3. held' = NoWrite
      <3>1. Len(words) = 0 /\ sent \in Nat
        BY <2>2 DEF BatchInv, BatchTypeOK
      <3>2. QED
        BY <1>9, <2>2, <3>1 DEF KeyOffReply, FlushNext
    <2>4. Caller' = "xsend"
      BY <1>9, <2>1, GoCaller DEF KeyOffReply, ExchangeLast, ExchangeMore
    <2>5. QED
      BY <2>1, <2>2, <2>3, <2>4 DEF CallInv
  <1>10. CASE StopReply
    <2>0. pc["fg"] = "xrecv" /\ cmd = "stop" /\ goal' = goal
      BY <1>10 DEF StopReply, ExchangeLast
    <2>1. goal # "flush"
      BY <2>0 DEF CallInv, Caller
    <2>2. Caller = "xrecv" /\ Caller' = "done" /\ cmd' = cmd
      <3>1. Step("xrecv", "done") /\ cmd' = cmd
        BY <1>10, <2>0, <2>1 DEF StopReply, ExchangeLast
      <3>2. QED
        BY <2>0, <3>1, GoCaller DEF Caller
    <2>3. UNCHANGED <<active, held>>
      BY <1>10 DEF StopReply, batchVars
    <2>4. QED
      BY <2>0, <2>2, <2>3 DEF CallInv, TypeOK
  <1>11. QED
    BY <1>1, <1>2, <1>3, <1>4, <1>5, <1>6, <1>7, <1>8, <1>9, <1>10 DEF Writer

LEMMA CallBystander == ASSUME TypeOK, CallInv, Bystander PROVE CallInv'
  <1>0. UNCHANGED <<held, active, written>>
    BY DEF Bystander, batchVars
  <1> USE DEF At, Step, Local, BodyLocations
  <1>1. CASE StageEnd
    <2>1. Caller = "build" /\ Caller' = "submit" /\ UNCHANGED playerVars
      BY <1>1, GoCaller DEF StageEnd, Caller
    <2>2. QED
      BY <1>0, <2>1, CallKept DEF Elsewhere, playerVars
  <1>2. CASE CheckReply
    <2>1. Caller = "check" /\ Caller' \in {"loop", "cleanup"} /\ UNCHANGED playerVars
      BY <1>2, GoCaller DEF CheckReply, Caller
    <2>2. QED
      BY <1>0, <2>1 DEF CallInv, playerVars
  <1>3. CASE SongEnds \/ SecondKey
    <2>1. Caller = "loop" /\ Caller' = "wait" /\ goal' = "exit" /\ active
      BY <1>3, GoCaller DEF SongEnds, SecondKey, Drain, Caller, Bystander
    <2>2. QED
      BY <1>0, <2>1 DEF CallInv
  <1>4. CASE WaitDone
    <2>1. Caller = "wait" /\ goal' = goal
      BY <1>4 DEF WaitDone, Caller
    <2>2. CASE goal = "flush"
      <3>1. Caller' = "xsend" /\ cmd' = "write"
        BY <1>4, <2>2, GoCaller DEF WaitDone
      <3>2. QED
        BY <1>0, <2>1, <2>2, <3>1 DEF CallInv
    <2>3. CASE goal # "flush"
      <3>1. Caller' = "cleanup"
        BY <1>4, <2>3, GoCaller DEF WaitDone
      <3>2. QED
        BY <1>0, <2>1, <2>3, <3>1 DEF CallInv
    <2>4. QED
      BY <2>2, <2>3
  <1>5. QED
    BY <1>1, <1>2, <1>3, <1>4 DEF Bystander

LEMMA CallSubmission == ASSUME TypeOK, CallInv, Submission PROVE CallInv'
  <1>0. UNCHANGED <<held, goal, cmd, active, written, built>>
    BY DEF Submission, batchVars, playerVars
  <1> USE DEF At, GoTo, CallPoll, BodyLocations, TypeOK, PcTypeOK, Caller
  <1>1. CASE Submit(built)
    <2>1. {Caller, Caller'} \subseteq Elsewhere
      BY <1>1 DEF Submit, SubmitTestPosted, SubmitTestQueued, Enqueue, Announce, AnnounceMark, Elsewhere
    <2>2. QED
      BY <1>0, <2>1, CallKept
  <1>2. ASSUME NEW l \in {"loop", "build", "wait"}, PollWhilePosted(l) PROVE CallInv'
    <2>1. Caller' = Caller
      BY <1>2 DEF PollWhilePosted
    <2>2. QED
      BY <1>0, <2>1, CallKept
  <1>3. CASE PollIrq(clock)
    <2>1. Caller' = Caller
      BY <1>3 DEF PollIrq
    <2>2. QED
      BY <1>0, <2>1, CallKept
  <1>4. QED
    BY <1>1, <1>2, <1>3 DEF Submission

\* The poll body returns to its caller.
LEMMA BodyCaller ==
  ASSUME TypeOK, NEW c \in Contexts, Body(c)
  PROVE  Caller' = Caller
  <1> USE DEF At, GoTo, Return, BodyLocations, TypeOK, PcTypeOK, LinkTypeOK, Caller
  <1>1. c = "fg" => pc["fg"] \in BodyLocations
    BY DEF Body, PollNothing, PollReady, PollRefused, PollSend, PollAckNext, PollAckDrained,
       PollAnnounceNext
  <1>2. CASE c = "irq"
    <2>1. \E l : pc' = [pc EXCEPT !["irq"] = l]
      BY <1>2 DEF Body, PollNothing, PollReady, PollRefused, PollSend, PollAckNext, PollAckDrained,
         PollAnnounceNext
    <2>2. back' = back /\ pc'["fg"] = pc["fg"]
      BY <1>2, <2>1 DEF Body, PollNothing, PollReady, PollRefused, PollSend, PollAckNext,
         PollAckDrained, PollAnnounceNext, Contexts
    <2>3. QED
      BY <2>2
  <1>3. CASE c = "fg" /\ Return("fg")
    BY <1>1, <1>3
  <1>4. CASE c = "fg" /\ ~Return("fg")
    BY <1>1, <1>4 DEF Body, PollNothing, PollReady, PollRefused, PollSend, PollAckNext, PollAckDrained,
       PollAnnounceNext
  <1>5. QED
    BY <1>2, <1>3, <1>4 DEF Contexts

LEMMA CallStep ==
  ASSUME TypeOK, BatchInv, BatchOrder, CallInv, [DeliveryNext]_deliveryVars
  PROVE  CallInv'
  <1>1. CASE Delivery
    <2>1. PICK c \in Contexts : Body(c)
      BY <1>1 DEF Delivery
    <2>2. Caller' = Caller
      BY <2>1, BodyCaller
    <2>3. QED
      BY <1>1, <2>2, CallKept DEF Delivery, playerVars, batchVars
  <1>2. CASE Taken \/ OtherHardware \/ UNCHANGED deliveryVars
    <2>1. UNCHANGED <<linkVars, playerVars, batchVars>>
      BY <1>2 DEF Taken, OtherHardware, deliveryVars, vars
    <2>2. QED
      BY <2>1, CallKept DEF linkVars, playerVars, batchVars, Caller
  <1>3. QED
    BY <1>1, <1>2, CallWriter, CallBystander, CallSubmission DEF DeliveryNext
-----------------------------------------------------------------------------
(* What the chip makes of a word of writes.                                *)

\* Nothing the chip has is newer than the writes ws, each latch is in it once
\* and its edges are in order ...
Fits(ws) ==
  /\ Len(ws) \in Nat
  /\ \A k \in 1 .. Len(ws) :
       /\ ws[k] \in 1 .. Latest
       /\ written[ws[k]] \in Latches => chip[written[ws[k]]] <= ws[k]
       /\ written[ws[k]] \in Edges => \A e \in keyed : e < ws[k]
       /\ \A j \in 1 .. Len(ws) :
            /\ written[ws[j]] \in Latches /\ written[ws[j]] = written[ws[k]] => j = k
            /\ j < k /\ written[ws[j]] \in Edges /\ written[ws[k]] \in Edges => ws[j] < ws[k]

\* ... and what was written ahead of an edge is there before it.
Prepared(ws) ==
  \A k \in 1 .. Len(ws) : written[ws[k]] \in Edges =>
    \A w \in 1 .. ws[k] - 1 : written[w] \in Latches =>
      \/ Reached(w)
      \/ \E j \in 1 .. k - 1 : written[ws[j]] = written[w] /\ ws[j] >= w

LEMMA WrittenKind ==
  ASSUME BatchInv
  PROVE  /\ Latest \in Nat
         /\ \A n \in 1 .. Latest : written[n] \in Registers
         /\ \A r \in Registers : (r \in Latches) = (r \notin Edges)
  BY BatchAssumption DEF BatchInv, BatchTypeOK, Latest, Registers

\* After the first k writes each latch has its one write among them, if any.
LEMMA AfterFits ==
  ASSUME BatchInv, NEW ws, Fits(ws), NEW k \in 0 .. Len(ws), NEW l \in Latches
  PROVE  /\ \A i \in 1 .. k : written[ws[i]] = l => After(ws, k)[l] = ws[i]
         /\ (\A i \in 1 .. k : written[ws[i]] # l) => After(ws, k)[l] = chip[l]
  <1> DEFINE own == {i \in 1 .. k : written[ws[i]] = l}
  <1>1. After(ws, k)[l] = IF own = {} THEN chip[l] ELSE ws[Max(own)]
    BY DEF After
  <1>2. k \in Nat /\ 1 .. k \subseteq 1 .. Len(ws)
    BY DEF Fits
  <1>3. ASSUME NEW i \in 1 .. k, written[ws[i]] = l PROVE After(ws, k)[l] = ws[i]
    <2>1. own = {i}
      BY <1>2, <1>3 DEF Fits
    <2>2. Max(own) = i
      <3>1. \A x \in own : \A y \in own : x >= y
        BY <2>1
      <3>2. QED
        BY <2>1, <3>1 DEF Max
    <2>3. QED
      BY <1>1, <2>1, <2>2
  <1>4. (\A i \in 1 .. k : written[ws[i]] # l) => After(ws, k)[l] = chip[l]
    BY <1>1
  <1>5. QED
    BY <1>3, <1>4

\* The chip never goes back, takes every edge once and in order, and behind
\* what was written ahead of it.
LEMMA AppliesLatches ==
  ASSUME BatchInv, ChipInv, NEW ws, Fits(ws), Apply(ws), UNCHANGED written
  PROVE  /\ \A l \in Latches : chip'[l] >= chip[l]
         /\ \A l \in Latches : chip'[l] = chip[l] \/ \E k \in 1 .. Len(ws) : chip'[l] = ws[k] /\ written[ws[k]] = l
         /\ \A k \in 1 .. Len(ws) : written[ws[k]] \in Latches => chip'[written[ws[k]]] = ws[k]
         /\ chip' \in [Latches -> 0 .. Latest]
  <1>1. chip' = After(ws, Len(ws)) /\ Len(ws) \in Nat /\ Len(ws) \in 0 .. Len(ws)
    BY DEF Apply, Fits
  <1>2. \A l \in Latches : \A i \in 1 .. Len(ws) : written[ws[i]] = l => chip'[l] = ws[i]
    BY <1>1, AfterFits
  <1>3. \A l \in Latches : (\A i \in 1 .. Len(ws) : written[ws[i]] # l) => chip'[l] = chip[l]
    BY <1>1, AfterFits
  <1>4. \A l \in Latches : chip[l] \in 0 .. Latest /\ Latest \in Nat
    BY WrittenKind DEF ChipInv
  <1>5. ASSUME NEW l \in Latches
        PROVE  /\ chip'[l] >= chip[l] /\ chip'[l] \in 0 .. Latest
               /\ chip'[l] = chip[l] \/ \E k \in 1 .. Len(ws) : chip'[l] = ws[k] /\ written[ws[k]] = l
    <2>1. CASE \E i \in 1 .. Len(ws) : written[ws[i]] = l
      <3>1. PICK i \in 1 .. Len(ws) : written[ws[i]] = l
        BY <2>1
      <3>2. chip'[l] = ws[i] /\ ws[i] \in 1 .. Latest /\ chip[l] <= ws[i]
        BY <1>2, <3>1 DEF Fits
      <3>3. QED
        BY <1>4, <3>1, <3>2
    <2>2. CASE \A i \in 1 .. Len(ws) : written[ws[i]] # l
      BY <1>3, <1>4, <2>2
    <2>3. QED
      BY <2>1, <2>2
  <1>6. chip' = [l \in Latches |-> chip'[l]]
    BY <1>1 DEF After
  <1>7. chip' \in [Latches -> 0 .. Latest]
    BY <1>5, <1>6
  <1>8. QED
    BY <1>2, <1>5, <1>7

LEMMA AppliesEdges ==
  ASSUME BatchInv, ChipInv, OrderInv, NEW ws, Fits(ws), Apply(ws), UNCHANGED <<written, active>>,
         active => Prepared(ws)
  PROVE  /\ keyed' = keyed \cup {ws[k] : k \in EdgesIn(ws)}
         /\ OrderInv'
  <1>1. \A k \in EdgesIn(ws) : k \in 1 .. Len(ws) /\ written[ws[k]] \in Edges /\ ws[k] \in 1 .. Latest
    BY DEF EdgesIn, Fits
  <1>2. ASSUME NEW k \in EdgesIn(ws) PROVE ~Late(ws, k)
    <2>1. \A e \in keyed : e < ws[k] /\ e \in Nat
      BY <1>1, WrittenKind DEF Fits, ChipInv
    <2>2. ws[k] \in Nat /\ Latest \in Nat
      BY <1>1, WrittenKind
    <2>3. \A j \in 1 .. k - 1 : written[ws[j]] \in Edges => ws[j] < ws[k] /\ ws[j] \in Nat
      <3>1. Len(ws) \in Nat
        BY DEF Fits
      <3>2. \A j \in 1 .. k - 1 : j \in 1 .. Len(ws) /\ j < k
        BY <1>1, <3>1
      <3>3. QED
        BY <1>1, <3>2, WrittenKind DEF Fits
    <2>4. QED
      BY <2>1, <2>2, <2>3 DEF Late
  <1>3. ASSUME active, NEW k \in EdgesIn(ws) PROVE ~Hasty(ws, k)
    <2> SUFFICES ASSUME NEW w \in 1 .. ws[k] - 1, written[w] \in Latches
                 PROVE  ~(After(ws, k)[written[w]] < w)
      BY DEF Hasty
    <2>1. k \in 0 .. Len(ws) /\ k \in 1 .. Len(ws) /\ ws[k] \in Nat /\ w \in Nat /\ Latest \in Nat
      BY <1>1, WrittenKind DEF Fits
    <2>2. Reached(w) \/ \E j \in 1 .. k - 1 : written[ws[j]] = written[w] /\ ws[j] >= w
      BY <1>1, <1>3 DEF Prepared
    <2>3. ASSUME NEW j \in 1 .. k, written[ws[j]] = written[w] PROVE After(ws, k)[written[w]] = ws[j]
      BY <2>1, <2>3, AfterFits
    <2>4. \A j \in 1 .. k : j \in 1 .. Len(ws) /\ ws[j] \in Nat
      BY <2>1 DEF Fits
    <2>5. CASE \E j \in 1 .. k - 1 : written[ws[j]] = written[w] /\ ws[j] >= w
      <3>1. PICK j \in 1 .. k - 1 : written[ws[j]] = written[w] /\ ws[j] >= w
        BY <2>5
      <3>2. j \in 1 .. k
        BY <2>1
      <3>3. QED
        BY <2>1, <2>3, <2>4, <3>1, <3>2
    <2>6. CASE Reached(w)
      <3>1. written[w] \notin Edges /\ chip[written[w]] >= w /\ chip[written[w]] \in Nat
        BY <2>1, <2>6, BatchAssumption, WrittenKind DEF Reached, ChipInv
      <3>2. CASE \E j \in 1 .. k : written[ws[j]] = written[w]
        <4>1. PICK j \in 1 .. k : written[ws[j]] = written[w]
          BY <3>2
        <4>2. chip[written[w]] <= ws[j]
          BY <2>4, <4>1 DEF Fits
        <4>3. QED
          BY <2>1, <2>3, <2>4, <3>1, <4>1, <4>2
      <3>3. CASE \A j \in 1 .. k : written[ws[j]] # written[w]
        <4>1. After(ws, k)[written[w]] = chip[written[w]]
          BY <2>1, <3>3, AfterFits
        <4>2. QED
          BY <2>1, <3>1, <4>1
      <3>4. QED
        BY <3>2, <3>3
    <2>7. QED
      BY <2>2, <2>5, <2>6
  <1>4. late' = {}
    <2>1. {i \in EdgesIn(ws) : Late(ws, i)} = {}
      BY <1>2
    <2>2. QED
      BY <2>1 DEF Apply, OrderInv
  <1>5. active' => hasty' = {}
    <2>1. active => {i \in EdgesIn(ws) : Hasty(ws, i)} = {}
      BY <1>3
    <2>2. QED
      BY <2>1 DEF Apply, OrderInv
  <1>6. hasty' \subseteq keyed'
    BY DEF Apply, OrderInv
  <1>7. QED
    BY <1>4, <1>5, <1>6 DEF Apply, OrderInv

LEMMA AppliesReached ==
  ASSUME BatchInv, ChipInv, NEW ws, Fits(ws), Apply(ws), UNCHANGED written
  PROVE  /\ ChipInv'
         /\ \A n \in 1 .. Latest : Reached(n) => Reached(n)'
         /\ \A k \in 1 .. Len(ws) : Reached(ws[k])'
  <1>1. keyed' = keyed \cup {ws[k] : k \in EdgesIn(ws)} /\ Latest' = Latest
    BY DEF Apply, Latest
  <1>2. \A l \in Latches : chip[l] \in Nat /\ chip'[l] \in Nat
    BY AppliesLatches, WrittenKind DEF ChipInv
  <1>3. ASSUME NEW n \in 1 .. Latest, Reached(n) PROVE Reached(n)'
    <2>1. n \in Nat /\ written[n] \in Registers
      BY WrittenKind
    <2>2. CASE written[n] \in Edges
      BY <1>1, <1>3, <2>2 DEF Reached
    <2>3. CASE written[n] \notin Edges
      <3>1. written[n] \in Latches /\ chip[written[n]] >= n
        BY <1>3, <2>1, <2>3 DEF Reached, Registers
      <3>2. chip'[written[n]] >= chip[written[n]]
        BY <3>1, AppliesLatches
      <3>3. chip'[written[n]] >= n
        BY <1>2, <2>1, <3>1, <3>2
      <3>4. QED
        BY <2>3, <3>3 DEF Reached
    <2>4. QED
      BY <2>2, <2>3
  <1>4. ASSUME NEW k \in 1 .. Len(ws) PROVE Reached(ws[k])'
    <2>1. ws[k] \in 1 .. Latest /\ written[ws[k]] \in Registers /\ ws[k] \in Nat
      BY WrittenKind DEF Fits
    <2>2. CASE written[ws[k]] \in Edges
      BY <1>1, <2>2 DEF Reached, EdgesIn
    <2>3. CASE written[ws[k]] \notin Edges
      <3>1. chip'[written[ws[k]]] = ws[k]
        BY <2>1, <2>3, AppliesLatches DEF Registers
      <3>2. QED
        BY <2>1, <2>3, <3>1 DEF Reached
    <2>4. QED
      BY <2>2, <2>3
  <1>5. ChipInv'
    <2>1. chip' \in [Latches -> 0 .. Latest']
      BY <1>1, AppliesLatches
    <2>2. \A l \in Latches : chip'[l] # 0 => written[chip'[l]] = l
      BY AppliesLatches DEF ChipInv
    <2>3. \A k \in EdgesIn(ws) : ws[k] \in 1 .. Latest /\ written[ws[k]] \in Edges
      BY DEF EdgesIn, Fits
    <2>4. keyed' \subseteq {n \in 1 .. Latest' : written'[n] \in Edges}
      <3> SUFFICES ASSUME NEW e \in keyed' PROVE e \in 1 .. Latest' /\ written'[e] \in Edges
        OBVIOUS
      <3>1. CASE e \in keyed
        BY <1>1, <3>1 DEF ChipInv
      <3>2. CASE e \notin keyed
        <4>1. PICK k \in EdgesIn(ws) : e = ws[k]
          BY <1>1, <3>2
        <4>2. QED
          BY <1>1, <2>3, <4>1
      <3>3. QED
        BY <3>1, <3>2
    <2>5. QED
      BY <2>1, <2>2, <2>4 DEF ChipInv
  <1>6. QED
    BY <1>3, <1>4, <1>5
-----------------------------------------------------------------------------
(* The steps that move no write.                                           *)

PathHyp ==
  /\ TypeOK /\ ContextInv /\ PortInv /\ FifoInv
  /\ BatchInv /\ BatchOrder /\ CallInv
  /\ stage \in [0 .. StageBuffers - 1 -> Seq(Nat)]
  /\ PathInv

\* All but what is on the port.
OffPortInv == ChipInv /\ FlushInv /\ BurstInv /\ AheadInv /\ CoverInv /\ OrderInv

LEMMA PathStill ==
  ASSUME PathHyp, UNCHANGED <<batchVars, chipVars, stage, arrived, built>>,
         Replied' = Replied \/ (words = <<>> /\ held = NoWrite)
  PROVE  OffPortInv'
  <1> USE DEF PathHyp, PathInv
  <1>1. /\ UNCHANGED <<written, active, words, held, sent, opened, chip, keyed, late, hasty, stage, arrived, built>>
        /\ Latest' = Latest /\ Places' = Places
        /\ Pending' = Pending
    BY DEF batchVars, chipVars, Latest, Places, Pending
  <1>2. Flushed' = Flushed
    <2>1. words = <<>> => Places = {}
      BY DEF Places
    <2>2. words = <<>> => Flushed = {} /\ Flushed' = {}
      BY <1>1, <2>1 DEF Flushed
    <2>3. Replied' = Replied => Done' = Done
      BY <1>1 DEF Done
    <2>4. QED
      BY <1>1, <2>2, <2>3 DEF Flushed
  <1>3. ChipInv' /\ OrderInv'
    BY <1>1 DEF ChipInv, OrderInv
  <1>4. FlushInv'
    BY <1>1, <1>2 DEF FlushInv, Reached
  <1>5. BurstInv'
    BY <1>1 DEF BurstInv, Burst, Slots
  <1>b. \A n : Burst(n)' = Burst(n) /\ Slots(n)' = Slots(n)
    BY <1>1 DEF Burst, Slots
  <1>r. /\ \A w : Reached(w)' <=> Reached(w)
        /\ \A m, j, w : Brings(m, j, w)' <=> Brings(m, j, w)
    BY <1>1, <1>b DEF Reached, Brings
  <1>6. AheadInv'
    BY <1>1, <1>b, <1>r DEF AheadInv
  <1>7. CoverInv'
    BY <1>1, <1>b, <1>r DEF CoverInv
  <1>8. QED
    BY <1>3, <1>4, <1>5, <1>6, <1>7 DEF OffPortInv

\* While the player exchanges words, and after, no payload is under way.
LEMMA NothingPending ==
  ASSUME PathHyp, pc["fg"] \in {"cleanup", "xsend", "xrecv", "done"}
  PROVE  built = Len(arrived) /\ Pending = {} /\ ~posted /\ Caller = pc["fg"]
  <1>1. ~posted /\ ~queued /\ Caller = pc["fg"]
    BY DEF PathHyp, PortInv, FifoInv, OffPort, Caller, BodyLocations
  <1>2. Handed = Len(arrived) /\ Handed = built
    BY <1>1 DEF PathHyp, FifoInv, Occupied, Handed, Submitting, Unsubmitted, BodyLocations
  <1>3. built \in Nat
    BY PortAssumption DEF PathHyp, TypeOK, Numbers
  <1>4. QED
    BY <1>1, <1>2, <1>3 DEF Pending

\* A write is taken off the port only where the player has put it.
LEMMA WordTaken ==
  ASSUME PathHyp, hrx.kind # "none"
  PROVE  /\ tx = NoWord /\ rx = NoReply
         /\ hrx.kind \in {"write", "stop"} =>
              pc["fg"] = "xrecv" /\ hrx.kind = cmd
         /\ hrx.kind = "block" => Sending /\ posted /\ pc["fg"] # "xrecv"
         /\ hrx.kind = "refill" => pc["fg"] # "xrecv"
  BY DEF PathHyp, TypeOK, PcTypeOK, PortInv, InBody, Delivering, OffPort, BodyLocations, Idle, Announced,
     Commanded, Answered, Granted, Sending, Acked, Exchanging, Exchanged, NoWords, Carries, Word,
     NoWord, Reply, NoReply

\* No word comes on the port but by being sent.
LEMMA WireKept ==
  ASSUME PathHyp, UNCHANGED <<stage, arrived, words, sent, held, wire>>,
         "block" \in {tx'.kind, hrx'.kind} => "block" \in {tx.kind, hrx.kind},
         "write" \in {tx'.kind, hrx'.kind} => "write" \in {tx.kind, hrx.kind}
  PROVE  WireInv'
  BY DEF PathHyp, PathInv, WireInv, Burst, FlushWord

LEMMA PathBystander == ASSUME PathHyp, Bystander PROVE PathInv'
  <1>1. /\ UNCHANGED <<batchVars, stage, wire, chipVars, tx, hrx, rx, arrived, built>>
        /\ pc["fg"] # "xrecv" /\ pc'["fg"] # "xrecv"
    <2>1. UNCHANGED <<batchVars, stage, wire, chipVars>>
      BY DEF Bystander, ymVars
    <2>2. UNCHANGED <<tx, hrx, rx, arrived, built>> /\ pc["fg"] # "xrecv" /\ pc'["fg"] # "xrecv"
      BY DEF Bystander, StageEnd, CheckReply, SongEnds, SecondKey, WaitDone, Drain, Step, Local, At, GoTo,
         portVars, playerVars, PathHyp, TypeOK, PcTypeOK
    <2>3. QED
      BY <2>1, <2>2
  <1>2. Replied' = Replied
    BY <1>1 DEF Replied
  <1>3. OffPortInv'
    BY <1>1, <1>2, PathStill
  <1>4. WireInv'
    BY <1>1, WireKept DEF batchVars
  <1>5. QED
    BY <1>3, <1>4 DEF OffPortInv, PathInv

LEMMA PathSubmission == ASSUME PathHyp, Submission PROVE PathInv'
  <1>1. UNCHANGED <<batchVars, stage, wire, chipVars, built>>
    BY DEF Submission, ymVars, playerVars
  <1>2. /\ UNCHANGED <<hrx, rx, arrived>>
        /\ tx' = tx \/ tx'.kind = "refill"
        /\ pc["fg"] = "xrecv" <=> pc'["fg"] = "xrecv"
    <2> USE DEF At, GoTo, CallPoll, PathHyp, TypeOK, PcTypeOK
    <2>1. CASE Submit(built)
      BY <2>1 DEF Submit, SubmitTestPosted, SubmitTestQueued, Enqueue, Announce, AnnounceMark,
         SendWord, Word, portVars
    <2>2. CASE \E l \in {"loop", "build", "wait"} : PollWhilePosted(l)
      BY <2>2 DEF PollWhilePosted, portVars
    <2>3. CASE PollIrq(clock)
      <3>1. pc'["fg"] = pc["fg"]
        BY <2>3 DEF PollIrq, Contexts
      <3>2. QED
        BY <2>3, <3>1 DEF PollIrq, portVars
    <2>4. QED
      BY <2>1, <2>2, <2>3 DEF Submission
  <1>3. Replied' = Replied
    BY <1>2 DEF Replied, RXDF
  <1>4. OffPortInv'
    BY <1>1, <1>2, <1>3, PathStill
  <1>5. WireInv'
    BY <1>1, <1>2, WireKept DEF batchVars
  <1>6. QED
    BY <1>4, <1>5 DEF OffPortInv, PathInv

\* The poll body puts the announced burst on the port.
LEMMA PathDelivery == ASSUME PathHyp, Delivery PROVE PathInv'
  <1>1. PICK c \in Contexts : Body(c) /\ wire' = IF pc[c] = "send" THEN stage[Buffer(base)] ELSE wire
    BY DEF Delivery
  <1>2. UNCHANGED <<batchVars, stage, chipVars, playerVars, built>>
    BY DEF Delivery, playerVars
  <1>3. /\ UNCHANGED <<hrx, arrived>> /\ pc["fg"] # "xrecv" /\ pc'["fg"] # "xrecv"
        /\ pc[c] # "send" => tx' = tx \/ tx'.kind = "refill"
    <2>1. pc[c] \in BodyLocations /\ UNCHANGED <<hrx, arrived>>
          /\ (pc[c] # "send" => tx' = tx \/ tx'.kind = "refill")
      BY <1>1 DEF Body, PollNothing, PollReady, PollRefused, PollSend, PollAckNext, PollAckDrained,
         PollAnnounceNext, At, SendWord, TakeReply, Word, portVars, BodyLocations
    <2>2. pc["fg"] # "xrecv"
      BY <2>1 DEF PathHyp, PortInv, ContextInv, InBody, Delivering, OffPort, BodyLocations, Contexts,
         Announced, Commanded, Answered, Idle
    <2>3. Caller' = Caller /\ Caller # "xrecv" /\ Caller \notin BodyLocations
      BY <1>1, <2>2, BodyCaller DEF PathHyp, TypeOK, LinkTypeOK, Caller, BodyLocations
    <2>4. pc'["fg"] # "xrecv"
      BY <2>3 DEF Caller, BodyLocations
    <2>5. QED
      BY <2>1, <2>2, <2>4
  <1>4. OffPortInv'
    BY <1>2, <1>3, PathStill DEF Replied
  <1>5. CASE pc[c] # "send"
    <2>1. UNCHANGED <<stage, arrived, words, sent, held, wire>>
      BY <1>1, <1>2, <1>3, <1>5 DEF batchVars
    <2>2. /\ "block" \in {tx'.kind, hrx'.kind} => "block" \in {tx.kind, hrx.kind}
          /\ "write" \in {tx'.kind, hrx'.kind} => "write" \in {tx.kind, hrx.kind}
      BY <1>3, <1>5
    <2>3. WireInv'
      BY <2>1, <2>2, WireKept
    <2>4. QED
      BY <1>4, <2>3 DEF OffPortInv, PathInv
  <1>6. CASE pc[c] = "send"
    <2>1. Granted /\ posted
      BY <1>6 DEF PathHyp, PortInv, InBody, Delivering, Contexts
    <2>2. base = Len(arrived) + 1
      BY <2>1 DEF PathHyp, FifoInv, Occupied, Granted, NoReply, Reply
    <2>3. tx'.kind = "block" /\ hrx' = NoWord
      BY <1>1, <1>3, <1>6, <2>1 DEF Body, PollNothing, PollReady, PollRefused, PollSend, PollAckNext,
         PollAckDrained, PollAnnounceNext, At, SendWord, Word, Granted, NoWords
    <2>4. wire' = Burst(Len(arrived) + 1)
      BY <1>1, <1>6, <2>2 DEF Burst
    <2>5. WireInv'
      BY <1>2, <1>3, <2>3, <2>4 DEF WireInv, Burst, NoWord, Word
    <2>6. QED
      BY <1>4, <2>5 DEF OffPortInv, PathInv
  <1>7. QED
    BY <1>4, <1>5, <1>6 DEF OffPortInv, PathInv

\* Hardware that takes neither a block nor a write.
LEMMA PathHardware == ASSUME PathHyp, OtherHardware, Healthy' PROVE PathInv'
  <1>1. UNCHANGED <<pc, batchVars, stage, wire, chipVars, built, arrived>>
    <2>1. UNCHANGED <<pc, batchVars, stage, wire, chipVars, built>>
      BY DEF OtherHardware, linkVars, playerVars, ymVars
    <2>2. arrived' = arrived
      BY DEF OtherHardware, PortTransfer, Dsp, TakeRefill, RefuseRefill, SwallowCommand, StopAudio, Handoff
    <2>3. QED
      BY <2>1, <2>2
  <1>2. {tx'.kind, hrx'.kind} \subseteq {tx.kind, hrx.kind, "none"}
    BY DEF OtherHardware, PortTransfer, Dsp, TakeRefill, RefuseRefill, SwallowCommand, StopAudio, Handoff,
       Answer, NoWord, Word
  <1>3. WireInv'
    BY <1>1, <1>2, WireKept DEF batchVars
  <1>4. Replied' = Replied \/ (words = <<>> /\ held = NoWrite)
    <2>1. CASE PortTransfer \/ Handoff \/ SwallowCommand
      BY <1>1, <2>1 DEF PortTransfer, Handoff, SwallowCommand, Replied, RXDF
    <2>2. CASE TakeRefill \/ RefuseRefill
      <3>1. pc["fg"] # "xrecv"
        BY <2>2, WordTaken DEF TakeRefill, RefuseRefill, Answer
      <3>2. QED
        BY <1>1, <3>1 DEF Replied
    <2>3. CASE StopAudio
      <3>1. hrx.kind = "stop"
        BY <2>3 DEF StopAudio, Answer
      <3>2. pc["fg"] = "xrecv" /\ cmd = "stop" /\ Caller = "xrecv"
        BY <3>1, WordTaken DEF Caller, BodyLocations
      <3>3. ~active /\ held = NoWrite
        BY <3>2 DEF PathHyp, CallInv
      <3>4. QED
        BY <3>3 DEF PathHyp, BatchOrder
    <2>4. QED
      BY <2>1, <2>2, <2>3 DEF OtherHardware, Dsp
  <1>5. OffPortInv'
    BY <1>1, <1>4, PathStill
  <1>6. QED
    BY <1>3, <1>5 DEF OffPortInv, PathInv
-----------------------------------------------------------------------------
(* A new write.                                                            *)

LEMMA PathGrows ==
  ASSUME PathHyp, NEW r \in Registers, Mirrored(r),
         UNCHANGED <<active, opened, chipVars, stage, arrived, built>>,
         Flushed = {}, Flushed' = {}, ~Replied', held' \in {NoWrite, Latest + 1}
  PROVE  OffPortInv'
  <1>1. /\ Latest \in Nat /\ Latest' = Latest + 1 /\ held = NoWrite
        /\ \A n \in 1 .. Latest : written'[n] = written[n]
        /\ opened \in 0 .. Latest
    BY WriteMade DEF PathHyp, BatchInv, BatchTypeOK
  <1>2. /\ ChipInv /\ FlushInv /\ BurstInv /\ AheadInv /\ CoverInv /\ OrderInv
        /\ UNCHANGED <<active, opened, chip, keyed, late, hasty, stage, arrived, built>>
    BY DEF PathHyp, PathInv, chipVars
  <1>3. Pending' = Pending /\ \A n : Burst(n)' = Burst(n) /\ Slots(n)' = Slots(n)
    BY <1>2 DEF Pending, Burst, Slots
  <1>4. \A n \in Pending : \A k \in Slots(n) : Burst(n)[k] \in 1 .. Latest
    BY <1>1, <1>2 DEF BurstInv
  <1>5. \A w \in 1 .. Latest : Reached(w)' <=> Reached(w)
    BY <1>1, <1>2 DEF Reached
  <1>6. \A m \in Pending : \A j \in Slots(m) : \A w \in 1 .. Latest : Brings(m, j, w)' <=> Brings(m, j, w)
    BY <1>1, <1>3, <1>4 DEF Brings
  <1>7. ChipInv'
    <2>1. \A l \in Latches : chip[l] \in 0 .. Latest
      BY <1>2 DEF ChipInv
    <2>2. chip' \in [Latches -> 0 .. Latest']
      BY <1>1, <1>2, <2>1 DEF ChipInv
    <2>3. \A l \in Latches : chip'[l] # 0 => written'[chip'[l]] = l
      BY <1>1, <1>2, <2>1 DEF ChipInv
    <2>4. \A e \in keyed : e \in 1 .. Latest /\ written[e] \in Edges
      BY <1>2 DEF ChipInv
    <2>5. \A e \in keyed' : e \in 1 .. Latest' /\ written'[e] \in Edges
      BY <1>1, <1>2, <2>4
    <2>6. QED
      BY <2>2, <2>3, <2>5 DEF ChipInv
  <1>8. FlushInv'
    <2>1. Latest + 1 \notin keyed
      BY <1>1, <1>2 DEF ChipInv
    <2>2. QED
      BY <1>1, <1>2, <2>1 DEF FlushInv
  <1>9. BurstInv'
    <2>1. \A n \in Pending : \A k \in Slots(n) : written'[Burst(n)[k]] = written[Burst(n)[k]]
      BY <1>1, <1>4
    <2>2. \A n \in Pending : \A k \in Slots(n) : Burst(n)[k] # held'
      BY <1>1, <1>4 DEF NoWrite
    <2>3. QED
      BY <1>2, <1>3, <2>1, <2>2 DEF BurstInv
  <1>10. AheadInv'
    <2> SUFFICES ASSUME active, NEW n \in Pending, NEW k \in Slots(n), written'[Burst(n)[k]] \in Edges,
                        NEW w \in 1 .. Burst(n)[k] - 1, written'[w] \in Latches
                 PROVE  \/ Reached(w)'
                        \/ \E m \in Pending : \E j \in Slots(m) :
                             (m < n \/ (m = n /\ j < k)) /\ Brings(m, j, w)'
      BY <1>2, <1>3 DEF AheadInv
    <2>1. w \in 1 .. Latest /\ Burst(n)[k] \in 1 .. Latest
      BY <1>1, <1>4
    <2>2. written[Burst(n)[k]] \in Edges /\ written[w] \in Latches
      BY <1>1, <2>1
    <2>3. \/ Reached(w)
          \/ \E m \in Pending : \E j \in Slots(m) :
               (m < n \/ (m = n /\ j < k)) /\ Brings(m, j, w)
      BY <1>2, <2>2 DEF AheadInv
    <2>4. QED
      BY <1>5, <1>6, <2>1, <2>3
  <1>11. CoverInv'
    <2> SUFFICES ASSUME active, NEW w \in 1 .. opened, w # held'
                 PROVE  Reached(w)' \/ \E m \in Pending : \E j \in Slots(m) : Brings(m, j, w)'
      BY <1>2, <1>3 DEF CoverInv
    <2>1. w \in 1 .. Latest /\ w # held
      BY <1>1 DEF NoWrite
    <2>2. Reached(w) \/ \E m \in Pending : \E j \in Slots(m) : Brings(m, j, w)
      BY <1>2, <2>1 DEF CoverInv
    <2>3. QED
      BY <1>5, <1>6, <2>1, <2>2
  <1>12. OrderInv'
    BY <1>2 DEF OrderInv
  <1>13. QED
    BY <1>7, <1>8, <1>9, <1>10, <1>11, <1>12 DEF OffPortInv

\* With no flush under way the chip has taken nothing of the batch.
LEMMA NothingFlushed ==
  ASSUME BatchInv, BatchOrder, held = NoWrite \/ words = <<>>, ~Replied
  PROVE  Flushed = {}
  <1>1. sent = 0
    BY DEF BatchOrder, BatchInv, BatchTypeOK
  <1>2. QED
    BY <1>1 DEF Flushed, Done, Places

LEMMA PathPumpWrite == ASSUME PathHyp, PumpWrite, BatchInv', BatchOrder' PROVE PathInv'
  <1>1. PICK r \in Registers : BufferedWrite(r)
    BY DEF PumpWrite
  <1>2. Mirrored(r) /\ UNCHANGED <<active, held, sent, opened>> /\ held = NoWrite
    BY <1>1 DEF BufferedWrite, ReplaceSlot, AppendLatch, AppendEdge, Mirrored
  <1>3. /\ UNCHANGED <<chipVars, stage, wire, arrived, built, tx, hrx, pc, rx>>
        /\ pc["fg"] = "loop"
    BY DEF PumpWrite, ymVars, vars, portVars, linkVars, playerVars, At
  <1>4. ~Replied /\ ~Replied'
    BY <1>3 DEF Replied
  <1>5. Flushed = {} /\ Flushed' = {}
    <2>1. Flushed = {}
      BY <1>2, <1>4, NothingFlushed DEF PathHyp
    <2>2. sent' = 0 /\ Done' = 0
      BY <1>2, <1>4 DEF PathHyp, BatchOrder, Done
    <2>3. QED
      BY <2>1, <2>2 DEF Flushed, Places
  <1>6. OffPortInv'
    BY <1>2, <1>3, <1>4, <1>5, PathGrows
  <1>7. WireInv'
    <2>1. "write" \notin {tx.kind, hrx.kind}
      BY <1>3 DEF PathHyp, TypeOK, PcTypeOK, PortInv, InBody, Delivering, OffPort, BodyLocations, Idle,
         Announced, Commanded, Answered, Granted, Sending, Acked, NoWords, Carries, Word, NoWord
    <2>2. QED
      BY <1>3, <2>1 DEF PathHyp, PathInv, WireInv, Burst
  <1>8. QED
    BY <1>6, <1>7 DEF OffPortInv, PathInv

LEMMA PathFlushBegins == ASSUME PathHyp, FlushBegins PROVE PathInv'
  <1>1. PICK r \in Registers : Overflow(r)
    BY DEF FlushBegins
  <1>2. Mirrored(r) /\ held' = Latest + 1 /\ UNCHANGED <<active, words, sent, opened>> /\ held = NoWrite
    BY <1>1 DEF Overflow, Mirrored
  <1>3. /\ UNCHANGED <<chipVars, stage, wire, arrived, built, tx, hrx, rx>>
        /\ pc["fg"] = "loop" /\ pc'["fg"] # "xrecv"
    BY GoCaller DEF FlushBegins, BatchFull, Drain, Local, Step, At, BodyLocations, ymVars, portVars, PathHyp
  <1>4. ~Replied /\ ~Replied'
    BY <1>3 DEF Replied
  <1>5. Flushed = {} /\ Flushed' = {}
    <2>1. sent = 0 /\ sent' = 0 /\ Done = 0 /\ Done' = 0
      BY <1>2, <1>4 DEF PathHyp, BatchOrder, Done
    <2>2. QED
      BY <2>1 DEF Flushed, Places
  <1>6. OffPortInv'
    BY <1>2, <1>3, <1>4, <1>5, PathGrows
  <1>7. WireInv'
    <2>1. "write" \notin {tx.kind, hrx.kind}
      BY <1>3 DEF PathHyp, TypeOK, PcTypeOK, PortInv, InBody, Delivering, OffPort, BodyLocations, Idle,
         Announced, Commanded, Answered, Granted, Sending, Acked, NoWords, Carries, Word, NoWord
    <2>2. QED
      BY <1>3, <2>1 DEF PathHyp, PathInv, WireInv, Burst
  <1>8. QED
    BY <1>6, <1>7 DEF OffPortInv, PathInv

\* Where the player is about to exchange a word, the port is free.
LEMMA PortFree ==
  ASSUME PathHyp, pc["fg"] = "xsend"
  PROVE  tx = NoWord /\ hrx = NoWord /\ ~RXDF /\ ~Replied
  BY DEF PathHyp, TypeOK, PcTypeOK, PortInv, InBody, Delivering, OffPort, BodyLocations, Idle, NoWords,
     RXDF, Replied, Granted, Sending, Acked

LEMMA PathKeyOffSend == ASSUME PathHyp, KeyOffSend PROVE PathInv'
  <1>1. PICK r \in Edges : DirectWrite(r)
    BY DEF KeyOffSend
  <1>2. r \in Registers /\ Mirrored(r) /\ held' = Latest + 1 /\ UNCHANGED <<active, words, sent, opened>>
        /\ held = NoWrite /\ ~active
    BY <1>1 DEF DirectWrite, Mirrored, Registers
  <1>3. /\ UNCHANGED <<chipVars, stage, arrived, built, hrx, rx>> /\ wire' = <<Latest + 1>>
        /\ pc["fg"] = "xsend" /\ tx' = Word(cmd, 0) /\ cmd = "write"
    BY DEF KeyOffSend, ExchangeSend, Step, At, chipVars, playerVars, SendWord
  <1>4. ~Replied /\ ~Replied' /\ hrx = NoWord
    BY <1>3, PortFree DEF Replied, RXDF
  <1>5. words = <<>> /\ Flushed = {} /\ Flushed' = {}
    <2>1. words = <<>> /\ words' = <<>>
      BY <1>2 DEF PathHyp, BatchOrder
    <2>2. QED
      BY <2>1 DEF Flushed, Places
  <1>6. OffPortInv'
    BY <1>2, <1>3, <1>4, <1>5, PathGrows
  <1>7. WireInv'
    BY <1>2, <1>3, <1>4, <1>5 DEF WireInv, Word, NoWord, FlushWord
  <1>8. QED
    BY <1>6, <1>7 DEF OffPortInv, PathInv

LEMMA PathSends == ASSUME PathHyp, FlushSend \/ StopSend PROVE PathInv'
  <1>1. /\ UNCHANGED <<batchVars, chipVars, stage, arrived, built, hrx, rx>>
        /\ pc["fg"] = "xsend" /\ tx' = Word(cmd, 0)
        /\ cmd = "stop" \/ (goal = "flush" /\ wire' = <<FlushWord>>)
    BY DEF FlushSend, StopSend, ExchangeSend, Step, At, playerVars, SendWord
  <1>2. ~Replied /\ ~Replied' /\ hrx = NoWord
    BY <1>1, PortFree DEF Replied, RXDF
  <1>3. OffPortInv'
    <2>1. Replied' = Replied
      BY <1>2 DEF Replied
    <2>2. QED
      BY <1>1, <2>1, PathStill
  <1>4. WireInv'
    <2>1. FlushWord' = FlushWord
      BY <1>1 DEF FlushWord, batchVars
    <2>2. tx'.kind \in {"write", "stop"} /\ hrx'.kind = "none" /\ (tx'.kind = "stop" <=> cmd = "stop")
      BY <1>1, <1>2 DEF Word, NoWord, PathHyp, TypeOK
    <2>3. QED
      BY <1>1, <2>1, <2>2 DEF WireInv
  <1>5. QED
    BY <1>3, <1>4 DEF OffPortInv, PathInv
-----------------------------------------------------------------------------
(* The batch is opened, copied and closed.                                 *)

LEMMA PathEnable == ASSUME PathHyp, Enable PROVE PathInv'
  <1>1. /\ UNCHANGED <<written, chip, keyed, late, hasty, stage, wire, arrived, built, tx, hrx, pc, rx>>
        /\ pc["fg"] = "loop" /\ held = NoWrite /\ held' = held /\ words' = <<>> /\ ~active /\ opened' = Latest
    BY DEF Enable, BatchEnable, OpenBatch, At, ymVars, chipVars, vars, portVars, linkVars, playerVars
  <1>2. Latest = 0 /\ built = 0
    BY <1>1 DEF PathHyp, CallInv, Caller, BodyLocations
  <1>3. Latest' = 0 /\ opened' = 0 /\ Pending = {} /\ Pending' = {}
    BY <1>1, <1>2 DEF Latest, Pending, PathHyp, TypeOK, PortTypeOK
  <1>4. keyed = {} /\ keyed' = {} /\ (\A l \in Latches : chip[l] = 0)
    BY <1>1, <1>2 DEF PathHyp, PathInv, ChipInv
  <1>5. Flushed' = {}
    BY <1>1 DEF Flushed, Places
  <1>6. ChipInv'
    BY <1>1, <1>2, <1>3, <1>4 DEF PathHyp, PathInv, ChipInv
  <1>7. FlushInv'
    BY <1>1, <1>3, <1>4, <1>5 DEF FlushInv
  <1>8. BurstInv' /\ AheadInv' /\ CoverInv'
    BY <1>3 DEF BurstInv, AheadInv, CoverInv
  <1>9. WireInv'
    <2>1. {tx.kind, hrx.kind} \cap {"write"} = {}
      BY <1>1 DEF PathHyp, TypeOK, PcTypeOK, PortInv, InBody, Delivering, OffPort, BodyLocations, Idle,
         Announced, Commanded, Answered, Granted, Sending, Acked, NoWords, Carries, Word, NoWord
    <2>2. QED
      BY <1>1, <2>1 DEF PathHyp, PathInv, WireInv, Burst
  <1>10. OrderInv'
    BY <1>1, <1>4 DEF PathHyp, PathInv, OrderInv
  <1>11. QED
    BY <1>6, <1>7, <1>8, <1>9, <1>10 DEF PathInv

LEMMA PathCleanup == ASSUME PathHyp, CleanupDisables PROVE PathInv'
  <1>1. /\ UNCHANGED <<written, chip, keyed, late, hasty, stage, wire, arrived, built, tx, hrx>>
        /\ pc["fg"] = "cleanup" /\ held = NoWrite /\ held' = held /\ words' = <<>> /\ ~active'
        /\ opened' = Latest
    BY DEF CleanupDisables, Cleanup, Local, Step, BatchDisable, OpenBatch, At, ymVars, chipVars, portVars
  <1>2. Pending' = {} /\ Latest' = Latest /\ Flushed' = {}
    BY <1>1, NothingPending DEF Pending, Latest, Flushed, Places
  <1>3. ChipInv' /\ OrderInv'
    BY <1>1, <1>2 DEF PathHyp, PathInv, ChipInv, OrderInv
  <1>4. FlushInv'
    BY <1>1, <1>2 DEF FlushInv
  <1>5. BurstInv' /\ AheadInv' /\ CoverInv'
    BY <1>1, <1>2 DEF BurstInv, AheadInv, CoverInv
  <1>6. WireInv'
    <2>1. tx = NoWord /\ hrx = NoWord
      BY <1>1, NothingPending DEF PathHyp, TypeOK, PcTypeOK, PortInv, InBody, Delivering, OffPort,
         BodyLocations, Idle, NoWords
    <2>2. QED
      BY <1>1, <2>1 DEF WireInv, NoWord, Word
  <1>7. QED
    BY <1>3, <1>4, <1>5, <1>6 DEF PathInv

\* In the pump no block and no write is on the port, and the payloads staged
\* and not delivered are at most two.
LEMMA InThePump ==
  ASSUME PathHyp, At("fg", "loop")
  PROVE  /\ "write" \notin {tx.kind, hrx.kind} /\ "block" \notin {tx.kind, hrx.kind}
         /\ built \in Nat /\ Len(arrived) \in Nat /\ built <= Len(arrived) + 2 /\ built >= Len(arrived)
  <1>1. pc["fg"] = "loop" /\ pc["irq"] = "idle"
    BY DEF At
  <1>2. ~Delivering /\ (IF posted THEN Announced ELSE Idle)
    BY <1>1 DEF PathHyp, PortInv, InBody, Delivering
  <1>3. "write" \notin {tx.kind, hrx.kind} /\ "block" \notin {tx.kind, hrx.kind}
    BY <1>2 DEF Idle, Announced, Commanded, Answered, NoWords, Carries, Word, NoWord
  <1>4. built \in Nat /\ Len(arrived) \in Nat /\ base \in Nat /\ qbase \in Nat
    BY PortAssumption DEF PathHyp, TypeOK, PortTypeOK, LinkTypeOK, Numbers
  <1>5. Handed = built
    BY <1>1 DEF Handed, Submitting, Unsubmitted, BodyLocations
  <1>6. built <= Len(arrived) + 2 /\ built >= Len(arrived)
    BY <1>1, <1>4, <1>5 DEF PathHyp, FifoInv, Occupied
  <1>7. QED
    BY <1>3, <1>4, <1>6

\* The batch goes into the payload: it is behind all that is under way, and it
\* has what was written since it was opened.
LEMMA PathStageBatch == ASSUME PathHyp, StageBatch PROVE PathInv'
  <1> SUFFICES ASSUME NEW next, next = built + 1 PROVE PathInv'
    OBVIOUS
  <1>1. /\ UNCHANGED <<written, mirror, active, chip, keyed, late, hasty, wire, arrived, tx, hrx, held>>
        /\ At("fg", "loop") /\ pc["fg"] = "loop" /\ held = NoWrite /\ words' = <<>> /\ active
        /\ opened' = Latest /\ built' = next /\ stage' = [stage EXCEPT ![Buffer(next)] = words]
    BY DEF StageBatch, StageBegin, Step, BatchCopy, OpenBatch, At, chipVars, portVars
  <1>2. /\ ChipInv /\ FlushInv /\ BurstInv /\ AheadInv /\ CoverInv /\ OrderInv
        /\ BatchTypeOK /\ SlotsCurrent /\ BatchComplete /\ VoiceAheadOfKey /\ BatchAux /\ BatchOrder
    BY DEF PathHyp, PathInv, BatchInv
  <1>3. /\ built \in Nat /\ Len(arrived) \in Nat /\ built <= Len(arrived) + 2
        /\ "write" \notin {tx.kind, hrx.kind} /\ "block" \notin {tx.kind, hrx.kind}
    BY <1>1, InThePump
  <1>4. Latest \in Nat /\ opened \in 0 .. Latest /\ Latest' = Latest /\ Len(words) \in Nat
    BY <1>1, <1>2 DEF BatchTypeOK, Latest
  <1>5. Flushed = {} /\ Flushed' = {}
    <2>1. ~Replied
      BY <1>1 DEF Replied
    <2>2. Flushed = {}
      BY <1>1, <2>1, NothingFlushed DEF PathHyp
    <2>3. Flushed' = {}
      BY <1>1 DEF Flushed, Places
    <2>4. QED
      BY <2>2, <2>3
  <1>6. Pending' = Pending \cup {next} /\ \A m \in Pending : m < next /\ m \in Nat \ {0}
    <2>1. Pending' = Len(arrived) + 1 .. built + 1 /\ Len(arrived) < built + 1
      <3>1. built >= Len(arrived)
        BY <1>1, InThePump
      <3>2. QED
        BY <1>1, <1>3, <3>1 DEF Pending
    <2>2. \A m : m \in Len(arrived) + 1 .. built + 1 <=> m \in Len(arrived) + 1 .. built \/ m = built + 1
      BY <1>3, <2>1
    <2>3. Pending' = Pending \cup {next}
      BY <2>1, <2>2 DEF Pending
    <2>4. \A m \in Pending : m < next /\ m \in Nat \ {0}
      BY <1>3 DEF Pending
    <2>5. QED
      BY <2>3, <2>4
  <1>7. /\ \A m \in Pending : Burst(m)' = Burst(m) /\ Slots(m)' = Slots(m)
        /\ Burst(next)' = words /\ Slots(next)' = Places
    <2>1. Buffer(next) \in 0 .. StageBuffers - 1 /\ stage \in [0 .. StageBuffers - 1 -> Seq(Nat)]
      BY <1>3, BufferRange DEF PathHyp
    <2>2. \A m \in Pending : Buffer(m) # Buffer(next) /\ Buffer(m) \in 0 .. StageBuffers - 1
      BY <1>3, <1>6 DEF Pending, Buffer, StageBuffers
    <2>3. \A m \in Pending : Burst(m)' = Burst(m)
      BY <1>1, <2>1, <2>2 DEF Burst
    <2>4. Burst(next)' = words
      BY <1>1, <2>1 DEF Burst
    <2>5. QED
      BY <2>3, <2>4 DEF Slots, Places
  <1>8. \A w : Reached(w)' <=> Reached(w)
    BY <1>1 DEF Reached
  <1>9. \A m \in Pending : \A j, w : Brings(m, j, w)' <=> Brings(m, j, w)
    BY <1>1, <1>7 DEF Brings
  <1>10. \A n \in Pending : \A k \in Slots(n) : Burst(n)[k] \in 1 .. opened
    BY <1>2 DEF BurstInv
  <1>11. \A k \in Places : words[k] \in 1 .. Latest /\ words[k] > opened
    BY <1>2 DEF BatchTypeOK, BatchOrder, Places
  <1>12. \A l \in Latches : chip[l] <= opened /\ chip[l] \in Nat
    BY <1>1, <1>2, <1>4, <1>5 DEF FlushInv, ChipInv
  <1>13. \A e \in keyed : e <= opened /\ e \in Nat
    BY <1>1, <1>2, <1>4, <1>5 DEF FlushInv, ChipInv
  <1>20. ChipInv' /\ OrderInv'
    BY <1>1, <1>2, <1>4 DEF ChipInv, OrderInv
  <1>21. FlushInv'
    BY <1>1, <1>4, <1>5, <1>12, <1>13 DEF FlushInv
  <1>22. BurstInv'
    <2>1. ASSUME NEW n \in Pending, NEW k \in Slots(n)
          PROVE  /\ Burst(n)[k] \in 1 .. Latest /\ Burst(n)[k] # held
                 /\ \A l \in Latches : chip[l] < Burst(n)[k]
                 /\ \A e \in keyed : e < Burst(n)[k]
      BY <1>2, <1>4, <1>10 DEF BurstInv
    <2>2. ASSUME NEW n \in Pending, NEW k \in Slots(n), NEW m \in Pending', m < n, NEW j \in Slots(m)'
          PROVE  Burst(m)'[j] < Burst(n)[k]
      <3>1. m \in Pending
        BY <1>6, <2>2
      <3>2. QED
        BY <1>2, <1>7, <2>2, <3>1 DEF BurstInv
    <2>3. ASSUME NEW n \in Pending, NEW k \in Slots(n), NEW j \in Slots(n)
          PROVE  /\ written[Burst(n)[j]] \in Latches /\ written[Burst(n)[j]] = written[Burst(n)[k]]
                      => j = k
                 /\ j < k /\ written[Burst(n)[j]] \in Edges /\ written[Burst(n)[k]] \in Edges
                      => Burst(n)[j] < Burst(n)[k]
      BY <1>2 DEF BurstInv
    <2>4. ASSUME NEW k \in Places
          PROVE  /\ words[k] \in 1 .. Latest /\ words[k] # held
                 /\ \A l \in Latches : chip[l] < words[k]
                 /\ \A e \in keyed : e < words[k]
      BY <1>1, <1>4, <1>11, <1>12, <1>13 DEF NoWrite
    <2>5. ASSUME NEW k \in Places, NEW m \in Pending', m < next, NEW j \in Slots(m)'
          PROVE  Burst(m)'[j] < words[k]
      <3>1. m \in Pending
        BY <1>3, <1>6, <2>5
      <3>2. Burst(m)'[j] \in 1 .. opened
        BY <1>7, <1>10, <3>1
      <3>3. QED
        BY <1>4, <1>11, <3>2
    <2>6. ASSUME NEW k \in Places, NEW j \in Places
          PROVE  /\ written[words[j]] \in Latches /\ written[words[j]] = written[words[k]] => j = k
                 /\ j < k /\ written[words[j]] \in Edges /\ written[words[k]] \in Edges
                      => words[j] < words[k]
      BY <1>2 DEF SlotsCurrent, BatchOrder, Target
    <2>7. ASSUME NEW n \in Pending', NEW k \in Slots(n)'
          PROVE  /\ Burst(n)'[k] \in 1 .. opened' /\ Burst(n)'[k] # held'
                 /\ \A l \in Latches : chip'[l] < Burst(n)'[k]
                 /\ \A e \in keyed' : e < Burst(n)'[k]
                 /\ \A m \in Pending' : m < n => \A j \in Slots(m)' : Burst(m)'[j] < Burst(n)'[k]
                 /\ \A j \in Slots(n)' :
                      /\ written'[Burst(n)'[j]] \in Latches /\ written'[Burst(n)'[j]] = written'[Burst(n)'[k]]
                           => j = k
                      /\ j < k /\ written'[Burst(n)'[j]] \in Edges /\ written'[Burst(n)'[k]] \in Edges
                           => Burst(n)'[j] < Burst(n)'[k]
      <3>1. CASE n \in Pending
        BY <1>1, <1>7, <2>1, <2>2, <2>3, <3>1
      <3>2. CASE n = next
        BY <1>1, <1>7, <2>4, <2>5, <2>6, <3>2
      <3>3. QED
        BY <1>6, <3>1, <3>2
    <2>8. QED
      BY <2>7 DEF BurstInv
  <1>23. AheadInv'
    <2> SUFFICES ASSUME NEW n \in Pending', NEW k \in Slots(n)', written'[Burst(n)'[k]] \in Edges,
                        NEW w \in 1 .. Burst(n)'[k] - 1, written'[w] \in Latches
                 PROVE  \/ Reached(w)'
                        \/ \E m \in Pending' : \E j \in Slots(m)' :
                             (m < n \/ (m = n /\ j < k)) /\ Brings(m, j, w)'
      BY DEF AheadInv
    <2>1. CASE n \in Pending
      <3>1. /\ k \in Slots(n) /\ written[Burst(n)[k]] \in Edges /\ w \in 1 .. Burst(n)[k] - 1
            /\ written[w] \in Latches
        BY <1>1, <1>7, <2>1
      <3>2. \/ Reached(w)
            \/ \E m \in Pending : \E j \in Slots(m) :
                 (m < n \/ (m = n /\ j < k)) /\ Brings(m, j, w)
        BY <1>1, <1>2, <2>1, <3>1 DEF AheadInv
      <3>3. QED
        BY <1>6, <1>7, <1>8, <1>9, <3>2
    <2>2. CASE n = next
      <3>1. k \in Places /\ Target(k) \in Edges /\ w \in 1 .. words[k] - 1 /\ written[w] \in Latches
        BY <1>1, <1>7, <2>2 DEF Target
      <3>2. CASE w <= opened
        <4>1. w \in 1 .. opened /\ w # held
          BY <1>1, <1>4, <1>11, <3>1, <3>2 DEF NoWrite
        <4>2. Reached(w) \/ \E m \in Pending : \E j \in Slots(m) : Brings(m, j, w)
          BY <1>1, <1>2, <4>1 DEF CoverInv
        <4>3. QED
          BY <1>6, <1>7, <1>8, <1>9, <2>2, <4>2
      <3>3. CASE w > opened
        <4>1. w \in opened + 1 .. words[k] - 1
          BY <1>4, <1>11, <3>1, <3>3
        <4>2. PICK j \in 1 .. k - 1 : Target(j) = written[w] /\ words[j] >= w
          BY <1>1, <1>2, <3>1, <4>1 DEF VoiceAheadOfKey
        <4>3. j \in Places /\ j < k
          BY <1>4, <3>1 DEF Places
        <4>4. Brings(next, j, w)'
          BY <1>1, <1>7, <3>1, <4>2, BatchAssumption DEF Brings, Target
        <4>5. QED
          BY <1>6, <1>7, <2>2, <4>3, <4>4
      <3>4. QED
        BY <1>4, <1>11, <3>1, <3>2, <3>3
    <2>3. QED
      BY <1>6, <2>1, <2>2
  <1>24. CoverInv'
    <2> SUFFICES ASSUME NEW w \in 1 .. Latest
                 PROVE  Reached(w)' \/ \E m \in Pending' : \E j \in Slots(m)' : Brings(m, j, w)'
      BY <1>1 DEF CoverInv
    <2>1. CASE w <= opened
      <3>1. w \in 1 .. opened /\ w # held
        BY <1>1, <1>4, <2>1 DEF NoWrite
      <3>2. Reached(w) \/ \E m \in Pending : \E j \in Slots(m) : Brings(m, j, w)
        BY <1>1, <1>2, <3>1 DEF CoverInv
      <3>3. QED
        BY <1>6, <1>7, <1>8, <1>9, <3>2
    <2>2. CASE w > opened
      <3>1. w \in opened + 1 .. Latest /\ w # held
        BY <1>1, <1>4, <2>2 DEF NoWrite
      <3>2. PICK k \in Places : words[k] = IF written[w] \in Edges THEN w ELSE mirror[written[w]]
        BY <1>1, <1>2, <3>1 DEF BatchComplete
      <3>3. written[words[k]] = written[w] /\ words[k] >= w /\ (written[w] \in Edges => words[k] = w)
        <4>1. CASE written[w] \in Edges
          BY <3>2, <4>1
        <4>2. CASE written[w] \notin Edges
          <5>1. written[w] \in Latches
            BY <4>2, WrittenKind DEF PathHyp, Registers
          <5>2. mirror[written[w]] >= w /\ mirror[written[w]] \in Nat
            BY <1>2, <1>4, <5>1 DEF BatchAux, BatchTypeOK
          <5>3. QED
            BY <1>2, <3>2, <4>2, <5>1, <5>2 DEF BatchAux
        <4>3. QED
          BY <4>1, <4>2
      <3>4. Brings(next, k, w)'
        BY <1>1, <1>7, <3>3 DEF Brings
      <3>5. QED
        BY <1>6, <1>7, <3>4
    <2>3. QED
      BY <1>4, <2>1, <2>2
  <1>25. WireInv'
    BY <1>1, <1>3 DEF WireInv
  <1>26. QED
    BY <1>20, <1>21, <1>22, <1>23, <1>24, <1>25 DEF PathInv
-----------------------------------------------------------------------------
(* The replies to the exchanged words.                                     *)

\* A reply the player reads leaves the port empty.
LEMMA ReplyRead ==
  ASSUME PathHyp, At("fg", "xrecv"), TakeReply
  PROVE  /\ Replied /\ tx = NoWord /\ hrx = NoWord /\ Pending = {}
         /\ UNCHANGED <<tx, hrx, arrived>>
  <1>1. pc["fg"] = "xrecv" /\ RXDF /\ UNCHANGED <<tx, hrx, arrived>>
    BY DEF At, TakeReply
  <1>2. tx = NoWord /\ hrx = NoWord
    BY <1>1 DEF PathHyp, PortInv, Exchanging, Exchanged, NoWords, RXDF
  <1>3. QED
    BY <1>1, <1>2, NothingPending DEF Replied

\* Behind the last word of a full batch all that was written but the held write
\* has left.
LEMMA PathReply ==
  ASSUME PathHyp, FlushNext, Replied, ~Replied', Pending = {}, tx' = NoWord, hrx' = NoWord,
         UNCHANGED <<chip, keyed, late, hasty, stage, arrived, built>>
  PROVE  PathInv'
  <1>1. /\ ChipInv /\ FlushInv /\ CoverInv /\ OrderInv
        /\ BatchTypeOK /\ BatchComplete /\ BatchAux /\ BatchOrder
    BY DEF PathHyp, PathInv, BatchInv
  <1>2. UNCHANGED <<written, mirror, active>> /\ held # NoWrite /\ sent \in Nat
    BY <1>1 DEF FlushNext, BatchTypeOK
  <1>3. /\ Latest \in Nat /\ opened \in 0 .. Latest /\ Latest' = Latest /\ Len(words) \in Nat
        /\ words \in Seq(Nat)
    BY <1>1, <1>2 DEF BatchTypeOK, Latest
  <1>4. Done = sent + 1 /\ Done' = sent' /\ Pending' = {}
    BY DEF Done, Pending
  <1>5. ChipInv' /\ OrderInv'
    BY <1>1, <1>2, <1>3 DEF ChipInv, OrderInv
  <1>6. BurstInv' /\ AheadInv' /\ WireInv'
    BY <1>4 DEF BurstInv, AheadInv, WireInv, NoWord, Word
  <1>7. \A w : Reached(w)' <=> Reached(w)
    BY <1>2 DEF Reached
  <1>8. active => \A w \in 1 .. opened : w # held => Reached(w)
    BY <1>1 DEF CoverInv
  <1>9. FlushInv' /\ CoverInv'
    <2>1. CASE sent + 1 < Len(words)
      <3>1. sent' = sent + 1 /\ UNCHANGED <<words, held, opened>> /\ words # <<>>
        BY <1>2, <1>3, <2>1 DEF FlushNext
      <3>2. Flushed' = Flushed
        BY <1>4, <3>1 DEF Flushed, Places
      <3>3. FlushInv'
        BY <1>1, <1>2, <1>7, <3>1, <3>2 DEF FlushInv
      <3>4. CoverInv'
        BY <1>2, <1>7, <1>8, <3>1 DEF CoverInv
      <3>5. QED
        BY <3>3, <3>4
    <2>2. CASE ~(sent + 1 < Len(words)) /\ words # <<>>
      <3>1. words' = <<>> /\ sent' = 0 /\ opened' = Latest /\ held' = held
        BY <2>2 DEF FlushNext
      <3>2. Flushed' = {}
        BY <3>1 DEF Flushed, Places
      <3>3. FlushInv'
        <4>1. \A l \in Latches : chip'[l] <= opened'
          BY <1>3, <3>1, <1>1 DEF ChipInv
        <4>2. \A e \in keyed' : e <= opened'
          BY <1>3, <3>1, <1>1 DEF ChipInv
        <4>3. held \notin keyed
          BY <1>1, <1>2, <2>2 DEF FlushInv
        <4>4. QED
          BY <3>1, <3>2, <4>1, <4>2, <4>3 DEF FlushInv
      <3>4. CoverInv'
        <4> SUFFICES ASSUME active, NEW w \in 1 .. Latest, w # held PROVE Reached(w)
          BY <1>2, <1>7, <3>1 DEF CoverInv
        <4>1. CASE w <= opened
          <5>1. w \in 1 .. opened
            BY <1>3, <4>1
          <5>2. QED
            BY <1>8, <5>1
        <4>2. CASE w > opened
          <5>1. w \in opened + 1 .. Latest
            BY <1>3, <4>2
          <5>2. PICK k \in Places : words[k] = IF written[w] \in Edges THEN w ELSE mirror[written[w]]
            BY <1>1, <5>1 DEF BatchComplete
          <5>3. words[k] \in Flushed
            BY <1>2, <1>3, <1>4, <2>2 DEF Flushed, Places
          <5>4. Reached(words[k])
            BY <1>1, <5>3 DEF FlushInv
          <5>5. CASE written[w] \in Edges
            BY <5>2, <5>4, <5>5
          <5>6. CASE written[w] \notin Edges
            <6>1. written[w] \in Latches
              BY <5>6, WrittenKind DEF PathHyp, Registers
            <6>2. mirror[written[w]] >= w /\ mirror[written[w]] \in Nat /\ written[mirror[written[w]]] = written[w]
              BY <1>1, <1>3, <6>1 DEF BatchAux, BatchTypeOK
            <6>3. chip[written[w]] >= mirror[written[w]] /\ chip[written[w]] \in Nat
              BY <1>1, <1>3, <5>2, <5>4, <5>6, <6>1, <6>2 DEF Reached, ChipInv
            <6>4. chip[written[w]] >= w
              BY <6>2, <6>3
            <6>5. QED
              BY <5>6, <6>4 DEF Reached
          <5>7. QED
            BY <5>5, <5>6
        <4>3. QED
          BY <1>3, <4>1, <4>2
      <3>5. QED
        BY <3>3, <3>4
    <2>3. CASE words = <<>>
      <3>1. held' = NoWrite /\ UNCHANGED <<words, sent, opened>>
        BY <1>2, <2>3 DEF FlushNext
      <3>2. Flushed' = {} /\ Flushed = {}
        BY <2>3, <3>1 DEF Flushed, Places
      <3>3. FlushInv'
        BY <1>1, <1>2, <3>1, <3>2 DEF FlushInv
      <3>4. Reached(held)
        BY <1>1, <1>2, <2>3 DEF FlushInv
      <3>5. CoverInv'
        BY <1>2, <1>7, <1>8, <3>1, <3>4 DEF CoverInv
      <3>6. QED
        BY <3>3, <3>5
    <2>4. QED
      BY <2>1, <2>2, <2>3
  <1>10. QED
    BY <1>5, <1>6, <1>9 DEF PathInv

LEMMA PathReplies == ASSUME PathHyp, FlushReply \/ KeyOffReply PROVE PathInv'
  <1>1. /\ FlushNext /\ UNCHANGED <<chip, keyed, late, hasty, stage, wire, built>>
        /\ At("fg", "xrecv") /\ TakeReply /\ pc'["fg"] # "xrecv"
    <2>1. FlushNext /\ UNCHANGED <<chip, keyed, late, hasty, stage, wire>>
      BY DEF FlushReply, KeyOffReply, ymVars, chipVars
    <2>2. ExchangeLast \/ ExchangeMore
      BY DEF FlushReply, KeyOffReply
    <2>3. QED
      BY <2>1, <2>2 DEF ExchangeLast, ExchangeMore, Step, GoTo, playerVars, PathHyp, TypeOK, PcTypeOK, Contexts
  <1>2. /\ Replied /\ tx' = NoWord /\ hrx' = NoWord /\ Pending = {} /\ UNCHANGED arrived
    BY <1>1, ReplyRead
  <1>3. ~Replied'
    BY <1>1 DEF Replied
  <1>4. QED
    BY <1>1, <1>2, <1>3, PathReply

LEMMA PathStopReply == ASSUME PathHyp, StopReply PROVE PathInv'
  <1>1. /\ UNCHANGED <<batchVars, chipVars, stage, wire, built>>
        /\ At("fg", "xrecv") /\ TakeReply /\ cmd = "stop"
    BY DEF StopReply, ExchangeLast, Step, ymVars, batchVars
  <1>2. UNCHANGED arrived /\ tx' = NoWord /\ hrx' = NoWord
    BY <1>1, ReplyRead
  <1>3. ~active /\ held = NoWrite
    BY <1>1 DEF PathHyp, CallInv, Caller, At, BodyLocations
  <1>4. words = <<>>
    BY <1>3 DEF PathHyp, BatchOrder
  <1>5. OffPortInv'
    BY <1>1, <1>2, <1>3, <1>4, PathStill
  <1>6. WireInv'
    BY <1>2 DEF WireInv, NoWord, Word
  <1>7. QED
    BY <1>5, <1>6 DEF OffPortInv, PathInv
-----------------------------------------------------------------------------
(* The DSP takes a word.                                                   *)

\* A write made up for has reached the chip once the burst has been applied.
LEMMA BringsReached ==
  ASSUME BatchInv, ChipInv, NEW ws, Fits(ws), Apply(ws), UNCHANGED written,
         NEW w \in 1 .. Latest, NEW j \in 1 .. Len(ws),
         written[ws[j]] = written[w], ws[j] >= w, written[w] \in Edges => ws[j] = w
  PROVE  Reached(w)'
  <1>1. Reached(ws[j])' /\ ChipInv'
    BY AppliesReached
  <1>2. CASE written[w] \in Edges
    BY <1>1, <1>2
  <1>3. CASE written[w] \notin Edges
    <2>1. written[w] \in Latches /\ ws[j] \in Nat /\ w \in Nat /\ Latest \in Nat /\ Latest' = Latest
      BY <1>3, WrittenKind DEF Registers, Fits, Latest
    <2>2. chip'[written[w]] \in Nat
      BY <1>1, <2>1 DEF ChipInv
    <2>3. chip'[written[w]] >= ws[j]
      BY <1>1, <1>3 DEF Reached
    <2>4. chip'[written[w]] >= w
      BY <2>1, <2>2, <2>3
    <2>5. QED
      BY <1>3, <2>4 DEF Reached
  <1>4. QED
    BY <1>2, <1>3

\* The block on the port is the burst of the first payload not yet delivered.
LEMMA BlockFits ==
  ASSUME PathHyp, hrx.kind = "block"
  PROVE  /\ wire = Burst(Len(arrived) + 1) /\ Len(arrived) + 1 \in Pending
         /\ Fits(wire) /\ (active => Prepared(wire))
         /\ Len(arrived) \in Nat /\ built \in Nat
  <1> SUFFICES ASSUME NEW first, first = Len(arrived) + 1
               PROVE  /\ wire = Burst(first) /\ first \in Pending
                      /\ Fits(wire) /\ (active => Prepared(wire))
                      /\ Len(arrived) \in Nat /\ built \in Nat
    OBVIOUS
  <1>1. posted /\ Sending
    BY WordTaken
  <1>2. wire = Burst(first)
    BY DEF PathHyp, PathInv, WireInv
  <1>3. Len(arrived) \in Nat /\ built \in Nat /\ base \in Nat
    BY PortAssumption DEF PathHyp, TypeOK, PortTypeOK, LinkTypeOK, Numbers
  <1>4. base = first
    BY <1>1 DEF PathHyp, FifoInv, Occupied, Sending, NoReply, Reply
  <1>5. first <= built
    BY <1>1, <1>3, <1>4 DEF PathHyp, FifoInv, Occupied, Handed
  <1>6. first \in Pending
    BY <1>3, <1>5 DEF Pending
  <1>7. Len(wire) \in Nat
    <2>1. Buffer(first) \in 0 .. StageBuffers - 1
      BY <1>3, BufferRange
    <2>2. QED
      BY <1>2, <2>1 DEF PathHyp, Burst
  <1>8. 1 .. Len(wire) = Slots(first) /\ opened \in 0 .. Latest /\ Latest \in Nat
    BY <1>2, WrittenKind DEF Slots, PathHyp, BatchInv, BatchTypeOK
  <1>9. ASSUME NEW k \in 1 .. Len(wire)
        PROVE  /\ wire[k] \in 1 .. Latest
               /\ written[wire[k]] \in Latches => chip[written[wire[k]]] <= wire[k]
               /\ written[wire[k]] \in Edges => \A e \in keyed : e < wire[k]
               /\ \A j \in 1 .. Len(wire) :
                    /\ written[wire[j]] \in Latches /\ written[wire[j]] = written[wire[k]] => j = k
                    /\ j < k /\ written[wire[j]] \in Edges /\ written[wire[k]] \in Edges
                         => wire[j] < wire[k]
    <2>1. /\ wire[k] \in 1 .. opened
          /\ \A l \in Latches : chip[l] < wire[k]
          /\ \A e \in keyed : e < wire[k]
          /\ \A j \in 1 .. Len(wire) :
               /\ written[wire[j]] \in Latches /\ written[wire[j]] = written[wire[k]] => j = k
               /\ j < k /\ written[wire[j]] \in Edges /\ written[wire[k]] \in Edges
                    => wire[j] < wire[k]
      BY <1>2, <1>6, <1>8 DEF PathHyp, PathInv, BurstInv
    <2>2. wire[k] \in 1 .. Latest
      BY <1>8, <2>1
    <2>3. \A l \in Latches : chip[l] \in Nat
      BY <1>8 DEF PathHyp, PathInv, ChipInv
    <2>4. written[wire[k]] \in Latches => chip[written[wire[k]]] <= wire[k]
      BY <2>1, <2>2, <2>3
    <2>5. QED
      BY <2>1, <2>2, <2>4
  <1>10. ASSUME active PROVE Prepared(wire)
    <2> SUFFICES ASSUME NEW k \in 1 .. Len(wire), written[wire[k]] \in Edges,
                        NEW w \in 1 .. wire[k] - 1, written[w] \in Latches
                 PROVE  \/ Reached(w)
                        \/ \E j \in 1 .. k - 1 : written[wire[j]] = written[w] /\ wire[j] >= w
      BY DEF Prepared
    <2>1. \/ Reached(w)
          \/ \E m \in Pending : \E j \in Slots(m) :
               (m < first \/ (m = first /\ j < k)) /\ Brings(m, j, w)
      BY <1>2, <1>6, <1>8, <1>10 DEF PathHyp, PathInv, AheadInv
    <2>2. \A m \in Pending : ~(m < first)
      BY <1>3 DEF Pending
    <2>3. \A j \in Slots(first) : j < k => j \in 1 .. k - 1
      BY <1>7, <1>8
    <2>4. QED
      BY <1>2, <2>1, <2>2, <2>3 DEF Brings
  <1>11. QED
    BY <1>2, <1>3, <1>6, <1>7, <1>9, <1>10 DEF Fits

LEMMA PathTakeBlock == ASSUME PathHyp, TakeBlock, Taken PROVE PathInv'
  <1> SUFFICES ASSUME NEW first, first = Len(arrived) + 1 PROVE PathInv'
    OBVIOUS
  <1>1. /\ UNCHANGED <<linkVars, playerVars, batchVars, stage, wire>> /\ Apply(wire)
        /\ hrx.kind = "block" /\ hrx' = NoWord /\ tx' = tx
    BY DEF Taken, TakeBlock, Answer
  <1>2. /\ UNCHANGED <<written, active, words, sent, opened, held, pc, built, stage>>
        /\ Latest' = Latest
    BY <1>1 DEF linkVars, playerVars, batchVars, Latest
  <1>3. /\ ChipInv /\ FlushInv /\ BurstInv /\ AheadInv /\ CoverInv /\ OrderInv
        /\ BatchInv /\ BatchTypeOK /\ BatchOrder
    BY DEF PathHyp, PathInv, BatchInv
  <1>4. /\ wire = Burst(first) /\ first \in Pending /\ Fits(wire) /\ (active => Prepared(wire))
        /\ Len(arrived) \in Nat /\ built \in Nat
    BY <1>1, BlockFits
  <1>5. tx = NoWord /\ pc["fg"] # "xrecv"
    BY <1>1, WordTaken
  <1>6. Len(arrived') = first
    BY <1>4 DEF TakeBlock, PathHyp, TypeOK, PortTypeOK, Numbers
  <1>7. /\ \A m : m \in Pending' <=> m \in Pending /\ m # first
        /\ \A m \in Pending' : first < m
    BY <1>2, <1>4, <1>6 DEF Pending
  <1>8. \A m : Burst(m)' = Burst(m) /\ Slots(m)' = Slots(m)
    BY <1>2 DEF Burst, Slots
  <1>9. \A m, j, w : Brings(m, j, w)' <=> Brings(m, j, w)
    BY <1>2, <1>8 DEF Brings
  <1>10. Flushed' = Flushed /\ ~Replied /\ ~Replied'
    BY <1>2, <1>5 DEF Flushed, Done, Replied, Places
  <1>11. Latest \in Nat /\ opened \in 0 .. Latest
    BY <1>3, WrittenKind DEF BatchTypeOK
  <1>12. /\ ChipInv'
         /\ \A n \in 1 .. Latest : Reached(n) => Reached(n)'
    BY <1>1, <1>2, <1>3, <1>4, AppliesReached
  <1>13. \A w \in 1 .. Latest : \A j \in Slots(first) : Brings(first, j, w) => Reached(w)'
    BY <1>1, <1>2, <1>3, <1>4, BringsReached DEF Brings, Slots
  <1>14. OrderInv' /\ keyed' = keyed \cup {wire[k] : k \in EdgesIn(wire)}
    BY <1>1, <1>2, <1>3, <1>4, AppliesEdges
  <1>15. \A e \in keyed' : e \in keyed \/ \E k \in Slots(first) : e = wire[k]
    BY <1>4, <1>14 DEF EdgesIn, Slots
  <1>16. \A l \in Latches : chip'[l] = chip[l] \/ \E k \in Slots(first) : chip'[l] = wire[k]
    BY <1>1, <1>2, <1>3, <1>4, AppliesLatches DEF Slots
  <1>17. \A k \in Slots(first) : wire[k] \in 1 .. opened /\ wire[k] # held
    BY <1>3, <1>4 DEF BurstInv
  <1>20. FlushInv'
    <2>1. ASSUME active, NEW l \in Latches PROVE chip'[l] <= opened \/ chip'[l] \in Flushed
      <3>1. CASE chip'[l] = chip[l]
        BY <1>3, <2>1, <3>1 DEF FlushInv
      <3>2. CASE chip'[l] # chip[l]
        BY <1>11, <1>16, <1>17, <3>2
      <3>3. QED
        BY <3>1, <3>2
    <2>2. ASSUME active, NEW e \in keyed' PROVE e <= opened \/ e \in Flushed
      <3>1. CASE e \in keyed
        BY <1>3, <2>2, <3>1 DEF FlushInv
      <3>2. CASE e \notin keyed
        BY <1>11, <1>15, <1>17, <3>2
      <3>3. QED
        BY <3>1, <3>2
    <2>3. \A n \in Flushed : Reached(n)'
      <3>1. \A n \in Flushed : n \in 1 .. Latest
        BY <1>3 DEF Flushed, Places, BatchTypeOK
      <3>2. QED
        BY <1>3, <1>12, <3>1 DEF FlushInv
    <2>4. held # NoWrite => held \notin keyed'
      BY <1>3, <1>10, <1>15, <1>17 DEF FlushInv
    <2>5. QED
      BY <1>2, <1>10, <2>1, <2>2, <2>3, <2>4 DEF FlushInv
  <1>21. BurstInv'
    <2> SUFFICES ASSUME NEW n \in Pending', NEW k \in Slots(n)
                 PROVE  /\ \A l \in Latches : chip'[l] < Burst(n)[k]
                        /\ \A e \in keyed' : e < Burst(n)[k]
      <3>1. Pending' \subseteq Pending
        BY <1>7
      <3>2. QED
        BY <1>2, <1>3, <1>8, <3>1 DEF BurstInv
    <2>1. n \in Pending /\ first \in Pending /\ first < n
      BY <1>4, <1>7
    <2>2. /\ \A l \in Latches : chip[l] < Burst(n)[k]
          /\ \A e \in keyed : e < Burst(n)[k]
          /\ \A j \in Slots(first) : wire[j] < Burst(n)[k]
      BY <1>3, <1>4, <2>1 DEF BurstInv
    <2>3. QED
      BY <1>15, <1>16, <2>2
  <1>22. AheadInv'
    <2> SUFFICES ASSUME active, NEW n \in Pending', NEW k \in Slots(n), written[Burst(n)[k]] \in Edges,
                        NEW w \in 1 .. Burst(n)[k] - 1, written[w] \in Latches
                 PROVE  \/ Reached(w)'
                        \/ \E m \in Pending' : \E j \in Slots(m) :
                             (m < n \/ (m = n /\ j < k)) /\ Brings(m, j, w)
      BY <1>2, <1>8, <1>9 DEF AheadInv
    <2>1. n \in Pending /\ Burst(n)[k] \in 1 .. opened
      BY <1>3, <1>7 DEF BurstInv
    <2>2. w \in 1 .. Latest
      BY <1>11, <2>1
    <2>3. \/ Reached(w)
          \/ \E m \in Pending : \E j \in Slots(m) :
               (m < n \/ (m = n /\ j < k)) /\ Brings(m, j, w)
      BY <1>3, <2>1 DEF AheadInv
    <2>4. CASE Reached(w)
      BY <1>12, <2>2, <2>4
    <2>5. CASE \E m \in Pending : \E j \in Slots(m) : (m < n \/ (m = n /\ j < k)) /\ Brings(m, j, w)
      <3>1. PICK m \in Pending : \E j \in Slots(m) : (m < n \/ (m = n /\ j < k)) /\ Brings(m, j, w)
        BY <2>5
      <3>2. CASE m = first
        BY <1>13, <2>2, <3>1, <3>2
      <3>3. CASE m # first
        BY <1>7, <3>1, <3>3
      <3>4. QED
        BY <3>2, <3>3
    <2>6. QED
      BY <2>3, <2>4, <2>5
  <1>23. CoverInv'
    <2> SUFFICES ASSUME active, NEW w \in 1 .. opened, w # held
                 PROVE  Reached(w)' \/ \E m \in Pending' : \E j \in Slots(m) : Brings(m, j, w)
      BY <1>2, <1>8, <1>9 DEF CoverInv
    <2>1. w \in 1 .. Latest
      BY <1>11
    <2>2. Reached(w) \/ \E m \in Pending : \E j \in Slots(m) : Brings(m, j, w)
      BY <1>3 DEF CoverInv
    <2>3. CASE Reached(w)
      BY <1>12, <2>1, <2>3
    <2>4. CASE \E m \in Pending : \E j \in Slots(m) : Brings(m, j, w)
      <3>1. PICK m \in Pending : \E j \in Slots(m) : Brings(m, j, w)
        BY <2>4
      <3>2. CASE m = first
        BY <1>13, <2>1, <3>1, <3>2
      <3>3. CASE m # first
        BY <1>7, <3>1, <3>3
      <3>4. QED
        BY <3>2, <3>3
    <2>5. QED
      BY <2>2, <2>3, <2>4
  <1>24. WireInv'
    BY <1>1, <1>5 DEF WireInv, NoWord, Word
  <1>25. QED
    BY <1>12, <1>14, <1>20, <1>21, <1>22, <1>23, <1>24 DEF PathInv

\* A word of one write.
LEMMA OneWord ==
  ASSUME NEW f \in 1 .. Latest, written[f] \in Latches => chip[written[f]] <= f,
         written[f] \in Edges => \A e \in keyed : e < f
  PROVE  /\ Fits(<<f>>)
         /\ Prepared(<<f>>) <=> (written[f] \in Edges =>
              \A w \in 1 .. f - 1 : written[w] \in Latches => Reached(w))
  <1> SUFFICES ASSUME NEW ws, ws = <<f>>
               PROVE  /\ Fits(ws)
                      /\ Prepared(ws) <=> (written[f] \in Edges =>
                           \A w \in 1 .. f - 1 : written[w] \in Latches => Reached(w))
    OBVIOUS
  <1>1. Len(ws) = 1 /\ ws[1] = f /\ 1 .. Len(ws) = {1}
    OBVIOUS
  <1>2. Fits(ws)
    BY <1>1 DEF Fits
  <1>3. \A k \in 1 .. Len(ws) : k = 1 /\ 1 .. k - 1 = {}
    BY <1>1
  <1>4. QED
    BY <1>1, <1>2, <1>3 DEF Prepared

LEMMA WriteFits ==
  ASSUME PathHyp, hrx.kind = "write", ~RXDF
  PROVE  /\ pc["fg"] = "xrecv" /\ Pending = {} /\ ~Replied /\ tx = NoWord
         /\ held = Latest /\ held # NoWrite
         /\ wire = <<FlushWord>> /\ Fits(wire) /\ (active => Prepared(wire))
         /\ IF words = <<>> THEN active => opened = Latest
                            ELSE active /\ sent + 1 \in Places /\ words[sent + 1] < held
  <1>1. /\ BatchTypeOK /\ SlotsCurrent /\ VoiceAheadOfKey /\ BatchAux /\ BatchOrder
        /\ ChipInv /\ FlushInv /\ CoverInv
    BY DEF PathHyp, PathInv, BatchInv
  <1>2. pc["fg"] = "xrecv" /\ cmd = "write" /\ tx = NoWord
    BY WordTaken
  <1>3. Pending = {} /\ Caller = "xrecv" /\ ~Replied
    BY <1>2, NothingPending DEF Replied
  <1>4. held # NoWrite /\ held = Latest
    BY <1>1, <1>2, <1>3 DEF PathHyp, CallInv, TypeOK, BatchAux
  <1>5. wire = <<FlushWord>>
    BY DEF PathHyp, PathInv, WireInv
  <1>6. Latest \in Nat /\ opened \in 0 .. Latest /\ Latest \in 1 .. Latest /\ Len(words) \in Nat /\ sent \in Nat
    BY <1>1, <1>4 DEF BatchTypeOK, Latest, NoWrite
  <1>7. active => \A w \in 1 .. opened : w # held => Reached(w)
    BY <1>1, <1>3 DEF CoverInv
  <1>8. held \notin keyed \/ words # <<>>
    BY <1>1, <1>3, <1>4 DEF FlushInv
  <1>9. /\ \A l \in Latches : chip[l] \in 0 .. Latest /\ (chip[l] # 0 => written[chip[l]] = l)
        /\ \A e \in keyed : e \in 1 .. Latest /\ written[e] \in Edges
    BY <1>1 DEF ChipInv
  <1>10. CASE words = <<>>
    <2>1. FlushWord = Latest /\ (active => opened = Latest)
      BY <1>1, <1>4, <1>10 DEF FlushWord, BatchAux
    <2>2. written[Latest] \in Latches => chip[written[Latest]] <= Latest
      BY <1>6, <1>9
    <2>3. \A e \in keyed : e < Latest
      BY <1>4, <1>6, <1>8, <1>9, <1>10
    <2>4. ASSUME active, NEW w \in 1 .. Latest - 1 PROVE Reached(w)
      <3>1. w \in 1 .. opened /\ w # held
        BY <1>4, <1>6, <2>1, <2>4
      <3>2. QED
        BY <1>7, <2>4, <3>1
    <2>5. Fits(<<Latest>>) /\ (active => Prepared(<<Latest>>))
      BY <1>6, <2>2, <2>3, <2>4, OneWord
    <2>6. QED
      BY <1>2, <1>3, <1>4, <1>5, <1>10, <2>1, <2>5
  <1>11. CASE words # <<>>
    <2>1. active /\ sent + 1 \in Places /\ FlushWord = words[sent + 1]
      <3>1. Len(words) # 0
        BY <1>1, <1>11 DEF BatchTypeOK
      <3>2. QED
        BY <1>1, <1>6, <1>11, <3>1 DEF BatchOrder, FlushWord, Places
    <2> SUFFICES ASSUME NEW f, f = words[sent + 1]
                 PROVE  f < held /\ Fits(<<f>>) /\ Prepared(<<f>>)
      BY <1>2, <1>3, <1>4, <1>5, <1>11, <2>1
    <2>2. f \in 1 .. Latest /\ f > opened /\ f < held
      BY <1>1, <1>4, <2>1 DEF BatchTypeOK, BatchOrder, Places
    <2>3. \A n \in Flushed : \E i \in Places : i < sent + 1 /\ n = words[i]
      BY <1>3, <1>6 DEF Flushed, Done, Places
    <2>4. ASSUME written[f] \in Latches PROVE chip[written[f]] <= f
      <3>1. CASE chip[written[f]] <= opened
        BY <1>6, <1>9, <2>2, <2>4, <3>1
      <3>2. CASE chip[written[f]] \in Flushed
        <4>1. PICK i \in Places : i < sent + 1 /\ chip[written[f]] = words[i]
          BY <2>3, <3>2
        <4>2. words[i] \in 1 .. Latest
          BY <1>1 DEF BatchTypeOK, Places
        <4>3. Target(i) = written[f] /\ Target(sent + 1) = written[f]
          BY <1>9, <2>4, <4>1, <4>2 DEF Target
        <4>4. i = sent + 1
          BY <1>1, <2>1, <2>4, <4>3 DEF SlotsCurrent
        <4>5. QED
          BY <1>6, <4>1, <4>4 DEF Places
      <3>3. QED
        BY <1>1, <2>1, <2>4, <3>1, <3>2 DEF FlushInv
    <2>5. ASSUME written[f] \in Edges, NEW e \in keyed PROVE e < f
      <3>1. CASE e <= opened
        BY <1>6, <1>9, <2>2, <3>1
      <3>2. CASE e \in Flushed
        <4>1. PICK i \in Places : i < sent + 1 /\ e = words[i]
          BY <2>3, <3>2
        <4>2. QED
          BY <1>1, <1>9, <2>1, <2>5, <4>1 DEF BatchOrder, Target
      <3>3. QED
        BY <1>1, <2>1, <3>1, <3>2 DEF FlushInv
    <2>6. ASSUME written[f] \in Edges, NEW w \in 1 .. f - 1, written[w] \in Latches PROVE Reached(w)
      <3>1. CASE w <= opened
        <4>1. w \in 1 .. opened /\ w # held
          BY <1>6, <2>2, <3>1
        <4>2. QED
          BY <1>7, <2>1, <4>1
      <3>2. CASE w > opened
        <4>1. w \in opened + 1 .. f - 1
          BY <1>6, <2>2, <3>2
        <4>2. PICK j \in 1 .. (sent + 1) - 1 : Target(j) = written[w] /\ words[j] >= w
          <5>1. Target(sent + 1) \in Edges
            BY <2>6 DEF Target
          <5>2. \A n \in opened + 1 .. words[sent + 1] - 1 :
                  \E j \in 1 .. (sent + 1) - 1 : Target(j) = written[n] /\ words[j] >= n
            BY <1>1, <2>1, <5>1 DEF VoiceAheadOfKey
          <5>3. QED
            BY <4>1, <5>2
        <4>3. j \in Places /\ j <= sent
          BY <1>6, <2>1 DEF Places
        <4>4. Reached(words[j])
          BY <1>1, <1>3, <4>3 DEF FlushInv, Flushed, Done
        <4>5. written[words[j]] \notin Edges /\ written[words[j]] = written[w] /\ words[j] \in Nat
          BY <1>1, <2>6, <4>2, <4>3, BatchAssumption DEF Target, BatchTypeOK, Places
        <4>6. chip[written[w]] >= words[j] /\ chip[written[w]] \in Nat
          BY <1>6, <1>9, <2>6, <4>4, <4>5 DEF Reached
        <4>7. QED
          BY <4>2, <4>5, <4>6 DEF Reached
      <3>3. QED
        BY <1>6, <2>2, <3>1, <3>2
    <2>7. QED
      BY <2>2, <2>4, <2>5, <2>6, OneWord
  <1>12. QED
    BY <1>10, <1>11

LEMMA PathTakeWrite == ASSUME PathHyp, TakeWrite, Taken PROVE PathInv'
  <1>1. /\ UNCHANGED <<linkVars, playerVars, batchVars, stage, wire, arrived>> /\ Apply(wire)
        /\ hrx.kind = "write" /\ ~RXDF /\ hrx' = NoWord /\ tx' = tx /\ rx' = Reply("ok", "write")
    BY DEF Taken, TakeWrite, Answer
  <1>2. /\ UNCHANGED <<written, active, words, sent, opened, held, pc, built>>
        /\ Latest' = Latest
    BY <1>1 DEF linkVars, playerVars, batchVars, Latest
  <1>3. /\ ChipInv /\ FlushInv /\ CoverInv /\ OrderInv
        /\ BatchInv /\ BatchTypeOK /\ BatchOrder
    BY DEF PathHyp, PathInv, BatchInv
  <1>4. /\ pc["fg"] = "xrecv" /\ Pending = {} /\ ~Replied /\ tx = NoWord
        /\ held = Latest /\ held # NoWrite
        /\ wire = <<FlushWord>> /\ Fits(wire) /\ (active => Prepared(wire))
        /\ IF words = <<>> THEN active => opened = Latest
                           ELSE active /\ sent + 1 \in Places /\ words[sent + 1] < held
    BY <1>1, WriteFits
  <1>5. Pending' = {} /\ Replied' /\ Done = sent /\ Done' = sent + 1
    BY <1>1, <1>2, <1>4 DEF Pending, Replied, RXDF, Done, Reply, NoReply
  <1>6. Latest \in Nat /\ opened \in 0 .. Latest /\ sent \in Nat
    BY <1>3, WrittenKind DEF BatchTypeOK
  <1>7. Len(wire) = 1 /\ 1 .. Len(wire) = {1} /\ wire[1] = FlushWord
    BY <1>4
  <1>8. /\ ChipInv' /\ Reached(FlushWord)'
        /\ \A n \in 1 .. Latest : Reached(n) => Reached(n)'
    <2>1. Reached(wire[1])'
      BY <1>1, <1>2, <1>3, <1>4, <1>7, AppliesReached
    <2>2. FlushWord' = FlushWord
      BY <1>2 DEF FlushWord
    <2>3. wire[1]' = FlushWord'
      BY <1>1, <1>7, <2>2
    <2>4. Reached(FlushWord)'
      BY <1>7, <2>1, <2>2, <2>3 DEF Reached
    <2>5. QED
      BY <1>1, <1>2, <1>3, <1>4, <2>4, AppliesReached
  <1>9. OrderInv' /\ keyed' = keyed \cup {wire[k] : k \in EdgesIn(wire)}
    BY <1>1, <1>2, <1>3, <1>4, AppliesEdges
  <1>10. \A e \in keyed' : e \in keyed \/ e = FlushWord
    BY <1>7, <1>9 DEF EdgesIn
  <1>11. \A l \in Latches : chip'[l] = chip[l] \/ chip'[l] = FlushWord
    <2>1. \A l \in Latches : chip'[l] = chip[l] \/ \E k \in 1 .. Len(wire) : chip'[l] = wire[k]
      BY <1>1, <1>2, <1>3, <1>4, AppliesLatches
    <2>2. QED
      BY <1>7, <2>1
  <1>12. \A n \in Flushed : n \in 1 .. Latest /\ Reached(n)
    BY <1>3 DEF Flushed, Places, BatchTypeOK, FlushInv
  <1>13. FlushInv'
    <2>1. CASE words = <<>>
      <3>1. Flushed' = {} /\ FlushWord = held /\ FlushWord' = held
        BY <1>2, <2>1 DEF Flushed, Places, FlushWord
      <3>2. \A l \in Latches : chip'[l] <= Latest
        BY <1>2, <1>6, <1>8 DEF ChipInv
      <3>3. \A e \in keyed' : e <= Latest
        BY <1>2, <1>6, <1>8 DEF ChipInv
      <3>4. Reached(held)'
        BY <1>2, <1>8, <3>1 DEF Reached
      <3>5. QED
        BY <1>2, <1>4, <1>5, <2>1, <3>1, <3>2, <3>3, <3>4 DEF FlushInv
    <2>2. CASE words # <<>>
      <3>1. FlushWord = words[sent + 1] /\ FlushWord' = FlushWord /\ sent + 1 \in Places /\ words[sent + 1] < held
        BY <1>2, <1>4, <2>2 DEF FlushWord
      <3>2. Flushed' = Flushed \cup {FlushWord}
        <4>1. Places' = Places /\ words' = words
          BY <1>2 DEF Places
        <4>2. \A i \in Places : i <= Done' <=> i <= Done \/ i = sent + 1
          BY <1>5, <1>6 DEF Places
        <4>3. QED
          BY <3>1, <4>1, <4>2 DEF Flushed
      <3>3. active => \A l \in Latches : chip'[l] <= opened \/ chip'[l] \in Flushed'
        BY <1>3, <1>11, <3>2 DEF FlushInv
      <3>4. active => \A e \in keyed' : e <= opened \/ e \in Flushed'
        BY <1>3, <1>10, <3>2 DEF FlushInv
      <3>5. Reached(FlushWord)' <=> (IF written'[FlushWord] \in Edges THEN FlushWord \in keyed'
                                                    ELSE chip'[written'[FlushWord]] >= FlushWord)
        BY <3>1 DEF Reached
      <3>6. \A n \in Flushed' : Reached(n)'
        BY <1>8, <1>12, <3>2, <3>5 DEF Reached
      <3>7. held \notin keyed'
        <4>1. held \notin keyed
          BY <1>3, <1>4, <2>2 DEF FlushInv
        <4>2. held # FlushWord
          BY <1>4, <1>6, <3>1
        <4>3. QED
          BY <1>10, <4>1, <4>2
      <3>8. QED
        BY <1>2, <2>2, <3>3, <3>4, <3>6, <3>7 DEF FlushInv
    <2>3. QED
      BY <2>1, <2>2
  <1>14. BurstInv' /\ AheadInv'
    BY <1>5 DEF BurstInv, AheadInv
  <1>15. CoverInv'
    <2> SUFFICES ASSUME active, NEW w \in 1 .. opened, w # held PROVE Reached(w)'
      BY <1>2 DEF CoverInv
    <2>1. Reached(w)
      BY <1>3, <1>4 DEF CoverInv
    <2>2. QED
      BY <1>6, <1>8, <2>1
  <1>16. WireInv'
    BY <1>1, <1>4 DEF WireInv, NoWord, Word
  <1>17. QED
    BY <1>8, <1>9, <1>13, <1>14, <1>15, <1>16 DEF PathInv
-----------------------------------------------------------------------------
(* Every step.                                                             *)

LEMMA PathWriter ==
  ASSUME PathHyp, Writer, BatchInv', BatchOrder'
  PROVE  PathInv'
  <1>1. CASE Enable \/ CleanupDisables
    BY <1>1, PathEnable, PathCleanup
  <1>2. CASE PumpWrite \/ StageBatch \/ FlushBegins
    BY <1>2, PathPumpWrite, PathStageBatch, PathFlushBegins
  <1>3. CASE FlushSend \/ KeyOffSend \/ StopSend
    BY <1>3, PathSends, PathKeyOffSend
  <1>4. CASE FlushReply \/ KeyOffReply \/ StopReply
    BY <1>4, PathReplies, PathStopReply
  <1>5. QED
    BY <1>1, <1>2, <1>3, <1>4 DEF Writer

LEMMA PathStep ==
  ASSUME PathHyp, [DeliveryNext]_deliveryVars, Healthy', BatchInv', BatchOrder'
  PROVE  PathInv'
  <1>1. CASE Taken
    <2>1. TakeBlock \/ TakeWrite
      BY <1>1 DEF Taken
    <2>2. QED
      BY <1>1, <2>1, PathTakeBlock, PathTakeWrite
  <1>2. CASE UNCHANGED deliveryVars
    <2>1. /\ UNCHANGED <<batchVars, chipVars, stage, wire, arrived, built, pc, tx, hrx, rx>>
      BY <1>2 DEF deliveryVars, vars, portVars, linkVars, playerVars, ymVars
    <2>2. Replied' = Replied
      BY <2>1 DEF Replied, RXDF
    <2>3. OffPortInv'
      BY <2>1, <2>2, PathStill
    <2>4. WireInv'
      BY <2>1, WireKept DEF batchVars
    <2>5. QED
      BY <2>3, <2>4 DEF OffPortInv, PathInv
  <1>3. CASE Writer
    BY <1>3, PathWriter
  <1>4. CASE Bystander \/ Submission
    BY <1>4, PathBystander, PathSubmission
  <1>5. CASE Delivery \/ OtherHardware
    BY <1>5, PathDelivery, PathHardware
  <1>6. QED
    BY <1>1, <1>2, <1>3, <1>4, <1>5 DEF DeliveryNext

\* The staging buffers hold sequences of writes.
LEMMA StageType ==
  ASSUME BatchInv, stage \in [0 .. StageBuffers - 1 -> Seq(Nat)], [DeliveryNext]_deliveryVars
  PROVE  stage' \in [0 .. StageBuffers - 1 -> Seq(Nat)]
  <1>1. CASE StageBatch
    <2>1. stage' = [stage EXCEPT ![Buffer(built + 1)] = words] /\ words \in Seq(Nat)
      BY <1>1 DEF StageBatch, BatchInv, BatchTypeOK
    <2>2. QED
      BY <2>1
  <1>2. CASE Writer /\ ~StageBatch
    BY <1>2 DEF Writer, Enable, PumpWrite, FlushBegins, CleanupDisables, FlushSend, KeyOffSend, StopSend,
       FlushReply, KeyOffReply, StopReply, ymVars
  <1>3. CASE ~Writer
    BY <1>3 DEF DeliveryNext, Bystander, Submission, Delivery, Taken, OtherHardware, deliveryVars, ymVars
  <1>4. QED
    BY <1>1, <1>2, <1>3

\* A session that is sound after a step was so before it.
LEMMA SoundBefore ==
  ASSUME DeliveryInv, [DeliveryNext]_deliveryVars, Healthy', stranded' = {}
  PROVE  PathHyp
  <1>1. [Next]_vars
    BY DeliverySteps
  <1>2. Healthy /\ stranded = {}
    BY <1>1, HealthyBefore, NoneStrandedBefore
  <1>3. QED
    BY <1>2 DEF DeliveryInv, IInv, PathHyp

LEMMA DeliveryStep ==
  ASSUME DeliveryInv, [DeliveryNext]_deliveryVars, IInv', BatchInv', BatchOrder'
  PROVE  DeliveryInv'
  <1>1. CallInv'
    BY CallStep DEF DeliveryInv, IInv
  <1>2. stage' \in [0 .. StageBuffers - 1 -> Seq(Nat)]
    BY StageType DEF DeliveryInv
  <1>3. ASSUME Healthy', stranded' = {} PROVE PathInv'
    BY <1>3, SoundBefore, PathStep
  <1>4. QED
    BY <1>1, <1>2, <1>3 DEF DeliveryInv

LEMMA DeliveryInitial == ASSUME DeliveryInit, IInv, BatchInv, BatchOrder PROVE DeliveryInv
  <1>1. /\ written = <<>> /\ Latest = 0 /\ words = <<>> /\ held = NoWrite /\ opened = 0 /\ ~active
        /\ built = 0 /\ arrived = <<>> /\ pc["fg"] = "loop"
        /\ tx = NoWord /\ hrx = NoWord /\ chip = [l \in Latches |-> 0] /\ keyed = {} /\ late = {} /\ hasty = {}
    BY DEF DeliveryInit, Init, BatchInit, PortInit, Latest, Contexts
  <1>2. Pending = {} /\ Flushed = {}
    BY <1>1 DEF Pending, Flushed, Places
  <1>3. CallInv
    BY <1>1 DEF CallInv, Caller, BodyLocations
  <1>4. stage \in [0 .. StageBuffers - 1 -> Seq(Nat)]
    BY DEF DeliveryInit
  <1>5. ChipInv /\ FlushInv /\ OrderInv
    BY <1>1, <1>2 DEF ChipInv, FlushInv, OrderInv
  <1>6. BurstInv /\ AheadInv /\ CoverInv
    BY <1>1, <1>2 DEF BurstInv, AheadInv, CoverInv
  <1>7. WireInv
    BY <1>1 DEF WireInv, NoWord, Word
  <1>8. QED
    BY <1>3, <1>4, <1>5, <1>6, <1>7 DEF DeliveryInv, PathInv

\* Where each write is, for any number of payloads and of writes, any set of
\* latches and edges and any batch size, whether or not the DSP refuses.
THEOREM DeliveryInductive == DeliverySpec => []DeliveryInv
  <1> DEFINE Parts == IInv /\ BatchInv /\ BatchOrder
  <1>1. DeliveryInit /\ Parts => DeliveryInv
    BY DeliveryInitial
  <1>2. DeliveryInv /\ Parts' /\ [DeliveryNext]_deliveryVars => DeliveryInv'
    BY DeliveryStep
  <1>3. DeliverySpec => []Parts
    BY PartsHold
  <1> HIDE DEF Parts
  <1>4. QED
    BY <1>1, <1>2, <1>3, PTL DEF DeliverySpec

\* Keys go down and up once each, in the driver's order, behind the voice they
\* belong to, whichever way each write took (mxdrv_port.s:55-63).
THEOREM KeysArriveInOrder == DeliverySpec => []KeysInOrder
  <1>1. DeliveryInv => KeysInOrder
    BY DEF DeliveryInv, PathInv, OrderInv, KeysInOrder
  <1>2. QED
    BY <1>1, DeliveryInductive, PTL

\* Nothing is left on the way or lost: once the pipeline has drained and the
\* batch is empty, the DSP's chip is the driver's register mirror.
THEOREM ChipIsMirror == DeliverySpec => []ChipMatchesMirror
  <1>1. ASSUME DeliveryInv, Healthy, stranded = {}, active, words = <<>>, held = NoWrite, ~posted,
               pc["fg"] = "loop"
        PROVE  chip = mirror /\ keyed = {n \in 1 .. Latest : written[n] \in Edges}
    <2>1. /\ BatchInv /\ BatchTypeOK /\ BatchComplete /\ BatchAux /\ ChipInv /\ CoverInv
          /\ TypeOK /\ FifoInv
      BY <1>1 DEF DeliveryInv, IInv, PathInv, BatchInv
    <2>2. Pending = {}
      <3>1. built = Len(arrived) /\ built \in Nat
        BY <1>1, <2>1, PortAssumption DEF FifoInv, Handed, Submitting, Unsubmitted, Occupied, BodyLocations,
           TypeOK, Numbers
      <3>2. QED
        BY <3>1 DEF Pending
    <2>3. Latest \in Nat /\ opened \in 0 .. Latest
      BY <2>1, WrittenKind DEF BatchTypeOK
    <2>4. opened = Latest
      <3>1. Places = {}
        BY <1>1 DEF Places
      <3>2. \A n \in opened + 1 .. Latest : n = held
        BY <1>1, <2>1, <3>1 DEF BatchComplete
      <3>3. opened < Latest => Latest \in opened + 1 .. Latest /\ Latest # held
        BY <1>1, <2>3 DEF NoWrite
      <3>4. QED
        BY <2>3, <3>2, <3>3
    <2>5. \A n \in 1 .. Latest : Reached(n)
      <3>1. \A n \in 1 .. Latest : n # held
        BY <1>1, <2>3 DEF NoWrite
      <3>2. QED
        BY <1>1, <2>1, <2>2, <2>4, <3>1 DEF CoverInv
    <2>6. ASSUME NEW l \in Latches PROVE chip[l] = mirror[l]
      <3>1. chip[l] \in 0 .. Latest /\ mirror[l] \in 0 .. Latest
        BY <2>1 DEF ChipInv, BatchTypeOK
      <3>2. mirror[l] >= chip[l]
        <4>1. chip[l] # 0 => chip[l] \in 1 .. Latest /\ written[chip[l]] = l
          BY <2>1, <2>3, <3>1 DEF ChipInv
        <4>2. chip[l] # 0 => mirror[l] >= chip[l]
          BY <2>1, <4>1 DEF BatchAux
        <4>3. QED
          BY <2>3, <3>1, <4>2
      <3>3. chip[l] >= mirror[l]
        <4>1. mirror[l] # 0 => mirror[l] \in 1 .. Latest /\ written[mirror[l]] = l
          BY <2>1, <2>3, <3>1 DEF BatchAux
        <4>2. mirror[l] # 0 => chip[l] >= mirror[l]
          BY <2>5, <4>1, BatchAssumption DEF Reached
        <4>3. QED
          BY <2>3, <3>1, <4>2
      <3>4. QED
        BY <2>3, <3>1, <3>2, <3>3
    <2>7. chip = mirror
      BY <2>1, <2>6 DEF ChipInv, BatchTypeOK
    <2>8. \A n \in 1 .. Latest : written[n] \in Edges => n \in keyed
      BY <2>5 DEF Reached
    <2>9. QED
      BY <2>1, <2>7, <2>8 DEF ChipInv
  <1>2. DeliveryInv => ChipMatchesMirror
    BY <1>1 DEF ChipMatchesMirror
  <1>3. QED
    BY <1>2, DeliveryInductive, PTL

\* No step sets a latch of the chip back to an older write: the batch, the
\* bursts under way, the flush of a full batch and the direct writes keep the
\* order of the driver for each register.
THEOREM NothingUndone == DeliverySpec => NeverOlder
  <1> DEFINE Newer == (Healthy /\ stranded = {})' => \A l \in Latches : chip'[l] >= chip[l]
  <1>1. ASSUME DeliveryInv, [DeliveryNext]_deliveryVars PROVE Newer
    <2> SUFFICES ASSUME Healthy', stranded' = {}, NEW l \in Latches PROVE chip'[l] >= chip[l]
      OBVIOUS
    <2>1. PathHyp
      BY <1>1, SoundBefore
    <2>2. BatchInv /\ ChipInv
      BY <2>1 DEF PathHyp, PathInv
    <2>3. chip[l] \in Nat
      BY <2>2, WrittenKind DEF ChipInv
    <2>4. CASE Taken
      <3>1. Apply(wire) /\ UNCHANGED written
        BY <2>4 DEF Taken, batchVars
      <3>2. hrx.kind = "block" \/ (hrx.kind = "write" /\ ~RXDF)
        BY <2>4 DEF Taken, TakeBlock, TakeWrite, Answer
      <3>3. Fits(wire)
        BY <2>1, <3>2, BlockFits, WriteFits
      <3>4. QED
        BY <2>2, <3>1, <3>3, AppliesLatches
    <2>5. CASE ~Taken
      <3>1. chip' = chip
        <4>1. CASE Writer
          BY <4>1 DEF Writer, Enable, PumpWrite, StageBatch, FlushBegins, CleanupDisables, FlushSend,
             KeyOffSend, StopSend, FlushReply, KeyOffReply, StopReply, ymVars, chipVars
        <4>2. CASE ~Writer
          BY <1>1, <2>5, <4>2 DEF DeliveryNext, Bystander, Submission, Delivery, OtherHardware,
             deliveryVars, ymVars, chipVars
        <4>3. QED
          BY <4>1, <4>2
      <3>2. QED
        BY <2>3, <3>1
    <2>6. QED
      BY <2>4, <2>5
  <1>2. DeliverySpec => [][Newer]_deliveryVars
    BY <1>1, DeliveryInductive, PTL DEF DeliverySpec
  <1>3. QED
    BY <1>2 DEF NeverOlder
=============================================================================
