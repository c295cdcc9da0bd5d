---------------------------- MODULE KernelProofs ----------------------------
(***************************************************************************)
(* Proofs about BlockKernel: first the arithmetic of the native clock and  *)
(* of its 16 bits, then KernelInv step by step.                            *)
(***************************************************************************)
EXTENDS KernelInvariant, TLAPS, FiniteSetTheorems, SequenceTheorems, NaturalsInduction,
        WellFoundedInduction

(* Division, and the least of a set of numbers.                            *)

LEMMA Division ==
  ASSUME NEW a \in Int, NEW b \in Nat \ {0}
  PROVE  a = b * (a \div b) + (a % b) /\ a % b \in 0 .. b - 1 /\ a \div b \in Int
  OBVIOUS

LEMMA Quotient ==
  ASSUME NEW b \in Nat \ {0}, NEW a \in Int, NEW q \in Int, NEW r \in 0 .. b - 1, a = b * q + r
  PROVE  a \div b = q /\ a % b = r
  OBVIOUS

LEMMA DivisionPlus ==
  ASSUME NEW b \in Nat \ {0}, NEW q \in Int, NEW r \in Int
  PROVE  (r + b * q) % b = r % b /\ (r + b * q) \div b = q + (r \div b)
  <1> SUFFICES ASSUME NEW a \in Int, a = r + b * q PROVE a % b = r % b /\ a \div b = q + (r \div b)
    OBVIOUS
  <1>1. PICK m \in Int, s \in 0 .. b - 1 : r = b * m + s /\ m = r \div b /\ s = r % b
    BY Division
  <1>2. PICK n \in Int : n = q + m
    OBVIOUS
  <1>3. b * n = b * q + b * m
    BY <1>2
  <1>4. a = b * n + s
    BY <1>1, <1>3
  <1>5. a \div b = n /\ a % b = s
    BY <1>4, Quotient
  <1>6. QED
    BY <1>1, <1>2, <1>5

LEMMA DivisionMonotone ==
  ASSUME NEW b \in Nat \ {0}, NEW q \in Int, NEW r \in Int, q <= r
  PROVE  q \div b <= r \div b
  OBVIOUS

LEMMA Least ==
  ASSUME NEW T \in SUBSET Nat, T # {}
  PROVE  \E x \in T : \A y \in T : x <= y
  <1> DEFINE Less == {ss \in Nat \X Nat : ss[1] < ss[2]}
  <1>1. IsWellFoundedOn(Less, Nat)
    BY NatLessThanWellFounded DEF OpToRel
  <1>2. \A x, y \in Nat : y < x => <<y, x>> \in Less
    OBVIOUS
  <1> HIDE DEF Less
  <1>3. PICK x \in T : \A y \in T : ~(<<y, x>> \in Less)
    BY <1>1, WFMin
  <1>4. ASSUME NEW y \in T PROVE x <= y
    <2>1. x \in Nat /\ y \in Nat
      OBVIOUS
    <2>2. ~(y < x)
      BY <1>2, <1>3, <2>1
    <2>3. QED
      BY <2>1, <2>2
  <1>5. QED
    BY <1>4
-----------------------------------------------------------------------------
(* The native clock: Num / Den samples a frame.                            *)

LEMMA Constants ==
  /\ BlockFrames \in Nat \ {0} /\ Den \in Nat \ {0} /\ Num \in Nat \ {0} /\ Num >= Den /\ Num <= 2 * Den
  /\ ClockMod \in Nat \ {0} /\ Half \in Nat \ {0} /\ ClockMod = 2 * Half /\ 2 * BlockFrames <= Half
  <1>1. /\ BlockFrames \in Nat \ {0} /\ Den \in Nat \ {0} /\ Num \in Den .. 2 * Den
        /\ ClockMod \in Nat \ {0} /\ ClockMod % 2 = 0 /\ 2 * BlockFrames * 2 <= ClockMod
    BY KernelAssumption
  <1>2. ClockMod = 2 * Half /\ Half \in Int
    BY <1>1 DEF Half
  <1>3. QED
    BY <1>1, <1>2

LEMMA NativesType ==
  ASSUME NEW f \in Nat
  PROVE  Natives(f) \in Nat /\ Rest(f) \in 0 .. Den - 1 /\ f * Num = Den * Natives(f) + Rest(f)
  <1>1. PICK a \in Int, b \in Nat \ {0} : a = f * Num /\ b = Den /\ a >= 0
    BY Constants
  <1>2. a = b * (a \div b) + (a % b) /\ a % b \in 0 .. b - 1 /\ a \div b \in Nat
    BY <1>1
  <1>3. QED
    BY <1>1, <1>2 DEF Natives, Rest

LEMMA NativesPlus ==
  ASSUME NEW f \in Nat, NEW k \in Nat
  PROVE  /\ Natives(f + k) = Natives(f) + ((Rest(f) + k * Num) \div Den)
         /\ Rest(f + k) = (Rest(f) + k * Num) % Den
  <1>0. k * Num \in Int
    BY Constants
  <1>1. PICK q \in Int, r \in Int, p \in Int :
          q = Natives(f) /\ r = Rest(f) /\ p = k * Num /\ f * Num = Den * q + r
    <2>1. Rest(f) \in Int
      BY NativesType, Constants
    <2>2. QED
      BY <1>0, <2>1, NativesType
  <1>2. (f + k) * Num = (r + p) + Den * q
    <2>1. (f + k) * Num = f * Num + k * Num
      BY Constants
    <2>2. QED
      BY <1>1, <2>1, Constants
  <1>3. r + p \in Int
    OBVIOUS
  <1>4. ((r + p) + Den * q) \div Den = q + ((r + p) \div Den) /\ ((r + p) + Den * q) % Den = (r + p) % Den
    BY <1>3, DivisionPlus, Constants
  <1>5. QED
    BY <1>1, <1>2, <1>4 DEF Natives, Rest

LEMMA NativesMonotone ==
  ASSUME NEW f \in Nat, NEW g \in Nat, f <= g
  PROVE  Natives(f) <= Natives(g)
  <1>1. f * Num <= g * Num /\ f * Num \in Int /\ g * Num \in Int
    BY Constants
  <1>2. QED
    BY <1>1, DivisionMonotone, Constants DEF Natives

\* A frame consumes two samples at most.
LEMMA NativesBound ==
  ASSUME NEW f \in Nat, NEW k \in Nat
  PROVE  Natives(f + k) <= Natives(f) + 2 * k
  <1>0. k * Num \in Nat /\ Rest(f) \in Nat /\ Rest(f) < Den
    BY NativesType, Constants
  <1>1. PICK p \in Int, n \in Int : p = k * Num /\ n = Rest(f) + p /\ n >= 0
    BY <1>0
  <1>2. k * Num <= k * (2 * Den)
    BY Constants
  <1>3. k * (2 * Den) = Den * (2 * k)
    BY Constants
  <1>4. n < Den * (2 * k) + Den
    BY <1>0, <1>1, <1>2, <1>3, Constants
  <1>5. PICK q \in Int, r \in 0 .. Den - 1 : q = n \div Den /\ n = Den * q + r
    BY Division, Constants
  <1>6. Den * q < Den * (2 * k + 1)
    BY <1>4, <1>5, Constants
  <1>7. q < 2 * k + 1
    BY <1>6, Constants
  <1>8. QED
    BY <1>1, <1>5, <1>7, NativesPlus, NativesType
-----------------------------------------------------------------------------
(* The clock's 16 bits.                                                    *)

LEMMA Wrapped ==
  ASSUME NEW a \in Int, NEW b \in Int
  PROVE  /\ a % ClockMod \in 0 .. ClockMod - 1
         /\ ((a % ClockMod) + b) % ClockMod = (a + b) % ClockMod
         /\ ((a % ClockMod) - b) % ClockMod = (a - b) % ClockMod
         /\ (b - (a % ClockMod)) % ClockMod = (b - a) % ClockMod
  <1>1. PICK m \in Nat \ {0}, q \in Int, r \in Int :
          m = ClockMod /\ r \in 0 .. m - 1 /\ a = m * q + r /\ r = a % m
    <2>1. a = ClockMod * (a \div ClockMod) + (a % ClockMod) /\ a % ClockMod \in 0 .. ClockMod - 1
          /\ a \div ClockMod \in Int
      BY Division, Constants
    <2>2. QED
      BY <2>1, Constants
  <1>2. PICK p \in Int : p = 0 - q
    OBVIOUS
  <1>3. m * p = 0 - m * q
    BY <1>2
  <1>4. a + b = (r + b) + m * q /\ a - b = (r - b) + m * q /\ b - a = (b - r) + m * p
    BY <1>1, <1>3
  <1>5. /\ ((r + b) + m * q) % m = (r + b) % m
        /\ ((r - b) + m * q) % m = (r - b) % m
        /\ ((b - r) + m * p) % m = (b - r) % m
    <2>1. r + b \in Int /\ r - b \in Int /\ b - r \in Int
      OBVIOUS
    <2>2. QED
      BY <2>1, DivisionPlus
  <1>6. QED
    BY <1>1, <1>4, <1>5

LEMMA WrappedDistance ==
  ASSUME NEW a \in Int, NEW b \in Int
  PROVE  Distance(a % ClockMod, b % ClockMod) = (a - b) % ClockMod
  <1>1. a % ClockMod \in Int /\ ((a % ClockMod) - (b % ClockMod)) % ClockMod
                                = ((a % ClockMod) - b) % ClockMod
    BY Wrapped, Constants
  <1>2. ((a % ClockMod) - b) % ClockMod = (a - b) % ClockMod
    BY Wrapped
  <1>3. QED
    BY <1>1, <1>2 DEF Distance

\* Within half a turn the distance tells before from after.
LEMMA Near ==
  ASSUME NEW a \in Int, NEW b \in Int, b - Half <= a, a < b + Half
  PROVE  LET d == Distance(a % ClockMod, b % ClockMod)
         IN /\ a >= b => d = a - b /\ ~Past(d)
            /\ a < b => d # 0 /\ Past(d)
            /\ a > b => d # 0
  <1>1. PICK m \in Nat \ {0}, h \in Nat, c \in Int :
          m = ClockMod /\ h = Half /\ m = 2 * h /\ c = a - b /\ 0 - h <= c /\ c < h
    BY Constants
  <1>2. /\ c >= 0 => c % m = c
        /\ c < 0 => c % m = c + m
    BY <1>1
  <1>3. Distance(a % ClockMod, b % ClockMod) = c % m /\ ClockMod \div 2 = h
    BY <1>1, WrappedDistance DEF Half
  <1>4. CASE c >= 0
    BY <1>1, <1>2, <1>3, <1>4 DEF Past
  <1>5. CASE c < 0
    BY <1>1, <1>2, <1>3, <1>5 DEF Past
  <1>6. QED
    BY <1>4, <1>5

\* A time of 16 bits is told by its distance.
LEMMA Stamp ==
  ASSUME NEW time \in 0 .. ClockMod - 1, NEW b \in Int
  PROVE  /\ Distance(time, b % ClockMod) \in 0 .. ClockMod - 1
         /\ (b + Distance(time, b % ClockMod)) % ClockMod = time
         /\ Past(Distance(time, b % ClockMod)) <=> Distance(time, b % ClockMod) >= Half
  <1>1. PICK d \in Int : d = time - b /\ time - (b % ClockMod) \in Int
    BY Wrapped, Constants
  <1>2. Distance(time, b % ClockMod) = d % ClockMod
    BY <1>1, Wrapped, Constants DEF Distance
  <1>3. d % ClockMod \in 0 .. ClockMod - 1 /\ ((d % ClockMod) + b) % ClockMod = (d + b) % ClockMod
    BY <1>1, Wrapped
  <1>4. time % ClockMod = time
    BY Constants
  <1>5. d + b = time /\ (d % ClockMod) + b = b + (d % ClockMod)
    BY <1>1, <1>3, Constants
  <1>6. QED
    BY <1>2, <1>3, <1>4, <1>5 DEF Past, Half
-----------------------------------------------------------------------------
(* A block's step of the clock, forth and back.                            *)

LEMMA BlockStep ==
  ASSUME NEW f \in Nat
  PROVE  /\ Rest(f + BlockFrames) = (Rest(f) + Remainder) % Den
         /\ Natives(f + BlockFrames) = Natives(f) + (IF Rest(f) + Remainder < Den THEN Base ELSE Base + 1)
         /\ (Rest(f + BlockFrames) - Remainder) % Den = Rest(f)
         /\ Rest(f + BlockFrames) >= Remainder <=> Rest(f) + Remainder < Den
         /\ Base \in Int
  <1>1. PICK n \in Nat \ {0}, b \in Int, r \in Int, s \in Int :
          /\ r \in 0 .. n - 1 /\ s \in 0 .. n - 1 /\ n = Den /\ b = Base /\ r = Remainder /\ s = Rest(f)
          /\ BlockFrames * Num = n * b + r
    <2>1. BlockFrames * Num \in Int
      BY Constants
    <2>2. /\ BlockFrames * Num = Den * ((BlockFrames * Num) \div Den) + ((BlockFrames * Num) % Den)
          /\ (BlockFrames * Num) % Den \in 0 .. Den - 1 /\ (BlockFrames * Num) \div Den \in Int
      BY <2>1, Division, Constants
    <2>3. BlockFrames * Num = Den * Base + Remainder /\ Base \in Int /\ Remainder \in 0 .. Den - 1
      BY <2>2 DEF Base, Remainder
    <2>4. Rest(f) \in 0 .. Den - 1 /\ Den \in Nat \ {0}
      BY NativesType, Constants
    <2>5. QED
      BY <2>3, <2>4
  <1>2. /\ Natives(f + BlockFrames) = Natives(f) + ((s + (n * b + r)) \div n)
        /\ Rest(f + BlockFrames) = (s + (n * b + r)) % n
    BY <1>1, NativesPlus, Constants
  <1>3. s + (n * b + r) = (s + r) + n * b
    BY <1>1
  <1>4. /\ ((s + r) + n * b) \div n = b + ((s + r) \div n)
        /\ ((s + r) + n * b) % n = (s + r) % n
    <2>1. s + r \in Int
      OBVIOUS
    <2>2. QED
      BY <2>1, DivisionPlus
  <1>5. CASE s + r < n
    <2>1. (s + r) \div n = 0 /\ (s + r) % n = s + r /\ ((s + r) - r) % n = s
      <3>1. PICK a \in 0 .. n - 1 : a = s + r
        BY <1>1, <1>5
      <3>2. \A x \in 0 .. n - 1 : x \div n = 0 /\ x % n = x
        OBVIOUS
      <3>3. a - r = s /\ s \in 0 .. n - 1
        BY <1>1, <3>1
      <3>4. QED
        BY <3>1, <3>2, <3>3
    <2>2. QED
      BY <1>1, <1>2, <1>3, <1>4, <1>5, <2>1
  <1>6. CASE s + r >= n
    <2>1. (s + r) \div n = 1 /\ (s + r) % n = s + r - n
      <3>1. s + r = n * 1 + (s + r - n) /\ s + r - n \in 0 .. n - 1
        BY <1>1, <1>6
      <3>2. QED
        BY <3>1, Quotient
    <2>2. ((s + r - n) - r) % n = s
      <3>1. PICK q \in Int, a \in Int : q = 0 - 1 /\ a = (s + r - n) - r
        OBVIOUS
      <3>2. a = n * q + s
        BY <3>1
      <3>3. s \in 0 .. n - 1
        BY <1>1
      <3>4. a % n = s
        BY <3>2, <3>3, Quotient
      <3>5. QED
        BY <3>1, <3>4
    <2>3. QED
      BY <1>1, <1>2, <1>3, <1>4, <1>6, <2>1, <2>2
  <1>7. QED
    BY <1>5, <1>6
-----------------------------------------------------------------------------
(* What a service applies, and what frames leave.                          *)

LEMMA DueCountIs ==
  ASSUME NEW now, Len(queue) \in Nat
  PROVE  /\ DueCount(now) \in 0 .. Len(queue)
         /\ \A i \in 1 .. DueCount(now) : Due(queue[i], now)
         /\ DueCount(now) = Len(queue) \/ ~Due(queue[DueCount(now) + 1], now)
  <1> DEFINE Stop == {n \in 0 .. Len(queue) : n = Len(queue) \/ ~Due(queue[n + 1], now)}
             IsCount(n) == /\ \A i \in 1 .. n : Due(queue[i], now)
                           /\ n = Len(queue) \/ ~Due(queue[n + 1], now)
  <1>1. PICK n \in Stop : \A m \in Stop : n <= m
    <2>1. Stop \in SUBSET Nat /\ Len(queue) \in Stop
      OBVIOUS
    <2>2. Stop # {}
      BY <2>1
    <2> HIDE DEF Stop
    <2>3. QED
      BY <2>1, <2>2, Least
  <1>2. n \in 0 .. Len(queue) /\ IsCount(n)
    <2>1. ASSUME NEW i \in 1 .. n PROVE Due(queue[i], now)
      <3>1. i - 1 \in 0 .. Len(queue) /\ i - 1 # Len(queue) /\ (i - 1) + 1 = i
        BY <1>1
      <3>2. \A m \in Stop : n <= m
        BY <1>1
      <3>3. i - 1 \notin Stop
        <4>1. i - 1 < n
          BY <1>1
        <4> HIDE DEF Stop
        <4>2. ~(n <= i - 1)
          BY <1>1, <3>1, <4>1 DEF Stop
        <4>3. QED
          BY <3>2, <4>2
      <3>4. QED
        BY <3>1, <3>3
    <2>2. QED
      BY <1>1, <2>1
  <1>3. DueCount(now) = CHOOSE m \in 0 .. Len(queue) : IsCount(m)
    BY DEF DueCount
  <1> HIDE DEF IsCount
  <1>4. DueCount(now) \in 0 .. Len(queue) /\ IsCount(DueCount(now))
    BY <1>2, <1>3
  <1>5. QED
    BY <1>4 DEF IsCount

\* The queue after a service is its rest, the log the writes before it.
LEMMA ServiceLists ==
  ASSUME KernelTypeOK, NEW now, NEW c, Service(c, now)
  PROVE  /\ queue' \in Seq([time : 0 .. ClockMod - 1, n : Nat])
         /\ applied' \in Seq(Nat)
         /\ Len(queue') = Len(queue) - DueCount(now)
         /\ \A i \in 1 .. Len(queue') : queue'[i] = queue[DueCount(now) + i]
         /\ Len(applied') = Len(applied) + DueCount(now)
         /\ \A i \in 1 .. Len(applied) : applied'[i] = applied[i]
         /\ \A i \in 1 .. DueCount(now) : applied'[Len(applied) + i] = queue[i].n
         /\ DueCount(now) \in 0 .. Len(queue)
  <1>0. /\ Len(queue) \in Nat /\ Len(applied) \in Nat /\ applied \in Seq(Nat)
        /\ \A i \in 1 .. Len(queue) : queue[i] \in [time : 0 .. ClockMod - 1, n : Nat]
    <2>1. queue \in Seq([time : 0 .. ClockMod - 1, n : Nat]) /\ applied \in Seq(Nat)
      BY DEF KernelTypeOK
    <2>2. QED
      BY <2>1, LenProperties, ElementOfSeq
  <1>1. PICK k \in 0 .. Len(queue) : k = DueCount(now)
    BY <1>0, DueCountIs
  <1>2. queue' = SubSeq(queue, k + 1, Len(queue))
    BY <1>1 DEF Service
  <1>3. /\ queue' \in Seq([time : 0 .. ClockMod - 1, n : Nat])
        /\ Len(queue') = Len(queue) - k
        /\ \A i \in 1 .. Len(queue') : queue'[i] = queue[k + i]
    <2>1. \A i \in k + 1 .. Len(queue) : queue[i] \in [time : 0 .. ClockMod - 1, n : Nat]
      BY <1>0
    <2>2. /\ SubSeq(queue, k + 1, Len(queue)) \in Seq([time : 0 .. ClockMod - 1, n : Nat])
          /\ Len(SubSeq(queue, k + 1, Len(queue))) =
               IF k + 1 <= Len(queue) THEN Len(queue) - (k + 1) + 1 ELSE 0
          /\ \A i \in 1 .. Len(queue) - (k + 1) + 1 :
               SubSeq(queue, k + 1, Len(queue))[i] = queue[k + 1 + i - 1]
      BY <1>0, <2>1, SubSeqProperties
    <2>3. QED
      BY <1>0, <1>2, <2>2
  <1>4. /\ DueWrites(now) \in Seq(Nat) /\ Len(DueWrites(now)) = k
        /\ \A i \in 1 .. k : DueWrites(now)[i] = queue[i].n
    <2>1. DueWrites(now) = [i \in 1 .. k |-> queue[i].n]
      BY <1>1 DEF DueWrites
    <2>2. \A i \in 1 .. k : queue[i].n \in Nat
      BY <1>0
    <2>3. QED
      BY <2>1, <2>2
  <1>5. applied' = applied \o DueWrites(now)
    BY DEF Service
  <1>6. /\ applied' \in Seq(Nat) /\ Len(applied') = Len(applied) + k
        /\ \A i \in 1 .. Len(applied) + k :
             applied'[i] = IF i <= Len(applied) THEN applied[i] ELSE DueWrites(now)[i - Len(applied)]
    <2>1. PICK a \in Seq(Nat), s \in Seq(Nat) : a = applied /\ s = DueWrites(now)
      BY <1>0, <1>4
    <2>2. /\ a \o s \in Seq(Nat) /\ Len(a \o s) = Len(a) + Len(s)
          /\ \A i \in 1 .. Len(a) + Len(s) :
               (a \o s)[i] = IF i <= Len(a) THEN a[i] ELSE s[i - Len(a)]
      BY ONLY <2>1, ConcatProperties
    <2>3. Len(s) = k /\ applied' = a \o s
      BY <1>4, <1>5, <2>1
    <2>4. QED
      BY <2>1, <2>2, <2>3
  <1>7. /\ \A i \in 1 .. Len(applied) : applied'[i] = applied[i]
        /\ \A i \in 1 .. k : applied'[Len(applied) + i] = queue[i].n
    <2>1. ASSUME NEW i \in 1 .. k PROVE applied'[Len(applied) + i] = queue[i].n
      <3>1. PICK a \in Nat : a = Len(applied)
        BY <1>0
      <3>2. a + i \in 1 .. a + k /\ ~(a + i <= a) /\ (a + i) - a = i
        OBVIOUS
      <3>3. applied'[a + i] = DueWrites(now)[(a + i) - a]
        BY <1>6, <3>1, <3>2
      <3>4. QED
        BY <1>4, <3>1, <3>2, <3>3
    <2>2. ASSUME NEW i \in 1 .. Len(applied) PROVE applied'[i] = applied[i]
      <3>1. PICK a \in Nat : a = Len(applied)
        BY <1>0
      <3>2. i \in 1 .. a + k /\ i <= a
        BY <3>1
      <3>3. QED
        BY <1>6, <3>1, <3>2
    <2>3. QED
      BY <2>1, <2>2
  <1>8. QED
    BY <1>1, <1>3, <1>6, <1>7

LEMMA FramesLists ==
  ASSUME KernelTypeOK, NEW k \in Nat, Frames(k)
  PROVE  /\ rendered' \in Seq({rendered'[f] : f \in 1 .. Len(rendered')})
         /\ Len(rendered') = Len(rendered) + k
         /\ \A f \in 1 .. Len(rendered) : rendered'[f] = rendered[f]
         /\ \A f \in Len(rendered) + 1 .. Len(rendered) + k : rendered'[f].applied = Len(applied)
  <1> DEFINE R == Len(rendered)
             Old == {rendered[f] : f \in 1 .. Len(rendered)}
             new == [i \in 1 .. k |-> [applied |-> Len(applied), acc |-> (chip.acc + i * chip.inc) % PhaseMod]]
             New == {new[i] : i \in 1 .. k}
  <1>1. rendered \in Seq(Old) /\ R \in Nat
    BY DEF KernelTypeOK
  <1>2. new \in [1 .. k -> New] /\ \A i \in 1 .. k : new[i].applied = Len(applied)
    OBVIOUS
  <1>3. rendered' = rendered \o new
    BY DEF Frames
  <1> HIDE DEF Old, new, New
  <1>4. new \in Seq(New) /\ Len(new) = k
    BY <1>2
  <1>5. rendered \in Seq(Old \cup New) /\ new \in Seq(Old \cup New)
    BY <1>1, <1>4, SeqMonotonic
  <1>6. /\ rendered' \in Seq(Old \cup New) /\ Len(rendered') = R + k
        /\ \A f \in 1 .. R + k : rendered'[f] = IF f <= R THEN rendered[f] ELSE new[f - R]
    BY <1>3, <1>4, <1>5, ConcatProperties
  <1>7. rendered' \in Seq({rendered'[f] : f \in 1 .. Len(rendered')})
    BY <1>6, RangeEquality, SeqOfRange
  <1>8. QED
    BY <1>1, <1>2, <1>6, <1>7
-----------------------------------------------------------------------------
(* The queue's times against a frame's samples.                            *)

Log == Seq([write : {"pitch", "on", "off"}, due : Nat, after : Nat, live : BOOLEAN])

LEMMA Lengths ==
  ASSUME KernelTypeOK
  PROVE  /\ Len(queue) \in Nat /\ Len(applied) \in Nat /\ Len(accepted) \in Nat /\ Len(rendered) \in Nat
         /\ \A i \in 1 .. Len(queue) : queue[i].time \in 0 .. ClockMod - 1 /\ queue[i].n \in Nat
         /\ \A i \in 1 .. Len(accepted) : accepted[i].due \in Nat /\ accepted[i].after \in Nat
         /\ \A f \in 1 .. Len(rendered) : rendered[f].applied \in Nat
  <1>1. /\ queue \in Seq([time : 0 .. ClockMod - 1, n : Nat]) /\ accepted \in Log
        /\ applied \in Seq(Nat) /\ rendered \in Seq({rendered[f] : f \in 1 .. Len(rendered)})
    BY DEF KernelTypeOK, Log
  <1>2. /\ Len(queue) \in Nat /\ Len(applied) \in Nat /\ Len(accepted) \in Nat /\ Len(rendered) \in Nat
        /\ \A i \in 1 .. Len(queue) : queue[i] \in [time : 0 .. ClockMod - 1, n : Nat]
        /\ \A i \in 1 .. Len(accepted) :
             accepted[i] \in [write : {"pitch", "on", "off"}, due : Nat, after : Nat, live : BOOLEAN]
    BY <1>1, LenProperties, ElementOfSeq DEF Log
  <1>3. QED
    BY <1>2 DEF KernelTypeOK

\* A queued write's time is its due sample, told apart within half a turn.
LEMMA QueuedTimes ==
  ASSUME KernelTypeOK, LogInv, NEW b \in Nat, NEW i \in 1 .. Len(queue),
         b - Half <= accepted[Len(applied) + i].due, accepted[Len(applied) + i].due < b + Half
  PROVE  LET due == accepted[Len(applied) + i].due
             d == Distance(queue[i].time, b % ClockMod)
         IN /\ due >= b => d = due - b /\ ~Past(d)
            /\ due < b => Past(d)
            /\ Due(queue[i], b % ClockMod) <=> due <= b
  <1>1. PICK due \in Nat : due = accepted[Len(applied) + i].due /\ queue[i].time = due % ClockMod
    <2>1. PICK a \in Nat, q \in Nat : a = Len(applied) /\ q = Len(queue) /\ a + q = Len(accepted)
      BY Lengths DEF LogInv
    <2>2. a + i \in 1 .. Len(accepted)
      BY <2>1
    <2>3. QED
      BY <2>1, <2>2, Lengths DEF LogInv
  <1>2. PICK d \in Int : d = Distance(queue[i].time, b % ClockMod)
    <2>1. due - b \in Int /\ (due - b) % ClockMod \in Int
      BY Constants
    <2>2. Distance(due % ClockMod, b % ClockMod) = (due - b) % ClockMod
      BY WrappedDistance
    <2>3. QED
      BY <1>1, <2>1, <2>2
  <1>3. /\ due >= b => d = due - b /\ ~Past(d)
        /\ due < b => d # 0 /\ Past(d)
        /\ due > b => d # 0
    BY <1>1, <1>2, Near
  <1>4. Due(queue[i], b % ClockMod) <=> d = 0 \/ Past(d)
    BY <1>2 DEF Due
  <1>5. QED
    BY <1>1, <1>2, <1>3, <1>4

\* A service at a sample splits the log there.
LEMMA ServiceOnTime ==
  ASSUME KernelTypeOK, LogInv, NEW b \in Nat, NEW c, Service(c, b % ClockMod),
         UNCHANGED <<accepted, transport>>,
         Len(rendered') \in Nat, Len(rendered) <= Len(rendered'),
         \A i \in Len(applied) + 1 .. Len(accepted) :
           b - Half <= accepted[i].due /\ accepted[i].due < b + Half
  PROVE  /\ LogInv'
         /\ Len(applied') \in Len(applied) .. Len(accepted)
         /\ \A i \in Len(applied) + 1 .. Len(applied') : accepted[i].due <= b
         /\ \A i \in Len(applied') + 1 .. Len(accepted) : accepted[i].due > b
  <1>1. PICK A \in Nat, Q \in Nat, R \in Nat, k \in Nat :
          /\ A = Len(applied) /\ Q = Len(queue) /\ A + Q = Len(accepted)
          /\ R = Len(rendered) /\ k = DueCount(b % ClockMod) /\ k <= Q
    <2>1. Len(applied) \in Nat /\ Len(queue) \in Nat /\ Len(rendered) \in Nat
      BY Lengths
    <2>2. DueCount(b % ClockMod) \in 0 .. Len(queue)
      BY ServiceLists
    <2>3. QED
      BY <2>1, <2>2 DEF LogInv
  <1>2. /\ Len(queue') = Q - k
        /\ \A i \in 1 .. Q - k : queue'[i] = queue[k + i]
        /\ Len(applied') = A + k
        /\ \A i \in 1 .. A : applied'[i] = applied[i]
        /\ \A i \in 1 .. k : applied'[A + i] = queue[i].n
    BY <1>1, ServiceLists
  <1>3. \A i \in 1 .. Q : queue[i].n = A + i /\ queue[i].time = accepted[A + i].due % ClockMod
    BY <1>1 DEF LogInv
  <1>4. \A i \in 1 .. A + k : applied'[i] = i
    <2>1. ASSUME NEW i \in 1 .. A + k, i > A PROVE applied'[i] = i
      <3>1. PICK j \in 1 .. k : i = A + j
        <4>1. i - A \in 1 .. k /\ i = A + (i - A)
          BY <1>1, <2>1
        <4>2. QED
          BY <4>1
      <3>2. j \in 1 .. Q
        BY <1>1, <3>1
      <3>3. QED
        BY <1>2, <1>3, <3>1, <3>2
    <2>2. ASSUME NEW i \in 1 .. A PROVE applied'[i] = i
      BY <1>1, <1>2 DEF LogInv
    <2>3. QED
      BY <1>1, <2>1, <2>2
  <1>5. \A i \in 1 .. Q - k :
          queue'[i].n = (A + k) + i /\ queue'[i].time = accepted[(A + k) + i].due % ClockMod
    <2>1. ASSUME NEW i \in 1 .. Q - k
          PROVE  k + i \in 1 .. Q /\ A + (k + i) = (A + k) + i
      BY <1>1
    <2>2. QED
      BY <1>2, <1>3, <2>1
  <1>6. LogInv'
    <2>1. Len(applied') + Len(queue') = Len(accepted')
      <3>1. (A + k) + (Q - k) = A + Q /\ accepted' = accepted
        OBVIOUS
      <3>2. QED
        BY <1>1, <1>2, <3>1
    <2>2. /\ \A i \in 1 .. Len(applied') : applied'[i] = i
          /\ \A i \in 1 .. Len(queue') :
               /\ queue'[i].n = Len(applied') + i
               /\ queue'[i].time = accepted'[Len(applied') + i].due % ClockMod
      BY <1>2, <1>4, <1>5
    <2>3. \A i \in 1 .. Len(accepted') :
            /\ accepted'[i].after <= Len(rendered')
            /\ transport' = "live" => accepted'[i].due = Natives(accepted'[i].after)
      <3>1. \A i \in 1 .. Len(accepted) : accepted[i].after \in Nat /\ accepted[i].after <= R
        BY <1>1, Lengths DEF LogInv
      <3>2. R <= Len(rendered')
        BY <1>1
      <3>3. QED
        BY <1>1, <3>1, <3>2 DEF LogInv
    <2>4. QED
      BY <2>1, <2>2, <2>3 DEF LogInv, Natives
  <1>7. \A i \in 1 .. Q : Due(queue[i], b % ClockMod) <=> accepted[A + i].due <= b
    <2>1. ASSUME NEW i \in 1 .. Q
          PROVE  A + i \in A + 1 .. A + Q
      BY <1>1
    <2>2. QED
      BY <1>1, <2>1, QueuedTimes
  <1>8. ASSUME NEW i \in A + 1 .. A + k PROVE accepted[i].due <= b
    <2>1. PICK j \in 1 .. k : i = A + j
      <3>1. i - A \in 1 .. k /\ i = A + (i - A)
        BY <1>1
      <3>2. QED
        BY <3>1
    <2>2. j \in 1 .. Q /\ Due(queue[j], b % ClockMod)
      BY <1>1, <2>1, DueCountIs
    <2>3. QED
      BY <1>7, <2>1, <2>2
  <1>9. ASSUME NEW i \in A + k + 1 .. A + Q PROVE accepted[i].due > b
    <2>1. k + 1 \in 1 .. Q /\ k # Q /\ A + (k + 1) \in 1 .. A + Q /\ i \in 1 .. A + Q /\ A + (k + 1) <= i
      BY <1>1
    <2>2. ~(accepted[A + (k + 1)].due <= b)
      BY <1>1, <1>7, <2>1, DueCountIs
    <2>3. /\ accepted[A + (k + 1)].due \in Nat /\ accepted[i].due \in Nat
          /\ accepted[A + (k + 1)].due <= accepted[i].due
      BY <1>1, <2>1, Lengths DEF LogInv
    <2>4. QED
      BY <2>2, <2>3
  <1>10. QED
    BY SMTT(30), <1>1, <1>2, <1>6, <1>8, <1>9

\* Frames that the writes applied suffice for, and no others.
LEMMA FramesOnTime ==
  ASSUME KernelTypeOK, LogInv, FrameInv, NEW k \in Nat, Frames(k), UNCHANGED accepted,
         \A i \in 1 .. Len(applied) : accepted[i].due <= Natives(Len(rendered) + 1),
         k > 0 => \A i \in Len(applied) + 1 .. Len(accepted) :
                    accepted[i].due > Natives(Len(rendered) + k)
  PROVE  FrameInv'
  <1>1. PICK R \in Nat, A \in Nat, L \in Nat :
          R = Len(rendered) /\ A = Len(applied) /\ L = Len(accepted) /\ A <= L
    <2>1. Len(applied) \in Nat /\ Len(accepted) \in Nat /\ Len(queue) \in Nat /\ Len(rendered) \in Nat
      BY Lengths
    <2>2. QED
      BY <2>1 DEF LogInv
  <1>2. /\ Len(rendered') = R + k
        /\ \A f \in 1 .. R : rendered'[f] = rendered[f]
        /\ \A f \in R + 1 .. R + k : rendered'[f].applied = A
    BY <1>1, FramesLists
  <1>3. ASSUME NEW f \in R + 1 .. R + k, NEW i \in 1 .. L
        PROVE  accepted[i].after < f /\ accepted[i].due <= Natives(f) <=> i <= A
    <2>1. accepted[i].after < f
      <3>1. accepted[i].after \in Nat /\ accepted[i].after <= R
        BY <1>1, Lengths DEF LogInv
      <3>2. QED
        BY <3>1
    <2>2. /\ accepted[i].due \in Nat /\ Natives(f) \in Nat /\ Natives(R + 1) \in Nat
          /\ Natives(R + k) \in Nat /\ Natives(R + 1) <= Natives(f) /\ Natives(f) <= Natives(R + k)
      BY <1>1, Lengths, NativesType, NativesMonotone
    <2>3. CASE i <= A
      BY <1>1, <2>1, <2>2, <2>3
    <2>4. CASE i > A
      <3>1. i \in A + 1 .. L /\ k > 0
        BY <1>1, <2>4
      <3>2. accepted[i].due > Natives(R + k)
        BY <1>1, <3>1
      <3>3. QED
        BY <1>1, <2>2, <2>4, <3>2
    <2>5. QED
      BY <1>1, <2>3, <2>4
  <1>4. ASSUME NEW f \in 1 .. R + k
        PROVE  /\ rendered'[f].applied <= L
               /\ \A i \in 1 .. L : accepted[i].after < f /\ accepted[i].due <= Natives(f)
                                      <=> i <= rendered'[f].applied
    <2>1. CASE f <= R
      BY <1>1, <1>2, <2>1 DEF FrameInv
    <2>2. CASE f > R
      BY <1>1, <1>2, <1>3, <2>2
    <2>3. QED
      BY <1>1, <2>1, <2>2
  <1>5. QED
    BY <1>1, <1>2, <1>4 DEF FrameInv, Natives
-----------------------------------------------------------------------------
(* The renderer's steps.                                                   *)

LEMMA BeginBlockStep ==
  ASSUME KernelInv, BeginBlock
  PROVE  KernelInv'
  <1>1. PICK R \in Nat : R = Len(rendered)
    BY Lengths DEF KernelInv
  <1>2. /\ dsp = "idle" /\ dsp' = "block" /\ rendered' = rendered /\ accepted' = accepted
        /\ transport' = transport /\ seg' = seg
        /\ clock' = (clock + Advance) % ClockMod /\ phase' = (phase + Remainder) % Den
        /\ Service(chip, clock)
    BY DEF BeginBlock
  <1>3. clock = Natives(R) % ClockMod /\ phase = Rest(R) /\ Natives(R) \in Nat
    BY <1>1, <1>2, NativesType DEF KernelInv, ClockInv
  <1>4. KernelTypeOK'
    BY <1>2, ServiceLists DEF KernelInv, KernelTypeOK
  <1>5. ClockInv'
    <2>1. PICK a \in Int : a = Advance
      BY <1>3, BlockStep DEF Advance
    <2>2. Natives(R + BlockFrames) = Natives(R) + a /\ Rest(R + BlockFrames) = phase'
      BY <1>1, <1>2, <1>3, <2>1, BlockStep DEF Advance
    <2>3. clock' = Natives(R + BlockFrames) % ClockMod
      BY <1>2, <1>3, <2>1, <2>2, Wrapped
    <2>4. QED
      BY <1>1, <1>2, <2>2, <2>3 DEF ClockInv, End, Start, Natives, Rest
  <1>6. CursorInv'
    BY <1>2 DEF CursorInv
  <1>7. ASSUME transport # "both" PROVE OnTime'
    <2>1. LogInv /\ DueInv /\ FrameInv /\ KernelTypeOK
      BY <1>7 DEF KernelInv, OnTime
    <2>2. PICK A \in Nat, L \in Nat : A = Len(applied) /\ L = Len(accepted)
      BY <2>1, Lengths
    <2>3. \A i \in A + 1 .. L : /\ accepted[i].due \in Nat /\ Natives(R) <= accepted[i].due
                               /\ accepted[i].due < Natives(R) + Half
      <3>1. ASSUME NEW i \in A + 1 .. L PROVE accepted[i].due \in Nat
        BY <2>1, <2>2, Lengths
      <3>2. QED
        BY <1>1, <1>2, <2>1, <2>2, <3>1 DEF DueInv, Start
    <2>4. /\ LogInv'
          /\ Len(applied') \in A .. L
          /\ \A i \in A + 1 .. Len(applied') : accepted[i].due <= Natives(R)
          /\ \A i \in Len(applied') + 1 .. L : accepted[i].due > Natives(R)
      <3>1. \A i \in A + 1 .. L : /\ Natives(R) - Half <= accepted[i].due
                                 /\ accepted[i].due < Natives(R) + Half
        BY <1>3, <2>3, Constants
      <3>2. Service(chip, Natives(R) % ClockMod) /\ UNCHANGED <<accepted, transport>>
            /\ Len(rendered') \in Nat /\ Len(rendered) <= Len(rendered')
        BY <1>1, <1>2, <1>3
      <3>3. QED
        BY <1>3, <2>1, <2>2, <3>1, <3>2, ServiceOnTime
    <2>5. DueInv'
      <3>1. \A i \in 1 .. Len(applied') : accepted[i].due <= Natives(R)
        BY <1>1, <1>2, <2>1, <2>2, <2>4 DEF DueInv
      <3>2. \A i \in Len(applied') + 1 .. L :
              /\ accepted[i].due >= Natives(R) /\ accepted[i].due # Natives(R)
              /\ accepted[i].due < Natives(R) + Half
        BY <1>3, <2>2, <2>3, <2>4
      <3>3. QED
        BY <1>1, <1>2, <2>2, <3>1, <3>2 DEF DueInv, Start, Natives, Half
    <2>6. FrameInv'
      BY <1>2, <2>1 DEF FrameInv, Natives
    <2>7. QED
      BY <2>4, <2>5, <2>6 DEF OnTime
  <1>8. QED
    BY <1>2, <1>4, <1>5, <1>6, <1>7 DEF KernelInv

\* The head is not due by the block's end: no write queued is.
LEMMA WholeBlockStep ==
  ASSUME KernelInv, WholeBlock
  PROVE  KernelInv'
  <1>1. PICK R \in Nat : R = Len(rendered)
    BY Lengths DEF KernelInv
  <1>2. /\ dsp = "block" /\ dsp' = "idle" /\ ~LandsInside /\ Frames(BlockFrames)
        /\ UNCHANGED <<transport, clock, phase, queue, seg, accepted, applied>>
    BY DEF WholeBlock
  <1>3. KernelTypeOK /\ BlockFrames \in Nat /\ BlockFrames >= 1
    BY Constants DEF KernelInv
  <1>4. /\ rendered' \in Seq({rendered'[f] : f \in 1 .. Len(rendered')})
        /\ Len(rendered') = R + BlockFrames
        /\ \A f \in 1 .. R : rendered'[f] = rendered[f]
        /\ \A f \in R + 1 .. R + BlockFrames : rendered'[f].applied = Len(applied)
    BY <1>1, <1>2, <1>3, FramesLists
  <1>5. KernelTypeOK'
    <2>1. \A f \in 1 .. Len(rendered') : rendered'[f].applied \in Nat
      <3>1. \A f \in 1 .. R : rendered[f].applied \in Nat
        BY <1>1, <1>3, Lengths
      <3>2. Len(applied) \in Nat
        BY <1>3, Lengths
      <3>3. QED
        BY <1>3, <1>4, <3>1, <3>2
    <2>2. QED
      BY <1>2, <1>3, <1>4, <2>1 DEF KernelTypeOK
  <1>6. clock = Natives(R + BlockFrames) % ClockMod /\ phase = Rest(R + BlockFrames)
    BY <1>1, <1>2 DEF KernelInv, ClockInv, End, Start
  <1>7. ClockInv' /\ CursorInv'
    BY <1>2, <1>4, <1>6 DEF ClockInv, CursorInv, Natives, Rest
  <1>8. ASSUME transport # "both" PROVE OnTime'
    <2>1. LogInv /\ DueInv /\ FrameInv
      BY <1>8 DEF KernelInv, OnTime
    <2>2. PICK A \in Nat, L \in Nat, Q \in Nat :
            A = Len(applied) /\ L = Len(accepted) /\ Q = Len(queue) /\ A + Q = L
      <3>1. Len(applied) \in Nat /\ Len(accepted) \in Nat /\ Len(queue) \in Nat
        BY <1>3, Lengths
      <3>2. QED
        BY <2>1, <3>1 DEF LogInv
    <2>3. /\ Natives(R) \in Nat /\ Natives(R + 1) \in Nat /\ Natives(R + BlockFrames) \in Nat
          /\ Natives(R) <= Natives(R + 1) /\ Natives(R + 1) <= Natives(R + BlockFrames)
          /\ Natives(R + BlockFrames) <= Natives(R) + Half /\ Half \in Nat
      <3>1. Natives(R + BlockFrames) <= Natives(R) + 2 * BlockFrames
        BY <1>3, NativesBound
      <3>2. R + 1 <= R + BlockFrames /\ R + 1 \in Nat /\ R + BlockFrames \in Nat
        BY <1>3
      <3>3. Natives(R) \in Nat /\ Natives(R + 1) \in Nat /\ Natives(R + BlockFrames) \in Nat
        BY <3>2, NativesType
      <3>4. Natives(R) <= Natives(R + 1) /\ Natives(R + 1) <= Natives(R + BlockFrames)
        BY <3>2, NativesMonotone
      <3>5. QED
        BY <3>1, <3>3, <3>4, Constants
    <2>4. \A i \in A + 1 .. L : accepted[i].due \in Nat /\ accepted[i].due < Natives(R) + Half
      <3>1. ASSUME NEW i \in A + 1 .. L PROVE accepted[i].due \in Nat
        BY <1>3, <2>2, Lengths
      <3>2. QED
        BY <1>1, <1>2, <2>1, <2>2, <3>1 DEF DueInv, Start
    <2>5. ASSUME NEW i \in A + 1 .. L PROVE accepted[i].due > Natives(R + BlockFrames)
      <3>1. Q >= 1 /\ A + 1 \in A + 1 .. L /\ 1 \in 1 .. Q
        BY <2>2
      <3>2. queue # <<>> /\ Head(queue) = queue[1]
        BY <1>3, <2>2, <3>1 DEF KernelTypeOK
      <3>3. ~Due(queue[1], Natives(R + BlockFrames) % ClockMod)
        BY <1>2, <1>6, <3>2 DEF LandsInside, Due
      <3>4. accepted[A + 1].due \in Nat /\ accepted[A + 1].due < Natives(R + BlockFrames) + Half
            /\ Natives(R + BlockFrames) - Half <= accepted[A + 1].due
        <4>1. accepted[A + 1].due >= Natives(R)
          BY <1>1, <2>1, <2>2, <3>1 DEF DueInv
        <4>2. QED
          BY <2>3, <2>4, <3>1, <4>1
      <3>5. ~(accepted[A + 1].due <= Natives(R + BlockFrames))
        BY <1>3, <2>1, <2>2, <2>3, <3>1, <3>3, <3>4, QueuedTimes
      <3>6. accepted[A + 1].due <= accepted[i].due
        <4>1. A + 1 \in 1 .. L /\ i \in 1 .. L /\ A + 1 <= i
          BY <2>2
        <4>2. QED
          BY <2>1, <2>2, <4>1 DEF LogInv
      <3>7. QED
        BY <2>3, <2>4, <3>4, <3>5, <3>6
    <2>6. \A i \in 1 .. A : accepted[i].due \in Nat /\ accepted[i].due <= Natives(R)
      <3>1. ASSUME NEW i \in 1 .. A PROVE accepted[i].due \in Nat
        BY <1>3, <2>2, Lengths
      <3>2. QED
        BY <1>1, <1>2, <2>1, <2>2, <3>1 DEF DueInv
    <2>7. FrameInv'
      <3>1. \A i \in 1 .. A : accepted[i].due <= Natives(R + 1)
        BY <2>3, <2>6
      <3>2. QED
        BY <1>1, <1>2, <1>3, <2>1, <2>2, <2>5, <3>1, FramesOnTime
    <2>8. DueInv'
      <3>1. \A i \in 1 .. A : accepted[i].due <= Natives(R + BlockFrames)
        BY <2>3, <2>6
      <3>2. \A i \in A + 1 .. L : /\ accepted[i].due >= Natives(R + BlockFrames)
                                 /\ accepted[i].due < Natives(R + BlockFrames) + Half
        BY <2>3, <2>4, <2>5
      <3>3. QED
        BY <1>2, <1>4, <2>2, <3>1, <3>2 DEF DueInv, Start, Natives, Half
    <2>9. LogInv'
      <3>1. \A i \in 1 .. L : accepted[i].after \in Nat /\ accepted[i].after <= R + BlockFrames
        <4>1. \A i \in 1 .. L : accepted[i].after \in Nat /\ accepted[i].after <= R
          BY <1>1, <1>3, <2>1, <2>2, Lengths DEF LogInv
        <4>2. QED
          BY <1>3, <4>1
      <3>2. QED
        BY <1>2, <1>4, <2>1, <2>2, <3>1 DEF LogInv, Natives
    <2>10. QED
      BY <2>7, <2>8, <2>9 DEF OnTime
  <1>9. QED
    BY <1>2, <1>5, <1>7, <1>8 DEF KernelInv

\* The clock and the remainder the block began with are found again.
LEMMA SplitStep ==
  ASSUME KernelInv, Split
  PROVE  KernelInv'
  <1>1. PICK R \in Nat : R = Len(rendered)
    BY Lengths DEF KernelInv
  <1>2. PICK adv \in Int : adv = IF phase >= Remainder THEN Base ELSE Base + 1
    BY <1>1, BlockStep
  <1>3. /\ dsp = "block" /\ dsp' = "split"
        /\ seg' = [native |-> (clock - adv) % ClockMod, adv |-> adv, start |-> 0,
                   phase |-> (phase - Remainder) % Den, consumed |-> 0]
        /\ UNCHANGED <<transport, clock, phase, queue, accepted, applied, rendered>>
    BY <1>2 DEF Split
  <1>4. clock = Natives(R + BlockFrames) % ClockMod /\ phase = Rest(R + BlockFrames)
    BY <1>1, <1>3 DEF KernelInv, ClockInv, End, Start
  <1>5. /\ Natives(R) \in Nat /\ Natives(R + BlockFrames) \in Nat /\ Natives(R + 1) \in Nat
        /\ Rest(R) \in Nat /\ Natives(R) <= Natives(R + 1) /\ Natives(R) <= Natives(R + BlockFrames)
    <2>1. R + 1 \in Nat /\ R + BlockFrames \in Nat /\ R <= R + 1 /\ R <= R + BlockFrames
      BY Constants
    <2>2. Natives(R) \in Nat /\ Natives(R + BlockFrames) \in Nat /\ Natives(R + 1) \in Nat
          /\ Rest(R) \in Nat
      BY <2>1, NativesType
    <2>3. QED
      BY <2>1, <2>2, NativesMonotone
  <1>6. adv = Natives(R + BlockFrames) - Natives(R) /\ (phase - Remainder) % Den = Rest(R)
    <2>1. /\ Natives(R + BlockFrames) = Natives(R) + (IF Rest(R) + Remainder < Den THEN Base ELSE Base + 1)
          /\ (Rest(R + BlockFrames) - Remainder) % Den = Rest(R)
          /\ Rest(R + BlockFrames) >= Remainder <=> Rest(R) + Remainder < Den
      BY BlockStep
    <2>2. QED
      BY <1>2, <1>4, <1>5, <2>1
  <1>7. (clock - adv) % ClockMod = Natives(R) % ClockMod /\ Natives(R) % ClockMod \in Nat
    <2>1. ((Natives(R + BlockFrames) % ClockMod) - adv) % ClockMod
             = (Natives(R + BlockFrames) - adv) % ClockMod
      BY <1>5, Wrapped
    <2>2. Natives(R + BlockFrames) - adv = Natives(R)
      BY <1>5, <1>6
    <2>3. Natives(R) % ClockMod \in 0 .. ClockMod - 1
      BY <1>5, Wrapped
    <2>4. QED
      BY <1>4, <2>1, <2>2, <2>3
  <1>8. /\ seg'.native = Natives(R) % ClockMod /\ seg'.start = 0 /\ seg'.consumed = 0
        /\ seg'.adv = Natives(R + BlockFrames) - Natives(R) /\ seg'.phase = Rest(R)
        /\ seg' \in [native : Nat, adv : Nat, start : Nat, phase : Nat, consumed : Nat]
    BY <1>3, <1>5, <1>6, <1>7
  <1>9. KernelTypeOK'
    BY <1>3, <1>8 DEF KernelInv, KernelTypeOK
  <1>10. ClockInv'
    BY <1>1, <1>3, <1>4, <1>8, Constants DEF ClockInv, End, Start, Natives, Rest
  <1>11. CursorInv'
    <2>1. /\ seg'.start < BlockFrames /\ seg'.start <= Len(rendered')
          /\ seg'.consumed = Natives(R) - Natives(R) /\ R - seg'.start = R
      BY <1>1, <1>3, <1>5, <1>8, Constants
    <2>2. QED
      BY <1>1, <1>3, <1>8, <2>1 DEF CursorInv, End, Start, Natives, Rest
  <1>12. ASSUME transport # "both" PROVE OnTime'
    <2>1. LogInv /\ DueInv /\ FrameInv /\ KernelTypeOK
      BY <1>12 DEF KernelInv, OnTime
    <2>2. \A i \in 1 .. Len(applied) : accepted[i].due <= Natives(R + 1)
      <3>1. PICK A \in Nat, L \in Nat : A = Len(applied) /\ L = Len(accepted) /\ A <= L
        <4>1. Len(applied) \in Nat /\ Len(accepted) \in Nat /\ Len(queue) \in Nat
          BY <2>1, Lengths
        <4>2. QED
          BY <2>1, <4>1 DEF LogInv
      <3>2. ASSUME NEW i \in 1 .. A PROVE accepted[i].due \in Nat
        BY <2>1, <3>1, Lengths
      <3>3. \A i \in 1 .. A : accepted[i].due <= Natives(R)
        BY <1>1, <1>3, <2>1, <3>1 DEF DueInv
      <3>4. QED
        BY <1>5, <3>1, <3>2, <3>3
    <2>3. DueInv'
      <3>1. R - seg'.start = R
        BY <1>8
      <3>2. \A i \in Len(applied) + 1 .. Len(accepted) :
              /\ accepted[i].due >= Natives(R) /\ accepted[i].due # Natives(R)
              /\ accepted[i].due < Natives(R) + Half
        BY <1>1, <1>3, <2>1 DEF DueInv, Start
      <3>3. QED
        BY <1>1, <1>3, <2>2, <3>1, <3>2 DEF DueInv, Start, Natives, Half
    <2>4. LogInv' /\ FrameInv'
      BY <1>3, <2>1 DEF LogInv, FrameInv, Natives
    <2>5. QED
      BY <2>3, <2>4 DEF OnTime
  <1>13. QED
    BY <1>3, <1>9, <1>10, <1>11, <1>12 DEF KernelInv
-----------------------------------------------------------------------------
(* The walk of the split driver to the frame its head lands in.            *)

\* The cursor, k frames on.
LEMMA CursorAfter ==
  ASSUME KernelInv, dsp = "split", NEW k \in Nat
  PROVE  /\ Consumed(k) = Natives(Len(rendered) + k) - Natives(Start)
         /\ (seg.phase + k * Num) % Den = Rest(Len(rendered) + k)
         /\ Start \in Nat /\ Start <= Len(rendered) /\ Len(rendered) < Start + BlockFrames
         /\ Len(rendered) \in Nat
  <1>1. PICK R \in Nat : R = Len(rendered)
    BY Lengths DEF KernelInv
  <1>2. seg.start \in Nat /\ seg.start < BlockFrames /\ seg.start <= R /\ Start = R - seg.start
    BY <1>1 DEF KernelInv, KernelTypeOK, CursorInv, Start
  <1>3. seg.phase = Rest(R) /\ seg.consumed = Natives(R) - Natives(Start)
    BY <1>1 DEF KernelInv, CursorInv
  <1>4. Start \in Nat /\ Start <= R /\ R < Start + BlockFrames
    BY <1>2, Constants
  <1>5. PICK n \in Nat, s \in Nat, g \in Int :
          n = Natives(R) /\ s = Natives(Start) /\ g = ((Rest(R) + k * Num) \div Den)
    <2>1. k * Num \in Int /\ Rest(R) \in Int
      BY NativesType, Constants
    <2>2. (Rest(R) + k * Num) \div Den \in Int
      <3>1. Rest(R) + k * Num \in Int
        BY <2>1
      <3>2. QED
        BY <3>1, Division, Constants
    <2>3. QED
      BY <1>4, <2>2, NativesType
  <1>6. Natives(R + k) = n + g /\ (Rest(R) + k * Num) % Den = Rest(R + k)
    BY <1>5, NativesPlus
  <1>7. Consumed(k) = (n - s) + g
    BY <1>3, <1>5 DEF Consumed
  <1>8. QED
    BY <1>1, <1>3, <1>4, <1>5, <1>6, <1>7

LEMMA Landing ==
  ASSUME KernelInv, dsp = "split", HeadLands, HeadOffset \in Int
  PROVE  /\ LandingOffset \in 0 .. BlockFrames - seg.start - 1
         /\ Consumed(LandingOffset + 1) >= HeadOffset
         /\ LandingOffset > 0 => Consumed(LandingOffset) < HeadOffset
  <1>1. PICK R \in Nat, S \in Nat, F \in Nat :
          /\ R = Len(rendered) /\ S = Start /\ F = BlockFrames /\ S <= R /\ R < S + F
          /\ seg.start = R - S
    <2>1. Start \in Nat /\ Start <= Len(rendered) /\ Len(rendered) < Start + BlockFrames
          /\ Len(rendered) \in Nat
      BY CursorAfter
    <2>2. seg.start \in Nat /\ Start = Len(rendered) - seg.start
      BY DEF Start, KernelInv, KernelTypeOK
    <2>3. seg.start = Len(rendered) - Start
      BY <2>1, <2>2
    <2>4. QED
      BY <2>1, <2>3, Constants
  <1>2. seg.adv = Natives(S + F) - Natives(S) /\ HeadOffset <= seg.adv
    BY <1>1 DEF KernelInv, CursorInv, End, HeadLands
  <1>3. \A j \in Nat : Consumed(j) \in Int
    <2>1. ASSUME NEW j \in Nat PROVE Consumed(j) \in Int
      <3>1. R + j \in Nat
        OBVIOUS
      <3>2. Natives(R + j) \in Int /\ Natives(S) \in Int
        BY <3>1, NativesType
      <3>3. QED
        BY <1>1, <3>2, CursorAfter
    <2>2. QED
      BY <2>1
  <1> DEFINE Reached == {j \in 0 .. F - (R - S) - 1 : Consumed(j + 1) >= HeadOffset}
             IsLanding(j) == /\ Consumed(j + 1) >= HeadOffset
                             /\ \A m \in 0 .. j - 1 : Consumed(m + 1) < HeadOffset
  <1>4. F - (R - S) - 1 \in Reached
    <2>1. F - (R - S) - 1 \in Nat /\ (F - (R - S) - 1) + 1 \in Nat
          /\ R + ((F - (R - S) - 1) + 1) = S + F
      BY <1>1
    <2>2. Consumed((F - (R - S) - 1) + 1) = Natives(S + F) - Natives(S)
      BY <1>1, <2>1, CursorAfter
    <2>3. Consumed((F - (R - S) - 1) + 1) >= HeadOffset
      BY <1>2, <1>3, <2>1, <2>2
    <2>4. QED
      BY <2>1, <2>3
  <1>5. PICK k \in Reached : \A j \in Reached : k <= j
    <2>1. \A j \in 0 .. F - (R - S) - 1 : j \in Nat
      BY <1>1
    <2>2. Reached \in SUBSET Nat
      BY <2>1
    <2> HIDE DEF Reached
    <2>3. Reached # {}
      BY <1>4
    <2>4. QED
      BY <2>2, <2>3, Least
  <1>6. k \in 0 .. F - (R - S) - 1 /\ IsLanding(k)
    <2>1. ASSUME NEW m \in 0 .. k - 1 PROVE Consumed(m + 1) < HeadOffset
      <3>1. m \in 0 .. F - (R - S) - 1 /\ ~(k <= m) /\ m + 1 \in Nat
        BY <1>5
      <3>2. m \notin Reached
        BY <1>5, <3>1
      <3>3. ~(Consumed(m + 1) >= HeadOffset)
        BY <3>1, <3>2
      <3>4. QED
        BY <1>3, <3>1, <3>3
    <2>2. QED
      BY <1>5, <2>1
  <1>7. \A j, m \in 0 .. F : IsLanding(j) /\ IsLanding(m) => j = m
    <2>1. ASSUME NEW j \in 0 .. F, NEW m \in 0 .. F, IsLanding(j), IsLanding(m) PROVE ~(j < m)
      <3>1. SUFFICES ASSUME j < m PROVE FALSE
        OBVIOUS
      <3>2. j \in 0 .. m - 1 /\ j + 1 \in Nat
        BY <3>1
      <3>3. Consumed(j + 1) < HeadOffset /\ Consumed(j + 1) >= HeadOffset
        BY <2>1, <3>2
      <3>4. QED
        BY <1>3, <3>2, <3>3
    <2> HIDE DEF IsLanding
    <2>2. QED
      BY <2>1
  <1>8. LandingOffset = CHOOSE j \in 0 .. F : IsLanding(j)
    BY <1>1 DEF LandingOffset
  <1> HIDE DEF IsLanding
  <1>9. k \in 0 .. F
    BY <1>1, <1>6
  <1>10. LandingOffset = k
    BY <1>6, <1>7, <1>8, <1>9
  <1>11. k > 0 => Consumed(k) < HeadOffset
    <2>1. ASSUME k > 0 PROVE k - 1 \in 0 .. k - 1 /\ (k - 1) + 1 = k
      BY <1>9, <2>1
    <2>2. QED
      BY <1>6, <2>1 DEF IsLanding
  <1>12. QED
    BY <1>1, <1>6, <1>10, <1>11 DEF IsLanding

\* The head of the queue, seen from the block's start.
LEMMA HeadSeen ==
  ASSUME KernelInv, dsp = "split", queue # <<>>
  PROVE  /\ HeadOffset \in Int
         /\ 1 \in 1 .. Len(queue)
         /\ transport # "both" =>
              /\ HeadOffset = accepted[Len(applied) + 1].due - Natives(Start)
              /\ Len(applied) + 1 \in 1 .. Len(accepted)
              /\ \A i \in Len(applied) + 1 .. Len(accepted) :
                   accepted[Len(applied) + 1].due <= accepted[i].due
  <1>1. KernelTypeOK /\ queue \in Seq([time : 0 .. ClockMod - 1, n : Nat])
    BY DEF KernelInv, KernelTypeOK
  <1>2. Head(queue) = queue[1] /\ 1 \in 1 .. Len(queue) /\ queue[1].time \in 0 .. ClockMod - 1
    <2>1. Len(queue) \in Nat \ {0}
      BY <1>1, EmptySeq
    <2>2. 1 \in 1 .. Len(queue)
      BY <2>1
    <2>3. QED
      BY <1>1, <2>2, Lengths
  <1>3. PICK R \in Nat, S \in Nat : R = Len(rendered) /\ S = Start /\ S <= R
    BY CursorAfter
  <1>4. seg.native = Natives(S) % ClockMod /\ Natives(S) \in Nat /\ Natives(R) \in Nat
        /\ Natives(S) <= Natives(R)
    BY <1>3, NativesType, NativesMonotone DEF KernelInv, CursorInv
  <1>5. HeadOffset = Distance(queue[1].time, Natives(S) % ClockMod)
    BY <1>2, <1>4 DEF HeadOffset
  <1>6. HeadOffset \in Int
    <2>1. Distance(queue[1].time, Natives(S) % ClockMod) \in 0 .. ClockMod - 1
      BY <1>2, <1>4, Stamp
    <2>2. QED
      BY <1>5, <2>1
  <1>7. ASSUME transport # "both"
        PROVE  /\ HeadOffset = accepted[Len(applied) + 1].due - Natives(S)
               /\ Len(applied) + 1 \in 1 .. Len(accepted)
               /\ \A i \in Len(applied) + 1 .. Len(accepted) :
                    accepted[Len(applied) + 1].due <= accepted[i].due
    <2>1. LogInv /\ DueInv
      BY <1>7 DEF KernelInv, OnTime
    <2>2. PICK A \in Nat, L \in Nat : A = Len(applied) /\ L = Len(accepted) /\ A + 1 <= L
      <3>1. Len(applied) \in Nat /\ Len(accepted) \in Nat /\ Len(queue) \in Nat
        BY <1>1, Lengths
      <3>2. QED
        BY <1>2, <2>1, <3>1 DEF LogInv
    <2>3. A + 1 \in 1 .. L /\ A + 1 \in A + 1 .. L
      BY <2>2
    <2>4. PICK due \in Nat : due = accepted[A + 1].due
      BY <1>1, <2>2, <2>3, Lengths
    <2>5. due >= Natives(R) /\ due < Natives(S) + Half
      BY <1>3, <2>1, <2>2, <2>3, <2>4 DEF DueInv
    <2>6. Natives(S) - Half <= due /\ due >= Natives(S)
      BY <1>4, <2>5, Constants
    <2>7. Distance(queue[1].time, Natives(S) % ClockMod) = due - Natives(S)
      BY <1>1, <1>2, <1>4, <2>1, <2>2, <2>4, <2>5, <2>6, QueuedTimes
    <2>8. ASSUME NEW i \in A + 1 .. L PROVE accepted[A + 1].due <= accepted[i].due
      <3>1. A + 1 \in 1 .. L /\ i \in 1 .. L /\ A + 1 <= i
        BY <2>2
      <3>2. QED
        BY <2>1, <2>2, <3>1 DEF LogInv
    <2>9. QED
      BY <1>5, <2>2, <2>3, <2>4, <2>7, <2>8
  <1>8. QED
    BY <1>2, <1>3, <1>6, <1>7

LEMMA SegmentStep ==
  ASSUME KernelInv, Segment
  PROVE  KernelInv'
  <1>1. dsp = "split" /\ HeadLands /\ queue # <<>> /\ HeadOffset \in Int
    BY HeadSeen DEF Segment, HeadLands
  <1>2. PICK R \in Nat, S \in Nat, k \in Nat :
          /\ R = Len(rendered) /\ S = Start /\ k = LandingOffset
          /\ S <= R /\ R + k < S + BlockFrames /\ R - seg.start = S
          /\ seg.start \in Nat
    <2>1. Start \in Nat /\ Start <= Len(rendered) /\ Len(rendered) \in Nat
      BY <1>1, CursorAfter
    <2>2. seg.start \in Nat /\ Start = Len(rendered) - seg.start
      BY <1>1 DEF Start, KernelInv, KernelTypeOK
    <2>3. LandingOffset \in 0 .. BlockFrames - seg.start - 1
      BY <1>1, Landing
    <2>4. QED
      BY <2>1, <2>2, <2>3, Constants
  <1>3. /\ Frames(k)
        /\ Service(After(k), (seg.native + Consumed(k + 1)) % ClockMod)
        /\ seg' = [seg EXCEPT !.start = @ + k, !.consumed = Consumed(k),
                              !.phase = (seg.phase + k * Num) % Den]
        /\ UNCHANGED <<transport, clock, phase, dsp, reply, accepted>>
    BY <1>2 DEF Segment
  <1>4. KernelTypeOK /\ seg \in [native : Nat, adv : Nat, start : Nat, phase : Nat, consumed : Nat]
    BY DEF KernelInv, KernelTypeOK
  <1>5. R + k \in Nat /\ k + 1 \in Nat /\ R + (k + 1) = R + k + 1 /\ R + k + 1 \in Nat
        /\ R + 1 \in Nat /\ S + BlockFrames \in Nat
    BY Constants
  <1>6. /\ Natives(R) \in Nat /\ Natives(R + 1) \in Nat /\ Natives(R + k) \in Nat
        /\ Natives(R + k + 1) \in Nat /\ Natives(S) \in Nat /\ Rest(R + k) \in Nat
        /\ Natives(S + BlockFrames) \in Nat
    BY <1>5, NativesType
  <1>7. /\ Natives(S) <= Natives(R) /\ Natives(R) <= Natives(R + k)
        /\ Natives(R + k) <= Natives(R + k + 1) /\ Natives(R + 1) <= Natives(R + k + 1)
    BY <1>2, <1>5, NativesMonotone
  <1>8. /\ Consumed(k) = Natives(R + k) - Natives(S)
        /\ Consumed(k + 1) = Natives(R + k + 1) - Natives(S)
        /\ (seg.phase + k * Num) % Den = Rest(R + k)
    BY <1>1, <1>2, <1>5, CursorAfter
  <1>9. /\ seg'.native = seg.native /\ seg'.adv = seg.adv /\ seg'.start = seg.start + k
        /\ seg'.consumed = Natives(R + k) - Natives(S) /\ seg'.phase = Rest(R + k)
        /\ seg' \in [native : Nat, adv : Nat, start : Nat, phase : Nat, consumed : Nat]
    <2>1. PICK c \in Nat, p \in Nat, t \in Nat :
            c = Natives(R + k) - Natives(S) /\ p = Rest(R + k) /\ t = seg.start + k
      BY SMTT(30), <1>2, <1>6, <1>7
    <2>2. seg' = [seg EXCEPT !.start = t, !.consumed = c, !.phase = p]
      BY <1>3, <1>8, <2>1
    <2>3. QED
      BY <1>4, <2>1, <2>2
  <1>10. (seg.native + Consumed(k + 1)) % ClockMod = Natives(R + k + 1) % ClockMod
    <2>1. seg.native = Natives(S) % ClockMod
      BY <1>1, <1>2 DEF KernelInv, CursorInv
    <2>2. ((Natives(S) % ClockMod) + (Natives(R + k + 1) - Natives(S))) % ClockMod
             = (Natives(S) + (Natives(R + k + 1) - Natives(S))) % ClockMod
      <3>1. Natives(R + k + 1) - Natives(S) \in Int
        BY <1>6
      <3>2. QED
        BY <1>6, <3>1, Wrapped
    <2>3. Natives(S) + (Natives(R + k + 1) - Natives(S)) = Natives(R + k + 1)
      BY <1>6
    <2>4. QED
      BY <1>8, <2>1, <2>2, <2>3
  <1>11. /\ rendered' \in Seq({rendered'[f] : f \in 1 .. Len(rendered')})
         /\ Len(rendered') = R + k
         /\ \A f \in 1 .. R : rendered'[f] = rendered[f]
         /\ \A f \in R + 1 .. R + k : rendered'[f].applied = Len(applied)
    BY <1>2, <1>3, <1>4, FramesLists
  <1>12. Start' = S /\ End' = S + BlockFrames
    <2>1. PICK z \in Nat : z = seg'.start /\ R + k - z = S
      <3>1. PICK t \in Nat : t = seg.start /\ R - t = S
        BY <1>2
      <3>2. t + k \in Nat /\ R + k - (t + k) = S
        BY <3>1
      <3>3. QED
        BY <1>9, <3>1, <3>2
    <2>2. Start' = IF dsp' = "split" THEN Len(rendered') - seg'.start ELSE Len(rendered')
      BY DEF Start
    <2>3. dsp' = "split" /\ Len(rendered') = R + k
      BY <1>1, <1>3, <1>11
    <2>4. Start' = S
      BY <2>1, <2>2, <2>3
    <2>5. QED
      BY <2>4 DEF End
  <1>13. KernelTypeOK'
    <2>1. \A f \in 1 .. Len(rendered') : rendered'[f].applied \in Nat
      <3>1. \A f \in 1 .. R : rendered[f].applied \in Nat
        BY <1>2, <1>4, Lengths
      <3>2. Len(applied) \in Nat
        BY <1>4, Lengths
      <3>3. QED
        BY <1>11, <3>1, <3>2
    <2>2. /\ queue' \in Seq([time : 0 .. ClockMod - 1, n : Nat]) /\ applied' \in Seq(Nat)
      BY <1>3, <1>4, ServiceLists
    <2>3. QED
      BY <1>3, <1>4, <1>9, <1>11, <2>1, <2>2 DEF KernelTypeOK
  <1>14. ClockInv'
    <2>1. clock = Natives(S + BlockFrames) % ClockMod /\ phase = Rest(S + BlockFrames)
      BY <1>1, <1>2 DEF KernelInv, ClockInv, End
    <2>2. QED
      BY <1>1, <1>3, <1>12, <2>1 DEF ClockInv, Natives, Rest
  <1>15. CursorInv'
    <2>1. seg'.start < BlockFrames /\ seg'.start <= Len(rendered')
      BY <1>2, <1>9, <1>11, Constants
    <2>2. seg.native = Natives(S) % ClockMod /\ seg.adv = Natives(S + BlockFrames) - Natives(S)
      BY <1>1, <1>2 DEF KernelInv, CursorInv, End
    <2>3. QED
      BY <1>3, <1>9, <1>11, <1>12, <2>1, <2>2 DEF CursorInv, Natives, Rest
  <1>16. ASSUME transport # "both" PROVE OnTime'
    <2>1. LogInv /\ DueInv /\ FrameInv
      BY <1>16 DEF KernelInv, OnTime
    <2>2. PICK A \in Nat, L \in Nat : A = Len(applied) /\ L = Len(accepted) /\ A + 1 <= L
      <3>1. Len(applied) \in Nat /\ Len(accepted) \in Nat /\ Len(applied) + 1 \in 1 .. Len(accepted)
        BY <1>1, <1>4, <1>16, HeadSeen, Lengths
      <3>2. QED
        BY <3>1
    <2>3. \A i \in 1 .. L : accepted[i].due \in Nat
      BY <1>4, <2>2, Lengths
    <2>4. \A i \in A + 1 .. L :
            /\ accepted[i].due \in Nat
            /\ accepted[i].due >= Natives(R) /\ accepted[i].due < Natives(S) + Half
            /\ accepted[A + 1].due <= accepted[i].due
      <3>1. ASSUME NEW i \in A + 1 .. L PROVE accepted[i].due \in Nat
        BY <2>2, <2>3
      <3>2. QED
        BY <1>1, <1>2, <1>16, <2>1, <2>2, <3>1, HeadSeen DEF DueInv
    <2>5. \A i \in 1 .. A : accepted[i].due \in Nat /\ accepted[i].due <= Natives(R + 1)
      <3>1. ASSUME NEW i \in 1 .. A PROVE accepted[i].due \in Nat
        BY <2>2, <2>3
      <3>2. QED
        BY <1>1, <1>2, <2>1, <2>2, <3>1 DEF DueInv
    <2>6. k > 0 => \A i \in A + 1 .. L : accepted[i].due > Natives(R + k)
      <3>1. SUFFICES ASSUME k > 0, NEW i \in A + 1 .. L PROVE accepted[i].due > Natives(R + k)
        OBVIOUS
      <3>2. HeadOffset = accepted[A + 1].due - Natives(S) /\ Consumed(k) < HeadOffset
        BY <1>1, <1>2, <1>16, <2>2, <3>1, HeadSeen, Landing
      <3>3. A + 1 \in A + 1 .. L
        BY <2>2
      <3>4. QED
        BY <1>6, <1>8, <2>4, <3>2, <3>3
    <2>7. FrameInv'
      BY <1>2, <1>3, <1>4, <2>1, <2>2, <2>5, <2>6, FramesOnTime
    <2>8. /\ LogInv'
          /\ Len(applied') \in A .. L
          /\ \A i \in A + 1 .. Len(applied') : accepted[i].due <= Natives(R + k + 1)
          /\ \A i \in Len(applied') + 1 .. L : accepted[i].due > Natives(R + k + 1)
      <3>1. \A i \in A + 1 .. L : /\ Natives(R + k + 1) - Half <= accepted[i].due
                                 /\ accepted[i].due < Natives(R + k + 1) + Half
        <4>1. Natives(R + k + 1) <= Natives(R) + 2 * (k + 1) /\ 2 * (k + 1) <= Half
          <5>1. Natives(R + (k + 1)) <= Natives(R) + 2 * (k + 1)
            BY <1>5, NativesBound
          <5>2. QED
            BY <1>2, <1>5, <5>1, Constants
        <4>2. QED
          BY <1>6, <1>7, <2>4, <4>1, Constants
      <3>2. /\ Service(After(k), Natives(R + k + 1) % ClockMod) /\ UNCHANGED <<accepted, transport>>
            /\ Len(rendered') \in Nat /\ Len(rendered) <= Len(rendered')
        BY <1>2, <1>3, <1>5, <1>10, <1>11
      <3>3. QED
        BY <1>4, <1>6, <2>1, <2>2, <3>1, <3>2, ServiceOnTime
    <2>9. DueInv'
      <3>1. PICK B \in Nat : B = Len(applied') /\ A <= B /\ B <= L
        BY <2>2, <2>8
      <3>2. \A i \in 1 .. B : accepted[i].due <= Natives(R + k + 1)
        <4>1. ASSUME NEW i \in 1 .. B PROVE accepted[i].due <= Natives(R + k + 1)
          <5>1. CASE i <= A
            BY <1>6, <1>7, <2>2, <2>5, <5>1
          <5>2. CASE i > A
            BY <2>2, <2>8, <3>1, <5>2
          <5>3. QED
            BY <2>2, <5>1, <5>2
        <4>2. QED
          BY <4>1
      <3>3. \A i \in B + 1 .. L : /\ accepted[i].due >= Natives(R + k)
                                 /\ accepted[i].due # Natives(R + k)
                                 /\ accepted[i].due < Natives(S) + Half
        <4>1. ASSUME NEW i \in B + 1 .. L
              PROVE  /\ accepted[i].due > Natives(R + k + 1)
                     /\ i \in A + 1 .. L
          BY <2>2, <2>8, <3>1
        <4>2. QED
          BY <1>6, <1>7, <2>4, <4>1
      <3>4. QED
        BY <1>1, <1>3, <1>11, <1>12, <2>2, <3>1, <3>2, <3>3 DEF DueInv, Natives, Half
    <2>10. QED
      BY <2>7, <2>8, <2>9 DEF OnTime
  <1>17. QED
    BY <1>3, <1>13, <1>14, <1>15, <1>16 DEF KernelInv

\* The head lies beyond the block's end: so does every write queued.
LEMMA LastSegmentStep ==
  ASSUME KernelInv, LastSegment
  PROVE  KernelInv'
  <1>1. PICK R \in Nat, S \in Nat, t \in Nat, k \in Nat :
          /\ R = Len(rendered) /\ S = Start /\ t = seg.start /\ k = BlockFrames - t
          /\ S <= R /\ R + k = S + BlockFrames /\ k >= 1 /\ t < BlockFrames
    <2>1. dsp = "split"
      BY DEF LastSegment
    <2>2. PICK r \in Nat, q \in Nat : r = Len(rendered) /\ q = Start /\ q <= r /\ r < q + BlockFrames
      BY <2>1, CursorAfter
    <2>3. PICK t \in Nat : t = seg.start /\ q = r - t
      BY <2>1, <2>2 DEF Start, KernelInv, KernelTypeOK
    <2>4. PICK k \in Nat : k = BlockFrames - t /\ r + k = q + BlockFrames /\ k >= 1 /\ t < BlockFrames
      <3>1. BlockFrames - t \in Nat /\ r + (BlockFrames - t) = q + BlockFrames
            /\ BlockFrames - t >= 1 /\ t < BlockFrames
        BY <2>2, <2>3, Constants
      <3>2. QED
        BY <3>1
    <2>5. QED
      BY <2>2, <2>3, <2>4
  <1>2. /\ dsp = "split" /\ dsp' = "idle" /\ ~HeadLands /\ Frames(k)
        /\ UNCHANGED <<transport, clock, phase, queue, seg, accepted, applied>>
    BY <1>1 DEF LastSegment
  <1>3. KernelTypeOK
    BY DEF KernelInv
  <1>4. /\ rendered' \in Seq({rendered'[f] : f \in 1 .. Len(rendered')})
        /\ Len(rendered') = S + BlockFrames
        /\ \A f \in 1 .. R : rendered'[f] = rendered[f]
        /\ \A f \in R + 1 .. R + k : rendered'[f].applied = Len(applied)
    BY <1>1, <1>2, <1>3, FramesLists
  <1>5. KernelTypeOK'
    <2>1. \A f \in 1 .. Len(rendered') : rendered'[f].applied \in Nat
      <3>1. \A f \in 1 .. R : rendered[f].applied \in Nat
        BY <1>1, <1>3, Lengths
      <3>2. Len(applied) \in Nat
        BY <1>3, Lengths
      <3>3. QED
        BY SMTT(30), <1>1, <1>4, <3>1, <3>2
    <2>2. QED
      BY <1>2, <1>3, <1>4, <2>1 DEF KernelTypeOK
  <1>6. clock = Natives(S + BlockFrames) % ClockMod /\ phase = Rest(S + BlockFrames)
    BY <1>1, <1>2 DEF KernelInv, ClockInv, End
  <1>7. ClockInv' /\ CursorInv'
    BY <1>2, <1>4, <1>6 DEF ClockInv, CursorInv, Natives, Rest
  <1>8. S + BlockFrames \in Nat /\ R + 1 \in Nat /\ R + 1 <= S + BlockFrames /\ S <= S + BlockFrames
    BY <1>1, Constants
  <1>9. /\ Natives(S) \in Nat /\ Natives(R + 1) \in Nat /\ Natives(S + BlockFrames) \in Nat
        /\ Natives(S) <= Natives(S + BlockFrames) /\ Natives(R + 1) <= Natives(S + BlockFrames)
    <2>1. Natives(S) \in Nat /\ Natives(R + 1) \in Nat /\ Natives(S + BlockFrames) \in Nat
      BY <1>8, NativesType
    <2>2. QED
      BY <1>8, <2>1, NativesMonotone
  <1>10. ASSUME transport # "both" PROVE OnTime'
    <2>1. LogInv /\ DueInv /\ FrameInv
      BY <1>10 DEF KernelInv, OnTime
    <2>2. PICK A \in Nat, L \in Nat, Q \in Nat :
            A = Len(applied) /\ L = Len(accepted) /\ Q = Len(queue) /\ A + Q = L
      <3>1. Len(applied) \in Nat /\ Len(accepted) \in Nat /\ Len(queue) \in Nat
        BY <1>3, Lengths
      <3>2. QED
        BY <2>1, <3>1 DEF LogInv
    <2>3. \A i \in 1 .. L : accepted[i].due \in Nat /\ accepted[i].after \in Nat /\ accepted[i].after <= R
      BY <1>1, <1>3, <2>1, <2>2, Lengths DEF LogInv
    <2>4. \A i \in A + 1 .. L : accepted[i].due \in Nat /\ accepted[i].due < Natives(S) + Half
      <3>1. ASSUME NEW i \in A + 1 .. L PROVE accepted[i].due \in Nat
        BY <2>2, <2>3
      <3>2. QED
        BY <1>1, <1>2, <2>1, <2>2, <3>1 DEF DueInv
    <2>5. ASSUME NEW i \in A + 1 .. L PROVE accepted[i].due > Natives(S + BlockFrames)
      <3>1. queue # <<>>
        BY <1>3, <2>2, EmptySeq DEF KernelTypeOK
      <3>2. /\ HeadOffset \in Int
            /\ HeadOffset = accepted[A + 1].due - Natives(S)
            /\ accepted[A + 1].due <= accepted[i].due /\ A + 1 \in 1 .. L
        BY <1>1, <1>2, <1>10, <2>2, <3>1, HeadSeen
      <3>3. seg.adv = Natives(S + BlockFrames) - Natives(S)
        BY <1>1, <1>2 DEF KernelInv, CursorInv, End
      <3>4. ~(HeadOffset <= seg.adv)
        BY <1>2, <3>1 DEF HeadLands
      <3>5. accepted[A + 1].due \in Nat /\ accepted[i].due \in Nat
        BY <2>3, <2>4, <3>2
      <3>6. QED
        BY <1>9, <3>2, <3>3, <3>4, <3>5
    <2>6. \A i \in 1 .. A : accepted[i].due \in Nat /\ accepted[i].due <= Natives(R + 1)
      <3>1. ASSUME NEW i \in 1 .. A PROVE accepted[i].due \in Nat
        BY <2>2, <2>3
      <3>2. QED
        BY <1>1, <1>2, <2>1, <2>2, <3>1 DEF DueInv
    <2>7. FrameInv'
      <3>1. k > 0 => \A i \in A + 1 .. L : accepted[i].due > Natives(R + k)
        BY <1>1, <2>5
      <3>2. QED
        BY <1>1, <1>2, <1>3, <2>1, <2>2, <2>6, <3>1, FramesOnTime
    <2>8. DueInv'
      <3>1. \A i \in 1 .. A : accepted[i].due <= Natives(S + BlockFrames)
        BY <1>9, <2>6
      <3>2. \A i \in A + 1 .. L : /\ accepted[i].due >= Natives(S + BlockFrames)
                                 /\ accepted[i].due < Natives(S + BlockFrames) + Half
        BY <1>9, <2>4, <2>5, Constants
      <3>3. QED
        BY <1>2, <1>4, <2>2, <3>1, <3>2 DEF DueInv, Start, Natives, Half
    <2>9. LogInv'
      <3>1. \A i \in 1 .. L : accepted[i].after \in Nat /\ accepted[i].after <= S + BlockFrames
        BY <1>1, <1>8, <2>3
      <3>2. QED
        BY <1>2, <1>4, <2>1, <2>2, <3>1 DEF LogInv, Natives
    <2>10. QED
      BY <2>7, <2>8, <2>9 DEF OnTime
  <1>11. QED
    BY <1>2, <1>5, <1>7, <1>10 DEF KernelInv
-----------------------------------------------------------------------------
(* The host's steps, between two blocks.                                   *)

LEMMA KernelInitially ==
  ASSUME KernelInit
  PROVE  KernelInv
  <1>1. /\ transport \in Transports /\ clock = 0 /\ phase = 0 /\ queue = <<>>
        /\ dsp = "idle" /\ seg = NoSegment /\ accepted = <<>> /\ applied = <<>> /\ rendered = <<>>
    BY DEF KernelInit, KernelReset
  <1>2. Len(rendered) = 0 /\ Len(accepted) = 0 /\ Len(applied) = 0 /\ Len(queue) = 0
    BY <1>1
  <1>3. KernelTypeOK
    BY <1>1, <1>2 DEF KernelTypeOK, NoSegment
  <1>4. ClockInv /\ CursorInv
    <2>1. 0 * Num = 0 /\ 0 \div Den = 0 /\ 0 % Den = 0 /\ 0 % ClockMod = 0
      BY Constants
    <2>2. QED
      BY <1>1, <1>2, <2>1 DEF ClockInv, CursorInv, Natives, Rest
  <1>5. OnTime
    BY <1>1, <1>2 DEF OnTime, LogInv, DueInv, FrameInv
  <1>6. QED
    BY <1>3, <1>4, <1>5 DEF KernelInv

LEMMA KernelStutter ==
  ASSUME KernelInv,
         UNCHANGED <<transport, clock, phase, queue, dsp, seg, accepted, applied, rendered>>
  PROVE  KernelInv'
  <1>1. KernelTypeOK' /\ ClockInv' /\ CursorInv'
    BY DEF KernelInv, KernelTypeOK, ClockInv, CursorInv, Start, End, Natives, Rest
  <1>2. OnTime <=> OnTime'
    BY DEF OnTime, LogInv, DueInv, FrameInv, Start, Natives, Half
  <1>3. QED
    BY <1>1, <1>2 DEF KernelInv

\* A write accepted now is in no frame there is.
LEMMA Accept ==
  ASSUME KernelTypeOK, NEW e \in [write : {"pitch", "on", "off"}, due : Nat, after : Nat, live : BOOLEAN],
         e.after = Len(rendered), accepted' = Append(accepted, e), rendered' = rendered
  PROVE  /\ accepted' \in Log
         /\ Len(accepted') = Len(accepted) + 1
         /\ \A i \in 1 .. Len(accepted) : accepted'[i] = accepted[i]
         /\ accepted'[Len(accepted) + 1] = e
         /\ FrameInv => FrameInv'
  <1>1. /\ accepted' \in Log
        /\ Len(accepted') = Len(accepted) + 1
        /\ \A i \in 1 .. Len(accepted) : accepted'[i] = accepted[i]
        /\ accepted'[Len(accepted) + 1] = e
    BY AppendProperties DEF KernelTypeOK, Log
  <1>2. PICK L \in Nat, R \in Nat : L = Len(accepted) /\ R = Len(rendered)
    BY Lengths
  <1>3. ASSUME FrameInv PROVE FrameInv'
    <2>1. ASSUME NEW f \in 1 .. R
          PROVE  /\ rendered[f].applied <= L + 1
                 /\ \A i \in 1 .. L + 1 : accepted'[i].after < f /\ accepted'[i].due <= Natives(f)
                                            <=> i <= rendered[f].applied
      <3>1. rendered[f].applied \in Nat /\ rendered[f].applied <= L
        BY <1>2, <1>3, Lengths DEF FrameInv
      <3>2. \A i \in 1 .. L : accepted'[i].after < f /\ accepted'[i].due <= Natives(f)
                                <=> i <= rendered[f].applied
        BY <1>1, <1>2, <1>3 DEF FrameInv
      <3>3. ~(accepted'[L + 1].after < f) /\ ~(L + 1 <= rendered[f].applied)
        BY <1>1, <1>2, <3>1
      <3>4. ASSUME NEW i \in 1 .. L + 1
            PROVE  accepted'[i].after < f /\ accepted'[i].due <= Natives(f) <=> i <= rendered[f].applied
        <4>1. CASE i \in 1 .. L
          BY <3>2, <4>1
        <4>2. CASE i = L + 1
          BY <3>3, <4>2
        <4>3. QED
          BY <1>2, <4>1, <4>2
      <3>5. QED
        BY <1>2, <3>1, <3>4
    <2>2. QED
      BY <1>1, <1>2, <2>1 DEF FrameInv, Natives
  <1>4. QED
    BY <1>1, <1>3

LEMMA EnqueueStep ==
  ASSUME KernelInv, dsp = "idle", transport # "live",
         NEW time \in 0 .. ClockMod - 1, NEW w \in {"pitch", "on", "off"}, EnqueueWrite(time, w)
  PROVE  KernelInv'
  <1>1. CASE ~Enqueueable(time)
    BY <1>1, KernelStutter DEF EnqueueWrite
  <1>2. CASE Enqueueable(time)
    <2>1. /\ queue' = Append(queue, [time |-> time, n |-> Len(accepted) + 1])
          /\ accepted' = Append(accepted, Entry(w, Distance(time, clock), FALSE))
          /\ UNCHANGED <<transport, clock, phase, dsp, seg, applied, rendered>>
      BY <1>2 DEF EnqueueWrite
    <2>2. KernelTypeOK /\ ClockInv /\ CursorInv
      BY DEF KernelInv
    <2>3. PICK R \in Nat, L \in Nat, Q \in Nat, A \in Nat :
            R = Len(rendered) /\ L = Len(accepted) /\ Q = Len(queue) /\ A = Len(applied)
      BY <2>2, Lengths
    <2>4. clock = Natives(R) % ClockMod /\ Natives(R) \in Nat
      BY <2>2, <2>3, NativesType DEF ClockInv
    <2>5. PICK d \in 0 .. ClockMod - 1 :
            /\ d = Distance(time, clock) /\ (Natives(R) + d) % ClockMod = time /\ d < Half
      <3>1. /\ Distance(time, clock) \in 0 .. ClockMod - 1
            /\ (Natives(R) + Distance(time, clock)) % ClockMod = time
            /\ Past(Distance(time, clock)) <=> Distance(time, clock) >= Half
        <4>1. PICK b \in Int : b = Natives(R)
          BY <2>4
        <4>2. /\ Distance(time, b % ClockMod) \in 0 .. ClockMod - 1
              /\ (b + Distance(time, b % ClockMod)) % ClockMod = time
              /\ Past(Distance(time, b % ClockMod)) <=> Distance(time, b % ClockMod) >= Half
          BY Stamp
        <4>3. QED
          BY <2>4, <4>1, <4>2
      <3>2. ~Past(Distance(time, clock))
        BY <1>2 DEF Enqueueable
      <3>3. QED
        BY <3>1, <3>2, Constants
    <2>6. PICK e \in [write : {"pitch", "on", "off"}, due : Nat, after : Nat, live : BOOLEAN] :
            /\ e = Entry(w, Distance(time, clock), FALSE)
            /\ e.after = R /\ e.due = Natives(R) + d
      <3>1. Entry(w, Distance(time, clock), FALSE)
               = [write |-> w, due |-> Natives(R) + d, after |-> R, live |-> FALSE]
        BY <2>3, <2>5 DEF Entry
      <3>2. Natives(R) + d \in Nat
        BY <2>4, <2>5
      <3>3. [write |-> w, due |-> Natives(R) + d, after |-> R, live |-> FALSE]
              \in [write : {"pitch", "on", "off"}, due : Nat, after : Nat, live : BOOLEAN]
        BY <2>3, <3>2
      <3>4. QED
        BY <3>1, <3>3
    <2>7. /\ accepted' \in Log
          /\ Len(accepted') = L + 1
          /\ \A i \in 1 .. L : accepted'[i] = accepted[i]
          /\ accepted'[L + 1].after = R /\ accepted'[L + 1].due = Natives(R) + d
          /\ FrameInv => FrameInv'
      BY <2>1, <2>2, <2>3, <2>6, Accept
    <2>8. /\ queue' \in Seq([time : 0 .. ClockMod - 1, n : Nat])
          /\ Len(queue') = Q + 1
          /\ \A i \in 1 .. Q : queue'[i] = queue[i]
          /\ queue'[Q + 1].time = time /\ queue'[Q + 1].n = L + 1
      <3>1. [time |-> time, n |-> L + 1] \in [time : 0 .. ClockMod - 1, n : Nat]
            /\ queue \in Seq([time : 0 .. ClockMod - 1, n : Nat])
        BY <2>2, <2>3 DEF KernelTypeOK
      <3>2. queue' = Append(queue, [time |-> time, n |-> L + 1])
        BY <2>1, <2>3
      <3>3. /\ queue' \in Seq([time : 0 .. ClockMod - 1, n : Nat])
            /\ Len(queue') = Q + 1
            /\ \A i \in 1 .. Q : queue'[i] = queue[i]
            /\ queue'[Q + 1] = [time |-> time, n |-> L + 1]
        BY <2>3, <3>1, <3>2, AppendProperties
      <3>4. QED
        BY <3>3
    <2>9. KernelTypeOK'
      <3>1. UNCHANGED <<transport, dsp, seg, applied, rendered>>
        BY <2>1
      <3>2. /\ accepted' \in Seq([write : {"pitch", "on", "off"}, due : Nat, after : Nat, live : BOOLEAN])
            /\ queue' \in Seq([time : 0 .. ClockMod - 1, n : Nat])
        BY <2>7, <2>8 DEF Log
      <3>3. QED
        BY <2>2, <3>1, <3>2 DEF KernelTypeOK
    <2>10. ClockInv' /\ CursorInv'
      BY <2>1, <2>2 DEF ClockInv, CursorInv, Start, End, Natives, Rest
    <2>11. ASSUME transport # "both" PROVE OnTime'
      <3>1. LogInv /\ DueInv /\ FrameInv
        BY <2>11 DEF KernelInv, OnTime
      <3>2. A + Q = L
        BY <2>3, <3>1 DEF LogInv
      <3>3. \A i \in 1 .. L : accepted[i].due \in Nat /\ accepted[i].after \in Nat /\ accepted[i].after <= R
        BY <2>2, <2>3, <3>1, Lengths DEF LogInv
      <3>4. \A i \in A + 1 .. L : /\ accepted[i].due \in Nat
                                 /\ Natives(R) <= accepted[i].due
                                 /\ accepted[i].due < Natives(R) + Half
        <4>1. ASSUME NEW i \in A + 1 .. L PROVE accepted[i].due \in Nat
          BY <3>2, <3>3
        <4>2. QED
          BY <2>3, <3>1, <4>1 DEF DueInv, Start
      <3>5. ASSUME NEW i \in 1 .. L PROVE accepted[i].due <= Natives(R) + d
        <4>1. CASE i <= A
          <5>1. accepted[i].due <= Natives(R)
            BY <2>3, <3>1, <4>1 DEF DueInv
          <5>2. QED
            BY <2>4, <3>3, <5>1
        <4>2. CASE i > A
          <5>1. Q \in 1 .. Q /\ L \in A + 1 .. L /\ L \in 1 .. L /\ A + Q = L
            BY <2>3, <3>2, <4>2
          <5>2. queue # <<>> /\ Last(queue) = queue[Q]
            BY <2>3, <5>1 DEF Last
          <5>3. Distance(time, clock) >= Distance(queue[Q].time, clock)
            BY <1>2, <5>2 DEF Enqueueable
          <5>4. accepted[L].due \in Nat /\ Natives(R) <= accepted[L].due
                /\ accepted[L].due < Natives(R) + Half /\ Natives(R) - Half <= accepted[L].due
            BY <2>4, <3>4, <5>1, Constants
          <5>5. Distance(queue[Q].time, clock) = accepted[L].due - Natives(R)
            BY SMTT(30), <2>2, <2>3, <2>4, <3>1, <5>1, <5>4, QueuedTimes
          <5>6. accepted[i].due <= accepted[L].due
            <6>1. i <= L /\ i \in 1 .. L /\ L \in 1 .. L
              BY <5>1
            <6>2. QED
              BY <2>3, <3>1, <6>1 DEF LogInv
          <5>7. QED
            BY <2>4, <2>5, <3>3, <5>3, <5>4, <5>5, <5>6
        <4>3. QED
          BY <2>3, <4>1, <4>2
      <3>6. LogInv'
        <4>1. Len(applied') + Len(queue') = Len(accepted')
          <5>1. A + (Q + 1) = L + 1
            BY <2>3, <3>2
          <5>2. Len(applied') = A
            BY <2>1, <2>3
          <5>3. QED
            BY <2>7, <2>8, <5>1, <5>2
        <4>2. \A i \in 1 .. Len(applied') : applied'[i] = i
          BY <2>1, <3>1 DEF LogInv
        <4>3. \A i \in 1 .. Q + 1 : /\ queue'[i].n = A + i
                                   /\ queue'[i].time = accepted'[A + i].due % ClockMod
          <5>1. ASSUME NEW i \in 1 .. Q
                PROVE  /\ queue'[i].n = A + i
                       /\ queue'[i].time = accepted'[A + i].due % ClockMod
            <6>1. A + i \in 1 .. L
              BY <3>2
            <6>2. QED
              BY <2>3, <2>7, <2>8, <3>1, <6>1 DEF LogInv
          <5>2. A + (Q + 1) = L + 1
            BY <3>2
          <5>3. /\ queue'[Q + 1].n = A + (Q + 1)
                /\ queue'[Q + 1].time = accepted'[A + (Q + 1)].due % ClockMod
            BY <2>5, <2>6, <2>7, <2>8, <5>2
          <5>4. QED
            BY <5>1, <5>3
        <4>4. ASSUME NEW i \in 1 .. L + 1, NEW j \in 1 .. L + 1, i <= j
              PROVE  accepted'[i].due <= accepted'[j].due
          <5>1. CASE j <= L
            BY SMTT(30), <2>3, <2>7, <3>1, <4>4, <5>1 DEF LogInv
          <5>2. CASE j = L + 1 /\ i <= L
            BY <2>6, <2>7, <3>5, <5>2
          <5>3. CASE i = L + 1 /\ j = L + 1
            BY <2>4, <2>5, <2>6, <2>7, <5>3
          <5>4. QED
            BY <4>4, <5>1, <5>2, <5>3
        <4>5. ASSUME NEW i \in 1 .. L + 1 PROVE accepted'[i].after <= R
          <5>1. i \in 1 .. L \/ i = L + 1
            BY <2>3
          <5>2. CASE i \in 1 .. L
            BY <2>7, <3>3, <5>2
          <5>3. CASE i = L + 1
            BY <2>6, <2>7, <3>3, <5>3
          <5>4. QED
            BY <5>1, <5>2, <5>3
        <4>6. QED
          BY <2>1, <2>3, <2>7, <2>8, <4>1, <4>2, <4>3, <4>4, <4>5 DEF LogInv
      <3>7. DueInv'
        <4>1. \A i \in 1 .. A : accepted'[i].due <= Natives(R)
          BY <2>3, <2>7, <3>1, <3>2 DEF DueInv
        <4>2. \A i \in A + 1 .. L + 1 : /\ accepted'[i].due >= Natives(R)
                                       /\ accepted'[i].due < Natives(R) + Half
          <5>1. ASSUME NEW i \in A + 1 .. L
                PROVE  accepted'[i].due >= Natives(R) /\ accepted'[i].due < Natives(R) + Half
            <6>1. i \in 1 .. L
              BY <2>3
            <6>2. QED
              BY <2>4, <2>7, <3>4, <6>1
          <5>2. accepted'[L + 1].due >= Natives(R) /\ accepted'[L + 1].due < Natives(R) + Half
            <6>1. Natives(R) + d >= Natives(R) /\ Natives(R) + d < Natives(R) + Half
              BY <2>4, <2>5, Constants
            <6>2. QED
              BY <2>7, <6>1
          <5>3. ASSUME NEW i \in A + 1 .. L + 1 PROVE i \in A + 1 .. L \/ i = L + 1
            BY <2>3
          <5>4. QED
            BY <5>1, <5>2, <5>3
        <4>3. QED
          BY <2>1, <2>3, <2>7, <4>1, <4>2 DEF DueInv, Start, Natives, Half
      <3>8. QED
        BY <2>7, <3>1, <3>6, <3>7 DEF OnTime
    <2>12. QED
      BY <2>1, <2>9, <2>10, <2>11 DEF KernelInv
  <1>3. QED
    BY <1>1, <1>2

\* Without times of their own the writes queued are all due: a full queue
\* drains whole, and the write joins an empty one.
LEMMA WriteRealtimeStep ==
  ASSUME KernelInv, dsp = "idle", transport \in {"live", "both"},
         NEW w \in {"pitch", "on", "off"}, WriteRealtime(w)
  PROVE  KernelInv'
  <1> DEFINE E == [time : 0 .. ClockMod - 1, n : Nat]
  <1>1. KernelTypeOK /\ ClockInv /\ CursorInv /\ queue \in Seq(E) /\ applied \in Seq(Nat)
    BY DEF KernelInv, KernelTypeOK
  <1>2. PICK R \in Nat, L \in Nat, Q \in Nat, A \in Nat :
          R = Len(rendered) /\ L = Len(accepted) /\ Q = Len(queue) /\ A = Len(applied)
    BY <1>1, Lengths
  <1>3. clock = Natives(R) % ClockMod /\ Natives(R) \in Nat /\ clock \in 0 .. ClockMod - 1
    <2>1. clock = Natives(R) % ClockMod /\ Natives(R) \in Nat
      BY <1>1, <1>2, NativesType DEF ClockInv
    <2>2. QED
      BY <2>1, Wrapped
  <1>4. PICK n \in 0 .. Q : n = IF Q < QueueMax THEN 0 ELSE DueCount(clock)
    BY <1>2, DueCountIs
  <1>5. n <= DueCount(clock) /\ DueCount(clock) \in Nat
    BY <1>2, <1>4, DueCountIs
  <1>6. PICK rest \in Seq(E) :
          /\ rest = SubSeq(queue, n + 1, Q) /\ Len(rest) = Q - n
          /\ \A i \in 1 .. Q - n : rest[i] = queue[n + i]
    <2>1. \A i \in n + 1 .. Q : queue[i] \in E
      <3>1. \A i \in n + 1 .. Q : i \in 1 .. Len(queue)
        BY <1>2, <1>4
      <3> HIDE DEF E
      <3>2. QED
        BY <1>1, <3>1, ElementOfSeq
    <2>2. n + 1 \in Int
      BY <1>4
    <2> HIDE DEF E
    <2>3. /\ SubSeq(queue, n + 1, Q) \in Seq(E)
          /\ Len(SubSeq(queue, n + 1, Q)) = IF n + 1 <= Q THEN Q - (n + 1) + 1 ELSE 0
          /\ \A i \in 1 .. Q - (n + 1) + 1 : SubSeq(queue, n + 1, Q)[i] = queue[n + 1 + i - 1]
      BY <1>2, <2>1, <2>2, SubSeqProperties
    <2>4. /\ Q - (n + 1) + 1 = Q - n /\ (IF n + 1 <= Q THEN Q - (n + 1) + 1 ELSE 0) = Q - n
      BY <1>2, <1>4
    <2>5. ASSUME NEW i \in 1 .. Q - n PROVE SubSeq(queue, n + 1, Q)[i] = queue[n + i]
      <3>1. n + 1 + i - 1 = n + i
        BY <1>4
      <3>2. QED
        BY <2>3, <2>4, <3>1
    <2>6. QED
      BY <2>3, <2>4, <2>5
  <1>7. PICK served \in Seq(Nat) :
          /\ served = SubSeq(DueWrites(clock), 1, n) /\ Len(served) = n
          /\ \A i \in 1 .. n : served[i] = queue[i].n
    <2>1. \A i \in 1 .. n : DueWrites(clock)[i] = queue[i].n
      BY <1>4, <1>5 DEF DueWrites
    <2>2. ASSUME NEW i \in 1 .. n PROVE queue[i].n \in Nat
      <3>1. i \in 1 .. Len(queue)
        BY <1>2, <1>4
      <3>2. QED
        BY <1>1, <3>1, Lengths
    <2>3. /\ SubSeq(DueWrites(clock), 1, n) \in Seq(Nat)
          /\ Len(SubSeq(DueWrites(clock), 1, n)) = IF 1 <= n THEN n - 1 + 1 ELSE 0
          /\ \A i \in 1 .. n - 1 + 1 : SubSeq(DueWrites(clock), 1, n)[i] = DueWrites(clock)[1 + i - 1]
      BY <1>4, <2>1, <2>2, SubSeqProperties
    <2>4. /\ n - 1 + 1 = n /\ (IF 1 <= n THEN n - 1 + 1 ELSE 0) = n
      BY <1>4
    <2>5. ASSUME NEW i \in 1 .. n PROVE SubSeq(DueWrites(clock), 1, n)[i] = queue[i].n
      <3>1. 1 + i - 1 = i
        OBVIOUS
      <3>2. QED
        BY <2>1, <2>3, <2>4, <3>1
    <2>6. QED
      BY <2>3, <2>4, <2>5
  <1>8. /\ accepted' = Append(accepted, Entry(w, 0, TRUE))
        /\ queue' = IF Len(rest) < QueueMax THEN Append(rest, [time |-> clock, n |-> L + 1]) ELSE rest
        /\ applied' = applied \o (served \o (IF Len(rest) < QueueMax THEN <<>> ELSE <<L + 1>>))
        /\ UNCHANGED <<transport, clock, phase, dsp, seg, rendered>>
    BY <1>2, <1>4, <1>6, <1>7 DEF WriteRealtime
  <1>9. PICK e \in [write : {"pitch", "on", "off"}, due : Nat, after : Nat, live : BOOLEAN] :
          e = Entry(w, 0, TRUE) /\ e.after = R /\ e.due = Natives(R)
    <2>1. Entry(w, 0, TRUE) = [write |-> w, due |-> Natives(R), after |-> R, live |-> TRUE]
      <3>1. Natives(R) + 0 = Natives(R)
        BY <1>3
      <3>2. QED
        BY <1>2, <3>1 DEF Entry
    <2>2. [write |-> w, due |-> Natives(R), after |-> R, live |-> TRUE]
            \in [write : {"pitch", "on", "off"}, due : Nat, after : Nat, live : BOOLEAN]
      BY <1>2, <1>3
    <2>3. QED
      BY <2>1, <2>2
  <1>10. /\ accepted' \in Log
         /\ Len(accepted') = L + 1
         /\ \A i \in 1 .. L : accepted'[i] = accepted[i]
         /\ accepted'[L + 1].after = R /\ accepted'[L + 1].due = Natives(R)
         /\ FrameInv => FrameInv'
    BY <1>1, <1>2, <1>8, <1>9, Accept
  <1>11. [time |-> clock, n |-> L + 1] \in E /\ L + 1 \in Nat
    BY <1>2, <1>3
  <1>12. KernelTypeOK'
    <2>1. queue' \in Seq(E)
      <3> HIDE DEF E
      <3>1. Append(rest, [time |-> clock, n |-> L + 1]) \in Seq(E)
        BY <1>6, <1>11, AppendProperties
      <3>2. QED
        BY <1>6, <1>8, <3>1
    <2>2. applied' \in Seq(Nat)
      <3>1. PICK own \in Seq(Nat) : own = IF Len(rest) < QueueMax THEN <<>> ELSE <<L + 1>>
        <4>1. <<>> \in Seq(Nat) /\ <<L + 1>> \in Seq(Nat)
          BY <1>11
        <4>2. QED
          BY <4>1
      <3>2. served \o own \in Seq(Nat)
        BY <1>7, <3>1, ConcatProperties
      <3>3. applied \o (served \o own) \in Seq(Nat)
        BY <1>1, <3>2, ConcatProperties
      <3>4. QED
        BY <1>8, <3>1, <3>3
    <2>3. accepted' \in Seq([write : {"pitch", "on", "off"}, due : Nat, after : Nat, live : BOOLEAN])
      BY <1>10 DEF Log
    <2>4. UNCHANGED <<transport, dsp, seg, rendered>>
      BY <1>8
    <2>5. QED
      BY <1>1, <2>1, <2>2, <2>3, <2>4 DEF KernelTypeOK
  <1>13. ClockInv' /\ CursorInv'
    BY <1>1, <1>8 DEF ClockInv, CursorInv, Start, End, Natives, Rest
  <1>14. ASSUME transport # "both" PROVE OnTime'
    <2>1. LogInv /\ DueInv /\ FrameInv /\ transport = "live"
      BY <1>14 DEF KernelInv, OnTime
    <2>2. A + Q = L
      BY <1>2, <2>1 DEF LogInv
    <2>3. ASSUME NEW i \in 1 .. L
          PROVE  /\ accepted[i].due \in Nat /\ accepted[i].after \in Nat /\ accepted[i].after <= R
                 /\ accepted[i].due <= Natives(R)
                 /\ i > A => accepted[i].due = Natives(R)
      <3>1. /\ accepted[i].due \in Nat /\ accepted[i].after \in Nat /\ accepted[i].after <= R
            /\ accepted[i].due = Natives(accepted[i].after)
        BY <1>1, <1>2, <2>1, Lengths DEF LogInv
      <3>2. accepted[i].due <= Natives(R)
        BY <1>2, <3>1, NativesMonotone
      <3>3. ASSUME i > A PROVE accepted[i].due >= Natives(R)
        <4>1. i \in A + 1 .. L
          BY <1>2, <3>3
        <4>2. QED
          BY <1>2, <2>1, <4>1 DEF DueInv
      <3>4. QED
        BY <1>3, <3>1, <3>2, <3>3
    <2>4. Q < QueueMax \/ n = Q
      <3>1. \A i \in 1 .. Q : Due(queue[i], clock)
        <4>1. ASSUME NEW i \in 1 .. Q PROVE Due(queue[i], clock)
          <5>1. A + i \in 1 .. L /\ A + i > A
            BY <1>2, <2>2
          <5>2. accepted[A + i].due = Natives(R)
            BY <2>3, <5>1
          <5>3. Natives(R) - Half <= Natives(R) /\ Natives(R) < Natives(R) + Half
            BY <1>3, Constants
          <5>4. Due(queue[i], Natives(R) % ClockMod) <=> Natives(R) <= Natives(R)
            BY <1>1, <1>2, <1>3, <2>1, <5>2, <5>3, QueuedTimes
          <5>5. QED
            BY <1>3, <5>4
        <4>2. QED
          BY <4>1
      <3>2. DueCount(clock) = Q
        <4>1. DueCount(clock) \in 0 .. Q /\ (DueCount(clock) = Q \/ ~Due(queue[DueCount(clock) + 1], clock))
          BY <1>2, DueCountIs
        <4>2. DueCount(clock) # Q => DueCount(clock) + 1 \in 1 .. Q
          BY <1>2, <4>1
        <4>3. QED
          BY <3>1, <4>1, <4>2
      <3>3. QED
        BY <1>4, <3>2
    <2>5. Len(rest) < QueueMax
      <3>1. QueueMax \in Nat \ {0}
        BY KernelAssumption
      <3>2. CASE Q < QueueMax
        BY <1>4, <1>6, <3>1, <3>2
      <3>3. CASE ~(Q < QueueMax)
        BY <1>2, <1>4, <1>6, <2>4, <3>1, <3>3
      <3>4. QED
        BY <3>2, <3>3
    <2>6. /\ Len(queue') = Q - n + 1
          /\ \A i \in 1 .. Q - n : queue'[i] = queue[n + i]
          /\ queue'[Q - n + 1].time = clock /\ queue'[Q - n + 1].n = L + 1
      <3>1. queue' = Append(rest, [time |-> clock, n |-> L + 1])
        BY <1>8, <2>5
      <3> HIDE DEF E
      <3>2. /\ Len(queue') = (Q - n) + 1
            /\ \A i \in 1 .. Q - n : queue'[i] = rest[i]
            /\ queue'[(Q - n) + 1] = [time |-> clock, n |-> L + 1]
        BY <1>6, <1>11, <3>1, AppendProperties
      <3>3. QED
        BY <1>6, <3>2
    <2>7. /\ Len(applied') = A + n
          /\ \A i \in 1 .. A + n : applied'[i] = i
      <3>1. applied' = applied \o served
        <4>1. served \o <<>> = served
          BY <1>7, ConcatEmptySeq
        <4>2. QED
          BY <1>8, <2>5, <4>1
      <3>2. /\ Len(applied') = A + n
            /\ \A i \in 1 .. A + n : applied'[i] = IF i <= A THEN applied[i] ELSE served[i - A]
        BY SMTT(30), <1>1, <1>2, <1>7, <3>1, ConcatProperties
      <3>3. ASSUME NEW i \in 1 .. A + n PROVE applied'[i] = i
        <4>1. CASE i <= A
          BY <1>2, <2>1, <3>2, <4>1 DEF LogInv
        <4>2. CASE i > A
          <5>1. i - A \in 1 .. n /\ i - A \in 1 .. Q /\ A + (i - A) = i /\ ~(i <= A)
            BY <1>2, <1>4, <4>2
          <5>2. applied'[i] = queue[i - A].n
            BY <1>7, <3>2, <5>1
          <5>3. queue[i - A].n = A + (i - A)
            BY <1>2, <2>1, <5>1 DEF LogInv
          <5>4. QED
            BY <5>1, <5>2, <5>3
        <4>3. QED
          BY <1>2, <1>4, <4>1, <4>2
      <3>4. QED
        BY <3>2, <3>3
    <2>8. LogInv'
      <3>1. Len(applied') + Len(queue') = Len(accepted')
        <4>1. (A + n) + (Q - n + 1) = L + 1
          BY <1>2, <1>4, <2>2
        <4>2. QED
          BY <1>10, <2>6, <2>7, <4>1
      <3>2. \A i \in 1 .. Q - n + 1 : /\ queue'[i].n = (A + n) + i
                                     /\ queue'[i].time = accepted'[(A + n) + i].due % ClockMod
        <4>1. ASSUME NEW i \in 1 .. Q - n
              PROVE  /\ queue'[i].n = (A + n) + i
                     /\ queue'[i].time = accepted'[(A + n) + i].due % ClockMod
          <5>1. /\ n + i \in 1 .. Q /\ A + (n + i) = (A + n) + i /\ (A + n) + i \in 1 .. L
            BY SMTT(30), <1>2, <1>4, <2>2
          <5>2. queue[n + i].n = A + (n + i) /\ queue[n + i].time = accepted[A + (n + i)].due % ClockMod
            BY <1>2, <2>1, <5>1 DEF LogInv
          <5>3. QED
            BY <1>10, <2>6, <5>1, <5>2
        <4>2. (A + n) + (Q - n + 1) = L + 1
          BY <1>2, <1>4, <2>2
        <4>3. /\ queue'[Q - n + 1].n = (A + n) + (Q - n + 1)
              /\ queue'[Q - n + 1].time = accepted'[(A + n) + (Q - n + 1)].due % ClockMod
          BY <1>3, <1>10, <2>6, <4>2
        <4>4. ASSUME NEW i \in 1 .. Q - n + 1 PROVE i \in 1 .. Q - n \/ i = Q - n + 1
          <5>1. PICK m \in Nat : m = Q - n
            BY <1>2, <1>4
          <5>2. i \in 1 .. m + 1
            BY <5>1
          <5>3. i \in 1 .. m \/ i = m + 1
            BY <5>1, <5>2
          <5>4. QED
            BY <5>1, <5>3
        <4>5. QED
          BY <4>1, <4>3, <4>4
      <3>3. ASSUME NEW i \in 1 .. L + 1, NEW j \in 1 .. L + 1, i <= j
            PROVE  accepted'[i].due <= accepted'[j].due
        <4>1. CASE j <= L
          <5>1. i \in 1 .. L /\ j \in 1 .. L
            BY <1>2, <3>3, <4>1
          <5>2. QED
            BY <1>2, <1>10, <2>1, <3>3, <5>1 DEF LogInv
        <4>2. CASE j = L + 1 /\ i \in 1 .. L
          BY <1>10, <2>3, <4>2
        <4>3. CASE i = L + 1 /\ j = L + 1
          BY <1>3, <1>10, <4>3
        <4>4. QED
          BY <1>2, <3>3, <4>1, <4>2, <4>3
      <3>4. ASSUME NEW i \in 1 .. L + 1
            PROVE  accepted'[i].after <= R /\ accepted'[i].due = Natives(accepted'[i].after)
        <4>1. CASE i \in 1 .. L
          BY <1>2, <1>10, <2>1, <2>3, <4>1 DEF LogInv
        <4>2. CASE i = L + 1
          BY <1>2, <1>10, <4>2
        <4>3. i \in 1 .. L \/ i = L + 1
          BY <1>2
        <4>4. QED
          BY <4>1, <4>2, <4>3
      <3>5. QED
        <4>1. /\ Len(applied') = A + n /\ Len(queue') = Q - n + 1
              /\ Len(accepted') = L + 1 /\ Len(rendered') = R
          BY <1>2, <1>8, <1>10, <2>6, <2>7
        <4>2. /\ \A i \in 1 .. Len(applied') : applied'[i] = i
              /\ \A i \in 1 .. Len(queue') :
                   /\ queue'[i].n = Len(applied') + i
                   /\ queue'[i].time = accepted'[Len(applied') + i].due % ClockMod
          BY <2>7, <3>2, <4>1
        <4>3. /\ \A i, j \in 1 .. Len(accepted') : i <= j => accepted'[i].due <= accepted'[j].due
              /\ \A i \in 1 .. Len(accepted') :
                   accepted'[i].after <= Len(rendered') /\ accepted'[i].due = Natives(accepted'[i].after)
          BY <3>3, <3>4, <4>1
        <4>4. QED
          BY <3>1, <4>2, <4>3 DEF LogInv, Natives
    <2>9. DueInv'
      <3>1. ASSUME NEW i \in 1 .. A + n PROVE accepted'[i].due <= Natives(R)
        <4>1. i \in 1 .. L
          BY <1>2, <1>4, <2>2
        <4>2. QED
          BY <1>10, <2>3, <4>1
      <3>2. ASSUME NEW i \in A + n + 1 .. L + 1
            PROVE  accepted'[i].due >= Natives(R) /\ accepted'[i].due < Natives(R) + Half
        <4>1. accepted'[i].due = Natives(R)
          <5>1. (i \in 1 .. L /\ i > A) \/ i = L + 1
            <6>1. PICK m \in Nat : m = A + n
              BY <1>2, <1>4
            <6>2. i \in m + 1 .. L + 1 /\ m >= A
              BY <1>2, <1>4, <6>1
            <6>3. QED
              BY <1>2, <6>2
          <5>2. CASE i \in 1 .. L /\ i > A
            BY <1>10, <2>3, <5>2
          <5>3. CASE i = L + 1
            BY <1>10, <5>3
          <5>4. QED
            BY <5>1, <5>2, <5>3
        <4>2. QED
          BY <1>3, <4>1, Constants
      <3>3. QED
        BY <1>2, <1>8, <1>10, <2>7, <3>1, <3>2 DEF DueInv, Start, Natives, Half
    <2>10. QED
      BY <1>10, <2>1, <2>8, <2>9 DEF OnTime
  <1>15. QED
    BY <1>8, <1>12, <1>13, <1>14 DEF KernelInv
-----------------------------------------------------------------------------
(* The theorems.                                                           *)

LEMMA RenderStep ==
  ASSUME KernelInv, RenderSteps
  PROVE  KernelInv'
  BY WholeBlockStep, SplitStep, SegmentStep, LastSegmentStep DEF RenderSteps

LEMMA HostStep ==
  ASSUME KernelInv, Host
  PROVE  KernelInv'
  <1>1. dsp = "idle"
    BY DEF Host, BetweenBuffers
  <1>2. CASE transport \in {"queue", "both"} /\ \E d \in Distances : EnqueueWrite((clock + d) % ClockMod, "pitch")
    <2>1. PICK d \in Distances : EnqueueWrite((clock + d) % ClockMod, "pitch")
      BY <1>2
    <2>2. clock \in Int
      <3>1. clock = Natives(Len(rendered)) % ClockMod /\ Natives(Len(rendered)) \in Nat
        BY <1>1, Lengths, NativesType DEF KernelInv, ClockInv
      <3>2. QED
        BY <3>1, Wrapped
    <2>3. d \in Int
      BY KernelAssumption
    <2>4. (clock + d) % ClockMod \in 0 .. ClockMod - 1
      <3>1. clock + d \in Int
        BY <2>2, <2>3
      <3>2. QED
        BY <3>1, Wrapped
    <2>5. QED
      BY <1>1, <1>2, <2>1, <2>4, EnqueueStep
  <1>3. CASE transport \in {"live", "both"} /\ WriteRealtime("pitch")
    BY <1>1, <1>3, WriteRealtimeStep
  <1>4. QED
    BY <1>2, <1>3 DEF Host

LEMMA StreamStep ==
  ASSUME KernelInv, StreamNext
  PROVE  KernelInv'
  BY HostStep, BeginBlockStep, RenderStep DEF StreamNext

\* From the start on: the clocks are those of the frames rendered, the queue
\* and the log are what was accepted, in order and told apart by their due
\* samples, and no frame had a write it should not (ym2151.asm:6469-6472).
THEOREM KernelInductive == StreamSpec => []KernelInv
  <1>1. KernelInit => KernelInv
    BY KernelInitially
  <1>2. KernelInv /\ [StreamNext]_kernelVars => KernelInv'
    BY StreamStep, KernelStutter DEF kernelVars
  <1>3. QED
    BY <1>1, <1>2, PTL DEF StreamSpec

LEMMA IntervalSize ==
  ASSUME NEW n \in Nat
  PROVE  Cardinality(1 .. n) = n
  <1>1. 1 \in Int /\ n \in Int
    OBVIOUS
  <1>2. Cardinality(1 .. n) = IF 1 > n THEN 0 ELSE n - 1 + 1
    BY ONLY <1>1, FS_Interval
  <1>3. QED
    BY <1>2

LEMMA OnTimeLands ==
  ASSUME KernelInv
  PROVE  LandsOnTime
  <1>1. SUFFICES ASSUME transport # "both"
                 PROVE  /\ \A f \in 1 .. Len(rendered) :
                             rendered[f].applied =
                               Cardinality({i \in 1 .. Len(accepted) :
                                 accepted[i].after < f /\ accepted[i].due <= Natives(f)})
                        /\ \A i \in 1 .. Len(applied) : applied[i] = i
    <2>1. DOMAIN rendered = 1 .. Len(rendered) /\ DOMAIN accepted = 1 .. Len(accepted)
          /\ DOMAIN applied = 1 .. Len(applied)
      BY LenProperties DEF KernelInv, KernelTypeOK
    <2>2. QED
      BY <2>1 DEF LandsOnTime
  <1>2. KernelTypeOK /\ LogInv /\ FrameInv
    BY <1>1 DEF KernelInv, OnTime
  <1>3. ASSUME NEW f \in 1 .. Len(rendered)
        PROVE  rendered[f].applied =
                 Cardinality({i \in 1 .. Len(accepted) :
                   accepted[i].after < f /\ accepted[i].due <= Natives(f)})
    <2>1. PICK n \in Nat, L \in Nat : n = rendered[f].applied /\ L = Len(accepted) /\ n <= L
      BY <1>2, Lengths DEF FrameInv
    <2>2. {i \in 1 .. L : accepted[i].after < f /\ accepted[i].due <= Natives(f)} = 1 .. n
      <3>1. ASSUME NEW i \in 1 .. L
            PROVE  accepted[i].after < f /\ accepted[i].due <= Natives(f) <=> i \in 1 .. n
        BY <1>2, <2>1 DEF FrameInv
      <3>2. 1 .. n \subseteq 1 .. L
        BY <2>1
      <3>3. QED
        BY <3>1, <3>2
    <2>3. Cardinality(1 .. n) = n
      BY IntervalSize
    <2>4. QED
      BY <2>1, <2>2, <2>3
  <1>4. QED
    BY <1>2, <1>3 DEF LogInv

\* Every write is in effect from the first frame at whose end the native clock
\* has come to its time, or, when that has passed, from the next one to be
\* rendered, and in the order they came, for every length of block, queue and
\* stream (ym2151.asm:6469-6472).
THEOREM WritesLandOnTime == StreamSpec => []LandsOnTime
  BY KernelInductive, OnTimeLands, PTL
=============================================================================
