----------------------------- MODULE BootProofs -----------------------------
(***************************************************************************)
(* Proofs about Stage2Image and Stage2Boot: what the build's operators     *)
(* make of a file of any size, and BootInv step by step.                   *)
(***************************************************************************)
EXTENDS BootInvariant, SequenceTheorems, NaturalsInduction, WellFoundedInduction, TLAPS

(* The least of a set of numbers, and functions defined by recursion.      *)

LEMMA LeastNumber ==
  ASSUME NEW T \in SUBSET Nat, T # {}
  PROVE  \E x \in T : \A y \in T : x <= y
  <1> DEFINE Less == {ss \in Nat \X Nat : ss[1] < ss[2]}
  <1>1. IsWellFoundedOn(Less, Nat)
    BY NatLessThanWellFounded DEF OpToRel
  <1>2. \A x, y \in Nat : y < x => <<y, x>> \in Less
    OBVIOUS
  <1> HIDE DEF Less
  <1>3. PICK x \in T : \A y \in T : ~(<<y, x>> \in Less)
    BY <1>1, WFMin
  <1>4. ASSUME NEW y \in T PROVE x <= y
    <2>1. x \in Nat /\ y \in Nat
      OBVIOUS
    <2>2. ~(y < x)
      BY <1>2, <1>3, <2>1
    <2>3. QED
      BY <2>1, <2>2
  <1>5. QED
    BY <1>4

Recursive(N, S, step) == N \in Nat /\ step \in [1 .. N -> [S -> S]]
Follows(f, N, S, b, step) ==
  /\ f \in [0 .. N -> S]
  /\ f[0] = b /\ \A i \in 1 .. N : f[i] = step[i][f[i - 1]]

LEMMA Recursion ==
  ASSUME NEW N, NEW S, NEW b \in S, NEW step, Recursive(N, S, step)
  PROVE  \E f : Follows(f, N, S, b, step)
  <1>0. N \in Nat /\ step \in [1 .. N -> [S -> S]]
    BY DEF Recursive
  <1> DEFINE Solves(n, f) == f[0] = b /\ \A i \in 1 .. n : f[i] = step[i][f[i - 1]]
             Bad == {n \in 0 .. N : ~\E f \in [0 .. n -> S] : Solves(n, f)}
  <1>1. SUFFICES Bad = {}
    <2>1. N \in 0 .. N
      BY <1>0
    <2>2. PICK f \in [0 .. N -> S] : Solves(N, f)
      BY <1>1, <2>1
    <2>3. QED
      BY <2>2 DEF Follows
  <1>2. SUFFICES ASSUME Bad # {} PROVE FALSE
    OBVIOUS
  <1>3. Bad \in SUBSET Nat
    OBVIOUS
  <1>4. PICK n \in Bad : \A m \in Bad : n <= m
    BY <1>2, <1>3, LeastNumber
  <1>5. n \in 0 .. N
    OBVIOUS
  <1>6. CASE n = 0
    <2>1. [i \in 0 .. 0 |-> b] \in [0 .. 0 -> S] /\ Solves(0, [i \in 0 .. 0 |-> b])
      OBVIOUS
    <2>2. QED
      BY <1>6, <2>1
  <1>7. CASE n # 0
    <2>1. n - 1 \in 0 .. N /\ ~(n <= n - 1)
      BY <1>0, <1>5, <1>7
    <2>1a. n - 1 \notin Bad
      BY <1>4, <2>1
    <2>2. PICK f \in [0 .. n - 1 -> S] : Solves(n - 1, f)
      BY <2>1, <2>1a
    <2>3. n \in 1 .. N /\ f[n - 1] \in S /\ step[n] \in [S -> S]
      BY <1>0, <1>5, <1>7
    <2> DEFINE g == [i \in 0 .. n |-> IF i = n THEN step[n][f[n - 1]] ELSE f[i]]
    <2>4. step[n][f[n - 1]] \in S
      BY <2>3
    <2>5. g \in [0 .. n -> S]
      BY <1>5, <2>4
    <2>6. g[0] = b
      BY <1>5, <1>7, <2>2
    <2>7. ASSUME NEW i \in 1 .. n PROVE g[i] = step[i][g[i - 1]]
      <3>1. g[i - 1] = f[i - 1]
        BY <1>5
      <3>2. CASE i = n
        BY <1>5, <3>1, <3>2
      <3>3. CASE i # n
        <4>1. i \in 1 .. n - 1 /\ i \in 0 .. n
          BY <1>5, <3>3
        <4>2. f[i] = step[i][f[i - 1]]
          BY <2>2, <4>1
        <4>3. g[i] = f[i]
          BY <3>3, <4>1
        <4>4. QED
          BY <3>1, <4>2, <4>3
      <3>4. QED
        BY <3>2, <3>3
    <2>8. \E h \in [0 .. n -> S] : Solves(n, h)
      BY <2>5, <2>6, <2>7
    <2>9. QED
      BY <2>8
  <1>8. QED
    BY <1>6, <1>7
-----------------------------------------------------------------------------
(* The file's words, and merge_sections.                                   *)

LEMMA SectionFacts ==
  ASSUME NEW s \in Sections
  PROVE  /\ s.space \in {"P", "X"} /\ s.address \in Nat /\ s.words \in Seq(DspWords)
         /\ Len(s.words) \in Nat /\ DOMAIN s.words = 1 .. Len(s.words)
         /\ Limit(s) \in Nat /\ Limit(s) = s.address + Len(s.words)
  BY DEF Sections, Limit

LEMMA PlaceIs ==
  ASSUME NEW S \in Seq(Sections)
  PROVE  /\ \A p \in Places(S) : /\ p[1] \in 1 .. Len(S) /\ p[2] \in 1 .. Len(S[p[1]].words)
                                 /\ p = <<p[1], p[2]>>
                                 /\ Address(S, p) \in Nat /\ Word(S, p) \in DspWords
         /\ \A i \in 1 .. Len(S) : \A j \in 1 .. Len(S[i].words) : <<i, j>> \in Places(S)
  <1>1. DOMAIN S = 1 .. Len(S) /\ \A i \in 1 .. Len(S) : S[i] \in Sections
    OBVIOUS
  <1>2. \A i \in 1 .. Len(S) : DOMAIN S[i].words = 1 .. Len(S[i].words)
    BY <1>1, SectionFacts
  <1>3. ASSUME NEW p \in Places(S)
        PROVE  /\ p[1] \in 1 .. Len(S) /\ p[2] \in 1 .. Len(S[p[1]].words) /\ p = <<p[1], p[2]>>
               /\ Address(S, p) \in Nat /\ Word(S, p) \in DspWords
    <2>1. PICK i \in 1 .. Len(S) : p \in {i} \X (1 .. Len(S[i].words))
      BY <1>1, <1>2 DEF Places
    <2>2. p[1] = i /\ p[2] \in 1 .. Len(S[i].words) /\ p = <<p[1], p[2]>>
      BY <2>1
    <2>3. S[i].address \in Nat /\ S[i].words \in Seq(DspWords)
      BY <1>1, SectionFacts
    <2>4. S[i].words[p[2]] \in DspWords
      BY <2>2, <2>3
    <2>5. QED
      BY <2>2, <2>3, <2>4 DEF Address, Word
  <1>4. ASSUME NEW i \in 1 .. Len(S), NEW j \in 1 .. Len(S[i].words) PROVE <<i, j>> \in Places(S)
    BY <1>1, <1>2 DEF Places
  <1>5. QED
    BY <1>3, <1>4

\* Merge is a fold of MergeOne over the file's sections.
LEMMA MergeOneType ==
  ASSUME NEW M \in Seq(Sections), NEW s \in Sections
  PROVE  /\ MergeOne(M, s) \in Seq(Sections)
         /\ M # <<>> => Last(M) = M[Len(M)] /\ Len(M) \in 1 .. Len(M)
  <1>1. M # <<>> => Last(M) = M[Len(M)] /\ Len(M) \in 1 .. Len(M)
    BY DEF Last
  <1>2. Append(M, s) \in Seq(Sections)
    OBVIOUS
  <1>3. ASSUME M # <<>>
        PROVE  [M EXCEPT ![Len(M)].words = @ \o s.words] \in Seq(Sections)
    <2>1. Len(M) \in 1 .. Len(M) /\ M[Len(M)] \in Sections
      BY <1>1, <1>3
    <2>2. M[Len(M)].words \in Seq(DspWords) /\ s.words \in Seq(DspWords)
      BY <2>1, SectionFacts
    <2>3. M[Len(M)].words \o s.words \in Seq(DspWords)
      BY <2>2
    <2>4. [M[Len(M)] EXCEPT !.words = @ \o s.words] \in Sections
      BY <2>1, <2>3 DEF Sections
    <2>5. [M EXCEPT ![Len(M)].words = @ \o s.words]
            = [M EXCEPT ![Len(M)] = [M[Len(M)] EXCEPT !.words = @ \o s.words]]
      OBVIOUS
    <2>6. QED
      BY <2>1, <2>4, <2>5
  <1>4. QED
    BY <1>1, <1>2, <1>3 DEF MergeOne

LEMMA MergeIs ==
  ASSUME NEW S \in Seq(Sections)
  PROVE  \E f \in [0 .. Len(S) -> Seq(Sections)] :
           /\ f[0] = <<>> /\ \A i \in 1 .. Len(S) : f[i] = MergeOne(f[i - 1], S[i])
           /\ Merge(S) = f[Len(S)]
  <1> DEFINE N == Len(S)
             step == [i \in 1 .. N |-> [M \in Seq(Sections) |-> MergeOne(M, S[i])]]
             Steps(a) == [i \in 0 .. N |-> IF i = 0 THEN <<>> ELSE MergeOne(a[i - 1], S[i])]
             merged == CHOOSE a : a = Steps(a)
  <1>1. N \in Nat /\ <<>> \in Seq(Sections)
    OBVIOUS
  <1>2. step \in [1 .. N -> [Seq(Sections) -> Seq(Sections)]]
    <2>1. ASSUME NEW i \in 1 .. N, NEW M \in Seq(Sections) PROVE MergeOne(M, S[i]) \in Seq(Sections)
      <3>1. S[i] \in Sections
        OBVIOUS
      <3>2. QED
        BY <3>1, MergeOneType
    <2>2. QED
      BY <2>1
  <1>3. PICK f \in [0 .. N -> Seq(Sections)] :
          f[0] = <<>> /\ \A i \in 1 .. N : f[i] = step[i][f[i - 1]]
    <2>1. Recursive(N, Seq(Sections), step)
      BY <1>1, <1>2 DEF Recursive
    <2>2. \E f : Follows(f, N, Seq(Sections), <<>>, step)
      <3> HIDE DEF step, N
      <3>1. QED
        BY <1>1, <2>1, Recursion
    <2>3. QED
      BY <2>2 DEF Follows
  <1>4. \A i \in 1 .. N : f[i] = MergeOne(f[i - 1], S[i])
    <2>1. ASSUME NEW i \in 1 .. N PROVE f[i] = MergeOne(f[i - 1], S[i])
      <3>1. i - 1 \in 0 .. N /\ f[i - 1] \in Seq(Sections)
        OBVIOUS
      <3>3. step[i][f[i - 1]] = MergeOne(f[i - 1], S[i])
        BY <3>1
      <3>4. QED
        BY <1>3, <3>3
    <2>2. QED
      BY <2>1
  <1>5. f = Steps(f)
    <2>1. ASSUME NEW i \in 0 .. N PROVE f[i] = Steps(f)[i]
      BY <1>3, <1>4
    <2>2. QED
      BY <1>3, <2>1
  <1>6. merged = Steps(merged)
    BY <1>5
  <1>7. \A i \in 0 .. N : merged[i] = f[i]
    <2> HIDE DEF merged
    <2> DEFINE Bad == {i \in 0 .. N : merged[i] # f[i]}
    <2>1. SUFFICES ASSUME Bad # {} PROVE FALSE
      OBVIOUS
    <2>2. PICK i \in Bad : \A j \in Bad : i <= j
      <3>1. Bad \in SUBSET Nat
        OBVIOUS
      <3>2. QED
        BY <2>1, <3>1, LeastNumber
    <2>3. i \in 0 .. N
      OBVIOUS
    <2>4. i # 0
      <3>1. merged[0] = <<>>
        BY <1>6
      <3>2. QED
        BY <1>3, <3>1
    <2>5. i - 1 \in 0 .. N /\ i - 1 \notin Bad
      BY <2>2, <2>3, <2>4
    <2>6. merged[i - 1] = f[i - 1]
      BY <2>5
    <2>7. merged[i] = MergeOne(merged[i - 1], S[i])
      <3>1. merged[i] = Steps(merged)[i]
        BY <1>6
      <3>2. QED
        BY <2>3, <2>4, <3>1
    <2>8. i \in 1 .. N
      BY <2>3, <2>4
    <2>9. f[i] = MergeOne(f[i - 1], S[i])
      BY <1>4, <2>8
    <2>10. QED
      BY <2>6, <2>7, <2>9
  <1>8. Merge(S) = merged[N]
    BY DEF Merge
  <1>9. Merge(S) = f[N]
    BY <1>1, <1>7, <1>8
  <1>10. QED
    BY <1>3, <1>4, <1>9

\* What a section brings to a sequence of them: its words, at places
\* <<last, off + j>>, and nothing else changes.
Grown(M, s, M2, last, off) ==
  /\ last \in Nat /\ off \in Nat
  /\ \A p \in Places(M2) :
       p \in Places(M) \/ \E j \in 1 .. Len(s.words) : p = <<last, off + j>>
  /\ \A p \in Places(M) :
       p \in Places(M2) /\ Address(M2, p) = Address(M, p) /\ Word(M2, p) = Word(M, p)
  /\ \A j \in 1 .. Len(s.words) :
       /\ <<last, off + j>> \in Places(M2) \ Places(M)
       /\ Address(M2, <<last, off + j>>) = s.address + j - 1
       /\ Word(M2, <<last, off + j>>) = s.words[j]

LEMMA AppendGrows ==
  ASSUME NEW M \in Seq(Sections), NEW s \in Sections
  PROVE  Grown(M, s, Append(M, s), Len(M) + 1, 0)
  <1> DEFINE M2 == Append(M, s)
             K == Len(M)
  <1>1. /\ M2 \in Seq(Sections) /\ Len(M2) = K + 1 /\ K \in Nat /\ M2[K + 1] = s
        /\ \A i \in 1 .. K : M2[i] = M[i]
    OBVIOUS
  <1> HIDE DEF M2, K
  <1>2. ASSUME NEW p \in Places(M2)
        PROVE  p \in Places(M) \/ \E j \in 1 .. Len(s.words) : p = <<K + 1, 0 + j>>
    <2>1. p[1] \in 1 .. K + 1 /\ p[2] \in 1 .. Len(M2[p[1]].words) /\ p = <<p[1], p[2]>>
      BY <1>1, PlaceIs
    <2>2. CASE p[1] = K + 1
      <3>1. p[2] \in 1 .. Len(s.words) /\ Len(s.words) \in Nat
        BY <1>1, <2>1, <2>2, SectionFacts
      <3>2. p = <<K + 1, 0 + p[2]>>
        BY <2>1, <2>2, <3>1
      <3>3. QED
        BY <3>1, <3>2
    <2>3. CASE p[1] # K + 1
      <3>1. p[1] \in 1 .. K
        BY <1>1, <2>1, <2>3
      <3>2. p[2] \in 1 .. Len(M[p[1]].words)
        BY <1>1, <2>1, <3>1
      <3>3. <<p[1], p[2]>> \in Places(M)
        BY <3>1, <3>2, PlaceIs DEF K
      <3>4. QED
        BY <2>1, <3>3
    <2>4. QED
      BY <2>2, <2>3
  <1>3. ASSUME NEW p \in Places(M)
        PROVE  p \in Places(M2) /\ Address(M2, p) = Address(M, p) /\ Word(M2, p) = Word(M, p)
    <2>1. p[1] \in 1 .. K /\ p[2] \in 1 .. Len(M[p[1]].words) /\ p = <<p[1], p[2]>>
      BY PlaceIs DEF K
    <2>2. M2[p[1]] = M[p[1]] /\ p[1] \in 1 .. Len(M2)
      BY <1>1, <2>1
    <2>3. <<p[1], p[2]>> \in Places(M2)
      BY <1>1, <2>1, <2>2, PlaceIs
    <2>4. QED
      BY <2>1, <2>2, <2>3 DEF Address, Word
  <1>4. ASSUME NEW j \in 1 .. Len(s.words)
        PROVE  /\ <<K + 1, 0 + j>> \in Places(M2) \ Places(M)
               /\ Address(M2, <<K + 1, 0 + j>>) = s.address + j - 1
               /\ Word(M2, <<K + 1, 0 + j>>) = s.words[j]
    <2>1. 0 + j = j /\ K + 1 \in 1 .. Len(M2) /\ j \in 1 .. Len(M2[K + 1].words)
      BY <1>1, SectionFacts
    <2>2. <<K + 1, j>> \in Places(M2)
      BY <1>1, <2>1, PlaceIs
    <2>3. <<K + 1, j>> \notin Places(M)
      <3>1. SUFFICES ASSUME <<K + 1, j>> \in Places(M) PROVE FALSE
        OBVIOUS
      <3>2. K + 1 \in 1 .. K
        BY <3>1, PlaceIs DEF K
      <3>3. QED
        BY <1>1, <3>2
    <2>4. QED
      BY <1>1, <2>1, <2>2, <2>3 DEF Address, Word
  <1>5. K + 1 \in Nat /\ 0 \in Nat
    BY <1>1
  <1>6. QED
    BY <1>2, <1>3, <1>4, <1>5 DEF Grown, K, M2

LEMMA JoinedWords ==
  ASSUME NEW T, NEW u \in Seq(T), NEW v \in Seq(T)
  PROVE  /\ u \o v \in Seq(T) /\ Len(u \o v) = Len(u) + Len(v)
         /\ \A j \in 1 .. Len(u) : (u \o v)[j] = u[j]
         /\ \A j \in 1 .. Len(v) : (u \o v)[Len(u) + j] = v[j]
  OBVIOUS

LEMMA JoinGrows ==
  ASSUME NEW M \in Seq(Sections), M # <<>>, NEW s \in Sections, s.address = Limit(M[Len(M)])
  PROVE  Grown(M, s, [M EXCEPT ![Len(M)].words = @ \o s.words], Len(M), Len(M[Len(M)].words))
  <1> DEFINE M2 == [M EXCEPT ![Len(M)].words = @ \o s.words]
             K == Len(M)
             off == Len(M[K].words)
  <1>1. K \in 1 .. K /\ K \in Nat /\ M[K] \in Sections
    OBVIOUS
  <1>2. /\ M[K].words \in Seq(DspWords) /\ s.words \in Seq(DspWords) /\ off \in Nat
        /\ Len(s.words) \in Nat /\ M[K].address \in Nat /\ s.address = M[K].address + off
    <2>1. M[K].words \in Seq(DspWords) /\ s.words \in Seq(DspWords) /\ M[K].address \in Nat
      BY <1>1, SectionFacts
    <2>2. QED
      BY <2>1 DEF Limit
  <1> DEFINE ws == M[K].words \o s.words
             joined == [M[K] EXCEPT !.words = ws]
  <1>3. /\ ws \in Seq(DspWords) /\ Len(ws) = off + Len(s.words)
        /\ \A j \in 1 .. off : ws[j] = M[K].words[j]
        /\ \A j \in 1 .. Len(s.words) : ws[off + j] = s.words[j]
    <2>1. PICK u \in Seq(DspWords), v \in Seq(DspWords) : u = M[K].words /\ v = s.words
      BY <1>2
    <2>2. /\ u \o v \in Seq(DspWords) /\ Len(u \o v) = Len(u) + Len(v)
          /\ \A j \in 1 .. Len(u) : (u \o v)[j] = u[j]
          /\ \A j \in 1 .. Len(v) : (u \o v)[Len(u) + j] = v[j]
      BY JoinedWords
    <2>3. ws = u \o v /\ off = Len(u) /\ s.words = v /\ M[K].words = u
      BY <2>1
    <2> HIDE DEF ws, off
    <2>4. QED
      BY <2>2, <2>3
  <1>4. joined.words = ws /\ joined.address = M[K].address /\ joined \in Sections
    BY <1>1, <1>3 DEF Sections
  <1>5. M2 = [M EXCEPT ![K] = joined]
    OBVIOUS
  <1> HIDE DEF M2, ws, joined, off
  <1>6. /\ M2 \in Seq(Sections) /\ Len(M2) = K /\ M2[K] = joined
        /\ \A i \in 1 .. K : i # K => M2[i] = M[i]
    BY <1>1, <1>4, <1>5
  <1>7. \A i \in 1 .. K : M2[i].address = M[i].address
    BY <1>4, <1>6
  <1>8. \A i \in 1 .. K : \A j \in 1 .. Len(M[i].words) :
          j \in 1 .. Len(M2[i].words) /\ M2[i].words[j] = M[i].words[j]
    <2>1. ASSUME NEW i \in 1 .. K, NEW j \in 1 .. Len(M[i].words)
          PROVE  j \in 1 .. Len(M2[i].words) /\ M2[i].words[j] = M[i].words[j]
      <3>1. CASE i = K
        <4>1. j \in 1 .. off
          BY <3>1 DEF off
        <4>2. QED
          BY <1>2, <1>3, <1>4, <1>6, <3>1, <4>1
      <3>2. CASE i # K
        BY <1>6, <3>2
      <3>3. QED
        BY <3>1, <3>2
    <2>2. QED
      BY <2>1
  <1>9. ASSUME NEW p \in Places(M2)
        PROVE  p \in Places(M) \/ \E j \in 1 .. Len(s.words) : p = <<K, off + j>>
    <2>1. p[1] \in 1 .. K /\ p[2] \in 1 .. Len(M2[p[1]].words) /\ p = <<p[1], p[2]>>
      BY <1>6, PlaceIs
    <2>2. ASSUME p[2] \in 1 .. Len(M[p[1]].words) PROVE p \in Places(M)
      <3>1. <<p[1], p[2]>> \in Places(M)
        BY <2>1, <2>2, PlaceIs
      <3>2. QED
        BY <2>1, <3>1
    <2>3. CASE p[1] = K /\ ~(p[2] <= off)
      <3>1. p[2] \in 1 .. off + Len(s.words)
        BY <1>3, <1>4, <1>6, <2>1, <2>3
      <3>2. p[2] - off \in 1 .. Len(s.words) /\ p[2] = off + (p[2] - off)
        BY <1>2, <2>3, <3>1
      <3>3. p = <<K, off + (p[2] - off)>>
        BY <2>1, <2>3, <3>2
      <3>4. QED
        BY <3>2, <3>3
    <2>4. CASE p[1] = K /\ p[2] <= off
      BY <1>2, <2>1, <2>2, <2>4 DEF off
    <2>5. CASE p[1] # K
      BY <1>6, <2>1, <2>2, <2>5
    <2>6. QED
      BY <2>3, <2>4, <2>5
  <1>10. ASSUME NEW p \in Places(M)
         PROVE  p \in Places(M2) /\ Address(M2, p) = Address(M, p) /\ Word(M2, p) = Word(M, p)
    <2>1. p[1] \in 1 .. K /\ p[2] \in 1 .. Len(M[p[1]].words) /\ p = <<p[1], p[2]>>
      BY PlaceIs
    <2>2. <<p[1], p[2]>> \in Places(M2)
      BY <1>6, <1>8, <2>1, PlaceIs
    <2>3. QED
      BY <1>7, <1>8, <2>1, <2>2 DEF Address, Word
  <1>11. ASSUME NEW j \in 1 .. Len(s.words)
         PROVE  /\ <<K, off + j>> \in Places(M2) \ Places(M)
                /\ Address(M2, <<K, off + j>>) = s.address + j - 1
                /\ Word(M2, <<K, off + j>>) = s.words[j]
    <2>1. off + j \in 1 .. Len(M2[K].words) /\ M2[K].address = M[K].address /\ j \in Nat
      BY <1>1, <1>2, <1>3, <1>4, <1>6
    <2>2. <<K, off + j>> \in Places(M2)
      BY <1>1, <1>6, <2>1, PlaceIs
    <2>3. <<K, off + j>> \notin Places(M)
      <3>1. SUFFICES ASSUME <<K, off + j>> \in Places(M) PROVE FALSE
        OBVIOUS
      <3>2. <<K, off + j>>[2] \in 1 .. Len(M[<<K, off + j>>[1]].words)
        BY <3>1, PlaceIs
      <3>3. off + j \in 1 .. off
        BY <3>2 DEF off
      <3>4. QED
        BY <1>2, <2>1, <3>3
    <2>4. Address(M2, <<K, off + j>>) = M[K].address + (off + j) - 1
      BY <2>1 DEF Address
    <2>5. Word(M2, <<K, off + j>>) = s.words[j]
      BY <1>3, <1>4, <1>6 DEF Word
    <2>6. QED
      BY <1>2, <2>1, <2>2, <2>3, <2>4, <2>5
  <1>12. QED
    BY <1>1, <1>2, <1>9, <1>10, <1>11 DEF Grown, M2, off

\* The words of A are those of M, each at another place with its address.
Carries(g, A, M) ==
  /\ \A p \in Places(A) :
       g[p] \in Places(M) /\ Address(M, g[p]) = Address(A, p) /\ Word(M, g[p]) = Word(A, p)
  /\ \A p, q \in Places(A) : g[p] = g[q] => p = q
  /\ \A m \in Places(M) : \E p \in Places(A) : g[p] = m

LEMMA GrowCarries ==
  ASSUME NEW A \in Seq(Sections), NEW M, NEW s \in Sections, NEW g, Carries(g, A, M),
         NEW M2, NEW last, NEW off, Grown(M, s, M2, last, off)
  PROVE  \E h : Carries(h, Append(A, s), M2)
  <1> DEFINE A2 == Append(A, s)
             K == Len(A)
             h == [p \in Places(A2) |-> IF p[1] = K + 1 THEN <<last, off + p[2]>> ELSE g[p]]
  <1>1. Grown(A, s, A2, K + 1, 0) /\ K \in Nat /\ Len(s.words) \in Nat
    BY AppendGrows, SectionFacts
  <1>2. \A p \in Places(A) : p[1] # K + 1
    BY <1>1, PlaceIs
  <1> HIDE DEF A2, K
  <1>3. /\ last \in Nat /\ off \in Nat
        /\ \A p \in Places(A2) : p \in Places(A) \/ \E j \in 1 .. Len(s.words) : p = <<K + 1, j>>
        /\ \A p \in Places(A) :
             p \in Places(A2) /\ Address(A2, p) = Address(A, p) /\ Word(A2, p) = Word(A, p)
        /\ \A j \in 1 .. Len(s.words) :
             /\ <<K + 1, j>> \in Places(A2)
             /\ Address(A2, <<K + 1, j>>) = s.address + j - 1 /\ Word(A2, <<K + 1, j>>) = s.words[j]
    <2>1. \A j \in 1 .. Len(s.words) : 0 + j = j
      OBVIOUS
    <2>2. QED
      BY <1>1, <2>1 DEF Grown
  <1>4. /\ \A p \in Places(A) : h[p] = g[p]
        /\ \A j \in 1 .. Len(s.words) : h[<<K + 1, j>>] = <<last, off + j>>
    BY <1>2, <1>3
  <1> HIDE DEF h
  <1>5. ASSUME NEW p \in Places(A2)
        PROVE  h[p] \in Places(M2) /\ Address(M2, h[p]) = Address(A2, p) /\ Word(M2, h[p]) = Word(A2, p)
    <2>1. CASE p \in Places(A)
      BY <1>3, <1>4, <2>1 DEF Carries, Grown
    <2>2. CASE p \notin Places(A)
      <3>1. PICK j \in 1 .. Len(s.words) : p = <<K + 1, j>>
        BY <1>3, <2>2
      <3>2. QED
        BY <1>3, <1>4, <3>1 DEF Grown
    <2>3. QED
      BY <2>1, <2>2
  <1>6. ASSUME NEW p \in Places(A2), NEW q \in Places(A2), h[p] = h[q] PROVE p = q
    <2>1. ASSUME NEW a \in Places(A), NEW j \in 1 .. Len(s.words), h[a] = h[<<K + 1, j>>] PROVE FALSE
      BY <1>4, <2>1 DEF Carries, Grown
    <2>2. CASE p \in Places(A) /\ q \in Places(A)
      BY <1>4, <1>6, <2>2 DEF Carries
    <2>3. CASE p \notin Places(A) /\ q \notin Places(A)
      <3>1. PICK i \in 1 .. Len(s.words) : p = <<K + 1, i>>
        BY <1>3, <2>3
      <3>2. PICK j \in 1 .. Len(s.words) : q = <<K + 1, j>>
        BY <1>3, <2>3
      <3>3. <<last, off + i>> = <<last, off + j>>
        BY <1>4, <1>6, <3>1, <3>2
      <3>4. off + i = off + j
        BY <3>3
      <3>5. i = j
        BY <1>3, <3>4
      <3>6. QED
        BY <3>1, <3>2, <3>5
    <2>4. CASE p \in Places(A) /\ q \notin Places(A)
      BY <1>3, <1>6, <2>1, <2>4
    <2>5. CASE p \notin Places(A) /\ q \in Places(A)
      BY <1>3, <1>6, <2>1, <2>5
    <2>6. QED
      BY <2>2, <2>3, <2>4, <2>5
  <1>7. ASSUME NEW m \in Places(M2) PROVE \E p \in Places(A2) : h[p] = m
    <2>1. CASE m \in Places(M)
      <3>1. PICK p \in Places(A) : g[p] = m
        BY <2>1 DEF Carries
      <3>2. QED
        BY <1>3, <1>4, <3>1
    <2>2. CASE m \notin Places(M)
      <3>1. PICK j \in 1 .. Len(s.words) : m = <<last, off + j>>
        BY <2>2 DEF Grown
      <3>2. QED
        BY <1>3, <1>4, <3>1
    <2>3. QED
      BY <2>1, <2>2
  <1>8. Carries(h, A2, M2)
    BY <1>5, <1>6, <1>7 DEF Carries
  <1>9. QED
    BY <1>8 DEF A2

\* What merging keeps of a file, section by section.
Full(A) == \A i \in 1 .. Len(A) : Len(A[i].words) # 0
AllP(A) == \A i \in 1 .. Len(A) : A[i].space = "P"
Keeps(A, M) ==
  /\ \E g : Carries(g, A, M)
  /\ (A = <<>>) = (M = <<>>)
  /\ Full(A) => Full(M)
  /\ AllP(A) <=> AllP(M)

LEMMA MergeOneKeeps ==
  ASSUME NEW A \in Seq(Sections), NEW M \in Seq(Sections), NEW s \in Sections, Keeps(A, M)
  PROVE  Keeps(Append(A, s), MergeOne(M, s))
  <1>1. PICK g : Carries(g, A, M)
    BY DEF Keeps
  <1>2. /\ Append(A, s) # <<>> /\ Len(Append(A, s)) = Len(A) + 1 /\ Append(A, s)[Len(A) + 1] = s
        /\ \A i \in 1 .. Len(A) : Append(A, s)[i] = A[i]
    OBVIOUS
  <1>3. /\ Full(Append(A, s)) <=> Full(A) /\ Len(s.words) # 0
        /\ AllP(Append(A, s)) <=> AllP(A) /\ s.space = "P"
    <2>1. \A i \in 1 .. Len(A) : i \in 1 .. Len(A) + 1
      OBVIOUS
    <2>2. Len(A) + 1 \in 1 .. Len(A) + 1 /\ \A i \in 1 .. Len(A) + 1 : i = Len(A) + 1 \/ i \in 1 .. Len(A)
      OBVIOUS
    <2>3. QED
      BY <1>2, <2>1, <2>2 DEF Full, AllP
  <1>4. CASE M # <<>> /\ s.space = Last(M).space /\ s.address = Limit(Last(M))
    <2> DEFINE K == Len(M)
               ws == M[K].words \o s.words
               joined == [M[K] EXCEPT !.words = ws]
               M2 == [M EXCEPT ![K].words = @ \o s.words]
    <2>1. K \in 1 .. K /\ K \in Nat /\ M[K] \in Sections /\ Last(M) = M[K]
      <3>1. K \in 1 .. K /\ K \in Nat /\ M[K] \in Sections
        BY <1>4
      <3>2. QED
        BY <3>1 DEF Last
    <2>2. Grown(M, s, M2, K, Len(M[K].words))
      BY <1>4, <2>1, JoinGrows
    <2>3. \E h : Carries(h, Append(A, s), M2)
      BY <1>1, <2>2, GrowCarries
    <2>4. MergeOne(M, s) = M2
      BY <1>4 DEF MergeOne
    <2>5. M2 \in Seq(Sections)
      BY <2>4, MergeOneType
    <2>6. M2 = [M EXCEPT ![K] = joined]
      OBVIOUS
    <2>7. Len(ws) = Len(M[K].words) + Len(s.words)
      <3>1. M[K].words \in Seq(DspWords) /\ s.words \in Seq(DspWords)
        BY <2>1, SectionFacts
      <3>2. QED
        BY <3>1, JoinedWords
    <2>8. joined.words = ws /\ joined.space = M[K].space
      BY <2>1 DEF Sections
    <2> HIDE DEF M2, ws, joined
    <2>9. Len(M2) = K /\ M2[K] = joined /\ \A i \in 1 .. K : i # K => M2[i] = M[i]
      BY <2>1, <2>6
    <2>10. Len(M[K].words) \in Nat /\ Len(s.words) \in Nat
      BY <2>1, SectionFacts
    <2>11. M2 # <<>>
      BY <2>1, <2>9
    <2>12. Full(M) => Full(M2)
      <3>1. ASSUME Full(M), NEW i \in 1 .. K PROVE Len(M2[i].words) # 0
        <4>1. CASE i = K
          <5>1. Len(M[K].words) # 0
            BY <2>1, <3>1 DEF Full
          <5>2. Len(ws) # 0
            <6>1. \A a, b \in Nat : a # 0 => a + b # 0
              OBVIOUS
            <6>2. QED
              BY <2>7, <2>10, <5>1, <6>1
          <5>3. M2[i].words = ws
            BY <2>8, <2>9, <4>1
          <5>4. QED
            BY <5>2, <5>3
        <4>2. CASE i # K
          BY <2>9, <3>1, <4>2 DEF Full
        <4>3. QED
          BY <4>1, <4>2
      <3>2. QED
        BY <2>9, <3>1 DEF Full
    <2>13. AllP(M) /\ s.space = "P" <=> AllP(M2)
      <3>1. \A i \in 1 .. K : M2[i].space = M[i].space
        BY <2>8, <2>9
      <3>2. QED
        BY <1>4, <2>1, <2>9, <3>1 DEF AllP
    <2>14. QED
      BY <1>2, <1>3, <2>3, <2>4, <2>11, <2>12, <2>13 DEF Keeps
  <1>5. CASE ~(M # <<>> /\ s.space = Last(M).space /\ s.address = Limit(Last(M)))
    <2> DEFINE M2 == Append(M, s)
    <2>1. \E h : Carries(h, Append(A, s), M2)
      BY <1>1, AppendGrows, GrowCarries
    <2>2. MergeOne(M, s) = M2
      BY <1>5 DEF MergeOne
    <2>3. M2 # <<>> /\ Len(M2) = Len(M) + 1 /\ M2[Len(M) + 1] = s /\ \A i \in 1 .. Len(M) : M2[i] = M[i]
      OBVIOUS
    <2>4. \A i \in 1 .. Len(M) + 1 : i = Len(M) + 1 \/ i \in 1 .. Len(M)
      OBVIOUS
    <2>5. Len(M) + 1 \in 1 .. Len(M) + 1 /\ \A i \in 1 .. Len(M) : i \in 1 .. Len(M) + 1
      OBVIOUS
    <2> HIDE DEF M2
    <2>6. Full(M) /\ Len(s.words) # 0 => Full(M2)
      BY <2>3, <2>4 DEF Full
    <2>7. AllP(M2) <=> AllP(M) /\ s.space = "P"
      BY <2>3, <2>4, <2>5 DEF AllP
    <2>8. QED
      BY <1>2, <1>3, <2>1, <2>2, <2>3, <2>6, <2>7 DEF Keeps
  <1>6. QED
    BY <1>4, <1>5

LEMMA PrefixMerged ==
  ASSUME NEW T, NEW S \in Seq(T), NEW i \in 1 .. Len(S)
  PROVE  /\ SubSeq(S, 1, i) = Append(SubSeq(S, 1, i - 1), S[i])
         /\ SubSeq(S, 1, i - 1) \in Seq(T) /\ S[i] \in T
  <1> DEFINE a == SubSeq(S, 1, i)
             b == Append(SubSeq(S, 1, i - 1), S[i])
  <1>1. SubSeq(S, 1, i - 1) \in Seq(T) /\ S[i] \in T /\ Len(SubSeq(S, 1, i - 1)) = i - 1
    OBVIOUS
  <1>2. a \in Seq(T) /\ b \in Seq(T) /\ Len(a) = i /\ Len(b) = i
    BY <1>1
  <1>3. ASSUME NEW k \in 1 .. i PROVE a[k] = b[k]
    <2>1. a[k] = S[k]
      OBVIOUS
    <2>2. b[k] = S[k]
      <3>1. CASE k = i
        BY <1>1, <3>1
      <3>2. CASE k # i
        <4>1. k \in 1 .. i - 1
          BY <3>2
        <4>2. QED
          BY <1>1, <4>1
      <3>3. QED
        BY <3>1, <3>2
    <2>3. QED
      BY <2>1, <2>2
  <1> HIDE DEF a, b
  <1>4. a = b
    BY <1>2, <1>3, SeqEqual
  <1>5. QED
    BY <1>1, <1>4 DEF a, b

LEMMA MergeKeeps ==
  ASSUME NEW S \in Seq(Sections)
  PROVE  Merge(S) \in Seq(Sections) /\ Keeps(S, Merge(S))
  <1>1. PICK f \in [0 .. Len(S) -> Seq(Sections)] :
           /\ f[0] = <<>> /\ \A i \in 1 .. Len(S) : f[i] = MergeOne(f[i - 1], S[i])
           /\ Merge(S) = f[Len(S)]
    BY MergeIs
  <1>2. Len(S) \in Nat /\ Len(S) \in 0 .. Len(S)
    OBVIOUS
  <1> DEFINE Bad == {i \in 0 .. Len(S) : ~Keeps(SubSeq(S, 1, i), f[i])}
  <1>3. Bad = {}
    <2>1. SUFFICES ASSUME Bad # {} PROVE FALSE
      OBVIOUS
    <2>2. PICK i \in Bad : \A j \in Bad : i <= j
      <3>1. Bad \in SUBSET Nat
        OBVIOUS
      <3>2. QED
        BY <2>1, <3>1, LeastNumber
    <2>3. i \in 0 .. Len(S) /\ ~Keeps(SubSeq(S, 1, i), f[i])
      OBVIOUS
    <2>4. CASE i = 0
      <3>1. SubSeq(S, 1, 0) = <<>> /\ f[0] = <<>>
        BY <1>1
      <3>2. Places(<<>>) = {} /\ Full(<<>>)
        BY DEF Places, Full
      <3>3. \A g : Carries(g, <<>>, <<>>)
        BY <3>2 DEF Carries
      <3>4. Keeps(<<>>, <<>>)
        BY <3>2, <3>3 DEF Keeps
      <3>5. QED
        BY <2>3, <2>4, <3>1, <3>4
    <2>5. CASE i # 0
      <3>1. i \in 1 .. Len(S) /\ i - 1 \in 0 .. Len(S) /\ ~(i <= i - 1)
        BY <1>2, <2>3, <2>5
      <3>2. Keeps(SubSeq(S, 1, i - 1), f[i - 1])
        BY <2>2, <3>1
      <3>3. SubSeq(S, 1, i) = Append(SubSeq(S, 1, i - 1), S[i])
              /\ SubSeq(S, 1, i - 1) \in Seq(Sections) /\ S[i] \in Sections
        BY <3>1, PrefixMerged
      <3>4. f[i - 1] \in Seq(Sections) /\ f[i] = MergeOne(f[i - 1], S[i])
        BY <1>1, <3>1
      <3>5. Keeps(SubSeq(S, 1, i), f[i])
        BY <3>2, <3>3, <3>4, MergeOneKeeps
      <3>6. QED
        BY <2>3, <3>5
    <2>6. QED
      BY <2>4, <2>5
  <1>4. Keeps(SubSeq(S, 1, Len(S)), f[Len(S)])
    BY <1>2, <1>3
  <1>5. SubSeq(S, 1, Len(S)) = S
    OBVIOUS
  <1>6. f[Len(S)] \in Seq(Sections)
    BY <1>1, <1>2
  <1>7. QED
    BY <1>1, <1>4, <1>5, <1>6

\* The merged sections have the words of the file, at the same addresses.
LEMMA MergedWords ==
  ASSUME NEW S \in Seq(Sections), NEW M, Keeps(S, M)
  PROVE  /\ \A p \in Places(S) : \E m \in Places(M) : Address(M, m) = Address(S, p) /\ Word(M, m) = Word(S, p)
         /\ \A m \in Places(M) : \E p \in Places(S) : Address(M, m) = Address(S, p) /\ Word(M, m) = Word(S, p)
         /\ Addresses(S) = Addresses(M)
         /\ NoCellTwice(S) <=> NoCellTwice(M)
  <1>1. PICK g : Carries(g, S, M)
    BY DEF Keeps
  <1>2. /\ \A p \in Places(S) : g[p] \in Places(M) /\ Address(M, g[p]) = Address(S, p) /\ Word(M, g[p]) = Word(S, p)
        /\ \A p, q \in Places(S) : g[p] = g[q] => p = q
        /\ \A m \in Places(M) : \E p \in Places(S) : g[p] = m
    BY <1>1 DEF Carries
  <1>3. \A m \in Places(M) : \E p \in Places(S) : Address(M, m) = Address(S, p) /\ Word(M, m) = Word(S, p)
    BY <1>2
  <1>4. \A p \in Places(S) : \E m \in Places(M) : Address(M, m) = Address(S, p) /\ Word(M, m) = Word(S, p)
    BY <1>2
  <1>5. Addresses(S) = Addresses(M)
    BY <1>3, <1>4 DEF Addresses
  <1>6. NoCellTwice(S) => NoCellTwice(M)
    BY <1>2 DEF NoCellTwice
  <1>7. NoCellTwice(M) => NoCellTwice(S)
    BY <1>2 DEF NoCellTwice
  <1>8. QED
    BY <1>3, <1>4, <1>5, <1>6, <1>7
-----------------------------------------------------------------------------
(* Neighbours and ranges: make_program_stream's checks of whole sections   *)
(* are those of the single words.                                          *)

LEMMA SortsNext ==
  ASSUME NEW M \in Seq(Sections), NEW i \in 1 .. Len(M), NEW j \in 1 .. Len(M), SortsBefore(M, i, j)
  PROVE  \E k \in 1 .. Len(M) :
           /\ SortsBefore(M, i, k)
           /\ k = j \/ SortsBefore(M, k, j)
           /\ ~\E l \in 1 .. Len(M) : SortsBefore(M, i, l) /\ SortsBefore(M, l, k)
  <1> DEFINE K == Len(M)
             After == {k \in 1 .. K : SortsBefore(M, i, k)}
             At(a) == {k \in After : M[k].address = a}
             Starting == {a \in Nat : At(a) # {}}
  <1>0. \A k \in 1 .. K : M[k].address \in Nat
    BY SectionFacts
  <1>1. j \in After /\ M[j].address \in Starting
    BY <1>0
  <1>2. PICK a \in Starting : \A b \in Starting : a <= b
    <2>1. Starting \in SUBSET Nat /\ Starting # {}
      BY <1>1
    <2> HIDE DEF Starting
    <2>2. QED
      BY <2>1, LeastNumber
  <1>3. PICK k \in At(a) : \A l \in At(a) : k <= l
    <2>1. At(a) \in SUBSET Nat /\ At(a) # {}
      BY <1>2
    <2> HIDE DEF At
    <2>2. QED
      BY <2>1, LeastNumber
  <1>4. k \in 1 .. K /\ SortsBefore(M, i, k) /\ M[k].address = a /\ a \in Nat
    BY <1>2
  <1>5. \A l \in After : a <= M[l].address /\ M[l].address \in Nat
    <2>1. ASSUME NEW l \in After PROVE a <= M[l].address /\ M[l].address \in Nat
      <3>1. M[l].address \in Nat /\ l \in At(M[l].address)
        BY <1>0
      <3>2. M[l].address \in Starting
        BY <3>1
      <3>3. QED
        BY <1>2, <3>1, <3>2
    <2>2. QED
      BY <2>1
  <1>6. \A l \in After : l = k \/ SortsBefore(M, k, l)
    <2>1. ASSUME NEW l \in After, l # k PROVE SortsBefore(M, k, l)
      <3>1. CASE M[l].address = a
        <4>1. l \in At(a)
          BY <3>1
        <4>2. k <= l /\ k \in Nat /\ l \in Nat
          BY <1>3, <1>4, <4>1
        <4>3. k < l
          BY <2>1, <4>2
        <4>4. QED
          BY <1>4, <3>1, <4>3 DEF SortsBefore
      <3>2. CASE M[l].address # a
        <4>1. a < M[l].address
          BY <1>4, <1>5, <3>2
        <4>2. QED
          BY <1>4, <4>1 DEF SortsBefore
      <3>3. QED
        BY <3>1, <3>2
    <2>2. QED
      BY <2>1
  <1>7. ASSUME NEW l \in 1 .. K, SortsBefore(M, i, l), SortsBefore(M, l, k) PROVE FALSE
    <2>1. l = k \/ SortsBefore(M, k, l)
      BY <1>6, <1>7
    <2>2. M[l].address \in Nat /\ M[k].address \in Nat /\ l \in Nat /\ k \in Nat
      BY <1>0, <1>4
    <2>3. QED
      BY <1>7, <2>1, <2>2 DEF SortsBefore
  <1>8. k = j \/ SortsBefore(M, k, j)
    BY <1>1, <1>6
  <1>9. QED
    BY <1>4, <1>7, <1>8

LEMMA NeighboursMeanWords ==
  ASSUME NEW M \in Seq(Sections), Full(M)
  PROVE  NeighboursApart(M) <=> NoCellTwice(M)
  <1>1. \A i \in 1 .. Len(M) : /\ M[i].address \in Nat /\ Len(M[i].words) \in Nat \ {0}
                               /\ Limit(M[i]) = M[i].address + Len(M[i].words)
    BY SectionFacts DEF Full
  <1>2. DOMAIN M = 1 .. Len(M) /\ Len(M) \in Nat
    OBVIOUS
  <1>3. ASSUME NeighboursApart(M) PROVE NoCellTwice(M)
    <2>1. ASSUME NEW i \in 1 .. Len(M), NEW j \in 1 .. Len(M), SortsBefore(M, i, j)
          PROVE  Limit(M[i]) <= M[j].address
      <3>1. PICK k \in 1 .. Len(M) :
              /\ SortsBefore(M, i, k)
              /\ k = j \/ SortsBefore(M, k, j)
              /\ ~\E l \in 1 .. Len(M) : SortsBefore(M, i, l) /\ SortsBefore(M, l, k)
        BY <2>1, SortsNext
      <3>2. Limit(M[i]) <= M[k].address
        BY <1>2, <1>3, <3>1 DEF NeighboursApart
      <3>3. M[k].address <= M[j].address
        BY <1>1, <3>1 DEF SortsBefore
      <3>4. \A x, y, z \in Nat : x <= y /\ y <= z => x <= z
        OBVIOUS
      <3>5. Limit(M[i]) \in Nat /\ M[k].address \in Nat /\ M[j].address \in Nat
        BY <1>1, <3>1
      <3>6. QED
        BY <3>2, <3>3, <3>4, <3>5
    <2>2. ASSUME NEW p \in Places(M), NEW q \in Places(M), Address(M, p) = Address(M, q),
                 SortsBefore(M, p[1], q[1])
          PROVE  FALSE
      <3>1. /\ p[1] \in 1 .. Len(M) /\ p[2] \in 1 .. Len(M[p[1]].words)
            /\ q[1] \in 1 .. Len(M) /\ q[2] \in 1 .. Len(M[q[1]].words)
        BY PlaceIs
      <3>2. M[p[1]].address + Len(M[p[1]].words) <= M[q[1]].address
        BY <1>1, <2>1, <2>2, <3>1
      <3>3. M[p[1]].address + p[2] - 1 = M[q[1]].address + q[2] - 1
        BY <2>2 DEF Address
      <3>4. M[p[1]].address \in Nat /\ Len(M[p[1]].words) \in Nat /\ M[q[1]].address \in Nat
              /\ Len(M[q[1]].words) \in Nat
        BY <1>1, <3>1
      <3>5. \A a, la, b, lb \in Nat : \A x \in 1 .. la, y \in 1 .. lb :
              a + la <= b => a + x - 1 # b + y - 1
        OBVIOUS
      <3>6. QED
        BY <3>1, <3>2, <3>3, <3>4, <3>5
    <2>3. ASSUME NEW p \in Places(M), NEW q \in Places(M), Address(M, p) = Address(M, q)
          PROVE  p = q
      <3>1. /\ p[1] \in 1 .. Len(M) /\ p[2] \in 1 .. Len(M[p[1]].words) /\ p = <<p[1], p[2]>>
            /\ q[1] \in 1 .. Len(M) /\ q[2] \in 1 .. Len(M[q[1]].words) /\ q = <<q[1], q[2]>>
        BY PlaceIs
      <3>2. M[p[1]].address \in Nat /\ M[q[1]].address \in Nat
        BY <1>1, <3>1
      <3>3. CASE p[1] = q[1]
        <4>1. p[2] \in Int /\ q[2] \in Int
          BY <1>1, <3>1
        <4>2. p[2] = q[2]
          BY <2>3, <3>2, <3>3, <4>1 DEF Address
        <4>3. QED
          BY <3>1, <3>3, <4>2
      <3>4. CASE p[1] # q[1]
        <4>1. SortsBefore(M, p[1], q[1]) \/ SortsBefore(M, q[1], p[1])
          BY <3>1, <3>2, <3>4 DEF SortsBefore
        <4>2. QED
          BY <2>2, <2>3, <4>1
      <3>5. QED
        BY <3>3, <3>4
    <2>4. QED
      BY <2>3 DEF NoCellTwice
  <1>4. ASSUME NoCellTwice(M) PROVE NeighboursApart(M)
    <2>1. ASSUME NEW i \in 1 .. Len(M), NEW j \in 1 .. Len(M), SortsBefore(M, i, j)
          PROVE  Limit(M[i]) <= M[j].address
      <3>1. SUFFICES ASSUME ~(Limit(M[i]) <= M[j].address) PROVE FALSE
        OBVIOUS
      <3>2. M[i].address <= M[j].address /\ i # j
        BY <1>1, <2>1 DEF SortsBefore
      <3>3. PICK n \in Nat : n = M[j].address - M[i].address
        BY <1>1, <3>2
      <3>4. n + 1 \in 1 .. Len(M[i].words) /\ 1 \in 1 .. Len(M[j].words)
        BY <1>1, <3>1, <3>3
      <3>5. <<i, n + 1>> \in Places(M) /\ <<j, 1>> \in Places(M)
        BY <3>4, PlaceIs
      <3>6. Address(M, <<i, n + 1>>) = Address(M, <<j, 1>>)
        BY <1>1, <3>3 DEF Address
      <3>7. <<i, n + 1>> = <<j, 1>>
        BY <1>4, <3>5, <3>6 DEF NoCellTwice
      <3>8. QED
        BY <3>2, <3>7
    <2>2. QED
      BY <1>2, <2>1 DEF NeighboursApart
  <1>5. QED
    BY <1>3, <1>4

LEMMA Constants ==
  /\ MemWords \in Nat /\ MemWords <= 65536 /\ BootLimit \in Nat /\ BootLimit <= MemWords
  /\ ProgramLimit \in Nat /\ ProgramLimit <= MemWords
  /\ LoaderFirst \in Nat \ {0} /\ LoaderLimit \in Nat /\ LoaderFirst < LoaderLimit
  /\ LoaderLimit <= BootLimit
  /\ \A i \in Islands : /\ i[1] \in Nat /\ i[2] \in Nat /\ i[1] > ProgramLimit /\ i[1] < i[2]
                        /\ i[2] <= MemWords
  /\ \A i, j \in Islands : i = j \/ i[2] < j[1] \/ j[2] < i[1]
  <1>1. /\ MemWords \in Nat /\ MemWords <= 65536
        /\ BootLimit \in 1 .. MemWords /\ ProgramLimit \in 0 .. MemWords
        /\ LoaderFirst \in Nat \ {0} /\ LoaderLimit \in LoaderFirst + 1 .. BootLimit
    BY ImageAssumption
  <1>2. \A i \in Islands : i \in Nat \X Nat /\ i[1] > ProgramLimit /\ i[2] \in i[1] + 1 .. MemWords
    BY IslandsAssumption
  <1>3. \A i \in Nat \X Nat : i[1] \in Nat /\ i[2] \in Nat
    OBVIOUS
  <1>4. \A i, j \in Islands : i = j \/ i[2] < j[1] \/ j[2] < i[1]
    BY IslandsAssumption
  <1>5. \A i \in Islands : i[1] < i[2] /\ i[2] <= MemWords
    BY <1>1, <1>2, <1>3
  <1>6. /\ MemWords \in Nat /\ MemWords <= 65536 /\ BootLimit \in Nat /\ BootLimit <= MemWords
        /\ ProgramLimit \in Nat /\ ProgramLimit <= MemWords
        /\ LoaderFirst \in Nat \ {0}
        /\ LoaderLimit \in Nat /\ LoaderFirst < LoaderLimit /\ LoaderLimit <= BootLimit
    BY <1>1
  <1>7. \A i \in Islands : /\ i[1] \in Nat /\ i[2] \in Nat /\ i[1] > ProgramLimit /\ i[1] < i[2]
                           /\ i[2] <= MemWords
    BY <1>2, <1>3, <1>5
  <1>8. QED
    BY <1>4, <1>6, <1>7

LEMMA RangeMeansWords ==
  ASSUME NEW a \in Nat, NEW b \in Nat, a < b
  PROVE  (/\ b <= LoaderFirst \/ a >= LoaderLimit
          /\ b <= ProgramLimit \/ \E i \in Islands : a >= i[1] /\ b <= i[2])
         <=> (\A c \in a .. b - 1 :
               /\ c < ProgramLimit \/ \E i \in Islands : c >= i[1] /\ c < i[2]
               /\ ~(c >= LoaderFirst /\ c < LoaderLimit))
  <1>1. /\ ProgramLimit \in Nat /\ LoaderFirst \in Nat /\ LoaderLimit \in Nat /\ LoaderFirst < LoaderLimit
        /\ \A i \in Islands : i[1] \in Nat /\ i[2] \in Nat /\ i[1] > ProgramLimit /\ i[1] < i[2]
        /\ \A i, j \in Islands : i = j \/ i[2] < j[1] \/ j[2] < i[1]
    BY Constants
  <1>2. ASSUME b <= LoaderFirst \/ a >= LoaderLimit,
               b <= ProgramLimit \/ \E i \in Islands : a >= i[1] /\ b <= i[2],
               NEW c \in a .. b - 1
        PROVE  /\ c < ProgramLimit \/ \E i \in Islands : c >= i[1] /\ c < i[2]
               /\ ~(c >= LoaderFirst /\ c < LoaderLimit)
    BY <1>1, <1>2
  <1>3. ASSUME \A c \in a .. b - 1 : ~(c >= LoaderFirst /\ c < LoaderLimit)
        PROVE  b <= LoaderFirst \/ a >= LoaderLimit
    <2>1. SUFFICES ASSUME b > LoaderFirst, a < LoaderLimit PROVE FALSE
      BY <1>1
    <2>2. PICK c \in a .. b - 1 : c >= LoaderFirst /\ c < LoaderLimit
      <3>1. CASE a >= LoaderFirst
        BY <1>1, <2>1, <3>1
      <3>2. CASE a < LoaderFirst
        BY <1>1, <2>1, <3>2
      <3>3. QED
        BY <1>1, <3>1, <3>2
    <2>3. QED
      BY <1>3, <2>2
  <1>4. ASSUME \A c \in a .. b - 1 : c < ProgramLimit \/ \E i \in Islands : c >= i[1] /\ c < i[2]
        PROVE  b <= ProgramLimit \/ \E i \in Islands : a >= i[1] /\ b <= i[2]
    <2>1. a \in a .. b - 1
      OBVIOUS
    <2>2. CASE a < ProgramLimit
      <3>1. SUFFICES ASSUME b > ProgramLimit PROVE FALSE
        BY <1>1
      <3>2. ProgramLimit \in a .. b - 1
        BY <1>1, <2>2, <3>1
      <3>3. PICK i \in Islands : ProgramLimit >= i[1]
        BY <1>1, <1>4, <3>2
      <3>4. QED
        BY <1>1, <3>3
    <2>3. CASE ~(a < ProgramLimit)
      <3>1. PICK i \in Islands : a >= i[1] /\ a < i[2]
        BY <1>4, <2>1, <2>3
      <3>2. i[1] \in Nat /\ i[2] \in Nat /\ i[1] > ProgramLimit
        BY <1>1
      <3>3. SUFFICES ASSUME b > i[2] PROVE FALSE
        BY <3>1, <3>2
      <3>4. i[2] \in a .. b - 1 /\ ~(i[2] < ProgramLimit)
        BY <1>1, <3>1, <3>2, <3>3
      <3>5. PICK j \in Islands : i[2] >= j[1] /\ i[2] < j[2]
        BY <1>4, <3>4
      <3>6. j[1] \in Nat /\ j[2] \in Nat /\ (i = j \/ i[2] < j[1] \/ j[2] < i[1])
        BY <1>1
      <3>7. QED
        BY <3>1, <3>2, <3>5, <3>6
    <2>4. QED
      BY <2>2, <2>3
  <1>5. QED
    BY <1>2, <1>3, <1>4

Allowed == ((0 .. ProgramLimit - 1) \cup UNION {i[1] .. i[2] - 1 : i \in Islands})
             \ (LoaderFirst .. LoaderLimit - 1)

LEMMA SectionMeansWords ==
  ASSUME NEW s \in Sections, Len(s.words) # 0
  PROVE  /\ ClearOfTables(s) => Limit(s) <= MemWords
         /\ ClearOfLoader(s) /\ ClearOfTables(s)
              <=> \A j \in 1 .. Len(s.words) : s.address + j - 1 \in Allowed
  <1>1. PICK a \in Nat, b \in Nat : a = s.address /\ b = Limit(s) /\ b = a + Len(s.words) /\ a < b
    BY SectionFacts
  <1>2. /\ ProgramLimit \in Nat /\ LoaderFirst \in Nat /\ LoaderLimit \in Nat /\ MemWords \in Nat
        /\ ProgramLimit <= MemWords
        /\ \A i \in Islands : i[1] \in Nat /\ i[2] \in Nat /\ i[2] <= MemWords
    BY Constants
  <1>3. ClearOfTables(s) => Limit(s) <= MemWords
    BY <1>1, <1>2 DEF ClearOfTables
  <1>4. ASSUME NEW c \in Nat
        PROVE  c \in Allowed <=> /\ c < ProgramLimit \/ \E i \in Islands : c >= i[1] /\ c < i[2]
                                 /\ ~(c >= LoaderFirst /\ c < LoaderLimit)
    <2>1. c \in 0 .. ProgramLimit - 1 <=> c < ProgramLimit
      BY <1>2
    <2>2. c \in LoaderFirst .. LoaderLimit - 1 <=> c >= LoaderFirst /\ c < LoaderLimit
      BY <1>2
    <2>3. \A i \in Islands : c \in i[1] .. i[2] - 1 <=> c >= i[1] /\ c < i[2]
      BY <1>2
    <2>4. c \in UNION {i[1] .. i[2] - 1 : i \in Islands} <=> \E i \in Islands : c \in i[1] .. i[2] - 1
      OBVIOUS
    <2>5. QED
      BY <2>1, <2>2, <2>3, <2>4 DEF Allowed
  <1>5. (\A j \in 1 .. Len(s.words) : s.address + j - 1 \in Allowed) <=> \A c \in a .. b - 1 : c \in Allowed
    <2>1. PICK n \in Nat : n = Len(s.words) /\ b = a + n
      BY <1>1, SectionFacts
    <2>2. \A j \in 1 .. n : a + j - 1 \in a .. b - 1
      BY <2>1
    <2>3. \A c \in a .. b - 1 : c - a + 1 \in 1 .. n /\ c = a + (c - a + 1) - 1
      BY <2>1
    <2> HIDE DEF Allowed
    <2>4. (\A j \in 1 .. n : a + j - 1 \in Allowed) <=> \A c \in a .. b - 1 : c \in Allowed
      BY <2>2, <2>3
    <2>5. QED
      BY <1>1, <2>1, <2>4
  <1>6. \A c \in a .. b - 1 : c \in Nat
    OBVIOUS
  <1>7. ClearOfLoader(s) /\ ClearOfTables(s) <=>
          /\ b <= LoaderFirst \/ a >= LoaderLimit
          /\ b <= ProgramLimit \/ \E i \in Islands : a >= i[1] /\ b <= i[2]
    BY <1>1 DEF ClearOfLoader, ClearOfTables
  <1>8. ClearOfLoader(s) /\ ClearOfTables(s) <=> \A c \in a .. b - 1 : c \in Allowed
    BY <1>1, <1>4, <1>6, <1>7, RangeMeansWords
  <1>9. QED
    BY <1>3, <1>5, <1>8

\* The build's checks of merged sections take a file if and only if each of
\* its words has one address and that is free, wherever the sections lie.
LEMMA StreamableIs ==
  ASSUME NEW l, l.sections \in Seq(Sections)
  PROVE  Streamable(l) <=>
           /\ Complete(l) /\ l.entry = 0 /\ OnlyP(l.sections)
           /\ NoCellTwice(l.sections) /\ Addresses(l.sections) \subseteq Allowed
  <1> DEFINE S == l.sections
             M == Merge(l.sections)
  <1>1. M \in Seq(Sections) /\ Keeps(S, M)
    BY MergeKeeps
  <1>2. SUFFICES ASSUME Complete(l)
                 PROVE  /\ NeighboursApart(M)
                        /\ \A s \in ToSet(M) : Limit(s) <= MemWords /\ ClearOfLoader(s) /\ ClearOfTables(s)
                        <=> NoCellTwice(S) /\ Addresses(S) \subseteq Allowed
    BY DEF Streamable
  <1> HIDE DEF M
  <1>3. Full(S)
    <2>1. \A i \in DOMAIN S : S[i].words # <<>>
      BY <1>2 DEF Complete
    <2>2. ASSUME NEW i \in 1 .. Len(S) PROVE Len(S[i].words) # 0
      <3>1. S[i].words \in Seq(DspWords) /\ i \in DOMAIN S
        BY SectionFacts
      <3>2. S[i].words # <<>>
        BY <2>1, <3>1
      <3>3. QED
        BY <3>1, <3>2
    <2>3. QED
      BY <2>2 DEF Full
  <1>4. Full(M)
    BY <1>1, <1>3 DEF Keeps
  <1>5. NeighboursApart(M) <=> NoCellTwice(S)
    BY <1>1, <1>4, NeighboursMeanWords, MergedWords
  <1>6. Addresses(S) = Addresses(M)
    BY <1>1, MergedWords
  <1>7. Addresses(M) \subseteq Allowed
          <=> \A i \in 1 .. Len(M) : \A j \in 1 .. Len(M[i].words) : M[i].address + j - 1 \in Allowed
    <2>1. \A i \in 1 .. Len(M) : \A j \in 1 .. Len(M[i].words) :
            <<i, j>> \in Places(M) /\ Address(M, <<i, j>>) = M[i].address + j - 1
      BY <1>1, PlaceIs DEF Address
    <2>2. \A p \in Places(M) : /\ p[1] \in 1 .. Len(M) /\ p[2] \in 1 .. Len(M[p[1]].words)
                               /\ Address(M, p) = M[p[1]].address + p[2] - 1
      BY <1>1, PlaceIs DEF Address
    <2>3. Addresses(M) \subseteq Allowed <=> \A p \in Places(M) : Address(M, p) \in Allowed
      BY DEF Addresses
    <2> HIDE DEF Allowed
    <2>4. QED
      BY <2>1, <2>2, <2>3
  <1>8. (\A s \in ToSet(M) : Limit(s) <= MemWords /\ ClearOfLoader(s) /\ ClearOfTables(s))
          <=> \A i \in 1 .. Len(M) : Limit(M[i]) <= MemWords /\ ClearOfLoader(M[i]) /\ ClearOfTables(M[i])
    <2>1. ToSet(M) = {M[i] : i \in 1 .. Len(M)}
      BY <1>1 DEF ToSet
    <2>2. QED
      BY <2>1
  <1>9. \A i \in 1 .. Len(M) :
          (Limit(M[i]) <= MemWords /\ ClearOfLoader(M[i]) /\ ClearOfTables(M[i]))
            <=> \A j \in 1 .. Len(M[i].words) : M[i].address + j - 1 \in Allowed
    <2>1. ASSUME NEW i \in 1 .. Len(M)
          PROVE  (Limit(M[i]) <= MemWords /\ ClearOfLoader(M[i]) /\ ClearOfTables(M[i]))
                   <=> \A j \in 1 .. Len(M[i].words) : M[i].address + j - 1 \in Allowed
      <3>1. M[i] \in Sections /\ Len(M[i].words) # 0
        BY <1>1, <1>4 DEF Full
      <3>2. QED
        BY <3>1, SectionMeansWords
    <2>2. QED
      BY <2>1
  <1>10. QED
    BY <1>5, <1>6, <1>7, <1>8, <1>9
-----------------------------------------------------------------------------
(* The boot image: its size, its bytes, and what they install.             *)

LEMMA HighestAddress ==
  ASSUME NEW S \in Seq(Sections), Addresses(S) # {}
  PROVE  /\ Max(Addresses(S)) \in Nat /\ Max(Addresses(S)) \in Addresses(S)
         /\ \A a \in Addresses(S) : a <= Max(Addresses(S))
  <1> DEFINE Below(n) == {b \in Nat : \A i \in 1 .. n : Limit(S[i]) <= b}
             Bad == {n \in 0 .. Len(S) : Below(n) = {}}
  <1>1. \A i \in 1 .. Len(S) : Limit(S[i]) \in Nat
    BY SectionFacts
  <1>2. Len(S) \in Nat /\ Len(S) \in 0 .. Len(S)
    OBVIOUS
  <1>3. Bad = {}
    <2>1. SUFFICES ASSUME Bad # {} PROVE FALSE
      OBVIOUS
    <2>2. PICK n \in Bad : \A m \in Bad : n <= m
      <3>1. Bad \in SUBSET Nat
        OBVIOUS
      <3>2. QED
        BY <2>1, <3>1, LeastNumber
    <2>3. n \in 0 .. Len(S) /\ Below(n) = {}
      OBVIOUS
    <2>4. n # 0
      <3>1. 0 \in Below(0)
        OBVIOUS
      <3>2. QED
        BY <2>3, <3>1
    <2>5. n \in 1 .. Len(S) /\ n - 1 \in 0 .. Len(S) /\ ~(n <= n - 1)
      BY <2>3, <2>4
    <2>6. PICK b \in Below(n - 1) : TRUE
      BY <2>2, <2>5
    <2>7. PICK c \in Nat : c >= b /\ c >= Limit(S[n])
      <3>1. b \in Nat /\ Limit(S[n]) \in Nat
        BY <1>1, <2>5
      <3>2. b + Limit(S[n]) \in Nat /\ b + Limit(S[n]) >= b /\ b + Limit(S[n]) >= Limit(S[n])
        BY <3>1
      <3>3. QED
        BY <3>2
    <2>8. \A i \in 1 .. n : Limit(S[i]) <= c
      <3>1. ASSUME NEW i \in 1 .. n PROVE Limit(S[i]) <= c
        <4>1. CASE i = n
          BY <2>7, <4>1
        <4>2. CASE i # n
          <5>1. i \in 1 .. n - 1 /\ i \in 1 .. Len(S)
            BY <2>5, <4>2
          <5>2. Limit(S[i]) <= b /\ b \in Nat /\ Limit(S[i]) \in Nat
            BY <1>1, <2>6, <5>1
          <5>3. QED
            BY <2>7, <5>2
        <4>3. QED
          BY <4>1, <4>2
      <3>2. QED
        BY <3>1
    <2>9. c \in Below(n)
      BY <2>8
    <2>10. QED
      BY <2>3, <2>9
  <1>4. PICK b \in Below(Len(S)) : TRUE
    BY <1>2, <1>3
  <1>5. \A a \in Addresses(S) : a \in Nat /\ a <= b
    <2>1. ASSUME NEW p \in Places(S) PROVE Address(S, p) \in Nat /\ Address(S, p) <= b
      <3>1. p[1] \in 1 .. Len(S) /\ p[2] \in 1 .. Len(S[p[1]].words)
        BY PlaceIs
      <3>2. S[p[1]].address \in Nat /\ Len(S[p[1]].words) \in Nat
              /\ Limit(S[p[1]]) = S[p[1]].address + Len(S[p[1]].words) /\ Limit(S[p[1]]) <= b /\ b \in Nat
        BY <1>4, <3>1, SectionFacts
      <3>3. \A x, y, z \in Nat : \A j \in 1 .. y : x + y <= z => x + j - 1 \in Nat /\ x + j - 1 <= z
        OBVIOUS
      <3>4. S[p[1]].address + p[2] - 1 \in Nat /\ S[p[1]].address + p[2] - 1 <= b
        BY <3>1, <3>2, <3>3
      <3>5. QED
        BY <3>4 DEF Address
    <2>2. QED
      BY <2>1 DEF Addresses
  <1> DEFINE Bounds == {u \in Nat : \A a \in Addresses(S) : a <= u}
  <1>6. b \in Bounds
    BY <1>4, <1>5
  <1>7. PICK u \in Bounds : \A v \in Bounds : u <= v
    <2>1. Bounds \in SUBSET Nat /\ Bounds # {}
      BY <1>6
    <2>2. QED
      BY <2>1, LeastNumber
  <1>8. u \in Addresses(S)
    <2>1. SUFFICES ASSUME u \notin Addresses(S) PROVE FALSE
      OBVIOUS
    <2>2. PICK a \in Addresses(S) : a \in Nat
      BY <1>5
    <2>3. \A c \in Addresses(S) : c \in Nat /\ c <= u /\ c # u
      BY <1>5, <1>7, <2>1
    <2>4. u \in Nat /\ u - 1 \in Nat
      BY <2>2, <2>3
    <2>5. u - 1 \in Bounds
      BY <2>3, <2>4
    <2>6. QED
      BY <1>7, <2>4, <2>5
  <1>9. \E x \in Addresses(S) : \A y \in Addresses(S) : x >= y
    BY <1>5, <1>7, <1>8
  <1>10. /\ Max(Addresses(S)) \in Addresses(S)
         /\ \A y \in Addresses(S) : Max(Addresses(S)) >= y
    BY <1>9 DEF Max
  <1>11. QED
    BY <1>5, <1>10

LEMMA PackedIs ==
  ASSUME NEW w \in DspWords
  PROVE  65536 * Packed(w)[1] + 256 * Packed(w)[2] + Packed(w)[3] = w
  <1>1. w \in Int /\ 0 <= w /\ w < 16777216
    BY SMT DEF DspWords
  <1>2. 65536 * ((w \div 65536) % 256) + 256 * ((w \div 256) % 256) + (w % 256) = w
    BY ONLY <1>1, SMT
  <1>3. QED
    BY <1>2 DEF Packed

LEMMA BytesOf ==
  ASSUME NEW a \in Nat
  PROVE  /\ ((3 * a + 1) - 1) \div 3 = a /\ ((3 * a + 1) - 1) % 3 = 0
         /\ ((3 * a + 2) - 1) \div 3 = a /\ ((3 * a + 2) - 1) % 3 = 1
         /\ ((3 * a + 3) - 1) \div 3 = a /\ ((3 * a + 3) - 1) % 3 = 2
  OBVIOUS

LEMMA BootInstalls ==
  ASSUME NEW z \in Nat, NEW words \in [1 .. z -> DspWords], z <= MemWords,
         ExecBoot(BootBytes(words))
  PROVE  /\ mem' \in [0 .. MemWords - 1 -> Nat]
         /\ \A a \in 0 .. MemWords - 1 : mem'[a] = IF a < z THEN words[a + 1] ELSE 0
  <1>1. MemWords \in Nat
    BY Constants
  <1>2. Len(words) = z
    OBVIOUS
  <1> DEFINE bytes == BootBytes(words)
  <1>3. Len(bytes) = 3 * z /\ \A i \in 1 .. 3 * z : bytes[i] = Packed(words[(i - 1) \div 3 + 1])[((i - 1) % 3) + 1]
    <2>1. 3 * Len(words) \in Nat /\ 3 * Len(words) = 3 * z
      BY <1>2
    <2>2. bytes = [i \in 1 .. 3 * z |-> Packed(words[(i - 1) \div 3 + 1])[((i - 1) % 3) + 1]]
      BY <1>2 DEF BootBytes
    <2>3. Len(bytes) = 3 * z
      BY <2>1, <2>2
    <2>4. QED
      BY <2>2, <2>3
  <1> HIDE DEF bytes
  <1>4. mem' = [a \in 0 .. MemWords - 1 |->
                  IF 3 * a + 3 > Len(bytes) THEN 0
                  ELSE 65536 * bytes[3 * a + 1] + 256 * bytes[3 * a + 2] + bytes[3 * a + 3]]
    BY DEF ExecBoot, bytes
  <1>5. ASSUME NEW a \in 0 .. MemWords - 1 PROVE mem'[a] = IF a < z THEN words[a + 1] ELSE 0
    <2>1. a \in Nat
      BY <1>1
    <2>2. mem'[a] = IF 3 * a + 3 > Len(bytes) THEN 0
                    ELSE 65536 * bytes[3 * a + 1] + 256 * bytes[3 * a + 2] + bytes[3 * a + 3]
      BY <1>4
    <2>3. CASE ~(a < z)
      <3>1. 3 * a + 3 > Len(bytes)
        BY <1>3, <2>1, <2>3
      <3>2. QED
        BY <2>2, <2>3, <3>1
    <2>4. CASE a < z
      <3>1. /\ 3 * a + 1 \in 1 .. 3 * z /\ 3 * a + 2 \in 1 .. 3 * z /\ 3 * a + 3 \in 1 .. 3 * z
            /\ ~(3 * a + 3 > Len(bytes)) /\ a + 1 \in 1 .. z
        BY <1>3, <2>1, <2>4
      <3>2. /\ bytes[3 * a + 1] = Packed(words[a + 1])[0 + 1]
            /\ bytes[3 * a + 2] = Packed(words[a + 1])[1 + 1]
            /\ bytes[3 * a + 3] = Packed(words[a + 1])[2 + 1]
        <4>1. /\ bytes[3 * a + 1]
                   = Packed(words[((3 * a + 1) - 1) \div 3 + 1])[(((3 * a + 1) - 1) % 3) + 1]
              /\ bytes[3 * a + 2]
                   = Packed(words[((3 * a + 2) - 1) \div 3 + 1])[(((3 * a + 2) - 1) % 3) + 1]
              /\ bytes[3 * a + 3]
                   = Packed(words[((3 * a + 3) - 1) \div 3 + 1])[(((3 * a + 3) - 1) % 3) + 1]
          BY <1>3, <3>1
        <4>2. QED
          BY <2>1, <4>1, BytesOf
      <3>3. words[a + 1] \in DspWords
        BY <3>1
      <3>4. 65536 * bytes[3 * a + 1] + 256 * bytes[3 * a + 2] + bytes[3 * a + 3] = words[a + 1]
        <4>1. 0 + 1 = 1 /\ 1 + 1 = 2 /\ 2 + 1 = 3
          OBVIOUS
        <4>2. QED
          BY <3>2, <3>3, <4>1, PackedIs
      <3>5. QED
        BY <2>2, <2>4, <3>1, <3>4
    <2>5. QED
      BY <2>3, <2>4
  <1>6. \A a \in 0 .. MemWords - 1 : mem'[a] \in Nat
    <2>1. \A i \in 1 .. z : words[i] \in Nat
      BY SMT DEF DspWords
    <2>2. \A a \in 0 .. MemWords - 1 : a < z => a + 1 \in 1 .. z
      BY <1>1
    <2>3. QED
      BY <1>5, <2>1, <2>2
  <1>7. QED
    BY <1>4, <1>5, <1>6

LEMMA ImageInstalls ==
  ASSUME NEW l, l.sections \in Seq(Sections), NoCellTwice(l.sections), 0 \in Addresses(l.sections),
         Max(Addresses(l.sections)) + 1 <= MemWords, ExecBoot(BootBytes(BootWords(l)))
  PROVE  /\ mem' \in [0 .. MemWords - 1 -> Nat]
         /\ \A p \in Places(l.sections) : mem'[Address(l.sections, p)] = Word(l.sections, p)
         /\ \A a \in (0 .. MemWords - 1) \ Addresses(l.sections) : mem'[a] = 0
  <1> DEFINE S == l.sections
             z == Max(Addresses(S)) + 1
             words == Image(S, z)
  <1>1. z \in Nat /\ \A a \in Addresses(S) : a \in Nat /\ a < z
    <2>1. PICK x \in Nat : x = Max(Addresses(S)) /\ \A a \in Addresses(S) : a <= x
      BY HighestAddress
    <2>2. \A a \in Addresses(S) : a \in Nat
      BY PlaceIs DEF Addresses
    <2>3. QED
      BY <2>1, <2>2
  <1> HIDE DEF z
  <1>2. \A i \in 1 .. z : words[i] =
          IF i - 1 \in Addresses(S) THEN Word(S, CHOOSE p \in Places(S) : Address(S, p) = i - 1) ELSE 0
    BY DEF Image
  <1>3. \A p \in Places(S) : words[Address(S, p) + 1] = Word(S, p)
    <2>1. ASSUME NEW p \in Places(S) PROVE words[Address(S, p) + 1] = Word(S, p)
      <3>1. Address(S, p) \in Addresses(S)
        BY DEF Addresses
      <3>2. Address(S, p) + 1 \in 1 .. z /\ (Address(S, p) + 1) - 1 = Address(S, p)
        BY <1>1, <3>1
      <3>3. (CHOOSE q \in Places(S) : Address(S, q) = Address(S, p)) = p
        BY DEF NoCellTwice
      <3>4. QED
        BY <1>2, <3>1, <3>2, <3>3
    <2>2. QED
      BY <2>1
  <1>4. words \in [1 .. z -> DspWords]
    <2>1. \A i \in 1 .. z : words[i] \in DspWords
      <3>1. ASSUME NEW i \in 1 .. z PROVE words[i] \in DspWords
        <4>1. CASE i - 1 \in Addresses(S)
          <5>1. PICK p \in Places(S) : i - 1 = Address(S, p)
            BY <4>1 DEF Addresses
          <5>2. (CHOOSE q \in Places(S) : Address(S, q) = i - 1) \in Places(S)
            BY <5>1
          <5>3. QED
            BY <1>2, <4>1, <5>2, PlaceIs
        <4>2. CASE i - 1 \notin Addresses(S)
          <5>1. words[i] = 0
            BY <1>2, <4>2
          <5>2. 0 \in DspWords
            BY SMT DEF DspWords
          <5>3. QED
            BY <5>1, <5>2
        <4>3. QED
          BY <4>1, <4>2
      <3>2. QED
        BY <3>1
    <2>2. QED
      BY <2>1 DEF Image
  <1>5. BootWords(l) = words
    BY DEF BootWords, z
  <1> HIDE DEF words
  <1>6. /\ mem' \in [0 .. MemWords - 1 -> Nat]
        /\ \A a \in 0 .. MemWords - 1 : mem'[a] = IF a < z THEN words[a + 1] ELSE 0
    <2>1. z <= MemWords
      BY DEF z
    <2>2. QED
      BY <1>1, <1>4, <1>5, <2>1, BootInstalls
  <1>7. ASSUME NEW p \in Places(S) PROVE mem'[Address(S, p)] = Word(S, p)
    <2>1. Address(S, p) \in Addresses(S)
      BY DEF Addresses
    <2>2. Address(S, p) \in 0 .. MemWords - 1 /\ Address(S, p) < z
      <3>1. z <= MemWords /\ MemWords \in Nat
        BY Constants DEF z
      <3>2. QED
        BY <1>1, <2>1, <3>1
    <2>3. QED
      BY <1>3, <1>6, <2>2
  <1>8. ASSUME NEW a \in (0 .. MemWords - 1) \ Addresses(S) PROVE mem'[a] = 0
    <2>1. CASE a < z
      <3>1. a + 1 \in 1 .. z /\ (a + 1) - 1 = a
        BY <1>1, <2>1
      <3>2. words[a + 1] = 0
        <4>1. words[a + 1] = IF (a + 1) - 1 \in Addresses(S)
                THEN Word(S, CHOOSE p \in Places(S) : Address(S, p) = (a + 1) - 1) ELSE 0
          BY <1>2, <3>1
        <4>2. QED
          BY <3>1, <4>1
      <3>3. QED
        BY <1>6, <2>1, <3>2
    <2>2. CASE ~(a < z)
      BY <1>6, <2>2
    <2>3. QED
      BY <2>1, <2>2
  <1>9. QED
    BY <1>6, <1>7, <1>8

LEMMA BootstrapIs ==
  /\ Bootstrap.sections \in Seq(Sections)
  /\ Bootable(Bootstrap, LoaderLimit)
  /\ \A p \in Places(Bootstrap.sections) :
       Word(Bootstrap.sections, p) = LoaderWord(Address(Bootstrap.sections, p))
  /\ Addresses(Bootstrap.sections) = {0} \cup LoaderFirst .. LoaderLimit - 1
  <1> DEFINE n == LoaderLimit - LoaderFirst
             loader == [i \in 1 .. n |-> LoaderWord(LoaderFirst + i - 1)]
             S == Bootstrap.sections
  <1>1. n \in Nat /\ n # 0 /\ LoaderFirst \in Nat \ {0} /\ LoaderFirst + n = LoaderLimit
          /\ LoaderLimit <= 65536 /\ LoaderLimit \in Nat /\ LoaderLimit <= BootLimit /\ BootLimit \in Nat
    BY Constants, SMT
  <1>2. LoaderWord(0) \in DspWords /\ \A i \in 1 .. n : LoaderWord(LoaderFirst + i - 1) \in DspWords
    BY <1>1, SMT DEF LoaderWord, DspWords
  <1> HIDE DEF n
  <1>3. /\ loader \in Seq(DspWords) /\ Len(loader) = n
        /\ <<LoaderWord(0)>> \in Seq(DspWords) /\ Len(<<LoaderWord(0)>>) = 1
    <2>1. loader \in [1 .. n -> DspWords] /\ n \in Nat
      BY <1>1, <1>2
    <2>2. loader \in Seq(DspWords) /\ Len(loader) = n
      <3> HIDE DEF loader
      <3>1. QED
        BY <2>1
    <2>3. \A w \in DspWords : <<w>> \in Seq(DspWords) /\ Len(<<w>>) = 1
      OBVIOUS
    <2>4. QED
      BY <1>2, <2>2, <2>3
  <1> DEFINE first == Section("P", 0, <<LoaderWord(0)>>)
             second == Section("P", LoaderFirst, loader)
  <1>4. S = <<first, second>> /\ Bootstrap.entry = 0
    BY DEF Bootstrap, n
  <1> HIDE DEF loader
  <1>5. /\ first \in Sections /\ second \in Sections
        /\ first.space = "P" /\ first.address = 0 /\ first.words = <<LoaderWord(0)>>
        /\ second.space = "P" /\ second.address = LoaderFirst /\ second.words = loader
    BY <1>1, <1>3 DEF Section, Sections
  <1> HIDE DEF first, second
  <1>6. S \in Seq(Sections) /\ Len(S) = 2 /\ S[1] = first /\ S[2] = second
    <2> HIDE DEF S
    <2>1. QED
      BY <1>4, <1>5
  <1> HIDE DEF S
  <1>7. /\ Len(S[1].words) = 1 /\ S[1].address = 0 /\ S[1].words[1] = LoaderWord(0) /\ S[1].space = "P"
        /\ Len(S[2].words) = n /\ S[2].address = LoaderFirst /\ S[2].words = loader /\ S[2].space = "P"
    <2>1. S[1].words = <<LoaderWord(0)>> /\ <<LoaderWord(0)>>[1] = LoaderWord(0)
      BY <1>5, <1>6
    <2>2. Len(S[1].words) = 1 /\ S[1].words[1] = LoaderWord(0)
      BY <1>3, <2>1
    <2>3. Len(S[2].words) = n /\ S[2].words = loader
      BY <1>3, <1>5, <1>6
    <2>4. QED
      BY <1>5, <1>6, <2>2, <2>3
  <1>8. \A p \in Places(S) :
          \/ p = <<1, 1>> /\ Address(S, p) = 0
          \/ p[2] \in 1 .. n /\ p = <<2, p[2]>> /\ Address(S, p) = LoaderFirst + p[2] - 1
    <2>1. ASSUME NEW p \in Places(S)
          PROVE  \/ p = <<1, 1>> /\ Address(S, p) = 0
                 \/ p[2] \in 1 .. n /\ p = <<2, p[2]>> /\ Address(S, p) = LoaderFirst + p[2] - 1
      <3>1. p[1] \in 1 .. 2 /\ p[2] \in 1 .. Len(S[p[1]].words) /\ p = <<p[1], p[2]>>
        BY <1>6, PlaceIs
      <3>2. CASE p[1] = 1
        <4>1. p[2] = 1
          <5>1. p[2] \in 1 .. 1
            BY <1>7, <3>1, <3>2
          <5>2. QED
            BY <5>1
        <4>2. QED
          BY <1>7, <3>1, <3>2, <4>1 DEF Address
      <3>3. CASE p[1] = 2
        BY <1>7, <3>1, <3>3 DEF Address
      <3>4. QED
        BY <3>1, <3>2, <3>3
    <2>2. QED
      BY <2>1
  <1>9. <<1, 1>> \in Places(S) /\ \A j \in 1 .. n : <<2, j>> \in Places(S)
    <2>1. 1 \in 1 .. Len(S) /\ 2 \in 1 .. Len(S) /\ 1 \in 1 .. Len(S[1].words)
      BY <1>6, <1>7
    <2>2. QED
      BY <1>6, <1>7, <2>1, PlaceIs
  <1>10. \A p \in Places(S) : Word(S, p) = LoaderWord(Address(S, p))
    <2>1. \A j \in 1 .. n : loader[j] = LoaderWord(LoaderFirst + j - 1)
      BY DEF loader
    <2>2. QED
      BY <1>7, <1>8, <2>1 DEF Word
  <1>11. Addresses(S) = {0} \cup LoaderFirst .. LoaderLimit - 1
    <2>1. \A p \in Places(S) : Address(S, p) \in {0} \cup LoaderFirst .. LoaderLimit - 1
      BY <1>1, <1>8
    <2>2. \A a \in LoaderFirst .. LoaderLimit - 1 :
            /\ a - LoaderFirst + 1 \in 1 .. n
            /\ <<2, a - LoaderFirst + 1>> \in Places(S) /\ Address(S, <<2, a - LoaderFirst + 1>>) = a
      <3>1. ASSUME NEW a \in LoaderFirst .. LoaderLimit - 1
            PROVE  /\ a - LoaderFirst + 1 \in 1 .. n
                   /\ <<2, a - LoaderFirst + 1>> \in Places(S) /\ Address(S, <<2, a - LoaderFirst + 1>>) = a
        <4>1. a - LoaderFirst + 1 \in 1 .. n
          BY <1>1
        <4>2. Address(S, <<2, a - LoaderFirst + 1>>) = LoaderFirst + (a - LoaderFirst + 1) - 1
          BY <1>7 DEF Address
        <4>3. LoaderFirst + (a - LoaderFirst + 1) - 1 = a
          BY <1>1
        <4>4. QED
          BY <1>9, <4>1, <4>2, <4>3
      <3>2. QED
        BY <3>1
    <2>3. Address(S, <<1, 1>>) = 0
      BY <1>7 DEF Address
    <2>4. QED
      BY <1>9, <2>1, <2>2, <2>3 DEF Addresses
  <1>12. NoCellTwice(S)
    <2>1. ASSUME NEW p \in Places(S), NEW q \in Places(S), Address(S, p) = Address(S, q) PROVE p = q
      <3>1. CASE p = <<1, 1>> \/ q = <<1, 1>>
        BY <1>1, <1>8, <2>1, <3>1
      <3>2. CASE p # <<1, 1>> /\ q # <<1, 1>>
        <4>1. p[2] \in Int /\ q[2] \in Int /\ p = <<2, p[2]>> /\ q = <<2, q[2]>>
                /\ LoaderFirst + p[2] - 1 = LoaderFirst + q[2] - 1
          BY <1>1, <1>8, <2>1, <3>2
        <4>2. p[2] = q[2]
          BY <1>1, <4>1
        <4>3. QED
          BY <4>1, <4>2
      <3>3. QED
        BY <3>1, <3>2
    <2>2. QED
      BY <2>1 DEF NoCellTwice
  <1>13. Max(Addresses(S)) = LoaderLimit - 1
    <2>1. LoaderLimit - 1 \in Addresses(S) /\ \A a \in Addresses(S) : a <= LoaderLimit - 1
      BY <1>1, <1>11
    <2>2. PICK m \in Nat : m = Max(Addresses(S)) /\ m \in Addresses(S) /\ LoaderLimit - 1 <= m
      BY <1>6, <2>1, HighestAddress
    <2>3. QED
      BY <1>1, <2>1, <2>2
  <1>14. Complete(Bootstrap) /\ OnlyP(S)
    <2>1. DOMAIN S = 1 .. 2
      BY <1>6
    <2>2. S[1].words # <<>> /\ S[2].words # <<>> /\ S # <<>>
      <3>1. \A t : t = <<>> => Len(t) = 0
        OBVIOUS
      <3>2. Len(S[1].words) # 0 /\ Len(S[2].words) # 0 /\ Len(S) # 0
        BY <1>1, <1>6, <1>7
      <3>3. QED
        BY <3>1, <3>2
    <2>3. QED
      BY <1>4, <1>7, <2>1, <2>2 DEF Complete, OnlyP, S
  <1>15. Bootable(Bootstrap, LoaderLimit)
    <2>1. (LoaderLimit - 1) + 1 = LoaderLimit /\ LoaderLimit <= LoaderLimit
      BY <1>1
    <2>2. QED
      BY <1>1, <1>4, <1>11, <1>12, <1>13, <1>14, <2>1 DEF Bootable, S
  <1>16. QED
    BY <1>6, <1>10, <1>11, <1>15 DEF S

LEMMA BootstrapInstalls ==
  ASSUME ExecBoot(BootBytes(BootWords(Bootstrap)))
  PROVE  mem' \in [0 .. MemWords - 1 -> Nat] /\ \A a \in 0 .. MemWords - 1 : mem'[a] = BootMem(a)
  <1> DEFINE S == Bootstrap.sections
  <1>1. S \in Seq(Sections) /\ NoCellTwice(S) /\ 0 \in Addresses(S) /\ Max(Addresses(S)) + 1 <= MemWords
    <2>1. Max(Addresses(S)) \in Nat
      BY BootstrapIs, HighestAddress
    <2>2. Max(Addresses(S)) + 1 <= BootLimit /\ NoCellTwice(S) /\ 0 \in Addresses(S)
      BY BootstrapIs DEF Bootable
    <2>3. BootLimit \in Nat /\ MemWords \in Nat /\ BootLimit <= MemWords
      BY Constants
    <2>4. QED
      BY <2>1, <2>2, <2>3, BootstrapIs
  <1>2. /\ mem' \in [0 .. MemWords - 1 -> Nat]
        /\ \A p \in Places(S) : mem'[Address(S, p)] = Word(S, p)
        /\ \A a \in (0 .. MemWords - 1) \ Addresses(S) : mem'[a] = 0
    BY <1>1, ImageInstalls
  <1>3. ASSUME NEW a \in 0 .. MemWords - 1 PROVE mem'[a] = BootMem(a)
    <2>1. CASE a \in Addresses(S)
      <3>1. PICK p \in Places(S) : a = Address(S, p)
        BY <2>1 DEF Addresses
      <3>2. mem'[a] = LoaderWord(a)
        BY <1>2, <3>1, BootstrapIs
      <3>3. a = 0 \/ a \in LoaderFirst .. LoaderLimit - 1
        BY <2>1, BootstrapIs
      <3>4. QED
        BY <3>2, <3>3 DEF BootMem
    <2>2. CASE a \notin Addresses(S)
      <3>1. ~(a = 0 \/ a \in LoaderFirst .. LoaderLimit - 1)
        BY <2>2, BootstrapIs
      <3>2. QED
        BY <1>2, <2>2, <3>1 DEF BootMem
    <2>3. QED
      BY <2>1, <2>2
  <1>4. QED
    BY <1>2, <1>3
-----------------------------------------------------------------------------
(* The stream, section by section.                                         *)

LEMMA LastSectionsIs ==
  ASSUME NEW M \in Seq(Sections)
  PROVE  /\ LastSections(M) \in [0 .. Len(M) -> Seq(Nat)]
         /\ LastSections(M)[0] = <<>>
         /\ \A n \in 1 .. Len(M) :
              LastSections(M)[n]
                = <<M[Len(M) - n + 1].address, Len(M[Len(M) - n + 1].words)>>
                    \o M[Len(M) - n + 1].words \o LastSections(M)[n - 1]
  <1> DEFINE N == Len(M)
             From(n) == M[N - n + 1]
             Row(n) == <<From(n).address, Len(From(n).words)>> \o From(n).words
             step == [n \in 1 .. N |-> [r \in Seq(Nat) |-> Row(n) \o r]]
             Steps(a) == [n \in 0 .. N |-> IF n = 0 THEN <<>> ELSE Row(n) \o a[n - 1]]
             last == CHOOSE a : a = Steps(a)
  <1>1. N \in Nat /\ <<>> \in Seq(Nat)
    OBVIOUS
  <1>2. \A n \in 1 .. N : Row(n) \in Seq(Nat)
    <2>1. ASSUME NEW n \in 1 .. N PROVE Row(n) \in Seq(Nat)
      <3>1. PICK s \in Sections : s = From(n)
        <4>1. N - n + 1 \in 1 .. N
          BY <1>1
        <4>2. QED
          BY <4>1
      <3>2. s.address \in Nat /\ Len(s.words) \in Nat /\ s.words \in Seq(Nat)
        <4>1. s.words \in Seq(DspWords) /\ s.address \in Nat
          BY SectionFacts
        <4>2. \A w \in DspWords : w \in Nat
          BY SMT DEF DspWords
        <4>3. s.words \in Seq(Nat)
          BY <4>1, <4>2
        <4>4. QED
          BY <4>1, <4>3
      <3>3. <<s.address, Len(s.words)>> \in Seq(Nat)
        BY <3>2
      <3>4. QED
        BY <3>1, <3>2, <3>3
    <2>2. QED
      BY <2>1
  <1> HIDE DEF Row, From
  <1>3. step \in [1 .. N -> [Seq(Nat) -> Seq(Nat)]]
    <2>1. \A n \in 1 .. N, r \in Seq(Nat) : Row(n) \o r \in Seq(Nat)
      BY <1>2
    <2>2. QED
      BY <2>1
  <1>4. PICK f \in [0 .. N -> Seq(Nat)] :
          f[0] = <<>> /\ \A n \in 1 .. N : f[n] = step[n][f[n - 1]]
    <2>1. Recursive(N, Seq(Nat), step)
      BY <1>1, <1>3 DEF Recursive
    <2>2. \E f : Follows(f, N, Seq(Nat), <<>>, step)
      <3> HIDE DEF step, N
      <3>1. QED
        BY <1>1, <2>1, Recursion
    <2>3. QED
      BY <2>2 DEF Follows
  <1>5. \A n \in 1 .. N : f[n] = Row(n) \o f[n - 1]
    <2>1. ASSUME NEW n \in 1 .. N PROVE f[n] = Row(n) \o f[n - 1]
      <3>1. n - 1 \in 0 .. N /\ f[n - 1] \in Seq(Nat)
        OBVIOUS
      <3>2. step[n][f[n - 1]] = Row(n) \o f[n - 1]
        BY <3>1
      <3>3. QED
        BY <1>4, <3>2
    <2>2. QED
      BY <2>1
  <1>6. f = Steps(f)
    <2>1. ASSUME NEW n \in 0 .. N PROVE f[n] = Steps(f)[n]
      BY <1>4, <1>5
    <2>2. QED
      BY <1>4, <2>1
  <1>7. last = Steps(last)
    BY <1>6
  <1>8. LastSections(M) = last
    BY DEF LastSections, Row, From
  <1> HIDE DEF last
  <1>9. last[0] = <<>> /\ \A n \in 1 .. N : last[n] = Row(n) \o last[n - 1]
    <2>1. last[0] = <<>>
      BY <1>7
    <2>2. ASSUME NEW n \in 1 .. N PROVE last[n] = Row(n) \o last[n - 1]
      <3>1. n \in 0 .. N /\ n # 0
        OBVIOUS
      <3>2. last[n] = Steps(last)[n]
        BY <1>7
      <3>3. QED
        BY <3>1, <3>2
    <2>3. QED
      BY <2>1, <2>2
  <1>10. \A n \in 0 .. N : last[n] \in Seq(Nat)
    <2> DEFINE Bad == {n \in 0 .. N : last[n] \notin Seq(Nat)}
    <2>1. SUFFICES ASSUME Bad # {} PROVE FALSE
      OBVIOUS
    <2>2. PICK n \in Bad : \A m \in Bad : n <= m
      <3>1. Bad \in SUBSET Nat
        OBVIOUS
      <3>2. QED
        BY <2>1, <3>1, LeastNumber
    <2>3. n \in 0 .. N /\ last[n] \notin Seq(Nat)
      OBVIOUS
    <2>4. n # 0
      BY <1>1, <1>9, <2>3
    <2>5. n \in 1 .. N /\ n - 1 \in 0 .. N /\ ~(n <= n - 1)
      BY <2>3, <2>4
    <2>6. last[n - 1] \in Seq(Nat)
      BY <2>2, <2>5
    <2>7. last[n] \in Seq(Nat)
      <3>1. Row(n) \in Seq(Nat) /\ last[n] = Row(n) \o last[n - 1]
        BY <1>2, <1>9, <2>5
      <3>2. Row(n) \o last[n - 1] \in Seq(Nat)
        BY <2>6, <3>1
      <3>3. QED
        BY <3>1, <3>2
    <2>8. QED
      BY <2>3, <2>7
  <1>11. last \in [0 .. N -> Seq(Nat)]
    <2>1. DOMAIN last = 0 .. N /\ last = [n \in 0 .. N |-> last[n]]
      <3>1. last = [n \in 0 .. N |-> IF n = 0 THEN <<>> ELSE Row(n) \o last[n - 1]]
        BY <1>7
      <3>2. QED
        BY <3>1
    <2>2. QED
      BY <1>10, <2>1
  <1>12. QED
    BY <1>8, <1>9, <1>11 DEF Row, From

LEMMA FrontTaken ==
  ASSUME NEW x \in Nat, NEW r \in Seq(Nat)
  PROVE  /\ <<x>> \o r \in Seq(Nat) /\ <<x>> \o r # <<>>
         /\ Head(<<x>> \o r) = x /\ Tail(<<x>> \o r) = r
  <1> DEFINE s == <<x>> \o r
  <1>1. <<x>> \in Seq(Nat) /\ Len(<<x>>) = 1 /\ <<x>>[1] = x
    OBVIOUS
  <1>2. /\ s \in Seq(Nat) /\ Len(s) = 1 + Len(r) /\ s[1] = x
        /\ \A i \in 1 .. Len(r) : s[1 + i] = r[i]
    <2>1. PICK f \in Seq(Nat) : f = <<x>> /\ Len(f) = 1 /\ f[1] = x
      BY <1>1
    <2>2. /\ f \o r \in Seq(Nat) /\ Len(f \o r) = Len(f) + Len(r)
          /\ \A j \in 1 .. Len(f) : (f \o r)[j] = f[j]
          /\ \A j \in 1 .. Len(r) : (f \o r)[Len(f) + j] = r[j]
      BY JoinedWords
    <2>3. s = f \o r
      BY <2>1
    <2> HIDE DEF s
    <2>4. QED
      BY <2>1, <2>2, <2>3
  <1> HIDE DEF s
  <1>3. Len(r) \in Nat /\ Len(s) # 0 /\ s # <<>>
    <2>1. Len(r) \in Nat
      OBVIOUS
    <2>2. Len(s) # 0
      BY <1>2, <2>1
    <2>3. \A t : t = <<>> => Len(t) = 0
      OBVIOUS
    <2>4. QED
      BY <2>1, <2>2, <2>3
  <1>4. Head(s) = x
    BY <1>2
  <1>5. Tail(s) \in Seq(Nat) /\ Len(Tail(s)) = Len(s) - 1 /\ \A i \in 1 .. Len(Tail(s)) : Tail(s)[i] = s[i + 1]
    BY <1>2, <1>3, HeadTailProperties
  <1>6. Len(Tail(s)) = Len(r) /\ \A i \in 1 .. Len(Tail(s)) : Tail(s)[i] = r[i]
    <2>1. Len(Tail(s)) = Len(r)
      BY <1>2, <1>3, <1>5
    <2>2. \A i \in 1 .. Len(r) : i + 1 = 1 + i
      OBVIOUS
    <2>3. QED
      BY <1>2, <1>5, <2>1, <2>2
  <1>7. Tail(s) = r
    BY <1>5, <1>6, SeqEqual
  <1>8. QED
    BY <1>2, <1>3, <1>4, <1>7 DEF s

LEMMA NumbersConcat == \A u, v, w \in Seq(Nat) : (u \o v) \o w = u \o (v \o w)
  <1> SUFFICES ASSUME NEW u \in Seq(Nat), NEW v \in Seq(Nat), NEW w \in Seq(Nat)
               PROVE  (u \o v) \o w = u \o (v \o w)
    OBVIOUS
  <1> QED
    BY ConcatAssociative, SMTT(60)

LEMMA PairFront ==
  ASSUME NEW x \in Nat, NEW y \in Nat, NEW r \in Seq(Nat)
  PROVE  <<x, y>> \o r = <<x>> \o (<<y>> \o r)
  <1>1. <<x>> \in Seq(Nat) /\ <<y>> \in Seq(Nat) /\ <<x>> \o <<y>> = <<x, y>>
    <2>1. <<x>> \in Seq(Nat) /\ <<y>> \in Seq(Nat) /\ <<x, y>> \in Seq(Nat)
      OBVIOUS
    <2>2. /\ <<x>> \o <<y>> \in Seq(Nat) /\ Len(<<x>> \o <<y>>) = 2
          /\ (<<x>> \o <<y>>)[1] = x /\ (<<x>> \o <<y>>)[2] = y
      OBVIOUS
    <2>3. Len(<<x, y>>) = 2 /\ <<x, y>>[1] = x /\ <<x, y>>[2] = y
      OBVIOUS
    <2>4. \A i \in 1 .. 2 : (<<x>> \o <<y>>)[i] = <<x, y>>[i]
      BY <2>2, <2>3
    <2>5. QED
      BY <2>1, <2>2, <2>3, <2>4, SeqEqual
  <1>2. (<<x>> \o <<y>>) \o r = <<x>> \o (<<y>> \o r)
    BY <1>1, ConcatAssociative
  <1>3. QED
    BY <1>1, <1>2

LEMMA WordsAreNumbers ==
  ASSUME NEW s \in Sections
  PROVE  s.words \in Seq(Nat) /\ \A j \in 1 .. Len(s.words) : s.words[j] \in Nat
  <1>1. s.words \in Seq(DspWords) /\ \A w \in DspWords : w \in Nat
    <2>1. \A w \in DspWords : w \in Nat
      BY SMT DEF DspWords
    <2>2. QED
      BY <2>1, SectionFacts
  <1>2. s.words \in Seq(Nat)
    BY <1>1
  <1>3. QED
    BY <1>2

\* The stream taken apart: its two heading words, and for each section the
\* address, the length and the words.
LEMMA StreamParts ==
  ASSUME NEW M \in Seq(Sections), NEW n \in 1 .. Len(M)
  PROVE  LET s == M[Len(M) - n + 1]
             L == LastSections(M)
         IN /\ L[n] = <<s.address>> \o Tail(L[n])
            /\ Tail(L[n]) = <<Len(s.words)>> \o (s.words \o L[n - 1])
            /\ {L[n], Tail(L[n]), s.words \o L[n - 1], L[n - 1]} \subseteq Seq(Nat)
  <1> DEFINE s == M[Len(M) - n + 1]
             L == LastSections(M)
  <1>1. s \in Sections
    <2>1. Len(M) - n + 1 \in 1 .. Len(M)
      OBVIOUS
    <2>2. QED
      BY <2>1
  <1>2. n - 1 \in 0 .. Len(M) /\ n \in 0 .. Len(M) /\ L \in [0 .. Len(M) -> Seq(Nat)]
    <2>1. n - 1 \in 0 .. Len(M) /\ n \in 0 .. Len(M)
      OBVIOUS
    <2>2. QED
      BY <2>1, LastSectionsIs
  <1>3. s.address \in Nat /\ Len(s.words) \in Nat /\ s.words \in Seq(Nat) /\ L[n - 1] \in Seq(Nat) /\ L[n] \in Seq(Nat)
    BY <1>1, <1>2, SectionFacts, WordsAreNumbers
  <1>4. L[n] = <<s.address, Len(s.words)>> \o s.words \o L[n - 1]
    BY LastSectionsIs
  <1> HIDE DEF s, L
  <1>5. L[n] = <<s.address, Len(s.words)>> \o (s.words \o L[n - 1])
    <2>1. <<s.address, Len(s.words)>> \in Seq(Nat)
      BY <1>3
    <2>2. PICK u \in Seq(Nat), v \in Seq(Nat), w \in Seq(Nat) :
            u = <<s.address, Len(s.words)>> /\ v = s.words /\ w = L[n - 1]
      BY <1>3, <2>1
    <2>3. (u \o v) \o w = u \o (v \o w)
      BY NumbersConcat
    <2>4. QED
      BY <1>4, <2>2, <2>3
  <1>6. s.words \o L[n - 1] \in Seq(Nat)
    BY <1>3, ConcatProperties
  <1>7. L[n] = <<s.address>> \o (<<Len(s.words)>> \o (s.words \o L[n - 1]))
    BY <1>3, <1>5, <1>6, PairFront
  <1>8. <<Len(s.words)>> \o (s.words \o L[n - 1]) \in Seq(Nat)
    BY <1>3, <1>6, FrontTaken
  <1>9. Tail(L[n]) = <<Len(s.words)>> \o (s.words \o L[n - 1])
    BY <1>3, <1>7, <1>8, FrontTaken
  <1>10. QED
    BY <1>3, <1>6, <1>7, <1>8, <1>9 DEF s, L

LEMMA StreamHead ==
  ASSUME NEW l, l.sections \in Seq(Sections)
  PROVE  LET M == Merge(l.sections)
         IN /\ Stream(l) = <<STAGE2_MAGIC>> \o Tail(Stream(l))
            /\ Tail(Stream(l)) = <<Len(M)>> \o LastSections(M)[Len(M)]
            /\ {Stream(l), Tail(Stream(l)), LastSections(M)[Len(M)]} \subseteq Seq(Nat)
            /\ Stream(l) # <<>>
  <1> DEFINE M == Merge(l.sections)
             r == LastSections(M)[Len(M)]
  <1>1. M \in Seq(Sections)
    BY MergeKeeps
  <1> HIDE DEF M
  <1>2. Len(M) \in Nat /\ r \in Seq(Nat)
    <2>1. Len(M) \in 0 .. Len(M) /\ Len(M) \in Nat
      BY <1>1
    <2>2. QED
      BY <1>1, <2>1, LastSectionsIs
  <1>3. STAGE2_MAGIC \in Nat
    BY SMT DEF STAGE2_MAGIC
  <1>4. Stream(l) = <<STAGE2_MAGIC, Len(M)>> \o r
    BY DEF Stream, M
  <1> HIDE DEF r
  <1>5. Stream(l) = <<STAGE2_MAGIC>> \o (<<Len(M)>> \o r)
    BY <1>2, <1>3, <1>4, PairFront
  <1>6. <<Len(M)>> \o r \in Seq(Nat)
    BY <1>2, FrontTaken
  <1>7. Tail(Stream(l)) = <<Len(M)>> \o r /\ Stream(l) \in Seq(Nat) /\ Stream(l) # <<>>
    BY <1>3, <1>5, <1>6, FrontTaken
  <1>8. QED
    BY <1>2, <1>5, <1>6, <1>7 DEF M, r
-----------------------------------------------------------------------------
(* The program of an accepted stream, and the cells it installs.           *)

LEMMA ProgramFacts ==
  ASSUME lod.sections \in Seq(Sections), Streamable(lod)
  PROVE  /\ Merged \in Seq(Sections) /\ Keeps(lod.sections, Merged)
         /\ Len(Merged) \in Nat \ {0} /\ NoCellTwice(Merged)
         /\ \A i \in 1 .. Len(Merged) :
              /\ Merged[i] \in Sections /\ Len(Merged[i].words) \in Nat \ {0}
              /\ Merged[i].address \in Nat /\ Limit(Merged[i]) = Merged[i].address + Len(Merged[i].words)
              /\ Limit(Merged[i]) <= MemWords /\ ClearOfLoader(Merged[i])
  <1> DEFINE M == Merged
             S == lod.sections
  <1>1. M \in Seq(Sections) /\ Keeps(S, M)
    BY MergeKeeps DEF Merged
  <1>2. /\ Complete(lod) /\ NeighboursApart(M)
        /\ \A s \in ToSet(M) : Limit(s) <= MemWords /\ ClearOfLoader(s)
    BY DEF Streamable, Merged
  <1> HIDE DEF M
  <1>3. S # <<>> /\ Full(S)
    <2>1. S # <<>> /\ \A i \in DOMAIN S : S[i].words # <<>>
      BY <1>2 DEF Complete
    <2>2. ASSUME NEW i \in 1 .. Len(S) PROVE Len(S[i].words) # 0
      <3>1. S[i].words \in Seq(DspWords) /\ i \in DOMAIN S
        BY SectionFacts
      <3>2. S[i].words # <<>>
        BY <2>1, <3>1
      <3>3. QED
        BY <3>1, <3>2
    <2>3. QED
      BY <2>1, <2>2 DEF Full
  <1>4. M # <<>> /\ Full(M)
    BY <1>1, <1>3 DEF Keeps
  <1>5. Len(M) \in Nat \ {0}
    BY <1>1, <1>4
  <1>6. NoCellTwice(M)
    BY <1>1, <1>2, <1>4, NeighboursMeanWords
  <1>7. ASSUME NEW i \in 1 .. Len(M)
        PROVE  /\ M[i] \in Sections /\ Len(M[i].words) \in Nat \ {0}
               /\ M[i].address \in Nat /\ Limit(M[i]) = M[i].address + Len(M[i].words)
               /\ Limit(M[i]) <= MemWords /\ ClearOfLoader(M[i])
    <2>1. M[i] \in Sections /\ Len(M[i].words) # 0
      BY <1>1, <1>4 DEF Full
    <2>2. M[i] \in ToSet(M)
      BY <1>1 DEF ToSet
    <2>3. QED
      BY <1>2, <2>1, <2>2, SectionFacts
  <1>8. QED
    BY <1>1, <1>5, <1>6, <1>7 DEF M

LEMMA AddressFits ==
  ASSUME lod.sections \in Seq(Sections), Streamable(lod), NEW p \in Places(Merged)
  PROVE  Address(Merged, p) \in 0 .. MemWords - 1 /\ Address(Merged, p) \notin LoaderFirst .. LoaderLimit - 1
  <1>1. p[1] \in 1 .. Len(Merged) /\ p[2] \in 1 .. Len(Merged[p[1]].words)
    BY ProgramFacts, PlaceIs
  <1>2. PICK a \in Nat, n \in Nat : a = Merged[p[1]].address /\ n = Len(Merged[p[1]].words)
          /\ Limit(Merged[p[1]]) = a + n /\ a + n <= MemWords /\ ClearOfLoader(Merged[p[1]])
    BY <1>1, ProgramFacts
  <1>3. Address(Merged, p) = a + p[2] - 1 /\ p[2] \in 1 .. n
    BY <1>1, <1>2 DEF Address
  <1>4. a >= LoaderLimit \/ a + n <= LoaderFirst
    BY <1>2 DEF ClearOfLoader
  <1>5. MemWords \in Nat /\ LoaderFirst \in Nat /\ LoaderLimit \in Nat
    BY Constants
  <1>6. PICK k \in 1 .. n : k = p[2]
    BY <1>3
  <1>7. a + k - 1 \in 0 .. MemWords - 1 /\ a + k - 1 \notin LoaderFirst .. LoaderLimit - 1
    <2>1. /\ a \in Nat /\ n \in Nat /\ k \in 1 .. n /\ MemWords \in Nat /\ LoaderFirst \in Nat
          /\ LoaderLimit \in Nat /\ a + n <= MemWords /\ (a >= LoaderLimit \/ a + n <= LoaderFirst)
      BY <1>2, <1>4, <1>5, <1>6
    <2>2. QED
      BY ONLY <2>1
  <1>8. QED
    BY <1>3, <1>6, <1>7

\* A word more is installed.
LEMMA HoldsMore ==
  ASSUME lod.sections \in Seq(Sections), Streamable(lod), UNCHANGED lod, mem \in [0 .. MemWords - 1 -> Nat],
         NEW done \in SUBSET Places(Merged), Holds(done), NEW q \in Places(Merged),
         mem' = [mem EXCEPT ![Address(Merged, q)] = Word(Merged, q)]
  PROVE  Holds(done \cup {q})'
  <1> DEFINE M == Merged
  <1>1. M' = M
    BY DEF Merged
  <1>2. Address(M, q) \in 0 .. MemWords - 1 /\ NoCellTwice(M)
    BY AddressFits, ProgramFacts
  <1>3. \A p \in done : mem[Address(M, p)] = Word(M, p) /\ Address(M, p) \in 0 .. MemWords - 1
    BY AddressFits DEF Holds
  <1>4. \A a \in 0 .. MemWords - 1 : (\A p \in done : Address(M, p) # a) => mem[a] = BootMem(a)
    BY DEF Holds
  <1> HIDE DEF M
  <1>5. /\ mem'[Address(M, q)] = Word(M, q)
        /\ \A a \in 0 .. MemWords - 1 : a # Address(M, q) => mem'[a] = mem[a]
    BY <1>2 DEF M
  <1>6. \A p \in done \cup {q} : mem'[Address(M, p)] = Word(M, p)
    <2>1. ASSUME NEW p \in done PROVE mem'[Address(M, p)] = Word(M, p)
      <3>1. CASE Address(M, p) = Address(M, q)
        <4>1. p = q
          BY <1>2, <3>1 DEF NoCellTwice, M
        <4>2. QED
          BY <1>5, <4>1
      <3>2. CASE Address(M, p) # Address(M, q)
        BY <1>3, <1>5, <3>2
      <3>3. QED
        BY <3>1, <3>2
    <2>2. QED
      BY <1>5, <2>1
  <1>7. \A a \in 0 .. MemWords - 1 : (\A p \in done \cup {q} : Address(M, p) # a) => mem'[a] = BootMem(a)
    BY <1>4, <1>5
  <1>8. BootMem(0)' = BootMem(0) /\ \A a \in 0 .. MemWords - 1 : BootMem(a)' = BootMem(a)
    BY DEF BootMem
  <1>9. QED
    BY <1>1, <1>6, <1>7, <1>8 DEF Holds, M
-----------------------------------------------------------------------------
(* BootInv is inductive: the build.                                        *)

LEMMA BootInitial == ASSUME BootInit PROVE BootInv
  <1>1. BootType
    <2>1. MemWords \in Nat
      BY Constants
    <2>2. lod \in [sections : Seq(Sections), open : BOOLEAN, entry : Int] /\ ~lod.open
      BY DEF BootInit, NoLod
    <2>3. mem \in [0 .. MemWords - 1 -> Nat]
      BY DEF BootInit
    <2>4. stream \in Seq(Nat)
      BY DEF BootInit
    <2>5. QED
      BY <2>2, <2>3, <2>4 DEF BootInit, BootType, Answers
  <1>2. ModeInv
    BY DEF BootInit, ModeInv
  <1>3. QED
    BY <1>1, <1>2 DEF BootInit, BootInv, TransferInv

\* Before the build is done nothing but the file changes.
LEMMA ReadKeeps ==
  ASSUME BootInv, NEW next, next \in [sections : Seq(Sections), open : BOOLEAN, entry : Int],
         next.open => next.sections # <<>>, ReadLine(next)
  PROVE  BootInv'
  <1>1. BootType'
    <2>1. lines' \in Nat /\ lod' = next
      BY DEF BootInv, BootType, ReadLine
    <2>2. UNCHANGED <<at, mode, mem, stream, result, tx, reply, r0, sectionsLeft, wordsLeft>>
      BY DEF ReadLine, hostVars, portVars, loaderVars
    <2>3. Answers' = Answers /\ LoaderPlaces' = LoaderPlaces
      BY DEF Answers, LoaderPlaces
    <2>4. QED
      BY <2>1, <2>2, <2>3 DEF BootInv, BootType
  <1>2. mode = "none" /\ at = "read" /\ at' = at /\ mode' = mode /\ UNCHANGED <<stream, tx, reply>>
    BY DEF BootInv, ModeInv, ReadLine, hostVars, portVars
  <1>3. ModeInv'
    BY <1>2 DEF BootInv, ModeInv
  <1>4. QED
    BY <1>1, <1>2, <1>3 DEF BootInv, TransferInv

LEMMA BuildReads ==
  ASSUME BootInv,
         \/ \E m \in {"P", "X"}, a \in Starts : ReadData(m, a)
         \/ \E e \in {0, 1} : ReadEnd(e)
         \/ ReadWord
  PROVE  BootInv'
  <1>1. /\ lod \in [sections : Seq(Sections), open : BOOLEAN, entry : Int]
        /\ lod.open => lod.sections # <<>>
    BY DEF BootInv, BootType
  <1>2. ASSUME NEW m \in {"P", "X"}, NEW a \in Starts, ReadData(m, a) PROVE BootInv'
    <2> DEFINE s == Section(m, a, <<>>)
               next == DataLine(lod, m, a)
    <2>1. s \in Sections
      <3>1. a \in Nat
        BY BootAssumption
      <3>2. QED
        BY <3>1 DEF Section, Sections
    <2>2. Append(lod.sections, s) \in Seq(Sections) /\ Append(lod.sections, s) # <<>>
      BY <1>1, <2>1
    <2>3. next = [lod EXCEPT !.sections = Append(lod.sections, s), !.open = TRUE]
      BY DEF DataLine
    <2> HIDE DEF s
    <2>4. next \in [sections : Seq(Sections), open : BOOLEAN, entry : Int] /\ next.sections # <<>>
      BY <1>1, <2>2, <2>3
    <2> HIDE DEF next
    <2>5. ReadLine(next)
      BY <1>2 DEF ReadData, next
    <2>6. QED
      BY <2>4, <2>5, ReadKeeps
  <1>3. ASSUME NEW e \in {0, 1}, ReadEnd(e) PROVE BootInv'
    <2> DEFINE next == EndLine(lod, e)
    <2>1. next \in [sections : Seq(Sections), open : BOOLEAN, entry : Int] /\ ~next.open
      <3>1. e \in Int
        BY <1>3
      <3>2. next = [lod EXCEPT !.entry = e, !.open = FALSE]
        BY DEF EndLine
      <3> HIDE DEF next
      <3>3. QED
        BY <1>1, <3>1, <3>2
    <2>2. ReadLine(next)
      BY <1>3 DEF ReadEnd
    <2> HIDE DEF next
    <2>3. QED
      BY <2>1, <2>2, ReadKeeps
  <1>4. ASSUME ReadWord PROVE BootInv'
    <2> DEFINE n == Cardinality(Places(lod.sections)) + 1
               next == WordLine(lod, FileWords[n])
               K == Len(lod.sections)
    <2>1. lod.open /\ n \in DOMAIN FileWords /\ ReadLine(next)
      BY <1>4 DEF ReadWord
    <2>2. FileWords[n] \in DspWords
      <3>1. FileWords \in Seq(DspWords)
        BY BootAssumption
      <3>2. QED
        BY <2>1, <3>1
    <2>3. K \in 1 .. K /\ lod.sections[K] \in Sections /\ lod.sections \in Seq(Sections)
      <3>1. lod.sections \in Seq(Sections) /\ lod.sections # <<>>
        BY <1>1, <2>1
      <3>2. QED
        BY <3>1
    <2> HIDE DEF K, n
    <2> DEFINE ws == Append(lod.sections[K].words, FileWords[n])
               s == [lod.sections[K] EXCEPT !.words = ws]
               sections == [lod.sections EXCEPT ![K] = s]
    <2>4. ws \in Seq(DspWords)
      <3>1. lod.sections[K].words \in Seq(DspWords)
        BY <2>3, SectionFacts
      <3>2. QED
        BY <2>2, <3>1
    <2> HIDE DEF ws
    <2>5. s \in Sections
      BY <2>3, <2>4 DEF Sections
    <2>6. next = [lod EXCEPT !.sections = sections]
      BY DEF WordLine, K, ws
    <2> HIDE DEF s
    <2>7. sections \in Seq(Sections) /\ sections # <<>>
      <3>1. sections \in Seq(Sections) /\ Len(sections) = Len(lod.sections)
        <4>1. K \in 1 .. Len(lod.sections)
          BY <2>3 DEF K
        <4>2. QED
          BY <2>3, <2>5, <4>1, ExceptSeq
      <3>2. Len(sections) # 0 /\ \A t : t = <<>> => Len(t) = 0
        <4>1. Len(lod.sections) # 0
          BY <2>3 DEF K
        <4>2. QED
          BY <3>1, <4>1
      <3>3. QED
        BY <3>1, <3>2
    <2> HIDE DEF sections
    <2>8. next \in [sections : Seq(Sections), open : BOOLEAN, entry : Int] /\ next.sections # <<>>
      BY <1>1, <2>6, <2>7
    <2> HIDE DEF next
    <2>9. QED
      BY <2>1, <2>8, ReadKeeps
  <1>5. QED
    BY <1>2, <1>3, <1>4

LEMMA RejectKeeps ==
  ASSUME BootInv, at = "read", Reject, UNCHANGED <<lod, lines>>, mode' \in {"none", "standalone", "include"},
         mode' = "include" => ~Streamable(lod)
  PROVE  BootInv'
  <1>1. /\ UNCHANGED <<mem, stream, result, tx, reply, r0, sectionsLeft, wordsLeft>>
        /\ at' = "rejected" /\ mode = "none"
    BY DEF Reject, hostVars, portVars, loaderVars, BootInv, ModeInv
  <1>2. Answers' = Answers /\ LoaderPlaces' = LoaderPlaces
    BY DEF Answers, LoaderPlaces
  <1>3. BootType'
    BY <1>1, <1>2 DEF BootInv, BootType
  <1>4. Streamable(lod)' = Streamable(lod)
    BY DEF Streamable
  <1>5. stream = <<>> /\ tx = -1 /\ reply = -1
    BY <1>1 DEF BootInv, ModeInv
  <1>6. ModeInv'
    BY <1>1, <1>4, <1>5 DEF ModeInv
  <1>7. QED
    BY <1>1, <1>3, <1>6 DEF BootInv, TransferInv

LEMMA BuildError == ASSUME BootInv, ReadError PROVE BootInv'
  <1>1. at = "read" /\ Reject /\ UNCHANGED <<lod, lines, mode>> /\ mode = "none"
    BY DEF ReadError, fileVars, BootInv, ModeInv
  <1>2. QED
    BY <1>1, RejectKeeps

LEMMA BuildStandalone == ASSUME BootInv, Standalone PROVE BootInv'
  <1>1. at = "read" /\ mode' = "standalone" /\ UNCHANGED <<lod, lines>> /\ mode = "none"
    BY DEF Standalone, BootInv, ModeInv
  <1>2. CASE ~Bootable(lod, BootLimit)
    BY <1>1, <1>2, RejectKeeps DEF Standalone
  <1>3. CASE Bootable(lod, BootLimit)
    <2>1. /\ at' = "entered" /\ ExecBoot(BootBytes(BootWords(lod)))
          /\ UNCHANGED <<stream, result, tx, reply, r0, sectionsLeft, wordsLeft>>
      BY <1>3 DEF Standalone, hostVars, portVars, loaderVars
    <2> DEFINE S == lod.sections
    <2>2. S \in Seq(Sections)
      BY DEF BootInv, BootType
    <2>3. NoCellTwice(S) /\ 0 \in Addresses(S) /\ Max(Addresses(S)) + 1 <= MemWords
      <3>1. NoCellTwice(S) /\ 0 \in Addresses(S) /\ Max(Addresses(S)) + 1 <= BootLimit
        BY <1>3 DEF Bootable
      <3>2. Max(Addresses(S)) \in Nat
        BY <2>2, <3>1, HighestAddress
      <3>3. BootLimit \in Nat /\ MemWords \in Nat /\ BootLimit <= MemWords
        BY Constants
      <3>4. QED
        BY <3>1, <3>2, <3>3
    <2>4. /\ mem' \in [0 .. MemWords - 1 -> Nat]
          /\ \A p \in Places(S) : mem'[Address(S, p)] = Word(S, p)
          /\ \A a \in (0 .. MemWords - 1) \ Addresses(S) : mem'[a] = 0
      BY <2>1, <2>2, <2>3, ImageInstalls
    <2>5. Answers' = Answers /\ LoaderPlaces' = LoaderPlaces
      BY DEF Answers, LoaderPlaces
    <2>6. BootType'
      BY <1>1, <2>1, <2>4, <2>5 DEF BootInv, BootType
    <2>7. lod'.sections = S
      BY <1>1
    <2>8. EntersProgram'
      <3>1. mode' # "include"
        BY <1>1
      <3>2. \A a \in (0 .. MemWords - 1) \ Addresses(S) : mem'[a] \in {0}
        BY <2>4
      <3> HIDE DEF S
      <3>3. QED
        BY <2>4, <2>7, <3>1, <3>2 DEF EntersProgram
    <2>9. ModeInv'
      <3>1. stream = <<>> /\ tx = -1 /\ reply = -1
        BY <1>1 DEF BootInv, ModeInv
      <3>2. QED
        BY <1>1, <2>1, <2>8, <3>1 DEF ModeInv
    <2>10. QED
      BY <1>1, <2>6, <2>9 DEF BootInv, TransferInv
  <1>4. QED
    BY <1>2, <1>3

LEMMA BuildTwoStages == ASSUME BootInv, TwoStages PROVE BootInv'
  <1>1. at = "read" /\ mode' = "include" /\ UNCHANGED <<lod, lines>> /\ mode = "none"
    BY DEF TwoStages, BootInv, ModeInv
  <1>2. CASE ~Streamable(lod)
    BY <1>1, <1>2, RejectKeeps DEF TwoStages
  <1>3. CASE Streamable(lod)
    <2>1. /\ at' = "magic" /\ ExecBoot(BootBytes(BootWords(Bootstrap))) /\ stream' = Stream(lod)
          /\ UNCHANGED <<result, tx, reply, r0, sectionsLeft, wordsLeft>>
      BY <1>3, BootstrapIs DEF TwoStages, portVars, loaderVars
    <2>2. mem' \in [0 .. MemWords - 1 -> Nat] /\ \A a \in 0 .. MemWords - 1 : mem'[a] = BootMem(a)
      BY <2>1, BootstrapInstalls
    <2>3. Stream(lod) \in Seq(Nat) /\ Stream(lod) # <<>>
      BY StreamHead DEF BootInv, BootType
    <2>4. Answers' = Answers /\ LoaderPlaces' = LoaderPlaces
      BY DEF Answers, LoaderPlaces
    <2>5. BootType'
      <3>1. at' \in LoaderPlaces
        BY <2>1 DEF LoaderPlaces
      <3>2. QED
        BY <1>1, <2>1, <2>2, <2>3, <2>4, <3>1 DEF BootInv, BootType
    <2>6. Streamable(lod)' = Streamable(lod) /\ Stream(lod)' = Stream(lod)
      BY <1>1
    <2>7. ModeInv'
      BY <1>1, <1>3, <2>1, <2>6 DEF ModeInv, LoaderPlaces
    <2>8. Pending' = Stream(lod)
      <3>1. tx' = -1
        BY <1>1, <2>1 DEF BootInv, ModeInv
      <3>2. Pending' = <<>> \o Stream(lod)
        BY <2>1, <3>1 DEF Pending
      <3>3. QED
        BY <2>3, <3>2
    <2>9. PendingInv'
      BY <2>1, <2>6, <2>8 DEF PendingInv
    <2>10. MemInv'
      <3>1. Installed' = {}
        BY <2>1, <2>3, <2>8 DEF Installed, Untransferred
      <3>2. BootMem(0)' = BootMem(0) /\ \A a \in 0 .. MemWords - 1 : BootMem(a)' = BootMem(a)
        BY DEF BootMem
      <3>3. QED
        BY <2>1, <2>2, <2>3, <2>8, <3>1, <3>2 DEF MemInv, Holds
    <2>11. QED
      BY <2>5, <2>7, <2>9, <2>10 DEF BootInv, TransferInv
  <1>4. QED
    BY <1>2, <1>3
-----------------------------------------------------------------------------
(* The host.                                                               *)

\* A step of the transfer that keeps the file and what it has installed.
LEMMA TransferKeeps ==
  ASSUME BootInv, mode = "include", at # "rejected", UNCHANGED fileVars, BootType',
         at' \in LoaderPlaces \cup {"entered"}, PendingInv', MemInv'
  PROVE  BootInv'
  <1>1. UNCHANGED <<lod, mode, lines>> /\ Streamable(lod)
    BY DEF fileVars, BootInv, ModeInv
  <1>2. Streamable(lod)' = Streamable(lod)
    BY <1>1
  <1>3. at' # "read" /\ at' # "rejected"
    BY DEF LoaderPlaces
  <1>4. ModeInv'
    BY <1>1, <1>2, <1>3 DEF ModeInv, LoaderPlaces
  <1>5. QED
    BY <1>4 DEF BootInv, TransferInv

LEMMA SamePending ==
  ASSUME Pending' = Pending, UNCHANGED <<at, lod, mem, r0, sectionsLeft, wordsLeft>>, PendingInv, MemInv
  PROVE  PendingInv' /\ MemInv'
  <1>1. Merged' = Merged /\ Stream(lod)' = Stream(lod)
    BY DEF Merged
  <1>2. Current' = Current /\ Loaded' = Loaded /\ Within' = Within
    BY <1>1 DEF Current, Loaded, Within
  <1>3. Installed' = Installed
    BY <1>1, <1>2 DEF Installed, Untransferred
  <1>4. BootMem(0)' = BootMem(0) /\ \A a \in 0 .. MemWords - 1 : BootMem(a)' = BootMem(a)
    BY DEF BootMem
  <1>5. Holds(Installed)'
    BY <1>1, <1>3, <1>4 DEF MemInv, Holds
  <1>6. PendingInv'
    BY <1>1, <1>2 DEF PendingInv
  <1>7. MemInv'
    BY <1>5 DEF MemInv
  <1>8. QED
    BY <1>6, <1>7

LEMMA HostPosts == ASSUME BootInv, Post PROVE BootInv'
  <1>1. /\ stream # <<>> /\ tx' = Head(stream) /\ stream' = Tail(stream) /\ (tx = -1 \/ at = "halt")
        /\ UNCHANGED <<at, lod, lines, mode, mem, result, reply, r0, sectionsLeft, wordsLeft>>
    BY DEF Post, fileVars, loaderVars
  <1>2. stream \in Seq(Nat)
    BY DEF BootInv, BootType
  <1>3. Head(stream) \in Nat /\ Tail(stream) \in Seq(Nat) /\ stream = <<Head(stream)>> \o Tail(stream)
    <2>1. Head(stream) \in Nat /\ Tail(stream) \in Seq(Nat)
      BY <1>1, <1>2, HeadTailProperties
    <2>2. 1 \in 1 .. Len(stream) /\ Len(stream) \in 1 .. Len(stream)
      BY <1>1, <1>2
    <2>3. SubSeq(stream, 1, Len(stream)) = <<stream[1]>> \o SubSeq(stream, 2, Len(stream))
      <3>1. SubSeq(stream, 1, Len(stream)) = <<stream[1]>> \o SubSeq(stream, 1 + 1, Len(stream))
        BY <1>2, <2>2, SubSeqRecursiveFirst
      <3>2. QED
        BY <3>1
    <2>4. Head(stream) = stream[1]
      BY <1>1, <1>2
    <2>5. QED
      BY <1>1, <1>2, <2>1, <2>3, <2>4, SubSeqFull, TailIsSubSeq
  <1>4. BootType'
    <2>1. Answers' = Answers /\ LoaderPlaces' = LoaderPlaces
      BY DEF Answers, LoaderPlaces
    <2>2. QED
      BY <1>1, <1>3, <2>1 DEF BootInv, BootType
  <1>5. mode = "include"
    BY <1>1 DEF BootInv, ModeInv
  <1>6. CASE at = "rejected"
    <2>1. Streamable(lod)' = Streamable(lod)
      BY <1>1
    <2>2. ModeInv'
      BY <1>1, <1>5, <1>6, <2>1 DEF BootInv, ModeInv
    <2>3. QED
      BY <1>1, <1>4, <1>6, <2>2 DEF BootInv, TransferInv
  <1>7. CASE at # "rejected"
    <2>1. at \in LoaderPlaces \cup {"entered"} /\ at # "halt"
      BY <1>5, <1>7 DEF BootInv, ModeInv, LoaderPlaces
    <2>2. tx = -1 /\ tx' # -1
      BY <1>1, <1>3, <2>1
    <2>3. Pending = stream /\ Pending' = stream
      <3>1. Pending = <<>> \o stream /\ Pending' = <<Head(stream)>> \o Tail(stream)
        BY <1>1, <2>2 DEF Pending
      <3>2. QED
        BY <1>2, <1>3, <3>1
    <2>4. PendingInv /\ MemInv
      BY <1>5, <1>7 DEF BootInv, TransferInv
    <2>5. PendingInv' /\ MemInv'
      BY <1>1, <2>3, <2>4, SamePending
    <2>6. at' \in LoaderPlaces \cup {"entered"} /\ UNCHANGED fileVars
      BY <1>1, <2>1 DEF fileVars
    <2>7. QED
      BY <1>4, <1>5, <1>7, <2>5, <2>6, TransferKeeps
  <1>8. QED
    BY <1>6, <1>7

LEMMA HostReads == ASSUME BootInv, GetReply PROVE BootInv'
  <1>1. /\ reply # -1 /\ reply' = -1 /\ result' = reply
        /\ UNCHANGED <<at, lod, lines, mode, mem, stream, tx, r0, sectionsLeft, wordsLeft>>
    BY DEF GetReply, fileVars, loaderVars
  <1>2. BootType'
    <2>1. Answers' = Answers /\ LoaderPlaces' = LoaderPlaces /\ -1 \in Answers
      BY DEF Answers, LoaderPlaces
    <2>2. QED
      BY <1>1, <2>1 DEF BootInv, BootType
  <1>3. mode = "include"
    BY <1>1 DEF BootInv, ModeInv
  <1>4. CASE at = "rejected"
    <2>1. Streamable(lod)' = Streamable(lod)
      BY <1>1
    <2>2. ModeInv'
      BY <1>1, <1>3, <1>4, <2>1 DEF BootInv, ModeInv
    <2>3. QED
      BY <1>1, <1>2, <1>4, <2>2 DEF BootInv, TransferInv
  <1>5. CASE at # "rejected"
    <2>1. at \in LoaderPlaces \cup {"entered"}
      BY <1>3, <1>5 DEF BootInv, ModeInv
    <2>2. Pending' = Pending
      BY <1>1 DEF Pending
    <2>3. PendingInv' /\ MemInv'
      <3>1. PendingInv /\ MemInv
        BY <1>3, <1>5 DEF BootInv, TransferInv
      <3>2. QED
        BY <1>1, <2>2, <3>1, SamePending
    <2>4. at' \in LoaderPlaces \cup {"entered"} /\ UNCHANGED fileVars
      BY <1>1, <2>1 DEF fileVars
    <2>5. QED
      BY <1>2, <1>3, <1>5, <2>3, <2>4, TransferKeeps
  <1>6. QED
    BY <1>4, <1>5
-----------------------------------------------------------------------------
(* The loader.                                                             *)

LEMMA LoaderRuns ==
  ASSUME BootInv, Loader
  PROVE  /\ mode = "include" /\ at \in LoaderPlaces /\ at # "rejected" /\ Streamable(lod)
         /\ lod.sections \in Seq(Sections) /\ Merged \in Seq(Sections)
         /\ PendingInv /\ MemInv /\ UNCHANGED fileVars
  <1>1. at \in {"magic", "count", "address", "length", "word", "reply", "error"} /\ UNCHANGED fileVars
    BY DEF Loader, LoadMagic, LoadCount, LoadAddress, LoadLength, LoadWord, LoaderReply, Take, Untouched
  <1>2. mode = "include" /\ at # "rejected"
    BY <1>1 DEF BootInv, ModeInv
  <1>3. Streamable(lod) /\ at \in LoaderPlaces
    BY <1>1, <1>2 DEF BootInv, ModeInv
  <1>4. PendingInv /\ MemInv
    BY <1>2 DEF BootInv, TransferInv
  <1>5. lod.sections \in Seq(Sections)
    BY DEF BootInv, BootType
  <1>6. QED
    BY <1>1, <1>2, <1>3, <1>4, <1>5, ProgramFacts

LEMMA WordTaken ==
  ASSUME BootInv, NEW l, Take(l), UNCHANGED stream
  PROVE  /\ at = l /\ tx \in Nat /\ Pending # <<>> /\ Head(Pending) = tx
         /\ Tail(Pending) = stream /\ Pending' = stream
  <1>1. at = l /\ tx # -1 /\ tx' = -1
    BY DEF Take
  <1>2. tx \in Nat /\ stream \in Seq(Nat)
    BY <1>1 DEF BootInv, BootType
  <1>3. Pending = <<tx>> \o stream
    BY <1>1 DEF Pending
  <1>4. Pending' = stream
    BY <1>1, <1>2 DEF Pending
  <1>5. QED
    BY <1>1, <1>2, <1>3, <1>4, FrontTaken

LEMMA LoaderTyped ==
  ASSUME BootInv, UNCHANGED <<fileVars, hostVars, reply>>, tx' = -1,
         at' \in LoaderPlaces \cup {"entered"}, mem' \in [0 .. MemWords - 1 -> Nat],
         {r0', sectionsLeft', wordsLeft'} \subseteq Nat
  PROVE  BootType'
  <1>1. UNCHANGED <<lod, lines, mode, stream, result, reply>>
    BY DEF fileVars, hostVars
  <1>2. Answers' = Answers /\ LoaderPlaces' = LoaderPlaces
    BY DEF Answers, LoaderPlaces
  <1>3. QED
    BY <1>1, <1>2 DEF BootInv, BootType

LEMMA SameHolds ==
  ASSUME UNCHANGED <<lod, mem>>, NEW done, Holds(done)
  PROVE  Holds(done)'
  <1>1. Merged' = Merged
    BY DEF Merged
  <1>2. BootMem(0)' = BootMem(0) /\ \A a \in 0 .. MemWords - 1 : BootMem(a)' = BootMem(a)
    BY DEF BootMem
  <1>3. QED
    BY <1>1, <1>2 DEF Holds

LEMMA RunMagic == ASSUME BootInv, LoadMagic PROVE BootInv'
  <1>0. /\ mode = "include" /\ at # "rejected" /\ Streamable(lod) /\ lod.sections \in Seq(Sections)
        /\ PendingInv /\ MemInv /\ UNCHANGED fileVars
    BY LoaderRuns DEF Loader
  <1>1. /\ Take("magic") /\ at' = (IF tx = STAGE2_MAGIC THEN "count" ELSE "error")
        /\ UNCHANGED <<mem, lod, stream, result, reply, r0, sectionsLeft, wordsLeft>>
    BY DEF LoadMagic, loaderVars, Untouched, fileVars, hostVars
  <1>2. /\ at = "magic" /\ Pending # <<>> /\ Head(Pending) = tx
        /\ Tail(Pending) = stream /\ Pending' = stream /\ tx' = -1
    BY <1>1, WordTaken DEF Take
  <1>3. Pending = Stream(lod)
    BY <1>0, <1>2 DEF PendingInv
  <1>4. tx = STAGE2_MAGIC
    <2>1. Stream(lod) = <<STAGE2_MAGIC>> \o Tail(Stream(lod)) /\ Tail(Stream(lod)) \in Seq(Nat)
      BY <1>0, StreamHead
    <2>2. STAGE2_MAGIC \in Nat
      BY SMT DEF STAGE2_MAGIC
    <2>3. QED
      BY <1>2, <1>3, <2>1, <2>2, FrontTaken
  <1>5. at' = "count" /\ Pending' = Tail(Stream(lod)) /\ Stream(lod)' = Stream(lod)
    BY <1>1, <1>2, <1>3, <1>4
  <1>6. PendingInv'
    BY <1>5 DEF PendingInv
  <1>7. MemInv'
    <2>1. Installed = {} /\ Installed' = {}
      BY <1>2, <1>5 DEF Installed, Untransferred
    <2>2. Holds({})
      BY <1>0, <2>1 DEF MemInv
    <2>3. Holds({})'
      BY <1>1, <2>2, SameHolds
    <2>4. Holds(Installed)'
      BY <2>1, <2>3 DEF Holds
    <2>5. QED
      BY <1>5, <2>4 DEF MemInv
  <1>8. BootType'
    <2>1. /\ mem' \in [0 .. MemWords - 1 -> Nat] /\ {r0', sectionsLeft', wordsLeft'} \subseteq Nat
          /\ UNCHANGED <<fileVars, hostVars, reply>> /\ at' \in LoaderPlaces \cup {"entered"}
      BY <1>0, <1>1, <1>5 DEF BootInv, BootType, hostVars, LoaderPlaces
    <2>2. QED
      BY <1>2, <2>1, LoaderTyped
  <1>9. at' \in LoaderPlaces \cup {"entered"}
    BY <1>5 DEF LoaderPlaces
  <1>10. QED
    BY <1>0, <1>6, <1>7, <1>8, <1>9, TransferKeeps

LEMMA RunCount == ASSUME BootInv, LoadCount PROVE BootInv'
  <1> DEFINE K == Len(Merged)
  <1>0. /\ mode = "include" /\ at # "rejected" /\ Streamable(lod) /\ lod.sections \in Seq(Sections)
        /\ PendingInv /\ MemInv /\ UNCHANGED fileVars
    BY LoaderRuns DEF Loader
  <1>1. /\ Take("count") /\ at' = (IF tx = 0 THEN "error" ELSE "address") /\ sectionsLeft' = tx
        /\ UNCHANGED <<mem, lod, stream, result, reply, r0, wordsLeft>>
    BY DEF LoadCount, Untouched, fileVars, hostVars
  <1>2. /\ at = "count" /\ Head(Pending) = tx /\ Tail(Pending) = stream /\ Pending' = stream /\ tx' = -1
    BY <1>1, WordTaken DEF Take
  <1>3. K \in Nat \ {0} /\ Merged \in Seq(Sections) /\ Merged' = Merged
    BY <1>0, <1>1, ProgramFacts DEF Merged
  <1> DEFINE L == LastSections(Merged)
  <1>4. Pending = <<K>> \o L[K] /\ L[K] \in Seq(Nat)
    <2>1. Pending = Tail(Stream(lod))
      BY <1>0, <1>2 DEF PendingInv
    <2>2. QED
      BY <1>0, <2>1, StreamHead DEF Merged
  <1> HIDE DEF K, L
  <1>5. tx = K /\ Pending' = L[K]
    BY <1>2, <1>3, <1>4, FrontTaken
  <1>6. at' = "address" /\ sectionsLeft' = K /\ L' = L /\ K' = K
    BY <1>1, <1>3, <1>5 DEF K, L
  <1>7. PendingInv'
    <2>1. Within'
      BY <1>3, <1>6 DEF Within, K
    <2>2. Pending' = LastSections(Merged)[sectionsLeft]'
      BY <1>5, <1>6 DEF L
    <2>3. QED
      BY <1>6, <2>1, <2>2 DEF PendingInv
  <1>8. MemInv'
    <2>1. Installed = {}
      BY <1>2 DEF Installed, Untransferred
    <2>2. Holds({})'
      <3>1. Holds({})
        BY <1>0, <2>1 DEF MemInv
      <3>2. QED
        BY <1>1, <3>1, SameHolds
    <2>3. Current' = 1
      BY <1>3, <1>6 DEF Current, K
    <2>4. Installed' = {}
      <3>1. \A p \in Places(Merged) : ~(p[1] < 1)
        BY <1>3, PlaceIs
      <3>2. QED
        BY <1>3, <1>6, <2>3, <3>1 DEF Installed, Untransferred
    <2>5. Holds(Installed)'
      BY <2>2, <2>4 DEF Holds
    <2>6. QED
      BY <1>6, <2>5 DEF MemInv
  <1>9. at' \in LoaderPlaces \cup {"entered"}
    BY <1>6 DEF LoaderPlaces
  <1>10. BootType'
    <2>1. /\ mem' \in [0 .. MemWords - 1 -> Nat] /\ {r0', sectionsLeft', wordsLeft'} \subseteq Nat
          /\ UNCHANGED <<fileVars, hostVars, reply>>
      BY <1>0, <1>1, <1>3, <1>6 DEF BootInv, BootType, hostVars
    <2>2. QED
      BY <1>2, <1>9, <2>1, LoaderTyped
  <1>11. QED
    BY <1>0, <1>7, <1>8, <1>9, <1>10, TransferKeeps

\* The section that is being loaded, and what is installed besides it.
LEMMA AtSection ==
  ASSUME lod.sections \in Seq(Sections), Streamable(lod), Within
  PROVE  /\ Current \in 1 .. Len(Merged) /\ Current = Len(Merged) - sectionsLeft + 1
         /\ Merged \in Seq(Sections) /\ Merged[Current] \in Sections
         /\ Merged[Current].address \in Nat /\ Len(Merged[Current].words) \in Nat \ {0}
         /\ Merged[Current].words \in Seq(Nat)
         /\ sectionsLeft \in Nat \ {0} /\ Len(Merged) \in Nat
  <1>1. Len(Merged) \in Nat /\ sectionsLeft \in 1 .. Len(Merged)
    BY ProgramFacts DEF Within
  <1>2. Current \in 1 .. Len(Merged)
    BY <1>1 DEF Current
  <1>3. /\ Merged[Current] \in Sections /\ Merged[Current].address \in Nat
        /\ Len(Merged[Current].words) \in Nat \ {0}
    BY <1>2, ProgramFacts
  <1>4. QED
    BY <1>1, <1>2, <1>3, ProgramFacts, WordsAreNumbers DEF Current

LEMMA RunAddress == ASSUME BootInv, LoadAddress PROVE BootInv'
  <1>0. /\ mode = "include" /\ at # "rejected" /\ Streamable(lod) /\ lod.sections \in Seq(Sections)
        /\ PendingInv /\ MemInv /\ UNCHANGED fileVars
    BY LoaderRuns DEF Loader
  <1>1. /\ Take("address") /\ at' = "length" /\ r0' = tx
        /\ UNCHANGED <<mem, lod, stream, result, reply, sectionsLeft, wordsLeft>>
    BY DEF LoadAddress, Untouched, fileVars, hostVars
  <1>2. /\ at = "address" /\ Head(Pending) = tx /\ Tail(Pending) = stream /\ Pending' = stream /\ tx' = -1
    BY <1>1, WordTaken DEF Take
  <1>3. Within /\ Pending = LastSections(Merged)[sectionsLeft]
    BY <1>0, <1>2 DEF PendingInv
  <1>4. Merged[Current].address \in Nat /\ Current = Len(Merged) - sectionsLeft + 1 /\ Merged \in Seq(Sections)
    BY <1>0, <1>3, AtSection
  <1>5. /\ Pending = <<Merged[Current].address>> \o Tail(Pending)
        /\ Tail(Pending) \in Seq(Nat)
    BY <1>3, <1>4, StreamParts DEF Within
  <1>6. tx = Merged[Current].address
    BY <1>2, <1>4, <1>5, FrontTaken
  <1>7. /\ Merged' = Merged /\ Current' = Current /\ Within' = Within
        /\ LastSections(Merged)' = LastSections(Merged)
    BY <1>1 DEF Merged, Current, Within
  <1>8. PendingInv'
    BY <1>1, <1>2, <1>3, <1>6, <1>7 DEF PendingInv
  <1>9. MemInv'
    <2>1. Installed' = Installed
      BY <1>1, <1>2, <1>7 DEF Installed, Untransferred
    <2>2. PICK done : done = Installed
      OBVIOUS
    <2>3. Holds(done)'
      BY <1>0, <1>1, <2>2, SameHolds DEF MemInv
    <2>4. Holds(Installed)'
      BY <2>1, <2>2, <2>3 DEF Holds
    <2>5. QED
      BY <1>1, <2>4 DEF MemInv
  <1>10. at' \in LoaderPlaces \cup {"entered"}
    BY <1>1 DEF LoaderPlaces
  <1>11. BootType'
    <2>1. /\ mem' \in [0 .. MemWords - 1 -> Nat] /\ {r0', sectionsLeft', wordsLeft'} \subseteq Nat
          /\ UNCHANGED <<fileVars, hostVars, reply>>
      BY <1>0, <1>1, <1>4, <1>6 DEF BootInv, BootType, hostVars
    <2>2. QED
      BY <1>2, <1>10, <2>1, LoaderTyped
  <1>12. QED
    BY <1>0, <1>8, <1>9, <1>10, <1>11, TransferKeeps

LEMMA RunLength == ASSUME BootInv, LoadLength PROVE BootInv'
  <1> DEFINE words == Merged[Current].words
             rest == LastSections(Merged)[sectionsLeft - 1]
  <1>0. /\ mode = "include" /\ at # "rejected" /\ Streamable(lod) /\ lod.sections \in Seq(Sections)
        /\ PendingInv /\ MemInv /\ UNCHANGED fileVars
    BY LoaderRuns DEF Loader
  <1>1. /\ Take("length") /\ at' = (IF tx = 0 THEN "error" ELSE "word") /\ wordsLeft' = tx
        /\ UNCHANGED <<mem, lod, stream, result, reply, r0, sectionsLeft>>
    BY DEF LoadLength, Untouched, fileVars, hostVars
  <1>2. /\ at = "length" /\ Head(Pending) = tx /\ Tail(Pending) = stream /\ Pending' = stream /\ tx' = -1
    BY <1>1, WordTaken DEF Take
  <1>3. Within /\ Pending = Tail(LastSections(Merged)[sectionsLeft]) /\ r0 = Merged[Current].address
    BY <1>0, <1>2 DEF PendingInv
  <1>4. /\ Merged[Current].address \in Nat /\ Current = Len(Merged) - sectionsLeft + 1
        /\ Merged \in Seq(Sections) /\ Len(words) \in Nat \ {0} /\ words \in Seq(Nat)
    BY <1>0, <1>3, AtSection
  <1>5. Pending = <<Len(words)>> \o (words \o rest) /\ words \o rest \in Seq(Nat)
    BY <1>3, <1>4, StreamParts DEF Within
  <1>6. tx = Len(words) /\ Pending' = words \o rest
    BY <1>2, <1>4, <1>5, FrontTaken
  <1>7. at' = "word" /\ wordsLeft' = Len(words)
    BY <1>1, <1>4, <1>6
  <1>8. /\ Merged' = Merged /\ Current' = Current /\ Within' = Within /\ words' = words /\ rest' = rest
        /\ LastSections(Merged)' = LastSections(Merged)
    BY <1>1 DEF Merged, Current, Within
  <1>9. Loaded' = 0
    BY <1>4, <1>7, <1>8 DEF Loaded
  <1>10. PendingInv'
    <2>1. SubSeq(words, 0 + 1, Len(words)) = words
      BY <1>4, SubSeqFull
    <2>2. Pending' = SubSeq(words, 0 + 1, Len(words)) \o rest
      BY <1>6, <2>1
    <2>3. wordsLeft' \in 1 .. Len(words) /\ r0' = Merged[Current].address + 0
      BY <1>1, <1>3, <1>4, <1>7
    <2>4. QED
      BY <1>3, <1>7, <1>8, <1>9, <2>2, <2>3 DEF PendingInv
  <1>11. MemInv'
    <2>1. \A p \in Places(Merged) : ~(p[2] <= 0)
      BY <1>4, PlaceIs
    <2>2. Installed' = Installed
      BY <1>2, <1>7, <1>8, <1>9, <2>1 DEF Installed, Untransferred
    <2>3. PICK done : done = Installed
      OBVIOUS
    <2>4. Holds(done)'
      BY <1>0, <1>1, <2>3, SameHolds DEF MemInv
    <2>5. Holds(Installed)'
      BY <2>2, <2>3, <2>4 DEF Holds
    <2>6. QED
      BY <1>7, <2>5 DEF MemInv
  <1>12. at' \in LoaderPlaces \cup {"entered"}
    BY <1>7 DEF LoaderPlaces
  <1>13. BootType'
    <2>1. /\ mem' \in [0 .. MemWords - 1 -> Nat] /\ {r0', sectionsLeft', wordsLeft'} \subseteq Nat
          /\ UNCHANGED <<fileVars, hostVars, reply>>
      BY <1>0, <1>1, <1>4, <1>7 DEF BootInv, BootType, hostVars
    <2>2. QED
      BY <1>2, <1>12, <2>1, LoaderTyped
  <1>14. QED
    BY <1>0, <1>10, <1>11, <1>12, <1>13, TransferKeeps

LEMMA RunWord == ASSUME BootInv, LoadWord PROVE BootInv'
  <1> DEFINE words == Merged[Current].words
             rest == LastSections(Merged)[sectionsLeft - 1]
             q == <<Current, Loaded + 1>>
  <1>0. /\ mode = "include" /\ at # "rejected" /\ Streamable(lod) /\ lod.sections \in Seq(Sections)
        /\ PendingInv /\ MemInv /\ UNCHANGED fileVars
    BY LoaderRuns DEF Loader
  <1>1. /\ Take("word") /\ mem' = [mem EXCEPT ![r0] = tx] /\ r0' = (r0 + 1) % MemWords
        /\ wordsLeft' = wordsLeft - 1
        /\ sectionsLeft' = (IF wordsLeft = 1 THEN sectionsLeft - 1 ELSE sectionsLeft)
        /\ at' = (IF wordsLeft > 1 THEN "word" ELSE IF sectionsLeft > 1 THEN "address" ELSE "reply")
        /\ UNCHANGED <<lod, stream, result, reply>>
    BY DEF LoadWord, Untouched, fileVars, hostVars
  <1>2. /\ at = "word" /\ Head(Pending) = tx /\ Tail(Pending) = stream /\ Pending' = stream /\ tx' = -1
    BY <1>1, WordTaken DEF Take
  <1>3. /\ Within /\ wordsLeft \in 1 .. Len(words)
        /\ Pending = SubSeq(words, Loaded + 1, Len(words)) \o rest
        /\ r0 = Merged[Current].address + Loaded
    BY <1>0, <1>2 DEF PendingInv
  <1>4. /\ Current \in 1 .. Len(Merged) /\ Current = Len(Merged) - sectionsLeft + 1
        /\ Merged \in Seq(Sections) /\ Merged[Current].address \in Nat
        /\ Len(words) \in Nat \ {0} /\ words \in Seq(Nat) /\ sectionsLeft \in Nat \ {0} /\ Len(Merged) \in Nat
    BY <1>0, <1>3, AtSection
  <1>5. Loaded \in Nat /\ Loaded + 1 \in 1 .. Len(words) /\ wordsLeft = Len(words) - Loaded /\ wordsLeft \in Nat
    BY <1>3, <1>4 DEF Loaded
  <1>6. rest \in Seq(Nat)
    BY <1>3, <1>4, StreamParts DEF Within
  <1>7. tx = words[Loaded + 1] /\ Pending' = SubSeq(words, Loaded + 2, Len(words)) \o rest
    <2> DEFINE after == SubSeq(words, Loaded + 2, Len(words))
    <2>1. SubSeq(words, Loaded + 1, Len(words)) = <<words[Loaded + 1]>> \o after
      <3>1. Len(words) \in Loaded + 1 .. Len(words) /\ (Loaded + 1) + 1 = Loaded + 2
        BY <1>4, <1>5
      <3>2. SubSeq(words, Loaded + 1, Len(words))
              = <<words[Loaded + 1]>> \o SubSeq(words, (Loaded + 1) + 1, Len(words))
        BY <1>4, <1>5, <3>1, SubSeqRecursiveFirst
      <3>3. QED
        BY <3>1, <3>2
    <2>2. words[Loaded + 1] \in Nat /\ after \in Seq(Nat)
      <3>1. words[Loaded + 1] \in Nat
        BY <1>4, <1>5, ElementOfSeq
      <3>2. \A i \in Loaded + 2 .. Len(words) : words[i] \in Nat
        BY <1>4, <1>5, ElementOfSeq
      <3>3. Loaded + 2 \in Int /\ Len(words) \in Int
        BY <1>4, <1>5
      <3>4. QED
        BY <3>1, <3>2, <3>3, SubSeqProperties
    <2> HIDE DEF after, words, rest
    <2>3. PICK u \in Seq(Nat), v \in Seq(Nat), w \in Seq(Nat) :
            u = <<words[Loaded + 1]>> /\ v = after /\ w = rest
      <3>1. \A x \in Nat : <<x>> \in Seq(Nat)
        OBVIOUS
      <3>2. QED
        BY <1>6, <2>2, <3>1
    <2>4. (u \o v) \o w = u \o (v \o w) /\ v \o w \in Seq(Nat)
      <3>1. (u \o v) \o w = u \o (v \o w)
        BY NumbersConcat
      <3>2. v \o w \in Seq(Nat)
        BY ConcatProperties
      <3>3. QED
        BY <3>1, <3>2
    <2>5. Pending = <<words[Loaded + 1]>> \o (after \o rest) /\ after \o rest \in Seq(Nat)
      BY <1>3, <2>1, <2>3, <2>4
    <2>6. QED
      BY <1>2, <2>2, <2>5, FrontTaken DEF after
  <1>8. Merged' = Merged /\ LastSections(Merged)' = LastSections(Merged)
    BY <1>1 DEF Merged
  <1>9. MemWords \in Nat \ {0} /\ r0 \in Nat /\ r0 + 1 <= Merged[Current].address + Len(words)
          /\ Merged[Current].address + Len(words) <= MemWords
    <2>1. MemWords \in Nat \ {0}
      <3>1. MemWords \in Nat /\ LoaderLimit \in Nat /\ LoaderFirst \in Nat /\ LoaderFirst < LoaderLimit
              /\ BootLimit \in Nat /\ LoaderLimit <= BootLimit /\ BootLimit <= MemWords
        BY Constants
      <3>2. QED
        BY <3>1
    <2>2. Merged[Current].address + Len(words) <= MemWords
      BY <1>0, <1>4, ProgramFacts
    <2>3. \A a, l, n \in Nat : l + 1 \in 1 .. n => a + l \in Nat /\ (a + l) + 1 <= a + n
      OBVIOUS
    <2>4. Merged[Current].address \in Nat /\ Loaded \in Nat /\ Len(words) \in Nat /\ Loaded + 1 \in 1 .. Len(words)
      BY <1>4, <1>5
    <2>5. QED
      BY <1>3, <2>1, <2>2, <2>3, <2>4
  <1>10. /\ q \in Places(Merged) /\ Address(Merged, q) = r0 /\ Word(Merged, q) = tx
    <2>1. q \in Places(Merged)
      BY <1>4, <1>5, PlaceIs
    <2>2. Address(Merged, q) = Merged[Current].address + (Loaded + 1) - 1
      BY DEF Address
    <2>3. Merged[Current].address + (Loaded + 1) - 1 = Merged[Current].address + Loaded
      BY <1>4, <1>5
    <2>4. Word(Merged, q) = words[Loaded + 1]
      BY DEF Word
    <2>5. QED
      BY <1>3, <1>7, <2>1, <2>2, <2>3, <2>4
  <1>11. Installed = {p \in Places(Merged) : p[1] < Current \/ (p[1] = Current /\ p[2] <= Loaded)}
    BY <1>2 DEF Installed, Untransferred
  <1>12. PICK done \in SUBSET Places(Merged) : done = Installed
    BY <1>11
  <1>13. PICK d \in Places(Merged) : d = q
    BY <1>10
  <1>14. Holds(done \cup {d})'
    <2>1. mem' = [mem EXCEPT ![Address(Merged, d)] = Word(Merged, d)]
      BY <1>1, <1>10, <1>13
    <2>2. mem \in [0 .. MemWords - 1 -> Nat] /\ Holds(done) /\ UNCHANGED lod
      BY <1>0, <1>1, <1>12 DEF BootInv, BootType, MemInv
    <2>3. QED
      BY <1>0, <2>1, <2>2, HoldsMore
  <1>15. done \cup {d} = {p \in Places(Merged) : p[1] < Current \/ (p[1] = Current /\ p[2] <= Loaded + 1)}
    <2>1. d[1] = Current /\ d[2] = Loaded + 1
      BY <1>13
    <2>2. ASSUME NEW p \in Places(Merged)
          PROVE  p \in done \cup {d} <=> p[1] < Current \/ (p[1] = Current /\ p[2] <= Loaded + 1)
      <3>1. p = <<p[1], p[2]>> /\ p[1] \in 1 .. Len(Merged) /\ p[2] \in 1 .. Len(Merged[p[1]].words)
        BY <1>4, PlaceIs
      <3>2. p[2] \in Nat
        <4>1. Len(Merged[p[1]].words) \in Nat
          BY <1>0, <3>1, ProgramFacts
        <4>2. QED
          BY <3>1, <4>1
      <3>3. p = d <=> p[1] = Current /\ p[2] = Loaded + 1
        BY <1>13, <3>1
      <3>4. p[2] <= Loaded + 1 <=> p[2] <= Loaded \/ p[2] = Loaded + 1
        BY <1>5, <3>2
      <3>5. p \in done <=> p[1] < Current \/ (p[1] = Current /\ p[2] <= Loaded)
        BY <1>11, <1>12
      <3>6. QED
        BY <3>3, <3>4, <3>5
    <2>3. QED
      BY <2>2
  <1>16. at' \in LoaderPlaces \cup {"entered"}
    BY <1>1 DEF LoaderPlaces
  <1>17. BootType'
    <2>1. tx \in Nat /\ mem \in [0 .. MemWords - 1 -> Nat]
      BY <1>1, WordTaken DEF BootInv, BootType
    <2>2. mem' \in [0 .. MemWords - 1 -> Nat]
      BY <1>1, <2>1
    <2>3. r0' \in Nat
      BY <1>1, <1>9
    <2>4. wordsLeft' \in Nat /\ sectionsLeft' \in Nat
      <3>1. \A n \in Nat \ {0} : n - 1 \in Nat
        OBVIOUS
      <3>2. wordsLeft \in Nat \ {0}
        <4>1. \A m \in Nat : \A n \in 1 .. m : n \in Nat \ {0}
          OBVIOUS
        <4>2. QED
          BY <1>3, <1>4, <4>1
      <3>3. wordsLeft - 1 \in Nat /\ sectionsLeft - 1 \in Nat /\ sectionsLeft \in Nat
        BY <1>4, <3>1, <3>2
      <3>4. QED
        BY <1>1, <3>3
    <2>5. UNCHANGED <<fileVars, hostVars, reply>>
      BY <1>0, <1>1 DEF hostVars
    <2>6. QED
      BY <1>2, <1>16, <2>2, <2>3, <2>4, <2>5, LoaderTyped
  <1>18. CASE wordsLeft > 1
    <2>1. at' = "word" /\ sectionsLeft' = sectionsLeft /\ wordsLeft' = wordsLeft - 1
      BY <1>1, <1>5, <1>18
    <2>2. Current' = Current /\ words' = words /\ rest' = rest /\ Within' = Within
      BY <1>8, <2>1 DEF Current, Within
    <2>3. Loaded' = Loaded + 1
      <3>1. Loaded' = Len(words) - (wordsLeft - 1)
        BY <2>1, <2>2 DEF Loaded
      <3>2. \A l, n, w \in Nat : w = n - l => n - (w - 1) = l + 1
        OBVIOUS
      <3>3. Len(words) - (wordsLeft - 1) = Loaded + 1
        <4>1. Len(words) \in Nat
          BY <1>4
        <4>2. QED
          BY <1>5, <3>2, <4>1
      <3>4. QED
        BY <3>1, <3>3
    <2>4. r0' = Merged[Current].address + (Loaded + 1)
      <3>1. r0 + 1 = Merged[Current].address + (Loaded + 1)
        <4>1. \A a, l \in Nat : (a + l) + 1 = a + (l + 1)
          OBVIOUS
        <4>2. QED
          BY <1>3, <1>4, <1>5, <4>1
      <3>2. Loaded + 1 < Len(words)
        BY <1>4, <1>5, <1>18
      <3>3. r0 + 1 < MemWords
        BY <1>4, <1>5, <1>9, <3>1, <3>2
      <3>4. (r0 + 1) % MemWords = r0 + 1
        BY <1>9, <3>3
      <3>5. QED
        BY <1>1, <3>1, <3>4
    <2>5. PendingInv'
      <3>1. (Loaded + 1) + 1 = Loaded + 2
        BY <1>5
      <3>2. Pending' = SubSeq(words, (Loaded + 1) + 1, Len(words)) \o rest
        BY <1>7, <3>1
      <3>3. wordsLeft' \in 1 .. Len(words)
        BY <1>3, <1>4, <1>18, <2>1
      <3>4. QED
        BY <1>3, <1>8, <2>1, <2>2, <2>3, <2>4, <3>2, <3>3 DEF PendingInv
    <2>6. MemInv'
      <3>1. Installed' = done \cup {d}
        BY <1>8, <1>15, <2>1, <2>2, <2>3 DEF Installed, Untransferred
      <3>2. Holds(Installed)'
        BY <1>14, <3>1 DEF Holds
      <3>3. QED
        BY <2>1, <3>2 DEF MemInv
    <2>7. QED
      BY <1>0, <1>16, <1>17, <2>5, <2>6, TransferKeeps
  <1>19. CASE ~(wordsLeft > 1)
    <2>1. wordsLeft = 1 /\ Loaded + 1 = Len(words)
      <3>1. \A n, l \in Nat : \A k \in 1 .. n : k = n - l /\ ~(k > 1) => k = 1 /\ l + 1 = n
        OBVIOUS
      <3>2. Len(words) \in Nat /\ Loaded \in Nat /\ wordsLeft \in 1 .. Len(words) /\ wordsLeft = Len(words) - Loaded
        BY <1>3, <1>4, <1>5
      <3>3. QED
        BY <1>19, <3>1, <3>2
    <2>2. /\ sectionsLeft' = sectionsLeft - 1
          /\ at' = (IF sectionsLeft > 1 THEN "address" ELSE "reply")
      BY <1>1, <2>1
    <2>3. Pending' = rest
      <3>1. SubSeq(words, Loaded + 2, Len(words)) = <<>>
        <4>1. Loaded + 2 \in Int /\ Len(words) \in Int /\ Len(words) < Loaded + 2
          BY <1>4, <1>5, <2>1
        <4>2. QED
          BY <4>1, SubSeqEmpty
      <3>2. <<>> \o rest = rest
        BY <1>6
      <3>3. QED
        BY <1>7, <3>1, <3>2
    <2>4. PendingInv'
      <3>1. CASE sectionsLeft > 1
        <4>1. at' = "address"
          BY <2>2, <3>1
        <4>2. Within'
          BY <1>3, <1>4, <1>8, <2>2, <3>1 DEF Within
        <4>3. Pending' = LastSections(Merged)[sectionsLeft]'
          BY <1>8, <2>2, <2>3
        <4>4. QED
          BY <4>1, <4>2, <4>3 DEF PendingInv
      <3>2. CASE ~(sectionsLeft > 1)
        <4>1. at' = "reply" /\ sectionsLeft - 1 = 0 /\ sectionsLeft' = 0
          BY <1>4, <2>2, <3>2
        <4>2. rest = <<>>
          BY <1>4, <4>1, LastSectionsIs
        <4>3. QED
          BY <2>3, <4>1, <4>2 DEF PendingInv
      <3>3. QED
        BY <3>1, <3>2
    <2>5. MemInv'
      <3>1. Current' = Current + 1
        BY <1>4, <1>8, <2>2 DEF Current
      <3>2. Installed' = {p \in Places(Merged) : p[1] < Current + 1}
        BY <1>8, <2>2, <3>1 DEF Installed, Untransferred
      <3>3. ASSUME NEW p \in Places(Merged)
            PROVE  p[1] < Current + 1 <=> p[1] < Current \/ (p[1] = Current /\ p[2] <= Loaded + 1)
        <4>1. p[1] \in 1 .. Len(Merged) /\ p[2] \in 1 .. Len(Merged[p[1]].words)
          BY <1>4, PlaceIs
        <4>2. p[1] = Current => p[2] <= Loaded + 1
          BY <1>4, <2>1, <4>1
        <4>3. p[1] < Current + 1 <=> p[1] < Current \/ p[1] = Current
          BY <1>4, <4>1
        <4>4. QED
          BY <4>2, <4>3
      <3>4. Installed' = done \cup {d}
        BY <1>15, <3>2, <3>3
      <3>5. Holds(Installed)'
        BY <1>14, <3>4 DEF Holds
      <3>6. at' # "magic"
        BY <2>2
      <3>7. QED
        BY <3>5, <3>6 DEF MemInv
    <2>6. QED
      BY <1>0, <1>16, <1>17, <2>4, <2>5, TransferKeeps
  <1>20. QED
    BY <1>18, <1>19

\* stage2_sections_done: everything is installed, and the loader gives way to
\* the program, or starts again where the program left it its reset vector.
LEMMA RunReply == ASSUME BootInv, LoaderReply PROVE BootInv'
  <1>0. /\ mode = "include" /\ at \in LoaderPlaces /\ at # "rejected" /\ Streamable(lod)
        /\ PendingInv /\ MemInv /\ UNCHANGED fileVars
    BY LoaderRuns DEF Loader
  <1>1. /\ at = "reply" /\ reply' = STAGE2_REPLY_OK /\ at' \in {"magic", "entered"}
        /\ UNCHANGED <<lod, lines, mode, mem, stream, result, tx, r0, sectionsLeft, wordsLeft>>
    BY <1>0 DEF LoaderReply, LoaderPlaces, fileVars, hostVars, loaderVars
  <1>2. sectionsLeft = 0 /\ Pending = <<>> /\ Pending' = Pending
    BY <1>0, <1>1 DEF PendingInv, Pending
  <1>3. PendingInv'
    BY <1>1, <1>2 DEF PendingInv
  <1>4. MemInv'
    <2>1. Merged' = Merged /\ Current' = Current
      BY <1>1 DEF Merged, Current
    <2>2. Installed' = Installed
      BY <1>1, <1>2, <2>1 DEF Installed, Untransferred
    <2>3. PICK done : done = Installed
      OBVIOUS
    <2>4. Holds(done)'
      BY <1>0, <1>1, <2>3, SameHolds DEF MemInv
    <2>5. Holds(Installed)'
      BY <2>2, <2>3, <2>4 DEF Holds
    <2>6. QED
      BY <1>1, <1>2, <2>5 DEF MemInv
  <1>5. at' \in LoaderPlaces \cup {"entered"}
    BY <1>1 DEF LoaderPlaces
  <1>6. BootType'
    <2>1. Answers' = Answers /\ LoaderPlaces' = LoaderPlaces /\ reply' \in Answers
      BY <1>1 DEF Answers, LoaderPlaces
    <2>2. QED
      BY <1>1, <1>5, <2>1 DEF BootInv, BootType
  <1>7. QED
    BY <1>0, <1>3, <1>4, <1>5, <1>6, TransferKeeps

LEMMA BootStutters == ASSUME BootInv, UNCHANGED bootVars PROVE BootInv'
  <1>1. /\ UNCHANGED <<at, lod, lines, mode, mem, stream, result, tx, reply>>
        /\ UNCHANGED <<r0, sectionsLeft, wordsLeft>> /\ UNCHANGED fileVars
    BY DEF bootVars, fileVars, hostVars, portVars, loaderVars
  <1>2. Answers' = Answers /\ LoaderPlaces' = LoaderPlaces
    BY DEF Answers, LoaderPlaces
  <1>3. BootType'
    BY <1>1, <1>2 DEF BootInv, BootType
  <1>4. Streamable(lod)' = Streamable(lod) /\ EntersProgram' = (EntersProgram)
    BY <1>1 DEF EntersProgram
  <1>5. ModeInv'
    BY <1>1, <1>2, <1>4 DEF BootInv, ModeInv
  <1>6. TransferInv'
    <2>1. SUFFICES ASSUME mode = "include", at # "rejected" PROVE PendingInv' /\ MemInv'
      BY <1>1 DEF TransferInv
    <2>2. Pending' = Pending /\ PendingInv /\ MemInv
      BY <1>1, <2>1 DEF Pending, BootInv, TransferInv
    <2>3. QED
      BY <1>1, <2>2, SamePending
  <1>7. QED
    BY <1>3, <1>5, <1>6 DEF BootInv
-----------------------------------------------------------------------------
(* The theorems.                                                           *)

\* In every state of the build and of the boot, for every file, every place
\* of the loader and of the tables' islands, BootInv holds: the port still
\* has to bring what the loader at its place lacks, and P memory holds what
\* it has installed and the boot image elsewhere.
THEOREM BootInductive == BootSpec => []BootInv
  <1>1. BootInit => BootInv
    BY BootInitial
  <1>2. BootInv /\ [BootNext]_bootVars => BootInv'
    <2>1. SUFFICES ASSUME BootInv, [BootNext]_bootVars PROVE BootInv'
      OBVIOUS
    <2>2. CASE Build
      <3>1. CASE Standalone
        BY <2>1, <3>1, BuildStandalone
      <3>2. CASE TwoStages
        BY <2>1, <3>2, BuildTwoStages
      <3>3. CASE ReadError
        BY <2>1, <3>3, BuildError
      <3>4. CASE \/ \E m \in {"P", "X"}, a \in Starts : ReadData(m, a)
                 \/ \E e \in {0, 1} : ReadEnd(e)
                 \/ ReadWord
        BY <2>1, <3>4, BuildReads
      <3>5. QED
        BY <2>2, <3>1, <3>2, <3>3, <3>4 DEF Build
    <2>3. CASE Post
      BY <2>1, <2>3, HostPosts
    <2>4. CASE GetReply
      BY <2>1, <2>4, HostReads
    <2>5. CASE Loader
      <3>1. CASE LoadMagic
        BY <2>1, <3>1, RunMagic
      <3>2. CASE LoadCount
        BY <2>1, <3>2, RunCount
      <3>3. CASE LoadAddress
        BY <2>1, <3>3, RunAddress
      <3>4. CASE LoadLength
        BY <2>1, <3>4, RunLength
      <3>5. CASE LoadWord
        BY <2>1, <3>5, RunWord
      <3>6. CASE LoaderReply
        BY <2>1, <3>6, RunReply
      <3>7. QED
        BY <2>5, <3>1, <3>2, <3>3, <3>4, <3>5, <3>6 DEF Loader
    <2>6. CASE UNCHANGED bootVars
      BY <2>1, <2>6, BootStutters
    <2>7. QED
      BY <2>1, <2>2, <2>3, <2>4, <2>5, <2>6 DEF BootNext
  <1>3. QED
    BY <1>1, <1>2, PTL DEF BootSpec

\* The state of the build and of the boot keeps its types; in particular the
\* loader's registers are numbers and P memory keeps its size.
THEOREM BootTypeCorrect == BootSpec => []BootType
  BY BootInductive, PTL DEF BootInv

\* make_program_stream, which looks at merged sections and at neighbours in
\* the order of their addresses, makes a stream of a file if and only if each
\* of its words has one address and that is free.
THEOREM StreamTakesLoadable == BootSpec => []StreamIffLoadable
  <1>1. ASSUME BootInv PROVE StreamIffLoadable
    <2>1. lod.sections \in Seq(Sections)
      BY <1>1 DEF BootInv, BootType
    <2>2. PICK l : l = lod
      OBVIOUS
    <2>3. Streamable(l) <=> /\ Complete(l) /\ l.entry = 0 /\ OnlyP(l.sections)
                            /\ NoCellTwice(l.sections) /\ Addresses(l.sections) \subseteq Allowed
      BY <2>1, <2>2, StreamableIs
    <2>4. Streamable(lod) <=> Loadable
      BY <2>2, <2>3 DEF Loadable, Allowed
    <2>5. mode = "include" => (at # "rejected" <=> Streamable(lod))
      BY <1>1 DEF BootInv, ModeInv
    <2>6. QED
      BY <2>4, <2>5 DEF StreamIffLoadable
  <1>2. QED
    BY <1>1, BootInductive, PTL

\* stage2_loader.asm, which lies between the sections it installs, is not
\* written over while it runs, and neither is the word after its last.
THEOREM LoaderSurvives == BootSpec => []LoaderIntact
  <1>1. ASSUME BootInv PROVE LoaderIntact
    <2>1. SUFFICES ASSUME at \in LoaderPlaces, NEW a \in LoaderFirst .. LoaderLimit - 1
                   PROVE  mem[a] = LoaderWord(a)
      BY DEF LoaderIntact, LoaderPlaces
    <2>2. mode = "include" /\ at # "rejected" /\ Streamable(lod) /\ lod.sections \in Seq(Sections)
      BY <1>1, <2>1 DEF BootInv, ModeInv, BootType, LoaderPlaces
    <2>3. Holds(Installed) /\ Installed \subseteq Places(Merged)
      BY <1>1, <2>2 DEF BootInv, TransferInv, MemInv, Installed
    <2>4. a \in 0 .. MemWords - 1
      <3>1. /\ LoaderFirst \in Nat /\ LoaderLimit \in Nat /\ BootLimit \in Nat /\ MemWords \in Nat
            /\ LoaderLimit <= BootLimit /\ BootLimit <= MemWords
        BY Constants
      <3>2. QED
        BY <3>1
    <2>5. \A p \in Installed : Address(Merged, p) # a
      BY <2>1, <2>2, <2>3, AddressFits
    <2>6. mem[a] = BootMem(a)
      BY <2>3, <2>4, <2>5 DEF Holds
    <2>7. QED
      BY <2>1, <2>6 DEF BootMem
  <1>2. QED
    BY <1>1, BootInductive, PTL

\* A DSP program that is entered is the whole program: in a boot image with
\* its gaps, and after any stream of sections, every word of the file is at
\* its address and nothing but the boot image is anywhere else.
THEOREM WholeProgramEntered == BootSpec => []EntersProgram
  <1>1. ASSUME BootInv PROVE EntersProgram
    <2>1. SUFFICES ASSUME at = "entered", mode = "include" PROVE EntersProgram
      <3>1. mode # "none" /\ mode # "include" => mode = "standalone" \/ at # "entered"
        BY <1>1 DEF BootInv, BootType
      <3>2. QED
        BY <1>1, <2>1, <3>1 DEF BootInv, ModeInv, EntersProgram
    <2>2. at # "rejected" /\ Streamable(lod) /\ lod.sections \in Seq(Sections)
      BY <1>1, <2>1 DEF BootInv, ModeInv, BootType
    <2>3. Holds(Places(Merged))
      <3>1. sectionsLeft = 0 /\ Holds(Installed)
        BY <1>1, <2>1, <2>2 DEF BootInv, TransferInv, PendingInv, MemInv
      <3>2. Len(Merged) \in Nat /\ Merged \in Seq(Sections)
        BY <2>2, ProgramFacts
      <3>3. Current = Len(Merged) + 1
        BY <3>1, <3>2 DEF Current
      <3>4. \A p \in Places(Merged) : p[1] < Current
        BY <3>2, <3>3, PlaceIs
      <3>5. Installed = Places(Merged)
        BY <2>1, <3>4 DEF Installed, Untransferred
      <3>6. QED
        BY <3>1, <3>5
    <2>4. /\ \A p \in Places(lod.sections) :
               \E m \in Places(Merged) :
                 /\ Address(Merged, m) = Address(lod.sections, p)
                 /\ Word(Merged, m) = Word(lod.sections, p)
          /\ Addresses(lod.sections) = Addresses(Merged)
      BY <2>2, ProgramFacts, MergedWords
    <2>5. \A p \in Places(lod.sections) : mem[Address(lod.sections, p)] = Word(lod.sections, p)
      BY <2>3, <2>4 DEF Holds
    <2>6. \A a \in (0 .. MemWords - 1) \ Addresses(lod.sections) : mem[a] = BootMem(a)
      BY <2>3, <2>4 DEF Holds, Addresses
    <2>7. \A a \in 0 .. MemWords - 1 : BootMem(a) \in {0, LoaderWord(a)}
      BY DEF BootMem
    <2>8. QED
      BY <2>1, <2>5, <2>6, <2>7 DEF EntersProgram
  <1>2. QED
    BY <1>1, BootInductive, PTL
=============================================================================
