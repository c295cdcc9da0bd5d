-------------------------- MODULE TraceGateProofs --------------------------
(***************************************************************************)
(* Proofs about TraceGate, for every corpus, every limit, every length of  *)
(* run and every lag of the scorer's thread.                               *)
(***************************************************************************)
EXTENDS TraceGate, TLAPS

Lines == {"pdx", "refill", "few", "many", "error", "word", "clip", "switch", "unlock"}

Scores == [refills : Nat, unlock : BOOLEAN, error : BOOLEAN, production : BOOLEAN, words : Nat,
           clipped : Nat, switches : Seq(Nat), awaiting : BOOLEAN, burst : BOOLEAN]
Truths == [production : BOOLEAN, unlock : BOOLEAN, error : BOOLEAN, refills : Nat, open : BOOLEAN,
           refused : BOOLEAN, switches : Nat, words : Nat, clipped : Nat, missed : BOOLEAN]

Scored(s, l) == IF gate = "batch" THEN BatchScore(s, l) ELSE StockScore(s, l)

\* Some interval but the first is not a period.
Missed(switches) == \E i \in 2 .. Len(switches) - 1 : switches[i + 1] - switches[i] # Period

\* A score that has seen everything that happened.
Agrees(s, t) ==
  IF gate = "batch"
    THEN s.refills = t.refills /\ (s.unlock <=> t.unlock) /\ (s.error <=> t.error) /\ ~t.production
    ELSE /\ s.production <=> t.production
         /\ Len(s.switches) = t.switches
         /\ t.switches > 0 => s.words = s.switches[t.switches] + t.words
         /\ t.missed <=> Missed(s.switches)

\* A score that the batch's scorer may be behind with, never ahead.
Lags(s, t) == gate = "batch" => s.refills <= t.refills /\ (s.unlock => t.unlock)

\* Read to its end, the pipe brings the score up to the truth, and on the way
\* never beyond: h is the score after each line still in it.
CatchesUp ==
  \E h \in [0 .. Len(pipe) -> Scores] :
    /\ h[0] = score
    /\ \A i \in 1 .. Len(pipe) : h[i] = Scored(h[i - 1], pipe[i])
    /\ Agrees(h[Len(pipe)], truth)
    /\ \A i \in 0 .. Len(pipe) : Lags(h[i], truth)

\* An error of the song that the batch has not counted is still in the pipe.
ErrorAhead ==
  gate = "batch" /\ truth.error => score.error \/ \E i \in 1 .. Len(pipe) : pipe[i] = "error"

GateInv ==
  /\ gate \in {"batch", "stock"} /\ reader \in {"reading", "eof", "failed"}
  /\ proc = "none" => main \in {"start", "exit"}
  /\ pipe \in Seq(Lines) /\ truth \in Truths
  /\ CatchesUp /\ ErrorAhead
  /\ reader = "eof" => pipe = <<>> /\ proc \in {"none", "dead"}
-----------------------------------------------------------------------------
(* One line.                                                               *)

LEMMA HappenFacts ==
  ASSUME NEW t \in Truths, NEW l \in Lines
  PROVE  /\ Happen(t, l) \in Truths
         /\ Happen(t, l).refills = t.refills + (IF l = "refill" THEN 1 ELSE 0)
         /\ Happen(t, l).unlock <=> (t.unlock \/ l = "unlock")
         /\ l # "error" => (Happen(t, l).error <=> t.error)
         /\ l = "error" /\ gate = "batch" => Happen(t, l).error
         /\ Happen(t, l).production <=> (t.production \/ l = "pdx")
         /\ Happen(t, l).switches = t.switches + (IF l = "switch" THEN 1 ELSE 0)
         /\ Happen(t, l).words = IF l = "switch" THEN 0
                                 ELSE t.words + (IF l \in {"word", "clip"} THEN 1 ELSE 0)
         /\ Happen(t, l).missed <=> (t.missed \/ (l = "switch" /\ t.switches > 1 /\ t.words # Period))
  <1>1. /\ t.refills \in Nat /\ t.switches \in Nat /\ t.words \in Nat /\ t.clipped \in Nat
        /\ t.refills + 1 \in Nat /\ t.switches + 1 \in Nat /\ t.words + 1 \in Nat /\ t.clipped + 1 \in Nat
        /\ 0 \in Nat /\ TRUE \in BOOLEAN /\ FALSE \in BOOLEAN /\ t.open \in BOOLEAN
        /\ t.unlock \in BOOLEAN /\ t.error \in BOOLEAN /\ t.production \in BOOLEAN /\ t.missed \in BOOLEAN
    BY DEF Truths
  <1>2. CASE l = "pdx"
    <2>1. Happen(t, l) = [t EXCEPT !.production = TRUE]
      BY <1>2 DEF Happen
    <2>2. Happen(t, l) \in Truths
      BY <1>1, <2>1, Zenon DEF Truths
    <2>3. QED
      BY <1>2, <2>1, <2>2 DEF Truths
  <1>3. CASE l = "refill"
    <2>1. PICK b \in BOOLEAN : b = (gate = "stock")
      OBVIOUS
    <2>2. Happen(t, l) = [t EXCEPT !.refills = t.refills + 1, !.open = b]
      BY <1>3, <2>1 DEF Happen
    <2>3. Happen(t, l) \in Truths
      BY <1>1, <2>2, Zenon DEF Truths
     <2>4. /\ Happen(t, l).refills = t.refills + 1
          /\ Happen(t, l).unlock = t.unlock
          /\ Happen(t, l).error = t.error
          /\ Happen(t, l).production = t.production
          /\ Happen(t, l).switches = t.switches
          /\ Happen(t, l).words = t.words
          /\ Happen(t, l).missed = t.missed
      BY <2>2 DEF Truths
    <2>5. QED
      BY <1>1, <1>3, <2>1, <2>2, <2>3, <2>4
  <1>4. CASE l \in {"few", "many"}
    <2>1. Happen(t, l) = [t EXCEPT !.open = FALSE, !.refused = FALSE]
      BY <1>4 DEF Happen
    <2>2. Happen(t, l) \in Truths
      BY <1>1, <2>1, Zenon DEF Truths
    <2>3. QED
      BY <1>4, <2>1, <2>2 DEF Truths
  <1>5. CASE l = "error"
    <2>1. PICK b \in BOOLEAN : b = (gate = "batch" \/ t.production)
      OBVIOUS
    <2>2. Happen(t, l) = [t EXCEPT !.error = b, !.open = FALSE, !.refused = t.open]
      BY <1>5, <2>1 DEF Happen
    <2>3. Happen(t, l) \in Truths
      BY <1>1, <2>2, Zenon DEF Truths
     <2>4. /\ Happen(t, l).refills = t.refills
          /\ Happen(t, l).unlock = t.unlock
          /\ Happen(t, l).error = b
          /\ Happen(t, l).production = t.production
          /\ Happen(t, l).switches = t.switches
          /\ Happen(t, l).words = t.words
          /\ Happen(t, l).missed = t.missed
      BY <2>2 DEF Truths
    <2>5. QED
      BY <1>1, <1>5, <2>1, <2>3, <2>4 DEF Truths
  <1>6. CASE l = "word"
    <2>1. Happen(t, l) = [t EXCEPT !.words = t.words + 1]
      BY <1>6 DEF Happen
    <2>2. Happen(t, l) \in Truths
      BY <1>1, <2>1, Zenon DEF Truths
    <2>3. QED
      BY <1>6, <2>1, <2>2 DEF Truths
  <1>7. CASE l = "clip"
    <2>1. Happen(t, l) = [t EXCEPT !.words = t.words + 1, !.clipped = t.clipped + 1]
      BY <1>7 DEF Happen
    <2>2. Happen(t, l) \in Truths
      BY <1>1, <2>1, Zenon DEF Truths
     <2>3. /\ Happen(t, l).refills = t.refills
          /\ Happen(t, l).unlock = t.unlock
          /\ Happen(t, l).error = t.error
          /\ Happen(t, l).production = t.production
          /\ Happen(t, l).switches = t.switches
          /\ Happen(t, l).words = t.words + 1
          /\ Happen(t, l).missed = t.missed
      BY <2>1 DEF Truths
    <2>4. QED
      BY <1>1, <1>7, <2>1, <2>2, <2>3
  <1>8. CASE l = "switch"
    <2>1. PICK b \in BOOLEAN : b = (t.missed \/ (t.switches > 1 /\ t.words # Period))
      OBVIOUS
    <2>2. Happen(t, l) = [t EXCEPT !.switches = t.switches + 1, !.words = 0, !.missed = b]
      BY <1>8, <2>1 DEF Happen
    <2>3. Happen(t, l) \in Truths
      BY <1>1, <2>2, Zenon DEF Truths
     <2>4. /\ Happen(t, l).refills = t.refills
          /\ Happen(t, l).unlock = t.unlock
          /\ Happen(t, l).error = t.error
          /\ Happen(t, l).production = t.production
          /\ Happen(t, l).switches = t.switches + 1
          /\ Happen(t, l).words = 0
          /\ Happen(t, l).missed = b
      BY <2>2 DEF Truths
    <2>5. QED
      BY <1>1, <1>8, <2>1, <2>3, <2>4 DEF Truths
  <1>9. CASE l = "unlock"
    <2>1. Happen(t, l) = [t EXCEPT !.unlock = TRUE]
      BY <1>9 DEF Happen
    <2>2. Happen(t, l) \in Truths
      BY <1>1, <2>1, Zenon DEF Truths
    <2>3. QED
      BY <1>9, <2>1, <2>2 DEF Truths
  <1>10. QED
    BY <1>2, <1>3, <1>4, <1>5, <1>6, <1>7, <1>8, <1>9 DEF Lines

LEMMA BatchFacts ==
  ASSUME NEW s \in Scores, NEW l \in Lines
  PROVE  /\ BatchScore(s, l) \in Scores
         /\ BatchScore(s, l).refills = s.refills + (IF l = "refill" THEN 1 ELSE 0)
         /\ BatchScore(s, l).unlock <=> (s.unlock \/ l = "unlock")
         /\ BatchScore(s, l).error <=> (s.error \/ l = "error")
  <1>1. s.refills + 1 \in Nat /\ TRUE \in BOOLEAN
    BY DEF Scores
  <1>2. CASE l = "refill"
    <2>1. BatchScore(s, l) = [s EXCEPT !.refills = s.refills + 1]
      BY <1>2 DEF BatchScore
    <2>2. BatchScore(s, l) \in Scores
      BY <1>1, <2>1, Zenon DEF Scores
    <2>3. QED
      BY <1>2, <2>1, <2>2 DEF Scores
  <1>3. CASE l = "unlock"
    <2>1. BatchScore(s, l) = [s EXCEPT !.unlock = TRUE]
      BY <1>3 DEF BatchScore
    <2>2. BatchScore(s, l) \in Scores
      BY <1>1, <2>1, Zenon DEF Scores
    <2>3. QED
      BY <1>3, <2>1, <2>2 DEF Scores
  <1>4. CASE l = "error"
    <2>1. BatchScore(s, l) = [s EXCEPT !.error = TRUE]
      BY <1>4 DEF BatchScore
    <2>2. BatchScore(s, l) \in Scores
      BY <1>1, <2>1, Zenon DEF Scores
    <2>3. QED
      BY <1>4, <2>1, <2>2 DEF Scores
  <1>5. CASE l \notin {"refill", "unlock", "error"}
    <2>1. BatchScore(s, l) = s
      BY <1>5 DEF BatchScore
    <2>2. QED
      BY <1>5, <2>1 DEF Scores
  <1>6. QED
    BY <1>2, <1>3, <1>4, <1>5

LEMMA StockFacts ==
  ASSUME NEW s \in Scores, NEW l \in Lines
  PROVE  /\ StockScore(s, l) \in Scores
         /\ StockScore(s, l).production <=> (s.production \/ l = "pdx")
         /\ StockScore(s, l).words = s.words + (IF l \in {"word", "clip"} THEN 1 ELSE 0)
         /\ StockScore(s, l).switches =
              IF l = "switch" /\ s.production THEN Append(s.switches, s.words) ELSE s.switches
  <1>1. /\ s.refills + 1 \in Nat /\ s.words \in Nat /\ s.words + 1 \in Nat /\ s.clipped \in Nat
        /\ s.clipped + 1 \in Nat /\ Append(s.switches, s.words) \in Seq(Nat)
        /\ TRUE \in BOOLEAN /\ FALSE \in BOOLEAN /\ s.production \in BOOLEAN
    BY DEF Scores
  <1>2. CASE l = "pdx"
    <2>1. StockScore(s, l) = [s EXCEPT !.production = TRUE]
      BY <1>2 DEF StockScore
    <2>2. StockScore(s, l) \in Scores
      BY <1>1, <2>1, Zenon DEF Scores
    <2>3. QED
      BY <1>2, <2>1, <2>2 DEF Scores
  <1>3. CASE l = "word"
    <2>1. StockScore(s, l) = [s EXCEPT !.words = s.words + 1]
      BY <1>3 DEF StockScore
    <2>2. StockScore(s, l) \in Scores
      BY <1>1, <2>1, Zenon DEF Scores
    <2>3. QED
      BY <1>3, <2>1, <2>2 DEF Scores
  <1>4. CASE l = "clip"
    <2>1. PICK c \in Nat : c = IF s.production THEN s.clipped + 1 ELSE s.clipped
      BY <1>1
    <2>2. StockScore(s, l) = [s EXCEPT !.words = s.words + 1, !.clipped = c]
      BY <1>4, <2>1 DEF StockScore
    <2>3. StockScore(s, l) \in Scores
      BY <1>1, <2>2, Zenon DEF Scores
    <2>4. QED
      BY <1>4, <2>2, <2>3 DEF Scores
  <1>5. CASE l = "switch" /\ s.production
    <2>1. StockScore(s, l) = [s EXCEPT !.switches = Append(s.switches, s.words)]
      BY <1>5 DEF StockScore
    <2>2. StockScore(s, l) \in Scores
      BY <1>1, <2>1, Zenon DEF Scores
    <2>3. QED
      BY <1>5, <2>1, <2>2 DEF Scores
  <1>6. CASE l = "refill" /\ s.production
    <2>1. StockScore(s, l) = [s EXCEPT !.refills = s.refills + 1, !.awaiting = TRUE]
      BY <1>6 DEF StockScore
    <2>2. StockScore(s, l) \in Scores
      BY <1>1, <2>1, Zenon DEF Scores
    <2>3. /\ StockScore(s, l).production = s.production /\ StockScore(s, l).words = s.words
          /\ StockScore(s, l).switches = s.switches
      BY <2>1 DEF Scores
    <2>4. StockScore(s, l).production <=> (s.production \/ l = "pdx")
      BY <1>1, <1>6, <2>3
    <2>5. StockScore(s, l).words = s.words + (IF l \in {"word", "clip"} THEN 1 ELSE 0)
      BY <1>1, <1>6, <2>3
    <2>6. QED
      BY <1>6, <2>2, <2>3, <2>4, <2>5, Zenon
  <1>7. CASE l \in {"few", "many"} /\ s.production /\ s.awaiting
    <2>1. PICK c \in BOOLEAN : c = (s.burst \/ l = "many")
      BY <1>1
    <2>2. StockScore(s, l) = [s EXCEPT !.burst = c, !.awaiting = FALSE]
      BY <1>7, <2>1 DEF StockScore
    <2>3. StockScore(s, l) \in Scores
      BY <1>1, <2>2, Zenon DEF Scores
    <2>4. QED
      BY <1>7, <2>2, <2>3 DEF Scores
  <1>8. CASE l = "error" /\ s.production /\ ~s.awaiting
    <2>1. StockScore(s, l) = [s EXCEPT !.error = TRUE]
      BY <1>8 DEF StockScore
    <2>2. StockScore(s, l) \in Scores
      BY <1>1, <2>1, Zenon DEF Scores
    <2>3. QED
      BY <1>8, <2>1, <2>2 DEF Scores
  <1>9. CASE \/ l \in {"switch", "refill"} /\ ~s.production
             \/ l = "error" /\ ~(s.production /\ ~s.awaiting)
             \/ l = "unlock"
    <2>1. StockScore(s, l) = s
      BY <1>9 DEF StockScore
    <2>2. QED
      BY <1>9, <2>1 DEF Scores
  <1>10. QED
    <2>1. CASE l \in {"pdx", "word", "clip", "unlock"}
      BY <1>2, <1>3, <1>4, <1>9, <2>1
    <2>2. CASE l = "switch"
      BY <1>5, <1>9, <2>2
    <2>3. CASE l = "refill"
      BY <1>6, <1>9, <2>3
    <2>4. CASE l \in {"few", "many"}
      <3>1. CASE s.production /\ s.awaiting
        BY <1>7, <2>4, <3>1, Zenon
      <3>2. CASE ~(s.production /\ s.awaiting)
        <4>1. l \in {"few", "many"} /\ ~(s.production /\ s.awaiting)
          BY <2>4, <3>2
        <4>2. StockScore(s, l) = s
          BY <4>1 DEF StockScore
        <4>3. l \notin {"word", "clip", "pdx", "switch"}
          BY <2>4
        <4>4. QED
          BY <4>2, <4>3 DEF Scores
      <3>3. QED
        BY <3>1, <3>2
    <2>5. CASE l = "error"
      BY <1>8, <1>9, <2>5
    <2>6. QED
      BY <2>1, <2>2, <2>3, <2>4, <2>5 DEF Lines

\* A handoff at word w, d words after the last one.
LEMMA MissedAppend ==
  ASSUME NEW q \in Seq(Nat), NEW w \in Nat, NEW d \in Nat,
         Len(q) > 0 => w = q[Len(q)] + d
  PROVE  Missed(Append(q, w)) <=> Missed(q) \/ (Len(q) > 1 /\ d # Period)
  <1> DEFINE after == Append(q, w)
             n == Len(q)
  <1>1. /\ n \in Nat /\ Len(after) = n + 1 /\ after[n + 1] = w
        /\ \A i \in 1 .. n : after[i] = q[i] /\ q[i] \in Nat
    OBVIOUS
  <1> HIDE DEF after
  <1>2. Missed(after) <=> \E i \in 2 .. n : after[i + 1] - after[i] # Period
    BY <1>1 DEF Missed
  <1>3. Missed(q) <=> \E i \in 2 .. n - 1 : q[i + 1] - q[i] # Period
    BY DEF Missed
  <1> HIDE DEF n
  <1>4. CASE n > 1
    <2>1. after[n + 1] - after[n] = d
      <3>1. n \in 1 .. n /\ w = q[n] + d
        BY <1>1, <1>4 DEF n
      <3>2. QED
        BY <1>1, <3>1
    <2>2. \A i \in 2 .. n - 1 : after[i + 1] = q[i + 1] /\ after[i] = q[i]
      BY <1>1
    <2>3. \A i : i \in 2 .. n <=> i \in 2 .. n - 1 \/ i = n
      BY <1>1, <1>4
    <2>4. QED
      BY <1>2, <1>3, <1>4, <2>1, <2>2, <2>3 DEF after, n
  <1>5. CASE ~(n > 1)
    BY <1>1, <1>2, <1>3, <1>5 DEF after, n
  <1>6. QED
    BY <1>4, <1>5

\* A line brings the score and the truth one step on together.
LEMMA LineAgrees ==
  ASSUME gate \in {"batch", "stock"}, NEW s \in Scores, NEW t \in Truths, NEW l \in Lines,
         Agrees(s, t), CanHappen(t, l)
  PROVE  Scored(s, l) \in Scores /\ Agrees(Scored(s, l), Happen(t, l))
  <1>1. CASE gate = "batch"
    <2>1. l # "pdx" /\ l # "switch"
      BY <1>1 DEF CanHappen, Agrees
    <2>2. Scored(s, l) = BatchScore(s, l)
      BY <1>1 DEF Scored
    <2>3. s.refills = t.refills /\ (s.unlock <=> t.unlock) /\ (s.error <=> t.error) /\ ~t.production
      BY <1>1 DEF Agrees
    <2>4. QED
      BY <1>1, <2>1, <2>2, <2>3, HappenFacts, BatchFacts DEF Agrees
  <1>2. CASE gate = "stock"
    <2>1. /\ s.words \in Nat /\ s.switches \in Seq(Nat) /\ t.words \in Nat /\ t.switches \in Nat
      BY DEF Scores, Truths
    <2>2. /\ Len(s.switches) = t.switches /\ (s.production <=> t.production)
          /\ t.switches > 0 => s.words = s.switches[t.switches] + t.words
          /\ t.missed <=> Missed(s.switches)
      BY <1>2 DEF Agrees
    <2>3. Scored(s, l) = StockScore(s, l)
      BY <1>2 DEF Scored
    <2>4. CASE l = "switch"
      <3>1. s.production
        BY <2>2, <2>4 DEF CanHappen
      <3>2. /\ Scored(s, l).switches = Append(s.switches, s.words) /\ Scored(s, l).words = s.words
            /\ Scored(s, l).production /\ Scored(s, l) \in Scores
        <4>1. /\ StockScore(s, l) \in Scores
              /\ StockScore(s, l).production <=> (s.production \/ l = "pdx")
              /\ StockScore(s, l).words = s.words + (IF l \in {"word", "clip"} THEN 1 ELSE 0)
              /\ StockScore(s, l).switches =
                   IF l = "switch" /\ s.production THEN Append(s.switches, s.words) ELSE s.switches
          BY StockFacts
        <4>2. StockScore(s, l).words = s.words
          BY <2>1, <2>4, <4>1
        <4>3. StockScore(s, l).switches = Append(s.switches, s.words)
          BY <2>4, <3>1, <4>1
        <4>4. StockScore(s, l).production
          BY <3>1, <4>1
        <4>5. QED
          BY <2>3, <4>1, <4>2, <4>3, <4>4, Zenon
      <3>3. /\ Happen(t, l).switches = t.switches + 1 /\ Happen(t, l).words = 0 /\ Happen(t, l).production
            /\ Happen(t, l).missed <=> (t.missed \/ (t.switches > 1 /\ t.words # Period))
        BY <2>1, <2>2, <2>4, <3>1, HappenFacts
      <3>4. Happen(t, l).missed <=> Missed(Scored(s, l).switches)
        <4>1. Len(s.switches) > 0 => s.words = s.switches[Len(s.switches)] + t.words
          BY <2>2
        <4>2. Missed(Append(s.switches, s.words)) <=>
                (Missed(s.switches) \/ (Len(s.switches) > 1 /\ t.words # Period))
          BY <2>1, <4>1, MissedAppend
        <4>3. QED
          BY <2>2, <3>2, <3>3, <4>2
      <3>5. /\ Len(Scored(s, l).switches) = t.switches + 1
            /\ Scored(s, l).switches[t.switches + 1] = s.words
        BY <2>1, <2>2, <3>2
      <3>6. QED
        BY <1>2, <2>1, <3>2, <3>3, <3>4, <3>5 DEF Agrees
    <2>5. CASE l # "switch"
      <3>1. /\ Scored(s, l).switches = s.switches /\ Scored(s, l) \in Scores
            /\ Scored(s, l).words = s.words + (IF l \in {"word", "clip"} THEN 1 ELSE 0)
            /\ Scored(s, l).production <=> (s.production \/ l = "pdx")
        BY <2>3, <2>5, StockFacts
      <3>2. /\ Happen(t, l).switches = t.switches
            /\ Happen(t, l).words = t.words + (IF l \in {"word", "clip"} THEN 1 ELSE 0)
            /\ Happen(t, l).production <=> (t.production \/ l = "pdx")
            /\ Happen(t, l).missed <=> t.missed
        BY <2>1, <2>5, HappenFacts
      <3>3. t.switches > 0 => s.switches[t.switches] \in Nat
        BY <2>1, <2>2
      <3>4. /\ Scored(s, l).production <=> Happen(t, l).production
            /\ Len(Scored(s, l).switches) = Happen(t, l).switches
            /\ Happen(t, l).missed <=> Missed(Scored(s, l).switches)
        BY <2>2, <3>1, <3>2
      <3>5. Happen(t, l).switches > 0 =>
              Scored(s, l).words = Scored(s, l).switches[Happen(t, l).switches] + Happen(t, l).words
        <4>1. Happen(t, l).words - t.words = Scored(s, l).words - s.words
          BY <2>1, <3>1, <3>2
        <4>2. Happen(t, l).words \in Int /\ Scored(s, l).words \in Int
          BY <2>1, <3>1, <3>2
        <4>3. SUFFICES ASSUME t.switches > 0
                       PROVE  Scored(s, l).words = s.switches[t.switches] + Happen(t, l).words
          BY <3>1, <3>2
        <4>4. s.words = s.switches[t.switches] + t.words
          BY <2>2, <4>3
        <4>5. PICK q \in Nat : q = s.switches[t.switches]
          BY <3>3, <4>3
        <4>6. \A a, b \in Int : b - t.words = a - s.words /\ s.words = q + t.words => a = q + b
          BY <2>1
        <4>7. Scored(s, l).words = q + Happen(t, l).words
          BY <4>1, <4>2, <4>4, <4>5, <4>6
        <4>8. QED
          BY <4>5, <4>7, Zenon
      <3>6. QED
        BY <1>2, <3>1, <3>4, <3>5, Zenon DEF Agrees
    <2>6. QED
      BY <2>4, <2>5
  <1>3. QED
    BY <1>1, <1>2
-----------------------------------------------------------------------------
(* The steps.                                                              *)

LEMMA GateStart == GateInit => GateInv
  <1> SUFFICES ASSUME GateInit PROVE GateInv
    OBVIOUS
  <1> DEFINE h == [i \in 0 .. 0 |-> score]
  <1>1. score \in Scores /\ truth \in Truths /\ pipe \in Seq(Lines) /\ Len(pipe) = 0
    BY DEF GateInit, NoScore, NoTruth, Scores, Truths
  <1>2. h \in [0 .. Len(pipe) -> Scores] /\ h[0] = score /\ h[Len(pipe)] = score
    BY <1>1
  <1>3. Agrees(score, truth)
    BY DEF GateInit, NoScore, NoTruth, Agrees, Missed
  <1>4. CatchesUp
    <2>1. \A i \in 1 .. Len(pipe) : h[i] = Scored(h[i - 1], pipe[i])
      BY <1>1
    <2>2. \A i \in 0 .. Len(pipe) : Lags(h[i], truth)
      BY <1>1 DEF GateInit, NoScore, NoTruth, Lags
    <2> HIDE DEF h
    <2>3. QED
      BY <1>2, <1>3, <2>1, <2>2 DEF CatchesUp
  <1>5. ErrorAhead
    BY DEF GateInit, NoTruth, ErrorAhead
  <1>6. QED
    BY <1>1, <1>4, <1>5 DEF GateInit, GateInv

\* What the reader has to go on is as it was.
LEMMA GateUnmoved ==
  ASSUME GateInv, UNCHANGED <<gate, pipe, truth, score>>
  PROVE  /\ gate' \in {"batch", "stock"} /\ pipe' \in Seq(Lines) /\ truth' \in Truths
         /\ CatchesUp' /\ ErrorAhead'
  <1>1. gate' = gate /\ pipe' = pipe /\ truth' = truth /\ score' = score
    OBVIOUS
  <1>2. CatchesUp' /\ ErrorAhead'
    BY <1>1 DEF GateInv, CatchesUp, Agrees, Scored, Lags, ErrorAhead
  <1>3. QED
    BY <1>1, <1>2 DEF GateInv

LEMMA EmitKeeps ==
  ASSUME GateInv, NEW l \in Lines, Emit(l)
  PROVE  GateInv'
  <1>1. /\ gate' = gate /\ reader' = reader /\ main' = main /\ proc' = proc /\ score' = score
        /\ proc \in {"running", "terminated"} /\ CanHappen(truth, l)
        /\ pipe' = Append(pipe, l) /\ truth' = Happen(truth, l)
    BY DEF Emit, readerVars, mainVars
  <1>2. /\ gate \in {"batch", "stock"} /\ reader \in {"reading", "eof", "failed"}
        /\ pipe \in Seq(Lines) /\ truth \in Truths /\ reader # "eof"
    BY <1>1 DEF GateInv
  <1>3. PICK h \in [0 .. Len(pipe) -> Scores] :
          /\ h[0] = score
          /\ \A i \in 1 .. Len(pipe) : h[i] = Scored(h[i - 1], pipe[i])
          /\ Agrees(h[Len(pipe)], truth)
          /\ \A i \in 0 .. Len(pipe) : Lags(h[i], truth)
    BY DEF GateInv, CatchesUp
  <1> DEFINE n == Len(pipe)
             new == Scored(h[n], l)
             g == [i \in 0 .. n + 1 |-> IF i <= n THEN h[i] ELSE new]
  <1>4. /\ n \in Nat /\ pipe' \in Seq(Lines) /\ Len(pipe') = n + 1 /\ pipe'[n + 1] = l
        /\ \A i \in 1 .. n : pipe'[i] = pipe[i]
    BY <1>1, <1>2
  <1>5. new \in Scores /\ Agrees(new, truth')
    <2>1. h[n] \in Scores /\ Agrees(h[n], truth)
      BY <1>3, <1>4
    <2>2. QED
      BY <1>1, <1>2, <2>1, LineAgrees
  <1>6. truth' \in Truths
    BY <1>1, <1>2, HappenFacts
  <1> HIDE DEF new, n
  <1>7. g \in [0 .. n + 1 -> Scores]
    BY <1>3, <1>4, <1>5 DEF n
  <1>8. g[0] = score' /\ g[n + 1] = new
    BY <1>1, <1>3, <1>4
  <1>9. \A i \in 1 .. n + 1 : g[i] = Scored(g[i - 1], pipe'[i])
    <2> TAKE i \in 1 .. n + 1
    <2>1. CASE i \in 1 .. n
      <3>1. g[i] = h[i] /\ g[i - 1] = h[i - 1]
        BY <1>4, <2>1
      <3>2. h[i] = Scored(h[i - 1], pipe[i])
        BY <1>3, <2>1 DEF n
      <3>3. QED
        BY <1>4, <2>1, <3>1, <3>2
    <2>2. CASE i = n + 1
      <3>1. g[i] = new /\ g[i - 1] = h[n]
        BY <1>4, <2>2
      <3>2. QED
        BY <1>4, <2>2, <3>1 DEF new
    <2>3. QED
      BY <1>4, <2>1, <2>2
  <1>10. \A i \in 0 .. n + 1 : Lags(g[i], truth')
    <2>1. /\ truth.refills <= truth'.refills /\ truth'.refills \in Nat /\ truth.refills \in Nat
          /\ truth.unlock => truth'.unlock
      <3>1. /\ truth'.refills = truth.refills + (IF l = "refill" THEN 1 ELSE 0)
            /\ truth'.unlock <=> (truth.unlock \/ l = "unlock")
        BY <1>1, <1>2, HappenFacts
      <3>2. truth.refills \in Nat
        BY <1>2 DEF Truths
      <3>3. QED
        BY <3>1, <3>2
    <2>2. Lags(new, truth')
      BY <1>5, <2>1 DEF Agrees, Lags
    <2>3. ASSUME NEW i \in 0 .. n PROVE Lags(h[i], truth')
      <3>1. Lags(h[i], truth) /\ h[i].refills \in Nat
        BY <1>3, <2>3 DEF n, Scores
      <3>2. QED
        BY <2>1, <3>1 DEF Lags
    <2>4. \A i \in 0 .. n + 1 : g[i] = IF i <= n THEN h[i] ELSE new
      OBVIOUS
    <2> HIDE DEF g
    <2>5. QED
      BY <1>4, <2>2, <2>3, <2>4
  <1>11. PICK k \in [0 .. Len(pipe') -> Scores] :
           /\ k[0] = score' /\ Agrees(k[Len(pipe')], truth')
           /\ \A i \in 1 .. Len(pipe') : k[i] = Scored(k[i - 1], pipe'[i])
           /\ \A i \in 0 .. Len(pipe') : Lags(k[i], truth')
    <2> HIDE DEF g
    <2>1. QED
      BY <1>4, <1>5, <1>7, <1>8, <1>9, <1>10
  <1>12. CatchesUp'
    BY <1>1, <1>11 DEF CatchesUp, Agrees, Scored, Lags
  <1>13. ErrorAhead'
    <2> SUFFICES ASSUME gate' = "batch", truth'.error
                 PROVE  score'.error \/ \E i \in 1 .. Len(pipe') : pipe'[i] = "error"
      BY DEF ErrorAhead
    <2>1. CASE l = "error"
      BY <1>4, <2>1
    <2>2. CASE l # "error"
      <3>1. score.error \/ \E i \in 1 .. n : pipe[i] = "error"
        BY <1>1, <1>2, <2>2, HappenFacts DEF GateInv, ErrorAhead, n
      <3>2. QED
        BY <1>1, <1>4, <3>1
    <2>3. QED
      BY <2>1, <2>2
  <1>14. QED
    BY <1>1, <1>2, <1>4, <1>6, <1>12, <1>13 DEF GateInv

\* The score is the first of those CatchesUp speaks of.
LEMMA ScoreType ==
  ASSUME GateInv
  PROVE  /\ score \in Scores
         /\ pipe = <<>> => Agrees(score, truth)
         /\ Lags(score, truth)
  <1>1. PICK h \in [0 .. Len(pipe) -> Scores] :
          /\ h[0] = score /\ Agrees(h[Len(pipe)], truth)
          /\ \A i \in 0 .. Len(pipe) : Lags(h[i], truth)
    BY DEF GateInv, CatchesUp
  <1>2. Len(pipe) \in Nat /\ (pipe = <<>> => Len(pipe) = 0)
    BY DEF GateInv
  <1>3. h[0] \in Scores /\ Lags(h[0], truth)
    BY <1>1, <1>2
  <1>4. QED
    BY <1>1, <1>2, <1>3

LEMMA ReadKeeps ==
  ASSUME GateInv, ReadLine
  PROVE  GateInv'
  <1>1. /\ gate' = gate /\ reader' = reader /\ main' = main /\ proc' = proc /\ truth' = truth
        /\ reader = "reading" /\ pipe # <<>> /\ pipe' = Tail(pipe)
        /\ score' = Scored(score, Head(pipe))
    BY DEF ReadLine, hatariVars, mainVars, Scored
  <1>2. /\ gate \in {"batch", "stock"} /\ pipe \in Seq(Lines) /\ truth \in Truths
        /\ proc = "none" => main \in {"start", "exit"}
    BY DEF GateInv
  <1>3. PICK h \in [0 .. Len(pipe) -> Scores] :
          /\ h[0] = score
          /\ \A i \in 1 .. Len(pipe) : h[i] = Scored(h[i - 1], pipe[i])
          /\ Agrees(h[Len(pipe)], truth)
          /\ \A i \in 0 .. Len(pipe) : Lags(h[i], truth)
    BY DEF GateInv, CatchesUp
  <1> DEFINE n == Len(pipe)
             g == [i \in 0 .. n - 1 |-> h[i + 1]]
  <1>4. /\ n \in Nat /\ n > 0 /\ pipe' \in Seq(Lines) /\ Len(pipe') = n - 1 /\ Head(pipe) = pipe[1]
        /\ \A i \in 1 .. n - 1 : pipe'[i] = pipe[i + 1]
    BY <1>1, <1>2
  <1> HIDE DEF n
  <1>5. g \in [0 .. n - 1 -> Scores]
    BY <1>3, <1>4 DEF n
  <1>6. g[0] = score' /\ g[n - 1] = h[n]
    <2>1. h[1] = Scored(h[0], pipe[1])
      <3>1. 1 \in 1 .. Len(pipe) /\ 1 - 1 = 0
        BY <1>4 DEF n
      <3>2. QED
        BY <1>3, <3>1
    <2>2. QED
      BY <1>1, <1>3, <1>4, <2>1
  <1>7. \A i \in 1 .. n - 1 : g[i] = Scored(g[i - 1], pipe'[i])
    <2> TAKE i \in 1 .. n - 1
    <2>1. g[i] = h[i + 1] /\ g[i - 1] = h[i]
      BY <1>4
    <2>2. i + 1 \in 1 .. Len(pipe) /\ (i + 1) - 1 = i
      BY <1>4 DEF n
    <2>3. h[i + 1] = Scored(h[i], pipe[i + 1])
      BY <1>3, <2>2
    <2>4. QED
      BY <1>4, <2>1, <2>3
  <1>8. PICK k \in [0 .. Len(pipe') -> Scores] :
          /\ k[0] = score' /\ Agrees(k[Len(pipe')], truth')
          /\ \A i \in 1 .. Len(pipe') : k[i] = Scored(k[i - 1], pipe'[i])
          /\ \A i \in 0 .. Len(pipe') : Lags(k[i], truth')
    <2>1. Agrees(g[n - 1], truth')
      BY <1>1, <1>3, <1>6 DEF n
    <2>2. ASSUME NEW i \in 0 .. n - 1 PROVE Lags(g[i], truth')
      <3>1. i + 1 \in 0 .. Len(pipe) /\ g[i] = h[i + 1]
        BY <1>4, <2>2 DEF n
      <3>2. QED
        BY <1>1, <1>3, <3>1
    <2> HIDE DEF g
    <2>3. QED
      BY <1>4, <1>5, <1>6, <1>7, <2>1, <2>2
  <1>9. CatchesUp'
    BY <1>1, <1>8 DEF CatchesUp, Agrees, Scored, Lags
  <1>10. ErrorAhead'
    <2> SUFFICES ASSUME gate = "batch", truth.error
                 PROVE  score'.error \/ \E i \in 1 .. n - 1 : pipe'[i] = "error"
      BY <1>1, <1>4 DEF ErrorAhead
    <2>1. score'.error <=> (score.error \/ pipe[1] = "error")
      <3>1. score' = BatchScore(score, pipe[1])
        BY <1>1, <1>4 DEF Scored
      <3>2. score \in Scores /\ pipe[1] \in Lines
        BY <1>2, <1>4, ScoreType DEF n
      <3>3. QED
        BY <3>1, <3>2, BatchFacts
    <2>2. score.error \/ \E i \in 1 .. n : pipe[i] = "error"
      BY DEF GateInv, ErrorAhead, n
    <2>3. ASSUME NEW i \in 1 .. n, pipe[i] = "error", i # 1
          PROVE  \E j \in 1 .. n - 1 : pipe'[j] = "error"
      <3>1. i - 1 \in 1 .. n - 1 /\ pipe'[i - 1] = pipe[i]
        BY <1>4, <2>3
      <3>2. QED
        BY <2>3, <3>1
    <2>4. QED
      BY <2>1, <2>2, <2>3
  <1>11. QED
    BY <1>1, <1>2, <1>4, <1>9, <1>10 DEF GateInv

\* A new process, a new scorer, an empty pipe.
LEMMA StartKeeps ==
  ASSUME GateInv, Start
  PROVE  GateInv'
  <1>1. /\ gate' = gate /\ gate \in {"batch", "stock"} /\ proc' = "running" /\ truth' = NoTruth
        /\ pipe' = <<>> /\ score' = NoScore /\ reader' = "reading"
    BY DEF Start, GateInv
  <1> DEFINE g == [i \in 0 .. 0 |-> NoScore]
  <1>2. NoScore \in Scores /\ NoTruth \in Truths /\ pipe' \in Seq(Lines) /\ Len(pipe') = 0
    BY <1>1 DEF NoScore, NoTruth, Scores, Truths
  <1>3. Agrees(NoScore, NoTruth)
    BY DEF NoScore, NoTruth, Agrees, Missed
  <1>4. PICK k \in [0 .. Len(pipe') -> Scores] :
          /\ k[0] = score' /\ Agrees(k[Len(pipe')], truth')
          /\ \A i \in 1 .. Len(pipe') : k[i] = Scored(k[i - 1], pipe'[i])
          /\ \A i \in 0 .. Len(pipe') : Lags(k[i], truth')
    <2>1. g \in [0 .. 0 -> Scores] /\ g[0] = NoScore
      BY <1>2
    <2>2. \A i \in 1 .. 0 : g[i] = Scored(g[i - 1], pipe'[i])
      OBVIOUS
    <2>3. Lags(NoScore, NoTruth)
      BY DEF NoScore, NoTruth, Lags
    <2> HIDE DEF g
    <2>4. QED
      BY <1>1, <1>2, <1>3, <2>1, <2>2, <2>3
  <1>5. CatchesUp'
    BY <1>1, <1>4 DEF CatchesUp, Agrees, Scored, Lags
  <1>6. ErrorAhead'
    BY <1>1 DEF NoTruth, ErrorAhead
  <1>7. QED
    BY <1>1, <1>2, <1>5, <1>6 DEF GateInv

LEMMA GateStep ==
  ASSUME GateInv, [GateNext]_gateVars
  PROVE  GateInv'
  <1> USE DEF GateInv
  <1>1. CASE UNCHANGED gateVars
    BY <1>1, GateUnmoved DEF gateVars, hatariVars, readerVars, mainVars
  <1>2. CASE Hatari
    <2>1. ASSUME NEW l \in Lines, Emit(l) PROVE GateInv'
      BY <2>1, EmitKeeps
    <2>2. CASE Die
      BY <2>2, GateUnmoved DEF Die, readerVars, mainVars
    <2>3. QED
      BY <1>2, <2>1, <2>2 DEF Hatari, Lines
  <1>3. CASE Reader
    <2>1. CASE ReadLine
      BY <2>1, ReadKeeps
    <2>2. CASE ReadEnd
      BY <2>2, GateUnmoved DEF ReadEnd, hatariVars, mainVars
    <2>3. QED
      BY <1>3, <2>1, <2>2 DEF Reader
  <1>4. CASE Main
    <2> USE DEF Go, Leave, hatariVars, readerVars
    <2>1. CASE NotReady \/ BadSong
      BY <2>1, GateUnmoved DEF NotReady, BadSong
    <2>2. CASE Start
      BY <2>2, StartKeeps
    <2>3. CASE PollExited \/ WaitReturns \/ ReapBatch \/ ReapStock
      BY <2>3, GateUnmoved DEF PollExited, WaitReturns, ReapBatch, ReapStock
    <2>4. ASSUME NEW late \in BOOLEAN, PollExpires(late) PROVE GateInv'
      BY <2>4, GateUnmoved DEF PollExpires, Signal
    <2>5. CASE WaitExpires
      BY <2>5, GateUnmoved DEF WaitExpires, Signal
    <2>6. CASE BatchVerdict \/ NextSong \/ BatchExit \/ StockVerdict
      BY <2>6, GateUnmoved DEF BatchVerdict, NextSong, BatchExit, StockVerdict
    <2>7. QED
      BY <1>4, <2>1, <2>2, <2>3, <2>4, <2>5, <2>6 DEF Main
  <1>5. QED
    BY <1>1, <1>2, <1>3, <1>4 DEF GateNext

\* Whatever the scorer's lag, the lines between it and the player make up
\* exactly the difference (the reader threads of both gates).
THEOREM ScoreCatchesUp == GateSpec => []GateInv
  <1>1. GateInv /\ [GateNext]_gateVars => GateInv'
    BY GateStep
  <1>2. QED
    BY GateStart, <1>1, PTL DEF GateSpec
-----------------------------------------------------------------------------
(* The verdicts.                                                           *)

\* The score a song passes with is behind what happened, or level with it.
LEMMA BatchSound ==
  ASSUME GateInv, BatchVerdict, reasons' = {}
  PROVE  /\ truth.unlock /\ truth.refills >= MinRefills
         /\ truth.error => \E i \in DOMAIN pipe : pipe[i] = "error"
  <1>1. gate = "batch" /\ BatchReasons = {}
    BY DEF BatchVerdict
  <1>2. Lags(score, truth) /\ score \in Scores /\ truth \in Truths
    BY ScoreType DEF GateInv
  <1>3. ~score.error /\ score.unlock /\ ~(score.refills < MinRefills)
    BY <1>1 DEF BatchReasons, Reason
  <1>4. MinRefills \in Nat /\ score.refills \in Nat /\ truth.refills \in Nat
    BY <1>2, GateAssumption DEF Scores, Truths
  <1>5. truth.unlock /\ truth.refills >= MinRefills
    BY <1>1, <1>2, <1>3, <1>4 DEF Lags
  <1>6. truth.error => \E i \in DOMAIN pipe : pipe[i] = "error"
    BY <1>1, <1>3 DEF GateInv, ErrorAhead
  <1>7. QED
    BY <1>5, <1>6

\* The stock gate passes when no interval of the switches but the first is
\* other than a period, in a score read to its end.
LEMMA StockSound ==
  ASSUME GateInv, StockVerdict, exit' = 0
  PROVE  truth.production /\ ~truth.missed /\ truth.switches >= MinSwitches
  <1>1. gate = "stock" /\ StockReasons = {}
    BY DEF StockVerdict, Leave
  <1>2. /\ reader # "reading" /\ reader # "failed" /\ score.production
        /\ ~(Len(score.switches) < MinSwitches)
        /\ ~(\E i \in 2 .. Len(Intervals) : Intervals[i] # Period)
    BY <1>1 DEF StockReasons, Reason
  <1>3. Agrees(score, truth) /\ score \in Scores /\ truth \in Truths
    BY <1>2, ScoreType DEF GateInv
  <1>4. MinSwitches \in Nat /\ Len(score.switches) \in Nat
    BY <1>3, GateAssumption DEF Scores
  <1>5. ~Missed(score.switches)
    <2>1. \A i \in 2 .. Len(score.switches) - 1 :
            i \in 2 .. Len(Intervals) /\ Intervals[i] = score.switches[i + 1] - score.switches[i]
      BY <1>4 DEF Intervals
    <2>2. QED
      BY <1>2, <2>1 DEF Missed
  <1>6. QED
    BY <1>1, <1>2, <1>3, <1>4, <1>5 DEF Agrees

\* A verdict is the step that leaves "join".
LEMMA VerdictStep ==
  ASSUME [GateNext]_gateVars, main = "join", main' # "join"
  PROVE  (BatchVerdict \/ StockVerdict) /\ UNCHANGED gate
  <1> USE DEF Go, Leave, mainVars
  <1>1. ~UNCHANGED gateVars /\ ~Hatari /\ ~Reader
    BY DEF gateVars, Hatari, Emit, Die, Reader, ReadLine, ReadEnd
  <1>2. Main
    BY <1>1 DEF GateNext
  <1>3. QED
    BY <1>2 DEF Main, NotReady, BadSong, Start, PollExited, PollExpires, WaitReturns, WaitExpires,
                ReapBatch, ReapStock, BatchVerdict, NextSong, BatchExit, StockVerdict

\* What a gate lets pass has happened, for every number of songs and whatever
\* the timers did: with any lag of the batch's scorer the song was unlocked
\* after its refills, and an error it passes over is unread
\* (endurance_batch.py:145-163); a stock run lost no boundary and handed off
\* often enough (stock_audio_timing.py:159-221).
THEOREM VerdictsSound == GateSpec => GateSound
  <1> DEFINE Sound ==
        main = "join" /\ main' # "join" =>
          /\ gate = "batch" /\ reasons' = {} =>
               /\ truth.unlock /\ truth.refills >= MinRefills
               /\ truth.error => \E i \in DOMAIN pipe : pipe[i] = "error"
          /\ gate = "stock" /\ exit' = 0 =>
               truth.production /\ ~truth.missed /\ truth.switches >= MinSwitches
  <1>1. GateInv /\ [GateNext]_gateVars => Sound
    <2> SUFFICES ASSUME GateInv, [GateNext]_gateVars, main = "join", main' # "join"
                 PROVE  Sound
      OBVIOUS
    <2>1. CASE BatchVerdict
      BY <2>1, BatchSound DEF BatchVerdict
    <2>2. CASE StockVerdict
      BY <2>2, StockSound DEF StockVerdict
    <2>3. QED
      BY <2>1, <2>2, VerdictStep
  <1>2. GateSpec => [][Sound]_gateVars
    BY <1>1, ScoreCatchesUp, PTL DEF GateSpec
  <1>3. QED
    BY <1>2 DEF GateSound
=============================================================================
