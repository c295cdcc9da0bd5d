-------------------------- MODULE MdxTracksProofs --------------------------
(***************************************************************************)
(* Proofs about MdxTracks, for every number of tracks, command budget and  *)
(* image: what sounds belongs to a track that plays, what is held without  *)
(* a gate has a reason, and no loop is counted early.                      *)
(***************************************************************************)
EXTENDS MdxTracks, TLAPS

\* The place in the tick stays within the tracks.
LEMMA Successor ==
  ASSUME NEW d \in Tracks PROVE (d + 1) % TrackCount \in Tracks
  <1>1. CASE d + 1 < TrackCount
    BY <1>1, TracksAssumption DEF Tracks
  <1>2. CASE d + 1 = TrackCount
    BY <1>2, TracksAssumption DEF Tracks
  <1>3. QED
    BY <1>1, <1>2, TracksAssumption DEF Tracks

\* A gate runs for a tick at least.
LEMMA GatePositive ==
  ASSUME NEW e \in Encoded, NEW length \in Lengths PROVE Gate(e, length) \in Nat \ {0}
  <1>1. e \in Nat /\ length \in Nat
    BY TracksAssumption
  <1>2. e * length \in Nat
    BY <1>1
  <1>3. (e * length) \div 8 \in Nat
    BY <1>2
  <1>4. QED
    BY <1>1, <1>3 DEF Gate

\* A tick location is left for the next track, or for the fade.
LEMMA NextTrackPlace ==
  ASSUME NEW d \in Tracks, d7 = d, NextTrack
  PROVE  at' \in {"track", "fade"} /\ d7' \in Tracks /\ d6' \in 0 .. Budget - 1
  BY Successor, TracksAssumption DEF NextTrack

LEMMA TracksStart == TracksInit => TracksInv
  <1> SUFFICES ASSUME TracksInit PROVE TracksInv
    OBVIOUS
  <1> USE TracksAssumption DEF TracksInit
  <1>1. TracksTypeOK
    BY DEF TracksTypeOK, TrackType, Tracks
  <1>2. KeysBelongToTracks /\ KeyHasGate /\ TracksAux
    BY DEF KeysBelongToTracks, KeyHasGate, TracksAux, MaxLead, Tracks
  <1>3. QED
    BY <1>1, <1>2 DEF TracksInv
-----------------------------------------------------------------------------
(* The steps inside a track.                                               *)

FadeType == [active : BOOLEAN, counter : Nat, wait : Nat, offset : 0 .. Silence]
Places == {"idle", "track", "parse", "service", "fade"}

\* What a step that gives the track at hand, which plays, the record r has to
\* see to: the key and the bit in the mask follow the record, a key without a
\* gate is in loose ...
KeyFollows(r) ==
  /\ at # "idle" /\ This.active
  /\ mask' = IF r.active THEN mask ELSE mask \ {d7}
  /\ r.sounding => r.active
  /\ keyed' \subseteq keyed \cup {d7} /\ (d7 \in keyed' => r.sounding)
  /\ loose' \subseteq Tracks /\ loose \ {d7} \subseteq loose'
  /\ r.sounding => r.gate > 0 \/ d7 \in loose'

\* ... a count of loops leaves nobody behind, and the tick stays with a track
\* only while that plays.
LoopsKept(m) ==
  /\ playing' = playing
  /\ sync' \subseteq Tracks /\ looped' \subseteq Tracks /\ fade' \in FadeType
  /\ lead' \in [Tracks -> 0 .. MaxLead]
  /\ \A t \in looped' \cap m : lead'[t] >= 1
PlaceKept(active) ==
  /\ at' \in Places /\ d7' \in Tracks /\ d6' \in 0 .. Budget - 1
  /\ at' \in {"parse", "service"} => d7' = d7 /\ active

LEMMA RecordStep ==
  ASSUME TracksInv, NEW r \in TrackType, Set(r),
         KeyFollows(r), LoopsKept(mask'), PlaceKept(r.active)
  PROVE  TracksInv'
  <1> USE DEF TracksInv, KeyFollows, LoopsKept, PlaceKept, This
  <1>1. d7 \in Tracks /\ track \in [Tracks -> TrackType]
    BY DEF TracksTypeOK
  <1>2. /\ track' \in [Tracks -> TrackType] /\ track'[d7] = r
        /\ \A t \in Tracks \ {d7} : track'[t] = track[t]
    BY <1>1 DEF Set
  <1>3. mask' = {t \in Tracks : track'[t].active}
    BY <1>1, <1>2 DEF TracksTypeOK
  <1>4. keyed' \subseteq Tracks
    BY <1>1 DEF TracksTypeOK
  <1>5. TracksTypeOK'
    BY <1>2, <1>3, <1>4 DEF TracksTypeOK, FadeType, Places
  <1>6. playing
    BY DEF TracksAux
  <1>7. KeysBelongToTracks'
    <2>1. \A t \in keyed' : track'[t].sounding
      BY <1>2, <1>4 DEF KeysBelongToTracks
    <2>2. \A t \in Tracks : track'[t].sounding => track'[t].active
      BY <1>2 DEF KeysBelongToTracks
    <2>3. QED
      BY <1>6, <2>1, <2>2 DEF KeysBelongToTracks
  <1>8. KeyHasGate'
    BY <1>2 DEF KeyHasGate
  <1>9. TracksAux'
    BY <1>2, <1>6 DEF TracksAux
  <1>10. QED
    BY <1>5, <1>7, <1>8, <1>9

\* The invariant as the steps use it, while a track plays.
LEMMA AtHand ==
  ASSUME TracksInv
  PROVE  /\ d7 \in Tracks /\ This \in TrackType /\ d6 \in 0 .. Budget - 1
         /\ mask \subseteq Tracks /\ sync \subseteq Tracks /\ looped \subseteq Tracks
         /\ keyed \subseteq Tracks /\ loose \subseteq Tracks /\ fade \in FadeType
         /\ lead \in [Tracks -> 0 .. MaxLead] /\ \A t \in looped \cap mask : lead[t] >= 1
         /\ d7 \in keyed => This.sounding
         /\ This.sounding => This.active /\ (This.gate > 0 \/ d7 \in loose)
         /\ at \in {"parse", "service"} => This.active
         /\ This.active <=> d7 \in mask
  BY DEF TracksInv, TracksTypeOK, KeysBelongToTracks, KeyHasGate, TracksAux, This, FadeType

LEMMA TickSteps ==
  ASSUME TracksInv, TickBegins \/ SkipTrack
  PROVE  TracksInv'
  <1> USE TracksAssumption DEF TracksInv, tickVars, keyVars, loopVars, Here
  <1>1. CASE TickBegins
    BY <1>1 DEF TickBegins, TracksTypeOK, KeysBelongToTracks, KeyHasGate, TracksAux
  <1>2. CASE SkipTrack
    BY <1>2, NextTrackPlace DEF SkipTrack, TracksTypeOK, KeysBelongToTracks, KeyHasGate, TracksAux
  <1>3. QED
    BY <1>1, <1>2

LEMMA WakeStep == ASSUME TracksInv, Wake PROVE TracksInv'
  <1> DEFINE r == [This EXCEPT !.parked = FALSE, !.legato = FALSE]
  <1>1. /\ r \in TrackType
        /\ r.active = This.active /\ r.sounding = This.sounding /\ r.gate = This.gate
    BY AtHand DEF TrackType
  <1>2. /\ at = "track" /\ This.active /\ sync' = sync \ {d7} /\ Set(r)
        /\ at' = "parse" /\ d6' = Budget - 1 /\ d7' = d7
        /\ UNCHANGED <<playing, mask, looped, lead, fade, keyed, loose>>
    BY DEF Wake, Here, Goto, loopVars, keyVars
  <1> HIDE DEF r
  <1>3. KeyFollows(r)
    BY <1>1, <1>2, AtHand DEF KeyFollows
  <1>4. LoopsKept(mask')
    BY <1>2, AtHand DEF LoopsKept
  <1>5. PlaceKept(r.active)
    BY <1>1, <1>2, AtHand, TracksAssumption DEF PlaceKept, Places
  <1>6. QED
    BY <1>1, <1>2, <1>3, <1>4, <1>5, RecordStep

LEMMA CountDownStep == ASSUME TracksInv, CountDown PROVE TracksInv'
  <1> DEFINE gate == IF This.gate > 0 THEN This.gate - 1 ELSE 0
             ends == This.gate = 1 /\ ~This.legato
             wait == IF This.wait > 0 THEN This.wait - 1 ELSE 0
             parse == wait = 0
             r == [This EXCEPT !.gate = gate, !.wait = wait,
                               !.sounding = This.sounding /\ ~ends,
                               !.legato = This.legato /\ ~parse]
  <1>1. /\ gate \in Nat /\ wait \in Nat /\ parse \in BOOLEAN /\ ends \in BOOLEAN
        /\ This.sounding \in BOOLEAN /\ This.legato \in BOOLEAN
    BY AtHand DEF TrackType
  <1>2. /\ at = "track" /\ This.active /\ Set(r)
        /\ IF ends THEN Released
           ELSE /\ loose' = IF This.gate = 1 /\ This.sounding THEN loose \cup {d7} ELSE loose
                /\ UNCHANGED keyed
        /\ IF parse THEN Goto("parse", Budget - 1) ELSE Goto("service", 0)
        /\ UNCHANGED <<playing, mask, looped, lead, fade, sync>>
    BY DEF CountDown, Here, loopVars
  <1>3. This.gate \in Nat /\ (gate > 0 \/ This.gate \in {0, 1})
    BY AtHand DEF TrackType
  <1> HIDE DEF gate, ends, wait, parse
  <1>4. /\ r \in TrackType /\ r.active = This.active
        /\ r.sounding = (This.sounding /\ ~ends) /\ r.gate = gate
    BY <1>1, AtHand DEF TrackType
  <1> HIDE DEF r
  <1>5. r.sounding => r.gate > 0 \/ d7 \in loose'
    <2>1. CASE ends
      BY <2>1, <1>4
    <2>2. CASE ~ends
      <3>1. CASE This.gate = 1 /\ This.sounding
        BY <3>1, <2>2, <1>2
      <3>2. CASE This.gate = 0 /\ This.sounding
        BY <3>2, <2>2, <1>2, AtHand
      <3>3. QED
        BY <3>1, <3>2, <1>3, <1>4
    <2>3. QED
      BY <2>1, <2>2
  <1>6. KeyFollows(r)
    BY <1>2, <1>4, <1>5, AtHand DEF KeyFollows, Released
  <1>7. LoopsKept(mask')
    BY <1>2, AtHand DEF LoopsKept
  <1>8. PlaceKept(r.active)
    BY <1>2, <1>4, AtHand, TracksAssumption DEF Goto, PlaceKept, Places
  <1>9. QED
    BY <1>2, <1>4, <1>6, <1>7, <1>8, RecordStep
-----------------------------------------------------------------------------
(* The commands.                                                           *)

\* What a command leaves for the next one, or for nobody.
LEMMA RetireStep ==
  ASSUME TracksInv, Here("parse") \/ Here("service"), Retire, LoopsKept(mask)
  PROVE  TracksInv'
  <1> DEFINE r == [This EXCEPT !.wait = 0, !.gate = 0, !.active = FALSE, !.sounding = FALSE]
  <1>1. r \in TrackType /\ ~r.active /\ ~r.sounding
    BY AtHand DEF TrackType
  <1>2. Set(r) /\ mask' = mask \ {d7} /\ Released /\ NextTrack
    BY DEF Retire
  <1> HIDE DEF r
  <1>3. KeyFollows(r)
    BY <1>1, <1>2, AtHand DEF Here, KeyFollows, Released
  <1>4. LoopsKept(mask')
    BY <1>2 DEF LoopsKept
  <1>5. PlaceKept(r.active)
    BY <1>2, AtHand, NextTrackPlace DEF PlaceKept, Places
  <1>6. QED
    BY <1>1, <1>2, <1>3, <1>4, <1>5, RecordStep

LEMMA MoreStep ==
  ASSUME TracksInv, Here("parse"), More, LoopsKept(mask)
  PROVE  TracksInv'
  <1>1. CASE d6 = 0
    BY <1>1, RetireStep DEF More
  <1>2. CASE d6 # 0
    <2> USE DEF LoopsKept
    <2>1. UNCHANGED <<track, mask, keyed, loose, d7>> /\ at' = "parse" /\ d6' = d6 - 1
      BY <1>2 DEF More, Goto, keyVars
    <2>2. d6' \in 0 .. Budget - 1
      BY <1>2, <2>1, AtHand, TracksAssumption
    <2>3. TracksTypeOK'
      BY <2>1, <2>2 DEF TracksInv, TracksTypeOK, FadeType
    <2>4. KeysBelongToTracks' /\ KeyHasGate'
      BY <2>1 DEF TracksInv, KeysBelongToTracks, KeyHasGate
    <2>5. TracksAux'
      BY <2>1 DEF TracksInv, TracksAux, Here
    <2>6. QED
      BY <2>3, <2>4, <2>5 DEF TracksInv
  <1>3. QED
    BY <1>1, <1>2

LEMMA RestStep == ASSUME TracksInv, Rest PROVE TracksInv'
  <1>1. PICK e \in Encoded : Set([This EXCEPT !.wait = e + 1, !.gate = 0])
    BY DEF Rest
  <1> DEFINE r == [This EXCEPT !.wait = e + 1, !.gate = 0]
  <1>2. e + 1 \in Nat
    BY TracksAssumption
  <1>3. /\ r \in TrackType /\ Set(r)
        /\ r.active = This.active /\ r.sounding = This.sounding /\ r.gate = 0
    BY <1>1, <1>2, AtHand DEF TrackType
  <1>4. /\ at = "parse" /\ d7 \in Tracks
        /\ loose' = IF This.sounding THEN loose \cup {d7} ELSE loose
        /\ at' = "service" /\ d6' = 0 /\ d7' = d7
        /\ UNCHANGED <<playing, mask, looped, lead, fade, sync, keyed>>
    BY DEF Rest, Reads, Here, Goto, loopVars
  <1> HIDE DEF r
  <1>5. KeyFollows(r)
    BY <1>3, <1>4, AtHand DEF KeyFollows
  <1>6. LoopsKept(mask')
    BY <1>4, AtHand DEF LoopsKept
  <1>7. PlaceKept(r.active)
    BY <1>3, <1>4, AtHand, TracksAssumption DEF PlaceKept, Places
  <1>8. QED
    BY <1>3, <1>5, <1>6, <1>7, RecordStep
LEMMA NoteStep == ASSUME TracksInv, Note PROVE TracksInv'
  <1>1. PICK e \in Encoded, length \in Lengths :
          LET timed == [This EXCEPT !.wait = e + 1, !.gate = Gate(e, length)]
          IN \/ Set(timed)
             \/ \E delay \in Delays : Set([timed EXCEPT !.armed = TRUE, !.count = delay])
    BY DEF Note
  <1> DEFINE gate == Gate(e, length)
             timed == [This EXCEPT !.wait = e + 1, !.gate = gate]
  <1>2. e + 1 \in Nat /\ gate \in Nat \ {0} /\ Delays \subseteq Nat
    BY GatePositive, TracksAssumption
  <1>3. \/ Set(timed)
        \/ \E delay \in Delays : Set([timed EXCEPT !.armed = TRUE, !.count = delay])
    BY <1>1
  <1> HIDE DEF gate
  <1>4. /\ timed \in TrackType
        /\ timed.active = This.active /\ timed.sounding = This.sounding /\ timed.gate = gate
    BY <1>2, AtHand DEF TrackType
  <1> HIDE DEF timed
  <1>5. ASSUME NEW delay \in Delays
        PROVE  LET r == [timed EXCEPT !.armed = TRUE, !.count = delay]
               IN /\ r \in TrackType /\ r.active = This.active
                  /\ r.sounding = This.sounding /\ r.gate = gate
    BY <1>2, <1>4 DEF TrackType
  <1>6. PICK r \in TrackType : /\ Set(r) /\ r.active = This.active
                              /\ r.sounding = This.sounding /\ r.gate = gate
    BY <1>3, <1>4, <1>5
  <1>7. /\ at = "parse" /\ d7 \in Tracks /\ loose' = loose \ {d7}
        /\ at' = "service" /\ d6' = 0 /\ d7' = d7
        /\ UNCHANGED <<playing, mask, looped, lead, fade, sync, keyed>>
    BY DEF Note, Reads, Here, Goto, loopVars
  <1>8. KeyFollows(r)
    BY <1>2, <1>6, <1>7, AtHand DEF KeyFollows
  <1>9. LoopsKept(mask')
    BY <1>7, AtHand DEF LoopsKept
  <1>10. PlaceKept(r.active)
    BY <1>6, <1>7, AtHand, TracksAssumption DEF PlaceKept, Places
  <1>11. QED
    BY <1>6, <1>8, <1>9, <1>10, RecordStep

LEMMA LegatoStep == ASSUME TracksInv, Legato PROVE TracksInv'
  <1>1. Here("parse") /\ UNCHANGED <<playing, sync, looped, lead, fade>>
    BY DEF Legato, Reads, loopVars
  <1>2. LoopsKept(mask)
    BY <1>1, AtHand DEF LoopsKept
  <1>3. CASE d6 = 0
    BY <1>1, <1>2, <1>3, RetireStep DEF Legato
  <1>4. CASE d6 # 0
    <2> DEFINE r == [This EXCEPT !.legato = TRUE]
    <2>1. /\ r \in TrackType /\ r.active = This.active
          /\ r.sounding = This.sounding /\ r.gate = This.gate
      BY AtHand DEF TrackType
    <2>2. /\ Set(r) /\ at' = "parse" /\ d6' = d6 - 1 /\ d7' = d7
          /\ UNCHANGED <<mask, keyed, loose>>
      BY <1>4 DEF Legato, Goto, keyVars
    <2> HIDE DEF r
    <2>3. KeyFollows(r)
      BY <1>1, <2>1, <2>2, AtHand DEF KeyFollows, Here
    <2>4. LoopsKept(mask')
      BY <1>2, <2>2 DEF LoopsKept
    <2>5. PlaceKept(r.active)
      BY <1>1, <1>4, <2>1, <2>2, AtHand, TracksAssumption DEF PlaceKept, Places, Here
    <2>6. QED
      BY <2>1, <2>2, <2>3, <2>4, <2>5, RecordStep
  <1>5. QED
    BY <1>3, <1>4

LEMMA SyncSteps == ASSUME TracksInv, SyncSend \/ SyncWait PROVE TracksInv'
  <1>1. Here("parse") /\ UNCHANGED <<playing, looped, lead, fade>>
    BY DEF SyncSend, SyncWait, Reads, loopVars
  <1>2. sync' \subseteq Tracks
    BY AtHand DEF SyncSend, SyncWait
  <1>3. LoopsKept(mask)
    BY <1>1, <1>2, AtHand DEF LoopsKept
  <1>4. CASE More
    BY <1>1, <1>3, <1>4, MoreStep
  <1>5. CASE ~More
    <2> DEFINE r == [This EXCEPT !.parked = TRUE]
    <2>1. /\ r \in TrackType /\ r.active = This.active
          /\ r.sounding = This.sounding /\ r.gate = This.gate
      BY AtHand DEF TrackType
    <2>2. /\ Set(r) /\ at' = "service" /\ d6' = 0 /\ d7' = d7
          /\ UNCHANGED <<mask, keyed, loose>>
      BY <1>5 DEF SyncSend, SyncWait, Goto, keyVars
    <2> HIDE DEF r
    <2>3. KeyFollows(r)
      BY <1>1, <2>1, <2>2, AtHand DEF KeyFollows, Here
    <2>4. LoopsKept(mask')
      BY <1>3, <2>2 DEF LoopsKept
    <2>5. PlaceKept(r.active)
      BY <1>1, <2>1, <2>2, AtHand, TracksAssumption DEF PlaceKept, Places, Here
    <2>6. QED
      BY <2>1, <2>2, <2>3, <2>4, <2>5, RecordStep
  <1>6. QED
    BY <1>4, <1>5

\* Arming the fade keeps how far it has come.
LEMMA ArmedType == ASSUME TracksInv, NEW w \in FadeWaits PROVE Armed(w) \in FadeType
  <1>1. w \in Nat /\ fade.offset \in 0 .. Silence
    BY AtHand, TracksAssumption DEF FadeType
  <1>2. QED
    BY <1>1 DEF Armed, FadeType

\* A loop is counted when every track still playing is a jump ahead of the
\* count.
LEMMA LoopStep == ASSUME TracksInv, Loop PROVE TracksInv'
  <1> DEFINE jumped == looped \cup {d7}
             jumps == [lead EXCEPT ![d7] = Least(@ + 1, MaxLead)]
  <1>1. /\ Here("parse") /\ More /\ UNCHANGED <<playing, sync, fade>>
        /\ IF mask \subseteq jumped
             THEN looped' = {} /\ lead' = [t \in Tracks |-> IF t \in mask THEN jumps[t] - 1 ELSE 0]
             ELSE looped' = jumped /\ lead' = jumps
    BY DEF Loop, Reads
  <1>2. lead[d7] \in 0 .. MaxLead /\ Least(lead[d7] + 1, MaxLead) \in 1 .. MaxLead
    BY AtHand DEF Least, MaxLead
  <1>3. /\ jumps \in [Tracks -> 0 .. MaxLead]
        /\ \A t \in jumped \cap mask : jumps[t] >= 1
    BY <1>2, AtHand
  <1> HIDE DEF jumps
  <1>4. lead' \in [Tracks -> 0 .. MaxLead] /\ looped' \subseteq Tracks
    <2>1. CASE mask \subseteq jumped
      <3>1. \A t \in mask : jumps[t] - 1 \in 0 .. MaxLead
        BY <2>1, <1>3, AtHand DEF MaxLead
      <3>2. QED
        BY <2>1, <3>1, <1>1 DEF MaxLead
    <2>2. CASE ~(mask \subseteq jumped)
      BY <2>2, <1>1, <1>3, AtHand
    <2>3. QED
      BY <2>1, <2>2
  <1>5. \A t \in looped' \cap mask : lead'[t] >= 1
    BY <1>1, <1>3
  <1>6. LoopsKept(mask)
    BY <1>1, <1>4, <1>5, AtHand DEF LoopsKept
  <1>7. QED
    BY <1>1, <1>6, MoreStep

LEMMA PlainSteps == ASSUME TracksInv, FadeCommand \/ Data \/ EndOfTrack PROVE TracksInv'
  <1>1. Here("parse") /\ UNCHANGED <<playing, sync, looped, lead>>
    BY DEF FadeCommand, Data, EndOfTrack, Reads, loopVars
  <1>2. fade' \in FadeType
    BY AtHand, ArmedType DEF FadeCommand, Data, EndOfTrack
  <1>3. LoopsKept(mask)
    BY <1>1, <1>2, AtHand DEF LoopsKept
  <1>4. More \/ Retire
    BY DEF FadeCommand, Data, EndOfTrack
  <1>5. QED
    BY <1>1, <1>3, <1>4, MoreStep, RetireStep

LEMMA ParseSteps == ASSUME TracksInv, Parse PROVE TracksInv'
  BY RestStep, NoteStep, LegatoStep, SyncSteps, LoopStep, PlainSteps DEF Parse
-----------------------------------------------------------------------------
(* The service of a track, the fade, and what happens between ticks.       *)

LEMMA RefreshStep == ASSUME TracksInv, Refresh PROVE TracksInv'
  <1> DEFINE n == IF This.armed THEN This.count - 1 ELSE This.count
             r == [This EXCEPT !.count = n]
  <1>1. /\ Here("service") /\ Set(r) /\ NextTrack /\ (~This.armed \/ This.count > 0)
        /\ UNCHANGED <<playing, mask, sync, looped, lead, fade, keyed, loose>>
    BY DEF Refresh, loopVars, keyVars
  <1>2. n \in Nat
    BY <1>1, AtHand DEF TrackType
  <1> HIDE DEF n
  <1>3. /\ r \in TrackType /\ r.active = This.active
        /\ r.sounding = This.sounding /\ r.gate = This.gate
    BY <1>2, AtHand DEF TrackType
  <1> HIDE DEF r
  <1>4. KeyFollows(r)
    BY <1>1, <1>3, AtHand DEF KeyFollows, Here
  <1>5. LoopsKept(mask')
    BY <1>1, AtHand DEF LoopsKept
  <1>6. PlaceKept(r.active)
    BY <1>1, AtHand, NextTrackPlace DEF PlaceKept, Places
  <1>7. QED
    BY <1>1, <1>3, <1>4, <1>5, <1>6, RecordStep

LEMMA KeyOnStep == ASSUME TracksInv, KeyOn \/ NoVoice PROVE TracksInv'
  <1>1. /\ Here("service") /\ NextTrack
        /\ UNCHANGED <<playing, mask, sync, looped, lead, fade>>
    BY DEF KeyOn, NoVoice, loopVars
  <1>2. PICK r \in TrackType :
          /\ Set(r) /\ r.active = This.active /\ r.gate = This.gate
          /\ r.sounding = (This.sounding \/ KeyOn)
    <2>1. CASE KeyOn
      <3> DEFINE r == [This EXCEPT !.armed = FALSE, !.sounding = TRUE]
      <3>1. r \in TrackType /\ r.active = This.active /\ r.gate = This.gate /\ r.sounding = TRUE
        BY AtHand DEF TrackType
      <3>2. Set(r)
        BY <2>1 DEF KeyOn
      <3> HIDE DEF r
      <3>3. QED
        BY <2>1, <3>1, <3>2
    <2>2. CASE NoVoice /\ ~KeyOn
      <3> DEFINE r == [This EXCEPT !.armed = FALSE]
      <3>1. /\ r \in TrackType /\ r.active = This.active /\ r.gate = This.gate
            /\ r.sounding = This.sounding /\ r.sounding \in BOOLEAN
        BY AtHand DEF TrackType
      <3>2. Set(r)
        BY <2>2 DEF NoVoice
      <3> HIDE DEF r
      <3>3. QED
        BY <2>2, <3>1, <3>2
    <2>3. QED
      BY <2>1, <2>2
  <1>3. KeyFollows(r)
    <2>1. This.gate \in Nat /\ This.active
      BY <1>1, AtHand DEF TrackType, Here
    <2>2. CASE KeyOn
      <3>1. /\ keyed' = keyed \cup {d7}
            /\ loose' = IF This.gate = 0 THEN loose \cup {d7} ELSE loose
        BY <2>2 DEF KeyOn
      <3>2. r.active /\ (This.gate > 0 \/ d7 \in loose')
        BY <1>2, <2>1, <3>1
      <3>3. r.sounding /\ (r.sounding => r.gate > 0 \/ d7 \in loose')
        BY <1>2, <2>2, <3>2
      <3>4. QED
        BY <1>1, <2>1, <3>1, <3>2, <3>3, AtHand DEF KeyFollows, Here
    <2>3. CASE NoVoice /\ ~KeyOn
      <3>1. keyed' \in {keyed, keyed \ {d7}} /\ loose' = loose
        BY <2>3 DEF NoVoice
      <3>2. QED
        BY <1>1, <1>2, <2>1, <2>3, <3>1, AtHand DEF KeyFollows, Here
    <2>4. QED
      BY <2>2, <2>3
  <1>4. LoopsKept(mask')
    BY <1>1, AtHand DEF LoopsKept
  <1>5. PlaceKept(r.active)
    BY <1>1, AtHand, NextTrackPlace DEF PlaceKept, Places
  <1>6. QED
    BY <1>2, <1>3, <1>4, <1>5, RecordStep

LEMMA ServiceSteps == ASSUME TracksInv, Service PROVE TracksInv'
  <1>1. CASE ServiceFails
    <2>1. Here("service") /\ Retire /\ UNCHANGED <<playing, sync, looped, lead, fade>>
      BY <1>1 DEF ServiceFails, loopVars
    <2>2. LoopsKept(mask)
      BY <2>1, AtHand DEF LoopsKept
    <2>3. QED
      BY <2>1, <2>2, RetireStep
  <1>2. QED
    BY <1>1, RefreshStep, KeyOnStep DEF Service

LEMMA FadeSteps == ASSUME TracksInv, NoFade \/ FadeStep PROVE TracksInv'
  <1>1. /\ at = "fade" /\ at' = "idle" /\ playing' = (playing /\ mask # {})
        /\ UNCHANGED <<track, mask, sync, looped, lead, keyed, loose, d7, d6>>
    BY DEF NoFade, FadeStep, EndTick, loopVars, keyVars
  <1>2. fade' \in FadeType
    <2>1. fade.counter \in Nat /\ fade.wait \in Nat /\ fade.offset \in 0 .. Silence
      BY AtHand DEF FadeType
    <2>2. CASE NoFade
      BY <2>1, <2>2, AtHand DEF NoFade, FadeType
    <2>3. CASE FadeStep
      <3>1. fade.offset + 1 \in 0 .. Silence
        BY <2>1, <2>3, TracksAssumption DEF FadeStep
      <3>2. QED
        BY <2>1, <2>3, <3>1, AtHand DEF FadeStep, FadeType
    <2>4. QED
      BY <2>2, <2>3
  <1>3. TracksTypeOK'
    BY <1>1, <1>2 DEF TracksInv, TracksTypeOK, FadeType
  <1>4. KeysBelongToTracks' /\ KeyHasGate'
    BY <1>1 DEF TracksInv, TracksTypeOK, KeysBelongToTracks, KeyHasGate
  <1>5. TracksAux'
    BY <1>1 DEF TracksInv, TracksAux
  <1>6. QED
    BY <1>3, <1>4, <1>5 DEF TracksInv

LEMMA FadeStopStep == ASSUME TracksInv, FadeStop PROVE TracksInv'
  <1>1. /\ at' = "idle" /\ playing' = FALSE /\ mask' = {} /\ keyed' = {} /\ loose' = {}
        /\ track' = [t \in Tracks |-> [track[t] EXCEPT !.active = FALSE, !.sounding = FALSE]]
        /\ UNCHANGED <<sync, looped, lead, d7, d6>>
    BY DEF FadeStop, EndTick, loopVars
  <1>2. ASSUME NEW t \in Tracks
        PROVE  track'[t] \in TrackType /\ ~track'[t].active /\ ~track'[t].sounding
    <2>1. track[t] \in TrackType
      BY DEF TracksInv, TracksTypeOK
    <2>2. track'[t] = [track[t] EXCEPT !.active = FALSE, !.sounding = FALSE]
      BY <1>1
    <2>3. QED
      BY <2>1, <2>2 DEF TrackType
  <1>3. track' \in [Tracks -> TrackType]
    BY <1>1, <1>2
  <1>4. fade' \in FadeType
    <2>1. fade.wait \in Nat /\ Silence \in 0 .. Silence
      BY AtHand, TracksAssumption DEF FadeType
    <2>2. fade' = [fade EXCEPT !.active = FALSE, !.counter = fade.wait, !.offset = Silence]
      BY DEF FadeStop
    <2>3. QED
      BY <2>1, <2>2, AtHand DEF FadeType
  <1>5. TracksTypeOK'
    BY <1>1, <1>2, <1>3, <1>4 DEF TracksInv, TracksTypeOK, FadeType
  <1>6. KeysBelongToTracks' /\ KeyHasGate'
    BY <1>1, <1>2 DEF KeysBelongToTracks, KeyHasGate
  <1>7. TracksAux'
    BY <1>1 DEF TracksInv, TracksAux
  <1>8. QED
    BY <1>5, <1>6, <1>7 DEF TracksInv

LEMMA BetweenTicks == ASSUME TracksInv, SampleEnds \/ FadeOut PROVE TracksInv'
  <1>1. /\ keyed' \subseteq keyed
        /\ UNCHANGED <<playing, track, mask, sync, looped, lead, loose, at, d7, d6>>
    BY DEF SampleEnds, FadeOut, tickVars, loopVars, keyVars
  <1>2. fade' \in FadeType
    BY AtHand, ArmedType DEF SampleEnds, FadeOut
  <1>3. TracksTypeOK'
    BY <1>1, <1>2 DEF TracksInv, TracksTypeOK, FadeType
  <1>4. KeysBelongToTracks' /\ KeyHasGate'
    BY <1>1 DEF TracksInv, KeysBelongToTracks, KeyHasGate
  <1>5. TracksAux'
    BY <1>1 DEF TracksInv, TracksAux
  <1>6. QED
    BY <1>3, <1>4, <1>5 DEF TracksInv

LEMMA TracksStep == TracksInv /\ [TracksNext]_tracksVars => TracksInv'
  <1> SUFFICES ASSUME TracksInv, [TracksNext]_tracksVars PROVE TracksInv'
    OBVIOUS
  <1>1. CASE Tick
    BY <1>1, TickSteps, WakeStep, CountDownStep, ParseSteps, ServiceSteps, FadeSteps, FadeStopStep
       DEF Tick
  <1>2. CASE SampleEnds \/ FadeOut
    BY <1>2, BetweenTicks
  <1>3. CASE UNCHANGED tracksVars
    BY <1>3 DEF tracksVars, tickVars, keyVars, loopVars, TracksInv, TracksTypeOK,
       KeysBelongToTracks, KeyHasGate, TracksAux
  <1>4. QED
    BY <1>1, <1>2, <1>3 DEF TracksNext

\* The strengthened invariant of the executor, for any number of FM and PCM
\* tracks, any command budget and any repertoire of commands.
THEOREM TracksInductive == TracksSpec => []TracksInv
  BY TracksStart, TracksStep, PTL DEF TracksSpec

\* The mask by which the player knows that a song is over is the set of its
\* active tracks, in every song (mdx.s, mdx_track_retire and the fade).
THEOREM TracksTypeCorrect == TracksSpec => []TracksTypeOK
  <1>1. TracksInv => TracksTypeOK
    BY DEF TracksInv
  <1>2. QED
    BY <1>1, TracksInductive, PTL

\* Nothing sounds that no playing track owns, so that no end, error or fade
\* leaves a key on.
THEOREM NoStuckKeys == TracksSpec => []KeysBelongToTracks
  <1>1. TracksInv => KeysBelongToTracks
    BY DEF TracksInv
  <1>2. QED
    BY <1>1, TracksInductive, PTL

\* A key without a gate is held by a slur, a late key-on or a rest, and by
\* nothing else.
THEOREM GatesCutKeys == TracksSpec => []KeyHasGate
  <1>1. TracksInv => KeyHasGate
    BY DEF TracksInv
  <1>2. QED
    BY <1>1, TracksInductive, PTL

\* No loop is counted before every track still playing has jumped: no song
\* is faded early.
THEOREM LoopsNotCutShort == TracksSpec => []NeverCutShort
  <1>1. TracksInv => NeverCutShort
    BY AtHand DEF NeverCutShort, MaxLead
  <1>2. QED
    BY <1>1, TracksInductive, PTL
=============================================================================
