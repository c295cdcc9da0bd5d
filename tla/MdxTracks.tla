------------------------------ MODULE MdxTracks ------------------------------
(***************************************************************************)
(* One performance of the MDX executor, mdx.s: mxdrv_mdx_tick over every   *)
(* track, the commands that decide when notes start and stop and when      *)
(* tracks wait, loop and end, the fade and the end of the song.            *)
(*                                                                         *)
(* The image is arbitrary: a track reads any command of the song's         *)
(* repertoire next.  Registers, pitches and volumes are data: commands     *)
(* that only set those, or move the pointer, are one command, "data".  The *)
(* parameters that F8, F0 and E7 03 set (note length, key-on delay, damp)  *)
(* may be set before any note, so that they are chosen where the note uses *)
(* them.  The DSP acknowledges every register write; pause, stop and calls *)
(* $0a and $0b are left out.                                               *)
(***************************************************************************)
EXTENDS Integers, FiniteSets

CONSTANTS
  TrackCount, FmCount,  \* MDX_TRACK_COUNT and 8: the first tracks are FM
  Budget,               \* MDX_COMMAND_BUDGET
  Silence,              \* $3e, the fade offset at which the song stops
  Repertoires,          \* the sets of commands a song may use
  Encoded,              \* bound: encoded durations, ticks minus one
  Lengths,              \* bound: values of MDX_TRACK_NOTE_LENGTH
  Delays,               \* bound: values of MDX_TRACK_KEYON_DELAY
  FadeWaits             \* bound: values of mxdrv_fade_wait

Commands == {"rest", "note", "legato", "send", "wait", "loop", "fade", "data", "end", "bad"}

ASSUME TracksAssumption ==
  /\ FmCount \in Nat /\ TrackCount \in Nat \ {0} /\ FmCount <= TrackCount
  /\ Budget \in Nat \ {0} /\ Silence \in Nat \ {0}
  /\ Repertoires \subseteq SUBSET Commands
  /\ Encoded \subseteq Nat /\ Lengths \subseteq 0 .. 255
  /\ Delays \subseteq Nat /\ FadeWaits \subseteq 0 .. 255

VARIABLES
  song,      \* the commands of the image
  playing,   \* mxdrv_playing
  track,     \* mxdrv_mdx_tracks
  mask,      \* mxdrv_mdx_active
  sync,      \* mxdrv_mdx_sync_flags: the tracks flagged
  looped,    \* mxdrv_mdx_looped
  fade,      \* mxdrv_fade_active, _counter, _wait, _offset
  at,        \* location in the tick
  d7,        \* the track it has come to
  d6,        \* commands it may still execute
  keyed,     \* what sounds: the chip's keys, the voices of the PDX mixer
  loose,     \* history: keys held with no gate running, and a reason for it
  lead       \* history: loop jumps of each track minus loops counted, up to 2

tickVars == <<at, d7, d6>>
keyVars == <<keyed, loose>>
loopVars == <<looped, lead>>
tracksVars == <<song, playing, track, mask, sync, loopVars, fade, tickVars, keyVars>>

Tracks == 0 .. TrackCount - 1
IsFm(t) == t < FmCount
MaxLead == 2

\* (encoded * length >> 3) + 1, or the whole note with bit 7 set
Gate(encoded, length) ==
  IF length >= 128 THEN encoded + 1 ELSE (encoded * length) \div 8 + 1
-----------------------------------------------------------------------------
(* mxdrv_mdx_timer_service, the tick and its tracks.                       *)

Here(l) == at = l /\ d7 \in Tracks
This == track[d7]
Set(r) == track' = [track EXCEPT ![d7] = r]

\* mdx_stop_voice
Released == keyed' = keyed \ {d7} /\ loose' = loose \ {d7}

\* mdx_tick_next
NextTrack ==
  /\ at' = IF d7 + 1 < TrackCount THEN "track" ELSE "fade"
  /\ d7' = (d7 + 1) % TrackCount
  /\ d6' = 0

Goto(l, budget) == at' = l /\ d6' = budget /\ UNCHANGED d7

TickBegins ==
  /\ at = "idle"
  /\ playing
  /\ at' = "track"
  /\ UNCHANGED <<song, playing, track, mask, sync, loopVars, fade, d7, d6, keyVars>>

SkipTrack ==
  /\ Here("track")
  /\ ~This.active \/ (This.parked /\ d7 \notin sync)
  /\ NextTrack
  /\ UNCHANGED <<song, playing, track, mask, sync, loopVars, fade, keyVars>>

\* A parked track sleeps, its gate with it, until its flag is raised.
WakeStaysParked ==
  /\ Here("track")
  /\ This.active /\ This.parked /\ d7 \in sync
  /\ sync' = sync \ {d7}
  /\ Set([This EXCEPT !.legato = FALSE])
  /\ Goto("parse", Budget - 1)
  /\ UNCHANGED <<song, playing, mask, loopVars, fade, keyVars>>
Wake ==
  /\ Here("track")
  /\ This.active /\ This.parked /\ d7 \in sync
  /\ sync' = sync \ {d7}
  /\ Set([This EXCEPT !.parked = FALSE, !.legato = FALSE])
  /\ Goto("parse", Budget - 1)
  /\ UNCHANGED <<song, playing, mask, loopVars, fade, keyVars>>

\* mdx_tick_gate and mdx_tick_duration
GateOutlivesNote ==
  /\ Here("track")
  /\ This.active /\ ~This.parked
  /\ LET gate == IF This.gate > 0 THEN This.gate - 1 ELSE 0
         ends == This.gate = 1 /\ ~This.legato /\ This.wait > 1
         wait == IF This.wait > 0 THEN This.wait - 1 ELSE 0
         parse == wait = 0
     IN /\ Set([This EXCEPT !.gate = gate, !.wait = wait,
                            !.sounding = This.sounding /\ ~ends,
                            !.legato = This.legato /\ ~parse])
        /\ IF ends THEN Released
           ELSE /\ loose' = IF This.gate = 1 /\ This.legato /\ This.sounding
                              THEN loose \cup {d7} ELSE loose
                /\ UNCHANGED keyed
        /\ IF parse THEN Goto("parse", Budget - 1) ELSE Goto("service", 0)
  /\ UNCHANGED <<song, playing, mask, sync, loopVars, fade>>
CountDown ==
  /\ Here("track")
  /\ This.active /\ ~This.parked
  /\ LET gate == IF This.gate > 0 THEN This.gate - 1 ELSE 0
         ends == This.gate = 1 /\ ~This.legato
         wait == IF This.wait > 0 THEN This.wait - 1 ELSE 0
         parse == wait = 0
     IN /\ Set([This EXCEPT !.gate = gate, !.wait = wait,
                            !.sounding = This.sounding /\ ~ends,
                            !.legato = This.legato /\ ~parse])
        /\ IF ends THEN Released
           ELSE /\ loose' = IF This.gate = 1 /\ This.sounding
                              THEN loose \cup {d7} ELSE loose
                /\ UNCHANGED keyed
        /\ IF parse THEN Goto("parse", Budget - 1) ELSE Goto("service", 0)
  /\ UNCHANGED <<song, playing, mask, sync, loopVars, fade>>
-----------------------------------------------------------------------------
(* mdx_parse_command: rests and notes end the pass, a command goes on.     *)

Reads(c) == Here("parse") /\ c \in song

\* mdx_track_retire
RetireSounding ==
  /\ Set([This EXCEPT !.wait = 0, !.gate = 0, !.active = FALSE])
  /\ mask' = mask \ {d7}
  /\ UNCHANGED keyVars
  /\ NextTrack
RetireKeepsMask ==
  /\ Released
  /\ Set([This EXCEPT !.wait = 0, !.gate = 0, !.active = FALSE, !.sounding = FALSE])
  /\ UNCHANGED mask
  /\ NextTrack
Retire ==
  /\ Released
  /\ Set([This EXCEPT !.wait = 0, !.gate = 0, !.active = FALSE, !.sounding = FALSE])
  /\ mask' = mask \ {d7}
  /\ NextTrack

\* mdx_command_more: one command fewer; a stream of commands only is invalid.
Endless == UNCHANGED <<track, mask, tickVars, keyVars>>
More ==
  IF d6 = 0 THEN Retire
            ELSE Goto("parse", d6 - 1) /\ UNCHANGED <<track, mask, keyVars>>

\* A rest cuts the gate, not the key.
Rest ==
  /\ Reads("rest")
  /\ \E e \in Encoded : Set([This EXCEPT !.wait = e + 1, !.gate = 0])
  /\ loose' = IF This.sounding THEN loose \cup {d7} ELSE loose
  /\ Goto("service", 0)
  /\ UNCHANGED <<song, playing, mask, sync, loopVars, fade, keyed>>

\* A masked channel gets the timing of its notes and no key.
Note ==
  /\ Reads("note")
  /\ \E e \in Encoded, length \in Lengths :
       LET timed == [This EXCEPT !.wait = e + 1, !.gate = Gate(e, length)]
       IN \/ Set(timed)
          \/ \E delay \in Delays : Set([timed EXCEPT !.armed = TRUE, !.count = delay])
  /\ loose' = loose \ {d7}
  /\ Goto("service", 0)
  /\ UNCHANGED <<song, playing, mask, sync, loopVars, fade, keyed>>

Legato ==
  /\ Reads("legato")
  /\ IF d6 = 0 THEN Retire
     ELSE /\ Goto("parse", d6 - 1)
          /\ Set([This EXCEPT !.legato = TRUE])
          /\ UNCHANGED <<mask, keyVars>>
  /\ UNCHANGED <<song, playing, sync, loopVars, fade>>

SyncSend ==
  /\ Reads("send")
  /\ \E t \in Tracks : sync' = sync \cup {t}
  /\ More
  /\ UNCHANGED <<song, playing, loopVars, fade>>

SyncWait ==
  /\ Reads("wait")
  /\ IF d7 \in sync
       THEN sync' = sync \ {d7} /\ More
       ELSE /\ Set([This EXCEPT !.parked = TRUE])
            /\ Goto("service", 0)
            /\ UNCHANGED <<sync, mask, keyVars>>
  /\ UNCHANGED <<song, playing, loopVars, fade>>

\* mdx_command_performance_end with a target: the performance has wrapped when
\* every active track has jumped.
Least(a, b) == IF a < b THEN a ELSE b
LoopForgetsToClear ==
  /\ Reads("loop")
  /\ LET jumped == looped \cup {d7}
         jumps == [lead EXCEPT ![d7] = Least(@ + 1, MaxLead)]
     IN /\ looped' = jumped
        /\ lead' = IF mask \subseteq jumped THEN [t \in Tracks |-> jumps[t] - 1] ELSE jumps
  /\ More
  /\ UNCHANGED <<song, playing, sync, fade>>
Loop ==
  /\ Reads("loop")
  /\ LET jumped == looped \cup {d7}
         jumps == [lead EXCEPT ![d7] = Least(@ + 1, MaxLead)]
     IN IF mask \subseteq jumped
          THEN /\ looped' = {}
               /\ lead' = [t \in Tracks |-> IF t \in mask THEN jumps[t] - 1 ELSE 0]
          ELSE looped' = jumped /\ lead' = jumps
  /\ More
  /\ UNCHANGED <<song, playing, sync, fade>>

\* E7 01 arms the fade, as call $0c does.
Armed(wait) == [active |-> TRUE, counter |-> 0, wait |-> wait, offset |-> fade.offset]
FadeCommand ==
  /\ Reads("fade")
  /\ \E w \in FadeWaits : fade' = Armed(w)
  /\ More
  /\ UNCHANGED <<song, playing, sync, loopVars>>

Data ==
  /\ Reads("data")
  /\ More
  /\ UNCHANGED <<song, playing, sync, loopVars, fade>>

\* The end of the performance, or an invalid or truncated command.
EndOfTrack ==
  /\ Reads("end") \/ Reads("bad")
  /\ Retire
  /\ UNCHANGED <<song, playing, sync, loopVars, fade>>

Parse == Rest \/ Note \/ Legato \/ SyncSend \/ SyncWait \/ Loop \/ FadeCommand \/ Data
         \/ EndOfTrack
-----------------------------------------------------------------------------
(* mdx_tick_service.                                                       *)

\* No key-on is due: the registers are refreshed.
Refresh ==
  /\ Here("service")
  /\ ~This.armed \/ This.count > 0
  /\ Set([This EXCEPT !.count = IF This.armed THEN This.count - 1 ELSE This.count])
  /\ NextTrack
  /\ UNCHANGED <<song, playing, mask, sync, loopVars, fade, keyVars>>

\* The key goes down, or is still down: a slur.  Damp lifts it first.  A PDX
\* voice starts anew each time.
KeyOn ==
  /\ Here("service")
  /\ This.armed /\ This.count = 0
  /\ Set([This EXCEPT !.armed = FALSE, !.sounding = TRUE])
  /\ keyed' = keyed \cup {d7}
  /\ loose' = IF This.gate = 0 THEN loose \cup {d7} ELSE loose
  /\ NextTrack
  /\ UNCHANGED <<song, playing, mask, sync, loopVars, fade>>

\* An empty or missing PDX entry is a silent note, which also cuts the sample
\* before it; one with its pan off leaves that on.
NoVoice ==
  /\ Here("service")
  /\ ~IsFm(d7) /\ This.armed /\ This.count = 0
  /\ Set([This EXCEPT !.armed = FALSE])
  /\ keyed' \in {keyed, keyed \ {d7}}
  /\ NextTrack
  /\ UNCHANGED <<song, playing, mask, sync, loopVars, fade, loose>>

\* mdx_service_invalid: the image has no such FM voice.
ServiceFails ==
  /\ Here("service")
  /\ IsFm(d7) /\ "bad" \in song
  /\ Retire
  /\ UNCHANGED <<song, playing, sync, loopVars, fade>>

Service == Refresh \/ KeyOn \/ NoVoice \/ ServiceFails
-----------------------------------------------------------------------------
(* The fade and the end of the tick.                                       *)

EndTick ==
  /\ at' = "idle"
  /\ playing' = (playing /\ mask' # {})
  /\ UNCHANGED <<d7, d6>>

\* Nothing to fade, or the counter still runs: two counts a tick.
NoFade ==
  /\ at = "fade"
  /\ ~fade.active \/ fade.counter >= 2
  /\ fade' = IF fade.active THEN [fade EXCEPT !.counter = @ - 2] ELSE fade
  /\ UNCHANGED mask
  /\ EndTick
  /\ UNCHANGED <<song, track, sync, loopVars, keyVars>>

FadeStep ==
  /\ at = "fade"
  /\ fade.active /\ fade.counter < 2 /\ fade.offset + 1 < Silence
  /\ fade' = [fade EXCEPT !.counter = fade.wait, !.offset = @ + 1]
  /\ UNCHANGED mask
  /\ EndTick
  /\ UNCHANGED <<song, track, sync, loopVars, keyVars>>

\* Full attenuation: every voice is stopped and every track retired.
FadeKeepsFlag ==
  /\ at = "fade"
  /\ fade.active /\ fade.counter < 2 /\ fade.offset + 1 >= Silence
  /\ fade' = [fade EXCEPT !.counter = fade.wait, !.offset = Silence]
  /\ UNCHANGED <<mask, track, keyVars>>
  /\ EndTick
  /\ UNCHANGED <<song, sync, loopVars>>
FadeStop ==
  /\ at = "fade"
  /\ fade.active /\ fade.counter < 2 /\ fade.offset + 1 >= Silence
  /\ fade' = [fade EXCEPT !.active = FALSE, !.counter = fade.wait, !.offset = Silence]
  /\ track' = [t \in Tracks |-> [track[t] EXCEPT !.active = FALSE, !.sounding = FALSE]]
  /\ mask' = {}
  /\ keyed' = {} /\ loose' = {}
  /\ EndTick
  /\ UNCHANGED <<song, sync, loopVars>>

Tick == TickBegins \/ SkipTrack \/ Wake \/ CountDown \/ Parse \/ Service
        \/ NoFade \/ FadeStep \/ FadeStop
-----------------------------------------------------------------------------
(* Between ticks.                                                          *)

\* The mixer comes to the end of a sample.
SampleEnds ==
  /\ at = "idle"
  /\ \E t \in keyed : ~IsFm(t) /\ keyed' = keyed \ {t}
  /\ UNCHANGED <<song, playing, track, mask, sync, loopVars, fade, tickVars, loose>>

\* Call $0c: the player's loop budget, or a key.
FadeOut ==
  /\ at = "idle" /\ playing
  /\ \E w \in FadeWaits : fade' = Armed(w)
  /\ UNCHANGED <<song, playing, track, mask, sync, loopVars, tickVars, keyVars>>

\* mxdrv_mdx_start has accepted the image.
TracksInit ==
  /\ song \in Repertoires
  /\ playing = TRUE
  /\ track = [t \in Tracks |->
       [active |-> TRUE, sounding |-> FALSE, parked |-> FALSE, armed |-> FALSE,
        legato |-> FALSE, wait |-> 0, gate |-> 0, count |-> 0]]
  /\ mask = Tracks
  /\ sync = {}
  /\ looped = {}
  /\ fade = [active |-> FALSE, counter |-> 0, wait |-> 0, offset |-> 0]
  /\ at = "idle"
  /\ d7 = 0
  /\ d6 = 0
  /\ keyed = {}
  /\ loose = {}
  /\ lead = [t \in Tracks |-> 0]

TracksNext == Tick \/ SampleEnds \/ FadeOut

TracksSpec == TracksInit /\ [][TracksNext]_tracksVars

\* The pump services ticks while the song plays.
TracksLive == TracksSpec /\ WF_tracksVars(Tick)
-----------------------------------------------------------------------------
(* Properties.                                                             *)

TrackType ==
  [active : BOOLEAN, sounding : BOOLEAN, parked : BOOLEAN, armed : BOOLEAN, legato : BOOLEAN,
   wait : Nat, gate : Nat, count : Nat]

\* The mask that is the song's state to the player is the tracks' own.
TracksTypeOK ==
  /\ playing \in BOOLEAN
  /\ track \in [Tracks -> TrackType]
  /\ mask = {t \in Tracks : track[t].active}
  /\ {sync, looped, keyed, loose} \subseteq SUBSET Tracks
  /\ fade \in [active : BOOLEAN, counter : Nat, wait : Nat, offset : 0 .. Silence]
  /\ at \in {"idle", "track", "parse", "service", "fade"}
  /\ d7 \in Tracks /\ d6 \in 0 .. Budget - 1

\* Whatever sounds belongs to a track that is playing and knows it, so that a
\* track that ends, by its own end, an error or the fade, leaves nothing on.
KeysBelongToTracks ==
  /\ \A t \in keyed : track[t].sounding
  /\ \A t \in Tracks : track[t].sounding => track[t].active
  /\ ~playing => keyed = {}

\* A key is held with no gate running only by a slur, by a key-on that came
\* after the gate, or by a rest before it ran out.
KeyHasGate ==
  \A t \in Tracks : track[t].sounding => track[t].gate > 0 \/ t \in loose

\* No loop is counted before every track still playing has looped
\* (mdx.s:989-991): the player never fades a song early.
NeverCutShort == \A t \in mask : lead[t] >= 0

\* The strengthening the four need: the tick is inside a track that plays, a
\* song that is over has no track left, and a track that has looped since the
\* last count is ahead of it.
TracksAux ==
  /\ at \in {"parse", "service"} => track[d7].active
  /\ at # "idle" => playing
  /\ ~playing => mask = {}
  /\ lead \in [Tracks -> 0 .. MaxLead]
  /\ \A t \in looped \cap mask : lead[t] >= 1

TracksInv == TracksTypeOK /\ KeysBelongToTracks /\ KeyHasGate /\ TracksAux

\* A tick ends, whatever the image: 64 commands without a duration retire the
\* track (mdx-ground-truth.md:23-25).
TickEnds == at # "idle" ~> at = "idle"

\* A flag wakes the track that waits for it.
FlaggedWakes ==
  \A t \in Tracks : track[t].parked /\ t \in sync ~> ~track[t].parked \/ ~playing

\* An armed fade ends the song, whatever the song does: also when its tracks
\* all wait for one another, and when song or player arm it anew, again and
\* again (mdx.s:1166-1195).
FadeEnds == fade.active ~> ~playing
=============================================================================
