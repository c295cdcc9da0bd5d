---------------------------- MODULE StreamProfile ----------------------------
(***************************************************************************)
(* The two probes that measure production playback, profile_dsp_live.py    *)
(* and profile_dsp_payloads.py, over the stream they watch.  Each arms the *)
(* emulator's profiler at a hit of one breakpoint and saves it at later    *)
(* hits of the same one; each divides what it saved by the number of times *)
(* another label was entered.  Of a profile only that count is modelled,   *)
(* next to what it is taken for: the buffer handoffs the window spans.     *)
(*                                                                         *)
(* The song plays freely: nothing aligns the window with the refills.      *)
(***************************************************************************)
EXTENDS DspStream

CONSTANTS
  Skip,      \* --skip: hits let pass before the profiler is armed
  Periods    \* --periods

ASSUME ProfileAssumption == Skip \in Nat \ {0} /\ Periods \in Nat \ {0}

VARIABLES
  tool,   \* the probe that runs
  left,   \* hits until the breakpoint's script runs
  live,   \* the counters run since dp on or the last dp save, 0 when off
  shots   \* the profiles saved

profileVars == <<tool, left, live, shots>>

Off == [payloads |-> 0, handoffs |-> 0, on |-> FALSE]
Cleared == [payloads |-> 0, handoffs |-> 0, on |-> TRUE]

\* The program reaches label command_rt_refill_at_boundary; it enters the
\* commit of a payload; it has handed a buffer over.
AtBoundary == at = "wait" /\ at' = "catch"
ReceiveEntered == at = "receive" /\ at' # "receive"
OwnedEntered == at = "commit" /\ at' # "commit"
HandedOver == at = "switch" /\ at' # "switch"

\* Hits from one script to the next, and the profiles a run saves.  The
\* counter of a breakpoint set by a script includes the hit that ran it.
Span == IF tool = "live" THEN Periods + 1 ELSE 2
Wanted == IF tool = "live" THEN 1 ELSE Periods + 1

\* start.ini, then arm.ini: dp on, and the first breakpoint of the window
Arm ==
  /\ ~live.on /\ shots = <<>>
  /\ live' = Cleared
  /\ left' = Span - 1
  /\ UNCHANGED shots

\* end.ini, or s<n>.ini: dp save, which clears the counters, and dp off or
\* the next breakpoint
Save ==
  /\ live.on
  /\ shots' = Append(shots, live)
  /\ IF Len(shots) + 1 < Wanted THEN live' = Cleared /\ left' = Span - 1
                                ELSE live' = Off /\ left' = 0

Breakpoint ==
  \/ left > 1 /\ left' = left - 1 /\ UNCHANGED <<live, shots>>
  \/ left = 1 /\ (Arm \/ Save)
  \/ left = 0 /\ UNCHANGED <<left, live, shots>>

Count ==
  /\ live' = IF ~live.on THEN live
             ELSE [live EXCEPT !.payloads = @ + (IF OwnedEntered THEN 1 ELSE 0),
                               !.handoffs = @ + (IF HandedOver THEN 1 ELSE 0)]
  /\ UNCHANGED <<left, shots>>

Probe ==
  /\ IF AtBoundary THEN Breakpoint ELSE Count
  /\ UNCHANGED tool

ProfileInit ==
  /\ StreamInit
  /\ tool \in {"live", "payloads"}
  /\ left = Skip
  /\ live = Off
  /\ shots = <<>>

ProfileNext == StreamNext /\ Probe

ProfileSpec ==
  /\ ProfileInit /\ [][ProfileNext]_<<streamVars, profileVars>>
  /\ WF_streamVars(Program) /\ WF_streamVars(SsiWord) /\ WF_streamVars(Transfer)
-----------------------------------------------------------------------------
(* Properties.                                                             *)

\* Whatever handoffs a receive that straddled the boundary took away from the
\* breakpoint, a saved window renders as many payloads as it hands over
\* buffers, and at least as many as it was asked for: dividing by the payloads
\* (profile_dsp_live.py:175-176, 211) gives the cost of a period
\* (profile_dsp_live.py:25-30).
WindowsNormalized ==
  \A i \in 1 .. Len(shots) :
    /\ shots[i].payloads = shots[i].handoffs
    /\ shots[i].handoffs >= IF tool = "live" THEN Periods ELSE 1
=============================================================================
