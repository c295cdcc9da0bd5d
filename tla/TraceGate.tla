----------------------------- MODULE TraceGate -----------------------------
(***************************************************************************)
(* The gates that score the trace of a player running under Hatari:        *)
(* tools/endurance_batch.py, one song after the other, and                 *)
(* tools/stock_audio_timing.py, the cadence of the SSI.  Each starts       *)
(* Hatari, scores its output in a thread of its own, watches the clock,    *)
(* ends the process and turns the scores into a verdict.                   *)
(***************************************************************************)
EXTENDS Integers, Sequences

CONSTANTS
  Songs,        \* bound: songs of the corpus
  MinRefills,   \* MIN_REFILLS of the batch; the stock gate takes MinSwitches
  MinSwitches,  \* --min-switches
  MaxClipped,   \* --max-clipped-words
  Period,       \* WORDS_PER_PERIOD, 1024
  Most,         \* bound: handoffs, and refills, of a run
  PipeLines     \* bound: lines in the pipe

ASSUME GateAssumption ==
  /\ {Songs, MinRefills, MinSwitches, Most, PipeLines, Period} \subseteq Nat \ {0}
  /\ MaxClipped \in Nat

VARIABLES
  gate,     \* "batch" or "stock"
  proc,     \* Hatari: none, running, terminated, killed, or dead with its
  status,   \* exit status
  pipe,     \* lines written and not read
  truth,    \* what the player has really done, as far as the pipe has it
  score,    \* the TraceScorer's fields
  reader,   \* its thread: reading, eof, failed
  main,     \* the location of the main thread
  timedOut, \* timed_out
  reasons,  \* why the song, or the gate, failed
  results,  \* the verdicts of the batch
  exit      \* the exit status, -1 before

hatariVars == <<proc, status, truth>>
readerVars == <<score, reader>>
mainVars == <<main, timedOut, reasons, results, exit>>
gateVars == <<gate, hatariVars, pipe, readerVars, mainVars>>
-----------------------------------------------------------------------------
(* Hatari and the player.  A line is one that a pattern of the scorers     *)
(* picks out: "refill" is the host's refill command, "few" and "many" its  *)
(* next word, a count below or above the burst that once overflowed (any   *)
(* command is above), "error" the DSP's error reply, "word" and "clip"     *)
(* words of the SSI, "switch" a handoff of its buffers.                    *)

NoTruth == [production |-> FALSE, unlock |-> FALSE, error |-> FALSE, refills |-> 0,
            open |-> FALSE, refused |-> FALSE, switches |-> 0, words |-> 0, clipped |-> 0,
            missed |-> FALSE]

CanHappen(t, l) ==
  CASE l = "pdx"    -> gate = "stock" /\ ~t.production
    [] l = "refill" -> t.refills < Most /\ ~t.open /\ ~t.refused
    [] l = "few"    -> gate = "stock" /\ t.open
    [] l = "many"   -> gate = "stock" /\ (t.open \/ t.refused)
    [] l = "error"  -> ~t.error
    [] l = "word"   -> gate = "stock" /\ t.words <= Period
    [] l = "clip"   -> gate = "stock" /\ t.words <= Period /\ t.clipped <= MaxClipped
    [] l = "switch" -> t.production /\ t.switches < Most
    [] l = "unlock" -> gate = "batch" /\ ~t.unlock

\* The refill ends with its word, or with the error that refuses it.  missed:
\* some handoff but the first two did not come a period after the last one.
Happen(t, l) ==
  CASE l = "pdx"    -> [t EXCEPT !.production = TRUE]
    [] l = "refill" -> [t EXCEPT !.refills = @ + 1, !.open = gate = "stock"]
    [] l \in {"few", "many"} -> [t EXCEPT !.open = FALSE, !.refused = FALSE]
    [] l = "error"  -> [t EXCEPT !.error = gate = "batch" \/ t.production,
                                 !.open = FALSE, !.refused = t.open]
    [] l = "word"   -> [t EXCEPT !.words = @ + 1]
    [] l = "clip"   -> [t EXCEPT !.words = @ + 1, !.clipped = @ + 1]
    [] l = "switch" -> [t EXCEPT !.switches = @ + 1, !.words = 0,
                                 !.missed = @ \/ (t.switches > 1 /\ t.words # Period)]
    [] l = "unlock" -> [t EXCEPT !.unlock = TRUE]

Emit(l) ==
  /\ proc \in {"running", "terminated"} /\ Len(pipe) < PipeLines
  /\ CanHappen(truth, l)
  /\ pipe' = Append(pipe, l)
  /\ truth' = Happen(truth, l)
  /\ UNCHANGED <<gate, proc, status, readerVars, mainVars>>

\* The VBL cap, a crash, or the signal.
Die ==
  /\ proc \in {"running", "terminated", "killed"}
  /\ proc' = "dead"
  /\ status' \in IF proc = "running" THEN {0, 1} ELSE {1}
  /\ UNCHANGED <<gate, pipe, truth, readerVars, mainVars>>

Hatari ==
  \/ \E l \in {"pdx", "refill", "few", "many", "error", "word", "clip", "switch", "unlock"} : Emit(l)
  \/ Die
-----------------------------------------------------------------------------
(* TraceScorer.run, of the batch and of the stock gate.                    *)

NoScore == [refills |-> 0, unlock |-> FALSE, error |-> FALSE, production |-> FALSE,
            words |-> 0, clipped |-> 0, switches |-> <<>>, awaiting |-> FALSE, burst |-> FALSE]

BatchScore(s, l) ==
  CASE l = "refill" -> [s EXCEPT !.refills = @ + 1]
    [] l = "unlock" -> [s EXCEPT !.unlock = TRUE]
    [] l = "error"  -> [s EXCEPT !.error = TRUE]
    [] OTHER -> s

\* Once the PDX is loaded; switches is switch_words, burst whether the largest
\* of batch_counts reaches --min-batch-words.  refill_words and
\* switch_refills only feed the text of a reason.
StockScore(s, l) ==
  CASE l = "pdx" -> [s EXCEPT !.production = TRUE]
    [] l = "word" -> [s EXCEPT !.words = @ + 1]
    [] l = "clip" -> [s EXCEPT !.words = @ + 1, !.clipped = IF s.production THEN @ + 1 ELSE @]
    [] l = "switch" /\ s.production -> [s EXCEPT !.switches = Append(@, s.words)]
    [] l = "refill" /\ s.production -> [s EXCEPT !.refills = @ + 1, !.awaiting = TRUE]
    [] l \in {"few", "many"} /\ s.production /\ s.awaiting ->
         [s EXCEPT !.burst = @ \/ l = "many", !.awaiting = FALSE]
    [] l = "error" /\ s.production /\ ~s.awaiting -> [s EXCEPT !.error = TRUE]
    [] OTHER -> s

ReadLine ==
  /\ reader = "reading" /\ pipe # <<>>
  /\ pipe' = Tail(pipe)
  /\ score' = IF gate = "batch" THEN BatchScore(score, Head(pipe)) ELSE StockScore(score, Head(pipe))
  /\ UNCHANGED <<gate, hatariVars, reader, mainVars>>

ReadEnd ==
  /\ reader = "reading"
  /\ \/ pipe = <<>> /\ proc = "dead" /\ reader' = "eof"
     \/ gate = "stock" /\ reader' = "failed"   \* OSError
  /\ UNCHANGED <<gate, hatariVars, pipe, score, mainVars>>

Reader == ReadLine \/ ReadEnd
-----------------------------------------------------------------------------
(* The main thread.  A timer may fire at any time once it runs.            *)

Go(from, to) == main = from /\ main' = to
Leave(from, s) == Go(from, "exit") /\ exit' = s

\* No Hatari, player or corpus: before anything is started
NotReady ==
  /\ results = <<>> /\ Leave("start", 1)
  /\ UNCHANGED <<gate, hatariVars, pipe, readerVars, timedOut, reasons, results>>

\* A song that is missing, whose header read_pdx_name cannot read, or whose
\* PDX is missing ends the batch, whatever went before.
BadSong ==
  /\ gate = "batch" /\ Leave("start", 1)
  /\ UNCHANGED <<gate, hatariVars, pipe, readerVars, timedOut, reasons, results>>

Start ==
  /\ Go("start", IF gate = "batch" THEN "poll" ELSE "wait")
  /\ proc' = "running" /\ status' = 0 /\ truth' = NoTruth
  /\ pipe' = <<>>
  /\ score' = NoScore /\ reader' = "reading"
  /\ timedOut' = FALSE /\ reasons' = {}
  /\ UNCHANGED <<gate, results, exit>>

Signal(s) == proc' = IF proc = "dead" THEN proc ELSE s

\* run_song: the loop that polls, every half second
PollExited ==
  /\ Go("poll", "wait") /\ proc = "dead"
  /\ UNCHANGED <<gate, hatariVars, pipe, readerVars, timedOut, reasons, results, exit>>

\* UNLOCK_GRACE after the unlock, or WALL_TIMEOUT; the process may have ended
\* since it was polled
PollExpires(late) ==
  /\ Go("poll", "wait") /\ (late \/ score.unlock)
  /\ Signal("terminated")
  /\ timedOut' = late
  /\ UNCHANGED <<gate, status, truth, pipe, readerVars, reasons, results, exit>>

\* proc.wait(timeout): 30 seconds, or --wall-timeout
WaitReturns ==
  /\ Go("wait", "join") /\ proc = "dead"
  /\ UNCHANGED <<gate, hatariVars, pipe, readerVars, timedOut, reasons, results, exit>>

TerminateAgain ==
  /\ Go("wait", "reap")
  /\ Signal("terminated")
  /\ UNCHANGED <<gate, status, truth, pipe, readerVars, timedOut, reasons, results, exit>>
WaitExpires ==
  /\ Go("wait", "reap")
  /\ Signal("killed")
  /\ UNCHANGED <<gate, status, truth, pipe, readerVars, timedOut, reasons, results, exit>>

ReapBatch ==
  /\ gate = "batch" /\ Go("reap", "join") /\ proc = "dead"
  /\ UNCHANGED <<gate, hatariVars, pipe, readerVars, timedOut, reasons, results, exit>>
ReapStock ==
  /\ gate = "stock" /\ Leave("reap", 1) /\ proc = "dead"
  /\ UNCHANGED <<gate, hatariVars, pipe, readerVars, timedOut, reasons, results>>

Reason(r, condition) == IF condition THEN {r} ELSE {}

BatchReasons ==
  Reason("protocol-error", score.error)
  \cup Reason("timeout", ~score.unlock /\ timedOut)
  \cup Reason("no unlock", ~score.unlock /\ ~timedOut)
  \cup Reason("refills", score.refills < MinRefills)

\* scorer.join(timeout=30), and the verdict; the batch does not ask whether
\* the thread has ended
BatchVerdict ==
  /\ gate = "batch" /\ Go("join", "scored")
  /\ reasons' = BatchReasons
  /\ results' = Append(results, IF BatchReasons = {} THEN "PASS" ELSE "FAIL")
  /\ UNCHANGED <<gate, hatariVars, pipe, readerVars, timedOut, exit>>

NextSong ==
  /\ gate = "batch" /\ Len(results) < Songs /\ Go("scored", "start")
  /\ UNCHANGED <<gate, hatariVars, pipe, readerVars, timedOut, reasons, results, exit>>

BatchExit ==
  /\ gate = "batch" /\ Len(results) = Songs
  /\ Leave("scored", IF \E i \in DOMAIN results : results[i] = "FAIL" THEN 1 ELSE 0)
  /\ UNCHANGED <<gate, hatariVars, pipe, readerVars, timedOut, reasons, results>>

Intervals ==
  [i \in 1 .. Len(score.switches) - 1 |-> score.switches[i + 1] - score.switches[i]]

NoAliveCheck ==
  Reason("status", status # 0)
  \cup Reason("reader failed", reader = "failed")
  \cup Reason("no PDX", ~score.production)
  \cup Reason("protocol error", score.error)
  \cup Reason("clipped", score.clipped > MaxClipped)
  \cup Reason("handoffs", Len(score.switches) < MinSwitches)
  \cup Reason("cold start", Intervals # <<>> /\ Intervals[1] \notin {Period, Period + 1})
  \cup Reason("missed", \E i \in 2 .. Len(Intervals) : Intervals[i] # Period)
  \cup Reason("refills", score.refills < MinSwitches)
  \cup Reason("bursts", ~score.burst)
StockReasons ==
  Reason("status", status # 0)
  \cup Reason("no EOF", reader = "reading")
  \cup Reason("reader failed", reader = "failed")
  \cup Reason("no PDX", ~score.production)
  \cup Reason("protocol error", score.error)
  \cup Reason("clipped", score.clipped > MaxClipped)
  \cup Reason("handoffs", Len(score.switches) < MinSwitches)
  \cup Reason("cold start", Intervals # <<>> /\ Intervals[1] \notin {Period, Period + 1})
  \cup Reason("missed", \E i \in 2 .. Len(Intervals) : Intervals[i] # Period)
  \cup Reason("refills", score.refills < MinSwitches)
  \cup Reason("bursts", ~score.burst)

StockVerdict ==
  /\ gate = "stock"
  /\ reasons' = StockReasons
  /\ Leave("join", IF StockReasons = {} THEN 0 ELSE 1)
  /\ UNCHANGED <<gate, hatariVars, pipe, readerVars, timedOut, results>>

Main ==
  \/ NotReady \/ BadSong \/ Start
  \/ PollExited \/ (\E late \in BOOLEAN : PollExpires(late))
  \/ WaitReturns \/ WaitExpires \/ ReapBatch \/ ReapStock
  \/ BatchVerdict \/ NextSong \/ BatchExit \/ StockVerdict
-----------------------------------------------------------------------------
GateInit ==
  /\ gate \in {"batch", "stock"}
  /\ proc = "none" /\ status = 0 /\ truth = NoTruth
  /\ pipe = <<>>
  /\ score = NoScore /\ reader = "eof"
  /\ main = "start" /\ timedOut = FALSE /\ reasons = {} /\ results = <<>> /\ exit = -1

GateNext == Hatari \/ Reader \/ Main

GateSpec == GateInit /\ [][GateNext]_gateVars

\* The main thread runs and its timers run out; a process that is killed ends.
\* Nothing is asked of Hatari, the player or the scorer.
GateFairness ==
  WF_gateVars(Main) /\ WF_gateVars(proc = "killed" /\ Die)
GateLive == GateSpec /\ GateFairness
-----------------------------------------------------------------------------
(* Properties.                                                             *)

\* A song that passes was unlocked after enough refills, whatever the scorer's
\* lag and whichever of the timers ended it, and an error that it had is in a
\* line the scorer has not come to (endurance_batch.py:145-163): in none, when
\* the scorer has ended, which the batch does not ask.  A stock run that passes lost no boundary of its steady
\* state and handed off often enough (stock_audio_timing.py:159-221).
GateSound ==
  [][main = "join" /\ main' # "join" =>
       /\ gate = "batch" /\ reasons' = {} =>
            /\ truth.unlock /\ truth.refills >= MinRefills
            /\ truth.error => \E i \in DOMAIN pipe : pipe[i] = "error"
       /\ gate = "stock" /\ exit' = 0 =>
            truth.production /\ ~truth.missed /\ truth.switches >= MinSwitches]_gateVars

\* The gate ends, also when Hatari hangs, ignores the signal, or blocks on a
\* pipe nobody reads.
GateEnds == <>(exit # -1)

\* stock_audio_timing.py:170-171: a protocol error fails the gate.
ErrorsFail == gate = "stock" /\ exit = 0 => ~truth.error
=============================================================================
