------------------------------ MODULE DspStream ------------------------------
(***************************************************************************)
(* The real-time stream of ym2151.asm: two period buffers, of which the    *)
(* SSI interrupt transmits one, word by word, round and round, while the   *)
(* DSP program renders the next period into the other and switches at the  *)
(* boundary.  A payload may become resident before the boundary, during    *)
(* the wait for it ("early accept").                                       *)
(*                                                                         *)
(* The host's side is any sequence of refills and writes, one at a time,   *)
(* and a stop.  The words of a payload are one block word, as in HostPort, *)
(* whose DSP is what this program looks like from the host.                *)
(***************************************************************************)
EXTENDS Naturals, Sequences, SequencesExt

CONSTANTS
  Payloads,   \* bound: refills of the session
  Writes,     \* bound: single register writes of the session
  Frames      \* frames of a period, each one block of the renderer

ASSUME StreamAssumption ==
  Payloads \in Nat \ {0} /\ Writes \in Nat /\ Frames \in Nat \ {0, 1}

VARIABLES
  tx, hrx, rx,  \* the host port's registers
  host,         \* what the host is in the middle of
  budget,       \* writes it may still make
  at,           \* location of the DSP program
  word,         \* the word it has read and not answered
  return,       \* where rt5_perform_handoff returns to
  turn,         \* a watching loop has gone round since the last SSI word
  r6,           \* the SSI pointer: the buffer, and the next word in it
  tie,          \* the SSI transmit interrupt is enabled
  active,       \* ssi_active_buffer
  refill,       \* ssi_refill_buffer
  pending,      \* rt5_pending_refill
  output,       \* rt5_pending_output
  switched,     \* rt5_pending_switched
  early,        \* rt5_early_enable
  pcm,          \* the payload resident in the planar PCM
  frame,        \* frames of the period rendered so far
  buffer,       \* the payload each frame of each buffer was rendered from
  out,          \* the SSI word transmitted last: its payload and its place
  accepted,     \* history: what the DSP has acknowledged, in order
  arrived,      \* history: the payloads among it
  applied       \* history: the writes and bursts applied, in order

registers == <<tx, hrx, rx>>
hostVars == <<host, budget>>
flow == <<at, return, turn>>
playVars == <<r6, tie, out, active>>
stageVars == <<refill, pending, output, switched, early>>
dataVars == <<pcm, frame, buffer>>
history == <<accepted, arrived, applied>>
streamVars == <<registers, hostVars, flow, word, playVars, stageVars, dataVars, history>>

\* Where the program looks for the boundary each time round.
Watching == {"wait", "early", "fill", "earlyAck", "waitStop"}

\* What the host sees of the program: a wait with nothing resident listens.
Phase ==
  CASE at \in {"stream", "serve", "waitStop", "halt"} -> "listen"
    [] at \in {"receive", "early", "fill", "earlyAck"} -> "receive"
    [] at = "stopped" -> "stopped"
    [] at = "wait" -> IF early /\ ~pending THEN "listen" ELSE "busy"
    [] at \in {"catch", "complete", "switch"} ->
         IF return \in {"early", "fill", "earlyAck"} THEN "receive"
         ELSE IF return = "halt" \/ (early /\ ~pending) THEN "listen" ELSE "busy"
    [] OTHER -> "busy"

Port == INSTANCE HostPort WITH
  hrx <- IF word.kind = "none" THEN hrx ELSE word,
  dsp <- Phase,
  refused <- {},
  Faults <- FALSE

Word(k, n) == Port!Word(k, n)
NoWord == Port!NoWord
Reply(v, k) == Port!Reply(v, k)
NoReply == Port!NoReply

Other(b) == 1 - b
Words == 2 * Frames
-----------------------------------------------------------------------------
(* The host.                                                               *)

HostSend(w, next) ==
  /\ tx = NoWord
  /\ tx' = w
  /\ host' = next
  /\ UNCHANGED <<hrx, rx, flow, word, playVars, stageVars, dataVars, history>>

\* dsp_rt_submit announces a payload; its block follows the READY answer.
HostRefill ==
  /\ host = "idle" /\ Len(arrived) < Payloads
  /\ HostSend(Word("refill", Len(arrived) + 1), "refill")
  /\ UNCHANGED budget
HostBlock ==
  /\ host = "granted"
  /\ HostSend(Word("block", Len(arrived) + 1), "block")
  /\ UNCHANGED budget
HostWrite ==
  /\ host = "idle" /\ budget > 0
  /\ HostSend(Word("write", 0), "write")
  /\ budget' = budget - 1
HostStop ==
  /\ host = "idle"
  /\ HostSend(Word("stop", 0), "stop")
  /\ UNCHANGED budget

HostRead ==
  /\ rx # NoReply
  /\ rx' = NoReply
  /\ host' = IF rx.val = "ready" THEN "granted" ELSE IF host = "stop" THEN "over" ELSE "idle"
  /\ UNCHANGED <<tx, hrx, budget, flow, word, playVars, stageVars, dataVars, history>>

Transfer ==
  /\ tx # NoWord /\ hrx = NoWord
  /\ hrx' = tx
  /\ tx' = NoWord
  /\ UNCHANGED <<rx, hostVars, flow, word, playVars, stageVars, dataVars, history>>

Host == HostRefill \/ HostBlock \/ HostWrite \/ HostStop \/ HostRead \/ Transfer
-----------------------------------------------------------------------------
(* The SSI transmit interrupt.                                             *)

\* One time round a watching loop is shorter than an SSI word (244 instruction
\* cycles at 32.78 kHz stereo).
SsiWord ==
  /\ tie
  /\ at \in Watching \cup {"catch"} => turn
  /\ out' = [load |-> buffer[r6.buf][r6.pos \div 2], pos |-> r6.pos]
  /\ r6' = [r6 EXCEPT !.pos = (r6.pos + 1) % Words]
  /\ turn' = FALSE
  /\ UNCHANGED <<registers, hostVars, at, return, word, tie, active, stageVars, dataVars, history>>
-----------------------------------------------------------------------------
(* rt5_perform_handoff.                                                    *)

Goto(l) == at' = l /\ UNCHANGED return
Call(ret) == at' = "catch" /\ return' = ret /\ turn' = TRUE

\* The boundary was seen; transmit interrupts are quiesced ...
Quiesce ==
  /\ at = "catch"
  /\ tie' = FALSE
  /\ Goto("complete")
  /\ UNCHANGED <<registers, hostVars, turn, word, r6, out, active, stageVars, dataVars, history>>

\* ... a left sample sent meanwhile gets its right one ...
CompleteFrame ==
  /\ at = "complete"
  /\ IF r6.pos % 2 = 1
       THEN /\ out' = [load |-> buffer[r6.buf][r6.pos \div 2], pos |-> r6.pos]
            /\ r6' = [r6 EXCEPT !.pos = (r6.pos + 1) % Words]
       ELSE UNCHANGED <<out, r6>>
  /\ Goto("switch")
  /\ UNCHANGED <<registers, hostVars, turn, word, tie, active, stageVars, dataVars, history>>

\* ... and the pointer moves to the rendered buffer.  Back in the wait, a
\* resident payload is published and committed; in the receive, the switch is
\* noted.
Switch ==
  /\ at = "switch"
  /\ out' = [load |-> buffer[refill][0], pos |-> 0]
  /\ r6' = [buf |-> refill, pos |-> 1]
  /\ active' = Other(active)
  /\ tie' = TRUE
  /\ turn' = FALSE
  /\ IF return = "tail" /\ pending
       THEN Goto("commit") /\ pending' = FALSE /\ refill' = output /\ UNCHANGED switched
       ELSE /\ Goto(IF return = "tail" THEN "stream" ELSE return)
            /\ switched' = (return \in {"early", "fill", "earlyAck"})
            /\ UNCHANGED <<pending, refill>>
  /\ UNCHANGED <<registers, hostVars, word, output, early, dataVars, history>>

Handoff == Quiesce \/ CompleteFrame \/ Switch
-----------------------------------------------------------------------------
(* ssi_stream_loop and command_refill_realtime_mixed.                      *)

StreamRefill ==
  /\ at = "stream" /\ hrx.kind = "refill" /\ rx = NoReply
  /\ hrx' = NoWord
  /\ rx' = Reply("ready", "refill")
  /\ refill' = Other(active)
  /\ Goto("receive")
  /\ UNCHANGED <<tx, hostVars, turn, word, playVars, pending, output, switched, early, dataVars, history>>

StreamReceive ==
  /\ at = "receive" /\ hrx.kind = "block" /\ rx = NoReply
  /\ hrx' = NoWord
  /\ rx' = Reply("ok", "block")
  /\ pcm' = hrx.load
  /\ accepted' = Append(accepted, hrx)
  /\ arrived' = Append(arrived, hrx.load)
  /\ Goto("commit")
  /\ UNCHANGED <<tx, hostVars, turn, word, playVars, stageVars, frame, buffer, applied>>

StreamTake ==
  /\ at = "stream" /\ hrx.kind \in {"write", "stop"}
  /\ word' = hrx
  /\ hrx' = NoWord
  /\ at' = IF hrx.kind = "write" THEN "serve" ELSE "halt"
  /\ return' = "stream"
  /\ UNCHANGED <<tx, rx, hostVars, turn, playVars, stageVars, dataVars, history>>

\* ssi_stream_write_realtime, for the stream loop and for the wait
ServeWrite ==
  /\ at = "serve" /\ rx = NoReply
  /\ applied' = Append(applied, word)
  /\ accepted' = Append(accepted, word)
  /\ rx' = Reply("ok", "write")
  /\ word' = NoWord
  /\ turn' = FALSE
  /\ Goto(return)
  /\ UNCHANGED <<tx, hrx, hostVars, playVars, stageVars, dataVars, arrived>>

\* command_rt_refill_owned: the burst, then the blocks of the period
Commit ==
  /\ at = "commit"
  /\ applied' = Append(applied, Word("block", pcm))
  /\ frame' = 0
  /\ Goto("render")
  /\ UNCHANGED <<registers, hostVars, turn, word, playVars, stageVars, pcm, buffer, accepted, arrived>>

Render ==
  /\ at = "render"
  /\ buffer' = [buffer EXCEPT ![refill][frame] = pcm]
  /\ frame' = frame + 1
  /\ turn' = FALSE
  /\ Goto(IF frame + 1 < Frames THEN "render" ELSE "wait")
  /\ UNCHANGED <<registers, hostVars, word, playVars, stageVars, pcm, history>>

\* command_stop_audio
Halt ==
  /\ at = "halt" /\ rx = NoReply
  /\ tie' = FALSE
  /\ pending' = FALSE /\ switched' = FALSE /\ early' = FALSE
  /\ rx' = Reply("ok", "stop")
  /\ word' = NoWord
  /\ Goto("stopped")
  /\ UNCHANGED <<tx, hrx, hostVars, turn, r6, out, active, refill, output, dataVars, history>>

Stream == StreamRefill \/ StreamReceive \/ StreamTake \/ ServeWrite \/ Commit \/ Render \/ Halt
-----------------------------------------------------------------------------
(* command_rt_refill_wait_service.                                         *)

\* r6 = x0: the pointer has come back to the base of the active buffer.
AtBase == r6 = [buf |-> active, pos |-> 0]

WaitCatch ==
  /\ at = "wait" /\ AtBase
  /\ Call("tail")
  /\ UNCHANGED <<registers, hostVars, word, playVars, stageVars, dataVars, history>>

\* Commands are taken only without a resident payload, and if opted in.
AlwaysListens == early
Listens == ~pending /\ early

WaitSpin ==
  /\ at = "wait" /\ ~AtBase
  /\ Listens => hrx = NoWord
  /\ ~turn /\ turn' = TRUE
  /\ UNCHANGED <<registers, hostVars, at, return, word, playVars, stageVars, dataVars, history>>

\* command_rt_refill_early: the target is the buffer playing now.
EarlyOther == Other(active)
EarlyTarget == active
WaitRefill ==
  /\ at = "wait" /\ ~AtBase /\ Listens /\ hrx.kind = "refill" /\ rx = NoReply
  /\ hrx' = NoWord
  /\ rx' = Reply("ready", "refill")
  /\ output' = EarlyTarget
  /\ switched' = FALSE
  /\ turn' = TRUE
  /\ Goto("early")
  /\ UNCHANGED <<tx, hostVars, word, playVars, refill, pending, early, dataVars, history>>

StopAtOnce ==
  /\ at = "wait" /\ ~AtBase /\ Listens /\ hrx.kind \in {"write", "stop"}
  /\ word' = hrx
  /\ hrx' = NoWord
  /\ at' = IF hrx.kind = "write" THEN "serve" ELSE "halt"
  /\ return' = "wait"
  /\ turn' = TRUE
  /\ UNCHANGED <<tx, rx, hostVars, playVars, stageVars, dataVars, history>>
WaitTake ==
  /\ at = "wait" /\ ~AtBase /\ Listens /\ hrx.kind \in {"write", "stop"}
  /\ word' = hrx
  /\ hrx' = NoWord
  /\ at' = IF hrx.kind = "write" THEN "serve" ELSE "waitStop"
  /\ return' = "wait"
  /\ turn' = TRUE
  /\ UNCHANGED <<tx, rx, hostVars, playVars, stageVars, dataVars, history>>

\* command_rt_refill_wait_stop: the running period completes first.
WaitStop ==
  /\ at = "waitStop"
  /\ IF AtBase THEN Call("halt")
               ELSE ~turn /\ turn' = TRUE /\ UNCHANGED <<at, return>>
  /\ UNCHANGED <<registers, hostVars, word, playVars, stageVars, dataVars, history>>

Wait == WaitCatch \/ WaitSpin \/ WaitRefill \/ WaitTake \/ WaitStop
-----------------------------------------------------------------------------
(* rt5_receive_runtime_early.                                              *)

\* r6 = y1: the base of the buffer that played when the receive began; once
\* switched, the pointer walks the other buffer.
Passing == r6 = [buf |-> output, pos |-> 0]

\* rt5_early_wait_host: the boundary is tested before the data.
DataFirst ==
  /\ at = "early"
  /\ IF hrx.kind = "block"
       THEN /\ word' = hrx
            /\ hrx' = NoWord
            /\ pcm' = hrx.load
            /\ turn' = TRUE
            /\ Goto("fill")
       ELSE /\ UNCHANGED <<hrx, word, pcm>>
            /\ IF Passing THEN Call("early")
                          ELSE ~turn /\ turn' = TRUE /\ UNCHANGED <<at, return>>
  /\ UNCHANGED <<tx, rx, hostVars, playVars, stageVars, frame, buffer, history>>
DeafToBoundary ==
  /\ at = "early"
  /\ IF hrx.kind = "block"
       THEN /\ word' = hrx
            /\ hrx' = NoWord
            /\ pcm' = hrx.load
            /\ Goto("fill")
       ELSE ~turn /\ UNCHANGED <<hrx, word, pcm, at, return>>
  /\ turn' = TRUE
  /\ UNCHANGED <<tx, rx, hostVars, playVars, stageVars, frame, buffer, history>>
EarlyWait ==
  /\ at = "early"
  /\ IF Passing
       THEN Call("early") /\ UNCHANGED <<hrx, word, pcm>>
       ELSE /\ turn' = TRUE
            /\ IF hrx.kind = "block"
                 THEN /\ word' = hrx
                      /\ hrx' = NoWord
                      /\ pcm' = hrx.load
                      /\ Goto("fill")
                 ELSE ~turn /\ UNCHANGED <<hrx, word, pcm, at, return>>
  /\ UNCHANGED <<tx, rx, hostVars, playVars, stageVars, frame, buffer, history>>

\* rt5_pcm_silent_early: a period without samples is filled in chunks.
EarlyFill ==
  /\ at = "fill"
  /\ IF Passing THEN Call("fill")
     ELSE \/ Goto("earlyAck") /\ turn' = TRUE
          \/ ~turn /\ turn' = TRUE /\ UNCHANGED <<at, return>>
  /\ UNCHANGED <<registers, hostVars, word, playVars, stageVars, dataVars, history>>

\* command_rt_refill_early_ack: resident for the coming boundary, or, when it
\* has passed, committed at once.
EarlyAckCatch ==
  /\ at = "earlyAck" /\ Passing
  /\ Call("earlyAck")
  /\ UNCHANGED <<registers, hostVars, word, playVars, stageVars, dataVars, history>>

EarlyAck ==
  /\ at = "earlyAck" /\ ~Passing /\ rx = NoReply
  /\ rx' = Reply("ok", "block")
  /\ accepted' = Append(accepted, word)
  /\ arrived' = Append(arrived, word.load)
  /\ word' = NoWord
  /\ turn' = TRUE
  /\ IF switched
       THEN switched' = FALSE /\ refill' = output /\ Goto("commit") /\ UNCHANGED pending
       ELSE pending' = TRUE /\ Goto("wait") /\ UNCHANGED <<switched, refill>>
  /\ UNCHANGED <<tx, hrx, hostVars, playVars, output, early, dataVars, applied>>

Early == EarlyWait \/ EarlyFill \/ EarlyAckCatch \/ EarlyAck

Program == Stream \/ Wait \/ Early \/ Handoff

\* command_start_realtime_mixed has rendered the first period, payload 0, and
\* sent its first word.  The conformance programs do not opt in to the early
\* accept.
StreamInit ==
  /\ tx = NoWord /\ hrx = NoWord /\ rx = NoReply
  /\ host = "idle"
  /\ budget = Writes
  /\ at = "stream"
  /\ word = NoWord
  /\ return = "stream"
  /\ turn = FALSE
  /\ r6 = [buf |-> 0, pos |-> 1]
  /\ tie = TRUE
  /\ active = 0
  /\ refill = 0
  /\ pending = FALSE
  /\ output = 0
  /\ switched = FALSE
  /\ early \in BOOLEAN
  /\ pcm = 0
  /\ frame = Frames
  /\ buffer = [b \in 0 .. 1 |-> [f \in 0 .. Frames - 1 |-> 0]]
  /\ out = [load |-> 0, pos |-> 0]
  /\ accepted = <<>>
  /\ arrived = <<>>
  /\ applied = <<>>

StreamNext == Host \/ SsiWord \/ Program

StreamSpec == StreamInit /\ [][StreamNext]_streamVars

\* The program and the SSI run; the host may stall anywhere.
StreamLive == StreamSpec /\ WF_streamVars(Program) /\ WF_streamVars(SsiWord)
                         /\ WF_streamVars(Transfer)
-----------------------------------------------------------------------------
(* Properties.                                                             *)

\* What leaves the SSI is whole periods in payload order, left and right in
\* turn: "a late renderer repeats one whole, never torn, period"
\* (ym2151.asm:3839-3843).  A boundary seen one word late replays one frame.
PeriodsWhole ==
  [][out' # out =>
       \/ out'.pos = out.pos + 1 /\ out'.load = out.load
       \/ out.pos = Words - 1 /\ out'.pos = 0 /\ out'.load \in {out.load, out.load + 1}
       \/ out.pos = 1 /\ out'.pos = 0 /\ out'.load = out.load + 1]_streamVars

\* With a rendered period at hand, a boundary that comes while the program
\* waits for it, takes a payload or acknowledges one is never missed
\* (ym2151.asm:8082-8087, 8214-8218).
BoundaryCaught ==
  [][tie /\ r6.pos = 0 /\ r6' # r6 => at \notin Watching \/ switched]_streamVars

\* Writes and bursts take effect in the order the host had them accepted,
\* resident payload or not (ym2151.asm:8061-8063).
AppliedInOrder == IsPrefix(applied, accepted) /\ Len(accepted) <= Len(applied) + 1

\* When the stop is answered, every write and burst acknowledged has been
\* applied, and the last payload acknowledged plays, those before it having left
\* whole (PeriodsWhole).  Its own period is cut where it is: after one word,
\* when the stop was taken in the wait (ym2151.asm:8026-8041).  A payload that
\* is resident when a stop arrives is not abandoned, as the comment at 8024-8025
\* has it, for the wait takes no command before its handoff (7992-7994).
StopPlaysAll == at = "stopped" => out.load = Len(arrived) /\ applied = accepted

\* An acknowledged payload plays, though the host may stall in the middle of
\* the next one.
AcceptedPlays == \A n \in 1 .. Payloads : Len(arrived) = n ~> out.load >= n

\* The program is the DSP that RefillPipeline's host port talks to.
ImplementsPort == Port!PortSpec
=============================================================================
