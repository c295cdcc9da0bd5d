-------------------------- MODULE RefillPipeline --------------------------
(***************************************************************************)
(* The playback loop of player.s over the staged submission of dsp_link.s, *)
(* with the Timer-A tick and the DSP running beside it: from the moment    *)
(* the audio has started to the end of player_cleanup.                     *)
(***************************************************************************)
EXTENDS DspLink

VARIABLES
  clock,     \* Timer A is installed
  goal,      \* what the player's drain is for: a batch flush or the exit
  cmd,       \* the word of the player's dsp_exchange
  built      \* payloads staged so far: gives player_stage_next

playerVars == <<clock, goal, cmd, built>>
vars == <<portVars, linkVars, playerVars>>

PlayerLocations == {"loop", "build", "check", "cleanup", "xsend", "xrecv", "done"}

Step(l, next) == At("fg", l) /\ GoTo("fg", next) /\ UNCHANGED <<stageVars, linkHistory>>
Local(l, next) == Step(l, next) /\ UNCHANGED <<content, portVars>>
-----------------------------------------------------------------------------
\* player_stage_payload starts writing the next staging buffer ...
StageBegin ==
  /\ Step("loop", "build")
  /\ built < Payloads
  /\ built' = built + 1
  /\ content' = [content EXCEPT ![Buffer(built + 1)] = 0]
  /\ UNCHANGED <<clock, goal, cmd, portVars>>

\* ... and player_post_staged hands the finished payload over.
StageEnd ==
  /\ Step("build", "submit")
  /\ content' = [content EXCEPT ![Buffer(built)] = built]
  /\ UNCHANGED <<playerVars, portVars>>

\* The check after dsp_rt_submit: a failure leaves without draining.
CheckReply ==
  /\ Local("check", IF reply = "ok" THEN "loop" ELSE "cleanup")
  /\ UNCHANGED playerVars

\* A full YM batch inside the pump, the end of the song (the pump stops the
\* clock) and the second key drain the pipeline first.
NoDrain(why, clk) ==
  /\ Local("loop", "xsend")
  /\ goal' = why
  /\ clock' = clk
  /\ cmd' = "write"
  /\ UNCHANGED built
Drain(why, clk) ==
  /\ Local("loop", "wait")
  /\ goal' = why
  /\ clock' = clk
  /\ UNCHANGED <<cmd, built>>

BatchFull == Drain("flush", clock)
SongEnds == Drain("exit", FALSE)
SecondKey == Drain("exit", clock)

\* dsp_rt_submit_wait finds nothing announced.
WaitDone ==
  /\ ~posted
  /\ IF goal = "flush" THEN Local("wait", "xsend") /\ cmd' = "write"
                       ELSE Local("wait", "cleanup") /\ UNCHANGED cmd
  /\ UNCHANGED <<clock, goal, built>>

\* player_cleanup: call $05 removes the tick and keys off the channels with
\* direct writes, before the stop command.
Cleanup ==
  /\ Local("cleanup", "xsend")
  /\ goal' = "exit"
  /\ cmd' = "write"
  /\ clock' = FALSE
  /\ UNCHANGED built

\* dsp_exchange: one word out, one reply in.
ExchangeSend ==
  /\ Step("xsend", "xrecv")
  /\ SendWord(Word(cmd, 0))
  /\ UNCHANGED <<content, playerVars>>

\* Another of the flushed writes or of the key-offs follows.
ExchangeMore ==
  /\ cmd = "write"
  /\ Step("xrecv", "xsend")
  /\ TakeReply
  /\ UNCHANGED <<content, playerVars>>

\* The last one: back to the pump, on to the stop command, or out.
ExchangeLast ==
  /\ CASE cmd = "stop"   -> Step("xrecv", "done") /\ UNCHANGED cmd
       [] goal = "flush" -> Step("xrecv", "loop") /\ UNCHANGED cmd
       [] OTHER          -> Step("xrecv", "xsend") /\ cmd' = "stop"
  /\ TakeReply
  /\ UNCHANGED <<content, clock, goal, built>>

Player == StageBegin \/ StageEnd \/ CheckReply \/ BatchFull \/ SongEnds \/ SecondKey
          \/ WaitDone \/ Cleanup \/ ExchangeSend \/ ExchangeMore \/ ExchangeLast

\* What the player's context runs: the seams of the pump and of the mix
\* passes, the submission, the drain's polls and the poll body.
Foreground ==
  \/ Player
  \/ /\ \/ Submit(built)
        \/ \E l \in {"loop", "build", "wait"} : PollWhilePosted(l)
        \/ Body("fg")
     /\ UNCHANGED playerVars

TimerA == (PollIrq(clock) \/ Body("irq")) /\ UNCHANGED playerVars

Hardware == (PortTransfer \/ Dsp) /\ UNCHANGED <<linkVars, playerVars>>

\* player_run has started the audio: the DSP is at its stream loop, the clock
\* runs and nothing is staged.
Init ==
  /\ PortInit
  /\ LinkInit
  /\ pc = [c \in Contexts |-> IF c = "fg" THEN "loop" ELSE "idle"]
  /\ clock = TRUE
  /\ goal = "flush"
  /\ cmd = "write"
  /\ built = 0

Next == Foreground \/ TimerA \/ Hardware

Spec == Init /\ [][Next]_vars
-----------------------------------------------------------------------------
(* Properties.                                                             *)

Sent == {arrived[i] : i \in 1 .. Len(arrived)}

\* No refill command has been refused: the DSP keeps to the protocol.
Healthy == refused = {}

PcTypeOK ==
  /\ pc \in [Contexts -> {"idle"} \cup PlayerLocations \cup LinkLocations \cup BodyLocations]
  /\ pc["irq"] \in {"idle"} \cup BodyLocations
  /\ pc["fg"] # "idle"

\* The type of every variable of the composed system.
TypeOK ==
  /\ PortTypeOK
  /\ LinkTypeOK
  /\ PcTypeOK
  /\ clock \in BOOLEAN
  /\ goal \in {"flush", "exit"}
  /\ cmd \in {"write", "stop"}
  /\ built \in Numbers

\* dsp_stage_poll_super masks the tick for the whole body (dsp_link.s:184-188):
\* a half-read reply or half-sent block of one context is never seen by the
\* other.
BodyExclusive == ~(pc["fg"] \in BodyLocations /\ pc["irq"] \in BodyLocations)

\* "Exactly one command is ever in flight" (dsp_link.s:96-98): of the host
\* port's registers at most one is full, and no command word reaches a DSP
\* that is receiving a block.
OneCommandInFlight ==
  Healthy =>
    /\ tx = NoWord \/ hrx = NoWord
    /\ RXDF => tx = NoWord /\ hrx = NoWord
    /\ dsp = "receive" => /\ tx.kind \in {"none", "block"}
                          /\ hrx.kind \in {"none", "block"}

\* A reply is read by the code that waits for it, whatever the tick does:
\* dsp_exchange never takes the pipeline's READY or acknowledgement, the poll
\* body never takes an exchange's reply (dsp_link.s:196-202).
RepliesReachTheirReader ==
  Healthy /\ RXDF =>
    /\ pc["fg"] = "xrecv" => rx.to = cmd /\ pc["irq"] = "idle"
    /\ \A c \in Contexts : /\ pc[c] = "poll" => rx.to = "refill"
                           /\ pc[c] = "ack" => rx.to = "block"

\* As long as no payload was queued behind nothing, payloads reach the DSP in
\* submission order, without a gap, and from a buffer that still held them:
\* "the buffer stays owned by the pipeline until delivery" (dsp_link.s:102).
IntactUnlessStranded ==
  Healthy /\ stranded = {} =>
    /\ damaged = {}
    /\ \A i \in 1 .. Len(arrived) : arrived[i] = i

\* A payload lost to a refusal is never sent afterwards: the one behind it is
\* dropped unannounced (dsp_link.s:200-202).
LostNeverSent == (refused \cup dropped) \cap Sent = {}
-----------------------------------------------------------------------------
(* Fairness.  The tick and the DSP keep running, and a masked body runs to *)
(* its end; the producer may stay inside a drain or a mix for any time.    *)
TickFairness ==
  /\ WF_vars(Body("fg") /\ UNCHANGED playerVars)
  /\ WF_vars(TimerA)
  /\ WF_vars(Hardware)

\* The player goes on, and a flush or the key-offs end: they are at most
\* DSP_RT_BATCH_MAX and eight writes.
PlayerFairness == WF_vars(Foreground) /\ SF_vars(ExchangeLast)

TickSpec == Spec /\ TickFairness

\* An announced payload is delivered by the tick alone while the clock runs,
\* "even while the foreground is deep inside a dense drain or mix"
\* (dsp_link.s:172-176).
AnnouncedDelivered ==
  \A n \in 1 .. Payloads :
    posted /\ base = n ~> n \in Sent \/ ~clock \/ ~Healthy

\* A submission that finds both slots busy comes back: "that block is the
\* loop's normal pacing" (dsp_link.s:100-104).
SubmitReturns ==
  PlayerFairness => (pc["fg"] = "submit" ~> pc["fg"] = "check" \/ ~Healthy)

\* A drain for the exit ends, and the player leaves with the DSP stopped.
ExitCompletes ==
  PlayerFairness =>
    (pc["fg"] = "wait" /\ goal = "exit"
       ~> (pc["fg"] = "done" /\ dsp = "stopped") \/ ~Healthy)
=============================================================================
