----------------------------- MODULE YmDelivery -----------------------------
(***************************************************************************)
(* The path of a YM2151 register write from the sequencer to the chip the  *)
(* DSP emulates: RefillPipeline's player with YmBatch's accumulator in its *)
(* pump.  A batch leaves in the payload staged after it, a full one as     *)
(* direct writes once the pipeline has drained.  The DSP applies a burst   *)
(* in order before it takes another command.                               *)
(***************************************************************************)
EXTENDS RefillPipeline, YmBatch, FiniteSetsExt

CONSTANT MaxWrites   \* bound: writes of the session, but for the last key-off

VARIABLES
  stage,  \* the burst in each staging buffer
  wire,   \* the writes of the word on the port
  chip,   \* the write each latch of the chip holds
  keyed,  \* history: the edges the chip has taken
  late,   \* history: edges taken twice, or behind a newer one
  hasty   \* history: edges taken before a latch written ahead of them

chipVars == <<chip, keyed, late, hasty>>
ymVars == <<stage, wire, chipVars>>
deliveryVars == <<vars, batchVars, ymVars>>
-----------------------------------------------------------------------------
\* The audio has started: player_run enables the batch.
Enable ==
  /\ At("fg", "loop")
  /\ ~active
  /\ BatchEnable
  /\ UNCHANGED <<vars, ymVars>>

\* A tick the pump drains writes a register.
PumpWrite ==
  /\ At("fg", "loop")
  /\ Latest < MaxWrites
  /\ \E r \in Registers : BufferedWrite(r)
  /\ UNCHANGED <<vars, ymVars>>

\* The payload opens with the batch.
StageBatch ==
  /\ StageBegin
  /\ active
  /\ BatchCopy
  /\ stage' = [stage EXCEPT ![Buffer(built + 1)] = words]
  /\ UNCHANGED <<wire, chipVars>>

\* _batch_full drains the pipeline before it uses the port.
FlushBegins ==
  /\ BatchFull
  /\ Latest < MaxWrites
  /\ \E r \in Registers : Overflow(r)
  /\ UNCHANGED ymVars

CleanupDisables == Cleanup /\ BatchDisable /\ UNCHANGED ymVars

\* One word of the flush, one key-off of call $05, or the stop command.
FlushSend ==
  /\ ExchangeSend
  /\ goal = "flush"
  /\ wire' = <<FlushWord>>
  /\ UNCHANGED <<batchVars, stage, chipVars>>

KeyOffSend ==
  /\ ExchangeSend
  /\ goal = "exit" /\ cmd = "write"
  /\ \E r \in Edges : DirectWrite(r)
  /\ wire' = <<Latest + 1>>
  /\ UNCHANGED <<stage, chipVars>>

StopSend ==
  /\ ExchangeSend
  /\ cmd = "stop"
  /\ wire' = <<>>
  /\ UNCHANGED <<batchVars, stage, chipVars>>

\* The reply: another word follows, or the exchange was the last one.
FlushReply ==
  /\ goal = "flush"
  /\ FlushNext
  /\ IF held' = NoWrite THEN ExchangeLast ELSE ExchangeMore
  /\ UNCHANGED ymVars

KeyOffReply ==
  /\ goal = "exit" /\ cmd = "write"
  /\ FlushNext
  /\ ExchangeLast \/ (Latest < MaxWrites /\ ExchangeMore)
  /\ UNCHANGED ymVars

StopReply == cmd = "stop" /\ ExchangeLast /\ UNCHANGED <<batchVars, ymVars>>

Writer == Enable \/ PumpWrite \/ StageBatch \/ FlushBegins \/ CleanupDisables \/ FlushSend
          \/ KeyOffSend \/ StopSend \/ FlushReply \/ KeyOffReply \/ StopReply

\* The player's steps that touch no register.
Bystander ==
  /\ pc["fg"] = "loop" => active
  /\ StageEnd \/ CheckReply \/ SongEnds \/ SecondKey \/ WaitDone
  /\ UNCHANGED <<batchVars, ymVars>>

Submission ==
  /\ \/ Submit(built)
     \/ \E l \in {"loop", "build", "wait"} : PollWhilePosted(l)
     \/ PollIrq(clock)
  /\ UNCHANGED <<playerVars, batchVars, ymVars>>

\* The poll body of either context; its send puts the announced burst on the
\* port.
Delivery ==
  /\ \E c \in Contexts :
       /\ Body(c)
       /\ wire' = IF pc[c] = "send" THEN stage[Buffer(base)] ELSE wire
  /\ UNCHANGED <<playerVars, batchVars, stage, chipVars>>
-----------------------------------------------------------------------------
(* The DSP's side: rt5_commit_runtime_events and ssi_stream_write.         *)

\* The latches of the chip after the first k of the writes ws.
After(ws, k) ==
  [l \in Latches |->
     LET own == {i \in 1 .. k : written[ws[i]] = l}
     IN  IF own = {} THEN chip[l] ELSE ws[Max(own)]]

\* The edge ws[k] is taken while a latch written ahead of it is still older.
Hasty(ws, k) ==
  \E n \in 1 .. ws[k] - 1 : written[n] \in Latches /\ After(ws, k)[written[n]] < n

\* The edge ws[k] is taken when it, or a newer one, has been.
Late(ws, k) ==
  \/ \E e \in keyed : e >= ws[k]
  \/ \E j \in 1 .. k - 1 : written[ws[j]] \in Edges /\ ws[j] >= ws[k]

EdgesIn(ws) == {k \in 1 .. Len(ws) : written[ws[k]] \in Edges}

Apply(ws) ==
  /\ chip' = After(ws, Len(ws))
  /\ keyed' = keyed \cup {ws[k] : k \in EdgesIn(ws)}
  /\ late' = late \cup {ws[k] : k \in {i \in EdgesIn(ws) : Late(ws, i)}}
  /\ hasty' = hasty \cup {ws[k] : k \in {i \in EdgesIn(ws) : Hasty(ws, i)}}

Taken ==
  /\ TakeBlock \/ TakeWrite
  /\ Apply(wire)
  /\ UNCHANGED <<linkVars, playerVars, batchVars, stage, wire>>

OtherHardware ==
  /\ PortTransfer \/ (Dsp /\ ~TakeBlock /\ ~TakeWrite)
  /\ UNCHANGED <<linkVars, playerVars, batchVars, ymVars>>

DeliveryInit ==
  /\ Init
  /\ BatchInit
  /\ stage = [b \in 0 .. StageBuffers - 1 |-> <<>>]
  /\ wire = <<>>
  /\ chip = mirror
  /\ keyed = {}
  /\ late = {}
  /\ hasty = {}

DeliveryNext == Writer \/ Bystander \/ Submission \/ Delivery \/ Taken \/ OtherHardware

DeliverySpec == DeliveryInit /\ [][DeliveryNext]_deliveryVars
-----------------------------------------------------------------------------
(* Properties.  A payload stranded by the tick (RefillClaims) is delivered *)
(* behind its successor and one the DSP refuses is lost, so they speak of  *)
(* sessions with neither.                                                  *)

\* No write undoes a later one, whichever way each of them took.
NeverOlder ==
  [][(Healthy /\ stranded = {})' => \A l \in Latches : chip'[l] >= chip[l]]_deliveryVars

\* Key-ons, key-offs and timer controls reach the chip once, in the order of
\* the driver, and each finds the voice written ahead of it.  (player_cleanup
\* discards the open batch, so that its own key-offs do not.)
KeysInOrder ==
  Healthy /\ stranded = {} =>
    /\ late = {}
    /\ active => hasty = {}

\* With the pipeline drained and the batch empty, the chip is what
\* mxdrv_opm_buffer says, and it has taken every edge.
ChipMatchesMirror ==
  Healthy /\ stranded = {} /\ active /\ words = <<>> /\ held = NoWrite /\ ~posted
    /\ pc["fg"] = "loop" =>
      /\ chip = mirror
      /\ keyed = {n \in 1 .. Latest : written[n] \in Edges}
=============================================================================
