--------------------------- MODULE RefillProofs ---------------------------
(***************************************************************************)
(* Proofs about RefillPipeline for every number of payloads, with and      *)
(* without refusals by the DSP.                                            *)
(***************************************************************************)
EXTENDS RefillRefinement, SequenceTheorems, TLAPS

(* The locations of pc are distinct strings, and the updates of pc are     *)
(* function updates on a domain of two contexts.                           *)
USE DEF Contexts

LEMMA TypeInit == Init => TypeOK
  <1> SUFFICES ASSUME Init PROVE TypeOK
    OBVIOUS
  <1> USE PortAssumption DEF Init
  <1>1. PortTypeOK
    BY DEF PortInit, PortTypeOK, Numbers, Words, Replies, NoWord, NoReply, Word, Reply,
       Kinds, Answers
  <1>2. LinkTypeOK
    <2>1. 0 \in Numbers
      BY DEF Numbers
    <2>2. QED
      BY <2>1 DEF LinkInit, LinkTypeOK, Answers
  <1>3. QED
    BY <1>1, <1>2 DEF TypeOK, PcTypeOK, Numbers, PlayerLocations, LinkLocations, BodyLocations

\* The buffer of a payload is one of the three, and three payloads in a row
\* have distinct ones.
LEMMA BufferRange == ASSUME NEW n \in Nat \ {0} PROVE Buffer(n) \in 0 .. StageBuffers - 1
  BY DEF Buffer, StageBuffers

LEMMA BufferDistinct ==
  ASSUME NEW m \in Nat \ {0}, NEW n \in Nat \ {0}, m < n, n < m + StageBuffers
  PROVE  Buffer(m) # Buffer(n)
  BY DEF Buffer, StageBuffers

\* The two host-port primitives keep the port's types.
LEMMA SendType ==
  ASSUME PortTypeOK, NEW k \in Kinds, NEW n \in Numbers, SendWord(Word(k, n))
  PROVE  PortTypeOK'
  BY DEF PortTypeOK, SendWord, Word, Words

LEMMA TakeType == ASSUME PortTypeOK, TakeReply PROVE PortTypeOK' /\ rx.val \in Answers
  <1>1. NoReply \in Replies
    BY DEF NoReply, Reply, Replies, Answers, Kinds
  <1>2. QED
    BY <1>1 DEF PortTypeOK, TakeReply, Replies

LEMMA SamePort == ASSUME PortTypeOK, UNCHANGED portVars PROVE PortTypeOK'
  BY DEF PortTypeOK, portVars

LEMMA TypePlayer == TypeOK /\ Player => TypeOK'
  <1> SUFFICES ASSUME TypeOK, Player PROVE TypeOK'
    OBVIOUS
  <1> USE PortAssumption DEF TypeOK, PcTypeOK, LinkTypeOK, PlayerLocations,
       LinkLocations, BodyLocations, StageBuffers, Numbers, Step, Local, At, GoTo,
       stageVars, linkHistory, playerVars
  <1>1. CASE StageBegin
    <2>1. built + 1 \in Numbers /\ 0 \in Numbers
      BY <1>1 DEF StageBegin
    <2>2. content' \in [0 .. StageBuffers - 1 -> Numbers]
      BY <1>1, <2>1 DEF StageBegin
    <2>3. pc' = [pc EXCEPT !["fg"] = "build"]
      BY <1>1 DEF StageBegin
    <2>4. QED
      BY <1>1, <2>1, <2>2, <2>3, SamePort DEF StageBegin
  <1>2. CASE StageEnd
    BY <1>2, SamePort DEF StageEnd
  <1>3. CASE CheckReply
    BY <1>3, SamePort DEF CheckReply
  <1>4. CASE BatchFull \/ SongEnds \/ SecondKey
    BY <1>4, SamePort DEF BatchFull, SongEnds, SecondKey, Drain
  <1>5. CASE WaitDone
    BY <1>5, SamePort DEF WaitDone
  <1>6. CASE Cleanup
    BY <1>6, SamePort DEF Cleanup
  <1>7. CASE ExchangeSend
    BY <1>7, SendType DEF ExchangeSend, Kinds
  <1>8. CASE ExchangeMore
    BY <1>8, TakeType DEF ExchangeMore
  <1>9. CASE ExchangeLast
    BY <1>9, TakeType DEF ExchangeLast
  <1>10. QED
    BY <1>1, <1>2, <1>3, <1>4, <1>5, <1>6, <1>7, <1>8, <1>9 DEF Player

\* The end of the poll body gives each context a location of its own.
LEMMA ReturnType == ASSUME TypeOK, NEW c \in Contexts, Return(c)
                    PROVE  PcTypeOK' /\ back' = back
  <1> USE DEF TypeOK, PcTypeOK, LinkTypeOK, LinkLocations, PlayerLocations, BodyLocations,
       Return, GoTo
  <1>1. CASE c = "irq"
    BY <1>1
  <1>2. CASE c = "fg"
    BY <1>2
  <1>3. QED
    BY <1>1, <1>2

LEMMA TypeBody == ASSUME TypeOK, NEW c \in Contexts, Body(c), UNCHANGED playerVars
                  PROVE  TypeOK'
  <1> USE PortAssumption DEF TypeOK, PcTypeOK, LinkTypeOK, LinkLocations,
       BodyLocations, At, GoTo, stageVars, linkHistory, playerVars
  <1>1. CASE PollNothing(c)
    BY <1>1, SamePort, ReturnType DEF PcTypeOK, PollNothing
  <1>2. CASE PollReady(c)
    BY <1>2, TakeType DEF PollReady
  <1>3. CASE PollRefused(c)
    BY <1>3, TakeType, ReturnType DEF PcTypeOK, PollRefused
  <1>4. CASE PollSend(c)
    BY <1>4, SendType DEF PollSend, Kinds
  <1>5. CASE PollAckNext(c)
    BY <1>5, TakeType DEF PollAckNext
  <1>6. CASE PollAckDrained(c)
    BY <1>6, TakeType, ReturnType DEF PcTypeOK, PollAckDrained
  <1>7. CASE PollAnnounceNext(c)
    BY <1>7, SendType, ReturnType DEF PcTypeOK, PollAnnounceNext, Kinds
  <1>8. QED
    BY <1>1, <1>2, <1>3, <1>4, <1>5, <1>6, <1>7 DEF Body

LEMMA TypeLink ==
  ASSUME TypeOK, UNCHANGED playerVars,
         \/ Submit(built)
         \/ \E l \in {"loop", "build", "wait"} : PollWhilePosted(l)
         \/ PollIrq(clock)
  PROVE  TypeOK'
  <1> USE PortAssumption DEF TypeOK, PcTypeOK, LinkTypeOK, LinkLocations,
       BodyLocations, At, GoTo, CallPoll, stageVars, linkHistory, playerVars
  <1>1. CASE SubmitTestPosted
    BY <1>1, SamePort DEF SubmitTestPosted
  <1>2. CASE SubmitTestQueued
    BY <1>2, SamePort DEF SubmitTestQueued
  <1>3. CASE Enqueue(built)
    <2>1. qbase' \in Numbers /\ stranded' \subseteq Numbers
      BY <1>3 DEF Enqueue
    <2>2. QED
      BY <1>3, <2>1, SamePort DEF Enqueue, PlayerLocations
  <1>4. CASE Announce(built)
    BY <1>4, SendType DEF Announce, Kinds
  <1>5. CASE AnnounceMark
    BY <1>5, SamePort DEF AnnounceMark
  <1>6. ASSUME NEW l \in {"loop", "build", "wait"}, PollWhilePosted(l) PROVE TypeOK'
    BY <1>6, SamePort DEF PollWhilePosted
  <1>7. CASE PollIrq(clock)
    BY <1>7, SamePort DEF PollIrq
  <1>8. QED
    BY <1>1, <1>2, <1>3, <1>4, <1>5, <1>6, <1>7 DEF Submit

LEMMA TypeHardware == TypeOK /\ Hardware => TypeOK'
  <1> SUFFICES ASSUME TypeOK, PortTransfer \/ Dsp, UNCHANGED <<linkVars, playerVars>>
               PROVE  TypeOK'
    BY DEF Hardware
  <1> USE PortAssumption DEF TypeOK, PcTypeOK, PortTypeOK, LinkTypeOK, Words, Replies, NoWord,
       Word, Reply, Kinds, Answers, Answer, linkVars, stageVars, linkHistory, playerVars
  <1>1. CASE PortTransfer
    BY <1>1 DEF PortTransfer, Numbers
  <1>2. CASE TakeRefill
    BY <1>2 DEF TakeRefill, Numbers
  <1>3. CASE RefuseRefill
    <2>1. refused' \subseteq Numbers
      BY <1>3 DEF RefuseRefill
    <2>2. QED
      BY <1>3, <2>1 DEF RefuseRefill, Numbers
  <1>4. CASE TakeBlock
    BY <1>4 DEF TakeBlock, Numbers
  <1>5. CASE SwallowCommand
    BY <1>5 DEF SwallowCommand, Numbers
  <1>6. CASE TakeWrite
    BY <1>6 DEF TakeWrite, Numbers
  <1>7. CASE StopAudio
    BY <1>7 DEF StopAudio, Numbers
  <1>8. CASE Handoff
    BY <1>8 DEF Handoff
  <1>9. QED
    BY <1>1, <1>2, <1>3, <1>4, <1>5, <1>6, <1>7, <1>8 DEF Dsp

\* Every step keeps the types.
LEMMA TypeStep == TypeOK /\ [Next]_vars => TypeOK'
  <1> SUFFICES ASSUME TypeOK, [Next]_vars PROVE TypeOK'
    OBVIOUS
  <1>1. CASE Player
    BY <1>1, TypePlayer
  <1>2. CASE Foreground /\ ~Player
    BY <1>2, TypeLink, TypeBody DEF Foreground
  <1>3. CASE TimerA
    BY <1>3, TypeLink, TypeBody DEF TimerA
  <1>4. CASE Hardware
    BY <1>4, TypeHardware
  <1>5. CASE UNCHANGED vars
    BY <1>5 DEF vars, TypeOK, PcTypeOK, PortTypeOK, LinkTypeOK, portVars, linkVars, stageVars,
       linkHistory, playerVars
  <1>6. QED
    BY <1>1, <1>2, <1>3, <1>4, <1>5 DEF Next

\* The variables keep their types for every number of payloads.
THEOREM TypeCorrect == Spec => []TypeOK
  BY TypeInit, TypeStep, PTL DEF Spec
-----------------------------------------------------------------------------
(* The interrupt mask.                                                     *)

LEMMA ContextStep == TypeOK /\ ContextInv /\ [Next]_vars => ContextInv'
  <1> SUFFICES ASSUME TypeOK, ContextInv, [Next]_vars PROVE ContextInv'
    OBVIOUS
  <1> USE DEF TypeOK, PcTypeOK, ContextInv, BodyLocations, PlayerLocations, LinkLocations,
       At, GoTo, CallPoll, Return, Step, Local
  <1>1. CASE Player
    BY <1>1 DEF Player, StageBegin, StageEnd, CheckReply, BatchFull, SongEnds, SecondKey,
       Drain, WaitDone, Cleanup, ExchangeSend, ExchangeMore, ExchangeLast
  <1>2. CASE Submit(built) \/ \E l \in {"loop", "build", "wait"} : PollWhilePosted(l)
    BY <1>2 DEF Submit, SubmitTestPosted, SubmitTestQueued, Enqueue, Announce,
       AnnounceMark, PollWhilePosted
  <1>3. ASSUME NEW c \in Contexts, Body(c) PROVE ContextInv'
    BY <1>3 DEF Body, PollNothing, PollReady, PollRefused, PollSend, PollAckNext,
       PollAckDrained, PollAnnounceNext
  <1>4. CASE PollIrq(clock)
    BY <1>4 DEF PollIrq, Masked
  <1>5. CASE Hardware \/ UNCHANGED vars
    BY <1>5 DEF Hardware, linkVars, vars
  <1>6. QED
    BY <1>1, <1>2, <1>3, <1>4, <1>5 DEF Next, Foreground, TimerA

\* The Timer-A delivery never runs inside the player's poll body, whatever
\* the DSP answers.
THEOREM MaskExcludes == Spec => []BodyExclusive
  <1>1. Init => ContextInv
    BY DEF Init, ContextInv, BodyLocations
  <1>2. ContextInv => BodyExclusive
    BY DEF ContextInv, BodyExclusive
  <1>3. QED
    BY <1>1, <1>2, ContextStep, TypeCorrect, PTL DEF Spec
-----------------------------------------------------------------------------
(* The host port.                                                          *)

LEMMA PortInitial == Init => PortInv
  BY DEF Init, PortInit, LinkInit, PortInv, Idle, NoWords, InBody, Delivering, OffPort,
     BodyLocations

\* What a step must know of the state before it, and show after it.
PortHyp == TypeOK /\ ContextInv /\ PortInv

LEMMA PortPlayer == ASSUME PortHyp, Player PROVE PortInv'
  <1> USE DEF PortHyp, TypeOK, PcTypeOK, LinkTypeOK, ContextInv, PortInv, BodyLocations,
       PlayerLocations, LinkLocations, At, GoTo, Step, Local, InBody, Delivering, OffPort,
       stageVars, linkHistory, playerVars
  <1>1. CASE StageBegin
    BY <1>1 DEF StageBegin, portVars, Idle, Announced, Commanded, Answered, NoWords,
       Carries
  <1>2. CASE StageEnd
    BY <1>2 DEF StageEnd, portVars, Idle, Announced, Commanded, Answered, NoWords,
       Carries
  <1>3. CASE CheckReply
    BY <1>3 DEF CheckReply, portVars, Idle, Announced, Commanded, Answered, NoWords,
       Carries
  <1>4. CASE BatchFull \/ SongEnds \/ SecondKey
    BY <1>4 DEF BatchFull, SongEnds, SecondKey, Drain, portVars, Idle, Announced,
       Commanded, Answered, NoWords, Carries
  <1>5. CASE WaitDone
    BY <1>5 DEF WaitDone, portVars, Idle, NoWords
  <1>6. CASE Cleanup
    BY <1>6 DEF Cleanup, portVars, Idle, NoWords
  <1>7. CASE ExchangeSend
    BY <1>7 DEF ExchangeSend, SendWord, Idle, NoWords, Exchanging, Carries
  <1>8. CASE ExchangeMore
    BY <1>8 DEF ExchangeMore, TakeReply, RXDF, Exchanging, Exchanged, Idle, NoWords
  <1>9. CASE ExchangeLast
    BY <1>9 DEF ExchangeLast, TakeReply, RXDF, Exchanging, Exchanged, Idle, NoWords
  <1>10. QED
    BY <1>1, <1>2, <1>3, <1>4, <1>5, <1>6, <1>7, <1>8, <1>9 DEF Player

LEMMA PortBody ==
  ASSUME PortHyp, NEW c \in Contexts, Body(c), UNCHANGED playerVars
  PROVE  PortInv'
  <1> USE DEF PortHyp, TypeOK, PcTypeOK, LinkTypeOK, ContextInv, PortInv, BodyLocations,
       PlayerLocations, LinkLocations, At, GoTo, Return, InBody, Delivering, OffPort,
       stageVars, linkHistory, playerVars
  <1>1. CASE PollNothing(c)
    BY <1>1 DEF PollNothing, RXDF, portVars, Idle, Announced, Commanded, Answered,
       NoWords, Carries
  <1>2. CASE PollReady(c)
    BY <1>2 DEF PollReady, TakeReply, RXDF, Granted, Idle, Announced, Commanded,
       Answered, NoWords, NoReply, Reply
  <1>3. CASE PollRefused(c)
    BY <1>3 DEF PollRefused, TakeReply, RXDF, Idle, Announced, Commanded, Answered,
       NoReply, Reply
  <1>4. CASE PollSend(c)
    BY <1>4 DEF PollSend, SendWord, Granted, Sending, NoWords, Carries
  <1>5. CASE PollAckNext(c)
    BY <1>5 DEF PollAckNext, TakeReply, RXDF, Sending, Acked, Idle, NoWords, Reply,
       NoReply
  <1>6. CASE PollAckDrained(c)
    BY <1>6 DEF PollAckDrained, TakeReply, RXDF, Sending, Acked, Idle, NoWords, Reply,
       NoReply
  <1>7. CASE PollAnnounceNext(c)
    BY <1>7 DEF PollAnnounceNext, SendWord, Idle, Announced, Commanded, NoWords, Carries
  <1>8. QED
    BY <1>1, <1>2, <1>3, <1>4, <1>5, <1>6, <1>7 DEF Body

LEMMA PortLink ==
  ASSUME PortHyp, UNCHANGED playerVars,
         \/ Submit(built)
         \/ \E l \in {"loop", "build", "wait"} : PollWhilePosted(l)
         \/ PollIrq(clock)
  PROVE  PortInv'
  <1> USE DEF PortHyp, TypeOK, PcTypeOK, LinkTypeOK, ContextInv, PortInv, BodyLocations,
       PlayerLocations, LinkLocations, At, GoTo, CallPoll, InBody, Delivering, OffPort,
       stageVars, linkHistory, playerVars, portVars, Idle, Announced, Commanded,
       Answered, NoWords, Carries
  <1>1. CASE SubmitTestPosted
    BY <1>1 DEF SubmitTestPosted
  <1>2. CASE SubmitTestQueued
    BY <1>2 DEF SubmitTestQueued
  <1>3. CASE Enqueue(built)
    BY <1>3 DEF Enqueue
  <1>4. CASE Announce(built)
    BY <1>4 DEF Announce, SendWord
  <1>5. CASE AnnounceMark
    BY <1>5 DEF AnnounceMark
  <1>6. ASSUME NEW l \in {"loop", "build", "wait"}, PollWhilePosted(l) PROVE PortInv'
    BY <1>6 DEF PollWhilePosted
  <1>7. CASE PollIrq(clock)
    BY <1>7 DEF PollIrq, RXDF, Masked
  <1>8. QED
    BY <1>1, <1>2, <1>3, <1>4, <1>5, <1>6, <1>7 DEF Submit

\* What the hardware makes of each state of the port, absent a refusal.
LEMMA HardwareSteps ==
  ASSUME TypeOK, Hardware, Healthy'
  PROVE  /\ Idle => Idle'
         /\ Announced => Announced'
         /\ Granted => Granted'
         /\ Sending => Sending' \/ Acked'
         /\ Acked => Acked'
         /\ Exchanging => Exchanging' \/ Exchanged'
         /\ Exchanged => Exchanged'
         /\ Answered => Answered'
  <1> USE DEF Hardware, TypeOK, linkVars, stageVars, playerVars, NoWords, Carries, Idle,
       Announced, Commanded, Answered, Granted, Sending, Acked, Exchanging, Exchanged,
       RXDF, TXDE, NoWord, NoReply, Word, Reply
  <1>1. CASE PortTransfer
    BY <1>1 DEF PortTransfer
  <1>2. CASE TakeRefill
    BY <1>2 DEF TakeRefill, Answer
  <1>3. CASE RefuseRefill
    BY <1>3 DEF RefuseRefill, Healthy
  <1>4. CASE TakeBlock
    BY <1>4 DEF TakeBlock, Answer
  <1>5. CASE SwallowCommand
    BY <1>5 DEF SwallowCommand
  <1>6. CASE TakeWrite
    BY <1>6 DEF TakeWrite, Answer
  <1>7. CASE StopAudio
    BY <1>7 DEF StopAudio, Answer
  <1>8. CASE Handoff
    BY <1>8 DEF Handoff
  <1>9. QED
    BY <1>1, <1>2, <1>3, <1>4, <1>5, <1>6, <1>7, <1>8 DEF Dsp

LEMMA PortHardware == ASSUME PortHyp, Hardware, Healthy' PROVE PortInv'
  <1>1. UNCHANGED <<pc, back, posted, queued, base, reply, cmd>>
    BY DEF Hardware, linkVars, stageVars, playerVars
  <1>2. (PortHyp /\ PortInv) /\ (TypeOK /\ Hardware /\ Healthy')
    BY DEF PortHyp
  <1>3. QED
    BY <1>1, <1>2, HardwareSteps DEF PortInv, InBody, Delivering

\* A refusal is remembered.
LEMMA HealthyBefore == [Next]_vars /\ Healthy' => Healthy
  <1> SUFFICES ASSUME [Next]_vars, Healthy' PROVE Healthy
    OBVIOUS
  <1>1. refused' = refused \/ \E x : refused' = refused \cup {x}
    <2>1. CASE Hardware
      BY <2>1 DEF Hardware, PortTransfer, Dsp, TakeRefill, RefuseRefill, TakeBlock,
         SwallowCommand, TakeWrite, StopAudio, Handoff
    <2>2. CASE UNCHANGED vars
      BY <2>2 DEF vars, portVars
    <2>3. CASE Player
      BY <2>3 DEF Player, StageBegin, StageEnd, CheckReply, BatchFull, SongEnds,
         SecondKey, Drain, WaitDone, Cleanup, ExchangeSend, ExchangeMore, ExchangeLast,
         Local, SendWord, TakeReply, portVars
    <2>4. ASSUME NEW c \in Contexts, Body(c) PROVE refused' = refused
      BY <2>4 DEF Body, PollNothing, PollReady, PollRefused, PollSend, PollAckNext,
         PollAckDrained, PollAnnounceNext, SendWord, TakeReply, portVars
    <2>5. CASE Submit(built) \/ \E l \in {"loop", "build", "wait"} : PollWhilePosted(l)
      BY <2>5 DEF Submit, SubmitTestPosted, SubmitTestQueued, Enqueue, Announce,
         AnnounceMark, PollWhilePosted, SendWord, portVars
    <2>6. CASE PollIrq(clock)
      BY <2>6 DEF PollIrq, portVars
    <2>7. QED
      BY <2>1, <2>2, <2>3, <2>4, <2>5, <2>6 DEF Next, Foreground, TimerA
  <1>2. QED
    BY <1>1 DEF Healthy

LEMMA PortStep ==
  TypeOK /\ ContextInv /\ (Healthy => PortInv) /\ [Next]_vars => (Healthy => PortInv)'
  <1> SUFFICES ASSUME TypeOK, ContextInv, Healthy => PortInv, [Next]_vars, Healthy'
               PROVE  PortInv'
    OBVIOUS
  <1>1. PortHyp
    BY HealthyBefore DEF PortHyp
  <1>2. CASE Player
    BY <1>1, <1>2, PortPlayer
  <1>3. CASE Foreground /\ ~Player
    BY <1>1, <1>3, PortLink, PortBody DEF Foreground
  <1>4. CASE TimerA
    BY <1>1, <1>4, PortLink, PortBody DEF TimerA
  <1>5. CASE Hardware
    BY <1>1, <1>5, PortHardware
  <1>6. CASE UNCHANGED vars
    BY <1>1, <1>6 DEF PortHyp, PortInv, vars, portVars, linkVars, stageVars, playerVars,
       InBody, Delivering, Idle, Announced, Commanded, Answered, Granted, Sending, Acked,
       Exchanging, Exchanged, NoWords, Carries
  <1>7. QED
    BY <1>2, <1>3, <1>4, <1>5, <1>6 DEF Next

\* What the invariant says of the port in every state of a healthy session.
LEMMA PortCorrect == Spec => [](TypeOK /\ ContextInv /\ (Healthy => PortInv))
  <1>1. Init => ContextInv
    BY DEF Init, ContextInv, BodyLocations
  <1>2. QED
    BY <1>1, TypeInit, PortInitial, TypeStep, ContextStep, PortStep, PTL DEF Spec

LEMMA PortMeans ==
  ASSUME TypeOK, ContextInv, Healthy => PortInv
  PROVE  OneCommandInFlight /\ RepliesReachTheirReader
  <1> SUFFICES ASSUME PortInv PROVE OneCommandInFlight /\ RepliesReachTheirReader
    BY DEF OneCommandInFlight, RepliesReachTheirReader
  <1> USE DEF TypeOK, PcTypeOK, LinkTypeOK, ContextInv, PortInv, BodyLocations, InBody,
       Delivering, OffPort, Idle, Announced, Commanded, Answered, Granted, Sending, Acked,
       Exchanging, Exchanged, NoWords, Carries, RXDF, Word, NoWord, Reply, NoReply
  <1>1. OneCommandInFlight
    BY DEF OneCommandInFlight
  <1>2. RepliesReachTheirReader
    BY DEF RepliesReachTheirReader
  <1>3. QED
    BY <1>1, <1>2

\* Until the DSP refuses a command, at most one word is in the port and no
\* command word reaches a DSP inside a block, whenever the tick fires.
THEOREM OneCommand == Spec => []OneCommandInFlight
  BY PortCorrect, PortMeans, PTL

\* Until the DSP refuses a command, the poll body and dsp_exchange each read
\* the replies to their own words only.
THEOREM RepliesMatched == Spec => []RepliesReachTheirReader
  BY PortCorrect, PortMeans, PTL
-----------------------------------------------------------------------------
(* The payload numbers in the slots, the staging buffers and the DSP.      *)

FifoHyp == PortHyp /\ FifoInv

\* At most two payloads are handed over and undelivered, so that the third
\* buffer is free for the producer.
LEMMA HandedBound ==
  ASSUME FifoHyp
  PROVE  Len(arrived) \in Nat /\ Handed \in Nat /\ Handed <= Len(arrived) + 2
  <1> USE DEF FifoHyp, PortHyp, TypeOK, PortTypeOK, LinkTypeOK, FifoInv, Numbers
  <1>1. Len(arrived) \in Nat
    OBVIOUS
  <1>2. Handed <= Len(arrived) + 2
    BY <1>1, PortAssumption DEF Occupied
  <1>3. QED
    BY <1>1, <1>2, PortAssumption DEF Handed

\* Assembling payload m touches the buffer of no payload handed over before it
\* and still undelivered.
LEMMA BuffersApart ==
  ASSUME FifoHyp, NEW m \in Numbers, Handed = m - 1,
         NEW n \in Numbers, n > Len(arrived), n <= Handed
  PROVE  Buffer(n) # Buffer(m) /\ Buffer(n) \in 0 .. StageBuffers - 1
  <1>1. n \in Nat \ {0} /\ m \in Nat \ {0} /\ n < m /\ m < n + StageBuffers
    BY HandedBound, PortAssumption DEF Numbers, StageBuffers
  <1>2. QED
    BY <1>1, BufferDistinct, BufferRange

LEMMA FifoPlayer == ASSUME FifoHyp, Player PROVE FifoInv'
  <1> USE DEF FifoHyp, PortHyp, TypeOK, PcTypeOK, LinkTypeOK, PortInv, At, GoTo, Step, Local,
       OffPort, stageVars, linkHistory, playerVars, BodyLocations
  <1>1. CASE StageBegin
    <2>1. built + 1 \in Numbers /\ Handed = built /\ Handed' = Handed
      BY <1>1, PortAssumption DEF StageBegin, Numbers, Handed, Submitting, Unsubmitted
    <2>2. \A n \in Numbers : n > Len(arrived) /\ n <= Handed =>
            content'[Buffer(n)] = content[Buffer(n)]
      <3> TAKE n \in Numbers
      <3> HAVE n > Len(arrived) /\ n <= Handed
      <3>1. Buffer(n) # Buffer(built + 1) /\ Buffer(n) \in 0 .. StageBuffers - 1
        BY <2>1, BuffersApart, PortAssumption DEF Numbers
      <3>2. QED
        BY <1>1, <3>1 DEF StageBegin
    <2>3. QED
      BY <1>1, <2>1, <2>2, PortAssumption DEF StageBegin, FifoInv, Numbers, Submitting,
         Unsubmitted, Occupied, portVars
  <1>2. CASE StageEnd
    <2>1. built \in Nat \ {0} /\ Handed = built - 1 /\ Handed' = Handed
      BY <1>2, PortAssumption DEF StageEnd, FifoInv, Numbers, Handed, Submitting,
         Unsubmitted
    <2>2. \A n \in Numbers : n > Len(arrived) /\ n <= Handed =>
            content'[Buffer(n)] = content[Buffer(n)]
      <3> TAKE n \in Numbers
      <3> HAVE n > Len(arrived) /\ n <= Handed
      <3>1. Buffer(n) # Buffer(built) /\ Buffer(n) \in 0 .. StageBuffers - 1
        BY <2>1, BuffersApart
      <3>2. QED
        BY <1>2, <3>1 DEF StageEnd
    <2>3. content'[Buffer(built)] = built
      BY <1>2, <2>1, BufferRange DEF StageEnd
    <2>4. QED
      BY <1>2, <2>1, <2>2, <2>3, PortAssumption DEF StageEnd, FifoInv, Numbers,
         Submitting, Unsubmitted, Occupied, portVars
  <1>3. CASE CheckReply \/ BatchFull \/ SongEnds \/ SecondKey \/ WaitDone \/ Cleanup
    <2>1. /\ UNCHANGED <<portVars, stageVars, linkHistory, content, built>>
          /\ pc["fg"] \in {"check", "loop", "wait", "cleanup"}
          /\ pc'["fg"] \in {"loop", "cleanup", "wait", "xsend"}
      BY <1>3 DEF CheckReply, BatchFull, SongEnds, SecondKey, Drain, WaitDone, Cleanup
    <2>2. QED
      BY <2>1 DEF FifoInv, Handed, Submitting, Unsubmitted, Occupied, portVars
  <1>4. CASE ExchangeSend \/ ExchangeMore \/ ExchangeLast
    <2>1. /\ UNCHANGED <<arrived, stageVars, linkHistory, content, built>>
          /\ pc["fg"] \in {"xsend", "xrecv"}
          /\ pc'["fg"] \in {"xsend", "xrecv", "loop", "done"}
      BY <1>4 DEF ExchangeSend, ExchangeMore, ExchangeLast, SendWord, TakeReply
    <2>2. QED
      BY <2>1 DEF FifoInv, Handed, Submitting, Unsubmitted, Occupied
  <1>5. QED
    BY <1>1, <1>2, <1>3, <1>4 DEF Player

\* A location of the poll body, and the return from it, hand nothing over.
LEMMA BodyHandsNothing ==
  ASSUME TypeOK, ContextInv, NEW c \in Contexts, UNCHANGED <<built, back>>,
         pc[c] \in BodyLocations,
         Return(c) \/ (\E l \in BodyLocations : GoTo(c, l))
  PROVE  /\ Submitting' = Submitting
         /\ Unsubmitted' = Unsubmitted
         /\ Handed' = Handed
         /\ (pc["fg"] = "mark")' = (pc["fg"] = "mark")
         /\ pc'["fg"] = "enqueue" => pc["fg"] = "enqueue"
  <1>1. /\ Submitting' = Submitting
        /\ Unsubmitted' = Unsubmitted
        /\ (pc["fg"] = "mark")' = (pc["fg"] = "mark")
        /\ pc'["fg"] = "enqueue" => pc["fg"] = "enqueue"
    <2> USE DEF TypeOK, PcTypeOK, LinkTypeOK, BodyLocations, Return, GoTo, Submitting, Unsubmitted
    <2>1. CASE c = "irq"
      BY <2>1
    <2>2. CASE c = "fg"
      BY <2>2
    <2>3. QED
      BY <2>1, <2>2
  <1>2. QED
    BY <1>1 DEF Handed

LEMMA FifoBody ==
  ASSUME FifoHyp, NEW c \in Contexts, Body(c), UNCHANGED playerVars
  PROVE  FifoInv'
  <1>1. /\ Submitting' = Submitting
        /\ Unsubmitted' = Unsubmitted
        /\ Handed' = Handed
        /\ (pc["fg"] = "mark")' = (pc["fg"] = "mark")
        /\ pc'["fg"] = "enqueue" => pc["fg"] = "enqueue"
    BY BodyHandsNothing DEF FifoHyp, PortHyp, Body, PollNothing, PollReady, PollRefused,
       PollSend, PollAckNext, PollAckDrained, PollAnnounceNext, At, BodyLocations,
       Return, GoTo, playerVars
  <1> USE <1>1 DEF FifoHyp, PortHyp, TypeOK, PcTypeOK, PortTypeOK, LinkTypeOK, ContextInv,
       PortInv, FifoInv, Occupied, BodyLocations, At, InBody, Delivering, OffPort,
       stageVars, linkHistory, playerVars, portVars
  <1>2. CASE PollNothing(c)
    BY <1>2 DEF PollNothing
  <1>3. CASE PollReady(c)
    BY <1>3 DEF PollReady, TakeReply, NoReply, Reply
  <1>4. CASE PollRefused(c)
    BY <1>4 DEF PollRefused, TakeReply, RXDF, Idle, Announced, Commanded, Answered,
       NoReply, Reply
  <1>5. CASE PollSend(c)
    <2>1. base = Len(arrived) + 1 /\ base <= Handed
      BY <1>5, HandedBound, PortAssumption DEF PollSend, Granted, NoReply, Reply, Numbers
    <2>2. content[Buffer(base)] = base
      BY <2>1, HandedBound
    <2>3. QED
      BY <1>5, <2>2 DEF PollSend, SendWord
  <1>6. CASE PollAckNext(c)
    <2>1. posted /\ rx = Reply("ok", "block")
      BY <1>6 DEF PollAckNext, TakeReply, RXDF, Sending, Acked
    <2>2. base' = Len(arrived) + 1 /\ rx' # Reply("ok", "block") /\ posted'
      BY <1>6, <2>1 DEF PollAckNext, TakeReply, NoReply, Reply
    <2>3. QED
      BY <1>6, <2>1, <2>2 DEF PollAckNext, TakeReply
  <1>7. CASE PollAckDrained(c)
    <2>1. posted /\ rx = Reply("ok", "block") /\ pc["fg"] # "mark"
      BY <1>7 DEF PollAckDrained, TakeReply, RXDF, Sending, Acked
    <2>2. QED
      BY <1>7, <2>1 DEF PollAckDrained, TakeReply
  <1>8. CASE PollAnnounceNext(c)
    BY <1>8 DEF PollAnnounceNext, SendWord
  <1>9. QED
    BY <1>2, <1>3, <1>4, <1>5, <1>6, <1>7, <1>8 DEF Body

LEMMA FifoLink ==
  ASSUME FifoHyp, UNCHANGED playerVars, stranded' = {},
         \/ Submit(built)
         \/ \E l \in {"loop", "build", "wait"} : PollWhilePosted(l)
         \/ PollIrq(clock)
  PROVE  FifoInv'
  <1> USE DEF FifoHyp, PortHyp, TypeOK, PcTypeOK, PortTypeOK, LinkTypeOK, ContextInv,
       PortInv, FifoInv, Handed, Submitting, Unsubmitted, Occupied, BodyLocations, At, GoTo, CallPoll,
       OffPort, stageVars, linkHistory, playerVars, portVars
  <1>1. CASE SubmitTestPosted
    BY <1>1 DEF SubmitTestPosted
  <1>2. CASE SubmitTestQueued
    BY <1>2 DEF SubmitTestQueued
  <1>3. CASE Enqueue(built)
    <2>1. posted /\ Handed = built - 1 /\ base = built - 1
      BY <1>3 DEF Enqueue
    <2>2. Handed' = built /\ qbase' = built
      BY <1>3 DEF Enqueue
    <2>3. QED
      BY <1>3, <2>1, <2>2, PortAssumption DEF Enqueue, Numbers
  <1>4. CASE Announce(built)
    BY <1>4, PortAssumption DEF Announce, SendWord, Idle, Numbers, NoReply, Reply
  <1>5. CASE AnnounceMark
    BY <1>5 DEF AnnounceMark
  <1>6. ASSUME NEW l \in {"loop", "build", "wait"}, PollWhilePosted(l) PROVE FifoInv'
    BY <1>6 DEF PollWhilePosted
  <1>7. CASE PollIrq(clock)
    BY <1>7 DEF PollIrq
  <1>8. QED
    BY <1>1, <1>2, <1>3, <1>4, <1>5, <1>6, <1>7 DEF Submit

\* The only block the DSP can take is the announced payload's.
LEMMA BlockIsAnnounced ==
  ASSUME PortHyp, TakeBlock
  PROVE  posted /\ hrx.load = base /\ rx = NoReply
  <1> USE DEF PortHyp, TypeOK, LinkTypeOK, PortInv, TakeBlock, Answer, RXDF, InBody,
       Delivering, Idle, Announced, Commanded, Answered, Granted, Sending, Acked,
       Exchanging, Exchanged, NoWords, Carries, Word, NoWord
  <1>1. Sending
    OBVIOUS
  <1>2. QED
    BY <1>1

LEMMA FifoHardware == ASSUME FifoHyp, Hardware, Healthy' PROVE FifoInv'
  <1>1. /\ UNCHANGED <<pc, back, posted, queued, base, qbase, content, damaged, built>>
        /\ PortTransfer \/ Dsp
    BY DEF Hardware, linkVars, stageVars, linkHistory, playerVars
  <1>2. Handed' = Handed /\ Submitting' = Submitting /\ Unsubmitted' = Unsubmitted
    BY <1>1 DEF Handed, Submitting, Unsubmitted
  <1>3. CASE TakeBlock
    <2>1. posted /\ hrx.load = base /\ base = Len(arrived) + 1
      BY <1>3, BlockIsAnnounced DEF FifoHyp, FifoInv, Occupied, NoReply, Reply
    <2>2. /\ Len(arrived') = Len(arrived) + 1
          /\ \A i \in 1 .. Len(arrived') : arrived'[i] = i
      BY <1>3, <2>1 DEF TakeBlock, FifoHyp, PortHyp, FifoInv, TypeOK, PortTypeOK, LinkTypeOK
    <2>3. rx' = Reply("ok", "block")
      BY <1>3 DEF TakeBlock, Answer
    <2>4. QED
      BY <1>1, <1>2, <2>1, <2>2, <2>3, HandedBound, PortAssumption
         DEF FifoHyp, FifoInv, Occupied, Numbers
  <1>4. CASE ~TakeBlock
    <2>1. arrived' = arrived /\ (rx' = Reply("ok", "block")) = (rx = Reply("ok", "block"))
      BY <1>1, <1>4 DEF PortTransfer, Dsp, TakeRefill, RefuseRefill, SwallowCommand,
         TakeWrite, StopAudio, Handoff, Answer, RXDF, NoReply, Reply
    <2>2. QED
      BY <1>1, <1>2, <2>1 DEF FifoHyp, FifoInv, Occupied
  <1>5. QED
    BY <1>3, <1>4

\* A stranding is remembered.
LEMMA NoneStrandedBefore == [Next]_vars /\ stranded' = {} => stranded = {}
  <1> SUFFICES ASSUME [Next]_vars PROVE stranded' = stranded \/ \E x : stranded' = stranded \cup {x}
    OBVIOUS
  <1> USE DEF linkHistory, linkVars, portVars
  <1>1. CASE Hardware \/ UNCHANGED vars
    BY <1>1 DEF Hardware, vars
  <1>2. CASE Player
    BY <1>2 DEF Player, StageBegin, StageEnd, CheckReply, BatchFull, SongEnds, SecondKey,
       Drain, WaitDone, Cleanup, ExchangeSend, ExchangeMore, ExchangeLast, Local, Step
  <1>3. ASSUME NEW c \in Contexts, Body(c) PROVE stranded' = stranded
    BY <1>3 DEF Body, PollNothing, PollReady, PollRefused, PollSend, PollAckNext,
       PollAckDrained, PollAnnounceNext
  <1>4. CASE Submit(built) \/ \E l \in {"loop", "build", "wait"} : PollWhilePosted(l)
    BY <1>4 DEF Submit, SubmitTestPosted, SubmitTestQueued, Enqueue, Announce,
       AnnounceMark, PollWhilePosted
  <1>5. CASE PollIrq(clock)
    BY <1>5 DEF PollIrq
  <1>6. QED
    BY <1>1, <1>2, <1>3, <1>4, <1>5 DEF Next, Foreground, TimerA

LEMMA FifoStep == IInv /\ [Next]_vars => (Healthy /\ stranded = {} => FifoInv)'
  <1> SUFFICES ASSUME IInv, [Next]_vars, Healthy', stranded' = {} PROVE FifoInv'
    OBVIOUS
  <1>1. FifoHyp
    BY HealthyBefore, NoneStrandedBefore DEF IInv, FifoHyp, PortHyp
  <1>2. CASE Player
    BY <1>1, <1>2, FifoPlayer
  <1>3. CASE Foreground /\ ~Player
    BY <1>1, <1>3, FifoLink, FifoBody DEF Foreground
  <1>4. CASE TimerA
    BY <1>1, <1>4, FifoLink, FifoBody DEF TimerA
  <1>5. CASE Hardware
    BY <1>1, <1>5, FifoHardware
  <1>6. CASE UNCHANGED vars
    BY <1>1, <1>6 DEF FifoHyp, FifoInv, Occupied, Handed, Submitting, Unsubmitted, vars,
       portVars, linkVars, stageVars, linkHistory, playerVars
  <1>7. QED
    BY <1>2, <1>3, <1>4, <1>5, <1>6 DEF Next

LEMMA FifoInitial == Init => FifoInv
  BY PortAssumption DEF Init, PortInit, LinkInit, FifoInv, Handed, Submitting,
     Unsubmitted, Occupied, NoReply, Reply, BodyLocations, Numbers

\* The inductive invariant holds for every number of payloads.
THEOREM Inductive == Spec => []IInv
  <1>1. Init => IInv
    BY TypeInit, PortInitial, FifoInitial DEF Init, IInv, ContextInv, BodyLocations
  <1>2. IInv /\ [Next]_vars => IInv'
    <2> SUFFICES ASSUME IInv, [Next]_vars PROVE IInv'
      OBVIOUS
    <2>1. TypeOK' /\ ContextInv' /\ (Healthy => PortInv)'
      BY TypeStep, ContextStep, PortStep DEF IInv
    <2>2. QED
      BY <2>1, FifoStep DEF IInv
  <1>3. QED
    BY <1>1, <1>2, PTL DEF Spec

\* While no payload has been queued behind an empty pipeline and none refused,
\* the DSP receives the payloads in submission order, without a gap, each from
\* a buffer the producer has not reused.
THEOREM DeliveredIntact == Spec => []IntactUnlessStranded
  <1>1. IInv => IntactUnlessStranded
    BY DEF IInv, FifoInv, IntactUnlessStranded
  <1>2. QED
    BY <1>1, Inductive, PTL
-----------------------------------------------------------------------------
(* Sessions with refusals and stranded payloads.                           *)

SlotHyp == TypeOK /\ ContextInv /\ SlotInv

LEMMA SlotInitial == Init => SlotInv
  BY DEF Init, PortInit, LinkInit, SlotInv, Idle, NoWords, InBody, Delivering, Abandoned,
     BodyLocations

LEMMA SlotPlayer == ASSUME SlotHyp, Player PROVE SlotInv'
  <1> USE DEF SlotHyp, TypeOK, PcTypeOK, LinkTypeOK, ContextInv, SlotInv, BodyLocations,
       PlayerLocations, LinkLocations, At, GoTo, Step, Local, InBody, Delivering, Abandoned,
       stageVars, linkHistory, playerVars
  <1>1. CASE StageBegin \/ StageEnd \/ CheckReply
    BY <1>1 DEF StageBegin, StageEnd, CheckReply, portVars, Idle, Announced, Commanded, Answered,
       Refusal, NoWords, Carries
  <1>2. CASE BatchFull \/ SongEnds \/ SecondKey
    BY <1>2 DEF BatchFull, SongEnds, SecondKey, Drain, portVars, Idle, Announced,
       Commanded, Answered, Refusal, NoWords, Carries
  <1>3. CASE WaitDone
    BY <1>3 DEF WaitDone, portVars, Idle, NoWords
  <1>4. CASE Cleanup
    <2>1. CASE posted
      BY <1>4, <2>1 DEF Cleanup, portVars, Announced, Commanded, Answered, Refusal, NoWords,
         Carries, Word, NoWord, Reply, NoReply
    <2>2. CASE ~posted
      BY <1>4, <2>2 DEF Cleanup, portVars, Idle, NoWords
    <2>3. QED
      BY <2>1, <2>2
  <1>5. CASE ExchangeSend
    <2>1. CASE posted
      BY <1>5, <2>1 DEF ExchangeSend, SendWord, Word
    <2>2. CASE ~posted
      BY <1>5, <2>2 DEF ExchangeSend, SendWord, Idle, NoWords, Exchanging, Carries
    <2>3. QED
      BY <2>1, <2>2
  <1>6. CASE ExchangeMore \/ ExchangeLast
    <2>1. CASE posted
      <3>1. Abandoned /\ goal = "exit"
        BY <1>6, <2>1 DEF ExchangeMore, ExchangeLast
      <3>2. /\ pc'["fg"] \in {"xsend", "done"} /\ pc'["irq"] = pc["irq"]
            /\ UNCHANGED <<clock, goal, tx, hrx, dsp, posted, base>> /\ rx' = NoReply
        BY <1>6, <3>1 DEF ExchangeMore, ExchangeLast, TakeReply
      <3>3. Abandoned'
        BY <2>1, <3>2
      <3>4. NoReply # Reply("ok", "block")
        BY DEF NoReply, Reply
      <3>5. QED
        BY <3>1, <3>2, <3>3, <3>4
    <2>2. CASE ~posted
      BY <1>6, <2>2 DEF ExchangeMore, ExchangeLast, TakeReply, RXDF, Exchanging, Exchanged,
         Idle, NoWords
    <2>3. QED
      BY <2>1, <2>2
  <1>7. QED
    BY <1>1, <1>2, <1>3, <1>4, <1>5, <1>6 DEF Player

LEMMA SlotBody ==
  ASSUME SlotHyp, NEW c \in Contexts, Body(c), UNCHANGED playerVars
  PROVE  SlotInv'
  <1> USE DEF SlotHyp, TypeOK, PcTypeOK, LinkTypeOK, ContextInv, SlotInv, BodyLocations,
       PlayerLocations, LinkLocations, At, GoTo, Return, InBody, Delivering, Abandoned,
       stageVars, linkHistory, playerVars
  <1>0. ~Abandoned
    BY DEF Body, PollNothing, PollReady, PollRefused, PollSend, PollAckNext,
       PollAckDrained, PollAnnounceNext
  <1>1. CASE PollNothing(c)
    BY <1>0, <1>1 DEF PollNothing, RXDF, portVars, Idle, Announced, Commanded, Answered, Refusal,
       NoWords, Carries, Reply, NoReply
  <1>2. CASE PollReady(c)
    BY <1>0, <1>2 DEF PollReady, TakeReply, RXDF, Granted, Idle, Announced, Commanded,
       Answered, Refusal, NoWords, NoReply, Reply
  <1>3. CASE PollRefused(c)
    BY <1>0, <1>3 DEF PollRefused, TakeReply, RXDF, Idle, Announced, Commanded, Answered, Refusal,
       NoWords, NoReply, Reply
  <1>4. CASE PollSend(c)
    BY <1>0, <1>4 DEF PollSend, SendWord, Granted, Sending, NoWords, Carries
  <1>5. CASE PollAckNext(c)
    BY <1>0, <1>5 DEF PollAckNext, TakeReply, RXDF, Sending, Acked, Idle, NoWords, Reply,
       NoReply
  <1>6. CASE PollAckDrained(c)
    BY <1>0, <1>6 DEF PollAckDrained, TakeReply, RXDF, Sending, Acked, Idle, NoWords, Reply,
       NoReply
  <1>7. CASE PollAnnounceNext(c)
    BY <1>0, <1>7 DEF PollAnnounceNext, SendWord, Idle, Announced, Commanded, NoWords, Carries
  <1>8. QED
    BY <1>1, <1>2, <1>3, <1>4, <1>5, <1>6, <1>7 DEF Body

LEMMA SlotLink ==
  ASSUME SlotHyp, UNCHANGED playerVars,
         \/ Submit(built)
         \/ \E l \in {"loop", "build", "wait"} : PollWhilePosted(l)
         \/ PollIrq(clock)
  PROVE  SlotInv'
  <1> USE DEF SlotHyp, TypeOK, PcTypeOK, LinkTypeOK, ContextInv, SlotInv, BodyLocations,
       PlayerLocations, LinkLocations, At, GoTo, CallPoll, InBody, Delivering, Abandoned,
       stageVars, linkHistory, playerVars, portVars, Idle, Announced, Commanded,
       Answered, Refusal, NoWords, Carries
  <1>1. CASE SubmitTestPosted
    BY <1>1 DEF SubmitTestPosted
  <1>2. CASE SubmitTestQueued
    BY <1>2 DEF SubmitTestQueued
  <1>3. CASE Enqueue(built)
    BY <1>3 DEF Enqueue
  <1>4. CASE Announce(built)
    BY <1>4 DEF Announce, SendWord
  <1>5. CASE AnnounceMark
    BY <1>5 DEF AnnounceMark
  <1>6. ASSUME NEW l \in {"loop", "build", "wait"}, PollWhilePosted(l) PROVE SlotInv'
    BY <1>6 DEF PollWhilePosted
  <1>7. CASE PollIrq(clock)
    BY <1>7 DEF PollIrq, RXDF, Masked
  <1>8. QED
    BY <1>1, <1>2, <1>3, <1>4, <1>5, <1>6, <1>7 DEF Submit

\* What the hardware makes of each state of the port.
LEMMA SlotHardwareSteps ==
  ASSUME TypeOK, Hardware
  PROVE  /\ Idle => Idle'
         /\ Announced \/ Refusal => (Announced \/ Refusal)'
         /\ Answered \/ Refusal => (Answered \/ Refusal)'
         /\ Granted => Granted'
         /\ Sending => Sending' \/ Acked'
         /\ Acked => Acked'
         /\ Exchanging => Exchanging' \/ Exchanged'
         /\ Exchanged => Exchanged'
         /\ /\ \A w \in {tx, hrx} : w.kind # "block" /\ (w.kind = "refill" => w.load = base)
            /\ tx.kind # "refill" \/ hrx.kind # "refill"
            /\ rx # Reply("ok", "block")
            => (/\ \A w \in {tx, hrx} : w.kind # "block" /\ (w.kind = "refill" => w.load = base)
                /\ tx.kind # "refill" \/ hrx.kind # "refill"
                /\ rx # Reply("ok", "block"))'
  <1> USE DEF Hardware, TypeOK, linkVars, stageVars, playerVars, NoWords, Carries, Idle,
       Announced, Commanded, Answered, Refusal, Granted, Sending, Acked, Exchanging, Exchanged,
       RXDF, TXDE, NoWord, NoReply, Word, Reply
  <1>1. CASE PortTransfer
    BY <1>1 DEF PortTransfer
  <1>2. CASE TakeRefill
    BY <1>2 DEF TakeRefill, Answer
  <1>3. CASE RefuseRefill
    BY <1>3 DEF RefuseRefill, Answer
  <1>4. CASE TakeBlock
    BY <1>4 DEF TakeBlock, Answer
  <1>5. CASE SwallowCommand
    BY <1>5 DEF SwallowCommand
  <1>6. CASE TakeWrite
    BY <1>6 DEF TakeWrite, Answer
  <1>7. CASE StopAudio
    BY <1>7 DEF StopAudio, Answer
  <1>8. CASE Handoff
    BY <1>8 DEF Handoff
  <1>9. QED
    BY <1>1, <1>2, <1>3, <1>4, <1>5, <1>6, <1>7, <1>8 DEF Dsp

LEMMA SlotHardware == ASSUME SlotHyp, Hardware PROVE SlotInv'
  <1>1. UNCHANGED <<pc, back, posted, queued, base, reply, clock, goal, cmd>>
    BY DEF Hardware, linkVars, stageVars, playerVars
  <1>2. SlotInv /\ TypeOK
    BY DEF SlotHyp
  <1>3. QED
    BY <1>1, <1>2, SlotHardwareSteps DEF SlotInv, InBody, Delivering, Abandoned

LEMMA SlotStep == SlotHyp /\ [Next]_vars => SlotInv'
  <1> SUFFICES ASSUME SlotHyp, [Next]_vars PROVE SlotInv'
    OBVIOUS
  <1>1. CASE Player
    BY <1>1, SlotPlayer
  <1>2. CASE Foreground /\ ~Player
    BY <1>2, SlotLink, SlotBody DEF Foreground
  <1>3. CASE TimerA
    BY <1>3, SlotLink, SlotBody DEF TimerA
  <1>4. CASE Hardware
    BY <1>4, SlotHardware
  <1>5. CASE UNCHANGED vars
    BY <1>5 DEF SlotHyp, SlotInv, Abandoned, vars, portVars, linkVars, stageVars, playerVars,
       InBody, Delivering, Idle, Announced, Commanded, Answered, Refusal, Granted, Sending, Acked,
       Exchanging, Exchanged, NoWords, Carries
  <1>6. QED
    BY <1>1, <1>2, <1>3, <1>4, <1>5 DEF Next

NumberHyp == SlotHyp /\ NumberInv

LEMMA NumberInitial == Init => NumberInv
  BY PortAssumption DEF Init, PortInit, LinkInit, NumberInv, LostNeverSent, Settled, Sent, Handed,
     Submitting, Unsubmitted, Occupied, Abandoned, BodyLocations, Numbers

LEMMA HandedType == ASSUME NumberHyp PROVE Handed \in Nat /\ Handed \in {built, built - 1} /\ built \in Nat
  BY PortAssumption DEF NumberHyp, SlotHyp, TypeOK, NumberInv, Handed, Numbers

LEMMA SettledSame ==
  ASSUME UNCHANGED <<arrived, refused, dropped>>
  PROVE  Settled' = Settled /\ LostNeverSent' = LostNeverSent /\ Sent' = Sent
  BY DEF Settled, Sent, LostNeverSent

LEMMA SettledNumbers == ASSUME TypeOK PROVE Settled \subseteq Numbers
  BY DEF TypeOK, PortTypeOK, LinkTypeOK, Settled, Sent

LEMMA NumberPlayer == ASSUME NumberHyp, Player PROVE NumberInv'
  <1> USE DEF NumberHyp, SlotHyp, TypeOK, PcTypeOK, LinkTypeOK, SlotInv, At, GoTo, Step, Local,
       stageVars, linkHistory, playerVars, BodyLocations
  <1>1. UNCHANGED <<arrived, refused, dropped, posted, queued, base, qbase>>
    BY DEF Player, StageBegin, StageEnd, CheckReply, BatchFull, SongEnds, SecondKey, Drain,
       WaitDone, Cleanup, ExchangeSend, ExchangeMore, ExchangeLast, portVars, SendWord, TakeReply
  <1>2. Settled' = Settled /\ LostNeverSent' /\ Sent' = Sent
    BY <1>1, SettledSame DEF NumberInv
  <1>3. CASE StageBegin
    <2>1. Handed = built /\ Handed' = Handed /\ Submitting' /\ built' > 0
      BY <1>3, HandedType DEF StageBegin, Handed, Submitting, Unsubmitted
    <2>2. UNCHANGED portVars /\ ~Abandoned /\ ~Abandoned' /\ Occupied' = Occupied
      BY <1>1, <1>3 DEF StageBegin, Abandoned, Occupied
    <2>3. QED
      BY <1>1, <1>2, <1>3, <2>1, <2>2 DEF StageBegin, NumberInv, portVars, Acked, Refusal, NoWords
  <1>4. CASE StageEnd
    <2>1. Handed' = Handed /\ Submitting' /\ built > 0 /\ built' = built
      BY <1>4 DEF StageEnd, Handed, Submitting, Unsubmitted, NumberInv
    <2>2. UNCHANGED portVars /\ ~Abandoned /\ ~Abandoned' /\ Occupied' = Occupied
      BY <1>1, <1>4 DEF StageEnd, Abandoned, Occupied
    <2>3. QED
      BY <1>1, <1>2, <1>4, <2>1, <2>2 DEF StageEnd, NumberInv, portVars, Acked, Refusal, NoWords
  <1>5. CASE CheckReply \/ BatchFull \/ SongEnds \/ SecondKey \/ WaitDone \/ Cleanup
    <2>1. /\ UNCHANGED <<portVars, built, back>>
          /\ pc["fg"] \in {"check", "loop", "wait", "cleanup"}
          /\ pc'["fg"] \in {"loop", "cleanup", "wait", "xsend"}
      BY <1>5 DEF CheckReply, BatchFull, SongEnds, SecondKey, Drain, WaitDone, Cleanup
    <2>2. Handed' = Handed /\ ~Submitting' /\ Occupied' = Occupied
      BY <1>1, <2>1 DEF Handed, Submitting, Unsubmitted, Occupied
    <2>3. ~Abandoned /\ (Abandoned' => Announced \/ Refusal)
      BY <1>5, <2>1, <1>1 DEF Abandoned, Delivering, InBody, CheckReply, BatchFull, SongEnds,
         SecondKey, Drain, WaitDone, Cleanup
    <2>4. /\ Acked' = Acked /\ Refusal' = Refusal
          /\ Announced /\ ~Refusal => ~Acked
          /\ Refusal => "refill" \notin {tx'.kind, hrx'.kind}
      BY <2>1 DEF portVars, Acked, Refusal, Announced, Commanded, Answered, NoWords, NoWord, Word,
         Reply, NoReply
    <2>5. Abandoned' => Occupied
      BY <1>1 DEF Abandoned, Occupied
    <2>6. QED
      BY <1>1, <1>2, <2>1, <2>2, <2>3, <2>4, <2>5 DEF NumberInv
  <1>6. CASE ExchangeSend \/ ExchangeMore \/ ExchangeLast
    <2>1. /\ UNCHANGED <<built, back>>
          /\ pc["fg"] \in {"xsend", "xrecv"}
          /\ pc'["fg"] \in {"xsend", "xrecv", "loop", "done"}
      BY <1>6 DEF ExchangeSend, ExchangeMore, ExchangeLast
    <2>2. Handed' = Handed /\ ~Submitting' /\ (Occupied' = Occupied) /\ (Occupied <=> posted)
      BY <1>1, <2>1 DEF Handed, Submitting, Unsubmitted, Occupied
    <2>3. posted => Abandoned
      BY <2>1 DEF Abandoned
    <2>4. Abandoned => Abandoned'
      BY <1>1, <1>6, <2>1 DEF Abandoned, ExchangeSend, ExchangeMore, ExchangeLast
    <2>5. "refill" \in {tx'.kind, hrx'.kind} => "refill" \in {tx.kind, hrx.kind}
      BY <1>6 DEF ExchangeSend, ExchangeMore, ExchangeLast, SendWord, TakeReply, Word
    <2>6. pc'["fg"] # "enqueue"
      BY <2>1
    <2>7. Occupied' => Abandoned'
      BY <2>2, <2>3, <2>4
    <2>8. Abandoned' => Abandoned
      BY <1>1, <2>1, <2>3 DEF Abandoned
    <2>9. (queued => qbase <= Handed /\ qbase \notin Settled /\ (Occupied => qbase # base))'
      BY <1>1, <1>2, <2>2 DEF NumberInv
    <2>10. (\A n \in Settled : n <= Handed)' /\ (Occupied => base <= Handed)'
      BY <1>1, <1>2, <2>2 DEF NumberInv
    <2>11. (Abandoned /\ "refill" \in {tx.kind, hrx.kind} => base \notin Settled)'
      BY <1>1, <1>2, <2>5, <2>8 DEF NumberInv
    <2>12. ~Acked' \/ ~Occupied'
      BY <1>6, <2>2, <2>3 DEF ExchangeSend, ExchangeMore, ExchangeLast, SendWord, TakeReply,
         Acked, Abandoned, NoReply, Reply
    <2>13. Refusal' => Refusal
      BY <1>6 DEF ExchangeSend, ExchangeMore, ExchangeLast, SendWord, TakeReply, Refusal, NoWords,
         NoWord, Word, NoReply, Reply
    <2>14. QED
      BY <1>1, <1>2, <2>2, <2>6, <2>7, <2>9, <2>10, <2>11, <2>12, <2>13 DEF NumberInv
  <1>7. QED
    BY <1>3, <1>4, <1>5, <1>6 DEF Player

LEMMA NumberBody ==
  ASSUME NumberHyp, NEW c \in Contexts, Body(c), UNCHANGED playerVars
  PROVE  NumberInv'
  <1>1. /\ Submitting' = Submitting
        /\ Handed' = Handed
        /\ (pc["fg"] = "mark")' = (pc["fg"] = "mark")
        /\ pc'["fg"] = "enqueue" => pc["fg"] = "enqueue"
    BY BodyHandsNothing DEF NumberHyp, SlotHyp, Body, PollNothing, PollReady, PollRefused,
       PollSend, PollAckNext, PollAckDrained, PollAnnounceNext, At, BodyLocations,
       Return, GoTo, playerVars
  <1>2. UNCHANGED <<arrived, refused, built>> /\ SlotInv' /\ SlotInv /\ Sent' = Sent
    BY SlotBody DEF Sent, NumberHyp, Body, PollNothing, PollReady, PollRefused, PollSend, PollAckNext,
       PollAckDrained, PollAnnounceNext, SendWord, TakeReply, portVars, playerVars, SlotHyp
  <1>3. ~Abandoned /\ ~Abandoned'
    <2> USE DEF NumberHyp, SlotHyp, TypeOK, PcTypeOK, LinkTypeOK, ContextInv, At, BodyLocations
    <2>1. pc[c] \in BodyLocations /\ pc["fg"] \notin {"xsend", "xrecv", "done"}
      BY <1>2 DEF Body, PollNothing, PollReady, PollRefused, PollSend, PollAckNext,
         PollAckDrained, PollAnnounceNext, SlotInv, Abandoned, PlayerLocations, LinkLocations
    <2>2. pc'["fg"] \notin {"xsend", "xrecv", "done"}
      BY <2>1 DEF Body, PollNothing, PollReady, PollRefused, PollSend, PollAckNext,
         PollAckDrained, PollAnnounceNext, GoTo, Return
    <2>3. QED
      BY <2>1, <2>2 DEF Abandoned
  <1> USE <1>1 DEF NumberHyp, SlotHyp, TypeOK, PcTypeOK, PortTypeOK, LinkTypeOK, ContextInv,
       SlotInv, NumberInv, Occupied, BodyLocations, At, InBody, Delivering,
       stageVars, linkHistory, playerVars, portVars
  <1>4. CASE PollNothing(c)
    BY <1>2, <1>3, <1>4, SettledSame DEF PollNothing, Acked, Refusal, NoWords
  <1>5. CASE PollReady(c)
    <2>1. ~Acked /\ ~Refusal /\ ~Acked' /\ ~Refusal'
      BY <1>5 DEF PollReady, TakeReply, Acked, Refusal, Reply, NoReply
    <2>2. QED
      BY <1>3, <1>5, <2>1, SettledSame DEF PollReady, TakeReply
  <1>6. CASE PollRefused(c)
    <2>1. queued => qbase \notin Sent /\ qbase <= Handed
      BY DEF Settled
    <2>2. Settled' = Settled \cup (dropped' \ dropped) /\ dropped' \subseteq dropped \cup {qbase}
      BY <1>2, <1>6 DEF PollRefused, Settled, Sent
    <2>3. LostNeverSent' /\ \A n \in Settled' : n <= Handed
      BY <1>2, <1>6, <2>1 DEF PollRefused, LostNeverSent, Settled, Sent
    <2>4. pc["fg"] # "mark"
      BY <1>6 DEF PollRefused
    <2>5. ~Occupied' /\ ~queued'
      BY <1>6, <2>4 DEF PollRefused
    <2>6. QED
      BY <1>3, <1>2, <1>6, <2>3, <2>5 DEF PollRefused
  <1>7. CASE PollSend(c)
    <2>1. ~Acked /\ ~Refusal /\ ~Acked' /\ ~Refusal'
      BY <1>7 DEF PollSend, SendWord, Granted, Acked, Refusal, Reply, NoReply
    <2>2. QED
      BY <1>3, <1>7, <2>1, SettledSame DEF PollSend, SendWord
  <1>8. CASE PollAckNext(c)
    <2>1. posted /\ queued /\ base' = qbase /\ ~queued' /\ Settled' = Settled /\ LostNeverSent'
          /\ posted' = posted
      BY <1>2, <1>8, SettledSame DEF PollAckNext
    <2>2. base' <= Handed /\ base' \notin Settled
      BY <2>1
    <2>3. ~Acked' /\ ~Refusal'
      BY <1>8 DEF PollAckNext, TakeReply, Acked, Refusal, Reply, NoReply
    <2>4. QED
      BY <1>3, <2>1, <2>2, <2>3
  <1>9. CASE PollAckDrained(c)
    <2>1. ~Occupied' /\ ~queued'
      BY <1>9 DEF PollAckDrained
    <2>2. QED
      BY <1>2, <1>3, <1>9, <2>1, SettledSame DEF PollAckDrained
  <1>10. CASE PollAnnounceNext(c)
    <2>1. ~Acked /\ ~Refusal /\ ~Acked' /\ ~Refusal'
      BY <1>10 DEF PollAnnounceNext, SendWord, Idle, Acked, Refusal, Reply, NoReply
    <2>2. QED
      BY <1>3, <1>10, <2>1, SettledSame DEF PollAnnounceNext, SendWord
  <1>11. QED
    BY <1>4, <1>5, <1>6, <1>7, <1>8, <1>9, <1>10 DEF Body

LEMMA NumberLink ==
  ASSUME NumberHyp, UNCHANGED playerVars,
         \/ Submit(built)
         \/ \E l \in {"loop", "build", "wait"} : PollWhilePosted(l)
         \/ PollIrq(clock)
  PROVE  NumberInv'
  <1>1. UNCHANGED <<arrived, refused, dropped, built>>
    BY DEF Submit, SubmitTestPosted, SubmitTestQueued, Enqueue, Announce, AnnounceMark,
       PollWhilePosted, PollIrq, SendWord, portVars, linkHistory, playerVars
  <1>2. Settled' = Settled /\ LostNeverSent' /\ Sent' = Sent
    BY <1>1, SettledSame DEF NumberHyp, NumberInv
  <1>3. ~Abandoned /\ ~Abandoned'
    BY DEF NumberHyp, SlotHyp, TypeOK, PcTypeOK, LinkTypeOK, Submit, SubmitTestPosted, SubmitTestQueued,
       Enqueue, Announce, AnnounceMark, PollWhilePosted, PollIrq, Abandoned, SlotInv, At, GoTo, CallPoll,
       BodyLocations
  <1> USE <1>1, <1>2, <1>3 DEF NumberHyp, SlotHyp, TypeOK, PcTypeOK, PortTypeOK, LinkTypeOK, ContextInv,
       SlotInv, NumberInv, Handed, Submitting, Unsubmitted, Occupied, BodyLocations, At, GoTo, CallPoll,
       stageVars, linkHistory, playerVars, portVars, Acked, Refusal, NoWords
  <1>4. CASE SubmitTestPosted
    BY <1>4 DEF SubmitTestPosted
  <1>5. CASE SubmitTestQueued
    BY <1>5 DEF SubmitTestQueued
  <1>6. CASE Enqueue(built)
    <2>1. Handed = built - 1 /\ Handed' = built /\ built \in Nat
      BY <1>6, PortAssumption DEF Enqueue, Numbers
    <2>2. built \notin Settled /\ (Occupied => base # built)
      BY <2>1, PortAssumption DEF Numbers
    <2>3. \A n \in Settled : n <= built
      BY <2>1, SettledNumbers, PortAssumption DEF Numbers
    <2>4. QED
      BY <1>6, <2>1, <2>2, <2>3, PortAssumption DEF Enqueue, Numbers
  <1>7. CASE Announce(built)
    <2>1. Handed = built - 1 /\ Handed' = built /\ built \in Nat
      BY <1>7, PortAssumption DEF Announce, Numbers
    <2>2. built \notin Settled /\ (queued => qbase # built)
      BY <2>1, PortAssumption DEF Numbers
    <2>3. \A n \in Settled : n <= built
      BY <2>1, SettledNumbers, PortAssumption DEF Numbers
    <2>4. ~Acked' /\ ~Refusal'
      BY <1>7 DEF Announce, SendWord, Idle, Reply, NoReply
    <2>5. QED
      BY <1>7, <2>4, <2>1, <2>2, <2>3, PortAssumption DEF Announce, Numbers, SendWord
  <1>8. CASE AnnounceMark
    BY <1>8 DEF AnnounceMark
  <1>9. ASSUME NEW l \in {"loop", "build", "wait"}, PollWhilePosted(l) PROVE NumberInv'
    BY <1>9 DEF PollWhilePosted
  <1>10. CASE PollIrq(clock)
    BY <1>10 DEF PollIrq
  <1>11. QED
    BY <1>4, <1>5, <1>6, <1>7, <1>8, <1>9, <1>10 DEF Submit

\* A block on the port is the announced payload's, also after a refusal.
LEMMA BlockIsUnsettled ==
  ASSUME NumberHyp, TakeBlock
  PROVE  Occupied /\ ~Abandoned /\ hrx.load = base /\ base \notin Settled
  <1>1. Sending /\ posted /\ ~Abandoned
    BY DEF NumberHyp, SlotHyp, TypeOK, LinkTypeOK, SlotInv, TakeBlock, Answer, RXDF, InBody,
       Delivering, Idle, Announced, Commanded, Answered, Refusal, Granted, Sending, Acked,
       Exchanging, Exchanged, NoWords, Carries, Word, NoWord, Abandoned
  <1>2. hrx.load = base /\ ~Acked /\ ~Refusal
    BY <1>1 DEF TakeBlock, Answer, Sending, Carries, Acked, Refusal, NoWord, Word, Reply, NoReply
  <1>3. QED
    BY <1>1, <1>2 DEF NumberHyp, NumberInv, Occupied

\* A command the DSP refuses is the announced payload's.
LEMMA RefusedIsUnsettled ==
  ASSUME NumberHyp, RefuseRefill
  PROVE  Occupied /\ hrx.load = base /\ base \notin Settled
  <1>1. hrx.kind = "refill" /\ rx = NoReply
    BY DEF RefuseRefill, Answer, RXDF
  <1>2. CASE Abandoned
    BY <1>1, <1>2 DEF NumberHyp, SlotHyp, SlotInv, NumberInv, Abandoned, Occupied
  <1>3. CASE ~Abandoned
    <2>1. Commanded /\ Occupied
      BY <1>1, <1>3 DEF NumberHyp, SlotHyp, TypeOK, LinkTypeOK, SlotInv, InBody,
         Delivering, Idle, Announced, Commanded, Answered, Refusal, Granted, Sending, Acked,
         Exchanging, Exchanged, NoWords, Carries, Word, NoWord, Abandoned, Occupied, Reply, NoReply
    <2>2. hrx.load = base /\ ~Acked /\ ~Refusal
      BY <1>1, <2>1 DEF Commanded, Carries, Acked, Refusal, NoWord, Word, Reply, NoReply
    <2>3. QED
      BY <1>3, <2>1, <2>2 DEF NumberHyp, NumberInv
  <1>4. QED
    BY <1>2, <1>3

LEMMA NumberHardware == ASSUME NumberHyp, Hardware PROVE NumberInv'
  <1>1. /\ UNCHANGED <<pc, back, posted, queued, base, qbase, dropped, built>>
        /\ PortTransfer \/ Dsp
    BY DEF Hardware, linkVars, stageVars, linkHistory, playerVars
  <1>2. Handed' = Handed /\ Submitting' = Submitting /\ Occupied' = Occupied /\ Abandoned' = Abandoned
    BY <1>1 DEF Handed, Submitting, Unsubmitted, Occupied, Abandoned
  <1>3. NumberInv
    BY DEF NumberHyp
  <1>4. CASE TakeBlock
    <2>1. Occupied /\ ~Abandoned /\ hrx.load = base /\ base \notin Settled
      BY <1>4, BlockIsUnsettled
    <2>2. Sent' = Sent \cup {base} /\ refused' = refused
      BY <1>4, <2>1 DEF TakeBlock, Sent, NumberHyp, SlotHyp, TypeOK, PortTypeOK
    <2>3. Settled' = Settled \cup {base} /\ LostNeverSent'
      BY <1>1, <1>3, <2>1, <2>2 DEF Settled, NumberInv, LostNeverSent
    <2>4. Acked' /\ ~Refusal'
      <3>1. NoWords'
        BY <1>4 DEF NumberHyp, SlotHyp, TypeOK, LinkTypeOK, SlotInv, TakeBlock, Answer, RXDF, InBody,
           Delivering, Idle, Announced, Commanded, Answered, Refusal, Granted, Sending, Acked,
           Exchanging, Exchanged, NoWords, Carries, Word, NoWord, Abandoned
      <3>2. QED
        BY <1>4, <3>1 DEF TakeBlock, Answer, Acked, Refusal, Reply
    <2>5. QED
      BY <1>1, <1>2, <1>3, <2>1, <2>2, <2>3, <2>4 DEF NumberInv
  <1>5. CASE RefuseRefill
    <2>1. Occupied /\ hrx.load = base /\ base \notin Settled
      BY <1>5, RefusedIsUnsettled
    <2>2. Sent' = Sent /\ refused' = refused \cup {base}
      BY <1>5, <2>1 DEF RefuseRefill, Sent
    <2>3. Settled' = Settled \cup {base} /\ LostNeverSent'
      BY <1>1, <1>3, <2>1, <2>2 DEF Settled, NumberInv, LostNeverSent
    <2>4. (~Abandoned => Refusal') /\ (Abandoned => "refill" \notin {tx'.kind, hrx'.kind})
      <3>1. (~Abandoned => tx = NoWord) /\ tx.kind # "refill"
        BY <1>5 DEF NumberHyp, SlotHyp, TypeOK, LinkTypeOK, SlotInv, RefuseRefill, Answer, RXDF, InBody,
           Delivering, Idle, Announced, Commanded, Answered, Refusal, Granted, Sending, Acked,
           Exchanging, Exchanged, NoWords, Carries, Word, NoWord, Abandoned
      <3>2. QED
        BY <1>5, <3>1 DEF RefuseRefill, Answer, Refusal, NoWords, NoWord, Word
    <2>5. ~Acked'
      BY <1>5 DEF RefuseRefill, Answer, Acked, Reply
    <2>6. QED
      BY <1>1, <1>2, <1>3, <2>1, <2>2, <2>3, <2>4, <2>5 DEF NumberInv
  <1>6. CASE ~TakeBlock /\ ~RefuseRefill
    <2>1. UNCHANGED <<arrived, refused>>
      BY <1>1, <1>6 DEF PortTransfer, Dsp, TakeRefill, SwallowCommand, TakeWrite, StopAudio, Handoff
    <2>2. Settled' = Settled /\ LostNeverSent' /\ Sent' = Sent
      BY <1>1, <1>3, <2>1, SettledSame DEF NumberInv
    <2>3. "refill" \in {tx'.kind, hrx'.kind} => "refill" \in {tx.kind, hrx.kind}
      BY <1>1, <1>6 DEF PortTransfer, Dsp, TakeRefill, SwallowCommand, TakeWrite, StopAudio, Handoff,
         Answer, NoWord, Word
    <2>4. (Acked' <=> Acked) /\ (Refusal' <=> Refusal)
      <3> USE DEF Acked, Refusal, NoWords, NoWord, Word, Reply, NoReply
      <3>1. CASE PortTransfer \/ Handoff \/ SwallowCommand
        BY <3>1 DEF PortTransfer, Handoff, SwallowCommand, TXDE
      <3>2. CASE TakeRefill \/ TakeWrite \/ StopAudio
        BY <3>2 DEF TakeRefill, TakeWrite, StopAudio, Answer, RXDF
      <3>3. QED
        BY <1>1, <1>6, <3>1, <3>2 DEF Dsp
    <2>5. QED
      BY <1>1, <1>2, <1>3, <2>1, <2>2, <2>3, <2>4 DEF NumberInv
  <1>7. QED
    BY <1>4, <1>5, <1>6

LEMMA NumberStep == LostInv /\ [Next]_vars => NumberInv'
  <1> SUFFICES ASSUME LostInv, [Next]_vars PROVE NumberInv'
    OBVIOUS
  <1>1. NumberHyp
    BY DEF LostInv, NumberHyp, SlotHyp
  <1>2. CASE Player
    BY <1>1, <1>2, NumberPlayer
  <1>3. CASE Foreground /\ ~Player
    BY <1>1, <1>3, NumberLink, NumberBody DEF Foreground
  <1>4. CASE TimerA
    BY <1>1, <1>4, NumberLink, NumberBody DEF TimerA
  <1>5. CASE Hardware
    BY <1>1, <1>5, NumberHardware
  <1>6. CASE UNCHANGED vars
    BY <1>1, <1>6, SettledSame DEF NumberHyp, NumberInv, Occupied, Abandoned, Acked, Refusal, NoWords,
       Handed, Submitting, Unsubmitted, vars, portVars, linkVars, stageVars, linkHistory, playerVars
  <1>7. QED
    BY <1>2, <1>3, <1>4, <1>5, <1>6 DEF Next

\* LostInv is inductive and holds of every reachable state, however often the
\* DSP refuses, whatever the tick strands, and on the error exit, which may
\* leave with a payload announced (dsp_link.s:200-202).
LEMMA LostInductive == Spec => []LostInv
  <1>1. Init => LostInv
    BY TypeInit, SlotInitial, NumberInitial DEF Init, LostInv, ContextInv, BodyLocations
  <1>2. LostInv /\ [Next]_vars => LostInv'
    <2> SUFFICES ASSUME LostInv, [Next]_vars PROVE LostInv'
      OBVIOUS
    <2>1. SlotHyp
      BY DEF LostInv, SlotHyp
    <2>2. QED
      BY <2>1, TypeStep, ContextStep, SlotStep, NumberStep DEF LostInv
  <1>3. QED
    BY <1>1, <1>2, PTL DEF Spec

\* A payload lost to a refusal is never sent afterwards.
THEOREM LostStaysLost == Spec => []LostNeverSent
  <1>1. LostInv => LostNeverSent
    BY DEF LostInv, NumberInv
  <1>2. QED
    BY <1>1, LostInductive, PTL
-----------------------------------------------------------------------------
(* The refinement.                                                         *)

\* Two sequences of at most two payloads are equal when they agree.
LEMMA SamePair ==
  \A s, t \in Seq(Numbers) :
     Len(s) = Len(t) /\ Len(s) <= 2 /\ (Len(s) >= 1 => s[1] = t[1]) /\ (Len(s) = 2 => s[2] = t[2])
       => s = t
  <1> SUFFICES ASSUME NEW s \in Seq(Numbers), NEW t \in Seq(Numbers), Len(s) = Len(t), Len(s) <= 2,
                      Len(s) >= 1 => s[1] = t[1], Len(s) = 2 => s[2] = t[2]
               PROVE  s = t
    OBVIOUS
  <1>1. \A i \in 1 .. Len(s) : s[i] = t[i]
    BY LenProperties
  <1>2. QED
    BY <1>1, SeqEqual

LEMMA Pairs ==
  ASSUME NEW a \in Numbers, NEW b \in Numbers
  PROVE  /\ <<a>> \o <<>> = <<a>> /\ <<>> \o <<a>> = <<a>> /\ <<a>> \o <<b>> = <<a, b>>
         /\ Append(<<>>, a) = <<a>> /\ Append(<<a>>, b) = <<a, b>>
         /\ Pipe!RemoveAt(<<a>>, 1) = <<>>
         /\ Pipe!RemoveAt(<<a, b>>, 1) = <<b>> /\ Pipe!RemoveAt(<<a, b>>, 2) = <<a>>
         /\ <<>> \o <<>> = <<>>
  <1>1. /\ <<>> \in Seq(Numbers) /\ Len(<<>>) = 0
        /\ <<a>> \in Seq(Numbers) /\ Len(<<a>>) = 1 /\ <<a>>[1] = a
        /\ <<b>> \in Seq(Numbers) /\ Len(<<b>>) = 1 /\ <<b>>[1] = b
        /\ <<a, b>> \in Seq(Numbers) /\ Len(<<a, b>>) = 2 /\ <<a, b>>[1] = a /\ <<a, b>>[2] = b
    OBVIOUS
  <1>2. \A s \in Seq(Numbers) : <<>> \o s = s /\ s \o <<>> = s
    BY ConcatEmptySeq
  <1>3. <<a>> \o <<b>> = <<a, b>>
    <2> DEFINE c == <<a>> \o <<b>>
    <2>1. c \in Seq(Numbers)
      BY <1>1, ConcatProperties
    <2>2. Len(c) = Len(<<a>>) + Len(<<b>>)
      BY <1>1, ConcatProperties
    <2>3. \A i \in 1 .. (Len(<<a>>) + Len(<<b>>)) :
            c[i] = IF i <= Len(<<a>>) THEN <<a>>[i] ELSE <<b>>[i - Len(<<a>>)]
      BY <1>1, ConcatProperties
    <2> HIDE DEF c
    <2>4. c[1] = a /\ c[2] = b /\ Len(c) = 2
      BY <1>1, <2>2, <2>3
    <2>5. c = <<a, b>>
      BY <1>1, <2>1, <2>4, SamePair
    <2>6. QED
      BY <2>5 DEF c
  <1>4. Append(<<>>, a) = <<a>> /\ Append(<<a>>, b) = <<a, b>>
    <2> DEFINE c == Append(<<>>, a)
               d == Append(<<a>>, b)
    <2>1. c \in Seq(Numbers) /\ Len(c) = 1 /\ c[1] = a
      BY <1>1, AppendProperties
    <2>2. d \in Seq(Numbers) /\ Len(d) = 2 /\ d[1] = a /\ d[2] = b
      BY <1>1, AppendProperties
    <2> HIDE DEF c, d
    <2>3. c = <<a>> /\ d = <<a, b>>
      BY <1>1, <2>1, <2>2, SamePair
    <2>4. QED
      BY <2>3 DEF c, d
  <1>5. /\ SubSeq(<<a>>, 1, 1 - 1) = <<>> /\ SubSeq(<<a>>, 1 + 1, 1) = <<>>
        /\ SubSeq(<<a, b>>, 1, 1 - 1) = <<>> /\ SubSeq(<<a, b>>, 2 + 1, 2) = <<>>
    BY SubSeqEmpty
  <1>6. SubSeq(<<a, b>>, 1 + 1, 2) = <<b>>
    <2>1. \A i \in 2 .. 2 : <<a, b>>[i] \in Numbers
      BY <1>1
    <2> DEFINE c == SubSeq(<<a, b>>, 1 + 1, 2)
    <2>2. c \in Seq(Numbers) /\ Len(c) = 1 /\ c[1] = b
      BY <1>1, <2>1, SubSeqProperties
    <2> HIDE DEF c
    <2>3. c = <<b>>
      BY <1>1, <2>2, SamePair
    <2>4. QED
      BY <2>3 DEF c
  <1>7. SubSeq(<<a, b>>, 1, 2 - 1) = <<a>>
    <2>1. \A i \in 1 .. 1 : <<a, b>>[i] \in Numbers
      BY <1>1
    <2> DEFINE c == SubSeq(<<a, b>>, 1, 2 - 1)
    <2>2. c \in Seq(Numbers) /\ Len(c) = 1 /\ c[1] = a
      BY <1>1, <2>1, SubSeqProperties
    <2> HIDE DEF c
    <2>3. c = <<a>>
      BY <1>1, <2>2, SamePair
    <2>4. QED
      BY <2>3 DEF c
  <1>8. QED
    BY <1>1, <1>2, <1>3, <1>4, <1>5, <1>6, <1>7 DEF Pipe!RemoveAt

LEMMA WaitingSame ==
  ASSUME UNCHANGED <<base, queued, qbase>>, Occupied' = Occupied, Sent' = Sent
  PROVE  Waiting' = Waiting
  BY DEF Waiting, InSlot, InQueue

\* The player's own steps hand nothing over.
LEMMA PlayerHandsNothing ==
  ASSUME NumberHyp, Player
  PROVE  /\ Handed' = Handed /\ Occupied' = Occupied
         /\ UNCHANGED <<arrived, base, queued, qbase>>
  <1> USE DEF NumberHyp, SlotHyp, TypeOK, PcTypeOK, LinkTypeOK, At, GoTo, Step, Local,
       stageVars, linkHistory, playerVars, BodyLocations
  <1>1. UNCHANGED <<arrived, posted, queued, base, qbase>>
    BY DEF Player, StageBegin, StageEnd, CheckReply, BatchFull, SongEnds, SecondKey, Drain,
       WaitDone, Cleanup, ExchangeSend, ExchangeMore, ExchangeLast, portVars, SendWord, TakeReply
  <1>2. CASE StageBegin
    BY <1>1, <1>2, PortAssumption DEF StageBegin, Handed, Submitting, Unsubmitted, Occupied, Numbers
  <1>3. CASE StageEnd
    BY <1>1, <1>3 DEF StageEnd, Handed, Submitting, Unsubmitted, Occupied
  <1>4. CASE CheckReply \/ BatchFull \/ SongEnds \/ SecondKey \/ WaitDone \/ Cleanup
             \/ ExchangeSend \/ ExchangeMore \/ ExchangeLast
    <2>1. /\ UNCHANGED <<built, back>>
          /\ pc["fg"] \in {"check", "loop", "wait", "cleanup", "xsend", "xrecv"}
          /\ pc'["fg"] \in {"loop", "cleanup", "wait", "xsend", "xrecv", "done"}
      BY <1>4 DEF CheckReply, BatchFull, SongEnds, SecondKey, Drain, WaitDone, Cleanup,
         ExchangeSend, ExchangeMore, ExchangeLast
    <2>2. QED
      BY <1>1, <2>1 DEF Handed, Submitting, Unsubmitted, Occupied
  <1>5. QED
    BY <1>1, <1>2, <1>3, <1>4 DEF Player

\* What the mapped variables do is a step of the abstract pipeline.
PipeStep == [Pipe!Next]_(Pipe!fifoVars)

LEMMA PipeStutters ==
  ASSUME Handed' = Handed, Waiting' = Waiting, arrived' = arrived
  PROVE  PipeStep
  BY DEF PipeStep, Pipe!fifoVars

LEMMA PipeBody ==
  ASSUME NumberHyp, NEW c \in Contexts, Body(c), UNCHANGED playerVars
  PROVE  PipeStep
  <1>1. Handed' = Handed /\ (pc["fg"] = "mark")' = (pc["fg"] = "mark")
    BY BodyHandsNothing DEF NumberHyp, SlotHyp, Body, PollNothing, PollReady, PollRefused,
       PollSend, PollAckNext, PollAckDrained, PollAnnounceNext, At, BodyLocations,
       Return, GoTo, playerVars
  <1>2. arrived' = arrived /\ Sent' = Sent
    BY DEF Body, PollNothing, PollReady, PollRefused, PollSend, PollAckNext, PollAckDrained,
       PollAnnounceNext, SendWord, TakeReply, portVars, Sent
  <1>3. qbase \in Numbers /\ base \in Numbers
    BY DEF NumberHyp, SlotHyp, TypeOK, LinkTypeOK
  <1> USE DEF At, stageVars, linkHistory, BodyLocations
  <1>4. CASE PollNothing(c) \/ PollReady(c) \/ PollSend(c) \/ PollAnnounceNext(c)
    <2>1. UNCHANGED <<posted, queued, base, qbase>>
      BY <1>4 DEF PollNothing, PollReady, PollSend, PollAnnounceNext
    <2>2. Waiting' = Waiting
      BY <1>1, <1>2, <2>1, WaitingSame DEF Occupied
    <2>3. QED
      BY <1>1, <1>2, <2>2, PipeStutters
  <1>5. CASE PollRefused(c)
    <2>1. posted /\ Refusal /\ pc["fg"] # "mark"
      BY <1>5 DEF PollRefused, NumberHyp, SlotHyp, ContextInv, SlotInv, TakeReply, RXDF, Idle, Announced,
         Commanded, Answered, Refusal, InBody, Delivering, Abandoned, NoReply, Reply
    <2>2. base \in refused /\ base \notin Sent
      BY <2>1 DEF NumberHyp, NumberInv, LostNeverSent, Occupied
    <2>3. Waiting # <<>>
      BY <1>3, <2>1, <2>2, Pairs DEF Waiting, InSlot, InQueue, Occupied
    <2>4. Waiting' = <<>>
      <3>1. ~Occupied' /\ ~queued'
        BY <1>1, <1>5, <2>1 DEF PollRefused, Occupied
      <3>2. QED
        BY <1>3, <3>1, Pairs DEF Waiting, InSlot, InQueue
    <2>5. Pipe!Refuse
      BY <1>1, <1>2, <2>3, <2>4 DEF Pipe!Refuse
    <2>6. QED
      BY <2>5 DEF PipeStep, Pipe!Next
  <1>6. CASE PollAckNext(c)
    <2>1. posted /\ Acked
      BY <1>6 DEF PollAckNext, NumberHyp, SlotHyp, SlotInv, TakeReply, RXDF, Sending, Acked, InBody,
         Delivering
    <2>2. base \in Sent /\ queued /\ qbase \notin Sent
      BY <1>6, <2>1 DEF PollAckNext, NumberHyp, NumberInv, Occupied, Settled
    <2>3. base' = qbase /\ qbase' = qbase /\ ~queued' /\ posted'
      BY <1>6, <2>1 DEF PollAckNext
    <2>4. Waiting = <<qbase>>
      BY <1>3, <2>2, Pairs DEF Waiting, InSlot, InQueue
    <2>5. Waiting' = <<qbase>>
      BY <1>2, <1>3, <2>2, <2>3, Pairs DEF Waiting, InSlot, InQueue, Occupied
    <2>6. QED
      BY <1>1, <1>2, <2>4, <2>5, PipeStutters
  <1>7. CASE PollAckDrained(c)
    <2>1. posted /\ Acked /\ pc["fg"] # "mark"
      BY <1>7 DEF PollAckDrained, NumberHyp, SlotHyp, ContextInv, SlotInv, TakeReply, RXDF, Sending, Acked,
         InBody, Delivering
    <2>2. base \in Sent /\ ~queued /\ ~queued' /\ ~Occupied'
      BY <1>1, <1>7, <2>1 DEF PollAckDrained, NumberHyp, NumberInv, Occupied
    <2>3. Waiting = <<>> /\ Waiting' = <<>>
      BY <1>3, <2>2, Pairs DEF Waiting, InSlot, InQueue
    <2>4. QED
      BY <1>1, <1>2, <2>3, PipeStutters
  <1>8. QED
    BY <1>4, <1>5, <1>6, <1>7 DEF Body

LEMMA PipeLink ==
  ASSUME NumberHyp, UNCHANGED playerVars,
         \/ Submit(built)
         \/ \E l \in {"loop", "build", "wait"} : PollWhilePosted(l)
         \/ PollIrq(clock)
  PROVE  PipeStep
  <1>1. arrived' = arrived /\ Sent' = Sent
    BY DEF Submit, SubmitTestPosted, SubmitTestQueued, Enqueue, Announce, AnnounceMark,
       PollWhilePosted, PollIrq, SendWord, portVars, Sent
  <1>2. qbase \in Numbers /\ base \in Numbers /\ built \in Numbers
    BY DEF NumberHyp, SlotHyp, TypeOK, LinkTypeOK
  <1> USE DEF NumberHyp, SlotHyp, TypeOK, PcTypeOK, LinkTypeOK, Handed, Submitting, Unsubmitted, Occupied,
       BodyLocations, At, GoTo, CallPoll, stageVars, linkHistory, playerVars, SlotInv
  <1>3. CASE Announce(built) \/ Enqueue(built)
    <2>1. Handed = built - 1 /\ Handed' = built /\ built \notin Sent
      <3>1. Handed = built - 1 /\ Handed' = built
        BY <1>2, <1>3 DEF Announce, Enqueue
      <3>2. QED
        BY <1>2, <3>1, PortAssumption DEF NumberInv, Settled, Numbers
    <2>2. CASE Announce(built)
      <3>1. ~Occupied /\ Occupied' /\ base' = built /\ queued' = queued /\ qbase' = qbase
        BY <2>2 DEF Announce
      <3>2. CASE queued
        <4>1. qbase < built
          BY <1>2, <2>1, <3>2, PortAssumption DEF NumberInv, Numbers
        <4>2. Waiting = <<qbase>> /\ Waiting' = <<qbase, built>>
          BY <1>1, <1>2, <2>1, <3>1, <3>2, <4>1, Pairs DEF Waiting, InSlot, InQueue
        <4>3. QED
          BY <1>2, <4>2, Pairs, <1>1, <2>1, PortAssumption
             DEF PipeStep, Pipe!Next, Pipe!Submit, Numbers
      <3>3. CASE ~queued
        <4>1. Waiting = <<>> /\ Waiting' = <<built>>
          BY <1>1, <1>2, <2>1, <3>1, <3>3, Pairs DEF Waiting, InSlot, InQueue
        <4>2. QED
          BY <1>2, <4>1, Pairs, <1>1, <2>1, PortAssumption
             DEF PipeStep, Pipe!Next, Pipe!Submit, Numbers
      <3>4. QED
        BY <3>2, <3>3
    <2>3. CASE Enqueue(built)
      <3>1. ~queued /\ queued' /\ qbase' = built /\ base' = base /\ Occupied' = Occupied
        BY <2>3 DEF Enqueue, NumberInv
      <3>2. CASE Occupied /\ base \notin Sent
        <4>1. base < built
          BY <1>2, <2>1, <3>2, PortAssumption DEF NumberInv, Numbers
        <4>2. Waiting = <<base>> /\ Waiting' = <<base, built>>
          <5>1. ~(built < base)
            BY <1>2, <4>1, PortAssumption DEF Numbers
          <5>2. InSlot = <<base>> /\ InSlot' = <<base>> /\ InQueue = <<>> /\ InQueue' = <<built>>
            BY <1>1, <3>1, <3>2 DEF InSlot, InQueue
          <5>3. QED
            BY <1>2, <3>1, <5>1, <5>2, Pairs DEF Waiting
        <4>3. QED
          BY <1>2, <4>2, Pairs, <1>1, <2>1, PortAssumption
             DEF PipeStep, Pipe!Next, Pipe!Submit, Numbers
      <3>3. CASE ~(Occupied /\ base \notin Sent)
        <4>1. InSlot = <<>> /\ InSlot' = <<>> /\ InQueue = <<>> /\ InQueue' = <<built>>
          BY <1>1, <3>1, <3>3 DEF InSlot, InQueue
        <4>2. Waiting = <<>> /\ Waiting' = <<built>>
          BY <1>2, <4>1, Pairs DEF Waiting
        <4>3. QED
          BY <1>2, <4>2, Pairs, <1>1, <2>1, PortAssumption
             DEF PipeStep, Pipe!Next, Pipe!Submit, Numbers
      <3>4. QED
        BY <3>2, <3>3
    <2>4. QED
      BY <1>3, <2>2, <2>3
  <1>4. CASE ~(Announce(built) \/ Enqueue(built))
    <2>1. UNCHANGED <<base, queued, qbase>> /\ Occupied' = Occupied /\ Handed' = Handed
      <3>1. CASE SubmitTestPosted
        BY <3>1 DEF SubmitTestPosted
      <3>2. CASE SubmitTestQueued
        BY <3>2 DEF SubmitTestQueued
      <3>3. CASE AnnounceMark
        BY <3>3 DEF AnnounceMark
      <3>4. ASSUME NEW l \in {"loop", "build", "wait"}, PollWhilePosted(l)
            PROVE  UNCHANGED <<base, queued, qbase>> /\ Occupied' = Occupied /\ Handed' = Handed
        BY <3>4 DEF PollWhilePosted
      <3>5. CASE PollIrq(clock)
        BY <3>5 DEF PollIrq
      <3>6. QED
        BY <1>4, <3>1, <3>2, <3>3, <3>4, <3>5 DEF Submit
    <2>2. QED
      BY <1>1, <2>1, WaitingSame, PipeStutters
  <1>5. QED
    BY <1>3, <1>4

LEMMA PipeHardware == ASSUME NumberHyp, Hardware PROVE PipeStep
  <1>1. /\ UNCHANGED <<pc, back, posted, queued, base, qbase, dropped, built>>
        /\ PortTransfer \/ Dsp
    BY DEF Hardware, linkVars, stageVars, linkHistory, playerVars
  <1>2. Handed' = Handed /\ Occupied' = Occupied
    BY <1>1 DEF Handed, Submitting, Unsubmitted, Occupied
  <1>3. qbase \in Numbers /\ base \in Numbers
    BY DEF NumberHyp, SlotHyp, TypeOK, LinkTypeOK
  <1>4. CASE TakeBlock
    <2>1. Occupied /\ hrx.load = base /\ base \notin Sent
      BY <1>4, BlockIsUnsettled DEF Settled
    <2>2. arrived' = Append(arrived, base) /\ base \in Sent'
      BY <1>4, <2>1 DEF TakeBlock, Sent, NumberHyp, SlotHyp, TypeOK, PortTypeOK
    <2>3. InSlot = <<base>> /\ InSlot' = <<>> /\ InQueue' = InQueue
      BY <1>1, <1>2, <2>1, <2>2 DEF InSlot, InQueue
    <2>4. CASE ~queued
      <3>1. Waiting = <<base>> /\ Waiting' = <<>>
        BY <1>3, <2>3, <2>4, Pairs DEF Waiting, InQueue
      <3>2. QED
        <4>1. 1 \in 1 .. Len(Waiting) /\ 1 <= 1 + 1 /\ Waiting[1] = base
              /\ Pipe!RemoveAt(Waiting, 1) = Waiting'
          <5>1. Pipe!RemoveAt(<<base>>, 1) = <<>>
            BY <1>3, Pairs
          <5>2. QED
            BY <1>3, <3>1, <5>1
        <4>2. Pipe!Deliver
          BY <1>2, <2>2, <4>1 DEF Pipe!Deliver
        <4>3. QED
          BY <4>2 DEF PipeStep, Pipe!Next
    <2>5. CASE queued /\ qbase < base
      <3>1. Waiting = <<qbase, base>> /\ Waiting' = <<qbase>>
        BY <1>1, <1>3, <2>3, <2>5, Pairs DEF Waiting, InQueue
      <3>2. 2 \in 1 .. Len(Waiting) /\ 2 <= 1 + 1 /\ Waiting[2] = base /\ Pipe!RemoveAt(Waiting, 2) = <<qbase>>
        <4>1. Pipe!RemoveAt(<<qbase, base>>, 2) = <<qbase>>
          BY <1>3, Pairs
        <4>2. QED
          BY <1>3, <3>1, <4>1
      <3>3. Pipe!Deliver
        BY <1>2, <2>2, <3>1, <3>2 DEF Pipe!Deliver
      <3>4. QED
        BY <3>3 DEF PipeStep, Pipe!Next
    <2>6. CASE queued /\ ~(qbase < base)
      <3>1. Waiting = <<base, qbase>> /\ Waiting' = <<qbase>>
        BY <1>1, <1>3, <2>3, <2>6, Pairs DEF Waiting, InQueue
      <3>2. 1 \in 1 .. Len(Waiting) /\ 1 <= 1 + 1 /\ Waiting[1] = base /\ Pipe!RemoveAt(Waiting, 1) = <<qbase>>
        <4>1. Pipe!RemoveAt(<<base, qbase>>, 1) = <<qbase>>
          BY <1>3, Pairs
        <4>2. QED
          BY <1>3, <3>1, <4>1
      <3>3. Pipe!Deliver
        BY <1>2, <2>2, <3>1, <3>2 DEF Pipe!Deliver
      <3>4. QED
        BY <3>3 DEF PipeStep, Pipe!Next
    <2>7. QED
      BY <2>4, <2>5, <2>6
  <1>5. CASE ~TakeBlock
    <2>1. arrived' = arrived
      BY <1>1, <1>5 DEF PortTransfer, Dsp, TakeRefill, RefuseRefill, SwallowCommand, TakeWrite, StopAudio,
         Handoff
    <2>2. QED
      BY <1>1, <1>2, <2>1, WaitingSame, PipeStutters DEF Sent
  <1>6. QED
    BY <1>4, <1>5

\* Every step of the pipeline is one of the abstract one or none.
LEMMA PipeEveryStep == LostInv /\ [Next]_vars => PipeStep
  <1> SUFFICES ASSUME LostInv, [Next]_vars PROVE PipeStep
    OBVIOUS
  <1>1. NumberHyp
    BY DEF LostInv, NumberHyp, SlotHyp
  <1>2. CASE Player
    <2>1. /\ Handed' = Handed /\ Occupied' = Occupied
          /\ UNCHANGED <<arrived, base, queued, qbase>>
      BY <1>1, <1>2, PlayerHandsNothing
    <2>2. Sent' = Sent
      BY <2>1 DEF Sent
    <2>3. Waiting' = Waiting
      BY <2>1, <2>2, WaitingSame
    <2>4. QED
      BY <2>1, <2>3, PipeStutters
  <1>3. CASE Foreground /\ ~Player
    BY <1>1, <1>3, PipeLink, PipeBody DEF Foreground
  <1>4. CASE TimerA
    BY <1>1, <1>4, PipeLink, PipeBody DEF TimerA
  <1>5. CASE Hardware
    BY <1>1, <1>5, PipeHardware
  <1>6. CASE UNCHANGED vars
    <2>1. Handed' = Handed
      BY <1>6 DEF vars, portVars, linkVars, stageVars, linkHistory, playerVars, Handed, Submitting,
         Unsubmitted
    <2>2. Waiting' = Waiting
      BY <1>6, WaitingSame DEF vars, portVars, linkVars, stageVars, linkHistory, playerVars, Occupied,
         Sent
    <2>3. arrived' = arrived
      BY <1>6 DEF vars, portVars
    <2>4. QED
      BY <2>1, <2>2, <2>3, PipeStutters
  <1>7. QED
    BY <1>2, <1>3, <1>4, <1>5, <1>6 DEF Next

\* The pipeline delivers payloads in the order they are submitted, each at most
\* once, except that one stranded by the tick is passed by the one announced in
\* its stead (dsp_rt_submit and the two polls, dsp_link.s:105-260), and only a
\* refusal loses any: at most two wait at a time.
THEOREM PipelineIsFifo == Spec => ImplementsFifo
  <1>1. Init => Pipe!Init
    <2> SUFFICES ASSUME Init PROVE Pipe!Init
      OBVIOUS
    <2>1. Handed = 0 /\ arrived = <<>>
      BY DEF Init, PortInit, Handed, Submitting, Unsubmitted, BodyLocations, Contexts
    <2>2. InSlot = <<>> /\ InQueue = <<>>
      BY DEF Init, LinkInit, InSlot, InQueue, Occupied, Contexts
    <2>3. <<>> \o <<>> = <<>>
      BY ConcatEmptySeq
    <2>4. QED
      BY <2>1, <2>2, <2>3 DEF Pipe!Init, Waiting
  <1>2. QED
    BY <1>1, PipeEveryStep, LostInductive, PTL DEF Spec, ImplementsFifo, Pipe!Spec, PipeStep
=============================================================================
