-------------------------- MODULE DspStreamProofs --------------------------
(***************************************************************************)
(* Proofs about DspStream, for every number of payloads and writes and     *)
(* every length of period; and, at the end, what a window of the profiler  *)
(* contains, for every window and every stall of the host.                 *)
(***************************************************************************)
EXTENDS StreamInvariant, StreamProfile, TLAPS

(* Words and replies.                                                      *)

LEMMA WordFacts ==
  /\ NoWord \in Port!Words /\ NoWord.kind = "none" /\ NoReply \in Port!Replies
  /\ \A k \in Port!Kinds, n \in Numbers :
       Word(k, n) \in Port!Words /\ Word(k, n).kind = k /\ Word(k, n).load = n
  /\ \A v \in Port!Answers, k \in Port!Kinds :
       Reply(v, k) \in Port!Replies /\ Reply(v, k).val = v /\ (v # "none" => Reply(v, k) # NoReply)
  /\ \A w \in Port!Words : w.kind \in Port!Kinds /\ w.load \in Numbers /\ w = Word(w.kind, w.load)
  BY StreamAssumption DEF Word, NoWord, Reply, NoReply, Port!Words, Port!Replies, Port!Kinds, Port!Answers,
     Port!Numbers, Numbers, Port!Word, Port!Reply, Port!NoWord, Port!NoReply
\* The pointer into a buffer, and the frame it is in.
LEMMA PlaceFacts ==
  /\ Words \in Nat /\ Words >= 4 /\ 0 \in 0 .. Words - 1 /\ 1 \in 0 .. Words - 1
  /\ 2 \in 0 .. Words - 1 /\ 0 \in 0 .. Frames - 1
  /\ \A p \in 0 .. Words - 1 :
       /\ (p + 1) % Words \in 0 .. Words - 1
       /\ (p + 1) % Words = IF p = Words - 1 THEN 0 ELSE p + 1
       /\ p \div 2 \in 0 .. Frames - 1
  <1>1. Words \in Nat /\ Words >= 4 /\ 0 \in 0 .. Words - 1 /\ 1 \in 0 .. Words - 1
        /\ 2 \in 0 .. Words - 1 /\ 0 \in 0 .. Frames - 1
    BY StreamAssumption DEF Words
  <1>2. ASSUME NEW p \in 0 .. Words - 1
        PROVE  /\ (p + 1) % Words \in 0 .. Words - 1
               /\ (p + 1) % Words = IF p = Words - 1 THEN 0 ELSE p + 1
               /\ p \div 2 \in 0 .. Frames - 1
    <2>1. p \div 2 \in 0 .. Frames - 1
      BY StreamAssumption DEF Words
    <2>2. CASE p = Words - 1
      BY <1>1, <2>1, <2>2
    <2>3. CASE p # Words - 1
      BY <1>1, <2>1, <2>3
    <2>4. QED
      BY <2>2, <2>3
  <1>3. QED
    BY <1>1, <1>2

LEMMA StreamStart == StreamInit => StreamInv
  <1> SUFFICES ASSUME StreamInit PROVE StreamInv
    OBVIOUS
  <1> USE StreamAssumption, WordFacts, PlaceFacts DEF StreamInit
  <1>1. StreamTypeOK
    <2>1. /\ tx \in Port!Words /\ hrx \in Port!Words /\ word \in Port!Words /\ rx \in Port!Replies
          /\ r6 \in [buf : Buffers, pos : 0 .. Words - 1] /\ out \in [load : Numbers, pos : 0 .. Words - 1]
          /\ buffer \in [Buffers -> [0 .. Frames - 1 -> Numbers]] /\ pcm \in Numbers
      BY DEF Numbers, Buffers
    <2>2. accepted \in Seq(Port!Words) /\ applied \in Seq(Port!Words) /\ arrived \in Seq(Numbers)
      OBVIOUS
    <2>3. /\ at \in {"stream", "receive", "serve", "commit", "render", "halt", "stopped"}
                      \cup Watching \cup HandoffAt
          /\ return \in Returns \cup {"stream", "wait"} /\ frame \in 0 .. Frames
          /\ active \in Buffers /\ refill \in Buffers /\ output \in Buffers
      BY DEF Buffers
    <2>4. QED
      BY <2>1, <2>2, <2>3 DEF StreamTypeOK
  <1>2. LinkInv
    BY DEF LinkInv, Quiet, Alone, In, WordPlace, HandoffAt
  <1>3. FlowInv /\ SpinInv
    BY DEF FlowInv, SpinInv, HandoffAt, Returns, EarlyPlaces, Watching
  <1>4. PlayInv
    BY DEF PlayInv, Handed, Committed, Uncommitted, Filled, In, HandoffAt, EarlyPlaces
  <1>5. LogInv
    BY DEF LogInv, Uncommitted
  <1>6. QED
    BY <1>1, <1>2, <1>3, <1>4, <1>5 DEF StreamInv
-----------------------------------------------------------------------------
(* Types.                                                                  *)

LEMMA HostType == StreamTypeOK /\ LinkInv /\ Host => StreamTypeOK'
  <1> SUFFICES ASSUME StreamTypeOK, LinkInv, Host PROVE StreamTypeOK'
    OBVIOUS
  <1>1. UNCHANGED <<flow, word, playVars, stageVars, dataVars, history>>
    BY DEF Host, HostRefill, HostBlock, HostWrite, HostStop, HostSend, HostRead, Transfer
  <1>2. /\ tx' \in Port!Words /\ hrx' \in Port!Words /\ rx' \in Port!Replies
        /\ host' \in {"idle", "refill", "granted", "block", "write", "stop", "over"} /\ budget' \in Nat
    <2>1. Len(arrived) \in Nat
      BY DEF StreamTypeOK
    <2>2. {"refill", "block", "write", "stop"} \subseteq Port!Kinds /\ 0 \in Numbers
      BY StreamAssumption DEF Port!Kinds, Numbers
    <2>3. CASE HostRefill \/ HostBlock
      <3>1. Len(arrived) + 1 \in Numbers
        BY StreamAssumption, <2>1, <2>3 DEF HostRefill, HostBlock, LinkInv, Numbers
      <3>2. QED
        BY <2>2, <2>3, <3>1, WordFacts DEF HostRefill, HostBlock, HostSend, StreamTypeOK
    <2>4. CASE HostWrite \/ HostStop
      BY <2>2, <2>4, WordFacts DEF HostWrite, HostStop, HostSend, StreamTypeOK
    <2>5. CASE HostRead
      BY <2>5, WordFacts DEF HostRead, hostVars, StreamTypeOK
    <2>6. CASE Transfer
      BY <2>6, WordFacts DEF Transfer, hostVars, StreamTypeOK
    <2>7. QED
      BY <2>3, <2>4, <2>5, <2>6 DEF Host
  <1>3. QED
    BY <1>1, <1>2 DEF StreamTypeOK, flow, playVars, stageVars, dataVars, history

\* The other buffer, and the word a frame of a buffer gives the SSI.
LEMMA BufferFacts ==
  /\ \A b \in Buffers : Other(b) \in Buffers /\ Other(b) # b /\ Other(Other(b)) = b
  /\ StreamTypeOK => /\ \A b \in Buffers, f \in 0 .. Frames - 1 : buffer[b][f] \in Numbers
                     /\ \A b \in Buffers, p \in 0 .. Words - 1 : buffer[b][p \div 2] \in Numbers
  <1>1. \A b \in Buffers : Other(b) \in Buffers /\ Other(b) # b /\ Other(Other(b)) = b
    BY DEF Buffers, Other
  <1>2. ASSUME StreamTypeOK, NEW b \in Buffers, NEW f \in 0 .. Frames - 1
        PROVE  buffer[b][f] \in Numbers
    <2>1. buffer[b] \in [0 .. Frames - 1 -> Numbers]
      BY <1>2 DEF StreamTypeOK
    <2>2. QED
      BY <2>1
  <1>3. \A p \in 0 .. Words - 1 : p \div 2 \in 0 .. Frames - 1
    BY PlaceFacts
  <1>4. QED
    BY <1>1, <1>2, <1>3

LEMMA SsiType == StreamTypeOK /\ SsiWord => StreamTypeOK'
  <1> SUFFICES ASSUME StreamTypeOK, SsiWord PROVE StreamTypeOK'
    OBVIOUS
  <1>1. r6.buf \in Buffers /\ r6.pos \in 0 .. Words - 1
    BY DEF StreamTypeOK
  <1>2. r6' = [buf |-> r6.buf, pos |-> (r6.pos + 1) % Words]
    BY DEF SsiWord, StreamTypeOK
  <1>3. out' \in [load : Numbers, pos : 0 .. Words - 1] /\ r6' \in [buf : Buffers, pos : 0 .. Words - 1]
    BY <1>1, <1>2, PlaceFacts, BufferFacts DEF SsiWord
  <1>4. turn' \in BOOLEAN
    BY DEF SsiWord
  <1>5. QED
    BY <1>3, <1>4 DEF SsiWord, StreamTypeOK, registers, hostVars, stageVars, dataVars, history

LEMMA HandoffType == StreamTypeOK /\ Handoff => StreamTypeOK'
  <1> SUFFICES ASSUME StreamTypeOK, Handoff PROVE StreamTypeOK'
    OBVIOUS
  <1>1. r6.buf \in Buffers /\ r6.pos \in 0 .. Words - 1 /\ refill \in Buffers /\ active \in Buffers
    BY DEF StreamTypeOK
  <1>2. CASE Quiesce
    BY <1>2 DEF Quiesce, Goto, HandoffAt, StreamTypeOK, registers, hostVars, stageVars, dataVars, history
  <1>3. CASE CompleteFrame
    <2>1. out' \in [load : Numbers, pos : 0 .. Words - 1] /\ r6' \in [buf : Buffers, pos : 0 .. Words - 1]
      <3>1. CASE r6.pos % 2 = 1
        <4>1. r6' = [buf |-> r6.buf, pos |-> (r6.pos + 1) % Words]
          BY <1>3, <3>1 DEF CompleteFrame, StreamTypeOK
        <4>2. QED
          BY <1>1, <1>3, <3>1, <4>1, PlaceFacts, BufferFacts DEF CompleteFrame
      <3>2. CASE r6.pos % 2 # 1
        BY <1>3, <3>2 DEF CompleteFrame, StreamTypeOK
      <3>3. QED
        BY <3>1, <3>2
    <2>2. QED
      BY <1>3, <2>1 DEF CompleteFrame, Goto, HandoffAt, StreamTypeOK, registers, hostVars, stageVars,
                        dataVars, history
  <1>4. CASE Switch
    <2>1. out' \in [load : Numbers, pos : 0 .. Words - 1] /\ r6' \in [buf : Buffers, pos : 0 .. Words - 1]
      <3>1. buffer[refill][0] \in Numbers
        BY <1>1, PlaceFacts, BufferFacts
      <3>2. QED
        BY <1>1, <1>4, <3>1, PlaceFacts DEF Switch
    <2>2. active' \in Buffers /\ refill' \in Buffers
      BY <1>1, <1>4, BufferFacts DEF Switch, StreamTypeOK
    <2>3. at' \in {"commit", "stream", return} /\ return' = return /\ return \in Returns \cup {"stream", "wait"}
      BY <1>4 DEF Switch, Goto, StreamTypeOK
    <2>4. at' \in {"stream", "receive", "serve", "commit", "render", "halt", "stopped"}
                     \cup Watching \cup HandoffAt
          /\ return' \in Returns \cup {"stream", "wait"}
      <3>1. CASE return = "tail"
        BY <1>4, <3>1, <2>3 DEF Switch, Goto
      <3>2. CASE return # "tail"
        BY <2>3, <3>2 DEF Returns, Watching
      <3>3. QED
        BY <3>1, <3>2
    <2>5. /\ tie' \in BOOLEAN /\ turn' \in BOOLEAN /\ pending' \in BOOLEAN /\ switched' \in BOOLEAN
      <3>1. CASE return = "tail" /\ pending
        BY <1>4, <3>1 DEF Switch, StreamTypeOK
      <3>2. CASE ~(return = "tail" /\ pending)
        <4>1. switched' = (return \in {"early", "fill", "earlyAck"})
          BY <1>4, <3>2, Zenon DEF Switch
        <4>2. switched' \in BOOLEAN
          BY <4>1, SMT
        <4>3. QED
          BY <1>4, <3>2, <4>2, Zenon DEF Switch, StreamTypeOK
      <3>3. QED
        BY <3>1, <3>2
    <2>6. QED
      BY <1>4, <2>1, <2>2, <2>4, <2>5
        DEF Switch, StreamTypeOK, registers, hostVars, dataVars, history
  <1>5. QED
    BY <1>2, <1>3, <1>4 DEF Handoff

LEMMA StreamType == StreamTypeOK /\ FlowInv /\ PlayInv /\ Stream => StreamTypeOK'
  <1> SUFFICES ASSUME StreamTypeOK, FlowInv, PlayInv, Stream PROVE StreamTypeOK'
    OBVIOUS
  <1>1. /\ hrx.load \in Numbers /\ word \in Port!Words
        /\ {"refill", "block", "write", "stop"} \subseteq Port!Kinds
        /\ {"ready", "ok"} \subseteq Port!Answers /\ pcm \in Numbers
    BY WordFacts DEF StreamTypeOK, Port!Kinds, Port!Answers
  <1>2. CASE StreamRefill
    <2>1. /\ hrx' \in Port!Words /\ rx' \in Port!Replies /\ refill' \in Buffers
      BY <1>1, <1>2, WordFacts, BufferFacts DEF StreamRefill, StreamTypeOK
    <2>2. QED
      BY <1>2, <2>1 DEF StreamRefill, Goto, StreamTypeOK, hostVars, playVars, dataVars, history
  <1>3. CASE StreamReceive
    <2>1. /\ hrx' \in Port!Words /\ rx' \in Port!Replies /\ pcm' \in Numbers
          /\ accepted' \in Seq(Port!Words) /\ arrived' \in Seq(Numbers)
      BY <1>1, <1>3, WordFacts DEF StreamReceive, StreamTypeOK
    <2>2. QED
      BY <1>3, <2>1 DEF StreamReceive, Goto, StreamTypeOK, hostVars, playVars, stageVars
  <1>4. CASE StreamTake
    <2>1. /\ hrx' \in Port!Words /\ word' \in Port!Words
      BY <1>1, <1>4, WordFacts DEF StreamTake, StreamTypeOK
    <2>2. QED
      BY <1>4, <2>1 DEF StreamTake, StreamTypeOK, hostVars, playVars, stageVars, dataVars, history
  <1>5. CASE ServeWrite
    <2>1. /\ word' \in Port!Words /\ rx' \in Port!Replies
          /\ accepted' \in Seq(Port!Words) /\ applied' \in Seq(Port!Words)
      BY <1>1, <1>5, WordFacts DEF ServeWrite, StreamTypeOK
    <2>2. at' \in {"stream", "receive", "serve", "commit", "render", "halt", "stopped"}
                    \cup Watching \cup HandoffAt
          /\ return' \in Returns \cup {"stream", "wait"}
      BY <1>5 DEF ServeWrite, Goto, FlowInv, Watching
    <2>3. QED
      BY <1>5, <2>1, <2>2 DEF ServeWrite, StreamTypeOK, hostVars, playVars, stageVars, dataVars
  <1>6. CASE Commit
    <2>1. applied' \in Seq(Port!Words) /\ frame' \in 0 .. Frames
      BY <1>1, <1>6, WordFacts, StreamAssumption DEF Commit, StreamTypeOK
    <2>2. QED
      BY <1>6, <2>1 DEF Commit, Goto, StreamTypeOK, registers, hostVars, playVars, stageVars
  <1>7. CASE Render
    <2>1. buffer' \in [Buffers -> [0 .. Frames - 1 -> Numbers]]
      BY <1>1, <1>7 DEF Render, StreamTypeOK
    <2>2. frame' \in 0 .. Frames
      BY StreamAssumption, <1>7 DEF Render, PlayInv, StreamTypeOK
    <2>3. QED
      BY <1>7, <2>1, <2>2 DEF Render, Goto, Watching, StreamTypeOK, registers, hostVars, playVars,
                              stageVars, history
  <1>8. CASE Halt
    <2>1. word' \in Port!Words /\ rx' \in Port!Replies
      BY <1>1, <1>8, WordFacts DEF Halt, StreamTypeOK
    <2>2. QED
      BY <1>8, <2>1 DEF Halt, Goto, StreamTypeOK, hostVars, dataVars, history
  <1>9. QED
    BY <1>2, <1>3, <1>4, <1>5, <1>6, <1>7, <1>8 DEF Stream

LEMMA WaitType == StreamTypeOK /\ Wait => StreamTypeOK'
  <1> SUFFICES ASSUME StreamTypeOK, Wait PROVE StreamTypeOK'
    OBVIOUS
  <1>1. CASE WaitCatch
    BY <1>1 DEF WaitCatch, Call, HandoffAt, Returns, StreamTypeOK, registers, hostVars, playVars,
                stageVars, dataVars, history
  <1>2. CASE WaitSpin
    BY <1>2 DEF WaitSpin, StreamTypeOK, registers, hostVars, playVars, stageVars, dataVars, history
  <1>3. CASE WaitRefill
    <2>1. hrx' \in Port!Words /\ rx' \in Port!Replies
      BY <1>3, WordFacts DEF WaitRefill, Port!Answers, Port!Kinds
    <2>2. QED
      BY <1>3, <2>1 DEF WaitRefill, EarlyTarget, Goto, Watching, StreamTypeOK, hostVars, playVars,
                        dataVars, history
  <1>4. CASE WaitTake
    <2>1. hrx' \in Port!Words /\ word' \in Port!Words
      BY <1>4, WordFacts DEF WaitTake, StreamTypeOK
    <2>2. QED
      BY <1>4, <2>1 DEF WaitTake, Watching, StreamTypeOK, hostVars, playVars, stageVars, dataVars, history
  <1>5. CASE WaitStop
    BY <1>5 DEF WaitStop, Call, HandoffAt, Returns, StreamTypeOK, registers, hostVars, playVars,
                stageVars, dataVars, history
  <1>6. QED
    BY <1>1, <1>2, <1>3, <1>4, <1>5 DEF Wait

LEMMA EarlyType == StreamTypeOK /\ Early => StreamTypeOK'
  <1> SUFFICES ASSUME StreamTypeOK, Early PROVE StreamTypeOK'
    OBVIOUS
  <1>1. hrx.load \in Numbers /\ word.load \in Numbers
    BY WordFacts DEF StreamTypeOK
  <1>2. CASE EarlyWait
    <2>1. hrx' \in Port!Words /\ word' \in Port!Words /\ pcm' \in Numbers
      BY <1>1, <1>2, WordFacts DEF EarlyWait, StreamTypeOK
    <2>2. turn' \in BOOLEAN
      BY <1>2 DEF EarlyWait, Call
    <2>3. /\ at' \in {at, "catch", "fill"}
          /\ return' \in {return, "early"}
      BY <1>2 DEF EarlyWait, Call, Goto
    <2>4. QED
      BY <1>2, <2>1, <2>2, <2>3 DEF EarlyWait, HandoffAt, Returns, Watching, StreamTypeOK, hostVars,
                                    playVars, stageVars, history
  <1>3. CASE EarlyFill
    <2>1. /\ at' \in {at, "catch", "earlyAck"} /\ return' \in {return, "fill"} /\ turn' \in BOOLEAN
      BY <1>3 DEF EarlyFill, Call, Goto
    <2>2. QED
      BY <1>3, <2>1 DEF EarlyFill, HandoffAt, Returns, Watching, StreamTypeOK, registers, hostVars,
                        playVars, stageVars, dataVars, history
  <1>4. CASE EarlyAckCatch
    BY <1>4 DEF EarlyAckCatch, Call, HandoffAt, Returns, StreamTypeOK, registers, hostVars, playVars,
                stageVars, dataVars, history
  <1>5. CASE EarlyAck
    <2>1. /\ word' \in Port!Words /\ rx' \in Port!Replies
          /\ accepted' \in Seq(Port!Words) /\ arrived' \in Seq(Numbers)
      BY <1>1, <1>5, WordFacts DEF EarlyAck, StreamTypeOK, Port!Answers, Port!Kinds
    <2>2. /\ refill' \in Buffers /\ at' \in {"commit", "wait"} /\ return' = return
          /\ switched' \in BOOLEAN /\ pending' \in BOOLEAN
      BY <1>5 DEF EarlyAck, Goto, StreamTypeOK
    <2>3. QED
      BY <1>5, <2>1, <2>2 DEF EarlyAck, Watching, StreamTypeOK, hostVars, playVars, dataVars
  <1>6. QED
    BY <1>2, <1>3, <1>4, <1>5 DEF Early

LEMMA TypeStep == StreamInv /\ [StreamNext]_streamVars => StreamTypeOK'
  <1> SUFFICES ASSUME StreamInv, [StreamNext]_streamVars PROVE StreamTypeOK'
    OBVIOUS
  <1>1. CASE UNCHANGED streamVars
    BY <1>1 DEF StreamInv, StreamTypeOK, streamVars, registers, hostVars, flow, playVars, stageVars,
                dataVars, history
  <1>2. QED
    BY <1>1, HostType, SsiType, HandoffType, StreamType, WaitType, EarlyType
      DEF StreamInv, StreamNext, Program
-----------------------------------------------------------------------------
(* The link.                                                               *)

\* A word the program can take is the one the host waits to have answered.
LEMMA TakenWord ==
  ASSUME StreamTypeOK, LinkInv
  PROVE  /\ hrx # NoWord => tx = NoWord /\ word = NoWord /\ rx = NoReply
         /\ word # NoWord => tx = NoWord /\ hrx = NoWord /\ rx = NoReply
         /\ rx # NoReply => tx = NoWord /\ hrx = NoWord /\ word = NoWord
         /\ \A w \in {hrx, word} : w # NoWord =>
              /\ w.kind = host /\ host \in {"refill", "block", "write", "stop"}
              /\ w = Word(host, IF host \in {"refill", "block"} THEN Len(arrived) + 1 ELSE 0)
  <1>1. Len(arrived) \in Nat
    BY DEF StreamTypeOK
  <1>2. host \in {"refill", "granted", "block"} /\ rx = NoReply => Len(arrived) + 1 \in Numbers
    BY <1>1, StreamAssumption DEF LinkInv, Numbers
  <1>3. CASE host \in {"idle", "granted", "over"}
    BY <1>3 DEF LinkInv, Quiet, Alone
  <1>4. ASSUME NEW k \in {"refill", "block", "write", "stop"}, host = k
        PROVE  \/ \E v \in {"ready", "ok"} : Answered(v, k)
               \/ Travels(Word(k, IF k \in {"refill", "block"} THEN Len(arrived) + 1 ELSE 0))
    BY <1>4 DEF LinkInv
  <1>5. ASSUME NEW k \in {"refill", "block", "write", "stop"}, host = k
        PROVE  Word(k, IF k \in {"refill", "block"} THEN Len(arrived) + 1 ELSE 0).kind = k
    BY DEF Word, Port!Word
  <1>6. ASSUME NEW v \in {"ready", "ok"}, NEW k \in {"refill", "block", "write", "stop"}
        PROVE  Reply(v, k) # NoReply
    BY <1>6, WordFacts DEF Port!Answers, Port!Kinds
  <1>7. CASE host \in {"refill", "block", "write", "stop"}
    <2> DEFINE w == Word(host, IF host \in {"refill", "block"} THEN Len(arrived) + 1 ELSE 0)
    <2>1. w.kind = host
      BY <1>5, <1>7
    <2>2. (Alone(w) /\ rx = NoReply) \/ (Alone(NoWord) /\ rx # NoReply)
      BY <1>4, <1>6, <1>7 DEF Travels, Answered
    <2> HIDE DEF w
    <2>3. CASE Alone(w) /\ rx = NoReply
      BY <1>7, <2>1, <2>3 DEF Alone, w
    <2>4. CASE Alone(NoWord) /\ rx # NoReply
      BY <2>4 DEF Alone
    <2>5. QED
      BY <2>2, <2>3, <2>4
  <1>8. QED
    BY <1>3, <1>7 DEF StreamTypeOK

\* The program does not move with the host.
LEMMA PlacesStay ==
  ASSUME UNCHANGED <<at, return, word>>
  PROVE  /\ In({"receive", "early"})' <=> In({"receive", "early"})
         /\ word'.kind = WordPlace' <=> word.kind = WordPlace
  BY DEF In, WordPlace, HandoffAt

LEMMA HostLink == StreamTypeOK /\ LinkInv /\ Host => LinkInv'
  <1> SUFFICES ASSUME StreamTypeOK, LinkInv, Host PROVE LinkInv'
    OBVIOUS
  <1>1. /\ UNCHANGED <<at, return, word, arrived>>
        /\ In({"receive", "early"})' <=> In({"receive", "early"})
        /\ word'.kind = WordPlace'
    <2>1. UNCHANGED <<at, return, word, arrived>>
      BY DEF Host, HostRefill, HostBlock, HostWrite, HostStop, HostSend, HostRead, Transfer, flow, history
    <2>2. QED
      BY <2>1, PlacesStay DEF LinkInv
  <1>2. \A v \in {"ready", "ok"}, k \in {"refill", "block", "write", "stop"} : Reply(v, k) # NoReply
    BY WordFacts DEF Port!Answers, Port!Kinds
  <1>3. CASE HostRefill
    BY <1>1, <1>3 DEF HostRefill, HostSend, LinkInv, Quiet, Travels, Alone
  <1>4. CASE HostBlock
    BY <1>1, <1>4 DEF HostBlock, HostSend, LinkInv, Quiet, Travels, Alone
  <1>5. CASE HostWrite
    BY <1>1, <1>5 DEF HostWrite, HostSend, LinkInv, Quiet, Travels, Alone
  <1>6. CASE HostStop
    BY <1>1, <1>6 DEF HostStop, HostSend, LinkInv, Quiet, Travels, Alone
  <1>7. CASE HostRead
    <2>1. Quiet'
      BY <1>1, <1>7, TakenWord DEF HostRead, Quiet, Alone
    <2>2. host \in {"refill", "block", "write", "stop"}
      BY <1>7 DEF HostRead, LinkInv, Quiet, StreamTypeOK
    <2>3. rx.val = "ready" <=> host = "refill"
      <3>1. \E v \in {"ready", "ok"} : rx = Reply(v, host) /\ (v = "ready" <=> host = "refill")
        BY <1>7, <2>2 DEF HostRead, LinkInv, Travels, Answered
      <3>2. QED
        BY <3>1, <2>2, WordFacts DEF Port!Answers, Port!Kinds
    <2>4. QED
      BY <1>1, <1>7, <2>1, <2>2, <2>3 DEF HostRead, LinkInv
  <1>8. CASE Transfer
    <2>1. \A w : Alone(w) => Alone(w)'
      BY <1>1, <1>8 DEF Transfer, Alone
    <2>2. hrx' # NoWord /\ rx = NoReply
      BY <1>8, TakenWord DEF Transfer
    <2>3. QED
      BY <1>1, <1>8, <2>1, <2>2 DEF Transfer, hostVars, LinkInv, Quiet, Travels, Answered, Alone
  <1>9. QED
    BY <1>3, <1>4, <1>5, <1>6, <1>7, <1>8 DEF Host

LEMMA LinkStays ==
  ASSUME LinkInv, UNCHANGED <<tx, hrx, rx, host, word, arrived>>,
         In({"receive", "early"})' <=> In({"receive", "early"}), WordPlace' = WordPlace,
         at' = "stopped" <=> at = "stopped"
  PROVE  LinkInv'
  BY DEF LinkInv, Quiet, Travels, Answered, Alone

\* The steps of the program that neither read a word nor answer one.
ReadsNothing ==
  \/ SsiWord \/ Handoff \/ Commit \/ Render \/ WaitCatch \/ WaitSpin \/ WaitStop
  \/ (EarlyWait /\ UNCHANGED word) \/ EarlyFill \/ EarlyAckCatch

LEMMA QuietSteps == StreamTypeOK /\ LinkInv /\ FlowInv /\ ReadsNothing =>
                      /\ LinkInv'
                      /\ UNCHANGED <<tx, hrx, rx, host, budget, word, arrived, accepted>>
  <1> SUFFICES ASSUME StreamTypeOK, LinkInv, FlowInv, ReadsNothing
               PROVE  /\ LinkInv'
                      /\ UNCHANGED <<tx, hrx, rx, host, budget, word, arrived, accepted>>
    OBVIOUS
  <1> USE DEF In, WordPlace, HandoffAt
  <1>1. CASE SsiWord
    BY <1>1, LinkStays DEF SsiWord, registers, hostVars, history
  <1>2. CASE Quiesce
    BY <1>2, LinkStays DEF Quiesce, Goto, registers, hostVars, history
  <1>3. CASE CompleteFrame
    BY <1>3, LinkStays DEF CompleteFrame, Goto, registers, hostVars, history
  <1>4. CASE Switch
    <2>1. UNCHANGED <<tx, hrx, rx, host, budget, word, arrived, accepted, return>>
      BY <1>4 DEF Switch, Goto, registers, hostVars, dataVars, history
    <2>2. return \in Returns /\ at = "switch"
      BY <1>4 DEF Switch, FlowInv
    <2>3. at' \in IF return = "tail" THEN {"commit", "stream"} ELSE {return}
      BY <1>4 DEF Switch, Goto
    <2>4. QED
      BY <2>1, <2>2, <2>3, LinkStays DEF Returns
  <1>5. CASE Commit \/ Render
    BY <1>5, LinkStays DEF Commit, Render, Goto, registers, hostVars, history
  <1>6. CASE WaitCatch \/ WaitSpin
    BY <1>6, LinkStays DEF WaitCatch, WaitSpin, Call, registers, hostVars, dataVars, history
  <1>7. CASE WaitStop
    BY <1>7, LinkStays DEF WaitStop, Call, registers, hostVars, dataVars, history
  <1>8. CASE EarlyWait /\ UNCHANGED word
    <2>1. CASE ~Passing /\ hrx.kind = "block"
      BY <1>8, <2>1, WordFacts, TakenWord DEF EarlyWait
    <2>2. CASE Passing \/ hrx.kind # "block"
      BY <1>8, <2>2, LinkStays DEF EarlyWait, Call, hostVars, history
    <2>3. QED
      BY <2>1, <2>2
  <1>9. CASE EarlyFill
    BY <1>9, LinkStays DEF EarlyFill, Call, Goto, registers, hostVars, dataVars, history
  <1>10. CASE EarlyAckCatch
    BY <1>10, LinkStays DEF EarlyAckCatch, Call, registers, hostVars, dataVars, history
  <1>11. QED
    BY <1>1, <1>2, <1>3, <1>4, <1>5, <1>6, <1>7, <1>8, <1>9, <1>10 DEF ReadsNothing, Handoff

\* What a step that reads a word or answers one finds: the host waits for it.
LEMMA ReadFinds ==
  ASSUME StreamTypeOK, LinkInv, NEW w \in {hrx, word},
         NEW k \in {"refill", "block", "write", "stop"}, w.kind = k
  PROVE  /\ host = k /\ tx = NoWord /\ rx = NoReply
         /\ w = Word(k, IF k \in {"refill", "block"} THEN Len(arrived) + 1 ELSE 0)
         /\ w.load = IF k \in {"refill", "block"} THEN Len(arrived) + 1 ELSE 0
         /\ w = hrx => word = NoWord
         /\ w = word => hrx = NoWord
         /\ \A v \in {"ready", "ok"} : Reply(v, k) # NoReply
  <1>1. w # NoWord
    BY WordFacts
  <1>2. /\ host = k /\ tx = NoWord /\ rx = NoReply
        /\ w = Word(k, IF k \in {"refill", "block"} THEN Len(arrived) + 1 ELSE 0)
        /\ w = hrx => word = NoWord
        /\ w = word => hrx = NoWord
    BY <1>1, TakenWord
  <1>3. w.load = IF k \in {"refill", "block"} THEN Len(arrived) + 1 ELSE 0
    BY <1>2 DEF Word, Port!Word
  <1>4. \A v \in {"ready", "ok"} : Reply(v, k) # NoReply
    BY WordFacts DEF Port!Answers, Port!Kinds
  <1>5. QED
    BY <1>2, <1>3, <1>4

LEMMA ReadingSteps ==
  ASSUME StreamTypeOK, LinkInv, FlowInv,
         StreamRefill \/ StreamReceive \/ StreamTake \/ ServeWrite \/ Halt \/ WaitRefill \/ WaitTake
           \/ (EarlyWait /\ ~UNCHANGED word) \/ EarlyAck
  PROVE  LinkInv'
  <1> USE DEF In, WordPlace, HandoffAt
  <1>1. CASE StreamRefill \/ WaitRefill
    <2>1. /\ hrx.kind = "refill" /\ hrx' = NoWord /\ rx' = Reply("ready", "refill")
          /\ UNCHANGED <<tx, host, word, arrived>> /\ at \in {"stream", "wait"} /\ at' \in {"receive", "early"}
      BY <1>1 DEF StreamRefill, WaitRefill, Goto, hostVars, history
    <2>2. host = "refill" /\ Answered("ready", "refill")' /\ rx' # NoReply /\ word = NoWord
      BY <2>1, ReadFinds DEF Answered, Alone
    <2>3. QED
      BY <2>1, <2>2, WordFacts DEF LinkInv
  <1>2. CASE StreamReceive \/ EarlyAck
    <2>1. /\ rx' = Reply("ok", "block") /\ word' = NoWord /\ hrx' = NoWord
          /\ UNCHANGED <<tx, host>> /\ at' \in {"commit", "wait"} /\ arrived' = Append(arrived, Len(arrived) + 1)
          /\ host = "block" /\ tx = NoWord /\ rx = NoReply
      <3>1. CASE StreamReceive
        <4>1. hrx.kind = "block"
          BY <3>1 DEF StreamReceive
        <4>2. QED
          BY <3>1, <4>1, ReadFinds DEF StreamReceive, Goto, hostVars
      <3>2. CASE EarlyAck
        <4>1. word.kind = "block"
          BY <3>2 DEF EarlyAck, LinkInv
        <4>2. QED
          BY <3>2, <4>1, ReadFinds DEF EarlyAck, Goto, hostVars
      <3>3. QED
        BY <1>2, <3>1, <3>2
    <2>2. Answered("ok", "block")' /\ rx' # NoReply
      BY <2>1, WordFacts DEF Answered, Alone, Port!Answers, Port!Kinds
    <2>3. Len(arrived') = Len(arrived) + 1 /\ Len(arrived) \in Nat /\ Len(arrived) < Payloads
      BY <2>1 DEF LinkInv, StreamTypeOK
    <2>4. QED
      BY <2>1, <2>2, <2>3, WordFacts, StreamAssumption DEF LinkInv
  <1>3. CASE StreamTake \/ WaitTake
    <2>1. /\ hrx.kind \in {"write", "stop"} /\ word' = hrx /\ hrx' = NoWord
          /\ UNCHANGED <<tx, rx, host, arrived>> /\ at \in {"stream", "wait"}
          /\ at' \in IF hrx.kind = "write" THEN {"serve"} ELSE {"halt", "waitStop"}
      BY <1>3 DEF StreamTake, WaitTake, hostVars, history
    <2>2. host = hrx.kind /\ Travels(Word(host, 0))'
      BY <2>1, ReadFinds DEF Travels, Alone
    <2>3. QED
      BY <2>1, <2>2 DEF LinkInv
  <1>4. CASE ServeWrite \/ Halt
    <2>1. /\ word' = NoWord /\ UNCHANGED <<tx, hrx, host, arrived>>
          /\ \/ at = "serve" /\ word.kind = "write" /\ rx' = Reply("ok", "write") /\ at' \in {"stream", "wait"}
             \/ at = "halt" /\ word.kind = "stop" /\ rx' = Reply("ok", "stop") /\ at' = "stopped"
      BY <1>4 DEF ServeWrite, Halt, Goto, FlowInv, LinkInv, hostVars, history
    <2>2. host = word.kind /\ Answered("ok", host)' /\ rx' # NoReply
      BY <2>1, ReadFinds DEF Answered, Alone
    <2>3. QED
      BY <2>1, <2>2, WordFacts DEF LinkInv
  <1>5. CASE EarlyWait /\ ~UNCHANGED word
    <2>1. /\ hrx.kind = "block" /\ word' = hrx /\ hrx' = NoWord
          /\ UNCHANGED <<tx, rx, host, arrived>> /\ at = "early" /\ at' = "fill"
      BY <1>5 DEF EarlyWait, Goto, hostVars, history
    <2>2. host = "block" /\ Travels(Word("block", Len(arrived) + 1))' /\ word' # NoWord
      BY <2>1, WordFacts, ReadFinds DEF Travels, Alone
    <2>3. QED
      BY <2>1, <2>2 DEF LinkInv
  <1>6. QED
    BY <1>1, <1>2, <1>3, <1>4, <1>5

LEMMA LinkStep == StreamInv /\ [StreamNext]_streamVars => LinkInv'
  <1> SUFFICES ASSUME StreamInv, [StreamNext]_streamVars PROVE LinkInv'
    OBVIOUS
  <1>1. CASE UNCHANGED streamVars
    BY <1>1, LinkStays DEF StreamInv, In, WordPlace, HandoffAt, streamVars, registers, hostVars, flow, history
  <1>2. QED
    BY <1>1, HostLink, QuietSteps, ReadingSteps
      DEF StreamInv, StreamNext, Program, Stream, Wait, Early, ReadsNothing
-----------------------------------------------------------------------------
(* The flow of control and the pointer.                                    *)

\* A step that leaves the program and the SSI alone.
LEMMA ProgramStays ==
  ASSUME UNCHANGED <<flow, word, playVars, stageVars, dataVars, history>>
  PROVE  /\ FlowInv => FlowInv'
         /\ PlayInv => PlayInv'
         /\ LogInv => LogInv'
         /\ SpinInv => SpinInv'
  BY DEF flow, playVars, stageVars, dataVars, history, FlowInv, PlayInv, LogInv, SpinInv, Handed, Uncommitted,
         Committed, Filled, In

LEMMA HostStays == Host => UNCHANGED <<flow, word, playVars, stageVars, dataVars, history>>
  BY DEF Host, HostRefill, HostBlock, HostWrite, HostStop, HostSend, HostRead, Transfer

\* The pointer passes the base of the output buffer before the switch only.
LEMMA PassingFacts ==
  ASSUME StreamTypeOK, PlayInv, at \in EarlyPlaces, Passing
  PROVE  ~switched
  <1>1. active = output
    BY DEF Passing, PlayInv
  <1>2. QED
    BY <1>1, BufferFacts DEF PlayInv, In, StreamTypeOK

LEMMA FlowStep == StreamInv /\ [StreamNext]_streamVars => FlowInv'
  <1> SUFFICES ASSUME StreamInv, [StreamNext]_streamVars PROVE FlowInv'
    OBVIOUS
  <1> USE DEF HandoffAt, EarlyPlaces
  <1>1. StreamTypeOK /\ LinkInv /\ FlowInv /\ PlayInv
    BY DEF StreamInv
  <1>2. CASE UNCHANGED streamVars \/ Host
    BY <1>1, <1>2, ProgramStays, HostStays DEF streamVars
  <1>3. CASE SsiWord
    <2>1. r6'.pos = (r6.pos + 1) % Words /\ r6.pos \in 0 .. Words - 1
      BY <1>1, <1>3 DEF SsiWord, StreamTypeOK
    <2>2. at = "catch" => r6.pos = 0 /\ r6'.pos = 1 /\ ~turn'
      BY <1>1, <1>3, <2>1, PlaceFacts DEF SsiWord, FlowInv
    <2>3. QED
      BY <1>1, <1>3, <2>2 DEF SsiWord, FlowInv, stageVars
  <1>4. CASE Quiesce
    BY <1>1, <1>4 DEF Quiesce, Goto, FlowInv, stageVars
  <1>5. CASE CompleteFrame
    <2>1. r6'.pos \in {0, 2}
      <3>1. CASE r6.pos = 1
        <4>1. r6'.pos = (1 + 1) % Words
          BY <1>1, <1>5, <3>1 DEF CompleteFrame, StreamTypeOK
        <4>2. QED
          BY <4>1, PlaceFacts
      <3>2. CASE r6.pos = 0
        BY <1>1, <1>5, <3>2 DEF CompleteFrame
      <3>3. QED
        BY <1>1, <1>5, <3>1, <3>2 DEF CompleteFrame, FlowInv
    <2>2. QED
      BY <1>1, <1>5, <2>1 DEF CompleteFrame, Goto, FlowInv, stageVars
  <1>6. CASE Switch
    <2>1. return \in Returns /\ return' = return
      BY <1>1, <1>6 DEF Switch, Goto, FlowInv
    <2>2. at' \in IF return = "tail" THEN {"commit", "stream"} ELSE {return}
      BY <1>6 DEF Switch, Goto
    <2>3. tie' = TRUE /\ (pending' => pending) /\ (pending /\ return = "tail" => ~pending')
      BY <1>6 DEF Switch
    <2>4. switched' => return \in EarlyPlaces
      BY <1>1, <1>6 DEF Switch, FlowInv
    <2>5. QED
      BY <1>1, <1>6, <2>1, <2>2, <2>3, <2>4 DEF Switch, FlowInv, Returns
  <1>7. CASE Stream
    BY <1>1, <1>7 DEF Stream, StreamRefill, StreamReceive, StreamTake, ServeWrite, Commit, Render, Halt, Goto,
                      FlowInv, playVars, stageVars
  <1>8. CASE WaitCatch \/ WaitSpin \/ WaitRefill \/ WaitTake
    BY <1>1, <1>8 DEF WaitCatch, WaitSpin, WaitRefill, WaitTake, Call, Goto, AtBase, Listens, FlowInv, Returns,
                      playVars, stageVars
  <1>9. CASE WaitStop
    BY <1>1, <1>9 DEF WaitStop, Call, Goto, AtBase, FlowInv, Returns, playVars, stageVars
  <1>10. CASE Early
    <2>1. CASE EarlyWait
      BY <1>1, <2>1, PassingFacts DEF EarlyWait, Call, Goto, Passing, FlowInv, Returns, playVars, stageVars
    <2>2. CASE EarlyFill \/ EarlyAckCatch
      BY <1>1, <2>2, PassingFacts DEF EarlyFill, EarlyAckCatch, Call, Goto, Passing, FlowInv, Returns,
                                      playVars, stageVars
    <2>3. CASE EarlyAck
      BY <1>1, <2>3 DEF EarlyAck, Goto, FlowInv, playVars, stageVars
    <2>4. QED
      BY <1>10, <2>1, <2>2, <2>3 DEF Early
  <1>11. QED
    BY <1>2, <1>3, <1>4, <1>5, <1>6, <1>7, <1>8, <1>9, <1>10 DEF StreamNext, Program, Handoff, Wait
-----------------------------------------------------------------------------
(* The log and the watch for the boundary.                                 *)

LEMMA LogStep == StreamInv /\ [StreamNext]_streamVars => LogInv'
  <1> SUFFICES ASSUME StreamInv, [StreamNext]_streamVars PROVE LogInv'
    OBVIOUS
  <1>1. StreamTypeOK /\ LinkInv /\ FlowInv /\ PlayInv /\ LogInv
    BY DEF StreamInv
  <1>2. CASE UNCHANGED streamVars \/ Host
    BY <1>1, <1>2, ProgramStays, HostStays DEF streamVars
  <1>3. ASSUME UNCHANGED <<accepted, applied, pcm>>, Uncommitted' <=> Uncommitted
        PROVE  LogInv'
    BY <1>1, <1>3 DEF LogInv
  <1>4. CASE SsiWord
    BY <1>3, <1>4 DEF SsiWord, Uncommitted, stageVars, dataVars, history
  <1>5. CASE Quiesce \/ CompleteFrame
    BY <1>3, <1>5 DEF Quiesce, CompleteFrame, Goto, Uncommitted, stageVars, dataVars, history
  <1>6. CASE Switch
    <2>1. return \in Returns /\ at = "switch"
      BY <1>1, <1>6 DEF Switch, FlowInv, HandoffAt
    <2>2. UNCHANGED <<accepted, applied, pcm>>
      BY <1>6 DEF Switch, dataVars, history
    <2>3. CASE return = "tail" /\ pending
      BY <1>3, <1>6, <2>2, <2>3 DEF Switch, Goto, Uncommitted
    <2>4. CASE ~(return = "tail" /\ pending)
      <3>1. pending' = pending /\ at' \in {"stream"} \cup (Returns \ {"tail"})
        BY <1>6, <2>1, <2>4 DEF Switch, Goto
      <3>2. QED
        BY <1>3, <2>1, <2>2, <3>1 DEF Returns, Uncommitted
    <2>5. QED
      BY <2>3, <2>4
  <1>7. CASE StreamReceive \/ EarlyAck
    <2>1. ~Uncommitted /\ Uncommitted'
      BY <1>1, <1>7 DEF StreamReceive, EarlyAck, Goto, FlowInv, HandoffAt, Uncommitted, stageVars
    <2>2. UNCHANGED applied /\ accepted' = Append(accepted, Word("block", pcm'))
      <3>1. CASE StreamReceive
        <4>1. hrx.kind = "block"
          BY <3>1 DEF StreamReceive
        <4>2. QED
          BY <1>1, <3>1, <4>1, ReadFinds DEF StreamReceive
      <3>2. CASE EarlyAck
        <4>1. word.kind = "block"
          BY <1>1, <3>2 DEF EarlyAck, LinkInv, WordPlace, In, HandoffAt
        <4>2. pcm = Len(arrived) + 1
          BY <1>1, <3>2 DEF EarlyAck, PlayInv, In
        <4>3. QED
          BY <1>1, <3>2, <4>1, <4>2, ReadFinds DEF EarlyAck, dataVars
      <3>3. QED
        BY <1>7, <3>1, <3>2
    <2>3. QED
      BY <1>1, <2>1, <2>2 DEF LogInv
  <1>8. CASE ServeWrite
    <2>1. ~Uncommitted /\ ~Uncommitted'
      BY <1>1, <1>8 DEF ServeWrite, Goto, FlowInv, HandoffAt, Uncommitted, stageVars
    <2>2. QED
      BY <1>1, <1>8, <2>1 DEF ServeWrite, LogInv
  <1>9. CASE Commit
    <2>1. Uncommitted /\ ~Uncommitted'
      BY <1>1, <1>9 DEF Commit, Goto, FlowInv, HandoffAt, Uncommitted, stageVars
    <2>2. QED
      BY <1>1, <1>9, <2>1 DEF Commit, LogInv
  <1>10. CASE StreamRefill \/ StreamTake \/ Render \/ Halt
    <2>1. ~Uncommitted /\ ~Uncommitted'
      BY <1>1, <1>10 DEF StreamRefill, StreamTake, Render, Halt, Goto, FlowInv, HandoffAt, Uncommitted,
                         stageVars
    <2>2. QED
      BY <1>3, <1>10, <2>1 DEF StreamRefill, StreamTake, Render, Halt, dataVars, history
  <1>11. CASE Wait
    BY <1>3, <1>11 DEF Wait, WaitCatch, WaitSpin, WaitRefill, WaitTake, WaitStop, Call, Goto, Uncommitted,
                       stageVars, dataVars, history
  <1>12. CASE EarlyWait \/ EarlyFill \/ EarlyAckCatch
    <2>1. ~Uncommitted /\ ~Uncommitted'
      BY <1>1, <1>12 DEF EarlyWait, EarlyFill, EarlyAckCatch, Call, Goto, FlowInv, HandoffAt, Uncommitted,
                         stageVars
    <2>2. QED
      BY <1>1, <1>12, <2>1 DEF EarlyWait, EarlyFill, EarlyAckCatch, LogInv, dataVars, history
  <1>13. QED
    BY <1>2, <1>4, <1>5, <1>6, <1>7, <1>8, <1>9, <1>10, <1>11, <1>12
      DEF StreamNext, Program, Handoff, Stream, Early

LEMMA SpinStep == StreamInv /\ [StreamNext]_streamVars => SpinInv'
  <1> SUFFICES ASSUME StreamInv, [StreamNext]_streamVars PROVE SpinInv'
    OBVIOUS
  <1>1. StreamTypeOK /\ LinkInv /\ FlowInv /\ PlayInv /\ SpinInv
    BY DEF StreamInv
  <1>2. CASE UNCHANGED streamVars \/ Host
    BY <1>1, <1>2, ProgramStays, HostStays DEF streamVars
  <1>3. ASSUME at' \notin Watching \/ turn' = FALSE PROVE SpinInv'
    BY <1>3 DEF SpinInv
  <1>4. CASE SsiWord \/ Handoff
    BY <1>3, <1>4 DEF SsiWord, Handoff, Quiesce, CompleteFrame, Switch, Goto, Watching
  <1>5. CASE Stream
    <2>1. CASE StreamTake
      BY <1>3, <2>1 DEF StreamTake, Watching
    <2>2. CASE ~StreamTake
      BY <1>3, <1>5, <2>2 DEF Stream, StreamRefill, StreamReceive, ServeWrite, Commit, Render, Halt, Goto, Watching
    <2>3. QED
      BY <2>1, <2>2
  <1>6. r6.buf = active /\ (AtBase <=> r6.pos = 0)
    BY <1>1 DEF PlayInv, AtBase, StreamTypeOK
  <1>7. ASSUME at \in EarlyPlaces, ~switched PROVE Passing <=> r6.pos = 0
    BY <1>1, <1>7 DEF PlayInv, Passing, In, StreamTypeOK
  <1>8. CASE Wait
    BY <1>3, <1>6, <1>8 DEF Wait, WaitCatch, WaitSpin, WaitRefill, WaitTake, WaitStop, Call, Goto, Watching,
                            SpinInv, playVars
  <1>9. CASE Early
    BY <1>3, <1>7, <1>9 DEF Early, EarlyWait, EarlyFill, EarlyAckCatch, EarlyAck, Call, Goto, Watching, EarlyPlaces,
                            SpinInv, playVars, stageVars
  <1>10. QED
    BY <1>2, <1>4, <1>5, <1>8, <1>9 DEF StreamNext, Program
-----------------------------------------------------------------------------
(* The buffers.                                                            *)

\* A step that moves neither the pointer nor a payload, from one place of the
\* program to another with the same duties.
LEMMA PlayStays ==
  ASSUME PlayInv, UNCHANGED <<r6, out, active, refill, output, buffer, arrived>>,
         Handed' <=> Handed, Uncommitted' <=> Uncommitted,
         at # "render" /\ at' # "render",
         at' \in {"receive", "commit"} => at \in {"receive", "commit"},
         pending' => pending,
         In(EarlyPlaces)' => In(EarlyPlaces) /\ switched' = switched,
         In({"fill", "earlyAck"})' => pcm' = Len(arrived) + 1,
         Uncommitted => pcm' = pcm
  PROVE  PlayInv'
  <1>1. Committed' = Committed
    BY DEF Committed
  <1>2. QED
    BY <1>1 DEF PlayInv, Filled

LEMMA PlaySteady ==
  ASSUME StreamTypeOK, LinkInv, FlowInv, PlayInv,
         \/ Quiesce \/ StreamTake \/ ServeWrite \/ Halt \/ WaitCatch \/ WaitSpin \/ WaitTake \/ WaitStop
         \/ EarlyWait \/ EarlyFill \/ EarlyAckCatch
  PROVE  PlayInv'
  <1> USE DEF HandoffAt, EarlyPlaces
  <1>1. CASE Quiesce
    <2>1. UNCHANGED <<r6, out, active, refill, output, buffer, arrived, pending, switched, pcm, return>>
          /\ at = "catch" /\ at' = "complete"
      BY <1>1 DEF Quiesce, Goto, stageVars, dataVars, history
    <2>2. QED
      BY <2>1, PlayStays DEF Handed, Uncommitted, In, PlayInv
  <1>2. CASE StreamTake \/ ServeWrite
    <2>1. UNCHANGED <<r6, out, active, refill, output, buffer, arrived, pending, switched, pcm>>
          /\ at \in {"stream", "serve"}
          /\ \/ at = "stream" /\ at' = "serve" /\ return' = "stream"
             \/ at = "stream" /\ at' = "halt" /\ return' = "stream"
             \/ at = "serve" /\ return' = return /\ at' = return /\ return \in {"stream", "wait"}
      BY <1>2 DEF StreamTake, ServeWrite, Goto, FlowInv, playVars, stageVars, dataVars, history
    <2>2. QED
      BY <2>1, PlayStays DEF Handed, Uncommitted, In
  <1>3. CASE Halt
    <2>1. UNCHANGED <<r6, out, active, refill, output, buffer, arrived, pcm, return>>
          /\ at = "halt" /\ at' = "stopped" /\ ~pending /\ ~switched /\ ~pending' /\ ~switched'
      BY <1>3 DEF Halt, Goto, FlowInv, stageVars, dataVars, history
    <2>2. QED
      BY <2>1, PlayStays DEF Handed, Uncommitted, In
  <1>4. CASE WaitCatch \/ WaitSpin \/ WaitTake \/ WaitStop
    <2>1. UNCHANGED <<r6, out, active, refill, output, buffer, arrived, pending, switched, pcm>> /\ ~switched
          /\ at \in {"wait", "waitStop"}
          /\ \/ at' \in {"wait", "waitStop"}
             \/ at' = "catch" /\ return' \in {"tail", "halt"}
             \/ at' = "serve" /\ return' = "wait"
      BY <1>4 DEF WaitCatch, WaitSpin, WaitTake, WaitStop, Call, FlowInv, playVars, stageVars, dataVars, history
    <2>2. QED
      BY <2>1, PlayStays DEF Handed, Uncommitted, In
  <1>5. CASE EarlyWait
    <2>1. UNCHANGED <<r6, out, active, refill, output, buffer, arrived, pending, switched>>
          /\ at = "early" /\ ~pending
      BY <1>5 DEF EarlyWait, FlowInv, playVars, stageVars, history
    <2>2. CASE Passing
      <3>1. ~switched /\ at' = "catch" /\ return' = "early"
        BY <1>5, <2>1, <2>2, PassingFacts DEF EarlyWait, Call
      <3>2. QED
        BY <2>1, <3>1, PlayStays DEF Handed, Uncommitted, In
    <2>3. CASE ~Passing /\ hrx.kind = "block"
      <3>1. at' = "fill" /\ pcm' = Len(arrived) + 1
        BY <1>5, <2>3, ReadFinds DEF EarlyWait, Goto
      <3>2. QED
        BY <2>1, <3>1, PlayStays DEF Handed, Uncommitted, In
    <2>4. CASE ~Passing /\ hrx.kind # "block"
      <3>1. at' = "early"
        BY <1>5, <2>4, Zenon DEF EarlyWait
      <3>2. QED
        BY <2>1, <3>1, PlayStays DEF Handed, Uncommitted, In
    <2>5. QED
      BY <2>2, <2>3, <2>4
  <1>6. CASE EarlyFill \/ EarlyAckCatch
    <2>1. UNCHANGED <<r6, out, active, refill, output, buffer, arrived, pending, switched, pcm>>
          /\ at \in {"fill", "earlyAck"} /\ ~pending
      BY <1>6 DEF EarlyFill, EarlyAckCatch, FlowInv, playVars, stageVars, dataVars, history
    <2>2. \/ at' = "catch" /\ return' \in {"fill", "earlyAck"} /\ ~switched
          \/ at' \in {"fill", "earlyAck"}
      BY <1>6, <2>1, PassingFacts DEF EarlyFill, EarlyAckCatch, Call, Goto
    <2>3. pcm = Len(arrived) + 1 /\ In(EarlyPlaces)
      BY <2>1 DEF PlayInv, In
    <2>4. QED
      BY <2>1, <2>2, <2>3, PlayStays DEF Handed, Uncommitted, In
  <1>7. QED
    BY <1>1, <1>2, <1>3, <1>4, <1>5, <1>6

\* The next word comes from the payload that plays.
LEMMA NextWord ==
  ASSUME StreamTypeOK, PlayInv, out' = [load |-> buffer[r6.buf][r6.pos \div 2], pos |-> r6.pos]
  PROVE  out'.load = out.load /\ out'.pos = (out.pos + 1) % Words
  <1>1. r6.pos \div 2 \in 0 .. Frames - 1
    BY PlaceFacts DEF StreamTypeOK
  <1>2. QED
    BY <1>1 DEF PlayInv, Filled

LEMMA PlayWord ==
  ASSUME StreamTypeOK, LinkInv, FlowInv, PlayInv, SsiWord \/ CompleteFrame
  PROVE  PlayInv'
  <1>1. /\ UNCHANGED <<active, refill, output, buffer, arrived, pending, switched, pcm, return, frame>>
        /\ Handed' <=> Handed
        /\ Uncommitted' <=> Uncommitted
        /\ In(EarlyPlaces)' <=> In(EarlyPlaces)
        /\ In({"fill", "earlyAck"})' <=> In({"fill", "earlyAck"})
        /\ at' = at \/ (at = "complete" /\ at' = "switch")
    <2>1. /\ UNCHANGED <<active, refill, output, buffer, arrived, pending, switched, pcm, return, frame>>
          /\ at' = at \/ (at = "complete" /\ at' = "switch")
      BY DEF SsiWord, CompleteFrame, Goto, stageVars, dataVars, history
    <2>2. QED
      BY <2>1 DEF Handed, Uncommitted, In, HandoffAt, EarlyPlaces
  <1>2. CASE UNCHANGED <<out, r6>>
    <2>1. Committed' = Committed
      BY <1>1 DEF Committed
    <2>2. QED
      BY <1>1, <1>2, <2>1 DEF PlayInv, Filled
  <1>3. CASE out' = [load |-> buffer[r6.buf][r6.pos \div 2], pos |-> r6.pos]
             /\ r6' = [r6 EXCEPT !.pos = (r6.pos + 1) % Words]
    <2>1. out'.load = out.load
      BY <1>3, NextWord
    <2>2. r6'.buf = r6.buf /\ r6'.pos = (out'.pos + 1) % Words
      BY <1>3 DEF StreamTypeOK
    <2>3. Committed' = Committed
      BY <1>1 DEF Committed
    <2>4. QED
      BY <1>1, <2>1, <2>2, <2>3 DEF PlayInv, Filled
  <1>4. QED
    BY <1>2, <1>3 DEF SsiWord, CompleteFrame

LEMMA PlaySwitch ==
  ASSUME StreamTypeOK, LinkInv, FlowInv, PlayInv, Switch
  PROVE  /\ PlayInv'
         /\ out'.load = out.load + 1 /\ out'.pos = 0
  <1>1. /\ at = "switch" /\ return \in Returns /\ ~switched /\ ~Handed
        /\ return' = return /\ UNCHANGED <<buffer, output, arrived, pcm>>
    BY DEF Switch, Goto, FlowInv, HandoffAt, Handed, EarlyPlaces, dataVars, history
  <1>2. /\ out.load + 1 = Committed /\ refill = Other(active) /\ Filled(refill, Frames, Committed)
    BY <1>1 DEF PlayInv
  <1>3. /\ active \in Buffers /\ refill \in Buffers /\ Other(Other(active)) = active
        /\ r6' = [buf |-> refill, pos |-> 1] /\ active' = refill /\ out'.pos = 0
        /\ (0 + 1) % Words = 1
    <2>1. active \in Buffers /\ refill \in Buffers /\ Other(Other(active)) = active
      BY BufferFacts DEF StreamTypeOK
    <2>2. (0 + 1) % Words = 1
      BY PlaceFacts
    <2>3. QED
      BY <1>2, <2>1, <2>2 DEF Switch
  <1>4. out'.load = Committed
    BY <1>2, PlaceFacts DEF Switch, Filled
  <1>5. /\ Committed' = Committed
        /\ Handed'
        /\ at' # "render" /\ at' # "receive" /\ (at' = "commit" => refill' = Other(active'))
        /\ ~pending' \/ (return # "tail" /\ pending' = pending)
        /\ In(EarlyPlaces)' => In(EarlyPlaces) /\ switched'
        /\ In({"fill", "earlyAck"})' => In({"fill", "earlyAck"})
        /\ Uncommitted' => Uncommitted
    <2>1. CASE return = "tail" /\ pending
      <3>1. at' = "commit" /\ ~pending' /\ refill' = output
        BY <2>1 DEF Switch, Goto
      <3>2. output = active
        BY <2>1 DEF PlayInv
      <3>3. QED
        BY <1>1, <1>2, <1>3, <2>1, <3>1, <3>2 DEF Committed, Uncommitted, Handed, In, HandoffAt, EarlyPlaces
    <2>2. CASE ~(return = "tail" /\ pending)
      <3>1. /\ at' = IF return = "tail" THEN "stream" ELSE return
            /\ pending' = pending
        BY <2>2 DEF Switch, Goto
      <3>2. switched' <=> return \in EarlyPlaces
        BY <2>2 DEF Switch, EarlyPlaces
      <3>3. pending => return = "tail"
        BY <1>1 DEF FlowInv
      <3>4. QED
        BY <1>1, <2>2, <3>1, <3>2, <3>3 DEF Returns, Committed, Uncommitted, Handed, In, HandoffAt, EarlyPlaces
    <2>3. QED
      BY <2>1, <2>2
  <1>6. In(EarlyPlaces) => output = active
    BY <1>1 DEF PlayInv
  <1>7. ~pending'
    BY <1>1, <1>5 DEF FlowInv
  <1>8. PlayInv'
    <2>1. Filled(active, Frames, out.load)'
      BY <1>1, <1>2, <1>3, <1>4 DEF Filled
    <2>2. In(EarlyPlaces)' => output' = Other(active') /\ switched'
      BY <1>1, <1>2, <1>3, <1>5, <1>6
    <2>3. In({"fill", "earlyAck"})' => pcm' = Len(arrived') + 1
      BY <1>1, <1>5 DEF PlayInv
    <2>4. Uncommitted' => pcm' = Len(arrived')
      BY <1>1, <1>5 DEF PlayInv
    <2>5. QED
      BY <1>3, <1>4, <1>5, <1>7, <2>1, <2>2, <2>3, <2>4 DEF PlayInv
  <1>9. QED
    BY <1>2, <1>3, <1>4, <1>8

\* The steps that take a payload, commit it, render it, or aim the renderer.
LEMMA PlayRefill ==
  ASSUME StreamTypeOK, LinkInv, FlowInv, PlayInv, StreamRefill \/ WaitRefill
  PROVE  PlayInv'
  <1> USE DEF HandoffAt, EarlyPlaces, Handed, Uncommitted, In
  <1>1. UNCHANGED <<r6, out, active, buffer, arrived, pcm, pending>> /\ ~pending /\ ~switched'
    BY DEF StreamRefill, WaitRefill, FlowInv, Listens, playVars, dataVars, history
  <1>2. CASE StreamRefill
    <2>1. at = "stream" /\ at' = "receive" /\ refill' = Other(active)
      BY <1>2 DEF StreamRefill, Goto
    <2>2. QED
      BY <1>1, <2>1 DEF PlayInv, Committed, Filled
  <1>3. CASE WaitRefill
    <2>1. at = "wait" /\ at' = "early" /\ output' = active /\ ~switched /\ refill' = refill
      BY <1>3 DEF WaitRefill, EarlyTarget, Goto, FlowInv
    <2>2. QED
      BY <1>1, <2>1 DEF PlayInv, Committed, Filled
  <1>4. QED
    BY <1>2, <1>3

LEMMA PlayBlock ==
  ASSUME StreamTypeOK, LinkInv, FlowInv, PlayInv, StreamReceive \/ EarlyAck
  PROVE  PlayInv'
  <1> USE DEF HandoffAt, EarlyPlaces, Handed, Uncommitted, In
  <1>1. /\ UNCHANGED <<r6, out, active, output, buffer>> /\ ~pending
        /\ Len(arrived) \in Nat /\ Len(arrived') = Len(arrived) + 1
        /\ pcm' = Len(arrived')
    <2>1. CASE StreamReceive
      <3>1. hrx.kind = "block"
        BY <2>1 DEF StreamReceive
      <3>2. QED
        BY <2>1, <3>1, ReadFinds DEF StreamReceive, FlowInv, StreamTypeOK, playVars, stageVars
    <2>2. CASE EarlyAck
      BY <2>2 DEF EarlyAck, FlowInv, PlayInv, StreamTypeOK, playVars, dataVars
    <2>3. QED
      BY <2>1, <2>2
  <1>2. /\ Committed = Len(arrived) /\ (Uncommitted' => Committed' = Len(arrived))
        /\ Uncommitted'
    <2>1. at # "commit" /\ (at' = "commit" \/ pending')
      BY DEF StreamReceive, EarlyAck, Goto
    <2>2. QED
      BY <1>1, <2>1 DEF Committed
  <1>3. CASE StreamReceive
    <2>1. at = "receive" /\ at' = "commit" /\ UNCHANGED <<refill, pending, switched>> /\ ~switched
      BY <1>3 DEF StreamReceive, Goto, FlowInv, stageVars
    <2>2. QED
      BY <1>1, <1>2, <2>1 DEF PlayInv, Filled
  <1>4. CASE EarlyAck
    <2>1. at = "earlyAck" /\ output = IF switched THEN Other(active) ELSE active
      BY <1>4 DEF EarlyAck, PlayInv
    <2>2. CASE switched
      <3>1. at' = "commit" /\ refill' = output /\ ~switched' /\ pending' = pending
        BY <1>4, <2>2 DEF EarlyAck, Goto
      <3>2. QED
        BY <1>1, <1>2, <2>1, <2>2, <3>1 DEF PlayInv, Filled
    <2>3. CASE ~switched
      <3>1. at' = "wait" /\ pending' = TRUE /\ UNCHANGED <<switched, refill>>
        BY <1>4, <2>3 DEF EarlyAck, Goto
      <3>2. QED
        BY <1>1, <1>2, <2>1, <2>3, <3>1 DEF PlayInv, Filled
    <2>4. QED
      BY <2>2, <2>3
  <1>5. QED
    BY <1>3, <1>4

LEMMA PlayCommit ==
  ASSUME StreamTypeOK, LinkInv, FlowInv, PlayInv, Commit
  PROVE  PlayInv'
  <1> USE DEF HandoffAt, EarlyPlaces, Handed, Uncommitted, In
  <1>1. /\ UNCHANGED <<r6, out, active, output, buffer, arrived, refill, pcm, pending, switched>>
        /\ ~pending /\ ~switched /\ at = "commit" /\ at' = "render" /\ frame' = 0
    BY DEF Commit, Goto, FlowInv, playVars, stageVars
  <1>2. /\ Committed' = Len(arrived) /\ Committed = Len(arrived) - 1 /\ Len(arrived) \in Nat
    BY <1>1 DEF Committed, StreamTypeOK
  <1>3. Filled(refill, frame, Committed)'
    BY <1>1 DEF Filled
  <1>4. Filled(active, Frames, out.load)'
    BY <1>1 DEF PlayInv, Filled
  <1>5. out.load = Committed /\ refill = Other(active) /\ pcm = Len(arrived)
    BY <1>1 DEF PlayInv
  <1>6. out'.load + 1 = Committed' /\ frame' < Frames /\ refill' = Other(active')
    BY <1>1, <1>2, <1>5, StreamAssumption
  <1>7. QED
    BY <1>1, <1>3, <1>4, <1>5, <1>6 DEF PlayInv

LEMMA PlayRender ==
  ASSUME StreamTypeOK, LinkInv, FlowInv, PlayInv, Render
  PROVE  PlayInv'
  <1> USE DEF HandoffAt, EarlyPlaces, Handed, Uncommitted, In
  <1>1. /\ UNCHANGED <<r6, out, active, output, arrived, refill, pcm, pending, switched>>
        /\ ~pending /\ ~switched /\ at = "render" /\ frame' = frame + 1
        /\ at' = IF frame + 1 < Frames THEN "render" ELSE "wait"
        /\ buffer' = [buffer EXCEPT ![refill][frame] = pcm]
    BY DEF Render, Goto, FlowInv, playVars, stageVars, history
  <1>2. /\ Committed' = Committed /\ Committed = Len(arrived) /\ pcm = Len(arrived)
        /\ frame \in Nat /\ frame < Frames /\ refill = Other(active) /\ Filled(refill, frame, pcm)
    BY <1>1 DEF Committed, PlayInv, StreamTypeOK
  <1>3. /\ active \in Buffers /\ refill \in Buffers /\ refill # active
    BY <1>2, BufferFacts DEF StreamTypeOK
  <1>4. Filled(active, Frames, out.load)'
    BY <1>1, <1>2, <1>3 DEF PlayInv, Filled, StreamTypeOK
  <1>5. Filled(refill, frame, Committed)'
    <2>1. SUFFICES ASSUME NEW f \in 0 .. frame' - 1 PROVE buffer'[refill][f] = Committed
      BY <1>1, <1>2 DEF Filled
    <2>2. CASE f = frame
      BY <1>1, <1>2, <1>3, <2>2, StreamAssumption DEF StreamTypeOK
    <2>3. CASE f # frame
      BY <1>1, <1>2, <1>3, <2>1, <2>3, StreamAssumption DEF StreamTypeOK, Filled
    <2>4. QED
      BY <2>2, <2>3
  <1>6. CASE frame + 1 < Frames
    BY <1>1, <1>2, <1>4, <1>5, <1>6 DEF PlayInv
  <1>7. CASE frame + 1 >= Frames
    <2>1. frame' = Frames
      BY <1>1, <1>2, <1>7, StreamAssumption
    <2>2. QED
      BY <1>1, <1>2, <1>4, <1>5, <1>7, <2>1, StreamAssumption DEF PlayInv
  <1>8. QED
    BY <1>2, <1>6, <1>7, StreamAssumption

LEMMA PlayStep == StreamInv /\ [StreamNext]_streamVars => PlayInv'
  <1> SUFFICES ASSUME StreamInv, [StreamNext]_streamVars PROVE PlayInv'
    OBVIOUS
  <1>1. CASE UNCHANGED streamVars \/ Host
    BY <1>1, ProgramStays, HostStays DEF StreamInv, streamVars
  <1>2. QED
    BY <1>1, PlaySteady, PlayWord, PlaySwitch, PlayRefill, PlayBlock, PlayCommit, PlayRender
      DEF StreamInv, StreamNext, Program, Stream, Wait, Early, Handoff
-----------------------------------------------------------------------------
(* The host port.                                                          *)

\* The word before the port's DSP: the one the program holds, if it holds one.
Heard == IF word.kind = "none" THEN hrx ELSE word

PhaseTable ==
  /\ at \in {"stream", "serve", "waitStop", "halt"} => Phase = "listen"
  /\ at \in EarlyPlaces \cup {"receive"} => Phase = "receive"
  /\ at = "stopped" => Phase = "stopped"
  /\ at \in {"commit", "render"} => Phase = "busy"
  /\ at = "wait" \/ (at \in HandoffAt /\ return = "tail") =>
       Phase = IF early /\ ~pending THEN "listen" ELSE "busy"
  /\ at \in HandoffAt /\ return \in EarlyPlaces => Phase = "receive"
  /\ at \in HandoffAt /\ return = "halt" => Phase = "listen"

LEMMA PhaseFacts == PhaseTable /\ PhaseTable'
  BY DEF PhaseTable, Phase, EarlyPlaces, HandoffAt

LEMMA PortStart == StreamInit => Port!PortInit
  <1> SUFFICES ASSUME StreamInit PROVE Port!PortInit
    OBVIOUS
  <1>1. Phase = "listen"
    BY PhaseFacts DEF StreamInit, PhaseTable
  <1>2. QED
    BY <1>1 DEF StreamInit, Port!PortInit, NoWord, NoReply

LEMMA PortStays ==
  ASSUME UNCHANGED <<tx, rx, arrived>>, Heard' = Heard, Phase' = Phase
  PROVE  UNCHANGED Port!portVars
  BY DEF Port!portVars, Heard

\* The host's steps are steps of the port's host.
LEMMA HostRefines ==
  ASSUME StreamTypeOK, LinkInv, Host
  PROVE  Port!PortNext
  <1>1. UNCHANGED <<word, at, return, early, pending, arrived>> /\ Phase' = Phase
    BY HostStays DEF flow, stageVars, history, Phase
  <1>2. CASE HostRefill \/ HostBlock \/ HostWrite \/ HostStop
    <2>1. PICK k \in {"refill", "block", "write", "stop"}, n \in {0, Len(arrived) + 1} :
            tx = NoWord /\ tx' = Word(k, n) /\ UNCHANGED <<hrx, rx>> /\ n \in Numbers
      <3>1. Len(arrived) \in Nat /\ 0 \in Numbers
        BY StreamAssumption DEF StreamTypeOK, Numbers
      <3>2. HostRefill \/ HostBlock => Len(arrived) + 1 \in Numbers
        BY <3>1, StreamAssumption DEF HostRefill, HostBlock, LinkInv, Numbers
      <3>3. QED
        BY <1>2, <3>1, <3>2 DEF HostRefill, HostBlock, HostWrite, HostStop, HostSend
    <2>2. Word(k, n) \in Port!Words
      BY <2>1, WordFacts DEF Port!Kinds
    <2>3. Port!SendWord(Word(k, n))
      BY <1>1, <2>1 DEF Port!SendWord, Port!TXDE, NoWord
    <2>4. QED
      BY <2>2, <2>3 DEF Port!PortNext
  <1>3. CASE HostRead
    BY <1>1, <1>3 DEF HostRead, Port!TakeReply, Port!RXDF, NoReply, Port!PortNext
  <1>4. CASE Transfer
    <2>1. word = NoWord /\ word.kind = "none"
      BY <1>4, TakenWord, WordFacts DEF Transfer
    <2>2. Port!PortTransfer
      BY <1>1, <1>4, <2>1 DEF Transfer, Port!PortTransfer, Port!TXDE, NoWord
    <2>3. QED
      BY <2>2 DEF Port!PortNext
  <1>5. QED
    BY <1>2, <1>3, <1>4 DEF Host

\* The steps between two words: the host sees nothing, or that a rendered
\* period was handed over.
LEMMA QuietRefines ==
  ASSUME StreamInv, ReadsNothing
  PROVE  Port!PortNext \/ UNCHANGED Port!portVars
  <1> USE DEF PhaseTable, HandoffAt, EarlyPlaces
  <1>1. /\ StreamTypeOK /\ LinkInv /\ FlowInv /\ PlayInv
        /\ UNCHANGED <<tx, rx, arrived>> /\ Heard' = Heard
    BY QuietSteps DEF StreamInv, Heard
  <1>2. ASSUME Phase = "busy", Phase' = "listen" PROVE Port!PortNext
    BY <1>1, <1>2 DEF Port!PortNext, Port!Dsp, Port!Handoff, Heard
  <1>3. CASE SsiWord \/ Quiesce \/ CompleteFrame
    <2>1. at' = at \/ (at \in HandoffAt /\ at' \in HandoffAt)
      BY <1>3 DEF SsiWord, Quiesce, CompleteFrame, Goto
    <2>2. UNCHANGED <<return, early, pending>>
      BY <1>3 DEF SsiWord, Quiesce, CompleteFrame, Goto, stageVars
    <2>3. Phase' = Phase
      BY <2>1, <2>2 DEF Phase
    <2>4. QED
      BY <1>1, <2>3, PortStays
  <1>4. CASE Switch
    <2>1. at = "switch" /\ return \in Returns /\ early' = early
      BY <1>1, <1>4 DEF Switch, FlowInv
    <2>2. CASE return = "tail" /\ pending
      <3>1. at' = "commit"
        BY <1>4, <2>2 DEF Switch, Goto
      <3>2. QED
        BY <1>1, <2>1, <2>2, <3>1, PhaseFacts, PortStays
    <2>3. CASE return = "tail" /\ ~pending
      <3>1. at' = "stream"
        BY <1>4, <2>3 DEF Switch, Goto
      <3>2. QED
        BY <1>1, <1>2, <2>1, <2>3, <3>1, PhaseFacts, PortStays
    <2>4. CASE return # "tail"
      <3>1. at' = return
        BY <1>4, <2>4 DEF Switch, Goto
      <3>2. QED
        BY <1>1, <2>1, <2>4, <3>1, PhaseFacts, PortStays DEF Returns
    <2>5. QED
      BY <2>2, <2>3, <2>4
  <1>5. CASE Commit \/ Render
    <2>1. /\ at \in {"commit", "render"} /\ at' \in {"render", "wait"}
      BY <1>5 DEF Commit, Render, Goto
    <2>2. QED
      BY <1>1, <1>2, <2>1, PhaseFacts, PortStays
  <1>6. CASE WaitCatch \/ WaitSpin \/ WaitStop
    <2>1. /\ UNCHANGED <<early, pending>>
          /\ \/ at = "wait" /\ at' = "wait"
             \/ at = "wait" /\ at' = "catch" /\ return' = "tail"
             \/ at = "waitStop" /\ at' = "waitStop"
             \/ at = "waitStop" /\ at' = "catch" /\ return' = "halt"
      BY <1>6 DEF WaitCatch, WaitSpin, WaitStop, Call, stageVars
    <2>2. QED
      BY <1>1, <2>1, PhaseFacts, PortStays
  <1>7. CASE (EarlyWait /\ UNCHANGED word) \/ EarlyFill \/ EarlyAckCatch
    <2>1. /\ at \in EarlyPlaces
          /\ at' \in EarlyPlaces \/ (at' = "catch" /\ return' \in EarlyPlaces)
      BY <1>7 DEF EarlyWait, EarlyFill, EarlyAckCatch, Call, Goto
    <2>2. QED
      BY <1>1, <2>1, PhaseFacts, PortStays
  <1>8. QED
    BY <1>3, <1>4, <1>5, <1>6, <1>7 DEF ReadsNothing, Handoff

\* The steps that read a word move it out of the port's sight only when they
\* answer it, and they answer what the port's DSP answers.
LEMMA ReadingRefines ==
  ASSUME StreamInv,
         StreamRefill \/ StreamReceive \/ StreamTake \/ ServeWrite \/ Halt \/ WaitRefill \/ WaitTake
           \/ (EarlyWait /\ ~UNCHANGED word) \/ EarlyAck
  PROVE  Port!PortNext \/ UNCHANGED Port!portVars
  <1> USE DEF PhaseTable, HandoffAt, EarlyPlaces
  <1>1. StreamTypeOK /\ LinkInv /\ FlowInv /\ PlayInv /\ NoWord.kind = "none"
    BY WordFacts DEF StreamInv
  <1>2. CASE StreamRefill \/ WaitRefill
    <2>1. /\ hrx.kind = "refill" /\ hrx' = NoWord /\ rx' = Reply("ready", "refill") /\ rx = NoReply
          /\ UNCHANGED <<tx, arrived, word>> /\ Phase = "listen" /\ Phase' = "receive"
      BY <1>2, PhaseFacts DEF StreamRefill, WaitRefill, Listens, Goto, history
    <2>2. word = NoWord
      BY <1>1, <2>1, ReadFinds
    <2>3. Port!TakeRefill
      BY <1>1, <2>1, <2>2 DEF Port!TakeRefill, Port!Answer, Port!RXDF, NoReply, NoWord, Reply
    <2>4. QED
      BY <2>3 DEF Port!PortNext, Port!Dsp
  <1>3. CASE StreamReceive \/ EarlyAck
    <2>1. /\ Heard.kind = "block" /\ Heard' = NoWord /\ rx' = Reply("ok", "block") /\ rx = NoReply
          /\ tx' = tx /\ arrived' = Append(arrived, Heard.load) /\ Phase = "receive"
      <3>1. CASE StreamReceive
        <4>1. hrx.kind = "block"
          BY <3>1 DEF StreamReceive
        <4>2. word = NoWord
          BY <1>1, <4>1, ReadFinds
        <4>3. QED
          BY <1>1, <3>1, <4>1, <4>2, PhaseFacts DEF StreamReceive, Heard
      <3>2. CASE EarlyAck
        <4>1. word.kind = "block"
          BY <1>1, <3>2 DEF EarlyAck, LinkInv, WordPlace, In
        <4>2. hrx = NoWord
          BY <1>1, <4>1, ReadFinds
        <4>3. QED
          BY <1>1, <3>2, <4>1, <4>2, PhaseFacts DEF EarlyAck, Heard
      <3>3. QED
        BY <1>3, <3>1, <3>2
    <2>2. Phase' = "busy"
      <3>1. at' = "commit" \/ (at' = "wait" /\ pending')
        BY <1>3 DEF StreamReceive, EarlyAck, Goto
      <3>2. QED
        BY <3>1, PhaseFacts
    <2>3. Port!TakeBlock
      BY <2>1, <2>2 DEF Port!TakeBlock, Port!Answer, Port!RXDF, NoReply, NoWord, Reply, Heard
    <2>4. QED
      BY <2>3 DEF Port!PortNext, Port!Dsp
  <1>4. CASE StreamTake \/ WaitTake \/ (EarlyWait /\ ~UNCHANGED word)
    <2>1. /\ hrx.kind \in {"write", "stop", "block"} /\ word' = hrx
          /\ UNCHANGED <<tx, rx, arrived>>
      BY <1>4 DEF StreamTake, WaitTake, EarlyWait, Goto, history
    <2>2. Heard' = Heard
      BY <1>1, <2>1, ReadFinds DEF Heard
    <2>3. Phase' = Phase
      <3>1. \/ at = "stream" /\ at' \in {"serve", "halt"}
            \/ at = "wait" /\ early /\ ~pending /\ at' \in {"serve", "waitStop"}
            \/ at = "early" /\ at' = "fill"
        BY <1>4 DEF StreamTake, WaitTake, EarlyWait, Goto, Listens
      <3>2. QED
        BY <3>1, PhaseFacts
    <2>4. QED
      BY <2>1, <2>2, <2>3, PortStays
  <1>5. CASE ServeWrite
    <2>1. /\ word.kind = "write" /\ Heard = word /\ Phase = "listen" /\ Phase' = "listen"
      <3>1. word.kind = "write"
        BY <1>1, <1>5 DEF ServeWrite, LinkInv, WordPlace, In
      <3>2. at' = "stream" \/ (at' = "wait" /\ early' /\ ~pending')
        BY <1>1, <1>5 DEF ServeWrite, Goto, FlowInv, stageVars
      <3>3. QED
        BY <1>5, <3>1, <3>2, PhaseFacts DEF ServeWrite, Heard
    <2>2. hrx = NoWord /\ hrx' = hrx /\ word' = NoWord
      BY <1>1, <1>5, <2>1, ReadFinds DEF ServeWrite
    <2>3. Port!TakeWrite
      BY <1>1, <1>5, <2>1, <2>2 DEF ServeWrite, Port!TakeWrite, Port!Answer, Port!RXDF, NoReply, NoWord, Reply, Heard
    <2>4. QED
      BY <2>3 DEF Port!PortNext, Port!Dsp
  <1>6. CASE Halt
    <2>1. /\ word.kind = "stop" /\ Phase = "listen" /\ Phase' = "stopped"
      BY <1>1, <1>6, PhaseFacts DEF Halt, Goto, LinkInv, WordPlace, In
    <2>2. hrx = NoWord /\ hrx' = hrx /\ word' = NoWord
      BY <1>1, <1>6, <2>1, ReadFinds DEF Halt
    <2>3. Port!StopAudio
      BY <1>1, <1>6, <2>1, <2>2 DEF Halt, Port!StopAudio, Port!Answer, Port!RXDF, NoReply, NoWord, Reply, history
    <2>4. QED
      BY <2>3 DEF Port!PortNext, Port!Dsp
  <1>7. QED
    BY <1>2, <1>3, <1>4, <1>5, <1>6
-----------------------------------------------------------------------------
(* The theorems.                                                           *)

LEMMA PointerStays == StreamNext /\ ~SsiWord /\ ~CompleteFrame /\ ~Switch => UNCHANGED <<out, r6>>
  BY DEF StreamNext, Host, HostRefill, HostBlock, HostWrite, HostStop, HostSend, HostRead,
         Transfer, Program, Handoff, Quiesce, Stream, StreamRefill, StreamReceive, StreamTake, ServeWrite,
         Commit, Render, Halt, Wait, WaitCatch, WaitSpin, WaitRefill, WaitTake, WaitStop, Early, EarlyWait,
         EarlyFill, EarlyAckCatch, EarlyAck, playVars

\* The invariant holds from the start of the stream, and every step of the
\* host, the SSI and the program keeps it.
THEOREM StreamInductive == StreamSpec => []StreamInv
  <1>1. StreamInv /\ [StreamNext]_streamVars => StreamInv'
    BY TypeStep, LinkStep, FlowStep, PlayStep, LogStep, SpinStep DEF StreamInv
  <1>2. QED
    BY StreamStart, <1>1, PTL DEF StreamSpec

\* Writes and bursts take effect in the order the host had them accepted, with
\* at most one accepted payload still to be committed (ym2151.asm:8061-8063).
THEOREM BurstsInOrder == StreamSpec => []AppliedInOrder
  <1>1. ASSUME NEW s \in Seq(Port!Words), NEW e \in Port!Words
        PROVE  IsPrefix(s, s) /\ IsPrefix(s, Append(s, e)) /\ Len(Append(s, e)) = Len(s) + 1 /\ Len(s) \in Nat
    BY DEF IsPrefix
  <1>2. StreamInv => AppliedInOrder
    <2> SUFFICES ASSUME StreamInv PROVE AppliedInOrder
      OBVIOUS
    <2>1. Word("block", pcm) \in Port!Words /\ applied \in Seq(Port!Words)
      BY WordFacts DEF StreamInv, StreamTypeOK, Port!Kinds
    <2>2. accepted = applied \/ accepted = Append(applied, Word("block", pcm))
      BY DEF StreamInv, LogInv
    <2>3. CASE accepted = applied
      BY <1>1, <2>1, <2>3 DEF AppliedInOrder
    <2>4. CASE accepted = Append(applied, Word("block", pcm))
      BY <1>1, <2>1, <2>4 DEF AppliedInOrder
    <2>5. QED
      BY <2>2, <2>3, <2>4
  <1>3. QED
    BY <1>2, StreamInductive, PTL

\* When the stop is answered, every write and burst acknowledged has taken
\* effect and the last payload acknowledged has begun to play
\* (ym2151.asm:7992-7994, 8026-8041): none is abandoned, and only the last may
\* be cut.
THEOREM StopAfterAll == StreamSpec => []StopPlaysAll
  <1>1. StreamInv => StopPlaysAll
    BY DEF StreamInv, FlowInv, PlayInv, LogInv, StopPlaysAll, Handed, Committed, Uncommitted, HandoffAt
  <1>2. QED
    BY <1>1, StreamInductive, PTL

\* The SSI transmits whole periods, in payload order, left and right in turn
\* (ym2151.asm:3839-3843).  There is nothing between two periods: one that is
\* rendered late lets the old one repeat whole, and a boundary seen one word
\* late repeats its first frame.
THEOREM NothingTorn == StreamSpec => PeriodsWhole
  <1> DEFINE Whole == out' # out =>
       \/ out'.pos = out.pos + 1 /\ out'.load = out.load
       \/ out.pos = Words - 1 /\ out'.pos = 0 /\ out'.load \in {out.load, out.load + 1}
       \/ out.pos = 1 /\ out'.pos = 0 /\ out'.load = out.load + 1
  <1>1. ASSUME StreamInv, StreamNext PROVE Whole
    <2>1. /\ StreamTypeOK /\ LinkInv /\ FlowInv /\ PlayInv
          /\ out.pos \in 0 .. Words - 1 /\ r6.pos = (out.pos + 1) % Words
      BY <1>1 DEF StreamInv, StreamTypeOK, PlayInv
    <2>2. (out.pos + 1) % Words = IF out.pos = Words - 1 THEN 0 ELSE out.pos + 1
      BY <2>1, PlaceFacts
    <2>3. CASE SsiWord \/ CompleteFrame
      <3>1. out' = out \/ (out'.load = out.load /\ out'.pos = (out.pos + 1) % Words)
        BY <2>1, <2>3, NextWord DEF SsiWord, CompleteFrame
      <3>2. QED
        BY <2>2, <3>1
    <2>4. CASE Switch
      <3>1. out'.load = out.load + 1 /\ out'.pos = 0 /\ r6.pos \in {0, 2}
        BY <2>1, <2>4, PlaySwitch DEF Switch, FlowInv
      <3>2. QED
        BY <2>1, <2>2, <3>1, PlaceFacts
    <2>5. CASE ~SsiWord /\ ~CompleteFrame /\ ~Switch
      BY <1>1, <2>5, PointerStays
    <2>6. QED
      BY <2>3, <2>4, <2>5
  <1>2. StreamInv /\ [StreamNext]_streamVars => [Whole]_streamVars
    BY <1>1
  <1>3. QED
    BY <1>2, StreamInductive, PTL DEF StreamSpec, PeriodsWhole

\* The SSI never passes the base of the buffer unseen while the program watches
\* for it with a rendered period at hand (ym2151.asm:8082-8087, 8214-8218).
THEOREM NoBoundaryMissed == StreamSpec => BoundaryCaught
  <1>1. ASSUME StreamInv, StreamNext
        PROVE  tie /\ r6.pos = 0 /\ r6' # r6 => at \notin Watching \/ switched
    <2>1. CASE SsiWord
      BY <1>1, <2>1 DEF StreamInv, SpinInv, SsiWord
    <2>2. CASE CompleteFrame \/ Switch
      BY <2>2 DEF CompleteFrame, Switch, Watching
    <2>3. CASE ~SsiWord /\ ~CompleteFrame /\ ~Switch
      BY <1>1, <2>3, PointerStays
    <2>4. QED
      BY <2>1, <2>2, <2>3
  <1>2. StreamInv /\ [StreamNext]_streamVars =>
          [tie /\ r6.pos = 0 /\ r6' # r6 => at \notin Watching \/ switched]_streamVars
    BY <1>1
  <1>3. QED
    BY <1>2, StreamInductive, PTL DEF StreamSpec, BoundaryCaught

\* To the host the program is the DSP of HostPort, which RefillPipeline was
\* checked against: it answers each word once, in the phase that may answer it.
THEOREM PortImplemented == StreamSpec => ImplementsPort
  <1>1. StreamInv /\ [StreamNext]_streamVars => [Port!PortNext]_Port!portVars
    <2> SUFFICES ASSUME StreamInv, [StreamNext]_streamVars
                 PROVE  Port!PortNext \/ UNCHANGED Port!portVars
      OBVIOUS
    <2>1. CASE UNCHANGED streamVars
      BY <2>1, PortStays DEF streamVars, registers, flow, stageVars, history, Heard, Phase
    <2>2. CASE Host
      BY <2>2, HostRefines DEF StreamInv
    <2>3. CASE SsiWord \/ Program
      BY <2>3, QuietRefines, ReadingRefines DEF Program, Stream, Wait, Early, ReadsNothing
    <2>4. QED
      BY <2>1, <2>2, <2>3 DEF StreamNext
  <1>2. QED
    BY <1>1, PortStart, StreamInductive, PTL DEF StreamSpec, ImplementsPort, Port!PortSpec
-----------------------------------------------------------------------------
(* The profile windows.                                                    *)

Counters == [payloads : Nat, handoffs : Nat, on : BOOLEAN]

ProfileTypeOK ==
  /\ tool \in {"live", "payloads"} /\ left \in Nat
  /\ live \in Counters
  /\ shots \in Seq(Counters)

\* The handoff that began at the breakpoint's label is not over.
InTail == at \in HandoffAt /\ return = "tail"

\* A window opens with one payload rendered and not handed over, and each
\* further hit of the breakpoint has a handoff before it.
WindowInv ==
  live.on =>
    /\ left >= 1
    /\ live.payloads + 1 + out.load = live.handoffs + Committed
    /\ live.handoffs + left >= IF InTail THEN Span - 1 ELSE Span

ProfileInv == ProfileTypeOK /\ WindowInv /\ WindowsNormalized
-----------------------------------------------------------------------------
\* The probes only watch: what is proved of the stream holds under them.
LEMMA ProfileWatches == ProfileSpec => StreamSpec
  <1>1. ProfileInit => StreamInit
    BY DEF ProfileInit
  <1>2. [ProfileNext]_<<streamVars, profileVars>> => [StreamNext]_streamVars
    BY DEF ProfileNext
  <1>3. QED
    BY <1>1, <1>2, PTL DEF ProfileSpec, StreamSpec

\* Into a handoff, through it, and out of it.
LEMMA HandoffMoves ==
  ASSUME StreamNext, FlowInv
  PROVE  /\ at \in HandoffAt /\ ~Switch => at' \in HandoffAt /\ return' = return
         /\ at = "switch" /\ ~Switch => at' = "switch"
         /\ Switch => at = "switch" /\ at' \notin HandoffAt
         /\ at \notin HandoffAt /\ at' \in HandoffAt =>
              at' = "catch" /\ (return' = "tail" <=> at = "wait")
  <1> USE DEF HandoffAt
  <1>0. Switch => at = "switch" /\ at' \notin HandoffAt
    BY DEF Switch, Goto, FlowInv, Returns
  <1>1. CASE Host \/ SsiWord
    <2>1. UNCHANGED <<at, return>>
      BY <1>1, HostStays DEF SsiWord, flow
    <2>2. QED
      BY <1>0, <2>1
  <1>2. CASE Quiesce \/ CompleteFrame
    BY <1>2 DEF Quiesce, CompleteFrame, Switch, Goto
  <1>3. CASE Switch
    BY <1>0, <1>3
  <1>4. CASE Stream
    BY <1>4 DEF Stream, StreamRefill, StreamReceive, StreamTake, ServeWrite, Commit, Render, Halt, Switch, Goto,
                FlowInv
  <1>5. CASE Wait
    BY <1>5 DEF Wait, WaitCatch, WaitSpin, WaitRefill, WaitTake, WaitStop, Switch, Call, Goto
  <1>6. CASE Early
    <2>1. CASE EarlyWait
      BY <2>1 DEF EarlyWait, Switch, Call, Goto
    <2>2. CASE EarlyFill \/ EarlyAckCatch \/ EarlyAck
      BY <2>2 DEF EarlyFill, EarlyAckCatch, EarlyAck, Switch, Call, Goto
    <2>3. QED
      BY <1>6, <2>1, <2>2 DEF Early
  <1>7. QED
    BY <1>1, <1>2, <1>3, <1>4, <1>5, <1>6 DEF StreamNext, Program, Handoff

LEMMA TailMoves ==
  ASSUME StreamNext, FlowInv
  PROVE  /\ HandedOver <=> Switch
         /\ AtBoundary => ~InTail /\ InTail'
         /\ ~AtBoundary /\ InTail' => InTail /\ ~Switch
  BY HandoffMoves DEF HandedOver, AtBoundary, InTail, HandoffAt

\* A payload is committed where the label says so, and nowhere else.
LEMMA CommitsCount ==
  ASSUME StreamInv, StreamInv', StreamNext
  PROVE  Committed' = Committed + (IF OwnedEntered THEN 1 ELSE 0)
  <1> DEFINE Debt == Len(accepted) - Len(applied)
  <1>1. /\ Len(arrived) \in Nat /\ Len(accepted) \in Nat /\ Len(applied) \in Nat
        /\ Committed = Len(arrived) - Debt
    <2>1. /\ Len(arrived) \in Nat /\ Len(accepted) \in Nat /\ Len(applied) \in Nat
      BY DEF StreamInv, StreamTypeOK
    <2>2. Debt = IF Uncommitted THEN 1 ELSE 0
      BY <2>1 DEF StreamInv, StreamTypeOK, LogInv
    <2>3. QED
      BY <2>1, <2>2 DEF Committed
  <1>2. /\ Len(arrived') \in Nat /\ Len(accepted') \in Nat /\ Len(applied') \in Nat
        /\ Committed' = Len(arrived') - Debt'
    <2>1. /\ Len(arrived') \in Nat /\ Len(accepted') \in Nat /\ Len(applied') \in Nat
      BY DEF StreamInv, StreamTypeOK
    <2>2. Debt' = IF Uncommitted' THEN 1 ELSE 0
      BY <2>1 DEF StreamInv, StreamTypeOK, LogInv
    <2>3. QED
      BY <2>1, <2>2 DEF Committed
  <1>3. /\ accepted \in Seq(Port!Words) /\ applied \in Seq(Port!Words) /\ arrived \in Seq(Numbers)
    BY DEF StreamInv, StreamTypeOK
  <1>4. CASE Commit
    <2>1. OwnedEntered /\ UNCHANGED <<accepted, arrived>> /\ Len(applied') = Len(applied) + 1
      BY <1>3, <1>4 DEF Commit, Goto, OwnedEntered
    <2>2. QED
      BY <1>1, <1>2, <2>1
  <1>5. CASE StreamReceive \/ EarlyAck
    <2>1. /\ ~OwnedEntered /\ applied' = applied /\ Len(accepted') = Len(accepted) + 1
          /\ Len(arrived') = Len(arrived) + 1
      BY <1>3, <1>5 DEF StreamReceive, EarlyAck, OwnedEntered
    <2>2. QED
      BY <1>1, <1>2, <2>1
  <1>6. CASE ServeWrite
    <2>1. /\ ~OwnedEntered /\ arrived' = arrived /\ Len(accepted') = Len(accepted) + 1
          /\ Len(applied') = Len(applied) + 1
      BY <1>3, <1>6 DEF ServeWrite, OwnedEntered
    <2>2. QED
      BY <1>1, <1>2, <2>1
  <1>7. CASE ~Commit /\ ~StreamReceive /\ ~EarlyAck /\ ~ServeWrite
    <2>1. UNCHANGED <<accepted, applied, arrived>> /\ ~OwnedEntered
      <3>1. CASE Host
        BY <3>1, HostStays DEF history, flow, OwnedEntered
      <3>2. CASE SsiWord \/ Handoff
        BY <3>2 DEF SsiWord, Handoff, Quiesce, CompleteFrame, Switch, history, OwnedEntered
      <3>3. CASE StreamRefill \/ StreamTake \/ Render \/ Halt
        BY <3>3 DEF StreamRefill, StreamTake, Render, Halt, history, OwnedEntered
      <3>4. CASE Wait
        BY <3>4 DEF Wait, WaitCatch, WaitSpin, WaitRefill, WaitTake, WaitStop, history, OwnedEntered
      <3>5. CASE EarlyWait \/ EarlyFill \/ EarlyAckCatch
        BY <3>5 DEF EarlyWait, EarlyFill, EarlyAckCatch, history, OwnedEntered
      <3>6. QED
        BY <1>7, <3>1, <3>2, <3>3, <3>4, <3>5 DEF StreamNext, Program, Stream, Early
    <2>2. QED
      BY <1>1, <1>2, <2>1
  <1>8. QED
    BY <1>4, <1>5, <1>6, <1>7

LEMMA HandoffsCount ==
  ASSUME StreamInv, StreamNext
  PROVE  out'.load = out.load + (IF HandedOver THEN 1 ELSE 0) /\ out.load \in Nat
  <1>1. StreamTypeOK /\ LinkInv /\ FlowInv /\ PlayInv /\ out.load \in Nat
    BY DEF StreamInv, StreamTypeOK, Numbers
  <1>2. CASE Switch
    BY <1>1, <1>2, TailMoves, PlaySwitch
  <1>3. CASE ~Switch
    <2>1. out' = out \/ out'.load = out.load
      BY <1>1, <1>3, NextWord, PointerStays DEF SsiWord, CompleteFrame
    <2>2. QED
      BY <1>1, <1>3, <2>1, TailMoves
  <1>4. QED
    BY <1>2, <1>3
-----------------------------------------------------------------------------
(* The window.                                                             *)

LEMMA SpanFacts ==
  ASSUME tool \in {"live", "payloads"}
  PROVE  Span \in Nat /\ Span >= 2 /\ Span - 1 = IF tool = "live" THEN Periods ELSE 1
  BY ProfileAssumption DEF Span

\* A hit of the breakpoint: the buffer rendered before it is not handed over.
LEMMA HitStep ==
  ASSUME ProfileInv, StreamInv, StreamInv', StreamNext, AtBoundary, Breakpoint, UNCHANGED tool
  PROVE  ProfileInv'
  <1>1. /\ tool \in {"live", "payloads"} /\ left \in Nat /\ live \in Counters /\ shots \in Seq(Counters)
        /\ WindowInv /\ WindowsNormalized
    BY DEF ProfileInv, ProfileTypeOK
  <1>2. /\ Span \in Nat /\ Span >= 2 /\ Span' = Span
        /\ Span - 1 = IF tool = "live" THEN Periods ELSE 1
    BY <1>1, SpanFacts DEF Span
  <1>3. /\ ~InTail /\ InTail' /\ ~HandedOver /\ ~OwnedEntered
    BY TailMoves DEF StreamInv, AtBoundary, HandedOver, OwnedEntered
  <1>4. /\ out'.load = out.load /\ out.load \in Nat /\ Committed' = Committed
        /\ out.load + 1 = Committed
    <2>1. Committed \in Int
      BY DEF Committed, StreamInv, StreamTypeOK
    <2>2. ~Handed
      BY DEF StreamInv, FlowInv, AtBoundary, Handed, EarlyPlaces
    <2>3. QED
      BY <1>3, <2>1, <2>2, HandoffsCount, CommitsCount DEF StreamInv, PlayInv
  <1>5. Cleared \in Counters /\ Off \in Counters /\ ~Off.on
        /\ Cleared = [payloads |-> 0, handoffs |-> 0, on |-> TRUE]
    BY DEF Cleared, Off, Counters
  <1>6. ASSUME live' = Cleared, left' = Span - 1
        PROVE  WindowInv' /\ live' \in Counters /\ left' \in Nat
    BY <1>2, <1>3, <1>4, <1>5, <1>6 DEF WindowInv
  <1>7. CASE left > 1
    <2>1. left' = left - 1 /\ UNCHANGED <<live, shots>>
      BY <1>1, <1>7 DEF Breakpoint
    <2>2. live.handoffs \in Nat
      BY <1>1 DEF Counters
    <2>3. WindowInv'
      BY <1>1, <1>2, <1>3, <1>4, <1>7, <2>1, <2>2 DEF WindowInv
    <2>4. QED
      BY <1>1, <1>7, <2>1, <2>3 DEF ProfileInv, ProfileTypeOK, WindowsNormalized
  <1>8. CASE left = 1 /\ Arm
    BY <1>1, <1>6, <1>8 DEF Arm, ProfileInv, ProfileTypeOK, WindowsNormalized
  <1>9. CASE left = 1 /\ Save
    <2>1. /\ live.payloads \in Nat /\ live.handoffs \in Nat /\ live.payloads = live.handoffs
          /\ live.handoffs >= Span - 1
      BY <1>1, <1>2, <1>3, <1>4, <1>9 DEF Save, WindowInv, Counters
    <2>2. shots' = Append(shots, live) /\ live.on
      BY <1>9 DEF Save
    <2>3. shots' \in Seq(Counters) /\ WindowsNormalized'
      BY <1>1, <1>2, <2>1, <2>2 DEF WindowsNormalized
    <2>4. CASE Len(shots) + 1 < Wanted
      BY <1>1, <1>6, <1>9, <2>3, <2>4 DEF Save, ProfileInv, ProfileTypeOK
    <2>5. CASE ~(Len(shots) + 1 < Wanted)
      BY <1>1, <1>5, <1>9, <2>3, <2>5 DEF Save, ProfileInv, ProfileTypeOK, WindowInv
    <2>6. QED
      BY <2>4, <2>5
  <1>10. CASE left = 0
    <2>1. UNCHANGED <<left, live, shots>>
      BY <1>10 DEF Breakpoint
    <2>2. ~live.on
      BY <1>1, <1>10 DEF WindowInv
    <2>3. QED
      BY <1>1, <2>1, <2>2 DEF ProfileInv, ProfileTypeOK, WindowInv, WindowsNormalized
  <1>11. left > 1 \/ left = 0 \/ (left = 1 /\ (Arm \/ Save))
    BY DEF Breakpoint
  <1>12. QED
    BY <1>7, <1>8, <1>9, <1>10, <1>11

\* Between hits the two counts move with the stream.
LEMMA CountStep ==
  ASSUME ProfileInv, StreamInv, StreamInv', StreamNext, ~AtBoundary, Count, UNCHANGED tool
  PROVE  ProfileInv'
  <1>1. /\ tool \in {"live", "payloads"} /\ left \in Nat /\ live \in Counters /\ shots \in Seq(Counters)
        /\ WindowInv /\ WindowsNormalized /\ UNCHANGED <<left, shots>>
    BY DEF ProfileInv, ProfileTypeOK, Count
  <1>2. Span \in Nat /\ Span' = Span
    BY <1>1, SpanFacts DEF Span
  <1>3. CASE ~live.on
    BY <1>1, <1>3 DEF Count, ProfileInv, ProfileTypeOK, WindowInv, WindowsNormalized
  <1>4. CASE live.on
    <2> DEFINE Paid == IF OwnedEntered THEN 1 ELSE 0
               Done == IF HandedOver THEN 1 ELSE 0
    <2>1. /\ live.payloads \in Nat /\ live.handoffs \in Nat /\ live.on \in BOOLEAN
          /\ Paid \in Nat /\ Done \in Nat
      BY <1>1 DEF Counters
    <2>2. live' = [payloads |-> live.payloads + Paid, handoffs |-> live.handoffs + Done, on |-> live.on]
      BY <1>1, <1>4 DEF Count, Counters
    <2>3. /\ out'.load = out.load + Done /\ Committed' = Committed + Paid
          /\ out.load \in Nat /\ Committed \in Int
      <3>1. Committed \in Int
        BY DEF Committed, StreamInv, StreamTypeOK
      <3>2. QED
        BY <3>1, HandoffsCount, CommitsCount
    <2>4. ~InTail' => ~InTail \/ Done = 1
      <3>1. InTail /\ ~InTail' => Switch
        BY HandoffMoves DEF StreamInv, InTail
      <3>2. QED
        BY <3>1, TailMoves DEF StreamInv
    <2>5. InTail' => InTail
      BY TailMoves DEF StreamInv
    <2> HIDE DEF Paid, Done
    <2>6. live' \in Counters
      BY <2>1, <2>2 DEF Counters
    <2>7. WindowInv'
      <3>1. /\ left >= 1 /\ live.payloads + 1 + out.load = live.handoffs + Committed
            /\ live.handoffs + left >= IF InTail THEN Span - 1 ELSE Span
        BY <1>1, <1>4 DEF WindowInv
      <3>2. live'.payloads = live.payloads + Paid /\ live'.handoffs = live.handoffs + Done
        BY <2>2
      <3>3. live'.payloads + 1 + out'.load = live'.handoffs + Committed'
        BY <2>1, <2>3, <3>1, <3>2
      <3>4. live'.handoffs + left >= IF InTail' THEN Span - 1 ELSE Span
        BY <1>1, <1>2, <2>1, <2>4, <2>5, <3>1, <3>2
      <3>5. QED
        BY <1>1, <1>2, <3>1, <3>3, <3>4 DEF WindowInv
    <2>8. QED
      BY <1>1, <2>6, <2>7 DEF ProfileInv, ProfileTypeOK, WindowsNormalized
  <1>5. QED
    BY <1>3, <1>4

\* Both probes divide by the right count: every saved profile holds as many
\* payloads as buffer handoffs, and as many as were asked for
\* (profile_dsp_live.py:175-176, profile_dsp_payloads.py:125-142).
THEOREM WindowsMatchPayloads == ProfileSpec => []WindowsNormalized
  <1>1. ProfileInit => ProfileInv
    BY ProfileAssumption DEF ProfileInit, ProfileInv, ProfileTypeOK, WindowInv, WindowsNormalized, Off, Counters
  <1>2. ASSUME ProfileInv, StreamInv, StreamInv', [ProfileNext]_<<streamVars, profileVars>>
        PROVE  ProfileInv'
    <2>1. CASE UNCHANGED <<streamVars, profileVars>>
      BY <1>2, <2>1 DEF ProfileInv, ProfileTypeOK, WindowInv, WindowsNormalized, profileVars, streamVars, Span,
             playVars, flow, stageVars, history, InTail, Committed, Uncommitted
    <2>2. CASE ProfileNext
      BY <1>2, <2>2, HitStep, CountStep DEF ProfileNext, Probe
    <2>3. QED
      BY <1>2, <2>1, <2>2
  <1>3. ProfileInv => WindowsNormalized
    BY DEF ProfileInv
  <1>4. QED
    BY <1>1, <1>2, <1>3, ProfileWatches, StreamInductive, PTL DEF ProfileSpec
=============================================================================
