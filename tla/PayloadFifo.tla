---------------------------- MODULE PayloadFifo ----------------------------
(***************************************************************************)
(* What the staged refill pipeline promises its producer: payloads are     *)
(* numbered in the order they are submitted, each is delivered at most     *)
(* once, nothing leaves the pipeline but by delivery or by a refusal, at   *)
(* most Depth payloads wait in it, and a payload overtakes at most Slack   *)
(* older ones.  Slack = 0 is a FIFO.                                       *)
(***************************************************************************)
EXTENDS Naturals, Sequences, SequencesExt

CONSTANTS
  Depth,   \* payloads that may wait: one announced and one queued
  Slack    \* older payloads one may overtake

VARIABLES
  submitted,  \* number of the last payload handed over
  waiting,    \* payloads handed over and not yet delivered, oldest first
  arrived     \* payloads delivered, in the order of their delivery

fifoVars == <<submitted, waiting, arrived>>

Init ==
  /\ submitted = 0
  /\ waiting = <<>>
  /\ arrived = <<>>

Submit ==
  /\ Len(waiting) < Depth
  /\ submitted' = submitted + 1
  /\ waiting' = Append(waiting, submitted + 1)
  /\ UNCHANGED arrived

Deliver ==
  \E i \in 1 .. Len(waiting) :
    /\ i <= Slack + 1
    /\ arrived' = Append(arrived, waiting[i])
    /\ waiting' = RemoveAt(waiting, i)
    /\ UNCHANGED submitted

\* A refused command empties the pipeline: nothing of it is sent later.
Refuse ==
  /\ waiting # <<>>
  /\ waiting' = <<>>
  /\ UNCHANGED <<submitted, arrived>>

Next == Submit \/ Deliver \/ Refuse

Spec == Init /\ [][Next]_fifoVars
=============================================================================
