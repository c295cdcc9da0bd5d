------------------------------ MODULE HostPort ------------------------------
(***************************************************************************)
(* The Falcon's DSP host port and the DSP's stream loop behind it.  A word *)
(* the 68030 writes waits in its transmit register (tx) until the DSP's    *)
(* receive register (hrx) is free; a reply waits in rx until it is read.   *)
(* The words of one refill payload are one block word, which follows the   *)
(* answer to its refill command.                                           *)
(*                                                                         *)
(* Phases of the DSP: "listen" is the stream loop, or the wait for the     *)
(* boundary with no payload resident; "receive" is inside a block;  "busy" *)
(* is rendering, or waiting for the handoff of a resident payload.         *)
(***************************************************************************)
EXTENDS Naturals, Sequences

CONSTANTS
  Payloads,  \* bound: payloads the song stages, numbered from 1
  Faults     \* may the DSP refuse a refill command

ASSUME PortAssumption == Payloads \in Nat \ {0} /\ Faults \in BOOLEAN

VARIABLES
  tx, hrx,   \* the word in each register, or NoWord
  rx,        \* the reply and the kind of word it answers, or NoReply
  dsp,       \* the DSP's phase
  arrived,   \* history: payloads whose block the DSP took, in order
  refused    \* history: payloads whose command the DSP refused

portVars == <<tx, hrx, rx, dsp, arrived, refused>>

Numbers == 0 .. Payloads
Kinds == {"none", "refill", "block", "write", "stop"}
Answers == {"none", "ready", "ok", "error"}
Words == [kind : Kinds, load : Numbers]
Replies == [val : Answers, to : Kinds]
Word(k, n) == [kind |-> k, load |-> n]
Reply(v, k) == [val |-> v, to |-> k]
NoWord == Word("none", 0)
NoReply == Reply("none", "none")
-----------------------------------------------------------------------------
(* The 68030's side: ISR bits 0 and 1.                                     *)

RXDF == rx # NoReply
TXDE == tx = NoWord

\* Spin on TXDE, then write the data register.
SendWord(w) ==
  /\ TXDE
  /\ tx' = w
  /\ UNCHANGED <<hrx, rx, dsp, arrived, refused>>

\* Reading the low byte clears RXDF.
TakeReply ==
  /\ RXDF
  /\ rx' = NoReply
  /\ UNCHANGED <<tx, hrx, dsp, arrived, refused>>

PortTransfer ==
  /\ ~TXDE
  /\ hrx = NoWord
  /\ hrx' = tx
  /\ tx' = NoWord
  /\ UNCHANGED <<rx, dsp, arrived, refused>>
-----------------------------------------------------------------------------
(* The DSP's side.                                                         *)

\* A word is read and answered: send_reply waits for the reply register.
Answer(phases, kind, v) ==
  /\ dsp \in phases
  /\ hrx.kind = kind
  /\ ~RXDF
  /\ rx' = Reply(v, kind)
  /\ hrx' = NoWord
  /\ UNCHANGED tx

TakeRefill ==
  /\ Answer({"listen"}, "refill", "ready")
  /\ dsp' = "receive"
  /\ UNCHANGED <<arrived, refused>>

RefuseRefill ==
  /\ Faults
  /\ Answer({"listen"}, "refill", "error")
  /\ refused' = refused \cup {hrx.load}
  /\ UNCHANGED <<dsp, arrived>>

TakeBlock ==
  /\ Answer({"receive"}, "block", "ok")
  /\ arrived' = Append(arrived, hrx.load)
  /\ dsp' = "busy"
  /\ UNCHANGED refused

\* Inside a block transfer every word is data.
SwallowCommand ==
  /\ dsp = "receive"
  /\ hrx.kind \in {"refill", "write", "stop"}
  /\ hrx' = NoWord
  /\ UNCHANGED <<tx, rx, dsp, arrived, refused>>

TakeWrite ==
  /\ Answer({"listen", "stopped"}, "write", "ok")
  /\ UNCHANGED <<dsp, arrived, refused>>

StopAudio ==
  /\ Answer({"listen"}, "stop", "ok")
  /\ dsp' = "stopped"
  /\ UNCHANGED <<arrived, refused>>

\* Rendering ended and the boundary passed: the resident payload plays.
Handoff ==
  /\ dsp = "busy"
  /\ dsp' = "listen"
  /\ UNCHANGED <<tx, hrx, rx, arrived, refused>>

Dsp == TakeRefill \/ RefuseRefill \/ TakeBlock \/ SwallowCommand \/ TakeWrite
       \/ StopAudio \/ Handoff

PortInit ==
  /\ tx = NoWord
  /\ hrx = NoWord
  /\ rx = NoReply
  /\ dsp = "listen"
  /\ arrived = <<>>
  /\ refused = {}

\* The port and its DSP by themselves, with any host.
PortNext == PortTransfer \/ Dsp \/ TakeReply \/ \E w \in Words : SendWord(w)
PortSpec == PortInit /\ [][PortNext]_portVars

PortTypeOK ==
  /\ tx \in Words
  /\ hrx \in Words
  /\ rx \in Replies
  /\ dsp \in {"listen", "receive", "busy", "stopped"}
  /\ arrived \in Seq(Numbers)
  /\ refused \subseteq Numbers
=============================================================================
