------------------------- MODULE DeliveryInvariant -------------------------
(***************************************************************************)
(* The inductive invariant of YmDelivery: where on its way from the         *)
(* accumulator to the chip each register write is.  A write is in the      *)
(* batch, on its way out of a full one, in the burst of a payload not yet  *)
(* delivered, or in the chip; the four never hold the writes of a latch in *)
(* the wrong order.                                                        *)
(***************************************************************************)
EXTENDS YmDelivery, RefillInvariant

\* Payloads staged and not yet delivered, and their bursts.
Pending == Len(arrived) + 1 .. built
Burst(n) == stage[Buffer(n)]
Slots(n) == 1 .. Len(Burst(n))

\* The player's location, but for the poll body it may be in.
Caller == IF pc["fg"] \in BodyLocations THEN back ELSE pc["fg"]

\* A write is held exactly while a flush or a direct write is under way, and
\* only the exit runs without a batch.
CallInv ==
  /\ held # NoWrite <=> \/ goal = "flush" /\ Caller \in {"wait", "xsend", "xrecv"}
                        \/ goal = "exit" /\ Caller = "xrecv" /\ cmd = "write"
  /\ goal = "flush" /\ Caller \in {"xsend", "xrecv"} => cmd = "write"
  /\ active /\ Caller \in {"xsend", "xrecv", "done"} => goal = "flush" /\ Caller # "done"
  /\ ~active => \/ Caller = "loop" /\ Latest = 0 /\ built = 0
                \/ goal = "exit" /\ Caller \in {"xsend", "xrecv", "done"}

\* The chip has what write n set, or something newer.
Reached(n) == IF written[n] \in Edges THEN n \in keyed ELSE chip[written[n]] >= n

\* The burst of payload m makes up for write n in its place j.
Brings(m, j, n) ==
  /\ written[Burst(m)[j]] = written[n]
  /\ Burst(m)[j] >= n
  /\ written[n] \in Edges => Burst(m)[j] = n

\* The words of a full batch that the chip has taken.
Replied == pc["fg"] = "xrecv" /\ RXDF
Done == IF Replied THEN sent + 1 ELSE sent
Flushed == {words[k] : k \in {i \in Places : i <= Done}}

ChipInv ==
  /\ chip \in [Latches -> 0 .. Latest]
  /\ \A l \in Latches : chip[l] # 0 => written[chip[l]] = l
  /\ keyed \subseteq {n \in 1 .. Latest : written[n] \in Edges}

\* Of the writes since the batch was opened the chip has only what a flush
\* brought it; the held write leaves last.
FlushInv ==
  /\ active => \A l \in Latches : chip[l] <= opened \/ chip[l] \in Flushed
  /\ active => \A e \in keyed : e <= opened \/ e \in Flushed
  /\ \A n \in Flushed : Reached(n)
  /\ held # NoWrite => IF words = <<>> /\ Replied THEN Reached(held) ELSE held \notin keyed

\* Bursts are newer than the chip and older than the batch, one than the next;
\* each has a latch once and the edges in order.
BurstInv ==
  \A n \in Pending :
    \A k \in Slots(n) :
      /\ Burst(n)[k] \in 1 .. opened /\ Burst(n)[k] # held
      /\ \A l \in Latches : chip[l] < Burst(n)[k]
      /\ \A e \in keyed : e < Burst(n)[k]
      /\ \A m \in Pending : m < n => \A j \in Slots(m) : Burst(m)[j] < Burst(n)[k]
      /\ \A j \in Slots(n) :
           /\ written[Burst(n)[j]] \in Latches /\ written[Burst(n)[j]] = written[Burst(n)[k]]
                => j = k
           /\ j < k /\ written[Burst(n)[j]] \in Edges /\ written[Burst(n)[k]] \in Edges
                => Burst(n)[j] < Burst(n)[k]

\* A latch written before an edge of a burst is ahead of it, in the chip, in an
\* earlier burst or in an earlier place.
AheadInv ==
  active =>
    \A n \in Pending : \A k \in Slots(n) : written[Burst(n)[k]] \in Edges =>
      \A w \in 1 .. Burst(n)[k] - 1 : written[w] \in Latches =>
        \/ Reached(w)
        \/ \E m \in Pending : \E j \in Slots(m) :
             (m < n \/ (m = n /\ j < k)) /\ Brings(m, j, w)

\* What was written before the batch was opened is in the chip or in a burst.
CoverInv ==
  active =>
    \A w \in 1 .. opened : w # held =>
      Reached(w) \/ \E m \in Pending : \E j \in Slots(m) : Brings(m, j, w)

\* The word on the port is the burst announced, or the one the player exchanges.
WireInv ==
  /\ "block" \in {tx.kind, hrx.kind} => wire = Burst(Len(arrived) + 1)
  /\ "write" \in {tx.kind, hrx.kind} => wire = <<FlushWord>>

OrderInv == late = {} /\ hasty \subseteq keyed /\ (active => hasty = {})

PathInv == ChipInv /\ FlushInv /\ BurstInv /\ AheadInv /\ CoverInv /\ WireInv /\ OrderInv

DeliveryInv ==
  /\ IInv
  /\ BatchInv
  /\ BatchOrder
  /\ CallInv
  /\ stage \in [0 .. StageBuffers - 1 -> Seq(Nat)]
  /\ Healthy /\ stranded = {} => PathInv
=============================================================================
