-------------------------------- MODULE TxOps --------------------------------
(***************************************************************************)
(* The transmit queue of a dongle (BackoffController in                     *)
(* apps/gibberish-firmware/src/radio/ieee802154.rs) as operators on the      *)
(* sequence of its pending slots, from the head on.  A cancelled packet      *)
(* leaves a hole, which keeps its slot until the queue moves past it.        *)
(***************************************************************************)
EXTENDS Naturals, Sequences

CONSTANTS
  TxCapacity,  \* TX_QUEUE_CAPACITY
  Hole         \* None in a slot

ASSUME TxAssumption == TxCapacity \in Nat \ {0}

PendingIn(q) == {i \in DOMAIN q : q[i] # Hole}
FirstOf(S) == CHOOSE i \in S : \A j \in S : i <= j

\* Faulty variant: a full queue grows.
ScheduleMore(q, p) == Append(q, p)

\* schedule_tx: into the next slot, or at the cost of the oldest slot.
Full(q) == Len(q) = TxCapacity
Schedule(q, p) == Append(IF Full(q) THEN Tail(q) ELSE q, p)

\* on_overhear: the first of the packets at these positions becomes a hole.
CancelFirst(q, matching) ==
  IF matching = {} THEN q ELSE [q EXCEPT ![FirstOf(matching)] = Hole]

\* take_pending: the first packet, with the holes before it, leaves the queue; a
\* queue of holes is emptied.
Taken(q) == IF PendingIn(q) = {} THEN Hole ELSE q[FirstOf(PendingIn(q))]
AfterTaking(q) ==
  IF PendingIn(q) = {} THEN <<>> ELSE SubSeq(q, FirstOf(PendingIn(q)) + 1, Len(q))
=============================================================================
