------------------------------ MODULE SramRing ------------------------------
(***************************************************************************)
(* crates/gibberish-storage/src/sram_ring.rs: the ring of 256 slots with a  *)
(* head (next slot to fill), a tail (oldest packet) and a count.            *)
(***************************************************************************)
EXTENDS Naturals, Sequences

CONSTANTS Capacity, Packets, NoPacket, DroppedLimit

VARIABLES
  buffer,            \* slot -> packet or NoPacket
  head, tail, count, \* the two cursors and the number of packets held
  dropped,           \* dropped_overflow
  returned           \* what the last call returned

ringVars == <<buffer, head, tail, count, dropped, returned>>

ASSUME RingAssumption ==
  /\ Capacity \in Nat \ {0}
  /\ NoPacket \notin Packets
  /\ DroppedLimit \in Nat

RingSlots == 0..(Capacity - 1)

\* The slots from tail to head hold exactly the packets counted: the cursors stay
\* count slots apart and no slot outside them keeps a stale packet alive.
RingShape ==
  /\ head = (tail + count) % Capacity
  /\ \A s \in RingSlots : buffer[s] # NoPacket <=> (s + Capacity - tail) % Capacity < count

\* The cursors stay inside of the buffer, the count within its size, and the three
\* of them agree with what the slots hold.
RingTypeOK ==
  /\ buffer \in [RingSlots -> Packets \cup {NoPacket}]
  /\ head \in RingSlots /\ tail \in RingSlots /\ count \in 0..Capacity
  /\ dropped \in 0..DroppedLimit
  /\ returned \in Packets \cup {NoPacket}
  /\ RingShape

RingInit ==
  /\ buffer = [s \in RingSlots |-> NoPacket]
  /\ head = 0 /\ tail = 0 /\ count = 0
  /\ dropped = 0 /\ returned = NoPacket

\* Faulty variants: a cursor that wraps one slot too late; an eviction that
\* leaves the tail on the slot the new packet is about to take.
AdvanceLate(i) == (i + 1) % (Capacity + 1)
PushKeepsTail(p) ==
  /\ count = Capacity /\ returned' = buffer[tail] /\ dropped' = dropped
  /\ buffer' = [buffer EXCEPT ![head] = p] /\ head' = (head + 1) % Capacity
  /\ UNCHANGED <<tail, count>>

Advance(i) == (i + 1) % Capacity
Saturating(n) == IF n >= DroppedLimit THEN DroppedLimit ELSE n

\* push on a full ring: take() the oldest packet, then store into the head slot.
PushFull(p) ==
  /\ count = Capacity
  /\ returned' = buffer[tail]
  /\ buffer' = [buffer EXCEPT ![tail] = NoPacket, ![head] = p]
  /\ tail' = Advance(tail) /\ head' = Advance(head)
  /\ count' = count
  /\ dropped' = Saturating(dropped + 1)

PushFree(p) ==
  /\ count # Capacity
  /\ returned' = NoPacket
  /\ buffer' = [buffer EXCEPT ![head] = p]
  /\ head' = Advance(head)
  /\ count' = count + 1
  /\ UNCHANGED <<tail, dropped>>

Pop ==
  /\ IF count = 0
       THEN returned' = NoPacket /\ UNCHANGED <<buffer, tail, count>>
       ELSE /\ returned' = buffer[tail]
            /\ buffer' = [buffer EXCEPT ![tail] = NoPacket]
            /\ tail' = Advance(tail) /\ count' = count - 1
  /\ UNCHANGED <<head, dropped>>

Peek ==
  /\ returned' = IF count = 0 THEN NoPacket ELSE buffer[tail]
  /\ UNCHANGED <<buffer, head, tail, count, dropped>>

Clear ==
  /\ buffer' = [s \in RingSlots |-> NoPacket]
  /\ head' = 0 /\ tail' = 0 /\ count' = 0
  /\ UNCHANGED <<dropped, returned>>

RingNext ==
  \/ \E p \in Packets : PushFull(p) \/ PushFree(p)
  \/ Pop \/ Peek \/ Clear

RingSpec == RingInit /\ [][RingNext]_ringVars

-----------------------------------------------------------------------------
\* The packets from the tail on, oldest first: what the ring stands for.
Stored == [i \in 1..count |-> buffer[(tail + i - 1) % Capacity]]

Fifo == INSTANCE BoundedFifo WITH queue <- Stored

\* The ring implements the bounded queue: packets come out in the order they
\* went in, an overflow gives up the oldest, and what it gives up is returned.
RefinesFifo == Fifo!FifoSpec
=============================================================================
