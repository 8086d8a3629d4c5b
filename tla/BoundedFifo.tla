----------------------------- MODULE BoundedFifo -----------------------------
(***************************************************************************)
(* What the SRAM ring promises its users: a first-in first-out queue of at  *)
(* most Capacity packets in which a push into a full queue gives up the     *)
(* oldest packet, returns it and counts it (CONCEPTS.md "SRAM Live Ring").  *)
(***************************************************************************)
EXTENDS Naturals, Sequences

CONSTANTS
  Capacity,     \* SRAM_RING_CAPACITY
  Packets,      \* the packets that can be stored
  NoPacket,     \* None
  DroppedLimit  \* u32::MAX, where the overflow count saturates

ASSUME FifoAssumption ==
  /\ Capacity \in Nat \ {0}
  /\ NoPacket \notin Packets
  /\ DroppedLimit \in Nat

VARIABLES
  queue,    \* the stored packets, oldest first
  dropped,  \* how many were given up, up to DroppedLimit
  returned  \* what the last call returned

fifoVars == <<queue, dropped, returned>>

FifoInit == queue = <<>> /\ dropped = 0 /\ returned = NoPacket

Saturating(n) == IF n >= DroppedLimit THEN DroppedLimit ELSE n

FifoPush(p) ==
  IF Len(queue) = Capacity
    THEN /\ queue' = Append(Tail(queue), p)
         /\ dropped' = Saturating(dropped + 1)
         /\ returned' = Head(queue)
    ELSE /\ queue' = Append(queue, p)
         /\ dropped' = dropped
         /\ returned' = NoPacket

FifoPop ==
  /\ dropped' = dropped
  /\ IF queue = <<>>
       THEN queue' = <<>> /\ returned' = NoPacket
       ELSE queue' = Tail(queue) /\ returned' = Head(queue)

FifoPeek ==
  /\ returned' = IF queue = <<>> THEN NoPacket ELSE Head(queue)
  /\ UNCHANGED <<queue, dropped>>

FifoClear == queue' = <<>> /\ UNCHANGED <<dropped, returned>>

FifoNext == (\E p \in Packets : FifoPush(p)) \/ FifoPop \/ FifoPeek \/ FifoClear

FifoSpec == FifoInit /\ [][FifoNext]_fifoVars
=============================================================================
