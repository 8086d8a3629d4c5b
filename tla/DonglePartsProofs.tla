-------------------------- MODULE DonglePartsProofs --------------------------
(***************************************************************************)
(* Proofs about the parts of a dongle, one after the other, for every value  *)
(* of their constants: the SRAM ring is a bounded queue; the filter remembers *)
(* long enough and no longer; a bond comes of a press in time; the table lists *)
(* the latest peers; packet lines are returned in order, once and whole; the  *)
(* parser of frames keeps or finds its place.  At the end, what a dongle with  *)
(* all these parts has of each.                                              *)
(***************************************************************************)
EXTENDS DongleParts, Integers, SequenceTheorems, FiniteSetTheorems, TLAPS

(* The SRAM ring *)

\* The remainder of less than two turns, without the modulus.
LEMMA Remainder ==
  ASSUME NEW N \in Nat \ {0}, NEW x \in Nat, x < N + N
  PROVE  x % N = IF x < N THEN x ELSE x - N
<1>1. CASE x < N
  BY <1>1
<1>2. CASE x >= N
  <2>1. PICK y \in 0..(N - 1) : x = y + N
    BY <1>2
  <2>2. (y + N) % N = y % N /\ y % N = y
    OBVIOUS
  <2>3. QED
    BY <1>2, <2>1, <2>2
<1>3. QED
  BY <1>1, <1>2

\* The slot some places after another one.
LEMMA Wrap ==
  ASSUME NEW t \in RingSlots, NEW k \in 0..Capacity
  PROVE  (t + k) % Capacity = IF t + k < Capacity THEN t + k ELSE t + k - Capacity
<1> DEFINE x == t + k
<1>1. /\ x \in Nat /\ x < Capacity + Capacity
      /\ (IF x < Capacity THEN x ELSE x - Capacity)
           = IF t + k < Capacity THEN t + k ELSE t + k - Capacity
  BY RingAssumption DEF RingSlots
<1> HIDE DEF x
<1>2. x % Capacity = IF x < Capacity THEN x ELSE x - Capacity
  BY <1>1, Remainder, RingAssumption
<1>3. x % Capacity = IF t + k < Capacity THEN t + k ELSE t + k - Capacity
  BY <1>1, <1>2
<1>4. QED
  BY <1>3 DEF x

\* How far a slot lies behind another one.
LEMMA Behind ==
  ASSUME NEW s \in RingSlots, NEW t \in RingSlots
  PROVE  (s + Capacity - t) % Capacity = IF s >= t THEN s - t ELSE s + Capacity - t
<1> DEFINE x == s + Capacity - t
<1>1. /\ x \in Nat /\ x < Capacity + Capacity
      /\ (IF x < Capacity THEN x ELSE x - Capacity) = IF s >= t THEN s - t ELSE s + Capacity - t
  BY RingAssumption DEF RingSlots
<1> HIDE DEF x
<1>2. x % Capacity = IF x < Capacity THEN x ELSE x - Capacity
  BY <1>1, Remainder, RingAssumption
<1>3. x % Capacity = IF s >= t THEN s - t ELSE s + Capacity - t
  BY <1>1, <1>2
<1>4. QED
  BY <1>3 DEF x

-----------------------------------------------------------------------------
\* The ring's types and its shape, without the modulus.
Shape ==
  /\ buffer \in [RingSlots -> Packets \cup {NoPacket}]
  /\ head \in RingSlots /\ tail \in RingSlots /\ count \in 0..Capacity
  /\ dropped \in 0..DroppedLimit
  /\ returned \in Packets \cup {NoPacket}
  /\ head = IF tail + count < Capacity THEN tail + count ELSE tail + count - Capacity
  /\ \A s \in RingSlots :
       buffer[s] # NoPacket <=> (IF s >= tail THEN s - tail ELSE s + Capacity - tail) < count

LEMMA TypeIsShape == RingTypeOK <=> Shape
<1>1. ASSUME RingTypeOK PROVE Shape
  BY <1>1, Wrap, Behind DEF RingTypeOK, RingShape, Shape
<1>2. ASSUME Shape PROVE RingTypeOK
  BY <1>2, Wrap, Behind DEF RingTypeOK, RingShape, Shape
<1>3. QED
  BY <1>1, <1>2

\* The next slot, without the modulus.
LEMMA NextRingSlot ==
  ASSUME NEW i \in RingSlots
  PROVE  Advance(i) = IF i + 1 < Capacity THEN i + 1 ELSE 0
<1> DEFINE x == i + 1
<1>1. /\ x \in Nat /\ x < Capacity + Capacity
      /\ (IF x < Capacity THEN x ELSE x - Capacity) = IF i + 1 < Capacity THEN i + 1 ELSE 0
  BY RingAssumption DEF RingSlots
<1> HIDE DEF x
<1>2. x % Capacity = IF x < Capacity THEN x ELSE x - Capacity
  BY <1>1, Remainder, RingAssumption
<1>3. x % Capacity = IF i + 1 < Capacity THEN i + 1 ELSE 0
  BY <1>1, <1>2
<1>4. QED
  BY <1>3 DEF x, Advance

LEMMA ShapeInit == RingInit => Shape
BY RingAssumption DEF RingInit, Shape, RingSlots

LEMMA ShapeStep == Shape /\ [RingNext]_ringVars => Shape'
<1> SUFFICES ASSUME Shape, [RingNext]_ringVars
             PROVE  Shape'
  OBVIOUS
<1> USE RingAssumption, NextRingSlot
<1>1. ASSUME NEW p \in Packets, PushFull(p)
      PROVE  Shape'
  BY <1>1 DEF Shape, PushFull, RingSlots, Saturating
<1>2. ASSUME NEW p \in Packets, PushFree(p)
      PROVE  Shape'
  BY <1>2 DEF Shape, PushFree, RingSlots
<1>3. CASE Pop
  <2>1. CASE count = 0
    BY <1>3, <2>1 DEF Shape, Pop
  <2>2. CASE count # 0
    <3>1. /\ buffer' = [buffer EXCEPT ![tail] = NoPacket]
          /\ tail' = (IF tail + 1 < Capacity THEN tail + 1 ELSE 0) /\ count' = count - 1
          /\ returned' = buffer[tail] /\ head' = head /\ dropped' = dropped
      BY <1>3, <2>2 DEF Shape, Pop
    <3>2. /\ tail \in Nat /\ tail < Capacity /\ count \in Nat /\ 0 < count /\ count <= Capacity
          /\ head = IF tail + count < Capacity THEN tail + count ELSE tail + count - Capacity
      BY <2>2 DEF Shape, RingSlots
    <3>3. tail' \in RingSlots /\ count' \in 0..Capacity
      BY <3>1, <3>2 DEF RingSlots
    <3>4. head' = IF tail' + count' < Capacity THEN tail' + count' ELSE tail' + count' - Capacity
      BY <3>1, <3>2
    <3>5. ASSUME NEW s \in RingSlots
          PROVE  buffer'[s] # NoPacket <=>
                   (IF s >= tail' THEN s - tail' ELSE s + Capacity - tail') < count'
      <4>1. buffer[s] # NoPacket <=> (IF s >= tail THEN s - tail ELSE s + Capacity - tail) < count
        BY <3>5 DEF Shape
      <4>2. buffer'[s] = IF s = tail THEN NoPacket ELSE buffer[s]
        BY <3>1, <3>5 DEF Shape
      <4>3. s \in Nat /\ s < Capacity
        BY <3>5 DEF RingSlots
      <4>4. CASE s = tail
        <5>1. ~((IF s >= tail' THEN s - tail' ELSE s + Capacity - tail') < count')
          BY <3>1, <3>2, <4>3, <4>4
        <5>2. QED
          BY <4>2, <4>4, <5>1
      <4>5. CASE s # tail
        <5>1. (IF s >= tail THEN s - tail ELSE s + Capacity - tail) < count
                <=> (IF s >= tail' THEN s - tail' ELSE s + Capacity - tail') < count'
          BY <3>1, <3>2, <4>3, <4>5
        <5>2. QED
          BY <4>1, <4>2, <4>5, <5>1
      <4>6. QED
        BY <4>4, <4>5
    <3>6. QED
      BY <3>1, <3>3, <3>4, <3>5 DEF Shape
  <2>3. QED
    BY <2>1, <2>2
<1>4. CASE Peek
  BY <1>4 DEF Shape, Peek, RingSlots
<1>5. CASE Clear
  BY <1>5 DEF Shape, Clear, RingSlots
<1>6. CASE UNCHANGED ringVars
  BY <1>6 DEF Shape, ringVars
<1>7. QED
  BY <1>1, <1>2, <1>3, <1>4, <1>5, <1>6 DEF RingNext

\* The cursors, the count and the slots agree, whatever calls are made (sram_ring.rs).
THEOREM RingTypes == RingSpec => []RingTypeOK
<1>1. Shape => RingTypeOK
  BY TypeIsShape
<1>2. QED
  BY <1>1, ShapeInit, ShapeStep, PTL DEF RingSpec

-----------------------------------------------------------------------------
\* The slot of the i-th oldest packet of a ring whose oldest packet is in slot t.
PlaceAt(t, i) == IF t + i - 1 < Capacity THEN t + i - 1 ELSE t + i - 1 - Capacity

LEMMA PlaceOf ==
  ASSUME NEW t \in RingSlots, NEW i \in 1..Capacity
  PROVE  (t + i - 1) % Capacity = PlaceAt(t, i)
<1> DEFINE x == t + i - 1
<1>1. /\ x \in Nat /\ x < Capacity + Capacity
      /\ (IF x < Capacity THEN x ELSE x - Capacity) = PlaceAt(t, i)
  BY RingAssumption DEF RingSlots, PlaceAt
<1> HIDE DEF x
<1>2. x % Capacity = IF x < Capacity THEN x ELSE x - Capacity
  BY <1>1, Remainder, RingAssumption
<1>3. x % Capacity = PlaceAt(t, i)
  BY <1>1, <1>2
<1>4. QED
  BY <1>3 DEF x

\* What the slots of a ring of that shape hold, read from the oldest packet on.
Contents(b, t, c) == [i \in 1..c |-> b[(t + i - 1) % Capacity]]

LEMMA ContentsAre ==
  ASSUME NEW t \in RingSlots, NEW c \in 0..Capacity,
         NEW b \in [RingSlots -> Packets \cup {NoPacket}],
         \A s \in RingSlots :
           b[s] # NoPacket <=> (IF s >= t THEN s - t ELSE s + Capacity - t) < c
  PROVE  /\ Contents(b, t, c) \in Seq(Packets)
         /\ Len(Contents(b, t, c)) = c
         /\ \A i \in 1..c : Contents(b, t, c)[i] = b[PlaceAt(t, i)]
<1>1. \A i \in 1..c : Contents(b, t, c)[i] = b[PlaceAt(t, i)]
  <2>1. \A i \in 1..c : (t + i - 1) % Capacity = PlaceAt(t, i)
    <3>1. SUFFICES ASSUME NEW i \in 1..c PROVE (t + i - 1) % Capacity = PlaceAt(t, i)
      OBVIOUS
    <3>2. i \in 1..Capacity
      BY RingAssumption
    <3>3. QED
      BY <3>2, PlaceOf
  <2>2. QED
    BY <2>1, Zenon DEF Contents
<1>2. \A i \in 1..c : b[PlaceAt(t, i)] \in Packets
  <2>1. SUFFICES ASSUME NEW i \in 1..c PROVE b[PlaceAt(t, i)] \in Packets
    OBVIOUS
  <2>2. /\ PlaceAt(t, i) \in RingSlots
        /\ (IF PlaceAt(t, i) >= t THEN PlaceAt(t, i) - t ELSE PlaceAt(t, i) + Capacity - t) = i - 1
    BY RingAssumption DEF PlaceAt, RingSlots
  <2>3. i - 1 < c
    OBVIOUS
  <2>4. QED
    BY <2>2, <2>3
<1> DEFINE f == Contents(b, t, c)
<1>3. f \in [1..c -> Packets]
  <2>1. f = [i \in 1..c |-> f[i]]
    BY Zenon DEF Contents
  <2> HIDE DEF f
  <2>2. \A i \in 1..c : f[i] \in Packets
    BY <1>1, <1>2 DEF f
  <2>3. QED
    BY <2>1, <2>2, Zenon
<1>4. c \in Nat
  BY RingAssumption
<1> HIDE DEF f
<1>5. f \in Seq(Packets) /\ Len(f) = c
  BY <1>3, <1>4
<1>6. QED
  BY <1>1, <1>5 DEF f

-----------------------------------------------------------------------------
\* The queue a ring stands for, before a step and after it.
LEMMA StoredAre ==
  ASSUME Shape
  PROVE  /\ Stored \in Seq(Packets) /\ Len(Stored) = count
         /\ \A i \in 1..count : Stored[i] = buffer[PlaceAt(tail, i)]
<1>1. Stored = Contents(buffer, tail, count)
  BY DEF Stored, Contents
<1>2. QED
  BY <1>1, ContentsAre DEF Shape

LEMMA StoredNext ==
  ASSUME Shape'
  PROVE  /\ Stored' \in Seq(Packets) /\ Len(Stored') = count'
         /\ \A i \in 1..count' : Stored'[i] = buffer'[PlaceAt(tail', i)]
<1>1. Stored' = Contents(buffer', tail', count')
  BY DEF Stored, Contents
<1>2. QED
  BY <1>1, ContentsAre DEF Shape

\* The oldest packet is in the tail's slot, and the rest follow it.
LEMMA Oldest ==
  ASSUME Shape, count # 0
  PROVE  /\ Stored # <<>> /\ Head(Stored) = buffer[tail]
         /\ Tail(Stored) \in Seq(Packets) /\ Len(Tail(Stored)) = count - 1
         /\ \A i \in 1..(count - 1) : Tail(Stored)[i] = buffer[PlaceAt(tail, i + 1)]
<1>1. count \in 1..Capacity /\ tail \in RingSlots
  BY RingAssumption DEF Shape
<1>2. Stored \in Seq(Packets) /\ Len(Stored) = count /\ Stored # <<>>
  BY <1>1, StoredAre
<1>3. Head(Stored) = Stored[1] /\ PlaceAt(tail, 1) = tail
  BY <1>1, <1>2, RingAssumption DEF PlaceAt, RingSlots
<1>4. /\ Tail(Stored) \in Seq(Packets) /\ Len(Tail(Stored)) = count - 1
      /\ \A i \in 1..(count - 1) : Tail(Stored)[i] = Stored[i + 1]
  BY <1>2, HeadTailProperties
<1>5. \A i \in 1..(count - 1) : i + 1 \in 1..count
  BY <1>1
<1>6. QED
  BY <1>1, <1>2, <1>3, <1>4, <1>5, StoredAre

\* A ring without packets stands for the empty queue.
LEMMA EmptyQueue == Shape /\ count = 0 => Stored = <<>>
BY StoredAre, EmptySeq

\* A push into a full ring: the oldest packet is given up, the new one is the last.
LEMMA PushFullRefines ==
  ASSUME Shape, Shape', NEW p \in Packets, PushFull(p)
  PROVE  Fifo!FifoPush(p)
<1>1. /\ count = Capacity /\ count' = Capacity /\ Capacity \in Nat \ {0}
      /\ head = tail /\ tail \in RingSlots /\ tail' \in RingSlots
      /\ tail' = IF tail + 1 < Capacity THEN tail + 1 ELSE 0
      /\ buffer \in [RingSlots -> Packets \cup {NoPacket}]
      /\ buffer' = [buffer EXCEPT ![tail] = NoPacket, ![tail] = p]
  BY RingAssumption, NextRingSlot DEF Shape, PushFull, RingSlots
<1>2. /\ PlaceAt(tail', Capacity) = tail
      /\ \A i \in 1..(Capacity - 1) :
           /\ PlaceAt(tail', i) = PlaceAt(tail, i + 1)
           /\ PlaceAt(tail', i) \in RingSlots /\ PlaceAt(tail', i) # tail
  BY <1>1 DEF PlaceAt, RingSlots
<1>3. /\ Head(Stored) = buffer[tail] /\ Len(Stored) = Capacity
      /\ Tail(Stored) \in Seq(Packets) /\ Len(Tail(Stored)) = Capacity - 1
      /\ \A i \in 1..(Capacity - 1) : Tail(Stored)[i] = buffer[PlaceAt(tail, i + 1)]
  BY <1>1, Oldest, StoredAre
<1>4. /\ Stored' \in Seq(Packets) /\ Len(Stored') = Capacity
      /\ \A i \in 1..Capacity : Stored'[i] = buffer'[PlaceAt(tail', i)]
  BY <1>1, StoredNext
<1>5. Stored' = Append(Tail(Stored), p)
  <2> DEFINE q == Tail(Stored)
  <2>1. /\ Append(q, p) \in Seq(Packets) /\ Len(Append(q, p)) = Capacity
        /\ \A i \in 1..(Capacity - 1) : Append(q, p)[i] = q[i]
        /\ Append(q, p)[Capacity] = p
    <3> HIDE DEF q
    <3>1. q \in Seq(Packets) /\ Len(q) = Capacity - 1 /\ Capacity - 1 + 1 = Capacity
      BY <1>1, <1>3 DEF q
    <3>2. QED
      BY <3>1, AppendProperties
  <2>2. \A i \in 1..(Capacity - 1) : Stored'[i] = q[i]
    BY <1>1, <1>2, <1>3, <1>4
  <2>3. Stored'[Capacity] = p
    BY <1>1, <1>2, <1>4
  <2>4. \A i \in 1..Capacity : Stored'[i] = Append(q, p)[i]
    <3> HIDE DEF q
    <3>1. \A i \in 1..Capacity : i = Capacity \/ i \in 1..(Capacity - 1)
      BY <1>1
    <3>2. QED
      BY <2>1, <2>2, <2>3, <3>1
  <2> HIDE DEF q
  <2>5. Stored' = Append(q, p)
    BY <1>4, <2>1, <2>4, SeqEqual
  <2>6. QED
    BY <2>5 DEF q
<1>6. QED
  BY <1>1, <1>3, <1>5 DEF Fifo!FifoPush, Fifo!Saturating, PushFull, Saturating

\* A push into a ring with room: the new packet is the last.
LEMMA PushFreeRefines ==
  ASSUME Shape, Shape', NEW p \in Packets, PushFree(p)
  PROVE  Fifo!FifoPush(p)
<1>1. /\ count \in 0..(Capacity - 1) /\ count' = count + 1 /\ Capacity \in Nat \ {0}
      /\ tail' = tail /\ tail \in RingSlots
      /\ head = PlaceAt(tail, count + 1)
      /\ buffer \in [RingSlots -> Packets \cup {NoPacket}]
      /\ buffer' = [buffer EXCEPT ![head] = p] /\ head \in RingSlots
  BY RingAssumption DEF Shape, PushFree, RingSlots, PlaceAt
<1>2. \A i \in 1..count : PlaceAt(tail, i) \in RingSlots /\ PlaceAt(tail, i) # head
  BY <1>1 DEF PlaceAt, RingSlots
<1>3. /\ Stored \in Seq(Packets) /\ Len(Stored) = count
      /\ \A i \in 1..count : Stored[i] = buffer[PlaceAt(tail, i)]
  BY StoredAre
<1>4. /\ Stored' \in Seq(Packets) /\ Len(Stored') = count + 1
      /\ \A i \in 1..(count + 1) : Stored'[i] = buffer'[PlaceAt(tail, i)]
  BY <1>1, StoredNext
<1>5. Stored' = Append(Stored, p)
  <2> DEFINE q == Stored  r == Stored'
  <2>1. /\ Append(q, p) \in Seq(Packets) /\ Len(Append(q, p)) = count + 1
        /\ \A i \in 1..count : Append(q, p)[i] = q[i]
        /\ Append(q, p)[count + 1] = p
    <3> HIDE DEF q
    <3>1. q \in Seq(Packets) /\ Len(q) = count
      BY <1>3 DEF q
    <3>2. QED
      BY <3>1, AppendProperties
  <2>2. /\ r \in Seq(Packets) /\ Len(r) = count + 1
        /\ (\A i \in 1..count : r[i] = q[i]) /\ r[count + 1] = p
    BY <1>1, <1>2, <1>3, <1>4
  <2> HIDE DEF q, r
  <2>3. \A i \in 1..(count + 1) : i = count + 1 \/ i \in 1..count
    BY <1>1
  <2>4. \A i \in 1..(count + 1) : r[i] = Append(q, p)[i]
    BY <2>1, <2>2, <2>3
  <2>5. r = Append(q, p)
    BY <2>1, <2>2, <2>4, SeqEqual
  <2>6. QED
    BY <2>5 DEF q, r
<1>6. QED
  BY <1>1, <1>3, <1>5 DEF Fifo!FifoPush, PushFree

\* A pop gives the oldest packet, and leaves the rest as they were.
LEMMA PopRefines ==
  ASSUME Shape, Shape', Pop
  PROVE  Fifo!FifoPop
<1>1. CASE count = 0
  <2>1. count' = 0 /\ returned' = NoPacket /\ dropped' = dropped
    BY <1>1 DEF Pop
  <2>2. Stored = <<>>
    BY <1>1, EmptyQueue
  <2>3. Stored' \in Seq(Packets) /\ Len(Stored') = 0
    BY <2>1, StoredNext
  <2>4. Stored' = <<>>
    BY <2>3, EmptySeq
  <2>5. QED
    BY <2>1, <2>2, <2>4 DEF Fifo!FifoPop
<1>2. CASE count # 0
  <2>1. /\ count \in 1..Capacity /\ count' = count - 1 /\ Capacity \in Nat \ {0}
        /\ tail \in RingSlots /\ tail' \in RingSlots
        /\ tail' = IF tail + 1 < Capacity THEN tail + 1 ELSE 0
        /\ buffer \in [RingSlots -> Packets \cup {NoPacket}]
        /\ buffer' = [buffer EXCEPT ![tail] = NoPacket]
        /\ returned' = buffer[tail] /\ dropped' = dropped
    <3>1. /\ count \in 1..Capacity /\ Capacity \in Nat \ {0} /\ tail \in RingSlots
          /\ buffer \in [RingSlots -> Packets \cup {NoPacket}] /\ tail' \in RingSlots
      BY <1>2, RingAssumption DEF Shape
    <3>2. /\ count' = count - 1 /\ tail' = Advance(tail) /\ dropped' = dropped
          /\ buffer' = [buffer EXCEPT ![tail] = NoPacket] /\ returned' = buffer[tail]
      BY <1>2 DEF Pop
    <3>3. QED
      BY <3>1, <3>2, NextRingSlot
  <2>2. \A i \in 1..(count - 1) :
          /\ PlaceAt(tail', i) = PlaceAt(tail, i + 1)
          /\ PlaceAt(tail', i) \in RingSlots /\ PlaceAt(tail', i) # tail
    BY <2>1 DEF PlaceAt, RingSlots
  <2>3. /\ Stored # <<>> /\ Head(Stored) = buffer[tail]
        /\ Tail(Stored) \in Seq(Packets) /\ Len(Tail(Stored)) = count - 1
        /\ \A i \in 1..(count - 1) : Tail(Stored)[i] = buffer[PlaceAt(tail, i + 1)]
    BY <1>2, Oldest
  <2>4. /\ Stored' \in Seq(Packets) /\ Len(Stored') = count - 1
        /\ \A i \in 1..(count - 1) : Stored'[i] = buffer'[PlaceAt(tail', i)]
    BY <2>1, StoredNext
  <2>5. \A i \in 1..(count - 1) : Stored'[i] = Tail(Stored)[i]
    BY <2>1, <2>2, <2>3, <2>4
  <2>6. Stored' = Tail(Stored)
    BY <2>3, <2>4, <2>5, SeqEqual
  <2>7. QED
    BY <2>1, <2>3, <2>6 DEF Fifo!FifoPop
<1>3. QED
  BY <1>1, <1>2

\* A peek shows the oldest packet and changes nothing; a clear leaves nothing.
LEMMA PeekRefines ==
  ASSUME Shape, Peek
  PROVE  Fifo!FifoPeek
<1>1. Stored' = Stored /\ dropped' = dropped
  BY DEF Peek, Stored
<1>2. returned' = IF Stored = <<>> THEN NoPacket ELSE Head(Stored)
  BY Oldest, EmptyQueue DEF Peek
<1>3. QED
  BY <1>1, <1>2 DEF Fifo!FifoPeek

LEMMA ClearRefines ==
  ASSUME Shape', Clear
  PROVE  Fifo!FifoClear
<1>1. count' = 0 /\ dropped' = dropped /\ returned' = returned
  BY DEF Clear
<1>2. Stored' \in Seq(Packets) /\ Len(Stored') = 0
  BY <1>1, StoredNext
<1>3. Stored' = <<>>
  BY <1>2, EmptySeq
<1>4. QED
  BY <1>1, <1>3 DEF Fifo!FifoClear

\* The ring implements the bounded queue, for every capacity: packets come out in the
\* order they went in, and an overflow returns and counts the oldest (sram_ring.rs).
THEOREM RingRefinesFifo == RingSpec => RefinesFifo
<1>1. Shape /\ RingInit => Fifo!FifoInit
  BY EmptyQueue DEF RingInit, Fifo!FifoInit
<1>2. Shape /\ Shape' /\ [RingNext]_ringVars => [Fifo!FifoNext]_(Fifo!fifoVars)
  <2> SUFFICES ASSUME Shape, Shape', [RingNext]_ringVars
               PROVE  [Fifo!FifoNext]_(Fifo!fifoVars)
    OBVIOUS
  <2>1. ASSUME NEW p \in Packets, PushFull(p) \/ PushFree(p)
        PROVE  Fifo!FifoNext
    BY <2>1, PushFullRefines, PushFreeRefines DEF Fifo!FifoNext
  <2>2. CASE Pop
    BY <2>2, PopRefines DEF Fifo!FifoNext
  <2>3. CASE Peek
    BY <2>3, PeekRefines DEF Fifo!FifoNext
  <2>4. CASE Clear
    BY <2>4, ClearRefines DEF Fifo!FifoNext
  <2>5. CASE UNCHANGED ringVars
    BY <2>5 DEF ringVars, Fifo!fifoVars, Stored
  <2>6. QED
    BY <2>1, <2>2, <2>3, <2>4, <2>5 DEF RingNext
<1>3. QED
  BY <1>1, <1>2, ShapeInit, ShapeStep, PTL DEF RingSpec, RefinesFifo, Fifo!FifoSpec

-----------------------------------------------------------------------------
(* The filter of seen frames *)

\* What the two epochs hold at least: the active one the keys inserted since it
\* began, the two together those of the Threshold insertions before as well.
Window ==
  /\ entries = 0 => \A k \in Keys : age[k] = Forgotten
  /\ \A k \in Keys : age[k] < entries => Bits[k] \subseteq active
  /\ \A k \in Keys : age[k] < Forgotten /\ age[k] < entries + Threshold
                       => Bits[k] \subseteq active \cup previous

\* What they hold at most.
Covered ==
  /\ \A b \in active : \E k \in Keys : age[k] < entries /\ b \in Bits[k]
  /\ \A b \in previous : \E k \in Keys : age[k] < entries + Threshold /\ b \in Bits[k]

\* How many insertions ago slot i of the ring was filled, and what that says of it.
Distance(i) == IF i < lruHead THEN lruHead - 1 - i ELSE lruHead + LruSize - 1 - i
RingIsRecent ==
  \A i \in LruSlots : recent[i] = Zero \/ age[recent[i]] <= Distance(i)

DedupInv == FilterTypeOK /\ Window /\ Covered /\ RingIsRecent

-----------------------------------------------------------------------------
\* The next slot of a ring, without the modulus.
LEMMA NextLruSlot ==
  ASSUME NEW i \in LruSlots
  PROVE  (i + 1) % LruSize = IF i + 1 = LruSize THEN 0 ELSE i + 1
<1> USE DedupAssumption DEF LruSlots
<1>1. CASE i + 1 = LruSize
  BY <1>1
<1>2. CASE i + 1 # LruSize
  <2>1. i + 1 \in 0..(LruSize - 1)
    BY <1>2
  <2>2. QED
    BY <1>2, <2>1
<1>3. QED
  BY <1>1, <1>2

\* Ages after an insertion: the key is the newest, every other one is one older.
LEMMA Ages ==
  ASSUME FilterTypeOK, NEW k \in Keys, Insert(k)
  PROVE  /\ age' \in [Keys -> 0..Forgotten]
         /\ age'[k] = 0
         /\ \A j \in Keys : j # k => age'[j] = IF age[j] < Forgotten THEN age[j] + 1 ELSE Forgotten
BY DedupAssumption DEF FilterTypeOK, Insert, Forgotten

\* The types of Dedup's variables are kept (dedup.rs:12-18).
LEMMA TypeStep == FilterTypeOK /\ [FilterNext]_filterVars => FilterTypeOK'
<1> SUFFICES ASSUME FilterTypeOK, [FilterNext]_filterVars
             PROVE  FilterTypeOK'
  OBVIOUS
<1>1. ASSUME NEW k \in Keys, Insert(k)
      PROVE  FilterTypeOK'
  <2>1. recent' \in [LruSlots -> Keys]
    BY <1>1 DEF Insert, FilterTypeOK
  <2>2. lruHead' \in LruSlots
    BY <1>1, NextLruSlot, DedupAssumption DEF Insert, FilterTypeOK, LruSlots
  <2>3. age' \in [Keys -> 0..Forgotten]
    BY <1>1, Ages
  <2>4. CASE EpochFull
    BY <1>1, <2>1, <2>2, <2>3, <2>4, DedupAssumption DEF Insert, TurnOver, FilterTypeOK
  <2>5. CASE ~EpochFull
    <3>1. entries' \in 0..Threshold
      BY <1>1, <2>5, DedupAssumption DEF Insert, EpochFull, FilterTypeOK
    <3>2. QED
      BY <1>1, <2>1, <2>2, <2>3, <2>5, <3>1 DEF Insert, FilterTypeOK
  <2>6. QED
    BY <2>4, <2>5
<1>2. CASE UNCHANGED filterVars
  BY <1>2 DEF filterVars, FilterTypeOK
<1>3. QED
  BY <1>1, <1>2 DEF FilterNext, HearNew, HearKnown, Originate

\* An insertion keeps what the epochs hold at least.
LEMMA WindowStep ==
  ASSUME FilterTypeOK, Window, NEW k \in Keys, Insert(k)
  PROVE  Window'
<1> USE DedupAssumption
<1>1. /\ entries \in 0..Threshold /\ age \in [Keys -> 0..Forgotten]
      /\ age' \in [Keys -> 0..Forgotten] /\ age'[k] = 0
      /\ \A j \in Keys : j # k => age'[j] = IF age[j] < Forgotten THEN age[j] + 1 ELSE Forgotten
  BY Ages DEF FilterTypeOK
<1>2. CASE EpochFull
  <2>1. entries = Threshold /\ entries' = 1 /\ previous' = active /\ active' = Bits[k]
    BY <1>1, <1>2 DEF Insert, EpochFull, TurnOver
  <2>2. ASSUME NEW j \in Keys, age'[j] < entries'
        PROVE  Bits[j] \subseteq active'
    BY <1>1, <2>1, <2>2 DEF Forgotten
  <2>3. ASSUME NEW j \in Keys, age'[j] < Forgotten, age'[j] < entries' + Threshold
        PROVE  Bits[j] \subseteq active' \cup previous'
    <3>1. CASE j = k
      BY <2>1, <3>1
    <3>2. CASE j # k
      <4>1. age[j] < entries
        BY <1>1, <2>1, <2>3, <3>2 DEF Forgotten
      <4>2. QED
        BY <2>1, <4>1 DEF Window
    <3>3. QED
      BY <3>1, <3>2
  <2>4. QED
    BY <2>1, <2>2, <2>3 DEF Window, Forgotten
<1>3. CASE ~EpochFull
  <2>1. entries' = entries + 1 /\ previous' = previous /\ active' = active \cup Bits[k]
    BY <1>1, <1>3 DEF Insert
  <2>2. ASSUME NEW j \in Keys, age'[j] < entries'
        PROVE  Bits[j] \subseteq active'
    <3>1. CASE j = k
      BY <2>1, <3>1
    <3>2. CASE j # k
      <4>1. age[j] < entries
        BY <1>1, <1>3, <2>1, <2>2, <3>2 DEF Forgotten, EpochFull
      <4>2. QED
        BY <2>1, <4>1 DEF Window
    <3>3. QED
      BY <3>1, <3>2
  <2>3. ASSUME NEW j \in Keys, age'[j] < Forgotten, age'[j] < entries' + Threshold
        PROVE  Bits[j] \subseteq active' \cup previous'
    <3>1. CASE j = k
      BY <2>1, <3>1
    <3>2. CASE j # k
      <4>1. age[j] < Forgotten /\ age[j] < entries + Threshold
        BY <1>1, <2>1, <2>3, <3>2 DEF Forgotten
      <4>2. QED
        BY <2>1, <4>1 DEF Window
    <3>3. QED
      BY <3>1, <3>2
  <2>4. QED
    BY <1>1, <2>1, <2>2, <2>3 DEF Window
<1>4. QED
  BY <1>2, <1>3

\* An insertion keeps what the epochs hold at most.
LEMMA CoveredStep ==
  ASSUME FilterTypeOK, Covered, NEW k \in Keys, Insert(k)
  PROVE  Covered'
<1> USE DedupAssumption
<1>1. /\ entries \in 0..Threshold /\ age \in [Keys -> 0..Forgotten]
      /\ age' \in [Keys -> 0..Forgotten] /\ age'[k] = 0
      /\ \A j \in Keys : j # k => age'[j] = IF age[j] < Forgotten THEN age[j] + 1 ELSE Forgotten
  BY Ages DEF FilterTypeOK
<1>2. \A j \in Keys : age'[j] <= age[j] + 1
  BY <1>1 DEF Forgotten
<1>3. CASE EpochFull
  <2>1. entries = Threshold /\ entries' = 1 /\ previous' = active /\ active' = Bits[k]
    BY <1>1, <1>3 DEF Insert, EpochFull, TurnOver
  <2>2. ASSUME NEW b \in active'
        PROVE  \E j \in Keys : age'[j] < entries' /\ b \in Bits[j]
    BY <1>1, <2>1, <2>2
  <2>3. ASSUME NEW b \in previous'
        PROVE  \E j \in Keys : age'[j] < entries' + Threshold /\ b \in Bits[j]
    <3>1. PICK j \in Keys : age[j] < entries /\ b \in Bits[j]
      BY <2>1, <2>3 DEF Covered
    <3>2. age'[j] < entries' + Threshold
      BY <1>1, <1>2, <2>1, <3>1 DEF Forgotten
    <3>3. QED
      BY <3>1, <3>2
  <2>4. QED
    BY <2>2, <2>3 DEF Covered
<1>4. CASE ~EpochFull
  <2>1. entries' = entries + 1 /\ previous' = previous /\ active' = active \cup Bits[k]
    BY <1>1, <1>4 DEF Insert
  <2>2. ASSUME NEW b \in active'
        PROVE  \E j \in Keys : age'[j] < entries' /\ b \in Bits[j]
    <3>1. CASE b \in Bits[k]
      BY <1>1, <2>1, <3>1
    <3>2. CASE b \in active
      <4>1. PICK j \in Keys : age[j] < entries /\ b \in Bits[j]
        BY <3>2 DEF Covered
      <4>2. age'[j] < entries'
        BY <1>1, <1>2, <2>1, <4>1 DEF Forgotten
      <4>3. QED
        BY <4>1, <4>2
    <3>3. QED
      BY <2>1, <2>2, <3>1, <3>2
  <2>3. ASSUME NEW b \in previous'
        PROVE  \E j \in Keys : age'[j] < entries' + Threshold /\ b \in Bits[j]
    <3>1. PICK j \in Keys : age[j] < entries + Threshold /\ b \in Bits[j]
      BY <2>1, <2>3 DEF Covered
    <3>2. age'[j] < entries' + Threshold
      BY <1>1, <1>2, <2>1, <3>1 DEF Forgotten
    <3>3. QED
      BY <3>1, <3>2
  <2>4. QED
    BY <2>2, <2>3 DEF Covered
<1>5. QED
  BY <1>3, <1>4

\* An insertion ages the other slots of the ring by one.
LEMMA RingStep ==
  ASSUME FilterTypeOK, RingIsRecent, NEW k \in Keys, Insert(k)
  PROVE  RingIsRecent'
<1> USE DedupAssumption DEF LruSlots
<1>1. /\ lruHead \in 0..(LruSize - 1) /\ recent \in [LruSlots -> Keys]
      /\ recent' = [recent EXCEPT ![lruHead] = k]
      /\ lruHead' = IF lruHead + 1 = LruSize THEN 0 ELSE lruHead + 1
  BY NextLruSlot DEF FilterTypeOK, Insert
<1>2. /\ age \in [Keys -> 0..Forgotten] /\ age' \in [Keys -> 0..Forgotten] /\ age'[k] = 0
      /\ \A j \in Keys : age'[j] <= age[j] + 1
  <2>1. /\ age \in [Keys -> 0..Forgotten] /\ age' \in [Keys -> 0..Forgotten] /\ age'[k] = 0
        /\ \A j \in Keys : j # k => age'[j] = IF age[j] < Forgotten THEN age[j] + 1 ELSE Forgotten
    BY Ages DEF FilterTypeOK
  <2>2. QED
    BY <2>1 DEF Forgotten
<1>3. SUFFICES ASSUME NEW i \in LruSlots
               PROVE  recent'[i] = Zero \/ age'[recent'[i]] <= Distance(i)'
  BY DEF RingIsRecent
<1>4. CASE i = lruHead
  <2>1. recent'[i] = k
    BY <1>1, <1>4
  <2>2. 0 <= Distance(i)'
    BY <1>1, <1>4 DEF Distance
  <2>3. QED
    BY <1>2, <2>1, <2>2
<1>5. CASE i # lruHead
  <2>1. recent'[i] = recent[i] /\ recent[i] \in Keys
    BY <1>1, <1>5
  <2>2. Distance(i)' = Distance(i) + 1 /\ Distance(i) \in Nat
    BY <1>1, <1>5 DEF Distance
  <2>3. recent[i] = Zero \/ age[recent[i]] <= Distance(i)
    BY DEF RingIsRecent
  <2>4. CASE recent[i] # Zero
    BY <1>2, <2>1, <2>2, <2>3, <2>4
  <2>5. QED
    BY <2>1, <2>4
<1>6. QED
  BY <1>4, <1>5

-----------------------------------------------------------------------------
\* The strengthened invariant holds at the start and is kept by every step.
LEMMA InitInv == FilterInit => DedupInv
<1> SUFFICES ASSUME FilterInit
             PROVE  DedupInv
  OBVIOUS
<1> USE DedupAssumption DEF FilterInit, LruSlots
<1>1. FilterTypeOK
  BY DEF FilterTypeOK, Forgotten
<1>2. Window
  BY DEF Window, Forgotten
<1>3. Covered
  BY DEF Covered
<1>4. RingIsRecent
  BY DEF RingIsRecent
<1>5. QED
  BY <1>1, <1>2, <1>3, <1>4 DEF DedupInv

LEMMA StepInv == DedupInv /\ [FilterNext]_filterVars => DedupInv'
<1> SUFFICES ASSUME DedupInv, [FilterNext]_filterVars
             PROVE  DedupInv'
  OBVIOUS
<1>1. FilterTypeOK'
  BY TypeStep DEF DedupInv
<1>2. ASSUME NEW k \in Keys, Insert(k)
      PROVE  DedupInv'
  BY <1>1, <1>2, WindowStep, CoveredStep, RingStep DEF DedupInv
<1>3. CASE UNCHANGED filterVars
  BY <1>1, <1>3 DEF filterVars, DedupInv, Window, Covered, RingIsRecent, Distance
<1>4. QED
  BY <1>2, <1>3 DEF FilterNext, HearNew, HearKnown, Originate

\* The invariant implies the two properties.
LEMMA InvRemembered == DedupInv => Remembered
<1> SUFFICES ASSUME DedupInv, NEW k \in Keys, age[k] <= Threshold
             PROVE  Contains(k)
  BY DEF Remembered
<1>1. entries # 0
  BY DedupAssumption DEF DedupInv, Window, FilterTypeOK, Forgotten
<1>2. age[k] < Forgotten /\ age[k] < entries + Threshold
  BY <1>1, DedupAssumption DEF DedupInv, FilterTypeOK, Forgotten
<1>3. QED
  BY <1>2 DEF DedupInv, Window, Contains, InFilter

LEMMA InvForgetsInTime == DedupInv => ForgetsInTime
<1> SUFFICES ASSUME DedupInv, NEW k \in Keys, Contains(k), k # Zero
             PROVE  Bits[k] \subseteq UNION {Bits[j] : j \in Recent}
  BY DEF ForgetsInTime
<1> USE DedupAssumption
<1>1. entries \in 0..Threshold /\ age \in [Keys -> 0..Forgotten]
  BY DEF DedupInv, FilterTypeOK
<1>2. CASE InRing(k)
  <2>1. PICK i \in LruSlots : recent[i] = k
    BY <1>2 DEF InRing
  <2>2. Distance(i) < LruSize
    BY DEF Distance, DedupInv, FilterTypeOK, LruSlots
  <2>3. age[k] <= Distance(i) /\ Distance(i) \in Int
    BY <2>1 DEF DedupInv, RingIsRecent, Distance, FilterTypeOK, LruSlots
  <2>4. k \in Recent
    BY <1>1, <2>2, <2>3 DEF Recent, Forgotten
  <2>5. QED
    BY <2>4
<1>3. CASE InFilter(k)
  <2>1. SUFFICES ASSUME NEW b \in Bits[k]
                 PROVE  \E j \in Recent : b \in Bits[j]
    OBVIOUS
  <2>2. b \in active \/ b \in previous
    BY <1>3 DEF InFilter
  <2>3. PICK j \in Keys : age[j] < entries + Threshold /\ b \in Bits[j]
    BY <1>1, <2>2 DEF DedupInv, Covered
  <2>4. j \in Recent
    BY <1>1, <2>3 DEF Recent, Forgotten
  <2>5. QED
    BY <2>3, <2>4
<1>4. QED
  BY <1>2, <1>3 DEF Contains

\* Every behaviour keeps the strengthened invariant.
THEOREM KeepsInv == FilterSpec => []DedupInv
<1>1. QED
  BY InitInv, StepInv, PTL DEF FilterSpec

\* The last Threshold + 1 insertions are recognised at any time (dedup.rs:1-4): with
\* 512 insertions to an epoch, a frame is not relayed twice among 513.
THEOREM RemembersTheLatest == FilterSpec => []Remembered
BY KeepsInv, InvRemembered, PTL

\* Whatever the filter recognises is covered by its last 2 * Threshold insertions.
THEOREM ForgetsTheOldest == FilterSpec => []ForgetsInTime
BY KeepsInv, InvForgetsInTime, PTL

-----------------------------------------------------------------------------
(* The pairing gate *)

\* A waiting request has run for the part of the timeout that is not left.
Waiting ==
  auth = "requested" =>
    /\ pin = asked.pin /\ asked.pin # NoPin
    /\ remaining > 0 /\ remaining + asked.age = AuthTimeout

GateInv ==
  /\ auth \in {"idle", "requested", "authorized", "rejected"}
  /\ pin \in Pins \cup {NoPin} /\ remaining \in 0..AuthTimeout
  /\ bonded \in BOOLEAN
  /\ asked \in [pin : Pins \cup {NoPin}, age : 0..(AuthTimeout + GateDelta)]
  /\ grants \subseteq [pin : Pins, age : 0..(AuthTimeout - 1)]
  /\ bonded <=> grants # {}
  /\ Waiting

LEMMA GateStart == GateInit => GateInv
<1> SUFFICES ASSUME GateInit PROVE GateInv
  OBVIOUS
<1>1. bonded \in BOOLEAN /\ (bonded <=> grants # {})
  BY Zenon DEF GateInit
<1>2. asked \in [pin : Pins \cup {NoPin}, age : 0..(AuthTimeout + GateDelta)]
  BY GateAssumption DEF GateInit
<1>3. QED
  BY <1>1, <1>2, GateAssumption DEF GateInit, GateInv, Waiting

LEMMA InvRequest == ASSUME GateInv, NEW p \in Pins, RequestPairing(p) PROVE GateInv'
BY GateAssumption DEF GateInv, Waiting, RequestPairing

LEMMA InvReset == ASSUME GateInv, ResetGate PROVE GateInv'
BY GateAssumption DEF GateInv, Waiting, ResetGate

\* A turn ages the last request by its length, until it is long over.
LEMMA Aged ==
  ASSUME GateInv, NEW pressed \in BOOLEAN, GateTurn(pressed)
  PROVE  /\ asked' \in [pin : Pins \cup {NoPin}, age : 0..(AuthTimeout + GateDelta)]
         /\ asked'.pin = asked.pin
         /\ auth = "requested" => asked'.age = asked.age + GateDelta
BY GateAssumption DEF GateInv, Waiting, GateTurn, Older

LEMMA InvTurn == ASSUME GateInv, NEW pressed \in BOOLEAN, GateTurn(pressed) PROVE GateInv'
<1> USE GateAssumption
<1>1. CASE Press(pressed)
  <2>1. auth = "requested" /\ grants' = {asked} /\ bonded' = TRUE
    BY <1>1 DEF Press, Granted
  <2>2. asked \in [pin : Pins, age : 0..(AuthTimeout - 1)]
    BY <2>1 DEF GateInv, Waiting
  <2>3. QED
    BY <1>1, <2>1, <2>2, Aged DEF GateInv, Waiting, Press
<1>2. CASE TickGate(pressed)
  BY <1>2, Aged DEF GateInv, Waiting, TickGate, Expired
<1>3. QED
  BY <1>1, <1>2 DEF GateTurn

LEMMA GateStep == GateInv /\ [GateNext]_gateVars => GateInv'
<1> SUFFICES ASSUME GateInv, [GateNext]_gateVars
             PROVE  GateInv'
  OBVIOUS
<1>1. CASE UNCHANGED gateVars
  BY <1>1 DEF gateVars, GateInv, Waiting
<1>2. QED
  BY <1>1, InvRequest, InvReset, InvTurn DEF GateNext

\* The gate's variables keep their types (ble_gate.rs).
THEOREM GateTypes == GateSpec => []GateTypeOK
<1>1. GateInv => GateTypeOK
  BY GateAssumption DEF GateInv, GateTypeOK
<1>2. QED
  BY <1>1, GateStart, GateStep, PTL DEF GateSpec

\* Whatever is requested, reset, pressed and left to time out, a bond comes of a press
\* alone, within the timeout of a request that was not reset since (ble_gate.rs:7).
THEOREM BondsInTime == GateSpec => []GrantedInTime
<1>1. GateInv => GrantedInTime
  BY GateAssumption DEF GateInv, Waiting, GrantedInTime
<1>2. QED
  BY <1>1, GateStart, GateStep, PTL DEF GateSpec

-----------------------------------------------------------------------------
(* The table of peers *)

\* How many peers the table lists, and the contact that a slot is to show.
Used == IF Len(heard) < PeerCapacity THEN Len(heard) ELSE PeerCapacity
InSlot(j) == heard[Len(heard) - Used + 1 + j]

\* The table is the end of the contacts, and those before it have been forgotten.
TableInv ==
  /\ \A j \in PeerSlots :
       peers[j] = IF j < Used THEN [node |-> InSlot(j), count |-> tally[InSlot(j)]] ELSE NoPeer
  /\ \A j \in 0..(Used - 1) : tally[InSlot(j)] > 0
  /\ \A n \in Others : (\A j \in 0..(Used - 1) : InSlot(j) # n) => tally[n] = 0
HeardInv ==
  /\ heard \in Seq(Others)
  /\ \A i, j \in 1..Len(heard) : heard[i] = heard[j] => i = j
PeerInv == HeardInv /\ tally \in [Others -> 0..CountLimit] /\ peers = [j \in PeerSlots |-> peers[j]] /\ TableInv

LEMMA PeerStart == PeerInit => PeerInv
BY PeerAssumption DEF PeerInit, PeerInv, HeardInv, TableInv, Used, PeerSlots

\* The contacts after one of n, which was the i-th or is new: those behind it close up.
LEMMA ContactOrder ==
  ASSUME HeardInv, NEW n \in Others
  PROVE  \E i \in 1..(Len(heard) + 1) :
           LET order == ByContact(n)
               top == IF i <= Len(heard) THEN Len(heard) ELSE Len(heard) + 1
           IN /\ order \in Seq(Others) /\ Len(order) = top /\ order[top] = n
              /\ \A j \in 1..(i - 1) : order[j] = heard[j]
              /\ \A j \in i..(top - 1) : order[j] = heard[j + 1]
              /\ i <= Len(heard) => heard[i] = n
              /\ \A j \in 1..Len(heard) : heard[j] = n => j = i
<1> USE DEF HeardInv
<1>1. CASE \E i \in DOMAIN heard : heard[i] = n
  <2>0. PICK i \in 1..Len(heard) : i = CHOOSE k \in DOMAIN heard : heard[k] = n
    BY <1>1
  <2>1. heard[i] = n
    BY <1>1, <2>0
  <2> DEFINE front == SubSeq(heard, 1, i - 1)
             back == SubSeq(heard, i + 1, Len(heard))
             rest == front \o back
             order == Append(rest, n)
  <2>2. ByContact(n) = order
    BY <1>1, <2>0, Zenon DEF ByContact
  <2>3. front \in Seq(Others) /\ Len(front) = i - 1 /\ \A j \in 1..(i - 1) : front[j] = heard[j]
    <3>1. \A j \in 1..(i - 1) : heard[j] \in Others
      OBVIOUS
    <3> QED BY <3>1, SubSeqProperties
  <2>4. /\ back \in Seq(Others) /\ Len(back) = Len(heard) - i
        /\ \A j \in 1..(Len(heard) - i) : back[j] = heard[i + j]
    <3>1. \A j \in (i + 1)..Len(heard) : heard[j] \in Others
      OBVIOUS
    <3> QED BY <3>1, SubSeqProperties
  <2> HIDE DEF front, back
  <2>5. /\ rest \in Seq(Others) /\ Len(rest) = Len(heard) - 1
        /\ \A j \in 1..(Len(heard) - 1) : rest[j] = IF j <= i - 1 THEN front[j] ELSE back[j - (i - 1)]
    BY <2>3, <2>4, ConcatProperties
  <2> HIDE DEF rest
  <2>6. /\ order \in Seq(Others) /\ Len(order) = Len(heard) /\ order[Len(heard)] = n
        /\ \A j \in 1..(Len(heard) - 1) : order[j] = rest[j]
    BY <2>5, AppendProperties
  <2> HIDE DEF order
  <2>7. \A j \in 1..(i - 1) : order[j] = heard[j]
    <3> TAKE j \in 1..(i - 1)
    <3>1. j \in 1..(Len(heard) - 1) /\ j <= i - 1
      BY <2>0
    <3>2. order[j] = rest[j]
      BY <2>6, <3>1
    <3>3. rest[j] = front[j]
      BY <2>5, <3>1
    <3> QED BY <2>3, <3>2, <3>3
  <2>8. \A j \in i..(Len(heard) - 1) : order[j] = heard[j + 1]
    <3> TAKE j \in i..(Len(heard) - 1)
    <3>0. j \in 1..(Len(heard) - 1) /\ ~(j <= i - 1)
      BY <2>0
    <3>1. order[j] = back[j - (i - 1)]
      <4>1. order[j] = rest[j]
        BY <2>6, <3>0
      <4>2. rest[j] = back[j - (i - 1)]
        BY <2>5, <3>0
      <4> QED BY <4>1, <4>2
    <3>2. j - (i - 1) \in 1..(Len(heard) - i) /\ i + (j - (i - 1)) = j + 1
      OBVIOUS
    <3> QED BY <2>4, <3>1, <3>2
  <2>9. i \in 1..(Len(heard) + 1) /\ i <= Len(heard) /\ \A j \in 1..Len(heard) : heard[j] = n => j = i
    BY <2>1
  <2> QED BY <2>1, <2>2, <2>6, <2>7, <2>8, <2>9
<1>2. CASE ~\E i \in DOMAIN heard : heard[i] = n
  <2>1. ByContact(n) = Append(heard, n)
    BY <1>2, Zenon DEF ByContact
  <2> WITNESS Len(heard) + 1 \in 1..(Len(heard) + 1)
  <2> QED BY <1>2, <2>1
<1> QED BY <1>1, <1>2

\* The contacts have changed so, by a frame of n, which was the i-th or is new.
Top(i) == IF i <= Len(heard) THEN Len(heard) ELSE Len(heard) + 1
Moved(i, n) ==
  /\ i \in 1..(Len(heard) + 1)
  /\ heard' \in Seq(Others) /\ Len(heard') = Top(i) /\ heard'[Top(i)] = n
  /\ \A j \in 1..(i - 1) : heard'[j] = heard[j]
  /\ \A j \in i..(Top(i) - 1) : heard'[j] = heard[j + 1]
  /\ i <= Len(heard) => heard[i] = n
  /\ \A j \in 1..Len(heard) : heard[j] = n => j = i
Tallied(n) ==
  tally' = [m \in Others |-> IF m \in Beyond(heard') THEN 0
                             ELSE IF m = n /\ tally[m] < CountLimit THEN tally[m] + 1 ELSE tally[m]]

LEMMA MovedHeard ==
  ASSUME HeardInv, NEW n \in Others, NEW i, Moved(i, n)
  PROVE  HeardInv'
<1> SUFFICES ASSUME NEW a \in 1..Top(i), NEW b \in 1..Top(i), heard'[a] = heard'[b]
             PROVE  a = b
  BY DEF Moved, HeardInv
<1>0. Len(heard) \in Nat /\ Top(i) \in Nat /\ i \in 1..Top(i)
  BY DEF HeardInv, Moved, Top
<1>1. CASE a < i /\ b < i
  BY <1>0, <1>1 DEF Moved, HeardInv, Top
<1>2. CASE a >= i /\ b >= i /\ a < Top(i) /\ b < Top(i)
  BY <1>0, <1>2 DEF Moved, HeardInv, Top
<1>3. CASE (a < i) # (b < i) /\ a < Top(i) /\ b < Top(i)
  BY <1>0, <1>3 DEF Moved, HeardInv, Top
<1>4. CASE (a = Top(i)) # (b = Top(i))
  BY <1>0, <1>4 DEF Moved, HeardInv, Top
<1> QED BY <1>0, <1>1, <1>2, <1>3, <1>4

\* What becomes of the tallies: one more for the sender, none for those beyond the table.
LEMMA NewTally ==
  ASSUME PeerInv, NEW n \in Others, NEW i, Moved(i, n), Tallied(n)
  PROVE  /\ tally' \in [Others -> 0..CountLimit]
         /\ tally'[n] = IF tally[n] < CountLimit THEN tally[n] + 1 ELSE CountLimit
         /\ \A m \in Others : m # n => tally'[m] \in {0, tally[m]}
         /\ \A j \in 1..(Top(i) - PeerCapacity) : tally'[heard'[j]] = 0
         /\ \A j \in 1..(Top(i) - 1) : j > Top(i) - PeerCapacity => tally'[heard'[j]] = tally[heard'[j]]
<1> USE PeerAssumption
<1>0. /\ Len(heard) \in Nat /\ Top(i) \in Nat \ {0} /\ Len(heard') = Top(i)
      /\ \A j \in 1..Top(i) : heard'[j] \in Others
  BY DEF HeardInv, Moved, Top, PeerInv
<1>1. Beyond(heard') = {heard'[j] : j \in 1..(Top(i) - PeerCapacity)}
  BY <1>0 DEF Beyond, Moved
<1>2. ASSUME NEW j \in 1..Top(i), j > Top(i) - PeerCapacity PROVE heard'[j] \notin Beyond(heard')
  <2>1. \A a, b \in 1..Top(i) : heard'[a] = heard'[b] => a = b
    BY <1>0, MovedHeard DEF PeerInv, HeardInv
  <2> QED BY <1>0, <1>1, <1>2, <2>1
<1>3. heard'[Top(i)] = n /\ n \notin Beyond(heard')
  BY <1>0, <1>2 DEF Moved
<1>4. \A j \in 1..(Top(i) - 1) : heard'[j] # n
  <2>1. \A a, b \in 1..Top(i) : heard'[a] = heard'[b] => a = b
    BY <1>0, MovedHeard DEF PeerInv, HeardInv
  <2> QED BY <1>0, <1>3, <2>1
<1>5. tally \in [Others -> 0..CountLimit]
  BY DEF PeerInv
<1>6. tally'[n] = IF tally[n] < CountLimit THEN tally[n] + 1 ELSE CountLimit
  BY <1>3, <1>5 DEF Tallied
<1>7. \A m \in Others : m # n => tally'[m] = IF m \in Beyond(heard') THEN 0 ELSE tally[m]
  BY DEF Tallied
<1>8. tally' \in [Others -> 0..CountLimit]
  BY <1>5 DEF Tallied
<1>9. \A j \in 1..(Top(i) - PeerCapacity) : tally'[heard'[j]] = 0
  BY <1>0, <1>1, <1>4, <1>7
<1>10. \A j \in 1..(Top(i) - 1) : j > Top(i) - PeerCapacity => tally'[heard'[j]] = tally[heard'[j]]
  BY <1>0, <1>2, <1>4, <1>7
<1> QED BY <1>6, <1>7, <1>8, <1>9, <1>10

\* The slots that are occupied, and what they show.
LEMMA OccupiedAre ==
  ASSUME PeerInv
  PROVE  /\ Len(heard) \in Nat /\ Used \in 0..PeerCapacity /\ Used <= Len(heard)
         /\ Occupied = 0..(Used - 1)
         /\ \A j \in 0..(Used - 1) : /\ InSlot(j) \in Others /\ peers[j].node = InSlot(j)
                                     /\ peers[j].count = tally[InSlot(j)] /\ j \in PeerSlots
         /\ \A j, k \in 0..(Used - 1) : InSlot(j) = InSlot(k) => j = k
<1> USE PeerAssumption
<1>1. Len(heard) \in Nat /\ Used \in 0..PeerCapacity /\ Used <= Len(heard)
  BY DEF PeerInv, HeardInv, Used
<1>2. \A j \in 0..(Used - 1) : InSlot(j) \in Others /\ j \in PeerSlots
  BY <1>1 DEF PeerInv, HeardInv, InSlot, PeerSlots
<1>3. \A j \in 0..(Used - 1) : peers[j].node = InSlot(j) /\ peers[j].count = tally[InSlot(j)]
  BY <1>1, <1>2 DEF PeerInv, TableInv
<1>4. \A j \in 0..(Used - 1) : peers[j] # NoPeer
  BY <1>2, <1>3 DEF NoPeer, Others
<1>5. \A j \in PeerSlots : j \notin 0..(Used - 1) => peers[j] = NoPeer
  BY <1>1 DEF PeerInv, TableInv, PeerSlots
<1>6. Occupied = 0..(Used - 1)
  BY <1>2, <1>4, <1>5 DEF Occupied
<1>7. \A j, k \in 0..(Used - 1) : InSlot(j) = InSlot(k) => j = k
  <2> TAKE j, k \in 0..(Used - 1)
  <2>1. /\ Len(heard) - Used + 1 + j \in 1..Len(heard) /\ Len(heard) - Used + 1 + k \in 1..Len(heard)
        /\ Len(heard) - Used + 1 + j = Len(heard) - Used + 1 + k => j = k
    BY <1>1
  <2> QED BY <2>1 DEF PeerInv, HeardInv, InSlot
<1> QED BY <1>1, <1>2, <1>3, <1>6, <1>7
\* The table follows the contacts: each slot but the last shows who was in the table
\* before, the last one shows the sender, and whoever has left it is beyond it.
Follows(i, n, used) ==
  /\ peers' = [j \in PeerSlots |-> peers'[j]]
  /\ used = IF Top(i) < PeerCapacity THEN Top(i) ELSE PeerCapacity
  /\ \A j \in PeerSlots : j >= used => peers'[j] = NoPeer
  /\ peers'[used - 1] = [node |-> n, count |-> tally'[n]]
  /\ \A j \in 0..(used - 2) : \E k \in 0..(Used - 1) :
       heard'[Top(i) - used + 1 + j] = InSlot(k) /\ peers'[j] = peers[k]
  /\ \A k \in 0..(Used - 1) : \E j \in 1..Top(i) : heard'[j] = InSlot(k)

LEMMA NewTable ==
  ASSUME PeerInv, NEW n \in Others, NEW i \in Nat, Moved(i, n), Tallied(n),
         NEW used \in Nat, Follows(i, n, used)
  PROVE  PeerInv'
<1> USE PeerAssumption
<1>1. HeardInv'
  BY MovedHeard DEF PeerInv
<1>0. Len(heard) \in Nat /\ Top(i) \in Nat \ {0} /\ Len(heard') = Top(i) /\ heard'[Top(i)] = n
  BY DEF PeerInv, HeardInv, Moved, Top
<1>2. used \in 1..PeerCapacity /\ used <= Top(i) /\ Used' = used
  BY <1>0 DEF Used, Follows
<1>3. /\ tally' \in [Others -> 0..CountLimit]
      /\ tally'[n] = IF tally[n] < CountLimit THEN tally[n] + 1 ELSE CountLimit
      /\ \A m \in Others : m # n => tally'[m] \in {0, tally[m]}
      /\ \A j \in 1..(Top(i) - PeerCapacity) : tally'[heard'[j]] = 0
      /\ \A j \in 1..(Top(i) - 1) : j > Top(i) - PeerCapacity => tally'[heard'[j]] = tally[heard'[j]]
  BY NewTally
<1>4. \A j \in 0..(used - 1) : InSlot(j)' = heard'[Top(i) - used + 1 + j]
  BY <1>0, <1>2 DEF InSlot
<1>5. InSlot(used - 1)' = n
  <2>1. used - 1 \in 0..(used - 1) /\ Top(i) - used + 1 + (used - 1) = Top(i)
    BY <1>0, <1>2
  <2>2. InSlot(used - 1)' = heard'[Top(i) - used + 1 + (used - 1)]
    BY <1>4, <2>1
  <2> QED BY <1>0, <2>1, <2>2
<1>6. ASSUME NEW j \in 0..(used - 2)
      PROVE  /\ peers'[j] = [node |-> InSlot(j)', count |-> tally'[InSlot(j)']]
             /\ tally'[InSlot(j)'] > 0
  <2>1. PICK k \in 0..(Used - 1) : heard'[Top(i) - used + 1 + j] = InSlot(k) /\ peers'[j] = peers[k]
    BY DEF Follows
  <2>2. /\ Top(i) - used + 1 + j \in 1..(Top(i) - 1) /\ j \in 0..(used - 1)
        /\ Top(i) - used + 1 + j > Top(i) - PeerCapacity
    BY <1>0, <1>2
  <2>3. tally'[InSlot(k)] = tally[InSlot(k)] /\ InSlot(j)' = InSlot(k)
    BY <1>3, <1>4, <2>1, <2>2
  <2>4. k \in PeerSlots /\ Used \in Nat /\ k < Used
    BY OccupiedAre
  <2>5. peers[k] = [node |-> InSlot(k), count |-> tally[InSlot(k)]] /\ tally[InSlot(k)] > 0
    BY <2>4 DEF PeerInv, TableInv
  <2> QED BY <2>1, <2>3, <2>5
<1>7. tally'[n] > 0
  <2>1. tally[n] \in 0..CountLimit
    BY DEF PeerInv
  <2> QED BY <1>3, <2>1
<1>8. ASSUME NEW j \in PeerSlots
      PROVE  peers'[j] = IF j < used THEN [node |-> InSlot(j)', count |-> tally'[InSlot(j)']] ELSE NoPeer
  <2>1. CASE j < used - 1
    <3>1. j \in 0..(used - 2) /\ j < used
      BY <1>2, <2>1 DEF PeerSlots
    <3> QED BY <1>6, <3>1
  <2>2. CASE j = used - 1
    <3>1. peers'[used - 1] = [node |-> n, count |-> tally'[n]]
      BY DEF Follows
    <3> QED BY <1>2, <1>5, <2>2, <3>1
  <2>3. CASE j >= used
    BY <1>2, <2>3 DEF PeerSlots, Follows
  <2> QED BY <1>2, <2>1, <2>2, <2>3 DEF PeerSlots
<1>9. \A j \in 0..(used - 1) : tally'[InSlot(j)'] > 0
  <2> TAKE j \in 0..(used - 1)
  <2>1. CASE j = used - 1
    <3>1. tally'[InSlot(used - 1)'] > 0
      BY <1>5, <1>7
    <3> QED BY <2>1, <3>1
  <2>2. CASE j \in 0..(used - 2)
    BY <1>6, <2>2
  <2> QED BY <1>2, <2>1, <2>2
<1>10. ASSUME NEW m \in Others, \A j \in 0..(used - 1) : InSlot(j)' # m
       PROVE  tally'[m] = 0
  <2>1. m # n
    BY <1>2, <1>5, <1>10
  <2>2. CASE tally[m] = 0
    BY <1>3, <2>1, <2>2
  <2>3. CASE tally[m] # 0
    <3>1. PICK k \in 0..(Used - 1) : InSlot(k) = m
      BY <2>3 DEF PeerInv, TableInv
    <3>2. PICK j \in 1..Top(i) : heard'[j] = m
      BY <3>1 DEF Follows
    <3>3. j <= Top(i) - used
      <4> SUFFICES ASSUME j > Top(i) - used PROVE FALSE
        BY <1>0, <1>2
      <4>1. PICK s \in 0..(used - 1) : s = j - (Top(i) - used + 1)
        BY <1>0, <1>2
      <4>2. Top(i) - used + 1 + s = j
        BY <1>0, <1>2, <4>1
      <4>3. InSlot(s)' = m
        BY <1>4, <3>2, <4>2
      <4> QED BY <1>10, <4>3
    <3>4. j \in 1..(Top(i) - PeerCapacity)
      <4>1. used = PeerCapacity
        BY <1>0, <1>2, <3>3 DEF Follows
      <4> QED BY <1>0, <3>3, <4>1
    <3> QED BY <1>3, <3>2, <3>4
  <2> QED BY <2>2, <2>3
<1>11. TableInv'
  BY <1>2, <1>8, <1>9, <1>10 DEF TableInv
<1> QED BY <1>1, <1>3, <1>11 DEF PeerInv, Follows

\* The last slot that is occupied, and the first that is not.
LEMMA EndSlots ==
  ASSUME NEW u \in 0..PeerCapacity
  PROVE  /\ u > 0 => Max(0..(u - 1)) = u - 1
         /\ u < PeerCapacity => Min(PeerSlots \ (0..(u - 1))) = u
<1> USE PeerAssumption
<1>1. ASSUME u > 0 PROVE Max(0..(u - 1)) = u - 1
  <2>1. u - 1 \in 0..(u - 1) /\ \A y \in 0..(u - 1) : u - 1 >= y
    BY <1>1
  <2>2. \A x \in 0..(u - 1) : (\A y \in 0..(u - 1) : x >= y) => x = u - 1
    BY <1>1
  <2> QED BY <2>1, <2>2 DEF Max
<1>2. ASSUME u < PeerCapacity PROVE Min(PeerSlots \ (0..(u - 1))) = u
  <2> DEFINE free == PeerSlots \ (0..(u - 1))
  <2>1. u \in free /\ \A y \in free : u <= y
    BY <1>2 DEF PeerSlots
  <2>2. \A x \in free : (\A y \in free : x <= y) => x = u
    BY <2>1 DEF PeerSlots
  <2> HIDE DEF free
  <2>3. Min(free) = u
    BY <2>1, <2>2 DEF Min
  <2> QED BY <2>3 DEF free
<1> QED BY <1>1, <1>2

\* A peer that is listed moves to the end of the table, as it does in the contacts.
LEMMA PromoteKeeps ==
  ASSUME PeerInv, NEW n \in Others, NEW i \in Nat, Moved(i, n), Tallied(n), Listed(n), Promote(n)
  PROVE  PeerInv'
<1> USE PeerAssumption
<1>1. /\ Len(heard) \in Nat /\ Used \in 0..PeerCapacity /\ Used <= Len(heard)
      /\ Occupied = 0..(Used - 1)
      /\ \A j \in 0..(Used - 1) : /\ InSlot(j) \in Others /\ peers[j].node = InSlot(j)
                                  /\ peers[j].count = tally[InSlot(j)] /\ j \in PeerSlots
      /\ \A j, k \in 0..(Used - 1) : InSlot(j) = InSlot(k) => j = k
  BY OccupiedAre
<1>2. PICK s \in 0..(Used - 1) : InSlot(s) = n
  BY <1>1 DEF Listed
<1>3. SlotOf(n) = s
  <2>1. \A j \in Occupied : peers[j].node = n <=> j = s
    BY <1>1, <1>2
  <2> QED BY <1>1, <2>1 DEF SlotOf
<1>4. Max(Occupied) = Used - 1
  <2>1. Used > 0
    BY <1>1, <1>2
  <2>2. Max(0..(Used - 1)) = Used - 1
    BY <1>1, <2>1, EndSlots
  <2> QED BY <1>1, <2>2
<1>5. /\ i = Len(heard) - Used + 1 + s /\ i <= Len(heard) /\ Top(i) = Len(heard)
  <2>1. Len(heard) - Used + 1 + s \in 1..Len(heard)
    BY <1>1, <1>2
  <2>2. i = Len(heard) - Used + 1 + s
    BY <1>2, <2>1 DEF Moved, InSlot
  <2> QED BY <2>1, <2>2 DEF Top
<1>6. \A j \in PeerSlots : peers'[j] = IF s <= j /\ j < Used - 1 THEN peers[j + 1]
                                       ELSE IF j = Used - 1 THEN [node |-> n, count |-> Counted(s)]
                                       ELSE peers[j]
  BY <1>3, <1>4 DEF Promote
<1>7. peers' = [j \in PeerSlots |-> peers'[j]]
  BY DEF Promote
<1>8. Used = IF Top(i) < PeerCapacity THEN Top(i) ELSE PeerCapacity
  BY <1>5 DEF Used
<1>9. \A j \in PeerSlots : j >= Used => peers'[j] = NoPeer
  <2>1. \A j \in PeerSlots : j >= Used => peers[j] = NoPeer
    BY <1>1 DEF PeerInv, TableInv, PeerSlots
  <2> QED BY <1>1, <1>6, <2>1 DEF PeerSlots
<1>10. peers'[Used - 1] = [node |-> n, count |-> tally'[n]]
  <2>1. Counted(s) = tally'[n]
    <3>1. peers[s].count = tally[n]
      BY <1>1, <1>2
    <3> QED BY <3>1, NewTally DEF Counted
  <2>2. Used - 1 \in PeerSlots
    BY <1>1, <1>2 DEF PeerSlots
  <2> QED BY <1>1, <1>2, <1>6, <2>1, <2>2
<1>11. ASSUME NEW j \in 0..(Used - 2)
       PROVE  \E k \in 0..(Used - 1) : heard'[Top(i) - Used + 1 + j] = InSlot(k) /\ peers'[j] = peers[k]
  <2>0. j \in PeerSlots /\ Len(heard) - Used + 1 + j \in 1..(Len(heard) - 1)
    BY <1>1 DEF PeerSlots
  <2>1. CASE j < s
    <3>1. j \in 0..(Used - 1) /\ Len(heard) - Used + 1 + j \in 1..(i - 1)
      BY <1>1, <1>5, <2>1
    <3>2. heard'[Len(heard) - Used + 1 + j] = InSlot(j)
      BY <3>1 DEF Moved, InSlot
    <3>3. peers'[j] = peers[j]
      BY <1>1, <1>6, <2>0, <2>1
    <3> QED BY <1>5, <3>1, <3>2, <3>3
  <2>2. CASE j >= s
    <3>1. j + 1 \in 0..(Used - 1) /\ Len(heard) - Used + 1 + j \in i..(Top(i) - 1)
      BY <1>1, <1>5, <2>2
    <3>2. Len(heard) - Used + 1 + j + 1 = Len(heard) - Used + 1 + (j + 1)
      BY <1>1
    <3>3. heard'[Len(heard) - Used + 1 + j] = InSlot(j + 1)
      BY <3>1, <3>2 DEF Moved, InSlot
    <3>4. peers'[j] = peers[j + 1]
      BY <1>1, <1>6, <2>0, <2>2
    <3> QED BY <1>5, <3>1, <3>3, <3>4
  <2> QED BY <1>2, <2>1, <2>2
<1>12. ASSUME NEW k \in 0..(Used - 1)
       PROVE  \E j \in 1..Top(i) : heard'[j] = InSlot(k)
  <2> DEFINE p == Len(heard) - Used + 1 + k
  <2>1. p \in 1..Len(heard) /\ InSlot(k) = heard[p]
    BY <1>1 DEF InSlot
  <2> HIDE DEF p
  <2>2. CASE p < i
    BY <1>5, <2>1, <2>2 DEF Moved
  <2>3. CASE p = i
    BY <1>5, <2>1, <2>3 DEF Moved
  <2>4. CASE p > i
    <3>1. p - 1 \in i..(Top(i) - 1) /\ p - 1 \in 1..Top(i) /\ (p - 1) + 1 = p
      BY <1>1, <1>5, <2>1, <2>4
    <3>2. heard'[p - 1] = heard[(p - 1) + 1]
      BY <3>1 DEF Moved
    <3> QED BY <2>1, <3>1, <3>2
  <2> QED BY <1>5, <2>1, <2>2, <2>3, <2>4
<1>13. Follows(i, n, Used) /\ Used \in Nat
  BY <1>1, <1>7, <1>8, <1>9, <1>10, <1>11, <1>12 DEF Follows
<1> QED BY <1>13, NewTable

\* A peer that is not listed and was heard before has fallen out of a full table.
LEMMA Unlisted ==
  ASSUME PeerInv, NEW n \in Others, NEW i \in Nat, Moved(i, n), ~Listed(n)
  PROVE  (i <= Len(heard) => Used = PeerCapacity /\ i <= Len(heard) - PeerCapacity) /\ tally[n] = 0
<1> USE PeerAssumption
<1>1. /\ Len(heard) \in Nat /\ Used \in 0..PeerCapacity /\ Used <= Len(heard)
      /\ Occupied = 0..(Used - 1)
      /\ \A j \in 0..(Used - 1) : peers[j].node = InSlot(j)
  BY OccupiedAre
<1>2. \A j \in 0..(Used - 1) : InSlot(j) # n
  BY <1>1 DEF Listed
<1>3. tally[n] = 0
  BY <1>2 DEF PeerInv, TableInv
<1>4. ASSUME i <= Len(heard) PROVE i <= Len(heard) - Used
  <2> SUFFICES ASSUME i > Len(heard) - Used PROVE FALSE
    BY <1>1
  <2>0. i - (Len(heard) - Used + 1) \in 0..(Used - 1)
    BY <1>1, <1>4
  <2>1. PICK j \in 0..(Used - 1) : j = i - (Len(heard) - Used + 1)
    BY <2>0
  <2>2. Len(heard) - Used + 1 + j = i
    BY <1>1, <2>1
  <2>3. InSlot(j) = n
    BY <1>4, <2>2 DEF InSlot, Moved
  <2> QED BY <1>2, <2>3
<1>5. ASSUME i <= Len(heard) PROVE Used = PeerCapacity
  BY <1>1, <1>4, <1>5 DEF Used, Moved
<1> QED BY <1>3, <1>4, <1>5

LEMMA EnlistKeeps ==
  ASSUME PeerInv, NEW n \in Others, NEW i \in Nat, Moved(i, n), Tallied(n),
         ~Listed(n), Occupied # PeerSlots, Enlist(n)
  PROVE  PeerInv'
<1> USE PeerAssumption
<1>1. /\ Len(heard) \in Nat /\ Used \in 0..PeerCapacity /\ Used <= Len(heard)
      /\ Occupied = 0..(Used - 1)
      /\ \A j \in 0..(Used - 1) : j \in PeerSlots
  BY OccupiedAre
<1>2. Used < PeerCapacity /\ Used = Len(heard)
  <2>1. Used # PeerCapacity
    BY <1>1 DEF PeerSlots
  <2> QED BY <1>1, <2>1 DEF Used
<1>3. i = Len(heard) + 1 /\ Top(i) = Len(heard) + 1 /\ tally[n] = 0
  <2>1. (i <= Len(heard) => i <= Len(heard) - PeerCapacity) /\ tally[n] = 0
    BY Unlisted
  <2>2. i \in 1..(Len(heard) + 1)
    BY DEF Moved
  <2>3. ~(i <= Len(heard))
    BY <1>1, <1>2, <2>1, <2>2
  <2> QED BY <1>1, <2>1, <2>2, <2>3 DEF Top
<1>4. Min(PeerSlots \ Occupied) = Used
  BY <1>1, <1>2, EndSlots
<1>5. peers' = [peers EXCEPT ![Used] = [node |-> n, count |-> 1]]
  BY <1>4 DEF Enlist
<1>6. /\ peers' = [j \in PeerSlots |-> peers'[j]]
      /\ \A j \in PeerSlots : peers'[j] = IF j = Used THEN [node |-> n, count |-> 1] ELSE peers[j]
  BY <1>5 DEF PeerInv
<1> DEFINE used == Used + 1
<1>7. used \in Nat /\ used = IF Top(i) < PeerCapacity THEN Top(i) ELSE PeerCapacity
  BY <1>1, <1>2, <1>3
<1>8. \A j \in PeerSlots : j >= used => peers'[j] = NoPeer
  <2>1. \A j \in PeerSlots : j >= Used => peers[j] = NoPeer
    BY <1>1 DEF PeerInv, TableInv, PeerSlots
  <2> QED BY <1>1, <1>6, <2>1 DEF PeerSlots
<1>9. peers'[used - 1] = [node |-> n, count |-> tally'[n]]
  <2>1. used - 1 = Used /\ Used \in PeerSlots
    BY <1>1, <1>2 DEF PeerSlots
  <2>2. tally'[n] = 1
    BY <1>3, NewTally
  <2> QED BY <1>6, <2>1, <2>2
<1>10. ASSUME NEW j \in 0..(used - 2)
       PROVE  \E k \in 0..(Used - 1) : heard'[Top(i) - used + 1 + j] = InSlot(k) /\ peers'[j] = peers[k]
  <2>1. j \in 0..(Used - 1) /\ j \in PeerSlots /\ j # Used
    BY <1>1
  <2>2. Top(i) - used + 1 + j = j + 1 /\ Len(heard) - Used + 1 + j = j + 1 /\ j + 1 \in 1..(i - 1)
    BY <1>1, <1>2, <1>3, <2>1
  <2>3. heard'[j + 1] = heard[j + 1]
    BY <2>2 DEF Moved
  <2>4. heard'[Top(i) - used + 1 + j] = InSlot(j)
    BY <2>2, <2>3 DEF InSlot
  <2> QED BY <1>6, <2>1, <2>4
<1>11. ASSUME NEW k \in 0..(Used - 1)
       PROVE  \E j \in 1..Top(i) : heard'[j] = InSlot(k)
  <2>1. Len(heard) - Used + 1 + k \in 1..(i - 1) /\ Len(heard) - Used + 1 + k \in 1..Top(i)
    BY <1>1, <1>3
  <2> QED BY <2>1 DEF Moved, InSlot
<1> HIDE DEF used
<1>12. Follows(i, n, used)
  BY <1>6, <1>7, <1>8, <1>9, <1>10, <1>11 DEF Follows
<1> QED BY <1>7, <1>12, NewTable

LEMMA EvictKeeps ==
  ASSUME PeerInv, NEW n \in Others, NEW i \in Nat, Moved(i, n), Tallied(n),
         ~Listed(n), Occupied = PeerSlots, Evict(n)
  PROVE  PeerInv'
<1> USE PeerAssumption
<1> DEFINE C == PeerCapacity
<1>1. /\ Len(heard) \in Nat /\ Used \in 0..C /\ Used <= Len(heard)
      /\ Occupied = 0..(Used - 1)
      /\ \A j \in 0..(Used - 1) : j \in PeerSlots
  BY OccupiedAre
<1>2. Used = C
  BY <1>1 DEF PeerSlots
<1>3. /\ i <= Len(heard) - C \/ i = Len(heard) + 1
      /\ Top(i) = (IF i <= Len(heard) THEN Len(heard) ELSE Len(heard) + 1)
      /\ Top(i) >= C /\ Top(i) \in Nat /\ tally[n] = 0
  BY <1>1, <1>2, Unlisted DEF Moved, Top
<1>4. /\ peers' = [j \in PeerSlots |-> peers'[j]]
      /\ \A j \in PeerSlots : peers'[j] = IF j < C - 1 THEN peers[j + 1] ELSE [node |-> n, count |-> 1]
  BY DEF Evict
<1>5. C \in Nat /\ C = IF Top(i) < C THEN Top(i) ELSE C
  BY <1>3
<1>6. \A j \in PeerSlots : j >= C => peers'[j] = NoPeer
  BY DEF PeerSlots
<1>7. peers'[C - 1] = [node |-> n, count |-> tally'[n]]
  <2>1. C - 1 \in PeerSlots
    BY DEF PeerSlots
  <2>2. tally'[n] = 1
    BY <1>3, NewTally
  <2> QED BY <1>4, <2>1, <2>2
<1>8. ASSUME NEW k \in 1..C, Top(i) - C + k \in 1..(Top(i) - 1) \/ k = 0
      PROVE  heard'[Top(i) - C + k] = heard[Len(heard) - C + 1 + k]
  <2>1. CASE i <= Len(heard) - C
    <3>1. Top(i) - C + k \in i..(Top(i) - 1) /\ Top(i) - C + k + 1 = Len(heard) - C + 1 + k
      BY <1>1, <1>3, <1>8, <2>1
    <3> QED BY <3>1 DEF Moved
  <2>2. CASE i = Len(heard) + 1
    <3>1. Top(i) - C + k \in 1..(i - 1) /\ Top(i) - C + k = Len(heard) - C + 1 + k
      BY <1>1, <1>3, <1>8, <2>2
    <3> QED BY <3>1 DEF Moved
  <2> QED BY <1>3, <2>1, <2>2
<1>9. ASSUME NEW j \in 0..(C - 2)
      PROVE  \E k \in 0..(Used - 1) : heard'[Top(i) - C + 1 + j] = InSlot(k) /\ peers'[j] = peers[k]
  <2>0. Top(i) \in Nat /\ Top(i) >= C
    BY <1>3
  <2>1. /\ j + 1 \in 1..C /\ Top(i) - C + (j + 1) \in 1..(Top(i) - 1) /\ j \in PeerSlots /\ j < C - 1
        /\ Top(i) - C + 1 + j = Top(i) - C + (j + 1) /\ j + 1 \in 0..(Used - 1)
    BY <1>2, <2>0 DEF PeerSlots
  <2>2. heard'[Top(i) - C + (j + 1)] = InSlot(j + 1)
    BY <1>2, <1>8, <2>1 DEF InSlot
  <2>3. peers'[j] = peers[j + 1]
    BY <1>4, <2>1
  <2> QED BY <2>1, <2>2, <2>3
<1>10. ASSUME NEW k \in 0..(Used - 1)
       PROVE  \E j \in 1..Top(i) : heard'[j] = InSlot(k)
  <2> DEFINE p == Len(heard) - Used + 1 + k
  <2>1. p \in 1..Len(heard) /\ InSlot(k) = heard[p] /\ p > Len(heard) - C
    BY <1>1, <1>2 DEF InSlot
  <2> HIDE DEF p
  <2>2. CASE i <= Len(heard) - C
    <3>1. p - 1 \in i..(Top(i) - 1) /\ p - 1 \in 1..Top(i) /\ (p - 1) + 1 = p
      BY <1>1, <1>3, <2>1, <2>2 DEF Moved
    <3>2. heard'[p - 1] = heard[(p - 1) + 1]
      BY <3>1 DEF Moved
    <3> QED BY <2>1, <3>1, <3>2
  <2>3. CASE i = Len(heard) + 1
    <3>1. p \in 1..(i - 1) /\ p \in 1..Top(i)
      BY <1>1, <1>3, <2>1, <2>3
    <3> QED BY <2>1, <3>1 DEF Moved
  <2> QED BY <1>3, <2>2, <2>3
<1>11. Follows(i, n, C)
  BY <1>4, <1>5, <1>6, <1>7, <1>9, <1>10 DEF Follows
<1> QED BY <1>5, <1>11, NewTable

LEMMA PeerStep == PeerInv /\ [PeerNext]_peerVars => PeerInv'
<1> USE PeerAssumption
<1> SUFFICES ASSUME PeerInv, [PeerNext]_peerVars PROVE PeerInv'
  OBVIOUS
<1>1. ASSUME UNCHANGED peerVars PROVE PeerInv'
  BY <1>1 DEF peerVars, PeerInv, HeardInv, TableInv, Used, InSlot
<1>2. ASSUME NEW sender \in Nodes, NEW src \in {sender, Nobody}, NEW inPayload \in {sender, Nobody},
             Overheard(sender, src, inPayload)
      PROVE  PeerInv'
  <2>1. CASE sender = Own \/ (src = Nobody /\ inPayload = Nobody)
    <3>1. UNCHANGED peerVars
      BY <1>2, <2>1 DEF Overheard, EffectiveSource, peerVars
    <3> QED BY <1>1, <3>1
  <2>2. CASE sender # Own /\ (src = sender \/ inPayload = sender)
    <3>1. sender \in Others /\ sender # Nobody /\ EffectiveSource(src, inPayload) = sender
      BY <2>2 DEF Others, EffectiveSource
    <3>2. RecordPeer(sender) /\ heard' = ByContact(sender) /\ Tallied(sender)
      BY <1>2, <2>2, <3>1 DEF Overheard, Tallied
    <3>3. HeardInv
      BY DEF PeerInv
    <3>4. PICK i \in 1..(Len(heard) + 1) :
            LET order == ByContact(sender)
                top == IF i <= Len(heard) THEN Len(heard) ELSE Len(heard) + 1
            IN /\ order \in Seq(Others) /\ Len(order) = top /\ order[top] = sender
               /\ \A j \in 1..(i - 1) : order[j] = heard[j]
               /\ \A j \in i..(top - 1) : order[j] = heard[j + 1]
               /\ i <= Len(heard) => heard[i] = sender
               /\ \A j \in 1..Len(heard) : heard[j] = sender => j = i
      BY <3>1, <3>3, ContactOrder
    <3>5. Moved(i, sender)
      BY <3>2, <3>4 DEF Moved, Top
    <3>6. i \in Nat
      BY <3>3, <3>4 DEF HeardInv
    <3> QED BY <3>1, <3>2, <3>5, <3>6, PromoteKeeps, EnlistKeeps, EvictKeeps DEF RecordPeer
  <2> QED BY <2>1, <2>2
<1> QED BY <1>1, <1>2 DEF PeerNext

LEMMA PeerTypes == PeerInv => PeerTypeOK
<1> USE PeerAssumption
<1> SUFFICES ASSUME PeerInv PROVE PeerTypeOK
  OBVIOUS
<1>1. ASSUME NEW j \in PeerSlots
      PROVE  peers[j] \in [node : Others, count : 1..CountLimit] \cup {NoPeer}
  <2>1. CASE j < Used
    <3>1. j \in 0..(Used - 1) /\ InSlot(j) \in Others
      BY <2>1, OccupiedAre DEF PeerSlots
    <3>2. tally[InSlot(j)] \in 1..CountLimit
      BY <3>1 DEF PeerInv, TableInv
    <3> QED BY <2>1, <3>1, <3>2 DEF PeerInv, TableInv
  <2>2. CASE ~(j < Used)
    BY <2>2 DEF PeerInv, TableInv
  <2> QED BY <2>1, <2>2
<1> QED BY <1>1 DEF PeerInv, PeerTypeOK

LEMMA PeersTyped == PeerSpec => []PeerTypeOK
BY PeerStart, PeerStep, PeerTypes, PTL DEF PeerSpec

\* What the dashboard shows follows from the table.
LEMMA InvLatestPeers == PeerInv => LatestPeers
<1> USE PeerAssumption
<1> SUFFICES ASSUME PeerInv PROVE LatestPeers
  OBVIOUS
<1> DEFINE fromEnd(k) == IF k <= Len(heard) THEN heard[Len(heard) + 1 - k] ELSE Nobody
<1>1. /\ Len(heard) \in Nat /\ Used \in 0..PeerCapacity /\ Used <= Len(heard)
      /\ Occupied = 0..(Used - 1)
      /\ \A j \in 0..(Used - 1) : /\ InSlot(j) \in Others /\ peers[j].node = InSlot(j)
                                  /\ peers[j].count = tally[InSlot(j)] /\ j \in PeerSlots
  BY OccupiedAre
<1>2. ASSUME NEW k \in 1..Used
      PROVE  peers[Used - k].node = fromEnd(k) /\ peers[Used - k].count = tally[peers[Used - k].node]
  <2>1. Used - k \in 0..(Used - 1) /\ Len(heard) - Used + 1 + (Used - k) = Len(heard) + 1 - k
        /\ k <= Len(heard)
    BY <1>1
  <2>2. InSlot(Used - k) = fromEnd(k)
    BY <2>1 DEF InSlot
  <2> QED BY <1>1, <2>1, <2>2
<1>3. PrimaryPeer = fromEnd(1)
  <2>1. CASE Used = 0
    <3>1. Occupied = {} /\ Len(heard) = 0
      BY <1>1, <2>1 DEF Used
    <3> QED BY <3>1 DEF PrimaryPeer
  <2>2. CASE Used > 0
    <3>1. Max(0..(Used - 1)) = Used - 1
      BY <1>1, <2>2, EndSlots
    <3>2. 1 \in 1..Used /\ Occupied # {}
      <4>1. 0 \in 0..(Used - 1) /\ 1 \in 1..Used
        BY <1>1, <2>2
      <4> QED BY <1>1, <4>1
    <3>3. PrimaryPeer = peers[Used - 1].node
      BY <1>1, <3>1, <3>2 DEF PrimaryPeer
    <3> QED BY <1>2, <3>2, <3>3
  <2> QED BY <1>1, <2>1, <2>2
<1>4. ASSUME PeerCapacity >= 2 PROVE SecondaryPeer = fromEnd(2)
  <2>1. Cardinality(Occupied) = Used
    <3>1. Cardinality(0..(Used - 1)) = IF 0 > Used - 1 THEN 0 ELSE Used - 1 - 0 + 1
      BY <1>1, FS_Interval
    <3> QED BY <1>1, <3>1
  <2>2. CASE Used < 2
    <3>1. Len(heard) < 2
      BY <1>1, <1>4, <2>2 DEF Used
    <3> QED BY <1>1, <2>1, <2>2, <3>1 DEF SecondaryPeer
  <2>3. CASE Used >= 2
    <3>1. Max(Occupied) = Used - 1
      <4>1. Used > 0
        BY <1>1, <2>3
      <4>2. Max(0..(Used - 1)) = Used - 1
        BY <1>1, <4>1, EndSlots
      <4> QED BY <1>1, <4>2
    <3>2. Occupied \ {Used - 1} = 0..((Used - 1) - 1)
      BY <1>1, <2>3
    <3>3. Max(0..((Used - 1) - 1)) = (Used - 1) - 1
      <4>1. Used - 1 \in 0..PeerCapacity /\ Used - 1 > 0
        BY <1>1, <2>3
      <4> QED BY <4>1, EndSlots
    <3>4. 2 \in 1..Used /\ (Used - 1) - 1 = Used - 2
      BY <1>1, <2>3
    <3>5. Max(Occupied \ {Max(Occupied)}) = Used - 2
      BY <1>1, <3>1, <3>2, <3>3, <3>4
    <3>6. ~(Cardinality(Occupied) < 2)
      BY <1>1, <2>1, <2>3
    <3>7. SecondaryPeer = peers[Used - 2].node
      BY <3>5, <3>6, Zenon DEF SecondaryPeer
    <3> QED BY <1>2, <3>4, <3>7
  <2> QED BY <1>1, <2>2, <2>3
<1> QED BY <1>1, <1>2, <1>3, <1>4 DEF LatestPeers, Used

\* The table without a clock is the one a clock would give, for any number of nodes and
\* slots, whatever frames do without a source (frame.rs:553-601).
THEOREM TableIsLatest == PeerSpec => []LatestPeers
BY PeerStart, PeerStep, InvLatestPeers, PTL DEF PeerSpec

-----------------------------------------------------------------------------
(* Lines to the host *)

\* What has been printed and neither returned nor dropped, and where the line of one of
\* its bytes begins.
Stream == readBuf \o serial
Start(T, i) == i - T[i].place + 1

Byte == [line : Nat, packet : BOOLEAN, place : Nat \ {0}, newline : BOOLEAN]

\* Lines follow one another and are in one piece each; ...
Ordered(T) ==
  \A i, j \in 1..Len(T) : i < j =>
    \/ T[i].line = T[j].line /\ Start(T, i) = Start(T, j) /\ ~T[i].newline
    \/ T[i].line < T[j].line /\ Start(T, j) > i
\* ... they begin in the stream, or have been cut; ...
Begun(T, c) ==
  \A i \in 1..Len(T) :
    IF Start(T, i) >= 1 THEN T[Start(T, i)].line = T[i].line /\ T[i].line \notin c
                        ELSE T[i].line \in c
\* ... and they end with a newline.
Ended(T) == \A i \in 1..Len(T) : \E j \in i..Len(T) : T[j].line = T[i].line /\ T[j].newline
Marked(T, P) ==
  \A i \in 1..Len(T) : /\ T[i].packet <=> T[i].line \in P
                       /\ T[i].packet => (T[i].newline <=> T[i].place = PacketLine)
StreamOK(T, c, P) ==
  T \in Seq(Byte) /\ Ordered(T) /\ Begun(T, c) /\ Ended(T) /\ Marked(T, P)

HandedOK(T) ==
  /\ handed \in Seq(Nat)
  /\ \A a, b \in 1..Len(handed) : a < b => handed[a] < handed[b]
  /\ \A a \in 1..Len(handed) : /\ handed[a] \in packets \ cut
                               /\ \A i \in 1..Len(T) : handed[a] < T[i].line
AllThere(T) ==
  \A p \in packets : \/ p \in cut
                     \/ \E i \in 1..Len(T) : T[i].line = p
                     \/ \E a \in 1..Len(handed) : handed[a] = p
BufferOK ==
  /\ readBuf \in Seq(Byte) /\ serial \in Seq(Byte)
  /\ Len(readBuf) <= LineLimit /\ \A i \in 1..Len(readBuf) : ~readBuf[i].newline
Numbered ==
  /\ lines \in 0..MaxLines /\ packets \subseteq 1..lines /\ cut \subseteq 1..lines
  /\ \A i \in 1..Len(Stream) : Stream[i].line \in 1..lines
LineInv ==
  BufferOK /\ Numbered /\ StreamOK(Stream, cut, packets) /\ HandedOK(Stream) /\ AllThere(Stream)

\* The numbers of a finite set in their order.
LEMMA Enumerates ==
  ASSUME NEW S \in SUBSET Nat, IsFiniteSet(S)
  PROVE  /\ Cardinality(S) \in Nat
         /\ \A n \in 1..Cardinality(S) : Nth(S, n) \in S
         /\ \A m, n \in 1..Cardinality(S) : m < n => Nth(S, m) < Nth(S, n)
         /\ \A i \in S : \E n \in 1..Cardinality(S) : Nth(S, n) = i
<1> DEFINE upTo(i) == {j \in S : j <= i}
           rank == [i \in S |-> Cardinality(upTo(i))]
           N == Cardinality(S)
<1>1. N \in Nat
  BY FS_CardinalityType
<1>2. ASSUME NEW i \in S PROVE IsFiniteSet(upTo(i)) /\ rank[i] \in 1..N
  <2>1. upTo(i) \in SUBSET S
    OBVIOUS
  <2>2. IsFiniteSet(upTo(i)) /\ Cardinality(upTo(i)) <= N
    BY <2>1, FS_Subset
  <2>3. Cardinality(upTo(i)) \in Nat /\ (Cardinality(upTo(i)) = 0 <=> upTo(i) = {})
    BY <2>2, FS_CardinalityType, FS_EmptySet
  <2>4. i \in upTo(i)
    OBVIOUS
  <2>5. Cardinality(upTo(i)) \in 1..N
    BY <1>1, <2>2, <2>3, <2>4
  <2> QED BY <2>2, <2>5
<1>3. ASSUME NEW i \in S, NEW j \in S, i < j PROVE rank[i] < rank[j]
  <2>1. upTo(i) \in SUBSET upTo(j) /\ j \in upTo(j) /\ j \notin upTo(i)
    <3>1. i \in Nat /\ j \in Nat
      OBVIOUS
    <3>2. \A k \in upTo(i) : k \in S /\ k \in Nat /\ k <= i
      OBVIOUS
    <3>3. \A k \in upTo(i) : k \in S /\ k <= j
      BY <1>3, <3>1, <3>2
    <3>4. ~(j <= i) /\ j <= j
      BY <1>3, <3>1
    <3> QED BY <3>3, <3>4
  <2>2. IsFiniteSet(upTo(j)) /\ rank[i] \in Nat /\ rank[j] \in Nat
    BY <1>1, <1>2
  <2> HIDE DEF upTo
  <2>3. Cardinality(upTo(i)) <= Cardinality(upTo(j)) /\ Cardinality(upTo(j)) # Cardinality(upTo(i))
    BY <2>1, <2>2, FS_Subset
  <2> QED BY <2>2, <2>3
<1> HIDE DEF N
<1>4. \A i, j \in S : rank[i] = rank[j] => i = j
  <2> TAKE i, j \in S
  <2>1. rank[i] \in Nat /\ rank[j] \in Nat
    BY <1>1, <1>2
  <2>2. i \in Nat /\ j \in Nat
    OBVIOUS
  <2> HIDE DEF rank
  <2> QED BY <1>3, <2>1, <2>2
<1>5. rank \in Injection(S, 1..N)
  <2>1. rank \in [S -> 1..N]
    <3>1. rank = [i \in S |-> rank[i]]
      OBVIOUS
    <3> HIDE DEF rank
    <3> QED BY <1>2, <3>1
  <2>2. DOMAIN rank = S
    OBVIOUS
  <2> HIDE DEF rank
  <2> QED BY <1>4, <2>1, <2>2 DEF Injection, IsInjective
<1>6. rank \in Surjection(S, 1..N)
  <2>1. IsFiniteSet(1..N) /\ Cardinality(1..N) = N
    <3>1. IsFiniteSet(1..N) /\ Cardinality(1..N) = IF 1 > N THEN 0 ELSE N - 1 + 1
      BY <1>1, FS_Interval
    <3> QED BY <1>1, <3>1
  <2>2. Cardinality(S) = Cardinality(1..N)
    BY <2>1 DEF N
  <2> HIDE DEF rank
  <2> QED BY <1>5, <2>1, <2>2, FS_Injection
<1>7. ASSUME NEW n \in 1..N PROVE Nth(S, n) \in S /\ rank[Nth(S, n)] = n
  <2>1. PICK i \in S : rank[i] = n
    <3> HIDE DEF rank
    <3> QED BY <1>6 DEF Surjection
  <2>2. Cardinality({j \in S : j <= i}) = n
    BY <2>1
  <2>3. Nth(S, n) \in S /\ Cardinality({j \in S : j <= Nth(S, n)}) = n
    BY <2>2 DEF Nth
  <2> QED BY <2>3
<1>8. \A m, n \in 1..N : m < n => Nth(S, m) < Nth(S, n)
  <2> SUFFICES ASSUME NEW m \in 1..N, NEW n \in 1..N, m < n PROVE Nth(S, m) < Nth(S, n)
    OBVIOUS
  <2> DEFINE a == Nth(S, m)
             b == Nth(S, n)
  <2>1. a \in S /\ b \in S /\ rank[a] = m /\ rank[b] = n
    BY <1>7
  <2> HIDE DEF a, b, rank
  <2>2. ~(b < a) /\ a # b
    BY <1>1, <1>3, <2>1
  <2>3. a < b
    BY <2>1, <2>2
  <2> QED BY <2>3 DEF a, b
<1>9. \A i \in S : \E n \in 1..N : Nth(S, n) = i
  <2> TAKE i \in S
  <2>1. rank[i] \in 1..N
    BY <1>2
  <2> DEFINE n == rank[i]
  <2>2. n \in 1..N /\ Nth(S, n) \in S /\ rank[Nth(S, n)] = n
    BY <1>7, <2>1
  <2>3. Nth(S, n) = i
    <3> DEFINE a == Nth(S, n)
    <3>1. a \in S /\ rank[a] = rank[i]
      BY <2>2
    <3> HIDE DEF rank, a
    <3>2. a = i
      BY <1>4, <3>1
    <3> QED BY <3>2 DEF a
  <2> QED BY <2>2, <2>3
<1> QED BY <1>1, <1>7, <1>8, <1>9 DEF N

\* The fields of the bytes of a stream.
LEMMA Bytes ==
  ASSUME NEW T \in Seq(Byte)
  PROVE  \A i \in 1..Len(T) : /\ T[i].line \in Nat /\ T[i].packet \in BOOLEAN
                              /\ T[i].place \in Nat \ {0} /\ T[i].newline \in BOOLEAN
                              /\ Start(T, i) \in Int /\ Start(T, i) <= i
<1> TAKE i \in 1..Len(T)
<1>1. T[i] \in Byte
  OBVIOUS
<1>2. T[i].line \in Nat /\ T[i].packet \in BOOLEAN /\ T[i].newline \in BOOLEAN
  BY <1>1 DEF Byte
<1>3. T[i].place \in Nat \ {0}
  BY <1>1 DEF Byte
<1> QED BY <1>2, <1>3 DEF Start

\* A stream of which D bytes have gone, the first d of them dropped, is still one of
\* lines in order, if the other bytes that have gone end with a newline.
Gone(T, U, d, D) ==
  /\ d \in Nat /\ D \in Nat /\ d <= D /\ D <= Len(T)
  /\ Len(U) = Len(T) - D /\ \A i \in 1..Len(U) : U[i] = T[i + D]
  /\ d < D => T[D].newline
LinesOf(T, d) == {T[k].line : k \in 1..d}

LEMMA StreamLater ==
  ASSUME NEW T \in Seq(Byte), NEW U \in Seq(Byte), NEW d, NEW D, NEW c, NEW P,
         Gone(T, U, d, D), StreamOK(T, c, P)
  PROVE  StreamOK(U, c \cup LinesOf(T, d), P)
<1>1. Len(T) \in Nat /\ Len(U) \in Nat /\ d \in Nat /\ D \in Nat /\ d <= D
  BY DEF Gone
<1>2. \A i \in 1..Len(U) : /\ i + D \in 1..Len(T) /\ i + D > D /\ U[i] = T[i + D]
                           /\ Start(U, i) = Start(T, i + D) - D
  <2> TAKE i \in 1..Len(U)
  <2>1. i + D \in 1..Len(T) /\ i + D > D /\ U[i] = T[i + D]
    BY <1>1 DEF Gone
  <2>2. T[i + D].place \in Nat
    BY <2>1, Bytes
  <2>3. Start(U, i) = Start(T, i + D) - D
    BY <1>1, <2>1, <2>2 DEF Start
  <2> QED BY <2>1, <2>3
<1>3. Ordered(U)
  <2> SUFFICES ASSUME NEW i \in 1..Len(U), NEW j \in 1..Len(U), i < j
               PROVE  \/ U[i].line = U[j].line /\ Start(U, i) = Start(U, j) /\ ~U[i].newline
                      \/ U[i].line < U[j].line /\ Start(U, j) > i
    BY DEF Ordered
  <2>1. \/ T[i + D].line = T[j + D].line /\ Start(T, i + D) = Start(T, j + D) /\ ~T[i + D].newline
        \/ T[i + D].line < T[j + D].line /\ Start(T, j + D) > i + D
    <3>1. i + D \in 1..Len(T) /\ j + D \in 1..Len(T) /\ i + D < j + D
      BY <1>1, <1>2
    <3> QED BY <3>1 DEF StreamOK, Ordered
  <2>2. Start(T, j + D) \in Int
    BY <1>2, Bytes
  <2> QED BY <1>1, <1>2, <2>1, <2>2
<1>4. Begun(U, c \cup LinesOf(T, d))
  <2> DEFINE c2 == c \cup LinesOf(T, d)
  <2> SUFFICES ASSUME NEW i \in 1..Len(U)
               PROVE  IF Start(U, i) >= 1 THEN U[Start(U, i)].line = U[i].line /\ U[i].line \notin c2
                                          ELSE U[i].line \in c2
    BY DEF Begun
  <2> DEFINE k == i + D
             b == Start(T, k)
  <2>1. k \in 1..Len(T) /\ k > D /\ U[i] = T[k] /\ Start(U, i) = b - D /\ b \in Int /\ b <= k
    <3>1. k \in 1..Len(T) /\ k > D /\ U[i] = T[k] /\ Start(U, i) = b - D
      BY <1>2
    <3>2. b \in Int /\ b <= k
      BY <3>1, Bytes
    <3> QED BY <3>1, <3>2
  <2> HIDE DEF k, b
  <2>2. IF b >= 1 THEN T[b].line = T[k].line /\ T[k].line \notin c ELSE T[k].line \in c
    BY <2>1 DEF StreamOK, Begun, b
  <2>3. CASE b > D
    <3>1. b - D \in 1..Len(U) /\ U[b - D] = T[b]
      <4>1. b - D \in 1..Len(U)
        BY <1>1, <2>1, <2>3 DEF k
      <4>2. (b - D) + D = b
        BY <1>1, <2>1
      <4> QED BY <1>2, <4>1, <4>2
    <3>2. T[k].line \notin LinesOf(T, d)
      <4> SUFFICES ASSUME NEW x \in 1..d, T[x].line = T[k].line
                   PROVE  FALSE
        BY DEF LinesOf
      <4>1. x \in 1..Len(T) /\ x < k /\ x < b
        BY <1>1, <2>1, <2>3
      <4>2. T[x].line \in Nat /\ Start(T, x) <= x /\ Start(T, x) \in Int
        BY <4>1, Bytes
      <4>3. Start(T, x) = b
        BY <2>1, <4>1, <4>2 DEF StreamOK, Ordered, b
      <4> QED BY <2>1, <4>1, <4>2, <4>3
    <3>3. b >= 1 /\ Start(U, i) >= 1
      BY <1>1, <2>1, <2>3
    <3> QED BY <2>1, <2>2, <3>1, <3>2, <3>3
  <2>4. CASE b <= D
    <3>1. ~(Start(U, i) >= 1)
      BY <1>1, <2>1, <2>4
    <3>2. CASE b < 1
      BY <2>1, <2>2, <3>1, <3>2
    <3>3. CASE b >= 1 /\ b <= d
      <4>1. T[b].line = T[k].line /\ b \in 1..d
        BY <1>1, <2>1, <2>2, <3>3
      <4>2. T[k].line \in LinesOf(T, d)
        BY <4>1 DEF LinesOf
      <4> QED BY <2>1, <3>1, <4>2
    <3>4. CASE b >= 1 /\ b > d
      <4>1. D \in 1..Len(T) /\ T[D].newline /\ D < k
        BY <1>1, <2>1, <2>4, <3>4 DEF Gone
      <4>2. Start(T, k) > D
        BY <2>1, <4>1 DEF StreamOK, Ordered
      <4> QED BY <1>1, <2>1, <2>4, <4>2 DEF b
    <3> QED BY <1>1, <2>1, <3>2, <3>3, <3>4
  <2> QED BY <1>1, <2>1, <2>3, <2>4
<1>5. Ended(U)
  <2> SUFFICES ASSUME NEW i \in 1..Len(U)
               PROVE  \E j \in i..Len(U) : U[j].line = U[i].line /\ U[j].newline
    BY DEF Ended
  <2>1. i + D \in 1..Len(T) /\ U[i] = T[i + D]
    BY <1>2
  <2>2. PICK j \in (i + D)..Len(T) : T[j].line = T[i + D].line /\ T[j].newline
    BY <2>1 DEF StreamOK, Ended
  <2>3. j - D \in i..Len(U) /\ j - D \in 1..Len(U) /\ (j - D) + D = j
    BY <1>1, <2>1 DEF Gone
  <2>4. U[j - D] = T[j]
    BY <1>2, <2>3
  <2> QED BY <2>1, <2>2, <2>3, <2>4
<1>6. Marked(U, P)
  <2> SUFFICES ASSUME NEW i \in 1..Len(U)
               PROVE  /\ U[i].packet <=> U[i].line \in P
                      /\ U[i].packet => (U[i].newline <=> U[i].place = PacketLine)
    BY DEF Marked
  <2>1. i + D \in 1..Len(T) /\ U[i] = T[i + D]
    BY <1>2
  <2> QED BY <2>1 DEF StreamOK, Marked
<1> QED BY <1>3, <1>4, <1>5, <1>6 DEF StreamOK

\* A line printed behind a stream.
LEMMA StreamLonger ==
  ASSUME NEW T \in Seq(Byte), NEW n \in Nat, NEW len \in Nat \ {0}, NEW flag \in BOOLEAN,
         NEW c, NEW P, NEW Q,
         StreamOK(T, c, P), \A i \in 1..Len(T) : T[i].line \in 1..n,
         c \subseteq 1..n, P \subseteq 1..n,
         flag => len = PacketLine, Q = IF flag THEN P \cup {n + 1} ELSE P
  PROVE  /\ T \o Line(n + 1, len, flag) \in Seq(Byte)
         /\ StreamOK(T \o Line(n + 1, len, flag), c, Q)
<1> DEFINE L == Line(n + 1, len, flag)
           U == T \o L
           m == Len(T)
<1>1. /\ L \in Seq(Byte) /\ Len(L) = len
      /\ \A i \in 1..len : /\ L[i].line = n + 1 /\ L[i].packet = flag /\ L[i].place = i
                           /\ L[i].newline <=> i = len
  <2>1. \A i \in 1..len : [line |-> n + 1, packet |-> flag, place |-> i, newline |-> i = len] \in Byte
    BY DEF Byte
  <2>2. L = [i \in 1..len |-> [line |-> n + 1, packet |-> flag, place |-> i, newline |-> i = len]]
    BY DEF Line
  <2>3. L \in [1..len -> Byte]
    BY <2>1, <2>2
  <2>4. L \in Seq(Byte) /\ Len(L) = len
    BY <2>3
  <2>5. ASSUME NEW i \in 1..len
        PROVE  L[i].line = n + 1 /\ L[i].packet = flag /\ L[i].place = i /\ (L[i].newline <=> i = len)
    <3>1. L[i] = [line |-> n + 1, packet |-> flag, place |-> i, newline |-> i = len]
      BY <2>2
    <3> HIDE DEF L
    <3>2. L[i].line = n + 1 /\ L[i].packet = flag /\ L[i].place = i
      BY <3>1
    <3>3. L[i].newline = (i = len)
      BY <3>1
    <3> QED BY <3>2, <3>3
  <2> QED BY <2>4, <2>5
<1> HIDE DEF L
<1>2. m \in Nat /\ U \in Seq(Byte) /\ Len(U) = m + len
  <2>1. m \in Nat
    OBVIOUS
  <2>2. L \in Seq(Byte) /\ Len(L) = len
    BY <1>1
  <2>3. U \in Seq(Byte) /\ Len(U) = Len(T) + Len(L)
    BY <2>2, ConcatProperties
  <2> QED BY <2>1, <2>2, <2>3
<1>3. \A i \in 1..m : i \in 1..Len(U) /\ U[i] = T[i] /\ Start(U, i) = Start(T, i)
  <2>1. \A i \in 1..m : i \in 1..Len(U) /\ U[i] = T[i]
    BY <1>1
  <2> HIDE DEF U
  <2> QED BY <2>1 DEF Start
<1>4. \A i \in 1..Len(U) : i > m =>
        /\ i - m \in 1..len
        /\ U[i].line = n + 1 /\ U[i].packet = flag /\ U[i].place = i - m
        /\ U[i].newline <=> i = m + len
        /\ Start(U, i) = m + 1
  <2> SUFFICES ASSUME NEW i \in 1..Len(U), i > m
               PROVE  /\ i - m \in 1..len
                      /\ U[i].line = n + 1 /\ U[i].packet = flag /\ U[i].place = i - m
                      /\ U[i].newline <=> i = m + len
                      /\ Start(U, i) = m + 1
    OBVIOUS
  <2>1. i - m \in 1..len
    BY <1>2
  <2>2. U[i] = L[i - m]
    BY <1>1, <2>1
  <2> HIDE DEF U
  <2>3. U[i].line = n + 1 /\ U[i].packet = flag /\ U[i].place = i - m
    BY <1>1, <2>1, <2>2
  <2>4. U[i].newline <=> i - m = len
    BY <1>1, <2>1, <2>2
  <2>5. Start(U, i) = m + 1
    BY <1>2, <2>3 DEF Start
  <2> QED BY <1>2, <2>1, <2>3, <2>4, <2>5
<1> HIDE DEF U, m
<1>5. Ordered(U)
  <2> SUFFICES ASSUME NEW i \in 1..Len(U), NEW j \in 1..Len(U), i < j
               PROVE  \/ U[i].line = U[j].line /\ Start(U, i) = Start(U, j) /\ ~U[i].newline
                      \/ U[i].line < U[j].line /\ Start(U, j) > i
    BY DEF Ordered
  <2>1. CASE j <= m
    <3>1. i \in 1..m /\ j \in 1..m
      BY <1>2, <2>1
    <3> QED BY <1>3, <3>1 DEF StreamOK, Ordered, m
  <2>2. CASE i <= m /\ j > m
    <3>1. i \in 1..m /\ U[i].line \in 1..n
      BY <1>2, <1>3, <2>2 DEF m
    <3>2. U[j].line = n + 1 /\ Start(U, j) = m + 1
      BY <1>4, <2>2
    <3> QED BY <1>2, <3>1, <3>2
  <2>3. CASE i > m
    <3>1. j > m /\ i # m + len
      BY <1>2, <2>3
    <3> QED BY <1>4, <2>3, <3>1
  <2> QED BY <1>2, <2>1, <2>2, <2>3
<1>6. Begun(U, c)
  <2> SUFFICES ASSUME NEW i \in 1..Len(U)
               PROVE  IF Start(U, i) >= 1 THEN U[Start(U, i)].line = U[i].line /\ U[i].line \notin c
                                          ELSE U[i].line \in c
    BY DEF Begun
  <2>1. CASE i <= m
    <3>1. i \in 1..m /\ U[i] = T[i] /\ Start(U, i) = Start(T, i)
      BY <1>2, <1>3, <2>1
    <3>2. Start(T, i) \in Int /\ Start(T, i) <= i
      BY <3>1, Bytes DEF m
    <3>3. IF Start(T, i) >= 1 THEN T[Start(T, i)].line = T[i].line /\ T[i].line \notin c
                              ELSE T[i].line \in c
      BY <3>1 DEF StreamOK, Begun, m
    <3>4. Start(T, i) >= 1 => U[Start(T, i)] = T[Start(T, i)]
      <4> SUFFICES ASSUME Start(T, i) >= 1 PROVE U[Start(T, i)] = T[Start(T, i)]
        OBVIOUS
      <4>1. Start(T, i) \in 1..m
        BY <1>2, <3>1, <3>2
      <4> QED BY <1>3, <4>1
    <3> QED BY <3>1, <3>3, <3>4
  <2>2. CASE i > m
    <3>1. Start(U, i) = m + 1 /\ U[i].line = n + 1
      BY <1>4, <2>2
    <3>2. m + 1 \in 1..Len(U) /\ m + 1 > m
      BY <1>2
    <3>3. U[m + 1].line = n + 1
      BY <1>4, <3>2
    <3>4. n + 1 \notin c /\ m + 1 >= 1
      BY <1>2
    <3> QED BY <3>1, <3>3, <3>4
  <2> QED BY <1>2, <2>1, <2>2
<1>7. Ended(U)
  <2> SUFFICES ASSUME NEW i \in 1..Len(U)
               PROVE  \E j \in i..Len(U) : U[j].line = U[i].line /\ U[j].newline
    BY DEF Ended
  <2>1. CASE i <= m
    <3>1. i \in 1..m
      BY <1>2, <2>1
    <3>2. PICK j \in i..m : T[j].line = T[i].line /\ T[j].newline
      BY <3>1 DEF StreamOK, Ended, m
    <3>3. j \in 1..m /\ j \in i..Len(U)
      BY <1>2, <3>1
    <3> QED BY <1>3, <3>1, <3>2, <3>3
  <2>2. CASE i > m
    <3>1. Len(U) \in i..Len(U) /\ Len(U) \in 1..Len(U) /\ Len(U) > m /\ Len(U) = m + len
      BY <1>2, <2>2
    <3> QED BY <1>4, <2>2, <3>1
  <2> QED BY <1>2, <2>1, <2>2
<1>8. Marked(U, Q)
  <2> SUFFICES ASSUME NEW i \in 1..Len(U)
               PROVE  /\ U[i].packet <=> U[i].line \in Q
                      /\ U[i].packet => (U[i].newline <=> U[i].place = PacketLine)
    BY DEF Marked
  <2>1. CASE i <= m
    <3>1. i \in 1..m /\ U[i] = T[i] /\ U[i].line \in 1..n
      BY <1>2, <1>3, <2>1 DEF m
    <3>2. U[i].line \in Q <=> U[i].line \in P
      BY <3>1
    <3> QED BY <3>1, <3>2 DEF StreamOK, Marked, m
  <2>2. CASE i > m
    <3>1. U[i].line = n + 1 /\ U[i].packet = flag /\ U[i].place = i - m
      BY <1>4, <2>2
    <3>2. flag <=> n + 1 \in Q
      OBVIOUS
    <3>3. U[i].newline <=> i = m + len
      BY <1>4, <2>2
    <3>4. i = m + len <=> i - m = len
      BY <1>2
    <3> QED BY <3>1, <3>2, <3>3, <3>4
  <2> QED BY <1>2, <2>1, <2>2
<1> QED BY <1>2, <1>5, <1>6, <1>7, <1>8 DEF StreamOK, U, L

\* Before anything is printed nothing is in the stream, cut or returned.
LEMMA LineStart ==
  ASSUME LineInit PROVE LineInv
<1>1. serial = <<>> /\ readBuf = <<>> /\ lines = 0 /\ packets = {} /\ handed = <<>> /\ cut = {}
  BY DEF LineInit
<1>2. Stream = <<>> /\ Stream \in Seq(Byte) /\ Len(Stream) = 0
  BY <1>1 DEF Stream
<1>3. BufferOK /\ Numbered
  <2>1. BufferOK
    BY <1>1, LineAssumption DEF BufferOK
  <2> QED BY <1>1, <1>2, <2>1, LineAssumption DEF Numbered
<1>4. StreamOK(Stream, cut, packets)
  BY <1>2 DEF StreamOK, Ordered, Begun, Ended, Marked
<1>5. HandedOK(Stream) /\ AllThere(Stream)
  BY <1>1, <1>2 DEF HandedOK, AllThere
<1> QED BY <1>3, <1>4, <1>5 DEF LineInv

LEMMA LinePrinted ==
  ASSUME LineInv, PrintLine PROVE LineInv'
<1> USE LineAssumption
<1>1. PICK len \in Nat \ {0}, flag \in BOOLEAN :
        /\ serial' = serial \o Line(lines + 1, len, flag)
        /\ flag => len = PacketLine
        /\ packets' = IF flag THEN packets \cup {lines + 1} ELSE packets
  <2>1. CASE serial' = serial \o Line(lines + 1, PacketLine, TRUE) /\ packets' = packets \cup {lines + 1}
    <3>1. PacketLine \in Nat \ {0}
      OBVIOUS
    <3> QED BY <2>1, <3>1
  <2>2. CASE (\E len \in LogLines : serial' = serial \o Line(lines + 1, len, FALSE)) /\ UNCHANGED packets
    <3>1. PICK len \in LogLines : serial' = serial \o Line(lines + 1, len, FALSE)
      BY <2>2
    <3>2. len \in Nat \ {0}
      OBVIOUS
    <3> QED BY <2>2, <3>1, <3>2
  <2> QED BY <2>1, <2>2 DEF PrintLine
<1>2. /\ lines' = lines + 1 /\ lines < MaxLines
      /\ readBuf' = readBuf /\ handed' = handed /\ cut' = cut
  BY DEF PrintLine
<1> DEFINE L == Line(lines + 1, len, flag)
           T == Stream
<1>3. /\ readBuf \in Seq(Byte) /\ serial \in Seq(Byte) /\ T \in Seq(Byte)
      /\ lines \in Nat /\ MaxLines \in Nat /\ lines + 1 \in 0..MaxLines
  BY <1>2 DEF LineInv, BufferOK, Numbered, Stream
<1>4. /\ StreamOK(T, cut, packets) /\ cut \subseteq 1..lines /\ packets \subseteq 1..lines
      /\ \A i \in 1..Len(T) : T[i].line \in 1..lines
  BY DEF LineInv, Numbered
<1>5. T \o L \in Seq(Byte) /\ StreamOK(T \o L, cut, packets')
  <2> HIDE DEF T
  <2> QED BY <1>1, <1>3, <1>4, StreamLonger
<1>6. L \in Seq(Byte) /\ \A i \in 1..Len(L) : L[i].line = lines + 1
  <2>1. \A i \in 1..len : [line |-> lines + 1, packet |-> flag, place |-> i, newline |-> i = len] \in Byte
    BY <1>3 DEF Byte
  <2> DEFINE F == [i \in 1..len |-> [line |-> lines + 1, packet |-> flag, place |-> i, newline |-> i = len]]
  <2>2. F \in Seq(Byte) /\ Len(F) = len /\ \A i \in 1..len : F[i].line = lines + 1
    BY <2>1
  <2>3. L = F
    BY DEF Line
  <2> HIDE DEF F, L
  <2> QED BY <2>2, <2>3
<1> HIDE DEF L
<1>7. serial' \in Seq(Byte) /\ Stream' = T \o L
  <2>1. serial' = serial \o L
    BY <1>1 DEF L
  <2>2. readBuf \o (serial \o L) = (readBuf \o serial) \o L
    BY <1>3, <1>6
  <2>3. serial \o L \in Seq(Byte)
    BY <1>3, <1>6
  <2> QED BY <1>2, <2>1, <2>2, <2>3 DEF Stream
<1>8. \A i \in 1..Len(T \o L) : (T \o L)[i].line = lines + 1 \/ \E j \in 1..Len(T) : (T \o L)[i] = T[j]
  <2> HIDE DEF T
  <2> TAKE i \in 1..Len(T \o L)
  <2>1. Len(T) \in Nat /\ Len(T \o L) = Len(T) + Len(L)
    BY <1>3, <1>6
  <2>2. CASE i \in 1..Len(T)
    BY <1>3, <1>6, <2>2
  <2>3. CASE i \notin 1..Len(T)
    <3>1. i - Len(T) \in 1..Len(L) /\ (T \o L)[i] = L[i - Len(T)]
      BY <1>3, <1>6, <2>1, <2>3
    <3> QED BY <1>6, <3>1
  <2> QED BY <2>2, <2>3
<1>9. \A i \in 1..Len(T) : i \in 1..Len(T \o L) /\ (T \o L)[i] = T[i]
  <2> HIDE DEF T
  <2> QED BY <1>3, <1>6
<1>10. \A i \in 1..Len(L) : Len(T) + i \in 1..Len(T \o L) /\ (T \o L)[Len(T) + i] = L[i]
  <2> HIDE DEF T
  <2> QED BY <1>3, <1>6
<1>11. BufferOK'
  BY <1>2, <1>7 DEF LineInv, BufferOK
<1> HIDE DEF T
<1>12. \A i \in 1..Len(Stream') : (Stream')[i].line \in 1..(lines + 1)
  <2> DEFINE U == T \o L
  <2>1. \A i \in 1..Len(U) : U[i].line = lines + 1 \/ U[i].line \in 1..lines
    <3> SUFFICES ASSUME NEW i \in 1..Len(U) PROVE U[i].line = lines + 1 \/ U[i].line \in 1..lines
      OBVIOUS
    <3>1. CASE U[i].line = lines + 1
      BY <3>1
    <3>2. CASE \E j \in 1..Len(T) : U[i] = T[j]
      <4>1. PICK j \in 1..Len(T) : U[i] = T[j]
        BY <3>2
      <4>2. T[j].line \in 1..lines
        BY <1>4, <4>1
      <4> HIDE DEF U
      <4> QED BY <4>1, <4>2
    <3> QED BY <1>8, <3>1, <3>2
  <2>2. Stream' = U
    BY <1>7
  <2> HIDE DEF U
  <2>3. \A i \in 1..Len(U) : U[i].line \in 1..(lines + 1)
    BY <1>3, <2>1
  <2> QED BY <2>2, <2>3
<1>13. Numbered'
  <2>1. packets' \subseteq 1..(lines + 1)
    BY <1>1, <1>3, <1>4
  <2>2. cut' \subseteq 1..(lines + 1)
    BY <1>2, <1>3, <1>4
  <2> QED BY <1>2, <1>3, <1>12, <2>1, <2>2 DEF Numbered
<1>14. HandedOK(Stream)'
  <2>1. /\ handed \in Seq(Nat)
        /\ \A a, b \in 1..Len(handed) : a < b => handed[a] < handed[b]
        /\ \A a \in 1..Len(handed) : /\ handed[a] \in packets \ cut
                                     /\ \A i \in 1..Len(T) : handed[a] < T[i].line
    BY DEF LineInv, HandedOK, T
  <2>2. \A a \in 1..Len(handed) : handed[a] \in packets' \ cut'
    BY <1>1, <1>2, <2>1
  <2>3. \A a \in 1..Len(handed) : \A i \in 1..Len(T \o L) : handed[a] < (T \o L)[i].line
    <3> TAKE a \in 1..Len(handed)
    <3>1. handed[a] \in 1..lines
      BY <1>4, <2>1
    <3> TAKE i \in 1..Len(T \o L)
    <3>2. CASE (T \o L)[i].line = lines + 1
      BY <1>3, <3>1, <3>2
    <3>3. CASE \E j \in 1..Len(T) : (T \o L)[i] = T[j]
      <4>1. PICK j \in 1..Len(T) : (T \o L)[i] = T[j]
        BY <3>3
      <4>2. handed[a] < T[j].line
        BY <2>1, <4>1
      <4> QED BY <4>1, <4>2
    <3> QED BY <1>8, <3>2, <3>3
  <2> QED BY <1>2, <1>7, <2>1, <2>2, <2>3 DEF HandedOK
<1>15. AllThere(Stream)'
  <2>1. AllThere(T)
    BY DEF LineInv, T
  <2> SUFFICES ASSUME NEW p \in packets'
               PROVE  \/ p \in cut
                      \/ \E i \in 1..Len(T \o L) : (T \o L)[i].line = p
                      \/ \E a \in 1..Len(handed) : handed[a] = p
    BY <1>2, <1>7 DEF AllThere
  <2>2. CASE p \in packets
    BY <1>9, <2>1, <2>2 DEF AllThere
  <2>3. CASE flag /\ p = lines + 1
    <3>1. 1 \in 1..Len(L)
      <4>1. Len(L) = len
        BY DEF L, Line
      <4> QED BY <4>1
    <3> QED BY <1>6, <1>10, <2>3, <3>1
  <2> QED BY <1>1, <2>2, <2>3
<1>16. StreamOK(Stream, cut, packets)'
  BY <1>2, <1>5, <1>7
<1> QED BY <1>11, <1>13, <1>14, <1>15, <1>16 DEF LineInv

\* The first and the last newline of a buffer.
LEMMA Newline ==
  ASSUME NEW R \in Seq(Byte)
  PROVE  /\ Newlines(R) # {} => FirstNewline(R) \in Newlines(R)
         /\ LastNewline(R) \in 0..Len(R)
         /\ LastNewline(R) > 0 => R[LastNewline(R)].newline
         /\ \A i \in 1..Len(R) : R[i].newline => i <= LastNewline(R)
<1> DEFINE S == Newlines(R)
           N == Cardinality(S)
<1>1. /\ S = {i \in 1..Len(R) : R[i].newline} /\ S \in SUBSET (1..Len(R)) /\ S \in SUBSET Nat
      /\ Len(R) \in Nat
  BY DEF Newlines
<1>2. IsFiniteSet(S)
  <2>1. IsFiniteSet(1..Len(R))
    BY <1>1, FS_Interval
  <2> QED BY <1>1, <2>1, FS_Subset
<1> HIDE DEF S
<1>3. /\ N \in Nat /\ \A k \in 1..N : Nth(S, k) \in S
      /\ \A m, k \in 1..N : m < k => Nth(S, m) < Nth(S, k)
      /\ \A i \in S : \E k \in 1..N : Nth(S, k) = i
  <2> HIDE DEF N
  <2>1. S \in SUBSET Nat /\ IsFiniteSet(S)
    BY <1>1, <1>2
  <2> QED BY <2>1, Enumerates DEF N
<1>4. CASE S = {}
  <2>1. LastNewline(R) = 0
    BY <1>4 DEF LastNewline, S
  <2> QED BY <1>1, <1>4, <2>1 DEF S
<1>5. CASE S # {}
  <2> DEFINE a == Nth(S, 1)
             b == Nth(S, N)
  <2> HIDE DEF N
  <2>1. 1 \in 1..N /\ N \in 1..N
    BY <1>3, <1>5
  <2>2. a \in S /\ b \in S
    BY <1>3, <2>1
  <2>3. \A i \in S : a <= i /\ i <= b
    <3> TAKE i \in S
    <3>1. PICK k \in 1..N : Nth(S, k) = i
      BY <1>3
    <3>2. i \in Nat /\ a \in Nat /\ b \in Nat
      BY <1>1, <2>2
    <3>3. k = 1 \/ a < i
      <4>1. k = 1 \/ 1 < k
        BY <1>3
      <4> QED BY <1>3, <2>1, <3>1, <4>1
    <3>4. k = N \/ i < b
      <4>1. k = N \/ k < N
        BY <1>3
      <4> QED BY <1>3, <2>1, <3>1, <4>1
    <3> QED BY <3>1, <3>2, <3>3, <3>4
  <2> HIDE DEF a, b
  <2>4. FirstNewline(R) \in S
    BY <2>2, <2>3 DEF FirstNewline, S
  <2>5. LastNewline(R) \in S /\ \A i \in S : LastNewline(R) >= i
    <3>1. \A i \in S : b >= i
      BY <1>1, <2>2, <2>3
    <3>2. LastNewline(R) = CHOOSE i \in S : \A j \in S : i >= j
      BY <1>5 DEF LastNewline, S
    <3> QED BY <2>2, <3>1, <3>2
  <2> QED BY <1>1, <2>4, <2>5 DEF S
<1> QED BY <1>4, <1>5

\* What the safety limit drops: all or nothing of the buffer, or up to a newline.
LEMMA Dropped ==
  ASSUME NEW R \in Seq(Byte)
  PROVE  \/ ToDrop(R) = 0 /\ Len(R) <= LineLimit
         \/ ToDrop(R) \in 1..Len(R) /\ R[ToDrop(R)].newline
         \/ ToDrop(R) = Len(R)
<1>1. Len(R) \in Nat /\ LineLimit \in Nat
  BY LineAssumption
<1>2. CASE Len(R) <= LineLimit
  <2>1. ToDrop(R) = 0
    BY <1>1, <1>2 DEF ToDrop
  <2> QED BY <1>2, <2>1
<1>3. CASE Len(R) > LineLimit /\ Newlines(R) # {}
  <2>1. ToDrop(R) = FirstNewline(R)
    BY <1>1, <1>3 DEF ToDrop
  <2>2. FirstNewline(R) \in 1..Len(R) /\ R[FirstNewline(R)].newline
    BY <1>3, Newline DEF Newlines
  <2> QED BY <2>1, <2>2
<1>4. CASE Len(R) > LineLimit /\ Newlines(R) = {}
  <2>1. ToDrop(R) = Len(R)
    BY <1>1, <1>4 DEF ToDrop
  <2> QED BY <2>1
<1> QED BY <1>1, <1>2, <1>3, <1>4

\* What is left of a sequence without its first k, and its first k.
LEMMA Suffix ==
  ASSUME NEW S \in Seq(Byte), NEW k \in 0..Len(S)
  PROVE  /\ SubSeq(S, k + 1, Len(S)) \in Seq(Byte) /\ Len(SubSeq(S, k + 1, Len(S))) = Len(S) - k
         /\ \A i \in 1..(Len(S) - k) : SubSeq(S, k + 1, Len(S))[i] = S[i + k]
<1>1. Len(S) \in Nat /\ k \in Nat
  OBVIOUS
<1> QED BY <1>1

LEMMA Prefix ==
  ASSUME NEW S \in Seq(Byte), NEW k \in 0..Len(S)
  PROVE  /\ SubSeq(S, 1, k) \in Seq(Byte) /\ Len(SubSeq(S, 1, k)) = k
         /\ \A i \in 1..k : SubSeq(S, 1, k)[i] = S[i]
<1>1. Len(S) \in Nat /\ k \in Nat
  OBVIOUS
<1> QED BY <1>1

\* The buffers of one poll: n bytes of S are read behind the buffer B, d are dropped
\* and l are in complete lines.
Polled(B, S, n, d, l, T, R, K, W, U) ==
  /\ T = B \o S /\ R = B \o SubSeq(S, 1, n) /\ K = SubSeq(R, d + 1, Len(R))
  /\ W = SubSeq(K, l + 1, Len(K)) /\ U = W \o SubSeq(S, n + 1, Len(S))

LEMMA PollParts ==
  ASSUME NEW B \in Seq(Byte), NEW S \in Seq(Byte), NEW n \in 1..Len(S),
         NEW d \in 0..(Len(B) + n), NEW l \in 0..(Len(B) + n - d),
         NEW T, NEW R, NEW K, NEW W, NEW U, Polled(B, S, n, d, l, T, R, K, W, U)
  PROVE  /\ T \in Seq(Byte) /\ R \in Seq(Byte) /\ K \in Seq(Byte) /\ W \in Seq(Byte) /\ U \in Seq(Byte)
         /\ Len(R) = Len(B) + n /\ Len(R) <= Len(T) /\ \A i \in 1..Len(R) : R[i] = T[i]
         /\ Len(K) = Len(R) - d /\ \A i \in 1..Len(K) : K[i] = T[i + d]
         /\ Len(W) = Len(K) - l /\ \A i \in 1..Len(W) : W[i] = K[i + l]
         /\ Len(U) = Len(T) - (d + l) /\ \A i \in 1..Len(U) : U[i] = T[i + (d + l)]
<1> DEFINE X == SubSeq(S, 1, n)
           Y == SubSeq(S, n + 1, Len(S))
<1>1. /\ X \in Seq(Byte) /\ Len(X) = n /\ \A i \in 1..n : X[i] = S[i]
      /\ Y \in Seq(Byte) /\ Len(Y) = Len(S) - n /\ \A i \in 1..Len(Y) : Y[i] = S[i + n]
      /\ Len(S) \in Nat /\ Len(B) \in Nat /\ n \in Nat /\ n <= Len(S) /\ d \in Nat /\ l \in Nat
      /\ d <= Len(B) + n /\ l <= Len(B) + n - d
  <2>1. n \in 0..Len(S) /\ Len(S) \in Nat /\ Len(B) \in Nat /\ n \in Nat /\ n <= Len(S)
    OBVIOUS
  <2>2. X \in Seq(Byte) /\ Len(X) = n /\ \A i \in 1..n : X[i] = S[i]
    BY <2>1, Prefix
  <2>3. Y \in Seq(Byte) /\ Len(Y) = Len(S) - n /\ \A i \in 1..(Len(S) - n) : Y[i] = S[i + n]
    BY <2>1, Suffix
  <2>4. d \in Nat /\ l \in Nat /\ d <= Len(B) + n /\ l <= Len(B) + n - d
    BY <2>1
  <2> HIDE DEF X, Y
  <2> QED BY <2>1, <2>2, <2>3, <2>4
<1> HIDE DEF X, Y
<1>2. /\ R = B \o X /\ R \in Seq(Byte) /\ Len(R) = Len(B) + n
      /\ \A i \in 1..(Len(B) + n) : R[i] = IF i <= Len(B) THEN B[i] ELSE X[i - Len(B)]
  <2>1. R = B \o X
    BY DEF X, Polled
  <2> QED BY <1>1, <2>1, ConcatProperties
<1>3. /\ T \in Seq(Byte) /\ Len(T) = Len(B) + Len(S)
      /\ \A i \in 1..(Len(B) + Len(S)) : T[i] = IF i <= Len(B) THEN B[i] ELSE S[i - Len(B)]
  <2>1. T = B \o S
    BY DEF Polled
  <2> QED BY <2>1, ConcatProperties
<1>4. Len(R) <= Len(T) /\ \A i \in 1..Len(R) : R[i] = T[i]
  <2>1. Len(R) <= Len(T)
    BY <1>1, <1>2, <1>3
  <2>2. ASSUME NEW i \in 1..Len(R) PROVE R[i] = T[i]
    <3>1. i \in 1..(Len(B) + n) /\ i \in 1..(Len(B) + Len(S))
      BY <1>1, <1>2
    <3>2. CASE i <= Len(B)
      BY <1>2, <1>3, <3>1, <3>2
    <3>3. CASE ~(i <= Len(B))
      <4>1. i - Len(B) \in 1..n
        BY <1>1, <3>1, <3>3
      <4> QED BY <1>1, <1>2, <1>3, <3>1, <3>3, <4>1
    <3> QED BY <3>2, <3>3
  <2> QED BY <2>1, <2>2
<1>5. /\ K \in Seq(Byte) /\ Len(K) = Len(R) - d /\ \A i \in 1..Len(K) : K[i] = R[i + d]
  <2>1. K = SubSeq(R, d + 1, Len(R)) /\ d \in 0..Len(R)
    BY <1>1, <1>2 DEF Polled
  <2> QED BY <1>2, <2>1, Suffix
<1>6. \A i \in 1..Len(K) : K[i] = T[i + d]
  <2> TAKE i \in 1..Len(K)
  <2>1. Len(R) \in Nat /\ Len(K) = Len(R) - d /\ d \in Nat
    BY <1>1, <1>2, <1>5
  <2>2. i + d \in 1..Len(R)
    BY <2>1
  <2> QED BY <1>4, <1>5, <2>2
<1>7. /\ W \in Seq(Byte) /\ Len(W) = Len(K) - l /\ \A i \in 1..Len(W) : W[i] = K[i + l]
  <2>1. W = SubSeq(K, l + 1, Len(K))
    BY DEF Polled
  <2>2. Len(K) = Len(B) + n - d /\ l \in 0..Len(K)
    <3>1. Len(K) = Len(B) + n - d
      BY <1>2, <1>5
    <3> QED BY <1>1, <3>1
  <2> QED BY <1>5, <2>1, <2>2, Suffix
<1>8. /\ U = W \o Y /\ U \in Seq(Byte) /\ Len(U) = Len(W) + Len(Y)
      /\ \A i \in 1..(Len(W) + Len(Y)) : U[i] = IF i <= Len(W) THEN W[i] ELSE Y[i - Len(W)]
  <2>1. U = W \o Y
    BY DEF Y, Polled
  <2>2. W \in Seq(Byte) /\ Y \in Seq(Byte)
    BY <1>1, <1>7
  <2> QED BY <2>1, <2>2, ConcatProperties
<1>9. Len(U) = Len(T) - (d + l)
  BY <1>1, <1>2, <1>3, <1>5, <1>7, <1>8
<1>10. ASSUME NEW i \in 1..Len(U) PROVE U[i] = T[i + (d + l)]
  <2>1. i \in 1..(Len(W) + Len(Y)) /\ Len(W) = Len(B) + n - d - l
    BY <1>1, <1>2, <1>5, <1>7, <1>8
  <2>2. CASE i <= Len(W)
    <3>1. i \in 1..Len(W) /\ i + l \in 1..Len(K) /\ i + l + d = i + (d + l)
      BY <1>1, <1>2, <1>5, <1>7, <2>1, <2>2
    <3>2. W[i] = K[i + l] /\ K[i + l] = T[i + l + d]
      BY <1>6, <1>7, <3>1
    <3> QED BY <1>8, <2>1, <2>2, <3>1, <3>2
  <2>3. CASE ~(i <= Len(W))
    <3>1. /\ i - Len(W) \in 1..Len(Y) /\ i + (d + l) \in 1..(Len(B) + Len(S))
          /\ i - Len(W) + n = i + (d + l) - Len(B) /\ ~(i + (d + l) <= Len(B))
      BY <1>1, <1>8, <2>1, <2>3
    <3>2. U[i] = Y[i - Len(W)] /\ Y[i - Len(W)] = S[i - Len(W) + n]
      BY <1>1, <1>8, <2>1, <2>3, <3>1
    <3>3. T[i + (d + l)] = S[i + (d + l) - Len(B)]
      <4> DEFINE k == i + (d + l)
      <4>1. k \in 1..(Len(B) + Len(S)) /\ ~(k <= Len(B))
        BY <3>1
      <4> HIDE DEF k
      <4>2. T[k] = S[k - Len(B)]
        BY <1>3, <4>1
      <4> QED BY <4>2 DEF k
    <3> QED BY <3>1, <3>2, <3>3
  <2> QED BY <2>2, <2>3
<1> QED BY <1>2, <1>3, <1>4, <1>5, <1>6, <1>7, <1>8, <1>9, <1>10

\* Packets come from lines in the order of those lines.
TakenInOrder(K, w) ==
  \A a, b \in 1..Len(w) : a < b => \E e, f \in 1..Len(K) :
    e < f /\ Parses(K, e) /\ Parses(K, f) /\ w[a] = K[e].line /\ w[b] = K[f].line

\* The packets of a buffer are those of its complete packet lines, in order.
LEMMA Returned ==
  ASSUME NEW K \in Seq(Byte)
  PROVE  /\ WirePackets(K) \in Seq(Nat)
         /\ \A a \in 1..Len(WirePackets(K)) : \E e \in 1..Len(K) :
              Parses(K, e) /\ WirePackets(K)[a] = K[e].line
         /\ TakenInOrder(K, WirePackets(K))
         /\ \A e \in 1..Len(K) : Parses(K, e) =>
              \E a \in 1..Len(WirePackets(K)) : WirePackets(K)[a] = K[e].line
<1> DEFINE S == {i \in DOMAIN K : Parses(K, i)}
           N == Cardinality(S)
           w == [n \in 1..N |-> K[Nth(S, n)].line]
<1>1. S = {i \in 1..Len(K) : Parses(K, i)} /\ S \in SUBSET (1..Len(K)) /\ S \in SUBSET Nat
  OBVIOUS
<1>2. IsFiniteSet(S)
  <2>1. IsFiniteSet(1..Len(K))
    BY FS_Interval
  <2> QED BY <1>1, <2>1, FS_Subset
<1>3. WirePackets(K) = w
  BY DEF WirePackets
<1> HIDE DEF S
<1>4. /\ N \in Nat /\ \A n \in 1..N : Nth(S, n) \in S
      /\ \A m, n \in 1..N : m < n => Nth(S, m) < Nth(S, n)
      /\ \A i \in S : \E n \in 1..N : Nth(S, n) = i
  <2> HIDE DEF N
  <2>1. S \in SUBSET Nat /\ IsFiniteSet(S)
    BY <1>1, <1>2
  <2> QED BY <2>1, Enumerates DEF N
<1> HIDE DEF N
<1>5. w \in Seq(Nat) /\ Len(w) = N /\ \A n \in 1..N : w[n] = K[Nth(S, n)].line
  <2>1. \A n \in 1..N : K[Nth(S, n)].line \in Nat
    BY <1>1, <1>4, Bytes
  <2>2. w \in [1..N -> Nat]
    BY <2>1
  <2>3. w \in Seq(Nat) /\ Len(w) = N
    BY <1>4, <2>2
  <2> QED BY <2>3
<1> HIDE DEF w
<1>6. \A n \in 1..N : Nth(S, n) \in 1..Len(K) /\ Parses(K, Nth(S, n))
  BY <1>1, <1>4
<1>7. TakenInOrder(K, w)
  BY <1>4, <1>5, <1>6 DEF TakenInOrder
<1>8. \A e \in 1..Len(K) : Parses(K, e) => \E a \in 1..N : w[a] = K[e].line
  BY <1>1, <1>4, <1>5
<1>9. \A a \in 1..N : \E e \in 1..Len(K) : Parses(K, e) /\ w[a] = K[e].line
  BY <1>5, <1>6
<1> QED BY <1>3, <1>5, <1>7, <1>8, <1>9

\* A packet's line that parses is one of which the first byte is still in the buffer, ...
LEMMA ParsedWhole ==
  ASSUME NEW T \in Seq(Byte), NEW K \in Seq(Byte), NEW d \in Nat, NEW c, NEW P,
         StreamOK(T, c, P), d + Len(K) <= Len(T), \A i \in 1..Len(K) : K[i] = T[i + d],
         NEW e \in 1..Len(K), Parses(K, e)
  PROVE  K[e].newline /\ K[e].line \in P \ (c \cup LinesOf(T, d))
<1> USE LineAssumption
<1> DEFINE f == e - PacketLine + 1
           k == f + d
<1>1. /\ K[e].newline /\ K[e].packet /\ e >= PacketLine
      /\ K[f] = Line(K[e].line, PacketLine, TRUE)[1]
  BY DEF Parses
<1>2. f \in 1..Len(K) /\ e + d \in 1..Len(T) /\ k \in 1..Len(T) /\ k > d /\ PacketLine \in Nat \ {0}
  BY <1>1
<1>3. K[e] = T[e + d] /\ K[f] = T[k]
  BY <1>2
<1> HIDE DEF f, k
<1>4. T[k].line = K[e].line /\ T[k].place = 1
  <2> DEFINE q == [line |-> K[e].line, packet |-> TRUE, place |-> 1, newline |-> 1 = PacketLine]
  <2>1. 1 \in 1..PacketLine
    BY <1>2
  <2>2. Line(K[e].line, PacketLine, TRUE)[1] = q
    BY <2>1 DEF Line
  <2>3. q.line = K[e].line /\ q.place = 1
    OBVIOUS
  <2> HIDE DEF q
  <2> QED BY <1>1, <1>3, <2>2, <2>3
<1>5. Start(T, k) = k /\ k >= 1
  BY <1>2, <1>4 DEF Start
<1>6. T[k].line \notin c
  BY <1>2, <1>5 DEF StreamOK, Begun
<1>7. T[k].line \notin LinesOf(T, d)
  <2> SUFFICES ASSUME NEW x \in 1..d, T[x].line = T[k].line
               PROVE  FALSE
    BY DEF LinesOf
  <2>1. x \in 1..Len(T) /\ x < k
    BY <1>2
  <2>2. T[x].line \in Nat /\ Start(T, x) <= x /\ Start(T, x) \in Int
    BY <2>1, Bytes
  <2>3. Start(T, x) = k
    BY <1>2, <1>5, <2>1, <2>2 DEF StreamOK, Ordered
  <2> QED BY <1>2, <2>1, <2>2, <2>3
<1>8. T[e + d].line \in P
  BY <1>1, <1>2, <1>3 DEF StreamOK, Marked
<1> QED BY <1>1, <1>3, <1>4, <1>6, <1>7, <1>8

\* ... and a packet's line of which nothing was dropped parses.
LEMMA WholeParses ==
  ASSUME NEW T \in Seq(Byte), NEW K \in Seq(Byte), NEW d \in Nat, NEW c, NEW P,
         StreamOK(T, c, P), d + Len(K) <= Len(T), \A i \in 1..Len(K) : K[i] = T[i + d],
         NEW e \in 1..Len(K), K[e].newline, K[e].line \in P,
         K[e].line \notin c \cup LinesOf(T, d)
  PROVE  Parses(K, e)
<1> USE LineAssumption
<1> DEFINE j == e + d
           k == j - PacketLine + 1
           f == e - PacketLine + 1
<1>1. j \in 1..Len(T) /\ K[e] = T[j] /\ Len(T) \in Nat /\ Len(K) \in Nat
  OBVIOUS
<1> HIDE DEF j
<1>2. T[j].packet /\ T[j].place = PacketLine
  BY <1>1 DEF StreamOK, Marked
<1>3. Start(T, j) = k /\ k \in Int
  BY <1>1, <1>2 DEF Start
<1> HIDE DEF k
<1>4. k >= 1 /\ T[k].line = T[j].line
  BY <1>1, <1>3 DEF StreamOK, Begun
<1>5. k \in 1..Len(T) /\ k <= j
  BY <1>1, <1>4 DEF k
<1>6. ~(k <= d)
  <2> SUFFICES ASSUME k <= d PROVE FALSE
    OBVIOUS
  <2>1. k \in 1..d
    BY <1>5
  <2> QED BY <1>1, <1>4, <2>1 DEF LinesOf
<1>7. f \in 1..Len(K) /\ f + d = k /\ e >= PacketLine
  BY <1>1, <1>3, <1>6 DEF k, j
<1>8. K[f] = T[k]
  BY <1>7
<1>9. T[k].place = 1
  <2>1. Start(T, k) = k
    <3>1. CASE k = j
      BY <1>3, <3>1
    <3>2. CASE k # j
      <4>1. k < j
        BY <1>1, <1>5, <3>2
      <4>2. T[k].line \in Nat /\ T[j].line \in Nat
        BY <1>1, <1>5, Bytes
      <4> QED BY <1>1, <1>3, <1>4, <1>5, <4>1, <4>2 DEF StreamOK, Ordered
    <3> QED BY <3>1, <3>2
  <2>2. T[k].place \in Nat
    BY <1>5, Bytes
  <2> QED BY <1>3, <2>1, <2>2 DEF Start
<1>10. T[k].packet = TRUE /\ T[k].newline = (1 = PacketLine)
  <2>1. T[k].packet \in BOOLEAN /\ T[k].newline \in BOOLEAN
    BY <1>5, Bytes
  <2>2. T[k].packet
    BY <1>1, <1>4, <1>5 DEF StreamOK, Marked
  <2>3. T[k].newline <=> 1 = PacketLine
    <3>1. T[k].newline <=> T[k].place = PacketLine
      BY <1>5, <2>2 DEF StreamOK, Marked
    <3> QED BY <1>9, <3>1
  <2> QED BY <2>1, <2>2, <2>3
<1>11. Line(K[e].line, PacketLine, TRUE)[1] = K[f]
  <2> DEFINE q == [line |-> K[e].line, packet |-> TRUE, place |-> 1, newline |-> 1 = PacketLine]
  <2>1. 1 \in 1..PacketLine
    OBVIOUS
  <2>2. Line(K[e].line, PacketLine, TRUE)[1] = q
    BY <2>1 DEF Line
  <2>3. T[k] \in Byte
    BY <1>5
  <2>4. T[k] = [line |-> T[k].line, packet |-> T[k].packet, place |-> T[k].place, newline |-> T[k].newline]
    BY <2>3 DEF Byte
  <2>5. T[k].line = K[e].line
    BY <1>1, <1>4
  <2> QED BY <1>8, <1>9, <1>10, <2>2, <2>4, <2>5
<1>12. K[e].packet
  BY <1>1, <1>2
<1> QED BY <1>7, <1>11, <1>12 DEF Parses

LEMMA LinePolled ==
  ASSUME LineInv, PollStream PROVE LineInv'
<1> USE LineAssumption
<1>1. PICK n \in 1..(IF Len(serial) < LineLimit THEN Len(serial) ELSE LineLimit) :
        LET read == readBuf \o SubSeq(serial, 1, n)
            kept == SubSeq(read, ToDrop(read) + 1, Len(read)) IN
        /\ serial' = SubSeq(serial, n + 1, Len(serial))
        /\ readBuf' = Unfinished(kept)
        /\ handed' = handed \o WirePackets(kept)
        /\ cut' = cut \cup {read[i].line : i \in 1..ToDrop(read)}
  BY DEF PollStream
<1> DEFINE T == Stream
           B == readBuf
           R == B \o SubSeq(serial, 1, n)
           d == ToDrop(R)
           K == SubSeq(R, d + 1, Len(R))
           l == LastNewline(K)
           W == SubSeq(K, l + 1, Len(K))
           U == W \o SubSeq(serial, n + 1, Len(serial))
<1>2. /\ B \in Seq(Byte) /\ serial \in Seq(Byte) /\ n \in 1..Len(serial) /\ n <= LineLimit
      /\ Len(B) <= LineLimit /\ \A i \in 1..Len(B) : ~B[i].newline
  BY DEF LineInv, BufferOK
<1>3. R \in Seq(Byte) /\ Len(R) = Len(B) + n
  <2>1. n \in 0..Len(serial)
    BY <1>2
  <2>2. SubSeq(serial, 1, n) \in Seq(Byte) /\ Len(SubSeq(serial, 1, n)) = n
    BY <1>2, <2>1, Prefix
  <2> QED BY <1>2, <2>2, ConcatProperties
<1>4. /\ d \in 0..Len(R)
      /\ \/ d = 0 /\ Len(R) <= LineLimit
         \/ d \in 1..Len(R) /\ R[d].newline
         \/ d = Len(R)
  <2> HIDE DEF R
  <2>1. \/ d = 0 /\ Len(R) <= LineLimit
        \/ d \in 1..Len(R) /\ R[d].newline
        \/ d = Len(R)
    BY <1>3, Dropped
  <2> QED BY <1>3, <2>1
<1>5. K \in Seq(Byte) /\ Len(K) = Len(R) - d
  <2> HIDE DEF R, d
  <2> QED BY <1>3, <1>4, Suffix
<1>6. /\ l \in 0..Len(K) /\ (l > 0 => K[l].newline)
      /\ \A i \in 1..Len(K) : K[i].newline => i <= l
  <2> HIDE DEF K
  <2> QED BY <1>5, Newline
<1>7. readBuf' = W /\ serial' = SubSeq(serial, n + 1, Len(serial)) /\ Stream' = U
  <2>1. readBuf' = W /\ serial' = SubSeq(serial, n + 1, Len(serial))
    BY <1>1 DEF Unfinished
  <2> QED BY <2>1 DEF Stream
<1>8. handed' = handed \o WirePackets(K) /\ cut' = cut \cup {R[i].line : i \in 1..d}
  BY <1>1
<1>9. Polled(B, serial, n, d, l, T, R, K, W, U)
  BY DEF Polled, Stream
<1>10. lines' = lines /\ packets' = packets
  BY DEF PollStream
<1> HIDE DEF B, T, R, d, K, l, W, U
<1>11. /\ T \in Seq(Byte) /\ W \in Seq(Byte) /\ U \in Seq(Byte)
       /\ Len(R) <= Len(T) /\ \A i \in 1..Len(R) : R[i] = T[i]
       /\ \A i \in 1..Len(K) : K[i] = T[i + d]
       /\ Len(W) = Len(K) - l /\ \A i \in 1..Len(W) : W[i] = K[i + l]
       /\ Len(U) = Len(T) - (d + l) /\ \A i \in 1..Len(U) : U[i] = T[i + (d + l)]
  <2>1. d \in 0..(Len(B) + n) /\ l \in 0..(Len(B) + n - d)
    BY <1>3, <1>4, <1>5, <1>6
  <2> QED BY <1>2, <1>9, <2>1, PollParts
<1> DEFINE D == d + l
<1>12. /\ d \in Nat /\ l \in Nat /\ D \in Nat /\ d <= D /\ D <= Len(T) /\ Len(T) \in Nat /\ Len(U) \in Nat
       /\ Len(K) \in Nat /\ Len(R) \in Nat /\ Len(W) \in Nat /\ d + Len(K) <= Len(T) /\ l <= Len(K)
  <2>1. Len(R) \in Nat /\ Len(K) \in Nat /\ Len(T) \in Nat /\ Len(U) \in Nat /\ Len(W) \in Nat
    BY <1>3, <1>5, <1>11
  <2>2. d \in Nat /\ d <= Len(R) /\ Len(K) = Len(R) - d /\ Len(R) <= Len(T)
    BY <1>4, <1>5, <1>11, <2>1
  <2>3. l \in Nat /\ l <= Len(K)
    BY <1>6, <2>1
  <2>4. D \in Nat /\ d <= D
    BY <2>2, <2>3
  <2>5. d + Len(K) <= Len(T) /\ D <= Len(T)
    BY <2>1, <2>2, <2>3
  <2> QED BY <2>1, <2>2, <2>3, <2>4, <2>5
<1>13. Gone(T, U, d, D)
  <2>1. d < D => T[D].newline
    <3> SUFFICES ASSUME d < D PROVE T[D].newline
      OBVIOUS
    <3>1. l > 0 /\ l \in 1..Len(K) /\ l + d = D
      BY <1>12
    <3>2. K[l] = T[D]
      BY <1>11, <3>1
    <3> QED BY <1>6, <3>1, <3>2
  <2>2. Len(U) = Len(T) - D /\ \A i \in 1..Len(U) : U[i] = T[i + D]
    BY <1>11
  <2> QED BY <1>12, <2>1, <2>2 DEF Gone
<1> HIDE DEF D
<1>14. StreamOK(T, cut, packets)
  BY DEF LineInv, T
<1>15. cut' = cut \cup LinesOf(T, d)
  <2>1. \A i \in 1..d : R[i] = T[i]
    BY <1>4, <1>11, <1>12
  <2> QED BY <1>8, <2>1 DEF LinesOf
<1>16. StreamOK(Stream, cut, packets)'
  BY <1>7, <1>10, <1>11, <1>13, <1>14, <1>15, StreamLater
<1>17. BufferOK'
  <2>1. W \in Seq(Byte) /\ serial' \in Seq(Byte)
    <3>1. n \in 0..Len(serial)
      BY <1>2
    <3> QED BY <1>2, <1>7, <1>11, <3>1, Suffix
  <2>2. Len(W) <= LineLimit
    <3>1. CASE d = 0 /\ Len(R) <= LineLimit
      BY <1>5, <1>11, <1>12, <3>1
    <3>2. CASE d \in 1..Len(R) /\ R[d].newline
      <4>1. ~(d \in 1..Len(B))
        <5> SUFFICES ASSUME d \in 1..Len(B) PROVE FALSE
          OBVIOUS
        <5>1. SubSeq(serial, 1, n) \in Seq(Byte)
          <6>1. n \in 0..Len(serial)
            BY <1>2
          <6> QED BY <1>2, <6>1, Prefix
        <5>2. d \in 1..(Len(B) + Len(SubSeq(serial, 1, n))) /\ d <= Len(B)
          BY <1>2, <5>1
        <5>3. R[d] = B[d]
          BY <1>2, <5>1, <5>2, ConcatProperties DEF R
        <5> QED BY <1>2, <3>2, <5>3
      <4>2. Len(B) \in Nat /\ n \in Nat /\ LineLimit \in Nat
        BY <1>2
      <4> QED BY <1>2, <1>3, <1>5, <1>11, <1>12, <3>2, <4>1, <4>2
    <3>3. CASE d = Len(R)
      BY <1>5, <1>11, <1>12, <3>3
    <3> QED BY <1>4, <3>1, <3>2, <3>3
  <2>3. \A i \in 1..Len(W) : ~W[i].newline
    <3> TAKE i \in 1..Len(W)
    <3>1. i + l \in 1..Len(K) /\ ~(i + l <= l) /\ W[i] = K[i + l]
      BY <1>11, <1>12
    <3> QED BY <1>6, <3>1
  <2> QED BY <1>7, <2>1, <2>2, <2>3 DEF BufferOK
<1>18. Numbered'
  <2>1. lines \in 0..MaxLines /\ packets \subseteq 1..lines /\ cut \subseteq 1..lines
    BY DEF LineInv, Numbered
  <2>2. \A i \in 1..Len(T) : T[i].line \in 1..lines
    BY DEF LineInv, Numbered, T
  <2>3. LinesOf(T, d) \subseteq 1..lines
    <3>1. \A i \in 1..d : i \in 1..Len(T)
      BY <1>4, <1>11, <1>12
    <3> QED BY <2>2, <3>1 DEF LinesOf
  <2>4. \A i \in 1..Len(U) : U[i].line \in 1..lines
    <3> TAKE i \in 1..Len(U)
    <3>1. i + D \in 1..Len(T) /\ U[i] = T[i + D]
      BY <1>12, <1>13 DEF Gone
    <3> QED BY <2>2, <3>1
  <2> QED BY <1>7, <1>10, <1>15, <2>1, <2>3, <2>4 DEF Numbered
<1>19. HandedOK(Stream)'
  <2> DEFINE h == handed
             w == WirePackets(K)
  <2>1. /\ h \in Seq(Nat) /\ \A a, b \in 1..Len(h) : a < b => h[a] < h[b]
        /\ \A a \in 1..Len(h) : /\ h[a] \in packets \ cut
                                /\ \A i \in 1..Len(T) : h[a] < T[i].line
    BY DEF LineInv, HandedOK, T
  <2>2. w \in Seq(Nat)
    BY <1>5, Returned
  <2>16. \A a \in 1..Len(w) : \E e \in 1..Len(K) : Parses(K, e) /\ w[a] = K[e].line
    BY <1>5, Returned
  <2>17. TakenInOrder(K, w)
    BY <1>5, Returned
  <2> HIDE DEF h, w
  <2>3. /\ h \o w \in Seq(Nat) /\ Len(h \o w) = Len(h) + Len(w)
        /\ \A a \in 1..(Len(h) + Len(w)) : (h \o w)[a] = IF a <= Len(h) THEN h[a] ELSE w[a - Len(h)]
    BY <2>1, <2>2, ConcatProperties
  <2>4. \A e \in 1..Len(K) : Parses(K, e) =>
          /\ e + d \in 1..Len(T) /\ K[e] = T[e + d] /\ T[e + d].newline /\ e + d <= D
          /\ K[e].line \in packets \ cut'
    <3> SUFFICES ASSUME NEW e \in 1..Len(K), Parses(K, e)
                 PROVE  /\ e + d \in 1..Len(T) /\ K[e] = T[e + d] /\ T[e + d].newline /\ e + d <= D
                        /\ K[e].line \in packets \ cut'
      OBVIOUS
    <3>1. K[e].newline /\ K[e].line \in packets \ cut'
      BY <1>5, <1>11, <1>12, <1>14, <1>15, ParsedWhole
    <3>2. e <= l
      BY <1>6, <3>1
    <3>3. e + d \in 1..Len(T) /\ e + d <= D
      BY <1>12, <3>2 DEF D
    <3> QED BY <1>11, <3>1, <3>3
  <2>5. \A a \in 1..Len(h) : h[a] \in packets \ cut'
    <3> TAKE a \in 1..Len(h)
    <3>1. h[a] \in packets \ cut /\ h[a] \in Nat
      BY <2>1
    <3>2. h[a] \notin LinesOf(T, d)
      <4> SUFFICES ASSUME NEW x \in 1..d, T[x].line = h[a] PROVE FALSE
        BY DEF LinesOf
      <4>1. x \in 1..Len(T)
        BY <1>4, <1>11, <1>12
      <4>2. h[a] < T[x].line
        BY <2>1, <4>1
      <4> QED BY <3>1, <4>2
    <3> QED BY <1>15, <3>1, <3>2
  <2>6. \A a \in 1..Len(w) : w[a] \in packets \ cut'
    BY <2>4, <2>16
  <2>7. \A a \in 1..Len(h), b \in 1..Len(w) : h[a] < w[b]
    <3> TAKE a \in 1..Len(h), b \in 1..Len(w)
    <3>1. PICK e \in 1..Len(K) : Parses(K, e) /\ w[b] = K[e].line
      BY <2>16
    <3>2. e + d \in 1..Len(T) /\ w[b] = T[e + d].line
      BY <2>4, <3>1
    <3> QED BY <2>1, <3>2
  <2>8. \A a, b \in 1..Len(w) : a < b => w[a] < w[b]
    <3> SUFFICES ASSUME NEW a \in 1..Len(w), NEW b \in 1..Len(w), a < b PROVE w[a] < w[b]
      OBVIOUS
    <3>1. PICK e \in 1..Len(K), f \in 1..Len(K) :
            e < f /\ Parses(K, e) /\ Parses(K, f) /\ w[a] = K[e].line /\ w[b] = K[f].line
      BY <2>17 DEF TakenInOrder
    <3>2. e + d < f + d
      BY <1>12, <3>1
    <3>3. e + d \in 1..Len(T) /\ f + d \in 1..Len(T) /\ K[e] = T[e + d] /\ K[f] = T[f + d] /\ T[e + d].newline
      BY <2>4, <3>1
    <3>4. T[e + d].line < T[f + d].line
      BY <1>14, <3>2, <3>3 DEF StreamOK, Ordered
    <3> QED BY <3>1, <3>3, <3>4
  <2>9. \A i \in 1..Len(U) : i + D \in 1..Len(T) /\ U[i] = T[i + D] /\ i + D > D
    BY <1>12, <1>13 DEF Gone
  <2>10. \A a \in 1..Len(w), i \in 1..Len(U) : w[a] < U[i].line
    <3> TAKE a \in 1..Len(w), i \in 1..Len(U)
    <3>1. PICK e \in 1..Len(K) : Parses(K, e) /\ w[a] = K[e].line
      BY <2>16
    <3>2. /\ e + d \in 1..Len(T) /\ e + d <= D /\ T[e + d].newline /\ w[a] = T[e + d].line
          /\ i + D \in 1..Len(T) /\ i + D > D /\ U[i] = T[i + D]
      BY <2>4, <2>9, <3>1
    <3>3. e + d < i + D
      BY <1>12, <3>2
    <3>4. T[e + d].line < T[i + D].line
      BY <1>14, <3>2, <3>3 DEF StreamOK, Ordered
    <3> QED BY <3>2, <3>4
  <2>11. \A a \in 1..Len(h), i \in 1..Len(U) : h[a] < U[i].line
    BY <2>1, <2>9
  <2> DEFINE g == h \o w
  <2>12. /\ g \in Seq(Nat) /\ Len(h) \in Nat /\ Len(w) \in Nat
         /\ \A a \in 1..Len(g) : \/ a \in 1..Len(h) /\ g[a] = h[a]
                                 \/ a > Len(h) /\ a - Len(h) \in 1..Len(w) /\ g[a] = w[a - Len(h)]
    <3>1. Len(h) \in Nat /\ Len(w) \in Nat
      BY <2>1, <2>2
    <3> QED BY <2>3, <3>1
  <2> HIDE DEF g
  <2>13. \A a, b \in 1..Len(g) : a < b => g[a] < g[b]
    <3> SUFFICES ASSUME NEW a \in 1..Len(g), NEW b \in 1..Len(g), a < b PROVE g[a] < g[b]
      OBVIOUS
    <3>1. CASE b \in 1..Len(h) /\ g[b] = h[b]
      <4>1. a \in 1..Len(h) /\ ~(a > Len(h))
        BY <2>12, <3>1
      <4>2. g[a] = h[a]
        BY <2>12, <4>1
      <4> QED BY <2>1, <3>1, <4>1, <4>2
    <3>2. CASE b > Len(h) /\ b - Len(h) \in 1..Len(w) /\ g[b] = w[b - Len(h)]
      <4>1. CASE a \in 1..Len(h) /\ g[a] = h[a]
        BY <2>7, <3>2, <4>1
      <4>2. CASE a > Len(h) /\ a - Len(h) \in 1..Len(w) /\ g[a] = w[a - Len(h)]
        <5>1. a - Len(h) < b - Len(h)
          BY <2>12
        <5> QED BY <2>8, <3>2, <4>2, <5>1
      <4> QED BY <2>12, <4>1, <4>2
    <3> QED BY <2>12, <3>1, <3>2
  <2>14. \A a \in 1..Len(g) : g[a] \in packets \ cut' /\ \A i \in 1..Len(U) : g[a] < U[i].line
    BY <2>5, <2>6, <2>10, <2>11, <2>12
  <2>15. handed' = g
    BY <1>8 DEF g, h, w
  <2> QED BY <1>7, <1>10, <2>12, <2>13, <2>14, <2>15 DEF HandedOK
<1>20. AllThere(Stream)'
  <2> DEFINE h == handed
             w == WirePackets(K)
  <2>1. /\ h \in Seq(Nat) /\ w \in Seq(Nat)
        /\ \A e \in 1..Len(K) : Parses(K, e) => \E a \in 1..Len(w) : w[a] = K[e].line
    BY <1>5, Returned DEF LineInv, HandedOK
  <2>2. AllThere(T)
    BY DEF LineInv, T
  <2>3. \A p : (\E a \in 1..Len(h) : h[a] = p) => \E a \in 1..Len(handed') : handed'[a] = p
    <3> HIDE DEF w
    <3> SUFFICES ASSUME NEW p, NEW a \in 1..Len(h), h[a] = p
                 PROVE  \E x \in 1..Len(handed') : handed'[x] = p
      OBVIOUS
    <3>1. handed' = h \o w
      BY <1>8 DEF w
    <3>2. a \in 1..Len(h \o w) /\ (h \o w)[a] = h[a]
      BY <2>1
    <3> QED BY <3>1, <3>2
  <2>4. \A p : (\E a \in 1..Len(w) : w[a] = p) => \E a \in 1..Len(handed') : handed'[a] = p
    <3> SUFFICES ASSUME NEW p, NEW a \in 1..Len(w), w[a] = p
                 PROVE  \E x \in 1..Len(handed') : handed'[x] = p
      OBVIOUS
    <3>1. handed' = h \o w
      BY <1>8
    <3> HIDE DEF h, w
    <3>2. Len(h) + a \in 1..Len(h \o w) /\ (h \o w)[Len(h) + a] = w[a]
      BY <2>1
    <3> QED BY <3>1, <3>2
  <2> HIDE DEF h, w
  <2> SUFFICES ASSUME NEW p \in packets, p \notin cut'
               PROVE  \/ \E i \in 1..Len(U) : U[i].line = p
                      \/ \E a \in 1..Len(handed') : handed'[a] = p
    BY <1>7, <1>10 DEF AllThere
  <2>5. CASE \E a \in 1..Len(h) : h[a] = p
    BY <2>3, <2>5
  <2>6. CASE \E i \in 1..Len(T) : T[i].line = p
    <3>1. PICK i \in 1..Len(T) : T[i].line = p
      BY <2>6
    <3>2. ~(i <= d)
      <4> SUFFICES ASSUME i <= d PROVE FALSE
        OBVIOUS
      <4>1. i \in 1..d
        BY <1>12
      <4>2. p \in LinesOf(T, d)
        BY <3>1, <4>1 DEF LinesOf
      <4> QED BY <1>15, <4>2
    <3>3. PICK j \in i..Len(T) : T[j].line = T[i].line /\ T[j].newline
      BY <1>14, <3>1 DEF StreamOK, Ended
    <3>4. j \in 1..Len(T) /\ j > d
      BY <1>12, <3>1, <3>2
    <3>5. CASE j > D
      <4>1. j - D \in 1..Len(U) /\ (j - D) + D = j
        <5>1. Len(U) = Len(T) - D
          BY <1>13 DEF Gone
        <5>2. j \in Nat /\ j <= Len(T) /\ D \in Nat /\ Len(T) \in Nat
          BY <1>12, <3>4
        <5> QED BY <3>5, <5>1, <5>2
      <4>2. U[j - D] = T[j]
        BY <1>13, <4>1 DEF Gone
      <4> QED BY <3>1, <3>3, <4>1, <4>2
    <3>6. CASE j <= D
      <4> DEFINE e == j - d
      <4>1. e \in 1..Len(K) /\ e + d = j
        BY <1>12, <3>4, <3>6 DEF D
      <4> HIDE DEF e
      <4>2. K[e] = T[j]
        BY <1>11, <4>1
      <4>3. K[e].newline /\ K[e].line \in packets /\ K[e].line = p
        BY <3>1, <3>3, <4>2
      <4>4. Parses(K, e)
        <5>1. K[e].line \notin cut \cup LinesOf(T, d)
          BY <1>15, <4>3
        <5> QED BY <1>5, <1>11, <1>12, <1>14, <4>1, <4>3, <5>1, WholeParses
      <4> QED BY <2>1, <2>4, <4>1, <4>3, <4>4
    <3> QED BY <1>12, <3>4, <3>5, <3>6
  <2>7. p \notin cut
    BY <1>15
  <2> QED BY <2>2, <2>5, <2>6, <2>7 DEF AllThere, h
<1> QED BY <1>16, <1>17, <1>18, <1>19, <1>20 DEF LineInv

LEMMA LineInvariant ==
  LineInit /\ [][LineNext]_lineVars => []LineInv
<1>1. LineInv /\ UNCHANGED lineVars => LineInv'
  <2> SUFFICES ASSUME LineInv, UNCHANGED lineVars PROVE LineInv'
    OBVIOUS
  <2>1. /\ serial' = serial /\ readBuf' = readBuf /\ lines' = lines /\ packets' = packets
        /\ handed' = handed /\ cut' = cut /\ Stream' = Stream
    BY DEF lineVars, Stream
  <2>2. BufferOK' /\ Numbered'
    BY <2>1 DEF LineInv, BufferOK, Numbered
  <2>3. StreamOK(Stream, cut, packets)'
    BY <2>1 DEF LineInv
  <2>4. HandedOK(Stream)' /\ AllThere(Stream)'
    BY <2>1 DEF LineInv, HandedOK, AllThere
  <2> QED BY <2>2, <2>3, <2>4 DEF LineInv
<1>2. LineInv /\ [LineNext]_lineVars => LineInv'
  BY <1>1, LinePrinted, LinePolled DEF LineNext, LineQuiet
<1> QED BY <1>2, LineStart, PTL

\* The daemon's line buffer stays within its limit between two polls, without a
\* newline and with the beginning of one line at most.
LEMMA InvLineType ==
  ASSUME LineInv PROVE LineTypeOK
<1> DEFINE T == Stream
<1>1. /\ readBuf \in Seq(Byte) /\ serial \in Seq(Byte) /\ Len(readBuf) <= LineLimit
      /\ \A i \in 1..Len(readBuf) : ~readBuf[i].newline
  BY DEF LineInv, BufferOK
<1>2. /\ T \in Seq(Byte) /\ Len(T) = Len(readBuf) + Len(serial)
      /\ \A i \in 1..Len(readBuf) : i \in 1..Len(T) /\ T[i] = readBuf[i]
  BY <1>1 DEF Stream
<1>3. Newlines(readBuf) = {}
  BY <1>1 DEF Newlines
<1>4. ASSUME NEW i \in 1..Len(readBuf) PROVE readBuf[i].line = readBuf[1].line
  <2> HIDE DEF T
  <2>1. 1 \in 1..Len(readBuf) /\ Len(readBuf) \in Nat /\ Len(T) \in Nat
    BY <1>1, <1>2
  <2>2. PICK j \in 1..Len(T) : T[j].line = T[1].line /\ T[j].newline
    <3>1. 1 \in 1..Len(T)
      BY <1>2, <2>1
    <3> QED BY <3>1 DEF LineInv, StreamOK, Ended, T
  <2>3. ~(j \in 1..Len(readBuf))
    BY <1>1, <1>2, <2>2
  <2>4. 1 <= i /\ i < j /\ i \in 1..Len(T)
    BY <1>2, <2>1, <2>2, <2>3
  <2>5. T[1].line \in Nat /\ T[i].line \in Nat /\ T[j].line \in Nat
    BY <1>2, <2>1, <2>2, <2>4, Bytes
  <2>6. Ordered(T)
    BY DEF LineInv, StreamOK, T
  <2>7. T[i].line <= T[j].line
    BY <2>2, <2>4, <2>5, <2>6 DEF Ordered
  <2>8. T[1].line <= T[i].line
    <3>1. CASE i = 1
      BY <2>5, <3>1
    <3>2. CASE i # 1
      <4>1. 1 < i /\ 1 \in 1..Len(T)
        BY <1>2, <2>1, <2>4, <3>2
      <4> QED BY <2>4, <2>5, <2>6, <4>1 DEF Ordered
    <3> QED BY <3>1, <3>2
  <2>9. T[i].line = T[1].line
    BY <2>2, <2>5, <2>7, <2>8
  <2> QED BY <1>2, <2>1, <2>9
<1>5. DOMAIN readBuf = 1..Len(readBuf)
  BY <1>1
<1> QED BY <1>1, <1>3, <1>4, <1>5 DEF LineTypeOK, LineInv, Numbered

LEMMA InvPacketsReturned ==
  ASSUME LineInv PROVE PacketsReturned
<1>1. /\ readBuf \in Seq(Byte) /\ serial \in Seq(Byte) /\ handed \in Seq(Nat)
      /\ DOMAIN readBuf = 1..Len(readBuf) /\ DOMAIN serial = 1..Len(serial)
      /\ DOMAIN handed = 1..Len(handed)
  BY DEF LineInv, BufferOK, HandedOK
<1>2. \A i, j \in DOMAIN handed : i < j => handed[i] < handed[j]
  BY <1>1 DEF LineInv, HandedOK
<1>3. \A i \in DOMAIN handed : handed[i] \in packets \ cut
  BY <1>1 DEF LineInv, HandedOK
<1>4. \A i \in 1..Len(Stream) : Stream[i].line \in InTransit
  <2> TAKE i \in 1..Len(Stream)
  <2>1. CASE i <= Len(readBuf)
    <3>1. i \in DOMAIN readBuf /\ Stream[i] = readBuf[i]
      BY <1>1, <2>1 DEF Stream
    <3> QED BY <3>1 DEF InTransit
  <2>2. CASE ~(i <= Len(readBuf))
    <3>1. i - Len(readBuf) \in DOMAIN serial /\ Stream[i] = serial[i - Len(readBuf)]
      BY <1>1, <2>2 DEF Stream
    <3> QED BY <3>1 DEF InTransit
  <2> QED BY <2>1, <2>2
<1>5. ASSUME NEW p \in packets
      PROVE  p \in InTransit \cup cut \/ \E i \in DOMAIN handed : handed[i] = p
  <2>1. \/ p \in cut \/ (\E i \in 1..Len(Stream) : Stream[i].line = p)
        \/ \E a \in 1..Len(handed) : handed[a] = p
    BY DEF LineInv, AllThere
  <2> QED BY <1>1, <1>4, <2>1
<1> QED BY <1>2, <1>3, <1>5 DEF PacketsReturned

\* What poll_stream returns (transport.rs:83-120): the packets in the order they were
\* printed, none twice and none of a line the safety limit has cut; and no packet's line
\* that has been read is neither returned nor cut.  For every limit, every length of
\* line and every partition of the stream into reads.
THEOREM PacketsInOrder ==
  LineInit /\ [][LineNext]_lineVars => [](PacketsReturned /\ LineTypeOK)
<1>1. LineInv => PacketsReturned /\ LineTypeOK
  BY InvLineType, InvPacketsReturned
<1> QED BY <1>1, LineInvariant, PTL

-----------------------------------------------------------------------------
(* Frames to the dongle *)

Values == {"AA", "55", "72", "tag", "other"}
WireByte == [value : Values, frame : Nat, place : Nat]
FrameLen == 3 + PacketLen

\* The bytes of a frame that are still to come, and the place of the next one.
RestOf(c) ==
  /\ Len(wire) <= FrameLen
  /\ \A i \in 1..Len(wire) : wire[i] = Framed(frames, c)[FrameLen - Len(wire) + i]
Place == FrameLen - Len(wire) + 1
ValueAt(c, i) == Framed(frames, c)[i].value

\* Frames are received one after the other, so a tag tells which one is meant: ...
Begins(packet) == packet # <<>> /\ packet[1].place = 4
ByteOK(b) == (b.value = "tag" <=> b.place = 4) /\ b.frame <= frames
PacketsOK ==
  /\ pktBuf \in Seq(WireByte) /\ \A i \in 1..Len(pktBuf) : ByteOK(pktBuf[i])
  /\ accepted \in Seq([1..PacketLen -> WireByte])
  /\ \A i \in 1..Len(accepted) : accepted[i][1].place = 4

\* ... a packet that starts with a tag has all the bytes behind it, or its frame has
\* lost one of them; ...
Continues(b, w) ==
  LET f == b[1].frame IN
  \/ /\ f = frames /\ Len(b) + w = PacketLen
     /\ \A i \in 1..Len(b) : b[i].frame = f /\ b[i].place = 3 + i
  \/ f \in holed /\ (f = frames => Len(b) + w < PacketLen)
FromTag == Begins(pktBuf) => Continues(pktBuf, Len(wire))

\* ... and no frame is accepted twice.
TagGone(f, n, w) == f < n \/ (f = n /\ w < PacketLen)
OnceEach ==
  /\ Begins(pktBuf) => TagGone(pktBuf[1].frame, frames, Len(wire))
  /\ \A i \in 1..Len(accepted) : /\ TagGone(accepted[i][1].frame, frames, Len(wire))
                                 /\ Begins(pktBuf) => accepted[i][1].frame < pktBuf[1].frame
  /\ \A i, j \in 1..Len(accepted) : i < j => accepted[i][1].frame < accepted[j][1].frame

\* Where the machine is while a frame comes that has lost nothing: in step with it, ...
InStep ==
  \/ Len(wire) = FrameLen /\ state \in {"Sync0", "Sync1", "Length"}
  \/ Len(wire) = FrameLen - 1 /\ state = "Sync1"
  \/ Len(wire) = FrameLen - 2 /\ state = "Length"
  \/ /\ Len(wire) \in 1..PacketLen /\ state = "Payload"
     /\ Len(pktBuf) = PacketLen - Len(wire)
     /\ \A i \in 1..Len(pktBuf) : pktBuf[i].frame = frames /\ pktBuf[i].place = 3 + i
\* ... taking its beginning for the end of an earlier packet, ...
Swallowing == state = "Payload" /\ Len(pktBuf) + Len(wire) >= PacketLen + 3
\* ... or looking for a header in the rest of it.
Scanning(c) ==
  /\ Place >= 2 /\ state # "Payload"
  /\ state = "Sync1" => Place >= 3 /\ ValueAt(c, Place - 1) = "AA"
  /\ state = "Length" => Place >= 4 /\ ValueAt(c, Place - 2) = "AA" /\ ValueAt(c, Place - 1) = "55"
Tracked ==
  wire # <<>> => \E c \in FrameData :
    /\ RestOf(c)
    /\ frames \notin holed => InStep \/ Swallowing \/ Scanning(c)
    /\ frames \notin holed /\ frames - 1 \notin holed => InStep
Received ==
  /\ wire = <<>> /\ frames \notin holed => state # "Payload"
  /\ \A f \in 1..MaxFrames : Sent(f) /\ f \notin holed /\ f - 1 \notin holed =>
       \E i \in 1..Len(accepted) : Whole(accepted[i], f)

FramerInv ==
  FramerTypeOK /\ wire \in Seq(WireByte) /\ PacketsOK /\ FromTag /\ OnceEach
Sourced == wire # <<>> => frames >= 1 /\ \E c \in FrameData : RestOf(c)
SyncInv == Tracked /\ Received

HeaderFree ==
  \A c \in FrameData : \A i \in 1..(DataLen - 2) : ~(c[i] = "AA" /\ c[i + 1] = "55" /\ c[i + 2] = "72")

LEMMA FrameLengths ==
  /\ PacketLen \in Nat /\ PacketLen >= 2 /\ PacketLen = 1 + DataLen /\ DataLen \in Nat \ {0}
  /\ FrameLen \in Nat /\ FrameLen = 3 + PacketLen /\ FrameLen = 4 + DataLen
BY FramerAssumption DEF PacketLen, FrameLen

\* The bytes of a frame: the header, the tag and what follows it.
LEMMA FrameBytes ==
  ASSUME NEW c \in FrameData, NEW f \in Nat
  PROVE  /\ Framed(f, c) \in Seq(WireByte) /\ Len(Framed(f, c)) = FrameLen
         /\ \A i \in 1..FrameLen : /\ Framed(f, c)[i].frame = f /\ Framed(f, c)[i].place = i
                                   /\ Framed(f, c)[i].value = "tag" <=> i = 4
         /\ Framed(f, c)[1].value = "AA" /\ Framed(f, c)[2].value = "55" /\ Framed(f, c)[3].value = "72"
         /\ \A i \in 5..FrameLen : Framed(f, c)[i].value = c[i - 4]
<1> DEFINE values == <<"AA", "55", "72", "tag">> \o c
           F == [i \in 1..FrameLen |-> [value |-> values[i], frame |-> f, place |-> i]]
<1>1. c \in Seq({"AA", "55", "72", "other"}) /\ Len(c) = DataLen
  BY FramerAssumption
<1>2. /\ values \in Seq(Values) /\ Len(values) = FrameLen
      /\ values[1] = "AA" /\ values[2] = "55" /\ values[3] = "72" /\ values[4] = "tag"
      /\ \A i \in 5..FrameLen : values[i] = c[i - 4]
  <2> DEFINE start == <<"AA", "55", "72", "tag">>
  <2>1. start \in Seq(Values) /\ Len(start) = 4 /\ start[1] = "AA" /\ start[2] = "55" /\ start[3] = "72" /\ start[4] = "tag"
    BY DEF Values
  <2>2. c \in Seq(Values)
    BY <1>1 DEF Values
  <2> HIDE DEF start
  <2>3. /\ start \o c \in Seq(Values) /\ Len(start \o c) = 4 + DataLen
        /\ \A i \in 1..(4 + DataLen) : (start \o c)[i] = IF i <= 4 THEN start[i] ELSE c[i - 4]
    <3>1. /\ start \o c \in Seq(Values) /\ Len(start \o c) = Len(start) + Len(c)
          /\ \A i \in 1..(Len(start) + Len(c)) :
               (start \o c)[i] = IF i <= Len(start) THEN start[i] ELSE c[i - Len(start)]
      BY <2>1, <2>2, ConcatProperties
    <3> QED BY <1>1, <2>1, <3>1
  <2>4. values = start \o c
    BY DEF start
  <2> HIDE DEF values
  <2>5. /\ \A i \in 1..FrameLen : values[i] = IF i <= 4 THEN start[i] ELSE c[i - 4]
        /\ values \in Seq(Values) /\ Len(values) = FrameLen
    BY <2>3, <2>4, FrameLengths
  <2>6. values[1] = "AA" /\ values[2] = "55" /\ values[3] = "72" /\ values[4] = "tag"
    BY <2>1, <2>5, FrameLengths
  <2>7. \A i \in 5..FrameLen : values[i] = c[i - 4]
    BY <2>5, FrameLengths
  <2> QED BY <2>5, <2>6, <2>7
<1>3. Framed(f, c) = F
  BY DEF Framed, FrameLen
<1> HIDE DEF values
<1>4. \A i \in 1..FrameLen : values[i] \in Values /\ (values[i] = "tag" <=> i = 4)
  <2> TAKE i \in 1..FrameLen
  <2>1. values[i] \in Values
    BY <1>2
  <2>2. CASE i \in 5..FrameLen
    <3>1. values[i] = c[i - 4] /\ i - 4 \in 1..Len(c)
      BY <1>1, <1>2, <2>2, FrameLengths
    <3>2. c[i - 4] \in {"AA", "55", "72", "other"}
      BY <1>1, <3>1
    <3>3. values[i] # "tag" /\ i # 4
      BY <2>2, <3>1, <3>2, FrameLengths
    <3> QED BY <2>1, <3>3
  <2>3. CASE i \in {1, 2, 3, 4}
    BY <1>2, <2>1, <2>3
  <2> QED BY <2>2, <2>3, FrameLengths
<1>5. \A i \in 1..FrameLen : F[i] \in WireByte
  BY <1>4 DEF WireByte
<1>6. F \in Seq(WireByte) /\ Len(F) = FrameLen
  <2>1. F \in [1..FrameLen -> WireByte]
    BY <1>5
  <2> QED BY <2>1, FrameLengths
<1>7. \A i \in 1..FrameLen : F[i].value = values[i] /\ F[i].frame = f /\ F[i].place = i
  OBVIOUS
<1> HIDE DEF F
<1>8. \A i \in 5..FrameLen : F[i].value = c[i - 4]
  BY <1>2, <1>7, FrameLengths
<1>9. F[1].value = "AA" /\ F[2].value = "55" /\ F[3].value = "72"
  BY <1>2, <1>7, FrameLengths
<1>10. \A i \in 1..FrameLen : F[i].value = "tag" <=> i = 4
  BY <1>4, <1>7
<1> QED BY <1>3, <1>6, <1>7, <1>8, <1>9, <1>10

\* The next byte of a frame, and what is left when it is gone.
LEMMA NextByte ==
  ASSUME wire \in Seq(WireByte), wire # <<>>, frames \in Nat, NEW c \in FrameData, RestOf(c)
  PROVE  /\ Head(wire) \in WireByte /\ Place \in 1..FrameLen
         /\ Head(wire).frame = frames /\ Head(wire).place = Place
         /\ Head(wire).value = ValueAt(c, Place)
         /\ Head(wire).value = "tag" <=> Place = 4
         /\ Tail(wire) \in Seq(WireByte) /\ Len(Tail(wire)) = Len(wire) - 1
         /\ Len(wire) \in 1..FrameLen
         /\ \A i \in 1..(Len(wire) - 1) : Tail(wire)[i] = Framed(frames, c)[FrameLen - (Len(wire) - 1) + i]
<1> DEFINE F == Framed(frames, c)
<1>1. Len(wire) \in 1..FrameLen /\ Len(wire) \in Nat
  BY FrameLengths DEF RestOf
<1>2. Place \in 1..FrameLen /\ Place = FrameLen - Len(wire) + 1
  BY <1>1, FrameLengths DEF Place
<1>3. Head(wire) = wire[1] /\ Head(wire) \in WireByte
  BY <1>1
<1>4. wire[1] = F[Place]
  BY <1>1, <1>2 DEF RestOf
<1>5. F[Place].frame = frames /\ F[Place].place = Place /\ (F[Place].value = "tag" <=> Place = 4)
  BY <1>2, FrameBytes
<1>6. /\ Tail(wire) \in Seq(WireByte) /\ Len(Tail(wire)) = Len(wire) - 1
      /\ \A i \in 1..(Len(wire) - 1) : Tail(wire)[i] = wire[i + 1]
  BY <1>1
<1>7. \A i \in 1..(Len(wire) - 1) : Tail(wire)[i] = F[FrameLen - (Len(wire) - 1) + i]
  <2> TAKE i \in 1..(Len(wire) - 1)
  <2>1. i + 1 \in 1..Len(wire) /\ FrameLen - Len(wire) + (i + 1) = FrameLen - (Len(wire) - 1) + i
    BY <1>1, FrameLengths
  <2>2. wire[i + 1] = F[FrameLen - Len(wire) + (i + 1)]
    BY <2>1 DEF RestOf
  <2> QED BY <1>6, <2>1, <2>2
<1> QED BY <1>1, <1>2, <1>3, <1>4, <1>5, <1>6, <1>7 DEF ValueAt

\* One byte has left the wire.
LEMMA ByteGone ==
  ASSUME FramerInv, Sourced, wire # <<>>, wire' = Tail(wire), frames' = frames
  PROVE  /\ wire' \in Seq(WireByte) /\ Len(wire') = Len(wire) - 1 /\ Len(wire) \in 1..FrameLen
         /\ Sourced' /\ frames >= 1
         /\ Head(wire) \in WireByte /\ Head(wire).frame = frames /\ Head(wire).place = Place
         /\ Head(wire).value = "tag" <=> Head(wire).place = 4
         /\ Place = 4 <=> Len(wire) = PacketLen
<1>1. frames \in Nat /\ wire \in Seq(WireByte)
  BY DEF FramerInv, FramerTypeOK
<1>2. PICK c \in FrameData : RestOf(c)
  BY DEF Sourced
<1>3. /\ Head(wire) \in WireByte /\ Place \in 1..FrameLen
      /\ Head(wire).frame = frames /\ Head(wire).place = Place
      /\ Head(wire).value = "tag" <=> Place = 4
      /\ Tail(wire) \in Seq(WireByte) /\ Len(Tail(wire)) = Len(wire) - 1
      /\ Len(wire) \in 1..FrameLen
      /\ \A i \in 1..(Len(wire) - 1) : Tail(wire)[i] = Framed(frames, c)[FrameLen - (Len(wire) - 1) + i]
  BY <1>1, <1>2, NextByte
<1>4. frames >= 1
  BY DEF Sourced
<1>5. RestOf(c)'
  <2>1. Len(wire') <= FrameLen /\ Len(wire') = Len(wire) - 1
    BY <1>3, FrameLengths
  <2>2. \A i \in 1..Len(wire') : wire'[i] = Framed(frames', c)[FrameLen - Len(wire') + i]
    BY <1>3, <2>1
  <2> QED BY <2>1, <2>2 DEF RestOf
<1>6. Sourced'
  BY <1>4, <1>5 DEF Sourced
<1>7. Place = 4 <=> Len(wire) = PacketLen
  <2>1. Place = FrameLen - Len(wire) + 1 /\ Len(wire) \in Nat
    BY <1>3, FrameLengths DEF Place
  <2> QED BY <2>1, FrameLengths
<1> QED BY <1>3, <1>4, <1>6, <1>7

LEMMA FramerStart ==
  ASSUME FramerInit PROVE FramerInv /\ Sourced
<1>1. wire = <<>> /\ frames = 0 /\ state = "Sync0" /\ pktBuf = <<>> /\ holed = {} /\ losses = 0 /\ accepted = <<>>
  BY DEF FramerInit
<1>2. FramerTypeOK
  BY <1>1, FrameLengths, FramerAssumption DEF FramerTypeOK
<1>3. PacketsOK /\ FromTag /\ OnceEach
  BY <1>1 DEF PacketsOK, FromTag, OnceEach, Begins
<1> QED BY <1>1, <1>2, <1>3 DEF FramerInv, Sourced

LEMMA FrameSent ==
  ASSUME FramerInv, Sourced, SendPacket PROVE (FramerInv /\ Sourced)'
<1>1. PICK c \in FrameData : wire' = Framed(frames + 1, c)
  BY DEF SendPacket
<1>2. /\ wire = <<>> /\ frames < MaxFrames /\ frames' = frames + 1 /\ state' = state /\ pktBuf' = pktBuf
      /\ holed' = holed /\ losses' = losses /\ accepted' = accepted
  BY DEF SendPacket
<1>3. frames \in 0..MaxFrames /\ frames \in Nat /\ MaxFrames \in Nat
  BY FramerAssumption DEF FramerInv, FramerTypeOK
<1>4. /\ wire' \in Seq(WireByte) /\ Len(wire') = FrameLen
  BY <1>1, <1>3, FrameBytes
<1>5. FramerTypeOK'
  BY <1>2, <1>3 DEF FramerInv, FramerTypeOK
<1>6. Sourced'
  <2>1. \A i \in 1..Len(wire') : wire'[i] = Framed(frames', c)[FrameLen - Len(wire') + i]
    BY <1>1, <1>2, <1>4, FrameLengths
  <2>2. Len(wire') <= FrameLen
    BY <1>4, FrameLengths
  <2>3. frames' >= 1
    BY <1>2, <1>3
  <2> QED BY <2>1, <2>2, <2>3 DEF Sourced, RestOf
<1>7. PacketsOK'
  <2>1. \A i \in 1..Len(pktBuf) : ByteOK(pktBuf[i])'
    <3> TAKE i \in 1..Len(pktBuf)
    <3>1. pktBuf[i] \in WireByte /\ ByteOK(pktBuf[i])
      BY DEF FramerInv, PacketsOK
    <3>2. pktBuf[i].frame \in Nat
      BY <3>1 DEF WireByte
    <3> QED BY <1>2, <1>3, <3>1, <3>2 DEF ByteOK
  <2> QED BY <1>2, <2>1 DEF FramerInv, PacketsOK
<1>8. ASSUME Begins(pktBuf) PROVE pktBuf[1].frame \in Nat /\ pktBuf[1].frame <= frames
  <2>1. 1 \in 1..Len(pktBuf) /\ pktBuf[1] \in WireByte
    BY <1>8 DEF FramerInv, PacketsOK, Begins
  <2>2. pktBuf[1].frame \in Nat
    BY <2>1 DEF WireByte
  <2> QED BY <2>1, <2>2 DEF FramerInv, PacketsOK, ByteOK
<1>9. FromTag'
  <2> SUFFICES ASSUME Begins(pktBuf) PROVE Continues(pktBuf, Len(wire))'
    BY <1>2 DEF FromTag, Begins
  <2>1. Len(wire) = 0 /\ Len(pktBuf) \in Nat /\ Len(pktBuf) < PacketLen
    BY <1>2 DEF FramerInv, FramerTypeOK, PacketsOK
  <2>2. pktBuf[1].frame \in holed
    BY <2>1, FrameLengths DEF FramerInv, FromTag, Continues
  <2>3. pktBuf[1].frame # frames'
    BY <1>2, <1>3, <1>8
  <2> QED BY <1>2, <2>2, <2>3 DEF Continues
<1>10. OnceEach'
  <2>1. \A f : f < frames \/ f = frames => (f \in Nat => f < frames + 1)
    BY <1>3
  <2>2. Begins(pktBuf) => TagGone(pktBuf[1].frame, frames', Len(wire'))
    BY <1>2, <1>3, <1>8 DEF TagGone
  <2>3. \A i \in 1..Len(accepted) : TagGone(accepted[i][1].frame, frames', Len(wire'))
    <3> TAKE i \in 1..Len(accepted)
    <3>1. accepted[i] \in [1..PacketLen -> WireByte]
      BY DEF FramerInv, PacketsOK
    <3>2. accepted[i][1] \in WireByte
      BY <3>1, FrameLengths
    <3>3. accepted[i][1].frame \in Nat
      BY <3>2 DEF WireByte
    <3>4. TagGone(accepted[i][1].frame, frames, Len(wire))
      BY DEF FramerInv, OnceEach
    <3> QED BY <1>2, <1>3, <3>3, <3>4 DEF TagGone
  <2> QED BY <1>2, <2>2, <2>3 DEF FramerInv, OnceEach, Begins
<1> QED BY <1>4, <1>5, <1>6, <1>7, <1>9, <1>10 DEF FramerInv

LEMMA FrameByteLost ==
  ASSUME FramerInv, Sourced, ByteLost PROVE (FramerInv /\ Sourced)'
<1>1. /\ wire # <<>> /\ losses < MaxLost /\ losses' = losses + 1 /\ holed' = holed \cup {Head(wire).frame}
      /\ wire' = Tail(wire) /\ frames' = frames /\ state' = state /\ pktBuf' = pktBuf /\ accepted' = accepted
  BY DEF ByteLost
<1>2. /\ wire' \in Seq(WireByte) /\ Len(wire') = Len(wire) - 1 /\ Len(wire) \in 1..FrameLen
      /\ Sourced' /\ frames >= 1 /\ Head(wire).frame = frames
  BY <1>1, ByteGone
<1>3. frames \in Nat /\ Len(wire) \in Nat /\ Len(pktBuf) \in Nat
  BY FrameLengths DEF FramerInv, FramerTypeOK, PacketsOK
<1>4. FramerTypeOK'
  <2>1. holed' \subseteq 1..frames /\ losses' \in 0..MaxLost
    <3>1. losses \in 0..MaxLost /\ holed \subseteq 1..frames /\ MaxLost \in Nat
      BY FramerAssumption DEF FramerInv, FramerTypeOK
    <3>2. losses' \in 0..MaxLost
      BY <1>1, <3>1
    <3>3. frames \in 1..frames
      BY <1>2, <1>3
    <3> QED BY <1>1, <1>2, <3>1, <3>2, <3>3
  <2> QED BY <1>1, <2>1 DEF FramerInv, FramerTypeOK
<1>5. PacketsOK'
  BY <1>1 DEF FramerInv, PacketsOK, ByteOK
<1>6. FromTag'
  <2> SUFFICES ASSUME Begins(pktBuf) PROVE Continues(pktBuf, Len(wire))'
    BY <1>1 DEF FromTag, Begins
  <2>1. Continues(pktBuf, Len(wire))
    BY DEF FramerInv, FromTag
  <2>2. CASE pktBuf[1].frame = frames /\ Len(pktBuf) + Len(wire) = PacketLen
    BY <1>1, <1>2, <1>3, <2>2, FrameLengths DEF Continues
  <2>3. CASE pktBuf[1].frame \in holed /\ (pktBuf[1].frame = frames => Len(pktBuf) + Len(wire) < PacketLen)
    BY <1>1, <1>2, <1>3, <2>3, FrameLengths DEF Continues
  <2> QED BY <2>1, <2>2, <2>3 DEF Continues
<1>7. OnceEach'
  <2>1. \A f : TagGone(f, frames, Len(wire)) => TagGone(f, frames', Len(wire'))
    BY <1>1, <1>2, <1>3, FrameLengths DEF TagGone
  <2> QED BY <1>1, <2>1 DEF FramerInv, OnceEach, Begins
<1> QED BY <1>2, <1>4, <1>5, <1>6, <1>7 DEF FramerInv

LEMMA FrameSynchronise ==
  ASSUME FramerInv, Sourced, Synchronise PROVE (FramerInv /\ Sourced)'
<1>1. /\ wire # <<>> /\ state # "Payload" /\ pktBuf' = <<>> /\ wire' = Tail(wire)
      /\ frames' = frames /\ holed' = holed /\ losses' = losses /\ accepted' = accepted
  BY DEF Synchronise
<1>2. /\ wire' \in Seq(WireByte) /\ Len(wire') = Len(wire) - 1 /\ Len(wire) \in 1..FrameLen /\ Sourced'
  BY <1>1, ByteGone
<1>3. frames \in Nat /\ Len(wire) \in Nat
  BY FrameLengths DEF FramerInv, FramerTypeOK
<1>4. state' \in {"Sync0", "Sync1", "Length", "Payload"}
  <2>1. state \in {"Sync0", "Sync1", "Length"}
    BY <1>1 DEF FramerInv, FramerTypeOK
  <2>2. state' = LET b == Head(wire).value IN
                 CASE state = "Sync0" -> AfterSync0(b)
                   [] state = "Sync1" -> AfterSync1(b)
                   [] state = "Length" -> AfterLength(b)
    BY DEF Synchronise
  <2>3. CASE state = "Sync0"
    BY <2>2, <2>3 DEF AfterSync0
  <2>4. CASE state = "Sync1"
    BY <2>2, <2>4 DEF AfterSync1
  <2>5. CASE state = "Length"
    BY <2>2, <2>5 DEF AfterLength
  <2> QED BY <2>1, <2>3, <2>4, <2>5
<1>5. FramerTypeOK'
  BY <1>1, <1>4, FrameLengths DEF FramerInv, FramerTypeOK
<1>6. PacketsOK' /\ FromTag'
  BY <1>1 DEF FramerInv, PacketsOK, FromTag, Begins
<1>7. OnceEach'
  <2>1. \A f : TagGone(f, frames, Len(wire)) => TagGone(f, frames', Len(wire'))
    BY <1>1, <1>2, <1>3, FrameLengths DEF TagGone
  <2> QED BY <1>1, <2>1 DEF FramerInv, OnceEach, Begins
<1> QED BY <1>2, <1>5, <1>6, <1>7 DEF FramerInv

\* The packet that the next byte makes of the buffer.
LEMMA NextPacket ==
  ASSUME FramerInv, Sourced, Payload, NEW packet, packet = Append(pktBuf, Head(wire))
  PROVE  /\ packet \in Seq(WireByte) /\ Len(packet) = Len(pktBuf) + 1 /\ Len(packet) <= PacketLen
         /\ \A i \in 1..Len(pktBuf) : packet[i] = pktBuf[i]
         /\ packet[Len(packet)] = Head(wire) /\ Head(wire).frame = frames
         /\ packet[1].value = "tag" <=> Begins(packet)
         /\ \A i \in 1..Len(packet) : ByteOK(packet[i])
         /\ Begins(packet) => /\ Continues(packet, Len(wire'))
                             /\ TagGone(packet[1].frame, frames', Len(wire'))
                             /\ \A i \in 1..Len(accepted) : accepted[i][1].frame < packet[1].frame
<1> DEFINE n == Len(pktBuf)
           w == Len(wire)
           b == Head(wire)
<1>1. wire # <<>> /\ wire' = Tail(wire) /\ frames' = frames
  BY DEF Payload
<1>2. /\ w \in 1..FrameLen /\ Len(wire') = w - 1 /\ b \in WireByte /\ b.frame = frames /\ b.place = Place
      /\ b.value = "tag" <=> b.place = 4
      /\ Place = 4 <=> w = PacketLen
  BY <1>1, ByteGone
<1>3. /\ pktBuf \in Seq(WireByte) /\ n \in Nat /\ n < PacketLen /\ frames \in Nat /\ w \in Nat
      /\ \A i \in 1..n : ByteOK(pktBuf[i])
  BY <1>2, FrameLengths DEF FramerInv, FramerTypeOK, PacketsOK
<1>4. Place = FrameLen - w + 1
  BY DEF Place
<1> HIDE DEF b
<1>5. /\ packet \in Seq(WireByte) /\ Len(packet) = n + 1 /\ packet[n + 1] = b
      /\ \A i \in 1..n : packet[i] = pktBuf[i]
  <2>1. packet = Append(pktBuf, b)
    BY DEF b
  <2> QED BY <1>2, <1>3, <2>1
<1> HIDE DEF n, w
<1>6. \A i \in 1..(n + 1) : ByteOK(packet[i])
  <2> TAKE i \in 1..(n + 1)
  <2>0. i \in 1..n \/ i = n + 1
    BY <1>3
  <2>1. CASE i \in 1..n
    BY <1>3, <1>5, <2>1
  <2>2. CASE i = n + 1
    <3>1. ByteOK(b)
      BY <1>2, <1>3 DEF ByteOK
    <3> QED BY <1>5, <2>2, <3>1
  <2> QED BY <2>0, <2>1, <2>2
<1>7. packet # <<>> /\ 1 \in 1..(n + 1)
  BY <1>3, <1>5
<1>8. packet[1].value = "tag" <=> Begins(packet)
  BY <1>6, <1>7 DEF ByteOK, Begins
<1>9. ASSUME Begins(packet)
      PROVE  /\ Continues(packet, w - 1) /\ TagGone(packet[1].frame, frames', Len(wire'))
             /\ \A i \in 1..Len(accepted) : accepted[i][1].frame < packet[1].frame
  <2>1. CASE n = 0
    <3>1. packet[1] = b /\ b.place = 4
      BY <1>5, <1>9, <2>1 DEF Begins
    <3>2. w = PacketLen /\ Len(packet) + (w - 1) = PacketLen
      BY <1>2, <1>3, <1>5, <2>1, <3>1, FrameLengths
    <3>3. \A i \in 1..Len(packet) : packet[i].frame = packet[1].frame /\ packet[i].place = 3 + i
      <4>1. \A i \in 1..Len(packet) : i = 1
        BY <1>5, <2>1
      <4> QED BY <3>1, <4>1
    <3>4. Continues(packet, w - 1)
      BY <1>2, <3>1, <3>2, <3>3 DEF Continues
    <3>5. TagGone(packet[1].frame, frames', Len(wire'))
      BY <1>1, <1>2, <3>1, <3>2, FrameLengths DEF TagGone
    <3>6. \A i \in 1..Len(accepted) : accepted[i][1].frame < packet[1].frame
      <4> TAKE i \in 1..Len(accepted)
      <4>1. TagGone(accepted[i][1].frame, frames, Len(wire))
        BY DEF FramerInv, OnceEach
      <4> QED BY <1>2, <3>1, <3>2, <4>1, FrameLengths DEF TagGone, w
    <3> QED BY <3>4, <3>5, <3>6
  <2>2. CASE n # 0
    <3>1. 1 \in 1..n /\ packet[1] = pktBuf[1] /\ Begins(pktBuf)
      <4>1. 1 \in 1..n /\ pktBuf # <<>>
        BY <1>3, <2>2 DEF n
      <4>2. packet[1] = pktBuf[1]
        BY <1>5, <4>1
      <4> QED BY <1>9, <4>1, <4>2 DEF Begins
    <3>2. Continues(pktBuf, w)
      BY <3>1 DEF FramerInv, FromTag, w
    <3>3. Len(packet) + (w - 1) = n + w
      BY <1>3, <1>5
    <3>4. Continues(packet, w - 1)
      <4>1. CASE /\ pktBuf[1].frame = frames /\ n + w = PacketLen
                 /\ \A i \in 1..n : pktBuf[i].frame = pktBuf[1].frame /\ pktBuf[i].place = 3 + i
        <5>1. b.place = 3 + (n + 1)
          <6>1. w = PacketLen - n
            BY <1>3, <4>1, FrameLengths
          <6> QED BY <1>2, <1>3, <1>4, <6>1, FrameLengths
        <5>2. \A i \in 1..Len(packet) : packet[i].frame = packet[1].frame /\ packet[i].place = 3 + i
          <6> TAKE i \in 1..Len(packet)
          <6>1. CASE i \in 1..n
            BY <1>5, <3>1, <4>1, <6>1
          <6>2. CASE i = n + 1
            BY <1>2, <1>5, <3>1, <4>1, <5>1, <6>2
          <6> QED BY <1>3, <1>5, <6>1, <6>2
        <5> QED BY <3>1, <3>3, <4>1, <5>2 DEF Continues
      <4>2. CASE pktBuf[1].frame \in holed /\ (pktBuf[1].frame = frames => n + w < PacketLen)
        BY <3>1, <3>3, <4>2 DEF Continues
      <4> QED BY <3>2, <4>1, <4>2 DEF Continues, n
    <3>5. TagGone(packet[1].frame, frames', Len(wire'))
      <4>1. TagGone(pktBuf[1].frame, frames, Len(wire))
        BY <3>1 DEF FramerInv, OnceEach
      <4> QED BY <1>1, <1>2, <3>1, <4>1, FrameLengths DEF TagGone, w
    <3>6. \A i \in 1..Len(accepted) : accepted[i][1].frame < packet[1].frame
      BY <3>1 DEF FramerInv, OnceEach
    <3> QED BY <3>4, <3>5, <3>6
  <2> QED BY <2>1, <2>2
<1>10. Len(packet) <= PacketLen
  BY <1>3, <1>5, FrameLengths
<1> QED BY <1>2, <1>5, <1>6, <1>8, <1>9, <1>10 DEF n, w, b

\* A complete packet that starts with a tag.
LEMMA FramePayload ==
  ASSUME FramerInv, Sourced, Payload
  PROVE  (FramerInv /\ Sourced)' /\ (DamageExplained => DamageExplained')
<1> DEFINE packet == Append(pktBuf, Head(wire))
           n == Len(pktBuf)
<1>1. /\ wire # <<>> /\ state = "Payload" /\ wire' = Tail(wire)
      /\ frames' = frames /\ holed' = holed /\ losses' = losses
  BY DEF Payload
<1>2. /\ wire' \in Seq(WireByte) /\ Len(wire') = Len(wire) - 1 /\ Len(wire) \in 1..FrameLen /\ Sourced'
  BY <1>1, ByteGone
<1>3. \/ Len(packet) < PacketLen /\ pktBuf' = packet /\ state' = state /\ accepted' = accepted
      \/ /\ ~(Len(packet) < PacketLen) /\ pktBuf' = <<>> /\ state' = "Sync0"
         /\ accepted' = IF ValidTag(packet) THEN Append(accepted, packet) ELSE accepted
  BY DEF Payload
<1> HIDE DEF packet
<1>4. /\ packet \in Seq(WireByte) /\ Len(packet) = n + 1 /\ Len(packet) <= PacketLen
      /\ \A i \in 1..n : packet[i] = pktBuf[i]
      /\ packet[Len(packet)] = Head(wire) /\ Head(wire).frame = frames
      /\ packet[1].value = "tag" <=> Begins(packet)
      /\ \A i \in 1..Len(packet) : ByteOK(packet[i])
      /\ Begins(packet) => /\ Continues(packet, Len(wire'))
                          /\ TagGone(packet[1].frame, frames', Len(wire'))
                          /\ \A i \in 1..Len(accepted) : accepted[i][1].frame < packet[1].frame
  BY NextPacket DEF packet
<1>5. /\ n \in Nat /\ n < PacketLen /\ frames \in Nat /\ accepted \in Seq([1..PacketLen -> WireByte])
      /\ Len(wire) \in Nat /\ FramerTypeOK
      /\ \A i \in 1..Len(accepted) : TagGone(accepted[i][1].frame, frames, Len(wire)) /\ accepted[i][1].place = 4
      /\ \A i, j \in 1..Len(accepted) : i < j => accepted[i][1].frame < accepted[j][1].frame
  BY <1>2, FrameLengths DEF FramerInv, FramerTypeOK, PacketsOK, OnceEach
<1>6. \A f : TagGone(f, frames, Len(wire)) => TagGone(f, frames', Len(wire'))
  BY <1>1, <1>2, <1>5, FrameLengths DEF TagGone
<1>7. \A b : ByteOK(b) => ByteOK(b)'
  BY <1>1 DEF ByteOK
<1>8. CASE Len(packet) < PacketLen /\ pktBuf' = packet /\ state' = state /\ accepted' = accepted
  <2>1. FramerTypeOK'
    BY <1>1, <1>5, <1>8 DEF FramerTypeOK
  <2>2. PacketsOK'
    BY <1>4, <1>5, <1>7, <1>8 DEF PacketsOK
  <2>3. FromTag'
    BY <1>1, <1>4, <1>8 DEF FromTag, Continues, Begins
  <2>4. OnceEach'
    BY <1>4, <1>5, <1>6, <1>8 DEF OnceEach, Begins
  <2>5. DamageExplained => DamageExplained'
    BY <1>1, <1>8 DEF DamageExplained, Whole
  <2> QED BY <1>2, <2>1, <2>2, <2>3, <2>4, <2>5 DEF FramerInv
<1>9. CASE /\ ~(Len(packet) < PacketLen) /\ pktBuf' = <<>> /\ state' = "Sync0"
           /\ accepted' = IF ValidTag(packet) THEN Append(accepted, packet) ELSE accepted
  <2>1. FramerTypeOK'
    BY <1>1, <1>5, <1>9, FrameLengths DEF FramerTypeOK
  <2>2. FromTag' /\ ~(Begins(pktBuf)')
    BY <1>9 DEF FromTag, Begins
  <2>3. CASE ~ValidTag(packet)
    <3>1. accepted' = accepted
      BY <1>9, <2>3
    <3>2. PacketsOK' /\ OnceEach'
      BY <1>5, <1>6, <1>9, <2>2, <3>1 DEF PacketsOK, OnceEach
    <3>3. DamageExplained => DamageExplained'
      BY <1>1, <3>1 DEF DamageExplained, Whole
    <3> QED BY <1>2, <2>1, <2>2, <3>2, <3>3 DEF FramerInv
  <2>4. CASE ValidTag(packet)
    <3> DEFINE m == Len(accepted)
    <3>1. accepted' = Append(accepted, packet) /\ Len(packet) = PacketLen /\ n + 1 = PacketLen
      BY <1>4, <1>5, <1>9, <2>4, FrameLengths
    <3>2. Begins(packet) /\ packet[1].place = 4
      BY <1>4, <2>4 DEF ValidTag, Begins
    <3>3. packet \in [1..PacketLen -> WireByte]
      BY <1>4, <3>1
    <3>4. /\ accepted' \in Seq([1..PacketLen -> WireByte]) /\ Len(accepted') = m + 1 /\ m \in Nat
          /\ accepted'[m + 1] = packet /\ \A i \in 1..m : accepted'[i] = accepted[i]
      BY <1>5, <3>1, <3>3
    <3> HIDE DEF m
    <3>5. \A i \in 1..(m + 1) : i \in 1..m \/ i = m + 1
      BY <3>4
    <3>6. PacketsOK'
      <4>1. \A i \in 1..(m + 1) : accepted'[i][1].place = 4
        <5> TAKE i \in 1..(m + 1)
        <5>1. CASE i \in 1..m
          BY <1>5, <3>4, <5>1 DEF m
        <5>2. CASE i = m + 1
          BY <3>2, <3>4, <5>2
        <5> QED BY <3>5, <5>1, <5>2
      <4> QED BY <1>9, <3>4, <4>1 DEF PacketsOK
    <3>7. OnceEach'
      <4>1. \A i \in 1..(m + 1) : TagGone(accepted'[i][1].frame, frames', Len(wire'))
        BY <1>4, <1>5, <1>6, <3>2, <3>4, <3>5 DEF m
      <4>2. ASSUME NEW i \in 1..(m + 1), NEW j \in 1..(m + 1), i < j
            PROVE  accepted'[i][1].frame < accepted'[j][1].frame
        <5>1. i \in 1..m
          BY <3>4, <4>2
        <5>2. CASE j \in 1..m
          BY <1>5, <3>4, <4>2, <5>1, <5>2 DEF m
        <5>3. CASE j = m + 1
          BY <1>4, <3>2, <3>4, <5>1, <5>3 DEF m
        <5> QED BY <3>5, <5>2, <5>3
      <4> QED BY <2>2, <3>4, <4>1, <4>2 DEF OnceEach
    <3>8. \/ Whole(packet, packet[1].frame)
          \/ packet[1].frame \in holed /\ packet[PacketLen].frame > packet[1].frame
      <4>1. Continues(packet, Len(wire'))
        BY <1>4, <3>2
      <4>2. CASE \A i \in 1..Len(packet) : packet[i].frame = packet[1].frame /\ packet[i].place = 3 + i
        BY <3>1, <4>2 DEF Whole
      <4>3. CASE packet[1].frame \in holed /\ (packet[1].frame = frames => Len(packet) + Len(wire') < PacketLen)
        <5>1. packet[1].frame # frames
          BY <1>2, <1>5, <3>1, <4>3, FrameLengths
        <5>2. 1 \in 1..Len(packet) /\ packet[1] \in WireByte /\ ByteOK(packet[1])
          BY <1>4, <3>1, FrameLengths
        <5>3. packet[1].frame \in Nat /\ packet[1].frame <= frames
          BY <5>2 DEF WireByte, ByteOK
        <5>4. packet[PacketLen].frame = frames
          BY <1>4, <3>1
        <5> QED BY <1>5, <4>3, <5>1, <5>3, <5>4
      <4> QED BY <4>1, <4>2, <4>3 DEF Continues
    <3>9. DamageExplained => DamageExplained'
      <4> SUFFICES ASSUME DamageExplained, NEW i \in 1..(m + 1)
                   PROVE  LET p == accepted'[i] IN
                          \/ Whole(p, p[1].frame)
                          \/ p[1].place = 4 /\ p[1].frame \in holed' /\ p[PacketLen].frame > p[1].frame
        BY <3>4 DEF DamageExplained, Whole
      <4>1. CASE i \in 1..m
        <5>1. accepted'[i] = accepted[i] /\ i \in DOMAIN accepted
          BY <1>5, <3>4, <4>1 DEF m
        <5> QED BY <1>1, <5>1 DEF DamageExplained
      <4>2. CASE i = m + 1
        BY <1>1, <3>2, <3>4, <3>8, <4>2
      <4> QED BY <3>5, <4>1, <4>2
    <3> QED BY <1>2, <2>1, <2>2, <3>6, <3>7, <3>9 DEF FramerInv
  <2> QED BY <2>3, <2>4
<1> QED BY <1>3, <1>8, <1>9

LEMMA FramerStep ==
  FramerInv /\ Sourced /\ [FramerNext]_framerVars => (FramerInv /\ Sourced)'
<1> SUFFICES ASSUME FramerInv, Sourced, [FramerNext]_framerVars PROVE (FramerInv /\ Sourced)'
  OBVIOUS
<1>1. CASE UNCHANGED framerVars
  <2>1. /\ wire' = wire /\ frames' = frames /\ state' = state /\ pktBuf' = pktBuf
        /\ holed' = holed /\ losses' = losses /\ accepted' = accepted
    BY <1>1 DEF framerVars
  <2>2. FramerTypeOK' /\ Sourced'
    BY <2>1 DEF FramerInv, FramerTypeOK, Sourced, RestOf
  <2>3. PacketsOK' /\ FromTag'
    BY <2>1 DEF FramerInv, PacketsOK, ByteOK, FromTag, Begins, Continues
  <2>4. OnceEach'
    BY <2>1 DEF FramerInv, OnceEach, Begins
  <2> QED BY <2>1, <2>2, <2>3, <2>4 DEF FramerInv
<1> QED BY <1>1, FrameSent, FrameByteLost, FrameSynchronise, FramePayload DEF FramerNext, FramerQuiet

\* The damage a loss does (main.rs:483-531): every packet that is accepted and is not a
\* frame as it was sent begins with the tag of a frame that has lost a later byte.
LEMMA DamageStep ==
  FramerInv /\ Sourced /\ DamageExplained /\ [FramerNext]_framerVars => DamageExplained'
<1> SUFFICES ASSUME FramerInv, Sourced, DamageExplained, [FramerNext]_framerVars PROVE DamageExplained'
  OBVIOUS
<1>1. CASE accepted' = accepted /\ (holed' = holed \/ holed' = holed \cup {Head(wire).frame})
  BY <1>1 DEF DamageExplained, Whole
<1> QED BY <1>1, FramePayload DEF FramerNext, FramerQuiet, SendPacket, ByteLost, Synchronise, framerVars

LEMMA FramerTyped ==
  FramerInit /\ [][FramerNext]_framerVars => [](FramerInv /\ Sourced)
BY FramerStart, FramerStep, PTL

\* The parser's buffer and its cursors keep their types and bounds, whatever bytes the
\* stream loses and whatever packets hold (firmware main.rs:483-531).
THEOREM FramerTypes ==
  FramerInit /\ [][FramerNext]_framerVars => []FramerTypeOK
<1>1. FramerInv => FramerTypeOK
  BY DEF FramerInv
<1> QED BY <1>1, FramerTyped, PTL

\* Whatever is accepted and is no frame as it was sent begins with the tag of a frame
\* that has lost a later byte, and is completed by what follows it: no packet is made
\* of bytes of undamaged frames (firmware main.rs:483-531).
THEOREM DamageIsExplained ==
  FramerInit /\ [][FramerNext]_framerVars => []DamageExplained
<1>1. FramerInit => DamageExplained
  BY DEF FramerInit, DamageExplained
<1> QED BY <1>1, DamageStep, FramerTyped, PTL

\* The next byte of a frame, seen from the bytes it has been made of.
LEMMA NextOf ==
  ASSUME FramerInv, Sourced, NEW c \in FrameData, RestOf(c), wire # <<>>, wire' = Tail(wire), frames' = frames
  PROVE  /\ RestOf(c)' /\ Len(wire') = Len(wire) - 1 /\ Len(wire) \in 1..FrameLen
         /\ Place \in 1..FrameLen /\ Place' = Place + 1 /\ Place = FrameLen - Len(wire) + 1
         /\ Head(wire).value = ValueAt(c, Place) /\ Head(wire).frame = frames /\ Head(wire).place = Place
         /\ \A i : ValueAt(c, i)' = ValueAt(c, i)
<1>1. frames \in Nat /\ wire \in Seq(WireByte)
  BY DEF FramerInv, FramerTypeOK
<1>2. /\ Place \in 1..FrameLen /\ Head(wire).value = ValueAt(c, Place)
      /\ Head(wire).frame = frames /\ Head(wire).place = Place
      /\ Len(Tail(wire)) = Len(wire) - 1 /\ Len(wire) \in 1..FrameLen
      /\ \A i \in 1..(Len(wire) - 1) : Tail(wire)[i] = Framed(frames, c)[FrameLen - (Len(wire) - 1) + i]
  BY <1>1, NextByte
<1>3. RestOf(c)'
  <2>1. Len(wire') <= FrameLen /\ Len(wire') = Len(wire) - 1
    BY <1>2, FrameLengths
  <2>2. \A i \in 1..Len(wire') : wire'[i] = Framed(frames', c)[FrameLen - Len(wire') + i]
    BY <1>2, <2>1
  <2> QED BY <2>1, <2>2 DEF RestOf
<1>4. Place' = Place + 1 /\ Place = FrameLen - Len(wire) + 1
  <2>1. Place = FrameLen - Len(wire) + 1 /\ Place' = FrameLen - Len(wire') + 1
    BY DEF Place
  <2> QED BY <1>2, <2>1, FrameLengths
<1>5. \A i : ValueAt(c, i)' = ValueAt(c, i)
  BY DEF ValueAt
<1> QED BY <1>2, <1>3, <1>4, <1>5

\* In a frame's own bytes there is one header only.
LEMMA OneHeader ==
  ASSUME HeaderFree, frames \in Nat, NEW c \in FrameData, NEW p \in 4..FrameLen,
         ValueAt(c, p - 2) = "AA", ValueAt(c, p - 1) = "55"
  PROVE  ValueAt(c, p) # "72"
<1>1. /\ \A i \in 1..FrameLen : ValueAt(c, i) = "tag" <=> i = 4
      /\ ValueAt(c, 2) = "55" /\ ValueAt(c, 3) = "72"
      /\ \A i \in 5..FrameLen : ValueAt(c, i) = c[i - 4]
  <2> DEFINE F == Framed(frames, c)
  <2>1. \A i \in 1..FrameLen : F[i].value = "tag" <=> i = 4
    BY FrameBytes
  <2>2. F[2].value = "55" /\ F[3].value = "72" /\ \A i \in 5..FrameLen : F[i].value = c[i - 4]
    BY FrameBytes
  <2> HIDE DEF F
  <2>3. \A i : ValueAt(c, i) = F[i].value
    BY DEF ValueAt, F
  <2> QED BY <2>1, <2>2, <2>3
<1>2. p - 2 # 2 /\ p - 2 # 3
  BY <1>1
<1>3. p - 2 # 4
  BY <1>1, FrameLengths
<1>4. p - 2 \in 5..FrameLen /\ p - 1 \in 5..FrameLen /\ p \in 5..FrameLen /\ p - 6 \in 1..(DataLen - 2)
  BY <1>2, <1>3, FrameLengths
<1> DEFINE i == p - 6
<1>5. c[i] = ValueAt(c, p - 2) /\ c[i + 1] = ValueAt(c, p - 1) /\ c[i + 2] = ValueAt(c, p)
  <2>1. (p - 2) - 4 = i /\ (p - 1) - 4 = i + 1 /\ p - 4 = i + 2
    OBVIOUS
  <2> HIDE DEF i
  <2> QED BY <1>1, <1>4, <2>1
<1>6. i \in 1..(DataLen - 2)
  BY <1>4
<1> HIDE DEF i
<1> QED BY <1>5, <1>6 DEF HeaderFree

\* How the machine follows a frame that has lost nothing, at a byte between packets: ...
LEMMA SynchroniseTracks ==
  ASSUME FramerInv, Sourced, HeaderFree, Synchronise, NEW c \in FrameData, RestOf(c)
  PROVE  /\ InStep => InStep'
         /\ ~Swallowing
         /\ Scanning(c) => Scanning(c)'
<1> DEFINE b == Head(wire).value
<1>1. /\ wire # <<>> /\ state # "Payload" /\ pktBuf' = <<>> /\ wire' = Tail(wire)
      /\ frames' = frames /\ state \in {"Sync0", "Sync1", "Length"} /\ frames \in Nat
  BY DEF Synchronise, FramerInv, FramerTypeOK
<1>2. state' = CASE state = "Sync0" -> AfterSync0(b)
                 [] state = "Sync1" -> AfterSync1(b)
                 [] state = "Length" -> AfterLength(b)
  BY DEF Synchronise
<1>3. /\ Len(wire') = Len(wire) - 1 /\ Len(wire) \in 1..FrameLen
      /\ Place \in 1..FrameLen /\ Place' = Place + 1 /\ Place = FrameLen - Len(wire) + 1
      /\ b = ValueAt(c, Place) /\ \A i : ValueAt(c, i)' = ValueAt(c, i)
  BY <1>1, NextOf
<1> HIDE DEF b
<1>4. /\ state = "Sync0" => state' = AfterSync0(b)
      /\ state = "Sync1" => state' = AfterSync1(b)
      /\ state = "Length" => state' = AfterLength(b)
  BY <1>2
<1>5. ValueAt(c, 1) = "AA" /\ ValueAt(c, 2) = "55" /\ ValueAt(c, 3) = "72"
  BY <1>1, FrameBytes DEF ValueAt
<1>6. ASSUME InStep PROVE InStep'
  <2>1. CASE Len(wire) = FrameLen
    <3>1. Place = 1 /\ Len(wire') = FrameLen - 1
      BY <1>3, <2>1, FrameLengths
    <3>2. state' = "Sync1"
      BY <1>1, <1>3, <1>4, <1>5, <3>1 DEF AfterSync0, AfterSync1, AfterLength
    <3> QED BY <3>1, <3>2 DEF InStep
  <2>2. CASE Len(wire) = FrameLen - 1 /\ state = "Sync1"
    <3>1. Place = 2 /\ Len(wire') = FrameLen - 2
      BY <1>3, <2>2, FrameLengths
    <3>2. state' = "Length"
      BY <1>3, <1>4, <1>5, <2>2, <3>1 DEF AfterSync1
    <3> QED BY <3>1, <3>2 DEF InStep
  <2>3. CASE Len(wire) = FrameLen - 2 /\ state = "Length"
    <3>1. Place = 3 /\ Len(wire') = PacketLen
      BY <1>3, <2>3, FrameLengths
    <3>2. state' = "Payload"
      BY <1>3, <1>4, <1>5, <2>3, <3>1 DEF AfterLength
    <3>3. Len(pktBuf') = 0 /\ PacketLen \in 1..PacketLen /\ PacketLen - PacketLen = 0
      BY <1>1, FrameLengths
    <3>4. \A i \in 1..Len(pktBuf') : pktBuf'[i].frame = frames' /\ pktBuf'[i].place = 3 + i
      BY <3>3
    <3> QED BY <3>1, <3>2, <3>3, <3>4 DEF InStep
  <2> QED BY <1>1, <1>6, <2>1, <2>2, <2>3 DEF InStep
<1>7. ~Swallowing
  BY <1>1 DEF Swallowing
<1>8. ASSUME Scanning(c) PROVE Scanning(c)'
  <2>1. /\ Place >= 2
        /\ state = "Sync1" => Place >= 3 /\ ValueAt(c, Place - 1) = "AA"
        /\ state = "Length" => Place >= 4 /\ ValueAt(c, Place - 2) = "AA" /\ ValueAt(c, Place - 1) = "55"
    BY <1>8 DEF Scanning
  <2>2. Place \in Nat /\ Place' - 1 = Place /\ Place' - 2 = Place - 1
    BY <1>3, FrameLengths
  <2>3. state' # "Payload"
    <3>1. CASE state = "Sync0"
      BY <1>4, <3>1 DEF AfterSync0
    <3>2. CASE state = "Sync1"
      BY <1>4, <3>2 DEF AfterSync1
    <3>3. CASE state = "Length"
      <4>1. Place \in 4..FrameLen
        BY <1>3, <2>1, <3>3
      <4>2. ValueAt(c, Place) # "72"
        BY <1>1, <2>1, <3>3, <4>1, OneHeader
      <4> QED BY <1>3, <1>4, <3>3, <4>2 DEF AfterLength
    <3> QED BY <1>1, <3>1, <3>2, <3>3
  <2>4. state' = "Sync1" => ValueAt(c, Place) = "AA"
    BY <1>1, <1>3, <1>4 DEF AfterSync0, AfterSync1, AfterLength
  <2>5. state' = "Length" => ValueAt(c, Place) = "55" /\ state = "Sync1"
    BY <1>1, <1>3, <1>4 DEF AfterSync0, AfterSync1, AfterLength
  <2>6. Place' >= 2 /\ Place' >= 3 /\ (Place >= 3 => Place' >= 4)
    BY <1>3, <2>1, <2>2
  <2> QED BY <1>1, <2>1, <2>2, <2>3, <2>4, <2>5, <2>6 DEF Scanning, ValueAt
<1> QED BY <1>6, <1>7, <1>8

\* ... and at a byte of a packet, the last one of which it accepts if it is in step.
LEMMA PayloadTracks ==
  ASSUME FramerInv, Sourced, Payload, NEW c \in FrameData, RestOf(c)
  PROVE  /\ InStep => \/ InStep' /\ wire' # <<>>
                      \/ /\ wire' = <<>> /\ state' = "Sync0"
                         /\ \E i \in 1..Len(accepted') : Whole(accepted'[i], frames)
         /\ Swallowing => Swallowing' \/ Scanning(c)'
         /\ ~Scanning(c)
         /\ \A f : (\E i \in 1..Len(accepted) : Whole(accepted[i], f))
                    => \E i \in 1..Len(accepted') : Whole(accepted'[i], f)
<1> DEFINE packet == Append(pktBuf, Head(wire))
           n == Len(pktBuf)
           w == Len(wire)
<1>1. /\ wire # <<>> /\ state = "Payload" /\ wire' = Tail(wire)
      /\ frames' = frames /\ holed' = holed
  BY DEF Payload
<1>2. /\ Len(wire') = w - 1 /\ w \in 1..FrameLen /\ w \in Nat
      /\ Place \in 1..FrameLen /\ Place' = Place + 1 /\ Place = FrameLen - w + 1
      /\ Head(wire).frame = frames /\ Head(wire).place = Place
  BY <1>1, NextOf, FrameLengths
<1>3. \/ Len(packet) < PacketLen /\ pktBuf' = packet /\ state' = state /\ accepted' = accepted
      \/ /\ ~(Len(packet) < PacketLen) /\ pktBuf' = <<>> /\ state' = "Sync0"
         /\ accepted' = IF ValidTag(packet) THEN Append(accepted, packet) ELSE accepted
  BY DEF Payload
<1> HIDE DEF packet
<1>4. /\ packet \in Seq(WireByte) /\ Len(packet) = n + 1 /\ Len(packet) <= PacketLen
      /\ \A i \in 1..n : packet[i] = pktBuf[i]
      /\ packet[Len(packet)] = Head(wire)
      /\ packet[1].value = "tag" <=> Begins(packet)
  <2>1. packet = Append(pktBuf, Head(wire))
    BY DEF packet
  <2> QED BY <2>1, NextPacket
<1>5. n \in Nat /\ accepted \in Seq([1..PacketLen -> WireByte]) /\ wire' \in Seq(WireByte)
  <2>1. wire' \in Seq(WireByte)
    BY <1>1, ByteGone
  <2> QED BY <2>1 DEF FramerInv, PacketsOK
<1> HIDE DEF n, w
<1>6. /\ wire' = <<>> <=> w = 1
  BY <1>2, <1>5
<1>7. ASSUME InStep
      PROVE  \/ InStep' /\ wire' # <<>>
             \/ /\ wire' = <<>> /\ state' = "Sync0"
                /\ \E i \in 1..Len(accepted') : Whole(accepted'[i], frames)
  <2>1. /\ w \in 1..PacketLen /\ n = PacketLen - w
        /\ \A i \in 1..n : pktBuf[i].frame = frames /\ pktBuf[i].place = 3 + i
    BY <1>1, <1>7 DEF InStep, n, w
  <2>2. Place = 3 + (n + 1)
    BY <1>2, <2>1, FrameLengths
  <2>3. \A i \in 1..Len(packet) : packet[i].frame = frames /\ packet[i].place = 3 + i
    <3> TAKE i \in 1..Len(packet)
    <3>1. i \in 1..n \/ i = n + 1
      BY <1>4, <1>5
    <3>2. CASE i \in 1..n
      BY <1>4, <2>1, <3>2
    <3>3. CASE i = n + 1
      BY <1>2, <1>4, <2>2, <3>3
    <3> QED BY <3>1, <3>2, <3>3
  <2>4. CASE Len(packet) < PacketLen /\ pktBuf' = packet /\ state' = state /\ accepted' = accepted
    <3>1. Len(wire') \in 1..PacketLen /\ Len(pktBuf') = PacketLen - Len(wire') /\ w # 1
      BY <1>2, <1>4, <1>5, <2>1, <2>4, FrameLengths
    <3>2. \A i \in 1..Len(pktBuf') : pktBuf'[i].frame = frames' /\ pktBuf'[i].place = 3 + i
      BY <1>1, <2>3, <2>4
    <3> QED BY <1>1, <1>6, <2>4, <3>1, <3>2 DEF InStep
  <2>5. CASE /\ ~(Len(packet) < PacketLen) /\ pktBuf' = <<>> /\ state' = "Sync0"
             /\ accepted' = IF ValidTag(packet) THEN Append(accepted, packet) ELSE accepted
    <3>1. w = 1 /\ Len(packet) = PacketLen
      BY <1>2, <1>4, <1>5, <2>1, <2>5, FrameLengths
    <3>2. ValidTag(packet)
      <4>1. packet # <<>> /\ packet[1].place = 4
        BY <1>4, <1>5, <2>3, <3>1, FrameLengths
      <4> QED BY <1>4, <4>1 DEF ValidTag, Begins
    <3>3. accepted' = Append(accepted, packet)
      BY <2>5, <3>2
    <3>4. packet \in [1..PacketLen -> WireByte]
      BY <1>4, <3>1
    <3>5. Len(accepted) + 1 \in 1..Len(accepted') /\ accepted'[Len(accepted) + 1] = packet
      BY <1>5, <3>3, <3>4
    <3>6. Whole(packet, frames)
      BY <2>3, <3>1 DEF Whole
    <3> QED BY <1>6, <2>5, <3>1, <3>5, <3>6
  <2> QED BY <1>3, <2>4, <2>5
<1>8. ASSUME Swallowing PROVE Swallowing' \/ Scanning(c)'
  <2>1. n + w >= PacketLen + 3
    BY <1>8 DEF Swallowing, n, w
  <2>2. CASE Len(packet) < PacketLen /\ pktBuf' = packet /\ state' = state
    <3>1. Len(pktBuf') + Len(wire') >= PacketLen + 3
      BY <1>2, <1>4, <1>5, <2>1, <2>2, FrameLengths
    <3> QED BY <1>1, <2>2, <3>1 DEF Swallowing
  <2>3. CASE state' = "Sync0"
    <3>1. Place' >= 2
      BY <1>2
    <3> QED BY <2>3, <3>1 DEF Scanning
  <2> QED BY <1>3, <2>2, <2>3
<1>9. ~Scanning(c)
  BY <1>1 DEF Scanning
<1>10. ASSUME NEW f, NEW i \in 1..Len(accepted), Whole(accepted[i], f)
       PROVE  \E j \in 1..Len(accepted') : Whole(accepted'[j], f)
  <2>1. CASE accepted' = accepted
    BY <1>10, <2>1
  <2>2. CASE accepted' = Append(accepted, packet) /\ ~(Len(packet) < PacketLen)
    <3>1. Len(packet) = PacketLen
      BY <1>4, <1>5, <2>2, FrameLengths
    <3>2. packet \in [1..PacketLen -> WireByte]
      BY <1>4, <3>1
    <3>3. i \in 1..Len(accepted') /\ accepted'[i] = accepted[i]
      BY <1>5, <2>2, <3>2
    <3> QED BY <1>10, <3>3
  <2> QED BY <1>3, <2>1, <2>2
<1> QED BY <1>7, <1>8, <1>9, <1>10

\* The machine is in step with every frame that comes whole behind one that came whole,
\* and every such frame has been accepted.
LEMMA SyncStart ==
  ASSUME FramerInit PROVE SyncInv
<1>1. wire = <<>> /\ frames = 0 /\ state = "Sync0"
  BY DEF FramerInit
<1>2. Tracked /\ (wire = <<>> /\ frames \notin holed => state # "Payload")
  BY <1>1 DEF Tracked
<1>3. \A f \in 1..MaxFrames : ~Sent(f)
  BY <1>1, FramerAssumption DEF Sent
<1> QED BY <1>2, <1>3 DEF SyncInv, Received

LEMMA SyncSent ==
  ASSUME FramerInv, Sourced, SyncInv, SendPacket PROVE SyncInv'
<1>1. PICK c \in FrameData : wire' = Framed(frames + 1, c)
  BY DEF SendPacket
<1>2. /\ wire = <<>> /\ frames' = frames + 1 /\ state' = state /\ pktBuf' = pktBuf
      /\ holed' = holed /\ accepted' = accepted
  BY DEF SendPacket
<1>3. /\ frames \in Nat /\ holed \subseteq 1..frames /\ pktBuf \in Seq(WireByte)
      /\ state \in {"Sync0", "Sync1", "Length", "Payload"}
  BY DEF FramerInv, FramerTypeOK, PacketsOK
<1>4. Len(wire') = FrameLen /\ wire' # <<>> /\ RestOf(c)'
  <2>1. Len(wire') = FrameLen /\ wire' # <<>>
    BY <1>1, <1>3, FrameBytes, FrameLengths
  <2>2. Len(wire') <= FrameLen
    BY <2>1, FrameLengths
  <2>3. \A i \in 1..Len(wire') : wire'[i] = Framed(frames', c)[FrameLen - Len(wire') + i]
    BY <1>1, <1>2, <2>1, FrameLengths
  <2> QED BY <2>1, <2>2, <2>3 DEF RestOf
<1>5. InStep' \/ Swallowing'
  <2>1. CASE state = "Payload"
    <3>1. Len(pktBuf') \in Nat
      BY <1>2, <1>3
    <3> QED BY <1>2, <1>4, <2>1, <3>1, FrameLengths DEF Swallowing
  <2>2. CASE state # "Payload"
    BY <1>2, <1>3, <1>4, <2>2 DEF InStep
  <2> QED BY <2>1, <2>2
<1>6. frames \notin holed => InStep'
  BY <1>2, <1>3, <1>4 DEF SyncInv, Received, InStep
<1>7. Tracked'
  <2>1. frames' - 1 = frames
    BY <1>2, <1>3
  <2> QED BY <1>2, <1>4, <1>5, <1>6, <2>1 DEF Tracked
<1>8. \A f \in 1..MaxFrames : Sent(f)' => Sent(f)
  BY <1>2, <1>3, <1>4, FramerAssumption DEF Sent
<1>9. Received'
  BY <1>2, <1>4, <1>8 DEF SyncInv, Received, Whole
<1> QED BY <1>7, <1>9 DEF SyncInv

LEMMA SyncLost ==
  ASSUME FramerInv, Sourced, SyncInv, ByteLost PROVE SyncInv'
<1>1. /\ wire # <<>> /\ holed' = holed \cup {Head(wire).frame} /\ wire' = Tail(wire)
      /\ frames' = frames /\ state' = state /\ pktBuf' = pktBuf /\ accepted' = accepted
  BY DEF ByteLost
<1>2. Sourced' /\ Head(wire).frame = frames /\ frames \in Nat
  BY <1>1, ByteGone DEF FramerInv, FramerTypeOK
<1>3. frames' \in holed'
  BY <1>1, <1>2
<1>4. Tracked'
  BY <1>2, <1>3 DEF Tracked, Sourced
<1>5. \A f \in 1..MaxFrames : Sent(f)' /\ f \notin holed' => Sent(f) /\ f \notin holed
  BY <1>1, <1>2, <1>3 DEF Sent
<1>6. Received'
  BY <1>1, <1>3, <1>5 DEF SyncInv, Received, Whole
<1> QED BY <1>4, <1>6 DEF SyncInv

LEMMA SyncByte ==
  ASSUME FramerInv, Sourced, SyncInv, HeaderFree, Synchronise \/ Payload PROVE SyncInv'
<1>1. wire # <<>> /\ wire' = Tail(wire) /\ frames' = frames /\ holed' = holed
  BY DEF Synchronise, Payload
<1>2. PICK c \in FrameData :
        /\ RestOf(c)
        /\ frames \notin holed => InStep \/ Swallowing \/ Scanning(c)
        /\ frames \notin holed /\ frames - 1 \notin holed => InStep
  BY <1>1 DEF SyncInv, Tracked
<1>3. RestOf(c)' /\ wire' \in Seq(WireByte) /\ frames \in Nat
  BY <1>1, <1>2, NextOf, ByteGone DEF FramerInv, FramerTypeOK
<1>4. /\ InStep => \/ InStep' /\ wire' # <<>>
                   \/ /\ wire' = <<>> /\ state' = "Sync0"
                      /\ \E i \in 1..Len(accepted') : Whole(accepted'[i], frames)
      /\ Swallowing => Swallowing' \/ Scanning(c)'
      /\ Scanning(c) => Scanning(c)'
      /\ \A f : (\E i \in 1..Len(accepted) : Whole(accepted[i], f))
                 => \E i \in 1..Len(accepted') : Whole(accepted'[i], f)
  <2>1. CASE Synchronise
    <3>1. accepted' = accepted
      BY <2>1 DEF Synchronise
    <3>2. /\ InStep => InStep'
          /\ ~Swallowing
          /\ Scanning(c) => Scanning(c)'
      BY <1>2, <2>1, SynchroniseTracks
    <3>3. InStep' => wire' # <<>>
      <4>1. Len(<<>>) = 0
        OBVIOUS
      <4> QED BY <4>1, FrameLengths DEF InStep
    <3> QED BY <3>1, <3>2, <3>3
  <2>2. CASE Payload
    <3>1. /\ InStep => \/ InStep' /\ wire' # <<>>
                       \/ /\ wire' = <<>> /\ state' = "Sync0"
                          /\ \E i \in 1..Len(accepted') : Whole(accepted'[i], frames)
          /\ Swallowing => Swallowing' \/ Scanning(c)'
          /\ ~Scanning(c)
          /\ \A f : (\E i \in 1..Len(accepted) : Whole(accepted[i], f))
                     => \E i \in 1..Len(accepted') : Whole(accepted'[i], f)
      BY <1>2, <2>2, PayloadTracks
    <3> QED BY <3>1
  <2> QED BY <2>1, <2>2
<1>5. Tracked'
  <2> SUFFICES ASSUME wire' # <<>>
               PROVE  /\ frames \notin holed => InStep' \/ Swallowing' \/ Scanning(c)'
                      /\ frames \notin holed /\ frames - 1 \notin holed => InStep'
    BY <1>1, <1>3 DEF Tracked
  <2> QED BY <1>2, <1>4
<1>6. (wire = <<>> /\ frames \notin holed => state # "Payload")'
  <2> SUFFICES ASSUME wire' = <<>>, frames \notin holed PROVE state' # "Payload"
    BY <1>1
  <2>1. ~Swallowing'
    <3> SUFFICES ASSUME Swallowing' PROVE FALSE
      OBVIOUS
    <3>1. pktBuf' \in Seq(WireByte) /\ Len(pktBuf') < PacketLen /\ Len(wire') = 0
      <4>1. FramerInv'
        BY FramerStep DEF FramerNext
      <4> QED BY <4>1 DEF FramerInv, FramerTypeOK, PacketsOK
    <3>2. Len(pktBuf') \in Nat
      BY <3>1
    <3> QED BY <3>1, <3>2, FrameLengths DEF Swallowing
  <2>2. Scanning(c)' => state' # "Payload"
    BY DEF Scanning
  <2> QED BY <1>2, <1>4, <2>1, <2>2
<1>7. ASSUME NEW f \in 1..MaxFrames, Sent(f)', f \notin holed, f - 1 \notin holed
      PROVE  \E i \in 1..Len(accepted') : Whole(accepted'[i], f)
  <2>1. CASE Sent(f)
    <3>1. \E i \in 1..Len(accepted) : Whole(accepted[i], f)
      BY <1>7, <2>1 DEF SyncInv, Received
    <3> QED BY <1>4, <3>1
  <2>2. CASE ~Sent(f)
    <3>1. f = frames /\ wire' = <<>>
      BY <1>1, <1>7, <2>2 DEF Sent
    <3> QED BY <1>2, <1>4, <1>7, <3>1
  <2> QED BY <2>1, <2>2
<1>8. Received'
  BY <1>1, <1>6, <1>7 DEF Received, Whole
<1> QED BY <1>5, <1>8 DEF SyncInv

LEMMA SyncStep ==
  FramerInv /\ Sourced /\ SyncInv /\ HeaderFree /\ [FramerNext]_framerVars => SyncInv'
<1> SUFFICES ASSUME FramerInv, Sourced, SyncInv, HeaderFree, [FramerNext]_framerVars PROVE SyncInv'
  OBVIOUS
<1>1. CASE UNCHANGED framerVars
  <2>1. /\ wire' = wire /\ frames' = frames /\ state' = state /\ pktBuf' = pktBuf
        /\ holed' = holed /\ losses' = losses /\ accepted' = accepted
    BY <1>1 DEF framerVars
  <2>2. Received'
    BY <2>1 DEF SyncInv, Received, Sent, Whole
  <2>3. Tracked'
    <3> SUFFICES ASSUME wire # <<>> PROVE Tracked'
      BY <2>1 DEF Tracked
    <3>1. PICK c \in FrameData :
            /\ RestOf(c)
            /\ frames \notin holed => InStep \/ Swallowing \/ Scanning(c)
            /\ frames \notin holed /\ frames - 1 \notin holed => InStep
      BY DEF SyncInv, Tracked
    <3>2. RestOf(c)'
      BY <2>1, <3>1 DEF RestOf
    <3>3. (InStep => InStep') /\ (Swallowing => Swallowing')
      BY <2>1 DEF InStep, Swallowing
    <3>4. Scanning(c) => Scanning(c)'
      BY <2>1 DEF Scanning, Place, ValueAt
    <3> QED BY <2>1, <3>1, <3>2, <3>3, <3>4 DEF Tracked
  <2> QED BY <2>2, <2>3 DEF SyncInv
<1> QED BY <1>1, SyncSent, SyncLost, SyncByte DEF FramerNext, FramerQuiet

\* ... and once only.
LEMMA InvResynchronises ==
  ASSUME FramerInv, SyncInv PROVE Resynchronises
<1> SUFFICES ASSUME NEW f \in 1..MaxFrames, Sent(f), {f - 1, f} \cap holed = {}
             PROVE  Cardinality(AcceptedWhole(f)) = 1
  BY DEF Resynchronises
<1>1. /\ accepted \in Seq([1..PacketLen -> WireByte]) /\ DOMAIN accepted = 1..Len(accepted)
      /\ \A i, j \in 1..Len(accepted) : i < j => accepted[i][1].frame < accepted[j][1].frame
  <2>1. accepted \in Seq([1..PacketLen -> WireByte])
    BY DEF FramerInv, PacketsOK
  <2>2. \A i, j \in 1..Len(accepted) : i < j => accepted[i][1].frame < accepted[j][1].frame
    BY DEF FramerInv, OnceEach
  <2> QED BY <2>1, <2>2
<1>2. PICK i \in 1..Len(accepted) : Whole(accepted[i], f)
  BY DEF SyncInv, Received
<1>3. \A j \in 1..Len(accepted) : Whole(accepted[j], f) => accepted[j][1].frame = f
  BY FrameLengths DEF Whole
<1>4. \A j \in 1..Len(accepted) : Whole(accepted[j], f) => j = i
  <2> SUFFICES ASSUME NEW j \in 1..Len(accepted), Whole(accepted[j], f), j # i PROVE FALSE
    OBVIOUS
  <2>1. accepted[i][1].frame = f /\ accepted[j][1].frame = f /\ f \in Nat
    BY <1>2, <1>3
  <2>2. i < j \/ j < i
    BY <1>1
  <2> QED BY <1>1, <2>1, <2>2
<1>5. AcceptedWhole(f) = {i}
  BY <1>1, <1>2, <1>4 DEF AcceptedWhole
<1> QED BY <1>5, FS_Singleton

\* A frame that comes whole behind one that came whole is accepted as it was sent, and
\* once (main.rs:483-531), for every length of a packet, whatever has been lost before
\* them, as long as the three bytes of a header occur in no packet.
THEOREM ResynchronisesAtOnce ==
  ASSUME HeaderFree
  PROVE  FramerInit /\ [][FramerNext]_framerVars => []Resynchronises
<1>1. FramerInit => FramerInv /\ Sourced /\ SyncInv
  BY FramerStart, SyncStart
<1>2. (FramerInv /\ Sourced /\ SyncInv) /\ [FramerNext]_framerVars => (FramerInv /\ Sourced /\ SyncInv)'
  BY FramerStep, SyncStep
<1>3. FramerInv /\ Sourced /\ SyncInv => Resynchronises
  BY InvResynchronises
<1> QED BY <1>1, <1>2, <1>3, PTL

-----------------------------------------------------------------------------
(* All of them *)

\* A behaviour of the dongle is one of each part: the parts share no variable, and a
\* step of one leaves the others alone.
LEMMA EachPart ==
  Spec => /\ RingSpec /\ FilterSpec /\ PeerSpec /\ GateSpec
          /\ FramerInit /\ [][FramerNext]_framerVars
          /\ LineInit /\ [][LineNext]_lineVars
          /\ [](part \in Parts)
<1>1. Init => /\ RingInit /\ FilterInit /\ PeerInit /\ GateInit /\ FramerInit /\ LineInit /\ part \in Parts
  BY DEF Init
<1>2. [Next]_partVars =>
        /\ [RingNext]_ringVars /\ [FilterNext]_filterVars /\ [PeerNext]_peerVars /\ [GateNext]_gateVars
        /\ [FramerNext]_framerVars /\ [LineNext]_lineVars /\ part' = part
  BY DEF Next, Ring, Filter, PeerList, Gate, ToDongle, ToHost, partVars, core, dashboard, port
<1>3. part \in Parts /\ part' = part => (part \in Parts)'
  OBVIOUS
<1> QED BY <1>1, <1>2, <1>3, PTL DEF Spec, RingSpec, FilterSpec, PeerSpec, GateSpec

\* Every part of a dongle keeps its types and its bounds.
THEOREM TypeCorrect == Spec => []TypeOK
<1>1. DedupInv => FilterTypeOK
  BY DEF DedupInv
<1>2. RingTypeOK /\ FilterTypeOK /\ PeerTypeOK /\ GateTypeOK /\ FramerTypeOK /\ LineTypeOK /\ part \in Parts
        => TypeOK
  BY DEF TypeOK
<1> QED BY <1>1, <1>2, EachPart, RingTypes, KeepsInv, PeersTyped, GateTypes, FramerTypes, PacketsInOrder, PTL

\* What the parts promise, of every behaviour of a dongle: the ring is a bounded queue,
\* the filter remembers the latest frames and forgets the oldest, the table lists the
\* latest peers, a bond follows a press in time, what is accepted and is no frame as it
\* was sent is explained by a loss, and packets are returned in order, once and whole.
THEOREM PartsKeepTheirPromises ==
  Spec => /\ RefinesFifo
          /\ [](Remembered /\ ForgetsInTime /\ LatestPeers /\ GrantedInTime /\ DamageExplained /\ PacketsReturned)
BY EachPart, RingRefinesFifo, RemembersTheLatest, ForgetsTheOldest, TableIsLatest, BondsInTime,
   DamageIsExplained, PacketsInOrder, PTL
=============================================================================
