--------------------------- MODULE RadioLoopProofs ---------------------------
(***************************************************************************)
(* Proofs about the transmit queue in the turns of the main loop, for any   *)
(* capacity, any jitter and any time slots.                                 *)
(***************************************************************************)
EXTENDS RadioLoop, Integers, SequenceTheorems, WellFoundedInduction, TLAPS

-----------------------------------------------------------------------------
\* The slots of the ring, without the modulus.

\* The remainder of less than two turns, without the modulus.
LEMMA Remainder ==
  ASSUME NEW N \in Nat \ {0}, NEW x \in Nat, x < N + N
  PROVE  x % N = IF x < N THEN x ELSE x - N
<1>1. CASE x < N
  BY <1>1
<1>2. CASE x >= N
  <2>1. PICK y \in 0..(N - 1) : x = y + N
    BY <1>2
  <2>2. (y + N) % N = y % N /\ y % N = y
    OBVIOUS
  <2>3. QED
    BY <1>2, <2>1, <2>2
<1>3. QED
  BY <1>1, <1>2

\* The slot j places behind slot h.
At(h, j) == IF h + j < TxCapacity THEN h + j ELSE h + j - TxCapacity

LEMMA StepIs ==
  ASSUME NEW h \in Indices, NEW j \in 0..TxCapacity
  PROVE  StepBy(h, j) = At(h, j) /\ At(h, j) \in Indices
<1> DEFINE x == h + j
<1>1. /\ x \in Nat /\ x < TxCapacity + TxCapacity
      /\ (IF x < TxCapacity THEN x ELSE x - TxCapacity) = At(h, j)
      /\ At(h, j) \in Indices
  BY TxAssumption DEF Indices, At
<1> HIDE DEF x
<1>2. x % TxCapacity = IF x < TxCapacity THEN x ELSE x - TxCapacity
  BY <1>1, Remainder, TxAssumption
<1>3. x % TxCapacity = At(h, j)
  BY <1>1, <1>2
<1>4. QED
  BY <1>1, <1>3 DEF x, StepBy

\* Moving on k slots, and then j, is moving on k + j slots; slots apart are different.
LEMMA AtAt ==
  ASSUME NEW h \in Indices, NEW k \in 0..TxCapacity, NEW j \in 0..(TxCapacity - k)
  PROVE  At(At(h, k), j) = At(h, k + j)
BY TxAssumption DEF Indices, At

LEMMA AtDiffers ==
  ASSUME NEW h \in Indices, NEW i \in 0..(TxCapacity - 1), NEW j \in 0..(TxCapacity - 1),
         At(h, i) = At(h, j)
  PROVE  i = j
BY TxAssumption DEF Indices, At

\* The slots of a full ring are all the slots.
LEMMA Covers ==
  ASSUME NEW h \in Indices, NEW i \in Indices
  PROVE  \E j \in 0..(TxCapacity - 1) : i = At(h, j)
<1>1. CASE i >= h
  <2>1. i - h \in 0..(TxCapacity - 1) /\ i = At(h, i - h)
    BY <1>1, TxAssumption DEF At, Indices
  <2>2. QED
    BY <2>1
<1>2. CASE i < h
  <2>1. i + TxCapacity - h \in 0..(TxCapacity - 1) /\ i = At(h, i + TxCapacity - h)
    BY <1>2, TxAssumption DEF At, Indices
  <2>2. QED
    BY <2>1
<1>3. QED
  BY <1>1, <1>2 DEF Indices

\* A set of numbers has a least one, which is what FirstOf chooses.
LEMMA FirstIs ==
  ASSUME NEW S \in SUBSET Nat, S # {}
  PROVE  FirstOf(S) \in S /\ \A j \in S : FirstOf(S) <= j
<1> DEFINE R == OpToRel(<, Nat)
<1>1. IsWellFoundedOn(R, Nat)
  BY NatLessThanWellFounded
<1> HIDE DEF R
<1>2. PICK x \in S : \A y \in S : <<y, x>> \notin R
  BY <1>1, WFMin
<1>3. \A y \in S : <<y, x>> \in Nat \X Nat
  BY <1>2
<1>4. \A y \in S : ~(y < x)
  BY <1>2, <1>3, Zenon DEF R, OpToRel
<1>5. \A y \in S : x <= y
  BY <1>4
<1>6. QED
  BY <1>5, Zenon DEF FirstOf

-----------------------------------------------------------------------------
\* The invariant: what QueueTypeOK says, without the modulus, and that the time since
\* the last transmission and the time to the next one add up to the smallest jitter.

Longest == IF MaxJitter > Gap THEN MaxJitter ELSE Gap

QueueShape ==
  /\ slots \in [Indices -> PacketSet \cup {Hole}]
  /\ head \in Indices /\ tail \in Indices /\ count \in 0..TxCapacity
  /\ tail = At(head, count)
  /\ \A i \in Indices : slots[i] = Hole \/ \E j \in 0..(count - 1) : i = At(head, j)

Timing ==
  /\ backoff \in 0..Longest
  /\ sent \in PacketSet \cup {Hole} /\ sinceSent \in 0..MinJitter
  /\ count > 0 => sinceSent + backoff >= MinJitter

Clock ==
  /\ tdmTime \in 0..(Cycle - 1) /\ desktop \in BOOLEAN /\ slot \in RadioSlots
  /\ slot \in {"mesh", SlotAt(tdmTime)}

LoopInv == QueueShape /\ Timing /\ Clock

LEMMA LoopStart == Init => LoopInv
<1> SUFFICES ASSUME Init PROVE LoopInv
  OBVIOUS
<1>1. QueueShape
  BY TxAssumption DEF Init, QueueInit, QueueShape, Indices, At
<1>2. Timing
  BY TxQueueAssumption DEF Init, QueueInit, Timing, Longest
<1>3. Clock
  <2>1. desktop \in BOOLEAN
    BY Zenon DEF Init
  <2>2. tdmTime \in 0..(Cycle - 1) /\ slot \in RadioSlots /\ slot \in {"mesh", SlotAt(tdmTime)}
    BY TdmAssumption DEF Init, RadioSlots
  <2>3. QED
    BY <2>1, <2>2 DEF Clock
<1>4. QED
  BY <1>1, <1>2, <1>3 DEF LoopInv

LEMMA Pendings ==
  ASSUME QueueShape
  PROVE  PendingIndices = {At(head, j) : j \in 0..(count - 1)}
<1>1. \A j \in 0..(count - 1) : StepBy(head, j) = At(head, j)
  <2>1. \A j \in 0..(count - 1) : j \in 0..TxCapacity
    BY TxAssumption DEF QueueShape
  <2>2. QED
    BY <2>1, StepIs DEF QueueShape
<1>2. QED
  BY <1>1 DEF PendingIndices

LEMMA ShapeIsType == LoopInv => TypeOK
<1> SUFFICES ASSUME LoopInv PROVE TypeOK
  OBVIOUS
<1>1. tail = StepBy(head, count)
  BY StepIs DEF LoopInv, QueueShape
<1>2. \A i \in Indices \ PendingIndices : slots[i] = Hole
  BY Pendings DEF LoopInv, QueueShape
<1>3. QED
  BY <1>1, <1>2 DEF LoopInv, QueueShape, Timing, Clock, Longest, QueueTypeOK, TypeOK

-----------------------------------------------------------------------------
\* Every step keeps the invariant.

\* A packet goes into the slot at the tail.
LEMMA InvScheduleTx ==
  ASSUME QueueShape, Timing, NEW p \in PacketSet, NEW jitter \in Jitters, ScheduleTx(p, jitter)
  PROVE  QueueShape' /\ Timing'
<1>1. TxCapacity \in Nat \ {0} /\ jitter \in Nat /\ MinJitter <= jitter /\ jitter <= MaxJitter
  BY TxAssumption, TxQueueAssumption DEF Jitters
<1>2. /\ StepBy(tail, 1) = At(tail, 1) /\ At(tail, 1) \in Indices
      /\ StepBy(head, 1) = At(head, 1) /\ At(head, 1) \in Indices
  BY <1>1, StepIs DEF QueueShape
<1>3. CASE count < TxCapacity
  <2>1. /\ slots' = [slots EXCEPT ![tail] = p] /\ count' = count + 1 /\ head' = head
        /\ tail' = At(tail, 1) /\ backoff' = IF count = 0 THEN jitter ELSE backoff
        /\ sent' = sent /\ sinceSent' = sinceSent
    BY <1>2, <1>3 DEF ScheduleTx
  <2>2. tail = At(head, count) /\ count \in 0..(TxCapacity - 1) /\ head \in Indices
    BY <1>1, <1>3 DEF QueueShape
  <2>3. At(tail, 1) = At(head, count + 1)
    BY <1>1, <2>2 DEF At, Indices
  <2>4. \A i \in Indices : slots'[i] = Hole \/ \E j \in 0..count : i = At(head, j)
    <3>1. \A j \in 0..(count - 1) : j \in 0..count
      BY <2>2
    <3>2. count \in 0..count
      BY <2>2
    <3>3. \A i \in Indices : i # tail => slots'[i] = slots[i]
      BY <2>1 DEF QueueShape
    <3>4. QED
      BY <2>2, <3>1, <3>2, <3>3, Zenon DEF QueueShape
  <2>5. count' - 1 = count /\ count' \in 0..TxCapacity
    BY <1>1, <2>1, <2>2
  <2>6. slots' \in [Indices -> PacketSet \cup {Hole}]
    BY <2>1 DEF QueueShape
  <2>7. QueueShape'
    BY <1>2, <2>1, <2>2, <2>3, <2>4, <2>5, <2>6 DEF QueueShape
  <2>8. Timing'
    BY <1>1, <2>1, <2>2, TxQueueAssumption DEF Timing, Longest
  <2>9. QED
    BY <2>7, <2>8
<1>4. CASE ~(count < TxCapacity)
  <2>1. /\ slots' = [slots EXCEPT ![head] = Hole, ![tail] = p] /\ count' = count
        /\ head' = At(head, 1) /\ tail' = At(tail, 1)
        /\ backoff' = backoff /\ sent' = sent /\ sinceSent' = sinceSent
    BY <1>2, <1>4 DEF ScheduleTx
  <2>2. /\ count = TxCapacity /\ tail = head /\ head \in Indices
        /\ slots \in [Indices -> PacketSet \cup {Hole}]
    BY <1>1, <1>4 DEF QueueShape, At, Indices
  <2>3. head' \in Indices /\ tail' \in Indices /\ tail' = At(head', count')
    BY <1>1, <1>2, <2>1, <2>2 DEF At, Indices
  <2>4. \A i \in Indices : \E j \in 0..(count - 1) : i = At(head', j)
    BY <2>2, <2>3, Covers
  <2>5. slots' \in [Indices -> PacketSet \cup {Hole}]
    BY <2>1, <2>2
  <2>6. QueueShape'
    BY <1>1, <2>1, <2>2, <2>3, <2>4, <2>5 DEF QueueShape
  <2>7. Timing'
    BY <2>1 DEF Timing, Longest
  <2>8. QED
    BY <2>6, <2>7
<1>5. QED
  BY <1>3, <1>4

LEMMA InvOverhear ==
  ASSUME QueueShape, Timing, NEW key \in Keys, Overhear(key)
  PROVE  QueueShape' /\ Timing'
<1> DEFINE x == StepBy(head, FirstOf(MatchingFromHead(key)))
<1>1. /\ slots' = [slots EXCEPT ![x] = Hole]
      /\ UNCHANGED <<head, tail, count, backoff, sent, sinceSent>>
  BY DEF Overhear
<1> HIDE DEF x
<1>2. slots' \in [Indices -> PacketSet \cup {Hole}] /\ \A i \in Indices : slots'[i] \in {slots[i], Hole}
  BY <1>1 DEF QueueShape
<1>3. QED
  BY <1>1, <1>2 DEF QueueShape, Timing, Longest

LEMMA InvWait ==
  ASSUME QueueShape, Timing, Wait
  PROVE  QueueShape' /\ Timing'
<1>1. QueueShape'
  BY DEF Wait, QueueShape
<1>2. Timing'
  BY TxQueueAssumption DEF Wait, Expires, Older, Timing, Longest, QueueShape
<1>3. QED
  BY <1>1, <1>2

LEMMA InvElsewhere ==
  ASSUME QueueShape, Timing, Elsewhere
  PROVE  QueueShape' /\ Timing'
<1>1. QueueShape'
  BY DEF Elsewhere, QueueShape
<1>2. Timing'
  BY TxQueueAssumption DEF Elsewhere, Older, Timing, Longest
<1>3. QED
  BY <1>1, <1>2

\* How many slots take_pending leaves behind.
Leaves == IF Live = {} THEN count ELSE FirstOf(Live) + 1

LEMMA LeavesSome ==
  ASSUME QueueShape, count > 0
  PROVE  /\ Leaves \in 1..count
         /\ \A j \in 0..(Leaves - 1) : StepBy(head, j) = At(head, j)
<1>1. Live \in SUBSET Nat /\ \A i \in Live : i \in 0..(count - 1)
  BY DEF Live, QueueShape
<1>2. Leaves \in 1..count
  <2>1. count \in Nat /\ count > 0
    BY TxAssumption DEF QueueShape
  <2>2. CASE Live = {}
    BY <2>1, <2>2 DEF Leaves
  <2>3. CASE Live # {}
    <3>1. FirstOf(Live) \in 0..(count - 1)
      BY <1>1, <2>3, FirstIs
    <3>2. QED
      BY <2>1, <2>3, <3>1 DEF Leaves
  <2>4. QED
    BY <2>2, <2>3
<1>3. \A j \in 0..(Leaves - 1) : j \in 0..TxCapacity
  BY <1>2, TxAssumption DEF QueueShape
<1>4. QED
  BY <1>2, <1>3, StepIs DEF QueueShape

\* The head moves on, and the slots it leaves are holes.
LEMMA TakingShape ==
  ASSUME QueueShape, TakePending
  PROVE  QueueShape'
<1> DEFINE n == Leaves
<1>1. /\ count > 0 /\ count' = count - n /\ head' = StepBy(head, n) /\ tail' = tail
      /\ slots' = [i \in Indices |->
                     IF i \in {StepBy(head, j) : j \in 0..(n - 1)} THEN Hole ELSE slots[i]]
  BY DEF TakePending, Leaves
<1>2. n \in 1..count /\ \A j \in 0..(n - 1) : StepBy(head, j) = At(head, j)
  BY <1>1, LeavesSome
<1> HIDE DEF n
<1>3. /\ TxCapacity \in Nat \ {0} /\ count \in 1..TxCapacity /\ head \in Indices
      /\ n \in 0..TxCapacity /\ tail = At(head, count) /\ tail \in Indices
      /\ slots \in [Indices -> PacketSet \cup {Hole}]
  BY <1>1, <1>2, TxAssumption DEF QueueShape
<1>4. head' = At(head, n) /\ head' \in Indices
  BY <1>1, <1>3, StepIs
<1>5. /\ count' \in 0..TxCapacity
      /\ \A j \in 0..count' : At(head', j) = At(head, n + j)
  <2>1. count' \in 0..TxCapacity /\ \A j \in 0..count' : j \in 0..(TxCapacity - n)
    BY <1>1, <1>2, <1>3
  <2>2. QED
    BY <1>3, <1>4, <2>1, AtAt
<1>6. tail' = At(head', count')
  <2>1. count' \in 0..count' /\ n + count' = count
    BY <1>1, <1>2, <1>3
  <2>2. QED
    BY <1>1, <1>3, <1>5, <2>1
<1>7. \A i \in Indices : slots'[i] = Hole \/ \E j \in 0..(count' - 1) : i = At(head', j)
  <2>1. SUFFICES ASSUME NEW i \in Indices, slots'[i] # Hole
                 PROVE  \E j \in 0..(count' - 1) : i = At(head', j)
    OBVIOUS
  <2>2. slots[i] # Hole /\ i \notin {StepBy(head, j) : j \in 0..(n - 1)}
    BY <1>1, <2>1
  <2>3. PICK j \in 0..(count - 1) : i = At(head, j)
    BY <2>2 DEF QueueShape
  <2>4. j \notin 0..(n - 1)
    BY <1>2, <2>2, <2>3
  <2>5. j - n \in 0..(count' - 1) /\ j - n \in 0..count' /\ n + (j - n) = j
    BY <1>1, <1>2, <1>3, <2>4
  <2>6. i = At(head', j - n)
    BY <1>5, <2>3, <2>5
  <2>7. QED
    BY <2>5, <2>6
<1>8. slots' \in [Indices -> PacketSet \cup {Hole}]
  BY <1>1, <1>3
<1>9. QED
  BY <1>1, <1>3, <1>4, <1>5, <1>6, <1>7, <1>8 DEF QueueShape

LEMMA TakingTime ==
  ASSUME QueueShape, Timing, TakePending
  PROVE  Timing'
<1>1. /\ count \in Nat /\ count' = count - Leaves /\ Leaves \in 1..count
      /\ backoff' = (IF count > 1 THEN Gap ELSE 0)
  BY LeavesSome, TxAssumption DEF TakePending, Leaves, GapBetween, QueueShape
<1>2. sent' \in PacketSet \cup {Hole}
  <2>1. CASE Live = {}
    BY <2>1 DEF TakePending, Timing
  <2>2. CASE Live # {}
    <3>1. sent' = slots[StepBy(head, Leaves - 1)]
      BY <2>2 DEF TakePending, Leaves
    <3>2. StepBy(head, Leaves - 1) \in Indices
      <4>1. Leaves - 1 \in 0..TxCapacity
        BY <1>1, TxAssumption DEF QueueShape
      <4>2. QED
        BY <4>1, StepIs DEF QueueShape
    <3>3. QED
      BY <3>1, <3>2 DEF QueueShape
  <2>3. QED
    BY <2>1, <2>2
<1>3. sinceSent' \in 0..MinJitter
  BY TxQueueAssumption DEF TakePending, Older, Timing
<1>4. count' > 0 => count > 1
  BY <1>1
<1>5. /\ backoff' \in 0..(IF MaxJitter > Gap THEN MaxJitter ELSE Gap)
      /\ count' > 0 => sinceSent' + backoff' >= MinJitter
  <2>1. CASE count > 1
    <3>1. backoff' = Gap
      BY <1>1, <2>1
    <3>2. Gap \in 0..(IF MaxJitter > Gap THEN MaxJitter ELSE Gap)
      BY TxQueueAssumption
    <3>3. \A t \in 0..MinJitter : t + Gap >= MinJitter
      BY TxQueueAssumption
    <3>4. QED
      BY <1>3, <3>1, <3>2, <3>3
  <2>2. CASE ~(count > 1)
    <3>1. backoff' = 0 /\ ~(count' > 0)
      BY <1>1, <1>4, <2>2
    <3>2. QED
      BY <3>1, TxQueueAssumption
  <2>3. QED
    BY <2>1, <2>2
<1>6. QED
  BY <1>2, <1>3, <1>5 DEF Timing, Longest

\* The clock of the arbiter.
LEMMA InvAdvance ==
  ASSUME Clock, Advance
  PROVE  Clock'
<1>1. AdvancedTime \in 0..(Cycle - 1)
  BY TdmAssumption DEF AdvancedTime, Clock
<1>2. tdmTime' \in {tdmTime, AdvancedTime} /\ slot' \in {"mesh", SlotAt(tdmTime')}
  BY Zenon DEF Advance
<1>3. desktop' \in BOOLEAN
  BY Zenon DEF Advance, Clock
<1>4. tdmTime' \in 0..(Cycle - 1)
  BY <1>1, <1>2 DEF Clock
<1>5. slot' \in RadioSlots
  BY <1>2 DEF SlotAt, RadioSlots
<1>6. QED
  BY <1>2, <1>3, <1>4, <1>5, Zenon DEF Clock

LEMMA LoopStep == LoopInv /\ [Next]_vars => LoopInv'
<1> SUFFICES ASSUME LoopInv, [Next]_vars PROVE LoopInv'
  OBVIOUS
<1> USE DEF LoopInv
<1>1. CASE Turn
  <2>1. Clock'
    BY <1>1, InvAdvance DEF Turn
  <2>2. CASE Wait
    BY <2>1, <2>2, InvWait
  <2>3. CASE TakePending
    BY <2>1, <2>3, TakingShape, TakingTime
  <2>4. CASE Elsewhere
    BY <2>1, <2>4, InvElsewhere
  <2>5. QED
    BY <1>1, <2>2, <2>3, <2>4 DEF Turn
<1>2. ASSUME NEW key \in Keys, NEW jitter \in Jitters,
             ScheduleUser(key, jitter) \/ ScheduleTelemetry(key, jitter)
      PROVE  QueueShape' /\ Timing'
  <2>1. PICK kind \in {"user", "telemetry"} : ScheduleTx([key |-> key, kind |-> kind], jitter)
    BY <1>2 DEF ScheduleUser, ScheduleTelemetry
  <2>2. [key |-> key, kind |-> kind] \in PacketSet
    BY DEF PacketSet
  <2>3. QED
    BY <2>1, <2>2, InvScheduleTx
<1>3. CASE FromHost
  <2>1. Clock'
    BY <1>3, Zenon DEF FromHost, Clock
  <2>2. QED
    BY <1>2, <1>3, <2>1 DEF FromHost
<1>4. CASE FromMesh
  <2>1. Clock'
    BY <1>4, Zenon DEF FromMesh, Clock
  <2>2. QED
    BY <1>2, <1>4, <2>1, InvOverhear DEF FromMesh
<1>5. CASE SetDesktopMode
  <2>1. QueueShape' /\ Timing'
    BY <1>5 DEF SetDesktopMode, queueVars, QueueShape, Timing, Longest
  <2>2. Clock'
    BY <1>5, Zenon DEF SetDesktopMode, Clock
  <2>3. QED
    BY <2>1, <2>2
<1>6. CASE UNCHANGED vars
  <2>1. QueueShape' /\ Timing'
    BY <1>6 DEF vars, queueVars, QueueShape, Timing, Longest
  <2>2. Clock'
    BY <1>6, Zenon DEF vars, Clock
  <2>3. QED
    BY <2>1, <2>2
<1>7. QED
  BY <1>1, <1>3, <1>4, <1>5, <1>6 DEF Next

\* The ring's cursors, count and slots agree, and the clock with the slot, whatever the
\* host, the mesh and the turns of the loop do (ieee802154.rs, coex.rs).
THEOREM TypeCorrect == Spec => []TypeOK
BY LoopStart, LoopStep, ShapeIsType, PTL DEF Spec

\* Between two transmissions a dongle leaves the air free for at least the smallest
\* jitter, even if its queue has run empty, was cancelled or full in between.
THEOREM SpacedOut == Spec => Spaced
<1>1. LoopInv => [Transmits => Older(sinceSent) >= MinJitter]_queueVars
  <2>1. SUFFICES ASSUME LoopInv, TakePending PROVE Older(sinceSent) >= MinJitter
    BY DEF Transmits
  <2>2. count > 0 /\ backoff <= 1
    BY <2>1 DEF TakePending, Expires
  <2>3. QED
    BY <2>1, <2>2, TxQueueAssumption DEF LoopInv, Timing, Older, Longest
<1>2. QED
  BY <1>1, LoopStart, LoopStep, PTL DEF Spec, Spaced

-----------------------------------------------------------------------------
\* The queue that a ring stands for: its pending slots from the head on.

Slot == PacketSet \cup {Hole}
Queued(b, h, c) == [i \in 1..c |-> b[StepBy(h, i - 1)]]

LEMMA QueuedAre ==
  ASSUME NEW h \in Indices, NEW c \in 0..TxCapacity, NEW b \in [Indices -> Slot]
  PROVE  /\ Queued(b, h, c) \in Seq(Slot) /\ Len(Queued(b, h, c)) = c
         /\ \A i \in 1..c : Queued(b, h, c)[i] = b[At(h, i - 1)] /\ At(h, i - 1) \in Indices
<1>1. \A i \in 1..c : StepBy(h, i - 1) = At(h, i - 1) /\ At(h, i - 1) \in Indices
  <2>1. \A i \in 1..c : i - 1 \in 0..TxCapacity
    BY TxAssumption
  <2>2. QED
    BY <2>1, StepIs
<1>2. \A i \in 1..c : b[At(h, i - 1)] \in Slot
  BY <1>1
<1> DEFINE f == Queued(b, h, c)
<1>3. \A i \in 1..c : f[i] = b[At(h, i - 1)]
  BY <1>1, Zenon DEF Queued
<1>4. f = [i \in 1..c |-> f[i]]
  BY Zenon DEF Queued
<1>5. c \in Nat
  BY TxAssumption
<1> HIDE DEF f
<1>6. f \in [1..c -> Slot]
  BY <1>2, <1>3, <1>4, Zenon
<1>7. f \in Seq(Slot) /\ Len(f) = c
  BY <1>5, <1>6
<1>8. QED
  BY <1>1, <1>3, <1>7 DEF f

Queue == [i \in 1..count |-> slots[StepBy(head, i - 1)]]

LEMMA QueueAre ==
  ASSUME QueueShape
  PROVE  /\ Queue \in Seq(Slot) /\ Len(Queue) = count
         /\ \A i \in 1..count : Queue[i] = slots[At(head, i - 1)] /\ At(head, i - 1) \in Indices
<1>1. Queue = Queued(slots, head, count)
  BY DEF Queue, Queued
<1>2. QED
  BY <1>1, QueuedAre DEF QueueShape, Slot

LEMMA QueueNext ==
  ASSUME QueueShape'
  PROVE  /\ Queue' \in Seq(Slot) /\ Len(Queue') = count'
         /\ \A i \in 1..count' : Queue'[i] = slots'[At(head', i - 1)]
<1>1. Queue' = Queued(slots', head', count')
  BY DEF Queue, Queued
<1>2. QED
  BY <1>1, QueuedAre DEF QueueShape, Slot

\* A packet is appended; a full queue gives up its first slot.
LEMMA ScheduleRefines ==
  ASSUME QueueShape, QueueShape', NEW p \in PacketSet, NEW jitter \in Jitters,
         ScheduleTx(p, jitter)
  PROVE  Queue' = Schedule(Queue, p) /\ sent' = sent
<1> DEFINE q == Queue  r == Queue'
<1>1. /\ TxCapacity \in Nat \ {0} /\ count \in 0..TxCapacity /\ sent' = sent
      /\ head \in Indices /\ tail \in Indices /\ tail = At(head, count)
      /\ slots \in [Indices -> Slot] /\ p \in Slot
  BY TxAssumption DEF QueueShape, ScheduleTx, Slot
<1>2. /\ q \in Seq(Slot) /\ Len(q) = count
      /\ \A i \in 1..count : q[i] = slots[At(head, i - 1)] /\ At(head, i - 1) \in Indices
  BY QueueAre
<1>3. /\ r \in Seq(Slot) /\ Len(r) = count'
      /\ \A i \in 1..count' : r[i] = slots'[At(head', i - 1)]
  BY QueueNext
<1> HIDE DEF q, r
<1>4. CASE count < TxCapacity
  <2>1. /\ slots' = [slots EXCEPT ![tail] = p] /\ count' = count + 1 /\ head' = head
        /\ count \in 0..(TxCapacity - 1)
    BY <1>1, <1>4 DEF ScheduleTx
  <2>2. \A i \in 1..count : At(head, i - 1) # tail
    BY <1>1, <2>1 DEF At, Indices
  <2>3. /\ Append(q, p) \in Seq(Slot) /\ Len(Append(q, p)) = count + 1
        /\ (\A i \in 1..count : Append(q, p)[i] = q[i]) /\ Append(q, p)[count + 1] = p
    BY <1>1, <1>2, AppendProperties
  <2>4. \A i \in 1..count : r[i] = q[i]
    <3>1. \A i \in 1..count : i \in 1..count' /\ slots'[At(head, i - 1)] = slots[At(head, i - 1)]
      BY <1>1, <1>2, <2>1, <2>2
    <3>2. QED
      BY <1>2, <1>3, <2>1, <3>1
  <2>5. r[count + 1] = p
    <3>1. count + 1 \in 1..count' /\ (count + 1) - 1 = count
      BY <2>1
    <3>2. r[count + 1] = slots'[tail]
      BY <1>1, <1>3, <2>1, <3>1
    <3>3. QED
      BY <1>1, <2>1, <3>2
  <2>6. \A i \in 1..(count + 1) : i = count + 1 \/ i \in 1..count
    BY <2>1
  <2>7. \A i \in 1..(count + 1) : r[i] = Append(q, p)[i]
    BY <2>3, <2>4, <2>5, <2>6
  <2>8. r = Append(q, p)
    BY <1>3, <2>1, <2>3, <2>7, SeqEqual
  <2>9. Len(q) # TxCapacity
    BY <1>2, <2>1
  <2>10. QED
    BY <1>1, <2>8, <2>9 DEF Schedule, Full, q, r
<1>5. CASE ~(count < TxCapacity)
  <2>1. /\ count = TxCapacity /\ count' = TxCapacity /\ tail = head
        /\ slots' = [slots EXCEPT ![head] = Hole, ![tail] = p]
        /\ head' = At(head, 1) /\ head' \in Indices
    <3>1. count = TxCapacity /\ tail = head /\ 1 \in 0..TxCapacity
      BY <1>1, <1>5 DEF At, Indices
    <3>2. StepBy(head, 1) = At(head, 1) /\ At(head, 1) \in Indices
      BY <1>1, <3>1, StepIs
    <3>3. /\ slots' = [slots EXCEPT ![head] = Hole, ![tail] = p]
          /\ head' = StepBy(head, 1) /\ count' = count
      BY <1>5 DEF ScheduleTx
    <3>4. QED
      BY <3>1, <3>2, <3>3
  <2>2. /\ Tail(q) \in Seq(Slot) /\ Len(Tail(q)) = TxCapacity - 1
        /\ \A i \in 1..(TxCapacity - 1) : Tail(q)[i] = q[i + 1]
    <3>1. q # <<>>
      BY <1>1, <1>2, <2>1
    <3>2. QED
      BY <1>2, <2>1, <3>1, HeadTailProperties
  <2> DEFINE t == Tail(q)
  <2>3. /\ Append(t, p) \in Seq(Slot) /\ Len(Append(t, p)) = TxCapacity
        /\ (\A i \in 1..(TxCapacity - 1) : Append(t, p)[i] = t[i]) /\ Append(t, p)[TxCapacity] = p
    <3> HIDE DEF t
    <3>1. t \in Seq(Slot) /\ Len(t) = TxCapacity - 1 /\ (TxCapacity - 1) + 1 = TxCapacity
      BY <1>1, <2>2 DEF t
    <3>2. QED
      BY <1>1, <3>1, AppendProperties
  <2>4. \A i \in 1..(TxCapacity - 1) :
          At(At(head, 1), i - 1) = At(head, i) /\ At(head, i) # head /\ At(head, i) \in Indices
    BY <1>1 DEF At, Indices
  <2>5. At(At(head, 1), TxCapacity - 1) = head
    BY <1>1 DEF At, Indices
  <2>6. \A i \in 1..(TxCapacity - 1) : r[i] = t[i]
    <3>1. SUFFICES ASSUME NEW i \in 1..(TxCapacity - 1) PROVE r[i] = t[i]
      OBVIOUS
    <3>2. i \in 1..count' /\ i + 1 \in 1..count /\ (i + 1) - 1 = i
      BY <1>1, <2>1
    <3>3. r[i] = slots'[At(head, i)]
      BY <1>3, <2>1, <2>4, <3>2
    <3>4. q[i + 1] = slots[At(head, i)]
      BY <1>2, <3>2
    <3>5. slots'[At(head, i)] = slots[At(head, i)]
      BY <1>1, <2>1, <2>4
    <3>6. QED
      BY <2>2, <3>3, <3>4, <3>5
  <2>7. r[TxCapacity] = p
    <3>1. TxCapacity \in 1..count'
      BY <1>1, <2>1
    <3>2. r[TxCapacity] = slots'[head]
      BY <1>3, <2>1, <2>5, <3>1
    <3>3. QED
      BY <1>1, <2>1, <3>2
  <2> HIDE DEF t
  <2>8. \A i \in 1..TxCapacity : i = TxCapacity \/ i \in 1..(TxCapacity - 1)
    BY <1>1
  <2>9. \A i \in 1..TxCapacity : r[i] = Append(t, p)[i]
    BY <2>3, <2>6, <2>7, <2>8
  <2>10. r = Append(t, p)
    BY <1>3, <2>1, <2>3, <2>9, SeqEqual
  <2>11. Len(q) = TxCapacity
    BY <1>2, <2>1
  <2>12. QED
    BY <1>1, <2>10, <2>11 DEF Schedule, Full, q, r, t
<1>6. QED
  BY <1>4, <1>5

\* The first of positions counted from 1 and of the same ones counted from 0.
LEMMA FirstShifted ==
  ASSUME NEW S \in SUBSET Nat, S # {}, NEW T, T = {i + 1 : i \in S}
  PROVE  T # {} /\ FirstOf(T) = FirstOf(S) + 1
<1> DEFINE s == FirstOf(S)  t == FirstOf(T)
<1>1. s \in S /\ s \in Nat /\ \A i \in S : s <= i
  BY FirstIs
<1>2. T \in SUBSET Nat /\ s + 1 \in T
  BY <1>1
<1>3. t \in T /\ t \in Nat /\ \A i \in T : t <= i
  BY <1>2, FirstIs
<1> HIDE DEF s, t
<1>4. PICK i \in S : t = i + 1
  BY <1>3
<1>5. s <= i /\ t <= s + 1
  BY <1>1, <1>2, <1>3
<1>6. t = s + 1
  BY <1>1, <1>3, <1>4, <1>5
<1>7. QED
  BY <1>2, <1>6 DEF s, t

LEMMA PositionsAre ==
  ASSUME QueueShape
  PROVE  /\ PendingIn(Queue) = {i + 1 : i \in Live}
         /\ \A key : Pending!Matching(Queue, key) = {i + 1 : i \in MatchingFromHead(key)}
<1> DEFINE q == Queue
<1>1. DOMAIN q = 1..count /\ \A i \in 1..count : q[i] = slots[StepBy(head, i - 1)]
  BY DEF Queue
<1> HIDE DEF q
<1>2. /\ count \in Nat
      /\ \A i \in 1..count : i - 1 \in 0..(count - 1) /\ (i - 1) + 1 = i
      /\ \A i \in 0..(count - 1) : i + 1 \in 1..count /\ (i + 1) - 1 = i
  BY TxAssumption DEF QueueShape
<1>3. PendingIn(q) = {i + 1 : i \in Live}
  BY <1>1, <1>2 DEF PendingIn, Live
<1>4. ASSUME NEW key
      PROVE  Pending!Matching(q, key) = {i + 1 : i \in MatchingFromHead(key)}
  BY <1>1, <1>2 DEF Pending!Matching, Pending!PendingIn, MatchingFromHead
<1>5. QED
  BY <1>3, <1>4 DEF q

\* A cancelled packet leaves a hole in its place.
LEMMA OverhearRefines ==
  ASSUME QueueShape, QueueShape', NEW key \in Keys, Overhear(key)
  PROVE  /\ Pending!Matching(Queue, key) # {}
         /\ Queue' = CancelFirst(Queue, Pending!Matching(Queue, key)) /\ sent' = sent
<1> DEFINE q == Queue  r == Queue'  M == Pending!Matching(Queue, key)
           m == FirstOf(MatchingFromHead(key))
<1>1. MatchingFromHead(key) \in SUBSET (0..(count - 1)) /\ MatchingFromHead(key) # {}
  BY DEF MatchingFromHead, Overhear
<1>2. count \in Nat /\ MatchingFromHead(key) \in SUBSET Nat
  BY <1>1, TxAssumption DEF QueueShape
<1>3. m \in 0..(count - 1) /\ M # {} /\ FirstOf(M) = m + 1
  <2>1. m \in MatchingFromHead(key)
    BY <1>1, <1>2, FirstIs
  <2>2. M = {i + 1 : i \in MatchingFromHead(key)}
    BY PositionsAre
  <2>3. QED
    BY <1>1, <1>2, <2>1, <2>2, FirstShifted
<1>4. /\ slots' = [slots EXCEPT ![StepBy(head, m)] = Hole]
      /\ head' = head /\ count' = count /\ sent' = sent
  BY DEF Overhear
<1>5. /\ q \in Seq(Slot) /\ Len(q) = count
      /\ \A i \in 1..count : q[i] = slots[At(head, i - 1)] /\ At(head, i - 1) \in Indices
  BY QueueAre
<1>6. /\ r \in Seq(Slot) /\ Len(r) = count
      /\ \A i \in 1..count : r[i] = slots'[At(head, i - 1)]
  BY <1>4, QueueNext
<1> HIDE DEF q, r, m, M
<1>7. /\ TxCapacity \in Nat \ {0} /\ count \in 0..TxCapacity /\ head \in Indices
      /\ slots \in [Indices -> Slot] /\ Hole \in Slot
  BY TxAssumption DEF QueueShape, Slot
<1>8. StepBy(head, m) = At(head, m)
  <2>1. m \in 0..TxCapacity
    BY <1>3, <1>7
  <2>2. QED
    BY <1>7, <2>1, StepIs
<1>9. \A i \in 1..count : At(head, i - 1) = At(head, m) <=> i = m + 1
  <2>1. \A i \in 1..count : i - 1 \in 0..(TxCapacity - 1) /\ (i - 1 = m <=> i = m + 1)
    BY <1>3, <1>7
  <2>2. m \in 0..(TxCapacity - 1)
    BY <1>3, <1>7
  <2>3. QED
    BY <1>7, <2>1, <2>2, AtDiffers
<1>10. \A i \in 1..count : r[i] = IF i = m + 1 THEN Hole ELSE q[i]
  <2>1. SUFFICES ASSUME NEW i \in 1..count PROVE r[i] = IF i = m + 1 THEN Hole ELSE q[i]
    OBVIOUS
  <2>2. At(head, i - 1) \in Indices /\ r[i] = slots'[At(head, i - 1)] /\ q[i] = slots[At(head, i - 1)]
    BY <1>5, <1>6
  <2>3. slots'[At(head, i - 1)] = IF At(head, i - 1) = At(head, m) THEN Hole ELSE slots[At(head, i - 1)]
    BY <1>4, <1>7, <1>8, <2>2
  <2>4. QED
    BY <1>9, <2>2, <2>3
<1> DEFINE e == [q EXCEPT ![m + 1] = Hole]
<1>11. /\ e \in Seq(Slot) /\ Len(e) = count
       /\ \A i \in 1..count : e[i] = IF i = m + 1 THEN Hole ELSE q[i]
  <2>1. m + 1 \in 1..Len(q) /\ m + 1 \in 1..count
    BY <1>3, <1>5
  <2>2. QED
    BY <1>5, <1>7, <2>1, ExceptSeq
<1> HIDE DEF e
<1>12. \A i \in 1..count : r[i] = e[i]
  BY <1>10, <1>11
<1>13. r = e
  BY <1>6, <1>11, <1>12, SeqEqual
<1>14. QED
  BY <1>3, <1>4, <1>13 DEF CancelFirst, q, r, e, M

\* What taking leaves in the slots behind those that it leaves.
LEMMA TakingKeeps ==
  ASSUME QueueShape, QueueShape', TakePending
  PROVE  \A i \in 1..count' : Queue'[i] = Queue[Leaves + i]
<1> DEFINE n == Leaves  q == Queue  r == Queue'
<1>1. /\ count > 0 /\ count' = count - n /\ head' = StepBy(head, n)
      /\ slots' = [i \in Indices |->
                     IF i \in {StepBy(head, j) : j \in 0..(n - 1)} THEN Hole ELSE slots[i]]
  BY DEF TakePending, Leaves
<1>2. n \in 1..count /\ \A j \in 0..(n - 1) : StepBy(head, j) = At(head, j)
  BY <1>1, LeavesSome
<1>3. \A i \in 1..count : q[i] = slots[At(head, i - 1)] /\ At(head, i - 1) \in Indices
  BY QueueAre
<1>4. \A i \in 1..count' : r[i] = slots'[At(head', i - 1)]
  BY QueueNext
<1> HIDE DEF n, q, r
<1>5. TxCapacity \in Nat \ {0} /\ count \in 1..TxCapacity /\ head \in Indices /\ n \in 0..TxCapacity
  BY <1>1, <1>2, TxAssumption DEF QueueShape
<1>6. head' = At(head, n)
  BY <1>1, <1>5, StepIs
<1>7. SUFFICES ASSUME NEW i \in 1..count' PROVE r[i] = q[n + i]
  BY DEF n, q, r
<1> DEFINE k == n + (i - 1)
<1>8. /\ i - 1 \in 0..(TxCapacity - n) /\ k \in 0..(TxCapacity - 1) /\ ~(k < n)
      /\ n + i \in 1..count /\ (n + i) - 1 = k
  BY <1>1, <1>2, <1>5
<1>9. At(head', i - 1) = At(head, k)
  BY <1>5, <1>6, <1>8, AtAt
<1>10. q[n + i] = slots[At(head, k)] /\ At(head, k) \in Indices
  BY <1>3, <1>8
<1> HIDE DEF k
<1>11. At(head, k) \notin {StepBy(head, j) : j \in 0..(n - 1)}
  <2>1. SUFFICES ASSUME NEW j \in 0..(n - 1), At(head, k) = At(head, j) PROVE FALSE
    BY <1>2
  <2>2. j \in 0..(TxCapacity - 1)
    BY <1>5
  <2>3. k = j
    BY <1>5, <1>8, <2>1, <2>2, AtDiffers
  <2>4. QED
    BY <1>5, <1>8, <2>3
<1>12. slots'[At(head, k)] = slots[At(head, k)]
  BY <1>1, <1>10, <1>11
<1>13. QED
  BY <1>4, <1>9, <1>10, <1>12

\* The first packet leaves the queue with the holes before it.
LEMMA TakingRefines ==
  ASSUME QueueShape, QueueShape', TakePending
  PROVE  Pending!Take
<1> DEFINE q == Queue  r == Queue'  m == FirstOf(Live)
<1>1. /\ count \in Nat /\ count > 0 /\ Leaves \in 1..count /\ count' = count - Leaves
  BY LeavesSome, TxAssumption DEF TakePending, Leaves, QueueShape
<1>2. q \in Seq(Slot) /\ Len(q) = count /\ r \in Seq(Slot) /\ Len(r) = count'
  BY QueueAre, QueueNext
<1>3. PendingIn(q) = {i + 1 : i \in Live}
  BY PositionsAre
<1>4. \A i \in 1..count' : r[i] = q[Leaves + i]
  BY TakingKeeps
<1>5. \A i \in 1..count : q[i] = slots[StepBy(head, i - 1)]
  BY DEF Queue
<1> HIDE DEF q, r
<1>6. q # <<>>
  BY <1>1, <1>2, EmptySeq
<1>7. CASE Live = {}
  <2>1. PendingIn(q) = {}
    BY <1>3, <1>7
  <2>2. count' = 0 /\ sent' = sent
    BY <1>1, <1>7 DEF Leaves, TakePending
  <2>3. r = <<>>
    BY <1>2, <2>2, EmptySeq
  <2>4. r = AfterTaking(q) /\ Taken(q) = Hole
    BY <2>1, <2>3 DEF AfterTaking, Taken
  <2>5. QED
    BY <1>6, <2>2, <2>4
    DEF Pending!Take, Pending!AfterTaking, Pending!Taken, Pending!PendingIn, Pending!FirstOf,
        AfterTaking, Taken, PendingIn, FirstOf, Queue, q, r
<1>8. CASE Live # {}
  <2>1. Live \in SUBSET Nat /\ m \in Live
    <3>1. Live \in SUBSET Nat
      BY DEF Live
    <3>2. QED
      BY <1>8, <3>1, FirstIs
  <2>2. PendingIn(q) # {} /\ FirstOf(PendingIn(q)) = m + 1
    BY <1>3, <1>8, <2>1, FirstShifted
  <2>3. m \in 0..(count - 1) /\ slots[StepBy(head, m)] # Hole
    BY <2>1 DEF Live
  <2>4. Leaves = m + 1 /\ sent' = slots[StepBy(head, Leaves - 1)]
    BY <1>8 DEF Leaves, TakePending
  <2> HIDE DEF m
  <2>5. Taken(q) = slots[StepBy(head, m)] /\ sent' = Taken(q) /\ Taken(q) # Hole
    <3>1. m + 1 \in 1..count /\ (m + 1) - 1 = m /\ Leaves - 1 = m
      BY <1>1, <2>3, <2>4
    <3>2. Taken(q) = q[m + 1]
      BY <2>2 DEF Taken
    <3>3. QED
      BY <1>5, <2>3, <2>4, <3>1, <3>2
  <2>6. AfterTaking(q) = SubSeq(q, (m + 1) + 1, count)
    BY <1>2, <2>2 DEF AfterTaking
  <2> DEFINE t == SubSeq(q, (m + 1) + 1, count)
  <2>7. /\ t \in Seq(Slot) /\ Len(t) = count'
        /\ \A i \in 1..count' : t[i] = q[Leaves + i]
    <3> DEFINE b == (m + 1) + 1
    <3>1. /\ b \in Int /\ count \in Int /\ b \in 1..(count + 1) /\ b = Leaves + 1
          /\ (IF b <= count THEN count - b + 1 ELSE 0) = count' /\ count - b + 1 = count'
      BY <1>1, <2>3, <2>4
    <3>2. \A i \in b..count : q[i] \in Slot
      BY <1>2, <3>1
    <3>3. \A i \in 1..count' : b + i - 1 = Leaves + i
      BY <1>1, <3>1
    <3> HIDE DEF b
    <3>4. /\ SubSeq(q, b, count) \in Seq(Slot) /\ Len(SubSeq(q, b, count)) = count'
          /\ \A i \in 1..count' : SubSeq(q, b, count)[i] = q[b + i - 1]
      BY <3>1, <3>2, SubSeqProperties
    <3>5. QED
      BY <3>3, <3>4 DEF b
  <2> HIDE DEF t
  <2>8. \A i \in 1..count' : r[i] = t[i]
    BY <1>4, <2>7
  <2>9. r = t
    BY <1>2, <2>7, <2>8, SeqEqual
  <2>10. r = AfterTaking(q)
    BY <2>6, <2>9 DEF t
  <2>11. QED
    BY <1>6, <2>5, <2>10
    DEF Pending!Take, Pending!AfterTaking, Pending!Taken, Pending!PendingIn, Pending!FirstOf,
        AfterTaking, Taken, PendingIn, FirstOf, Queue, q, r
<1>9. QED
  BY <1>7, <1>8

\* Telemetry finds no user traffic in the queue.
LEMMA AcceptRefines ==
  ASSUME QueueShape, QueueShape', NEW key \in Keys, NEW jitter \in Jitters,
         ScheduleUser(key, jitter) \/ ScheduleTelemetry(key, jitter)
  PROVE  \E p \in Pending!PacketSet : Pending!Accept(p)
<1>1. PICK kind \in {"user", "telemetry"} :
        /\ ScheduleTx([key |-> key, kind |-> kind], jitter)
        /\ kind = "telemetry" => ~UserPending
  BY DEF ScheduleUser, ScheduleTelemetry
<1> DEFINE p == [key |-> key, kind |-> kind]
<1>2. p \in PacketSet /\ p.kind = kind
  BY DEF PacketSet
<1> HIDE DEF p
<1>3. Queue' = Schedule(Queue, p) /\ sent' = sent
  BY <1>1, <1>2, ScheduleRefines DEF p
<1>4. ~UserPending => Pending!UserTraffic(Queue) = {}
  <2>1. SUFFICES ASSUME ~UserPending, NEW i \in DOMAIN Queue, Queue[i] # Hole
                 PROVE  Queue[i].kind = "telemetry"
    BY DEF Pending!UserTraffic, Pending!PendingIn
  <2>2. i \in 1..count /\ Queue[i] = slots[StepBy(head, i - 1)]
    BY DEF Queue
  <2>3. i - 1 \in 0..(count - 1)
    BY <2>2, TxAssumption DEF QueueShape
  <2>4. StepBy(head, i - 1) \in PendingIndices
    BY <2>3 DEF PendingIndices
  <2>5. Queue[i].kind # "user"
    BY <2>1, <2>2, <2>4 DEF UserPending
  <2>6. Queue[i] \in PacketSet
    <3>1. i \in 1..Len(Queue) /\ Queue \in Seq(Slot)
      BY <2>2, QueueAre
    <3>2. Queue[i] \in Slot
      BY <3>1, ElementOfSeq
    <3>3. QED
      BY <2>1, <3>2 DEF Slot
  <2>7. QED
    BY <2>5, <2>6 DEF PacketSet
<1>5. p \in Pending!PacketSet
  BY <1>2 DEF PacketSet, Pending!PacketSet
<1>6. Pending!Accept(p)
  BY <1>1, <1>2, <1>3, <1>4
  DEF Pending!Accept, Pending!Schedule, Pending!Full, Schedule, Full, Queue
<1>7. QED
  BY <1>5, <1>6

\* The ring of slots implements the queue, for every capacity, in all the turns of the
\* loop: packets leave in the order they came, none twice and none once cancelled
\* (schedule_tx, on_overhear and take_pending in ieee802154.rs).
THEOREM LoopRefinesPending == Spec => RefinesPending
<1>1. LoopInv /\ Init => Pending!PendingInit
  <2>1. SUFFICES ASSUME LoopInv, Init PROVE Queue = <<>> /\ sent = Hole
    BY DEF Pending!PendingInit, Queue
  <2>2. count = 0 /\ sent = Hole
    BY <2>1 DEF Init, QueueInit
  <2>3. Queue \in Seq(Slot) /\ Len(Queue) = count
    BY <2>1, QueueAre DEF LoopInv
  <2>4. QED
    BY <2>2, <2>3, EmptySeq
<1>2. LoopInv /\ LoopInv' /\ [Next]_vars => [Pending!PendingNext]_(Pending!pendingVars)
  <2> SUFFICES ASSUME QueueShape, QueueShape', [Next]_vars
               PROVE  [Pending!PendingNext]_(Pending!pendingVars)
    BY DEF LoopInv
  <2> DEFINE Still == UNCHANGED <<slots, head, count, sent>>
  <2>1. Still => UNCHANGED Pending!pendingVars
    BY DEF Pending!pendingVars
  <2>2. Wait \/ Elsewhere \/ SetDesktopMode \/ UNCHANGED vars => Still
    BY DEF Wait, Elsewhere, SetDesktopMode, vars, queueVars
  <2>3. TakePending => Pending!PendingNext
    BY TakingRefines DEF Pending!PendingNext
  <2>4. ASSUME NEW key \in Keys, NEW jitter \in Jitters,
               ScheduleUser(key, jitter) \/ ScheduleTelemetry(key, jitter)
        PROVE  Pending!PendingNext
    BY <2>4, AcceptRefines DEF Pending!PendingNext
  <2>5. ASSUME NEW key \in Keys, Overhear(key)
        PROVE  Pending!PendingNext
    <3>1. Pending!Cancel(key)
      BY <2>5, OverhearRefines
      DEF Pending!Cancel, Pending!CancelFirst, Pending!FirstOf, CancelFirst, FirstOf, Queue
    <3>2. QED
      BY <3>1 DEF Pending!PendingNext
  <2> HIDE DEF Still
  <2>6. CASE Turn
    BY <2>1, <2>2, <2>3, <2>6 DEF Turn
  <2>7. CASE FromHost
    BY <2>4, <2>7 DEF FromHost
  <2>8. CASE FromMesh
    BY <2>4, <2>5, <2>8 DEF FromMesh
  <2>9. CASE SetDesktopMode \/ UNCHANGED vars
    BY <2>1, <2>2, <2>9
  <2>10. QED
    BY <2>6, <2>7, <2>8, <2>9 DEF Next
<1>3. QED
  BY <1>1, <1>2, LoopStart, LoopStep, PTL DEF Spec, RefinesPending, Pending!PendingSpec
=============================================================================
