------------------------------- MODULE TxQueue -------------------------------
(***************************************************************************)
(* BackoffController with its ring of slots and its one backoff timer, as    *)
(* its callers use it: ticks, and between them packets to send or to relay,   *)
(* frames overheard and telemetry.  One unit of time is a tick of 5 ms.       *)
(* RadioLoop says when the firmware's main loop does which of these.          *)
(***************************************************************************)
EXTENDS TxOps

CONSTANTS
  Keys,                  \* message id and chunk index
  MinJitter, MaxJitter,  \* the clamp of schedule_tx: 15 and 90 ms
  Gap                    \* 20 ms between queued packets

ASSUME TxQueueAssumption ==
  /\ MinJitter \in Nat \ {0} /\ MaxJitter \in Nat /\ MinJitter <= MaxJitter
  /\ Gap \in Nat /\ MinJitter <= Gap

VARIABLES
  slots, head, tail, count,  \* the ring of BackoffController
  backoff,    \* backoff_remaining_ms, in ticks
  sent,       \* the packet transmitted last, or Hole
  sinceSent   \* history: ticks since then, counted up to MinJitter

queueVars == <<slots, head, tail, count, backoff, sent, sinceSent>>

Indices == 0..(TxCapacity - 1)
PacketSet == [key : Keys, kind : {"user", "telemetry"}]
Jitters == MinJitter..MaxJitter
StepBy(i, n) == (i + n) % TxCapacity
PendingIndices == {StepBy(head, i) : i \in 0..(count - 1)}

QueueInit ==
  /\ slots = [i \in Indices |-> Hole]
  /\ head = 0 /\ tail = 0 /\ count = 0 /\ backoff = 0
  /\ sent = Hole /\ sinceSent = MinJitter

\* Faulty variant: the oldest slot is given up, but stays the head.
ScheduleTxKeepsHead(p, jitter) ==
  /\ slots' = [slots EXCEPT ![tail] = p]
  /\ tail' = StepBy(tail, 1)
  /\ IF count < TxCapacity
       THEN count' = count + 1 /\ backoff' = IF count = 0 THEN jitter ELSE backoff
       ELSE UNCHANGED <<count, backoff>>
  /\ UNCHANGED <<head, sent, sinceSent>>

\* schedule_tx: only the first packet of an empty queue starts the timer.
ScheduleTx(p, jitter) ==
  /\ IF count < TxCapacity
       THEN /\ slots' = [slots EXCEPT ![tail] = p]
            /\ count' = count + 1
            /\ backoff' = IF count = 0 THEN jitter ELSE backoff
            /\ UNCHANGED head
       ELSE /\ slots' = [slots EXCEPT ![head] = Hole, ![tail] = p]
            /\ head' = StepBy(head, 1)
            /\ UNCHANGED <<count, backoff>>
  /\ tail' = StepBy(tail, 1)
  /\ UNCHANGED <<sent, sinceSent>>

\* A packet from the host, the button or another node (main.rs:227, 463, 524).
ScheduleUser(key, jitter) == ScheduleTx([key |-> key, kind |-> "user"], jitter)

\* schedule_telemetry (main.rs:329) returns false while user traffic is pending.
UserPending == \E i \in PendingIndices : slots[i] # Hole /\ slots[i].kind = "user"
ScheduleTelemetry(key, jitter) ==
  /\ ~UserPending
  /\ ScheduleTx([key |-> key, kind |-> "telemetry"], jitter)

\* on_overhear: a peer has sent a packet with this key, and the first pending
\* packet with the key is cancelled.
MatchingFromHead(key) ==
  {i \in 0..(count - 1) : LET s == slots[StepBy(head, i)] IN s # Hole /\ s.key = key}
Overhear(key) ==
  /\ MatchingFromHead(key) # {}
  /\ slots' = [slots EXCEPT ![StepBy(head, FirstOf(MatchingFromHead(key)))] = Hole]
  /\ UNCHANGED <<head, tail, count, backoff, sent, sinceSent>>

Older(t) == IF t < MinJitter THEN t + 1 ELSE t

\* Faulty variant: a hole at the head is not worth waking up for.
ExpiresUnlessHole == backoff <= 1 /\ slots[head] # Hole

\* tick says that the backoff has run out.
Expires == backoff <= 1

\* A tick that finds nothing ready.
Wait ==
  /\ count = 0 \/ ~Expires
  /\ backoff' = IF count = 0 \/ backoff = 0 THEN backoff ELSE backoff - 1
  /\ sinceSent' = Older(sinceSent)
  /\ UNCHANGED <<slots, head, tail, count, sent>>

\* Faulty variants: the next packet goes out with the next tick; the timer is
\* restarted by every new slot.
NoGap == 0
LongGap == MaxJitter + Gap

\* backoff_remaining_ms after a packet or a hole has left others behind.
GapBetween == Gap

\* The backoff has run out: take_pending moves past holes up to a packet, which is
\* transmitted (main.rs:254-275).  Each slot it leaves with others behind it sets
\* the timer, which keeps that value when the last slot goes as well.
Live == {i \in 0..(count - 1) : slots[StepBy(head, i)] # Hole}
TakePending ==
  LET taken == IF Live = {} THEN count ELSE FirstOf(Live) + 1 IN
  /\ count > 0 /\ Expires
  /\ slots' = [i \in Indices |->
                IF i \in {StepBy(head, j) : j \in 0..(taken - 1)} THEN Hole ELSE slots[i]]
  /\ head' = StepBy(head, taken) /\ count' = count - taken
  /\ backoff' = IF count > 1 THEN GapBetween ELSE 0
  /\ IF Live = {}
       THEN UNCHANGED sent /\ sinceSent' = Older(sinceSent)
       ELSE sent' = slots[StepBy(head, taken - 1)] /\ sinceSent' = 0
  /\ UNCHANGED tail

-----------------------------------------------------------------------------
(* Properties *)

\* Every variable has its type, and the slots outside of the pending ones are
\* empty: a cancelled or transmitted packet is never found again by wrapping round.
QueueTypeOK ==
  /\ slots \in [Indices -> PacketSet \cup {Hole}]
  /\ head \in Indices /\ tail \in Indices /\ count \in 0..TxCapacity
  /\ tail = StepBy(head, count)
  /\ \A i \in Indices \ PendingIndices : slots[i] = Hole
  /\ backoff \in 0..(IF MaxJitter > Gap THEN MaxJitter ELSE Gap)
  /\ sent \in PacketSet \cup {Hole} /\ sinceSent \in 0..MinJitter

\* The ring of slots implements the abstract queue: packets are transmitted in the
\* order they were scheduled, none twice, none after it has been cancelled.
Pending == INSTANCE TxPending WITH queue <- [i \in 1..count |-> slots[StepBy(head, i - 1)]]
RefinesPending == Pending!PendingSpec

\* A dongle leaves the air free between two transmissions: at least the smallest
\* jitter, whether the queue had run empty in between, was cancelled or was full.
Transmits == TakePending /\ Live # {}
Spaced == [][Transmits => Older(sinceSent) >= MinJitter]_queueVars

\* Whatever is scheduled or cancelled meanwhile, the head of the queue moves on: no
\* packet, and no hole, blocks those behind it.
HeadMovesOn == \A i \in Indices : (count > 0 /\ head = i) ~> (count = 0 \/ head # i)

\* What plan 2026-09-21 line 63 (R22) and schedule_tx's comment promise: a packet is
\* transmitted after a contention backoff, in which a peer may relay it first.
\* The first packet pending behind cancelled ones inherits what is left of the timer.
WaitsItsBackoff == [][Live = {} /\ Live' # {} => backoff' >= MinJitter]_queueVars

\* What main.rs:327 says: user traffic strictly preempts telemetry.
PreemptsTelemetry == [][Transmits /\ sent'.kind = "telemetry" => ~UserPending]_queueVars
=============================================================================
