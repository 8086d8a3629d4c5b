--------------------------- MODULE MeshFloodProofs ---------------------------
(***************************************************************************)
(* Proofs about the flood for any number of dongles, in any placement, with *)
(* any initial TTLs and queues of any capacity.                             *)
(***************************************************************************)
EXTENDS MeshFlood, Integers, FiniteSetTheorems, SequenceTheorems,
        WellFoundedInduction, TLAPS

-----------------------------------------------------------------------------
\* What the operations of a queue do, whatever its slots hold.

\* A set of numbers has a least one, which is what FirstOf chooses.
LEMMA FirstIsFirst ==
  ASSUME NEW S \in SUBSET Nat, S # {}
  PROVE  FirstOf(S) \in S /\ \A j \in S : FirstOf(S) <= j
<1> DEFINE R == OpToRel(<, Nat)
<1>1. IsWellFoundedOn(R, Nat)
  BY NatLessThanWellFounded
<1> HIDE DEF R
<1>2. PICK x \in S : \A y \in S : <<y, x>> \notin R
  BY <1>1, WFMin
<1>3. \A y \in S : <<y, x>> \in Nat \X Nat
  BY <1>2
<1>4. \A y \in S : ~(y < x)
  BY <1>2, <1>3, Zenon DEF R, OpToRel
<1>5. \A y \in S : x <= y
  BY <1>4
<1>6. QED
  BY <1>5, Zenon DEF FirstOf

LEMMA CancelKeeps ==
  ASSUME NEW P, NEW q \in Seq(P \cup {Hole}), NEW M
  PROVE  /\ CancelFirst(q, M) \in Seq(P \cup {Hole})
         /\ Len(CancelFirst(q, M)) = Len(q)
         /\ \A i \in 1..Len(q) : CancelFirst(q, M)[i] \in {q[i], Hole}
BY DEF CancelFirst

\* r is q without its first d slots, and p behind the others.
Scheduled(q, p, r, d) ==
  /\ Len(r) = Len(q) + 1 - d
  /\ r[Len(q) + 1 - d] = p
  /\ \A i \in 1..(Len(q) - d) : r[i] = q[i + d]

LEMMA ScheduleAdds ==
  ASSUME NEW S, NEW q \in Seq(S), NEW p \in S
  PROVE  /\ Schedule(q, p) \in Seq(S)
         /\ Len(q) <= TxCapacity => Len(Schedule(q, p)) <= TxCapacity
         /\ \E d \in {0, 1} : Scheduled(q, p, Schedule(q, p), d)
<1>1. CASE Full(q)
  <2>1. q # <<>> /\ Len(q) = TxCapacity
    BY <1>1, TxAssumption, EmptySeq DEF Full
  <2>2. /\ Tail(q) \in Seq(S) /\ Len(Tail(q)) = Len(q) - 1
        /\ \A i \in 1..(Len(q) - 1) : Tail(q)[i] = q[i + 1]
    BY <2>1, HeadTailProperties
  <2> DEFINE r == Tail(q)
  <2> HIDE DEF r
  <2>3. /\ r \in Seq(S) /\ Len(r) = Len(q) - 1 /\ p \in S
        /\ \A i \in 1..(Len(q) - 1) : r[i] = q[i + 1]
    BY <2>2 DEF r
  <2>4. /\ Append(r, p) \in Seq(S) /\ Len(Append(r, p)) = Len(r) + 1
        /\ \A i \in 1..Len(r) : Append(r, p)[i] = r[i]
        /\ Append(r, p)[Len(r) + 1] = p
    BY <2>3, AppendProperties
  <2>5. Schedule(q, p) = Append(r, p)
    BY <1>1 DEF Schedule, r
  <2>6. Len(q) \in Nat
    OBVIOUS
  <2>7. Scheduled(q, p, Schedule(q, p), 1)
    BY <2>3, <2>4, <2>5, <2>6 DEF Scheduled
  <2>8. Schedule(q, p) \in Seq(S) /\ Len(Schedule(q, p)) = Len(q)
    BY <2>3, <2>4, <2>5, <2>6
  <2>9. QED
    BY <2>7, <2>8
<1>2. CASE ~Full(q)
  <2>1. Schedule(q, p) = Append(q, p)
    BY <1>2 DEF Schedule
  <2>2. /\ Append(q, p) \in Seq(S) /\ Len(Append(q, p)) = Len(q) + 1
        /\ \A i \in 1..Len(q) : Append(q, p)[i] = q[i]
        /\ Append(q, p)[Len(q) + 1] = p
    BY AppendProperties
  <2>3. Len(q) \in Nat /\ Len(q) # TxCapacity
    BY <1>2 DEF Full
  <2>4. Scheduled(q, p, Schedule(q, p), 0)
    BY <2>1, <2>2, <2>3 DEF Scheduled
  <2>5. QED
    BY <2>1, <2>2, <2>3, <2>4, TxAssumption
<1>3. QED
  BY <1>1, <1>2

\* The packet in slot k is taken from q, and r is what is behind it.
TakenFrom(q, k, p, r) ==
  /\ q[k] # Hole /\ p = q[k]
  /\ Len(r) = Len(q) - k
  /\ \A i \in 1..(Len(q) - k) : r[i] = q[i + k]

LEMMA TakeRemoves ==
  ASSUME NEW S, NEW q \in Seq(S), PendingIn(q) # {}
  PROVE  /\ AfterTaking(q) \in Seq(S)
         /\ \E k \in 1..Len(q) : TakenFrom(q, k, Taken(q), AfterTaking(q))
<1> DEFINE k == FirstOf(PendingIn(q))
<1>1. PendingIn(q) \in SUBSET Nat /\ PendingIn(q) \subseteq 1..Len(q)
  BY DEF PendingIn
<1>2. k \in PendingIn(q)
  BY <1>1, FirstIsFirst
<1> HIDE DEF k
<1>3. k \in 1..Len(q) /\ Len(q) \in Nat
  BY <1>1, <1>2
<1>4. AfterTaking(q) = SubSeq(q, k + 1, Len(q)) /\ Taken(q) = q[k]
  BY Zenon DEF AfterTaking, Taken, k
<1>5. \A i \in (k + 1)..Len(q) : q[i] \in S
  BY <1>3
<1>6. /\ SubSeq(q, k + 1, Len(q)) \in Seq(S)
      /\ Len(SubSeq(q, k + 1, Len(q))) = IF k + 1 <= Len(q) THEN Len(q) - (k + 1) + 1 ELSE 0
      /\ \A i \in 1..(Len(q) - (k + 1) + 1) : SubSeq(q, k + 1, Len(q))[i] = q[k + 1 + i - 1]
  BY <1>3, <1>5, SubSeqProperties
<1> DEFINE r == SubSeq(q, k + 1, Len(q))
<1> HIDE DEF r
<1>7. /\ r \in Seq(S)
      /\ Len(r) = IF k + 1 <= Len(q) THEN Len(q) - (k + 1) + 1 ELSE 0
      /\ \A i \in 1..(Len(q) - (k + 1) + 1) : r[i] = q[k + 1 + i - 1]
  BY <1>6 DEF r
<1>8. Len(r) = Len(q) - k
  BY <1>3, <1>7
<1>9. \A i \in 1..(Len(q) - k) : r[i] = q[i + k]
  <2>1. SUFFICES ASSUME NEW i \in 1..(Len(q) - k) PROVE r[i] = q[i + k]
    OBVIOUS
  <2>2. i \in 1..(Len(q) - (k + 1) + 1) /\ k + 1 + i - 1 = i + k
    BY <1>3
  <2>3. QED
    BY <1>7, <2>2
<1>10. AfterTaking(q) = r
  BY <1>4 DEF r
<1>11. TakenFrom(q, k, Taken(q), AfterTaking(q))
  BY <1>2, <1>4, <1>8, <1>9, <1>10 DEF TakenFrom, PendingIn
<1>12. QED
  BY <1>3, <1>7, <1>10, <1>11

-----------------------------------------------------------------------------
\* The frames and packets there are, and what holds of each of them.

Frames ==
  {Chunk(i) : i \in 0..(Chunks - 1)} \cup {Beacon(n) : n \in Nodes}
    \cup {Telemetry(n) : n \in Nodes}
    \cup {Sack(n, s) : n \in Nodes, s \in SUBSET (0..(Chunks - 1))}
Packets == [frame : Frames, ttl : Nat, hop : Nat]
Flooded(f) == f.kind # "telemetry"

LEMMA ChunkFrame ==
  ASSUME NEW i \in 0..(Chunks - 1)
  PROVE  /\ Chunk(i) \in Frames /\ Chunk(i).by = Origin /\ Flooded(Chunk(i))
BY DEF Frames, Chunk, Flooded

LEMMA NodeFrames ==
  ASSUME NEW n \in Nodes
  PROVE  /\ Beacon(n) \in Frames /\ Beacon(n).by = n /\ Flooded(Beacon(n))
         /\ Telemetry(n) \in Frames /\ Telemetry(n).by = n /\ ~Flooded(Telemetry(n))
         /\ \A s \in SUBSET (0..(Chunks - 1)) :
              Sack(n, s) \in Frames /\ Sack(n, s).by = n /\ Flooded(Sack(n, s))
<1>1. Beacon(n) \in Frames /\ Telemetry(n) \in Frames
  BY DEF Frames
<1>2. \A s \in SUBSET (0..(Chunks - 1)) : Sack(n, s) \in Frames
  <2>1. SUFFICES ASSUME NEW s \in SUBSET (0..(Chunks - 1)) PROVE Sack(n, s) \in Frames
    OBVIOUS
  <2>2. Sack(n, s) \in {Sack(m, u) : m \in Nodes, u \in SUBSET (0..(Chunks - 1))}
    OBVIOUS
  <2>3. QED
    BY <2>2 DEF Frames
<1>3. /\ Beacon(n).by = n /\ Flooded(Beacon(n))
      /\ Telemetry(n).by = n /\ ~Flooded(Telemetry(n))
  BY DEF Beacon, Telemetry, Flooded
<1>4. \A s : Sack(n, s).by = n /\ Flooded(Sack(n, s))
  BY DEF Sack, Flooded
<1>5. QED
  BY <1>1, <1>2, <1>3, <1>4

LEMMA FrameFacts ==
  ASSUME NEW f \in Frames
  PROVE  /\ f.by \in Nodes /\ Ttl(f) \in Nat
         /\ Flooded(f) => Key(f) \in Keys
         /\ f.kind = "sack" => f.missing \in SUBSET (0..(Chunks - 1))
<1> USE MeshAssumption
<1>1. CASE \E i \in 0..(Chunks - 1) : f = Chunk(i)
  <2>1. PICK i \in 0..(Chunks - 1) : f = Chunk(i)
    BY <1>1
  <2>2. f.kind = "chunk" /\ f.by = Origin /\ f.idx = i
    BY <2>1 DEF Chunk
  <2>3. Key(f) = <<"message", Origin, i>>
    BY <2>2 DEF Key
  <2>4. Key(f) \in Keys
    BY <2>3 DEF Keys
  <2>5. QED
    BY <2>2, <2>4 DEF Ttl
<1>2. CASE \E n \in Nodes : f = Beacon(n)
  <2>1. PICK n \in Nodes : f = Beacon(n)
    BY <1>2
  <2>2. f.kind = "beacon" /\ f.by = n /\ f.idx = 0
    BY <2>1 DEF Beacon
  <2>3. Key(f) = <<"beacon", n, 0>>
    BY <2>2 DEF Key
  <2>4. Key(f) \in Keys
    BY <2>3 DEF Keys
  <2>5. QED
    BY <2>2, <2>4 DEF Ttl
<1>3. CASE \E n \in Nodes : f = Telemetry(n)
  BY <1>3 DEF Telemetry, Ttl, Flooded
<1>4. CASE \E n \in Nodes, s \in SUBSET (0..(Chunks - 1)) : f = Sack(n, s)
  <2>1. PICK n \in Nodes, s \in SUBSET (0..(Chunks - 1)) : f = Sack(n, s)
    BY <1>4
  <2>2. f.kind = "sack" /\ f.by = n /\ f.idx = 0 /\ f.missing = s
    BY <2>1 DEF Sack
  <2>3. Key(f) = <<"message", Origin, 0>>
    BY <2>2 DEF Key
  <2>4. Key(f) \in Keys
    BY <2>3 DEF Keys
  <2>5. QED
    BY <2>2, <2>4 DEF Ttl
<1>5. QED
  BY <1>1, <1>2, <1>3, <1>4 DEF Frames

\* A packet has made fewer hops than there are dongles that know its key, one of
\* which is the dongle it comes from; its TTL and its hops add up.
Filters == [Nodes -> SUBSET Keys]
Seers(s, k) == {m \in Nodes : k \in s[m]}
Fit(s, p) ==
  /\ p.hop + p.ttl = Ttl(p.frame)
  /\ Flooded(p.frame) => /\ Key(p.frame) \in s[p.frame.by]
                         /\ p.hop < Cardinality(Seers(s, Key(p.frame)))
  /\ ~Flooded(p.frame) => p.hop = 0

LEMMA SeersGrow ==
  ASSUME NEW s \in Filters, NEW t \in Filters, \A m \in Nodes : s[m] \subseteq t[m], NEW k
  PROVE  /\ Cardinality(Seers(s, k)) \in Nat /\ Cardinality(Seers(t, k)) \in Nat
         /\ Cardinality(Seers(s, k)) <= Cardinality(Seers(t, k))
         /\ Cardinality(Seers(t, k)) <= Cardinality(Nodes)
         /\ \A n \in Nodes : k \in t[n] /\ k \notin s[n]
              => Cardinality(Seers(s, k)) < Cardinality(Seers(t, k))
<1>1. Seers(s, k) \in SUBSET Seers(t, k) /\ Seers(t, k) \in SUBSET Nodes
  BY DEF Seers
<1>2. /\ IsFiniteSet(Seers(t, k)) /\ IsFiniteSet(Seers(s, k))
      /\ Cardinality(Seers(t, k)) <= Cardinality(Nodes)
      /\ Cardinality(Seers(s, k)) <= Cardinality(Seers(t, k))
      /\ Cardinality(Seers(t, k)) = Cardinality(Seers(s, k)) => Seers(t, k) = Seers(s, k)
  BY <1>1, FS_Subset, MeshAssumption
<1>3. Cardinality(Seers(s, k)) \in Nat /\ Cardinality(Seers(t, k)) \in Nat
  BY <1>2, FS_CardinalityType
<1>4. ASSUME NEW n \in Nodes, k \in t[n], k \notin s[n]
      PROVE  Seers(s, k) # Seers(t, k)
  BY <1>4 DEF Seers
<1>5. QED
  BY <1>2, <1>3, <1>4

LEMMA FitGrows ==
  ASSUME NEW s \in Filters, NEW t \in Filters, \A m \in Nodes : s[m] \subseteq t[m],
         NEW p \in Packets, Fit(s, p)
  PROVE  Fit(t, p)
<1>1. p.frame \in Frames /\ p.hop \in Nat
  BY DEF Packets
<1>2. p.frame.by \in Nodes
  BY <1>1, FrameFacts
<1> DEFINE k == Key(p.frame)
<1> HIDE DEF k
<1>3. /\ Cardinality(Seers(s, k)) \in Nat /\ Cardinality(Seers(t, k)) \in Nat
      /\ Cardinality(Seers(s, k)) <= Cardinality(Seers(t, k))
  BY SeersGrow
<1>4. QED
  BY <1>1, <1>2, <1>3 DEF Fit, k

\* A packet of one's own is fit once its key is remembered.
LEMMA FreshFit ==
  ASSUME NEW f \in Frames, NEW s \in Filters, Flooded(f) => Key(f) \in s[f.by]
  PROVE  Fresh(f) \in Packets /\ Fit(s, Fresh(f)) /\ Fresh(f).hop = 0 /\ Fresh(f).frame = f
<1>1. Fresh(f) \in Packets /\ Fresh(f).hop = 0 /\ Fresh(f).ttl = Ttl(f) /\ Fresh(f).frame = f
  BY FrameFacts DEF Fresh, Packets
<1>2. ASSUME Flooded(f) PROVE 0 < Cardinality(Seers(s, Key(f)))
  <2>1. f.by \in Seers(s, Key(f)) /\ Seers(s, Key(f)) \in SUBSET Nodes
    BY <1>2, FrameFacts DEF Seers
  <2>2. IsFiniteSet(Seers(s, Key(f)))
    BY <2>1, FS_Subset, MeshAssumption
  <2>3. Cardinality(Seers(s, Key(f))) \in Nat /\ Cardinality(Seers(s, Key(f))) # 0
    BY <2>1, <2>2, FS_CardinalityType, FS_EmptySet
  <2>4. QED
    BY <2>3
<1>3. QED
  BY <1>1, <1>2, FrameFacts DEF Fit

-----------------------------------------------------------------------------
\* What holds of the queue of a dongle n, of which the filters are s: its packets are
\* fit and remembered, and at most one of them relays a given key.
Slots == Packets \cup {Hole}
IsRelay(q, i, k) == q[i].hop > 0 /\ Key(q[i].frame) = k
NoRelay(q, k) == \A i \in 1..Len(q) : q[i] # Hole => ~IsRelay(q, i, k)
QueueOK(q, s, n) ==
  /\ \A i \in 1..Len(q) : q[i] # Hole =>
       Fit(s, q[i]) /\ (Flooded(q[i].frame) => Key(q[i].frame) \in s[n])
  /\ \A i, j \in 1..Len(q) :
       q[i] # Hole /\ q[j] # Hole /\ q[i].hop > 0 /\ q[j].hop > 0
         /\ Key(q[i].frame) = Key(q[j].frame) => i = j

\* A queue whose packets are those of another one some slots further on, or holes.
Thins(r, q, d) ==
  /\ d \in Nat /\ Len(r) + d <= Len(q)
  /\ \A i \in 1..Len(r) : r[i] \in {q[i + d], Hole}

LEMMA ThinnerOK ==
  ASSUME NEW q \in Seq(Slots), NEW r \in Seq(Slots), NEW d, Thins(r, q, d),
         NEW s, NEW n, QueueOK(q, s, n)
  PROVE  /\ QueueOK(r, s, n)
         /\ \A k : NoRelay(q, k) => NoRelay(r, k)
<1>1. d \in Nat /\ Len(r) \in Nat /\ Len(q) \in Nat
  BY DEF Thins
<1>2. \A i \in 1..Len(r) : i + d \in 1..Len(q) /\ (r[i] # Hole => r[i] = q[i + d])
  BY <1>1 DEF Thins
<1>3. \A i \in 1..Len(r) : r[i] # Hole => q[i + d] # Hole
  BY <1>2
<1>4. \A i, j \in 1..Len(r) : i + d = j + d => i = j
  BY <1>1
<1>5. QueueOK(r, s, n)
  <2>1. \A i \in 1..Len(r) : r[i] # Hole =>
          Fit(s, r[i]) /\ (Flooded(r[i].frame) => Key(r[i].frame) \in s[n])
    BY <1>2, <1>3, Zenon DEF QueueOK
  <2>2. ASSUME NEW i \in 1..Len(r), NEW j \in 1..Len(r),
               r[i] # Hole, r[j] # Hole, r[i].hop > 0, r[j].hop > 0,
               Key(r[i].frame) = Key(r[j].frame)
        PROVE  i = j
    <3>1. r[i] = q[i + d] /\ r[j] = q[j + d] /\ i + d \in 1..Len(q) /\ j + d \in 1..Len(q)
      BY <1>2, <2>2
    <3>2. i + d = j + d
      BY <3>1, <2>2, Zenon DEF QueueOK
    <3>3. QED
      BY <3>2, <1>4
  <2>3. QED
    BY <2>1, <2>2, Zenon DEF QueueOK
<1>6. \A k : NoRelay(q, k) => NoRelay(r, k)
  BY <1>2, <1>3, Zenon DEF NoRelay, IsRelay
<1>7. QED
  BY <1>5, <1>6

LEMMA CancelOK ==
  ASSUME NEW q \in Seq(Slots), NEW M, NEW s, NEW n, QueueOK(q, s, n)
  PROVE  /\ CancelFirst(q, M) \in Seq(Slots) /\ Len(CancelFirst(q, M)) = Len(q)
         /\ QueueOK(CancelFirst(q, M), s, n)
         /\ \A k : NoRelay(q, k) => NoRelay(CancelFirst(q, M), k)
<1> DEFINE r == CancelFirst(q, M)
<1>1. /\ r \in Seq(Slots) /\ Len(r) = Len(q)
      /\ \A i \in 1..Len(q) : r[i] \in {q[i], Hole}
  BY CancelKeeps DEF Slots
<1> HIDE DEF r
<1>2. Thins(r, q, 0)
  BY <1>1 DEF Thins
<1>3. QueueOK(r, s, n) /\ \A k : NoRelay(q, k) => NoRelay(r, k)
  BY <1>1, <1>2, ThinnerOK
<1>4. QED
  BY <1>1, <1>3 DEF r

LEMMA TakeOK ==
  ASSUME NEW q \in Seq(Slots), PendingIn(q) # {}, NEW s, NEW n, QueueOK(q, s, n)
  PROVE  /\ AfterTaking(q) \in Seq(Slots) /\ Len(AfterTaking(q)) <= Len(q)
         /\ QueueOK(AfterTaking(q), s, n)
         /\ \A k : NoRelay(q, k) => NoRelay(AfterTaking(q), k)
         /\ Taken(q) \in Packets /\ Fit(s, Taken(q))
         /\ Flooded(Taken(q).frame) => Key(Taken(q).frame) \in s[n]
         /\ Taken(q).hop > 0 => /\ ~NoRelay(q, Key(Taken(q).frame))
                                /\ NoRelay(AfterTaking(q), Key(Taken(q).frame))
<1>1. AfterTaking(q) \in Seq(Slots)
  BY TakeRemoves
<1> PICK k \in 1..Len(q) : TakenFrom(q, k, Taken(q), AfterTaking(q))
  BY TakeRemoves
<1> DEFINE r == AfterTaking(q)  p == Taken(q)
<1>2. /\ k \in 1..Len(q) /\ Len(q) \in Nat /\ q[k] # Hole /\ p = q[k]
      /\ r \in Seq(Slots) /\ Len(r) = Len(q) - k
      /\ \A i \in 1..(Len(q) - k) : r[i] = q[i + k]
  BY <1>1 DEF TakenFrom
<1> HIDE DEF r, p
<1>3. Thins(r, q, k)
  BY <1>2 DEF Thins
<1>4. QueueOK(r, s, n) /\ \A key : NoRelay(q, key) => NoRelay(r, key)
  BY <1>2, <1>3, ThinnerOK
<1>5. p \in Packets /\ Fit(s, p) /\ (Flooded(p.frame) => Key(p.frame) \in s[n])
  <2>1. q[k] \in Slots
    BY <1>2
  <2>2. QED
    BY <1>2, <2>1 DEF QueueOK, Slots
<1>6. ASSUME p.hop > 0 PROVE ~NoRelay(q, Key(p.frame)) /\ NoRelay(r, Key(p.frame))
  <2>1. \A i \in 1..Len(r) : i + k \in 1..Len(q) /\ i + k # k /\ r[i] = q[i + k]
    BY <1>2
  <2>2. \A i \in 1..Len(r) : r[i] # Hole => ~IsRelay(r, i, Key(p.frame))
    BY <1>2, <1>6, <2>1, Zenon DEF QueueOK, IsRelay
  <2>3. ~NoRelay(q, Key(p.frame))
    BY <1>2, <1>6, Zenon DEF NoRelay, IsRelay
  <2>4. QED
    BY <2>2, <2>3, Zenon DEF NoRelay
<1>7. QED
  BY <1>2, <1>4, <1>5, <1>6 DEF r, p

LEMMA ScheduleOK ==
  ASSUME NEW q \in Seq(Slots), NEW p \in Packets, NEW s, NEW n, QueueOK(q, s, n),
         Len(q) <= TxCapacity, Fit(s, p),
         Flooded(p.frame) => Key(p.frame) \in s[n],
         p.hop > 0 => NoRelay(q, Key(p.frame))
  PROVE  /\ Schedule(q, p) \in Seq(Slots) /\ Len(Schedule(q, p)) <= TxCapacity
         /\ QueueOK(Schedule(q, p), s, n)
         /\ \A k : NoRelay(q, k) /\ (p.hop > 0 => Key(p.frame) # k) => NoRelay(Schedule(q, p), k)
<1> DEFINE r == Schedule(q, p)
<1>1. /\ r \in Seq(Slots) /\ Len(r) <= TxCapacity
      /\ \E d \in {0, 1} : Scheduled(q, p, r, d)
  <2>1. p \in Slots
    BY DEF Slots
  <2>2. QED
    BY <2>1, ScheduleAdds
<1> HIDE DEF r
<1>2. PICK d \in {0, 1} : Scheduled(q, p, r, d)
  BY <1>1
<1>3. /\ r \in Seq(Slots) /\ Len(r) \in Nat /\ Len(q) \in Nat /\ d \in Nat
      /\ (Len(r) = 0 \/ r[Len(r)] = p)
      /\ \A i \in 1..Len(r) : i = Len(r) \/ (i + d \in 1..Len(q) /\ r[i] = q[i + d])
      /\ \A i, j \in 1..Len(r) : i + d = j + d => i = j
  BY <1>1, <1>2 DEF Scheduled
<1>4. \A i \in 1..Len(r) : r[i] = p \/ (i + d \in 1..Len(q) /\ r[i] = q[i + d])
  BY <1>3
<1>5. \A i \in 1..Len(r) : r[i] # Hole =>
        Fit(s, r[i]) /\ (Flooded(r[i].frame) => Key(r[i].frame) \in s[n])
  BY <1>4, Zenon DEF QueueOK
<1>6. \A i, j \in 1..Len(r) :
        r[i] # Hole /\ r[j] # Hole /\ r[i].hop > 0 /\ r[j].hop > 0
          /\ Key(r[i].frame) = Key(r[j].frame) => i = j
  <2>1. SUFFICES ASSUME NEW i \in 1..Len(r), NEW j \in 1..Len(r),
                        r[i] # Hole, r[j] # Hole, r[i].hop > 0, r[j].hop > 0,
                        Key(r[i].frame) = Key(r[j].frame)
                 PROVE  i = j
    BY Zenon
  <2>2. r[Len(r)] = p
    BY <1>3
  <2>3. CASE i = Len(r) /\ j # Len(r)
    BY <1>3, <2>1, <2>2, <2>3, Zenon DEF NoRelay, IsRelay
  <2>4. CASE i # Len(r) /\ j = Len(r)
    BY <1>3, <2>1, <2>2, <2>4, Zenon DEF NoRelay, IsRelay
  <2>5. CASE i # Len(r) /\ j # Len(r)
    BY <1>3, <2>1, <2>5, Zenon DEF QueueOK
  <2>6. QED
    BY <2>3, <2>4, <2>5, Zenon
<1>7. \A k : NoRelay(q, k) /\ (p.hop > 0 => Key(p.frame) # k) => NoRelay(r, k)
  BY <1>4, Zenon DEF NoRelay, IsRelay
<1>8. QueueOK(r, s, n)
  BY <1>5, <1>6, Zenon DEF QueueOK
<1>9. QED
  BY <1>1, <1>3, <1>7, <1>8 DEF r

-----------------------------------------------------------------------------
\* What holds of what a dongle has received, of what its host has still to write and
\* of what the host was handed, and of the count of its relays.
Received == [packet : Packets, from : Nodes]
Handed == [frame : Frames, from : Nodes]

AirOK(b, s, n) == \A i \in 1..Len(b) : Fit(s, b[i].packet) /\ b[i].from # n
OutOK(o, n) == \A i \in 1..Len(o) : o[i].by = n /\ Flooded(o[i])
UpOK(u, keys, n) ==
  /\ \A i \in 1..Len(u) : /\ u[i].frame.by # n /\ u[i].from # n
                          /\ Key(u[i].frame) \in keys
  /\ \A i, j \in 1..Len(u) : Key(u[i].frame) = Key(u[j].frame) => i = j
RelayOK(r, q, keys) ==
  \A k \in Keys : r[k] = 0 \/ (r[k] = 1 /\ k \in keys /\ NoRelay(q, k))

LEMMA QueueGrows ==
  ASSUME NEW s \in Filters, NEW t \in Filters, \A m \in Nodes : s[m] \subseteq t[m],
         NEW q \in Seq(Slots), NEW n \in Nodes, QueueOK(q, s, n)
  PROVE  QueueOK(q, t, n)
<1>1. \A i \in 1..Len(q) : q[i] # Hole => Fit(t, q[i])
  <2>1. \A i \in 1..Len(q) : q[i] # Hole => q[i] \in Packets
    BY DEF Slots
  <2>2. QED
    BY <2>1, FitGrows DEF QueueOK
<1>2. QED
  BY <1>1 DEF QueueOK

LEMMA AirGrows ==
  ASSUME NEW s \in Filters, NEW t \in Filters, \A m \in Nodes : s[m] \subseteq t[m],
         NEW b \in Seq(Received), NEW n, AirOK(b, s, n)
  PROVE  AirOK(b, t, n)
<1>1. \A i \in 1..Len(b) : b[i].packet \in Packets
  <2>1. \A i \in 1..Len(b) : b[i] \in Received
    BY ElementOfSeq
  <2>2. QED
    BY <2>1 DEF Received
<1>2. QED
  BY <1>1, FitGrows DEF AirOK

LEMMA UpGrows ==
  ASSUME NEW K, NEW L, K \subseteq L, NEW u, NEW n, UpOK(u, K, n)
  PROVE  UpOK(u, L, n)
BY DEF UpOK

LEMMA AirTail ==
  ASSUME NEW b \in Seq(Received), b # <<>>, NEW s, NEW n, AirOK(b, s, n)
  PROVE  /\ Head(b) \in Received /\ Fit(s, Head(b).packet) /\ Head(b).from # n
         /\ Tail(b) \in Seq(Received) /\ AirOK(Tail(b), s, n)
<1>1. /\ Tail(b) \in Seq(Received) /\ Len(Tail(b)) = Len(b) - 1 /\ Len(b) \in Nat \ {0}
      /\ \A i \in 1..Len(Tail(b)) : Tail(b)[i] = b[i + 1]
  BY HeadTailProperties, EmptySeq
<1> DEFINE r == Tail(b)
<1>2. AirOK(r, s, n)
  <2>1. r \in Seq(Received) /\ \A i \in 1..Len(r) : i + 1 \in 1..Len(b) /\ r[i] = b[i + 1]
    BY <1>1
  <2> HIDE DEF r
  <2>2. QED
    BY <2>1 DEF AirOK
<1>3. Head(b) = b[1] /\ 1 \in 1..Len(b)
  BY <1>1
<1>4. QED
  BY <1>1, <1>2, <1>3 DEF AirOK

LEMMA AirAppend ==
  ASSUME NEW b \in Seq(Received), NEW s, NEW n, AirOK(b, s, n),
         NEW e \in Received, Fit(s, e.packet), e.from # n
  PROVE  Append(b, e) \in Seq(Received) /\ AirOK(Append(b, e), s, n)
<1> DEFINE r == Append(b, e)
<1>1. /\ r \in Seq(Received) /\ Len(r) = Len(b) + 1 /\ r[Len(b) + 1] = e
      /\ \A i \in 1..Len(b) : r[i] = b[i]
  BY AppendProperties
<1> HIDE DEF r
<1>2. \A i \in 1..Len(r) : r[i] = e \/ (i \in 1..Len(b) /\ r[i] = b[i])
  BY <1>1
<1>3. AirOK(r, s, n)
  BY <1>2, Zenon DEF AirOK
<1>4. QED
  BY <1>1, <1>3 DEF r

LEMMA OutTail ==
  ASSUME NEW o \in Seq(Frames), o # <<>>, NEW n, OutOK(o, n)
  PROVE  /\ Head(o) \in Frames /\ Head(o).by = n /\ Flooded(Head(o))
         /\ Tail(o) \in Seq(Frames) /\ OutOK(Tail(o), n)
<1>1. /\ Tail(o) \in Seq(Frames) /\ Len(Tail(o)) = Len(o) - 1 /\ Len(o) \in Nat \ {0}
      /\ \A i \in 1..Len(Tail(o)) : Tail(o)[i] = o[i + 1]
  BY HeadTailProperties, EmptySeq
<1> DEFINE r == Tail(o)
<1>2. OutOK(r, n)
  <2>1. r \in Seq(Frames) /\ \A i \in 1..Len(r) : i + 1 \in 1..Len(o) /\ r[i] = o[i + 1]
    BY <1>1
  <2> HIDE DEF r
  <2>2. QED
    BY <2>1 DEF OutOK
<1>3. Head(o) = o[1] /\ 1 \in 1..Len(o)
  BY <1>1
<1>4. QED
  BY <1>1, <1>2, <1>3 DEF OutOK

LEMMA OutConcat ==
  ASSUME NEW o \in Seq(Frames), NEW a \in Seq(Frames), NEW n, OutOK(o, n), OutOK(a, n)
  PROVE  o \o a \in Seq(Frames) /\ OutOK(o \o a, n)
<1> DEFINE r == o \o a
<1>1. /\ r \in Seq(Frames) /\ Len(r) = Len(o) + Len(a)
      /\ \A i \in 1..(Len(o) + Len(a)) : r[i] = IF i <= Len(o) THEN o[i] ELSE a[i - Len(o)]
  BY ConcatProperties
<1> HIDE DEF r
<1>2. Len(o) \in Nat /\ Len(a) \in Nat
  OBVIOUS
<1>3. \A i \in 1..Len(r) : (i \in 1..Len(o) /\ r[i] = o[i])
                             \/ (i - Len(o) \in 1..Len(a) /\ r[i] = a[i - Len(o)])
  BY <1>1, <1>2
<1>4. OutOK(r, n)
  BY <1>3, Zenon DEF OutOK
<1>5. QED
  BY <1>1, <1>4 DEF r

LEMMA OutAppend ==
  ASSUME NEW o \in Seq(Frames), NEW f \in Frames, NEW n, OutOK(o, n), f.by = n, Flooded(f)
  PROVE  Append(o, f) \in Seq(Frames) /\ OutOK(Append(o, f), n)
<1> DEFINE r == Append(o, f)
<1>1. /\ r \in Seq(Frames) /\ Len(r) = Len(o) + 1 /\ r[Len(o) + 1] = f
      /\ \A i \in 1..Len(o) : r[i] = o[i]
  BY AppendProperties
<1> HIDE DEF r
<1>2. \A i \in 1..Len(r) : r[i] = f \/ (i \in 1..Len(o) /\ r[i] = o[i])
  BY <1>1
<1>3. OutOK(r, n)
  BY <1>2, Zenon DEF OutOK
<1>4. QED
  BY <1>1, <1>3 DEF r

LEMMA UpAppend ==
  ASSUME NEW u \in Seq(Handed), NEW K, NEW n, UpOK(u, K, n),
         NEW e \in Handed, e.frame.by # n, e.from # n, Key(e.frame) \notin K,
         NEW L, K \cup {Key(e.frame)} \subseteq L
  PROVE  Append(u, e) \in Seq(Handed) /\ UpOK(Append(u, e), L, n)
<1> DEFINE r == Append(u, e)
<1>1. /\ r \in Seq(Handed) /\ Len(r) = Len(u) + 1 /\ r[Len(u) + 1] = e
      /\ \A i \in 1..Len(u) : r[i] = u[i]
  BY AppendProperties
<1> HIDE DEF r
<1>2. Len(u) \in Nat
  OBVIOUS
<1>3. \A i \in 1..Len(r) : (i = Len(r) /\ r[i] = e) \/ (i \in 1..Len(u) /\ r[i] = u[i])
  BY <1>1, <1>2
<1>4. \A i \in 1..Len(r) : /\ r[i].frame.by # n /\ r[i].from # n /\ Key(r[i].frame) \in L
  BY <1>3, Zenon DEF UpOK
<1>5. \A i, j \in 1..Len(r) : Key(r[i].frame) = Key(r[j].frame) => i = j
  BY <1>3, Zenon DEF UpOK
<1>6. UpOK(r, L, n)
  BY <1>4, <1>5, Zenon DEF UpOK
<1>7. QED
  BY <1>1, <1>6 DEF r

-----------------------------------------------------------------------------
\* The inductive invariant.

MeshTypes ==
  /\ topology \in Topologies
  /\ queue \in [Nodes -> Seq(Slots)] /\ seen \in Filters
  /\ inbox \in [Nodes -> Seq(Received)] /\ outgoing \in [Nodes -> Seq(Frames)]
  /\ uplink \in [Nodes -> Seq(Handed)]
  /\ events \in 0..MaxEvents /\ relayed \in [Nodes -> [Keys -> Nat]]

NodeInv(n) ==
  /\ Len(queue[n]) <= TxCapacity /\ QueueOK(queue[n], seen, n)
  /\ AirOK(inbox[n], seen, n) /\ OutOK(outgoing[n], n)
  /\ UpOK(uplink[n], seen[n], n) /\ RelayOK(relayed[n], queue[n], seen[n])

MeshInv == MeshTypes /\ \A n \in Nodes : NodeInv(n)

LEMMA MeshStart == Init => MeshInv
<1> SUFFICES ASSUME Init PROVE MeshInv
  OBVIOUS
<1>1. \A n \in Nodes : /\ queue[n] = <<>> /\ inbox[n] = <<>> /\ uplink[n] = <<>>
                       /\ relayed[n] = [k \in Keys |-> 0]
  BY DEF Init
<1>2. ASSUME NEW n \in Nodes PROVE outgoing[n] \in Seq(Frames) /\ OutOK(outgoing[n], n)
  <2>1. CASE n = Origin
    <3>1. outgoing[n] = Message
      BY <2>1, <1>2 DEF Init
    <3>2. Message \in Seq(Frames) /\ Len(Message) = Chunks
          /\ \A i \in 1..Chunks : Message[i] = Chunk(i - 1)
      <4>1. \A i \in 1..Chunks : i - 1 \in 0..(Chunks - 1)
        BY MeshAssumption
      <4>2. \A i \in 1..Chunks : Chunk(i - 1) \in Frames
        BY <4>1, ChunkFrame
      <4>3. Message \in [1..Chunks -> Frames] /\ \A i \in 1..Chunks : Message[i] = Chunk(i - 1)
        BY <4>2, Zenon DEF Message
      <4>4. QED
        BY <4>3, MeshAssumption
    <3>3. \A i \in 1..Chunks : Chunk(i - 1).by = Origin /\ Flooded(Chunk(i - 1))
      BY ChunkFrame, MeshAssumption
    <3>4. QED
      BY <2>1, <3>1, <3>2, <3>3 DEF OutOK
  <2>2. CASE n # Origin
    BY <2>2, <1>2 DEF Init, OutOK
  <2>3. QED
    BY <2>1, <2>2
<1>3. MeshTypes
  <2>1. outgoing = [n \in Nodes |-> outgoing[n]]
    BY DEF Init
  <2>2. outgoing \in [Nodes -> Seq(Frames)]
    BY <1>2, <2>1
  <2>3. relayed \in [Nodes -> [Keys -> Nat]]
    BY DEF Init
  <2>4. /\ queue \in [Nodes -> Seq(Slots)] /\ seen \in Filters
        /\ inbox \in [Nodes -> Seq(Received)] /\ uplink \in [Nodes -> Seq(Handed)]
    BY DEF Init, Filters
  <2>5. QED
    BY <2>2, <2>3, <2>4, MeshAssumption DEF Init, MeshTypes
<1>4. ASSUME NEW n \in Nodes PROVE NodeInv(n)
  <2>1. /\ queue[n] = <<>> /\ inbox[n] = <<>> /\ uplink[n] = <<>>
        /\ relayed[n] = [k \in Keys |-> 0]
    BY <1>1, <1>4
  <2>2. Len(queue[n]) <= TxCapacity /\ QueueOK(queue[n], seen, n)
    BY <2>1, TxAssumption DEF QueueOK
  <2>3. AirOK(inbox[n], seen, n) /\ UpOK(uplink[n], seen[n], n)
    BY <2>1 DEF AirOK, UpOK
  <2>4. RelayOK(relayed[n], queue[n], seen[n])
    BY <2>1 DEF RelayOK
  <2>5. QED
    BY <1>2, <1>4, <2>2, <2>3, <2>4 DEF NodeInv
<1>5. QED
  BY <1>3, <1>4 DEF MeshInv

LEMMA RelayKept ==
  ASSUME NEW r, NEW q, NEW K, RelayOK(r, q, K), NEW p, NEW L, K \subseteq L,
         \A k \in K : NoRelay(q, k) => NoRelay(p, k)
  PROVE  RelayOK(r, p, L)
BY DEF RelayOK

\* Another key in the filter of a dongle leaves everything else as it was.
LEMMA Remembering ==
  ASSUME MeshInv, NEW n \in Nodes, NEW f \in Frames, Flooded(f),
         seen' = [seen EXCEPT ![n] = Remember(@, f)]
  PROVE  /\ seen' \in Filters /\ Key(f) \in seen'[n]
         /\ seen'[n] = seen[n] \cup {Key(f)}
         /\ \A m \in Nodes : seen[m] \subseteq seen'[m]
         /\ \A m \in Nodes : /\ QueueOK(queue[m], seen', m) /\ AirOK(inbox[m], seen', m)
                             /\ UpOK(uplink[m], seen'[m], m)
                             /\ RelayOK(relayed[m], queue[m], seen'[m])
<1>1. Key(f) \in Keys /\ seen \in Filters
  BY FrameFacts DEF MeshInv, MeshTypes
<1>2. /\ seen' \in Filters /\ seen'[n] = seen[n] \cup {Key(f)}
      /\ \A m \in Nodes : seen[m] \subseteq seen'[m]
  BY <1>1 DEF Filters, Remember
<1>3. ASSUME NEW m \in Nodes
      PROVE  /\ QueueOK(queue[m], seen', m) /\ AirOK(inbox[m], seen', m)
             /\ UpOK(uplink[m], seen'[m], m) /\ RelayOK(relayed[m], queue[m], seen'[m])
  <2>1. NodeInv(m) /\ queue[m] \in Seq(Slots) /\ inbox[m] \in Seq(Received)
    BY <1>3 DEF MeshInv, MeshTypes
  <2>2. seen[m] \subseteq seen'[m]
    BY <1>2, <1>3
  <2>3. QueueOK(queue[m], seen', m)
    <3>1. QueueOK(queue[m], seen, m)
      BY <2>1, Zenon DEF NodeInv
    <3>2. QED
      BY <1>1, <1>2, <1>3, <2>1, <3>1, QueueGrows, ZenonT(30)
  <2>4. AirOK(inbox[m], seen', m)
    <3>1. AirOK(inbox[m], seen, m)
      BY <2>1, Zenon DEF NodeInv
    <3>2. QED
      BY <1>1, <1>2, <2>1, <3>1, AirGrows, ZenonT(30)
  <2>5. UpOK(uplink[m], seen'[m], m)
    BY <2>1, <2>2, UpGrows DEF NodeInv
  <2>6. RelayOK(relayed[m], queue[m], seen'[m])
    BY <2>1, <2>2, RelayKept DEF NodeInv
  <2>7. QED
    BY <2>3, <2>4, <2>5, <2>6
<1>4. QED
  BY <1>2, <1>3

-----------------------------------------------------------------------------
\* Every action keeps the invariant.

LEMMA FreshQueued ==
  ASSUME NEW q \in Seq(Slots), Len(q) <= TxCapacity, NEW s \in Filters, NEW n,
         QueueOK(q, s, n), NEW f \in Frames, f.by = n, Flooded(f) => Key(f) \in s[n]
  PROVE  /\ Schedule(q, Fresh(f)) \in Seq(Slots) /\ Len(Schedule(q, Fresh(f))) <= TxCapacity
         /\ QueueOK(Schedule(q, Fresh(f)), s, n)
         /\ \A k : NoRelay(q, k) => NoRelay(Schedule(q, Fresh(f)), k)
<1> DEFINE p == Fresh(f)
<1>1. p \in Packets /\ Fit(s, p) /\ p.hop = 0 /\ p.frame = f
  BY FreshFit
<1> HIDE DEF p
<1>2. ~(p.hop > 0) /\ (Flooded(p.frame) => Key(p.frame) \in s[n])
  BY <1>1
<1>3. /\ Schedule(q, p) \in Seq(Slots) /\ Len(Schedule(q, p)) <= TxCapacity
      /\ QueueOK(Schedule(q, p), s, n)
      /\ \A k : NoRelay(q, k) => NoRelay(Schedule(q, p), k)
  BY <1>1, <1>2, ScheduleOK
<1>4. QED
  BY <1>3 DEF p

\* A frame of one's own is remembered, and queued without a hop.
LEMMA OwnFrame ==
  ASSUME MeshInv, NEW n \in Nodes, NEW f \in Frames, f.by = n, Flooded(f),
         seen' = [seen EXCEPT ![n] = Remember(@, f)],
         queue' = [queue EXCEPT ![n] = Schedule(@, Fresh(f))]
  PROVE  /\ seen' \in Filters /\ queue' \in [Nodes -> Seq(Slots)]
         /\ \A m \in Nodes : /\ Len(queue'[m]) <= TxCapacity /\ QueueOK(queue'[m], seen', m)
                             /\ AirOK(inbox[m], seen', m) /\ UpOK(uplink[m], seen'[m], m)
                             /\ RelayOK(relayed[m], queue'[m], seen'[m])
<1>1. queue \in [Nodes -> Seq(Slots)] /\ \A m \in Nodes : Len(queue[m]) <= TxCapacity
  BY DEF MeshInv, MeshTypes, NodeInv
<1>2. /\ Key(f) \in seen'[n] /\ seen' \in Filters
      /\ \A m \in Nodes : /\ QueueOK(queue[m], seen', m) /\ AirOK(inbox[m], seen', m)
                          /\ UpOK(uplink[m], seen'[m], m)
                          /\ RelayOK(relayed[m], queue[m], seen'[m])
  BY Remembering
<1> DEFINE q == Schedule(queue[n], Fresh(f))
<1>3. /\ q \in Seq(Slots) /\ Len(q) <= TxCapacity /\ QueueOK(q, seen', n)
      /\ \A k : NoRelay(queue[n], k) => NoRelay(q, k)
  BY <1>1, <1>2, FreshQueued
<1>4. queue' = [queue EXCEPT ![n] = q]
  OBVIOUS
<1> HIDE DEF q
<1>5. RelayOK(relayed[n], q, seen'[n])
  BY <1>2, <1>3, RelayKept
<1>6. queue' \in [Nodes -> Seq(Slots)] /\ \A m \in Nodes : queue'[m] = IF m = n THEN q ELSE queue[m]
  BY <1>1, <1>3, <1>4
<1>7. QED
  BY <1>1, <1>2, <1>3, <1>5, <1>6

LEMMA InvUsbFrame == ASSUME MeshInv, NEW n \in Nodes, UsbFrame(n) PROVE MeshInv'
<1> DEFINE f == Head(outgoing[n])
<1>1. /\ f \in Frames /\ f.by = n /\ Flooded(f)
      /\ Tail(outgoing[n]) \in Seq(Frames) /\ OutOK(Tail(outgoing[n]), n)
  BY OutTail DEF MeshInv, MeshTypes, NodeInv, UsbFrame
<1>2. /\ seen' = [seen EXCEPT ![n] = Remember(@, f)]
      /\ queue' = [queue EXCEPT ![n] = Schedule(@, Fresh(f))]
      /\ outgoing' = [outgoing EXCEPT ![n] = Tail(@)]
      /\ UNCHANGED <<topology, inbox, uplink, events, relayed>>
  BY DEF UsbFrame
<1> HIDE DEF f
<1>3. /\ seen' \in Filters /\ queue' \in [Nodes -> Seq(Slots)]
      /\ \A m \in Nodes : /\ Len(queue'[m]) <= TxCapacity /\ QueueOK(queue'[m], seen', m)
                          /\ AirOK(inbox[m], seen', m) /\ UpOK(uplink[m], seen'[m], m)
                          /\ RelayOK(relayed[m], queue'[m], seen'[m])
  BY <1>1, <1>2, OwnFrame
<1>4. outgoing' \in [Nodes -> Seq(Frames)] /\ \A m \in Nodes : OutOK(outgoing'[m], m)
  BY <1>1, <1>2 DEF MeshInv, MeshTypes, NodeInv
<1>5. MeshTypes'
  BY <1>2, <1>3, <1>4 DEF MeshInv, MeshTypes
<1>6. \A m \in Nodes : NodeInv(m)'
  BY <1>2, <1>3, <1>4 DEF NodeInv
<1>7. QED
  BY <1>5, <1>6 DEF MeshInv

LEMMA InvButton == ASSUME MeshInv, NEW n \in Nodes, Button(n) PROVE MeshInv'
<1> DEFINE f == Beacon(n)
<1>1. f \in Frames /\ f.by = n /\ Flooded(f)
  BY NodeFrames
<1>2. /\ seen' = [seen EXCEPT ![n] = Remember(@, f)]
      /\ queue' = [queue EXCEPT ![n] = Schedule(@, Fresh(f))]
      /\ UNCHANGED <<topology, inbox, outgoing, uplink, relayed>>
      /\ events' = events + 2 /\ events' <= MaxEvents
  BY DEF Button, Event
<1> HIDE DEF f
<1>3. /\ seen' \in Filters /\ queue' \in [Nodes -> Seq(Slots)]
      /\ \A m \in Nodes : /\ Len(queue'[m]) <= TxCapacity /\ QueueOK(queue'[m], seen', m)
                          /\ AirOK(inbox[m], seen', m) /\ UpOK(uplink[m], seen'[m], m)
                          /\ RelayOK(relayed[m], queue'[m], seen'[m])
  BY <1>1, <1>2, OwnFrame
<1>4. events' \in 0..MaxEvents
  BY <1>2, MeshAssumption DEF MeshInv, MeshTypes
<1>5. MeshTypes'
  BY <1>2, <1>3, <1>4 DEF MeshInv, MeshTypes
<1>6. \A m \in Nodes : NodeInv(m)'
  BY <1>2, <1>3 DEF MeshInv, NodeInv
<1>7. QED
  BY <1>5, <1>6 DEF MeshInv

LEMMA InvEmitTelemetry == ASSUME MeshInv, NEW n \in Nodes, EmitTelemetry(n) PROVE MeshInv'
<1> DEFINE f == Telemetry(n)  q == Schedule(queue[n], Fresh(f))
<1>1. /\ queue \in [Nodes -> Seq(Slots)] /\ seen \in Filters
      /\ \A m \in Nodes : Len(queue[m]) <= TxCapacity /\ QueueOK(queue[m], seen, m)
                          /\ RelayOK(relayed[m], queue[m], seen[m])
  BY DEF MeshInv, MeshTypes, NodeInv
<1>2. f \in Frames /\ f.by = n /\ ~Flooded(f)
  BY NodeFrames
<1>3. /\ q \in Seq(Slots) /\ Len(q) <= TxCapacity /\ QueueOK(q, seen, n)
      /\ \A k : NoRelay(queue[n], k) => NoRelay(q, k)
  BY <1>1, <1>2, FreshQueued
<1>4. /\ queue' = [queue EXCEPT ![n] = q]
      /\ UNCHANGED <<topology, seen, inbox, outgoing, uplink, relayed>>
      /\ events' = events + 2 /\ events' <= MaxEvents
  BY DEF EmitTelemetry, Event
<1> HIDE DEF f, q
<1>5. RelayOK(relayed[n], q, seen[n])
  BY <1>1, <1>3, RelayKept
<1>6. queue' \in [Nodes -> Seq(Slots)] /\ \A m \in Nodes : queue'[m] = IF m = n THEN q ELSE queue[m]
  BY <1>1, <1>3, <1>4
<1>7. events' \in 0..MaxEvents
  BY <1>4, MeshAssumption DEF MeshInv, MeshTypes
<1>8. MeshTypes'
  BY <1>4, <1>6, <1>7 DEF MeshInv, MeshTypes
<1>9. \A m \in Nodes : NodeInv(m)'
  BY <1>1, <1>3, <1>4, <1>5, <1>6 DEF MeshInv, NodeInv
<1>10. QED
  BY <1>8, <1>9 DEF MeshInv

LEMMA InvHostSacks == ASSUME MeshInv, NEW n \in Nodes, HostSacks(n) PROVE MeshInv'
<1> DEFINE f == Sack(n, Missing(n))
<1>1. Missing(n) \in SUBSET (0..(Chunks - 1))
  BY DEF Missing
<1>2. f \in Frames /\ f.by = n /\ Flooded(f)
  BY <1>1, NodeFrames
<1>3. /\ outgoing' = [outgoing EXCEPT ![n] = Append(@, f)]
      /\ UNCHANGED <<topology, queue, seen, inbox, uplink, relayed>>
      /\ events' = events + 1 /\ events' <= MaxEvents
  BY DEF HostSacks, Event
<1> HIDE DEF f
<1>4. outgoing \in [Nodes -> Seq(Frames)] /\ \A m \in Nodes : OutOK(outgoing[m], m)
  BY DEF MeshInv, MeshTypes, NodeInv
<1>5. Append(outgoing[n], f) \in Seq(Frames) /\ OutOK(Append(outgoing[n], f), n)
  BY <1>2, <1>4, OutAppend
<1>6. outgoing' \in [Nodes -> Seq(Frames)] /\ \A m \in Nodes : OutOK(outgoing'[m], m)
  BY <1>3, <1>4, <1>5
<1>7. events' \in 0..MaxEvents
  BY <1>3, MeshAssumption DEF MeshInv, MeshTypes
<1>8. MeshTypes'
  BY <1>3, <1>6, <1>7 DEF MeshInv, MeshTypes
<1>9. \A m \in Nodes : NodeInv(m)'
  BY <1>3, <1>6 DEF MeshInv, NodeInv
<1>10. QED
  BY <1>8, <1>9 DEF MeshInv

LEMMA InvSendFails == ASSUME MeshInv, NEW n \in Nodes, SendFails(n) PROVE MeshInv'
<1>1. /\ outgoing' = [outgoing EXCEPT ![n] = Tail(@)] /\ outgoing[n] # <<>>
      /\ UNCHANGED <<topology, queue, seen, inbox, uplink, relayed>>
      /\ events' = events + 1 /\ events' <= MaxEvents
  BY DEF SendFails, Event
<1>2. outgoing \in [Nodes -> Seq(Frames)] /\ \A m \in Nodes : OutOK(outgoing[m], m)
  BY DEF MeshInv, MeshTypes, NodeInv
<1>3. Tail(outgoing[n]) \in Seq(Frames) /\ OutOK(Tail(outgoing[n]), n)
  BY <1>1, <1>2, OutTail
<1>4. outgoing' \in [Nodes -> Seq(Frames)] /\ \A m \in Nodes : OutOK(outgoing'[m], m)
  BY <1>1, <1>2, <1>3
<1>5. events' \in 0..MaxEvents
  BY <1>1, MeshAssumption DEF MeshInv, MeshTypes
<1>6. MeshTypes'
  BY <1>1, <1>4, <1>5 DEF MeshInv, MeshTypes
<1>7. \A m \in Nodes : NodeInv(m)'
  BY <1>1, <1>4 DEF MeshInv, NodeInv
<1>8. QED
  BY <1>6, <1>7 DEF MeshInv

LEMMA InvSkipHoles == ASSUME MeshInv, NEW n \in Nodes, SkipHoles(n) PROVE MeshInv'
<1>1. /\ queue' = [queue EXCEPT ![n] = <<>>]
      /\ UNCHANGED <<topology, seen, inbox, outgoing, uplink, events, relayed>>
  BY DEF SkipHoles, AfterTaking
<1>2. <<>> \in Seq(Slots) /\ Len(<<>>) <= TxCapacity
      /\ QueueOK(<<>>, seen, n) /\ \A k : NoRelay(<<>>, k)
  BY TxAssumption DEF QueueOK, NoRelay
<1>3. /\ queue \in [Nodes -> Seq(Slots)]
      /\ \A m \in Nodes : Len(queue[m]) <= TxCapacity /\ QueueOK(queue[m], seen, m)
                          /\ RelayOK(relayed[m], queue[m], seen[m])
  BY DEF MeshInv, MeshTypes, NodeInv
<1>4. RelayOK(relayed[n], <<>>, seen[n])
  BY <1>2, <1>3, RelayKept
<1>5. queue' \in [Nodes -> Seq(Slots)] /\ \A m \in Nodes : queue'[m] = IF m = n THEN <<>> ELSE queue[m]
  BY <1>1, <1>2, <1>3
<1>6. MeshTypes'
  BY <1>1, <1>5 DEF MeshInv, MeshTypes
<1>7. \A m \in Nodes : NodeInv(m)'
  BY <1>1, <1>2, <1>3, <1>4, <1>5 DEF MeshInv, NodeInv
<1>8. QED
  BY <1>6, <1>7 DEF MeshInv

\* What a dongle transmits is fit, and it is counted if it is a relay.
LEMMA InvTransmit == ASSUME MeshInv, NEW n \in Nodes, Transmit(n) PROVE MeshInv'
<1> DEFINE q == AfterTaking(queue[n])  p == Taken(queue[n])  k == Key(p.frame)
<1>1. /\ queue \in [Nodes -> Seq(Slots)] /\ seen \in Filters
      /\ relayed \in [Nodes -> [Keys -> Nat]] /\ inbox \in [Nodes -> Seq(Received)]
      /\ \A m \in Nodes : /\ Len(queue[m]) <= TxCapacity /\ QueueOK(queue[m], seen, m)
                          /\ AirOK(inbox[m], seen, m) /\ RelayOK(relayed[m], queue[m], seen[m])
  BY DEF MeshInv, MeshTypes, NodeInv
<1>2. PendingIn(queue[n]) # {}
  BY DEF Transmit
<1>3. /\ q \in Seq(Slots) /\ Len(q) <= Len(queue[n]) /\ QueueOK(q, seen, n)
      /\ \A key : NoRelay(queue[n], key) => NoRelay(q, key)
      /\ p \in Packets /\ Fit(seen, p)
      /\ (Flooded(p.frame) => k \in seen[n])
      /\ (p.hop > 0 => ~NoRelay(queue[n], k) /\ NoRelay(q, k))
  BY <1>1, <1>2, TakeOK
<1>4. PICK deaf \in SUBSET Neighbours(n) :
        /\ Event(Cardinality(deaf))
        /\ inbox' = [m \in Nodes |-> IF m \in Neighbours(n) \ deaf
                                       THEN Append(inbox[m], OnAir(n, p)) ELSE inbox[m]]
  BY DEF Transmit
<1>5. /\ queue' = [queue EXCEPT ![n] = q]
      /\ relayed' = IF p.hop = 0 THEN relayed ELSE [relayed EXCEPT ![n][k] = @ + 1]
      /\ UNCHANGED <<topology, seen, outgoing, uplink>>
  BY DEF Transmit
<1> HIDE DEF q, p, k
<1>6. events' \in 0..MaxEvents
  <2>1. deaf \in SUBSET Nodes
    BY <1>4 DEF Neighbours
  <2>2. Cardinality(deaf) \in Nat
    BY <2>1, FS_Subset, FS_CardinalityType, MeshAssumption
  <2>3. events \in 0..MaxEvents
    BY DEF MeshInv, MeshTypes
  <2>4. QED
    BY <1>4, <2>2, <2>3, MeshAssumption DEF Event
<1>7. queue' \in [Nodes -> Seq(Slots)] /\ \A m \in Nodes : queue'[m] = IF m = n THEN q ELSE queue[m]
  BY <1>1, <1>3, <1>5
<1>8. inbox' \in [Nodes -> Seq(Received)] /\ \A m \in Nodes : AirOK(inbox'[m], seen, m)
  <2>1. OnAir(n, p) \in Received /\ OnAir(n, p).packet = p /\ OnAir(n, p).from = n
    BY <1>3 DEF OnAir, Received
  <2>2. ASSUME NEW m \in Nodes
        PROVE  inbox'[m] \in Seq(Received) /\ AirOK(inbox'[m], seen, m)
    <3>1. inbox[m] \in Seq(Received) /\ AirOK(inbox[m], seen, m)
      BY <1>1, <2>2
    <3>2. CASE m \in Neighbours(n) \ deaf
      <4>1. m # n
        BY <3>2, MeshAssumption DEF Neighbours, MeshInv, MeshTypes
      <4>2. inbox'[m] = Append(inbox[m], OnAir(n, p))
        BY <1>4, <2>2, <3>2
      <4>3. QED
        BY <1>3, <2>1, <3>1, <4>1, <4>2, AirAppend
    <3>3. CASE m \notin Neighbours(n) \ deaf
      BY <1>4, <2>2, <3>1, <3>3
    <3>4. QED
      BY <3>2, <3>3
  <2>3. inbox' = [m \in Nodes |-> inbox'[m]]
    BY <1>4
  <2>4. QED
    BY <2>2, <2>3
<1>9. relayed' \in [Nodes -> [Keys -> Nat]] /\ \A m \in Nodes : RelayOK(relayed'[m], queue'[m], seen[m])
  <2>1. RelayOK(relayed[n], q, seen[n])
    BY <1>1, <1>3, RelayKept
  <2>2. CASE p.hop = 0
    BY <1>1, <1>5, <1>7, <2>1, <2>2
  <2>3. CASE p.hop # 0
    <3>1. p.hop > 0 /\ p.frame \in Frames
      BY <1>3, <2>3 DEF Packets
    <3>2. Flooded(p.frame)
      BY <1>3, <3>1 DEF Fit
    <3>3. k \in Keys /\ k \in seen[n] /\ ~NoRelay(queue[n], k) /\ NoRelay(q, k)
      BY <1>3, <3>1, <3>2, FrameFacts DEF k
    <3>4. relayed[n][k] = 0
      BY <1>1, <3>3 DEF RelayOK
    <3>5. /\ relayed' \in [Nodes -> [Keys -> Nat]]
          /\ relayed'[n][k] = 1
          /\ \A j \in Keys : j # k => relayed'[n][j] = relayed[n][j]
          /\ \A m \in Nodes : m # n => relayed'[m] = relayed[m]
      BY <1>1, <1>5, <2>3, <3>3, <3>4
    <3>6. RelayOK(relayed'[n], q, seen[n])
      BY <2>1, <3>3, <3>5 DEF RelayOK
    <3>7. QED
      BY <1>1, <1>7, <3>5, <3>6
  <2>4. QED
    BY <2>2, <2>3
<1>10. MeshTypes'
  BY <1>5, <1>6, <1>7, <1>8, <1>9 DEF MeshInv, MeshTypes
<1>11. ASSUME NEW m \in Nodes PROVE NodeInv(m)'
  <2>1. Len(queue'[m]) <= TxCapacity
    <3>1. queue[n] \in Seq(Slots) /\ Len(queue[n]) <= TxCapacity
      BY <1>1
    <3>2. Len(q) \in Nat /\ Len(queue[n]) \in Nat
      BY <1>3, <3>1, LenProperties
    <3>3. Len(q) <= TxCapacity
      BY <1>3, <3>1, <3>2, TxAssumption
    <3>4. QED
      BY <1>1, <1>7, <1>11, <3>3, Zenon
  <2>2. QueueOK(queue'[m], seen, m)
    BY <1>1, <1>3, <1>7
  <2>3. QED
    BY <1>5, <1>8, <1>9, <1>11, <2>1, <2>2 DEF MeshInv, NodeInv
<1>12. QED
  BY <1>10, <1>11 DEF MeshInv

\* Whatever is heard, it was fit, and what is left to be polled still is.
LEMMA Polled ==
  ASSUME MeshInv, NEW n \in Nodes, Poll(n)
  PROVE  /\ Head(inbox[n]) \in Received /\ Fit(seen, Head(inbox[n]).packet)
         /\ Head(inbox[n]).from # n
         /\ inbox' \in [Nodes -> Seq(Received)]
         /\ \A m \in Nodes : inbox'[m] = IF m = n THEN Tail(inbox[n]) ELSE inbox[m]
         /\ \A s : AirOK(inbox[n], s, n) => AirOK(Tail(inbox[n]), s, n)
<1>1. /\ inbox[n] # <<>> /\ inbox[n] \in Seq(Received) /\ AirOK(inbox[n], seen, n)
      /\ inbox \in [Nodes -> Seq(Received)] /\ inbox' = [inbox EXCEPT ![n] = Tail(@)]
  BY DEF MeshInv, MeshTypes, NodeInv, Poll
<1>2. \A s : AirOK(inbox[n], s, n) => AirOK(Tail(inbox[n]), s, n)
  BY <1>1, AirTail
<1>3. Tail(inbox[n]) \in Seq(Received)
  BY <1>1, AirTail
<1>4. /\ Head(inbox[n]) \in Received /\ Fit(seen, Head(inbox[n]).packet)
      /\ Head(inbox[n]).from # n
  BY <1>1, AirTail
<1>5. QED
  BY <1>1, <1>2, <1>3, <1>4

LEMMA InvHearTelemetry == ASSUME MeshInv, NEW n \in Nodes, HearTelemetry(n) PROVE MeshInv'
<1>1. Poll(n) /\ UNCHANGED <<topology, queue, seen, outgoing, uplink, events, relayed>>
  BY DEF HearTelemetry
<1>2. inbox' \in [Nodes -> Seq(Received)] /\ \A m \in Nodes : AirOK(inbox'[m], seen, m)
  BY <1>1, Polled DEF MeshInv, NodeInv
<1>3. MeshTypes'
  BY <1>1, <1>2 DEF MeshInv, MeshTypes
<1>4. \A m \in Nodes : NodeInv(m)'
  BY <1>1, <1>2 DEF MeshInv, NodeInv
<1>5. QED
  BY <1>3, <1>4 DEF MeshInv

LEMMA InvHearDuplicate == ASSUME MeshInv, NEW n \in Nodes, HearDuplicate(n) PROVE MeshInv'
<1> DEFINE q == OnOverhear(queue[n], Key(Head(inbox[n]).packet.frame))
<1>1. /\ Poll(n) /\ queue' = [queue EXCEPT ![n] = q]
      /\ UNCHANGED <<topology, seen, outgoing, uplink, events, relayed>>
  BY DEF HearDuplicate
<1>2. inbox' \in [Nodes -> Seq(Received)] /\ \A m \in Nodes : AirOK(inbox'[m], seen, m)
  BY <1>1, Polled DEF MeshInv, NodeInv
<1>3. /\ queue \in [Nodes -> Seq(Slots)]
      /\ \A m \in Nodes : Len(queue[m]) <= TxCapacity /\ QueueOK(queue[m], seen, m)
                          /\ RelayOK(relayed[m], queue[m], seen[m])
  BY DEF MeshInv, MeshTypes, NodeInv
<1>4. /\ q \in Seq(Slots) /\ Len(q) = Len(queue[n]) /\ QueueOK(q, seen, n)
      /\ \A k : NoRelay(queue[n], k) => NoRelay(q, k)
  BY <1>3, CancelOK DEF OnOverhear
<1> HIDE DEF q
<1>5. RelayOK(relayed[n], q, seen[n])
  BY <1>3, <1>4, RelayKept
<1>6. queue' \in [Nodes -> Seq(Slots)] /\ \A m \in Nodes : queue'[m] = IF m = n THEN q ELSE queue[m]
  BY <1>1, <1>3, <1>4
<1>7. MeshTypes'
  BY <1>1, <1>2, <1>6 DEF MeshInv, MeshTypes
<1>8. \A m \in Nodes : NodeInv(m)'
  BY <1>1, <1>2, <1>3, <1>4, <1>5, <1>6 DEF MeshInv, NodeInv
<1>9. QED
  BY <1>7, <1>8 DEF MeshInv

\* The chunks a SACK asks for are the origin's own.
LEMMA AnswersOwn ==
  ASSUME NEW f \in Frames, NEW n \in Nodes, NEW a \in Answers(n, f)
  PROVE  a \in Seq(Frames) /\ OutOK(a, n)
<1>1. CASE n = Origin /\ f.kind = "sack"
  <2>1. a \in [1..Cardinality(f.missing) -> {Chunk(i) : i \in f.missing}]
    BY <1>1 DEF Answers
  <2>2. f.missing \in SUBSET (0..(Chunks - 1))
    BY <1>1, FrameFacts
  <2>3. Cardinality(f.missing) \in Nat
    <3>1. IsFiniteSet(0..(Chunks - 1))
      BY FS_Interval, MeshAssumption
    <3>2. QED
      BY <2>2, <3>1, FS_Subset, FS_CardinalityType
  <2>4. \A c \in {Chunk(i) : i \in f.missing} : c \in Frames /\ c.by = n /\ Flooded(c)
    BY <1>1, <2>2, ChunkFrame
  <2>5. a \in Seq(Frames) /\ Len(a) = Cardinality(f.missing)
    BY <2>1, <2>3, <2>4
  <2>6. \A i \in 1..Len(a) : a[i] \in {Chunk(j) : j \in f.missing}
    BY <2>1, <2>5
  <2>7. QED
    BY <2>4, <2>5, <2>6 DEF OutOK
<1>2. CASE ~(n = Origin /\ f.kind = "sack")
  <2>1. a = <<>>
    BY <1>2, Zenon DEF Answers
  <2>2. QED
    BY <2>1 DEF OutOK
<1>3. QED
  BY <1>1, <1>2

\* One hop more, at a dongle that did not know the key: the packet is still fit.
LEMMA HopFit ==
  ASSUME NEW s \in Filters, NEW t \in Filters, \A m \in Nodes : s[m] \subseteq t[m],
         NEW p \in Packets, Fit(s, p), Flooded(p.frame), p.ttl > 0,
         NEW n \in Nodes, Key(p.frame) \notin s[n], Key(p.frame) \in t[n]
  PROVE  /\ OneHopOn(p) \in Packets /\ Fit(t, OneHopOn(p))
         /\ OneHopOn(p).frame = p.frame
<1> DEFINE k == Key(p.frame)
<1>1. p.frame \in Frames /\ p.hop \in Nat /\ p.ttl \in Nat \ {0}
  BY DEF Packets
<1>2. /\ OneHopOn(p) \in Packets /\ OneHopOn(p).frame = p.frame
      /\ OneHopOn(p).hop = p.hop + 1 /\ OneHopOn(p).ttl = p.ttl - 1
  <2>1. p.hop + 1 \in Nat /\ p.ttl - 1 \in Nat
    BY <1>1
  <2> DEFINE h == p.hop + 1  l == p.ttl - 1
  <2>2. OneHopOn(p) = [[p EXCEPT !.ttl = l] EXCEPT !.hop = h]
    BY DEF OneHopOn
  <2> HIDE DEF h, l
  <2>3. h \in Nat /\ l \in Nat
    BY <2>1 DEF h, l
  <2>4. /\ OneHopOn(p) \in Packets /\ OneHopOn(p).frame = p.frame
        /\ OneHopOn(p).hop = h /\ OneHopOn(p).ttl = l
    BY <2>2, <2>3 DEF Packets
  <2>5. QED
    BY <2>4 DEF h, l
<1>3. p.frame.by \in Nodes /\ Ttl(p.frame) \in Nat
  BY <1>1, FrameFacts
<1>4. /\ Cardinality(Seers(s, k)) \in Nat /\ Cardinality(Seers(t, k)) \in Nat
      /\ Cardinality(Seers(s, k)) < Cardinality(Seers(t, k))
  BY SeersGrow
<1>5. p.hop + p.ttl = Ttl(p.frame) /\ k \in s[p.frame.by] /\ p.hop < Cardinality(Seers(s, k))
  BY DEF Fit
<1> HIDE DEF k
<1>6. p.hop + 1 < Cardinality(Seers(t, k)) /\ (p.hop + 1) + (p.ttl - 1) = Ttl(p.frame)
  BY <1>1, <1>3, <1>4, <1>5
<1>7. k \in t[p.frame.by]
  BY <1>3, <1>5
<1>8. QED
  BY <1>2, <1>6, <1>7 DEF Fit, k

\* The queue of a dongle that has just heard a key for the first time.
LEMMA HeardQueue ==
  ASSUME MeshInv, NEW n \in Nodes, HearNew(n)
  PROVE  /\ queue' \in [Nodes -> Seq(Slots)]
         /\ \A m \in Nodes : m # n => queue'[m] = queue[m]
         /\ Len(queue'[n]) <= TxCapacity /\ QueueOK(queue'[n], seen', n)
         /\ \A k \in seen[n] : NoRelay(queue[n], k) => NoRelay(queue'[n], k)
<1> DEFINE r == Head(inbox[n])  p == r.packet  f == p.frame  k == Key(f)
           heard == OnOverhear(queue[n], k)
<1>1. r \in Received /\ Fit(seen, p) /\ Poll(n)
  BY Polled DEF HearNew
<1>2. p \in Packets /\ f \in Frames
  BY <1>1 DEF Received, Packets
<1>3. Flooded(f) /\ k \notin seen[n] /\ seen' = [seen EXCEPT ![n] = Remember(@, f)]
  BY DEF HearNew, Flooded
<1>4. /\ seen \in Filters /\ seen' \in Filters /\ k \in seen'[n]
      /\ \A m \in Nodes : seen[m] \subseteq seen'[m]
      /\ QueueOK(queue[n], seen', n)
  BY <1>2, <1>3, Remembering DEF MeshInv, MeshTypes
<1>5. /\ queue \in [Nodes -> Seq(Slots)] /\ Len(queue[n]) <= TxCapacity
      /\ QueueOK(queue[n], seen, n)
  BY DEF MeshInv, MeshTypes, NodeInv
<1>6. /\ heard \in Seq(Slots) /\ Len(heard) <= TxCapacity /\ QueueOK(heard, seen', n)
      /\ \A key : NoRelay(queue[n], key) => NoRelay(heard, key)
  BY <1>4, <1>5, CancelOK DEF OnOverhear
<1>7. NoRelay(queue[n], k)
  <2>1. \A i \in 1..Len(queue[n]) : queue[n][i] # Hole =>
          /\ queue[n][i].hop > 0 => Flooded(queue[n][i].frame)
          /\ Flooded(queue[n][i].frame) => Key(queue[n][i].frame) \in seen[n]
    BY <1>5 DEF QueueOK, Fit
  <2>2. QED
    BY <1>3, <2>1, Zenon DEF NoRelay, IsRelay
<1>8. CASE Relayable(n, r)
  <2> DEFINE o == OneHopOn(p)  q == Schedule(heard, o)
  <2>1. p.ttl > 0
    BY <1>8 DEF Relayable
  <2>2. o \in Packets /\ Fit(seen', o) /\ o.frame = f
    <3>1. /\ p \in Packets /\ Fit(seen, p) /\ Flooded(p.frame) /\ p.ttl > 0
          /\ Key(p.frame) \notin seen[n] /\ Key(p.frame) \in seen'[n]
      BY <1>1, <1>2, <1>3, <1>4, <2>1
    <3>2. \A m \in Nodes : seen[m] \subseteq seen'[m]
      BY <1>4
    <3> HIDE DEF p
    <3>3. /\ OneHopOn(p) \in Packets /\ Fit(seen', OneHopOn(p))
          /\ OneHopOn(p).frame = p.frame
      BY <1>4, <3>1, <3>2, HopFit
    <3>4. QED
      BY <3>3
  <2>3. queue' = [queue EXCEPT ![n] = q]
    BY <1>8 DEF HearNew
  <2> HIDE DEF o
  <2>4. Key(o.frame) = k
    BY <2>2
  <2>5. NoRelay(heard, Key(o.frame)) /\ Key(o.frame) \in seen'[n]
    BY <1>4, <1>6, <1>7, <2>4
  <2> HIDE DEF k, f, p, r, heard
  <2>6. /\ q \in Seq(Slots) /\ Len(q) <= TxCapacity /\ QueueOK(q, seen', n)
        /\ \A key : NoRelay(heard, key) /\ (o.hop > 0 => Key(o.frame) # key) => NoRelay(q, key)
    BY <1>6, <2>2, <2>5, ScheduleOK
  <2> HIDE DEF q
  <2>7. \A key \in seen[n] : NoRelay(queue[n], key) => NoRelay(q, key)
    BY <1>3, <1>6, <2>4, <2>6
  <2>8. QED
    BY <1>5, <2>3, <2>6, <2>7
<1>9. CASE ~Relayable(n, r)
  <2>1. queue' = [queue EXCEPT ![n] = heard]
    BY <1>9 DEF HearNew
  <2> HIDE DEF heard
  <2>2. QED
    BY <1>5, <1>6, <2>1
<1>10. QED
  BY <1>8, <1>9

LEMMA InvHearNew == ASSUME MeshInv, NEW n \in Nodes, HearNew(n) PROVE MeshInv'
<1> DEFINE r == Head(inbox[n])  f == r.packet.frame
           e == [frame |-> f, from |-> r.from]
<1>1. Poll(n)
  BY DEF HearNew
<1>2. r \in Received /\ Fit(seen, r.packet) /\ r.from # n
  BY <1>1, Polled
<1>3. r.packet \in Packets /\ f \in Frames /\ e \in Handed /\ e.frame = f /\ e.from # n
  BY <1>2 DEF Received, Packets, Handed
<1>4. Flooded(f) /\ Key(f) \notin seen[n] /\ seen' = [seen EXCEPT ![n] = Remember(@, f)]
  BY DEF HearNew, Flooded
<1>5. f.by # n
  BY <1>2, <1>4 DEF Fit
<1>6. /\ seen' \in Filters /\ seen'[n] = seen[n] \cup {Key(f)}
      /\ \A m \in Nodes : seen[m] \subseteq seen'[m]
      /\ \A m \in Nodes : /\ QueueOK(queue[m], seen', m) /\ AirOK(inbox[m], seen', m)
                          /\ UpOK(uplink[m], seen'[m], m)
                          /\ RelayOK(relayed[m], queue[m], seen'[m])
  BY <1>3, <1>4, Remembering
<1>7. /\ uplink' = [uplink EXCEPT ![n] = Append(@, e)]
      /\ UNCHANGED <<topology, events, relayed>>
  BY DEF HearNew
<1>8. PICK a \in Answers(n, f) : outgoing' = [outgoing EXCEPT ![n] = @ \o a]
  BY DEF HearNew
<1> HIDE DEF f, e
<1>9. inbox' \in [Nodes -> Seq(Received)] /\ \A m \in Nodes : AirOK(inbox'[m], seen', m)
  BY <1>1, <1>6, Polled
<1>10. outgoing' \in [Nodes -> Seq(Frames)] /\ \A m \in Nodes : OutOK(outgoing'[m], m)
  <2>1. a \in Seq(Frames) /\ OutOK(a, n)
    BY <1>3, AnswersOwn
  <2>2. outgoing \in [Nodes -> Seq(Frames)] /\ \A m \in Nodes : OutOK(outgoing[m], m)
    BY DEF MeshInv, MeshTypes, NodeInv
  <2>3. outgoing[n] \o a \in Seq(Frames) /\ OutOK(outgoing[n] \o a, n)
    BY <2>1, <2>2, OutConcat
  <2>4. QED
    BY <1>8, <2>2, <2>3
<1>11. uplink' \in [Nodes -> Seq(Handed)] /\ \A m \in Nodes : UpOK(uplink'[m], seen'[m], m)
  <2>1. uplink \in [Nodes -> Seq(Handed)] /\ UpOK(uplink[n], seen[n], n)
    BY DEF MeshInv, MeshTypes, NodeInv
  <2>2. Append(uplink[n], e) \in Seq(Handed) /\ UpOK(Append(uplink[n], e), seen'[n], n)
    BY <1>3, <1>4, <1>5, <1>6, <2>1, UpAppend
  <2>3. QED
    BY <1>6, <1>7, <2>1, <2>2
<1>12. /\ queue' \in [Nodes -> Seq(Slots)]
       /\ \A m \in Nodes : m # n => queue'[m] = queue[m]
       /\ Len(queue'[n]) <= TxCapacity /\ QueueOK(queue'[n], seen', n)
       /\ \A k \in seen[n] : NoRelay(queue[n], k) => NoRelay(queue'[n], k)
  BY HeardQueue
<1>13. \A m \in Nodes : Len(queue[m]) <= TxCapacity /\ RelayOK(relayed[m], queue[m], seen[m])
  BY DEF MeshInv, NodeInv
<1>14. RelayOK(relayed[n], queue'[n], seen'[n])
  BY <1>6, <1>12, <1>13, RelayKept
<1>15. MeshTypes'
  BY <1>6, <1>7, <1>9, <1>10, <1>11, <1>12 DEF MeshInv, MeshTypes
<1>16. ASSUME NEW m \in Nodes PROVE NodeInv(m)'
  <2>1. /\ Len(queue'[m]) <= TxCapacity /\ QueueOK(queue'[m], seen', m)
        /\ RelayOK(relayed[m], queue'[m], seen'[m])
    BY <1>6, <1>12, <1>13, <1>14, <1>16
  <2>2. QED
    BY <1>7, <1>9, <1>10, <1>11, <1>16, <2>1 DEF NodeInv
<1>17. QED
  BY <1>15, <1>16 DEF MeshInv

LEMMA MeshStep == MeshInv /\ [Next]_vars => MeshInv'
<1> SUFFICES ASSUME MeshInv, [Next]_vars PROVE MeshInv'
  OBVIOUS
<1>1. CASE UNCHANGED vars
  <2>1. MeshTypes'
    BY <1>1 DEF vars, MeshInv, MeshTypes
  <2>2. \A n \in Nodes : NodeInv(n)'
    BY <1>1 DEF vars, MeshInv, NodeInv
  <2>3. QED
    BY <2>1, <2>2 DEF MeshInv
<1>2. ASSUME NEW n \in Nodes, Dongle(n) PROVE MeshInv'
  BY <1>2, InvUsbFrame, InvTransmit, InvSkipHoles, InvHearTelemetry, InvHearDuplicate,
     InvHearNew DEF Dongle
<1>3. ASSUME NEW n \in Nodes, SendFails(n) \/ HostSacks(n) PROVE MeshInv'
  BY <1>3, InvSendFails, InvHostSacks
<1>4. ASSUME NEW n \in Pressed, Button(n) PROVE MeshInv'
  BY <1>4, InvButton, MeshAssumption
<1>5. ASSUME NEW n \in Emitting, EmitTelemetry(n) PROVE MeshInv'
  BY <1>5, InvEmitTelemetry, MeshAssumption
<1>6. QED
  BY <1>1, <1>2, <1>3, <1>4, <1>5 DEF Next, Quiet

-----------------------------------------------------------------------------
\* What the invariant says of the whole mesh.

\* No queue outgrows its slots, a TTL only falls, and no dongle hears itself.
THEOREM TypeCorrect == Spec => []TypeOK
<1>1. MeshInv => TypeOK
  <2> SUFFICES ASSUME MeshInv PROVE TypeOK
    OBVIOUS
  <2>1. ASSUME NEW n \in Nodes
        PROVE  /\ Len(queue[n]) <= TxCapacity
               /\ \A i \in PendingIn(queue[n]) : queue[n][i].ttl \in 0..Ttl(queue[n][i].frame)
               /\ \A i \in DOMAIN inbox[n] : inbox[n][i].from \in Nodes \ {n}
               /\ \A i \in DOMAIN uplink[n] : uplink[n][i].from \in Nodes \ {n}
    <3>1. /\ NodeInv(n) /\ queue[n] \in Seq(Slots) /\ inbox[n] \in Seq(Received)
          /\ uplink[n] \in Seq(Handed)
      BY <2>1 DEF MeshInv, MeshTypes
    <3>2. ASSUME NEW i \in PendingIn(queue[n])
          PROVE  queue[n][i].ttl \in 0..Ttl(queue[n][i].frame)
      <4> DEFINE p == queue[n][i]
      <4>1. i \in 1..Len(queue[n]) /\ p # Hole
        BY <3>1, <3>2 DEF PendingIn
      <4>2. p \in Packets
        BY <3>1, <4>1 DEF Slots
      <4>3. Fit(seen, p)
        BY <3>1, <4>1 DEF NodeInv, QueueOK
      <4> HIDE DEF p
      <4>4. p.ttl \in Nat /\ p.hop \in Nat /\ p.hop + p.ttl = Ttl(p.frame)
        BY <4>2, <4>3 DEF Packets, Fit
      <4>5. p.ttl \in 0..Ttl(p.frame)
        BY <4>4
      <4>6. QED
        BY <4>5 DEF p
    <3>3. \A i \in DOMAIN inbox[n] : inbox[n][i].from \in Nodes \ {n}
      <4>1. \A i \in 1..Len(inbox[n]) : inbox[n][i] \in Received
        BY <3>1, ElementOfSeq
      <4>2. \A i \in 1..Len(inbox[n]) : inbox[n][i].from \in Nodes
        BY <4>1 DEF Received
      <4>3. QED
        BY <3>1, <4>2, LenProperties DEF NodeInv, AirOK
    <3>4. \A i \in DOMAIN uplink[n] : uplink[n][i].from \in Nodes \ {n}
      <4>1. \A i \in 1..Len(uplink[n]) : uplink[n][i] \in Handed
        BY <3>1, ElementOfSeq
      <4>2. \A i \in 1..Len(uplink[n]) : uplink[n][i].from \in Nodes
        BY <4>1 DEF Handed
      <4>3. QED
        BY <3>1, <4>2, LenProperties DEF NodeInv, UpOK
    <3>5. QED
      BY <3>1, <3>2, <3>3, <3>4 DEF NodeInv
  <2>2. QED
    BY <2>1 DEF MeshInv, MeshTypes, TypeOK, Filters
<1>2. QED
  BY <1>1, MeshStart, MeshStep, PTL DEF Spec

\* In any placement of any number of dongles, a host is told of a message id and chunk
\* index once, and never of what it sent itself (main.rs:419-424).
THEOREM ToldOnce == Spec => []OnceToHost
<1>1. MeshInv => OnceToHost
  <2> SUFFICES ASSUME MeshInv, NEW n \in Nodes, NEW i \in DOMAIN uplink[n]
               PROVE  /\ uplink[n][i].frame.by # n
                      /\ \A j \in DOMAIN uplink[n] :
                           i # j => Key(uplink[n][i].frame) # Key(uplink[n][j].frame)
    BY Zenon DEF OnceToHost
  <2>1. UpOK(uplink[n], seen[n], n) /\ DOMAIN uplink[n] = 1..Len(uplink[n])
    BY LenProperties DEF MeshInv, MeshTypes, NodeInv
  <2>2. QED
    BY <2>1 DEF UpOK
<1>2. QED
  BY <1>1, MeshStart, MeshStep, PTL DEF Spec

\* No broadcast storm, however dense the mesh: a dongle relays a key at most once,
\* counting the relay that is still in its queue (dedup.rs:3).
THEOREM NoStorm == Spec => []RelayedOnce
<1>1. MeshInv => RelayedOnce
  <2> SUFFICES ASSUME MeshInv, NEW n \in Nodes, NEW k \in Keys
               PROVE  relayed[n][k] + Cardinality(Relays(n, k)) <= 1
    BY DEF RelayedOnce
  <2>1. /\ queue[n] \in Seq(Slots) /\ QueueOK(queue[n], seen, n)
        /\ RelayOK(relayed[n], queue[n], seen[n])
    BY DEF MeshInv, MeshTypes, NodeInv
  <2>2. \A i : i \in Relays(n, k) <=>
                 i \in 1..Len(queue[n]) /\ queue[n][i] # Hole /\ IsRelay(queue[n], i, k)
    BY <2>1 DEF Relays, PendingIn, IsRelay
  <2>3. \A i, j \in Relays(n, k) : i = j
    BY <2>1, <2>2 DEF QueueOK, IsRelay
  <2>4. CASE NoRelay(queue[n], k)
    <3>1. Relays(n, k) = {}
      BY <2>2, <2>4, Zenon DEF NoRelay
    <3>2. Cardinality(Relays(n, k)) = 0
      BY <3>1, FS_EmptySet
    <3>3. relayed[n][k] \in {0, 1}
      BY <2>1 DEF RelayOK
    <3>4. QED
      BY <3>2, <3>3
  <2>5. CASE ~NoRelay(queue[n], k)
    <3>1. PICK i : i \in Relays(n, k)
      BY <2>2, <2>5, Zenon DEF NoRelay
    <3>2. Relays(n, k) = {i}
      BY <2>3, <3>1
    <3>3. Cardinality(Relays(n, k)) = 1
      BY <3>2, FS_Singleton
    <3>4. relayed[n][k] = 0
      BY <2>1, <2>5 DEF RelayOK
    <3>5. QED
      BY <3>3, <3>4
  <2>6. QED
    BY <2>4, <2>5
<1>2. QED
  BY <1>1, MeshStart, MeshStep, PTL DEF Spec

\* A frame visits no dongle twice: whatever its TTL, it makes fewer hops than there are
\* dongles, because every dongle it has passed knows its key.
THEOREM HopsBounded == Spec => []NoLoops
<1>1. MeshInv => NoLoops
  <2> SUFFICES ASSUME MeshInv, NEW p \in Copies
               PROVE  /\ p.hop < Cardinality(Nodes) /\ p.hop + p.ttl = Ttl(p.frame)
                      /\ p.frame.kind = "telemetry" => p.hop = 0
    BY DEF NoLoops
  <2>1. PICK n \in Nodes : \E i \in DOMAIN inbox[n] : p = inbox[n][i].packet
    BY Zenon DEF Copies
  <2>2. PICK i \in DOMAIN inbox[n] : p = inbox[n][i].packet
    BY <2>1
  <2>3. /\ inbox[n] \in Seq(Received) /\ AirOK(inbox[n], seen, n) /\ seen \in Filters
        /\ DOMAIN inbox[n] = 1..Len(inbox[n])
    BY LenProperties DEF MeshInv, MeshTypes, NodeInv
  <2>4. Fit(seen, p)
    BY <2>2, <2>3 DEF AirOK
  <2>5. p \in Packets
    <3>1. inbox[n][i] \in Received
      BY <2>2, <2>3, ElementOfSeq
    <3>2. QED
      BY <2>2, <3>1 DEF Received
  <2>6. p.hop < Cardinality(Nodes)
    <3>1. Cardinality(Nodes) \in Nat /\ Cardinality(Nodes) # 0 /\ p.hop \in Nat
      BY <2>5, FS_CardinalityType, FS_EmptySet, MeshAssumption DEF Packets
    <3>2. CASE Flooded(p.frame)
      <4> DEFINE c == Cardinality(Seers(seen, Key(p.frame)))
      <4>1. c \in Nat /\ c <= Cardinality(Nodes)
        BY <2>3, SeersGrow
      <4>2. p.hop < c
        BY <2>4, <3>2 DEF Fit
      <4> HIDE DEF c
      <4>3. QED
        BY <3>1, <4>1, <4>2
    <3>3. CASE ~Flooded(p.frame)
      BY <2>4, <3>1, <3>3 DEF Fit
    <3>4. QED
      BY <3>2, <3>3
  <2>7. QED
    BY <2>4, <2>6 DEF Fit, Flooded
<1>2. QED
  BY <1>1, MeshStart, MeshStep, PTL DEF Spec
-----------------------------------------------------------------------------
\* How far the flood of a chunk has come: from a dongle that has it, it is on its way
\* to each of the neighbours, or has reached it.
Reached(n, f) == n = Origin \/ Arrived(n, f)
Holds(q, f) == \E j \in 1..Len(q) : q[j] # Hole /\ q[j].frame = f
Carries(b, f) == \E j \in 1..Len(b) : b[j].packet.frame = f
Lists(o, f) == \E j \in 1..Len(o) : o[j] = f
OnItsWay(n, m, f) ==
  Lists(outgoing[n], f) \/ Holds(queue[n], f) \/ Carries(inbox[m], f) \/ Reached(m, f)
Spreads(f) == \A n \in Nodes : Reached(n, f) => \A m \in Neighbours(n) : OnItsWay(n, m, f)
CoverInv == \A i \in 0..(Chunks - 1) : CutShort(Chunk(i)) \/ Spreads(Chunk(i))

\* A slot that holds a packet is not empty.
SlotsDiffer == Hole \notin Packets

\* A flood that is not cut short stays so, in whichever of these ways a step moves it on.
LEMMA SpreadsOn ==
  ASSUME NEW f, Spreads(f), topology' = topology,
         \A n \in Nodes : Lists(outgoing[n], f) => Lists(outgoing'[n], f) \/ Holds(queue'[n], f),
         \A n \in Nodes : Holds(queue[n], f) => \/ Holds(queue'[n], f)
                                                \/ \A m \in Neighbours(n) : Carries(inbox'[m], f),
         \A m \in Nodes : Carries(inbox[m], f) => Carries(inbox'[m], f) \/ Reached(m, f)',
         \A m \in Nodes : Reached(m, f) => Reached(m, f)',
         \A n \in Nodes : Reached(n, f)' => Reached(n, f) \/ Holds(queue'[n], f)
  PROVE  Spreads(f)'
<1> SUFFICES ASSUME NEW n \in Nodes, Reached(n, f)', NEW m \in Neighbours(n)'
             PROVE  OnItsWay(n, m, f)'
  BY DEF Spreads
<1>1. m \in Neighbours(n) /\ m \in Nodes
  BY DEF Neighbours
<1>2. CASE Holds(queue'[n], f)
  BY <1>2 DEF OnItsWay
<1>3. CASE ~Holds(queue'[n], f)
  <2>1. OnItsWay(n, m, f)
    BY <1>1, <1>3 DEF Spreads
  <2> QED BY <1>1, <1>3, <2>1 DEF OnItsWay
<1> QED BY <1>2, <1>3

\* What a queue holds it still holds after these operations, unless the loss is on record.
LEMMA ScheduleHolds ==
  ASSUME SlotsDiffer, NEW q \in Seq(Slots), NEW p \in Packets, NEW f,
         <<"evicted", f>> \notin Evicted(q), Holds(q, f) \/ p.frame = f
  PROVE  Holds(Schedule(q, p), f)
<1> DEFINE r == Schedule(q, p)
<1>1. p \in Slots /\ p # Hole
  BY DEF Slots, SlotsDiffer
<1>2. CASE Full(q)
  <2>1. q # <<>> /\ Len(q) = TxCapacity
    BY <1>2, TxAssumption, EmptySeq DEF Full
  <2>2. /\ Tail(q) \in Seq(Slots) /\ Len(Tail(q)) = Len(q) - 1 /\ Head(q) = q[1]
        /\ \A i \in 1..(Len(q) - 1) : Tail(q)[i] = q[i + 1]
    BY <2>1, HeadTailProperties
  <2> DEFINE t == Tail(q)
  <2> HIDE DEF t
  <2>3. /\ t \in Seq(Slots) /\ Len(t) = Len(q) - 1
        /\ \A i \in 1..(Len(q) - 1) : t[i] = q[i + 1]
    BY <2>2 DEF t
  <2>4. /\ Append(t, p) \in Seq(Slots) /\ Len(Append(t, p)) = Len(t) + 1
        /\ \A i \in 1..Len(t) : Append(t, p)[i] = t[i]
        /\ Append(t, p)[Len(t) + 1] = p
    BY <1>1, <2>3, AppendProperties
  <2>5. r = Append(t, p)
    BY <1>2 DEF Schedule, t
  <2> HIDE DEF r
  <2>6. Len(q) \in Nat /\ Len(r) = Len(q) /\ r[Len(q)] = p /\ Len(q) >= 1
    BY <2>1, <2>3, <2>4, <2>5, TxAssumption
  <2>7. \A i \in 1..(Len(q) - 1) : r[i] = q[i + 1]
    BY <2>3, <2>4, <2>5, <2>6
  <2>8. CASE p.frame = f
    BY <1>1, <2>6, <2>8 DEF Holds, r
  <2>9. CASE Holds(q, f)
    <3>1. PICK j \in 1..Len(q) : q[j] # Hole /\ q[j].frame = f
      BY <2>9 DEF Holds
    <3>2. j # 1
      <4>1. SUFFICES ASSUME j = 1 PROVE FALSE
        OBVIOUS
      <4>2. Evicted(q) = {<<"evicted", f>>}
        BY <1>2, <2>2, <3>1, <4>1 DEF Evicted
      <4> QED BY <4>2
    <3>3. j - 1 \in 1..Len(r) /\ r[j - 1] = q[j]
      <4>1. j - 1 \in 1..(Len(q) - 1) /\ (j - 1) + 1 = j
        BY <2>6, <3>1, <3>2
      <4> QED BY <2>6, <2>7, <4>1
    <3> QED BY <3>1, <3>3 DEF Holds, r
  <2> QED BY <2>8, <2>9
<1>3. CASE ~Full(q)
  <2>1. r = Append(q, p)
    BY <1>3 DEF Schedule
  <2>2. /\ Append(q, p) \in Seq(Slots) /\ Len(Append(q, p)) = Len(q) + 1
        /\ \A i \in 1..Len(q) : Append(q, p)[i] = q[i]
        /\ Append(q, p)[Len(q) + 1] = p
    BY <1>1, AppendProperties
  <2> HIDE DEF r
  <2>3. Len(q) \in Nat /\ Len(r) = Len(q) + 1 /\ r[Len(q) + 1] = p /\ \A i \in 1..Len(q) : r[i] = q[i]
    BY <2>1, <2>2
  <2>4. CASE p.frame = f
    BY <1>1, <2>3, <2>4 DEF Holds, r
  <2>5. CASE Holds(q, f)
    <3>1. PICK j \in 1..Len(q) : q[j] # Hole /\ q[j].frame = f
      BY <2>5 DEF Holds
    <3>2. j \in 1..Len(r) /\ r[j] = q[j]
      BY <2>3, <3>1
    <3> QED BY <3>1, <3>2 DEF Holds, r
  <2> QED BY <2>4, <2>5
<1> QED BY <1>2, <1>3

LEMMA OverhearHolds ==
  ASSUME NEW q \in Seq(Slots), NEW k, NEW f, <<"cancelled", f>> \notin Cancelled(q, k), Holds(q, f)
  PROVE  Holds(OnOverhear(q, k), f)
<1> DEFINE M == Matching(q, k)
<1>1. PICK j \in 1..Len(q) : q[j] # Hole /\ q[j].frame = f
  BY DEF Holds
<1>2. CASE M = {}
  BY <1>2 DEF OnOverhear, CancelFirst
<1>3. CASE M # {}
  <2>1. M \subseteq 1..Len(q)
    BY DEF Matching, PendingIn
  <2>2. FirstOf(M) # j
    <3>1. SUFFICES ASSUME FirstOf(M) = j PROVE FALSE
      OBVIOUS
    <3>2. Cancelled(q, k) = {<<"cancelled", f>>}
      BY <1>1, <1>3, <3>1 DEF Cancelled
    <3> QED BY <3>2
  <2>3. OnOverhear(q, k) = [q EXCEPT ![FirstOf(M)] = Hole]
    BY <1>3 DEF OnOverhear, CancelFirst
  <2> DEFINE x == FirstOf(M)
  <2> HIDE DEF M, x
  <2>4. OnOverhear(q, k) = [q EXCEPT ![x] = Hole] /\ x # j
    BY <2>2, <2>3 DEF x
  <2>5. Len([q EXCEPT ![x] = Hole]) = Len(q) /\ [q EXCEPT ![x] = Hole][j] = q[j]
    BY <1>1, <2>4
  <2> QED BY <1>1, <2>4, <2>5 DEF Holds
<1> QED BY <1>2, <1>3

\* Only the first packet leaves a queue.
LEMMA TakeHolds ==
  ASSUME NEW q \in Seq(Slots), PendingIn(q) # {}, NEW f, Holds(q, f)
  PROVE  Taken(q).frame = f \/ Holds(AfterTaking(q), f)
<1> DEFINE k == FirstOf(PendingIn(q))
<1>1. PendingIn(q) \in SUBSET Nat /\ PendingIn(q) \subseteq 1..Len(q) /\ Len(q) \in Nat
  BY DEF PendingIn
<1>2. k \in PendingIn(q) /\ \A i \in PendingIn(q) : k <= i
  BY <1>1, FirstIsFirst
<1>3. AfterTaking(q) = SubSeq(q, k + 1, Len(q)) /\ Taken(q) = q[k]
  BY Zenon DEF AfterTaking, Taken, k
<1> HIDE DEF k
<1>4. PICK j \in 1..Len(q) : q[j] # Hole /\ q[j].frame = f
  BY DEF Holds
<1>5. j \in PendingIn(q) /\ k <= j /\ k \in 1..Len(q)
  BY <1>1, <1>2, <1>4 DEF PendingIn
<1>6. CASE j = k
  BY <1>3, <1>4, <1>6
<1>7. CASE j # k
  <2>1. \A i \in (k + 1)..Len(q) : q[i] \in Slots
    BY <1>1, <1>5
  <2> DEFINE r == SubSeq(q, k + 1, Len(q))
  <2>2. /\ Len(r) = IF k + 1 <= Len(q) THEN Len(q) - (k + 1) + 1 ELSE 0
        /\ \A i \in 1..(Len(q) - (k + 1) + 1) : r[i] = q[k + 1 + i - 1]
    BY <1>1, <1>5, <2>1, SubSeqProperties
  <2> HIDE DEF r
  <2>3. j - k \in 1..(Len(q) - (k + 1) + 1) /\ k + 1 + (j - k) - 1 = j /\ k + 1 <= Len(q)
    BY <1>1, <1>5, <1>7
  <2>4. Len(r) = Len(q) - (k + 1) + 1
    BY <2>2, <2>3
  <2>5. r[j - k] = q[j] /\ j - k \in 1..Len(r)
    BY <2>2, <2>3, <2>4
  <2>6. Holds(r, f)
    BY <1>4, <2>5 DEF Holds
  <2> QED BY <1>3, <2>6 DEF r
<1> QED BY <1>6, <1>7

\* What was received or is still to be written: the head, or behind it.
LEMMA CarriesTail ==
  ASSUME NEW b \in Seq(Received), b # <<>>, NEW f, Carries(b, f)
  PROVE  Head(b).packet.frame = f \/ Carries(Tail(b), f)
<1>1. /\ Len(Tail(b)) = Len(b) - 1 /\ Len(b) \in Nat \ {0} /\ Head(b) = b[1]
      /\ \A i \in 1..Len(Tail(b)) : Tail(b)[i] = b[i + 1]
  BY HeadTailProperties, EmptySeq
<1> DEFINE r == Tail(b)
<1> HIDE DEF r
<1>2. /\ Len(r) = Len(b) - 1 /\ \A i \in 1..Len(r) : r[i] = b[i + 1]
  BY <1>1 DEF r
<1>3. PICK j \in 1..Len(b) : b[j].packet.frame = f
  BY DEF Carries
<1>4. CASE j = 1
  BY <1>1, <1>3, <1>4
<1>5. CASE j # 1
  <2>1. j - 1 \in 1..Len(r) /\ (j - 1) + 1 = j
    BY <1>1, <1>2, <1>3, <1>5
  <2>2. Carries(r, f)
    BY <1>2, <1>3, <2>1 DEF Carries
  <2> QED BY <2>2 DEF r
<1> QED BY <1>4, <1>5

LEMMA ListsTail ==
  ASSUME NEW o \in Seq(Frames), o # <<>>, NEW f, Lists(o, f)
  PROVE  Head(o) = f \/ Lists(Tail(o), f)
<1>1. /\ Len(Tail(o)) = Len(o) - 1 /\ Len(o) \in Nat \ {0} /\ Head(o) = o[1]
      /\ \A i \in 1..Len(Tail(o)) : Tail(o)[i] = o[i + 1]
  BY HeadTailProperties, EmptySeq
<1> DEFINE r == Tail(o)
<1> HIDE DEF r
<1>2. /\ Len(r) = Len(o) - 1 /\ \A i \in 1..Len(r) : r[i] = o[i + 1]
  BY <1>1 DEF r
<1>3. PICK j \in 1..Len(o) : o[j] = f
  BY DEF Lists
<1>4. CASE j = 1
  BY <1>1, <1>3, <1>4
<1>5. CASE j # 1
  <2>1. j - 1 \in 1..Len(r) /\ (j - 1) + 1 = j
    BY <1>1, <1>2, <1>3, <1>5
  <2>2. Lists(r, f)
    BY <1>2, <1>3, <2>1 DEF Lists
  <2> QED BY <2>2 DEF r
<1> QED BY <1>4, <1>5

LEMMA ListsConcat ==
  ASSUME NEW o \in Seq(Frames), NEW a \in Seq(Frames), NEW f, Lists(o, f)
  PROVE  Lists(o \o a, f)
<1> DEFINE r == o \o a
<1>1. /\ Len(r) = Len(o) + Len(a)
      /\ \A i \in 1..(Len(o) + Len(a)) : r[i] = IF i <= Len(o) THEN o[i] ELSE a[i - Len(o)]
  BY ConcatProperties
<1> HIDE DEF r
<1>2. PICK j \in 1..Len(o) : o[j] = f
  BY DEF Lists
<1>3. j \in 1..Len(r) /\ r[j] = f
  BY <1>1, <1>2
<1> QED BY <1>3 DEF Lists, r

\* What arrives is what was handed up last, or has arrived before.
LEMMA ArrivesWith ==
  ASSUME MeshInv, NEW n \in Nodes, NEW e \in Handed, uplink' = [uplink EXCEPT ![n] = Append(@, e)],
         NEW f, NEW m \in Nodes
  PROVE  Arrived(m, f)' <=> Arrived(m, f) \/ (m = n /\ f = e.frame)
<1>1. uplink \in [Nodes -> Seq(Handed)]
  BY DEF MeshInv, MeshTypes
<1> DEFINE u == uplink[n]  r == Append(u, e)
<1>2. /\ u \in Seq(Handed) /\ r \in Seq(Handed) /\ Len(r) = Len(u) + 1 /\ r[Len(u) + 1] = e
      /\ \A i \in 1..Len(u) : r[i] = u[i]
  BY <1>1, AppendProperties
<1>3. uplink'[m] = IF m = n THEN r ELSE uplink[m]
  BY <1>1
<1> HIDE DEF r
<1>4. DOMAIN u = 1..Len(u) /\ DOMAIN r = 1..(Len(u) + 1) /\ Len(u) \in Nat
  BY <1>2
<1>5. ASSUME m = n PROVE Arrived(m, f)' <=> Arrived(m, f) \/ f = e.frame
  <2>1. uplink'[m] = r /\ uplink[m] = u
    BY <1>3, <1>5
  <2> HIDE DEF u
  <2>2. \A i : i \in DOMAIN r <=> i \in DOMAIN u \/ i = Len(u) + 1
    BY <1>4
  <2>3. (\E i \in DOMAIN r : r[i].frame = f) <=> (\E i \in DOMAIN u : u[i].frame = f) \/ f = e.frame
    BY <1>2, <1>4, <2>2
  <2> QED BY <2>1, <2>3 DEF Arrived
<1>6. ASSUME m # n PROVE Arrived(m, f)' <=> Arrived(m, f)
  BY <1>3, <1>6 DEF Arrived
<1> QED BY <1>5, <1>6

\* A frame that a dongle queues: nobody's packets are lost by it without a record.
LEMMA ScheduledOn ==
  ASSUME SlotsDiffer, MeshInv, NEW f, <<"evicted", f>> \notin givenUp', NEW n \in Nodes,
         NEW p \in Packets, queue' = [queue EXCEPT ![n] = Schedule(@, p)],
         givenUp' = givenUp \cup Evicted(queue[n])
  PROVE  /\ \A m \in Nodes : Holds(queue[m], f) => Holds(queue'[m], f)
         /\ p.frame = f => Holds(queue'[n], f)
<1>1. queue \in [Nodes -> Seq(Slots)] /\ queue[n] \in Seq(Slots)
  BY DEF MeshInv, MeshTypes
<1>2. Holds(queue[n], f) \/ p.frame = f => Holds(Schedule(queue[n], p), f)
  BY <1>1, ScheduleHolds
<1>3. \A m \in Nodes : queue'[m] = IF m = n THEN Schedule(queue[n], p) ELSE queue[m]
  BY <1>1
<1> QED BY <1>2, <1>3

LEMMA OnUsbFrame ==
  ASSUME SlotsDiffer, MeshInv, NEW f, Spreads(f), ~CutShort(f)', NEW n \in Nodes, UsbFrame(n)
  PROVE  Spreads(f)'
<1> DEFINE g == Head(outgoing[n])
<1>1. /\ outgoing[n] # <<>> /\ outgoing' = [outgoing EXCEPT ![n] = Tail(@)]
      /\ queue' = [queue EXCEPT ![n] = Schedule(@, Fresh(g))]
      /\ givenUp' = givenUp \cup Evicted(queue[n])
      /\ UNCHANGED <<topology, inbox, uplink>>
  BY DEF UsbFrame
<1>2. outgoing \in [Nodes -> Seq(Frames)] /\ outgoing[n] \in Seq(Frames) /\ OutOK(outgoing[n], n)
  BY DEF MeshInv, MeshTypes, NodeInv
<1>3. g \in Frames
  BY <1>1, <1>2, OutTail
<1> HIDE DEF g
<1>4. Fresh(g) \in Packets /\ Fresh(g).frame = g
  BY <1>3, FrameFacts DEF Fresh, Packets
<1>5. <<"evicted", f>> \notin givenUp'
  BY DEF CutShort
<1>6. /\ \A m \in Nodes : Holds(queue[m], f) => Holds(queue'[m], f)
      /\ g = f => Holds(queue'[n], f)
  BY <1>1, <1>4, <1>5, ScheduledOn
<1>7. \A m \in Nodes : Lists(outgoing[m], f) => Lists(outgoing'[m], f) \/ Holds(queue'[m], f)
  <2>1. Lists(outgoing[n], f) => g = f \/ Lists(Tail(outgoing[n]), f)
    BY <1>1, <1>2, ListsTail DEF g
  <2>2. \A m \in Nodes : outgoing'[m] = IF m = n THEN Tail(outgoing[n]) ELSE outgoing[m]
    BY <1>1, <1>2
  <2> QED BY <1>6, <2>1, <2>2
<1>8. \A m \in Nodes : Reached(m, f)' <=> Reached(m, f)
  BY <1>1 DEF Reached, Arrived
<1> QED BY <1>1, <1>6, <1>7, <1>8, SpreadsOn

LEMMA OnButton ==
  ASSUME SlotsDiffer, MeshInv, NEW f, Spreads(f), ~CutShort(f)', NEW n \in Nodes, Button(n)
  PROVE  Spreads(f)'
<1>1. /\ queue' = [queue EXCEPT ![n] = Schedule(@, Fresh(Beacon(n)))]
      /\ givenUp' = givenUp \cup Evicted(queue[n])
      /\ UNCHANGED <<topology, inbox, outgoing, uplink>>
  BY DEF Button
<1>2. Fresh(Beacon(n)) \in Packets
  BY NodeFrames, FrameFacts DEF Fresh, Packets
<1>3. <<"evicted", f>> \notin givenUp'
  BY DEF CutShort
<1>4. \A m \in Nodes : Holds(queue[m], f) => Holds(queue'[m], f)
  BY <1>1, <1>2, <1>3, ScheduledOn
<1>5. \A m \in Nodes : Reached(m, f)' <=> Reached(m, f)
  BY <1>1 DEF Reached, Arrived
<1> QED BY <1>1, <1>4, <1>5, SpreadsOn

\* Telemetry is queued where no chunk is.
LEMMA OnEmitTelemetry ==
  ASSUME MeshInv, NEW f, f.kind = "chunk", Spreads(f), NEW n \in Nodes, EmitTelemetry(n)
  PROVE  Spreads(f)'
<1>1. /\ queue' = [queue EXCEPT ![n] = Schedule(@, Fresh(Telemetry(n)))]
      /\ UserTraffic(queue[n]) = {}
      /\ UNCHANGED <<topology, inbox, outgoing, uplink>>
  BY DEF EmitTelemetry
<1>2. queue \in [Nodes -> Seq(Slots)] /\ queue[n] \in Seq(Slots)
  BY DEF MeshInv, MeshTypes
<1>3. ~Holds(queue[n], f)
  <2>1. SUFFICES ASSUME NEW j \in 1..Len(queue[n]), queue[n][j] # Hole, queue[n][j].frame = f
                 PROVE  FALSE
    BY DEF Holds
  <2>2. j \in UserTraffic(queue[n])
    BY <1>2, <2>1 DEF UserTraffic, PendingIn
  <2> QED BY <1>1, <2>2
<1>4. \A m \in Nodes : m # n => queue'[m] = queue[m]
  BY <1>1, <1>2
<1>5. \A m \in Nodes : Reached(m, f)' <=> Reached(m, f)
  BY <1>1 DEF Reached, Arrived
<1> QED BY <1>1, <1>3, <1>4, <1>5, SpreadsOn

LEMMA OnHostSacks ==
  ASSUME MeshInv, NEW f, Spreads(f), NEW n \in Nodes, HostSacks(n)
  PROVE  Spreads(f)'
<1> DEFINE g == Sack(n, Missing(n))
<1>1. /\ outgoing' = [outgoing EXCEPT ![n] = Append(@, g)]
      /\ UNCHANGED <<topology, queue, inbox, uplink>>
  BY DEF HostSacks
<1>2. g \in Frames /\ outgoing \in [Nodes -> Seq(Frames)] /\ outgoing[n] \in Seq(Frames)
  BY NodeFrames DEF Missing, MeshInv, MeshTypes
<1> HIDE DEF g
<1>3. Lists(outgoing[n], f) => Lists(Append(outgoing[n], g), f)
  <2> DEFINE r == Append(outgoing[n], g)
  <2>1. Len(r) = Len(outgoing[n]) + 1 /\ \A i \in 1..Len(outgoing[n]) : r[i] = outgoing[n][i]
    BY <1>2, AppendProperties
  <2> HIDE DEF r
  <2>2. \A i \in 1..Len(outgoing[n]) : i \in 1..Len(r)
    BY <1>2, <2>1
  <2>3. Lists(outgoing[n], f) => Lists(r, f)
    BY <2>1, <2>2 DEF Lists
  <2> QED BY <2>3 DEF r
<1>4. \A m \in Nodes : Lists(outgoing[m], f) => Lists(outgoing'[m], f)
  <2>1. \A m \in Nodes : outgoing'[m] = IF m = n THEN Append(outgoing[n], g) ELSE outgoing[m]
    BY <1>1, <1>2
  <2> QED BY <1>3, <2>1
<1>5. \A m \in Nodes : Reached(m, f)' <=> Reached(m, f)
  BY <1>1 DEF Reached, Arrived
<1> QED BY <1>1, <1>4, <1>5, SpreadsOn

LEMMA OnSendFails ==
  ASSUME MeshInv, NEW f, Spreads(f), ~CutShort(f)', NEW n \in Nodes, SendFails(n)
  PROVE  Spreads(f)'
<1>1. /\ outgoing[n] # <<>> /\ outgoing' = [outgoing EXCEPT ![n] = Tail(@)]
      /\ givenUp' = givenUp \cup {<<"lost", Head(outgoing[n])>>}
      /\ UNCHANGED <<topology, queue, inbox, uplink>>
  BY DEF SendFails
<1>2. outgoing \in [Nodes -> Seq(Frames)] /\ outgoing[n] \in Seq(Frames)
  BY DEF MeshInv, MeshTypes
<1>3. Head(outgoing[n]) # f
  BY <1>1 DEF CutShort
<1>4. \A m \in Nodes : Lists(outgoing[m], f) => Lists(outgoing'[m], f)
  <2>1. Lists(outgoing[n], f) => Lists(Tail(outgoing[n]), f)
    BY <1>1, <1>2, <1>3, ListsTail
  <2>2. \A m \in Nodes : outgoing'[m] = IF m = n THEN Tail(outgoing[n]) ELSE outgoing[m]
    BY <1>1, <1>2
  <2> QED BY <2>1, <2>2
<1>5. \A m \in Nodes : Reached(m, f)' <=> Reached(m, f)
  BY <1>1 DEF Reached, Arrived
<1> QED BY <1>1, <1>4, <1>5, SpreadsOn

\* Holes are skipped: nothing leaves the queue.
LEMMA OnSkipHoles ==
  ASSUME MeshInv, NEW f, Spreads(f), NEW n \in Nodes, SkipHoles(n)
  PROVE  Spreads(f)'
<1>1. /\ PendingIn(queue[n]) = {} /\ queue' = [queue EXCEPT ![n] = AfterTaking(@)]
      /\ UNCHANGED <<topology, inbox, outgoing, uplink>>
  BY DEF SkipHoles
<1>2. queue \in [Nodes -> Seq(Slots)] /\ queue[n] \in Seq(Slots)
  BY DEF MeshInv, MeshTypes
<1>3. ~Holds(queue[n], f)
  BY <1>1, <1>2 DEF Holds, PendingIn
<1>4. \A m \in Nodes : m # n => queue'[m] = queue[m]
  BY <1>1, <1>2
<1>5. \A m \in Nodes : Reached(m, f)' <=> Reached(m, f)
  BY <1>1 DEF Reached, Arrived
<1> QED BY <1>1, <1>3, <1>4, <1>5, SpreadsOn

\* A transmission reaches every neighbour, unless a loss is on record.
LEMMA OnTransmit ==
  ASSUME MeshInv, NEW f, Spreads(f), ~CutShort(f)', NEW n \in Nodes, Transmit(n)
  PROVE  Spreads(f)'
<1> DEFINE p == Taken(queue[n])
<1>1. queue \in [Nodes -> Seq(Slots)] /\ queue[n] \in Seq(Slots) /\ inbox \in [Nodes -> Seq(Received)]
      /\ seen \in Filters /\ QueueOK(queue[n], seen, n)
  BY DEF MeshInv, MeshTypes, NodeInv
<1>2. PendingIn(queue[n]) # {} /\ queue' = [queue EXCEPT ![n] = AfterTaking(@)]
      /\ UNCHANGED <<topology, outgoing, uplink>>
  BY DEF Transmit
<1>3. PICK deaf \in SUBSET Neighbours(n) :
        /\ inbox' = [m \in Nodes |-> IF m \in Neighbours(n) \ deaf
                                       THEN Append(inbox[m], OnAir(n, p)) ELSE inbox[m]]
        /\ givenUp' = givenUp \cup IF deaf = {} THEN {} ELSE {<<"lost", p.frame>>}
  BY DEF Transmit
<1>4. p \in Packets
  BY <1>1, <1>2, TakeOK
<1>5. Holds(queue[n], f) => p.frame = f \/ Holds(AfterTaking(queue[n]), f)
  BY <1>1, <1>2, TakeHolds
<1> HIDE DEF p
<1>6. OnAir(n, p) \in Received /\ OnAir(n, p).packet = p
  BY <1>4 DEF OnAir, Received
<1>7. ASSUME NEW m \in Nodes
      PROVE  /\ Carries(inbox[m], f) => Carries(inbox'[m], f)
             /\ m \in Neighbours(n) \ deaf /\ p.frame = f => Carries(inbox'[m], f)
  <2>1. CASE m \notin Neighbours(n) \ deaf
    BY <1>3, <2>1
  <2>2. CASE m \in Neighbours(n) \ deaf
    <3> DEFINE b == inbox[m]  r == Append(b, OnAir(n, p))
    <3>1. b \in Seq(Received) /\ inbox'[m] = r
      BY <1>1, <1>3, <2>2
    <3>2. Len(r) = Len(b) + 1 /\ r[Len(b) + 1] = OnAir(n, p) /\ \A i \in 1..Len(b) : r[i] = b[i]
      BY <1>6, <3>1, AppendProperties
    <3> HIDE DEF r
    <3>3. Len(b) + 1 \in 1..Len(r) /\ \A i \in 1..Len(b) : i \in 1..Len(r)
      BY <3>1, <3>2
    <3> HIDE DEF b
    <3>4. (Carries(b, f) => Carries(r, f)) /\ (p.frame = f => Carries(r, f))
      BY <1>6, <3>2, <3>3 DEF Carries
    <3> QED BY <3>1, <3>4 DEF b
  <2> QED BY <2>1, <2>2
<1>8. p.frame = f => deaf = {}
  BY <1>3 DEF CutShort
<1>9. \A m \in Nodes : Holds(queue[m], f) => \/ Holds(queue'[m], f)
                                              \/ \A j \in Neighbours(m) : Carries(inbox'[j], f)
  <2>1. \A m \in Nodes : queue'[m] = IF m = n THEN AfterTaking(queue[n]) ELSE queue[m]
    BY <1>1, <1>2
  <2>2. p.frame = f => \A j \in Neighbours(n) : Carries(inbox'[j], f)
    BY <1>7, <1>8 DEF Neighbours
  <2> QED BY <1>5, <2>1, <2>2
<1>10. \A m \in Nodes : Reached(m, f)' <=> Reached(m, f)
  BY <1>2 DEF Reached, Arrived
<1> QED BY <1>2, <1>7, <1>9, <1>10, SpreadsOn

\* A frame that a dongle polls is no longer in the air for it; the others still are.
LEMMA PolledOn ==
  ASSUME MeshInv, NEW f, NEW n \in Nodes, Poll(n)
  PROVE  \A m \in Nodes : Carries(inbox[m], f) =>
           Carries(inbox'[m], f) \/ (m = n /\ Head(inbox[n]).packet.frame = f)
<1>1. /\ inbox \in [Nodes -> Seq(Received)] /\ inbox[n] \in Seq(Received) /\ inbox[n] # <<>>
      /\ inbox' = [inbox EXCEPT ![n] = Tail(@)]
  BY DEF MeshInv, MeshTypes, Poll
<1>2. Carries(inbox[n], f) => Head(inbox[n]).packet.frame = f \/ Carries(Tail(inbox[n]), f)
  BY <1>1, CarriesTail
<1>3. \A m \in Nodes : inbox'[m] = IF m = n THEN Tail(inbox[n]) ELSE inbox[m]
  BY <1>1
<1> QED BY <1>2, <1>3

LEMMA OnHearTelemetry ==
  ASSUME MeshInv, NEW f, f.kind = "chunk", Spreads(f), NEW n \in Nodes, HearTelemetry(n)
  PROVE  Spreads(f)'
<1>1. /\ Poll(n) /\ Head(inbox[n]).packet.frame.kind = "telemetry"
      /\ UNCHANGED <<topology, queue, outgoing, uplink>>
  BY DEF HearTelemetry
<1>2. Head(inbox[n]).packet.frame # f
  BY <1>1
<1>3. \A m \in Nodes : Carries(inbox[m], f) => Carries(inbox'[m], f)
  BY <1>1, <1>2, PolledOn
<1>4. \A m \in Nodes : Reached(m, f)' <=> Reached(m, f)
  BY <1>1 DEF Reached, Arrived
<1> QED BY <1>1, <1>3, <1>4, SpreadsOn

\* What is taken for a duplicate has arrived before, unless a clash is on record.
LEMMA OnHearDuplicate ==
  ASSUME MeshInv, NEW f, f.by = Origin, Spreads(f), ~CutShort(f)', NEW n \in Nodes, HearDuplicate(n)
  PROVE  Spreads(f)'
<1> DEFINE g == Head(inbox[n]).packet.frame  q == OnOverhear(queue[n], Key(g))
<1>1. /\ Poll(n) /\ queue' = [queue EXCEPT ![n] = q]
      /\ givenUp' = givenUp \cup Cancelled(queue[n], Key(g)) \cup IF Known(n, g) THEN {} ELSE {<<"clash", g>>}
      /\ UNCHANGED <<topology, outgoing, uplink>>
  BY DEF HearDuplicate
<1>2. queue \in [Nodes -> Seq(Slots)] /\ queue[n] \in Seq(Slots)
  BY DEF MeshInv, MeshTypes
<1>3. <<"cancelled", f>> \notin givenUp' /\ <<"clash", f>> \notin givenUp'
  BY DEF CutShort
<1>4. <<"cancelled", f>> \notin Cancelled(queue[n], Key(g)) /\ (g = f => Known(n, f))
  BY <1>1, <1>3
<1>5. Holds(queue[n], f) => Holds(q, f)
  BY <1>2, <1>4, OverhearHolds
<1>6. g = f => Reached(n, f)
  <2>1. Known(n, f) => Reached(n, f)
    BY DEF Known, Reached, Arrived
  <2> QED BY <1>4, <2>1
<1>7. \A m \in Nodes : Carries(inbox[m], f) => Carries(inbox'[m], f) \/ (m = n /\ g = f)
  BY <1>1, PolledOn
<1> HIDE DEF g, q
<1>8. \A m \in Nodes : Holds(queue[m], f) => Holds(queue'[m], f)
  <2>1. \A m \in Nodes : queue'[m] = IF m = n THEN q ELSE queue[m]
    BY <1>1, <1>2
  <2> QED BY <1>5, <2>1
<1>9. \A m \in Nodes : Reached(m, f)' <=> Reached(m, f)
  BY <1>1 DEF Reached, Arrived
<1>10. \A m \in Nodes : Carries(inbox[m], f) => Carries(inbox'[m], f) \/ Reached(m, f)'
  BY <1>6, <1>7, <1>9
<1> QED BY <1>1, <1>8, <1>9, <1>10, SpreadsOn

\* A new frame arrives, and is passed on unless a refusal is on record.
LEMMA OnHearNew ==
  ASSUME SlotsDiffer, MeshInv, NEW f, Spreads(f), ~CutShort(f)', NEW n \in Nodes, HearNew(n)
  PROVE  Spreads(f)'
<1> DEFINE r == Head(inbox[n])  g == r.packet.frame  e == [frame |-> g, from |-> r.from]
           heard == OnOverhear(queue[n], Key(g))
<1>1. Poll(n) /\ uplink' = [uplink EXCEPT ![n] = Append(@, e)] /\ topology' = topology
  BY DEF HearNew
<1>2. r \in Received /\ Fit(seen, r.packet)
  BY <1>1, Polled
<1>3. r.packet \in Packets /\ g \in Frames /\ e \in Handed /\ e.frame = g
  BY <1>2 DEF Received, Packets, Handed
<1>4. queue \in [Nodes -> Seq(Slots)] /\ queue[n] \in Seq(Slots)
      /\ outgoing \in [Nodes -> Seq(Frames)]
  BY DEF MeshInv, MeshTypes
<1>5. \A reason \in {"evicted", "cancelled", "refused"} : <<reason, f>> \notin givenUp'
  BY DEF CutShort
<1>6. /\ Relayable(n, r) => /\ queue' = [queue EXCEPT ![n] = Schedule(heard, OneHopOn(r.packet))]
                            /\ givenUp' = givenUp \cup Cancelled(queue[n], Key(g)) \cup Evicted(heard)
      /\ ~Relayable(n, r) => /\ queue' = [queue EXCEPT ![n] = heard]
                             /\ givenUp' = givenUp \cup Cancelled(queue[n], Key(g)) \cup {<<"refused", g>>}
  BY DEF HearNew
<1>7. heard \in Seq(Slots)
  BY <1>4, CancelKeeps DEF OnOverhear, Slots
<1>8. Holds(queue[n], f) => Holds(heard, f)
  <2>1. <<"cancelled", f>> \notin Cancelled(queue[n], Key(g))
    BY <1>5, <1>6
  <2> QED BY <1>4, <2>1, OverhearHolds
<1>9. \A m \in Nodes : Carries(inbox[m], f) => Carries(inbox'[m], f) \/ (m = n /\ g = f)
  BY <1>1, PolledOn
<1>10. \A m \in Nodes : Lists(outgoing[m], f) => Lists(outgoing'[m], f)
  <2>1. PICK a \in Answers(n, g) : outgoing' = [outgoing EXCEPT ![n] = @ \o a]
    BY DEF HearNew
  <2> HIDE DEF g
  <2>2. a \in Seq(Frames)
    BY <1>3, AnswersOwn
  <2>3. outgoing[n] \in Seq(Frames)
    BY <1>4
  <2>4. Lists(outgoing[n], f) => Lists(outgoing[n] \o a, f)
    BY <2>2, <2>3, ListsConcat
  <2>5. \A m \in Nodes : outgoing'[m] = IF m = n THEN outgoing[n] \o a ELSE outgoing[m]
    BY <1>4, <2>1
  <2> QED BY <2>4, <2>5
<1>11. /\ Holds(queue[n], f) => Holds(queue'[n], f)
       /\ g = f => Holds(queue'[n], f)
  <2>1. CASE Relayable(n, r)
    <3>1. r.packet.ttl > 0
      BY <2>1 DEF Relayable
    <3> DEFINE p == r.packet
    <3>2. OneHopOn(p) \in Packets /\ OneHopOn(p).frame = p.frame
      <4> DEFINE h == p.hop + 1  l == p.ttl - 1
      <4>1. h \in Nat /\ l \in Nat
        BY <1>3, <3>1 DEF Packets
      <4>2. OneHopOn(p) = [[p EXCEPT !.ttl = l] EXCEPT !.hop = h]
        BY DEF OneHopOn
      <4>3. p \in Packets
        BY <1>3
      <4> HIDE DEF h, l, p
      <4> QED BY <4>1, <4>2, <4>3 DEF Packets
    <3>3. queue'[n] = Schedule(heard, OneHopOn(p)) /\ <<"evicted", f>> \notin Evicted(heard)
      BY <1>4, <1>5, <1>6, <2>1
    <3>4. Holds(heard, f) \/ g = f => Holds(Schedule(heard, OneHopOn(p)), f)
      <4>1. OneHopOn(p).frame = g
        BY <3>2
      <4> HIDE DEF heard, p, g
      <4> QED BY <1>7, <3>2, <3>3, <4>1, ScheduleHolds
    <3> QED BY <1>8, <3>3, <3>4
  <2>2. CASE ~Relayable(n, r)
    <3>1. queue'[n] = heard /\ g # f
      BY <1>4, <1>5, <1>6, <2>2
    <3> QED BY <1>8, <3>1
  <2> QED BY <2>1, <2>2
<1>12. \A m \in Nodes : m # n => queue'[m] = queue[m]
  BY <1>4, <1>6
<1>13. \A m \in Nodes : Holds(queue[m], f) => Holds(queue'[m], f)
  BY <1>11, <1>12
<1> HIDE DEF g, e, heard
<1>14. \A m \in Nodes : Arrived(m, f)' <=> Arrived(m, f) \/ (m = n /\ f = g)
  BY <1>1, <1>3, ArrivesWith
<1>15. \A m \in Nodes : Reached(m, f)' <=> Reached(m, f) \/ (m = n /\ f = g)
  BY <1>14 DEF Reached
<1>16. \A m \in Nodes : Reached(m, f)' => Reached(m, f) \/ Holds(queue'[m], f)
  BY <1>11, <1>15
<1>17. \A m \in Nodes : Carries(inbox[m], f) => Carries(inbox'[m], f) \/ Reached(m, f)'
  BY <1>9, <1>15
<1>18. \A m \in Nodes : Reached(m, f) => Reached(m, f)'
  BY <1>15
<1> QED BY <1>1, <1>10, <1>13, <1>16, <1>17, <1>18, SpreadsOn

\* A flood that was cut short remains so.
LEMMA RecordsStay ==
  ASSUME NEW f, CutShort(f), [Next]_vars
  PROVE  CutShort(f)'
<1>1. givenUp \subseteq givenUp'
  <2>1. CASE UNCHANGED vars
    BY <2>1 DEF vars
  <2>2. ASSUME NEW n \in Nodes, Dongle(n) PROVE givenUp \subseteq givenUp'
    <3>1. CASE Transmit(n)
      BY <3>1 DEF Transmit
    <3>2. CASE HearNew(n)
      BY <3>2 DEF HearNew
    <3>3. CASE UsbFrame(n) \/ SkipHoles(n) \/ HearTelemetry(n) \/ HearDuplicate(n)
      BY <3>3 DEF UsbFrame, SkipHoles, HearTelemetry, HearDuplicate
    <3> QED BY <2>2, <3>1, <3>2, <3>3 DEF Dongle
  <2>3. ASSUME NEW n \in Nodes, SendFails(n) \/ HostSacks(n) PROVE givenUp \subseteq givenUp'
    BY <2>3 DEF SendFails, HostSacks
  <2>4. ASSUME NEW n \in Pressed, Button(n) PROVE givenUp \subseteq givenUp'
    BY <2>4 DEF Button
  <2>5. ASSUME NEW n \in Emitting, EmitTelemetry(n) PROVE givenUp \subseteq givenUp'
    BY <2>5 DEF EmitTelemetry
  <2> QED BY <2>1, <2>2, <2>3, <2>4, <2>5 DEF Next, Quiet
<1> QED BY <1>1 DEF CutShort

LEMMA CoverStart == Init => CoverInv
<1> SUFFICES ASSUME Init, NEW i \in 0..(Chunks - 1), NEW n \in Nodes, Reached(n, Chunk(i)),
                    NEW m \in Neighbours(n)
             PROVE  OnItsWay(n, m, Chunk(i))
  BY DEF CoverInv, Spreads
<1>1. n = Origin
  BY DEF Init, Reached, Arrived
<1>2. outgoing[n] = Message
  BY <1>1 DEF Init
<1>3. i + 1 \in 1..Chunks /\ (i + 1) - 1 = i
  BY MeshAssumption
<1>4. Len(Message) = Chunks /\ Message[i + 1] = Chunk(i)
  <2>1. Message = [j \in 1..Chunks |-> Chunk(j - 1)] /\ Chunks \in Nat
    BY MeshAssumption DEF Message
  <2> QED BY <1>3, <2>1
<1> QED BY <1>2, <1>3, <1>4 DEF OnItsWay, Lists

LEMMA CoverStep ==
  ASSUME SlotsDiffer, MeshInv, CoverInv, [Next]_vars
  PROVE  CoverInv'
<1> SUFFICES ASSUME NEW i \in 0..(Chunks - 1), ~CutShort(Chunk(i))' PROVE Spreads(Chunk(i))'
  BY DEF CoverInv
<1> DEFINE f == Chunk(i)
<1>1. f.kind = "chunk" /\ f.by = Origin
  BY DEF Chunk
<1>2. Spreads(f) /\ ~CutShort(f)'
  BY RecordsStay DEF CoverInv
<1> HIDE DEF f
<1>3. CASE UNCHANGED vars
  <2>1. Spreads(f)' <=> Spreads(f)
    BY <1>3 DEF vars, Spreads, OnItsWay, Reached, Arrived, Neighbours
  <2> QED BY <1>2, <2>1 DEF f
<1>4. ASSUME NEW n \in Nodes, Dongle(n) PROVE Spreads(f)'
  BY <1>1, <1>2, <1>4, OnUsbFrame, OnTransmit, OnSkipHoles, OnHearTelemetry, OnHearDuplicate,
     OnHearNew DEF Dongle
<1>5. ASSUME NEW n \in Nodes, SendFails(n) \/ HostSacks(n) PROVE Spreads(f)'
  BY <1>2, <1>5, OnSendFails, OnHostSacks
<1>6. ASSUME NEW n \in Pressed, Button(n) PROVE Spreads(f)'
  BY <1>2, <1>6, OnButton, MeshAssumption
<1>7. ASSUME NEW n \in Emitting, EmitTelemetry(n) PROVE Spreads(f)'
  BY <1>1, <1>2, <1>7, OnEmitTelemetry, MeshAssumption
<1> QED BY <1>3, <1>4, <1>5, <1>6, <1>7 DEF f, Next, Quiet

\* When nothing is on its way any more, those that have a chunk are closed under being
\* a neighbour, so they are all.
LEMMA CoverAtRest ==
  ASSUME \A t \in Topologies : Connected(t), MeshInv, CoverInv
  PROVE  Covered
<1> SUFFICES ASSUME Idle, NEW n \in Nodes \ {Origin}, NEW i \in 0..(Chunks - 1), ~CutShort(Chunk(i))
             PROVE  Arrived(n, Chunk(i))
  BY Zenon DEF Covered
<1> DEFINE f == Chunk(i)
           S == {m \in Nodes : Reached(m, f)}
<1> HIDE DEF f
<1>1. Spreads(f)
  BY DEF CoverInv, f
<1>2. \A m \in Nodes : ~Lists(outgoing[m], f) /\ ~Holds(queue[m], f) /\ ~Carries(inbox[m], f)
  BY DEF Idle, Lists, Holds, Carries
<1>3. \A a \in S : \A b \in Neighbours(a) : b \in S
  BY <1>1, <1>2 DEF Spreads, OnItsWay, Neighbours
<1>4. S \in SUBSET Nodes /\ Origin \in S /\ topology \in Topologies
  BY MeshAssumption DEF Reached, MeshInv, MeshTypes
<1>5. \A a \in S : \A b \in Nodes \ S : <<a, b>> \notin topology.links
  BY <1>3 DEF Neighbours
<1>6. S = Nodes
  <2> HIDE DEF S
  <2> QED BY <1>4, <1>5 DEF Connected
<1>7. Reached(n, f)
  BY <1>6
<1> QED BY <1>7 DEF Reached, f

\* In any connected placement of any number of dongles, whatever backoffs, losses, SACKs,
\* beacons and telemetry come between: when all is quiet, a chunk has reached every
\* dongle, or there is a record of the loss, the eviction, the cancellation, the refusal
\* or the clash of keys that cut its flood short (main.rs:420-471).
THEOREM FloodCovers ==
  ASSUME \A t \in Topologies : Connected(t), SlotsDiffer
  PROVE  Spec => []Covered
<1>1. MeshInv /\ CoverInv => Covered
  BY CoverAtRest
<1>2. Init => MeshInv /\ CoverInv
  BY MeshStart, CoverStart
<1>3. (MeshInv /\ CoverInv) /\ [Next]_vars => (MeshInv /\ CoverInv)'
  BY MeshStep, CoverStep
<1> QED BY <1>1, <1>2, <1>3, PTL DEF Spec
=============================================================================
