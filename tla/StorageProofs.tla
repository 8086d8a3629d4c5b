---------------------------- MODULE StorageProofs ----------------------------
(***************************************************************************)
(* Proofs about the archive for a card of any size, any interval between     *)
(* checkpoints, any capacity of the ring and any number of power losses.     *)
(***************************************************************************)
EXTENDS Storage, Integers, SequenceTheorems, TLAPS

\* The remainder of a number written with its quotient, and the order of multiples.
LEMMA Quotient ==
  ASSUME NEW N \in Nat \ {0}, NEW k \in Nat, NEW r \in 0..(N - 1)
  PROVE  (N * k + r) % N = r
BY Z3

LEMMA Multiples ==
  ASSUME NEW N \in Nat \ {0}, NEW a \in Nat, NEW b \in Nat
  PROVE  /\ N * a \in Nat /\ N * (a + 1) = N * a + N
         /\ N * a <= N * b <=> a <= b
BY Z3

-----------------------------------------------------------------------------
\* The invariant.

\* The blocks of b below h are records with consecutive sequence numbers.
Intact(b, h) ==
  \A l \in Blocks : l < h => b[l].kind = "valid" /\ b[l].sequence = l - FirstLba + 1

\* Every valid checkpoint in t says where its log ends, and that log is on the card;
\* the heads they hold lie on the card, and not beyond h.
Described(b, t) ==
  \A s \in {1, 2} : t[s].kind = "valid" =>
    t[s].holds = FirstLba + t[s].sequence /\ Intact(b, t[s].holds)
HeadsFit(t) ==
  \A s \in {1, 2} : t[s].kind = "valid" => t[s].holds \in FirstLba..(LastLba + 1)
HeadsWithin(t, h) == \A s \in {1, 2} : t[s].kind = "valid" => t[s].holds <= h

Machine ==
  /\ pc \in {"off", "idle", "record", "checkpoint"} /\ quota \in 0..2
  /\ mode \in {"RamOnly", "MicroSdActive"} /\ sequence \in Nat /\ tornRecovered \in {0, 1}
  /\ lba \in FirstLba..(LastLba + 1)
  /\ pc \in {"record", "checkpoint"} => mode = "MicroSdActive"
  /\ pc = "record" => quota # 0
  /\ pc = "off" => mode = "RamOnly"

Ring ==
  /\ queue \in Seq(Packets) /\ Len(queue) <= Capacity /\ received \in Nat
  /\ pc = "record" => queue # <<>>

Medium ==
  /\ blocks \in [Blocks -> Contents] /\ sectors \in [{1, 2} -> Contents]
  /\ HeadsFit(sectors)
  /\ losses \in 0..MaxPowerLosses /\ ioErrors \subseteq {"read", "record", "checkpoint"}

\* Unless a checkpoint failed to read at some boot.
Log ==
  "read" \notin ioErrors =>
    /\ Described(blocks, sectors)
    /\ mode = "MicroSdActive" =>
         /\ lba = FirstLba + sequence
         /\ Intact(blocks, lba) /\ HeadsWithin(sectors, lba)

ArchiveInv == Machine /\ Ring /\ Medium /\ inserted \in BOOLEAN /\ AccountedFor /\ Log

LEMMA Addresses ==
  /\ FirstLba \in Nat /\ LastLba \in Nat /\ FirstLba <= LastLba
  /\ Capacity \in Nat \ {0} /\ Packets \subseteq Nat /\ NoPacket = 0 /\ NoPacket \notin Packets
BY StorageAssumption, FifoAssumption DEF FirstLba

LEMMA ArchiveStart == Init => ArchiveInv
<1> SUFFICES ASSUME Init PROVE ArchiveInv
  OBVIOUS
<1>1. Machine
  BY Addresses DEF Init, Machine
<1>2. Ring
  BY Addresses, EmptySeq DEF Init, FifoInit, Ring
<1>3. Medium /\ (\A s \in {1, 2} : sectors[s].kind # "valid")
  BY Addresses, StorageAssumption DEF Init, Medium, HeadsFit, Contents, Blank
<1>4. inserted \in BOOLEAN
  BY Zenon DEF Init
<1>5. AccountedFor
  BY DEF Init, AccountedFor
<1>6. Log
  BY <1>3 DEF Init, Log, Described
<1>7. QED
  BY <1>1, <1>2, <1>3, <1>4, <1>5, <1>6 DEF ArchiveInv

-----------------------------------------------------------------------------
\* What a write does to the card, whether it succeeds or not.

\* A checkpoint of sequence q and head h goes to sector i, or fails to.
Writes(t, i, q, h, u) == \E c \in {t[i], Torn, Valid(q, h)} : u = [t EXCEPT ![i] = c]

\* If it describes the log as it is, both checkpoints still do.
LEMMA SectorWrite ==
  ASSUME NEW b \in [Blocks -> Contents], NEW t \in [{1, 2} -> Contents], HeadsFit(t),
         NEW q \in Nat, NEW h \in FirstLba..(LastLba + 1), NEW i \in {1, 2},
         NEW u, Writes(t, i, q, h, u)
  PROVE  /\ u \in [{1, 2} -> Contents] /\ HeadsFit(u)
         /\ /\ Described(b, t) /\ HeadsWithin(t, h) /\ h = FirstLba + q /\ Intact(b, h)
            => Described(b, u) /\ HeadsWithin(u, h)
<1>0. PICK c \in {t[i], Torn, Valid(q, h)} : u = [t EXCEPT ![i] = c]
  BY DEF Writes
<1>1. /\ t[i] \in Contents /\ Torn \in Contents /\ Valid(q, h) \in Contents
      /\ Torn.kind # "valid" /\ Valid(q, h).holds = h /\ Valid(q, h).sequence = q
  BY Addresses DEF Contents, Torn, Valid
<1>2. u \in [{1, 2} -> Contents] /\ u[i] = c /\ \A s \in {1, 2} : s # i => u[s] = t[s]
  BY <1>0, <1>1
<1>3. \A s \in {1, 2} : u[s].kind = "valid" => u[s] = t[s] \/ u[s] = Valid(q, h)
  BY <1>0, <1>1, <1>2
<1>4. HeadsFit(u)
  BY <1>1, <1>3 DEF HeadsFit
<1>5. ASSUME Described(b, t), HeadsWithin(t, h), h = FirstLba + q, Intact(b, h)
      PROVE  Described(b, u) /\ HeadsWithin(u, h)
  <2>1. Described(b, u)
    BY <1>1, <1>3, <1>5 DEF Described
  <2>2. h <= h
    BY Addresses
  <2>3. HeadsWithin(u, h)
    BY <1>1, <1>3, <1>5, <2>2 DEF HeadsWithin
  <2>4. QED
    BY <2>1, <2>3
<1>6. QED
  BY <1>2, <1>4, <1>5

\* A block at the write position, whatever it holds afterwards.
LEMMA BlockWrite ==
  ASSUME NEW b \in [Blocks -> Contents], NEW t \in [{1, 2} -> Contents], HeadsFit(t),
         NEW h \in Blocks, NEW c \in Contents, NEW d, d = [b EXCEPT ![h] = c]
  PROVE  /\ d \in [Blocks -> Contents]
         /\ Intact(b, h) => Intact(d, h)
         /\ Described(b, t) /\ HeadsWithin(t, h) => Described(d, t)
<1>1. /\ d \in [Blocks -> Contents]
      /\ \A l \in Blocks : l < h => d[l] = b[l]
  BY Addresses DEF Blocks
<1>2. Intact(b, h) => Intact(d, h)
  BY <1>1 DEF Intact
<1>3. ASSUME Described(b, t), HeadsWithin(t, h) PROVE Described(d, t)
  <2>1. SUFFICES ASSUME NEW s \in {1, 2}, t[s].kind = "valid" PROVE Intact(d, t[s].holds)
    BY <1>3 DEF Described
  <2>2. /\ t[s].holds \in FirstLba..(LastLba + 1) /\ t[s].holds <= h
        /\ Intact(b, t[s].holds)
    BY <1>3, <2>1 DEF Described, HeadsWithin, HeadsFit
  <2>3. \A l \in Blocks : l < t[s].holds => l < h
    BY <2>2, Addresses DEF Blocks
  <2>4. QED
    BY <1>1, <2>2, <2>3 DEF Intact
<1>4. QED
  BY <1>1, <1>2, <1>3

\* What a write that fails leaves is a content.
LEMMA Leavings ==
  ASSUME NEW b \in Contents, NEW q \in Nat, NEW h \in Nat
  PROVE  AfterFailedWrite(b, Valid(q, h)) \subseteq Contents /\ Valid(q, h) \in Contents
BY DEF AfterFailedWrite, Contents, Torn, Valid

LEMMA SectorIs == CheckpointSector \in {1, 2}
BY DEF CheckpointSector

\* The first packet of a queue that has one.
LEMMA First ==
  ASSUME Ring, queue # <<>>
  PROVE  /\ Head(queue) \in Packets /\ Tail(queue) \in Seq(Packets)
         /\ Len(Tail(queue)) <= Capacity
         /\ Queued = {Head(queue)} \cup {Tail(queue)[i] : i \in 1..Len(Tail(queue))}
<1> DEFINE t == Tail(queue)
<1>1. queue \in Seq(Packets) /\ Len(queue) <= Capacity /\ Len(queue) \in Nat \ {0}
  BY EmptySeq DEF Ring
<1>2. /\ Head(queue) = queue[1] /\ queue[1] \in Packets /\ t \in Seq(Packets)
      /\ Len(t) = Len(queue) - 1
      /\ \A i \in 1..(Len(queue) - 1) : t[i] = queue[i + 1]
  BY <1>1, HeadTailProperties
<1> HIDE DEF t
<1>3. Len(t) <= Capacity
  BY <1>1, <1>2, Addresses
<1>4. Queued = {queue[1]} \cup {t[i] : i \in 1..Len(t)}
  <2>1. 1 \in 1..Len(queue)
    BY <1>1
  <2>2. \A i \in 1..Len(t) : i + 1 \in 1..Len(queue) /\ t[i] = queue[i + 1]
    BY <1>1, <1>2
  <2>3. \A i \in 1..Len(queue) : i = 1 \/ (i - 1 \in 1..Len(t) /\ t[i - 1] = queue[i])
    <3>1. SUFFICES ASSUME NEW i \in 1..Len(queue), i # 1
                   PROVE  i - 1 \in 1..Len(t) /\ t[i - 1] = queue[i]
      OBVIOUS
    <3>2. i - 1 \in 1..(Len(queue) - 1) /\ (i - 1) + 1 = i
      BY <1>1, <3>1
    <3>3. QED
      BY <1>2, <3>2
  <2>4. \A x \in Queued : x = queue[1] \/ x \in {t[i] : i \in 1..Len(t)}
    BY <2>3, Zenon DEF Queued
  <2>5. \A i \in 1..Len(t) : t[i] \in Queued
    BY <2>2, Zenon DEF Queued
  <2>6. queue[1] \in Queued
    BY <2>1, Zenon DEF Queued
  <2>7. QED
    BY <2>4, <2>5, <2>6
<1>5. QED
  BY <1>2, <1>3, <1>4 DEF t

LEMMA Appended ==
  ASSUME NEW t \in Seq(Packets), NEW p \in Packets, NEW r, r = Append(t, p)
  PROVE  /\ r \in Seq(Packets) /\ Len(r) = Len(t) + 1 /\ r # <<>>
         /\ {t[i] : i \in 1..Len(t)} \cup {p} \subseteq {r[i] : i \in 1..Len(r)}
<1>1. /\ r \in Seq(Packets) /\ Len(r) = Len(t) + 1 /\ Len(t) \in Nat
      /\ (\A i \in 1..Len(t) : r[i] = t[i]) /\ r[Len(t) + 1] = p
  BY AppendProperties
<1>2. r # <<>>
  BY <1>1, EmptySeq
<1>3. /\ \A i \in 1..Len(t) : i \in 1..Len(r) /\ r[i] = t[i]
      /\ Len(t) + 1 \in 1..Len(r)
  BY <1>1
<1>4. QED
  BY <1>1, <1>2, <1>3, Zenon

\* A push keeps every packet but the one it returns.
LEMMA Pushed ==
  ASSUME Ring, NEW p \in Packets, FifoPush(p)
  PROVE  /\ queue' \in Seq(Packets) /\ Len(queue') <= Capacity /\ queue' # <<>>
         /\ Queued \cup {p} \subseteq Queued' \cup ({returned'} \ {NoPacket})
<1>1. queue \in Seq(Packets) /\ Len(queue) \in Nat /\ Len(queue) <= Capacity
  BY DEF Ring
<1>2. CASE Len(queue) = Capacity
  <2>1. queue # <<>>
    BY <1>2, EmptySeq, Addresses
  <2>2. /\ Head(queue) \in Packets /\ Tail(queue) \in Seq(Packets)
        /\ Len(Tail(queue)) = Capacity - 1
        /\ Queued = {Head(queue)} \cup {Tail(queue)[i] : i \in 1..Len(Tail(queue))}
    BY <1>1, <1>2, <2>1, First, HeadTailProperties
  <2>3. queue' = Append(Tail(queue), p) /\ returned' = Head(queue)
    BY <1>2 DEF FifoPush
  <2> DEFINE t == Tail(queue)  r == queue'
  <2>4. Queued' = {r[i] : i \in 1..Len(r)}
    BY DEF Queued
  <2> HIDE DEF t, r
  <2>5. t \in Seq(Packets) /\ r = Append(t, p)
    BY <2>2, <2>3 DEF t, r
  <2>6. /\ r \in Seq(Packets) /\ Len(r) = Len(t) + 1 /\ r # <<>>
        /\ {t[i] : i \in 1..Len(t)} \cup {p} \subseteq {r[i] : i \in 1..Len(r)}
    BY <2>5, Appended
  <2>7. Len(r) <= Capacity
    BY <2>2, <2>6, Addresses DEF t
  <2>8. Head(queue) # NoPacket
    BY <2>2, Addresses
  <2>9. QED
    BY <2>2, <2>3, <2>4, <2>6, <2>7, <2>8 DEF t, r
<1>3. CASE Len(queue) # Capacity
  <2>1. queue' = Append(queue, p)
    BY <1>3 DEF FifoPush
  <2> DEFINE t == queue  r == queue'
  <2>2. Queued = {t[i] : i \in 1..Len(t)} /\ Queued' = {r[i] : i \in 1..Len(r)}
    BY DEF Queued
  <2> HIDE DEF t, r
  <2>3. t \in Seq(Packets) /\ r = Append(t, p)
    BY <1>1, <2>1 DEF t, r
  <2>4. /\ r \in Seq(Packets) /\ Len(r) = Len(t) + 1 /\ r # <<>>
        /\ {t[i] : i \in 1..Len(t)} \cup {p} \subseteq {r[i] : i \in 1..Len(r)}
    BY <2>3, Appended
  <2>5. Len(r) <= Capacity
    BY <1>1, <1>3, <2>4, Addresses DEF t
  <2>6. QED
    BY <2>2, <2>4, <2>5 DEF r
<1>4. QED
  BY <1>2, <1>3

-----------------------------------------------------------------------------
\* Every step keeps the invariant.

\* The checkpoint a boot picks among those it has read and found valid.
LEMMA Newest ==
  ASSUME Medium, NEW readable \in SUBSET {1, 2},
         {s \in readable : sectors[s].kind = "valid"} # {}
  PROVE  /\ NewestCheckpoint(readable) \in {s \in readable : sectors[s].kind = "valid"}
         /\ \A t \in readable : sectors[t].kind = "valid" =>
              sectors[t].sequence <= sectors[NewestCheckpoint(readable)].sequence
<1> DEFINE good == {s \in readable : sectors[s].kind = "valid"}
           Best(s) == \A t \in good \ {s} : \/ sectors[s].sequence > sectors[t].sequence
                                            \/ sectors[s].sequence = sectors[t].sequence /\ s < t
<1>1. sectors[1].sequence \in Nat /\ sectors[2].sequence \in Nat
  BY DEF Medium, Contents
<1>2. good \subseteq {1, 2} /\ good # {}
  OBVIOUS
<1>3. \E s \in good : Best(s)
  <2>1. CASE good = {1}
    BY <2>1
  <2>2. CASE good = {2}
    BY <2>2
  <2>3. CASE good = {1, 2}
    <3>1. sectors[1].sequence >= sectors[2].sequence => Best(1)
      BY <1>1, <2>3
    <3>2. ~(sectors[1].sequence >= sectors[2].sequence) => Best(2)
      BY <1>1, <2>3
    <3>3. QED
      BY <2>3, <3>1, <3>2
  <2>4. QED
    BY <1>2, <2>1, <2>2, <2>3
<1>4. NewestCheckpoint(readable) = CHOOSE s \in good : Best(s)
  BY DEF NewestCheckpoint
<1> DEFINE n == NewestCheckpoint(readable)
<1>5. n \in good /\ Best(n)
  BY <1>3, <1>4, Zenon
<1> HIDE DEF n
<1>6. \A t \in good : sectors[t].sequence <= sectors[n].sequence
  BY <1>1, <1>2, <1>5
<1>7. QED
  BY <1>5, <1>6 DEF n

\* What a boot makes of the sectors it has read.
BootsFrom(readable) ==
  LET good == {s \in readable : sectors[s].kind = "valid"} IN
  /\ ioErrors' = ioErrors \cup IF inserted /\ readable # {1, 2} THEN {"read"} ELSE {}
  /\ IF readable = {}
       THEN mode' = "RamOnly" /\ sequence' = 0 /\ lba' = FirstLba /\ tornRecovered' = 0
       ELSE /\ mode' = "MicroSdActive"
            /\ IF good = {}
                 THEN sequence' = 0 /\ lba' = FirstLba
                 ELSE LET c == sectors[NewestCheckpoint(readable)] IN
                      sequence' = c.sequence /\ lba' = c.holds
            /\ tornRecovered' = IF Cardinality(good) = 1 THEN 1 ELSE 0

LEMMA InvBoot == ASSUME ArchiveInv, Boot PROVE ArchiveInv'
<1>0. PICK probed \in Probe : \E readable \in ReadableSectors(probed) : BootsFrom(readable)
  BY Zenon DEF Boot, BootsFrom
<1>1. PICK readable \in ReadableSectors(probed) : BootsFrom(readable)
  BY <1>0, Zenon
<1> DEFINE good == {s \in readable : sectors[s].kind = "valid"}
           n == NewestCheckpoint(readable)
<1>2. /\ pc' = "idle"
      /\ UNCHANGED <<queue, quota, blocks, sectors, losses, received, written, evicted, lost>>
  BY DEF Boot, fifoVars, card, history
<1>3. readable \in SUBSET {1, 2}
  BY DEF ReadableSectors
<1>4. good # {} => n \in good /\ \A t \in good : sectors[t].sequence <= sectors[n].sequence
  BY <1>3, Newest DEF ArchiveInv
<1> HIDE DEF n
<1>5. good # {} => sectors[n].sequence \in Nat /\ sectors[n].holds \in FirstLba..(LastLba + 1)
  BY <1>3, <1>4 DEF ArchiveInv, Medium, HeadsFit, Contents
<1>6. /\ mode' \in {"RamOnly", "MicroSdActive"} /\ tornRecovered' \in {0, 1}
      /\ sequence' \in Nat /\ lba' \in FirstLba..(LastLba + 1)
  <2>1. 0 \in Nat /\ FirstLba \in FirstLba..(LastLba + 1)
    BY Addresses
  <2>2. CASE readable = {}
    BY <1>1, <2>1, <2>2 DEF BootsFrom
  <2>3. CASE readable # {}
    BY <1>1, <1>5, <2>1, <2>3 DEF BootsFrom, n
  <2>4. QED
    BY <2>2, <2>3
<1>7. Machine'
  BY <1>2, <1>6 DEF ArchiveInv, Machine
<1>8. Ring'
  BY <1>2 DEF ArchiveInv, Ring
<1>9. Medium'
  BY <1>1, <1>2 DEF BootsFrom, ArchiveInv, Medium, HeadsFit
<1>10. inserted' \in BOOLEAN
  BY Zenon DEF ArchiveInv, Boot
<1>11. AccountedFor'
  BY <1>2 DEF ArchiveInv, AccountedFor, Queued
<1>12. ASSUME "read" \notin ioErrors', mode' = "MicroSdActive"
       PROVE  lba' = FirstLba + sequence' /\ Intact(blocks, lba') /\ HeadsWithin(sectors, lba')
  <2>1. readable # {} /\ "read" \notin ioErrors
    BY <1>1, <1>12 DEF BootsFrom
  <2>2. inserted
    BY <2>1 DEF Probe, ReadableSectors
  <2>3. readable = {1, 2}
    BY <1>1, <1>12, <2>2 DEF BootsFrom
  <2>4. Described(blocks, sectors)
    BY <2>1 DEF ArchiveInv, Log
  <2>5. CASE good = {}
    <3>1. sequence' = 0 /\ lba' = FirstLba
      BY <1>1, <2>1, <2>5 DEF BootsFrom
    <3>2. HeadsWithin(sectors, lba')
      BY <2>3, <2>5 DEF HeadsWithin
    <3>3. Intact(blocks, lba')
      BY <3>1, Addresses DEF Intact, Blocks
    <3>4. QED
      BY <3>1, <3>2, <3>3, Addresses
  <2>6. CASE good # {}
    <3>1. sequence' = sectors[n].sequence /\ lba' = sectors[n].holds
      BY <1>1, <2>1, <2>6 DEF BootsFrom, n
    <3>2. sectors[n].holds = FirstLba + sectors[n].sequence /\ Intact(blocks, sectors[n].holds)
      BY <1>3, <1>4, <2>4, <2>6 DEF Described
    <3>3. \A t \in {1, 2} : sectors[t].kind = "valid" =>
            /\ sectors[t].holds = FirstLba + sectors[t].sequence
            /\ sectors[t].sequence \in Nat /\ sectors[t].sequence <= sectors[n].sequence
      BY <1>4, <2>3, <2>4, <2>6 DEF Described, ArchiveInv, Medium, Contents
    <3>4. HeadsWithin(sectors, lba')
      BY <1>5, <2>6, <3>1, <3>2, <3>3, Addresses DEF HeadsWithin
    <3>5. QED
      BY <3>1, <3>2, <3>4
  <2>7. QED
    BY <2>5, <2>6
<1>13. Log'
  <2>1. ioErrors \subseteq ioErrors'
    BY <1>1 DEF BootsFrom
  <2>2. "read" \notin ioErrors' => Described(blocks, sectors)
    BY <2>1 DEF ArchiveInv, Log
  <2>3. Described(blocks, sectors)' <=> Described(blocks, sectors)
    BY <1>2 DEF Described, Intact
  <2>4. Intact(blocks, lba)' <=> Intact(blocks, lba')
    BY <1>2 DEF Intact
  <2>5. HeadsWithin(sectors, lba)' <=> HeadsWithin(sectors, lba')
    BY <1>2 DEF HeadsWithin
  <2>6. QED
    BY <1>12, <2>2, <2>3, <2>4, <2>5, Zenon DEF Log
<1>14. QED
  BY <1>7, <1>8, <1>9, <1>10, <1>11, <1>13 DEF ArchiveInv

\* A packet in no place of the ring is on record, was given up or was lost.
LEMMA InvReceive == ASSUME ArchiveInv, Receive PROVE ArchiveInv'
<1>1. /\ pc = "idle" /\ received + 1 \in Packets /\ received' = received + 1
      /\ FifoPush(received + 1) /\ evicted' = evicted \cup ({returned'} \ {NoPacket})
      /\ UNCHANGED <<pc, quota, mode, sequence, lba, tornRecovered, blocks, sectors,
                     losses, written, lost, ioErrors>>
  BY DEF Receive, manager, card
<1>2. /\ queue' \in Seq(Packets) /\ Len(queue') <= Capacity /\ queue' # <<>>
      /\ Queued \cup {received + 1} \subseteq Queued' \cup ({returned'} \ {NoPacket})
  BY <1>1, Pushed DEF ArchiveInv
<1>3. Machine' /\ Medium' /\ Log'
  BY <1>1 DEF ArchiveInv, Machine, Medium, Log, HeadsFit, Described, HeadsWithin, Intact
<1>4. Ring'
  BY <1>1, <1>2 DEF ArchiveInv, Ring
<1>5. inserted' \in BOOLEAN
  BY Zenon DEF ArchiveInv, Receive
<1>6. AccountedFor'
  <2>1. 1..received' \subseteq 1..received \cup {received + 1}
    BY <1>1 DEF ArchiveInv, Ring
  <2>2. QED
    BY <1>1, <1>2, <2>1 DEF ArchiveInv, AccountedFor
<1>7. QED
  BY <1>3, <1>4, <1>5, <1>6 DEF ArchiveInv

LEMMA InvFlushTick == ASSUME ArchiveInv, FlushTick PROVE ArchiveInv'
<1>1. /\ mode = "MicroSdActive" /\ queue # <<>> /\ pc' = "record" /\ quota' = 2
      /\ UNCHANGED <<queue, mode, sequence, lba, tornRecovered, blocks, sectors,
                     losses, received, written, evicted, lost, ioErrors>>
  BY DEF FlushTick, Flushable, fifoVars, manager, card, history
<1>2. Machine' /\ Medium' /\ Log'
  BY <1>1 DEF ArchiveInv, Machine, Medium, Log, HeadsFit, Described, HeadsWithin, Intact
<1>3. Ring' /\ AccountedFor'
  BY <1>1 DEF ArchiveInv, Ring, AccountedFor, Queued
<1>4. inserted' \in BOOLEAN
  BY Zenon DEF ArchiveInv, FlushTick
<1>5. QED
  BY <1>2, <1>3, <1>4 DEF ArchiveInv

\* A record on the card takes the place of its packet in the ring.
LEMMA InvWriteRecord == ASSUME ArchiveInv, WriteRecord PROVE ArchiveInv'
<1> DEFINE p == Head(queue)  t == Tail(queue)
<1>1. /\ pc = "record" /\ lba <= LastLba
      /\ blocks' = [blocks EXCEPT ![lba] = Valid(sequence + 1, p)]
      /\ sequence' = sequence + 1 /\ lba' = lba + 1 /\ quota' = quota - 1
      /\ written' = written \cup {p} /\ FifoPop
      /\ \/ pc' = "checkpoint"
         \/ pc' = "idle"
         \/ pc' = "record" /\ quota - 1 # 0 /\ t # <<>>
      /\ UNCHANGED <<mode, tornRecovered, sectors, losses, received, evicted, lost, ioErrors>>
  BY DEF WriteRecord, LoopWith
<1>2. /\ queue # <<>> /\ queue' = t /\ p \in Packets /\ t \in Seq(Packets) /\ Len(t) <= Capacity
      /\ Queued = {p} \cup {t[i] : i \in 1..Len(t)}
  BY <1>1, First DEF ArchiveInv, Ring, FifoPop
<1>3. Queued' = {t[i] : i \in 1..Len(t)}
  BY <1>2 DEF Queued
<1> HIDE DEF p, t
<1>4. /\ quota \in {1, 2} /\ sequence \in Nat /\ lba \in FirstLba..(LastLba + 1)
      /\ mode = "MicroSdActive" /\ lba \in Blocks
  BY <1>1, Addresses DEF ArchiveInv, Machine, Blocks
<1>5. Machine'
  <2>1. lba' \in FirstLba..(LastLba + 1)
    BY <1>1, <1>4, Addresses
  <2>2. quota' \in 0..2 /\ (pc' = "record" => quota' # 0)
    BY <1>1, <1>4
  <2>3. QED
    BY <1>1, <1>4, <2>1, <2>2 DEF ArchiveInv, Machine
<1>6. Ring'
  BY <1>1, <1>2 DEF ArchiveInv, Ring
<1> DEFINE c == Valid(sequence + 1, p)
<1>7. c \in Contents /\ c.kind = "valid" /\ c.sequence = sequence + 1
  BY <1>2, <1>4, Addresses DEF Valid, Contents
<1> HIDE DEF c
<1>8. /\ blocks' \in [Blocks -> Contents]
      /\ Intact(blocks, lba) => Intact(blocks', lba)
      /\ Described(blocks, sectors) /\ HeadsWithin(sectors, lba) => Described(blocks', sectors)
      /\ blocks'[lba] = c
  <2> DEFINE d == blocks'
  <2>1. /\ blocks \in [Blocks -> Contents] /\ sectors \in [{1, 2} -> Contents]
        /\ HeadsFit(sectors) /\ d = [blocks EXCEPT ![lba] = c]
    BY <1>1 DEF ArchiveInv, Medium, c
  <2> HIDE DEF d
  <2>2. /\ d \in [Blocks -> Contents]
        /\ Intact(blocks, lba) => Intact(d, lba)
        /\ Described(blocks, sectors) /\ HeadsWithin(sectors, lba) => Described(d, sectors)
    BY <1>4, <1>7, <2>1, BlockWrite
  <2>3. d[lba] = c
    BY <1>4, <2>1
  <2>4. QED
    BY <2>2, <2>3 DEF d
<1>9. Medium'
  BY <1>1, <1>8 DEF ArchiveInv, Medium, HeadsFit
<1>10. inserted' \in BOOLEAN
  BY Zenon DEF ArchiveInv, WriteRecord
<1>11. AccountedFor'
  BY <1>1, <1>2, <1>3 DEF ArchiveInv, AccountedFor
<1>12. ASSUME "read" \notin ioErrors
       PROVE  /\ Described(blocks', sectors) /\ lba' = FirstLba + sequence'
              /\ Intact(blocks', lba') /\ HeadsWithin(sectors, lba')
  <2>1. /\ Described(blocks, sectors) /\ lba = FirstLba + sequence
        /\ Intact(blocks, lba) /\ HeadsWithin(sectors, lba)
    BY <1>4, <1>12 DEF ArchiveInv, Log
  <2>2. Described(blocks', sectors) /\ Intact(blocks', lba)
    BY <1>8, <2>1
  <2>3. lba' = FirstLba + sequence' /\ sequence + 1 = lba - FirstLba + 1
    BY <1>1, <1>4, <2>1, Addresses
  <2>4. \A l \in Blocks : l < lba' => l < lba \/ l = lba
    BY <1>1, <1>4, Addresses DEF Blocks
  <2>5. Intact(blocks', lba')
    BY <1>7, <1>8, <2>2, <2>3, <2>4 DEF Intact
  <2>6. \A h \in FirstLba..(LastLba + 1) : h <= lba => h <= lba'
    BY <1>1, <1>4, Addresses
  <2>7. HeadsWithin(sectors, lba')
    BY <2>1, <2>6 DEF HeadsWithin, ArchiveInv, Medium, HeadsFit
  <2>8. QED
    BY <2>2, <2>3, <2>5, <2>7
<1>13. Log'
  BY <1>1, <1>12 DEF Log, Described, Intact, HeadsWithin
<1>14. QED
  BY <1>5, <1>6, <1>9, <1>10, <1>11, <1>13 DEF ArchiveInv

\* What may be on the card after a write at the write position that failed or was cut
\* off: the log below is as it was.
LEMMA SpoiltBlock ==
  ASSUME ArchiveInv, pc = "record",
         \/ blocks' = blocks
         \/ /\ lba <= LastLba
            /\ \E c \in AfterFailedWrite(blocks[lba], Valid(sequence + 1, Head(queue))) :
                 blocks' = [blocks EXCEPT ![lba] = c]
  PROVE  /\ blocks' \in [Blocks -> Contents]
         /\ "read" \notin ioErrors => Described(blocks', sectors)
<1>1. /\ mode = "MicroSdActive" /\ Head(queue) \in Nat /\ sequence + 1 \in Nat
      /\ blocks \in [Blocks -> Contents] /\ sectors \in [{1, 2} -> Contents] /\ HeadsFit(sectors)
  <2>1. queue # <<>> /\ Ring
    BY DEF ArchiveInv, Ring
  <2>2. Head(queue) \in Nat
    BY <2>1, First, Addresses
  <2>3. QED
    BY <2>2 DEF ArchiveInv, Machine, Medium
<1>2. CASE blocks' = blocks
  BY <1>1, <1>2 DEF ArchiveInv, Log
<1>3. ASSUME lba <= LastLba,
             NEW c \in AfterFailedWrite(blocks[lba], Valid(sequence + 1, Head(queue))),
             blocks' = [blocks EXCEPT ![lba] = c]
      PROVE  /\ blocks' \in [Blocks -> Contents]
             /\ "read" \notin ioErrors => Described(blocks', sectors)
  <2>1. lba \in Blocks
    BY <1>3, Addresses DEF ArchiveInv, Machine, Blocks
  <2>2. c \in Contents
    BY <1>1, <2>1, Leavings
  <2>3. /\ blocks' \in [Blocks -> Contents]
        /\ Described(blocks, sectors) /\ HeadsWithin(sectors, lba) => Described(blocks', sectors)
    BY <1>1, <1>3, <2>1, <2>2, BlockWrite
  <2>4. QED
    BY <1>1, <2>3 DEF ArchiveInv, Log
<1>4. QED
  BY <1>2, <1>3

LEMMA InvWriteRecordFails == ASSUME ArchiveInv, WriteRecordFails PROVE ArchiveInv'
<1>1. /\ pc = "record" /\ mode' = "RamOnly" /\ pc' = "idle"
      /\ ioErrors' \in {ioErrors, ioErrors \cup {"record"}}
      /\ UNCHANGED <<queue, quota, sequence, lba, tornRecovered, sectors, losses, received,
                     written, evicted, lost>>
  BY DEF WriteRecordFails, fifoVars, history
<1>2. \/ blocks' = blocks
      \/ /\ lba <= LastLba
         /\ \E c \in AfterFailedWrite(blocks[lba], Valid(sequence + 1, Head(queue))) :
              blocks' = [blocks EXCEPT ![lba] = c]
  BY DEF WriteRecordFails
<1>3. /\ blocks' \in [Blocks -> Contents]
      /\ "read" \notin ioErrors => Described(blocks', sectors)
  BY <1>1, <1>2, SpoiltBlock
<1>4. Machine' /\ Ring' /\ AccountedFor'
  BY <1>1 DEF ArchiveInv, Machine, Ring, AccountedFor, Queued
<1>5. Medium'
  BY <1>1, <1>3 DEF ArchiveInv, Medium, HeadsFit
<1>6. Log'
  BY <1>1, <1>3 DEF Log, Described, Intact
<1>7. inserted' \in BOOLEAN
  BY Zenon DEF ArchiveInv, WriteRecordFails
<1>8. QED
  BY <1>4, <1>5, <1>6, <1>7 DEF ArchiveInv

\* What may be in the sector of a checkpoint that was written, failed or was cut off.
LEMMA WrittenSector ==
  ASSUME ArchiveInv, pc = "checkpoint",
         \/ sectors' = sectors
         \/ \E c \in AfterFailedWrite(sectors[CheckpointSector], Checkpoint) :
              sectors' = [sectors EXCEPT ![CheckpointSector] = c]
  PROVE  /\ sectors' \in [{1, 2} -> Contents] /\ HeadsFit(sectors')
         /\ "read" \notin ioErrors => Described(blocks, sectors') /\ HeadsWithin(sectors', lba)
<1>1. /\ mode = "MicroSdActive" /\ sequence \in Nat /\ lba \in FirstLba..(LastLba + 1)
      /\ blocks \in [Blocks -> Contents] /\ sectors \in [{1, 2} -> Contents] /\ HeadsFit(sectors)
  BY DEF ArchiveInv, Machine, Medium
<1>2. "read" \notin ioErrors =>
        /\ Described(blocks, sectors) /\ HeadsWithin(sectors, lba)
        /\ lba = FirstLba + sequence /\ Intact(blocks, lba)
  BY <1>1 DEF ArchiveInv, Log
<1>3. CASE sectors' = sectors
  BY <1>1, <1>2, <1>3
<1>4. ASSUME NEW c \in AfterFailedWrite(sectors[CheckpointSector], Checkpoint),
             sectors' = [sectors EXCEPT ![CheckpointSector] = c]
      PROVE  /\ sectors' \in [{1, 2} -> Contents] /\ HeadsFit(sectors')
             /\ "read" \notin ioErrors => Described(blocks, sectors') /\ HeadsWithin(sectors', lba)
  <2>1. c \in {sectors[CheckpointSector], Torn, Valid(sequence, lba)}
    BY DEF AfterFailedWrite, Checkpoint
  <2>2. /\ sectors' \in [{1, 2} -> Contents] /\ HeadsFit(sectors')
        /\ /\ Described(blocks, sectors) /\ HeadsWithin(sectors, lba)
           /\ lba = FirstLba + sequence /\ Intact(blocks, lba)
           => Described(blocks, sectors') /\ HeadsWithin(sectors', lba)
    <3> DEFINE i == CheckpointSector  u == sectors'
    <3>1. i \in {1, 2} /\ Writes(sectors, i, sequence, lba, u)
      BY <1>4, <2>1, SectorIs, Zenon DEF Writes
    <3> HIDE DEF i, u
    <3>2. /\ u \in [{1, 2} -> Contents] /\ HeadsFit(u)
          /\ /\ Described(blocks, sectors) /\ HeadsWithin(sectors, lba)
             /\ lba = FirstLba + sequence /\ Intact(blocks, lba)
             => Described(blocks, u) /\ HeadsWithin(u, lba)
      BY <1>1, <3>1, SectorWrite
    <3>3. QED
      BY <3>2 DEF u
  <2>3. QED
    BY <1>2, <2>2
<1>5. QED
  BY <1>3, <1>4

LEMMA InvCheckpoint ==
  ASSUME ArchiveInv, WriteCheckpoint \/ WriteCheckpointFails
  PROVE  ArchiveInv'
<1>1. /\ pc = "checkpoint" /\ (pc' = "idle" \/ (pc' = "record" /\ quota # 0 /\ queue # <<>>))
      /\ ioErrors' \in {ioErrors, ioErrors \cup {"checkpoint"}}
      /\ UNCHANGED <<queue, quota, mode, sequence, lba, tornRecovered, blocks, losses, received,
                     written, evicted, lost>>
  BY DEF WriteCheckpoint, WriteCheckpointFails, LoopWith, fifoVars, manager, history
<1>2. \/ sectors' = sectors
      \/ \E c \in AfterFailedWrite(sectors[CheckpointSector], Checkpoint) :
           sectors' = [sectors EXCEPT ![CheckpointSector] = c]
  BY DEF WriteCheckpoint, WriteCheckpointFails, AfterFailedWrite
<1>3. /\ sectors' \in [{1, 2} -> Contents] /\ HeadsFit(sectors')
      /\ "read" \notin ioErrors => Described(blocks, sectors') /\ HeadsWithin(sectors', lba)
  BY <1>1, <1>2, WrittenSector
<1>4. Machine' /\ Ring' /\ AccountedFor'
  BY <1>1 DEF ArchiveInv, Machine, Ring, AccountedFor, Queued
<1>5. Medium'
  BY <1>1, <1>3 DEF ArchiveInv, Medium, HeadsFit
<1>6. Log'
  BY <1>1, <1>3 DEF ArchiveInv, Log, Described, Intact, HeadsWithin
<1>7. inserted' \in BOOLEAN
  BY Zenon DEF ArchiveInv, WriteCheckpoint, WriteCheckpointFails
<1>8. QED
  BY <1>4, <1>5, <1>6, <1>7 DEF ArchiveInv

LEMMA InvCard == ASSUME ArchiveInv, PullCard \/ InsertCard PROVE ArchiveInv'
<1>1. UNCHANGED <<queue, pc, quota, mode, sequence, lba, tornRecovered, blocks, sectors,
                  losses, received, written, evicted, lost, ioErrors>>
  BY DEF PullCard, InsertCard, fifoVars, manager, card, history
<1>2. Machine' /\ Medium' /\ Log'
  BY <1>1 DEF ArchiveInv, Machine, Medium, Log, HeadsFit, Described, HeadsWithin, Intact
<1>3. Ring' /\ AccountedFor'
  BY <1>1 DEF ArchiveInv, Ring, AccountedFor, Queued
<1>4. inserted' \in BOOLEAN
  BY Zenon DEF PullCard, InsertCard
<1>5. QED
  BY <1>2, <1>3, <1>4 DEF ArchiveInv

LEMMA InvPowerLoss == ASSUME ArchiveInv, PowerLoss PROVE ArchiveInv'
<1>1. /\ losses < MaxPowerLosses /\ losses' = losses + 1 /\ pc' = "off" /\ quota' = 0
      /\ lost' = lost \cup Queued /\ queue' = <<>>
      /\ mode' = "RamOnly" /\ sequence' = 0 /\ lba' = FirstLba /\ tornRecovered' = 0
      /\ UNCHANGED <<received, written, evicted, ioErrors>>
  BY DEF PowerLoss
<1>2. \/ blocks' = blocks
      \/ /\ pc = "record" /\ lba <= LastLba
         /\ \E c \in AfterFailedWrite(blocks[lba], Valid(sequence + 1, Head(queue))) :
              blocks' = [blocks EXCEPT ![lba] = c]
  BY DEF PowerLoss
<1>3. \/ sectors' = sectors
      \/ /\ pc = "checkpoint"
         /\ \E c \in AfterFailedWrite(sectors[CheckpointSector], Checkpoint) :
              sectors' = [sectors EXCEPT ![CheckpointSector] = c]
  BY DEF PowerLoss
<1>4. /\ blocks' \in [Blocks -> Contents] /\ sectors' \in [{1, 2} -> Contents]
      /\ HeadsFit(sectors') /\ ("read" \notin ioErrors => Described(blocks', sectors'))
  <2>1. CASE pc = "record"
    <3>1. sectors' = sectors
      BY <1>3, <2>1
    <3>2. QED
      BY <1>2, <2>1, <3>1, SpoiltBlock DEF ArchiveInv, Medium
  <2>2. CASE pc = "checkpoint"
    <3>1. blocks' = blocks
      BY <1>2, <2>2
    <3>2. QED
      BY <1>3, <2>2, <3>1, WrittenSector DEF ArchiveInv, Medium
  <2>3. CASE pc \notin {"record", "checkpoint"}
    BY <1>2, <1>3, <2>3 DEF ArchiveInv, Medium, Log
  <2>4. QED
    BY <2>1, <2>2, <2>3
<1>5. Machine'
  BY <1>1, Addresses DEF Machine
<1>6. Ring'
  BY <1>1, EmptySeq, Addresses DEF ArchiveInv, Ring
<1>7. Medium'
  BY <1>1, <1>4, StorageAssumption DEF ArchiveInv, Medium
<1>8. Log'
  BY <1>1, <1>4 DEF Log, Described, Intact
<1>9. inserted' \in BOOLEAN
  BY Zenon DEF ArchiveInv, PowerLoss
<1>10. AccountedFor'
  BY <1>1 DEF ArchiveInv, AccountedFor
<1>11. QED
  BY <1>5, <1>6, <1>7, <1>8, <1>9, <1>10 DEF ArchiveInv

LEMMA InvStutter == ASSUME ArchiveInv, UNCHANGED vars PROVE ArchiveInv'
<1>1. UNCHANGED <<queue, pc, quota, mode, sequence, lba, tornRecovered, blocks, sectors,
                  losses, received, written, evicted, lost, ioErrors>>
  BY DEF vars, fifoVars, manager, card, history
<1>2. Machine' /\ Medium' /\ Log'
  BY <1>1 DEF ArchiveInv, Machine, Medium, Log, HeadsFit, Described, HeadsWithin, Intact
<1>3. Ring' /\ AccountedFor'
  BY <1>1 DEF ArchiveInv, Ring, AccountedFor, Queued
<1>4. inserted' \in BOOLEAN
  BY Zenon DEF ArchiveInv, vars
<1>5. QED
  BY <1>2, <1>3, <1>4 DEF ArchiveInv

LEMMA ArchiveStep == ArchiveInv /\ [Next]_vars => ArchiveInv'
BY InvBoot, InvReceive, InvFlushTick, InvWriteRecord, InvWriteRecordFails, InvCheckpoint, InvCard,
   InvPowerLoss, InvStutter
DEF Next, Flush, FlushNothing

-----------------------------------------------------------------------------
\* What the invariant says of the archive.

\* The write position stays on the card or right behind it, a tick writes two records at
\* most and the ring never overflows its slots (fat32_container.rs).
THEOREM TypeCorrect == Spec => []TypeOK
<1>1. ArchiveInv => TypeOK
  <2>1. SUFFICES ASSUME ArchiveInv PROVE TypeOK
    OBVIOUS
  <2>2. Queued \subseteq Packets
    <3>1. queue \in Seq(Packets)
      BY <2>1 DEF ArchiveInv, Ring
    <3>2. \A i \in 1..Len(queue) : queue[i] \in Packets
      BY <3>1, ElementOfSeq
    <3>3. QED
      BY <3>2 DEF Queued
  <2>3. inserted \in BOOLEAN
    BY <2>1, Zenon DEF ArchiveInv
  <2>4. QED
    BY <2>1, <2>2, <2>3 DEF ArchiveInv, Machine, Ring, Medium, TypeOK
<1>2. QED
  BY <1>1, ArchiveStart, ArchiveStep, PTL DEF Spec

\* Over any number of power losses, pulled cards and I/O errors, no packet is forgotten:
\* falling back to RAM only loses none (fat32_container.rs:265-267).
THEOREM NoneForgotten == Spec => []AccountedFor
<1>1. ArchiveInv => AccountedFor
  BY DEF ArchiveInv
<1>2. QED
  BY <1>1, ArchiveStart, ArchiveStep, PTL DEF Spec

\* Below the write position the log is whole, whichever writes were cut off or torn
\* (flush_from_sram and recover_or_init in fat32_container.rs).
THEOREM LogWhole == Spec => []LogHasNoHoles
<1>1. ArchiveInv => LogHasNoHoles
  BY DEF ArchiveInv, Log, Intact, LogHasNoHoles
<1>2. QED
  BY <1>1, ArchiveStart, ArchiveStep, PTL DEF Spec

\* The write position after a step is that of a checkpoint, the one before, or the next.
LEMMA PlaceStep ==
  ASSUME ArchiveInv, NumberedByPlace, [Next]_vars, mode' = "MicroSdActive"
  PROVE  lba' = FirstLba + sequence'
<1>1. CASE Boot
  <2>1. PICK readable \in SUBSET {1, 2} : BootsFrom(readable)
    <3>1. PICK probed \in Probe : \E readable \in ReadableSectors(probed) : BootsFrom(readable)
      BY <1>1, Zenon DEF Boot, BootsFrom
    <3>2. ReadableSectors(probed) \subseteq SUBSET {1, 2}
      BY DEF ReadableSectors
    <3>3. QED
      BY <3>1, <3>2, Zenon
  <2> DEFINE good == {s \in readable : sectors[s].kind = "valid"}
             n == NewestCheckpoint(readable)
  <2>2. good # {} => n \in good
    BY Newest DEF ArchiveInv
  <2> HIDE DEF n
  <2>3. readable # {}
    BY <2>1 DEF BootsFrom
  <2>4. CASE good = {}
    BY <2>1, <2>3, <2>4, Addresses DEF BootsFrom
  <2>5. CASE good # {}
    <3>1. sequence' = sectors[n].sequence /\ lba' = sectors[n].holds
      BY <2>1, <2>3, <2>5 DEF BootsFrom, n
    <3>2. n \in {1, 2} /\ sectors[n].kind = "valid"
      BY <2>2, <2>5
    <3>3. QED
      BY <3>1, <3>2 DEF NumberedByPlace
  <2>6. QED
    BY <2>4, <2>5
<1>2. CASE WriteRecord
  <2>1. /\ lba' = lba + 1 /\ sequence' = sequence + 1 /\ lba = FirstLba + sequence
        /\ lba \in Nat /\ sequence \in Nat
    BY <1>2, Addresses DEF WriteRecord, NumberedByPlace, ArchiveInv, Machine
  <2>2. QED
    BY <2>1, Addresses
<1>3. CASE ~Boot /\ ~WriteRecord
  <2>1. UNCHANGED <<mode, sequence, lba>>
    BY <1>3
    DEF Next, Flush, Receive, FlushTick, FlushNothing, WriteRecordFails, WriteCheckpoint,
        WriteCheckpointFails, PullCard, InsertCard, PowerLoss, manager, vars
  <2>2. QED
    BY <2>1 DEF NumberedByPlace
<1>4. QED
  BY <1>1, <1>2, <1>3

\* What a step writes to a block is the next record, whole or torn, at the write position.
LEMMA BlockStep ==
  ASSUME ArchiveInv, [Next]_vars
  PROVE  \/ blocks' = blocks
         \/ /\ mode = "MicroSdActive" /\ lba \in Blocks
            /\ \E c \in AfterFailedWrite(blocks[lba], Valid(sequence + 1, Head(queue))) :
                 blocks' = [blocks EXCEPT ![lba] = c]
<1>1. pc = "record" /\ lba <= LastLba => mode = "MicroSdActive" /\ lba \in Blocks
  BY Addresses DEF ArchiveInv, Machine, Blocks
<1>2. CASE WriteRecord
  BY <1>1, <1>2 DEF WriteRecord, AfterFailedWrite
<1>3. CASE WriteRecordFails
  BY <1>1, <1>3 DEF WriteRecordFails
<1>4. CASE PowerLoss
  BY <1>1, <1>4 DEF PowerLoss
<1>5. CASE ~WriteRecord /\ ~WriteRecordFails /\ ~PowerLoss
  BY <1>5
  DEF Next, Flush, Boot, Receive, FlushTick, FlushNothing, WriteCheckpoint, WriteCheckpointFails,
      PullCard, InsertCard, card, vars
<1>6. QED
  BY <1>2, <1>3, <1>4, <1>5

\* What a step writes to a sector is the checkpoint of the write position, whole or torn.
LEMMA SectorStep ==
  ASSUME ArchiveInv, [Next]_vars
  PROVE  \/ sectors' = sectors
         \/ /\ mode = "MicroSdActive"
            /\ \E c \in AfterFailedWrite(sectors[CheckpointSector], Checkpoint) :
                 sectors' = [sectors EXCEPT ![CheckpointSector] = c]
<1>1. pc = "checkpoint" => mode = "MicroSdActive"
  BY DEF ArchiveInv, Machine
<1>2. CASE WriteCheckpoint
  BY <1>1, <1>2 DEF WriteCheckpoint, AfterFailedWrite
<1>3. CASE WriteCheckpointFails
  BY <1>1, <1>3 DEF WriteCheckpointFails
<1>4. CASE PowerLoss
  BY <1>1, <1>4 DEF PowerLoss
<1>5. CASE ~WriteCheckpoint /\ ~WriteCheckpointFails /\ ~PowerLoss
  BY <1>5
  DEF Next, Flush, Boot, Receive, FlushTick, FlushNothing, WriteRecord, WriteRecordFails,
      PullCard, InsertCard, card, vars
<1>6. QED
  BY <1>2, <1>3, <1>4, <1>5

\* Number and place of a record belong together for every card and any interval between
\* checkpoints, whichever reads and writes fail: a boot that could not read the newest
\* checkpoint rewrites newer records under the numbers their blocks had.
THEOREM NumbersHold == Spec => []NumberedByPlace
<1>1. Init => NumberedByPlace
  <2>1. SUFFICES ASSUME Init PROVE NumberedByPlace
    OBVIOUS
  <2>2. Blank.kind # "valid"
    BY DEF Blank
  <2>3. /\ mode # "MicroSdActive"
        /\ \A l \in Blocks : blocks[l].kind # "valid"
        /\ \A s \in {1, 2} : sectors[s].kind # "valid"
    BY <2>1, <2>2 DEF Init
  <2>4. QED
    BY <2>3 DEF NumberedByPlace
<1>2. ArchiveInv /\ NumberedByPlace /\ [Next]_vars => NumberedByPlace'
  <2>1. SUFFICES ASSUME ArchiveInv, NumberedByPlace, [Next]_vars PROVE NumberedByPlace'
    OBVIOUS
  <2>2. mode' = "MicroSdActive" => lba' = FirstLba + sequence'
    BY <2>1, PlaceStep
  <2>3. /\ blocks \in [Blocks -> Contents] /\ sectors \in [{1, 2} -> Contents]
        /\ sequence \in Nat /\ lba \in Nat
        /\ Torn.kind # "valid" /\ Valid(sequence + 1, Head(queue)).sequence = sequence + 1
        /\ Checkpoint.sequence = sequence /\ Checkpoint.holds = lba
    BY <2>1, Addresses DEF ArchiveInv, Machine, Medium, Torn, Valid, Checkpoint
  <2>4. ASSUME NEW l \in Blocks, blocks'[l].kind = "valid"
        PROVE  l = FirstLba + blocks'[l].sequence - 1
    <3>1. CASE blocks' = blocks
      BY <2>1, <2>4, <3>1 DEF NumberedByPlace
    <3>2. ASSUME mode = "MicroSdActive", lba \in Blocks,
                 NEW c \in {blocks[lba], Torn, Valid(sequence + 1, Head(queue))},
                 blocks' = [blocks EXCEPT ![lba] = c]
          PROVE  l = FirstLba + blocks'[l].sequence - 1
      <4>1. blocks'[l] = IF l = lba THEN c ELSE blocks[l]
        BY <2>3, <3>2
      <4>2. CASE blocks'[l] = blocks[l]
        BY <2>1, <2>4, <4>2 DEF NumberedByPlace
      <4>3. CASE l = lba /\ blocks'[l] = Valid(sequence + 1, Head(queue))
        <5>1. lba = FirstLba + sequence /\ blocks'[l].sequence = sequence + 1
          BY <2>1, <2>3, <3>2, <4>3 DEF NumberedByPlace
        <5>2. QED
          BY <2>3, <4>3, <5>1, Addresses
      <4>4. QED
        BY <2>3, <2>4, <3>2, <4>1, <4>2, <4>3
    <3>3. QED
      BY <2>1, <3>1, <3>2, BlockStep DEF AfterFailedWrite
  <2>5. ASSUME NEW s \in {1, 2}, sectors'[s].kind = "valid"
        PROVE  sectors'[s].holds = FirstLba + sectors'[s].sequence
    <3>1. CASE sectors' = sectors
      BY <2>1, <2>5, <3>1 DEF NumberedByPlace
    <3>2. ASSUME mode = "MicroSdActive", NEW i \in {1, 2},
                 NEW c \in {sectors[i], Torn, Checkpoint},
                 sectors' = [sectors EXCEPT ![i] = c]
          PROVE  sectors'[s].holds = FirstLba + sectors'[s].sequence
      <4>1. sectors'[s] = IF s = i THEN c ELSE sectors[s]
        BY <2>3, <3>2
      <4>2. CASE sectors'[s] = sectors[s]
        BY <2>1, <2>5, <4>2 DEF NumberedByPlace
      <4>3. CASE sectors'[s] = Checkpoint
        BY <2>1, <2>3, <3>2, <4>3 DEF NumberedByPlace
      <4>4. QED
        BY <2>3, <2>5, <3>2, <4>1, <4>2, <4>3
    <3>3. QED
      BY <2>1, <3>1, <3>2, SectorStep, SectorIs DEF AfterFailedWrite
  <2>6. QED
    BY <2>2, <2>4, <2>5 DEF NumberedByPlace
<1>3. QED
  BY <1>1, <1>2, ArchiveStart, ArchiveStep, PTL DEF Spec

\* No step, whole or cut off, changes a record that a valid checkpoint covers, unless a
\* checkpoint failed to read at some boot (recover_or_init).
THEOREM CoveredKept == Spec => CheckpointedRecordsKept
<1>1. ArchiveInv /\ ArchiveInv' /\ [Next]_vars =>
        [ "read" \notin ioErrors' =>
            \A h \in ValidHeads : \A l \in Blocks : l < h => blocks'[l] = blocks[l] ]_vars
  <2>1. SUFFICES ASSUME ArchiveInv, Next, "read" \notin ioErrors',
                        NEW h \in ValidHeads, NEW l \in Blocks, l < h
                 PROVE  blocks'[l] = blocks[l]
    BY DEF vars
  <2>2. CASE ~(WriteRecord \/ WriteRecordFails \/ PowerLoss)
    <3>1. blocks' = blocks
      BY <2>1, <2>2
      DEF Next, Flush, Boot, Receive, FlushTick, FlushNothing, WriteCheckpoint,
          WriteCheckpointFails, PullCard, InsertCard, card, vars
    <3>2. QED
      BY <3>1
  <2>3. CASE WriteRecord \/ WriteRecordFails \/ PowerLoss
    <3>1. /\ ioErrors \subseteq ioErrors'
          /\ blocks' = blocks \/ (pc = "record" /\ \E c : blocks' = [blocks EXCEPT ![lba] = c])
      BY <2>3 DEF WriteRecord, WriteRecordFails, PowerLoss
    <3>2. pc = "record" => HeadsWithin(sectors, lba)
      BY <2>1, <3>1 DEF ArchiveInv, Machine, Log
    <3>3. pc = "record" => h <= lba
      BY <2>1, <3>2 DEF ValidHeads, HeadsWithin
    <3>4. h \in Nat /\ l \in Nat /\ lba \in Nat /\ blocks \in [Blocks -> Contents]
      BY <2>1, Addresses DEF ArchiveInv, Machine, Medium, HeadsFit, ValidHeads, Blocks
    <3>5. QED
      BY <2>1, <3>1, <3>3, <3>4
  <2>4. QED
    BY <2>2, <2>3
<1>2. QED
  BY <1>1, ArchiveStart, ArchiveStep, PTL DEF Spec, CheckpointedRecordsKept

-----------------------------------------------------------------------------
\* The two checkpoint sectors take turns: the k-th checkpoint is the record of sequence
\* k * CheckpointEvery and goes to sector 1 if k is even.  sequence is r records behind
\* the k-th checkpoint, and m numbers the checkpoints in the sectors.

IsValid(s) == sectors[s].kind = "valid"
Numbered(m) ==
  \A s \in {1, 2} : IsValid(s) =>
    sectors[s].sequence = CheckpointEvery * m[s] /\ (s = 1 <=> m[s] % 2 = 0)
Follows(k, m) ==
  \A s \in {1, 2} : IsValid(s) => m[s] <= k /\ (pc = "checkpoint" => m[s] < k)
Latest(k, m) ==
  (\E s \in {1, 2} : IsValid(s)) =>
    \E s \in {1, 2} : IsValid(s) /\ (m[s] = k \/ (pc = "checkpoint" /\ m[s] + 1 = k))
Rounds(k, r, m) ==
  /\ sequence = CheckpointEvery * k + r
  /\ pc = "checkpoint" => r = 0
  /\ Numbered(m)
  /\ mode = "MicroSdActive" /\ inserted => Follows(k, m) /\ Latest(k, m)

Offsets == 0..(CheckpointEvery - 1)
Alternates ==
  ioErrors \subseteq {"record"} =>
    \E k \in Nat, r \in Offsets, m \in [{1, 2} -> Nat] : Rounds(k, r, m)

LEMMA Interval ==
  /\ CheckpointEvery \in Nat \ {0} /\ 0 \in Offsets /\ Offsets \subseteq Nat
  /\ \A k \in Nat : CheckpointEvery * k + 0 = CheckpointEvery * k
BY StorageAssumption, Z3 DEF Offsets

LEMMA SectorOfRound ==
  ASSUME NEW k \in Nat, sequence = CheckpointEvery * k
  PROVE  CheckpointSector = 1 <=> k % 2 = 0
<1> DEFINE n == 2 * CheckpointEvery
<1>1. n \in Nat \ {0} /\ 0 \in 0..(n - 1) /\ CheckpointEvery \in 0..(n - 1) /\ CheckpointEvery # 0
  BY Interval
<1>2. CASE k % 2 = 0
  <2>1. PICK j \in Nat : k = 2 * j
    BY <1>2
  <2>2. sequence = n * j + 0
    BY <2>1, Interval, Z3
  <2> HIDE DEF n
  <2>3. sequence % n = 0
    BY <1>1, <2>2, Quotient
  <2>4. QED
    BY <1>2, <2>3 DEF CheckpointSector, n
<1>3. CASE k % 2 # 0
  <2>1. PICK j \in Nat : k = 2 * j + 1
    BY <1>3
  <2>2. sequence = n * j + CheckpointEvery
    BY <2>1, Interval, Z3
  <2> HIDE DEF n
  <2>3. sequence % n = CheckpointEvery
    BY <1>1, <2>2, Quotient
  <2>4. QED
    BY <1>1, <1>3, <2>3 DEF CheckpointSector, n
<1>4. QED
  BY <1>2, <1>3

LEMMA AlternatesStart == Init => Alternates
<1> SUFFICES ASSUME Init PROVE \E k \in Nat, r \in Offsets, m \in [{1, 2} -> Nat] : Rounds(k, r, m)
  BY DEF Alternates
<1> DEFINE m == [s \in {1, 2} |-> 0]
<1>1. m \in [{1, 2} -> Nat]
  OBVIOUS
<1>2. sequence = CheckpointEvery * 0 + 0 /\ pc = "off" /\ mode = "RamOnly"
  BY Interval DEF Init
<1>3. Numbered(m)
  BY DEF Init, Numbered, IsValid, Blank
<1>4. Rounds(0, 0, m)
  BY <1>2, <1>3 DEF Rounds
<1>5. QED
  BY <1>1, <1>4, Interval

\* A step that leaves the card and the sequence alone.
LEMMA SameRounds ==
  ASSUME Alternates, ioErrors' \subseteq {"record"} => ioErrors \subseteq {"record"},
         UNCHANGED <<sequence, sectors>>,
         pc' = "checkpoint" => pc = "checkpoint",
         mode' = "MicroSdActive" /\ inserted' =>
           /\ mode = "MicroSdActive" /\ inserted
           /\ pc = "checkpoint" => pc' = "checkpoint"
  PROVE  Alternates'
<1>1. SUFFICES ASSUME ioErrors' \subseteq {"record"}
               PROVE  \E k \in Nat, r \in Offsets, m \in [{1, 2} -> Nat] : Rounds(k, r, m)'
  BY DEF Alternates
<1>2. PICK k \in Nat, r \in Offsets, m \in [{1, 2} -> Nat] : Rounds(k, r, m)
  BY <1>1 DEF Alternates
<1>3. Numbered(m)' /\ sequence' = CheckpointEvery * k + r /\ (pc' = "checkpoint" => r = 0)
  BY <1>2 DEF Rounds, Numbered, IsValid
<1>4. ASSUME mode' = "MicroSdActive", inserted'
      PROVE  Follows(k, m)' /\ Latest(k, m)'
  BY <1>2, <1>4 DEF Rounds, Follows, Latest, IsValid
<1>5. Rounds(k, r, m)'
  BY <1>3, <1>4 DEF Rounds
<1>6. QED
  BY <1>5

\* A boot resumes with the latest checkpoint.
LEMMA AlternatesBoot == ASSUME ArchiveInv, Alternates, Boot PROVE Alternates'
<1>0. PICK probed \in Probe : \E readable \in ReadableSectors(probed) : BootsFrom(readable)
  BY Zenon DEF Boot, BootsFrom
<1>1. PICK readable \in ReadableSectors(probed) : BootsFrom(readable)
  BY <1>0, Zenon
<1>2. SUFFICES ASSUME ioErrors' \subseteq {"record"}
               PROVE  \E k \in Nat, r \in Offsets, m \in [{1, 2} -> Nat] : Rounds(k, r, m)'
  BY DEF Alternates
<1>3. pc' = "idle" /\ sectors' = sectors
  BY DEF Boot, card
<1>4. ioErrors \subseteq {"record"} /\ (inserted => readable = {1, 2}) /\ (~inserted => readable = {})
  <2>1. ioErrors \subseteq {"record"} /\ (inserted => readable = {1, 2})
    BY <1>1, <1>2 DEF BootsFrom
  <2>2. ~inserted => readable = {}
    BY DEF Probe, ReadableSectors
  <2>3. QED
    BY <2>1, <2>2
<1>5. PICK k \in Nat, r \in Offsets, m \in [{1, 2} -> Nat] : Rounds(k, r, m)
  BY <1>4 DEF Alternates
<1>6. Numbered(m) /\ Numbered(m)'
  BY <1>3, <1>5 DEF Rounds, Numbered, IsValid
<1>7. CASE readable = {} \/ \A s \in {1, 2} : ~IsValid(s)
  <2>1. sequence' = 0
    BY <1>1, <1>3, <1>4, <1>7 DEF BootsFrom, IsValid
  <2>2. sequence' = CheckpointEvery * 0 + 0
    BY <2>1, Interval
  <2>3. mode' = "MicroSdActive" => Follows(0, m)' /\ Latest(0, m)'
    BY <1>1, <1>3, <1>7 DEF BootsFrom, Follows, Latest, IsValid
  <2>4. Rounds(0, 0, m)'
    BY <1>3, <1>6, <2>2, <2>3 DEF Rounds
  <2>5. QED
    BY <2>4, Interval
<1>8. CASE readable = {1, 2} /\ \E s \in {1, 2} : IsValid(s)
  <2> DEFINE good == {s \in readable : sectors[s].kind = "valid"}
             n == NewestCheckpoint(readable)
  <2>1. good # {} /\ good = {s \in {1, 2} : IsValid(s)}
    BY <1>8 DEF IsValid
  <2>2. n \in good /\ \A t \in good : sectors[t].sequence <= sectors[n].sequence
    BY <1>8, <2>1, Newest DEF ArchiveInv
  <2>3. sequence' = sectors[n].sequence
    BY <1>1, <1>8, <2>1 DEF BootsFrom
  <2> HIDE DEF good, n
  <2>4. PICK i \in {1, 2} : i = n
    BY <2>1, <2>2
  <2>5. IsValid(i) /\ m[i] \in Nat
    BY <2>1, <2>2, <2>4
  <2>6. sequence' = CheckpointEvery * m[i] + 0
    BY <1>6, <2>3, <2>4, <2>5, Interval DEF Numbered
  <2>7. \A s \in {1, 2} : IsValid(s) => m[s] <= m[i]
    <3>1. SUFFICES ASSUME NEW s \in {1, 2}, IsValid(s) PROVE m[s] <= m[i]
      OBVIOUS
    <3>2. CheckpointEvery * m[s] <= CheckpointEvery * m[i]
      BY <1>6, <2>1, <2>2, <2>4, <2>5, <3>1 DEF Numbered
    <3>3. m[s] \in Nat
      OBVIOUS
    <3>4. QED
      BY <2>5, <3>2, <3>3, Interval, Multiples
  <2>8. Follows(m[i], m)' /\ Latest(m[i], m)'
    BY <1>3, <2>5, <2>7 DEF Follows, Latest, IsValid
  <2>9. Rounds(m[i], 0, m)'
    BY <1>3, <1>6, <2>6, <2>8 DEF Rounds
  <2>10. QED
    BY <2>5, <2>9, Interval
<1>9. QED
  BY <1>4, <1>7, <1>8

\* A record is one more behind the last checkpoint, or makes the next one due.
LEMMA AlternatesRecord == ASSUME ArchiveInv, Alternates, WriteRecord PROVE Alternates'
<1>1. /\ pc = "record" /\ sequence' = sequence + 1
      /\ pc' = "checkpoint" <=> (sequence + 1) % CheckpointEvery = 0
      /\ UNCHANGED <<mode, sectors, inserted, ioErrors>>
  BY DEF WriteRecord, LoopWith
<1>2. SUFFICES ASSUME ioErrors \subseteq {"record"}
               PROVE  \E k \in Nat, r \in Offsets, m \in [{1, 2} -> Nat] : Rounds(k, r, m)'
  BY <1>1 DEF Alternates
<1>3. PICK k \in Nat, r \in Offsets, m \in [{1, 2} -> Nat] : Rounds(k, r, m)
  BY <1>2 DEF Alternates
<1>4. Numbered(m)' /\ sequence = CheckpointEvery * k + r
  BY <1>1, <1>3 DEF Rounds, Numbered, IsValid
<1>5. mode = "MicroSdActive" /\ inserted =>
        /\ \A s \in {1, 2} : IsValid(s) => m[s] <= k
        /\ (\E s \in {1, 2} : IsValid(s)) => \E s \in {1, 2} : IsValid(s) /\ m[s] = k
  BY <1>1, <1>3 DEF Rounds, Follows, Latest
<1>6. /\ r \in Nat /\ CheckpointEvery * k \in Nat /\ CheckpointEvery * (k + 1) \in Nat
      /\ CheckpointEvery * (k + 1) = CheckpointEvery * k + CheckpointEvery
  BY Interval, Multiples
<1>7. CASE r + 1 \in Offsets
  <2>1. sequence' = CheckpointEvery * k + (r + 1)
    BY <1>1, <1>4, <1>6
  <2>2. (sequence + 1) % CheckpointEvery = r + 1
    BY <1>1, <1>7, <2>1, Interval, Quotient DEF Offsets
  <2>3. pc' # "checkpoint"
    BY <1>1, <1>6, <2>2
  <2>4. mode' = "MicroSdActive" /\ inserted' => Follows(k, m)' /\ Latest(k, m)'
    BY <1>1, <1>5, <2>3 DEF Follows, Latest, IsValid
  <2>5. Rounds(k, r + 1, m)'
    BY <1>4, <2>1, <2>3, <2>4 DEF Rounds
  <2>6. QED
    BY <1>7, <2>5
<1>8. CASE r + 1 \notin Offsets
  <2>1. r + 1 = CheckpointEvery
    BY <1>8, Interval DEF Offsets
  <2>2. sequence' = CheckpointEvery * (k + 1) + 0
    BY <1>1, <1>4, <1>6, <2>1
  <2>3. (sequence + 1) % CheckpointEvery = 0
    <3>1. k + 1 \in Nat /\ 0 \in 0..(CheckpointEvery - 1)
      BY Interval
    <3>2. QED
      BY <1>1, <2>2, <3>1, Interval, Quotient
  <2>4. pc' = "checkpoint"
    BY <1>1, <2>3
  <2>5. \A s \in {1, 2} : m[s] \in Nat /\ (m[s] <= k => m[s] < k + 1 /\ m[s] <= k + 1)
    OBVIOUS
  <2>6. mode' = "MicroSdActive" /\ inserted' => Follows(k + 1, m)' /\ Latest(k + 1, m)'
    BY <1>1, <1>5, <2>4, <2>5 DEF Follows, Latest, IsValid
  <2>7. Rounds(k + 1, 0, m)'
    BY <1>4, <2>2, <2>6 DEF Rounds
  <2>8. QED
    BY <2>7, Interval
<1>9. QED
  BY <1>7, <1>8

\* A write of the checkpoint of round k into sector i leaves c there, and the rounds u
\* of the sectors follow from those m before it.
DueWrite(k, m, i, c, u) ==
  /\ pc = "checkpoint" /\ i = CheckpointSector
  /\ c \in AfterFailedWrite(sectors[i], Checkpoint)
  /\ sectors' = [sectors EXCEPT ![i] = c]
  /\ \A s \in {1, 2} : s # i => u[s] = m[s]
  /\ u[i] = IF c = Checkpoint THEN k ELSE m[i]

\* What the sectors hold once a checkpoint was due, on a card in its slot.
LEMMA DueSector ==
  ASSUME ArchiveInv,
         NEW k \in Nat, NEW r \in Offsets, NEW m \in [{1, 2} -> Nat], Rounds(k, r, m),
         NEW i \in {1, 2}, NEW c, NEW u, DueWrite(k, m, i, c, u)
  PROVE  Numbered(u)'
<1> USE DEF DueWrite
<1>1. /\ sectors \in [{1, 2} -> Contents] /\ Numbered(m)
      /\ c \in {sectors[i], Torn, Checkpoint}
  BY DEF ArchiveInv, Medium, Rounds, AfterFailedWrite
<1>2. sequence = CheckpointEvery * k /\ (i = 1 <=> k % 2 = 0)
  <2>1. sequence = CheckpointEvery * k
    BY Interval DEF Rounds
  <2>2. QED
    BY <2>1, SectorOfRound
<1>3. Checkpoint.sequence = sequence /\ Torn.kind # "valid"
  BY DEF Checkpoint, Valid, Torn
<1>4. \A s \in {1, 2} : sectors'[s] = IF s = i THEN c ELSE sectors[s]
  BY <1>1
<1>5. ASSUME NEW s \in {1, 2}, sectors'[s].kind = "valid"
      PROVE  sectors'[s].sequence = CheckpointEvery * u[s] /\ (s = 1 <=> u[s] % 2 = 0)
  <2>1. CASE s # i
    BY <1>1, <1>4, <1>5, <2>1 DEF Numbered, IsValid
  <2>2. CASE s = i /\ c = Checkpoint
    BY <1>2, <1>3, <1>4, <2>2
  <2>3. CASE s = i /\ c # Checkpoint
    BY <1>1, <1>3, <1>4, <1>5, <2>3 DEF Numbered, IsValid
  <2>4. QED
    BY <2>1, <2>2, <2>3
<1>6. QED
  BY <1>5 DEF Numbered, IsValid

LEMMA AlternatesCheckpoint == ASSUME ArchiveInv, Alternates, WriteCheckpoint PROVE Alternates'
<1>1. PICK i \in {1, 2} : i = CheckpointSector
  BY SectorIs
<1>2. /\ pc = "checkpoint" /\ inserted /\ pc' # "checkpoint" /\ mode = "MicroSdActive"
      /\ sectors' = [sectors EXCEPT ![i] = Checkpoint]
      /\ UNCHANGED <<sequence, mode, ioErrors>>
  BY <1>1 DEF WriteCheckpoint, LoopWith, manager, ArchiveInv, Machine
<1>3. SUFFICES ASSUME ioErrors \subseteq {"record"}
               PROVE  \E k \in Nat, r \in Offsets, m \in [{1, 2} -> Nat] : Rounds(k, r, m)'
  BY <1>2 DEF Alternates
<1>4. PICK k \in Nat, r \in Offsets, m \in [{1, 2} -> Nat] : Rounds(k, r, m)
  BY <1>3 DEF Alternates
<1> DEFINE u == [m EXCEPT ![i] = k]
<1>5. u \in [{1, 2} -> Nat] /\ u[i] = k /\ \A s \in {1, 2} : s # i => u[s] = m[s]
  OBVIOUS
<1> HIDE DEF u
<1>6. Checkpoint \in AfterFailedWrite(sectors[i], Checkpoint)
  BY DEF AfterFailedWrite
<1>7. Numbered(u)'
  <2>1. DueWrite(k, m, i, Checkpoint, u)
    BY <1>1, <1>2, <1>5, <1>6 DEF DueWrite
  <2>2. QED
    BY <1>4, <2>1, DueSector
<1>8. sectors \in [{1, 2} -> Contents] /\ Checkpoint.kind = "valid"
  BY DEF ArchiveInv, Medium, Checkpoint, Valid
<1>9. sectors'[i].kind = "valid" /\ \A s \in {1, 2} : s # i => sectors'[s] = sectors[s]
  BY <1>2, <1>8
<1>10. \A s \in {1, 2} : IsValid(s) => m[s] <= k
  BY <1>2, <1>4 DEF Rounds, Follows
<1>11. \A s \in {1, 2} : sectors'[s].kind = "valid" => u[s] <= k
  BY <1>5, <1>9, <1>10 DEF IsValid
<1>12. Follows(k, u)' /\ Latest(k, u)'
  BY <1>2, <1>5, <1>9, <1>11 DEF Follows, Latest, IsValid
<1>13. Rounds(k, r, u)'
  BY <1>2, <1>4, <1>7, <1>12 DEF Rounds
<1>14. QED
  BY <1>5, <1>13

LEMMA AlternatesPowerLoss == ASSUME ArchiveInv, Alternates, PowerLoss PROVE Alternates'
<1>1. /\ pc' = "off" /\ mode' = "RamOnly" /\ sequence' = 0 /\ ioErrors' = ioErrors
  BY DEF PowerLoss
<1>2. \/ sectors' = sectors
      \/ /\ pc = "checkpoint"
         /\ \E c \in AfterFailedWrite(sectors[CheckpointSector], Checkpoint) :
              sectors' = [sectors EXCEPT ![CheckpointSector] = c]
  BY DEF PowerLoss
<1>3. SUFFICES ASSUME ioErrors \subseteq {"record"}
               PROVE  \E k \in Nat, r \in Offsets, m \in [{1, 2} -> Nat] : Rounds(k, r, m)'
  BY <1>1 DEF Alternates
<1>4. PICK k \in Nat, r \in Offsets, m \in [{1, 2} -> Nat] : Rounds(k, r, m)
  BY <1>3 DEF Alternates
<1>5. \E u \in [{1, 2} -> Nat] : Numbered(u)'
  <2>1. CASE sectors' = sectors
    BY <1>4, <2>1 DEF Rounds, Numbered, IsValid
  <2>2. ASSUME pc = "checkpoint", NEW c \in AfterFailedWrite(sectors[CheckpointSector], Checkpoint),
               sectors' = [sectors EXCEPT ![CheckpointSector] = c]
        PROVE  \E u \in [{1, 2} -> Nat] : Numbered(u)'
    <3>1. PICK i \in {1, 2} : i = CheckpointSector
      BY SectorIs
    <3>2. PICK j \in Nat : j = IF c = Checkpoint THEN k ELSE m[i]
      OBVIOUS
    <3>3. PICK u \in [{1, 2} -> Nat] : u[i] = j /\ \A s \in {1, 2} : s # i => u[s] = m[s]
      <4>1. [m EXCEPT ![i] = j] \in [{1, 2} -> Nat]
        OBVIOUS
      <4>2. /\ [m EXCEPT ![i] = j][i] = j
            /\ \A s \in {1, 2} : s # i => [m EXCEPT ![i] = j][s] = m[s]
        OBVIOUS
      <4>3. QED
        BY <4>1, <4>2
    <3>4. Numbered(u)'
      <4>1. DueWrite(k, m, i, c, u)
        BY <2>2, <3>1, <3>2, <3>3 DEF DueWrite
      <4>2. QED
        BY <1>4, <4>1, DueSector
    <3>5. QED
      BY <3>3, <3>4
  <2>3. QED
    BY <1>2, <2>1, <2>2
<1>6. PICK u \in [{1, 2} -> Nat] : Numbered(u)'
  BY <1>5
<1>7. sequence' = CheckpointEvery * 0 + 0
  BY <1>1, Interval
<1>8. Rounds(0, 0, u)'
  BY <1>1, <1>6, <1>7 DEF Rounds
<1>9. QED
  BY <1>8, Interval

LEMMA AlternatesFails == ASSUME ArchiveInv, Alternates, WriteCheckpointFails PROVE Alternates'
<1>1. CASE inserted
  BY <1>1 DEF WriteCheckpointFails, Alternates
<1>2. CASE ~inserted
  <2>1. /\ UNCHANGED <<sequence, sectors>> /\ ~inserted' /\ pc' # "checkpoint"
        /\ ioErrors \subseteq ioErrors'
    BY <1>2 DEF WriteCheckpointFails, LoopWith, manager
  <2>2. QED
    BY <2>1, SameRounds
<1>3. QED
  BY <1>1, <1>2

LEMMA AlternatesStep == ArchiveInv /\ Alternates /\ [Next]_vars => Alternates'
<1> SUFFICES ASSUME ArchiveInv, Alternates, [Next]_vars PROVE Alternates'
  OBVIOUS
<1>1. CASE Receive \/ FlushTick \/ FlushNothing \/ PullCard \/ UNCHANGED vars
  <2>1. /\ UNCHANGED <<sequence, sectors, mode, ioErrors>>
        /\ pc' = pc \/ (pc = "idle" /\ pc' = "record")
        /\ inserted' => inserted
    BY <1>1 DEF Receive, FlushTick, FlushNothing, PullCard, manager, card, vars
  <2>2. QED
    BY <2>1, SameRounds
<1>2. CASE WriteRecordFails
  <2>1. /\ UNCHANGED <<sequence, sectors>> /\ mode' = "RamOnly" /\ pc' = "idle"
        /\ ioErrors \subseteq ioErrors'
    BY <1>2 DEF WriteRecordFails
  <2>2. QED
    BY <2>1, SameRounds
<1>3. CASE InsertCard
  <2>1. /\ UNCHANGED <<sequence, sectors, mode, pc, ioErrors>> /\ mode = "RamOnly"
    BY <1>3 DEF InsertCard, manager, card, ArchiveInv, Machine
  <2>2. QED
    BY <2>1, SameRounds
<1>4. QED
  BY <1>1, <1>2, <1>3, AlternatesBoot, AlternatesRecord, AlternatesCheckpoint, AlternatesFails,
     AlternatesPowerLoss
  DEF Next, Flush

\* The sector that is due holds no later checkpoint than the other one.
LEMMA OtherIsLater ==
  ASSUME ArchiveInv, Alternates, ioErrors \subseteq {"record"}, pc = "checkpoint", inserted,
         IsValid(CheckpointSector)
  PROVE  \E s \in {1, 2} : /\ s # CheckpointSector /\ IsValid(s)
                           /\ sectors[CheckpointSector].holds <= sectors[s].holds
<1>1. PICK i \in {1, 2} : i = CheckpointSector
  BY SectorIs
<1>2. PICK k \in Nat, r \in Offsets, m \in [{1, 2} -> Nat] : Rounds(k, r, m)
  BY DEF Alternates
<1>3. /\ sequence = CheckpointEvery * k /\ Numbered(m) /\ Follows(k, m) /\ Latest(k, m)
      /\ mode = "MicroSdActive"
  BY <1>2, Interval DEF Rounds, ArchiveInv, Machine
<1>4. (i = 1 <=> k % 2 = 0) /\ (i = 1 <=> m[i] % 2 = 0) /\ m[i] < k /\ IsValid(i)
  BY <1>1, <1>3, SectorOfRound DEF Numbered, Follows
<1>5. PICK s \in {1, 2} : IsValid(s) /\ (m[s] = k \/ m[s] + 1 = k)
  BY <1>3, <1>4 DEF Latest
<1>6. m[s] < k
  BY <1>3, <1>5 DEF Follows
<1>7. /\ m[s] \in Nat /\ m[i] \in Nat /\ m[s] + 1 = k
  BY <1>5, <1>6
<1>8. s # i /\ m[i] <= m[s]
  <2>1. m[i] % 2 # m[s] % 2
    <3>1. (k % 2 = 0 <=> m[s] % 2 # 0) /\ (k % 2 = 0 <=> m[i] % 2 = 0)
      BY <1>4, <1>7
    <3>2. QED
      BY <3>1
  <2>2. QED
    BY <1>4, <1>7, <2>1
<1>9. sectors[i].holds <= sectors[s].holds
  <2>1. /\ sectors[i].holds = FirstLba + CheckpointEvery * m[i]
        /\ sectors[s].holds = FirstLba + CheckpointEvery * m[s]
    BY <1>3, <1>4, <1>5 DEF ArchiveInv, Log, Described, Numbered, IsValid
  <2>2. /\ CheckpointEvery * m[i] <= CheckpointEvery * m[s]
        /\ CheckpointEvery * m[i] \in Nat /\ CheckpointEvery * m[s] \in Nat
    BY <1>7, <1>8, Interval, Multiples
  <2>3. QED
    BY <2>1, <2>2, Addresses
<1>10. QED
  BY <1>1, <1>5, <1>8, <1>9

\* Whatever write a power loss cuts off, and whatever record fails, the newest valid
\* checkpoint only moves forward, unless a checkpoint failed to read at some boot or the
\* write of one failed: the two sectors take turns (flush_from_sram).
THEOREM MovesForward == Spec => CheckpointsMoveForward
<1>1. ArchiveInv /\ Alternates /\ [Next]_vars =>
        [ioErrors' \subseteq {"record"} => \A h \in ValidHeads : \E g \in ValidHeads' : g >= h]_vars
  <2>1. SUFFICES ASSUME ArchiveInv, Alternates, Next, ioErrors' \subseteq {"record"},
                        NEW s \in {1, 2}, IsValid(s)
                 PROVE  \E t \in {1, 2} : IsValid(t)' /\ sectors'[t].holds >= sectors[s].holds
    BY DEF ValidHeads, IsValid
  <2>2. \A t \in {1, 2} : IsValid(t) => sectors[t].holds \in Nat
    BY <2>1, Addresses DEF ArchiveInv, Medium, HeadsFit, IsValid
  <2>3. CASE sectors' = sectors
    BY <2>1, <2>2, <2>3 DEF IsValid
  <2>4. CASE sectors' # sectors
    <3>1. PICK i \in {1, 2} : i = CheckpointSector
      BY SectorIs
    <3>2. /\ pc = "checkpoint" /\ inserted /\ ioErrors \subseteq {"record"}
          /\ \E c \in {sectors[i], Torn, Checkpoint} : sectors' = [sectors EXCEPT ![i] = c]
      <4>1. WriteCheckpoint \/ WriteCheckpointFails \/ PowerLoss
        BY <2>1, <2>4
        DEF Next, Flush, Boot, Receive, FlushTick, FlushNothing, WriteRecord, WriteRecordFails,
            PullCard, InsertCard, card, vars
      <4>2. ioErrors \subseteq {"record"}
        BY <2>1, <4>1 DEF WriteCheckpoint, WriteCheckpointFails, PowerLoss
      <4>3. CASE WriteCheckpoint
        BY <3>1, <4>2, <4>3 DEF WriteCheckpoint
      <4>4. CASE WriteCheckpointFails
        BY <2>1, <2>4, <4>4 DEF WriteCheckpointFails
      <4>5. CASE PowerLoss
        BY <2>4, <3>1, <4>2, <4>5 DEF PowerLoss, AfterFailedWrite
      <4>6. QED
        BY <4>1, <4>3, <4>4, <4>5
    <3>3. PICK c \in {sectors[i], Torn, Checkpoint} : sectors' = [sectors EXCEPT ![i] = c]
      BY <3>2
    <3>4. sectors'[i] = c /\ \A t \in {1, 2} : t # i => sectors'[t] = sectors[t]
      BY <2>1, <3>3 DEF ArchiveInv, Medium
    <3>5. CASE s # i
      BY <2>1, <2>2, <3>4, <3>5 DEF IsValid
    <3>6. CASE s = i /\ c = Checkpoint
      <4>1. lba \in Nat /\ sectors[s].holds <= lba
        BY <2>1, <3>2, Addresses DEF ArchiveInv, Machine, Log, HeadsWithin, IsValid
      <4>2. Checkpoint.kind = "valid" /\ Checkpoint.holds = lba
        BY DEF Checkpoint, Valid
      <4>3. QED
        BY <2>1, <2>2, <3>4, <3>6, <4>1, <4>2 DEF IsValid
    <3>7. CASE s = i /\ c # Checkpoint
      <4>1. PICK t \in {1, 2} : t # i /\ IsValid(t) /\ sectors[i].holds <= sectors[t].holds
        BY <2>1, <3>1, <3>2, <3>7, OtherIsLater
      <4>2. QED
        BY <2>1, <2>2, <3>4, <3>7, <4>1 DEF IsValid
    <3>8. QED
      BY <3>5, <3>6, <3>7
  <2>5. QED
    BY <2>3, <2>4
<1>2. QED
  BY <1>1, ArchiveStart, ArchiveStep, AlternatesStart, AlternatesStep, PTL
  DEF Spec, CheckpointsMoveForward
=============================================================================
