------------------------- MODULE NonceManagerProofs -------------------------
(***************************************************************************)
(* Proofs about the nonce manager, for every block size, every bound and    *)
(* every interleaving of allocations, kills, power losses and clock steps.  *)
(***************************************************************************)
EXTENDS NonceManager, TLAPS

-----------------------------------------------------------------------------
\* Epochs, with or without disk errors: what was issued carries an epoch the
\* disk already knows, and a life that has not persisted yet uses a fresh one.
EpochsOnDisk ==
  /\ durable.last_persisted_epoch <= cached.last_persisted_epoch
  /\ \A i \in 1..Len(issued) : issued[i].epoch <= durable.last_persisted_epoch

EpochOfLife ==
  /\ pc = "down" => caller = "new"
  /\ pc # "down" /\ caller = "new" /\ pc # "ready" => durable.last_persisted_epoch < epoch
  /\ pc \in {"write", "rename"} /\ caller = "new" => cached.last_persisted_epoch < epoch
  /\ pc = "dirsync" => cached.last_persisted_epoch = epoch
  /\ pc = "ready" \/ (pc # "down" /\ caller = "allocate_msg")
        => durable.last_persisted_epoch = epoch /\ cached.last_persisted_epoch = epoch

CountersOfLife ==
  pc # "down" => \A i \in 1..Len(issued) : issued[i].epoch = epoch => issued[i].counter < counter

IssueOrder ==
  \A i, j \in 1..Len(issued) : i < j =>
     \/ issued[i].epoch < issued[j].epoch
     \/ issued[i].epoch = issued[j].epoch /\ issued[i].counter < issued[j].counter

EpochInv == TypeOK /\ EpochsOnDisk /\ EpochOfLife /\ CountersOfLife /\ IssueOrder

-----------------------------------------------------------------------------
\* Counters, when persisting does not fail: the disk is ahead of what was issued,
\* and the manager's block is the one on disk whenever it may issue from it.
BlocksOnDisk ==
  /\ durable.next_allocated_block <= cached.next_allocated_block
  /\ ReservedBeforeIssued

BlockOfLife ==
  /\ pc \in {"write", "rename"} => cached.next_allocated_block + BlockSize = limit
  /\ pc = "dirsync" => cached.next_allocated_block = limit /\ durable.next_allocated_block + BlockSize <= limit
  /\ pc \in Persisting => counter + BlockSize = limit
  /\ pc = "ready" => /\ durable.next_allocated_block = limit
                     /\ cached.next_allocated_block = limit
                     /\ counter <= limit

CountersAhead ==
  pc # "down" => \A i \in 1..Len(issued) : issued[i].counter < counter

CounterInv == TypeOK /\ BlocksOnDisk /\ BlockOfLife /\ CountersAhead /\ CountersNeverReused

-----------------------------------------------------------------------------
\* The type of every variable is kept, whatever step is taken (nonce.rs:17-22).
LEMMA TypeStep == TypeOK /\ [Next]_vars => TypeOK'
<1> SUFFICES ASSUME TypeOK, [Next]_vars
             PROVE  TypeOK'
  OBVIOUS
<1> USE BlockSizeAssumption, BoundsAssumption DEF TypeOK, DiskState, Persisting, manager, disk
<1>1. CASE New
  BY <1>1 DEF New, SafeEpoch, StartCounter
<1>2. CASE AllocateFromBlock
  BY <1>2 DEF AllocateFromBlock, InBlock, Issue
<1>3. CASE AllocateReserve
  BY <1>3 DEF AllocateReserve, InBlock
<1>4. CASE WriteTmp
  BY <1>4 DEF WriteTmp
<1>5. CASE Rename
  BY <1>5 DEF Rename, Reservation
<1>6. CASE DirSync
  <2>1. CASE caller = "new"
    BY <1>6, <2>1 DEF DirSync
  <2>2. CASE caller # "new"
    <3>1. issued' = Append(issued, [epoch |-> epoch, counter |-> counter]) /\ counter' = counter + 1
      BY <1>6, <2>2 DEF DirSync, Issue
    <3>2. issued' \in Seq([epoch : Nat, counter : Nat])
      BY <3>1
    <3>3. QED
      BY <1>6, <3>1, <3>2 DEF DirSync
  <2>3. QED
    BY <2>1, <2>2
<1>7. CASE PersistFails
  BY <1>7 DEF PersistFails
<1>8. CASE Kill
  BY <1>8 DEF Kill
<1>9. CASE PowerLoss
  BY <1>9 DEF PowerLoss
<1>10. CASE SetClock
  BY <1>10 DEF SetClock
<1>11. CASE DirSyncFails
  <2>1. CASE caller = "new"
    BY <1>11, <2>1 DEF DirSyncFails
  <2>2. CASE caller # "new"
    <3>1. issued' = Append(issued, [epoch |-> epoch, counter |-> counter]) /\ counter' = counter + 1
      BY <1>11, <2>2 DEF DirSyncFails, Issue
    <3>2. issued' \in Seq([epoch : Nat, counter : Nat])
      BY <3>1
    <3>3. QED
      BY <1>11, <3>1, <3>2 DEF DirSyncFails
  <2>3. QED
    BY <2>1, <2>2
<1>12. CASE UNCHANGED vars
  BY <1>12 DEF vars
<1>13. QED
  BY <1>1, <1>2, <1>3, <1>4, <1>5, <1>6, <1>7, <1>8, <1>9, <1>10, <1>11, <1>12 DEF Next, Process

\* Initially nothing is issued and the file does not exist.
LEMMA InitInvs == Init => EpochInv /\ CounterInv
<1> SUFFICES ASSUME Init
             PROVE  EpochInv /\ CounterInv
  OBVIOUS
<1> USE DEF Init, NoFile
<1>1. TypeOK
  BY BoundsAssumption DEF TypeOK, DiskState, Persisting
<1>2. QED
  BY <1>1, BlockSizeAssumption
  DEF EpochInv, CounterInv, Persisting, EpochsOnDisk, EpochOfLife, CountersOfLife, IssueOrder,
      BlocksOnDisk, BlockOfLife, CountersAhead, ReservedBeforeIssued, CountersNeverReused

\* TypeOK holds in every reachable state.
THEOREM TypeCorrect == Spec => []TypeOK
<1>1. Init => TypeOK
  BY InitInvs DEF EpochInv
<1>2. QED
  BY <1>1, TypeStep, PTL DEF Spec

-----------------------------------------------------------------------------
\* What a step can do to the history: a start, a death and a step of a life that
\* issues nothing leave it alone; issuing appends what the manager holds.
Quiet == pc # "down" /\ epoch' = epoch /\ counter' = counter
Issues ==
  /\ issued' = Append(issued, [epoch |-> epoch, counter |-> counter])
  /\ counter' = counter + 1 /\ epoch' = epoch
  /\ pc' = "ready"
  /\ \/ pc = "ready" /\ counter < limit /\ UNCHANGED disk
     \/ /\ pc = "dirsync" /\ caller = "allocate_msg"
        /\ durable' = cached \/ "dirsync" \in failures'

LEMMA HistoryStep ==
  ASSUME TypeOK, [Next]_vars
  PROVE  \/ issued' = issued /\ (New \/ pc' = "down" \/ Quiet)
         \/ Issues
<1> USE DEF Quiet, Issues, manager, disk
<1>1. pc \in {"down", "ready"} \cup Persisting /\ caller \in {"new", "allocate_msg"}
  BY DEF TypeOK
<1>2. CASE New \/ Kill \/ PowerLoss \/ SetClock \/ UNCHANGED vars
  BY <1>1, <1>2 DEF New, Kill, PowerLoss, SetClock, vars
<1>3. CASE AllocateFromBlock \/ AllocateReserve
  BY <1>1, <1>3 DEF AllocateFromBlock, InBlock, AllocateReserve, Issue
<1>4. CASE WriteTmp \/ Rename \/ PersistFails
  BY <1>1, <1>4 DEF WriteTmp, Rename, PersistFails
<1>5. CASE DirSync
  BY <1>1, <1>5 DEF DirSync, Issue
<1>6. CASE DirSyncFails
  BY <1>1, <1>6 DEF DirSyncFails, Issue
<1>7. QED
  BY <1>2, <1>3, <1>4, <1>5, <1>6 DEF Next, Process

\* What has failed stays in the history.
LEMMA FailuresGrow == [Next]_vars => failures \subseteq failures'
  BY DEF Next, Process, vars, New, AllocateFromBlock, AllocateReserve, WriteTmp, Rename, DirSync, DirSyncFails,
         PersistFails, Kill, PowerLoss, SetClock

\* The elements of a sequence over S belong to S.
LEMMA ElementOfSeq ==
  ASSUME NEW S, NEW s \in Seq(S), NEW i \in 1..Len(s)
  PROVE  s[i] \in S
  OBVIOUS

\* The fields of what is on disk and in the history are numbers.
LEMMA FieldTypes ==
  ASSUME TypeOK
  PROVE  /\ cached.last_persisted_epoch \in Nat /\ cached.next_allocated_block \in Nat
         /\ durable.last_persisted_epoch \in Nat /\ durable.next_allocated_block \in Nat
         /\ Len(issued) \in Nat
         /\ \A i \in 1..Len(issued) : issued[i].epoch \in Nat /\ issued[i].counter \in Nat
<1>1. cached \in DiskState /\ durable \in DiskState /\ issued \in Seq([epoch : Nat, counter : Nat])
  BY DEF TypeOK
<1>2. \A i \in 1..Len(issued) : issued[i] \in [epoch : Nat, counter : Nat]
  BY <1>1, ElementOfSeq
<1>3. Len(issued) \in Nat
  BY <1>1
<1>4. QED
  BY <1>1, <1>2, <1>3 DEF DiskState

\* Issuing keeps the earlier entries where they are and adds one at the end.
LEMMA IssuedEntry ==
  ASSUME TypeOK, Issues
  PROVE  /\ Len(issued') = Len(issued) + 1
         /\ \A i \in 1..Len(issued) : issued'[i] = issued[i]
         /\ issued'[Len(issued')].epoch = epoch /\ issued'[Len(issued')].counter = counter
         /\ \A i \in 1..Len(issued') : i \in 1..Len(issued) \/ i = Len(issued')
<1> DEFINE e == [epoch |-> epoch, counter |-> counter]
<1>1. issued \in Seq([epoch : Nat, counter : Nat]) /\ e \in [epoch : Nat, counter : Nat]
  BY DEF TypeOK
<1>2. issued' = Append(issued, e)
  BY DEF Issues
<1>3. /\ Len(issued') = Len(issued) + 1
      /\ \A i \in 1..Len(issued) : issued'[i] = issued[i]
      /\ issued'[Len(issued) + 1] = e
      /\ Len(issued) \in Nat
  BY <1>1, <1>2
<1>4. QED
  BY <1>3

-----------------------------------------------------------------------------
\* The epoch part of the argument: one step per action that touches an epoch.
LEMMA EpochStep ==
  ASSUME "dirsync" \notin failures'
  PROVE  EpochInv /\ [Next]_vars => EpochInv'
<1> SUFFICES ASSUME EpochInv, [Next]_vars
             PROVE  EpochInv'
  OBVIOUS
<1>1. TypeOK /\ TypeOK'
  BY TypeStep DEF EpochInv
<1> USE <1>1, FieldTypes
<1>2. /\ EpochOfLife'
      /\ durable'.last_persisted_epoch <= cached'.last_persisted_epoch
      /\ durable.last_persisted_epoch <= durable'.last_persisted_epoch
  <2> USE FieldTypes DEF EpochOfLife, EpochsOnDisk, EpochInv, Persisting, manager, disk
  <2>0. pc \in {"down", "ready"} \cup Persisting /\ caller \in {"new", "allocate_msg"} /\ epoch \in Nat /\ clock \in Nat
    BY DEF TypeOK
  <2> USE <2>0
  <2>1. CASE New
    BY <2>1 DEF New, SafeEpoch
  <2>2. CASE AllocateFromBlock
    BY <2>2 DEF AllocateFromBlock, InBlock
  <2>3. CASE AllocateReserve
    BY <2>3 DEF AllocateReserve, InBlock
  <2>4. CASE WriteTmp
    BY <2>4 DEF WriteTmp
  <2>5. CASE Rename
    BY <2>5 DEF Rename, Reservation
  <2>6. CASE DirSync
    BY <2>6 DEF DirSync
  <2>7. CASE PersistFails
    BY <2>7 DEF PersistFails
  <2>8. CASE Kill
    BY <2>8 DEF Kill
  <2>9. CASE PowerLoss
    BY <2>9 DEF PowerLoss
  <2>10. CASE SetClock
    BY <2>10 DEF SetClock
  <2>11. CASE DirSyncFails
    BY <2>11 DEF DirSyncFails
  <2>12. CASE UNCHANGED vars
    BY <2>12 DEF vars
  <2>13. QED
    BY <2>1, <2>2, <2>3, <2>4, <2>5, <2>6, <2>7, <2>8, <2>9, <2>10, <2>11, <2>12 DEF Next, Process
<1>3. durable'.last_persisted_epoch \in Nat /\ epoch \in Nat /\ counter \in Nat
  BY DEF TypeOK, DiskState
<1>4. CASE issued' = issued /\ (New \/ pc' = "down" \/ Quiet)
  <2>1. EpochsOnDisk'
    <3> SUFFICES ASSUME NEW i \in 1..Len(issued)
                 PROVE  issued[i].epoch <= durable'.last_persisted_epoch
      BY <1>2, <1>4 DEF EpochsOnDisk
    <3>1. issued[i].epoch <= durable.last_persisted_epoch
      BY DEF EpochInv, EpochsOnDisk
    <3>2. QED
      BY <1>2, <1>3, <3>1
  <2>2. IssueOrder'
    BY <1>4 DEF EpochInv, IssueOrder
  <2>3. CountersOfLife'
    <3>1. CASE New
      <4>1. cached.last_persisted_epoch < epoch'
        BY <3>1 DEF New, SafeEpoch, TypeOK
      <4>2. epoch' \in Nat
        BY DEF TypeOK
      <4> SUFFICES ASSUME NEW i \in 1..Len(issued)
                   PROVE  issued[i].epoch # epoch'
        BY <1>4 DEF CountersOfLife
      <4>3. issued[i].epoch <= durable.last_persisted_epoch /\ durable.last_persisted_epoch <= cached.last_persisted_epoch
        BY DEF EpochInv, EpochsOnDisk
      <4>4. QED
        BY <4>1, <4>2, <4>3
    <3>2. CASE pc' = "down"
      BY <3>2 DEF CountersOfLife
    <3>3. CASE Quiet
      BY <1>4, <3>3 DEF Quiet, EpochInv, CountersOfLife
    <3>4. QED
      BY <1>4, <3>1, <3>2, <3>3
  <2>4. QED
    BY <1>1, <1>2, <2>1, <2>2, <2>3 DEF EpochInv
<1>5. CASE Issues
  <2>1. pc # "down" /\ durable.last_persisted_epoch = epoch /\ counter' = counter + 1 /\ epoch' = epoch
    BY <1>5 DEF Issues, EpochInv, EpochOfLife
  <2>2. \A i \in 1..Len(issued) :
           /\ issued[i].epoch \in Nat /\ issued[i].epoch <= epoch
           /\ issued[i].epoch = epoch => issued[i].counter < counter
    BY <2>1 DEF EpochInv, EpochsOnDisk, CountersOfLife
  <2>3. /\ Len(issued') = Len(issued) + 1
        /\ \A i \in 1..Len(issued) : issued'[i] = issued[i]
        /\ issued'[Len(issued')].epoch = epoch /\ issued'[Len(issued')].counter = counter
        /\ \A i \in 1..Len(issued') : i \in 1..Len(issued) \/ i = Len(issued')
    BY <1>5, IssuedEntry
  <2>4. EpochsOnDisk'
    <3>1. epoch <= durable'.last_persisted_epoch
      BY <1>2, <1>3, <2>1
    <3> SUFFICES ASSUME NEW i \in 1..Len(issued')
                 PROVE  issued'[i].epoch <= durable'.last_persisted_epoch
      BY <1>2 DEF EpochsOnDisk
    <3>2. CASE i \in 1..Len(issued)
      <4>1. issued'[i].epoch = issued[i].epoch
        BY <2>3, <3>2
      <4>2. issued[i].epoch \in Nat /\ issued[i].epoch <= epoch
        BY <2>2, <3>2
      <4>3. QED
        BY <1>3, <3>1, <4>1, <4>2
    <3>3. CASE i = Len(issued')
      BY <2>3, <3>1, <3>3
    <3>4. QED
      BY <2>3, <3>2, <3>3
  <2>5. CountersOfLife'
    <3> SUFFICES ASSUME NEW i \in 1..Len(issued'), issued'[i].epoch = epoch
                 PROVE  issued'[i].counter < counter + 1
      BY <2>1 DEF CountersOfLife
    <3>1. CASE i \in 1..Len(issued)
      BY <1>3, <2>2, <2>3, <3>1
    <3>2. CASE i = Len(issued')
      BY <1>3, <2>3, <3>2
    <3>3. QED
      BY <2>3, <3>1, <3>2
  <2>6. IssueOrder'
    <3> SUFFICES ASSUME NEW i \in 1..Len(issued'), NEW j \in 1..Len(issued'), i < j
                 PROVE  \/ issued'[i].epoch < issued'[j].epoch
                        \/ issued'[i].epoch = issued'[j].epoch /\ issued'[i].counter < issued'[j].counter
      BY DEF IssueOrder
    <3>1. i \in 1..Len(issued)
      BY <2>3
    <3>2. CASE j \in 1..Len(issued)
      BY <2>3, <3>1, <3>2 DEF EpochInv, IssueOrder
    <3>3. CASE j = Len(issued')
      <4>1. issued'[i].epoch = issued[i].epoch /\ issued'[i].counter = issued[i].counter
        BY <2>3, <3>1
      <4>2. /\ issued[i].epoch \in Nat /\ issued[i].epoch <= epoch
            /\ issued[i].epoch = epoch => issued[i].counter < counter
        BY <2>2, <3>1
      <4>3. QED
        BY <1>3, <2>3, <3>3, <4>1, <4>2
    <3>4. QED
      BY <2>3, <3>2, <3>3
  <2>7. QED
    BY <1>1, <1>2, <2>4, <2>5, <2>6 DEF EpochInv
<1>6. QED
  BY <1>4, <1>5, HistoryStep

\* Even when persisting may return an error, no (epoch, counter) pair is handed out
\* twice and the epoch never rolls back, unless the directory fsync failed unnoticed.
THEOREM PairsUnique == Spec => [](PairsNeverReused /\ EpochsNeverRollBack)
<1> DEFINE Inv == "dirsync" \notin failures => EpochInv
<1>1. Init => Inv
  BY InitInvs
<1>2. Inv /\ [Next]_vars => Inv'
  <2> SUFFICES ASSUME Inv, [Next]_vars, "dirsync" \notin failures'
               PROVE  EpochInv'
    OBVIOUS
  <2>1. "dirsync" \notin failures
    BY FailuresGrow
  <2>2. QED
    BY <2>1, EpochStep
<1>3. Inv => PairsNeverReused /\ EpochsNeverRollBack
  <2> SUFFICES ASSUME EpochInv, NEW i \in 1..Len(issued), NEW j \in 1..Len(issued)
               PROVE  (i # j => issued[i] # issued[j]) /\ (i < j => issued[i].epoch <= issued[j].epoch)
    BY DEF PairsNeverReused, EpochsNeverRollBack
  <2>1. issued[i].epoch \in Nat /\ issued[j].epoch \in Nat /\ issued[i].counter \in Nat /\ issued[j].counter \in Nat
    BY FieldTypes DEF EpochInv
  <2>2. i \in Nat /\ j \in Nat
    OBVIOUS
  <2>3. QED
    BY <2>1, <2>2 DEF EpochInv, IssueOrder
<1>4. QED
  BY <1>1, <1>2, <1>3, PTL DEF Spec

-----------------------------------------------------------------------------
\* The counter part, when persisting does not fail.
LEMMA CounterStep ==
  ASSUME failures' = {}
  PROVE  CounterInv /\ [Next]_vars => CounterInv'
<1> SUFFICES ASSUME CounterInv, [Next]_vars
             PROVE  CounterInv'
  OBVIOUS
<1>1. TypeOK /\ TypeOK'
  BY TypeStep DEF CounterInv
<1> USE <1>1, FieldTypes, BlockSizeAssumption
<1>2. /\ BlockOfLife'
      /\ durable'.next_allocated_block <= cached'.next_allocated_block
      /\ durable.next_allocated_block <= durable'.next_allocated_block
  <2> USE FieldTypes DEF BlockOfLife, BlocksOnDisk, CounterInv, Persisting, manager, disk
  <2>0. pc \in {"down", "ready"} \cup Persisting /\ caller \in {"new", "allocate_msg"} /\ counter \in Nat /\ limit \in Nat
    BY DEF TypeOK
  <2> USE <2>0
  <2>1. CASE New
    BY <2>1 DEF New, StartCounter
  <2>2. CASE AllocateFromBlock
    BY <2>2 DEF AllocateFromBlock, InBlock, Issue
  <2>3. CASE AllocateReserve
    BY <2>3 DEF AllocateReserve, InBlock
  <2>4. CASE WriteTmp
    BY <2>4 DEF WriteTmp
  <2>5. CASE Rename
    BY <2>5 DEF Rename, Reservation
  <2>6. CASE DirSync
    BY <2>6 DEF DirSync, Issue
  <2>7. CASE PersistFails
    BY <2>7 DEF PersistFails
  <2>8. CASE Kill
    BY <2>8 DEF Kill
  <2>9. CASE PowerLoss
    BY <2>9 DEF PowerLoss
  <2>10. CASE SetClock
    BY <2>10 DEF SetClock
  <2>11. CASE DirSyncFails
    BY <2>11 DEF DirSyncFails
  <2>12. CASE UNCHANGED vars
    BY <2>12 DEF vars
  <2>13. QED
    BY <2>1, <2>2, <2>3, <2>4, <2>5, <2>6, <2>7, <2>8, <2>9, <2>10, <2>11, <2>12 DEF Next, Process
<1>3. durable'.next_allocated_block \in Nat /\ counter \in Nat /\ counter' \in Nat /\ limit \in Nat
  BY DEF TypeOK, DiskState
<1>4. CASE issued' = issued /\ (New \/ pc' = "down" \/ Quiet)
  <2>1. BlocksOnDisk'
    <3> SUFFICES ASSUME NEW i \in 1..Len(issued)
                 PROVE  issued[i].counter < durable'.next_allocated_block
      BY <1>2, <1>4 DEF BlocksOnDisk, ReservedBeforeIssued
    <3>1. issued[i].counter < durable.next_allocated_block
      BY DEF CounterInv, BlocksOnDisk, ReservedBeforeIssued
    <3>2. QED
      BY <1>2, <1>3, <3>1
  <2>2. CountersNeverReused'
    BY <1>4 DEF CounterInv, CountersNeverReused
  <2>3. CountersAhead'
    <3>1. CASE New
      <4>1. counter' = cached.next_allocated_block
        BY <3>1 DEF New, StartCounter
      <4> SUFFICES ASSUME NEW i \in 1..Len(issued)
                   PROVE  issued[i].counter < counter'
        BY <1>4 DEF CountersAhead
      <4>2. /\ issued[i].counter < durable.next_allocated_block
            /\ durable.next_allocated_block <= cached.next_allocated_block
        BY DEF CounterInv, BlocksOnDisk, ReservedBeforeIssued
      <4>3. QED
        BY <4>1, <4>2
    <3>2. CASE pc' = "down"
      BY <3>2 DEF CountersAhead
    <3>3. CASE Quiet
      BY <1>4, <3>3 DEF Quiet, CounterInv, CountersAhead
    <3>4. QED
      BY <1>4, <3>1, <3>2, <3>3
  <2>4. QED
    BY <1>1, <1>2, <2>1, <2>2, <2>3 DEF CounterInv
<1>5. CASE Issues
  <2>1. pc # "down" /\ counter' = counter + 1
    BY <1>5 DEF Issues
  <2>2. \A i \in 1..Len(issued) : issued[i].counter < counter
    BY <2>1 DEF CounterInv, CountersAhead
  <2>3. /\ Len(issued') = Len(issued) + 1
        /\ \A i \in 1..Len(issued) : issued'[i] = issued[i]
        /\ issued'[Len(issued')].counter = counter
        /\ \A i \in 1..Len(issued') : i \in 1..Len(issued) \/ i = Len(issued')
    BY <1>5, IssuedEntry
  <2>4. counter < durable'.next_allocated_block
    <3>1. CASE pc = "ready" /\ counter < limit /\ UNCHANGED disk
      BY <1>3, <3>1 DEF CounterInv, BlockOfLife, disk
    <3>2. CASE pc = "dirsync" /\ durable' = cached
      BY <1>3, <3>2 DEF CounterInv, BlockOfLife, Persisting
    <3>3. QED
      BY <1>5, <3>1, <3>2 DEF Issues
  <2>5. BlocksOnDisk'
    <3> SUFFICES ASSUME NEW i \in 1..Len(issued')
                 PROVE  issued'[i].counter < durable'.next_allocated_block
      BY <1>2 DEF BlocksOnDisk, ReservedBeforeIssued
    <3>1. CASE i \in 1..Len(issued)
      BY <1>3, <2>2, <2>3, <2>4, <3>1
    <3>2. CASE i = Len(issued')
      BY <2>3, <2>4, <3>2
    <3>3. QED
      BY <2>3, <3>1, <3>2
  <2>6. CountersAhead'
    <3> SUFFICES ASSUME NEW i \in 1..Len(issued')
                 PROVE  issued'[i].counter < counter + 1
      BY <2>1 DEF CountersAhead
    <3>1. CASE i \in 1..Len(issued)
      BY <1>3, <2>2, <2>3, <3>1
    <3>2. CASE i = Len(issued')
      BY <1>3, <2>3, <3>2
    <3>3. QED
      BY <2>3, <3>1, <3>2
  <2>7. CountersNeverReused'
    <3> SUFFICES ASSUME NEW i \in 1..Len(issued'), NEW j \in 1..Len(issued'), i < j
                 PROVE  issued'[i].counter < issued'[j].counter
      BY DEF CountersNeverReused
    <3>1. i \in 1..Len(issued)
      BY <2>3
    <3>2. CASE j \in 1..Len(issued)
      BY <2>3, <3>1, <3>2 DEF CounterInv, CountersNeverReused
    <3>3. CASE j = Len(issued')
      BY <2>2, <2>3, <3>1, <3>3
    <3>4. QED
      BY <2>3, <3>2, <3>3
  <2>8. QED
    BY <1>1, <1>2, <2>5, <2>6, <2>7 DEF CounterInv
<1>6. QED
  BY <1>4, <1>5, HistoryStep

\* As long as the disk takes every write, a counter is on disk before it is
\* issued, and no counter is issued twice over all lives of the daemon.
THEOREM CountersUnique ==
  Spec => []CountersSafeUntilPersistFails
<1> DEFINE Inv == failures = {} => CounterInv
<1>1. Init => Inv
  BY InitInvs
<1>2. Inv /\ [Next]_vars => Inv'
  <2> SUFFICES ASSUME Inv, [Next]_vars, failures' = {}
               PROVE  CounterInv'
    OBVIOUS
  <2>1. failures = {}
    BY FailuresGrow
  <2>2. QED
    BY <2>1, CounterStep
<1>3. Inv => CountersSafeUntilPersistFails
  BY DEF CounterInv, BlocksOnDisk, CountersSafeUntilPersistFails
<1>4. QED
  BY <1>1, <1>2, <1>3, PTL DEF Spec
=============================================================================
