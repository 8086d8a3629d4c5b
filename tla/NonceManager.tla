---------------------------- MODULE NonceManager ----------------------------
(***************************************************************************)
(* The persistent counter of apps/gibberish-daemon/src/nonce.rs: a daemon   *)
(* reserves blocks of message counters in nonce_state.json (temporary file  *)
(* + fsync, rename, fsync of the directory) and hands them out one by one.  *)
(* The machine may lose power and the process may be killed between any two *)
(* steps; the wall clock may be set back; persisting may return an error (a *)
(* full disk, a read-only file system).                                     *)
(***************************************************************************)
EXTENDS Naturals, Sequences

CONSTANTS
  BlockSize,  \* NONCE_BLOCK_SIZE
  IdSpace,    \* 2^16: how many counters the wire message id can tell apart
  MaxClock,   \* bound: the wall clock stays in 0..MaxClock
  MaxStarts,  \* bound: how often the daemon is started
  MaxIssued   \* bound: how many counters are handed out

ASSUME BlockSizeAssumption == BlockSize \in Nat \ {0}
ASSUME BoundsAssumption == IdSpace \in Nat \ {0} /\ MaxClock \in Nat /\ MaxStarts \in Nat /\ MaxIssued \in Nat

VARIABLES
  clock,    \* seconds since the epoch, as the operating system reports them
  starts,   \* how often the daemon was started (counts against MaxStarts)
  pc,       \* where the process is; "down" when there is none
  caller,   \* which function called persist_block_reservation
  epoch, counter, limit,  \* current_epoch, current_counter, block_limit
  cached,   \* nonce_state.json as processes see it
  durable,  \* nonce_state.json as a power loss leaves it at worst
  issued,   \* history: what allocate_msg returned, oldest first
  failures  \* history: "persist" once persist_block_reservation has returned an error,
            \* "dirsync" once it has ignored one of the directory fsync

manager == <<caller, epoch, counter, limit>>
disk == <<cached, durable>>
vars == <<clock, starts, pc, manager, disk, issued, failures>>

\* The contents of nonce_state.json; a missing file reads as zero (nonce.rs:42-53).
DiskState == [last_persisted_epoch : Nat, next_allocated_block : Nat]
NoFile == [last_persisted_epoch |-> 0, next_allocated_block |-> 0]
Reservation == [last_persisted_epoch |-> epoch, next_allocated_block |-> limit]

Persisting == {"write", "rename", "dirsync"}

\* The fields have their types, the counter never passes the limit of its block, and
\* a block being reserved has counters to give (allocate_msg relies on it, nonce.rs:113-124).
TypeOK ==
  /\ clock \in Nat /\ starts \in Nat
  /\ pc \in {"down", "ready"} \cup Persisting
  /\ caller \in {"new", "allocate_msg"}
  /\ epoch \in Nat /\ counter \in Nat /\ limit \in Nat
  /\ counter <= limit /\ (pc \in Persisting => counter < limit)
  /\ cached \in DiskState /\ durable \in DiskState
  /\ issued \in Seq([epoch : Nat, counter : Nat]) /\ failures \subseteq {"persist", "dirsync"}

Init ==
  /\ clock \in 0..MaxClock /\ starts = 0
  /\ pc = "down" /\ caller = "new"
  /\ epoch = 0 /\ counter = 0 /\ limit = 0
  /\ cached = NoFile /\ durable = NoFile
  /\ issued = <<>> /\ failures = {}

\* Faulty variant: an epoch that was used already is taken again.
SafeEpochRepeats(file) == IF clock < file.last_persisted_epoch THEN file.last_persisted_epoch ELSE clock

\* Faulty variant: the clock is believed.
SafeEpochUnprotected(file) == clock

\* epoch = max(wall clock, last persisted epoch + 1).
SafeEpoch(file) == IF clock <= file.last_persisted_epoch THEN file.last_persisted_epoch + 1 ELSE clock
StartCounter(file) == file.next_allocated_block

\* NonceManager::new up to its call of persist_block_reservation.
New ==
  /\ pc = "down" /\ starts < MaxStarts
  /\ starts' = starts + 1
  /\ epoch' = SafeEpoch(cached)
  /\ counter' = StartCounter(cached)
  /\ limit' = StartCounter(cached) + BlockSize
  /\ pc' = "write" /\ caller' = "new"
  /\ UNCHANGED <<failures, clock, disk, issued>>

\* What allocate_msg returns: the counter, which is then advanced.
Issue ==
  /\ issued' = Append(issued, [epoch |-> epoch, counter |-> counter])
  /\ counter' = counter + 1

\* Faulty variant: one counter more is taken from each block.
InBlockLate == counter <= limit

InBlock == counter < limit

\* allocate_msg inside the reserved block.
AllocateFromBlock ==
  /\ pc = "ready" /\ Len(issued) < MaxIssued
  /\ InBlock
  /\ Issue
  /\ UNCHANGED <<failures, clock, starts, pc, caller, epoch, limit, disk>>

\* allocate_msg at the end of the block: the limit moves before it is persisted.
AllocateReserve ==
  /\ pc = "ready" /\ Len(issued) < MaxIssued
  /\ ~InBlock
  /\ limit' = limit + BlockSize
  /\ pc' = "write" /\ caller' = "allocate_msg"
  /\ UNCHANGED <<failures, clock, starts, epoch, counter, disk, issued>>

\* persist_block_reservation: the temporary file is written and synced.
WriteTmp ==
  /\ pc = "write" /\ pc' = "rename"
  /\ UNCHANGED <<failures, clock, starts, manager, disk, issued>>

\* persist_block_reservation: the temporary file replaces nonce_state.json.
Rename ==
  /\ pc = "rename" /\ pc' = "dirsync"
  /\ cached' = Reservation
  /\ UNCHANGED <<failures, clock, starts, manager, durable, issued>>

\* Opening, writing, syncing or renaming fails.  new passes the error to main,
\* which exits; allocate_msg returns it and keeps the limit it has moved.
PersistFails ==
  /\ pc \in {"write", "rename"}
  /\ failures' = failures \cup {"persist"}
  /\ pc' = IF caller = "new" THEN "down" ELSE "ready"
  /\ UNCHANGED <<clock, starts, manager, disk, issued>>

\* Faulty variant: the function returns before the directory is synced.
DirSyncSkipped ==
  /\ pc = "dirsync" /\ pc' = "ready"
  /\ IF caller = "new" THEN UNCHANGED <<counter, issued>> ELSE Issue
  /\ UNCHANGED <<failures, clock, starts, caller, epoch, limit, cached, durable>>

\* The directory is synced and the caller goes on: new returns, allocate_msg
\* issues.
DirSync ==
  /\ pc = "dirsync" /\ pc' = "ready"
  /\ durable' = cached
  /\ IF caller = "new" THEN UNCHANGED <<counter, issued>> ELSE Issue
  /\ UNCHANGED <<failures, clock, starts, caller, epoch, limit, cached>>

\* The directory cannot be opened or synced, which the code ignores: the caller
\* goes on, and the rename may still be lost with the power.
DirSyncFails ==
  /\ pc = "dirsync" /\ pc' = "ready"
  /\ failures' = failures \cup {"dirsync"}
  /\ IF caller = "new" THEN UNCHANGED <<counter, issued>> ELSE Issue
  /\ UNCHANGED <<clock, starts, caller, epoch, limit, disk>>

\* The process dies, its memory with it; the operating system stays up.
Kill ==
  /\ pc # "down" /\ pc' = "down"
  /\ caller' = "new" /\ epoch' = 0 /\ counter' = 0 /\ limit' = 0
  /\ UNCHANGED <<failures, clock, starts, disk, issued>>

\* Power is lost: the rename may or may not have reached the disk.
PowerLoss ==
  /\ pc' = "down"
  /\ caller' = "new" /\ epoch' = 0 /\ counter' = 0 /\ limit' = 0
  /\ \E file \in {cached, durable} : cached' = file /\ durable' = file
  /\ UNCHANGED <<failures, clock, starts, issued>>

\* The wall clock advances or is set back.
SetClock ==
  /\ clock' \in 0..MaxClock
  /\ UNCHANGED <<failures, starts, pc, manager, disk, issued>>

\* What the process does, or what is done to it alone.
Process ==
  \/ New \/ AllocateFromBlock \/ AllocateReserve
  \/ WriteTmp \/ Rename \/ DirSync \/ DirSyncFails \/ PersistFails
  \/ Kill

Next == Process \/ PowerLoss \/ SetClock

Spec == Init /\ [][Next]_vars

-----------------------------------------------------------------------------
\* Properties.

\* Every counter handed out lies below the reservation that a power loss at this
\* very moment would leave on disk (nonce.rs:113-114, plan R6).  This is false once
\* persisting has failed: the limit then stays ahead of the disk.
ReservedBeforeIssued ==
  \A i \in 1..Len(issued) : issued[i].counter < durable.next_allocated_block

\* Counters strictly increase over all lives of the daemon, so that none is
\* handed out twice whatever kills, power losses and clock steps come between.
CountersNeverReused ==
  \A i, j \in 1..Len(issued) : i < j => issued[i].counter < issued[j].counter

\* Both hold as long as no attempt to persist has met an error.
CountersSafeUntilPersistFails == failures = {} => ReservedBeforeIssued /\ CountersNeverReused

\* The epoch never runs backwards over all lives, even if the clock does and even
\* when persisting fails, unless the fsync of the directory failed unnoticed.
EpochsNeverRollBack ==
  "dirsync" \notin failures => \A i, j \in 1..Len(issued) : i < j => issued[i].epoch <= issued[j].epoch

\* Likewise no (epoch, counter) pair is handed out twice: a life that could not
\* reserve its next block still owns its epoch.
PairsNeverReused ==
  "dirsync" \notin failures => \A i, j \in 1..Len(issued) : i # j => issued[i] # issued[j]

\* The part of the counter that reaches the wire (chunk.rs:71-73) and, with the
\* node id and the chunk index, is all that the cipher's nonce is derived from.
MsgId(c) == c % IdSpace

\* No two messages of a node share a message id, hence none share a cipher nonce
\* (plan SC2: "Zero ChaCha20-Poly1305 nonce collisions").  As long as persisting meets no
\* error counters do not repeat (CountersSafeUntilPersistFails), so that two ids can only
\* be equal because the counter is cut to the width of the id (chunk.rs:73).
MsgIdsNeverReused ==
  failures = {} =>
    \A i, j \in 1..Len(issued) : i # j => MsgId(issued[i].counter) # MsgId(issued[j].counter)
=============================================================================
