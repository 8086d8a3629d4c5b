------------------------------- MODULE Storage -------------------------------
(***************************************************************************)
(* crates/gibberish-storage/src/fat32_container.rs over the SRAM ring: the  *)
(* firmware flushes the ring to numbered blocks of the SD card, two records *)
(* per tick, with a checkpoint every CheckpointEvery records in one of two  *)
(* sectors, and restarts from the newest valid checkpoint.  Power may be    *)
(* lost and the card pulled between any two block operations; a block that  *)
(* was being written may keep its old content, hold the new one, or be torn *)
(* (which the CRC and the commit marker reveal).  A read or a write may also *)
(* fail on a card that works again later.                                   *)
(***************************************************************************)
EXTENDS BoundedFifo, FiniteSets

CONSTANTS
  CheckpointEvery,  \* 16 records between checkpoints
  LastLba,          \* the last block of the card
  MaxPowerLosses    \* bound on power losses

FirstLba == 10
ASSUME StorageAssumption ==
  /\ CheckpointEvery \in Nat \ {0} /\ LastLba \in Nat /\ LastLba >= FirstLba
  /\ MaxPowerLosses \in Nat
  /\ Packets \subseteq Nat \ {0} /\ NoPacket = 0

VARIABLES
  pc,           \* "off", "idle", or what flush_from_sram writes next
  quota,        \* records this tick may still write
  mode, sequence, lba, tornRecovered,  \* the fields of DynamicStorageManager
  blocks,       \* FirstLba..LastLba -> content
  sectors,      \* the checkpoint sectors, LBA 1 and 2
  inserted,     \* whether the card is in its slot
  losses,       \* power losses so far (counts against MaxPowerLosses)
  received,     \* history: packets pushed into the ring, as the next id
  written, evicted, lost, \* history: packets on record, given up by the ring, lost with the power
  ioErrors      \* history: which accesses have failed on a card that was in its slot

manager == <<mode, sequence, lba, tornRecovered>>
card == <<blocks, sectors>>
history == <<written, evicted, lost>>
vars == <<fifoVars, pc, quota, manager, card, inserted, losses, received, history, ioErrors>>

\* Block contents.  A record holds a packet, a checkpoint holds the head block.
Blank == [kind |-> "blank", sequence |-> 0, holds |-> 0]
Torn == [kind |-> "torn", sequence |-> 0, holds |-> 0]
Valid(s, h) == [kind |-> "valid", sequence |-> s, holds |-> h]
Blocks == FirstLba..LastLba
Contents == [kind : {"blank", "torn", "valid"}, sequence : Nat, holds : Nat]
Queued == {queue[i] : i \in 1..Len(queue)}

\* The fields have their types: a tick writes two records at most, the write position
\* passes the end of the card by no more than one, the ring holds Capacity packets.
TypeOK ==
  /\ pc \in {"off", "idle", "record", "checkpoint"} /\ quota \in 0..2
  /\ mode \in {"RamOnly", "MicroSdActive"} /\ sequence \in Nat /\ tornRecovered \in {0, 1}
  /\ lba \in FirstLba..(LastLba + 1)
  /\ blocks \in [Blocks -> Contents] /\ sectors \in [{1, 2} -> Contents]
  /\ inserted \in BOOLEAN /\ losses \in 0..MaxPowerLosses
  /\ Len(queue) <= Capacity /\ Queued \subseteq Packets
  /\ ioErrors \subseteq {"read", "record", "checkpoint"}

Init ==
  /\ FifoInit
  /\ pc = "off" /\ quota = 0
  /\ mode = "RamOnly" /\ sequence = 0 /\ lba = FirstLba /\ tornRecovered = 0
  /\ blocks = [l \in Blocks |-> Blank] /\ sectors = [s \in {1, 2} |-> Blank]
  /\ inserted \in BOOLEAN /\ losses = 0
  /\ received = 0 /\ written = {} /\ evicted = {} /\ lost = {} /\ ioErrors = {}

\* Faulty variant: the lower sequence wins.
OldestCheckpoint(readable) ==
  LET good == {s \in readable : sectors[s].kind = "valid"} IN
  CHOOSE s \in good : \A t \in good : sectors[s].sequence <= sectors[t].sequence

\* The checkpoint a boot picks: the higher sequence, LBA 1 on a tie.
NewestCheckpoint(readable) ==
  LET good == {s \in readable : sectors[s].kind = "valid"} IN
  CHOOSE s \in good :
    \A t \in good \ {s} : \/ sectors[s].sequence > sectors[t].sequence
                          \/ sectors[s].sequence = sectors[t].sequence /\ s < t

\* sd_driver.rs: the probe fails without a card and may fail with one (main.rs then
\* runs RAM only); after it, a read of a checkpoint sector may fail.
Probe == IF inserted THEN BOOLEAN ELSE {FALSE}
ReadableSectors(probed) == IF probed THEN SUBSET {1, 2} ELSE {{}}

\* What a block holds once write_block has returned an error: the old content if the
\* card refused, a part of the new one, or all of it if only the busy poll timed out.
AfterFailedWrite(old, new) == {old, Torn, new}

\* Boot (main.rs:97-108): without a card, or with neither sector readable, RAM
\* only; otherwise new_with_device picks up at a checkpoint or at the beginning.
Boot ==
  /\ pc = "off" /\ pc' = "idle"
  /\ \E probed \in Probe : \E readable \in ReadableSectors(probed) :
       LET good == {s \in readable : sectors[s].kind = "valid"} IN
       /\ ioErrors' = ioErrors \cup IF inserted /\ readable # {1, 2} THEN {"read"} ELSE {}
       /\ IF readable = {}
            THEN mode' = "RamOnly" /\ sequence' = 0 /\ lba' = FirstLba /\ tornRecovered' = 0
            ELSE /\ mode' = "MicroSdActive"
                 /\ IF good = {}
                      THEN sequence' = 0 /\ lba' = FirstLba
                      ELSE LET c == sectors[NewestCheckpoint(readable)] IN
                           sequence' = c.sequence /\ lba' = c.holds
                 /\ tornRecovered' = IF Cardinality(good) = 1 THEN 1 ELSE 0
  /\ UNCHANGED <<fifoVars, quota, card, inserted, losses, received, history>>

\* The radio or the host delivers a packet (main.rs:454 and 523).
Receive ==
  /\ pc = "idle" /\ received + 1 \in Packets
  /\ received' = received + 1
  /\ FifoPush(received + 1)
  /\ evicted' = evicted \cup ({returned'} \ {NoPacket})
  /\ UNCHANGED <<pc, quota, manager, card, inserted, losses, written, lost, ioErrors>>

\* Faulty variant: a lone packet waits for another.
FlushableInPairs == mode = "MicroSdActive" /\ Len(queue) > 1

Flushable == mode = "MicroSdActive" /\ queue # <<>>

\* flush_from_sram is called, once per tick.
FlushTick ==
  /\ pc = "idle" /\ Flushable
  /\ pc' = "record" /\ quota' = 2
  /\ UNCHANGED <<fifoVars, manager, card, inserted, losses, received, history, ioErrors>>

\* It returns at once in RAM-only mode or when the ring is empty.
FlushNothing ==
  /\ pc = "idle" /\ ~Flushable
  /\ UNCHANGED vars

\* Faulty variant: the limit of two records per tick is not observed.
LoopUntilEmpty(q, rest) == pc' = IF rest = <<>> THEN "idle" ELSE "record"

\* Where the loop of flush_from_sram goes with q records left to write and the
\* packets of rest in the ring.
LoopWith(q, rest) == pc' = IF q = 0 \/ rest = <<>> THEN "idle" ELSE "record"

\* Faulty variant: the packet leaves the ring before the write is known to work.
WriteRecordFailsPopped ==
  /\ pc = "record" /\ ~inserted
  /\ FifoPop
  /\ mode' = "RamOnly" /\ pc' = "idle"
  /\ UNCHANGED <<quota, sequence, lba, tornRecovered, card, inserted, losses, received, history, ioErrors>>

\* One record reaches the card; only then is the packet popped.
WriteRecord ==
  /\ pc = "record" /\ inserted /\ lba <= LastLba
  /\ blocks' = [blocks EXCEPT ![lba] = Valid(sequence + 1, Head(queue))]
  /\ sequence' = sequence + 1 /\ lba' = lba + 1
  /\ written' = written \cup {Head(queue)}
  /\ FifoPop
  /\ quota' = quota - 1
  /\ IF (sequence + 1) % CheckpointEvery = 0 THEN pc' = "checkpoint" ELSE LoopWith(quota - 1, Tail(queue))
  /\ UNCHANGED <<mode, tornRecovered, sectors, inserted, losses, received, evicted, lost, ioErrors>>

\* The write fails (no card, past its end, or a transient error): RAM only.
WriteRecordFails ==
  /\ pc = "record"
  /\ mode' = "RamOnly" /\ pc' = "idle"
  /\ IF inserted /\ lba <= LastLba
       THEN /\ \E c \in AfterFailedWrite(blocks[lba], Valid(sequence + 1, Head(queue))) :
                 blocks' = [blocks EXCEPT ![lba] = c]
            /\ ioErrors' = ioErrors \cup {"record"}
       ELSE UNCHANGED <<blocks, ioErrors>>
  /\ UNCHANGED <<fifoVars, quota, sequence, lba, tornRecovered, sectors, inserted, losses, received, history>>

\* Faulty variant: every checkpoint goes to the same sector.
CheckpointSectorFixed == 1

\* The sector the checkpoint of the current sequence goes to.
CheckpointSector == IF sequence % (2 * CheckpointEvery) = 0 THEN 1 ELSE 2

\* Faulty variant: the checkpoint points at the record written last.
CheckpointOffByOne == Valid(sequence, lba - 1)

Checkpoint == Valid(sequence, lba)

WriteCheckpoint ==
  /\ pc = "checkpoint" /\ inserted
  /\ sectors' = [sectors EXCEPT ![CheckpointSector] = Checkpoint]
  /\ LoopWith(quota, queue)
  /\ UNCHANGED <<fifoVars, quota, manager, blocks, inserted, losses, received, history, ioErrors>>

\* An error of the checkpoint write is ignored.
WriteCheckpointFails ==
  /\ pc = "checkpoint"
  /\ ioErrors' = ioErrors \cup IF inserted THEN {"checkpoint"} ELSE {}
  /\ IF inserted
       THEN \E c \in AfterFailedWrite(sectors[CheckpointSector], Checkpoint) :
              sectors' = [sectors EXCEPT ![CheckpointSector] = c]
       ELSE UNCHANGED sectors
  /\ LoopWith(quota, queue)
  /\ UNCHANGED <<fifoVars, quota, manager, blocks, inserted, losses, received, history>>

\* The card is pulled at any time; one put back is seen by the next boot only.
PullCard ==
  /\ inserted /\ inserted' = FALSE
  /\ UNCHANGED <<fifoVars, pc, quota, manager, card, losses, received, history, ioErrors>>
InsertCard ==
  /\ pc = "off" /\ ~inserted /\ inserted' = TRUE
  /\ UNCHANGED <<fifoVars, pc, quota, manager, card, losses, received, history, ioErrors>>

\* Power is lost: RAM is gone, and a block in flight is old, new or torn.
PowerLoss ==
  /\ pc # "off" /\ losses < MaxPowerLosses
  /\ losses' = losses + 1 /\ pc' = "off" /\ quota' = 0
  /\ lost' = lost \cup Queued
  /\ queue' = <<>> /\ dropped' = 0 /\ returned' = NoPacket
  /\ mode' = "RamOnly" /\ sequence' = 0 /\ lba' = FirstLba /\ tornRecovered' = 0
  /\ blocks' \in {blocks} \cup
       IF pc = "record" /\ inserted /\ lba <= LastLba
         THEN {[blocks EXCEPT ![lba] = c] : c \in AfterFailedWrite(blocks[lba], Valid(sequence + 1, Head(queue)))} ELSE {}
  /\ sectors' \in {sectors} \cup
       IF pc = "checkpoint" /\ inserted
         THEN {[sectors EXCEPT ![CheckpointSector] = c] : c \in AfterFailedWrite(sectors[CheckpointSector], Checkpoint)} ELSE {}
  /\ UNCHANGED <<inserted, received, written, evicted, ioErrors>>

Flush == FlushTick \/ WriteRecord \/ WriteRecordFails \/ WriteCheckpoint \/ WriteCheckpointFails
Next == Boot \/ Receive \/ Flush \/ FlushNothing \/ PullCard \/ InsertCard \/ PowerLoss

Spec == Init /\ [][Next]_vars
\* The main loop calls flush_from_sram on every tick and never leaves it half done.
FairSpec == Spec /\ WF_vars(Flush)

-----------------------------------------------------------------------------
\* A packet that entered the ring is still there, was confirmed on the card, was
\* given up by a full ring, or was lost with the power: falling back to RAM only
\* loses none (fat32_container.rs:265-267, plan R28 and R29).
AccountedFor == 1..received \subseteq Queued \cup written \cup evicted \cup lost

\* While archiving, the blocks below the write position are intact records with
\* consecutive sequence numbers, across power losses, torn blocks and recoveries.
\* (A checkpoint that failed to read at some boot, not a torn one, breaks this:
\* the boot resumes at an older position, and the records after it are rewritten.)
LogHasNoHoles ==
  mode = "MicroSdActive" /\ "read" \notin ioErrors =>
    /\ lba = FirstLba + sequence
    /\ \A l \in Blocks : l < lba => blocks[l].kind = "valid" /\ blocks[l].sequence = l - FirstLba + 1

\* Number and place of a record belong together, whatever failed, reads of checkpoints
\* included: a boot that knows an older checkpoint only (fat32_container.rs:212-234) goes
\* back and writes over newer records, but under the numbers these blocks had, so that
\* no number is ever on the card twice, and the newer checkpoint, should a later boot
\* read it, still says where its log ends.
NumberedByPlace ==
  /\ mode = "MicroSdActive" => lba = FirstLba + sequence
  /\ \A l \in Blocks : blocks[l].kind = "valid" => l = FirstLba + blocks[l].sequence - 1
  /\ \A s \in {1, 2} : sectors[s].kind = "valid" => sectors[s].holds = FirstLba + sectors[s].sequence

ValidHeads == {sectors[s].holds : s \in {t \in {1, 2} : sectors[t].kind = "valid"}}

\* The newest valid checkpoint only moves forward, whatever write the power loss
\* interrupts: this is what two alternating sectors are for (plan R26).  It holds as
\* long as no checkpoint failed to read at a boot and no write of a checkpoint failed.
CheckpointsMoveForward ==
  [][ioErrors' \subseteq {"record"} => \A h \in ValidHeads : \E g \in ValidHeads' : g >= h]_vars

\* A record that some valid checkpoint covers is never overwritten, unless a checkpoint
\* failed to read at some boot (or the card failed to answer at all there): the boot
\* then resumes at an older position, below the newer checkpoint.
CheckpointedRecordsKept ==
  [][ "read" \notin ioErrors' =>
        \A h \in ValidHeads : \A l \in Blocks : l < h => blocks'[l] = blocks[l] ]_vars

\* Every packet leaves the ring, unless archiving stops.
Drained ==
  \A p \in Packets : p \in Queued ~> (p \notin Queued \/ mode = "RamOnly")

\* Recovery finds the head of the log: with no I/O error at all, no intact record
\* lies at or beyond the position where writing resumes (plan R26: the scan for the
\* log head).
RecoversHead ==
  mode = "MicroSdActive" /\ ioErrors = {} => \A l \in Blocks : l >= lba => blocks[l].kind # "valid"

\* Archiving only stops when the card is gone or fails (fat32_container.rs:265-267),
\* not because the container is full: it is circular (plan R8).
StopsOnlyWithoutCard == pc = "idle" /\ mode = "RamOnly" /\ ioErrors = {} => ~inserted

\* Once a checkpoint is on the card, some valid checkpoint stays on it.
CheckpointSurvives ==
  [][ValidHeads # {} => ValidHeads' # {}]_vars
=============================================================================
