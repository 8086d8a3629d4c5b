# Gibberish in TLA+

Models, model checks and machine-checked proofs about Gibberish: USB dongles
(ESP32-C5, IEEE 802.15.4) that flood encrypted 114-byte frames through a mesh, and
the host daemons that use them to keep clipboards alike. Everything here is
translated from the Rust source; `PROJECT.json` maps each definition to its lines.

Paths below are relative to the repository: *daemon* is `apps/gibberish-daemon/src`,
*firmware* is `apps/gibberish-firmware/src`. "Plan" is one of the two requirement
documents `docs/plans/2026-09-21-1532-feature-gibberish-mesh-plan.md` (the mesh) and
`docs/plans/2026-09-23-1145-feat-encrypted-clipboard-and-messaging-sync-plan.md`
(clipboard and messages).

## The system

```
 user's clipboard --> daemon loop --> USB frames --> dongle loop --> transmit queue --> air
                  <--  (50 ms)    <--  #PKT# lines <-- (5 ms)    <-- filter, relay  <--
                     nonce file                       SRAM ring --> SD card
```

| component | state | operations | what is hard | what makes it correct |
|---|---|---|---|---|
| Nonce manager (daemon/nonce.rs) | epoch, counter, block limit; `nonce_state.json` | start, allocate | power loss between rename and fsync, disk errors, a clock set back | no counter is handed out twice |
| Chunk engine (daemon/chunk.rs) | messages being reassembled, recently completed ones, sent ones | fragment, ingest, SACK poll, SACK answer, SACK suppression, purge | late, repeated, foreign chunks; three timeouts; two limits | bounded, paced, delivered once, completed if losses end |
| Clipboard (daemon/clipboard.rs, main.rs) | last hash, suppressed hash, window | read, write | echoes, a user copying at the same time, failed writes | a broadcast has a copy behind it; no copy is swallowed |
| Serial link (daemon/transport.rs, firmware/main.rs 483-531) | parser state; line buffer | send, parse a byte; print, poll | lost bytes, arbitrary chunking, log lines in between | resynchronises; packets in order, none twice |
| Transmit queue (firmware/radio/ieee802154.rs) | ring of slots, one timer | schedule, tick, overhear, take | holes left by cancelled packets, eviction at the limit | a FIFO of what is pending; no stall; gaps on the air |
| Deduplication filter (firmware/radio/dedup.rs) | two Bloom filters, ring of recent keys | contains, insert | the turn of an epoch | recent keys known, old keys forgotten |
| Mesh relay (firmware/main.rs 194-531) | the above, per dongle | frames from the host, the radio and the button; telemetry | copies by several ways, losses, overhearing, hop limit | once to the host, once on the air, no loop, coverage |
| SRAM ring (crates/gibberish-storage/src/sram_ring.rs) | slots, head, tail, count | push, pop, peek, clear | wrapping, overflow | a bounded queue that gives up its oldest |
| SD archive (crates/gibberish-storage/src/fat32_container.rs) | sequence, write position, two checkpoint sectors | boot, flush | torn blocks, power loss, a pulled card, I/O errors | a log without holes; a checkpoint survives; nothing lost silently |
| Wire format, cryptography (crates/) | none | encode, derive, encrypt | id width | a message id is used once per key |
| TDM arbiter (firmware/radio/coex.rs) | clock, slot, desktop mode | advance, switch the mode | a 5 ms tick against 2 ms slots; a queue whose timer stands still in the other slot | no packet stuck, gaps kept |
| BLE gate (firmware/radio/ble_gate.rs) | state, PIN, time left, bonded | request, button, tick, reset | a press against the timeout and against a newer request | a bond only by a press in time, for the PIN shown |
| Peer table (crates/gibberish-protocol/src/frame.rs 485-625) | four slots | record, look up | recency without a clock, eviction | the latest peers, in order, none twice |
| Push command (daemon/main.rs 182-210) | a second nonce manager | allocate, send | a daemon with the same file | no counter handed out by both |
| Fleet sink (daemon/fleet.rs, bin/gibberish_sink.rs) | latest telemetry line per node | parse, log, render | | not modelled |

The daemon is one async task and the firmware one loop without interrupts, so within
one machine the steps of the models are the turns of these loops. What interleaves is:
machines with each other and with the medium, users with daemons, the serial port with
both ends, and power losses, kills and card removals with everything, down to
single block writes and single system calls.

## Modules

| module | models | state and actions against the code |
|---|---|---|
| `NonceManager` | nonce.rs | `epoch, counter, limit` are the struct's fields; `cached` and `durable` are the file as processes see it and as a power loss leaves it. `persist_block_reservation` is three steps (`WriteTmp`, `Rename`, `DirSync`) that may fail (`PersistFails`; `DirSyncFails` is ignored by the code) |
| `BoundedFifo`, `SramRing` | sram_ring.rs | the promise, and the array with its cursors that keeps it |
| `Storage` | fat32_container.rs over `BoundedFifo`; firmware/storage/sd_driver.rs by its outcomes | one action per block read or written; `pc` is the position in `flush_from_sram` |
| `ChunkOps` | chunk.rs as operators on a record of the three tables | used by the next two |
| `ChunkEngine` | one engine in an arbitrary environment | `Receive` is `ingest_packet`, `PollSacks` `check_pending_sacks`, `Overhear` `suppress_sack` |
| `ChunkTransfer` | a sender and two receivers, each behind a dongle that filters and relays | `Send`, `Transmit`, `HearChunk`, `HearSack`, `PollSacks` are the daemon's loop (main.rs 230-368); `unsent` and `awaiting` say where it is in the loop over the chunks, with a sleep after each, in which it reads nothing (`Busy`); `DropKnown`, `Accept` and `Relayed` what a dongle does first (firmware/main.rs 419-464): `seen` is its filter as far as this message goes, and `Forget` what other traffic does to it |
| `NonceShared` | the daemon's manager and that of a push command (daemon/main.rs 118, 182-210) | two instances of `NonceManager` over one file and one clock |
| `TxOps`, `TxPending`, `TxQueue` | `BackoffController` | queue operators; the promise; the ring of slots with its timer |
| `RadioLoop` | coex.rs and the part of the firmware's loop it directs | `Turn` is `advance` followed by the queue in the mesh slot and by nothing in the others; `FromMesh` and `FromHost` are the rest of a turn |
| `Dedup` | dedup.rs | hashing is a constant function from keys to bits |
| `PeerTable` | `PeerTable` of frame.rs, firmware/main.rs 342-356 | the array as it is shifted; history: the order of contacts as a clock would have it |
| `BleGate` | ble_gate.rs | `GateTurn` is a press, if any, and the tick, in the loop's order |
| `MeshFlood` | the dongles' loops and what the daemons answer | queue and filter by their contents; `Transmit` reaches any subset of the neighbours |
| `ClipboardSync` | clipboard.rs and its part of the loop | a hash is the text it was made from |
| `UsbFramer`, `LineBuffer` | both directions of the serial port | byte by byte |
| `DongleParts` | `SramRing`, `Dedup`, `PeerTable`, `BleGate`, `UsbFramer`, `LineBuffer` in one specification | a behaviour exercises one part |
| `NonceManagerProofs`, `StorageProofs`, `ChunkEngineProofs`, `ChunkTransferProofs`, `MeshFloodProofs`, `RadioLoopProofs`, `ClipboardSyncProofs`, `DonglePartsProofs` | | theorems, below |
| `MC...` | | values of constants for TLC |

How they compose: `Storage` extends `BoundedFifo`, which `SramRing` is shown to
implement, so the archive is checked over the promise of the ring and not over its
array. `TxQueue` has the operations of the queue, `RadioLoop` extends it with the time
slots that decide when they happen and is shown to implement `TxPending`; `MeshFlood`
uses the same operators (`TxOps`) for its queues. `ChunkTransfer` puts the engines of
`ChunkOps` behind dongles that filter by the keys of `Dedup` (by their contents) and
relay once, over a lossy medium; `MeshFlood` has the topologies and the queues,
with daemons reduced to what they answer. `ClipboardSync` replaces both by messages
that arrive whole or not at all. `NonceShared` instantiates `NonceManager` twice.
`DongleParts` extends the modules of those parts of a dongle that share no variable:
what one of them does cannot depend on another, so a behaviour exercises one part,
chosen at the start, and one run checks them all.

Each module ends with its properties. Definitions marked "Faulty variant" are
changes that a plausible bug would make to the definition below them; replacing that
definition by the variant makes the property named in `PROJECT.json` fail, which
shows that the property says something about the code.

## Runs

`tlc -config X.cfg M`; every run is exhaustive within its bounds.

| run | distinct states | bounds, and why they suffice |
|---|---|---|
| `nonce` | 71 thousand | blocks of 2, 3 starts, 5 counters, a clock of 3 values: a reservation in the middle of a life, two restarts after it, and the clock behind, at and ahead of the last epoch |
| `chunk_engine` | 416 thousand | 2 messages per sender, 3 in the table, 5 messages of 2 senders, 4 frames; time in units, timeouts of 1 or 2: both limits are reached by one frame |
| `chunk_transfer` | 478 thousand | 2 chunks, sent one by one with a sleep after each that may take a unit of time, 2 receivers, 1 loss among recovery frames against 2 SACKs per receiver, 1 relayed frame, filters forgetting twice; every first transmission may be lost. Entries live for 7 units, which is both SACKs and their answers |
| `mesh` | 307 thousand | 3 dongles in a row, in a triangle, and in a triangle with one bad link; 2 chunks, queues of 2 (a chunk that meets a beacon fills one), losses, SACKs, beacons and telemetry bounded by `MaxEvents` together. Chunks and SACKs have their real TTLs (7 and 5), the beacon's is 1 instead of 3 |
| `radio_loop` | 99 thousand | 3 slots instead of 8, jitters 2-3 with gap 2 in ticks, a cycle of 4 turns of which 3 are the mesh's; arrivals are unbounded, desktop mode is switched at any time |
| `dongle_parts` | 550 thousand | ring: 4 slots, 3 packets, so that the cursors go round independently, and an overflow counter that saturates at 2. Filter: 6 keys, epochs of 3 instead of 512, a ring of 2 instead of 64, one key whose bits two others cover. Peers: the real 4 slots and 5 peers, counts that saturate at 2. Gate: 2 PINs, 6 turns until the timeout. Serial port: 3 frames with 2 bytes lost anywhere; 4 lines, a limit of 6 bytes, packet lines and a log line longer than the limit, any chunking |
| `storage` | 261 thousand | ring of 3, 6 packets, a checkpoint every 2 records, 6 blocks, 2 power losses: three checkpoints, so that each sector is rewritten, and a crash during recovery from a crash |
| `clipboard` | 1.1 million | 2 hosts, one of them with two dongles, 2 texts, 2 copies, 1 mishap (a write that does not show, a failed encryption, a restart) |

What they show:

- `nonce`: counters are reserved on disk before they are issued and never repeat, until
  persisting fails. Even then (epoch, counter) pairs do not repeat, because a life that
  could start owns its epoch on disk; the one exception is a directory fsync whose
  error the code ignores.
- `dongle_parts`: the ring is a bounded queue (`RefinesFifo`; the promise is stated in
  `BoundedFifo`). The filter remembers at least the last Threshold + 1 insertions and
  knows nothing that is not covered by the last 2 * Threshold. The peer table is what it
  would be with a clock: the latest four peers in the order of their last contact, each
  with its frames since it came in (`LatestPeers`). A bond comes of a press within the
  timeout of the request whose PIN is shown (`GrantedInTime`). On the serial port a
  frame that lost no byte, after one that lost none, is accepted as sent; what else is
  accepted is a damaged frame completed by the next one; packet lines come out in order,
  once, uncut, unless the limit dropped them. This is for payloads without the
  three bytes AA 55 72 in a row: a parser that has lost its place may take such bytes for
  a header (`UsbFramer_glitch.cfg` with `FrameData <- AnyBytes` and the invariant
  `Resynchronises` shows it), and then the resynchronisation takes longer.
- `storage`: a packet is in the ring, on the card, overwritten by overflow or lost with
  the power, never forgotten on the way to RAM-only mode (`AccountedFor`); the log below
  the write position has no holes (`LogHasNoHoles`); checkpoints only move forward
  (`CheckpointsMoveForward`) and what they cover is not overwritten
  (`CheckpointedRecordsKept`); and the ring drains (`Drained`). `LogHasNoHoles`,
  `CheckpointsMoveForward` and `CheckpointedRecordsKept` hold as long as no checkpoint
  failed to read at some boot, the second also as long as no write of a checkpoint failed,
  and say so. What survives a failed read too is `NumberedByPlace`: the boot goes back
  and newer records are rewritten, but under the numbers their blocks had, so no number
  is on the card twice.
- `chunk_engine`: limits hold, a message makes room at the cost of one other at most,
  expired assemblies are never continued, completed messages do not start again, and
  SACKs keep their distance.
- `chunk_transfer`: `DeliveredOnce`, although frames are relayed, filters forget and
  chunks come again, also in answer to a SACK that came while the sender was still sending
  and waited to be read; and `Recovers`: a receiver that has heard of a message gets all of
  it if fewer recovery frames are lost than it may send SACKs, unless some dongle has
  dropped a frame that its daemon lacked. The losses of first transmissions are not
  limited. What the exception is worth is the run `transfer_recovery`: without it
  the property fails after a single loss, because the sender's own dongle takes every
  SACK for a chunk it has seen.
- `mesh`: `OnceToHost`, `RelayedOnce`, `NoLoops`; and `Covered`: when everything has
  come to rest a chunk has reached every node or was cut short for one of five reasons
  the model names: lost, evicted, cancelled, refused (bad link or TTL), or taken for a
  duplicate of another frame.
- `clipboard`: a broadcast is accounted for by a copy, a start on a clipboard that held
  something, or a write that did not show; the suppression window delays a copy but
  never swallows it.
- `radio_loop`: `RefinesPending` (order, cancellation, eviction, telemetry only without
  user traffic), a minimal gap between transmissions and no stall (`HeadMovesOn`),
  although the queue's timer stands still outside of the mesh slot, so that the clock must
  come back to it however often desktop mode is switched.

### Disagreements

Four runs are expected to find a violation:

- `nonce_idwrap`: message ids, hence cipher nonces, repeat after 65,536 messages. The
  property asks this only of behaviours in which persisting never failed, so that nothing
  but the 16 bits can violate it: in the trace one life counts once round the ids.
- `nonce_shared`: a daemon reserves its next block from memory, over the block that a
  push command has got from the file meanwhile.
- `transfer_recovery`: a SACK has the key of chunk 0 of its message, so the sender's own
  dongle drops it, and a lost chunk is never sent again.
- `radio_guard`: with the real times, the 5 ms clock never meets a 2 ms guard band.

The other configurations below violate what a comment or a plan says too; they are
not part of the runs, and any of them can be repeated with `tlc -config X.cfg M`.
`PROJECT.json` quotes the sentences under "findings".

| configuration (module) | property | what happens |
|---|---|---|
| `NonceManager_unreserved.cfg` (`NonceManager`) | `ReservedBeforeIssued` | the limit moves before the reservation is on disk; after an error, counters are issued that are not reserved |
| `Storage_head.cfg` (`Storage`) | `RecoversHead` | boot resumes at the checkpoint, over the records written after it |
| `Storage_full.cfg` (`Storage`) | `StopsOnlyWithoutCard` | a full card ends archiving; the container is not circular |
| `Storage_sectors.cfg` (`Storage`) | `CheckpointSurvives` | failed checkpoint writes on both sectors leave none valid |
| `ChunkEngine_evict.cfg` (`MCChunkEngine`) | `EvictedForAuthenticOnly` | a packet that does not decrypt evicts a message in progress |
| `ChunkEngine_stale.cfg` (`MCChunkEngine`) | `StaleForgotten` | expired messages stay while nothing arrives |
| `MeshFlood_source.cfg` (`MCMeshFlood`) | `SourceIsSender` | relayed chunks carry the relay's address, so the receiver derives the wrong key |
| `MeshFlood_cancel.cfg` (`MCMeshFlood`) | `CancelledWasRedundant` | a node behind the cancelled relay is cut off |
| `ClipboardSync_dongles.cfg` (`ClipboardSync`) | `NoEchoOverCopy` | a daemon with two dongles writes its own message over a newer copy of its user |
| `ClipboardSync_echo.cfg` (`ClipboardSync`) | `EchoesHalted` | after a failed write the old text is broadcast again |
| `RadioLoop_backoff.cfg` (`RadioLoop`) | `WaitsItsBackoff` | a packet behind a hole goes out without a backoff of its own |
| `RadioLoop_telemetry.cfg` (`RadioLoop`) | `PreemptsTelemetry` | queued telemetry goes before later user traffic |
| `UsbFramer_glitch.cfg` (`MCUsbFramer`) | `GlitchesDrop` | a damaged frame is accepted and broadcast, the next one swallowed |
| `LineBuffer_limit.cfg` (`LineBuffer`) | `OnlyLongLinesDropped` | the line limit drops a valid line when several lines are buffered |

## Fairness

Safety needs none. Liveness is checked under weak fairness only:

- `Storage`: of the flush, which the main loop calls on every tick and which does not
  wait for anything. Boots and cards need not come back; `Drained` allows RAM-only mode.
- `ChunkTransfer`: of caching the message and of transmitting each chunk, of hearing a
  frame that is in the air (or losing it), the daemon's polls (every 50 ms) and time. Time
  does not pass a due SACK or a due chunk, since several turns of the loop, and the 30 ms
  after a chunk, fit into one unit; nor a frame in the air whose daemon can read it. The
  sender's daemon reads when it has sent its last chunk, which time and transmitting bring
  about. Nothing is
  assumed of relays and of filters that forget.
- `ClipboardSync`: of each daemon's read and of the end of its window. Neither users
  nor the mesh are fair.
- `RadioLoop`: of the turn, since the firmware's loop never ends. Arrivals are not fair
  and unbounded, and so are switches of desktop mode.

Deadlock is checked everywhere: where a model may come to rest, an explicit action
(`Quiet`, `FlushNothing`, `ReadNothing`, ...) says under which condition.

## Proofs

TLC checks small instances; the theorems hold for all values of the constants.
`tlapm M.tla` checks them.

`NonceManagerProofs`, assuming only that the block size is positive and the bounds are
numbers:

- `TypeCorrect`: the types, and that the counter never passes its limit.
- `PairsUnique`: `PairsNeverReused` and `EpochsNeverRollBack`. They are not inductive:
  a fresh life must find an epoch on disk that is at least every epoch issued. `EpochInv`
  says where that epoch is at each point of `persist_block_reservation`, that the
  history is ordered by (epoch, counter), and that what this life issued lies below
  its counter. It survives disk errors: a life whose first reservation failed has
  exited, and one whose later reservation failed keeps its epoch.
- `CountersUnique`: `CountersSafeUntilPersistFails`. `CounterInv` relates the block in
  memory to the block on disk at each point (`BlockOfLife`). It is false after an
  error, which is the finding above, hence the hypothesis `failures = {}`.

Both inductions use one lemma on what any step does to the history (`HistoryStep`).

`StorageProofs`, for any size of card, interval between checkpoints, capacity of the
ring and number of power losses:

- `TypeCorrect`, `NoneForgotten` (`AccountedFor`), `LogWhole` (`LogHasNoHoles`) and
  `CoveredKept` (`CheckpointedRecordsKept`) follow from `ArchiveInv`; the last two except
  where a checkpoint failed to read. The log below the
  write position is whole only because every valid checkpoint says where its own log
  ends and none says more than the write position (`Log`): this is what a boot finds.
- `NumbersHold` (`NumberedByPlace`) is inductive with `ArchiveInv` and excepts nothing: a
  boot takes number and place from the same checkpoint, and a step that writes moves both.
- `MovesForward` (`CheckpointsMoveForward`) needs `Alternates` on top: checkpoints are
  numbered by their sequence, a checkpoint's number says in which sector it is, and the
  one that is due is the successor of the latest on the card. Hence the sector that a
  torn write spoils is never the latest one (`OtherIsLater`), also after a recovery.

`MeshFloodProofs`, assuming that the dongles are finitely many and that none hears
itself, for any topology, any TTLs and queues of any capacity:

- `TypeCorrect`, `ToldOnce` (`OnceToHost`), `NoStorm` (`RelayedOnce`) and `HopsBounded`
  (`NoLoops`) follow from `MeshInv`: what a dongle holds in its queue it remembers, it
  queues a key for relaying when it first remembers it and never again, and a frame has
  made fewer hops than there are dongles that know its key (`Seers`), since every hop
  adds one. The queue operators of `TxOps` enter by what they do to a sequence
  (`ScheduleAdds`, `CancelKeeps` and others), not by their definitions.
- `FloodCovers` (`Covered`) needs more: `CoverInv` says of each chunk that its flood is
  on record as cut short, or that from every dongle that has it, it is on its way to each
  neighbour (with the host, in the queue or in the air) or there already. Each action
  moves it on along that way or leaves a record. At rest nothing is on its way, so the
  dongles that have a chunk are closed under being a neighbour. The theorem is about
  placements in which every dongle can be reached from the origin (`Connected`; TLC
  evaluates that this is so of the runs' placements), and about a `Hole` that is no packet.

`RadioLoopProofs`, for any capacity, jitter and layout of the cycle:

- `TypeCorrect`: the cursors, the count and the slots of the ring agree (`QueueShape`).
- `SpacedOut` (`Spaced`): `Timing` says that, while something is pending, the time since
  the last transmission and the time left on the timer make up the smallest jitter.
- `LoopRefinesPending` (`RefinesPending`): one lemma per operation shows that the ring,
  read from the head, changes as the abstract queue does.

`DonglePartsProofs` has the six parts of a dongle in a section each, and then the dongle
they make up. Of the parts:

- The ring, for any capacity: `RingTypes`, and `RingRefinesFifo` (`RefinesFifo`), the
  promise on which `Storage` is built.
- The filter, assuming that the ring of recent keys is no larger than an epoch, for any
  hash function: `RemembersTheLatest` (`Remembered`) by `Window`, which says what the
  epochs hold at least, and `ForgetsTheOldest` (`ForgetsInTime`) by `Covered`, which says
  what they hold at most. `RingIsRecent` says that a slot of the ring was filled as many
  insertions ago as it is slots behind the head, so that the ring never knows more than
  the filter (but for the key (0, 0) it starts with).
- The gate, for any timeout: `BondsInTime` (`GrantedInTime`), because what is left of the
  timeout and the age of the request make up the timeout while the gate waits.
- The peer table, for any number of slots and nodes: `TableIsLatest` (`LatestPeers`).
  `TableInv` says that the slots in use are the end of the order of contacts, which a
  clock would give, each with its tally, and that the tallies of all others are zero. The
  three cases of `record_peer` (known, new with room, new without) each shift the table
  as `ByContact` shifts the order.
- Lines to the host, for any limit, any lengths of lines and any partition into reads:
  `PacketsInOrder` (`PacketsReturned`). The invariant is about the stream that the line
  buffer and the unread bytes make together: its lines are in order and in one piece, each
  begins in it or has been cut and each ends in it (`Ordered`, `Begun`, `Ended`), and
  every packet is in it, cut or returned (`AllThere`). Reading does not change the stream,
  and what a poll takes off its front ends with a newline.
- Frames to the dongle, for any length of packet: `DamageIsExplained` (`DamageExplained`)
  for all payloads, because a packet that begins with the tag of a frame has all bytes
  behind it, or its frame has lost one. `ResynchronisesAtOnce` (`Resynchronises`)
  assumes that no payload holds AA 55 72 in a row (`HeaderFree`), without which the
  property is false (see `UsbFramer_glitch.cfg` and "What they show"). `SyncInv` says where
  the parser is while a whole frame comes: in step with it, taking its beginning for the
  end of an earlier packet, or looking for a header in the rest of it. A whole frame
  behind a whole one always finds the parser in step.

Of the dongle: no two parts share a variable, so a behaviour of the dongle is a
behaviour of each part (`EachPart`), hence `TypeCorrect` (`TypeOK`), and
`PartsKeepTheirPromises`, which puts the properties above together, but for
`Resynchronises` and its assumption.

`ChunkEngineProofs`, for any limits, timeouts, messages and packets, assuming only that the
history of ages reaches as far as the SACKs do:

- `TypeCorrect`, `LimitsKept` (`TablesBounded`), `FinishedAreOut` (`FinishedLeaveTheTable`),
  `NoSackStorm` (`SacksPaced`) and `NeverStale` (`NoStaleAssembly`) follow from
  `EngineInv`. The limits are inductive only together and only because room is made in a
  sender's share first and in the table second; `Paced` says that the age of a message is
  at least the first delay, the intervals of the SACKs sent and the time since the last.
- `OneVictim` (`LiveMessagesKept`): after room was made in the sender's share, there is room
  in the table, so the second eviction happens only where the first did not.

`ChunkTransferProofs`, for any number of receivers and chunks, any latency, losses, relays
and forgetful filters:

- `TypeCorrect`: what a daemon holds and what is in the air is of the one message, and a
  chunk that names its sender never comes back to it.
- `OnceWhileFresh` (`DeliveredOnce`): in a behaviour in which the sender's copy is younger
  than the time to live of the caches, no receiver delivers a message twice. A receiver
  that has delivered remembers it, and not for longer than the sender remembers having
  sent it (`OnceInv`). The hypothesis `Fresh` is needed for arbitrary constants: the sender
  purges its own cache when its next chunk arrives and not before, so it answers late
  SACKs for a message that receivers have forgotten. The run `chunk_transfer` checks the property
  without it, for constants with which SACKs end before the caches expire.

`ClipboardSyncProofs`, for any number of machines, dongles, texts and copies:

- `TypeCorrect`, and `NoEcho` (`BroadcastsAccountedFor`), which is not inductive: a text
  that has not been broadcast yet must be paid for already. `Account` adds the text on the
  clipboard to the broadcasts if the daemon does not know it.

Only model-checked: liveness under fairness (`Recovers`, `Drained`, `Noticed`, `HeadMovesOn`),
which is not within reach of the prover; `DeliveredOnce` where it is not fresh;
and what the runs that expect a violation find. Every other property that a passing run
checks is a theorem. No module uses RECURSIVE operators.

## What is left out

Bytes and wording: a chunk is its index, a text is a value, keys and hashes are what
they were made from. Frames from other swarms and malformed ones of no header are
dropped before any state changes. SPI commands (only the outcomes of probing, reading
and writing are kept), display, LED and board support, the web and iOS clients, IPC
(stateless) and the test programs are not modelled. The fleet sink (fleet.rs, bin/gibberish_sink.rs)
is a parser of log lines with a default for each field and a map from node to its latest
line: no step of it can contradict another; that it does not reconnect while any port
is open is a finding without a model. The `push` command is modelled as far as its
nonces go (`NonceShared`); two processes that write the temporary file at the same
moment are left out, and its sending is that of the daemon's loop. A daemon with
several dongles sends by the first and reads from all: `ClipboardSync` has this, and
takes the daemon's node id for that of its first dongle, which is how others decrypt its
messages; the other models have one dongle each.
Nothing in the firmware calls `request_pairing`, `reset` or `set_desktop_mode` yet: the
models let them be called between any two turns.
All chunks of a message carry the same total, as the code makes them; the first one sizes
the table of the receiver (chunk.rs:178-191), and a later one with another total is not modelled.
In `ChunkTransfer` the 30 ms after a chunk are modelled; the 20 ms after each chunk that
answers a SACK are not, and a frame for a daemon that is still sending waits in the air.
A message of more than 255 chunks, whose count is truncated (chunk.rs:64), is a finding
without a model. Contents of `PROJECT.json` "components" give the reasons one by one.

## Plan

Done: every module of the table above with its run; theorems for every invariant, every
action property and both refinements that the passing runs check.

Next: two managers on one file (`NonceShared`): which part of `PairsNeverReused` survives a
second process, and its proof; bounds on time under which `Fresh` follows from the
constants; the sections of `DonglePartsProofs` on the serial port shorter.
