------------------------------ MODULE MeshFlood ------------------------------
(***************************************************************************)
(* The dongles of apps/gibberish-firmware between the daemons: each floods   *)
(* what its host or its radio gives it, once, with a hop limit, after a      *)
(* random backoff during which it cancels what it hears another node send.   *)
(* One message of several chunks is sent; receivers ask for missing chunks   *)
(* with SACKs, which travel like any other frame, as do the beacons of the   *)
(* BOOT button.  Telemetry is heard by neighbours only.                      *)
(*                                                                         *)
(* The filter is exact here and forgets nothing (Dedup has it), backoff times *)
(* are arbitrary (TxQueue models them), and the SRAM ring is left to Storage:*)
(* it takes what goes up to the host and what comes down from it.            *)
(***************************************************************************)
EXTENDS TxOps, FiniteSets

CONSTANTS
  Nodes, Origin,     \* the dongles, and the one whose host sends the message
  Topologies,        \* the ways the dongles may be placed: records [links, good], where links holds
                     \* <<a, b>> if b hears a, and good those whose quality reaches MIN_RELAY_LQI
  Chunks,            \* how many chunks the message has
  ChunkTtl, SackTtl, BeaconTtl,  \* initial TTLs: 7, 5 and 3
  Pressed, Emitting, \* bound: the dongles whose button is pressed, that emit telemetry
  MaxEvents          \* bound: SACKs, losses, and twice the beacons and telemetry frames, together

ASSUME MeshAssumption ==
  /\ IsFiniteSet(Nodes) /\ Origin \in Nodes /\ Chunks \in Nat \ {0}
  /\ \A t \in Topologies : /\ t.good \subseteq t.links /\ t.links \subseteq Nodes \X Nodes
                          /\ \A n \in Nodes : <<n, n>> \notin t.links
  /\ ChunkTtl \in Nat /\ SackTtl \in Nat /\ BeaconTtl \in Nat
  /\ MaxEvents \in Nat /\ Pressed \subseteq Nodes /\ Emitting \subseteq Nodes

VARIABLES
  topology,  \* which of Topologies it is, throughout
  queue,     \* node -> the pending slots of its BackoffController, from the head on
  seen,      \* node -> keys in its deduplication filter
  inbox,     \* node -> what its radio has received, not yet polled: [packet, from]
  outgoing,  \* node -> frames its host has still to write to USB
  uplink,    \* node -> what it has handed to its host, in order: [frame, from]
  events,    \* what counts against MaxEvents so far
  relayed,   \* history: node -> key -> how often it has relayed the key
  givenUp    \* history: <<reason, frame>> where the flood of a frame was cut short

vars == <<topology, queue, seen, inbox, outgoing, uplink, events, relayed, givenUp>>

\* Frames.  A SACK bears the id of its message and chunk index 0 (chunk.rs:295-303).
Chunk(i) == [kind |-> "chunk", by |-> Origin, idx |-> i, missing |-> {}]
Sack(n, s) == [kind |-> "sack", by |-> n, idx |-> 0, missing |-> s]
Beacon(n) == [kind |-> "beacon", by |-> n, idx |-> 0, missing |-> {}]
Telemetry(n) == [kind |-> "telemetry", by |-> n, idx |-> 0, missing |-> {}]
Message == [i \in 1..Chunks |-> Chunk(i - 1)]

\* What the filter remembers of a frame: message id and chunk index.
Key(f) == IF f.kind \in {"chunk", "sack"} THEN <<"message", Origin, f.idx>> ELSE <<f.kind, f.by, f.idx>>
Keys == {<<"message", Origin, i>> : i \in 0..(Chunks - 1)} \cup {<<"beacon", n, 0>> : n \in Nodes}

Ttl(f) == CASE f.kind = "chunk" -> ChunkTtl [] f.kind = "sack" -> SackTtl
            [] f.kind = "beacon" -> BeaconTtl [] f.kind = "telemetry" -> 1
Fresh(f) == [frame |-> f, ttl |-> Ttl(f), hop |-> 0]

Init ==
  /\ topology \in Topologies
  /\ queue = [n \in Nodes |-> <<>>] /\ seen = [n \in Nodes |-> {}]
  /\ inbox = [n \in Nodes |-> <<>>] /\ uplink = [n \in Nodes |-> <<>>]
  /\ outgoing = [n \in Nodes |-> IF n = Origin THEN Message ELSE <<>>]
  /\ events = 0
  /\ relayed = [n \in Nodes |-> [k \in Keys |-> 0]] /\ givenUp = {}

Event(k) == events + k <= MaxEvents /\ events' = events + k

-----------------------------------------------------------------------------
\* The transmit queue.

Evicted(q) == IF Full(q) /\ Head(q) # Hole THEN {<<"evicted", Head(q).frame>>} ELSE {}

\* Faulty variant: whatever is heard cancels the next packet.
OnOverhearAny(q, k) == IF q = <<>> THEN q ELSE [q EXCEPT ![1] = Hole]

Matching(q, k) == {i \in PendingIn(q) : Key(q[i].frame) = k}
OnOverhear(q, k) == CancelFirst(q, Matching(q, k))
Cancelled(q, k) ==
  IF Matching(q, k) = {} THEN {} ELSE {<<"cancelled", q[FirstOf(Matching(q, k))].frame>>}

UserTraffic(q) == {i \in PendingIn(q) : q[i].frame.kind # "telemetry"}

-----------------------------------------------------------------------------
\* The daemons.

\* The chunks the daemon at n has: those that named their sender, since another
\* source address yields the wrong key (chunk.rs:169-178).
Has(n) == {i \in 0..(Chunks - 1) : [frame |-> Chunk(i), from |-> Origin] \in
             {uplink[n][j] : j \in DOMAIN uplink[n]}}
Missing(n) == (0..(Chunks - 1)) \ Has(n)

\* What a daemon writes in answer to what its dongle hands it: the chunks a SACK
\* asks for, in order, if it is the one that sent them (main.rs:254-270).
InOrder(s) == \A i, j \in DOMAIN s : i < j => s[i].idx < s[j].idx
Answers(n, f) ==
  IF n = Origin /\ f.kind = "sack"
    THEN {s \in [1..Cardinality(f.missing) -> {Chunk(i) : i \in f.missing}] : InOrder(s)}
    ELSE {<<>>}

\* A daemon that lacks chunks of a message in progress asks for them (main.rs:353-367).
HostSacks(n) ==
  /\ n # Origin /\ Has(n) # {} /\ Missing(n) # {}
  /\ Event(1)
  /\ outgoing' = [outgoing EXCEPT ![n] = Append(@, Sack(n, Missing(n)))]
  /\ UNCHANGED <<topology, queue, seen, inbox, uplink, relayed, givenUp>>

-----------------------------------------------------------------------------
\* The dongles.

\* Faulty variant: nothing is remembered.
RememberNothing(keys, f) == keys

\* SlidingBloomFilter::insert
Remember(keys, f) == keys \cup {Key(f)}

\* A frame from the host is remembered and scheduled, seen before or not (main.rs:512-525).
UsbFrame(n) ==
  LET f == Head(outgoing[n]) IN
  /\ outgoing[n] # <<>>
  /\ outgoing' = [outgoing EXCEPT ![n] = Tail(@)]
  /\ seen' = [seen EXCEPT ![n] = Remember(@, f)]
  /\ queue' = [queue EXCEPT ![n] = Schedule(@, Fresh(f))]
  /\ givenUp' = givenUp \cup Evicted(queue[n])
  /\ UNCHANGED <<topology, inbox, uplink, events, relayed>>

\* send_packet fails, which the daemon logs or ignores (main.rs:330-335, 264-267).
SendFails(n) ==
  /\ outgoing[n] # <<>> /\ Event(1)
  /\ givenUp' = givenUp \cup {<<"lost", Head(outgoing[n])>>}
  /\ outgoing' = [outgoing EXCEPT ![n] = Tail(@)]
  /\ UNCHANGED <<topology, queue, seen, inbox, uplink, relayed>>

\* The BOOT button (main.rs:204-235).
Button(n) ==
  /\ Key(Beacon(n)) \notin seen[n] /\ Event(2)
  /\ seen' = [seen EXCEPT ![n] = Remember(@, Beacon(n))]
  /\ queue' = [queue EXCEPT ![n] = Schedule(@, Fresh(Beacon(n)))]
  /\ givenUp' = givenUp \cup Evicted(queue[n])
  /\ UNCHANGED <<topology, inbox, outgoing, uplink, relayed>>

\* schedule_telemetry: only while no user traffic is pending (main.rs:278-330).
EmitTelemetry(n) ==
  /\ UserTraffic(queue[n]) = {} /\ Event(2)
  /\ queue' = [queue EXCEPT ![n] = Schedule(@, Fresh(Telemetry(n)))]
  /\ UNCHANGED <<topology, seen, inbox, outgoing, uplink, relayed, givenUp>>

\* take_pending and transmit: the holes up to the first packet are skipped, and the
\* neighbours hear the packet or lose it (main.rs:254-275).
Neighbours(n) == {m \in Nodes : <<n, m>> \in topology.links}
\* assemble_phy_frame: the source address is that of the node that transmits.
OnAir(n, p) == [packet |-> p, from |-> n]
Transmit(n) ==
  /\ PendingIn(queue[n]) # {}
  /\ queue' = [queue EXCEPT ![n] = AfterTaking(@)]
  /\ LET p == Taken(queue[n]) IN
     /\ \E deaf \in SUBSET Neighbours(n) :
          /\ Event(Cardinality(deaf))
          /\ inbox' = [m \in Nodes |-> IF m \in Neighbours(n) \ deaf
                                         THEN Append(inbox[m], OnAir(n, p)) ELSE inbox[m]]
          /\ givenUp' = givenUp \cup IF deaf = {} THEN {} ELSE {<<"lost", p.frame>>}
     /\ relayed' = IF p.hop = 0 THEN relayed ELSE [relayed EXCEPT ![n][Key(p.frame)] = @ + 1]
  /\ UNCHANGED <<topology, seen, outgoing, uplink>>

\* take_pending finds nothing but holes.
SkipHoles(n) ==
  /\ queue[n] # <<>> /\ PendingIn(queue[n]) = {}
  /\ queue' = [queue EXCEPT ![n] = AfterTaking(@)]
  /\ UNCHANGED <<topology, seen, inbox, outgoing, uplink, events, relayed, givenUp>>

\* poll_rx hands over the oldest frame received.
Poll(n) ==
  /\ inbox[n] # <<>>
  /\ inbox' = [inbox EXCEPT ![n] = Tail(@)]

\* Telemetry is consumed (main.rs:366-417).
HearTelemetry(n) ==
  /\ Poll(n)
  /\ Head(inbox[n]).packet.frame.kind = "telemetry"
  /\ UNCHANGED <<topology, queue, seen, outgoing, uplink, events, relayed, givenUp>>

\* The key is known: the frame goes no further, nor does the pending packet with
\* this key (main.rs:420-424).
Known(n, f) == f \in {uplink[n][j].frame : j \in DOMAIN uplink[n]} \/ f.by = n
HearDuplicate(n) ==
  LET f == Head(inbox[n]).packet.frame IN
  /\ Poll(n)
  /\ f.kind # "telemetry" /\ Key(f) \in seen[n]
  /\ queue' = [queue EXCEPT ![n] = OnOverhear(@, Key(f))]
  /\ givenUp' = givenUp \cup Cancelled(queue[n], Key(f)) \cup IF Known(n, f) THEN {} ELSE {<<"clash", f>>}
  /\ UNCHANGED <<topology, seen, outgoing, uplink, events, relayed>>

\* rssi_to_lqi against MIN_RELAY_LQI.
GoodLink(n, r) == <<r.from, n>> \in topology.good
Relayable(n, r) == GoodLink(n, r) /\ r.packet.ttl > 0

\* Faulty variant: the hop is not charged to the TTL.
OneHopUncharged(p) == [p EXCEPT !.hop = @ + 1]

\* decrement_ttl
OneHopOn(p) == [p EXCEPT !.ttl = @ - 1, !.hop = @ + 1]

\* A new frame: remembered, handed to the host, and relayed if the link it came by
\* is good and it may go one more hop (main.rs:425-471).
HearNew(n) ==
  LET r == Head(inbox[n])
      f == r.packet.frame
      heard == OnOverhear(queue[n], Key(f)) IN
  /\ Poll(n)
  /\ f.kind # "telemetry" /\ Key(f) \notin seen[n]
  /\ seen' = [seen EXCEPT ![n] = Remember(@, f)]
  /\ uplink' = [uplink EXCEPT ![n] = Append(@, [frame |-> f, from |-> r.from])]
  /\ \E s \in Answers(n, f) : outgoing' = [outgoing EXCEPT ![n] = @ \o s]
  /\ IF Relayable(n, r)
       THEN /\ queue' = [queue EXCEPT ![n] = Schedule(heard, OneHopOn(r.packet))]
            /\ givenUp' = givenUp \cup Cancelled(queue[n], Key(f)) \cup Evicted(heard)
       ELSE /\ queue' = [queue EXCEPT ![n] = heard]
            /\ givenUp' = givenUp \cup Cancelled(queue[n], Key(f)) \cup {<<"refused", f>>}
  /\ UNCHANGED <<topology, events, relayed>>

Dongle(n) ==
  \/ UsbFrame(n) \/ Transmit(n) \/ SkipHoles(n)
  \/ HearTelemetry(n) \/ HearDuplicate(n) \/ HearNew(n)

\* Every host and every dongle has done its work.
Idle == \A n \in Nodes : queue[n] = <<>> /\ inbox[n] = <<>> /\ outgoing[n] = <<>>
Quiet == Idle /\ UNCHANGED vars

Next ==
  \/ (\E n \in Nodes : Dongle(n) \/ SendFails(n) \/ HostSacks(n))
  \/ (\E n \in Pressed : Button(n)) \/ (\E n \in Emitting : EmitTelemetry(n))
  \/ Quiet

Spec == Init /\ [][Next]_vars

-----------------------------------------------------------------------------
(* Properties *)

\* No queue outgrows its slots, a TTL only falls, and no dongle hears itself.
TypeOK ==
  /\ \A n \in Nodes :
       /\ Len(queue[n]) <= TxCapacity
       /\ \A i \in PendingIn(queue[n]) : queue[n][i].ttl \in 0..Ttl(queue[n][i].frame)
       /\ \A i \in DOMAIN inbox[n] : inbox[n][i].from \in Nodes \ {n}
       /\ \A i \in DOMAIN uplink[n] : uplink[n][i].from \in Nodes \ {n}
  /\ seen \in [Nodes -> SUBSET Keys]
  /\ events \in 0..MaxEvents
  /\ relayed \in [Nodes -> [Keys -> Nat]]

\* A host is told of a message id and chunk index once, and never of what it sent
\* itself, whichever way the frame comes back (main.rs:419-424).
OnceToHost ==
  \A n \in Nodes : \A i \in DOMAIN uplink[n] :
    /\ uplink[n][i].frame.by # n
    /\ \A j \in DOMAIN uplink[n] : i # j => Key(uplink[n][i].frame) # Key(uplink[n][j].frame)

\* No broadcast storm: a node relays a key at most once (dedup.rs:3), counting
\* the relay that is still in its queue.
Relays(n, k) == {i \in PendingIn(queue[n]) : queue[n][i].hop > 0 /\ Key(queue[n][i].frame) = k}
RelayedOnce ==
  \A n \in Nodes : \A k \in Keys : relayed[n][k] + Cardinality(Relays(n, k)) <= 1

\* A frame visits no node twice: it makes fewer hops than there are nodes, however
\* large its TTL; telemetry makes one.
Copies == UNION {{inbox[n][i].packet : i \in DOMAIN inbox[n]} : n \in Nodes}
NoLoops ==
  \A p \in Copies :
    /\ p.hop < Cardinality(Nodes) /\ p.hop + p.ttl = Ttl(p.frame)
    /\ p.frame.kind = "telemetry" => p.hop = 0

\* No set of dongles around the origin is out of reach of all the others.
Connected(t) ==
  \A S \in SUBSET Nodes : Origin \in S /\ S # Nodes =>
    \E a \in S, b \in Nodes \ S : <<a, b>> \in t.links

Arrived(n, f) == \E i \in DOMAIN uplink[n] : uplink[n][i].frame = f
CutShort(f) == \E reason \in {"lost", "evicted", "cancelled", "refused", "clash"} : <<reason, f>> \in givenUp

\* In a connected placement the flood reaches every node, unless a copy of the chunk
\* was lost, or a node that had to relay it evicted it, cancelled it, refused it for
\* its bad link or its TTL, or took it for a duplicate of another frame.
Covered ==
  Idle => \A n \in Nodes \ {Origin} : \A i \in 0..(Chunks - 1) : Arrived(n, Chunk(i)) \/ CutShort(Chunk(i))

\* What is cancelled was redundant (ieee802154.rs:150-153): if nothing is lost,
\* evicted or refused, a chunk still reaches every node.
Unhindered(f) == {g \in givenUp : g[2] = f /\ g[1] # "cancelled"} = {}
CancelledWasRedundant ==
  Idle => \A n \in Nodes \ {Origin} : \A i \in 0..(Chunks - 1) : Arrived(n, Chunk(i)) \/ ~Unhindered(Chunk(i))

\* A chunk reaches the host under the address of the node that encrypted it, which
\* selects the key.
SourceIsSender ==
  \A n \in Nodes : \A i \in DOMAIN uplink[n] : uplink[n][i].from = uplink[n][i].frame.by
=============================================================================
