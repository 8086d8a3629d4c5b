------------------------------ MODULE PeerTable ------------------------------
(***************************************************************************)
(* The dongle's table of the peers it hears                                  *)
(* (crates/gibberish-protocol/src/frame.rs, filled by the firmware's main     *)
(* loop): a few slots kept in the order of the last contact, without a clock. *)
(***************************************************************************)
EXTENDS Naturals, Sequences, FiniteSetsExt

CONSTANTS
  Nodes,         \* node ids on the air, the dongle's own among them
  Own,           \* local_node_id
  Nobody,        \* node id 0: a frame whose header has no source
  PeerCapacity,  \* PEER_TABLE_CAPACITY
  CountLimit     \* u32::MAX, where packet_count saturates

ASSUME PeerAssumption ==
  /\ Own \in Nodes /\ Nobody \notin Nodes
  /\ PeerCapacity \in Nat \ {0} /\ CountLimit \in Nat \ {0}

VARIABLES
  peers,  \* slot -> [node, count] or NoPeer; slot 0 is the least recent contact
  heard,  \* history: the others that could be told, by their last contact, latest last
  tally   \* history: their frames since each was last unlisted, up to CountLimit

peerVars == <<peers, heard, tally>>

PeerSlots == 0..(PeerCapacity - 1)
NoPeer == [node |-> Nobody, count |-> 0]
Others == Nodes \ {Own}

PeerInit ==
  /\ peers = [i \in PeerSlots |-> NoPeer]
  /\ heard = <<>> /\ tally = [n \in Others |-> 0]

Occupied == {i \in PeerSlots : peers[i] # NoPeer}
SlotOf(n) == CHOOSE i \in Occupied : peers[i].node = n
Counted(i) == IF peers[i].count < CountLimit THEN peers[i].count + 1 ELSE CountLimit

\* Faulty variants: the peer stays where it is; a full table gives up the newest peer.
PromoteInPlace(n) ==
  peers' = [peers EXCEPT ![SlotOf(n)].count = Counted(SlotOf(n))]
EvictNewest(n) ==
  peers' = [peers EXCEPT ![PeerCapacity - 1] = [node |-> n, count |-> 1]]

\* A peer that is listed moves behind the last occupied slot; those in between close up.
Promote(n) ==
  LET i == SlotOf(n)
      last == Max(Occupied)
  IN peers' = [j \in PeerSlots |->
                 IF i <= j /\ j < last THEN peers[j + 1]
                 ELSE IF j = last THEN [node |-> n, count |-> Counted(i)]
                 ELSE peers[j]]

\* A new peer takes the first empty slot, or slot 0 is given up and the rest close up.
Enlist(n) ==
  peers' = [peers EXCEPT ![Min(PeerSlots \ Occupied)] = [node |-> n, count |-> 1]]
Evict(n) ==
  peers' = [j \in PeerSlots |->
              IF j < PeerCapacity - 1 THEN peers[j + 1] ELSE [node |-> n, count |-> 1]]

Listed(n) == \E i \in Occupied : peers[i].node = n

RecordPeer(n) ==
  \/ Listed(n) /\ Promote(n)
  \/ ~Listed(n) /\ Occupied # PeerSlots /\ Enlist(n)
  \/ ~Listed(n) /\ Occupied = PeerSlots /\ Evict(n)

\* The last contacts after one of n, and those the table has no room for.
ByContact(n) ==
  IF \E i \in DOMAIN heard : heard[i] = n
    THEN LET i == CHOOSE i \in DOMAIN heard : heard[i] = n IN
         Append(SubSeq(heard, 1, i - 1) \o SubSeq(heard, i + 1, Len(heard)), n)
    ELSE Append(heard, n)
Beyond(s) == {s[i] : i \in {j \in DOMAIN s : j + PeerCapacity <= Len(s)}}

\* The source a frame is charged to: of its header, else of its debug telemetry.
EffectiveSource(src, inPayload) == IF src # Nobody THEN src ELSE inPayload

\* A frame from the air, before it is looked at any further (main.rs:341-356): its
\* sender is in the header, or in the payload, or cannot be told.
Overheard(sender, src, inPayload) ==
  LET who == EffectiveSource(src, inPayload)
      order == ByContact(sender)
      known == sender # Own /\ (src = sender \/ inPayload = sender)
  IN /\ IF who # Nobody /\ who # Own THEN RecordPeer(who) ELSE UNCHANGED peers
     /\ IF known
          THEN /\ heard' = order
               /\ tally' = [n \in Others |->
                              IF n \in Beyond(order) THEN 0
                              ELSE IF n = sender /\ tally[n] < CountLimit THEN tally[n] + 1
                              ELSE tally[n]]
          ELSE UNCHANGED <<heard, tally>>

PeerNext ==
  \E sender \in Nodes : \E src, inPayload \in {sender, Nobody} :
    Overheard(sender, src, inPayload)

PeerSpec == PeerInit /\ [][PeerNext]_peerVars

-----------------------------------------------------------------------------
(* Properties *)

PeerTypeOK ==
  /\ peers \in [PeerSlots -> [node : Others, count : 1..CountLimit] \cup {NoPeer}]
  /\ tally \in [Others -> 0..CountLimit]

\* What the dashboard shows: the last occupied slot from the end, and the one before.
PrimaryPeer == IF Occupied = {} THEN Nobody ELSE peers[Max(Occupied)].node
SecondaryPeer ==
  IF Cardinality(Occupied) < 2 THEN Nobody
  ELSE peers[Max(Occupied \ {Max(Occupied)})].node

\* The table without a clock is what it would be with one: the last PeerCapacity
\* distinct peers in the order of their last contact, with no hole and no peer twice,
\* each with its frames since it came in; the dashboard's two are the last two.
LatestPeers ==
  LET used == IF Len(heard) < PeerCapacity THEN Len(heard) ELSE PeerCapacity
      fromEnd(k) == IF k <= Len(heard) THEN heard[Len(heard) + 1 - k] ELSE Nobody
  IN /\ Occupied = 0..(used - 1)
     /\ \A k \in 1..used : LET p == peers[used - k] IN
          p.node = fromEnd(k) /\ p.count = tally[p.node]
     /\ PrimaryPeer = fromEnd(1)
     /\ PeerCapacity >= 2 => SecondaryPeer = fromEnd(2)
=============================================================================
