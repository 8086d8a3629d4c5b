------------------------------- MODULE ChunkOps -------------------------------
(***************************************************************************)
(* The chunk engine of apps/gibberish-daemon/src/chunk.rs as functions of   *)
(* its state: the messages being reassembled, those completed lately, and   *)
(* the packets sent lately.  An Instant is kept as the time since it, up to *)
(* the point where the code stops telling values apart.                     *)
(***************************************************************************)
EXTENDS Naturals, FiniteSets, Functions

CONSTANTS
  MaxPerSender, MaxGlobal,     \* MAX_PER_SENDER_IN_FLIGHT, MAX_GLOBAL_IN_FLIGHT
  Timeout,                     \* REASSEMBLY_TIMEOUT
  SackDelay, SackRetry, MaxSackRetries,  \* SACK_INITIAL_DELAY, SACK_RETRY_INTERVAL, MAX_SACK_RETRIES
  CacheTtl,                    \* the 60 s of the completed and outbox caches
  AgeLimit                     \* bound: where the age of a message stops counting

ASSUME ChunkAssumption ==
  /\ MaxPerSender \in Nat \ {0} /\ MaxGlobal \in Nat \ {0}
  /\ Timeout \in Nat \ {0} /\ CacheTtl \in Nat \ {0}
  /\ SackDelay \in Nat /\ SackRetry \in Nat /\ MaxSackRetries \in Nat
  /\ AgeLimit \in Nat /\ AgeLimit >= SackDelay + MaxSackRetries * SackRetry

\* A chunk on the wire: the sender the frame names, the node whose subkey
\* encrypted it, the message id, and the place of the chunk in the message.
\* A message is keyed by its sender and id.
Key(p) == <<p.src, p.msg>>
Authentic(p) == p.src = p.origin

\* age, quiet and sinceSack: time since first_received, last_received and
\* last_sack_sent (a SACK never sent counts as one sent SackRetry ago).
NewEntry(total) ==
  [total |-> total, received |-> {}, age |-> 0, quiet |-> 0, sinceSack |-> SackRetry, sackCount |-> 0]

EmptyEngine == [inFlight |-> <<>>, completed |-> <<>>, outbox |-> <<>>]

Missing(entry) == (0..(entry.total - 1)) \ entry.received

\* One unit of time passes.
Older(t, limit) == IF t < limit THEN t + 1 ELSE limit
Tick(e) ==
  [inFlight |-> [k \in DOMAIN e.inFlight |->
     [e.inFlight[k] EXCEPT !.age = Older(@, AgeLimit), !.quiet = Older(@, Timeout),
                           !.sinceSack = Older(@, SackRetry)]],
   completed |-> [k \in DOMAIN e.completed |-> Older(e.completed[k], CacheTtl)],
   outbox |-> [m \in DOMAIN e.outbox |-> [e.outbox[m] EXCEPT !.age = Older(@, CacheTtl)]]]

\* Faulty variant: only the caches are purged.
PurgeCachesOnly(e) == [e EXCEPT !.completed = Restrict(@, {k \in DOMAIN @ : @[k] < CacheTtl})]

\* purge_expired
Purge(e) ==
  [inFlight |-> Restrict(e.inFlight, {k \in DOMAIN e.inFlight : e.inFlight[k].quiet < Timeout}),
   completed |-> Restrict(e.completed, {k \in DOMAIN e.completed : e.completed[k] < CacheTtl}),
   outbox |-> Restrict(e.outbox, {m \in DOMAIN e.outbox : e.outbox[m].age < CacheTtl})]

\* The messages of S first heard of longest ago; more than one if several chunks
\* arrived at the same Instant.
Oldest(e, S) == {k \in S : \A j \in S : e.inFlight[j].age <= e.inFlight[k].age}
Without(e, k) == [e EXCEPT !.inFlight = Restrict(@, DOMAIN @ \ {k})]
EvictOldest(e, S) == {Without(e, k) : k \in Oldest(e, S)}

\* Rules 3 and 4 of ingest_packet: room for a new message, first within its
\* sender's share and then in the whole table.
From(e, src) == {k \in DOMAIN e.inFlight : k[1] = src}
RoomForSender(e, src) ==
  IF Cardinality(From(e, src)) >= MaxPerSender THEN EvictOldest(e, From(e, src)) ELSE {e}
RoomForAll(e) ==
  IF Cardinality(DOMAIN e.inFlight) >= MaxGlobal THEN EvictOldest(e, DOMAIN e.inFlight) ELSE {e}

\* Faulty variants: the table as a whole is not limited; its size is read before
\* the sender's share is enforced.
RoomSenderOnly(e, src) == RoomForSender(e, src)
RoomTwice(e, src) ==
  UNION {IF Cardinality(DOMAIN e.inFlight) >= MaxGlobal THEN EvictOldest(d, DOMAIN d.inFlight) ELSE {d} :
         d \in RoomForSender(e, src)}

MakeRoom(e, src) == UNION {RoomForAll(d) : d \in RoomForSender(e, src)}

\* A packet that is no chunk of anything is rejected.
Malformed(p) == p.total = 0 \/ p.idx >= p.total

\* Outcomes of ingest_packet: the engine afterwards, and whether the message of p
\* was delivered by this call.
Kept(e) == [engine |-> e, delivered |-> FALSE]

\* Faulty variant: chunks are counted from one.
StoreShifted(e, p) ==
  Kept([e EXCEPT !.inFlight = [k \in DOMAIN @ \cup {Key(p)} |->
    IF k # Key(p) THEN @[k]
    ELSE [NewEntry(p.total) EXCEPT !.received = {p.idx + 1}]]])

\* The chunk is decrypted with the key of the sender the frame names, and stored.  All
\* chunks of a message carry the total of the first one, which sizes the table they are
\* stored in (chunk.rs:178-191), as fragment_and_encrypt makes them.
Store(e, p) ==
  LET entry == IF Key(p) \in DOMAIN e.inFlight THEN e.inFlight[Key(p)] ELSE NewEntry(p.total)
      stored == IF p.idx \in entry.received THEN entry
                ELSE [entry EXCEPT !.received = @ \cup {p.idx}, !.quiet = 0]
  IN CASE ~Authentic(p) -> Kept(e)
       [] Authentic(p) /\ Missing(stored) # {} ->
            Kept([e EXCEPT !.inFlight = [k \in DOMAIN @ \cup {Key(p)} |-> IF k = Key(p) THEN stored ELSE @[k]]])
       [] OTHER ->
            [engine |-> [Without(e, Key(p)) EXCEPT
                           !.completed = [k \in DOMAIN @ \cup {Key(p)} |-> IF k = Key(p) THEN 0 ELSE @[k]]],
             delivered |-> TRUE]

\* Faulty variant: the completed cache is not consulted.
IngestForgetful(e, p) ==
  {Store(room, p) : room \in IF Key(p) \in DOMAIN e.inFlight THEN {Purge(e)} ELSE MakeRoom(Purge(e), p.src)}

Ingest(e, p) ==
  LET purged == Purge(e) IN
  IF Malformed(p) \/ Key(p) \in DOMAIN purged.completed
    THEN {Kept(purged)}
    ELSE {Store(room, p) :
            room \in IF Key(p) \in DOMAIN purged.inFlight THEN {purged} ELSE MakeRoom(purged, p.src)}

\* cache_outbound
CacheOutbound(e, packets, msg) ==
  IF packets = {} THEN e
  ELSE [e EXCEPT !.outbox = [m \in DOMAIN @ \cup {msg} |->
                               IF m = msg THEN [packets |-> packets, age |-> 0] ELSE @[m]]]

\* handle_sack: the cached packets the SACK asks for.
HandleSack(e, sack) ==
  IF sack.msg \notin DOMAIN e.outbox THEN {}
  ELSE {p \in e.outbox[sack.msg].packets : p.idx \in sack.missing}

\* check_pending_sacks: which messages are due, the engine after it has counted
\* them, and the SACKs it broadcasts.
\*
\* Faulty variants: no interval between SACKs; no limit on their number; no retry.
DueEagerly(e) ==
  {k \in DOMAIN e.inFlight : Missing(e.inFlight[k]) # {} /\ e.inFlight[k].sackCount < MaxSackRetries
                             /\ e.inFlight[k].quiet >= SackDelay}
DueForever(e) ==
  {k \in DOMAIN e.inFlight : Missing(e.inFlight[k]) # {} /\ e.inFlight[k].quiet >= SackDelay
                             /\ e.inFlight[k].sinceSack >= SackRetry}
DueOnce(e) ==
  {k \in DOMAIN e.inFlight : Missing(e.inFlight[k]) # {} /\ e.inFlight[k].quiet >= SackDelay
                             /\ e.inFlight[k].sackCount = 0}

DueForSack(e) ==
  {k \in DOMAIN e.inFlight :
     LET entry == e.inFlight[k] IN
     /\ Missing(entry) # {} /\ entry.quiet >= SackDelay
     /\ entry.sackCount < MaxSackRetries /\ entry.sinceSack >= SackRetry}
Counted(entry) == [entry EXCEPT !.sinceSack = 0, !.sackCount = @ + 1]
CountSacks(e) ==
  [e EXCEPT !.inFlight = [k \in DOMAIN @ |-> IF k \in DueForSack(e) THEN Counted(@[k]) ELSE @[k]]]
Sacks(e) == {[msg |-> k[2], sender |-> k[1], missing |-> Missing(e.inFlight[k])] : k \in DueForSack(e)}

\* suppress_sack: as if a SACK for every message with this id had just been sent.
SuppressSack(e, msg) ==
  [e EXCEPT !.inFlight = [k \in DOMAIN @ |->
     IF k[2] = msg THEN [@[k] EXCEPT !.sinceSack = 0] ELSE @[k]]]
=============================================================================
