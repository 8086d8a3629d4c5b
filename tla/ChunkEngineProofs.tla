-------------------------- MODULE ChunkEngineProofs --------------------------
(***************************************************************************)
(* Proofs about the chunk engine for every limit, every timeout and any      *)
(* messages: the limits of its table, what a new message costs, and when a   *)
(* message may be asked for again.                                           *)
(***************************************************************************)
EXTENDS ChunkEngine, Integers, FiniteSetTheorems, TLAPS

\* An unfinished message in the table: what is known of its entry.  The n-th SACK
\* comes n - 1 intervals and the first delay after the first chunk, and what has passed
\* since then on top of it.
Paced(entry) ==
  /\ entry.quiet <= entry.age \/ entry.age = AgeLimit
  /\ entry.sackCount > 0 =>
       entry.age >= SackDelay + (entry.sackCount - 1) * SackRetry + entry.sinceSack
EntryTypes == [total : Nat, received : SUBSET Nat, age : 0..AgeLimit, quiet : Nat,
               sinceSack : 0..SackRetry, sackCount : 0..MaxSackRetries]
EntryInv(k, entry) ==
  /\ entry \in EntryTypes
  /\ Missing(entry) # {} /\ entry.received # {} /\ entry.received \subseteq 0..(entry.total - 1)
  /\ \E m \in Messages : k = Key(m) /\ entry.total = m.total
  /\ Paced(entry)

\* The engine as a whole, and its table within the limits.
Sound(e) ==
  /\ e = [inFlight |-> e.inFlight, completed |-> e.completed, outbox |-> <<>>]
  /\ IsFiniteSet(DOMAIN e.inFlight)
  /\ \A k \in DOMAIN e.inFlight : k \notin DOMAIN e.completed /\ EntryInv(k, e.inFlight[k])
  /\ \A k \in DOMAIN e.completed : e.completed[k] \in Nat
Bounded(e) ==
  /\ Cardinality(DOMAIN e.inFlight) <= MaxGlobal
  /\ \A s \in Sources : Cardinality(From(e, s)) <= MaxPerSender

EngineInv ==
  /\ Sound(engine) /\ Bounded(engine)
  /\ delivered \in {Key(p) : p \in Direct} \cup {None}
  /\ frames \in Nat

-----------------------------------------------------------------------------
\* A table that lost some of its messages.
Part(d, e) ==
  /\ d = [inFlight |-> d.inFlight, completed |-> e.completed, outbox |-> e.outbox]
  /\ DOMAIN d.inFlight \subseteq DOMAIN e.inFlight
  /\ \A k \in DOMAIN d.inFlight : d.inFlight[k] = e.inFlight[k]

LEMMA PartSound ==
  ASSUME NEW e, Sound(e), NEW d, Part(d, e)
  PROVE  Sound(d)
<1>1. IsFiniteSet(DOMAIN d.inFlight)
  BY FS_Subset DEF Part, Sound
<1>2. d = [inFlight |-> d.inFlight, completed |-> d.completed, outbox |-> <<>>]
  BY DEF Part, Sound
<1>3. d.completed = e.completed
  BY DEF Part
<1>4. QED
  BY <1>1, <1>2, <1>3 DEF Part, Sound

LEMMA WithoutPart ==
  ASSUME NEW e, Sound(e), NEW k
  PROVE  Part(Without(e, k), e) /\ DOMAIN Without(e, k).inFlight = DOMAIN e.inFlight \ {k}
BY DEF Part, Without, Restrict, Sound

\* A smaller table keeps within the limits.
LEMMA SmallerBounded ==
  ASSUME NEW e, Sound(e), Bounded(e), NEW d, DOMAIN d.inFlight \subseteq DOMAIN e.inFlight
  PROVE  Bounded(d)
<1>1. \A s \in Sources : /\ From(d, s) \subseteq From(e, s)
                         /\ From(e, s) \subseteq DOMAIN e.inFlight
  BY DEF From
<1>2. IsFiniteSet(DOMAIN e.inFlight)
  BY DEF Sound
<1>3. /\ Cardinality(DOMAIN e.inFlight) \in Nat /\ Cardinality(DOMAIN d.inFlight) \in Nat
      /\ Cardinality(DOMAIN d.inFlight) <= Cardinality(DOMAIN e.inFlight)
  BY <1>2, FS_Subset, FS_CardinalityType
<1>4. \A s \in Sources : /\ Cardinality(From(e, s)) \in Nat /\ Cardinality(From(d, s)) \in Nat
                         /\ Cardinality(From(d, s)) <= Cardinality(From(e, s))
  <2> TAKE s \in Sources
  <2>1. IsFiniteSet(From(e, s))
    BY <1>1, <1>2, FS_Subset
  <2>2. QED
    BY <1>1, <2>1, FS_Subset, FS_CardinalityType
<1>5. QED
  BY <1>3, <1>4, ChunkAssumption DEF Bounded

\* Purging: what is left of the table is as it was, and is what was live.
LEMMA PurgeSound ==
  ASSUME NEW e, Sound(e)
  PROVE  /\ Sound(Purge(e))
         /\ DOMAIN Purge(e).inFlight = {k \in DOMAIN e.inFlight : e.inFlight[k].quiet < Timeout}
         /\ \A k \in DOMAIN Purge(e).inFlight : Purge(e).inFlight[k] = e.inFlight[k]
<1> DEFINE d == Purge(e)
<1>1. /\ DOMAIN d.inFlight = {k \in DOMAIN e.inFlight : e.inFlight[k].quiet < Timeout}
      /\ \A k \in DOMAIN d.inFlight : d.inFlight[k] = e.inFlight[k]
  BY DEF Purge, Restrict
<1>2. /\ DOMAIN d.completed \subseteq DOMAIN e.completed
      /\ \A k \in DOMAIN d.completed : d.completed[k] = e.completed[k]
  BY DEF Purge, Restrict
<1>3. d.outbox = <<>>
  <2>1. e.outbox = <<>>
    BY DEF Sound
  <2>2. {m \in DOMAIN e.outbox : e.outbox[m].age < CacheTtl} = {}
    BY <2>1
  <2>3. Restrict(e.outbox, {}) = <<>>
    BY DEF Restrict
  <2>4. QED
    BY <2>2, <2>3 DEF Purge
<1>4. d = [inFlight |-> d.inFlight, completed |-> d.completed, outbox |-> <<>>]
  BY <1>3 DEF Purge
<1>5. IsFiniteSet(DOMAIN d.inFlight)
  BY <1>1, FS_Subset DEF Sound
<1> HIDE DEF d
<1>6. Sound(d)
  BY <1>1, <1>2, <1>4, <1>5 DEF Sound
<1>7. QED
  BY <1>1, <1>6 DEF d

\* Making room: within the sender's share one message of this sender may go, ...
LEMMA RoomOfSender ==
  ASSUME NEW e, Sound(e), Bounded(e), NEW src \in Sources, NEW d \in RoomForSender(e, src)
  PROVE  /\ Part(d, e) /\ Cardinality(From(d, src)) < MaxPerSender
         /\ \/ d = e
            \/ \E k \in From(e, src) : /\ DOMAIN d.inFlight = DOMAIN e.inFlight \ {k}
                                       /\ Cardinality(From(e, src)) >= MaxPerSender
<1>1. IsFiniteSet(From(e, src)) /\ Cardinality(From(e, src)) \in Nat
  BY FS_Subset, FS_CardinalityType DEF Sound, From
<1>2. CASE Cardinality(From(e, src)) >= MaxPerSender
  <2>1. PICK k \in From(e, src) : d = Without(e, k)
    BY <1>2 DEF RoomForSender, EvictOldest, Oldest
  <2>2. Part(d, e) /\ DOMAIN d.inFlight = DOMAIN e.inFlight \ {k}
    BY <2>1, WithoutPart
  <2>3. From(d, src) = From(e, src) \ {k}
    BY <2>2 DEF From
  <2>4. Cardinality(From(d, src)) = Cardinality(From(e, src)) - 1
    BY <1>1, <2>3, FS_RemoveElement
  <2>5. QED
    BY <1>1, <1>2, <2>2, <2>4, ChunkAssumption DEF Bounded
<1>3. CASE ~(Cardinality(From(e, src)) >= MaxPerSender)
  <2>1. d = e
    BY <1>3 DEF RoomForSender
  <2>2. Part(e, e)
    BY DEF Part, Sound
  <2>3. QED
    BY <1>1, <1>3, <2>1, <2>2, ChunkAssumption
<1>4. QED
  BY <1>2, <1>3

\* ... and then one message of anyone.
LEMMA RoomOfTable ==
  ASSUME NEW e, Sound(e), Bounded(e), NEW d \in RoomForAll(e)
  PROVE  /\ Part(d, e) /\ Cardinality(DOMAIN d.inFlight) < MaxGlobal
         /\ \/ d = e
            \/ \E k \in DOMAIN e.inFlight : /\ DOMAIN d.inFlight = DOMAIN e.inFlight \ {k}
                                            /\ Cardinality(DOMAIN e.inFlight) >= MaxGlobal
<1>1. IsFiniteSet(DOMAIN e.inFlight) /\ Cardinality(DOMAIN e.inFlight) \in Nat
  BY FS_CardinalityType DEF Sound
<1>2. CASE Cardinality(DOMAIN e.inFlight) >= MaxGlobal
  <2>1. PICK k \in DOMAIN e.inFlight : d = Without(e, k)
    BY <1>2 DEF RoomForAll, EvictOldest, Oldest
  <2>2. Part(d, e) /\ DOMAIN d.inFlight = DOMAIN e.inFlight \ {k}
    BY <2>1, WithoutPart
  <2>3. Cardinality(DOMAIN d.inFlight) = Cardinality(DOMAIN e.inFlight) - 1
    BY <1>1, <2>2, FS_RemoveElement
  <2>4. QED
    BY <1>1, <1>2, <2>2, <2>3, ChunkAssumption DEF Bounded
<1>3. CASE ~(Cardinality(DOMAIN e.inFlight) >= MaxGlobal)
  <2>1. d = e
    BY <1>3 DEF RoomForAll
  <2>2. Part(e, e)
    BY DEF Part, Sound
  <2>3. QED
    BY <1>1, <1>3, <2>1, <2>2, ChunkAssumption
<1>4. QED
  BY <1>2, <1>3

\* What the victims of a new message of src may be.
Victim(e, src, k) ==
  \/ k[1] = src /\ Cardinality(From(e, src)) >= MaxPerSender
  \/ Cardinality(DOMAIN e.inFlight) >= MaxGlobal

\* Both together cost one message at most: after the sender's share has given up one,
\* the table is not full.
LEMMA RoomMade ==
  ASSUME NEW e, Sound(e), Bounded(e), NEW src \in Sources, NEW d \in MakeRoom(e, src)
  PROVE  /\ Part(d, e)
         /\ Cardinality(DOMAIN d.inFlight) < MaxGlobal
         /\ Cardinality(From(d, src)) < MaxPerSender
         /\ \/ d = e
            \/ \E k \in DOMAIN e.inFlight : /\ DOMAIN d.inFlight = DOMAIN e.inFlight \ {k}
                                            /\ Victim(e, src, k)
<1>1. PICK c \in RoomForSender(e, src) : d \in RoomForAll(c)
  BY DEF MakeRoom
<1>2. Part(c, e) /\ Cardinality(From(c, src)) < MaxPerSender
  BY RoomOfSender
<1>3. Sound(c) /\ Bounded(c)
  BY <1>2, PartSound, SmallerBounded DEF Part
<1>4. Part(d, c) /\ Cardinality(DOMAIN d.inFlight) < MaxGlobal
  BY <1>1, <1>3, RoomOfTable
<1>5. Part(d, e)
  BY <1>2, <1>4 DEF Part
<1>6. Cardinality(From(d, src)) < MaxPerSender
  <2>1. IsFiniteSet(From(c, src)) /\ From(d, src) \subseteq From(c, src)
    BY <1>3, <1>4, FS_Subset DEF Sound, From, Part
  <2>2. /\ Cardinality(From(d, src)) <= Cardinality(From(c, src))
        /\ Cardinality(From(d, src)) \in Nat /\ Cardinality(From(c, src)) \in Nat
    BY <2>1, FS_Subset, FS_CardinalityType
  <2>3. QED
    BY <1>2, <2>2, ChunkAssumption
<1>7. CASE c = e
  BY <1>1, <1>4, <1>5, <1>6, <1>7, RoomOfTable DEF Victim
<1>8. CASE c # e
  <2>1. PICK k \in From(e, src) : /\ DOMAIN c.inFlight = DOMAIN e.inFlight \ {k}
                                  /\ Cardinality(From(e, src)) >= MaxPerSender
    BY <1>8, RoomOfSender
  <2>2. k \in DOMAIN e.inFlight /\ k[1] = src
    BY DEF From
  <2>3. Cardinality(DOMAIN c.inFlight) < MaxGlobal
    <3>1. IsFiniteSet(DOMAIN e.inFlight) /\ Cardinality(DOMAIN e.inFlight) \in Nat
      BY FS_CardinalityType DEF Sound
    <3> DEFINE S == DOMAIN e.inFlight  T == DOMAIN c.inFlight
    <3>2. T = S \ {k} /\ k \in S /\ IsFiniteSet(S) /\ Cardinality(S) \in Nat
      BY <2>1, <2>2, <3>1
    <3>3. Cardinality(S) <= MaxGlobal
      BY DEF Bounded
    <3> HIDE DEF S, T
    <3>4. Cardinality(T) = Cardinality(S) - 1
      BY <3>2, FS_RemoveElement
    <3>5. Cardinality(T) < MaxGlobal
      BY <3>2, <3>3, <3>4, ChunkAssumption
    <3> QED
      BY <3>5 DEF T
  <2>4. d = c
    <3>1. Cardinality(DOMAIN c.inFlight) \in Nat
      BY <1>3, FS_CardinalityType DEF Sound
    <3>2. QED
      BY <1>1, <2>3, <3>1, ChunkAssumption DEF RoomForAll
  <2>5. QED
    BY <1>4, <1>5, <1>6, <2>1, <2>2, <2>4 DEF Victim
<1>9. QED
  BY <1>7, <1>8

-----------------------------------------------------------------------------
\* Only chunks that come from their sender itself are authentic.
LEMMA ChunkKinds ==
  /\ \A p \in Direct : /\ Authentic(p) /\ p.src \in Sources /\ p.idx \in 0..(p.total - 1)
                       /\ \E m \in Messages : Key(p) = Key(m) /\ p.total = m.total
  /\ \A p \in Relayed : ~Authentic(p) /\ p.src \in Sources
BY DEF Direct, Relayed, Authentic, Sources, Key

\* The entry of a message once a chunk of it is stored.
Stored(e, p) ==
  LET entry == IF Key(p) \in DOMAIN e.inFlight THEN e.inFlight[Key(p)] ELSE NewEntry(p.total)
  IN IF p.idx \in entry.received THEN entry ELSE [entry EXCEPT !.received = @ \cup {p.idx}, !.quiet = 0]

LEMMA StoredInv ==
  ASSUME NEW e, Sound(e), NEW p \in Direct, Missing(Stored(e, p)) # {}
  PROVE  /\ EntryInv(Key(p), Stored(e, p))
         /\ Key(p) \notin DOMAIN e.inFlight => Stored(e, p).age = 0
<1>1. PICK m \in Messages : Key(p) = Key(m) /\ p.total = m.total
  BY ChunkKinds
<1>2. p.idx \in 0..(p.total - 1) /\ p.total \in Nat
  BY <1>1, ChunkKinds, EngineAssumption
<1>3. CASE Key(p) \in DOMAIN e.inFlight
  <2> DEFINE entry == e.inFlight[Key(p)]
  <2>1. EntryInv(Key(p), entry)
    BY <1>3 DEF Sound
  <2>2. entry.total = p.total
    BY <1>1, <2>1, EngineAssumption DEF EntryInv
  <2>3. Stored(e, p) = IF p.idx \in entry.received THEN entry
                       ELSE [entry EXCEPT !.received = @ \cup {p.idx}, !.quiet = 0]
    BY <1>3 DEF Stored
  <2> DEFINE stored == Stored(e, p)
  <2> HIDE DEF entry, stored
  <2>4. CASE p.idx \in entry.received
    BY <1>3, <2>1, <2>3, <2>4 DEF stored
  <2>5. CASE p.idx \notin entry.received
    <3>1. stored = [entry EXCEPT !.received = @ \cup {p.idx}, !.quiet = 0]
      BY <2>3, <2>5 DEF stored
    <3>2. entry \in EntryTypes /\ entry.received \cup {p.idx} \in SUBSET Nat
      BY <1>2, <2>1 DEF EntryInv, EntryTypes
    <3>3. /\ stored.total = entry.total /\ stored.received = entry.received \cup {p.idx}
          /\ stored.quiet = 0 /\ stored.age = entry.age
          /\ stored.sinceSack = entry.sinceSack /\ stored.sackCount = entry.sackCount
      BY <3>1, <3>2 DEF EntryTypes
    <3>4. stored = [total |-> stored.total, received |-> stored.received, age |-> stored.age,
                    quiet |-> stored.quiet, sinceSack |-> stored.sinceSack,
                    sackCount |-> stored.sackCount]
      BY <3>1, <3>2 DEF EntryTypes
    <3>5. stored \in EntryTypes
      BY <3>2, <3>3, <3>4 DEF EntryTypes
    <3>6. Paced(stored)
      BY <2>1, <3>2, <3>3, ChunkAssumption DEF EntryInv, EntryTypes, Paced
    <3>7. stored.received # {} /\ stored.received \subseteq 0..(stored.total - 1)
      BY <1>2, <2>1, <2>2, <3>3 DEF EntryInv
    <3>8. QED
      BY <1>1, <1>3, <2>2, <3>3, <3>5, <3>6, <3>7 DEF EntryInv, stored
  <2>6. QED
    BY <2>4, <2>5
<1>4. CASE Key(p) \notin DOMAIN e.inFlight
  <2>1. Stored(e, p) = [NewEntry(p.total) EXCEPT !.received = @ \cup {p.idx}, !.quiet = 0]
    BY <1>4 DEF Stored, NewEntry
  <2>2. Stored(e, p) = [total |-> p.total, received |-> {p.idx}, age |-> 0, quiet |-> 0,
                        sinceSack |-> SackRetry, sackCount |-> 0]
    BY <2>1 DEF NewEntry
  <2> DEFINE stored == Stored(e, p)
  <2> HIDE DEF stored
  <2>3. /\ stored \in EntryTypes
        /\ stored.received # {} /\ stored.received \subseteq 0..(stored.total - 1)
        /\ stored.total = p.total /\ stored.age = 0
    BY <1>2, <2>2, ChunkAssumption DEF stored, EntryTypes
  <2>4. Paced(stored)
    BY <2>2 DEF Paced, stored
  <2>5. QED
    BY <1>1, <2>3, <2>4 DEF EntryInv, stored
<1>5. QED
  BY <1>3, <1>4

\* Storing an authentic chunk touches no message but its own.
LEMMA StoreCases ==
  ASSUME NEW e, Sound(e), NEW p \in Direct, NEW o, o = Store(e, p)
  PROVE  \/ /\ Missing(Stored(e, p)) # {} /\ o.delivered = FALSE
            /\ o.engine = [inFlight |-> [k \in DOMAIN e.inFlight \cup {Key(p)} |->
                                           IF k = Key(p) THEN Stored(e, p) ELSE e.inFlight[k]],
                           completed |-> e.completed, outbox |-> <<>>]
         \/ /\ Missing(Stored(e, p)) = {} /\ o.delivered = TRUE
            /\ o.engine = [inFlight |-> Restrict(e.inFlight, DOMAIN e.inFlight \ {Key(p)}),
                           completed |-> [k \in DOMAIN e.completed \cup {Key(p)} |->
                                            IF k = Key(p) THEN 0 ELSE e.completed[k]],
                           outbox |-> <<>>]
<1>1. Authentic(p)
  BY ChunkKinds
<1>2. CASE Missing(Stored(e, p)) # {}
  <2>1. o = Kept([e EXCEPT !.inFlight = [k \in DOMAIN @ \cup {Key(p)} |->
                                           IF k = Key(p) THEN Stored(e, p) ELSE @[k]]])
    BY <1>1, <1>2 DEF Store, Stored
  <2>2. QED
    BY <1>2, <2>1 DEF Kept, Sound
<1>3. CASE Missing(Stored(e, p)) = {}
  <2>1. o = [engine |-> [Without(e, Key(p)) EXCEPT
                           !.completed = [k \in DOMAIN @ \cup {Key(p)} |-> IF k = Key(p) THEN 0 ELSE @[k]]],
             delivered |-> TRUE]
    BY <1>1, <1>3 DEF Store, Stored
  <2>2. Without(e, Key(p)) = [inFlight |-> Restrict(e.inFlight, DOMAIN e.inFlight \ {Key(p)}),
                              completed |-> e.completed, outbox |-> <<>>]
    BY DEF Without, Sound
  <2>3. QED
    BY <1>3, <2>1, <2>2
<1>4. QED
  BY <1>2, <1>3

\* Room for the message of p: it is in the table already, or there is a place for it.
HasRoom(e, p) ==
  \/ Key(p) \in DOMAIN e.inFlight
  \/ Cardinality(DOMAIN e.inFlight) < MaxGlobal /\ Cardinality(From(e, p.src)) < MaxPerSender

\* One more message of p's sender, for which there was room.
LEMMA OneMoreBounded ==
  ASSUME NEW e, Sound(e), Bounded(e), NEW p \in Direct, HasRoom(e, p),
         NEW d, DOMAIN d.inFlight = DOMAIN e.inFlight \cup {Key(p)}
  PROVE  IsFiniteSet(DOMAIN d.inFlight) /\ Bounded(d)
<1>1. IsFiniteSet(DOMAIN e.inFlight) /\ Cardinality(DOMAIN e.inFlight) \in Nat
  BY FS_CardinalityType DEF Sound
<1>2. /\ IsFiniteSet(DOMAIN d.inFlight)
      /\ Cardinality(DOMAIN d.inFlight) =
           IF Key(p) \in DOMAIN e.inFlight THEN Cardinality(DOMAIN e.inFlight)
           ELSE Cardinality(DOMAIN e.inFlight) + 1
  <2> DEFINE S == DOMAIN e.inFlight
  <2> HIDE DEF S
  <2>1. /\ IsFiniteSet(S \cup {Key(p)})
        /\ Cardinality(S \cup {Key(p)}) = IF Key(p) \in S THEN Cardinality(S) ELSE Cardinality(S) + 1
    BY <1>1, FS_AddElement DEF S
  <2>2. QED
    BY <2>1 DEF S
<1>3. ASSUME NEW s \in Sources
      PROVE  Cardinality(From(d, s)) <= MaxPerSender
  <2>1. IsFiniteSet(From(e, s)) /\ Cardinality(From(e, s)) \in Nat
    BY <1>1, FS_Subset, FS_CardinalityType DEF From
  <2>2. CASE s = p.src /\ Key(p) \notin DOMAIN e.inFlight
    <3>1. From(d, s) = From(e, s) \cup {Key(p)} /\ Key(p) \notin From(e, s)
      BY <2>2 DEF From, Key
    <3>2. Cardinality(From(d, s)) = Cardinality(From(e, s)) + 1
      BY <2>1, <3>1, FS_AddElement
    <3>3. QED
      BY <2>1, <2>2, <3>2, ChunkAssumption DEF HasRoom
  <2>3. CASE ~(s = p.src /\ Key(p) \notin DOMAIN e.inFlight)
    <3>1. From(d, s) = From(e, s)
      BY <2>3 DEF From, Key
    <3>2. QED
      BY <3>1 DEF Bounded
  <2>4. QED
    BY <2>2, <2>3
<1>4. Cardinality(DOMAIN d.inFlight) <= MaxGlobal
  BY <1>1, <1>2, ChunkAssumption DEF Bounded, HasRoom
<1>5. QED
  BY <1>2, <1>3, <1>4 DEF Bounded

LEMMA StoreInv ==
  ASSUME NEW e, Sound(e), Bounded(e), NEW p \in Direct \cup Relayed, NEW o, o = Store(e, p),
         HasRoom(e, p), Key(p) \notin DOMAIN e.completed
  PROVE  Sound(o.engine) /\ Bounded(o.engine) /\ (o.delivered => p \in Direct)
<1>1. CASE p \in Relayed
  <2>1. o = Kept(e)
    BY <1>1, ChunkKinds DEF Store
  <2>2. QED
    BY <2>1 DEF Kept
<1> DEFINE d == o.engine
<1>2. CASE p \in Direct /\ Missing(Stored(e, p)) # {}
  <2>1. /\ d = [inFlight |-> [k \in DOMAIN e.inFlight \cup {Key(p)} |->
                                IF k = Key(p) THEN Stored(e, p) ELSE e.inFlight[k]],
                completed |-> e.completed, outbox |-> <<>>]
    BY <1>2, StoreCases
  <2> HIDE DEF d
  <2>2. /\ d = [inFlight |-> d.inFlight, completed |-> d.completed, outbox |-> <<>>]
        /\ d.completed = e.completed
        /\ DOMAIN d.inFlight = DOMAIN e.inFlight \cup {Key(p)}
        /\ \A k \in DOMAIN d.inFlight :
             d.inFlight[k] = IF k = Key(p) THEN Stored(e, p) ELSE e.inFlight[k]
    BY <2>1
  <2>3. EntryInv(Key(p), Stored(e, p))
    BY <1>2, StoredInv
  <2>4. IsFiniteSet(DOMAIN d.inFlight) /\ Bounded(d)
    BY <1>2, <2>2, OneMoreBounded
  <2>5. Sound(d)
    BY <2>2, <2>3, <2>4 DEF Sound
  <2>6. QED
    BY <1>2, <2>4, <2>5 DEF d
<1>3. CASE p \in Direct /\ Missing(Stored(e, p)) = {}
  <2>1. d = [inFlight |-> Restrict(e.inFlight, DOMAIN e.inFlight \ {Key(p)}),
             completed |-> [k \in DOMAIN e.completed \cup {Key(p)} |->
                              IF k = Key(p) THEN 0 ELSE e.completed[k]],
             outbox |-> <<>>]
    BY <1>3, StoreCases
  <2> HIDE DEF d
  <2>2. /\ d = [inFlight |-> d.inFlight, completed |-> d.completed, outbox |-> <<>>]
        /\ DOMAIN d.inFlight = DOMAIN e.inFlight \ {Key(p)}
        /\ \A k \in DOMAIN d.inFlight : d.inFlight[k] = e.inFlight[k]
        /\ DOMAIN d.completed = DOMAIN e.completed \cup {Key(p)}
        /\ \A k \in DOMAIN d.completed : d.completed[k] = IF k = Key(p) THEN 0 ELSE e.completed[k]
    BY <2>1 DEF Restrict
  <2>3. IsFiniteSet(DOMAIN d.inFlight)
    BY <2>2, FS_Subset DEF Sound
  <2>4. Sound(d)
    BY <2>2, <2>3 DEF Sound
  <2>5. Bounded(d)
    BY <2>2, SmallerBounded
  <2>6. QED
    BY <1>3, <2>4, <2>5 DEF d
<1>4. QED
  BY <1>1, <1>2, <1>3

\* What a chunk is stored into, unless it is refused.
Rooms(e, p) == IF Key(p) \in DOMAIN e.inFlight THEN {e} ELSE MakeRoom(e, p.src)

LEMMA RoomsSound ==
  ASSUME NEW e, Sound(e), Bounded(e), NEW p \in Direct \cup Relayed, NEW d \in Rooms(e, p)
  PROVE  /\ Sound(d) /\ Bounded(d) /\ Part(d, e) /\ HasRoom(d, p)
         /\ \/ d = e
            \/ \E k \in DOMAIN e.inFlight : /\ DOMAIN d.inFlight = DOMAIN e.inFlight \ {k}
                                            /\ Victim(e, p.src, k)
<1>1. p.src \in Sources
  BY ChunkKinds
<1>2. CASE Key(p) \in DOMAIN e.inFlight
  <2>1. d = e
    BY <1>2 DEF Rooms
  <2>2. Part(e, e)
    BY DEF Part, Sound
  <2>3. QED
    BY <1>2, <2>1, <2>2 DEF HasRoom
<1>3. CASE Key(p) \notin DOMAIN e.inFlight
  <2>1. d \in MakeRoom(e, p.src)
    BY <1>3 DEF Rooms
  <2>2. Part(d, e)
    BY <1>1, <2>1, RoomMade
  <2>3. Sound(d) /\ Bounded(d)
    BY <2>2, PartSound, SmallerBounded DEF Part
  <2>4. QED
    BY <1>1, <2>1, <2>2, <2>3, RoomMade DEF HasRoom
<1>4. QED
  BY <1>2, <1>3

\* ingest_packet in two cases: the packet is refused, or stored where there is room.
LEMMA IngestCases ==
  ASSUME NEW e, NEW p \in Direct \cup Relayed, NEW o \in Ingest(e, p)
  PROVE  \/ o = Kept(Purge(e))
         \/ /\ Key(p) \notin DOMAIN Purge(e).completed
            /\ \E d \in Rooms(Purge(e), p) : o = Store(d, p)
BY DEF Ingest, Rooms

LEMMA IngestInv ==
  ASSUME NEW e, Sound(e), Bounded(e), NEW p \in Direct \cup Relayed, NEW o \in Ingest(e, p)
  PROVE  Sound(o.engine) /\ Bounded(o.engine) /\ (o.delivered => p \in Direct)
<1>1. Sound(Purge(e)) /\ Bounded(Purge(e))
  BY PurgeSound, SmallerBounded
<1>2. CASE o = Kept(Purge(e))
  BY <1>1, <1>2 DEF Kept
<1>3. CASE /\ Key(p) \notin DOMAIN Purge(e).completed
           /\ \E d \in Rooms(Purge(e), p) : o = Store(d, p)
  <2>1. PICK d \in Rooms(Purge(e), p) : o = Store(d, p)
    BY <1>3
  <2>2. /\ Sound(d) /\ Bounded(d) /\ HasRoom(d, p) /\ d.completed = Purge(e).completed
    BY <1>1, RoomsSound DEF Part
  <2>3. QED
    BY <1>3, <2>1, <2>2, StoreInv
<1>4. QED
  BY <1>2, <1>3, IngestCases

-----------------------------------------------------------------------------
\* Steps that leave every message where it is, and change when it was heard of.
LEMMA RetimedEntry ==
  ASSUME NEW k, NEW x, EntryInv(k, x),
         NEW y \in EntryTypes, y.total = x.total, y.received = x.received, Paced(y)
  PROVE  EntryInv(k, y)
BY DEF EntryInv, Missing

LEMMA RetimedTable ==
  ASSUME NEW e, Sound(e), Bounded(e),
         NEW d, d = [inFlight |-> d.inFlight, completed |-> d.completed, outbox |-> <<>>],
         DOMAIN d.inFlight = DOMAIN e.inFlight,
         \A k \in DOMAIN d.inFlight : EntryInv(k, d.inFlight[k]),
         DOMAIN d.completed = DOMAIN e.completed,
         \A k \in DOMAIN d.completed : d.completed[k] \in Nat
  PROVE  Sound(d) /\ Bounded(d)
<1>1. Sound(d)
  BY DEF Sound
<1>2. QED
  BY <1>1, SmallerBounded

\* n intervals and one more, and that no more than MaxSackRetries of them are counted.
LEMMA Intervals ==
  /\ \A n \in Nat \ {0} : /\ (n - 1) * SackRetry \in Nat
                          /\ (n - 1) * SackRetry + SackRetry = n * SackRetry
  /\ \A n \in 1..MaxSackRetries : SackDelay + n * SackRetry <= AgeLimit
<1>1. \A n \in Nat \ {0} : /\ (n - 1) * SackRetry \in Nat
                           /\ (n - 1) * SackRetry + SackRetry = n * SackRetry
  BY ChunkAssumption, Z3
<1>2. ASSUME NEW n \in 1..MaxSackRetries
      PROVE  n * SackRetry <= MaxSackRetries * SackRetry
  BY <1>2, ChunkAssumption, Z3
<1>3. \A n \in 1..MaxSackRetries : n * SackRetry \in Nat /\ MaxSackRetries * SackRetry \in Nat
  BY ChunkAssumption, Z3
<1>4. QED
  BY <1>1, <1>2, <1>3, ChunkAssumption

LEMMA TickInv ==
  ASSUME NEW e, Sound(e), Bounded(e)
  PROVE  Sound(Tick(e)) /\ Bounded(Tick(e))
<1> DEFINE d == Tick(e)
<1>1. /\ DOMAIN d.inFlight = DOMAIN e.inFlight /\ DOMAIN d.completed = DOMAIN e.completed
      /\ \A k \in DOMAIN d.inFlight :
           d.inFlight[k] = [e.inFlight[k] EXCEPT !.age = Older(@, AgeLimit), !.quiet = Older(@, Timeout),
                                                 !.sinceSack = Older(@, SackRetry)]
      /\ \A k \in DOMAIN d.completed : d.completed[k] = Older(e.completed[k], CacheTtl)
  BY DEF Tick
<1>2. d = [inFlight |-> d.inFlight, completed |-> d.completed, outbox |-> <<>>]
  <2>1. e.outbox = <<>>
    BY DEF Sound
  <2>2. DOMAIN e.outbox = {}
    BY <2>1
  <2>3. [m \in DOMAIN e.outbox |-> [e.outbox[m] EXCEPT !.age = Older(@, CacheTtl)]] = <<>>
    BY <2>2
  <2>4. QED
    BY <2>3 DEF Tick
<1> HIDE DEF d
<1>3. ASSUME NEW k \in DOMAIN d.inFlight
      PROVE  EntryInv(k, d.inFlight[k])
  <2> DEFINE x == e.inFlight[k]
             y == d.inFlight[k]
  <2>1. EntryInv(k, x) /\ x \in EntryTypes
    BY <1>1 DEF Sound, EntryInv
  <2>2. y = [x EXCEPT !.age = Older(@, AgeLimit), !.quiet = Older(@, Timeout),
                      !.sinceSack = Older(@, SackRetry)]
    BY <1>1
  <2> HIDE DEF x, y
  <2>3. y = [total |-> x.total, received |-> x.received, age |-> Older(x.age, AgeLimit),
             quiet |-> Older(x.quiet, Timeout), sinceSack |-> Older(x.sinceSack, SackRetry),
             sackCount |-> x.sackCount]
    BY <2>1, <2>2 DEF EntryTypes
  <2>4. y \in EntryTypes
    BY <2>1, <2>3, ChunkAssumption DEF EntryTypes, Older
  <2>5. Paced(y)
    <3>1. /\ x.age \in 0..AgeLimit /\ x.quiet \in Nat /\ x.sinceSack \in 0..SackRetry
          /\ x.sackCount \in 0..MaxSackRetries /\ Paced(x)
      BY <2>1 DEF EntryTypes, EntryInv
    <3>2. y.quiet <= y.age \/ y.age = AgeLimit
      BY <2>3, <3>1, ChunkAssumption DEF Paced, Older
    <3>3. ASSUME x.sackCount > 0
          PROVE  y.age >= SackDelay + (x.sackCount - 1) * SackRetry + y.sinceSack
      <4> DEFINE t == (x.sackCount - 1) * SackRetry
      <4>1. t \in Nat /\ SackDelay + t + SackRetry <= AgeLimit
        <5>1. x.sackCount \in 1..MaxSackRetries /\ x.sackCount \in Nat \ {0}
          BY <3>1, <3>3, ChunkAssumption
        <5>2. t \in Nat /\ t + SackRetry = x.sackCount * SackRetry
          BY <5>1, Intervals
        <5>3. SackDelay + x.sackCount * SackRetry <= AgeLimit
          BY <5>1, Intervals
        <5>4. QED
          BY <5>2, <5>3, ChunkAssumption
      <4>2. x.age >= SackDelay + t + x.sinceSack
        BY <3>1, <3>3 DEF Paced
      <4> HIDE DEF t
      <4>3. y.age >= SackDelay + t + y.sinceSack
        BY <2>3, <3>1, <4>1, <4>2, ChunkAssumption DEF Older
      <4>4. QED
        BY <4>3 DEF t
    <3>4. QED
      BY <2>3, <3>2, <3>3 DEF Paced
  <2>6. QED
    BY <2>1, <2>3, <2>4, <2>5, RetimedEntry DEF y
<1>4. \A k \in DOMAIN d.completed : d.completed[k] \in Nat
  <2>1. \A n \in Nat : Older(n, CacheTtl) \in Nat
    BY ChunkAssumption DEF Older
  <2>2. \A k \in DOMAIN e.completed : e.completed[k] \in Nat
    BY DEF Sound
  <2>3. QED
    BY <1>1, <2>1, <2>2
<1>5. QED
  BY <1>1, <1>2, <1>3, <1>4, RetimedTable DEF d

LEMMA SuppressInv ==
  ASSUME NEW e, Sound(e), Bounded(e), NEW msg
  PROVE  Sound(SuppressSack(e, msg)) /\ Bounded(SuppressSack(e, msg))
<1> DEFINE d == SuppressSack(e, msg)
<1>1. /\ d = [inFlight |-> d.inFlight, completed |-> e.completed, outbox |-> <<>>]
      /\ DOMAIN d.inFlight = DOMAIN e.inFlight
      /\ \A k \in DOMAIN d.inFlight :
           d.inFlight[k] = IF k[2] = msg THEN [e.inFlight[k] EXCEPT !.sinceSack = 0] ELSE e.inFlight[k]
  BY DEF SuppressSack, Sound
<1> HIDE DEF d
<1>2. d.completed = e.completed
  BY <1>1
<1>3. ASSUME NEW k \in DOMAIN d.inFlight
      PROVE  EntryInv(k, d.inFlight[k])
  <2> DEFINE x == e.inFlight[k]
             y == [x EXCEPT !.sinceSack = 0]
  <2>1. EntryInv(k, x) /\ x \in EntryTypes /\ Paced(x)
    BY <1>1 DEF Sound, EntryInv
  <2> HIDE DEF x
  <2>2. y = [total |-> x.total, received |-> x.received, age |-> x.age, quiet |-> x.quiet,
             sinceSack |-> 0, sackCount |-> x.sackCount]
    BY <2>1 DEF EntryTypes
  <2> HIDE DEF y
  <2>3. y \in EntryTypes
    BY <2>1, <2>2, ChunkAssumption DEF EntryTypes
  <2>4. Paced(y)
    <3>1. /\ x.age \in Nat /\ x.sinceSack \in Nat /\ x.sackCount \in Nat
          /\ x.sackCount > 0 => (x.sackCount - 1) * SackRetry \in Nat
      BY <2>1, Intervals, ChunkAssumption DEF EntryTypes
    <3>2. QED
      BY <2>1, <2>2, <3>1, ChunkAssumption DEF Paced
  <2>5. EntryInv(k, y)
    BY <2>1, <2>2, <2>3, <2>4, RetimedEntry
  <2>6. QED
    BY <1>1, <2>1, <2>5 DEF x, y
<1>4. QED
  BY <1>1, <1>2, <1>3, RetimedTable DEF d, Sound

LEMMA CountInv ==
  ASSUME NEW e, Sound(e), Bounded(e)
  PROVE  Sound(CountSacks(e)) /\ Bounded(CountSacks(e))
<1> DEFINE d == CountSacks(e)
<1>1. d = [e EXCEPT !.inFlight = [k \in DOMAIN @ |->
             IF k \in DueForSack(e) THEN Counted(e.inFlight[k]) ELSE e.inFlight[k]]]
  BY DEF CountSacks
<1> HIDE DEF d
<1>2. /\ d = [inFlight |-> d.inFlight, completed |-> e.completed, outbox |-> <<>>]
      /\ DOMAIN d.inFlight = DOMAIN e.inFlight
      /\ \A k \in DOMAIN d.inFlight :
           d.inFlight[k] = IF k \in DueForSack(e) THEN Counted(e.inFlight[k]) ELSE e.inFlight[k]
  BY <1>1 DEF Sound
<1>3. d.completed = e.completed
  BY <1>2
<1>4. ASSUME NEW k \in DOMAIN d.inFlight
      PROVE  EntryInv(k, d.inFlight[k])
  <2> DEFINE x == e.inFlight[k]
             y == Counted(x)
  <2>1. EntryInv(k, x) /\ x \in EntryTypes /\ Paced(x)
    BY <1>2 DEF Sound, EntryInv
  <2>2. CASE k \notin DueForSack(e)
    BY <1>2, <2>1, <2>2
  <2>3. CASE k \in DueForSack(e)
    <3>1. x.quiet >= SackDelay /\ x.sackCount < MaxSackRetries /\ x.sinceSack >= SackRetry
      BY <2>3 DEF DueForSack
    <3>2. d.inFlight[k] = y
      BY <1>2, <2>3
    <3> HIDE DEF x
    <3>3. y = [x EXCEPT !.sinceSack = 0, !.sackCount = @ + 1]
      BY DEF Counted
    <3> HIDE DEF y
    <3>4. y = [total |-> x.total, received |-> x.received, age |-> x.age, quiet |-> x.quiet,
               sinceSack |-> 0, sackCount |-> x.sackCount + 1]
      BY <2>1, <3>3 DEF EntryTypes
    <3>5. y \in EntryTypes
      BY <2>1, <3>1, <3>4, ChunkAssumption DEF EntryTypes
    <3>6. /\ x.age \in Nat /\ x.quiet \in Nat /\ x.sinceSack = SackRetry /\ x.sackCount \in Nat
      BY <2>1, <3>1, ChunkAssumption DEF EntryTypes
    <3>7. y.age >= SackDelay + x.sackCount * SackRetry
      <4>1. CASE x.sackCount = 0
        <5>1. SackDelay <= AgeLimit
          BY ChunkAssumption, Z3
        <5>2. x.age >= SackDelay
          BY <2>1, <3>1, <3>6, <5>1, ChunkAssumption DEF Paced
        <5>3. x.sackCount * SackRetry = 0
          BY <4>1, ChunkAssumption
        <5>4. QED
          BY <3>4, <5>2, <5>3, ChunkAssumption
      <4>2. CASE x.sackCount > 0
        <5> DEFINE t == (x.sackCount - 1) * SackRetry
        <5>1. t \in Nat /\ t + SackRetry = x.sackCount * SackRetry
          BY <3>6, <4>2, Intervals
        <5>2. x.age >= SackDelay + t + SackRetry
          BY <2>1, <3>6, <4>2 DEF Paced
        <5> HIDE DEF t
        <5>3. QED
          BY <3>4, <3>6, <5>1, <5>2, ChunkAssumption
      <4>3. QED
        BY <3>6, <4>1, <4>2
    <3>8. Paced(y)
      <4>1. (y.sackCount - 1) * SackRetry = x.sackCount * SackRetry /\ y.sinceSack = 0
        BY <3>4, <3>6
      <4>2. y.quiet <= y.age \/ y.age = AgeLimit
        BY <2>1, <3>4 DEF Paced
      <4>3. x.sackCount * SackRetry \in Nat
        BY <3>6, ChunkAssumption
      <4>4. QED
        BY <3>7, <4>1, <4>2, <4>3, ChunkAssumption DEF Paced
    <3>9. EntryInv(k, y)
      BY <2>1, <3>4, <3>5, <3>8, RetimedEntry
    <3>10. QED
      BY <3>2, <3>9
  <2>4. QED
    BY <2>2, <2>3
<1>5. QED
  BY <1>2, <1>3, <1>4, RetimedTable DEF d, Sound

-----------------------------------------------------------------------------
LEMMA EngineStart == Init => EngineInv
<1> SUFFICES ASSUME Init PROVE EngineInv
  OBVIOUS
<1>1. /\ engine = [inFlight |-> <<>>, completed |-> <<>>, outbox |-> <<>>]
      /\ engine.inFlight = <<>> /\ engine.completed = <<>>
  BY DEF Init, EmptyEngine
<1>2. DOMAIN engine.inFlight = {} /\ DOMAIN engine.completed = {}
  BY <1>1
<1>3. Sound(engine)
  BY <1>1, <1>2, FS_EmptySet DEF Sound
<1>4. Bounded(engine)
  BY <1>2, FS_EmptySet, ChunkAssumption DEF Bounded, From
<1>5. QED
  BY <1>3, <1>4 DEF Init, EngineInv

LEMMA EngineStep == EngineInv /\ [Next]_vars => EngineInv'
<1> SUFFICES ASSUME EngineInv, [Next]_vars
             PROVE  EngineInv'
  OBVIOUS
<1> USE DEF EngineInv
<1>1. ASSUME NEW p \in Direct \cup Relayed, Receive(p)
      PROVE  EngineInv'
  <2>1. PICK o \in Ingest(engine, p) : /\ engine' = o.engine
                                       /\ delivered' = IF o.delivered THEN Key(p) ELSE None
    BY <1>1 DEF Receive
  <2>2. Sound(o.engine) /\ Bounded(o.engine) /\ (o.delivered => p \in Direct)
    BY IngestInv
  <2>3. Sound(engine)' /\ Bounded(engine)'
    BY <2>1, <2>2 DEF Sound, Bounded, From
  <2>4. QED
    BY <1>1, <2>1, <2>2, <2>3 DEF Receive
<1>2. CASE PollSacks
  BY <1>2, CountInv DEF PollSacks
<1>3. ASSUME NEW m \in Messages, Overhear(m.msg)
      PROVE  EngineInv'
  BY <1>3, SuppressInv DEF Overhear
<1>4. CASE TimePasses
  BY <1>4, TickInv DEF TimePasses
<1>5. CASE UNCHANGED vars
  BY <1>5 DEF vars, Sound, Bounded, From
<1>6. QED
  BY <1>1, <1>2, <1>3, <1>4, <1>5 DEF Next

-----------------------------------------------------------------------------
\* What is in the table after a chunk was stored, whatever the chunk.
LEMMA StoreTable ==
  ASSUME NEW e, Sound(e), NEW p \in Direct \cup Relayed, NEW o, o = Store(e, p)
  PROVE  /\ o.delivered \in BOOLEAN /\ (o.delivered => Missing(Stored(e, p)) = {} /\ p \in Direct)
         /\ DOMAIN o.engine.inFlight \subseteq DOMAIN e.inFlight \cup {Key(p)}
         /\ \A k \in DOMAIN e.inFlight \ DOMAIN o.engine.inFlight : k = Key(p) /\ o.delivered
         /\ Key(p) \in DOMAIN o.engine.inFlight \ DOMAIN e.inFlight =>
              o.engine.inFlight[Key(p)].age = 0
<1>1. CASE p \in Relayed
  <2>1. o = Kept(e)
    BY <1>1, ChunkKinds DEF Store
  <2>2. QED
    BY <2>1 DEF Kept
<1>2. CASE p \in Direct /\ Missing(Stored(e, p)) # {}
  <2>1. /\ o.engine = [inFlight |-> [k \in DOMAIN e.inFlight \cup {Key(p)} |->
                                       IF k = Key(p) THEN Stored(e, p) ELSE e.inFlight[k]],
                       completed |-> e.completed, outbox |-> <<>>]
        /\ o.delivered = FALSE
    BY <1>2, StoreCases
  <2>2. DOMAIN o.engine.inFlight = DOMAIN e.inFlight \cup {Key(p)}
    BY <2>1
  <2>3. o.engine.inFlight[Key(p)] = Stored(e, p)
    BY <2>1
  <2>4. QED
    BY <1>2, <2>1, <2>2, <2>3, StoredInv
<1>3. CASE p \in Direct /\ Missing(Stored(e, p)) = {}
  <2>1. /\ o.engine = [inFlight |-> Restrict(e.inFlight, DOMAIN e.inFlight \ {Key(p)}),
                       completed |-> [k \in DOMAIN e.completed \cup {Key(p)} |->
                                        IF k = Key(p) THEN 0 ELSE e.completed[k]],
                       outbox |-> <<>>]
        /\ o.delivered = TRUE
    BY <1>3, StoreCases
  <2>2. DOMAIN o.engine.inFlight = DOMAIN e.inFlight \ {Key(p)}
    BY <2>1 DEF Restrict
  <2>3. QED
    BY <1>3, <2>1, <2>2
<1>4. QED
  BY <1>1, <1>2, <1>3

\* Purging leaves the live messages.
LEMMA PurgeLive ==
  ASSUME EngineInv
  PROVE  /\ Sound(Purge(engine)) /\ Bounded(Purge(engine))
         /\ DOMAIN Purge(engine).inFlight = Live
BY PurgeSound, SmallerBounded DEF EngineInv, Live

LEMMA LiveKeptStep ==
  ASSUME EngineInv, Next, Gone # {}
  PROVE  \E k \in Gone : /\ Gone = {k}
                         /\ \/ Cardinality({j \in Live : j[1] = k[1]}) >= MaxPerSender
                            \/ Cardinality(Live) >= MaxGlobal
<1>1. ASSUME DOMAIN engine'.inFlight = DOMAIN engine.inFlight
      PROVE  FALSE
  BY <1>1 DEF Gone, Live
<1>2. ~PollSacks
  BY <1>1 DEF PollSacks, CountSacks, EngineInv, Sound
<1>3. ~TimePasses
  <2>1. DOMAIN Tick(engine).inFlight = DOMAIN engine.inFlight
    BY DEF Tick
  <2>2. QED
    BY <1>1, <2>1 DEF TimePasses
<1>4. \A m \in Messages : ~Overhear(m.msg)
  BY <1>1 DEF Overhear, SuppressSack, EngineInv, Sound
<1>5. PICK p \in Direct \cup Relayed : Receive(p)
  BY <1>2, <1>3, <1>4 DEF Next
<1>6. PICK o \in Ingest(engine, p) : /\ engine' = o.engine
                                     /\ delivered' = IF o.delivered THEN Key(p) ELSE None
  BY <1>5 DEF Receive
<1> DEFINE e == Purge(engine)
<1>7. Sound(e) /\ Bounded(e) /\ DOMAIN e.inFlight = Live
  BY PurgeLive
<1>8. o # Kept(e)
  <2>1. ASSUME o = Kept(e) PROVE FALSE
    <3>1. DOMAIN engine'.inFlight = Live
      BY <1>6, <1>7, <2>1 DEF Kept
    <3>2. QED
      BY <3>1 DEF Gone
  <2>2. QED
    BY <2>1
<1>9. PICK d \in Rooms(e, p) : o = Store(d, p)
  BY <1>8, IngestCases
<1> HIDE DEF e
<1>10. /\ Sound(d) /\ Part(d, e)
       /\ \/ d = e
          \/ \E k \in DOMAIN e.inFlight : /\ DOMAIN d.inFlight = DOMAIN e.inFlight \ {k}
                                          /\ Victim(e, p.src, k)
  BY <1>7, RoomsSound
<1>11. Gone \cap DOMAIN d.inFlight = {}
  <2>1. \A k \in DOMAIN d.inFlight \ DOMAIN o.engine.inFlight : k = Key(p) /\ o.delivered
    BY <1>9, <1>10, StoreTable
  <2>2. QED
    BY <1>6, <2>1 DEF Gone
<1>12. Gone \subseteq Live
  BY DEF Gone
<1>13. PICK k \in Live : DOMAIN d.inFlight = Live \ {k} /\ Victim(e, p.src, k)
  BY <1>7, <1>10, <1>11, <1>12
<1>14. Gone = {k}
  BY <1>11, <1>12, <1>13
<1>15. From(e, p.src) = {j \in Live : j[1] = p.src}
  BY <1>7 DEF From
<1>16. QED
  BY <1>7, <1>13, <1>14, <1>15 DEF Victim

LEMMA NoStaleStep ==
  ASSUME EngineInv, Next, NEW k \in DOMAIN engine.inFlight \ Live
  PROVE  /\ delivered' # k
         /\ k \in DOMAIN engine'.inFlight =>
              \/ engine'.inFlight[k].received = engine.inFlight[k].received
              \/ engine'.inFlight[k].age = 0
<1>1. EntryInv(k, engine.inFlight[k]) /\ engine.inFlight[k] \in EntryTypes
  BY DEF EngineInv, Sound, EntryInv
<1>2. k # None
  BY <1>1, EngineAssumption DEF EntryInv
<1>3. CASE PollSacks
  BY <1>1, <1>2, <1>3 DEF PollSacks, CountSacks, Counted, EngineInv, Sound, EntryTypes
<1>4. CASE TimePasses
  BY <1>1, <1>2, <1>4 DEF TimePasses, Tick, EntryTypes
<1>5. CASE \E m \in Messages : Overhear(m.msg)
  BY <1>1, <1>2, <1>5 DEF Overhear, SuppressSack, EngineInv, Sound, EntryTypes
<1>6. CASE \E p \in Direct \cup Relayed : Receive(p)
  <2>1. PICK p \in Direct \cup Relayed : Receive(p)
    BY <1>6
  <2>2. PICK o \in Ingest(engine, p) : /\ engine' = o.engine
                                       /\ delivered' = IF o.delivered THEN Key(p) ELSE None
    BY <2>1 DEF Receive
  <2> DEFINE e == Purge(engine)
  <2>3. Sound(e) /\ Bounded(e) /\ k \notin DOMAIN e.inFlight
    BY PurgeLive
  <2>4. CASE o = Kept(e)
    BY <1>2, <2>2, <2>3, <2>4 DEF Kept
  <2>5. CASE o # Kept(e)
    <3>1. PICK d \in Rooms(e, p) : o = Store(d, p)
      BY <2>5, IngestCases
    <3> HIDE DEF e
    <3>2. Sound(d) /\ k \notin DOMAIN d.inFlight
      BY <2>3, RoomsSound DEF Part
    <3>3. CASE k # Key(p)
      BY <1>2, <2>2, <3>1, <3>2, <3>3, StoreTable
    <3>4. CASE k = Key(p)
      <4>1. o.delivered => Missing(Stored(d, p)) = {} /\ p \in Direct
        BY <3>1, <3>2, StoreTable
      <4>2. ASSUME p \in Direct PROVE Missing(Stored(d, p)) # {}
        <5>1. PICK m \in Messages : Key(p) = Key(m) /\ p.total = m.total
          BY <4>2, ChunkKinds
        <5>2. engine.inFlight[k].total = p.total /\ p.total \in Nat
          BY <1>1, <3>4, <5>1, EngineAssumption DEF EntryInv
        <5>3. PICK i, j \in 0..(p.total - 1) : i # j
          BY <1>1, <5>2 DEF EntryInv, Missing
        <5>4. /\ Stored(d, p).received = {p.idx} /\ Stored(d, p).total = p.total
          BY <3>2, <3>4 DEF Stored, NewEntry
        <5>5. QED
          BY <5>3, <5>4 DEF Missing
      <4>3. ~o.delivered
        BY <4>1, <4>2
      <4>4. QED
        BY <1>2, <2>2, <3>1, <3>2, <3>4, <4>3, StoreTable
    <3>5. QED
      BY <3>3, <3>4
  <2>6. QED
    BY <2>4, <2>5
<1>7. QED
  BY <1>3, <1>4, <1>5, <1>6 DEF Next

-----------------------------------------------------------------------------
\* The tables keep their types, and no message is asked for more than MaxSackRetries
\* times (chunk.rs:274).
THEOREM TypeCorrect == Spec => []TypeOK
<1>1. EngineInv => TypeOK
  <2> SUFFICES ASSUME EngineInv PROVE TypeOK
    OBVIOUS
  <2>1. ASSUME NEW k \in DOMAIN engine.inFlight
        PROVE  engine.inFlight[k] \in Entries
    <3>1. engine.inFlight[k] \in EntryTypes
      BY DEF EngineInv, Sound, EntryInv
    <3>2. QED
      BY <3>1, ChunkAssumption DEF EntryTypes, Entries
  <2>2. engine.outbox = <<>>
    BY DEF EngineInv, Sound
  <2>3. QED
    BY <2>1, <2>2 DEF EngineInv, Sound, TypeOK
<1>2. QED
  BY <1>1, EngineStart, EngineStep, PTL DEF Spec

\* Whatever mixture of senders, evictions and expiries comes, neither the table nor any
\* sender's share of it outgrows its limit (ingest_packet, chunk.rs:139-166).
THEOREM LimitsKept == Spec => []TablesBounded
<1>1. EngineInv => TablesBounded
  BY DEF EngineInv, Bounded, TablesBounded
<1>2. QED
  BY <1>1, EngineStart, EngineStep, PTL DEF Spec

\* A message that is remembered as completed is not in the table, and what is in the
\* table is unfinished: no late duplicate starts a second copy (chunk.rs:134-137).
THEOREM FinishedAreOut == Spec => []FinishedLeaveTheTable
<1>1. EngineInv => FinishedLeaveTheTable
  BY DEF EngineInv, Sound, EntryInv, FinishedLeaveTheTable
<1>2. QED
  BY <1>1, EngineStart, EngineStep, PTL DEF Spec

\* The n-th SACK for a message is sent at the earliest the first delay and n - 1
\* intervals after its first chunk (check_pending_sacks, chunk.rs:253-312).
THEOREM NoSackStorm == Spec => []SacksPaced
<1>1. EngineInv => SacksPaced
  <2> SUFFICES ASSUME EngineInv, NEW k \in DOMAIN engine.inFlight, engine.inFlight[k].sackCount > 0
               PROVE  engine.inFlight[k].age >=
                        SackDelay + (engine.inFlight[k].sackCount - 1) * SackRetry
    BY DEF SacksPaced
  <2> DEFINE x == engine.inFlight[k]
  <2>1. x \in EntryTypes /\ Paced(x)
    BY DEF EngineInv, Sound, EntryInv
  <2> HIDE DEF x
  <2>2. x.sackCount > 0 /\ x.sackCount \in Nat \ {0}
    <3>1. x.sackCount > 0
      BY DEF x
    <3>2. QED
      BY <2>1, <3>1, ChunkAssumption DEF EntryTypes
  <2>3. (x.sackCount - 1) * SackRetry \in Nat
    BY <2>2, Intervals
  <2>4. x.age \in Nat /\ x.sinceSack \in Nat
    BY <2>1, ChunkAssumption DEF EntryTypes
  <2>5. QED
    BY <2>1, <2>2, <2>3, <2>4, ChunkAssumption DEF Paced, x
<1>2. QED
  BY <1>1, EngineStart, EngineStep, PTL DEF Spec

\* A chunk costs one other live message at most, and that only if its sender's share or
\* the table was full: making room in the share also makes room in the table.
THEOREM OneVictim == Spec => LiveMessagesKept
<1>1. EngineInv /\ [Next]_vars =>
        [Gone # {} => \E k \in Gone : /\ Gone = {k}
                                      /\ \/ Cardinality({j \in Live : j[1] = k[1]}) >= MaxPerSender
                                         \/ Cardinality(Live) >= MaxGlobal]_vars
  BY LiveKeptStep
<1>2. QED
  BY <1>1, EngineStart, EngineStep, PTL DEF Spec, LiveMessagesKept

\* Chunks more than Timeout apart are never put together (purge_expired runs first in
\* ingest_packet): an expired message is not delivered, and starts afresh.
THEOREM NeverStale == Spec => NoStaleAssembly
<1>1. EngineInv /\ [Next]_vars =>
        [\A k \in DOMAIN engine.inFlight \ Live :
           /\ delivered' # k
           /\ k \in DOMAIN engine'.inFlight =>
                \/ engine'.inFlight[k].received = engine.inFlight[k].received
                \/ engine'.inFlight[k].age = 0]_vars
  BY NoStaleStep
<1>2. QED
  BY <1>1, EngineStart, EngineStep, PTL DEF Spec, NoStaleAssembly
=============================================================================
