------------------------- MODULE ChunkTransferProofs -------------------------
(***************************************************************************)
(* What is proved of ChunkTransfer for any number of receivers and chunks,    *)
(* any latency, losses, relays and forgetful filters: its types, and that no  *)
(* receiver is given the message twice while the caches remember it.          *)
(***************************************************************************)
EXTENDS ChunkTransfer, Integers, TLAPS

USE ChunkAssumption, TransferAssumption

TheKey == <<Sender, TheMsg>>

\* What a daemon holds: nothing but the message, which only the sender has sent.
EntryTypes == [total : {Chunks}, received : SUBSET (0..(Chunks - 1)), age : Nat, quiet : Nat,
               sinceSack : Nat, sackCount : 0..MaxSackRetries]
Sent(e) == \A m \in DOMAIN e.outbox : e.outbox[m].packets \subseteq Message /\ e.outbox[m].age \in Nat
EngineOK(e) ==
  /\ e = [inFlight |-> e.inFlight, completed |-> e.completed, outbox |-> e.outbox]
  /\ DOMAIN e.inFlight \subseteq {TheKey} /\ \A k \in DOMAIN e.inFlight : e.inFlight[k] \in EntryTypes
  /\ DOMAIN e.completed \subseteq {TheKey} /\ \A k \in DOMAIN e.completed : e.completed[k] \in Nat
  /\ DOMAIN e.outbox \subseteq {TheMsg}
  /\ e.outbox = [m \in DOMAIN e.outbox |-> [packets |-> e.outbox[m].packets, age |-> e.outbox[m].age]]
  /\ Sent(e)

\* What is in the air: the message as its sender or a relay sends it, and SACKs for it.
\* A chunk that names its sender never comes back to the sender.
Packets == [src : Daemons, origin : {Sender}, msg : {TheMsg}, idx : 0..(Chunks - 1), total : {Chunks}]
SackTypes == [msg : {TheMsg}, sender : {Sender}, missing : SUBSET (0..(Chunks - 1))]
FrameOK(f) ==
  \/ \E p \in Packets, again \in BOOLEAN : f = ChunkFrame(p, again)
  \/ \E s \in SackTypes : f = SackFrame(s)
CopyOK(c) ==
  /\ c = [to |-> c.to, frame |-> c.frame, age |-> c.age]
  /\ c.to \in Daemons /\ c.age \in 0..Latency /\ FrameOK(c.frame)
  /\ c.frame.kind = "chunk" /\ Authentic(c.frame.packet) => c.to # Sender

EnginesOK ==
  /\ engine = [d \in Daemons |-> engine[d]]
  /\ \A d \in Daemons : EngineOK(engine[d]) /\ (d # Sender => DOMAIN engine[d].outbox = {})
AirOK == \A c \in air : CopyOK(c)
CountsOK ==
  /\ seen \in [Daemons -> SUBSET (0..(Chunks - 1))]
  /\ lost \in 0..MaxLost /\ relayed \in 0..MaxRelayed /\ forgets \in 0..MaxForgets
  /\ deliveries \in [Receivers -> Nat] /\ clash \in BOOLEAN
  /\ unsent \in 0..Chunks /\ awaiting \in BOOLEAN
TransferInv == EnginesOK /\ AirOK /\ CountsOK

-----------------------------------------------------------------------------
(* The engine *)

\* An engine that has dropped some of what it was reassembling.
Less(d, e) ==
  /\ d = [inFlight |-> d.inFlight, completed |-> e.completed, outbox |-> e.outbox]
  /\ DOMAIN d.inFlight \subseteq DOMAIN e.inFlight
  /\ \A k \in DOMAIN d.inFlight : d.inFlight[k] = e.inFlight[k]

LEMMA LessOK ==
  ASSUME NEW e, EngineOK(e), NEW d, Less(d, e)
  PROVE  EngineOK(d)
<1>1. d.completed = e.completed /\ d.outbox = e.outbox
  BY DEF Less
<1>2. d = [inFlight |-> d.inFlight, completed |-> d.completed, outbox |-> d.outbox]
  BY DEF Less
<1> QED BY <1>1, <1>2 DEF Less, EngineOK, Sent

LEMMA WithoutLess ==
  ASSUME NEW e, EngineOK(e), NEW k
  PROVE  Less(Without(e, k), e)
BY DEF Less, Without, Restrict, EngineOK

\* Whatever is evicted, room is made by dropping messages and by nothing else.
LEMMA RoomLess ==
  ASSUME NEW e, EngineOK(e), NEW src, NEW room \in MakeRoom(e, src)
  PROVE  Less(room, e)
<1>0. Less(e, e)
  BY DEF Less, EngineOK
<1>1. PICK d \in RoomForSender(e, src) : room \in RoomForAll(d)
  BY DEF MakeRoom
<1>2. Less(d, e)
  BY <1>0, <1>1, WithoutLess DEF RoomForSender, EvictOldest
<1>3. EngineOK(d)
  BY <1>2, LessOK
<1>4. Less(room, d)
  <2>1. Less(d, d)
    BY <1>3 DEF Less, EngineOK
  <2> QED BY <1>1, <1>3, <2>1, WithoutLess DEF RoomForAll, EvictOldest
<1>5. d.completed = e.completed /\ d.outbox = e.outbox
  BY <1>2 DEF Less
<1> QED BY <1>2, <1>4, <1>5 DEF Less

\* Purging keeps what is young, and changes nothing of it.
LEMMA PurgeOK ==
  ASSUME NEW e, EngineOK(e)
  PROVE  /\ EngineOK(Purge(e))
         /\ DOMAIN Purge(e).completed = {k \in DOMAIN e.completed : e.completed[k] < CacheTtl}
         /\ \A k \in DOMAIN Purge(e).completed : Purge(e).completed[k] = e.completed[k]
         /\ DOMAIN Purge(e).outbox = {m \in DOMAIN e.outbox : e.outbox[m].age < CacheTtl}
         /\ \A m \in DOMAIN Purge(e).outbox : Purge(e).outbox[m] = e.outbox[m]
<1> DEFINE d == Purge(e)
<1>1. /\ DOMAIN d.inFlight = {k \in DOMAIN e.inFlight : e.inFlight[k].quiet < Timeout}
      /\ \A k \in DOMAIN d.inFlight : d.inFlight[k] = e.inFlight[k]
  BY DEF Purge, Restrict
<1>2. /\ DOMAIN d.completed = {k \in DOMAIN e.completed : e.completed[k] < CacheTtl}
      /\ \A k \in DOMAIN d.completed : d.completed[k] = e.completed[k]
  BY DEF Purge, Restrict
<1>3. /\ DOMAIN d.outbox = {m \in DOMAIN e.outbox : e.outbox[m].age < CacheTtl}
      /\ \A m \in DOMAIN d.outbox : d.outbox[m] = e.outbox[m]
      /\ d.outbox = [m \in DOMAIN d.outbox |-> e.outbox[m]]
  BY DEF Purge, Restrict
<1>4. d = [inFlight |-> d.inFlight, completed |-> d.completed, outbox |-> d.outbox]
  BY DEF Purge
<1> HIDE DEF d
<1>5. d.outbox = [m \in DOMAIN d.outbox |-> [packets |-> d.outbox[m].packets, age |-> d.outbox[m].age]]
  BY <1>3 DEF EngineOK
<1>6. EngineOK(d)
  BY <1>1, <1>2, <1>3, <1>4, <1>5 DEF EngineOK, Sent
<1> QED BY <1>2, <1>3, <1>6 DEF d

\* Only a chunk of the message that names its sender is stored.  It completes the message
\* or it does not; nothing else of the engine changes.
LEMMA StoreOK ==
  ASSUME NEW e, EngineOK(e), NEW p \in Packets
  PROVE  /\ EngineOK(Store(e, p).engine) /\ Store(e, p).engine.outbox = e.outbox
         /\ \/ ~Store(e, p).delivered /\ Store(e, p).engine.completed = e.completed
            \/ /\ Store(e, p).delivered /\ Authentic(p)
               /\ TheKey \in DOMAIN Store(e, p).engine.completed
               /\ Store(e, p).engine.completed[TheKey] = 0
<1> DEFINE entry == IF Key(p) \in DOMAIN e.inFlight THEN e.inFlight[Key(p)] ELSE NewEntry(p.total)
           stored == IF p.idx \in entry.received THEN entry
                     ELSE [entry EXCEPT !.received = @ \cup {p.idx}, !.quiet = 0]
           waiting == [e EXCEPT !.inFlight =
                         [k \in DOMAIN @ \cup {Key(p)} |-> IF k = Key(p) THEN stored ELSE @[k]]]
           finished == [Without(e, Key(p)) EXCEPT !.completed =
                          [k \in DOMAIN @ \cup {Key(p)} |-> IF k = Key(p) THEN 0 ELSE @[k]]]
<1>1. \/ ~Authentic(p) /\ Store(e, p) = Kept(e)
      \/ Authentic(p) /\ Store(e, p) = Kept(waiting)
      \/ Authentic(p) /\ Store(e, p) = [engine |-> finished, delivered |-> TRUE]
  BY Zenon DEF Store
<1>2. ASSUME Authentic(p) PROVE Key(p) = TheKey
  BY <1>2 DEF Authentic, Packets, Key, TheKey
<1>3. entry \in EntryTypes
  <2>1. NewEntry(p.total) \in EntryTypes
    BY DEF NewEntry, EntryTypes, Packets
  <2> QED BY <2>1 DEF EngineOK
<1>4. stored \in EntryTypes
  <2> HIDE DEF entry
  <2>1. p.idx \in 0..(Chunks - 1)
    BY DEF Packets
  <2>2. [entry EXCEPT !.received = @ \cup {p.idx}, !.quiet = 0] \in EntryTypes
    BY <1>3, <2>1 DEF EntryTypes
  <2> QED BY <1>3, <2>2
<1> HIDE DEF stored
<1>5. ASSUME Authentic(p)
      PROVE  EngineOK(waiting) /\ waiting.outbox = e.outbox /\ waiting.completed = e.completed
  <2>1. waiting = [inFlight |-> waiting.inFlight, completed |-> e.completed, outbox |-> e.outbox]
    BY DEF EngineOK
  <2>2. /\ DOMAIN waiting.inFlight \subseteq {TheKey}
        /\ \A k \in DOMAIN waiting.inFlight : waiting.inFlight[k] \in EntryTypes
    BY <1>2, <1>4, <1>5 DEF EngineOK
  <2> HIDE DEF waiting
  <2>3. waiting.completed = e.completed /\ waiting.outbox = e.outbox
    BY <2>1
  <2> QED BY <2>1, <2>2, <2>3 DEF EngineOK, Sent
<1>6. ASSUME Authentic(p)
      PROVE  /\ EngineOK(finished) /\ finished.outbox = e.outbox
             /\ TheKey \in DOMAIN finished.completed /\ finished.completed[TheKey] = 0
  <2> DEFINE d == Without(e, Key(p))
  <2>1. Less(d, e)
    BY WithoutLess
  <2>2. EngineOK(d)
    BY <2>1, LessOK
  <2> HIDE DEF d
  <2>3. finished = [inFlight |-> d.inFlight, completed |-> finished.completed, outbox |-> d.outbox]
    BY <2>2 DEF EngineOK, d
  <2>4. finished.completed = [k \in DOMAIN d.completed \cup {Key(p)} |->
                                IF k = Key(p) THEN 0 ELSE d.completed[k]]
    BY <2>2 DEF EngineOK, d
  <2> HIDE DEF finished
  <2>5. /\ DOMAIN finished.completed \subseteq {TheKey}
        /\ \A k \in DOMAIN finished.completed : finished.completed[k] \in Nat
        /\ TheKey \in DOMAIN finished.completed /\ finished.completed[TheKey] = 0
    BY <1>2, <1>6, <2>2, <2>4 DEF EngineOK
  <2>6. finished.inFlight = d.inFlight /\ finished.outbox = d.outbox /\ d.outbox = e.outbox
    BY <2>1, <2>3 DEF Less
  <2>7. finished = [inFlight |-> finished.inFlight, completed |-> finished.completed,
                    outbox |-> finished.outbox]
    BY <2>3
  <2> QED BY <2>2, <2>5, <2>6, <2>7 DEF EngineOK, Sent
<1> HIDE DEF waiting, finished
<1> QED BY <1>1, <1>5, <1>6 DEF Kept

\* Hearing a chunk: the caches are purged; the message is delivered only if it is not among
\* the completed ones that are left, and then it is one of those.
LEMMA IngestOK ==
  ASSUME NEW e, EngineOK(e), NEW p \in Packets, NEW outcome \in Ingest(e, p)
  PROVE  /\ EngineOK(outcome.engine) /\ outcome.engine.outbox = Purge(e).outbox
         /\ \/ ~outcome.delivered /\ outcome.engine.completed = Purge(e).completed
            \/ /\ outcome.delivered /\ Authentic(p) /\ TheKey \notin DOMAIN Purge(e).completed
               /\ TheKey \in DOMAIN outcome.engine.completed
               /\ outcome.engine.completed[TheKey] = 0
<1> DEFINE purged == Purge(e)
<1>1. EngineOK(purged)
  BY PurgeOK
<1>2. ASSUME Authentic(p) PROVE Key(p) = TheKey
  BY <1>2 DEF Authentic, Packets, Key, TheKey
<1>3. CASE outcome = Kept(purged)
  BY <1>1, <1>3 DEF Kept
<1>4. ASSUME NEW room, Less(room, purged), outcome = Store(room, p), Key(p) \notin DOMAIN purged.completed
      PROVE  /\ EngineOK(outcome.engine) /\ outcome.engine.outbox = purged.outbox
             /\ \/ ~outcome.delivered /\ outcome.engine.completed = purged.completed
                \/ /\ outcome.delivered /\ Authentic(p) /\ TheKey \notin DOMAIN purged.completed
                   /\ TheKey \in DOMAIN outcome.engine.completed
                   /\ outcome.engine.completed[TheKey] = 0
  <2> HIDE DEF purged
  <2>1. EngineOK(room) /\ room.completed = purged.completed /\ room.outbox = purged.outbox
    BY <1>1, <1>4, LessOK DEF Less
  <2> QED BY <1>2, <1>4, <2>1, StoreOK
<1>5. Less(purged, purged)
  BY <1>1 DEF Less, EngineOK
<1>6. \/ outcome = Kept(purged)
      \/ /\ Key(p) \notin DOMAIN purged.completed
         /\ \E room \in {purged} \cup MakeRoom(purged, p.src) : outcome = Store(room, p)
  BY DEF Ingest
<1> QED BY <1>1, <1>3, <1>4, <1>5, <1>6, RoomLess

\* What the rest of the engine does leaves the completed messages alone, and what was sent.
Alike(d, e) == EngineOK(d) /\ d.completed = e.completed /\ d.outbox = e.outbox

LEMMA SuppressOK ==
  ASSUME NEW e, EngineOK(e), NEW msg
  PROVE  Alike(SuppressSack(e, msg), e)
<1> DEFINE d == SuppressSack(e, msg)
<1>1. d = [inFlight |-> d.inFlight, completed |-> e.completed, outbox |-> e.outbox]
  BY DEF SuppressSack, EngineOK
<1>2. d.inFlight = [k \in DOMAIN e.inFlight |->
                      IF k[2] = msg THEN [e.inFlight[k] EXCEPT !.sinceSack = 0] ELSE e.inFlight[k]]
  BY DEF SuppressSack, EngineOK
<1> HIDE DEF d
<1>3. ASSUME NEW k \in DOMAIN e.inFlight
      PROVE  [e.inFlight[k] EXCEPT !.sinceSack = 0] \in EntryTypes
  BY DEF EngineOK, EntryTypes
<1>4. /\ DOMAIN d.inFlight \subseteq {TheKey}
      /\ \A k \in DOMAIN d.inFlight : d.inFlight[k] \in EntryTypes
  BY <1>2, <1>3 DEF EngineOK
<1>5. d.completed = e.completed /\ d.outbox = e.outbox
  BY <1>1
<1>6. EngineOK(d)
  BY <1>1, <1>4, <1>5 DEF EngineOK, Sent
<1> QED BY <1>5, <1>6 DEF Alike, d

LEMMA CountOK ==
  ASSUME NEW e, EngineOK(e)
  PROVE  Alike(CountSacks(e), e)
<1> DEFINE d == CountSacks(e)
<1>1. d = [inFlight |-> d.inFlight, completed |-> e.completed, outbox |-> e.outbox]
  BY DEF CountSacks, EngineOK
<1>2. d.inFlight = [k \in DOMAIN e.inFlight |->
                      IF k \in DueForSack(e) THEN Counted(e.inFlight[k]) ELSE e.inFlight[k]]
  BY DEF CountSacks, EngineOK
<1> HIDE DEF d
<1>3. ASSUME NEW k \in DueForSack(e)
      PROVE  Counted(e.inFlight[k]) \in EntryTypes
  <2>1. e.inFlight[k] \in EntryTypes /\ e.inFlight[k].sackCount < MaxSackRetries
    BY DEF DueForSack, EngineOK
  <2> DEFINE x == e.inFlight[k]
  <2>2. x.sackCount + 1 \in 0..MaxSackRetries
    BY <2>1 DEF EntryTypes
  <2>3. [x EXCEPT !.sinceSack = 0, !.sackCount = @ + 1] \in EntryTypes
    <3>1. x \in EntryTypes
      BY <2>1
    <3> HIDE DEF x
    <3> QED BY <3>1, <2>2 DEF EntryTypes
  <2> QED BY <2>3 DEF Counted
<1>4. /\ DOMAIN d.inFlight \subseteq {TheKey}
      /\ \A k \in DOMAIN d.inFlight : d.inFlight[k] \in EntryTypes
  BY <1>2, <1>3 DEF EngineOK
<1>5. d.completed = e.completed /\ d.outbox = e.outbox
  BY <1>1
<1>6. EngineOK(d)
  BY <1>1, <1>4, <1>5 DEF EngineOK, Sent
<1> QED BY <1>5, <1>6 DEF Alike, d

\* A SACK asks for chunks of the message.
LEMMA SacksOK ==
  ASSUME NEW e, EngineOK(e), NEW s \in Sacks(e)
  PROVE  s \in SackTypes
<1>1. PICK k \in DueForSack(e) : s = [msg |-> k[2], sender |-> k[1], missing |-> Missing(e.inFlight[k])]
  BY DEF Sacks
<1>2. k = TheKey /\ e.inFlight[k] \in EntryTypes
  BY DEF DueForSack, EngineOK
<1>3. Missing(e.inFlight[k]) \subseteq 0..(Chunks - 1)
  BY <1>2 DEF Missing, EntryTypes
<1> QED BY <1>1, <1>2, <1>3 DEF SackTypes, TheKey

\* What answers a SACK is chunks of the message, as their sender sends them.
LEMMA AnswerOK ==
  ASSUME NEW e, EngineOK(e), NEW s
  PROVE  HandleSack(e, s) \subseteq Message
BY DEF HandleSack, EngineOK, Sent

LEMMA CacheOK ==
  ASSUME NEW e, EngineOK(e), DOMAIN e.outbox = {}
  PROVE  LET d == CacheOutbound(e, Message, TheMsg) IN
         /\ EngineOK(d) /\ d.completed = e.completed /\ d.inFlight = e.inFlight
         /\ DOMAIN d.outbox = {TheMsg} /\ d.outbox[TheMsg].age = 0
<1> DEFINE d == CacheOutbound(e, Message, TheMsg)
<1>1. Packet(0) \in Message
  BY DEF Message
<1>2. d = [e EXCEPT !.outbox = [m \in DOMAIN @ \cup {TheMsg} |->
             IF m = TheMsg THEN [packets |-> Message, age |-> 0] ELSE @[m]]]
  BY <1>1, Zenon DEF CacheOutbound
<1>3. d = [inFlight |-> e.inFlight, completed |-> e.completed, outbox |-> d.outbox]
  BY <1>2 DEF EngineOK
<1>4. d.outbox = [m \in {TheMsg} |-> [packets |-> Message, age |-> 0]]
  BY <1>2 DEF EngineOK
<1> HIDE DEF d
<1>5. /\ DOMAIN d.outbox = {TheMsg}
      /\ d.outbox[TheMsg].packets = Message /\ d.outbox[TheMsg].age = 0
  BY <1>4
<1>6. d.outbox = [m \in DOMAIN d.outbox |-> [packets |-> d.outbox[m].packets, age |-> d.outbox[m].age]]
  BY <1>4, <1>5
<1>7. d.inFlight = e.inFlight /\ d.completed = e.completed
  BY <1>3
<1>8. d = [inFlight |-> d.inFlight, completed |-> d.completed, outbox |-> d.outbox]
  BY <1>3
<1>9. EngineOK(d)
  BY <1>5, <1>6, <1>7, <1>8 DEF EngineOK, Sent
<1> QED BY <1>5, <1>7, <1>9 DEF d

\* Time: what was completed grows no older than what was sent if it was younger.
LEMMA TickOK ==
  ASSUME NEW e, EngineOK(e)
  PROVE  /\ EngineOK(Tick(e))
         /\ DOMAIN Tick(e).inFlight = DOMAIN e.inFlight
         /\ DOMAIN Tick(e).completed = DOMAIN e.completed
         /\ \A k \in DOMAIN e.completed : Tick(e).completed[k] = Older(e.completed[k], CacheTtl)
         /\ DOMAIN Tick(e).outbox = DOMAIN e.outbox
         /\ \A m \in DOMAIN e.outbox : Tick(e).outbox[m].age = Older(e.outbox[m].age, CacheTtl)
<1> DEFINE d == Tick(e)
<1>0. ASSUME NEW t \in Nat, NEW n \in Nat PROVE Older(t, n) \in Nat
  BY DEF Older
<1>1. d = [inFlight |-> d.inFlight, completed |-> d.completed, outbox |-> d.outbox]
  BY DEF Tick
<1>2. d.inFlight = [k \in DOMAIN e.inFlight |->
        [e.inFlight[k] EXCEPT !.age = Older(@, AgeLimit), !.quiet = Older(@, Timeout),
                              !.sinceSack = Older(@, SackRetry)]]
  BY DEF Tick
<1>3. d.completed = [k \in DOMAIN e.completed |-> Older(e.completed[k], CacheTtl)]
  BY DEF Tick
<1>4. d.outbox = [m \in DOMAIN e.outbox |-> [e.outbox[m] EXCEPT !.age = Older(@, CacheTtl)]]
  BY DEF Tick
<1> HIDE DEF d
<1>5. ASSUME NEW k \in DOMAIN e.inFlight
      PROVE  [e.inFlight[k] EXCEPT !.age = Older(@, AgeLimit), !.quiet = Older(@, Timeout),
                                   !.sinceSack = Older(@, SackRetry)] \in EntryTypes
  <2> DEFINE x == e.inFlight[k]
  <2>1. x \in EntryTypes
    BY DEF EngineOK
  <2>2. /\ Older(x.age, AgeLimit) \in Nat /\ Older(x.quiet, Timeout) \in Nat
        /\ Older(x.sinceSack, SackRetry) \in Nat
    BY <1>0, <2>1 DEF EntryTypes
  <2> HIDE DEF x
  <2>3. [x EXCEPT !.age = Older(@, AgeLimit), !.quiet = Older(@, Timeout),
                  !.sinceSack = Older(@, SackRetry)] \in EntryTypes
    BY <2>1, <2>2 DEF EntryTypes
  <2> QED BY <2>3 DEF x
<1>6. /\ DOMAIN d.inFlight \subseteq {TheKey}
      /\ \A k \in DOMAIN d.inFlight : d.inFlight[k] \in EntryTypes
  BY <1>2, <1>5 DEF EngineOK
<1>7. /\ DOMAIN d.completed \subseteq {TheKey}
      /\ \A k \in DOMAIN d.completed : d.completed[k] \in Nat
  BY <1>0, <1>3 DEF EngineOK
<1>8. ASSUME NEW m \in DOMAIN e.outbox
      PROVE  d.outbox[m] = [packets |-> e.outbox[m].packets, age |-> Older(e.outbox[m].age, CacheTtl)]
  <2> DEFINE x == e.outbox[m]
  <2>1. x = [packets |-> x.packets, age |-> x.age]
    BY DEF EngineOK
  <2>2. d.outbox[m] = [x EXCEPT !.age = Older(@, CacheTtl)]
    BY <1>4
  <2> HIDE DEF x
  <2>3. [x EXCEPT !.age = Older(@, CacheTtl)] = [packets |-> x.packets, age |-> Older(x.age, CacheTtl)]
    BY <2>1
  <2> QED BY <2>2, <2>3 DEF x
<1>9. ASSUME NEW m \in DOMAIN e.outbox
      PROVE  /\ d.outbox[m].packets = e.outbox[m].packets
             /\ d.outbox[m].age = Older(e.outbox[m].age, CacheTtl)
             /\ d.outbox[m] = [packets |-> d.outbox[m].packets, age |-> d.outbox[m].age]
  <2>1. d.outbox[m] = [packets |-> e.outbox[m].packets, age |-> Older(e.outbox[m].age, CacheTtl)]
    BY <1>8
  <2> DEFINE x == d.outbox[m]
  <2> HIDE DEF x
  <2>2. x = [packets |-> e.outbox[m].packets, age |-> Older(e.outbox[m].age, CacheTtl)]
    BY <2>1 DEF x
  <2>3. x.packets = e.outbox[m].packets /\ x.age = Older(e.outbox[m].age, CacheTtl)
    BY <2>2
  <2> QED BY <2>2, <2>3 DEF x
<1>10. /\ DOMAIN d.outbox = DOMAIN e.outbox
       /\ d.outbox = [m \in DOMAIN d.outbox |-> [packets |-> d.outbox[m].packets, age |-> d.outbox[m].age]]
       /\ Sent(d)
  <2>1. DOMAIN d.outbox = DOMAIN e.outbox /\ d.outbox = [m \in DOMAIN d.outbox |-> d.outbox[m]]
    BY <1>4
  <2>2. Sent(d)
    <3> SUFFICES ASSUME NEW m \in DOMAIN e.outbox
                 PROVE  d.outbox[m].packets \subseteq Message /\ d.outbox[m].age \in Nat
      BY <2>1 DEF Sent
    <3>1. d.outbox[m].packets = e.outbox[m].packets /\ d.outbox[m].age = Older(e.outbox[m].age, CacheTtl)
      BY <1>9
    <3>2. e.outbox[m].packets \subseteq Message /\ e.outbox[m].age \in Nat
      BY DEF EngineOK, Sent
    <3> QED BY <1>0, <3>1, <3>2
  <2> QED BY <1>9, <2>1, <2>2
<1>11. EngineOK(d)
  BY <1>1, <1>6, <1>7, <1>10 DEF EngineOK
<1>12. /\ DOMAIN d.inFlight = DOMAIN e.inFlight /\ DOMAIN d.completed = DOMAIN e.completed
       /\ \A k \in DOMAIN e.completed : d.completed[k] = Older(e.completed[k], CacheTtl)
       /\ \A m \in DOMAIN e.outbox : d.outbox[m].age = Older(e.outbox[m].age, CacheTtl)
  BY <1>2, <1>3, <1>9, <1>10
<1> QED BY <1>10, <1>11, <1>12 DEF d

-----------------------------------------------------------------------------
(* The air *)

\* A frame with a key that a filter may have, and what it is made of.
LEMMA FrameParts ==
  ASSUME NEW f, FrameOK(f)
  PROVE  /\ FilterKey(f) \in 0..(Chunks - 1)
         /\ \/ f.kind = "chunk" /\ f.packet \in Packets /\ f = ChunkFrame(f.packet, f.again)
            \/ f.kind = "sack" /\ f.sack \in SackTypes
<1>1. CASE \E p \in Packets, again \in BOOLEAN : f = ChunkFrame(p, again)
  <2>1. PICK p \in Packets, again \in BOOLEAN : f = ChunkFrame(p, again)
    BY <1>1
  <2>2. f.kind = "chunk" /\ f.packet = p /\ f.again = again
    BY <2>1 DEF ChunkFrame
  <2>3. p.idx \in 0..(Chunks - 1)
    BY DEF Packets
  <2> QED BY <2>1, <2>2, <2>3 DEF FilterKey
<1>2. CASE \E s \in SackTypes : f = SackFrame(s)
  BY <1>2 DEF SackFrame, FilterKey
<1> QED BY <1>1, <1>2 DEF FrameOK

LEMMA KeysOK ==
  ASSUME NEW frames, \A f \in frames : FrameOK(f)
  PROVE  KeysOf(frames) \subseteq 0..(Chunks - 1)
BY FrameParts DEF KeysOf

\* What may be broadcast, and that it is well-formed in the air.
LEMMA BroadcastOK ==
  ASSUME NEW d \in Daemons, NEW frames, \A f \in frames : FrameOK(f),
         d = Sender \/ \A f \in frames : ~(f.kind = "chunk" /\ Authentic(f.packet)),
         NEW c \in Broadcast(d, frames)
  PROVE  CopyOK(c)
BY DEF Broadcast, CopyOK

\* Chunks that the sender sends, at first or again.
LEMMA MessageFrames ==
  ASSUME NEW S, S \subseteq Message, NEW again \in BOOLEAN
  PROVE  \A f \in {ChunkFrame(p, again) : p \in S} : FrameOK(f)
<1>1. Message \subseteq Packets
  BY DEF Message, Packet, Packets, Daemons
<1> QED BY <1>1 DEF FrameOK

\* A relayed chunk names the relay, a relayed SACK stays what it is.
LEMMA RelayedOK ==
  ASSUME NEW c, CopyOK(c), FirstHop(c)
  PROVE  /\ FrameOK(Relayed(c))
         /\ ~(Relayed(c).kind = "chunk" /\ Authentic(Relayed(c).packet))
<1> DEFINE f == c.frame
<1>1. CASE f.kind = "sack"
  BY <1>1, FrameParts DEF Relayed, CopyOK
<1>2. CASE f.kind = "chunk" /\ f.packet \in Packets /\ f = ChunkFrame(f.packet, f.again)
  <2> DEFINE p == [f.packet EXCEPT !.src = c.to]
  <2>1. f.again \in BOOLEAN
    <3>1. PICK q \in Packets, again \in BOOLEAN : f = ChunkFrame(q, again)
      BY <1>2 DEF CopyOK, FrameOK, SackFrame
    <3> QED BY <3>1 DEF ChunkFrame
  <2>2. c.to \in Daemons /\ c.to # Sender
    BY <1>2 DEF CopyOK, FirstHop
  <2>3. p \in Packets /\ p.src = c.to /\ p.origin = Sender
    BY <1>2, <2>2 DEF Packets
  <2>4. Relayed(c) = ChunkFrame(p, f.again)
    <3>1. Relayed(c) = [f EXCEPT !.packet.src = c.to]
      BY <1>2 DEF Relayed
    <3>2. f = [kind |-> "chunk", packet |-> f.packet, again |-> f.again]
      BY <1>2 DEF ChunkFrame
    <3> HIDE DEF f
    <3> QED BY <3>1, <3>2 DEF ChunkFrame
  <2> HIDE DEF p
  <2>5. Relayed(c).kind = "chunk" /\ Relayed(c).packet = p
    BY <2>4 DEF ChunkFrame
  <2> QED BY <2>1, <2>2, <2>3, <2>4, <2>5 DEF FrameOK, Authentic
<1> QED BY <1>1, <1>2, FrameParts DEF CopyOK

\* A dongle takes a frame, remembers it with its daemon's answer, and sends both on or one.
LEMMA AcceptOK ==
  ASSUME TransferInv, NEW c \in air, NEW answer, Accept(c, answer),
         \A f \in answer : FrameOK(f), c.to = Sender \/ answer = {}
  PROVE  AirOK' /\ seen' \in [Daemons -> SUBSET (0..(Chunks - 1))] /\ relayed' \in 0..MaxRelayed
<1>1. CopyOK(c) /\ c.to \in Daemons /\ FrameOK(c.frame)
  BY DEF TransferInv, AirOK, CopyOK
<1>2. AirOK' /\ relayed' \in 0..MaxRelayed
  <2>1. CASE air' = (air \ {c}) \cup Broadcast(c.to, answer) /\ UNCHANGED relayed
    BY <1>1, <2>1, BroadcastOK DEF TransferInv, AirOK, CountsOK
  <2>2. CASE /\ FirstHop(c) /\ relayed < MaxRelayed /\ relayed' = relayed + 1
             /\ air' = (air \ {c}) \cup Broadcast(c.to, answer \cup {Relayed(c)})
    <3>1. FrameOK(Relayed(c)) /\ ~(Relayed(c).kind = "chunk" /\ Authentic(Relayed(c).packet))
      BY <1>1, <2>2, RelayedOK
    <3>2. \A f \in answer \cup {Relayed(c)} : FrameOK(f)
      BY <3>1
    <3>3. c.to = Sender \/ \A f \in answer \cup {Relayed(c)} : ~(f.kind = "chunk" /\ Authentic(f.packet))
      BY <3>1
    <3>4. \A b \in Broadcast(c.to, answer \cup {Relayed(c)}) : CopyOK(b)
      BY <1>1, <3>2, <3>3, BroadcastOK
    <3>5. AirOK'
      BY <2>2, <3>4, Zenon DEF TransferInv, AirOK
    <3>6. relayed' \in 0..MaxRelayed
      BY <2>2 DEF TransferInv, CountsOK
    <3> QED BY <3>5, <3>6
  <2> QED BY <2>1, <2>2 DEF Accept
<1>3. KeysOf(answer) \subseteq 0..(Chunks - 1) /\ FilterKey(c.frame) \in 0..(Chunks - 1)
  BY <1>1, KeysOK, FrameParts
<1>4. seen' \in [Daemons -> SUBSET (0..(Chunks - 1))]
  BY <1>3 DEF Accept, TransferInv, CountsOK
<1> QED BY <1>2, <1>4

-----------------------------------------------------------------------------
(* Every step keeps the types *)

LEMMA InitOK == Init => TransferInv
<1>1. EngineOK(EmptyEngine) /\ DOMAIN EmptyEngine.outbox = {}
  <2>1. EmptyEngine.inFlight = <<>> /\ EmptyEngine.completed = <<>> /\ EmptyEngine.outbox = <<>>
    BY DEF EmptyEngine
  <2>2. EmptyEngine = [inFlight |-> <<>>, completed |-> <<>>, outbox |-> <<>>]
    BY DEF EmptyEngine
  <2>3. <<>> = [m \in {} |-> [packets |-> EmptyEngine.outbox[m].packets, age |-> EmptyEngine.outbox[m].age]]
    OBVIOUS
  <2>4. DOMAIN <<>> = {}
    OBVIOUS
  <2> QED BY <2>1, <2>2, <2>3, <2>4 DEF EngineOK, Sent
<1> SUFFICES ASSUME Init PROVE TransferInv
  OBVIOUS
<1>2. EnginesOK
  <2>1. \A d \in Daemons : engine[d] = EmptyEngine
    BY DEF Init
  <2>2. engine = [d \in Daemons |-> engine[d]]
    BY DEF Init
  <2> QED BY <1>1, <2>1, <2>2 DEF EnginesOK
<1>3. AirOK /\ CountsOK
  <2>1. AirOK
    BY DEF Init, AirOK
  <2>2. seen \in [Daemons -> SUBSET (0..(Chunks - 1))] /\ deliveries \in [Receivers -> Nat]
    BY DEF Init
  <2>3. lost \in 0..MaxLost /\ relayed \in 0..MaxRelayed /\ forgets \in 0..MaxForgets
    BY DEF Init
  <2>4. clash \in BOOLEAN /\ awaiting \in BOOLEAN
    BY Zenon DEF Init
  <2>5. unsent \in 0..Chunks
    BY DEF Init
  <2> QED BY <2>1, <2>2, <2>3, <2>4, <2>5 DEF CountsOK
<1> QED BY <1>2, <1>3 DEF TransferInv

\* What a step does to one engine.
LEMMA OneEngine ==
  ASSUME EnginesOK, NEW d \in Daemons, NEW e, EngineOK(e),
         d # Sender => DOMAIN e.outbox = {}, engine' = [engine EXCEPT ![d] = e]
  PROVE  EnginesOK'
<1>1. engine' = [b \in Daemons |-> IF b = d THEN e ELSE engine[b]]
  BY DEF EnginesOK
<1>2. \A b \in Daemons : engine'[b] = IF b = d THEN e ELSE engine[b]
  BY <1>1
<1>3. engine' = [b \in Daemons |-> engine'[b]]
  BY <1>1
<1>4. \A b \in Daemons : EngineOK(engine'[b]) /\ (b # Sender => DOMAIN engine'[b].outbox = {})
  BY <1>2 DEF EnginesOK
<1>5. QED
  BY <1>3, <1>4 DEF EnginesOK, EngineOK, Sent

LEMMA SendKeeps ==
  ASSUME TransferInv, Send
  PROVE  TransferInv'
<1> DEFINE e == CacheOutbound(engine[Sender], Message, TheMsg)
<1> HIDE DEF e
<1>1. EngineOK(engine[Sender]) /\ DOMAIN engine[Sender].outbox = {} /\ Sender \in Daemons
  <2>1. Sender \in Daemons
    BY DEF Daemons
  <2>2. engine[Sender].outbox = <<>> /\ DOMAIN <<>> = {}
    BY DEF Send
  <2> QED BY <2>1, <2>2 DEF TransferInv, EnginesOK
<1>2. EngineOK(e)
  BY <1>1, CacheOK DEF e
<1>3. engine' = [engine EXCEPT ![Sender] = e]
  BY DEF Send, e
<1>4. EnginesOK'
  BY <1>1, <1>2, <1>3, OneEngine DEF TransferInv
<1>5. AirOK' /\ CountsOK'
  BY DEF Send, TransferInv, AirOK, CountsOK
<1> QED BY <1>4, <1>5 DEF TransferInv

LEMMA TransmitKeeps ==
  ASSUME TransferInv, Transmit
  PROVE  TransferInv'
<1> DEFINE i == Chunks - unsent
           f == ChunkFrame(Packet(i), FALSE)
<1>1. unsent \in 1..Chunks /\ i \in 0..(Chunks - 1) /\ Sender \in Daemons
  BY DEF Transmit, TransferInv, CountsOK, Daemons
<1>2. FrameOK(f)
  <2>1. {Packet(i)} \subseteq Message
    BY <1>1 DEF Message
  <2> QED BY <2>1, MessageFrames
<1>3. /\ seen' = [seen EXCEPT ![Sender] = @ \cup {FilterKey(f)}]
      /\ air' = air \cup Broadcast(Sender, {f})
      /\ UNCHANGED <<engine, lost, relayed, forgets, deliveries, clash>>
  BY DEF Transmit
<1>4. unsent' \in 0..Chunks /\ awaiting' \in BOOLEAN
  BY <1>1 DEF Transmit
<1> HIDE DEF f
<1>5. EnginesOK'
  BY <1>3 DEF TransferInv, EnginesOK, EngineOK, Sent
<1>6. AirOK'
  <2>1. \A c \in Broadcast(Sender, {f}) : CopyOK(c)
    BY <1>1, <1>2, BroadcastOK
  <2> QED BY <1>3, <2>1 DEF TransferInv, AirOK
<1>7. CountsOK'
  <2>1. FilterKey(f) \in 0..(Chunks - 1)
    BY <1>2, FrameParts
  <2>2. seen' \in [Daemons -> SUBSET (0..(Chunks - 1))]
    BY <1>3, <2>1 DEF TransferInv, CountsOK
  <2> QED BY <1>3, <1>4, <2>2 DEF TransferInv, CountsOK
<1> QED BY <1>5, <1>6, <1>7 DEF TransferInv

LEMMA DropKeeps ==
  ASSUME TransferInv, NEW c \in air, DropKnown(c)
  PROVE  TransferInv'
<1>1. EnginesOK'
  BY DEF DropKnown, TransferInv, EnginesOK, EngineOK, Sent
<1>2. AirOK'
  BY DEF DropKnown, TransferInv, AirOK
<1>3. clash' \in BOOLEAN
  BY Zenon DEF DropKnown, sending, TransferInv, CountsOK
<1>4. CountsOK'
  BY <1>3 DEF DropKnown, sending, TransferInv, CountsOK
<1> QED BY <1>1, <1>2, <1>4 DEF TransferInv

\* A chunk that is heard: what the engine makes of it.
LEMMA Heard ==
  ASSUME TransferInv, NEW c \in air, HearChunk(c)
  PROVE  /\ c.to \in Daemons /\ c.frame.packet \in Packets /\ EngineOK(engine[c.to])
         /\ \E outcome \in Ingest(engine[c.to], c.frame.packet) :
              /\ EngineOK(outcome.engine)
              /\ engine' = [engine EXCEPT ![c.to] = outcome.engine]
              /\ deliveries' = IF outcome.delivered THEN [deliveries EXCEPT ![c.to] = @ + 1] ELSE deliveries
<1>1. CopyOK(c) /\ FrameOK(c.frame) /\ c.to \in Daemons /\ c.frame.kind = "chunk"
  BY DEF TransferInv, AirOK, CopyOK, HearChunk
<1>2. c.frame.packet \in Packets
  BY <1>1, FrameParts
<1>3. EngineOK(engine[c.to])
  BY <1>1 DEF TransferInv, EnginesOK
<1> QED BY <1>1, <1>2, <1>3, IngestOK DEF HearChunk

LEMMA HearChunkKeeps ==
  ASSUME TransferInv, NEW c \in air, HearChunk(c)
  PROVE  TransferInv'
<1>1. /\ c.to \in Daemons /\ c.frame.packet \in Packets /\ EngineOK(engine[c.to])
      /\ \E outcome \in Ingest(engine[c.to], c.frame.packet) :
           /\ EngineOK(outcome.engine)
           /\ engine' = [engine EXCEPT ![c.to] = outcome.engine]
           /\ deliveries' = IF outcome.delivered THEN [deliveries EXCEPT ![c.to] = @ + 1] ELSE deliveries
  BY Heard
<1>2. PICK outcome \in Ingest(engine[c.to], c.frame.packet) :
        /\ EngineOK(outcome.engine)
        /\ engine' = [engine EXCEPT ![c.to] = outcome.engine]
        /\ deliveries' = IF outcome.delivered THEN [deliveries EXCEPT ![c.to] = @ + 1] ELSE deliveries
  BY <1>1
<1>3. outcome.engine.outbox = Purge(engine[c.to]).outbox
  BY <1>1, IngestOK
<1>4. c.to # Sender => DOMAIN outcome.engine.outbox = {}
  BY <1>1, <1>3, PurgeOK DEF TransferInv, EnginesOK
<1>5. EnginesOK'
  BY <1>1, <1>2, <1>4, OneEngine DEF TransferInv
<1>6. /\ AirOK' /\ seen' \in [Daemons -> SUBSET (0..(Chunks - 1))] /\ relayed' \in 0..MaxRelayed
      /\ UNCHANGED <<unsent, awaiting, lost, forgets, clash>>
  <2>1. Accept(c, {})
    BY DEF HearChunk
  <2>2. UNCHANGED <<unsent, awaiting, lost, forgets, clash>>
    BY <2>1 DEF Accept, sending
  <2>3. \A f \in {} : FrameOK(f)
    OBVIOUS
  <2> QED BY <2>1, <2>2, <2>3, AcceptOK
<1>7. deliveries' \in [Receivers -> Nat]
  <2>1. [deliveries EXCEPT ![c.to] = @ + 1] \in [Receivers -> Nat]
    <3>1. deliveries \in [Receivers -> Nat]
      BY DEF TransferInv, CountsOK
    <3>2. CASE c.to \in Receivers
      BY <3>1, <3>2
    <3>3. CASE c.to \notin Receivers
      <4>1. [deliveries EXCEPT ![c.to] = @ + 1] = deliveries
        BY <3>1, <3>3
      <4> QED BY <3>1, <4>1
    <3> QED BY <3>2, <3>3
  <2>2. deliveries' = [deliveries EXCEPT ![c.to] = @ + 1] \/ deliveries' = deliveries
    BY <1>2
  <2> QED BY <2>1, <2>2 DEF TransferInv, CountsOK
<1> QED BY <1>5, <1>6, <1>7 DEF TransferInv, CountsOK

LEMMA HearSackKeeps ==
  ASSUME TransferInv, NEW c \in air, HearSack(c)
  PROVE  TransferInv'
<1> DEFINE answer == {ChunkFrame(p, TRUE) : p \in HandleSack(engine[c.to], c.frame.sack)}
           e == SuppressSack(engine[c.to], c.frame.sack.msg)
<1>1. c.to \in Daemons /\ EngineOK(engine[c.to])
  BY DEF TransferInv, AirOK, CopyOK, EnginesOK
<1>2. Alike(e, engine[c.to])
  BY <1>1, SuppressOK
<1>3. c.to # Sender => DOMAIN e.outbox = {}
  BY <1>1, <1>2 DEF Alike, TransferInv, EnginesOK
<1>4. engine' = [engine EXCEPT ![c.to] = e]
  BY DEF HearSack
<1> HIDE DEF e
<1>5. EnginesOK'
  BY <1>1, <1>2, <1>3, <1>4, OneEngine DEF TransferInv, Alike
<1>6. \A f \in answer : FrameOK(f)
  BY <1>1, AnswerOK, MessageFrames
<1>7. c.to = Sender \/ answer = {}
  <2>1. ASSUME c.to # Sender PROVE HandleSack(engine[c.to], c.frame.sack) = {}
    BY <1>1, <2>1 DEF HandleSack, TransferInv, EnginesOK
  <2> QED BY <2>1
<1>8. Accept(c, answer) /\ UNCHANGED deliveries
  BY DEF HearSack
<1> HIDE DEF answer
<1>9. AirOK' /\ seen' \in [Daemons -> SUBSET (0..(Chunks - 1))] /\ relayed' \in 0..MaxRelayed
  BY <1>6, <1>7, <1>8, AcceptOK
<1>10. UNCHANGED <<unsent, awaiting, lost, forgets, clash>>
  BY <1>8 DEF Accept, sending
<1> QED BY <1>5, <1>8, <1>9, <1>10 DEF TransferInv, CountsOK

LEMMA LoseKeeps ==
  ASSUME TransferInv, NEW c \in air, Lose(c)
  PROVE  TransferInv'
<1>1. EnginesOK'
  BY DEF Lose, TransferInv, EnginesOK, EngineOK, Sent
<1>2. AirOK'
  BY DEF Lose, TransferInv, AirOK
<1>3. lost' \in 0..MaxLost
  BY DEF Lose, sending, TransferInv, CountsOK
<1> QED BY <1>1, <1>2, <1>3 DEF Lose, sending, TransferInv, CountsOK

LEMMA PollKeeps ==
  ASSUME TransferInv, NEW d \in Daemons, PollSacks(d)
  PROVE  TransferInv'
<1> DEFINE sacks == {SackFrame(s) : s \in Sacks(engine[d])}
           e == CountSacks(engine[d])
<1>1. EngineOK(engine[d])
  BY DEF TransferInv, EnginesOK
<1>2. Alike(e, engine[d])
  BY <1>1, CountOK
<1>3. d # Sender => DOMAIN e.outbox = {}
  BY <1>2 DEF Alike, TransferInv, EnginesOK
<1>4. engine' = [engine EXCEPT ![d] = e]
  BY DEF PollSacks
<1> HIDE DEF e
<1>5. EnginesOK'
  BY <1>2, <1>3, <1>4, OneEngine DEF TransferInv, Alike
<1>6. \A f \in sacks : FrameOK(f) /\ ~(f.kind = "chunk" /\ Authentic(f.packet))
  BY <1>1, SacksOK DEF FrameOK, SackFrame
<1>7. /\ seen' = [seen EXCEPT ![d] = @ \cup KeysOf(sacks)]
      /\ air' = air \cup Broadcast(d, sacks)
  BY DEF PollSacks
<1> HIDE DEF sacks
<1>8. AirOK'
  <2>1. \A c \in Broadcast(d, sacks) : CopyOK(c)
    BY <1>6, BroadcastOK
  <2> QED BY <1>7, <2>1 DEF TransferInv, AirOK
<1>9. seen' \in [Daemons -> SUBSET (0..(Chunks - 1))]
  <2>1. KeysOf(sacks) \subseteq 0..(Chunks - 1)
    BY <1>6, KeysOK
  <2> QED BY <1>7, <2>1 DEF TransferInv, CountsOK
<1> QED BY <1>5, <1>8, <1>9 DEF PollSacks, sending, TransferInv, CountsOK

LEMMA TimeKeeps ==
  ASSUME TransferInv, TimePasses
  PROVE  TransferInv'
<1>1. EnginesOK'
  <2>1. engine' = [d \in Daemons |-> Tick(engine[d])]
    BY DEF TimePasses
  <2>2. \A d \in Daemons : engine'[d] = Tick(engine[d])
    BY <2>1
  <2>3. engine' = [d \in Daemons |-> engine'[d]]
    BY <2>1
  <2>4. \A d \in Daemons : EngineOK(engine'[d]) /\ (d # Sender => DOMAIN engine'[d].outbox = {})
    BY <2>2, TickOK DEF TransferInv, EnginesOK
  <2> QED BY <2>3, <2>4 DEF EnginesOK, EngineOK, Sent
<1>2. AirOK'
  <2> SUFFICES ASSUME NEW b \in air' PROVE CopyOK(b)
    BY DEF AirOK
  <2>1. PICK c \in air : b = [c EXCEPT !.age = Older(@, Latency)]
    BY DEF TimePasses
  <2>2. CopyOK(c)
    BY DEF TransferInv, AirOK
  <2>3. b = [to |-> c.to, frame |-> c.frame, age |-> Older(c.age, Latency)]
    BY <2>1, <2>2 DEF CopyOK
  <2>4. b.to = c.to /\ b.frame = c.frame /\ b.age = Older(c.age, Latency)
    BY <2>3
  <2>5. Older(c.age, Latency) \in 0..Latency
    BY <2>2 DEF CopyOK, Older
  <2> QED BY <2>2, <2>3, <2>4, <2>5 DEF CopyOK
<1>3. CountsOK'
  <2>1. PICK D \in SUBSET {d \in Daemons : seen[d] # {}} : Forget(D)
    BY DEF TimePasses
  <2>2. forgets' \in 0..MaxForgets
    BY <2>1 DEF Forget, TransferInv, CountsOK
  <2>3. seen' \in [Daemons -> SUBSET (0..(Chunks - 1))]
    BY <2>1 DEF Forget, TransferInv, CountsOK
  <2> QED BY <2>2, <2>3 DEF TimePasses, TransferInv, CountsOK
<1> QED BY <1>1, <1>2, <1>3 DEF TransferInv

LEMMA TransferInvHolds == Spec => []TransferInv
<1>1. TransferInv /\ [Next]_vars => TransferInv'
  <2> SUFFICES ASSUME TransferInv, [Next]_vars PROVE TransferInv'
    OBVIOUS
  <2>1. CASE UNCHANGED vars
    BY <2>1 DEF vars, sending, TransferInv, EnginesOK, EngineOK, Sent, AirOK, CountsOK
  <2> QED BY <2>1, SendKeeps, TransmitKeeps, DropKeeps, HearChunkKeeps, HearSackKeeps, LoseKeeps, PollKeeps, TimeKeeps
          DEF Next, Hear
<1> QED BY <1>1, InitOK, PTL DEF Spec

\* Types hold for any number of receivers and chunks: only chunks of the message are
\* stored, whatever relays make of them, and no SACK is repeated beyond its limit.
THEOREM TypeCorrect == Spec => []TypeOK
<1>1. TransferInv => TypeOK
  <2> SUFFICES ASSUME TransferInv PROVE TypeOK
    OBVIOUS
  <2>1. ASSUME NEW d \in Daemons
        PROVE  /\ DOMAIN engine[d].inFlight \subseteq {<<Sender, TheMsg>>}
               /\ \A k \in DOMAIN engine[d].inFlight :
                    /\ engine[d].inFlight[k].received \subseteq 0..(Chunks - 1)
                    /\ engine[d].inFlight[k].sackCount \in 0..MaxSackRetries
    BY DEF TransferInv, EnginesOK, EngineOK, TheKey, EntryTypes
  <2>2. \A c \in air : c.to \in Daemons /\ c.age \in 0..Latency
    BY DEF TransferInv, AirOK, CopyOK
  <2> QED BY <2>1, <2>2 DEF TypeOK, TransferInv, CountsOK
<1> QED BY <1>1, TransferInvHolds, PTL

-----------------------------------------------------------------------------
(* No message is delivered twice *)

\* The message has been sent, and the sender keeps it for SACKs; and it was sent less
\* than CacheTtl ago.
Underway == TheMsg \in DOMAIN engine[Sender].outbox
Fresh == Underway => engine[Sender].outbox[TheMsg].age < CacheTtl

\* A receiver that has been given the message remembers it, and has done so for no longer
\* than the sender remembers that it sent it.
Remembers(r) ==
  /\ TheKey \in DOMAIN engine[r].completed
  /\ engine[r].completed[TheKey] <= engine[Sender].outbox[TheMsg].age
OnceInv ==
  /\ \/ Underway
     \/ /\ air = {} /\ unsent = 0 /\ \A d \in Daemons : DOMAIN engine[d].inFlight = {}
        /\ \A r \in Receivers : deliveries[r] = 0
  /\ \A r \in Receivers : deliveries[r] \in {0, 1} /\ (deliveries[r] = 1 => Remembers(r))

\* Steps that deliver nothing and leave the caches alone.
LEMMA CachesAlone ==
  ASSUME OnceInv, Underway, UNCHANGED deliveries,
         \A d \in Daemons : /\ engine'[d].completed = engine[d].completed
                            /\ engine'[d].outbox = engine[d].outbox
  PROVE  OnceInv'
<1>1. Sender \in Daemons /\ Receivers \subseteq Daemons
  BY DEF Daemons
<1>2. Underway'
  BY <1>1 DEF Underway
<1>3. ASSUME NEW r \in Receivers
      PROVE  deliveries'[r] \in {0, 1} /\ (deliveries'[r] = 1 => Remembers(r)')
  BY <1>1 DEF OnceInv, Remembers
<1> QED BY <1>2, <1>3 DEF OnceInv

\* One engine changes, and neither its completed messages nor what it sent.
LEMMA AlikeAlone ==
  ASSUME EnginesOK, NEW d \in Daemons, NEW e, Alike(e, engine[d]), engine' = [engine EXCEPT ![d] = e],
         NEW b \in Daemons
  PROVE  engine'[b].completed = engine[b].completed /\ engine'[b].outbox = engine[b].outbox
<1>1. engine'[b] = IF b = d THEN e ELSE engine[b]
  BY DEF EnginesOK
<1> QED BY <1>1 DEF Alike

\* The message is delivered to a receiver that has not been given it, while the sender
\* remembers the message, and the receiver remembers it from then on.
LEMMA HearOnce ==
  ASSUME TransferInv, OnceInv, Fresh, Underway, NEW c \in air, HearChunk(c)
  PROVE  OnceInv'
<1>1. /\ c.to \in Daemons /\ c.frame.packet \in Packets /\ EngineOK(engine[c.to])
      /\ \E outcome \in Ingest(engine[c.to], c.frame.packet) :
           /\ EngineOK(outcome.engine)
           /\ engine' = [engine EXCEPT ![c.to] = outcome.engine]
           /\ deliveries' = IF outcome.delivered THEN [deliveries EXCEPT ![c.to] = @ + 1] ELSE deliveries
  BY Heard
<1>2. PICK outcome \in Ingest(engine[c.to], c.frame.packet) :
        /\ engine' = [engine EXCEPT ![c.to] = outcome.engine]
        /\ deliveries' = IF outcome.delivered THEN [deliveries EXCEPT ![c.to] = @ + 1] ELSE deliveries
  BY <1>1
<1> DEFINE e == engine[c.to]
           kept == Purge(e)
<1>3. /\ outcome.engine.outbox = kept.outbox
      /\ \/ ~outcome.delivered /\ outcome.engine.completed = kept.completed
         \/ /\ outcome.delivered /\ TheKey \notin DOMAIN kept.completed
            /\ TheKey \in DOMAIN outcome.engine.completed
            /\ outcome.engine.completed[TheKey] = 0
  BY <1>1, IngestOK
<1>4. /\ DOMAIN kept.completed = {k \in DOMAIN e.completed : e.completed[k] < CacheTtl}
      /\ \A k \in DOMAIN kept.completed : kept.completed[k] = e.completed[k]
      /\ DOMAIN kept.outbox = {m \in DOMAIN e.outbox : e.outbox[m].age < CacheTtl}
      /\ \A m \in DOMAIN kept.outbox : kept.outbox[m] = e.outbox[m]
  BY <1>1, PurgeOK
<1> HIDE DEF e, kept
<1>5. \A b \in Daemons : engine'[b] = IF b = c.to THEN outcome.engine ELSE engine[b]
  BY <1>2 DEF TransferInv, EnginesOK
<1>6. Sender \in Daemons /\ Receivers \subseteq Daemons
  BY DEF Daemons
<1>7. /\ TheMsg \in DOMAIN engine'[Sender].outbox
      /\ engine'[Sender].outbox[TheMsg] = engine[Sender].outbox[TheMsg]
  <2>1. CASE c.to = Sender
    <3>1. TheMsg \in DOMAIN e.outbox /\ e.outbox[TheMsg].age < CacheTtl
      BY <2>1 DEF Underway, Fresh, e
    <3>2. TheMsg \in DOMAIN kept.outbox /\ kept.outbox[TheMsg] = e.outbox[TheMsg]
      BY <1>4, <3>1
    <3> QED BY <1>3, <1>5, <1>6, <2>1, <3>2 DEF e
  <2>2. CASE c.to # Sender
    BY <1>5, <1>6, <2>2 DEF Underway
  <2> QED BY <2>1, <2>2
<1>8. engine[Sender].outbox[TheMsg].age \in Nat /\ engine[Sender].outbox[TheMsg].age < CacheTtl
  BY <1>6 DEF TransferInv, EnginesOK, EngineOK, Sent, Underway, Fresh
<1>9. ASSUME NEW r \in Receivers, deliveries[r] = 1, r = c.to
      PROVE  /\ TheKey \in DOMAIN kept.completed /\ kept.completed[TheKey] = e.completed[TheKey]
             /\ e.completed[TheKey] <= engine[Sender].outbox[TheMsg].age
  <2>1. TheKey \in DOMAIN e.completed /\ e.completed[TheKey] <= engine[Sender].outbox[TheMsg].age
    BY <1>9 DEF OnceInv, Remembers, e
  <2>2. e.completed[TheKey] \in Nat
    BY <1>1, <2>1 DEF EngineOK, e
  <2> QED BY <1>4, <1>8, <2>1, <2>2
<1>10. ASSUME NEW r \in Receivers
       PROVE  deliveries'[r] \in {0, 1} /\ (deliveries'[r] = 1 => Remembers(r)')
  <2>0. deliveries[r] \in {0, 1} /\ deliveries \in [Receivers -> Nat]
    BY DEF OnceInv, TransferInv, CountsOK
  <2>1. CASE r # c.to
    <3>1. deliveries'[r] = deliveries[r] /\ engine'[r] = engine[r]
      BY <1>2, <1>5, <1>6, <2>0, <2>1
    <3> QED BY <1>7, <3>1 DEF OnceInv, Remembers
  <2>2. CASE r = c.to /\ ~outcome.delivered /\ outcome.engine.completed = kept.completed
    <3>1. deliveries'[r] = deliveries[r] /\ engine'[r].completed = kept.completed
      BY <1>2, <1>5, <1>6, <2>2
    <3> QED BY <1>7, <1>9, <2>0, <2>2, <3>1 DEF Remembers
  <2>3. CASE /\ r = c.to /\ outcome.delivered /\ TheKey \notin DOMAIN kept.completed
             /\ TheKey \in DOMAIN outcome.engine.completed
             /\ outcome.engine.completed[TheKey] = 0
    <3>1. deliveries[r] = 0
      BY <1>9, <2>0, <2>3
    <3>2. deliveries'[r] = 1
      BY <1>2, <2>0, <2>3, <3>1
    <3>3. engine'[r] = outcome.engine
      BY <1>5, <1>6, <2>3
    <3> QED BY <1>7, <1>8, <2>3, <3>2, <3>3 DEF Remembers
  <2> QED BY <1>3, <2>1, <2>2, <2>3
<1> QED BY <1>7, <1>10 DEF OnceInv, Underway

LEMMA OnceKept ==
  ASSUME TransferInv, OnceInv, Fresh, [Next]_vars
  PROVE  OnceInv'
<1>0. Sender \in Daemons /\ Receivers \subseteq Daemons
  BY DEF Daemons
<1>1. CASE Send
  <2>1. DOMAIN engine[Sender].outbox = {}
    BY <1>1 DEF Send
  <2>2. EngineOK(engine[Sender])
    BY <1>0 DEF TransferInv, EnginesOK
  <2>3. engine'[Sender] = CacheOutbound(engine[Sender], Message, TheMsg)
    BY <1>0, <1>1 DEF Send, TransferInv, EnginesOK
  <2>4. Underway'
    BY <2>1, <2>2, <2>3, CacheOK DEF Underway
  <2>5. \A r \in Receivers : deliveries'[r] = 0
    BY <1>1, <2>1 DEF Send, OnceInv, Underway
  <2> QED BY <2>4, <2>5 DEF OnceInv
<1>2. ASSUME NEW c \in air PROVE Underway
  BY DEF OnceInv
<1>3. ASSUME NEW c \in air, DropKnown(c) \/ Lose(c) PROVE OnceInv'
  BY <1>2, <1>3, CachesAlone DEF DropKnown, Lose
<1>4. ASSUME NEW c \in air, HearChunk(c) PROVE OnceInv'
  BY <1>2, <1>4, HearOnce
<1>5. ASSUME NEW c \in air, HearSack(c) PROVE OnceInv'
  <2> DEFINE e == SuppressSack(engine[c.to], c.frame.sack.msg)
  <2>1. c.to \in Daemons /\ EngineOK(engine[c.to])
    BY DEF TransferInv, AirOK, CopyOK, EnginesOK
  <2>2. Alike(e, engine[c.to])
    BY <2>1, SuppressOK
  <2>3. engine' = [engine EXCEPT ![c.to] = e] /\ UNCHANGED deliveries
    BY <1>5 DEF HearSack
  <2> HIDE DEF e
  <2>4. \A b \in Daemons : engine'[b].completed = engine[b].completed /\ engine'[b].outbox = engine[b].outbox
    BY <2>1, <2>2, <2>3, AlikeAlone DEF TransferInv
  <2> QED BY <1>2, <2>3, <2>4, CachesAlone
<1>6. ASSUME NEW d \in Daemons, PollSacks(d) PROVE OnceInv'
  <2> DEFINE e == CountSacks(engine[d])
  <2>1. EngineOK(engine[d])
    BY DEF TransferInv, EnginesOK
  <2>2. Alike(e, engine[d])
    BY <2>1, CountOK
  <2>3. engine' = [engine EXCEPT ![d] = e] /\ UNCHANGED deliveries
    BY <1>6 DEF PollSacks
  <2>4. DOMAIN engine[d].inFlight # {}
    BY <1>6 DEF PollSacks, DueForSack
  <2> HIDE DEF e
  <2>5. \A b \in Daemons : engine'[b].completed = engine[b].completed /\ engine'[b].outbox = engine[b].outbox
    BY <2>2, <2>3, AlikeAlone DEF TransferInv
  <2>6. Underway
    BY <2>4 DEF OnceInv
  <2> QED BY <2>3, <2>5, <2>6, CachesAlone
<1>7. CASE TimePasses
  <2>1. \A d \in Daemons : EngineOK(engine[d]) /\ engine'[d] = Tick(engine[d])
    BY <1>7 DEF TimePasses, TransferInv, EnginesOK
  <2>2. UNCHANGED deliveries
    BY <1>7 DEF TimePasses
  <2>3. CASE ~Underway
    <3>1. air' = {} /\ unsent' = 0
      BY <1>7, <2>3 DEF TimePasses, OnceInv
    <3>2. \A d \in Daemons : DOMAIN engine'[d].inFlight = {}
      BY <2>1, <2>3, TickOK DEF OnceInv
    <3>3. \A r \in Receivers : deliveries'[r] = 0
      BY <2>2, <2>3 DEF OnceInv
    <3> QED BY <3>1, <3>2, <3>3 DEF OnceInv
  <2>4. CASE Underway
    <3> DEFINE sent == engine[Sender].outbox[TheMsg].age
    <3>1. sent \in Nat
      BY <1>0, <2>1, <2>4 DEF EngineOK, Sent, Underway
    <3>2. Underway' /\ engine'[Sender].outbox[TheMsg].age = Older(sent, CacheTtl)
      BY <1>0, <2>1, <2>4, TickOK DEF Underway
    <3>3. ASSUME NEW r \in Receivers, deliveries'[r] = 1 PROVE Remembers(r)'
      <4>1. TheKey \in DOMAIN engine[r].completed /\ engine[r].completed[TheKey] <= sent
        BY <2>2, <3>3 DEF OnceInv, Remembers
      <4>2. engine[r].completed[TheKey] \in Nat
        BY <1>0, <2>1, <4>1 DEF EngineOK
      <4>3. /\ TheKey \in DOMAIN engine'[r].completed
            /\ engine'[r].completed[TheKey] = Older(engine[r].completed[TheKey], CacheTtl)
        BY <1>0, <2>1, <4>1, TickOK
      <4> HIDE DEF sent
      <4>4. Older(engine[r].completed[TheKey], CacheTtl) <= Older(sent, CacheTtl)
        BY <3>1, <4>1, <4>2 DEF Older
      <4> QED BY <3>2, <4>3, <4>4 DEF Remembers
    <3>4. \A r \in Receivers : deliveries'[r] \in {0, 1}
      BY <2>2 DEF OnceInv
    <3> QED BY <3>2, <3>3, <3>4 DEF OnceInv
  <2> QED BY <2>3, <2>4
<1>8. CASE Transmit
  <2>1. Underway
    BY <1>8 DEF Transmit, OnceInv, TransferInv, CountsOK
  <2> QED BY <1>8, <2>1, CachesAlone DEF Transmit
<1>9. CASE UNCHANGED vars
  BY <1>9 DEF vars, sending, OnceInv, Underway, Remembers
<1> QED BY <1>1, <1>3, <1>4, <1>5, <1>6, <1>7, <1>8, <1>9 DEF Next, Hear

\* Within CacheTtl of its sending a message is delivered to nobody twice (R13), for any
\* number of receivers and chunks, however late frames are, and whatever is lost, relayed,
\* retransmitted or forgotten by the filters.  (Beyond it the code gives no such promise:
\* the receivers have forgotten the message, while the sender still answers SACKs for it
\* until its next chunk.)
THEOREM OnceWhileFresh == Spec /\ []Fresh => []DeliveredOnce
<1>1. Init => OnceInv
  <2> SUFFICES ASSUME Init PROVE OnceInv
    OBVIOUS
  <2>1. \A d \in Daemons : DOMAIN engine[d].inFlight = {}
    <3>1. DOMAIN EmptyEngine.inFlight = {}
      BY DEF EmptyEngine
    <3> QED BY <3>1 DEF Init
  <2> QED BY <2>1 DEF Init, OnceInv
<1>2. TransferInv /\ OnceInv /\ Fresh /\ [Next]_vars => OnceInv'
  BY OnceKept
<1>3. OnceInv => DeliveredOnce
  BY DEF OnceInv, DeliveredOnce
<1> QED BY <1>1, <1>2, <1>3, TransferInvHolds, PTL DEF Spec
=============================================================================
