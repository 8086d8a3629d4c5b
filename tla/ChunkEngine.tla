----------------------------- MODULE ChunkEngine -----------------------------
(***************************************************************************)
(* One chunk engine (apps/gibberish-daemon/src/chunk.rs) in an environment  *)
(* that hands it any chunk of any peer's message at any time: out of order, *)
(* again and again, late, or under the address of the dongle that relayed   *)
(* it, which the receiver then takes for the sender.                        *)
(***************************************************************************)
EXTENDS ChunkOps

CONSTANTS
  Messages,   \* the peers' messages: records [src, msg, total]
  None,       \* no message
  MaxFrames   \* bound: how many chunks arrive

\* Ids tell messages of one sender apart (NonceManager; nonce_idwrap shows for how long).
ASSUME EngineAssumption ==
  /\ MaxFrames \in Nat /\ None \notin {Key(m) : m \in Messages}
  /\ \A m \in Messages : m.total \in Nat \ {0}
  /\ \A m, n \in Messages : Key(m) = Key(n) => m = n

VARIABLES
  engine,     \* the ChunkEngine
  delivered,  \* what the last call returned to the daemon: a message's key or None
  frames      \* chunks that have arrived (counts against MaxFrames)

vars == <<engine, delivered, frames>>

Sources == {m.src : m \in Messages}

\* Chunks as their senders transmit them, and as another node relays them.
Direct == UNION {{[src |-> m.src, origin |-> m.src, msg |-> m.msg, idx |-> i, total |-> m.total] :
                  i \in 0..(m.total - 1)} : m \in Messages}
Relayed == UNION {{[src |-> r, origin |-> m.src, msg |-> m.msg, idx |-> 0, total |-> m.total] :
                   r \in Sources \ {m.src}} : m \in Messages}

Entries == [total : Nat, received : SUBSET Nat, age : Nat, quiet : Nat, sinceSack : Nat,
            sackCount : 0..MaxSackRetries]

\* The tables have their types, and no message is asked for more often than
\* MaxSackRetries times.
TypeOK ==
  /\ \A k \in DOMAIN engine.inFlight : engine.inFlight[k] \in Entries
  /\ \A k \in DOMAIN engine.completed : engine.completed[k] \in Nat
  /\ engine.outbox = <<>>
  /\ delivered \in {Key(p) : p \in Direct} \cup {None}
  /\ frames \in Nat

Init == engine = EmptyEngine /\ delivered = None /\ frames = 0

\* A chunk arrives (main.rs:272-301).
Receive(p) ==
  /\ frames < MaxFrames /\ frames' = frames + 1
  /\ \E outcome \in Ingest(engine, p) :
       /\ engine' = outcome.engine
       /\ delivered' = IF outcome.delivered THEN Key(p) ELSE None

\* The daemon polls for missing chunks (main.rs:353-367).
PollSacks ==
  /\ DueForSack(engine) # {}
  /\ engine' = CountSacks(engine) /\ delivered' = None
  /\ UNCHANGED frames

\* Another receiver's SACK is overheard (main.rs:254-255).
Overhear(msg) ==
  /\ engine' = SuppressSack(engine, msg) /\ delivered' = None
  /\ UNCHANGED frames

TimePasses == engine' = Tick(engine) /\ delivered' = None /\ UNCHANGED frames

Next ==
  \/ \E p \in Direct \cup Relayed : Receive(p)
  \/ PollSacks
  \/ \E m \in Messages : Overhear(m.msg)
  \/ TimePasses

Spec == Init /\ [][Next]_vars

-----------------------------------------------------------------------------
\* The tables of unfinished messages stay within the limits of R12, whatever
\* mixture of senders, evictions and expiries has come before.
TablesBounded ==
  /\ Cardinality(DOMAIN engine.inFlight) <= MaxGlobal
  /\ \A s \in Sources : Cardinality(From(engine, s)) <= MaxPerSender

\* A finished message is out of the reassembly table for as long as it is
\* remembered, and what is in the table is unfinished: a late duplicate cannot
\* start a second copy (R13).
FinishedLeaveTheTable ==
  \A k \in DOMAIN engine.inFlight :
    k \notin DOMAIN engine.completed /\ Missing(engine.inFlight[k]) # {}

Live == {k \in DOMAIN engine.inFlight : engine.inFlight[k].quiet < Timeout}
Gone == (Live \ DOMAIN engine'.inFlight) \ {delivered'}

\* A message whose last chunk is recent leaves the table only by being delivered,
\* or as the one victim of a chunk that found its sender's share or the table full:
\* no chunk costs two other messages.
LiveMessagesKept ==
  [][Gone # {} =>
       \E k \in Gone : /\ Gone = {k}
                       /\ \/ Cardinality({j \in Live : j[1] = k[1]}) >= MaxPerSender
                          \/ Cardinality(Live) >= MaxGlobal]_vars

\* Chunks more than Timeout apart are never put together: the later one starts the
\* message afresh (R13).
NoStaleAssembly ==
  [][\A k \in DOMAIN engine.inFlight \ Live :
       /\ delivered' # k
       /\ k \in DOMAIN engine'.inFlight =>
            \/ engine'.inFlight[k].received = engine.inFlight[k].received
            \/ engine'.inFlight[k].age = 0]_vars

\* SACKs cannot storm: the n-th one for a message is sent at the earliest SackDelay
\* after its first chunk plus n - 1 retry intervals (chunk.rs:251-252).
SacksPaced ==
  \A k \in DOMAIN engine.inFlight :
    LET entry == engine.inFlight[k] IN
    entry.sackCount > 0 => entry.age >= SackDelay + (entry.sackCount - 1) * SackRetry

\* A message in progress gives way only to one whose chunk did decrypt: chunks that
\* fail authentication "drop safely" (plan SC4).
EvictedForAuthenticOnly ==
  [][Gone # {} => delivered' # None \/ DOMAIN engine'.inFlight \ Live # {}]_vars

\* Nothing is kept longer than Timeout after its last chunk (R13).
StaleForgotten ==
  \A k \in DOMAIN engine.inFlight : engine.inFlight[k].quiet < Timeout
=============================================================================
