---------------------------- MODULE ChunkTransfer ----------------------------
(***************************************************************************)
(* A message sent to several daemons, each behind a dongle of its own, over a *)
(* medium that loses, delays and reorders frames, and its recovery by         *)
(* selective acknowledgements: fragment_and_encrypt, cache_outbound,          *)
(* ingest_packet, check_pending_sacks, suppress_sack and handle_sack          *)
(* (apps/gibberish-daemon/src/chunk.rs and main.rs:230-368) on top of what a  *)
(* dongle does to a frame: its filter of seen frames, and one hop of relaying *)
(* (firmware main.rs:419-463, 522).  Every dongle hears every other one;      *)
(* MeshFlood has the other topologies, and the transmit queues.               *)
(***************************************************************************)
EXTENDS ChunkOps

CONSTANTS
  Sender, Receivers,
  Chunks,      \* how many chunks the message has
  Latency,     \* bound: how long a frame may stay in the air
  MaxLost,     \* bound: how many recovery frames are lost
  MaxRelayed,  \* bound: how many frames are relayed
  MaxForgets   \* bound: how often the filters forget

ASSUME TransferAssumption ==
  /\ Sender \notin Receivers
  /\ Chunks \in Nat \ {0} /\ Latency \in Nat
  /\ MaxLost \in Nat /\ MaxRelayed \in Nat /\ MaxForgets \in Nat

VARIABLES
  engine,      \* daemon -> its ChunkEngine
  unsent,      \* how many chunks the sender's loop has yet to transmit
  awaiting,    \* whether it sleeps after a chunk until time has passed
  seen,        \* daemon -> the keys its dongle's filter has of this message
  air,         \* copies of frames on their way: [to, frame, age]
  lost, relayed, forgets,  \* counters against the bounds
  deliveries,  \* receiver -> how often the message was delivered to it
  clash        \* history: a dongle has dropped a frame that its daemon lacked

sending == <<unsent, awaiting>>
vars == <<engine, sending, seen, air, lost, relayed, forgets, deliveries, clash>>

Daemons == {Sender} \cup Receivers
TheMsg == 1
Packet(i) == [src |-> Sender, origin |-> Sender, msg |-> TheMsg, idx |-> i, total |-> Chunks]
Message == {Packet(i) : i \in 0..(Chunks - 1)}
ChunkFrame(p, again) == [kind |-> "chunk", packet |-> p, again |-> again]
SackFrame(s) == [kind |-> "sack", sack |-> s, again |-> TRUE]

\* What identifies a frame of the message to a filter: its chunk_idx, 0 for a SACK.
FilterKey(f) == IF f.kind = "chunk" THEN f.packet.idx ELSE 0
KeysOf(frames) == {FilterKey(f) : f \in frames}

\* What d transmits reaches everyone else, each by a copy of its own.
Broadcast(d, frames) == [to : Daemons \ {d}, frame : frames, age : {0}]

\* The tables have their types: only chunks of the message are received, only by
\* receivers of it, and no SACK is sent more often than MaxSackRetries times.
TypeOK ==
  /\ \A d \in Daemons :
       /\ DOMAIN engine[d].inFlight \subseteq {<<Sender, TheMsg>>}
       /\ \A k \in DOMAIN engine[d].inFlight :
            /\ engine[d].inFlight[k].received \subseteq 0..(Chunks - 1)
            /\ engine[d].inFlight[k].sackCount \in 0..MaxSackRetries
  /\ unsent \in 0..Chunks /\ awaiting \in BOOLEAN
  /\ seen \in [Daemons -> SUBSET (0..(Chunks - 1))]
  /\ \A c \in air : c.to \in Daemons /\ c.age \in 0..Latency
  /\ lost \in 0..MaxLost /\ relayed \in 0..MaxRelayed /\ forgets \in 0..MaxForgets
  /\ deliveries \in [Receivers -> Nat] /\ clash \in BOOLEAN

Init ==
  /\ engine = [d \in Daemons |-> EmptyEngine]
  /\ unsent = 0 /\ awaiting = FALSE
  /\ seen = [d \in Daemons |-> {}]
  /\ air = {} /\ lost = 0 /\ relayed = 0 /\ forgets = 0
  /\ deliveries = [r \in Receivers |-> 0] /\ clash = FALSE

\* The sender caches the message (main.rs:327), and its loop turns to transmitting it.
Send ==
  /\ engine[Sender].outbox = <<>>
  /\ engine' = [engine EXCEPT ![Sender] = CacheOutbound(@, Message, TheMsg)]
  /\ unsent' = Chunks
  /\ UNCHANGED <<awaiting, seen, air, lost, relayed, forgets, deliveries, clash>>

\* One chunk leaves, and the loop sleeps for 30 ms, which end before time has passed or
\* later (main.rs:330-335).
Transmit ==
  /\ unsent > 0 /\ ~awaiting
  /\ unsent' = unsent - 1 /\ awaiting' \in BOOLEAN
  /\ LET f == ChunkFrame(Packet(Chunks - unsent), FALSE) IN
     /\ seen' = [seen EXCEPT ![Sender] = @ \cup {FilterKey(f)}]
     /\ air' = air \cup Broadcast(Sender, {f})
  /\ UNCHANGED <<engine, lost, relayed, forgets, deliveries, clash>>

\* Until the last chunk is out the sender's daemon reads nothing: what its dongle takes
\* for it waits, in the dongle or in the serial buffer.
Busy(d) == d = Sender /\ (unsent > 0 \/ awaiting)

\* What the daemon of a dongle could still use: a chunk it has not got, a SACK it
\* can answer.
Lacks(d, f) ==
  IF f.kind = "sack" THEN HandleSack(engine[d], f.sack) # {}
  ELSE /\ d # Sender /\ Authentic(f.packet) /\ Key(f.packet) \notin DOMAIN engine[d].completed
       /\ Key(f.packet) \in DOMAIN engine[d].inFlight =>
            f.packet.idx \in Missing(engine[d].inFlight[Key(f.packet)])

\* A dongle drops a frame whose key its filter has.
Known(c) == FilterKey(c.frame) \in seen[c.to]
DropKnown(c) ==
  /\ Known(c)
  /\ air' = air \ {c}
  /\ clash' = (clash \/ Lacks(c.to, c.frame))
  /\ UNCHANGED <<engine, sending, seen, lost, relayed, forgets, deliveries>>

\* Any other frame is remembered, handed to the host, and may be relayed, by which a
\* chunk comes to name the relay as its source.  (A second hop would reach nobody new.)
Relayed(c) ==
  IF c.frame.kind = "sack" THEN c.frame ELSE [c.frame EXCEPT !.packet.src = c.to]
FirstHop(c) == c.frame.kind = "chunk" => Authentic(c.frame.packet)
Accept(c, answer) ==
  /\ ~Known(c) /\ ~Busy(c.to)
  /\ seen' = [seen EXCEPT ![c.to] = @ \cup {FilterKey(c.frame)} \cup KeysOf(answer)]
  /\ \/ air' = (air \ {c}) \cup Broadcast(c.to, answer) /\ UNCHANGED relayed
     \/ /\ FirstHop(c) /\ relayed < MaxRelayed /\ relayed' = relayed + 1
        /\ air' = (air \ {c}) \cup Broadcast(c.to, answer \cup {Relayed(c)})
  /\ UNCHANGED <<sending, lost, forgets, clash>>

\* The daemon polls its dongle and finds a chunk (main.rs:272-301).
HearChunk(c) ==
  /\ c.frame.kind = "chunk"
  /\ Accept(c, {})
  /\ \E outcome \in Ingest(engine[c.to], c.frame.packet) :
       /\ engine' = [engine EXCEPT ![c.to] = outcome.engine]
       /\ deliveries' = IF outcome.delivered THEN [deliveries EXCEPT ![c.to] = @ + 1] ELSE deliveries

\* The daemon finds a SACK: it holds back its own for this message, and transmits
\* again what it has of the chunks asked for (main.rs:254-270; the 20 ms it sleeps after
\* each of these are no steps of their own).
HearSack(c) ==
  /\ c.frame.kind = "sack"
  /\ Accept(c, {ChunkFrame(p, TRUE) : p \in HandleSack(engine[c.to], c.frame.sack)})
  /\ engine' = [engine EXCEPT ![c.to] = SuppressSack(@, c.frame.sack.msg)]
  /\ UNCHANGED deliveries

\* A copy is lost.  Recovery frames count against MaxLost.
Lose(c) ==
  /\ air' = air \ {c}
  /\ IF c.frame.again THEN lost < MaxLost /\ lost' = lost + 1 ELSE UNCHANGED lost
  /\ UNCHANGED <<engine, sending, seen, relayed, forgets, deliveries, clash>>

\* A daemon polls for missing chunks and broadcasts its SACKs (main.rs:353-367), the
\* key of which its own dongle remembers as well.
PollSacks(d) ==
  /\ ~Busy(d) /\ DueForSack(engine[d]) # {}
  /\ engine' = [engine EXCEPT ![d] = CountSacks(@)]
  /\ LET sacks == {SackFrame(s) : s \in Sacks(engine[d])} IN
     /\ seen' = [seen EXCEPT ![d] = @ \cup KeysOf(sacks)]
     /\ air' = air \cup Broadcast(d, sacks)
  /\ UNCHANGED <<sending, lost, relayed, forgets, deliveries, clash>>

\* Other traffic turns the filters of some dongles over, which is when they forget.
Forget(D) ==
  /\ D # {} => forgets < MaxForgets
  /\ forgets' = IF D = {} THEN forgets ELSE forgets + 1
  /\ seen' = [d \in Daemons |-> IF d \in D THEN {} ELSE seen[d]]

\* Time passes, but not beyond the latency of a frame that its daemon can read, nor
\* while a SACK is due or a chunk is: a loop that does not sleep runs several times per
\* unit, and 30 ms are less than one.
TimePasses ==
  /\ \A c \in air : c.age < Latency \/ Busy(c.to)
  /\ \A d \in Daemons : Busy(d) \/ DueForSack(engine[d]) = {}
  /\ unsent = 0 \/ awaiting
  /\ awaiting' = FALSE
  /\ engine' = [d \in Daemons |-> Tick(engine[d])]
  /\ air' = {[c EXCEPT !.age = Older(@, Latency)] : c \in air}
  /\ \E D \in SUBSET {d \in Daemons : seen[d] # {}} : Forget(D)
  /\ UNCHANGED <<unsent, lost, relayed, deliveries, clash>>

Hear == \E c \in air : DropKnown(c) \/ HearChunk(c) \/ HearSack(c)
Next ==
  \/ Send \/ Transmit \/ Hear \/ (\E c \in air : Lose(c))
  \/ (\E d \in Daemons : PollSacks(d)) \/ TimePasses

Spec == Init /\ [][Next]_vars

\* Frames arrive or are lost, loops run, and clocks go on.
FairSpec ==
  /\ Spec
  /\ WF_vars(Send) /\ WF_vars(Transmit) /\ WF_vars(Hear)
  /\ (\A d \in Daemons : WF_vars(PollSacks(d))) /\ WF_vars(TimePasses)

-----------------------------------------------------------------------------
\* No message is delivered to a daemon twice, although frames are relayed, filters
\* forget and chunks are retransmitted that had arrived after all (R13).
DeliveredOnce == \A r \in Receivers : deliveries[r] <= 1

\* A receiver that has heard of a message gets all of it, as long as fewer recovery
\* frames are lost than a receiver sends SACKs, unless a filter takes a frame that is
\* needed for one it has seen: losses alone never defeat the recovery.
HasHeard(r) == engine[r].inFlight # <<>>
Recovers == \A r \in Receivers : HasHeard(r) ~> (deliveries[r] = 1 \/ clash)

\* What main.rs:352 and the test in chunk.rs promise: the missing chunks are asked
\* for and come.  But a SACK has the key of chunk 0: the sender's dongle, which has
\* sent that chunk, takes the SACK for a frame it has seen.
AlwaysRecovers == \A r \in Receivers : HasHeard(r) ~> deliveries[r] = 1
=============================================================================
