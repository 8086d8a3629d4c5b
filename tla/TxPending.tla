------------------------------ MODULE TxPending ------------------------------
(***************************************************************************)
(* What the transmit queue promises: packets leave in the order they came,   *)
(* unless they are cancelled or a full queue gives up its oldest slot, and   *)
(* telemetry is accepted only while no user traffic is pending.              *)
(***************************************************************************)
EXTENDS TxOps

CONSTANTS Keys  \* message id and chunk index

VARIABLES
  queue,  \* the pending slots
  sent    \* the packet transmitted last, or Hole

pendingVars == <<queue, sent>>

PacketSet == [key : Keys, kind : {"user", "telemetry"}]
UserTraffic(q) == {i \in PendingIn(q) : q[i].kind # "telemetry"}
Matching(q, k) == {i \in PendingIn(q) : q[i].key = k}

PendingInit == queue = <<>> /\ sent = Hole

Accept(p) ==
  /\ p.kind = "telemetry" => UserTraffic(queue) = {}
  /\ queue' = Schedule(queue, p)
  /\ UNCHANGED sent

Cancel(k) ==
  /\ Matching(queue, k) # {}
  /\ queue' = CancelFirst(queue, Matching(queue, k))
  /\ UNCHANGED sent

Take ==
  /\ queue # <<>>
  /\ queue' = AfterTaking(queue)
  /\ sent' = IF Taken(queue) = Hole THEN sent ELSE Taken(queue)

PendingNext == (\E p \in PacketSet : Accept(p)) \/ (\E k \in Keys : Cancel(k)) \/ Take
PendingSpec == PendingInit /\ [][PendingNext]_pendingVars
=============================================================================
