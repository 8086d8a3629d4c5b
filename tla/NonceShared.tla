---------------------------- MODULE NonceShared ----------------------------
(***************************************************************************)
(* Two processes of one user: a running daemon and the one-shot push command *)
(* (apps/gibberish-daemon/src/main.rs:118, 183-210) each make a NonceManager  *)
(* on the same nonce_state.json, which nothing locks.  Behaviours in which     *)
(* both write the file at the same moment are left out.                       *)
(***************************************************************************)
EXTENDS Naturals, Sequences

CONSTANTS BlockSize, IdSpace, MaxClock, MaxStarts, MaxIssued

VARIABLES
  clock, cached, durable, issued, failures,        \* of the machine, as in NonceManager
  starts, pc, caller, epoch, counter, limit,       \* of the daemon's manager
  pushes, ppc, pcaller, pepoch, pcounter, plimit   \* of the push command's manager

machine == <<clock, cached, durable, issued, failures>>
daemon == <<starts, pc, caller, epoch, counter, limit>>
push == <<pushes, ppc, pcaller, pepoch, pcounter, plimit>>
vars == <<machine, daemon, push>>

Daemon == INSTANCE NonceManager
Push == INSTANCE NonceManager WITH
  starts <- pushes, pc <- ppc, caller <- pcaller,
  epoch <- pepoch, counter <- pcounter, limit <- plimit

Init == Daemon!Init /\ Push!Init

\* One of the processes takes a step; it starts no write while the other one writes.
Overlap == pc' \in Daemon!Persisting /\ ppc' \in Daemon!Persisting
DaemonStep == Daemon!Process /\ UNCHANGED push
PushStep == Push!Process /\ UNCHANGED daemon

\* A power loss ends both; the clock is that of the machine.
PowerLoss == Daemon!PowerLoss /\ Push!PowerLoss
SetClock == Daemon!SetClock /\ UNCHANGED push

Next == (DaemonStep /\ ~Overlap) \/ (PushStep /\ ~Overlap) \/ PowerLoss \/ SetClock

Spec == Init /\ [][Next]_vars

\* No two messages of a node carry the same counter, from which their message ids and
\* the cipher's nonces are made, as long as no write has failed (plan R6: "monotonic").
\* The daemon reserves its next block from memory: it takes the one push has got.
CountersNeverShared ==
  failures = {} => \A i, j \in 1..Len(issued) : i # j => issued[i].counter # issued[j].counter
=============================================================================
