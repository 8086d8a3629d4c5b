---------------------------- MODULE MCChunkEngine ----------------------------
(* Five messages of two senders: one more than a sender's share, and one more *)
(* than the table holds.                                                      *)
EXTENDS ChunkEngine
MCMessages == {[src |-> "s", msg |-> 1, total |-> 3], [src |-> "s", msg |-> 2, total |-> 2],
               [src |-> "s", msg |-> 3, total |-> 1], [src |-> "t", msg |-> 1, total |-> 2],
               [src |-> "t", msg |-> 4, total |-> 2]}
=============================================================================
