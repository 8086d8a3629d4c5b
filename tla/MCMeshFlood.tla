----------------------------- MODULE MCMeshFlood -----------------------------
(* Three dongles in a row, or all in range of each other with a bad link; and *)
(* for MeshFlood_cancel.cfg a fourth one that only node 3 reaches.            *)
EXTENDS MeshFlood
BothWays(S) == S \cup {<<l[2], l[1]>> : l \in S}
Row == BothWays({<<1, 2>>, <<2, 3>>})
Triangle == BothWays({<<1, 2>>, <<1, 3>>, <<2, 3>>})
RowOrTriangle == {[links |-> Row, good |-> Row], [links |-> Triangle, good |-> Triangle],
                  [links |-> Triangle, good |-> Triangle \ BothWays({<<1, 3>>})]}
Tailed == Triangle \cup BothWays({<<3, 4>>})
WithTail == {[links |-> Tailed, good |-> Tailed]}
\* Every dongle can be reached in the placement of a run.
ASSUME AllConnected == \A t \in Topologies : Connected(t)
=============================================================================
