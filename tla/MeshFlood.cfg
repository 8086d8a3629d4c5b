SPECIFICATION Spec
CONSTANTS
  Nodes = {1, 2, 3}
  Origin = 1
  Topologies <- RowOrTriangle
  Chunks = 2
  ChunkTtl = 7
  SackTtl = 5
  BeaconTtl = 1
  TxCapacity = 2
  Hole = Hole
  Pressed = {3}
  Emitting = {2}
  MaxEvents = 2
INVARIANTS TypeOK OnceToHost RelayedOnce NoLoops Covered
