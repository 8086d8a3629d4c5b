SPECIFICATION Spec
CONSTANTS
  Nodes = {1, 2, 3, 4}
  Origin = 1
  Topologies <- WithTail
  Chunks = 1
  ChunkTtl = 7
  SackTtl = 5
  BeaconTtl = 1
  TxCapacity = 2
  Hole = Hole
  Pressed = {3}
  Emitting = {2}
  MaxEvents = 0
INVARIANT CancelledWasRedundant
