SPECIFICATION FairSpec
CONSTANTS
  Capacity = 3
  Packets = {1, 2, 3, 4, 5, 6}
  NoPacket = 0
  DroppedLimit = 3
  CheckpointEvery = 2
  LastLba = 15
  MaxPowerLosses = 2
INVARIANTS TypeOK AccountedFor LogHasNoHoles NumberedByPlace
PROPERTIES CheckpointsMoveForward CheckpointedRecordsKept Drained
