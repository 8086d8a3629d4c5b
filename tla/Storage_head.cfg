SPECIFICATION Spec
CONSTANTS
  Capacity = 2
  Packets = {1, 2, 3, 4, 5, 6, 7}
  NoPacket = 0
  DroppedLimit = 3
  CheckpointEvery = 2
  LastLba = 15
  MaxPowerLosses = 2
INVARIANT RecoversHead
