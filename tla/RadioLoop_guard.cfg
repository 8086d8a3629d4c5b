SPECIFICATION Spec
CONSTANTS
  TxCapacity = 2
  Hole = Hole
  Keys = {k1}
  MinJitter = 3
  MaxJitter = 3
  Gap = 4
  Delta = 5
  Cycle = 200
  SlotAEnd = 168
  Guard1End = 170
  SlotBEnd = 198
PROPERTY GuardBetweenSlots
