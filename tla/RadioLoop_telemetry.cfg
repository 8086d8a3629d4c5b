SPECIFICATION Spec
CONSTANTS
  TxCapacity = 3
  Hole = Hole
  Keys = {k1, k2}
  MinJitter = 2
  MaxJitter = 3
  Gap = 2
  Delta = 5
  Cycle = 20
  SlotAEnd = 13
  Guard1End = 15
  SlotBEnd = 18
PROPERTY PreemptsTelemetry
