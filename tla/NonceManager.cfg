SPECIFICATION Spec
CONSTANTS
  BlockSize = 2
  IdSpace = 16
  MaxClock = 2
  MaxStarts = 3
  MaxIssued = 5
INVARIANTS TypeOK CountersSafeUntilPersistFails PairsNeverReused
