SPECIFICATION Spec
CONSTANTS
  BlockSize = 2
  IdSpace = 16
  MaxClock = 1
  MaxStarts = 1
  MaxIssued = 5
INVARIANT CountersNeverShared
