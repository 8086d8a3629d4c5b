SPECIFICATION Spec
CONSTANTS
  MaxPerSender = 2
  MaxGlobal = 3
  Timeout = 2
  SackDelay = 1
  SackRetry = 1
  MaxSackRetries = 2
  CacheTtl = 2
  AgeLimit = 4
  Messages <- MCMessages
  None = None
  MaxFrames = 4
INVARIANT StaleForgotten
