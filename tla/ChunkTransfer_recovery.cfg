SPECIFICATION FairSpec
CONSTANTS
  MaxPerSender = 2
  MaxGlobal = 16
  Timeout = 7
  SackDelay = 1
  SackRetry = 2
  MaxSackRetries = 2
  CacheTtl = 9
  AgeLimit = 5
  Sender = a
  Receivers = {b, c}
  Chunks = 2
  Latency = 0
  MaxLost = 1
  MaxRelayed = 1
  MaxForgets = 2
PROPERTY AlwaysRecovers
