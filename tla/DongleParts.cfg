SPECIFICATION Spec
CONSTANTS
  Capacity = 4
  Packets = {p1, p2, p3}
  NoPacket = NoPacket
  DroppedLimit = 2
  Keys = {0, 1, 2, 3, 4, 5}
  Bits <- SomeBits
  Zero = 0
  Threshold = 3
  LruSize = 2
  Nodes = {own, n1, n2, n3, n4, n5}
  Own = own
  Nobody = Nobody
  PeerCapacity = 4
  CountLimit = 2
  Pins = {pin1, pin2}
  NoPin = NoPin
  AuthTimeout = 30
  GateDelta = 5
  FrameData <- NoHeader
  DataLen = 3
  MaxFrames = 3
  MaxLost = 2
  LineLimit = 6
  PacketLine = 4
  LogLines = {1, 9}
  MaxLines = 4
INVARIANTS TypeOK Remembered ForgetsInTime LatestPeers GrantedInTime
           Resynchronises DamageExplained PacketsReturned
PROPERTY RefinesFifo
