INIT LineInit
NEXT LineNext
CONSTANTS
  LineLimit = 6
  PacketLine = 4
  LogLines = {1, 9}
  MaxLines = 4
INVARIANT OnlyLongLinesDropped
