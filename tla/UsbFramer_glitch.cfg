INIT FramerInit
NEXT FramerNext
CONSTANTS
  FrameData <- NoHeader
  DataLen = 3
  MaxFrames = 3
  MaxLost = 2
INVARIANT GlitchesDrop
