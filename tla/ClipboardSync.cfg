SPECIFICATION FairSpec
CONSTANTS
  Hosts = {a, b}
  TwoDongles = {a}
  Texts = {x, y}
  NoText = NoText
  MaxCopies = 2
  MaxMishaps = 1
INVARIANTS TypeOK BroadcastsAccountedFor
PROPERTY Noticed
