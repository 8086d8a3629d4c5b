SPECIFICATION Spec
CONSTANTS
  Hosts = {a, b}
  TwoDongles = {}
  Texts = {x, y}
  NoText = NoText
  MaxCopies = 2
  MaxMishaps = 1
INVARIANT EchoesHalted
