SPECIFICATION Spec
CONSTANTS
  Hosts = {a, b}
  TwoDongles = {a}
  Texts = {x, y}
  NoText = NoText
  MaxCopies = 2
  MaxMishaps = 0
PROPERTY NoEchoOverCopy
