CONSTANTS
  Sources = {a}
  NoSource = NoSource
  Depth = 2
  Modulus = 12
  FirstNumbers = {11}
  Fates = {"kept", "late"}
  MaxFrames = 3
  MaxTroubles = 1
SPECIFICATION Spec
PROPERTIES OlderKeepsBaseline
CHECK_DEADLOCK FALSE
