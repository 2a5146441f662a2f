CONSTANTS
  Sources = {a, b}
  NoSource = NoSource
  Depth = 2
  Modulus = 12
  FirstNumbers = {11}
  Fates = {"kept", "lost", "twice", "malformed", "late"}
  MaxFrames = 4
  MaxTroubles = 1
SPECIFICATION Spec
INVARIANTS MissingIsExact
PROPERTIES CompleteIsTrue EdgesAreReal
SYMMETRY Symmetry
CHECK_DEADLOCK FALSE
