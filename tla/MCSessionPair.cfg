CONSTANTS
  Controllers = {k1, k2}
  Roles = {"main"}
  Lifecycle = {"main"}
  MaxRequests = 2
  MaxSequence = 1
  Lossy = FALSE
  Failing = FALSE
  NoId = NoId
  MaxGeneration = 4
  PrepareTimeout = 1
  CommandTimeout = 1
SPECIFICATION Spec
INVARIANTS CommandsAreOwners
SYMMETRY Symmetry
CONSTRAINT OneAtATime
