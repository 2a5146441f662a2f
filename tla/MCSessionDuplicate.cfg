CONSTANTS
  Controllers = {k1}
  Roles = {"main", "publisher"}
  Lifecycle = {"main"}
  MaxRequests = 1
  MaxSequence = 2
  Lossy = FALSE
  Failing = FALSE
  NoId = NoId
  MaxGeneration = 5
  PrepareTimeout = 1
  CommandTimeout = 1
SPECIFICATION Spec
INVARIANTS NextKeyIsUnused
