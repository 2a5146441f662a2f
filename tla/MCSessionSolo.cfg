CONSTANTS
  Controllers = {k1}
  Roles = {"main"}
  Lifecycle = {"main"}
  MaxRequests = 2
  MaxSequence = 2
  Lossy = TRUE
  Failing = TRUE
  NoId = NoId
  MaxGeneration = 5
  PrepareTimeout = 1
  CommandTimeout = 1
SPECIFICATION Spec
INVARIANTS OwnedIsKnown SessionIsGranted NextKeyIsUnused CancelCarriesLease
