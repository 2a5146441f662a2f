CONSTANTS
  Clients = {c1, c2}
  RequestIds = {r1, r2}
  NoId = NoId
  Seed = 1
  MaxGeneration = 5
  MaxSequence = 2
  PrepareTimeout = 2
  CommandTimeout = 2
  RejectOperation = "NONE"
  MaxStatusSeq = 8
SPECIFICATION MCFairSpec
INVARIANTS TypeOK Ownership PendingBelongsToSession AppliedEvidence
PROPERTIES OnlyOwnerEndsSession StatusSeqVersionsStatus FreshIdentities AckMatchesState DeadlinesNotExtended LeasePromise ArmedIsTransient SilenceIsHeld
