CONSTANTS
  Clients = {c1}
  RequestIds = {r1}
  NoId = NoId
  MaxGeneration = 3
  MaxSequence = 2
  PrepareTimeout = 1
  CommandTimeout = 2
  Period = 2
  LoopOffset = 1
  Prompt = FALSE
  Failing = TRUE
  MaxStatusSeq = 6
SPECIFICATION FairSpec
INVARIANTS PendingHasTick CommandsAddUp LeaseWasAnnounced EvidenceFollowsStatus VerdictIsHonest
PROPERTIES PendingIsTransient FailureEnds
CHECK_DEADLOCK FALSE
