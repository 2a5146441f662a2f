CONSTANTS
  Clients = {c1}
  RequestIds = {r1}
  NoId = NoId
  MaxGeneration = 3
  MaxSequence = 3
  PrepareTimeout = 4
  CommandTimeout = 4
  Period = 3
  LoopOffset = 2
  Prompt = TRUE
  Failing = FALSE
  MaxStatusSeq = 7
SPECIFICATION Spec
INVARIANTS StreamIsApplied
CHECK_DEADLOCK FALSE
