CONSTANTS
  Callers = {t1, t2}
  NoCaller = nobody
  Mixes <- MCMixes
  MaxStates = 2
  MaxStatuses = 2
  MaxCalls = 2
  Users = {u1, u2}
  NoThread = nobody
  Types = {"A", "B"}
  Shapes <- MCShapes
  MaxFeedback = 3
  MaxUses = 2
  Capacity = 2
  MaxRows = 4
  QueueSize = 2
  MaxArrivals = 4
  Wanted = {"state", "info"}
SPECIFICATION MCSpec
INVARIANTS StatesGoForward PublishSeesArrived SequencesGrow OneDevice EvidenceIsHonest
PROPERTIES NothingAfterClose ClientCallsEnd
CHECK_DEADLOCK FALSE
