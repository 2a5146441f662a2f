CONSTANTS
  Window = 5
  Period = 2
  Settle = 7
  MaxInterrupts = 2
SPECIFICATION ProgramSpec
INVARIANTS StillnessIsMeasured RepeatsAreBounded SendsFollowChecks EndIsClean
PROPERTIES ProgramEnds
CHECK_DEADLOCK FALSE
