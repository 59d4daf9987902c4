SPECIFICATION LiveSpec
CONSTANT Faults = TRUE
INVARIANTS
  ZeroOnlyOnRequest
  ReturnsClean
PROPERTIES
  SignalEnds
  FailedRunEnds
CHECK_DEADLOCK FALSE
