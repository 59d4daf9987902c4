SPECIFICATION Spec
CONSTANTS
  Threads = {t1, t2}
  NoThread = NoThread
  Processes = {p1, p2}
  NoProcess = NoProcess
  ExitCodes = {0, 1, 259}
  WaitFaults = TRUE
  OtherFaults = TRUE
INVARIANTS
  HandleOwned
  DaemonControlled
PROPERTIES
  VerdictExact
  ImplementsSlot
CHECK_DEADLOCK FALSE
