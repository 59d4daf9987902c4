SPECIFICATION Spec
CONSTANTS
  MainThread = main_thread
  ApiThread = api_thread
  Workers = {w1}
  Pids = {p1}
  NoThread = NoThread
  NoPid = NoPid
  ExitCodes = {0, 1}
  EndSignals = {}
  AutoReap = FALSE
  SyscallFaults = TRUE
  NoWorker = NoWorker
  MaxQueue = 1
  ServerFaults = TRUE
INVARIANTS
  NoRevival
  CleanExit
  OwnStopIsNoFailure
  NoUseAfterDestroy
