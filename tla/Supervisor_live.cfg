SPECIFICATION LiveSpec
CONSTANTS
  MainThread = main_thread
  ApiThread = api_thread
  Workers = {w1}
  Pids = {p1}
  NoThread = NoThread
  NoPid = NoPid
  ExitCodes = {0}
  EndSignals = {}
  AutoReap = FALSE
  SyscallFaults = FALSE
  NoWorker = NoWorker
  MaxQueue = 1
  ServerFaults = TRUE
PROPERTIES
  ShutdownCompletes
  DeathNoticed
