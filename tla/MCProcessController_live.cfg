SPECIFICATION LiveSpec
CONSTANTS
  Threads = {t1, t2}
  Pids = {p1, p2}
  NoThread = NoThread
  NoPid = NoPid
  ExitCodes = {0, 1}
  EndSignals = {9}
  AutoReap = FALSE
  SyscallFaults = FALSE
PROPERTIES
  CrashVerdict
  ShutdownIsFinal
  CriticalSectionEnds
