SPECIFICATION Spec
CONSTANTS
  Runners = {r1}
  Stoppers = {s1}
  Workers = {w1}
  Operations = {"Start"}
  NoWorker = NoWorker
  MaxQueue = 1
  ServerFaults = FALSE
INVARIANT StopFindsSocket
CHECK_DEADLOCK FALSE
