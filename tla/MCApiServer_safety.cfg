SPECIFICATION Spec
CONSTANTS
  Runners = {r1, r2}
  Stoppers = {s1, s2}
  Workers = {w1, w2}
  Operations = {"Start", "Stop"}
  NoWorker = NoWorker
  MaxQueue = 2
  ServerFaults = TRUE
SYMMETRY Symmetry
INVARIANTS
  RunOnce
  OkOnlyAfterStop
  NothingInFlight
  ListenerClosedOnce
CHECK_DEADLOCK FALSE
