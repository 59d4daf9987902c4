SPECIFICATION Spec
CONSTANTS
  default = default
  Workers = {w1, w2}
  NoWorker = NoWorker
  SupervisorConnection = SupervisorConnection
  DaemonConnection = DaemonConnection
  NumKeys = 2
  Values = {default, a, b, bad}
  InvalidValues = {bad}
  Absent = Absent
  Unset = Unset
  NoConnection = NoConnection
  Default <- MCDefault
  Requests <- MCRequests
  IoFaults = TRUE
  ProcessFaults = TRUE
SYMMETRY Symmetry
INVARIANTS
  ConnectionExclusive
  AnswersTruthful
  ServesFresh
PROPERTY
  ReplacedOnlyByPut
