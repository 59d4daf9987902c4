SPECIFICATION LiveSpec
CONSTANTS
  default = default
  Workers = {w1, w2}
  NoWorker = NoWorker
  SupervisorConnection = SupervisorConnection
  DaemonConnection = DaemonConnection
  NumKeys = 1
  Values = {default, a}
  InvalidValues = {}
  Absent = Absent
  Unset = Unset
  NoConnection = NoConnection
  Default <- MCDefault
  Requests <- MCRequests
  IoFaults = FALSE
  ProcessFaults = FALSE
PROPERTY
  RequestsAnswered
