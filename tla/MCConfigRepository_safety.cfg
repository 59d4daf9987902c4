SPECIFICATION Spec
CONSTANTS
  default = default
  a = a
  b = b
  bad = bad
  Connections = {c1, c2}
  NumKeys = 3
  Values = {default, a, b, bad}
  InvalidValues = {bad}
  Absent = Absent
  Unset = Unset
  NoConnection = NoConnection
  Default <- MCDefault
  Requests <- MCRequests
  IoFaults = TRUE
SYMMETRY Symmetry
INVARIANTS
  LoadSeesWholeConfig
  InitializeRepairs
  TransactionEnds
PROPERTY
  ImplementsRegister
