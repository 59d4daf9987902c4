SPECIFICATION Spec
CONSTANTS
  Values <- MCValues
  Elements <- MCElements
  Texts <- MCTexts
  SmallInt = 127
  SmallPort = 81
  Alphabet <- MCAlphabet
  MaxLength = 4
  StringNames = {"server_application_name"}
  IntegerNames = {"server_port"}
  FieldOrder <- MCFieldOrder
  Strings = {"other"}
  Integers = {4840}
  MaxJson = 14
  MaxTokens = 15
  MaxSpaces = 1
  MaxInt = 131071
  MaxPort = 65535
  RootedPaths <- MCRootedPaths
  FileTargets <- MCFileTargets
  Requests <- MCRequests
  Edits <- MCEdits
  MaxEdits = 3
  Absent = Absent
  Paths <- MCPaths
  MaxArguments = 2
  MaxText = 6
INVARIANTS
  StringsExact
  IntegersExact
  ObjectsExact
  RowsExact
  ArgumentsSurvive
CHECK_DEADLOCK FALSE
