----------------------------- MODULE Conversions -----------------------------
(***************************************************************************)
(* The conversions of data on the way through the program: strings and     *)
(* integers of the API (JsonString, IntegerInput), the JSON object of a    *)
(* configuration (ConfigJson), its rows in the database (ConfigFields) and *)
(* the command line of a daemon on Windows (CommandLine).  None of them    *)
(* shares state with another, so a behaviour exercises one, its subject,   *)
(* and leaves the variables of the others at a value that means nothing.   *)
(***************************************************************************)
EXTENDS Naturals

CONSTANTS
  Values, Elements, Texts,                          \* JsonString
  SmallInt, SmallPort, Alphabet, MaxLength,         \* IntegerInput
  StringNames, IntegerNames, FieldOrder, Strings, Integers, MaxJson,
  MaxTokens, MaxSpaces,                             \* ConfigJson
  MaxInt, MaxPort, RootedPaths, FileTargets, Requests, Edits, MaxEdits,
  Absent,                                           \* ConfigFields
  Paths, MaxArguments, MaxText                      \* CommandLine

VARIABLES
  subject,
  task, input, position, output, pc,                \* JsonString
  text,                                             \* IntegerInput
  size, read, expect, key, object,                  \* ConfigJson
  rows, saved, edits,                               \* ConfigFields
  executable_path, args                             \* CommandLine

String == INSTANCE JsonString
Integer == INSTANCE IntegerInput WITH MaxInt <- SmallInt, MaxPort <- SmallPort
Object == INSTANCE ConfigJson
            WITH StringFields <- StringNames, IntegerFields <- IntegerNames,
                 MaxText <- MaxTokens
Row == INSTANCE ConfigFields
Command == INSTANCE CommandLine

ASSUME ConversionsAssumption ==
  /\ String!JsonStringAssumption
  /\ Integer!IntegerInputAssumption
  /\ Object!ConfigJsonAssumption
  /\ Row!ConfigFieldsAssumption
  /\ Command!CommandLineAssumption

stringVars == <<task, input, position, output, pc>>
objectVars == <<size, read, expect, key, object>>
rowVars == <<rows, saved, edits>>
commandVars == <<executable_path, args>>
vars == <<subject, stringVars, text, objectVars, rowVars, commandVars>>

Unused == "unused"

NoString ==
  /\ task = Unused /\ input = Unused /\ position = Unused
  /\ output = Unused /\ pc = Unused
NoInteger == text = Unused
NoObject ==
  /\ size = Unused /\ read = Unused /\ expect = Unused
  /\ key = Unused /\ object = Unused
NoRow == rows = Unused /\ saved = Unused /\ edits = Unused
NoCommand == executable_path = Unused /\ args = Unused

Init ==
  \/ /\ subject = "string" /\ String!Init
     /\ NoInteger /\ NoObject /\ NoRow /\ NoCommand
  \/ /\ subject = "integer" /\ Integer!Init
     /\ NoString /\ NoObject /\ NoRow /\ NoCommand
  \/ /\ subject = "object" /\ Object!Init
     /\ NoString /\ NoInteger /\ NoRow /\ NoCommand
  \/ /\ subject = "row" /\ Row!Init
     /\ NoString /\ NoInteger /\ NoObject /\ NoCommand
  \/ /\ subject = "command" /\ Command!Init
     /\ NoString /\ NoInteger /\ NoObject /\ NoRow

Next ==
  \/ /\ subject = "string" /\ String!Next
     /\ UNCHANGED <<subject, text, objectVars, rowVars, commandVars>>
  \/ /\ subject = "integer" /\ Integer!Next
     /\ UNCHANGED <<subject, stringVars, objectVars, rowVars, commandVars>>
  \/ /\ subject = "object" /\ Object!Next
     /\ UNCHANGED <<subject, stringVars, text, rowVars, commandVars>>
  \/ /\ subject = "row" /\ Row!Next
     /\ UNCHANGED <<subject, stringVars, text, objectVars, commandVars>>
  \/ /\ subject = "command" /\ Command!Next
     /\ UNCHANGED <<subject, stringVars, text, objectVars, rowVars>>

Spec == Init /\ [][Next]_vars

-----------------------------------------------------------------------------
(* Properties: those of the subject, stated at length in its module *)

(* Every string that GET prints can be PUT again and means the same; the   *)
(* parser takes exactly the texts whose every escape and byte means a      *)
(* character other than NUL, and gives them that meaning; and nothing is   *)
(* ever printed longer than it was PUT.  No loop reads behind the end.     *)
StringsExact ==
  subject = "string" =>
    /\ String!JsonTypeOK
    /\ String!RoundTrip
    /\ String!ReadsMeaning
    /\ String!PrintedNoLonger

(* The repository, --api-port and JSON take exactly the numerals each of   *)
(* them is to take, as their value, and what JSON took survives being      *)
(* stored as text.                                                         *)
IntegersExact ==
  subject = "integer" =>
    Integer!StoredIntegerExact /\ Integer!PortExact /\ Integer!JsonIntegerExact

(* The parser accepts one whole configuration and nothing more, refuses    *)
(* only what could not have become one, and accepts what GET prints.       *)
ObjectsExact ==
  subject = "object" =>
    /\ Object!ConfigJsonTypeOK
    /\ Object!AcceptsWholeConfigs
    /\ Object!RefusesOnlyOthers
    /\ Object!PrintedIsAccepted

(* Load returns what Save answered Ok to, through the text of the rows;    *)
(* rows that another program edited are an error or mean what they say;    *)
(* and the port that is served is the one that was stored.                 *)
RowsExact ==
  subject = "row" =>
    Row!SavedIsLoaded /\ Row!LoadInventsNothing /\ Row!PortServedAsStored

(* The arguments of a daemon survive the command line on Windows.          *)
ArgumentsSurvive == subject = "command" => Command!ArgumentsSurvive
=============================================================================
