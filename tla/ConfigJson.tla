------------------------------ MODULE ConfigJson ------------------------------
(***************************************************************************)
(* ConfigJsonParser of src/supervisor/api_server.cc above the level of     *)
(* characters: Parse, ParseObject and BuildConfig, one step per token, and *)
(* ConfigToJson.  A token is punctuation, whitespace, a string, an integer *)
(* or something ParseString and ParseInteger refuse (JsonString and        *)
(* IntegerText say which).  The text is chosen while it is read; only its  *)
(* length is fixed before, because Parse looks at it first.                *)
(***************************************************************************)
EXTENDS Naturals, Sequences, FiniteSets, Functions

CONSTANTS
  StringFields,   \* fields of ServerConfig (10 in the code)
  IntegerFields,  \* (3 in the code)
  FieldOrder,     \* the order in which ConfigToJson prints them
  Strings,        \* what a string may be besides the name of a field
  Integers,
  MaxJson,        \* kMaxConfigJsonBytes, in tokens
  MaxText,        \* the longest text that is sent (a bound of the model)
  MaxSpaces       \* the whitespace in it (a bound of the model)

Fields == StringFields \cup IntegerFields

(* What is assumed of the constants. *)
ConfigJsonAssumption ==
  /\ StringFields \cap IntegerFields = {}
  /\ Strings \cap Fields = {}
  /\ FieldOrder \in Seq(Fields) /\ IsInjective(FieldOrder)
  /\ Range(FieldOrder) = Fields /\ Fields # {}
  /\ {MaxJson, MaxText, MaxSpaces} \subseteq Nat

Punctuation == [kind : {"{", "}", ":", ",", "space", "junk"}]
StringTokens == [kind : {"string"}, value : Strings \cup Fields]
IntegerTokens == [kind : {"integer"}, value : Integers]
Tokens == Punctuation \cup StringTokens \cup IntegerTokens

Mark(kind) == [kind |-> kind]

VARIABLES
  size,    \* the length of the text
  read,    \* the tokens read so far: input_ up to position_
  expect,  \* where ParseObject is
  key,     \* the key before the value that is read
  object   \* the fields read so far

vars == <<size, read, expect, key, object>>

Parsing == {"object", "first", "key", "colon", "value", "separator", "end"}

Init ==
  /\ size \in 0..MaxText
  /\ read = <<>>
  /\ expect = "parse"
  /\ key = CHOOSE f \in Fields : TRUE
  /\ object = <<>>

-----------------------------------------------------------------------------

(* Parse *)
Parse ==
  /\ expect = "parse"
  /\ expect' = IF size > MaxJson THEN "rejected" ELSE "object"
  /\ UNCHANGED <<size, read, key, object>>

(* The token t is next, and when the parser expects one of before it goes  *)
(* on to after.                                                            *)
Read(t, before, after) ==
  /\ Len(read) < size
  /\ expect \in before
  /\ read' = Append(read, t)
  /\ expect' = after
  /\ UNCHANGED size

(* Every Consume, ParseString and ParseInteger begins with SkipWhitespace. *)
SkipWhitespace ==
  /\ Len(SelectSeq(read, LAMBDA t : t.kind = "space")) < MaxSpaces
  /\ Read(Mark("space"), Parsing, expect)
  /\ UNCHANGED <<key, object>>

(* ParseObject *)

Consume(kind, before, after) ==
  Read(Mark(kind), before, after) /\ UNCHANGED <<key, object>>

IsKnownField(name) == name \in Fields

ParseKey(t) ==
  /\ IsKnownField(t.value)
  /\ Read(t, {"first", "key"}, "colon")
  /\ key' = t.value
  /\ UNCHANGED object

(* Mutant: the last of several values wins. *)
ParseValueAgain(t) ==
  /\ Read(t, {"value"}, "separator")
  /\ object' = [f \in DOMAIN object \cup {key} |-> IF f = key THEN t ELSE object[f]]
  /\ UNCHANGED key

ParseValue(t) ==
  /\ key \notin DOMAIN object
  /\ Read(t, {"value"}, "separator")
  /\ object' = [f \in DOMAIN object \cup {key} |-> IF f = key THEN t ELSE object[f]]
  /\ UNCHANGED key

Punctuate ==
  \/ Consume("{", {"object"}, "first")
  \/ Consume(":", {"colon"}, "value")
  \/ Consume(",", {"separator"}, "key")
  \/ Consume("}", {"first", "separator"}, "end")

Acceptable(t) ==
  \/ t.kind = "space"
  \/ t.kind = "{" /\ expect = "object"
  \/ t.kind = ":" /\ expect = "colon"
  \/ t.kind = "," /\ expect = "separator"
  \/ t.kind = "}" /\ expect \in {"first", "separator"}
  \/ t.kind = "string" /\ expect \in {"first", "key"} /\ IsKnownField(t.value)
  \/ t.kind \in {"string", "integer"} /\ expect = "value" /\ key \notin DOMAIN object

(* Any other token, unknown field or duplicate field is an error. *)
Refuse(t) ==
  /\ ~ Acceptable(t)
  /\ Read(t, Parsing, "rejected")
  /\ UNCHANGED <<key, object>>

-----------------------------------------------------------------------------
(* BuildConfig *)

HasKind(f, t) == t.kind = IF f \in StringFields THEN "string" ELSE "integer"

(* ReadString, ReadInteger and the count before them. *)
ReadFields(obj) ==
  /\ Cardinality(DOMAIN obj) = Cardinality(Fields)
  /\ \A f \in Fields : f \in DOMAIN obj /\ HasKind(f, obj[f])

BuildConfig ==
  /\ Len(read) = size
  /\ expect \in Parsing
  /\ expect' = IF expect = "end" /\ ReadFields(object)
               THEN "accepted" ELSE "rejected"
  /\ UNCHANGED <<size, read, key, object>>

Next ==
  \/ Parse \/ SkipWhitespace \/ Punctuate
  \/ \E t \in StringTokens : ParseKey(t)
  \/ \E t \in StringTokens \cup IntegerTokens : ParseValue(t)
  \/ \E t \in Tokens : Refuse(t)
  \/ BuildConfig

Spec == Init /\ [][Next]_vars

-----------------------------------------------------------------------------

(* A configuration as JSON, its fields in any order. *)
TextOf(order, config) ==
  LET field(i) == <<[kind |-> "string", value |-> order[i]], Mark(":"),
                    config[order[i]]>>
      fields[n \in 0..Len(order)] ==
        IF n = 0 THEN <<>>
        ELSE fields[n - 1] \o (IF n = 1 THEN field(n) ELSE <<Mark(",")>> \o field(n))
  IN <<Mark("{")>> \o fields[Len(order)] \o <<Mark("}")>>

ConfigToJson(config) == TextOf(FieldOrder, config)

Configs == {config \in [Fields -> StringTokens \cup IntegerTokens] :
              \A f \in Fields : HasKind(f, config[f])}

Orders == {order \in [1..Cardinality(Fields) -> Fields] : IsInjective(order)}

(* SelectSeq, which the proofs cannot open, written out.                   *)
WithoutSpace(text) ==
  LET solid[n \in 0..Len(text)] ==
        IF n = 0 THEN <<>>
        ELSE IF text[n].kind = "space" THEN solid[n - 1]
        ELSE Append(solid[n - 1], text[n])
  IN solid[Len(text)]

(* text begins with start. *)
Begins(text, start) == \A i \in DOMAIN start : i \in DOMAIN text /\ text[i] = start[i]

-----------------------------------------------------------------------------
(* Properties *)

(* Every variable has its type. *)
ConfigJsonTypeOK ==
  /\ size \in 0..MaxText
  /\ Len(read) <= size
  /\ expect \in Parsing \cup {"parse", "accepted", "rejected"}
  /\ key \in Fields
  /\ DOMAIN object \subseteq Fields
  /\ \A f \in DOMAIN object : object[f] \in StringTokens \cup IntegerTokens

(* PUT never stores a part of a configuration: what the parser accepts is  *)
(* the text of one configuration, whole, in some order, each field once    *)
(* and of its type, and nothing else behind it.                            *)
AcceptsWholeConfigs ==
  expect = "accepted" =>
    /\ object \in Configs
    /\ \E order \in Orders : WithoutSpace(read) = TextOf(order, object)

(* PUT refuses nothing it need not: when it gives up, no way to go on to   *)
(* the length of the text would have given a configuration.                *)
RefusesOnlyOthers ==
  expect = "rejected" /\ size <= MaxJson =>
    ~ \E order \in Orders, config \in Configs :
        LET text == TextOf(order, config)
            solid == WithoutSpace(read)
        IN /\ Begins(text, solid)
           /\ Len(text) - Len(solid) <= size - Len(read)

(* What GET answers can be PUT: it is accepted and is the configuration    *)
(* that was printed.                                                       *)
PrintedIsAccepted ==
  \A config \in Configs :
    LET text == ConfigToJson(config)
    IN size = Len(text) /\ size <= MaxJson /\ Begins(text, read) =>
         /\ expect # "rejected"
         /\ expect = "accepted" => object = config
=============================================================================
