---------------------------- MODULE MCConversions ----------------------------
(* Small inputs for the conversions, at the boundaries of the ranges that  *)
(* the code tells apart.                                                   *)
EXTENDS Conversions, Integers, Sequences

(* The operators the inputs are written with: they depend on none of the   *)
(* inputs and none of the variables.                                       *)
Bytes == INSTANCE JsonString
           WITH Values <- {}, Elements <- {}, Texts <- {},
                task <- 0, input <- 0, position <- 0, output <- 0, pc <- 0
Fields == INSTANCE ConfigFields
            WITH Requests <- {}, Edits <- 0, rows <- 0, saved <- 0, edits <- 0
Quoting == INSTANCE CommandLine
             WITH Paths <- {}, executable_path <- 0, args <- 0

-----------------------------------------------------------------------------
(* JsonString: bytes and code points *)

SeqsUpTo(S, n) == UNION {[1..k -> S] : k \in 0..n}

MCBytes == {0, 1, 8, 31, 34, 92, 97, 127, 128, 159, 160, 191, 192, 194, 223,
            224, 237, 239, 245}

MCLongSequences ==  \* around the bounds of four bytes
  {240, 243, 244} \X {127, 128, 143, 144, 191} \X {128, 192} \X {128, 191}

MCValues == SeqsUpTo(MCBytes, 3) \cup MCLongSequences

Raw(bytes, unit) == [text |-> bytes, unit |-> unit]
Escaped(letter, unit) == [text |-> <<Bytes!Backslash, letter>>, unit |-> unit]
Unicode(digits, unit) == [text |-> <<Bytes!Backslash, Bytes!LetterU>> \o digits, unit |-> unit]

MCElements == {
  Raw(<<47>>, 47), Raw(<<127>>, 127), Raw(<<194, 128>>, 128),
  Raw(<<239, 191, 191>>, 65535), Raw(<<240, 144, 128, 128>>, 65536),
  Raw(<<31>>, -1), Raw(<<224, 128, 128>>, -1), Raw(<<237, 160, 128>>, -1),
  Raw(<<244, 144, 128, 128>>, -1), Raw(<<255>>, -1),
  Escaped(34, 34), Escaped(47, 47), Escaped(110, 10), Escaped(120, -1),
  Unicode(<<48, 48, 48, 48>>, 0),          \* 0000
  Unicode(<<48, 48, 55, 70>>, 127),        \* 007F
  Unicode(<<48, 55, 70, 102>>, 2047),      \* 07Ff
  Unicode(<<48, 56, 48, 48>>, 2048),       \* 0800
  Unicode(<<68, 55, 70, 70>>, 55295),      \* D7FF
  Unicode(<<68, 56, 48, 48>>, 55296),      \* D800
  Unicode(<<68, 66, 70, 70>>, 56319),      \* DBFF
  Unicode(<<68, 67, 48, 48>>, 56320),      \* DC00
  Unicode(<<100, 102, 102, 102>>, 57343),  \* dfff
  Unicode(<<70, 70, 70, 70>>, 65535),      \* FFFF
  Unicode(<<48, 71, 48, 48>>, -1)}         \* 0G00

(* In threes only those that depend on what is next to them. *)
MCUnits == {e \in MCElements : e.unit \in Bytes!Surrogates \cup {47, 2048}}

Whole(elements) == [elements |-> elements, cut |-> Len(Bytes!TextOf(elements))]

MCTexts ==
  {Whole(e) : e \in SeqsUpTo(MCUnits, 3)}
  \cup UNION {{[elements |-> e, cut |-> n] : n \in 0..Len(Bytes!TextOf(e))} :
              e \in SeqsUpTo(MCElements, 2)}

-----------------------------------------------------------------------------
(* IntegerInput, ConfigJson *)

MCAlphabet == {"0", "1", "2", "7", "8", "-", "+", " "}

MCFieldOrder == <<"server_application_name", "server_port">>

-----------------------------------------------------------------------------
(* ConfigFields *)

MCRootedPaths == {"/", "/opcua"}
MCFileTargets == {"file:a.log"}

(* The default with one field changed, at the bounds of what is valid. *)
MCRequests == {Fields!Default} \cup
  {[Fields!Default EXCEPT !["server_port"] = n] : n \in {-1, 0, 1, MaxPort, MaxPort + 1}} \cup
  {[Fields!Default EXCEPT !["max_sessions"] = n] : n \in {-1, 0, 1, MaxInt}} \cup
  {[Fields!Default EXCEPT !["max_subscriptions"] = n] : n \in {0, 1}} \cup
  UNION {{[Fields!Default EXCEPT ![f] = ""], [Fields!Default EXCEPT ![f] = "other"]} : f \in Fields!StringFields} \cup
  {[Fields!Default EXCEPT !["server_endpoint_path"] = "/opcua"],
   [Fields!Default EXCEPT !["logging_level"] = "error"],
   [Fields!Default EXCEPT !["logging_target"] = "file:a.log"],
   [Fields!Default EXCEPT !["logging_target"] = "file:"]}

MCEdits == [
  server_port |->
    {<<>>, <<"0", "8", "0">>, <<"8", "0", " ">>, <<"-", "1">>, Absent,
     Fields!ToChars(MaxPort), Fields!ToChars(MaxPort + 1), Fields!ToChars(MaxPort + 81)},
  max_sessions |-> {<<"7">>, <<"0">>, <<"9", "9", "9", "9", "9", "9">>},
  logging_level |-> {"debug", "loud", Absent},
  address_space_path |-> {Absent}]

-----------------------------------------------------------------------------
(* CommandLine *)

MCPaths == {<<"x">>, <<"x", Quoting!Backslash, Quoting!Space, "x">>}
=============================================================================
