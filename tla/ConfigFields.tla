----------------------------- MODULE ConfigFields -----------------------------
(***************************************************************************)
(* The fields of a ServerConfig (src/config/server_config.cc) and the rows *)
(* they are stored in (src/config/config_repository.cc): what Validate     *)
(* lets through, what Save writes, what Load makes of the rows, and the    *)
(* port that the daemon then serves.  ConfigRepository treats the order of *)
(* these operations and transactions; here each is one step and a row is   *)
(* its text.  Strings have no NUL: JsonString refuses it.                  *)
(***************************************************************************)
EXTENDS IntegerText

CONSTANTS
  RootedPaths,   \* the strings that begin with "/"
  FileTargets,   \* the strings "file:<path>" with a path
  Requests,      \* configurations that Save is called with
  Edits,         \* for some fields, what another program writes into the row
  MaxEdits,      \* how many rows it writes (a bound of the model)
  Absent         \* no row, or no configuration

IntegerFields == {"server_port", "max_sessions", "max_subscriptions"}
StringFields == {
  "server_application_name", "server_product_uri", "server_bind_address",
  "server_endpoint_path", "security_mode", "security_policy",
  "logging_level", "logging_target", "address_space_mode",
  "address_space_path"}
Fields == IntegerFields \cup StringFields

(* ServerConfig::Default *)
Default == [
  server_application_name |-> "Open62541 C++ Server",
  server_product_uri |-> "urn:rakctite:opcua-server-opensource",
  server_bind_address |-> "0.0.0.0", server_port |-> 4840,
  server_endpoint_path |-> "/", security_mode |-> "none",
  security_policy |-> "none", max_sessions |-> 100,
  max_subscriptions |-> 100, logging_level |-> "info",
  logging_target |-> "stdout", address_space_mode |-> "builtin",
  address_space_path |-> ""]

(* ServerConfig::Validate *)
Validate(c) ==
  /\ "" \notin {c.server_application_name, c.server_product_uri, c.server_bind_address}
  /\ c.server_port \in 1..MaxPort
  /\ c.server_endpoint_path \in RootedPaths
  /\ c.security_mode = "none" /\ c.security_policy = "none"
  /\ c.max_sessions > 0 /\ c.max_subscriptions > 0
  /\ c.logging_level \in {"trace", "debug", "info", "warn", "error"}
  /\ c.logging_target \in {"stdout"} \cup FileTargets
  /\ c.address_space_mode = "builtin"

(* What is assumed of the constants. *)
ConfigFieldsAssumption ==
  /\ IntegerTextAssumption
  /\ "/" \in RootedPaths /\ "" \notin RootedPaths
  /\ Validate(Default)
  /\ \A c \in Requests :
       /\ c = [f \in Fields |-> c[f]]
       /\ \A f \in IntegerFields : c[f] \in IntValues
       /\ \A f \in StringFields : c[f] # Absent
  /\ \A n \in IntValues : ToChars(n) # Absent
  /\ DOMAIN Edits \subseteq Fields
  /\ MaxEdits \in Nat

VARIABLES
  rows,    \* the text of each field's row
  saved,   \* the configuration of the last Save since which nobody edited
  edits    \* how many rows were edited

vars == <<rows, saved, edits>>

(* ConfigEntriesFrom *)
ConfigEntriesFrom(c) ==
  [f \in Fields |-> IF f \in IntegerFields THEN ToChars(c[f]) ELSE c[f]]

(* Mutant: a missing row is the default. *)
PopulateConfigDefaults(values) ==
  LET integer(f) == IF values[f] = Absent THEN Number(Default[f])
                    ELSE ParseIntValue(values[f])
  IN IF \A f \in IntegerFields : integer(f).ok
     THEN [f \in Fields |-> IF f \in IntegerFields THEN integer(f).value
                            ELSE IF values[f] = Absent THEN Default[f] ELSE values[f]]
     ELSE Absent

(* PopulateConfig with ReadString and ReadInt: all rows or none. *)
PopulateConfig(values) ==
  IF /\ \A f \in Fields : values[f] # Absent
     /\ \A f \in IntegerFields : ParseIntValue(values[f]).ok
  THEN [f \in Fields |-> IF f \in IntegerFields THEN ParseIntValue(values[f]).value
                         ELSE values[f]]
  ELSE Absent

(* ConfigRepository::Load on these rows. *)
Load(values) ==
  LET config == PopulateConfig(values)
  IN IF config # Absent /\ Validate(config) THEN config ELSE Absent

(* OpcuaServer::Run: static_cast<UA_UInt16>(config_.server_port). *)
ServedPort(config) == config.server_port % (MaxPort + 1)

Init ==
  /\ rows = [f \in Fields |-> Absent]
  /\ saved = Absent
  /\ edits = 0

(* InsertDefaults: INSERT OR IGNORE *)
Initialize ==
  /\ rows' = [f \in Fields |-> IF rows[f] = Absent
                               THEN ConfigEntriesFrom(Default)[f] ELSE rows[f]]
  /\ UNCHANGED <<saved, edits>>

(* UpsertEntries writes every row; an invalid configuration writes none. *)
Save(config) ==
  /\ Validate(config)
  /\ rows' = ConfigEntriesFrom(config)
  /\ saved' = config
  /\ UNCHANGED edits

(* Another program writes or deletes a row. *)
Edit(f) ==
  /\ edits < MaxEdits
  /\ \E text \in Edits[f] : rows' = [rows EXCEPT ![f] = text]
  /\ saved' = Absent
  /\ edits' = edits + 1

Next ==
  \/ Initialize
  \/ \E config \in Requests : Save(config)
  \/ \E f \in DOMAIN Edits : Edit(f)

Spec == Init /\ [][Next]_vars

-----------------------------------------------------------------------------
(* Properties *)

(* What Save answered Ok to is what Load returns, field by field, through  *)
(* the text of the rows and whatever was in the table before: a PUT        *)
(* repairs a table that could not be read.                                 *)
SavedIsLoaded == saved # Absent => Load(rows) = saved

(* Rows that somebody edited are an error or mean what they say: Load      *)
(* returns no field that the row of that field does not hold, and writing  *)
(* the result back would not change what it means.                         *)
LoadInventsNothing ==
  LET config == Load(rows)
  IN config # Absent =>
       /\ \A f \in StringFields : rows[f] = config[f]
       /\ \A f \in IntegerFields :
            rows[f] # Absent /\ ParseIntValue(rows[f]) = Number(config[f])
       /\ Load(ConfigEntriesFrom(config)) = config

(* The daemon serves the port that the client stored: the conversion to 16 *)
(* bits loses nothing and never yields 0, which would be any free port.    *)
PortServedAsStored ==
  LET config == Load(rows)
  IN config # Absent => ServedPort(config) = config.server_port /\ ServedPort(config) > 0
=============================================================================
