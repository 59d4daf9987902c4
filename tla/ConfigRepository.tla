-------------------------- MODULE ConfigRepository --------------------------
(***************************************************************************)
(* src/config/config_repository.cc over src/config/sqlite_db.cc: the       *)
(* connections that the supervisor and its daemons have open on one        *)
(* database file, and the part of SQLite they rely on (one writer at a     *)
(* time, BUSY after the busy timeout, atomic commit, snapshot reads, no    *)
(* trace of an uncommitted transaction after a crash).                     *)
(*                                                                         *)
(* A connection runs one operation at a time (the supervisor's is guarded  *)
(* by operations_mutex_, a daemon has one thread that uses it).  The rows  *)
(* of the table are the keys 1..NumKeys in the order of ConfigEntriesFrom. *)
(* SqliteDb::Open ignores the journal mode that PRAGMA journal_mode=WAL    *)
(* answers with, so both modes are modelled.  Time is abstracted: a        *)
(* statement that is blocked may wait or be told SQLITE_BUSY.              *)
(***************************************************************************)
EXTENDS Naturals

CONSTANTS
  Connections,
  NumKeys,          \* how many configuration keys there are (13)
  Values,           \* what a key may be set to
  InvalidValues,    \* those that ServerConfig::Validate rejects
  Absent,           \* the table has no row for the key
  Unset,            \* no configuration
  NoConnection,     \* nobody has the write lock
  Default,          \* ServerConfig::Default()
  Requests,         \* configurations that Save is called with
  IoFaults          \* SQLite calls may fail for other reasons than BUSY

Keys == 1..NumKeys
ServerConfig == [Keys -> Values]

(* ServerConfig::Validate looks at one field at a time. *)
Validate(config) == \A k \in Keys : config[k] \notin InvalidValues

ASSUME ConfigRepositoryAssumption ==
  /\ NumKeys \in Nat \ {0}
  /\ InvalidValues \subseteq Values
  /\ Absent \notin Values
  /\ Unset \notin ServerConfig
  /\ NoConnection \notin Connections
  /\ Default \in ServerConfig /\ Validate(Default)
  /\ Requests \subseteq ServerConfig
  /\ IoFaults \in BOOLEAN

VARIABLES
  wal,          \* the journal mode in force
  table,        \* the table config exists
  store,        \* its committed rows
  writer,       \* the connection inside a write transaction
  pending,      \* the rows as that transaction sees them
  pc,           \* where each connection is in its operation
  next,         \* the entry WriteEntries is about to write
  input,        \* the argument of Save
  snapshot,     \* the rows the SELECT of Load reads
  initialized,  \* Initialize has returned Ok on this connection
  ret           \* what its last operation returned

db == <<table, store, writer, pending>>
local == <<next, input, snapshot, initialized>>
vars == <<wal, table, store, writer, pending, pc, next, input, snapshot,
          initialized, ret>>

Rows == [Keys -> Values \cup {Absent}]
NoRows == [k \in Keys |-> Absent]
Full(rows) == \A k \in Keys : rows[k] # Absent

Init ==
  /\ wal \in BOOLEAN
  /\ table = FALSE
  /\ store = NoRows
  /\ writer = NoConnection
  /\ pending = NoRows
  /\ pc = [c \in Connections |-> "idle"]
  /\ next = [c \in Connections |-> 1]
  /\ input = [c \in Connections |-> Unset]
  /\ snapshot = [c \in Connections |-> NoRows]
  /\ initialized = [c \in Connections |-> FALSE]
  /\ ret = [c \in Connections |-> "none"]

-----------------------------------------------------------------------------
(* SQLite *)

Reading(c) == pc[c] = "rows"

(* With a rollback journal readers keep a commit from the database file. *)
CommitBlocked == ~ wal /\ \E c \in Connections : Reading(c)

(* A statement of its own that writes: begins and commits in one step. *)
AutocommitBlocked == writer # NoConnection \/ CommitBlocked

Goto(c, l) == pc' = [pc EXCEPT ![c] = l]

Return(c, r) ==
  /\ Goto(c, "idle")
  /\ ret' = [ret EXCEPT ![c] = r]
  /\ next' = [next EXCEPT ![c] = 1]
  /\ input' = [input EXCEPT ![c] = Unset]
  /\ snapshot' = [snapshot EXCEPT ![c] = NoRows]

-----------------------------------------------------------------------------
(* Initialize: CREATE TABLE IF NOT EXISTS, then one INSERT OR IGNORE per   *)
(* key, each a transaction of its own.                                     *)

Initialize(c) ==
  /\ pc[c] = "idle"
  /\ Goto(c, "create")
  /\ UNCHANGED <<wal, db, local, ret>>

(* Mutant: defaults are inserted only into a table that is new. *)
CreateTableOnce(c) ==
  /\ pc[c] = "create"
  /\ table \/ ~ AutocommitBlocked
  /\ table' = TRUE
  /\ next' = [next EXCEPT ![c] = IF table THEN NumKeys + 1 ELSE @]
  /\ Goto(c, "defaults")
  /\ UNCHANGED <<wal, store, writer, pending, input, snapshot, initialized,
                 ret>>

CreateTable(c) ==
  /\ pc[c] = "create"
  /\ table \/ ~ AutocommitBlocked
  /\ table' = TRUE
  /\ Goto(c, "defaults")
  /\ UNCHANGED <<wal, store, writer, pending, local, ret>>

(* Mutant: INSERT OR REPLACE. *)
InsertDefaultReplaces(c) ==
  /\ pc[c] = "defaults"
  /\ next[c] \in Keys
  /\ ~ AutocommitBlocked
  /\ store' = [store EXCEPT ![next[c]] = Default[next[c]]]
  /\ next' = [next EXCEPT ![c] = @ + 1]
  /\ UNCHANGED <<wal, table, writer, pending, pc, input, snapshot,
                 initialized, ret>>

(* INSERT OR IGNORE takes the write lock even when the row is there. *)
InsertDefault(c) ==
  /\ pc[c] = "defaults"
  /\ next[c] \in Keys
  /\ ~ AutocommitBlocked
  /\ store' = [store EXCEPT ![next[c]] = IF @ = Absent THEN Default[next[c]]
                                         ELSE @]
  /\ next' = [next EXCEPT ![c] = @ + 1]
  /\ UNCHANGED <<wal, table, writer, pending, pc, input, snapshot,
                 initialized, ret>>

InitializeEnds(c) ==
  /\ pc[c] = "defaults"
  /\ next[c] = NumKeys + 1
  /\ initialized' = [initialized EXCEPT ![c] = TRUE]
  /\ Return(c, "ok")
  /\ UNCHANGED <<wal, db>>

InitializeFails(c) ==
  /\ \/ pc[c] = "create" /\ ~ table
     \/ pc[c] = "defaults" /\ next[c] \in Keys
  /\ AutocommitBlocked \/ IoFaults
  /\ Return(c, "error")
  /\ UNCHANGED <<wal, db, initialized>>

-----------------------------------------------------------------------------
(* Save *)

Save(c, config) ==
  /\ pc[c] = "idle"
  /\ IF Validate(config)
     THEN /\ Goto(c, "begin")
          /\ input' = [input EXCEPT ![c] = config]
          /\ UNCHANGED ret
     ELSE /\ ret' = [ret EXCEPT ![c] = "error"]
          /\ UNCHANGED <<pc, input>>
  /\ UNCHANGED <<wal, db, next, snapshot, initialized>>

(* BEGIN IMMEDIATE *)
Begin(c) ==
  /\ pc[c] = "begin"
  /\ writer = NoConnection
  /\ writer' = c
  /\ pending' = store
  /\ Goto(c, "upserts")
  /\ UNCHANGED <<wal, table, store, local, ret>>

BeginFails(c) ==
  /\ pc[c] = "begin"
  /\ writer # NoConnection \/ IoFaults
  /\ Return(c, "error")
  /\ UNCHANGED <<wal, db, initialized>>

(* Mutant: each upsert commits by itself. *)
UpsertAutocommits(c) ==
  /\ pc[c] = "upserts"
  /\ next[c] \in Keys
  /\ table
  /\ pending' = [pending EXCEPT ![next[c]] = input[c][next[c]]]
  /\ store' = pending'
  /\ next' = [next EXCEPT ![c] = @ + 1]
  /\ UNCHANGED <<wal, table, writer, pc, input, snapshot, initialized, ret>>

Upsert(c) ==
  /\ pc[c] = "upserts"
  /\ next[c] \in Keys
  /\ table
  /\ pending' = [pending EXCEPT ![next[c]] = input[c][next[c]]]
  /\ next' = [next EXCEPT ![c] = @ + 1]
  /\ UNCHANGED <<wal, table, store, writer, pc, input, snapshot, initialized,
                 ret>>

(* SQLite ends the transaction by itself on some errors. *)
UpsertFails(c) ==
  /\ pc[c] = "upserts"
  /\ next[c] \in Keys
  /\ ~ table \/ IoFaults
  /\ \/ UNCHANGED <<writer, pending>>
     \/ IoFaults /\ writer' = NoConnection /\ pending' = NoRows
  /\ Goto(c, "rollback")
  /\ UNCHANGED <<wal, table, store, local, ret>>

Commit(c) ==
  /\ pc[c] = "upserts"
  /\ next[c] = NumKeys + 1
  /\ ~ CommitBlocked
  /\ store' = pending
  /\ writer' = NoConnection
  /\ pending' = NoRows
  /\ Return(c, "ok")
  /\ UNCHANGED <<wal, table, initialized>>

(* Mutant: Save returns without ROLLBACK. *)
CommitFailsReturns(c) ==
  /\ pc[c] = "upserts"
  /\ next[c] = NumKeys + 1
  /\ CommitBlocked \/ IoFaults
  /\ Return(c, "error")
  /\ UNCHANGED <<wal, db, initialized>>

(* A COMMIT that is BUSY leaves the transaction open. *)
CommitFails(c) ==
  /\ pc[c] = "upserts"
  /\ next[c] = NumKeys + 1
  /\ CommitBlocked \/ IoFaults
  /\ \/ UNCHANGED <<writer, pending>>
     \/ IoFaults /\ writer' = NoConnection /\ pending' = NoRows
  /\ Goto(c, "rollback")
  /\ UNCHANGED <<wal, table, store, local, ret>>

(* ROLLBACK, whose result is ignored: it fails when SQLite had already     *)
(* ended the transaction.                                                  *)
Rollback(c) ==
  /\ pc[c] = "rollback"
  /\ IF writer = c
     THEN writer' = NoConnection /\ pending' = NoRows
     ELSE UNCHANGED <<writer, pending>>
  /\ Return(c, "error")
  /\ UNCHANGED <<wal, table, store, initialized>>

-----------------------------------------------------------------------------
(* Load *)

(* The first sqlite3_step of the SELECT opens the snapshot ... *)
Load(c) ==
  /\ pc[c] = "idle"
  /\ IF table
     THEN /\ Goto(c, "rows")
          /\ snapshot' = [snapshot EXCEPT ![c] = store]
          /\ UNCHANGED ret
     ELSE /\ ret' = [ret EXCEPT ![c] = "error"]
          /\ UNCHANGED <<pc, snapshot>>
  /\ UNCHANGED <<wal, db, next, input, initialized>>

(* ... and the last one closes it: PopulateConfig and Validate decide.     *)
LoadEnds(c) ==
  /\ pc[c] = "rows"
  /\ \/ Return(c, IF Full(snapshot[c]) /\ Validate(snapshot[c])
                  THEN "ok" ELSE "error")
     \/ IoFaults /\ Return(c, "error")
  /\ UNCHANGED <<wal, db, initialized>>

-----------------------------------------------------------------------------

(* The process of the connection is killed and another one opens the file. *)
Crash(c) ==
  /\ IF writer = c
     THEN writer' = NoConnection /\ pending' = NoRows
     ELSE UNCHANGED <<writer, pending>>
  /\ initialized' = [initialized EXCEPT ![c] = FALSE]
  /\ Return(c, "none")
  /\ UNCHANGED <<wal, table, store>>

Step(c) ==
  \/ CreateTable(c) \/ InsertDefault(c) \/ InitializeEnds(c)
  \/ InitializeFails(c)
  \/ Begin(c) \/ BeginFails(c) \/ Upsert(c) \/ UpsertFails(c)
  \/ Commit(c) \/ CommitFails(c) \/ Rollback(c)
  \/ LoadEnds(c)

Next ==
  \E c \in Connections :
    \/ Initialize(c)
    \/ \E config \in Requests : Save(c, config)
    \/ Load(c)
    \/ Step(c)
    \/ Crash(c)

Spec == Init /\ [][Next]_vars

-----------------------------------------------------------------------------
(* Properties *)

(* Every variable has its type. *)
ConfigTypeOK ==
  /\ wal \in BOOLEAN
  /\ table \in BOOLEAN
  /\ store \in Rows
  /\ writer \in Connections \cup {NoConnection}
  /\ pending \in Rows
  /\ pc \in [Connections -> {"idle", "create", "defaults", "begin",
                             "upserts", "rollback", "rows"}]
  /\ next \in [Connections -> 1..(NumKeys + 1)]
  /\ input \in [Connections -> ServerConfig \cup {Unset}]
  /\ snapshot \in [Connections -> Rows]
  /\ initialized \in [Connections -> BOOLEAN]
  /\ ret \in [Connections -> {"none", "ok", "error"}]

(* No Load ever sees a mixture: what a SELECT reads is the defaults, or    *)
(* one configuration as it was saved, or (before any Initialize is         *)
(* through) a part of the defaults, although Initialize is not a           *)
(* transaction and a Save may come between any two of its inserts.         *)
LoadSeesWholeConfig ==
  \A c \in Connections : Reading(c) =>
    IF Full(snapshot[c])
    THEN snapshot[c] \in Requests \cup {Default} /\ Validate(snapshot[c])
    ELSE \A k \in Keys : snapshot[c][k] \in {Absent, Default[k]}

(* A process whose Initialize returned Ok finds every key from then on:    *)
(* defaults that a crash left incomplete are repaired by the next start.   *)
InitializeRepairs ==
  \A c \in Connections : initialized[c] =>
    /\ Full(store)
    /\ Reading(c) => Full(snapshot[c])

(* No error path of Save leaves the connection inside its transaction      *)
(* (every later write, also of the daemon, would be BUSY), and nobody      *)
(* writes rows outside a transaction of its own.                           *)
TransactionEnds ==
  \A c \in Connections :
    /\ pc[c] \in {"idle", "create", "defaults", "begin", "rows"} => writer # c
    /\ pc[c] = "upserts" => writer = c

ValidConfigs == {config \in Requests : Validate(config)}

(* The repository implements the register: the configuration in force is   *)
(* the table once it is complete, and changes only by a whole valid one.   *)
Register == INSTANCE ConfigRegister WITH
  Readers <- Connections,
  register <- IF Full(store) THEN store ELSE Unset,
  seen <- [c \in Connections |-> IF Full(snapshot[c]) THEN snapshot[c]
                                 ELSE Unset]

ImplementsRegister == Register!RegisterSpec
=============================================================================
