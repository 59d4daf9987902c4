----------------------- MODULE ConfigRepositoryProofs -----------------------
(***************************************************************************)
(* Proofs about ConfigRepository for any number of connections, keys and   *)
(* values, both journal modes, with or without failing I/O.                *)
(***************************************************************************)
EXTENDS ConfigRepository, TLAPS

-----------------------------------------------------------------------------
(* The inductive invariant *)

(* ConfigTypeOK in two parts, for two provers. *)
Flags == wal \in BOOLEAN /\ table \in BOOLEAN /\ initialized \in [Connections -> BOOLEAN]

Shapes ==
  /\ store \in Rows
  /\ writer \in Connections \cup {NoConnection}
  /\ pending \in Rows
  /\ pc \in [Connections -> {"idle", "create", "defaults", "begin",
                             "upserts", "rollback", "rows"}]
  /\ next \in [Connections -> 1..(NumKeys + 1)]
  /\ input \in [Connections -> ServerConfig \cup {Unset}]
  /\ snapshot \in [Connections -> Rows]
  /\ ret \in [Connections -> {"none", "ok", "error"}]

(* Rows that a SELECT may find: all of a saved configuration or of the     *)
(* defaults, or some of the defaults.                                      *)
WholeOrPart(rows) ==
  IF Full(rows)
  THEN rows \in Requests \cup {Default} /\ Validate(rows)
  ELSE \A k \in Keys : rows[k] \in {Absent, Default[k]}

StoreInv ==
  /\ WholeOrPart(store)
  /\ \A c \in Connections : Reading(c) => WholeOrPart(snapshot[c])

(* Inside its transaction Save has written the keys before next. *)
SaveInv ==
  \A c \in Connections :
    /\ pc[c] \in {"begin", "upserts"} => input[c] \in Requests /\ Validate(input[c])
    /\ pc[c] = "upserts" =>
         \A k \in Keys : k < next[c] => pending[k] = input[c][k]
    /\ pc[c] \notin {"defaults", "upserts", "rollback"} => next[c] = 1

(* Initialize has seen to the keys before next, and nothing removes a key. *)
KeysInv ==
  \A c \in Connections :
    pc[c] = "defaults" => \A k \in Keys : k < next[c] => store[k] # Absent

IInv ==
  /\ Flags /\ Shapes
  /\ StoreInv /\ SaveInv /\ KeysInv /\ TransactionEnds /\ InitializeRepairs

-----------------------------------------------------------------------------
(* Lemmas on rows *)

LEMMA RowTypes == NoRows \in Rows /\ ServerConfig \subseteq Rows /\ Default \in Rows
  BY ConfigRepositoryAssumption DEF NoRows, Rows, ServerConfig

(* A configuration has every key. *)
LEMMA ConfigFull == \A config \in ServerConfig : Full(config)
  BY ConfigRepositoryAssumption DEF ServerConfig, Full

(* Rows that agree on every key are equal. *)
LEMMA RowsEqual ==
  ASSUME NEW x \in Rows, NEW y \in Rows, \A k \in Keys : x[k] = y[k]
  PROVE  x = y
  BY DEF Rows

LEMMA NoRowsPart == ~ Full(NoRows) /\ WholeOrPart(NoRows)
  <1>1. 1 \in Keys
    BY ConfigRepositoryAssumption DEF Keys
  <1> QED BY <1>1 DEF Full, NoRows, WholeOrPart

(* INSERT OR IGNORE of one default. *)
WithDefault(rows, k) ==
  [rows EXCEPT ![k] = IF rows[k] = Absent THEN Default[k] ELSE rows[k]]

LEMMA InsertKeeps ==
  ASSUME NEW rows \in Rows, NEW k \in Keys, WholeOrPart(rows)
  PROVE  /\ WithDefault(rows, k) \in Rows
         /\ WholeOrPart(WithDefault(rows, k))
         /\ \A j \in Keys : rows[j] # Absent => WithDefault(rows, k)[j] # Absent
         /\ WithDefault(rows, k)[k] # Absent
         /\ Full(rows) => WithDefault(rows, k) = rows
  <1>0. SUFFICES ASSUME NEW new, new = WithDefault(rows, k)
               PROVE  /\ new \in Rows /\ WholeOrPart(new)
                      /\ \A j \in Keys : rows[j] # Absent => new[j] # Absent
                      /\ new[k] # Absent
                      /\ Full(rows) => new = rows
    OBVIOUS
  <1>1. /\ Default \in Rows /\ \A j \in Keys : Default[j] # Absent
        /\ Default \in ServerConfig /\ Validate(Default)
    BY RowTypes, ConfigFull, ConfigRepositoryAssumption DEF Full
  <1>2. /\ new \in Rows
        /\ \A j \in Keys : new[j] = IF j = k /\ rows[k] = Absent THEN Default[k] ELSE rows[j]
    BY <1>0, <1>1 DEF Rows, WithDefault
  <1>3. /\ \A j \in Keys : rows[j] # Absent => new[j] # Absent
        /\ new[k] # Absent
    BY <1>1, <1>2
  <1>4. CASE Full(rows)
    <2>1. new = rows
      <3>1. \A j \in Keys : new[j] = rows[j]
        BY <1>2, <1>4 DEF Full
      <3> QED BY <1>2, <3>1, RowsEqual
    <2> QED BY <1>2, <1>3, <2>1
  <1>5. CASE ~ Full(rows)
    <2>1. \A j \in Keys : new[j] \in {Absent, Default[j]}
      BY <1>2, <1>5 DEF WholeOrPart
    <2>2. Full(new) => new = Default
      BY <1>1, <1>2, <2>1, RowsEqual DEF Full
    <2>3. WholeOrPart(new)
      BY <1>1, <2>1, <2>2 DEF WholeOrPart
    <2> QED BY <1>2, <1>3, <1>5, <2>3
  <1> QED BY <1>4, <1>5

-----------------------------------------------------------------------------

LEMMA InitIInv == Init => IInv
  <1> SUFFICES ASSUME Init PROVE IInv
    OBVIOUS
  <1>1. Flags
    BY Zenon DEF Init, Flags
  <1>2. Shapes
    BY RowTypes, ConfigRepositoryAssumption DEF Init, Shapes
  <1>3. StoreInv
    BY NoRowsPart DEF Init, StoreInv, Reading
  <1>4. SaveInv /\ KeysInv
    BY DEF Init, SaveInv, KeysInv
  <1>5. TransactionEnds /\ InitializeRepairs
    BY ConfigRepositoryAssumption DEF Init, TransactionEnds, InitializeRepairs
  <1> QED BY <1>1, <1>2, <1>3, <1>4, <1>5 DEF IInv

-----------------------------------------------------------------------------
(* Steps *)

(* What the end of an operation does to the variables of its connection. *)
LEMMA ReturnEffect ==
  ASSUME Shapes, NEW c \in Connections, NEW r \in {"none", "ok", "error"}, Return(c, r)
  PROVE  /\ pc' \in [Connections -> {"idle", "create", "defaults", "begin",
                                      "upserts", "rollback", "rows"}]
         /\ next' \in [Connections -> 1..(NumKeys + 1)]
         /\ input' \in [Connections -> ServerConfig \cup {Unset}]
         /\ snapshot' \in [Connections -> Rows]
         /\ ret' \in [Connections -> {"none", "ok", "error"}]
         /\ pc'[c] = "idle" /\ next'[c] = 1
         /\ \A d \in Connections \ {c} :
              /\ pc'[d] = pc[d] /\ next'[d] = next[d]
              /\ input'[d] = input[d] /\ snapshot'[d] = snapshot[d]
  BY RowTypes, ConfigRepositoryAssumption DEF Shapes, Return, Goto

(* An operation that ends without a change to the table. *)
LEMMA ReturnStep ==
  ASSUME IInv, NEW c \in Connections, NEW r \in {"none", "ok", "error"}, Return(c, r),
         store' = store, Flags',
         \/ UNCHANGED <<writer, pending>> /\ writer # c
         \/ writer = c /\ writer' = NoConnection /\ pending' = NoRows,
         \A d \in Connections : initialized'[d] => initialized[d] \/ (d = c /\ Full(store))
  PROVE  IInv'
  <1>1. Shapes /\ StoreInv /\ SaveInv /\ KeysInv /\ TransactionEnds /\ InitializeRepairs
    BY DEF IInv
  <1>2. /\ pc'[c] = "idle" /\ next'[c] = 1
        /\ \A d \in Connections \ {c} :
              /\ pc'[d] = pc[d] /\ next'[d] = next[d]
              /\ input'[d] = input[d] /\ snapshot'[d] = snapshot[d]
    BY <1>1, ReturnEffect
  <1>3. Shapes'
    BY <1>1, ReturnEffect, RowTypes DEF Shapes
  <1>4. StoreInv'
    BY <1>1, <1>2 DEF StoreInv, Reading
  <1>5. SaveInv'
    BY <1>1, <1>2 DEF SaveInv, TransactionEnds
  <1>6. KeysInv'
    BY <1>1, <1>2 DEF KeysInv
  <1>7. TransactionEnds'
    BY <1>1, <1>2, ConfigRepositoryAssumption DEF TransactionEnds
  <1>8. InitializeRepairs'
    BY <1>1, <1>2 DEF InitializeRepairs, Reading, Full
  <1> QED BY <1>3, <1>4, <1>5, <1>6, <1>7, <1>8 DEF IInv

LEMMA EndSteps ==
  ASSUME IInv, NEW c \in Connections,
         \/ InitializeEnds(c) \/ InitializeFails(c) \/ BeginFails(c) \/ Rollback(c)
         \/ LoadEnds(c) \/ Crash(c)
  PROVE  IInv'
  <1>1. Flags'
    BY Zenon
    DEF IInv, Flags, InitializeEnds, InitializeFails, BeginFails, Rollback, LoadEnds,
        Crash, db
  <1>2. /\ store' = store
        /\ \/ UNCHANGED <<writer, pending>>
           \/ writer = c /\ writer' = NoConnection /\ pending' = NoRows
    BY DEF InitializeEnds, InitializeFails, BeginFails, Rollback, LoadEnds, Crash, db
  <1>3. UNCHANGED <<writer, pending>> => writer # c
    BY ConfigRepositoryAssumption
    DEF IInv, TransactionEnds, InitializeEnds, InitializeFails, BeginFails, Rollback,
        LoadEnds, Crash
  <1>4. \A d \in Connections : initialized'[d] => initialized[d] \/ (d = c /\ Full(store))
    <2>1. CASE InitializeEnds(c)
      <3>1. pc[c] = "defaults" /\ next[c] = NumKeys + 1
        BY <2>1 DEF InitializeEnds
      <3>2. \A k \in Keys : k < next[c]
        BY <3>1, ConfigRepositoryAssumption DEF Keys
      <3>3. Full(store)
        BY <3>1, <3>2 DEF IInv, KeysInv, Full
      <3>4. \A d \in Connections : initialized'[d] => initialized[d] \/ d = c
        BY Zenon, <2>1 DEF IInv, Flags, InitializeEnds
      <3> QED BY <3>3, <3>4
    <2>2. CASE Crash(c)
      <3>1. initialized' = [initialized EXCEPT ![c] = FALSE]
        BY <2>2 DEF Crash
      <3> QED BY Zenon, <3>1 DEF IInv, Flags
    <2>3. CASE InitializeFails(c) \/ BeginFails(c) \/ Rollback(c) \/ LoadEnds(c)
      <3>1. initialized' = initialized
        BY <2>3 DEF InitializeFails, BeginFails, Rollback, LoadEnds
      <3> QED BY Zenon, <3>1
    <2> QED BY <2>1, <2>2, <2>3
  <1>5. \E r \in {"none", "ok", "error"} : Return(c, r)
    BY DEF InitializeEnds, InitializeFails, BeginFails, Rollback, LoadEnds, Crash
  <1> QED BY <1>1, <1>2, <1>3, <1>4, <1>5, ReturnStep

(* Initialize is called, CREATE TABLE, and one INSERT OR IGNORE. *)
LEMMA InitializeSteps ==
  ASSUME IInv, NEW c \in Connections, Initialize(c) \/ CreateTable(c) \/ InsertDefault(c)
  PROVE  IInv'
  <1>1. Shapes /\ StoreInv /\ SaveInv /\ KeysInv /\ TransactionEnds /\ InitializeRepairs
    BY DEF IInv
  <1>2. Flags'
    BY Zenon DEF IInv, Flags, Initialize, CreateTable, InsertDefault, local, db
  <1>3. UNCHANGED <<writer, pending, input, snapshot, initialized, ret>>
    BY DEF Initialize, CreateTable, InsertDefault, local, db
  <1>4. CASE Initialize(c) \/ CreateTable(c)
    <2>1. /\ UNCHANGED <<store, next>>
          /\ pc[c] \in {"idle", "create"} /\ next[c] = 1
          /\ \E l \in {"create", "defaults"} :
               /\ Goto(c, l)
               /\ \A d \in Connections : pc'[d] = IF d = c THEN l ELSE pc[d]
      BY <1>1, <1>4 DEF Shapes, SaveInv, Initialize, CreateTable, Goto, local, db
    <2>2. Shapes'
      BY <1>1, <1>3, <2>1 DEF Shapes, Goto
    <2>3. StoreInv' /\ InitializeRepairs'
      BY <1>1, <1>3, <2>1 DEF StoreInv, WholeOrPart, Full, Validate, InitializeRepairs, Reading
    <2>4. SaveInv' /\ TransactionEnds'
      BY <1>1, <1>3, <2>1 DEF SaveInv, TransactionEnds
    <2>5. KeysInv'
      BY <1>1, <1>3, <2>1, ConfigRepositoryAssumption DEF KeysInv, Keys
    <2> QED BY <1>2, <2>2, <2>3, <2>4, <2>5 DEF IInv
  <1>5. CASE InsertDefault(c)
    <2>1. /\ pc' = pc /\ pc[c] = "defaults" /\ next[c] \in Keys
          /\ next' = [next EXCEPT ![c] = next[c] + 1]
          /\ store' = WithDefault(store, next[c])
      BY <1>5 DEF InsertDefault, WithDefault
    <2>2. /\ store' \in Rows /\ WholeOrPart(store')
          /\ \A j \in Keys : store[j] # Absent => store'[j] # Absent
          /\ store'[next[c]] # Absent
          /\ Full(store) => store' = store
      <3>1. store \in Rows /\ WholeOrPart(store)
        BY <1>1 DEF Shapes, StoreInv
      <3> QED BY <2>1, <3>1, InsertKeeps
    <2>3. /\ next' \in [Connections -> 1..(NumKeys + 1)]
          /\ next'[c] = next[c] + 1
          /\ \A d \in Connections \ {c} : next'[d] = next[d]
      BY <1>1, <2>1, ConfigRepositoryAssumption DEF Shapes, Keys
    <2>4. Shapes'
      BY <1>1, <1>3, <2>1, <2>2, <2>3 DEF Shapes
    <2>5. StoreInv'
      BY <1>1, <1>3, <2>1, <2>2 DEF StoreInv, WholeOrPart, Full, Validate, Reading
    <2>6. SaveInv' /\ TransactionEnds'
      BY <1>1, <1>3, <2>1, <2>3 DEF SaveInv, TransactionEnds
    <2>7. KeysInv'
      <3>1. \A k \in Keys : k < next[c] + 1 => k < next[c] \/ k = next[c]
        BY <2>1, ConfigRepositoryAssumption DEF Keys
      <3> QED BY <1>1, <2>1, <2>2, <2>3, <3>1 DEF KeysInv
    <2>8. InitializeRepairs'
      BY <1>1, <1>3, <2>1, <2>2 DEF InitializeRepairs, Reading, Full
    <2> QED BY <1>2, <2>4, <2>5, <2>6, <2>7, <2>8 DEF IInv
  <1> QED BY <1>4, <1>5

(* Save and Load are called: both end at once, or enter their first call. *)
LEMMA CallSteps ==
  ASSUME IInv, NEW c \in Connections,
         (\E config \in Requests : Save(c, config)) \/ Load(c)
  PROVE  IInv'
  <1>1. Shapes /\ StoreInv /\ SaveInv /\ KeysInv /\ TransactionEnds /\ InitializeRepairs
    BY DEF IInv
  <1>2. /\ UNCHANGED <<wal, table, store, writer, pending, next, initialized>>
        /\ pc[c] = "idle"
    BY DEF Save, Load, db
  <1>3. Flags'
    BY Zenon, <1>2 DEF IInv, Flags
  <1>4. /\ ret' \in [Connections -> {"none", "ok", "error"}]
        /\ \/ UNCHANGED <<pc, input, snapshot>>
           \/ /\ Goto(c, "begin") /\ UNCHANGED snapshot
              /\ \E config \in Requests :
                   Validate(config) /\ input' = [input EXCEPT ![c] = config]
           \/ /\ Goto(c, "rows") /\ UNCHANGED input
              /\ snapshot' = [snapshot EXCEPT ![c] = store]
    BY <1>1 DEF Shapes, Save, Load
  <1>5. CASE UNCHANGED <<pc, input, snapshot>>
    <2>1. Shapes'
      BY <1>1, <1>2, <1>4, <1>5 DEF Shapes
    <2>2. StoreInv' /\ InitializeRepairs'
      BY <1>1, <1>2, <1>5
      DEF StoreInv, WholeOrPart, Full, Validate, InitializeRepairs, Reading
    <2>3. SaveInv' /\ KeysInv' /\ TransactionEnds'
      BY <1>1, <1>2, <1>5 DEF SaveInv, KeysInv, TransactionEnds
    <2> QED BY <1>3, <2>1, <2>2, <2>3 DEF IInv
  <1>6. ASSUME NEW config \in Requests, Goto(c, "begin"), UNCHANGED snapshot,
               Validate(config), input' = [input EXCEPT ![c] = config]
        PROVE  IInv'
    <2>1. /\ \A d \in Connections : pc'[d] = IF d = c THEN "begin" ELSE pc[d]
          /\ \A d \in Connections : input'[d] = IF d = c THEN config ELSE input[d]
      BY <1>1, <1>6 DEF Shapes, Goto
    <2>2. Shapes'
      <3>1. config \in ServerConfig
        BY ConfigRepositoryAssumption
      <3> QED BY <1>1, <1>2, <1>4, <1>6, <3>1 DEF Shapes, Goto
    <2>3. StoreInv' /\ InitializeRepairs'
      BY <1>1, <1>2, <1>6, <2>1
      DEF StoreInv, WholeOrPart, Full, Validate, InitializeRepairs, Reading
    <2>4. SaveInv'
      BY <1>1, <1>2, <1>6, <2>1 DEF SaveInv, Validate
    <2>5. KeysInv' /\ TransactionEnds'
      BY <1>1, <1>2, <2>1 DEF KeysInv, TransactionEnds
    <2> QED BY <1>3, <2>2, <2>3, <2>4, <2>5 DEF IInv
  <1>7. ASSUME Goto(c, "rows"), UNCHANGED input, snapshot' = [snapshot EXCEPT ![c] = store]
        PROVE  IInv'
    <2>1. /\ \A d \in Connections : pc'[d] = IF d = c THEN "rows" ELSE pc[d]
          /\ \A d \in Connections : snapshot'[d] = IF d = c THEN store ELSE snapshot[d]
      BY <1>1, <1>7 DEF Shapes, Goto
    <2>2. Shapes'
      BY <1>1, <1>2, <1>4, <1>7 DEF Shapes, Goto
    <2>3. StoreInv' /\ InitializeRepairs'
      BY <1>1, <1>2, <2>1 DEF StoreInv, WholeOrPart, Full, Validate, InitializeRepairs, Reading
    <2>4. SaveInv' /\ KeysInv' /\ TransactionEnds'
      BY <1>1, <1>2, <1>7, <2>1 DEF SaveInv, KeysInv, TransactionEnds
    <2> QED BY <1>3, <2>2, <2>3, <2>4 DEF IInv
  <1> QED BY <1>4, <1>5, <1>6, <1>7

(* Inside the transaction the table stays as it is. *)
LEMMA TransactionSteps ==
  ASSUME IInv, NEW c \in Connections,
         Begin(c) \/ Upsert(c) \/ UpsertFails(c) \/ CommitFails(c)
  PROVE  IInv'
  <1>1. Shapes /\ StoreInv /\ SaveInv /\ KeysInv /\ TransactionEnds /\ InitializeRepairs
    BY DEF IInv
  <1>2. UNCHANGED <<wal, table, store, input, snapshot, initialized, ret>>
    BY DEF Begin, Upsert, UpsertFails, CommitFails, local
  <1>3. Flags'
    BY Zenon, <1>2 DEF IInv, Flags
  <1>4. CASE Begin(c)
    <2>1. /\ pc[c] = "begin" /\ writer = NoConnection /\ writer' = c /\ pending' = store
          /\ next' = next /\ next[c] = 1 /\ Goto(c, "upserts")
          /\ \A d \in Connections : pc'[d] = IF d = c THEN "upserts" ELSE pc[d]
      BY <1>1, <1>4 DEF Shapes, SaveInv, Begin, Goto, local
    <2>2. Shapes'
      BY <1>1, <1>2, <2>1 DEF Shapes, Goto
    <2>3. StoreInv' /\ InitializeRepairs'
      BY <1>1, <1>2, <2>1 DEF StoreInv, WholeOrPart, Full, Validate, InitializeRepairs, Reading
    <2>4. KeysInv' /\ TransactionEnds'
      BY <1>1, <1>2, <2>1, ConfigRepositoryAssumption DEF KeysInv, TransactionEnds
    <2>5. SaveInv'
      <3>1. \A k \in Keys : ~ (k < next[c])
        BY <2>1 DEF Keys
      <3>2. \A d \in Connections \ {c} : pc[d] # "upserts"
        BY <1>1, <2>1, ConfigRepositoryAssumption DEF TransactionEnds
      <3> QED BY <1>1, <1>2, <2>1, <3>1, <3>2 DEF SaveInv, Validate
    <2> QED BY <1>3, <2>2, <2>3, <2>4, <2>5 DEF IInv
  <1>5. CASE Upsert(c)
    <2>1. /\ pc' = pc /\ pc[c] = "upserts" /\ next[c] \in Keys /\ writer' = writer
          /\ next' = [next EXCEPT ![c] = next[c] + 1]
          /\ pending' = [pending EXCEPT ![next[c]] = input[c][next[c]]]
          /\ writer = c
      BY <1>1, <1>5 DEF Upsert, TransactionEnds
    <2>2. input[c] \in Rows
      BY <1>1, <2>1, RowTypes, ConfigRepositoryAssumption DEF SaveInv
    <2>3. /\ pending' \in Rows
          /\ \A k \in Keys : pending'[k] = IF k = next[c] THEN input[c][k] ELSE pending[k]
      BY <1>1, <2>1, <2>2 DEF Shapes, Rows
    <2>4. /\ next' \in [Connections -> 1..(NumKeys + 1)]
          /\ next'[c] = next[c] + 1
          /\ \A d \in Connections \ {c} : next'[d] = next[d]
      BY <1>1, <2>1, ConfigRepositoryAssumption DEF Shapes, Keys
    <2>5. Shapes'
      BY <1>1, <1>2, <2>1, <2>3, <2>4 DEF Shapes
    <2>6. StoreInv' /\ InitializeRepairs'
      BY <1>1, <1>2, <2>1 DEF StoreInv, WholeOrPart, Full, Validate, InitializeRepairs, Reading
    <2>7. KeysInv' /\ TransactionEnds'
      BY <1>1, <1>2, <2>1, <2>4 DEF KeysInv, TransactionEnds
    <2>8. SaveInv'
      <3>1. \A k \in Keys : k < next[c] + 1 => k < next[c] \/ k = next[c]
        BY <2>1, ConfigRepositoryAssumption DEF Keys
      <3>2. \A d \in Connections \ {c} : pc[d] # "upserts"
        BY <1>1, <2>1, ConfigRepositoryAssumption DEF TransactionEnds
      <3> QED BY <1>1, <1>2, <2>1, <2>3, <2>4, <3>1, <3>2 DEF SaveInv, Validate
    <2> QED BY <1>3, <2>5, <2>6, <2>7, <2>8 DEF IInv
  <1>6. CASE UpsertFails(c) \/ CommitFails(c)
    <2>1. /\ pc[c] = "upserts" /\ writer = c /\ next' = next /\ Goto(c, "rollback")
          /\ \/ UNCHANGED <<writer, pending>>
             \/ writer' = NoConnection /\ pending' = NoRows
      BY <1>1, <1>6 DEF UpsertFails, CommitFails, TransactionEnds, local
    <2>2. \A d \in Connections : pc'[d] = IF d = c THEN "rollback" ELSE pc[d]
      BY <1>1, <2>1 DEF Shapes, Goto
    <2>3. Shapes'
      BY <1>1, <1>2, <2>1, RowTypes DEF Shapes, Goto
    <2>4. StoreInv' /\ InitializeRepairs'
      BY <1>1, <1>2, <2>1, <2>2
      DEF StoreInv, WholeOrPart, Full, Validate, InitializeRepairs, Reading
    <2>5. KeysInv' /\ TransactionEnds'
      BY <1>1, <1>2, <2>1, <2>2, ConfigRepositoryAssumption DEF KeysInv, TransactionEnds
    <2>6. SaveInv'
      <3>1. \A d \in Connections \ {c} : pc[d] # "upserts"
        BY <1>1, <2>1, ConfigRepositoryAssumption DEF TransactionEnds
      <3> QED BY <1>1, <1>2, <2>1, <2>2, <3>1 DEF SaveInv, Validate
    <2> QED BY <1>3, <2>3, <2>4, <2>5, <2>6 DEF IInv
  <1> QED BY <1>4, <1>5, <1>6

(* COMMIT installs the whole argument of Save. *)
LEMMA CommitEffect ==
  ASSUME IInv, NEW c \in Connections, Commit(c)
  PROVE  store' = input[c] /\ input[c] \in Requests /\ Validate(input[c]) /\ Full(input[c])
  <1>1. pc[c] = "upserts" /\ next[c] = NumKeys + 1 /\ store' = pending
    BY DEF Commit
  <1>2. input[c] \in Requests /\ Validate(input[c]) /\ pending \in Rows
    BY <1>1 DEF IInv, SaveInv, Shapes
  <1>3. input[c] \in ServerConfig
    BY <1>2, ConfigRepositoryAssumption
  <1>4. \A k \in Keys : k < next[c]
    BY <1>1, ConfigRepositoryAssumption DEF Keys
  <1>5. \A k \in Keys : pending[k] = input[c][k]
    BY <1>1, <1>4 DEF IInv, SaveInv
  <1>6. pending = input[c]
    BY <1>2, <1>3, <1>5, RowsEqual, RowTypes
  <1> QED BY <1>1, <1>2, <1>3, <1>6, ConfigFull

LEMMA CommitStep ==
  ASSUME IInv, NEW c \in Connections, Commit(c)
  PROVE  IInv'
  <1>1. Shapes /\ StoreInv /\ SaveInv /\ KeysInv /\ TransactionEnds /\ InitializeRepairs
    BY DEF IInv
  <1>2. store' \in Requests /\ Validate(store') /\ Full(store') /\ store' \in Rows
    <2>1. store' = pending
      BY DEF Commit
    <2> QED BY <1>1, <2>1, CommitEffect DEF Shapes
  <1>3. /\ writer = c /\ writer' = NoConnection /\ pending' = NoRows
        /\ UNCHANGED <<wal, table, initialized>>
    BY <1>1 DEF Commit, TransactionEnds
  <1>4. Return(c, "ok")
    BY DEF Commit
  <1>5. Flags'
    BY Zenon, <1>3 DEF IInv, Flags
  <1>6. /\ pc'[c] = "idle" /\ next'[c] = 1
        /\ \A d \in Connections \ {c} :
              /\ pc'[d] = pc[d] /\ next'[d] = next[d]
              /\ input'[d] = input[d] /\ snapshot'[d] = snapshot[d]
    BY <1>1, <1>4, ReturnEffect
  <1>7. Shapes'
    BY <1>1, <1>2, <1>3, <1>4, ReturnEffect, RowTypes DEF Shapes
  <1>8. StoreInv'
    BY <1>1, <1>2, <1>6 DEF StoreInv, WholeOrPart, Reading
  <1>9. SaveInv'
    <2>1. \A d \in Connections \ {c} : pc[d] # "upserts"
      BY <1>1, <1>3 DEF TransactionEnds
    <2> QED BY <1>1, <1>3, <1>6, <2>1 DEF SaveInv, Validate
  <1>10. KeysInv' /\ TransactionEnds'
    BY <1>1, <1>2, <1>3, <1>6, ConfigRepositoryAssumption DEF KeysInv, TransactionEnds, Full
  <1>11. InitializeRepairs'
    BY <1>1, <1>2, <1>3, <1>6 DEF InitializeRepairs, Reading, Full
  <1> QED BY <1>5, <1>7, <1>8, <1>9, <1>10, <1>11 DEF IInv

LEMMA StutterStep ==
  ASSUME IInv, UNCHANGED vars
  PROVE  IInv'
  <1>1. Flags'
    BY Zenon DEF IInv, Flags, vars, db, local
  <1>2. Shapes'
    BY DEF IInv, Shapes, vars
  <1>3. StoreInv' /\ InitializeRepairs'
    BY DEF IInv, StoreInv, WholeOrPart, Full, Validate, InitializeRepairs, Reading, vars
  <1>4. SaveInv' /\ KeysInv' /\ TransactionEnds'
    BY DEF IInv, SaveInv, KeysInv, TransactionEnds, Validate, vars
  <1> QED BY <1>1, <1>2, <1>3, <1>4 DEF IInv

LEMMA NextIInv == IInv /\ [Next]_vars => IInv'
  <1> SUFFICES ASSUME IInv, [Next]_vars PROVE IInv'
    OBVIOUS
  <1>1. ASSUME NEW c \in Connections, \E config \in Requests : Save(c, config)
        PROVE  IInv'
    BY <1>1, CallSteps
  <1>2. ASSUME NEW c \in Connections, Initialize(c) \/ Load(c) \/ Step(c) \/ Crash(c)
        PROVE  IInv'
    BY <1>2, CallSteps, InitializeSteps, EndSteps, TransactionSteps, CommitStep DEF Step
  <1> QED BY <1>1, <1>2, StutterStep DEF Next

-----------------------------------------------------------------------------

LEMMA Inductive == Spec => []IInv
  BY InitIInv, NextIInv, PTL DEF Spec

(* Every variable keeps its type, whatever the connections do. *)
THEOREM ConfigTypeCorrect == Spec => []ConfigTypeOK
  <1>1. IInv => ConfigTypeOK
    BY DEF IInv, Flags, Shapes, ConfigTypeOK
  <1> QED BY <1>1, Inductive, PTL

(* A Load by any process never sees a mixture of configurations, although  *)
(* Initialize writes the defaults in one transaction per key.              *)
THEOREM LoadsAreWhole == Spec => []LoadSeesWholeConfig
  <1>1. IInv => LoadSeesWholeConfig
    BY DEF IInv, StoreInv, WholeOrPart, LoadSeesWholeConfig
  <1> QED BY <1>1, Inductive, PTL

(* After Initialize has returned Ok no key is ever missing again. *)
THEOREM RepairIsLasting == Spec => []InitializeRepairs
  <1>1. IInv => InitializeRepairs
    BY DEF IInv
  <1> QED BY <1>1, Inductive, PTL

(* No path through Save leaves its connection inside a transaction. *)
THEOREM SaveLeavesNoTransaction == Spec => []TransactionEnds
  <1>1. IInv => TransactionEnds
    BY DEF IInv
  <1> QED BY <1>1, Inductive, PTL

-----------------------------------------------------------------------------
(* The refinement *)

(* The image of rows in the register. *)
Image(rows) == IF Full(rows) THEN rows ELSE Unset

(* Only a Load that is under way holds a snapshot. *)
SnapshotInv ==
  \A c \in Connections : ~ Reading(c) => snapshot[c] = NoRows

LEMMA SnapshotStep == IInv /\ SnapshotInv /\ [Next]_vars => SnapshotInv'
  <1> SUFFICES ASSUME IInv, SnapshotInv, [Next]_vars PROVE SnapshotInv'
    OBVIOUS
  <1>1. Shapes
    BY DEF IInv
  <1>2. ASSUME NEW c \in Connections, NEW r \in {"none", "ok", "error"}, Return(c, r)
        PROVE  SnapshotInv'
    <2>1. snapshot'[c] = NoRows
      BY <1>1, <1>2 DEF Shapes, Return
    <2>2. \A d \in Connections \ {c} : pc'[d] = pc[d] /\ snapshot'[d] = snapshot[d]
      BY <1>1, <1>2, ReturnEffect
    <2> QED BY <2>1, <2>2 DEF SnapshotInv, Reading, NoRows
  <1>3. ASSUME NEW c \in Connections, NEW l, l # "rows", pc[c] # "rows", Goto(c, l),
               snapshot' = snapshot
        PROVE  SnapshotInv'
    BY <1>1, <1>3 DEF Shapes, Goto, SnapshotInv, Reading, NoRows
  <1>4. ASSUME UNCHANGED <<pc, snapshot>> PROVE SnapshotInv'
    BY <1>4 DEF SnapshotInv, Reading, NoRows
  <1>5. ASSUME NEW c \in Connections, NEW config \in Requests, Save(c, config)
        PROVE  SnapshotInv'
    BY <1>3, <1>4, <1>5 DEF Save
  <1>6. ASSUME NEW c \in Connections, Load(c) PROVE SnapshotInv'
    <2>1. CASE UNCHANGED <<pc, snapshot>>
      BY <2>1, <1>4
    <2>2. CASE Goto(c, "rows") /\ snapshot' = [snapshot EXCEPT ![c] = store]
      BY <1>1, <2>2 DEF Shapes, Goto, SnapshotInv, Reading, NoRows
    <2> QED BY <1>6, <2>1, <2>2 DEF Load
  <1>7. ASSUME NEW c \in Connections,
               \/ Initialize(c) \/ CreateTable(c) \/ InsertDefault(c) \/ Begin(c)
               \/ Upsert(c) \/ UpsertFails(c) \/ CommitFails(c)
        PROVE  SnapshotInv'
    BY <1>3, <1>4, <1>7
    DEF Initialize, CreateTable, InsertDefault, Begin, Upsert, UpsertFails, CommitFails,
        local
  <1>8. ASSUME NEW c \in Connections,
               \/ InitializeEnds(c) \/ InitializeFails(c) \/ BeginFails(c) \/ Commit(c)
               \/ Rollback(c) \/ LoadEnds(c) \/ Crash(c)
        PROVE  SnapshotInv'
    BY <1>2, <1>8
    DEF InitializeEnds, InitializeFails, BeginFails, Commit, Rollback, LoadEnds, Crash
  <1>9. CASE UNCHANGED vars
    BY <1>4, <1>9 DEF vars
  <1> QED BY <1>5, <1>6, <1>7, <1>8, <1>9 DEF Next, Step

LEMMA SnapshotInductive == Spec => []SnapshotInv
  <1>1. Init => SnapshotInv
    BY DEF Init, SnapshotInv, NoRows
  <1> QED BY <1>1, Inductive, SnapshotStep, PTL DEF Spec

(* A step of the register's specification, in terms of the rows. *)
LEMMA RegisterStep ==
  ASSUME \/ /\ Image(store') = Image(store)
            /\ \A d \in Connections : Image(snapshot'[d]) = Image(snapshot[d])
         \/ /\ \/ Image(store) = Unset /\ Image(store') = Default
               \/ Image(store') \in ValidConfigs
            /\ \A d \in Connections : Image(snapshot'[d]) = Image(snapshot[d])
         \/ /\ Image(store') = Image(store)
            /\ \E c \in Connections :
                 /\ Image(snapshot'[c]) \in {Image(store), Unset}
                 /\ \A d \in Connections \ {c} : Image(snapshot'[d]) = Image(snapshot[d])
  PROVE  [Register!RegisterNext]_<<IF Full(store) THEN store ELSE Unset,
            [c \in Connections |-> IF Full(snapshot[c]) THEN snapshot[c] ELSE Unset]>>
  <1> DEFINE seen == [c \in Connections |-> Image(snapshot[c])]
  <1>1. CASE \A d \in Connections : Image(snapshot'[d]) = Image(snapshot[d])
    <2>1. seen' = seen
      BY <1>1 DEF Image, Full
    <2> QED BY <1>1, <2>1
        DEF Image, Full, Register!RegisterNext, Register!SetDefault, Register!Publish
  <1>2. ASSUME Image(store') = Image(store), NEW c \in Connections,
               Image(snapshot'[c]) \in {Image(store), Unset},
               \A d \in Connections \ {c} : Image(snapshot'[d]) = Image(snapshot[d])
        PROVE  [Register!RegisterNext]_<<IF Full(store) THEN store ELSE Unset,
            [d \in Connections |-> IF Full(snapshot[d]) THEN snapshot[d] ELSE Unset]>>
    <2>1. seen' = [seen EXCEPT ![c] = Image(store)] \/ seen' = [seen EXCEPT ![c] = Unset]
      <3>1. seen' = [d \in Connections |-> Image(snapshot'[d])]
        BY DEF Image, Full
      <3>2. \A d \in Connections : seen'[d] = IF d = c THEN Image(snapshot'[c]) ELSE seen[d]
        BY <1>2, <3>1
      <3>3. seen' = [seen EXCEPT ![c] = Image(snapshot'[c])]
        BY <3>1, <3>2
      <3> HIDE DEF seen
      <3> QED BY <1>2, <3>3
    <2> QED BY <1>2, <2>1
        DEF Image, Full, Register!RegisterNext, Register!Read, Register!Done
  <1> QED BY <1>1, <1>2

LEMMA NextRefines ==
  ASSUME IInv, SnapshotInv, [Next]_vars
  PROVE  [Register!RegisterNext]_<<IF Full(store) THEN store ELSE Unset,
            [c \in Connections |-> IF Full(snapshot[c]) THEN snapshot[c] ELSE Unset]>>
  <1>1. Shapes /\ StoreInv
    BY DEF IInv
  <1>2. Image(NoRows) = Unset
    BY NoRowsPart DEF Image
  <1>3. CASE UNCHANGED <<store, snapshot>>
    BY <1>3, RegisterStep
  <1>4. ASSUME NEW c \in Connections, Load(c)
        PROVE  Image(snapshot'[c]) \in {Image(store), Unset, Image(snapshot[c])}
    BY <1>1, <1>4 DEF Load, Shapes
  <1>5. ASSUME NEW c \in Connections, Load(c) PROVE
           /\ store' = store
           /\ \A d \in Connections \ {c} : snapshot'[d] = snapshot[d]
    BY <1>1, <1>5 DEF Load, Shapes, db
  <1>6. ASSUME NEW c \in Connections, Load(c)
        PROVE  [Register!RegisterNext]_<<IF Full(store) THEN store ELSE Unset,
            [d \in Connections |-> IF Full(snapshot[d]) THEN snapshot[d] ELSE Unset]>>
    <2>1. Image(store') = Image(store)
      BY <1>5, <1>6
    <2>2. \A d \in Connections \ {c} : Image(snapshot'[d]) = Image(snapshot[d])
      BY <1>5, <1>6
    <2>3. CASE Image(snapshot'[c]) = Image(snapshot[c])
      <3>1. \A d \in Connections : Image(snapshot'[d]) = Image(snapshot[d])
        BY <2>2, <2>3
      <3> QED BY <2>1, <3>1, RegisterStep
    <2>4. CASE Image(snapshot'[c]) \in {Image(store), Unset}
      BY <2>1, <2>2, <2>4, RegisterStep
    <2> QED BY <1>4, <1>6, <2>3, <2>4
  <1>7. ASSUME NEW c \in Connections,
               \/ InitializeEnds(c) \/ InitializeFails(c) \/ BeginFails(c)
               \/ Rollback(c) \/ LoadEnds(c) \/ Crash(c)
        PROVE  [Register!RegisterNext]_<<IF Full(store) THEN store ELSE Unset,
            [d \in Connections |-> IF Full(snapshot[d]) THEN snapshot[d] ELSE Unset]>>
    <2>1. store' = store /\ \E r \in {"none", "ok", "error"} : Return(c, r)
      BY <1>7 DEF InitializeEnds, InitializeFails, BeginFails, Rollback, LoadEnds, Crash, db
    <2>2. /\ snapshot'[c] = NoRows
          /\ \A d \in Connections \ {c} : snapshot'[d] = snapshot[d]
      BY <1>1, <2>1 DEF Shapes, Return
    <2>3. /\ Image(store') = Image(store) /\ Image(snapshot'[c]) = Unset
          /\ \A d \in Connections \ {c} : Image(snapshot'[d]) = Image(snapshot[d])
      BY <1>2, <2>1, <2>2
    <2> QED BY <2>3, RegisterStep
  <1>8. ASSUME NEW c \in Connections, Commit(c)
        PROVE  [Register!RegisterNext]_<<IF Full(store) THEN store ELSE Unset,
            [d \in Connections |-> IF Full(snapshot[d]) THEN snapshot[d] ELSE Unset]>>
    <2>1. Image(store') \in ValidConfigs
      BY <1>8, CommitEffect DEF Image, ValidConfigs
    <2>2. pc[c] = "upserts" /\ Return(c, "ok")
      BY <1>8 DEF Commit
    <2>3. snapshot[c] = NoRows
      BY <2>2 DEF SnapshotInv, Reading
    <2>4. \A d \in Connections : snapshot'[d] = snapshot[d]
      BY <1>1, <2>2, <2>3 DEF Shapes, Return
    <2>5. \A d \in Connections : Image(snapshot'[d]) = Image(snapshot[d])
      BY <2>4
    <2> QED BY <2>1, <2>5, RegisterStep
  <1>9. ASSUME NEW c \in Connections, InsertDefault(c)
        PROVE  [Register!RegisterNext]_<<IF Full(store) THEN store ELSE Unset,
            [d \in Connections |-> IF Full(snapshot[d]) THEN snapshot[d] ELSE Unset]>>
    <2>1. /\ next[c] \in Keys /\ store' = WithDefault(store, next[c])
          /\ snapshot' = snapshot
      BY <1>9 DEF InsertDefault, WithDefault
    <2>2. Image(store') = Image(store) \/ (Image(store) = Unset /\ Image(store') = Default)
      <3>1. CASE Full(store)
        <4>1. store' = store
          BY <1>1, <2>1, <3>1, InsertKeeps DEF Shapes, StoreInv
        <4> QED BY <4>1
      <3>2. CASE ~ Full(store) /\ Full(store')
        <4>1. \A j \in Keys : store[j] \in {Absent, Default[j]}
          BY <1>1, <3>2 DEF StoreInv, WholeOrPart
        <4>2. /\ store' \in Rows
              /\ \A j \in Keys : store'[j] # Absent /\ store'[j] \in {store[j], Default[j]}
          BY <1>1, <2>1, <3>2, InsertKeeps DEF Shapes, StoreInv, WithDefault, Full, Rows
        <4>3. store' = Default
          BY <4>1, <4>2, RowTypes, RowsEqual
        <4> QED BY <3>2, <4>3 DEF Image
      <3>3. CASE ~ Full(store) /\ ~ Full(store')
        BY <3>3 DEF Image
      <3> QED BY <3>1, <3>2, <3>3
    <2> QED BY <2>1, <2>2, RegisterStep
  <1>10. ASSUME NEW c \in Connections,
               \/ \E config \in Requests : Save(c, config)
               \/ Initialize(c) \/ CreateTable(c) \/ Begin(c)
               \/ Upsert(c) \/ UpsertFails(c) \/ CommitFails(c)
        PROVE  UNCHANGED <<store, snapshot>>
    BY <1>10
    DEF Save, Initialize, CreateTable, Begin, Upsert, UpsertFails, CommitFails, local, db
  <1>11. CASE UNCHANGED vars
    BY <1>3, <1>11 DEF vars
  <1> QED BY <1>3, <1>6, <1>7, <1>8, <1>9, <1>10, <1>11 DEF Next, Step

(* The repository implements the register, whatever the number of          *)
(* connections and keys: crashes, BUSY and failing I/O included.           *)
THEOREM RefinesRegister == Spec => ImplementsRegister
  <1>1. Init => Register!RegisterInit
    BY NoRowsPart DEF Init, Register!RegisterInit
  <1> QED BY <1>1, Inductive, SnapshotInductive, NextRefines, PTL
      DEF Spec, ImplementsRegister, Register!RegisterSpec
=============================================================================
