------------------------- MODULE ConfigServiceProofs -------------------------
(***************************************************************************)
(* Proofs about ConfigService for any number of workers, keys and values,  *)
(* with or without failing I/O and failing processes.  The invariants of   *)
(* the repository are not proved again: every step of the service is a     *)
(* step, or none, of the repository, and the lemmas of its proof module    *)
(* are cited by instance.                                                  *)
(***************************************************************************)
EXTENDS ConfigService, TLAPS

Connections == {SupervisorConnection, DaemonConnection}

R == INSTANCE ConfigRepositoryProofs WITH Connections <- Connections

-----------------------------------------------------------------------------
(* The two instances of the repository take the same steps *)

LEMMA SameAssumption ==
  /\ NumKeys \in Nat \ {0}
  /\ InvalidValues \subseteq Values
  /\ Absent \notin Values
  /\ Unset \notin R!ServerConfig
  /\ NoConnection \notin Connections
  /\ Default \in R!ServerConfig /\ R!Validate(Default)
  /\ Requests \subseteq R!ServerConfig
  /\ IoFaults \in BOOLEAN
  BY ConfigServiceAssumption
  DEF Connections, R!ServerConfig, R!Validate, R!Keys,
      Repository!ServerConfig, Repository!Validate, Repository!Keys

LEMMA SameValidate ==
  ASSUME NEW config
  PROVE  Repository!Validate(config) <=> R!Validate(config)
  BY DEF R!Validate, R!Keys, Repository!Validate, Repository!Keys

LEMMA SameStep ==
  ASSUME NEW c \in Connections, Repository!Step(c)
  PROVE  R!Step(c)
  BY DEF Connections, Repository!Step, R!Step,
     Repository!CreateTable, R!CreateTable, Repository!InsertDefault, R!InsertDefault,
     Repository!InitializeEnds, R!InitializeEnds,
     Repository!InitializeFails, R!InitializeFails,
     Repository!Begin, R!Begin, Repository!BeginFails, R!BeginFails,
     Repository!Upsert, R!Upsert, Repository!UpsertFails, R!UpsertFails,
     Repository!Commit, R!Commit, Repository!CommitFails, R!CommitFails,
     Repository!Rollback, R!Rollback, Repository!LoadEnds, R!LoadEnds,
     Repository!Return, R!Return, Repository!Goto, R!Goto,
     Repository!AutocommitBlocked, R!AutocommitBlocked,
     Repository!CommitBlocked, R!CommitBlocked, Repository!Reading, R!Reading,
     Repository!Keys, R!Keys, Repository!NoRows, R!NoRows, Repository!Full, R!Full,
     Repository!Validate, R!Validate, Repository!db, R!db, Repository!local, R!local

LEMMA SameCalls ==
  ASSUME NEW c \in Connections
  PROVE  /\ Repository!Initialize(c) => R!Initialize(c)
         /\ Repository!Load(c) => R!Load(c)
         /\ \A config \in Requests : Repository!Save(c, config) => R!Save(c, config)
         /\ Repository!Crash(c) => R!Crash(c)
  BY DEF Connections, Repository!Initialize, R!Initialize, Repository!Load, R!Load,
     Repository!Save, R!Save, Repository!Crash, R!Crash,
     Repository!Return, R!Return, Repository!Goto, R!Goto,
     Repository!Keys, R!Keys, Repository!NoRows, R!NoRows,
     Repository!Validate, R!Validate, Repository!db, R!db, Repository!local, R!local

LEMMA SameInit == Repository!Init => R!Init
  BY DEF Connections, Repository!Init, R!Init, Repository!NoRows, R!NoRows,
     Repository!Keys, R!Keys

-----------------------------------------------------------------------------
(* What a step of the repository does *)

LEMMA FullRows ==
  ASSUME NEW rows \in R!Rows, R!Full(rows)
  PROVE  rows \in R!ServerConfig
  BY DEF R!Rows, R!Full, R!ServerConfig

(* The ways an operation goes on or ends, and what it may do to the table. *)
Inserts(c) ==
  /\ pc[c] \in {"create", "defaults"}
  /\ pc'[c] = "defaults"
  /\ R!Full(store) => store' = store

Inserted(c) ==
  /\ pc[c] \in {"create", "defaults"}
  /\ pc'[c] = "idle" /\ store' = store
  /\ ret'[c] = "ok" => initialized'[c]

Saves(c) ==
  /\ pc[c] \in {"begin", "upserts"}
  /\ pc'[c] \in {"upserts", "rollback"}
  /\ input'[c] = input[c] /\ store' = store

Fails(c) ==
  /\ pc[c] \in {"begin", "rollback"}
  /\ pc'[c] = "idle" /\ ret'[c] = "error" /\ store' = store

Commits(c) ==
  /\ pc[c] = "upserts"
  /\ pc'[c] = "idle" /\ ret'[c] = "ok"
  /\ store' = input[c] /\ R!Full(store')

Loads(c) ==
  /\ pc[c] = "rows"
  /\ pc'[c] = "idle" /\ store' = store
  /\ ret'[c] = "ok" => R!Full(snapshot[c])

OthersStay(c) ==
  \A d \in Connections \ {c} :
    /\ pc'[d] = pc[d] /\ ret'[d] = ret[d]
    /\ input'[d] = input[d] /\ snapshot'[d] = snapshot[d]
    /\ initialized[d] => initialized'[d]

LEMMA StepEffect ==
  ASSUME R!IInv, NEW c \in Connections, R!Step(c)
  PROVE  /\ \/ Inserts(c) \/ Inserted(c) \/ Saves(c) \/ Fails(c) \/ Commits(c) \/ Loads(c)
         /\ OthersStay(c)
  <1>1. R!Flags /\ R!Shapes /\ R!SaveInv
    BY DEF R!IInv
  <1>2. CASE R!CreateTable(c)
    BY <1>1, <1>2
    DEF R!CreateTable, R!Goto, R!local, R!Shapes, Inserts, OthersStay
  <1>3. CASE R!InsertDefault(c)
    <2>1. R!Full(store) => store' = store
      BY <1>1, <1>3 DEF R!InsertDefault, R!Full, R!Shapes, R!Rows
    <2> QED BY <1>1, <1>3, <2>1 DEF R!InsertDefault, R!Shapes, Inserts, OthersStay
  <1>4. CASE R!InitializeEnds(c) \/ R!InitializeFails(c)
    <2>1. /\ pc[c] \in {"create", "defaults"} /\ store' = store
          /\ \E r \in {"ok", "error"} : R!Return(c, r) /\ (r = "ok" => R!InitializeEnds(c))
      BY <1>4 DEF R!InitializeEnds, R!InitializeFails, R!db
    <2>2. /\ R!InitializeEnds(c) => initialized'[c]
          /\ \A d \in Connections : initialized[d] => initialized'[d]
      BY Zenon, <1>1, <1>4 DEF R!InitializeEnds, R!InitializeFails, R!Flags
    <2>3. ret'[c] = "ok" => R!InitializeEnds(c)
      BY <1>1, <2>1 DEF R!Return, R!Shapes
    <2> QED BY <1>1, <2>1, <2>2, <2>3 DEF R!Return, R!Goto, R!Shapes, Inserted, OthersStay
  <1>5. CASE R!Begin(c) \/ R!Upsert(c) \/ R!UpsertFails(c) \/ R!CommitFails(c)
    BY <1>1, <1>5
    DEF R!Begin, R!Upsert, R!UpsertFails, R!CommitFails, R!Goto, R!local, R!Shapes,
        Saves, OthersStay
  <1>6. CASE R!BeginFails(c) \/ R!Rollback(c)
    BY <1>1, <1>6
    DEF R!BeginFails, R!Rollback, R!Return, R!Goto, R!db, R!Shapes, Fails, OthersStay
  <1>7. CASE R!Commit(c)
    <2>1. /\ input[c] \in R!ServerConfig
          /\ pending \in R!Rows /\ \A k \in R!Keys : pending[k] = input[c][k]
      BY <1>1, <1>7, SameAssumption
      DEF R!Commit, R!SaveInv, R!Shapes, R!Keys
    <2>2. pending = input[c] /\ R!Full(input[c])
      BY <2>1, SameAssumption, R!RowTypes, R!RowsEqual, R!ConfigFull
    <2> QED
      BY <1>1, <1>7, <2>2
      DEF R!Commit, R!Return, R!Goto, R!Shapes, Commits, OthersStay
  <1>8. CASE R!LoadEnds(c)
    BY <1>1, <1>8
    DEF R!LoadEnds, R!Return, R!Goto, R!db, R!Shapes, Loads, OthersStay
  <1> QED BY <1>2, <1>3, <1>4, <1>5, <1>6, <1>7, <1>8 DEF R!Step

(* A call leaves the table as it is, a crash besides ends the operation. *)
LEMMA CallEffect ==
  ASSUME R!IInv, NEW c \in Connections,
         \/ R!Initialize(c) \/ R!Load(c) \/ R!Crash(c)
         \/ \E config \in Requests : R!Save(c, config)
  PROVE  store' = store /\ OthersStay(c)
  <1>1. R!Flags /\ R!Shapes
    BY DEF R!IInv
  <1>2. \A d \in Connections \ {c} : initialized[d] => initialized'[d]
    BY Zenon, <1>1
    DEF R!Initialize, R!Load, R!Save, R!Crash, R!local, R!Flags
  <1> QED
    BY <1>1, <1>2
    DEF R!Initialize, R!Load, R!Save, R!Crash, R!Return, R!Goto, R!local, R!db,
        R!Shapes, OthersStay

-----------------------------------------------------------------------------
(* Every step of the service is a step of its repository, or none *)

(* What a PUT waits with has been parsed and validated. *)
RequestInv ==
  \A w \in Workers :
    /\ handler[w] # "idle" => main = "serving"
    /\ handler[w] \in {"wait", "locked", "called"} /\ request[w].method = "PUT" =>
         request[w].config \in Requests /\ R!Validate(request[w].config)
    /\ handler[w] = "called" => request[w].method \in {"GET", "PUT"}
    /\ handler[w] = "launch" =>
         request[w].method \in {"start", "restart"} /\ daemon = "none"

LEMMA RepositoryMoves == RequestInv /\ Next => [R!Next]_repositoryVars
  <1> SUFFICES ASSUME RequestInv, Next PROVE R!Next \/ UNCHANGED repositoryVars
    OBVIOUS
  <1>1. ASSUME NEW c \in Connections, RepositoryStep(c) PROVE R!Next
    BY <1>1, SameStep DEF RepositoryStep, R!Next
  <1>2. CASE InitializeRepository \/ StartDaemon \/ GiveUp \/ SupervisorDies
             \/ SupervisorRestarts
    BY <1>2, SameCalls
    DEF InitializeRepository, StartDaemon, GiveUp, SupervisorDies, SupervisorRestarts,
        Connections, R!Next
  <1>3. ASSUME NEW w \in Workers, CallRepository(w) PROVE R!Next
    BY <1>3, SameCalls DEF CallRepository, RequestInv, Connections, R!Next
  <1>4. ASSUME NEW w \in Workers,
               \/ \E r \in Methods : Receive(w, r)
               \/ Lock(w) \/ (HandlerStep(w) /\ ~ CallRepository(w))
        PROVE  R!Next \/ UNCHANGED repositoryVars
    BY <1>4, SameCalls
    DEF Receive, Lock, HandlerStep, AnswerRepository, HandleStart, StopDaemon, StopFails,
        Launch, Respond, Connections, R!Next
  <1>5. CASE DaemonInitializes \/ DaemonLoads \/ DaemonServes \/ DaemonEnds
    BY <1>5, SameCalls
    DEF DaemonInitializes, DaemonLoads, DaemonServes, DaemonEnds, Connections, R!Next
  <1> QED BY <1>1, <1>2, <1>3, <1>4, <1>5 DEF Next, Connections

LEMMA RepositoryKeeps == R!IInv /\ RequestInv /\ [Next]_vars => R!IInv'
  <1> SUFFICES ASSUME R!IInv, RequestInv, [Next]_vars PROVE R!IInv'
    OBVIOUS
  <1>1. [R!Next]_repositoryVars
    BY RepositoryMoves DEF vars
  <1> QED BY <1>1, R!NextIInv, SameAssumption DEF R!vars, repositoryVars

-----------------------------------------------------------------------------
(* The inductive invariant *)

HoldsMutex(w) ==
  \/ handler[w] \in {"locked", "called", "launch"}
  \/ handler[w] = "answer" /\ response[w] # 400

MutexInv == \A w \in Workers : operations_mutex = w <=> HoldsMutex(w)

(* The supervisor's connection is used by main before it serves and then   *)
(* by the handler that called it; its daemon is the first.                 *)
MainInv ==
  /\ main \in {"open", "initialize"} => daemon = "none"
  /\ main = "initialize" =>
       /\ pc[SupervisorConnection] \in {"idle", "create", "defaults"}
       /\ pc[SupervisorConnection] = "idle" /\ ret[SupervisorConnection] = "ok" =>
            initialized[SupervisorConnection]
  /\ pc[SupervisorConnection] # "idle" =>
       main = "initialize" \/ \E w \in Workers : handler[w] = "called"

(* How far the operation is that a handler waits for. *)
CallInv ==
  \A w \in Workers : handler[w] = "called" =>
    /\ request[w].method = "PUT" =>
         \/ /\ pc[SupervisorConnection] = "idle"
            /\ ret[SupervisorConnection] = "ok" => store = request[w].config
         \/ pc[SupervisorConnection] = "rollback"
         \/ /\ pc[SupervisorConnection] \in {"begin", "upserts"}
            /\ input[SupervisorConnection] = request[w].config
    /\ request[w].method = "GET" =>
         \/ /\ pc[SupervisorConnection] = "idle"
            /\ ret[SupervisorConnection] = "ok" => loaded[SupervisorConnection] = store
         \/ pc[SupervisorConnection] = "rows" /\ snapshot[SupervisorConnection] = store

DaemonInv ==
  /\ daemon \in {"none", "open", "serving"} => pc[DaemonConnection] = "idle"
  /\ daemon = "initialize" => pc[DaemonConnection] \in {"idle", "create", "defaults"}
  /\ daemon = "load" => pc[DaemonConnection] \in {"idle", "rows"}

(* What the daemon serves, or is about to serve, is one of configs. *)
ServesOneOf(configs) ==
  /\ daemon = "load" =>
       /\ pc[DaemonConnection] = "rows" => snapshot[DaemonConnection] \in configs
       /\ pc[DaemonConnection] = "idle" /\ ret[DaemonConnection] = "ok" =>
            loaded[DaemonConnection] \in configs
  /\ daemon = "serving" => loaded[DaemonConnection] \in configs

AnswerInv ==
  \A w \in Workers : handler[w] = "answer" /\ response[w] = 200 =>
    /\ request[w].method = "PUT" => store = request[w].config
    /\ request[w].method = "GET" => loaded[SupervisorConnection] = store
    /\ request[w].method = "stop" => daemon = "none"
    /\ request[w].method \notin {"PUT", "GET", "stop"} => ServesOneOf({store})

FreshInv ==
  /\ main = "serving" \/ daemon # "none" => R!Full(store) /\ store \in fresh
  /\ ServesOneOf(fresh)

Added ==
  /\ ServiceTypeOK /\ MutexInv /\ RequestInv /\ MainInv /\ CallInv
  /\ DaemonInv /\ AnswerInv /\ FreshInv

IInv == R!IInv /\ Added

LEMMA InitIInv == Init => IInv
  <1> SUFFICES ASSUME Init PROVE IInv
    OBVIOUS
  <1>1. R!IInv
    BY SameInit, SameAssumption, R!InitIInv DEF Init
  <1>2. pc = [c \in Connections |-> "idle"]
    BY DEF Init, Repository!Init, Connections
  <1>3. ServiceTypeOK
    BY DEF Init, ServiceTypeOK
  <1>4. MutexInv /\ RequestInv /\ CallInv /\ AnswerInv
    BY ConfigServiceAssumption
    DEF Init, MutexInv, HoldsMutex, RequestInv, CallInv, AnswerInv
  <1>5. MainInv /\ DaemonInv /\ FreshInv
    BY <1>2 DEF Init, MainInv, DaemonInv, FreshInv, ServesOneOf, Connections
  <1> QED BY <1>1, <1>3, <1>4, <1>5 DEF IInv, Added

-----------------------------------------------------------------------------
(* Steps of the repository *)

LEMMA LoadedStep ==
  ASSUME IInv, NEW c \in Connections, RepositoryStep(c)
  PROVE  /\ \/ Inserts(c) \/ Inserted(c) \/ Saves(c) \/ Fails(c) \/ Commits(c) \/ Loads(c)
         /\ OthersStay(c)
         /\ loaded' = IF Loads(c) /\ ret'[c] = "ok"
                      THEN [loaded EXCEPT ![c] = snapshot[c]] ELSE loaded
         /\ fresh' = IF Commits(c) THEN fresh \cup {store'} ELSE fresh
         /\ UNCHANGED <<main, handler, request, response, operations_mutex, daemon>>
         /\ ServiceTypeOK'
  <1>1. /\ \/ Inserts(c) \/ Inserted(c) \/ Saves(c) \/ Fails(c) \/ Commits(c) \/ Loads(c)
        /\ OthersStay(c)
    BY SameStep, StepEffect DEF RepositoryStep, IInv
  <1>2. /\ loaded' = IF Loads(c) /\ ret'[c] = "ok"
                     THEN [loaded EXCEPT ![c] = snapshot[c]] ELSE loaded
        /\ fresh' = IF Commits(c) THEN fresh \cup {store'} ELSE fresh
        /\ UNCHANGED <<main, handler, request, response, operations_mutex, daemon>>
    BY <1>1
    DEF RepositoryStep, Inserts, Inserted, Saves, Fails, Commits, Loads, handlerVars
  <1>3. Loads(c) /\ ret'[c] = "ok" => snapshot[c] \in R!ServerConfig
    BY FullRows DEF Loads, IInv, R!IInv, R!Shapes
  <1>4. R!ServerConfig = Repository!ServerConfig
    BY DEF R!ServerConfig, Repository!ServerConfig, R!Keys, Repository!Keys
  <1>5. ServiceTypeOK'
    BY <1>2, <1>3, <1>4 DEF IInv, Added, ServiceTypeOK, Connections
  <1> QED BY <1>1, <1>2, <1>5

(* The supervisor's: the daemon has no part in it, and no handler but the  *)
(* one that called.                                                        *)
LEMMA SupervisorStep ==
  ASSUME IInv, RepositoryStep(SupervisorConnection)
  PROVE  Added'
  <1> DEFINE S == SupervisorConnection
             D == DaemonConnection
  <1>1. /\ \/ Inserts(S) \/ Inserted(S) \/ Saves(S) \/ Fails(S) \/ Commits(S) \/ Loads(S)
        /\ OthersStay(S)
        /\ loaded' = IF Loads(S) /\ ret'[S] = "ok"
                     THEN [loaded EXCEPT ![S] = snapshot[S]] ELSE loaded
        /\ fresh' = IF Commits(S) THEN fresh \cup {store'} ELSE fresh
        /\ UNCHANGED <<main, handler, request, response, operations_mutex, daemon>>
        /\ ServiceTypeOK'
    BY LoadedStep DEF Connections
  <1>2. /\ ServiceTypeOK /\ MutexInv /\ RequestInv /\ MainInv /\ CallInv
        /\ DaemonInv /\ AnswerInv /\ FreshInv
    BY DEF IInv, Added
  <1>3. /\ pc'[D] = pc[D] /\ ret'[D] = ret[D] /\ snapshot'[D] = snapshot[D]
        /\ loaded'[D] = loaded[D]
    BY <1>1, <1>2, ConfigServiceAssumption DEF OthersStay, Connections, ServiceTypeOK
  <1>4. loaded'[S] = IF Loads(S) /\ ret'[S] = "ok" THEN snapshot[S] ELSE loaded[S]
    BY <1>1, <1>2 DEF ServiceTypeOK
  <1>5. /\ pc[S] # "idle"
        /\ \/ main = "initialize" /\ \A w \in Workers : handler[w] = "idle"
           \/ main = "serving" /\ \E w \in Workers : handler[w] = "called"
    BY <1>1, <1>2
    DEF Inserts, Inserted, Saves, Fails, Commits, Loads, MainInv, RequestInv
  <1>6. MutexInv' /\ RequestInv'
    BY <1>1, <1>2 DEF MutexInv, HoldsMutex, RequestInv
  <1>7. MainInv'
    BY <1>1, <1>2, <1>5
    DEF MainInv, Inserts, Inserted, Saves, Fails, Commits, Loads
  <1>8. CallInv'
    BY <1>1, <1>2, <1>4, <1>5
    DEF CallInv, RequestInv, Inserts, Inserted, Saves, Fails, Commits, Loads
  <1>9. DaemonInv'
    BY <1>1, <1>2, <1>3 DEF DaemonInv
  <1>10. AnswerInv'
    <2>1. ASSUME NEW w \in Workers, handler[w] = "answer", response[w] = 200 PROVE FALSE
      BY <1>2, <1>5, <2>1 DEF MutexInv, HoldsMutex
    <2> QED BY <1>1, <2>1 DEF AnswerInv
  <1>11. FreshInv'
    <2>1. ServesOneOf(fresh)'
      BY <1>1, <1>2, <1>3 DEF FreshInv, ServesOneOf
    <2>2. main = "serving" \/ daemon # "none" => R!Full(store)' /\ store' \in fresh'
      BY <1>1, <1>2, <1>5
      DEF FreshInv, MainInv, R!Full, Inserts, Inserted, Saves, Fails, Commits, Loads
    <2> QED BY <1>1, <2>1, <2>2 DEF FreshInv
  <1> QED BY <1>1, <1>6, <1>7, <1>8, <1>9, <1>10, <1>11 DEF Added

(* The daemon's: the table has every key already and stays as it is. *)
LEMMA DaemonStep ==
  ASSUME IInv, RepositoryStep(DaemonConnection)
  PROVE  Added' /\ store' = store
  <1> DEFINE S == SupervisorConnection
             D == DaemonConnection
  <1>1. /\ \/ Inserts(D) \/ Inserted(D) \/ Saves(D) \/ Fails(D) \/ Commits(D) \/ Loads(D)
        /\ OthersStay(D)
        /\ loaded' = IF Loads(D) /\ ret'[D] = "ok"
                     THEN [loaded EXCEPT ![D] = snapshot[D]] ELSE loaded
        /\ fresh' = IF Commits(D) THEN fresh \cup {store'} ELSE fresh
        /\ UNCHANGED <<main, handler, request, response, operations_mutex, daemon>>
        /\ ServiceTypeOK'
    BY LoadedStep DEF Connections
  <1>2. /\ ServiceTypeOK /\ MutexInv /\ RequestInv /\ MainInv /\ CallInv
        /\ DaemonInv /\ AnswerInv /\ FreshInv
    BY DEF IInv, Added
  <1>3. /\ pc'[S] = pc[S] /\ ret'[S] = ret[S] /\ snapshot'[S] = snapshot[S]
        /\ input'[S] = input[S] /\ loaded'[S] = loaded[S]
        /\ initialized[S] => initialized'[S]
    BY <1>1, <1>2, ConfigServiceAssumption DEF OthersStay, Connections, ServiceTypeOK
  <1>4. loaded'[D] = IF Loads(D) /\ ret'[D] = "ok" THEN snapshot[D] ELSE loaded[D]
    BY <1>1, <1>2 DEF ServiceTypeOK
  <1>5. \/ daemon = "initialize" /\ (Inserts(D) \/ Inserted(D))
        \/ daemon = "load" /\ Loads(D)
    BY <1>1, <1>2
    DEF DaemonInv, ServiceTypeOK, Inserts, Inserted, Saves, Fails, Commits, Loads
  <1>6. store' = store /\ fresh' = fresh
    BY <1>1, <1>2, <1>5 DEF FreshInv, Inserts, Inserted, Commits, Loads
  <1>7. MutexInv' /\ RequestInv'
    BY <1>1, <1>2 DEF MutexInv, HoldsMutex, RequestInv
  <1>8. MainInv' /\ CallInv'
    BY <1>1, <1>2, <1>3, <1>6 DEF MainInv, CallInv
  <1>9. DaemonInv'
    BY <1>1, <1>5 DEF DaemonInv, Inserts, Inserted, Loads
  <1>10. ASSUME NEW configs, ServesOneOf(configs)
         PROVE  /\ daemon' = "load" =>
                     /\ pc'[D] = "rows" => snapshot'[D] \in configs
                     /\ pc'[D] = "idle" /\ ret'[D] = "ok" => loaded'[D] \in configs
                /\ daemon' = "serving" => loaded'[D] \in configs
    BY <1>1, <1>4, <1>5, <1>10 DEF ServesOneOf, Inserts, Inserted, Loads
  <1>11. AnswerInv'
    <2>1. ServesOneOf({store}) => ServesOneOf({store})'
      BY <1>6, <1>10 DEF ServesOneOf
    <2> QED BY <1>1, <1>2, <1>3, <1>5, <1>6, <2>1 DEF AnswerInv
  <1>12. FreshInv'
    BY <1>1, <1>2, <1>6, <1>10 DEF FreshInv, ServesOneOf, R!Full
  <1> QED BY <1>1, <1>6, <1>7, <1>8, <1>9, <1>11, <1>12 DEF Added

-----------------------------------------------------------------------------
(* Steps of main *)

LEMMA MainSteps ==
  ASSUME IInv, InitializeRepository \/ StartDaemon \/ GiveUp \/ SupervisorRestarts
  PROVE  Added'
  <1>1. /\ ServiceTypeOK /\ MutexInv /\ RequestInv /\ MainInv /\ CallInv
        /\ DaemonInv /\ AnswerInv /\ FreshInv
        /\ R!Shapes
    BY DEF IInv, Added, R!IInv
  <1>2. /\ UNCHANGED <<loaded, handlerVars, store>>
        /\ main \in {"open", "initialize", "ended"} /\ daemon = "none"
        /\ OthersStay(SupervisorConnection)
    <2>1. CASE InitializeRepository
      BY <1>1, <2>1, SameCalls, CallEffect
      DEF InitializeRepository, MainInv, Connections, IInv
    <2>2. CASE StartDaemon \/ GiveUp \/ SupervisorRestarts
      BY <1>1, <2>2
      DEF StartDaemon, GiveUp, SupervisorRestarts, MainInv, repositoryVars, OthersStay
    <2> QED BY <2>1, <2>2
  <1>3. \A w \in Workers : handler[w] = "idle" /\ handler'[w] = "idle"
    BY <1>1, <1>2 DEF RequestInv, handlerVars
  <1>4. MutexInv' /\ RequestInv' /\ CallInv' /\ AnswerInv'
    BY <1>1, <1>2, <1>3
    DEF MutexInv, HoldsMutex, RequestInv, CallInv, AnswerInv, handlerVars
  <1>5. pc'[DaemonConnection] = "idle"
    BY <1>1, <1>2, ConfigServiceAssumption DEF OthersStay, Connections, DaemonInv
  <1>6. CASE InitializeRepository
    <2>1. /\ pc'[SupervisorConnection] = "create"
          /\ main' = "initialize" /\ UNCHANGED <<daemon, fresh>>
      BY <1>1, <1>6
      DEF InitializeRepository, Repository!Initialize, Repository!Goto, R!Shapes, Connections
    <2> QED
      BY <1>1, <1>2, <1>4, <1>5, <2>1
      DEF Added, ServiceTypeOK, MainInv, DaemonInv, FreshInv, ServesOneOf, handlerVars
  <1>7. CASE StartDaemon
    <2>1. /\ main = "initialize" /\ main' = "serving"
          /\ daemon' \in {"open", "none"} /\ fresh' = {store}
          /\ pc[SupervisorConnection] = "idle" /\ ret[SupervisorConnection] = "ok"
          /\ UNCHANGED <<pc, ret, initialized>>
      BY <1>7 DEF StartDaemon, Returned, repositoryVars
    <2>2. R!Full(store)
      BY <1>1, <2>1 DEF MainInv, IInv, R!IInv, R!InitializeRepairs, Connections
    <2>3. ServiceTypeOK' /\ MainInv'
      BY <1>1, <1>2, <2>1 DEF ServiceTypeOK, MainInv, handlerVars
    <2>4. DaemonInv' /\ FreshInv'
      BY <1>1, <1>2, <1>5, <2>1, <2>2 DEF DaemonInv, FreshInv, ServesOneOf, R!Full
    <2> QED BY <1>4, <2>3, <2>4 DEF Added
  <1>8. CASE GiveUp \/ SupervisorRestarts
    <2>1. /\ main' \in {"open", "ended"}
          /\ main = "initialize" => pc[SupervisorConnection] = "idle"
          /\ UNCHANGED <<daemon, fresh, pc, ret>>
      BY <1>8 DEF GiveUp, SupervisorRestarts, Returned, repositoryVars
    <2>2. ServiceTypeOK' /\ MainInv'
      BY <1>1, <1>2, <1>3, <2>1 DEF ServiceTypeOK, MainInv, handlerVars
    <2>3. DaemonInv' /\ FreshInv'
      BY <1>1, <1>2, <2>1 DEF DaemonInv, FreshInv, ServesOneOf
    <2> QED BY <1>4, <2>2, <2>3 DEF Added
  <1> QED BY <1>6, <1>7, <1>8

(* The daemon lives on: what it reads and serves is not touched. *)
LEMMA SupervisorDeath ==
  ASSUME IInv, SupervisorDies
  PROVE  Added'
  <1>1. /\ ServiceTypeOK /\ DaemonInv /\ FreshInv /\ R!Shapes
    BY DEF IInv, Added, R!IInv
  <1>2. store' = store /\ OthersStay(SupervisorConnection)
    BY SameCalls, CallEffect DEF SupervisorDies, Connections, IInv
  <1>3. /\ pc'[SupervisorConnection] = "idle" /\ main' = "ended"
        /\ UNCHANGED <<loaded, daemon, fresh>>
        /\ \A w \in Workers : handler'[w] = "idle" /\ operations_mutex' # w
    BY <1>1, ConfigServiceAssumption
    DEF SupervisorDies, Repository!Crash, Repository!Return, Repository!Goto, R!Shapes,
        Connections
  <1>4. ServiceTypeOK'
    BY <1>1 DEF SupervisorDies, ServiceTypeOK
  <1>5. MutexInv' /\ RequestInv' /\ MainInv' /\ CallInv' /\ AnswerInv'
    BY <1>3 DEF MutexInv, HoldsMutex, RequestInv, MainInv, CallInv, AnswerInv
  <1>6. DaemonInv' /\ FreshInv'
    BY <1>1, <1>2, <1>3, ConfigServiceAssumption
    DEF OthersStay, Connections, DaemonInv, FreshInv, ServesOneOf, R!Full
  <1> QED BY <1>4, <1>5, <1>6 DEF Added

-----------------------------------------------------------------------------
(* Steps of main of the daemon *)

LEMMA DaemonSteps ==
  ASSUME IInv, DaemonInitializes \/ DaemonLoads \/ DaemonServes \/ DaemonEnds
  PROVE  Added' /\ store' = store
  <1> DEFINE S == SupervisorConnection
             D == DaemonConnection
  <1>1. /\ ServiceTypeOK /\ MutexInv /\ RequestInv /\ MainInv /\ CallInv
        /\ DaemonInv /\ AnswerInv /\ FreshInv
        /\ R!Shapes
    BY DEF IInv, Added, R!IInv
  <1>2. /\ UNCHANGED <<loaded, main, handlerVars, fresh, store>>
        /\ daemon # "none"
        /\ OthersStay(D)
    <2>1. CASE DaemonInitializes \/ DaemonLoads \/ DaemonEnds
      BY <2>1, SameCalls, CallEffect
      DEF DaemonInitializes, DaemonLoads, DaemonEnds, Connections, IInv
    <2>2. CASE DaemonServes
      BY <2>2 DEF DaemonServes, repositoryVars, OthersStay
    <2> QED BY <2>1, <2>2
  <1>3. /\ pc'[S] = pc[S] /\ ret'[S] = ret[S] /\ snapshot'[S] = snapshot[S]
        /\ input'[S] = input[S]
        /\ initialized[S] => initialized'[S]
    BY <1>2, ConfigServiceAssumption DEF OthersStay, Connections
  <1>4. \/ daemon' = "initialize" /\ pc'[D] = "create"
        \/ /\ daemon' = "load"
           /\ \/ pc'[D] = "rows" /\ snapshot'[D] = store
              \/ pc'[D] = "idle" /\ ret'[D] = "error"
        \/ /\ daemon = "load" /\ daemon' = "serving"
           /\ pc[D] = "idle" /\ ret[D] = "ok" /\ pc'[D] = "idle"
        \/ daemon' = "none" /\ pc'[D] = "idle"
    <2>1. CASE DaemonInitializes
      BY <1>1, <2>1
      DEF DaemonInitializes, Repository!Initialize, Repository!Goto, R!Shapes, Connections
    <2>2. CASE DaemonLoads
      BY <1>1, <2>2
      DEF DaemonLoads, Returned, Repository!Load, Repository!Goto, R!Shapes, Connections
    <2>3. CASE DaemonServes
      BY <2>3 DEF DaemonServes, Returned, repositoryVars
    <2>4. CASE DaemonEnds
      BY <1>1, <2>4
      DEF DaemonEnds, Repository!Crash, Repository!Return, Repository!Goto, R!Shapes,
          Connections
    <2> QED BY <2>1, <2>2, <2>3, <2>4
  <1>5. ServiceTypeOK'
    BY <1>1, <1>2, <1>4 DEF ServiceTypeOK, handlerVars
  <1>6. MutexInv' /\ MainInv' /\ CallInv'
    <2>1. MutexInv' /\ CallInv'
      BY <1>1, <1>2, <1>3 DEF MutexInv, HoldsMutex, CallInv, handlerVars
    <2>2. MainInv'
      BY <1>1, <1>2, <1>3 DEF MainInv, handlerVars
    <2> QED BY <2>1, <2>2
  <1>7. RequestInv' /\ DaemonInv'
    BY <1>1, <1>2, <1>4 DEF RequestInv, DaemonInv, handlerVars
  <1>8. ASSUME NEW configs, ServesOneOf(configs), store \in configs
        PROVE  /\ daemon' = "load" =>
                    /\ pc'[D] = "rows" => snapshot'[D] \in configs
                    /\ pc'[D] = "idle" /\ ret'[D] = "ok" => loaded'[D] \in configs
               /\ daemon' = "serving" => loaded'[D] \in configs
    BY <1>2, <1>4, <1>8 DEF ServesOneOf
  <1>9. AnswerInv'
    <2>1. ServesOneOf({store}) => ServesOneOf({store})'
      BY <1>2, <1>8 DEF ServesOneOf
    <2> QED BY <1>1, <1>2, <1>4, <2>1 DEF AnswerInv, handlerVars
  <1>10. FreshInv'
    BY <1>1, <1>2, <1>8 DEF FreshInv, ServesOneOf, R!Full
  <1> QED BY <1>2, <1>5, <1>6, <1>7, <1>9, <1>10 DEF Added

-----------------------------------------------------------------------------
(* Steps of the handlers *)

(* A step of one handler is none of another. *)
LEMMA OthersWait ==
  ASSUME ServiceTypeOK, NEW w \in Workers,
         HandlerStep(w) \/ Lock(w) \/ \E r \in Methods : Receive(w, r)
  PROVE  \A v \in Workers \ {w} :
           /\ handler'[v] = handler[v]
           /\ request'[v] = request[v]
           /\ response'[v] = response[v]
  BY DEF ServiceTypeOK, HandlerStep, Lock, Receive, CallRepository, AnswerRepository,
         HandleStart, StopDaemon, StopFails, Launch, Respond, Answer, Goto

(* The handler that takes or holds the mutex keeps out the others. *)
LEMMA MutexStep ==
  ASSUME IInv, NEW w \in Workers,
         HandlerStep(w) \/ Lock(w) \/ \E r \in Methods : Receive(w, r)
  PROVE  MutexInv'
  <1>1. ServiceTypeOK /\ MutexInv
    BY DEF IInv, Added
  <1>2. ASSUME NEW v \in Workers \ {w} PROVE HoldsMutex(v)' <=> HoldsMutex(v)
    BY <1>1, OthersWait DEF HoldsMutex
  <1>3. CASE \E r \in Methods : Receive(w, r)
    <2>1. operations_mutex' = operations_mutex /\ ~ HoldsMutex(w) /\ ~ HoldsMutex(w)'
      BY <1>1, <1>3 DEF Receive, Goto, ServiceTypeOK, HoldsMutex
    <2> QED BY <1>1, <1>2, <2>1 DEF MutexInv
  <1>4. CASE Lock(w)
    <2>1. operations_mutex = NoWorker /\ operations_mutex' = w /\ HoldsMutex(w)'
      BY <1>1, <1>4 DEF Lock, Goto, ServiceTypeOK, HoldsMutex
    <2> QED BY <1>1, <1>2, <2>1, ConfigServiceAssumption DEF MutexInv
  <1>5. CASE Respond(w)
    <2>1. /\ operations_mutex' = IF operations_mutex = w THEN NoWorker ELSE operations_mutex
          /\ ~ HoldsMutex(w)'
      BY <1>1, <1>5 DEF Respond, Goto, ServiceTypeOK, HoldsMutex
    <2> QED BY <1>1, <1>2, <2>1, ConfigServiceAssumption DEF MutexInv
  <1>6. CASE HandlerStep(w) /\ ~ Respond(w)
    <2>1. operations_mutex' = operations_mutex /\ HoldsMutex(w) /\ HoldsMutex(w)'
      BY <1>1, <1>6
      DEF HandlerStep, CallRepository, AnswerRepository, HandleStart, StopDaemon, StopFails,
          Launch, Asked, Answer, Goto, ServiceTypeOK, HoldsMutex
    <2> QED BY <1>1, <1>2, <2>1 DEF MutexInv
  <1> QED BY <1>3, <1>4, <1>5, <1>6

(* While one handler holds the mutex no other is in an operation or has an *)
(* answer to it.                                                           *)
LEMMA Alone ==
  ASSUME MutexInv, NEW w \in Workers, HoldsMutex(w)
  PROVE  \A v \in Workers \ {w} : ~ HoldsMutex(v)
  BY DEF MutexInv

(* Steps that touch neither the repository nor the daemon. *)
LEMMA QuietSteps ==
  ASSUME IInv, NEW w \in Workers,
         \/ \E r \in Methods : Receive(w, r)
         \/ Lock(w) \/ AnswerRepository(w) \/ HandleStart(w) \/ StopFails(w) \/ Respond(w)
  PROVE  Added' /\ store' = store
  <1>1. /\ ServiceTypeOK /\ MutexInv /\ RequestInv /\ MainInv /\ CallInv
        /\ DaemonInv /\ AnswerInv /\ FreshInv
    BY DEF IInv, Added
  <1>2. /\ UNCHANGED <<store, pc, input, snapshot, initialized, ret>>
        /\ UNCHANGED <<loaded, main, daemon, fresh>>
        /\ handler[w] # "idle" => main = "serving"
        /\ main = "serving"
    BY <1>1
    DEF Receive, Lock, AnswerRepository, HandleStart, StopFails, Respond, Asked,
        RequestInv, repositoryVars
  <1>3. \A v \in Workers \ {w} :
          handler'[v] = handler[v] /\ request'[v] = request[v] /\ response'[v] = response[v]
    BY <1>1, OthersWait DEF HandlerStep
  <1>4. MutexInv'
    BY MutexStep DEF HandlerStep
  <1>5. ServiceTypeOK'
    BY <1>1, <1>2
    DEF ServiceTypeOK, Receive, Lock, AnswerRepository, HandleStart, StopFails, Respond,
        Answer, Goto
  <1>6. DaemonInv' /\ FreshInv'
    BY <1>1, <1>2 DEF DaemonInv, FreshInv, ServesOneOf, R!Full
  <1>7. /\ handler'[w] # "called"
        /\ handler[w] = "called" => pc[SupervisorConnection] = "idle"
    BY <1>1
    DEF ServiceTypeOK, Receive, Lock, AnswerRepository, HandleStart, StopFails, Respond,
        Answer, Goto, Asked, Returned
  <1>8. MainInv' /\ CallInv'
    <2>1. CallInv'
      BY <1>1, <1>2, <1>3, <1>7 DEF CallInv
    <2>2. MainInv'
      BY <1>1, <1>2, <1>3, <1>7 DEF MainInv
    <2> QED BY <2>1, <2>2
  <1>9. RequestInv'
    <2>1. /\ handler'[w] \in {"wait", "locked"} /\ request'[w].method = "PUT" =>
               request'[w].config \in Requests /\ R!Validate(request'[w].config)
          /\ handler'[w] = "launch" =>
               request'[w].method \in {"start", "restart"} /\ daemon = "none"
      BY <1>1, SameValidate
      DEF ServiceTypeOK, RequestInv, Receive, Methods, Lock, AnswerRepository, HandleStart,
          StopFails, Respond, Answer, Goto, Asked
    <2> QED BY <1>1, <1>2, <1>3, <1>7, <2>1 DEF RequestInv, R!Validate
  <1>10. AnswerInv'
    <2>1. handler'[w] = "answer" /\ response'[w] = 200 =>
            /\ request'[w].method = "PUT" => store = request'[w].config
            /\ request'[w].method = "GET" => loaded[SupervisorConnection] = store
            /\ request'[w].method \in {"PUT", "GET"}
      BY <1>1
      DEF ServiceTypeOK, RequestInv, CallInv, Receive, Lock, AnswerRepository, HandleStart,
          StopFails, Respond, Answer, Goto, Asked, Returned
    <2> QED BY <1>1, <1>2, <1>3, <2>1 DEF AnswerInv, ServesOneOf
  <1> QED BY <1>2, <1>4, <1>5, <1>6, <1>8, <1>9, <1>10 DEF Added

(* Load and Save are called on a connection that is idle. *)
LEMMA CallStep ==
  ASSUME IInv, NEW w \in Workers, CallRepository(w)
  PROVE  Added' /\ store' = store
  <1> DEFINE S == SupervisorConnection
             D == DaemonConnection
  <1>1. /\ ServiceTypeOK /\ MutexInv /\ RequestInv /\ MainInv /\ CallInv
        /\ DaemonInv /\ AnswerInv /\ FreshInv
        /\ R!Shapes
    BY DEF IInv, Added, R!IInv
  <1>2. /\ handler[w] = "locked" /\ main = "serving"
        /\ request[w].method = "PUT" =>
             request[w].config \in Requests /\ R!Validate(request[w].config)
    BY <1>1 DEF CallRepository, RequestInv
  <1>3. store' = store /\ OthersStay(S)
    BY <1>2, SameCalls, CallEffect DEF CallRepository, IInv, Connections
  <1>4. /\ UNCHANGED <<loaded, main, request, response, operations_mutex, daemon, fresh>>
        /\ \A v \in Workers : handler'[v] = IF v = w THEN "called" ELSE handler[v]
        /\ handler' \in [Workers -> {"idle", "wait", "locked", "called", "launch", "answer"}]
    BY <1>1 DEF CallRepository, Goto, ServiceTypeOK
  <1>5. \/ /\ request[w].method = "GET"
           /\ \/ pc'[S] = "rows" /\ snapshot'[S] = store
              \/ pc'[S] = "idle" /\ ret'[S] = "error"
        \/ /\ request[w].method = "PUT"
           /\ pc'[S] = "begin" /\ input'[S] = request[w].config
    <2>1. CASE request[w].method = "GET"
      BY <1>1, <2>1
      DEF CallRepository, Repository!Load, Repository!Goto, R!Shapes, Connections
    <2>2. CASE request[w].method # "GET"
      BY <1>1, <1>2, <2>2, SameValidate
      DEF CallRepository, Repository!Save, Repository!Goto, R!Shapes, Connections
    <2> QED BY <2>1, <2>2
  <1>6. \A v \in Workers \ {w} : ~ HoldsMutex(v)
    BY <1>1, <1>2, Alone DEF HoldsMutex
  <1>7. MutexInv'
    BY MutexStep DEF HandlerStep
  <1>8. ServiceTypeOK' /\ RequestInv'
    BY <1>1, <1>2, <1>4, <1>5 DEF ServiceTypeOK, RequestInv, R!Validate
  <1>9. MainInv'
    BY <1>2, <1>4 DEF MainInv
  <1>10. CallInv'
    BY <1>3, <1>4, <1>5, <1>6 DEF CallInv, HoldsMutex
  <1>11. AnswerInv'
    BY <1>4, <1>6 DEF AnswerInv, HoldsMutex
  <1>12. DaemonInv' /\ FreshInv'
    BY <1>1, <1>3, <1>4, ConfigServiceAssumption
    DEF OthersStay, Connections, DaemonInv, FreshInv, ServesOneOf, R!Full
  <1> QED BY <1>3, <1>7, <1>8, <1>9, <1>10, <1>11, <1>12 DEF Added

(* The daemon is stopped, or launched into an empty slot. *)
LEMMA ControlSteps ==
  ASSUME IInv, NEW w \in Workers, StopDaemon(w) \/ Launch(w)
  PROVE  Added' /\ store' = store
  <1> DEFINE S == SupervisorConnection
             D == DaemonConnection
  <1>1. /\ ServiceTypeOK /\ MutexInv /\ RequestInv /\ MainInv /\ CallInv
        /\ DaemonInv /\ AnswerInv /\ FreshInv
        /\ R!Shapes
    BY DEF IInv, Added, R!IInv
  <1>2. HoldsMutex(w) /\ main = "serving"
    BY <1>1 DEF StopDaemon, Launch, Asked, HoldsMutex, RequestInv
  <1>3. store' = store /\ OthersStay(D) /\ pc'[D] = "idle"
    <2>1. CASE StopDaemon(w)
      <3>1. store' = store /\ OthersStay(D)
        BY <2>1, SameCalls, CallEffect DEF StopDaemon, IInv, Connections
      <3>2. pc'[D] = "idle"
        BY <1>1, <2>1
        DEF StopDaemon, Repository!Crash, Repository!Return, Repository!Goto, R!Shapes,
            Connections
      <3> QED BY <3>1, <3>2
    <2>2. CASE Launch(w)
      BY <1>1, <2>2 DEF Launch, RequestInv, DaemonInv, repositoryVars, OthersStay
    <2> QED BY <2>1, <2>2
  <1>4. /\ pc'[S] = pc[S] /\ ret'[S] = ret[S] /\ snapshot'[S] = snapshot[S]
        /\ input'[S] = input[S]
        /\ initialized[S] => initialized'[S]
    BY <1>3, ConfigServiceAssumption DEF OthersStay, Connections
  <1>5. \A v \in Workers \ {w} :
          /\ handler'[v] = handler[v] /\ request'[v] = request[v] /\ response'[v] = response[v]
          /\ ~ HoldsMutex(v)
    BY <1>1, <1>2, OthersWait, Alone DEF HandlerStep
  <1>6. MutexInv'
    BY MutexStep DEF HandlerStep
  <1>7. /\ UNCHANGED <<loaded, main, request>>
        /\ handler[w] # "called" /\ handler'[w] \in {"launch", "answer"}
        /\ daemon' \in {"none", "open"}
        /\ fresh' = fresh \/ fresh' = {store}
        /\ ServiceTypeOK'
    BY <1>1 DEF StopDaemon, Launch, Asked, Answer, Goto, ServiceTypeOK
  <1>8. RequestInv'
    <2>1. handler'[w] = "launch" =>
            request'[w].method \in {"start", "restart"} /\ daemon' = "none"
      BY <1>1 DEF StopDaemon, Launch, Asked, Answer, Goto, ServiceTypeOK
    <2> QED BY <1>1, <1>2, <1>5, <1>7, <2>1 DEF RequestInv, HoldsMutex, R!Validate
  <1>9. MainInv'
    BY <1>1, <1>2, <1>4, <1>5, <1>7 DEF MainInv
  <1>10. CallInv'
    BY <1>5, <1>7 DEF CallInv, HoldsMutex
  <1>11. DaemonInv' /\ FreshInv'
    BY <1>1, <1>2, <1>3, <1>7 DEF DaemonInv, FreshInv, ServesOneOf, R!Full
  <1>12. AnswerInv'
    <2>1. handler'[w] = "answer" /\ response'[w] = 200 =>
            \/ request'[w].method = "stop" /\ daemon' = "none"
            \/ request'[w].method \in {"start", "restart"}
      BY <1>1 DEF StopDaemon, Launch, RequestInv, Asked, Answer, Goto, ServiceTypeOK
    <2> QED BY <1>5, <1>7, <2>1 DEF AnswerInv, HoldsMutex, ServesOneOf
  <1> QED BY <1>3, <1>6, <1>7, <1>8, <1>9, <1>10, <1>11, <1>12 DEF Added

-----------------------------------------------------------------------------

LEMMA NextAdded == IInv /\ Next => Added'
  BY SupervisorStep, DaemonStep, MainSteps, SupervisorDeath, DaemonSteps, QuietSteps,
     CallStep, ControlSteps
  DEF Next, HandlerStep

LEMMA StutterAdded == IInv /\ UNCHANGED vars => Added'
  <1> SUFFICES ASSUME IInv, UNCHANGED vars PROVE Added'
    OBVIOUS
  <1>1. /\ UNCHANGED <<store, pc, input, snapshot, initialized, ret, loaded, main>>
        /\ UNCHANGED <<handler, request, response, operations_mutex, daemon, fresh>>
    BY DEF vars, repositoryVars, handlerVars
  <1>2. ServiceTypeOK' /\ MutexInv' /\ RequestInv'
    BY <1>1
    DEF IInv, Added, ServiceTypeOK, MutexInv, HoldsMutex, RequestInv, R!Validate
  <1>3. MainInv' /\ CallInv'
    BY <1>1 DEF IInv, Added, MainInv, CallInv
  <1>4. DaemonInv' /\ AnswerInv' /\ FreshInv'
    BY <1>1 DEF IInv, Added, DaemonInv, AnswerInv, FreshInv, ServesOneOf, R!Full
  <1> QED BY <1>2, <1>3, <1>4 DEF Added

LEMMA NextIInv == IInv /\ [Next]_vars => IInv'
  <1> SUFFICES ASSUME IInv, [Next]_vars PROVE IInv'
    OBVIOUS
  <1>1. R!IInv'
    BY RepositoryKeeps DEF IInv, Added
  <1>2. Added'
    BY NextAdded, StutterAdded
  <1> QED BY <1>1, <1>2 DEF IInv

LEMMA Inductive == Spec => []IInv
  BY InitIInv, NextIInv, PTL DEF Spec

-----------------------------------------------------------------------------
(* Theorems *)

(* Every variable of the service keeps its type. *)
THEOREM ServiceTypeCorrect == Spec => []ServiceTypeOK
  <1>1. IInv => ServiceTypeOK
    BY DEF IInv, Added
  <1> QED BY <1>1, Inductive, PTL

(* The handlers never use their common connection at once, and the mutex   *)
(* is held exactly by the one between taking it and its response.          *)
THEOREM OneAtATime == Spec => []ConnectionExclusive
  <1>1. IInv => ConnectionExclusive
    <2> SUFFICES ASSUME IInv, NEW w \in Workers
                 PROVE  /\ handler[w] = "locked" =>
                             pc[SupervisorConnection] = "idle" /\ main = "serving"
                        /\ operations_mutex = w <=>
                              \/ handler[w] \in {"locked", "called", "launch"}
                              \/ handler[w] = "answer" /\ response[w] # 400
      BY DEF ConnectionExclusive
    <2>1. MutexInv /\ RequestInv /\ MainInv
      BY DEF IInv, Added
    <2>2. ASSUME handler[w] = "locked"
          PROVE  pc[SupervisorConnection] = "idle" /\ main = "serving"
      <3>1. \A v \in Workers : handler[v] # "called"
        BY <2>1, <2>2, Alone DEF HoldsMutex
      <3> QED BY <2>1, <2>2, <3>1 DEF RequestInv, MainInv
    <2> QED BY <2>1, <2>2 DEF MutexInv, HoldsMutex
  <1> QED BY <1>1, Inductive, PTL

(* After 200 a PUT is in force, a GET showed what is in force, a stop left *)
(* no daemon, and a start or restart leaves none that serves anything else *)
(* than what is in force.                                                  *)
THEOREM AnswersAreTrue == Spec => []AnswersTruthful
  <1>1. IInv => AnswersTruthful
    <2> SUFFICES ASSUME IInv, NEW w \in Workers, handler[w] = "answer", response[w] = 200
                 PROVE  CASE request[w].method = "PUT" -> store = request[w].config
                          [] request[w].method = "GET" -> loaded[SupervisorConnection] = store
                          [] request[w].method = "stop" -> daemon = "none"
                          [] OTHER -> daemon # "serving" \/ loaded[DaemonConnection] = store
      BY DEF AnswersTruthful
    <2> QED BY DEF IInv, Added, AnswerInv, ServesOneOf
  <1> QED BY <1>1, Inductive, PTL

(* A daemon that serves has never loaded a configuration that was replaced *)
(* before the last start or restart that was answered 200.                 *)
THEOREM ConfigurationsApply == Spec => []ServesFresh
  <1>1. IInv => ServesFresh
    BY DEF IInv, Added, FreshInv, ServesOneOf, ServesFresh
  <1> QED BY <1>1, Inductive, PTL

(* Nothing but the PUT that is about to be answered 200 replaces a         *)
(* configuration in force.                                                 *)
THEOREM OnlyPutReplaces == Spec => ReplacedOnlyByPut
  <1> DEFINE S == SupervisorConnection
             Replaced ==
               \E w \in Workers :
                 /\ operations_mutex = w /\ handler[w] = "called"
                 /\ request[w].method = "PUT" /\ request[w].config = store'
                 /\ ret'[S] = "ok"
  <1>1. ASSUME IInv, [Next]_vars, R!Full(store), store' # store
        PROVE  Replaced
    <2>1. /\ MutexInv /\ RequestInv /\ MainInv /\ CallInv
      BY <1>1 DEF IInv, Added
    <2>2. CASE RepositoryStep(S)
      <3>1. Commits(S)
        BY <1>1, <2>2, LoadedStep
        DEF Connections, Inserts, Inserted, Saves, Fails, Loads
      <3>2. PICK w \in Workers : handler[w] = "called"
        BY <2>1, <3>1 DEF Commits, MainInv
      <3>3. request[w].method = "PUT" /\ request[w].config = store' /\ ret'[S] = "ok"
        BY <2>1, <3>1, <3>2 DEF Commits, CallInv, RequestInv
      <3> QED BY <2>1, <3>2, <3>3 DEF MutexInv, HoldsMutex
    <2>3. CASE ~ RepositoryStep(S)
      BY <1>1, <2>3, SameCalls, CallEffect, DaemonStep, DaemonSteps, QuietSteps, CallStep,
         ControlSteps
      DEF Next, HandlerStep, InitializeRepository, StartDaemon, GiveUp, SupervisorRestarts,
          SupervisorDies, vars, repositoryVars, IInv, Connections
    <2> QED BY <2>2, <2>3
  <1>2. Repository!Full(store) <=> R!Full(store)
    BY DEF Repository!Full, R!Full, Repository!Keys, R!Keys
  <1>3. IInv /\ [Next]_vars => [Repository!Full(store) /\ store' # store => Replaced]_vars
    BY <1>1, <1>2
  <1> QED BY <1>3, Inductive, PTL DEF Spec, ReplacedOnlyByPut
=============================================================================
