---------------------------- MODULE ConfigService ----------------------------
(***************************************************************************)
(* The way of a configuration from a PUT to the daemon that serves it: the *)
(* handlers of src/supervisor/api_server.cc on the supervisor's connection *)
(* to the database, the start of apps/opcua-supervisor/main.cc, and the    *)
(* start of apps/opcua-daemon/main.cc on a connection of its own, composed *)
(* of a ConfigRepository with these two connections.                       *)
(*                                                                         *)
(* The controller is what DaemonSlot says of it: at most one daemon, no    *)
(* launch before the last one is gone.  Its methods are called under       *)
(* operations_mutex_.  A supervisor that dies takes its daemon with it (it *)
(* is PID 1 of a container) and is started again; the end by a signal is   *)
(* the subject of module Supervisor.                                       *)
(***************************************************************************)
EXTENDS Naturals

CONSTANTS
  Workers, NoWorker,                         \* threads of the HTTP server
  SupervisorConnection, DaemonConnection,
  NumKeys, Values, InvalidValues, Absent, Unset, NoConnection, Default,
  Requests, IoFaults,
  ProcessFaults                              \* Start and Stop may fail

VARIABLES
  wal, table, store, writer, pending, pc, next, input, snapshot, initialized,
  ret,               \* the repository
  loaded,            \* what the last Load on each connection returned
  main,              \* where main of the supervisor is
  handler,           \* where each worker is in its handler
  request,           \* the method and the body it was given
  response,          \* the status code it answers
  operations_mutex,  \* who holds it
  daemon,            \* where main of the daemon is
  fresh              \* the configurations that were in force since the last
                     \* start or restart was answered 200 (history)

Repository == INSTANCE ConfigRepository
                WITH Connections <- {SupervisorConnection, DaemonConnection}

ASSUME ConfigServiceAssumption ==
  /\ NoWorker \notin Workers
  /\ SupervisorConnection # DaemonConnection
  /\ ProcessFaults \in BOOLEAN
  /\ NumKeys \in Nat \ {0}
  /\ InvalidValues \subseteq Values
  /\ Absent \notin Values
  /\ Unset \notin Repository!ServerConfig
  /\ NoConnection \notin {SupervisorConnection, DaemonConnection}
  /\ Default \in Repository!ServerConfig /\ Repository!Validate(Default)
  /\ Requests \subseteq Repository!ServerConfig
  /\ IoFaults \in BOOLEAN

repositoryVars == <<wal, table, store, writer, pending, pc, next, input,
                    snapshot, initialized, ret>>
handlerVars == <<handler, request, response, operations_mutex>>
vars == <<repositoryVars, loaded, main, handlerVars, daemon, fresh>>

Controls == {"start", "stop", "restart"}

(* A body is a configuration, or a text ConfigJsonParser refuses (Unset).  *)
Methods ==
  [method : {"GET"} \cup Controls, config : {Unset}]
    \cup [method : {"PUT"}, config : Requests \cup {Unset}]

NoRequest == [method |-> "none", config |-> Unset]

Init ==
  /\ Repository!Init
  /\ loaded = [c \in {SupervisorConnection, DaemonConnection} |-> Unset]
  /\ main = "open"
  /\ handler = [w \in Workers |-> "idle"]
  /\ request = [w \in Workers |-> NoRequest]
  /\ response = [w \in Workers |-> 0]
  /\ operations_mutex = NoWorker
  /\ daemon = "none"
  /\ fresh = {}

-----------------------------------------------------------------------------
(* The repository goes on with what was called on a connection. *)
RepositoryStep(c) ==
  /\ Repository!Step(c)
  /\ loaded' = IF pc[c] = "rows" /\ ret'[c] = "ok"
               THEN [loaded EXCEPT ![c] = snapshot[c]] ELSE loaded
  /\ fresh' = IF pc[c] = "upserts" /\ pc'[c] = "idle"
              THEN fresh \cup {store'} ELSE fresh
  /\ UNCHANGED <<main, handlerVars, daemon>>

(* The last call on a connection has returned r. *)
Returned(c, r) == pc[c] = "idle" /\ ret[c] = r

-----------------------------------------------------------------------------
(* main of the supervisor *)

InitializeRepository ==
  /\ main = "open"
  /\ Repository!Initialize(SupervisorConnection)
  /\ main' = "initialize"
  /\ UNCHANGED <<loaded, handlerVars, daemon, fresh>>

(* A daemon that does not start is reported and does not end main. *)
StartDaemon ==
  /\ main = "initialize"
  /\ Returned(SupervisorConnection, "ok")
  /\ daemon' = "open" \/ (ProcessFaults /\ daemon' = "none")
  /\ fresh' = {store}
  /\ main' = "serving"
  /\ UNCHANGED <<repositoryVars, loaded, handlerVars>>

GiveUp ==
  /\ main = "initialize"
  /\ Returned(SupervisorConnection, "error")
  /\ main' = "ended"
  /\ UNCHANGED <<repositoryVars, loaded, handlerVars, daemon, fresh>>

SupervisorDies ==
  /\ main # "ended"
  /\ Repository!Crash(SupervisorConnection)
  /\ main' = "ended"
  /\ handler' = [w \in Workers |-> "idle"]
  /\ request' = [w \in Workers |-> NoRequest]
  /\ response' = [w \in Workers |-> 0]
  /\ operations_mutex' = NoWorker
  /\ UNCHANGED <<loaded, daemon, fresh>>

SupervisorRestarts ==
  /\ main = "ended"
  /\ daemon = "none"
  /\ main' = "open"
  /\ UNCHANGED <<repositoryVars, loaded, handlerVars, daemon, fresh>>

-----------------------------------------------------------------------------
(* Handlers *)

Goto(w, l) == handler' = [handler EXCEPT ![w] = l]

Answer(w, code) ==
  /\ Goto(w, "answer")
  /\ response' = [response EXCEPT ![w] = code]
  /\ UNCHANGED <<request, operations_mutex>>

(* HandlePutConfig parses and validates before it takes the mutex. *)
Receive(w, r) ==
  /\ main = "serving"
  /\ handler[w] = "idle"
  /\ request' = [request EXCEPT ![w] = r]
  /\ IF /\ r.method = "PUT"
        /\ r.config = Unset \/ ~ Repository!Validate(r.config)
     THEN Goto(w, "answer") /\ response' = [response EXCEPT ![w] = 400]
     ELSE Goto(w, "wait") /\ UNCHANGED response
  /\ UNCHANGED <<repositoryVars, loaded, main, operations_mutex, daemon, fresh>>

(* Mutant: a PUT does not take the mutex. *)
LockNotForPut(w) ==
  /\ handler[w] = "wait"
  /\ IF request[w].method = "PUT" THEN UNCHANGED operations_mutex
     ELSE operations_mutex = NoWorker /\ operations_mutex' = w
  /\ Goto(w, "locked")
  /\ UNCHANGED <<repositoryVars, loaded, main, request, response, daemon, fresh>>

Lock(w) ==
  /\ handler[w] = "wait"
  /\ operations_mutex = NoWorker
  /\ operations_mutex' = w
  /\ Goto(w, "locked")
  /\ UNCHANGED <<repositoryVars, loaded, main, request, response, daemon, fresh>>

CallRepository(w) ==
  /\ handler[w] = "locked"
  /\ \/ /\ request[w].method = "GET"
        /\ Repository!Load(SupervisorConnection)
     \/ /\ request[w].method = "PUT"
        /\ Repository!Save(SupervisorConnection, request[w].config)
  /\ Goto(w, "called")
  /\ UNCHANGED <<loaded, main, request, response, operations_mutex, daemon, fresh>>

(* Mutant: the status of the repository is not looked at. *)
AnswerRepositoryOk(w) ==
  /\ handler[w] = "called"
  /\ pc[SupervisorConnection] = "idle"
  /\ Answer(w, 200)
  /\ UNCHANGED <<repositoryVars, loaded, main, daemon, fresh>>

AnswerRepository(w) ==
  /\ handler[w] = "called"
  /\ \/ Returned(SupervisorConnection, "ok") /\ Answer(w, 200)
     \/ Returned(SupervisorConnection, "error") /\ Answer(w, 500)
  /\ UNCHANGED <<repositoryVars, loaded, main, daemon, fresh>>

Asked(w, methods) == handler[w] = "locked" /\ request[w].method \in methods

(* Start refuses to launch a second daemon. *)
HandleStart(w) ==
  /\ Asked(w, {"start"})
  /\ IF daemon # "none" THEN Answer(w, 500)
     ELSE Goto(w, "launch") /\ UNCHANGED <<request, response, operations_mutex>>
  /\ UNCHANGED <<repositoryVars, loaded, main, daemon, fresh>>

(* Stop, or the first half of Restart: the daemon is gone when it is over. *)
StopDaemon(w) ==
  /\ Asked(w, {"stop", "restart"})
  /\ Repository!Crash(DaemonConnection)
  /\ daemon' = "none"
  /\ IF request[w].method = "stop" THEN Answer(w, 200)
     ELSE Goto(w, "launch") /\ UNCHANGED <<request, response, operations_mutex>>
  /\ UNCHANGED <<loaded, main, fresh>>

(* Mutant: Restart takes the daemon it could not stop for the new one. *)
StopFailsUnnoticed(w) ==
  /\ Asked(w, {"stop", "restart"})
  /\ ProcessFaults
  /\ Answer(w, IF request[w].method = "restart" THEN 200 ELSE 500)
  /\ fresh' = IF request[w].method = "restart" THEN {store} ELSE fresh
  /\ UNCHANGED <<repositoryVars, loaded, main, daemon>>

StopFails(w) ==
  /\ Asked(w, {"stop", "restart"})
  /\ ProcessFaults
  /\ Answer(w, 500)
  /\ UNCHANGED <<repositoryVars, loaded, main, daemon, fresh>>

(* A launch may leave a daemon behind although it is reported as failed.   *)
Launch(w) ==
  /\ handler[w] = "launch"
  /\ \/ daemon' = "open" /\ fresh' = {store} /\ Answer(w, 200)
     \/ /\ ProcessFaults
        /\ daemon' \in {"none", "open"}
        /\ Answer(w, 500)
        /\ UNCHANGED fresh
  /\ UNCHANGED <<repositoryVars, loaded, main>>

(* Mutant: an error is answered without releasing the mutex. *)
RespondKeepsLock(w) ==
  /\ handler[w] = "answer"
  /\ Goto(w, "idle")
  /\ request' = [request EXCEPT ![w] = NoRequest]
  /\ response' = [response EXCEPT ![w] = 0]
  /\ operations_mutex' = IF operations_mutex = w /\ response[w] = 200 THEN NoWorker
                         ELSE operations_mutex
  /\ UNCHANGED <<repositoryVars, loaded, main, daemon, fresh>>

(* The guard of the mutex is destroyed and the response is sent. *)
Respond(w) ==
  /\ handler[w] = "answer"
  /\ Goto(w, "idle")
  /\ request' = [request EXCEPT ![w] = NoRequest]
  /\ response' = [response EXCEPT ![w] = 0]
  /\ operations_mutex' = IF operations_mutex = w THEN NoWorker ELSE operations_mutex
  /\ UNCHANGED <<repositoryVars, loaded, main, daemon, fresh>>

-----------------------------------------------------------------------------
(* main of the daemon, on every start: Initialize, Load, Run *)

DaemonInitializes ==
  /\ daemon = "open"
  /\ Repository!Initialize(DaemonConnection)
  /\ daemon' = "initialize"
  /\ UNCHANGED <<loaded, main, handlerVars, fresh>>

DaemonLoads ==
  /\ daemon = "initialize"
  /\ Returned(DaemonConnection, "ok")
  /\ Repository!Load(DaemonConnection)
  /\ daemon' = "load"
  /\ UNCHANGED <<loaded, main, handlerVars, fresh>>

(* From here on OpcuaServer::Run has the configuration that was loaded; of *)
(* its fields the code applies the port only.                              *)
DaemonServes ==
  /\ daemon = "load"
  /\ Returned(DaemonConnection, "ok")
  /\ daemon' = "serving"
  /\ UNCHANGED <<repositoryVars, loaded, main, handlerVars, fresh>>

(* An error ends it; so does a crash or a signal, at any moment. *)
DaemonEnds ==
  /\ daemon # "none"
  /\ Repository!Crash(DaemonConnection)
  /\ daemon' = "none"
  /\ UNCHANGED <<loaded, main, handlerVars, fresh>>

-----------------------------------------------------------------------------

HandlerStep(w) ==
  \/ CallRepository(w) \/ AnswerRepository(w)
  \/ HandleStart(w) \/ StopDaemon(w) \/ StopFails(w) \/ Launch(w)
  \/ Respond(w)

Next ==
  \/ \E c \in {SupervisorConnection, DaemonConnection} : RepositoryStep(c)
  \/ InitializeRepository \/ StartDaemon \/ GiveUp
  \/ SupervisorDies \/ SupervisorRestarts
  \/ \E w \in Workers :
       (\E r \in Methods : Receive(w, r)) \/ Lock(w) \/ HandlerStep(w)
  \/ DaemonInitializes \/ DaemonLoads \/ DaemonServes \/ DaemonEnds

Spec == Init /\ [][Next]_vars

(* Threads go on, a worker that waits for the mutex gets it in the end,    *)
(* and a statement of the repository ends or is told BUSY.                 *)
LiveSpec ==
  /\ Spec
  /\ WF_vars(RepositoryStep(SupervisorConnection))
  /\ \A w \in Workers : WF_vars(HandlerStep(w)) /\ SF_vars(Lock(w))

-----------------------------------------------------------------------------
(* Properties *)

(* Every variable has its type. *)
ServiceTypeOK ==
  /\ loaded \in [{SupervisorConnection, DaemonConnection} ->
                   Repository!ServerConfig \cup {Unset}]
  /\ main \in {"open", "initialize", "serving", "ended"}
  /\ handler \in [Workers -> {"idle", "wait", "locked", "called", "launch", "answer"}]
  /\ request \in [Workers -> Methods \cup {NoRequest}]
  /\ response \in [Workers -> {0, 200, 400, 500}]
  /\ operations_mutex \in Workers \cup {NoWorker}
  /\ daemon \in {"none", "open", "initialize", "load", "serving"}

(* Handlers share one connection, which SQLite lets two threads use at     *)
(* once but which has only one transaction: a Save or Load is begun on it  *)
(* only when the last one is over, and not before the repository is there, *)
(* and the mutex is held exactly by the worker that is between taking it   *)
(* and its response, whichever way it gets there.                          *)
ConnectionExclusive ==
  \A w \in Workers :
    /\ handler[w] = "locked" => pc[SupervisorConnection] = "idle" /\ main = "serving"
    /\ operations_mutex = w <=> \/ handler[w] \in {"locked", "called", "launch"}
                                \/ handler[w] = "answer" /\ response[w] # 400

(* What the client is told is so: after 200 a PUT is in force, a GET shows *)
(* the configuration in force, a stop leaves no daemon that serves.        *)
AnswersTruthful ==
  \A w \in Workers : handler[w] = "answer" /\ response[w] = 200 =>
    CASE request[w].method = "PUT" -> store = request[w].config
      [] request[w].method = "GET" -> loaded[SupervisorConnection] = store
      [] request[w].method = "stop" -> daemon = "none"
      [] OTHER -> daemon # "serving" \/ loaded[DaemonConnection] = store

(* A daemon that serves has never loaded a configuration that was replaced *)
(* before the last start or restart the client was told had worked: PUT,   *)
(* then restart, and the daemon loads the configuration, in spite of       *)
(* daemons that die, fail to stop or are still reading it.                 *)
ServesFresh == daemon = "serving" => loaded[DaemonConnection] \in fresh

(* A configuration stays until a PUT replaces it and is about to be        *)
(* answered 200: neither the defaults that each start of a daemon or of    *)
(* the supervisor inserts nor an operation that fails changes it.          *)
ReplacedOnlyByPut ==
  [][Repository!Full(store) /\ store' # store =>
       \E w \in Workers :
         /\ operations_mutex = w /\ handler[w] = "called"
         /\ request[w].method = "PUT" /\ request[w].config = store'
         /\ ret'[SupervisorConnection] = "ok"]_vars

(* Every request is answered, whoever holds the mutex or the database.     *)
RequestsAnswered == \A w \in Workers : handler[w] # "idle" ~> handler[w] = "idle"
=============================================================================
