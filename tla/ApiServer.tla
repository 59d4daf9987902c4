------------------------------ MODULE ApiServer ------------------------------
(***************************************************************************)
(* src/supervisor/api_server.cc (class ApiServer::Impl) together with the  *)
(* part of the vendored httplib::Server it runs on: the lifecycle that Run *)
(* and Stop share across threads, the listener, the pool of workers and    *)
(* the two mutexes of Impl.                                                *)
(*                                                                         *)
(* lifecycle_mutex_ only guards blocks without calls, each of which is one *)
(* step here.  operations_mutex_ is held across whole operations on the    *)
(* controller or the repository; what such an operation does is left open  *)
(* (module Supervisor fills it in).                                        *)
(*                                                                         *)
(* is_decommissioned is not modelled: only bind_internal and               *)
(* listen_internal read it, and Run reaches each of them once, before      *)
(* anything has set it.                                                    *)
(***************************************************************************)
EXTENDS Integers

CONSTANTS
  Runners,        \* threads that call Run
  Stoppers,       \* threads that call Stop
  Workers,        \* threads of the httplib pool
  Operations,     \* what the guarded handlers do: "Start", "Stop", ...
  NoWorker,       \* operations_mutex_ is free
  MaxQueue,       \* bound on accepted connections no worker has taken yet
  ServerFaults    \* bind, accept and thread creation may fail

ASSUME ApiServerAssumption ==
  /\ Runners \cap Stoppers = {}
  /\ NoWorker \notin Workers
  /\ MaxQueue \in Nat \ {0}
  /\ ServerFaults \in BOOLEAN

VARIABLES
  lifecycle_state,    \* lifecycle_state_
  stop_requested,     \* stop_requested_
  is_running,         \* httplib::Server::is_running_
  svr_sock,           \* httplib::Server::svr_sock_
  descriptor,         \* what became of the socket that bind created
  run,                \* where each runner is in Run
  stopping,           \* where each thread is in httplib::Server::stop
  queue,              \* jobs_: accepted connections
  worker,             \* what each worker does
  request,            \* the operation its request asks for
  operations_mutex    \* holder of operations_mutex_

lifecycle == <<lifecycle_state, stop_requested, is_running, svr_sock, descriptor>>
pool == <<queue, worker, request, operations_mutex>>
apiVars == <<lifecycle_state, stop_requested, is_running, svr_sock, descriptor,
             run, stopping, queue, worker, request, operations_mutex>>

-----------------------------------------------------------------------------

(* The runner whose accept failed by itself. *)
Failing == {"drain_error", "close_error"}

(* How Run ends: with a Status or with an exception. *)
Returned == {"ok", "error", "threw"}

(* Control points of Run past its gate. *)
Inside == {"bind", "listen", "start_handler", "handler_stop", "new_pool",
           "accept", "accept_failed", "accept_close", "drain_ok", "drain_error",
           "close_ok", "close_error", "unwind"}

(* The runner that has a pool of workers. *)
Serving == {"accept", "accept_failed", "accept_close", "drain_ok", "drain_error"}

Init ==
  /\ lifecycle_state = "kIdle"
  /\ stop_requested = FALSE
  /\ is_running = FALSE
  /\ svr_sock = "INVALID_SOCKET"
  /\ descriptor = "none"
  /\ run = [r \in Runners |-> "idle"]
  /\ stopping = [x \in Runners \cup Stoppers |-> "no"]
  /\ queue = 0
  /\ worker = [w \in Workers |-> "idle"]
  /\ request = [w \in Workers |-> "none"]
  /\ operations_mutex = NoWorker

Goto(r, l) == run' = [run EXCEPT ![r] = l]

-----------------------------------------------------------------------------
(* Run, and inside it Server::listen_internal *)

(* Mutant: a second Run is not turned away. *)
RunGateOpen(r) ==
  /\ run[r] = "idle"
  /\ IF stop_requested
     THEN Goto(r, "ok") /\ lifecycle_state' = "kStopped"
     ELSE Goto(r, "bind") /\ lifecycle_state' = "kStarting"
  /\ UNCHANGED <<stop_requested, is_running, svr_sock, descriptor, stopping, pool>>

RunGate(r) ==
  /\ run[r] = "idle"
  /\ IF lifecycle_state # "kIdle"
     THEN Goto(r, "error") /\ UNCHANGED lifecycle_state
     ELSE IF stop_requested
     THEN Goto(r, "ok") /\ lifecycle_state' = "kStopped"
     ELSE Goto(r, "bind") /\ lifecycle_state' = "kStarting"
  /\ UNCHANGED <<stop_requested, is_running, svr_sock, descriptor, stopping, pool>>

Bind(r) ==
  /\ run[r] = "bind"
  /\ \/ /\ svr_sock' = "open"
        /\ descriptor' = "open"
        /\ Goto(r, "listen")
        /\ UNCHANGED lifecycle_state
     \/ /\ ServerFaults
        /\ lifecycle_state' = "kStopped"
        /\ Goto(r, "error")
        /\ UNCHANGED <<svr_sock, descriptor>>
  /\ UNCHANGED <<stop_requested, is_running, stopping, pool>>

Listen(r) ==
  /\ run[r] = "listen"
  /\ is_running' = TRUE
  /\ Goto(r, "start_handler")
  /\ UNCHANGED <<lifecycle_state, stop_requested, svr_sock, descriptor, stopping, pool>>

(* Mutant: a Stop that came too early is forgotten. *)
StartHandlerForgets(r) ==
  /\ run[r] = "start_handler"
  /\ lifecycle_state' = "kRunning"
  /\ Goto(r, "new_pool")
  /\ UNCHANGED <<stop_requested, is_running, svr_sock, descriptor, stopping, pool>>

(* The start handler: it makes good a Stop that came too early. *)
StartHandler(r) ==
  /\ run[r] = "start_handler"
  /\ lifecycle_state' = "kRunning"
  /\ IF stop_requested
     THEN /\ Goto(r, "handler_stop")
          /\ stopping' = [stopping EXCEPT ![r] = "check"]
     ELSE Goto(r, "new_pool") /\ UNCHANGED stopping
  /\ UNCHANGED <<stop_requested, is_running, svr_sock, descriptor, pool>>

HandlerStopped(r) ==
  /\ run[r] = "handler_stop"
  /\ stopping[r] = "no"
  /\ Goto(r, "new_pool")
  /\ UNCHANGED <<lifecycle, stopping, pool>>

(* The pool cannot start its threads: an exception leaves Run. *)
NewPool(r) ==
  /\ run[r] = "new_pool"
  /\ \/ Goto(r, "accept")
     \/ ServerFaults /\ Goto(r, "unwind")
  /\ UNCHANGED <<lifecycle, stopping, pool>>

Unwind(r) ==
  /\ run[r] = "unwind"
  /\ is_running' = FALSE
  /\ Goto(r, "threw")
  /\ UNCHANGED <<lifecycle_state, stop_requested, svr_sock, descriptor, stopping, pool>>

(* A connection may still come through between the moment Stop takes the   *)
(* socket away and the moment it shuts it down.                            *)
Accept(r) ==
  /\ run[r] = "accept"
  /\ \/ svr_sock = "open"
     \/ \E x \in Runners \cup Stoppers : stopping[x] = "shutdown"
  /\ queue < MaxQueue
  /\ queue' = queue + 1
  /\ UNCHANGED <<lifecycle, run, stopping, worker, request, operations_mutex>>

(* accept fails because the socket was closed under it ... *)
AcceptFails(r) ==
  /\ run[r] = "accept"
  /\ svr_sock = "INVALID_SOCKET"
  /\ Goto(r, "accept_failed")
  /\ UNCHANGED <<lifecycle, stopping, pool>>

(* ... or for a reason of its own, which nothing makes it have. *)
AcceptBreaks(r) ==
  /\ run[r] = "accept"
  /\ ServerFaults
  /\ Goto(r, "accept_failed")
  /\ UNCHANGED <<lifecycle, stopping, pool>>

(* Mutant: every failure of accept passes for a Stop. *)
AcceptFailedOk(r) ==
  /\ run[r] = "accept_failed"
  /\ Goto(r, "drain_ok")
  /\ UNCHANGED <<lifecycle, stopping, pool>>

(* Which of the two it was is decided by a second look at svr_sock_. *)
AcceptFailed(r) ==
  /\ run[r] = "accept_failed"
  /\ Goto(r, IF svr_sock = "INVALID_SOCKET" THEN "drain_ok" ELSE "accept_close")
  /\ UNCHANGED <<lifecycle, stopping, pool>>

Closed == IF descriptor = "open" THEN "closed" ELSE "closed twice"

(* It takes a third look to close the socket, and leaves its number there. *)
AcceptClose(r) ==
  /\ run[r] = "accept_close"
  /\ descriptor' = IF svr_sock = "open" THEN Closed ELSE descriptor
  /\ Goto(r, "drain_error")
  /\ UNCHANGED <<lifecycle_state, stop_requested, is_running, svr_sock, stopping, pool>>

(* The loop condition finds the socket gone. *)
LoopEnds(r) ==
  /\ run[r] = "accept"
  /\ svr_sock = "INVALID_SOCKET"
  /\ Goto(r, "drain_ok")
  /\ UNCHANGED <<lifecycle, stopping, pool>>

(* Mutant: workers that are busy are not waited for. *)
JoinWorkersEarly(r) ==
  /\ run[r] \in {"drain_ok", "drain_error"}
  /\ queue = 0
  /\ is_running' = FALSE
  /\ Goto(r, IF run[r] = "drain_ok" THEN "close_ok" ELSE "close_error")
  /\ UNCHANGED <<lifecycle_state, stop_requested, svr_sock, descriptor, stopping, pool>>

(* ThreadPool::shutdown: every accepted connection is still served, then   *)
(* the workers are joined; on return is_running_ is reset.                 *)
JoinWorkers(r) ==
  /\ run[r] \in {"drain_ok", "drain_error"}
  /\ queue = 0
  /\ \A w \in Workers : worker[w] = "idle"
  /\ is_running' = FALSE
  /\ Goto(r, IF run[r] = "drain_ok" THEN "close_ok" ELSE "close_error")
  /\ UNCHANGED <<lifecycle_state, stop_requested, svr_sock, descriptor, stopping, pool>>

RunEnds(r) ==
  /\ run[r] \in {"close_ok", "close_error"}
  /\ lifecycle_state' = "kStopped"
  /\ Goto(r, IF run[r] = "close_ok" THEN "ok" ELSE "error")
  /\ UNCHANGED <<stop_requested, is_running, svr_sock, descriptor, stopping, pool>>

-----------------------------------------------------------------------------
(* Stop, and inside it Server::stop *)

Stop(s) ==
  /\ stopping[s] = "no"
  /\ stop_requested' = TRUE
  /\ stopping' = [stopping EXCEPT ![s] = "check"]
  /\ UNCHANGED <<lifecycle_state, is_running, svr_sock, descriptor, run, pool>>

StopCheck(x) ==
  /\ stopping[x] = "check"
  /\ stopping' = [stopping EXCEPT ![x] = IF is_running THEN "assert" ELSE "no"]
  /\ UNCHANGED <<lifecycle, run, pool>>

(* The assert itself does nothing in a build with NDEBUG. *)
StopAssert(x) ==
  /\ stopping[x] = "assert"
  /\ stopping' = [stopping EXCEPT ![x] = "exchange"]
  /\ UNCHANGED <<lifecycle, run, pool>>

(* Mutant: the socket is read and taken away in two steps. *)
StopExchangeTorn(x) ==
  /\ stopping[x] = "exchange"
  /\ svr_sock' = "INVALID_SOCKET"
  /\ stopping' = [stopping EXCEPT ![x] = "shutdown"]
  /\ UNCHANGED <<lifecycle_state, stop_requested, is_running, descriptor, run, pool>>

(* Who finds it taken already has nothing to shut down and close. *)
StopExchange(x) ==
  /\ stopping[x] = "exchange"
  /\ svr_sock' = "INVALID_SOCKET"
  /\ stopping' = [stopping EXCEPT ![x] = IF svr_sock = "open" THEN "shutdown" ELSE "no"]
  /\ UNCHANGED <<lifecycle_state, stop_requested, is_running, descriptor, run, pool>>

(* shutdown and close of the socket it took. *)
StopShutdown(x) ==
  /\ stopping[x] = "shutdown"
  /\ descriptor' = Closed
  /\ stopping' = [stopping EXCEPT ![x] = "no"]
  /\ UNCHANGED <<lifecycle_state, stop_requested, is_running, svr_sock, run, pool>>

-----------------------------------------------------------------------------
(* Workers and handlers *)

TakeJob(w) ==
  /\ worker[w] = "idle"
  /\ queue > 0
  /\ \E r \in Runners : run[r] \in Serving
  /\ queue' = queue - 1
  /\ worker' = [worker EXCEPT ![w] = "connection"]
  /\ UNCHANGED <<lifecycle, run, stopping, request, operations_mutex>>

(* A request for a handler that takes operations_mutex_.  Requests that    *)
(* are answered without it (/health, a body that does not parse or         *)
(* validate, no route) change nothing.                                     *)
Request(w, o) ==
  /\ worker[w] = "connection"
  /\ worker' = [worker EXCEPT ![w] = "handler"]
  /\ request' = [request EXCEPT ![w] = o]
  /\ UNCHANGED <<lifecycle, run, stopping, queue, operations_mutex>>

EnterOperation(w) ==
  /\ worker[w] = "handler"
  /\ operations_mutex = NoWorker
  /\ operations_mutex' = w
  /\ worker' = [worker EXCEPT ![w] = "operation"]
  /\ UNCHANGED <<lifecycle, run, stopping, queue, request>>

LeaveOperation(w) ==
  /\ worker[w] = "operation"
  /\ operations_mutex' = NoWorker
  /\ worker' = [worker EXCEPT ![w] = "connection"]
  /\ request' = [request EXCEPT ![w] = "none"]
  /\ UNCHANGED <<lifecycle, run, stopping, queue>>

(* The client closes, keep-alive or a read times out, the request limit of *)
(* a connection is reached, or the worker sees the server socket closed.   *)
CloseConnection(w) ==
  /\ worker[w] = "connection"
  /\ worker' = [worker EXCEPT ![w] = "idle"]
  /\ UNCHANGED <<lifecycle, run, stopping, queue, request, operations_mutex>>

-----------------------------------------------------------------------------

RunStep(r) ==
  \/ Bind(r) \/ Listen(r) \/ StartHandler(r) \/ HandlerStopped(r)
  \/ NewPool(r) \/ Unwind(r) \/ AcceptFails(r) \/ AcceptFailed(r)
  \/ AcceptClose(r) \/ LoopEnds(r) \/ JoinWorkers(r) \/ RunEnds(r)

StopStep(x) ==
  StopCheck(x) \/ StopAssert(x) \/ StopExchange(x) \/ StopShutdown(x)

Next ==
  \/ \E r \in Runners : RunGate(r) \/ RunStep(r) \/ Accept(r) \/ AcceptBreaks(r)
  \/ \E s \in Stoppers : Stop(s)
  \/ \E x \in Runners \cup Stoppers : StopStep(x)
  \/ \E w \in Workers :
       \/ TakeJob(w) \/ EnterOperation(w) \/ LeaveOperation(w)
       \/ CloseConnection(w)
       \/ \E o \in Operations : Request(w, o)

Spec == Init /\ [][Next]_apiVars

-----------------------------------------------------------------------------
(* Properties *)

(* Every variable has its type. *)
ApiTypeOK ==
  /\ lifecycle_state \in {"kIdle", "kStarting", "kRunning", "kStopped"}
  /\ stop_requested \in BOOLEAN
  /\ is_running \in BOOLEAN
  /\ svr_sock \in {"INVALID_SOCKET", "open"}
  /\ descriptor \in {"none", "open", "closed", "closed twice"}
  /\ run \in [Runners -> Inside \cup Returned \cup {"idle"}]
  /\ stopping \in [Runners \cup Stoppers ->
                    {"no", "check", "assert", "exchange", "shutdown"}]
  /\ queue \in 0..MaxQueue
  /\ worker \in [Workers -> {"idle", "connection", "handler", "operation"}]
  /\ request \in [Workers -> Operations \cup {"none"}]
  /\ operations_mutex \in Workers \cup {NoWorker}

(* "API server can only be run once": however calls of Run race, one gets  *)
(* past the gate and owns the listening socket, and none does after a Stop *)
(* made Run return without listening.                                      *)
RunOnce ==
  /\ \A r, s \in Runners : run[r] \in Inside /\ run[s] \in Inside => r = s
  /\ lifecycle_state \in {"kIdle", "kStopped"} =>
       \A r \in Runners : run[r] \notin Inside
  /\ (\E r \in Runners : run[r] \in {"ok", "threw"}) =>
       \A r \in Runners : run[r] \notin Inside

(* Run returns Ok only to somebody's Stop; a listener that failed by       *)
(* itself is never reported as a clean end.                                *)
OkOnlyAfterStop == \A r \in Runners : run[r] = "ok" => stop_requested

(* When Run has returned, nothing is left of the server: every connection  *)
(* that was accepted has been served, no worker is inside a handler, and   *)
(* operations_mutex_ is free, so controller and repository may be          *)
(* destroyed.                                                              *)
NothingInFlight ==
  (\A r \in Runners : run[r] \notin Inside) =>
    /\ queue = 0
    /\ operations_mutex = NoWorker
    /\ \A w \in Workers : worker[w] = "idle"

(* The number of the listening socket, which the process may have given to *)
(* another file, is never closed a second time, and a server that ended    *)
(* with Ok has closed it: however calls of Stop race with each other and   *)
(* with the listener.  Only a listener that fails by itself closes the     *)
(* socket and leaves its number for a Stop to close again.                 *)
ListenerClosedOnce ==
  /\ descriptor = "closed twice" =>
       \A r \in Runners : run[r] \in {"idle", "error"} \cup Failing
  /\ (\E r \in Runners : run[r] = "ok") =>
       \/ descriptor \in {"none", "closed"}
       \/ \E x \in Runners \cup Stoppers : stopping[x] = "shutdown"

(* What the assert in httplib::Server::stop says: while is_running_, the   *)
(* server socket is there.                                                 *)
StopFindsSocket ==
  \A x \in Runners \cup Stoppers :
    stopping[x] = "assert" => svr_sock # "INVALID_SOCKET"
=============================================================================
