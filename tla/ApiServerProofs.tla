--------------------------- MODULE ApiServerProofs ---------------------------
(***************************************************************************)
(* Proofs about ApiServer for any number of threads that call Run and      *)
(* Stop, of workers and of queued connections, with or without faults.     *)
(***************************************************************************)
EXTENDS ApiServer, TLAPS

(* ApiTypeOK in two parts, for two provers. *)
Flags == stop_requested \in BOOLEAN /\ is_running \in BOOLEAN

Shapes ==
  /\ lifecycle_state \in {"kIdle", "kStarting", "kRunning", "kStopped"}
  /\ svr_sock \in {"INVALID_SOCKET", "open"}
  /\ descriptor \in {"none", "open", "closed", "closed twice"}
  /\ run \in [Runners -> Inside \cup Returned \cup {"idle"}]
  /\ stopping \in [Runners \cup Stoppers ->
                    {"no", "check", "assert", "exchange", "shutdown"}]
  /\ queue \in 0..MaxQueue
  /\ worker \in [Workers -> {"idle", "connection", "handler", "operation"}]
  /\ request \in [Workers -> Operations \cup {"none"}]
  /\ operations_mutex \in Workers \cup {NoWorker}

(* The gate of Run lets one runner through, and closes behind it. *)
GateInv ==
  /\ lifecycle_state = "kIdle" => \A r \in Runners : run[r] = "idle"
  /\ lifecycle_state = "kStopped" => \A r \in Runners : run[r] \notin Inside
  /\ \A r, s \in Runners :
       run[r] \notin {"idle", "error"} /\ run[s] \notin {"idle", "error"} => r = s

(* Only a Stop takes the listening socket away. *)
StopInv ==
  /\ \A x \in Runners \cup Stoppers : stopping[x] # "no" => stop_requested
  /\ \A r \in Runners : stopping[r] # "no" => run[r] = "handler_stop"
  /\ svr_sock = "INVALID_SOCKET" =>
       \A r \in Runners : run[r] \in Inside \ {"bind"} => stop_requested
  /\ \A r \in Runners : run[r] \in {"drain_ok", "close_ok", "ok"} =>
       stop_requested /\ svr_sock = "INVALID_SOCKET"

(* There are connections and busy workers only while the pool exists. *)
PoolInv ==
  /\ (\A r \in Runners : run[r] \notin Serving) =>
       queue = 0 /\ \A w \in Workers : worker[w] = "idle"
  /\ operations_mutex # NoWorker => worker[operations_mutex] = "operation"

(* Before bind there is no socket ... *)
UnboundInv ==
  /\ lifecycle_state = "kIdle" \/ (\E r \in Runners : run[r] = "bind") =>
       descriptor = "none"
  /\ descriptor = "none" =>
       /\ svr_sock = "INVALID_SOCKET"
       /\ \A x \in Runners \cup Stoppers : stopping[x] # "shutdown"

(* ... and until a listener fails one of svr_sock_ and the callers of Stop *)
(* has it as long as it is open.                                           *)
OwnerInv ==
  (\E r \in Runners : run[r] \notin {"idle", "error"} \cup Failing) =>
    /\ descriptor # "closed twice"
    /\ svr_sock = "open" =>
         /\ descriptor = "open"
         /\ \A x \in Runners \cup Stoppers : stopping[x] # "shutdown"
    /\ \A x \in Runners \cup Stoppers : stopping[x] = "shutdown" =>
         /\ descriptor = "open"
         /\ \A y \in Runners \cup Stoppers : stopping[y] = "shutdown" => x = y
    /\ descriptor = "open" /\ svr_sock = "INVALID_SOCKET" =>
         \E x \in Runners \cup Stoppers : stopping[x] = "shutdown"

IInv == Flags /\ Shapes /\ GateInv /\ StopInv /\ PoolInv /\ UnboundInv /\ OwnerInv

USE DEF Inside, Serving, Returned, Failing

LEMMA InitIInv == Init => IInv
  <1> SUFFICES ASSUME Init PROVE IInv
    OBVIOUS
  <1>1. Flags
    BY Zenon DEF Init, Flags
  <1>2. Shapes
    BY ApiServerAssumption DEF Init, Shapes
  <1>3. GateInv /\ StopInv /\ PoolInv /\ UnboundInv /\ OwnerInv
    BY DEF Init, GateInv, StopInv, PoolInv, UnboundInv, OwnerInv
  <1> QED BY <1>1, <1>2, <1>3 DEF IInv

-----------------------------------------------------------------------------
(* One lemma per kind of step *)

(* Workers do not touch what Run and Stop share. *)
LEMMA WorkerStep ==
  ASSUME IInv, NEW w \in Workers,
         \/ TakeJob(w) \/ EnterOperation(w) \/ LeaveOperation(w) \/ CloseConnection(w)
         \/ \E o \in Operations : Request(w, o)
  PROVE  IInv'
  <1>1. UNCHANGED <<lifecycle, run, stopping>>
    BY DEF TakeJob, EnterOperation, LeaveOperation, CloseConnection, Request
  <1>2. Flags'
    BY Zenon, <1>1 DEF IInv, Flags, lifecycle
  <1>3. Shapes'
    <2>1. CASE TakeJob(w)
      <3>1. queue \in 0..MaxQueue
        BY DEF IInv, Shapes
      <3>2. queue' \in 0..MaxQueue
        BY <2>1, <3>1, ApiServerAssumption DEF TakeJob
      <3> QED BY <1>1, <2>1, <3>2 DEF IInv, Shapes, lifecycle, TakeJob
    <2>2. CASE EnterOperation(w)
      BY <1>1, <2>2, ApiServerAssumption DEF IInv, Shapes, lifecycle, EnterOperation
    <2>3. CASE LeaveOperation(w)
      BY <1>1, <2>3, ApiServerAssumption DEF IInv, Shapes, lifecycle, LeaveOperation
    <2>4. CASE CloseConnection(w)
      BY <1>1, <2>4, ApiServerAssumption DEF IInv, Shapes, lifecycle, CloseConnection
    <2>5. CASE \E o \in Operations : Request(w, o)
      BY <1>1, <2>5, ApiServerAssumption DEF IInv, Shapes, lifecycle, Request
    <2> QED BY <2>1, <2>2, <2>3, <2>4, <2>5
  <1>4. GateInv' /\ StopInv' /\ UnboundInv' /\ OwnerInv'
    BY <1>1 DEF IInv, GateInv, StopInv, UnboundInv, OwnerInv, lifecycle
  <1>5. PoolInv'
    <2>1. CASE TakeJob(w)
      BY <1>1, <2>1, ApiServerAssumption DEF IInv, Shapes, PoolInv, TakeJob
    <2>2. CASE EnterOperation(w)
      BY <1>1, <2>2, ApiServerAssumption DEF IInv, Shapes, PoolInv, EnterOperation
    <2>3. CASE LeaveOperation(w)
      BY <1>1, <2>3, ApiServerAssumption DEF IInv, Shapes, PoolInv, LeaveOperation
    <2>4. CASE CloseConnection(w)
      BY <1>1, <2>4, ApiServerAssumption DEF IInv, Shapes, PoolInv, CloseConnection
    <2>5. CASE \E o \in Operations : Request(w, o)
      <3>1. PICK o \in Operations : Request(w, o)
        BY <2>5
      <3>2. /\ UNCHANGED <<queue, operations_mutex>>
            /\ worker[w] = "connection"
            /\ \A v \in Workers : v # w => worker'[v] = worker[v]
        BY <3>1 DEF IInv, Shapes, Request
      <3> QED BY <1>1, <3>2 DEF IInv, Shapes, PoolInv
    <2> QED BY <2>1, <2>2, <2>3, <2>4, <2>5
  <1> QED BY <1>2, <1>3, <1>4, <1>5 DEF IInv

(* Calls of Stop. *)
LEMMA StopSteps ==
  ASSUME IInv, NEW x \in Runners \cup Stoppers,
         (x \in Stoppers /\ Stop(x)) \/ StopStep(x)
  PROVE  IInv'
  <1>1. UNCHANGED <<run, pool, lifecycle_state, is_running>>
    BY DEF Stop, StopStep, StopCheck, StopAssert, StopExchange, StopShutdown, lifecycle
  <1>2. stop_requested' = stop_requested \/ stop_requested'
    BY DEF Stop, StopStep, StopCheck, StopAssert, StopExchange, StopShutdown, lifecycle
  <1>3. Flags'
    BY Zenon, <1>1
    DEF IInv, Flags, Stop, StopStep, StopCheck, StopAssert, StopExchange,
        StopShutdown, lifecycle
  <1>4. Shapes'
    BY <1>1
    DEF IInv, Shapes, Stop, StopStep, StopCheck, StopAssert, StopExchange,
        StopShutdown, Closed, lifecycle, pool
  <1>5. GateInv' /\ PoolInv'
    BY <1>1 DEF IInv, GateInv, PoolInv, pool
  <1>6. StopInv'
    <2>1. CASE StopExchange(x)
      BY <1>1, <1>2, <2>1 DEF IInv, Shapes, StopInv, StopExchange
    <2>2. CASE StopCheck(x) \/ StopAssert(x) \/ StopShutdown(x)
      <3>1. /\ UNCHANGED <<stop_requested, svr_sock>>
            /\ \A y \in Runners \cup Stoppers :
                 stopping'[y] # "no" => stopping[y] # "no"
        BY <2>2 DEF IInv, Shapes, StopCheck, StopAssert, StopShutdown, lifecycle
      <3> QED BY <1>1, <3>1 DEF IInv, StopInv
    <2>3. CASE x \in Stoppers /\ Stop(x)
      <3>1. /\ stop_requested' = TRUE
            /\ svr_sock' = svr_sock
            /\ \A r \in Runners : stopping'[r] = stopping[r]
        BY <2>3, ApiServerAssumption DEF IInv, Shapes, Stop
      <3> QED BY <1>1, <3>1 DEF IInv, StopInv
    <2> QED BY <2>1, <2>2, <2>3 DEF StopStep
  <1>7. UnboundInv'
    BY <1>1
    DEF IInv, Shapes, UnboundInv, Stop, StopStep, StopCheck, StopAssert, StopExchange,
        StopShutdown, Closed, lifecycle
  <1>8. OwnerInv'
    <2>1. CASE StopExchange(x)
      BY <1>1, <2>1 DEF IInv, Shapes, OwnerInv, StopExchange
    <2>2. CASE StopShutdown(x)
      BY <1>1, <2>2 DEF IInv, Shapes, OwnerInv, StopShutdown, Closed
    <2>3. CASE Stop(x) \/ StopCheck(x) \/ StopAssert(x)
      <3>1. /\ UNCHANGED <<svr_sock, descriptor, run>>
            /\ \A y \in Runners \cup Stoppers :
                 stopping'[y] = "shutdown" <=> stopping[y] = "shutdown"
        BY <2>3 DEF IInv, Shapes, Stop, StopCheck, StopAssert, lifecycle
      <3> QED BY <3>1 DEF IInv, OwnerInv
    <2> QED BY <2>1, <2>2, <2>3 DEF StopStep
  <1> QED BY <1>3, <1>4, <1>5, <1>6, <1>7, <1>8 DEF IInv

(* A runner that has a socket goes on inside Run, or ends. *)
LEMMA RunMove ==
  ASSUME IInv, NEW r \in Runners, NEW l \in Inside \cup Returned,
         run[r] \in Inside \ {"bind"}, l # "bind", Goto(r, l),
         run[r] = "handler_stop" => stopping[r] = "no",
         UNCHANGED <<stop_requested, svr_sock, descriptor, stopping, pool>>,
         is_running' \in BOOLEAN,
         \/ lifecycle_state' \in {lifecycle_state, "kRunning"}
         \/ lifecycle_state' = "kStopped" /\ l \notin Inside,
         l \in {"drain_ok", "close_ok", "ok"} =>
           stop_requested /\ svr_sock = "INVALID_SOCKET",
         l \in Serving \/ (queue = 0 /\ \A w \in Workers : worker[w] = "idle"),
         run[r] \in Failing => l \in Failing \cup {"error"}
  PROVE  IInv'
  <1>1. Flags'
    BY Zenon DEF IInv, Flags
  <1>2. \A q \in Runners : run'[q] = IF q = r THEN l ELSE run[q]
    BY DEF IInv, Shapes, Goto
  <1>3. lifecycle_state \notin {"kIdle", "kStopped"}
    BY DEF IInv, GateInv
  <1>4. Shapes'
    BY DEF IInv, Shapes, Goto, pool
  <1>5. GateInv'
    BY <1>2, <1>3 DEF IInv, GateInv
  <1>6. StopInv'
    BY <1>2 DEF IInv, StopInv
  <1>7. PoolInv'
    BY <1>2 DEF IInv, PoolInv, pool
  <1>8. UnboundInv'
    BY <1>2, <1>3 DEF IInv, UnboundInv
  <1>9. OwnerInv'
    BY <1>2 DEF IInv, GateInv, OwnerInv
  <1> QED BY <1>1, <1>4, <1>5, <1>6, <1>7, <1>8, <1>9 DEF IInv

LEMMA RunSteps ==
  ASSUME IInv, NEW r \in Runners,
         \/ Listen(r) \/ HandlerStopped(r) \/ NewPool(r) \/ Unwind(r)
         \/ AcceptFails(r) \/ AcceptBreaks(r) \/ AcceptFailed(r) \/ LoopEnds(r)
         \/ JoinWorkers(r) \/ RunEnds(r)
  PROVE  IInv'
  <1>1. is_running' \in BOOLEAN
    BY Zenon
    DEF IInv, Flags, Listen, HandlerStopped, NewPool, Unwind, AcceptFails, AcceptBreaks,
        AcceptFailed, LoopEnds, JoinWorkers, RunEnds, lifecycle
  <1>2. /\ UNCHANGED <<stop_requested, svr_sock, descriptor, stopping, pool>>
        /\ run[r] \in Inside \ {"bind"}
    BY DEF Listen, HandlerStopped, NewPool, Unwind, AcceptFails, AcceptBreaks,
           AcceptFailed, LoopEnds, JoinWorkers, RunEnds, lifecycle
  <1>3. run[r] \notin Serving => queue = 0 /\ \A w \in Workers : worker[w] = "idle"
    BY <1>2 DEF IInv, GateInv, PoolInv
  <1>4. svr_sock = "INVALID_SOCKET" => stop_requested
    BY <1>2 DEF IInv, StopInv
  <1>5. CASE Listen(r) \/ HandlerStopped(r) \/ NewPool(r) \/ Unwind(r)
    BY <1>1, <1>2, <1>3, <1>5, RunMove
    DEF Listen, HandlerStopped, NewPool, Unwind, lifecycle
  <1>6. CASE AcceptFails(r) \/ AcceptBreaks(r) \/ AcceptFailed(r) \/ LoopEnds(r)
    BY <1>1, <1>2, <1>4, <1>6, RunMove
    DEF AcceptFails, AcceptBreaks, AcceptFailed, LoopEnds, lifecycle
  <1>7. CASE JoinWorkers(r) \/ RunEnds(r)
    BY <1>1, <1>2, <1>3, <1>7, RunMove DEF IInv, StopInv, JoinWorkers, RunEnds
  <1> QED BY <1>5, <1>6, <1>7

(* The gate: only the first runner changes anything. *)
LEMMA GateStep ==
  ASSUME IInv, NEW r \in Runners, RunGate(r)
  PROVE  IInv'
  <1>1. /\ UNCHANGED <<stop_requested, is_running, svr_sock, descriptor, stopping, pool>>
        /\ run[r] = "idle"
    BY DEF RunGate
  <1>2. Flags'
    BY Zenon, <1>1 DEF IInv, Flags
  <1>3. CASE lifecycle_state # "kIdle"
    <2>1. /\ lifecycle_state' = lifecycle_state
          /\ \A q \in Runners : run'[q] = IF q = r THEN "error" ELSE run[q]
      BY <1>3 DEF IInv, Shapes, RunGate, Goto
    <2>2. Shapes'
      BY <1>1, <1>3, <2>1 DEF IInv, Shapes, RunGate, Goto, pool
    <2>3. GateInv' /\ StopInv'
      BY <1>1, <1>3, <2>1 DEF IInv, GateInv, StopInv
    <2>4. PoolInv' /\ UnboundInv' /\ OwnerInv'
      BY <1>1, <1>3, <2>1 DEF IInv, PoolInv, UnboundInv, OwnerInv, pool
    <2> QED BY <1>2, <2>2, <2>3, <2>4 DEF IInv
  <1>4. CASE lifecycle_state = "kIdle"
    <2>1. PICK l \in {"ok", "bind"} :
            /\ \A q \in Runners : run'[q] = IF q = r THEN l ELSE "idle"
            /\ Goto(r, l)
            /\ l = "ok" => stop_requested /\ lifecycle_state' = "kStopped"
            /\ l = "bind" => lifecycle_state' = "kStarting"
      BY <1>4 DEF IInv, Shapes, GateInv, RunGate, Goto
    <2>2. Shapes'
      BY <1>1, <2>1 DEF IInv, Shapes, Goto, pool
    <2>3. descriptor = "none" /\ svr_sock = "INVALID_SOCKET"
      BY <1>4 DEF IInv, UnboundInv
    <2>4. GateInv' /\ PoolInv'
      BY <1>1, <1>4, <2>1 DEF IInv, GateInv, PoolInv, pool
    <2>5. StopInv'
      BY <1>1, <1>4, <2>1, <2>3 DEF IInv, GateInv, StopInv
    <2>6. UnboundInv' /\ OwnerInv'
      BY <1>1, <2>1, <2>3 DEF IInv, UnboundInv, OwnerInv
    <2> QED BY <1>2, <2>2, <2>4, <2>5, <2>6 DEF IInv
  <1> QED BY <1>3, <1>4

(* bind_to_port: there is a socket from here on, or Run ends. *)
LEMMA BindStep ==
  ASSUME IInv, NEW r \in Runners, Bind(r)
  PROVE  IInv'
  <1>1. /\ UNCHANGED <<stop_requested, is_running, stopping, pool>>
        /\ run[r] = "bind"
    BY DEF Bind
  <1>2. PICK l \in {"listen", "error"} :
          /\ \A q \in Runners : run'[q] = IF q = r THEN l ELSE run[q]
          /\ Goto(r, l)
          /\ l = "listen" =>
               svr_sock' = "open" /\ descriptor' = "open" /\ UNCHANGED lifecycle_state
          /\ l = "error" => lifecycle_state' = "kStopped" /\ UNCHANGED <<svr_sock, descriptor>>
    BY DEF IInv, Shapes, Bind, Goto
  <1>3. Flags'
    BY Zenon, <1>1 DEF IInv, Flags
  <1>4. Shapes'
    BY <1>1, <1>2 DEF IInv, Shapes, Goto, pool
  <1>5. /\ lifecycle_state \notin {"kIdle", "kStopped"}
        /\ \A q \in Runners : q # r => run[q] \in {"idle", "error"}
    BY <1>1 DEF IInv, GateInv
  <1>6. GateInv'
    BY <1>1, <1>2, <1>5 DEF IInv, GateInv
  <1>7. StopInv' /\ PoolInv'
    BY <1>1, <1>2, <1>5 DEF IInv, StopInv, PoolInv, pool
  <1>8. UnboundInv' /\ OwnerInv'
    BY <1>1, <1>2, <1>5 DEF IInv, UnboundInv, OwnerInv
  <1> QED BY <1>3, <1>4, <1>6, <1>7, <1>8 DEF IInv

(* The start handler may call Stop itself. *)
LEMMA HandlerStep ==
  ASSUME IInv, NEW r \in Runners, StartHandler(r)
  PROVE  IInv'
  <1>1. /\ UNCHANGED <<stop_requested, is_running, svr_sock, descriptor, pool>>
        /\ run[r] = "start_handler"
        /\ lifecycle_state' = "kRunning"
    BY DEF StartHandler
  <1>2. Flags' /\ is_running' \in BOOLEAN
    BY Zenon, <1>1 DEF IInv, Flags
  <1>3. queue = 0 /\ \A w \in Workers : worker[w] = "idle"
    BY <1>1 DEF IInv, GateInv, PoolInv
  <1>4. CASE ~ stop_requested
    BY <1>1, <1>2, <1>3, <1>4, RunMove DEF StartHandler
  <1>5. CASE stop_requested
    <2>1. /\ \A q \in Runners : run'[q] = IF q = r THEN "handler_stop" ELSE run[q]
          /\ \A x \in Runners \cup Stoppers :
               stopping'[x] = IF x = r THEN "check" ELSE stopping[x]
      BY <1>5 DEF IInv, Shapes, StartHandler, Goto
    <2>2. Shapes'
      BY <1>1, <1>5 DEF IInv, Shapes, StartHandler, Goto, pool
    <2>3. GateInv'
      BY <1>1, <2>1 DEF IInv, GateInv
    <2>4. StopInv' /\ PoolInv' /\ UnboundInv'
      BY <1>1, <1>3, <1>5, <2>1 DEF IInv, StopInv, PoolInv, UnboundInv, pool
    <2>5. OwnerInv'
      <3>1. \A x \in Runners \cup Stoppers :
              stopping'[x] = "shutdown" <=> stopping[x] = "shutdown"
        BY <1>1, <2>1 DEF IInv, StopInv
      <3>2. \E q \in Runners : run[q] \notin {"idle", "error"} \cup Failing
        BY <1>1
      <3> QED BY <1>1, <3>1, <3>2 DEF IInv, OwnerInv
    <2> QED BY <1>2, <2>2, <2>3, <2>4, <2>5 DEF IInv
  <1> QED BY <1>4, <1>5

(* A connection is accepted. *)
LEMMA AcceptStep ==
  ASSUME IInv, NEW r \in Runners, Accept(r)
  PROVE  IInv'
  <1>1. /\ UNCHANGED <<lifecycle, run, stopping, worker, request, operations_mutex>>
        /\ run[r] = "accept"
    BY DEF Accept
  <1>2. Flags'
    BY Zenon, <1>1 DEF IInv, Flags, lifecycle
  <1>3. queue' \in 0..MaxQueue
    <2>1. queue \in 0..MaxQueue
      BY DEF IInv, Shapes
    <2> QED BY <2>1, ApiServerAssumption DEF Accept
  <1>4. Shapes'
    BY <1>1, <1>3 DEF IInv, Shapes, lifecycle
  <1>5. GateInv' /\ StopInv' /\ UnboundInv' /\ OwnerInv'
    BY <1>1 DEF IInv, GateInv, StopInv, UnboundInv, OwnerInv, lifecycle
  <1>6. PoolInv'
    BY <1>1 DEF IInv, PoolInv
  <1> QED BY <1>2, <1>4, <1>5, <1>6 DEF IInv

(* A listener that failed closes its socket; nobody serves any more. *)
LEMMA CloseStep ==
  ASSUME IInv, NEW r \in Runners, AcceptClose(r)
  PROVE  IInv'
  <1>1. /\ UNCHANGED <<lifecycle_state, stop_requested, is_running, svr_sock, stopping,
                       pool>>
        /\ run[r] = "accept_close"
        /\ descriptor = "none" => descriptor' = "none"
    BY DEF IInv, UnboundInv, AcceptClose
  <1>2. \A q \in Runners : run'[q] = IF q = r THEN "drain_error" ELSE run[q]
    BY DEF IInv, Shapes, AcceptClose, Goto
  <1>3. Flags'
    BY Zenon, <1>1 DEF IInv, Flags
  <1>4. Shapes'
    BY DEF IInv, Shapes, AcceptClose, Goto, Closed, pool
  <1>5. /\ lifecycle_state # "kIdle"
        /\ \A q \in Runners : q # r => run[q] \in {"idle", "error"}
    BY <1>1 DEF IInv, GateInv
  <1>6. GateInv' /\ StopInv'
    BY <1>1, <1>2 DEF IInv, GateInv, StopInv
  <1>7. PoolInv' /\ OwnerInv'
    BY <1>1, <1>2, <1>5 DEF IInv, PoolInv, OwnerInv, pool
  <1>8. UnboundInv'
    <2>1. descriptor' = "none" => descriptor = "none"
      BY DEF AcceptClose, Closed
    <2> QED BY <1>1, <1>2, <1>5, <2>1 DEF IInv, UnboundInv
  <1> QED BY <1>3, <1>4, <1>6, <1>7, <1>8 DEF IInv

-----------------------------------------------------------------------------

LEMMA NextIInv == IInv /\ [Next]_apiVars => IInv'
  <1> SUFFICES ASSUME IInv, [Next]_apiVars PROVE IInv'
    OBVIOUS
  <1>1. ASSUME NEW r \in Runners, RunGate(r) \/ RunStep(r) \/ Accept(r) \/ AcceptBreaks(r)
        PROVE  IInv'
    BY <1>1, GateStep, BindStep, HandlerStep, AcceptStep, CloseStep, RunSteps
    DEF RunStep
  <1>2. ASSUME NEW x \in Runners \cup Stoppers, (x \in Stoppers /\ Stop(x)) \/ StopStep(x)
        PROVE  IInv'
    BY <1>2, StopSteps
  <1>3. ASSUME NEW w \in Workers,
               \/ TakeJob(w) \/ EnterOperation(w) \/ LeaveOperation(w)
               \/ CloseConnection(w) \/ \E o \in Operations : Request(w, o)
        PROVE  IInv'
    BY <1>3, WorkerStep
  <1>4. CASE UNCHANGED apiVars
    <2>1. Flags'
      BY Zenon, <1>4 DEF IInv, Flags, apiVars
    <2>2. Shapes' /\ PoolInv'
      BY <1>4 DEF IInv, Shapes, PoolInv, apiVars
    <2>3. GateInv' /\ StopInv' /\ UnboundInv' /\ OwnerInv'
      BY <1>4 DEF IInv, GateInv, StopInv, UnboundInv, OwnerInv, apiVars
    <2> QED BY <2>1, <2>2, <2>3 DEF IInv
  <1> QED BY <1>1, <1>2, <1>3, <1>4 DEF Next

LEMMA Inductive == Spec => []IInv
  BY InitIInv, NextIInv, PTL DEF Spec

(* What IInv says of a Run that has returned. *)
LEMMA EndFromIInv == IInv => OkOnlyAfterStop /\ NothingInFlight
  <1>1. IInv => OkOnlyAfterStop
    BY DEF IInv, StopInv, OkOnlyAfterStop
  <1>2. IInv => NothingInFlight
    BY ApiServerAssumption DEF IInv, Shapes, PoolInv, NothingInFlight
  <1> QED BY <1>1, <1>2

(* The result of Run does not change any more. *)
LEMMA ReturnedStays ==
  ASSUME IInv, [Next]_apiVars, NEW r \in Runners, run[r] \in Returned
  PROVE  run'[r] = run[r]
  <1> USE DEF IInv, Shapes, Goto, lifecycle
  <1>1. ASSUME NEW s \in Runners, RunGate(s) \/ RunStep(s) \/ Accept(s) \/ AcceptBreaks(s)
        PROVE  run'[r] = run[r]
    BY <1>1 DEF RunGate, RunStep, Accept, AcceptBreaks, Bind, Listen, StartHandler,
                HandlerStopped, NewPool, Unwind, AcceptFails, AcceptFailed,
                AcceptClose, LoopEnds, JoinWorkers, RunEnds
  <1>2. ASSUME NEW x \in Runners \cup Stoppers, (x \in Stoppers /\ Stop(x)) \/ StopStep(x)
        PROVE  run' = run
    BY <1>2 DEF Stop, StopStep, StopCheck, StopAssert, StopExchange, StopShutdown
  <1>3. ASSUME NEW w \in Workers,
               \/ TakeJob(w) \/ EnterOperation(w) \/ LeaveOperation(w)
               \/ CloseConnection(w) \/ \E o \in Operations : Request(w, o)
        PROVE  run' = run
    BY <1>3 DEF TakeJob, EnterOperation, LeaveOperation, CloseConnection, Request
  <1>4. CASE UNCHANGED apiVars
    BY <1>4 DEF apiVars
  <1> QED BY <1>1, <1>2, <1>3, <1>4 DEF Next

(* Every variable has its type in every reachable state. *)
THEOREM ApiTypeCorrect == Spec => []ApiTypeOK
  <1>1. IInv => ApiTypeOK
    BY Zenon DEF IInv, Flags, Shapes, ApiTypeOK
  <1> QED BY <1>1, Inductive, PTL

(* However many calls of Run race, one of them serves and the others are   *)
(* turned away; none serves after a Stop came first.                       *)
THEOREM ServesOnce == Spec => []RunOnce
  <1>1. IInv => RunOnce
    BY DEF IInv, GateInv, RunOnce
  <1> QED BY <1>1, Inductive, PTL

(* Run returns Ok only to a Stop, for any number of callers of either.     *)
THEOREM OkMeansStopped == Spec => []OkOnlyAfterStop
  <1> QED BY EndFromIInv, Inductive, PTL

(* No connection, handler or holder of operations_mutex_ outlives Run, for *)
(* any number of workers and of connections.                               *)
THEOREM NothingLeft == Spec => []NothingInFlight
  <1> QED BY EndFromIInv, Inductive, PTL

(* The listening socket is closed once and by one thread, however many     *)
(* threads call Stop and whenever they do.                                 *)
THEOREM SocketClosedOnce == Spec => []ListenerClosedOnce
  <1>1. IInv => ListenerClosedOnce
    BY DEF IInv, Shapes, StopInv, OwnerInv, ListenerClosedOnce
  <1> QED BY <1>1, Inductive, PTL
=============================================================================
