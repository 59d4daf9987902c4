-------------------------- MODULE SupervisorProofs --------------------------
(***************************************************************************)
(* Proofs about Supervisor for any number of workers, pids and queued      *)
(* connections, with or without faults.  The invariants of the controller  *)
(* and of the server are not proved again: every step of the supervisor is *)
(* a step, or none, of each of them, and the lemmas of their proof modules *)
(* are cited by instance.                                                  *)
(***************************************************************************)
EXTENDS Supervisor, TLAPS

Callers == Workers \cup {MainThread}

C == INSTANCE ProcessControllerProofs WITH Threads <- Callers

A == INSTANCE ApiServerProofs
       WITH Runners <- {ApiThread}, Stoppers <- {MainThread},
            Operations <- HandlerOperations

-----------------------------------------------------------------------------
(* Steps of the parts *)

(* The two instances of the controller take the same steps. *)
LEMMA SameStep ==
  ASSUME NEW t \in Callers, Controller!Step(t)
  PROVE  C!Step(t)
  BY DEF Callers, Controller!Step, C!Step,
     Controller!Acquire, C!Acquire, Controller!Unlock, C!Unlock,
     Controller!Reap, C!Reap, Controller!StartGate, C!StartGate,
     Controller!StartReap, C!StartReap, Controller!ForkFails, C!ForkFails,
     Controller!Fork, C!Fork, Controller!RestoreMask, C!RestoreMask,
     Controller!AbortKill, C!AbortKill, Controller!AbortWait, C!AbortWait,
     Controller!StopReap, C!StopReap, Controller!StopTerm, C!StopTerm,
     Controller!StopPoll, C!StopPoll, Controller!PollDeadline, C!PollDeadline,
     Controller!StopKill, C!StopKill, Controller!StopWait, C!StopWait,
     Controller!RestartGate1, C!RestartGate1,
     Controller!RestartGate2, C!RestartGate2,
     Controller!kernel, C!kernel, Controller!member, C!member,
     Controller!Own, C!Own, Controller!WaitPid, C!WaitPid,
     Controller!Kill, C!Kill, Controller!Collect, C!Collect,
     Controller!Goto, C!Goto, Controller!Return, C!Return,
     Controller!Stopped, C!Stopped, Controller!Running, C!Running,
     Controller!DecodeExitedStatus, C!DecodeExitedStatus,
     Controller!ReapExitedUnlocked, C!ReapExitedUnlocked,
     Controller!Entry, C!Entry, Controller!Adopt, C!Adopt,
     Controller!FinishStop, C!FinishStop, Controller!StopSignal, C!StopSignal,
     Controller!NoWaitStatus, C!NoWaitStatus

LEMMA SameCall ==
  ASSUME NEW t \in Callers, NEW m, Controller!Call(t, m)
  PROVE  C!Call(t, m)
  BY DEF Callers, Controller!Call, C!Call, Controller!Goto, C!Goto,
     Controller!kernel, C!kernel, Controller!member, C!member

LEMMA SameOthers ==
  /\ \A t \in Callers : Controller!Destroy(t) => C!Destroy(t)
  /\ Controller!RequestShutdown => C!RequestShutdown
  /\ \A p \in Pids : Controller!ChildEnds(p) => C!ChildEnds(p)
  /\ Controller!Init => C!Init
  /\ Controller!NoChild <=> C!NoChild
  BY DEF Callers, Controller!Destroy, C!Destroy,
     Controller!RequestShutdown, C!RequestShutdown,
     Controller!ChildEnds, C!ChildEnds, Controller!Collect, C!Collect,
     Controller!Init, C!Init, Controller!NoChild, C!NoChild,
     Controller!Own, C!Own, Controller!kernel, C!kernel,
     Controller!member, C!member, Controller!NoWaitStatus, C!NoWaitStatus,
     Controller!WaitStatus, C!WaitStatus

(* Every step of the supervisor is a step of its controller, or none. *)
LEMMA ControllerMoves == Next => [C!Next]_controllerVars
  <1> SUFFICES ASSUME Next PROVE C!Next \/ UNCHANGED controllerVars
    OBVIOUS
  <1>1. ASSUME NEW t \in Callers, NEW m \in ControllerMethods \cup {"ReapExited"},
               Controller!Call(t, m)
        PROVE  C!Next
    BY <1>1, SameCall DEF C!Next, C!Methods, ControllerMethods
  <1>2. CASE MainStep
    BY <1>1, <1>2, SameOthers
    DEF MainStep, StartDaemon, StartApiThread, LoopReap, LookApi, LookSignal,
        LookApiAgain, RequestShutdown, StopApi, StopDaemon, FinalReap, Join,
        DestroyApi, DestroyController, Exit, Callers, ControllerMethods, C!Next
  <1>3. CASE HandleShutdownSignal \/ Terminated
    BY <1>3 DEF HandleShutdownSignal, Terminated, vars
  <1>4. ASSUME NEW t \in Callers, ControllerStep(t) PROVE C!Next
    BY <1>4, SameStep DEF ControllerStep, C!Next
  <1>5. ASSUME NEW p \in Pids, ChildEnds(p) PROVE C!Next
    BY <1>5, SameOthers DEF ChildEnds, C!Next
  <1>6. ASSUME NEW w \in Workers, BeginOperation(w) \/ EndOperation(w)
        PROVE  C!Next \/ UNCHANGED controllerVars
    BY <1>1, <1>6 DEF BeginOperation, EndOperation, Callers
  <1>7. CASE EnterRun \/ ServerStep
    BY <1>7 DEF EnterRun, ServerStep
  <1> QED BY <1>2, <1>3, <1>4, <1>5, <1>6, <1>7 DEF Next, Callers

(* The same for the server. *)
LEMMA SameRunStep ==
  ASSUME Api!RunStep(ApiThread)
  PROVE  A!RunStep(ApiThread)
  BY DEF
     Api!RunStep, A!RunStep, Api!Bind, A!Bind, Api!Listen, A!Listen,
     Api!StartHandler, A!StartHandler, Api!HandlerStopped, A!HandlerStopped,
     Api!NewPool, A!NewPool, Api!Unwind, A!Unwind,
     Api!AcceptFails, A!AcceptFails, Api!AcceptFailed, A!AcceptFailed,
     Api!AcceptClose, A!AcceptClose, Api!LoopEnds, A!LoopEnds,
     Api!JoinWorkers, A!JoinWorkers, Api!RunEnds, A!RunEnds,
     Api!Goto, A!Goto, Api!lifecycle, A!lifecycle, Api!pool, A!pool,
     Api!Closed, A!Closed

LEMMA SameServerStep ==
  /\ Api!RunGate(ApiThread) => A!RunGate(ApiThread)
  /\ Api!Accept(ApiThread) => A!Accept(ApiThread)
  /\ Api!AcceptBreaks(ApiThread) => A!AcceptBreaks(ApiThread)
  /\ Api!Stop(MainThread) => A!Stop(MainThread)
  /\ \A x \in {ApiThread, MainThread} : Api!StopStep(x) => A!StopStep(x)
  /\ \A w \in Workers :
       /\ Api!TakeJob(w) => A!TakeJob(w)
       /\ Api!CloseConnection(w) => A!CloseConnection(w)
       /\ Api!EnterOperation(w) => A!EnterOperation(w)
       /\ Api!LeaveOperation(w) => A!LeaveOperation(w)
       /\ \A o \in HandlerOperations : Api!Request(w, o) => A!Request(w, o)
  /\ Api!Init => A!Init
  BY DEF
     Api!RunGate, A!RunGate, Api!Accept, A!Accept,
     Api!AcceptBreaks, A!AcceptBreaks, Api!Stop, A!Stop,
     Api!StopStep, A!StopStep, Api!StopCheck, A!StopCheck,
     Api!StopAssert, A!StopAssert, Api!StopExchange, A!StopExchange,
     Api!StopShutdown, A!StopShutdown, Api!TakeJob, A!TakeJob,
     Api!CloseConnection, A!CloseConnection,
     Api!EnterOperation, A!EnterOperation,
     Api!LeaveOperation, A!LeaveOperation, Api!Request, A!Request,
     Api!Init, A!Init, Api!Serving, A!Serving, Api!Goto, A!Goto,
     Api!lifecycle, A!lifecycle, Api!pool, A!pool, Api!Closed, A!Closed

(* Every step of the supervisor is a step of its server, or none. *)
LEMMA ServerMoves == Next => [A!Next]_apiVars
  <1> SUFFICES ASSUME Next PROVE A!Next \/ UNCHANGED apiVars
    OBVIOUS
  <1>1. CASE MainStep
    BY <1>1, SameServerStep
    DEF MainStep, StartDaemon, StartApiThread, LoopReap, LookApi, LookSignal,
        LookApiAgain, RequestShutdown, StopApi, StopDaemon, FinalReap, Join,
        DestroyApi, DestroyController, Exit, A!Next
  <1>2. CASE HandleShutdownSignal \/ Terminated
    BY <1>2 DEF HandleShutdownSignal, Terminated, vars
  <1>3. ASSUME NEW t \in Callers, ControllerStep(t) PROVE UNCHANGED apiVars
    BY <1>3 DEF ControllerStep
  <1>4. ASSUME NEW p \in Pids, ChildEnds(p) PROVE UNCHANGED apiVars
    BY <1>4 DEF ChildEnds
  <1>5. ASSUME NEW w \in Workers, BeginOperation(w) \/ EndOperation(w)
        PROVE  A!Next
    BY <1>5, SameServerStep DEF BeginOperation, EndOperation, A!Next
  <1>6. CASE EnterRun
    BY <1>6, SameServerStep DEF EnterRun, A!Next
  <1>7. CASE ServerStep
    BY <1>7, SameServerStep, SameRunStep DEF ServerStep, A!Next
  <1> QED BY <1>1, <1>2, <1>3, <1>4, <1>5, <1>6, <1>7 DEF Next, Callers

-----------------------------------------------------------------------------
(* The invariants of the parts hold of the composition *)

LEMMA PartsInit == Init => C!IInv /\ A!IInv
  BY SameOthers, SameServerStep, C!InitIInv, A!InitIInv, SupervisorAssumption
  DEF Init, Callers

LEMMA PartsStep == C!IInv /\ A!IInv /\ Next => C!IInv' /\ A!IInv'
  <1> SUFFICES ASSUME C!IInv, A!IInv, Next PROVE C!IInv' /\ A!IInv'
    OBVIOUS
  <1>1. C!IInv'
    BY ControllerMoves, C!NextIInv, SupervisorAssumption DEF Callers, C!vars, controllerVars
  <1>2. A!IInv'
    BY ServerMoves, A!NextIInv, SupervisorAssumption DEF A!apiVars, apiVars
  <1> QED BY <1>1, <1>2

-----------------------------------------------------------------------------
(* What the composition adds *)

(* main up to its Stop of the server, after it, and when Run is joined. *)
Before == {"start", "start_api", "loop", "look_api", "look_signal",
           "look_api_again", "request_shutdown", "stop_api", "aborted"}
Gone == {"destroy_api", "destroy_controller", "destroying", "exited"}
After == {"stop_daemon", "reap", "join"} \cup Gone

(* The order of the shutdown. *)
OrderInv ==
  /\ main \in After \cup {"stop_api"} => shutdown_requested
  /\ main \in Before => ~ stop_requested
  /\ main \in Gone => run[ApiThread] \in A!Returned

(* What main has found out is still so. *)
OutcomeInv ==
  /\ main = "look_api_again" => shutdown_signal
  /\ exit_reason = "kSignal" => shutdown_signal
  /\ exit_reason = "kApiExit" => run[ApiThread] \in {"error", "threw"}
  /\ stop_status = "ok" => C!Quiet
  /\ exit_code = 0 => shutdown_signal /\ run[ApiThread] = "ok" /\ C!Quiet

(* Handlers are in the controller only while they hold operations_mutex_;  *)
(* main's last calls leave it quiet when they succeed.                     *)
CallInv ==
  /\ \A w \in Workers : pc[w] \in {"idle", "destroyed"} \/ worker[w] = "operation"
  /\ main = "reap" =>
       /\ op[MainThread] = "Stop"
       /\ pc[MainThread] \in {"unlock", "idle"} /\ ret[MainThread] = "ok" => C!Quiet
  /\ main \in {"destroying", "exited"} =>
       /\ op[MainThread] = "Destroy"
       /\ pc[MainThread] \in {"unlock", "destroyed"} /\ ret[MainThread] # "error" =>
            C!Quiet
       /\ ~ SyscallFaults => pc[MainThread] = "acquire" \/ ret[MainThread] # "error"
  /\ main = "exited" => pc[MainThread] = "destroyed"

IInv == C!IInv /\ A!IInv /\ MainTypeOK /\ OrderInv /\ OutcomeInv /\ CallInv

(* What no step takes back. *)
LEMMA Stable ==
  ASSUME C!IInv, A!IInv, Next
  PROVE  /\ C!Quiet => C!Quiet'
         /\ run[ApiThread] \in A!Returned => run'[ApiThread] = run[ApiThread]
  <1>1. C!Quiet => C!Quiet'
    BY ControllerMoves, C!QuietStep, SupervisorAssumption
    DEF Callers, C!vars, controllerVars
  <1>2. run[ApiThread] \in A!Returned => run'[ApiThread] = run[ApiThread]
    BY ServerMoves, A!ReturnedStays, SupervisorAssumption DEF A!apiVars, apiVars
  <1> QED BY <1>1, <1>2

(* A step that is not main's leaves the variables of main alone, apart     *)
(* from the signal, and takes part in no Stop of the server.               *)
LEMMA OtherStep ==
  ASSUME \/ HandleShutdownSignal \/ EnterRun \/ ServerStep \/ Terminated
         \/ \E t \in Callers : ControllerStep(t)
         \/ \E p \in Pids : ChildEnds(p)
         \/ \E w \in Workers : BeginOperation(w) \/ EndOperation(w)
  PROVE  /\ UNCHANGED <<main, exit_reason, stop_status, exit_code, stop_requested>>
         /\ shutdown_signal => shutdown_signal'
  <1>1. CASE \/ HandleShutdownSignal \/ Terminated
             \/ \E t \in Callers : ControllerStep(t)
             \/ \E p \in Pids : ChildEnds(p)
    BY <1>1 DEF HandleShutdownSignal, Terminated, ControllerStep, ChildEnds, vars,
                apiVars, mainVars
  <1>2. CASE EnterRun \/ \E w \in Workers : BeginOperation(w) \/ EndOperation(w)
    BY <1>2 DEF EnterRun, BeginOperation, EndOperation, Api!RunGate, Api!EnterOperation,
                Api!LeaveOperation, Api!lifecycle, mainVars
  <1>3. CASE ServerStep
    BY <1>3
    DEF ServerStep, Api!RunStep, Api!Bind, Api!Listen, Api!StartHandler,
        Api!HandlerStopped, Api!NewPool, Api!Unwind, Api!AcceptFails,
        Api!AcceptFailed, Api!AcceptClose, Api!LoopEnds, Api!JoinWorkers,
        Api!RunEnds, Api!Accept, Api!AcceptBreaks, Api!StopStep, Api!StopCheck,
        Api!StopAssert, Api!StopExchange, Api!StopShutdown, Api!TakeJob,
        Api!CloseConnection, Api!Request, Api!lifecycle, mainVars
  <1> QED BY <1>1, <1>2, <1>3

-----------------------------------------------------------------------------
(* Each kind of step keeps what the composition adds *)

Added == MainTypeOK /\ OrderInv /\ OutcomeInv /\ CallInv

(* The types of what the steps of main look at. *)
LEMMA PartsTypes ==
  ASSUME C!IInv, A!IInv
  PROVE  /\ pc \in [Callers -> C!Held \cup {"idle", "acquire", "destroyed"}]
         /\ op \in [Callers -> C!Methods]
         /\ ret \in [Callers -> C!Results]
         /\ run \in [{ApiThread} -> A!Inside \cup A!Returned \cup {"idle"}]
         /\ worker \in [Workers -> {"idle", "connection", "handler", "operation"}]
         /\ run[ApiThread] = "ok" => stop_requested
  <1>1. /\ pc \in [Callers -> C!Held \cup {"idle", "acquire", "destroyed"}]
        /\ op \in [Callers -> C!Methods]
        /\ ret \in [Callers -> C!Results]
    BY DEF C!IInv, C!TypeOK
  <1>2. /\ run \in [{ApiThread} -> A!Inside \cup A!Returned \cup {"idle"}]
        /\ worker \in [Workers -> {"idle", "connection", "handler", "operation"}]
    BY DEF A!IInv, A!Shapes
  <1>3. run[ApiThread] = "ok" => stop_requested
    BY A!EndFromIInv, SupervisorAssumption DEF A!OkOnlyAfterStop
  <1> QED BY <1>1, <1>2, <1>3

(* main looks around, joins the API thread or is over. *)
LEMMA LookStep ==
  ASSUME IInv, StartApiThread \/ LookApi \/ LookSignal \/ LookApiAgain \/ Join \/ Exit
  PROVE  Added'
  <1>1. /\ UNCHANGED <<controllerVars, apiVars, shutdown_signal, stop_status>>
        /\ C!Quiet => C!Quiet'
    BY DEF StartApiThread, LookApi, LookSignal, LookApiAgain, Join, Exit,
           controllerVars, apiVars, C!Quiet, C!NoChild, C!Own
  <1>2. MainTypeOK'
    <2>1. shutdown_signal' \in BOOLEAN
      BY Zenon, <1>1 DEF IInv, MainTypeOK
    <2> QED
      BY <1>1, <2>1
      DEF IInv, MainTypeOK, StartApiThread, LookApi, LookSignal, LookApiAgain, Join,
          Exit, MainAt, MainGoto, Observe
  <1>3. OrderInv'
    BY <1>1
    DEF IInv, OrderInv, StartApiThread, LookApi, LookSignal, LookApiAgain, Join, Exit,
        MainAt, MainGoto, Observe, controllerVars, apiVars, Before, After, Gone,
        ApiReady, Api!Returned, A!Returned
  <1>4. OutcomeInv'
    <2>1. main \in Before => run[ApiThread] # "ok"
      BY PartsTypes DEF IInv, OrderInv
    <2> QED
      BY <1>1, <2>1
      DEF IInv, OutcomeInv, StartApiThread, LookApi, LookSignal, LookApiAgain, Join, Exit,
          MainAt, MainGoto, Observe, controllerVars, apiVars, Before,
          ApiReady, ApiExitOk, Api!Returned
  <1>5. CallInv'
    BY <1>1
    DEF IInv, CallInv, StartApiThread, LookApi, LookSignal, LookApiAgain, Join, Exit,
        MainAt, MainGoto, Observe, controllerVars, apiVars
  <1> QED BY <1>2, <1>3, <1>4, <1>5 DEF Added

(* main calls the controller. *)
LEMMA CallStep ==
  ASSUME IInv, StartDaemon \/ LoopReap \/ RequestShutdown \/ StopDaemon \/ FinalReap
               \/ DestroyController,
         C!Quiet => C!Quiet'
  PROVE  Added'
  <1>1. /\ UNCHANGED <<apiVars, shutdown_signal, exit_reason, exit_code>>
        /\ main' \notin {"look_api_again", "destroy_api", "exited"}
    BY DEF StartDaemon, LoopReap, RequestShutdown, StopDaemon, FinalReap,
           DestroyController, MainGoto
  <1>2. MainTypeOK'
    <2>1. shutdown_signal' \in BOOLEAN
      BY Zenon, <1>1 DEF IInv, MainTypeOK
    <2> QED
      BY <1>1, <2>1, PartsTypes
      DEF IInv, MainTypeOK, StartDaemon, LoopReap, RequestShutdown, StopDaemon,
          FinalReap, DestroyController, MainAt, MainGoto, Callers,
          Controller!Results, C!Results
  <1>3. OrderInv'
    BY <1>1
    DEF IInv, OrderInv, StartDaemon, LoopReap, RequestShutdown, StopDaemon,
        FinalReap, DestroyController, MainAt, MainGoto, apiVars, Before, After, Gone,
        Controller!Call, Controller!Destroy, Controller!RequestShutdown
  <1>4. OutcomeInv'
    <2>1. stop_status' = "ok" => C!Quiet
      BY DEF IInv, OutcomeInv, CallInv, StartDaemon, LoopReap, RequestShutdown,
             StopDaemon, FinalReap, DestroyController, MainAt
    <2> QED
      BY <1>1, <2>1 DEF IInv, OutcomeInv, apiVars
  <1>5. CallInv'
    <2>1. ASSUME NEW w \in Workers
          PROVE  pc'[w] \in {"idle", "destroyed"} \/ worker'[w] = "operation"
      BY <1>1, PartsTypes, SupervisorAssumption
      DEF IInv, CallInv, StartDaemon, LoopReap, RequestShutdown, StopDaemon,
          FinalReap, DestroyController, apiVars, Callers,
          Controller!Call, Controller!Destroy, Controller!RequestShutdown, Controller!Goto
    <2>2. main' = "reap" => op'[MainThread] = "Stop" /\ pc'[MainThread] = "acquire"
      BY PartsTypes
      DEF IInv, StartDaemon, LoopReap, RequestShutdown, StopDaemon,
          FinalReap, DestroyController, MainGoto, Callers, Controller!Call,
          Controller!Goto
    <2>3. main' = "destroying" => op'[MainThread] = "Destroy" /\ pc'[MainThread] = "acquire"
      BY PartsTypes
      DEF IInv, StartDaemon, LoopReap, RequestShutdown, StopDaemon,
          FinalReap, DestroyController, MainGoto, Callers, Controller!Destroy
    <2> QED BY <1>1, <2>1, <2>2, <2>3 DEF CallInv
  <1> QED BY <1>2, <1>3, <1>4, <1>5 DEF Added

(* main stops the server. *)
LEMMA StopServerStep ==
  ASSUME IInv, StopApi \/ DestroyApi
  PROVE  Added'
  <1>1. /\ UNCHANGED <<controllerVars, shutdown_signal, exit_reason, stop_status, exit_code,
                       run, worker>>
        /\ C!Quiet => C!Quiet'
    BY DEF StopApi, DestroyApi, Api!Stop, Api!pool, controllerVars, C!Quiet, C!NoChild, C!Own
  <1>2. MainTypeOK'
    <2>1. shutdown_signal' \in BOOLEAN
      BY Zenon, <1>1 DEF IInv, MainTypeOK
    <2> QED
      BY <1>1, <2>1 DEF IInv, MainTypeOK, StopApi, DestroyApi, MainAt, MainGoto
  <1>3. OrderInv' /\ OutcomeInv' /\ CallInv'
    BY <1>1
    DEF IInv, OrderInv, OutcomeInv, CallInv, StopApi, DestroyApi, MainAt, MainGoto,
        controllerVars, Before, After, Gone
  <1> QED BY <1>2, <1>3 DEF Added

(* The steps that are not main's change only where the threads are. *)
LEMMA ElsewhereStep ==
  ASSUME IInv, Next, shutdown_requested => shutdown_requested',
         UNCHANGED <<main, exit_reason, stop_status, exit_code, stop_requested>>,
         shutdown_signal => shutdown_signal', shutdown_signal' \in BOOLEAN
  PROVE  MainTypeOK' /\ OrderInv' /\ OutcomeInv'
  <1>1. /\ C!Quiet => C!Quiet'
        /\ run[ApiThread] \in A!Returned => run'[ApiThread] = run[ApiThread]
    BY Stable DEF IInv
  <1>2. MainTypeOK'
    BY DEF IInv, MainTypeOK
  <1>3. OrderInv'
    BY <1>1 DEF IInv, OrderInv
  <1>4. OutcomeInv'
    BY <1>1 DEF IInv, OutcomeInv, A!Returned
  <1> QED BY <1>2, <1>3, <1>4

(* A call of main that ends well after the flag went up ends quiet. *)
EndsWell ==
  /\ shutdown_requested
  /\ pc[MainThread] = "unlock"
  /\ \/ op[MainThread] = "Stop" /\ ret[MainThread] = "ok"
     \/ op[MainThread] = "Destroy" /\ ret[MainThread] # "error"

LEMMA QuietEnd == C!IInv /\ EndsWell => C!Quiet
  BY C!QuietReturn, SupervisorAssumption DEF Callers, EndsWell

LEMMA QuietEndNext == C!IInv' /\ EndsWell' => C!Quiet'
  BY QuietEnd, PTL

(* A method goes on: main's own Stop and destructor end quiet. *)
LEMMA MethodStep ==
  ASSUME IInv, Next, C!IInv', NEW t \in Callers, ControllerStep(t)
  PROVE  Added'
  <1>1. /\ C!Step(t)
        /\ UNCHANGED <<apiVars, mainVars>>
        /\ C!IInv
    BY SameStep DEF ControllerStep, IInv
  <1>2. /\ pc[t] \in C!Held \cup {"acquire"}
        /\ op' = op /\ shutdown_requested' = shutdown_requested
        /\ \A u \in Callers \ {t} : pc'[u] = pc[u] /\ ret'[u] = ret[u]
        /\ pc'[t] \in {"idle", "destroyed"} =>
             /\ pc[t] = "unlock"
             /\ ret'[t] = ret[t]
             /\ pc'[t] = "destroyed" <=> op[t] = "Destroy"
        /\ pc'[t] # "acquire"
    BY <1>1, C!StepFrame, SupervisorAssumption DEF Callers
  <1>3. C!Quiet => C!Quiet'
    BY <1>1, Stable DEF IInv
  <1>4. MainTypeOK' /\ OrderInv' /\ OutcomeInv'
    <2>1. shutdown_signal' \in BOOLEAN
      BY Zenon, <1>1 DEF IInv, MainTypeOK, mainVars
    <2> QED
      BY <1>1, <1>2, <2>1, ElsewhereStep DEF apiVars, mainVars
  <1>5. CallInv'
    <2>1. ASSUME NEW w \in Workers
          PROVE  pc'[w] \in {"idle", "destroyed"} \/ worker'[w] = "operation"
      BY <1>1, <1>2 DEF IInv, CallInv, Callers, C!Held, apiVars
    <2>2. ASSUME shutdown_requested, pc'[MainThread] = "unlock",
                 \/ op[MainThread] = "Stop" /\ ret'[MainThread] = "ok"
                 \/ op[MainThread] = "Destroy" /\ ret'[MainThread] # "error"
          PROVE  C!Quiet'
      BY <1>2, <2>2, QuietEndNext DEF EndsWell
    <2>3. CASE main = "reap"
      BY <1>1, <1>2, <1>3, <2>1, <2>2, <2>3
      DEF IInv, CallInv, OrderInv, After, Callers, mainVars
    <2>4. CASE main \in {"destroying", "exited"}
      <3>1. op[MainThread] = "Destroy" /\ main' = main
        BY <1>1, <2>4 DEF IInv, CallInv, mainVars
      <3>2. ~ SyscallFaults => pc'[MainThread] = "acquire" \/ ret'[MainThread] # "error"
        BY <1>1, <1>2, <2>4, <3>1, C!DestroyError, SupervisorAssumption
        DEF IInv, CallInv, Callers
      <3>3. pc'[MainThread] \in {"unlock", "destroyed"} /\ ret'[MainThread] # "error" =>
              C!Quiet'
        BY <1>2, <1>3, <2>2, <2>4, <3>1
        DEF IInv, CallInv, OrderInv, After, Gone, Callers
      <3>4. main = "exited" => pc'[MainThread] = "destroyed"
        BY <1>2 DEF IInv, CallInv, C!Held, Callers
      <3> QED BY <1>2, <2>1, <2>4, <3>1, <3>2, <3>3, <3>4 DEF CallInv
    <2>5. CASE main \notin {"reap", "destroying", "exited"}
      BY <1>1, <2>1, <2>5 DEF CallInv, mainVars
    <2> QED BY <2>3, <2>4, <2>5
  <1> QED BY <1>4, <1>5 DEF Added

(* Signals, children, handlers and the server. *)
LEMMA OutsideStep ==
  ASSUME IInv, Next,
         \/ HandleShutdownSignal \/ EnterRun \/ ServerStep \/ Terminated
         \/ \E p \in Pids : ChildEnds(p)
         \/ \E w \in Workers : BeginOperation(w) \/ EndOperation(w)
  PROVE  Added'
  <1>1. /\ UNCHANGED <<main, exit_reason, stop_status, exit_code, stop_requested>>
        /\ shutdown_signal => shutdown_signal'
    BY OtherStep
  <1>2. /\ UNCHANGED <<shutdown_requested, ret>>
        /\ pc'[MainThread] = pc[MainThread]
        /\ op'[MainThread] = op[MainThread]
    BY PartsTypes, SupervisorAssumption
    DEF HandleShutdownSignal, EnterRun, ServerStep, Terminated, ChildEnds,
        BeginOperation, EndOperation, controllerVars, vars, IInv, Callers,
        Controller!ChildEnds, Controller!Call, Controller!Goto
  <1>3. shutdown_signal' \in BOOLEAN
    BY Zenon
    DEF IInv, MainTypeOK, HandleShutdownSignal, EnterRun, ServerStep, Terminated,
        ChildEnds, BeginOperation, EndOperation, mainVars, vars
  <1>4. MainTypeOK' /\ OrderInv' /\ OutcomeInv'
    BY <1>1, <1>2, <1>3, ElsewhereStep
  <1>5. ASSUME NEW w \in Workers
        PROVE  pc'[w] \in {"idle", "destroyed"} \/ worker'[w] = "operation"
    <2>1. pc[w] \in {"idle", "destroyed"} \/ worker[w] = "operation"
      BY DEF IInv, CallInv
    <2>2. CASE HandleShutdownSignal \/ Terminated \/ EnterRun
      BY <2>1, <2>2
      DEF HandleShutdownSignal, Terminated, EnterRun, Api!RunGate, Api!pool, vars,
          controllerVars, apiVars
    <2>3. ASSUME NEW p \in Pids, ChildEnds(p) PROVE UNCHANGED <<pc, worker>>
      BY <2>3 DEF ChildEnds, Controller!ChildEnds, apiVars
    <2>4. CASE ServerStep
      <3>1. pc' = pc /\ (worker[w] = "operation" => worker'[w] = "operation")
        BY <2>4, PartsTypes
        DEF IInv, ServerStep, Api!RunStep, Api!Bind, Api!Listen, Api!StartHandler,
            Api!HandlerStopped, Api!NewPool, Api!Unwind, Api!AcceptFails,
            Api!AcceptFailed, Api!AcceptClose, Api!LoopEnds, Api!JoinWorkers,
            Api!RunEnds, Api!Accept, Api!AcceptBreaks, Api!StopStep, Api!StopCheck,
            Api!StopAssert, Api!StopExchange, Api!StopShutdown, Api!TakeJob,
            Api!CloseConnection, Api!Request, Api!pool, controllerVars
      <3> QED BY <2>1, <3>1
    <2>5. ASSUME NEW v \in Workers, BeginOperation(v)
          PROVE  pc'[w] \in {"idle", "destroyed"} \/ worker'[w] = "operation"
      BY <2>1, <2>5, PartsTypes
      DEF IInv, BeginOperation, Api!EnterOperation, Controller!Call, Controller!Goto,
          controllerVars, Callers
    <2>6. ASSUME NEW v \in Workers, EndOperation(v)
          PROVE  pc'[w] \in {"idle", "destroyed"} \/ worker'[w] = "operation"
      BY <2>1, <2>6, PartsTypes
      DEF IInv, EndOperation, Api!LeaveOperation, controllerVars
    <2> QED BY <2>1, <2>2, <2>3, <2>4, <2>5, <2>6
  <1>6. C!Quiet => C!Quiet'
    BY Stable DEF IInv
  <1>7. CallInv'
    BY <1>1, <1>2, <1>5, <1>6 DEF IInv, CallInv
  <1> QED BY <1>4, <1>7 DEF Added

-----------------------------------------------------------------------------

LEMMA InitIInv == Init => IInv
  <1> SUFFICES ASSUME Init PROVE IInv
    OBVIOUS
  <1>1. C!IInv /\ A!IInv
    BY PartsInit
  <1>2. MainTypeOK
    <2>1. shutdown_signal \in BOOLEAN
      BY Zenon DEF Init
    <2> QED BY <2>1 DEF Init, MainTypeOK, Controller!Results
  <1>3. OrderInv
    BY DEF Init, Api!Init, OrderInv, After, Gone
  <1>4. OutcomeInv
    BY DEF Init, OutcomeInv
  <1>5. CallInv
    BY DEF Init, Controller!Init, CallInv
  <1> QED BY <1>1, <1>2, <1>3, <1>4, <1>5 DEF IInv

LEMMA NextIInv == IInv /\ [Next]_vars => IInv'
  <1> SUFFICES ASSUME IInv, Next \/ UNCHANGED vars PROVE IInv'
    OBVIOUS
  <1>1. CASE Next
    <2>1. C!IInv' /\ A!IInv' /\ (C!Quiet => C!Quiet')
      BY <1>1, PartsStep, Stable DEF IInv
    <2>2. CASE MainStep
      BY <2>1, <2>2, LookStep, CallStep, StopServerStep DEF MainStep, Added, IInv
    <2>3. CASE \E t \in Callers : ControllerStep(t)
      BY <1>1, <2>1, <2>3, MethodStep DEF Added, IInv
    <2>4. CASE \/ HandleShutdownSignal \/ EnterRun \/ ServerStep \/ Terminated
               \/ \E p \in Pids : ChildEnds(p)
               \/ \E w \in Workers : BeginOperation(w) \/ EndOperation(w)
      BY <1>1, <2>1, <2>4, OutsideStep DEF Added, IInv
    <2> QED BY <1>1, <2>2, <2>3, <2>4 DEF Next, Callers
  <1>2. CASE UNCHANGED vars
    <2>1. UNCHANGED <<controllerVars, apiVars, mainVars>>
      BY <1>2 DEF vars
    <2>2. C!IInv' /\ A!IInv'
      BY <2>1, C!NextIInv, A!NextIInv, SupervisorAssumption
      DEF IInv, Callers, C!vars, controllerVars, A!apiVars, apiVars
    <2>3. C!Quiet => C!Quiet'
      BY <2>1, C!QuietStep, SupervisorAssumption
      DEF IInv, Callers, C!vars, controllerVars
    <2>4. MainTypeOK'
      <3>1. shutdown_signal' \in BOOLEAN
        BY Zenon, <2>1 DEF IInv, MainTypeOK, mainVars
      <3> QED BY <2>1, <3>1 DEF IInv, MainTypeOK, mainVars
    <2>5. OrderInv' /\ OutcomeInv' /\ CallInv'
      BY <2>1, <2>3 DEF IInv, OrderInv, OutcomeInv, CallInv, controllerVars, apiVars, mainVars
    <2> QED BY <2>2, <2>4, <2>5 DEF IInv
  <1> QED BY <1>1, <1>2

LEMMA Inductive == Spec => []IInv
  BY InitIInv, NextIInv, PTL DEF Spec

(* The variables of main have their types in every reachable state. *)
THEOREM MainTypeCorrect == Spec => []MainTypeOK
  <1>1. IInv => MainTypeOK
    BY DEF IInv
  <1> QED BY <1>1, Inductive, PTL

(* Once main's Stop of the controller has returned Ok there is no daemon,  *)
(* for any number of handlers that start and restart it meanwhile.         *)
THEOREM NothingRevived == Spec => []NoRevival
  <1>1. IInv => NoRevival
    BY SameOthers DEF IInv, OutcomeInv, NoRevival, C!Quiet
  <1> QED BY <1>1, Inductive, PTL

(* The supervisor never takes the end of Run that it asked for itself for  *)
(* a failure of the server.                                                *)
THEOREM StopNotFailure == Spec => []OwnStopIsNoFailure
  <1>1. IInv => OwnStopIsNoFailure
    BY DEF IInv, OutcomeInv, OwnStopIsNoFailure
  <1> QED BY <1>1, Inductive, PTL

(* No handler and no accepted connection outlives the objects it uses, for *)
(* any number of workers and connections.                                  *)
THEOREM DestroyedAlone == Spec => []NoUseAfterDestroy
  <1>1. IInv => NoUseAfterDestroy
    <2> SUFFICES ASSUME IInv, main \in Gone
                 PROVE  /\ \A w \in Workers : /\ worker[w] = "idle"
                                              /\ pc[w] \in {"idle", "destroyed"}
                        /\ queue = 0
      BY DEF NoUseAfterDestroy, Gone
    <2>1. A!NothingInFlight
      BY A!EndFromIInv, SupervisorAssumption DEF IInv
    <2>2. run[ApiThread] \notin A!Inside
      BY DEF IInv, OrderInv, A!Returned, A!Inside
    <2>3. queue = 0 /\ \A w \in Workers : worker[w] = "idle"
      BY <2>1, <2>2 DEF A!NothingInFlight
    <2> QED BY <2>3 DEF IInv, CallInv
  <1> QED BY <1>1, Inductive, PTL

(* The exit code tells the truth, and without failing system calls no      *)
(* return from main leaves a daemon behind.                                *)
THEOREM ExitIsClean == Spec => []CleanExit
  <1>1. IInv => CleanExit
    BY SameOthers DEF IInv, OutcomeInv, CallInv, CleanExit, C!Quiet
  <1> QED BY <1>1, Inductive, PTL
=============================================================================
