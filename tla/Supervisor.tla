----------------------------- MODULE Supervisor -----------------------------
(***************************************************************************)
(* apps/opcua-supervisor/main.cc from the construction of the controller   *)
(* to the end of the process, composed of the ProcessController and the    *)
(* ApiServer it owns: the main thread, the thread that runs the API server *)
(* and the workers of its pool all meet in the controller.                 *)
(*                                                                         *)
(* A handler is one operation of ApiServer that holds operations_mutex_    *)
(* around one method of ProcessController.  Pids are not used by foreign   *)
(* processes here (module ProcessController has them).                     *)
(***************************************************************************)
EXTENDS Naturals

CONSTANTS
  MainThread, ApiThread, Workers,           \* the threads of the process
  Pids, NoThread, NoPid, ExitCodes, EndSignals, AutoReap, SyscallFaults,
  NoWorker, MaxQueue, ServerFaults

ASSUME SupervisorAssumption ==
  /\ MainThread \notin Workers
  /\ ApiThread \notin Workers \cup {MainThread}
  /\ NoThread \notin Workers \cup {MainThread}
  /\ NoPid \notin Pids
  /\ 0 \in ExitCodes
  /\ ExitCodes \subseteq Nat
  /\ EndSignals \subseteq Nat \ {0}
  /\ AutoReap \in BOOLEAN
  /\ SyscallFaults \in BOOLEAN
  /\ NoWorker \notin Workers
  /\ MaxQueue \in Nat \ {0}
  /\ ServerFaults \in BOOLEAN

VARIABLES
  \* ProcessController
  proc, wait_status, sent, shutdown_requested, lock, child_pid, status, pid,
  pc, op, ret,
  \* ApiServer
  lifecycle_state, stop_requested, is_running, svr_sock, descriptor, run,
  stopping, queue, worker, request, operations_mutex,
  \* main
  main,              \* where the main thread is
  shutdown_signal,   \* set by HandleShutdownSignal
  exit_reason,       \* what ObserveSupervisorExit found
  stop_status,       \* the result of controller.Stop(5000ms)
  exit_code          \* what main returns

(* What handlers do under operations_mutex_: controller methods and access *)
(* to the configuration repository.                                        *)
ControllerMethods == {"Start", "Stop", "Restart", "status"}
HandlerOperations == ControllerMethods \cup {"config"}

Controller == INSTANCE ProcessController
                WITH Threads <- Workers \cup {MainThread}

Api == INSTANCE ApiServer
         WITH Runners <- {ApiThread}, Stoppers <- {MainThread},
              Operations <- HandlerOperations

controllerVars == <<proc, wait_status, sent, shutdown_requested, lock,
                    child_pid, status, pid, pc, op, ret>>
apiVars == <<lifecycle_state, stop_requested, is_running, svr_sock, descriptor,
             run, stopping, queue, worker, request, operations_mutex>>
mainVars == <<main, shutdown_signal, exit_reason, stop_status, exit_code>>
vars == <<controllerVars, apiVars, mainVars>>

Init ==
  /\ Controller!Init
  /\ Api!Init
  /\ main = "start"
  /\ shutdown_signal = FALSE
  /\ exit_reason = "none"
  /\ stop_status = "none"
  /\ exit_code = 1

-----------------------------------------------------------------------------
(* The main thread *)

MainGoto(l) == main' = l

(* main is at l and its last call into controller or server has returned.  *)
MainAt(l) ==
  /\ main = l
  /\ pc[MainThread] = "idle"
  /\ stopping[MainThread] = "no"

(* The future of Run is ready. *)
ApiReady == run[ApiThread] \in Api!Returned

Observe(reason) ==
  /\ exit_reason' = reason
  /\ MainGoto("request_shutdown")

(* A daemon that does not start is reported and does not end main. *)
StartDaemon ==
  /\ MainAt("start")
  /\ Controller!Call(MainThread, "Start")
  /\ MainGoto("start_api")
  /\ UNCHANGED <<apiVars, shutdown_signal, exit_reason, stop_status,
                 exit_code>>

(* The constructor of std::thread may throw: nothing catches that, and the *)
(* process is aborted without a destructor.                                *)
StartApiThread ==
  /\ MainAt("start_api")
  /\ \/ MainGoto("loop")
     \/ ServerFaults /\ MainGoto("aborted")
  /\ UNCHANGED <<controllerVars, apiVars, shutdown_signal, exit_reason,
                 stop_status, exit_code>>

(* Mutant: the loop does not reap. *)
LoopNoReap ==
  /\ MainAt("loop")
  /\ MainGoto("look_api")
  /\ UNCHANGED <<controllerVars, apiVars, shutdown_signal, exit_reason,
                 stop_status, exit_code>>

LoopReap ==
  /\ MainAt("loop")
  /\ Controller!Call(MainThread, "ReapExited")
  /\ MainGoto("look_api")
  /\ UNCHANGED <<apiVars, shutdown_signal, exit_reason, stop_status,
                 exit_code>>

LookApi ==
  /\ MainAt("look_api")
  /\ IF ApiReady THEN Observe("kApiExit")
     ELSE MainGoto("look_signal") /\ UNCHANGED exit_reason
  /\ UNCHANGED <<controllerVars, apiVars, shutdown_signal, stop_status,
                 exit_code>>

(* Mutant: the server is stopped before the second look at its result. *)
LookSignalStops ==
  /\ MainAt("look_signal")
  /\ IF shutdown_signal
     THEN Api!Stop(MainThread) /\ MainGoto("look_api_again")
     ELSE MainGoto("loop") /\ UNCHANGED apiVars
  /\ UNCHANGED <<controllerVars, shutdown_signal, exit_reason, stop_status,
                 exit_code>>

LookSignal ==
  /\ MainAt("look_signal")
  /\ MainGoto(IF shutdown_signal THEN "look_api_again" ELSE "loop")
  /\ UNCHANGED <<controllerVars, apiVars, shutdown_signal, exit_reason,
                 stop_status, exit_code>>

(* An API exit that came before the signal was seen wins. *)
LookApiAgain ==
  /\ MainAt("look_api_again")
  /\ Observe(IF ApiReady THEN "kApiExit" ELSE "kSignal")
  /\ UNCHANGED <<controllerVars, apiVars, shutdown_signal, stop_status,
                 exit_code>>

(* Mutant: the controller is not told. *)
RequestShutdownForgotten ==
  /\ MainAt("request_shutdown")
  /\ MainGoto("stop_api")
  /\ UNCHANGED <<controllerVars, apiVars, shutdown_signal, exit_reason,
                 stop_status, exit_code>>

RequestShutdown ==
  /\ MainAt("request_shutdown")
  /\ Controller!RequestShutdown
  /\ MainGoto("stop_api")
  /\ UNCHANGED <<apiVars, shutdown_signal, exit_reason, stop_status,
                 exit_code>>

StopApi ==
  /\ MainAt("stop_api")
  /\ Api!Stop(MainThread)
  /\ MainGoto("stop_daemon")
  /\ UNCHANGED <<controllerVars, shutdown_signal, exit_reason, stop_status,
                 exit_code>>

StopDaemon ==
  /\ MainAt("stop_daemon")
  /\ Controller!Call(MainThread, "Stop")
  /\ MainGoto("reap")
  /\ UNCHANGED <<apiVars, shutdown_signal, exit_reason, stop_status,
                 exit_code>>

FinalReap ==
  /\ MainAt("reap")
  /\ stop_status' = ret[MainThread]
  /\ Controller!Call(MainThread, "ReapExited")
  /\ MainGoto("join")
  /\ UNCHANGED <<apiVars, shutdown_signal, exit_reason, exit_code>>

(* ClassifyApiExit(reason, api_status).ok() *)
ApiExitOk == exit_reason = "kSignal" /\ run[ApiThread] = "ok"

(* Mutant: the result of controller.Stop does not count. *)
JoinIgnoringStop ==
  /\ MainAt("join")
  /\ ApiReady
  /\ exit_code' = IF ApiExitOk THEN 0 ELSE 1
  /\ MainGoto("destroy_api")
  /\ UNCHANGED <<controllerVars, apiVars, shutdown_signal, exit_reason,
                 stop_status>>

(* Mutant: the API thread is not joined. *)
JoinNotWaiting ==
  /\ MainAt("join")
  /\ exit_code' = IF ApiExitOk /\ stop_status = "ok" THEN 0 ELSE 1
  /\ MainGoto("destroy_api")
  /\ UNCHANGED <<controllerVars, apiVars, shutdown_signal, exit_reason,
                 stop_status>>

Join ==
  /\ MainAt("join")
  /\ ApiReady
  /\ exit_code' = IF ApiExitOk /\ stop_status = "ok" THEN 0 ELSE 1
  /\ MainGoto("destroy_api")
  /\ UNCHANGED <<controllerVars, apiVars, shutdown_signal, exit_reason,
                 stop_status>>

(* ~ApiServer stops once more, then ~ProcessController. *)
DestroyApi ==
  /\ MainAt("destroy_api")
  /\ Api!Stop(MainThread)
  /\ MainGoto("destroy_controller")
  /\ UNCHANGED <<controllerVars, shutdown_signal, exit_reason, stop_status,
                 exit_code>>

DestroyController ==
  /\ MainAt("destroy_controller")
  /\ Controller!Destroy(MainThread)
  /\ MainGoto("destroying")
  /\ UNCHANGED <<apiVars, shutdown_signal, exit_reason, stop_status,
                 exit_code>>

Exit ==
  /\ main = "destroying"
  /\ pc[MainThread] = "destroyed"
  /\ MainGoto("exited")
  /\ UNCHANGED <<controllerVars, apiVars, shutdown_signal, exit_reason,
                 stop_status, exit_code>>

MainStep ==
  \/ StartDaemon \/ StartApiThread \/ LoopReap \/ LookApi \/ LookSignal
  \/ LookApiAgain \/ RequestShutdown \/ StopApi \/ StopDaemon \/ FinalReap
  \/ Join \/ DestroyApi \/ DestroyController \/ Exit

(* SIGINT or SIGTERM arrives; the handlers are installed before all else.  *)
HandleShutdownSignal ==
  /\ main \notin {"exited", "aborted"}
  /\ ~ shutdown_signal
  /\ shutdown_signal' = TRUE
  /\ UNCHANGED <<controllerVars, apiVars, main, exit_reason, stop_status,
                 exit_code>>

-----------------------------------------------------------------------------
(* Controller, server and handlers *)

ControllerStep(t) ==
  /\ Controller!Step(t)
  /\ UNCHANGED <<apiVars, mainVars>>

ChildEnds(p) ==
  /\ Controller!ChildEnds(p)
  /\ UNCHANGED <<apiVars, mainVars>>

(* The handler has operations_mutex_ and calls the controller ... *)
BeginOperation(w) ==
  /\ Api!EnterOperation(w)
  /\ IF request[w] \in ControllerMethods
     THEN Controller!Call(w, request[w])
     ELSE UNCHANGED controllerVars
  /\ UNCHANGED mainVars

(* ... and releases it after the call has returned. *)
EndOperation(w) ==
  /\ pc[w] = "idle"
  /\ Api!LeaveOperation(w)
  /\ UNCHANGED <<controllerVars, mainVars>>

(* The new thread enters Run, maybe only after main has called Stop. *)
EnterRun ==
  /\ main \notin {"start", "start_api", "aborted"}
  /\ Api!RunGate(ApiThread)
  /\ UNCHANGED <<controllerVars, mainVars>>

ServerStep ==
  /\ \/ Api!RunStep(ApiThread) \/ Api!Accept(ApiThread)
     \/ Api!AcceptBreaks(ApiThread)
     \/ \E x \in {ApiThread, MainThread} : Api!StopStep(x)
     \/ \E w \in Workers :
          \/ Api!TakeJob(w) \/ Api!CloseConnection(w)
          \/ \E o \in HandlerOperations : Api!Request(w, o)
  /\ UNCHANGED <<controllerVars, mainVars>>

(* The process is over; what is left of a child is no concern of ours.     *)
Terminated == main \in {"exited", "aborted"} /\ UNCHANGED vars

Next ==
  \/ MainStep
  \/ HandleShutdownSignal
  \/ \E t \in Workers \cup {MainThread} : ControllerStep(t)
  \/ \E p \in Pids : ChildEnds(p)
  \/ \E w \in Workers : BeginOperation(w) \/ EndOperation(w)
  \/ EnterRun
  \/ ServerStep
  \/ Terminated

Spec == Init /\ [][Next]_vars

(* Threads run, but accept need not return; a killed child ends; a thread  *)
(* that waits for a mutex gets it in the end.  A worker serves what was    *)
(* accepted and each connection ends in spite of further requests on it:   *)
(* httplib answers at most 100 of them per connection and waits for each   *)
(* read no longer than its timeout.  Nothing makes clients, signals or an  *)
(* unkilled daemon move.                                                   *)
Idle == UNCHANGED <<controllerVars, mainVars>>

Fairness ==
  /\ WF_vars(MainStep)
  /\ WF_vars(EnterRun)
  /\ \A t \in Workers \cup {MainThread} :
       /\ WF_vars(pc[t] \in Controller!Held /\ ControllerStep(t))
       /\ SF_vars(pc[t] = "acquire" /\ ControllerStep(t))
  /\ \A p \in Pids : WF_vars("SIGKILL" \in sent[p] /\ ChildEnds(p))
  /\ WF_vars(Api!RunStep(ApiThread) /\ Idle)
  /\ \A x \in {ApiThread, MainThread} : WF_vars(Api!StopStep(x) /\ Idle)
  /\ \A w \in Workers :
       /\ WF_vars(Api!TakeJob(w) /\ Idle)
       /\ SF_vars(Api!CloseConnection(w) /\ Idle)
       /\ SF_vars(BeginOperation(w))
       /\ WF_vars(EndOperation(w))

LiveSpec == Spec /\ Fairness

-----------------------------------------------------------------------------
(* Properties *)

(* The variables of main have their types. *)
MainTypeOK ==
  /\ main \in {"start", "start_api", "loop", "look_api", "look_signal",
               "look_api_again", "request_shutdown", "stop_api",
               "stop_daemon", "reap", "join", "destroy_api",
               "destroy_controller", "destroying", "exited", "aborted"}
  /\ shutdown_signal \in BOOLEAN
  /\ exit_reason \in {"none", "kApiExit", "kSignal"}
  /\ stop_status \in Controller!Results
  /\ exit_code \in {0, 1}

(* From the moment controller.Stop(5000ms) has returned Ok to main there   *)
(* is no daemon any more, whatever start and restart requests were in      *)
(* flight, queued or accepted when the shutdown began.                     *)
NoRevival == stop_status = "ok" => Controller!NoChild

(* Exit code 0 tells the truth: a signal asked for it, the API server      *)
(* ended cleanly, and no daemon is left behind.  Unless a system call      *)
(* fails, no return from main leaves a daemon behind, whatever it returns. *)
CleanExit ==
  main = "exited" =>
    /\ exit_code = 0 =>
         shutdown_signal /\ run[ApiThread] = "ok" /\ Controller!NoChild
    /\ ~ SyscallFaults => Controller!NoChild

(* Our own Stop is never taken for a failure: the Ok that Run returns to   *)
(* it does not reach ClassifyApiExit with the reason kApiExit, so the      *)
(* supervisor never says "API server exited unexpectedly".                 *)
OwnStopIsNoFailure ==
  exit_reason = "kApiExit" => run[ApiThread] # "ok"

(* When controller and server are destroyed nobody else is inside them.    *)
NoUseAfterDestroy ==
  main \in {"destroy_api", "destroy_controller", "destroying", "exited"} =>
    /\ \A w \in Workers : /\ worker[w] = "idle"
                          /\ pc[w] \in {"idle", "destroyed"}
    /\ queue = 0

(* A signal ends the supervisor, and so does the end of its API server:    *)
(* requests in flight, a daemon that ignores SIGTERM, and threads that     *)
(* wait for each other's mutexes do not keep it. This is the build with    *)
(* NDEBUG, where nothing but a thread that cannot be started aborts it; in *)
(* a default build the assertion of the run api_assert can do so as well.  *)
ShutdownCompletes ==
  shutdown_signal \/ ApiReady ~> main \in {"exited", "aborted"}

(* A daemon that died is waited for, without anybody asking for it, as     *)
(* long as there is a supervisor.                                          *)
DeathNoticed ==
  \A p \in Pids : proc[p] = "zombie" ~> proc[p] # "zombie" \/ main = "aborted"
=============================================================================
