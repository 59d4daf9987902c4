---------------------------- MODULE DaemonProcess ----------------------------
(***************************************************************************)
(* One daemon process from fork to its end: the child branch of            *)
(* ProcessController::StartUnlocked, then apps/opcua-daemon/main.cc with   *)
(* its signal monitor thread and OpcuaServer::Run.                         *)
(*                                                                         *)
(* SIGTERM and SIGINT may arrive at any moment of it, from the supervisor  *)
(* or from elsewhere.  The configuration repository and open62541 are      *)
(* external: each of their calls returns, with success or an error, and    *)
(* UA_Server_run_iterate returns in bounded time.                          *)
(***************************************************************************)
EXTENDS Naturals

CONSTANT Faults      \* sigaction, sigprocmask, execv, std::thread may fail

ASSUME DaemonProcessAssumption == Faults \in BOOLEAN

Signals == {"SIGTERM", "SIGINT"}

VARIABLES
  original_mask,          \* signals blocked in the supervisor before Start
  mask,                   \* signals blocked in this process
  disposition,            \* of each signal
  pending,                \* signals sent and not yet delivered
  sent,                   \* signals that were ever sent
  g_shutdown_requested,   \* the flag of the current image
  running,                \* the atomic flag Run looks at
  pc,                     \* the main thread
  monitor,                \* the thread signal_monitor
  server,                 \* the UA_Server
  run_status,             \* what Run returned
  ended                   \* how the process ended

signals == <<mask, disposition, pending, g_shutdown_requested>>
vars == <<original_mask, mask, disposition, pending, sent,
          g_shutdown_requested, running, pc, monitor, server, run_status,
          ended>>

(* Before execv, and from main of the daemon on. *)
Forked == {"reset_term", "reset_int", "unmask", "execv"}
Main == {"signal_int", "signal_term", "open", "initialize", "load", "thread",
         "validate", "new", "minimal", "startup", "iterate", "shutdown",
         "delete", "store", "join", "return"}

(* The child starts with both signals blocked and the supervisor's handler *)
(* and flag, which a signal to the supervisor may have set already.        *)
Init ==
  /\ original_mask \in SUBSET Signals
  /\ mask = Signals
  /\ disposition = [s \in Signals |-> "supervisor"]
  /\ pending = {}
  /\ sent = {}
  /\ g_shutdown_requested \in BOOLEAN
  /\ running = TRUE
  /\ pc = "reset_term"
  /\ monitor = "none"
  /\ server = "none"
  /\ run_status = "none"
  /\ ended = "no"

-----------------------------------------------------------------------------
(* Signals *)

End(how) == ended' = how /\ pc' = "ended"

Send(s) ==
  /\ ended = "no"
  /\ pending' = pending \cup {s}
  /\ sent' = sent \cup {s}
  /\ UNCHANGED <<original_mask, mask, disposition, g_shutdown_requested,
                 running, pc, monitor, server, run_status, ended>>

(* Both handlers, the supervisor's and the daemon's, only set their flag.  *)
Deliver(s) ==
  /\ ended = "no"
  /\ s \in pending \ mask
  /\ pending' = pending \ {s}
  /\ IF disposition[s] = "SIG_DFL"
     THEN End("killed") /\ UNCHANGED g_shutdown_requested
     ELSE g_shutdown_requested' = TRUE /\ UNCHANGED <<pc, ended>>
  /\ UNCHANGED <<original_mask, mask, disposition, sent, running, monitor,
                 server, run_status>>

Killed ==
  /\ ended = "no"
  /\ End("killed")
  /\ UNCHANGED <<original_mask, signals, sent, running, monitor, server,
                 run_status>>

-----------------------------------------------------------------------------
(* The child branch of StartUnlocked *)

(* sigaction(s, SIG_DFL), or _exit(126) *)
ResetSignal(s, here, there) ==
  /\ pc = here
  /\ \/ /\ disposition' = [disposition EXCEPT ![s] = "SIG_DFL"]
        /\ pc' = there
        /\ UNCHANGED ended
     \/ Faults /\ End("126") /\ UNCHANGED disposition
  /\ UNCHANGED <<original_mask, mask, pending, sent, g_shutdown_requested,
                 running, monitor, server, run_status>>

ResetTerm == ResetSignal("SIGTERM", "reset_term", "reset_int")
ResetInt == ResetSignal("SIGINT", "reset_int", "unmask")

(* Mutant: the mask is left as the parent had set it for the fork. *)
UnmaskForgotten ==
  /\ pc = "unmask"
  /\ pc' = "execv"
  /\ UNCHANGED <<original_mask, signals, sent, running, monitor, server,
                 run_status, ended>>

Unmask ==
  /\ pc = "unmask"
  /\ \/ mask' = original_mask /\ pc' = "execv" /\ UNCHANGED ended
     \/ Faults /\ End("126") /\ UNCHANGED mask
  /\ UNCHANGED <<original_mask, disposition, pending, sent,
                 g_shutdown_requested, running, monitor, server, run_status>>

(* execv keeps the mask, what is pending and SIG_DFL; the memory is new. *)
Execv ==
  /\ pc = "execv"
  /\ \/ /\ g_shutdown_requested' = FALSE
        /\ disposition' = [s \in Signals |-> "SIG_DFL"]
        /\ pc' = "signal_int"
        /\ UNCHANGED ended
     \/ Faults /\ End("127") /\ UNCHANGED <<g_shutdown_requested, disposition>>
  /\ UNCHANGED <<original_mask, mask, pending, sent, running, monitor, server,
                 run_status>>

-----------------------------------------------------------------------------
(* main of the daemon *)

HandleSignal(s, here, there) ==
  /\ pc = here
  /\ disposition' = [disposition EXCEPT ![s] = "daemon"]
  /\ pc' = there
  /\ UNCHANGED <<original_mask, mask, pending, sent, g_shutdown_requested,
                 running, monitor, server, run_status, ended>>

HandleInt == HandleSignal("SIGINT", "signal_int", "signal_term")
HandleTerm == HandleSignal("SIGTERM", "signal_term", "open")

(* ConfigRepository::Open, Initialize, Load: an error is printed, exit 1. *)
UseRepository ==
  /\ \E step \in {<<"open", "initialize">>, <<"initialize", "load">>,
                  <<"load", "thread">>} :
       /\ pc = step[1]
       /\ \/ pc' = step[2] /\ UNCHANGED ended
          \/ End("1")
  /\ UNCHANGED <<original_mask, signals, sent, running, monitor, server,
                 run_status>>

(* An exception of std::thread is not caught: terminate, SIGABRT. *)
StartMonitor ==
  /\ pc = "thread"
  /\ \/ monitor' = "loop" /\ pc' = "validate" /\ UNCHANGED ended
     \/ Faults /\ End("aborted") /\ UNCHANGED monitor
  /\ UNCHANGED <<original_mask, signals, sent, running, server, run_status>>

(* Both flags only ever change once, so reading them in one step or in two *)
(* only differs in another round of the loop.                              *)
MonitorEnds ==
  /\ monitor = "loop"
  /\ ended = "no"
  /\ ~ running \/ g_shutdown_requested
  /\ running' = FALSE
  /\ monitor' = "done"
  /\ UNCHANGED <<original_mask, signals, sent, pc, server, run_status, ended>>

-----------------------------------------------------------------------------
(* OpcuaServer::Run *)

(* A local of Run is destroyed when it returns: a UA_Server is deleted. *)
RunReturns(status) == run_status' = status /\ pc' = "delete"

ValidateConfig ==
  /\ pc = "validate"
  /\ \/ pc' = "new" /\ UNCHANGED run_status
     \/ RunReturns("error")
  /\ UNCHANGED <<original_mask, signals, sent, running, monitor, server,
                 ended>>

(* UA_Server_new, UA_ServerConfig_setMinimal, UA_Server_run_startup *)
SetUpServer ==
  /\ \E step \in {<<"new", "minimal", "new">>, <<"minimal", "startup", "new">>,
                  <<"startup", "iterate", "started">>} :
       /\ pc = step[1]
       /\ \/ pc' = step[2] /\ server' = step[3] /\ UNCHANGED run_status
          \/ RunReturns("error") /\ UNCHANGED server
  /\ UNCHANGED <<original_mask, signals, sent, running, monitor, ended>>

(* The loop calls UA_Server_run_iterate until the flag is down. *)
IterateEnds ==
  /\ pc = "iterate"
  /\ ~ running
  /\ pc' = "shutdown"
  /\ UNCHANGED <<original_mask, signals, sent, running, monitor, server,
                 run_status, ended>>

(* ServerShutdown::Shutdown, once: its destructor then finds no server. *)
Shutdown ==
  /\ pc = "shutdown"
  /\ server' = "shut down"
  /\ \E status \in {"ok", "error"} : RunReturns(status)
  /\ UNCHANGED <<original_mask, signals, sent, running, monitor, ended>>

(* UA_Server_delete: a server that was not shut down leaks its sockets. *)
DeleteServer ==
  /\ pc = "delete"
  /\ server' = IF server = "started" THEN "leaked" ELSE "none"
  /\ pc' = "store"
  /\ UNCHANGED <<original_mask, signals, sent, running, monitor, run_status,
                 ended>>

(* Mutant: the monitor is not told that Run has returned. *)
StoreForgotten ==
  /\ pc = "store"
  /\ pc' = "join"
  /\ UNCHANGED <<original_mask, signals, sent, running, monitor, server,
                 run_status, ended>>

StoreRunning ==
  /\ pc = "store"
  /\ running' = FALSE
  /\ pc' = "join"
  /\ UNCHANGED <<original_mask, signals, sent, monitor, server, run_status,
                 ended>>

(* Mutant: a thread that is not joined. *)
JoinDetached ==
  /\ pc = "join"
  /\ pc' = "return"
  /\ UNCHANGED <<original_mask, signals, sent, running, monitor, server,
                 run_status, ended>>

JoinMonitor ==
  /\ pc = "join"
  /\ monitor = "done"
  /\ monitor' = "joined"
  /\ pc' = "return"
  /\ UNCHANGED <<original_mask, signals, sent, running, server, run_status,
                 ended>>

(* Mutant: the result of Run is ignored. *)
ReturnZero ==
  /\ pc = "return"
  /\ End("0")
  /\ UNCHANGED <<original_mask, signals, sent, running, monitor, server,
                 run_status>>

ReturnFromMain ==
  /\ pc = "return"
  /\ End(IF run_status = "ok" THEN "0" ELSE "1")
  /\ UNCHANGED <<original_mask, signals, sent, running, monitor, server,
                 run_status>>

-----------------------------------------------------------------------------

MainStep ==
  \/ ResetTerm \/ ResetInt \/ Unmask \/ Execv
  \/ HandleInt \/ HandleTerm \/ UseRepository \/ StartMonitor
  \/ ValidateConfig \/ SetUpServer \/ IterateEnds \/ Shutdown \/ DeleteServer
  \/ StoreRunning \/ JoinMonitor \/ ReturnFromMain

Next ==
  \/ MainStep
  \/ MonitorEnds
  \/ \E s \in Signals : Send(s) \/ Deliver(s)
  \/ Killed

Spec == Init /\ [][Next]_vars

(* Threads run and the kernel delivers signals that are not blocked. *)
LiveSpec ==
  /\ Spec
  /\ WF_vars(MainStep)
  /\ WF_vars(MonitorEnds)
  /\ \A s \in Signals : WF_vars(Deliver(s))

-----------------------------------------------------------------------------
(* Properties *)

(* Every variable has its type; no server is ever leaked. *)
DaemonTypeOK ==
  /\ original_mask \in SUBSET Signals
  /\ mask \in SUBSET Signals
  /\ disposition \in [Signals -> {"supervisor", "SIG_DFL", "daemon"}]
  /\ pending \in SUBSET Signals
  /\ sent \in SUBSET Signals
  /\ g_shutdown_requested \in BOOLEAN
  /\ running \in BOOLEAN
  /\ pc \in Forked \cup Main \cup {"ended"}
  /\ monitor \in {"none", "loop", "done", "joined"}
  /\ server \in {"none", "new", "started", "shut down"}
  /\ run_status \in {"none", "ok", "error"}
  /\ ended \in {"no", "killed", "aborted", "0", "1", "126", "127"}

(* Exit code 0, which the supervisor takes for a wanted end, is only ever  *)
(* returned to a signal, and never for a server that could not start.      *)
ZeroOnlyOnRequest ==
  ended = "0" => sent # {} /\ run_status = "ok"

(* A daemon that returns from main has shut its OPC UA server down and     *)
(* deleted it, and its monitor thread, which uses a local of main, is      *)
(* over.                                                                   *)
ReturnsClean ==
  ended \in {"0", "1"} => server = "none" /\ monitor \in {"none", "joined"}

(* SIGTERM ends the daemon at whatever point of its start it arrives: in   *)
(* the copy of the supervisor, across execv, before and after the          *)
(* handlers are installed, and while the server starts.                    *)
SignalEnds ==
  \A s \in Signals : s \in sent \ original_mask ~> ended # "no"

(* A daemon whose server fails to start ends by itself, so that the        *)
(* supervisor can see it: main does not wait for ever for its monitor.     *)
FailedRunEnds == run_status = "error" ~> ended # "no"
=============================================================================
