-------------------------- MODULE WindowsController --------------------------
(***************************************************************************)
(* The Windows half of src/supervisor/process_controller.cc: the same      *)
(* methods as in ProcessController, on a process handle.  A method is cut  *)
(* at its calls of the Windows API and at its loads of the flag.  A        *)
(* process stands for the object its handle names; TerminateProcess only   *)
(* begins the end of a process, and fails when it has ended already.       *)
(***************************************************************************)
EXTENDS Naturals

CONSTANTS
  Threads, NoThread,
  Processes, NoProcess,  \* NoProcess: process_handle_ is null
  ExitCodes,             \* DWORDs a process may end with
  WaitFaults,            \* WaitForSingleObject may fail
  OtherFaults            \* CreateProcess, TerminateProcess, ... may fail

kTerminatedExitCode == 1

ASSUME WindowsControllerAssumption ==
  /\ NoThread \notin Threads
  /\ NoProcess \notin Processes
  /\ ExitCodes \subseteq Nat /\ kTerminatedExitCode \in ExitCodes
  /\ WaitFaults \in BOOLEAN /\ OtherFaults \in BOOLEAN

VARIABLES
  proc, exit_code, doomed,  \* the kernel: state, exit code, TerminateProcess succeeded
  open,                     \* the processes the supervisor has a handle of
  process_handle, state,    \* process_handle_, status_.state
  shutdown_requested, lock, pc, op, ret,
  wait_failed               \* a reaping WaitForSingleObject has failed

kernel == <<proc, exit_code, doomed>>
member == <<open, process_handle, state, wait_failed>>
vars == <<kernel, member, shutdown_requested, lock, pc, op, ret>>

Init ==
  /\ proc = [p \in Processes |-> "none"]
  /\ exit_code = [p \in Processes |-> 0]
  /\ doomed = {}
  /\ open = {}
  /\ process_handle = NoProcess
  /\ state = "kStopped"
  /\ shutdown_requested = FALSE
  /\ lock = NoThread
  /\ pc = [t \in Threads |-> "idle"]
  /\ op = [t \in Threads |-> "status"]
  /\ ret = [t \in Threads |-> "none"]
  /\ wait_failed = FALSE

-----------------------------------------------------------------------------

(* The daemon ends, by itself or because of TerminateProcess. *)
ProcessEnds(p) ==
  /\ proc[p] = "live"
  /\ proc' = [proc EXCEPT ![p] = "exited"]
  /\ \E c \in ExitCodes : exit_code' = [exit_code EXCEPT ![p] = c]
  /\ UNCHANGED <<doomed, member, shutdown_requested, lock, pc, op, ret>>

CloseHandle == open' = open \ {process_handle} /\ process_handle' = NoProcess

(* The verdict, and the end of a process object nobody has a handle of.    *)
Settle(verdict) ==
  /\ CloseHandle
  /\ state' = verdict
  /\ proc' = IF proc[process_handle] = "exited"
             THEN [proc EXCEPT ![process_handle] = "none"] ELSE proc
  /\ UNCHANGED <<exit_code, doomed>>

(* Mutant: only GetExitCodeProcess is asked; 259 is STILL_ACTIVE. *)
ReapStillActive ==
  IF state # "kRunning" \/ process_handle = NoProcess
  THEN UNCHANGED <<kernel, member>>
  ELSE /\ IF proc[process_handle] = "live" \/ exit_code[process_handle] = 259
          THEN UNCHANGED <<kernel, open, process_handle, state>>
          ELSE Settle(IF exit_code[process_handle] = 0 THEN "kStopped" ELSE "kCrashed")
       /\ UNCHANGED wait_failed

(* Mutant: the handle is kept for the next Start to overwrite. *)
ReapLeaks ==
  IF state # "kRunning" \/ process_handle = NoProcess
  THEN UNCHANGED <<kernel, member>>
  ELSE /\ IF proc[process_handle] = "exited"
          THEN state' = IF exit_code[process_handle] = 0 THEN "kStopped" ELSE "kCrashed"
          ELSE UNCHANGED state
       /\ UNCHANGED <<kernel, open, process_handle, wait_failed>>

ReapExitedUnlocked ==
  IF state # "kRunning" \/ process_handle = NoProcess
  THEN UNCHANGED <<kernel, member>>
  ELSE \/ proc[process_handle] = "live" /\ UNCHANGED <<kernel, member>>
       \/ WaitFaults /\ Settle("kCrashed") /\ wait_failed' = TRUE
       \/ /\ proc[process_handle] = "exited"
          /\ \/ Settle(IF exit_code[process_handle] = 0 THEN "kStopped" ELSE "kCrashed")
             \/ OtherFaults /\ Settle("kCrashed")
          /\ UNCHANGED wait_failed

-----------------------------------------------------------------------------
(* Control *)

Goto(t, l) == pc' = [pc EXCEPT ![t] = l] /\ UNCHANGED <<shutdown_requested, lock, op>>
Continue(t, l) == Goto(t, l) /\ UNCHANGED ret
Return(t, r) == Goto(t, "unlock") /\ ret' = [ret EXCEPT ![t] = r]

Call(t, m) ==
  /\ pc[t] = "idle"
  /\ pc' = [pc EXCEPT ![t] = "acquire"]
  /\ op' = [op EXCEPT ![t] = m]
  /\ UNCHANGED <<kernel, member, shutdown_requested, lock, ret>>

Destroy(t) ==
  /\ \A u \in Threads : pc[u] = "idle"
  /\ pc' = [u \in Threads |-> IF u = t THEN "acquire" ELSE "destroyed"]
  /\ op' = [op EXCEPT ![t] = "Destroy"]
  /\ UNCHANGED <<kernel, member, shutdown_requested, lock, ret>>

Entry(m) ==
  CASE m = "Start" -> "start_gate"
    [] m = "Restart" -> "restart_gate1"
    [] m = "status" -> "reap"
    [] m = "Stop" -> "stop_reap"
    [] OTHER -> IF state = "kRunning" THEN "stop_reap" ELSE "close"

Acquire(t) ==
  /\ pc[t] = "acquire"
  /\ lock = NoThread
  /\ lock' = t
  /\ pc' = [pc EXCEPT ![t] = Entry(op[t])]
  /\ ret' = [ret EXCEPT ![t] = "none"]
  /\ UNCHANGED <<kernel, member, shutdown_requested, op>>

Unlock(t) ==
  /\ pc[t] = "unlock"
  /\ lock' = NoThread
  /\ pc' = [pc EXCEPT ![t] = IF op[t] = "Destroy" THEN "destroyed" ELSE "idle"]
  /\ UNCHANGED <<kernel, member, shutdown_requested, op, ret>>

RequestShutdown ==
  /\ \E t \in Threads : pc[t] # "destroyed"
  /\ shutdown_requested' = TRUE
  /\ UNCHANGED <<kernel, member, lock, pc, op, ret>>

(* ReapExited() and status() *)
Reap(t) == pc[t] = "reap" /\ ReapExitedUnlocked /\ Continue(t, "unlock")

(* A load of the flag. *)
Gate(t, here, next) ==
  /\ pc[t] = here
  /\ IF shutdown_requested THEN Return(t, "shutting down") ELSE Continue(t, next)
  /\ UNCHANGED <<kernel, member>>

-----------------------------------------------------------------------------
(* StartUnlocked *)

StartGate(t) == Gate(t, "start_gate", "start_reap")

StartReap(t) ==
  /\ pc[t] = "start_reap"
  /\ ReapExitedUnlocked
  /\ IF state' = "kRunning" THEN Return(t, "already running") ELSE Continue(t, "start_create")

CreateProcess(t) ==
  /\ pc[t] = "start_create"
  /\ \E p \in Processes \ open :
       /\ proc[p] # "live"
       /\ proc' = [proc EXCEPT ![p] = "live"]
       /\ exit_code' = [exit_code EXCEPT ![p] = 0]
       /\ doomed' = doomed \ {p}
       /\ open' = open \cup {p}
       /\ process_handle' = p
  /\ Continue(t, "start_running")
  /\ UNCHANGED <<state, wait_failed>>

(* Also a path that ToWideString refuses; nothing is left (a bound of the  *)
(* model: the processes may all be in use).                                *)
CreateFails(t) ==
  /\ pc[t] = "start_create"
  /\ OtherFaults \/ \A p \in Processes \ open : proc[p] = "live"
  /\ Return(t, "error")
  /\ UNCHANGED <<kernel, member>>

StartRunning(t) ==
  /\ pc[t] = "start_running"
  /\ state' = "kRunning"
  /\ Return(t, "ok")
  /\ UNCHANGED <<kernel, open, process_handle, wait_failed>>

-----------------------------------------------------------------------------
(* StopUnlocked returns r: Restart goes on after Ok, the destructor closes *)
(* the handle in any case.                                                 *)
FinishStop(t, r) ==
  CASE op[t] = "Restart" /\ r = "ok" -> Continue(t, "restart_gate2")
    [] op[t] = "Destroy" -> Continue(t, "close")
    [] OTHER -> Return(t, r)

StopReap(t) ==
  /\ pc[t] = "stop_reap"
  /\ ReapExitedUnlocked
  /\ IF state' = "kRunning" THEN Continue(t, "stop_terminate") ELSE FinishStop(t, "ok")

TerminateProcess(t) ==
  /\ pc[t] = "stop_terminate"
  /\ \/ /\ proc[process_handle] = "live"
        /\ doomed' = doomed \cup {process_handle}
        /\ Continue(t, "stop_wait")
        /\ UNCHANGED <<proc, exit_code>>
     \/ /\ proc[process_handle] # "live" \/ OtherFaults
        /\ FinishStop(t, "error")
        /\ UNCHANGED kernel
  /\ UNCHANGED member

(* Mutant: a timeout counts as the end. *)
StopWaitTimedOut(t) ==
  /\ pc[t] = "stop_wait"
  /\ Settle("kStopped")
  /\ FinishStop(t, "ok")
  /\ UNCHANGED wait_failed

(* The process may outlive the timeout although it is terminating. *)
StopWait(t) ==
  /\ pc[t] = "stop_wait"
  /\ \/ /\ proc[process_handle] = "exited"
        /\ Settle("kStopped")
        /\ FinishStop(t, "ok")
        /\ UNCHANGED wait_failed
     \/ /\ proc[process_handle] = "live" \/ WaitFaults
        /\ FinishStop(t, "error")
        /\ UNCHANGED <<kernel, member>>

RestartGate1(t) == Gate(t, "restart_gate1", "stop_reap")
RestartGate2(t) == Gate(t, "restart_gate2", "start_gate")

(* The end of the destructor. *)
CloseLast(t) ==
  /\ pc[t] = "close"
  /\ CloseHandle
  /\ Continue(t, "unlock")
  /\ UNCHANGED <<kernel, state, wait_failed>>

-----------------------------------------------------------------------------

Step(t) ==
  \/ Acquire(t) \/ Unlock(t) \/ Reap(t)
  \/ StartGate(t) \/ StartReap(t) \/ CreateProcess(t) \/ CreateFails(t)
  \/ StartRunning(t)
  \/ StopReap(t) \/ TerminateProcess(t) \/ StopWait(t)
  \/ RestartGate1(t) \/ RestartGate2(t) \/ CloseLast(t)

Next ==
  \/ \E t \in Threads : Step(t)
  \/ \E t \in Threads, m \in {"Start", "Stop", "Restart", "status"} : Call(t, m)
  \/ \E t \in Threads : Destroy(t)
  \/ RequestShutdown
  \/ \E p \in Processes : ProcessEnds(p)

Spec == Init /\ [][Next]_vars

-----------------------------------------------------------------------------
(* Properties *)

(* Every variable has its type, and the mutex is held exactly by the       *)
(* thread inside a method, from its first step to its last.                *)
WindowsTypeOK ==
  /\ proc \in [Processes -> {"none", "live", "exited"}]
  /\ exit_code \in [Processes -> ExitCodes \cup {0}]
  /\ doomed \subseteq Processes
  /\ open \subseteq Processes
  /\ process_handle \in Processes \cup {NoProcess}
  /\ state \in {"kStopped", "kRunning", "kCrashed"}
  /\ lock \in Threads \cup {NoThread}
  /\ \A t \in Threads : lock = t <=> pc[t] \notin {"idle", "acquire", "destroyed"}
  /\ ret \in [Threads -> {"none", "ok", "error", "shutting down", "already running"}]

(* The handle is neither leaked nor used after it was closed: what is open *)
(* is what process_handle_ names, between two methods it is set exactly    *)
(* while the state is kRunning, and the destructor leaves nothing open.    *)
HandleOwned ==
  /\ open = {process_handle} \ {NoProcess}
  /\ lock = NoThread /\ (\A t \in Threads : pc[t] # "destroyed") =>
       (process_handle # NoProcess <=> state = "kRunning")
  /\ (\A t \in Threads : pc[t] = "destroyed") => open = {}

(* As long as no wait has failed there is one daemon, and one that runs    *)
(* without a handle has been told to terminate: timeouts and every other   *)
(* failing call keep it under control.  The destructor alone gives up a    *)
(* daemon that TerminateProcess refused to end.                            *)
DaemonControlled ==
  ~ wait_failed =>
    \A p \in Processes : proc[p] = "live" =>
      /\ \/ p \in open \/ p \in doomed
         \/ OtherFaults /\ \E t \in Threads : op[t] = "Destroy"
      /\ \A q \in Processes : proc[q] = "live" => p = q

(* A verdict is given only to a daemon that has ended, and the right one:  *)
(* kCrashed not to one that returned 0 (unless its exit code could not be  *)
(* read), kStopped not to one that failed and was never terminated.        *)
VerdictTrue ==
  [][ state = "kRunning" /\ state' # "kRunning" /\ ~ wait_failed' =>
        /\ proc[process_handle] = "exited"
        /\ state' = "kCrashed" => exit_code[process_handle] # 0 \/ OtherFaults
        /\ state' = "kStopped" =>
             exit_code[process_handle] = 0 \/ process_handle \in doomed ]_vars

(* A daemon that has ended is noticed by the next call, also when it ended *)
(* with 259, which GetExitCodeProcess answers for a running process.       *)
EndIsNoticed ==
  [][ \A t \in Threads :
        pc[t] = "reap" /\ pc'[t] = "unlock" /\ process_handle # NoProcess
        /\ proc[process_handle] = "exited" => state' # "kRunning" ]_vars

(* Both: whether the daemon has ended is answered exactly.                 *)
VerdictExact == VerdictTrue /\ EndIsNoticed

(* The promise of the POSIX half, kept as long as no wait fails. *)
Slot == INSTANCE DaemonSlot WITH
  AutoReap <- FALSE,
  closed <- shutdown_requested,
  admitted <- \E t \in Threads : pc[t] \in {"start_reap", "start_create"},
  daemon <- IF \E p \in Processes : proc[p] = "live" THEN "alive"
            ELSE IF \E p \in Processes : proc[p] = "exited" THEN "ended"
            ELSE "absent",
  verdict <- state

(* Every behaviour of this controller is one of DaemonSlot too, up to a    *)
(* wait that fails: that one takes a live daemon for a crashed one.        *)
ImplementsSlot ==
  Slot!SlotInit /\ [][wait_failed' \/ Slot!SlotNext]_(Slot!slot)
=============================================================================
