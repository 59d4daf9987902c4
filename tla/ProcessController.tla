-------------------------- MODULE ProcessController --------------------------
(***************************************************************************)
(* The POSIX half of src/supervisor/process_controller.cc: one             *)
(* ProcessController object, the threads that call it (the supervisor's    *)
(* main thread and the HTTP workers), and the part of the kernel it talks  *)
(* to (fork, kill, waitpid, the process table).                            *)
(*                                                                         *)
(* Every public method but RequestShutdown runs under mutex_, so the steps *)
(* below split a method only where something outside the mutex can         *)
(* interleave: a system call, or a load of the atomic shutdown_requested_. *)
(*                                                                         *)
(* The child is an arbitrary program: it may end at any moment with any    *)
(* wait status and it may ignore SIGTERM for ever.  Time is abstracted: at *)
(* any round of the polling loop of StopUnlocked the deadline may be over. *)
(***************************************************************************)
EXTENDS Integers

CONSTANTS
  Threads,        \* callers of the controller
  Pids,           \* process ids the kernel hands out, reused once free
  NoThread,       \* mutex_ is free
  NoPid,          \* the value -1 of child_pid_
  ExitCodes,      \* codes a child may return from main
  EndSignals,     \* signals a child may be terminated by
  AutoReap,       \* SIGCHLD was inherited as SIG_IGN: no zombies, ECHILD
  SyscallFaults   \* kill, waitpid, fork, pthread_sigmask may fail

ASSUME ProcessControllerAssumption ==
  /\ NoThread \notin Threads
  /\ NoPid \notin Pids
  /\ 0 \in ExitCodes
  /\ ExitCodes \subseteq Nat
  /\ EndSignals \subseteq Nat \ {0}
  /\ AutoReap \in BOOLEAN
  /\ SyscallFaults \in BOOLEAN

VARIABLES
  proc,                 \* process table: state of each pid
  wait_status,          \* what waitpid reports of a zombie
  sent,                 \* signals the controller sent to the pid's process
  shutdown_requested,   \* shutdown_requested_, atomic, outside the mutex
  lock,                 \* holder of mutex_
  child_pid,            \* child_pid_
  status,               \* status_
  pid,                  \* the local pid of StartUnlocked, after fork
  pc,                   \* where each thread is
  op,                   \* the method it is in
  ret                   \* the Status its last method returned

kernel == <<proc, wait_status, sent>>
member == <<child_pid, status>>
vars == <<proc, wait_status, sent, shutdown_requested, lock, child_pid,
          status, pid, pc, op, ret>>

-----------------------------------------------------------------------------
(* Types *)

ProcessState == {"kStopped", "kRunning", "kCrashed"}

WaitStatus == [kind : {"exited"}, code : ExitCodes]
                \cup [kind : {"signaled"}, code : EndSignals]

NoWaitStatus == [kind |-> "exited", code |-> 0]

ProcessStatus ==
  [state : ProcessState, exit_code : Nat,
   diagnostic : {"", "process stopped", "process running",
                 "exited unexpectedly", "terminated by signal",
                 "signal mask restore failure", "waitpid failure"}]

Methods == {"Start", "Stop", "Restart", "ReapExited", "status", "Destroy"}
Results == {"none", "ok", "error", "shutting down", "already running"}

(* Control points of a thread inside the mutex. *)
Held == {"start_gate", "start_reap", "start_fork", "start_restore",
         "start_abort", "start_abort_wait", "stop_reap", "stop_term",
         "stop_poll", "stop_kill", "stop_wait", "restart_gate1",
         "restart_gate2", "reap", "unlock"}

Init ==
  /\ proc = [p \in Pids |-> "free"]
  /\ wait_status = [p \in Pids |-> NoWaitStatus]
  /\ sent = [p \in Pids |-> {}]
  /\ shutdown_requested = FALSE
  /\ lock = NoThread
  /\ child_pid = NoPid
  /\ status = [state |-> "kStopped", exit_code |-> 0, diagnostic |-> ""]
  /\ pid = NoPid
  /\ pc = [t \in Threads |-> "idle"]
  /\ op = [t \in Threads |-> "status"]
  /\ ret = [t \in Threads |-> "none"]

-----------------------------------------------------------------------------
(* The kernel, as the calls in this file use it. *)

(* A child of the supervisor that has not been waited for. *)
Own(p) == proc[p] \in {"live", "zombie"}

(* waitpid(p, ...): the pid, 0 (WNOHANG) or blocking, or ECHILD. *)
WaitPid(p) == IF proc[p] = "zombie" THEN "exited"
              ELSE IF proc[p] = "live" THEN "running"
              ELSE "ECHILD"

(* kill(p, s): ESRCH on a free pid, otherwise the signal is on its way. *)
Kill(p, s) ==
  /\ sent' = IF proc[p] = "free" THEN sent
             ELSE [sent EXCEPT ![p] = @ \cup {s}]
  /\ UNCHANGED <<proc, wait_status>>

(* waitpid returned p: the zombie is gone and the pid may be reused. *)
Collect(p) ==
  /\ proc' = [proc EXCEPT ![p] = "free"]
  /\ wait_status' = [wait_status EXCEPT ![p] = NoWaitStatus]
  /\ sent' = [sent EXCEPT ![p] = {}]

(* A child ends: by itself, by its handler, or by a signal. *)
ChildEnds(p) ==
  /\ proc[p] = "live"
  /\ IF AutoReap
     THEN Collect(p)
     ELSE /\ \E ws \in WaitStatus :
               wait_status' = [wait_status EXCEPT ![p] = ws]
          /\ proc' = [proc EXCEPT ![p] = "zombie"]
          /\ sent' = sent
  /\ UNCHANGED <<shutdown_requested, lock, member, pid, pc, op, ret>>

(* Unrelated processes take and release pids. *)
OtherProcess(p) ==
  /\ \/ proc[p] = "free" /\ proc' = [proc EXCEPT ![p] = "foreign"]
     \/ proc[p] = "foreign" /\ proc' = [proc EXCEPT ![p] = "free"]
  /\ sent' = [sent EXCEPT ![p] = {}]
  /\ UNCHANGED <<wait_status, shutdown_requested, lock, member, pid, pc, op,
                 ret>>

-----------------------------------------------------------------------------
(* Helpers of the controller *)

Goto(t, l) == pc' = [pc EXCEPT ![t] = l]

Return(t, r) == Goto(t, "unlock") /\ ret' = [ret EXCEPT ![t] = r]

(* Mutant: the state is not reset. *)
StoppedStillRunning == [state |-> "kRunning", exit_code |-> 0,
                        diagnostic |-> "process stopped"]

Stopped == [state |-> "kStopped", exit_code |-> 0,
            diagnostic |-> "process stopped"]

Running(why) == [state |-> "kRunning", exit_code |-> 0, diagnostic |-> why]

(* Mutant: only exit codes count, not signals. *)
DecodeExitCodeOnly(ws, expected) ==
  [state |-> IF ~ expected /\ ws.kind = "exited" /\ ws.code # 0
             THEN "kCrashed" ELSE "kStopped",
   exit_code |-> ws.code, diagnostic |-> "process stopped"]

(* The third branch of the code, a status that is neither exited nor       *)
(* signaled, needs WUNTRACED or WCONTINUED, which no waitpid here passes.  *)
DecodeExitedStatus(ws, expected) ==
  IF expected \/ (ws.kind = "exited" /\ ws.code = 0)
  THEN [state |-> "kStopped", exit_code |-> ws.code,
        diagnostic |-> "process stopped"]
  ELSE [state |-> "kCrashed", exit_code |-> ws.code,
        diagnostic |-> IF ws.kind = "exited" THEN "exited unexpectedly"
                       ELSE "terminated by signal"]

ReapExitedUnlocked ==
  IF status.state # "kRunning" \/ child_pid = NoPid
  THEN UNCHANGED <<kernel, member>>
  ELSE \/ /\ WaitPid(child_pid) = "running" \/ SyscallFaults
          /\ UNCHANGED <<kernel, member>>
       \/ /\ WaitPid(child_pid) = "exited"
          /\ status' = DecodeExitedStatus(wait_status[child_pid], FALSE)
          /\ child_pid' = NoPid
          /\ Collect(child_pid)
       \/ /\ WaitPid(child_pid) = "ECHILD"
          /\ status' = Stopped
          /\ child_pid' = NoPid
          /\ UNCHANGED kernel

-----------------------------------------------------------------------------
(* Entry and exit of the public methods *)

Call(t, m) ==
  /\ pc[t] = "idle"
  /\ op' = [op EXCEPT ![t] = m]
  /\ Goto(t, "acquire")
  /\ UNCHANGED <<kernel, shutdown_requested, lock, member, pid, ret>>

(* The destructor runs when nobody else can use the object any more. *)
Destroy(t) ==
  /\ \A u \in Threads : pc[u] = "idle"
  /\ op' = [op EXCEPT ![t] = "Destroy"]
  /\ pc' = [u \in Threads |-> IF u = t THEN "acquire" ELSE "destroyed"]
  /\ UNCHANGED <<kernel, shutdown_requested, lock, member, pid, ret>>

Entry(m) == IF m = "Start" THEN "start_gate"
            ELSE IF m = "Restart" THEN "restart_gate1"
            ELSE IF m \in {"ReapExited", "status"} THEN "reap"
            ELSE IF m = "Stop" \/ status.state = "kRunning" THEN "stop_reap"
            ELSE "unlock"

Acquire(t) ==
  /\ pc[t] = "acquire"
  /\ lock = NoThread
  /\ lock' = t
  /\ Goto(t, Entry(op[t]))
  /\ ret' = [ret EXCEPT ![t] = "none"]
  /\ UNCHANGED <<kernel, shutdown_requested, member, pid, op>>

Unlock(t) ==
  /\ pc[t] = "unlock"
  /\ lock' = NoThread
  /\ Goto(t, IF op[t] = "Destroy" THEN "destroyed" ELSE "idle")
  /\ UNCHANGED <<kernel, shutdown_requested, member, pid, op, ret>>

RequestShutdown ==
  /\ \E t \in Threads : pc[t] # "destroyed"
  /\ shutdown_requested' = TRUE
  /\ UNCHANGED <<kernel, lock, member, pid, pc, op, ret>>

(* ReapExited() and status(). *)
Reap(t) ==
  /\ pc[t] = "reap"
  /\ ReapExitedUnlocked
  /\ Goto(t, "unlock")
  /\ UNCHANGED <<shutdown_requested, lock, pid, op, ret>>

-----------------------------------------------------------------------------
(* StartUnlocked *)

(* Mutant: the flag is not looked at. *)
StartGateOpen(t) ==
  /\ pc[t] = "start_gate"
  /\ Goto(t, "start_reap")
  /\ UNCHANGED <<kernel, shutdown_requested, lock, member, pid, op, ret>>

StartGate(t) ==
  /\ pc[t] = "start_gate"
  /\ IF shutdown_requested
     THEN Return(t, "shutting down")
     ELSE Goto(t, "start_reap") /\ UNCHANGED ret
  /\ UNCHANGED <<kernel, shutdown_requested, lock, member, pid, op>>

(* Mutant: no check for a daemon that is running already. *)
StartReapUnchecked(t) ==
  /\ pc[t] = "start_reap"
  /\ ReapExitedUnlocked
  /\ Goto(t, "start_fork")
  /\ UNCHANGED <<shutdown_requested, lock, pid, op, ret>>

StartReap(t) ==
  /\ pc[t] = "start_reap"
  /\ ReapExitedUnlocked
  /\ IF status'.state = "kRunning"
     THEN Return(t, "already running")
     ELSE Goto(t, "start_fork") /\ UNCHANGED ret
  /\ UNCHANGED <<shutdown_requested, lock, pid, op>>

(* The signal mask cannot be prepared or blocked, or fork fails; fork      *)
(* always fails (EAGAIN) when there is no pid left.                        *)
ForkFails(t) ==
  /\ pc[t] = "start_fork"
  /\ SyscallFaults \/ \A p \in Pids : proc[p] # "free"
  /\ Return(t, "error")
  /\ UNCHANGED <<kernel, shutdown_requested, lock, member, pid, op>>

Fork(t) ==
  /\ pc[t] = "start_fork"
  /\ \E p \in Pids :
       /\ proc[p] = "free"
       /\ proc' = [proc EXCEPT ![p] = "live"]
       /\ sent' = [sent EXCEPT ![p] = {}]
       /\ pid' = p
  /\ Goto(t, "start_restore")
  /\ UNCHANGED <<wait_status, shutdown_requested, lock, member, op, ret>>

(* Mutant: the child is dropped when StartUnlocked fails. *)
AdoptUnlessError(t, why, r) ==
  /\ IF r = "ok" THEN child_pid' = pid /\ status' = Running(why)
     ELSE UNCHANGED member
  /\ Return(t, r)
  /\ UNCHANGED kernel

(* child_pid_ = pid and status_ = running, with either outcome. *)
Adopt(t, why, r) ==
  /\ child_pid' = pid
  /\ status' = Running(why)
  /\ Return(t, r)
  /\ UNCHANGED kernel

RestoreMask(t) ==
  /\ pc[t] = "start_restore"
  /\ \/ Adopt(t, "process running", "ok")
     \/ /\ SyscallFaults
        /\ Goto(t, "start_abort")
        /\ UNCHANGED <<kernel, member, ret>>
  /\ UNCHANGED <<shutdown_requested, lock, pid, op>>

(* The mask was not restored: kill the new child ... *)
AbortKill(t) ==
  /\ pc[t] = "start_abort"
  /\ \/ /\ Kill(pid, "SIGKILL")
        /\ Goto(t, "start_abort_wait")
        /\ UNCHANGED <<member, ret>>
     \/ SyscallFaults /\ Adopt(t, "signal mask restore failure", "error")
  /\ UNCHANGED <<shutdown_requested, lock, pid, op>>

(* ... and wait for it, blocking. *)
AbortWait(t) ==
  /\ pc[t] = "start_abort_wait"
  /\ \/ /\ WaitPid(pid) = "exited"
        /\ Collect(pid)
        /\ Return(t, "error")
        /\ UNCHANGED member
     \/ /\ WaitPid(pid) = "ECHILD"
        /\ Return(t, "error")
        /\ UNCHANGED <<kernel, member>>
     \/ SyscallFaults /\ Adopt(t, "waitpid failure", "error")
  /\ UNCHANGED <<shutdown_requested, lock, pid, op>>

-----------------------------------------------------------------------------
(* StopUnlocked *)

(* Mutant: errors of kill and waitpid are ignored. *)
FinishStopOk(t, r) ==
  IF op[t] = "Restart" THEN Goto(t, "restart_gate2") /\ UNCHANGED ret
  ELSE Return(t, "ok")

(* StopUnlocked returns r: Restart goes on after Ok. *)
FinishStop(t, r) ==
  IF op[t] = "Restart" /\ r = "ok"
  THEN Goto(t, "restart_gate2") /\ UNCHANGED ret
  ELSE Return(t, r)

StopReap(t) ==
  /\ pc[t] = "stop_reap"
  /\ ReapExitedUnlocked
  /\ IF status'.state = "kRunning"
     THEN Goto(t, "stop_term") /\ UNCHANGED ret
     ELSE FinishStop(t, "ok")
  /\ UNCHANGED <<shutdown_requested, lock, pid, op>>

(* kill(child_pid_, s): ESRCH is not an error. *)
StopSignal(t, s, next) ==
  /\ \/ Kill(child_pid, s) /\ Goto(t, next) /\ UNCHANGED ret
     \/ SyscallFaults /\ FinishStop(t, "error") /\ UNCHANGED kernel
  /\ UNCHANGED <<shutdown_requested, lock, member, pid, op>>

StopTerm(t) == pc[t] = "stop_term" /\ StopSignal(t, "SIGTERM", "stop_poll")

(* One round of the polling loop that does not find the child running. *)
StopPoll(t) ==
  /\ pc[t] = "stop_poll"
  /\ \/ /\ WaitPid(child_pid) = "exited"
        /\ status' = DecodeExitedStatus(wait_status[child_pid], TRUE)
        /\ child_pid' = NoPid
        /\ Collect(child_pid)
        /\ FinishStop(t, "ok")
     \/ /\ WaitPid(child_pid) = "ECHILD"
        /\ status' = Stopped
        /\ child_pid' = NoPid
        /\ FinishStop(t, "ok")
        /\ UNCHANGED kernel
     \/ /\ SyscallFaults
        /\ FinishStop(t, "error")
        /\ UNCHANGED <<kernel, member>>
  /\ UNCHANGED <<shutdown_requested, lock, pid, op>>

(* Mutant: the deadline passes and the child is waited for unkilled. *)
PollDeadlineNoKill(t) ==
  /\ pc[t] = "stop_poll"
  /\ Goto(t, "stop_wait")
  /\ UNCHANGED <<kernel, shutdown_requested, lock, member, pid, op, ret>>

PollDeadline(t) ==
  /\ pc[t] = "stop_poll"
  /\ Goto(t, "stop_kill")
  /\ UNCHANGED <<kernel, shutdown_requested, lock, member, pid, op, ret>>

StopKill(t) == pc[t] = "stop_kill" /\ StopSignal(t, "SIGKILL", "stop_wait")

(* The blocking waitpid after SIGKILL; EINTR tries again. *)
StopWait(t) ==
  /\ pc[t] = "stop_wait"
  /\ \/ /\ WaitPid(child_pid) # "running"
        /\ IF WaitPid(child_pid) = "exited" THEN Collect(child_pid)
           ELSE UNCHANGED kernel
        /\ child_pid' = NoPid
        /\ status' = Stopped
        /\ FinishStop(t, "ok")
     \/ /\ SyscallFaults
        /\ FinishStop(t, "error")
        /\ UNCHANGED <<kernel, member>>
  /\ UNCHANGED <<shutdown_requested, lock, pid, op>>

-----------------------------------------------------------------------------
(* Restart: two loads of the flag, then StartUnlocked with its own. *)

RestartGate1(t) ==
  /\ pc[t] = "restart_gate1"
  /\ IF shutdown_requested
     THEN Return(t, "shutting down")
     ELSE Goto(t, "stop_reap") /\ UNCHANGED ret
  /\ UNCHANGED <<kernel, shutdown_requested, lock, member, pid, op>>

RestartGate2(t) ==
  /\ pc[t] = "restart_gate2"
  /\ IF shutdown_requested
     THEN Return(t, "shutting down")
     ELSE Goto(t, "start_gate") /\ UNCHANGED ret
  /\ UNCHANGED <<kernel, shutdown_requested, lock, member, pid, op>>

-----------------------------------------------------------------------------
(* A step of the method thread t is in. *)
Step(t) ==
  \/ Acquire(t) \/ Unlock(t) \/ Reap(t)
  \/ StartGate(t) \/ StartReap(t) \/ ForkFails(t) \/ Fork(t)
  \/ RestoreMask(t) \/ AbortKill(t) \/ AbortWait(t)
  \/ StopReap(t) \/ StopTerm(t) \/ StopPoll(t) \/ PollDeadline(t)
  \/ StopKill(t) \/ StopWait(t)
  \/ RestartGate1(t) \/ RestartGate2(t)

Next ==
  \/ \E t \in Threads : Step(t)
  \/ \E t \in Threads, m \in Methods \ {"Destroy"} : Call(t, m)
  \/ \E t \in Threads : Destroy(t)
  \/ RequestShutdown
  \/ \E p \in Pids : ChildEnds(p) \/ OtherProcess(p)

Spec == Init /\ [][Next]_vars

(* A thread inside the mutex keeps running; a child that was sent SIGKILL  *)
(* ends.  Nothing is assumed of a child that was only sent SIGTERM, nor of *)
(* callers, nor of a thread that waits for the mutex.                      *)
Fairness ==
  /\ \A t \in Threads : WF_vars(Step(t) /\ pc[t] \in Held)
  /\ \A p \in Pids : WF_vars("SIGKILL" \in sent[p] /\ ChildEnds(p))

LiveSpec == Spec /\ Fairness

-----------------------------------------------------------------------------
(* Properties *)

(* Every variable has its type.  exit_code is an exit code or a signal.    *)
TypeOK ==
  /\ proc \in [Pids -> {"free", "live", "zombie", "foreign"}]
  /\ wait_status \in [Pids -> WaitStatus]
  /\ sent \in [Pids -> SUBSET {"SIGTERM", "SIGKILL"}]
  /\ shutdown_requested \in BOOLEAN
  /\ lock \in Threads \cup {NoThread}
  /\ child_pid \in Pids \cup {NoPid}
  /\ status \in ProcessStatus
  /\ pid \in Pids \cup {NoPid}
  /\ pc \in [Threads -> Held \cup {"idle", "acquire", "destroyed"}]
  /\ op \in [Threads -> Methods]
  /\ ret \in [Threads -> Results]

NoChild == \A p \in Pids : ~ Own(p)

(* However Start, Stop, Restart and the failing paths of StartUnlocked     *)
(* interleave, the supervisor never has two daemons: a child is forked     *)
(* only once the one before it has been waited for.                        *)
OneDaemon == \A p, q \in Pids : Own(p) /\ Own(q) => p = q

(* No path out of a method loses a child: whenever the mutex is free, a    *)
(* child that has not been waited for is the one child_pid_ names, and     *)
(* status_ says kRunning, so a later Stop or the destructor will end it.   *)
NoLostChild ==
  lock = NoThread =>
    \A p \in Pids : Own(p) => p = child_pid /\ status.state = "kRunning"

(* kill() is never called with pid -1 (which signals every process) and,   *)
(* unless the kernel reaps children by itself, never with the pid of a     *)
(* process that is not our own unreaped child: the pid that StopUnlocked   *)
(* and the abort path of StartUnlocked signal cannot have been reused.     *)
KillTargetsOwnChild ==
  \A t \in Threads :
    /\ pc[t] \in {"stop_term", "stop_kill"} =>
         child_pid # NoPid /\ (AutoReap \/ Own(child_pid))
    /\ pc[t] = "start_abort" => pid # NoPid /\ (AutoReap \/ Own(pid))

(* What a method reports is so when it returns: Stop with Ok (and the      *)
(* destructor, unless a system call failed) leaves no child at all; Start  *)
(* and Restart with Ok leave a child that is owned.                        *)
ResultsTruthful ==
  \A t \in Threads : pc[t] = "unlock" =>
    /\ op[t] = "Stop" /\ ret[t] = "ok" => NoChild
    /\ op[t] = "Destroy" /\ ret[t] # "error" => NoChild
    /\ op[t] \in {"Start", "Restart"} /\ ret[t] = "ok" =>
         /\ child_pid # NoPid /\ status.state = "kRunning"
         /\ AutoReap \/ Own(child_pid)

(* The verdict on a daemon that is gone is right: it is kCrashed exactly   *)
(* when the process ended abnormally and nobody had asked it to stop.      *)
(* Holds when the kernel keeps zombies and system calls do not fail.       *)
CrashVerdict ==
  [][ ~ AutoReap /\ ~ SyscallFaults
      /\ status.state = "kRunning" /\ status'.state # "kRunning" =>
        (status'.state = "kCrashed" <=>
           /\ sent[child_pid] = {}
           /\ wait_status[child_pid] # NoWaitStatus) ]_vars

(* The supervisor's shutdown relies on this: once the flag is up and the   *)
(* mutex was seen free with no child, no Start or Restart, however late or *)
(* however far it had got, brings a daemon back.                           *)
ShutdownIsFinal ==
  [](shutdown_requested /\ lock = NoThread /\ NoChild => []NoChild)

(* mutex_ is always released again: Stop, Restart and the destructor end   *)
(* even when the child ignores SIGTERM for ever.                           *)
CriticalSectionEnds == \A t \in Threads : lock = t ~> lock # t

(* The controller implements the slot: the process table is seen as one    *)
(* daemon, and a launch is admitted from the last load of the shutdown     *)
(* flag to the fork.                                                       *)
Slot == INSTANCE DaemonSlot WITH
  closed <- shutdown_requested,
  admitted <- \E t \in Threads : pc[t] \in {"start_reap", "start_fork"},
  daemon <- IF \E p \in Pids : proc[p] = "live" THEN "alive"
            ELSE IF \E p \in Pids : proc[p] = "zombie" THEN "ended"
            ELSE "absent",
  verdict <- status.state

(* Every behaviour of the controller is a behaviour of DaemonSlot.         *)
ImplementsDaemonSlot == Slot!SlotSpec
=============================================================================
