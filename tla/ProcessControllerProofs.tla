---------------------- MODULE ProcessControllerProofs ----------------------
(***************************************************************************)
(* Proofs about ProcessController for any number of threads and pids, with *)
(* or without failing system calls and self-reaping children: its          *)
(* invariants, what a shutdown leaves, that it implements DaemonSlot, and  *)
(* that its verdict on a dead daemon is right.                             *)
(***************************************************************************)
EXTENDS ProcessController, TLAPS

-----------------------------------------------------------------------------
(* The inductive invariant *)

(* From fork to the end of StartUnlocked the child is known by pid only. *)
Launching == {"start_restore", "start_abort", "start_abort_wait"}
Starting == {"start_gate", "start_reap", "start_fork"} \cup Launching

(* Inside StopUnlocked, once the child was found running. *)
Stopping == {"stop_term", "stop_poll", "stop_kill", "stop_wait"}

(* The mutex excludes: the holder is the one thread inside a method. *)
MutexInv == \A t \in Threads : pc[t] \in Held <=> lock = t

(* A control point is reached only from the methods that contain it. *)
MethodInv ==
  \A t \in Threads :
    /\ pc[t] \in Starting => op[t] \in {"Start", "Restart"}
    /\ pc[t] \in Stopping \cup {"stop_reap"} =>
         op[t] \in {"Stop", "Restart", "Destroy"}
    /\ pc[t] \in {"restart_gate1", "restart_gate2"} => op[t] = "Restart"
    /\ pc[t] = "reap" => op[t] \in {"ReapExited", "status"}

(* status_ and child_pid_ agree, and without self-reaping child_pid_ names *)
(* a child that is still ours.                                             *)
MemberInv ==
  /\ status.state = "kRunning" <=> child_pid # NoPid
  /\ child_pid # NoPid => AutoReap \/ Own(child_pid)

(* The only child there can be is child_pid_, or pid while launching. *)
OwnInv ==
  /\ \A t \in Threads :
       /\ pc[t] \in Launching =>
            /\ pid \in Pids
            /\ AutoReap \/ Own(pid)
            /\ \A p \in Pids : Own(p) => p = pid
       /\ pc[t] \in Launching \cup {"start_fork"} => child_pid = NoPid
       /\ pc[t] \in Stopping => child_pid # NoPid
  /\ (\A t \in Threads : pc[t] \notin Launching) =>
       \A p \in Pids : Own(p) => p = child_pid

(* What the method found out is still so when it releases the mutex. *)
ReturnInv ==
  \A t \in Threads : pc[t] = "unlock" =>
    /\ op[t] = "Stop" /\ ret[t] = "ok" => child_pid = NoPid
    /\ op[t] = "Destroy" /\ ret[t] # "error" => child_pid = NoPid
    /\ op[t] \in {"Start", "Restart"} /\ ret[t] = "ok" => child_pid # NoPid

IInv == TypeOK /\ MutexInv /\ MethodInv /\ MemberInv /\ OwnInv /\ ReturnInv

-----------------------------------------------------------------------------
(* Lemmas on the helpers *)

(* A decoded status is well typed and is never kRunning. *)
LEMMA DecodeStatus ==
  ASSUME NEW ws \in WaitStatus, NEW expected \in BOOLEAN
  PROVE  /\ DecodeExitedStatus(ws, expected) \in ProcessStatus
         /\ DecodeExitedStatus(ws, expected).state # "kRunning"
  <1>1. ws.code \in Nat
    BY ProcessControllerAssumption DEF WaitStatus
  <1> QED
    BY <1>1 DEF DecodeExitedStatus, ProcessStatus, ProcessState

(* Collecting a child keeps the kernel's types and frees exactly one pid. *)
LEMMA CollectTypes ==
  ASSUME TypeOK, NEW p \in Pids, Collect(p)
  PROVE  /\ proc' \in [Pids -> {"free", "live", "zombie", "foreign"}]
         /\ wait_status' \in [Pids -> WaitStatus]
         /\ sent' \in [Pids -> SUBSET {"SIGTERM", "SIGKILL"}]
         /\ \A q \in Pids : proc'[q] = IF q = p THEN "free" ELSE proc[q]
  BY ProcessControllerAssumption DEF TypeOK, Collect, WaitStatus, NoWaitStatus

(* A signal keeps the kernel's types and touches no process state. *)
LEMMA KillTypes ==
  ASSUME TypeOK, NEW p \in Pids, NEW s \in {"SIGTERM", "SIGKILL"}, Kill(p, s)
  PROVE  /\ sent' \in [Pids -> SUBSET {"SIGTERM", "SIGKILL"}]
         /\ proc' = proc
         /\ wait_status' = wait_status
  BY DEF TypeOK, Kill

(* The child is gone and the controller forgets it. *)
Forgets ==
  /\ child_pid \in Pids
  /\ child_pid' = NoPid
  /\ status' \in ProcessStatus
  /\ status'.state # "kRunning"
  /\ \/ proc[child_pid] = "zombie" /\ Collect(child_pid)
     \/ ~ Own(child_pid) /\ UNCHANGED kernel

(* Forgetting a child, or doing nothing, keeps the types. *)
LEMMA ForgetsTypes ==
  ASSUME TypeOK, Forgets \/ UNCHANGED <<kernel, member>>
  PROVE  /\ proc' \in [Pids -> {"free", "live", "zombie", "foreign"}]
         /\ wait_status' \in [Pids -> WaitStatus]
         /\ sent' \in [Pids -> SUBSET {"SIGTERM", "SIGKILL"}]
         /\ child_pid' \in Pids \cup {NoPid}
         /\ status' \in ProcessStatus
  BY CollectTypes DEF Forgets, TypeOK, kernel, member

(* The record of a stopped daemon is well typed and not kRunning. *)
LEMMA StoppedType == Stopped \in ProcessStatus /\ Stopped.state # "kRunning"
  BY DEF Stopped, ProcessStatus, ProcessState

(* ReapExitedUnlocked changes nothing, or forgets a running child. *)
LEMMA ReapCases ==
  ASSUME TypeOK, ReapExitedUnlocked
  PROVE  \/ UNCHANGED <<kernel, member>>
         \/ Forgets /\ status.state = "kRunning"
  <1> USE DEF TypeOK
  <1>1. CASE status.state # "kRunning" \/ child_pid = NoPid
    BY <1>1 DEF ReapExitedUnlocked
  <1>2. CASE status.state = "kRunning" /\ child_pid # NoPid
    <2>1. child_pid \in Pids /\ wait_status[child_pid] \in WaitStatus
      BY <1>2
    <2>2. /\ DecodeExitedStatus(wait_status[child_pid], FALSE) \in ProcessStatus
          /\ DecodeExitedStatus(wait_status[child_pid], FALSE).state # "kRunning"
      BY <2>1, DecodeStatus
    <2> QED
      BY <1>2, <2>1, <2>2, StoppedType
      DEF ReapExitedUnlocked, WaitPid, Own, Forgets
  <1> QED BY <1>1, <1>2

(* Both waits of StopUnlocked fail and change nothing, or forget the child *)
(* and report Ok.                                                          *)
LEMMA StopCases ==
  ASSUME TypeOK, NEW t \in Threads, child_pid # NoPid,
         StopPoll(t) \/ StopWait(t)
  PROVE  /\ \/ UNCHANGED <<kernel, member>> /\ FinishStop(t, "error")
            \/ Forgets /\ FinishStop(t, "ok")
         /\ pc[t] \in {"stop_poll", "stop_wait"}
         /\ UNCHANGED <<shutdown_requested, lock, pid, op>>
  <1>1. child_pid \in Pids /\ wait_status[child_pid] \in WaitStatus
    BY DEF TypeOK
  <1>2. /\ DecodeExitedStatus(wait_status[child_pid], TRUE) \in ProcessStatus
        /\ DecodeExitedStatus(wait_status[child_pid], TRUE).state # "kRunning"
    BY <1>1, DecodeStatus
  <1>3. CASE StopPoll(t)
    BY <1>1, <1>2, <1>3, StoppedType DEF StopPoll, WaitPid, Own, Forgets
  <1>4. CASE StopWait(t)
    BY <1>1, <1>4, StoppedType DEF StopWait, WaitPid, Own, Forgets
  <1> QED BY <1>3, <1>4

-----------------------------------------------------------------------------
(* IInv is inductive *)

(* A new controller, with no child and a free mutex, satisfies IInv. *)
LEMMA InitIInv == Init => IInv
  <1> SUFFICES ASSUME Init PROVE IInv
    OBVIOUS
  <1> USE ProcessControllerAssumption DEF Init
  <1>1. NoWaitStatus \in WaitStatus
    BY DEF NoWaitStatus, WaitStatus
  <1>2. status \in ProcessStatus
    BY DEF ProcessStatus, ProcessState
  <1>3. TypeOK
    BY <1>1, <1>2 DEF TypeOK, Methods, Results
  <1>4. MutexInv /\ MethodInv /\ ReturnInv
    BY DEF MutexInv, MethodInv, ReturnInv, Held, Starting, Launching, Stopping
  <1>5. MemberInv /\ OwnInv
    BY DEF MemberInv, OwnInv, Launching, Stopping, Own
  <1> QED BY <1>3, <1>4, <1>5 DEF IInv

(* Every step keeps the types; IInv gives the pid that is waited for. *)
LEMMA TypeStep == TypeOK /\ IInv /\ [Next]_vars => TypeOK'
  <1> SUFFICES ASSUME TypeOK, IInv, [Next]_vars PROVE TypeOK'
    OBVIOUS
  <1> USE DEF TypeOK, Goto, Return, kernel, member, Methods, Results, Held
  <1>1. ASSUME NEW t \in Threads, NEW m \in Methods \ {"Destroy"}, Call(t, m)
        PROVE  TypeOK'
    BY <1>1 DEF Call
  <1>2. ASSUME NEW t \in Threads, Destroy(t) PROVE TypeOK'
    BY <1>2 DEF Destroy
  <1>3. CASE RequestShutdown
    BY <1>3 DEF RequestShutdown
  <1>4. ASSUME NEW p \in Pids, ChildEnds(p) PROVE TypeOK'
    BY <1>4, CollectTypes DEF ChildEnds
  <1>5. ASSUME NEW p \in Pids, OtherProcess(p) PROVE TypeOK'
    BY <1>5 DEF OtherProcess
  <1>6. ASSUME NEW t \in Threads, Acquire(t) PROVE TypeOK'
    BY <1>6 DEF Acquire, Entry
  <1>7. ASSUME NEW t \in Threads, Unlock(t) PROVE TypeOK'
    BY <1>7 DEF Unlock
  <1>8. ASSUME ReapExitedUnlocked
        PROVE  /\ proc' \in [Pids -> {"free", "live", "zombie", "foreign"}]
               /\ wait_status' \in [Pids -> WaitStatus]
               /\ sent' \in [Pids -> SUBSET {"SIGTERM", "SIGKILL"}]
               /\ child_pid' \in Pids \cup {NoPid}
               /\ status' \in ProcessStatus
    BY <1>8, ReapCases, ForgetsTypes
  <1>9. ASSUME NEW t \in Threads, Reap(t) PROVE TypeOK'
    BY <1>8, <1>9 DEF Reap
  <1>10. ASSUME NEW t \in Threads, StartGate(t) \/ ForkFails(t)
         PROVE  TypeOK'
    BY <1>10 DEF StartGate, ForkFails
  <1>11. ASSUME NEW t \in Threads, StartReap(t) PROVE TypeOK'
    BY <1>8, <1>11 DEF StartReap
  <1>12. ASSUME NEW t \in Threads, Fork(t) PROVE TypeOK'
    BY <1>12 DEF Fork
  <1>13. ASSUME NEW t \in Threads, NEW r \in Results,
                NEW why \in {"process running", "signal mask restore failure",
                             "waitpid failure"},
                Adopt(t, why, r), UNCHANGED <<shutdown_requested, lock, pid, op>>
         PROVE  TypeOK'
    BY <1>13 DEF Adopt, Running, ProcessStatus, ProcessState
  <1>14. ASSUME NEW t \in Threads, RestoreMask(t) PROVE TypeOK'
    BY <1>13, <1>14 DEF RestoreMask
  <1>15. ASSUME NEW t \in Threads, AbortKill(t) PROVE TypeOK'
    BY <1>13, <1>15, KillTypes
    DEF AbortKill, IInv, OwnInv, Launching
  <1>16. ASSUME NEW t \in Threads, AbortWait(t) PROVE TypeOK'
    BY <1>13, <1>16, CollectTypes
    DEF AbortWait, IInv, OwnInv, Launching
  <1>17. ASSUME NEW t \in Threads, StopReap(t) PROVE TypeOK'
    BY <1>8, <1>17 DEF StopReap, FinishStop
  <1>18. ASSUME NEW t \in Threads, StopTerm(t) \/ StopKill(t) PROVE TypeOK'
    BY <1>18, KillTypes
    DEF StopTerm, StopKill, StopSignal, FinishStop, IInv, OwnInv, Stopping
  <1>19. ASSUME NEW t \in Threads, PollDeadline(t) PROVE TypeOK'
    BY <1>19 DEF PollDeadline
  <1>20. ASSUME NEW t \in Threads, StopPoll(t) \/ StopWait(t) PROVE TypeOK'
    <2>1. child_pid # NoPid
      BY <1>20 DEF StopPoll, StopWait, IInv, OwnInv, Stopping
    <2>2. /\ Forgets \/ UNCHANGED <<kernel, member>>
          /\ FinishStop(t, "ok") \/ FinishStop(t, "error")
          /\ UNCHANGED <<shutdown_requested, lock, pid, op>>
      BY <1>20, <2>1, StopCases
    <2>3. /\ pc' \in [Threads -> Held \cup {"idle", "acquire", "destroyed"}]
          /\ ret' \in [Threads -> Results]
      BY <2>2 DEF FinishStop
    <2> HIDE DEF kernel, member
    <2> QED
      BY <2>2, <2>3, ForgetsTypes
  <1>21. ASSUME NEW t \in Threads, RestartGate1(t) \/ RestartGate2(t)
         PROVE  TypeOK'
    BY <1>21 DEF RestartGate1, RestartGate2
  <1>22. CASE UNCHANGED vars
    BY <1>22 DEF vars
  <1> QED
    BY <1>1, <1>2, <1>3, <1>4, <1>5, <1>6, <1>7, <1>9, <1>10, <1>11, <1>12,
       <1>14, <1>15, <1>16, <1>17, <1>18, <1>19, <1>20, <1>21, <1>22
    DEF Next, Step

(* The steps outside the mutex: callers, RequestShutdown, the kernel. *)
LEMMA OutsideStep ==
  ASSUME IInv, TypeOK',
         \/ \E t \in Threads, m \in Methods \ {"Destroy"} : Call(t, m)
         \/ \E t \in Threads : Destroy(t)
         \/ RequestShutdown
         \/ \E p \in Pids : ChildEnds(p) \/ OtherProcess(p)
         \/ UNCHANGED vars
  PROVE  IInv'
  <1> USE DEF IInv, TypeOK, kernel, member
  <1>1. ASSUME NEW t \in Threads, NEW m \in Methods \ {"Destroy"}, Call(t, m)
        PROVE  IInv'
    <2> USE <1>1 DEF Call, Goto
    <2>1. MutexInv' /\ MethodInv' /\ ReturnInv'
      BY DEF MutexInv, MethodInv, ReturnInv, Held, Starting, Launching, Stopping
    <2>2. MemberInv'
      BY DEF MemberInv, Own
    <2>3. OwnInv'
      BY DEF OwnInv, Own, Launching, Stopping
    <2> QED BY <2>1, <2>2, <2>3
  <1>2. ASSUME NEW t \in Threads, Destroy(t) PROVE IInv'
    <2> USE <1>2 DEF Destroy
    <2>1. MutexInv' /\ MethodInv' /\ ReturnInv'
      BY DEF MutexInv, MethodInv, ReturnInv, Held, Starting, Launching, Stopping
    <2>2. MemberInv'
      BY DEF MemberInv, Own
    <2>3. OwnInv'
      BY DEF OwnInv, Own, Launching, Stopping
    <2> QED BY <2>1, <2>2, <2>3
  <1>3. CASE RequestShutdown
    BY <1>3 DEF RequestShutdown, MutexInv, MethodInv, ReturnInv, MemberInv,
       OwnInv, Own
  <1>4. ASSUME NEW p \in Pids, ChildEnds(p) PROVE IInv'
    <2>1. \A q \in Pids : /\ Own(q)' => Own(q)
                          /\ ~ AutoReap => (Own(q) => Own(q)')
      BY <1>4 DEF ChildEnds, Collect, Own
    <2>2. UNCHANGED <<lock, child_pid, status, pid, pc, op, ret>>
      BY <1>4 DEF ChildEnds
    <2> QED
      BY <2>1, <2>2, ProcessControllerAssumption
      DEF MutexInv, MethodInv, ReturnInv, MemberInv, OwnInv
  <1>5. ASSUME NEW p \in Pids, OtherProcess(p) PROVE IInv'
    <2>1. \A q \in Pids : Own(q)' <=> Own(q)
      BY <1>5 DEF OtherProcess, Own
    <2>2. UNCHANGED <<lock, child_pid, status, pid, pc, op, ret>>
      BY <1>5 DEF OtherProcess
    <2> QED
      BY <2>1, <2>2
      DEF MutexInv, MethodInv, ReturnInv, MemberInv, OwnInv
  <1>6. CASE UNCHANGED vars
    BY <1>6 DEF vars, MutexInv, MethodInv, ReturnInv, MemberInv, OwnInv, Own
  <1> QED BY <1>1, <1>2, <1>3, <1>4, <1>5, <1>6

(* What IInv' asks of the holder alone, once it has gone to l. *)
HolderInv(t, l) ==
  /\ MemberInv
  /\ l \in Launching =>
       /\ pid \in Pids
       /\ AutoReap \/ Own(pid)
       /\ \A p \in Pids : Own(p) => p = pid
  /\ l \in Launching \cup {"start_fork"} => child_pid = NoPid
  /\ l \in Stopping => child_pid # NoPid
  /\ l \notin Launching => \A p \in Pids : Own(p) => p = child_pid
  /\ l = "unlock" =>
       /\ op[t] = "Stop" /\ ret[t] = "ok" => child_pid = NoPid
       /\ op[t] = "Destroy" /\ ret[t] # "error" => child_pid = NoPid
       /\ op[t] \in {"Start", "Restart"} /\ ret[t] = "ok" => child_pid # NoPid

(* A control point a method may go to. *)
Within(l, m) ==
  /\ l \in Held
  /\ l \in Starting => m \in {"Start", "Restart"}
  /\ l \in Stopping \cup {"stop_reap"} => m \in {"Stop", "Restart", "Destroy"}
  /\ l \in {"restart_gate1", "restart_gate2"} => m = "Restart"
  /\ l = "reap" => m \in {"ReapExited", "status"}

(* The holder's point of view: it is alone inside the mutex. *)
LEMMA HolderBefore ==
  ASSUME IInv, NEW t \in Threads, pc[t] \in Held
  PROVE  HolderInv(t, pc[t]) /\ Within(pc[t], op[t]) /\ lock = t
  <1> USE DEF IInv
  <1>1. lock = t
    BY DEF MutexInv
  <1>2. \A u \in Threads : u # t => pc[u] \notin Launching
    BY <1>1 DEF MutexInv, Held, Launching
  <1>3. HolderInv(t, pc[t])
    BY <1>2 DEF HolderInv, OwnInv, ReturnInv
  <1>4. Within(pc[t], op[t])
    BY DEF Within, MethodInv
  <1> QED BY <1>1, <1>3, <1>4

(* A step of the holder of the mutex keeps IInv if it keeps the part of   *)
(* it that concerns the holder.                                            *)
LEMMA HolderAfter ==
  ASSUME IInv, TypeOK', NEW t \in Threads, pc[t] \in Held,
         NEW l, Goto(t, l), Within(l, op[t]),
         UNCHANGED <<lock, op>>, HolderInv(t, l)'
  PROVE  IInv'
  <1> USE DEF IInv
  <1>1. lock = t /\ \A u \in Threads \ {t} : pc[u] \notin Held
    BY DEF MutexInv
  <1>2. pc'[t] = l /\ \A u \in Threads \ {t} : pc'[u] = pc[u]
    BY DEF Goto, TypeOK
  <1>3. MutexInv'
    BY <1>1, <1>2 DEF MutexInv, Within
  <1>4. MethodInv'
    BY <1>1, <1>2 DEF MethodInv, Within
  <1>5. MemberInv'
    BY DEF HolderInv
  <1>6. \A u \in Threads \ {t} :
          pc'[u] \notin Launching \cup Stopping \cup {"start_fork", "unlock"}
    BY <1>1, <1>2 DEF Held, Launching, Stopping
  <1>7. OwnInv'
    <2>1. ASSUME NEW u \in Threads
          PROVE  (/\ pc[u] \in Launching =>
                       /\ pid \in Pids
                       /\ AutoReap \/ Own(pid)
                       /\ \A p \in Pids : Own(p) => p = pid
                  /\ pc[u] \in Launching \cup {"start_fork"} => child_pid = NoPid
                  /\ pc[u] \in Stopping => child_pid # NoPid)'
      BY <1>2, <1>6 DEF HolderInv
    <2>2. ((\A u \in Threads : pc[u] \notin Launching) =>
             \A p \in Pids : Own(p) => p = child_pid)'
      BY <1>2 DEF HolderInv
    <2> QED BY <2>1, <2>2 DEF OwnInv
  <1>8. ReturnInv'
    BY <1>2, <1>6 DEF HolderInv, ReturnInv
  <1> QED BY <1>3, <1>4, <1>5, <1>7, <1>8

(* Forgetting a child that is gone leaves no child. *)
LEMMA ForgetsKeeps ==
  ASSUME TypeOK, Forgets, \A p \in Pids : Own(p) => p = child_pid
  PROVE  /\ MemberInv'
         /\ child_pid' = NoPid
         /\ \A p \in Pids : ~ Own(p)'
  <1>1. CASE proc[child_pid] = "zombie" /\ Collect(child_pid)
    <2>1. \A p \in Pids : proc'[p] = IF p = child_pid THEN "free" ELSE proc[p]
      BY <1>1, CollectTypes DEF Forgets
    <2> QED BY <2>1 DEF Forgets, Own, MemberInv
  <1>2. CASE ~ Own(child_pid) /\ UNCHANGED kernel
    BY <1>2 DEF Forgets, Own, MemberInv, kernel
  <1> QED BY <1>1, <1>2 DEF Forgets

(* ReapExitedUnlocked outside of a launch. *)
LEMMA ReapKeeps ==
  ASSUME TypeOK, MemberInv, ReapExitedUnlocked,
         \A p \in Pids : Own(p) => p = child_pid
  PROVE  /\ MemberInv'
         /\ \A p \in Pids : Own(p)' => p = child_pid'
         /\ status'.state = "kRunning" <=> child_pid' # NoPid
  <1>1. CASE UNCHANGED <<kernel, member>>
    BY <1>1 DEF kernel, member, MemberInv, Own
  <1>2. CASE Forgets
    BY <1>2, ForgetsKeeps DEF MemberInv
  <1> QED BY <1>1, <1>2, ReapCases

(* Taking mutex_ keeps IInv: what held for nobody holds for the holder. *)
LEMMA AcquireStep ==
  ASSUME IInv, TypeOK', NEW t \in Threads, Acquire(t)
  PROVE  IInv'
  <1> USE DEF IInv
  <1>1. \A u \in Threads : pc[u] \notin Held
    BY ProcessControllerAssumption DEF Acquire, MutexInv
  <1>2. /\ lock' = t /\ op' = op
        /\ pc'[t] = Entry(op[t])
        /\ ret'[t] = "none"
        /\ \A u \in Threads \ {t} : pc'[u] = pc[u]
        /\ UNCHANGED <<proc, child_pid, status, pid>>
    BY DEF Acquire, Goto, TypeOK, kernel, member
  <1>3. op[t] \in Methods
    BY DEF TypeOK
  <1>4. Within(Entry(op[t]), op[t])
    BY <1>3 DEF Within, Entry, Methods, Held, Starting, Launching, Stopping
  <1>5. Entry(op[t]) \notin Launching \cup Stopping \cup {"start_fork"}
    BY DEF Entry, Launching, Stopping
  <1>6. MutexInv'
    BY <1>1, <1>2, <1>4 DEF MutexInv, Within
  <1>7. MethodInv'
    BY <1>2, <1>4 DEF MethodInv, Within
  <1>8. MemberInv'
    BY <1>2 DEF MemberInv, Own
  <1>9. \A u \in Threads :
          pc'[u] \notin Launching \cup Stopping \cup {"start_fork"}
    BY <1>1, <1>2, <1>5 DEF Held, Launching, Stopping
  <1>10. \A p \in Pids : Own(p) => p = child_pid
    BY <1>1 DEF OwnInv, Held, Launching
  <1>11. OwnInv'
    BY <1>2, <1>9, <1>10 DEF OwnInv, Own
  <1>12. ReturnInv'
    BY <1>1, <1>2 DEF ReturnInv, Entry, MemberInv, Held
  <1> QED BY <1>6, <1>7, <1>8, <1>11, <1>12

(* Releasing mutex_ keeps IInv. *)
LEMMA UnlockStep ==
  ASSUME IInv, TypeOK', NEW t \in Threads, Unlock(t)
  PROVE  IInv'
  <1> USE DEF IInv
  <1>1. pc[t] \in Held
    BY DEF Unlock, Held
  <1>2. lock = t /\ \A u \in Threads \ {t} : pc[u] \notin Held
    BY <1>1 DEF MutexInv
  <1>3. /\ lock' = NoThread /\ op' = op
        /\ pc'[t] \in {"idle", "destroyed"}
        /\ \A u \in Threads \ {t} : pc'[u] = pc[u]
        /\ UNCHANGED <<proc, child_pid, status, pid>>
    BY DEF Unlock, Goto, TypeOK, kernel, member
  <1>4. \A u \in Threads : pc'[u] \notin Held
    BY <1>2, <1>3 DEF Held
  <1>5. MutexInv'
    BY <1>3, <1>4, ProcessControllerAssumption DEF MutexInv
  <1>6. MethodInv' /\ ReturnInv'
    BY <1>4 DEF MethodInv, ReturnInv, Held, Starting, Launching, Stopping
  <1>7. MemberInv'
    BY <1>3 DEF MemberInv, Own
  <1>8. HolderInv(t, "unlock")
    BY <1>1, HolderBefore DEF Unlock
  <1>9. \A u \in Threads :
          pc'[u] \notin Launching \cup Stopping \cup {"start_fork"}
    BY <1>4 DEF Held, Launching, Stopping
  <1>10. OwnInv'
    BY <1>3, <1>8, <1>9 DEF OwnInv, HolderInv, Own, Launching
  <1> QED BY <1>5, <1>6, <1>7, <1>10

(* The steps that leave the process table and the members alone. *)
LEMMA GateStep ==
  ASSUME IInv, TypeOK', NEW t \in Threads,
         \/ StartGate(t) \/ ForkFails(t) \/ PollDeadline(t)
         \/ RestartGate1(t) \/ RestartGate2(t)
  PROVE  IInv'
  <1>1. /\ pc[t] \in {"start_gate", "start_fork", "stop_poll",
                      "restart_gate1", "restart_gate2"}
        /\ UNCHANGED <<lock, op, proc, child_pid, status, pid>>
    BY DEF StartGate, ForkFails, PollDeadline, RestartGate1, RestartGate2,
           kernel, member
  <1>2. pc[t] \in Held /\ HolderInv(t, pc[t]) /\ Within(pc[t], op[t])
    BY <1>1, HolderBefore DEF Held
  <1>3. PICK l : /\ Goto(t, l)
                 /\ \/ l = "unlock" /\ ret'[t] \in {"shutting down", "error"}
                                    /\ pc[t] # "stop_poll"
                    \/ l = "start_reap" /\ pc[t] = "start_gate"
                    \/ l = "stop_kill" /\ pc[t] = "stop_poll"
                    \/ l = "stop_reap" /\ pc[t] = "restart_gate1"
                    \/ l = "start_gate" /\ pc[t] = "restart_gate2"
    BY DEF StartGate, ForkFails, PollDeadline, RestartGate1, RestartGate2,
           Return, IInv, TypeOK
  <1>4. Within(l, op[t])
    BY <1>2, <1>3 DEF Within, Held, Starting, Launching, Stopping
  <1>5. HolderInv(t, l)'
    BY <1>1, <1>2, <1>3
    DEF HolderInv, MemberInv, Own, Within, Starting, Launching, Stopping
  <1> QED BY <1>1, <1>2, <1>3, <1>4, <1>5, HolderAfter

(* The steps that reap first. *)
LEMMA ReapStep ==
  ASSUME IInv, TypeOK', NEW t \in Threads,
         Reap(t) \/ StartReap(t) \/ StopReap(t)
  PROVE  IInv'
  <1>1. /\ pc[t] \in {"reap", "start_reap", "stop_reap"}
        /\ ReapExitedUnlocked
        /\ UNCHANGED <<lock, op, pid>>
    BY DEF Reap, StartReap, StopReap
  <1>2. pc[t] \in Held /\ HolderInv(t, pc[t]) /\ Within(pc[t], op[t])
    BY <1>1, HolderBefore DEF Held
  <1>3. /\ MemberInv'
        /\ \A p \in Pids : Own(p)' => p = child_pid'
        /\ status'.state = "kRunning" <=> child_pid' # NoPid
    BY <1>1, <1>2, ReapKeeps DEF HolderInv, IInv, Launching
  <1>4. PICK l : /\ Goto(t, l)
                 /\ \/ l = "unlock" /\ pc[t] = "reap"
                    \/ /\ l = "unlock" /\ pc[t] = "start_reap"
                       /\ ret'[t] = "already running"
                    \/ l = "start_fork" /\ pc[t] = "start_reap"
                                        /\ child_pid' = NoPid
                    \/ l = "stop_term" /\ pc[t] = "stop_reap"
                                       /\ child_pid' # NoPid
                    \/ l = "restart_gate2" /\ pc[t] = "stop_reap"
                                           /\ op[t] = "Restart"
                    \/ l = "unlock" /\ pc[t] = "stop_reap"
                                    /\ child_pid' = NoPid /\ op[t] # "Restart"
    BY <1>3 DEF Reap, StartReap, StopReap, FinishStop, Return, IInv, TypeOK
  <1>5. Within(l, op[t])
    BY <1>2, <1>4 DEF Within, Held, Starting, Launching, Stopping
  <1>6. HolderInv(t, l)'
    BY <1>1, <1>2, <1>3, <1>4
    DEF HolderInv, Within, Starting, Launching, Stopping
  <1> QED BY <1>1, <1>2, <1>4, <1>5, <1>6, HolderAfter

(* A fork keeps IInv: the one child is the one being launched. *)
LEMMA ForkStep ==
  ASSUME IInv, TypeOK', NEW t \in Threads, Fork(t)
  PROVE  IInv'
  <1>1. pc[t] = "start_fork" /\ UNCHANGED <<lock, op, child_pid, status>>
    BY DEF Fork, member
  <1>2. pc[t] \in Held /\ HolderInv(t, pc[t]) /\ Within(pc[t], op[t])
    BY <1>1, HolderBefore DEF Held
  <1>3. Within("start_restore", op[t])
    BY <1>1, <1>2 DEF Within, Held, Starting, Launching, Stopping
  <1>4. \A p \in Pids : ~ Own(p)
    BY <1>1, <1>2, ProcessControllerAssumption DEF HolderInv, Launching
  <1>5. pid' \in Pids /\ Own(pid)' /\ \A p \in Pids : Own(p)' => p = pid'
    BY <1>4 DEF Fork, Own, IInv, TypeOK
  <1>6. HolderInv(t, "start_restore")'
    BY <1>1, <1>2, <1>5
    DEF HolderInv, MemberInv, Launching, Stopping
  <1> QED BY <1>1, <1>2, <1>3, <1>6, HolderAfter DEF Fork

(* The steps after fork, up to the end of StartUnlocked. *)
LEMMA LaunchStep ==
  ASSUME IInv, TypeOK', NEW t \in Threads,
         RestoreMask(t) \/ AbortKill(t) \/ AbortWait(t)
  PROVE  IInv'
  <1> USE DEF IInv
  <1>1. pc[t] \in Launching /\ UNCHANGED <<lock, op, pid>>
    BY DEF RestoreMask, AbortKill, AbortWait, Launching
  <1>2. pc[t] \in Held /\ HolderInv(t, pc[t]) /\ Within(pc[t], op[t])
    BY <1>1, HolderBefore DEF Held, Launching
  <1>3. /\ pid \in Pids
        /\ AutoReap \/ Own(pid)
        /\ \A p \in Pids : Own(p) => p = pid
        /\ child_pid = NoPid
        /\ status.state # "kRunning"
    BY <1>1, <1>2 DEF HolderInv, MemberInv
  <1>4. Within("unlock", op[t])
    BY DEF Within, Held, Starting, Launching, Stopping
  <1>5. ASSUME NEW why, NEW r \in {"ok", "error"}, Adopt(t, why, r)
        PROVE  IInv'
    <2>1. child_pid' = pid /\ status'.state = "kRunning" /\ proc' = proc
      BY <1>5 DEF Adopt, Running, kernel
    <2>2. pid # NoPid
      BY <1>3, ProcessControllerAssumption
    <2>3. op[t] \in {"Start", "Restart"}
      BY <1>1, <1>2 DEF Within, Starting
    <2>4. HolderInv(t, "unlock")'
      BY <1>1, <1>3, <2>1, <2>2, <2>3
      DEF HolderInv, MemberInv, Own, Launching, Stopping
    <2> QED BY <1>1, <1>2, <1>4, <1>5, <2>4, HolderAfter DEF Adopt, Return
  <1>6. ASSUME NEW l \in {"start_abort", "start_abort_wait"}, Goto(t, l),
               UNCHANGED member, proc' = proc
        PROVE  IInv'
    <2>1. Within(l, op[t])
      BY <1>1, <1>2 DEF Within, Held, Starting, Launching, Stopping
    <2>2. HolderInv(t, l)'
      BY <1>1, <1>3, <1>6
      DEF HolderInv, MemberInv, Own, Launching, Stopping, member
    <2> QED BY <1>1, <1>2, <1>6, <2>1, <2>2, HolderAfter
  <1>7. ASSUME Return(t, "error"), UNCHANGED member, \A p \in Pids : ~ Own(p)'
        PROVE  IInv'
    <2>1. ret'[t] = "error"
      BY <1>7 DEF Return, TypeOK
    <2>2. op[t] \in {"Start", "Restart"}
      BY <1>1, <1>2 DEF Within, Starting
    <2>3. HolderInv(t, "unlock")'
      BY <1>1, <1>3, <1>7, <2>1, <2>2
      DEF HolderInv, MemberInv, Launching, Stopping, member
    <2> QED BY <1>1, <1>2, <1>4, <1>7, <2>3, HolderAfter DEF Return
  <1>8. CASE RestoreMask(t)
    BY <1>5, <1>6, <1>8 DEF RestoreMask, kernel
  <1>9. CASE AbortKill(t)
    BY <1>3, <1>5, <1>6, <1>9, KillTypes DEF AbortKill
  <1>10. CASE AbortWait(t)
    <2>1. CASE Collect(pid) /\ Return(t, "error") /\ UNCHANGED member
      <3>1. \A p \in Pids : proc'[p] = IF p = pid THEN "free" ELSE proc[p]
        BY <1>3, <2>1, CollectTypes
      <3>2. \A p \in Pids : ~ Own(p)'
        BY <1>3, <3>1 DEF Own
      <3> QED BY <1>7, <2>1, <3>2
    <2>2. CASE /\ WaitPid(pid) = "ECHILD"
               /\ Return(t, "error")
               /\ UNCHANGED <<kernel, member>>
      <3>1. \A p \in Pids : ~ Own(p)'
        BY <1>3, <2>2 DEF Own, WaitPid, kernel
      <3> QED BY <1>7, <2>2, <3>1
    <2>3. CASE Adopt(t, "waitpid failure", "error")
      BY <1>5, <2>3
    <2> QED BY <1>10, <2>1, <2>2, <2>3 DEF AbortWait
  <1> QED BY <1>8, <1>9, <1>10

(* The system calls of StopUnlocked keep IInv, failing ones included. *)
LEMMA StopStep ==
  ASSUME IInv, TypeOK', NEW t \in Threads,
         StopTerm(t) \/ StopPoll(t) \/ StopKill(t) \/ StopWait(t)
  PROVE  IInv'
  <1> USE DEF IInv
  <1>1. pc[t] \in Stopping /\ UNCHANGED <<lock, op, pid>>
    BY DEF StopTerm, StopPoll, StopKill, StopWait, StopSignal, Stopping
  <1>2. pc[t] \in Held /\ HolderInv(t, pc[t]) /\ Within(pc[t], op[t])
    BY <1>1, HolderBefore DEF Held, Stopping
  <1>3. /\ child_pid \in Pids /\ child_pid # NoPid
        /\ \A p \in Pids : Own(p) => p = child_pid
        /\ op[t] \in {"Stop", "Restart", "Destroy"}
        /\ MemberInv
    BY <1>1, <1>2 DEF HolderInv, Within, TypeOK, Stopping, Launching
  <1>4. ASSUME NEW l \in {"stop_poll", "stop_wait"}, Goto(t, l),
               UNCHANGED member, proc' = proc
        PROVE  IInv'
    <2>1. Within(l, op[t])
      BY <1>3 DEF Within, Held, Starting, Launching, Stopping
    <2>2. HolderInv(t, l)'
      BY <1>3, <1>4
      DEF HolderInv, MemberInv, Own, Launching, Stopping, member
    <2> QED BY <1>1, <1>2, <1>4, <2>1, <2>2, HolderAfter
  <1>5. ASSUME FinishStop(t, "error"), UNCHANGED <<kernel, member>>
        PROVE  IInv'
    <2>1. Goto(t, "unlock") /\ ret'[t] = "error"
      BY <1>5 DEF FinishStop, Return, TypeOK
    <2>2. Within("unlock", op[t])
      BY DEF Within, Held, Starting, Launching, Stopping
    <2>3. HolderInv(t, "unlock")'
      BY <1>3, <1>5, <2>1
      DEF HolderInv, MemberInv, Own, Launching, Stopping, kernel, member
    <2> QED BY <1>1, <1>2, <2>1, <2>2, <2>3, HolderAfter
  <1>6. ASSUME FinishStop(t, "ok"), Forgets PROVE IInv'
    <2>1. MemberInv' /\ child_pid' = NoPid /\ \A p \in Pids : ~ Own(p)'
      BY <1>3, <1>6, ForgetsKeeps
    <2>2. PICK l : /\ Goto(t, l)
                   /\ \/ l = "restart_gate2" /\ op[t] = "Restart"
                      \/ l = "unlock" /\ op[t] # "Restart"
      BY <1>6 DEF FinishStop, Return
    <2>3. Within(l, op[t])
      BY <2>2 DEF Within, Held, Starting, Launching, Stopping
    <2>4. HolderInv(t, l)'
      BY <1>1, <1>3, <2>1, <2>2 DEF HolderInv, Launching, Stopping
    <2> QED BY <1>1, <1>2, <2>2, <2>3, <2>4, HolderAfter
  <1>7. CASE StopTerm(t) \/ StopKill(t)
    <2>1. \/ /\ Kill(child_pid, "SIGTERM") \/ Kill(child_pid, "SIGKILL")
             /\ Goto(t, "stop_poll") \/ Goto(t, "stop_wait")
             /\ UNCHANGED member
          \/ FinishStop(t, "error") /\ UNCHANGED <<kernel, member>>
      BY <1>7 DEF StopTerm, StopKill, StopSignal
    <2> QED BY <1>3, <1>4, <1>5, <2>1, KillTypes
  <1>8. CASE StopPoll(t) \/ StopWait(t)
    BY <1>3, <1>5, <1>6, <1>8, StopCases
  <1> QED BY <1>7, <1>8

-----------------------------------------------------------------------------
(* Theorems *)

(* Every step of the controller, its callers and the kernel keeps IInv. *)
LEMMA NextIInv == IInv /\ [Next]_vars => IInv'
  <1> SUFFICES ASSUME IInv, [Next]_vars PROVE IInv'
    OBVIOUS
  <1>1. TypeOK'
    BY TypeStep DEF IInv
  <1>2. ASSUME NEW t \in Threads, Step(t) PROVE IInv'
    BY <1>1, <1>2, AcquireStep, UnlockStep, GateStep, ReapStep, ForkStep,
       LaunchStep, StopStep DEF Step
  <1> QED BY <1>1, <1>2, OutsideStep DEF Next

(* IInv is an invariant. *)
LEMMA Inductive == Spec => []IInv
  BY InitIInv, NextIInv, PTL DEF Spec

(* The types of every variable are kept by every step. *)
THEOREM TypeCorrect == Spec => []TypeOK
  <1>1. IInv => TypeOK
    BY DEF IInv
  <1> QED BY <1>1, Inductive, PTL

(* Mutual exclusion makes the holder's view the whole truth: what IInv     *)
(* says while no launch is under way.                                      *)
LEMMA SafetyFromIInv ==
  ASSUME IInv
  PROVE  OneDaemon /\ NoLostChild /\ KillTargetsOwnChild /\ ResultsTruthful
  <1> USE DEF IInv
  <1>1. OneDaemon
    BY DEF OneDaemon, OwnInv
  <1>2. NoLostChild
    <2> SUFFICES ASSUME lock = NoThread, NEW p \in Pids, Own(p)
                 PROVE  p = child_pid /\ status.state = "kRunning"
      BY DEF NoLostChild
    <2>1. \A t \in Threads : pc[t] \notin Launching
      BY ProcessControllerAssumption DEF MutexInv, Held, Launching
    <2>2. p = child_pid
      BY <2>1 DEF OwnInv
    <2> QED BY <2>2, ProcessControllerAssumption DEF MemberInv
  <1>3. KillTargetsOwnChild
    <2> SUFFICES ASSUME NEW t \in Threads
                 PROVE  /\ pc[t] \in {"stop_term", "stop_kill"} =>
                             /\ child_pid # NoPid
                             /\ AutoReap \/ Own(child_pid)
                        /\ pc[t] = "start_abort" =>
                             /\ pid # NoPid
                             /\ AutoReap \/ Own(pid)
      BY DEF KillTargetsOwnChild
    <2>1. pc[t] \in {"stop_term", "stop_kill"} => child_pid # NoPid
      BY DEF OwnInv, Stopping
    <2>2. pc[t] = "start_abort" => pid \in Pids /\ (AutoReap \/ Own(pid))
      BY DEF OwnInv, Launching
    <2> QED BY <2>1, <2>2, ProcessControllerAssumption DEF MemberInv
  <1>4. ResultsTruthful
    <2> SUFFICES ASSUME NEW t \in Threads, pc[t] = "unlock"
                 PROVE  /\ op[t] = "Stop" /\ ret[t] = "ok" => NoChild
                        /\ op[t] = "Destroy" /\ ret[t] # "error" => NoChild
                        /\ op[t] \in {"Start", "Restart"} /\ ret[t] = "ok" =>
                             /\ child_pid # NoPid /\ status.state = "kRunning"
                             /\ AutoReap \/ Own(child_pid)
      BY DEF ResultsTruthful
    <2>1. HolderInv(t, "unlock")
      BY HolderBefore DEF Held
    <2>2. child_pid = NoPid => NoChild
      BY <2>1, ProcessControllerAssumption DEF HolderInv, NoChild, Launching
    <2> QED BY <2>1, <2>2 DEF HolderInv, MemberInv
  <1> QED BY <1>1, <1>2, <1>3, <1>4

(* There is never more than one daemon. *)
THEOREM AtMostOneDaemon == Spec => []OneDaemon
  <1>1. IInv => OneDaemon
    BY SafetyFromIInv
  <1> QED BY <1>1, Inductive, PTL

(* No path out of any method, failing system calls included, loses track   *)
(* of a child.                                                             *)
THEOREM ChildNeverLost == Spec => []NoLostChild
  <1>1. IInv => NoLostChild
    BY SafetyFromIInv
  <1> QED BY <1>1, Inductive, PTL

(* kill() only ever reaches the controller's own child. *)
THEOREM SignalsReachOwnChild == Spec => []KillTargetsOwnChild
  <1>1. IInv => KillTargetsOwnChild
    BY SafetyFromIInv
  <1> QED BY <1>1, Inductive, PTL

(* The Status that Start, Stop, Restart and the destructor end with is     *)
(* true of the process table at that moment.                               *)
THEOREM ReportsAreTrue == Spec => []ResultsTruthful
  <1>1. IInv => ResultsTruthful
    BY SafetyFromIInv
  <1> QED BY <1>1, Inductive, PTL

-----------------------------------------------------------------------------
(* Shutdown is final *)

(* No child, and no launch that is past its last look at the flag. *)
Quiet ==
  /\ shutdown_requested
  /\ NoChild
  /\ \A t \in Threads :
       pc[t] \notin {"start_reap", "start_fork"} \cup Launching

(* With the flag up, the mutex free and no child, nobody is in a launch. *)
LEMMA QuietEntered ==
  IInv /\ shutdown_requested /\ lock = NoThread /\ NoChild => Quiet
  BY ProcessControllerAssumption
  DEF IInv, MutexInv, Quiet, Held, Launching

(* A thread that goes somewhere else than into a launch stays quiet. *)
LEMMA QuietGoto ==
  ASSUME TypeOK, Quiet, NEW t \in Threads, NEW l, Goto(t, l),
         l \notin {"start_reap", "start_fork"} \cup Launching,
         shutdown_requested' = shutdown_requested,
         \A p \in Pids : Own(p)' => Own(p)
  PROVE  Quiet'
  BY DEF TypeOK, Quiet, NoChild, Goto

(* Without a child, waiting for one changes nothing in the process table. *)
LEMMA ForgetsNoBirth ==
  ASSUME TypeOK, Forgets \/ UNCHANGED <<kernel, member>>
  PROVE  \A p \in Pids : Own(p)' => Own(p)
  <1>1. CASE Forgets
    <2>1. CASE Collect(child_pid)
      BY <1>1, <2>1, CollectTypes DEF Forgets, Own
    <2>2. CASE UNCHANGED kernel
      BY <2>2 DEF kernel, Own
    <2> QED BY <1>1, <2>1, <2>2 DEF Forgets
  <1>2. CASE UNCHANGED <<kernel, member>>
    BY <1>2 DEF kernel, Own
  <1> QED BY <1>1, <1>2

(* Quiet is never left: every load of the flag that is still to come      *)
(* turns a launch away.                                                    *)
LEMMA QuietStep == IInv /\ Quiet /\ [Next]_vars => Quiet'
  <1> SUFFICES ASSUME IInv, Quiet, [Next]_vars PROVE Quiet'
    OBVIOUS
  <1>0. TypeOK
    BY DEF IInv
  <1>1. ASSUME NEW t \in Threads, NEW m \in Methods \ {"Destroy"}, Call(t, m)
        PROVE  Quiet'
    BY <1>0, <1>1, QuietGoto DEF Call, Launching, kernel, Own
  <1>2. ASSUME NEW t \in Threads, Destroy(t) PROVE Quiet'
    BY <1>0, <1>2 DEF Destroy, Quiet, NoChild, Own, Launching, kernel
  <1>3. CASE RequestShutdown
    BY <1>3 DEF RequestShutdown, Quiet, NoChild, Own, kernel
  <1>4. ASSUME NEW p \in Pids, ChildEnds(p) PROVE Quiet'
    BY <1>4 DEF ChildEnds, Quiet, NoChild, Own
  <1>5. ASSUME NEW p \in Pids, OtherProcess(p) PROVE Quiet'
    BY <1>0, <1>5 DEF OtherProcess, Quiet, NoChild, Own, TypeOK
  <1>6. CASE UNCHANGED vars
    BY <1>6 DEF vars, Quiet, NoChild, Own
  <1>7. ASSUME NEW t \in Threads, Step(t) PROVE Quiet'
    <2>1. ~ (StartReap(t) \/ Fork(t) \/ ForkFails(t) \/ RestoreMask(t)
               \/ AbortKill(t) \/ AbortWait(t))
      BY DEF Quiet, StartReap, Fork, ForkFails, RestoreMask, AbortKill,
             AbortWait, Launching
    <2>2. CASE Acquire(t) \/ Unlock(t)
      BY <1>0, <2>2, QuietGoto
      DEF Acquire, Unlock, Entry, Launching, kernel, Own
    <2>3. CASE StartGate(t) \/ RestartGate1(t) \/ RestartGate2(t)
      BY <1>0, <2>3, QuietGoto
      DEF StartGate, RestartGate1, RestartGate2, Return, Quiet, Launching,
          kernel, Own
    <2>4. CASE PollDeadline(t)
      BY <1>0, <2>4, QuietGoto DEF PollDeadline, Launching, kernel, Own
    <2>5. CASE Reap(t) \/ StopReap(t)
      <3>1. /\ ReapExitedUnlocked
            /\ shutdown_requested' = shutdown_requested
            /\ \E l \in {"unlock", "stop_term", "restart_gate2"} : Goto(t, l)
        BY <2>5 DEF Reap, StopReap, FinishStop, Return
      <3>2. \A p \in Pids : Own(p)' => Own(p)
        BY <1>0, <3>1, ReapCases, ForgetsNoBirth
      <3> QED BY <1>0, <3>1, <3>2, QuietGoto DEF Launching
    <2>6. CASE StopTerm(t) \/ StopKill(t) \/ StopPoll(t) \/ StopWait(t)
      <3>1. AutoReap /\ child_pid \in Pids /\ child_pid # NoPid
        BY <1>0, <2>6
        DEF StopTerm, StopKill, StopPoll, StopWait, IInv, OwnInv, MemberInv,
            Stopping, Quiet, NoChild, TypeOK
      <3>2. /\ \A p \in Pids : Own(p)' => Own(p)
            /\ shutdown_requested' = shutdown_requested
        <4>1. CASE StopTerm(t) \/ StopKill(t)
          BY <4>1 DEF StopTerm, StopKill, StopSignal, Kill, Own, kernel
        <4>2. CASE StopPoll(t) \/ StopWait(t)
          BY <1>0, <3>1, <4>2, StopCases, ForgetsNoBirth
        <4> QED BY <2>6, <4>1, <4>2
      <3>3. \E l \in {"unlock", "stop_poll", "stop_wait", "restart_gate2"} :
              Goto(t, l)
        BY <2>6 DEF StopTerm, StopKill, StopSignal, StopPoll, StopWait,
                    FinishStop, Return
      <3> QED BY <1>0, <3>2, <3>3, QuietGoto DEF Launching
    <2> QED BY <1>7, <2>1, <2>2, <2>3, <2>4, <2>5, <2>6 DEF Step
  <1> QED BY <1>1, <1>2, <1>3, <1>4, <1>5, <1>6, <1>7 DEF Next

(* Once shutdown was requested and the slot was seen empty with the mutex  *)
(* free, it stays empty for ever: no interleaving of Start and Restart     *)
(* with RequestShutdown revives the daemon.                                *)
THEOREM ShutdownFinal == Spec => ShutdownIsFinal
  <1>1. Quiet => NoChild
    BY DEF Quiet
  <1>2. Spec => []IInv /\ [][Next]_vars
    BY Inductive, PTL DEF Spec
  <1>3. []IInv /\ [][Next]_vars => [](Quiet => []Quiet)
    BY QuietStep, PTL
  <1> QED BY <1>1, <1>2, <1>3, QuietEntered, PTL DEF ShutdownIsFinal
-----------------------------------------------------------------------------
(* What a caller sees of its own and of other calls *)

(* A step of a thread inside a method moves no other thread, and a method  *)
(* ends where the mutex is released, with the result it has by then.       *)
LEMMA StepFrame ==
  ASSUME IInv, NEW t \in Threads, Step(t)
  PROVE  /\ pc[t] \in Held \cup {"acquire"}
         /\ UNCHANGED <<op, shutdown_requested>>
         /\ \A u \in Threads \ {t} : pc'[u] = pc[u] /\ ret'[u] = ret[u]
         /\ pc'[t] \in {"idle", "destroyed"} =>
              /\ pc[t] = "unlock"
              /\ ret'[t] = ret[t]
              /\ pc'[t] = "destroyed" <=> op[t] = "Destroy"
         /\ pc'[t] # "acquire"
  <1>1. TypeOK
    BY DEF IInv
  <1> USE <1>1 DEF TypeOK, Held, Goto, Return, Adopt, FinishStop, StopSignal
  <1>2. CASE Acquire(t)
    BY <1>2 DEF Acquire, Entry
  <1>3. CASE Unlock(t)
    BY <1>3 DEF Unlock
  <1>4. CASE Reap(t) \/ StopReap(t) \/ StopTerm(t) \/ StopPoll(t)
               \/ PollDeadline(t) \/ StopKill(t) \/ StopWait(t)
    BY <1>4 DEF Reap, StopReap, StopTerm, StopPoll, PollDeadline, StopKill, StopWait
  <1>5. CASE StartGate(t) \/ StartReap(t) \/ ForkFails(t) \/ Fork(t)
               \/ RestartGate1(t) \/ RestartGate2(t)
    BY <1>5 DEF StartGate, StartReap, ForkFails, Fork, RestartGate1, RestartGate2
  <1>6. CASE RestoreMask(t) \/ AbortKill(t) \/ AbortWait(t)
    BY <1>6 DEF RestoreMask, AbortKill, AbortWait
  <1> QED BY <1>2, <1>3, <1>4, <1>5, <1>6 DEF Step

(* The destructor finds no error but that of a system call. *)
LEMMA DestroyError ==
  ASSUME IInv, NEW t \in Threads, Step(t), op[t] = "Destroy", ~ SyscallFaults,
         pc[t] = "acquire" \/ ret[t] # "error"
  PROVE  ret'[t] # "error"
  <1>1. TypeOK
    BY DEF IInv
  <1>2. pc[t] \notin Starting \cup {"restart_gate1", "restart_gate2", "reap"}
    BY DEF IInv, MethodInv
  <1> USE <1>1, <1>2
      DEF TypeOK, Goto, Return, FinishStop, StopSignal, Starting, Launching
  <1>3. CASE Acquire(t) \/ Unlock(t) \/ PollDeadline(t)
    BY <1>3 DEF Acquire, Unlock, PollDeadline
  <1>4. CASE StopReap(t) \/ StopTerm(t) \/ StopPoll(t) \/ StopKill(t) \/ StopWait(t)
    BY <1>4 DEF StopReap, StopTerm, StopPoll, StopKill, StopWait
  <1>5. ~ (Reap(t) \/ StartGate(t) \/ StartReap(t) \/ ForkFails(t) \/ Fork(t)
             \/ RestoreMask(t) \/ AbortKill(t) \/ AbortWait(t)
             \/ RestartGate1(t) \/ RestartGate2(t))
    BY DEF Reap, StartGate, StartReap, ForkFails, Fork, RestoreMask, AbortKill,
           AbortWait, RestartGate1, RestartGate2
  <1> QED BY <1>3, <1>4, <1>5 DEF Step

(* After the flag went up, a Stop that succeeds, and a destructor without  *)
(* errors, leave the controller quiet.                                     *)
LEMMA QuietReturn ==
  ASSUME IInv, shutdown_requested, NEW t \in Threads, pc[t] = "unlock",
         \/ op[t] = "Stop" /\ ret[t] = "ok"
         \/ op[t] = "Destroy" /\ ret[t] # "error"
  PROVE  Quiet
  <1>1. NoChild
    BY SafetyFromIInv DEF ResultsTruthful
  <1>2. ASSUME NEW u \in Threads
        PROVE  pc[u] \notin {"start_reap", "start_fork"} \cup Launching
    BY DEF IInv, MutexInv, Held, Launching
  <1> QED BY <1>1, <1>2 DEF Quiet

-----------------------------------------------------------------------------
(* The slot, as a function of the controller's variables *)

Launchers == {"start_reap", "start_fork"}

Admitted(points) == \E t \in Threads : points[t] \in Launchers

Daemon(table) ==
  IF \E p \in Pids : table[p] = "live" THEN "alive"
  ELSE IF \E p \in Pids : table[p] = "zombie" THEN "ended"
  ELSE "absent"

(* Nothing is left behind by a child when the kernel reaps it. *)
ZombieInv == AutoReap => \A p \in Pids : proc[p] # "zombie"

(* What a daemon that is about to be given up looks like in the slot. *)
Over == IF AutoReap THEN "absent" ELSE "ended"

(* A step of DaemonSlot, action by action. *)
LEMMA SlotAction ==
  ASSUME \/ /\ shutdown_requested' = shutdown_requested
            /\ Admitted(pc') <=> Admitted(pc)
            /\ Daemon(proc') = Daemon(proc)
            /\ status'.state = status.state
         \/ /\ shutdown_requested' = TRUE                              \* Close
            /\ Admitted(pc') <=> Admitted(pc)
            /\ Daemon(proc') = Daemon(proc)
            /\ status'.state = status.state
         \/ /\ ~ shutdown_requested /\ ~ Admitted(pc) /\ Admitted(pc')   \* Admit
            /\ shutdown_requested' = shutdown_requested
            /\ Daemon(proc') = Daemon(proc)
            /\ status'.state = status.state
         \/ /\ Admitted(pc) /\ ~ Admitted(pc')                         \* Abandon
            /\ shutdown_requested' = shutdown_requested
            /\ Daemon(proc') = Daemon(proc)
            /\ status'.state = status.state
         \/ /\ Admitted(pc) /\ ~ Admitted(pc')                         \* Launch
            /\ Daemon(proc) = "absent" /\ Daemon(proc') = "alive"
            /\ status.state # "kRunning"
            /\ shutdown_requested' = shutdown_requested
            /\ status'.state = status.state
         \/ /\ status.state # "kRunning" /\ status'.state = "kRunning" \* Announce
            /\ Daemon(proc) # "absent" \/ AutoReap
            /\ shutdown_requested' = shutdown_requested
            /\ Admitted(pc') <=> Admitted(pc)
            /\ Daemon(proc') = Daemon(proc)
         \/ /\ Daemon(proc) = "alive" /\ Daemon(proc') = Over          \* Die
            /\ shutdown_requested' = shutdown_requested
            /\ Admitted(pc') <=> Admitted(pc)
            /\ status'.state = status.state
         \/ /\ Daemon(proc) = "ended" /\ Daemon(proc') = "absent"      \* Undo
            /\ status.state # "kRunning"
            /\ shutdown_requested' = shutdown_requested
            /\ Admitted(pc') <=> Admitted(pc)
            /\ status'.state = status.state
         \/ /\ status.state = "kRunning"                               \* Settle
            /\ status'.state \in {"kStopped", "kCrashed"}
            /\ Daemon(proc) = Over /\ Daemon(proc') = "absent"
            /\ shutdown_requested' = shutdown_requested
            /\ Admitted(pc') <=> Admitted(pc)
  PROVE  [Slot!SlotNext]_(Slot!slot)
  BY DEF Admitted, Daemon, Launchers, Over, Slot!SlotNext, Slot!slot, Slot!Close,
     Slot!Admit, Slot!Abandon, Slot!Launch, Slot!Announce, Slot!Die, Slot!Undo,
     Slot!Settle

-----------------------------------------------------------------------------
(* Facts about the image *)

(* The mutex holder alone decides whether a launch is admitted. *)
LEMMA HolderAdmits ==
  ASSUME IInv, NEW t \in Threads, pc[t] \in Held, NEW l, Goto(t, l)
  PROVE  /\ Admitted(pc) <=> pc[t] \in Launchers
         /\ Admitted(pc') <=> l \in Launchers
  <1>1. \A u \in Threads \ {t} : pc[u] \notin Launchers
    BY DEF IInv, MutexInv, Held, Launchers
  <1>2. pc'[t] = l /\ \A u \in Threads \ {t} : pc'[u] = pc[u]
    BY DEF Goto, IInv, TypeOK
  <1> QED BY <1>1, <1>2 DEF Admitted

(* A thread that stays outside of the mutex changes nothing about it. *)
LEMMA OutsiderAdmits ==
  ASSUME IInv, NEW t \in Threads, pc[t] \notin Launchers, NEW l, l \notin Launchers, Goto(t, l)
  PROVE  Admitted(pc') <=> Admitted(pc)
  BY DEF IInv, TypeOK, Goto, Admitted

(* A daemon is absent exactly when no pid is the controller's own. *)
LEMMA DaemonOwn ==
  ASSUME NEW table
  PROVE  /\ Daemon(table) = "absent" <=> \A p \in Pids : table[p] \notin {"live", "zombie"}
         /\ Daemon(table) = "alive" <=> \E p \in Pids : table[p] = "live"
         /\ Daemon(table) \in {"alive", "ended", "absent"}
  BY DEF Daemon

(* The one child there is decides. *)
LEMMA DaemonOfChild ==
  ASSUME NEW q \in Pids, \A p \in Pids : Own(p) => p = q
  PROVE  /\ proc[q] = "live" => Daemon(proc) = "alive"
         /\ proc[q] = "zombie" => Daemon(proc) = "ended"
         /\ ~ Own(q) => Daemon(proc) = "absent"
  BY DEF Daemon, Own

-----------------------------------------------------------------------------
(* The steps *)

(* Callers, RequestShutdown, the kernel. *)
LEMMA OutsideRefines ==
  ASSUME IInv, ZombieInv,
         \/ \E t \in Threads, m \in Methods \ {"Destroy"} : Call(t, m)
         \/ \E t \in Threads : Destroy(t)
         \/ RequestShutdown
         \/ \E p \in Pids : ChildEnds(p) \/ OtherProcess(p)
         \/ UNCHANGED vars
  PROVE  [Slot!SlotNext]_(Slot!slot)
  <1>0. TypeOK
    BY DEF IInv
  <1>1. ASSUME NEW t \in Threads, NEW m \in Methods \ {"Destroy"}, Call(t, m)
        PROVE  [Slot!SlotNext]_(Slot!slot)
    <2>1. Admitted(pc') <=> Admitted(pc)
      BY <1>1, OutsiderAdmits DEF Call, Launchers
    <2> QED BY <1>1, <2>1, SlotAction DEF Call, kernel, member
  <1>2. ASSUME NEW t \in Threads, Destroy(t) PROVE [Slot!SlotNext]_(Slot!slot)
    <2>1. ~ Admitted(pc') /\ ~ Admitted(pc)
      BY <1>2 DEF Destroy, Admitted, Launchers
    <2> QED BY <1>2, <2>1, SlotAction DEF Destroy, kernel, member
  <1>3. CASE RequestShutdown
    BY <1>3, SlotAction DEF RequestShutdown, kernel, member
  <1>4. ASSUME NEW p \in Pids, ChildEnds(p) PROVE [Slot!SlotNext]_(Slot!slot)
    <2>1. /\ proc[p] = "live"
          /\ \A q \in Pids : proc'[q] = IF q # p THEN proc[q]
                                        ELSE IF AutoReap THEN "free" ELSE "zombie"
          /\ UNCHANGED <<shutdown_requested, status, pc>>
      BY <1>0, <1>4 DEF ChildEnds, Collect, TypeOK, member
    <2>2. \A q \in Pids : Own(q) => q = p
      BY <2>1, SafetyFromIInv DEF OneDaemon, Own
    <2>3. Daemon(proc) = "alive" /\ Daemon(proc') = Over
      BY <2>1, <2>2, ProcessControllerAssumption DEF Daemon, Own, Over
    <2> QED BY <2>1, <2>3, SlotAction
  <1>5. ASSUME NEW p \in Pids, OtherProcess(p) PROVE [Slot!SlotNext]_(Slot!slot)
    <2>1. \A q \in Pids : proc'[q] = proc[q] \/ {proc'[q], proc[q]} = {"free", "foreign"}
      BY <1>0, <1>5 DEF OtherProcess, TypeOK
    <2>2. Daemon(proc') = Daemon(proc)
      BY <2>1 DEF Daemon
    <2> QED BY <1>5, <2>2, SlotAction DEF OtherProcess, member
  <1>6. CASE UNCHANGED vars
    BY <1>6, SlotAction DEF vars
  <1> QED BY <1>1, <1>2, <1>3, <1>4, <1>5, <1>6

(* What forgetting a child, or doing nothing, is in the slot. *)
LEMMA ForgetsSettles ==
  ASSUME IInv, ZombieInv, Forgets \/ UNCHANGED <<kernel, member>>,
         \A p \in Pids : Own(p) => p = child_pid
  PROVE  \/ Daemon(proc') = Daemon(proc) /\ status'.state = status.state
         \/ /\ status.state = "kRunning"
            /\ status'.state \in {"kStopped", "kCrashed"}
            /\ Daemon(proc) = Over /\ Daemon(proc') = "absent"
  <1>1. TypeOK /\ MemberInv
    BY DEF IInv
  <1>2. CASE UNCHANGED <<kernel, member>>
    BY <1>2 DEF kernel, member
  <1>3. CASE Forgets
    <2>1. status.state = "kRunning" /\ status'.state \in {"kStopped", "kCrashed"}
      BY <1>1, <1>3, ProcessControllerAssumption
      DEF Forgets, MemberInv, ProcessStatus, ProcessState
    <2>2. \A p \in Pids : ~ Own(p)'
      BY <1>1, <1>3, ForgetsKeeps
    <2>3. Daemon(proc') = "absent"
      BY <2>2, DaemonOwn DEF Own
    <2>4. Daemon(proc) = Over
      <3>1. CASE proc[child_pid] = "zombie"
        BY <1>3, <3>1, DaemonOfChild, ProcessControllerAssumption
        DEF Forgets, Over, ZombieInv
      <3>2. CASE ~ Own(child_pid)
        <4>1. AutoReap
          BY <1>1, <1>3, <3>2, ProcessControllerAssumption DEF Forgets, MemberInv
        <4>2. Daemon(proc) = "absent"
          BY <1>3, <3>2, DaemonOfChild DEF Forgets
        <4> QED BY <4>1, <4>2 DEF Over
      <3> QED BY <1>3, <3>1, <3>2 DEF Forgets
    <2> QED BY <2>1, <2>3, <2>4
  <1> QED BY <1>2, <1>3

(* The steps that only move the holder, or take and release the mutex. *)
LEMMA GateRefines ==
  ASSUME IInv, NEW t \in Threads,
         \/ Acquire(t) \/ Unlock(t) \/ StartGate(t) \/ ForkFails(t)
         \/ PollDeadline(t) \/ RestartGate1(t) \/ RestartGate2(t)
  PROVE  [Slot!SlotNext]_(Slot!slot)
  <1>1. UNCHANGED <<proc, status, shutdown_requested>>
    BY DEF Acquire, Unlock, StartGate, ForkFails, PollDeadline, RestartGate1,
           RestartGate2, kernel, member
  <1>2. CASE Acquire(t)
    <2>1. Entry(op[t]) \notin Launchers
      BY DEF Entry, Launchers
    <2>2. Admitted(pc') <=> Admitted(pc)
      BY <1>2, <2>1, OutsiderAdmits DEF Acquire, Launchers
    <2> QED BY <1>1, <2>2, SlotAction
  <1>3. CASE ~ Acquire(t)
    <2>1. /\ pc[t] \in Held
          /\ \/ /\ pc[t] \notin Launchers
                /\ \E l \in {"unlock", "idle", "destroyed", "stop_kill", "stop_reap",
                            "start_gate"} : Goto(t, l)
             \/ pc[t] = "start_gate" /\ Goto(t, "start_reap") /\ ~ shutdown_requested
             \/ pc[t] = "start_fork" /\ Goto(t, "unlock")
      BY <1>3 DEF Unlock, StartGate, ForkFails, PollDeadline, RestartGate1,
                  RestartGate2, Return, Held, Launchers
    <2>2. \/ Admitted(pc') <=> Admitted(pc)
          \/ ~ shutdown_requested /\ ~ Admitted(pc) /\ Admitted(pc')
          \/ Admitted(pc) /\ ~ Admitted(pc')
      BY <2>1, HolderAdmits DEF Launchers
    <2> QED BY <1>1, <2>2, SlotAction
  <1> QED BY <1>2, <1>3

(* The steps that reap first. *)
LEMMA ReapRefines ==
  ASSUME IInv, ZombieInv, NEW t \in Threads, Reap(t) \/ StartReap(t) \/ StopReap(t)
  PROVE  [Slot!SlotNext]_(Slot!slot)
  <1>1. /\ pc[t] \in {"reap", "start_reap", "stop_reap"} /\ pc[t] \in Held
        /\ ReapExitedUnlocked /\ shutdown_requested' = shutdown_requested
    BY DEF Reap, StartReap, StopReap, Held
  <1>2. \A p \in Pids : Own(p) => p = child_pid
    BY <1>1, HolderBefore DEF HolderInv, Launching
  <1>3. \/ Daemon(proc') = Daemon(proc) /\ status'.state = status.state
        \/ /\ status.state = "kRunning"
           /\ status'.state \in {"kStopped", "kCrashed"}
           /\ Daemon(proc) = Over /\ Daemon(proc') = "absent"
    BY <1>1, <1>2, ReapCases, ForgetsSettles DEF IInv
  <1>4. \/ Admitted(pc') <=> Admitted(pc)
        \/ Admitted(pc) /\ ~ Admitted(pc') /\ status'.state = "kRunning"
    <2>1. \/ /\ pc[t] \in {"reap", "stop_reap"}
             /\ Goto(t, "unlock") \/ Goto(t, "stop_term") \/ Goto(t, "restart_gate2")
          \/ pc[t] = "start_reap" /\ Goto(t, "start_fork")
          \/ pc[t] = "start_reap" /\ Goto(t, "unlock") /\ status'.state = "kRunning"
      BY DEF Reap, StartReap, StopReap, FinishStop, Return
    <2> QED BY <1>1, <2>1, HolderAdmits DEF Launchers
  <1> QED BY <1>1, <1>3, <1>4, SlotAction

(* Fork and the rest of StartUnlocked. *)
LEMMA LaunchRefines ==
  ASSUME IInv, NEW t \in Threads,
         Fork(t) \/ RestoreMask(t) \/ AbortKill(t) \/ AbortWait(t)
  PROVE  [Slot!SlotNext]_(Slot!slot)
  <1>0. TypeOK
    BY DEF IInv
  <1>1. /\ shutdown_requested' = shutdown_requested
        /\ pc[t] \in {"start_fork"} \cup Launching /\ pc[t] \in Held
    BY DEF Fork, RestoreMask, AbortKill, AbortWait, Launching, Held
  <1>2. HolderInv(t, pc[t]) /\ status.state # "kRunning"
    BY <1>1, HolderBefore DEF HolderInv, MemberInv
  <1>3. CASE Fork(t)
    <2>1. Admitted(pc) /\ ~ Admitted(pc')
      BY <1>1, <1>3, HolderAdmits DEF Fork, Launchers
    <2>2. \A p \in Pids : ~ Own(p)
      BY <1>2, <1>3, ProcessControllerAssumption DEF Fork, HolderInv, Launching
    <2>3. Daemon(proc) = "absent"
      BY <2>2, DaemonOwn DEF Own
    <2>4. Daemon(proc') = "alive"
      BY <1>0, <1>3, DaemonOwn DEF Fork, TypeOK
    <2> QED BY <1>1, <1>2, <1>3, <2>1, <2>3, <2>4, SlotAction DEF Fork, member
  <1>4. CASE RestoreMask(t) \/ AbortKill(t) \/ AbortWait(t)
    <2>1. /\ pc[t] \in Launching
          /\ pid \in Pids /\ (AutoReap \/ Own(pid))
          /\ \A p \in Pids : Own(p) => p = pid
      BY <1>2, <1>4 DEF RestoreMask, AbortKill, AbortWait, HolderInv, Launching
    <2>2. Admitted(pc') <=> Admitted(pc)
      <3>1. \E l \in {"start_abort", "start_abort_wait", "unlock"} : Goto(t, l)
        BY <1>4 DEF RestoreMask, AbortKill, AbortWait, Adopt, Return
      <3> QED BY <1>1, <2>1, <3>1, HolderAdmits DEF Launching, Launchers
    <2>3. ASSUME NEW why, NEW r, Adopt(t, why, r) PROVE [Slot!SlotNext]_(Slot!slot)
      <3>1. status'.state = "kRunning" /\ proc' = proc
        BY <2>3 DEF Adopt, Running, kernel
      <3>2. Daemon(proc) # "absent" \/ AutoReap
        BY <2>1, DaemonOwn DEF Own
      <3> QED BY <1>1, <1>2, <2>2, <3>1, <3>2, SlotAction
    <2>4. ASSUME proc' = proc, UNCHANGED member PROVE [Slot!SlotNext]_(Slot!slot)
      BY <1>1, <2>2, <2>4, SlotAction DEF member
    <2>5. CASE WaitPid(pid) = "exited" /\ Collect(pid) /\ UNCHANGED member
      <3>1. proc[pid] = "zombie"
        BY <2>5 DEF WaitPid
      <3>2. Daemon(proc) = "ended"
        BY <2>1, <3>1, DaemonOfChild
      <3>3. \A p \in Pids : proc'[p] = IF p = pid THEN "free" ELSE proc[p]
        BY <1>0, <2>1, <2>5, CollectTypes
      <3>4. Daemon(proc') = "absent"
        BY <2>1, <3>3, DaemonOwn DEF Own
      <3> QED BY <1>1, <1>2, <2>2, <2>5, <3>2, <3>4, SlotAction DEF member
    <2>6. CASE RestoreMask(t)
      BY <2>3, <2>4, <2>6 DEF RestoreMask, kernel
    <2>7. CASE AbortKill(t)
      BY <1>0, <2>1, <2>3, <2>4, <2>7, KillTypes DEF AbortKill
    <2>8. CASE AbortWait(t)
      BY <2>3, <2>4, <2>5, <2>8 DEF AbortWait, kernel
    <2> QED BY <1>4, <2>6, <2>7, <2>8
  <1> QED BY <1>3, <1>4

(* The system calls of StopUnlocked. *)
LEMMA StopRefines ==
  ASSUME IInv, ZombieInv, NEW t \in Threads,
         StopTerm(t) \/ StopPoll(t) \/ StopKill(t) \/ StopWait(t)
  PROVE  [Slot!SlotNext]_(Slot!slot)
  <1>0. TypeOK
    BY DEF IInv
  <1>1. pc[t] \in Stopping /\ shutdown_requested' = shutdown_requested
    BY DEF StopTerm, StopPoll, StopKill, StopWait, StopSignal, Stopping
  <1>2. pc[t] \in Held /\ HolderInv(t, pc[t])
    BY <1>1, HolderBefore DEF Held, Stopping
  <1>3. /\ child_pid \in Pids /\ child_pid # NoPid
        /\ \A p \in Pids : Own(p) => p = child_pid
    BY <1>0, <1>1, <1>2 DEF HolderInv, TypeOK, Stopping, Launching
  <1>4. Admitted(pc') <=> Admitted(pc)
    <2>1. \E l \in {"unlock", "stop_poll", "stop_wait", "restart_gate2"} : Goto(t, l)
      BY DEF StopTerm, StopPoll, StopKill, StopWait, StopSignal, FinishStop, Return
    <2> QED BY <1>1, <1>2, <2>1, HolderAdmits DEF Stopping, Launchers
  <1>5. \/ Daemon(proc') = Daemon(proc) /\ status'.state = status.state
        \/ /\ status.state = "kRunning"
           /\ status'.state \in {"kStopped", "kCrashed"}
           /\ Daemon(proc) = Over /\ Daemon(proc') = "absent"
    <2>1. CASE StopPoll(t) \/ StopWait(t)
      BY <1>0, <1>3, <2>1, StopCases, ForgetsSettles
    <2>2. CASE StopTerm(t) \/ StopKill(t)
      BY <1>0, <1>3, <2>2, KillTypes DEF StopTerm, StopKill, StopSignal, kernel, member
    <2> QED BY <2>1, <2>2
  <1> QED BY <1>1, <1>4, <1>5, SlotAction

LEMMA NextRefines ==
  ASSUME IInv, ZombieInv, [Next]_vars
  PROVE  [Slot!SlotNext]_(Slot!slot)
  <1>1. ASSUME NEW t \in Threads, Step(t) PROVE [Slot!SlotNext]_(Slot!slot)
    BY <1>1, GateRefines, ReapRefines, LaunchRefines, StopRefines DEF Step
  <1> QED BY <1>1, OutsideRefines DEF Next

LEMMA ZombieStep == IInv /\ ZombieInv /\ [Next]_vars => ZombieInv'
  <1> SUFFICES ASSUME IInv, ZombieInv, [Next]_vars, AutoReap,
                      NEW p \in Pids, proc'[p] = "zombie"
               PROVE  FALSE
    BY DEF ZombieInv
  <1>1. TypeOK /\ proc[p] # "zombie" /\ \A q \in Pids : proc[q] # "zombie"
    BY DEF IInv, ZombieInv
  <1>2. CASE proc' = proc
    BY <1>1, <1>2
  <1>3. ASSUME NEW q \in Pids, Collect(q) PROVE FALSE
    BY <1>1, <1>3, CollectTypes
  <1>4. ASSUME NEW q \in Pids, ChildEnds(q) PROVE FALSE
    BY <1>3, <1>4 DEF ChildEnds
  <1>5. ASSUME NEW q \in Pids, OtherProcess(q) PROVE FALSE
    BY <1>1, <1>5 DEF OtherProcess, TypeOK
  <1>6. CASE RequestShutdown \/ UNCHANGED vars
    BY <1>2, <1>6 DEF RequestShutdown, vars, kernel
  <1>7. ASSUME NEW t \in Threads, NEW m \in Methods, Call(t, m) \/ Destroy(t)
        PROVE  FALSE
    BY <1>2, <1>7 DEF Call, Destroy, kernel
  <1>8. CASE Forgets
    BY <1>2, <1>3, <1>8 DEF Forgets, kernel
  <1>9. ASSUME NEW t \in Threads, Step(t) PROVE FALSE
    <2>1. CASE \/ Acquire(t) \/ Unlock(t) \/ StartGate(t) \/ ForkFails(t)
               \/ PollDeadline(t) \/ RestartGate1(t) \/ RestartGate2(t)
      BY <1>2, <2>1 DEF Acquire, Unlock, StartGate, ForkFails, PollDeadline,
                        RestartGate1, RestartGate2, kernel
    <2>2. CASE Reap(t) \/ StartReap(t) \/ StopReap(t)
      BY <1>1, <1>2, <1>8, <2>2, ReapCases DEF Reap, StartReap, StopReap, kernel
    <2>3. CASE Fork(t)
      BY <1>1, <2>3 DEF Fork, TypeOK
    <2>4. CASE RestoreMask(t) \/ AbortKill(t) \/ StopTerm(t) \/ StopKill(t)
      BY <1>2, <2>4
      DEF RestoreMask, AbortKill, StopTerm, StopKill, StopSignal, Adopt, Kill, kernel
    <2>5. CASE AbortWait(t)
      <3>1. pid \in Pids
        BY <2>5 DEF IInv, OwnInv, AbortWait, Launching
      <3> QED BY <1>2, <1>3, <2>5, <3>1 DEF AbortWait, Adopt, kernel
    <2>6. CASE StopPoll(t) \/ StopWait(t)
      <3>1. child_pid # NoPid
        BY <2>6 DEF IInv, OwnInv, StopPoll, StopWait, Stopping
      <3> QED BY <1>1, <1>2, <1>8, <2>6, <3>1, StopCases DEF kernel
    <2> QED BY <1>9, <2>1, <2>2, <2>3, <2>4, <2>5, <2>6 DEF Step
  <1> QED BY <1>4, <1>5, <1>6, <1>7, <1>9 DEF Next, Methods

(* The controller implements the slot: the mutex, the two loads of the     *)
(* shutdown flag and the reaping hide every interleaving from its users.   *)
THEOREM RefinesDaemonSlot == Spec => ImplementsDaemonSlot
  <1>1. Init => Slot!SlotInit
    <2> SUFFICES ASSUME Init PROVE Slot!SlotInit
      OBVIOUS
    <2>1. ~ Admitted(pc)
      BY DEF Init, Admitted, Launchers
    <2>2. Daemon(proc) = "absent"
      BY DaemonOwn DEF Init
    <2>3. shutdown_requested = FALSE /\ status.state = "kStopped"
      BY DEF Init
    <2> QED BY <2>1, <2>2, <2>3 DEF Admitted, Launchers, Daemon, Slot!SlotInit
  <1>2. Init => ZombieInv
    BY DEF Init, ZombieInv
  <1>3. Spec => []ZombieInv
    BY <1>2, Inductive, ZombieStep, PTL DEF Spec
  <1> QED BY <1>1, <1>3, Inductive, NextRefines, PTL
      DEF Spec, ImplementsDaemonSlot, Slot!SlotSpec

-----------------------------------------------------------------------------
(* The verdict on a daemon that is gone *)

(* Where StopUnlocked has signalled the child. *)
Signalled == {"stop_poll", "stop_kill", "stop_wait"}

(* What the holder at l knows of the signals it sent, if nothing fails. *)
SignalsAt(l) ==
  /\ l \notin {"start_abort", "start_abort_wait"}
  /\ l = "start_restore" => sent[pid] = {}
  /\ l \in Signalled => sent[child_pid] # {}
  /\ l \notin Signalled /\ child_pid # NoPid => sent[child_pid] = {}

SignalInv ==
  /\ \A t \in Threads : pc[t] \in Held => SignalsAt(pc[t])
  /\ lock = NoThread /\ child_pid # NoPid => sent[child_pid] = {}

(* A step of the holder keeps SignalInv if it keeps the holder's part. *)
LEMMA SignalsAfter ==
  ASSUME IInv, NEW t \in Threads, pc[t] \in Held, NEW l, Goto(t, l), SignalsAt(l)',
         lock' = lock
  PROVE  SignalInv'
  <1>1. lock = t /\ \A u \in Threads \ {t} : pc[u] \notin Held
    BY DEF IInv, MutexInv
  <1>2. pc'[t] = l /\ \A u \in Threads \ {t} : pc'[u] = pc[u]
    BY DEF IInv, TypeOK, Goto
  <1> QED BY <1>1, <1>2, ProcessControllerAssumption DEF SignalInv, SignalsAt

(* A child that was forgotten, or left as it was, before any signal. *)
LEMMA ReapSignals ==
  ASSUME IInv, ~ AutoReap, ReapExitedUnlocked, child_pid # NoPid => sent[child_pid] = {}
  PROVE  child_pid' # NoPid => sent'[child_pid'] = {}
  <1>1. CASE UNCHANGED <<kernel, member>>
    BY <1>1 DEF kernel, member
  <1>2. CASE Forgets
    BY <1>2 DEF Forgets
  <1> QED BY <1>1, <1>2, ReapCases DEF IInv

(* kill() reaches the child it is meant for. *)
LEMMA KillReaches ==
  ASSUME TypeOK, NEW p \in Pids, Own(p), NEW s, Kill(p, s)
  PROVE  sent'[p] # {}
  BY DEF TypeOK, Kill, Own

LEMMA SignalStep ==
  ASSUME ~ AutoReap, ~ SyscallFaults, IInv, SignalInv, [Next]_vars
  PROVE  SignalInv'
  <1>0. TypeOK
    BY DEF IInv
  <1>1. ASSUME UNCHANGED <<sent, lock, child_pid, pid>>,
               \A t \in Threads : pc'[t] \in Held => pc'[t] = pc[t]
        PROVE  SignalInv'
    BY <1>1 DEF SignalInv, SignalsAt
  <1>2. ASSUME NEW t \in Threads, NEW m \in Methods \ {"Destroy"}, Call(t, m)
        PROVE  SignalInv'
    BY <1>0, <1>1, <1>2 DEF Call, Goto, TypeOK, Held, kernel, member
  <1>3. ASSUME NEW t \in Threads, Destroy(t) PROVE SignalInv'
    BY <1>0, <1>1, <1>3 DEF Destroy, TypeOK, Held, kernel, member
  <1>4. CASE RequestShutdown \/ UNCHANGED vars
    BY <1>1, <1>4 DEF RequestShutdown, vars, kernel, member
  <1>5. ASSUME NEW p \in Pids, ChildEnds(p) PROVE SignalInv'
    BY <1>1, <1>5 DEF ChildEnds, member
  <1>6. ASSUME NEW p \in Pids, OtherProcess(p) PROVE SignalInv'
    <2>1. /\ ~ Own(p)
          /\ \A q \in Pids \ {p} : sent'[q] = sent[q]
          /\ UNCHANGED <<lock, child_pid, pid, pc>>
      BY <1>0, <1>6 DEF OtherProcess, Own, TypeOK, member
    <2>2. child_pid # NoPid => child_pid \in Pids /\ sent'[child_pid] = sent[child_pid]
      BY <1>0, <2>1 DEF IInv, MemberInv, TypeOK
    <2>3. \A t \in Threads : pc[t] = "start_restore" => sent'[pid] = sent[pid]
      BY <2>1 DEF IInv, OwnInv, Launching
    <2>4. \A t \in Threads : pc[t] \in Signalled => child_pid # NoPid
      BY DEF IInv, OwnInv, Stopping, Signalled
    <2> QED BY <2>1, <2>2, <2>3, <2>4 DEF SignalInv, SignalsAt
  <1>7. ASSUME NEW t \in Threads, Acquire(t) PROVE SignalInv'
    <2>1. /\ lock = NoThread /\ lock' # NoThread
          /\ pc'[t] = Entry(op[t]) /\ \A u \in Threads \ {t} : pc'[u] = pc[u]
          /\ UNCHANGED <<sent, child_pid, pid>>
      BY <1>0, <1>7, ProcessControllerAssumption DEF Acquire, Goto, TypeOK, kernel, member
    <2>2. Entry(op[t]) \notin {"start_abort", "start_abort_wait", "start_restore"} \cup Signalled
      BY DEF Entry, Signalled
    <2>3. child_pid' # NoPid => sent'[child_pid'] = {}
      BY <2>1 DEF SignalInv
    <2>4. pc'[t] \notin {"start_abort", "start_abort_wait", "start_restore"} \cup Signalled
      BY <2>1, <2>2
    <2>5. \A u \in Threads \ {t} : pc'[u] \notin Held
      BY <2>1, ProcessControllerAssumption DEF IInv, MutexInv
    <2> QED BY <2>1, <2>3, <2>4, <2>5 DEF SignalInv, SignalsAt
  <1>8. ASSUME NEW t \in Threads, Unlock(t) PROVE SignalInv'
    <2>1. pc[t] \in Held /\ pc[t] \notin Signalled
      BY <1>8 DEF Unlock, Held, Signalled
    <2>2. child_pid # NoPid => sent[child_pid] = {}
      BY <2>1 DEF SignalInv, SignalsAt
    <2>3. /\ pc'[t] \notin Held /\ \A u \in Threads \ {t} : pc'[u] = pc[u]
          /\ UNCHANGED <<sent, child_pid, pid>>
      BY <1>0, <1>8 DEF Unlock, Goto, TypeOK, Held, kernel, member
    <2> QED BY <2>2, <2>3 DEF SignalInv, SignalsAt
  <1>9. ASSUME NEW t \in Threads, pc[t] \in Held PROVE SignalsAt(pc[t])
    BY <1>9 DEF SignalInv
  <1>10. ASSUME NEW t \in Threads, Step(t), ~ Acquire(t), ~ Unlock(t) PROVE SignalInv'
    <2>1. pc[t] \in Held /\ SignalsAt(pc[t]) /\ HolderInv(t, pc[t]) /\ lock' = lock
      <3>1. pc[t] \in Held /\ lock' = lock
        BY <1>10
        DEF Step, Reap, StartGate, StartReap, ForkFails, Fork, RestoreMask, AbortKill,
            AbortWait, StopReap, StopTerm, StopPoll, PollDeadline, StopKill, StopWait,
            StopSignal, RestartGate1, RestartGate2, Held
      <3> QED BY <1>9, <3>1, HolderBefore
    <2>2. ASSUME NEW l, Goto(t, l), child_pid' # NoPid => sent'[child_pid'] = {},
                 l \notin {"start_abort", "start_abort_wait", "start_restore"} \cup Signalled
          PROVE  SignalInv'
      BY <2>1, <2>2, SignalsAfter DEF SignalsAt
    <2>3. CASE \/ StartGate(t) \/ ForkFails(t) \/ RestartGate1(t) \/ RestartGate2(t)
      <3>1. /\ pc[t] \notin Signalled /\ UNCHANGED <<sent, child_pid>>
            /\ \E l \in {"unlock", "start_reap", "stop_reap", "start_gate"} : Goto(t, l)
        BY <2>3 DEF StartGate, ForkFails, RestartGate1, RestartGate2, Return, Signalled,
                    kernel, member
      <3> QED BY <2>1, <2>2, <3>1 DEF SignalsAt, Signalled
    <2>4. CASE Reap(t) \/ StartReap(t) \/ StopReap(t)
      <3>1. /\ pc[t] \notin Signalled /\ ReapExitedUnlocked
            /\ \E l \in {"unlock", "start_fork", "stop_term", "restart_gate2"} : Goto(t, l)
        BY <2>4 DEF Reap, StartReap, StopReap, FinishStop, Return, Signalled
      <3>2. child_pid' # NoPid => sent'[child_pid'] = {}
        BY <2>1, <3>1, ReapSignals DEF SignalsAt
      <3> QED BY <2>2, <3>1, <3>2 DEF Signalled
    <2>5. CASE Fork(t)
      <3>1. child_pid' = NoPid
        BY <2>1, <2>5 DEF Fork, HolderInv, member
      <3>2. sent'[pid'] = {} /\ Goto(t, "start_restore")
        BY <1>0, <2>5 DEF Fork, TypeOK
      <3> QED BY <2>1, <3>1, <3>2, SignalsAfter DEF SignalsAt, Signalled
    <2>6. CASE RestoreMask(t)
      <3>1. child_pid' = pid /\ sent' = sent /\ Goto(t, "unlock") /\ sent[pid] = {}
        BY <2>1, <2>6 DEF RestoreMask, Adopt, Return, SignalsAt, kernel
      <3> QED BY <2>2, <3>1 DEF Signalled
    <2>7. CASE AbortKill(t) \/ AbortWait(t)
      BY <2>1, <2>7 DEF AbortKill, AbortWait, SignalsAt
    <2>8. CASE StopTerm(t) \/ StopKill(t) \/ PollDeadline(t)
      <3>1. child_pid \in Pids /\ Own(child_pid)
        BY <1>0, <2>1, <2>8
        DEF HolderInv, MemberInv, StopTerm, StopKill, PollDeadline, Stopping, TypeOK
      <3>2. /\ child_pid' = child_pid /\ sent'[child_pid] # {}
            /\ \E l \in Signalled : Goto(t, l)
        BY <1>0, <2>1, <2>8, <3>1, KillReaches
        DEF StopTerm, StopKill, PollDeadline, StopSignal, SignalsAt, Signalled, kernel, member
      <3> QED BY <2>1, <3>2, SignalsAfter DEF SignalsAt, Signalled
    <2>9. CASE StopPoll(t) \/ StopWait(t)
      <3>1. child_pid' = NoPid /\ \E l \in {"unlock", "restart_gate2"} : Goto(t, l)
        BY <2>9 DEF StopPoll, StopWait, FinishStop, Return
      <3> QED BY <2>2, <3>1 DEF Signalled
    <2> QED BY <1>10, <2>3, <2>4, <2>5, <2>6, <2>7, <2>8, <2>9 DEF Step
  <1> QED BY <1>2, <1>3, <1>4, <1>5, <1>6, <1>7, <1>8, <1>10 DEF Next

(* A step that takes kRunning back, when nothing fails. *)
LEMMA VerdictStep ==
  ASSUME ~ AutoReap, ~ SyscallFaults, IInv, SignalInv, [Next]_vars,
         status.state = "kRunning", status'.state # "kRunning"
  PROVE  status'.state = "kCrashed" <=>
           sent[child_pid] = {} /\ wait_status[child_pid] # NoWaitStatus
  <1>0. TypeOK
    BY DEF IInv
  <1>1. child_pid \in Pids /\ Own(child_pid) /\ wait_status[child_pid] \in WaitStatus
    BY <1>0 DEF IInv, MemberInv, TypeOK
  <1>2. status' # status
    OBVIOUS
  <1>3. PICK t \in Threads : Step(t)
    BY <1>2 DEF Next, Call, Destroy, RequestShutdown, ChildEnds, OtherProcess, vars, member
  <1>4. Reap(t) \/ StartReap(t) \/ StopReap(t) \/ StopPoll(t) \/ StopWait(t)
    <2>1. ~ (Acquire(t) \/ Unlock(t) \/ StartGate(t) \/ ForkFails(t) \/ Fork(t)
               \/ PollDeadline(t) \/ RestartGate1(t) \/ RestartGate2(t))
      BY <1>2 DEF Acquire, Unlock, StartGate, ForkFails, Fork, PollDeadline, RestartGate1,
                  RestartGate2, member
    <2>2. ~ (StopTerm(t) \/ StopKill(t))
      BY <1>2 DEF StopTerm, StopKill, StopSignal, member
    <2>3. ~ (RestoreMask(t) \/ AbortKill(t) \/ AbortWait(t))
      <3>1. \A why : Running(why).state = "kRunning"
        BY DEF Running
      <3> QED BY <1>2, <3>1 DEF RestoreMask, AbortKill, AbortWait, Adopt, member
    <2> QED BY <1>3, <2>1, <2>2, <2>3 DEF Step
  <1>5. CASE Reap(t) \/ StartReap(t) \/ StopReap(t)
    <2>1. pc[t] \in Held \ Signalled
      BY <1>5 DEF Reap, StartReap, StopReap, Held, Signalled
    <2>2. sent[child_pid] = {}
      BY <1>1, <2>1, ProcessControllerAssumption DEF SignalInv, SignalsAt
    <2>3. status' = DecodeExitedStatus(wait_status[child_pid], FALSE)
      BY <1>1, <1>2, <1>5 DEF Reap, StartReap, StopReap, ReapExitedUnlocked, WaitPid, Own, member
    <2>4. \A ws \in WaitStatus :
            (ws.kind = "exited" /\ ws.code = 0) <=> ws = NoWaitStatus
      BY DEF WaitStatus, NoWaitStatus
    <2> QED BY <1>1, <2>2, <2>3, <2>4 DEF DecodeExitedStatus
  <1>6. CASE StopPoll(t) \/ StopWait(t)
    <2>1. pc[t] \in Held /\ pc[t] \in Signalled
      BY <1>6 DEF StopPoll, StopWait, Held, Signalled
    <2>2. sent[child_pid] # {}
      BY <2>1 DEF SignalInv, SignalsAt
    <2>3. DecodeExitedStatus(wait_status[child_pid], TRUE).state = "kStopped"
      BY DEF DecodeExitedStatus
    <2>4. Stopped.state = "kStopped"
      BY DEF Stopped
    <2>5. status'.state = "kStopped"
      BY <1>6, <2>3, <2>4 DEF StopPoll, StopWait
    <2> QED BY <2>2, <2>5
  <1> QED BY <1>4, <1>5, <1>6

(* The verdict kCrashed is given exactly to a daemon that ended abnormally *)
(* without having been asked to, wherever in a method it is noticed.       *)
THEOREM VerdictIsRight == Spec => CrashVerdict
  <1> DEFINE Reliable == ~ AutoReap /\ ~ SyscallFaults
  <1>1. Init => (Reliable => SignalInv)
    BY DEF Init, SignalInv, SignalsAt, Held
  <1>2. IInv /\ (Reliable => SignalInv) /\ [Next]_vars => (Reliable => SignalInv)'
    BY SignalStep
  <1>3. IInv /\ (Reliable => SignalInv) /\ [Next]_vars =>
          [ ~ AutoReap /\ ~ SyscallFaults
            /\ status.state = "kRunning" /\ status'.state # "kRunning" =>
              (status'.state = "kCrashed" <=>
                 /\ sent[child_pid] = {}
                 /\ wait_status[child_pid] # NoWaitStatus) ]_vars
    BY VerdictStep
  <1> QED BY <1>1, <1>2, <1>3, Inductive, PTL DEF Spec, CrashVerdict
=============================================================================
