---------------------- MODULE WindowsControllerProofs ----------------------
(***************************************************************************)
(* Proofs about WindowsController for any number of threads and processes, *)
(* with or without failing calls of the Windows API.                       *)
(***************************************************************************)
EXTENDS WindowsController, TLAPS

-----------------------------------------------------------------------------
(* The inductive invariant *)

Outside == {"idle", "acquire", "destroyed"}
Starting == {"start_gate", "start_reap", "start_create", "start_running"}
Held == Starting \cup {"restart_gate1", "restart_gate2", "reap", "stop_reap",
                       "stop_terminate", "stop_wait", "close", "unlock"}
Methods == {"Start", "Stop", "Restart", "status", "Destroy"}
Results == {"none", "ok", "error", "shutting down", "already running"}

Types ==
  /\ proc \in [Processes -> {"none", "live", "exited"}]
  /\ exit_code \in [Processes -> ExitCodes \cup {0}]
  /\ doomed \subseteq Processes
  /\ process_handle \in Processes \cup {NoProcess}
  /\ state \in {"kStopped", "kRunning", "kCrashed"}
  /\ lock \in Threads \cup {NoThread}
  /\ pc \in [Threads -> Held \cup Outside]
  /\ op \in [Threads -> Methods]
  /\ ret \in [Threads -> Results]

MutexInv == \A t \in Threads : lock = t <=> pc[t] \in Held

(* process_handle_ is set exactly while status_ says kRunning ... *)
Matched == process_handle # NoProcess <=> state = "kRunning"

(* ... but between CreateProcess and the end of StartUnlocked, and after   *)
(* the destructor has closed it.                                           *)
At(t, l) ==
  /\ l \in Starting \cup {"restart_gate1", "restart_gate2", "reap"} => op[t] # "Destroy"
  /\ l = "close" => op[t] = "Destroy"
  /\ l = "start_running" => process_handle # NoProcess /\ state # "kRunning"
  /\ l = "start_create" => process_handle = NoProcess
  /\ l \in {"stop_terminate", "stop_wait"} => process_handle # NoProcess
  /\ l = "stop_wait" => process_handle \in doomed
  /\ IF op[t] = "Destroy" /\ l = "unlock" THEN process_handle = NoProcess
     ELSE l # "start_running" => Matched

HolderInv == \A t \in Threads : pc[t] \in Held => At(t, pc[t])

OpenInv == open = {process_handle} \ {NoProcess}

FreeInv ==
  lock = NoThread /\ (Threads = {} \/ \E t \in Threads : pc[t] # "destroyed") => Matched

(* The destructor is alone, and the last to leave. *)
DestroyInv ==
  /\ \A t \in Threads : op[t] = "Destroy" =>
       pc[t] # "idle" /\ \A u \in Threads \ {t} : pc[u] = "destroyed"
  /\ (\A t \in Threads : pc[t] = "destroyed") => process_handle = NoProcess

IInv == Types /\ MutexInv /\ HolderInv /\ OpenInv /\ FreeInv /\ DestroyInv

LEMMA InitIInv == Init => IInv
  <1> SUFFICES ASSUME Init PROVE IInv
    OBVIOUS
  <1> USE WindowsControllerAssumption DEF Init
  <1>1. Types
    BY DEF Types, Held, Outside, Methods, Results
  <1>2. MutexInv /\ HolderInv /\ OpenInv
    BY DEF MutexInv, HolderInv, OpenInv, Held, Starting
  <1>3. FreeInv /\ DestroyInv
    BY DEF FreeInv, DestroyInv, Matched
  <1> QED BY <1>1, <1>2, <1>3 DEF IInv

-----------------------------------------------------------------------------
(* Steps *)

(* What a holder that goes to l has to keep. *)
LEMMA HolderAfter ==
  ASSUME IInv, NEW t \in Threads, pc[t] \in Held, NEW l \in Held, Goto(t, l), ret' \in [Threads -> Results],
         proc' \in [Processes -> {"none", "live", "exited"}],
         exit_code' \in [Processes -> ExitCodes \cup {0}],
         doomed' \subseteq Processes,
         process_handle' \in Processes \cup {NoProcess},
         state' \in {"kStopped", "kRunning", "kCrashed"},
         OpenInv', At(t, l)'
  PROVE  IInv'
  <1>1. Types /\ MutexInv /\ HolderInv /\ DestroyInv
    BY DEF IInv
  <1>2. /\ lock = t /\ lock' = t /\ op' = op
        /\ pc'[t] = l /\ \A u \in Threads \ {t} : pc'[u] = pc[u] /\ pc[u] \notin Held
    BY <1>1 DEF Types, MutexInv, Goto
  <1>3. Types'
    BY <1>1 DEF Types, Goto
  <1>4. MutexInv' /\ HolderInv'
    BY <1>1, <1>2 DEF MutexInv, HolderInv
  <1>5. FreeInv'
    BY <1>2, WindowsControllerAssumption DEF FreeInv
  <1>6. DestroyInv'
    BY <1>1, <1>2 DEF DestroyInv, Held, Starting
  <1> QED BY <1>3, <1>4, <1>5, <1>6 DEF IInv

(* The verdict is given, and the handle closed. *)
LEMMA SettleEffect ==
  ASSUME Types, OpenInv, process_handle # NoProcess,
         NEW verdict \in {"kStopped", "kCrashed"}, Settle(verdict)
  PROVE  /\ proc' \in [Processes -> {"none", "live", "exited"}]
         /\ exit_code' = exit_code /\ doomed' = doomed
         /\ process_handle' = NoProcess /\ state' = verdict
         /\ OpenInv'
  BY DEF Types, OpenInv, Settle, CloseHandle

LEMMA ReapEffect ==
  ASSUME Types, OpenInv, Matched, ReapExitedUnlocked
  PROVE  /\ proc' \in [Processes -> {"none", "live", "exited"}]
         /\ exit_code' = exit_code /\ doomed' = doomed
         /\ process_handle' \in {process_handle, NoProcess}
         /\ state' \in {"kStopped", "kRunning", "kCrashed"}
         /\ OpenInv' /\ Matched'
         /\ \/ UNCHANGED <<kernel, member>>
            \/ state = "kRunning" /\ state' \in {"kStopped", "kCrashed"}
  <1>1. CASE UNCHANGED <<kernel, member>>
    BY <1>1 DEF kernel, member, Types, OpenInv, Matched
  <1>2. ASSUME process_handle # NoProcess, NEW v \in {"kStopped", "kCrashed"}, Settle(v)
        PROVE  /\ proc' \in [Processes -> {"none", "live", "exited"}]
               /\ exit_code' = exit_code /\ doomed' = doomed
               /\ process_handle' = NoProcess
               /\ state' \in {"kStopped", "kCrashed"}
               /\ OpenInv' /\ Matched'
    BY <1>2, SettleEffect DEF Matched
  <1>3. \/ UNCHANGED <<kernel, member>>
        \/ /\ state = "kRunning" /\ process_handle # NoProcess
           /\ Settle("kStopped") \/ Settle("kCrashed")
    BY DEF ReapExitedUnlocked
  <1> QED BY <1>1, <1>2, <1>3

LEMMA HolderStep ==
  ASSUME IInv, NEW t \in Threads, Step(t), ~ Acquire(t), ~ Unlock(t)
  PROVE  IInv'
  <1>0. Types /\ OpenInv
    BY DEF IInv
  <1>1. pc[t] \in Held
    BY DEF Step, Reap, StartGate, StartReap, CreateProcess, CreateFails, StartRunning,
           StopReap, TerminateProcess, StopWait, RestartGate1, RestartGate2, CloseLast,
           Gate, Held, Starting
  <1>2. At(t, pc[t])
    BY <1>1 DEF IInv, HolderInv
  <1>3. ASSUME NEW l \in Held, Continue(t, l) \/ \E r \in Results : Return(t, r) /\ l = "unlock"
        PROVE  Goto(t, l) /\ ret' \in [Threads -> Results] /\ op' = op
    BY <1>0, <1>3 DEF Continue, Return, Goto, Types
  <1>5. CASE StartGate(t) \/ RestartGate1(t) \/ RestartGate2(t) \/ CreateFails(t)
    <2>1. /\ UNCHANGED <<kernel, member>>
          /\ pc[t] \in {"start_gate", "restart_gate1", "restart_gate2", "start_create"}
          /\ \/ \E l \in {"start_reap", "stop_reap", "start_gate"} : Continue(t, l)
             \/ \E r \in Results : Return(t, r)
      BY <1>5 DEF StartGate, RestartGate1, RestartGate2, CreateFails, Gate, Results
    <2>2. op[t] # "Destroy" /\ Matched
      BY <1>2, <2>1 DEF At, Starting
    <2>3. PICK l \in {"start_reap", "stop_reap", "start_gate", "unlock"} :
            Goto(t, l) /\ ret' \in [Threads -> Results] /\ op' = op
      BY <1>3, <2>1 DEF Held, Starting
    <2>4. At(t, l)' /\ OpenInv'
      BY <1>0, <2>1, <2>2, <2>3 DEF At, Matched, OpenInv, Starting, kernel, member
    <2> QED BY <1>0, <1>1, <2>1, <2>3, <2>4, HolderAfter
        DEF Types, kernel, member, Held, Starting
  <1>6. CASE Reap(t) \/ StartReap(t) \/ StopReap(t)
    <2>1. /\ ReapExitedUnlocked
          /\ pc[t] \in {"reap", "start_reap", "stop_reap"}
          /\ op[t] = "Destroy" => pc[t] = "stop_reap"
          /\ Matched
      BY <1>2, <1>6 DEF Reap, StartReap, StopReap, At, Starting
    <2>2. /\ proc' \in [Processes -> {"none", "live", "exited"}]
          /\ exit_code' = exit_code /\ doomed' = doomed
          /\ process_handle' \in {process_handle, NoProcess}
          /\ state' \in {"kStopped", "kRunning", "kCrashed"}
          /\ OpenInv' /\ Matched'
      BY <1>0, <2>1, ReapEffect
    <2>3. \/ op[t] # "Destroy" /\ Continue(t, "unlock")
          \/ op[t] # "Destroy" /\ Return(t, "already running")
          \/ op[t] # "Destroy" /\ Return(t, "ok")
          \/ op[t] # "Destroy" /\ state' # "kRunning" /\ Continue(t, "start_create")
          \/ op[t] # "Destroy" /\ Continue(t, "restart_gate2")
          \/ op[t] = "Destroy" /\ Continue(t, "close")
          \/ state' = "kRunning" /\ Continue(t, "stop_terminate")
      BY <1>6, <2>1 DEF Reap, StartReap, StopReap, FinishStop
    <2>4. PICK l \in {"unlock", "start_create", "restart_gate2", "close", "stop_terminate"} :
            /\ Goto(t, l) /\ ret' \in [Threads -> Results] /\ op' = op
            /\ l \in {"unlock", "start_create", "restart_gate2"} => op[t] # "Destroy"
            /\ l = "start_create" => state' # "kRunning"
            /\ l = "close" => op[t] = "Destroy"
            /\ l = "stop_terminate" => state' = "kRunning"
      BY <1>3, <2>3 DEF Held, Starting, Results
    <2>5. At(t, l)'
      BY <2>2, <2>4 DEF At, Matched, Starting
    <2> QED BY <1>0, <1>1, <2>2, <2>4, <2>5, HolderAfter DEF Types, Held, Starting
  <1>7. CASE CreateProcess(t)
    <2>1. Goto(t, "start_running") /\ ret' \in [Threads -> Results] /\ op' = op
      BY <1>3, <1>7 DEF CreateProcess, Held, Starting
    <2>2. process_handle = NoProcess /\ Matched /\ op[t] # "Destroy"
      BY <1>2, <1>7 DEF CreateProcess, At, Starting
    <2>3. /\ proc' \in [Processes -> {"none", "live", "exited"}]
          /\ exit_code' \in [Processes -> ExitCodes \cup {0}]
          /\ doomed' \subseteq Processes
          /\ process_handle' \in Processes /\ open' = {process_handle'}
          /\ state' = state
      BY <1>0, <1>7, <2>2 DEF CreateProcess, Types, OpenInv
    <2>4. At(t, "start_running")' /\ OpenInv'
      BY <2>1, <2>2, <2>3, WindowsControllerAssumption DEF At, Matched, OpenInv, Starting
    <2> QED BY <1>0, <1>1, <2>1, <2>3, <2>4, HolderAfter DEF Types, Held, Starting
  <1>8. CASE StartRunning(t)
    <2>1. Goto(t, "unlock") /\ ret' \in [Threads -> Results] /\ op' = op
      BY <1>3, <1>8 DEF StartRunning, Held, Results
    <2>2. /\ process_handle # NoProcess /\ op[t] # "Destroy"
          /\ state' = "kRunning" /\ UNCHANGED <<kernel, open, process_handle>>
      BY <1>2, <1>8 DEF StartRunning, At, Starting
    <2>3. At(t, "unlock")' /\ OpenInv'
      BY <1>0, <2>1, <2>2 DEF At, Matched, OpenInv, Starting
    <2> QED BY <1>0, <1>1, <2>1, <2>2, <2>3, HolderAfter DEF Types, Held, kernel
  <1>9. ASSUME NEW r \in {"ok", "error"}, FinishStop(t, r), Matched',
               proc' \in [Processes -> {"none", "live", "exited"}],
               exit_code' = exit_code, doomed' = doomed,
               process_handle' \in Processes \cup {NoProcess},
               state' \in {"kStopped", "kRunning", "kCrashed"}, OpenInv'
        PROVE  IInv'
    <2>1. PICK l \in {"unlock", "restart_gate2", "close"} :
            /\ Goto(t, l) /\ ret' \in [Threads -> Results] /\ op' = op
            /\ l \in {"unlock", "restart_gate2"} => op[t] # "Destroy"
            /\ l = "close" => op[t] = "Destroy"
      BY <1>3, <1>9 DEF FinishStop, Held, Results
    <2>2. At(t, l)'
      BY <1>9, <2>1 DEF At, Starting
    <2> QED BY <1>0, <1>1, <1>9, <2>1, <2>2, HolderAfter DEF Types, Held, Starting
  <1>10. CASE TerminateProcess(t)
    <2>1. UNCHANGED member /\ Matched /\ process_handle # NoProcess
      BY <1>2, <1>10 DEF TerminateProcess, At, Starting
    <2>2. CASE UNCHANGED kernel /\ FinishStop(t, "error")
      BY <1>0, <1>9, <2>1, <2>2 DEF Types, OpenInv, Matched, kernel, member
    <2>3. CASE /\ doomed' = doomed \cup {process_handle}
               /\ Continue(t, "stop_wait")
               /\ UNCHANGED <<proc, exit_code>>
      <3>1. Goto(t, "stop_wait") /\ ret' \in [Threads -> Results] /\ op' = op
        BY <1>3, <2>3 DEF Held
      <3>2. At(t, "stop_wait")' /\ OpenInv'
        BY <1>0, <2>1, <2>3, <3>1 DEF At, Matched, OpenInv, Starting, member
      <3> QED BY <1>0, <1>1, <2>1, <2>3, <3>1, <3>2, HolderAfter DEF Types, Held, member
    <2> QED BY <1>10, <2>2, <2>3 DEF TerminateProcess
  <1>11. CASE StopWait(t)
    <2>1. Matched /\ process_handle # NoProcess
      BY <1>2, <1>11 DEF StopWait, At, Starting
    <2>2. CASE UNCHANGED <<kernel, member>> /\ FinishStop(t, "error")
      BY <1>0, <1>9, <2>1, <2>2 DEF Types, OpenInv, Matched, kernel, member
    <2>3. CASE Settle("kStopped") /\ FinishStop(t, "ok")
      <3>1. /\ proc' \in [Processes -> {"none", "live", "exited"}]
            /\ exit_code' = exit_code /\ doomed' = doomed
            /\ process_handle' = NoProcess /\ state' = "kStopped" /\ OpenInv'
        BY <1>0, <2>1, <2>3, SettleEffect
      <3> QED BY <1>9, <2>3, <3>1 DEF Matched
    <2> QED BY <1>11, <2>2, <2>3 DEF StopWait
  <1>12. CASE CloseLast(t)
    <2>1. Goto(t, "unlock") /\ ret' \in [Threads -> Results] /\ op' = op
      BY <1>3, <1>12 DEF CloseLast, Held
    <2>2. /\ op[t] = "Destroy" /\ process_handle' = NoProcess /\ OpenInv'
          /\ UNCHANGED <<kernel, state>>
      BY <1>0, <1>2, <1>12 DEF CloseLast, CloseHandle, OpenInv, At
    <2>3. At(t, "unlock")'
      BY <2>1, <2>2 DEF At, Starting
    <2> QED BY <1>0, <1>1, <2>1, <2>2, <2>3, HolderAfter DEF Types, Held, kernel
  <1> QED BY <1>5, <1>6, <1>7, <1>8, <1>10, <1>11, <1>12 DEF Step

(* The mutex is taken. *)
LEMMA AcquireStep ==
  ASSUME IInv, NEW t \in Threads, Acquire(t)
  PROVE  IInv'
  <1>1. Types /\ MutexInv /\ OpenInv /\ FreeInv /\ DestroyInv
    BY DEF IInv
  <1>2. /\ lock = NoThread /\ lock' = t
        /\ pc[t] = "acquire"
        /\ pc'[t] = Entry(op[t]) /\ \A u \in Threads \ {t} : pc'[u] = pc[u]
        /\ UNCHANGED <<op, proc, exit_code, doomed, open, process_handle, state>>
    BY <1>1 DEF Acquire, Types, kernel, member
  <1>3. /\ Entry(op[t]) \in {"start_gate", "restart_gate1", "reap", "stop_reap", "close"}
        /\ Entry(op[t]) \in {"start_gate", "restart_gate1", "reap"} => op[t] # "Destroy"
        /\ Entry(op[t]) = "close" => op[t] = "Destroy"
    <2>1. op[t] \in Methods
      BY <1>1 DEF Types
    <2> QED BY <2>1 DEF Entry, Methods
  <1>4. Types'
    BY <1>1, <1>2, <1>3 DEF Types, Acquire, Held, Starting, Results
  <1>5. \A u \in Threads : pc[u] \notin Held
    BY <1>1, <1>2, WindowsControllerAssumption DEF MutexInv
  <1>6. MutexInv'
    BY <1>2, <1>3, <1>5 DEF MutexInv, Held, Starting
  <1>7. HolderInv'
    <2>1. Matched
      BY <1>1, <1>2 DEF FreeInv
    <2>2. \A u \in Threads : pc'[u] \in Held => u = t
      BY <1>2, <1>5
    <2>3. /\ pc'[t] \in {"start_gate", "restart_gate1", "reap", "stop_reap", "close"}
          /\ pc'[t] \in {"start_gate", "restart_gate1", "reap"} => op[t] # "Destroy"
          /\ pc'[t] = "close" => op[t] = "Destroy"
      BY <1>2, <1>3
    <2> QED BY <1>2, <2>1, <2>2, <2>3 DEF HolderInv, At, Matched, Starting
  <1>8. OpenInv' /\ FreeInv'
    BY <1>1, <1>2, WindowsControllerAssumption DEF OpenInv, FreeInv
  <1>9. DestroyInv'
    BY <1>1, <1>2, <1>3 DEF DestroyInv
  <1> QED BY <1>4, <1>6, <1>7, <1>8, <1>9 DEF IInv

(* The mutex is released: by a method, or by the destructor. *)
LEMMA UnlockStep ==
  ASSUME IInv, NEW t \in Threads, Unlock(t)
  PROVE  IInv'
  <1>1. Types /\ MutexInv /\ OpenInv /\ HolderInv /\ DestroyInv
    BY DEF IInv
  <1>2. /\ pc[t] = "unlock" /\ lock' = NoThread
        /\ pc'[t] = IF op[t] = "Destroy" THEN "destroyed" ELSE "idle"
        /\ \A u \in Threads \ {t} : pc'[u] = pc[u] /\ pc[u] \notin Held
        /\ UNCHANGED <<op, proc, exit_code, doomed, open, process_handle, state>>
    BY <1>1 DEF Unlock, Types, MutexInv, Held, kernel, member
  <1>3. IF op[t] = "Destroy" THEN process_handle = NoProcess ELSE Matched
    BY <1>1, <1>2 DEF HolderInv, At, Held
  <1>4. Types'
    BY <1>1, <1>2 DEF Types, Unlock, Outside
  <1>5. MutexInv' /\ HolderInv'
    BY <1>2, WindowsControllerAssumption DEF MutexInv, HolderInv, Held, Starting
  <1>6. OpenInv'
    BY <1>1, <1>2 DEF OpenInv
  <1>7. FreeInv'
    BY <1>1, <1>2, <1>3 DEF FreeInv, DestroyInv, Matched
  <1>8. DestroyInv'
    BY <1>1, <1>2, <1>3 DEF DestroyInv
  <1> QED BY <1>4, <1>5, <1>6, <1>7, <1>8 DEF IInv

(* Callers, RequestShutdown and the kernel. *)
LEMMA OutsideStep ==
  ASSUME IInv,
         \/ \E t \in Threads, m \in {"Start", "Stop", "Restart", "status"} : Call(t, m)
         \/ \E t \in Threads : Destroy(t)
         \/ RequestShutdown
         \/ \E p \in Processes : ProcessEnds(p)
         \/ UNCHANGED vars
  PROVE  IInv'
  <1>1. Types /\ MutexInv /\ OpenInv /\ HolderInv /\ FreeInv /\ DestroyInv
    BY DEF IInv
  <1>2. ASSUME UNCHANGED <<lock, pc, op, ret, process_handle, state, open, doomed>>,
               proc' \in [Processes -> {"none", "live", "exited"}],
               exit_code' \in [Processes -> ExitCodes \cup {0}]
        PROVE  IInv'
    <2>1. Types' /\ MutexInv'
      BY <1>1, <1>2 DEF Types, MutexInv
    <2>2. HolderInv' /\ OpenInv'
      BY <1>1, <1>2 DEF HolderInv, At, Matched, OpenInv
    <2>3. FreeInv' /\ DestroyInv'
      BY <1>1, <1>2 DEF FreeInv, DestroyInv, Matched
    <2> QED BY <2>1, <2>2, <2>3 DEF IInv
  <1>3. CASE RequestShutdown \/ UNCHANGED vars
    BY <1>1, <1>2, <1>3 DEF RequestShutdown, vars, kernel, member, Types
  <1>4. ASSUME NEW p \in Processes, ProcessEnds(p) PROVE IInv'
    BY <1>1, <1>2, <1>4 DEF ProcessEnds, member, Types
  <1>5. ASSUME NEW t \in Threads, NEW m \in {"Start", "Stop", "Restart", "status"}, Call(t, m)
        PROVE  IInv'
    <2>1. /\ UNCHANGED <<lock, ret, process_handle, state, open, proc, exit_code, doomed>>
          /\ pc[t] = "idle" /\ pc'[t] = "acquire" /\ op'[t] = m
          /\ \A u \in Threads \ {t} : pc'[u] = pc[u] /\ op'[u] = op[u]
      BY <1>1, <1>5 DEF Call, Types, kernel, member
    <2>2. Types'
      BY <1>1, <1>5, <2>1 DEF Types, Call, Methods, Outside
    <2>3. MutexInv' /\ HolderInv'
      BY <1>1, <2>1 DEF MutexInv, HolderInv, At, Matched, Held, Starting
    <2>4. OpenInv' /\ FreeInv'
      BY <1>1, <2>1 DEF OpenInv, FreeInv, Matched
    <2>5. DestroyInv'
      BY <1>1, <2>1 DEF DestroyInv
    <2> QED BY <2>2, <2>3, <2>4, <2>5 DEF IInv
  <1>6. ASSUME NEW t \in Threads, Destroy(t) PROVE IInv'
    <2>1. /\ UNCHANGED <<lock, ret, process_handle, state, open, proc, exit_code, doomed>>
          /\ \A u \in Threads : pc[u] = "idle"
          /\ \A u \in Threads : pc'[u] = IF u = t THEN "acquire" ELSE "destroyed"
          /\ \A u \in Threads \ {t} : op'[u] = op[u]
      BY <1>1, <1>6 DEF Destroy, Types, kernel, member
    <2>2. Types'
      BY <1>1, <1>6, <2>1 DEF Types, Destroy, Methods, Outside
    <2>3. MutexInv' /\ HolderInv'
      BY <1>1, <2>1 DEF MutexInv, HolderInv, Held, Starting
    <2>4. OpenInv' /\ FreeInv'
      BY <1>1, <2>1 DEF OpenInv, FreeInv, Matched
    <2>5. DestroyInv'
      BY <1>1, <2>1 DEF DestroyInv
    <2> QED BY <2>2, <2>3, <2>4, <2>5 DEF IInv
  <1> QED BY <1>3, <1>4, <1>5, <1>6

LEMMA NextIInv == IInv /\ [Next]_vars => IInv'
  <1> SUFFICES ASSUME IInv, [Next]_vars PROVE IInv'
    OBVIOUS
  <1>1. ASSUME NEW t \in Threads, Step(t) PROVE IInv'
    BY <1>1, AcquireStep, UnlockStep, HolderStep
  <1> QED BY <1>1, OutsideStep DEF Next

LEMMA Inductive == Spec => []IInv
  BY InitIInv, NextIInv, PTL DEF Spec

-----------------------------------------------------------------------------
(* Theorems *)

(* The types, and the mutex is held from the first step of every method to *)
(* its last, whatever call of the Windows API fails.                       *)
THEOREM WindowsTypeCorrect == Spec => []WindowsTypeOK
  <1>1. IInv => WindowsTypeOK
    <2> SUFFICES ASSUME IInv PROVE WindowsTypeOK
      OBVIOUS
    <2>1. Types /\ MutexInv /\ OpenInv
      BY DEF IInv
    <2>2. open \subseteq Processes
      BY <2>1 DEF Types, OpenInv
    <2>3. \A t \in Threads : pc[t] \in Held <=> pc[t] \notin Outside
      BY <2>1 DEF Types, Held, Starting, Outside
    <2> QED BY <2>1, <2>2, <2>3 DEF Types, MutexInv, Outside, Results, WindowsTypeOK
  <1> QED BY <1>1, Inductive, PTL

(* The one open handle is process_handle_, and the destructor closes it. *)
THEOREM HandleNeverLeaks == Spec => []HandleOwned
  <1>1. IInv => HandleOwned
    <2> SUFFICES ASSUME IInv PROVE HandleOwned
      OBVIOUS
    <2>1. OpenInv /\ FreeInv /\ DestroyInv
      BY DEF IInv
    <2> QED BY <2>1 DEF OpenInv, FreeInv, DestroyInv, Matched, HandleOwned
  <1> QED BY <1>1, Inductive, PTL

(* A step that takes kRunning back gives its verdict to the process whose  *)
(* handle it holds.                                                        *)
LEMMA VerdictStep ==
  ASSUME IInv, [Next]_vars, state = "kRunning", state' # "kRunning", ~ wait_failed'
  PROVE  /\ proc[process_handle] = "exited"
         /\ state' = "kCrashed" => exit_code[process_handle] # 0 \/ OtherFaults
         /\ state' = "kStopped" =>
              exit_code[process_handle] = 0 \/ process_handle \in doomed
  <1>1. PICK t \in Threads : Step(t)
    BY DEF Next, Call, Destroy, RequestShutdown, ProcessEnds, vars, member
  <1>2. CASE StopWait(t)
    <2>1. pc[t] \in Held /\ At(t, "stop_wait")
      BY <1>2 DEF IInv, HolderInv, StopWait, Held
    <2> QED BY <1>2, <2>1 DEF StopWait, Settle, At, member
  <1>3. CASE ReapExitedUnlocked
    BY <1>3 DEF ReapExitedUnlocked, Settle, member
  <1> QED BY <1>1, <1>2, <1>3
      DEF Step, Acquire, Unlock, Reap, StartGate, StartReap, CreateProcess, CreateFails,
          StartRunning, StopReap, TerminateProcess, RestartGate1, RestartGate2, CloseLast,
          Gate, member

(* No verdict is given to a daemon that may still run, and the verdict     *)
(* fits the exit code or the TerminateProcess that came first.             *)
THEOREM VerdictsAreTrue == Spec => VerdictTrue
  <1>1. IInv /\ [Next]_vars =>
          [ state = "kRunning" /\ state' # "kRunning" /\ ~ wait_failed' =>
              /\ proc[process_handle] = "exited"
              /\ state' = "kCrashed" => exit_code[process_handle] # 0 \/ OtherFaults
              /\ state' = "kStopped" =>
                   exit_code[process_handle] = 0 \/ process_handle \in doomed ]_vars
    BY VerdictStep
  <1> QED BY <1>1, Inductive, PTL DEF Spec, VerdictTrue

(* The end of a daemon is never mistaken for STILL_ACTIVE. *)
THEOREM EndsAreNoticed == Spec => EndIsNoticed
  <1>1. ASSUME IInv, [Next]_vars, NEW t \in Threads, pc[t] = "reap", pc'[t] = "unlock",
               process_handle # NoProcess, proc[process_handle] = "exited"
        PROVE  state' # "kRunning"
    <2>1. pc[t] \in Held /\ At(t, "reap") /\ lock = t
      BY <1>1 DEF IInv, HolderInv, MutexInv, Held
    <2>2. state = "kRunning"
      BY <1>1, <2>1 DEF At, Matched
    <2>3. Types /\ \A u \in Threads \ {t} : pc[u] \notin Held
      BY <1>1, <2>1 DEF IInv, MutexInv
    <2>4. Reap(t)
      <3>1. PICK u \in Threads : Step(u)
        BY <1>1, <2>3
        DEF Next, Call, Destroy, RequestShutdown, ProcessEnds, vars, Types
      <3>2. u = t
        <4>1. CASE Acquire(u)
          BY <1>1, <2>3, <4>1 DEF Acquire, Types
        <4>2. CASE ~ Acquire(u)
          BY <2>3, <3>1, <4>2
          DEF Step, Unlock, Reap, StartGate, StartReap, CreateProcess, CreateFails,
              StartRunning, StopReap, TerminateProcess, StopWait, RestartGate1,
              RestartGate2, CloseLast, Gate, Held, Starting
        <4> QED BY <4>1, <4>2
      <3> QED BY <1>1, <3>1, <3>2
          DEF Step, Acquire, Unlock, StartGate, StartReap, CreateProcess, CreateFails,
              StartRunning, StopReap, TerminateProcess, StopWait, RestartGate1,
              RestartGate2, CloseLast, Gate
    <2> QED BY <1>1, <2>2, <2>4 DEF Reap, ReapExitedUnlocked, Settle
  <1>2. IInv /\ [Next]_vars =>
          [ \A t \in Threads :
              pc[t] = "reap" /\ pc'[t] = "unlock" /\ process_handle # NoProcess
              /\ proc[process_handle] = "exited" => state' # "kRunning" ]_vars
    BY <1>1
  <1> QED BY <1>2, Inductive, PTL DEF Spec, EndIsNoticed

(* The two together: whether a daemon has ended is answered exactly.       *)
THEOREM VerdictsAreExact == Spec => VerdictExact
  BY VerdictsAreTrue, EndsAreNoticed DEF VerdictExact

-----------------------------------------------------------------------------
(* The daemon under control *)

(* The destructor has closed the handle. *)
Gone == \E t \in Threads : op[t] = "Destroy" /\ pc[t] \in {"unlock", "destroyed"}

(* There is no process but the one of the handle, or the one that the      *)
(* destructor left, and the destructor leaves only a doomed one alive.     *)
KernelInv ==
  ~ wait_failed =>
    /\ \A p \in Processes : proc[p] # "none" => p = process_handle \/ Gone
    /\ \A p, q \in Processes : proc[p] # "none" /\ proc[q] # "none" => p = q
    /\ process_handle # NoProcess => proc[process_handle] # "none"
    /\ \A t \in Threads :
         pc[t] = "close" /\ process_handle # NoProcess /\ proc[process_handle] = "live" =>
           process_handle \in doomed \/ OtherFaults
    /\ Gone => \A p \in Processes : proc[p] = "live" => p \in doomed \/ OtherFaults

Launchers == {"start_reap", "start_create"}

(* What a step of the holder that goes to l does to the daemon, as long as *)
(* no wait fails: nothing but doom it, ...                                 *)
Leaves(t, l) ==
  /\ UNCHANGED <<proc, process_handle, state>>
  /\ doomed \subseteq doomed'
  /\ l = "unlock" => op[t] # "Destroy"
  /\ l = "close" =>
       \/ process_handle = NoProcess \/ proc[process_handle] # "live"
       \/ process_handle \in doomed \/ OtherFaults
  /\ l \in Launchers /\ pc[t] \notin Launchers => ~ shutdown_requested

(* ... give it its verdict when it has ended, ...                          *)
Judges(t, l) ==
  /\ process_handle # NoProcess /\ proc[process_handle] = "exited"
  /\ proc' = [proc EXCEPT ![process_handle] = "none"]
  /\ process_handle' = NoProcess
  /\ state = "kRunning" /\ state' \in {"kStopped", "kCrashed"}
  /\ doomed' = doomed
  /\ l = "unlock" => op[t] # "Destroy"
  /\ pc[t] \in Launchers <=> l \in Launchers

(* ... create it where there is none, ...                                  *)
Creates(t, l) ==
  /\ op[t] # "Destroy"
  /\ process_handle = NoProcess /\ process_handle' \in Processes
  /\ proc' = [proc EXCEPT ![process_handle'] = "live"]
  /\ state # "kRunning" /\ state' = state
  /\ pc[t] \in Launchers /\ l = "start_running"

(* ... announce it, ...                                                    *)
Announces(t, l) ==
  /\ op[t] # "Destroy"
  /\ UNCHANGED <<proc, process_handle, doomed>>
  /\ process_handle # NoProcess
  /\ state # "kRunning" /\ state' = "kRunning"
  /\ pc[t] = "start_running" /\ l = "unlock"

(* ... or leave it alone for good.                                         *)
Closes(t, l) ==
  /\ op[t] = "Destroy" /\ pc[t] = "close" /\ l = "unlock"
  /\ UNCHANGED <<proc, doomed, state>>
  /\ process_handle' = NoProcess

LEMMA ReapJudges ==
  ASSUME Types, ReapExitedUnlocked, ~ wait_failed'
  PROVE  \/ UNCHANGED <<proc, doomed, process_handle, state>>
         \/ /\ process_handle # NoProcess /\ proc[process_handle] = "exited"
            /\ proc' = [proc EXCEPT ![process_handle] = "none"]
            /\ process_handle' = NoProcess /\ doomed' = doomed
            /\ state = "kRunning" /\ state' \in {"kStopped", "kCrashed"}
  BY DEF ReapExitedUnlocked, Settle, CloseHandle, kernel, member

LEMMA HolderEffect ==
  ASSUME IInv, NEW t \in Threads, Step(t), ~ Acquire(t), ~ Unlock(t), ~ wait_failed'
  PROVE  /\ pc[t] \in Held \ {"unlock"} /\ ~ wait_failed
         /\ \E l \in Held : /\ Goto(t, l)
                            /\ \/ Leaves(t, l) \/ Judges(t, l) \/ Creates(t, l)
                               \/ Announces(t, l) \/ Closes(t, l)
  <1>0. Types
    BY DEF IInv
  <1>1. pc[t] \in Held \ {"unlock"}
    BY DEF Step, Reap, StartGate, StartReap, CreateProcess, CreateFails, StartRunning,
           StopReap, TerminateProcess, StopWait, RestartGate1, RestartGate2, CloseLast,
           Gate, Held, Starting
  <1>2. At(t, pc[t])
    BY <1>1 DEF IInv, HolderInv
  <1> DEFINE Effect(l) ==
        /\ Goto(t, l)
        /\ \/ Leaves(t, l) \/ Judges(t, l) \/ Creates(t, l)
           \/ Announces(t, l) \/ Closes(t, l)
             Claim == ~ wait_failed /\ \E l \in Held : Effect(l)
  <1>4. ASSUME NEW r, FinishStop(t, r)
        PROVE  \/ Goto(t, "restart_gate2") /\ op[t] # "Destroy"
               \/ Goto(t, "close") /\ op[t] = "Destroy"
               \/ Goto(t, "unlock") /\ op[t] # "Destroy"
    BY <1>4 DEF FinishStop, Continue, Return
  <1>5. CASE StartGate(t) \/ RestartGate1(t) \/ RestartGate2(t) \/ CreateFails(t)
    <2>1. /\ UNCHANGED <<kernel, member>>
          /\ pc[t] \in {"start_gate", "restart_gate1", "restart_gate2", "start_create"}
          /\ \/ /\ ~ shutdown_requested
                /\ Goto(t, "start_reap") \/ Goto(t, "stop_reap") \/ Goto(t, "start_gate")
             \/ Goto(t, "unlock")
      BY <1>5 DEF StartGate, RestartGate1, RestartGate2, CreateFails, Gate, Continue, Return
    <2>2. op[t] # "Destroy"
      BY <1>2, <2>1 DEF At, Starting
    <2>3. Claim
      BY <2>1, <2>2 DEF Leaves, Launchers, Held, Starting, kernel, member
    <2> QED BY <1>1, <2>3
  <1>6. CASE Reap(t) \/ StartReap(t)
    <2>1. /\ ReapExitedUnlocked
          /\ \/ pc[t] = "reap" /\ Goto(t, "unlock")
             \/ pc[t] = "start_reap" /\ state' = "kRunning" /\ Goto(t, "unlock")
             \/ pc[t] = "start_reap" /\ state' # "kRunning" /\ Goto(t, "start_create")
      BY <1>6 DEF Reap, StartReap, Continue, Return
    <2>2. op[t] # "Destroy"
      BY <1>2, <2>1 DEF At, Starting
    <2>3. ~ wait_failed
      BY <2>1 DEF ReapExitedUnlocked, Settle, member
    <2>4. Claim
      BY <1>0, <2>1, <2>2, <2>3, ReapJudges
      DEF Leaves, Judges, Launchers, Held, Starting
    <2> QED BY <1>1, <2>4
  <1>7. CASE StopReap(t)
    <2>1. /\ ReapExitedUnlocked /\ pc[t] = "stop_reap" /\ Matched
          /\ \/ state' = "kRunning" /\ Goto(t, "stop_terminate")
             \/ state' # "kRunning" /\ Goto(t, "restart_gate2") /\ op[t] # "Destroy"
             \/ state' # "kRunning" /\ Goto(t, "close") /\ op[t] = "Destroy"
             \/ state' # "kRunning" /\ Goto(t, "unlock") /\ op[t] # "Destroy"
      BY <1>2, <1>4, <1>7 DEF StopReap, At, Starting, Continue, Return
    <2>2. ~ wait_failed
      BY <2>1 DEF ReapExitedUnlocked, Settle, member
    <2>3. Claim
      BY <1>0, <2>1, <2>2, ReapJudges
      DEF Leaves, Judges, Launchers, Held, Starting, Matched
    <2> QED BY <1>1, <2>3
  <1>8. CASE CreateProcess(t)
    <2>1. op[t] # "Destroy" /\ process_handle = NoProcess /\ state # "kRunning"
      BY <1>2, <1>8 DEF CreateProcess, At, Starting, Matched
    <2>2. Goto(t, "start_running") /\ pc[t] = "start_create" /\ state' = state
          /\ wait_failed' = wait_failed
      BY <1>8 DEF CreateProcess, Continue, Return
    <2>3. /\ process_handle' \in Processes
          /\ proc' = [proc EXCEPT ![process_handle'] = "live"]
      BY <1>8 DEF CreateProcess
    <2>4. Claim
      BY <2>1, <2>2, <2>3 DEF Creates, Launchers, Held, Starting
    <2> QED BY <1>1, <2>4
  <1>9. CASE StartRunning(t)
    <2>1. /\ op[t] # "Destroy" /\ process_handle # NoProcess /\ state # "kRunning"
          /\ Goto(t, "unlock")
      BY <1>2, <1>9 DEF StartRunning, At, Starting, Continue, Return
    <2>2. Claim
      BY <1>9, <2>1 DEF StartRunning, Announces, Held, kernel
    <2> QED BY <1>1, <2>2
  <1>10. CASE TerminateProcess(t)
    <2>1. pc[t] = "stop_terminate" /\ UNCHANGED member /\ process_handle # NoProcess
      BY <1>2, <1>10 DEF TerminateProcess, At
    <2>2. \/ /\ Goto(t, "stop_wait") /\ proc' = proc
             /\ doomed' = doomed \cup {process_handle}
          \/ /\ proc[process_handle] # "live" \/ OtherFaults
             /\ UNCHANGED kernel
             /\ \/ Goto(t, "restart_gate2") /\ op[t] # "Destroy"
                \/ Goto(t, "close") /\ op[t] = "Destroy"
                \/ Goto(t, "unlock") /\ op[t] # "Destroy"
      BY <1>4, <1>10 DEF TerminateProcess, Continue, Return
    <2>3. Claim
      BY <2>1, <2>2 DEF Leaves, Launchers, Held, Starting, kernel, member
    <2> QED BY <1>1, <2>3
  <1>11. CASE StopWait(t)
    <2>1. /\ pc[t] = "stop_wait" /\ process_handle # NoProcess /\ process_handle \in doomed
          /\ state = "kRunning"
      BY <1>2, <1>11 DEF StopWait, At, Starting, Matched
    <2>2. \/ Goto(t, "restart_gate2") /\ op[t] # "Destroy"
          \/ Goto(t, "close") /\ op[t] = "Destroy"
          \/ Goto(t, "unlock") /\ op[t] # "Destroy"
      BY <1>4, <1>11 DEF StopWait
    <2>3. /\ wait_failed' = wait_failed
          /\ \/ UNCHANGED <<kernel, member>>
             \/ proc[process_handle] = "exited" /\ Settle("kStopped")
      BY <1>11 DEF StopWait, member
    <2>4. Claim
      BY <2>1, <2>2, <2>3
      DEF Leaves, Judges, Settle, CloseHandle, Launchers, Held, Starting, kernel, member
    <2> QED BY <1>1, <2>4
  <1>12. CASE CloseLast(t)
    <2>1. op[t] = "Destroy" /\ Goto(t, "unlock")
      BY <1>2, <1>12 DEF CloseLast, At, Continue, Return
    <2>2. Claim
      BY <1>12, <2>1 DEF CloseLast, CloseHandle, Closes, Held, kernel
    <2> QED BY <1>1, <2>2
  <1> QED BY <1>5, <1>6, <1>7, <1>8, <1>9, <1>10, <1>11, <1>12 DEF Step

(* Once the destructor has closed the handle, nobody else is inside. *)
LEMMA NotGone ==
  ASSUME IInv, NEW t \in Threads, pc[t] \notin {"unlock", "destroyed"}
  PROVE  ~ Gone
  BY DEF Gone, IInv, DestroyInv

LEMMA HolderKernel ==
  ASSUME IInv, KernelInv, NEW t \in Threads, Step(t), ~ Acquire(t), ~ Unlock(t),
         ~ wait_failed'
  PROVE  KernelInv'
  <1>1. Types /\ DestroyInv /\ ~ wait_failed /\ pc[t] \in Held \ {"unlock"}
    BY HolderEffect DEF IInv
  <1>2. PICK l \in Held :
          /\ Goto(t, l)
          /\ \/ Leaves(t, l) \/ Judges(t, l) \/ Creates(t, l)
             \/ Announces(t, l) \/ Closes(t, l)
    BY HolderEffect
  <1>3. /\ op' = op /\ pc'[t] = l
        /\ \A u \in Threads \ {t} : pc'[u] = pc[u] /\ pc[u] # "close"
    <2>1. \A u \in Threads \ {t} : pc[u] \notin Held
      BY <1>1 DEF IInv, MutexInv
    <2> QED BY <1>1, <1>2, <2>1 DEF Goto, Types, Held
  <1>4. ~ Gone
    BY <1>1, NotGone DEF Held, Starting
  <1>5. Gone' => l = "unlock" /\ op[t] = "Destroy"
    BY <1>1, <1>2, <1>3 DEF Gone, DestroyInv, Held, Starting
  <1>6. /\ \A p \in Processes : proc[p] # "none" => p = process_handle
        /\ process_handle # NoProcess => proc[process_handle] # "none"
    BY <1>1, <1>4 DEF KernelInv
  <1>7. \A u \in Threads : pc'[u] = "close" => u = t /\ l = "close"
    BY <1>3
  <1>8. CASE Leaves(t, l)
    <2>1. ~ Gone'
      BY <1>5, <1>8 DEF Leaves
    <2> QED BY <1>6, <1>7, <1>8, <2>1 DEF Leaves, KernelInv
  <1>9. CASE Judges(t, l)
    <2>1. ~ Gone'
      BY <1>5, <1>9 DEF Judges
    <2>2. \A p \in Processes : proc'[p] = "none"
      BY <1>1, <1>6, <1>9 DEF Judges, Types
    <2> QED BY <1>9, <2>1, <2>2 DEF Judges, KernelInv
  <1>10. CASE Creates(t, l)
    <2>1. ~ Gone'
      BY <1>5, <1>10 DEF Creates
    <2>2. \A p \in Processes : proc[p] = "none"
      BY <1>6, <1>10, WindowsControllerAssumption DEF Creates
    <2>3. \A p \in Processes : proc'[p] = IF p = process_handle' THEN "live" ELSE "none"
      BY <1>1, <1>10, <2>2 DEF Creates, Types
    <2> QED BY <1>7, <1>10, <2>1, <2>3 DEF Creates, KernelInv
  <1>11. CASE Announces(t, l)
    <2>1. ~ Gone'
      BY <1>5, <1>11 DEF Announces
    <2> QED BY <1>6, <1>7, <1>11, <2>1 DEF Announces, KernelInv
  <1>12. CASE Closes(t, l)
    <2>1. Gone'
      BY <1>3, <1>12 DEF Closes, Gone
    <2>2. \A p \in Processes : proc[p] = "live" => p \in doomed \/ OtherFaults
      BY <1>1, <1>6, <1>12, WindowsControllerAssumption DEF Closes, KernelInv
    <2> QED BY <1>6, <1>12, <2>1, <2>2 DEF Closes, KernelInv
  <1> QED BY <1>2, <1>8, <1>9, <1>10, <1>11, <1>12

(* The other steps only end processes, and do not touch the handle. *)
LEMMA OthersKernel ==
  ASSUME IInv, KernelInv,
         \/ \E t \in Threads : Acquire(t) \/ Unlock(t) \/ Destroy(t)
         \/ \E t \in Threads, m \in {"Start", "Stop", "Restart", "status"} : Call(t, m)
         \/ RequestShutdown
         \/ \E p \in Processes : ProcessEnds(p)
         \/ UNCHANGED vars
  PROVE  KernelInv'
  <1>0. Types /\ DestroyInv /\ FreeInv
    BY DEF IInv
  <1>1. ASSUME UNCHANGED <<proc, doomed, process_handle, wait_failed>>,
               Gone' <=> Gone,
               process_handle = NoProcess \/ \A t \in Threads : pc'[t] = "close" => pc[t] = "close"
        PROVE  KernelInv'
    BY <1>1 DEF KernelInv
  <1>2. ASSUME NEW t \in Threads, Acquire(t) PROVE KernelInv'
    <2>1. /\ UNCHANGED <<proc, doomed, process_handle, wait_failed, op>>
          /\ pc[t] = "acquire" /\ pc'[t] = Entry(op[t])
          /\ \A u \in Threads \ {t} : pc'[u] = pc[u]
      BY <1>0, <1>2 DEF Acquire, Types, kernel, member
    <2>2. Entry(op[t]) \in {"start_gate", "restart_gate1", "reap", "stop_reap", "close"}
      BY DEF Entry
    <2>3. Entry(op[t]) = "close" => state # "kRunning"
      BY DEF Entry
    <2>4. Matched
      BY <1>0, <1>2 DEF Acquire, FreeInv
    <2>5. Gone' <=> Gone
      BY <2>1, <2>2 DEF Gone
    <2> QED BY <1>1, <2>1, <2>3, <2>4, <2>5 DEF Matched
  <1>3. ASSUME NEW t \in Threads, Unlock(t) PROVE KernelInv'
    <2>1. /\ UNCHANGED <<proc, doomed, process_handle, wait_failed, op>>
          /\ pc[t] = "unlock" /\ pc'[t] = IF op[t] = "Destroy" THEN "destroyed" ELSE "idle"
          /\ \A u \in Threads \ {t} : pc'[u] = pc[u]
      BY <1>0, <1>3 DEF Unlock, Types, kernel, member
    <2>2. Gone' <=> Gone
      BY <2>1 DEF Gone
    <2> QED BY <1>1, <2>1, <2>2
  <1>4. ASSUME NEW t \in Threads, Destroy(t) PROVE KernelInv'
    <2>1. /\ UNCHANGED <<proc, doomed, process_handle, wait_failed>>
          /\ \A u \in Threads : pc[u] = "idle" /\ op[u] # "Destroy"
          /\ \A u \in Threads : pc'[u] = IF u = t THEN "acquire" ELSE "destroyed"
          /\ \A u \in Threads \ {t} : op'[u] = op[u]
      BY <1>0, <1>4 DEF Destroy, Types, DestroyInv, kernel, member
    <2>2. ~ Gone' /\ ~ Gone
      BY <2>1 DEF Gone
    <2> QED BY <1>1, <2>1, <2>2
  <1>5. ASSUME NEW t \in Threads, NEW m \in {"Start", "Stop", "Restart", "status"}, Call(t, m)
        PROVE  KernelInv'
    <2>1. /\ UNCHANGED <<proc, doomed, process_handle, wait_failed>>
          /\ pc[t] = "idle" /\ pc'[t] = "acquire" /\ op'[t] = m
          /\ \A u \in Threads \ {t} : pc'[u] = pc[u] /\ op'[u] = op[u]
      BY <1>0, <1>5 DEF Call, Types, kernel, member
    <2>2. Gone' <=> Gone
      BY <2>1 DEF Gone
    <2> QED BY <1>1, <2>1, <2>2
  <1>6. CASE RequestShutdown \/ UNCHANGED vars
    BY <1>1, <1>6 DEF RequestShutdown, vars, kernel, member, Gone
  <1>7. ASSUME NEW p \in Processes, ProcessEnds(p) PROVE KernelInv'
    <2>1. /\ proc[p] = "live"
          /\ \A q \in Processes : proc'[q] = IF q = p THEN "exited" ELSE proc[q]
          /\ UNCHANGED <<doomed, process_handle, wait_failed, pc, op>>
      BY <1>0, <1>7 DEF ProcessEnds, Types, member
    <2>2. /\ \A q \in Processes : proc'[q] # "none" <=> proc[q] # "none"
          /\ \A q \in Processes : proc'[q] = "live" => proc[q] = "live"
          /\ Gone' <=> Gone
          /\ process_handle \in Processes \cup {NoProcess}
      BY <1>0, <2>1 DEF Gone, Types
    <2> QED BY <2>1, <2>2 DEF KernelInv
  <1> QED BY <1>2, <1>3, <1>4, <1>5, <1>6, <1>7

LEMMA KernelAlways == Spec => []KernelInv
  <1>1. Init => KernelInv
    BY DEF Init, KernelInv, Gone
  <1>2. IInv /\ KernelInv /\ [Next]_vars => KernelInv'
    <2> SUFFICES ASSUME IInv, KernelInv, [Next]_vars, ~ wait_failed' PROVE KernelInv'
      BY DEF KernelInv
    <2> QED BY HolderKernel, OthersKernel DEF Next
  <1> QED BY <1>1, <1>2, Inductive, PTL DEF Spec

(* As long as no wait fails there is one daemon, and it is the one of the  *)
(* handle: only the destructor leaves one behind, terminated or refused.   *)
THEOREM DaemonUnderControl == Spec => []DaemonControlled
  <1>1. IInv /\ KernelInv => DaemonControlled
    <2> SUFFICES ASSUME IInv, KernelInv PROVE DaemonControlled
      OBVIOUS
    <2>1. OpenInv
      BY DEF IInv
    <2> QED BY <2>1, WindowsControllerAssumption
        DEF OpenInv, KernelInv, Gone, DaemonControlled
  <1> QED BY <1>1, Inductive, KernelAlways, PTL

-----------------------------------------------------------------------------
(* The refinement of DaemonSlot *)

Admitted(points) == \E t \in Threads : points[t] \in Launchers

Daemon(table) ==
  IF \E p \in Processes : table[p] = "live" THEN "alive"
  ELSE IF \E p \in Processes : table[p] = "exited" THEN "ended"
  ELSE "absent"

(* A step of DaemonSlot, action by action; Undo has no counterpart. *)
LEMMA SlotAction ==
  ASSUME \/ /\ shutdown_requested' \in {shutdown_requested, TRUE}   \* Close, or none
            /\ Admitted(pc') <=> Admitted(pc)
            /\ Daemon(proc') = Daemon(proc) /\ state' = state
         \/ /\ Admitted(pc') => Admitted(pc) \/ ~ shutdown_requested \* Admit, Abandon
            /\ shutdown_requested' = shutdown_requested
            /\ Daemon(proc') = Daemon(proc) /\ state' = state
         \/ /\ Admitted(pc) /\ ~ Admitted(pc')                      \* Launch
            /\ Daemon(proc) = "absent" /\ Daemon(proc') = "alive"
            /\ state # "kRunning" /\ state' = state
            /\ shutdown_requested' = shutdown_requested
         \/ /\ state # "kRunning" /\ state' = "kRunning"            \* Announce
            /\ Daemon(proc) # "absent" /\ Daemon(proc') = Daemon(proc)
            /\ Admitted(pc') <=> Admitted(pc)
            /\ shutdown_requested' = shutdown_requested
         \/ /\ Daemon(proc) = "alive" /\ Daemon(proc') = "ended"     \* Die
            /\ Admitted(pc') <=> Admitted(pc)
            /\ state' = state
            /\ shutdown_requested' = shutdown_requested
         \/ /\ state = "kRunning" /\ state' \in {"kStopped", "kCrashed"} \* Settle
            /\ Daemon(proc) = "ended" /\ Daemon(proc') = "absent"
            /\ Admitted(pc') <=> Admitted(pc)
            /\ shutdown_requested' = shutdown_requested
  PROVE  [Slot!SlotNext]_(Slot!slot)
  BY DEF Admitted, Daemon, Launchers, Slot!SlotNext, Slot!slot, Slot!Close,
     Slot!Admit, Slot!Abandon, Slot!Launch, Slot!Announce, Slot!Die, Slot!Settle

LEMMA HolderRefines ==
  ASSUME IInv, KernelInv, NEW t \in Threads, Step(t), ~ Acquire(t), ~ Unlock(t),
         ~ wait_failed'
  PROVE  [Slot!SlotNext]_(Slot!slot)
  <1>1. Types /\ ~ wait_failed /\ pc[t] \in Held \ {"unlock"}
    BY HolderEffect DEF IInv
  <1>2. PICK l \in Held :
          /\ Goto(t, l)
          /\ \/ Leaves(t, l) \/ Judges(t, l) \/ Creates(t, l)
             \/ Announces(t, l) \/ Closes(t, l)
    BY HolderEffect
  <1>3. /\ Admitted(pc) <=> pc[t] \in Launchers
        /\ Admitted(pc') <=> l \in Launchers
        /\ shutdown_requested' = shutdown_requested
    <2>1. \A u \in Threads \ {t} : pc[u] \notin Launchers
      BY <1>1 DEF IInv, MutexInv, Held, Starting, Launchers
    <2>2. /\ pc'[t] = l /\ \A u \in Threads \ {t} : pc'[u] = pc[u]
          /\ shutdown_requested' = shutdown_requested
      BY <1>1, <1>2 DEF Goto, Types
    <2> QED BY <2>1, <2>2 DEF Admitted
  <1>4. ~ Gone
    BY <1>1, NotGone DEF Held, Starting
  <1>5. /\ \A p \in Processes : proc[p] # "none" => p = process_handle
        /\ process_handle # NoProcess => proc[process_handle] # "none"
    BY <1>1, <1>4 DEF KernelInv
  <1>6. CASE Leaves(t, l)
    BY <1>3, <1>6, SlotAction DEF Leaves
  <1>7. CASE Judges(t, l)
    <2>1. \A p \in Processes : proc'[p] = "none" /\ proc[p] # "live"
      BY <1>1, <1>5, <1>7 DEF Judges, Types
    <2>2. process_handle \in Processes /\ proc[process_handle] = "exited"
      BY <1>1, <1>7 DEF Judges, Types
    <2>3. Daemon(proc) = "ended" /\ Daemon(proc') = "absent"
      BY <2>1, <2>2 DEF Daemon
    <2> QED BY <1>3, <1>7, <2>3, SlotAction DEF Judges
  <1>8. CASE Creates(t, l)
    <2>1. \A p \in Processes : proc[p] = "none"
      BY <1>5, <1>8, WindowsControllerAssumption DEF Creates
    <2>2. process_handle' \in Processes /\ proc'[process_handle'] = "live"
      BY <1>1, <1>8 DEF Creates, Types
    <2>3. Daemon(proc) = "absent" /\ Daemon(proc') = "alive"
      BY <2>1, <2>2 DEF Daemon
    <2>4. l \notin Launchers
      BY <1>8 DEF Creates, Launchers
    <2> QED BY <1>3, <1>8, <2>3, <2>4, SlotAction DEF Creates
  <1>9. CASE Announces(t, l)
    <2>1. process_handle \in Processes /\ proc[process_handle] \in {"live", "exited"}
      BY <1>1, <1>5, <1>9 DEF Announces, Types
    <2>2. Daemon(proc) # "absent"
      BY <2>1 DEF Daemon
    <2>3. pc[t] \notin Launchers /\ l \notin Launchers
      BY <1>9 DEF Announces, Launchers
    <2> QED BY <1>3, <1>9, <2>2, <2>3, SlotAction DEF Announces
  <1>10. CASE Closes(t, l)
    <2>1. pc[t] \notin Launchers /\ l \notin Launchers
      BY <1>10 DEF Closes, Launchers
    <2> QED BY <1>3, <1>10, <2>1, SlotAction DEF Closes
  <1> QED BY <1>2, <1>6, <1>7, <1>8, <1>9, <1>10

LEMMA OthersRefine ==
  ASSUME IInv, KernelInv, ~ wait_failed',
         \/ \E t \in Threads : Acquire(t) \/ Unlock(t) \/ Destroy(t)
         \/ \E t \in Threads, m \in {"Start", "Stop", "Restart", "status"} : Call(t, m)
         \/ RequestShutdown
         \/ \E p \in Processes : ProcessEnds(p)
         \/ UNCHANGED vars
  PROVE  [Slot!SlotNext]_(Slot!slot)
  <1>0. Types
    BY DEF IInv
  <1>1. ASSUME UNCHANGED <<proc, state, shutdown_requested>>,
               \A t \in Threads : pc'[t] \in Launchers <=> pc[t] \in Launchers
        PROVE  [Slot!SlotNext]_(Slot!slot)
    <2>1. Admitted(pc') <=> Admitted(pc)
      BY <1>1 DEF Admitted
    <2> QED BY <1>1, <2>1, SlotAction
  <1>2. ASSUME NEW t \in Threads, Acquire(t) \/ Unlock(t) \/ Destroy(t)
        PROVE  [Slot!SlotNext]_(Slot!slot)
    <2>1. Entry(op[t]) \notin Launchers
      BY DEF Entry, Launchers
    <2>2. \A u \in Threads : pc'[u] \in Launchers <=> pc[u] \in Launchers
      BY <1>0, <1>2, <2>1 DEF Acquire, Unlock, Destroy, Types, Launchers
    <2> QED BY <1>1, <1>2, <2>2 DEF Acquire, Unlock, Destroy, kernel, member
  <1>3. ASSUME NEW t \in Threads, NEW m \in {"Start", "Stop", "Restart", "status"}, Call(t, m)
        PROVE  [Slot!SlotNext]_(Slot!slot)
    <2>1. \A u \in Threads : pc'[u] \in Launchers <=> pc[u] \in Launchers
      BY <1>0, <1>3 DEF Call, Types, Launchers
    <2> QED BY <1>1, <1>3, <2>1 DEF Call, kernel, member
  <1>4. CASE RequestShutdown
    BY <1>4, SlotAction DEF RequestShutdown, kernel, member
  <1>5. CASE UNCHANGED vars
    BY <1>1, <1>5 DEF vars, kernel, member
  <1>6. ASSUME NEW p \in Processes, ProcessEnds(p) PROVE [Slot!SlotNext]_(Slot!slot)
    <2>1. /\ proc[p] = "live"
          /\ \A q \in Processes : proc'[q] = IF q = p THEN "exited" ELSE proc[q]
          /\ UNCHANGED <<shutdown_requested, state, pc, wait_failed>>
      BY <1>0, <1>6 DEF ProcessEnds, Types, member
    <2>2. \A q \in Processes : proc[q] # "none" => q = p
      BY <2>1 DEF KernelInv
    <2>3. Daemon(proc) = "alive" /\ Daemon(proc') = "ended"
      BY <2>1, <2>2 DEF Daemon
    <2> QED BY <2>1, <2>3, SlotAction
  <1> QED BY <1>2, <1>3, <1>4, <1>5, <1>6

(* The Windows half keeps the promise of the POSIX half, up to a failing   *)
(* WaitForSingleObject: every other step is one of DaemonSlot, or none.    *)
THEOREM RefinesSlot == Spec => ImplementsSlot
  <1>1. Init => Slot!SlotInit
    BY DEF Init, Slot!SlotInit
  <1>2. IInv /\ KernelInv /\ [Next]_vars => [wait_failed' \/ Slot!SlotNext]_(Slot!slot)
    <2> SUFFICES ASSUME IInv, KernelInv, [Next]_vars, ~ wait_failed'
                 PROVE  [Slot!SlotNext]_(Slot!slot)
      OBVIOUS
    <2> QED BY HolderRefines, OthersRefine DEF Next
  <1> QED BY <1>1, <1>2, Inductive, KernelAlways, PTL DEF Spec, ImplementsSlot
=============================================================================
