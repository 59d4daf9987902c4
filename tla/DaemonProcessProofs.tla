------------------------- MODULE DaemonProcessProofs -------------------------
(***************************************************************************)
(* Proofs about DaemonProcess: for every mask inherited from the           *)
(* supervisor, any signals at any time, and with or without faults.        *)
(***************************************************************************)
EXTENDS DaemonProcess, TLAPS

-----------------------------------------------------------------------------
(* The inductive invariant *)

(* DaemonTypeOK in two parts, for two provers. *)
Flags == g_shutdown_requested \in BOOLEAN /\ running \in BOOLEAN

Shapes ==
  /\ original_mask \in SUBSET Signals
  /\ mask \in SUBSET Signals
  /\ disposition \in [Signals -> {"supervisor", "SIG_DFL", "daemon"}]
  /\ pending \in SUBSET Signals
  /\ sent \in SUBSET Signals
  /\ pc \in Forked \cup Main \cup {"ended"}
  /\ monitor \in {"none", "loop", "done", "joined"}
  /\ server \in {"none", "new", "started", "shut down"}
  /\ run_status \in {"none", "ok", "error"}
  /\ ended \in {"no", "killed", "aborted", "0", "1", "126", "127"}
  /\ ended = "no" <=> pc # "ended"

(* Before the monitor is started, while Run is called, and after it. *)
Early == Forked \cup {"signal_int", "signal_term", "open", "initialize", "load", "thread"}
InRun == {"validate", "new", "minimal", "startup", "iterate", "shutdown", "delete"}

(* What each part of main has of server and monitor. *)
StageInv ==
  /\ pc \in Early \cup {"validate", "new", "store", "join", "return"} => server = "none"
  /\ pc \in {"minimal", "startup"} => server = "new"
  /\ pc = "delete" => server # "started"
  /\ pc \in Early => monitor = "none"
  /\ pc = "return" => monitor = "joined"
  /\ ended \in {"0", "1"} => server = "none" /\ monitor \in {"none", "joined"}

(* Only a signal makes the flags change before Run has returned. *)
RequestInv ==
  /\ pending \subseteq sent
  /\ g_shutdown_requested => sent # {} \/ pc \in Forked \cup {"ended"}
  /\ ~ running => sent # {} \/ pc \in {"join", "return", "ended"}
  /\ pc = "shutdown" \/ run_status = "ok" => sent # {}
  /\ ended = "0" => run_status = "ok"

IInv == Flags /\ Shapes /\ StageInv /\ RequestInv

USE DEF Signals, Forked, Main, Early, InRun

LEMMA InitIInv == Init => IInv
  <1> SUFFICES ASSUME Init PROVE IInv
    OBVIOUS
  <1>1. Flags
    BY Zenon DEF Init, Flags
  <1>2. Shapes
    BY DEF Init, Shapes
  <1>3. StageInv
    BY DEF Init, StageInv
  <1>4. RequestInv
    BY DEF Init, RequestInv
  <1> QED BY <1>1, <1>2, <1>3, <1>4 DEF IInv

(* The steps of the copy of the supervisor. *)
LEMMA ForkSteps ==
  ASSUME IInv, ResetTerm \/ ResetInt \/ Unmask \/ Execv
  PROVE  IInv'
  <1>1. CASE ResetTerm
    <2>1. Flags'
      BY Zenon, <1>1 DEF IInv, Flags, ResetTerm, ResetSignal, End, signals
    <2>2. Shapes'
      BY <1>1 DEF IInv, Shapes, ResetTerm, ResetSignal, End, signals
    <2>3. StageInv'
      BY <1>1 DEF IInv, Shapes, StageInv, ResetTerm, ResetSignal, End, signals
    <2>4. RequestInv'
      BY <1>1 DEF IInv, Shapes, StageInv, RequestInv, ResetTerm, ResetSignal, End, signals
    <2> QED BY <2>1, <2>2, <2>3, <2>4 DEF IInv
  <1>2. CASE ResetInt
    <2>1. Flags'
      BY Zenon, <1>2 DEF IInv, Flags, ResetInt, ResetSignal, End, signals
    <2>2. Shapes'
      BY <1>2 DEF IInv, Shapes, ResetInt, ResetSignal, End, signals
    <2>3. StageInv'
      BY <1>2 DEF IInv, Shapes, StageInv, ResetInt, ResetSignal, End, signals
    <2>4. RequestInv'
      BY <1>2 DEF IInv, Shapes, StageInv, RequestInv, ResetInt, ResetSignal, End, signals
    <2> QED BY <2>1, <2>2, <2>3, <2>4 DEF IInv
  <1>3. CASE Unmask
    <2>1. Flags'
      BY Zenon, <1>3 DEF IInv, Flags, Unmask, End, signals
    <2>2. Shapes'
      BY <1>3 DEF IInv, Shapes, Unmask, End, signals
    <2>3. StageInv'
      BY <1>3 DEF IInv, Shapes, StageInv, Unmask, End, signals
    <2>4. RequestInv'
      BY <1>3 DEF IInv, Shapes, StageInv, RequestInv, Unmask, End, signals
    <2> QED BY <2>1, <2>2, <2>3, <2>4 DEF IInv
  <1>4. CASE Execv
    <2>1. Flags'
      BY Zenon, <1>4 DEF IInv, Flags, Execv, End, signals
    <2>2. Shapes'
      BY <1>4 DEF IInv, Shapes, Execv, End, signals
    <2>3. StageInv'
      BY <1>4 DEF IInv, Shapes, StageInv, Execv, End, signals
    <2>4. RequestInv'
      BY <1>4 DEF IInv, Shapes, StageInv, RequestInv, Execv, End, signals
    <2> QED BY <2>1, <2>2, <2>3, <2>4 DEF IInv
  <1> QED BY <1>1, <1>2, <1>3, <1>4

(* The steps of main up to the start of the monitor. *)
LEMMA SetUpSteps ==
  ASSUME IInv, HandleInt \/ HandleTerm \/ UseRepository \/ StartMonitor
  PROVE  IInv'
  <1>1. CASE HandleInt
    <2>1. Flags'
      BY Zenon, <1>1 DEF IInv, Flags, HandleInt, HandleSignal, signals
    <2>2. Shapes'
      BY <1>1 DEF IInv, Shapes, HandleInt, HandleSignal, signals
    <2>3. StageInv'
      BY <1>1 DEF IInv, Shapes, StageInv, HandleInt, HandleSignal, signals
    <2>4. RequestInv'
      BY <1>1 DEF IInv, Shapes, StageInv, RequestInv, HandleInt, HandleSignal, signals
    <2> QED BY <2>1, <2>2, <2>3, <2>4 DEF IInv
  <1>2. CASE HandleTerm
    <2>1. Flags'
      BY Zenon, <1>2 DEF IInv, Flags, HandleTerm, HandleSignal, signals
    <2>2. Shapes'
      BY <1>2 DEF IInv, Shapes, HandleTerm, HandleSignal, signals
    <2>3. StageInv'
      BY <1>2 DEF IInv, Shapes, StageInv, HandleTerm, HandleSignal, signals
    <2>4. RequestInv'
      BY <1>2 DEF IInv, Shapes, StageInv, RequestInv, HandleTerm, HandleSignal, signals
    <2> QED BY <2>1, <2>2, <2>3, <2>4 DEF IInv
  <1>3. CASE UseRepository
    <2>1. /\ UNCHANGED <<original_mask, signals, sent, running, monitor, server, run_status>>
          /\ pc \in {"open", "initialize", "load"}
          /\ \/ pc' \in {"initialize", "load", "thread"} /\ UNCHANGED ended
             \/ End("1")
      BY <1>3 DEF UseRepository
    <2>2. Flags'
      BY Zenon, <2>1 DEF IInv, Flags, signals
    <2>3. Shapes'
      BY <2>1 DEF IInv, Shapes, signals, End
    <2>4. StageInv'
      BY <2>1 DEF IInv, Shapes, StageInv, End
    <2>5. RequestInv'
      BY <2>1 DEF IInv, Shapes, StageInv, RequestInv, signals, End
    <2> QED BY <2>2, <2>3, <2>4, <2>5 DEF IInv
  <1>4. CASE StartMonitor
    <2>1. Flags'
      BY Zenon, <1>4 DEF IInv, Flags, StartMonitor, End, signals
    <2>2. Shapes'
      BY <1>4 DEF IInv, Shapes, StartMonitor, End, signals
    <2>3. StageInv'
      BY <1>4 DEF IInv, Shapes, StageInv, StartMonitor, End, signals
    <2>4. RequestInv'
      BY <1>4 DEF IInv, Shapes, StageInv, RequestInv, StartMonitor, End, signals
    <2> QED BY <2>1, <2>2, <2>3, <2>4 DEF IInv
  <1> QED BY <1>1, <1>2, <1>3, <1>4

(* The steps of OpcuaServer::Run. *)
LEMMA ServerSteps ==
  ASSUME IInv, ValidateConfig \/ SetUpServer \/ IterateEnds \/ Shutdown \/ DeleteServer
  PROVE  IInv'
  <1>1. CASE ValidateConfig
    <2>1. Flags'
      BY Zenon, <1>1 DEF IInv, Flags, ValidateConfig, RunReturns, signals
    <2>2. Shapes'
      BY <1>1 DEF IInv, Shapes, ValidateConfig, RunReturns, signals
    <2>3. StageInv'
      BY <1>1 DEF IInv, Shapes, StageInv, ValidateConfig, RunReturns, signals
    <2>4. RequestInv'
      BY <1>1 DEF IInv, Shapes, StageInv, RequestInv, ValidateConfig, RunReturns, signals
    <2> QED BY <2>1, <2>2, <2>3, <2>4 DEF IInv
  <1>2. CASE SetUpServer
    <2>1. /\ UNCHANGED <<original_mask, signals, sent, running, monitor, ended>>
          /\ pc \in {"new", "minimal", "startup"}
          /\ \/ /\ \/ pc' \in {"minimal", "startup"} /\ server' = "new"
                   \/ pc' = "iterate" /\ server' = "started"
                /\ UNCHANGED run_status
             \/ RunReturns("error") /\ UNCHANGED server
      BY <1>2 DEF SetUpServer
    <2>2. Flags'
      BY Zenon, <2>1 DEF IInv, Flags, signals
    <2>3. Shapes'
      BY <2>1 DEF IInv, Shapes, signals, RunReturns
    <2>4. StageInv'
      BY <2>1 DEF IInv, Shapes, StageInv, RunReturns
    <2>5. RequestInv'
      BY <2>1 DEF IInv, Shapes, StageInv, RequestInv, signals, RunReturns
    <2> QED BY <2>2, <2>3, <2>4, <2>5 DEF IInv
  <1>3. CASE IterateEnds
    <2>1. Flags'
      BY Zenon, <1>3 DEF IInv, Flags, IterateEnds, signals
    <2>2. Shapes'
      BY <1>3 DEF IInv, Shapes, IterateEnds, signals
    <2>3. StageInv'
      BY <1>3 DEF IInv, Shapes, StageInv, IterateEnds, signals
    <2>4. RequestInv'
      BY <1>3 DEF IInv, Shapes, StageInv, RequestInv, IterateEnds, signals
    <2> QED BY <2>1, <2>2, <2>3, <2>4 DEF IInv
  <1>4. CASE Shutdown
    <2>1. Flags'
      BY Zenon, <1>4 DEF IInv, Flags, Shutdown, RunReturns, signals
    <2>2. Shapes'
      BY <1>4 DEF IInv, Shapes, Shutdown, RunReturns, signals
    <2>3. StageInv'
      BY <1>4 DEF IInv, Shapes, StageInv, Shutdown, RunReturns, signals
    <2>4. RequestInv'
      BY <1>4 DEF IInv, Shapes, StageInv, RequestInv, Shutdown, RunReturns, signals
    <2> QED BY <2>1, <2>2, <2>3, <2>4 DEF IInv
  <1>5. CASE DeleteServer
    <2>1. Flags'
      BY Zenon, <1>5 DEF IInv, Flags, DeleteServer, signals
    <2>2. Shapes'
      BY <1>5 DEF IInv, Shapes, StageInv, DeleteServer, signals
    <2>3. StageInv'
      BY <1>5 DEF IInv, Shapes, StageInv, DeleteServer, signals
    <2>4. RequestInv'
      BY <1>5 DEF IInv, Shapes, StageInv, RequestInv, DeleteServer, signals
    <2> QED BY <2>1, <2>2, <2>3, <2>4 DEF IInv
  <1> QED BY <1>1, <1>2, <1>3, <1>4, <1>5

(* The steps of main after it. *)
LEMMA FinalSteps ==
  ASSUME IInv, StoreRunning \/ JoinMonitor \/ ReturnFromMain
  PROVE  IInv'
  <1>1. CASE StoreRunning
    <2>1. Flags'
      BY Zenon, <1>1 DEF IInv, Flags, StoreRunning, signals
    <2>2. Shapes'
      BY <1>1 DEF IInv, Shapes, StoreRunning, signals
    <2>3. StageInv'
      BY <1>1 DEF IInv, Shapes, StageInv, StoreRunning, signals
    <2>4. RequestInv'
      BY <1>1 DEF IInv, Shapes, StageInv, RequestInv, StoreRunning, signals
    <2> QED BY <2>1, <2>2, <2>3, <2>4 DEF IInv
  <1>2. CASE JoinMonitor
    <2>1. Flags'
      BY Zenon, <1>2 DEF IInv, Flags, JoinMonitor, signals
    <2>2. Shapes'
      BY <1>2 DEF IInv, Shapes, JoinMonitor, signals
    <2>3. StageInv'
      BY <1>2 DEF IInv, Shapes, StageInv, JoinMonitor, signals
    <2>4. RequestInv'
      BY <1>2 DEF IInv, Shapes, StageInv, RequestInv, JoinMonitor, signals
    <2> QED BY <2>1, <2>2, <2>3, <2>4 DEF IInv
  <1>3. CASE ReturnFromMain
    <2>1. Flags'
      BY Zenon, <1>3 DEF IInv, Flags, ReturnFromMain, End, signals
    <2>2. Shapes'
      BY <1>3 DEF IInv, Shapes, ReturnFromMain, End, signals
    <2>3. StageInv'
      BY <1>3 DEF IInv, Shapes, StageInv, ReturnFromMain, End, signals
    <2>4. RequestInv'
      BY <1>3 DEF IInv, Shapes, StageInv, RequestInv, ReturnFromMain, End, signals
    <2> QED BY <2>1, <2>2, <2>3, <2>4 DEF IInv
  <1> QED BY <1>1, <1>2, <1>3

(* The monitor thread and signals. *)
LEMMA OtherSteps ==
  ASSUME IInv, MonitorEnds \/ Killed \/ \E s \in Signals : Send(s) \/ Deliver(s)
  PROVE  IInv'
  <1>1. CASE MonitorEnds
    <2>1. Flags'
      BY Zenon, <1>1 DEF IInv, Flags, MonitorEnds, signals
    <2>2. Shapes'
      BY <1>1 DEF IInv, Shapes, MonitorEnds, signals
    <2>3. StageInv'
      BY <1>1 DEF IInv, Shapes, StageInv, MonitorEnds, signals
    <2>4. RequestInv'
      BY <1>1 DEF IInv, Shapes, StageInv, RequestInv, MonitorEnds, signals
    <2> QED BY <2>1, <2>2, <2>3, <2>4 DEF IInv
  <1>2. CASE Killed
    <2>1. Flags'
      BY Zenon, <1>2 DEF IInv, Flags, Killed, End, signals
    <2>2. Shapes'
      BY <1>2 DEF IInv, Shapes, Killed, End, signals
    <2>3. StageInv'
      BY <1>2 DEF IInv, Shapes, StageInv, Killed, End, signals
    <2>4. RequestInv'
      BY <1>2 DEF IInv, Shapes, StageInv, RequestInv, Killed, End, signals
    <2> QED BY <2>1, <2>2, <2>3, <2>4 DEF IInv
  <1>3. ASSUME NEW s \in Signals, Send(s) PROVE IInv'
    <2>1. Flags'
      BY Zenon, <1>3 DEF IInv, Flags, Send
    <2>2. Shapes'
      <3>1. pending' \in SUBSET Signals /\ sent' \in SUBSET Signals
        BY <1>3 DEF IInv, Shapes, Send
      <3>2. UNCHANGED <<original_mask, mask, disposition, pc, monitor, server,
                        run_status, ended>>
        BY <1>3 DEF Send
      <3> QED BY <3>1, <3>2 DEF IInv, Shapes
    <2>3. StageInv' /\ RequestInv'
      BY <1>3 DEF IInv, StageInv, RequestInv, Send
    <2> QED BY <2>1, <2>2, <2>3 DEF IInv
  <1>4. ASSUME NEW s \in Signals, Deliver(s) PROVE IInv'
    <2>1. Flags'
      BY Zenon, <1>4 DEF IInv, Flags, Deliver
    <2>2. /\ pending' = pending \ {s} /\ s \in pending
          /\ \/ ended' = "killed" /\ pc' = "ended"
             \/ UNCHANGED <<pc, ended>>
          /\ pc # "ended"
          /\ UNCHANGED <<original_mask, mask, disposition, sent, running, monitor, server,
                         run_status>>
      BY <1>4 DEF IInv, Shapes, Deliver, End
    <2>3. Shapes'
      <3>1. pending' \in SUBSET Signals
        BY <2>2 DEF IInv, Shapes
      <3>2. /\ pc' \in Forked \cup Main \cup {"ended"}
            /\ ended' \in {"no", "killed", "aborted", "0", "1", "126", "127"}
            /\ ended' = "no" <=> pc' # "ended"
        BY <2>2 DEF IInv, Shapes
      <3> QED BY <2>2, <3>1, <3>2 DEF IInv, Shapes
    <2>4. StageInv' /\ RequestInv'
      BY <2>2 DEF IInv, Shapes, StageInv, RequestInv
    <2> QED BY <2>1, <2>3, <2>4 DEF IInv
  <1> QED BY <1>1, <1>2, <1>3, <1>4

-----------------------------------------------------------------------------

LEMMA NextIInv == IInv /\ [Next]_vars => IInv'
  <1> SUFFICES ASSUME IInv, [Next]_vars PROVE IInv'
    OBVIOUS
  <1>1. CASE MainStep
    BY <1>1, ForkSteps, SetUpSteps, ServerSteps, FinalSteps DEF MainStep
  <1>2. CASE MonitorEnds \/ Killed \/ \E s \in Signals : Send(s) \/ Deliver(s)
    BY <1>2, OtherSteps
  <1>3. CASE UNCHANGED vars
    <2>1. Flags'
      BY Zenon, <1>3 DEF IInv, Flags, vars, signals
    <2>2. Shapes'
      BY <1>3 DEF IInv, Shapes, vars, signals
    <2>3. StageInv' /\ RequestInv'
      BY <1>3 DEF IInv, StageInv, RequestInv, vars, signals
    <2> QED BY <2>1, <2>2, <2>3 DEF IInv
  <1> QED BY <1>1, <1>2, <1>3 DEF Next

LEMMA Inductive == Spec => []IInv
  BY InitIInv, NextIInv, PTL DEF Spec

(* Every variable has its type in every reachable state: in particular no  *)
(* UA_Server is deleted while it runs.                                     *)
THEOREM DaemonTypeCorrect == Spec => []DaemonTypeOK
  <1>1. IInv => DaemonTypeOK
    BY Zenon DEF IInv, Flags, Shapes, DaemonTypeOK
  <1> QED BY <1>1, Inductive, PTL

(* Exit code 0 answers a signal and a server that ran and was shut down,   *)
(* whatever the interleaving of signals, execv, main and monitor.          *)
THEOREM ZeroMeansRequested == Spec => []ZeroOnlyOnRequest
  <1>1. IInv => ZeroOnlyOnRequest
    BY DEF IInv, RequestInv, ZeroOnlyOnRequest
  <1> QED BY <1>1, Inductive, PTL

(* No return from main leaves a server or a monitor thread behind.         *)
THEOREM ReturnIsClean == Spec => []ReturnsClean
  <1>1. IInv => ReturnsClean
    BY DEF IInv, StageInv, ReturnsClean
  <1> QED BY <1>1, Inductive, PTL
=============================================================================
