----------------------------- MODULE DaemonSlot -----------------------------
(***************************************************************************)
(* What a ProcessController promises its users, without threads, mutex,    *)
(* pids or system calls: there is one slot for a daemon.  A launch has to  *)
(* be admitted while the slot is open, happens only into an empty slot     *)
(* whose last daemon has been given a verdict, and the verdict kRunning is *)
(* taken back only when the daemon is known to be dead.                    *)
(***************************************************************************)

CONSTANT AutoReap       \* a daemon that ends leaves the slot by itself

VARIABLES
  closed,     \* RequestShutdown was called
  admitted,   \* a launch has passed the last shutdown check
  daemon,     \* the process in the slot
  verdict     \* ProcessStatus::state

slot == <<closed, admitted, daemon, verdict>>

SlotInit ==
  /\ closed = FALSE
  /\ admitted = FALSE
  /\ daemon = "absent"
  /\ verdict = "kStopped"

Close ==
  /\ closed' = TRUE
  /\ UNCHANGED <<admitted, daemon, verdict>>

Admit ==
  /\ ~ closed
  /\ ~ admitted
  /\ admitted' = TRUE
  /\ UNCHANGED <<closed, daemon, verdict>>

(* An admitted launch is given up: already running, or no process. *)
Abandon ==
  /\ admitted
  /\ admitted' = FALSE
  /\ UNCHANGED <<closed, daemon, verdict>>

Launch ==
  /\ admitted
  /\ daemon = "absent"
  /\ verdict # "kRunning"
  /\ admitted' = FALSE
  /\ daemon' = "alive"
  /\ UNCHANGED <<closed, verdict>>

(* Only a daemon that was launched is announced. *)
Announce ==
  /\ verdict # "kRunning"
  /\ daemon # "absent" \/ AutoReap
  /\ verdict' = "kRunning"
  /\ UNCHANGED <<closed, admitted, daemon>>

Die ==
  /\ daemon = "alive"
  /\ daemon' = IF AutoReap THEN "absent" ELSE "ended"
  /\ UNCHANGED <<closed, admitted, verdict>>

(* A launch is undone: its dead process leaves without a verdict. *)
Undo ==
  /\ daemon = "ended"
  /\ verdict # "kRunning"
  /\ daemon' = "absent"
  /\ UNCHANGED <<closed, admitted, verdict>>

Settle ==
  /\ verdict = "kRunning"
  /\ daemon = IF AutoReap THEN "absent" ELSE "ended"
  /\ daemon' = "absent"
  /\ verdict' \in {"kStopped", "kCrashed"}
  /\ UNCHANGED <<closed, admitted>>

SlotNext == Close \/ Admit \/ Abandon \/ Launch \/ Announce \/ Die \/ Undo
              \/ Settle

SlotSpec == SlotInit /\ [][SlotNext]_slot
=============================================================================
