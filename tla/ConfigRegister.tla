--------------------------- MODULE ConfigRegister ---------------------------
(***************************************************************************)
(* What the configuration repository promises its users: one register that *)
(* is unset, then holds the default configuration or one that was saved,   *)
(* and changes from one whole configuration to another in one step.  A     *)
(* reader sees the register as it was at one moment.                       *)
(***************************************************************************)

CONSTANTS
  Readers,
  Default,        \* the configuration an empty database gets
  ValidConfigs,   \* what may be saved
  Unset

VARIABLES
  register,   \* the configuration in force
  seen        \* what each reader's current Load has seen

RegisterInit ==
  /\ register = Unset
  /\ seen = [r \in Readers |-> Unset]

SetDefault ==
  /\ register = Unset
  /\ register' = Default
  /\ UNCHANGED seen

Publish(c) ==
  /\ register' = c
  /\ UNCHANGED seen

Read(r) ==
  /\ seen' = [seen EXCEPT ![r] = register]
  /\ UNCHANGED register

Done(r) ==
  /\ seen' = [seen EXCEPT ![r] = Unset]
  /\ UNCHANGED register

RegisterNext ==
  \/ SetDefault
  \/ \E c \in ValidConfigs : Publish(c)
  \/ \E r \in Readers : Read(r) \/ Done(r)

RegisterSpec == RegisterInit /\ [][RegisterNext]_<<register, seen>>
=============================================================================
