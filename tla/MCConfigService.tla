--------------------------- MODULE MCConfigService ---------------------------
(* Small instances of ConfigService for TLC. *)
EXTENDS ConfigService, TLC

CONSTANT default

MCDefault == [k \in 1..NumKeys |-> default]
MCRequests == { [k \in 1..NumKeys |-> v] : v \in Values \ {default} }

(* Workers are interchangeable; safety only. *)
Symmetry == Permutations(Workers)
=============================================================================
