------------------------- MODULE MCConfigRepository -------------------------
(* Small instances of ConfigRepository for TLC: the defaults, two other    *)
(* configurations that differ from them and each other in every key, and   *)
(* one that Validate rejects.                                              *)
EXTENDS ConfigRepository, TLC

CONSTANTS default, a, b, bad

MCDefault == [k \in Keys |-> default]
MCRequests == { [k \in Keys |-> a], [k \in Keys |-> b],
                [k \in Keys |-> IF k = NumKeys THEN bad ELSE a] }

(* Connections are interchangeable; safety only. *)
Symmetry == Permutations(Connections)
=============================================================================
