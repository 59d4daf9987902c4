------------------------ MODULE MCProcessController ------------------------
(* Small instances of ProcessController for TLC. *)
EXTENDS ProcessController, TLC

(* Threads and pids are interchangeable; for runs without liveness only. *)
Symmetry == Permutations(Threads) \cup Permutations(Pids)
=============================================================================
