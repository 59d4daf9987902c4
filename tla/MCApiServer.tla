----------------------------- MODULE MCApiServer -----------------------------
(* Small instances of ApiServer for TLC. *)
EXTENDS ApiServer, TLC

(* Runners, stoppers and workers are interchangeable; safety only. *)
Symmetry ==
  Permutations(Runners) \cup Permutations(Stoppers) \cup Permutations(Workers)
=============================================================================
