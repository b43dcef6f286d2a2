---------------------------- MODULE MCSettings ----------------------------
(* Instance of Settings for TLC: the processes are interchangeable. *)
EXTENDS Settings, TLC

Permuted == Permutations(Procs)
=============================================================================
