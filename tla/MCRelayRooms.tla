---------------------------- MODULE MCRelayRooms ----------------------------
(* Small instances of RelayRooms: two or three connections.                 *)
EXTENDS RelayRooms, TLC

Permuted == Permutations(Conns)

\* What a client was told decides no step and is in none of the invariants of the run
\* that takes this view.
Untold == <<link, gone, step, hello, full, mate, roomVars, srvVars>>
=============================================================================
