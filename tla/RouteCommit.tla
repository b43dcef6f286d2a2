----------------------------- MODULE RouteCommit -----------------------------
(***************************************************************************)
(* What the route negotiation of one pair promises, without channels,      *)
(* polling or messages: the relay takes one decision, a direct route only  *)
(* when both peers have offered one, and each peer follows that decision   *)
(* or gives up.  Module RelayRoute implements it.                          *)
(***************************************************************************)

CONSTANT Peers

VARIABLES
    offered,  \* peers that hold a direct connection and said so (direct_ok)
    verdict,  \* the relay's decision
    path      \* path[p]: the route peer p has taken

vars == <<offered, verdict, path>>

Init ==
    /\ offered = {}
    /\ verdict = "open"
    /\ path = [p \in Peers |-> "none"]

Offer(p) ==
    /\ p \notin offered /\ path[p] = "none"
    /\ offered' = offered \cup {p}
    /\ UNCHANGED <<verdict, path>>

Decide(v) ==
    /\ verdict = "open"
    /\ v = "direct" => offered = Peers
    /\ verdict' = v
    /\ UNCHANGED <<offered, path>>

Follow(p) ==
    /\ path[p] = "none" /\ verdict \in {"direct", "relay"}
    /\ path' = [path EXCEPT ![p] = verdict]
    /\ UNCHANGED <<offered, verdict>>

\* A peer that fails closes its relay connection.
GiveUp(p) ==
    /\ path[p] = "none"
    /\ path' = [path EXCEPT ![p] = "failed"]
    /\ UNCHANGED <<offered, verdict>>

Next ==
    \/ \E p \in Peers : Offer(p) \/ Follow(p) \/ GiveUp(p)
    \/ \E v \in {"direct", "relay", "nothing"} : Decide(v)

Spec == Init /\ [][Next]_vars
=============================================================================
