------------------------------ MODULE RelayRace ------------------------------
(***************************************************************************)
(* PeerRouteSession::prepare and race_until_peer in both peers of a pair:  *)
(* the receiver looks for relays on the LAN, the sender announces its own; *)
(* each registers with several relays at once, waits on all of them in one *)
(* loop, and keeps the best relay that reported the other peer within a    *)
(* short settle window.                                                    *)
(*                                                                         *)
(* The rooms of the relays (RelayRooms) appear as Match only: two          *)
(* registrations meet, also when one of them was closed and the relay has  *)
(* not noticed.                                                            *)
(***************************************************************************)
EXTENDS Naturals, Sequences, FiniteSets

CONSTANTS
    Faulty,     \* peers whose connections to a relay may break
    Strangers   \* LAN relays only the receiver has found

Peers    == {"sender", "receiver"}
Other(p) == IF p = "sender" THEN "receiver" ELSE "sender"

Nothing == "nothing"
Undefined == "undefined"   \* an index beyond the end of the vector was used

\* The relays both peers can name: the sender's own and the configured one.
Common == {"embedded", "external"}
Relays == Common \cup Strangers

ASSUME FaultyAssumption == Faulty \subseteq Peers
ASSUME StrangersAssumption ==
    /\ IsFiniteSet(Strangers) /\ Strangers \cap Common = {}
    /\ Strangers \cap {"open", Nothing, Undefined} = {}

VARIABLES
    entries,  \* entries[p]: race_entries, the relays p will try
    announcing, \* does the sender's lan_thread announce a port?
    first,    \* first[p]: the common relay whose entry has the better priority
    future,   \* future[p][r]: the connect task
    relays,   \* relays[p]: the candidates collected from the tasks
    best,     \* best[p]: an index into relays[p], 0 if unset
    stage,    \* stage[p]: the outer loop, wait_for_peer_candidates, or the way out
    result,   \* result[p]: what race_until_peer returns
    inbox,    \* inbox[p][r]: what the relay's connection holds for p
    matched,  \* relays that have paired the two registrations
    closed,   \* closed[p]: relays whose connection p has closed
    heard,    \* heard[p]: relays whose `peer` message p has read (a history variable)
    shifted   \* peers whose best was set when an entry before it was erased (a history variable)

raceVars == <<future, relays, best, stage, result, closed, heard, shifted>>
prepared == <<first, entries, announcing>>
vars == <<prepared, raceVars, inbox, matched>>

Init ==
    /\ first \in [Peers -> Common]
    /\ entries = [p \in Peers |-> {}] /\ announcing = FALSE
    /\ future = [p \in Peers |-> [r \in Relays |-> "none"]]
    /\ relays = [p \in Peers |-> << >>]
    /\ best = [p \in Peers |-> 0]
    /\ stage = [p \in Peers |-> "prepare"]
    /\ result = [p \in Peers |-> "open"]
    /\ inbox = [p \in Peers |-> [r \in Relays |-> "empty"]]
    /\ matched = {}
    /\ closed = [p \in Peers |-> {}]
    /\ heard = [p \in Peers |-> {}]
    /\ shifted = {}

\* The priority of an entry: LAN relays share the sender's relay's.  The order of
\* the entries (by round-trip time) settles ties and is any here.
Rank(p, r) == IF r = first[p] \/ (r \in Strangers /\ first[p] = "embedded") THEN 0 ELSE 1
\* relay_candidate_better.
Better(p, a, b) == Rank(p, a) < Rank(p, b)

-----------------------------------------------------------------------------
(* PeerRouteSession::prepare.                                              *)

\* The race starts with a task for every entry; without any it is refused.
Enter(p, es) ==
    /\ entries' = [entries EXCEPT ![p] = es]
    /\ future' = [future EXCEPT ![p] = [r \in Relays |-> IF r \in es THEN "running" ELSE "none"]]
    /\ stage' = [stage EXCEPT ![p] = IF es = {} THEN "returned" ELSE "outer"]
    /\ result' = [result EXCEPT ![p] = IF es = {} THEN Nothing ELSE @]
    /\ UNCHANGED <<first, relays, best, closed, heard, shifted, inbox, matched>>

\* The sender: with a relay of its own (--only-local: with no other), or without.
\* With LAN discovery a port is announced in any case, that of the relay or of the
\* direct listener.
PrepareSend ==
    /\ stage["sender"] = "prepare"
    /\ \E es \in {Common, {"embedded"}, {"external"}} :
          /\ Enter("sender", es)
          /\ announcing' \in IF "embedded" \in es THEN {TRUE} ELSE BOOLEAN

\* lan_announce and lan_discover: datagrams that came during the receiver's 200 ms.
lan_discover == SUBSET (Strangers \cup (IF announcing THEN {"embedded"} ELSE {}))

PrepareRecv ==
    /\ stage["receiver"] = "prepare"
    /\ \E found \in lan_discover, only_local \in BOOLEAN :
          Enter("receiver", IF only_local THEN found ELSE found \cup {"external"})
    /\ UNCHANGED announcing

\* stop_lan_now, after the rendezvous or with the session.
stop_lan_now ==
    /\ announcing /\ stage["sender"] = "returned"
    /\ announcing' = FALSE
    /\ UNCHANGED <<first, entries, raceVars, inbox, matched>>

-----------------------------------------------------------------------------
(* The tasks and the relays.                                               *)

\* A direct listener announced in a relay's place answers no ping.
\* try_connect_relay_and_register: mapping probe, ping and pong, hello; or no socket.
Register(p, r) ==
    /\ future[p][r] = "running"
    /\ \E outcome \in {"registered", "failed"} :
          /\ future' = [future EXCEPT ![p][r] = outcome]
          /\ outcome = "registered" /\ r = "embedded" => r \in entries["sender"]
    /\ UNCHANGED <<prepared, relays, best, stage, result, closed, heard, shifted, inbox, matched>>

Registered(p, r) == future[p][r] \in {"registered", "taken"}

\* The relay sends `peer` to both.
Match(r) ==
    /\ r \notin matched
    /\ \A p \in Peers : Registered(p, r) /\ inbox[p][r] = "empty"
    /\ matched' = matched \cup {r}
    /\ inbox' = [p \in Peers |-> [inbox[p] EXCEPT ![r] = "peer"]]
    /\ UNCHANGED <<prepared, raceVars>>

\* The connection breaks, the relay answers "error", or the other peer left the room.
Drop(p, r) ==
    /\ Registered(p, r) /\ inbox[p][r] # "end"
    /\ p \in Faulty \/ (r \in matched /\ r \in closed[Other(p)])
    /\ inbox' = [inbox EXCEPT ![p][r] = "end"]
    /\ UNCHANGED <<prepared, raceVars, matched>>

-----------------------------------------------------------------------------
(* wait_for_peer_candidates.                                               *)

Entry(r)  == [relay |-> r, peer |-> FALSE, valid |-> TRUE]
Readable(p, e) == ~e.peer /\ e.valid /\ inbox[p][e.relay] # "empty"

\* One pass over the candidates: those in got are read.
Read(p, got) ==
    [i \in DOMAIN relays[p] |->
        LET e == relays[p][i] IN
        IF i \notin got THEN e
        ELSE IF inbox[p][e.relay] = "peer" THEN [e EXCEPT !.peer = TRUE]
        ELSE [e EXCEPT !.valid = FALSE]]

\* What best may be after the entries in found, one after the other, reported a peer.
\* Mutant: the first answer wins.
BestOf_First(p, list, found, b) == IF b \in DOMAIN list \/ found = {} THEN {b} ELSE found
BestOf(p, list, found, b) ==
    LET cand == found \cup (IF b \in DOMAIN list THEN {b} ELSE {})
    IN  IF found = {} THEN {b}
        ELSE {i \in cand : \A j \in cand : ~Better(p, list[j].relay, list[i].relay)}

Dead(e) == ~e.peer /\ ~e.valid

\* The vector without its dead entries: the others keep their order.
Erased(list) ==
    LET live == {i \in DOMAIN list : ~Dead(list[i])}
        Increasing(f) == \A i, j \in DOMAIN f : i < j => f[i] < f[j]
    IN  {[k \in DOMAIN f |-> list[f[k]]] : f \in {g \in [1..Cardinality(live) -> live] : Increasing(g)}}

\* choose_best: every other candidate is closed.  An index that is out of range
\* reads freed memory.
Chosen(p, list, r) ==
    /\ result' = [result EXCEPT ![p] = r]
    /\ relays' = [relays EXCEPT ![p] = << >>]
    /\ stage' = [stage EXCEPT ![p] = "leaving"]
    /\ closed' = [closed EXCEPT ![p] = @ \cup ({list[i].relay : i \in DOMAIN list} \ {r})]

ReturnsNothing(p, list) ==
    /\ relays' = [relays EXCEPT ![p] = list]
    /\ stage' = [stage EXCEPT ![p] = "outer"]
    /\ UNCHANGED <<result, closed>>

choose_best(p, list, b) ==
    \/ b \in DOMAIN list /\ list[b].peer /\ Chosen(p, list, list[b].relay)
    \/ b \in DOMAIN list /\ ~list[b].peer /\ ReturnsNothing(p, list)
    \/ b \notin DOMAIN list /\ (ReturnsNothing(p, list) \/ Chosen(p, list, Undefined))

\* One round of the loop: read, choose if the settle window has passed, else erase
\* the dead entries; best keeps its index.
Round(p, got) ==
    /\ stage[p] = "waiting"
    /\ got \subseteq {i \in DOMAIN relays[p] : Readable(p, relays[p][i])}
    /\ LET list  == Read(p, got)
           found == {i \in got : list[i].peer}
           dead  == {i \in DOMAIN list : Dead(list[i])}
       IN \E b \in BestOf(p, list, found, best[p]), kept \in Erased(list) :
       /\ best' = [best EXCEPT ![p] = b]
       /\ heard' = [heard EXCEPT ![p] = @ \cup {list[i].relay : i \in found}]
       /\ \/ b # 0 /\ choose_best(p, list, b) /\ UNCHANGED shifted
          \/ /\ got # {}
             /\ relays' = [relays EXCEPT ![p] = kept]
             /\ stage' = [stage EXCEPT ![p] = IF kept = << >> THEN "outer" ELSE "waiting"]
             /\ closed' = [closed EXCEPT ![p] = @ \cup {list[i].relay : i \in dead}]
             /\ shifted' = IF \E i \in dead : i < b THEN shifted \cup {p} ELSE shifted
             /\ UNCHANGED result
    /\ UNCHANGED <<prepared, future, inbox, matched>>

\* The poll budget is used up, or the race was cancelled.
\* Mutant: the answer read last is not looked at.
WaitEnds_Empty(p) ==
    /\ stage[p] = "waiting"
    /\ ReturnsNothing(p, relays[p])
    /\ UNCHANGED <<prepared, future, best, heard, shifted, inbox, matched>>
WaitEnds(p) ==
    /\ stage[p] = "waiting"
    /\ IF best[p] # 0 THEN choose_best(p, relays[p], best[p]) ELSE ReturnsNothing(p, relays[p])
    /\ UNCHANGED <<prepared, future, best, heard, shifted, inbox, matched>>

-----------------------------------------------------------------------------
(* race_until_peer.                                                        *)

Sockets(p, rs) == {r \in rs : future[p][r] = "registered"}

\* The tasks that have ended are collected; with a candidate the wait begins
\* anew.  Every task done and no candidate: nothing.
Collect(p, done) ==
    /\ stage[p] = "outer" /\ result[p] = "open"
    /\ done \subseteq {r \in Relays : future[p][r] \in {"registered", "failed"}}
    /\ future' = [future EXCEPT ![p] = [r \in Relays |->
          IF r \notin done THEN future[p][r] ELSE IF future[p][r] = "registered" THEN "taken" ELSE "none"]]
    /\ \E new \in [1..Cardinality(Sockets(p, done)) -> Sockets(p, done)] :
          /\ \A i, j \in DOMAIN new : i # j => new[i] # new[j]
          /\ relays' = [relays EXCEPT ![p] = @ \o [i \in DOMAIN new |-> Entry(new[i])]]
    /\ IF relays'[p] # << >>
         THEN /\ stage' = [stage EXCEPT ![p] = "waiting"]
              /\ UNCHANGED result
         ELSE /\ \A r \in Relays : future'[p][r] \in {"taken", "none"}
              /\ stage' = [stage EXCEPT ![p] = "leaving"]
              /\ result' = [result EXCEPT ![p] = Nothing]
    /\ best' = [best EXCEPT ![p] = 0]
    /\ UNCHANGED <<prepared, closed, heard, shifted, inbox, matched>>

\* The deadline of the race, or a cancel: the candidates are destroyed.
Deadline(p) ==
    /\ stage[p] = "outer" /\ result[p] = "open"
    /\ result' = [result EXCEPT ![p] = Nothing]
    /\ stage' = [stage EXCEPT ![p] = "leaving"]
    /\ closed' = [closed EXCEPT ![p] = @ \cup {relays[p][i].relay : i \in DOMAIN relays[p]}]
    /\ relays' = [relays EXCEPT ![p] = << >>]
    /\ UNCHANGED <<prepared, future, best, heard, shifted, inbox, matched>>

\* The vector of futures is destroyed: each task is waited for and its socket closed.
Leave(p) ==
    /\ stage[p] = "leaving"
    /\ \A r \in Relays : future[p][r] # "running"
    /\ closed' = [closed EXCEPT ![p] = @ \cup Sockets(p, Relays)]
    /\ stage' = [stage EXCEPT ![p] = "returned"]
    /\ UNCHANGED <<prepared, future, relays, best, result, heard, shifted, inbox, matched>>

-----------------------------------------------------------------------------
Peer(p) ==
    \/ \E r \in Relays : Register(p, r) \/ Drop(p, r)
    \/ \E got \in SUBSET (1..Cardinality(Relays)) : Round(p, got)
    \/ \E done \in SUBSET Relays : Collect(p, done)
    \/ WaitEnds(p) \/ Deadline(p) \/ Leave(p)

Next == \/ PrepareSend \/ PrepareRecv \/ stop_lan_now
        \/ (\E p \in Peers : Peer(p)) \/ \E r \in Relays : Match(r)

Spec == Init /\ [][Next]_vars

-----------------------------------------------------------------------------
\* Every variable has its type: no relay is twice among the candidates.
TypeOK ==
    /\ first \in [Peers -> Common]
    /\ future \in [Peers -> [Relays -> {"running", "registered", "failed", "taken", "none"}]]
    /\ \A p \in Peers : \A i, j \in DOMAIN relays[p] :
          relays[p][i].relay = relays[p][j].relay => i = j
    /\ best \in [Peers -> 0..Cardinality(Relays)]
    /\ stage \in [Peers -> {"prepare", "outer", "waiting", "leaving", "returned"}]
    /\ result \in [Peers -> Relays \cup {"open", Nothing, Undefined}]

Picked(p) == result[p] \in Relays

\* Two peers that rank the relays alike end on different relays only if one of
\* them had not read the answer of the relay the other one took: nothing but the
\* settle window and the deadlines can split them, or the index of one of them
\* slipped to the next candidate.
SplitNeedsSilence ==
    /\ \A p \in Peers : Picked(p)
    /\ first["sender"] = first["receiver"]
    /\ result["sender"] # result["receiver"]
    => \E p \in Peers : result[Other(p)] \notin heard[p] \/ p \in shifted

\* A peer that has read a relay's answer does not end the race with nothing, or with an
\* entry that does not exist, unless an entry before the best one died in the same
\* wait: then the index names another candidate, or none.
ReadIsDelivered ==
    \A p \in Peers :
        result[p] \in {Nothing, Undefined} /\ heard[p] # {} => p \in shifted
=============================================================================
