----------------------------- MODULE RelayRoute -----------------------------
(***************************************************************************)
(* How the two peers of a room and the relay worker that serves them agree *)
(* on a direct or a relayed route: race_transfer_route and                 *)
(* select_transfer_route in each peer, wait_route_decision and the pipe in *)
(* the relay, and the two ordered byte streams between them.               *)
(*                                                                         *)
(* up[p] and down[p] hold whole control frames, those in flight included,  *)
(* so a poll may find nothing although a frame is on its way.  "eof" is    *)
(* the end of a stream.  The direct attempt itself (punching, its          *)
(* direct_hello exchange) is outside: it ends up or down for each peer.    *)
(***************************************************************************)
EXTENDS Naturals, Sequences

CONSTANTS
    Faults   \* peers may be cancelled, crash or time out while the relay waits

Peers    == {"other", "self"}   \* as wait_route_decision names them
Other(p) == IF p = "other" THEN "self" ELSE "other"

Standby     == [type |-> "relay_standby"]
DirectOk    == [type |-> "direct_ok"]
RelayReady  == [type |-> "relay_ready"]
Eof         == [type |-> "eof"]
DirectStart == [type |-> "direct_start"]
Done        == [type |-> "done"]
RelayStart(reason) == [type |-> "relay_start", reason |-> reason]

Reasons     == {"relay", "mismatch", "standby", "timeout"}
RouteFrames == {Standby, DirectOk, RelayReady}
Verdicts    == {DirectStart, Done} \cup {RelayStart(r) : r \in Reasons}

VARIABLES
    pc,       \* pc[p]: where peer p is in race_transfer_route
    skip,     \* skip[p]: route_plan.skip_direct
    direct,   \* direct[p]: the direct socket of peer p
    offered,  \* peers that have sent direct_ok (a history variable)
    allow,    \* allow[p]: RouteSelection::allow_lan_upgrade
    up,       \* up[p]: frames from peer p to the relay
    down,     \* down[p]: frames from the relay to peer p
    choice,   \* choice[p]: first_choice and second_choice of wait_route_decision
    relay,    \* where the relay worker is
    verdict,  \* the frame it answers with
    broken    \* peers that were cancelled, crashed or timed out (a history variable)

peerVars  == <<pc, skip, direct, offered, allow, broken>>
relayVars == <<choice, relay, verdict>>
vars == <<peerVars, up, down, relayVars>>

NoVerdict == [type |-> "none"]

Init ==
    /\ pc = [p \in Peers |-> "planned"]
    /\ skip \in [Peers -> BOOLEAN]
    /\ direct = [p \in Peers |-> "none"]
    /\ offered = {}
    /\ allow = [p \in Peers |-> FALSE]
    /\ up = [p \in Peers |-> << >>]
    /\ down = [p \in Peers |-> << >>]
    /\ choice = [p \in Peers |-> "Waiting"]
    /\ relay = "polling"
    /\ verdict = NoVerdict
    /\ broken = {}

-----------------------------------------------------------------------------
(* A peer.                                                                 *)

Send(p, m) == up' = [up EXCEPT ![p] = Append(@, m)]
Goto(p, s) == pc' = [pc EXCEPT ![p] = s]
Final(p)   == pc[p] \in {"direct", "relay", "failed"}

\* An exception leaves the session: every socket of the peer is closed.
Fail(p) ==
    /\ Goto(p, "failed")
    /\ direct' = [direct EXCEPT ![p] = "closed"]
    /\ Send(p, Eof)
    /\ UNCHANGED <<skip, offered, allow>>

\* The end of select_transfer_route on the relay: the direct socket, if any, is closed.
TakeRelay(p, lan) ==
    /\ Goto(p, "relay")
    /\ direct' = [direct EXCEPT ![p] = "closed"]
    /\ allow' = [allow EXCEPT ![p] = lan]
    /\ UNCHANGED <<skip, offered, up>>

\* relay_selection_from_start, line 239: no LAN upgrade after a mismatch.
LanAllowed(start) == start.reason # "mismatch"

\* race_transfer_route begins: without a direct attempt the choice is made.
Begin(p) ==
    /\ pc[p] = "planned"
    /\ IF skip[p] THEN Send(p, RelayReady) /\ Goto(p, "relay_ready") /\ UNCHANGED direct
                  ELSE /\ Send(p, Standby) /\ Goto(p, "probing")
                       /\ direct' = [direct EXCEPT ![p] = "trying"]
    /\ UNCHANGED <<skip, offered, allow, broken, down, relayVars>>

\* The direct future is ready.  A connection counts only after both ends
\* exchanged direct_hello, so the other peer must be trying as well.
DirectReady(p) ==
    /\ pc[p] = "probing"
    /\ \E result \in {"up", "down"} :
          /\ result = "up" => ~skip[Other(p)]
          /\ direct' = [direct EXCEPT ![p] = result]
    /\ Goto(p, "probed")
    /\ UNCHANGED <<skip, offered, allow, broken, up, down, relayVars>>

\* A relay frame read while probing, or in the last look before the choice is
\* sent.  The end of the stream is not noticed here: the poll reports it, the
\* read returns nothing and the loop goes on.
\* Mutant: relay_start is unexpected while the direct attempt is pending.
EarlyVerdict_NoStart(p) ==
    /\ pc[p] \in {"probing", "probed"}
    /\ down[p] # << >> /\ Head(down[p]) # Eof
    /\ down' = [down EXCEPT ![p] = Tail(@)]
    /\ IF pc[p] = "probed" /\ Head(down[p]).type = "relay_start"
         THEN TakeRelay(p, LanAllowed(Head(down[p]))) ELSE Fail(p)
    /\ UNCHANGED <<broken, relayVars>>
EarlyVerdict(p) ==
    /\ pc[p] \in {"probing", "probed"}
    /\ down[p] # << >> /\ Head(down[p]) # Eof
    /\ down' = [down EXCEPT ![p] = Tail(@)]
    /\ IF Head(down[p]).type = "relay_start"
         THEN TakeRelay(p, LanAllowed(Head(down[p]))) ELSE Fail(p)
    /\ UNCHANGED <<broken, relayVars>>

\* select_transfer_route: the choice is sent, the confirmation awaited.
Choose(p) ==
    /\ pc[p] = "probed"
    /\ \/ /\ direct[p] = "up"
          /\ Send(p, DirectOk) /\ Goto(p, "direct_ok") /\ offered' = offered \cup {p}
       \/ /\ direct[p] = "down"
          /\ Send(p, RelayReady) /\ Goto(p, "relay_ready") /\ UNCHANGED offered
    /\ UNCHANGED <<skip, direct, allow, broken, down, relayVars>>

\* Mutant: a peer with a direct connection keeps it whatever the relay starts.
Confirm_KeepsDirect(p) ==
    /\ pc[p] \in {"direct_ok", "relay_ready"} /\ down[p] # << >>
    /\ down' = [down EXCEPT ![p] = Tail(@)]
    /\ IF pc[p] = "direct_ok" /\ Head(down[p]) \in Verdicts \ {Done}
         THEN Goto(p, "direct") /\ UNCHANGED <<skip, direct, offered, allow, up>>
         ELSE IF Head(down[p]).type = "relay_start"
                THEN TakeRelay(p, LanAllowed(Head(down[p]))) ELSE Fail(p)
    /\ UNCHANGED <<broken, relayVars>>
Confirm(p) ==
    /\ pc[p] \in {"direct_ok", "relay_ready"} /\ down[p] # << >>
    /\ down' = [down EXCEPT ![p] = Tail(@)]
    /\ \/ /\ pc[p] = "direct_ok" /\ Head(down[p]) = DirectStart
          /\ Goto(p, "direct") /\ UNCHANGED <<skip, direct, offered, allow, up>>
       \/ /\ Head(down[p]).type = "relay_start"
          /\ TakeRelay(p, pc[p] = "relay_ready" /\ LanAllowed(Head(down[p])))
       \/ /\ Head(down[p]).type # "relay_start"
          /\ ~(pc[p] = "direct_ok" /\ Head(down[p]) = DirectStart)
          /\ Fail(p)
    /\ UNCHANGED <<broken, relayVars>>

\* Cancelled, crashed, or no confirmation in time.
Break(p) ==
    /\ Faults /\ ~Final(p)
    /\ Fail(p)
    /\ broken' = broken \cup {p}
    /\ UNCHANGED <<down, relayVars>>

-----------------------------------------------------------------------------
(* The relay worker.                                                       *)

relay_route_choice_from(m) ==
    CASE m = Standby    -> "Standby"
      [] m = DirectOk   -> "DirectOk"
      [] m = RelayReady -> "RelayReady"
      [] OTHER          -> "Invalid"

has_presence(c) == c \notin {"Waiting", "Invalid"}
is_final(c)     == c \in {"DirectOk", "RelayReady", "Invalid"}

merge_relay_route_choice(state, next) ==
    IF ~is_final(state) /\ (is_final(next) \/ state = "Waiting") THEN next ELSE state

\* Mutant: one direct_ok and one presence are taken for a direct pair.
relay_route_decision_for_Either(a, b, expired) ==
    CASE "Invalid" \in {a, b} -> Done
      [] "DirectOk" \in {a, b} /\ has_presence(a) /\ has_presence(b) -> DirectStart
      [] a = "RelayReady" /\ b = "RelayReady" -> RelayStart("relay")
      [] OTHER -> IF expired THEN Done ELSE NoVerdict
\* Invalid, and Pending when the time is up, both end in "done".
relay_route_decision_for(a, b, expired) ==
    CASE "Invalid" \in {a, b} -> Done
      [] {a, b} = {"DirectOk"} -> DirectStart
      [] {a, b} = {"RelayReady"} -> RelayStart("relay")
      [] {a, b} = {"RelayReady", "DirectOk"} -> RelayStart("mismatch")
      [] {a, b} = {"RelayReady", "Standby"} -> RelayStart("standby")
      [] OTHER -> IF ~expired THEN NoVerdict
                  ELSE IF has_presence(a) /\ has_presence(b) THEN RelayStart("timeout") ELSE Done

Decide(v) ==
    /\ verdict' = v
    /\ relay' = IF v = NoVerdict THEN "polling" ELSE "telling_other"

\* One round of wait_route_decision: each socket is polled once; the frame of
\* each peer in got had arrived.
Poll(got) ==
    /\ relay = "polling"
    /\ \A p \in got : up[p] # << >>
    /\ choice' = [p \in Peers |->
          IF p \in got THEN merge_relay_route_choice(choice[p], relay_route_choice_from(Head(up[p])))
                       ELSE choice[p]]
    /\ up' = [p \in Peers |-> IF p \in got /\ Head(up[p]) # Eof THEN Tail(up[p]) ELSE up[p]]
    /\ Decide(relay_route_decision_for(choice'["other"], choice'["self"], FALSE))
    /\ UNCHANGED <<peerVars, down>>

\* kRouteChoiceTimeout has passed.
Expire ==
    /\ relay = "polling"
    /\ Decide(relay_route_decision_for(choice["other"], choice["self"], TRUE))
    /\ UNCHANGED <<peerVars, up, down, choice>>

EofAfter(seqs) == [p \in Peers |-> Append(seqs[p], Eof)]

Telling(p) == IF p = "other" THEN "telling_other" ELSE "telling_self"

\* The verdict goes to `other` and then to `self`.
Tell(p) ==
    /\ relay = Telling(p)
    /\ \/ /\ p = "other"
          /\ down' = [down EXCEPT ![p] = Append(@, verdict)]
          /\ relay' = "telling_self"
       \/ /\ p = "self" /\ verdict.type = "relay_start"
          /\ down' = [down EXCEPT ![p] = Append(@, verdict)]
          /\ relay' = "piping"
       \/ /\ p = "self" /\ verdict.type # "relay_start"
          /\ down' = EofAfter([down EXCEPT ![p] = Append(@, verdict)])
          /\ relay' = "closed"
    /\ UNCHANGED <<peerVars, up, choice, verdict>>

\* A send to a peer that has closed throws; "done" is sent best effort.
TellThrows(p) ==
    /\ relay = Telling(p) /\ pc[p] = "failed" /\ verdict # Done
    /\ down' = EofAfter(down)
    /\ relay' = "closed"
    /\ UNCHANGED <<peerVars, up, choice, verdict>>

\* relay_stream_sync copies what is left of one stream into the other.
Pipe(p) ==
    /\ relay = "piping" /\ up[p] # << >>
    /\ IF Head(up[p]) = Eof
         THEN /\ down' = EofAfter(down)
              /\ relay' = "closed"
              /\ UNCHANGED up
         ELSE /\ down' = [down EXCEPT ![Other(p)] = Append(@, Head(up[p]))]
              /\ up' = [up EXCEPT ![p] = Tail(@)]
              /\ UNCHANGED relay
    /\ UNCHANGED <<peerVars, choice, verdict>>

-----------------------------------------------------------------------------
Peer(p) == Begin(p) \/ DirectReady(p) \/ EarlyVerdict(p) \/ Choose(p) \/ Confirm(p) \/ Break(p)

Relay ==
    \/ \E got \in SUBSET Peers : Poll(got)
    \/ Expire
    \/ \E p \in Peers : Tell(p) \/ TellThrows(p) \/ Pipe(p)

\* Both peers have a route or have failed, and the relay has nothing to copy.
Finished ==
    /\ \A p \in Peers : Final(p)
    /\ relay = "closed" \/ (relay = "piping" /\ \A p \in Peers : up[p] = << >>)
    /\ UNCHANGED vars

Next == (\E p \in Peers : Peer(p)) \/ Relay \/ Finished

Spec == Init /\ [][Next]_vars

-----------------------------------------------------------------------------
\* Every variable has its type: the relay leaves its poll only with a verdict,
\* and only frames of the negotiation travel on the two streams.
TypeOK ==
    /\ pc \in [Peers -> {"planned", "probing", "probed", "direct_ok", "relay_ready",
                         "direct", "relay", "failed"}]
    /\ skip \in [Peers -> BOOLEAN]
    /\ offered \subseteq Peers
    /\ direct \in [Peers -> {"none", "trying", "up", "down", "closed"}]
    /\ allow \in [Peers -> BOOLEAN]
    /\ up \in [Peers -> Seq(RouteFrames \cup {Eof})]
    /\ down \in [Peers -> Seq(RouteFrames \cup Verdicts \cup {Eof})]
    /\ choice \in [Peers -> {"Waiting", "Standby", "DirectOk", "RelayReady", "Invalid"}]
    /\ relay \in {"polling", "telling_other", "telling_self", "piping", "closed"}
    /\ verdict \in Verdicts \cup {NoVerdict}
    /\ broken \subseteq Peers

\* As long as nobody is cancelled or crashes, the early relay commit never makes
\* a peer fail: a peer fails only if the relay answered "done" because the other
\* had not said anything before the deadline.
FailsOnlyUnpaired ==
    broken = {} => \A p \in Peers :
        pc[p] = "failed" => verdict = Done /\ \E q \in Peers : choice[q] = "Waiting"

-----------------------------------------------------------------------------
(* RelayRoute implements RouteCommit.                                      *)

verdictBar == CASE verdict = NoVerdict -> "open"
                [] verdict = DirectStart -> "direct"
                [] verdict = Done -> "nothing"
                [] OTHER -> "relay"
pathBar == [p \in Peers |-> IF Final(p) THEN pc[p] ELSE "none"]

Abstract == INSTANCE RouteCommit WITH verdict <- verdictBar, path <- pathBar

\* Every behaviour of the negotiation is one of the abstract commitment.
ImplementsCommit == Abstract!Spec
=============================================================================
