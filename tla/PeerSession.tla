----------------------------- MODULE PeerSession -----------------------------
(***************************************************************************)
(* PeerRouteSession::establish in both peers, from the matched relay room  *)
(* to the channels of the session: the route is negotiated (RelayRoute),   *)
(* the relay channel may be replaced by a LAN connection, the handshake    *)
(* runs on the channel each peer is left with (LanUpgrade), and on a       *)
(* direct route the peers agree on the parallel connections                *)
(* (negotiate_direct_mux_channels).                                        *)
(*                                                                         *)
(* A peer goes on as soon as its own route is chosen.  Here both go on     *)
(* together: whatever the faster one does before is confined to frames     *)
(* that the slower one cannot read yet and to its own time limits, which   *)
(* may pass at any moment in LanUpgrade.                                   *)
(***************************************************************************)
EXTENDS Naturals, Sequences, Functions

CONSTANTS
    Faults,      \* peers may be cancelled, crash or time out during the negotiation
    Counts       \* numbers of connections that a user or the advice may ask for

ASSUME SessionAssumption == Faults \in BOOLEAN /\ Counts \subseteq Nat \ {0} /\ Counts # {}

VARIABLES
    rpc, skip, direct, offered, allow, up, down, choice, relay, verdict, broken,
    pc, chan, wire, shut, listener,
    ident,   \* ident[r]: which of the relay's two clients has role r; "none" during the negotiation
    conns,   \* conns[r]: the number of connections r sets up, the primary one included
    mux,     \* mux[r]: where r is in negotiate_direct_mux_channels
    aux,     \* aux[r]: auxiliary connections r has gathered
    ready,   \* ready[r]: local_ready
    late     \* roles whose wait for the other's status ended without one

routeVars == <<rpc, skip, direct, offered, allow, up, down, choice, relay, verdict, broken>>
lanVars   == <<pc, chan, wire, shut, listener>>
muxVars   == <<mux, aux, ready, late>>
vars == <<routeVars, lanVars, ident, conns, muxVars>>

Route == INSTANCE RelayRoute WITH pc <- rpc
Lan   == INSTANCE LanUpgrade WITH TrySets <- SUBSET {"sender", "receiver"}, Timely <- FALSE, Leftovers <- TRUE

-----------------------------------------------------------------------------
(* The route plan.                                                         *)

Roles == Lan!Peers

NoAdvice == [conns |-> 0]

\* build_route_plan: only the user's option skips the direct attempt; the network
\* and the history shorten it, which DirectAttempt leaves open.
build_route_plan(no_direct, n) == [skip |-> no_direct, conns |-> n]

\* merge_ai_route_plan: advice never skips the attempt, but may set the number.
merge_ai_route_plan(rules, advice) ==
    [rules EXCEPT !.conns = IF advice.conns >= 1 THEN advice.conns ELSE @]

\* apply_peer_direct_policy: one peer's option binds both.
apply_peer_direct_policy(plan, peer_no_direct) == [plan EXCEPT !.skip = @ \/ peer_no_direct]

\* run_send_once: the number announced in the hello, and the one used after the
\* rendezvous.  Mutant: the advice is merged after the hello only.
announced_Configured(n, advice) == n
announced(n, advice) == merge_ai_route_plan(build_route_plan(FALSE, n), advice).conns
used(n, advice) ==
    merge_ai_route_plan(build_route_plan(FALSE, announced(n, advice)),
                        merge_ai_route_plan(build_route_plan(FALSE, n), advice)).conns

Init ==
    /\ Route!Init
    /\ \E no_direct \in SUBSET Route!Peers :
          skip = [p \in Route!Peers |->
                    apply_peer_direct_policy(build_route_plan(p \in no_direct, 1),
                                             Route!Other(p) \in no_direct).skip]
    /\ \E n \in Counts, advice \in {NoAdvice} \cup {[conns |-> m] : m \in Counts} :
          conns = [r \in Roles |-> IF r = "sender" THEN used(n, advice) ELSE announced(n, advice)]
    /\ pc = [r \in Roles |-> "routing"]
    /\ chan = [r \in Roles |-> "relay"]
    /\ wire = [ch \in Lan!Channels |-> [r \in Roles |-> << >>]]
    /\ shut = {"stale"}
    /\ listener = << >>
    /\ ident = [r \in Roles |-> "none"]
    /\ mux = [r \in Roles |-> "off"]
    /\ aux = [r \in Roles |-> 0]
    /\ ready = [r \in Roles |-> FALSE]
    /\ late = {}

Routing == ident["sender"] = "none"

Negotiate ==
    /\ Routing
    /\ Route!Next
    /\ UNCHANGED <<lanVars, ident, conns, muxVars>>

-----------------------------------------------------------------------------
(* From the chosen route to a channel.                                     *)

\* What the negotiation has left on its way to client c in the relay's pipe: at
\* most the choice of the other peer, which sends one.
Strays(c) == {f.type : f \in Range(down[c]) \cup Range(up[Route!Other(c)])} \cap Lan!Routing
Left(c) == {s \in {<< >>} \cup {<<f>> : f \in Lan!Routing} :
               Range(s) = IF rpc[c] = "relay" THEN Strays(c) ELSE {}}

\* establish: only a relayed peer upgrades, if its selection allows it and it has
\* LAN discovery on (lan) and neither peer has asked for no direct connection.
Upgrades(c, r, lan) == rpc[c] = "relay" /\ allow[c] /\ r \in lan /\ ~skip[c]

FirstStep(c, r, lan) ==
    CASE rpc[c] = "failed"   -> "failed"
      [] Upgrades(c, r, lan) -> IF r = "sender" THEN "serving" ELSE "asking"
      [] OTHER               -> "securing"

\* The locals of the negotiation are gone.  A direct attempt of both peers may
\* have left a connection in the sender's listener (DirectAttempt).
Proceed(id, lan) ==
    /\ Routing /\ \A c \in Route!Peers : Route!Final(c)
    /\ ident' = id
    /\ pc' = [r \in Roles |-> FirstStep(id[r], r, lan)]
    /\ chan' = [r \in Roles |-> IF rpc[id[r]] = "direct" THEN "direct" ELSE "relay"]
    /\ \E s \in Left(id["sender"]), t \in Left(id["receiver"]) :
          wire' = [wire EXCEPT !["relay"] = [r \in Roles |-> IF r = "sender" THEN s ELSE t]]
    /\ shut' = shut \cup (IF \E r \in Roles : pc'[r] = "failed" THEN {"relay", "direct"} ELSE {})
                    \cup (IF pc'["sender"] = "failed" THEN {"lan"} ELSE {})
    /\ listener' \in {<< >>} \cup IF pc'["sender"] # "failed" /\ skip = [c \in Route!Peers |-> FALSE]
                                THEN {<<"stale">>} ELSE {}
    /\ up' = [c \in Route!Peers |-> << >>]
    /\ down' = [c \in Route!Peers |-> << >>]
    /\ broken' = {}  \* from here on: roles lost after the negotiation
    /\ skip' = [c \in Route!Peers |-> FALSE]
    /\ UNCHANGED <<rpc, direct, offered, allow, choice, relay, verdict, conns, muxVars>>

Secure ==
    /\ ~Routing
    /\ Lan!Next
    /\ UNCHANGED <<routeVars, ident, conns, muxVars>>

\* A peer is cancelled or dies: its sockets and its listener are closed.
Crash(r) ==
    /\ Faults /\ ~Routing /\ pc[r] # "failed" /\ mux[r] \notin {"mux", "single"}
    /\ pc[r] = "secured" => chan[r] = "direct"
    /\ Lan!Fail(r)
    /\ broken' = broken \cup {ident[r]}
    /\ UNCHANGED <<rpc, skip, direct, offered, allow, up, down, choice, relay, verdict>>
    /\ UNCHANGED <<wire, ident, conns, muxVars>>

-----------------------------------------------------------------------------
(* negotiate_direct_mux_channels.                                          *)

OnDirect(r) == chan[r] = "direct" /\ pc[r] = "secured"

MuxBegins(r) ==
    /\ OnDirect(r) /\ mux[r] = "off"
    /\ mux' = [mux EXCEPT ![r] = IF conns[r] = 1 THEN "single" ELSE "gathering"]
    /\ UNCHANGED <<routeVars, lanVars, ident, conns, aux, ready, late>>

\* The status tells the other peer whether the connections were gathered.
Report(r, ok) ==
    /\ ready' = [ready EXCEPT ![r] = ok]
    /\ wire' = [wire EXCEPT !["direct"][Lan!Other(r)] = Append(@, IF ok THEN "ready" ELSE "not_ready")]
    /\ mux' = [mux EXCEPT ![r] = "reported"]
    /\ UNCHANGED <<routeVars, pc, chan, shut, ident, conns, late>>

Gathering(r) == OnDirect(r) /\ mux[r] = "gathering"
Gathered(r)  == Gathering(r) /\ aux[r] = conns[r] - 1 /\ Report(r, TRUE) /\ UNCHANGED <<listener, aux>>

\* gather_direct_mux_aux_channels, the receiver: the next connection, announced
\* by direct_aux, or none.
DialAux ==
    /\ Gathering("receiver") /\ aux["receiver"] < conns["receiver"] - 1
    /\ aux' = [aux EXCEPT !["receiver"] = @ + 1]
    /\ listener' = Append(listener, "aux")
    /\ UNCHANGED <<routeVars, pc, chan, wire, shut, ident, conns, mux, ready, late>>
DialAuxFails ==
    /\ Gathering("receiver") /\ aux["receiver"] < conns["receiver"] - 1
    /\ Report("receiver", FALSE) /\ UNCHANGED <<listener, aux>>

\* The sender: whatever waits in the listener is accepted; it must be an
\* auxiliary connection.  Mutant: any connection is counted.
IsAux_Any(conn) == TRUE
IsAux(conn) == conn = "aux"
AcceptAux ==
    /\ Gathering("sender") /\ aux["sender"] < conns["sender"] - 1
    /\ listener # << >>
    /\ listener' = Tail(listener)
    /\ IF IsAux(Head(listener))
         THEN /\ aux' = [aux EXCEPT !["sender"] = @ + 1]
              /\ UNCHANGED <<routeVars, pc, chan, wire, shut, ident, conns, mux, ready, late>>
         ELSE Report("sender", FALSE) /\ UNCHANGED aux
AcceptAuxFails ==
    /\ Gathering("sender") /\ aux["sender"] < conns["sender"] - 1
    /\ Report("sender", FALSE) /\ UNCHANGED <<listener, aux>>

\* Both sides ready with the same number: the connections are used; otherwise
\* they are closed.
\* Mutant: a peer that is ready does not mind the other.
Verdict_Own(r, told) == IF ready[r] THEN "mux" ELSE "single"
Verdict(r, told) ==
    IF ready[r] /\ told = "ready" /\ conns[Lan!Other(r)] = conns[r] THEN "mux" ELSE "single"

ReadStatus(r) ==
    /\ OnDirect(r) /\ mux[r] = "reported" /\ wire["direct"][r] # << >>
    /\ mux' = [mux EXCEPT ![r] = Verdict(r, Head(wire["direct"][r]))]
    /\ wire' = [wire EXCEPT !["direct"][r] = Tail(@)]
    /\ UNCHANGED <<routeVars, pc, chan, shut, listener, ident, conns, aux, ready, late>>

\* setup_timeout + 2 s without the other's status, or the connection broke.
\* Mutant: the wait has no limit.
NoStatus_Waits(r) == FALSE /\ UNCHANGED vars
NoStatus(r) ==
    /\ Faults /\ OnDirect(r) /\ mux[r] = "reported"
    /\ mux' = [mux EXCEPT ![r] = "single"]
    /\ late' = late \cup {r}
    /\ UNCHANGED <<routeVars, lanVars, ident, conns, aux, ready>>

Mux == \/ DialAux \/ DialAuxFails \/ AcceptAux \/ AcceptAuxFails
       \/ \E r \in Roles : MuxBegins(r) \/ Gathered(r) \/ ReadStatus(r) \/ NoStatus(r)

-----------------------------------------------------------------------------
Ends(r) == pc[r] = "failed" \/ (pc[r] = "secured" /\ (chan[r] = "direct" => mux[r] \in {"mux", "single"}))

\* Which client hosts is settled by the room, not by the negotiation.
Idents == {id \in [Roles -> Route!Peers] : id["sender"] # id["receiver"]}

Next ==
    \/ Negotiate
    \/ \E id \in Idents, lan \in SUBSET Roles : Proceed(id, lan)
    \/ Secure
    \/ Mux
    \/ \E r \in Roles : Crash(r)

Spec == Init /\ [][Next]_vars

\* The fairness of the parts; the steps of the last part are those of one thread
\* each, whose waits have time limits.
Fairness ==
    /\ \A c \in Route!Peers :
          /\ WF_vars(Negotiate /\ Route!Begin(c)) /\ WF_vars(Negotiate /\ Route!DirectReady(c))
          /\ WF_vars(Negotiate /\ Route!Choose(c)) /\ WF_vars(Negotiate /\ Route!Confirm(c))
          /\ WF_vars(Negotiate /\ (Route!Tell(c) \/ Route!TellThrows(c)))
    /\ WF_vars(Negotiate /\ Route!Expire)
    /\ WF_vars(\E id \in Idents, lan \in SUBSET Roles : Proceed(id, lan))
    /\ WF_vars(Secure /\ Lan!Ask) /\ WF_vars(Secure /\ Lan!NoAnswer)
    /\ WF_vars(Secure /\ Lan!DialFails) /\ WF_vars(Secure /\ Lan!ServeEnds)
    /\ \A r \in Roles :
          /\ WF_vars(Secure /\ Lan!Secure(r))
          /\ WF_vars(MuxBegins(r)) /\ WF_vars(Gathered(r)) /\ WF_vars(ReadStatus(r) \/ NoStatus(r))
    /\ WF_vars(DialAux \/ DialAuxFails) /\ WF_vars(AcceptAux \/ AcceptAuxFails)

FairSpec == Spec /\ Fairness

-----------------------------------------------------------------------------
\* Every variable has its type.
TypeOK ==
    /\ Routing => Route!TypeOK
    /\ \A r \in Roles : chan[r] \in Lan!Channels
    /\ mux \in [Roles -> {"off", "gathering", "reported", "mux", "single"}]
    /\ conns \in [Roles -> Counts] /\ aux \in [Roles -> Nat]
    /\ ready \in [Roles -> BOOLEAN]
    /\ late \subseteq Roles

\* The early relay commit never makes a peer fail that nobody cancelled.
FailsOnlyUnpaired == Routing => Route!FailsOnlyUnpaired

\* Every negotiation implements the abstract commitment.
ImplementsCommit == Route!ImplementsCommit

\* Whatever the route, the frames it left behind and the upgrade each peer tried:
\* when one peer holds a session key the other holds the other end of the same
\* channel, and fails only if it was cancelled or died.
SecuredTogether ==
    \A r \in Roles : pc[r] = "secured" =>
        LET o == Lan!Other(r)
        IN  chan[o] = chan[r] /\ (pc[o] = "failed" => ident[o] \in broken)

\* The connections r works with in the end: those of the relay are not negotiated.
Channels(r) == IF chan[r] = "direct" /\ mux[r] = "single" THEN 1 ELSE conns[r]

\* Both peers end with the same number of connections, whatever the advice and the
\* route, unless one of them gave up waiting for the other's status: its answer is
\* already out.
MuxAgree ==
    late = {} /\ (\A r \in Roles : Ends(r) /\ pc[r] = "secured") => Channels("sender") = Channels("receiver")

\* The auxiliary connections of a parallel session are those the receiver dialled.
MuxIsWhole ==
    \A r \in Roles : mux[r] = "mux" =>
        listener = << >> /\ \A o \in Roles : aux[o] = conns[r] - 1

\* Both peers end with their channels or an error, also when the other one dies
\* between any two steps: every blocking read ends with its channel or its limit.
SessionEnds == <>(\A r \in Roles : Ends(r))
=============================================================================
