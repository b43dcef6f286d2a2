--------------------------- MODULE DirectAttempt ---------------------------
(***************************************************************************)
(* The direct attempt of both peers (try_direct_with_plan): each dials and *)
(* accepts by turns, on one thread, in three phases, and the two peers are *)
(* in any combination of phases because their clocks and plans differ.     *)
(* A connection counts after the dialer's direct_hello was answered by a   *)
(* direct_ack.  RelayRoute takes the outcome of each peer from here.       *)
(*                                                                         *)
(* A dial that connects puts its connection into the other's listener,     *)
(* where it stays, with the hello, also after the dialer has closed it.    *)
(* Same-port dials use one pair of addresses, so there is at most one such *)
(* connection at a time and two of them may meet (simultaneous open).      *)
(***************************************************************************)
EXTENDS Naturals, Sequences, FiniteSets

CONSTANTS
    SamePorts,  \* may the peers have public candidates, dialled from the listening port?
    MaxConns    \* bound on the connections made

ASSUME DirectAssumption == SamePorts \subseteq BOOLEAN /\ MaxConns \in Nat

Peers      == {"sender", "receiver"}
Other(p)   == IF p = "sender" THEN "receiver" ELSE "sender"
Phases     == <<"sync", "receiver_active", "sender_active", "over">>
Conns      == 1..MaxConns
NoConn     == 0

VARIABLES
    public,   \* the candidates of both plans include public ones
    phase,    \* phase[p]: index into Phases
    act,      \* act[p]: what peer p waits for
    hand,     \* hand[p]: the connection peer p is using
    made,     \* connections made so far
    dialer,   \* dialer[c]: who dialled c ("both" after a simultaneous open)
    paired,   \* connections of a same-port dial
    backlog,  \* backlog[p]: connections nobody has accepted yet
    inbox,    \* inbox[c][p]: frames on their way to p
    closed    \* closed[c]: ends that are closed

connVars == <<made, dialer, paired, backlog, inbox, closed>>
vars == <<public, phase, act, hand, connVars>>

Init ==
    /\ public \in SamePorts
    /\ phase = [p \in Peers |-> 1]
    /\ act = [p \in Peers |-> "free"]
    /\ hand = [p \in Peers |-> NoConn]
    /\ made = 0
    /\ dialer = [c \in Conns |-> "nobody"]
    /\ paired = {}
    /\ backlog = [p \in Peers |-> << >>]
    /\ inbox = [c \in Conns |-> [p \in Peers |-> << >>]]
    /\ closed = [c \in Conns |-> {}]

PhaseOf(p) == Phases[phase[p]]
Free(p)    == act[p] = "free" /\ PhaseOf(p) # "over"

Hello(p) == [type |-> "direct_hello", role |-> p]
Ack      == [type |-> "direct_ack", role |-> "none"]

\* The active role dials: in the synchronized phase both do, from the listening port.
IsActive(p) == \/ PhaseOf(p) = "sync" /\ public
               \/ PhaseOf(p) = "receiver_active" /\ p = "receiver"
               \/ PhaseOf(p) = "sender_active" /\ p = "sender"

\* accept_direct_candidate expects the role that is active in this phase; in the
\* synchronized phase the other one.  Mutant: always the other one.
Expected_Peer(p) == Other(p)
Expected(p) == CASE PhaseOf(p) = "receiver_active" -> "receiver"
                 [] PhaseOf(p) = "sender_active"   -> "sender"
                 [] OTHER                          -> Other(p)

\* The two addresses of a same-port connection are free again.
PairFree == \A c \in paired : closed[c] = Peers

\* A frame to an end that is closed is lost.
Sent(box, c, to, m) == IF to \in closed[c] THEN box ELSE [box EXCEPT ![c][to] = Append(@, m)]

-----------------------------------------------------------------------------
\* dial_direct_candidate connects and sends direct_hello; a dial that does not
\* connect changes nothing.
Dial(p, same) ==
    /\ Free(p) /\ IsActive(p) /\ made < MaxConns
    /\ PhaseOf(p) = "sync" => same
    /\ same => public /\ PairFree
    /\ LET c == made + 1 IN
       /\ made' = c
       /\ dialer' = [dialer EXCEPT ![c] = p]
       /\ paired' = IF same THEN paired \cup {c} ELSE paired
       /\ backlog' = [backlog EXCEPT ![Other(p)] = Append(@, c)]
       /\ inbox' = [inbox EXCEPT ![c][Other(p)] = <<Hello(p)>>]
       /\ hand' = [hand EXCEPT ![p] = c]
    /\ act' = [act EXCEPT ![p] = "response"]
    /\ UNCHANGED <<public, phase, closed>>

\* Two same-port dials cross: one connection that both have dialled.
Cross ==
    /\ public /\ PairFree /\ made < MaxConns
    /\ \A p \in Peers : Free(p) /\ IsActive(p)
    /\ LET c == made + 1 IN
       /\ made' = c
       /\ dialer' = [dialer EXCEPT ![c] = "both"]
       /\ paired' = paired \cup {c}
       /\ inbox' = [inbox EXCEPT ![c] = [p \in Peers |-> <<Hello(Other(p))>>]]
       /\ hand' = [p \in Peers |-> c]
    /\ act' = [p \in Peers |-> "response"]
    /\ UNCHANGED <<public, phase, backlog, closed>>

\* complete_direct_dial_preflight reads an answer: an ack ends it, a hello of the
\* other role is acknowledged and its own ack awaited, all else fails.
\* Mutant: the hello of the other dialer is taken for its answer.
Answer_HelloIsAck(p) ==
    LET c == hand[p] IN
    /\ act[p] = "response" /\ inbox[c][p] # << >>
    /\ act' = [act EXCEPT ![p] = "up"]
    /\ phase' = [phase EXCEPT ![p] = 4]
    /\ inbox' = [inbox EXCEPT ![c][p] = Tail(@)]
    /\ UNCHANGED <<public, hand, made, dialer, paired, backlog, closed>>
Answer(p) ==
    LET c == hand[p] IN
    /\ act[p] \in {"response", "ack"} /\ inbox[c][p] # << >>
    /\ LET m == Head(inbox[c][p])
           rest == [inbox EXCEPT ![c][p] = Tail(@)] IN
       \/ /\ m = Ack
          /\ act' = [act EXCEPT ![p] = "up"]
          /\ phase' = [phase EXCEPT ![p] = 4]
          /\ inbox' = rest
       \/ /\ m = Hello(Other(p)) /\ act[p] = "response"
          /\ act' = [act EXCEPT ![p] = "ack"]
          /\ inbox' = Sent(rest, c, Other(p), Ack)
          /\ UNCHANGED phase
    /\ UNCHANGED <<public, hand, made, dialer, paired, backlog, closed>>

\* kDirectPreflightTimeout passes, or the other end closed: the socket is closed.
GiveUp(p) ==
    /\ act[p] \in {"response", "ack"}
    /\ closed' = [closed EXCEPT ![hand[p]] = @ \cup {p}]
    /\ act' = [act EXCEPT ![p] = "free"]
    /\ hand' = [hand EXCEPT ![p] = NoConn]
    /\ UNCHANGED <<public, phase, made, dialer, paired, backlog, inbox>>

\* accept_direct_candidate: the oldest connection in the listener.  The hello was
\* sent when it was made; one that comes too late fails like one of the wrong role.
AcceptGood(p, c) ==
    /\ act' = [act EXCEPT ![p] = "up"]
    /\ hand' = [hand EXCEPT ![p] = c]
    /\ phase' = [phase EXCEPT ![p] = 4]
    /\ inbox' = Sent([inbox EXCEPT ![c][p] = << >>], c, Other(p), Ack)
    /\ UNCHANGED closed
AcceptBad(p, c) ==
    /\ closed' = [closed EXCEPT ![c] = @ \cup {p}]
    /\ UNCHANGED <<act, hand, phase, inbox>>
Accept(p) ==
    /\ Free(p) /\ backlog[p] # << >>
    /\ PhaseOf(p) = "sync" => public
    /\ backlog' = [backlog EXCEPT ![p] = Tail(@)]
    /\ LET c == Head(backlog[p]) IN
       \/ Head(inbox[c][p]) = Hello(Expected(p)) /\ AcceptGood(p, c)
       \/ AcceptBad(p, c)
    /\ UNCHANGED <<public, made, dialer, paired>>

\* The phase's deadline has passed.
NextPhase(p) ==
    /\ Free(p)
    /\ phase' = [phase EXCEPT ![p] = @ + 1]
    /\ act' = IF phase[p] = 3 THEN [act EXCEPT ![p] = "down"] ELSE act
    /\ UNCHANGED <<public, hand, connVars>>

\* The route was decided meanwhile: the attempt is cancelled.
Cancel(p) ==
    /\ act[p] \in {"free", "response", "ack"}
    /\ closed' = IF hand[p] = NoConn THEN closed ELSE [closed EXCEPT ![hand[p]] = @ \cup {p}]
    /\ act' = [act EXCEPT ![p] = "down"]
    /\ hand' = [hand EXCEPT ![p] = NoConn]
    /\ phase' = [phase EXCEPT ![p] = 4]
    /\ UNCHANGED <<public, made, dialer, paired, backlog, inbox>>

Peer(p) == \/ \E same \in BOOLEAN : Dial(p, same)
           \/ Answer(p) \/ GiveUp(p) \/ Accept(p) \/ NextPhase(p) \/ Cancel(p)

Next == Cross \/ \E p \in Peers : Peer(p)

Spec == Init /\ [][Next]_vars

-----------------------------------------------------------------------------
\* Every variable has its type.
TypeOK ==
    /\ public \in SamePorts
    /\ phase \in [Peers -> 1..4]
    /\ act \in [Peers -> {"free", "response", "ack", "up", "down"}]
    /\ hand \in [Peers -> Conns \cup {NoConn}]
    /\ dialer \in [Conns -> Peers \cup {"nobody", "both"}]
    /\ paired \subseteq 1..made
    /\ backlog \in [Peers -> Seq(Conns)]
    /\ closed \in [Conns -> SUBSET Peers]

\* The answer to a dial is final: if the peer that dialled a connection keeps it,
\* the other end has accepted it and keeps it too; if both dialled it, the frame
\* the other one waits for was sent, and only its time limit can still end it.
DialedIsMutual ==
    \A p \in Peers : act[p] = "up" =>
        LET c == hand[p]
            q == Other(p)
        IN
        /\ dialer[c] = p => act[q] = "up" /\ hand[q] = c
        /\ dialer[c] = "both" =>
              \/ hand[q] = c /\ (act[q] = "up" \/ \E i \in DOMAIN inbox[c][q] : inbox[c][q][i] = Ack)
              \/ q \in closed[c]

\* If both peers report a direct connection it is the same one.  Otherwise both say
\* direct_ok, the relay starts the direct route and leaves, and neither peer has
\* anyone at the other end of its connection.
SameConnection ==
    (\A p \in Peers : act[p] = "up") => hand["sender"] = hand["receiver"]

\* Without same-port dials no combination of phases lets the two peers accept
\* connections that the other has given up: accept expects the active role.
RolesKeepItOne == ~public => SameConnection

=============================================================================
