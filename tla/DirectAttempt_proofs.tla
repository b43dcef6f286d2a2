------------------------ MODULE DirectAttempt_proofs ------------------------
(***************************************************************************)
(* Proofs about DirectAttempt, for any number of connections.              *)
(*                                                                         *)
(* DialedIsMutual says where the last frame of a handshake was sent from;  *)
(* the invariant adds what is on every connection on the way there: which  *)
(* end may find which frame, and that a connection waits in one listener.  *)
(* RolesKeepItOne needs in addition that the sender, which is the last to  *)
(* be active, has not dialled when it accepts.                             *)
(***************************************************************************)
EXTENDS DirectAttempt, TLAPS

-----------------------------------------------------------------------------
(* The inductive invariant.                                                *)

Frames == {Hello(p) : p \in Peers} \cup {Ack}

Types ==
    /\ TypeOK
    /\ made \in 0..MaxConns
    /\ inbox \in [Conns -> [Peers -> Seq(Frames)]]

\* The connection peer p is using.
Using(p) ==
    /\ act[p] \in {"up", "down"} <=> phase[p] = 4
    /\ act[p] \in {"free", "down"} => hand[p] = NoConn
    /\ act[p] \in {"response", "ack", "up"} => hand[p] \in 1..made
    /\ act[p] \in {"response", "ack"} => dialer[hand[p]] \in {p, "both"}
    /\ act[p] = "up" => dialer[hand[p]] # "nobody"

\* The listener of p: the other peer's connections, in the order it made them,
\* each with its hello in front.
InOrder(p) == \A i, j \in DOMAIN backlog[p] : i < j => backlog[p][i] < backlog[p][j]
Waiting(p, c) ==
    /\ c <= made /\ dialer[c] = Other(p)
    /\ inbox[c][p] # << >> /\ Head(inbox[c][p]) = Hello(Other(p))
Listening(p) ==
    /\ InOrder(p)
    /\ \A i \in DOMAIN backlog[p] : Waiting(p, backlog[p][i])

HasAck(c, p) == \E i \in DOMAIN inbox[c][p] : inbox[c][p][i] = Ack

\* On a connection that p dialled p only finds the ack of the peer that accepted it.
OnlyAcks(c, p) ==
    \A i \in DOMAIN inbox[c][p] :
        inbox[c][p][i] = Ack /\ act[Other(p)] = "up" /\ hand[Other(p)] = c

\* On one that both dialled each finds the other's hello first, and answers it.
Both(c, p) ==
    /\ hand[p] = c \/ p \in closed[c]
    /\ hand[p] = c /\ act[p] = "response" =>
          inbox[c][p] # << >> /\ Head(inbox[c][p]) = Hello(Other(p))
    /\ hand[p] = c /\ act[p] \in {"ack", "up"} =>
          \/ Other(p) \in closed[c]
          \/ hand[Other(p)] = c /\ (act[Other(p)] = "up" \/ HasAck(c, Other(p)))

On(c, p) ==
    /\ c > made => inbox[c][p] = << >> /\ dialer[c] = "nobody"
    /\ dialer[c] = p => OnlyAcks(c, p)
    /\ dialer[c] = "both" => Both(c, p)

\* A dial that was answered.
Kept(p) == act[p] = "up" /\ dialer[hand[p]] = p => act[Other(p)] = "up" /\ hand[Other(p)] = hand[p]

\* Without same-port dials the sender dials in its own phase only, the last one.
SenderIsLast ==
    ~public => \A c \in Conns :
        /\ dialer[c] # "both"
        /\ dialer[c] = "sender" =>
              /\ phase["sender"] >= 3
              /\ act["sender"] = "up" => dialer[hand["sender"]] = "sender"

DirectInv ==
    /\ Types /\ SenderIsLast
    /\ \A p \in Peers : Using(p) /\ Listening(p) /\ Kept(p)
    /\ \A c \in Conns, p \in Peers : On(c, p)

-----------------------------------------------------------------------------
(* Helpers.                                                                *)

\* There are two peers, and the frames of a handshake differ.
LEMMA TwoPeers ==
    ASSUME NEW p \in Peers
    PROVE  /\ Other(p) \in Peers /\ Other(p) # p /\ Other(Other(p)) = p
           /\ \A q \in Peers : q = p \/ q = Other(p)
           /\ Hello(p) # Ack /\ Hello(p) # Hello(Other(p))
           /\ Hello(p) \in Frames /\ Ack \in Frames
BY DEF Peers, Other, Hello, Ack, Frames

\* The phases by their index.
LEMMA PhaseNames ==
    ASSUME NEW p \in Peers, phase[p] \in 1..4
    PROVE  /\ PhaseOf(p) = "sync" <=> phase[p] = 1
           /\ PhaseOf(p) = "receiver_active" <=> phase[p] = 2
           /\ PhaseOf(p) = "sender_active" <=> phase[p] = 3
           /\ PhaseOf(p) = "over" <=> phase[p] = 4
BY DEF PhaseOf, Phases

\* Taking a frame or a connection from the front.
LEMMA FromFront ==
    ASSUME NEW S, NEW s \in Seq(S), s # << >>
    PROVE  /\ Head(s) \in S /\ Tail(s) \in Seq(S)
           /\ 1 \in DOMAIN s /\ Head(s) = s[1]
           /\ \A i \in DOMAIN Tail(s) : i + 1 \in DOMAIN s /\ Tail(s)[i] = s[i + 1]
           /\ \A i \in DOMAIN s : i # 1 => i - 1 \in DOMAIN Tail(s) /\ Tail(s)[i - 1] = s[i]
OBVIOUS

\* Putting one at the end.
LEMMA AtEnd ==
    ASSUME NEW S, NEW s \in Seq(S), NEW m \in S
    PROVE  /\ Append(s, m) \in Seq(S) /\ Append(s, m) # << >>
           /\ s # << >> => Head(Append(s, m)) = Head(s)
           /\ \A i \in DOMAIN s : i \in DOMAIN Append(s, m) /\ Append(s, m)[i] = s[i]
           /\ \A i \in DOMAIN Append(s, m) :
                 \/ i \in DOMAIN s /\ Append(s, m)[i] = s[i]
                 \/ i = Len(s) + 1 /\ Append(s, m)[i] = m
           /\ Len(s) + 1 \in DOMAIN Append(s, m) /\ Append(s, m)[Len(s) + 1] = m
           /\ \A i \in DOMAIN s : i < Len(s) + 1
OBVIOUS

Inboxes == [Conns -> [Peers -> Seq(Frames)]]

\* A frame that is sent.
LEMMA SentAt ==
    ASSUME NEW box \in Inboxes, NEW c \in Conns, NEW to \in Peers, NEW m \in Frames
    PROVE  /\ Sent(box, c, to, m) \in Inboxes
           /\ \A d \in Conns, q \in Peers :
                 ~(d = c /\ q = to) => Sent(box, c, to, m)[d][q] = box[d][q]
           /\ Sent(box, c, to, m)[c][to] =
                 IF to \in closed[c] THEN box[c][to] ELSE Append(box[c][to], m)
BY DEF Sent, Inboxes

\* The two ways to read an answer.
LEMMA AnswerCases ==
    ASSUME NEW p \in Peers, NEW c, c = hand[p], Answer(p)
    PROVE  /\ act[p] \in {"response", "ack"} /\ inbox[c][p] # << >>
           /\ UNCHANGED <<public, hand, made, dialer, paired, backlog, closed>>
           /\ \/ /\ Head(inbox[c][p]) = Ack
                 /\ act' = [act EXCEPT ![p] = "up"] /\ phase' = [phase EXCEPT ![p] = 4]
                 /\ inbox' = [inbox EXCEPT ![c][p] = Tail(@)]
              \/ /\ Head(inbox[c][p]) = Hello(Other(p)) /\ act[p] = "response"
                 /\ act' = [act EXCEPT ![p] = "ack"] /\ phase' = phase
                 /\ inbox' = Sent([inbox EXCEPT ![c][p] = Tail(@)], c, Other(p), Ack)
BY Zenon DEF Answer

-----------------------------------------------------------------------------
(* Type correctness.                                                       *)

\* Every step of a peer, and the crossing of two dials, keeps the types.
LEMMA TypesNext ==
    ASSUME Types, \A p \in Peers : Using(p), [Next]_vars
    PROVE  Types'
<1>1. /\ public \in SamePorts /\ phase \in [Peers -> 1..4]
      /\ act \in [Peers -> {"free", "response", "ack", "up", "down"}]
      /\ hand \in [Peers -> Conns \cup {NoConn}]
      /\ dialer \in [Conns -> Peers \cup {"nobody", "both"}]
      /\ paired \subseteq 1..made /\ backlog \in [Peers -> Seq(Conns)]
      /\ closed \in [Conns -> SUBSET Peers]
      /\ made \in 0..MaxConns /\ inbox \in Inboxes
  BY DEF Types, TypeOK, Inboxes
<1>2. MaxConns \in Nat
  BY DirectAssumption
<1>3. made < MaxConns => made + 1 \in Conns /\ made + 1 \in 0..MaxConns /\ paired \cup {made + 1} \subseteq 1..(made + 1)
                         /\ paired \subseteq 1..(made + 1)
  BY <1>1, <1>2 DEF Conns
<1>4. CASE UNCHANGED vars
  BY <1>4 DEF vars, connVars, Types, TypeOK, Frames, Hello, Ack
<1>5. SUFFICES ASSUME Next
               PROVE  TypeOK' /\ (made \in 0..MaxConns)' /\ inbox' \in Inboxes
  BY <1>4 DEF Types, Frames, Hello, Ack, Inboxes
<1>6. CASE Cross
  <2>1. \A p \in Peers : <<Hello(Other(p))>> \in Seq(Frames)
    BY TwoPeers
  <2>2. inbox' \in Inboxes
    BY <1>1, <1>3, <1>6, <2>1 DEF Cross, Inboxes
  <2>3. dialer' \in [Conns -> Peers \cup {"nobody", "both"}]
    BY <1>1, <1>3, <1>6 DEF Cross
  <2> QED BY <1>1, <1>3, <1>6, <2>2, <2>3 DEF Cross, TypeOK
<1>7. ASSUME NEW p \in Peers, Peer(p)
      PROVE  TypeOK' /\ (made \in 0..MaxConns)' /\ inbox' \in Inboxes
  <2> DEFINE o == Other(p)
  <2>0. o \in Peers /\ Hello(p) \in Frames /\ Ack \in Frames
    BY TwoPeers
  <2> HIDE DEF o
  <2>1. ASSUME NEW same \in BOOLEAN, Dial(p, same)
        PROVE  TypeOK' /\ (made \in 0..MaxConns)' /\ inbox' \in Inboxes
    <3>1. made + 1 \in Conns /\ made' = made + 1
      BY <1>3, <2>1 DEF Dial
    <3>2. inbox' \in Inboxes
      <4>1. <<Hello(p)>> \in Seq(Frames)
        BY <2>0
      <4>2. inbox' = [inbox EXCEPT ![made + 1][o] = <<Hello(p)>>]
        BY <2>1 DEF Dial, o
      <4> QED BY <1>1, <2>0, <3>1, <4>1, <4>2 DEF Inboxes
    <3>3. backlog' \in [Peers -> Seq(Conns)]
      <4>1. Append(backlog[o], made + 1) \in Seq(Conns)
        BY <1>1, <2>0, <3>1
      <4> QED BY <1>1, <2>0, <2>1, <4>1 DEF Dial, o
    <3>4. /\ dialer' \in [Conns -> Peers \cup {"nobody", "both"}]
          /\ hand' \in [Peers -> Conns \cup {NoConn}]
          /\ act' \in [Peers -> {"free", "response", "ack", "up", "down"}]
      BY <1>1, <2>1, <3>1 DEF Dial
    <3> QED BY <1>1, <1>3, <2>1, <3>1, <3>2, <3>3, <3>4 DEF Dial, TypeOK
  <2>2. CASE Answer(p)
    <3> DEFINE c == hand[p]
               rest == [inbox EXCEPT ![c][p] = Tail(@)]
    <3>1. c \in Conns /\ inbox[c][p] # << >> /\ inbox[c][p] \in Seq(Frames)
      BY <1>1, <1>2, <2>2 DEF Answer, Using, Conns, Inboxes
    <3>2. rest \in Inboxes
      <4>1. Tail(inbox[c][p]) \in Seq(Frames)
        BY <3>1, FromFront
      <4> QED BY <1>1, <3>1, <4>1 DEF Inboxes
    <3>3. Sent(rest, c, o, Ack) \in Inboxes
      BY <2>0, <3>1, <3>2, SentAt
    <3>4. inbox' = rest \/ inbox' = Sent(rest, c, o, Ack)
      BY <2>2 DEF Answer, o
    <3>5. /\ phase' \in [Peers -> 1..4]
          /\ act' \in [Peers -> {"free", "response", "ack", "up", "down"}]
      <4>0. \/ phase' = [phase EXCEPT ![p] = 4] /\ act' = [act EXCEPT ![p] = "up"]
            \/ phase' = phase /\ act' = [act EXCEPT ![p] = "ack"]
        BY ONLY <2>2, AnswerCases, Zenon
      <4>1. /\ (phase' = [phase EXCEPT ![p] = 4] \/ phase' = phase)
            /\ (act' = [act EXCEPT ![p] = "up"] \/ act' = [act EXCEPT ![p] = "ack"])
        BY <4>0
      <4>2. phase' \in [Peers -> 1..4]
        <5>1. phase \in [Peers -> 1..4] /\ 4 \in 1..4
          BY <1>1
        <5>2. [phase EXCEPT ![p] = 4] \in [Peers -> 1..4]
          BY ONLY <5>1
        <5> QED BY <4>1, <5>1, <5>2
      <4>3. act' \in [Peers -> {"free", "response", "ack", "up", "down"}]
        BY <1>1, <4>1
      <4> QED BY <4>2, <4>3
    <3>6. UNCHANGED <<public, hand, made, dialer, paired, backlog, closed>>
      BY <2>2 DEF Answer
    <3> HIDE DEF rest
    <3>7. inbox' \in Inboxes
      BY <3>2, <3>3, <3>4
    <3> QED BY <1>1, <3>5, <3>6, <3>7 DEF TypeOK
  <2>3. CASE GiveUp(p)
    <3>1. hand[p] \in Conns
      BY <1>1, <1>2, <2>3 DEF GiveUp, Using, Conns
    <3> QED BY <1>1, <2>3, <3>1 DEF GiveUp, TypeOK, NoConn
  <2>4. CASE Accept(p)
    <3> DEFINE c == Head(backlog[p])
               empty == [inbox EXCEPT ![c][p] = << >>]
    <3>1. c \in Conns /\ Tail(backlog[p]) \in Seq(Conns)
      BY <1>1, <2>4, FromFront DEF Accept
    <3>2. /\ backlog' \in [Peers -> Seq(Conns)]
          /\ UNCHANGED <<public, made, dialer, paired>>
      BY <1>1, <2>4, <3>1 DEF Accept
    <3> HIDE DEF c
    <3>3. AcceptGood(p, c) \/ AcceptBad(p, c)
      BY <2>4 DEF Accept, c
    <3>4. CASE AcceptGood(p, c)
      <4>1. empty \in Inboxes
        <5>1. << >> \in Seq(Frames)
          OBVIOUS
        <5> QED BY <1>1, <3>1, <5>1 DEF Inboxes
      <4>2. Sent(empty, c, o, Ack) \in Inboxes
        BY <2>0, <3>1, <4>1, SentAt
      <4>3. inbox' = Sent(empty, c, o, Ack)
        BY <3>4 DEF AcceptGood, o
      <4> HIDE DEF empty
      <4>4. inbox' \in Inboxes
        BY <4>2, <4>3
      <4> QED BY <1>1, <3>1, <3>2, <3>4, <4>4 DEF AcceptGood, TypeOK
    <3>5. CASE AcceptBad(p, c)
      BY <1>1, <3>1, <3>2, <3>5 DEF AcceptBad, TypeOK
    <3> QED BY <3>3, <3>4, <3>5
  <2>5. CASE NextPhase(p)
    <3>1. phase[p] \in 1..3
      BY <1>1, <2>5, PhaseNames DEF NextPhase, Free
    <3> QED BY <1>1, <2>5, <3>1 DEF NextPhase, connVars, TypeOK
  <2>6. CASE Cancel(p)
    <3>1. closed' \in [Conns -> SUBSET Peers]
      BY <1>1, <2>6 DEF Cancel
    <3> QED BY <1>1, <2>6, <3>1 DEF Cancel, TypeOK, NoConn
  <2> QED BY <1>7, <2>1, <2>2, <2>3, <2>4, <2>5, <2>6 DEF Peer
<1> QED BY <1>5, <1>6, <1>7 DEF Next

-----------------------------------------------------------------------------
(* The steps, one lemma for each kind.                                     *)

\* What the types say of one peer.
LEMMA PeerFacts ==
    ASSUME DirectInv, NEW p \in Peers
    PROVE  /\ Conns \subseteq Nat /\ NoConn \notin Conns /\ MaxConns \in Nat /\ made \in Nat
           /\ hand[p] \in Conns \cup {NoConn} /\ hand[p] <= made
           /\ phase[p] \in 1..4 /\ act[p] \in {"free", "response", "ack", "up", "down"}
           /\ backlog[p] \in Seq(Conns) /\ inbox \in Inboxes
           /\ dialer \in [Conns -> Peers \cup {"nobody", "both"}]
<1>1. Types /\ Using(p)
  BY DEF DirectInv
<1>2. Conns \subseteq Nat /\ NoConn \notin Conns /\ MaxConns \in Nat /\ made \in Nat
  BY <1>1, DirectAssumption DEF Types, Conns, NoConn
<1>3. hand[p] \in Conns \cup {NoConn} /\ phase[p] \in 1..4 /\ act[p] \in {"free", "response", "ack", "up", "down"}
  BY <1>1 DEF Types, TypeOK
<1>4. hand[p] <= made
  BY <1>1, <1>2, <1>3 DEF Using, NoConn
<1>5. backlog[p] \in Seq(Conns)
  BY <1>1 DEF Types, TypeOK
<1>6. inbox \in Inboxes /\ dialer \in [Conns -> Peers \cup {"nobody", "both"}]
  BY <1>1 DEF Types, TypeOK, Inboxes
<1> QED BY <1>2, <1>3, <1>4, <1>5, <1>6

\* A peer that gives up, moves on, closes what it accepted or is cancelled has no
\* connection any more, and lets nothing be sent.
LEMMA EndMoves ==
    ASSUME DirectInv, Types', NEW p \in Peers, NEW o, o = Other(p),
           act[p] \in {"free", "response", "ack"}, act'[p] \in {"free", "down"},
           act'[p] = "down" <=> phase'[p] = 4, phase'[p] >= phase[p],
           hand'[p] = NoConn, hand[p] # NoConn => p \in closed'[hand[p]],
           act'[o] = act[o], hand'[o] = hand[o], phase'[o] = phase[o],
           \A c \in Conns : closed[c] \subseteq closed'[c],
           backlog'[o] = backlog[o],
           backlog'[p] = backlog[p] \/ (backlog[p] # << >> /\ backlog'[p] = Tail(backlog[p])),
           UNCHANGED <<public, made, dialer, inbox>>
    PROVE  DirectInv'
<1>0. o \in Peers /\ o # p /\ Other(o) = p /\ \A q \in Peers : q = p \/ q = o
  BY TwoPeers
<1>1. Using(p) /\ Using(o) /\ Kept(p) /\ Kept(o) /\ Listening(p) /\ Listening(o)
  BY <1>0 DEF DirectInv
<1>2. /\ hand[p] \in Conns \cup {NoConn} /\ hand[o] \in Conns \cup {NoConn} /\ NoConn \notin Conns
      /\ backlog[p] \in Seq(Conns) /\ MaxConns \in Nat /\ made \in Nat
  BY <1>0, DirectAssumption DEF DirectInv, Types, TypeOK, Conns, NoConn
<1>3. Using(p)' /\ Using(o)'
  BY <1>1 DEF Using
<1>4. Kept(p)' /\ Kept(o)'
  BY <1>0, <1>1 DEF Kept
<1>5. Listening(o)'
  BY <1>0, <1>1 DEF Listening, InOrder, Waiting
<1>6. Listening(p)'
  <2>1. CASE backlog'[p] = backlog[p]
    BY <1>1, <2>1 DEF Listening, InOrder, Waiting
  <2>2. CASE backlog[p] # << >> /\ backlog'[p] = Tail(backlog[p])
    <3>1. \A i \in DOMAIN backlog'[p] : i \in Nat /\ i + 1 \in DOMAIN backlog[p] /\ backlog'[p][i] = backlog[p][i + 1]
      BY <1>2, <2>2
    <3>2. InOrder(p)'
      BY <1>1, <3>1 DEF Listening, InOrder
    <3>3. \A i \in DOMAIN backlog'[p] : Waiting(p, backlog'[p][i])
      BY <1>1, <3>1 DEF Listening
    <3> QED BY <3>2, <3>3 DEF Listening, Waiting
  <2> QED BY <2>1, <2>2
<1>7. ASSUME NEW c \in Conns PROVE On(c, p)' /\ On(c, o)'
  <2>0. On(c, p) /\ On(c, o)
    BY <1>0, <1>7 DEF DirectInv
  <2>1. dialer[c] = p => OnlyAcks(c, p)'
    BY <1>0, <2>0 DEF On, OnlyAcks
  <2>2. dialer[c] = o => OnlyAcks(c, o)'
    BY <1>0, <2>0 DEF On, OnlyAcks
  <2>3. dialer[c] = "both" => Both(c, p)'
    BY <1>0, <1>2, <2>0 DEF On, Both
  <2>4. dialer[c] = "both" => Both(c, o)'
    BY <1>0, <1>2, <2>0 DEF On, Both, HasAck
  <2> QED BY <2>0, <2>1, <2>2, <2>3, <2>4 DEF On
<1>8. SenderIsLast'
  <2>1. phase \in [Peers -> 1..4] /\ phase' \in [Peers -> 1..4] /\ "sender" \in Peers
    BY DEF DirectInv, Types, TypeOK, Peers
  <2> QED BY <1>0, <2>1 DEF DirectInv, SenderIsLast
<1> QED BY <1>0, <1>3, <1>4, <1>5, <1>6, <1>7, <1>8 DEF DirectInv

\* A dial that connects: nobody has used the connection.
LEMMA DialMoves ==
    ASSUME DirectInv, Types', NEW p \in Peers, NEW o, o = Other(p), NEW c \in Conns, c = made + 1,
           act[p] = "free", phase[p] # 4, act'[p] = "response", hand'[p] = c,
           act'[o] = act[o], hand'[o] = hand[o], phase' = phase,
           made' = c, dialer' = [dialer EXCEPT ![c] = p],
           backlog'[p] = backlog[p], backlog'[o] = Append(backlog[o], c),
           inbox' = [inbox EXCEPT ![c][o] = <<Hello(p)>>],
           p = "sender" /\ ~public => phase[p] = 3,
           UNCHANGED <<public, closed>>
    PROVE  DirectInv'
<1>0. o \in Peers /\ o # p /\ Other(o) = p /\ (\A q \in Peers : q = p \/ q = o) /\ p # "both" /\ o # "both" /\ p # "nobody"
  BY TwoPeers DEF Peers
<1>1. Using(p) /\ Using(o) /\ Kept(p) /\ Kept(o) /\ Listening(p) /\ Listening(o)
  BY <1>0 DEF DirectInv
<1>2. /\ hand[p] = NoConn /\ hand[o] \in Conns \cup {NoConn} /\ NoConn \notin Conns
      /\ backlog[p] \in Seq(Conns) /\ backlog[o] \in Seq(Conns)
      /\ MaxConns \in Nat /\ made \in Nat /\ Conns \subseteq Nat
      /\ dialer \in [Conns -> Peers \cup {"nobody", "both"}] /\ inbox \in Inboxes
  <2>1. hand[p] = NoConn
    BY <1>1 DEF Using
  <2> QED BY <1>0, <2>1, PeerFacts
<1>3. /\ dialer'[c] = p /\ \A d \in Conns : d # c => dialer'[d] = dialer[d]
      /\ inbox'[c][o] = <<Hello(p)>> /\ inbox'[c][p] = inbox[c][p]
      /\ \A d \in Conns, q \in Peers : d # c => inbox'[d][q] = inbox[d][q]
  BY <1>0, <1>2 DEF Inboxes
<1>4. inbox[c][p] = << >> /\ dialer[c] = "nobody"
  <2>1. On(c, p) /\ c > made
    BY <1>2 DEF DirectInv
  <2> QED BY <2>1 DEF On
<1>5. hand[o] # c /\ (hand[o] # NoConn => hand[o] \in Conns)
  <2>1. hand[o] <= made /\ hand[o] \in Conns \cup {NoConn}
    BY <1>0, PeerFacts
  <2> QED BY <1>2, <2>1 DEF NoConn
<1>6. Using(p)' /\ Using(o)'
  <2>1. Using(p)'
    BY <1>0, <1>1, <1>2, <1>3 DEF Using
  <2>2. Using(o)'
    BY <1>0, <1>1, <1>2, <1>3, <1>5 DEF Using, NoConn
  <2> QED BY <2>1, <2>2
<1>7. Kept(p)' /\ Kept(o)'
  BY <1>0, <1>1, <1>2, <1>3, <1>5 DEF Kept, Using, NoConn
<1>8. Listening(p)'
  <2>1. \A i \in DOMAIN backlog[p] : backlog[p][i] \in Conns /\ backlog[p][i] # c /\ Waiting(p, backlog[p][i])
    BY <1>1, <1>2 DEF Listening, Waiting
  <2>2. \A i \in DOMAIN backlog[p] : LET d == backlog[p][i] IN
           d <= made' /\ dialer'[d] = Other(p) /\ inbox'[d][p] # << >> /\ Head(inbox'[d][p]) = Hello(Other(p))
    BY <1>2, <1>3, <2>1 DEF Waiting
  <2> QED BY <1>1, <2>2 DEF Listening, InOrder, Waiting
<1>9. Listening(o)'
  <2>1. \A i \in DOMAIN backlog[o] : backlog[o][i] \in Conns /\ backlog[o][i] < c /\ Waiting(o, backlog[o][i])
    BY <1>1, <1>2 DEF Listening, Waiting
  <2>2. /\ \A i \in DOMAIN backlog'[o] : \/ i \in DOMAIN backlog[o] /\ backlog'[o][i] = backlog[o][i]
                                         \/ i = Len(backlog[o]) + 1 /\ backlog'[o][i] = c
        /\ \A i \in DOMAIN backlog[o] : i < Len(backlog[o]) + 1
    BY <1>2, AtEnd
  <2>3. InOrder(o)'
    <3>1. ASSUME NEW i \in DOMAIN backlog'[o], NEW j \in DOMAIN backlog'[o], i < j
          PROVE  backlog'[o][i] < backlog'[o][j]
      <4>1. CASE j \in DOMAIN backlog[o] /\ i \in DOMAIN backlog[o]
        BY <1>1, <2>1, <2>2, <3>1, <4>1 DEF Listening, InOrder
      <4>2. CASE j = Len(backlog[o]) + 1
        BY <1>2, <2>1, <2>2, <3>1, <4>2
      <4>3. CASE i = Len(backlog[o]) + 1 /\ j \in DOMAIN backlog[o]
        BY <1>2, <2>2, <3>1, <4>3
      <4> QED BY <2>2, <4>1, <4>2, <4>3
    <3> QED BY <3>1 DEF InOrder
  <2>4. ASSUME NEW i \in DOMAIN backlog'[o], NEW d, d = backlog'[o][i]
        PROVE  d <= made' /\ dialer'[d] = Other(o) /\ inbox'[d][o] # << >> /\ Head(inbox'[d][o]) = Hello(Other(o))
    <3>1. CASE d = c
      <4>1. c <= made' /\ dialer'[c] = Other(o) /\ inbox'[c][o] # << >> /\ Head(inbox'[c][o]) = Hello(Other(o))
        <5>1. inbox'[c][o] = <<Hello(p)>> /\ dialer'[c] = p /\ c <= made' /\ Other(o) = p
          BY <1>0, <1>2, <1>3
        <5> QED BY ONLY <5>1
      <4> QED BY <3>1, <4>1
    <3>2. CASE i \in DOMAIN backlog[o] /\ d = backlog[o][i]
      <4>1. d \in Conns /\ d < c /\ Waiting(o, d)
        BY <2>1, <3>2
      <4>2. d <= made' /\ dialer'[d] = Other(o) /\ inbox'[d][o] # << >> /\ Head(inbox'[d][o]) = Hello(Other(o))
        BY <1>0, <1>2, <1>3, <4>1 DEF Waiting
      <4> QED BY <4>2
    <3> QED BY <2>2, <2>4, <3>1, <3>2
  <2> QED BY <2>3, <2>4 DEF Listening, Waiting
<1>10. ASSUME NEW d \in Conns PROVE On(d, p)' /\ On(d, o)'
  <2>0. On(d, p) /\ On(d, o)
    BY <1>0, <1>10 DEF DirectInv
  <2>1. CASE d = c
    <3>1. OnlyAcks(c, p)'
      BY <1>3, <1>4 DEF OnlyAcks
    <3> QED BY <1>0, <1>2, <1>3, <2>1, <3>1 DEF On
  <2>2. CASE d # c
    <3>1. dialer'[d] = dialer[d] /\ inbox'[d][p] = inbox[d][p] /\ inbox'[d][o] = inbox[d][o]
      BY <1>0, <1>3, <2>2
    <3>2. dialer[d] = p => OnlyAcks(d, p)'
      BY <1>0, <2>0, <3>1 DEF On, OnlyAcks
    <3>3. dialer[d] = o => OnlyAcks(d, o)'
      BY <1>0, <2>0, <3>1 DEF On, OnlyAcks
    <3>4. dialer[d] = "both" => Both(d, p)'
      BY <1>0, <1>2, <2>0, <2>2, <3>1 DEF On, Both, HasAck
    <3>5. dialer[d] = "both" => Both(d, o)'
      BY <1>0, <1>2, <2>0, <2>2, <3>1 DEF On, Both, HasAck
    <3>6. d > made' => inbox'[d][p] = << >> /\ inbox'[d][o] = << >> /\ dialer'[d] = "nobody"
      BY <1>2, <2>0, <3>1 DEF On
    <3> QED BY <3>1, <3>2, <3>3, <3>4, <3>5, <3>6 DEF On
  <2> QED BY <2>1, <2>2
<1>11. SenderIsLast'
  <2>1. CASE p = "sender"
    BY <1>0, <1>3, <2>1 DEF DirectInv, SenderIsLast
  <2>2. CASE p # "sender"
    <3>1. o = "sender" /\ p # "sender"
      BY <1>0, <2>2 DEF Peers
    <3> QED BY <1>0, <1>1, <1>2, <1>3, <1>5, <3>1 DEF DirectInv, SenderIsLast, Using, NoConn
  <2> QED BY <2>1, <2>2
<1> QED BY <1>0, <1>6, <1>7, <1>8, <1>9, <1>10, <1>11 DEF DirectInv

\* Two dials that cross: both peers are new to the connection.
LEMMA CrossMoves ==
    ASSUME DirectInv, Types', NEW c, c = made + 1, Cross
    PROVE  DirectInv'
<1>0. /\ public' = public /\ public /\ made < MaxConns /\ phase' = phase /\ made' = c
      /\ UNCHANGED <<backlog, closed>>
      /\ dialer' = [dialer EXCEPT ![c] = "both"]
      /\ inbox' = [inbox EXCEPT ![c] = [p \in Peers |-> <<Hello(Other(p))>>]]
      /\ \A p \in Peers : /\ act[p] = "free" /\ act'[p] = "response" /\ hand'[p] = c
  BY DEF Cross, Free
<1>1. c \in Conns /\ c \in Nat
  <2>1. MaxConns \in Nat /\ made \in Nat
    BY DirectAssumption DEF DirectInv, Types
  <2> QED BY <1>0, <2>1 DEF Conns
<1>2. \A p \in Peers : Using(p) /\ Listening(p) /\ hand[p] = NoConn /\ phase[p] # 4
  BY <1>0 DEF DirectInv, Using
<1>3. "both" \notin Peers /\ "both" # "nobody"
  BY DEF Peers
<1>4. ASSUME NEW p \in Peers
      PROVE  /\ Using(p)' /\ Kept(p)' /\ Listening(p)'
             /\ \A d \in Conns : On(d, p)'
  <2> DEFINE o == Other(p)
  <2>0. o \in Peers /\ o # p /\ Other(o) = p
    BY TwoPeers
  <2> HIDE DEF o
  <2>1. /\ NoConn \notin Conns /\ made \in Nat /\ Conns \subseteq Nat /\ backlog[p] \in Seq(Conns)
        /\ dialer \in [Conns -> Peers \cup {"nobody", "both"}] /\ inbox \in Inboxes
    BY <1>4, PeerFacts
  <2>2. /\ dialer'[c] = "both" /\ \A d \in Conns : d # c => dialer'[d] = dialer[d]
        /\ inbox'[c][p] = <<Hello(Other(p))>> /\ \A d \in Conns, q \in Peers : d # c => inbox'[d][q] = inbox[d][q]
    BY <1>0, <1>1, <2>1 DEF Inboxes
  <2>3. Using(p)'
    <3>1. c \in 1..made'
      BY <1>0, <1>1, <2>1 DEF Conns
    <3> QED BY <1>0, <1>2, <2>2, <3>1 DEF Using
  <2>4. Kept(p)'
    BY <1>0 DEF Kept
  <2>5. Listening(p)'
    <3>1. \A i \in DOMAIN backlog[p] : backlog[p][i] \in Conns /\ backlog[p][i] < c /\ Waiting(p, backlog[p][i])
      <4>1. Listening(p)
        BY <1>2, <1>4
      <4>2. \A i \in DOMAIN backlog[p] : backlog[p][i] \in Conns
        BY <2>1
      <4>3. \A d \in Conns : d <= made => d < c
        BY <2>1
      <4>4. \A i \in DOMAIN backlog[p] : Waiting(p, backlog[p][i]) /\ backlog[p][i] <= made
        BY <4>1 DEF Listening, Waiting
      <4> QED BY <4>2, <4>3, <4>4
    <3>2. \A i \in DOMAIN backlog[p] : LET d == backlog[p][i] IN
             d <= made' /\ dialer'[d] = Other(p) /\ inbox'[d][p] # << >> /\ Head(inbox'[d][p]) = Hello(Other(p))
      <4>1. \A d \in Conns : d < c => d <= made' /\ dialer'[d] = dialer[d] /\ inbox'[d][p] = inbox[d][p]
        BY <1>0, <1>1, <1>4, <2>1, <2>2
      <4> QED BY <3>1, <4>1 DEF Waiting
    <3> QED BY <1>0, <1>2, <3>2 DEF Listening, InOrder, Waiting
  <2>6. ASSUME NEW d \in Conns PROVE On(d, p)'
    <3>0. On(d, p)
      BY <1>4, <2>6 DEF DirectInv
    <3>1. CASE d = c
      <4>1. inbox'[c][p] # << >> /\ Head(inbox'[c][p]) = Hello(Other(p))
        BY ONLY <2>2
      <4>2. Both(c, p)'
        BY <1>0, <4>1 DEF Both
      <4>3. ~(c > made') /\ dialer'[c] # p
        BY <1>0, <1>1, <1>3, <2>2
      <4> QED BY <3>1, <4>2, <4>3 DEF On
    <3>2. CASE d # c
      <4>1. dialer'[d] = dialer[d] /\ inbox'[d][p] = inbox[d][p]
        BY <2>2, <3>2
      <4>2. dialer[d] = p => OnlyAcks(d, p)'
        <5>1. act[o] # "up"
          BY <1>0, <2>0
        <5> QED BY <3>0, <4>1, <5>1 DEF On, OnlyAcks, o
      <4>3. dialer[d] = "both" => Both(d, p)'
        BY <1>0, <1>2, <2>1, <3>0, <3>2 DEF On, Both
      <4>4. d > made' => d > made
        BY <1>0, <1>1, <2>1
      <4> QED BY <3>0, <4>1, <4>2, <4>3, <4>4 DEF On
    <3> QED BY <3>1, <3>2
  <2> QED BY <2>3, <2>4, <2>5, <2>6
<1>5. SenderIsLast'
  BY <1>0 DEF SenderIsLast
<1> QED BY <1>4, <1>5 DEF DirectInv

\* A peer that reads an ack keeps the connection: if it had dialled it alone, the
\* other has accepted it; if both had, it has acknowledged the other's hello.
LEMMA AckMoves ==
    ASSUME DirectInv, Types', NEW p \in Peers, NEW o, o = Other(p), NEW c \in Conns, c = hand[p],
           act[p] \in {"response", "ack"}, inbox[c][p] # << >>, Head(inbox[c][p]) = Ack,
           act' = [act EXCEPT ![p] = "up"], phase' = [phase EXCEPT ![p] = 4],
           inbox' = [inbox EXCEPT ![c][p] = Tail(@)],
           UNCHANGED <<public, hand, made, dialer, paired, backlog, closed>>
    PROVE  DirectInv'
<1>0. o \in Peers /\ o # p /\ Other(o) = p /\ (\A q \in Peers : q = p \/ q = o) /\ Hello(o) # Ack
  BY TwoPeers
<1>1. Using(p) /\ Using(o) /\ Kept(p) /\ Kept(o) /\ Listening(p) /\ Listening(o) /\ On(c, p) /\ On(c, o)
  BY <1>0 DEF DirectInv
<1>2. act'[p] = "up" /\ act'[o] = act[o] /\ phase'[p] = 4 /\ phase'[o] = phase[o]
  BY <1>0 DEF DirectInv, Types, TypeOK
<1>3. inbox \in Inboxes /\ dialer[c] \in {p, "both"} /\ p # "both"
  <2>1. dialer[c] \in {p, "both"}
    BY <1>1 DEF Using
  <2>2. inbox \in Inboxes
    BY PeerFacts
  <2> QED BY <2>1, <2>2 DEF Peers
<1>4. /\ inbox[c][p] \in Seq(Frames) /\ inbox'[c][p] = Tail(inbox[c][p])
      /\ \A d \in Conns, q \in Peers : ~(d = c /\ q = p) => inbox'[d][q] = inbox[d][q]
  BY <1>3 DEF Inboxes
<1>5. /\ 1 \in DOMAIN inbox[c][p] /\ inbox[c][p][1] = Ack
      /\ \A i \in DOMAIN inbox'[c][p] : i + 1 \in DOMAIN inbox[c][p] /\ inbox'[c][p][i] = inbox[c][p][i + 1]
  <2>1. inbox[c][p] \in Seq(Frames)
    BY <1>4
  <2>2. /\ 1 \in DOMAIN inbox[c][p] /\ inbox[c][p][1] = Ack
        /\ \A i \in DOMAIN Tail(inbox[c][p]) :
              i + 1 \in DOMAIN inbox[c][p] /\ Tail(inbox[c][p])[i] = inbox[c][p][i + 1]
    BY <2>1, FromFront
  <2> QED BY <1>4, <2>2
<1>6. dialer[c] = p => act[o] = "up" /\ hand[o] = c
  BY <1>1, <1>5 DEF On, OnlyAcks
<1>7. Using(p)' /\ Using(o)'
  BY <1>1, <1>2, <1>3, <1>0 DEF Using, Peers
<1>8. Kept(p)' /\ Kept(o)'
  <2>1. Kept(p)'
    BY <1>2, <1>6 DEF Kept
  <2>2. Kept(o)'
    BY <1>0, <1>1, <1>2 DEF Kept
  <2> QED BY <2>1, <2>2
<1>9. ASSUME NEW q \in Peers PROVE Listening(q)'
  <2>0. Listening(q) /\ backlog[q] \in Seq(Conns)
    BY PeerFacts DEF DirectInv
  <2>1. \A i \in DOMAIN backlog[q] : backlog[q][i] \in Conns /\ Waiting(q, backlog[q][i])
    BY <2>0 DEF Listening
  <2>2. \A i \in DOMAIN backlog[q] : inbox'[backlog[q][i]][q] = inbox[backlog[q][i]][q]
    BY <1>0, <1>3, <1>4, <2>1 DEF Waiting
  <2> QED BY <2>0, <2>1, <2>2 DEF Listening, InOrder, Waiting
<1>10. ASSUME NEW d \in Conns PROVE On(d, p)' /\ On(d, o)'
  <2>0. On(d, p) /\ On(d, o)
    BY <1>0, <1>10 DEF DirectInv
  <2>1. dialer[d] = p => OnlyAcks(d, p)'
    BY <1>2, <1>4, <1>5, <2>0 DEF On, OnlyAcks
  <2>2. dialer[d] = o => OnlyAcks(d, o)'
    BY <1>0, <1>2, <1>4, <2>0 DEF On, OnlyAcks
  <2>3. dialer[d] = "both" => Both(d, p)'
    <3>1. inbox'[d][o] = inbox[d][o]
      BY <1>0, <1>4
    <3>2. act[p] = "response" /\ hand[p] = d /\ dialer[d] = "both" => FALSE
      BY <1>0, <2>0 DEF On, Both
    <3> QED BY <1>0, <1>2, <2>0, <3>1, <3>2 DEF On, Both, HasAck
  <2>4. dialer[d] = "both" => Both(d, o)'
    <3>1. inbox'[d][o] = inbox[d][o]
      BY <1>0, <1>4
    <3>2. d # c => inbox'[d][p] = inbox[d][p]
      BY <1>4
    <3> QED BY <1>0, <1>2, <2>0, <3>1, <3>2 DEF On, Both, HasAck
  <2>5. d > made => inbox'[d][p] = << >> /\ inbox'[d][o] = << >> /\ dialer[d] = "nobody"
    BY <1>0, <1>3, <1>4, <2>0 DEF On, Peers
  <2> QED BY <2>1, <2>2, <2>3, <2>4, <2>5 DEF On
<1>11. SenderIsLast'
  BY <1>0, <1>2, <1>3 DEF DirectInv, SenderIsLast, Peers
<1> QED BY <1>0, <1>7, <1>8, <1>9, <1>10, <1>11 DEF DirectInv

\* A dialer that reads the hello of another dialer acknowledges it and waits on.
LEMMA HelloMoves ==
    ASSUME DirectInv, Types', NEW p \in Peers, NEW o, o = Other(p), NEW c \in Conns, c = hand[p],
           act[p] = "response", inbox[c][p] # << >>, Head(inbox[c][p]) = Hello(o),
           act' = [act EXCEPT ![p] = "ack"],
           inbox' = Sent([inbox EXCEPT ![c][p] = Tail(@)], c, o, Ack),
           UNCHANGED <<public, phase, hand, made, dialer, paired, backlog, closed>>
    PROVE  DirectInv'
<1>0. o \in Peers /\ o # p /\ Other(o) = p /\ (\A q \in Peers : q = p \/ q = o) /\ Hello(o) # Ack /\ Ack \in Frames
  BY TwoPeers
<1>1. Using(p) /\ Using(o) /\ Kept(p) /\ Kept(o) /\ Listening(p) /\ Listening(o) /\ On(c, p) /\ On(c, o)
  BY <1>0 DEF DirectInv
<1>2. act'[p] = "ack" /\ act'[o] = act[o]
  BY <1>0 DEF DirectInv, Types, TypeOK
<1>3. inbox \in Inboxes /\ dialer[c] \in {p, "both"} /\ "both" \notin Peers
  <2>1. dialer[c] \in {p, "both"}
    BY <1>1 DEF Using
  <2>2. inbox \in Inboxes
    BY PeerFacts
  <2> QED BY <2>1, <2>2 DEF Peers
<1> DEFINE rest == [inbox EXCEPT ![c][p] = Tail(@)]
<1>4. inbox[c][p] \in Seq(Frames) /\ inbox[c][o] \in Seq(Frames)
  BY <1>0, <1>3 DEF Inboxes
<1>5. /\ 1 \in DOMAIN inbox[c][p] /\ inbox[c][p][1] = Hello(o) /\ Tail(inbox[c][p]) \in Seq(Frames)
      /\ \A i \in DOMAIN inbox[c][p] : i # 1 =>
            i - 1 \in DOMAIN Tail(inbox[c][p]) /\ Tail(inbox[c][p])[i - 1] = inbox[c][p][i]
  BY <1>4, FromFront
<1>6. /\ rest \in Inboxes /\ rest[c][p] = Tail(inbox[c][p])
      /\ \A d \in Conns, q \in Peers : ~(d = c /\ q = p) => rest[d][q] = inbox[d][q]
  BY <1>3, <1>5 DEF Inboxes
<1> HIDE DEF rest
<1>7. /\ inbox'[c][p] = Tail(inbox[c][p])
      /\ inbox'[c][o] = IF o \in closed[c] THEN inbox[c][o] ELSE Append(inbox[c][o], Ack)
      /\ \A d \in Conns, q \in Peers : d # c => inbox'[d][q] = inbox[d][q]
  <2>1. inbox' = Sent(rest, c, o, Ack)
    BY DEF rest
  <2>2. /\ \A d \in Conns, q \in Peers : ~(d = c /\ q = o) => inbox'[d][q] = rest[d][q]
        /\ inbox'[c][o] = IF o \in closed[c] THEN rest[c][o] ELSE Append(rest[c][o], Ack)
    <3>1. /\ \A d \in Conns, q \in Peers : ~(d = c /\ q = o) => Sent(rest, c, o, Ack)[d][q] = rest[d][q]
          /\ Sent(rest, c, o, Ack)[c][o] = IF o \in closed[c] THEN rest[c][o] ELSE Append(rest[c][o], Ack)
      BY <1>0, <1>6, SentAt
    <3> QED BY <2>1, <3>1
  <2>3. inbox'[c][p] = Tail(inbox[c][p])
    BY <1>0, <1>6, <2>2
  <2>4. rest[c][o] = inbox[c][o]
    BY <1>0, <1>6
  <2>5. \A d \in Conns, q \in Peers : d # c => inbox'[d][q] = inbox[d][q]
    BY <1>6, <2>2
  <2> QED BY <2>2, <2>3, <2>4, <2>5
<1>8. dialer[c] = "both"
  <2>1. dialer[c] # p
    BY <1>0, <1>1, <1>5 DEF On, OnlyAcks
  <2> QED BY <1>3, <2>1
<1>9. /\ inbox[c][o] # << >> => inbox'[c][o] # << >> /\ Head(inbox'[c][o]) = Head(inbox[c][o])
      /\ HasAck(c, o) => HasAck(c, o)'
      /\ o \notin closed[c] => HasAck(c, o)'
  <2>1. CASE o \in closed[c]
    BY <1>7, <2>1 DEF HasAck
  <2>2. CASE o \notin closed[c]
    <3>1. inbox'[c][o] = Append(inbox[c][o], Ack)
      BY <1>7, <2>2
    <3>2. /\ Append(inbox[c][o], Ack) # << >>
          /\ inbox[c][o] # << >> => Head(Append(inbox[c][o], Ack)) = Head(inbox[c][o])
          /\ \E i \in DOMAIN Append(inbox[c][o], Ack) : Append(inbox[c][o], Ack)[i] = Ack
      <4>1. inbox[c][o] \in Seq(Frames) /\ Ack \in Frames
        BY <1>0, <1>4
      <4> QED BY ONLY <4>1, AtEnd
    <3> QED BY <3>1, <3>2 DEF HasAck
  <2> QED BY <2>1, <2>2
<1>10. HasAck(c, p) => HasAck(c, p)'
  <2>1. HasAck(c, p) => \E i \in DOMAIN Tail(inbox[c][p]) : Tail(inbox[c][p])[i] = Ack
    BY <1>0, <1>5 DEF HasAck
  <2> QED BY <1>7, <2>1 DEF HasAck
<1>11. Using(p)' /\ Using(o)'
  BY <1>0, <1>1, <1>2 DEF Using
<1>12. Kept(p)' /\ Kept(o)'
  BY <1>0, <1>1, <1>2 DEF Kept
<1>13. ASSUME NEW q \in Peers PROVE Listening(q)'
  <2>0. Listening(q) /\ backlog[q] \in Seq(Conns) /\ Other(q) \in Peers
    BY PeerFacts, TwoPeers DEF DirectInv
  <2>1. \A i \in DOMAIN backlog[q] : backlog[q][i] \in Conns /\ Waiting(q, backlog[q][i]) /\ backlog[q][i] # c
    BY <1>3, <1>8, <2>0 DEF Listening, Waiting
  <2>2. \A i \in DOMAIN backlog[q] : inbox'[backlog[q][i]][q] = inbox[backlog[q][i]][q]
    BY <1>7, <2>1
  <2> QED BY <2>0, <2>1, <2>2 DEF Listening, InOrder, Waiting
<1>14. ASSUME NEW d \in Conns PROVE On(d, p)' /\ On(d, o)'
  <2>0. On(d, p) /\ On(d, o) /\ made \in Nat
    BY <1>0, <1>14, PeerFacts DEF DirectInv
  <2>1. CASE d = c
    <3>1. Both(c, p) /\ Both(c, o)
      BY <1>1, <1>8 DEF On
    <3>2. Both(c, p)'
      BY <1>0, <1>2, <1>9, <3>1 DEF Both
    <3>3. Both(c, o)'
      BY <1>0, <1>2, <1>9, <1>10, <3>1 DEF Both
    <3>4. ~(c > made)
      BY <1>1, <1>8 DEF On
    <3> QED BY <1>0, <1>3, <1>8, <2>1, <3>2, <3>3, <3>4 DEF On
  <2>2. CASE d # c
    <3>1. inbox'[d][p] = inbox[d][p] /\ inbox'[d][o] = inbox[d][o]
      BY <1>0, <1>7, <2>2
    <3>2. dialer[d] = p => OnlyAcks(d, p)'
      BY <1>0, <1>2, <2>0, <3>1 DEF On, OnlyAcks
    <3>3. dialer[d] = o => OnlyAcks(d, o)'
      BY <1>0, <1>2, <2>0, <3>1 DEF On, OnlyAcks
    <3>4. dialer[d] = "both" => Both(d, p)'
      BY <1>0, <1>2, <2>0, <2>2, <3>1 DEF On, Both, HasAck
    <3>5. dialer[d] = "both" => Both(d, o)'
      BY <1>0, <1>2, <2>0, <2>2, <3>1 DEF On, Both, HasAck
    <3> QED BY <2>0, <3>1, <3>2, <3>3, <3>4, <3>5 DEF On
  <2> QED BY <2>1, <2>2
<1>15. SenderIsLast'
  BY <1>8 DEF DirectInv, SenderIsLast
<1> QED BY <1>0, <1>11, <1>12, <1>13, <1>14, <1>15 DEF DirectInv

\* A peer that accepts keeps the connection and tells the dialer, unless that has
\* closed it; the role it expected is the one of the dialer.
LEMMA AcceptMoves ==
    ASSUME DirectInv, Types', NEW p \in Peers, NEW o, o = Other(p), NEW c \in Conns,
           act[p] = "free", phase[p] # 4, phase[p] = 1 => public, backlog[p] # << >>, c = Head(backlog[p]),
           Head(inbox[c][p]) = Hello(Expected(p)),
           backlog' = [backlog EXCEPT ![p] = Tail(@)], AcceptGood(p, c),
           UNCHANGED <<public, made, dialer, paired>>
    PROVE  DirectInv'
<1>0. o \in Peers /\ o # p /\ Other(o) = p /\ (\A q \in Peers : q = p \/ q = o) /\ Ack \in Frames
  BY TwoPeers
<1>1. Using(p) /\ Using(o) /\ Kept(p) /\ Kept(o) /\ Listening(p) /\ Listening(o) /\ On(c, p) /\ On(c, o)
  BY <1>0 DEF DirectInv
<1>2. /\ act'[p] = "up" /\ act'[o] = act[o] /\ phase'[p] = 4 /\ phase'[o] = phase[o]
      /\ hand'[p] = c /\ hand'[o] = hand[o] /\ closed' = closed /\ hand[p] = NoConn
  BY <1>0, <1>1 DEF DirectInv, Types, TypeOK, AcceptGood, Using
<1>3. /\ inbox \in Inboxes /\ backlog[p] \in Seq(Conns) /\ "both" \notin Peers /\ "nobody" \notin Peers
      /\ made \in Nat /\ Conns \subseteq Nat /\ NoConn \notin Conns
  BY PeerFacts DEF Peers
<1>4. /\ 1 \in DOMAIN backlog[p] /\ c = backlog[p][1]
      /\ \A i \in DOMAIN Tail(backlog[p]) : i + 1 \in DOMAIN backlog[p] /\ Tail(backlog[p])[i] = backlog[p][i + 1]
  BY <1>3, FromFront
<1>5. c <= made /\ dialer[c] = o /\ Head(inbox[c][p]) = Hello(o)
  BY <1>1, <1>4 DEF Listening, Waiting
<1>6. Expected(p) = o
  <2>1. Hello(Expected(p)) = Hello(o)
    BY <1>5
  <2> QED BY <2>1 DEF Hello
<1> DEFINE empty == [inbox EXCEPT ![c][p] = << >>]
<1>7. /\ empty \in Inboxes /\ empty[c][p] = << >>
      /\ \A d \in Conns, q \in Peers : ~(d = c /\ q = p) => empty[d][q] = inbox[d][q]
  <2>1. << >> \in Seq(Frames)
    OBVIOUS
  <2> QED BY <1>3, <2>1 DEF Inboxes
<1> HIDE DEF empty
<1>8. /\ inbox'[c][p] = << >>
      /\ inbox'[c][o] = IF o \in closed[c] THEN inbox[c][o] ELSE Append(inbox[c][o], Ack)
      /\ \A d \in Conns, q \in Peers : d # c => inbox'[d][q] = inbox[d][q]
  <2>1. inbox' = Sent(empty, c, o, Ack)
    BY DEF empty, AcceptGood
  <2>2. /\ \A d \in Conns, q \in Peers : ~(d = c /\ q = o) => inbox'[d][q] = empty[d][q]
        /\ inbox'[c][o] = IF o \in closed[c] THEN empty[c][o] ELSE Append(empty[c][o], Ack)
    <3>1. /\ \A d \in Conns, q \in Peers : ~(d = c /\ q = o) => Sent(empty, c, o, Ack)[d][q] = empty[d][q]
          /\ Sent(empty, c, o, Ack)[c][o] = IF o \in closed[c] THEN empty[c][o] ELSE Append(empty[c][o], Ack)
      BY <1>0, <1>7, SentAt
    <3> QED BY <2>1, <3>1
  <2>3. inbox'[c][p] = << >>
    BY <1>0, <1>7, <2>2
  <2>4. empty[c][o] = inbox[c][o]
    BY <1>0, <1>7
  <2>5. \A d \in Conns, q \in Peers : d # c => inbox'[d][q] = inbox[d][q]
    BY <1>7, <2>2
  <2> QED BY <2>2, <2>3, <2>4, <2>5
<1>9. \A i \in DOMAIN inbox'[c][o] : inbox'[c][o][i] = Ack
  <2>1. \A i \in DOMAIN inbox[c][o] : inbox[c][o][i] = Ack
    BY <1>0, <1>1, <1>5 DEF On, OnlyAcks
  <2>2. inbox[c][o] \in Seq(Frames)
    BY <1>0, <1>3 DEF Inboxes
  <2>3. \A i \in DOMAIN Append(inbox[c][o], Ack) : Append(inbox[c][o], Ack)[i] = Ack
    BY <1>0, <2>1, <2>2, AtEnd
  <2> QED BY <1>8, <2>1, <2>3
<1>10. Using(p)' /\ Using(o)'
  <2>1. c \in 1..made /\ c # NoConn
    BY <1>3, <1>5 DEF Conns
  <2>2. Using(p)'
    BY <1>0, <1>2, <1>3, <1>5, <2>1 DEF Using
  <2>3. Using(o)'
    BY <1>1, <1>2 DEF Using
  <2> QED BY <2>2, <2>3
<1>11. Kept(p)' /\ Kept(o)'
  BY <1>0, <1>1, <1>2, <1>5 DEF Kept
<1>12. Listening(p)'
  <2>1. backlog'[p] = Tail(backlog[p])
    BY DEF DirectInv, Types, TypeOK
  <2>2. \A i \in DOMAIN backlog'[p] : i \in Nat /\ i + 1 \in DOMAIN backlog[p] /\ 1 < i + 1 /\ backlog'[p][i] = backlog[p][i + 1]
    <3>1. \A i \in DOMAIN Tail(backlog[p]) : i \in Nat /\ 1 < i + 1
      BY <1>3
    <3> QED BY <1>4, <2>1, <3>1
  <2>3. InOrder(p)'
    BY <1>1, <2>2 DEF Listening, InOrder
  <2>4. \A i \in DOMAIN backlog'[p] : Waiting(p, backlog'[p][i]) /\ c < backlog'[p][i] /\ backlog'[p][i] \in Conns
    <3>1. \A i \in DOMAIN backlog[p] : Waiting(p, backlog[p][i]) /\ backlog[p][i] \in Conns
      BY <1>1, <1>3 DEF Listening
    <3>2. \A i \in DOMAIN backlog[p] : 1 < i => c < backlog[p][i]
      BY <1>1, <1>4 DEF Listening, InOrder
    <3> QED BY <2>2, <3>1, <3>2
  <2>5. \A i \in DOMAIN backlog'[p] : inbox'[backlog'[p][i]][p] = inbox[backlog'[p][i]][p]
    <3>1. c \in Nat /\ \A d \in Conns : d \in Nat
      BY <1>3
    <3>2. \A d \in Conns : c < d => inbox'[d][p] = inbox[d][p]
      BY <1>8, <3>1
    <3> QED BY <2>4, <3>2
  <2> QED BY <2>3, <2>4, <2>5 DEF Listening, Waiting
<1>13. Listening(o)'
  <2>0. backlog[o] \in Seq(Conns) /\ backlog'[o] = backlog[o]
    BY <1>0, PeerFacts DEF DirectInv, Types, TypeOK
  <2>1. \A i \in DOMAIN backlog[o] : backlog[o][i] \in Conns /\ Waiting(o, backlog[o][i])
    BY <1>1, <2>0 DEF Listening
  <2>2. \A i \in DOMAIN backlog[o] : inbox'[backlog[o][i]][o] = inbox[backlog[o][i]][o]
    BY <1>0, <1>5, <1>8, <2>1 DEF Waiting
  <2> QED BY <1>1, <2>0, <2>1, <2>2 DEF Listening, InOrder, Waiting
<1>14. ASSUME NEW d \in Conns PROVE On(d, p)' /\ On(d, o)'
  <2>0. On(d, p) /\ On(d, o)
    BY <1>0, <1>14 DEF DirectInv
  <2>1. CASE d = c
    <3>1. OnlyAcks(c, o)'
      BY <1>0, <1>2, <1>9 DEF OnlyAcks
    <3>2. ~(c > made) /\ dialer[c] # "both" /\ dialer[c] # p
      BY <1>0, <1>3, <1>5
    <3> QED BY <2>1, <3>1, <3>2 DEF On
  <2>2. CASE d # c
    <3>1. inbox'[d][p] = inbox[d][p] /\ inbox'[d][o] = inbox[d][o]
      BY <1>0, <1>8, <2>2
    <3>2. dialer[d] = p => OnlyAcks(d, p)'
      BY <1>0, <1>2, <2>0, <3>1 DEF On, OnlyAcks
    <3>3. dialer[d] = o => OnlyAcks(d, o)'
      BY <1>0, <1>2, <2>0, <3>1 DEF On, OnlyAcks
    <3>4. dialer[d] = "both" => Both(d, p)'
      BY <1>0, <1>2, <1>3, <2>0, <2>2, <3>1 DEF On, Both, HasAck
    <3>5. dialer[d] = "both" => Both(d, o)'
      BY <1>0, <1>2, <1>3, <2>0, <2>2, <3>1 DEF On, Both, HasAck
    <3> QED BY <2>0, <3>1, <3>2, <3>3, <3>4, <3>5 DEF On
  <2> QED BY <2>1, <2>2
<1>15. SenderIsLast'
  <2>1. CASE p = "sender"
    <3>1. o = "receiver" /\ "receiver" # "sender"
      BY <2>1 DEF Other
    <3>2. phase[p] \in 1..4
      BY PeerFacts
    <3>3. phase[p] \in {1, 2}
      <4>1. PhaseOf(p) = "sender_active" => Expected(p) = "sender"
        BY DEF Expected
      <4>2. PhaseOf(p) # "sender_active"
        BY <1>6, <3>1, <4>1
      <4> QED BY <3>2, <4>2, PhaseNames
    <3> QED BY <2>1, <3>3 DEF DirectInv, SenderIsLast
  <2>2. CASE p # "sender"
    <3>1. o = "sender"
      BY <1>0, <2>2 DEF Peers
    <3> QED BY <1>2, <3>1 DEF DirectInv, SenderIsLast
  <2> QED BY <2>1, <2>2
<1> QED BY <1>0, <1>10, <1>11, <1>12, <1>13, <1>14, <1>15 DEF DirectInv

\* Every step keeps the invariant.
LEMMA NextInv ==
    ASSUME DirectInv, [Next]_vars
    PROVE  DirectInv'
<1>1. Types'
  BY TypesNext DEF DirectInv
<1>2. CASE UNCHANGED vars
  BY <1>1, <1>2 DEF vars, connVars, DirectInv, SenderIsLast, Using, Listening, InOrder, Waiting, Kept, On,
                    OnlyAcks, Both, HasAck
<1>3. CASE Cross
  BY <1>1, <1>3, CrossMoves
<1>4. ASSUME NEW p \in Peers, Peer(p)
      PROVE  DirectInv'
  <2>0. PICK o \in Peers : o = Other(p) /\ o # p
    BY TwoPeers
  <2>1. Using(p) /\ Types /\ MaxConns \in Nat
    BY DirectAssumption DEF DirectInv
  <2>2. /\ phase \in [Peers -> 1..4] /\ act \in [Peers -> {"free", "response", "ack", "up", "down"}]
        /\ hand \in [Peers -> Conns \cup {NoConn}] /\ closed \in [Conns -> SUBSET Peers]
        /\ backlog \in [Peers -> Seq(Conns)] /\ made \in Nat
    BY <2>1 DEF Types, TypeOK
  <2>3. ASSUME Free(p) PROVE act[p] = "free" /\ phase[p] \in 1..3
    BY <2>2, <2>3, PhaseNames DEF Free
  <2>4. ASSUME NEW same \in BOOLEAN, Dial(p, same)
        PROVE  DirectInv'
    <3>1. PICK c \in Conns : c = made + 1
      BY <2>1, <2>2, <2>4 DEF Dial, Conns
    <3>2. act[p] = "free" /\ phase[p] \in 1..3
      BY <2>3, <2>4 DEF Dial
    <3>3. /\ made' = c /\ dialer' = [dialer EXCEPT ![c] = p]
          /\ backlog' = [backlog EXCEPT ![o] = Append(@, c)]
          /\ inbox' = [inbox EXCEPT ![c][o] = <<Hello(p)>>]
          /\ hand' = [hand EXCEPT ![p] = c] /\ act' = [act EXCEPT ![p] = "response"]
          /\ UNCHANGED <<public, phase, closed>>
      BY <2>0, <2>4, <3>1 DEF Dial
    <3>4. p = "sender" /\ ~public => phase[p] = 3
      <4>1. ASSUME p = "sender", ~public PROVE PhaseOf(p) = "sender_active"
        BY <2>4, <4>1 DEF Dial, IsActive
      <4> QED BY <2>2, <4>1, PhaseNames
    <3>5. /\ act'[p] = "response" /\ hand'[p] = c /\ act'[o] = act[o] /\ hand'[o] = hand[o]
          /\ backlog'[p] = backlog[p] /\ backlog'[o] = Append(backlog[o], c)
      BY <2>0, <2>2, <3>3
    <3>6. phase[p] # 4
      BY <3>2
    <3>7. act[p] = "free" /\ phase' = phase /\ made' = c /\ UNCHANGED <<public, closed>>
      BY <3>2, <3>3
    <3>8. dialer' = [dialer EXCEPT ![c] = p] /\ inbox' = [inbox EXCEPT ![c][o] = <<Hello(p)>>]
      BY <3>3
    <3>9. o = Other(p)
      BY <2>0
    <3> QED BY ONLY DirectInv, <1>1, <3>1, <3>4, <3>5, <3>6, <3>7, <3>8, <3>9, DialMoves
  <2>5. CASE Answer(p)
    <3>1. act[p] \in {"response", "ack"}
      BY <2>5 DEF Answer
    <3>2. hand[p] \in Conns
      <4>1. hand[p] \in 1..made /\ hand[p] \in Conns \cup {NoConn}
        BY <2>1, <2>2, <3>1 DEF Using
      <4> QED BY ONLY <4>1 DEF NoConn
    <3>3. PICK c \in Conns : c = hand[p]
      BY <3>2
    <3>4. o = Other(p)
      BY <2>0
    <3>5. /\ inbox[c][p] # << >>
          /\ UNCHANGED <<public, hand, made, dialer, paired, backlog, closed>>
          /\ \/ /\ Head(inbox[c][p]) = Ack
                /\ act' = [act EXCEPT ![p] = "up"] /\ phase' = [phase EXCEPT ![p] = 4]
                /\ inbox' = [inbox EXCEPT ![c][p] = Tail(@)]
             \/ /\ Head(inbox[c][p]) = Hello(Other(p)) /\ act[p] = "response"
                /\ act' = [act EXCEPT ![p] = "ack"] /\ phase' = phase
                /\ inbox' = Sent([inbox EXCEPT ![c][p] = Tail(@)], c, Other(p), Ack)
      BY ONLY p \in Peers, <2>5, <3>3, AnswerCases, Zenon
    <3>6. CASE Head(inbox[c][p]) = Ack /\ act' = [act EXCEPT ![p] = "up"] /\ phase' = [phase EXCEPT ![p] = 4]
               /\ inbox' = [inbox EXCEPT ![c][p] = Tail(@)]
      BY ONLY DirectInv, <1>1, <3>1, <3>3, <3>4, <3>5, <3>6, AckMoves, Zenon
    <3>7. CASE Head(inbox[c][p]) = Hello(Other(p)) /\ act[p] = "response"
               /\ act' = [act EXCEPT ![p] = "ack"] /\ phase' = phase
               /\ inbox' = Sent([inbox EXCEPT ![c][p] = Tail(@)], c, Other(p), Ack)
      BY ONLY DirectInv, <1>1, <3>3, <3>4, <3>5, <3>7, HelloMoves, Zenon
    <3> QED BY <3>5, <3>6, <3>7
  <2>6. CASE GiveUp(p)
    <3>0. act[p] \in {"response", "ack"}
      BY <2>6 DEF GiveUp
    <3>1. hand[p] \in Conns /\ phase[p] # 4
      <4>1. hand[p] \in 1..made /\ hand[p] \in Conns \cup {NoConn}
        BY <2>1, <2>2, <3>0 DEF Using
      <4>2. hand[p] \in Conns
        BY ONLY <4>1 DEF NoConn
      <4> QED BY <2>1, <3>0, <4>2 DEF Using
    <3>2. /\ act'[p] = "free" /\ hand'[p] = NoConn /\ p \in closed'[hand[p]]
          /\ act'[o] = act[o] /\ hand'[o] = hand[o] /\ \A c \in Conns : closed[c] \subseteq closed'[c]
      BY <2>0, <2>2, <2>6, <3>1 DEF GiveUp
    <3>3. UNCHANGED <<public, phase, made, dialer, backlog, inbox>>
      BY <2>6 DEF GiveUp
    <3>4. (act'[p] = "down" <=> phase'[p] = 4) /\ phase'[p] >= phase[p] /\ phase'[o] = phase[o]
          /\ backlog'[p] = backlog[p] /\ backlog'[o] = backlog[o]
      <4>1. phase[p] \in 1..4
        BY <2>2
      <4> QED BY ONLY <3>1, <3>2, <3>3, <4>1
    <3>5. act[p] \in {"free", "response", "ack"} /\ act'[p] \in {"free", "down"} /\ o = Other(p)
      BY <2>0, <3>0, <3>2
    <3> QED BY ONLY DirectInv, p \in Peers, <1>1, <3>2, <3>3, <3>4, <3>5, EndMoves
  <2>7. CASE Accept(p)
    <3>1. act[p] = "free" /\ phase[p] \in 1..3 /\ backlog[p] # << >> /\ (phase[p] = 1 => public)
      <4>1. Free(p) /\ backlog[p] # << >> /\ (PhaseOf(p) = "sync" => public)
        BY <2>7 DEF Accept
      <4> QED BY <2>2, <2>3, <4>1, PhaseNames
    <3>2. PICK c \in Conns : c = Head(backlog[p])
      BY <2>2, <3>1, FromFront
    <3>3. backlog' = [backlog EXCEPT ![p] = Tail(@)] /\ UNCHANGED <<public, made, dialer, paired>>
      BY <2>7 DEF Accept
    <3>4. CASE Head(inbox[c][p]) = Hello(Expected(p)) /\ AcceptGood(p, c)
      <4>1. phase[p] # 4 /\ act[p] = "free" /\ (phase[p] = 1 => public) /\ backlog[p] # << >> /\ o = Other(p)
        BY <2>0, <3>1
      <4> QED BY ONLY DirectInv, p \in Peers, <1>1, <3>2, <3>3, <3>4, <4>1, AcceptMoves
    <3>5. CASE AcceptBad(p, c)
      <4>1. /\ \A d \in Conns : closed[d] \subseteq closed'[d]
            /\ UNCHANGED <<act, hand, phase, inbox>> /\ hand[p] = NoConn
        BY <2>1, <2>2, <3>1, <3>2, <3>5 DEF AcceptBad, Using
      <4>2. backlog'[p] = Tail(backlog[p]) /\ backlog'[o] = backlog[o]
        BY <2>0, <2>2, <3>3
      <4>3. act'[p] = "free" /\ act[p] = "free" /\ phase[p] # 4 /\ backlog[p] # << >>
        BY <3>1, <4>1
      <4>4. (act'[p] = "down" <=> phase'[p] = 4) /\ phase'[p] >= phase[p] /\ phase'[o] = phase[o]
            /\ act'[o] = act[o] /\ hand'[o] = hand[o] /\ hand'[p] = NoConn
        BY <2>2, <4>1, <4>3
      <4>5. act[p] \in {"free", "response", "ack"} /\ act'[p] \in {"free", "down"} /\ o = Other(p)
        BY <2>0, <4>3
      <4> QED BY ONLY DirectInv, p \in Peers, <1>1, <3>3, <4>1, <4>2, <4>3, <4>4, <4>5, EndMoves
    <3> QED BY <2>7, <3>2, <3>4, <3>5 DEF Accept
  <2>8. CASE NextPhase(p)
    <3>1. act[p] = "free" /\ phase[p] \in 1..3 /\ hand[p] = NoConn
      BY <2>1, <2>3, <2>8 DEF NextPhase, Using
    <3>2. /\ phase'[p] = phase[p] + 1 /\ phase'[o] = phase[o]
          /\ act'[p] = IF phase[p] = 3 THEN "down" ELSE "free"
          /\ act'[o] = act[o] /\ UNCHANGED <<public, hand, connVars>>
      BY <2>0, <2>2, <2>8, <3>1 DEF NextPhase
    <3>3. act'[p] \in {"free", "down"} /\ (act'[p] = "down" <=> phase'[p] = 4) /\ phase'[p] >= phase[p]
      BY <3>1, <3>2
    <3> QED BY <1>1, <2>0, <3>1, <3>2, <3>3, EndMoves DEF connVars
  <2>9. CASE Cancel(p)
    <3>1. /\ act'[p] = "down" /\ hand'[p] = NoConn /\ phase'[p] = 4 /\ act[p] \in {"free", "response", "ack"}
          /\ act'[o] = act[o] /\ hand'[o] = hand[o] /\ phase'[o] = phase[o]
          /\ UNCHANGED <<public, made, dialer, paired, backlog, inbox>>
      BY <2>0, <2>2, <2>9 DEF Cancel
    <3>2. /\ \A c \in Conns : closed[c] \subseteq closed'[c]
          /\ hand[p] # NoConn => p \in closed'[hand[p]]
      BY <2>2, <2>9 DEF Cancel
    <3>3. phase'[p] >= phase[p]
      <4>1. phase[p] \in 1..4
        BY <2>2
      <4>2. phase'[p] = 4
        BY <3>1
      <4> QED BY ONLY <4>1, <4>2
    <3> QED BY <1>1, <2>0, <3>1, <3>2, <3>3, EndMoves
  <2> QED BY <1>4, <2>4, <2>5, <2>6, <2>7, <2>8, <2>9 DEF Peer
<1> QED BY <1>2, <1>3, <1>4 DEF Next

-----------------------------------------------------------------------------
(* The theorems.                                                           *)

\* No connection is made at the start.
LEMMA InitInv == Init => DirectInv
<1> SUFFICES ASSUME Init PROVE DirectInv
  OBVIOUS
<1>1. MaxConns \in Nat
  BY DirectAssumption
<1>2. Types
  <2>1. << >> \in Seq(Conns) /\ << >> \in Seq(Frames)
    OBVIOUS
  <2>2. TypeOK
    BY <1>1, <2>1 DEF Init, TypeOK
  <2>3. inbox \in [Conns -> [Peers -> Seq(Frames)]]
    BY <2>1 DEF Init
  <2> QED BY <1>1, <2>2, <2>3 DEF Init, Types
<1>3. \A p \in Peers : act[p] = "free" /\ phase[p] = 1 /\ hand[p] = NoConn /\ backlog[p] = << >>
  BY DEF Init
<1>4. \A c \in Conns, p \in Peers : dialer[c] = "nobody" /\ inbox[c][p] = << >> /\ p # "nobody"
  BY DEF Init, Peers
<1>5. \A p \in Peers : Using(p) /\ Listening(p) /\ Kept(p)
  BY <1>3 DEF Using, Listening, InOrder, Kept
<1>6. SenderIsLast
  BY <1>4 DEF SenderIsLast, Init
<1>7. \A c \in Conns, p \in Peers : On(c, p)
  BY <1>4 DEF On
<1> QED BY <1>2, <1>5, <1>6, <1>7 DEF DirectInv

\* The invariant holds in every state.
LEMMA Always == Spec => []DirectInv
<1>1. DirectInv /\ [Next]_vars => DirectInv'
  BY NextInv
<1> QED BY InitInv, <1>1, PTL DEF Spec

\* Every variable of the direct attempt keeps its type: for the code, a peer waits
\* for an answer only on a connection that it has.
THEOREM TypeCorrect == Spec => []TypeOK
<1>1. DirectInv => TypeOK
  BY DEF DirectInv, Types
<1> QED BY Always, <1>1, PTL

\* complete_direct_dial_preflight: the answer to a dial is final.  A peer keeps a
\* connection that it dialled only if the other has accepted it and keeps it too;
\* of one that both dialled, the frame that the other waits for was sent.
THEOREM DialIsMutual == Spec => []DialedIsMutual
<1>1. ASSUME DirectInv PROVE DialedIsMutual
  <2> SUFFICES ASSUME NEW p \in Peers, act[p] = "up", NEW q, q = Other(p), NEW c, c = hand[p]
               PROVE  /\ dialer[c] = p => act[q] = "up" /\ hand[q] = c
                      /\ dialer[c] = "both" =>
                            \/ hand[q] = c /\ (act[q] = "up" \/ \E i \in DOMAIN inbox[c][q] : inbox[c][q][i] = Ack)
                            \/ q \in closed[c]
    BY DEF DialedIsMutual
  <2>1. Kept(p) /\ c \in Conns
    <3>1. hand[p] \in Conns \cup {NoConn} /\ hand[p] # NoConn
      BY <1>1, PeerFacts DEF DirectInv, Using, NoConn
    <3> QED BY <1>1, <3>1 DEF DirectInv
  <2>2. On(c, p)
    BY <1>1, <2>1 DEF DirectInv
  <2> QED BY <2>1, <2>2 DEF Kept, On, Both, HasAck
<1>2. DirectInv => DialedIsMutual
  BY <1>1
<1> QED BY Always, <1>2, PTL

\* accept_direct_candidate expects the active role: without same-port dials the two
\* peers keep the same connection, in whatever phases they met.
THEOREM OneConnection == Spec => []RolesKeepItOne
<1>1. ASSUME DirectInv PROVE RolesKeepItOne
  <2> SUFFICES ASSUME ~public, \A p \in Peers : act[p] = "up"
               PROVE  hand["sender"] = hand["receiver"]
    BY DEF RolesKeepItOne, SameConnection
  <2>1. /\ "sender" \in Peers /\ "receiver" \in Peers
        /\ Other("sender") = "receiver" /\ Other("receiver") = "sender"
    BY DEF Peers, Other
  <2>2. \A p \in Peers : hand[p] \in Conns /\ Kept(p) /\ dialer[hand[p]] \in Peers
    <3> TAKE p \in Peers
    <3>1. hand[p] \in Conns \cup {NoConn} /\ hand[p] # NoConn
      BY <1>1, PeerFacts DEF DirectInv, Using, NoConn
    <3>2. dialer[hand[p]] \in Peers \cup {"nobody", "both"}
      BY <1>1, <3>1, PeerFacts
    <3>3. dialer[hand[p]] # "both" /\ dialer[hand[p]] # "nobody"
      BY <1>1, <3>1 DEF DirectInv, SenderIsLast, Using
    <3> QED BY <1>1, <3>1, <3>2, <3>3 DEF DirectInv
  <2>3. CASE dialer[hand["sender"]] = "sender"
    BY <2>1, <2>2, <2>3 DEF Kept
  <2>4. CASE dialer[hand["sender"]] = "receiver"
    <3>1. dialer[hand["receiver"]] # "sender"
      BY <1>1, <2>1, <2>2, <2>4 DEF DirectInv, SenderIsLast
    <3>2. dialer[hand["receiver"]] = "receiver"
      BY <2>1, <2>2, <3>1 DEF Peers
    <3> QED BY <2>1, <2>2, <3>2 DEF Kept
  <2> QED BY <2>1, <2>2, <2>3, <2>4 DEF Peers
<1>2. DirectInv => RolesKeepItOne
  BY <1>1
<1> QED BY Always, <1>2, PTL
=============================================================================
