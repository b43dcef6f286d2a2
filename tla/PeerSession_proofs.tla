------------------------- MODULE PeerSession_proofs -------------------------
(***************************************************************************)
(* Proofs about the route negotiation, alone and inside the session of two *)
(* peers, for any numbers of connections: it implements RouteCommit, both  *)
(* peers end with the two ends of one channel, and with the same parallel  *)
(* connections.                                                            *)
(***************************************************************************)
EXTENDS PeerSession, TLAPS

-----------------------------------------------------------------------------
(* The route negotiation, of the instance that Route is.                   *)

\* What is said on a stream, whatever the order.
Said(p) == Range(up[p])
RouteTold(p) == Range(down[p])

\* The relay leaves its poll with a verdict and only then.
Undecided == relay = "polling" <=> verdict = Route!NoVerdict

\* A direct_ok on its way, or read by the relay, is that of a peer that has a
\* direct connection.
OffersKnown == \A p \in Route!Peers : Route!DirectOk \in Said(p) \/ choice[p] = "DirectOk" => p \in offered

\* Every verdict on its way is the one the relay took, so a peer cannot read two.
OneVerdict == \A p \in Route!Peers : RouteTold(p) \cap Route!Verdicts \subseteq {verdict}

\* What the commitment rests on.
CommitInv == Route!TypeOK /\ Undecided /\ OffersKnown /\ OneVerdict

-----------------------------------------------------------------------------
\* A direct route was started for two peers that had both offered one, and a relay
\* route for a relay_start.
RouteTaken == \A p \in Route!Peers : /\ rpc[p] = "direct" => verdict = Route!DirectStart
                                     /\ rpc[p] = "relay"  => verdict.type = "relay_start"

\* A peer speaks of a direct connection when it has chosen, not before.
OffersChosen == \A p \in offered : rpc[p] \in {"direct_ok", "direct", "relay", "failed"}

\* The relay starts a direct route when it has read two direct_ok.
DirectChosen == verdict = Route!DirectStart => \A p \in Route!Peers : choice[p] = "DirectOk"

\* The relay has answered p.
RouteAnswered(p) == relay \in {"piping", "closed"} \/ (p = "other" /\ relay = "telling_self")

\* As long as nobody is cancelled: the relay never reads the end of a stream before
\* its verdict, the first frame a peer reads is the verdict, and "done" is the
\* answer to a peer that was alone.
Untroubled ==
    /\ \A p \in Route!Peers : choice[p] # "Invalid" /\ (Route!Eof \in Said(p) => rpc[p] = "failed")
    /\ \A p \in Route!Peers : ~Route!Final(p) =>
          IF RouteAnswered(p) THEN down[p] # << >> /\ Head(down[p]) = verdict ELSE down[p] = << >>
    /\ verdict = Route!Done => \E q \in Route!Peers : choice[q] = "Waiting"

FailInv ==
    /\ RouteTaken /\ OffersChosen /\ DirectChosen
    /\ broken = {} => Untroubled
    /\ Route!FailsOnlyUnpaired

RouteInv == CommitInv /\ FailInv

-----------------------------------------------------------------------------
(* Frames and streams.                                                     *)

\* The frames are told apart by their type, but for the reason of a relay_start.
LEMMA RouteFrameKinds ==
    /\ Route!Standby \notin Route!Verdicts /\ Route!DirectOk \notin Route!Verdicts /\ Route!RelayReady \notin Route!Verdicts
    /\ Route!Eof \notin Route!Verdicts /\ Route!NoVerdict \notin Route!Verdicts
    /\ Route!Standby # Route!DirectOk /\ Route!Standby # Route!RelayReady /\ Route!DirectOk # Route!RelayReady
    /\ Route!Eof \notin Route!RouteFrames
    /\ Route!DirectStart # Route!Done
    /\ \A v \in Route!Verdicts \cup Route!RouteFrames \cup {Route!Eof, Route!NoVerdict} :
          v.type = "relay_start" <=> v \in Route!Verdicts /\ v # Route!DirectStart /\ v # Route!Done
  BY DEF Route!Standby, Route!DirectOk, Route!RelayReady, Route!Eof, Route!DirectStart,
         Route!Done, Route!NoVerdict, Route!RelayStart,
         Route!Verdicts, Route!Reasons, Route!RouteFrames

\* What a stream says after a frame was put on it or taken from it.
LEMMA StreamSteps ==
    ASSUME NEW S, NEW s \in Seq(S)
    PROVE  /\ Range(s) \subseteq S
           /\ \A f : /\ Range(Append(s, f)) = Range(s) \cup {f}
                     /\ Append(s, f) # << >>
                     /\ Head(Append(s, f)) = IF s = << >> THEN f ELSE Head(s)
                     /\ f \in S => Append(s, f) \in Seq(S)
           /\ s # << >> => /\ Head(s) \in Range(s)
                          /\ Range(Tail(s)) \subseteq Range(s)
                          /\ Tail(s) \in Seq(S)
  <1>1. Range(s) \subseteq S
    BY DEF Range
  <1>2. ASSUME NEW f PROVE Range(Append(s, f)) = Range(s) \cup {f}
    <2>1. s \in Seq(S \cup {f}) /\ f \in S \cup {f}
      OBVIOUS
    <2>2. /\ DOMAIN Append(s, f) = 1..(Len(s) + 1) /\ DOMAIN s = 1..Len(s) /\ Len(s) \in Nat
          /\ \A i \in 1..Len(s) : Append(s, f)[i] = s[i]
          /\ Append(s, f)[Len(s) + 1] = f
      BY <2>1
    <2> QED BY <2>2 DEF Range
  <1>3. ASSUME NEW f PROVE /\ Append(s, f) # << >>
                           /\ Head(Append(s, f)) = IF s = << >> THEN f ELSE Head(s)
    <2>1. s \in Seq(S \cup {f}) /\ f \in S \cup {f}
      OBVIOUS
    <2>2. CASE s = << >>
      BY <2>2
    <2>3. CASE s # << >>
      <3>1. Len(s) \in Nat /\ Len(s) # 0 /\ Append(s, f)[1] = s[1]
        BY <2>1, <2>3
      <3>2. Append(s, f) \in Seq(S \cup {f}) /\ Len(Append(s, f)) = Len(s) + 1
        BY <2>1
      <3> QED BY <2>3, <3>1, <3>2
    <2> QED BY <2>2, <2>3
  <1>4. ASSUME s # << >>
        PROVE  Head(s) \in Range(s) /\ Range(Tail(s)) \subseteq Range(s) /\ Tail(s) \in Seq(S)
    BY <1>4 DEF Range
  <1> QED BY <1>1, <1>2, <1>3, <1>4

-----------------------------------------------------------------------------
(* The relay's reading of the frames.                                      *)

\* Each frame is read as the choice it was sent for, and only the end of the stream is invalid.
LEMMA ChoiceRead ==
    ASSUME NEW m \in Route!RouteFrames \cup {Route!Eof}
    PROVE  /\ Route!relay_route_choice_from(m) \in {"Standby", "DirectOk", "RelayReady", "Invalid"}
           /\ Route!relay_route_choice_from(m) = "DirectOk" <=> m = Route!DirectOk
           /\ Route!relay_route_choice_from(m) = "Invalid"  <=> m = Route!Eof
  <1>1. CASE m = Route!Standby
    BY <1>1, RouteFrameKinds, Zenon DEF Route!relay_route_choice_from, Route!RouteFrames
  <1>2. CASE m = Route!DirectOk
    BY <1>2, RouteFrameKinds, Zenon DEF Route!relay_route_choice_from, Route!RouteFrames
  <1>3. CASE m = Route!RelayReady
    BY <1>3, RouteFrameKinds, Zenon DEF Route!relay_route_choice_from, Route!RouteFrames
  <1>4. CASE m = Route!Eof
    BY <1>4, RouteFrameKinds, Zenon DEF Route!relay_route_choice_from, Route!RouteFrames
  <1> QED BY <1>1, <1>2, <1>3, <1>4 DEF Route!RouteFrames

RouteChoices == {"Waiting", "Standby", "DirectOk", "RelayReady", "Invalid"}

\* A choice that is final stays, and nothing takes a peer back to Waiting.
LEMMA ChoiceMerged ==
    ASSUME NEW c \in RouteChoices, NEW m \in Route!RouteFrames \cup {Route!Eof}
    PROVE  LET d == Route!merge_relay_route_choice(c, Route!relay_route_choice_from(m))
           IN  /\ d \in RouteChoices
               /\ d = "DirectOk" => c = "DirectOk" \/ m = Route!DirectOk
               /\ d = "Invalid"  => c = "Invalid" \/ m = Route!Eof
  BY ChoiceRead DEF Route!merge_relay_route_choice, Route!is_final, RouteChoices

\* A direct route is started for two direct_ok; "done" answers an invalid choice or a
\* silent peer; when the time is up there is a decision.
LEMMA DecisionFor ==
    ASSUME NEW a \in RouteChoices, NEW b \in RouteChoices, NEW expired \in BOOLEAN
    PROVE  LET v == Route!relay_route_decision_for(a, b, expired)
           IN  /\ v \in Route!Verdicts \cup {Route!NoVerdict}
               /\ v = Route!DirectStart => a = "DirectOk" /\ b = "DirectOk"
               /\ v = Route!Done => {"Invalid", "Waiting"} \cap {a, b} # {}
  <1> DEFINE v == Route!relay_route_decision_for(a, b, expired)
  <1>1. \/ "Invalid" \in {a, b} /\ v = Route!Done
        \/ {a, b} = {"DirectOk"} /\ v = Route!DirectStart
        \/ v = Route!RelayStart("relay") \/ v = Route!RelayStart("mismatch") \/ v = Route!RelayStart("standby")
        \/ "Invalid" \notin {a, b} /\ v = Route!NoVerdict
        \/ "Invalid" \notin {a, b} /\ Route!has_presence(a) /\ Route!has_presence(b) /\ v = Route!RelayStart("timeout")
        \/ "Invalid" \notin {a, b} /\ ~(Route!has_presence(a) /\ Route!has_presence(b)) /\ v = Route!Done
    <2> DEFINE Sets == {{"DirectOk"}, {"RelayReady"}, {"RelayReady", "DirectOk"}, {"RelayReady", "Standby"}}
    <2>1. /\ {"DirectOk"} # {"RelayReady"} /\ {"DirectOk"} # {"RelayReady", "DirectOk"}
          /\ {"DirectOk"} # {"RelayReady", "Standby"} /\ {"RelayReady"} # {"RelayReady", "DirectOk"}
          /\ {"RelayReady"} # {"RelayReady", "Standby"}
          /\ {"RelayReady", "DirectOk"} # {"RelayReady", "Standby"}
          /\ \A set \in Sets : "Invalid" \notin set
      OBVIOUS
    <2>2. CASE "Invalid" \in {a, b}
      BY <2>1, <2>2, Zenon DEF Route!relay_route_decision_for
    <2>3. CASE {a, b} = {"DirectOk"}
      BY <2>1, <2>3, Zenon DEF Route!relay_route_decision_for
    <2>4. CASE {a, b} = {"RelayReady"}
      BY <2>1, <2>4, Zenon DEF Route!relay_route_decision_for
    <2>5. CASE {a, b} = {"RelayReady", "DirectOk"}
      BY <2>1, <2>5, Zenon DEF Route!relay_route_decision_for
    <2>6. CASE {a, b} = {"RelayReady", "Standby"}
      BY <2>1, <2>6, Zenon DEF Route!relay_route_decision_for
    <2>7. CASE "Invalid" \notin {a, b} /\ {a, b} \notin Sets
      <3>1. v = IF ~expired THEN Route!NoVerdict
                ELSE IF Route!has_presence(a) /\ Route!has_presence(b) THEN Route!RelayStart("timeout") ELSE Route!Done
        BY <2>7, Zenon DEF Route!relay_route_decision_for
      <3> QED BY <2>7, <3>1, Zenon
    <2> QED BY <2>2, <2>3, <2>4, <2>5, <2>6, <2>7, Zenon
  <1>2. /\ Route!DirectStart \in Route!Verdicts /\ Route!Done \in Route!Verdicts
        /\ \A r \in Route!Reasons : Route!RelayStart(r) \in Route!Verdicts /\ Route!RelayStart(r) # Route!DirectStart
                                                                  /\ Route!RelayStart(r) # Route!Done
    BY DEF Route!Verdicts, Route!DirectStart, Route!Done, Route!RelayStart
  <1>3. {"relay", "mismatch", "standby", "timeout"} \subseteq Route!Reasons
    BY DEF Route!Reasons
  <1> HIDE DEF v
  <1>4. ("Invalid" \notin {a, b} /\ ~(Route!has_presence(a) /\ Route!has_presence(b))) => "Waiting" \in {a, b}
    BY DEF Route!has_presence
  <1>5. /\ v \in Route!Verdicts \cup {Route!NoVerdict}
        /\ v = Route!DirectStart => a = "DirectOk" /\ b = "DirectOk"
        /\ v = Route!Done => {"Invalid", "Waiting"} \cap {a, b} # {}
    BY <1>1, <1>2, <1>3, <1>4, RouteFrameKinds
  <1> QED BY <1>5 DEF v

\* The abstract decision.
LEMMA BarMeans ==
    ASSUME verdict \in Route!Verdicts \cup {Route!NoVerdict}
    PROVE  /\ verdict = Route!NoVerdict   => Route!verdictBar = "open"
           /\ verdict = Route!DirectStart => Route!verdictBar = "direct"
           /\ verdict = Route!Done        => Route!verdictBar = "nothing"
           /\ verdict.type = "relay_start" => Route!verdictBar = "relay"
  <1>1. CASE verdict = Route!NoVerdict
    BY <1>1, RouteFrameKinds, Zenon DEF Route!verdictBar, Route!Verdicts
  <1>2. CASE verdict = Route!DirectStart
    BY <1>2, RouteFrameKinds, Zenon DEF Route!verdictBar, Route!Verdicts
  <1>3. CASE verdict = Route!Done
    BY <1>3, RouteFrameKinds, Zenon DEF Route!verdictBar, Route!Verdicts
  <1>4. CASE verdict \in Route!Verdicts /\ verdict # Route!DirectStart /\ verdict # Route!Done
    BY <1>4, RouteFrameKinds, Zenon DEF Route!verdictBar
  <1> QED BY <1>1, <1>2, <1>3, <1>4, RouteFrameKinds

\* ... and the next one, in the primed state.
LEMMA BarMeansNext ==
    ASSUME verdict' \in Route!Verdicts
    PROVE  /\ Route!verdictBar' \in {"direct", "relay", "nothing"}
           /\ Route!verdictBar' = "direct" => verdict' = Route!DirectStart
  <1>1. CASE verdict' = Route!DirectStart
    BY <1>1, RouteFrameKinds, Zenon DEF Route!verdictBar
  <1>2. CASE verdict' = Route!Done
    BY <1>2, RouteFrameKinds, Zenon DEF Route!verdictBar
  <1>3. CASE verdict' # Route!DirectStart /\ verdict' # Route!Done
    BY <1>3, RouteFrameKinds, Zenon DEF Route!verdictBar
  <1> QED BY <1>1, <1>2, <1>3

-----------------------------------------------------------------------------
(* The commitment's invariant.                                             *)

UpFrames   == Route!RouteFrames \cup {Route!Eof}
DownFrames == Route!RouteFrames \cup Route!Verdicts \cup {Route!Eof}

\* What a step of a peer does to the two streams and to its offer: it puts at most
\* one frame on its stream and takes at most one from the other.
PeerMoves(p) ==
    /\ UNCHANGED <<choice, relay, verdict>>
    /\ \/ up' = up
       \/ up' = [up EXCEPT ![p] = Append(up[p], Route!Standby)]
       \/ up' = [up EXCEPT ![p] = Append(up[p], Route!RelayReady)]
       \/ up' = [up EXCEPT ![p] = Append(up[p], Route!Eof)] /\ rpc'[p] = "failed"
       \/ up' = [up EXCEPT ![p] = Append(up[p], Route!DirectOk)] /\ p \in offered'
    /\ \/ down' = down
       \/ down[p] # << >> /\ down' = [down EXCEPT ![p] = Tail(down[p])]
    /\ \/ offered' = offered
       \/ offered' = offered \cup {p} /\ rpc[p] = "probed" /\ rpc'[p] = "direct_ok"
    /\ \E s : rpc' = [rpc EXCEPT ![p] = s]

\* Every step of a peer is one of the moves above.
LEMMA PeerMovesSo ==
    ASSUME Route!TypeOK, NEW p \in Route!Peers, Route!Peer(p)
    PROVE  PeerMoves(p)
  <1>0. rpc \in [Route!Peers -> {"planned", "probing", "probed", "direct_ok", "relay_ready",
                                  "direct", "relay", "failed"}]
    BY DEF Route!TypeOK
  <1> USE DEF PeerMoves, Route!Send, Route!Goto, Route!relayVars
  <1>1. CASE Route!Begin(p)
    BY <1>0, <1>1 DEF Route!Begin
  <1>2. CASE Route!DirectReady(p)
    BY <1>0, <1>2 DEF Route!DirectReady
  <1>3. CASE Route!EarlyVerdict(p)
    BY <1>0, <1>3 DEF Route!EarlyVerdict, Route!TakeRelay, Route!Fail
  <1>4. CASE Route!Choose(p)
    BY <1>0, <1>4 DEF Route!Choose
  <1>5. CASE Route!Confirm(p)
    BY <1>0, <1>5 DEF Route!Confirm, Route!TakeRelay, Route!Fail
  <1>6. CASE Route!Break(p)
    BY <1>0, <1>6 DEF Route!Break, Route!Fail
  <1> QED BY <1>1, <1>2, <1>3, <1>4, <1>5, <1>6 DEF Route!Peer

\* The streams keep their types under the moves of a peer.
LEMMA PeerStreams ==
    ASSUME Route!TypeOK, NEW p \in Route!Peers, PeerMoves(p)
    PROVE  up' \in [Route!Peers -> Seq(UpFrames)] /\ down' \in [Route!Peers -> Seq(DownFrames)]
  <1>1. /\ {Route!Standby, Route!DirectOk, Route!RelayReady, Route!Eof} \subseteq UpFrames
        /\ up \in [Route!Peers -> Seq(UpFrames)] /\ down \in [Route!Peers -> Seq(DownFrames)]
    BY DEF Route!TypeOK, UpFrames, DownFrames, Route!RouteFrames
  <1>2. /\ \A f \in UpFrames : Append(up[p], f) \in Seq(UpFrames)
        /\ down[p] # << >> => Tail(down[p]) \in Seq(DownFrames)
    BY <1>1, StreamSteps
  <1> QED BY <1>1, <1>2 DEF PeerMoves

\* A step of a peer keeps the types.
LEMMA PeerTypes ==
    ASSUME Route!TypeOK, NEW p \in Route!Peers, Route!Peer(p)
    PROVE  Route!TypeOK'
  <1>1. up' \in [Route!Peers -> Seq(UpFrames)] /\ down' \in [Route!Peers -> Seq(DownFrames)]
    BY PeerMovesSo, PeerStreams
  <1>2. choice' = choice /\ relay' = relay /\ verdict' = verdict
    BY PeerMovesSo DEF PeerMoves
  <1>3. /\ rpc' \in [Route!Peers -> {"planned", "probing", "probed", "direct_ok", "relay_ready",
                                     "direct", "relay", "failed"}]
        /\ skip' \in [Route!Peers -> BOOLEAN] /\ offered' \subseteq Route!Peers
        /\ direct' \in [Route!Peers -> {"none", "trying", "up", "down", "closed"}]
        /\ broken' \subseteq Route!Peers
    <2> USE DEF Route!TypeOK, Route!Goto
    <2>1. CASE Route!Begin(p)
      BY <2>1 DEF Route!Begin
    <2>2. CASE Route!DirectReady(p)
      BY <2>2 DEF Route!DirectReady
    <2>3. CASE Route!EarlyVerdict(p)
      BY <2>3 DEF Route!EarlyVerdict, Route!TakeRelay, Route!Fail
    <2>4. CASE Route!Choose(p)
      BY <2>4 DEF Route!Choose
    <2>5. CASE Route!Confirm(p)
      BY <2>5 DEF Route!Confirm, Route!TakeRelay, Route!Fail
    <2>6. CASE Route!Break(p)
      BY <2>6 DEF Route!Break, Route!Fail
    <2> QED BY <2>1, <2>2, <2>3, <2>4, <2>5, <2>6 DEF Route!Peer
  <1>4. allow' = allow \/ \E lan \in BOOLEAN : allow' = [allow EXCEPT ![p] = lan]
    BY Zenon DEF Route!Peer, Route!Begin, Route!DirectReady, Route!EarlyVerdict, Route!Choose,
                 Route!Confirm, Route!Break, Route!TakeRelay,
                 Route!LanAllowed, Route!Fail
  <1>5. allow' \in [Route!Peers -> BOOLEAN]
    BY <1>4 DEF Route!TypeOK
  <1> QED BY <1>1, <1>2, <1>3, <1>5 DEF Route!TypeOK, UpFrames, DownFrames

\* A peer's step adds a direct_ok to its stream only with its offer, and no verdict.
LEMMA PeerCommit ==
    ASSUME CommitInv, NEW p \in Route!Peers, Route!Peer(p)
    PROVE  CommitInv'
  <1>1. Route!TypeOK' /\ PeerMoves(p)
    BY PeerTypes, PeerMovesSo DEF CommitInv
  <1>2. Undecided'
    BY <1>1 DEF CommitInv, Undecided, PeerMoves
  <1>3. /\ up \in [Route!Peers -> Seq(UpFrames)] /\ down \in [Route!Peers -> Seq(DownFrames)]
        /\ offered \subseteq offered'
    BY <1>1 DEF CommitInv, Route!TypeOK, UpFrames, DownFrames, PeerMoves
  <1>4. /\ \A f : Range(Append(up[p], f)) = Range(up[p]) \cup {f}
        /\ down[p] # << >> => Range(Tail(down[p])) \subseteq Range(down[p])
    BY <1>3, StreamSteps
  <1>5. OffersKnown'
    <2>1. \A q \in Route!Peers : Route!DirectOk \in Range(up'[q]) =>
             Route!DirectOk \in Range(up[q]) \/ (q = p /\ p \in offered')
      <3>1. Route!DirectOk # Route!Standby /\ Route!DirectOk # Route!RelayReady /\ Route!DirectOk # Route!Eof
        BY RouteFrameKinds DEF Route!RouteFrames
      <3>2. ASSUME NEW f, up' = [up EXCEPT ![p] = Append(up[p], f)], NEW q \in Route!Peers
            PROVE  Range(up'[q]) \subseteq Range(up[q]) \cup IF q = p THEN {f} ELSE {}
        BY <1>3, <1>4, <3>2
      <3> QED BY <1>1, <3>1, <3>2 DEF PeerMoves
    <2> QED BY <1>1, <1>3, <2>1 DEF CommitInv, OffersKnown, Said, PeerMoves
  <1>6. OneVerdict'
    <2>1. \A q \in Route!Peers : Range(down'[q]) \subseteq Range(down[q])
      BY <1>1, <1>3, <1>4 DEF PeerMoves
    <2> QED BY <1>1, <2>1 DEF CommitInv, OneVerdict, RouteTold, PeerMoves
  <1> QED BY <1>1, <1>2, <1>5, <1>6 DEF CommitInv

-----------------------------------------------------------------------------
(* The steps of the relay.                                                 *)

\* The relay decides with a verdict, or goes on polling.
LEMMA RouteDecides ==
    ASSUME NEW a \in RouteChoices, NEW b \in RouteChoices, NEW expired \in BOOLEAN,
           Route!Decide(Route!relay_route_decision_for(a, b, expired))
    PROVE  /\ verdict' \in Route!Verdicts \cup {Route!NoVerdict}
           /\ relay' \in {"polling", "telling_other"}
           /\ relay' = "polling" <=> verdict' = Route!NoVerdict
           /\ verdict' = Route!DirectStart => a = "DirectOk" /\ b = "DirectOk"
           /\ verdict' = Route!Done => {"Invalid", "Waiting"} \cap {a, b} # {}
  BY DecisionFor DEF Route!Decide

\* A poll takes at most the head of each stream, and a choice changes only by it.
LEMMA PollReads ==
    ASSUME Route!TypeOK, NEW got \in SUBSET Route!Peers, Route!Poll(got)
    PROVE  /\ choice' \in [Route!Peers -> RouteChoices] /\ up' \in [Route!Peers -> Seq(UpFrames)]
           /\ \A p \in Route!Peers :
                 /\ Range(up'[p]) \subseteq Range(up[p])
                 /\ choice'[p] = "DirectOk" => choice[p] = "DirectOk" \/ Route!DirectOk \in Range(up[p])
                 /\ choice'[p] = "Invalid"  => choice[p] = "Invalid" \/ Route!Eof \in Range(up[p])
  <1>1. choice \in [Route!Peers -> RouteChoices] /\ up \in [Route!Peers -> Seq(UpFrames)]
    BY DEF Route!TypeOK, RouteChoices, UpFrames
  <1>2. /\ \A p \in got : up[p] # << >>
        /\ choice' = [p \in Route!Peers |->
              IF p \in got THEN Route!merge_relay_route_choice(choice[p], Route!relay_route_choice_from(Head(up[p])))
                           ELSE choice[p]]
        /\ up' = [p \in Route!Peers |-> IF p \in got /\ Head(up[p]) # Route!Eof THEN Tail(up[p]) ELSE up[p]]
    BY DEF Route!Poll
  <1>3. ASSUME NEW p \in got
        PROVE  /\ Head(up[p]) \in Range(up[p]) /\ Range(up[p]) \subseteq UpFrames
               /\ Range(Tail(up[p])) \subseteq Range(up[p]) /\ Tail(up[p]) \in Seq(UpFrames)
    BY <1>1, <1>2, StreamSteps
  <1>4. up' \in [Route!Peers -> Seq(UpFrames)] /\ \A p \in Route!Peers : Range(up'[p]) \subseteq Range(up[p])
    BY <1>1, <1>2, <1>3
  <1>5. ASSUME NEW p \in Route!Peers
        PROVE  /\ choice'[p] \in RouteChoices
               /\ choice'[p] = "DirectOk" => choice[p] = "DirectOk" \/ Route!DirectOk \in Range(up[p])
               /\ choice'[p] = "Invalid"  => choice[p] = "Invalid" \/ Route!Eof \in Range(up[p])
    <2>1. CASE p \in got
      <3>1. Head(up[p]) \in Route!RouteFrames \cup {Route!Eof} /\ Head(up[p]) \in Range(up[p])
        BY <1>3, <2>1 DEF UpFrames
      <3> QED BY <1>1, <1>2, <2>1, <3>1, ChoiceMerged
    <2>2. CASE p \notin got
      BY <1>1, <1>2, <2>2
    <2> QED BY <2>1, <2>2
  <1>6. choice' \in [Route!Peers -> RouteChoices]
    BY <1>2, <1>5
  <1> QED BY <1>4, <1>5, <1>6

\* Both streams keep their types, a direct_ok is read only from its stream, and a
\* verdict is put on one only by Tell.
LEMMA RelayCommit ==
    ASSUME CommitInv, Route!Relay
    PROVE  CommitInv'
  <1>1. /\ up \in [Route!Peers -> Seq(UpFrames)] /\ down \in [Route!Peers -> Seq(DownFrames)]
        /\ choice \in [Route!Peers -> RouteChoices]
        /\ verdict \in Route!Verdicts \cup {Route!NoVerdict}
    BY DEF CommitInv, Route!TypeOK, UpFrames, DownFrames, RouteChoices
  <1>2. ASSUME up' \in [Route!Peers -> Seq(UpFrames)], down' \in [Route!Peers -> Seq(DownFrames)],
               choice' \in [Route!Peers -> RouteChoices], verdict' \in Route!Verdicts \cup {Route!NoVerdict},
               relay' \in {"polling", "telling_other", "telling_self", "piping", "closed"},
               UNCHANGED Route!peerVars
        PROVE  Route!TypeOK'
    BY <1>2 DEF CommitInv, Route!TypeOK, UpFrames, DownFrames, RouteChoices, Route!peerVars
  <1>3. Route!Eof \in DownFrames /\ Route!Eof \notin Route!Verdicts /\ UpFrames \subseteq DownFrames
        /\ Route!Verdicts \subseteq DownFrames /\ UpFrames \cap Route!Verdicts = {}
    BY RouteFrameKinds DEF DownFrames, UpFrames, Route!RouteFrames
  <1>4. ASSUME NEW got \in SUBSET Route!Peers, Route!Poll(got) PROVE CommitInv'
    <2>1. /\ choice' \in [Route!Peers -> RouteChoices] /\ up' \in [Route!Peers -> Seq(UpFrames)]
          /\ \A p \in Route!Peers :
                /\ Range(up'[p]) \subseteq Range(up[p])
                /\ choice'[p] = "DirectOk" => choice[p] = "DirectOk" \/ Route!DirectOk \in Range(up[p])
      BY <1>4, PollReads DEF CommitInv
    <2>2. Route!Decide(Route!relay_route_decision_for(choice'["other"], choice'["self"], FALSE))
          /\ UNCHANGED <<Route!peerVars, down>> /\ relay = "polling"
      BY <1>4 DEF Route!Poll
    <2>3. /\ verdict' \in Route!Verdicts \cup {Route!NoVerdict} /\ relay' \in {"polling", "telling_other"}
          /\ relay' = "polling" <=> verdict' = Route!NoVerdict
      BY <2>1, <2>2, RouteDecides DEF Route!Peers
    <2>4. Route!TypeOK' /\ Undecided'
      BY <1>1, <1>2, <2>1, <2>2, <2>3 DEF Undecided
    <2>5. OffersKnown'
      BY <2>1, <2>2 DEF CommitInv, OffersKnown, Said, Route!peerVars
    <2>6. OneVerdict'
      BY <2>2, RouteFrameKinds DEF CommitInv, OneVerdict, Undecided, RouteTold
    <2> QED BY <2>4, <2>5, <2>6 DEF CommitInv
  <1>5. ASSUME Route!Expire PROVE CommitInv'
    <2>1. /\ Route!Decide(Route!relay_route_decision_for(choice["other"], choice["self"], TRUE))
          /\ UNCHANGED <<Route!peerVars, up, down, choice>> /\ relay = "polling"
      BY <1>5 DEF Route!Expire
    <2>2. /\ verdict' \in Route!Verdicts \cup {Route!NoVerdict} /\ relay' \in {"polling", "telling_other"}
          /\ relay' = "polling" <=> verdict' = Route!NoVerdict
      BY <1>1, <2>1, RouteDecides DEF Route!Peers
    <2>3. Route!TypeOK' /\ Undecided'
      BY <1>1, <1>2, <2>1, <2>2 DEF Undecided
    <2>4. OffersKnown' /\ OneVerdict'
      BY <2>1, RouteFrameKinds DEF CommitInv, OffersKnown, OneVerdict, Undecided, Said, RouteTold,
                                   Route!peerVars
    <2> QED BY <2>3, <2>4 DEF CommitInv
  <1>6. ASSUME down' \in [Route!Peers -> Seq(DownFrames)], UNCHANGED <<Route!peerVars, choice, verdict>>,
               relay # "polling", relay' \in {"telling_self", "piping", "closed"},
               up' \in [Route!Peers -> Seq(UpFrames)],
               \A p \in Route!Peers : /\ Range(up'[p]) \subseteq Range(up[p])
                                      /\ Range(down'[p]) \cap Route!Verdicts \subseteq Range(down[p]) \cup {verdict}
        PROVE  CommitInv'
    <2>1. Route!TypeOK' /\ Undecided'
      BY <1>1, <1>2, <1>6 DEF CommitInv, Undecided
    <2>2. OffersKnown' /\ OneVerdict'
      BY <1>6 DEF CommitInv, OffersKnown, OneVerdict, Said, RouteTold, Route!peerVars
    <2> QED BY <2>1, <2>2 DEF CommitInv
  <1>7. ASSUME NEW seqs \in [Route!Peers -> Seq(DownFrames)]
        PROVE  /\ Route!EofAfter(seqs) \in [Route!Peers -> Seq(DownFrames)]
               /\ \A p \in Route!Peers : Range(Route!EofAfter(seqs)[p]) = Range(seqs[p]) \cup {Route!Eof}
    BY <1>3, StreamSteps DEF Route!EofAfter
  <1>8. ASSUME NEW p \in Route!Peers, NEW f \in DownFrames
        PROVE  /\ [down EXCEPT ![p] = Append(@, f)] \in [Route!Peers -> Seq(DownFrames)]
               /\ \A q \in Route!Peers : Range([down EXCEPT ![p] = Append(@, f)][q])
                                         \subseteq Range(down[q]) \cup {f}
    BY <1>1, StreamSteps
  <1>9. ASSUME NEW p \in Route!Peers, Route!Tell(p) PROVE CommitInv'
    <2>1. verdict \in Route!Verdicts /\ verdict \in DownFrames /\ relay # "polling"
      BY <1>1, <1>3, <1>9 DEF CommitInv, Undecided, Route!Tell, Route!Telling
    <2>2. /\ relay' \in {"telling_self", "piping", "closed"} /\ UNCHANGED <<Route!peerVars, up, choice, verdict>>
          /\ \/ down' = [down EXCEPT ![p] = Append(@, verdict)]
             \/ down' = Route!EofAfter([down EXCEPT ![p] = Append(@, verdict)])
      BY <1>9 DEF Route!Tell
    <2> DEFINE told == [down EXCEPT ![p] = Append(@, verdict)]
    <2>3. /\ told \in [Route!Peers -> Seq(DownFrames)]
          /\ \A q \in Route!Peers : Range(told[q]) \subseteq Range(down[q]) \cup {verdict}
      BY <1>8, <2>1
    <2> HIDE DEF told
    <2>4. /\ Route!EofAfter(told) \in [Route!Peers -> Seq(DownFrames)]
          /\ \A q \in Route!Peers : Range(Route!EofAfter(told)[q]) \cap Route!Verdicts \subseteq Range(down[q]) \cup {verdict}
      <3>1. Route!EofAfter(told) \in [Route!Peers -> Seq(DownFrames)]
        BY <1>7, <2>3
      <3>2. \A q \in Route!Peers : Range(Route!EofAfter(told)[q]) = Range(told[q]) \cup {Route!Eof}
        BY <1>7, <2>3
      <3> QED BY <1>3, <2>3, <3>1, <3>2
    <2>5. down' = told \/ down' = Route!EofAfter(told)
      BY <2>2 DEF told
    <2>6. /\ down' \in [Route!Peers -> Seq(DownFrames)]
          /\ \A q \in Route!Peers : Range(down'[q]) \cap Route!Verdicts \subseteq Range(down[q]) \cup {verdict}
      BY <2>3, <2>4, <2>5
    <2> QED BY <1>1, <1>6, <2>1, <2>2, <2>6
  <1>10. ASSUME NEW p \in Route!Peers, Route!TellThrows(p) PROVE CommitInv'
    BY <1>1, <1>3, <1>6, <1>7, <1>10 DEF Route!TellThrows, Route!Telling
  <1>11. ASSUME NEW p \in Route!Peers, Route!Pipe(p) PROVE CommitInv'
    <2>1. /\ Head(up[p]) \in UpFrames /\ Route!Other(p) \in Route!Peers
          /\ Tail(up[p]) \in Seq(UpFrames) /\ Range(Tail(up[p])) \subseteq Range(up[p])
      BY <1>1, <1>11, StreamSteps DEF Route!Pipe, Route!Peers, Route!Other
    <2>2. CASE Head(up[p]) = Route!Eof
      BY <1>1, <1>3, <1>6, <1>7, <1>11, <2>2 DEF Route!Pipe
    <2>3. CASE Head(up[p]) # Route!Eof
      <3>1. /\ relay = "piping" /\ relay' = relay /\ UNCHANGED <<Route!peerVars, choice, verdict>>
            /\ down' = [down EXCEPT ![Route!Other(p)] = Append(@, Head(up[p]))]
            /\ up' = [up EXCEPT ![p] = Tail(@)]
        BY <1>11, <2>3 DEF Route!Pipe
      <3>2. /\ down' \in [Route!Peers -> Seq(DownFrames)]
            /\ \A q \in Route!Peers : Range(down'[q]) \subseteq Range(down[q]) \cup {Head(up[p])}
        BY <1>3, <1>8, <2>1, <3>1
      <3>3. Head(up[p]) \notin Route!Verdicts
        BY <1>3, <2>1
      <3>4. up' \in [Route!Peers -> Seq(UpFrames)] /\ \A q \in Route!Peers : Range(up'[q]) \subseteq Range(up[q])
        BY <1>1, <2>1, <3>1
      <3> QED BY <1>6, <3>1, <3>2, <3>3, <3>4
    <2> QED BY <2>2, <2>3
  <1> QED BY <1>4, <1>5, <1>9, <1>10, <1>11 DEF Route!Relay

-----------------------------------------------------------------------------
(* The invariant behind FailsOnlyUnpaired.                                 *)

\* A verdict that a peer reads is the relay's.
LEMMA HeadIsVerdict ==
    ASSUME CommitInv, NEW p \in Route!Peers, down[p] # << >>
    PROVE  /\ Head(down[p]) = Route!DirectStart => verdict = Route!DirectStart
           /\ Head(down[p]).type = "relay_start" => verdict.type = "relay_start"
  <1>1. Head(down[p]) \in DownFrames /\ Head(down[p]) \in RouteTold(p)
    BY StreamSteps DEF CommitInv, Route!TypeOK, DownFrames, RouteTold
  <1>2. Head(down[p]) \in Route!Verdicts => Head(down[p]) = verdict
    BY <1>1 DEF CommitInv, OneVerdict
  <1> QED BY <1>1, <1>2, RouteFrameKinds DEF DownFrames, Route!Verdicts

\* Each peer that takes a route takes the one the relay has started.
LEMMA PeerTakes ==
    ASSUME CommitInv, RouteTaken, NEW p \in Route!Peers, Route!Peer(p)
    PROVE  RouteTaken'
  <1>1. /\ rpc \in [Route!Peers -> {"planned", "probing", "probed", "direct_ok", "relay_ready",
                                    "direct", "relay", "failed"}]
        /\ verdict' = verdict
    BY PeerMovesSo DEF CommitInv, Route!TypeOK, PeerMoves
  <1>2. /\ rpc'[p] = "direct" => rpc[p] = "direct" \/ verdict = Route!DirectStart
        /\ rpc'[p] = "relay"  => rpc[p] = "relay"  \/ verdict.type = "relay_start"
        /\ \A q \in Route!Peers : q # p => rpc'[q] = rpc[q]
    <2> USE <1>1 DEF Route!Goto
    <2>1. CASE Route!Begin(p)
      BY <2>1 DEF Route!Begin
    <2>2. CASE Route!DirectReady(p)
      BY <2>2 DEF Route!DirectReady
    <2>3. CASE Route!EarlyVerdict(p)
      BY <2>3, HeadIsVerdict DEF Route!EarlyVerdict, Route!TakeRelay, Route!Fail
    <2>4. CASE Route!Choose(p)
      BY <2>4 DEF Route!Choose
    <2>5. CASE Route!Confirm(p)
      BY <2>5, HeadIsVerdict DEF Route!Confirm, Route!TakeRelay, Route!Fail
    <2>6. CASE Route!Break(p)
      BY <2>6 DEF Route!Break, Route!Fail
    <2> QED BY <2>1, <2>2, <2>3, <2>4, <2>5, <2>6 DEF Route!Peer
  <1> QED BY <1>1, <1>2 DEF RouteTaken

\* A peer that offers has chosen, and goes on only to a route or to its end.
LEMMA PeerOffers ==
    ASSUME Route!TypeOK, OffersChosen, NEW p \in Route!Peers, Route!Peer(p)
    PROVE  OffersChosen'
  <1> USE DEF Route!TypeOK, OffersChosen, Route!Goto
  <1>1. CASE Route!Begin(p)
    BY <1>1 DEF Route!Begin
  <1>2. CASE Route!DirectReady(p)
    BY <1>2 DEF Route!DirectReady
  <1>3. CASE Route!EarlyVerdict(p)
    BY <1>3 DEF Route!EarlyVerdict, Route!TakeRelay, Route!Fail
  <1>4. CASE Route!Choose(p)
    BY <1>4 DEF Route!Choose
  <1>5. CASE Route!Confirm(p)
    BY <1>5 DEF Route!Confirm, Route!TakeRelay, Route!Fail
  <1>6. CASE Route!Break(p)
    BY <1>6 DEF Route!Break, Route!Fail
  <1> QED BY <1>1, <1>2, <1>3, <1>4, <1>5, <1>6 DEF Route!Peer

\* The only answer that makes an untroubled peer fail is "done": a direct_start can
\* only be read by a peer that has chosen it.
LEMMA FailsAlone ==
    ASSUME RouteInv, broken = {}, NEW p \in Route!Peers, ~Route!Final(p), down[p] # << >>,
           Head(down[p]).type # "relay_start",
           ~(rpc[p] = "direct_ok" /\ Head(down[p]) = Route!DirectStart)
    PROVE  verdict = Route!Done /\ \E q \in Route!Peers : choice[q] = "Waiting"
  <1>1. Untroubled
    BY DEF RouteInv, FailInv
  <1>2. RouteAnswered(p) /\ Head(down[p]) = verdict
    BY <1>1 DEF Untroubled
  <1>3. verdict \in Route!Verdicts
    BY <1>2 DEF RouteAnswered, RouteInv, CommitInv, Undecided, Route!TypeOK
  <1>4. verdict # Route!DirectStart
    <2> SUFFICES ASSUME verdict = Route!DirectStart PROVE FALSE
      OBVIOUS
    <2>1. p \in offered
      BY DEF RouteInv, FailInv, DirectChosen, CommitInv, OffersKnown
    <2>2. rpc[p] = "direct_ok"
      BY <2>1 DEF RouteInv, FailInv, OffersChosen, Route!Final
    <2> QED BY <1>2, <2>2
  <1>5. verdict = Route!Done
    BY <1>2, <1>3, <1>4, RouteFrameKinds
  <1> QED BY <1>1, <1>5 DEF Untroubled

\* A step of a peer nobody cancelled: it reads the verdict first, and closes only
\* when it fails.
LEMMA PeerUntroubled ==
    ASSUME RouteInv, NEW p \in Route!Peers, Route!Peer(p), broken' = {}
    PROVE  Untroubled' /\ Route!FailsOnlyUnpaired'
  <1>1. broken = {} /\ ~Route!Break(p) /\ Untroubled /\ Route!FailsOnlyUnpaired
    BY DEF Route!Peer, RouteInv, FailInv, Route!Break, Route!Begin, Route!DirectReady,
           Route!EarlyVerdict, Route!Choose, Route!Confirm
  <1>2. PeerMoves(p) /\ up \in [Route!Peers -> Seq(UpFrames)] /\ down \in [Route!Peers -> Seq(DownFrames)]
        /\ rpc \in [Route!Peers -> {"planned", "probing", "probed", "direct_ok", "relay_ready",
                                    "direct", "relay", "failed"}]
    BY PeerMovesSo DEF RouteInv, CommitInv, Route!TypeOK, UpFrames, DownFrames
  <1>3. /\ \A q \in Route!Peers : q # p => rpc'[q] = rpc[q] /\ up'[q] = up[q] /\ down'[q] = down[q]
        /\ UNCHANGED <<choice, relay, verdict>>
    BY <1>2 DEF PeerMoves
  <1>4. /\ rpc'[p] = "failed" => verdict = Route!Done /\ \E q \in Route!Peers : choice[q] = "Waiting"
        /\ ~(rpc'[p] \in {"direct", "relay", "failed"}) => down' = down
        /\ ~Route!Final(p)
    <2> USE <1>1, <1>2 DEF Route!Goto, Route!Final
    <2>1. CASE Route!Begin(p)
      BY <2>1 DEF Route!Begin
    <2>2. CASE Route!DirectReady(p)
      BY <2>2 DEF Route!DirectReady
    <2>3. CASE Route!EarlyVerdict(p)
      BY <2>3, FailsAlone DEF Route!EarlyVerdict, Route!TakeRelay, Route!Fail
    <2>4. CASE Route!Choose(p)
      BY <2>4 DEF Route!Choose
    <2>5. CASE Route!Confirm(p)
      BY <2>5, FailsAlone DEF Route!Confirm, Route!TakeRelay, Route!Fail
    <2> QED BY <2>1, <2>2, <2>3, <2>4, <2>5 DEF Route!Peer
  <1>5. Route!Eof \in Range(up'[p]) => Route!Eof \in Range(up[p]) \/ rpc'[p] = "failed"
    <2>1. \A f : Range(Append(up[p], f)) = Range(up[p]) \cup {f}
      BY <1>2, StreamSteps
    <2>2. Route!Eof # Route!Standby /\ Route!Eof # Route!RelayReady /\ Route!Eof # Route!DirectOk
      BY RouteFrameKinds DEF Route!RouteFrames
    <2>3. ASSUME NEW f, up' = [up EXCEPT ![p] = Append(up[p], f)]
          PROVE  Range(up'[p]) = Range(up[p]) \cup {f}
      BY <1>2, <2>1, <2>3
    <2> QED BY <1>2, <2>2, <2>3 DEF PeerMoves
  <1>6. Untroubled'
    <2>1. Route!Eof \notin Range(up[p])
      BY <1>1, <1>4 DEF Untroubled, Said, Route!Final
    <2>2. \A q \in Route!Peers : choice'[q] # "Invalid" /\ (Route!Eof \in Said(q)' => rpc'[q] = "failed")
      BY <1>1, <1>3, <1>5, <2>1 DEF Untroubled, Said
    <2>3. \A q \in Route!Peers : RouteAnswered(q)' <=> RouteAnswered(q)
      BY <1>3 DEF RouteAnswered
    <2>4. \A q \in Route!Peers : ~Route!Final(q)' =>
             IF RouteAnswered(q)' THEN down'[q] # << >> /\ Head(down'[q]) = verdict' ELSE down'[q] = << >>
      BY <1>1, <1>3, <1>4, <2>3 DEF Untroubled, Route!Final
    <2> QED BY <1>1, <1>3, <2>2, <2>4 DEF Untroubled
  <1>7. Route!FailsOnlyUnpaired'
    BY <1>1, <1>3, <1>4 DEF Route!FailsOnlyUnpaired
  <1> QED BY <1>6, <1>7

\* A step of a peer keeps what a failure rests on.
LEMMA PeerFail ==
    ASSUME RouteInv, NEW p \in Route!Peers, Route!Peer(p)
    PROVE  FailInv'
  <1>1. RouteTaken' /\ OffersChosen'
    BY PeerTakes, PeerOffers DEF RouteInv, CommitInv, FailInv
  <1>2. DirectChosen'
    BY PeerMovesSo DEF RouteInv, CommitInv, FailInv, DirectChosen, PeerMoves
  <1>3. broken' = {} => Untroubled' /\ Route!FailsOnlyUnpaired'
    BY PeerUntroubled
  <1> QED BY <1>1, <1>2, <1>3 DEF FailInv, Route!FailsOnlyUnpaired

\* The relay starts a direct route when it has read two direct_ok.
LEMMA RelayDirect ==
    ASSUME Route!TypeOK, DirectChosen, Route!Relay
    PROVE  DirectChosen'
  <1>1. choice \in [Route!Peers -> RouteChoices]
    BY DEF Route!TypeOK, RouteChoices
  <1>2. ASSUME NEW got \in SUBSET Route!Peers, Route!Poll(got) PROVE DirectChosen'
    <2>1. choice' \in [Route!Peers -> RouteChoices]
          /\ Route!Decide(Route!relay_route_decision_for(choice'["other"], choice'["self"], FALSE))
      BY <1>2, PollReads DEF Route!Poll
    <2> QED BY <2>1, RouteDecides DEF DirectChosen, Route!Peers
  <1>3. CASE Route!Expire
    BY <1>1, <1>3, RouteDecides DEF Route!Expire, DirectChosen, Route!Peers
  <1>4. ASSUME NEW p \in Route!Peers, Route!Tell(p) \/ Route!TellThrows(p) \/ Route!Pipe(p) PROVE DirectChosen'
    BY <1>4 DEF Route!Tell, Route!TellThrows, Route!Pipe, DirectChosen
  <1> QED BY <1>2, <1>3, <1>4 DEF Route!Relay

\* The relay's part: it reads no end of a stream, its verdict is the first frame each
\* peer gets, and it answers "done" only to a peer that was alone.
LEMMA RelayUntroubled ==
    ASSUME RouteInv, Route!Relay, broken = {}
    PROVE  Untroubled'
  <1>1. /\ up \in [Route!Peers -> Seq(UpFrames)] /\ down \in [Route!Peers -> Seq(DownFrames)]
        /\ choice \in [Route!Peers -> RouteChoices]
        /\ verdict \in Route!Verdicts \cup {Route!NoVerdict} /\ (relay = "polling" <=> verdict = Route!NoVerdict)
        /\ relay \in {"polling", "telling_other", "telling_self", "piping", "closed"}
    BY DEF RouteInv, CommitInv, Route!TypeOK, Undecided, UpFrames, DownFrames, RouteChoices
  <1>2. Untroubled /\ Route!FailsOnlyUnpaired /\ DirectChosen
    BY DEF RouteInv, FailInv
  <1>3. UNCHANGED <<rpc, broken>>
    BY DEF Route!Relay, Route!Poll, Route!Expire, Route!Tell, Route!TellThrows, Route!Pipe,
           Route!peerVars
  <1>4. ASSUME NEW choices \in [Route!Peers -> RouteChoices], NEW expired \in BOOLEAN,
               Route!Decide(Route!relay_route_decision_for(choices["other"], choices["self"], expired)),
               choice' = choices, \A p \in Route!Peers : choices[p] # "Invalid",
               relay = "polling", down' = down,
               \A p \in Route!Peers : Range(up'[p]) \subseteq Range(up[p])
        PROVE  Untroubled'
    <2>1. /\ verdict' = Route!Done => \E p \in Route!Peers : choices[p] = "Waiting"
          /\ relay' \in {"polling", "telling_other"}
      BY <1>4, RouteDecides DEF Route!Peers
    <2>2. \A p \in Route!Peers : ~RouteAnswered(p) /\ ~RouteAnswered(p)'
      BY <1>4, <2>1 DEF RouteAnswered
    <2> QED BY <1>2, <1>3, <1>4, <2>1, <2>2 DEF Untroubled, DirectChosen, Said, Route!Final
  <1>5. ASSUME NEW got \in SUBSET Route!Peers, Route!Poll(got) PROVE Untroubled'
    <2>1. /\ choice' \in [Route!Peers -> RouteChoices]
          /\ \A p \in Route!Peers :
                /\ Range(up'[p]) \subseteq Range(up[p])
                /\ choice'[p] = "Invalid" => choice[p] = "Invalid" \/ Route!Eof \in Range(up[p])
      BY <1>5, PollReads DEF RouteInv, CommitInv
    <2>2. /\ Route!Decide(Route!relay_route_decision_for(choice'["other"], choice'["self"], FALSE))
          /\ relay = "polling" /\ down' = down
      BY <1>5 DEF Route!Poll
    <2>3. \A p \in Route!Peers : Route!Eof \notin Range(up[p])
      BY <1>1, <1>2, <2>2, RouteFrameKinds DEF Untroubled, Said, Route!FailsOnlyUnpaired,
                                               Route!Verdicts
    <2>4. \A p \in Route!Peers : choice'[p] # "Invalid"
      BY <1>2, <2>1, <2>3 DEF Untroubled
    <2> QED BY <1>4, <2>1, <2>2, <2>4
  <1>6. ASSUME Route!Expire PROVE Untroubled'
    <2>1. /\ Route!Decide(Route!relay_route_decision_for(choice["other"], choice["self"], TRUE))
          /\ relay = "polling" /\ down' = down /\ choice' = choice /\ up' = up
      BY <1>6 DEF Route!Expire
    <2>2. \A p \in Route!Peers : choice[p] # "Invalid"
      BY <1>2 DEF Untroubled
    <2> QED BY <1>1, <1>4, <2>1, <2>2
  <1>7. ASSUME NEW seqs \in [Route!Peers -> Seq(DownFrames)], NEW p \in Route!Peers
        PROVE  /\ Route!EofAfter(seqs)[p] # << >>
               /\ seqs[p] # << >> => Head(Route!EofAfter(seqs)[p]) = Head(seqs[p])
    <2>1. seqs[p] \in Seq(DownFrames) /\ Route!EofAfter(seqs)[p] = Append(seqs[p], Route!Eof)
      BY DEF Route!EofAfter
    <2> QED BY <2>1, StreamSteps
  <1>8. ASSUME NEW p \in Route!Peers, NEW f
        PROVE  LET seqs == [down EXCEPT ![p] = Append(@, f)]
               IN  /\ f \in DownFrames => seqs \in [Route!Peers -> Seq(DownFrames)]
                   /\ \A q \in Route!Peers : /\ down[q] # << >> => seqs[q] # << >> /\ Head(seqs[q]) = Head(down[q])
                                             /\ q # p => seqs[q] = down[q]
                   /\ seqs[p] # << >>
                   /\ down[p] = << >> => Head(seqs[p]) = f
    <2>1. /\ Append(down[p], f) # << >>
          /\ Head(Append(down[p], f)) = IF down[p] = << >> THEN f ELSE Head(down[p])
          /\ f \in DownFrames => Append(down[p], f) \in Seq(DownFrames)
      <3>1. down[p] \in Seq(DownFrames)
        BY <1>1
      <3>2. \A s \in Seq(DownFrames) : \A g :
               /\ Append(s, g) # << >>
               /\ Head(Append(s, g)) = IF s = << >> THEN g ELSE Head(s)
               /\ g \in DownFrames => Append(s, g) \in Seq(DownFrames)
        BY StreamSteps
      <3> QED BY <3>1, <3>2
    <2> DEFINE seqs == [down EXCEPT ![p] = Append(@, f)]
    <2>2. seqs[p] = Append(down[p], f) /\ \A q \in Route!Peers : q # p => seqs[q] = down[q]
      BY <1>1
    <2>3. f \in DownFrames => seqs \in [Route!Peers -> Seq(DownFrames)]
      BY <1>1, <2>1
    <2> HIDE DEF seqs
    <2>4. \A q \in Route!Peers : /\ down[q] # << >> => seqs[q] # << >> /\ Head(seqs[q]) = Head(down[q])
                                /\ q # p => seqs[q] = down[q]
      BY <2>1, <2>2
    <2> QED BY <2>1, <2>2, <2>3, <2>4 DEF seqs
  <1>9. ASSUME NEW p \in Route!Peers, Route!Tell(p) PROVE Untroubled'
    <2> DEFINE told == [down EXCEPT ![p] = Append(@, verdict)]
    <2>1. /\ verdict \in DownFrames /\ UNCHANGED <<up, choice, verdict>>
          /\ ~RouteAnswered(p) /\ RouteAnswered(p)' /\ \A q \in Route!Peers : q # p => (RouteAnswered(q)' <=> RouteAnswered(q))
          /\ down' = told \/ down' = Route!EofAfter(told)
          /\ down' = told \/ \A q \in Route!Peers : RouteAnswered(q)'
      BY <1>1, <1>9 DEF Route!Tell, Route!Telling, RouteAnswered, DownFrames, Route!Peers
    <2>2. /\ told \in [Route!Peers -> Seq(DownFrames)] /\ told[p] # << >>
          /\ ~Route!Final(p) => Head(told[p]) = verdict
          /\ \A q \in Route!Peers : q # p => told[q] = down[q]
      BY <1>2, <1>8, <2>1 DEF Untroubled
    <2> HIDE DEF told
    <2>3. \A q \in Route!Peers : ~Route!Final(q) =>
             IF RouteAnswered(q)' THEN down'[q] # << >> /\ Head(down'[q]) = verdict ELSE down'[q] = << >>
      BY <1>2, <1>7, <2>1, <2>2 DEF Untroubled
    <2> QED BY <1>2, <1>3, <2>1, <2>3 DEF Untroubled, Said, Route!Final
  <1>10. ASSUME NEW p \in Route!Peers, Route!TellThrows(p) PROVE FALSE
    BY <1>2, <1>10 DEF Route!TellThrows, Route!FailsOnlyUnpaired
  <1>11. ASSUME NEW p \in Route!Peers, Route!Pipe(p) PROVE Untroubled'
    <2>1. /\ \A q \in Route!Peers : RouteAnswered(q) /\ RouteAnswered(q)' /\ Range(up'[q]) \subseteq Range(up[q])
          /\ UNCHANGED <<choice, verdict>>
      <3>1. relay = "piping" /\ relay' \in {"piping", "closed"} /\ UNCHANGED <<choice, verdict>>
            /\ up[p] # << >> /\ (up' = up \/ up' = [up EXCEPT ![p] = Tail(@)])
        BY <1>1, <1>11 DEF Route!Pipe
      <3>2. Range(Tail(up[p])) \subseteq Range(up[p])
        BY <1>1, <3>1, StreamSteps
      <3> QED BY <1>1, <3>1, <3>2 DEF RouteAnswered
    <2>2. Route!Other(p) \in Route!Peers
      BY DEF Route!Other, Route!Peers
    <2>3. \A q \in Route!Peers : down[q] # << >> => down'[q] # << >> /\ Head(down'[q]) = Head(down[q])
      <3>1. \/ down' = Route!EofAfter(down)
            \/ down' = [down EXCEPT ![Route!Other(p)] = Append(@, Head(up[p]))]
        BY <1>11 DEF Route!Pipe
      <3>2. ASSUME down' = Route!EofAfter(down), NEW q \in Route!Peers, down[q] # << >>
            PROVE  down'[q] # << >> /\ Head(down'[q]) = Head(down[q])
        BY <1>1, <1>7, <3>2
      <3>3. ASSUME down' = [down EXCEPT ![Route!Other(p)] = Append(@, Head(up[p]))], NEW q \in Route!Peers,
                   down[q] # << >>
            PROVE  down'[q] # << >> /\ Head(down'[q]) = Head(down[q])
        BY <1>8, <2>2, <3>3
      <3> QED BY <3>1, <3>2, <3>3
    <2> QED BY <1>2, <1>3, <2>1, <2>3 DEF Untroubled, Said, Route!Final
  <1> QED BY <1>5, <1>6, <1>9, <1>10, <1>11 DEF Route!Relay

\* So does a step of the relay.
LEMMA RelayFail ==
    ASSUME RouteInv, Route!Relay
    PROVE  FailInv'
  <1>1. UNCHANGED <<rpc, offered, broken>>
    BY DEF Route!Relay, Route!Poll, Route!Expire, Route!Tell, Route!TellThrows, Route!Pipe,
           Route!peerVars
  <1>2. verdict = Route!NoVerdict \/ (verdict' = verdict /\ choice' = choice)
    <2>1. relay = "polling" \/ (verdict' = verdict /\ choice' = choice)
      <3>1. ASSUME NEW got \in SUBSET Route!Peers, Route!Poll(got) PROVE relay = "polling"
        BY <3>1 DEF Route!Poll
      <3>2. ASSUME NEW p \in Route!Peers, Route!Tell(p) \/ Route!TellThrows(p) \/ Route!Pipe(p)
            PROVE  verdict' = verdict /\ choice' = choice
        BY <3>2 DEF Route!Tell, Route!TellThrows, Route!Pipe
      <3> QED BY <3>1, <3>2 DEF Route!Relay, Route!Expire
    <2> QED BY <2>1 DEF RouteInv, CommitInv, Undecided
  <1>3. RouteTaken' /\ OffersChosen'
    BY <1>1, <1>2, RouteFrameKinds DEF RouteInv, FailInv, RouteTaken, OffersChosen, Route!Verdicts
  <1>4. DirectChosen' /\ (broken' = {} => Untroubled')
    BY <1>1, RelayDirect, RelayUntroubled DEF RouteInv, CommitInv, FailInv
  <1>5. Route!FailsOnlyUnpaired'
    BY <1>1, <1>2, RouteFrameKinds DEF RouteInv, FailInv, Route!FailsOnlyUnpaired, Route!Verdicts
  <1> QED BY <1>1, <1>3, <1>4, <1>5 DEF FailInv

-----------------------------------------------------------------------------
(* The theorems.                                                           *)

\* Nothing was said at the start.
LEMMA RouteInitInv == Route!Init => RouteInv
  <1> SUFFICES ASSUME Route!Init PROVE RouteInv
    OBVIOUS
  <1>1. \A p \in Route!Peers : Range(up[p]) = {} /\ Range(down[p]) = {}
    BY DEF Route!Init, Range
  <1>2. Route!TypeOK
    BY DEF Route!Init, Route!TypeOK
  <1>3. Undecided /\ OffersKnown /\ OneVerdict
    BY <1>1 DEF Route!Init, Undecided, OffersKnown, OneVerdict, Said, RouteTold
  <1>4. RouteTaken /\ OffersChosen /\ DirectChosen /\ Route!FailsOnlyUnpaired
    BY RouteFrameKinds DEF Route!Init, RouteTaken, OffersChosen, DirectChosen,
                           Route!FailsOnlyUnpaired, Route!Verdicts
  <1>5. Untroubled
    BY <1>1, RouteFrameKinds DEF Route!Init, Untroubled, Said, Route!Final, RouteAnswered,
                                 Route!Verdicts
  <1> QED BY <1>2, <1>3, <1>4, <1>5 DEF RouteInv, CommitInv, FailInv

\* Every step keeps the invariant.
LEMMA RouteNextInv == RouteInv /\ [Route!Next]_(Route!vars) => RouteInv'
  <1> SUFFICES ASSUME RouteInv, [Route!Next]_(Route!vars) PROVE RouteInv'
    OBVIOUS
  <1>1. ASSUME NEW p \in Route!Peers, Route!Peer(p) PROVE RouteInv'
    BY <1>1, PeerCommit, PeerFail DEF RouteInv
  <1>2. CASE Route!Relay
    BY <1>2, RelayCommit, RelayFail DEF RouteInv
  <1>3. CASE UNCHANGED Route!vars
    BY <1>3 DEF Route!vars, Route!peerVars, Route!relayVars, RouteInv, CommitInv, FailInv,
                Route!TypeOK, Undecided, OffersKnown,
                OneVerdict, RouteTaken, OffersChosen, DirectChosen, Untroubled,
                Route!FailsOnlyUnpaired,
                Said, RouteTold, Route!Final, RouteAnswered
  <1> QED BY <1>1, <1>2, <1>3 DEF Route!Next, Route!Finished

\* The two peers never take different routes.
LEMMA OneRoute ==
    ASSUME RouteInv, NEW p \in Route!Peers, NEW q \in Route!Peers, rpc[p] = "direct"
    PROVE  rpc[q] # "relay"
  BY RouteFrameKinds DEF RouteInv, FailInv, RouteTaken, Route!Verdicts

-----------------------------------------------------------------------------
(* RelayRoute implements RouteCommit.                                      *)

\* Nobody has a route at first, and nothing is decided.
LEMMA CommitInit == Route!Init => Route!Abstract!Init
  <1> SUFFICES ASSUME Route!Init PROVE Route!Abstract!Init
    OBVIOUS
  <1>1. Route!verdictBar = "open"
    BY BarMeans DEF Route!Init
  <1>2. Route!pathBar = [p \in Route!Peers |-> "none"]
    BY DEF Route!Init, Route!pathBar, Route!Final
  <1> QED BY <1>1, <1>2 DEF Route!Init, Route!Abstract!Init

\* A step of a peer offers, follows the decision, gives up, or is not visible.
LEMMA PeerImplements ==
    ASSUME RouteInv, RouteInv', NEW p \in Route!Peers, Route!Peer(p)
    PROVE  [Route!Abstract!Next]_(Route!Abstract!vars)
  <1>1. /\ rpc \in [Route!Peers -> {"planned", "probing", "probed", "direct_ok", "relay_ready",
                                    "direct", "relay", "failed"}]
        /\ verdict \in Route!Verdicts \cup {Route!NoVerdict}
    BY DEF RouteInv, CommitInv, Route!TypeOK
  <1>2. ~Route!Final(p)
    BY DEF Route!Peer, Route!Begin, Route!DirectReady, Route!EarlyVerdict, Route!Choose,
           Route!Confirm, Route!Break, Route!Final
  <1>3. Route!verdictBar' = Route!verdictBar /\ PeerMoves(p)
    BY PeerMovesSo DEF RouteInv, CommitInv, PeerMoves, Route!verdictBar
  <1>4. Route!pathBar[p] = "none" /\ \A q \in Route!Peers : q # p => rpc'[q] = rpc[q]
    BY <1>1, <1>2, <1>3 DEF Route!pathBar, PeerMoves
  <1>5. ~Route!Final(p)' => Route!pathBar' = Route!pathBar
    BY <1>2, <1>4 DEF Route!pathBar, Route!Final
  <1>6. Route!Final(p)' => Route!pathBar' = [Route!pathBar EXCEPT ![p] = rpc'[p]]
    BY <1>4 DEF Route!pathBar, Route!Final
  <1>7. CASE offered' # offered
    <2>1. p \notin offered /\ offered' = offered \cup {p} /\ ~Route!Final(p)'
      BY <1>3, <1>7 DEF PeerMoves, Route!Final
    <2>2. Route!Abstract!Offer(p)
      BY <1>3, <1>4, <1>5, <2>1 DEF Route!Abstract!Offer
    <2> QED BY <2>2 DEF Route!Abstract!Next
  <1>8. CASE offered' = offered /\ ~Route!Final(p)'
    BY <1>3, <1>5, <1>8 DEF Route!Abstract!vars
  <1>9. CASE offered' = offered /\ Route!Final(p)'
    <2>1. CASE rpc'[p] = "failed"
      <3>1. Route!Abstract!GiveUp(p)
        BY <1>3, <1>4, <1>6, <1>9, <2>1 DEF Route!Abstract!GiveUp
      <3> QED BY <3>1 DEF Route!Abstract!Next
    <2>2. CASE rpc'[p] \in {"direct", "relay"}
      <3>1. Route!verdictBar = rpc'[p]
        BY <1>1, <1>3, <2>2, BarMeans DEF RouteInv, FailInv, RouteTaken, PeerMoves
      <3>2. Route!Abstract!Follow(p)
        BY <1>3, <1>4, <1>6, <1>9, <2>2, <3>1 DEF Route!Abstract!Follow
      <3> QED BY <3>2 DEF Route!Abstract!Next
    <2> QED BY <1>9, <2>1, <2>2 DEF Route!Final
  <1> QED BY <1>7, <1>8, <1>9

\* A step of the relay decides once, for a direct route only when both have offered.
LEMMA RelayImplements ==
    ASSUME RouteInv, RouteInv', Route!Relay
    PROVE  [Route!Abstract!Next]_(Route!Abstract!vars)
  <1>1. UNCHANGED <<offered, Route!pathBar>>
    BY DEF Route!Relay, Route!Poll, Route!Expire, Route!Tell, Route!TellThrows, Route!Pipe,
           Route!peerVars, Route!pathBar, Route!Final
  <1>2. CASE verdict' = verdict
    BY <1>1, <1>2 DEF Route!verdictBar, Route!Abstract!vars
  <1>3. CASE verdict' # verdict
    <2>1. verdict = Route!NoVerdict
      <3>1. relay = "polling"
        <4>1. ASSUME NEW got \in SUBSET Route!Peers, Route!Poll(got) PROVE relay = "polling"
          BY <4>1 DEF Route!Poll
        <4>2. ASSUME NEW p \in Route!Peers, Route!Tell(p) \/ Route!TellThrows(p) \/ Route!Pipe(p) PROVE FALSE
          BY <1>3, <4>2 DEF Route!Tell, Route!TellThrows, Route!Pipe
        <4> QED BY <4>1, <4>2 DEF Route!Relay, Route!Expire
      <3> QED BY <3>1 DEF RouteInv, CommitInv, Undecided
    <2>2. verdict' \in Route!Verdicts
      BY <1>3, <2>1 DEF RouteInv, CommitInv, Route!TypeOK
    <2>3. verdict' = Route!DirectStart => offered = Route!Peers
      BY <1>1 DEF RouteInv, CommitInv, FailInv, DirectChosen, OffersKnown, Route!TypeOK
    <2>4. /\ Route!verdictBar = "open" /\ Route!verdictBar' \in {"direct", "relay", "nothing"}
          /\ Route!verdictBar' = "direct" => verdict' = Route!DirectStart
      BY <2>1, <2>2, BarMeans, BarMeansNext, RouteFrameKinds
    <2>5. Route!Abstract!Decide(Route!verdictBar')
      BY <1>1, <2>3, <2>4 DEF Route!Abstract!Decide
    <2> QED BY <2>4, <2>5 DEF Route!Abstract!Next
  <1> QED BY <1>2, <1>3

\* Every step is one of the abstract commitment, or leaves it alone.
LEMMA RouteNextImplements == RouteInv /\ RouteInv' /\ [Route!Next]_(Route!vars) => [Route!Abstract!Next]_(Route!Abstract!vars)
  <1> SUFFICES ASSUME RouteInv, RouteInv', [Route!Next]_(Route!vars) PROVE [Route!Abstract!Next]_(Route!Abstract!vars)
    OBVIOUS
  <1>1. CASE UNCHANGED Route!vars
    BY <1>1 DEF Route!vars, Route!peerVars, Route!relayVars, Route!Abstract!vars,
                Route!verdictBar, Route!pathBar, Route!Final
  <1> QED BY <1>1, PeerImplements, RelayImplements DEF Route!Next, Route!Finished

-----------------------------------------------------------------------------
\* The invariant holds in every state.
LEMMA RouteAlways == Route!Spec => []RouteInv
  BY RouteInitInv, RouteNextInv, PTL DEF Route!Spec

\* select_transfer_route and wait_route_decision: every variable of the two peers and
\* of the relay, and every frame on the streams between them, has its type; and the relay
\* leaves its poll with a verdict and only then, and says no other: no peer can read two.
THEOREM RouteTypeCorrect == Route!Spec => [](Route!TypeOK /\ Undecided /\ OneVerdict)
  <1>1. RouteInv => Route!TypeOK /\ Undecided /\ OneVerdict
    BY DEF RouteInv, CommitInv
  <1> QED BY <1>1, RouteAlways, PTL

\* An uncancelled peer fails only on the relay's "done", which answers a peer whose
\* partner never said anything.
THEOREM RouteFailsAloneOnly == Route!Spec => []Route!FailsOnlyUnpaired
  <1>1. RouteInv => Route!FailsOnlyUnpaired
    BY DEF RouteInv, FailInv
  <1> QED BY <1>1, RouteAlways, PTL

\* The two streams, the relay's polls and its early commit implement one decision that
\* both peers follow.
THEOREM RouteImplements == Route!Spec => Route!ImplementsCommit
  BY CommitInit, RouteNextImplements, RouteAlways, PTL DEF Route!Spec, Route!ImplementsCommit,
                                                           Route!Abstract!Spec

-----------------------------------------------------------------------------
(* Where the peers are.                                                    *)

Early    == {"asking", "awaiting", "dialing", "serving"}
PcValues == Early \cup {"routing", "securing", "await_point", "await_mac", "secured", "failed"}
Status   == {"ready", "not_ready"}
WireFrames == Lan!Frames \cup Status
Conns    == {"lan", "stale", "aux"}

SessionTypes ==
    /\ pc \in [Roles -> PcValues]
    /\ chan \in [Roles -> Lan!Channels]
    /\ wire \in [Lan!Channels -> [Roles -> Seq(WireFrames)]]
    /\ shut \subseteq Lan!Channels
    /\ listener \in Seq(Conns)
    /\ ident \in [Roles -> Route!Peers \cup {"none"}]
    /\ mux \in [Roles -> {"off", "gathering", "reported", "mux", "single"}]
    /\ conns \in [Roles -> Counts] /\ aux \in [Roles -> Nat]
    /\ ready \in [Roles -> BOOLEAN]
    /\ late \subseteq Roles

\* Until both peers have a route nothing of the session exists.
NotBefore ==
    /\ Routing => /\ RouteInv
                  /\ wire = [ch \in Lan!Channels |-> [r \in Roles |-> << >>]]
                  /\ mux = [r \in Roles |-> "off"] /\ shut = {"stale"}
                  /\ chan = [r \in Roles |-> "relay"]
    /\ \A r \in Roles : pc[r] = "routing" <=> Routing

\* Past(r): r has sent its point, or has failed.
Past(r)  == pc[r] \in {"await_point", "await_mac", "secured", "failed"}
Inbox(r) == wire[chan[r]][r]

\* Only the receiver asks and only the sender serves, both on the relay when the
\* other is not on a direct connection; and the sender's listener holds no auxiliary
\* connection while it serves.
Parts ==
    /\ pc["sender"] \notin {"asking", "awaiting", "dialing"} /\ pc["receiver"] # "serving"
    /\ chan["receiver"] # "stale"
    /\ \A r \in Roles : pc[r] \in Early => chan[r] = "relay" /\ chan[Lan!Other(r)] # "direct"
    /\ "aux" \in Range(listener) => Past("sender")

\* A channel has lost an end only if a peer failed or is on another one; the LAN
\* connection only if one failed.
ShutMeans ==
    /\ \A ch \in shut : \E r \in Roles : pc[r] = "failed" \/ chan[r] # ch
    /\ "lan" \in shut => \E r \in Roles : pc[r] = "failed"

\* A frame of the handshake comes from a peer that is on that channel and has got
\* so far, a confirmation answers a point sent there, and a status comes from a peer
\* that has reported it.
Told(o) == IF ready[o] THEN "ready" ELSE "not_ready"
Sent(ch, r) ==
    LET o == Lan!Other(r)
    IN  \A f \in Range(wire[ch][r]) :
           /\ f = "point" => chan[o] = ch /\ Past(o)
           /\ f = "mac" => /\ chan[o] = ch /\ pc[o] \in {"await_mac", "secured", "failed"}
                          /\ chan[r] = ch /\ Past(r)
           /\ f \in Status => /\ ch = "direct" /\ chan[o] = "direct" /\ f = Told(o)
                              /\ mux[o] \in {"reported", "mux", "single"}
Senders == \A ch \in Lan!Channels, r \in Roles : Sent(ch, r)

\* What follows a point on its stream when the peer that sent it is at `at`: a
\* confirmation once it has sent one, and then only a status.
AfterPoint(w, at) ==
    \A i \in DOMAIN w : w[i] = "point" =>
        /\ at = "await_point" => i = Len(w)
        /\ at \in {"await_mac", "secured"} => i # Len(w)
        /\ i # Len(w) => w[i + 1] = "mac"
        /\ \A j \in DOMAIN w : j > i + 1 => w[j] \in Status
Ordered == \A ch \in Lan!Channels, r \in Roles :
              pc[r] \notin {"await_mac", "secured", "failed"} => AfterPoint(wire[ch][r], pc[Lan!Other(r)])

\* A peer that has read the other's point finds a confirmation next, if anything,
\* and a secured one finds nothing but the status.
Hears(r) ==
    LET o == Lan!Other(r)
    IN  /\ pc[r] = "await_mac" =>
              /\ pc[o] = "await_point" => Inbox(r) = << >>
              /\ pc[o] \in {"await_mac", "secured"} => Inbox(r) # << >>
              /\ Inbox(r) # << >> => Head(Inbox(r)) = "mac" /\ Range(Tail(Inbox(r))) \subseteq Status
        /\ pc[r] = "secured" => Range(Inbox(r)) \subseteq Status
Awaited == \A r \in Roles : Hears(r)

\* A peer that has read a frame of the other shares its channel.
Paired ==
    \A r \in Roles :
        LET o == Lan!Other(r)
        IN  /\ pc[r] \in {"await_mac", "secured"} => chan[o] = chan[r] /\ Past(o)
            /\ pc[r] = "secured" => pc[o] # "await_point"

\* A peer that confirmed and is gone was cancelled or died.
NotAlone ==
    \A r \in Roles : LET o == Lan!Other(r) IN
        pc[r] # "failed" /\ pc[o] = "failed" /\ (pc[r] = "secured" \/ "mac" \in Range(Inbox(r)))
            => ident[o] \in broken

ChannelInv ==
    /\ SessionTypes /\ NotBefore /\ Parts /\ ShutMeans /\ Senders /\ Ordered
    /\ Awaited /\ Paired /\ NotAlone /\ SecuredTogether

-----------------------------------------------------------------------------
(* The parallel connections.                                               *)

Reported(r) == mux[r] \in {"reported", "mux", "single"}

\* Where each peer is in the negotiation of the connections, and what it knows of
\* the other.
Joins(r) ==
    LET o == Lan!Other(r)
    IN  /\ mux[r] # "off" => chan[r] = "direct" /\ pc[r] \in {"secured", "failed"}
        /\ mux[r] \in {"gathering", "reported", "mux"} => conns[r] # 1
        /\ aux[r] # 0 => mux[r] # "off" /\ conns[r] # 1
        /\ ready[r] => Reported(r) /\ conns[r] # 1 /\ aux[r] = conns[r] - 1
        /\ mux[r] = "mux" => ready[r] /\ ready[o]
        /\ mux[r] = "single" /\ conns[r] # 1 /\ r \notin late =>
              Reported(o) /\ ~(ready[r] /\ ready[o])
Gathers == conns["sender"] = conns["receiver"] /\ \A r \in Roles : Joins(r)

\* What waits in the sender's listener on a direct route is what the receiver has
\* dialled and the sender not accepted, behind what the direct attempt left.
Leftover == IF listener # << >> /\ Head(listener) = "stale" THEN 1 ELSE 0
Waiting ==
    /\ aux["sender"] <= aux["receiver"]
    /\ chan["receiver"] = "direct" =>
          /\ listener # << >> => Range(Tail(listener)) \subseteq {"aux"} /\ Head(listener) # "lan"
          /\ pc["sender"] # "failed" => Len(listener) = aux["receiver"] - aux["sender"] + Leftover
    /\ pc["sender"] # "failed" /\ aux["sender"] # 0 => Leftover = 0
    /\ pc["sender"] = "failed" /\ aux["sender"] = aux["receiver"] => listener = << >>

MuxInv == Gathers /\ Waiting

-----------------------------------------------------------------------------
(* The session keeps what the negotiation needs.                           *)

\* The negotiation keeps its invariant, and nothing else runs before it is over.
LEMMA NegotiateStep ==
    ASSUME NotBefore, Negotiate
    PROVE  /\ NotBefore'
           /\ [Route!Abstract!Next]_(Route!Abstract!vars)
  <1>1. Routing /\ Routing' /\ RouteInv /\ Route!Next
    BY DEF NotBefore, Negotiate, Routing
  <1>2. RouteInv'
    BY <1>1, RouteNextInv
  <1>3. NotBefore'
    BY <1>1, <1>2 DEF NotBefore, Negotiate, lanVars, muxVars
  <1>4. [Route!Abstract!Next]_(Route!Abstract!vars)
    BY <1>1, <1>2, RouteNextImplements
  <1> QED BY <1>3, <1>4

-----------------------------------------------------------------------------
(* The moves of a peer on its channel.                                     *)

\* A stream of the session, after a frame was put on it or taken from it.
LEMMA FrameSteps ==
    ASSUME NEW w \in Seq(WireFrames)
    PROVE  /\ \A f : Range(Append(w, f)) = Range(w) \cup {f} /\ Append(w, f) # << >>
           /\ \A f \in WireFrames : Append(w, f) \in Seq(WireFrames)
           /\ w # << >> => /\ Head(w) \in Range(w) /\ Range(Tail(w)) \subseteq Range(w)
                          /\ Tail(w) \in Seq(WireFrames)
  <1>1. /\ \A f : Range(Append(w, f)) = Range(w) \cup {f} /\ Append(w, f) # << >>
        /\ w # << >> => Head(w) \in Range(w) /\ Range(Tail(w)) \subseteq Range(w)
    BY StreamSteps
  <1> QED BY <1>1

\* A frame is appended behind the first one.
LEMMA TailOfAppend ==
    ASSUME NEW w \in Seq(WireFrames), NEW f \in WireFrames
    PROVE  /\ Append(w, f) # << >> /\ Range(Append(w, f)) = Range(w) \cup {f}
           /\ w # << >> => /\ Head(Append(w, f)) = Head(w)
                          /\ Range(Tail(Append(w, f))) = Range(Tail(w)) \cup {f}
  <1>1. Append(w, f) # << >> /\ Range(Append(w, f)) = Range(w) \cup {f}
    BY FrameSteps
  <1>2. ASSUME w # << >> PROVE Head(Append(w, f)) = Head(w) /\ Tail(Append(w, f)) = Append(Tail(w), f)
    BY <1>2
  <1>3. ASSUME w # << >> PROVE Range(Append(Tail(w), f)) = Range(Tail(w)) \cup {f}
    <2>1. Tail(w) \in Seq(WireFrames)
      BY <1>3
    <2> QED BY <2>1, FrameSteps
  <1> QED BY <1>1, <1>2, <1>3

\* A listener, after a connection was put into it or accepted.
LEMMA QueueSteps ==
    ASSUME NEW w \in Seq(Conns)
    PROVE  /\ \A f \in Conns : Append(w, f) \in Seq(Conns) /\ Range(Append(w, f)) = Range(w) \cup {f}
           /\ w # << >> => /\ Head(w) \in Range(w) /\ Range(Tail(w)) \subseteq Range(w)
                          /\ Tail(w) \in Seq(Conns) /\ Len(Tail(w)) = Len(w) - 1
  <1>1. /\ \A f : Range(Append(w, f)) = Range(w) \cup {f}
        /\ w # << >> => Head(w) \in Range(w) /\ Range(Tail(w)) \subseteq Range(w)
    BY StreamSteps
  <1> QED BY <1>1

\* The streams, after one of them or the two of a channel were changed.
LEMMA WireAt ==
    ASSUME NEW w \in [Lan!Channels -> [Roles -> Seq(WireFrames)]], NEW ch \in Lan!Channels,
           NEW q \in Roles, NEW s
    PROVE  /\ \A c \in Lan!Channels, x \in Roles :
                 [w EXCEPT ![ch][q] = s][c][x] = IF c = ch /\ x = q THEN s ELSE w[c][x]
           /\ s \in Seq(WireFrames) =>
                 [w EXCEPT ![ch][q] = s] \in [Lan!Channels -> [Roles -> Seq(WireFrames)]]
  OBVIOUS

\* The streams, after both of one channel were changed.
LEMMA WireAtBoth ==
    ASSUME NEW w \in [Lan!Channels -> [Roles -> Seq(WireFrames)]], NEW ch \in Lan!Channels,
           NEW q \in Roles, NEW x \in Roles, q # x, NEW s, NEW t
    PROVE  /\ \A c \in Lan!Channels, y \in Roles :
                 [w EXCEPT ![ch][q] = s, ![ch][x] = t][c][y] =
                    IF c = ch /\ y = q THEN s ELSE IF c = ch /\ y = x THEN t ELSE w[c][y]
           /\ s \in Seq(WireFrames) /\ t \in Seq(WireFrames) =>
                 [w EXCEPT ![ch][q] = s, ![ch][x] = t] \in [Lan!Channels -> [Roles -> Seq(WireFrames)]]
  OBVIOUS

WireType == [Lan!Channels -> [Roles -> Seq(WireFrames)]]
PutOn(w, c, q, f) == [w EXCEPT ![c][q] = Append(@, f)]
TakeOff(w, c, q)  == [w EXCEPT ![c][q] = Tail(@)]

\* A frame is put on a stream.
LEMMA PutAt ==
    ASSUME NEW w \in WireType, NEW c \in Lan!Channels, NEW q \in Roles, NEW f \in WireFrames
    PROVE  /\ PutOn(w, c, q, f) \in WireType
           /\ PutOn(w, c, q, f)[c][q] = Append(w[c][q], f)
           /\ \A ch \in Lan!Channels, x \in Roles : ch # c \/ x # q => PutOn(w, c, q, f)[ch][x] = w[ch][x]
  <1>1. w[c][q] \in Seq(WireFrames)
    BY DEF WireType
  <1>2. /\ Append(w[c][q], f) \in Seq(WireFrames) /\ Append(w[c][q], f) # << >>
        /\ Range(Append(w[c][q], f)) = Range(w[c][q]) \cup {f}
    BY <1>1, FrameSteps
  <1> DEFINE s == Append(w[c][q], f)
  <1>3. PutOn(w, c, q, f) = [w EXCEPT ![c][q] = s]
    BY DEF PutOn
  <1> HIDE DEF s
  <1>4. /\ \A ch \in Lan!Channels, x \in Roles :
              PutOn(w, c, q, f)[ch][x] = IF ch = c /\ x = q THEN s ELSE w[ch][x]
        /\ s \in Seq(WireFrames) => PutOn(w, c, q, f) \in WireType
    BY <1>3 DEF WireType
  <1> QED BY <1>2, <1>4 DEF s

\* A frame is taken from a stream.
LEMMA TakeAt ==
    ASSUME NEW w \in WireType, NEW c \in Lan!Channels, NEW q \in Roles, w[c][q] # << >>
    PROVE  /\ TakeOff(w, c, q) \in WireType
           /\ TakeOff(w, c, q)[c][q] = Tail(w[c][q])
           /\ \A ch \in Lan!Channels, x \in Roles : ch # c \/ x # q => TakeOff(w, c, q)[ch][x] = w[ch][x]
  <1>1. w[c][q] \in Seq(WireFrames)
    BY DEF WireType
  <1>2. Tail(w[c][q]) \in Seq(WireFrames) /\ Range(Tail(w[c][q])) \subseteq Range(w[c][q])
    BY <1>1, FrameSteps
  <1> DEFINE s == Tail(w[c][q])
  <1>3. TakeOff(w, c, q) = [w EXCEPT ![c][q] = s]
    BY DEF TakeOff
  <1> HIDE DEF s
  <1>4. /\ \A ch \in Lan!Channels, x \in Roles :
              TakeOff(w, c, q)[ch][x] = IF ch = c /\ x = q THEN s ELSE w[ch][x]
        /\ s \in Seq(WireFrames) => TakeOff(w, c, q) \in WireType
    BY <1>3 DEF WireType
  <1> QED BY <1>2, <1>4 DEF s

\* What follows a point stays in order.
LEMMA AfterPointSteps ==
    ASSUME NEW w \in Seq(WireFrames), NEW at
    PROVE  /\ AfterPoint(w, at) /\ w # << >> => AfterPoint(Tail(w), at)
           /\ "point" \notin Range(w) => \A f : f # "point" \/ at = "await_point" => AfterPoint(Append(w, f), at)
           /\ AfterPoint(w, "await_point") /\ at \in {"await_mac", "secured"} => AfterPoint(Append(w, "mac"), at)
           /\ AfterPoint(w, "secured") => \A f \in Status : AfterPoint(Append(w, f), "secured")
           /\ AfterPoint(w, at) => AfterPoint(w, "failed")
           /\ AfterPoint(w, "await_mac") => AfterPoint(w, "secured")
           /\ "point" \notin Range(w) => AfterPoint(w, at)
  <1> USE DEF AfterPoint, Range, Status
  <1>1. ASSUME AfterPoint(w, at), w # << >> PROVE AfterPoint(Tail(w), at)
    BY <1>1
  <1>2. ASSUME "point" \notin Range(w), NEW f, f # "point" \/ at = "await_point"
        PROVE  AfterPoint(Append(w, f), at)
    <2>1. w \in Seq(WireFrames \cup {f})
      OBVIOUS
    <2>2. /\ DOMAIN Append(w, f) = 1..(Len(w) + 1) /\ Len(Append(w, f)) = Len(w) + 1 /\ Len(w) \in Nat
          /\ \A i \in 1..Len(w) : Append(w, f)[i] # "point"
          /\ Append(w, f)[Len(w) + 1] = f
      BY <1>2, <2>1
    <2> QED BY <1>2, <2>2
  <1>3. ASSUME AfterPoint(w, "await_point"), at \in {"await_mac", "secured"}
        PROVE  AfterPoint(Append(w, "mac"), at)
    <2>1. "mac" \in WireFrames
      BY DEF WireFrames, Lan!Frames
    <2>2. /\ DOMAIN Append(w, "mac") = 1..(Len(w) + 1) /\ Len(Append(w, "mac")) = Len(w) + 1 /\ Len(w) \in Nat
          /\ \A i \in 1..Len(w) : Append(w, "mac")[i] = w[i] /\ i \in DOMAIN w
          /\ Append(w, "mac")[Len(w) + 1] = "mac"
      BY <2>1
    <2> QED BY <1>3, <2>2
  <1>4. ASSUME AfterPoint(w, "secured"), NEW f \in Status PROVE AfterPoint(Append(w, f), "secured")
    <2>1. f \in WireFrames
      BY DEF WireFrames
    <2>2. /\ DOMAIN Append(w, f) = 1..(Len(w) + 1) /\ Len(Append(w, f)) = Len(w) + 1 /\ Len(w) \in Nat
          /\ \A i \in 1..Len(w) : Append(w, f)[i] = w[i] /\ i \in DOMAIN w
          /\ Append(w, f)[Len(w) + 1] = f
      BY <2>1
    <2> QED BY <1>4, <2>2
  <1>5. AfterPoint(w, at) => AfterPoint(w, "failed")
    OBVIOUS
  <1>6. AfterPoint(w, "await_mac") => AfterPoint(w, "secured")
    OBVIOUS
  <1>7. "point" \notin Range(w) => AfterPoint(w, at)
    OBVIOUS
  <1> HIDE DEF AfterPoint, Range, Status
  <1> QED BY <1>1, <1>2, <1>3, <1>4, <1>5, <1>6, <1>7

\* Before its point: control frames on the relay, another channel, or on to the handshake.
EarlyMove(r) ==
    /\ pc[r] \in Early
    /\ \E s \in {"securing"} \cup (IF r = "sender" THEN {"serving"} ELSE {"awaiting", "dialing"}) :
          pc' = [pc EXCEPT ![r] = s]
    /\ \/ UNCHANGED <<chan, shut>>
       \/ \E ch \in {"lan", "stale"} :
             /\ chan' = [chan EXCEPT ![r] = ch] /\ shut' = shut \cup {"relay"}
             /\ r = "receiver" => ch = "lan"
             /\ pc' = [pc EXCEPT ![r] = "securing"]
    /\ wire' \in [Lan!Channels -> [Roles -> Seq(WireFrames)]]
    /\ \A ch \in Lan!Channels, q \in Roles :
          \/ wire'[ch][q] = wire[ch][q]
          \/ wire[ch][q] # << >> /\ wire'[ch][q] = Tail(wire[ch][q])
          \/ q = Lan!Other(r) /\ \E f \in Lan!Control : wire'[ch][q] = Append(wire[ch][q], f)
    /\ \/ UNCHANGED listener
       \/ r = "sender" /\ listener # << >> /\ listener' = Tail(listener)
       \/ r = "receiver" /\ pc["sender"] # "failed" /\ listener' = Append(listener, "lan")

\* After its confirmation a peer fails by itself only if what it reads is none.
FailsEarly(r) ==
    \/ pc[r] \in Early \cup {"await_point"}
    \/ /\ pc[r] = "await_mac"
       /\ \/ Inbox(r) # << >> /\ Head(Inbox(r)) # "mac"
          \/ Inbox(r) = << >> /\ chan[r] \in shut

\* An exception.
FailMove(r) ==
    /\ Lan!Fail(r) /\ UNCHANGED broken
    /\ \/ wire' = wire
       \/ wire[chan[r]][r] # << >> /\ wire' = [wire EXCEPT ![chan[r]][r] = Tail(@)]
    /\ FailsEarly(r)

\* Its point is read, its confirmation is sent.
ReadsPoint(r) ==
    /\ pc[r] = "await_point" /\ Inbox(r) # << >> /\ Head(Inbox(r)) = "point"
    /\ wire' = [wire EXCEPT ![chan[r]][r] = Tail(@), ![chan[r]][Lan!Other(r)] = Append(@, "mac")]
    /\ pc' = [pc EXCEPT ![r] = "await_mac"]
    /\ UNCHANGED <<chan, shut, listener>>

ReadsMac(r) ==
    /\ pc[r] = "await_mac" /\ Inbox(r) # << >> /\ Head(Inbox(r)) = "mac"
    /\ wire' = [wire EXCEPT ![chan[r]][r] = Tail(@)]
    /\ pc' = [pc EXCEPT ![r] = "secured"]
    /\ UNCHANGED <<chan, shut, listener>>

\* There are two roles.
LEMMA RolesAre ==
    /\ Roles = {"sender", "receiver"} /\ Lan!Peers = Roles
    /\ Lan!Other("sender") = "receiver" /\ Lan!Other("receiver") = "sender"
    /\ \A r \in Roles : Lan!Other(r) \in Roles /\ Lan!Other(r) # r /\ Lan!Other(Lan!Other(r)) = r
    /\ \A r, q \in Roles : q # r <=> q = Lan!Other(r)
  BY DEF Roles, Lan!Peers, Lan!Other

\* Every step of the upgrade is an early move or an exception.
LEMMA UpgradeMoves ==
    ASSUME SessionTypes, Parts, Lan!Upgrade, broken' = broken
    PROVE  \E r \in Roles : EarlyMove(r) \/ FailMove(r)
  <1>1. /\ pc \in [Roles -> PcValues] /\ chan \in [Roles -> Lan!Channels]
        /\ wire \in [Lan!Channels -> [Roles -> Seq(WireFrames)]] /\ listener \in Seq(Conns)
        /\ {"sender", "receiver"} = Roles /\ "relay" \in Lan!Channels
    BY RolesAre DEF SessionTypes, Lan!Channels
  <1>2. \A r \in Roles : pc[r] \in Early => chan[r] = "relay"
    BY DEF Parts
  <1> USE <1>1, <1>2, RolesAre DEF EarlyMove, Early, Lan!Goto, Lan!Inbox, Lan!Put, Lan!Get, Lan!Control
  <1>3. ASSUME Lan!Ask PROVE EarlyMove("receiver")
    <2>1. wire' = [wire EXCEPT !["relay"]["sender"] = Append(wire["relay"]["sender"], "ips_request")]
      BY <1>3 DEF Lan!Ask
    <2>2. Append(wire["relay"]["sender"], "ips_request") \in Seq(WireFrames)
      BY DEF WireFrames, Lan!Frames
    <2>3. /\ wire' \in [Lan!Channels -> [Roles -> Seq(WireFrames)]]
          /\ \A ch \in Lan!Channels, q \in Roles :
                \/ wire'[ch][q] = wire[ch][q]
                \/ q = "sender" /\ wire'[ch][q] = Append(wire[ch][q], "ips_request")
      BY <2>1, <2>2, WireAt
    <2>4. pc["receiver"] = "asking" /\ pc' = [pc EXCEPT !["receiver"] = "awaiting"] /\ UNCHANGED <<chan, shut, listener>>
      BY <1>3 DEF Lan!Ask
    <2> QED BY <2>3, <2>4
  <1>4. ASSUME Lan!ReadAnswer PROVE EarlyMove("receiver") \/ FailMove("receiver")
    <2>1. CASE Lan!Fail("receiver")
      BY <1>4, <2>1 DEF Lan!ReadAnswer, FailMove, FailsEarly
    <2>2. CASE ~Lan!Fail("receiver")
      BY <1>4, <2>2 DEF Lan!ReadAnswer
    <2> QED BY <2>1, <2>2
  <1>5. Lan!NoAnswer => EarlyMove("receiver")
    BY DEF Lan!NoAnswer
  <1>6. Lan!Dial => EarlyMove("receiver")
    BY DEF Lan!Dial, Lan!SwitchTo
  <1>7. Lan!DialFails => EarlyMove("receiver")
    BY DEF Lan!DialFails
  <1>8. Lan!Serve => EarlyMove("sender")
    <2>1. Lan!Serve => Head(listener) \in {"lan", "stale"}
      BY DEF Lan!Serve, Parts, Past, Conns, Range
    <2> QED BY <2>1 DEF Lan!Serve, Lan!SwitchTo
  <1>9. ASSUME Lan!ServeFrame PROVE EarlyMove("sender") \/ FailMove("sender")
    <2>0. /\ pc["sender"] = "serving" /\ chan["sender"] = "relay" /\ wire["relay"]["sender"] # << >>
      BY <1>9 DEF Lan!ServeFrame
    <2>1. CASE Lan!Fail("sender")
      BY <1>9, <2>0, <2>1 DEF Lan!ServeFrame, FailMove, FailsEarly
    <2>2. CASE ~Lan!Fail("sender")
      <3>1. /\ UNCHANGED <<pc, chan, shut, listener>>
            /\ \/ wire' = [wire EXCEPT !["relay"]["sender"] = Tail(@),
                                       !["relay"]["receiver"] = Append(@, "ips_response")]
               \/ wire' = [wire EXCEPT !["relay"]["sender"] = Tail(@)]
        BY <1>9, <2>0, <2>2 DEF Lan!ServeFrame
      <3>2. pc' = [pc EXCEPT !["sender"] = "serving"]
        BY <2>0, <3>1
      <3>3. \A ch \in Lan!Channels, q \in Roles :
              \/ wire'[ch][q] = wire[ch][q]
              \/ wire[ch][q] # << >> /\ wire'[ch][q] = Tail(wire[ch][q])
              \/ q = "receiver" /\ wire'[ch][q] = Append(wire[ch][q], "ips_response")
        <4>1. CASE wire' = [wire EXCEPT !["relay"]["sender"] = Tail(wire["relay"]["sender"])]
          BY <2>0, <4>1, WireAt
        <4>2. CASE wire' = [wire EXCEPT !["relay"]["sender"] = Tail(wire["relay"]["sender"]),
                                !["relay"]["receiver"] = Append(wire["relay"]["receiver"], "ips_response")]
          BY <2>0, <4>2, WireAtBoth
        <4> QED BY <3>1, <4>1, <4>2
      <3> QED BY <2>0, <3>1, <3>2, <3>3
    <2> QED BY <2>1, <2>2
  <1>10. Lan!ServeEnds => EarlyMove("sender")
    BY DEF Lan!ServeEnds
  <1> HIDE DEF EarlyMove, FailMove, FailsEarly
  <1> QED BY <1>3, <1>4, <1>5, <1>6, <1>7, <1>8, <1>9, <1>10 DEF Lan!Upgrade

\* Every step of the handshake.
LEMMA SecureMoves ==
    ASSUME SessionTypes, NEW r \in Roles, Lan!Secure(r), broken' = broken
    PROVE  Lan!SendPoint(r) \/ ReadsPoint(r) \/ ReadsMac(r) \/ FailMove(r)
  <1> USE DEF Lan!Goto, Lan!Inbox, Lan!Get, Lan!AtEnd, Inbox, Early
  <1>1. ASSUME Lan!ReadPoint(r) PROVE ReadsPoint(r) \/ FailMove(r)
    BY <1>1 DEF Lan!ReadPoint, ReadsPoint, FailMove, FailsEarly
  <1>2. ASSUME Lan!ReadMac(r) PROVE ReadsMac(r) \/ FailMove(r)
    BY <1>2 DEF Lan!ReadMac, ReadsMac, FailMove, FailsEarly
  <1> HIDE DEF ReadsPoint, ReadsMac, FailMove
  <1> QED BY <1>1, <1>2 DEF Lan!Secure

-----------------------------------------------------------------------------
(* Each move keeps what the peers rely on.                                 *)

\* The frames of the handshake are neither those of the upgrade nor a status.
LEMMA FrameKinds ==
    /\ "point" \notin Lan!Control /\ "mac" \notin Lan!Control
    /\ "point" \notin Status /\ "mac" \notin Status
    /\ \A f \in Lan!Control : f \notin Status
  BY DEF Lan!Control, Lan!Routing, Status

\* A peer that moves on in the upgrade, or enters the handshake, keeps the invariant.
LEMMA EarlyKeeps ==
    ASSUME ChannelInv, ~Routing, UNCHANGED <<ident, conns, muxVars, broken>>,
           NEW r \in Roles, EarlyMove(r)
    PROVE  ChannelInv'
  <1> DEFINE o == Lan!Other(r)
  <1>0. o = Lan!Other(r) /\ o \in Roles /\ o # r /\ Lan!Other(o) = r /\ (\A q \in Roles : q = r \/ q = o)
    BY RolesAre
  <1> HIDE DEF o
  <1>1. /\ pc[r] \in Early /\ pc' \in [Roles -> PcValues] /\ pc'[o] = pc[o]
        /\ pc'[r] \in {"awaiting", "dialing", "serving", "securing"}
        /\ r = "sender" => pc'[r] \in {"serving", "securing"}
        /\ r = "receiver" => pc'[r] # "serving"
    BY <1>0 DEF ChannelInv, SessionTypes, EarlyMove, PcValues, Early
  <1>2. /\ chan' \in [Roles -> Lan!Channels] /\ chan'[o] = chan[o] /\ chan[r] = "relay" /\ chan[o] # "direct"
        /\ \/ chan'[r] = chan[r] /\ shut' = shut
           \/ /\ chan'[r] \in {"lan", "stale"} /\ shut' = shut \cup {"relay"} /\ pc'[r] = "securing"
              /\ r = "receiver" => chan'[r] = "lan"
    <2>1. chan \in [Roles -> Lan!Channels] /\ pc \in [Roles -> PcValues]
      BY DEF ChannelInv, SessionTypes
    <2>2. {"lan", "stale", "relay"} \subseteq Lan!Channels
      BY DEF Lan!Channels
    <2>3. chan[r] = "relay" /\ chan[o] # "direct"
      BY <1>0, <1>1 DEF ChannelInv, Parts
    <2>5. ASSUME NEW ch \in {"lan", "stale"}, chan' = [chan EXCEPT ![r] = ch], shut' = shut \cup {"relay"},
                 r = "receiver" => ch = "lan", pc' = [pc EXCEPT ![r] = "securing"]
          PROVE  /\ chan' \in [Roles -> Lan!Channels] /\ chan'[o] = chan[o]
                 /\ chan'[r] \in {"lan", "stale"} /\ pc'[r] = "securing" /\ (r = "receiver" => chan'[r] = "lan")
      BY <1>0, <2>1, <2>2, <2>3, <2>5
    <2>6. \/ UNCHANGED <<chan, shut>>
          \/ \E ch \in {"lan", "stale"} :
                /\ chan' = [chan EXCEPT ![r] = ch] /\ shut' = shut \cup {"relay"}
                /\ r = "receiver" => ch = "lan"
                /\ pc' = [pc EXCEPT ![r] = "securing"]
      BY DEF EarlyMove
    <2> QED BY <1>0, <2>1, <2>3, <2>5, <2>6
  <1>3. \A ch \in Lan!Channels, q \in Roles :
          /\ wire[ch][q] \in Seq(WireFrames)
          /\ Range(wire'[ch][q]) \subseteq Range(wire[ch][q]) \cup Lan!Control
          /\ q = r => wire'[ch][q] = wire[ch][q] \/ (wire[ch][q] # << >> /\ wire'[ch][q] = Tail(wire[ch][q]))
    <2> TAKE ch \in Lan!Channels, q \in Roles
    <2>1. wire[ch][q] \in Seq(WireFrames)
      BY DEF ChannelInv, SessionTypes
    <2>2. \/ wire'[ch][q] = wire[ch][q]
          \/ wire[ch][q] # << >> /\ wire'[ch][q] = Tail(wire[ch][q])
          \/ q = o /\ \E f \in Lan!Control : wire'[ch][q] = Append(wire[ch][q], f)
      BY <1>0 DEF EarlyMove
    <2>3. /\ \A f : Range(Append(wire[ch][q], f)) = Range(wire[ch][q]) \cup {f}
          /\ wire[ch][q] # << >> => Range(Tail(wire[ch][q])) \subseteq Range(wire[ch][q])
      BY <2>1, FrameSteps
    <2>4. Range(wire'[ch][q]) \subseteq Range(wire[ch][q]) \cup Lan!Control
      BY <2>2, <2>3
    <2> QED BY <1>0, <2>1, <2>2, <2>4
  <1>4. listener' \in Seq(Conns) /\ ("aux" \in Range(listener') => "aux" \in Range(listener))
    <2>1. listener \in Seq(Conns) /\ "lan" \in Conns
      BY DEF ChannelInv, SessionTypes, Conns
    <2>2. /\ listener # << >> => Tail(listener) \in Seq(Conns) /\ Range(Tail(listener)) \subseteq Range(listener)
          /\ Append(listener, "lan") \in Seq(Conns) /\ Range(Append(listener, "lan")) = Range(listener) \cup {"lan"}
      BY <2>1, QueueSteps
    <2> QED BY <2>1, <2>2 DEF EarlyMove
  <1>5. \A ch \in Lan!Channels :
          /\ "point" \notin Range(wire[ch][o]) /\ "mac" \notin Range(wire[ch][r]) /\ "mac" \notin Range(wire[ch][o])
          /\ Range(wire[ch][o]) \cap Status = {}
    BY <1>0, <1>1, <1>2 DEF ChannelInv, Senders, Sent, Past, Early
  <1>6. /\ pc[o] \notin {"await_mac", "secured"}
    BY <1>0, <1>1 DEF ChannelInv, Paired, Past, Early
  <1>7. SessionTypes'
    <2>1. shut' \subseteq Lan!Channels /\ wire' \in [Lan!Channels -> [Roles -> Seq(WireFrames)]]
      BY <1>2 DEF ChannelInv, SessionTypes, EarlyMove, Lan!Channels
    <2> QED BY <1>1, <1>2, <1>4, <2>1 DEF ChannelInv, SessionTypes, muxVars
  <1>8. NotBefore'
    BY <1>0, <1>1 DEF ChannelInv, NotBefore, Routing, Early
  <1>9. Parts'
    BY <1>0, <1>1, <1>2, <1>4, RolesAre DEF ChannelInv, Parts, Past, Early
  <1>10. ShutMeans'
    <2>1. \A q \in Roles : pc[q] = "failed" => pc'[q] = "failed"
      BY <1>0, <1>1 DEF Early
    <2>2. chan'["receiver"] # "stale" /\ "receiver" \in Roles
      BY <1>9, RolesAre DEF Parts
    <2>3. ASSUME NEW ch \in shut' PROVE \E q \in Roles : pc'[q] = "failed" \/ chan'[q] # ch
      BY <1>0, <1>2, <2>1, <2>2, <2>3 DEF ChannelInv, ShutMeans
    <2>4. "lan" \in shut' => \E q \in Roles : pc'[q] = "failed"
      BY <1>2, <2>1 DEF ChannelInv, ShutMeans
    <2> QED BY <2>3, <2>4 DEF ShutMeans
  <1>11. Senders'
    <2>1. ASSUME NEW ch \in Lan!Channels PROVE Sent(ch, r)'
      <3>1. /\ Range(wire'[ch][r]) \subseteq Range(wire[ch][r])
        BY <1>0, <1>3, FrameSteps
      <3>2. Sent(ch, r) /\ "mac" \notin Range(wire[ch][r])
        BY <1>5 DEF ChannelInv, Senders
      <3> QED BY <1>0, <1>1, <1>2, <3>1, <3>2 DEF Sent, Told, Past, muxVars
    <2>2. ASSUME NEW ch \in Lan!Channels PROVE Sent(ch, o)'
      <3>1. Range(wire'[ch][o]) \cap {"point", "mac"} = {} /\ Range(wire'[ch][o]) \cap Status = {}
        BY <1>0, <1>3, <1>5, FrameKinds
      <3> QED BY <3>1 DEF Sent
    <2> QED BY <1>0, <2>1, <2>2 DEF Senders
  <1>12. Ordered'
    <2>1. ASSUME NEW ch \in Lan!Channels PROVE AfterPoint(wire'[ch][r], pc'[o])
      <3>1. AfterPoint(wire[ch][r], pc[o])
        BY <1>0, <1>1 DEF ChannelInv, Ordered, Early
      <3>2. wire[ch][r] \in Seq(WireFrames) /\ (wire[ch][r] # << >> => AfterPoint(Tail(wire[ch][r]), pc[o]))
        BY <1>0, <1>3, <3>1, AfterPointSteps
      <3> QED BY <1>0, <1>1, <1>3, <3>1, <3>2
    <2>2. ASSUME NEW ch \in Lan!Channels PROVE AfterPoint(wire'[ch][o], pc'[r])
      <3>1. wire'[ch][o] \in Seq(WireFrames)
        BY <1>0 DEF EarlyMove
      <3>2. "point" \notin Range(wire'[ch][o])
        BY <1>0, <1>3, <1>5, FrameKinds
      <3> QED BY <3>1, <3>2, AfterPointSteps
    <2> QED BY <1>0, <2>1, <2>2 DEF Ordered
  <1>13. Awaited'
    BY <1>0, <1>1, <1>6 DEF Awaited, Hears
  <1>14. Paired'
    BY <1>0, <1>1, <1>6 DEF Paired
  <1>15. NotAlone'
    <2>1. "mac" \notin Range(wire'[chan'[r]][r])
      BY <1>0, <1>2, <1>3, <1>5, FrameKinds
    <2> QED BY <1>0, <1>1, <2>1 DEF NotAlone, Inbox
  <1>16. SecuredTogether'
    BY <1>0, <1>1, <1>6 DEF SecuredTogether
  <1> QED BY <1>7, <1>8, <1>9, <1>10, <1>11, <1>12, <1>13, <1>14, <1>15, <1>16 DEF ChannelInv

\* An exception, and also a peer that is cancelled or dies.
LEMMA FailKeeps ==
    ASSUME ChannelInv, ~Routing, UNCHANGED <<ident, conns, muxVars>>, NEW r \in Roles,
           Lan!Fail(r), broken \subseteq broken',
           \/ wire' = wire
           \/ wire[chan[r]][r] # << >> /\ wire' = [wire EXCEPT ![chan[r]][r] = Tail(@)],
           ident[r] \in broken' \/ FailsEarly(r)
    PROVE  ChannelInv'
  <1> DEFINE o == Lan!Other(r)
  <1>0. o = Lan!Other(r) /\ o \in Roles /\ o # r /\ Lan!Other(o) = r /\ (\A q \in Roles : q = r \/ q = o)
    BY RolesAre
  <1> HIDE DEF o
  <1>1. /\ pc' \in [Roles -> PcValues] /\ pc'[o] = pc[o] /\ pc'[r] = "failed" /\ chan' = chan
        /\ shut' = shut \cup {chan[r]} \cup (IF r = "sender" THEN {"lan"} ELSE {})
        /\ listener' = IF r = "sender" THEN << >> ELSE listener
    BY <1>0 DEF ChannelInv, SessionTypes, Lan!Fail, Lan!Goto, PcValues
  <1>2. /\ chan \in [Roles -> Lan!Channels] /\ listener' \in Seq(Conns)
        /\ ("aux" \in Range(listener') => "aux" \in Range(listener))
    BY <1>1 DEF ChannelInv, SessionTypes, Range
  <1>3. /\ wire' \in [Lan!Channels -> [Roles -> Seq(WireFrames)]]
        /\ \A ch \in Lan!Channels, q \in Roles :
             /\ Range(wire'[ch][q]) \subseteq Range(wire[ch][q])
             /\ q = o => wire'[ch][q] = wire[ch][q]
    <2>1. wire \in WireType /\ chan[r] \in Lan!Channels
      BY <1>2 DEF ChannelInv, SessionTypes, WireType
    <2>2. wire' = wire \/ (wire[chan[r]][r] # << >> /\ wire' = TakeOff(wire, chan[r], r))
      BY DEF TakeOff
    <2>3. wire[chan[r]][r] # << >> =>
             /\ TakeOff(wire, chan[r], r) \in WireType
             /\ TakeOff(wire, chan[r], r)[chan[r]][r] = Tail(wire[chan[r]][r])
             /\ \A ch \in Lan!Channels, x \in Roles :
                   ch # chan[r] \/ x # r => TakeOff(wire, chan[r], r)[ch][x] = wire[ch][x]
      BY <2>1, TakeAt
    <2>4. CASE wire' = wire
      BY <2>1, <2>4 DEF WireType
    <2>5. CASE wire[chan[r]][r] # << >> /\ wire' = TakeOff(wire, chan[r], r)
      <3>0. Range(wire'[chan[r]][r]) \subseteq Range(wire[chan[r]][r])
        <4>1. wire[chan[r]][r] \in Seq(WireFrames)
          BY <2>1 DEF WireType
        <4> QED BY <2>3, <2>5, <4>1, FrameSteps
      <3>1. \A ch \in Lan!Channels, q \in Roles : Range(wire'[ch][q]) \subseteq Range(wire[ch][q])
        BY <2>3, <2>5, <3>0
      <3> QED BY <1>0, <2>3, <2>5, <3>1 DEF WireType
    <2> QED BY <2>2, <2>4, <2>5
  <1>4. SessionTypes'
    BY <1>1, <1>2, <1>3, RolesAre DEF ChannelInv, SessionTypes, muxVars, Lan!Channels
  <1>5. NotBefore'
    BY <1>0, <1>1 DEF ChannelInv, NotBefore, Routing
  <1>6. Parts'
    BY <1>0, <1>1, <1>2, RolesAre DEF ChannelInv, Parts, Past, Early
  <1>7. ShutMeans'
    BY <1>0, <1>1 DEF ChannelInv, ShutMeans
  <1>8. Senders'
    <2>0. mux' = mux /\ ready' = ready
      BY DEF muxVars
    <2>1. ASSUME NEW ch \in Lan!Channels PROVE Sent(ch, r)'
      <3>1. Sent(ch, r) /\ Range(wire'[ch][r]) \subseteq Range(wire[ch][r])
        BY <1>3 DEF ChannelInv, Senders
      <3> QED BY <1>0, <1>1, <2>0, <3>1 DEF Sent, Told, Past
    <2>2. ASSUME NEW ch \in Lan!Channels PROVE Sent(ch, o)'
      <3>1. Sent(ch, o) /\ wire'[ch][o] = wire[ch][o]
        BY <1>0, <1>3 DEF ChannelInv, Senders
      <3> QED BY <1>0, <1>1, <2>0, <3>1 DEF Sent, Told, Past
    <2> QED BY <1>0, <2>1, <2>2 DEF Senders
  <1>9. Ordered'
    <2>1. ASSUME NEW ch \in Lan!Channels, pc[o] \notin {"await_mac", "secured", "failed"}
          PROVE  AfterPoint(wire[ch][o], "failed")
      <3>1. AfterPoint(wire[ch][o], pc[r]) /\ wire[ch][o] \in Seq(WireFrames)
        BY <1>0, <2>1 DEF ChannelInv, Ordered, SessionTypes
      <3> QED BY <3>1, AfterPointSteps
    <2>2. ASSUME NEW ch \in Lan!Channels, NEW q \in Roles, pc'[q] \notin {"await_mac", "secured", "failed"}
          PROVE  AfterPoint(wire'[ch][q], pc'[Lan!Other(q)])
      <3>1. q = o
        BY <1>0, <1>1, <2>2
      <3> QED BY <1>0, <1>1, <1>3, <2>1, <2>2, <3>1
    <2> QED BY <2>2 DEF Ordered
  <1>10. Awaited'
    <2>1. Hears(r)'
      BY <1>1 DEF Hears
    <2>2. Hears(o)'
      <3>1. Hears(o) /\ Inbox(o)' = Inbox(o)
        BY <1>0, <1>1, <1>2, <1>3 DEF ChannelInv, Awaited, Inbox
      <3> QED BY <1>0, <1>1, <3>1 DEF Hears
    <2> QED BY <1>0, <2>1, <2>2 DEF Awaited
  <1>11. Paired'
    BY <1>0, <1>1 DEF ChannelInv, Paired, Past
  <1>12. ASSUME pc[o] # "failed", pc[o] = "secured" \/ "mac" \in Range(Inbox(o)) PROVE ident[r] \in broken'
    <2>1. CASE pc[o] = "secured"
      <3>1. pc[r] \in {"await_mac", "secured", "failed"} /\ (pc[r] = "await_mac" => chan[o] = chan[r])
        BY <1>0, <2>1 DEF ChannelInv, Paired, Past
      <3> QED BY <1>0, <1>12, <2>1, <3>1 DEF FailsEarly, Early, ChannelInv, Awaited, Hears, ShutMeans
    <2>2. CASE "mac" \in Range(Inbox(o))
      <3>0. Sent(chan[o], o) /\ "mac" \in Range(wire[chan[o]][o])
        BY <1>0, <1>2, <2>2 DEF ChannelInv, Senders, Inbox
      <3>1. pc[r] \in {"await_mac", "secured", "failed"} /\ chan[o] = chan[r]
        BY <1>0, <3>0 DEF Sent
      <3> QED BY <1>0, <1>12, <2>2, <3>1 DEF FailsEarly, Early, ChannelInv, Awaited, Hears, ShutMeans
    <2> QED BY <1>12, <2>1, <2>2
  <1>13. NotAlone'
    BY <1>0, <1>1, <1>2, <1>3, <1>12 DEF NotAlone, Inbox
  <1>14. SecuredTogether'
    BY <1>0, <1>1, <1>12 DEF ChannelInv, Paired, SecuredTogether
  <1> QED BY <1>4, <1>5, <1>6, <1>7, <1>8, <1>9, <1>10, <1>11, <1>13, <1>14 DEF ChannelInv

\* The point is sent.
LEMMA SendKeeps ==
    ASSUME ChannelInv, ~Routing, UNCHANGED <<ident, conns, muxVars, broken>>,
           NEW r \in Roles, Lan!SendPoint(r)
    PROVE  ChannelInv'
  <1> DEFINE o == Lan!Other(r)
  <1>0. o = Lan!Other(r) /\ o \in Roles /\ o # r /\ Lan!Other(o) = r /\ (\A q \in Roles : q = r \/ q = o)
    BY RolesAre
  <1> HIDE DEF o
  <1>1. /\ pc' \in [Roles -> PcValues] /\ pc'[o] = pc[o] /\ pc[r] = "securing" /\ pc'[r] = "await_point"
        /\ chan' = chan /\ shut' = shut /\ listener' = listener
    BY <1>0 DEF ChannelInv, SessionTypes, Lan!SendPoint, Lan!Goto, PcValues
  <1>2. wire \in WireType /\ chan[r] \in Lan!Channels /\ "point" \in WireFrames
    BY DEF ChannelInv, SessionTypes, WireType, WireFrames, Lan!Frames
  <1>20. wire' = PutOn(wire, chan[r], o, "point")
    BY <1>0 DEF Lan!SendPoint, Lan!Put, PutOn
  <1>21. /\ wire' \in WireType
         /\ wire'[chan[r]][o] = Append(wire[chan[r]][o], "point")
         /\ \A ch \in Lan!Channels, x \in Roles : ch # chan[r] \/ x # o => wire'[ch][x] = wire[ch][x]
    <2>0. o \in Roles
      BY <1>0
    <2>1. /\ PutOn(wire, chan[r], o, "point") \in WireType
          /\ PutOn(wire, chan[r], o, "point")[chan[r]][o] = Append(wire[chan[r]][o], "point")
      BY <1>2, <2>0, PutAt
    <2>2. ASSUME NEW ch \in Lan!Channels, NEW x \in Roles, ch # chan[r] \/ x # o
          PROVE  PutOn(wire, chan[r], o, "point")[ch][x] = wire[ch][x]
      BY <1>2, <2>0, <2>2, PutAt
    <2> QED BY <1>20, <2>1, <2>2
  <1>22. Range(wire'[chan[r]][o]) = Range(wire[chan[r]][o]) \cup {"point"}
    <2>1. wire[chan[r]][o] \in Seq(WireFrames)
      BY <1>0, <1>2 DEF WireType
    <2> QED BY <1>21, <2>1, FrameSteps
  <1>3. SessionTypes' /\ NotBefore' /\ Parts' /\ ShutMeans'
    <2>1. SessionTypes'
      BY <1>1, <1>21 DEF ChannelInv, SessionTypes, muxVars, WireType
    <2>2. NotBefore'
      BY <1>0, <1>1 DEF ChannelInv, NotBefore, Routing
    <2>3. Parts'
      BY <1>0, <1>1, RolesAre DEF ChannelInv, Parts, Past, Early
    <2>4. ShutMeans'
      BY <1>0, <1>1 DEF ChannelInv, ShutMeans
    <2> QED BY <2>1, <2>2, <2>3, <2>4
  <1>4. Senders'
    <2>1. ASSUME NEW ch \in Lan!Channels PROVE Sent(ch, r)'
      <3>1. Sent(ch, r) /\ wire'[ch][r] = wire[ch][r]
        BY <1>0, <1>21 DEF ChannelInv, Senders
      <3> QED BY <1>0, <1>1, <3>1 DEF Sent, Told, Past, muxVars
    <2>2. ASSUME NEW ch \in Lan!Channels PROVE Sent(ch, o)'
      <3>1. Sent(ch, o)
        BY <1>0 DEF ChannelInv, Senders
      <3>2. /\ Range(wire'[ch][o]) \subseteq Range(wire[ch][o]) \cup {"point"}
            /\ "point" \in Range(wire'[ch][o]) => chan[r] = ch
        <4>1. CASE ch = chan[r]
          BY <1>22, <4>1, FrameKinds
        <4>2. CASE ch # chan[r]
          BY <1>0, <1>1, <1>21, <3>1, <4>2 DEF Sent, Past
        <4> QED BY <4>1, <4>2
      <3> QED BY <1>0, <1>1, <3>1, <3>2, FrameKinds DEF Sent, Told, Past, muxVars
    <2> QED BY <1>0, <2>1, <2>2 DEF Senders
  <1>5. Ordered'
    <2>1. ASSUME NEW ch \in Lan!Channels PROVE AfterPoint(wire'[ch][o], "await_point")
      <3>1. "point" \notin Range(wire[ch][o])
        BY <1>0, <1>1 DEF ChannelInv, Senders, Sent, Past
      <3>2. wire[ch][o] \in Seq(WireFrames) /\ "point" \in WireFrames
        BY <1>0, <1>2 DEF WireType
      <3>3. AfterPoint(wire[ch][o], "await_point") /\ AfterPoint(Append(wire[ch][o], "point"), "await_point")
        BY <3>1, <3>2, AfterPointSteps
      <3> QED BY <1>0, <1>21, <3>3
    <2>2. ASSUME NEW ch \in Lan!Channels PROVE AfterPoint(wire'[ch][r], pc[o])
      BY <1>0, <1>1, <1>21 DEF ChannelInv, Ordered
    <2> QED BY <1>0, <1>1, <2>1, <2>2 DEF Ordered
  <1>6. pc[o] \notin {"await_mac", "secured"}
    BY <1>0, <1>1 DEF ChannelInv, Paired, Past
  <1>7. Awaited' /\ Paired' /\ SecuredTogether'
    BY <1>0, <1>1, <1>6 DEF Awaited, Hears, Paired, SecuredTogether
  <1>8. NotAlone'
    <2>1. chan[r] \in Lan!Channels
      BY DEF ChannelInv, SessionTypes
    <2>2. Inbox(r)' = Inbox(r)
      BY <1>0, <1>1, <1>21, <2>1 DEF Inbox
    <2> QED BY <1>0, <1>1, <2>2 DEF ChannelInv, NotAlone
  <1> QED BY <1>3, <1>4, <1>5, <1>7, <1>8 DEF ChannelInv

\* What is left behind a point that is read.
LEMMA AfterPointRead ==
    ASSUME NEW w \in Seq(WireFrames), NEW at, w # << >>, Head(w) = "point", AfterPoint(w, at)
    PROVE  /\ at = "await_point" => Tail(w) = << >>
           /\ at \in {"await_mac", "secured"} => Tail(w) # << >>
           /\ Tail(w) # << >> => Head(Tail(w)) = "mac" /\ Range(Tail(Tail(w))) \subseteq Status
  <1>1. Len(w) \in Nat \ {0} /\ w[1] = "point" /\ 1 \in DOMAIN w /\ DOMAIN w = 1..Len(w)
    OBVIOUS
  <1>2. /\ at = "await_point" => 1 = Len(w)
        /\ at \in {"await_mac", "secured"} => 1 # Len(w)
        /\ 1 # Len(w) => w[2] = "mac"
        /\ \A j \in 1..Len(w) : j > 2 => w[j] \in Status
    BY <1>1 DEF AfterPoint
  <1>3. Tail(w) \in Seq(WireFrames) /\ Len(Tail(w)) = Len(w) - 1 /\ (Tail(w) = << >> <=> Len(w) = 1)
    <2>1. Tail(w) \in Seq(WireFrames) /\ Len(Tail(w)) = Len(w) - 1
      OBVIOUS
    <2> DEFINE u == Tail(w)
    <2>2. u \in Seq(WireFrames) /\ Len(u) = Len(w) - 1
      BY <2>1
    <2> HIDE DEF u
    <2>3. u = << >> <=> Len(u) = 0
      BY <2>2
    <2>4. u = << >> <=> Len(w) = 1
      BY <1>1, <2>2, <2>3
    <2> QED BY <2>1, <2>4 DEF u
  <1>4. ASSUME Tail(w) # << >> PROVE Head(Tail(w)) = "mac" /\ Range(Tail(Tail(w))) \subseteq Status
    <2>1. Len(w) > 1 /\ Head(Tail(w)) = w[2]
      BY <1>1, <1>3, <1>4
    <2>2. /\ DOMAIN Tail(Tail(w)) = 1..(Len(w) - 2)
          /\ \A i \in 1..(Len(w) - 2) : Tail(Tail(w))[i] = w[i + 2] /\ i + 2 \in 1..Len(w) /\ i + 2 > 2
      BY <1>1, <1>3, <1>4, <2>1
    <2>3. Range(Tail(Tail(w))) \subseteq Status
      BY <1>2, <2>2 DEF Range
    <2> QED BY <1>2, <2>1, <2>3
  <1> QED BY <1>2, <1>3, <1>4

\* The point of the other is read and the confirmation is sent.
LEMMA ReadsPointKeeps ==
    ASSUME ChannelInv, ~Routing, UNCHANGED <<ident, conns, muxVars, broken>>,
           NEW r \in Roles, ReadsPoint(r)
    PROVE  ChannelInv'
  <1> DEFINE o == Lan!Other(r)
             c == chan[r]
  <1>0. o = Lan!Other(r) /\ o \in Roles /\ o # r /\ Lan!Other(o) = r /\ (\A q \in Roles : q = r \/ q = o)
    BY RolesAre
  <1>1. /\ pc' \in [Roles -> PcValues] /\ pc'[o] = pc[o] /\ pc[r] = "await_point" /\ pc'[r] = "await_mac"
        /\ chan' = chan /\ shut' = shut /\ listener' = listener
    BY <1>0 DEF ChannelInv, SessionTypes, ReadsPoint, PcValues
  <1>2. /\ wire \in WireType /\ c = chan[r] /\ c \in Lan!Channels /\ "mac" \in WireFrames
        /\ wire[c][r] # << >> /\ Head(wire[c][r]) = "point"
    BY DEF ChannelInv, SessionTypes, WireType, WireFrames, Lan!Frames, ReadsPoint, Inbox
  <1>3. wire' = PutOn(TakeOff(wire, c, r), c, o, "mac")
    <2>1. wire' = [wire EXCEPT ![c][r] = Tail(@), ![c][o] = Append(@, "mac")]
      BY <1>0 DEF ReadsPoint
    <2> QED BY <1>0, <2>1 DEF PutOn, TakeOff
  <1> HIDE DEF o, c
  <1>4. /\ wire' \in WireType
        /\ wire'[c][r] = Tail(wire[c][r])
        /\ wire'[c][o] = Append(wire[c][o], "mac")
        /\ \A ch \in Lan!Channels, x \in Roles : ch # c => wire'[ch][x] = wire[ch][x]
    <2>0. o \in Roles /\ o # r
      BY <1>0
    <2> DEFINE w == TakeOff(wire, c, r)
    <2>1. /\ w \in WireType /\ w[c][r] = Tail(wire[c][r])
          /\ \A ch \in Lan!Channels, x \in Roles : ch # c \/ x # r => w[ch][x] = wire[ch][x]
      BY <1>2, TakeAt
    <2> HIDE DEF w
    <2>2. PutOn(w, c, o, "mac") \in WireType /\ PutOn(w, c, o, "mac")[c][o] = Append(w[c][o], "mac")
      BY <1>2, <2>0, <2>1, PutAt
    <2>3. \A ch \in Lan!Channels, x \in Roles : ch # c \/ x # o => PutOn(w, c, o, "mac")[ch][x] = w[ch][x]
      BY <1>2, <2>0, <2>1, PutAt
    <2>4. wire' = PutOn(w, c, o, "mac")
      BY <1>3 DEF w
    <2> QED BY <1>2, <2>0, <2>1, <2>2, <2>3, <2>4
  <1>5. /\ Range(wire'[c][r]) \subseteq Range(wire[c][r]) /\ "point" \in Range(wire[c][r])
        /\ Range(wire'[c][o]) = Range(wire[c][o]) \cup {"mac"} /\ wire'[c][o] # << >>
    <2>1. wire[c][r] \in Seq(WireFrames) /\ wire[c][o] \in Seq(WireFrames)
      BY <1>0, <1>2 DEF WireType
    <2>2. Range(Tail(wire[c][r])) \subseteq Range(wire[c][r]) /\ Head(wire[c][r]) \in Range(wire[c][r])
      BY <1>2, <2>1, FrameSteps
    <2>3. Range(Append(wire[c][o], "mac")) = Range(wire[c][o]) \cup {"mac"} /\ Append(wire[c][o], "mac") # << >>
      BY <2>1, FrameSteps
    <2> QED BY <1>2, <1>4, <2>2, <2>3
  \* the other is on this channel and has sent its point, so it has not confirmed to an unknown
  <1>6. chan[o] = c /\ Past(o)
    BY <1>0, <1>2, <1>5 DEF ChannelInv, Senders, Sent
  <1>7. pc[o] # "secured"
    BY <1>0, <1>1 DEF ChannelInv, Paired
  <1>8. SessionTypes' /\ NotBefore' /\ Parts' /\ ShutMeans'
    <2>1. SessionTypes'
      BY <1>1, <1>4 DEF ChannelInv, SessionTypes, muxVars, WireType
    <2>2. NotBefore'
      BY <1>0, <1>1 DEF ChannelInv, NotBefore, Routing
    <2>3. Parts'
      BY <1>0, <1>1, RolesAre DEF ChannelInv, Parts, Past, Early
    <2>4. ShutMeans'
      BY <1>0, <1>1 DEF ChannelInv, ShutMeans
    <2> QED BY <2>1, <2>2, <2>3, <2>4
  <1>9. Senders'
    <2>0. mux' = mux /\ ready' = ready
      BY DEF muxVars
    <2>1. ASSUME NEW ch \in Lan!Channels PROVE Sent(ch, r)'
      <3>1. Sent(ch, r) /\ Range(wire'[ch][r]) \subseteq Range(wire[ch][r])
        BY <1>4, <1>5 DEF ChannelInv, Senders
      <3> QED BY <1>0, <1>1, <2>0, <3>1 DEF Sent, Told, Past
    <2>2. ASSUME NEW ch \in Lan!Channels PROVE Sent(ch, o)'
      <3>1. Sent(ch, o)
        BY <1>0 DEF ChannelInv, Senders
      <3>2. CASE ch = c
        BY <1>0, <1>1, <1>2, <1>5, <1>6, <2>0, <3>1, <3>2, FrameKinds DEF Sent, Told, Past
      <3>3. CASE ch # c
        <4>1. wire'[ch][o] = wire[ch][o]
          BY <1>0, <1>4, <3>3
        <4> QED BY <1>0, <1>1, <2>0, <3>1, <4>1 DEF Sent, Told, Past
      <3> QED BY <3>2, <3>3
    <2> QED BY <1>0, <2>1, <2>2 DEF Senders
  <1>10. Ordered'
    <2>1. ASSUME NEW ch \in Lan!Channels, pc[o] = "await_point" PROVE AfterPoint(wire'[ch][o], "await_mac")
      <3>1. wire[ch][o] \in Seq(WireFrames)
        BY <1>0, <1>2 DEF WireType
      <3>2. CASE ch = c
        <4>1. AfterPoint(wire[c][o], "await_point")
          BY <1>0, <1>1, <1>2, <2>1 DEF ChannelInv, Ordered
        <4>2. AfterPoint(Append(wire[c][o], "mac"), "await_mac")
          BY <3>1, <3>2, <4>1, AfterPointSteps
        <4> QED BY <1>4, <3>2, <4>2
      <3>3. CASE ch # c
        <4>1. "point" \notin Range(wire[ch][o])
          BY <1>0, <1>2, <3>3 DEF ChannelInv, Senders, Sent
        <4>2. AfterPoint(wire[ch][o], "await_mac")
          BY <3>1, <4>1, AfterPointSteps
        <4> QED BY <1>0, <1>4, <3>3, <4>2
      <3> QED BY <3>2, <3>3
    <2> QED BY <1>0, <1>1, <1>6, <2>1 DEF Ordered, Past
  <1>11. Awaited'
    <2>1. Hears(r)'
      <3>1. AfterPoint(wire[c][r], pc[o]) /\ wire[c][r] \in Seq(WireFrames)
        BY <1>0, <1>1, <1>2 DEF ChannelInv, Ordered, WireType
      <3>2. /\ pc[o] = "await_point" => Tail(wire[c][r]) = << >>
            /\ pc[o] \in {"await_mac", "secured"} => Tail(wire[c][r]) # << >>
            /\ Tail(wire[c][r]) # << >> =>
                  Head(Tail(wire[c][r])) = "mac" /\ Range(Tail(Tail(wire[c][r]))) \subseteq Status
        BY <1>2, <3>1, AfterPointRead
      <3>3. Inbox(r)' = Tail(wire[c][r])
        BY <1>1, <1>2, <1>4 DEF Inbox
      <3> QED BY <1>0, <1>1, <3>2, <3>3 DEF Hears
    <2>2. Hears(o)'
      <3>1. ASSUME pc[o] = "await_mac" PROVE wire'[c][o] = <<"mac">>
        <4>1. wire[c][o] = << >>
          BY <1>0, <1>1, <1>6, <3>1 DEF ChannelInv, Awaited, Hears, Inbox
        <4> QED BY <1>4, <4>1
      <3>2. Inbox(o)' = wire'[c][o]
        BY <1>1, <1>6 DEF Inbox
      <3>3. Head(<<"mac">>) = "mac" /\ Range(Tail(<<"mac">>)) \subseteq Status /\ <<"mac">> # << >>
        BY DEF Range
      <3> QED BY <1>0, <1>1, <1>7, <3>1, <3>2, <3>3 DEF Hears
    <2> QED BY <1>0, <2>1, <2>2 DEF Awaited
  <1>12. Paired'
    BY <1>0, <1>1, <1>2, <1>6, <1>7 DEF Paired, Past
  <1>13. NotAlone'
    <2>1. Range(Inbox(r)') \subseteq Range(Inbox(r))
      BY <1>1, <1>2, <1>5 DEF Inbox
    <2> QED BY <1>0, <1>1, <2>1 DEF ChannelInv, NotAlone
  <1>14. SecuredTogether'
    BY <1>0, <1>1, <1>7 DEF SecuredTogether
  <1> QED BY <1>8, <1>9, <1>10, <1>11, <1>12, <1>13, <1>14 DEF ChannelInv

\* The confirmation of the other is read.
LEMMA ReadsMacKeeps ==
    ASSUME ChannelInv, ~Routing, UNCHANGED <<ident, conns, muxVars, broken>>,
           NEW r \in Roles, ReadsMac(r)
    PROVE  ChannelInv'
  <1> DEFINE o == Lan!Other(r)
             c == chan[r]
  <1>0. o = Lan!Other(r) /\ o \in Roles /\ o # r /\ Lan!Other(o) = r /\ (\A q \in Roles : q = r \/ q = o)
    BY RolesAre
  <1>1. /\ pc' \in [Roles -> PcValues] /\ pc'[o] = pc[o] /\ pc[r] = "await_mac" /\ pc'[r] = "secured"
        /\ chan' = chan /\ shut' = shut /\ listener' = listener
    BY <1>0 DEF ChannelInv, SessionTypes, ReadsMac, PcValues
  <1>2. /\ wire \in WireType /\ c = chan[r] /\ c \in Lan!Channels
        /\ wire[c][r] # << >> /\ Head(wire[c][r]) = "mac" /\ wire[c][r] \in Seq(WireFrames)
    BY DEF ChannelInv, SessionTypes, WireType, ReadsMac, Inbox
  <1>3. wire' = TakeOff(wire, c, r)
    BY DEF ReadsMac, TakeOff
  <1> HIDE DEF o, c
  <1>4. /\ wire' \in WireType
        /\ wire'[c][r] = Tail(wire[c][r])
        /\ \A ch \in Lan!Channels, x \in Roles : ch # c \/ x # r => wire'[ch][x] = wire[ch][x]
    BY <1>2, <1>3, TakeAt
  <1>5. Range(wire'[c][r]) \subseteq Range(wire[c][r]) /\ "mac" \in Range(wire[c][r])
    BY <1>2, <1>4, FrameSteps
  <1>6. chan[o] = c /\ Past(o) /\ pc[o] # "await_point"
    BY <1>0, <1>1, <1>2 DEF ChannelInv, Paired, Awaited, Hears, Inbox
  <1>7. SessionTypes' /\ NotBefore' /\ Parts' /\ ShutMeans'
    <2>1. SessionTypes'
      BY <1>1, <1>4 DEF ChannelInv, SessionTypes, muxVars, WireType
    <2>2. NotBefore'
      BY <1>0, <1>1 DEF ChannelInv, NotBefore, Routing
    <2>3. Parts'
      BY <1>0, <1>1, RolesAre DEF ChannelInv, Parts, Past, Early
    <2>4. ShutMeans'
      BY <1>0, <1>1 DEF ChannelInv, ShutMeans
    <2> QED BY <2>1, <2>2, <2>3, <2>4
  <1>8. Senders'
    <2>0. mux' = mux /\ ready' = ready
      BY DEF muxVars
    <2>1. ASSUME NEW ch \in Lan!Channels PROVE Sent(ch, r)'
      <3>1. Sent(ch, r)
        BY DEF ChannelInv, Senders
      <3>2. Range(wire'[ch][r]) \subseteq Range(wire[ch][r])
        BY <1>4, <1>5
      <3> QED BY <1>0, <1>1, <2>0, <3>1, <3>2 DEF Sent, Told, Past
    <2>2. ASSUME NEW ch \in Lan!Channels PROVE Sent(ch, o)'
      <3>1. Sent(ch, o) /\ wire'[ch][o] = wire[ch][o]
        BY <1>0, <1>4 DEF ChannelInv, Senders
      <3> QED BY <1>0, <1>1, <2>0, <3>1 DEF Sent, Told, Past
    <2> QED BY <1>0, <2>1, <2>2 DEF Senders
  <1>9. Ordered'
    BY <1>0, <1>1, <1>6 DEF Ordered, Past
  <1>10. Awaited'
    <2>1. Hears(r)'
      <3>1. Range(Tail(wire[c][r])) \subseteq Status
        BY <1>1, <1>2 DEF ChannelInv, Awaited, Hears, Inbox
      <3>2. Inbox(r)' = Tail(wire[c][r])
        BY <1>1, <1>2, <1>4 DEF Inbox
      <3> QED BY <1>1, <3>1, <3>2 DEF Hears
    <2>2. Hears(o)'
      <3>1. Inbox(o)' = Inbox(o) /\ Hears(o)
        BY <1>0, <1>1, <1>2, <1>4, <1>6 DEF Inbox, ChannelInv, Awaited
      <3> QED BY <1>0, <1>1, <3>1 DEF Hears
    <2> QED BY <1>0, <2>1, <2>2 DEF Awaited
  <1>11. Paired'
    BY <1>0, <1>1, <1>2, <1>6 DEF ChannelInv, Paired, Past
  <1>12. pc[o] = "failed" => ident[o] \in broken
    BY <1>0, <1>1, <1>2, <1>5 DEF ChannelInv, NotAlone, Inbox
  <1>13. NotAlone'
    BY <1>0, <1>1, <1>12 DEF NotAlone
  <1>14. SecuredTogether'
    BY <1>0, <1>1, <1>2, <1>6, <1>12 DEF ChannelInv, SecuredTogether
  <1> QED BY <1>7, <1>8, <1>9, <1>10, <1>11, <1>13, <1>14 DEF ChannelInv

\* Steps of the negotiation of the connections that put nothing on a stream.
LEMMA LocalKeeps ==
    ASSUME ChannelInv, ~Routing, SessionTypes',
           UNCHANGED <<pc, chan, wire, shut, ident, ready, broken>>,
           \A x \in Roles : mux[x] \in {"reported", "mux", "single"} => mux'[x] \in {"reported", "mux", "single"},
           "aux" \in Range(listener') => "aux" \in Range(listener) \/ Past("sender")
    PROVE  ChannelInv'
  <1>1. NotBefore'
    BY DEF ChannelInv, NotBefore, Routing
  <1>2. Parts'
    BY DEF ChannelInv, Parts, Past
  <1>3. Senders'
    BY RolesAre DEF ChannelInv, Senders, Sent, Told, Past
  <1> QED BY <1>1, <1>2, <1>3 DEF ChannelInv, ShutMeans, Ordered, Awaited, Hears, Paired, NotAlone,
                                 SecuredTogether, Past, Inbox

\* A peer on a direct route is past its confirmation, and the other on the same.
LEMMA DirectPair ==
    ASSUME ChannelInv, NEW r \in Roles, OnDirect(r)
    PROVE  /\ chan[r] = "direct" /\ pc[r] = "secured"
           /\ chan[Lan!Other(r)] = "direct" /\ pc[Lan!Other(r)] \in {"await_mac", "secured", "failed"}
           /\ ~Routing
  BY RolesAre DEF ChannelInv, OnDirect, Paired, Past, NotBefore

\* The status is sent.
LEMMA ReportKeeps ==
    ASSUME ChannelInv, SessionTypes', NEW r \in Roles, NEW ok \in BOOLEAN, Gathering(r), Report(r, ok),
           "aux" \in Range(listener') => "aux" \in Range(listener)
    PROVE  ChannelInv'
  <1> DEFINE o == Lan!Other(r)
             f == IF ok THEN "ready" ELSE "not_ready"
  <1>0. o = Lan!Other(r) /\ o \in Roles /\ o # r /\ Lan!Other(o) = r /\ (\A q \in Roles : q = r \/ q = o)
    BY RolesAre
  <1>1. UNCHANGED <<pc, chan, shut, ident, broken>> /\ mux' = [mux EXCEPT ![r] = "reported"] /\ ready' = [ready EXCEPT ![r] = ok]
    BY DEF Report, routeVars
  <1>2. /\ wire \in WireType /\ "direct" \in Lan!Channels /\ f \in WireFrames /\ f \in Status
        /\ mux \in [Roles -> {"off", "gathering", "reported", "mux", "single"}] /\ ready \in [Roles -> BOOLEAN]
    BY DEF ChannelInv, SessionTypes, WireType, WireFrames, Lan!Channels, Status
  <1>3. wire' = PutOn(wire, "direct", o, f)
    BY DEF Report, PutOn
  <1>4. /\ mux[r] = "gathering" /\ mux'[r] = "reported" /\ mux'[o] = mux[o]
        /\ ready'[o] = ready[o] /\ f = Told(r)'
    BY <1>0, <1>1, <1>2 DEF Gathering, Told
  <1> HIDE DEF o, f
  <1>5. /\ wire' \in WireType
        /\ wire'["direct"][o] = Append(wire["direct"][o], f)
        /\ \A ch \in Lan!Channels, x \in Roles : ch # "direct" \/ x # o => wire'[ch][x] = wire[ch][x]
    <2>0. o \in Roles
      BY <1>0
    <2>1. PutOn(wire, "direct", o, f) \in WireType /\ PutOn(wire, "direct", o, f)["direct"][o] = Append(wire["direct"][o], f)
      BY <1>2, <2>0, PutAt
    <2>2. \A ch \in Lan!Channels, x \in Roles : ch # "direct" \/ x # o => PutOn(wire, "direct", o, f)[ch][x] = wire[ch][x]
      BY <1>2, <2>0, PutAt
    <2> QED BY <1>3, <2>1, <2>2
  <1>6. wire["direct"][o] \in Seq(WireFrames) /\ Range(wire'["direct"][o]) = Range(wire["direct"][o]) \cup {f}
    <2>1. wire["direct"][o] \in Seq(WireFrames)
      BY <1>0, <1>2 DEF WireType
    <2> QED BY <1>5, <2>1, FrameSteps
  <1>7. /\ chan[r] = "direct" /\ pc[r] = "secured" /\ ~Routing
        /\ chan[o] = "direct" /\ pc[o] \in {"await_mac", "secured", "failed"}
    BY <1>0, DirectPair DEF Gathering
  <1>8. NotBefore' /\ Parts' /\ ShutMeans' /\ Paired' /\ SecuredTogether'
    <2>1. NotBefore'
      BY <1>1, <1>7 DEF ChannelInv, NotBefore, Routing
    <2>2. Parts' /\ ShutMeans' /\ Paired' /\ SecuredTogether'
      BY <1>1 DEF ChannelInv, Parts, ShutMeans, Paired, SecuredTogether, Past
    <2> QED BY <2>1, <2>2
  <1>9. Senders'
    <2>1. ASSUME NEW ch \in Lan!Channels PROVE Sent(ch, r)'
      <3>1. Sent(ch, r) /\ wire'[ch][r] = wire[ch][r]
        BY <1>0, <1>5 DEF ChannelInv, Senders
      <3> QED BY <1>0, <1>1, <1>4, <3>1 DEF Sent, Told, Past
    <2>2. ASSUME NEW ch \in Lan!Channels PROVE Sent(ch, o)'
      <3>1. Sent(ch, o)
        BY <1>0 DEF ChannelInv, Senders
      <3>2. CASE ch = "direct"
        BY <1>0, <1>1, <1>2, <1>4, <1>6, <1>7, <3>1, <3>2, FrameKinds DEF Sent, Past
      <3>3. CASE ch # "direct"
        <4>1. wire'[ch][o] = wire[ch][o]
          BY <1>0, <1>5, <3>3
        <4> QED BY <1>0, <1>1, <1>4, <3>1, <3>3, <4>1 DEF Sent, Past
      <3> QED BY <3>2, <3>3
    <2> QED BY <1>0, <2>1, <2>2 DEF Senders
  <1>10. Ordered'
    BY <1>0, <1>1, <1>7 DEF Ordered
  <1>11. Awaited'
    <2>1. Hears(r)'
      <3>1. Hears(r) /\ Inbox(r)' = Inbox(r)
        BY <1>0, <1>1, <1>2, <1>5, <1>7 DEF ChannelInv, Awaited, Inbox
      <3> QED BY <1>1, <3>1 DEF Hears
    <2>2. Hears(o)'
      <3>1. Inbox(o)' = Append(wire["direct"][o], f) /\ Inbox(o) = wire["direct"][o]
        BY <1>1, <1>5, <1>7 DEF Inbox
      <3>2. /\ pc[o] = "await_mac" => /\ wire["direct"][o] # << >> /\ Head(wire["direct"][o]) = "mac"
                                     /\ Range(Tail(wire["direct"][o])) \subseteq Status
            /\ pc[o] = "secured" => Range(wire["direct"][o]) \subseteq Status
        BY <1>0, <1>7, <3>1 DEF ChannelInv, Awaited, Hears
      <3>3. /\ Append(wire["direct"][o], f) # << >>
            /\ Range(Append(wire["direct"][o], f)) = Range(wire["direct"][o]) \cup {f}
            /\ wire["direct"][o] # << >> =>
                  /\ Head(Append(wire["direct"][o], f)) = Head(wire["direct"][o])
                  /\ Range(Tail(Append(wire["direct"][o], f))) = Range(Tail(wire["direct"][o])) \cup {f}
        BY <1>2, <1>6, TailOfAppend
      <3> QED BY <1>0, <1>1, <1>2, <1>7, <3>1, <3>2, <3>3 DEF Hears
    <2> QED BY <1>0, <2>1, <2>2 DEF Awaited
  <1>12. NotAlone'
    <2>1. Inbox(r)' = Inbox(r)
      BY <1>0, <1>1, <1>2, <1>5, <1>7 DEF Inbox
    <2> QED BY <1>0, <1>1, <1>7, <2>1 DEF ChannelInv, NotAlone
  <1> QED BY <1>8, <1>9, <1>10, <1>11, <1>12 DEF ChannelInv

\* The status of the other is read.
LEMMA ReadStatusKeeps ==
    ASSUME ChannelInv, SessionTypes', NEW r \in Roles, ReadStatus(r)
    PROVE  ChannelInv'
  <1> DEFINE o == Lan!Other(r)
  <1>0. o = Lan!Other(r) /\ o \in Roles /\ o # r /\ Lan!Other(o) = r /\ (\A q \in Roles : q = r \/ q = o)
    BY RolesAre
  <1>1. UNCHANGED <<pc, chan, shut, listener, ident, ready, broken>> /\ mux[r] = "reported"
    BY DEF ReadStatus, routeVars
  <1>2. wire \in WireType /\ "direct" \in Lan!Channels /\ wire["direct"][r] # << >>
    BY DEF ChannelInv, SessionTypes, WireType, Lan!Channels, ReadStatus
  <1>3. wire' = TakeOff(wire, "direct", r)
    BY DEF ReadStatus, TakeOff
  <1>4. mux'[r] \in {"mux", "single"} /\ mux'[o] = mux[o]
    BY <1>0 DEF ReadStatus, Verdict, ChannelInv, SessionTypes
  <1> HIDE DEF o
  <1>5. /\ wire'["direct"][r] = Tail(wire["direct"][r])
        /\ \A ch \in Lan!Channels, x \in Roles : ch # "direct" \/ x # r => wire'[ch][x] = wire[ch][x]
    BY <1>2, <1>3, TakeAt
  <1>6. Range(wire'["direct"][r]) \subseteq Range(wire["direct"][r])
    <2>1. wire["direct"][r] \in Seq(WireFrames)
      BY <1>2 DEF WireType
    <2> QED BY <1>2, <1>5, <2>1, FrameSteps
  <1>7. /\ chan[r] = "direct" /\ pc[r] = "secured" /\ ~Routing
        /\ chan[o] = "direct" /\ pc[o] \in {"await_mac", "secured", "failed"}
    BY <1>0, DirectPair DEF ReadStatus
  <1>8. NotBefore' /\ Parts' /\ ShutMeans' /\ Paired' /\ SecuredTogether'
    <2>1. NotBefore'
      BY <1>1, <1>7 DEF ChannelInv, NotBefore, Routing
    <2>2. Parts' /\ ShutMeans' /\ Paired' /\ SecuredTogether'
      BY <1>1 DEF ChannelInv, Parts, ShutMeans, Paired, SecuredTogether, Past
    <2> QED BY <2>1, <2>2
  <1>9. Senders'
    <2>1. ASSUME NEW ch \in Lan!Channels PROVE Sent(ch, r)'
      <3>1. Sent(ch, r)
        BY DEF ChannelInv, Senders
      <3>2. Range(wire'[ch][r]) \subseteq Range(wire[ch][r])
        BY <1>5, <1>6
      <3> QED BY <1>0, <1>1, <1>4, <3>1, <3>2 DEF Sent, Told, Past
    <2>2. ASSUME NEW ch \in Lan!Channels PROVE Sent(ch, o)'
      <3>1. Sent(ch, o) /\ wire'[ch][o] = wire[ch][o]
        BY <1>0, <1>5 DEF ChannelInv, Senders
      <3> QED BY <1>0, <1>1, <1>4, <3>1 DEF Sent, Told, Past
    <2> QED BY <1>0, <2>1, <2>2 DEF Senders
  <1>10. Ordered'
    BY <1>0, <1>1, <1>7 DEF Ordered
  <1>11. Inbox(o)' = Inbox(o) /\ Range(Inbox(r)') \subseteq Range(Inbox(r))
    BY <1>0, <1>1, <1>2, <1>5, <1>6, <1>7 DEF Inbox
  <1>12. Awaited'
    <2>1. Hears(r)' /\ Hears(o)'
      BY <1>0, <1>1, <1>7, <1>11 DEF ChannelInv, Awaited, Hears
    <2> QED BY <1>0, <2>1 DEF Awaited
  <1>13. NotAlone'
    BY <1>0, <1>1, <1>7, <1>11 DEF ChannelInv, NotAlone
  <1> QED BY <1>8, <1>9, <1>10, <1>12, <1>13 DEF ChannelInv

-----------------------------------------------------------------------------
(* The parallel connections stay those that the receiver dialled.          *)

\* A step of the upgrade or of the handshake, an exception, or the end of a peer.
LEMMA SessionKeepsMux ==
    ASSUME ChannelInv, MuxInv, UNCHANGED <<conns, muxVars>>, NEW r \in Roles,
           \/ EarlyMove(r)
           \/ Lan!Fail(r)
           \/ /\ UNCHANGED <<chan, listener>> /\ pc[r] \notin {"secured", "failed"}
              /\ pc' = [pc EXCEPT ![r] = pc'[r]] /\ pc'[r] # "failed"
    PROVE  MuxInv'
  <1> DEFINE o == Lan!Other(r)
  <1>0. o = Lan!Other(r) /\ o \in Roles /\ o # r /\ Lan!Other(o) = r /\ (\A q \in Roles : q = r \/ q = o)
    BY RolesAre
  <1> HIDE DEF o
  <1>1. UNCHANGED <<conns, mux, aux, ready, late>>
    BY DEF muxVars
  <1>2. /\ pc \in [Roles -> PcValues] /\ chan \in [Roles -> Lan!Channels] /\ aux \in [Roles -> Nat]
        /\ listener \in Seq(Conns)
    BY DEF ChannelInv, SessionTypes
  <1>3. Joins(r) /\ Joins(o) /\ aux["sender"] <= aux["receiver"]
    BY <1>0 DEF MuxInv, Gathers, Waiting
  <1>4. CASE EarlyMove(r)
    <2>1. /\ pc[r] \in Early /\ pc'[o] = pc[o] /\ pc'[r] # "failed" /\ chan'[o] = chan[o]
          /\ chan'[r] = chan[r] \/ chan'[r] \in {"lan", "stale"}
      BY <1>0, <1>2, <1>4 DEF EarlyMove
    <2>2. chan[r] = "relay" /\ chan[o] # "direct"
      BY <1>0, <2>1 DEF ChannelInv, Parts
    <2>3. mux[r] = "off" /\ aux[r] = 0
      BY <1>3, <2>1 DEF Joins, Early
    <2>4. Joins(r)' /\ Joins(o)'
      BY <1>0, <1>1, <1>3, <2>1, <2>3 DEF Joins, Reported
    <2>5. chan'["receiver"] # "direct" /\ aux["sender"] = 0
      BY <1>0, <1>2, <1>3, <2>1, <2>2, <2>3, RolesAre
    <2>6. pc'["sender"] = "failed" => pc["sender"] = "failed" /\ listener' = listener
      BY <1>0, <1>4, <2>1, RolesAre DEF EarlyMove
    <2>7. Waiting'
      BY <1>1, <1>3, <2>5, <2>6 DEF MuxInv, Waiting
    <2> QED BY <1>0, <1>1, <2>4, <2>7 DEF MuxInv, Gathers
  <1>5. CASE Lan!Fail(r)
    <2>1. /\ pc'[r] = "failed" /\ pc'[o] = pc[o] /\ chan' = chan
          /\ listener' = IF r = "sender" THEN << >> ELSE listener
      BY <1>0, <1>2, <1>5 DEF Lan!Fail, Lan!Goto
    <2>2. Joins(r)' /\ Joins(o)'
      BY <1>0, <1>1, <1>3, <2>1 DEF Joins, Reported
    <2>3. Waiting'
      <3>1. CASE r = "sender"
        BY <1>1, <1>3, <2>1, <3>1 DEF Waiting
      <3>2. CASE r = "receiver"
        BY <1>0, <1>1, <2>1, <3>2, RolesAre DEF MuxInv, Waiting, Leftover
      <3> QED BY <3>1, <3>2, RolesAre
    <2> QED BY <1>0, <1>1, <2>2, <2>3 DEF MuxInv, Gathers
  <1>6. CASE /\ UNCHANGED <<chan, listener>> /\ pc[r] \notin {"secured", "failed"}
             /\ pc' = [pc EXCEPT ![r] = pc'[r]] /\ pc'[r] # "failed"
    <2>1. pc'[o] = pc[o]
      BY <1>0, <1>2, <1>6
    <2>2. Joins(r)' /\ Joins(o)'
      BY <1>0, <1>1, <1>3, <1>6, <2>1 DEF Joins, Reported
    <2>3. \A q \in Roles : pc'[q] = "failed" <=> pc[q] = "failed"
      BY <1>0, <1>6, <2>1
    <2>4. Waiting'
      BY <1>1, <1>6, <2>3, RolesAre DEF MuxInv, Waiting, Leftover
    <2> QED BY <1>0, <1>1, <2>2, <2>4 DEF MuxInv, Gathers
  <1> QED BY <1>4, <1>5, <1>6

\* A connection waits behind those that wait already, or the first one is taken.
LEMMA ListenerSteps ==
    ASSUME NEW w \in Seq(Conns)
    PROVE  /\ Append(w, "aux") # << >> /\ Len(Append(w, "aux")) = Len(w) + 1
           /\ w = << >> => Head(Append(w, "aux")) = "aux" /\ Range(Tail(Append(w, "aux"))) = {}
           /\ w # << >> => /\ Head(Append(w, "aux")) = Head(w)
                          /\ Range(Tail(Append(w, "aux"))) = Range(Tail(w)) \cup {"aux"}
           /\ w # << >> /\ Range(Tail(w)) \subseteq {"aux"} =>
                /\ Len(w) \in Nat \ {0} /\ Len(Tail(w)) = Len(w) - 1
                /\ Tail(w) # << >> => Head(Tail(w)) = "aux" /\ Range(Tail(Tail(w))) \subseteq {"aux"}
           /\ w = << >> <=> Len(w) = 0
           /\ Len(w) \in Nat
  <1>0. "aux" \in Conns
    BY DEF Conns
  <1>1. Append(w, "aux") # << >> /\ Len(Append(w, "aux")) = Len(w) + 1
    BY <1>0
  <1>2. ASSUME w = << >> PROVE Head(Append(w, "aux")) = "aux" /\ Range(Tail(Append(w, "aux"))) = {}
    BY <1>2 DEF Range
  <1>3. ASSUME w # << >>
        PROVE  Head(Append(w, "aux")) = Head(w) /\ Range(Tail(Append(w, "aux"))) = Range(Tail(w)) \cup {"aux"}
    <2>1. Head(Append(w, "aux")) = Head(w) /\ Tail(Append(w, "aux")) = Append(Tail(w), "aux")
      BY <1>0, <1>3
    <2>2. Tail(w) \in Seq(Conns)
      BY <1>3
    <2> QED BY <1>0, <2>1, <2>2, QueueSteps
  <1>4. ASSUME w # << >>, Range(Tail(w)) \subseteq {"aux"}
        PROVE  /\ Len(w) \in Nat \ {0} /\ Len(Tail(w)) = Len(w) - 1
               /\ Tail(w) # << >> => Head(Tail(w)) = "aux" /\ Range(Tail(Tail(w))) \subseteq {"aux"}
    <2>1. Len(w) \in Nat \ {0} /\ Len(Tail(w)) = Len(w) - 1 /\ Tail(w) \in Seq(Conns)
      BY <1>4
    <2>2. Tail(w) # << >> => Head(Tail(w)) \in Range(Tail(w)) /\ Range(Tail(Tail(w))) \subseteq Range(Tail(w))
      BY <2>1, QueueSteps
    <2> QED BY <1>4, <2>1, <2>2
  <1>5. (w = << >> <=> Len(w) = 0) /\ Len(w) \in Nat
    OBVIOUS
  <1> QED BY <1>1, <1>2, <1>3, <1>4, <1>5

\* The counts of the two peers are numbers.
LEMMA Numbers ==
    ASSUME SessionTypes
    PROVE  \A r \in Roles : aux[r] \in Nat /\ conns[r] \in Nat \ {0}
  BY SessionAssumption DEF SessionTypes

\* A peer begins: alone or with the parallel connections.
LEMMA BeginKeepsMux ==
    ASSUME ChannelInv, MuxInv, NEW r \in Roles, MuxBegins(r)
    PROVE  ChannelInv' /\ MuxInv'
  <1> DEFINE o == Lan!Other(r)
  <1>0. o = Lan!Other(r) /\ o \in Roles /\ o # r /\ Lan!Other(o) = r /\ (\A q \in Roles : q = r \/ q = o)
    BY RolesAre
  <1> HIDE DEF o
  <1>1. /\ mux[r] = "off" /\ mux'[r] = (IF conns[r] = 1 THEN "single" ELSE "gathering") /\ mux'[o] = mux[o]
        /\ mux' \in [Roles -> {"off", "gathering", "reported", "mux", "single"}]
        /\ UNCHANGED <<pc, chan, wire, shut, listener, ident, conns, aux, ready, late, broken>>
    BY <1>0 DEF MuxBegins, routeVars, lanVars, ChannelInv, SessionTypes
  <1>2. /\ chan[r] = "direct" /\ pc[r] = "secured" /\ ~Routing
    BY DirectPair DEF MuxBegins
  <1>3. ChannelInv'
    <2>1. SessionTypes'
      BY <1>1 DEF ChannelInv, SessionTypes
    <2>2. \A x \in Roles : mux[x] \in {"reported", "mux", "single"} => mux'[x] \in {"reported", "mux", "single"}
      BY <1>0, <1>1
    <2> QED BY <1>1, <1>2, <2>1, <2>2, LocalKeeps
  <1>4. Joins(r)' /\ Joins(o)'
    <2>1. Joins(r) /\ Joins(o)
      BY <1>0 DEF MuxInv, Gathers
    <2> QED BY <1>0, <1>1, <1>2, <2>1 DEF Joins, Reported
  <1>5. Waiting'
    BY <1>1 DEF MuxInv, Waiting, Leftover
  <1> QED BY <1>0, <1>1, <1>3, <1>4, <1>5 DEF MuxInv, Gathers

\* The status is sent, with all connections gathered or without.
LEMMA ReportKeepsMux ==
    ASSUME ChannelInv, MuxInv, NEW r \in Roles, NEW ok \in BOOLEAN, Gathering(r), Report(r, ok), aux' = aux,
           ok => aux[r] = conns[r] - 1,
           \/ listener' = listener
           \/ /\ r = "sender" /\ listener # << >> /\ Head(listener) # "aux" /\ listener' = Tail(listener)
    PROVE  ChannelInv' /\ MuxInv'
  <1> DEFINE o == Lan!Other(r)
  <1>0. o = Lan!Other(r) /\ o \in Roles /\ o # r /\ Lan!Other(o) = r /\ (\A q \in Roles : q = r \/ q = o)
    BY RolesAre
  <1> HIDE DEF o
  <1>1. /\ mux[r] = "gathering" /\ mux'[r] = "reported" /\ mux'[o] = mux[o]
        /\ ready'[r] = ok /\ ready'[o] = ready[o]
        /\ mux' \in [Roles -> {"off", "gathering", "reported", "mux", "single"}] /\ ready' \in [Roles -> BOOLEAN]
        /\ UNCHANGED <<pc, chan, shut, ident, conns, late, broken>>
    BY <1>0 DEF Gathering, Report, routeVars, ChannelInv, SessionTypes
  <1>2. /\ chan[r] = "direct" /\ pc[r] = "secured" /\ ~Routing /\ chan[o] = "direct"
    BY <1>0, DirectPair DEF Gathering
  <1>3. listener \in Seq(Conns) /\ listener' \in Seq(Conns) /\ ("aux" \in Range(listener') => "aux" \in Range(listener))
    <2>1. listener \in Seq(Conns)
      BY DEF ChannelInv, SessionTypes
    <2> QED BY <2>1, QueueSteps
  <1>4. wire' \in WireType
    <2>1. wire \in WireType /\ "direct" \in Lan!Channels /\ (IF ok THEN "ready" ELSE "not_ready") \in WireFrames
      BY DEF ChannelInv, SessionTypes, WireType, Lan!Channels, WireFrames, Status
    <2>2. wire' = PutOn(wire, "direct", o, IF ok THEN "ready" ELSE "not_ready")
      BY <1>0 DEF Report, PutOn
    <2>3. o \in Roles
      BY <1>0
    <2>4. PutOn(wire, "direct", o, IF ok THEN "ready" ELSE "not_ready") \in WireType
      BY <2>1, <2>3, PutAt
    <2> QED BY <2>2, <2>4
  <1>5. SessionTypes'
    BY <1>1, <1>3, <1>4 DEF ChannelInv, SessionTypes, WireType
  <1>6. ChannelInv'
    BY <1>3, <1>5, ReportKeeps
  <1>7. Joins(r)' /\ Joins(o)'
    <2>1. Joins(r) /\ Joins(o)
      BY <1>0 DEF MuxInv, Gathers
    <2> QED BY <1>0, <1>1, <1>2, <2>1 DEF Joins, Reported
  <1>8. Waiting'
    <2>1. CASE listener' = listener
      BY <1>1, <2>1 DEF MuxInv, Waiting, Leftover
    <2>2. CASE r = "sender" /\ listener # << >> /\ Head(listener) # "aux" /\ listener' = Tail(listener)
      <3>1. /\ pc["sender"] # "failed" /\ chan["receiver"] = "direct"
        BY <1>0, <1>2, <2>2, RolesAre
      <3>2. /\ Range(Tail(listener)) \subseteq {"aux"} /\ Head(listener) = "stale"
            /\ Len(listener) = aux["receiver"] - aux["sender"] + 1
        <4>1. Head(listener) \in Conns
          BY <1>3, <2>2
        <4> QED BY <2>2, <3>1, <4>1 DEF MuxInv, Waiting, Leftover, Conns
      <3>3. /\ Len(listener') = aux["receiver"] - aux["sender"]
            /\ listener' # << >> => Head(listener') = "aux" /\ Range(Tail(listener')) \subseteq {"aux"}
        <4>1. aux["sender"] \in Nat /\ aux["receiver"] \in Nat
          BY RolesAre, Numbers DEF ChannelInv
        <4>2. /\ Len(listener) \in Nat \ {0} /\ Len(Tail(listener)) = Len(listener) - 1
              /\ Tail(listener) # << >> =>
                    Head(Tail(listener)) = "aux" /\ Range(Tail(Tail(listener))) \subseteq {"aux"}
          BY <1>3, <2>2, <3>2, ListenerSteps
        <4>3. Len(Tail(listener)) = aux["receiver"] - aux["sender"]
          BY <3>2, <4>1, <4>2
        <4> QED BY <2>2, <4>2, <4>3
      <3>4. Leftover' = 0
        BY <3>3 DEF Leftover
      <3>5. aux["sender"] <= aux["receiver"] /\ aux["sender"] \in Nat /\ aux["receiver"] \in Nat
        BY RolesAre, Numbers DEF ChannelInv, MuxInv, Waiting
      <3> QED BY <1>1, <3>1, <3>3, <3>4, <3>5 DEF Waiting
    <2> QED BY <2>1, <2>2
  <1> QED BY <1>0, <1>1, <1>6, <1>7, <1>8 DEF MuxInv, Gathers

\* The receiver dials one more connection.
LEMMA DialKeepsMux ==
    ASSUME ChannelInv, MuxInv, DialAux
    PROVE  ChannelInv' /\ MuxInv'
  <1>0. "receiver" \in Roles /\ "sender" \in Roles /\ Lan!Other("receiver") = "sender" /\ Lan!Other("sender") = "receiver"
    BY RolesAre
  <1>1. /\ mux["receiver"] = "gathering" /\ aux["receiver"] < conns["receiver"] - 1
        /\ aux' = [aux EXCEPT !["receiver"] = @ + 1] /\ listener' = Append(listener, "aux")
        /\ UNCHANGED <<pc, chan, wire, shut, ident, conns, mux, ready, late, broken>>
    BY DEF DialAux, Gathering, routeVars
  <1>2. /\ chan["receiver"] = "direct" /\ pc["receiver"] = "secured" /\ ~Routing /\ Past("sender")
    BY <1>0, DirectPair DEF DialAux, Gathering, Past
  <1>3. /\ listener \in Seq(Conns) /\ aux \in [Roles -> Nat]
        /\ aux["sender"] \in Nat /\ aux["receiver"] \in Nat /\ conns["receiver"] \in Nat
    BY <1>0, Numbers DEF ChannelInv, SessionTypes
  <1>4. /\ aux' \in [Roles -> Nat] /\ aux'["sender"] = aux["sender"] /\ aux'["receiver"] = aux["receiver"] + 1
    BY <1>0, <1>1, <1>3
  <1>5. listener' \in Seq(Conns)
    BY <1>1, <1>3, QueueSteps DEF Conns
  <1>6. SessionTypes'
    BY <1>1, <1>4, <1>5 DEF ChannelInv, SessionTypes
  <1>7. ChannelInv'
    BY <1>1, <1>2, <1>6, LocalKeeps
  <1>8. Joins("sender")' /\ Joins("receiver")'
    <2>1. Joins("sender") /\ Joins("receiver")
      BY <1>0 DEF MuxInv, Gathers
    <2> QED BY <1>0, <1>1, <1>2, <1>4, <2>1 DEF Joins, Reported
  <1>9. Waiting'
    <2>1. /\ listener' # << >> /\ Len(listener') = Len(listener) + 1
          /\ listener = << >> => Head(listener') = "aux" /\ Range(Tail(listener')) = {}
          /\ listener # << >> => /\ Head(listener') = Head(listener)
                                /\ Range(Tail(listener')) = Range(Tail(listener)) \cup {"aux"}
      BY <1>1, <1>3, ListenerSteps
    <2>2. Leftover' = Leftover
      BY <2>1 DEF Leftover
    <2>3. Leftover \in Nat /\ Len(listener) \in Nat
      BY <1>3 DEF Leftover
    <2>4. /\ aux["sender"] <= aux["receiver"]
          /\ listener # << >> => Range(Tail(listener)) \subseteq {"aux"} /\ Head(listener) # "lan"
          /\ pc["sender"] # "failed" => Len(listener) = aux["receiver"] - aux["sender"] + Leftover
          /\ pc["sender"] # "failed" /\ aux["sender"] # 0 => Leftover = 0
      BY <1>2 DEF MuxInv, Waiting
    <2>5. /\ aux'["sender"] <= aux'["receiver"] /\ aux'["sender"] # aux'["receiver"]
          /\ pc["sender"] # "failed" => Len(listener') = aux'["receiver"] - aux'["sender"] + Leftover'
      BY <1>3, <1>4, <2>1, <2>2, <2>3, <2>4
    <2>6. Range(Tail(listener')) \subseteq {"aux"} /\ Head(listener') # "lan"
      BY <2>1, <2>4
    <2> QED BY <1>1, <1>4, <2>2, <2>4, <2>5, <2>6 DEF Waiting
  <1> QED BY <1>1, <1>7, <1>8, <1>9, RolesAre DEF MuxInv, Gathers

\* The sender accepts one.
LEMMA AcceptKeepsMux ==
    ASSUME ChannelInv, MuxInv, AcceptAux, Head(listener) = "aux"
    PROVE  ChannelInv' /\ MuxInv'
  <1>0. "receiver" \in Roles /\ "sender" \in Roles /\ Lan!Other("receiver") = "sender" /\ Lan!Other("sender") = "receiver"
    BY RolesAre
  <1>1. /\ mux["sender"] = "gathering" /\ aux["sender"] < conns["sender"] - 1
        /\ aux' = [aux EXCEPT !["sender"] = @ + 1] /\ listener # << >> /\ listener' = Tail(listener)
        /\ UNCHANGED <<pc, chan, wire, shut, ident, conns, mux, ready, late, broken>>
    BY DEF AcceptAux, IsAux, Gathering, routeVars
  <1>2. /\ chan["sender"] = "direct" /\ pc["sender"] = "secured" /\ ~Routing /\ chan["receiver"] = "direct"
    BY <1>0, DirectPair DEF AcceptAux, Gathering
  <1>3. /\ listener \in Seq(Conns) /\ aux \in [Roles -> Nat]
        /\ aux["sender"] \in Nat /\ aux["receiver"] \in Nat /\ conns["sender"] \in Nat
    BY <1>0, Numbers DEF ChannelInv, SessionTypes
  <1>4. /\ aux' \in [Roles -> Nat] /\ aux'["receiver"] = aux["receiver"] /\ aux'["sender"] = aux["sender"] + 1
    BY <1>0, <1>1, <1>3
  <1>5. listener' \in Seq(Conns) /\ Range(listener') \subseteq Range(listener)
    BY <1>1, <1>3, QueueSteps
  <1>6. SessionTypes'
    BY <1>1, <1>4, <1>5 DEF ChannelInv, SessionTypes
  <1>7. ChannelInv'
    BY <1>1, <1>2, <1>5, <1>6, LocalKeeps
  <1>8. Joins("sender")' /\ Joins("receiver")'
    <2>1. Joins("sender") /\ Joins("receiver")
      BY <1>0 DEF MuxInv, Gathers
    <2> QED BY <1>0, <1>1, <1>2, <1>4, <2>1 DEF Joins, Reported
  <1>9. Waiting'
    <2>1. /\ aux["sender"] <= aux["receiver"] /\ Leftover = 0 /\ Range(Tail(listener)) \subseteq {"aux"}
          /\ Len(listener) = aux["receiver"] - aux["sender"]
      <3>1. Leftover = 0
        BY DEF Leftover
      <3> QED BY <1>1, <1>2, <1>3, <3>1 DEF MuxInv, Waiting
    <2>2. /\ Len(listener) \in Nat \ {0} /\ Len(listener') = Len(listener) - 1
          /\ listener' # << >> => Head(listener') = "aux" /\ Range(Tail(listener')) \subseteq {"aux"}
      BY <1>1, <1>3, <2>1, ListenerSteps
    <2>3. Leftover' = 0
      BY <2>2 DEF Leftover
    <2>4. /\ aux'["sender"] <= aux'["receiver"] /\ Len(listener') = aux'["receiver"] - aux'["sender"] + 0
      BY <1>3, <1>4, <2>1, <2>2
    <2> QED BY <1>1, <1>2, <2>2, <2>3, <2>4 DEF Waiting
  <1> QED BY <1>1, <1>7, <1>8, <1>9, RolesAre DEF MuxInv, Gathers

\* The other's status is read: it is what the other has reported.
LEMMA ReadStatusKeepsMux ==
    ASSUME ChannelInv, MuxInv, NEW r \in Roles, ReadStatus(r)
    PROVE  ChannelInv' /\ MuxInv'
  <1> DEFINE o == Lan!Other(r)
             told == Head(wire["direct"][r])
  <1>0. o = Lan!Other(r) /\ o \in Roles /\ o # r /\ Lan!Other(o) = r /\ (\A q \in Roles : q = r \/ q = o)
    BY RolesAre
  <1>1. /\ mux[r] = "reported" /\ mux'[o] = mux[o]
        /\ mux'[r] = Verdict(r, told)
        /\ mux' \in [Roles -> {"off", "gathering", "reported", "mux", "single"}]
        /\ UNCHANGED <<pc, chan, shut, listener, ident, conns, aux, ready, late, broken>>
    BY <1>0 DEF ReadStatus, Verdict, routeVars, ChannelInv, SessionTypes
  <1>2. /\ chan[r] = "direct" /\ pc[r] = "secured" /\ ~Routing
    BY DirectPair DEF ReadStatus
  <1>3. wire \in WireType /\ "direct" \in Lan!Channels /\ wire["direct"][r] # << >> /\ wire["direct"][r] \in Seq(WireFrames)
    BY DEF ChannelInv, SessionTypes, WireType, Lan!Channels, ReadStatus
  <1>4. told \in Range(wire["direct"][r]) /\ told \in Status
    <2>1. told \in Range(wire["direct"][r])
      BY <1>3, FrameSteps
    <2> QED BY <1>2, <2>1 DEF ChannelInv, Awaited, Hears, Inbox
  <1>5. told = Told(o) /\ mux[o] \in {"reported", "mux", "single"}
    <2>1. Sent("direct", r)
      BY <1>3 DEF ChannelInv, Senders
    <2> QED BY <1>0, <1>4, <2>1 DEF Sent
  <1>6. conns[o] = conns[r]
    BY <1>0, RolesAre DEF MuxInv, Gathers
  <1>7. mux'[r] = IF ready[r] /\ ready[o] THEN "mux" ELSE "single"
    <2>1. ready[o] \in BOOLEAN /\ ready[r] \in BOOLEAN
      BY <1>0 DEF ChannelInv, SessionTypes
    <2>2. told = "ready" <=> ready[o]
      BY <1>5, <2>1 DEF Told
    <2> QED BY <1>0, <1>1, <1>6, <2>1, <2>2 DEF Verdict
  <1> HIDE DEF o, told
  <1>8. wire' \in WireType
    <2>1. wire' = TakeOff(wire, "direct", r)
      BY DEF ReadStatus, TakeOff
    <2> QED BY <1>3, <2>1, TakeAt
  <1>9. SessionTypes'
    BY <1>1, <1>8 DEF ChannelInv, SessionTypes, WireType
  <1>10. ChannelInv'
    BY <1>9, ReadStatusKeeps
  <1>11. Joins(r)' /\ Joins(o)'
    <2>1. Joins(r) /\ Joins(o)
      BY <1>0 DEF MuxInv, Gathers
    <2> QED BY <1>0, <1>1, <1>5, <1>7, <2>1 DEF Joins, Reported
  <1>12. Waiting'
    BY <1>1 DEF MuxInv, Waiting, Leftover
  <1> QED BY <1>0, <1>1, <1>10, <1>11, <1>12 DEF MuxInv, Gathers

\* Or not waited for any longer.
LEMMA NoStatusKeepsMux ==
    ASSUME ChannelInv, MuxInv, NEW r \in Roles, NoStatus(r)
    PROVE  ChannelInv' /\ MuxInv'
  <1> DEFINE o == Lan!Other(r)
  <1>0. o = Lan!Other(r) /\ o \in Roles /\ o # r /\ Lan!Other(o) = r /\ (\A q \in Roles : q = r \/ q = o)
    BY RolesAre
  <1> HIDE DEF o
  <1>1. /\ mux[r] = "reported" /\ mux'[r] = "single" /\ mux'[o] = mux[o] /\ late' = late \cup {r}
        /\ mux' \in [Roles -> {"off", "gathering", "reported", "mux", "single"}]
        /\ UNCHANGED <<pc, chan, wire, shut, listener, ident, conns, aux, ready, broken>>
    BY <1>0 DEF NoStatus, routeVars, lanVars, ChannelInv, SessionTypes
  <1>2. ~Routing
    BY DirectPair DEF NoStatus
  <1>3. ChannelInv'
    <2>1. SessionTypes'
      BY <1>1 DEF ChannelInv, SessionTypes
    <2>2. \A x \in Roles : mux[x] \in {"reported", "mux", "single"} => mux'[x] \in {"reported", "mux", "single"}
      BY <1>0, <1>1
    <2> QED BY <1>1, <1>2, <2>1, <2>2, LocalKeeps
  <1>4. Joins(r)' /\ Joins(o)'
    <2>1. Joins(r) /\ Joins(o)
      BY <1>0 DEF MuxInv, Gathers
    <2> QED BY <1>0, <1>1, <2>1 DEF Joins, Reported
  <1>5. Waiting'
    BY <1>1 DEF MuxInv, Waiting, Leftover
  <1> QED BY <1>0, <1>1, <1>3, <1>4, <1>5 DEF MuxInv, Gathers

-----------------------------------------------------------------------------
(* From the chosen route to a channel.                                     *)

\* What the negotiation leaves on the relay's pipe are frames of the negotiation.
LEMMA LeftMeans ==
    ASSUME NEW c, NEW s \in Left(c)
    PROVE  s \in Seq(WireFrames) /\ Range(s) \subseteq Lan!Control
  <1>1. s = << >> \/ \E f \in Lan!Routing : s = <<f>>
    BY DEF Left
  <1>2. Lan!Routing \subseteq Lan!Control /\ Lan!Control \subseteq WireFrames
    BY DEF Lan!Control, WireFrames, Lan!Frames
  <1>3. CASE s = << >>
    BY <1>3 DEF Range
  <1>4. ASSUME NEW f \in Lan!Routing, s = <<f>> PROVE s \in Seq(WireFrames) /\ Range(s) \subseteq Lan!Control
    BY <1>2, <1>4 DEF Range
  <1> QED BY <1>1, <1>3, <1>4

\* Both peers go on together.
LEMMA ProceedKeeps ==
    ASSUME ChannelInv, MuxInv, NEW id \in Idents, NEW lan, Proceed(id, lan)
    PROVE  ChannelInv' /\ MuxInv'
  <1>0. "receiver" \in Roles /\ "sender" \in Roles /\ Lan!Other("receiver") = "sender" /\ Lan!Other("sender") = "receiver"
    BY RolesAre
  <1>1. /\ RouteInv /\ wire = [ch \in Lan!Channels |-> [r \in Roles |-> << >>]]
        /\ mux = [r \in Roles |-> "off"] /\ shut = {"stale"} /\ Routing
    BY DEF ChannelInv, NotBefore, Proceed
  <1>2. /\ ident' = id /\ id \in [Roles -> Route!Peers]
        /\ pc' = [r \in Roles |-> FirstStep(id[r], r, lan)]
        /\ chan' = [r \in Roles |-> IF rpc[id[r]] = "direct" THEN "direct" ELSE "relay"]
        /\ UNCHANGED <<conns, mux, aux, ready, late>>
    BY DEF Proceed, Idents, muxVars
  <1>3. ~Routing'
    BY <1>0, <1>2 DEF Routing, Route!Peers
  <1>4. /\ pc' \in [Roles -> PcValues]
        /\ \A r \in Roles :
             /\ pc'[r] \in {"failed", "serving", "asking", "securing"}
             /\ pc'[r] = "serving" => r = "sender" /\ rpc[id[r]] = "relay"
             /\ pc'[r] = "asking" => r = "receiver" /\ rpc[id[r]] = "relay"
    BY <1>0, <1>2, RolesAre DEF FirstStep, Upgrades, PcValues, Early
  <1>5. /\ chan' \in [Roles -> Lan!Channels]
        /\ \A r \in Roles : /\ chan'[r] \in {"relay", "direct"}
                            /\ chan'[r] = "direct" <=> rpc[id[r]] = "direct"
    BY <1>2 DEF Lan!Channels
  <1>6. \A q, r \in Roles : rpc[id[r]] = "relay" => chan'[q] = "relay" /\ chan'[r] = "relay"
    <2>1. \A r \in Roles : id[r] \in Route!Peers
      BY <1>2 DEF Route!Peers, Route!Peers
    <2> QED BY <1>1, <1>5, <2>1, OneRoute
  <1>7. /\ wire' \in WireType
        /\ \A ch \in Lan!Channels, q \in Roles : Range(wire'[ch][q]) \subseteq Lan!Control
    <2>1. PICK s \in Left(id["sender"]), t \in Left(id["receiver"]) :
             wire' = [wire EXCEPT !["relay"] = [r \in Roles |-> IF r = "sender" THEN s ELSE t]]
      BY DEF Proceed
    <2>2. /\ s \in Seq(WireFrames) /\ Range(s) \subseteq Lan!Control
          /\ t \in Seq(WireFrames) /\ Range(t) \subseteq Lan!Control
      BY LeftMeans
    <2>3. \A ch \in Lan!Channels, q \in Roles : wire'[ch][q] \in {<< >>, s, t}
      BY <1>1, <2>1
    <2>4. << >> \in Seq(WireFrames) /\ Range(<< >>) = {}
      BY DEF Range
    <2>5. wire' \in WireType
      <3>1. wire' = [ch \in Lan!Channels |-> IF ch = "relay" THEN [r \in Roles |-> IF r = "sender" THEN s ELSE t]
                                             ELSE [r \in Roles |-> << >>]]
        BY <1>1, <2>1
      <3> QED BY <2>2, <2>4, <3>1 DEF WireType
    <2>6. ASSUME NEW ch \in Lan!Channels, NEW q \in Roles PROVE Range(wire'[ch][q]) \subseteq Lan!Control
      <3>1. CASE wire'[ch][q] = << >>
        BY <2>4, <3>1
      <3>2. CASE wire'[ch][q] = s
        BY <2>2, <3>2
      <3>3. CASE wire'[ch][q] = t
        BY <2>2, <3>3
      <3> QED BY <2>3, <3>1, <3>2, <3>3
    <2> QED BY <2>5, <2>6
  <1>8. /\ listener' \in Seq(Conns)
        /\ listener' = << >> \/ (listener' = <<"stale">> /\ pc'["sender"] # "failed")
        /\ "aux" \notin Range(listener')
    <2>1. listener' = << >> \/ (listener' = <<"stale">> /\ pc'["sender"] # "failed")
      BY DEF Proceed
    <2>2. << >> \in Seq(Conns) /\ <<"stale">> \in Seq(Conns) /\ "aux" \notin Range(<< >>) /\ "aux" \notin Range(<<"stale">>)
      BY DEF Conns, Range
    <2> QED BY <2>1, <2>2
  <1>9. /\ shut' \subseteq Lan!Channels
        /\ \A ch \in shut' : ch = "stale" \/ \E r \in Roles : pc'[r] = "failed"
    BY <1>0, <1>1 DEF Proceed, Lan!Channels
  <1>10. SessionTypes'
    <2>1. ident' \in [Roles -> Route!Peers \cup {"none"}]
      BY <1>2
    <2> QED BY <1>2, <1>4, <1>5, <1>7, <1>8, <1>9, <2>1 DEF ChannelInv, SessionTypes, WireType
  <1>11. NotBefore'
    BY <1>3, <1>4 DEF NotBefore
  <1>12. Parts'
    BY <1>0, <1>4, <1>5, <1>6, <1>8, RolesAre DEF Parts, Early
  <1>13. ShutMeans'
    <2>1. chan'["receiver"] # "stale"
      BY <1>0, <1>5
    <2> QED BY <1>0, <1>9, <2>1 DEF ShutMeans
  <1>14. Senders'
    BY <1>7, FrameKinds DEF Senders, Sent
  <1>15. Ordered'
    <2>1. ASSUME NEW ch \in Lan!Channels, NEW r \in Roles PROVE AfterPoint(wire'[ch][r], pc'[Lan!Other(r)])
      <3>1. wire'[ch][r] \in Seq(WireFrames) /\ "point" \notin Range(wire'[ch][r])
        BY <1>7, FrameKinds DEF WireType
      <3> QED BY <3>1, AfterPointSteps
    <2> QED BY <2>1 DEF Ordered
  <1>16. Awaited' /\ Paired' /\ SecuredTogether'
    BY <1>4 DEF Awaited, Hears, Paired, SecuredTogether
  <1>17. NotAlone'
    <2>1. \A r \in Roles : "mac" \notin Range(wire'[chan'[r]][r])
      BY <1>5, <1>7, FrameKinds
    <2> QED BY <1>4, <2>1 DEF NotAlone, Inbox
  <1>18. \A r \in Roles : mux[r] = "off" /\ mux'[r] = "off" /\ aux'[r] = 0 /\ ~ready[r] /\ ~ready'[r]
    <2>1. \A r \in Roles : mux[r] = "off"
      BY <1>1
    <2>2. \A r \in Roles : Joins(r)
      BY DEF MuxInv, Gathers
    <2> QED BY <1>2, <2>1, <2>2 DEF Joins, Reported
  <1>19. Gathers'
    <2>1. \A r \in Roles : Joins(r)'
      BY <1>18 DEF Joins
    <2> QED BY <1>2, <2>1 DEF MuxInv, Gathers
  <1>20. Waiting'
    <2>1. CASE listener' = << >>
      <3>1. Leftover' = 0 /\ Len(listener') = 0
        BY <2>1 DEF Leftover
      <3> QED BY <1>0, <1>18, <2>1, <3>1 DEF Waiting
    <2>2. CASE listener' = <<"stale">> /\ pc'["sender"] # "failed"
      <3>1. Leftover' = 1 /\ Len(listener') = 1 /\ Head(listener') = "stale" /\ Range(Tail(listener')) = {}
        BY <2>2 DEF Leftover, Range
      <3> QED BY <1>0, <1>18, <2>2, <3>1 DEF Waiting
    <2> QED BY <1>8, <2>1, <2>2
  <1> QED BY <1>10, <1>11, <1>12, <1>13, <1>14, <1>15, <1>16, <1>17, <1>19, <1>20 DEF ChannelInv, MuxInv

-----------------------------------------------------------------------------
(* The theorems.                                                           *)

SessionInv == ChannelInv /\ MuxInv

\* The number that is announced is the one that is used.
LEMMA SameCount ==
    ASSUME NEW n \in Counts, NEW advice \in {NoAdvice} \cup {[conns |-> m] : m \in Counts}
    PROVE  announced(n, advice) \in Counts /\ used(n, advice) = announced(n, advice)
  <1>1. n \in Nat \ {0} /\ (advice.conns = 0 \/ advice.conns \in Counts) /\ Counts \subseteq Nat \ {0}
    BY SessionAssumption DEF NoAdvice
  <1>2. announced(n, advice) = IF advice.conns >= 1 THEN advice.conns ELSE n
    BY DEF announced, merge_ai_route_plan, build_route_plan
  <1>3. announced(n, advice) \in Counts
    BY <1>1, <1>2
  <1>4. /\ build_route_plan(FALSE, announced(n, advice)).conns = announced(n, advice)
        /\ merge_ai_route_plan(build_route_plan(FALSE, n), advice).conns = announced(n, advice)
    BY DEF announced, build_route_plan
  <1>5. used(n, advice) = IF announced(n, advice) >= 1 THEN announced(n, advice) ELSE announced(n, advice)
    BY <1>4 DEF used, merge_ai_route_plan, build_route_plan
  <1> QED BY <1>3, <1>5

\* Nothing of the session exists at first.
LEMMA InitInv == Init => SessionInv
  <1> SUFFICES ASSUME Init PROVE SessionInv
    OBVIOUS
  <1>1. RouteInv
    BY RouteInitInv DEF Init
  <1>2. conns \in [Roles -> Counts] /\ conns["sender"] = conns["receiver"]
    <2>1. PICK n \in Counts, advice \in {NoAdvice} \cup {[conns |-> m] : m \in Counts} :
             conns = [r \in Roles |-> IF r = "sender" THEN used(n, advice) ELSE announced(n, advice)]
      BY DEF Init
    <2> QED BY <2>1, SameCount, RolesAre
  <1>3. /\ \A r \in Roles : /\ pc[r] = "routing" /\ chan[r] = "relay" /\ ident[r] = "none"
                            /\ mux[r] = "off" /\ aux[r] = 0 /\ ready[r] = FALSE
                            /\ \A ch \in Lan!Channels : wire[ch][r] = << >>
        /\ shut = {"stale"} /\ listener = << >> /\ late = {} /\ Range(<< >>) = {}
    BY DEF Init, Range
  <1>4. SessionTypes
    BY <1>2, <1>3 DEF Init, SessionTypes, PcValues, Lan!Channels
  <1>5. NotBefore
    BY <1>1, <1>3, RolesAre DEF Init, NotBefore, Routing
  <1>6. Parts /\ ShutMeans /\ Senders /\ Awaited /\ Paired /\ NotAlone /\ SecuredTogether
    BY <1>3, RolesAre DEF Parts, ShutMeans, Senders, Sent, Awaited, Hears, Paired, NotAlone, SecuredTogether,
                          Inbox, Early
  <1>7. Ordered
    <2>1. ASSUME NEW ch \in Lan!Channels, NEW r \in Roles PROVE AfterPoint(wire[ch][r], pc[Lan!Other(r)])
      BY <1>3 DEF AfterPoint
    <2> QED BY <2>1 DEF Ordered
  <1>8. MuxInv
    BY <1>2, <1>3, RolesAre DEF MuxInv, Gathers, Joins, Waiting, Leftover, Reported
  <1> QED BY <1>4, <1>5, <1>6, <1>7, <1>8 DEF SessionInv, ChannelInv

\* A step of the negotiation touches nothing of the session.
LEMMA NegotiateKeeps ==
    ASSUME SessionInv, Negotiate
    PROVE  SessionInv'
  <1>1. UNCHANGED <<pc, chan, wire, shut, listener, ident, conns, mux, aux, ready, late>>
    BY DEF Negotiate, lanVars, muxVars
  <1>2. NotBefore' /\ \A r \in Roles : pc[r] = "routing"
    BY NegotiateStep DEF SessionInv, ChannelInv, NotBefore, Negotiate
  <1>3. SessionTypes' /\ Parts' /\ ShutMeans' /\ Senders' /\ Ordered' /\ Awaited' /\ Paired'
    BY <1>1 DEF SessionInv, ChannelInv, SessionTypes, Parts, ShutMeans, Senders, Sent, Told, Ordered,
                Awaited, Hears, Paired, Past, Inbox
  <1>4. NotAlone' /\ SecuredTogether'
    BY <1>1, <1>2, RolesAre DEF NotAlone, SecuredTogether
  <1>5. MuxInv'
    BY <1>1 DEF SessionInv, MuxInv, Gathers, Joins, Waiting, Leftover, Reported
  <1> QED BY <1>2, <1>3, <1>4, <1>5 DEF SessionInv, ChannelInv

\* Nor does one of the upgrade or the handshake touch anything but its channels.
LEMMA SecureKeeps ==
    ASSUME SessionInv, Secure
    PROVE  SessionInv'
  <1>1. ~Routing /\ UNCHANGED <<ident, conns, muxVars, broken>> /\ ChannelInv /\ MuxInv
    BY DEF Secure, routeVars, SessionInv
  <1>2. SessionTypes /\ Parts /\ pc \in [Roles -> PcValues]
    BY <1>1 DEF ChannelInv, SessionTypes
  <1>3. \E r \in Roles : EarlyMove(r) \/ FailMove(r) \/ Lan!SendPoint(r) \/ ReadsPoint(r) \/ ReadsMac(r)
    <2>1. CASE Lan!Upgrade
      BY <1>1, <1>2, <2>1, UpgradeMoves
    <2>2. ASSUME NEW r \in Roles, Lan!Secure(r)
          PROVE  Lan!SendPoint(r) \/ ReadsPoint(r) \/ ReadsMac(r) \/ FailMove(r)
      BY <1>1, <1>2, <2>2, SecureMoves
    <2> QED BY <2>1, <2>2, RolesAre DEF Secure, Lan!Next
  <1>4. PICK r \in Roles : EarlyMove(r) \/ FailMove(r) \/ Lan!SendPoint(r) \/ ReadsPoint(r) \/ ReadsMac(r)
    BY <1>3
  <1>5. ASSUME UNCHANGED <<chan, listener>>, pc[r] \notin {"secured", "failed"},
               NEW s, s # "failed", pc' = [pc EXCEPT ![r] = s]
        PROVE  MuxInv'
    <2>1. pc'[r] = s /\ pc' = [pc EXCEPT ![r] = pc'[r]]
      BY <1>2, <1>5
    <2> QED BY <1>1, <1>5, <2>1, SessionKeepsMux
  <1>6. CASE EarlyMove(r)
    BY <1>1, <1>6, EarlyKeeps, SessionKeepsMux DEF SessionInv
  <1>7. CASE FailMove(r)
    <2>1. /\ Lan!Fail(r) /\ broken' = broken /\ FailsEarly(r)
          /\ \/ wire' = wire
             \/ wire[chan[r]][r] # << >> /\ wire' = [wire EXCEPT ![chan[r]][r] = Tail(@)]
      BY <1>7 DEF FailMove
    <2>2. ChannelInv'
      BY <1>1, <2>1, FailKeeps
    <2> QED BY <1>1, <2>1, <2>2, SessionKeepsMux DEF SessionInv
  <1>8. CASE Lan!SendPoint(r)
    <2>1. MuxInv'
      BY <1>5, <1>8 DEF Lan!SendPoint, Lan!Goto
    <2> QED BY <1>1, <1>8, <2>1, SendKeeps DEF SessionInv
  <1>9. CASE ReadsPoint(r)
    <2>1. MuxInv'
      BY <1>5, <1>9 DEF ReadsPoint
    <2> QED BY <1>1, <1>9, <2>1, ReadsPointKeeps DEF SessionInv
  <1>10. CASE ReadsMac(r)
    <2>1. MuxInv'
      BY <1>5, <1>10 DEF ReadsMac
    <2> QED BY <1>1, <1>10, <2>1, ReadsMacKeeps DEF SessionInv
  <1> QED BY <1>4, <1>6, <1>7, <1>8, <1>9, <1>10

\* A peer that dies leaves the other with a closed channel.
LEMMA CrashKeeps ==
    ASSUME SessionInv, NEW r \in Roles, Crash(r)
    PROVE  SessionInv'
  <1>1. /\ ~Routing /\ UNCHANGED <<ident, conns, muxVars, wire>> /\ ChannelInv /\ MuxInv
        /\ Lan!Fail(r) /\ broken \subseteq broken' /\ ident[r] \in broken'
    BY DEF Crash, SessionInv
  <1> QED BY <1>1, FailKeeps, SessionKeepsMux DEF SessionInv

\* The steps of negotiate_direct_mux_channels.
LEMMA MuxKeeps ==
    ASSUME SessionInv, Mux
    PROVE  SessionInv'
  <1>1. ChannelInv /\ MuxInv /\ "sender" \in Roles /\ "receiver" \in Roles
    BY RolesAre DEF SessionInv
  <1>2. CASE DialAux
    BY <1>1, <1>2, DialKeepsMux DEF SessionInv
  <1>3. CASE DialAuxFails
    BY <1>1, <1>3, ReportKeepsMux DEF DialAuxFails, SessionInv
  <1>4. CASE AcceptAux
    <2>1. CASE Head(listener) = "aux"
      BY <1>1, <1>4, <2>1, AcceptKeepsMux DEF SessionInv
    <2>2. CASE Head(listener) # "aux"
      BY <1>1, <1>4, <2>2, ReportKeepsMux DEF AcceptAux, IsAux, SessionInv
    <2> QED BY <2>1, <2>2
  <1>5. CASE AcceptAuxFails
    BY <1>1, <1>5, ReportKeepsMux DEF AcceptAuxFails, SessionInv
  <1>6. ASSUME NEW r \in Roles, MuxBegins(r) PROVE SessionInv'
    BY <1>1, <1>6, BeginKeepsMux DEF SessionInv
  <1>7. ASSUME NEW r \in Roles, Gathered(r) PROVE SessionInv'
    BY <1>1, <1>7, ReportKeepsMux DEF Gathered, SessionInv
  <1>8. ASSUME NEW r \in Roles, ReadStatus(r) PROVE SessionInv'
    BY <1>1, <1>8, ReadStatusKeepsMux DEF SessionInv
  <1>9. ASSUME NEW r \in Roles, NoStatus(r) PROVE SessionInv'
    BY <1>1, <1>9, NoStatusKeepsMux DEF SessionInv
  <1> QED BY <1>2, <1>3, <1>4, <1>5, <1>6, <1>7, <1>8, <1>9 DEF Mux

\* Every step of both peers and of the relay.
LEMMA NextInv == SessionInv /\ [Next]_vars => SessionInv'
  <1> SUFFICES ASSUME SessionInv, [Next]_vars PROVE SessionInv'
    OBVIOUS
  <1>1. ASSUME NEW id \in Idents, NEW lan \in SUBSET Roles, Proceed(id, lan) PROVE SessionInv'
    BY <1>1, ProceedKeeps DEF SessionInv
  <1>2. CASE UNCHANGED vars
    <2>1. /\ UNCHANGED <<pc, chan, wire, shut, listener, ident, conns, mux, aux, ready, late, broken>>
          /\ UNCHANGED routeVars
      BY <1>2 DEF vars, routeVars, lanVars, muxVars
    <2>2. NotBefore'
      <3>1. RouteInv => RouteInv'
        <4>1. UNCHANGED Route!vars
          BY <2>1 DEF routeVars, Route!vars, Route!peerVars, Route!relayVars
        <4> QED BY <4>1, RouteNextInv
      <3> QED BY <2>1, <3>1 DEF SessionInv, ChannelInv, NotBefore, Routing
    <2>3. SessionTypes' /\ Parts' /\ ShutMeans' /\ Senders' /\ Ordered' /\ Awaited' /\ Paired'
      BY <2>1 DEF SessionInv, ChannelInv, SessionTypes, Parts, ShutMeans, Senders, Sent, Told, Ordered,
                  Awaited, Hears, Paired, Past, Inbox
    <2>4. NotAlone' /\ SecuredTogether'
      BY <2>1 DEF SessionInv, ChannelInv, NotAlone, SecuredTogether, Inbox
    <2>5. MuxInv'
      BY <2>1 DEF SessionInv, MuxInv, Gathers, Joins, Waiting, Leftover, Reported
    <2> QED BY <2>2, <2>3, <2>4, <2>5 DEF SessionInv, ChannelInv
  <1> QED BY <1>1, <1>2, NegotiateKeeps, SecureKeeps, CrashKeeps, MuxKeeps DEF Next

\* The invariant holds in every state.
LEMMA Always == Spec => []SessionInv
  BY InitInv, NextInv, PTL DEF Spec

\* Every variable has its type, those of the negotiation while it runs.
THEOREM TypeCorrect == Spec => []TypeOK
  <1>1. SessionInv => TypeOK
    BY DEF SessionInv, ChannelInv, SessionTypes, NotBefore, TypeOK, RouteInv, CommitInv
  <1> QED BY <1>1, Always, PTL

\* The early relay commit never makes a peer fail that nobody cancelled.
THEOREM FailsAloneOnly == Spec => []FailsOnlyUnpaired
  <1>1. SessionInv => FailsOnlyUnpaired
    BY DEF SessionInv, ChannelInv, NotBefore, FailsOnlyUnpaired, RouteInv, FailInv
  <1> QED BY <1>1, Always, PTL

\* perform_handshake: a peer that holds a session key shares its channel with the other.
THEOREM ChannelShared == Spec => []SecuredTogether
  <1>1. SessionInv => SecuredTogether
    BY DEF SessionInv, ChannelInv
  <1> QED BY <1>1, Always, PTL

\* negotiate_direct_mux_channels: both peers use the same number of connections unless
\* one gave up waiting for the status.
THEOREM MuxAgreed == Spec => []MuxAgree
  <1>1. SessionInv => MuxAgree
    <2> SUFFICES ASSUME SessionInv, late = {}, \A r \in Roles : Ends(r) /\ pc[r] = "secured"
                 PROVE  Channels("sender") = Channels("receiver")
      BY DEF MuxAgree
    <2>1. /\ "sender" \in Roles /\ "receiver" \in Roles
          /\ Lan!Other("sender") = "receiver" /\ Lan!Other("receiver") = "sender"
      BY RolesAre
    <2>2. /\ chan["sender"] = chan["receiver"] /\ conns["sender"] = conns["receiver"]
          /\ Joins("sender") /\ Joins("receiver")
      BY <2>1 DEF SessionInv, ChannelInv, SecuredTogether, MuxInv, Gathers
    <2>3. chan["sender"] = "direct" => mux["sender"] \in {"mux", "single"} /\ mux["receiver"] \in {"mux", "single"}
      BY <2>1, <2>2 DEF Ends
    <2> QED BY <2>1, <2>2, <2>3 DEF Channels, Joins
  <1> QED BY <1>1, Always, PTL

\* The sender's parallel connections are exactly those that the receiver dialled.
THEOREM MuxWhole == Spec => []MuxIsWhole
  <1>1. SessionInv => MuxIsWhole
    <2> SUFFICES ASSUME SessionInv, NEW r \in Roles, mux[r] = "mux"
                 PROVE  listener = << >> /\ \A o \in Roles : aux[o] = conns[r] - 1
      BY DEF MuxIsWhole
    <2>1. /\ "sender" \in Roles /\ "receiver" \in Roles
          /\ Lan!Other("sender") = "receiver" /\ Lan!Other("receiver") = "sender"
      BY RolesAre
    <2>2. /\ aux["sender"] \in Nat /\ aux["receiver"] \in Nat /\ conns["sender"] \in Nat \ {0}
          /\ listener \in Seq(Conns) /\ conns["sender"] = conns["receiver"]
      BY <2>1, Numbers DEF SessionInv, ChannelInv, SessionTypes, MuxInv, Gathers
    <2>3. /\ ready["sender"] /\ ready["receiver"]
      BY <2>1, RolesAre DEF SessionInv, MuxInv, Gathers, Joins
    <2>4. /\ aux["sender"] = conns["sender"] - 1 /\ aux["receiver"] = conns["sender"] - 1 /\ conns["sender"] # 1
          /\ mux["receiver"] # "off" /\ chan["receiver"] = "direct"
      <3>1. Joins("sender") /\ Joins("receiver")
        BY <2>1 DEF SessionInv, MuxInv, Gathers
      <3> QED BY <2>1, <2>2, <2>3, <3>1 DEF Joins, Reported
    <2>5. listener = << >>
      <3>1. CASE pc["sender"] = "failed"
        BY <2>4, <3>1 DEF SessionInv, MuxInv, Waiting
      <3>2. CASE pc["sender"] # "failed"
        <4>1. Leftover = 0 /\ Len(listener) = aux["receiver"] - aux["sender"] + Leftover
          BY <2>2, <2>4, <3>2 DEF SessionInv, MuxInv, Waiting
        <4> QED BY <2>2, <2>4, <4>1, ListenerSteps
      <3> QED BY <3>1, <3>2
    <2> QED BY <2>2, <2>4, <2>5, RolesAre
  <1> QED BY <1>1, Always, PTL

\* Nothing that follows the negotiation undoes its decision.
LEMMA NextImplements ==
    ASSUME SessionInv, [Next]_vars
    PROVE  [Route!Abstract!Next]_(Route!Abstract!vars)
  <1>1. CASE Negotiate
    BY <1>1, NegotiateStep DEF SessionInv, ChannelInv
  <1>2. CASE ~Negotiate
    <2>1. UNCHANGED <<rpc, offered, verdict>>
      <3>1. ASSUME NEW id \in Idents, NEW lan \in SUBSET Roles, Proceed(id, lan)
            PROVE  UNCHANGED <<rpc, offered, verdict>>
        BY <3>1 DEF Proceed
      <3>2. CASE Mux
        BY <3>2 DEF Mux, DialAux, DialAuxFails, AcceptAux, AcceptAuxFails, MuxBegins, Gathered, ReadStatus,
                    NoStatus, Report, routeVars
      <3> QED BY <1>2, <3>1, <3>2 DEF Next, Secure, Crash, vars, routeVars
    <2> QED BY <2>1 DEF Route!Abstract!vars, Route!verdictBar, Route!pathBar, Route!Final
  <1> QED BY <1>1, <1>2

\* The route both peers build their session on is one decision of the relay.
THEOREM Implements == Spec => ImplementsCommit
  <1>1. Init => Route!Abstract!Init
    BY CommitInit DEF Init
  <1> QED BY <1>1, NextImplements, Always, PTL DEF Spec, ImplementsCommit, Route!ImplementsCommit, Route!Abstract!Spec
=============================================================================
