----------------------------- MODULE LanUpgrade -----------------------------
(***************************************************************************)
(* From a committed relay route to a secured channel: each peer may first  *)
(* try to replace the relay pipe by a LAN connection                       *)
(* (resolve_relay_channel), then both run the PAKE on the channel they     *)
(* ended with (perform_handshake).  The two sides start at different       *)
(* times and their two-second limits run independently.                    *)
(*                                                                         *)
(* A frame is its kind.  A LAN connection of the receiver waits in the     *)
(* sender's listener until it is accepted, or is reset when the sender's   *)
(* session ends.                                                           *)
(***************************************************************************)
EXTENDS Naturals, Sequences

CONSTANTS
    TrySets,    \* which peers try the upgrade
    Timely,     \* do both peers begin well within each other's two seconds?
    Leftovers   \* may the route negotiation leave frames in the pipe, or an
                \* abandoned direct connection in the sender's listener?

Peers    == {"sender", "receiver"}
Other(p) == IF p = "sender" THEN "receiver" ELSE "sender"


Routing  == {"direct_ok", "relay_ready"}
Control  == Routing \cup {"ips_request", "ips_response"}
Frames   == Control \cup {"point", "mac"}

VARIABLES
    pc,        \* pc[p]: where peer p is
    chan,      \* chan[p]: the channel peer p holds
    wire,      \* wire[ch][p]: frames on their way to p on channel ch
    shut,      \* channels one end of which is closed
    listener   \* connections waiting in the sender's listener

vars == <<pc, chan, wire, shut, listener>>

Channels == {"relay", "lan", "stale", "direct"}
Ended(p) == pc[p] \in {"secured", "failed"}

\* PeerRouteSession::establish calls resolve_relay_channel if this peer's
\* selection allows it and this peer has LAN discovery on.  A peer whose late
\* direct_ok went into the pipe never allows it.
Init ==
    \E try \in TrySets, stray \in [Peers -> {<< >>} \cup {<<f>> : f \in Routing}] :
        /\ \A p \in try : stray[Other(p)] # <<"direct_ok">>
        /\ ~Leftovers => stray = [p \in Peers |-> << >>]
        /\ pc = [p \in Peers |-> IF p \notin try THEN "securing"
                                 ELSE IF p = "sender" THEN "serving" ELSE "asking"]
        /\ chan = [p \in Peers |-> "relay"]
        /\ wire = [ch \in Channels |-> IF ch = "relay" THEN stray ELSE [p \in Peers |-> << >>]]
        /\ listener \in IF Leftovers THEN {<< >>, <<"stale">>} ELSE {<< >>}
        /\ shut = {"stale"}

-----------------------------------------------------------------------------
Goto(p, s) == pc' = [pc EXCEPT ![p] = s]
Inbox(p)   == wire[chan[p]][p]
Put(p, f)  == wire' = [wire EXCEPT ![chan[p]][Other(p)] = Append(@, f)]
Get(p)     == wire' = [wire EXCEPT ![chan[p]][p] = Tail(@)]
\* recv_frame reports the end: nothing left to read and the other end closed.
AtEnd(p)   == Inbox(p) = << >> /\ chan[p] \in shut

\* An exception ends the session and closes its channel; the sender's listener goes too.
Fail(p) ==
    /\ Goto(p, "failed")
    /\ shut' = shut \cup {chan[p]} \cup (IF p = "sender" THEN {"lan"} ELSE {})
    /\ listener' = IF p = "sender" THEN << >> ELSE listener
    /\ UNCHANGED chan

\* The relay connection is given up for another channel.
\* Mutant: it is left open.
SwitchTo_KeepsRelay(p, ch) ==
    /\ chan' = [chan EXCEPT ![p] = ch]
    /\ Goto(p, "securing")
    /\ UNCHANGED shut
SwitchTo(p, ch) ==
    /\ chan' = [chan EXCEPT ![p] = ch]
    /\ Goto(p, "securing")
    /\ shut' = shut \cup {"relay"}

-----------------------------------------------------------------------------
(* resolve_relay_channel, the receiver.                                    *)

Ask ==
    /\ pc["receiver"] = "asking"
    /\ Put("receiver", "ips_request")
    /\ Goto("receiver", "awaiting")
    /\ UNCHANGED <<chan, shut, listener>>

\* Any control frame ends the wait; a frame that is no JSON object throws.
ReadAnswer ==
    /\ pc["receiver"] = "awaiting" /\ Inbox("receiver") # << >>
    /\ Get("receiver")
    /\ \/ /\ Head(Inbox("receiver")) \in Control
          /\ Goto("receiver", IF Head(Inbox("receiver")) = "ips_response" THEN "dialing" ELSE "securing")
          /\ UNCHANGED <<chan, shut, listener>>
       \/ Head(Inbox("receiver")) \notin Control /\ Fail("receiver")

\* Two seconds without an answer, or the stream ended.
NoAnswer ==
    /\ pc["receiver"] = "awaiting" /\ ~Timely
    /\ Goto("receiver", "securing")
    /\ UNCHANGED <<chan, wire, shut, listener>>

\* A candidate accepts: the connection is in the sender's listener.
Dial ==
    /\ pc["receiver"] = "dialing" /\ pc["sender"] # "failed"
    /\ listener' = Append(listener, "lan")
    /\ SwitchTo("receiver", "lan")
    /\ UNCHANGED wire

DialFails ==
    /\ pc["receiver"] = "dialing"
    /\ Goto("receiver", "securing")
    /\ UNCHANGED <<chan, wire, shut, listener>>

-----------------------------------------------------------------------------
(* resolve_relay_channel, the sender: two seconds of accepting and reading. *)

Serve ==
    /\ pc["sender"] = "serving" /\ listener # << >>
    /\ listener' = Tail(listener)
    /\ SwitchTo("sender", Head(listener))
    /\ UNCHANGED wire

\* ips_request is answered, every other control frame is dropped.
ServeFrame ==
    /\ pc["sender"] = "serving" /\ Inbox("sender") # << >>
    /\ \/ /\ Head(Inbox("sender")) = "ips_request"
          /\ wire' = [wire EXCEPT !["relay"]["sender"] = Tail(@),
                                  !["relay"]["receiver"] = Append(@, "ips_response")]
          /\ UNCHANGED <<pc, chan, shut, listener>>
       \/ /\ Head(Inbox("sender")) \in Control \ {"ips_request"}
          /\ Get("sender")
          /\ UNCHANGED <<pc, chan, shut, listener>>
       \/ /\ Head(Inbox("sender")) \notin Control
          /\ Get("sender") /\ Fail("sender")

ServeEnds ==
    /\ pc["sender"] = "serving"
    /\ Timely => pc["receiver"] \notin {"asking", "awaiting"}
    /\ Goto("sender", "securing")
    /\ UNCHANGED <<chan, wire, shut, listener>>

-----------------------------------------------------------------------------
(* perform_handshake: a point each way, then a confirmation each way.      *)

SendPoint(p) ==
    /\ pc[p] = "securing"
    /\ Put(p, "point")
    /\ Goto(p, "await_point")
    /\ UNCHANGED <<chan, shut, listener>>

\* The other end closed, or a frame that is not a point.
ReadPoint(p) ==
    /\ pc[p] = "await_point"
    /\ \/ /\ Inbox(p) # << >> /\ Head(Inbox(p)) = "point"
          /\ wire' = [wire EXCEPT ![chan[p]][p] = Tail(@), ![chan[p]][Other(p)] = Append(@, "mac")]
          /\ Goto(p, "await_mac")
          /\ UNCHANGED <<chan, shut, listener>>
       \/ /\ Inbox(p) # << >> /\ Head(Inbox(p)) # "point"
          /\ Get(p) /\ Fail(p)
       \/ /\ AtEnd(p)
          /\ Fail(p) /\ UNCHANGED wire

\* Mutant: the confirmation of the peer is not waited for.
ReadMac_Unchecked(p) ==
    /\ pc[p] = "await_mac"
    /\ Goto(p, "secured") /\ UNCHANGED <<chan, wire, shut, listener>>
ReadMac(p) ==
    /\ pc[p] = "await_mac"
    /\ \/ /\ Inbox(p) # << >> /\ Head(Inbox(p)) = "mac"
          /\ Get(p) /\ Goto(p, "secured")
          /\ UNCHANGED <<chan, shut, listener>>
       \/ /\ Inbox(p) # << >> /\ Head(Inbox(p)) # "mac"
          /\ Get(p) /\ Fail(p)
       \/ /\ AtEnd(p)
          /\ Fail(p) /\ UNCHANGED wire

-----------------------------------------------------------------------------
Upgrade == Ask \/ ReadAnswer \/ NoAnswer \/ Dial \/ DialFails \/ Serve \/ ServeFrame \/ ServeEnds
Secure(p) == SendPoint(p) \/ ReadPoint(p) \/ ReadMac(p)

Next == Upgrade \/ (\E p \in Peers : Secure(p))

Spec == Init /\ [][Next]_vars

-----------------------------------------------------------------------------
\* Every variable has its type: a peer always holds a channel that exists.
TypeOK ==
    /\ pc \in [Peers -> {"asking", "awaiting", "dialing", "serving", "securing",
                         "await_point", "await_mac", "secured", "failed"}]
    /\ chan \in [Peers -> Channels]
    /\ wire \in [Channels -> [Peers -> Seq(Frames)]]
    /\ shut \subseteq Channels
    /\ listener \in Seq({"lan", "stale"})

\* An upgrade that fails leaves the pair on the relay channel.
UpgradeHarmless == \A p \in Peers : pc[p] # "failed"
=============================================================================
