----------------------------- MODULE RelayRooms -----------------------------
(***************************************************************************)
(* The relay server: the accept loop with its bounded pool of client       *)
(* workers, the room table (waiting_ and active_rooms_) behind one mutex,  *)
(* the life of one handle_client worker from the first frame to the last   *)
(* close, the cleanup thread, and BackgroundRelay::stop.                   *)
(*                                                                         *)
(* A connection and the worker that handles it have the same name c: every *)
(* accepted socket gets exactly one worker.  A worker that registers its   *)
(* socket as waiting returns ("done") and leaves the socket in the table;  *)
(* the worker that later matches it owns both sockets.  What the two peers *)
(* say while a route is chosen is abstracted to the three possible         *)
(* decisions; module RelayRoute models it.                                 *)
(***************************************************************************)
EXTENDS Naturals, FiniteSets

CONSTANTS
    Conns,        \* client connections, each with the worker that serves it
    Rooms,        \* room tokens
    AuxIndices,   \* conn_index values > 0: auxiliary mux connections
    NoConn,       \* an empty slot of the room table, an unset partner
    MaxWaiting,   \* config max_waiting_peers
    MaxWorkers,   \* config max_client_workers
    RoomsExpire,  \* room_ttl > 0: waiting registrations grow stale
    MayStall      \* clients that may stop reading while they are in a pipe

ASSUME ConnsAssumption   == NoConn \notin Conns
ASSUME IndexAssumption   == AuxIndices \subseteq Nat \ {0}
ASSUME LimitsAssumption  == MaxWaiting \in Nat /\ MaxWorkers \in Nat
ASSUME ExpiryAssumption  == RoomsExpire \in BOOLEAN
ASSUME StallAssumption   == MayStall \subseteq Conns

VARIABLES
    link,      \* link[c]: the relay's end of connection c
    gone,      \* clients whose hang-up has reached the relay
    step,      \* step[c]: where worker c is in handle_client
    hello,     \* hello[c]: the registration worker c decoded
    mate,      \* mate[c]: the matched socket that worker c owns (`other`)
    told,      \* told[c]: the kinds of control message sent to client c
    full,      \* clients to which a pipe thread sits in a send that does not return
    waiting,   \* RelayRoomState::waiting_, by match key
    active,    \* RelayRoomState::active_rooms_
    stale,     \* waiting clients registered longer ago than room_ttl
    workers,   \* the client_workers vector
    cancelled, \* workers whose cancel flag is set and whose socket is shut
    acceptor,  \* is the accept thread running
    srv        \* how far BackgroundRelay::stop has come

roomVars == <<waiting, active, stale>>
srvVars  == <<workers, cancelled, acceptor, srv>>
vars == <<link, gone, step, hello, full, mate, told, roomVars, srvVars>>

-----------------------------------------------------------------------------
Roles == {"sender", "receiver"}
Keys  == Rooms \X ({0} \cup AuxIndices)       \* room + "#" + conn_index
Hello == {h \in [room : Rooms, index : {0} \cup AuxIndices, role : Roles, aux : BOOLEAN] :
             h.index > 0 => h.aux}            \* decode_relay_hello
Steps == {"none", "reading", "pinged", "purging", "pairing",
          "peers", "routing", "piping", "release", "closing", "done"}

\* Errors and outcomes that end a client's conversation with the relay.
\* "refused" stands for bad_password, invalid_hello and the answer to a punch probe.
Verdicts == {"room_full", "server_busy", "room_expired", "refused",
             "direct_start", "relay_start", "done"}
Notices  == Verdicts \cup {"peer"}

NoHello == [room |-> NoConn, index |-> 0, role |-> NoConn, aux |-> FALSE]

KeyOf(h)    == <<h.room, h.index>>
Aux(h)      == h.aux                          \* RelayHello::auxiliary
Limit       == IF MaxWorkers = 0 THEN 1 ELSE MaxWorkers
Occupied    == {k \in Keys : waiting[k] # NoConn}
Waiters     == {waiting[k] : k \in Occupied}
Running     == {w \in workers : step[w] # "done"}

\* Worker w owns the socket of mate[w] besides its own.
Paired(w) == step[w] \in {"peers", "routing", "piping", "release", "closing"}
\* Worker w holds the ActiveRoomCleanup guard of its room.
Claims(w) == step[w] \in {"peers", "routing", "piping", "release"} /\ ~Aux(hello[w])

\* A send on this socket may throw, a read on it may report the end.
\* Mutant: the interrupt does not shut the socket.
Broken_NoInterrupt(c) == c \in gone
Broken(c) == c \in gone \cup cancelled

Tell(cs, m) == told' = [c \in Conns |-> IF c \in cs THEN told[c] \cup {m} ELSE told[c]]
Shut(cs)    == link' = [c \in Conns |-> IF c \in cs THEN "closed" ELSE link[c]]
Goto(w, s)  == step' = [step EXCEPT ![w] = s]

\* A control message to the partner and then to the worker's own client.  A
\* send to a broken socket may throw: the partner may have been told or not.
TellBoth(w, m) == Tell({mate[w], w}, m) /\ ~(mate[w] \in cancelled \/ w \in cancelled)
TellThrows(w, m) ==
    \/ Broken(mate[w]) /\ UNCHANGED told
    \/ Broken(w) /\ Tell({mate[w]}, m)

Init ==
    /\ link = [c \in Conns |-> "new"]
    /\ gone = {}
    /\ step = [c \in Conns |-> "none"]
    /\ hello = [c \in Conns |-> NoHello]
    /\ mate = [c \in Conns |-> NoConn]
    /\ told = [c \in Conns |-> {}]
    /\ full = {}
    /\ waiting = [k \in Keys |-> NoConn]
    /\ active = {}
    /\ stale = {}
    /\ workers = {}
    /\ cancelled = {}
    /\ acceptor = TRUE
    /\ srv = "up"

-----------------------------------------------------------------------------
(* Clients, as the relay sees them.                                        *)

Connect(c) ==
    /\ link[c] = "new" /\ srv # "stopped"
    /\ link' = [link EXCEPT ![c] = "queued"]
    /\ UNCHANGED <<gone, step, hello, full, mate, told, roomVars, srvVars>>

Hangup(c) ==
    /\ link[c] \in {"queued", "open"} /\ c \notin gone
    /\ gone' = gone \cup {c}
    /\ UNCHANGED <<link, step, hello, full, mate, told, roomVars, srvVars>>

\* room_ttl elapses for a waiting registration.
Age(c) ==
    /\ RoomsExpire /\ c \in Waiters \ stale
    /\ stale' = stale \cup {c}
    /\ UNCHANGED <<link, gone, step, hello, full, mate, told, waiting, active, srvVars>>

-----------------------------------------------------------------------------
(* The accept thread.                                                      *)

\* start_client_worker: reap, then refuse at the limit or start a worker.
Accept(c) ==
    /\ acceptor /\ link[c] = "queued"
    /\ \/ /\ Cardinality(Running) >= Limit
          /\ workers' = Running
          /\ Shut({c}) /\ Tell({c}, "server_busy")
          /\ UNCHANGED step
       \/ /\ Cardinality(Running) < Limit
          /\ workers' = Running \cup {c}
          /\ link' = [link EXCEPT ![c] = "open"]
          /\ Goto(c, "reading")
          /\ UNCHANGED told
    /\ UNCHANGED <<gone, hello, full, mate, roomVars, cancelled, acceptor, srv>>

\* The accept loop reaps between two accepts.
ReapFinished ==
    /\ acceptor /\ Running # workers
    /\ workers' = Running
    /\ UNCHANGED <<link, gone, step, hello, full, mate, told, roomVars, cancelled, acceptor, srv>>

\* The accept loop leaves: it saw the stop flag, or accept failed.
AcceptorEnds ==
    /\ acceptor
    /\ acceptor' = FALSE
    /\ workers' = IF srv = "stopping" THEN Running ELSE workers
    /\ UNCHANGED <<link, gone, step, hello, full, mate, told, roomVars, cancelled, srv>>

-----------------------------------------------------------------------------
(* handle_client up to the registration.                                   *)

\* A ping is answered with a pong and may be followed by one more frame.
ReadPing(w) ==
    /\ step[w] = "reading" /\ w \notin cancelled
    /\ Goto(w, "pinged")
    /\ UNCHANGED <<link, gone, hello, full, mate, told, roomVars, srvVars>>

\* Nothing readable, cancelled, a punch probe, a bad password or a bad hello.
ReadRefused(w) ==
    /\ step[w] \in {"reading", "pinged"}
    /\ UNCHANGED told \/ (w \notin cancelled /\ Tell({w}, "refused"))
    /\ Shut({w}) /\ Goto(w, "done")
    /\ UNCHANGED <<gone, hello, full, mate, roomVars, srvVars>>

ReadHello(w, h) ==
    /\ step[w] \in {"reading", "pinged"} /\ w \notin cancelled
    /\ hello' = [hello EXCEPT ![w] = h]
    /\ Goto(w, "purging")
    /\ UNCHANGED <<link, gone, full, mate, told, roomVars, srvVars>>

-----------------------------------------------------------------------------
(* RelayRoomState: each operation holds the mutex.  The sockets that        *)
(* purge_stale_waiting and close_waiting move out of the table belong to    *)
(* the caller alone, which closes them after unlocking: one step here.      *)

\* socket_is_dead: readable with nothing to read.  Bytes that arrived before the
\* hang-up and that nobody has read hide it.
Dead(c, unread) == Broken(c) /\ c \notin unread

\* Only an auxiliary client sends before it is matched: its data frames.
MayBeUnread == {c \in Waiters : Aux(hello[c])}

\* Mutant: the time-to-live is never compared.
purge_stale_waiting_NoTtl ==
    LET out == {c \in Waiters : Broken(c)}
    IN  /\ waiting' = [k \in Keys |-> IF waiting[k] \in out THEN NoConn ELSE waiting[k]]
        /\ Tell(out, "room_expired") /\ Shut(out)
        /\ UNCHANGED <<active, stale>>

purge_stale_waiting ==
    \E unread \in SUBSET MayBeUnread :
    LET out == {c \in Waiters : c \in stale \/ Dead(c, unread)}
    IN  /\ waiting' = [k \in Keys |-> IF waiting[k] \in out THEN NoConn ELSE waiting[k]]
        /\ Tell(out, "room_expired") /\ Shut(out)
        /\ UNCHANGED <<active, stale>>

Reject(w, m) ==
    /\ Tell({w}, m) /\ Shut({w}) /\ Goto(w, "done")
    /\ UNCHANGED <<mate, waiting, active>>

\* waiting_ has reached its limit.
TableFull == Cardinality(Occupied) >= MaxWaiting

\* The waiting peer is moved out of the table.  Mutant: its entry is not erased.
TakeWaiting_NotErased(k) == UNCHANGED waiting
TakeWaiting(k) == waiting' = [waiting EXCEPT ![k] = NoConn]

\* A primary pair claims relay_room_base(match_key).
ClaimRoom(h) == active' = IF Aux(h) THEN active ELSE active \cup {h.room}

pair_or_wait(w) ==
    LET h == hello[w]
        k == KeyOf(h)
    IN  \/ /\ ~Aux(h) /\ h.room \in active
           /\ Reject(w, "room_full")
        \/ /\ Aux(h) \/ h.room \notin active
           /\ waiting[k] = NoConn
           /\ \/ /\ TableFull
                 /\ Reject(w, "server_busy")
              \/ /\ ~TableFull
                 /\ waiting' = [waiting EXCEPT ![k] = w]
                 /\ Goto(w, "done")
                 /\ UNCHANGED <<link, told, mate, active>>
        \/ /\ Aux(h) \/ h.room \notin active
           /\ waiting[k] # NoConn
           /\ \/ /\ hello[waiting[k]].role = h.role
                 /\ Reject(w, "room_full")
              \/ /\ hello[waiting[k]].role # h.role
                 /\ TakeWaiting(k)
                 /\ mate' = [mate EXCEPT ![w] = waiting[k]]
                 /\ ClaimRoom(h)
                 /\ Goto(w, IF Aux(h) THEN "piping" ELSE "peers")
                 /\ UNCHANGED <<link, told>>

\* Mutant: the room is never given back.
release_active_room_Leak(w) == UNCHANGED roomVars
release_active_room(w) ==
    /\ active' = active \ {hello[w].room}
    /\ UNCHANGED <<waiting, stale>>

close_waiting ==
    /\ waiting' = [k \in Keys |-> NoConn]
    /\ Shut(Waiters)
    /\ UNCHANGED <<active, stale>>

-----------------------------------------------------------------------------
(* handle_client from the registration on, and the cleanup thread.         *)

Purge(w) ==
    /\ step[w] = "purging"
    /\ purge_stale_waiting
    /\ Goto(w, "pairing")
    /\ UNCHANGED <<gone, hello, full, mate, srvVars>>

CleanupTick ==
    /\ srv # "stopped"
    /\ purge_stale_waiting
    /\ UNCHANGED <<gone, step, hello, full, mate, srvVars>>

Pair(w) ==
    /\ step[w] = "pairing"
    /\ pair_or_wait(w)
    /\ UNCHANGED <<gone, hello, full, stale, srvVars>>

SendPeers(w) ==
    /\ step[w] = "peers"
    /\ \/ TellBoth(w, "peer") /\ Goto(w, "routing")
       \/ TellThrows(w, "peer") /\ Goto(w, "release")
    /\ UNCHANGED <<link, gone, hello, full, mate, roomVars, srvVars>>

\* The cancel flag is polled before the reads: a decision reached just after it was
\* set still goes out, and fails at the socket the interrupt shut.
DecideDirect(w) ==
    /\ step[w] = "routing"
    /\ TellBoth(w, "direct_start") \/ TellThrows(w, "direct_start")
    /\ Goto(w, "release")
    /\ UNCHANGED <<link, gone, hello, full, mate, roomVars, srvVars>>

DecideRelay(w) ==
    /\ step[w] = "routing"
    /\ \/ TellBoth(w, "relay_start") /\ Goto(w, "piping")
       \/ TellThrows(w, "relay_start") /\ Goto(w, "release")
    /\ UNCHANGED <<link, gone, hello, full, mate, roomVars, srvVars>>

\* Cancelled, a peer closed or sent another message, or silence until the deadline;
\* what is no message throws, and nobody is told.
DecideNothing(w) ==
    /\ step[w] = "routing"
    /\ Tell({mate[w], w}, "done") \/ UNCHANGED told
    /\ Goto(w, "release")
    /\ UNCHANGED <<link, gone, hello, full, mate, roomVars, srvVars>>

\* relay_stream_sync: a pipe thread copies from one client to the other, and its
\* send has no time limit.  A client that stops reading holds it there.
StopsReading(c) ==
    /\ c \in MayStall \ full
    /\ \E w \in Conns : step[w] = "piping" /\ c \in {w, mate[w]}
    /\ ~Broken(c)
    /\ full' = full \cup {c}
    /\ UNCHANGED <<link, gone, step, hello, mate, told, roomVars, srvVars>>

ReadsOn(c) ==
    /\ c \in full
    /\ full' = full \ {c}
    /\ UNCHANGED <<link, gone, step, hello, mate, told, roomVars, srvVars>>

\* The first thread to end shuts both sockets, which ends the other one too.
PipeReturns(w) ==
    /\ Shut({w, mate[w]})
    /\ full' = full \ {w, mate[w]}
    /\ Goto(w, IF Aux(hello[w]) THEN "done" ELSE "release")
    /\ UNCHANGED <<gone, hello, mate, told, roomVars, srvVars>>

\* The thread to a client ends: the send it sits in fails, or it reads the end of
\* the other client.
CopyEnds(from, to) == IF to \in full THEN Broken(to) ELSE Broken(from)

\* Mutant: the threads wait for both ends to break.
PipeEnds_BothEnds(w) ==
    /\ step[w] = "piping" /\ Broken(w) /\ Broken(mate[w])
    /\ PipeReturns(w)
PipeEnds(w) ==
    /\ step[w] = "piping" /\ (CopyEnds(w, mate[w]) \/ CopyEnds(mate[w], w))
    /\ PipeReturns(w)

\* A client sends more for the other one, which is gone.
SendsInVain(w) ==
    /\ step[w] = "piping" /\ \E c \in {w, mate[w]} : Broken(c) /\ c \notin full
    /\ PipeReturns(w)

\* ~ActiveRoomCleanup runs before the two sockets are destroyed.
Release(w) ==
    /\ step[w] = "release"
    /\ release_active_room(w)
    /\ Goto(w, "closing")
    /\ UNCHANGED <<link, gone, hello, full, mate, told, srvVars>>

\* Mutant: only the worker's own socket is closed.
Close_OwnOnly(w) ==
    /\ step[w] = "closing"
    /\ Shut({w}) /\ Goto(w, "done")
    /\ UNCHANGED <<gone, hello, full, mate, told, roomVars, srvVars>>
Close(w) ==
    /\ step[w] = "closing"
    /\ Shut({w, mate[w]})
    /\ Goto(w, "done")
    /\ UNCHANGED <<gone, hello, full, mate, told, roomVars, srvVars>>

-----------------------------------------------------------------------------
(* BackgroundRelay::stop.                                                  *)

RequestStop ==
    /\ srv = "up"
    /\ srv' = "stopping"
    /\ UNCHANGED <<link, gone, step, hello, full, mate, told, roomVars, workers, cancelled, acceptor>>

\* The accept thread is joined, then close_waiting runs.
SweepWaiting ==
    /\ srv = "stopping" /\ ~acceptor
    /\ close_waiting
    /\ srv' = "cancelling"
    /\ UNCHANGED <<gone, step, hello, full, mate, told, workers, cancelled, acceptor>>

\* The cancel flag, then the shutdown of the socket that worker was started with.
CancelWorker(w) ==
    /\ srv = "cancelling" /\ w \in workers \ cancelled
    /\ cancelled' = cancelled \cup {w}
    /\ UNCHANGED <<link, gone, step, hello, full, mate, told, roomVars, workers, acceptor, srv>>

\* Every worker is joined; destroying Impl destroys the table and the listener.
\* Mutant: the workers are cancelled but not joined.
StopReturns_NoJoin ==
    /\ srv = "cancelling" /\ workers \subseteq cancelled
    /\ srv' = "stopped"
    /\ workers' = {}
    /\ waiting' = [k \in Keys |-> NoConn]
    /\ Shut(Waiters \cup {c \in Conns : link[c] = "queued"})
    /\ UNCHANGED <<gone, step, hello, full, mate, told, active, stale, cancelled, acceptor>>
StopReturns ==
    /\ srv = "cancelling" /\ workers \subseteq cancelled /\ Running = {}
    /\ srv' = "stopped"
    /\ workers' = {}
    /\ waiting' = [k \in Keys |-> NoConn]
    /\ Shut(Waiters \cup {c \in Conns : link[c] = "queued"})
    /\ UNCHANGED <<gone, step, hello, full, mate, told, active, stale, cancelled, acceptor>>

-----------------------------------------------------------------------------
Client(c) == Connect(c) \/ Hangup(c) \/ Age(c) \/ StopsReading(c) \/ ReadsOn(c)

Handle(w) ==
    \/ ReadPing(w) \/ ReadRefused(w) \/ (\E h \in Hello : ReadHello(w, h))
    \/ Purge(w) \/ Pair(w) \/ SendPeers(w)
    \/ DecideDirect(w) \/ DecideRelay(w) \/ DecideNothing(w)
    \/ PipeEnds(w) \/ Release(w) \/ Close(w)

Server ==
    \/ (\E c \in Conns : Accept(c)) \/ ReapFinished \/ AcceptorEnds \/ CleanupTick
    \/ RequestStop \/ SweepWaiting \/ (\E w \in Conns : CancelWorker(w)) \/ StopReturns

Next == (\E c \in Conns : Client(c) \/ Handle(c) \/ SendsInVain(c)) \/ Server

Spec == Init /\ [][Next]_vars

\* Worker and cleanup threads keep running; the control reads have timeouts and
\* the route wait has a deadline, so every step of a handler is taken if it stays
\* enabled.  What a broken client has left in the pipe is finite, so a peer that
\* reads on again and again comes to its end.  Nothing else is assumed of clients
\* but that time passes.
Fairness ==
    /\ \A c \in Conns : WF_vars(Handle(c)) /\ WF_vars(Age(c)) /\ WF_vars(CancelWorker(c))
    /\ \A c \in Conns : SF_vars(PipeEnds(c))
    /\ WF_vars(CleanupTick)
    /\ WF_vars(AcceptorEnds /\ srv = "stopping") /\ WF_vars(SweepWaiting) /\ WF_vars(StopReturns)

FairSpec == Spec /\ Fairness

-----------------------------------------------------------------------------
\* Every variable has its type: the table maps match keys to connections, and
\* active_rooms_ holds room tokens, never whole match keys (relay_room_base).
TypeOK ==
    /\ link \in [Conns -> {"new", "queued", "open", "closed"}]
    /\ gone \subseteq Conns
    /\ step \in [Conns -> Steps]
    /\ hello \in [Conns -> Hello \cup {NoHello}]
    /\ mate \in [Conns -> Conns \cup {NoConn}]
    /\ told \in [Conns -> SUBSET Notices]
    /\ full \subseteq Conns
    /\ waiting \in [Keys -> Conns \cup {NoConn}]
    /\ active \subseteq Rooms
    /\ stale \subseteq Conns
    /\ workers \subseteq Conns
    /\ cancelled \subseteq Conns
    /\ acceptor \in BOOLEAN
    /\ srv \in {"up", "stopping", "cancelling", "stopped"}

-----------------------------------------------------------------------------
(* Safety.                                                                 *)

\* A socket in the waiting table is open, registered under that very key, and
\* the worker that registered it has returned: nobody else uses the socket.
WaitersParked ==
    \A k \in Keys : waiting[k] # NoConn =>
        /\ step[waiting[k]] = "done"
        /\ link[waiting[k]] = "open"
        /\ KeyOf(hello[waiting[k]]) = k

\* A matched pair has one key and two roles, and the matched socket has left the table.
PairsSound ==
    \A w \in Conns : Paired(w) =>
        /\ mate[w] \in Conns /\ mate[w] \notin Waiters
        /\ step[mate[w]] = "done"
        /\ KeyOf(hello[mate[w]]) = KeyOf(hello[w])
        /\ hello[mate[w]].role # hello[w].role

\* Every socket has one owner.  pair_or_wait moves a waiting socket out of the
\* table into exactly one worker; purge and close_waiting never take a socket
\* that some worker is using, and no two workers are given the same partner.
OneOwner ==
    /\ WaitersParked
    /\ PairsSound
    /\ \A v, w \in Conns : Paired(v) /\ Paired(w) /\ mate[v] = mate[w] => v = w

\* active_rooms_ holds exactly the rooms some worker has claimed, and no room is
\* claimed twice: every path out of handle_client releases its own room, and
\* only its own, so a room is neither leaked nor freed under a running pair.
RoomClaimedOnce ==
    /\ active = {hello[w].room : w \in {v \in Conns : Claims(v)}}
    /\ \A v, w \in Conns : Claims(v) /\ Claims(w) /\ hello[v].room = hello[w].room => v = w

\* No socket is forgotten open, and the sockets of a pair stay open until the pair
\* is finished: the relay neither leaks a descriptor nor writes to a closed one.
SocketsAccounted ==
    \A c \in Conns :
        /\ link[c] = "open" =>
              \/ step[c] \notin {"none", "done"}
              \/ c \in Waiters
              \/ \E w \in Conns : Paired(w) /\ mate[w] = c
        /\ step[c] \in {"peers", "routing", "piping"} =>
              link[c] = "open" /\ link[mate[c]] = "open"

\* The waiting table and the worker pool stay within their configured limits.
WithinLimits ==
    /\ Cardinality(Occupied) <= MaxWaiting
    /\ Cardinality(workers) <= Limit

\* A client hears at most one verdict (an error, a start or done): it is never,
\* say, told that its room expired and then paired, or rejected and then started.
OneVerdict ==
    \A c \in Conns : \A m, n \in told[c] \cap Verdicts : m = n

\* When stop returns, every worker has ended and every socket is closed, also the
\* one a late worker put into the table after close_waiting had emptied it.
StoppedClean ==
    srv = "stopped" =>
        /\ active = {} /\ Occupied = {}
        /\ \A c \in Conns : step[c] \in {"none", "done"} /\ link[c] \in {"new", "closed"}

(* Liveness.                                                               *)

\* A worker's pipe is held: one end is broken, and the thread that would read it
\* sits in a send to the other end, which neither reads nor sends nor hangs up.
Held(w) ==
    /\ step[w] = "piping" /\ (Broken(w) \/ Broken(mate[w]))
    /\ ~CopyEnds(w, mate[w]) /\ ~CopyEnds(mate[w], w)

\* stop() returns: no worker outlives the cancel flags and the interrupts, unless a
\* client holds its pipe for ever.
StopCompletes ==
    (\A w \in Conns : []<>~Held(w)) => (srv = "stopping" ~> srv = "stopped")

\* What relay_test.cpp says of stop(), without that exception.
StopReturnsAlways == srv = "stopping" ~> srv = "stopped"

\* A room is free again once a peer of the pair that claimed it has hung up, unless
\* the other one holds this very pipe for ever.
HangupFreesRoom ==
    \A w \in Conns : ([]<>~Held(w)) =>
        ((Claims(w) /\ (w \in gone \/ mate[w] \in gone)) ~> ~Claims(w))

\* With a room_ttl no client waits for ever: it is paired, expired or swept.
WaitersResolve == RoomsExpire => \A c \in Conns : c \in Waiters ~> c \notin Waiters
=============================================================================
