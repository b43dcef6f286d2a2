-------------------------- MODULE RelayRooms_proofs --------------------------
(* Proofs about the relay server for every number of connections, rooms and *)
(* auxiliary indices and every value of the limits.                         *)
EXTENDS RelayRooms, FiniteSetTheorems, TLAPS

USE ConnsAssumption, ExpiryAssumption

\* A decoded registration has a match key of the table.
LEMMA KeyOfHello == \A h \in Hello : KeyOf(h) \in Keys
  BY DEF Hello, Keys, KeyOf

-----------------------------------------------------------------------------
\* A worker that has registered knows its registration.
HelloKnown ==
    \A w \in Conns : step[w] \in {"purging", "pairing"} \/ Paired(w) => hello[w] \in Hello

Base == TypeOK /\ HelloKnown

\* The type invariant, with the fact that a handler past its hello has one, is inductive.
LEMMA BaseHolds == Spec => []Base
<1>1. Init => Base
  BY DEF Init, Base, TypeOK, Steps, Notices, HelloKnown, Paired
<1>2. Base /\ [Next]_vars => Base'
  <2> SUFFICES ASSUME Base, [Next]_vars PROVE Base'
    OBVIOUS
  <2> USE DEF Base, TypeOK, HelloKnown, Paired
  <2>1. ASSUME NEW c \in Conns, Client(c) PROVE Base'
    BY <2>1 DEF Client, Connect, Hangup, Age, StopsReading, ReadsOn, roomVars, srvVars, Waiters,
         Occupied
  <2>2. ASSUME NEW w \in Conns, Handle(w) \/ SendsInVain(w) PROVE Base'
    <3> USE DEF Goto, Tell, Shut, roomVars, srvVars, Steps, Notices, Verdicts
    <3>1. CASE ReadPing(w)
      BY <3>1 DEF ReadPing
    <3>2. CASE ReadRefused(w)
      BY <3>2 DEF ReadRefused
    <3>3. CASE \E h \in Hello : ReadHello(w, h)
      BY <3>3 DEF ReadHello
    <3>4. CASE Purge(w)
      BY <3>4 DEF Purge, purge_stale_waiting
    <3>5. CASE Pair(w)
      <4>1. hello[w] \in Hello /\ hello[w].room \in Rooms /\ KeyOf(hello[w]) \in Keys
        BY <3>5, KeyOfHello DEF Pair, Hello
      <4>2. step' \in [Conns -> Steps] /\ \A v \in Conns \ {w} : step'[v] = step[v]
        BY <3>5 DEF Pair, pair_or_wait, Reject
      <4> QED
        BY <3>5, <4>1, <4>2 DEF Pair, pair_or_wait, Reject, TakeWaiting, ClaimRoom
    <3>6. CASE SendPeers(w)
      BY <3>6 DEF SendPeers, TellBoth, TellThrows
    <3>7. CASE DecideDirect(w)
      BY <3>7 DEF DecideDirect, TellBoth, TellThrows
    <3>8. CASE DecideRelay(w)
      BY <3>8 DEF DecideRelay, TellBoth, TellThrows
    <3>9. CASE DecideNothing(w)
      BY <3>9 DEF DecideNothing
    <3>10. CASE PipeEnds(w) \/ SendsInVain(w)
      BY <3>10 DEF PipeEnds, SendsInVain, PipeReturns
    <3>11. CASE Release(w)
      BY <3>11 DEF Release, release_active_room
    <3>12. CASE Close(w)
      BY <3>12 DEF Close
    <3> QED
      BY <2>2, <3>1, <3>2, <3>3, <3>4, <3>5, <3>6, <3>7, <3>8, <3>9, <3>10, <3>11, <3>12
         DEF Handle
  <2>3. ASSUME Server PROVE Base'
    <3> USE DEF Goto, Tell, Shut, roomVars, srvVars, Steps, Notices, Verdicts, Running
    <3>1. CASE \E c \in Conns : Accept(c)
      BY <3>1 DEF Accept
    <3>2. CASE ReapFinished \/ AcceptorEnds
      BY <3>2 DEF ReapFinished, AcceptorEnds
    <3>3. CASE CleanupTick
      BY <3>3 DEF CleanupTick, purge_stale_waiting
    <3>4. CASE RequestStop \/ (\E w \in Conns : CancelWorker(w))
      BY <3>4 DEF RequestStop, CancelWorker
    <3>5. CASE SweepWaiting
      BY <3>5 DEF SweepWaiting, close_waiting
    <3>6. CASE StopReturns
      BY <3>6 DEF StopReturns
    <3> QED
      BY <2>3, <3>1, <3>2, <3>3, <3>4, <3>5, <3>6 DEF Server
  <2>4. CASE UNCHANGED vars
    BY <2>4 DEF vars, roomVars, srvVars
  <2> QED
    BY <2>1, <2>2, <2>3, <2>4 DEF Next
<1> QED
  BY <1>1, <1>2, PTL DEF Spec

\* The variables of the relay model stay in their sets.
THEOREM TypeCorrect == Spec => []TypeOK
  BY BaseHolds, PTL DEF Base

-----------------------------------------------------------------------------
\* A socket is open while its worker is reading or registering, and a
\* connection that was not accepted has no worker.
Phases ==
    \A c \in Conns :
        /\ link[c] \in {"new", "queued"} => step[c] = "none"
        /\ step[c] \in {"reading", "pinged", "purging", "pairing"} => link[c] = "open"

\* OneOwner is inductive together with what is open when.
Owned == Phases /\ OneOwner /\ SocketsAccounted

\* Closing some waiting sockets and dropping them from the table (and closing
\* connections nobody has accepted) disturbs no owner.
LEMMA DropWaiters ==
  ASSUME Base, Owned,
         NEW out, out \subseteq Waiters,
         NEW queue, queue \subseteq {c \in Conns : link[c] = "queued"},
         waiting' = [k \in Keys |-> IF waiting[k] \in out THEN NoConn ELSE waiting[k]],
         Shut(out \cup queue), UNCHANGED <<hello, mate>>,
         step' \in [Conns -> Steps],
         \A c \in Conns : step'[c] = step[c] \/ (step[c] = "purging" /\ step'[c] = "pairing")
  PROVE  Owned'
<1> USE DEF Base, TypeOK
<1>1. Waiters' = Waiters \ out
  BY DEF Waiters, Occupied, Shut
<1>2. \A c \in Conns : (step'[c] = "done") = (step[c] = "done")
                   /\ (step'[c] = "none") = (step[c] = "none") /\ Paired(c)' = Paired(c)
  BY DEF Paired
<1>3. \A c \in Waiters : c \in Conns /\ step[c] = "done" /\ link[c] = "open"
  BY DEF Owned, OneOwner, WaitersParked, Waiters, Occupied
<1>4. \A c \in Conns : link'[c] = IF c \in out \cup queue THEN "closed" ELSE link[c]
  BY DEF Shut
<1>5. Phases'
  BY <1>2, <1>3, <1>4 DEF Owned, Phases
<1>6. WaitersParked'
  BY <1>1, <1>2, <1>3, <1>4 DEF Owned, OneOwner, WaitersParked, Waiters, Occupied
<1>7. PairsSound'
  BY <1>1, <1>2 DEF Owned, OneOwner, PairsSound, Paired
<1>8. OneOwner'
  BY <1>2, <1>6, <1>7 DEF Owned, OneOwner
<1>9. SocketsAccounted'
  <2> SUFFICES ASSUME NEW c \in Conns
               PROVE  /\ link'[c] = "open" => \/ step'[c] \notin {"none", "done"}
                                              \/ c \in Waiters'
                                              \/ \E w \in Conns : Paired(w)' /\ mate'[w] = c
                      /\ step'[c] \in {"peers", "routing", "piping"} =>
                            link'[c] = "open" /\ link'[mate'[c]] = "open"
    BY DEF SocketsAccounted
  <2>1. ASSUME link'[c] = "open"
        PROVE \/ step'[c] \notin {"none", "done"} \/ c \in Waiters'
              \/ \E w \in Conns : Paired(w)' /\ mate'[w] = c
    BY <2>1, <1>1, <1>2, <1>4 DEF Owned, SocketsAccounted
  <2>2. ASSUME step'[c] \in {"peers", "routing", "piping"}
        PROVE link'[c] = "open" /\ link'[mate'[c]] = "open"
    <3>1. step[c] = step'[c] /\ Paired(c)
      BY <2>2 DEF Paired
    <3>2. mate[c] \in Conns /\ mate[c] \notin Waiters /\ c \notin Waiters
      BY <3>1, <2>2, <1>3 DEF Owned, OneOwner, PairsSound
    <3>3. link[c] = "open" /\ link[mate[c]] = "open"
      BY <3>1, <2>2 DEF Owned, SocketsAccounted
    <3> QED
      BY <3>2, <3>3, <1>4
  <2> QED
    BY <2>1, <2>2
<1> QED
  BY <1>5, <1>8, <1>9 DEF Owned

\* purge_stale_waiting takes some of the waiting sockets, tells and closes them.
LEMMA PurgeTakes ==
  ASSUME purge_stale_waiting
  PROVE  \E out \in SUBSET Waiters :
            /\ Tell(out, "room_expired") /\ Shut(out)
            /\ waiting' = [k \in Keys |-> IF waiting[k] \in out THEN NoConn ELSE waiting[k]]
<1>1. PICK unread \in SUBSET MayBeUnread :
          LET out == {c \in Waiters : c \in stale \/ Dead(c, unread)}
          IN  /\ waiting' = [k \in Keys |-> IF waiting[k] \in out THEN NoConn ELSE waiting[k]]
              /\ Tell(out, "room_expired") /\ Shut(out)
  BY DEF purge_stale_waiting
<1> WITNESS {c \in Waiters : c \in stale \/ Dead(c, unread)} \in SUBSET Waiters
<1> QED
  BY <1>1

\* Purging leaves every socket with one owner: what it takes it closes.
LEMMA OwnedPurge ==
  ASSUME Base, Owned, purge_stale_waiting, UNCHANGED <<hello, mate>>,
         step' \in [Conns -> Steps],
         \A c \in Conns : step'[c] = step[c] \/ (step[c] = "purging" /\ step'[c] = "pairing")
  PROVE  Owned'
<1>1. PICK out \in SUBSET Waiters :
          waiting' = [k \in Keys |-> IF waiting[k] \in out THEN NoConn ELSE waiting[k]] /\ Shut(out)
  BY PurgeTakes
<1>2. out \cup {} = out
  OBVIOUS
<1>3. Shut(out \cup {})
  BY <1>1, <1>2
<1>4. {} \subseteq {c \in Conns : link[c] = "queued"}
  OBVIOUS
<1> QED
  BY <1>1, <1>2, <1>3, <1>4, DropWaiters

\* pair_or_wait hands a waiting socket to one worker, or leaves a new one behind.
LEMMA OwnedPair ==
  ASSUME Base, Base', Owned, NEW w \in Conns, Pair(w)
  PROVE  Owned'
<1> DEFINE k == KeyOf(hello[w])
<1> USE DEF Base, TypeOK
<1>1. k \in Keys /\ step[w] = "pairing" /\ ~Paired(w) /\ link[w] = "open" /\ hello' = hello
  BY KeyOfHello DEF Pair, HelloKnown, Paired, Owned, Phases
<1>2. \A c \in Waiters : c \in Conns /\ step[c] = "done" /\ link[c] = "open"
  BY DEF Owned, OneOwner, WaitersParked, Waiters, Occupied
<1>3. \A v \in Conns : Paired(v) => mate[v] \in Conns /\ mate[v] # w /\ v # w /\ mate[v] \notin Waiters
  BY <1>1 DEF Owned, OneOwner, PairsSound
<1> HIDE DEF k
<1>4. CASE /\ Shut({w}) /\ Goto(w, "done") /\ UNCHANGED <<mate, waiting>>
  BY <1>4, <1>1, <1>2, <1>3 DEF Owned, Phases, OneOwner, WaitersParked, PairsSound,
       SocketsAccounted,
       Paired, Waiters, Occupied, Goto, Shut
<1>5. CASE /\ waiting[k] = NoConn /\ waiting' = [waiting EXCEPT ![k] = w]
           /\ Goto(w, "done") /\ UNCHANGED <<link, mate>>
  <2>1. Waiters' = Waiters \cup {w}
    BY <1>5, <1>1 DEF Waiters, Occupied
  <2> QED
    BY <1>5, <1>1, <1>2, <1>3, <2>1 DEF k, Owned, Phases, OneOwner, WaitersParked, PairsSound,
         SocketsAccounted, Paired, Goto
<1>6. CASE /\ waiting[k] # NoConn /\ hello[waiting[k]].role # hello[w].role
           /\ TakeWaiting(k) /\ mate' = [mate EXCEPT ![w] = waiting[k]]
           /\ (Goto(w, "piping") \/ Goto(w, "peers")) /\ UNCHANGED link
  <2> DEFINE m == waiting[k]
  <2>1. m \in Waiters /\ m \in Conns /\ step[m] = "done" /\ link[m] = "open"
        /\ KeyOf(hello[m]) = k /\ m # w
    BY <1>6, <1>1, <1>2 DEF Owned, OneOwner, WaitersParked, Waiters, Occupied
  <2>2. Waiters' = Waiters \ {m}
    BY <1>6, <1>1, <2>1 DEF TakeWaiting, Waiters, Occupied, Owned, OneOwner, WaitersParked
  <2>3. Paired(w)' /\ step' \in [Conns -> Steps]
        /\ \A v \in Conns \ {w} : step'[v] = step[v] /\ Paired(v)' = Paired(v) /\ mate'[v] = mate[v]
    BY <1>6 DEF Goto, Paired
  <2>4. mate'[w] = m
    BY <1>6
  <2>5. WaitersParked'
    BY <1>6, <1>1, <2>1, <2>3 DEF TakeWaiting, Owned, OneOwner, WaitersParked
  <2>6. PairsSound'
    BY <1>6, <1>1, <1>3, <2>1, <2>2, <2>3, <2>4 DEF k, Owned, OneOwner, PairsSound
  <2>7. OneOwner'
    BY <1>3, <2>1, <2>3, <2>4, <2>5, <2>6 DEF Owned, OneOwner
  <2>8. SocketsAccounted'
    BY <1>6, <1>1, <2>1, <2>2, <2>3, <2>4 DEF Owned, SocketsAccounted, Paired, Goto
  <2>9. Phases'
    BY <1>6, <1>1, <2>3 DEF Owned, Phases, Goto
  <2> QED
    BY <2>7, <2>8, <2>9 DEF Owned
<1> QED
  BY <1>4, <1>5, <1>6 DEF k, Pair, pair_or_wait, Reject

\* No step of a client worker breaks the ownership of sockets.
LEMMA OwnedHandle ==
  ASSUME Base, Base', Owned, NEW w \in Conns, Handle(w) \/ SendsInVain(w)
  PROVE  Owned'
<1> USE DEF Base, TypeOK, HelloKnown, Owned, Phases, OneOwner, WaitersParked, PairsSound,
            SocketsAccounted, Paired, Waiters, Occupied, Goto, roomVars, srvVars
<1>1. CASE ReadPing(w)
  BY <1>1 DEF ReadPing
<1>2. CASE ReadRefused(w)
  BY <1>2 DEF ReadRefused, Shut, Steps
<1>3. CASE \E h \in Hello : ReadHello(w, h)
  BY <1>3 DEF ReadHello, Steps
<1>4. CASE Purge(w)
  BY <1>4, OwnedPurge DEF Purge, Steps
<1>5. CASE Pair(w)
  BY <1>5, OwnedPair
<1>6. CASE SendPeers(w)
  BY <1>6 DEF SendPeers
<1>7. CASE DecideDirect(w)
  BY <1>7 DEF DecideDirect
<1>8. CASE DecideRelay(w)
  BY <1>8 DEF DecideRelay
<1>9. CASE DecideNothing(w)
  BY <1>9 DEF DecideNothing
<1>10. CASE PipeEnds(w) \/ SendsInVain(w)
  BY <1>10 DEF PipeEnds, SendsInVain, PipeReturns, Shut
<1>11. CASE Release(w)
  BY <1>11 DEF Release, release_active_room
<1>12. CASE Close(w)
  BY <1>12 DEF Close, Shut
<1> QED
  BY <1>1, <1>2, <1>3, <1>4, <1>5, <1>6, <1>7, <1>8, <1>9, <1>10, <1>11, <1>12 DEF Handle

\* Neither does the accept thread, the cleanup thread or stop.
LEMMA OwnedServer ==
  ASSUME Base, Owned, Server
  PROVE  Owned'
<1> USE DEF Base, TypeOK
<1>1. CASE \E c \in Conns : Accept(c)
  BY <1>1 DEF Accept, Owned, Phases, OneOwner, WaitersParked, PairsSound, SocketsAccounted,
              Paired, Waiters, Occupied, Goto, Shut, roomVars
<1>2. CASE \/ ReapFinished \/ AcceptorEnds \/ RequestStop
           \/ \E w \in Conns : CancelWorker(w)
  BY <1>2 DEF ReapFinished, AcceptorEnds, RequestStop, CancelWorker, roomVars, Owned, Phases,
       OneOwner,
              WaitersParked, PairsSound, SocketsAccounted, Paired, Waiters, Occupied
<1>3. CASE CleanupTick
  BY <1>3, OwnedPurge DEF CleanupTick
<1>4. waiting \in [Keys -> Waiters \cup {NoConn}] /\ NoConn \notin Waiters
  BY DEF Waiters, Occupied
<1>5. CASE SweepWaiting
  <2>1. waiting' = [k \in Keys |-> IF waiting[k] \in Waiters THEN NoConn ELSE waiting[k]]
    BY <1>4, <1>5 DEF SweepWaiting, close_waiting
  <2>2. Shut(Waiters \cup {}) /\ UNCHANGED <<hello, mate, step>>
    BY <1>5 DEF SweepWaiting, close_waiting, Shut
  <2> QED
    BY <2>1, <2>2, DropWaiters
<1>6. CASE StopReturns
  <2>1. waiting' = [k \in Keys |-> IF waiting[k] \in Waiters THEN NoConn ELSE waiting[k]]
    BY <1>4, <1>6 DEF StopReturns
  <2>2. Shut(Waiters \cup {c \in Conns : link[c] = "queued"}) /\ UNCHANGED <<hello, mate, step>>
    BY <1>6 DEF StopReturns
  <2> QED
    BY <2>1, <2>2, DropWaiters
<1> QED
  BY <1>1, <1>2, <1>3, <1>5, <1>6 DEF Server

\* Ownership of sockets is inductive relative to Base.
LEMMA OwnedHolds == Spec => []Owned
<1>1. Init => Owned
  BY DEF Init, Owned, Phases, OneOwner, WaitersParked, PairsSound, SocketsAccounted, Paired
<1>2. Base /\ Base' /\ Owned /\ [Next]_vars => Owned'
  <2> SUFFICES ASSUME Base, Base', Owned, [Next]_vars PROVE Owned'
    OBVIOUS
  <2>1. ASSUME NEW c \in Conns, Client(c) PROVE Owned'
    BY <2>1 DEF Client, Connect, Hangup, Age, StopsReading, ReadsOn, roomVars, Base, TypeOK,
         Owned, Phases, OneOwner,
                WaitersParked, PairsSound, SocketsAccounted, Paired, Waiters, Occupied
  <2>2. CASE UNCHANGED vars
    BY <2>2 DEF vars, roomVars, Owned, Phases, OneOwner, WaitersParked, PairsSound,
                SocketsAccounted, Paired, Waiters, Occupied
  <2> QED
    BY <2>1, <2>2, OwnedHandle, OwnedServer DEF Next
<1> QED
  BY <1>1, <1>2, BaseHolds, PTL DEF Spec

\* Every socket has one owner: the waiting table or one worker, for any number
\* of clients, rooms and auxiliary connections.
THEOREM OwnershipSafe == Spec => []OneOwner
  BY OwnedHolds, PTL DEF Owned

\* No socket is leaked and none is used after it was closed.
THEOREM SocketsSafe == Spec => []SocketsAccounted
  BY OwnedHolds, PTL DEF Owned

-----------------------------------------------------------------------------
\* Only the worker of a primary connection agrees a route and releases a room.
PrimaryOnly ==
    \A w \in Conns : step[w] \in {"peers", "routing", "release", "closing"} => ~Aux(hello[w])

Claimed == RoomClaimedOnce /\ PrimaryOnly

\* A worker claims a free room in pair_or_wait and releases its own in ~ActiveRoomCleanup.
LEMMA ClaimedHandle ==
  ASSUME Base, Claimed, NEW w \in Conns, Handle(w) \/ SendsInVain(w),
         \* the steps that leave the set of claims as it is
         (UNCHANGED active /\ (\A v \in Conns : Claims(v)' = Claims(v)
                                  /\ (Claims(v) => hello'[v] = hello[v]))) => RoomClaimedOnce'
  PROVE  RoomClaimedOnce'
<1> USE DEF Base, TypeOK, Claimed, Claims, Goto, roomVars
<1>1. CASE ReadPing(w) \/ ReadRefused(w) \/ (\E h \in Hello : ReadHello(w, h))
  BY <1>1 DEF ReadPing, ReadRefused, ReadHello
<1>2. CASE Purge(w)
  BY <1>2 DEF Purge, purge_stale_waiting
<1>3. CASE Pair(w)
  <2>1. ~Claims(w) /\ hello' = hello
    BY <1>3 DEF Pair
  <2>2. CASE UNCHANGED active /\ (Goto(w, "done") \/ (Aux(hello[w]) /\ Goto(w, "piping")))
    BY <2>1, <2>2
  <2>3. CASE /\ ~Aux(hello[w]) /\ hello[w].room \notin active
             /\ active' = active \cup {hello[w].room} /\ Goto(w, "peers")
    <3>1. \A v \in Conns : Claims(v)' <=> (Claims(v) \/ v = w)
      BY <2>1, <2>3
    <3> QED
      BY <2>1, <2>3, <3>1 DEF RoomClaimedOnce
  <2> QED
    BY <1>3, <2>2, <2>3 DEF Pair, pair_or_wait, Reject, ClaimRoom
<1>4. CASE SendPeers(w) \/ DecideDirect(w) \/ DecideRelay(w) \/ DecideNothing(w)
  BY <1>4 DEF SendPeers, DecideDirect, DecideRelay, DecideNothing
<1>5. CASE PipeEnds(w) \/ SendsInVain(w)
  BY <1>5 DEF PipeEnds, SendsInVain, PipeReturns
<1>6. CASE Release(w)
  <2>1. hello' = hello /\ ~Claims(w)' /\ \A v \in Conns \ {w} : Claims(v)' = Claims(v)
    BY <1>6 DEF Release
  <2>2. active' = active \ {hello[w].room}
    BY <1>6 DEF Release, release_active_room
  <2>3. Claims(w)
    BY <1>6 DEF Release, PrimaryOnly
  <2> QED
    BY <2>1, <2>2, <2>3 DEF RoomClaimedOnce
<1>7. CASE Close(w)
  BY <1>7 DEF Close
<1> QED
  BY <1>1, <1>2, <1>3, <1>4, <1>5, <1>6, <1>7 DEF Handle

\* An auxiliary worker goes straight from pair_or_wait to the pipe and on to its end.
LEMMA PrimaryOnlyKept ==
  ASSUME Base, Owned, PrimaryOnly, [Next]_vars
  PROVE  PrimaryOnly'
<1> USE DEF Base, TypeOK, PrimaryOnly, Goto
<1>1. ASSUME NEW w \in Conns, Handle(w) \/ SendsInVain(w) PROVE PrimaryOnly'
  BY <1>1 DEF Handle, ReadPing, ReadRefused, ReadHello, Purge, Pair, pair_or_wait, Reject,
       SendPeers,
              DecideDirect, DecideRelay, DecideNothing, PipeEnds, SendsInVain, PipeReturns,
              Release, Close
<1>2. ASSUME NEW c \in Conns, Client(c) PROVE PrimaryOnly'
  BY <1>2 DEF Client, Connect, Hangup, Age, StopsReading, ReadsOn
<1>3. CASE Server
  BY <1>3 DEF Server, Accept, ReapFinished, AcceptorEnds, CleanupTick, RequestStop, SweepWaiting,
              CancelWorker, StopReturns
<1>4. CASE UNCHANGED vars
  BY <1>4 DEF vars
<1> QED
  BY <1>1, <1>2, <1>3, <1>4 DEF Next

\* The claims of the workers and active_rooms_ agree in every state.
LEMMA ClaimedHolds == Spec => []Claimed
<1>1. Init => Claimed
  BY DEF Init, Claimed, PrimaryOnly, RoomClaimedOnce, Claims
<1>2. Base /\ Owned /\ Claimed /\ [Next]_vars => Claimed'
  <2> SUFFICES ASSUME Base, Owned, Claimed, [Next]_vars PROVE RoomClaimedOnce'
    BY PrimaryOnlyKept DEF Claimed
  <2> USE DEF Base, TypeOK
  <2>1. ASSUME UNCHANGED active,
               \A v \in Conns : Claims(v)' = Claims(v) /\ (Claims(v) => hello'[v] = hello[v])
        PROVE  RoomClaimedOnce'
    BY <2>1 DEF Claimed, RoomClaimedOnce
  <2>2. ASSUME NEW w \in Conns, Handle(w) \/ SendsInVain(w) PROVE RoomClaimedOnce'
    BY <2>1, <2>2, ClaimedHandle
  <2>3. ASSUME NEW c \in Conns, Client(c) PROVE RoomClaimedOnce'
    BY <2>1, <2>3 DEF Client, Connect, Hangup, Age, StopsReading, ReadsOn, Claims, roomVars
  <2>4. CASE Server
    <3>1. UNCHANGED <<hello, active>>
      BY <2>4 DEF Server, Accept, ReapFinished, AcceptorEnds, CleanupTick, RequestStop,
           SweepWaiting,
                  CancelWorker, StopReturns, purge_stale_waiting, close_waiting, roomVars
    <3>2. \A v \in Conns : step'[v] = step[v] \/ (step[v] = "none" /\ step'[v] = "reading")
      BY <2>4 DEF Server, Accept, ReapFinished, AcceptorEnds, CleanupTick, RequestStop,
           SweepWaiting,
                  CancelWorker, StopReturns, Goto, Owned, Phases
    <3> QED
      BY <2>1, <3>1, <3>2 DEF Claims
  <2>5. CASE UNCHANGED vars
    BY <2>1, <2>5 DEF vars, roomVars, Claims
  <2> QED
    BY <2>2, <2>3, <2>4, <2>5 DEF Next
<1> QED
  BY <1>1, <1>2, BaseHolds, OwnedHolds, PTL DEF Spec

\* active_rooms_ is exactly the set of claimed rooms, each claimed by one worker.
THEOREM RoomsSafe == Spec => []RoomClaimedOnce
  BY ClaimedHolds, PTL DEF Claimed

-----------------------------------------------------------------------------
Bounded == IsFiniteSet(Occupied) /\ IsFiniteSet(workers) /\ WithinLimits

\* A step that only removes entries, or adds one below the limit, stays within it.
LEMMA LimitKept ==
  ASSUME NEW S, NEW T, NEW N \in Nat, IsFiniteSet(S), Cardinality(S) <= N,
         \/ T \subseteq S
         \/ \E x : \E R \in SUBSET S : T = R \cup {x} /\ Cardinality(R) < N
  PROVE  IsFiniteSet(T) /\ Cardinality(T) <= N
<1>1. CASE T \subseteq S
  BY <1>1, FS_Subset, FS_CardinalityType
<1>2. ASSUME NEW x, NEW R \in SUBSET S, T = R \cup {x}, Cardinality(R) < N
      PROVE  IsFiniteSet(T) /\ Cardinality(T) <= N
  <2>1. IsFiniteSet(R) /\ Cardinality(R) \in Nat
    BY FS_Subset, FS_CardinalityType
  <2>2. IsFiniteSet(R \cup {x}) /\ (Cardinality(R \cup {x}) = Cardinality(R)
                                     \/ Cardinality(R \cup {x}) = Cardinality(R) + 1)
    BY <2>1, FS_AddElement
  <2> QED
    BY <1>2, <2>1, <2>2
<1> QED
  BY <1>1, <1>2

\* The waiting table and the worker pool never exceed their configured limits.
THEOREM LimitsSafe == Spec => []WithinLimits
<1> USE LimitsAssumption
<1>1. Init => Bounded
  <2> SUFFICES ASSUME Init PROVE Bounded
    OBVIOUS
  <2>1. Occupied = {} /\ workers = {}
    BY DEF Init, Occupied
  <2>2. Limit \in Nat
    BY DEF Limit
  <2> QED
    BY <2>1, <2>2, FS_EmptySet DEF Bounded, WithinLimits
<1>2. Base /\ Bounded /\ [Next]_vars => Bounded'
  <2> SUFFICES ASSUME Base, Bounded, [Next]_vars PROVE Bounded'
    OBVIOUS
  <2> USE DEF Base, TypeOK
  <2>1. \/ Occupied' \subseteq Occupied
        \/ \E k : \E R \in SUBSET Occupied : Occupied' = R \cup {k} /\ Cardinality(R) < MaxWaiting
    <3>1. ASSUME NEW w \in Conns, Pair(w) PROVE <2>1!:
      <4> DEFINE k == KeyOf(hello[w])
      <4>1. k \in Keys
        BY <3>1, KeyOfHello DEF Pair, HelloKnown
      <4>2. Cardinality(Occupied) \in Nat
        BY FS_CardinalityType DEF Bounded
      <4>3. CASE ~TableFull /\ waiting' = [waiting EXCEPT ![k] = w]
        <5>1. Occupied' = Occupied \cup {k}
          BY <4>1, <4>3 DEF Occupied
        <5>2. Cardinality(Occupied) < MaxWaiting
          BY <4>2, <4>3 DEF TableFull
        <5> QED
          BY <5>1, <5>2
      <4>4. CASE UNCHANGED waiting \/ TakeWaiting(k)
        BY <4>1, <4>4 DEF TakeWaiting, Occupied
      <4> QED
        BY <3>1, <4>3, <4>4 DEF Pair, pair_or_wait, Reject
    <3>2. CASE UNCHANGED waiting
      BY <3>2 DEF Occupied
    <3>3. CASE purge_stale_waiting \/ close_waiting \/ StopReturns
      BY <3>3 DEF purge_stale_waiting, close_waiting, StopReturns, Occupied
    <3> QED
      BY <3>1, <3>2, <3>3 DEF Next, Client, Connect, Hangup, Age, StopsReading, ReadsOn, Handle,
           ReadPing, ReadRefused,
         ReadHello, Purge, SendPeers, DecideDirect, DecideRelay, DecideNothing, PipeEnds,
         SendsInVain, PipeReturns, Release,
         release_active_room, Close, Server, Accept, ReapFinished, AcceptorEnds, CleanupTick,
         RequestStop, SweepWaiting, CancelWorker, vars, roomVars
  <2>2. \/ workers' \subseteq workers
        \/ \E c : \E R \in SUBSET workers : workers' = R \cup {c} /\ Cardinality(R) < Limit
    <3>1. Running \subseteq workers
      BY DEF Running
    <3>2. CASE \E c \in Conns : Accept(c)
      BY <3>1, <3>2 DEF Accept
    <3>3. CASE UNCHANGED workers \/ ReapFinished \/ AcceptorEnds \/ StopReturns
      BY <3>1, <3>3 DEF ReapFinished, AcceptorEnds, StopReturns
    <3> QED
      BY <3>2, <3>3 DEF Next, Client, Connect, Hangup, Age, StopsReading, ReadsOn, Handle,
           ReadPing, ReadRefused,
         ReadHello, Purge, Pair, SendPeers, DecideDirect, DecideRelay, DecideNothing, PipeEnds,
         SendsInVain, PipeReturns, Release,
         Close, Server, CleanupTick, RequestStop, SweepWaiting, CancelWorker, vars, srvVars
  <2>3. IsFiniteSet(Occupied') /\ Cardinality(Occupied') <= MaxWaiting
    BY <2>1, LimitKept DEF Bounded, WithinLimits
  <2>4. Limit \in Nat /\ Limit' = Limit
    BY DEF Limit
  <2>5. IsFiniteSet(workers') /\ Cardinality(workers') <= Limit
    BY <2>2, <2>4, LimitKept DEF Bounded, WithinLimits
  <2> QED
    BY <2>3, <2>4, <2>5 DEF Bounded, WithinLimits
<1> QED
  BY <1>1, <1>2, BaseHolds, PTL DEF Spec, Bounded

-----------------------------------------------------------------------------
\* Every worker that has not returned is in client_workers, and after the accept
\* thread was joined there is nobody to start another one.
Stopping ==
    /\ \A w \in Conns : step[w] \notin {"none", "done"} => w \in workers
    /\ srv \in {"cancelling", "stopped"} => ~acceptor
    /\ StoppedClean

\* Every step keeps track of what stop() has already made impossible.
LEMMA StoppingStep ==
  ASSUME Base, Base', Owned, Owned', Claimed, Claimed', Stopping, [Next]_vars
  PROVE  Stopping'
<1> USE DEF Base, TypeOK
<1>1. srv = "stopped" => \A w \in Conns : ~Handle(w) /\ ~SendsInVain(w)
  BY DEF Stopping, StoppedClean, Handle, ReadPing, ReadRefused, ReadHello, Purge, Pair, SendPeers,
         DecideDirect, DecideRelay, DecideNothing, PipeEnds, SendsInVain, PipeReturns, Release,
         Close
<1>2. \A w \in Conns : step'[w] \notin {"none", "done"} => w \in workers'
  <2>1. CASE \E c \in Conns : Accept(c)
    BY <2>1 DEF Accept, Goto, Stopping, Running
  <2>2. ASSUME NEW w \in Conns, Handle(w) \/ SendsInVain(w) PROVE <1>2!:
    BY <2>2 DEF Handle, ReadPing, ReadRefused, ReadHello, Purge, Pair, pair_or_wait, Reject,
         SendPeers,
         DecideDirect, DecideRelay, DecideNothing, PipeEnds, SendsInVain, PipeReturns, Release,
         Close, Goto, Stopping, srvVars
  <2>3. CASE ReapFinished \/ AcceptorEnds \/ StopReturns
    BY <2>3 DEF ReapFinished, AcceptorEnds, StopReturns, Running, Stopping
  <2>4. CASE UNCHANGED <<step, workers>>
    BY <2>4 DEF Stopping
  <2> QED
    BY <2>1, <2>2, <2>3, <2>4 DEF Next, Client, Connect, Hangup, Age, StopsReading, ReadsOn,
         Server, CleanupTick, RequestStop,
         SweepWaiting, CancelWorker, vars, srvVars
<1>3. srv' \in {"cancelling", "stopped"} => ~acceptor'
  BY DEF Stopping, Next, Client, Connect, Hangup, Age, StopsReading, ReadsOn, Handle, ReadPing,
       ReadRefused,
         ReadHello, Purge, Pair, SendPeers, DecideDirect, DecideRelay, DecideNothing, PipeEnds,
         SendsInVain, PipeReturns, Release,
         Close, Server, Accept, ReapFinished, AcceptorEnds, CleanupTick, RequestStop, SweepWaiting,
         CancelWorker, StopReturns, vars, srvVars
<1>4. StoppedClean'
  <2>1. CASE StopReturns
    <3>1. \A w \in Conns : step'[w] \in {"none", "done"}
      BY <2>1 DEF StopReturns, Stopping, Running
    <3>2. Occupied' = {} /\ Waiters' = {}
      BY <2>1 DEF StopReturns, Occupied, Waiters
    <3>3. \A c \in Conns : link'[c] # "open"
      BY <3>1, <3>2 DEF Owned, SocketsAccounted, Paired
    <3>4. \A c \in Conns : link'[c] # "queued"
      BY <2>1 DEF StopReturns, Shut
    <3>5. active' = {}
      BY <3>1 DEF Claimed, RoomClaimedOnce, Claims
    <3> QED
      BY <3>1, <3>2, <3>3, <3>4, <3>5 DEF StoppedClean
  <2>2. CASE srv = "stopped" /\ ~StopReturns
    <3>1. active = {} /\ Occupied = {} /\ Waiters = {} /\ ~acceptor
      BY <2>2 DEF Stopping, StoppedClean, Waiters
    <3>2. UNCHANGED <<step, link, waiting, active>>
      BY <2>2, <1>1, <3>1 DEF Stopping, StoppedClean, Next, Client, Connect, Hangup, Age,
           StopsReading, ReadsOn, Server, Accept,
         ReapFinished, AcceptorEnds, CleanupTick, RequestStop, SweepWaiting, CancelWorker, vars,
         roomVars
    <3> QED
      BY <2>2, <3>1, <3>2 DEF Stopping, StoppedClean, Occupied
  <2>3. CASE srv # "stopped" /\ ~StopReturns
    <3>1. srv' # "stopped"
      BY <2>3 DEF Next, Client, Connect, Hangup, Age, StopsReading, ReadsOn, Handle, ReadPing,
           ReadRefused,
         ReadHello, Purge, Pair, SendPeers, DecideDirect, DecideRelay, DecideNothing, PipeEnds,
         SendsInVain, PipeReturns, Release,
         Close, Server, Accept, ReapFinished, AcceptorEnds, CleanupTick, RequestStop, SweepWaiting,
         CancelWorker, vars, srvVars
    <3> QED
      BY <3>1 DEF StoppedClean
  <2> QED
    BY <2>1, <2>2, <2>3
<1> QED
  BY <1>2, <1>3, <1>4 DEF Stopping

\* When BackgroundRelay::stop has returned, nothing of the server is left:
\* no worker, no claimed room, no registration and no open socket.
THEOREM StopSafe == Spec => []StoppedClean
<1>1. Init => Stopping
  BY DEF Init, Stopping, StoppedClean
<1> QED
  BY <1>1, StoppingStep, BaseHolds, OwnedHolds, ClaimedHolds, PTL DEF Spec, Stopping

-----------------------------------------------------------------------------
\* Still open to a verdict: not yet accepted, reading, registering, waiting, or a
\* member of a pair whose route is not decided.
Undecided(c) ==
    \/ link[c] \in {"new", "queued"}
    \/ step[c] \in {"reading", "pinged", "purging", "pairing", "peers", "routing"}
    \/ c \in Waiters
    \/ \E w \in Conns : step[w] \in {"peers", "routing"} /\ mate[w] = c

\* Nobody who is still undecided has heard a verdict, and nobody hears two.
Judged ==
    /\ \A c \in Conns : Undecided(c) => told[c] \cap Verdicts = {}
    /\ OneVerdict

\* One message to clients that were undecided, who all are decided afterwards,
\* while nobody becomes undecided again.
LEMMA Judge ==
  ASSUME Base, Judged, NEW cs, NEW m \in Verdicts, Tell(cs, m),
         \A c \in cs : c \in Conns => Undecided(c) /\ ~Undecided(c)',
         \A c \in Conns : Undecided(c)' => Undecided(c)
  PROVE  Judged'
<1>1. \A c \in Conns : told'[c] = IF c \in cs THEN told[c] \cup {m} ELSE told[c]
  BY DEF Tell
<1>2. \A c \in Conns : Undecided(c)' => told'[c] \cap Verdicts = {}
  BY <1>1 DEF Judged
<1>3. \A c \in Conns : c \in cs => told'[c] \cap Verdicts = {m}
  BY <1>1 DEF Judged
<1>4. \A c \in Conns : c \notin cs => told'[c] = told[c]
  BY <1>1
<1>5. OneVerdict'
  BY <1>3, <1>4 DEF OneVerdict, Judged
<1> QED
  BY <1>2, <1>5 DEF Judged

\* A step that tells nobody a verdict and makes nobody undecided.
LEMMA Unjudged ==
  ASSUME Judged,
         \A c \in Conns : told'[c] \cap Verdicts = told[c] \cap Verdicts,
         \A c \in Conns : Undecided(c)' => Undecided(c)
  PROVE  Judged'
BY DEF Judged, OneVerdict

\* purge_stale_waiting tells and closes the entries it drops and keeps the others.
LEMMA PurgeDrops ==
  ASSUME TypeOK, purge_stale_waiting
  PROVE  \E out \in SUBSET Waiters :
            Waiters' = Waiters \ out /\ Tell(out, "room_expired") /\ Shut(out)
<1>1. PICK out \in SUBSET Waiters :
          /\ Tell(out, "room_expired") /\ Shut(out)
          /\ waiting' = [k \in Keys |-> IF waiting[k] \in out THEN NoConn ELSE waiting[k]]
  BY PurgeTakes
<1>2. Waiters' = Waiters \ out
  BY <1>1 DEF TypeOK, Waiters, Occupied
<1> QED
  BY <1>1, <1>2

\* No step of a client worker gives a second verdict to a client.
LEMMA JudgedHandle ==
  ASSUME Base, Base', Owned, Owned', Judged, NEW w \in Conns, Handle(w) \/ SendsInVain(w)
  PROVE  Judged'
<1> USE DEF Base, TypeOK, Goto, roomVars, srvVars
<1>1. \A c \in Waiters : c \in Conns /\ step[c] = "done" /\ link[c] = "open"
  BY DEF Owned, OneOwner, WaitersParked, Waiters, Occupied
<1>2. \A v \in Conns : Paired(v) => /\ mate[v] \in Conns /\ mate[v] \notin Waiters /\ mate[v] # v
                                    /\ step[mate[v]] = "done"
  BY DEF Owned, OneOwner, PairsSound, Paired
<1>3. \A u, v \in Conns : Paired(u) /\ Paired(v) /\ mate[u] = mate[v] => u = v
  BY DEF Owned, OneOwner
<1>4. \A v \in Conns : step[v] \in {"peers", "routing"} =>
                          link[v] = "open" /\ link[mate[v]] = "open"
  BY DEF Owned, SocketsAccounted
<1>5. CASE ReadPing(w) \/ ReadRefused(w) \/ (\E h \in Hello : ReadHello(w, h))
  <2>1. \A c \in Conns : Undecided(c)' => Undecided(c)
    BY <1>5 DEF ReadPing, ReadRefused, ReadHello, Undecided, Waiters, Occupied, Shut
  <2>2. CASE UNCHANGED told
    BY <2>1, <2>2, Unjudged
  <2>3. CASE ReadRefused(w) /\ Tell({w}, "refused")
    <3>1. Undecided(w) /\ ~Undecided(w)'
      BY <2>3, <1>1, <1>2 DEF ReadRefused, Undecided, Waiters, Occupied, Shut, Paired
    <3> QED
      BY <2>1, <2>3, <3>1, Judge DEF Verdicts
  <2> QED
    BY <1>5, <2>2, <2>3 DEF ReadPing, ReadRefused, ReadHello
<1>6. CASE Purge(w)
  <2>1. PICK out \in SUBSET Waiters :
            Waiters' = Waiters \ out /\ Tell(out, "room_expired") /\ Shut(out)
    BY <1>6, PurgeDrops DEF Purge
  <2>2. out \subseteq Waiters
    OBVIOUS
  <2>3. \A c \in Conns : Undecided(c)' => Undecided(c)
    BY <1>6, <2>1, <2>2 DEF Purge, Undecided, Shut
  <2>4. \A c \in out : Undecided(c) /\ ~Undecided(c)'
    BY <1>6, <1>1, <1>2, <2>1, <2>2 DEF Purge, Undecided, Shut, Paired
  <2> QED
    BY <2>1, <2>3, <2>4, Judge DEF Verdicts
<1>7. CASE Pair(w)
  <2>1. Undecided(w)
    BY <1>7 DEF Pair, Undecided
  <2> DEFINE k == KeyOf(hello[w])
  <2>2. k \in Keys
    BY <1>7, KeyOfHello DEF Pair, HelloKnown
  <2>3. ASSUME NEW m \in Verdicts, Reject(w, m) PROVE Judged'
    <3>1. \A c \in Conns : Undecided(c)' => Undecided(c)
      BY <2>3, <2>1 DEF Reject, Undecided, Waiters, Occupied, Shut
    <3>2. ~Undecided(w)'
      BY <1>7, <2>3, <1>1, <1>2 DEF Pair, Reject, Undecided, Waiters, Occupied, Shut, Paired
    <3> QED
      BY <2>1, <2>3, <3>1, <3>2, Judge DEF Reject
  <2>4. CASE UNCHANGED <<told, link, mate>> /\ Goto(w, "done")
             /\ waiting' = [waiting EXCEPT ![k] = w]
    <3>1. \A c \in Waiters' : c = w \/ c \in Waiters
      BY <2>2, <2>4 DEF Waiters, Occupied
    <3>2. \A c \in Conns : Undecided(c)' => Undecided(c)
      BY <2>1, <2>4, <3>1 DEF Undecided
    <3> QED
      BY <2>4, <3>2, Unjudged
  <2>5. CASE UNCHANGED <<told, link>> /\ waiting[k] # NoConn /\ TakeWaiting(k)
             /\ mate' = [mate EXCEPT ![w] = waiting[k]]
             /\ (Goto(w, "piping") \/ Goto(w, "peers"))
    <3>1. waiting[k] \in Waiters /\ Waiters' \subseteq Waiters
      BY <2>2, <2>5 DEF TakeWaiting, Waiters, Occupied
    <3>2. \A c \in Conns : Undecided(c)' => Undecided(c)
      BY <2>1, <2>5, <3>1 DEF Undecided
    <3> QED
      BY <2>5, <3>2, Unjudged
  <2> QED
    BY <1>7, <2>3, <2>4, <2>5 DEF Pair, pair_or_wait, Verdicts, Reject
<1>8. ASSUME step[w] \in {"peers", "routing"}, step'[w] \in {"piping", "release"},
             UNCHANGED <<link, mate, waiting>>, step' = [step EXCEPT ![w] = step'[w]]
      PROVE  /\ \A c \in Conns : Undecided(c)' => Undecided(c)
             /\ \A c \in {w, mate[w]} : Undecided(c) /\ ~Undecided(c)'
  <2>1. \A c \in Conns : Undecided(c)' => Undecided(c)
    BY <1>8 DEF Undecided, Waiters, Occupied
  <2>2. Paired(w) /\ w \notin Waiters /\ mate[w] \notin Waiters /\ Waiters' = Waiters
    BY <1>8, <1>1, <1>2 DEF Paired, Waiters, Occupied
  <2>3. Undecided(w) /\ Undecided(mate[w])
    BY <1>8 DEF Undecided
  <2>4. ~Undecided(w)'
    BY <1>8, <1>2, <1>4, <2>2 DEF Undecided, Paired
  <2>5. \A c \in Conns : c = mate[w] => ~Undecided(c)'
    BY <1>8, <1>2, <1>3, <1>4, <2>2 DEF Undecided, Paired
  <2> QED
    BY <1>2, <2>1, <2>2, <2>3, <2>4, <2>5
<1>9. ASSUME step[w] = "routing", step'[w] \in {"piping", "release"},
             UNCHANGED <<link, mate, waiting>>, step' = [step EXCEPT ![w] = step'[w]],
             NEW m \in Verdicts,
             UNCHANGED told \/ Tell({mate[w]}, m) \/ Tell({mate[w], w}, m)
      PROVE  Judged'
  BY <1>8, <1>9, Judge, Unjudged
<1>10. CASE SendPeers(w)
  <2>1. \A c \in Conns : told'[c] \cap Verdicts = told[c] \cap Verdicts
    BY <1>10 DEF SendPeers, TellBoth, TellThrows, Tell, Verdicts
  <2>2. \A c \in Conns : Undecided(c)' => Undecided(c)
    BY <1>10, <1>8 DEF SendPeers, Undecided, Waiters, Occupied
  <2> QED
    BY <2>1, <2>2, Unjudged
<1>11. CASE DecideDirect(w)
  BY <1>9, <1>11 DEF DecideDirect, TellBoth, TellThrows, Verdicts
<1>12. CASE DecideRelay(w)
  BY <1>9, <1>12 DEF DecideRelay, TellBoth, TellThrows, Verdicts
<1>13. CASE DecideNothing(w)
  BY <1>9, <1>13 DEF DecideNothing, Verdicts
<1>14. CASE PipeEnds(w) \/ SendsInVain(w) \/ Release(w) \/ Close(w)
  <2>1. \A c \in Conns : Undecided(c)' => Undecided(c)
    BY <1>14 DEF PipeEnds, SendsInVain, PipeReturns, Release, release_active_room, Close, Shut,
         Undecided, Waiters, Occupied
  <2> QED
    BY <1>14, <2>1, Unjudged DEF PipeEnds, SendsInVain, PipeReturns, Release, Close
<1> QED
  BY <1>5, <1>6, <1>7, <1>10, <1>11, <1>12, <1>13, <1>14 DEF Handle

\* Neither does the accept thread, a purge or stop.
LEMMA JudgedServer ==
  ASSUME Base, Owned, Judged, Server
  PROVE  Judged'
<1> USE DEF Base, TypeOK, Goto, roomVars, srvVars
<1>1. \A c \in Waiters : c \in Conns /\ step[c] = "done" /\ link[c] = "open"
  BY DEF Owned, OneOwner, WaitersParked, Waiters, Occupied
<1>2. \A v \in Conns : Paired(v) => mate[v] \notin Waiters /\ step[mate[v]] = "done"
  BY DEF Owned, OneOwner, PairsSound
<1>3. \A v \in Conns : step[v] \in {"peers", "routing"} => link[mate[v]] = "open"
  BY DEF Owned, SocketsAccounted
<1>4. ASSUME NEW c \in Conns, Accept(c) PROVE Judged'
  <2>1. link[c] = "queued" /\ step[c] = "none" /\ Undecided(c) /\ Waiters' = Waiters
    BY <1>4 DEF Accept, Owned, Phases, Undecided, Waiters, Occupied
  <2>2. CASE Shut({c}) /\ Tell({c}, "server_busy") /\ UNCHANGED <<step, mate>>
    <3>1. \A v \in Conns : Undecided(v)' => Undecided(v)
      BY <2>1, <2>2 DEF Undecided, Shut
    <3>2. ~Undecided(c)'
      BY <1>1, <1>3, <2>1, <2>2 DEF Undecided, Shut
    <3> QED
      BY <2>1, <2>2, <3>1, <3>2, Judge DEF Verdicts
  <2>3. CASE link' = [link EXCEPT ![c] = "open"] /\ Goto(c, "reading") /\ UNCHANGED <<told, mate>>
    <3>1. \A v \in Conns : Undecided(v)' => Undecided(v)
      BY <2>1, <2>3 DEF Undecided
    <3> QED
      BY <2>3, <3>1, Unjudged
  <2> QED
    BY <1>4, <2>2, <2>3 DEF Accept
<1>5. CASE CleanupTick
  <2>1. PICK out \in SUBSET Waiters :
            Waiters' = Waiters \ out /\ Tell(out, "room_expired") /\ Shut(out)
    BY <1>5, PurgeDrops DEF CleanupTick
  <2>2. out \subseteq Waiters
    OBVIOUS
  <2>3. \A c \in Conns : Undecided(c)' => Undecided(c)
    BY <1>5, <2>1, <2>2 DEF CleanupTick, Undecided, Shut
  <2>4. \A c \in out : Undecided(c) /\ ~Undecided(c)'
    BY <1>5, <1>1, <1>2, <2>1, <2>2 DEF CleanupTick, Undecided, Shut, Paired
  <2> QED
    BY <2>1, <2>3, <2>4, Judge DEF Verdicts
<1>6. CASE \/ ReapFinished \/ AcceptorEnds \/ RequestStop \/ SweepWaiting \/ StopReturns
           \/ (\E w \in Conns : CancelWorker(w))
  <2>1. Waiters' \subseteq Waiters /\ UNCHANGED <<told, step, mate>>
        /\ \A c \in Conns : link'[c] \in {"new", "queued"} => link[c] \in {"new", "queued"}
    BY <1>6 DEF ReapFinished, AcceptorEnds, RequestStop, SweepWaiting, StopReturns, CancelWorker,
                close_waiting, Shut, Waiters, Occupied
  <2>2. \A c \in Conns : Undecided(c)' => Undecided(c)
    BY <2>1 DEF Undecided
  <2> QED
    BY <2>1, <2>2, Unjudged
<1> QED
  BY <1>4, <1>5, <1>6 DEF Server

\* No client ever hears two verdicts from the relay.
THEOREM VerdictsSafe == Spec => []OneVerdict
<1>1. Init => Judged
  BY DEF Init, Judged, OneVerdict
<1>2. Base /\ Base' /\ Owned /\ Owned' /\ Judged /\ [Next]_vars => Judged'
  <2> SUFFICES ASSUME Base, Base', Owned, Owned', Judged, [Next]_vars PROVE Judged'
    OBVIOUS
  <2>1. ASSUME NEW c \in Conns, Client(c) PROVE Judged'
    <3>1. UNCHANGED told /\ \A v \in Conns : Undecided(v)' => Undecided(v)
      BY <2>1 DEF Client, Connect, Hangup, Age, StopsReading, ReadsOn, roomVars, Undecided,
           Waiters, Occupied, Base, TypeOK
    <3> QED
      BY <3>1, Unjudged
  <2>2. CASE UNCHANGED vars
    BY <2>2 DEF vars, roomVars, Judged, OneVerdict, Undecided, Waiters, Occupied
  <2> QED
    BY <2>1, <2>2, JudgedHandle, JudgedServer DEF Next
<1> QED
  BY <1>1, <1>2, BaseHolds, OwnedHolds, PTL DEF Spec, Judged
=============================================================================
