------------------------- MODULE NoteEditor_proofs -------------------------
(***************************************************************************)
(* Proofs about the two note sessions and the editor on one of them, for   *)
(* any number of pads, threads and revisions and any outbox.               *)
(*                                                                         *)
(* The two workspaces converge because the latest edit of each writer is   *)
(* either known to the other side or on its way there, in whatever order   *)
(* the threads queue their frames and however the outbox coalesces them.   *)
(***************************************************************************)
EXTENDS NoteEditor, TLAPS

-----------------------------------------------------------------------------
(* The inductive invariant: workspaces and frames.                         *)

\* The order in which apply_note_update lets one edit replace another.
AtLeast(d, e) == d.revision > e.revision \/ (d.revision = e.revision /\ d.writer >= e.writer)

\* The frames of p that the other peer has not read.
Underway(p) == hand[p] \cup Range(outgoing[p]) \cup Range(sending[p]) \cup Range(wire[Other(p)])

\* The frame of the document of p, when p wrote it.
Latest(p, pad) == [type |-> "edit", pad |-> pad, revision |-> docs[p][pad].revision, writer |-> p]

\* The outbox holds one edit and one acknowledgement of a pad at most.
Coalesced(p) ==
    \A i, j \in DOMAIN outgoing[p] : frames_coalesce(outgoing[p][i], outgoing[p][j]) => i = j

\* A pad exists when it is the first one or was edited.
Existing(p) ==
    /\ active[p] \in pads[p]
    /\ \A pad \in Pads : /\ pad \in pads[p] <=> pad = 1 \/ docs[p][pad].revision > 0
                         /\ docs[p][pad].revision = 0 <=> docs[p][pad].writer = 0

\* Every edit on its way is one that its writer has applied.
Own(p) ==
    \A f \in Underway(p) : f.type = "edit" =>
        /\ f.writer = p /\ f.revision > 0 /\ AtLeast(docs[p][f.pad], f)

\* A document of the other peer's is one that it has had.
Taken(p) ==
    \A pad \in Pads : docs[p][pad].writer = Other(p) => AtLeast(docs[Other(p)][pad], docs[p][pad])

\* The latest edit of p is on its way, unless the other peer has one that wins.
Carried(p) ==
    \A pad \in Pads : ~stop[p] /\ docs[p][pad].writer = p =>
        AtLeast(docs[Other(p)][pad], docs[p][pad]) \/ Latest(p, pad) \in Underway(p)

SyncInv == TypeOK /\ \A p \in Peers : Coalesced(p) /\ Existing(p) /\ Own(p) /\ Taken(p) /\ Carried(p)

-----------------------------------------------------------------------------
(* The inductive invariant: the editor.                                    *)

\* A remote edit of the pad in the editor is about to be shown.
Announced == active[1] \in pending \cup telling

\* What the interface thread may be doing, and while which its text is in hand.
Sends == {"send", "send, select", "send, create"}
Steps == {"idle", "select", "create", "gone", "clear", "created"} \cup Sends

\* What the interface thread has in its hand, and the editor while it is on its way.
EditorInv ==
    /\ ui \in [does : Steps, pad : Nat]
    /\ ui.does \in {"idle", "select", "create", "gone"} => hand[1] = {}
    /\ \A f, g \in hand[1] : f = g
    /\ ui.does \in Sends /\ ~stop[1] /\ ~Announced =>
          \A f \in hand[1] : Applied(f) = docs[1][active[1]]
    /\ ui.does \in {"idle", "select", "create"} /\ typed = "none" /\ ~stop[1] /\ ~Announced =>
          editor = docs[1][active[1]]
    /\ ui.does = "clear" /\ ~stop[1] /\ ~Announced => editor = docs[1][active[1]]
    /\ ui.does = "gone" => stop[1]

NoteInv == SyncInv /\ EditorInv

-----------------------------------------------------------------------------
(* Helpers.                                                                *)

Frames == Edits \cup Acks \cup {Hello}

\* There are two peers.
LEMMA TwoPeers ==
    ASSUME NEW p \in Peers
    PROVE  /\ Other(p) \in Peers /\ Other(p) # p /\ Other(Other(p)) = p /\ p # 0
           /\ \A q \in Peers : q = p \/ q = Other(p)
BY DEF Peers, Other

\* apply_note_update decides by a total order.
LEMMA Order ==
    ASSUME NEW d, NEW e, NEW g,
           d.revision \in Nat, d.writer \in Nat, e.revision \in Nat, e.writer \in Nat,
           g.revision \in Nat, g.writer \in Nat
    PROVE  /\ AtLeast(d, d)
           /\ AtLeast(d, e) /\ AtLeast(e, g) => AtLeast(d, g)
           /\ AtLeast(d, e) /\ AtLeast(e, d) => d.revision = e.revision /\ d.writer = e.writer
           /\ Newer(d, e) <=> ~AtLeast(e, d)
           /\ Newer(d, e) => AtLeast(d, e)
BY DEF AtLeast, Newer

\* Revisions and writers are numbers.
LEMMA DocTypes ==
    ASSUME NEW D \in [Peers -> [Pads -> Docs]]
    PROVE  \A q \in Peers, n \in Pads :
              D[q][n] \in Docs /\ D[q][n].revision \in Nat /\ D[q][n].writer \in Nat
<1> TAKE q \in Peers, n \in Pads
<1>1. D[q][n] \in Docs
  OBVIOUS
<1> QED BY <1>1 DEF Docs, Peers

\* What a stream holds after each kind of change.
LEMMA StreamSteps ==
    ASSUME NEW S, NEW s \in Seq(S)
    PROVE  /\ Range(s) \subseteq S
           /\ \A f \in S : Append(s, f) \in Seq(S) /\ Range(Append(s, f)) = Range(s) \cup {f}
           /\ s # << >> => /\ Head(s) \in S /\ Tail(s) \in Seq(S)
                          /\ Range(s) = {Head(s)} \cup Range(Tail(s))
           /\ \A t \in Seq(S) : (s \o t) \in Seq(S) /\ Range(s \o t) = Range(s) \cup Range(t)
           /\ \A i \in DOMAIN s, f \in S : [s EXCEPT ![i] = f] \in Seq(S)
<1>1. Range(s) \subseteq S
  BY DEF Range
<1>2. ASSUME NEW f \in S PROVE Append(s, f) \in Seq(S) /\ Range(Append(s, f)) = Range(s) \cup {f}
  <2>1. /\ DOMAIN Append(s, f) = 1..(Len(s) + 1) /\ DOMAIN s = 1..Len(s) /\ Len(s) \in Nat
        /\ \A i \in 1..Len(s) : Append(s, f)[i] = s[i]
        /\ Append(s, f)[Len(s) + 1] = f
    OBVIOUS
  <2> QED BY <2>1 DEF Range
<1>3. ASSUME s # << >>
      PROVE  Head(s) \in S /\ Tail(s) \in Seq(S) /\ Range(s) = {Head(s)} \cup Range(Tail(s))
  <2>1. /\ DOMAIN s = 1..Len(s) /\ DOMAIN Tail(s) = 1..(Len(s) - 1) /\ Len(s) \in Nat \ {0} /\ Head(s) = s[1]
        /\ \A i \in 1..(Len(s) - 1) : Tail(s)[i] = s[i + 1]
    BY <1>3
  <2>2. Range(s) \subseteq {Head(s)} \cup Range(Tail(s))
    <3>1. ASSUME NEW i \in 1..Len(s), i # 1 PROVE i - 1 \in DOMAIN Tail(s) /\ Tail(s)[i - 1] = s[i]
      BY <2>1, <3>1
    <3>2. ASSUME NEW i \in 1..Len(s) PROVE s[i] \in {Head(s)} \cup Range(Tail(s))
      <4>1. CASE i = 1
        BY <2>1, <4>1
      <4>2. CASE i # 1
        BY <3>1, <4>2 DEF Range
      <4> QED BY <4>1, <4>2
    <3> QED BY <2>1, <3>2 DEF Range
  <2>3. {Head(s)} \cup Range(Tail(s)) \subseteq Range(s)
    BY <2>1 DEF Range
  <2> QED BY <1>3, <2>2, <2>3
<1>4. ASSUME NEW t \in Seq(S) PROVE (s \o t) \in Seq(S) /\ Range(s \o t) = Range(s) \cup Range(t)
  <2>1. /\ DOMAIN (s \o t) = 1..(Len(s) + Len(t)) /\ DOMAIN s = 1..Len(s) /\ DOMAIN t = 1..Len(t)
        /\ Len(s) \in Nat /\ Len(t) \in Nat
        /\ \A i \in 1..(Len(s) + Len(t)) : (s \o t)[i] = IF i <= Len(s) THEN s[i] ELSE t[i - Len(s)]
    OBVIOUS
  <2>2. Range(s) \subseteq Range(s \o t)
    BY <2>1 DEF Range
  <2>3. Range(t) \subseteq Range(s \o t)
    <3>1. ASSUME NEW i \in 1..Len(t) PROVE i + Len(s) \in DOMAIN (s \o t) /\ (s \o t)[i + Len(s)] = t[i]
      BY <2>1, <3>1
    <3> QED BY <2>1, <3>1 DEF Range
  <2>4. Range(s \o t) \subseteq Range(s) \cup Range(t)
    <3>1. ASSUME NEW i \in DOMAIN (s \o t) PROVE (s \o t)[i] \in Range(s) \cup Range(t)
      <4>1. i \in 1..(Len(s) + Len(t)) /\ (s \o t)[i] = IF i <= Len(s) THEN s[i] ELSE t[i - Len(s)]
        BY <2>1, <3>1
      <4>2. CASE i <= Len(s)
        BY <2>1, <4>1, <4>2 DEF Range
      <4>3. CASE ~(i <= Len(s))
        <5>1. i - Len(s) \in 1..Len(t)
          BY <2>1, <4>1, <4>3
        <5> QED BY <2>1, <4>1, <4>3, <5>1 DEF Range
      <4> QED BY <4>2, <4>3
    <3> QED BY <3>1 DEF Range
  <2> QED BY <2>2, <2>3, <2>4
<1>5. \A i \in DOMAIN s, f \in S : [s EXCEPT ![i] = f] \in Seq(S)
  OBVIOUS
<1> QED BY <1>1, <1>2, <1>3, <1>4, <1>5

\* queue_frame: the outbox keeps of every edit and acknowledgement the newest one of
\* the pad, and stops the session when it has no place for it.
LEMMA Queueing ==
    ASSUME TypeOK, NEW p \in Peers, Coalesced(p), NEW f \in Edits \cup Acks, queue_frame(p, f)
    PROVE  /\ outgoing' \in [Peers -> Seq(Edits \cup Acks)] /\ stop' \in [Peers -> BOOLEAN]
           /\ Coalesced(p)' /\ Range(outgoing'[p]) \subseteq Range(outgoing[p]) \cup {f}
           /\ stop[p] => stop'[p]
           /\ \A q \in Peers : q # p => outgoing'[q] = outgoing[q] /\ stop'[q] = stop[q]
           /\ ~stop'[p] => \A g \in Range(outgoing[p]) \cup {f} :
                 \E h \in Range(outgoing'[p]) : frames_coalesce(h, g) /\ h.revision >= g.revision
<1> DEFINE i == QueuedAt(p, f)
           s == outgoing[p]
           S == Edits \cup Acks
<1>1. s \in Seq(S) /\ outgoing \in [Peers -> Seq(S)] /\ stop \in [Peers -> BOOLEAN] /\ Len(s) \in Nat
  BY DEF TypeOK
<1>2. /\ \A g \in S : g.revision \in Nat
      /\ \A g, h : frames_coalesce(g, h) => frames_coalesce(h, g)
      /\ \A g, h, k : frames_coalesce(g, h) /\ frames_coalesce(h, k) => frames_coalesce(g, k)
      /\ \A g : frames_coalesce(g, g)
  BY DEF Edits, Acks, frames_coalesce
<1>3. \/ i = 0 /\ \A j \in DOMAIN s : ~frames_coalesce(s[j], f)
      \/ i # 0 /\ i \in DOMAIN s /\ frames_coalesce(s[i], f)
  <2> DEFINE at == {j \in DOMAIN s : frames_coalesce(s[j], f)}
  <2>1. i = IF at = {} THEN 0 ELSE CHOOSE j \in at : \A k \in at : j <= k
    BY DEF QueuedAt
  <2>2. CASE at = {}
    BY <2>1, <2>2
  <2>3. CASE at # {}
    <3>1. PICK j \in at : TRUE
      BY <2>3
    <3>2. \A k \in at : k = j /\ k \in Nat
      BY <1>1, <1>2, <3>1 DEF Coalesced
    <3>3. \E m \in at : \A k \in at : m <= k
      BY <3>1, <3>2
    <3>4. i \in at
      BY <2>1, <2>3, <3>3
    <3> QED BY <1>1, <3>4
  <2> QED BY <2>2, <2>3
<1>4. \A g \in Range(s) : g \in S
  BY <1>1 DEF Range
<1> HIDE DEF i
<1>5. CASE /\ stop[p] \/ (i > 0 /\ f.revision < s[i].revision)
           /\ UNCHANGED <<outgoing, stop>>
  <2>1. ASSUME ~stop[p], NEW g \in Range(s) \cup {f}
        PROVE  \E h \in Range(s) : frames_coalesce(h, g) /\ h.revision >= g.revision
    <3>1. CASE g \in Range(s)
      BY <1>2, <1>4, <3>1
    <3>2. CASE g = f
      <4>1. s[i] \in Range(s) /\ frames_coalesce(s[i], f) /\ f.revision < s[i].revision
        BY <1>3, <1>5, <2>1 DEF Range
      <4>2. s[i].revision \in Nat /\ f.revision \in Nat
        BY <1>2, <1>4, <4>1
      <4> QED BY <3>2, <4>1, <4>2
    <3> QED BY <2>1, <3>1, <3>2
  <2> QED BY <1>1, <1>5, <2>1 DEF Coalesced
<1>6. CASE /\ ~stop[p] /\ i > 0 /\ f.revision >= s[i].revision
           /\ outgoing' = [outgoing EXCEPT ![p][i] = f] /\ UNCHANGED stop
  <2>0. i \in DOMAIN s /\ frames_coalesce(s[i], f)
    BY <1>3, <1>6
  <2>1. outgoing'[p] = [s EXCEPT ![i] = f] /\ \A q \in Peers : q # p => outgoing'[q] = outgoing[q]
    BY <1>1, <1>6
  <2>2. outgoing'[p] \in Seq(S)
    BY <1>1, <2>0, <2>1, StreamSteps
  <2>3. /\ DOMAIN outgoing'[p] = DOMAIN s /\ outgoing'[p][i] = f
        /\ \A j \in DOMAIN s : j # i => outgoing'[p][j] = s[j]
    BY <1>1, <2>0, <2>1
  <2>4. outgoing' \in [Peers -> Seq(S)]
    BY <1>1, <1>6, <2>1, <2>2
  <2>5. Coalesced(p)'
    BY <1>2, <2>0, <2>3 DEF Coalesced
  <2>6. Range(outgoing'[p]) \subseteq Range(s) \cup {f}
    BY <2>3 DEF Range
  <2>7. ASSUME NEW g \in Range(s) \cup {f}
        PROVE  \E h \in Range(outgoing'[p]) : frames_coalesce(h, g) /\ h.revision >= g.revision
    <3>0. f \in Range(outgoing'[p]) /\ f.revision \in Nat
      BY <1>2, <2>0, <2>3 DEF Range
    <3>1. CASE g = f
      BY <1>2, <3>0, <3>1
    <3>2. CASE g \in Range(s)
      <4>1. PICK j \in DOMAIN s : g = s[j]
        BY <3>2 DEF Range
      <4>2. CASE j = i
        BY <1>2, <1>6, <2>0, <3>0, <4>1, <4>2
      <4>3. CASE j # i
        <5>1. g \in Range(outgoing'[p]) /\ g.revision \in Nat
          BY <1>2, <1>4, <2>3, <3>2, <4>1, <4>3 DEF Range
        <5> QED BY <1>2, <5>1
      <4> QED BY <4>2, <4>3
    <3> QED BY <2>7, <3>1, <3>2
  <2> QED BY <1>1, <1>6, <2>1, <2>4, <2>5, <2>6, <2>7
<1>7. CASE /\ ~stop[p] /\ i = 0 /\ outgoing' = [outgoing EXCEPT ![p] = Append(@, f)] /\ UNCHANGED stop
  <2>0. /\ outgoing'[p] = Append(s, f)
        /\ \A q \in Peers : q # p => outgoing'[q] = outgoing[q]
    BY <1>1, <1>7
  <2>1. outgoing'[p] \in Seq(S) /\ Range(outgoing'[p]) = Range(s) \cup {f}
    <3>1. Append(s, f) \in Seq(S) /\ Range(Append(s, f)) = Range(s) \cup {f}
      BY <1>1, StreamSteps
    <3> QED BY <2>0, <3>1
  <2>2. outgoing' \in [Peers -> Seq(S)]
    BY <1>1, <1>7, <2>0, <2>1
  <2>3. /\ DOMAIN outgoing'[p] = DOMAIN s \cup {Len(s) + 1} /\ outgoing'[p][Len(s) + 1] = f
        /\ \A j \in DOMAIN s : outgoing'[p][j] = s[j]
    BY <1>1, <2>0
  <2>4. Coalesced(p)'
    <3>1. \A j \in DOMAIN s : ~frames_coalesce(s[j], f) /\ ~frames_coalesce(f, s[j])
      BY <1>2, <1>3, <1>7
    <3> QED BY <2>3, <3>1 DEF Coalesced
  <2>5. \A g \in Range(s) \cup {f} : g.revision \in Nat
    BY <1>2, <1>4
  <2>6. \A g \in Range(s) \cup {f} :
           \E h \in Range(outgoing'[p]) : frames_coalesce(h, g) /\ h.revision >= g.revision
    BY <1>2, <2>1, <2>5
  <2> QED BY <1>1, <1>7, <2>0, <2>1, <2>2, <2>4, <2>6
<1>8. CASE ~stop[p] /\ stop' = [stop EXCEPT ![p] = TRUE] /\ UNCHANGED outgoing
  BY <1>1, <1>8 DEF Coalesced
<1> QED BY <1>5, <1>6, <1>7, <1>8 DEF queue_frame, i

-----------------------------------------------------------------------------
(* What a step leaves of the frames on their way.                          *)

\* No edit is on its way that was not.
Shrunk(p) == \A f \in Underway(p)' : f.type = "edit" => f \in Underway(p)

\* Of every edit on its way one of the pad at least as new still is, unless the session stops.
Kept(p) ==
    ~stop'[p] => /\ ~stop[p]
                 /\ \A f \in Underway(p) : f.type = "edit" =>
                       \E h \in Underway(p)' : h.type = "edit" /\ h.pad = f.pad /\ h.revision >= f.revision

\* The frames have their types.
LEMMA UnderwayTypes ==
    ASSUME TypeOK, NEW p \in Peers
    PROVE  /\ Underway(p) \subseteq Frames
           /\ \A f \in Underway(p) : f.type = "edit" => f \in Edits
<1>1. /\ hand[p] \subseteq Frames /\ outgoing[p] \in Seq(Frames) /\ sending[p] \in Seq(Frames)
      /\ Other(p) \in Peers /\ wire[Other(p)] \in Seq(Frames)
  BY TwoPeers DEF TypeOK, Frames
<1>2. Underway(p) \subseteq Frames
  BY <1>1, StreamSteps DEF Underway
<1>3. \A f \in Frames : f.type = "edit" => f \in Edits
  BY DEF Frames, Edits, Acks, Hello
<1> QED BY <1>2, <1>3

\* The latest edit stays on its way.
LEMMA StillCarried ==
    ASSUME SyncInv, TypeOK', NEW p \in Peers, NEW pad \in Pads, Shrunk(p), Kept(p), ~stop'[p],
           docs'[p][pad] = docs[p][pad], Latest(p, pad) \in Underway(p)
    PROVE  Latest(p, pad)' \in Underway(p)'
<1>1. PICK h \in Underway(p)' : h.type = "edit" /\ h.pad = pad /\ h.revision >= docs[p][pad].revision
  BY DEF Kept, Latest
<1>2. h \in Underway(p) /\ h \in Edits /\ h.writer = p /\ AtLeast(docs[p][pad], h)
  BY <1>1, UnderwayTypes DEF Shrunk, SyncInv, Own
<1>3. docs[p][pad].revision \in Nat
  BY DEF SyncInv, TypeOK, Docs
<1>4. h.revision = docs[p][pad].revision
  BY <1>1, <1>2, <1>3 DEF AtLeast, Edits
<1>5. h = Latest(p, pad)'
  BY <1>1, <1>2, <1>4 DEF Latest, Edits
<1> QED BY <1>1, <1>5

\* A step that changes no document and loses no latest edit keeps the invariant.
LEMMA Streams ==
    ASSUME SyncInv, TypeOK', UNCHANGED <<docs, pads, active>>,
           \A q \in Peers : Coalesced(q)' /\ Shrunk(q) /\ Kept(q)
    PROVE  SyncInv'
<1> SUFFICES ASSUME NEW p \in Peers
             PROVE  Existing(p)' /\ Own(p)' /\ Taken(p)' /\ Carried(p)'
  BY DEF SyncInv
<1>1. Existing(p)' /\ Taken(p)'
  BY DEF SyncInv, Existing, Taken, AtLeast
<1>2. Own(p)'
  BY DEF SyncInv, Own, Shrunk, AtLeast
<1>3. Carried(p)'
  <2> SUFFICES ASSUME NEW pad \in Pads, ~stop'[p], docs'[p][pad].writer = p
               PROVE  (AtLeast(docs[Other(p)][pad], docs[p][pad]) \/ Latest(p, pad) \in Underway(p))'
    BY DEF Carried
  <2>1. AtLeast(docs[Other(p)][pad], docs[p][pad]) \/ Latest(p, pad) \in Underway(p)
    BY DEF SyncInv, Carried, Kept
  <2>2. CASE AtLeast(docs[Other(p)][pad], docs[p][pad])
    BY <2>2 DEF AtLeast
  <2>3. CASE Latest(p, pad) \in Underway(p)
    BY <2>3, StillCarried
  <2> QED BY <2>1, <2>2, <2>3
<1> QED BY <1>1, <1>2, <1>3

\* Steps that leave the outbox, and keep every edit or stop the session.
LEMMA SameFrames ==
    ASSUME TypeOK, NEW p \in Peers,
           \/ stop'[p] /\ Underway(p)' \subseteq Underway(p)
           \/ stop'[p] = stop[p] /\ Underway(p)' \cup {Hello} = Underway(p) \cup {Hello}
    PROVE  Shrunk(p) /\ Kept(p)
<1>1. Hello.type # "edit"
  BY DEF Hello
<1>2. \A f \in Underway(p) : f.type = "edit" => f.revision \in Nat
  BY UnderwayTypes DEF Edits
<1>3. CASE stop'[p] /\ Underway(p)' \subseteq Underway(p)
  BY <1>3 DEF Shrunk, Kept
<1>4. CASE stop'[p] = stop[p] /\ Underway(p)' \cup {Hello} = Underway(p) \cup {Hello}
  <2>1. Shrunk(p)
    BY <1>1, <1>4 DEF Shrunk
  <2>2. \A f \in Underway(p) : f.type = "edit" => f \in Underway(p)' /\ f.revision >= f.revision
    BY <1>1, <1>2, <1>4
  <2> QED BY <1>4, <2>1, <2>2 DEF Kept
<1> QED BY <1>3, <1>4

\* A frame that is queued: the one from an editing thread or an acknowledgement.
LEMMA QueuedFrames ==
    ASSUME TypeOK, NEW p \in Peers, Coalesced(p), NEW f \in Edits \cup Acks, queue_frame(p, f),
           (hand'[p] = hand[p] /\ f \in Acks) \/ (hand'[p] = hand[p] \ {f} /\ f \in hand[p]),
           sending'[p] = sending[p], wire'[Other(p)] = wire[Other(p)]
    PROVE  Shrunk(p) /\ Kept(p)
<1>1. /\ Range(outgoing'[p]) \subseteq Range(outgoing[p]) \cup {f}
      /\ stop[p] => stop'[p]
      /\ ~stop'[p] => \A g \in Range(outgoing[p]) \cup {f} :
             \E h \in Range(outgoing'[p]) : frames_coalesce(h, g) /\ h.revision >= g.revision
  BY Queueing
<1>2. f \in Acks => f.type # "edit"
  BY DEF Acks
<1>3. Shrunk(p)
  BY <1>1, <1>2 DEF Shrunk, Underway
<1>4. ASSUME ~stop'[p], NEW g \in Underway(p), g.type = "edit"
      PROVE  \E h \in Underway(p)' : h.type = "edit" /\ h.pad = g.pad /\ h.revision >= g.revision
  <2>1. CASE g \in Range(outgoing[p]) \cup {f}
    BY <1>1, <1>4, <2>1 DEF frames_coalesce, Underway
  <2>2. CASE g \notin Range(outgoing[p]) \cup {f}
    <3>1. g \in Underway(p)'
      BY <2>2, <1>4 DEF Underway
    <3>2. g.revision \in Nat
      BY <1>4, UnderwayTypes DEF Edits
    <3> QED BY <1>4, <3>1, <3>2
  <2> QED BY <2>1, <2>2
<1> QED BY <1>1, <1>3, <1>4 DEF Kept

-----------------------------------------------------------------------------
(* The steps of the two sessions.                                          *)

\* An editing thread queues the frame it made: in the outbox it replaces an older one
\* of the pad, or the one queued there is newer already.
LEMMA QueueInv ==
    ASSUME SyncInv, NEW p \in Peers, NEW f \in hand[p], QueueEdit(p, f)
    PROVE  SyncInv'
<1>1. f \in Edits /\ TypeOK /\ Coalesced(p) /\ queue_frame(p, f)
  BY DEF SyncInv, TypeOK, QueueEdit
<1>2. /\ outgoing' \in [Peers -> Seq(Edits \cup Acks)] /\ stop' \in [Peers -> BOOLEAN] /\ Coalesced(p)'
      /\ \A q \in Peers : q # p => outgoing'[q] = outgoing[q] /\ stop'[q] = stop[q]
  BY <1>1, Queueing
<1>3. hand' \in [Peers -> SUBSET Edits] /\ hand'[p] = hand[p] \ {f} /\ \A q \in Peers : q # p => hand'[q] = hand[q]
  BY <1>1 DEF QueueEdit, TypeOK
<1>4. TypeOK'
  BY <1>1, <1>2, <1>3 DEF QueueEdit, TypeOK, workspace
<1>5. Shrunk(p) /\ Kept(p)
  BY <1>1, <1>3, QueuedFrames DEF QueueEdit
<1>6. ASSUME NEW q \in Peers, q # p PROVE Coalesced(q)' /\ Shrunk(q) /\ Kept(q)
  <2>1. Underway(q)' = Underway(q) /\ outgoing'[q] = outgoing[q] /\ stop'[q] = stop[q]
    BY <1>2, <1>3, <1>6 DEF Underway, QueueEdit
  <2>2. Coalesced(q)'
    BY <2>1 DEF SyncInv, Coalesced
  <2> QED BY <1>1, <2>1, <2>2, SameFrames
<1>7. UNCHANGED <<docs, pads, active>>
  BY DEF QueueEdit, workspace
<1> QED BY <1>2, <1>4, <1>5, <1>6, <1>7, Streams

\* The sender thread.
LEMMA SenderInv ==
    ASSUME SyncInv, NEW p \in Peers, Pop(p) \/ Transmit(p) \/ TransmitFails(p)
    PROVE  SyncInv'
<1> DEFINE S == Edits \cup Acks
<1>1. /\ TypeOK /\ outgoing \in [Peers -> Seq(S)] /\ sending \in [Peers -> Seq(S)]
      /\ wire \in [Peers -> Seq(S \cup {Hello})] /\ stop \in [Peers -> BOOLEAN]
      /\ Other(p) \in Peers /\ Other(p) # p /\ \A q \in Peers : q # p => q = Other(p) /\ Other(q) = p
  BY TwoPeers DEF SyncInv, TypeOK
<1>2. UNCHANGED <<docs, pads, active>>
  BY DEF Pop, Transmit, TransmitFails, workspace
<1> HIDE DEF S
<1>3. CASE Pop(p)
  <2>1. /\ outgoing[p] \in Seq(S) /\ outgoing[p] # << >> /\ sending[p] = << >>
        /\ outgoing'[p] = Tail(outgoing[p]) /\ sending'[p] = <<Head(outgoing[p])>>
        /\ \A q \in Peers : q # p => outgoing'[q] = outgoing[q] /\ sending'[q] = sending[q]
        /\ UNCHANGED <<workspace, hand, wire, run, stop>>
    BY <1>1, <1>3 DEF Pop
  <2>2. /\ Head(outgoing[p]) \in S /\ Tail(outgoing[p]) \in Seq(S)
        /\ Range(outgoing[p]) = {Head(outgoing[p])} \cup Range(Tail(outgoing[p]))
    BY <2>1, StreamSteps
  <2>3. <<Head(outgoing[p])>> \in Seq(S) /\ Range(<<Head(outgoing[p])>>) = {Head(outgoing[p])} /\ Range(<< >>) = {}
    BY <2>2 DEF Range
  <2>4. outgoing' \in [Peers -> Seq(S)] /\ sending' \in [Peers -> Seq(S)]
    BY <1>1, <1>3, <2>1, <2>2, <2>3 DEF Pop
  <2>5. TypeOK'
    BY <1>1, <2>1, <2>4 DEF TypeOK, workspace, S
  <2>6. \A q \in Peers : Underway(q)' = Underway(q) /\ stop'[q] = stop[q]
    BY <1>1, <2>1, <2>2, <2>3 DEF Underway
  <2>7. \A q \in Peers : Shrunk(q) /\ Kept(q)
    BY <1>1, <2>6, SameFrames
  <2>8. Coalesced(p)'
    <3> DEFINE s == outgoing[p]
    <3>1. Len(s) \in Nat /\ DOMAIN s = 1..Len(s) /\ DOMAIN Tail(s) = 1..(Len(s) - 1)
      BY <2>1
    <3>2. \A i \in DOMAIN Tail(s) : i + 1 \in DOMAIN s /\ Tail(s)[i] = s[i + 1]
      BY <2>1, <3>1
    <3>3. \A i, j \in DOMAIN s : frames_coalesce(s[i], s[j]) => i = j
      BY DEF SyncInv, Coalesced
    <3> HIDE DEF s
    <3>4. ASSUME NEW i \in DOMAIN Tail(s), NEW j \in DOMAIN Tail(s), frames_coalesce(Tail(s)[i], Tail(s)[j])
          PROVE  i = j
      <4>1. i + 1 = j + 1
        BY <3>2, <3>3, <3>4
      <4>2. i \in Int /\ j \in Int
        BY <3>1
      <4> QED BY <4>1, <4>2
    <3> QED BY <2>1, <3>4 DEF Coalesced, s
  <2>9. \A q \in Peers : q # p => Coalesced(q)'
    BY <2>1 DEF SyncInv, Coalesced
  <2> QED BY <1>2, <2>5, <2>7, <2>8, <2>9, Streams
<1>4. CASE Transmit(p)
  <2>1. /\ sending[p] \in Seq(S) /\ wire[Other(p)] \in Seq(S \cup {Hello}) /\ sending[p] \in Seq(S \cup {Hello})
        /\ wire'[Other(p)] = wire[Other(p)] \o sending[p] /\ sending'[p] = << >>
        /\ \A q \in Peers : q # p => sending'[q] = sending[q]
        /\ wire'[p] = wire[p]
        /\ UNCHANGED <<workspace, hand, outgoing, run, stop>>
    BY <1>1, <1>4 DEF Transmit
  <2>2. /\ wire'[Other(p)] \in Seq(S \cup {Hello})
        /\ Range(wire'[Other(p)]) = Range(wire[Other(p)]) \cup Range(sending[p])
    BY <2>1, StreamSteps
  <2>3. sending' \in [Peers -> Seq(S)] /\ wire' \in [Peers -> Seq(S \cup {Hello})]
    BY <1>1, <1>4, <2>1, <2>2 DEF Transmit
  <2>4. TypeOK'
    BY <1>1, <2>1, <2>3 DEF TypeOK, workspace, S
  <2>5. Range(<< >>) = {}
    BY DEF Range
  <2>6. \A q \in Peers : Underway(q)' = Underway(q) /\ stop'[q] = stop[q]
    BY <1>1, <2>1, <2>2, <2>5 DEF Underway
  <2>7. \A q \in Peers : Shrunk(q) /\ Kept(q) /\ Coalesced(q)'
    BY <1>1, <2>1, <2>6, SameFrames DEF SyncInv, Coalesced
  <2> QED BY <1>2, <2>4, <2>7, Streams
<1>5. CASE TransmitFails(p)
  <2>1. /\ sending'[p] = << >> /\ stop'[p]
        /\ \A q \in Peers : q # p => sending'[q] = sending[q] /\ stop'[q] = stop[q]
        /\ UNCHANGED <<workspace, hand, outgoing, wire, run>>
    BY <1>1, <1>5 DEF TransmitFails
  <2>2. sending' \in [Peers -> Seq(S)] /\ stop' \in [Peers -> BOOLEAN]
    BY <1>1, <1>5 DEF TransmitFails
  <2>3. TypeOK'
    BY <1>1, <2>1, <2>2 DEF TypeOK, workspace, S
  <2>4. Range(<< >>) = {}
    BY DEF Range
  <2>5. /\ stop'[p] /\ Underway(p)' \subseteq Underway(p)
        /\ \A q \in Peers : q # p => Underway(q)' = Underway(q) /\ stop'[q] = stop[q]
    BY <1>1, <2>1, <2>4 DEF Underway
  <2>6. \A q \in Peers : Shrunk(q) /\ Kept(q) /\ Coalesced(q)'
    BY <1>1, <2>1, <2>5, SameFrames DEF SyncInv, Coalesced
  <2> QED BY <1>2, <2>3, <2>6, Streams
<1> QED BY <1>3, <1>4, <1>5

\* The run thread beside the frames of the connected session, and a user who leaves.
LEMMA RunInv ==
    ASSUME SyncInv, NEW p \in Peers, Open(p) \/ Greet(p) \/ EndRun(p) \/ request_stop(p)
    PROVE  SyncInv'
<1> DEFINE S == Edits \cup Acks \cup {Hello}
<1>1. /\ TypeOK /\ wire \in [Peers -> Seq(S)] /\ stop \in [Peers -> BOOLEAN]
      /\ Other(p) \in Peers /\ Other(p) # p /\ Other(Other(p)) = p
      /\ \A q \in Peers : q # p => q = Other(p) /\ Other(q) = p
  BY TwoPeers DEF SyncInv, TypeOK
<1>2. UNCHANGED <<docs, pads, active, outgoing>>
  BY DEF Open, Greet, EndRun, request_stop, workspace
<1>3. \A q \in Peers : Coalesced(q)'
  BY <1>2 DEF SyncInv, Coalesced
<1> HIDE DEF S
<1>4. CASE Open(p)
  <2>1. Hello \in S
    BY DEF S
  <2>2. /\ wire'[Other(p)] = Append(wire[Other(p)], Hello) /\ wire'[p] = wire[p] /\ wire[Other(p)] \in Seq(S)
        /\ UNCHANGED <<workspace, hand, outgoing, sending, stop>>
    BY <1>1, <1>4 DEF Open
  <2>3. Append(wire[Other(p)], Hello) \in Seq(S)
        /\ Range(Append(wire[Other(p)], Hello)) = Range(wire[Other(p)]) \cup {Hello}
    BY <2>1, <2>2, StreamSteps
  <2>4. wire' \in [Peers -> Seq(S)]
    BY <1>1, <1>4, <2>2, <2>3 DEF Open
  <2>5. TypeOK'
    BY <1>1, <1>4, <2>2, <2>4 DEF TypeOK, workspace, S, Open
  <2>6. \A q \in Peers : stop'[q] = stop[q] /\ Underway(q)' \cup {Hello} = Underway(q) \cup {Hello}
    BY <1>1, <2>2, <2>3 DEF Underway
  <2> QED BY <1>1, <1>2, <1>3, <2>5, <2>6, SameFrames, Streams
<1>5. CASE Greet(p)
  <2>1. /\ wire'[p] = Tail(wire[p]) /\ wire'[Other(p)] = wire[Other(p)] /\ wire[p] \in Seq(S) /\ wire[p] # << >>
        /\ Head(wire[p]) = Hello
        /\ UNCHANGED <<workspace, hand, outgoing, sending, stop>>
    BY <1>1, <1>5 DEF Greet
  <2>2. Tail(wire[p]) \in Seq(S) /\ Range(wire[p]) = {Hello} \cup Range(Tail(wire[p]))
    BY <2>1, StreamSteps
  <2>3. wire' \in [Peers -> Seq(S)]
    BY <1>1, <1>5, <2>1, <2>2 DEF Greet
  <2>4. TypeOK'
    BY <1>1, <1>5, <2>1, <2>3 DEF TypeOK, workspace, S, Greet
  <2>5. \A q \in Peers : stop'[q] = stop[q] /\ Underway(q)' \cup {Hello} = Underway(q) \cup {Hello}
    BY <1>1, <2>1, <2>2 DEF Underway
  <2> QED BY <1>1, <1>2, <1>3, <2>4, <2>5, SameFrames, Streams
<1>6. CASE EndRun(p) \/ request_stop(p)
  <2>1. /\ stop'[p] /\ \A q \in Peers : q # p => stop'[q] = stop[q]
        /\ UNCHANGED <<workspace, hand, outgoing, sending, wire>>
    BY <1>1, <1>6 DEF EndRun, request_stop
  <2>2. TypeOK'
    BY <1>1, <1>6, <2>1 DEF TypeOK, workspace, EndRun, request_stop
  <2>3. \A q \in Peers : Underway(q)' = Underway(q)
    BY <2>1 DEF Underway
  <2> QED BY <1>1, <1>2, <1>3, <2>1, <2>2, <2>3, SameFrames, Streams
<1> QED BY <1>4, <1>5, <1>6

\* One frame from the other peer, an edit or an acknowledgement.
LEMMA ReceiveInv ==
    ASSUME SyncInv, NEW p \in Peers, Receive(p)
    PROVE  /\ SyncInv' /\ UNCHANGED <<hand, active>>
           /\ \A pad \in Pads : docs'[Other(p)][pad] = docs[Other(p)][pad]
<1> DEFINE S == Edits \cup Acks \cup {Hello}
           q == Other(p)
           f == Head(wire[p])
<1>1. /\ TypeOK /\ wire \in [Peers -> Seq(S)] /\ stop \in [Peers -> BOOLEAN] /\ docs \in [Peers -> [Pads -> Docs]]
      /\ pads \in [Peers -> SUBSET Pads] /\ acked \in [Peers -> [Pads -> Nat]]
      /\ q \in Peers /\ q # p /\ Other(q) = p /\ \A r \in Peers : r = p \/ r = q
  BY TwoPeers DEF SyncInv, TypeOK
<1>2. /\ wire[p] \in Seq(S) /\ wire[p] # << >> /\ wire'[p] = Tail(wire[p]) /\ wire'[q] = wire[q]
      /\ wire' = [wire EXCEPT ![p] = Tail(wire[p])]
      /\ UNCHANGED <<hand, sending, run>>
  BY <1>1 DEF Receive
<1> HIDE DEF S, q
<1>3. f \in S /\ Tail(wire[p]) \in Seq(S) /\ Range(wire[p]) = {f} \cup Range(Tail(wire[p]))
  BY <1>2, StreamSteps
<1>4. wire' \in [Peers -> Seq(S)]
  BY <1>1, <1>2, <1>3
<1>5. f \in Underway(q)
  BY <1>1, <1>3 DEF Underway
<1> HIDE DEF f
<1>6. CASE /\ f.type = "ack" /\ acknowledge(p, f)
           /\ UNCHANGED <<outgoing, stop>>
  <2>1. f \in Acks
    BY <1>3, <1>6 DEF S, Edits, Hello
  <2>2. acked' \in [Peers -> [Pads -> Nat]]
    <3>1. f.pad \in Pads /\ f.revision \in Nat
      BY <2>1 DEF Acks
    <3>2. \A n \in Nat : (IF f.revision > n THEN f.revision ELSE n) \in Nat
      BY <3>1
    <3> QED BY <1>1, <1>6, <3>1, <3>2 DEF acknowledge
  <2>3. TypeOK'
    BY <1>1, <1>2, <1>4, <1>6, <2>2 DEF TypeOK, acknowledge, S
  <2>4. Underway(p)' = Underway(p)
    BY <1>1, <1>2, <1>6 DEF Underway, q
  <2>5. Underway(q) = Underway(q)' \cup {f}
    BY <1>1, <1>2, <1>3, <1>6 DEF Underway
  <2>6. Shrunk(p) /\ Kept(p)
    BY <1>1, <1>6, <2>4, SameFrames
  <2>7. Shrunk(q) /\ Kept(q)
    <3>1. \A g \in Underway(q) : g.type = "edit" => g \in Underway(q)' /\ g.revision \in Nat
      BY <1>1, <1>6, <2>5, UnderwayTypes DEF Edits
    <3> QED BY <1>6, <2>5, <3>1 DEF Shrunk, Kept
  <2>8. UNCHANGED <<docs, pads, active, outgoing>>
    BY <1>6 DEF acknowledge
  <2>9. \A r \in Peers : Coalesced(r)'
    BY <2>8 DEF SyncInv, Coalesced
  <2> QED BY <1>1, <1>2, <2>3, <2>6, <2>7, <2>8, <2>9, Streams
<1>7. CASE /\ f.type = "edit" /\ apply_remote(p, f)
           /\ queue_frame(p, [type |-> "ack", pad |-> f.pad, revision |-> f.revision])
  <2> DEFINE ack == [type |-> "ack", pad |-> f.pad, revision |-> f.revision]
  <2>1. /\ f \in Edits /\ f.writer = q /\ f.revision > 0 /\ AtLeast(docs[q][f.pad], f)
        /\ f.pad \in Pads /\ f.revision \in Nat /\ f.writer \in Peers
    BY <1>1, <1>5, <1>7, UnderwayTypes DEF SyncInv, Own, Edits
  <2>2. ack \in Edits \cup Acks /\ ack \in Acks
    BY <2>1 DEF Acks
  <2>3. Coalesced(p) /\ Coalesced(q) /\ Existing(p) /\ Existing(q) /\ Own(p) /\ Own(q) /\ Taken(p) /\ Taken(q)
        /\ Carried(p) /\ Carried(q)
    BY <1>1 DEF SyncInv
  <2> HIDE DEF ack
  <2>4. queue_frame(p, ack)
    BY <1>7 DEF ack
  <2>5. /\ outgoing' \in [Peers -> Seq(Edits \cup Acks)] /\ stop' \in [Peers -> BOOLEAN] /\ Coalesced(p)'
        /\ outgoing'[q] = outgoing[q] /\ stop'[q] = stop[q]
    BY <1>1, <2>2, <2>3, <2>4, Queueing
  <2>6. Shrunk(p) /\ Kept(p)
    <3>1. hand'[p] = hand[p] /\ sending'[p] = sending[p] /\ wire'[Other(p)] = wire[Other(p)]
      BY <1>2 DEF q
    <3> QED BY <1>1, <2>2, <2>3, <2>4, <3>1, QueuedFrames
  <2>7. /\ docs'[q] = docs[q] /\ pads'[q] = pads[q] /\ active' = active
        /\ pads'[p] = pads[p] \cup {f.pad}
        /\ \A pad \in Pads \ {f.pad} : docs'[p][pad] = docs[p][pad]
        /\ docs'[p][f.pad] = IF Newer(f, docs[p][f.pad]) THEN Applied(f) ELSE docs[p][f.pad]
        /\ docs' \in [Peers -> [Pads -> Docs]] /\ pads' \in [Peers -> SUBSET Pads]
        /\ UNCHANGED <<next, local, acked>>
    <3>1. Applied(f) \in Docs
      BY <2>1 DEF Applied, Docs
    <3>2. /\ pads' = [pads EXCEPT ![p] = @ \cup {f.pad}] /\ UNCHANGED <<active, next, local, acked>>
          /\ docs' = IF Newer(f, docs[p][f.pad]) THEN [docs EXCEPT ![p][f.pad] = Applied(f)] ELSE docs
      BY <1>7 DEF apply_remote
    <3>3. pads'[q] = pads[q] /\ pads'[p] = pads[p] \cup {f.pad} /\ pads' \in [Peers -> SUBSET Pads]
      BY <1>1, <2>1, <3>2
    <3>4. CASE Newer(f, docs[p][f.pad])
      <4>1. docs' = [docs EXCEPT ![p][f.pad] = Applied(f)]
        BY <3>2, <3>4
      <4>2. docs' \in [Peers -> [Pads -> Docs]]
        BY <1>1, <2>1, <3>1, <4>1
      <4> QED BY <1>1, <2>1, <3>2, <3>3, <3>4, <4>1, <4>2
    <3>5. CASE ~Newer(f, docs[p][f.pad])
      BY <1>1, <3>2, <3>3, <3>5
    <3> QED BY <3>4, <3>5
  <2>8. TypeOK'
    BY <1>1, <1>2, <1>4, <2>5, <2>7 DEF TypeOK, S
  <2>9. \A pad \in Pads : /\ docs[p][pad].revision \in Nat /\ docs[p][pad].writer \in Nat
                          /\ docs[q][pad].revision \in Nat /\ docs[q][pad].writer \in Nat
                          /\ docs'[p][pad].revision \in Nat /\ docs'[p][pad].writer \in Nat
    BY <1>1, <2>1, <2>7, DocTypes
  <2>10. f.writer \in Nat /\ Applied(f).revision = f.revision /\ Applied(f).writer = f.writer
    BY <2>1 DEF Applied, Peers
  <2>11. /\ \A pad \in Pads : AtLeast(docs'[p][pad], docs[p][pad])
         /\ AtLeast(docs'[p][f.pad], f)
    <3>1. CASE Newer(f, docs[p][f.pad])
      <4>1. docs'[p][f.pad] = Applied(f) /\ AtLeast(Applied(f), f) /\ AtLeast(Applied(f), docs[p][f.pad])
        BY <2>1, <2>7, <2>9, <2>10, <3>1 DEF AtLeast, Newer
      <4> QED BY <2>7, <2>9, <4>1 DEF AtLeast
    <3>2. CASE ~Newer(f, docs[p][f.pad])
      <4>1. docs'[p][f.pad] = docs[p][f.pad]
        BY <2>7, <3>2
      <4>2. AtLeast(docs[p][f.pad], f)
        BY <2>1, <2>9, <2>10, <3>2, Order
      <4> QED BY <2>7, <2>9, <4>1, <4>2 DEF AtLeast
    <3> QED BY <3>1, <3>2
  <2>12. Underway(q) = Underway(q)' \cup {f}
    BY <1>1, <1>2, <1>3, <2>5 DEF Underway
  <2>13. Coalesced(q)'
    BY <2>3, <2>5 DEF Coalesced
  <2>14. Existing(p)' /\ Existing(q)'
    <3>1. Existing(q)'
      BY <2>3, <2>7 DEF Existing
    <3>2. docs'[p][f.pad].revision > 0 /\ docs'[p][f.pad].writer # 0
      BY <2>1, <2>3, <2>7, <2>9, <2>10 DEF Existing, Newer, Peers
    <3>3. ASSUME NEW pad \in Pads
          PROVE  /\ pad \in pads'[p] <=> pad = 1 \/ docs'[p][pad].revision > 0
                 /\ docs'[p][pad].revision = 0 <=> docs'[p][pad].writer = 0
      <4>1. CASE pad = f.pad
        BY <2>7, <2>9, <3>2, <4>1
      <4>2. CASE pad # f.pad
        BY <2>3, <2>7, <4>2 DEF Existing
      <4> QED BY <4>1, <4>2
    <3> QED BY <2>3, <2>7, <3>1, <3>3 DEF Existing
  <2>15. Own(p)'
    <3> SUFFICES ASSUME NEW g \in Underway(p)', g.type = "edit"
                 PROVE  g.writer = p /\ g.revision > 0 /\ AtLeast(docs'[p][g.pad], g)
      BY DEF Own, AtLeast
    <3>1. g \in Underway(p) /\ g \in Edits /\ g.writer = p /\ g.revision > 0 /\ AtLeast(docs[p][g.pad], g)
      BY <1>1, <2>3, <2>6, UnderwayTypes DEF Shrunk, Own
    <3>2. g.pad \in Pads /\ g.revision \in Nat /\ g.writer \in Nat
      BY <3>1 DEF Edits, Peers
    <3> QED BY <2>9, <2>11, <3>1, <3>2 DEF AtLeast
  <2>16. Own(q)'
    BY <2>3, <2>7, <2>12 DEF Own, AtLeast
  <2>17. Taken(p)'
    <3> SUFFICES ASSUME NEW pad \in Pads, docs'[p][pad].writer = q
                 PROVE  AtLeast(docs'[q][pad], docs'[p][pad])
      BY DEF Taken, AtLeast, q
    <3>1. CASE docs'[p][pad] = docs[p][pad]
      BY <2>3, <2>7, <3>1 DEF Taken, q
    <3>2. CASE pad = f.pad /\ docs'[p][pad] = Applied(f)
      BY <2>1, <2>7, <2>10, <3>2 DEF AtLeast
    <3> QED BY <2>7, <3>1, <3>2
  <2>18. Taken(q)'
    <3> SUFFICES ASSUME NEW pad \in Pads, docs[q][pad].writer = p
                 PROVE  AtLeast(docs'[p][pad], docs[q][pad])
      BY <1>1, <2>7 DEF Taken, AtLeast
    <3>1. AtLeast(docs[p][pad], docs[q][pad])
      BY <1>1, <2>3 DEF Taken
    <3> QED BY <2>9, <2>11, <3>1 DEF AtLeast
  <2>19. Carried(p)'
    <3> SUFFICES ASSUME NEW pad \in Pads, ~stop'[p], docs'[p][pad].writer = p
                 PROVE  AtLeast(docs'[q][pad], docs'[p][pad]) \/ Latest(p, pad)' \in Underway(p)'
      BY DEF Carried, AtLeast, q
    <3>1. docs'[p][pad] = docs[p][pad]
      BY <1>1, <2>1, <2>7, <2>10
    <3>2. AtLeast(docs[q][pad], docs[p][pad]) \/ Latest(p, pad) \in Underway(p)
      BY <2>3, <2>6, <3>1 DEF Carried, Kept, q
    <3> QED BY <2>6, <2>7, <2>8, <3>1, <3>2, StillCarried
  <2>20. Carried(q)'
    <3> SUFFICES ASSUME NEW pad \in Pads, ~stop[q], docs[q][pad].writer = q
                 PROVE  AtLeast(docs'[p][pad], docs[q][pad]) \/ Latest(q, pad)' \in Underway(q)'
      BY <1>1, <2>5, <2>7 DEF Carried, AtLeast
    <3>1. Latest(q, pad)' = Latest(q, pad)
      BY <2>7 DEF Latest
    <3>2. AtLeast(docs[p][pad], docs[q][pad]) \/ Latest(q, pad) \in Underway(q)
      BY <1>1, <2>3 DEF Carried
    <3>3. CASE AtLeast(docs[p][pad], docs[q][pad])
      BY <2>9, <2>11, <3>3 DEF AtLeast
    <3>4. CASE Latest(q, pad) = f
      <4>1. f.pad = pad /\ f.revision = docs[q][pad].revision /\ f.writer = docs[q][pad].writer
        BY <3>4 DEF Latest
      <4> QED BY <2>11, <4>1 DEF AtLeast
    <3> QED BY <2>12, <3>1, <3>2, <3>3, <3>4
  <2>21. SyncInv'
    BY <1>1, <2>5, <2>8, <2>13, <2>14, <2>15, <2>16, <2>17, <2>18, <2>19, <2>20 DEF SyncInv
  <2> QED BY <1>2, <2>7, <2>21 DEF q
<1> QED BY <1>6, <1>7 DEF Receive, f

\* apply_local_locked: the new text wins over both documents, and its frame is in hand.
LEMMA LocalEditInv ==
    ASSUME SyncInv, NEW p \in Peers, NEW pad \in Pads, LocalEdit(p, pad),
           pads' \in [Peers -> SUBSET Pads], active' \in [Peers -> Pads], next' \in [Peers -> Nat],
           pads'[p] = pads[p] \cup {pad}, active'[p] \in pads'[p],
           pads'[Other(p)] = pads[Other(p)], active'[Other(p)] = active[Other(p)],
           UNCHANGED <<acked, session, wire>>
    PROVE  SyncInv'
<1> DEFINE q == Other(p)
           frame == [type |-> "edit", pad |-> pad, revision |-> docs[p][pad].revision + 1, writer |-> p]
<1>1. /\ TypeOK /\ docs \in [Peers -> [Pads -> Docs]]
      /\ q \in Peers /\ q # p /\ Other(q) = p /\ \A r \in Peers : r = p \/ r = q
  BY TwoPeers DEF SyncInv, TypeOK
<1>2. Existing(p) /\ Existing(q) /\ Own(p) /\ Own(q) /\ Taken(p) /\ Taken(q) /\ Carried(p) /\ Carried(q)
  BY <1>1 DEF SyncInv
<1>3. docs[p][pad].revision \in Nat /\ p \in Nat /\ p # 0
  BY <1>1 DEF Docs, Peers
<1>4. frame \in Edits /\ Applied(frame) \in Docs
  BY <1>3 DEF Edits, Applied, Docs
<1>5. /\ docs' \in [Peers -> [Pads -> Docs]] /\ docs'[q] = docs[q]
      /\ \A n \in Pads \ {pad} : docs'[p][n] = docs[p][n]
      /\ docs'[p][pad].revision = docs[p][pad].revision + 1 /\ docs'[p][pad].writer = p
      /\ local' \in [Peers -> [Pads -> Nat]]
      /\ hand' \in [Peers -> SUBSET Edits] /\ hand'[p] = hand[p] \cup {frame} /\ hand'[q] = hand[q]
  <2>1. /\ docs' = [docs EXCEPT ![p][pad] = Applied(frame)]
        /\ local' = [local EXCEPT ![p][pad] = frame.revision] /\ frame.revision \in Nat
        /\ hand' = [hand EXCEPT ![p] = @ \cup {frame}]
    BY <1>3 DEF LocalEdit
  <2>2. docs' \in [Peers -> [Pads -> Docs]] /\ docs'[q] = docs[q] /\ docs'[p][pad] = Applied(frame)
        /\ \A n \in Pads \ {pad} : docs'[p][n] = docs[p][n]
    BY <1>1, <1>4, <2>1
  <2>3. Applied(frame).revision = docs[p][pad].revision + 1 /\ Applied(frame).writer = p
    BY DEF Applied
  <2>4. local' \in [Peers -> [Pads -> Nat]]
    BY <1>1, <2>1 DEF TypeOK
  <2>5. hand' \in [Peers -> SUBSET Edits] /\ hand'[p] = hand[p] \cup {frame} /\ hand'[q] = hand[q]
    BY <1>1, <1>4, <2>1 DEF TypeOK
  <2> QED BY <2>2, <2>3, <2>4, <2>5
<1>6. TypeOK'
  BY <1>1, <1>5 DEF TypeOK, session
<1>7. /\ Underway(p)' = Underway(p) \cup {frame} /\ Underway(q)' = Underway(q)
      /\ Latest(p, pad)' = frame
      /\ UNCHANGED <<outgoing, stop>>
  BY <1>1, <1>5 DEF Underway, Latest, session
<1> HIDE DEF q
<1>8. \A r \in Peers : Coalesced(r)'
  BY <1>7 DEF SyncInv, Coalesced
<1>9. \A n \in Pads : /\ docs[p][n].revision \in Nat /\ docs[p][n].writer \in Nat
                      /\ docs[q][n].revision \in Nat /\ docs[q][n].writer \in Nat
                      /\ docs'[p][n].revision \in Nat /\ docs'[p][n].writer \in Nat
                      /\ AtLeast(docs'[p][n], docs[p][n])
  <2> TAKE n \in Pads
  <2>1. /\ docs[p][n].revision \in Nat /\ docs[p][n].writer \in Nat
        /\ docs[q][n].revision \in Nat /\ docs[q][n].writer \in Nat
        /\ docs'[p][n].revision \in Nat /\ docs'[p][n].writer \in Nat
    BY <1>1, <1>5, DocTypes
  <2> QED BY <1>5, <2>1 DEF AtLeast
<1>10. Existing(p)' /\ Existing(q)'
  <2>1. Existing(q)'
    BY <1>2, <1>5 DEF Existing, q
  <2>2. ASSUME NEW n \in Pads
        PROVE  /\ n \in pads'[p] <=> n = 1 \/ docs'[p][n].revision > 0
               /\ docs'[p][n].revision = 0 <=> docs'[p][n].writer = 0
    <3>1. CASE n = pad
      BY <1>3, <1>5, <3>1
    <3>2. CASE n # pad
      BY <1>2, <1>5, <3>2 DEF Existing
    <3> QED BY <3>1, <3>2
  <2> QED BY <2>1, <2>2 DEF Existing
<1>11. Own(p)' /\ Own(q)'
  <2>1. Own(q)'
    BY <1>2, <1>5, <1>7 DEF Own, AtLeast
  <2>2. ASSUME NEW g \in Underway(p)', g.type = "edit"
        PROVE  g.writer = p /\ g.revision > 0 /\ AtLeast(docs'[p][g.pad], g)
    <3>1. CASE g = frame
      BY <1>3, <1>5, <3>1 DEF AtLeast
    <3>2. CASE g \in Underway(p)
      <4>1. g \in Edits /\ g.writer = p /\ g.revision > 0 /\ AtLeast(docs[p][g.pad], g)
        BY <1>1, <1>2, <2>2, <3>2, UnderwayTypes DEF Own
      <4>2. g.pad \in Pads /\ g.revision \in Nat /\ g.writer \in Nat
        BY <4>1 DEF Edits, Peers
      <4> QED BY <1>9, <4>1, <4>2 DEF AtLeast
    <3> QED BY <1>7, <2>2, <3>1, <3>2
  <2> QED BY <2>1, <2>2 DEF Own, AtLeast
<1>12. Taken(p)' /\ Taken(q)'
  <2>1. ASSUME NEW n \in Pads, docs'[p][n].writer = q PROVE AtLeast(docs'[q][n], docs'[p][n])
    BY <1>1, <1>2, <1>5, <2>1 DEF Taken, q
  <2>2. ASSUME NEW n \in Pads, docs[q][n].writer = p PROVE AtLeast(docs'[p][n], docs[q][n])
    <3>1. AtLeast(docs[p][n], docs[q][n])
      BY <1>1, <1>2, <2>2 DEF Taken
    <3> QED BY <1>9, <3>1 DEF AtLeast
  <2> QED BY <1>1, <1>5, <2>1, <2>2 DEF Taken, AtLeast, q
<1>13. Carried(p)'
  <2> SUFFICES ASSUME NEW n \in Pads, ~stop'[p], docs'[p][n].writer = p
               PROVE  AtLeast(docs'[q][n], docs'[p][n]) \/ Latest(p, n)' \in Underway(p)'
    BY DEF Carried, AtLeast, q
  <2>1. CASE n = pad
    BY <1>7, <2>1
  <2>2. CASE n # pad
    <3>1. Latest(p, n)' = Latest(p, n) /\ docs'[p][n] = docs[p][n]
      BY <1>5, <2>2 DEF Latest
    <3>2. AtLeast(docs[q][n], docs[p][n]) \/ Latest(p, n) \in Underway(p)
      BY <1>2, <1>7, <3>1 DEF Carried, q
    <3> QED BY <1>5, <1>7, <3>1, <3>2
  <2> QED BY <2>1, <2>2
<1>14. Carried(q)'
  <2> SUFFICES ASSUME NEW n \in Pads, ~stop[q], docs[q][n].writer = q
               PROVE  AtLeast(docs'[p][n], docs[q][n]) \/ Latest(q, n)' \in Underway(q)'
    BY <1>1, <1>5, <1>7 DEF Carried, AtLeast
  <2>1. Latest(q, n)' = Latest(q, n)
    BY <1>5 DEF Latest
  <2>2. AtLeast(docs[p][n], docs[q][n]) \/ Latest(q, n) \in Underway(q)
    BY <1>1, <1>2 DEF Carried
  <2>3. AtLeast(docs[p][n], docs[q][n]) => AtLeast(docs'[p][n], docs[q][n])
    BY <1>9 DEF AtLeast
  <2> QED BY <1>7, <2>1, <2>2, <2>3
<1> QED BY <1>1, <1>6, <1>8, <1>10, <1>11, <1>12, <1>13, <1>14 DEF SyncInv

\* Every step of the two sessions keeps the invariant.
LEMMA SessionStep ==
    ASSUME SyncInv, NEW p \in Peers, User(p) \/ Threads(p)
    PROVE  SyncInv'
<1>1. CASE update_active(p)
  <2>1. active[p] \in Pads /\ active[p] \in pads[p] /\ pads[p] \cup {active[p]} = pads[p] /\ TypeOK
    BY DEF SyncInv, TypeOK, Existing
  <2>2. LocalEdit(p, active[p]) /\ UNCHANGED <<pads, active, next, acked, session, wire>>
    BY <1>1 DEF update_active
  <2> QED BY <2>1, <2>2, LocalEditInv DEF TypeOK
<1>2. CASE create_pad(p)
  <2>1. PICK pad \in Pads \ pads[p] :
            /\ next' = [next EXCEPT ![p] = pad + 1] /\ pads' = [pads EXCEPT ![p] = @ \cup {pad}]
            /\ active' = [active EXCEPT ![p] = pad] /\ LocalEdit(p, pad)
            /\ UNCHANGED <<acked, session, wire>>
    BY <1>2 DEF create_pad
  <2>2. TypeOK /\ pad + 1 \in Nat /\ Other(p) \in Peers /\ Other(p) # p
    BY PadsAssumption, TwoPeers DEF SyncInv
  <2>3. /\ pads' \in [Peers -> SUBSET Pads] /\ active' \in [Peers -> Pads] /\ next' \in [Peers -> Nat]
        /\ pads'[p] = pads[p] \cup {pad} /\ active'[p] \in pads'[p]
        /\ pads'[Other(p)] = pads[Other(p)] /\ active'[Other(p)] = active[Other(p)]
    BY <2>1, <2>2 DEF TypeOK
  <2> QED BY <2>1, <2>3, LocalEditInv
<1>3. ASSUME NEW pad \in Pads, select_pad(p, pad) PROVE SyncInv'
  <2>1. /\ TypeOK /\ active' \in [Peers -> Pads] /\ active'[p] = pad /\ pad \in pads[p]
        /\ \A q \in Peers : q # p => active'[q] = active[q]
        /\ UNCHANGED <<docs, pads, next, local, acked, hand, session, wire>>
    BY <1>3 DEF SyncInv, TypeOK, select_pad
  <2>2. TypeOK'
    BY <2>1 DEF TypeOK, session
  <2>3. \A q \in Peers : Underway(q)' = Underway(q)
    BY <2>1 DEF Underway, session
  <2>4. \A q \in Peers : Coalesced(q)' /\ Existing(q)'
    BY <2>1 DEF SyncInv, Coalesced, Existing, session
  <2>5. \A q \in Peers : Own(q)' /\ Taken(q)' /\ Carried(q)'
    BY <2>1, <2>3 DEF SyncInv, Own, Taken, Carried, AtLeast, Latest, session
  <2> QED BY <2>2, <2>4, <2>5 DEF SyncInv
<1>4. CASE request_stop(p) \/ Open(p) \/ Greet(p) \/ EndRun(p)
  BY <1>4, RunInv
<1>5. CASE Pop(p) \/ Transmit(p) \/ TransmitFails(p)
  BY <1>5, SenderInv
<1>6. CASE Receive(p)
  BY <1>6, ReceiveInv
<1>7. CASE \E frame \in hand[p] : QueueEdit(p, frame)
  BY <1>7, QueueInv
<1> QED BY <1>1, <1>2, <1>3, <1>4, <1>5, <1>6, <1>7 DEF User, Threads

\* A step that is none changes nothing.
LEMMA SessionStutter ==
    ASSUME SyncInv, UNCHANGED vars
    PROVE  SyncInv'
<1>1. TypeOK' /\ \A q \in Peers : Underway(q)' = Underway(q)
  BY DEF SyncInv, TypeOK, Underway, vars, workspace, session
<1>2. \A q \in Peers : Coalesced(q)' /\ Existing(q)'
  BY DEF SyncInv, Coalesced, Existing, vars, workspace, session
<1>3. \A q \in Peers : Own(q)' /\ Taken(q)' /\ Carried(q)'
  BY <1>1 DEF SyncInv, Own, Taken, Carried, AtLeast, Latest, vars, workspace, session
<1> QED BY <1>1, <1>2, <1>3 DEF SyncInv

\* Two fresh sessions satisfy it.
LEMMA SyncInit == Init => SyncInv
<1> SUFFICES ASSUME Init PROVE SyncInv
  OBVIOUS
<1>1. TypeOK
  <2>1. Blank \in Docs
    BY DEF Blank, Docs
  <2>2. << >> \in Seq(Edits \cup Acks) /\ << >> \in Seq(Edits \cup Acks \cup {Hello})
    OBVIOUS
  <2> QED BY PadsAssumption, <2>1, <2>2 DEF Init, TypeOK
<1>2. ASSUME NEW p \in Peers PROVE Underway(p) = {}
  <2>1. Range(<< >>) = {}
    BY DEF Range
  <2>2. Other(p) \in Peers
    BY TwoPeers
  <2> QED BY <2>1, <2>2 DEF Init, Underway
<1>3. ASSUME NEW p \in Peers PROVE Coalesced(p) /\ Existing(p) /\ Own(p) /\ Taken(p) /\ Carried(p)
  <2>1. Other(p) \in Peers /\ Other(p) # 0 /\ p # 0
    BY TwoPeers DEF Peers
  <2>2. \A n \in Pads : docs[p][n].revision = 0 /\ docs[p][n].writer = 0
    BY DEF Init, Blank
  <2>3. Coalesced(p) /\ Existing(p)
    BY <2>2 DEF Init, Coalesced, Existing
  <2> QED BY <1>2, <2>1, <2>2, <2>3 DEF Own, Taken, Carried
<1> QED BY <1>1, <1>3 DEF SyncInv

\* With nothing on its way, each side has the other's latest edits and the order decides.
LEMMA SyncConverges == SyncInv => Converged
<1> SUFFICES ASSUME SyncInv, \A p \in Peers : Drained(p) /\ run[p] = "connected" /\ ~stop[p]
             PROVE  docs[1] = docs[2] /\ pads[1] = pads[2]
  BY DEF Converged
<1>1. ASSUME NEW p \in Peers PROVE Underway(p) = {}
  <2>1. Range(<< >>) = {}
    BY DEF Range
  <2> QED BY <2>1 DEF Drained, Underway
<1>2. 1 \in Peers /\ 2 \in Peers /\ Other(1) = 2 /\ Other(2) = 1
  BY DEF Peers, Other
<1>3. docs \in [Peers -> [Pads -> Docs]] /\ pads \in [Peers -> SUBSET Pads]
  BY DEF SyncInv, TypeOK
<1>4. ASSUME NEW n \in Pads PROVE docs[1][n] = docs[2][n]
  <2> DEFINE d == docs[1][n]
             e == docs[2][n]
  <2>1. /\ d \in Docs /\ d.revision \in Nat /\ d.writer \in Nat
        /\ e \in Docs /\ e.revision \in Nat /\ e.writer \in Nat
    BY <1>2, <1>3, DocTypes
  <2>2. d.writer \in {0, 1, 2} /\ e.writer \in {0, 1, 2}
    BY <2>1 DEF Docs, Peers
  <2>3. /\ d.writer = 1 => AtLeast(e, d)
        /\ e.writer = 2 => AtLeast(d, e)
    BY <1>1, <1>2 DEF SyncInv, Carried
  <2>4. /\ d.writer = 2 => AtLeast(e, d)
        /\ e.writer = 1 => AtLeast(d, e)
    BY <1>2 DEF SyncInv, Taken
  <2>5. /\ d.revision = 0 <=> d.writer = 0
        /\ e.revision = 0 <=> e.writer = 0
    BY <1>2 DEF SyncInv, Existing
  <2> HIDE DEF d, e
  <2>6. AtLeast(e, d) /\ AtLeast(d, e)
    BY <2>1, <2>2, <2>3, <2>4, <2>5 DEF AtLeast
  <2>7. d.revision = e.revision /\ d.writer = e.writer
    BY <2>1, <2>6, Order
  <2>8. d = e
    BY <2>1, <2>7 DEF Docs
  <2> QED BY <2>8 DEF d, e
<1>5. docs[1] = docs[2]
  BY <1>2, <1>3, <1>4
<1>6. pads[1] = pads[2]
  <2>1. \A n \in Pads : n \in pads[1] <=> n \in pads[2]
    BY <1>2, <1>4 DEF SyncInv, Existing
  <2>2. pads[1] \subseteq Pads /\ pads[2] \subseteq Pads
    BY <1>2, <1>3
  <2> QED BY <2>1, <2>2
<1> QED BY <1>5, <1>6

\* Two sessions alone keep the invariant.
LEMMA SyncAlways == Spec => []SyncInv
<1>1. SyncInv /\ [Next]_vars => SyncInv'
  BY SessionStep, SessionStutter DEF Next
<1> QED BY SyncInit, <1>1, PTL DEF Spec

\* Whatever users and threads do, two running sessions with nothing on its way have the
\* same pads and texts: replaced, refused and overtaken frames cost no edit that wins.
THEOREM SessionsConverge == Spec => []Converged
BY SyncAlways, SyncConverges, PTL

-----------------------------------------------------------------------------
(* The editor.                                                             *)

\* What the interface thread does not see, or only as an announced edit or a stop.
LEMMA EditorQuiet ==
    ASSUME EditorInv, UNCHANGED <<editor, typed, ui>>, hand'[1] = hand[1], active'[1] = active[1],
           stop[1] => stop'[1], Announced => Announced',
           docs'[1][active[1]] = docs[1][active[1]] \/ Announced'
    PROVE  EditorInv'
BY DEF EditorInv

\* The other peer's steps change nothing of this side's but what is on the wire.
LEMMA OtherSide ==
    ASSUME SyncInv, User(2) \/ Threads(2)
    PROVE  docs'[1] = docs[1] /\ hand'[1] = hand[1] /\ active'[1] = active[1] /\ stop'[1] = stop[1]
<1>1. 1 \in Peers /\ 2 \in Peers /\ 1 # 2 /\ TypeOK /\ Coalesced(2) /\ Other(2) = 1
  BY DEF SyncInv, Peers, Other
<1>2. CASE User(2)
  <2>1. CASE update_active(2) \/ create_pad(2)
    BY <1>1, <2>1 DEF update_active, create_pad, LocalEdit, TypeOK, session
  <2>2. CASE request_stop(2) \/ \E pad \in Pads : select_pad(2, pad)
    BY <1>1, <2>2 DEF request_stop, select_pad, TypeOK, workspace, session
  <2> QED BY <1>2, <2>1, <2>2 DEF User
<1>3. CASE \E frame \in hand[2] : QueueEdit(2, frame)
  <2>1. PICK f \in hand[2] : QueueEdit(2, f)
    BY <1>3
  <2>2. f \in Edits \cup Acks /\ queue_frame(2, f)
    BY <1>1, <2>1 DEF TypeOK, QueueEdit
  <2>3. stop'[1] = stop[1]
    BY <1>1, <2>2, Queueing
  <2> QED BY <1>1, <2>1, <2>3 DEF QueueEdit, TypeOK, workspace
<1>4. CASE Receive(2)
  <2>1. UNCHANGED <<hand, active>> /\ \A pad \in Pads : docs'[1][pad] = docs[1][pad]
    BY <1>1, <1>4, ReceiveInv
  <2>2. docs' \in [Peers -> [Pads -> Docs]]
    BY <1>1, <1>4, ReceiveInv DEF SyncInv, TypeOK
  <2>3. docs'[1] = docs[1]
    BY <1>1, <2>1, <2>2 DEF TypeOK
  <2>4. stop'[1] = stop[1]
    <3>1. CASE UNCHANGED stop
      BY <3>1
    <3>2. CASE stop' = [stop EXCEPT ![2] = TRUE]
      BY <1>1, <3>2 DEF TypeOK
    <3> QED BY <1>4, <3>1, <3>2 DEF Receive, queue_frame
  <2> QED BY <2>1, <2>3, <2>4
<1>5. CASE Pop(2) \/ Transmit(2) \/ TransmitFails(2) \/ Open(2) \/ Greet(2) \/ EndRun(2)
  BY <1>1, <1>5 DEF Pop, Transmit, TransmitFails, Open, Greet, EndRun, TypeOK, workspace
<1> QED BY <1>2, <1>3, <1>4, <1>5 DEF Threads

\* The threads of this session beside the interface and its readers.
LEMMA OwnThreads ==
    ASSUME TypeOK, Session1
    PROVE  docs' = docs /\ hand' = hand /\ active' = active /\ (stop[1] => stop'[1])
BY DEF Session1, Pop, Transmit, TransmitFails, Open, Greet, EndRun, TypeOK, workspace, Peers

\* An edit of the interface: its frame alone is in hand, and it is the document.
LEMMA EditorEdits ==
    ASSUME TypeOK, NEW pad \in Pads, LocalEdit(1, pad), hand[1] = {}
    PROVE  \E f \in Edits : hand'[1] = {f} /\ docs'[1][pad] = Applied(f)
<1> DEFINE frame == [type |-> "edit", pad |-> pad, revision |-> docs[1][pad].revision + 1, writer |-> 1]
<1>1. 1 \in Peers /\ docs \in [Peers -> [Pads -> Docs]] /\ docs[1][pad].revision \in Nat
  BY DocTypes DEF TypeOK, Peers
<1>2. frame \in Edits
  BY <1>1 DEF Edits
<1>3. docs' = [docs EXCEPT ![1][pad] = Applied(frame)] /\ hand' = [hand EXCEPT ![1] = @ \cup {frame}]
  BY DEF LocalEdit
<1>4. hand'[1] = {frame} /\ docs'[1][pad] = Applied(frame)
  BY <1>1, <1>3 DEF TypeOK
<1> QED BY <1>2, <1>4

\* send_editor, with whatever comes next.
LEMMA SendEditorInv ==
    ASSUME SyncInv, EditorInv, Waits,
           NEW step \in [does : Sends, pad : Nat], send_editor(step)
    PROVE  SyncInv' /\ EditorInv'
<1>1. /\ TypeOK /\ 1 \in Peers /\ active[1] \in Pads /\ active[1] \in pads[1] /\ hand[1] = {}
      /\ pads[1] \cup {active[1]} = pads[1]
  <2>1. TypeOK /\ 1 \in Peers /\ active[1] \in Pads /\ active[1] \in pads[1]
    BY DEF SyncInv, TypeOK, Existing, Peers
  <2>2. hand[1] = {}
    BY DEF EditorInv, Waits, Idle
  <2> QED BY <2>1, <2>2
<1>2. /\ LocalEdit(1, active[1]) /\ ui' = step
      /\ UNCHANGED <<pads, active, next, acked, session, wire, editor, typed, pending, telling>>
  BY DEF send_editor
<1>3. SyncInv'
  BY <1>1, <1>2, LocalEditInv DEF TypeOK
<1>4. PICK f \in Edits : hand'[1] = {f} /\ docs'[1][active[1]] = Applied(f)
  BY <1>1, <1>2, EditorEdits
<1>5. EditorInv'
  BY <1>2, <1>4 DEF EditorInv, Sends, Steps
<1> QED BY <1>3, <1>5

\* The steps of the interface thread.
LEMMA InterfaceInv ==
    ASSUME SyncInv, EditorInv, Interface
    PROVE  SyncInv' /\ EditorInv'
<1>1. /\ TypeOK /\ 1 \in Peers /\ active[1] \in Pads /\ active[1] \in pads[1] /\ active[1] \in Nat
      /\ pads[1] \cup {active[1]} = pads[1] /\ pads[1] \subseteq Pads /\ Pads \subseteq Nat
  BY PadsAssumption DEF SyncInv, TypeOK, Existing, Peers
<1>2. CASE Type
  BY <1>2, SessionStutter DEF Type, Waits, Idle, EditorInv, Announced, Sends, vars, workspace, session
<1>3. CASE Send
  BY <1>1, <1>3, SendEditorInv DEF Send, Sends
<1>4. ASSUME NEW step \in [does : {"select", "create"}, pad : Nat], Leave(step)
      PROVE  SyncInv' /\ EditorInv'
  <2>1. CASE send_editor([step EXCEPT !.does = IF @ = "select" THEN "send, select" ELSE "send, create"])
    <3>1. [step EXCEPT !.does = IF @ = "select" THEN "send, select" ELSE "send, create"]
             \in [does : Sends, pad : Nat]
      BY <1>4 DEF Sends
    <3> QED BY <1>4, <2>1, <3>1, SendEditorInv DEF Leave
  <2>2. CASE ui' = step /\ UNCHANGED <<vars, editor, typed, pending, telling>>
    BY <1>4, <2>2, SessionStutter
       DEF Leave, Waits, Idle, EditorInv, Announced, Sends, Steps, vars, workspace, session
  <2> QED BY <1>4, <2>1, <2>2 DEF Leave
<1>5. CASE Switch
  <2>1. PICK pad \in pads[1] \ {active[1]} : Leave([does |-> "select", pad |-> pad])
    BY <1>5 DEF Switch
  <2> QED BY <1>1, <1>4, <2>1
<1>6. CASE New
  BY <1>4, <1>6 DEF New
<1>7. CASE Select
  <2>1. select_pad(1, ui.pad) /\ ui.pad \in Pads
    BY <1>1, <1>7 DEF Select, select_pad
  <2>2. SyncInv'
    BY <1>1, <2>1, SessionStep DEF User
  <2>3. hand'[1] = {} /\ stop' = stop /\ ui' = Idle /\ editor' = docs'[1][active'[1]]
    BY <1>7, <2>1 DEF Select, load_active_document, EditorInv, select_pad, session
  <2>4. EditorInv'
    BY <2>3 DEF EditorInv, Idle, Sends, Steps
  <2> QED BY <2>2, <2>4
<1>8. CASE Create
  <2>1. CASE create_pad(1) /\ ui' = [ui EXCEPT !.does = "created"]
    <3>1. SyncInv'
      BY <1>1, <2>1, SessionStep DEF User
    <3>2. PICK pad \in Pads : LocalEdit(1, pad) /\ active'[1] = pad
      BY <1>1, <2>1 DEF create_pad, TypeOK
    <3>3. hand[1] = {}
      BY <1>8 DEF Create, EditorInv
    <3>4. PICK f \in Edits : hand'[1] = {f}
      BY <1>1, <3>2, <3>3, EditorEdits
    <3>5. ui' \in [does : Steps, pad : Nat] /\ ui'.does = "created"
      BY <2>1 DEF EditorInv, Steps
    <3> QED BY <3>1, <3>4, <3>5 DEF EditorInv, Sends
  <2>2. CASE ui' = Idle /\ UNCHANGED vars
    BY <1>8, <2>2, SessionStutter
       DEF Create, Idle, EditorInv, Announced, Sends, Steps, vars, workspace, session
  <2> QED BY <1>8, <2>1, <2>2 DEF Create
<1>9. CASE Clear
  <2>1. /\ LocalEdit(1, active[1]) /\ hand[1] = {} /\ editor' = docs'[1][active[1]]
        /\ ui' = [does |-> "clear", pad |-> active[1]]
        /\ UNCHANGED <<pads, active, next, acked, session, wire>>
    BY <1>9 DEF Clear, Waits, Idle, EditorInv
  <2>2. SyncInv'
    BY <1>1, <2>1, LocalEditInv DEF TypeOK
  <2>3. PICK f \in Edits : hand'[1] = {f}
    BY <1>1, <2>1, EditorEdits
  <2> QED BY <1>1, <2>1, <2>2, <2>3 DEF EditorInv, Sends, Steps
<1>10. CASE Queued
  <2>1. PICK f \in hand[1] :
            /\ QueueEdit(1, f)
            /\ \/ /\ ui.does \in Sends
                  /\ ~stop'[1] => editor' = Applied(f)
               \/ /\ ui.does = "created"
                  /\ ~stop'[1] => load_active_document
               \/ ui.does = "clear" /\ UNCHANGED editor
            /\ ui' = CASE ui.does = "send, select" -> [ui EXCEPT !.does = "select"]
                       [] ui.does = "send, create" -> [ui EXCEPT !.does = "create"]
                       [] OTHER -> Idle
            /\ UNCHANGED <<pending, telling>>
    BY <1>10 DEF Queued, Sends
  <2>2. SyncInv'
    BY <1>1, <2>1, QueueInv
  <2>3. hand'[1] = {} /\ docs' = docs /\ active' = active /\ (stop[1] => stop'[1])
    <3>1. hand[1] = {f} /\ hand'[1] = hand[1] \ {f} /\ docs' = docs /\ active' = active
      BY <1>1, <2>1 DEF EditorInv, QueueEdit, TypeOK, workspace
    <3>2. f \in Edits \cup Acks /\ queue_frame(1, f) /\ Coalesced(1)
      BY <1>1, <2>1 DEF TypeOK, QueueEdit, SyncInv
    <3>3. stop[1] => stop'[1]
      BY <1>1, <3>2, Queueing
    <3> QED BY <3>1, <3>3
  <2>4. ui' \in [does : Steps, pad : Nat] /\ ui'.does \in {"idle", "select", "create"}
    <3>1. ui \in [does : Steps, pad : Nat]
      BY DEF EditorInv
    <3>2. CASE ui.does = "send, select"
      BY <2>1, <3>1, <3>2 DEF Steps
    <3>3. CASE ui.does = "send, create"
      BY <2>1, <3>1, <3>3 DEF Steps
    <3>4. CASE ui.does \notin {"send, select", "send, create"}
      BY <2>1, <3>4 DEF Idle, Steps
    <3> QED BY <3>2, <3>3, <3>4
  <2>5. ~stop'[1] /\ ~Announced' => editor' = docs[1][active[1]]
    BY <2>1, <2>3 DEF EditorInv, Announced, load_active_document
  <2> QED BY <2>2, <2>3, <2>4, <2>5 DEF EditorInv, Sends
<1>11. CASE apply_remote_updates
  <2>1. SyncInv'
    BY <1>11, SessionStutter DEF apply_remote_updates
  <2>2. /\ ui = Idle /\ ui' = ui /\ typed = "none" /\ pending' = {}
        /\ UNCHANGED <<docs, active, hand, stop, telling>>
        /\ IF active[1] \in pending THEN editor' = docs[1][active[1]] ELSE editor' = editor
    BY <1>11 DEF apply_remote_updates, Waits, vars, workspace, session
  <2> QED BY <2>1, <2>2 DEF EditorInv, Announced, Idle, Sends, Steps
<1>12. CASE Quit
  <2>1. SyncInv'
    BY <1>1, <1>12, SessionStep DEF Quit, User
  <2>2. hand'[1] = {} /\ ui' = [does |-> "gone", pad |-> 1] /\ stop'[1]
    BY <1>1, <1>12 DEF Quit, Waits, Idle, EditorInv, request_stop, TypeOK
  <2> QED BY <2>1, <2>2 DEF EditorInv, Sends, Steps
<1> QED BY <1>2, <1>3, <1>5, <1>6, <1>7, <1>8, <1>9, <1>10, <1>11, <1>12 DEF Interface

\* Every step of the terminal, of this session and of the other one.
LEMMA NoteStep ==
    ASSUME NoteInv, [NoteNext]_note_vars
    PROVE  NoteInv'
<1>1. SyncInv /\ EditorInv /\ TypeOK /\ 1 \in Peers /\ 2 \in Peers /\ active[1] \in Pads
  BY DEF NoteInv, SyncInv, TypeOK, Peers
<1>2. CASE Interface
  BY <1>1, <1>2, InterfaceInv DEF NoteInv
<1>3. CASE ReceiveEdit
  <2>1. Receive(1) /\ telling = {} /\ telling' = {pad \in Pads : docs'[1][pad] # docs[1][pad]}
        /\ UNCHANGED <<editor, typed, pending, ui>>
    BY <1>3 DEF ReceiveEdit
  <2>2. SyncInv' /\ UNCHANGED <<hand, active>>
    BY <1>1, <2>1, ReceiveInv
  <2>3. stop[1] => stop'[1]
    BY <2>1 DEF Receive
  <2>4. docs'[1][active[1]] = docs[1][active[1]] \/ Announced'
    BY <1>1, <2>1, <2>2 DEF Announced
  <2>5. Announced => Announced'
    BY <2>1, <2>2 DEF Announced
  <2> QED BY <1>1, <2>1, <2>2, <2>3, <2>4, <2>5, EditorQuiet DEF NoteInv
<1>4. CASE workspace_changed
  <2>1. UNCHANGED <<vars, editor, typed, ui>> /\ (Announced => Announced')
    BY <1>4 DEF workspace_changed, Announced, vars, workspace
  <2> QED BY <1>1, <2>1, SessionStutter, EditorQuiet DEF NoteInv, vars, workspace, session
<1>5. CASE Session1 /\ UNCHANGED terminal
  <2>1. SyncInv'
    BY <1>1, <1>5, SenderInv, RunInv DEF Session1
  <2>2. Announced => Announced'
    BY <1>1, <1>5, OwnThreads DEF Announced, terminal
  <2> QED BY <1>1, <1>5, <2>1, <2>2, OwnThreads, EditorQuiet DEF NoteInv, terminal
<1>6. CASE (User(2) \/ Threads(2)) /\ UNCHANGED terminal
  <2>1. SyncInv'
    BY <1>1, <1>6, SessionStep
  <2>2. Announced => Announced'
    BY <1>1, <1>6, OtherSide DEF Announced, terminal
  <2> QED BY <1>1, <1>6, <2>1, <2>2, OtherSide, EditorQuiet DEF NoteInv, terminal
<1>7. CASE UNCHANGED note_vars
  <2>1. UNCHANGED vars /\ UNCHANGED terminal
    BY <1>7 DEF note_vars
  <2>2. Announced => Announced'
    BY <2>1 DEF Announced, terminal, vars, workspace
  <2> QED BY <1>1, <2>1, <2>2, SessionStutter, EditorQuiet DEF NoteInv, terminal, vars, workspace, session
<1> QED BY <1>2, <1>3, <1>4, <1>5, <1>6, <1>7 DEF NoteNext

\* A terminal that has just opened the notepad satisfies it.
LEMMA NoteInitInv == NoteInit => NoteInv
<1>1. 1 \in Peers /\ 1 \in Pads
  BY PadsAssumption DEF Peers
<1> QED BY <1>1, SyncInit DEF NoteInit, NoteInv, EditorInv, Init, Idle, Sends, Steps

\* The terminal's peer keeps the invariant.
LEMMA NoteAlways == NoteSpec => []NoteInv
BY NoteInitInv, NoteStep, PTL DEF NoteSpec

\* Every variable of both sessions has its type, the outbox holding edits and
\* acknowledgements only.
THEOREM TypeCorrect == NoteSpec => []TypeOK
<1>1. NoteInv => TypeOK
  BY DEF NoteInv, SyncInv
<1> QED BY NoteAlways, <1>1, PTL

\* The two sides converge with the terminal on one of them as well.
THEOREM TerminalConverges == NoteSpec => []Converged
<1>1. NoteInv => Converged
  BY SyncConverges DEF NoteInv
<1> QED BY NoteAlways, <1>1, PTL

\* The editor never shows an old text or another pad's, whatever the run thread, the
\* sender and the user do while a frame of the interface waits for the outbox.
THEOREM EditorTrue == NoteSpec => []EditorShowsDocument
<1>1. NoteInv => EditorShowsDocument
  BY DEF NoteInv, EditorInv, EditorShowsDocument, Announced, Waits, Idle
<1> QED BY NoteAlways, <1>1, PTL
=============================================================================
