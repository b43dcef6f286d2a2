------------------------------ MODULE NoteSync ------------------------------
(***************************************************************************)
(* The shared notepad: two NoteSessions, each with its workspace of pads,  *)
(* the threads that edit, the outbox with its coalescing and its limit,    *)
(* the sender thread, the run thread that applies remote edits and sends   *)
(* acknowledgements, and the ordered encrypted stream between them.        *)
(*                                                                         *)
(* An edit is known by its pad, revision and writer; its text and time     *)
(* stamp follow from them.  Peers are numbered in the order of their       *)
(* writer_id, pads by their number: pad 1 is "main".                       *)
(***************************************************************************)
EXTENDS Naturals, Sequences, FiniteSetsExt

CONSTANTS
    Pads,        \* pad numbers, 1 for "main"
    MaxFrames,   \* kNoteOutboxMaxFrames
    MaxRevision, \* bound: the revisions of all pads together up to which each user goes on editing
    MaxThreads,  \* bound: edits made but not yet queued, one per calling thread
    Leavers      \* the peers whose user may leave the session, or whose opening may fail

ASSUME PadsAssumption   == Pads \subseteq Nat \ {0} /\ 1 \in Pads
ASSUME FramesAssumption == MaxFrames \in Nat \ {0}
ASSUME BoundsAssumption ==
    MaxRevision \in [{1, 2} -> Nat] /\ MaxThreads \in Nat /\ Leavers \subseteq {1, 2}

Peers    == {1, 2}
Other(p) == 3 - p

VARIABLES
    docs,     \* docs[p][pad]: revision and writer of the document; revision 0 is a blank one
    pads,     \* pads[p]: the pads peer p has
    active,   \* active[p]: active_pad_
    next,     \* next[p]: next_pad_number_
    local,    \* local[p][pad]: local_revisions_, 0 for none
    acked,    \* acked[p][pad]: acked_revisions_
    hand,     \* hand[p]: edits applied locally whose thread has yet to queue them
    outgoing, \* outgoing[p]: the outbox
    sending,  \* sending[p]: the frame the sender thread has popped, at most one
    wire,     \* wire[p]: frames on their way to peer p
    run,      \* run[p]: where the run thread of peer p is
    stop      \* stop[p]: stop_

workspace == <<docs, pads, active, next, local, acked>>
session   == <<outgoing, sending, run, stop>>
vars      == <<workspace, hand, session, wire>>

Edits == [type : {"edit"}, pad : Pads, revision : Nat, writer : Peers]
Acks  == [type : {"ack"}, pad : Pads, revision : Nat]
Hello == [type |-> "hello"]
Blank == [revision |-> 0, writer |-> 0]

Init ==
    /\ docs = [p \in Peers |-> [pad \in Pads |-> Blank]]
    /\ pads = [p \in Peers |-> {1}]
    /\ active = [p \in Peers |-> 1]
    /\ next = [p \in Peers |-> 2]
    /\ local = [p \in Peers |-> [pad \in Pads |-> 0]]
    /\ acked = [p \in Peers |-> [pad \in Pads |-> 0]]
    /\ hand = [p \in Peers |-> {}]
    /\ outgoing = [p \in Peers |-> << >>]
    /\ sending = [p \in Peers |-> << >>]
    /\ wire = [p \in Peers |-> << >>]
    /\ run = [p \in Peers |-> "opening"]
    /\ stop = [p \in Peers |-> FALSE]

-----------------------------------------------------------------------------
(* NoteWorkspace, under its own mutex.                                     *)

\* apply_note_update accepts an edit: a higher revision, or the same one and a
\* higher writer.
Newer(frame, doc) ==
    \/ frame.revision > doc.revision
    \/ frame.revision = doc.revision /\ frame.writer > doc.writer

\* What the document keeps of an edit.
Applied(frame) == [revision |-> frame.revision, writer |-> frame.writer]

\* apply_local_locked on a pad that exists now; the frame goes to queue_frame later.
LocalEdit(p, pad) ==
    LET frame == [type |-> "edit", pad |-> pad, revision |-> docs[p][pad].revision + 1, writer |-> p]
    IN  /\ docs' = [docs EXCEPT ![p][pad] = Applied(frame)]
        /\ local' = [local EXCEPT ![p][pad] = frame.revision]
        /\ hand' = [hand EXCEPT ![p] = @ \cup {frame}]

\* A user may edit while the session object lives.
MayEdit(p) ==
    /\ Cardinality(hand[p]) < MaxThreads
    /\ MapThenSumSet(LAMBDA n : docs[p][n].revision, Pads) < MaxRevision[p]

\* update_active and clear_active.
update_active(p) ==
    /\ MayEdit(p)
    /\ LocalEdit(p, active[p])
    /\ UNCHANGED <<pads, active, next, acked, session, wire>>

\* The first number from next_pad_number_ on that is not taken.
create_pad(p) ==
    \E pad \in Pads \ pads[p] :
        /\ pad >= next[p] /\ \A n \in next[p]..(pad - 1) : n \in pads[p]
        /\ MayEdit(p)
        /\ next' = [next EXCEPT ![p] = pad + 1]
        /\ pads' = [pads EXCEPT ![p] = @ \cup {pad}]
        /\ active' = [active EXCEPT ![p] = pad]
        /\ LocalEdit(p, pad)
        /\ UNCHANGED <<acked, session, wire>>

select_pad(p, pad) ==
    /\ pad \in pads[p] \ {active[p]}
    /\ active' = [active EXCEPT ![p] = pad]
    /\ UNCHANGED <<docs, pads, next, local, acked, hand, session, wire>>

\* Mutant: a pad this side does not have is not created.
apply_remote_NoPad(p, frame) ==
    /\ \/ /\ Newer(frame, docs[p][frame.pad])
          /\ docs' = [docs EXCEPT ![p][frame.pad] = Applied(frame)]
       \/ /\ ~Newer(frame, docs[p][frame.pad])
          /\ UNCHANGED docs
    /\ UNCHANGED <<pads, active, next, local, acked>>
\* ensure_pad_locked creates the pad even if the edit is then refused.
apply_remote(p, frame) ==
    /\ pads' = [pads EXCEPT ![p] = @ \cup {frame.pad}]
    /\ \/ /\ Newer(frame, docs[p][frame.pad])
          /\ docs' = [docs EXCEPT ![p][frame.pad] = Applied(frame)]
       \/ /\ ~Newer(frame, docs[p][frame.pad])
          /\ UNCHANGED docs
    /\ UNCHANGED <<active, next, local, acked>>

acknowledge(p, frame) ==
    /\ acked' = [acked EXCEPT ![p][frame.pad] = IF frame.revision > @ THEN frame.revision ELSE @]
    /\ UNCHANGED <<docs, pads, active, next, local>>

\* NoteWorkspaceSnapshot::synced.
synced(p) ==
    /\ \E pad \in Pads : local[p][pad] > 0
    /\ \A pad \in Pads : acked[p][pad] >= local[p][pad]

-----------------------------------------------------------------------------
(* The outbox.                                                             *)

frames_coalesce(queued, incoming) == queued.pad = incoming.pad /\ queued.type = incoming.type

\* The position of the queued frame that an incoming one replaces, or 0.
QueuedAt(p, frame) ==
    LET at == {i \in DOMAIN outgoing[p] : frames_coalesce(outgoing[p][i], frame)}
    IN  IF at = {} THEN 0 ELSE CHOOSE i \in at : \A j \in at : i <= j

\* Mutant: the frame that came last replaces the queued one, however old.
queue_frame_Replaces(p, frame) ==
    LET i == QueuedAt(p, frame)
    IN  \/ stop[p] /\ UNCHANGED <<outgoing, stop>>
        \/ /\ ~stop[p] /\ i > 0
           /\ outgoing' = [outgoing EXCEPT ![p][i] = frame]
           /\ UNCHANGED stop
        \/ /\ ~stop[p] /\ i = 0 /\ Len(outgoing[p]) < MaxFrames
           /\ outgoing' = [outgoing EXCEPT ![p] = Append(@, frame)]
           /\ UNCHANGED stop
        \/ /\ ~stop[p] /\ i = 0 /\ Len(outgoing[p]) >= MaxFrames
           /\ stop' = [stop EXCEPT ![p] = TRUE]
           /\ UNCHANGED outgoing
\* An older revision than the queued one is dropped, a newer one takes its
\* place in the queue, and a full outbox stops the session.
queue_frame(p, frame) ==
    LET i == QueuedAt(p, frame)
    IN  \/ /\ stop[p] \/ (i > 0 /\ frame.revision < outgoing[p][i].revision)
           /\ UNCHANGED <<outgoing, stop>>
        \/ /\ ~stop[p] /\ i > 0 /\ frame.revision >= outgoing[p][i].revision
           /\ outgoing' = [outgoing EXCEPT ![p][i] = frame]
           /\ UNCHANGED stop
        \/ /\ ~stop[p] /\ i = 0 /\ Len(outgoing[p]) < MaxFrames
           /\ outgoing' = [outgoing EXCEPT ![p] = Append(@, frame)]
           /\ UNCHANGED stop
        \/ /\ ~stop[p] /\ i = 0 /\ Len(outgoing[p]) >= MaxFrames
           /\ stop' = [stop EXCEPT ![p] = TRUE]
           /\ UNCHANGED outgoing

\* The editing thread comes back from the workspace and queues its frame.
QueueEdit(p, frame) ==
    /\ frame \in hand[p]
    /\ hand' = [hand EXCEPT ![p] = @ \ {frame}]
    /\ queue_frame(p, frame)
    /\ UNCHANGED <<workspace, sending, wire, run>>

-----------------------------------------------------------------------------
(* The sender thread.                                                      *)

Pop(p) ==
    /\ ~stop[p] /\ run[p] = "connected" /\ sending[p] = << >> /\ outgoing[p] # << >>
    /\ sending' = [sending EXCEPT ![p] = <<Head(outgoing[p])>>]
    /\ outgoing' = [outgoing EXCEPT ![p] = Tail(@)]
    /\ UNCHANGED <<workspace, hand, wire, run, stop>>

Transmit(p) ==
    /\ sending[p] # << >>
    /\ wire' = [wire EXCEPT ![Other(p)] = @ \o sending[p]]
    /\ sending' = [sending EXCEPT ![p] = << >>]
    /\ UNCHANGED <<workspace, hand, outgoing, run, stop>>

\* The channel was interrupted or the other side is gone: the send throws.
TransmitFails(p) ==
    /\ sending[p] # << >> /\ (stop[p] \/ run[Other(p)] = "ended")
    /\ sending' = [sending EXCEPT ![p] = << >>]
    /\ stop' = [stop EXCEPT ![p] = TRUE]
    /\ UNCHANGED <<workspace, hand, outgoing, wire, run>>

-----------------------------------------------------------------------------
(* The run thread.                                                         *)

Open(p) ==
    /\ run[p] = "opening" /\ ~stop[p]
    /\ run' = [run EXCEPT ![p] = "greeting"]
    /\ wire' = [wire EXCEPT ![Other(p)] = Append(@, Hello)]
    /\ UNCHANGED <<workspace, hand, outgoing, sending, stop>>

Greet(p) ==
    /\ run[p] = "greeting" /\ ~stop[p] /\ wire[p] # << >>
    /\ Head(wire[p]) = Hello
    /\ wire' = [wire EXCEPT ![p] = Tail(@)]
    /\ run' = [run EXCEPT ![p] = "connected"]
    /\ UNCHANGED <<workspace, hand, outgoing, sending, stop>>

\* Mutant: only an edit that was applied is acknowledged.
Receive_AckApplied(p) ==
    /\ run[p] = "connected" /\ ~stop[p] /\ wire[p] # << >>
    /\ wire' = [wire EXCEPT ![p] = Tail(@)]
    /\ LET frame == Head(wire[p])
       IN  \/ /\ frame.type = "ack" /\ acknowledge(p, frame)
              /\ UNCHANGED <<outgoing, stop>>
           \/ /\ frame.type = "edit" /\ apply_remote(p, frame)
              /\ IF Newer(frame, docs[p][frame.pad])
                   THEN queue_frame(p, [type |-> "ack", pad |-> frame.pad, revision |-> frame.revision])
                   ELSE UNCHANGED <<outgoing, stop>>
    /\ UNCHANGED <<hand, sending, run>>
\* One frame: an acknowledgement is noted; an edit is applied or refused and
\* acknowledged in either case.
Receive(p) ==
    /\ run[p] = "connected" /\ ~stop[p] /\ wire[p] # << >>
    /\ wire' = [wire EXCEPT ![p] = Tail(@)]
    /\ LET frame == Head(wire[p])
       IN  \/ /\ frame.type = "ack" /\ acknowledge(p, frame)
              /\ UNCHANGED <<outgoing, stop>>
           \/ /\ frame.type = "edit" /\ apply_remote(p, frame)
              /\ queue_frame(p, [type |-> "ack", pad |-> frame.pad, revision |-> frame.revision])
    /\ UNCHANGED <<hand, sending, run>>

\* finish_run: the run thread saw the stop flag or the end of the stream, or got no
\* peer or no hello in time; it stops the sender, joins it and closes the channel.
\* Mutant: the end of the stream is not noticed.
EndRun_OnlyStopped(p) ==
    /\ run[p] # "ended" /\ sending[p] = << >>
    /\ stop[p] \/ (p \in Leavers /\ run[p] \in {"opening", "greeting"})
    /\ run' = [run EXCEPT ![p] = "ended"]
    /\ stop' = [stop EXCEPT ![p] = TRUE]
    /\ UNCHANGED <<workspace, hand, outgoing, sending, wire>>
EndRun(p) ==
    /\ run[p] # "ended" /\ sending[p] = << >>
    /\ \/ stop[p]
       \/ run[Other(p)] = "ended" /\ wire[p] = << >>
       \/ p \in Leavers /\ run[p] \in {"opening", "greeting"}
    /\ run' = [run EXCEPT ![p] = "ended"]
    /\ stop' = [stop EXCEPT ![p] = TRUE]
    /\ UNCHANGED <<workspace, hand, outgoing, sending, wire>>

request_stop(p) ==
    /\ p \in Leavers /\ ~stop[p]
    /\ stop' = [stop EXCEPT ![p] = TRUE]
    /\ UNCHANGED <<workspace, hand, outgoing, sending, wire, run>>

-----------------------------------------------------------------------------
User(p) ==
    \/ update_active(p) \/ create_pad(p) \/ request_stop(p)
    \/ \E pad \in Pads : select_pad(p, pad)

Threads(p) ==
    \/ \E frame \in hand[p] : QueueEdit(p, frame)
    \/ Pop(p) \/ Transmit(p) \/ TransmitFails(p)
    \/ Open(p) \/ Greet(p) \/ Receive(p) \/ EndRun(p)

Next == \E p \in Peers : User(p) \/ Threads(p)

Spec == Init /\ [][Next]_vars

\* The three threads of each session run on; users need not do anything.
Fairness ==
    \A p \in Peers :
        /\ WF_vars(\E frame \in hand[p] : QueueEdit(p, frame))
        /\ WF_vars(Pop(p)) /\ WF_vars(Transmit(p) \/ TransmitFails(p))
        /\ WF_vars(Open(p)) /\ WF_vars(Greet(p)) /\ WF_vars(Receive(p)) /\ WF_vars(EndRun(p))

FairSpec == Spec /\ Fairness

-----------------------------------------------------------------------------
Docs == [revision : Nat, writer : Peers \cup {0}]

\* Every variable has its type: a document keeps revision and writer only, and
\* the outbox holds edits and acknowledgements, never a hello.
TypeOK ==
    /\ docs \in [Peers -> [Pads -> Docs]]
    /\ pads \in [Peers -> SUBSET Pads]
    /\ active \in [Peers -> Pads]
    /\ next \in [Peers -> Nat]
    /\ local \in [Peers -> [Pads -> Nat]]
    /\ acked \in [Peers -> [Pads -> Nat]]
    /\ hand \in [Peers -> SUBSET Edits]
    /\ outgoing \in [Peers -> Seq(Edits \cup Acks)]
    /\ sending \in [Peers -> Seq(Edits \cup Acks)]
    /\ wire \in [Peers -> Seq(Edits \cup Acks \cup {Hello})]
    /\ run \in [Peers -> {"opening", "greeting", "connected", "ended"}]
    /\ stop \in [Peers -> BOOLEAN]

\* Nothing of p's edits is on its way any more.
Drained(p) == hand[p] = {} /\ outgoing[p] = << >> /\ sending[p] = << >> /\ wire[Other(p)] = << >>

\* Once nothing is on its way between two running sessions, both have the same
\* pads and the same text in each, although queued edits were replaced, refused
\* or overtaken.
Converged ==
    (\A p \in Peers : Drained(p) /\ run[p] = "connected" /\ ~stop[p])
        => docs[1] = docs[2] /\ pads[1] = pads[2]

\* Every edit is settled: the status becomes synced, or the session has ended.
EditsSettle == \A p \in Peers : (\E pad \in Pads : local[p][pad] > 0) ~> (synced(p) \/ stop[p])

\* When one side stops, both run threads end.
StopReachesBoth == \A p \in Peers : stop[p] ~> (\A q \in Peers : run[q] = "ended")
=============================================================================
