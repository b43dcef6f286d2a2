---------------------------- MODULE MuxTransfer ----------------------------
(***************************************************************************)
(* One file sent over several channels: the resume negotiation, the        *)
(* sender's MuxSendScheduler with a worker per channel, the receiver's     *)
(* MuxReceiveSession with a reader per channel that writes at the offset   *)
(* each frame names, the .kikopart file, the final digest, and the attempt *)
(* after a failure, which resumes from what the part file holds.           *)
(*                                                                         *)
(* Sizes and offsets are counted in chunks (kMuxChunk), numbered from 1.   *)
(* The content of a chunk is the version of the source it was read from,   *)
(* so a digest is the sequence of the contents it covers; Hole is what a   *)
(* file holds where nothing was written.  An attempt begins when both      *)
(* sides are connected again, by auto_reconnect or by the user's rerun.    *)
(***************************************************************************)
EXTENDS Naturals, Sequences, FiniteSetsExt

CONSTANTS
    Channels,     \* the indexes of the channels, 0 for the control channel
    Lengths,      \* lengths the source may have
    PendingLimit, \* kMaxPendingPerChannel
    Window,       \* frames a connection holds between the two sockets
    MaxEdits,     \* bound: times the source is rewritten
    MaxAttempts,  \* bound: attempts
    Faults        \* may connections break, the disk fail, the receiver crash?

ASSUME ChannelsAssumption == Channels \subseteq Nat /\ 0 \in Channels /\ IsFiniteSet(Channels)
ASSUME LengthsAssumption  == Lengths \subseteq Nat /\ Lengths # {} /\ IsFiniteSet(Lengths)
ASSUME LimitsAssumption   == PendingLimit \in Nat \ {0} /\ Window \in Nat \ {0}
ASSUME BoundsAssumption   == MaxEdits \in Nat /\ MaxAttempts \in Nat \ {0} /\ Faults \in BOOLEAN

VARIABLES
    source,    \* the file on the sender's disk: its version and its length
    entry,     \* the same when collect_files saw it: the manifest and the header say so
    snd,       \* where the sending thread is
    accepted,  \* the offset of the ResumeAck
    digest,    \* what the sender's hasher_ has been given
    hand,      \* the chunk the sending thread is about to enqueue
    queue,     \* queue[c]: queues_
    pending,   \* pending[c]: pending_bytes
    worker,    \* worker[c]: where the worker of channel c is
    item,      \* item[c]: the chunk that worker popped
    error,     \* error_: a worker failed
    finishing, \* finishing_
    wire,      \* wire[c]: frames sent and not yet read
    cut,       \* cut[c]: the connection was broken, interrupted or closed
    rcv,       \* where the receiving thread is
    have,      \* the offset the receiver asked to resume from, later resume_offset_
    reader,    \* reader[c]: is the reader of channel c still reading?
    failed,    \* failed_
    prefix,    \* contiguous_prefix_, which is also the progress reported
    early,     \* pending_ranges_: chunks written beyond the prefix
    part,      \* the .kikopart file
    target,    \* the finished file
    attempt    \* attempts so far

sending   == <<snd, digest, hand, finishing>>
schedule  == <<queue, pending, worker, item, error>>
network   == <<wire, cut>>
receiving == <<rcv, have, reader, failed, prefix, early, part, target>>
files     == <<source, entry>>
history   == <<attempt>>
vars      == <<files, accepted, sending, schedule, network, receiving, history>>

Hole      == 0
Chunk     == [at : Nat, content : Nat]
NoChunk   == [at |-> 0, content |-> Hole]
Data(k)   == [tag |-> "data", chunk |-> k]
ChunkEnd  == [tag |-> "chunk_end", chunk |-> NoChunk]
FileEnd   == [tag |-> "file_end", chunk |-> NoChunk]

SourcePrefix(n) == [i \in 1..n |-> source.version]
On(v)           == [c \in Channels |-> v]
AllCut          == On(TRUE)

Init ==
    /\ source \in [version : {1}, length : Lengths]
    /\ entry = source
    /\ snd = "resume" /\ accepted = 0 /\ digest = << >> /\ hand = NoChunk /\ finishing = FALSE
    /\ queue = On(<< >>) /\ pending = On(0) /\ worker = On("none") /\ item = On(NoChunk) /\ error = FALSE
    /\ wire = On(<< >>) /\ cut = On(FALSE)
    /\ rcv = "header" /\ have = 0 /\ reader = On(FALSE) /\ failed = FALSE /\ prefix = 0 /\ early = {}
    /\ part = << >> /\ target = << >>
    /\ attempt = 1

-----------------------------------------------------------------------------
(* The resume negotiation *)

\* What the receiver asks for: all of a part file no longer than the file.
ResumablePart == IF Len(part) > entry.length THEN 0 ELSE Len(part)

\* ReceiveFileSession: the size of the part file and the digest of its bytes.
Offer ==
    /\ rcv = "header" /\ ~cut[0]
    /\ rcv' = "resume_ack"
    /\ have' = ResumablePart
    /\ UNCHANGED <<files, accepted, sending, schedule, network, reader, failed, prefix, early, part,
                   target, history>>

PrefixMatches_Trusted == TRUE

\* SendFileSession: the offset is accepted when the source has the same prefix.
PrefixMatches == SubSeq(part, 1, have) = SourcePrefix(have)

Accept ==
    /\ snd = "resume" /\ rcv = "resume_ack" /\ ~cut[0]
    /\ source.length >= have
    /\ accepted' = IF PrefixMatches THEN have ELSE 0
    /\ digest' = SourcePrefix(accepted')
    /\ snd' = "read"
    /\ worker' = On("wait")
    /\ UNCHANGED <<files, hand, finishing, queue, pending, item, error, network, receiving, history>>

\* "source shorter than resume offset".
AcceptThrows ==
    /\ snd = "resume" /\ rcv = "resume_ack" /\ ~cut[0]
    /\ source.length < have
    /\ snd' = "failed" /\ cut' = AllCut
    /\ UNCHANGED <<files, accepted, digest, hand, finishing, schedule, wire, receiving, history>>

\* The receiver's answer to the ResumeAck, and the start of its readers.
StartReceive ==
    /\ rcv = "resume_ack" /\ worker[0] # "none"
    /\ rcv' = "receive"
    /\ have' = accepted /\ prefix' = accepted /\ early' = {}
    /\ part' = SubSeq(part, 1, accepted)
    /\ reader' = On(TRUE)
    /\ UNCHANGED <<files, accepted, sending, schedule, network, failed, target, attempt>>

-----------------------------------------------------------------------------
(* The sending thread *)

\* SendFileSession::read_next, or the end of the file and the start of finish().
ReadNext ==
    /\ snd = "read"
    /\ IF Len(digest) < source.length
       THEN /\ hand' = [at |-> Len(digest) + 1, content |-> source.version]
            /\ digest' = Append(digest, source.version)
            /\ snd' = "enqueue"
            /\ UNCHANGED finishing
       ELSE /\ snd' = "join" /\ finishing' = TRUE
            /\ UNCHANGED <<hand, digest>>
    /\ UNCHANGED <<files, accepted, schedule, network, receiving, history>>

total_pending == MapThenSumSet(LAMBDA c : pending[c], Channels)

choose_ready_channel_Strict(c) == pending[c] + 1 < PendingLimit

\* Latency decides between the channels with room: any of them may be chosen.
choose_ready_channel(c) ==
    /\ total_pending < Cardinality(Channels) * PendingLimit
    /\ pending[c] < PendingLimit

Enqueue(c) ==
    /\ snd = "enqueue" /\ ~error
    /\ choose_ready_channel(c)
    /\ pending' = [pending EXCEPT ![c] = @ + 1]
    /\ queue' = [queue EXCEPT ![c] = Append(@, hand)]
    /\ hand' = NoChunk /\ snd' = "read"
    /\ UNCHANGED <<files, accepted, digest, finishing, worker, item, error, network, receiving, history>>

\* enqueue rethrows; the destructor of the scheduler calls finish().
EnqueueThrows ==
    /\ snd = "enqueue" /\ error
    /\ hand' = NoChunk /\ snd' = "join" /\ finishing' = TRUE
    /\ UNCHANGED <<files, accepted, digest, schedule, network, receiving, history>>

\* finish(): every worker has been joined.
Join ==
    /\ snd = "join"
    /\ \A c \in Channels : worker[c] = "gone"
    /\ IF error
       THEN snd' = "failed" /\ cut' = AllCut
       ELSE snd' = "trailer" /\ UNCHANGED cut
    /\ UNCHANGED <<files, accepted, digest, hand, finishing, schedule, wire, receiving, history>>

\* SendFileSession::finish and the Done frame.
SendTrailer ==
    /\ snd = "trailer" /\ ~cut[0] /\ Len(wire[0]) < Window
    /\ wire' = [wire EXCEPT ![0] = Append(@, FileEnd)]
    /\ snd' = "ack"
    /\ UNCHANGED <<files, accepted, digest, hand, finishing, schedule, cut, receiving, history>>

\* The Ack of the receiver: transfer_complete.
ReadAck ==
    /\ snd = "ack" /\ rcv = "done"
    /\ snd' = "done"
    /\ UNCHANGED <<files, accepted, digest, hand, finishing, schedule, network, receiving, history>>

\* The control channel fails in a step of the sending thread.
SendThrows ==
    /\ snd \in {"resume", "trailer", "ack"} /\ cut[0]
    /\ snd' = "failed" /\ cut' = AllCut
    /\ UNCHANGED <<files, accepted, digest, hand, finishing, schedule, wire, receiving, history>>

-----------------------------------------------------------------------------
(* The workers of the scheduler *)

\* worker: the next item of its queue.
Take(c) ==
    /\ worker[c] = "wait" /\ ~error /\ queue[c] # << >>
    /\ item' = [item EXCEPT ![c] = Head(queue[c])]
    /\ queue' = [queue EXCEPT ![c] = Tail(@)]
    /\ worker' = [worker EXCEPT ![c] = "send"]
    /\ UNCHANGED <<files, accepted, sending, pending, error, network, receiving, history>>

\* A frame for a connection the other end has left is accepted and lost.
Put(c, frame) ==
    /\ cut[c] \/ Len(wire[c]) < Window
    /\ ~error
    /\ wire' = IF cut[c] THEN wire ELSE [wire EXCEPT ![c] = Append(@, frame)]

SendData(c) ==
    /\ worker[c] = "send"
    /\ Put(c, Data(item[c]))
    /\ worker' = [worker EXCEPT ![c] = "account"]
    /\ UNCHANGED <<files, accepted, sending, queue, pending, item, error, cut, receiving, history>>

\* pending_bytes goes down after the send, under the lock.
Account(c) ==
    /\ worker[c] = "account"
    /\ pending' = [pending EXCEPT ![c] = IF @ > 0 THEN @ - 1 ELSE 0]
    /\ item' = [item EXCEPT ![c] = NoChunk]
    /\ worker' = [worker EXCEPT ![c] = "wait"]
    /\ UNCHANGED <<files, accepted, sending, queue, error, network, receiving, history>>

Drained_Early(c) == finishing

\* The queue is empty and nothing more will come.
Drained(c) == finishing /\ queue[c] = << >>

LeaveLoop(c) ==
    /\ worker[c] = "wait" /\ ~error /\ Drained(c)
    /\ worker' = [worker EXCEPT ![c] = "end"]
    /\ UNCHANGED <<files, accepted, sending, queue, pending, item, error, network, receiving, history>>

SendChunkEnd(c) ==
    /\ worker[c] = "end"
    /\ Put(c, ChunkEnd)
    /\ worker' = [worker EXCEPT ![c] = "gone"]
    /\ UNCHANGED <<files, accepted, sending, queue, pending, item, error, cut, receiving, history>>

\* A worker that finds error_ set returns.
WorkerQuits(c) ==
    /\ worker[c] = "wait" /\ error
    /\ worker' = [worker EXCEPT ![c] = "gone"]
    /\ UNCHANGED <<files, accepted, sending, queue, pending, item, error, network, receiving, history>>

\* A send fails: set_error, which interrupts every channel the first time.
WorkerFails(c) ==
    /\ worker[c] \in {"send", "end"} /\ cut[c]
    /\ error' = TRUE
    /\ cut' = IF error THEN cut ELSE AllCut
    /\ worker' = [worker EXCEPT ![c] = "gone"]
    /\ UNCHANGED <<files, accepted, sending, queue, pending, item, wire, receiving, history>>

-----------------------------------------------------------------------------
(* The readers of the receiver *)

\* output_.write at the offset of the chunk; a gap before it reads as holes.
Written(k) ==
    [i \in 1..Max({Len(part), k.at}) |->
        IF i = k.at THEN k.content ELSE IF i <= Len(part) THEN part[i] ELSE Hole]

\* The prefix once the given chunks beyond it are absorbed.
Absorbed(chunks) == Min({n \in prefix..(prefix + Cardinality(chunks)) : n + 1 \notin chunks})

record_written_range(k) ==
    IF k.at <= prefix
    THEN UNCHANGED <<prefix, early>>
    ELSE /\ prefix' = Absorbed(early \cup {k.at})
         /\ early' = {i \in early \cup {k.at} : i > prefix'}

Acceptable(k) == k.at > have /\ k.at <= entry.length

Reads(c, tag) ==
    /\ rcv = "receive" /\ reader[c]
    /\ wire[c] # << >> /\ Head(wire[c]).tag = tag
    /\ wire' = [wire EXCEPT ![c] = Tail(@)]

WriteChunk(c) ==
    /\ Reads(c, "data")
    /\ LET k == Head(wire[c]).chunk
       IN /\ Acceptable(k)
          /\ part' = Written(k)
          /\ record_written_range(k)
    /\ UNCHANGED <<files, accepted, sending, schedule, cut, rcv, have, reader, failed, target, history>>

ReadChunkEnd(c) ==
    /\ Reads(c, "chunk_end")
    /\ reader' = [reader EXCEPT ![c] = FALSE]
    /\ UNCHANGED <<files, accepted, sending, schedule, cut, rcv, have, failed, prefix, early, part,
                   target, history>>

ReaderFails_NoInterrupt(c) ==
    /\ failed' = TRUE
    /\ reader' = [reader EXCEPT ![c] = FALSE]
    /\ UNCHANGED <<files, accepted, sending, schedule, cut, rcv, have, prefix, early, part, target, history>>

\* record_failure: the reader ends and every channel is interrupted.
ReaderFails(c) ==
    /\ failed' = TRUE
    /\ reader' = [reader EXCEPT ![c] = FALSE]
    /\ cut' = IF failed THEN cut ELSE AllCut
    /\ UNCHANGED <<files, accepted, sending, schedule, rcv, have, prefix, early, part, target, history>>

\* A frame that does not fit the declared size, or (with Faults) the disk.
RefuseChunk(c) ==
    /\ Reads(c, "data")
    /\ Acceptable(Head(wire[c]).chunk) => Faults
    /\ ReaderFails(c)

\* "data channel closed early".
ChannelLost(c) ==
    /\ rcv = "receive" /\ reader[c] /\ cut[c]
    /\ ReaderFails(c)
    /\ UNCHANGED wire

-----------------------------------------------------------------------------
(* The receiving thread *)

Readers == {c \in Channels : reader[c]}

\* receive() returns: every ChunkEnd has been read.
ReceiveReturns ==
    /\ rcv = "receive" /\ Readers = {} /\ ~failed
    /\ rcv' = "trailer"
    /\ UNCHANGED <<files, accepted, sending, schedule, network, have, reader, failed, prefix, early,
                   part, target, history>>

truncate_partial == SubSeq(part, 1, prefix)

\* receive() throws after trimming the part file; the trim may itself fail.
ReceiveThrows ==
    /\ rcv = "receive" /\ Readers = {} /\ failed
    /\ rcv' = "failed"
    /\ \/ part' = truncate_partial
       \/ Faults /\ UNCHANGED part
    /\ UNCHANGED <<files, accepted, sending, schedule, network, have, reader, failed, prefix, early,
                   target, attempt>>

\* The FileEnd frame: verify_part_file_digest, then the file is renamed or removed.
Complete ==
    /\ rcv = "trailer" /\ wire[0] # << >> /\ Head(wire[0]) = FileEnd
    /\ wire' = [wire EXCEPT ![0] = Tail(@)]
    /\ part' = << >>
    /\ IF Len(part) = entry.length /\ part = digest
       THEN rcv' = "done" /\ target' = part /\ UNCHANGED cut
       ELSE rcv' = "corrupt" /\ cut' = AllCut /\ UNCHANGED target
    /\ UNCHANGED <<files, accepted, sending, schedule, have, reader, failed, prefix, early, history>>

\* The control channel fails in a step of the receiving thread.
ReceiverThrows ==
    /\ rcv \in {"header", "resume_ack", "trailer"} /\ cut[0]
    /\ rcv' = "failed" /\ cut' = AllCut
    /\ UNCHANGED <<files, accepted, sending, schedule, wire, have, reader, failed, prefix, early, part,
                   target, history>>

-----------------------------------------------------------------------------
(* What happens to the two sides *)

Over == {"done", "failed", "corrupt"}

\* A connection breaks.
Break(c) ==
    /\ Faults /\ ~cut[c] /\ (snd \notin Over \/ rcv \notin Over)
    /\ cut' = [cut EXCEPT ![c] = TRUE]
    /\ UNCHANGED <<files, accepted, sending, schedule, wire, receiving, history>>

\* The receiver dies: of what it wrote, any part may have reached the disk.
Crash ==
    /\ Faults /\ rcv \in {"receive", "trailer"}
    /\ rcv' = "failed" /\ cut' = AllCut
    /\ reader' = On(FALSE)
    /\ \E kept \in SUBSET ((have + 1)..Len(part)) :
          part' = [i \in 1..Max({have} \cup kept) |-> IF i <= have \/ i \in kept THEN part[i] ELSE Hole]
    /\ UNCHANGED <<files, accepted, sending, schedule, wire, have, failed, prefix, early, target,
                   attempt>>

\* Somebody rewrites the source.
Edit ==
    /\ source.version <= MaxEdits /\ target = << >>
    /\ \E n \in Lengths : source' = [version |-> source.version + 1, length |-> n]
    /\ UNCHANGED <<entry, accepted, sending, schedule, network, receiving, history>>

\* Both sides try again: run_send_once collects the files anew.
Retry ==
    /\ snd = "failed" /\ rcv \in {"failed", "corrupt"}
    /\ attempt < MaxAttempts /\ attempt' = attempt + 1
    /\ entry' = source
    /\ snd' = "resume" /\ digest' = << >> /\ hand' = NoChunk /\ finishing' = FALSE
    /\ queue' = On(<< >>) /\ pending' = On(0) /\ worker' = On("none") /\ item' = On(NoChunk) /\ error' = FALSE
    /\ wire' = On(<< >>) /\ cut' = On(FALSE)
    /\ rcv' = "header" /\ have' = 0 /\ reader' = On(FALSE) /\ failed' = FALSE /\ early' = {}
    /\ UNCHANGED <<source, accepted, prefix, part, target>>

-----------------------------------------------------------------------------
SenderStep    == Accept \/ AcceptThrows \/ ReadNext \/ (\E c \in Channels : Enqueue(c))
                   \/ EnqueueThrows \/ Join \/ SendTrailer \/ ReadAck \/ SendThrows
WorkerStep(c) == Take(c) \/ SendData(c) \/ Account(c) \/ LeaveLoop(c) \/ SendChunkEnd(c)
                   \/ WorkerQuits(c) \/ WorkerFails(c)
ReaderStep(c) == WriteChunk(c) \/ ReadChunkEnd(c) \/ RefuseChunk(c) \/ ChannelLost(c)
ReceiverStep  == Offer \/ StartReceive \/ ReceiveReturns \/ ReceiveThrows \/ Complete \/ ReceiverThrows

Next ==
    \/ SenderStep
    \/ \E c \in Channels : WorkerStep(c) \/ ReaderStep(c) \/ Break(c)
    \/ ReceiverStep
    \/ Crash \/ Edit \/ Retry

Spec == Init /\ [][Next]_vars

\* Threads run; connections that are not cut carry what is sent on them.
Fairness ==
    /\ WF_vars(SenderStep) /\ WF_vars(ReceiverStep)
    /\ \A c \in Channels : WF_vars(WorkerStep(c)) /\ WF_vars(ReaderStep(c))

FairSpec == Spec /\ Fairness

-----------------------------------------------------------------------------
(* Properties *)

Contents == 0..(MaxEdits + 1)

\* Every variable has its type: a worker is in one of its five places, the
\* prefix and the chunks beyond it are chunks of the declared file.
TypeOK ==
    /\ {source, entry} \subseteq [version : 1..(MaxEdits + 1), length : Lengths]
    /\ snd \in {"resume", "read", "enqueue", "join", "trailer", "ack", "done", "failed"}
    /\ rcv \in {"header", "resume_ack", "receive", "trailer"} \cup Over
    /\ accepted \in Nat /\ have \in Nat
    /\ hand \in Chunk
    /\ digest \in Seq(Contents) /\ part \in Seq(Contents) /\ target \in Seq(Contents)
    /\ queue \in [Channels -> Seq(Chunk)]
    /\ pending \in [Channels -> 0..PendingLimit]
    /\ worker \in [Channels -> {"none", "wait", "send", "account", "end", "gone"}]
    /\ item \in [Channels -> Chunk]
    /\ error \in BOOLEAN /\ finishing \in BOOLEAN /\ failed \in BOOLEAN
    /\ wire \in [Channels -> Seq([tag : {"data", "chunk_end", "file_end"}, chunk : Chunk])]
    /\ cut \in [Channels -> BOOLEAN] /\ reader \in [Channels -> BOOLEAN]
    /\ prefix \in Nat /\ early \subseteq 1..(prefix + Max(Lengths))
    /\ attempt \in 1..MaxAttempts

\* Unless the source was rewritten since the files were collected, a transfer
\* whose ChunkEnds all arrived never fails its digest: no chunk is lost, sent
\* twice or out of place whatever channel it took, and neither is the part
\* file of an earlier attempt, a crashed one included.
NeverCorrupt ==
    rcv = "corrupt" => source.version # entry.version

\* Every attempt ends on both sides: no worker waits for room or for work
\* that never comes, finish() joins, and readers do not outlive the channels.
AttemptEnds ==
    \A n \in 1..MaxAttempts : attempt = n ~> (snd \in Over /\ rcv \in Over)

\* The file arrives, unless it is rewritten meanwhile, a connection is lost or
\* a side gives up and cuts them: backpressure and the order of the threads alone never stop a transfer.
Delivered ==
    <>(\/ rcv = "done" /\ snd = "done" /\ target = SourcePrefix(source.length)
       \/ source.version # entry.version
       \/ \E c \in Channels : cut[c])
=============================================================================
