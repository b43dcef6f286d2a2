---------------------------- MODULE FileTransfer ----------------------------
(***************************************************************************)
(* A batch of files sent over one stream: the manifest and the receiver's  *)
(* plan for it, the header, resume request, resume answer, data and end of *)
(* every entry, the .kikopart files, the conflict policies, and what       *)
(* happens to all of it when an attempt fails and the batch is sent again, *)
(* by auto_reconnect or by the user.                                       *)
(*                                                                         *)
(* A path is a sequence: a number that stands for the name, then the       *)
(* number of the " (n)" unique_conflict_path adds.  Names n and n + 10     *)
(* differ only in case.  A file is a sequence of Size chunks, a digest the *)
(* sequence it covers; imohash only covers the chunks it samples.          *)
(* Directories are flat: an entry is never the parent of another.          *)
(***************************************************************************)
EXTENDS Naturals, Sequences, FiniteSets

CONSTANTS
    Cases,       \* what is sent where: records of entries and caseless
    Policies,    \* the conflict policies
    Size,        \* chunks in a file
    Sampled,     \* the chunks that imohash reads
    MaxSuffix,   \* bound of unique_conflict_path, 9999 in the code
    Window,      \* frames the connection holds
    MaxAttempts, \* reconnect_attempts
    MaxReruns,   \* bound: times the user starts both sides again
    MaxChanges,  \* bound: source files rewritten and files others create in the output directory
    MaxFaults    \* bound: times the connection breaks or a process stops

ASSUME CasesAssumption ==
    \A c \in Cases : /\ c.entries \in Seq([path : Seq(Nat), kind : {"file", "link", "dir"}]) \ {<< >>}
                     /\ c.caseless \in BOOLEAN
ASSUME PoliciesAssumption == Policies \subseteq {"overwrite", "skip", "rename"}
ASSUME SizeAssumption     == Size \in Nat \ {0} /\ Sampled \subseteq 1..Size /\ MaxSuffix \in Nat
ASSUME BoundsAssumption   == /\ Window \in Nat /\ Window >= 2 /\ MaxAttempts \in Nat \ {0}
                             /\ MaxReruns \in Nat /\ MaxChanges \in Nat /\ MaxFaults \in Nat

VARIABLES
    batch, caseless, policy, \* what is sent, the receiver's file system and its --on-conflict
    source,   \* source[i]: the file of entry i on the sender's disk
    listed,   \* listed[i]: the same when collect_files read it
    snd,      \* where the sender is
    at,       \* the entry it is sending
    read,     \* what its hasher_ has been given
    sent,     \* sent[i]: the digest in the last FileEnd of entry i (history)
    wire,     \* frames from the sender
    reply,    \* frames from the receiver
    cut,      \* the connection is gone
    rcv,      \* where the receiver is
    plan,     \* plan[i]: target path and action, << >> before the manifest
    received, \* received_paths
    file,     \* current_file: the entry and the ReceiveFileAction
    disk,     \* what is in the output directory
    part,     \* the .kikopart files, by the name they stand for
    before,   \* disk when the plan was made (history)
    shown,    \* shown[s]: overall_done and finished in the TransferProgressState of a side
    why,      \* why[s]: may run_with_auto_reconnect try again after this failure?
    attempt, reruns, edits, locals, faults,
    wrote,    \* wrote[i]: chunks ever written for entry i (history)
    torn      \* has a process been killed with chunks not yet on disk? (history)

given   == <<batch, caseless, policy>>
sending == <<snd, at, read, sent, listed>>
network == <<wire, reply, cut>>
session == <<rcv, plan, received, file, before>>
output  == <<disk, part, wrote>>
counts  == <<attempt, reruns, edits, locals, faults, torn>>
outcome == <<shown, why>>
vars    == <<given, source, sending, network, session, output, outcome, counts>>

Paths      == UNION {{c.entries[i].path : i \in DOMAIN c.entries} : c \in Cases}
Numbered   == {Append(p, n) : p \in Paths, n \in 1..MaxSuffix}
FoldCase(p) == [p EXCEPT ![1] = @ % 10]
Names      == LET all == Paths \cup Numbered IN all \cup {FoldCase(p) : p \in all}
Entries    == DOMAIN batch
OfKind(k)  == {i \in Entries : batch[i].kind = k}

Nothing == [kind |-> "none", content |-> << >>]
File(c) == [kind |-> "file", content |-> c]
Link    == [kind |-> "link", content |-> << >>]
Dir     == [kind |-> "dir", content |-> << >>]
Copies(v) == [k \in 1..Size |-> v]
Original  == Copies(1)
Own       == File(Copies(0))
imohash(c) == [k \in Sampled |-> c[k]]

\* Where a path leads on the receiver's file system.
Key(p)    == IF caseless THEN FoldCase(p) ELSE p
On(d, p)  == d[Key(p)]
Exists(p) == On(disk, p) # Nothing

\* reset_transfer_attempt; done counts chunks.
Sides == {"sender", "receiver"}
Fresh == [done |-> 0, finished |-> FALSE]

NoFile == [entry |-> 0, action |-> "none"]
Ended  == {"done", "failed"}

Init ==
    /\ \E c \in Cases : batch = c.entries /\ caseless = c.caseless
    /\ policy \in Policies
    /\ source = [i \in Entries |-> Original] /\ listed = source
    /\ snd = "manifest" /\ at = 1 /\ read = << >> /\ sent = [i \in Entries |-> << >>]
    /\ wire = << >> /\ reply = << >> /\ cut = FALSE
    /\ rcv = "frame" /\ plan = << >> /\ received = {} /\ file = NoFile
    /\ \E p \in {Key(batch[i].path) : i \in Entries}, t \in {Nothing, Own, File(Original), Dir} :
         disk = [n \in Names |-> IF n = p THEN t ELSE Nothing]
    /\ part = [n \in Names |-> Nothing] /\ before = disk
    /\ why = [s \in Sides |-> "none"] /\ shown = [s \in Sides |-> Fresh]
    /\ attempt = 1 /\ reruns = 0 /\ edits = 0 /\ locals = 0 /\ faults = 0 /\ torn = FALSE
    /\ wrote = [i \in Entries |-> 0]

-----------------------------------------------------------------------------
(* The receive plan *)

unique_conflict_path_Reserved(p, taken) ==
    LET free == {n \in 1..MaxSuffix : Append(p, n) \notin taken}
    IN IF free = {} THEN p ELSE Append(p, CHOOSE n \in free : \A m \in free : n <= m)

\* The first "name (n)" nobody uses; the path itself says that there was none.
unique_conflict_path(p, taken) ==
    LET free == {n \in 1..MaxSuffix : LET c == Append(p, n) IN
                    c \notin taken /\ ~Exists(c) /\ On(part, c) = Nothing}
    IN IF free = {} THEN p ELSE Append(p, CHOOSE n \in free : \A m \in free : n <= m)

plan_collision_error_Exact(target, taken) == target \in taken

\* Two entries of the plan may not share a target, nor differ from it only in
\* case where the file system ignores it (it is probed when that matters).
plan_collision_error(target, taken) ==
    \/ target \in taken
    \/ caseless /\ \E t \in taken : FoldCase(t) = FoldCase(target)

\* What the policy says of one entry: the action and the target, or a refusal.
PlanFor(e, taken) ==
    LET write  == [action |-> "write", target |-> e.path, ok |-> TRUE]
        refuse == [write EXCEPT !.ok = FALSE]
        other  == unique_conflict_path(e.path, taken)
    IN IF e.kind = "dir"
       THEN IF On(disk, e.path) \in {Nothing, Dir} THEN write ELSE refuse
       ELSE IF ~Exists(e.path) THEN write
       ELSE CASE policy = "skip"   -> [write EXCEPT !.action = "skip"]
              [] policy = "rename" -> [action |-> "rename", target |-> other, ok |-> other # e.path]
              [] OTHER             -> IF On(disk, e.path) = Dir THEN refuse ELSE write

\* The targets reserved so far.
Taken == {plan[k].target : k \in {j \in DOMAIN plan : plan[j].action # "skip"}}

-----------------------------------------------------------------------------
(* The sender *)

Frame(t, i, c) == [tag |-> t, entry |-> i, content |-> c]
Put(fs)        == Len(wire) + Len(fs) <= Window /\ wire' = wire \o fs

Throws_Open(s, w) == why' = [why EXCEPT ![s] = w] /\ UNCHANGED cut

\* A failing side closes its socket on the way out.
Throws(s, w) ==
    /\ why' = [why EXCEPT ![s] = w]
    /\ cut' = TRUE

\* The events a front end counts.
file_advance(s, n)   == shown' = [shown EXCEPT ![s].done = IF shown[s].finished THEN @ ELSE @ + n]
transfer_complete(s) == shown' = [shown EXCEPT ![s].done = Size * Cardinality(OfKind("file")), ![s].finished = TRUE]

SendManifest ==
    /\ snd = "manifest" /\ ~cut
    /\ Put(<<Frame("manifest", 0, << >>)>>)
    /\ snd' = "header" /\ at' = 1
    /\ UNCHANGED <<given, source, read, sent, listed, reply, cut, session, output, outcome, counts>>

SendHeader ==
    /\ snd = "header" /\ ~cut
    /\ Put(<<Frame("header", at, imohash(listed[at]))>>)
    /\ snd' = "resume"
    /\ UNCHANGED <<given, source, at, read, sent, listed, reply, cut, session, output, outcome, counts>>

\* The loop of send_transfer_files: the next entry, or the Done frame.
NextEntry ==
    IF at < Len(batch)
    THEN at' = at + 1 /\ snd' = "header"
    ELSE at' = at /\ snd' = "finish"

validate_complete_skip_source == imohash(source[at]) = imohash(listed[at])

\* SendFileSession: the answer to the resume request, for a marker, for a file
\* the receiver already has, and for one whose payload follows.
AnswerMarker(r) ==
    /\ batch[at].kind # "file"
    /\ Put(<<Frame("answer", at, r.content), Frame("end", at, << >>)>>)
    /\ NextEntry
    /\ UNCHANGED <<read, sent, shown>>

AnswerComplete(r) ==
    /\ batch[at].kind = "file" /\ r.tag = "complete"
    /\ validate_complete_skip_source
    /\ Put(<<Frame("answer", at, r.content), Frame("end", at, << >>)>>)
    /\ NextEntry
    /\ file_advance("sender", Size)
    /\ UNCHANGED <<read, sent>>

PrefixMatches(r) == r.content = SubSeq(source[at], 1, Len(r.content))

AnswerResume(r) ==
    /\ batch[at].kind = "file" /\ r.tag = "resume"
    /\ LET accepted == IF PrefixMatches(r) THEN r.content ELSE << >> IN
         /\ Put(<<Frame("answer", at, accepted)>>)
         /\ file_advance("sender", Len(accepted))
         /\ read' = SubSeq(source[at], 1, Len(accepted))
    /\ snd' = "payload"
    /\ UNCHANGED <<at, sent>>

Answer ==
    /\ snd = "resume" /\ reply # << >>
    /\ LET r == Head(reply) IN AnswerMarker(r) \/ AnswerComplete(r) \/ AnswerResume(r)
    /\ reply' = Tail(reply)
    /\ UNCHANGED <<given, source, listed, cut, session, output, why, counts>>

\* "source file changed since manifest".
AnswerThrows ==
    /\ snd = "resume" /\ reply # << >>
    /\ batch[at].kind = "file" /\ Head(reply).tag = "complete" /\ ~validate_complete_skip_source
    /\ snd' = "failed" /\ Throws("sender", "refused")
    /\ UNCHANGED <<shown, given, source, at, read, sent, listed, wire, reply, session, output, counts>>

SendData ==
    /\ snd = "payload" /\ ~cut /\ Len(read) < Size
    /\ LET c == source[at][Len(read) + 1] IN
         Put(<<Frame("data", at, <<c>>)>>) /\ read' = Append(read, c)
    /\ file_advance("sender", 1)
    /\ UNCHANGED <<given, source, snd, at, sent, listed, reply, cut, session, output, why, counts>>

SendEnd ==
    /\ snd = "payload" /\ ~cut /\ Len(read) = Size
    /\ Put(<<Frame("end", at, read)>>)
    /\ sent' = [sent EXCEPT ![at] = read]
    /\ NextEntry
    /\ UNCHANGED <<given, source, read, listed, reply, cut, session, output, outcome, counts>>

SendDone ==
    /\ snd = "finish" /\ ~cut
    /\ Put(<<Frame("done", 0, << >>)>>)
    /\ snd' = "ack"
    /\ UNCHANGED <<given, source, at, read, sent, listed, reply, cut, session, output, outcome, counts>>

ReadAck ==
    /\ snd = "ack" /\ reply # << >>
    /\ snd' = "done" /\ reply' = Tail(reply)
    /\ transfer_complete("sender")
    /\ UNCHANGED <<given, source, at, read, sent, listed, wire, cut, session, output, why, counts>>

SenderLosesLine ==
    /\ snd \notin Ended /\ cut
    /\ snd' = "failed" /\ Throws("sender", "line")
    /\ UNCHANGED <<shown, given, source, at, read, sent, listed, wire, reply, session, output, counts>>

-----------------------------------------------------------------------------
(* The receiver *)

Next_(tag) == rcv = "frame" /\ wire # << >> /\ Head(wire).tag = tag
Took       == wire' = Tail(wire)

ReadManifest ==
    /\ Next_("manifest") /\ Took
    /\ rcv' = "plan" /\ before' = disk
    /\ UNCHANGED <<given, source, sending, reply, cut, plan, received, file, output, outcome, counts>>

\* preflight_transfer_manifest: one entry after the other.
PlanEntry ==
    /\ rcv = "plan"
    /\ LET e == batch[Len(plan) + 1]
           d == PlanFor(e, Taken)
       IN /\ d.ok
          /\ d.action # "skip" => ~plan_collision_error(d.target, Taken)
          /\ plan' = Append(plan, [target |-> d.target, action |-> d.action])
    /\ rcv' = IF Len(plan') = Len(batch) THEN "frame" ELSE "plan"
    /\ UNCHANGED <<given, source, sending, network, received, file, before, output, outcome, counts>>

\* The preflight refuses the manifest.
PlanThrows ==
    /\ rcv = "plan"
    /\ LET e == batch[Len(plan) + 1]
           d == PlanFor(e, Taken)
       IN \/ ~d.ok
          \/ d.action # "skip" /\ plan_collision_error(d.target, Taken)
    /\ rcv' = "failed" /\ Throws("receiver", "refused")
    /\ UNCHANGED <<shown, given, source, sending, wire, reply, plan, received, file, before, output, counts>>

Ask(action, i, tag, content) ==
    /\ file' = [entry |-> i, action |-> action]
    /\ received' = received \cup {i}
    /\ reply' = Append(reply, Frame(tag, i, content))
    /\ rcv' = "answer"
    /\ UNCHANGED <<cut, why>>

\* A part file no longer than the file.
resumable_part_size_Shorter(p) == IF Len(On(part, p).content) < Size THEN Len(On(part, p).content) ELSE 0
resumable_part_size(p)         == IF Len(On(part, p).content) <= Size THEN Len(On(part, p).content) ELSE 0

\* try_skip_existing_duplicate: the planned target is already this file.
IsDuplicate(p, hash) == On(disk, p).kind = "file" /\ imohash(On(disk, p).content) = hash

\* The constructor of ReceiveFileSession, up to its resume request.
ReadHeader ==
    /\ Next_("header") /\ Took
    /\ LET i == Head(wire).entry
           d == plan[i]
       IN CASE batch[i].kind = "link" -> Ask("marker", i, "resume", << >>) /\ UNCHANGED disk
            [] batch[i].kind = "dir" /\ On(disk, d.target) \in {Nothing, Dir} ->
                 /\ disk' = [disk EXCEPT ![Key(d.target)] = Dir]
                 /\ Ask("marker", i, "resume", << >>)
            [] batch[i].kind = "dir" /\ On(disk, d.target) \notin {Nothing, Dir} ->
                 /\ rcv' = "failed" /\ Throws("receiver", "refused")
                 /\ UNCHANGED <<disk, file, received, reply>>
            [] batch[i].kind = "file" /\ (d.action = "skip" \/ IsDuplicate(d.target, Head(wire).content)) ->
                 Ask("skip", i, "complete", << >>) /\ UNCHANGED disk
            [] OTHER ->
                 /\ Ask("payload", i, "resume",
                        SubSeq(On(part, d.target).content, 1, resumable_part_size(d.target)))
                 /\ UNCHANGED disk
    /\ UNCHANGED <<given, source, sending, plan, shown, before, part, wrote, counts>>

Target == plan[file.entry].target

ReadAnswer_Silent ==
    /\ rcv = "answer" /\ wire # << >> /\ Took
    /\ rcv' = "frame"
    /\ part' = IF file.action = "payload"
               THEN [part EXCEPT ![Key(Target)] = File(Head(wire).content)] ELSE part
    /\ file_advance("receiver", IF file.action = "skip" THEN Size ELSE 0)
    /\ UNCHANGED <<given, source, sending, reply, cut, plan, received, file, before, disk, wrote, why, counts>>

\* The answer: the part file is cut to what the sender accepted, then opened.
ReadAnswer ==
    /\ rcv = "answer" /\ wire # << >> /\ Took
    /\ rcv' = "frame"
    /\ part' = IF file.action = "payload"
               THEN [part EXCEPT ![Key(Target)] = File(Head(wire).content)] ELSE part
    /\ file_advance("receiver", CASE file.action = "skip"    -> Size
                                  [] file.action = "payload" -> Len(Head(wire).content)
                                  [] file.action = "marker"  -> 0)
    /\ UNCHANGED <<given, source, sending, reply, cut, plan, received, file, before, disk, wrote, why, counts>>

ReadData ==
    /\ Next_("data") /\ Took
    /\ part' = [part EXCEPT ![Key(Target)].content = @ \o Head(wire).content]
    /\ wrote' = [wrote EXCEPT ![file.entry] = @ + 1]
    /\ file_advance("receiver", 1)
    /\ UNCHANGED <<given, source, sending, reply, cut, session, disk, why, counts>>

\* complete_marker: a link replaces what is there, unless its plan was to skip.
EndMarker ==
    /\ file.action = "marker"
    /\ disk' = IF batch[file.entry].kind = "link" /\ plan[file.entry].action # "skip"
               THEN [disk EXCEPT ![Key(Target)] = Link] ELSE disk
    /\ file' = NoFile
    /\ UNCHANGED <<rcv, part, cut, why>>

EndSkipped == file.action = "skip" /\ file' = NoFile /\ UNCHANGED <<rcv, disk, part, cut, why>>

Verified == On(part, Target).content = Head(wire).content

\* complete_received: verify, then replace the target in one step.
EndPayload ==
    /\ file.action = "payload"
    /\ part' = [part EXCEPT ![Key(Target)] = Nothing]
    /\ IF Verified
       THEN /\ disk' = [disk EXCEPT ![Key(Target)] = On(part, Target)]
            /\ file' = NoFile /\ UNCHANGED <<rcv, cut, why>>
       ELSE rcv' = "failed" /\ Throws("receiver", "refused") /\ UNCHANGED <<disk, file>>

ReadEnd ==
    /\ Next_("end") /\ Took
    /\ EndMarker \/ EndSkipped \/ EndPayload
    /\ UNCHANGED <<given, source, sending, reply, plan, received, before, shown, wrote, counts>>

\* Done: every entry of the plan has had its header.
ReadDone ==
    /\ Next_("done") /\ Took
    /\ received = Entries
    /\ reply' = Append(reply, Frame("ack", 0, << >>)) /\ rcv' = "done"
    /\ transfer_complete("receiver")
    /\ UNCHANGED <<given, source, sending, cut, plan, received, file, before, output, why, counts>>

ReceiverLosesLine ==
    /\ rcv \notin Ended /\ cut
    /\ rcv' = "failed" /\ Throws("receiver", "line")
    /\ UNCHANGED <<shown, given, source, sending, wire, reply, plan, received, file, before, output, counts>>

-----------------------------------------------------------------------------
(* Failures, the user, and the attempts *)

Fault == faults < MaxFaults /\ faults' = faults + 1

Break ==
    /\ Fault /\ ~cut /\ ~(snd \in Ended /\ rcv \in Ended)
    /\ cut' = TRUE
    /\ UNCHANGED <<given, source, sending, wire, reply, session, output, outcome,
                   attempt, reruns, edits, locals, torn>>

SenderStops ==
    /\ Fault /\ snd \notin Ended
    /\ snd' = "failed" /\ Throws("sender", "refused")
    /\ UNCHANGED <<shown, given, source, at, read, sent, listed, wire, reply, session, output,
                   attempt, reruns, edits, locals, torn>>

\* No space, a full disk or a kill: the last chunks may never have reached the part file.
ReceiverStops ==
    /\ Fault /\ rcv \notin Ended
    /\ rcv' = "failed" /\ Throws("receiver", "refused")
    /\ IF file.action = "payload" /\ rcv = "frame"
       THEN \E n \in 0..Len(On(part, Target).content) :
              /\ part' = [part EXCEPT ![Key(Target)].content = SubSeq(@, 1, n)]
              /\ torn' = (torn \/ n < Len(On(part, Target).content))
       ELSE UNCHANGED <<part, torn>>
    /\ UNCHANGED <<shown, given, source, sending, wire, reply, plan, received, file, before, disk, wrote,
                   attempt, reruns, edits, locals>>

\* Somebody rewrites some chunks of a source file.
EditSource(i) ==
    /\ edits + locals < MaxChanges /\ edits' = edits + 1
    /\ \E ks \in SUBSET (1..Size) \ {{}} :
         source' = [source EXCEPT ![i] = [k \in 1..Size |-> IF k \in ks THEN edits + 2 ELSE @[k]]]
    /\ UNCHANGED <<given, sending, network, session, output, outcome, attempt, reruns, locals, faults, torn>>

\* Somebody creates a file in the output directory.
LocalFile(p) ==
    /\ edits + locals < MaxChanges /\ locals' = locals + 1
    /\ disk[Key(p)] = Nothing
    /\ disk' = [disk EXCEPT ![Key(p)] = Own]
    /\ UNCHANGED <<given, source, sending, network, session, part, wrote, outcome, attempt, reruns, edits, faults, torn>>

\* run_send_once and run_recv_once again: new manifest, new plan, new stream.
Begin ==
    /\ listed' = source
    /\ snd' = "manifest" /\ at' = 1 /\ read' = << >> /\ sent' = [i \in Entries |-> << >>]
    /\ wire' = << >> /\ reply' = << >> /\ cut' = FALSE
    /\ rcv' = "frame" /\ plan' = << >> /\ received' = {} /\ file' = NoFile /\ before' = disk
    /\ why' = [s \in Sides |-> "none"] /\ shown' = [s \in Sides |-> Fresh]
    /\ UNCHANGED <<given, source, output, edits, locals, faults, torn>>

is_retryable(s) == why[s] = "line" /\ attempt < MaxAttempts

\* run_with_auto_reconnect on both sides.
Reconnect ==
    /\ is_retryable("sender") /\ is_retryable("receiver")
    /\ Begin
    /\ attempt' = attempt + 1 /\ UNCHANGED reruns

\* One side tries again and finds nobody: "failed to connect ... rendezvous peer".
ReconnectAlone(s, other) ==
    /\ is_retryable(s)
    /\ IF s = "sender" THEN rcv \in Ended ELSE snd \in Ended
    /\ why[other] # "line"
    /\ shown' = [shown EXCEPT ![s] = Fresh]
    /\ why' = [why EXCEPT ![s] = "refused"]
    /\ UNCHANGED <<given, source, sending, network, session, output, counts>>

Settled ==
    /\ snd \in Ended /\ rcv \in Ended
    /\ ~is_retryable("sender") /\ ~is_retryable("receiver")

\* The user starts both commands again.
Rerun ==
    /\ Settled /\ "failed" \in {snd, rcv} /\ reruns < MaxReruns
    /\ Begin
    /\ reruns' = reruns + 1 /\ attempt' = 1

Sender   == \/ SendManifest \/ SendHeader \/ Answer \/ AnswerThrows \/ SendData \/ SendEnd
            \/ SendDone \/ ReadAck \/ SenderLosesLine
Receiver == \/ ReadManifest \/ PlanEntry \/ PlanThrows \/ ReadHeader \/ ReadAnswer \/ ReadData \/ ReadEnd \/ ReadDone
            \/ ReceiverLosesLine
Retries  == Reconnect \/ ReconnectAlone("sender", "receiver") \/ ReconnectAlone("receiver", "sender")

Next ==
    \/ Sender
    \/ Receiver
    \/ Retries
    \/ Rerun
    \/ Break
    \/ SenderStops
    \/ ReceiverStops
    \/ \E i \in OfKind("file") : EditSource(i)
    \/ \E i \in Entries : LocalFile(batch[i].path)

Spec == Init /\ [][Next]_vars

\* Every thread runs, and a waiting retry starts; nothing else must happen.
FairSpec == Spec /\ WF_vars(Sender) /\ WF_vars(Receiver) /\ WF_vars(Retries)

-----------------------------------------------------------------------------
(* Properties *)

TypeOK ==
    /\ Len(wire) <= Window /\ Len(reply) <= 1
    /\ received \subseteq Entries
    /\ \A n \in Names : disk[n].kind \in {"none", "file", "link", "dir"} /\ part[n].kind \in {"none", "file"}
    /\ attempt \in 1..MaxAttempts /\ reruns \in 0..MaxReruns

Whole(i) ==
    LET t == On(disk, plan[i].target)
    IN IF plan[i].action = "skip" THEN t # Nothing
       ELSE CASE batch[i].kind = "link" -> t = Link
              [] batch[i].kind = "dir"  -> t = Dir
              [] batch[i].kind = "file" ->
                   /\ t.kind = "file"
                   /\ IF sent[i] = << >> THEN imohash(t.content) = imohash(listed[i])
                                         ELSE t.content = sent[i]

\* A receiver that has reported the batch complete has every entry at the
\* target of its plan: the bytes whose digest the sender sent, or, for a file it
\* already had, one with the sender's fingerprint; so no two entries met in
\* one target.  A sender only reports success when its receiver has.
BatchWhole ==
    /\ rcv = "done" => \A i \in Entries : Whole(i)
    /\ snd = "done" => rcv = "done"

\* With --on-conflict skip or rename nothing that the plan found in the output
\* directory is ever changed, whatever else happens during the attempt.
Untouched ==
    policy # "overwrite" =>
        \A n \in Names : before[n] # Nothing => disk[n] = before[n]

\* With overwrite or skip, a batch that is sent again after failures never
\* receives a chunk twice, as long as the source stays and no process was killed.
ProgressKept ==
    policy # "rename" /\ edits = 0 /\ ~torn => \A i \in Entries : wrote[i] <= Size

\* What a front end shows is what happened: on the receiver the chunks that are in the
\* finished files and in the part file, those of earlier attempts included, on the
\* sender what it sent or was spared; both arrive at the whole batch and not above,
\* and a side only shows the transfer finished when the receiver has it all.
ProgressTrue ==
    LET files(is) == Size * Cardinality(is \cap OfKind("file"))
        answered  == rcv # "answer"
    IN /\ rcv # "failed" =>
            shown["receiver"].done =
               files(received \ {file.entry})
                 + CASE file.action = "payload" /\ answered -> Len(On(part, Target).content)
                     [] file.action = "skip" /\ answered    -> Size
                     [] OTHER -> 0
       /\ snd # "failed" =>
            shown["sender"].done =
               CASE snd \in {"finish", "ack", "done"} -> files(Entries)
                 [] snd = "payload" -> files(1..at - 1) + Len(read)
                 [] OTHER           -> files(1..at - 1)
       /\ \A s \in Sides : /\ shown[s].done <= files(Entries)
                           /\ shown[s].finished => rcv = "done"

\* Every attempt ends on both sides, and retrying ends too: neither side waits
\* for a peer that has given up.
RetriesEnd == <>[]Settled
=============================================================================
