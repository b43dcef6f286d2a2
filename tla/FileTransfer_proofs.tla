------------------------ MODULE FileTransfer_proofs ------------------------
(***************************************************************************)
(* Proofs about the single-stream transfer, for any batch of files, links  *)
(* and directories of any size, any policy, window and number of attempts. *)
(***************************************************************************)
EXTENDS FileTransfer, FiniteSetTheorems, SequenceTheorems, WellFoundedInduction, TLAPS

-----------------------------------------------------------------------------
(* The inductive invariant: types.                                         *)

Data  == Seq(Nat)
Contents == [1..Size -> Nat]
Node  == [kind : {"none", "file", "link", "dir"}, content : Data]
Batches == Seq([path : Seq(Nat), kind : {"file", "link", "dir"}])

\* A frame carries chunks, but for a header, which carries a fingerprint.
Frames ==
    [tag : {"manifest", "answer", "data", "end", "done"}, entry : Nat, content : Data]
      \cup [tag : {"header"}, entry : Nat, content : [Sampled -> Nat]]
Replies == [tag : {"resume", "complete", "ack"}, entry : Nat, content : Data]

Given ==
    /\ batch \in Batches /\ batch # << >> /\ \A i \in Entries : batch[i].path \in Paths
    /\ caseless \in BOOLEAN /\ policy \in Policies

SenderTypes ==
    /\ source \in [Entries -> Contents] /\ listed \in [Entries -> Contents]
    /\ snd \in {"manifest", "header", "resume", "payload", "finish", "ack", "done", "failed"}
    /\ at \in Entries /\ read \in Data /\ Len(read) <= Size /\ sent \in [Entries -> Data]

WireTypes ==
    /\ wire \in Seq(Frames) /\ Len(wire) <= Window
    /\ reply \in Seq(Replies) /\ Len(reply) <= 1 /\ \A j \in DOMAIN reply : Len(reply[j].content) <= Size

ReceiverTypes ==
    /\ rcv \in {"frame", "plan", "answer", "done", "failed"}
    /\ received \subseteq Entries
    /\ disk \in [Names -> Node] /\ part \in [Names -> Node]
    /\ \A n \in Names : part[n].kind \in {"none", "file"}

RunTypes ==
    /\ shown \in [Sides -> [done : Nat, finished : BOOLEAN]]
    /\ why \in [Sides -> {"none", "line", "refused"}]
    /\ attempt \in 1..MaxAttempts /\ reruns \in 0..MaxReruns /\ edits \in Nat

Typed == Given /\ SenderTypes /\ WireTypes /\ ReceiverTypes /\ RunTypes

-----------------------------------------------------------------------------
(* Plans and directory. *)

Planned == Len(plan) = Len(batch)

Plans ==
    /\ plan \in Seq([target : Paths \cup Numbered, action : {"write", "skip", "rename"}])
    /\ Len(plan) <= Len(batch)
    /\ \A i \in DOMAIN plan : /\ plan[i].action = "skip" => On(disk, plan[i].target) # Nothing
                              /\ batch[i].kind = "dir" => plan[i].action # "skip"
    /\ \A i, j \in DOMAIN plan : plan[i].action # "skip" /\ plan[j].action # "skip" /\ i # j =>
          Key(plan[i].target) # Key(plan[j].target)

\* Where the plan lets the receiver write, it found nothing, or a directory for one.
Spared ==
    policy # "overwrite" => \A i \in DOMAIN plan : plan[i].action # "skip" =>
        \/ before[Key(plan[i].target)] = Nothing
        \/ batch[i].kind = "dir" /\ before[Key(plan[i].target)] = Dir

Directory == Plans /\ Spared /\ Untouched

-----------------------------------------------------------------------------
(* The two sides. *)

Busy == file.action # "none"

\* Where the receiver is.
Shape ==
    /\ file \in [entry : Nat, action : {"none", "payload", "skip", "marker"}]
    /\ IF Busy THEN file.entry \in received ELSE file.entry = 0
    /\ ~Planned => file = NoFile /\ received = {}
    /\ rcv = "plan" => ~Planned
    /\ rcv = "frame" => plan = << >> \/ Planned
    /\ rcv \in {"answer", "done"} => Planned
    /\ rcv = "answer" => Busy
    /\ rcv = "done" => ~Busy /\ received = Entries
    /\ file.action = "payload" => batch[file.entry].kind = "file" /\ plan[file.entry].action # "skip"
    /\ file.action = "skip" => batch[file.entry].kind = "file"
    /\ file.action = "marker" => batch[file.entry].kind # "file"
    /\ file.action = "payload" /\ rcv = "frame" => On(part, Target).kind = "file"

\* What is sent after the end of an entry is a header or the end of the batch.
Final(f) == f.tag \in {"header", "done"}

\* The manifest has not been read.
Unread == rcv = "frame" /\ plan = << >>

\* The frames of the entry in progress come first, then the next header or the end.
FrameAt(j) ==
    LET f == wire[j]
    IN  /\ f.tag = "manifest" <=> j = 1 /\ Unread
        /\ Final(f) => /\ j = Len(wire) /\ reply = << >>
                       /\ Busy => j > 1 /\ wire[j - 1].tag = "end"
        /\ f.tag = "header" => /\ f.entry = at /\ snd \in {"resume", "failed"} /\ received \subseteq 1..(at - 1)
                               /\ f.content = imohash(listed[at]) /\ sent[at] = << >>
        /\ f.tag = "done" => snd \in {"ack", "failed"}
        /\ f.tag \in {"answer", "data", "end"} => Busy /\ f.entry = file.entry
        /\ f.tag = "answer" <=> j = 1 /\ rcv = "answer"
        /\ f.tag = "answer" => Len(f.content) <= Size
        /\ f.tag = "data" => file.action = "payload" /\ Len(f.content) = 1
        /\ f.tag = "end" /\ file.action = "payload" => f.content = sent[file.entry] /\ Len(f.content) = Size
        /\ f.tag = "end" => snd # "payload" /\ \A k \in DOMAIN wire : k > j => Final(wire[k])

Last == wire[Len(wire)]

\* Nothing but the end of the entry in progress is on its way.
Between == /\ reply = << >>
           /\ \A j \in DOMAIN wire : ~Final(wire[j])
           /\ Busy => wire # << >> /\ Last.tag = "end"

\* Where the sender is, as long as the receiver goes on.
Coupled ==
    /\ snd = "manifest" => Unread /\ wire = << >> /\ reply = << >> /\ at = 1
    /\ Unread => snd \in {"manifest", "failed"} \/ wire # << >>
    /\ snd = "header" => Between /\ received \subseteq 1..(at - 1)
    /\ snd = "resume" => \/ reply = << >> /\ wire # << >> /\ Last.tag = "header"
                         \/ /\ rcv = "answer" /\ wire = << >> /\ file.entry = at /\ Len(reply) = 1
                            /\ file.action = "skip" <=> Head(reply).tag = "complete"
    /\ snd = "payload" => /\ file.entry = at /\ file.action = "payload" /\ reply = << >>
                          /\ rcv = "answer" => wire # << >>
                          /\ \A j \in DOMAIN wire : ~Final(wire[j])
    /\ snd = "finish" => Between
    /\ snd = "ack" => \/ reply = << >> /\ wire # << >> /\ Last.tag = "done"
                      \/ rcv = "done" /\ wire = << >> /\ Len(reply) = 1

Wired == rcv # "failed" => (\A j \in DOMAIN wire : FrameAt(j)) /\ Coupled

\* What holds of the sender and its replies alone.
Sending ==
    /\ received \subseteq 1..at
    /\ \A i \in Entries : i > at => sent[i] = << >>
    /\ snd \in {"manifest", "header", "resume", "payload"} => sent[at] = << >>
    /\ snd = "manifest" => at = 1 /\ received = {}
    /\ snd = "payload" => batch[at].kind = "file"
    /\ snd \in {"finish", "ack", "done"} => at = Len(batch)
    /\ \A j \in DOMAIN reply : snd = "resume" => reply[j].tag # "ack"
    /\ snd \in {"manifest", "header", "payload", "finish", "done"} => reply = << >>
    /\ snd = "ack" /\ reply # << >> => rcv = "done"
    /\ snd = "done" => rcv = "done"

Core == Typed /\ Directory /\ Shape /\ Wired /\ Sending

\* The entries that have arrived are whole; those that end without payload have no digest.
Arrived ==
    rcv # "failed" =>
        /\ \A i \in received : i # file.entry \/ file.action = "skip" => Whole(i)
        /\ file.action = "marker" /\ batch[file.entry].kind = "dir" => Whole(file.entry)
        /\ file.action \in {"skip", "marker"} => sent[file.entry] = << >>

-----------------------------------------------------------------------------
(* Progress. *)

\* Chunks of the entry in progress that are in its part file, before the first frame.
Base == IF rcv = "answer" THEN Len(wire[1].content) - 1 ELSE Len(On(part, Target).content)

Counted ==
    rcv # "failed" /\ file.action = "payload" /\ (rcv = "answer" => wire # << >>) =>
        /\ Base + 1 >= 0 /\ (rcv = "frame" => Base <= Size)
        /\ \A j \in DOMAIN wire : /\ wire[j].tag = "data" => Base + j <= Size
                                  /\ wire[j].tag = "end" => Base + j = Size + 1
        /\ snd = "payload" => Base + Len(wire) = Len(read)

Chunks(is) == Size * Cardinality(is \cap OfKind("file"))

\* What the receiver shows of the entry in progress.
Pending ==
    CASE file.action = "payload" /\ rcv # "answer" -> Len(On(part, Target).content)
      [] file.action = "skip" /\ rcv # "answer"    -> Size
      [] OTHER -> 0

ReceiverShown == rcv # "failed" => shown["receiver"].done = Chunks(received \ {file.entry}) + Pending

\* What the sender shows.
Passed ==
    CASE snd \in {"finish", "ack", "done"} -> Chunks(Entries)
      [] snd = "payload" -> Chunks(1..(at - 1)) + Len(read)
      [] OTHER           -> Chunks(1..(at - 1))

SenderShown == snd # "failed" => shown["sender"].done = Passed

Within == \A s \in Sides : shown[s].done <= Chunks(Entries) /\ (shown[s].finished => rcv = "done")

\* Only a side that has failed tries again, and the sender is done when it shows so.
Alone ==
    /\ why["sender"] = "line" => snd = "failed"
    /\ why["receiver"] = "line" => rcv = "failed"
    /\ shown["sender"].finished => snd = "done"

Progress == ReceiverShown /\ SenderShown /\ Within /\ Alone

-----------------------------------------------------------------------------
(* What is kept.                                                           *)

\* No name is changed, no source is rewritten and no chunk is lost on the disk.
Intact == policy # "rename" /\ edits = 0 /\ ~torn

Ones(c) == \A j \in DOMAIN c : c[j] = 1

\* Every chunk is that of the sources.
Unchanged ==
    /\ source = [i \in Entries |-> Original] /\ listed = source
    /\ Ones(read) /\ \A i \in Entries : Ones(sent[i])
    /\ \A j \in DOMAIN wire : wire[j].tag # "header" => Ones(wire[j].content)
    /\ \A j \in DOMAIN reply : Ones(reply[j].content)
    /\ \A n \in Names : Ones(part[n].content)

Named == \A i \in DOMAIN plan : /\ plan[i].target = batch[i].path
                                /\ plan[i].action = "skip" => policy = "skip"

\* What was received of an entry is in its part file, or the file is there, or the plan
\* goes on to spare what somebody else put there.
Had(i) ==
    LET k == Key(batch[i].path)
    IN  /\ wrote[i] <= Size
        /\ \/ batch[i].kind # "file"
           \/ wrote[i] = Len(part[k].content)
           \/ disk[k].kind = "file" /\ imohash(disk[k].content) = imohash(Original)
           \/ policy = "skip" /\ disk[k] # Nothing /\ (i \in DOMAIN plan => plan[i].action = "skip")

\* The part file of the entry in progress has what was received of it, and that is what
\* the receiver offers and the sender accepts.
InHand ==
    rcv # "failed" /\ file.action = "payload" =>
        /\ wrote[file.entry] = Len(On(part, Target).content)
        /\ rcv = "answer" => /\ reply # << >> => reply[1].content = On(part, Target).content
                             /\ wire # << >> => wire[1].content = On(part, Target).content

Kept ==
    /\ wrote \in [Entries -> Nat]
    /\ Intact => Unchanged /\ Named /\ InHand /\ \A i \in Entries : Had(i)

-----------------------------------------------------------------------------
(* Streams.                                                                *)

\* Frames that carry chunks, and the header.
LEMMA FrameTypes ==
    /\ \A t \in {"manifest", "answer", "data", "end", "done"}, i \in Nat, c \in Data : Frame(t, i, c) \in Frames
    /\ \A t \in {"resume", "complete", "ack"}, i \in Nat, c \in Data : Frame(t, i, c) \in Replies
    /\ \A i \in Nat, c \in [Sampled -> Nat] : Frame("header", i, c) \in Frames
    /\ \A t, i, c : Frame(t, i, c).tag = t /\ Frame(t, i, c).entry = i /\ Frame(t, i, c).content = c
    /\ \A f \in Frames : f.tag # "header" => f.content \in Data
    /\ \A f \in Frames : f.entry \in Nat
    /\ << >> \in Data /\ Len(<< >>) = 0
  <1>1. << >> \in Data /\ Len(<< >>) = 0
    BY DEF Data
  <1> QED BY <1>1 DEF Frame, Frames, Replies

\* A frame is put on the wire.
LEMMA PutOne ==
    ASSUME NEW f \in Frames, wire \in Seq(Frames), Put(<<f>>)
    PROVE  /\ wire' \in Seq(Frames) /\ Len(wire') = Len(wire) + 1 /\ Len(wire') <= Window
           /\ \A j \in 1..Len(wire) : wire'[j] = wire[j]
           /\ wire'[Len(wire) + 1] = f
           /\ DOMAIN wire = 1..Len(wire) /\ DOMAIN wire' = 1..Len(wire') /\ Len(wire) \in Nat
  BY DEF Put

\* Two frames are put on the empty wire.
LEMMA PutTwo ==
    ASSUME NEW f \in Frames, NEW g \in Frames, wire \in Seq(Frames), Put(<<f, g>>)
    PROVE  /\ wire' \in Seq(Frames) /\ Len(wire') <= Window
           /\ wire = << >> => /\ Len(wire') = 2 /\ wire'[1] = f /\ wire'[2] = g
                              /\ DOMAIN wire' = {1, 2} /\ wire' # << >>
  BY DEF Put

\* The first frame is read.
LEMMA TookOne ==
    ASSUME wire \in Seq(Frames), wire # << >>, Took
    PROVE  /\ wire' \in Seq(Frames) /\ Len(wire') = Len(wire) - 1
           /\ \A j \in 1..Len(wire') : wire'[j] = wire[j + 1]
           /\ Head(wire) = wire[1] /\ wire[1] \in Frames /\ 1 \in DOMAIN wire
           /\ DOMAIN wire = 1..Len(wire) /\ DOMAIN wire' = 1..Len(wire') /\ Len(wire) \in Nat \ {0}
  BY DEF Took

\* Replies: there is at most one.
LEMMA ReplyFacts ==
    ASSUME reply \in Seq(Replies), Len(reply) <= 1
    PROVE  /\ DOMAIN reply = 1..Len(reply) /\ Len(reply) \in Nat /\ (reply = << >> <=> Len(reply) = 0)
           /\ reply # << >> => /\ Head(reply) = reply[1] /\ reply[1] \in Replies /\ Len(reply) = 1
                               /\ Tail(reply) = << >> /\ Head(reply).content \in Data
           /\ reply = << >> => \A r \in Replies : /\ Append(reply, r) \in Seq(Replies) /\ Len(Append(reply, r)) = 1
                                                  /\ Append(reply, r)[1] = r
  <1>1. DOMAIN reply = 1..Len(reply) /\ Len(reply) \in Nat /\ (reply = << >> <=> Len(reply) = 0)
    OBVIOUS
  <1>2. ASSUME reply # << >>
        PROVE  /\ Head(reply) = reply[1] /\ reply[1] \in Replies /\ Len(reply) = 1
               /\ Tail(reply) = << >> /\ Head(reply).content \in Data
    <2>1. Head(reply) = reply[1] /\ reply[1] \in Replies /\ Len(reply) = 1
      BY <1>1, <1>2
    <2>2. Tail(reply) \in Seq(Replies) /\ Len(Tail(reply)) = 0
      BY <1>2, <2>1, HeadTailProperties
    <2>3. Tail(reply) = << >>
      BY <2>2
    <2> QED BY <2>1, <2>3 DEF Replies
  <1>3. ASSUME reply = << >>, NEW r \in Replies
        PROVE  Append(reply, r) \in Seq(Replies) /\ Len(Append(reply, r)) = 1 /\ Append(reply, r)[1] = r
    BY <1>3
  <1> QED BY <1>1, <1>2, <1>3

-----------------------------------------------------------------------------
(* Names and plans.                                                        *)

\* The least of some numbers.
LEMMA Least ==
    ASSUME NEW S \in SUBSET Nat, S # {}
    PROVE  \E n \in S : \A m \in S : n <= m
  <1> DEFINE R == {ss \in Nat \X Nat : ss[1] < ss[2]}
  <1>1. IsWellFoundedOn(R, Nat)
    <2>1. IsWellFoundedOn(OpToRel(<, Nat), Nat)
      BY NatLessThanWellFounded
    <2>2. R = OpToRel(<, Nat)
      BY DEF OpToRel
    <2> QED BY <2>1, <2>2
  <1>2. PICK n \in S : \A m \in S : ~(<<m, n>> \in R)
    <2> HIDE DEF R
    <2> QED BY <1>1, WFMin
  <1>3. \A m \in S : n \in Nat /\ m \in Nat /\ (<<m, n>> \in R <=> m < n)
    OBVIOUS
  <1> HIDE DEF R
  <1>4. \A m \in S : ~(m < n)
    BY <1>2, <1>3, Zenon
  <1>5. \A m \in S : n <= m
    BY <1>3, <1>4
  <1> QED BY <1>5

\* A path and the paths that it is renamed to have a name in the output directory.
LEMMA KeyNames == \A p \in Paths \cup Numbered : Key(p) \in Names
  BY DEF Key, Names

\* unique_conflict_path: the path itself, or another one that nobody uses.
LEMMA UniquePath ==
    ASSUME NEW p \in Paths, NEW taken
    PROVE  \/ unique_conflict_path(p, taken) = p
           \/ /\ unique_conflict_path(p, taken) \in Numbered
              /\ ~Exists(unique_conflict_path(p, taken))
  <1> DEFINE free == {n \in 1..MaxSuffix : LET c == Append(p, n) IN
                         c \notin taken /\ ~Exists(c) /\ On(part, c) = Nothing}
  <1>1. unique_conflict_path(p, taken) =
           IF free = {} THEN p ELSE Append(p, CHOOSE n \in free : \A m \in free : n <= m)
    BY DEF unique_conflict_path
  <1>2. free \in SUBSET Nat
    BY SizeAssumption
  <1>3. \A n \in free : Append(p, n) \in Numbered /\ ~Exists(Append(p, n))
    BY DEF Numbered
  <1> HIDE DEF free
  <1>4. CASE free # {}
    <2>1. (CHOOSE n \in free : \A m \in free : n <= m) \in free
      BY <1>2, <1>4, Least
    <2> QED BY <1>1, <1>3, <1>4, <2>1
  <1>5. CASE free = {}
    BY <1>1, <1>5
  <1> QED BY <1>4, <1>5

\* What the plan says of an entry: one that is not skipped may be written where there is
\* nothing, or a directory for a directory, unless files are overwritten.
LEMMA PlanForFacts ==
    ASSUME Given, NEW e \in [path : Seq(Nat), kind : {"file", "link", "dir"}], e.path \in Paths, NEW taken,
           PlanFor(e, taken).ok
    PROVE  /\ PlanFor(e, taken).target \in Paths \cup Numbered
           /\ PlanFor(e, taken).action \in {"write", "skip", "rename"}
           /\ PlanFor(e, taken).action = "skip" => On(disk, PlanFor(e, taken).target) # Nothing /\ e.kind # "dir"
           /\ PlanFor(e, taken).action # "skip" /\ policy # "overwrite" =>
                 \/ On(disk, PlanFor(e, taken).target) = Nothing
                 \/ e.kind = "dir" /\ On(disk, PlanFor(e, taken).target) = Dir
  <1> DEFINE d == PlanFor(e, taken)
             other == unique_conflict_path(e.path, taken)
  <1>1. CASE e.kind = "dir"
    BY <1>1 DEF PlanFor
  <1>2. CASE e.kind # "dir" /\ ~Exists(e.path)
    BY <1>2 DEF PlanFor, Exists
  <1>3. CASE e.kind # "dir" /\ Exists(e.path) /\ policy = "skip"
    BY <1>3 DEF PlanFor, Exists
  <1>4. CASE e.kind # "dir" /\ Exists(e.path) /\ policy = "rename"
    <2>1. d = [action |-> "rename", target |-> other, ok |-> other # e.path]
      BY <1>4 DEF PlanFor
    <2>2. other # e.path
      BY <1>4 DEF PlanFor
    <2>3. other \in Numbered /\ ~Exists(other)
      BY <2>2, UniquePath
    <2> HIDE DEF other
    <2> QED BY <2>1, <2>3 DEF Exists
  <1>5. CASE e.kind # "dir" /\ Exists(e.path) /\ policy = "overwrite"
    BY <1>5 DEF PlanFor, Exists
  <1> QED BY <1>1, <1>2, <1>3, <1>4, <1>5, PoliciesAssumption DEF Given

-----------------------------------------------------------------------------
(* What a step leaves alone.                                               *)

\* The directory and its plan.
LEMMA DirectoryStays ==
    ASSUME Directory, UNCHANGED <<given, plan, before, disk>>
    PROVE  Directory'
  BY DEF Directory, Plans, Spared, Untouched, On, Key, given

\* The receiver.
LEMMA ReceiverStays ==
    ASSUME ReceiverTypes, Shape, Directory, UNCHANGED <<given, session, disk, part>>
    PROVE  ReceiverTypes' /\ Shape' /\ Directory'
  <1>1. Directory'
    BY DirectoryStays DEF session
  <1>2. ReceiverTypes'
    BY DEF ReceiverTypes, Entries, given, session
  <1>3. Shape'
    BY DEF Shape, Busy, Planned, Target, On, Key, Entries, given, session
  <1> QED BY <1>1, <1>2, <1>3

\* What is sent does not change.
LEMMA GivenStays == Given /\ UNCHANGED given => Given' /\ Entries' = Entries /\ UNCHANGED <<batch, caseless, policy>>
  BY DEF Given, Entries, given

\* The entries are numbered.
LEMMA EntryFacts ==
    Given => /\ Entries = 1..Len(batch) /\ Len(batch) \in Nat \ {0} /\ 1 \in Entries /\ Entries \subseteq Nat
             /\ IsFiniteSet(Entries) /\ \A k : OfKind(k) \subseteq Entries
             /\ Size * Cardinality(OfKind("file")) \in Nat
  <1> SUFFICES ASSUME Given PROVE /\ Entries = 1..Len(batch) /\ Len(batch) \in Nat \ {0} /\ 1 \in Entries /\ Entries \subseteq Nat
                                  /\ IsFiniteSet(Entries) /\ \A k : OfKind(k) \subseteq Entries
                                  /\ Size * Cardinality(OfKind("file")) \in Nat
    OBVIOUS
  <1>1. Entries = 1..Len(batch) /\ Len(batch) \in Nat \ {0} /\ 1 \in Entries /\ Entries \subseteq Nat
    BY DEF Given, Batches, Entries
  <1>2. IsFiniteSet(Entries)
    BY <1>1, FS_Interval
  <1>3. \A k : OfKind(k) \subseteq Entries
    BY DEF OfKind
  <1>4. Cardinality(OfKind("file")) \in Nat
    BY <1>2, <1>3, FS_Subset, FS_CardinalityType
  <1>5. \A m, n \in Nat : m * n \in Nat
    OBVIOUS
  <1> QED BY <1>1, <1>2, <1>3, <1>4, <1>5, SizeAssumption

\* The events that a front end counts.
LEMMA AdvanceTypes ==
    ASSUME RunTypes, NEW s \in Sides, NEW n \in Nat, file_advance(s, n)
    PROVE  shown' \in [Sides -> [done : Nat, finished : BOOLEAN]]
  BY DEF RunTypes, file_advance, Sides

LEMMA CompleteTypes ==
    ASSUME Given, RunTypes, NEW s \in Sides, transfer_complete(s)
    PROVE  shown' \in [Sides -> [done : Nat, finished : BOOLEAN]]
  <1> DEFINE n == Size * Cardinality(OfKind("file"))
  <1>1. n \in Nat
    BY EntryFacts
  <1>2. shown' = [shown EXCEPT ![s].done = n, ![s].finished = TRUE]
    BY DEF transfer_complete
  <1> HIDE DEF n
  <1> QED BY <1>1, <1>2 DEF RunTypes

-----------------------------------------------------------------------------
(* The sender.                                                             *)

\* What holds when only the sender moves.
LEMMA SenderMoves ==
    ASSUME Core, UNCHANGED <<given, session, disk, part>>,
           SenderTypes', WireTypes', RunTypes', Wired', Sending'
    PROVE  Core'
  <1>1. Given' /\ ReceiverTypes' /\ Shape' /\ Directory'
    BY GivenStays, ReceiverStays DEF Core, Typed
  <1> QED BY <1>1 DEF Core, Typed

\* The frames before the one that the sender adds.
LEMMA OldFrames ==
    ASSUME Core, rcv # "failed", UNCHANGED <<given, session, listed>>,
           Len(wire') \in Nat, Len(wire') >= Len(wire), DOMAIN wire' = 1..Len(wire'),
           \A j \in DOMAIN wire : wire'[j] = wire[j] /\ ~Final(wire[j]),
           \A j \in DOMAIN wire : wire[j].tag = "end" =>
              sent' = sent /\ snd' # "payload" /\ \A k \in DOMAIN wire' \ DOMAIN wire : Final(wire'[k])
    PROVE  \A j \in DOMAIN wire : FrameAt(j)'
  <1> SUFFICES ASSUME NEW j \in DOMAIN wire PROVE FrameAt(j)'
    OBVIOUS
  <1>1. FrameAt(j)
    BY DEF Core, Wired
  <1>2. UNCHANGED <<rcv, plan, received, file, batch>> /\ wire'[j] = wire[j]
    BY DEF session, given
  <1>3. DOMAIN wire = 1..Len(wire) /\ Len(wire) \in Nat /\ j \in DOMAIN wire'
    BY DEF Core, Typed, WireTypes
  <1>4. wire[j].tag = "end" => \A k \in DOMAIN wire' : k > j => Final(wire'[k])
    <2> SUFFICES ASSUME wire[j].tag = "end", NEW k \in DOMAIN wire', k > j PROVE Final(wire'[k])
      OBVIOUS
    <2>1. CASE k \in DOMAIN wire
      BY <1>1, <2>1 DEF FrameAt
    <2>2. CASE k \notin DOMAIN wire
      BY <2>2
    <2> QED BY <2>1, <2>2
  <1> QED BY <1>1, <1>2, <1>3, <1>4 DEF FrameAt, Unread, Busy, Final

\* SendManifest.
LEMMA SendManifestKeeps == Core /\ SendManifest => Core'
  <1> SUFFICES ASSUME Core, SendManifest PROVE Core'
    OBVIOUS
  <1> DEFINE f == Frame("manifest", 0, << >>)
  <1>1. /\ snd = "manifest" /\ snd' = "header" /\ at' = 1 /\ Put(<<f>>)
        /\ UNCHANGED <<given, source, read, sent, listed, reply, session, disk, part, shown, why, attempt, reruns, edits>>
    BY DEF SendManifest, output, outcome, counts
  <1>2. Given /\ SenderTypes /\ WireTypes /\ RunTypes /\ Shape /\ Wired /\ Sending
    BY DEF Core, Typed
  <1>3. f \in Frames /\ f.tag = "manifest"
    BY FrameTypes
  <1> HIDE DEF f
  <1>4. /\ wire' \in Seq(Frames) /\ Len(wire') = Len(wire) + 1 /\ Len(wire') <= Window
        /\ wire'[Len(wire) + 1] = f /\ DOMAIN wire' = 1..Len(wire')
    BY <1>1, <1>2, <1>3, PutOne DEF WireTypes
  <1>5. UNCHANGED <<batch, Entries, rcv, plan, received, file>> /\ 1 \in Entries
    BY <1>1, <1>2, GivenStays, EntryFacts DEF session
  <1>6. SenderTypes' /\ WireTypes' /\ RunTypes'
    BY <1>1, <1>2, <1>4, <1>5 DEF SenderTypes, WireTypes, RunTypes
  <1>7. Sending'
    BY <1>1, <1>2, <1>5 DEF Sending
  <1>8. Wired'
    <2> SUFFICES ASSUME rcv # "failed" PROVE (\A j \in DOMAIN wire : FrameAt(j))' /\ Coupled'
      BY <1>5 DEF Wired
    <2>1. wire = << >> /\ Unread /\ reply = << >> /\ received = {}
      BY <1>1, <1>2 DEF Wired, Coupled, Sending
    <2>2. ~Busy /\ ~Planned
      BY <1>2, <2>1 DEF Shape, Unread, Busy, NoFile, Planned, Given
    <2>3. DOMAIN wire' = {1} /\ wire'[1] = f /\ Len(wire') = 1
      BY <1>4, <2>1
    <2>4. FrameAt(1)'
      BY <1>1, <1>3, <1>5, <2>1, <2>2, <2>3 DEF FrameAt, Unread, Busy, Final
    <2>5. Coupled'
      BY <1>1, <1>3, <1>5, <2>1, <2>2, <2>3 DEF Coupled, Unread, Busy, Final, Between
    <2> QED BY <2>3, <2>4, <2>5
  <1> QED BY <1>1, <1>6, <1>7, <1>8, SenderMoves

\* SendHeader.
LEMMA SendHeaderKeeps == Core /\ SendHeader => Core'
  <1> SUFFICES ASSUME Core, SendHeader PROVE Core'
    OBVIOUS
  <1> DEFINE f == Frame("header", at, imohash(listed[at]))
  <1>1. /\ snd = "header" /\ snd' = "resume" /\ Put(<<f>>)
        /\ UNCHANGED <<given, source, at, read, sent, listed, reply, session, disk, part, shown, why, attempt, reruns, edits>>
    BY DEF SendHeader, output, outcome, counts
  <1>2. Given /\ SenderTypes /\ WireTypes /\ RunTypes /\ Shape /\ Wired /\ Sending
    BY DEF Core, Typed
  <1>3. f \in Frames /\ f.tag = "header" /\ f.entry = at /\ f.content = imohash(listed[at])
    <2>1. listed[at] \in Contents /\ at \in Nat
      BY <1>2, EntryFacts DEF SenderTypes
    <2>2. imohash(listed[at]) \in [Sampled -> Nat]
      BY <2>1, SizeAssumption DEF imohash, Contents
    <2> QED BY <2>1, <2>2, FrameTypes
  <1> HIDE DEF f
  <1>4. /\ wire' \in Seq(Frames) /\ Len(wire') = Len(wire) + 1 /\ Len(wire') <= Window
        /\ \A j \in DOMAIN wire : wire'[j] = wire[j]
        /\ wire'[Len(wire) + 1] = f
        /\ DOMAIN wire = 1..Len(wire) /\ DOMAIN wire' = 1..Len(wire') /\ Len(wire) \in Nat
    BY <1>1, <1>2, <1>3, PutOne DEF WireTypes
  <1>5. UNCHANGED <<batch, Entries, rcv, plan, received, file>>
    BY <1>1, <1>2, GivenStays DEF session
  <1>6. SenderTypes' /\ WireTypes' /\ RunTypes'
    BY <1>1, <1>2, <1>4, <1>5 DEF SenderTypes, WireTypes, RunTypes
  <1>7. Sending'
    BY <1>1, <1>2, <1>5 DEF Sending
  <1>8. Wired'
    <2> SUFFICES ASSUME rcv # "failed" PROVE (\A j \in DOMAIN wire : FrameAt(j))' /\ Coupled'
      BY <1>5 DEF Wired
    <2>1. /\ Between /\ received \subseteq 1..(at - 1) /\ sent[at] = << >>
          /\ Unread => wire # << >>
      BY <1>1, <1>2 DEF Wired, Coupled, Sending
    <2>2. rcv = "answer" => Busy
      BY <1>2 DEF Shape
    <2>3. \A j \in DOMAIN wire : FrameAt(j)'
      <3>1. \A k \in DOMAIN wire' \ DOMAIN wire : wire'[k] = f
        BY <1>4
      <3> QED BY <1>1, <1>3, <1>4, <2>1, <3>1, OldFrames DEF Between, Final
    <2>4. ASSUME NEW n \in DOMAIN wire', n \notin DOMAIN wire PROVE FrameAt(n)'
      <3>1. /\ n = Len(wire) + 1 /\ n = Len(wire') /\ wire'[n] = f /\ Final(f)
            /\ Busy => n > 1 /\ wire'[n - 1].tag = "end"
            /\ n = 1 => ~Busy /\ ~Unread
        BY <1>3, <1>4, <2>1, <2>4 DEF Between, Final, Last
      <3>2. f.tag # "manifest" /\ ~(n = 1 /\ Unread) /\ ~(n = 1 /\ rcv = "answer")
        BY <1>3, <2>2, <3>1
      <3> QED BY <1>1, <1>3, <1>5, <2>1, <3>1, <3>2 DEF FrameAt, Unread, Busy, Between, Final
    <2>5. Coupled'
      BY <1>1, <1>3, <1>4, <1>5, <2>1 DEF Coupled, Unread, Between, Last
    <2> QED BY <2>3, <2>4, <2>5
  <1> QED BY <1>1, <1>6, <1>7, <1>8, SenderMoves

\* The next entry, or the end of the batch.
LEMMA NextEntryFacts ==
    ASSUME Given, at \in Entries, NextEntry
    PROVE  /\ at' \in Entries /\ at \in Nat /\ at' >= at
           /\ \/ snd' = "header" /\ at' = at + 1
              \/ snd' = "finish" /\ at' = at /\ at = Len(batch)
  BY EntryFacts DEF NextEntry

\* A reply is only read while the receiver waits for the answer.
LEMMA ReplyMeans ==
    ASSUME Core, snd = "resume", reply # << >>, rcv # "failed"
    PROVE  /\ rcv = "answer" /\ wire = << >> /\ file.entry = at /\ Busy
           /\ file.action = "skip" <=> Head(reply).tag = "complete"
           /\ file.action = "payload" <=> batch[at].kind = "file" /\ Head(reply).tag # "complete"
  <1>1. rcv = "answer" /\ wire = << >> /\ file.entry = at /\ (file.action = "skip" <=> Head(reply).tag = "complete")
    BY DEF Core, Wired, Coupled
  <1>2. Shape /\ Busy
    BY <1>1 DEF Core, Shape
  <1> QED BY <1>1, <1>2 DEF Shape, Busy

\* The answer to a marker or to a file that the receiver has: the entry ends with it.
LEMMA AnswerEnds ==
    ASSUME Core, snd = "resume", reply # << >>, reply' = Tail(reply),
           Put(<<Frame("answer", at, Head(reply).content), Frame("end", at, << >>)>>), NextEntry,
           UNCHANGED <<given, source, listed, read, sent, session, disk, part, why, attempt, reruns, edits>>,
           shown' \in [Sides -> [done : Nat, finished : BOOLEAN]],
           rcv # "failed" => file.action # "payload"
    PROVE  Core'
  <1> DEFINE c == Head(reply).content
             f == Frame("answer", at, c)
             g == Frame("end", at, << >>)
  <1>1. Given /\ SenderTypes /\ WireTypes /\ RunTypes /\ Shape /\ Wired /\ Sending
    BY DEF Core, Typed
  <1>2. c \in Data /\ Len(c) <= Size /\ reply' = << >>
    BY <1>1, ReplyFacts DEF WireTypes
  <1>3. /\ f \in Frames /\ f.tag = "answer" /\ f.entry = at /\ f.content = c
        /\ g \in Frames /\ g.tag = "end" /\ g.entry = at
    <2>1. at \in Nat /\ << >> \in Data
      BY <1>1, EntryFacts, FrameTypes DEF SenderTypes
    <2>2. f \in Frames /\ g \in Frames
      <3> HIDE DEF c
      <3> QED BY <1>2, <2>1, FrameTypes
    <2> QED BY <2>2 DEF Frame
  <1>4. Put(<<f, g>>)
    OBVIOUS
  <1> HIDE DEF f, g, c
  <1>5. /\ wire' \in Seq(Frames) /\ Len(wire') <= Window
        /\ wire = << >> => Len(wire') = 2 /\ wire'[1] = f /\ wire'[2] = g /\ DOMAIN wire' = {1, 2} /\ wire' # << >>
    BY <1>1, <1>3, <1>4, PutTwo DEF WireTypes
  <1>6. UNCHANGED <<batch, Entries, rcv, plan, received, file>>
    BY <1>1, GivenStays DEF session
  <1>7. /\ at' \in Entries /\ at \in Nat /\ at' >= at
        /\ \/ snd' = "header" /\ at' = at + 1
           \/ snd' = "finish" /\ at' = at /\ at = Len(batch)
    BY <1>1, NextEntryFacts DEF SenderTypes
  <1>8. SenderTypes' /\ WireTypes' /\ RunTypes'
    <2>1. SenderTypes'
      BY <1>1, <1>6, <1>7 DEF SenderTypes
    <2>2. WireTypes'
      BY <1>1, <1>2, <1>5 DEF WireTypes
    <2>3. RunTypes'
      BY <1>1 DEF RunTypes
    <2> QED BY <2>1, <2>2, <2>3
  <1>9. Sending'
    <2>1. received \subseteq 1..at /\ 1..at \subseteq 1..at'
      BY <1>1, <1>7 DEF Sending
    <2>2. \A i \in Entries : i > at' => i > at
      BY <1>1, <1>7, EntryFacts
    <2> QED BY <1>1, <1>2, <1>6, <1>7, <2>1, <2>2, EntryFacts DEF Sending
  <1>10. Wired'
    <2> SUFFICES ASSUME rcv # "failed" PROVE (\A j \in DOMAIN wire : FrameAt(j))' /\ Coupled'
      BY <1>6 DEF Wired
    <2>1. rcv = "answer" /\ wire = << >> /\ file.entry = at /\ Busy
      BY ReplyMeans
    <2>2. FrameAt(1)'
      BY <1>2, <1>3, <1>5, <1>6, <2>1 DEF FrameAt, Unread, Busy, Final
    <2>3. FrameAt(2)'
      BY <1>3, <1>5, <1>6, <1>7, <2>1 DEF FrameAt, Unread, Busy, Final
    <2>4. received \subseteq 1..at
      BY <1>1 DEF Sending
    <2>5. Between'
      <3>1. wire' # << >> /\ wire'[Len(wire')] = g /\ \A j \in DOMAIN wire' : wire'[j] \in {f, g}
        BY <1>5, <2>1, Zenon
      <3> QED BY <1>2, <1>3, <3>1 DEF Between, Last, Final
    <2>6. snd' = "header" => received' \subseteq 1..(at' - 1)
      BY <1>6, <1>7, <2>4
    <2>7. Coupled'
      BY <1>6, <1>7, <2>1, <2>5, <2>6 DEF Coupled, Unread
    <2> QED BY <1>5, <2>1, <2>2, <2>3, <2>7
  <1> QED BY <1>8, <1>9, <1>10, SenderMoves

\* Answer.
LEMMA AnswerKeeps == Core /\ Answer => Core'
  <1> SUFFICES ASSUME Core, Answer PROVE Core'
    OBVIOUS
  <1> DEFINE r == Head(reply)
  <1>1. Given /\ SenderTypes /\ WireTypes /\ RunTypes /\ Shape /\ Wired /\ Sending
    BY DEF Core, Typed
  <1>2. /\ snd = "resume" /\ reply # << >> /\ reply' = Tail(reply)
        /\ UNCHANGED <<given, source, listed, session, disk, part, why, attempt, reruns, edits>>
        /\ AnswerMarker(r) \/ AnswerComplete(r) \/ AnswerResume(r)
    BY DEF Answer, output, counts
  <1>3. r.content \in Data /\ Len(r.content) <= Size /\ reply' = << >> /\ Len(r.content) \in Nat
    <2>1. r.content \in Data /\ Len(r.content) <= Size /\ reply' = << >>
      BY <1>1, <1>2, ReplyFacts DEF WireTypes
    <2> QED BY <2>1 DEF Data
  <1>4. "sender" \in Sides
    BY DEF Sides
  <1>5. CASE AnswerMarker(r)
    <2>1. UNCHANGED <<read, sent, shown>> /\ NextEntry
          /\ Put(<<Frame("answer", at, Head(reply).content), Frame("end", at, << >>)>>) /\ batch[at].kind # "file"
      BY <1>5 DEF AnswerMarker
    <2>2. shown' \in [Sides -> [done : Nat, finished : BOOLEAN]]
      BY <1>1, <2>1 DEF RunTypes
    <2>3. rcv # "failed" => file.action # "payload"
      BY <1>2, <2>1, ReplyMeans
    <2> QED BY <1>2, <2>1, <2>2, <2>3, AnswerEnds
  <1>6. CASE AnswerComplete(r)
    <2>1. UNCHANGED <<read, sent>> /\ NextEntry /\ file_advance("sender", Size)
          /\ Put(<<Frame("answer", at, Head(reply).content), Frame("end", at, << >>)>>) /\ r.tag = "complete"
      BY <1>6 DEF AnswerComplete
    <2>2. shown' \in [Sides -> [done : Nat, finished : BOOLEAN]]
      BY <1>1, <1>4, <2>1, AdvanceTypes, SizeAssumption
    <2>3. rcv # "failed" => file.action # "payload"
      BY <1>2, <2>1, ReplyMeans
    <2> QED BY <1>2, <2>1, <2>2, <2>3, AnswerEnds
  <1>7. CASE AnswerResume(r)
    <2> DEFINE accepted == IF PrefixMatches(r) THEN r.content ELSE << >>
               f == Frame("answer", at, accepted)
    <2>1. /\ batch[at].kind = "file" /\ r.tag = "resume" /\ Put(<<f>>) /\ file_advance("sender", Len(accepted))
          /\ read' = SubSeq(source[at], 1, Len(accepted)) /\ snd' = "payload" /\ UNCHANGED <<at, sent>>
      BY <1>7 DEF AnswerResume
    <2>2. accepted \in Data /\ Len(accepted) \in Nat /\ Len(accepted) <= Size
      BY <1>3, FrameTypes, SizeAssumption
    <2>3. f \in Frames /\ f.tag = "answer" /\ f.entry = at /\ f.content = accepted
      <3>1. at \in Nat
        BY <1>1, EntryFacts DEF SenderTypes
      <3> HIDE DEF accepted
      <3> QED BY <2>2, <3>1, FrameTypes
    <2>4. read' \in Data /\ Len(read') = Len(accepted)
      <3>1. source[at] \in Contents
        BY <1>1 DEF SenderTypes
      <3>2. \A i \in 1..Len(accepted) : source[at][i] \in Nat
        BY <2>2, <3>1, SizeAssumption DEF Contents
      <3> HIDE DEF accepted
      <3> QED BY <2>1, <2>2, <3>2, SubSeqProperties DEF Data
    <2> HIDE DEF accepted, f
    <2>5. /\ wire' \in Seq(Frames) /\ Len(wire') = Len(wire) + 1 /\ Len(wire') <= Window
          /\ wire'[Len(wire) + 1] = f /\ DOMAIN wire' = 1..Len(wire')
      BY <1>1, <2>1, <2>3, PutOne DEF WireTypes
    <2>6. UNCHANGED <<batch, Entries, rcv, plan, received, file>>
      BY <1>1, <1>2, GivenStays DEF session
    <2>7. RunTypes'
      BY <1>1, <1>2, <1>4, <2>1, <2>2, AdvanceTypes DEF RunTypes
    <2>8. SenderTypes' /\ WireTypes'
      BY <1>1, <1>2, <1>3, <2>1, <2>2, <2>4, <2>5, <2>6 DEF SenderTypes, WireTypes
    <2>9. Sending'
      BY <1>1, <1>2, <1>3, <2>1, <2>6 DEF Sending
    <2>10. Wired'
      <3> SUFFICES ASSUME rcv # "failed" PROVE (\A j \in DOMAIN wire : FrameAt(j))' /\ Coupled'
        BY <2>6 DEF Wired
      <3>1. rcv = "answer" /\ wire = << >> /\ file.entry = at /\ Busy /\ file.action = "payload"
        BY <1>2, <2>1, ReplyMeans
      <3>2. DOMAIN wire' = {1} /\ wire'[1] = f /\ Len(wire') = 1
        BY <2>5, <3>1
      <3>3. FrameAt(1)'
        BY <2>1, <2>2, <2>3, <2>6, <3>1, <3>2 DEF FrameAt, Unread, Busy, Final
      <3>4. Coupled'
        BY <1>3, <2>1, <2>3, <2>6, <3>1, <3>2 DEF Coupled, Unread, Final
      <3> QED BY <3>2, <3>3, <3>4
    <2> QED BY <1>2, <2>7, <2>8, <2>9, <2>10, SenderMoves
  <1> QED BY <1>2, <1>5, <1>6, <1>7

\* SendData.
LEMMA SendDataKeeps == Core /\ SendData => Core'
  <1> SUFFICES ASSUME Core, SendData PROVE Core'
    OBVIOUS
  <1> DEFINE c == source[at][Len(read) + 1]
             f == Frame("data", at, <<c>>)
  <1>1. /\ snd = "payload" /\ Len(read) < Size /\ Put(<<f>>) /\ read' = Append(read, c) /\ file_advance("sender", 1)
        /\ UNCHANGED <<given, source, snd, at, sent, listed, reply, session, disk, part, why, attempt, reruns, edits>>
    BY DEF SendData, output, counts
  <1>2. Given /\ SenderTypes /\ WireTypes /\ RunTypes /\ Shape /\ Wired /\ Sending
    BY DEF Core, Typed
  <1>3. c \in Nat /\ Len(read) \in Nat
    <2>1. source[at] \in Contents /\ Len(read) \in Nat
      BY <1>2 DEF SenderTypes, Data
    <2> QED BY <1>1, <2>1, SizeAssumption DEF Contents
  <1>4. <<c>> \in Data /\ Len(<<c>>) = 1 /\ read' \in Data /\ Len(read') = Len(read) + 1
    <2> HIDE DEF c, f
    <2>1. <<c>> \in Data /\ Len(<<c>>) = 1
      BY <1>3 DEF Data
    <2>2. read' = Append(read, c) /\ read \in Data
      BY <1>1, <1>2 DEF SenderTypes
    <2>3. read' \in Data /\ Len(read') = Len(read) + 1
      BY <1>3, <2>2 DEF Data
    <2> QED BY <2>1, <2>3
  <1>5. f \in Frames /\ f.tag = "data" /\ f.entry = at /\ Len(f.content) = 1
    BY <1>2, <1>4, FrameTypes, EntryFacts DEF SenderTypes
  <1> HIDE DEF f, c
  <1>6. /\ wire' \in Seq(Frames) /\ Len(wire') = Len(wire) + 1 /\ Len(wire') <= Window
        /\ \A j \in DOMAIN wire : wire'[j] = wire[j]
        /\ wire'[Len(wire) + 1] = f
        /\ DOMAIN wire = 1..Len(wire) /\ DOMAIN wire' = 1..Len(wire') /\ Len(wire) \in Nat
    BY <1>1, <1>2, <1>5, PutOne DEF WireTypes
  <1>7. UNCHANGED <<batch, Entries, rcv, plan, received, file>>
    BY <1>1, <1>2, GivenStays DEF session
  <1>8. RunTypes'
    BY <1>1, <1>2, AdvanceTypes DEF RunTypes, Sides
  <1>9. SenderTypes' /\ WireTypes'
    BY <1>1, <1>2, <1>3, <1>4, <1>6, <1>7, SizeAssumption DEF SenderTypes, WireTypes
  <1>10. Sending'
    BY <1>1, <1>2, <1>7 DEF Sending
  <1>11. Wired'
    <2> SUFFICES ASSUME rcv # "failed" PROVE (\A j \in DOMAIN wire : FrameAt(j))' /\ Coupled'
      BY <1>7 DEF Wired
    <2>1. /\ file.entry = at /\ file.action = "payload" /\ reply = << >> /\ (rcv = "answer" => wire # << >>)
          /\ \A j \in DOMAIN wire : ~Final(wire[j]) /\ wire[j].tag # "end"
      BY <1>1, <1>2 DEF Wired, Coupled, FrameAt
    <2>2. Busy /\ ~Unread
      <3>1. Planned /\ batch # << >> /\ Len(batch) # 0
        BY <1>2, <2>1, EntryFacts DEF Shape, NoFile, Given
      <3> QED BY <2>1, <3>1 DEF Busy, Unread, Planned
    <2>3. \A j \in DOMAIN wire : FrameAt(j)'
      BY <1>1, <1>6, <2>1, OldFrames
    <2>4. ASSUME NEW n \in DOMAIN wire', n \notin DOMAIN wire PROVE FrameAt(n)'
      <3>1. n = Len(wire) + 1 /\ n = Len(wire') /\ wire'[n] = f /\ (n = 1 => rcv # "answer")
        BY <1>6, <2>1, <2>4
      <3> QED BY <1>1, <1>5, <1>7, <2>1, <2>2, <3>1 DEF FrameAt, Unread, Busy, Final
    <2>5. Coupled'
      <3>1. \A j \in DOMAIN wire' : ~Final(wire'[j])
        <4>1. \A j \in DOMAIN wire' : j \in DOMAIN wire \/ j = Len(wire) + 1
          BY <1>6
        <4> QED BY <1>5, <1>6, <2>1, <4>1 DEF Final
      <3>2. wire' # << >>
        BY <1>6
      <3> QED BY <1>1, <1>7, <2>1, <2>2, <3>1, <3>2 DEF Coupled, Unread
    <2> QED BY <2>3, <2>4, <2>5
  <1> QED BY <1>1, <1>8, <1>9, <1>10, <1>11, SenderMoves

\* SendEnd.
LEMMA SendEndKeeps == Core /\ SendEnd => Core'
  <1> SUFFICES ASSUME Core, SendEnd PROVE Core'
    OBVIOUS
  <1> DEFINE f == Frame("end", at, read)
  <1>1. /\ snd = "payload" /\ Len(read) = Size /\ Put(<<f>>) /\ sent' = [sent EXCEPT ![at] = read] /\ NextEntry
        /\ UNCHANGED <<given, source, read, listed, reply, session, disk, part, shown, why, attempt, reruns, edits>>
    BY DEF SendEnd, output, outcome, counts
  <1>2. Given /\ SenderTypes /\ WireTypes /\ RunTypes /\ Shape /\ Wired /\ Sending
    BY DEF Core, Typed
  <1>3. f \in Frames /\ f.tag = "end" /\ f.entry = at /\ f.content = read
    BY <1>2, FrameTypes, EntryFacts DEF SenderTypes
  <1> HIDE DEF f
  <1>4. /\ wire' \in Seq(Frames) /\ Len(wire') = Len(wire) + 1 /\ Len(wire') <= Window
        /\ \A j \in DOMAIN wire : wire'[j] = wire[j]
        /\ wire'[Len(wire) + 1] = f
        /\ DOMAIN wire = 1..Len(wire) /\ DOMAIN wire' = 1..Len(wire') /\ Len(wire) \in Nat
    BY <1>1, <1>2, <1>3, PutOne DEF WireTypes
  <1>5. UNCHANGED <<batch, Entries, rcv, plan, received, file>>
    BY <1>1, <1>2, GivenStays DEF session
  <1>6. /\ at' \in Entries /\ at \in Nat /\ at' >= at /\ at \in Entries
        /\ \/ snd' = "header" /\ at' = at + 1
           \/ snd' = "finish" /\ at' = at /\ at = Len(batch)
    BY <1>1, <1>2, NextEntryFacts DEF SenderTypes
  <1>7. SenderTypes' /\ WireTypes' /\ RunTypes'
    BY <1>1, <1>2, <1>4, <1>5, <1>6 DEF SenderTypes, WireTypes, RunTypes
  <1>8. Sending'
    <2>1. received \subseteq 1..at /\ 1..at \subseteq 1..at'
      BY <1>2, <1>6 DEF Sending
    <2>2. \A i \in Entries : i > at' => i > at /\ sent'[i] = sent[i]
      BY <1>1, <1>2, <1>6, EntryFacts DEF SenderTypes
    <2>3. snd' = "header" => sent'[at'] = << >>
      BY <1>1, <1>2, <1>6 DEF SenderTypes, Sending
    <2>4. reply = << >>
      BY <1>1, <1>2 DEF Sending
    <2> QED BY <1>1, <1>2, <1>5, <1>6, <2>1, <2>2, <2>3, <2>4 DEF Sending
  <1>9. Wired'
    <2> SUFFICES ASSUME rcv # "failed" PROVE (\A j \in DOMAIN wire : FrameAt(j))' /\ Coupled'
      BY <1>5 DEF Wired
    <2>1. /\ file.entry = at /\ file.action = "payload" /\ reply = << >> /\ (rcv = "answer" => wire # << >>)
          /\ \A j \in DOMAIN wire : ~Final(wire[j]) /\ wire[j].tag # "end"
      BY <1>1, <1>2 DEF Wired, Coupled, FrameAt
    <2>2. Busy /\ ~Unread
      <3>1. Planned /\ batch # << >> /\ Len(batch) # 0
        BY <1>2, <2>1, EntryFacts DEF Shape, NoFile, Given
      <3> QED BY <2>1, <3>1 DEF Busy, Unread, Planned
    <2>3. \A j \in DOMAIN wire : FrameAt(j)'
      BY <1>1, <1>4, <2>1, OldFrames
    <2>4. ASSUME NEW n \in DOMAIN wire', n \notin DOMAIN wire PROVE FrameAt(n)'
      <3>1. /\ n = Len(wire) + 1 /\ n = Len(wire') /\ wire'[n] = f /\ (n = 1 => rcv # "answer")
            /\ \A k \in DOMAIN wire' : ~(k > n)
        BY <1>4, <2>1, <2>4
      <3>2. sent'[at] = read
        BY <1>1, <1>2, <1>6 DEF SenderTypes
      <3>3. snd' # "payload"
        BY <1>6
      <3> QED BY <1>1, <1>3, <1>5, <2>1, <2>2, <3>1, <3>2, <3>3 DEF FrameAt, Unread, Busy, Final
    <2>5. Between'
      <3>1. \A j \in DOMAIN wire' : j \in DOMAIN wire \/ j = Len(wire) + 1
        BY <1>4
      <3>2. wire' # << >> /\ wire'[Len(wire')] = f
        BY <1>4
      <3> QED BY <1>1, <1>3, <1>4, <2>1, <3>1, <3>2 DEF Between, Last, Final
    <2>6. snd' = "header" => received' \subseteq 1..(at' - 1)
      BY <1>2, <1>5, <1>6 DEF Sending
    <2>7. Coupled'
      BY <1>5, <1>6, <2>2, <2>5, <2>6 DEF Coupled, Unread
    <2> QED BY <2>3, <2>4, <2>7
  <1> QED BY <1>1, <1>7, <1>8, <1>9, SenderMoves

\* SendDone.
LEMMA SendDoneKeeps == Core /\ SendDone => Core'
  <1> SUFFICES ASSUME Core, SendDone PROVE Core'
    OBVIOUS
  <1> DEFINE f == Frame("done", 0, << >>)
  <1>1. /\ snd = "finish" /\ snd' = "ack" /\ Put(<<f>>)
        /\ UNCHANGED <<given, source, at, read, sent, listed, reply, session, disk, part, shown, why, attempt, reruns, edits>>
    BY DEF SendDone, output, outcome, counts
  <1>2. Given /\ SenderTypes /\ WireTypes /\ RunTypes /\ Shape /\ Wired /\ Sending
    BY DEF Core, Typed
  <1>3. f \in Frames /\ f.tag = "done"
    BY FrameTypes
  <1> HIDE DEF f
  <1>4. /\ wire' \in Seq(Frames) /\ Len(wire') = Len(wire) + 1 /\ Len(wire') <= Window
        /\ \A j \in DOMAIN wire : wire'[j] = wire[j]
        /\ wire'[Len(wire) + 1] = f
        /\ DOMAIN wire = 1..Len(wire) /\ DOMAIN wire' = 1..Len(wire') /\ Len(wire) \in Nat
    BY <1>1, <1>2, <1>3, PutOne DEF WireTypes
  <1>5. UNCHANGED <<batch, Entries, rcv, plan, received, file>>
    BY <1>1, <1>2, GivenStays DEF session
  <1>6. SenderTypes' /\ WireTypes' /\ RunTypes'
    BY <1>1, <1>2, <1>4, <1>5 DEF SenderTypes, WireTypes, RunTypes
  <1>7. Sending'
    BY <1>1, <1>2, <1>5 DEF Sending
  <1>8. Wired'
    <2> SUFFICES ASSUME rcv # "failed" PROVE (\A j \in DOMAIN wire : FrameAt(j))' /\ Coupled'
      BY <1>5 DEF Wired
    <2>1. Between /\ (Unread => wire # << >>)
      BY <1>1, <1>2 DEF Wired, Coupled
    <2>2. rcv = "answer" => Busy
      BY <1>2 DEF Shape
    <2>3. \A j \in DOMAIN wire : FrameAt(j)'
      <3>1. \A k \in DOMAIN wire' \ DOMAIN wire : wire'[k] = f
        BY <1>4
      <3> QED BY <1>1, <1>3, <1>4, <2>1, <3>1, OldFrames DEF Between, Final
    <2>4. ASSUME NEW n \in DOMAIN wire', n \notin DOMAIN wire PROVE FrameAt(n)'
      <3>1. /\ n = Len(wire) + 1 /\ n = Len(wire') /\ wire'[n] = f /\ Final(f)
            /\ Busy => n > 1 /\ wire'[n - 1].tag = "end"
            /\ n = 1 => ~Busy /\ ~Unread
        BY <1>3, <1>4, <2>1, <2>4 DEF Between, Final, Last
      <3>2. f.tag # "manifest" /\ ~(n = 1 /\ Unread) /\ ~(n = 1 /\ rcv = "answer")
        BY <1>3, <2>2, <3>1
      <3> QED BY <1>1, <1>3, <1>5, <2>1, <3>1, <3>2 DEF FrameAt, Unread, Busy, Between, Final
    <2>5. Coupled'
      BY <1>1, <1>3, <1>4, <1>5, <2>1 DEF Coupled, Unread, Between, Last
    <2> QED BY <2>3, <2>4, <2>5
  <1> QED BY <1>1, <1>6, <1>7, <1>8, SenderMoves

\* ReadAck: the receiver is done.
LEMMA ReadAckKeeps == Core /\ ReadAck => Core'
  <1> SUFFICES ASSUME Core, ReadAck PROVE Core'
    OBVIOUS
  <1>1. /\ snd = "ack" /\ reply # << >> /\ snd' = "done" /\ reply' = Tail(reply) /\ transfer_complete("sender")
        /\ UNCHANGED <<given, source, at, read, sent, listed, wire, session, disk, part, why, attempt, reruns, edits>>
    BY DEF ReadAck, output, counts
  <1>2. Given /\ SenderTypes /\ WireTypes /\ RunTypes /\ Wired /\ Sending
    BY DEF Core, Typed
  <1>3. reply' = << >> /\ << >> \in Seq(Replies)
    BY <1>1, <1>2, ReplyFacts DEF WireTypes
  <1>4. UNCHANGED <<batch, Entries, rcv, plan, received, file>>
    BY <1>1, <1>2, GivenStays DEF session
  <1>5. RunTypes'
    BY <1>1, <1>2, CompleteTypes DEF RunTypes, Sides
  <1>6. SenderTypes' /\ WireTypes'
    BY <1>1, <1>2, <1>3, <1>4 DEF SenderTypes, WireTypes
  <1>7. rcv = "done" /\ Sending'
    BY <1>1, <1>2, <1>3, <1>4 DEF Sending
  <1>8. Wired'
    <2>1. wire = << >>
      BY <1>1, <1>2, <1>7 DEF Wired, Coupled
    <2> QED BY <1>1, <1>4, <1>7, <2>1 DEF Wired, Coupled, Unread
  <1> QED BY <1>1, <1>5, <1>6, <1>7, <1>8, SenderMoves

\* The sender fails.
LEMMA SenderFails ==
    ASSUME Core, snd # "done", snd' = "failed", \E w \in {"line", "refused"} : Throws("sender", w),
           UNCHANGED <<given, source, at, read, sent, listed, wire, reply, session, disk, part, shown, attempt, reruns, edits>>
    PROVE  Core'
  <1>1. Given /\ SenderTypes /\ WireTypes /\ RunTypes /\ Wired /\ Sending
    BY DEF Core, Typed
  <1>2. UNCHANGED <<batch, Entries, rcv, plan, received, file>>
    BY <1>1, GivenStays DEF session
  <1>3. SenderTypes' /\ WireTypes' /\ RunTypes'
    BY <1>1, <1>2 DEF SenderTypes, WireTypes, RunTypes, Throws
  <1>4. Sending'
    BY <1>1, <1>2 DEF Sending
  <1>5. Wired'
    <2> SUFFICES ASSUME rcv # "failed" PROVE (\A j \in DOMAIN wire : FrameAt(j))' /\ Coupled'
      BY <1>2 DEF Wired
    <2>1. ASSUME NEW j \in DOMAIN wire PROVE FrameAt(j)'
      BY <1>1, <1>2 DEF Wired, FrameAt, Unread, Busy, Final
    <2>2. Coupled'
      BY <1>1, <1>2 DEF Wired, Coupled, Unread
    <2> QED BY <2>1, <2>2
  <1> QED BY <1>3, <1>4, <1>5, SenderMoves

LEMMA SenderFailures == Core /\ (AnswerThrows \/ SenderLosesLine \/ SenderStops) => Core'
  BY SenderFails DEF AnswerThrows, SenderLosesLine, SenderStops, Ended, output, counts, outcome

-----------------------------------------------------------------------------
(* The receiver.                                                           *)

\* What holds when only the receiver moves.
LEMMA ReceiverMoves ==
    ASSUME Core, UNCHANGED <<given, source, sending>>,
           ReceiverTypes', WireTypes', RunTypes', Directory', Shape', Wired', Sending'
    PROVE  Core'
  <1>1. Given' /\ Entries' = Entries
    BY GivenStays DEF Core, Typed
  <1>2. SenderTypes'
    BY <1>1 DEF Core, Typed, SenderTypes, sending
  <1> QED BY <1>1, <1>2 DEF Core, Typed

\* The wire after its first frame, and its types.
LEMMA TookTypes ==
    ASSUME Core, wire # << >>, Took
    PROVE  wire' \in Seq(Frames) /\ Len(wire') <= Window
  <1>1. wire \in Seq(Frames) /\ Len(wire) <= Window
    BY DEF Core, Typed, WireTypes
  <1> QED BY <1>1, TookOne, BoundsAssumption

\* The receiver reads a frame that ends nothing.
LEMMA TookKeepsWired ==
    ASSUME Core, rcv # "failed", wire # << >>, Took, wire[1].tag \in {"manifest", "answer", "data"},
           UNCHANGED <<given, sending, reply, plan, received, file>>,
           rcv' \in {"frame", "plan"}, ~Unread'
    PROVE  Wired'
  <1>1. /\ \A j \in DOMAIN wire : FrameAt(j)
        /\ Coupled
    BY DEF Core, Wired
  <1>2. UNCHANGED <<batch, Entries, snd, at, listed, sent, reply, plan, received, file>>
    BY GivenStays DEF Core, Typed, sending
  <1>3. /\ Len(wire') = Len(wire) - 1 /\ \A j \in 1..Len(wire') : wire'[j] = wire[j + 1]
        /\ DOMAIN wire = 1..Len(wire) /\ DOMAIN wire' = 1..Len(wire') /\ Len(wire) \in Nat \ {0}
    BY TookOne DEF Core, Typed, WireTypes
  <1>4. ASSUME NEW j \in DOMAIN wire' PROVE FrameAt(j)'
    <2>1. /\ j \in Nat /\ j + 1 \in DOMAIN wire /\ j + 1 # 1 /\ wire'[j] = wire[j + 1] /\ (j + 1) - 1 = j
          /\ j + 1 = Len(wire) <=> j = Len(wire')
      BY <1>3
    <2>2. FrameAt(j + 1)
      BY <1>1, <2>1
    <2>3. j > 1 => wire'[j - 1] = wire[j]
      BY <1>3
    <2>4. wire[j + 1].tag = "end" => \A k \in DOMAIN wire' : k > j => Final(wire'[k])
      <3>1. \A k \in DOMAIN wire' : k > j => k + 1 \in DOMAIN wire /\ k + 1 > j + 1 /\ wire'[k] = wire[k + 1]
        BY <1>3, <2>1
      <3> QED BY <2>2, <3>1 DEF FrameAt
    <2>5. Final(wire[j + 1]) /\ Busy => j > 1 /\ wire[j].tag = "end"
      <3>1. Final(wire[j + 1]) /\ Busy => wire[j].tag = "end"
        BY <2>1, <2>2 DEF FrameAt
      <3>2. j = 1 => wire[j].tag # "end"
        OBVIOUS
      <3> QED BY <2>1, <3>1, <3>2
    <2> QED BY <1>2, <2>1, <2>2, <2>3, <2>4, <2>5 DEF FrameAt, Busy, Final
  <1>5. ASSUME NEW t \in {"end", "header", "done"}, Last.tag = t
        PROVE  wire' # << >> /\ Last'.tag = t
    <2>1. Len(wire) # 1
      BY <1>5 DEF Last
    <2>2. wire' # << >> /\ wire'[Len(wire')] = wire[Len(wire)]
      BY <1>3, <2>1
    <2> QED BY <1>5, <2>2 DEF Last
  <1>6. (\A j \in DOMAIN wire : ~Final(wire[j])) => \A j \in DOMAIN wire' : ~Final(wire'[j])
    <2>1. \A j \in DOMAIN wire' : j + 1 \in DOMAIN wire /\ wire'[j] = wire[j + 1]
      BY <1>3
    <2> QED BY <2>1 DEF Final
  <1>7. Between => Between'
    BY <1>2, <1>5, <1>6 DEF Between, Busy
  <1>8. Coupled'
    BY <1>1, <1>2, <1>5, <1>6, <1>7 DEF Coupled
  <1> QED BY <1>4, <1>8 DEF Wired

\* ReadManifest.
LEMMA ReadManifestKeeps == Core /\ ReadManifest => Core'
  <1> SUFFICES ASSUME Core, ReadManifest PROVE Core'
    OBVIOUS
  <1>1. /\ rcv = "frame" /\ wire # << >> /\ Head(wire).tag = "manifest" /\ Took /\ rcv' = "plan" /\ before' = disk
        /\ UNCHANGED <<given, source, sending, snd, at, sent, reply, plan, received, file, disk, part, shown, why, attempt, reruns, edits>>
    BY DEF ReadManifest, Next_, output, outcome, counts, sending
  <1>2. Given /\ ReceiverTypes /\ WireTypes /\ RunTypes /\ Directory /\ Shape /\ Wired /\ Sending
    BY DEF Core, Typed
  <1>3. Head(wire) = wire[1] /\ 1 \in DOMAIN wire
    BY <1>1, <1>2, TookOne DEF WireTypes
  <1>4. plan = << >> /\ ~Planned
    <2>1. Unread
      BY <1>1, <1>2, <1>3 DEF Wired, FrameAt
    <2> QED BY <1>2, <2>1, EntryFacts DEF Unread, Planned
  <1>5. UNCHANGED <<batch, Entries, caseless, policy>>
    BY <1>1, <1>2, GivenStays
  <1>6. wire' \in Seq(Frames) /\ Len(wire') <= Window
    BY <1>1, TookTypes
  <1>7. ReceiverTypes' /\ WireTypes' /\ RunTypes'
    BY <1>1, <1>2, <1>5, <1>6 DEF ReceiverTypes, WireTypes, RunTypes
  <1>8. Directory'
    <2>1. Plans'
      BY <1>1, <1>2, <1>5 DEF Directory, Plans, On, Key
    <2>2. Spared' /\ Untouched'
      BY <1>1, <1>4, <1>5 DEF Spared, Untouched
    <2> QED BY <2>1, <2>2 DEF Directory
  <1>9. Shape'
    BY <1>1, <1>2, <1>4, <1>5 DEF Shape, Busy, Planned, NoFile
  <1>10. Wired'
    BY <1>1, <1>3, TookKeepsWired DEF Unread
  <1>11. Sending'
    BY <1>1, <1>2, <1>5 DEF Sending
  <1> QED BY <1>1, <1>7, <1>8, <1>9, <1>10, <1>11, ReceiverMoves

\* What the batch and the plan say of an entry.
LEMMA BatchTypes ==
    ASSUME Given, NEW i \in Entries
    PROVE  batch[i] \in [path : Seq(Nat), kind : {"file", "link", "dir"}] /\ batch[i].path \in Paths
  BY EntryFacts, ElementOfSeq DEF Given, Batches

LEMMA PlanTypes ==
    ASSUME Plans, Given, NEW i \in DOMAIN plan
    PROVE  /\ plan[i] \in [target : Paths \cup Numbered, action : {"write", "skip", "rename"}]
           /\ plan[i].target \in Paths \cup Numbered /\ plan[i].action \in {"write", "skip", "rename"}
           /\ Key(plan[i].target) \in Names /\ i \in Entries
  <1> DEFINE T == [target : Paths \cup Numbered, action : {"write", "skip", "rename"}]
  <1>1. plan[i] \in T
    <2>1. plan \in Seq(T)
      BY DEF Plans
    <2> HIDE DEF T
    <2>2. i \in 1..Len(plan)
      BY <2>1
    <2> QED BY <2>1, <2>2, ElementOfSeq
  <1>2. DOMAIN plan = 1..Len(plan) /\ Len(plan) \in Nat /\ Len(plan) <= Len(batch)
    BY DEF Plans
  <1>3. i \in Entries
    BY <1>2, EntryFacts
  <1> QED BY <1>1, <1>3, KeyNames

\* The targets reserved so far.
LEMMA TakenFacts ==
    \A t : t \in Taken <=> \E k \in DOMAIN plan : plan[k].action # "skip" /\ plan[k].target = t
  BY DEF Taken

\* A target that does not collide has a name of its own.
LEMMA NoCollision ==
    ASSUME Given, NEW p \in Paths \cup Numbered, NEW q \in Taken, q \in Paths \cup Numbered,
           ~plan_collision_error(p, Taken)
    PROVE  Key(p) # Key(q)
  BY DEF plan_collision_error, Key, Given

\* PlanEntry.
LEMMA PlanEntryKeeps == Core /\ PlanEntry => Core'
  <1> SUFFICES ASSUME Core, PlanEntry PROVE Core'
    OBVIOUS
  <1> DEFINE n == Len(plan) + 1
             e == batch[n]
             d == PlanFor(e, Taken)
             t == [target |-> d.target, action |-> d.action]
  <1>1. /\ rcv = "plan" /\ d.ok /\ (d.action # "skip" => ~plan_collision_error(d.target, Taken))
        /\ plan' = Append(plan, t) /\ rcv' = IF Len(plan') = Len(batch) THEN "frame" ELSE "plan"
        /\ UNCHANGED <<given, source, sending, snd, at, listed, sent, wire, reply, received, file, before, disk, part,
                       shown, why, attempt, reruns, edits>>
    BY DEF PlanEntry, output, outcome, counts, sending, network
  <1>2. Given /\ ReceiverTypes /\ WireTypes /\ RunTypes /\ Plans /\ Spared /\ Untouched /\ Shape /\ Wired /\ Sending
    BY DEF Core, Typed, Directory
  <1>3. UNCHANGED <<batch, Entries, caseless, policy>>
    BY <1>1, <1>2, GivenStays
  <1>4. /\ n \in Entries /\ n \in Nat /\ Len(plan) \in Nat /\ Len(plan) < Len(batch) /\ DOMAIN plan = 1..Len(plan)
        /\ e \in [path : Seq(Nat), kind : {"file", "link", "dir"}] /\ e.path \in Paths
    <2>1. Len(plan) \in Nat /\ Len(plan) < Len(batch) /\ Len(batch) \in Nat /\ DOMAIN plan = 1..Len(plan)
      BY <1>1, <1>2, EntryFacts DEF Shape, Planned, Plans
    <2>2. n \in Entries
      BY <1>2, <2>1, EntryFacts
    <2>3. batch[n] \in [path : Seq(Nat), kind : {"file", "link", "dir"}] /\ batch[n].path \in Paths
      BY <1>2, <2>2, BatchTypes
    <2> QED BY <2>1, <2>2, <2>3
  <1>5. /\ d.target \in Paths \cup Numbered /\ d.action \in {"write", "skip", "rename"}
        /\ d.action = "skip" => On(disk, d.target) # Nothing /\ e.kind # "dir"
        /\ d.action # "skip" /\ policy # "overwrite" =>
              \/ On(disk, d.target) = Nothing
              \/ e.kind = "dir" /\ On(disk, d.target) = Dir
    <2> HIDE DEF e
    <2> QED BY <1>1, <1>2, <1>4, PlanForFacts
  <1>6. t \in [target : Paths \cup Numbered, action : {"write", "skip", "rename"}]
        /\ t.target = d.target /\ t.action = d.action
    BY <1>5
  <1>7. \A i \in DOMAIN plan : plan[i].action # "skip" /\ t.action # "skip" => Key(plan[i].target) # Key(t.target)
    <2> SUFFICES ASSUME NEW i \in DOMAIN plan, plan[i].action # "skip", t.action # "skip"
                 PROVE  Key(plan[i].target) # Key(t.target)
      OBVIOUS
    <2>1. plan[i].target \in Taken
      BY TakenFacts
    <2>2. plan[i].target \in Paths \cup Numbered
      BY <1>2, PlanTypes
    <2> QED BY <1>1, <1>2, <1>5, <1>6, <2>1, <2>2, NoCollision
  <1> HIDE DEF d, t
  <1>8. /\ plan' \in Seq([target : Paths \cup Numbered, action : {"write", "skip", "rename"}])
        /\ Len(plan') = n /\ DOMAIN plan' = 1..n /\ plan'[n] = t
        /\ \A i \in DOMAIN plan : plan'[i] = plan[i]
        /\ \A i \in DOMAIN plan' : i \in DOMAIN plan \/ i = n
    BY <1>1, <1>2, <1>4, <1>6 DEF Plans
  <1>9. plan' # << >>
    BY <1>4, <1>8
  <1>10. before[Key(t.target)] # Nothing /\ policy # "overwrite" => On(disk, t.target) = before[Key(t.target)]
    BY <1>2, <1>5, <1>6, KeyNames DEF Untouched, On
  <1>11. Directory'
    <2>1. Plans'
      <3>1. \A p : On(disk, p)' = On(disk, p) /\ Key(p)' = Key(p)
        BY <1>1, <1>3 DEF On, Key
      <3>2. \A i \in DOMAIN plan' : /\ plan'[i].action = "skip" => On(disk, plan'[i].target) # Nothing
                                    /\ batch[i].kind = "dir" => plan'[i].action # "skip"
        BY <1>2, <1>5, <1>6, <1>8 DEF Plans
      <3>3. \A i, j \in DOMAIN plan' : plan'[i].action # "skip" /\ plan'[j].action # "skip" /\ i # j =>
                Key(plan'[i].target) # Key(plan'[j].target)
        BY <1>2, <1>7, <1>8 DEF Plans
      <3>4. Len(plan') <= Len(batch)
        BY <1>2, <1>4, <1>8, EntryFacts
      <3> QED BY <1>3, <1>8, <3>1, <3>2, <3>3, <3>4 DEF Plans
    <2>2. Spared'
      <3>1. \A p : Key(p)' = Key(p)
        BY <1>3 DEF Key
      <3>2. policy # "overwrite" => \A i \in DOMAIN plan' : plan'[i].action # "skip" =>
                \/ before[Key(plan'[i].target)] = Nothing
                \/ batch[i].kind = "dir" /\ before[Key(plan'[i].target)] = Dir
        BY <1>2, <1>5, <1>6, <1>8, <1>10 DEF Spared
      <3> QED BY <1>1, <1>3, <3>1, <3>2 DEF Spared
    <2>3. Untouched'
      BY <1>1, <1>2, <1>3 DEF Untouched
    <2> QED BY <2>1, <2>2, <2>3 DEF Directory
  <1>12. ReceiverTypes' /\ WireTypes' /\ RunTypes'
    BY <1>1, <1>2, <1>3 DEF ReceiverTypes, WireTypes, RunTypes
  <1>13. ~Planned /\ file = NoFile /\ received = {} /\ ~Busy
    BY <1>1, <1>2 DEF Shape, NoFile, Busy
  <1>14. Shape'
    BY <1>1, <1>2, <1>3, <1>13 DEF Shape, Busy, Planned, NoFile
  <1>15. Wired'
    <2> SUFFICES ASSUME TRUE PROVE (\A j \in DOMAIN wire : FrameAt(j))' /\ Coupled'
      BY DEF Wired
    <2>1. (\A j \in DOMAIN wire : FrameAt(j)) /\ Coupled /\ ~Unread /\ ~Unread' /\ rcv' \notin {"answer", "done"}
      BY <1>1, <1>2, <1>9 DEF Wired, Unread
    <2>2. ASSUME NEW j \in DOMAIN wire PROVE FrameAt(j)'
      <3>1. FrameAt(j)
        BY <2>1
      <3> QED BY <1>1, <1>3, <2>1, <3>1 DEF FrameAt, Busy, Final
    <2>3. Coupled'
      BY <1>1, <1>3, <2>1 DEF Coupled, Between, Busy, Last
    <2> QED BY <1>1, <2>2, <2>3
  <1>16. Sending'
    BY <1>1, <1>2, <1>3 DEF Sending
  <1> QED BY <1>1, <1>11, <1>12, <1>14, <1>15, <1>16, ReceiverMoves

\* The entry in progress has a target.
LEMMA TargetFacts ==
    ASSUME Core, Busy
    PROVE  /\ Planned /\ file.entry \in Entries /\ file.entry \in DOMAIN plan /\ file.entry \in received
           /\ Key(Target) \in Names /\ Key(plan[file.entry].target) \in Names
           /\ On(part, Target) \in Node /\ On(part, Target) = part[Key(Target)]
           /\ On(part, Target).content \in Data /\ Len(On(part, Target).content) \in Nat
  <1>1. Given /\ Plans /\ Shape /\ ReceiverTypes
    BY DEF Core, Typed, Directory
  <1>2. Planned /\ file.entry \in received /\ file.entry \in Entries
    BY <1>1 DEF Shape, Busy, NoFile, ReceiverTypes
  <1>3. DOMAIN plan = 1..Len(plan)
    BY <1>1 DEF Plans
  <1>4. file.entry \in DOMAIN plan
    BY <1>1, <1>2, <1>3, EntryFacts DEF Planned
  <1>5. Key(plan[file.entry].target) \in Names
    BY <1>1, <1>4, PlanTypes
  <1>6. On(part, Target) \in Node /\ On(part, Target) = part[Key(Target)]
    BY <1>1, <1>5 DEF On, Target, ReceiverTypes
  <1>7. On(part, Target).content \in Data /\ Len(On(part, Target).content) \in Nat
    BY <1>6 DEF Node, Data
  <1> QED BY <1>2, <1>4, <1>5, <1>6, <1>7 DEF Target

\* The receiver fails.
LEMMA ReceiverFails ==
    ASSUME Core, rcv \notin Ended, rcv' = "failed", \E w \in {"line", "refused"} : Throws("receiver", w),
           WireTypes', part' \in [Names -> Node], \A n \in Names : part'[n].kind \in {"none", "file"},
           UNCHANGED <<given, source, sending, reply, plan, received, file, before, disk, shown, attempt, reruns, edits>>
    PROVE  Core'
  <1>1. Given /\ ReceiverTypes /\ RunTypes /\ Directory /\ Shape /\ Sending
    BY DEF Core, Typed
  <1>2. UNCHANGED <<batch, Entries, snd, at, sent>>
    BY <1>1, GivenStays DEF sending
  <1>3. Directory'
    BY <1>1, DirectoryStays
  <1>4. ReceiverTypes'
    BY <1>1, <1>2 DEF ReceiverTypes
  <1>5. RunTypes'
    BY <1>1 DEF RunTypes, Throws
  <1>6. Shape'
    BY <1>1, <1>2 DEF Shape, Busy, Planned
  <1>7. Sending'
    BY <1>1, <1>2 DEF Sending, Ended
  <1>8. Wired'
    BY DEF Wired
  <1> QED BY <1>3, <1>4, <1>5, <1>6, <1>7, <1>8, ReceiverMoves

\* PlanThrows, ReceiverLosesLine.
LEMMA ReceiverFailures == Core /\ (PlanThrows \/ ReceiverLosesLine) => Core'
  <1> SUFFICES ASSUME Core, PlanThrows \/ ReceiverLosesLine PROVE Core'
    OBVIOUS
  <1>1. /\ rcv \notin Ended /\ rcv' = "failed" /\ (\E w \in {"line", "refused"} : Throws("receiver", w))
        /\ UNCHANGED <<given, source, sending, wire, reply, plan, received, file, before, disk, part, shown, attempt, reruns, edits>>
    BY DEF PlanThrows, ReceiverLosesLine, Ended, output, counts
  <1>2. WireTypes /\ ReceiverTypes
    BY DEF Core, Typed
  <1>3. WireTypes' /\ part' \in [Names -> Node] /\ \A n \in Names : part'[n].kind \in {"none", "file"}
    BY <1>1, <1>2 DEF WireTypes, ReceiverTypes
  <1> QED BY <1>1, <1>3, ReceiverFails

\* ReceiverStops.
LEMMA ReceiverStopsKeeps == Core /\ ReceiverStops => Core'
  <1> SUFFICES ASSUME Core, ReceiverStops PROVE Core'
    OBVIOUS
  <1>1. /\ rcv \notin Ended /\ rcv' = "failed" /\ (\E w \in {"line", "refused"} : Throws("receiver", w))
        /\ UNCHANGED <<given, source, sending, wire, reply, plan, received, file, before, disk, shown, attempt, reruns, edits>>
    BY DEF ReceiverStops, Ended
  <1>2. WireTypes /\ ReceiverTypes
    BY DEF Core, Typed
  <1>3. WireTypes'
    BY <1>1, <1>2 DEF WireTypes
  <1>4. part' \in [Names -> Node] /\ \A n \in Names : part'[n].kind \in {"none", "file"}
    <2>1. CASE file.action = "payload" /\ rcv = "frame"
      <3>1. PICK m \in 0..Len(On(part, Target).content) : part' = [part EXCEPT ![Key(Target)].content = SubSeq(@, 1, m)]
        BY <2>1 DEF ReceiverStops
      <3>2. /\ Key(Target) \in Names /\ part[Key(Target)] \in Node
            /\ part[Key(Target)].content \in Data /\ m \in 0..Len(part[Key(Target)].content)
        BY <2>1, <3>1, TargetFacts DEF Busy
      <3>3. SubSeq(part[Key(Target)].content, 1, m) \in Data
        <4>1. \A c \in Data : \A k \in 0..Len(c) : SubSeq(c, 1, k) \in Data
          BY DEF Data
        <4> QED BY <3>2, <4>1
      <3> QED BY <1>2, <3>1, <3>2, <3>3 DEF ReceiverTypes, Node
    <2>2. CASE ~(file.action = "payload" /\ rcv = "frame")
      BY <1>2, <2>2 DEF ReceiverStops, ReceiverTypes
    <2> QED BY <2>1, <2>2
  <1> QED BY <1>1, <1>3, <1>4, ReceiverFails

\* Something is put where the plan lets it.
LEMMA DiskKeeps ==
    ASSUME Given, ReceiverTypes, Directory, UNCHANGED <<given, plan, before>>,
           NEW i \in DOMAIN plan, plan[i].action # "skip",
           NEW v \in Node, v # Nothing, batch[i].kind = "dir" => v = Dir,
           disk' = [disk EXCEPT ![Key(plan[i].target)] = v]
    PROVE  Directory' /\ disk' \in [Names -> Node]
  <1>1. Plans /\ Spared /\ Untouched
    BY DEF Directory
  <1>2. UNCHANGED <<batch, Entries, caseless, policy>>
    BY GivenStays
  <1>3. Key(plan[i].target) \in Names /\ disk \in [Names -> Node]
    BY <1>1, PlanTypes DEF ReceiverTypes
  <1>4. \A n \in Names : disk'[n] = IF n = Key(plan[i].target) THEN v ELSE disk[n]
    BY <1>3
  <1>5. \A p : Key(p)' = Key(p)
    BY <1>2 DEF Key
  <1>6. Plans'
    <2>1. ASSUME NEW j \in DOMAIN plan, plan[j].action = "skip" PROVE On(disk, plan[j].target)' # Nothing
      <3>1. Key(plan[j].target) \in Names /\ On(disk, plan[j].target) # Nothing
        BY <1>1, PlanTypes, <2>1 DEF Plans
      <3> QED BY <1>4, <1>5, <3>1 DEF On
    <2> QED BY <1>1, <1>2, <1>5, <2>1 DEF Plans
  <1>7. Spared'
    BY <1>1, <1>2, <1>5 DEF Spared
  <1>8. Untouched'
    BY <1>1, <1>2, <1>4 DEF Untouched, Spared
  <1> QED BY <1>3, <1>6, <1>7, <1>8 DEF Directory

\* A header is read: the sender waits for the answer to it and nothing else is on its way.
LEMMA HeaderFacts ==
    ASSUME Core, rcv = "frame", wire # << >>, Head(wire).tag = "header", Took
    PROVE  /\ Head(wire).entry = at /\ Head(wire).content = imohash(listed[at]) /\ sent[at] = << >>
           /\ wire' = << >> /\ reply = << >> /\ ~Busy /\ snd \in {"resume", "failed"}
           /\ received \subseteq 1..(at - 1) /\ Planned /\ plan # << >>
           /\ at \in Entries /\ at \in Nat /\ at \in DOMAIN plan
           /\ batch[at].kind \in {"file", "link", "dir"} /\ plan[at].action \in {"write", "skip", "rename"}
           /\ Key(plan[at].target) \in Names
  <1>1. Given /\ SenderTypes /\ WireTypes /\ Plans /\ Shape /\ (\A j \in DOMAIN wire : FrameAt(j))
    BY DEF Core, Typed, Directory, Wired
  <1>2. /\ wire' \in Seq(Frames) /\ Len(wire') = Len(wire) - 1 /\ Head(wire) = wire[1] /\ 1 \in DOMAIN wire
    BY <1>1, TookOne DEF WireTypes
  <1>3. wire[1].tag = "header" /\ Final(wire[1])
    BY <1>2 DEF Final
  <1>4. /\ wire[1].entry = at /\ wire[1].content = imohash(listed[at]) /\ sent[at] = << >>
        /\ Len(wire) = 1 /\ reply = << >> /\ ~Busy /\ snd \in {"resume", "failed"} /\ ~Unread
        /\ received \subseteq 1..(at - 1)
    BY <1>1, <1>2, <1>3 DEF FrameAt
  <1>5. wire' = << >>
    BY <1>2, <1>4
  <1>6. Planned /\ plan # << >>
    BY <1>1, <1>4 DEF Shape, Unread
  <1>7. at \in Entries /\ at \in Nat /\ at \in DOMAIN plan
    <2>1. at \in Entries /\ DOMAIN plan = 1..Len(plan)
      BY <1>1 DEF SenderTypes, Plans
    <2> QED BY <1>1, <1>6, <2>1, EntryFacts DEF Planned
  <1>8. batch[at].kind \in {"file", "link", "dir"}
    BY <1>1, <1>7, BatchTypes
  <1> QED BY <1>1, <1>2, <1>4, <1>5, <1>6, <1>7, <1>8, PlanTypes

\* A header is read and the resume request sent.
LEMMA AskKeeps ==
    ASSUME Core, rcv = "frame", wire # << >>, Head(wire).tag = "header", Took,
           NEW action \in {"payload", "skip", "marker"}, NEW tag \in {"resume", "complete"}, NEW content \in Data,
           Len(content) <= Size, Ask(action, at, tag, content),
           action = "skip" <=> tag = "complete",
           action = "marker" <=> batch[at].kind # "file",
           action = "payload" => plan[at].action # "skip",
           UNCHANGED <<given, source, sending, plan, before, part, shown, attempt, reruns, edits>>,
           Directory', disk' \in [Names -> Node]
    PROVE  Core'
  <1> DEFINE r == Frame(tag, at, content)
  <1>1. Given /\ SenderTypes /\ ReceiverTypes /\ WireTypes /\ RunTypes /\ Shape /\ Sending
    BY DEF Core, Typed
  <1>2. /\ wire' = << >> /\ reply = << >> /\ snd \in {"resume", "failed"}
        /\ received \subseteq 1..(at - 1) /\ Planned /\ plan # << >> /\ at \in Entries /\ at \in Nat
    BY HeaderFacts
  <1>3. /\ file' = [entry |-> at, action |-> action] /\ received' = received \cup {at}
        /\ reply' = Append(reply, r) /\ rcv' = "answer" /\ UNCHANGED why
    BY DEF Ask
  <1>4. r \in Replies /\ r.tag = tag /\ r.content = content /\ r.tag # "ack"
    BY <1>2, FrameTypes
  <1> HIDE DEF r
  <1>5. reply' = <<r>> /\ reply' \in Seq(Replies) /\ Len(reply') = 1 /\ reply'[1] = r /\ DOMAIN reply' = {1} /\ Head(reply') = r
    BY <1>2, <1>3, <1>4
  <1>6. UNCHANGED <<batch, Entries, snd, at, sent>>
    BY <1>1, GivenStays DEF sending
  <1>7. WireTypes'
    BY <1>2, <1>4, <1>5, BoundsAssumption DEF WireTypes
  <1>8. ReceiverTypes'
    BY <1>1, <1>2, <1>3, <1>6 DEF ReceiverTypes
  <1>9. RunTypes'
    BY <1>1, <1>3 DEF RunTypes
  <1>10. Shape'
    BY <1>2, <1>3, <1>6 DEF Shape, Busy, Planned
  <1>11. Wired'
    BY <1>2, <1>3, <1>4, <1>5, <1>6 DEF Wired, Coupled, Unread
  <1>12. Sending'
    <2>1. received' \subseteq 1..at
      BY <1>1, <1>2, <1>3, EntryFacts
    <2> QED BY <1>1, <1>2, <1>4, <1>5, <1>6, <2>1 DEF Sending
  <1> QED BY <1>7, <1>8, <1>9, <1>10, <1>11, <1>12, ReceiverMoves

\* What is resumed is no longer than the file.
LEMMA ResumeFacts ==
    ASSUME Core, NEW p, Key(p) \in Names
    PROVE  LET c == SubSeq(On(part, p).content, 1, resumable_part_size(p))
           IN  c \in Data /\ Len(c) <= Size /\ Len(c) \in Nat
                 /\ (Len(On(part, p).content) <= Size => c = On(part, p).content)
  <1> DEFINE d == On(part, p).content
  <1>1. d \in Data /\ Len(d) \in Nat
    BY DEF Core, Typed, ReceiverTypes, On, Node, Data
  <1>2. resumable_part_size(p) = IF Len(d) <= Size THEN Len(d) ELSE 0
    BY DEF resumable_part_size
  <1> HIDE DEF d
  <1>3. CASE Len(d) <= Size
    <2>1. SubSeq(d, 1, Len(d)) = d
      BY <1>1 DEF Data
    <2> QED BY <1>1, <1>2, <1>3, <2>1 DEF d
  <1>4. CASE ~(Len(d) <= Size)
    <2>1. SubSeq(d, 1, 0) = << >> /\ << >> \in Data /\ Len(<< >>) = 0
      BY <1>1 DEF Data
    <2>2. SubSeq(d, 1, resumable_part_size(p)) = << >>
      BY <1>2, <1>4, <2>1
    <2>3. Len(<< >>) <= Size /\ Len(<< >>) \in Nat
      BY <2>1, SizeAssumption
    <2> QED BY <1>4, <2>1, <2>2, <2>3 DEF d
  <1> QED BY <1>3, <1>4

\* ReadHeader.
LEMMA ReadHeaderKeeps == Core /\ ReadHeader => Core'
  <1> SUFFICES ASSUME Core, ReadHeader PROVE Core'
    OBVIOUS
  <1> DEFINE d == plan[at]
  <1>1. /\ rcv = "frame" /\ wire # << >> /\ Head(wire).tag = "header" /\ Took
        /\ UNCHANGED <<given, source, sending, plan, shown, before, part, attempt, reruns, edits>>
    BY DEF ReadHeader, Next_, counts
  <1>2. /\ Head(wire).entry = at /\ wire' = << >> /\ reply = << >> /\ ~Busy /\ Planned /\ at \in DOMAIN plan
        /\ batch[at].kind \in {"file", "link", "dir"} /\ d.action \in {"write", "skip", "rename"}
        /\ Key(d.target) \in Names
    BY <1>1, HeaderFacts
  <1>3. Given /\ ReceiverTypes /\ WireTypes /\ Directory /\ Plans
    BY DEF Core, Typed, Directory
  <1>4. << >> \in Data /\ Len(<< >>) <= Size
    BY FrameTypes, SizeAssumption
  <1>5. UNCHANGED disk => Directory' /\ disk' \in [Names -> Node]
    BY <1>1, <1>3, DirectoryStays DEF ReceiverTypes
  <1>6. CASE batch[at].kind = "link"
    <2>1. Ask("marker", at, "resume", << >>) /\ UNCHANGED disk
      BY <1>2, <1>6 DEF ReadHeader
    <2> QED BY <1>1, <1>4, <1>5, <1>6, <2>1, AskKeeps
  <1>7. CASE batch[at].kind = "dir" /\ On(disk, d.target) \in {Nothing, Dir}
    <2>1. Ask("marker", at, "resume", << >>) /\ disk' = [disk EXCEPT ![Key(d.target)] = Dir]
      BY <1>2, <1>7 DEF ReadHeader
    <2>2. Dir \in Node /\ Dir # Nothing
      BY <1>4 DEF Dir, Nothing, Node
    <2>3. d.action # "skip"
      BY <1>2, <1>3, <1>7 DEF Plans
    <2>4. Directory' /\ disk' \in [Names -> Node]
      BY <1>1, <1>2, <1>3, <2>1, <2>2, <2>3, DiskKeeps
    <2> QED BY <1>1, <1>4, <1>7, <2>1, <2>4, AskKeeps
  <1>8. CASE batch[at].kind = "dir" /\ On(disk, d.target) \notin {Nothing, Dir}
    <2>1. rcv' = "failed" /\ Throws("receiver", "refused") /\ UNCHANGED <<disk, file, received, reply>>
      BY <1>2, <1>8 DEF ReadHeader
    <2>2. WireTypes' /\ part' \in [Names -> Node] /\ \A n \in Names : part'[n].kind \in {"none", "file"}
      BY <1>1, <1>2, <1>3, <2>1, BoundsAssumption DEF WireTypes, ReceiverTypes
    <2> QED BY <1>1, <2>1, <2>2, ReceiverFails DEF Ended
  <1>9. CASE batch[at].kind = "file" /\ (d.action = "skip" \/ IsDuplicate(d.target, Head(wire).content))
    <2>1. Ask("skip", at, "complete", << >>) /\ UNCHANGED disk
      BY <1>2, <1>9 DEF ReadHeader
    <2> QED BY <1>1, <1>4, <1>5, <1>9, <2>1, AskKeeps
  <1>10. CASE batch[at].kind = "file" /\ ~(d.action = "skip" \/ IsDuplicate(d.target, Head(wire).content))
    <2> DEFINE c == SubSeq(On(part, d.target).content, 1, resumable_part_size(d.target))
    <2>1. Ask("payload", at, "resume", c) /\ UNCHANGED disk
      BY <1>2, <1>10 DEF ReadHeader
    <2>2. c \in Data /\ Len(c) <= Size
      BY <1>2, ResumeFacts
    <2> HIDE DEF c
    <2> QED BY <1>1, <1>5, <1>10, <2>1, <2>2, AskKeeps
  <1> QED BY <1>2, <1>6, <1>7, <1>8, <1>9, <1>10

\* The first frame, if it belongs to the entry in progress.
LEMMA FrameFacts ==
    ASSUME Core, rcv # "failed", wire # << >>
    PROVE  /\ Head(wire) = wire[1] /\ wire[1] \in Frames /\ FrameAt(1) /\ 1 \in DOMAIN wire
           /\ wire[1].tag \in {"answer", "data", "end"} => wire[1].content \in Data /\ Len(wire[1].content) \in Nat
  <1>1. wire \in Seq(Frames) /\ \A j \in DOMAIN wire : FrameAt(j)
    BY DEF Core, Typed, WireTypes, Wired
  <1>2. Head(wire) = wire[1] /\ 1 \in DOMAIN wire /\ wire[1] \in Frames
    BY <1>1, TookOne, HeadTailProperties
  <1>3. wire[1].tag # "header" => wire[1].content \in Data
    BY <1>2, FrameTypes
  <1>4. \A c \in Data : Len(c) \in Nat
    BY DEF Data
  <1> QED BY <1>1, <1>2, <1>3, <1>4

\* ReadAnswer.
LEMMA ReadAnswerKeeps == Core /\ ReadAnswer => Core'
  <1> SUFFICES ASSUME Core, ReadAnswer PROVE Core'
    OBVIOUS
  <1> DEFINE c == Head(wire).content
             n == CASE file.action = "skip"    -> Size
                    [] file.action = "payload" -> Len(c)
                    [] file.action = "marker"  -> 0
  <1>1. /\ rcv = "answer" /\ wire # << >> /\ Took /\ rcv' = "frame"
        /\ part' = IF file.action = "payload" THEN [part EXCEPT ![Key(Target)] = File(c)] ELSE part
        /\ file_advance("receiver", n)
        /\ UNCHANGED <<given, source, sending, snd, at, sent, reply, plan, received, file, before, disk, why, attempt, reruns, edits>>
    BY DEF ReadAnswer, counts, sending
  <1>2. Given /\ ReceiverTypes /\ WireTypes /\ RunTypes /\ Directory /\ Shape /\ Sending
    BY DEF Core, Typed
  <1>3. Busy /\ Planned /\ plan # << >> /\ Key(Target) \in Names
    <2>1. Busy /\ Planned
      BY <1>1, <1>2 DEF Shape
    <2> QED BY <1>2, <2>1, TargetFacts, EntryFacts DEF Planned
  <1>4. /\ Head(wire) = wire[1] /\ wire[1].tag = "answer" /\ c \in Data /\ Len(c) \in Nat
    BY <1>1, FrameFacts DEF FrameAt
  <1>5. n \in Nat
    <2> HIDE DEF c
    <2> QED BY <1>2, <1>3, <1>4, SizeAssumption DEF Shape, Busy
  <1>6. UNCHANGED <<batch, Entries, caseless, policy>>
    BY <1>1, <1>2, GivenStays
  <1>7. wire' \in Seq(Frames) /\ Len(wire') <= Window
    BY <1>1, TookTypes
  <1>8. File(c) \in Node /\ File(c).kind = "file"
    BY <1>4 DEF File, Node
  <1> HIDE DEF c, n
  <1>9. ReceiverTypes'
    BY <1>1, <1>2, <1>3, <1>6, <1>8 DEF ReceiverTypes
  <1>10. RunTypes'
    BY <1>1, <1>2, <1>5, AdvanceTypes DEF RunTypes, Sides
  <1>11. WireTypes'
    BY <1>1, <1>2, <1>7 DEF WireTypes
  <1>12. Directory'
    BY <1>1, <1>2, DirectoryStays
  <1>13. Shape'
    <2>1. file.action = "payload" => On(part, Target)'.kind = "file"
      BY <1>1, <1>2, <1>3, <1>6, <1>8 DEF On, Target, Key, ReceiverTypes
    <2> QED BY <1>1, <1>2, <1>3, <1>6, <2>1 DEF Shape, Busy, Planned
  <1>14. Wired'
    BY <1>1, <1>3, <1>4, TookKeepsWired DEF Unread
  <1>15. Sending'
    BY <1>1, <1>2, <1>6 DEF Sending
  <1> QED BY <1>1, <1>9, <1>10, <1>11, <1>12, <1>13, <1>14, <1>15, ReceiverMoves

\* ReadData.
LEMMA ReadDataKeeps == Core /\ ReadData => Core'
  <1> SUFFICES ASSUME Core, ReadData PROVE Core'
    OBVIOUS
  <1> DEFINE c == Head(wire).content
  <1>1. /\ rcv = "frame" /\ wire # << >> /\ Head(wire).tag = "data" /\ Took
        /\ part' = [part EXCEPT ![Key(Target)].content = @ \o c]
        /\ file_advance("receiver", 1)
        /\ UNCHANGED <<given, source, sending, snd, at, sent, reply, rcv, plan, received, file, before, disk, why,
                       attempt, reruns, edits>>
    BY DEF ReadData, Next_, counts, session, sending
  <1>2. Given /\ ReceiverTypes /\ WireTypes /\ RunTypes /\ Directory /\ Shape /\ Sending
    BY DEF Core, Typed
  <1>3. Head(wire) = wire[1] /\ wire[1].tag = "data" /\ c \in Data /\ Busy /\ file.action = "payload"
    BY <1>1, FrameFacts DEF FrameAt
  <1>4. Planned /\ plan # << >> /\ Key(Target) \in Names
    BY <1>2, <1>3, TargetFacts, EntryFacts DEF Planned
  <1>5. UNCHANGED <<batch, Entries, caseless, policy>>
    BY <1>1, <1>2, GivenStays
  <1>6. wire' \in Seq(Frames) /\ Len(wire') <= Window
    BY <1>1, TookTypes
  <1>7. part[Key(Target)] \in Node /\ part[Key(Target)].kind = "file" /\ part[Key(Target)].content \o c \in Data
    <2>1. part[Key(Target)] \in Node /\ part[Key(Target)].kind = "file"
      BY <1>1, <1>2, <1>3, <1>4 DEF ReceiverTypes, Shape, On
    <2>2. \A x, y \in Data : x \o y \in Data
      BY DEF Data
    <2> QED BY <1>3, <2>1, <2>2 DEF Node
  <1> HIDE DEF c
  <1>8. ReceiverTypes'
    BY <1>1, <1>2, <1>4, <1>5, <1>7 DEF ReceiverTypes, Node
  <1>9. RunTypes'
    BY <1>1, <1>2, AdvanceTypes DEF RunTypes, Sides
  <1>10. WireTypes'
    BY <1>1, <1>2, <1>6 DEF WireTypes
  <1>11. Directory'
    BY <1>1, <1>2, DirectoryStays
  <1>12. Shape'
    <2>1. On(part, Target)'.kind = "file"
      BY <1>1, <1>2, <1>4, <1>5, <1>7 DEF On, Target, Key, ReceiverTypes, Node
    <2> QED BY <1>1, <1>2, <1>4, <1>5, <2>1 DEF Shape, Busy, Planned
  <1>13. Wired'
    BY <1>1, <1>3, <1>4, TookKeepsWired DEF Unread
  <1>14. Sending'
    BY <1>1, <1>2, <1>5 DEF Sending
  <1> QED BY <1>1, <1>8, <1>9, <1>10, <1>11, <1>12, <1>13, <1>14, ReceiverMoves

\* The end of an entry is read.
LEMMA EndKeeps ==
    ASSUME Core, rcv = "frame", wire # << >>, Head(wire).tag = "end", Took, file' = NoFile,
           UNCHANGED <<given, source, sending, reply, rcv, plan, received, before, shown, why, attempt, reruns, edits>>,
           Directory', disk' \in [Names -> Node], part' \in [Names -> Node],
           \A n \in Names : part'[n].kind \in {"none", "file"}
    PROVE  Core'
  <1>1. Given /\ ReceiverTypes /\ WireTypes /\ RunTypes /\ Shape /\ Coupled /\ (\A j \in DOMAIN wire : FrameAt(j)) /\ Sending
    BY DEF Core, Typed, Wired
  <1>2. UNCHANGED <<batch, Entries, snd, at, listed, sent>>
    BY <1>1, GivenStays DEF sending
  <1>3. /\ wire[1].tag = "end" /\ snd # "payload" /\ \A k \in DOMAIN wire : k > 1 => Final(wire[k])
        /\ Busy /\ ~Unread
    BY FrameFacts DEF FrameAt
  <1>4. Planned /\ plan # << >>
    BY <1>1, <1>3, TargetFacts, EntryFacts DEF Planned
  <1>5. /\ wire' \in Seq(Frames) /\ Len(wire') = Len(wire) - 1 /\ \A j \in 1..Len(wire') : wire'[j] = wire[j + 1]
        /\ DOMAIN wire = 1..Len(wire) /\ DOMAIN wire' = 1..Len(wire') /\ Len(wire) \in Nat \ {0}
    BY <1>1, TookOne DEF WireTypes
  <1>6. \A j \in DOMAIN wire' : j + 1 \in DOMAIN wire /\ j + 1 > 1 /\ wire'[j] = wire[j + 1] /\ j \in Nat
    BY <1>5
  <1>7. \A j \in DOMAIN wire' : Final(wire'[j]) /\ Final(wire[j + 1]) /\ FrameAt(j + 1) /\ j + 1 = Len(wire) /\ j = Len(wire')
    <2>1. ASSUME NEW j \in DOMAIN wire' PROVE Final(wire[j + 1]) /\ FrameAt(j + 1) /\ wire'[j] = wire[j + 1]
      BY <1>1, <1>3, <1>6
    <2>2. ASSUME NEW j \in DOMAIN wire' PROVE j + 1 = Len(wire)
      BY <2>1 DEF FrameAt
    <2> QED BY <1>5, <1>6, <2>1, <2>2 DEF Final
  <1>8. ~Busy' /\ ~Unread' /\ Planned'
    BY <1>2, <1>4 DEF Busy, NoFile, Unread, Planned
  <1>9. Wired'
    <2> SUFFICES ASSUME TRUE PROVE (\A j \in DOMAIN wire : FrameAt(j))' /\ Coupled'
      BY DEF Wired
    <2>1. ASSUME NEW j \in DOMAIN wire' PROVE FrameAt(j)'
      <3>1. /\ Final(wire'[j]) /\ wire'[j] = wire[j + 1] /\ FrameAt(j + 1) /\ j = Len(wire') /\ Final(wire[j + 1])
        BY <1>6, <1>7
      <3>2. reply = << >> /\ wire[j + 1].tag \in {"header", "done"}
        BY <3>1 DEF FrameAt, Final
      <3> QED BY <1>2, <1>8, <3>1, <3>2 DEF FrameAt, Final
    <2>2. ASSUME NEW t \in {"header", "done"}, Last.tag = t
          PROVE  wire' # << >> /\ Last'.tag = t
      <3>1. Len(wire) # 1
        BY <1>3, <2>2 DEF Last
      <3>2. wire' # << >> /\ wire'[Len(wire')] = wire[Len(wire)]
        BY <1>5, <3>1
      <3> QED BY <2>2, <3>2 DEF Last
    <2>3. Between => Between'
      <3>1. (\A j \in DOMAIN wire : ~Final(wire[j])) => \A j \in DOMAIN wire' : ~Final(wire'[j])
        BY <1>6, <1>7
      <3> QED BY <1>8, <3>1 DEF Between, Final
    <2>4. Coupled'
      BY <1>1, <1>2, <1>3, <1>8, <2>2, <2>3 DEF Coupled
    <2> QED BY <2>1, <2>4
  <1>10. Shape'
    BY <1>1, <1>2, <1>4, <1>8 DEF Shape, Busy, Planned, NoFile
  <1>11. ReceiverTypes'
    BY <1>1, <1>2 DEF ReceiverTypes
  <1>12. RunTypes'
    BY <1>1 DEF RunTypes
  <1>13. WireTypes'
    <2>1. Len(wire') <= Window
      BY TookTypes
    <2> QED BY <1>1, <1>5, <2>1 DEF WireTypes
  <1>14. Sending'
    BY <1>1, <1>2 DEF Sending
  <1> QED BY <1>9, <1>10, <1>11, <1>12, <1>13, <1>14, ReceiverMoves

\* ReadEnd.
LEMMA ReadEndKeeps == Core /\ ReadEnd => Core'
  <1> SUFFICES ASSUME Core, ReadEnd PROVE Core'
    OBVIOUS
  <1> DEFINE k == file.entry
  <1>1. /\ rcv = "frame" /\ wire # << >> /\ Head(wire).tag = "end" /\ Took
        /\ UNCHANGED <<given, source, sending, reply, plan, received, before, shown, attempt, reruns, edits>>
        /\ EndMarker \/ EndSkipped \/ EndPayload
    BY DEF ReadEnd, Next_, counts
  <1>2. Given /\ ReceiverTypes /\ WireTypes /\ Directory /\ Shape
    BY DEF Core, Typed
  <1>3. Busy
    BY <1>1, FrameFacts DEF FrameAt
  <1>4. /\ k \in DOMAIN plan /\ Key(Target) \in Names /\ Target = plan[k].target
        /\ On(part, Target) \in Node /\ On(part, Target) = part[Key(Target)]
    BY <1>3, TargetFacts DEF Target
  <1>5. /\ disk \in [Names -> Node] /\ part \in [Names -> Node] /\ (\A n \in Names : part[n].kind \in {"none", "file"})
        /\ UNCHANGED disk => Directory'
    BY <1>1, <1>2, DirectoryStays DEF ReceiverTypes
  <1>6. CASE EndMarker
    <2>1. file' = NoFile /\ UNCHANGED <<rcv, part, cut, why>>
      BY <1>6 DEF EndMarker
    <2>2. CASE batch[k].kind = "link" /\ plan[k].action # "skip"
      <3>1. disk' = [disk EXCEPT ![Key(plan[k].target)] = Link]
        BY <1>4, <1>6, <2>2 DEF EndMarker
      <3>2. Link \in Node /\ Link # Nothing
        BY FrameTypes DEF Link, Nothing, Node
      <3>3. Directory' /\ disk' \in [Names -> Node]
        BY <1>1, <1>2, <1>4, <2>2, <3>1, <3>2, DiskKeeps
      <3> QED BY <1>1, <1>5, <2>1, <3>3, EndKeeps
    <2>3. CASE ~(batch[k].kind = "link" /\ plan[k].action # "skip")
      <3>1. UNCHANGED disk
        BY <1>6, <2>3 DEF EndMarker
      <3> QED BY <1>1, <1>5, <2>1, <3>1, EndKeeps
    <2> QED BY <2>2, <2>3
  <1>7. CASE EndSkipped
    BY <1>1, <1>5, <1>7, EndKeeps DEF EndSkipped
  <1>8. CASE EndPayload
    <2>1. part' = [part EXCEPT ![Key(Target)] = Nothing] /\ file.action = "payload"
      BY <1>8 DEF EndPayload
    <2>2. part' \in [Names -> Node] /\ \A n \in Names : part'[n].kind \in {"none", "file"}
      <3>1. Nothing \in Node /\ Nothing.kind = "none"
        BY FrameTypes DEF Nothing, Node
      <3> QED BY <1>4, <1>5, <2>1, <3>1
    <2>3. CASE Verified
      <3>1. disk' = [disk EXCEPT ![Key(plan[k].target)] = On(part, Target)] /\ file' = NoFile /\ UNCHANGED <<rcv, cut, why>>
        BY <1>4, <1>8, <2>3 DEF EndPayload
      <3>2. On(part, Target).kind = "file" /\ batch[k].kind = "file" /\ plan[k].action # "skip"
        BY <1>1, <1>2, <2>1 DEF Shape
      <3>3. On(part, Target) # Nothing
        BY <3>2 DEF Nothing
      <3>4. Directory' /\ disk' \in [Names -> Node]
        BY <1>1, <1>2, <1>4, <3>1, <3>2, <3>3, DiskKeeps
      <3> QED BY <1>1, <2>2, <3>1, <3>4, EndKeeps
    <2>4. CASE ~Verified
      <3>1. rcv' = "failed" /\ Throws("receiver", "refused") /\ UNCHANGED <<disk, file>>
        BY <1>8, <2>4 DEF EndPayload
      <3>2. WireTypes'
        <4>1. wire' \in Seq(Frames) /\ Len(wire') <= Window
          BY <1>1, TookTypes
        <4> QED BY <1>1, <1>2, <4>1 DEF WireTypes
      <3> QED BY <1>1, <2>2, <3>1, <3>2, ReceiverFails DEF Ended
    <2> QED BY <2>3, <2>4
  <1> QED BY <1>1, <1>6, <1>7, <1>8

\* ReadDone.
LEMMA ReadDoneKeeps == Core /\ ReadDone => Core'
  <1> SUFFICES ASSUME Core, ReadDone PROVE Core'
    OBVIOUS
  <1> DEFINE r == Frame("ack", 0, << >>)
  <1>1. /\ rcv = "frame" /\ wire # << >> /\ Head(wire).tag = "done" /\ Took /\ received = Entries
        /\ reply' = Append(reply, r) /\ rcv' = "done" /\ transfer_complete("receiver")
        /\ UNCHANGED <<given, source, sending, plan, received, file, before, disk, part, why, attempt, reruns, edits>>
    BY DEF ReadDone, Next_, output, counts
  <1>2. Given /\ ReceiverTypes /\ WireTypes /\ RunTypes /\ Directory /\ Shape /\ Sending
    BY DEF Core, Typed
  <1>3. UNCHANGED <<batch, Entries, snd, at, sent>>
    BY <1>1, <1>2, GivenStays DEF sending
  <1>4. wire[1].tag = "done" /\ Final(wire[1]) /\ FrameAt(1)
    BY <1>1, FrameFacts DEF Final
  <1>5. reply = << >> /\ Len(wire) = 1 /\ ~Busy /\ snd \in {"ack", "failed"} /\ ~Unread
    BY <1>4 DEF FrameAt
  <1>6. wire' = << >>
    BY <1>1, <1>2, <1>5, TookOne DEF WireTypes
  <1>7. Planned /\ plan # << >>
    BY <1>1, <1>2, <1>5 DEF Shape, Unread
  <1>8. r \in Replies /\ r.tag = "ack" /\ Len(r.content) <= Size
    BY FrameTypes, SizeAssumption
  <1> HIDE DEF r
  <1>9. reply' = <<r>> /\ reply' \in Seq(Replies) /\ Len(reply') = 1 /\ reply'[1] = r /\ DOMAIN reply' = {1}
    BY <1>1, <1>5, <1>8
  <1>10. WireTypes'
    BY <1>6, <1>8, <1>9, BoundsAssumption DEF WireTypes
  <1>11. ReceiverTypes'
    BY <1>1, <1>2, <1>3 DEF ReceiverTypes
  <1>12. RunTypes'
    BY <1>1, <1>2, CompleteTypes DEF RunTypes, Sides
  <1>13. Directory'
    BY <1>1, <1>2, DirectoryStays
  <1>14. Shape'
    BY <1>1, <1>2, <1>3, <1>5, <1>7 DEF Shape, Busy, Planned
  <1>15. Wired'
    BY <1>1, <1>3, <1>5, <1>6, <1>9 DEF Wired, Coupled, Unread
  <1>16. Sending'
    BY <1>1, <1>2, <1>3, <1>5 DEF Sending
  <1> QED BY <1>1, <1>10, <1>11, <1>12, <1>13, <1>14, <1>15, <1>16, ReceiverMoves

-----------------------------------------------------------------------------
(* Failures, the user, and the attempts.                                   *)

\* Break, and a side that finds nobody.
LEMMA OthersKeep ==
    ASSUME Core, UNCHANGED <<given, source, sending, wire, reply, session, disk, part, attempt, reruns, edits>>,
           shown' \in [Sides -> [done : Nat, finished : BOOLEAN]], why' \in [Sides -> {"none", "line", "refused"}]
    PROVE  Core'
  <1>1. Given /\ ReceiverTypes /\ WireTypes /\ RunTypes /\ Directory /\ Shape /\ Wired /\ Sending
    BY DEF Core, Typed
  <1>2. UNCHANGED <<batch, Entries, snd, at, listed, sent, rcv, plan, received, file>>
    BY <1>1, GivenStays DEF sending, session
  <1>3. ReceiverTypes' /\ Shape' /\ Directory'
    BY <1>1, ReceiverStays
  <1>4. WireTypes' /\ RunTypes' /\ Sending'
    BY <1>1, <1>2 DEF WireTypes, RunTypes, Sending
  <1>5. Wired'
    BY <1>1, <1>2 DEF Wired, FrameAt, Final, Busy, Unread, Coupled, Between, Last
  <1> QED BY <1>3, <1>4, <1>5, ReceiverMoves

LEMMA BreakKeeps == Core /\ Break => Core'
  <1> SUFFICES ASSUME Core, Break PROVE Core'
    OBVIOUS
  <1>1. UNCHANGED <<given, source, sending, wire, reply, session, disk, part, shown, why, attempt, reruns, edits>>
    BY DEF Break, output, outcome
  <1>2. RunTypes
    BY DEF Core, Typed
  <1> QED BY <1>1, <1>2, OthersKeep DEF RunTypes

LEMMA ReconnectAloneKeeps ==
    ASSUME Core, NEW s \in Sides, NEW other \in Sides, ReconnectAlone(s, other)
    PROVE  Core'
  <1>1. /\ shown' = [shown EXCEPT ![s] = Fresh] /\ why' = [why EXCEPT ![s] = "refused"]
        /\ UNCHANGED <<given, source, sending, wire, reply, session, disk, part, attempt, reruns, edits>>
    BY DEF ReconnectAlone, network, output, counts
  <1>2. RunTypes
    BY DEF Core, Typed
  <1>3. shown' \in [Sides -> [done : Nat, finished : BOOLEAN]]
    BY <1>1, <1>2 DEF RunTypes, Fresh
  <1>4. why' \in [Sides -> {"none", "line", "refused"}]
    BY <1>1, <1>2 DEF RunTypes
  <1> QED BY <1>1, <1>3, <1>4, OthersKeep

\* EditSource: the sender has read what it listed, and reads the file as it goes.
LEMMA EditSourceKeeps ==
    ASSUME Core, NEW i \in OfKind("file"), EditSource(i)
    PROVE  Core'
  <1>1. PICK ks \in SUBSET (1..Size) \ {{}} :
           source' = [source EXCEPT ![i] = [k \in 1..Size |-> IF k \in ks THEN edits + 2 ELSE @[k]]]
    BY DEF EditSource
  <1>2. /\ edits' = edits + 1
        /\ UNCHANGED <<given, snd, at, read, sent, listed, wire, reply, session, disk, part, shown, why, attempt, reruns>>
    BY DEF EditSource, sending, network, output, outcome
  <1>3. Given /\ SenderTypes /\ ReceiverTypes /\ WireTypes /\ RunTypes /\ Wired /\ Sending
    BY DEF Core, Typed
  <1>4. UNCHANGED <<batch, Entries, rcv, plan, received, file>> /\ i \in Entries
    BY <1>2, <1>3, GivenStays, EntryFacts DEF session
  <1>5. source' \in [Entries -> Contents]
    <2>1. source[i] \in Contents /\ edits + 2 \in Nat
      BY <1>3, <1>4 DEF SenderTypes, RunTypes
    <2>2. [k \in 1..Size |-> IF k \in ks THEN edits + 2 ELSE source[i][k]] \in Contents
      BY <2>1 DEF Contents
    <2> QED BY <1>1, <1>3, <1>4, <2>2 DEF SenderTypes
  <1>6. SenderTypes' /\ WireTypes' /\ RunTypes' /\ Sending'
    BY <1>2, <1>3, <1>4, <1>5 DEF SenderTypes, WireTypes, RunTypes, Sending
  <1>7. Wired'
    BY <1>2, <1>3, <1>4 DEF Wired, FrameAt, Final, Busy, Unread, Coupled, Between, Last
  <1> QED BY <1>2, <1>6, <1>7, SenderMoves

\* LocalFile: it is put where there was nothing.
LEMMA LocalFileKeeps ==
    ASSUME Core, NEW p \in Paths, LocalFile(p)
    PROVE  Core'
  <1>1. /\ disk[Key(p)] = Nothing /\ disk' = [disk EXCEPT ![Key(p)] = Own]
        /\ UNCHANGED <<given, source, sending, wire, reply, session, rcv, plan, received, file, before, part, shown, why,
                       attempt, reruns, edits>>
    BY DEF LocalFile, network, outcome, session
  <1>2. Given /\ ReceiverTypes /\ WireTypes /\ RunTypes /\ Plans /\ Spared /\ Untouched /\ Shape /\ Wired /\ Sending
    BY DEF Core, Typed, Directory
  <1>3. UNCHANGED <<batch, Entries, caseless, policy, snd, at, listed, sent>>
    BY <1>1, <1>2, GivenStays DEF sending
  <1>4. Own \in Node /\ Own # Nothing
    <2>1. Copies(0) \in Data
      BY SizeAssumption DEF Copies, Data
    <2> QED BY <2>1 DEF Own, File, Nothing, Node
  <1>5. Key(p) \in Names /\ disk \in [Names -> Node]
    BY <1>2, KeyNames DEF ReceiverTypes
  <1>6. \A n \in Names : disk'[n] = IF n = Key(p) THEN Own ELSE disk[n]
    BY <1>1, <1>5
  <1>7. ReceiverTypes'
    BY <1>1, <1>2, <1>3, <1>4, <1>5 DEF ReceiverTypes
  <1>8. \A q : Key(q)' = Key(q)
    BY <1>3 DEF Key
  <1>9. Plans'
    <2>1. ASSUME NEW j \in DOMAIN plan, plan[j].action = "skip" PROVE On(disk, plan[j].target)' # Nothing
      <3>1. Key(plan[j].target) \in Names /\ On(disk, plan[j].target) # Nothing
        BY <1>2, PlanTypes, <2>1 DEF Plans
      <3> QED BY <1>1, <1>4, <1>6, <1>8, <3>1 DEF On
    <2> QED BY <1>1, <1>2, <1>3, <1>8, <2>1 DEF Plans
  <1>10. Spared'
    BY <1>1, <1>2, <1>3, <1>8 DEF Spared
  <1>11. Untouched'
    BY <1>1, <1>2, <1>3, <1>6 DEF Untouched
  <1>12. Shape'
    BY <1>1, <1>2, <1>3 DEF Shape, Busy, Planned, Target, On, Key
  <1>13. WireTypes' /\ RunTypes' /\ Sending'
    BY <1>1, <1>2, <1>3 DEF WireTypes, RunTypes, Sending
  <1>14. Wired'
    BY <1>1, <1>2, <1>3 DEF Wired, FrameAt, Final, Busy, Unread, Coupled, Between, Last
  <1> QED BY <1>1, <1>7, <1>9, <1>10, <1>11, <1>12, <1>13, <1>14, ReceiverMoves DEF Directory

\* A new attempt, with a new manifest and plan.
Started ==
    /\ Given /\ source \in [Entries -> Contents] /\ listed = source
    /\ snd = "manifest" /\ at = 1 /\ read = << >> /\ sent = [i \in Entries |-> << >>]
    /\ wire = << >> /\ reply = << >>
    /\ rcv = "frame" /\ plan = << >> /\ received = {} /\ file = NoFile /\ before = disk
    /\ disk \in [Names -> Node] /\ part \in [Names -> Node] /\ \A n \in Names : part[n].kind \in {"none", "file"}
    /\ why = [s \in Sides |-> "none"] /\ shown = [s \in Sides |-> Fresh]
    /\ attempt \in 1..MaxAttempts /\ reruns \in 0..MaxReruns /\ edits \in Nat

LEMMA StartedCore == Started => Core
  <1> SUFFICES ASSUME Started PROVE Core
    OBVIOUS
  <1> USE DEF Started
  <1>1. 1 \in Entries /\ << >> \in Data /\ Len(<< >>) = 0 /\ Size \in Nat /\ Window \in Nat
    BY EntryFacts, FrameTypes, SizeAssumption, BoundsAssumption
  <1>2. SenderTypes
    BY <1>1 DEF SenderTypes
  <1>3. WireTypes
    BY <1>1 DEF WireTypes
  <1>4. ReceiverTypes
    BY DEF ReceiverTypes
  <1>5. RunTypes
    BY DEF RunTypes, Fresh
  <1>6. Directory
    BY <1>1, EntryFacts DEF Directory, Plans, Spared, Untouched
  <1>7. Shape
    BY <1>1, EntryFacts DEF Shape, Busy, Planned, NoFile
  <1>8. Wired
    BY DEF Wired, Coupled, Unread, FrameAt
  <1>9. Sending
    BY <1>1 DEF Sending
  <1> QED BY <1>2, <1>3, <1>4, <1>5, <1>6, <1>7, <1>8, <1>9 DEF Core, Typed

\* What may be in the output directory at first.
LEMMA NodeFacts ==
    /\ {Nothing, Own, File(Original), Dir} \subseteq Node /\ Nothing.kind = "none"
    /\ Original \in Contents
  <1>1. Copies(0) \in Data /\ Copies(1) \in Data /\ Copies(1) \in Contents
    BY SizeAssumption DEF Copies, Data, Contents
  <1> QED BY <1>1, FrameTypes DEF Nothing, Own, File, Original, Dir, Node

LEMMA InitStarted == Init => Started
  <1> SUFFICES ASSUME Init PROVE Started
    OBVIOUS
  <1>1. PICK c \in Cases : batch = c.entries /\ caseless = c.caseless
    BY DEF Init
  <1>2. Given
    <2>1. batch \in Batches /\ batch # << >> /\ caseless \in BOOLEAN
      BY <1>1, CasesAssumption DEF Batches
    <2>2. \A i \in Entries : batch[i].path \in Paths
      BY <1>1 DEF Paths, Entries
    <2> QED BY <2>1, <2>2 DEF Given, Init
  <1>3. disk \in [Names -> Node]
    <2>1. PICK p \in {Key(batch[i].path) : i \in Entries}, t \in {Nothing, Own, File(Original), Dir} :
             disk = [n \in Names |-> IF n = p THEN t ELSE Nothing]
      BY DEF Init
    <2>2. t \in Node /\ Nothing \in Node
      BY NodeFacts
    <2> QED BY <2>1, <2>2
  <1>4. part \in [Names -> Node] /\ \A n \in Names : part[n].kind \in {"none", "file"}
    BY NodeFacts DEF Init
  <1>5. source \in [Entries -> Contents]
    BY NodeFacts DEF Init
  <1>6. attempt \in 1..MaxAttempts /\ reruns \in 0..MaxReruns /\ edits \in Nat
    BY BoundsAssumption DEF Init
  <1> QED BY <1>2, <1>3, <1>4, <1>5, <1>6 DEF Started, Init

\* Reconnect and Rerun.
LEMMA BeginStarts ==
    ASSUME Core, Begin, attempt' \in 1..MaxAttempts, reruns' \in 0..MaxReruns
    PROVE  Started'
  <1>1. Given /\ SenderTypes /\ ReceiverTypes /\ RunTypes
    BY DEF Core, Typed
  <1>2. /\ listed' = source /\ snd' = "manifest" /\ at' = 1 /\ read' = << >> /\ sent' = [i \in Entries |-> << >>]
        /\ wire' = << >> /\ reply' = << >>
        /\ rcv' = "frame" /\ plan' = << >> /\ received' = {} /\ file' = NoFile /\ before' = disk
        /\ why' = [s \in Sides |-> "none"] /\ shown' = [s \in Sides |-> Fresh]
        /\ UNCHANGED <<given, source, disk, part, edits>>
    BY DEF Begin, output
  <1>3. Given' /\ Entries' = Entries
    BY <1>1, <1>2, GivenStays
  <1>4. source' \in [Entries' -> Contents] /\ edits' \in Nat
    BY <1>1, <1>2, <1>3 DEF SenderTypes, RunTypes
  <1>5. disk' \in [Names -> Node] /\ part' \in [Names -> Node] /\ \A n \in Names : part'[n].kind \in {"none", "file"}
    BY <1>1, <1>2 DEF ReceiverTypes
  <1> QED BY <1>2, <1>3, <1>4, <1>5 DEF Started

LEMMA BeginStarted == Core /\ (Reconnect \/ Rerun) => Started'
  <1> SUFFICES ASSUME Core, Reconnect \/ Rerun PROVE Started'
    OBVIOUS
  <1>1. RunTypes
    BY DEF Core, Typed
  <1>2. Begin
    BY DEF Reconnect, Rerun
  <1>3. attempt' \in 1..MaxAttempts /\ reruns' \in 0..MaxReruns
    BY <1>1, BoundsAssumption DEF Reconnect, Rerun, is_retryable, RunTypes
  <1> QED BY <1>2, <1>3, BeginStarts

\* The invariant is inductive.
LEMMA InitCore == Init => Core
  BY InitStarted, StartedCore

LEMMA CoreStays == Core /\ UNCHANGED vars => Core'
  <1> SUFFICES ASSUME Core, UNCHANGED vars PROVE Core'
    OBVIOUS
  <1>1. UNCHANGED <<given, source, sending, wire, reply, session, disk, part, shown, why, attempt, reruns, edits>>
    BY DEF vars, network, output, counts, outcome
  <1>2. RunTypes
    BY DEF Core, Typed
  <1> QED BY <1>1, <1>2, OthersKeep DEF RunTypes

LEMMA NextCore == Core /\ [Next]_vars => Core'
  <1> SUFFICES ASSUME Core, [Next]_vars PROVE Core'
    OBVIOUS
  <1>1. CASE Sender
    BY <1>1, SendManifestKeeps, SendHeaderKeeps, AnswerKeeps, SendDataKeeps, SendEndKeeps, SendDoneKeeps, ReadAckKeeps,
       SenderFailures DEF Sender
  <1>2. CASE Receiver
    BY <1>2, ReadManifestKeeps, PlanEntryKeeps, ReceiverFailures, ReadHeaderKeeps, ReadAnswerKeeps, ReadDataKeeps,
       ReadEndKeeps, ReadDoneKeeps DEF Receiver
  <1>3. CASE Reconnect \/ Rerun
    <2>1. Started'
      BY <1>3, BeginStarted
    <2>2. Started' => Core'
      BY StartedCore, PTL
    <2> QED BY <2>1, <2>2
  <1>4. CASE ReconnectAlone("sender", "receiver") \/ ReconnectAlone("receiver", "sender")
    BY <1>4, ReconnectAloneKeeps DEF Sides
  <1>5. CASE Break \/ SenderStops \/ ReceiverStops
    BY <1>5, BreakKeeps, SenderFailures, ReceiverStopsKeeps
  <1>6. CASE \E i \in OfKind("file") : EditSource(i)
    BY <1>6, EditSourceKeeps
  <1>7. CASE \E i \in Entries : LocalFile(batch[i].path)
    BY <1>7, LocalFileKeeps DEF Core, Typed, Given
  <1>8. CASE UNCHANGED vars
    BY <1>8, CoreStays
  <1> QED BY <1>1, <1>2, <1>3, <1>4, <1>5, <1>6, <1>7, <1>8 DEF Next, Retries

LEMMA SpecCore == Spec => []Core
  BY InitCore, NextCore, PTL DEF Spec

\* The type invariant.
THEOREM TypeCorrect == Spec => []TypeOK
  <1>1. Core => TypeOK
    <2> SUFFICES ASSUME Core PROVE TypeOK
      OBVIOUS
    <2>1. WireTypes /\ ReceiverTypes /\ RunTypes
      BY DEF Core, Typed
    <2> QED BY <2>1 DEF TypeOK, WireTypes, ReceiverTypes, RunTypes, Node
  <1> QED BY <1>1, SpecCore, PTL

\* With --on-conflict skip or rename nothing that the plan found in the output directory
\* is changed: the plan only lets the receiver write where it found nothing, or a directory
\* for a directory, and nothing else of the attempt touches the directory.
THEOREM FoundStays == Spec => []Untouched
  <1>1. Core => Untouched
    BY DEF Core, Directory
  <1> QED BY <1>1, SpecCore, PTL

-----------------------------------------------------------------------------
(* What has arrived.                                                       *)

\* What is whole is there.
LEMMA WholeThere ==
    ASSUME Given, NEW i \in Entries, Whole(i)
    PROVE  On(disk, plan[i].target) # Nothing
  <1> DEFINE t == On(disk, plan[i].target)
  <1>1. batch[i].kind \in {"file", "link", "dir"}
    BY BatchTypes
  <1>2. t # Nothing \/ t = Link \/ t = Dir \/ t.kind = "file"
    BY <1>1 DEF Whole
  <1> HIDE DEF t
  <1>3. t # Nothing
    BY <1>2 DEF Link, Dir, Nothing
  <1> QED BY <1>3 DEF t

\* What an entry needs stays.
LEMMA WholeUnchanged ==
    ASSUME NEW i, Whole(i), UNCHANGED <<given, plan, listed>>, sent'[i] = sent[i],
           disk'[Key(plan[i].target)] = disk[Key(plan[i].target)]
    PROVE  Whole(i)'
  <1>1. UNCHANGED <<batch, caseless>>
    BY DEF given
  <1>2. On(disk, plan[i].target)' = On(disk, plan[i].target)
    BY <1>1 DEF On, Key
  <1> HIDE DEF On
  <1> QED BY <1>1, <1>2 DEF Whole

\* Another entry is put in the directory.
LEMMA WholeStays ==
    ASSUME Core, NEW i \in DOMAIN plan, Whole(i), NEW k \in DOMAIN plan, k # i, plan[k].action # "skip",
           NEW v, v # Nothing, disk' = [disk EXCEPT ![Key(plan[k].target)] = v],
           UNCHANGED <<given, plan, sent, listed>>
    PROVE  Whole(i)'
  <1>1. Given /\ Plans /\ ReceiverTypes
    BY DEF Core, Typed, Directory
  <1>2. Key(plan[i].target) \in Names /\ Key(plan[k].target) \in Names
    BY <1>1, PlanTypes
  <1>3. \A n \in Names : disk'[n] = IF n = Key(plan[k].target) THEN v ELSE disk[n]
    BY <1>1, <1>2 DEF ReceiverTypes
  <1>4. CASE plan[i].action # "skip"
    <2>1. Key(plan[i].target) # Key(plan[k].target)
      BY <1>1, <1>4 DEF Plans
    <2> QED BY <1>2, <1>3, <2>1, WholeUnchanged
  <1>5. CASE plan[i].action = "skip"
    <2>1. On(disk, plan[i].target)' # Nothing
      BY <1>1, <1>2, <1>3, <1>5 DEF On, Key, given, Plans
    <2> QED BY <1>5, <2>1 DEF Whole
  <1> QED BY <1>4, <1>5

\* Nothing that counts changes.
LEMMA ArrivedStays ==
    ASSUME Core, Arrived, rcv' # "failed" => rcv # "failed", UNCHANGED <<given, plan, listed, disk, received, file>>,
           rcv # "failed" => \A i \in received : sent'[i] = sent[i] \/ (i = file.entry /\ file.action = "payload")
    PROVE  Arrived'
  <1> SUFFICES ASSUME rcv # "failed" PROVE Arrived'
    BY DEF Arrived
  <1>1. UNCHANGED batch
    BY DEF given
  <1>2. ASSUME NEW i \in received, i # file.entry \/ file.action = "skip" PROVE Whole(i)'
    <2>1. Whole(i)
      BY <1>2 DEF Arrived
    <2>2. sent'[i] = sent[i]
      BY <1>2
    <2> QED BY <2>1, <2>2, WholeUnchanged
  <1>3. Shape
    BY DEF Core
  <1>4. ASSUME file.action = "marker", batch[file.entry].kind = "dir" PROVE Whole(file.entry)'
    <2>1. Whole(file.entry) /\ file.entry \in received
      BY <1>3, <1>4 DEF Arrived, Shape, Busy
    <2>2. sent'[file.entry] = sent[file.entry]
      BY <1>4, <2>1
    <2> QED BY <2>1, <2>2, WholeUnchanged
  <1>5. ASSUME file.action \in {"skip", "marker"} PROVE sent'[file.entry] = << >>
    BY <1>3, <1>5 DEF Arrived, Shape, Busy
  <1> QED BY <1>1, <1>2, <1>4, <1>5 DEF Arrived

\* The steps that touch neither the directory nor the entry in progress.
LEMMA AloneSteps ==
    ASSUME \/ SendManifest \/ SendHeader \/ Answer \/ AnswerThrows \/ SendData \/ SendDone \/ ReadAck \/ SenderLosesLine
           \/ ReadManifest \/ ReadAnswer \/ ReadData \/ ReadDone
           \/ Break \/ SenderStops \/ (\E i \in OfKind("file") : EditSource(i))
           \/ ReconnectAlone("sender", "receiver") \/ ReconnectAlone("receiver", "sender") \/ UNCHANGED vars
    PROVE  UNCHANGED <<given, plan, listed, disk, received, file, sent>> /\ (rcv' # "failed" => rcv # "failed")
  <1>1. CASE SendManifest \/ SendHeader \/ Answer \/ AnswerThrows \/ SendData \/ SendDone \/ ReadAck \/ SenderLosesLine
    BY <1>1 DEF SendManifest, SendHeader, Answer, AnswerMarker, AnswerComplete, AnswerResume, AnswerThrows, SendData,
                SendDone, ReadAck, SenderLosesLine, session, output
  <1>2. CASE ReadManifest \/ ReadAnswer \/ ReadData \/ ReadDone
    BY <1>2 DEF ReadManifest, ReadAnswer, ReadData, ReadDone, Next_, sending, session, output
  <1>3. CASE Break \/ SenderStops \/ (\E i \in OfKind("file") : EditSource(i))
    BY <1>3 DEF Break, SenderStops, EditSource, sending, session, output
  <1>4. CASE ReconnectAlone("sender", "receiver") \/ ReconnectAlone("receiver", "sender")
    BY <1>4 DEF ReconnectAlone, sending, session, output
  <1>5. CASE UNCHANGED vars
    BY <1>5 DEF vars, sending, session, output
  <1> QED BY <1>1, <1>2, <1>3, <1>4, <1>5, Zenon
LEMMA ArrivedAlone ==
    ASSUME Core, Arrived, rcv' # "failed" => rcv # "failed",
           UNCHANGED <<given, plan, listed, disk, received, file, sent>>
    PROVE  Arrived'
  BY ArrivedStays

\* SendEnd: the digest that changes is that of the entry in progress.
LEMMA ArrivedSendEnd == Core /\ Arrived /\ SendEnd => Arrived'
  <1> SUFFICES ASSUME Core, Arrived, SendEnd PROVE Arrived'
    OBVIOUS
  <1>1. snd = "payload" /\ sent' = [sent EXCEPT ![at] = read] /\ UNCHANGED <<given, plan, listed, disk, received, file, rcv>>
    BY DEF SendEnd, session, output
  <1>2. rcv # "failed" => file.entry = at /\ file.action = "payload"
    BY <1>1 DEF Core, Wired, Coupled
  <1>3. \A i \in received : i # at => sent'[i] = sent[i]
    BY <1>1 DEF Core, Typed, SenderTypes, ReceiverTypes
  <1> QED BY <1>1, <1>2, <1>3, ArrivedStays

\* A receiver that fails, or that starts, claims nothing.
LEMMA ArrivedNot ==
    /\ rcv' = "failed" => Arrived'
    /\ received' = {} /\ file' = NoFile => Arrived'
  BY DEF Arrived, NoFile

LEMMA ArrivedPlan == Core /\ Arrived /\ (PlanEntry \/ PlanThrows) => Arrived'
  <1> SUFFICES ASSUME Core, Arrived, PlanEntry \/ PlanThrows PROVE Arrived'
    OBVIOUS
  <1>1. CASE PlanEntry
    BY <1>1, ArrivedNot DEF PlanEntry, Core, Shape
  <1>2. CASE PlanThrows
    BY <1>2, ArrivedNot DEF PlanThrows
  <1> QED BY <1>1, <1>2

\* LocalFile: nothing was there.
LEMMA ArrivedLocal ==
    ASSUME Core, Arrived, NEW p \in Paths, LocalFile(p)
    PROVE  Arrived'
  <1>1. /\ disk[Key(p)] = Nothing /\ disk' = [disk EXCEPT ![Key(p)] = Own]
        /\ UNCHANGED <<given, plan, listed, sent, received, file, rcv>>
    BY DEF LocalFile, sending, session
  <1> SUFFICES ASSUME rcv # "failed" PROVE Arrived'
    BY <1>1 DEF Arrived
  <1>2. Given /\ Plans /\ ReceiverTypes /\ Shape
    BY DEF Core, Typed, Directory
  <1>3. UNCHANGED batch
    BY <1>1 DEF given
  <1>4. ASSUME NEW i \in received, Whole(i) PROVE Whole(i)'
    <2>1. i \in Entries /\ i \in DOMAIN plan
      <3>1. Planned /\ i \in Entries /\ DOMAIN plan = 1..Len(plan)
        BY <1>2 DEF Shape, ReceiverTypes, Plans
      <3> QED BY <1>2, <3>1, EntryFacts DEF Planned
    <2>2. On(disk, plan[i].target) # Nothing
      BY <1>2, <1>4, <2>1, WholeThere
    <2>3. disk'[Key(plan[i].target)] = disk[Key(plan[i].target)]
      BY <1>1, <1>2, <2>1, <2>2, PlanTypes DEF ReceiverTypes, On
    <2> QED BY <1>1, <1>4, <2>3, WholeUnchanged
  <1>5. file.action # "none" => file.entry \in received
    BY <1>2 DEF Shape, Busy
  <1>6. /\ \A i \in received : i # file.entry \/ file.action = "skip" => Whole(i)'
        /\ file.action = "marker" /\ batch[file.entry].kind = "dir" => Whole(file.entry)'
        /\ file.action \in {"skip", "marker"} => sent'[file.entry] = << >>
    BY <1>1, <1>4, <1>5 DEF Arrived
  <1> QED BY <1>1, <1>3, <1>6 DEF Arrived

\* ReadHeader: a directory is there, and so is a file that is not asked for.
LEMMA ArrivedHeader == Core /\ Arrived /\ ReadHeader => Arrived'
  <1> SUFFICES ASSUME Core, Arrived, ReadHeader, rcv' # "failed" PROVE Arrived'
    BY ArrivedNot
  <1> DEFINE d == plan[at]
  <1>1. /\ rcv = "frame" /\ wire # << >> /\ Head(wire).tag = "header" /\ Took
        /\ UNCHANGED <<given, plan, listed, sent, at>>
    BY DEF ReadHeader, Next_, sending
  <1>2. /\ Head(wire).entry = at /\ Head(wire).content = imohash(listed[at]) /\ sent[at] = << >>
        /\ ~Busy /\ received \subseteq 1..(at - 1) /\ Planned /\ at \in Entries /\ at \in Nat /\ at \in DOMAIN plan
        /\ batch[at].kind \in {"file", "link", "dir"}
        /\ Key(d.target) \in Names
    BY <1>1, HeaderFacts
  <1>3. Given /\ ReceiverTypes /\ Plans /\ Shape
    BY DEF Core, Typed, Directory
  <1>4. \A i \in received : i # at /\ i \in DOMAIN plan /\ Whole(i)
    <2>1. file.entry = 0 /\ DOMAIN plan = 1..Len(plan)
      BY <1>2, <1>3 DEF Shape, Plans
    <2>2. \A i \in received : i # at /\ i # 0 /\ i \in DOMAIN plan
      BY <1>2, <1>3, <2>1, EntryFacts DEF ReceiverTypes, Planned
    <2> QED BY <1>1, <2>1, <2>2 DEF Arrived
  <1>5. UNCHANGED batch
    BY <1>1 DEF given
  <1>6. ASSUME NEW action \in {"skip", "marker", "payload"}, NEW tag, NEW content, Ask(action, at, tag, content),
               \A i \in received : Whole(i)', action = "skip" => Whole(at)',
               action = "marker" /\ batch[at].kind = "dir" => Whole(at)'
        PROVE  Arrived'
    <2>1. file'.entry = at /\ file'.action = action /\ received' = received \cup {at}
      BY <1>6 DEF Ask
    <2>2. ASSUME NEW i \in received' PROVE i \in received \/ i = at
      BY <2>1
    <2>3. /\ \A i \in received' : i # file'.entry \/ file'.action = "skip" => Whole(i)'
          /\ file'.action = "marker" /\ batch'[file'.entry].kind = "dir" => Whole(file.entry)'
          /\ file'.action \in {"skip", "marker"} => sent'[file'.entry] = << >>
      <3>1. Whole(file.entry)' = Whole(at)' /\ sent'[at] = << >>
        BY <1>1, <1>2, <2>1 DEF Whole
      <3> QED BY <1>5, <1>6, <2>1, <2>2, <3>1
    <2> QED BY <2>3 DEF Arrived
  <1>7. UNCHANGED disk => \A i : Whole(i) => Whole(i)'
    BY <1>1, WholeUnchanged DEF given
  <1>8. CASE batch[at].kind = "link"
    <2>1. Ask("marker", at, "resume", << >>) /\ UNCHANGED disk
      BY <1>2, <1>8 DEF ReadHeader
    <2> QED BY <1>4, <1>6, <1>7, <1>8, <2>1
  <1>9. CASE batch[at].kind = "dir" /\ On(disk, d.target) \in {Nothing, Dir}
    <2>1. Ask("marker", at, "resume", << >>) /\ disk' = [disk EXCEPT ![Key(d.target)] = Dir]
      BY <1>2, <1>9 DEF ReadHeader
    <2>2. Dir # Nothing
      BY DEF Dir, Nothing
    <2>3. d.action # "skip"
      BY <1>2, <1>3, <1>9 DEF Plans
    <2>4. \A i \in received : Whole(i)'
      BY <1>1, <1>2, <1>4, <2>1, <2>2, <2>3, WholeStays
    <2>5. On(disk, d.target)' = Dir
      BY <1>1, <1>2, <1>3, <2>1 DEF On, Key, given, ReceiverTypes
    <2>6. Whole(at)'
      BY <1>1, <1>5, <1>9, <2>3, <2>5 DEF Whole
    <2> QED BY <1>6, <2>1, <2>4, <2>6
  <1>10. CASE batch[at].kind = "file" /\ (d.action = "skip" \/ IsDuplicate(d.target, Head(wire).content))
    <2>1. Ask("skip", at, "complete", << >>) /\ UNCHANGED disk
      BY <1>2, <1>10 DEF ReadHeader
    <2>2. Whole(at)
      BY <1>2, <1>3, <1>10 DEF Whole, Plans, IsDuplicate
    <2>3. PICK i : i = at
      OBVIOUS
    <2>4. Whole(i)'
      BY <1>7, <2>1, <2>2, <2>3
    <2>5. Whole(at)'
      BY <1>1, <2>3, <2>4 DEF Whole
    <2> QED BY <1>4, <1>6, <1>7, <2>1, <2>5
  <1>11. CASE batch[at].kind = "file" /\ ~(d.action = "skip" \/ IsDuplicate(d.target, Head(wire).content))
    <2> DEFINE c == SubSeq(On(part, d.target).content, 1, resumable_part_size(d.target))
    <2>1. Ask("payload", at, "resume", c) /\ UNCHANGED disk
      BY <1>2, <1>11 DEF ReadHeader
    <2> HIDE DEF c
    <2> QED BY <1>4, <1>6, <1>7, <2>1
  <1>12. CASE batch[at].kind = "dir" /\ On(disk, d.target) \notin {Nothing, Dir}
    BY <1>2, <1>12 DEF ReadHeader
  <1> QED BY <1>2, <1>8, <1>9, <1>10, <1>11, <1>12

\* ReadEnd: the entry in progress is whole.
LEMMA ArrivedEnd ==
    ASSUME Core, Arrived, rcv # "failed", Busy, file' = NoFile, UNCHANGED <<given, plan, listed, sent, received>>,
           \A i \in received : i # file.entry /\ Whole(i) => Whole(i)',
           NEW k, k = file.entry, Whole(k)'
    PROVE  Arrived'
  BY DEF Arrived, NoFile

LEMMA ArrivedReadEnd == Core /\ Arrived /\ ReadEnd => Arrived'
  <1> SUFFICES ASSUME Core, Arrived, ReadEnd, rcv' # "failed" PROVE Arrived'
    BY ArrivedNot
  <1>1. /\ rcv = "frame" /\ wire # << >> /\ Head(wire).tag = "end"
        /\ UNCHANGED <<given, plan, listed, sent, received>>
        /\ EndMarker \/ EndSkipped \/ EndPayload
    BY DEF ReadEnd, Next_, sending
  <1>2. Given /\ ReceiverTypes /\ Plans /\ Shape
    BY DEF Core, Typed, Directory
  <1>3. Busy /\ FrameAt(1) /\ Head(wire) = wire[1]
    BY <1>1, FrameFacts DEF FrameAt
  <1>4. PICK k : k = file.entry
    OBVIOUS
  <1>5. /\ k \in DOMAIN plan /\ k \in received /\ Key(plan[k].target) \in Names /\ Target = plan[k].target
        /\ On(part, Target) \in Node /\ batch[k].kind \in {"file", "link", "dir"}
        /\ plan[k].action = "skip" => On(disk, plan[k].target) # Nothing
        /\ received \subseteq DOMAIN plan
    <2>1. Planned /\ k \in Entries /\ DOMAIN plan = 1..Len(plan) /\ k \in DOMAIN plan
      BY <1>2, <1>3, <1>4, TargetFacts DEF Plans
    <2>2. batch[k].kind \in {"file", "link", "dir"}
      BY <1>2, <2>1, BatchTypes
    <2>3. received \subseteq DOMAIN plan
      BY <1>2, <2>1, EntryFacts DEF Planned, ReceiverTypes
    <2> QED BY <1>2, <1>3, <1>4, <2>1, <2>2, <2>3, TargetFacts DEF Target, Plans
  <1>6. UNCHANGED <<batch, caseless>>
    BY <1>1 DEF given
  <1>7. UNCHANGED disk => \A i : Whole(i) => Whole(i)'
    BY <1>1, WholeUnchanged DEF given
  <1>8. ASSUME file' = NoFile, UNCHANGED disk, Whole(k) PROVE Arrived'
    <2>1. Whole(k)' /\ \A i \in received : Whole(i) => Whole(i)'
      BY <1>7, <1>8
    <2> QED BY <1>1, <1>3, <1>4, <1>8, <2>1, ArrivedEnd
  <1>9. ASSUME file' = NoFile, NEW v, v # Nothing, plan[k].action # "skip",
               disk' = [disk EXCEPT ![Key(plan[k].target)] = v],
               batch[k].kind = "link" => v = Link, batch[k].kind = "file" => v.kind = "file" /\ v.content = sent[k] /\ sent[k] # << >>,
               batch[k].kind # "dir"
        PROVE  Arrived'
    <2>1. \A i \in received : i # file.entry /\ Whole(i) => Whole(i)'
      BY <1>1, <1>4, <1>5, <1>9, WholeStays
    <2>2. On(disk, plan[k].target)' = v
      BY <1>1, <1>2, <1>5, <1>6, <1>9 DEF On, Key, ReceiverTypes
    <2>3. Whole(k)'
      BY <1>1, <1>5, <1>6, <1>9, <2>2 DEF Whole
    <2> QED BY <1>1, <1>3, <1>4, <1>9, <2>1, <2>3, ArrivedEnd
  <1>10. CASE EndMarker
    <2>1. file' = NoFile /\ batch[k].kind # "file" /\ file.action = "marker"
      BY <1>2, <1>4, <1>10 DEF EndMarker, Shape
    <2>2. CASE batch[k].kind = "link" /\ plan[k].action # "skip"
      <3>1. disk' = [disk EXCEPT ![Key(plan[k].target)] = Link]
        BY <1>4, <1>5, <1>10, <2>2 DEF EndMarker
      <3>2. Link # Nothing
        BY DEF Link, Nothing
      <3> QED BY <1>9, <2>1, <2>2, <3>1, <3>2
    <2>3. CASE batch[k].kind = "link" /\ plan[k].action = "skip"
      <3>1. UNCHANGED disk
        BY <1>4, <1>10, <2>3 DEF EndMarker
      <3>2. Whole(k)
        BY <1>5, <2>3 DEF Whole
      <3> QED BY <1>8, <2>1, <3>1, <3>2
    <2>4. CASE batch[k].kind = "dir"
      <3>1. UNCHANGED disk
        BY <1>4, <1>10, <2>4 DEF EndMarker
      <3>2. Whole(k)
        BY <1>1, <1>4, <2>1, <2>4 DEF Arrived
      <3> QED BY <1>8, <2>1, <3>1, <3>2
    <2> QED BY <1>5, <2>1, <2>2, <2>3, <2>4
  <1>11. CASE EndSkipped
    <2>1. file' = NoFile /\ file.action = "skip" /\ UNCHANGED disk
      BY <1>11 DEF EndSkipped
    <2>2. Whole(k)
      BY <1>1, <1>4, <1>5, <2>1 DEF Arrived
    <2> QED BY <1>8, <2>1, <2>2
  <1>12. CASE EndPayload
    <2>1. /\ file.action = "payload" /\ file' = NoFile /\ Verified
          /\ disk' = [disk EXCEPT ![Key(plan[k].target)] = On(part, Target)]
      BY <1>5, <1>12 DEF EndPayload
    <2>2. On(part, Target).kind = "file" /\ batch[k].kind = "file" /\ plan[k].action # "skip"
      BY <1>1, <1>2, <1>4, <2>1 DEF Shape
    <2>3. On(part, Target) # Nothing
      BY <2>2 DEF Nothing
    <2>4. Head(wire).content = sent[k] /\ Len(Head(wire).content) = Size
      BY <1>1, <1>3, <1>4, <2>1 DEF FrameAt
    <2>5. On(part, Target).content = sent[k] /\ sent[k] # << >>
      BY <2>1, <2>4, FrameTypes, SizeAssumption DEF Verified
    <2> QED BY <1>9, <2>1, <2>2, <2>3, <2>5
  <1> QED BY <1>1, <1>10, <1>11, <1>12

LEMMA NextArrived == Core /\ Arrived /\ [Next]_vars => Arrived'
  <1> SUFFICES ASSUME Core, Arrived, [Next]_vars PROVE Arrived'
    OBVIOUS
  <1>1. CASE \/ SendManifest \/ SendHeader \/ Answer \/ AnswerThrows \/ SendData \/ SendDone \/ ReadAck \/ SenderLosesLine
             \/ ReadManifest \/ ReadAnswer \/ ReadData \/ ReadDone
             \/ Break \/ SenderStops \/ (\E i \in OfKind("file") : EditSource(i))
             \/ ReconnectAlone("sender", "receiver") \/ ReconnectAlone("receiver", "sender") \/ UNCHANGED vars
    <2>1. UNCHANGED <<given, plan, listed, disk, received, file, sent>> /\ (rcv' # "failed" => rcv # "failed")
      BY <1>1, AloneSteps
    <2> QED BY <2>1, ArrivedAlone
  <1>2. CASE SendEnd
    BY <1>2, ArrivedSendEnd
  <1>3. CASE PlanEntry \/ PlanThrows \/ ReceiverLosesLine \/ ReceiverStops
    BY <1>3, ArrivedPlan, ArrivedNot DEF ReceiverLosesLine, ReceiverStops
  <1>4. CASE ReadHeader \/ ReadEnd
    BY <1>4, ArrivedHeader, ArrivedReadEnd
  <1>5. CASE Reconnect \/ Rerun
    BY <1>5, ArrivedNot DEF Reconnect, Rerun, Begin
  <1>6. CASE \E i \in Entries : LocalFile(batch[i].path)
    BY <1>6, ArrivedLocal DEF Core, Typed, Given
  <1> QED BY <1>1, <1>2, <1>3, <1>4, <1>5, <1>6 DEF Next, Sender, Receiver, Retries

\* A receiver that has reported the batch complete has every entry whole at the target of
\* its plan, and a sender only reports success when its receiver has: no two entries of the
\* plan share a target, what is put in the directory is what was verified, and nothing that
\* the plan put there goes away.
THEOREM CompleteIsWhole == Spec => []BatchWhole
  <1>1. Init => Arrived
    BY DEF Init, Arrived, NoFile
  <1>2. Core /\ Arrived => BatchWhole
    <2> SUFFICES ASSUME Core, Arrived PROVE BatchWhole
      OBVIOUS
    <2>1. Shape /\ Sending /\ Given
      BY DEF Core, Typed
    <2>2. ASSUME rcv = "done", NEW i \in Entries PROVE Whole(i)
      <3>1. i \in received /\ file.entry = 0 /\ i # 0
        BY <2>1, <2>2, EntryFacts DEF Shape
      <3> QED BY <2>2, <3>1 DEF Arrived
    <2> QED BY <2>1, <2>2 DEF BatchWhole, Sending
  <1> QED BY <1>1, <1>2, InitCore, NextCore, NextArrived, PTL DEF Spec

-----------------------------------------------------------------------------
(* Chunks on their way.                                                    *)

\* The part file of the entry in progress.
LEMMA PartLength ==
    ASSUME Core, file.action = "payload", rcv # "failed"
    PROVE  On(part, Target).content \in Data /\ Len(On(part, Target).content) \in Nat /\ Key(Target) \in Names
  <1>1. Key(Target) \in Names
    BY TargetFacts DEF Busy
  <1>2. On(part, Target).content \in Data
    BY <1>1 DEF Core, Typed, ReceiverTypes, On, Node
  <1>3. \A c \in Data : Len(c) \in Nat
    BY DEF Data
  <1> QED BY <1>1, <1>2, <1>3

\* Base is a number.
LEMMA BaseInt ==
    ASSUME Core, file.action = "payload", rcv # "failed", rcv = "answer" => wire # << >>
    PROVE  /\ Base \in Int /\ Base + 1 >= 0 /\ (rcv = "frame" => Base \in Nat)
           /\ rcv = "answer" => Base + 1 = Len(wire[1].content) /\ Base + 1 <= Size
  <1>1. CASE rcv = "answer"
    <2>1. wire[1].tag = "answer" /\ FrameAt(1) /\ Len(wire[1].content) \in Nat
      BY <1>1, FrameFacts DEF FrameAt
    <2>2. Len(wire[1].content) <= Size
      BY <2>1 DEF FrameAt
    <2> QED BY <1>1, <2>1, <2>2 DEF Base
  <1>2. CASE rcv # "answer"
    BY <1>2, PartLength DEF Base
  <1> QED BY <1>1, <1>2

\* Without a payload in progress nothing is counted.
LEMMA CountedNot == (rcv' = "failed" \/ file'.action # "payload" \/ (rcv' = "answer" /\ wire' = << >>)) => Counted'
  BY DEF Counted

\* The stream stays.
LEMMA CountedStays ==
    ASSUME Counted, UNCHANGED <<given, plan, file, part, wire>>, rcv' \in {rcv, "failed"},
           snd' = "payload" => snd = "payload" /\ read' = read
    PROVE  Counted'
  <1>1. CASE rcv' = "failed"
    BY <1>1, CountedNot
  <1>2. CASE rcv' = rcv
    <2>1. Base' = Base
      BY <1>2 DEF Base, On, Target, Key, given
    <2> QED BY <1>2, <2>1 DEF Counted
  <1> QED BY <1>1, <1>2

\* A frame that carries no chunks is sent.
LEMMA CountedPut ==
    ASSUME Core, Counted, NEW f \in Frames, f.tag \notin {"data", "end"}, Put(<<f>>),
           UNCHANGED <<given, plan, file, part, rcv>>, snd' # "payload",
           file.action = "payload" /\ rcv = "answer" => wire # << >>
    PROVE  Counted'
  <1> SUFFICES ASSUME rcv # "failed", file.action = "payload" PROVE Counted'
    BY CountedNot
  <1>1. /\ \A j \in 1..Len(wire) : wire'[j] = wire[j]
        /\ wire'[Len(wire) + 1] = f /\ Len(wire') = Len(wire) + 1
        /\ DOMAIN wire = 1..Len(wire) /\ DOMAIN wire' = 1..Len(wire') /\ Len(wire) \in Nat
    BY PutOne DEF Core, Typed, WireTypes
  <1>2. rcv = "answer" => 1 \in 1..Len(wire)
    BY <1>1 DEF Core, Typed, WireTypes
  <1>3. Base' = Base
    BY <1>1, <1>2 DEF Base, On, Target, Key, given
  <1>4. \A j \in DOMAIN wire' : j \in DOMAIN wire \/ wire'[j] = f
    BY <1>1
  <1> QED BY <1>1, <1>3, <1>4 DEF Counted

\* SendManifest, SendHeader and SendDone.
LEMMA CountedSends == Core /\ Counted /\ (SendManifest \/ SendHeader \/ SendDone) => Counted'
  <1> SUFFICES ASSUME Core, Counted, SendManifest \/ SendHeader \/ SendDone PROVE Counted'
    OBVIOUS
  <1>1. Given /\ SenderTypes /\ Shape
    BY DEF Core, Typed
  <1>2. at \in Nat /\ 0 \in Nat /\ << >> \in Data
    BY <1>1, EntryFacts, FrameTypes DEF SenderTypes
  <1>3. CASE SendManifest
    <2>1. snd = "manifest" /\ Put(<<Frame("manifest", 0, << >>)>>) /\ snd' # "payload" /\ UNCHANGED <<given, plan, file, part, rcv>>
      BY <1>3 DEF SendManifest, session, output
    <2>2. rcv # "failed" => rcv = "frame"
      BY <2>1 DEF Core, Wired, Coupled, Unread
    <2>3. CASE rcv # "failed"
      BY <1>2, <2>1, <2>2, <2>3, CountedPut, FrameTypes
    <2> QED BY <2>1, <2>3, CountedNot
  <1>4. CASE SendHeader
    <2>1. snd = "header" /\ Put(<<Frame("header", at, imohash(listed[at]))>>) /\ snd' # "payload" /\ UNCHANGED <<given, plan, file, part, rcv>>
      BY <1>4 DEF SendHeader, session, output
    <2>2. rcv # "failed" /\ Busy => wire # << >>
      BY <2>1 DEF Core, Wired, Coupled, Between
    <2>3. imohash(listed[at]) \in [Sampled -> Nat]
      BY <1>1, SizeAssumption DEF SenderTypes, imohash, Contents
    <2>4. CASE rcv # "failed"
      BY <1>2, <2>1, <2>2, <2>3, <2>4, CountedPut, FrameTypes DEF Busy
    <2> QED BY <2>1, <2>4, CountedNot
  <1>5. CASE SendDone
    <2>1. snd = "finish" /\ Put(<<Frame("done", 0, << >>)>>) /\ snd' # "payload" /\ UNCHANGED <<given, plan, file, part, rcv>>
      BY <1>5 DEF SendDone, session, output
    <2>2. rcv # "failed" /\ Busy => wire # << >>
      BY <2>1 DEF Core, Wired, Coupled, Between
    <2>3. CASE rcv # "failed"
      BY <1>2, <2>1, <2>2, <2>3, CountedPut, FrameTypes DEF Busy
    <2> QED BY <2>1, <2>3, CountedNot
  <1> QED BY <1>3, <1>4, <1>5

\* Answer: the first chunk to come follows what was accepted.
LEMMA CountedAnswer == Core /\ Counted /\ Answer => Counted'
  <1> SUFFICES ASSUME Core, Counted, Answer PROVE Counted'
    OBVIOUS
  <1> DEFINE r == Head(reply)
  <1>1. /\ snd = "resume" /\ reply # << >> /\ UNCHANGED <<given, source, plan, file, part, rcv>>
        /\ AnswerMarker(r) \/ AnswerComplete(r) \/ AnswerResume(r)
    BY DEF Answer, session, output
  <1> SUFFICES ASSUME rcv # "failed", file.action = "payload" PROVE Counted'
    BY <1>1, CountedNot
  <1>2. rcv = "answer" /\ wire = << >> /\ batch[at].kind = "file" /\ r.tag # "complete"
    BY <1>1, ReplyMeans
  <1>3. AnswerResume(r)
    BY <1>1, <1>2 DEF AnswerMarker, AnswerComplete
  <1> DEFINE acc == IF PrefixMatches(r) THEN r.content ELSE << >>
  <1>4. /\ Put(<<Frame("answer", at, acc)>>) /\ read' = SubSeq(source[at], 1, Len(acc)) /\ snd' = "payload"
    BY <1>3 DEF AnswerResume
  <1>5. acc \in Data /\ Len(acc) \in Nat /\ Len(acc) <= Size /\ at \in Nat
    <2>1. r \in Replies /\ r.content \in Data /\ Len(r.content) <= Size
      BY <1>1, ReplyFacts DEF Core, Typed, WireTypes
    <2>2. << >> \in Data /\ Len(<< >>) <= Size /\ \A c \in Data : Len(c) \in Nat
      BY FrameTypes, SizeAssumption DEF Data
    <2> QED BY <2>1, <2>2, EntryFacts DEF Core, Typed, SenderTypes
  <1>6. source[at] \in Contents
    BY DEF Core, Typed, SenderTypes
  <1> HIDE DEF acc, r
  <1>7. Len(read') = Len(acc)
    BY <1>4, <1>5, <1>6 DEF Contents
  <1>8. Frame("answer", at, acc) \in Frames /\ Frame("answer", at, acc).tag = "answer" /\ Frame("answer", at, acc).content = acc
    BY <1>5, FrameTypes
  <1>9. Len(wire') = 1 /\ wire'[1] = Frame("answer", at, acc) /\ DOMAIN wire' = {1}
    BY <1>2, <1>4, <1>8, PutOne DEF Core, Typed, WireTypes
  <1>10. Base' = Len(acc) - 1
    BY <1>1, <1>2, <1>8, <1>9 DEF Base
  <1> QED BY <1>1, <1>2, <1>5, <1>7, <1>8, <1>9, <1>10 DEF Counted

\* SendData and SendEnd: the next frame.
LEMMA CountedNext ==
    ASSUME Core, Counted, snd = "payload", rcv # "failed", NEW f \in Frames, f.tag \in {"data", "end"}, Put(<<f>>),
           UNCHANGED <<given, plan, file, part, rcv>>,
           f.tag = "data" => Len(read) < Size, f.tag = "end" => Len(read) = Size,
           snd' = "payload" => Len(read') = Len(read) + 1
    PROVE  Counted'
  <1>1. /\ \A j \in 1..Len(wire) : wire'[j] = wire[j]
        /\ wire'[Len(wire) + 1] = f /\ Len(wire') = Len(wire) + 1
        /\ DOMAIN wire = 1..Len(wire) /\ DOMAIN wire' = 1..Len(wire') /\ Len(wire) \in Nat
    BY PutOne DEF Core, Typed, WireTypes
  <1>2. file.action = "payload" /\ (rcv = "answer" => wire # << >>)
    BY DEF Core, Wired, Coupled
  <1>3. rcv = "answer" => 1 \in 1..Len(wire)
    BY <1>1, <1>2 DEF Core, Typed, WireTypes
  <1>4. Base' = Base
    BY <1>1, <1>3 DEF Base, On, Target, Key, given
  <1>5. Base \in Int /\ Len(read) \in Nat /\ Size \in Nat
    BY <1>2, BaseInt, SizeAssumption DEF Core, Typed, SenderTypes, Data
  <1>6. /\ Base + 1 >= 0 /\ (rcv = "frame" => Base <= Size)
        /\ \A j \in DOMAIN wire : /\ wire[j].tag = "data" => Base + j <= Size
                                  /\ wire[j].tag = "end" => Base + j = Size + 1
        /\ Base + Len(wire) = Len(read)
    BY <1>2 DEF Counted
  <1>7. ASSUME NEW j \in DOMAIN wire' PROVE /\ wire'[j].tag = "data" => Base + j <= Size
                                            /\ wire'[j].tag = "end" => Base + j = Size + 1
    <2>1. CASE j \in DOMAIN wire
      BY <1>1, <1>6, <2>1
    <2>2. CASE j = Len(wire) + 1
      <3>1. wire'[j] = f
        BY <1>1, <2>2
      <3>2. Base + j = Len(read) + 1
        BY <1>1, <1>5, <1>6, <2>2
      <3> QED BY <1>5, <3>1, <3>2
    <2> QED BY <1>1, <2>1, <2>2
  <1>8. snd' = "payload" => Base + Len(wire') = Len(read')
    BY <1>1, <1>5, <1>6
  <1> QED BY <1>4, <1>6, <1>7, <1>8 DEF Counted

LEMMA CountedSendData == Core /\ Counted /\ SendData => Counted'
  <1> SUFFICES ASSUME Core, Counted, SendData PROVE Counted'
    OBVIOUS
  <1> DEFINE c == source[at][Len(read) + 1]
  <1>1. /\ snd = "payload" /\ Len(read) < Size /\ Put(<<Frame("data", at, <<c>>)>>) /\ read' = Append(read, c)
        /\ UNCHANGED <<given, plan, file, part, rcv>>
    BY DEF SendData, session, output
  <1>2. at \in Nat /\ <<c>> \in Data /\ Len(read') = Len(read) + 1
    <2>1. source[at] \in Contents /\ at \in Nat /\ read \in Data
      BY EntryFacts DEF Core, Typed, SenderTypes
    <2>2. c \in Nat
      BY <1>1, <2>1, SizeAssumption DEF Contents, Data
    <2> HIDE DEF c
    <2> QED BY <1>1, <2>1, <2>2 DEF Data
  <1> HIDE DEF c
  <1>3. CASE rcv # "failed"
    BY <1>1, <1>2, <1>3, CountedNext, FrameTypes
  <1> QED BY <1>1, <1>3, CountedNot

LEMMA CountedSendEnd == Core /\ Counted /\ SendEnd => Counted'
  <1> SUFFICES ASSUME Core, Counted, SendEnd PROVE Counted'
    OBVIOUS
  <1>1. /\ snd = "payload" /\ Len(read) = Size /\ Put(<<Frame("end", at, read)>>) /\ snd' # "payload"
        /\ UNCHANGED <<given, plan, file, part, rcv>>
    BY DEF SendEnd, session, output, NextEntry
  <1>2. at \in Nat /\ read \in Data
    BY EntryFacts DEF Core, Typed, SenderTypes
  <1>3. CASE rcv # "failed"
    BY <1>1, <1>2, <1>3, CountedNext, FrameTypes
  <1> QED BY <1>1, <1>3, CountedNot

\* A frame of the payload is read: the part file grows by its chunks, and the others move up.
LEMMA CountedTook ==
    ASSUME Core, Counted, wire # << >>, Took, file.action = "payload", rcv \in {"answer", "frame"}, rcv' = "frame",
           UNCHANGED <<given, sending, plan, file>>,
           Len(On(part, Target).content)' = Base + 1, Base + 1 <= Size
    PROVE  Counted'
  <1>1. /\ Len(wire') = Len(wire) - 1 /\ \A j \in 1..Len(wire') : wire'[j] = wire[j + 1]
        /\ DOMAIN wire = 1..Len(wire) /\ DOMAIN wire' = 1..Len(wire') /\ Len(wire) \in Nat \ {0}
    BY TookOne DEF Core, Typed, WireTypes
  <1>2. Base' = Base + 1
    BY DEF Base
  <1>3. Base \in Int /\ Base + 1 >= 0
    BY BaseInt
  <1>4. /\ \A j \in DOMAIN wire : /\ wire[j].tag = "data" => Base + j <= Size
                                  /\ wire[j].tag = "end" => Base + j = Size + 1
        /\ snd = "payload" => Base + Len(wire) = Len(read)
    BY DEF Counted
  <1>5. ASSUME NEW j \in DOMAIN wire' PROVE /\ wire'[j].tag = "data" => Base' + j <= Size
                                            /\ wire'[j].tag = "end" => Base' + j = Size + 1
    <2>1. j + 1 \in DOMAIN wire /\ wire'[j] = wire[j + 1] /\ j \in Nat
      BY <1>1
    <2>2. Base' + j = Base + (j + 1)
      BY <1>2, <1>3, <2>1
    <2> QED BY <1>4, <2>1, <2>2
  <1>6. snd' = "payload" => Base' + Len(wire') = Len(read')
    <2>1. snd' = snd /\ read' = read
      BY DEF sending
    <2> QED BY <1>1, <1>2, <1>3, <1>4, <2>1
  <1> QED BY <1>2, <1>3, <1>5, <1>6 DEF Counted

LEMMA CountedReadAnswer == Core /\ Counted /\ ReadAnswer => Counted'
  <1> SUFFICES ASSUME Core, Counted, ReadAnswer PROVE Counted'
    OBVIOUS
  <1>1. /\ rcv = "answer" /\ wire # << >> /\ Took /\ rcv' = "frame" /\ UNCHANGED <<given, sending, plan, file>>
        /\ part' = IF file.action = "payload" THEN [part EXCEPT ![Key(Target)] = File(Head(wire).content)] ELSE part
    BY DEF ReadAnswer
  <1> SUFFICES ASSUME file.action = "payload" PROVE Counted'
    BY <1>1, CountedNot
  <1>2. Key(Target) \in Names /\ part \in [Names -> Node] /\ UNCHANGED caseless
    BY <1>1, PartLength DEF Core, Typed, ReceiverTypes, given
  <1>3. On(part, Target)' = File(wire[1].content)
    BY <1>1, <1>2, FrameFacts DEF On, Target, Key
  <1>4. Base + 1 = Len(wire[1].content) /\ Base + 1 <= Size
    BY <1>1, BaseInt
  <1>5. Len(On(part, Target).content)' = Base + 1
    BY <1>3, <1>4 DEF File
  <1> QED BY <1>1, <1>4, <1>5, CountedTook

LEMMA CountedReadData == Core /\ Counted /\ ReadData => Counted'
  <1> SUFFICES ASSUME Core, Counted, ReadData PROVE Counted'
    OBVIOUS
  <1>1. /\ rcv = "frame" /\ rcv' = "frame" /\ wire # << >> /\ Head(wire).tag = "data" /\ Took
        /\ UNCHANGED <<given, sending, plan, file>>
        /\ part' = [part EXCEPT ![Key(Target)].content = @ \o Head(wire).content]
    BY DEF ReadData, Next_, session
  <1>2. /\ Head(wire) = wire[1] /\ 1 \in DOMAIN wire /\ wire[1].tag = "data" /\ wire[1].content \in Data
        /\ file.action = "payload" /\ Len(wire[1].content) = 1
    BY <1>1, FrameFacts DEF FrameAt
  <1>3. On(part, Target).content \in Data /\ Key(Target) \in Names /\ part \in [Names -> Node] /\ UNCHANGED caseless
    BY <1>1, <1>2, PartLength DEF Core, Typed, ReceiverTypes, given
  <1>4. On(part, Target).content' = On(part, Target).content \o wire[1].content
    BY <1>1, <1>2, <1>3 DEF On, Target, Key, Node
  <1>5. \A x, y \in Data : Len(x \o y) = Len(x) + Len(y) /\ Len(x) \in Nat
    BY DEF Data
  <1>6. Base = Len(On(part, Target).content)
    BY <1>1 DEF Base
  <1>7. Len(On(part, Target).content)' = Base + 1
    BY <1>2, <1>3, <1>4, <1>5, <1>6
  <1>8. Base + 1 <= Size
    BY <1>1, <1>2 DEF Counted
  <1> QED BY <1>1, <1>2, <1>7, <1>8, CountedTook

LEMMA NextCounted == Core /\ Counted /\ [Next]_vars => Counted'
  <1> SUFFICES ASSUME Core, Counted, [Next]_vars PROVE Counted'
    OBVIOUS
  <1>1. CASE \/ AnswerThrows \/ ReadAck \/ SenderLosesLine \/ Break \/ SenderStops
             \/ (\E i \in OfKind("file") : EditSource(i)) \/ (\E i \in Entries : LocalFile(batch[i].path))
             \/ ReconnectAlone("sender", "receiver") \/ ReconnectAlone("receiver", "sender") \/ UNCHANGED vars
    <2>1. UNCHANGED <<given, plan, file, part, wire, rcv>> /\ (snd' = "payload" => snd = "payload" /\ read' = read)
      <3>1. CASE AnswerThrows \/ ReadAck \/ SenderLosesLine \/ SenderStops
        BY <3>1 DEF AnswerThrows, ReadAck, SenderLosesLine, SenderStops, session, output
      <3>2. CASE Break \/ (\E i \in OfKind("file") : EditSource(i)) \/ (\E i \in Entries : LocalFile(batch[i].path))
        BY <3>2 DEF Break, EditSource, LocalFile, sending, network, session, output
      <3>3. CASE ReconnectAlone("sender", "receiver") \/ ReconnectAlone("receiver", "sender") \/ UNCHANGED vars
        BY <3>3 DEF ReconnectAlone, vars, sending, network, session, output
      <3> QED BY <1>1, <3>1, <3>2, <3>3
    <2> QED BY <2>1, CountedStays
  <1>2. CASE SendManifest \/ SendHeader \/ SendDone
    BY <1>2, CountedSends
  <1>3. CASE Answer \/ SendData \/ SendEnd
    BY <1>3, CountedAnswer, CountedSendData, CountedSendEnd
  <1>4. CASE ReadAnswer \/ ReadData
    BY <1>4, CountedReadAnswer, CountedReadData
  <1>5. CASE ReadManifest
    <2>1. rcv = "frame" /\ wire # << >> /\ Head(wire).tag = "manifest" /\ file' = file
      BY <1>5 DEF ReadManifest, Next_
    <2>2. Unread
      BY <2>1, FrameFacts DEF FrameAt
    <2>3. ~Planned
      BY <2>2, EntryFacts DEF Unread, Planned, Core, Typed
    <2> QED BY <2>1, <2>3, CountedNot DEF Core, Shape, NoFile
  <1>6. CASE PlanEntry
    BY <1>6, CountedNot DEF PlanEntry, Core, Shape, NoFile
  <1>7. CASE PlanThrows \/ ReceiverLosesLine \/ ReceiverStops
    BY <1>7, CountedNot DEF PlanThrows, ReceiverLosesLine, ReceiverStops
  <1>8. CASE ReadHeader
    <2>1. wire' = << >>
      BY <1>8, HeaderFacts DEF ReadHeader, Next_
    <2>2. rcv' \in {"answer", "failed"}
      BY <1>8, HeaderFacts DEF ReadHeader, Next_, Ask
    <2> QED BY <2>1, <2>2, CountedNot
  <1>9. CASE ReadEnd
    BY <1>9, CountedNot DEF ReadEnd, EndMarker, EndSkipped, EndPayload, NoFile
  <1>10. CASE ReadDone
    <2>1. Core'
      BY NextCore
    <2>2. rcv' = "done"
      BY <1>10 DEF ReadDone
    <2> QED BY <2>1, <2>2, CountedNot DEF Core, Shape, Busy
  <1>11. CASE Reconnect \/ Rerun
    BY <1>11, CountedNot DEF Reconnect, Rerun, Begin, NoFile
  <1> QED BY <1>1, <1>2, <1>3, <1>4, <1>5, <1>6, <1>7, <1>8, <1>9, <1>10, <1>11 DEF Next, Sender, Receiver, Retries

-----------------------------------------------------------------------------
(* Progress.                                                               *)

\* The chunks of some entries.
LEMMA ChunkFacts ==
    ASSUME Given
    PROVE  /\ \A is \in SUBSET Entries : Chunks(is) \in Nat /\ Chunks(is) <= Chunks(Entries)
           /\ \A is \in SUBSET Entries : \A i \in Entries \ is : /\ Chunks(is \cup {i}) \in Nat
                 /\ Chunks(is \cup {i}) = Chunks(is) + (IF batch[i].kind = "file" THEN Size ELSE 0)
                 /\ Chunks(is) + (IF batch[i].kind = "file" THEN Size ELSE 0) <= Chunks(Entries)
           /\ Chunks({}) = 0 /\ Size * Cardinality(OfKind("file")) = Chunks(Entries) /\ Chunks(Entries) \in Nat
  <1> DEFINE F == OfKind("file")
  <1>1. IsFiniteSet(Entries) /\ F \subseteq Entries /\ IsFiniteSet(F) /\ F \cap Entries = F
    BY EntryFacts, FS_Subset
  <1>2. \A m, n \in Nat : m <= n => Size * m <= Size * n
    BY SizeAssumption
  <1>3. \A m \in Nat : Size * m \in Nat /\ Size * (m + 1) = Size * m + Size
    BY SizeAssumption
  <1>4. \A i \in Entries : i \in F <=> batch[i].kind = "file"
    BY DEF OfKind
  <1> HIDE DEF F
  <1>5. \A is : Chunks(is) = Size * Cardinality(is \cap F)
    BY DEF Chunks, F
  <1>6. ASSUME NEW is \in SUBSET Entries
        PROVE  /\ IsFiniteSet(is \cap F) /\ Cardinality(is \cap F) \in Nat /\ Cardinality(F) \in Nat
               /\ Cardinality(is \cap F) <= Cardinality(F)
    <2>1. is \cap F \in SUBSET F
      OBVIOUS
    <2> QED BY <1>1, <2>1, FS_Subset, FS_CardinalityType
  <1>7. \A is \in SUBSET Entries : Chunks(is) \in Nat /\ Chunks(is) <= Chunks(Entries)
    <2> SUFFICES ASSUME NEW is \in SUBSET Entries PROVE Chunks(is) \in Nat /\ Chunks(is) <= Chunks(Entries)
      OBVIOUS
    <2>1. Entries \cap F = F
      BY <1>1
    <2> QED BY <1>2, <1>3, <1>5, <1>6, <2>1
  <1>8. ASSUME NEW is \in SUBSET Entries, NEW i \in Entries \ is
        PROVE  /\ Chunks(is \cup {i}) \in Nat /\ Chunks(is \cup {i}) <= Chunks(Entries)
               /\ Chunks(is \cup {i}) = Chunks(is) + (IF batch[i].kind = "file" THEN Size ELSE 0)
    <2>1. Chunks(is \cup {i}) \in Nat /\ Chunks(is \cup {i}) <= Chunks(Entries)
      BY <1>7
    <2>2. CASE batch[i].kind = "file"
      <3>1. (is \cup {i}) \cap F = (is \cap F) \cup {i} /\ i \notin is \cap F
        BY <1>4, <2>2
      <3>2. Cardinality((is \cap F) \cup {i}) = Cardinality(is \cap F) + 1
        BY <1>6, <3>1, FS_AddElement
      <3>3. Chunks(is \cup {i}) = Size * (Cardinality(is \cap F) + 1)
        BY <1>5, <3>1, <3>2
      <3>4. Chunks(is \cup {i}) = Size * Cardinality(is \cap F) + Size
        BY <1>3, <1>6, <3>3
      <3> QED BY <1>5, <2>1, <2>2, <3>4
    <2>3. CASE batch[i].kind # "file"
      <3>1. (is \cup {i}) \cap F = is \cap F
        BY <1>4, <2>3
      <3>2. Chunks(is \cup {i}) = Chunks(is)
        BY <1>5, <3>1
      <3> QED BY <1>7, <2>1, <2>3, <3>2
    <2> QED BY <2>2, <2>3
  <1>9. Chunks({}) = 0
    <2>1. {} \cap F = {} /\ Cardinality({}) = 0
      BY FS_EmptySet
    <2> QED BY <1>5, <2>1, SizeAssumption
  <1>10. Size * Cardinality(OfKind("file")) = Chunks(Entries)
    BY <1>1, <1>5 DEF F
  <1>11. \A is \in SUBSET Entries : \A i \in Entries \ is : /\ Chunks(is \cup {i}) \in Nat
           /\ Chunks(is \cup {i}) = Chunks(is) + (IF batch[i].kind = "file" THEN Size ELSE 0)
           /\ Chunks(is) + (IF batch[i].kind = "file" THEN Size ELSE 0) <= Chunks(Entries)
    BY <1>8
  <1>12. Chunks(Entries) \in Nat
    BY <1>7
  <1> QED BY <1>7, <1>9, <1>10, <1>11, <1>12

\* The parts of ProgressTrue.
LEMMA ProgressParts == ProgressTrue <=> ReceiverShown /\ SenderShown /\ Within
  BY DEF ProgressTrue, ReceiverShown, SenderShown, Within, Pending, Passed, Chunks

\* The entries before one.
LEMMA Earlier ==
    ASSUME Given, NEW i \in Entries
    PROVE  /\ i \in Nat /\ 1..(i - 1) \in SUBSET Entries /\ i \notin 1..(i - 1) /\ (1..(i - 1)) \cup {i} = 1..i
           /\ (i + 1) - 1 = i /\ (i = Len(batch) => 1..i = Entries)
  BY EntryFacts

\* What a front end shows never exceeds the batch.
LEMMA ReceiverWithin ==
    ASSUME Core, Counted, ReceiverShown, rcv # "failed"
    PROVE  shown["receiver"].done <= Chunks(Entries)
  <1>1. Given /\ Shape /\ received \in SUBSET Entries
    BY DEF Core, Typed, ReceiverTypes
  <1>2. CASE file.action \in {"payload", "skip"}
    <2>1. file.entry \in Entries /\ batch[file.entry].kind = "file"
      BY <1>1, <1>2, TargetFacts DEF Shape, Busy
    <2>2. received \ {file.entry} \in SUBSET Entries /\ file.entry \in Entries \ (received \ {file.entry})
      BY <1>1, <2>1
    <2>3. Chunks(received \ {file.entry}) \in Nat /\ Chunks(received \ {file.entry}) + Size <= Chunks(Entries)
      BY <1>1, <2>1, <2>2, ChunkFacts
    <2>4. Pending \in Nat /\ Pending <= Size
      <3>1. CASE rcv = "answer" \/ file.action = "skip"
        BY <1>2, <3>1, SizeAssumption DEF Pending
      <3>2. CASE rcv # "answer" /\ file.action = "payload"
        <4>1. rcv = "frame"
          BY <1>1, <3>2 DEF Shape, Busy, Core, Typed, ReceiverTypes
        <4>2. Len(On(part, Target).content) <= Size
          BY <3>2, <4>1 DEF Counted, Base
        <4> QED BY <3>2, <4>1, <4>2, PartLength DEF Pending
      <3> QED BY <1>2, <3>1, <3>2
    <2>5. shown["receiver"].done = Chunks(received \ {file.entry}) + Pending /\ Size \in Nat /\ Chunks(Entries) \in Nat
      BY <1>1, ChunkFacts, SizeAssumption DEF ReceiverShown
    <2> QED BY <2>3, <2>4, <2>5
  <1>3. CASE file.action \notin {"payload", "skip"}
    <2>1. Pending = 0
      BY <1>3 DEF Pending
    <2>2. received \ {file.entry} \in SUBSET Entries
      BY <1>1
    <2>3. Chunks(received \ {file.entry}) \in Nat /\ Chunks(received \ {file.entry}) <= Chunks(Entries)
      BY <1>1, <2>2, ChunkFacts
    <2> QED BY <2>1, <2>3 DEF ReceiverShown
  <1> QED BY <1>2, <1>3

LEMMA SenderWithin ==
    ASSUME Core, SenderShown, snd # "failed"
    PROVE  shown["sender"].done <= Chunks(Entries)
  <1>1. Given /\ at \in Entries /\ Len(read) \in Nat /\ Len(read) <= Size /\ (snd = "payload" => batch[at].kind = "file")
    BY DEF Core, Typed, SenderTypes, Sending, Data
  <1>2. 1..(at - 1) \in SUBSET Entries /\ at \in Entries \ (1..(at - 1))
    BY <1>1, Earlier
  <1>3. /\ Chunks(1..(at - 1)) \in Nat /\ Chunks(1..(at - 1)) <= Chunks(Entries) /\ Chunks(Entries) \in Nat
        /\ snd = "payload" => Chunks(1..(at - 1)) + Size <= Chunks(Entries)
    BY <1>1, <1>2, ChunkFacts
  <1>4. shown["sender"].done = Passed
    BY DEF SenderShown
  <1>5. CASE snd = "payload"
    BY <1>1, <1>3, <1>4, <1>5, SizeAssumption DEF Passed
  <1>6. CASE snd # "payload"
    BY <1>3, <1>4, <1>6 DEF Passed
  <1> QED BY <1>5, <1>6

\* The chunks of the same entries.
LEMMA ChunksStay ==
    ASSUME UNCHANGED given
    PROVE  /\ Chunks(Entries)' = Chunks(Entries)
           /\ \A is : received' \ {file'.entry} = is => Chunks(received \ {file.entry})' = Chunks(is)
           /\ \A is : 1..(at' - 1) = is => Chunks(1..(at - 1))' = Chunks(is)
  <1>1. UNCHANGED <<Entries, OfKind("file")>>
    BY DEF given, Entries, OfKind
  <1> QED BY <1>1 DEF Chunks

LEMMA PendingStays ==
    ASSUME UNCHANGED <<given, plan, file, part>>, rcv' = "answer" <=> rcv = "answer"
    PROVE  Pending' = Pending
  <1>1. Len(On(part, Target).content)' = Len(On(part, Target).content)
    BY DEF On, Target, Key, given
  <1> QED BY <1>1 DEF Pending

\* What the receiver shows stays true.
LEMMA ReceiverShownStays ==
    ASSUME ReceiverShown, UNCHANGED <<given, received, file>>, Pending' = Pending,
           rcv' # "failed" => rcv # "failed", shown'["receiver"] = shown["receiver"]
    PROVE  ReceiverShown'
  <1>1. PICK is : is = received \ {file.entry}
    OBVIOUS
  <1>2. Chunks(received \ {file.entry})' = Chunks(is)
    BY <1>1, ChunksStay
  <1> QED BY <1>1, <1>2 DEF ReceiverShown

\* The events of one side.
LEMMA ShownFacts ==
    ASSUME RunTypes, NEW s \in Sides
    PROVE  /\ \A n \in Nat : file_advance(s, n) /\ ~shown[s].finished =>
                 shown'[s].done = shown[s].done + n /\ shown'[s].finished = FALSE
           /\ \A n \in Nat : file_advance(s, n) => shown'[s].finished = shown[s].finished
           /\ transfer_complete(s) => shown'[s].done = Size * Cardinality(OfKind("file")) /\ shown'[s].finished = TRUE
           /\ \A n : file_advance(s, n) => \A t \in Sides \ {s} : shown'[t] = shown[t]
           /\ transfer_complete(s) => \A t \in Sides \ {s} : shown'[t] = shown[t]
           /\ shown' = [shown EXCEPT ![s] = Fresh] => /\ shown'[s] = Fresh
                                                      /\ \A t \in Sides \ {s} : shown'[t] = shown[t]
           /\ shown[s].done \in Nat /\ shown[s].finished \in BOOLEAN
  <1> DEFINE n0 == Size * Cardinality(OfKind("file"))
  <1>1. transfer_complete(s) => shown' = [shown EXCEPT ![s].done = n0, ![s].finished = TRUE]
    BY DEF transfer_complete
  <1> HIDE DEF n0
  <1>2. transfer_complete(s) => shown'[s].done = n0 /\ shown'[s].finished = TRUE /\ \A t \in Sides \ {s} : shown'[t] = shown[t]
    BY <1>1 DEF RunTypes
  <1>3. \A n \in Nat : file_advance(s, n) => /\ ~shown[s].finished => shown'[s].done = shown[s].done + n
                                             /\ shown'[s].finished = shown[s].finished
    BY DEF RunTypes, file_advance
  <1>4. \A n : file_advance(s, n) => \A t \in Sides \ {s} : shown'[t] = shown[t]
    BY DEF RunTypes, file_advance
  <1>5. shown' = [shown EXCEPT ![s] = Fresh] => shown'[s] = Fresh /\ \A t \in Sides \ {s} : shown'[t] = shown[t]
    BY DEF RunTypes
  <1>6. shown[s].done \in Nat /\ shown[s].finished \in BOOLEAN
    BY DEF RunTypes
  <1> QED BY <1>2, <1>3, <1>4, <1>5, <1>6 DEF n0

\* The steps of the sender and of the others.
LEMMA ReceiverShownOthers ==
    ASSUME Core, Progress,
           \/ Sender \/ Break \/ SenderStops
           \/ (\E i \in OfKind("file") : EditSource(i)) \/ (\E i \in Entries : LocalFile(batch[i].path))
           \/ ReconnectAlone("sender", "receiver") \/ UNCHANGED vars
    PROVE  ReceiverShown'
  <1>1. RunTypes /\ "sender" \in Sides /\ "receiver" \in Sides \ {"sender"}
    BY DEF Core, Typed, Sides
  <1>2. ASSUME UNCHANGED <<given, plan, received, file, part, rcv>>, shown'["receiver"] = shown["receiver"]
        PROVE  ReceiverShown'
    BY <1>2, PendingStays, ReceiverShownStays DEF Progress
  <1>3. CASE SendManifest \/ SendHeader \/ AnswerThrows \/ SendEnd \/ SendDone \/ SenderLosesLine \/ SenderStops
    BY <1>2, <1>3 DEF SendManifest, SendHeader, AnswerThrows, SendEnd, SendDone, SenderLosesLine, SenderStops,
                      session, output, outcome
  <1>4. CASE Answer
    <2> DEFINE r == Head(reply)
    <2>1. UNCHANGED <<given, plan, received, file, part, rcv>> /\ (AnswerMarker(r) \/ AnswerComplete(r) \/ AnswerResume(r))
      BY <1>4 DEF Answer, session, output
    <2>2. AnswerMarker(r) => UNCHANGED shown
      BY DEF AnswerMarker
    <2>3. AnswerComplete(r) \/ AnswerResume(r) => \E n : file_advance("sender", n)
      BY DEF AnswerComplete, AnswerResume
    <2> QED BY <1>1, <1>2, <2>1, <2>2, <2>3, ShownFacts
  <1>5. CASE SendData \/ ReadAck
    <2>1. UNCHANGED <<given, plan, received, file, part, rcv>> /\ (file_advance("sender", 1) \/ transfer_complete("sender"))
      BY <1>5 DEF SendData, ReadAck, session, output
    <2> QED BY <1>1, <1>2, <2>1, ShownFacts
  <1>6. CASE Break \/ (\E i \in OfKind("file") : EditSource(i)) \/ (\E i \in Entries : LocalFile(batch[i].path)) \/ UNCHANGED vars
    BY <1>2, <1>6 DEF Break, EditSource, LocalFile, vars, session, output, outcome
  <1>7. CASE ReconnectAlone("sender", "receiver")
    <2>1. UNCHANGED <<given, plan, received, file, part, rcv>> /\ shown' = [shown EXCEPT !["sender"] = Fresh]
      BY <1>7 DEF ReconnectAlone, session, output
    <2> QED BY <1>1, <1>2, <2>1, ShownFacts
  <1> QED BY <1>3, <1>4, <1>5, <1>6, <1>7 DEF Sender

\* ReadManifest and PlanEntry.
LEMMA ReceiverShownPlan == Core /\ Progress /\ (ReadManifest \/ PlanEntry) => ReceiverShown'
  <1> SUFFICES ASSUME Core, Progress, ReadManifest \/ PlanEntry PROVE ReceiverShown'
    OBVIOUS
  <1>1. CASE ReadManifest
    <2>1. UNCHANGED <<given, plan, received, file, part, shown>> /\ rcv = "frame" /\ rcv' = "plan"
      BY <1>1 DEF ReadManifest, Next_, output, outcome
    <2>2. Pending' = Pending
      BY <2>1, PendingStays
    <2> QED BY <2>1, <2>2, ReceiverShownStays DEF Progress
  <1>2. CASE PlanEntry
    <2>1. UNCHANGED <<given, received, file, part, shown>> /\ rcv = "plan"
      BY <1>2 DEF PlanEntry, output, outcome
    <2>2. file = NoFile
      BY <2>1 DEF Core, Shape
    <2>3. Pending' = Pending
      BY <2>1, <2>2 DEF Pending, NoFile
    <2> QED BY <2>1, <2>3, ReceiverShownStays DEF Progress
  <1> QED BY <1>1, <1>2

\* ReadHeader: nothing is shown of an entry before its answer.
LEMMA ReceiverShownHeader == Core /\ Progress /\ ReadHeader => ReceiverShown'
  <1> SUFFICES ASSUME Core, Progress, ReadHeader, rcv' # "failed" PROVE ReceiverShown'
    BY DEF ReceiverShown
  <1>1. rcv = "frame" /\ wire # << >> /\ Head(wire).tag = "header" /\ Took /\ UNCHANGED <<given, shown>>
    BY DEF ReadHeader, Next_
  <1>2. Head(wire).entry = at /\ ~Busy /\ received \subseteq 1..(at - 1) /\ at \in Nat /\ batch[at].kind \in {"file", "link", "dir"}
    BY <1>1, HeaderFacts
  <1>3. file'.entry = at /\ received' = received \cup {at} /\ rcv' = "answer"
    BY <1>2 DEF ReadHeader, Ask
  <1>4. file.entry = 0 /\ file.action = "none"
    BY <1>2 DEF Core, Shape, Busy
  <1>5. PICK is : is = received
    OBVIOUS
  <1>6. received' \ {file'.entry} = is /\ received \ {file.entry} = is
    <2>1. \A i \in received : i \in Nat /\ i < at /\ i # 0
      BY <1>2
    <2> QED BY <1>3, <1>4, <1>5, <2>1
  <1>7. Chunks(received \ {file.entry})' = Chunks(is)
    BY <1>1, <1>6, ChunksStay
  <1>8. Pending = 0 /\ Pending' = 0
    BY <1>3, <1>4 DEF Pending
  <1>9. shown["receiver"].done = Chunks(is) + Pending
    BY <1>1, <1>6 DEF Progress, ReceiverShown
  <1> QED BY <1>1, <1>7, <1>8, <1>9 DEF ReceiverShown

\* ReadAnswer: what is resumed or spared is shown at once.
LEMMA ReceiverShownAnswer == Core /\ Progress /\ ReadAnswer => ReceiverShown'
  <1> SUFFICES ASSUME Core, Progress, ReadAnswer PROVE ReceiverShown'
    OBVIOUS
  <1> DEFINE n == CASE file.action = "skip"    -> Size
                    [] file.action = "payload" -> Len(Head(wire).content)
                    [] file.action = "marker"  -> 0
  <1>1. /\ rcv = "answer" /\ wire # << >> /\ Took /\ rcv' = "frame" /\ UNCHANGED <<given, received, plan, file>>
        /\ part' = IF file.action = "payload" THEN [part EXCEPT ![Key(Target)] = File(Head(wire).content)] ELSE part
        /\ file_advance("receiver", n)
    BY DEF ReadAnswer
  <1>2. Busy /\ RunTypes /\ ~shown["receiver"].finished /\ Given /\ received \in SUBSET Entries
    BY <1>1 DEF Core, Typed, Shape, Progress, Within, Sides, RunTypes, ReceiverTypes
  <1>3. Head(wire).content = wire[1].content /\ Len(wire[1].content) \in Nat
    BY <1>1, FrameFacts DEF FrameAt
  <1>4. n \in Nat /\ Pending' = n
    <2>1. CASE file.action = "payload"
      <3>1. Key(Target) \in Names /\ part \in [Names -> Node] /\ UNCHANGED caseless
        BY <1>1, <2>1, PartLength DEF Core, Typed, ReceiverTypes, given
      <3>2. On(part, Target)' = File(wire[1].content)
        BY <1>1, <1>3, <2>1, <3>1 DEF On, Target, Key
      <3> QED BY <1>1, <1>3, <2>1, <3>2 DEF Pending, File
    <2>2. CASE file.action = "skip"
      BY <1>1, <2>2, SizeAssumption DEF Pending
    <2>3. CASE file.action = "marker"
      BY <1>1, <2>3 DEF Pending
    <2> QED BY <1>2, <2>1, <2>2, <2>3 DEF Busy, Core, Shape
  <1>5. Pending = 0
    BY <1>1 DEF Pending
  <1> HIDE DEF n
  <1>6. PICK is : is = received \ {file.entry}
    OBVIOUS
  <1>7. Chunks(received \ {file.entry})' = Chunks(is)
    BY <1>1, <1>6, ChunksStay
  <1>8. shown["receiver"].done = Chunks(is) + 0
    BY <1>1, <1>5, <1>6 DEF Progress, ReceiverShown
  <1>9. shown'["receiver"].done = shown["receiver"].done + n
    BY <1>1, <1>2, <1>4, ShownFacts DEF Sides
  <1>10. Chunks(is) \in Nat
    BY <1>2, <1>6, ChunkFacts
  <1> QED BY <1>4, <1>7, <1>8, <1>9, <1>10 DEF ReceiverShown

\* ReadData.
LEMMA ReceiverShownData == Core /\ Progress /\ ReadData => ReceiverShown'
  <1> SUFFICES ASSUME Core, Progress, ReadData PROVE ReceiverShown'
    OBVIOUS
  <1>1. /\ rcv = "frame" /\ rcv' = "frame" /\ wire # << >> /\ Head(wire).tag = "data" /\ Took
        /\ UNCHANGED <<given, received, plan, file>>
        /\ part' = [part EXCEPT ![Key(Target)].content = @ \o Head(wire).content] /\ file_advance("receiver", 1)
    BY DEF ReadData, Next_, session
  <1>2. /\ Head(wire) = wire[1] /\ wire[1].content \in Data /\ file.action = "payload" /\ Len(wire[1].content) = 1
    BY <1>1, FrameFacts DEF FrameAt
  <1>3. On(part, Target).content \in Data /\ Key(Target) \in Names /\ part \in [Names -> Node] /\ UNCHANGED caseless
    BY <1>1, <1>2, PartLength DEF Core, Typed, ReceiverTypes, given
  <1>4. On(part, Target).content' = On(part, Target).content \o wire[1].content
    BY <1>1, <1>2, <1>3 DEF On, Target, Key, Node
  <1>5. \A x, y \in Data : Len(x \o y) = Len(x) + Len(y) /\ Len(x) \in Nat
    BY DEF Data
  <1>6. Len(On(part, Target).content)' = Len(On(part, Target).content) + 1 /\ Len(On(part, Target).content) \in Nat
    BY <1>2, <1>3, <1>4, <1>5
  <1>7. Pending' = Pending + 1 /\ Pending \in Nat
    BY <1>1, <1>2, <1>6 DEF Pending
  <1>8. PICK is : is = received \ {file.entry}
    OBVIOUS
  <1>9. Chunks(received \ {file.entry})' = Chunks(is)
    BY <1>1, <1>8, ChunksStay
  <1>10. Given /\ RunTypes /\ received \in SUBSET Entries /\ ~shown["receiver"].finished
    BY <1>1 DEF Core, Typed, ReceiverTypes, Progress, Within, Sides, RunTypes
  <1>11. Chunks(is) \in Nat
    BY <1>8, <1>10, ChunkFacts
  <1>12. shown["receiver"].done = Chunks(is) + Pending
    BY <1>1, <1>8 DEF Progress, ReceiverShown
  <1>13. shown'["receiver"].done = shown["receiver"].done + 1
    BY <1>1, <1>10, ShownFacts DEF Sides
  <1> QED BY <1>7, <1>9, <1>11, <1>12, <1>13 DEF ReceiverShown

\* ReadEnd: the entry is among the finished ones, with as many chunks as were shown of it.
LEMMA ReceiverShownEnd == Core /\ Counted /\ Progress /\ ReadEnd => ReceiverShown'
  <1> SUFFICES ASSUME Core, Counted, Progress, ReadEnd, rcv' # "failed" PROVE ReceiverShown'
    BY DEF ReceiverShown
  <1>1. /\ rcv = "frame" /\ wire # << >> /\ Head(wire).tag = "end" /\ UNCHANGED <<given, received, shown>>
        /\ EndMarker \/ EndSkipped \/ EndPayload
    BY DEF ReadEnd, Next_
  <1>2. file' = NoFile
    BY <1>1 DEF EndMarker, EndSkipped, EndPayload
  <1>3. wire[1].tag = "end" /\ 1 \in DOMAIN wire /\ Busy
    BY <1>1, FrameFacts DEF FrameAt
  <1>4. Given /\ received \in SUBSET Entries /\ file.entry \in received /\ Shape
    BY <1>3, TargetFacts DEF Core, Typed, ReceiverTypes
  <1>5. PICK is : is = received \ {file.entry}
    OBVIOUS
  <1>6. PICK js : js = received
    OBVIOUS
  <1>7. is \in SUBSET Entries /\ file.entry \in Entries \ is /\ js = is \cup {file.entry}
    BY <1>4, <1>5, <1>6
  <1>8. Chunks(is) \in Nat /\ Chunks(js) = Chunks(is) + (IF batch[file.entry].kind = "file" THEN Size ELSE 0)
    BY <1>4, <1>7, ChunkFacts
  <1>9. received' \ {file'.entry} = js
    <2>1. 0 \notin received
      BY <1>4, EntryFacts
    <2> QED BY <1>1, <1>2, <1>6, <2>1 DEF NoFile
  <1>10. Chunks(received \ {file.entry})' = Chunks(js)
    BY <1>1, <1>9, ChunksStay
  <1>11. Pending = IF batch[file.entry].kind = "file" THEN Size ELSE 0
    <2>1. CASE file.action = "payload"
      <3>1. Base = Len(On(part, Target).content) /\ Base \in Nat /\ Base + 1 = Size + 1
        BY <1>1, <1>3, <2>1, BaseInt DEF Counted, Base
      <3>2. Base = Size
        BY <3>1, SizeAssumption
      <3> QED BY <1>1, <1>4, <2>1, <3>1, <3>2 DEF Pending, Shape
    <2>2. CASE file.action = "skip"
      BY <1>1, <1>4, <2>2 DEF Pending, Shape
    <2>3. CASE file.action = "marker"
      BY <1>1, <1>4, <2>3 DEF Pending, Shape
    <2> QED BY <1>3, <1>4, <2>1, <2>2, <2>3 DEF Busy, Shape
  <1>12. Pending' = 0
    BY <1>2 DEF Pending, NoFile
  <1>13. shown["receiver"].done = Chunks(js)
    BY <1>1, <1>5, <1>8, <1>11 DEF Progress, ReceiverShown
  <1>14. Chunks(js) \in Nat
    BY <1>8, <1>11, SizeAssumption
  <1> QED BY <1>1, <1>10, <1>12, <1>13, <1>14 DEF ReceiverShown

\* ReadDone: everything has been received.
LEMMA ReceiverShownDone == Core /\ Progress /\ ReadDone => ReceiverShown'
  <1> SUFFICES ASSUME Core, Progress, ReadDone PROVE ReceiverShown'
    OBVIOUS
  <1>1. /\ rcv = "frame" /\ wire # << >> /\ Head(wire).tag = "done" /\ received = Entries /\ rcv' = "done"
        /\ transfer_complete("receiver") /\ UNCHANGED <<given, received, file>>
    BY DEF ReadDone, Next_
  <1>2. ~Busy
    BY <1>1, FrameFacts DEF FrameAt, Final
  <1>3. file.entry = 0 /\ file.action = "none" /\ Given /\ RunTypes
    BY <1>2 DEF Core, Typed, Shape, Busy
  <1>4. PICK is : is = Entries
    OBVIOUS
  <1>5. received' \ {file'.entry} = is
    BY <1>1, <1>3, <1>4, EntryFacts
  <1>6. Chunks(received \ {file.entry})' = Chunks(is)
    BY <1>1, <1>5, ChunksStay
  <1>7. Pending' = 0
    BY <1>1, <1>3 DEF Pending
  <1>8. shown'["receiver"].done = Chunks(is) /\ Chunks(is) \in Nat
    BY <1>1, <1>3, <1>4, ShownFacts, ChunkFacts DEF Sides
  <1> QED BY <1>6, <1>7, <1>8 DEF ReceiverShown

\* What is sent, and where, never changes.
LEMMA GivenFixed == [Next]_vars => UNCHANGED given
  <1> SUFFICES ASSUME [Next]_vars PROVE UNCHANGED given
    OBVIOUS
  <1>1. Sender \/ SenderStops => UNCHANGED given
    BY DEF Sender, SendManifest, SendHeader, Answer, AnswerThrows, SendData, SendEnd, SendDone, ReadAck, SenderLosesLine,
           SenderStops
  <1>2. Receiver \/ ReceiverStops => UNCHANGED given
    BY DEF Receiver, ReadManifest, PlanEntry, PlanThrows, ReadHeader, ReadAnswer, ReadData, ReadEnd, ReadDone,
           ReceiverLosesLine, ReceiverStops
  <1>3. Retries \/ Rerun => UNCHANGED given
    BY DEF Retries, Reconnect, ReconnectAlone, Rerun, Begin
  <1>4. Break \/ (\E i \in OfKind("file") : EditSource(i)) \/ (\E i \in Entries : LocalFile(batch[i].path)) => UNCHANGED given
    BY DEF Break, EditSource, LocalFile
  <1>5. UNCHANGED vars => UNCHANGED given
    BY DEF vars
  <1> QED BY <1>1, <1>2, <1>3, <1>4, <1>5 DEF Next

LEMMA NextReceiverShown == Core /\ Counted /\ Progress /\ [Next]_vars => ReceiverShown'
  <1> SUFFICES ASSUME Core, Counted, Progress, [Next]_vars PROVE ReceiverShown'
    OBVIOUS
  <1>1. CASE \/ Sender \/ Break \/ SenderStops
             \/ (\E i \in OfKind("file") : EditSource(i)) \/ (\E i \in Entries : LocalFile(batch[i].path))
             \/ ReconnectAlone("sender", "receiver") \/ UNCHANGED vars
    BY <1>1, ReceiverShownOthers
  <1>2. CASE ReadManifest \/ PlanEntry \/ ReadHeader \/ ReadAnswer
    BY <1>2, ReceiverShownPlan, ReceiverShownHeader, ReceiverShownAnswer
  <1>3. CASE ReadData \/ ReadEnd \/ ReadDone
    BY <1>3, ReceiverShownData, ReceiverShownEnd, ReceiverShownDone
  <1>4. CASE PlanThrows \/ ReceiverLosesLine \/ ReceiverStops
    BY <1>4 DEF PlanThrows, ReceiverLosesLine, ReceiverStops, ReceiverShown
  <1>5. CASE ReconnectAlone("receiver", "sender")
    BY <1>5 DEF ReconnectAlone, is_retryable, session, Progress, Alone, ReceiverShown
  <1>6. CASE Reconnect \/ Rerun
    <2>1. /\ received' = {} /\ file' = NoFile /\ shown' = [s \in Sides |-> Fresh] /\ UNCHANGED given
      BY <1>6 DEF Reconnect, Rerun, Begin
    <2>2. received' \ {file'.entry} = {}
      BY <2>1
    <2>3. Chunks(received \ {file.entry})' = Chunks({})
      BY <2>1, <2>2, ChunksStay
    <2>4. Pending' = 0 /\ Chunks({}) = 0
      BY <2>1, ChunkFacts DEF Pending, NoFile, Core, Typed
    <2>5. shown'["receiver"].done = 0
      BY <2>1 DEF Sides, Fresh
    <2> QED BY <2>3, <2>4, <2>5 DEF ReceiverShown
  <1> QED BY <1>1, <1>2, <1>3, <1>4, <1>5, <1>6 DEF Next, Receiver, Retries

\* What the sender shows stays true.
LEMMA SenderShownStays ==
    ASSUME SenderShown, UNCHANGED <<given, at, read>>, shown'["sender"] = shown["sender"],
           \/ snd' = snd
           \/ snd' = "failed"
           \/ {snd, snd'} \subseteq {"manifest", "header", "resume"}
           \/ {snd, snd'} \subseteq {"finish", "ack", "done"}
    PROVE  SenderShown'
  <1>1. PICK is : is = 1..(at - 1)
    OBVIOUS
  <1>2. Chunks(1..(at - 1))' = Chunks(is) /\ Chunks(Entries)' = Chunks(Entries)
    BY <1>1, ChunksStay
  <1>3. snd' # "failed" => Passed' = Passed /\ snd # "failed"
    BY <1>1, <1>2 DEF Passed
  <1> QED BY <1>3 DEF SenderShown

\* The loop goes on to the next entry.
LEMMA NextPassed ==
    ASSUME Core, NextEntry, UNCHANGED given
    PROVE  /\ Passed' = Chunks(1..(at - 1)) + (IF batch[at].kind = "file" THEN Size ELSE 0)
           /\ Chunks(1..(at - 1)) \in Nat
  <1>1. Given /\ at \in Entries
    BY DEF Core, Typed, SenderTypes
  <1>2. /\ at \in Nat /\ 1..(at - 1) \in SUBSET Entries /\ at \in Entries \ (1..(at - 1)) /\ (1..(at - 1)) \cup {at} = 1..at
        /\ (at + 1) - 1 = at /\ (at = Len(batch) => 1..at = Entries)
    BY <1>1, Earlier
  <1>3. /\ Chunks(1..(at - 1)) \in Nat
        /\ Chunks(1..at) = Chunks(1..(at - 1)) + (IF batch[at].kind = "file" THEN Size ELSE 0)
    BY <1>1, <1>2, ChunkFacts
  <1>4. \/ snd' = "header" /\ at' = at + 1
        \/ snd' = "finish" /\ at' = at /\ at = Len(batch)
    BY <1>1, NextEntryFacts
  <1>5. PICK is : is = 1..at
    OBVIOUS
  <1>6. CASE snd' = "header" /\ at' = at + 1
    <2>1. 1..(at' - 1) = is
      BY <1>2, <1>5, <1>6
    <2>2. Chunks(1..(at - 1))' = Chunks(is)
      BY <2>1, ChunksStay
    <2>3. Passed' = Chunks(1..(at - 1))'
      BY <1>6 DEF Passed
    <2> QED BY <1>3, <1>5, <2>2, <2>3
  <1>7. CASE snd' = "finish" /\ at' = at /\ at = Len(batch)
    <2>1. Passed' = Chunks(Entries)' /\ Chunks(Entries)' = Chunks(Entries)
      BY <1>7, ChunksStay DEF Passed
    <2>2. Entries = is
      BY <1>2, <1>5, <1>7
    <2> QED BY <1>3, <1>5, <2>1, <2>2
  <1> QED BY <1>3, <1>4, <1>6, <1>7

\* Answer: a marker has no chunks, a file that the receiver has counts whole, a resumed one
\* with the accepted prefix.
LEMMA SenderShownAnswer == Core /\ Progress /\ Answer => SenderShown'
  <1> SUFFICES ASSUME Core, Progress, Answer PROVE SenderShown'
    OBVIOUS
  <1> DEFINE r == Head(reply)
  <1>1. /\ snd = "resume" /\ reply # << >> /\ UNCHANGED <<given, source>>
        /\ AnswerMarker(r) \/ AnswerComplete(r) \/ AnswerResume(r)
    BY DEF Answer
  <1>2. Given /\ RunTypes /\ ~shown["sender"].finished /\ shown["sender"].done = Chunks(1..(at - 1))
    BY <1>1 DEF Core, Typed, Progress, Alone, SenderShown, Passed
  <1>3. Size \in Nat /\ "sender" \in Sides
    BY SizeAssumption DEF Sides
  <1>4. CASE AnswerMarker(r)
    <2>1. UNCHANGED shown /\ batch[at].kind # "file" /\ NextEntry
      BY <1>4 DEF AnswerMarker
    <2> QED BY <1>1, <1>2, <2>1, NextPassed DEF SenderShown
  <1>5. CASE AnswerComplete(r)
    <2>1. file_advance("sender", Size) /\ batch[at].kind = "file" /\ NextEntry
      BY <1>5 DEF AnswerComplete
    <2>2. shown'["sender"].done = shown["sender"].done + Size
      BY <1>2, <1>3, <2>1, ShownFacts
    <2> QED BY <1>1, <1>2, <2>1, <2>2, NextPassed DEF SenderShown
  <1>6. CASE AnswerResume(r)
    <2> DEFINE acc == IF PrefixMatches(r) THEN r.content ELSE << >>
    <2>1. file_advance("sender", Len(acc)) /\ read' = SubSeq(source[at], 1, Len(acc)) /\ snd' = "payload" /\ UNCHANGED at
      BY <1>6 DEF AnswerResume
    <2>2. acc \in Data /\ Len(acc) \in Nat /\ Len(acc) <= Size
      <3>1. r.content \in Data /\ Len(r.content) <= Size
        BY <1>1, ReplyFacts DEF Core, Typed, WireTypes
      <3>2. << >> \in Data /\ Len(<< >>) <= Size /\ \A c \in Data : Len(c) \in Nat
        BY FrameTypes, SizeAssumption DEF Data
      <3> QED BY <3>1, <3>2
    <2>3. source[at] \in Contents
      BY DEF Core, Typed, SenderTypes
    <2> HIDE DEF acc
    <2>4. Len(read') = Len(acc)
      BY <2>1, <2>2, <2>3 DEF Contents
    <2>5. shown'["sender"].done = shown["sender"].done + Len(acc)
      BY <1>2, <1>3, <2>1, <2>2, ShownFacts
    <2>6. PICK is : is = 1..(at - 1)
      OBVIOUS
    <2>7. Chunks(1..(at - 1))' = Chunks(is)
      BY <1>1, <2>1, <2>6, ChunksStay
    <2>8. Passed' = Chunks(is) + Len(acc)
      BY <2>1, <2>4, <2>7 DEF Passed
    <2> QED BY <1>2, <2>5, <2>6, <2>8 DEF SenderShown
  <1> QED BY <1>1, <1>4, <1>5, <1>6

\* The other steps of the sender.
LEMMA SenderShownSender == Core /\ Progress /\ (Sender \/ SenderStops) => SenderShown'
  <1> SUFFICES ASSUME Core, Progress, Sender \/ SenderStops PROVE SenderShown'
    OBVIOUS
  <1>1. Given /\ SenderTypes /\ RunTypes /\ SenderShown /\ "sender" \in Sides
    BY DEF Core, Typed, Progress, Sides
  <1>2. CASE SendManifest
    <2>1. UNCHANGED <<given, read, shown>> /\ snd = "manifest" /\ snd' = "header" /\ at' = 1 /\ at = 1
      BY <1>2 DEF SendManifest, outcome, Core, Sending
    <2> QED BY <1>1, <2>1, SenderShownStays
  <1>3. CASE SendHeader \/ SendDone
    BY <1>1, <1>3, SenderShownStays DEF SendHeader, SendDone, outcome
  <1>4. CASE AnswerThrows \/ SenderLosesLine \/ SenderStops
    BY <1>4 DEF AnswerThrows, SenderLosesLine, SenderStops, SenderShown
  <1>5. CASE SendData
    <2>1. /\ snd = "payload" /\ snd' = "payload" /\ UNCHANGED <<given, at>> /\ file_advance("sender", 1)
          /\ read' = Append(read, source[at][Len(read) + 1])
      BY <1>5 DEF SendData
    <2>2. Len(read') = Len(read) + 1 /\ Len(read) \in Nat
      BY <1>1, <2>1 DEF SenderTypes, Data
    <2>3. ~shown["sender"].finished
      BY <1>1, <2>1 DEF Progress, Alone, RunTypes
    <2>4. shown'["sender"].done = shown["sender"].done + 1
      BY <1>1, <2>1, <2>3, ShownFacts
    <2>5. PICK is : is = 1..(at - 1)
      OBVIOUS
    <2>6. Chunks(1..(at - 1))' = Chunks(is)
      BY <2>1, <2>5, ChunksStay
    <2>7. Passed = Chunks(is) + Len(read) /\ Passed' = Chunks(is) + Len(read')
      BY <2>1, <2>5, <2>6 DEF Passed
    <2>8. shown["sender"].done = Passed
      BY <1>1, <2>1 DEF SenderShown
    <2>9. Chunks(is) \in Nat
      <3>1. at \in Entries
        BY <1>1 DEF SenderTypes
      <3>2. is \in SUBSET Entries
        BY <1>1, <2>5, <3>1, Earlier
      <3> QED BY <1>1, <3>2, ChunkFacts
    <2> QED BY <2>2, <2>4, <2>7, <2>8, <2>9 DEF SenderShown
  <1>6. CASE SendEnd
    <2>1. snd = "payload" /\ Len(read) = Size /\ NextEntry /\ UNCHANGED <<given, shown>>
      BY <1>6 DEF SendEnd, outcome
    <2>2. batch[at].kind = "file"
      BY <2>1 DEF Core, Sending
    <2>3. shown["sender"].done = Chunks(1..(at - 1)) + Size
      BY <1>1, <2>1 DEF SenderShown, Passed
    <2> QED BY <2>1, <2>2, <2>3, NextPassed DEF SenderShown
  <1>7. CASE ReadAck
    <2>1. snd' = "done" /\ transfer_complete("sender") /\ UNCHANGED given
      BY <1>7 DEF ReadAck
    <2>2. shown'["sender"].done = Chunks(Entries)
      BY <1>1, <2>1, ShownFacts, ChunkFacts
    <2>3. Passed' = Chunks(Entries)
      BY <2>1, ChunksStay DEF Passed
    <2> QED BY <2>2, <2>3 DEF SenderShown
  <1> QED BY <1>2, <1>3, <1>4, <1>5, <1>6, <1>7, SenderShownAnswer DEF Sender

LEMMA NextSenderShown == Core /\ Progress /\ [Next]_vars => SenderShown'
  <1> SUFFICES ASSUME Core, Progress, [Next]_vars PROVE SenderShown'
    OBVIOUS
  <1>1. RunTypes /\ SenderShown /\ "receiver" \in Sides /\ "sender" \in Sides \ {"receiver"}
    BY DEF Core, Typed, Progress, Sides
  <1>2. ASSUME UNCHANGED <<given, snd, at, read>>, shown'["sender"] = shown["sender"] PROVE SenderShown'
    BY <1>1, <1>2, SenderShownStays
  <1>3. CASE ReadManifest \/ PlanEntry \/ PlanThrows \/ ReadHeader \/ ReadEnd \/ ReceiverLosesLine \/ ReceiverStops
    BY <1>2, <1>3 DEF ReadManifest, PlanEntry, PlanThrows, ReadHeader, ReadEnd, ReceiverLosesLine, ReceiverStops,
                      sending, outcome
  <1>4. CASE ReadAnswer \/ ReadData \/ ReadDone
    <2>1. UNCHANGED <<given, snd, at, read>>
      BY <1>4 DEF ReadAnswer, ReadData, ReadDone, sending
    <2>2. (\E n : file_advance("receiver", n)) \/ transfer_complete("receiver")
      BY <1>4 DEF ReadAnswer, ReadData, ReadDone
    <2> QED BY <1>1, <1>2, <2>1, <2>2, ShownFacts
  <1>5. CASE Break \/ (\E i \in OfKind("file") : EditSource(i)) \/ (\E i \in Entries : LocalFile(batch[i].path)) \/ UNCHANGED vars
    BY <1>2, <1>5 DEF Break, EditSource, LocalFile, vars, sending, outcome
  <1>6. CASE ReconnectAlone("receiver", "sender")
    <2>1. UNCHANGED <<given, snd, at, read>> /\ shown' = [shown EXCEPT !["receiver"] = Fresh]
      BY <1>6 DEF ReconnectAlone, sending
    <2> QED BY <1>1, <1>2, <2>1, ShownFacts
  <1>7. CASE ReconnectAlone("sender", "receiver")
    BY <1>7 DEF ReconnectAlone, is_retryable, sending, Progress, Alone, SenderShown
  <1>8. CASE Reconnect \/ Rerun
    <2>1. snd' = "manifest" /\ at' = 1 /\ shown' = [s \in Sides |-> Fresh] /\ UNCHANGED given
      BY <1>8 DEF Reconnect, Rerun, Begin
    <2>2. 1..(at' - 1) = {}
      BY <2>1
    <2>3. Chunks(1..(at - 1))' = Chunks({})
      BY <2>1, <2>2, ChunksStay
    <2>4. Passed' = 0
      BY <2>1, <2>3, ChunkFacts DEF Passed, Core, Typed
    <2>5. shown'["sender"].done = 0
      BY <2>1 DEF Sides, Fresh
    <2> QED BY <2>4, <2>5 DEF SenderShown
  <1> QED BY <1>3, <1>4, <1>5, <1>6, <1>7, <1>8, SenderShownSender DEF Next, Receiver, Retries

\* The ends of the two sides, the reasons of their failures and what they show finished.
LEMMA Ends ==
    ASSUME Core, Progress, [Next]_vars, ~Begin
    PROVE  /\ snd = "failed" => snd' = "failed"
           /\ rcv = "failed" => rcv' = "failed"
           /\ rcv = "done" => rcv' = "done"
           /\ snd = "done" => snd' = "done"
           /\ why'["sender"] = "line" => why["sender"] = "line" \/ snd' = "failed"
           /\ why'["receiver"] = "line" => why["receiver"] = "line" \/ rcv' = "failed"
           /\ shown'["sender"].finished => shown["sender"].finished \/ snd' = "done"
           /\ shown'["receiver"].finished => shown["receiver"].finished \/ rcv' = "done"
           /\ rcv' = "failed" => shown'["receiver"] \in {shown["receiver"], Fresh}
           /\ snd' = "failed" => shown'["sender"] \in {shown["sender"], Fresh}
  <1>1. RunTypes /\ "receiver" \in Sides \ {"sender"} /\ "sender" \in Sides \ {"receiver"} /\ ~Fresh.finished
    BY DEF Core, Typed, Sides, Fresh
  <1>2. CASE SendManifest \/ SendHeader \/ SendEnd \/ SendDone
    BY <1>2 DEF SendManifest, SendHeader, SendEnd, SendDone, NextEntry, session, outcome
  <1>3. CASE AnswerThrows \/ SenderLosesLine \/ SenderStops
    BY <1>1, <1>3 DEF AnswerThrows, SenderLosesLine, SenderStops, Throws, session, Ended, RunTypes
  <1>4. CASE Answer
    <2> DEFINE r == Head(reply)
    <2>1. snd = "resume" /\ UNCHANGED <<rcv, why>> /\ (AnswerMarker(r) \/ AnswerComplete(r) \/ AnswerResume(r))
      BY <1>4 DEF Answer, session
    <2>2. snd' \in {"header", "finish", "payload"}
      BY <2>1 DEF AnswerMarker, AnswerComplete, AnswerResume, NextEntry
    <2>3. UNCHANGED shown \/ (\E n \in Nat : file_advance("sender", n))
      <3>1. CASE AnswerResume(r)
        <4>1. r.content \in Data
          BY <1>4, ReplyFacts DEF Answer, Core, Typed, WireTypes
        <4>2. Len(r.content) \in Nat /\ Len(<< >>) \in Nat
          BY <4>1, FrameTypes DEF Data
        <4> QED BY <3>1, <4>2 DEF AnswerResume
      <3> QED BY <2>1, <3>1, SizeAssumption DEF AnswerMarker, AnswerComplete
    <2> QED BY <1>1, <2>1, <2>2, <2>3, ShownFacts
  <1>5. CASE SendData
    <2>1. snd = "payload" /\ UNCHANGED <<snd, rcv, why>> /\ file_advance("sender", 1)
      BY <1>5 DEF SendData, session
    <2> QED BY <1>1, <2>1, ShownFacts
  <1>6. CASE ReadAck
    <2>1. snd = "ack" /\ snd' = "done" /\ UNCHANGED <<rcv, why>> /\ transfer_complete("sender")
      BY <1>6 DEF ReadAck, session
    <2> QED BY <1>1, <2>1, ShownFacts
  <1>7. CASE ReadManifest \/ PlanEntry \/ ReadHeader
    <2>1. UNCHANGED <<snd, shown>> /\ rcv \in {"frame", "plan"} /\ rcv' # "done"
      BY <1>7, HeaderFacts DEF ReadManifest, PlanEntry, ReadHeader, Next_, Ask, sending, outcome
    <2>2. UNCHANGED why \/ why' = [why EXCEPT !["receiver"] = "refused"]
      BY <1>7, HeaderFacts DEF ReadManifest, PlanEntry, ReadHeader, Next_, Ask, Throws, outcome
    <2> QED BY <1>1, <2>1, <2>2 DEF RunTypes
  <1>8. CASE PlanThrows \/ ReceiverLosesLine \/ ReceiverStops
    BY <1>1, <1>8 DEF PlanThrows, ReceiverLosesLine, ReceiverStops, Throws, sending, Ended, RunTypes
  <1>9. CASE ReadAnswer
    <2>1. rcv = "answer" /\ rcv' = "frame" /\ UNCHANGED <<snd, why>>
      BY <1>9 DEF ReadAnswer, sending
    <2>2. shown'["sender"] = shown["sender"] /\ shown'["receiver"].finished = shown["receiver"].finished
      BY <1>9 DEF ReadAnswer, file_advance, RunTypes, Core, Typed, Sides
    <2> QED BY <2>1, <2>2
  <1>10. CASE ReadData
    <2>1. rcv = "frame" /\ UNCHANGED <<rcv, snd, why>> /\ file_advance("receiver", 1)
      BY <1>10 DEF ReadData, Next_, sending, session
    <2> QED BY <1>1, <2>1, ShownFacts
  <1>11. CASE ReadEnd
    BY <1>1, <1>11 DEF ReadEnd, Next_, EndMarker, EndSkipped, EndPayload, Throws, sending, RunTypes
  <1>12. CASE ReadDone
    <2>1. rcv = "frame" /\ rcv' = "done" /\ UNCHANGED <<snd, why>> /\ transfer_complete("receiver")
      BY <1>12 DEF ReadDone, Next_, sending
    <2> QED BY <1>1, <2>1, ShownFacts
  <1>13. CASE ReconnectAlone("sender", "receiver") \/ ReconnectAlone("receiver", "sender")
    BY <1>1, <1>13 DEF ReconnectAlone, sending, session, RunTypes
  <1>14. CASE Break \/ (\E i \in OfKind("file") : EditSource(i)) \/ (\E i \in Entries : LocalFile(batch[i].path)) \/ UNCHANGED vars
    BY <1>14 DEF Break, EditSource, LocalFile, vars, sending, session, outcome
  <1>15. ~(Reconnect \/ Rerun)
    BY DEF Reconnect, Rerun
  <1> QED BY <1>2, <1>3, <1>4, <1>5, <1>6, <1>7, <1>8, <1>9, <1>10, <1>11, <1>12, <1>13, <1>14, <1>15
          DEF Next, Sender, Receiver, Retries

\* What is shown stays within the batch.
LEMMA NextProgress == Core /\ Counted /\ Progress /\ [Next]_vars => Progress'
  <1> SUFFICES ASSUME Core, Counted, Progress, [Next]_vars PROVE Progress'
    OBVIOUS
  <1>1. ReceiverShown' /\ SenderShown' /\ Core' /\ Counted'
    BY NextReceiverShown, NextSenderShown, NextCore, NextCounted
  <1>2. Chunks(Entries)' = Chunks(Entries) /\ Chunks(Entries) \in Nat
    <2>1. UNCHANGED given
      BY GivenFixed
    <2> QED BY <2>1, ChunksStay, ChunkFacts DEF Core, Typed
  <1>3. CASE Begin
    <2>1. shown' = [s \in Sides |-> Fresh] /\ why' = [s \in Sides |-> "none"]
      BY <1>3 DEF Begin
    <2>2. Within' /\ Alone'
      BY <1>2, <2>1 DEF Within, Alone, Sides, Fresh
    <2> QED BY <1>1, <2>2 DEF Progress
  <1>4. CASE ~Begin
    <2>1. Alone'
      BY <1>4, Ends DEF Progress, Alone
    <2>2. \A s \in Sides : shown'[s].finished => rcv' = "done"
      <3>1. shown'["sender"].finished => rcv' = "done"
        BY <1>1, <2>1 DEF Alone, Core, Sending
      <3>2. shown'["receiver"].finished => rcv' = "done"
        BY <1>4, Ends DEF Progress, Within, Sides
      <3> QED BY <3>1, <3>2 DEF Sides
    <2>3. shown'["receiver"].done <= Chunks(Entries)
      <3>1. CASE rcv' # "failed"
        <4>1. (rcv # "failed" => shown["receiver"].done <= Chunks(Entries))'
          BY <1>1, ReceiverWithin, PTL
        <4> QED BY <1>2, <3>1, <4>1
      <3>2. CASE rcv' = "failed"
        <4>1. shown'["receiver"] \in {shown["receiver"], Fresh}
          BY <1>4, <3>2, Ends
        <4> QED BY <1>2, <4>1 DEF Progress, Within, Sides, Fresh
      <3> QED BY <3>1, <3>2
    <2>4. shown'["sender"].done <= Chunks(Entries)
      <3>1. CASE snd' # "failed"
        <4>1. (snd # "failed" => shown["sender"].done <= Chunks(Entries))'
          BY <1>1, SenderWithin, PTL
        <4> QED BY <1>2, <3>1, <4>1
      <3>2. CASE snd' = "failed"
        <4>1. shown'["sender"] \in {shown["sender"], Fresh}
          BY <1>4, <3>2, Ends
        <4> QED BY <1>2, <4>1 DEF Progress, Within, Sides, Fresh
      <3> QED BY <3>1, <3>2
    <2>5. Within'
      BY <1>2, <2>2, <2>3, <2>4 DEF Within, Sides
    <2> QED BY <1>1, <2>1, <2>5 DEF Progress
  <1> QED BY <1>3, <1>4

LEMMA InitProgress == Init => Counted /\ Progress
  <1> SUFFICES ASSUME Init PROVE Counted /\ Progress
    OBVIOUS
  <1>1. Given
    BY InitCore DEF Core, Typed
  <1>2. /\ snd = "manifest" /\ at = 1 /\ rcv = "frame" /\ received = {} /\ file = NoFile
        /\ shown = [s \in Sides |-> Fresh] /\ why = [s \in Sides |-> "none"]
    BY DEF Init
  <1>3. received \ {file.entry} = {} /\ 1..(at - 1) = {}
    BY <1>2
  <1>4. ReceiverShown /\ SenderShown
    BY <1>1, <1>2, <1>3, ChunkFacts DEF ReceiverShown, SenderShown, Pending, Passed, NoFile, Fresh, Sides
  <1>5. Within /\ Alone
    BY <1>1, <1>2, ChunkFacts DEF Within, Alone, Fresh, Sides
  <1> QED BY <1>2, <1>4, <1>5 DEF Counted, Progress, NoFile

LEMMA SpecProgress == Spec => []Progress
  BY InitCore, InitProgress, NextCore, NextCounted, NextProgress, PTL DEF Spec

\* What a front end shows is what happened: on the receiver the chunks of the finished files
\* and of the part file, on the sender what it sent or was spared; it never exceeds the
\* batch, and no side shows the transfer finished before the receiver has it all.
THEOREM ShownIsTrue == Spec => []ProgressTrue
  <1>1. Progress => ProgressTrue
    BY ProgressParts DEF Progress
  <1> QED BY <1>1, SpecProgress, PTL

-----------------------------------------------------------------------------
(* What is kept.                                                           *)

\* Chunks of the sources.
LEMMA OnesFacts ==
    /\ Ones(<< >>) /\ Ones(Original) /\ Original \in Contents
    /\ \A c \in Data, d \in Data : Ones(c) /\ Ones(d) => Ones(c \o d)
    /\ \A c \in Data : Ones(c) => /\ \A n \in 0..Len(c) : Ones(SubSeq(c, 1, n))
                                  /\ Len(c) <= Size => c = SubSeq(Original, 1, Len(c))
                                  /\ Len(c) = Size => c = Original
  <1>1. Ones(<< >>) /\ Ones(Original) /\ Original \in Contents
    BY NodeFacts DEF Ones, Original, Copies
  <1>2. ASSUME NEW c \in Data, NEW d \in Data, Ones(c), Ones(d) PROVE Ones(c \o d)
    <2>1. c \in Seq(Nat) /\ d \in Seq(Nat)
      BY DEF Data
    <2>2. \A j \in DOMAIN (c \o d) : (c \o d)[j] = 1
      <3> SUFFICES ASSUME NEW j \in DOMAIN (c \o d) PROVE (c \o d)[j] = 1
        OBVIOUS
      <3>1. j \in 1..(Len(c) + Len(d)) /\ Len(c) \in Nat /\ Len(d) \in Nat
        BY <2>1
      <3>2. CASE j <= Len(c)
        BY <1>2, <2>1, <3>1, <3>2 DEF Ones
      <3>3. CASE j > Len(c)
        <4>1. (c \o d)[j] = d[j - Len(c)] /\ j - Len(c) \in 1..Len(d)
          BY <2>1, <3>1, <3>3
        <4> QED BY <1>2, <2>1, <4>1 DEF Ones
      <3> QED BY <3>1, <3>2, <3>3
    <2> QED BY <2>2 DEF Ones
  <1>3. ASSUME NEW c \in Data, Ones(c)
        PROVE  /\ \A n \in 0..Len(c) : Ones(SubSeq(c, 1, n))
               /\ Len(c) <= Size => c = SubSeq(Original, 1, Len(c))
               /\ Len(c) = Size => c = Original
    <2>1. c \in Seq(Nat) /\ Len(c) \in Nat /\ \A j \in 1..Len(c) : c[j] = 1
      BY <1>3 DEF Data, Ones
    <2>2. \A n \in 0..Len(c) : Ones(SubSeq(c, 1, n))
      BY <2>1 DEF Ones
    <2>3. Original \in Seq(Nat) /\ Len(Original) = Size /\ \A j \in 1..Size : Original[j] = 1
      BY SizeAssumption DEF Original, Copies
    <2>4. ASSUME Len(c) <= Size PROVE c = SubSeq(Original, 1, Len(c))
      <3> DEFINE d == SubSeq(Original, 1, Len(c))
      <3>1. d \in Seq(Nat) /\ Len(d) = Len(c) /\ \A j \in 1..Len(c) : d[j] = Original[j]
        BY <2>1, <2>3, <2>4, SizeAssumption
      <3>2. \A j \in 1..Len(c) : d[j] = c[j]
        BY <2>1, <2>3, <2>4, <3>1, SizeAssumption
      <3> HIDE DEF d
      <3>3. c = d
        BY <2>1, <3>1, <3>2
      <3> QED BY <3>3 DEF d
    <2>5. ASSUME Len(c) = Size PROVE c = Original
      <3>1. \A j \in 1..Len(c) : c[j] = Original[j]
        BY <2>1, <2>3, <2>5
      <3> HIDE DEF Original
      <3> QED BY <2>1, <2>3, <2>5, <3>1
    <2> QED BY <2>2, <2>4, <2>5
  <1> QED BY <1>1, <1>2, <1>3

\* What an entry has stays when its part file, its place and its plan do, or its place is taken.
LEMMA HadStays ==
    ASSUME NEW i \in Entries, Had(i), UNCHANGED given, wrote'[i] = wrote[i],
           part'[Key(batch[i].path)].content = part[Key(batch[i].path)].content,
           \/ disk'[Key(batch[i].path)] = disk[Key(batch[i].path)]
           \/ disk[Key(batch[i].path)].kind # "file" /\ disk'[Key(batch[i].path)] # Nothing,
           i \in DOMAIN plan' => i \in DOMAIN plan /\ plan'[i] = plan[i]
    PROVE  Had(i)'
  <1>1. UNCHANGED <<batch, caseless, policy>>
    BY DEF given
  <1>2. Key(batch[i].path)' = Key(batch[i].path)
    BY <1>1 DEF Key
  <1> HIDE DEF Key
  <1> QED BY <1>1, <1>2 DEF Had

\* The sources are not touched.
LEMMA KeptFrom ==
    ASSUME Core, Kept, UNCHANGED <<given, source, listed, edits>>, torn => torn', wrote' \in [Entries -> Nat],
           Intact /\ Intact' /\ Unchanged /\ Named /\ InHand /\ (\A i \in Entries : Had(i)) =>
              /\ Ones(read') /\ \A i \in Entries : Ones(sent'[i])
              /\ \A j \in DOMAIN wire' : wire'[j].tag # "header" => Ones(wire'[j].content)
              /\ \A j \in DOMAIN reply' : Ones(reply'[j].content)
              /\ \A n \in Names : Ones(part'[n].content)
              /\ Named' /\ InHand' /\ \A i \in Entries : Had(i)'
    PROVE  Kept'
  <1>1. UNCHANGED <<batch, policy, Entries>>
    BY DEF given, Entries
  <1>2. Intact' => Intact
    BY <1>1 DEF Intact
  <1> SUFFICES ASSUME Intact, Intact' PROVE Unchanged' /\ Named' /\ InHand' /\ \A i \in Entries : Had(i)'
    BY <1>1, <1>2 DEF Kept
  <1>3. Unchanged /\ Named /\ InHand /\ \A i \in Entries : Had(i)
    BY DEF Kept
  <1> HIDE DEF Had, Named, InHand
  <1>4. Unchanged'
    BY <1>1, <1>3 DEF Unchanged
  <1> QED BY <1>3, <1>4

\* The plan, the directory and what was received are not touched either.
LEMMA KeptStays ==
    ASSUME Core, Kept, UNCHANGED <<given, source, listed, plan, disk, wrote, edits>>, torn => torn',
           Intact /\ Intact' /\ Unchanged /\ InHand =>
              /\ Ones(read') /\ \A i \in Entries : Ones(sent'[i])
              /\ \A j \in DOMAIN wire' : wire'[j].tag # "header" => Ones(wire'[j].content)
              /\ \A j \in DOMAIN reply' : Ones(reply'[j].content)
              /\ \A n \in Names : part'[n].content = part[n].content
              /\ InHand'
    PROVE  Kept'
  <1>1. Given /\ wrote' \in [Entries -> Nat]
    BY DEF Kept, Core, Typed
  <1> SUFFICES ASSUME Intact, Intact', Unchanged, Named, InHand, \A i \in Entries : Had(i)
               PROVE  /\ \A n \in Names : Ones(part'[n].content)
                      /\ Named' /\ \A i \in Entries : Had(i)'
    BY <1>1, KeptFrom
  <1>2. \A n \in Names : Ones(part'[n].content)
    BY DEF Unchanged
  <1>3. Named'
    BY DEF Named, given
  <1>4. ASSUME NEW i \in Entries PROVE Had(i)'
    <2>1. Key(batch[i].path) \in Names
      BY <1>1, BatchTypes, KeyNames
    <2> QED BY <2>1, HadStays
  <1> QED BY <1>2, <1>3, <1>4

\* Only the sender moves.
LEMMA KeptSender ==
    ASSUME Core, Kept, UNCHANGED <<given, source, listed, plan, file, disk, part, wrote, rcv, edits, torn>>,
           Intact /\ Unchanged /\ InHand =>
              /\ Ones(read') /\ \A i \in Entries : Ones(sent'[i])
              /\ \A j \in DOMAIN wire' : wire'[j].tag # "header" => Ones(wire'[j].content)
              /\ \A j \in DOMAIN reply' : Ones(reply'[j].content)
              /\ InHand'
    PROVE  Kept'
  BY KeptStays

\* A frame is put on the wire.
LEMMA PutOnes ==
    ASSUME wire \in Seq(Frames), NEW f \in Frames, Put(<<f>>), f.tag # "header" => Ones(f.content),
           \A j \in DOMAIN wire : wire[j].tag # "header" => Ones(wire[j].content)
    PROVE  /\ \A j \in DOMAIN wire' : wire'[j].tag # "header" => Ones(wire'[j].content)
           /\ wire # << >> => wire'[1] = wire[1]
           /\ wire = << >> => wire'[1] = f
  <1>1. /\ \A j \in 1..Len(wire) : wire'[j] = wire[j]
        /\ wire'[Len(wire) + 1] = f /\ Len(wire') = Len(wire) + 1
        /\ DOMAIN wire = 1..Len(wire) /\ DOMAIN wire' = 1..Len(wire') /\ Len(wire) \in Nat
    BY PutOne
  <1>2. \A j \in DOMAIN wire' : (j \in DOMAIN wire /\ wire'[j] = wire[j]) \/ wire'[j] = f
    BY <1>1
  <1>3. wire # << >> => 1 \in 1..Len(wire)
    BY <1>1
  <1> QED BY <1>1, <1>2, <1>3

\* The offer and its answer stay.
LEMMA InHandStays ==
    ASSUME InHand, UNCHANGED <<given, plan, file, part, wrote, rcv>>,
           rcv = "answer" /\ file.action = "payload" =>
              /\ reply' # << >> => reply # << >> /\ reply'[1] = reply[1]
              /\ wire' # << >> => wire # << >> /\ wire'[1] = wire[1]
    PROVE  InHand'
  <1>1. On(part, Target)' = On(part, Target)
    BY DEF On, Target, Key, given
  <1> HIDE DEF On, Target
  <1> QED BY <1>1 DEF InHand

\* The sender stops.
LEMMA KeptSenderFails == Core /\ Kept /\ (AnswerThrows \/ SenderLosesLine \/ SenderStops) => Kept'
  <1> SUFFICES ASSUME Core, Kept, AnswerThrows \/ SenderLosesLine \/ SenderStops PROVE Kept'
    OBVIOUS
  <1>1. UNCHANGED <<given, source, listed, plan, file, disk, part, wrote, rcv, edits, torn, read, sent, wire, reply>>
    BY DEF AnswerThrows, SenderLosesLine, SenderStops, session, output, counts
  <1>2. InHand => InHand'
    BY <1>1, InHandStays
  <1> QED BY <1>1, <1>2, KeptSender DEF Unchanged

\* SendManifest, SendHeader and SendDone.
LEMMA KeptPut ==
    ASSUME Core, Kept, NEW f \in Frames, Put(<<f>>), f.tag # "header" => f.content = << >>,
           UNCHANGED <<given, source, listed, plan, file, disk, part, wrote, rcv, edits, torn, read, sent, reply>>,
           rcv # "failed" /\ Busy => wire # << >>
    PROVE  Kept'
  <1>1. wire \in Seq(Frames)
    BY DEF Core, Typed, WireTypes
  <1> SUFFICES ASSUME Intact, Unchanged, InHand
               PROVE  /\ Ones(read') /\ \A i \in Entries : Ones(sent'[i])
                      /\ \A j \in DOMAIN wire' : wire'[j].tag # "header" => Ones(wire'[j].content)
                      /\ \A j \in DOMAIN reply' : Ones(reply'[j].content)
                      /\ InHand'
    BY KeptSender
  <1>2. /\ \A j \in DOMAIN wire' : wire'[j].tag # "header" => Ones(wire'[j].content)
        /\ wire # << >> => wire'[1] = wire[1]
    BY <1>1, PutOnes, OnesFacts DEF Unchanged
  <1>3. InHand'
    BY <1>2, InHandStays DEF Busy
  <1> QED BY <1>2, <1>3 DEF Unchanged

LEMMA KeptSends == Core /\ Kept /\ (SendManifest \/ SendHeader \/ SendDone) => Kept'
  <1> SUFFICES ASSUME Core, Kept, SendManifest \/ SendHeader \/ SendDone PROVE Kept'
    OBVIOUS
  <1>1. Given /\ SenderTypes /\ Shape
    BY DEF Core, Typed
  <1>2. at \in Nat /\ 0 \in Nat /\ << >> \in Data
    BY <1>1, EntryFacts, FrameTypes DEF SenderTypes
  <1>3. UNCHANGED <<given, source, listed, plan, file, disk, part, wrote, rcv, edits, torn, read, sent, reply>>
    BY DEF SendManifest, SendHeader, SendDone, session, output, counts
  <1>4. CASE SendManifest
    <2>1. snd = "manifest" /\ Put(<<Frame("manifest", 0, << >>)>>)
      BY <1>4 DEF SendManifest
    <2>2. rcv # "failed" => ~Busy
      <3>1. rcv # "failed" => plan = << >>
        BY <2>1 DEF Core, Wired, Coupled, Unread
      <3> QED BY <1>1, <3>1, EntryFacts DEF Shape, Busy, Planned, NoFile
    <2>3. /\ Frame("manifest", 0, << >>) \in Frames /\ Frame("manifest", 0, << >>).tag = "manifest"
          /\ Frame("manifest", 0, << >>).content = << >>
      BY <1>2, FrameTypes
    <2> QED BY <1>3, <2>1, <2>2, <2>3, KeptPut
  <1>5. CASE SendHeader
    <2>1. snd = "header" /\ Put(<<Frame("header", at, imohash(listed[at]))>>)
      BY <1>5 DEF SendHeader
    <2>2. rcv # "failed" /\ Busy => wire # << >>
      BY <2>1 DEF Core, Wired, Coupled, Between
    <2>3. imohash(listed[at]) \in [Sampled -> Nat]
      BY <1>1, SizeAssumption DEF SenderTypes, imohash, Contents
    <2>4. /\ Frame("header", at, imohash(listed[at])) \in Frames /\ Frame("header", at, imohash(listed[at])).tag = "header"
          /\ Frame("header", at, imohash(listed[at])).content = imohash(listed[at])
      BY <1>2, <2>3, FrameTypes
    <2> QED BY <1>3, <2>1, <2>2, <2>4, KeptPut
  <1>6. CASE SendDone
    <2>1. snd = "finish" /\ Put(<<Frame("done", 0, << >>)>>)
      BY <1>6 DEF SendDone
    <2>2. rcv # "failed" /\ Busy => wire # << >>
      BY <2>1 DEF Core, Wired, Coupled, Between
    <2>3. /\ Frame("done", 0, << >>) \in Frames /\ Frame("done", 0, << >>).tag = "done"
          /\ Frame("done", 0, << >>).content = << >>
      BY <1>2, FrameTypes
    <2> QED BY <1>3, <2>1, <2>2, <2>3, KeptPut
  <1> QED BY <1>4, <1>5, <1>6

\* SendData and SendEnd.
LEMMA KeptNextFrame ==
    ASSUME Core, Kept, snd = "payload", NEW f \in Frames, f.tag \in {"data", "end"}, Put(<<f>>),
           UNCHANGED <<given, source, listed, plan, file, disk, part, wrote, rcv, edits, torn, reply>>,
           Unchanged => Ones(f.content) /\ Ones(read') /\ \A i \in Entries : Ones(sent'[i])
    PROVE  Kept'
  <1>1. wire \in Seq(Frames)
    BY DEF Core, Typed, WireTypes
  <1> SUFFICES ASSUME Intact, Unchanged, InHand
               PROVE  /\ Ones(read') /\ \A i \in Entries : Ones(sent'[i])
                      /\ \A j \in DOMAIN wire' : wire'[j].tag # "header" => Ones(wire'[j].content)
                      /\ \A j \in DOMAIN reply' : Ones(reply'[j].content)
                      /\ InHand'
    BY KeptSender
  <1>2. /\ \A j \in DOMAIN wire' : wire'[j].tag # "header" => Ones(wire'[j].content)
        /\ wire # << >> => wire'[1] = wire[1]
    BY <1>1, PutOnes DEF Unchanged
  <1>3. rcv = "answer" => wire # << >>
    BY DEF Core, Wired, Coupled
  <1>4. InHand'
    BY <1>2, <1>3, InHandStays
  <1> QED BY <1>2, <1>4 DEF Unchanged

LEMMA KeptSendData == Core /\ Kept /\ SendData => Kept'
  <1> SUFFICES ASSUME Core, Kept, SendData PROVE Kept'
    OBVIOUS
  <1> DEFINE c == source[at][Len(read) + 1]
  <1>1. /\ snd = "payload" /\ Len(read) < Size /\ Put(<<Frame("data", at, <<c>>)>>) /\ read' = Append(read, c)
        /\ UNCHANGED <<given, source, listed, plan, file, disk, part, wrote, rcv, edits, torn, sent, reply>>
    BY DEF SendData, session, output, counts
  <1>2. source[at] \in Contents /\ at \in Nat /\ read \in Data /\ Len(read) \in Nat /\ at \in Entries
    BY EntryFacts DEF Core, Typed, SenderTypes, Data
  <1>3. c \in Nat
    BY <1>1, <1>2, SizeAssumption DEF Contents
  <1>4. Unchanged => c = 1
    BY <1>1, <1>2, SizeAssumption DEF Unchanged, Original, Copies
  <1> HIDE DEF c
  <1>5. <<c>> \in Data /\ (Unchanged => Ones(<<c>>))
    BY <1>3, <1>4 DEF Data, Ones
  <1>6. read' = read \o <<c>>
    BY <1>1, <1>2, <1>3 DEF Data
  <1>7. Unchanged => Ones(read')
    BY <1>2, <1>5, <1>6, OnesFacts DEF Unchanged
  <1>8. Frame("data", at, <<c>>) \in Frames /\ Frame("data", at, <<c>>).tag = "data" /\ Frame("data", at, <<c>>).content = <<c>>
    BY <1>2, <1>5, FrameTypes
  <1>9. Unchanged => \A i \in Entries : Ones(sent'[i])
    BY <1>1 DEF Unchanged
  <1> QED BY <1>1, <1>5, <1>7, <1>8, <1>9, KeptNextFrame

LEMMA KeptSendEnd == Core /\ Kept /\ SendEnd => Kept'
  <1> SUFFICES ASSUME Core, Kept, SendEnd PROVE Kept'
    OBVIOUS
  <1>1. /\ snd = "payload" /\ Put(<<Frame("end", at, read)>>) /\ sent' = [sent EXCEPT ![at] = read]
        /\ UNCHANGED <<given, source, listed, plan, file, disk, part, wrote, rcv, edits, torn, read, reply>>
    BY DEF SendEnd, session, output, counts
  <1>2. at \in Nat /\ read \in Data /\ sent \in [Entries -> Data]
    BY EntryFacts DEF Core, Typed, SenderTypes
  <1>3. Frame("end", at, read) \in Frames /\ Frame("end", at, read).tag = "end" /\ Frame("end", at, read).content = read
    BY <1>2, FrameTypes
  <1>4. Unchanged => Ones(read) /\ \A i \in Entries : Ones(sent'[i])
    BY <1>1, <1>2 DEF Unchanged
  <1> QED BY <1>1, <1>3, <1>4, KeptNextFrame

\* ReadAck: the reply is gone.
LEMMA KeptReadAck == Core /\ Kept /\ ReadAck => Kept'
  <1> SUFFICES ASSUME Core, Kept, ReadAck PROVE Kept'
    OBVIOUS
  <1>1. /\ reply # << >> /\ reply' = Tail(reply)
        /\ UNCHANGED <<given, source, listed, plan, file, disk, part, wrote, rcv, edits, torn, read, sent, wire>>
    BY DEF ReadAck, session, output, counts
  <1>2. reply' = << >> /\ DOMAIN reply' = {}
    BY <1>1, ReplyFacts DEF Core, Typed, WireTypes
  <1>3. InHand => InHand'
    BY <1>1, <1>2, InHandStays
  <1> QED BY <1>1, <1>2, <1>3, KeptSender DEF Unchanged

\* Answer: what the receiver has is a prefix of the source, so all of it is accepted.
LEMMA KeptAnswer == Core /\ Kept /\ Answer => Kept'
  <1> SUFFICES ASSUME Core, Kept, Answer PROVE Kept'
    OBVIOUS
  <1> DEFINE r == Head(reply)
  <1>1. /\ snd = "resume" /\ reply # << >> /\ reply' = Tail(reply)
        /\ UNCHANGED <<given, source, listed, plan, file, disk, part, wrote, rcv, edits, torn>>
        /\ AnswerMarker(r) \/ AnswerComplete(r) \/ AnswerResume(r)
    BY DEF Answer, session, output, counts
  <1>2. /\ wire \in Seq(Frames) /\ at \in Nat /\ at \in Entries /\ reply' = << >> /\ DOMAIN reply' = {}
        /\ r = reply[1] /\ 1 \in DOMAIN reply /\ r \in Replies /\ r.content \in Data /\ Len(r.content) <= Size
    BY <1>1, ReplyFacts, EntryFacts DEF Core, Typed, WireTypes, SenderTypes
  <1> SUFFICES ASSUME Intact, Unchanged, InHand
               PROVE  /\ Ones(read') /\ \A i \in Entries : Ones(sent'[i])
                      /\ \A j \in DOMAIN wire' : wire'[j].tag # "header" => Ones(wire'[j].content)
                      /\ \A j \in DOMAIN reply' : Ones(reply'[j].content)
                      /\ InHand'
    BY <1>1, KeptSender
  <1>3. Ones(r.content)
    BY <1>2 DEF Unchanged
  <1>4. << >> \in Data /\ Ones(<< >>)
    BY FrameTypes, OnesFacts
  <1> HIDE DEF r
  <1>5. CASE AnswerMarker(r) \/ AnswerComplete(r)
    <2> DEFINE f == Frame("answer", at, r.content)
               g == Frame("end", at, << >>)
    <2>1. Put(<<f, g>>) /\ UNCHANGED <<read, sent>>
      BY <1>5 DEF AnswerMarker, AnswerComplete
    <2>2. f.content = r.content /\ g.content = << >> /\ f \in Frames /\ g \in Frames
      BY <1>2, <1>4, FrameTypes
    <2> HIDE DEF f, g
    <2>3. wire' = wire \o <<f, g>>
      BY <2>1 DEF Put
    <2>4. \A j \in DOMAIN wire' : (j \in DOMAIN wire /\ wire'[j] = wire[j]) \/ wire'[j] = f \/ wire'[j] = g
      BY <1>2, <2>2, <2>3
    <2>5. \A j \in DOMAIN wire' : wire'[j].tag # "header" => Ones(wire'[j].content)
      BY <1>3, <1>4, <2>2, <2>4 DEF Unchanged
    <2>6. rcv # "failed" => file.action # "payload"
      <3>1. CASE rcv # "failed"
        BY <1>1, <1>5, <3>1, ReplyMeans DEF AnswerMarker, AnswerComplete, r
      <3> QED BY <3>1
    <2>7. InHand'
      BY <1>1, <2>6 DEF InHand
    <2> QED BY <1>2, <2>1, <2>5, <2>7 DEF Unchanged
  <1>6. CASE AnswerResume(r)
    <2>1. source[at] = Original
      BY <1>2 DEF Unchanged
    <2>2. PrefixMatches(r)
      BY <1>2, <1>3, <2>1, OnesFacts DEF PrefixMatches
    <2> DEFINE f == Frame("answer", at, r.content)
    <2>3. Put(<<f>>) /\ read' = SubSeq(source[at], 1, Len(r.content)) /\ UNCHANGED sent
      BY <1>6, <2>2 DEF AnswerResume
    <2>4. f \in Frames /\ f.content = r.content
      BY <1>2, FrameTypes
    <2> HIDE DEF f
    <2>5. read' = r.content
      BY <1>2, <1>3, <2>1, <2>3, OnesFacts
    <2>6. /\ \A j \in DOMAIN wire' : wire'[j].tag # "header" => Ones(wire'[j].content)
          /\ wire = << >> => wire'[1] = f
      BY <1>2, <1>3, <2>3, <2>4, PutOnes DEF Unchanged
    <2>7. InHand'
      <3>1. On(part, Target)' = On(part, Target)
        BY <1>1 DEF On, Target, Key, given
      <3>2. rcv # "failed" => rcv = "answer" /\ wire = << >>
        BY <1>1, ReplyMeans
      <3> HIDE DEF On, Target
      <3> QED BY <1>1, <1>2, <2>4, <2>6, <3>1, <3>2 DEF InHand
    <2> QED BY <1>2, <1>3, <2>3, <2>5, <2>6, <2>7 DEF Unchanged
  <1> QED BY <1>1, <1>5, <1>6

\* A frame is read.
LEMMA TookOnes ==
    ASSUME wire \in Seq(Frames), wire # << >>, Took,
           \A j \in DOMAIN wire : wire[j].tag # "header" => Ones(wire[j].content)
    PROVE  \A j \in DOMAIN wire' : wire'[j].tag # "header" => Ones(wire'[j].content)
  <1>1. /\ Len(wire') = Len(wire) - 1 /\ \A j \in 1..Len(wire') : wire'[j] = wire[j + 1]
        /\ DOMAIN wire = 1..Len(wire) /\ DOMAIN wire' = 1..Len(wire') /\ Len(wire) \in Nat
    BY TookOne
  <1>2. \A j \in DOMAIN wire' : j + 1 \in DOMAIN wire /\ wire'[j] = wire[j + 1]
    BY <1>1
  <1> QED BY <1>2

\* Without a payload in progress nothing is in hand.
LEMMA InHandNot == (rcv' = "failed" \/ file'.action # "payload") => InHand'
  BY DEF InHand

\* The receiver reads what does not belong to an entry, or stops.
LEMMA KeptReadManifest == Core /\ Kept /\ ReadManifest => Kept'
  <1> SUFFICES ASSUME Core, Kept, ReadManifest PROVE Kept'
    OBVIOUS
  <1>1. /\ rcv = "frame" /\ wire # << >> /\ Head(wire).tag = "manifest" /\ Took
        /\ UNCHANGED <<given, source, listed, plan, file, disk, part, wrote, edits, torn, read, sent, reply>>
    BY DEF ReadManifest, Next_, sending, output, counts
  <1>2. wire \in Seq(Frames)
    BY DEF Core, Typed, WireTypes
  <1>3. ~Planned
    <2>1. Unread
      BY <1>1, FrameFacts DEF FrameAt
    <2> QED BY <2>1, EntryFacts DEF Unread, Planned, Core, Typed
  <1>4. InHand'
    BY <1>1, <1>3, InHandNot DEF Core, Shape, NoFile
  <1> QED BY <1>1, <1>2, <1>4, TookOnes, KeptStays DEF Unchanged

LEMMA KeptReadDone == Core /\ Kept /\ ReadDone => Kept'
  <1> SUFFICES ASSUME Core, Kept, ReadDone PROVE Kept'
    OBVIOUS
  <1> DEFINE r == Frame("ack", 0, << >>)
  <1>1. /\ rcv = "frame" /\ wire # << >> /\ Head(wire).tag = "done" /\ Took /\ reply' = Append(reply, r)
        /\ UNCHANGED <<given, source, listed, plan, file, disk, part, wrote, edits, torn, read, sent>>
    BY DEF ReadDone, Next_, sending, output, counts
  <1>2. wire \in Seq(Frames) /\ r \in Replies /\ r.content = << >> /\ Ones(<< >>)
    BY FrameTypes, OnesFacts DEF Core, Typed, WireTypes
  <1> HIDE DEF r
  <1>3. ~Busy /\ reply = << >>
    BY <1>1, FrameFacts DEF FrameAt, Final
  <1>4. InHand'
    BY <1>1, <1>3, InHandNot DEF Busy
  <1>5. \A j \in DOMAIN reply' : reply'[j] = r
    BY <1>1, <1>2, <1>3
  <1> QED BY <1>1, <1>2, <1>4, <1>5, TookOnes, KeptStays DEF Unchanged

LEMMA KeptReceiverFails == Core /\ Kept /\ (PlanThrows \/ ReceiverLosesLine \/ ReceiverStops) => Kept'
  <1> SUFFICES ASSUME Core, Kept, PlanThrows \/ ReceiverLosesLine \/ ReceiverStops PROVE Kept'
    OBVIOUS
  <1>1. CASE PlanThrows \/ ReceiverLosesLine
    <2>1. UNCHANGED <<given, source, listed, plan, disk, part, wrote, edits, torn, read, sent, wire, reply>> /\ rcv' = "failed"
      BY <1>1 DEF PlanThrows, ReceiverLosesLine, sending, output, counts
    <2>2. InHand'
      BY <2>1, InHandNot
    <2> QED BY <2>1, <2>2, KeptStays DEF Unchanged
  <1>2. CASE ReceiverStops
    <2>1. /\ rcv' = "failed" /\ UNCHANGED <<given, source, listed, plan, disk, wrote, edits, read, sent, wire, reply>>
          /\ \/ UNCHANGED <<part, torn>>
             \/ /\ file.action = "payload" /\ rcv = "frame"
                /\ \E n \in 0..Len(On(part, Target).content) :
                     /\ part' = [part EXCEPT ![Key(Target)].content = SubSeq(@, 1, n)]
                     /\ torn' = (torn \/ n < Len(On(part, Target).content))
      BY <1>2 DEF ReceiverStops, sending
    <2>2. InHand'
      BY <2>1, InHandNot
    <2>3. CASE UNCHANGED <<part, torn>>
      BY <2>1, <2>2, <2>3, KeptStays DEF Unchanged
    <2>4. CASE ~UNCHANGED <<part, torn>>
      <3>1. PICK n \in 0..Len(On(part, Target).content) :
                     /\ part' = [part EXCEPT ![Key(Target)].content = SubSeq(@, 1, n)]
                     /\ torn' = (torn \/ n < Len(On(part, Target).content))
        BY <2>1, <2>4
      <3>2. /\ part \in [Names -> Node] /\ Key(Target) \in Names /\ On(part, Target).content \in Data
            /\ On(part, Target) = part[Key(Target)] /\ Len(On(part, Target).content) \in Nat
        BY <2>1, <2>4, PartLength DEF Core, Typed, ReceiverTypes, On
      <3>3. torn => torn'
        BY <3>1
      <3>4. ~torn' => SubSeq(part[Key(Target)].content, 1, n) = part[Key(Target)].content
        <4> DEFINE len == Len(On(part, Target).content)
        <4>3. torn' = (torn \/ n < len) /\ n \in 0..len /\ len \in Nat /\ len = Len(part[Key(Target)].content)
          BY <3>1, <3>2
        <4> HIDE DEF len
        <4>4. ~torn' => ~(n < len)
          BY <4>3
        <4>1. ~torn' => n = Len(part[Key(Target)].content)
          BY <4>3, <4>4
        <4>2. \A c \in Data : SubSeq(c, 1, Len(c)) = c
          BY DEF Data
        <4> QED BY <3>2, <4>1, <4>2
      <3>5. ~torn' => \A m \in Names : part'[m].content = part[m].content
        BY <3>1, <3>2, <3>4 DEF Node
      <3> QED BY <2>1, <2>2, <3>3, <3>5, KeptStays DEF Unchanged, Intact
    <2> QED BY <2>3, <2>4
  <1> QED BY <1>1, <1>2

\* What the policies but "rename" plan for an entry.
LEMMA PlanForNamed ==
    ASSUME Given, NEW e \in [path : Seq(Nat), kind : {"file", "link", "dir"}], NEW taken, policy # "rename"
    PROVE  /\ PlanFor(e, taken).target = e.path
           /\ PlanFor(e, taken).action = "skip" => policy = "skip"
           /\ e.kind = "file" /\ policy = "skip" /\ disk[Key(e.path)] # Nothing => PlanFor(e, taken).action = "skip"
  <1>1. policy \in {"overwrite", "skip"}
    BY PoliciesAssumption DEF Given
  <1>2. CASE e.kind = "dir"
    BY <1>2 DEF PlanFor
  <1>3. CASE e.kind # "dir" /\ ~Exists(e.path)
    BY <1>3 DEF PlanFor, Exists, On
  <1>4. CASE e.kind # "dir" /\ Exists(e.path) /\ policy = "skip"
    BY <1>4 DEF PlanFor
  <1>5. CASE e.kind # "dir" /\ Exists(e.path) /\ policy = "overwrite"
    BY <1>5 DEF PlanFor
  <1> QED BY <1>1, <1>2, <1>3, <1>4, <1>5

LEMMA KeptPlanEntry == Core /\ Kept /\ PlanEntry => Kept'
  <1> SUFFICES ASSUME Core, Kept, PlanEntry PROVE Kept'
    OBVIOUS
  <1> DEFINE n == Len(plan) + 1
             d == PlanFor(batch[n], Taken)
             t == [target |-> d.target, action |-> d.action]
  <1>1. /\ rcv = "plan" /\ plan' = Append(plan, t)
        /\ UNCHANGED <<given, source, listed, file, disk, part, wrote, edits, torn, read, sent, wire, reply>>
    BY DEF PlanEntry, sending, network, output, counts
  <1>2. Given /\ Plans /\ file = NoFile /\ ~Planned /\ wrote' \in [Entries -> Nat]
    BY <1>1 DEF Core, Typed, Directory, Shape, Kept
  <1>3. n \in Entries /\ n \in Nat /\ DOMAIN plan = 1..Len(plan) /\ Len(plan) \in Nat
    BY <1>2, EntryFacts DEF Planned, Plans
  <1>4. batch[n] \in [path : Seq(Nat), kind : {"file", "link", "dir"}] /\ batch[n].path \in Paths
    BY <1>2, <1>3, BatchTypes
  <1> HIDE DEF d
  <1>5. /\ DOMAIN plan' = 1..n /\ plan'[n] = t /\ \A i \in DOMAIN plan : plan'[i] = plan[i]
        /\ \A i \in DOMAIN plan' : i \in DOMAIN plan \/ i = n
    BY <1>1, <1>2, <1>3 DEF Plans
  <1>6. InHand'
    BY <1>1, <1>2, InHandNot DEF NoFile
  <1> SUFFICES ASSUME Intact, Unchanged, Named, \A i \in Entries : Had(i)
               PROVE  Named' /\ \A i \in Entries : Had(i)'
    BY <1>1, <1>2, <1>6, KeptFrom DEF Unchanged
  <1>7. /\ d.target = batch[n].path
        /\ d.action = "skip" => policy = "skip"
        /\ batch[n].kind = "file" /\ policy = "skip" /\ disk[Key(batch[n].path)] # Nothing => d.action = "skip"
    BY <1>2, <1>4, PlanForNamed DEF d, Intact
  <1>8. Named'
    BY <1>1, <1>5, <1>7 DEF Named, given
  <1>9. ASSUME NEW i \in Entries PROVE Had(i)'
    <2>1. CASE i # n
      BY <1>1, <1>5, <2>1, HadStays
    <2>2. CASE i = n
      <3>1. UNCHANGED <<batch, caseless, policy, wrote, disk, part>> /\ Key(batch[i].path)' = Key(batch[i].path)
        BY <1>1 DEF given, Key
      <3>2. (i \in DOMAIN plan)' => plan'[i].action = d.action
        BY <1>5, <2>2
      <3> HIDE DEF Key, n, t
      <3> QED BY <1>7, <2>2, <3>1, <3>2 DEF Had
    <2> QED BY <2>1, <2>2
  <1> QED BY <1>8, <1>9

\* An entry that may be written leaves another one of its name to the policy "skip".
LEMMA HadOther ==
    ASSUME Core, Named, NEW e \in DOMAIN plan, plan[e].action # "skip", NEW i \in DOMAIN plan, i # e, Had(i),
           UNCHANGED <<given, plan>>, wrote'[i] = wrote[i],
           \A n \in Names : n # Key(batch[e].path) => part'[n].content = part[n].content /\ disk'[n] = disk[n],
           disk'[Key(batch[e].path)] # Nothing \/ UNCHANGED disk
    PROVE  Had(i)'
  <1>1. Given /\ Plans
    BY DEF Core, Typed, Directory
  <1>2. plan[i].target = batch[i].path /\ plan[e].target = batch[e].path /\ Key(batch[i].path) \in Names /\ i \in Entries
    BY <1>1, PlanTypes DEF Named
  <1>3. CASE Key(batch[i].path) # Key(batch[e].path)
    BY <1>2, <1>3, HadStays
  <1>4. CASE Key(batch[i].path) = Key(batch[e].path)
    <2>1. plan[i].action = "skip"
      BY <1>1, <1>2, <1>4 DEF Plans
    <2>2. policy = "skip" /\ disk[Key(batch[i].path)] # Nothing
      BY <1>1, <1>2, <2>1 DEF Named, Plans, On
    <2>3. disk'[Key(batch[i].path)] # Nothing
      BY <1>4, <2>2
    <2>4. UNCHANGED <<batch, policy>> /\ Key(batch[i].path)' = Key(batch[i].path)
      BY DEF given, Key
    <2> HIDE DEF Key
    <2> QED BY <2>1, <2>2, <2>3, <2>4 DEF Had
  <1> QED BY <1>3, <1>4

\* ReadHeader: a file that is there is spared; of another one the part file is offered.
LEMMA KeptReadHeader == Core /\ Kept /\ ReadHeader => Kept'
  <1> SUFFICES ASSUME Core, Kept, ReadHeader PROVE Kept'
    OBVIOUS
  <1> DEFINE d == plan[at]
             k == Key(d.target)
             c == SubSeq(On(part, d.target).content, 1, resumable_part_size(d.target))
  <1>1. /\ rcv = "frame" /\ wire # << >> /\ Head(wire).tag = "header" /\ Took
        /\ UNCHANGED <<given, source, listed, plan, part, wrote, edits, torn, read, sent>>
    BY DEF ReadHeader, Next_, sending, counts
  <1>2. /\ Head(wire).entry = at /\ Head(wire).content = imohash(listed[at]) /\ wire' = << >> /\ reply = << >>
        /\ at \in DOMAIN plan /\ at \in Entries /\ at \in Nat /\ k \in Names
        /\ batch[at].kind \in {"file", "link", "dir"}
    BY <1>1, HeaderFacts
  <1>3. Given /\ reply \in Seq(Replies) /\ Len(reply) <= 1 /\ disk \in [Names -> Node] /\ wrote' \in [Entries -> Nat]
    BY <1>1 DEF Core, Typed, WireTypes, ReceiverTypes, Kept
  <1> SUFFICES ASSUME Intact, Unchanged, Named, InHand, \A i \in Entries : Had(i)
               PROVE  /\ \A j \in DOMAIN reply' : Ones(reply'[j].content)
                      /\ InHand' /\ \A i \in Entries : Had(i)'
    <2>1. \A j \in DOMAIN wire' : Ones(wire'[j].content)
      BY <1>2
    <2>2. Named => Named'
      BY <1>1 DEF Named, given
    <2> QED BY <1>1, <1>3, <2>1, <2>2, KeptFrom DEF Unchanged
  <1>4. ASSUME disk'[k] = disk[k] \/ (disk[k].kind # "file" /\ disk'[k] # Nothing), \A n \in Names : n # k => disk'[n] = disk[n]
        PROVE  \A i \in Entries : Had(i)'
    <2> HIDE DEF k, d
    <2> TAKE i \in Entries
    <2>1. Key(batch[i].path) \in Names
      BY <1>3, BatchTypes, KeyNames
    <2> QED BY <1>1, <1>4, <2>1, HadStays
  <1>5. UNCHANGED disk => \A i \in Entries : Had(i)'
    BY <1>4
  <1>6. ASSUME NEW action, NEW tag \in {"resume", "complete"}, NEW content \in Data, Ask(action, at, tag, content), Ones(content)
        PROVE  /\ file' = [entry |-> at, action |-> action] /\ rcv' = "answer"
               /\ \A j \in DOMAIN reply' : Ones(reply'[j].content)
               /\ reply'[1].content = content
    <2> DEFINE r == Frame(tag, at, content)
    <2>1. r \in Replies /\ r.content = content /\ reply' = Append(reply, r)
      BY <1>2, <1>6, FrameTypes DEF Ask
    <2>2. DOMAIN reply' = {1} /\ reply'[1] = r
      BY <1>2, <2>1
    <2> HIDE DEF r
    <2> QED BY <1>6, <2>1, <2>2 DEF Ask
  <1>7. ASSUME NEW action \in {"skip", "marker"}, NEW tag \in {"resume", "complete"}, Ask(action, at, tag, << >>)
        PROVE  InHand' /\ \A j \in DOMAIN reply' : Ones(reply'[j].content)
    <2>1. file' = [entry |-> at, action |-> action] /\ \A j \in DOMAIN reply' : Ones(reply'[j].content)
      BY <1>6, <1>7, OnesFacts, FrameTypes
    <2> QED BY <2>1, InHandNot
  <1>8. \/ \E action \in {"skip", "marker"}, tag \in {"resume", "complete"} : Ask(action, at, tag, << >>) /\ UNCHANGED disk
        \/ disk[k] \in {Nothing, Dir} /\ disk' = [disk EXCEPT ![k] = Dir] /\ Ask("marker", at, "resume", << >>)
        \/ rcv' = "failed" /\ UNCHANGED <<disk, reply>>
        \/ /\ batch[at].kind = "file" /\ d.action # "skip" /\ ~IsDuplicate(d.target, imohash(listed[at]))
           /\ Ask("payload", at, "resume", c) /\ UNCHANGED disk
    BY <1>2 DEF ReadHeader, On
  <1>9. CASE \E action \in {"skip", "marker"}, tag \in {"resume", "complete"} : Ask(action, at, tag, << >>) /\ UNCHANGED disk
    BY <1>5, <1>7, <1>9
  <1>10. CASE disk[k] \in {Nothing, Dir} /\ disk' = [disk EXCEPT ![k] = Dir] /\ Ask("marker", at, "resume", << >>)
    <2>1. disk'[k] = Dir /\ \A n \in Names : n # k => disk'[n] = disk[n]
      BY <1>2, <1>3, <1>10
    <2>2. disk[k].kind # "file" /\ disk'[k] # Nothing
      BY <1>10, <2>1 DEF Nothing, Dir
    <2> QED BY <1>4, <1>7, <1>10, <2>1, <2>2
  <1>11. CASE rcv' = "failed" /\ UNCHANGED <<disk, reply>>
    BY <1>2, <1>5, <1>11, InHandNot
  <1>12. CASE /\ batch[at].kind = "file" /\ d.action # "skip" /\ ~IsDuplicate(d.target, imohash(listed[at]))
              /\ Ask("payload", at, "resume", c) /\ UNCHANGED disk
    <2>1. d.target = batch[at].path /\ listed[at] = Original /\ On(part, d.target) = part[k] /\ On(disk, d.target) = disk[k]
      BY <1>2 DEF Named, Unchanged, On
    <2>2. wrote[at] = Len(part[k].content) /\ wrote[at] <= Size
      BY <1>2, <1>12, <2>1 DEF Had, IsDuplicate
    <2>3. c \in Data /\ c = part[k].content
      BY <1>2, <2>1, <2>2, ResumeFacts
    <2>4. Ones(c)
      BY <1>2, <2>3 DEF Unchanged
    <2> HIDE DEF c
    <2>5. /\ file' = [entry |-> at, action |-> "payload"] /\ \A j \in DOMAIN reply' : Ones(reply'[j].content)
          /\ reply'[1].content = c
      BY <1>6, <1>12, <2>3, <2>4
    <2>6. On(part, Target)' = part[k]
      BY <1>1, <2>5 DEF On, Target, Key, given
    <2>7. InHand'
      <3> HIDE DEF On, Target, k
      <3> QED BY <1>1, <1>2, <2>2, <2>3, <2>5, <2>6 DEF InHand
    <2> QED BY <1>5, <1>12, <2>5, <2>7
  <1> QED BY <1>8, <1>9, <1>10, <1>11, <1>12

\* ReadAnswer: the part file is opened where it ends.
LEMMA KeptReadAnswer == Core /\ Kept /\ ReadAnswer => Kept'
  <1> SUFFICES ASSUME Core, Kept, ReadAnswer PROVE Kept'
    OBVIOUS
  <1> DEFINE k == Key(Target)
  <1>1. /\ rcv = "answer" /\ wire # << >> /\ Took /\ rcv' = "frame"
        /\ part' = IF file.action = "payload" THEN [part EXCEPT ![k] = File(Head(wire).content)] ELSE part
        /\ UNCHANGED <<given, source, listed, plan, file, disk, wrote, edits, torn, read, sent, reply>>
    BY DEF ReadAnswer, sending, counts
  <1>2. /\ wire \in Seq(Frames) /\ part \in [Names -> Node] /\ Head(wire) = wire[1]
        /\ k \in Names /\ On(part, Target) = part[k]
    BY <1>1, FrameFacts, TargetFacts DEF Core, Typed, WireTypes, ReceiverTypes, Shape
  <1> HIDE DEF k
  <1>3. ASSUME InHand, file.action = "payload"
        PROVE  /\ \A n \in Names : part'[n].content = part[n].content
               /\ wrote[file.entry] = Len(part[k].content)
    <2>1. wire[1].content = part[k].content /\ wrote[file.entry] = Len(part[k].content)
      BY <1>1, <1>2, <1>3 DEF InHand
    <2>2. part' = [part EXCEPT ![k] = File(part[k].content)]
      BY <1>1, <1>2, <1>3, <2>1
    <2>3. File(part[k].content).content = part[k].content
      BY DEF File
    <2> QED BY <1>2, <2>1, <2>2, <2>3
  <1>4. ASSUME InHand PROVE InHand'
    <2>1. CASE file.action = "payload"
      <3>1. On(part, Target)' = part'[k]
        BY <1>1 DEF On, Target, Key, given, k
      <3> HIDE DEF On, Target
      <3> QED BY <1>1, <1>2, <1>3, <1>4, <2>1, <3>1 DEF InHand
    <2>2. CASE file.action # "payload"
      BY <1>1, <2>2, InHandNot
    <2> QED BY <2>1, <2>2
  <1>5. InHand => \A n \in Names : part'[n].content = part[n].content
    BY <1>1, <1>3
  <1> QED BY <1>1, <1>2, <1>4, <1>5, TookOnes, KeptStays DEF Unchanged

\* ReadData: one more chunk in the part file, of the ones the source has.
LEMMA KeptReadData == Core /\ Counted /\ Kept /\ ReadData => Kept'
  <1> SUFFICES ASSUME Core, Counted, Kept, ReadData PROVE Kept'
    OBVIOUS
  <1> DEFINE e == file.entry
             k == Key(Target)
             c == wire[1].content
             d == part[k].content
  <1>1. /\ rcv = "frame" /\ rcv' = "frame" /\ wire # << >> /\ Head(wire).tag = "data" /\ Took
        /\ part' = [part EXCEPT ![k].content = @ \o Head(wire).content]
        /\ wrote' = [wrote EXCEPT ![e] = @ + 1]
        /\ UNCHANGED <<given, source, listed, plan, file, disk, edits, torn, read, sent, reply>>
    BY DEF ReadData, Next_, sending, session, counts
  <1>2. /\ Head(wire) = wire[1] /\ 1 \in DOMAIN wire /\ wire[1].tag = "data" /\ c \in Data
        /\ file.action = "payload" /\ Len(c) = 1
    BY <1>1, FrameFacts DEF FrameAt
  <1>3. /\ wire \in Seq(Frames) /\ part \in [Names -> Node] /\ wrote \in [Entries -> Nat]
        /\ k \in Names /\ On(part, Target) = part[k] /\ d \in Data
        /\ e \in Entries /\ e \in DOMAIN plan /\ DOMAIN plan = Entries /\ plan[e].action # "skip"
    <2>1. Given /\ Plans /\ Shape
      BY DEF Core, Typed, Directory
    <2>2. Busy
      BY <1>2 DEF Busy
    <2>3. DOMAIN plan = Entries
      BY <2>1, <2>2, TargetFacts, EntryFacts DEF Planned, Plans
    <2> QED BY <1>2, <2>1, <2>2, <2>3, TargetFacts DEF Core, Typed, WireTypes, ReceiverTypes, Kept, Shape
  <1>4. Len(d) + 1 <= Size
    BY <1>1, <1>2, <1>3 DEF Counted, Base
  <1>5. \A x, y \in Data : x \o y \in Data /\ Len(x \o y) = Len(x) + Len(y) /\ Len(x) \in Nat
    BY DEF Data
  <1>6. part'[k].content = d \o c /\ \A n \in Names : n # k => part'[n] = part[n]
    <2> HIDE DEF k
    <2> QED BY <1>1, <1>2, <1>3 DEF Node
  <1>7. Len(part'[k].content) = Len(d) + 1
    BY <1>2, <1>3, <1>5, <1>6
  <1>8. wrote' \in [Entries -> Nat] /\ wrote'[e] = wrote[e] + 1 /\ \A i \in Entries : i # e => wrote'[i] = wrote[i]
    <2> HIDE DEF e
    <2> QED BY <1>1, <1>3
  <1>9. UNCHANGED <<Entries, caseless, batch>> /\ On(part, Target)' = part'[k]
    BY <1>1 DEF On, Target, Key, given, Entries
  <1> SUFFICES ASSUME Intact, Unchanged, Named, InHand, \A i \in Entries : Had(i)
               PROVE  /\ \A n \in Names : Ones(part'[n].content)
                      /\ InHand' /\ \A i \in Entries : Had(i)'
    <2>1. Unchanged => \A j \in DOMAIN wire' : wire'[j].tag # "header" => Ones(wire'[j].content)
      BY <1>1, <1>3, TookOnes DEF Unchanged
    <2>2. Named => Named'
      BY <1>1 DEF Named, given
    <2>3. Unchanged => Ones(read') /\ (\A i \in Entries : Ones(sent'[i])) /\ \A j \in DOMAIN reply' : Ones(reply'[j].content)
      BY <1>1 DEF Unchanged
    <2> QED BY <1>1, <1>8, <2>1, <2>2, <2>3, KeptFrom
  <1>10. wrote[e] = Len(d) /\ k = Key(batch[e].path)
    BY <1>1, <1>2, <1>3 DEF InHand, Named, Target
  <1>11. \A n \in Names : Ones(part'[n].content)
    <2>1. Ones(c) /\ \A n \in Names : Ones(part[n].content)
      BY <1>2 DEF Unchanged
    <2>2. Ones(d \o c)
      BY <1>2, <1>3, <2>1, OnesFacts
    <2> QED BY <1>6, <2>1, <2>2
  <1> HIDE DEF k, e, d, c
  <1>12. InHand'
    <2>1. file'.entry = e /\ rcv' = "frame"
      BY <1>1 DEF e
    <2>2. wrote'[e] = Len(part'[k].content)
      BY <1>7, <1>8, <1>10
    <2> HIDE DEF On, Target
    <2> QED BY <1>9, <2>1, <2>2 DEF InHand
  <1>13. ASSUME NEW i \in Entries PROVE Had(i)'
    <2>1. CASE i = e
      <3>1. wrote'[i] = Len(part'[k].content) /\ wrote'[i] <= Size /\ Key(batch[i].path)' = k
        BY <1>4, <1>7, <1>8, <1>9, <1>10, <2>1 DEF Key
      <3> HIDE DEF Key
      <3> QED BY <3>1 DEF Had
    <2>2. CASE i # e
      <3>1. UNCHANGED <<given, plan, disk>> /\ wrote'[i] = wrote[i] /\ i \in DOMAIN plan
        BY <1>1, <1>3, <1>8, <2>2
      <3>2. \A n \in Names : n # Key(batch[e].path) => part'[n].content = part[n].content /\ disk'[n] = disk[n]
        BY <1>6, <1>10, <3>1
      <3> QED BY <1>3, <2>2, <3>1, <3>2, HadOther
    <2> QED BY <2>1, <2>2
  <1> QED BY <1>11, <1>12, <1>13

\* ReadEnd: a payload that has arrived is verified and takes its place.
LEMMA KeptReadEnd == Core /\ Counted /\ Kept /\ ReadEnd => Kept'
  <1> SUFFICES ASSUME Core, Counted, Kept, ReadEnd PROVE Kept'
    OBVIOUS
  <1> DEFINE k == Key(Target)
  <1>0. PICK e : e = file.entry
    OBVIOUS
  <1>1. /\ rcv = "frame" /\ wire # << >> /\ Head(wire).tag = "end" /\ Took
        /\ UNCHANGED <<given, source, listed, plan, wrote, edits, torn, read, sent, reply>>
        /\ EndMarker \/ EndSkipped \/ EndPayload
    BY DEF ReadEnd, Next_, sending, counts
  <1>2. /\ Head(wire) = wire[1] /\ 1 \in DOMAIN wire /\ wire[1].tag = "end" /\ wire[1].content \in Data
        /\ file.action = "payload" => wire[1].content = sent[e] /\ Len(wire[1].content) = Size
        /\ Busy
    BY <1>0, <1>1, FrameFacts DEF FrameAt
  <1>3. /\ wire \in Seq(Frames) /\ part \in [Names -> Node] /\ disk \in [Names -> Node] /\ wrote' \in [Entries -> Nat]
        /\ k \in Names /\ On(part, Target) = part[k] /\ part[k].content \in Data
        /\ e \in Entries /\ e \in DOMAIN plan /\ DOMAIN plan = Entries
    <2>1. Given /\ Plans
      BY DEF Core, Typed, Directory
    <2>2. DOMAIN plan = Entries
      BY <1>2, <2>1, TargetFacts, EntryFacts DEF Planned, Plans
    <2> QED BY <1>0, <1>1, <1>2, <2>2, TargetFacts DEF Core, Typed, WireTypes, ReceiverTypes, Kept
  <1>4. file' = NoFile \/ rcv' = "failed"
    BY <1>1 DEF EndMarker, EndSkipped, EndPayload
  <1>5. InHand'
    BY <1>4, InHandNot DEF NoFile
  <1>6. Unchanged => \A j \in DOMAIN wire' : wire'[j].tag # "header" => Ones(wire'[j].content)
    BY <1>1, <1>3, TookOnes DEF Unchanged
  <1>7. CASE UNCHANGED <<disk, part>>
    BY <1>1, <1>5, <1>6, <1>7, KeptStays DEF Unchanged
  <1>8. CASE ~UNCHANGED <<disk, part>>
    <2> SUFFICES ASSUME Intact, Unchanged, Named, InHand, \A i \in Entries : Had(i)
                 PROVE  (\A n \in Names : Ones(part'[n].content)) /\ \A i \in Entries : Had(i)'
      <3>1. Named => Named'
        BY <1>1 DEF Named, given
      <3>2. Unchanged => Ones(read') /\ (\A i \in Entries : Ones(sent'[i])) /\ \A j \in DOMAIN reply' : Ones(reply'[j].content)
        BY <1>1 DEF Unchanged
      <3> QED BY <1>1, <1>3, <1>5, <1>6, <3>1, <3>2, KeptFrom
    <2>1. k = Key(batch[e].path) /\ UNCHANGED batch /\ Key(batch[e].path)' = k
      BY <1>0, <1>1, <1>3 DEF Named, Target, given, Key
    <2>2. ASSUME plan[e].action # "skip", \A n \in Names : n # k => part'[n].content = part[n].content /\ disk'[n] = disk[n],
                 disk'[k] # Nothing
          PROVE  \A i \in Entries : i # e => Had(i)'
      <3> TAKE i \in Entries
      <3> HAVE i # e
      <3>1. UNCHANGED <<given, plan>> /\ wrote'[i] = wrote[i] /\ i \in DOMAIN plan
        BY <1>1, <1>3
      <3>2. \A n \in Names : n # Key(batch[e].path) => part'[n].content = part[n].content /\ disk'[n] = disk[n]
        BY <2>1, <2>2
      <3>3. disk'[Key(batch[e].path)] # Nothing
        BY <2>1, <2>2
      <3> HIDE DEF k
      <3> QED BY <1>3, <2>2, <3>1, <3>2, <3>3, HadOther
    <2>3. CASE file.action # "payload"
      <3>1. /\ file.action = "marker" /\ batch[e].kind = "link" /\ plan[e].action # "skip"
            /\ disk' = [disk EXCEPT ![k] = Link] /\ part' = part
        BY <1>0, <1>1, <1>8, <2>3 DEF EndMarker, EndSkipped, EndPayload
      <3>2. disk'[k] = Link /\ \A n \in Names : n # k => disk'[n] = disk[n]
        <4> HIDE DEF k
        <4> QED BY <1>3, <3>1
      <3>3. Link # Nothing
        BY DEF Link, Nothing
      <3>4. Had(e)'
        <4>1. wrote'[e] = wrote[e] /\ wrote[e] <= Size /\ batch'[e].kind # "file"
          BY <1>1, <1>3, <2>1, <3>1 DEF Had
        <4> HIDE DEF k, Key
        <4> QED BY <4>1 DEF Had
      <3>5. \A i \in Entries : i # e => Had(i)'
        BY <2>2, <3>1, <3>2, <3>3
      <3> QED BY <3>1, <3>4, <3>5 DEF Unchanged
    <2>4. CASE file.action = "payload"
      <3>1. Ones(wire[1].content) /\ Ones(part[k].content)
        BY <1>2, <1>3 DEF Unchanged
      <3>2. Len(part[k].content) = Size
        <4>1. Base + 1 = Size + 1
          BY <1>1, <1>2, <2>4 DEF Counted
        <4>2. Base = Len(part[k].content) /\ Len(part[k].content) \in Nat
          BY <1>1, <1>3, <2>4, PartLength DEF Base
        <4> QED BY <4>1, <4>2, SizeAssumption
      <3>3. part[k].content = Original /\ wire[1].content = Original
        BY <1>2, <1>3, <2>4, <3>1, <3>2, OnesFacts
      <3>4. Verified
        BY <1>2, <1>3, <3>3 DEF Verified
      <3>5. part' = [part EXCEPT ![k] = Nothing] /\ disk' = [disk EXCEPT ![k] = part[k]]
        BY <1>1, <1>3, <2>4, <3>4 DEF EndMarker, EndSkipped, EndPayload
      <3>6. part[k].kind = "file" /\ plan[e].action # "skip"
        BY <1>0, <1>1, <1>3, <2>4 DEF Core, Shape
      <3>7. /\ part'[k] = Nothing /\ disk'[k] = part[k]
            /\ \A n \in Names : n # k => part'[n] = part[n] /\ disk'[n] = disk[n]
        <4> HIDE DEF k
        <4> QED BY <1>3, <3>5
      <3>8. part[k] # Nothing
        BY <3>6 DEF Nothing
      <3>9. Had(e)'
        <4>1. wrote'[e] = wrote[e] /\ wrote[e] <= Size
          BY <1>1, <1>3 DEF Had
        <4>2. disk'[k].kind = "file" /\ imohash(disk'[k].content) = imohash(Original)
          BY <3>3, <3>6, <3>7
        <4> HIDE DEF k, Key
        <4> QED BY <2>1, <4>1, <4>2 DEF Had
      <3>10. \A i \in Entries : i # e => Had(i)'
        BY <2>2, <3>6, <3>7, <3>8
      <3>11. \A n \in Names : Ones(part'[n].content)
        BY <3>7, OnesFacts DEF Unchanged, Nothing
      <3> QED BY <3>9, <3>10, <3>11
    <2> QED BY <2>3, <2>4
  <1> QED BY <1>7, <1>8

\* A source that is rewritten ends the promise; a file that somebody creates is spared or replaced.
LEMMA KeptEditSource == Core /\ Kept /\ (\E i \in OfKind("file") : EditSource(i)) => Kept'
  <1> SUFFICES ASSUME Core, Kept, NEW i \in OfKind("file"), EditSource(i) PROVE Kept'
    OBVIOUS
  <1>1. edits \in Nat /\ edits' = edits + 1 /\ UNCHANGED <<wrote, given>>
    BY DEF EditSource, Core, Typed, RunTypes, output
  <1>2. ~Intact'
    BY <1>1 DEF Intact
  <1>3. Entries' = Entries
    BY <1>1 DEF Entries, given
  <1> QED BY <1>1, <1>2, <1>3 DEF Kept

LEMMA KeptLocalFile == Core /\ Kept /\ (\E i \in Entries : LocalFile(batch[i].path)) => Kept'
  <1> SUFFICES ASSUME Core, Kept, NEW e \in Entries, LocalFile(batch[e].path) PROVE Kept'
    OBVIOUS
  <1> DEFINE k == Key(batch[e].path)
  <1>1. /\ disk[k] = Nothing /\ disk' = [disk EXCEPT ![k] = Own]
        /\ UNCHANGED <<given, source, listed, plan, file, part, wrote, rcv, edits, torn, read, sent, wire, reply>>
    BY DEF LocalFile, sending, network, session
  <1>2. Given /\ disk \in [Names -> Node] /\ wrote' \in [Entries -> Nat]
    BY <1>1 DEF Core, Typed, ReceiverTypes, Kept
  <1>3. k \in Names
    BY <1>2, BatchTypes, KeyNames
  <1> HIDE DEF k
  <1>4. disk'[k] = Own /\ \A n \in Names : n # k => disk'[n] = disk[n]
    BY <1>1, <1>2, <1>3
  <1>5. Own # Nothing /\ Nothing.kind # "file"
    BY DEF Own, File, Nothing
  <1> SUFFICES ASSUME Unchanged, Named, InHand, \A i \in Entries : Had(i)
               PROVE  Named' /\ InHand' /\ \A i \in Entries : Had(i)'
    BY <1>1, <1>2, KeptFrom DEF Unchanged
  <1>6. Named' /\ InHand'
    BY <1>1, InHandStays DEF Named, given
  <1>7. ASSUME NEW i \in Entries PROVE Had(i)'
    <2>1. Key(batch[i].path) \in Names
      BY <1>2, BatchTypes, KeyNames
    <2> QED BY <1>1, <1>4, <1>5, <2>1, HadStays
  <1> QED BY <1>6, <1>7

\* A new attempt plans again what it finds.
LEMMA KeptBegin == Core /\ Kept /\ (Reconnect \/ Rerun) => Kept'
  <1> SUFFICES ASSUME Core, Kept, Reconnect \/ Rerun PROVE Kept'
    OBVIOUS
  <1>1. /\ listed' = source /\ read' = << >> /\ sent' = [i \in Entries |-> << >>]
        /\ wire' = << >> /\ reply' = << >> /\ plan' = << >> /\ file' = NoFile
        /\ UNCHANGED <<given, source, disk, part, wrote, edits, torn>>
    BY DEF Reconnect, Rerun, Begin, output
  <1>2. UNCHANGED <<batch, policy, Entries>> /\ InHand' /\ Named'
    BY <1>1, InHandNot DEF given, Entries, NoFile, Named
  <1>3. Given /\ (Intact' <=> Intact)
    BY <1>1, <1>2 DEF Core, Typed, Intact
  <1> SUFFICES ASSUME Unchanged, \A i \in Entries : Had(i)
               PROVE  Unchanged' /\ \A i \in Entries : Had(i)'
    BY <1>1, <1>2, <1>3 DEF Kept
  <1>4. Unchanged'
    BY <1>1, <1>2, OnesFacts DEF Unchanged
  <1>5. ASSUME NEW i \in Entries PROVE Had(i)'
    <2>1. Key(batch[i].path) \in Names /\ i \notin DOMAIN plan'
      BY <1>1, <1>3, BatchTypes, KeyNames
    <2> QED BY <1>1, <2>1, HadStays
  <1> QED BY <1>4, <1>5

LEMMA InitKept == Init => Kept
  <1> SUFFICES ASSUME Init PROVE Kept
    OBVIOUS
  <1>1. Given
    BY InitCore DEF Core, Typed
  <1>2. /\ source = [i \in Entries |-> Original] /\ listed = source
        /\ read = << >> /\ sent = [i \in Entries |-> << >>] /\ wire = << >> /\ reply = << >>
        /\ plan = << >> /\ file = NoFile /\ part = [n \in Names |-> Nothing] /\ wrote = [i \in Entries |-> 0]
    BY DEF Init
  <1>3. Unchanged
    BY <1>2, OnesFacts DEF Unchanged, Nothing
  <1>4. Named /\ InHand
    BY <1>2 DEF Named, InHand, NoFile
  <1>5. ASSUME NEW i \in Entries PROVE Had(i)
    <2>1. Key(batch[i].path) \in Names
      BY <1>1, BatchTypes, KeyNames
    <2>2. wrote[i] = Len(part[Key(batch[i].path)].content) /\ wrote[i] <= Size
      BY <1>2, <2>1, SizeAssumption DEF Nothing
    <2> HIDE DEF Key
    <2> QED BY <2>2 DEF Had
  <1> QED BY <1>2, <1>3, <1>4, <1>5 DEF Kept

LEMMA NextKept == Core /\ Counted /\ Kept /\ [Next]_vars => Kept'
  <1> SUFFICES ASSUME Core, Counted, Kept, [Next]_vars PROVE Kept'
    OBVIOUS
  <1>1. CASE Break \/ ReconnectAlone("sender", "receiver") \/ ReconnectAlone("receiver", "sender") \/ UNCHANGED vars
    <2>1. UNCHANGED <<given, source, listed, plan, file, disk, part, wrote, rcv, edits, torn, read, sent, wire, reply>>
      BY <1>1 DEF Break, ReconnectAlone, vars, sending, network, session, output, counts
    <2>2. InHand => InHand'
      BY <2>1, InHandStays
    <2> QED BY <2>1, <2>2, KeptSender DEF Unchanged
  <1>2. CASE Sender \/ SenderStops
    BY <1>2, KeptSends, KeptAnswer, KeptSendData, KeptSendEnd, KeptReadAck, KeptSenderFails DEF Sender
  <1>3. CASE Receiver \/ ReceiverStops
    BY <1>3, KeptReadManifest, KeptPlanEntry, KeptReadHeader, KeptReadAnswer, KeptReadData, KeptReadEnd, KeptReadDone,
       KeptReceiverFails DEF Receiver
  <1>4. CASE \/ (\E i \in OfKind("file") : EditSource(i)) \/ (\E i \in Entries : LocalFile(batch[i].path))
             \/ Reconnect \/ Rerun
    BY <1>4, KeptEditSource, KeptLocalFile, KeptBegin
  <1> QED BY <1>1, <1>2, <1>3, <1>4 DEF Next, Retries

\* With overwrite or skip, a batch that is sent again after failures receives no chunk
\* twice, whatever fails and however often, as long as the source stays and no process was
\* killed: the part file is offered, and all of it is accepted.
THEOREM NothingTwice == Spec => []ProgressKept
  <1>1. Kept => ProgressKept
    BY DEF Kept, Intact, Had, ProgressKept
  <1> QED BY <1>1, InitCore, InitProgress, InitKept, NextCore, NextCounted, NextKept, PTL DEF Spec
=============================================================================
