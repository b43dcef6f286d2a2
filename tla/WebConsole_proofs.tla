------------------------- MODULE WebConsole_proofs -------------------------
(***************************************************************************)
(* Proofs about WebConsole, for any number of requests, uploads and jobs.  *)
(*                                                                         *)
(* The three properties that are proved are not inductive.  JobInv adds    *)
(* who may move a job: one job at a time has a live worker, it is the one  *)
(* the store shows, and until its worker is launched exactly one request   *)
(* is in charge of it.  StoreInv adds what each stage of a request knows   *)
(* of its staged file; StagedInv says which part of that outlives the      *)
(* process.                                                                *)
(***************************************************************************)
EXTENDS WebConsole, FiniteSetTheorems, TLAPS

-----------------------------------------------------------------------------
(* The inductive invariant: jobs.                                          *)

Kinds   == {"send", "note"}
Ids     == Jobs \cup {None}
Files   == Uploads \cup {NoUpload}
Charge  == {"init", "launch", "reset", "release"}   \* the request has a job
Over    == {"success", "failed", "canceled"}        \* the function has returned

Asking    == [pc : {"join", "begin"}, kind : Kinds, upload : Files]
Owning    == [pc : Charge, kind : Kinds, upload : Files, task : Jobs]
Storing   == [pc : {"store"}, task : Jobs]
Canceling == [pc : {"cancel"}, task : Ids, session : Ids]

ReqOK == req \in [Requests -> {Idle} \cup Asking \cup Owning \cup Storing \cup Canceling]

\* Job numbers are given out in order.
Numbered == \E n \in 0..MaxJobs : Begun = 1..n

LiveIsShown == \A t \in Jobs : Live(t) => job.running /\ job.task = t

\* What the request in charge of a job may rely on.
InCharge(r) ==
    /\ req[r].pc \in {"init", "launch", "reset"} => job.running /\ job.task = req[r].task
    /\ req[r].pc \in {"init", "launch"} => thread[req[r].task] = "beginning"
    /\ req[r].pc = "reset" => thread[req[r].task] = "ended"
    /\ req[r].pc = "release" => thread[req[r].task] \in Over \cup {"running", "ended"}

OneInCharge ==
    \A r, q \in Requests :
        r # q /\ req[r].pc \in Charge /\ req[q].pc \in Charge => req[r].task # req[q].task

\* A launched worker can be joined; one not yet launched has its request.
Attended(t) ==
    /\ thread[t] \in Over \cup {"running"} => handle = t
    /\ thread[t] = "beginning" =>
          \E r \in Requests : req[r].pc \in {"init", "launch"} /\ req[r].task = t

Outcome ==
    /\ job.running => job.result = "none"
    /\ job.result # "none" => job.task \in Jobs
    /\ OutcomeIsOwn
    /\ \A t \in Jobs : thread[t] = "canceled" => t \in requested

Quiet == server # "serving" => \A r \in Requests : req[r].pc = "idle"

JobCore ==
    /\ Numbered /\ LiveIsShown /\ OneInCharge /\ Outcome /\ Quiet
    /\ \A r \in Requests : InCharge(r)
    /\ \A t \in Jobs : Attended(t)

JobInv == TypeOK /\ ReqOK /\ JobCore

-----------------------------------------------------------------------------
(* The inductive invariant: staged files.                                  *)

\* The length of a staged file that has all its chunks.
Length(u) ==
    entry[u].there => /\ entry[u].finished => entry[u].received = entry[u].expected
                      /\ entry[u].received = entry[u].expected => bytes[u] = entry[u].expected

\* The job was launched and its function has returned.
Ran(t) ==
    /\ thread[t] \in Over \cup {"ended"}
    /\ \A r \in Requests : ~(req[r].pc = "reset" /\ req[r].task = t)

\* A job whose function has returned has sent u or failed to.
SentBefore(u) == \E s \in Jobs : cargo[s] = u /\ Ran(s)

\* What a request knows of its upload.
Held(r) ==
    /\ req[r].pc \in {"join", "begin", "init", "launch", "release"} => req[r].upload \notin stale
    /\ req[r].pc \in {"join", "begin"} /\ req[r].upload # NoUpload =>
          req[r].upload \in onDisk \cup withdrawn \/ SentBefore(req[r].upload)
    /\ req[r].pc \in {"init", "launch", "reset"} /\ req[r].upload \in onDisk => entry[req[r].upload].there
    /\ req[r].pc = "release" => req[r].upload \in Uploads
    /\ req[r].pc \in Charge => cargo[req[r].task] = req[r].upload

\* What holds of a job and the upload it sends.
Carries(t) ==
    /\ thread[t] = "none" => cargo[t] = NoUpload
    /\ cargo[t] # NoUpload /\ thread[t] \in {"beginning", "running"} =>
          \/ cargo[t] \in onDisk \cup withdrawn
          \/ \E s \in Jobs : s < t /\ cargo[s] = cargo[t] /\ Ran(s)
    /\ cargo[t] # NoUpload /\ thread[t] = "running" /\ entry[cargo[t]].there =>
          \E r \in Requests : req[r].pc = "release" /\ req[r].task = t
    /\ Ran(t) => cargo[t] \notin onDisk

\* What holds of an upload.
Accounted(u) ==
    /\ u \in onDisk => entry[u].there \/ \E t \in Jobs : cargo[t] = u /\ Live(t)
    /\ entry[u].there => u \in onDisk \/ SentBefore(u)

StoreInv ==
    /\ \A u \in Uploads : Length(u) /\ Accounted(u)
    /\ \A r \in Requests : Held(r)
    /\ \A t \in Jobs : Carries(t)

\* The process may exit under a request: then there is no table any more, and
\* only the files it had staged are left.
StagedInv ==
    /\ Alive => StoreInv
    /\ ~Alive => /\ \A u \in Uploads : ~entry[u].there
                 /\ \A t \in Jobs : cargo[t] = NoUpload
    /\ server = "gone" => onDisk = {}

WebInv == JobInv /\ StagedInv

-----------------------------------------------------------------------------
(* Helpers.                                                                *)

\* A request that is answered.
LEMMA DoneReq ==
    ASSUME ReqOK, NEW r \in Requests, Done(r)
    PROVE  /\ req'[r] = Idle /\ req'[r].pc = "idle"
           /\ \A q \in Requests : q # r => req'[q] = req[q]
BY DEF ReqOK, Done, Idle

\* What the state of a request looks like, by its program counter.
LEMMA ReqShape ==
    ASSUME ReqOK, NEW r \in Requests
    PROVE  /\ req[r].pc \in {"idle", "join", "begin", "store", "cancel"} \cup Charge
           /\ req[r].pc \in {"join", "begin"} => req[r] \in Asking
           /\ req[r].pc \in Charge => req[r] \in Owning
           /\ req[r].pc = "store" => req[r] \in Storing
           /\ req[r].pc = "cancel" => req[r] \in Canceling
           /\ req[r].pc = "idle" => req[r] = Idle
<1>1. req[r] \in {Idle} \cup Asking \cup Owning \cup Storing \cup Canceling
  BY DEF ReqOK
<1>2. CASE req[r] \in {Idle} \cup Asking
  BY <1>2 DEF Idle, Asking, Charge
<1>3. CASE req[r] \in Owning
  BY <1>3 DEF Owning, Charge
<1>4. CASE req[r] \in Storing \cup Canceling
  BY <1>4 DEF Storing, Canceling, Charge
<1> QED BY <1>1, <1>2, <1>3, <1>4

\* A request that goes on to its next stage keeps its upload and its job.
LEMMA StepOn ==
    ASSUME ReqOK, NEW r \in Requests, NEW pc, Step(r, pc), req[r].pc # "idle"
    PROVE  /\ req'[r] = [req[r] EXCEPT !.pc = pc]
           /\ req[r].pc \in {"join", "begin"} =>
                 /\ req'[r].pc = pc
                 /\ req'[r].upload = req[r].upload /\ req'[r].kind = req[r].kind
                 /\ pc \in {"join", "begin"} => req'[r] \in Asking
           /\ req[r].pc \in Charge =>
                 /\ req'[r].pc = pc
                 /\ req'[r].upload = req[r].upload /\ req'[r].task = req[r].task
                 /\ pc \in Charge => req'[r] \in Owning
           /\ \A q \in Requests : q # r => req'[q] = req[q]
<1>1. req'[r] = [req[r] EXCEPT !.pc = pc] /\ \A q \in Requests : q # r => req'[q] = req[q]
  BY DEF ReqOK, Step
<1>2. CASE req[r].pc \in {"join", "begin"}
  <2>1. req[r] \in Asking
    BY <1>2, ReqShape
  <2> QED BY <1>1, <1>2, <2>1 DEF Asking, Charge
<1>3. CASE req[r].pc \in Charge
  <2>1. req[r] \in Owning
    BY <1>3, ReqShape
  <2> QED BY <1>1, <1>3, <2>1 DEF Owning, Charge
<1> QED BY <1>1, <1>2, <1>3
\* The number begin_task gives out is new, and above all earlier ones.
LEMMA NextJob ==
    ASSUME TypeOK, Numbered, Begun # Jobs, NEW t, t = Cardinality(Begun) + 1
    PROVE  /\ t \in Jobs /\ thread[t] = "none"
           /\ Begun = 1..(t - 1)
           /\ \A s \in Jobs : thread[s] # "none" => s < t
<1>1. PICK n \in 0..MaxJobs : Begun = 1..n
  BY DEF Numbered
<1>2. MaxJobs \in Nat /\ n \in Nat
  BY WebAssumption
<1>3. t = n + 1
  <2>1. Cardinality(1..n) = n
    BY <1>2, FS_Interval
  <2> QED BY <1>1, <1>2, <2>1
<1>4. t \in Jobs
  BY <1>1, <1>2, <1>3 DEF Jobs
<1>5. t \notin Begun /\ \A s \in Begun : s < t
  BY <1>1, <1>2, <1>3
<1>6. thread[t] = "none" /\ \A s \in Jobs : thread[s] # "none" => s < t
  BY <1>4, <1>5 DEF Begun
<1>7. Begun = 1..(t - 1)
  BY <1>1, <1>2, <1>3
<1> QED BY <1>4, <1>6, <1>7

-----------------------------------------------------------------------------
(* Type correctness.                                                       *)

\* Uploads: every call keeps the table's types, and ages only rows.
LEMMA UploadTypes ==
    ASSUME TypeOK, ReqOK, UploadCall
    PROVE  TypeOK' /\ ReqOK'
<1>1. ReqOK'
  BY DEF UploadCall, ReqOK, Idle, Asking, Owning, Storing, Canceling
<1>2. PICK u \in Uploads : \/ \E size \in Sizes : StartUpload(u, size)
                           \/ Append1(u) \/ FinishUpload(u) \/ CancelUpload(u) \/ Age(u)
  BY DEF UploadCall
<1>3. UNCHANGED <<job, token, runtime, handle, thread, stopped, requested, cargo, server>>
  BY DEF UploadCall, workerVars
<1>4. Sizes \subseteq Nat
  BY WebAssumption
<1>5. CASE \E size \in Sizes : StartUpload(u, size)
  <2>1. PICK size \in Sizes : StartUpload(u, size)
    BY <1>5
  <2>2. entry' \in [Uploads -> [there : BOOLEAN, expected : Sizes \cup {0}, received : Nat, finished : BOOLEAN]]
    BY <2>1 DEF TypeOK, StartUpload, NoRow
  <2> QED BY <1>1, <1>3, <2>1, <2>2 DEF TypeOK, StartUpload
<1>6. CASE Append1(u)
  <2>1. entry' \in [Uploads -> [there : BOOLEAN, expected : Sizes \cup {0}, received : Nat, finished : BOOLEAN]]
    BY <1>6 DEF TypeOK, Append1
  <2>2. bytes' \in [Uploads -> Nat] /\ UNCHANGED <<onDisk, withdrawn>>
    BY <1>6 DEF TypeOK, Append1
  <2>3. stale' \subseteq stale /\ \A v \in Uploads : entry'[v].there = entry[v].there
    BY <1>6 DEF TypeOK, Append1
  <2> QED BY <1>1, <1>3, <2>1, <2>2, <2>3 DEF TypeOK, Rows
<1>7. CASE FinishUpload(u)
  <2>1. entry' \in [Uploads -> [there : BOOLEAN, expected : Sizes \cup {0}, received : Nat, finished : BOOLEAN]]
    BY <1>7 DEF TypeOK, FinishUpload
  <2>2. stale' \subseteq stale /\ \A v \in Uploads : entry'[v].there = entry[v].there
    BY <1>7 DEF TypeOK, FinishUpload
  <2> QED BY <1>1, <1>3, <1>7, <2>1, <2>2 DEF TypeOK, Rows, FinishUpload
<1>8. CASE CancelUpload(u)
  <2>1. entry' \in [Uploads -> [there : BOOLEAN, expected : Sizes \cup {0}, received : Nat, finished : BOOLEAN]]
    BY <1>8 DEF TypeOK, CancelUpload, erase_upload, NoRow
  <2>2. stale' = stale \ {u} /\ \A v \in Uploads \ {u} : entry'[v].there = entry[v].there
    BY <1>8 DEF TypeOK, CancelUpload, erase_upload
  <2>3. onDisk' \subseteq onDisk /\ withdrawn' = withdrawn \cup {u} /\ bytes' = bytes
    BY <1>8 DEF CancelUpload, erase_upload
  <2> QED BY <1>1, <1>3, <2>1, <2>2, <2>3 DEF TypeOK, Rows
<1>9. CASE Age(u)
  BY <1>1, <1>3, <1>9 DEF TypeOK, Age, Rows
<1> QED BY <1>2, <1>5, <1>6, <1>7, <1>8, <1>9

\* The sweep of the loop, and the destructors.
LEMMA ServerTypes ==
    ASSUME TypeOK, ReqOK, Housekeeping \/ Quit \/ QuitEnds
    PROVE  TypeOK' /\ ReqOK'
<1>1. UNCHANGED <<req, job, token, runtime, thread, bytes, withdrawn, cargo>>
  BY DEF Housekeeping, Quit, QuitEnds, workerVars, storeVars
<1>2. ReqOK'
  BY <1>1 DEF ReqOK, Idle, Asking, Owning, Storing, Canceling
<1>3. CASE Housekeeping
  <2>1. entry' \in [Uploads -> [there : BOOLEAN, expected : Sizes \cup {0}, received : Nat, finished : BOOLEAN]]
    BY <1>3 DEF TypeOK, Housekeeping, purge_expired, erase_upload, NoRow
  <2> QED BY <1>1, <1>2, <1>3, <2>1
       DEF TypeOK, Housekeeping, purge_expired, erase_upload, joined, workerVars
<1>4. CASE Quit
  <2>1. requested' \subseteq Jobs /\ stopped' \subseteq Jobs
    BY <1>4 DEF TypeOK, Quit
  <2> QED BY <1>1, <1>2, <1>4, <2>1 DEF TypeOK, Quit, storeVars, Rows
<1>5. CASE QuitEnds
  <2>1. entry' \in [Uploads -> [there : BOOLEAN, expected : Sizes \cup {0}, received : Nat, finished : BOOLEAN]]
    BY <1>5 DEF TypeOK, QuitEnds, NoRow
  <2> QED BY <1>1, <1>2, <1>5, <2>1 DEF TypeOK, QuitEnds, workerVars, None
<1> QED BY <1>3, <1>4, <1>5

\* The process ends, and with it all its state in memory.
LEMMA ProcessEndsInv ==
    ASSUME TypeOK, ProcessEnds
    PROVE  JobInv' /\ StagedInv'
<1>1. /\ job' = NoJob /\ token' = None /\ runtime' = None /\ handle' = None
      /\ thread' = [t \in Jobs |-> "none"] /\ cargo' = [t \in Jobs |-> NoUpload]
      /\ requested' = {} /\ stopped' = {} /\ stale' = {}
      /\ entry' = [u \in Uploads |-> NoRow] /\ req' = [r \in Requests |-> Idle]
      /\ server' = "exited" /\ UNCHANGED <<onDisk, bytes, withdrawn>>
  BY DEF ProcessEnds
<1>2. TypeOK'
  <2>1. entry' \in [Uploads -> [there : BOOLEAN, expected : Sizes \cup {0}, received : Nat, finished : BOOLEAN]]
    BY <1>1 DEF NoRow
  <2> QED BY <1>1, <2>1 DEF TypeOK, NoJob, None, Rows
<1>3. ReqOK'
  BY <1>1 DEF ReqOK, Idle, Asking, Owning, Storing, Canceling
<1>4. \A r \in Requests : req'[r].pc = "idle"
  BY <1>1 DEF Idle
<1>5. \A t \in Jobs : thread'[t] = "none" /\ cargo'[t] = NoUpload
  BY <1>1
<1>6. Numbered'
  <2>1. Begun' = 1..0 /\ 0 \in 0..MaxJobs
    BY <1>5, WebAssumption DEF Begun
  <2> QED BY <2>1 DEF Numbered
<1>7. LiveIsShown' /\ OneInCharge' /\ Outcome' /\ Quiet'
  BY <1>1, <1>4, <1>5
     DEF LiveIsShown, Live, OneInCharge, Charge, Outcome, OutcomeIsOwn, Quiet, NoJob
<1>8. JobCore'
  BY <1>4, <1>5, <1>6, <1>7 DEF JobCore, InCharge, Attended, Over
<1>9. StagedInv'
  BY <1>1, <1>5 DEF StagedInv, Alive, NoRow
<1> QED BY <1>2, <1>3, <1>8, <1>9 DEF JobInv

\* The worker of a job.
LEMMA WorkerTypes ==
    ASSUME TypeOK, ReqOK, NEW t \in Jobs, Worker(t)
    PROVE  TypeOK' /\ ReqOK'
<1>1. UNCHANGED <<req, token, runtime, handle, entry, bytes, stale, withdrawn, cargo, server>>
  BY DEF Worker, Report, RunEnds, Finish, workerVars, storeVars
<1>2. ReqOK'
  BY <1>1 DEF ReqOK, Idle, Asking, Owning, Storing, Canceling
<1>3. CASE Report(t)
  BY <1>1, <1>2, <1>3 DEF TypeOK, Report, workerVars, storeVars, Rows
<1>4. CASE RunEnds(t)
  <2>1. requested' \subseteq Jobs /\ UNCHANGED <<job, stopped>>
    BY <1>4 DEF TypeOK, RunEnds
  <2>2. thread' \in [Jobs -> {"none", "beginning", "running", "success", "failed", "canceled", "ended"}]
    BY <1>4 DEF TypeOK, RunEnds
  <2>3. onDisk' \subseteq onDisk
    BY <1>4 DEF RunEnds, Cleaned
  <2> QED BY <1>1, <1>2, <2>1, <2>2, <2>3 DEF TypeOK, Rows
<1>5. CASE Finish(t)
  BY <1>1, <1>2, <1>5 DEF TypeOK, Finish, storeVars, Rows
<1> QED BY <1>3, <1>4, <1>5 DEF Worker

\* A request.
LEMMA RequestTypes ==
    ASSUME TypeOK, ReqOK, Numbered, NEW r \in Requests, Request(r)
    PROVE  TypeOK' /\ ReqOK'
<1> DEFINE All == {Idle} \cup Asking \cup Owning \cup Storing \cup Canceling
<1>1. ASSUME NEW v \in All, req' = [req EXCEPT ![r] = v]
      PROVE  ReqOK'
  <2>1. req' \in [Requests -> All]
    BY <1>1 DEF ReqOK
  <2> QED BY <2>1 DEF ReqOK, Idle, Asking, Owning, Storing, Canceling
<1>2. ASSUME NEW pc \in Charge \cup {"begin"}, Step(r, pc),
             req[r].pc \in Charge \/ (req[r].pc = "join" /\ pc = "begin"),
             pc = "begin" => req[r].pc = "join"
      PROVE  ReqOK'
  <2>1. req' = [req EXCEPT ![r] = [req[r] EXCEPT !.pc = pc]]
    BY <1>2 DEF Step, ReqOK
  <2>2. CASE pc = "begin"
    <3>1. req[r] \in Asking
      BY <1>2, <2>2, ReqShape
    <3>2. [req[r] EXCEPT !.pc = pc] \in Asking
      BY <2>2, <3>1 DEF Asking
    <3> QED BY <1>1, <2>1, <3>2
  <2>3. CASE pc \in Charge
    <3>1. req[r] \in Owning
      BY <1>2, <2>3, ReqShape DEF Charge
    <3>2. [req[r] EXCEPT !.pc = pc] \in Owning
      BY <2>3, <3>1 DEF Owning
    <3> QED BY <1>1, <2>1, <3>2
  <2> QED BY <1>2, <2>2, <2>3
<1>3. Done(r) => ReqOK'
  BY <1>1 DEF Done
<1>4. ASSUME NEW u \in Uploads, completed_path(r, u)
      PROVE  TypeOK' /\ ReqOK'
  <2>1. [pc |-> "join", kind |-> "send", upload |-> u] \in All
    BY DEF Asking, Kinds, Files
  <2>2. ReqOK'
    BY <1>1, <1>4, <2>1 DEF completed_path
  <2>3. entry' \in [Uploads -> [there : BOOLEAN, expected : Sizes \cup {0}, received : Nat, finished : BOOLEAN]]
    BY <1>4, WebAssumption DEF TypeOK, completed_path, purge_expired, erase_upload, NoRow
  <2> QED BY <1>4, <2>2, <2>3
       DEF TypeOK, completed_path, purge_expired, erase_upload, workerVars
<1>5. CASE join_finished_worker(r)
  <2>1. ReqOK'
    BY <1>2, <1>5 DEF join_finished_worker
  <2> QED BY <1>5, <2>1 DEF TypeOK, join_finished_worker, joined, None, workerVars, storeVars, Rows
<1>6. ASSUME NEW kind \in {"send", "note"}, AskJob(r, kind)
      PROVE  TypeOK' /\ ReqOK'
  <2>1. [pc |-> "begin", kind |-> kind, upload |-> NoUpload] \in All
    BY DEF Asking, Kinds, Files
  <2>2. ReqOK'
    BY <1>1, <1>6, <2>1 DEF AskJob
  <2> QED BY <1>6, <2>2 DEF TypeOK, AskJob, joined, None, workerVars, storeVars, Rows
<1>7. CASE begin_task(r)
  <2>1. req[r] \in Asking
    BY <1>7, ReqShape DEF begin_task
  <2>2. CASE Done(r) /\ UNCHANGED <<job, token, runtime, thread, cargo>>
    BY <1>3, <1>7, <2>2 DEF TypeOK, begin_task, storeVars, Rows
  <2>3. CASE MayBegin /\ Begun # Jobs /\ ~(Done(r) /\ UNCHANGED <<job, token, runtime, thread, cargo>>)
    <3> DEFINE t == Cardinality(Begun) + 1
    <3>1. t \in Jobs
      BY <2>3, NextJob
    <3> HIDE DEF t
    <3>2. /\ job' = [task |-> t, kind |-> req[r].kind, running |-> TRUE,
                     result |-> "none", note |-> None]
          /\ token' = t /\ runtime' = None
          /\ thread' = [thread EXCEPT ![t] = "beginning"]
          /\ cargo' = [cargo EXCEPT ![t] = req[r].upload]
          /\ req' = [req EXCEPT ![r] = [pc |-> IF req[r].kind = "note" THEN "init" ELSE "launch",
                                        kind |-> req[r].kind, upload |-> req[r].upload, task |-> t]]
      BY <1>7, <2>3 DEF begin_task, t
    <3>3. req[r].kind \in Kinds /\ req[r].upload \in Files
      BY <2>1 DEF Asking
    <3>4. ReqOK'
      <4> DEFINE v == [pc |-> IF req[r].kind = "note" THEN "init" ELSE "launch",
                       kind |-> req[r].kind, upload |-> req[r].upload, task |-> t]
      <4>1. v \in Owning
        BY <3>1, <3>3 DEF Owning, Charge
      <4> QED BY <1>1, <3>2, <4>1
    <3>5. UNCHANGED <<handle, requested, stopped, entry, onDisk, bytes, stale, withdrawn, server>>
      BY <1>7 DEF begin_task, storeVars
    <3>6. job' \in [task : Jobs \cup {None}, kind : {"none", "send", "note"}, running : BOOLEAN,
                    result : {"none", "success", "failed", "canceled"}, note : Jobs \cup {None}]
      BY <3>1, <3>2, <3>3 DEF Kinds
    <3>7. /\ thread' \in [Jobs -> {"none", "beginning", "running", "success", "failed", "canceled", "ended"}]
          /\ cargo' \in [Jobs -> Uploads \cup {NoUpload}]
      BY <3>1, <3>2, <3>3 DEF TypeOK, Files
    <3> QED BY <3>1, <3>2, <3>4, <3>5, <3>6, <3>7 DEF TypeOK, Rows
  <2> QED BY <1>7, <2>2, <2>3 DEF begin_task
<1>8. CASE InitNote(r)
  <2>1. req[r] \in Owning /\ req[r].task \in Jobs
    BY <1>8, ReqShape DEF InitNote, Charge, Owning
  <2>2. ReqOK'
    BY <1>2, <1>8 DEF InitNote, Charge
  <2> QED BY <1>8, <2>1, <2>2 DEF TypeOK, InitNote, workerVars, storeVars, Rows
<1>9. CASE Launch(r)
  <2>1. req[r] \in Owning /\ req[r].task \in Jobs
    BY <1>9, ReqShape DEF Launch, Charge, Owning
  <2>2. Step(r, "release") \/ Step(r, "reset") \/ Done(r)
    BY <1>9 DEF Launch
  <2>3. ReqOK'
    BY <1>2, <1>3, <1>9, <2>2 DEF Launch, Charge
  <2>4. thread' \in [Jobs -> {"none", "beginning", "running", "success", "failed", "canceled", "ended"}]
    BY <1>9, <2>1 DEF TypeOK, Launch
  <2>5. UNCHANGED <<job, token, runtime, cargo, requested, stopped, storeVars, server>>
        /\ handle' \in Jobs \cup {None}
    BY <1>9, <2>1 DEF TypeOK, Launch
  <2> QED BY <2>3, <2>4, <2>5 DEF TypeOK, storeVars, Rows
<1>10. CASE reset_task(r)
  <2>1. ReqOK'
    BY <1>3, <1>10 DEF reset_task
  <2>2. job' \in [task : Jobs \cup {None}, kind : {"none", "send", "note"}, running : BOOLEAN,
                  result : {"none", "success", "failed", "canceled"}, note : Jobs \cup {None}]
    BY <1>10 DEF reset_task, NoJob
  <2> QED BY <1>10, <2>1, <2>2 DEF TypeOK, reset_task, workerVars, storeVars, Rows
<1>11. CASE release(r)
  <2>1. ReqOK'
    BY <1>3, <1>11 DEF release
  <2>2. entry' \in [Uploads -> [there : BOOLEAN, expected : Sizes \cup {0}, received : Nat, finished : BOOLEAN]]
    BY <1>11, WebAssumption DEF TypeOK, release, NoRow
  <2>3. stale' \subseteq Uploads /\ \A v \in stale' : entry'[v] = entry[v] /\ v \in stale
    BY <1>11, <2>2 DEF TypeOK, release, Rows
  <2>4. stale' \subseteq Rows'
    BY <2>3 DEF TypeOK, Rows
  <2> QED BY <1>11, <2>1, <2>2, <2>4 DEF TypeOK, release, workerVars
<1>12. CASE AskNote(r)
  <2>1. runtime \in Jobs
    BY <1>12 DEF TypeOK, AskNote
  <2>2. [pc |-> "store", task |-> runtime] \in All
    BY <2>1 DEF Storing
  <2>3. ReqOK'
    BY <1>1, <1>12, <2>2 DEF AskNote
  <2> QED BY <1>12, <2>3 DEF TypeOK, AskNote, workerVars, storeVars, Rows
<1>13. CASE StoreNote(r)
  <2>1. req[r].task \in Jobs
    BY <1>13, ReqShape DEF StoreNote, Storing
  <2>2. ReqOK'
    BY <1>3, <1>13 DEF StoreNote
  <2> QED BY <1>13, <2>1, <2>2 DEF TypeOK, StoreNote, workerVars, storeVars, Rows
<1>14. CASE cancel(r)
  <2>1. [pc |-> "cancel", task |-> token, session |-> runtime] \in All
    BY DEF TypeOK, Canceling, Ids
  <2>2. ReqOK'
    BY <1>1, <1>14, <2>1 DEF cancel
  <2> QED BY <1>14, <2>2 DEF TypeOK, cancel, workerVars, storeVars, Rows
<1>15. CASE Signal(r)
  <2>1. req[r].task \in Ids /\ req[r].session \in Ids
    BY <1>15, ReqShape DEF Signal, Canceling
  <2>2. ReqOK'
    BY <1>3, <1>15 DEF Signal
  <2>3. requested' \subseteq Jobs /\ stopped' \subseteq Jobs
    BY <1>15, <2>1 DEF TypeOK, Signal, Ids
  <2> QED BY <1>15, <2>2, <2>3 DEF TypeOK, Signal, storeVars, Rows
<1> QED BY <1>4, <1>5, <1>6, <1>7, <1>8, <1>9, <1>10, <1>11, <1>12, <1>13, <1>14, <1>15 DEF Request

-----------------------------------------------------------------------------
(* The jobs.                                                               *)

\* No other step of the program moves a thread or a request in charge: it may
\* leave the last stage, cancel, join a worker that has ended, or store a note.
LEMMA JobFrame ==
    ASSUME JobInv, TypeOK', Quiet', thread' = thread, requested \subseteq requested',
           job'.task = job.task, job'.running = job.running, job'.result = job.result,
           \A t \in Jobs : thread[t] \in Over \cup {"running"} => handle' = handle,
           \A q \in Requests : \/ req'[q] = req[q]
                               \/ req'[q].pc \notin Charge /\ req[q].pc \notin {"init", "launch"}
    PROVE  JobCore'
<1> USE DEF JobInv, JobCore
<1>1. Numbered'
  BY DEF Numbered, Begun
<1>2. LiveIsShown'
  BY DEF LiveIsShown, Live
<1>3. OneInCharge'
  BY DEF OneInCharge, Charge
<1>4. Outcome'
  BY DEF Outcome, OutcomeIsOwn
<1>5. ASSUME NEW r \in Requests PROVE InCharge(r)'
  BY DEF InCharge, Charge
<1>6. ASSUME NEW t \in Jobs PROVE Attended(t)'
  BY DEF Attended, Charge
<1> QED BY <1>1, <1>2, <1>3, <1>4, <1>5, <1>6

\* Before a job is begun no request is in charge of one, so the new one is alone.
LEMMA BeginJob ==
    ASSUME JobInv, TypeOK', NEW r \in Requests, req[r].pc = "begin",
           ~job.running, Begun # Jobs, NEW t, t = Cardinality(Begun) + 1,
           job'.task = t, job'.running, job'.result = "none",
           thread' = [thread EXCEPT ![t] = "beginning"],
           req'[r].pc \in {"init", "launch"}, req'[r].task = t,
           \A q \in Requests : q # r => req'[q] = req[q],
           UNCHANGED <<handle, requested, server>>
    PROVE  JobCore'
<1> USE DEF JobInv, JobCore
<1>1. /\ t \in Jobs /\ thread[t] = "none"
      /\ Begun = 1..(t - 1)
      /\ \A s \in Jobs : thread[s] # "none" => s < t
  BY NextJob
<1>2. thread'[t] = "beginning" /\ \A s \in Jobs : s # t => thread'[s] = thread[s]
  BY <1>1 DEF TypeOK
<1>3. \A s \in Jobs : ~Live(s)
  BY DEF LiveIsShown
<1>4. \A q \in Requests : req[q].pc \in Charge =>
         req[q].pc = "release" /\ req[q].task \in Jobs /\ req[q].task # t
  <2> TAKE q \in Requests
  <2> HAVE req[q].pc \in Charge
  <2>1. req[q].task \in Jobs
    BY ReqShape DEF Owning
  <2>2. req[q].pc = "release"
    BY DEF InCharge, Charge
  <2>3. thread[req[q].task] # "none"
    BY <2>2 DEF InCharge, Over
  <2> QED BY <1>1, <2>1, <2>2, <2>3
<1>5. Numbered'
  <2>1. Begun' = Begun \cup {t}
    BY <1>1, <1>2 DEF Begun
  <2>2. t \in 0..MaxJobs /\ t \in Nat \ {0}
    BY <1>1, WebAssumption DEF Jobs
  <2>3. 1..t = 1..(t - 1) \cup {t}
    BY ONLY <2>2, WebAssumption
  <2>4. Begun' = 1..t
    BY ONLY <1>1, <2>1, <2>3
  <2> QED BY <2>2, <2>4 DEF Numbered
<1>6. LiveIsShown'
  BY <1>2, <1>3 DEF LiveIsShown, Live
<1>7. OneInCharge'
  BY <1>4 DEF OneInCharge, Charge
<1>8. Outcome'
  BY <1>2 DEF Outcome, OutcomeIsOwn
<1>9. Quiet'
  BY DEF Quiet
<1>10. ASSUME NEW q \in Requests PROVE InCharge(q)'
  <2>1. CASE q = r
    BY <1>2, <2>1 DEF InCharge
  <2>2. CASE q # r
    BY <1>2, <1>4, <2>2 DEF InCharge, Charge
  <2> QED BY <2>1, <2>2
<1>11. ASSUME NEW s \in Jobs PROVE Attended(s)'
  BY <1>2, <1>3 DEF Attended, Live, Over
<1> QED BY <1>5, <1>6, <1>7, <1>8, <1>9, <1>10, <1>11

\* The request in charge launches the worker of its job, or fails to: the last
\* worker was not joined.
LEMMA LaunchJob ==
    ASSUME JobInv, TypeOK', NEW r \in Requests, req[r].pc \in {"init", "launch"},
           \/ req'[r].pc = "launch" /\ req'[r].task = req[r].task /\ UNCHANGED <<thread, handle>>
           \/ /\ handle = None /\ handle' = req[r].task
              /\ thread' = [thread EXCEPT ![req[r].task] = "running"]
              /\ req'[r].pc = "idle" \/ (req'[r].pc = "release" /\ req'[r].task = req[r].task)
           \/ /\ thread' = [thread EXCEPT ![req[r].task] = "ended"] /\ UNCHANGED handle
              /\ req'[r].pc = "reset" /\ req'[r].task = req[r].task,
           \A q \in Requests : q # r => req'[q] = req[q],
           job'.task = job.task, job'.running = job.running, job'.result = job.result,
           UNCHANGED <<requested, server>>
    PROVE  JobCore'
<1> DEFINE t == req[r].task
<1>1. t \in Jobs /\ thread[t] = "beginning" /\ job.running /\ job.task = t /\ job.result = "none"
  <2>1. t \in Jobs
    BY ReqShape DEF JobInv, Owning, Charge
  <2> QED BY <2>1 DEF JobInv, JobCore, InCharge, Outcome
<1>2. /\ \A s \in Jobs : s # t => thread'[s] = thread[s] /\ ~Live(s)
      /\ thread'[t] \in {"beginning", "running", "ended"}
  BY <1>1 DEF JobInv, JobCore, TypeOK, LiveIsShown
<1>3. \A q \in Requests : q # r /\ req[q].pc \in Charge => req[q].task # t /\ req[q].pc = "release"
  BY <1>1 DEF JobInv, JobCore, OneInCharge, InCharge, Charge
<1>4. Numbered'
  <2>1. Begun' = Begun
    BY <1>1, <1>2 DEF Begun
  <2> QED BY <2>1 DEF JobInv, JobCore, Numbered
<1>5. LiveIsShown'
  BY <1>1, <1>2 DEF JobInv, JobCore, LiveIsShown, Live
<1>6. OneInCharge'
  BY <1>3 DEF JobInv, JobCore, OneInCharge, Charge
<1>7. Outcome'
  BY <1>1, <1>2 DEF JobInv, JobCore, Outcome, OutcomeIsOwn
<1>8. Quiet'
  BY DEF JobInv, JobCore, Quiet
<1>9. ASSUME NEW q \in Requests PROVE InCharge(q)'
  <2>1. CASE q = r
    BY <1>1, <1>2, <2>1 DEF InCharge, JobInv, TypeOK
  <2>2. CASE q # r /\ req[q].pc \in Charge
    <3>1. req[q].task \in Jobs /\ req[q].task # t /\ req[q].pc = "release"
      BY <1>3, <2>2, ReqShape DEF JobInv, Owning
    <3> QED BY <1>2, <2>2, <3>1 DEF InCharge, JobInv, JobCore
  <2>3. CASE q # r /\ req[q].pc \notin Charge
    BY <2>3 DEF InCharge, Charge
  <2> QED BY <2>1, <2>2, <2>3
<1>10. ASSUME NEW s \in Jobs PROVE Attended(s)'
  <2>1. CASE s # t
    BY <1>2, <2>1 DEF Attended, Live, Over
  <2>2. CASE s = t
    BY <1>1, <2>2 DEF Attended, Over, JobInv, TypeOK
  <2> QED BY <2>1, <2>2
<1> QED BY <1>4, <1>5, <1>6, <1>7, <1>8, <1>9, <1>10 DEF JobCore

\* The store forgets a job whose worker could not be launched.
LEMMA ResetJob ==
    ASSUME JobInv, TypeOK', NEW r \in Requests, req[r].pc = "reset", req'[r].pc = "idle",
           \A q \in Requests : q # r => req'[q] = req[q],
           ~job'.running, job'.result = "none",
           UNCHANGED <<thread, handle, requested, server>>
    PROVE  JobCore'
<1> USE DEF JobInv, JobCore
<1>1. req[r].task \in Jobs /\ job.task = req[r].task /\ thread[job.task] = "ended"
  <2>1. req[r].task \in Jobs
    BY ReqShape DEF Owning, Charge
  <2> QED BY <2>1 DEF InCharge
<1>2. \A s \in Jobs : ~Live(s)
  BY <1>1 DEF LiveIsShown, Live
<1>3. \A q \in Requests : q # r /\ req[q].pc \in Charge => req[q].pc = "release"
  BY DEF OneInCharge, InCharge, Charge
<1>4. Numbered'
  BY DEF Numbered, Begun
<1>5. LiveIsShown'
  BY <1>2 DEF LiveIsShown, Live
<1>6. OneInCharge'
  BY DEF OneInCharge, Charge
<1>7. Outcome'
  BY DEF Outcome, OutcomeIsOwn
<1>8. Quiet'
  BY DEF Quiet
<1>9. ASSUME NEW q \in Requests PROVE InCharge(q)'
  BY <1>3 DEF InCharge, Charge
<1>10. ASSUME NEW s \in Jobs PROVE Attended(s)'
  BY <1>2 DEF Attended, Live, Over
<1> QED BY <1>4, <1>5, <1>6, <1>7, <1>8, <1>9, <1>10

\* The worker's function returns, and then its end is shown: it is the job of
\* the store, no request is in charge of it, and only its own token makes it
\* "canceled".
LEMMA EndJob ==
    ASSUME JobInv, TypeOK', NEW t \in Jobs, NEW pc, thread' = [thread EXCEPT ![t] = pc],
           \/ /\ thread[t] = "running" /\ pc \in Over
              /\ pc = "canceled" => t \in requested'
              /\ job' = job
           \/ /\ thread[t] \in Over /\ pc = "ended"
              /\ job'.task = job.task /\ ~job'.running /\ job'.result = thread[t],
           requested \subseteq requested',
           UNCHANGED <<req, handle, server>>
    PROVE  JobCore'
<1> USE DEF JobInv, JobCore
<1>1. job.running /\ job.task = t /\ thread'[t] = pc
      /\ \A s \in Jobs : s # t => thread'[s] = thread[s] /\ ~Live(s)
  BY DEF TypeOK, LiveIsShown, Live, Over
<1>2. \A q \in Requests : req[q].pc \in Charge => req[q].task \in Jobs /\ req[q].pc = "release"
  <2> TAKE q \in Requests
  <2> HAVE req[q].pc \in Charge
  <2>1. req[q].task \in Jobs
    BY ReqShape DEF Owning
  <2>2. req[q].pc \in {"init", "launch", "reset"} => req[q].task = t
    BY <1>1 DEF InCharge
  <2> QED BY <2>1, <2>2 DEF InCharge, Charge, Over
<1>3. Numbered'
  <2>1. Begun' = Begun
    BY <1>1 DEF Begun, Over
  <2> QED BY <2>1 DEF Numbered
<1>4. LiveIsShown'
  BY <1>1 DEF LiveIsShown, Live
<1>5. OneInCharge'
  BY DEF OneInCharge
<1>6. Outcome'
  BY <1>1 DEF Outcome, OutcomeIsOwn, Over
<1>7. Quiet'
  BY DEF Quiet
<1>8. ASSUME NEW q \in Requests PROVE InCharge(q)'
  BY <1>1, <1>2 DEF InCharge, Charge, Over
<1>9. ASSUME NEW s \in Jobs PROVE Attended(s)'
  <2>1. CASE s = t
    BY <1>1, <2>1 DEF Attended, Over
  <2>2. CASE s # t
    BY <1>1, <2>2 DEF Attended
  <2> QED BY <2>1, <2>2
<1> QED BY <1>3, <1>4, <1>5, <1>6, <1>7, <1>8, <1>9

\* Every step keeps the invariant of the jobs.
LEMMA JobNext ==
    ASSUME JobInv, [Next]_vars
    PROVE  JobInv'
<1> DEFINE SameJob == job'.task = job.task /\ job'.running = job.running /\ job'.result = job.result
<1>0. TypeOK /\ ReqOK /\ Numbered /\ Quiet /\ job.running \in BOOLEAN /\ DOMAIN job = {"task", "kind", "running", "result", "note"}
  BY DEF JobInv, JobCore, TypeOK
<1>1. TypeOK' /\ ReqOK'
  <2>1. CASE Next
    BY <1>0, <2>1, UploadTypes, ServerTypes, ProcessEndsInv, WorkerTypes, RequestTypes DEF Next, JobInv
  <2>2. CASE UNCHANGED vars
    <3>1. ReqOK'
      BY <1>0, <2>2 DEF vars, ReqOK, Idle, Asking, Owning, Storing, Canceling
    <3> QED BY <1>0, <2>2, <3>1 DEF vars, workerVars, storeVars, TypeOK, Rows
  <2> QED BY <2>1, <2>2
<1>2. \A t \in Jobs : thread[t] \in Over \cup {"running"} => joined = handle
  BY DEF JobInv, JobCore, LiveIsShown, Live, Over, joined
<1>3. CASE UNCHANGED vars
  <2>1. JobCore'
    BY <1>0, <1>1, <1>3, JobFrame DEF vars, workerVars, Quiet
  <2> QED BY <1>1, <2>1 DEF JobInv
<1>4. CASE UploadCall
  <2>1. JobCore'
    BY <1>0, <1>1, <1>4, JobFrame DEF UploadCall, workerVars, Quiet
  <2> QED BY <1>1, <2>1 DEF JobInv
<1>5. CASE Housekeeping
  <2>1. UNCHANGED <<job, thread, requested, req, server>> /\ handle' = joined
    BY <1>5 DEF Housekeeping, workerVars
  <2>2. JobCore'
    BY <1>0, <1>1, <1>2, <2>1, JobFrame DEF Quiet
  <2> QED BY <1>1, <2>2 DEF JobInv
<1>6. CASE Quit
  <2>1. UNCHANGED <<job, thread, handle, req>> /\ requested \subseteq requested'
    BY <1>6 DEF Quit
  <2>2. Quiet'
    BY <1>6 DEF Quit, Quiet, Busy
  <2>3. JobCore'
    BY <1>1, <2>1, <2>2, JobFrame
  <2> QED BY <1>1, <2>3 DEF JobInv
<1>7. CASE QuitEnds
  <2>1. UNCHANGED <<job, thread, requested, req>>
    BY <1>7 DEF QuitEnds, workerVars
  <2>2. Quiet'
    BY <1>0, <1>7 DEF QuitEnds, Quiet
  <2>3. \A t \in Jobs : thread[t] \notin Over \cup {"running"}
    <3> TAKE t \in Jobs
    <3>1. thread[t] \in Over \cup {"running"} => handle = t
      BY DEF JobInv, JobCore, Attended
    <3>2. t # None
      BY WebAssumption DEF Jobs, None
    <3> QED BY <1>7, <3>1, <3>2 DEF QuitEnds, Over
  <2>4. JobCore'
    BY <1>1, <2>1, <2>2, <2>3, JobFrame
  <2> QED BY <1>1, <2>4 DEF JobInv
<1>8. ASSUME NEW t \in Jobs, Worker(t)
      PROVE  JobInv'
  <2>1. CASE Report(t)
    <3>1. SameJob /\ UNCHANGED <<thread, requested, handle, req, server>>
      BY <1>0, <2>1 DEF Report, workerVars
    <3>2. JobCore'
      BY <1>0, <1>1, <3>1, JobFrame DEF Quiet
    <3> QED BY <1>1, <3>2 DEF JobInv
  <2>2. CASE RunEnds(t)
    <3>1. PICK ok \in BOOLEAN :
             /\ requested' = IF ok /\ t \in stopped THEN requested \cup {t} ELSE requested
             /\ thread' = [thread EXCEPT ![t] = IF t \in requested' THEN "canceled"
                                                ELSE IF ok THEN "success" ELSE "failed"]
      BY <2>2 DEF RunEnds
    <3> DEFINE pc == IF t \in requested' THEN "canceled" ELSE IF ok THEN "success" ELSE "failed"
    <3>2. pc \in Over /\ (pc = "canceled" => t \in requested')
      BY DEF Over
    <3>3. thread' = [thread EXCEPT ![t] = pc]
      BY <3>1
    <3> HIDE DEF pc
    <3>4. requested \subseteq requested' /\ thread[t] = "running" /\ UNCHANGED <<job, req, handle, server>>
      BY <2>2, <3>1 DEF RunEnds
    <3>5. JobCore'
      BY <1>1, <3>2, <3>3, <3>4, EndJob
    <3> QED BY <1>1, <3>5 DEF JobInv
  <2>3. CASE Finish(t)
    <3>1. /\ thread' = [thread EXCEPT ![t] = "ended"] /\ thread[t] \in Over
          /\ UNCHANGED <<requested, req, handle, server>>
          /\ job'.task = job.task /\ ~job'.running /\ job'.result = thread[t]
      BY <1>0, <2>3 DEF Finish, Over
    <3>2. JobCore'
      BY <1>1, <3>1, EndJob
    <3> QED BY <1>1, <3>2 DEF JobInv
  <2> QED BY <1>8, <2>1, <2>2, <2>3 DEF Worker
<1>9. ASSUME NEW r \in Requests, Request(r)
      PROVE  JobInv'
  <2> SUFFICES JobCore'
    BY <1>1 DEF JobInv
  <2> DEFINE Moved(v) == req' = [req EXCEPT ![r] = v]
  <2>0. server = "serving" \/ req[r].pc = "idle"
    BY <1>0 DEF Quiet
  <2>1. ASSUME NEW u \in Uploads, completed_path(r, u)
        PROVE  JobCore'
    <3>1. UNCHANGED <<job, handle, thread, requested, server>> /\ server = "serving" /\ req[r].pc = "idle"
          /\ Moved([pc |-> "join", kind |-> "send", upload |-> u])
      BY <2>1 DEF completed_path, workerVars
    <3>2. req'[r].pc = "join" /\ \A q \in Requests : q # r => req'[q] = req[q]
      BY <1>0, <3>1 DEF ReqOK
    <3> QED BY <1>0, <1>1, <3>1, <3>2, JobFrame DEF Quiet, Charge
  <2>2. CASE join_finished_worker(r)
    <3>1. UNCHANGED <<job, thread, requested, server>> /\ handle' = joined /\ req[r].pc = "join" /\ Step(r, "begin")
      BY <2>2 DEF join_finished_worker, workerVars
    <3>2. req'[r].pc = "begin" /\ \A q \in Requests : q # r => req'[q] = req[q]
      BY <1>0, <3>1, StepOn
    <3> QED BY <1>0, <1>1, <1>2, <2>0, <3>1, <3>2, JobFrame DEF Quiet, Charge
  <2>3. ASSUME NEW kind \in {"send", "note"}, AskJob(r, kind)
        PROVE  JobCore'
    <3>1. UNCHANGED <<job, thread, requested, server>> /\ server = "serving" /\ req[r].pc = "idle" /\ handle' = joined
          /\ Moved([pc |-> "begin", kind |-> kind, upload |-> NoUpload])
      BY <2>3 DEF AskJob, workerVars
    <3>2. req'[r].pc = "begin" /\ \A q \in Requests : q # r => req'[q] = req[q]
      BY <1>0, <3>1 DEF ReqOK
    <3> QED BY <1>0, <1>1, <1>2, <3>1, <3>2, JobFrame DEF Quiet, Charge
  <2>4. CASE begin_task(r)
    <3>1. req[r].pc = "begin" /\ UNCHANGED <<handle, requested, server>>
      BY <2>4 DEF begin_task
    <3>2. CASE Done(r) /\ UNCHANGED <<job, thread>>
      <4>1. req'[r] = Idle /\ \A q \in Requests : q # r => req'[q] = req[q]
        BY <1>0, <3>2, DoneReq
      <4> QED BY <1>0, <1>1, <2>0, <3>1, <3>2, <4>1, JobFrame DEF Quiet, Charge, Idle
    <3>3. CASE ~(Done(r) /\ UNCHANGED <<job, thread>>)
      <4> DEFINE t == Cardinality(Begun) + 1
                 pc == IF req[r].kind = "note" THEN "init" ELSE "launch"
      <4>1. /\ ~job.running /\ Begun # Jobs
            /\ job' = [task |-> t, kind |-> req[r].kind, running |-> TRUE, result |-> "none", note |-> None]
            /\ thread' = [thread EXCEPT ![t] = "beginning"]
            /\ Moved([pc |-> pc, kind |-> req[r].kind, upload |-> req[r].upload, task |-> t])
        BY <2>4, <3>3 DEF begin_task, MayBegin
      <4>2. /\ req'[r] = [pc |-> pc, kind |-> req[r].kind, upload |-> req[r].upload, task |-> t]
            /\ \A q \in Requests : q # r => req'[q] = req[q]
        BY <1>0, <4>1 DEF ReqOK
      <4>3. req'[r].pc \in {"init", "launch"} /\ req'[r].task = t
        BY <4>2
      <4>4. job'.task = t /\ job'.running /\ job'.result = "none"
        BY <4>1
      <4>5. t = Cardinality(Begun) + 1
        OBVIOUS
      <4> HIDE DEF t
      <4> QED BY <1>1, <3>1, <4>1, <4>2, <4>3, <4>4, <4>5, BeginJob
    <3> QED BY <3>2, <3>3
  <2>5. CASE InitNote(r)
    <3>1. SameJob /\ UNCHANGED <<thread, handle, requested, server>> /\ req[r].pc = "init" /\ Step(r, "launch")
      BY <1>0, <2>5 DEF InitNote, workerVars
    <3>2. req'[r].pc = "launch" /\ req'[r].task = req[r].task /\ \A q \in Requests : q # r => req'[q] = req[q]
      BY <1>0, <3>1, StepOn DEF Charge
    <3> QED BY <1>1, <3>1, <3>2, LaunchJob
  <2>6. CASE Launch(r)
    <3>1. SameJob /\ UNCHANGED <<requested, server>> /\ req[r].pc = "launch"
      BY <2>6 DEF Launch
    <3>2. CASE /\ ~Joinable /\ handle' = req[r].task
               /\ thread' = [thread EXCEPT ![req[r].task] = "running"]
               /\ IF req[r].upload = NoUpload THEN Done(r) ELSE Step(r, "release")
      <4>1. CASE Done(r)
        <5>1. req'[r].pc = "idle" /\ \A q \in Requests : q # r => req'[q] = req[q]
          BY <1>0, <4>1, DoneReq
        <5> QED BY <1>1, <3>1, <3>2, <5>1, LaunchJob DEF Joinable
      <4>2. CASE Step(r, "release")
        <5>1. /\ req'[r].pc = "release" /\ req'[r].task = req[r].task
              /\ \A q \in Requests : q # r => req'[q] = req[q]
          BY <1>0, <3>1, <4>2, StepOn DEF Charge
        <5> QED BY <1>1, <3>1, <3>2, <5>1, LaunchJob DEF Joinable
      <4> QED BY <3>2, <4>1, <4>2
    <3>3. CASE thread' = [thread EXCEPT ![req[r].task] = "ended"] /\ Step(r, "reset") /\ UNCHANGED handle
      <4>1. /\ req'[r].pc = "reset" /\ req'[r].task = req[r].task
            /\ \A q \in Requests : q # r => req'[q] = req[q]
        BY <1>0, <3>1, <3>3, StepOn DEF Charge
      <4> QED BY <1>1, <3>1, <3>3, <4>1, LaunchJob
    <3> QED BY <2>6, <3>2, <3>3 DEF Launch
  <2>7. CASE reset_task(r)
    <3>1. /\ UNCHANGED <<thread, handle, requested, server>> /\ req[r].pc = "reset" /\ Done(r)
          /\ ~job'.running /\ job'.result = "none"
      BY <2>7 DEF reset_task, workerVars, NoJob
    <3>2. req'[r].pc = "idle" /\ \A q \in Requests : q # r => req'[q] = req[q]
      BY <1>0, <3>1, DoneReq
    <3> QED BY <1>1, <3>1, <3>2, ResetJob
  <2>8. ASSUME SameJob, UNCHANGED <<handle, thread, server>>, requested \subseteq requested',
               Done(r), req[r].pc \in {"release", "store", "cancel"}
        PROVE  JobCore'
    <3>1. req'[r].pc = "idle" /\ \A q \in Requests : q # r => req'[q] = req[q]
      BY <1>0, <2>8, DoneReq
    <3> QED BY <1>0, <1>1, <2>0, <2>8, <3>1, JobFrame DEF Quiet, Charge
  <2>9. CASE release(r)
    BY <2>8, <2>9 DEF release, workerVars
  <2>10. CASE StoreNote(r)
    <3>1. SameJob
      BY <1>0, <2>10 DEF StoreNote
    <3> QED BY <2>8, <2>10, <3>1 DEF StoreNote, workerVars
  <2>11. CASE Signal(r)
    BY <2>8, <2>11 DEF Signal
  <2>12. ASSUME req'[r].pc \in {"store", "cancel"}, \A q \in Requests : q # r => req'[q] = req[q],
                req[r].pc = "idle", server = "serving",
                UNCHANGED <<job, handle, thread, requested, server>>
         PROVE  JobCore'
    BY <1>0, <1>1, <2>12, JobFrame DEF Quiet, Charge
  <2>13. CASE AskNote(r)
    <3>1. req'[r].pc = "store" /\ \A q \in Requests : q # r => req'[q] = req[q]
      BY <1>0, <2>13 DEF ReqOK, AskNote
    <3> QED BY <2>12, <2>13, <3>1 DEF AskNote, workerVars
  <2>14. CASE cancel(r)
    <3>1. req'[r].pc = "cancel" /\ \A q \in Requests : q # r => req'[q] = req[q]
      BY <1>0, <2>14 DEF ReqOK, cancel
    <3> QED BY <2>12, <2>14, <3>1 DEF cancel, workerVars
  <2> QED
    BY <1>9, <2>1, <2>2, <2>3, <2>4, <2>5, <2>6, <2>7, <2>9, <2>10, <2>11, <2>13, <2>14 DEF Request
<1>10. CASE ProcessEnds
  BY <1>0, <1>10, ProcessEndsInv
<1> QED BY <1>3, <1>4, <1>5, <1>6, <1>7, <1>8, <1>9, <1>10 DEF Next

-----------------------------------------------------------------------------
(* The staged files.                                                       *)

\* A stale upload is in no job's hands, and no request that will use it is on
\* its way.
LEMMA StaleIsFree ==
    ASSUME JobInv, StoreInv, NEW u \in stale
    PROVE  /\ \A t \in Jobs : cargo[t] = u => thread[t] \notin {"beginning", "running"}
           /\ \A r \in Requests : req[r].pc \in {"join", "begin"} => req[r].upload # u
<1>1. \A r \in Requests :
         /\ req[r].pc \in {"join", "begin", "init", "launch", "release"} => req[r].upload # u
         /\ req[r].pc \in Charge => cargo[req[r].task] = req[r].upload
  BY DEF StoreInv, Held
<1>2. u \in Uploads /\ u # NoUpload /\ entry[u].there
  BY WebAssumption DEF JobInv, TypeOK, Rows
<1>3. ASSUME NEW t \in Jobs, cargo[t] = u, thread[t] = "beginning"
      PROVE  FALSE
  <2>1. PICK r \in Requests : req[r].pc \in {"init", "launch"} /\ req[r].task = t
    BY <1>3 DEF JobInv, JobCore, Attended
  <2> QED BY <1>1, <1>3, <2>1 DEF Charge
<1>4. ASSUME NEW t \in Jobs, cargo[t] = u, thread[t] = "running"
      PROVE  FALSE
  <2>1. PICK r \in Requests : req[r].pc = "release" /\ req[r].task = t
    BY <1>2, <1>4 DEF StoreInv, Carries
  <2> QED BY <1>1, <1>4, <2>1 DEF Charge
<1> QED BY <1>1, <1>3, <1>4

\* What a call of the store does to one upload.
Untouched(u) ==
    /\ entry'[u].there = entry[u].there /\ (u \in onDisk' <=> u \in onDisk)
    /\ Length(u)'
    /\ u \in stale' /\ u \notin stale =>
          \A r \in Requests :
              req[r].pc \in {"join", "begin", "init", "launch", "release"} => req[r].upload # u
Purged(u)    == u \in stale /\ ~entry'[u].there /\ u \notin onDisk' \cup stale'
Cancelled(u) == u \in withdrawn' /\ ~entry'[u].there /\ u \notin onDisk' \cup stale'
Started(u)   == /\ Fresh(u) /\ entry'[u].there /\ u \in onDisk' /\ u \notin stale'
                /\ Length(u)'

\* The steps in which no worker moves and no request is in the last stages of
\* starting a job.
LEMMA StoreFrame ==
    ASSUME JobInv, StoreInv, TypeOK', thread' = thread, cargo' = cargo,
           withdrawn \subseteq withdrawn',
           \A u \in Uploads : Untouched(u) \/ Purged(u) \/ Cancelled(u) \/ Started(u),
           \A q \in Requests : \/ req'[q] = req[q]
                               \/ /\ req[q].pc \notin {"release", "reset"} /\ req'[q].pc # "reset"
                                  /\ Held(q)'
    PROVE  StoreInv'
<1>0. TypeOK
  BY DEF JobInv
<1>1. \A t \in Jobs : (Ran(t) <=> Ran(t)') /\ (Live(t) <=> Live(t)')
  BY DEF Ran, Live
<1>2. \A u \in Uploads : SentBefore(u) => SentBefore(u)'
  BY <1>1 DEF SentBefore
<1>3. ASSUME NEW u \in Uploads PROVE Length(u)'
  BY DEF Untouched, Purged, Cancelled, Started, Length
<1>4. ASSUME NEW u \in Uploads PROVE Accounted(u)'
  <2>1. Accounted(u)
    BY DEF StoreInv
  <2>2. u \in onDisk' => entry'[u].there \/ \E t \in Jobs : cargo'[t] = u /\ Live(t)'
    BY <1>1, <2>1 DEF Untouched, Purged, Cancelled, Started, Accounted
  <2>3. entry'[u].there => u \in onDisk' \/ SentBefore(u)'
    BY <1>2, <2>1 DEF Untouched, Purged, Cancelled, Started, Accounted
  <2> QED BY <2>2, <2>3 DEF Accounted
<1>5. ASSUME NEW q \in Requests PROVE Held(q)'
  <2>0. CASE Held(q)'
    BY <2>0
  <2>1. CASE req'[q] = req[q]
    <3> SUFFICES ASSUME NEW u, u = req[q].upload
                 PROVE  Held(q)'
      OBVIOUS
    <3>0. Held(q)
      BY DEF StoreInv
    <3>1. req[q].pc \in {"join", "begin"} \cup Charge => u \in Uploads \/ u = NoUpload
      BY ReqShape DEF JobInv, Asking, Owning, Files
    <3>2. NoUpload \notin stale' \cup onDisk'
      BY WebAssumption DEF TypeOK, Rows
    <3>3. req[q].pc \in {"join", "begin", "init", "launch", "release"} => u \notin stale'
      BY <3>0, <3>1, <3>2 DEF Held, Untouched, Purged, Cancelled, Started, Charge
    <3>4. req[q].pc \in {"join", "begin"} /\ u # NoUpload => u \in onDisk' \cup withdrawn' \/ SentBefore(u)'
      <4>1. ASSUME req[q].pc \in {"join", "begin"}, u # NoUpload, u \in Uploads
            PROVE  u \in onDisk' \cup withdrawn' \/ SentBefore(u)'
        <5>1. u \in onDisk \cup withdrawn \/ SentBefore(u)
          BY <3>0, <4>1 DEF Held
        <5>2. u \notin stale
          BY <3>0, <4>1 DEF Held
        <5>3. u \in onDisk \cup withdrawn => u \in onDisk' \cup withdrawn'
          BY <4>1, <5>2 DEF Untouched, Purged, Cancelled, Started
        <5>4. SentBefore(u) => SentBefore(u)'
          BY <1>2, <4>1
        <5> QED BY <5>1, <5>3, <5>4
      <4> QED BY <3>1, <4>1
    <3>5. req[q].pc \in {"init", "launch", "reset"} /\ u \in onDisk' => entry'[u].there
      BY <3>0, <3>1, <3>2 DEF Held, Untouched, Purged, Cancelled, Started, Charge
    <3>6. /\ req[q].pc = "release" => u \in Uploads
          /\ req[q].pc \in Charge => cargo'[req[q].task] = u
      BY <3>0 DEF Held
    <3> QED BY <2>1, <3>3, <3>4, <3>5, <3>6 DEF Held
  <2> QED BY <2>0, <2>1
<1>6. ASSUME NEW t \in Jobs PROVE Carries(t)'
  <2>0. Carries(t)
    BY DEF StoreInv
  <2>1. thread'[t] = "none" => cargo'[t] = NoUpload
    BY <2>0 DEF Carries
  <2>2. CASE cargo[t] = NoUpload
    <3>1. NoUpload \notin onDisk'
      BY WebAssumption DEF TypeOK
    <3> QED BY <2>2, <3>1 DEF Carries
  <2>3. CASE cargo[t] # NoUpload
    <3> DEFINE u == cargo[t]
    <3>1. u \in Uploads
      BY <1>0, <2>3 DEF TypeOK
    <3>2. Untouched(u) \/ Purged(u) \/ Cancelled(u)
      BY <3>1 DEF Started, Fresh
    <3>3. thread[t] \in {"beginning", "running"} => u \notin stale
      BY StaleIsFree
    <3>4. thread[t] \in {"beginning", "running"} =>
             \/ u \in onDisk' \cup withdrawn'
             \/ \E s \in Jobs : s < t /\ cargo'[s] = u /\ Ran(s)'
      BY <1>1, <2>0, <2>3, <3>2, <3>3 DEF Carries, Untouched, Purged, Cancelled
    <3>5. thread[t] = "running" /\ entry'[u].there =>
             \E r \in Requests : req'[r].pc = "release" /\ req'[r].task = t
      BY <2>0, <2>3, <3>2 DEF Carries, Untouched, Purged, Cancelled
    <3>6. Ran(t)' => u \notin onDisk'
      BY <1>1, <2>0, <3>2 DEF Carries, Untouched, Purged, Cancelled
    <3> QED BY <2>1, <2>3, <3>4, <3>5, <3>6 DEF Carries
  <2> QED BY <2>2, <2>3
<1> QED BY <1>3, <1>4, <1>5, <1>6 DEF StoreInv

\* A job is begun: it takes over what its request knew of the upload.
LEMMA BeginStore ==
    ASSUME JobInv, StoreInv, NEW r \in Requests, req[r].pc = "begin",
           ~job.running, NEW t \in Jobs, thread[t] = "none",
           \A s \in Jobs : thread[s] # "none" => s < t,
           thread' = [thread EXCEPT ![t] = "beginning"],
           cargo' = [cargo EXCEPT ![t] = req[r].upload],
           req'[r].pc \in {"init", "launch"}, req'[r].upload = req[r].upload, req'[r].task = t,
           \A q \in Requests : q # r => req'[q] = req[q],
           UNCHANGED storeVars
    PROVE  StoreInv'
<1>1. /\ thread'[t] = "beginning" /\ cargo[t] = NoUpload /\ cargo'[t] = req[r].upload
      /\ \A s \in Jobs : s # t => thread'[s] = thread[s] /\ cargo'[s] = cargo[s]
      /\ UNCHANGED <<entry, onDisk, bytes, stale, withdrawn>>
  BY DEF JobInv, TypeOK, StoreInv, Carries, storeVars
<1>2. \A s \in Jobs : ~Live(s)
  BY DEF JobInv, JobCore, LiveIsShown
<1>3. \A s \in Jobs : (Ran(s) <=> Ran(s)') /\ (Ran(s) => s # t /\ s < t)
  BY <1>1 DEF Ran, Over
<1>4. \A u \in Uploads : SentBefore(u) => SentBefore(u)'
  BY <1>1, <1>3 DEF SentBefore
<1>5. Held(r) /\ req[r].upload \in Files /\ NoUpload \notin Uploads
  BY ReqShape, WebAssumption DEF JobInv, StoreInv, Asking
<1>6. ASSUME NEW u \in Uploads PROVE Length(u)' /\ Accounted(u)'
  <2>1. Length(u) /\ Accounted(u)
    BY DEF StoreInv
  <2>2. Length(u)'
    BY <1>1, <2>1 DEF Length
  <2>3. u \in onDisk => entry[u].there
    BY <1>2, <2>1 DEF Accounted
  <2>4. entry[u].there => u \in onDisk \/ SentBefore(u)'
    BY <1>4, <2>1 DEF Accounted
  <2> QED BY <1>1, <2>2, <2>3, <2>4 DEF Accounted
<1>7. ASSUME NEW q \in Requests PROVE Held(q)'
  <2>1. CASE q = r
    <3>1. req[r].upload \in onDisk => entry[req[r].upload].there
      <4>1. req[r].upload \in onDisk => req[r].upload \in Uploads
        BY DEF JobInv, TypeOK
      <4> QED BY <1>2, <4>1 DEF StoreInv, Accounted
    <3>2. req[r].upload \notin stale
      BY <1>5 DEF Held
    <3> QED BY <1>1, <2>1, <3>1, <3>2 DEF Held, Charge
  <2>2. CASE q # r
    <3>1. Held(q) /\ req'[q] = req[q]
      BY <2>2 DEF StoreInv
    <3>2. req[q].pc \in {"join", "begin"} /\ req[q].upload # NoUpload /\ SentBefore(req[q].upload)
             => SentBefore(req[q].upload)'
      <4>1. req[q].pc \in {"join", "begin"} /\ req[q].upload # NoUpload => req[q].upload \in Uploads
        BY ReqShape DEF JobInv, Asking, Files
      <4> QED BY <1>1, <1>3, <3>1, <4>1, WebAssumption DEF SentBefore
    <3>3. req[q].pc \in Charge => cargo'[req[q].task] = cargo[req[q].task]
      <4>1. req[q].pc \in Charge => req[q].task \in Jobs
        BY ReqShape DEF JobInv, Owning
      <4>2. req[q].pc \in Charge => thread[req[q].task] # "none"
        BY DEF JobInv, JobCore, InCharge, Charge, Over
      <4> QED BY <1>1, <4>1, <4>2
    <3> QED BY <1>1, <3>1, <3>2, <3>3 DEF Held
  <2> QED BY <2>1, <2>2
<1>8. ASSUME NEW s \in Jobs PROVE Carries(s)'
  <2>1. CASE s = t
    <3>1. req[r].upload # NoUpload =>
             \/ req[r].upload \in onDisk \cup withdrawn
             \/ \E i \in Jobs : cargo[i] = req[r].upload /\ Ran(i)
      BY <1>5 DEF Held, SentBefore
    <3>2. req[r].upload # NoUpload =>
             \/ req[r].upload \in onDisk \cup withdrawn
             \/ \E i \in Jobs : i < t /\ cargo'[i] = req[r].upload /\ Ran(i)'
      BY <1>1, <1>3, <3>1
    <3> QED BY <1>1, <1>3, <2>1, <3>2 DEF Carries
  <2>2. CASE s # t
    <3>1. Carries(s) /\ thread'[s] = thread[s] /\ cargo'[s] = cargo[s]
      BY <1>1, <2>2 DEF StoreInv
    <3>2. thread[s] \notin {"beginning", "running"}
      BY <1>2 DEF Live
    <3> QED BY <1>1, <1>3, <3>1, <3>2 DEF Carries
  <2> QED BY <2>1, <2>2
<1> QED BY <1>6, <1>7, <1>8 DEF StoreInv

\* The worker is launched: its request has only the release of the upload left.
LEMMA LaunchStore ==
    ASSUME JobInv, StoreInv, NEW r \in Requests, req[r].pc = "launch",
           NEW t \in Jobs, t = req[r].task,
           thread' = [thread EXCEPT ![t] = "running"],
           \/ req[r].upload = NoUpload /\ req'[r].pc = "idle"
           \/ /\ req[r].upload # NoUpload /\ req'[r].pc = "release"
              /\ req'[r].upload = req[r].upload /\ req'[r].task = t,
           \A q \in Requests : q # r => req'[q] = req[q],
           UNCHANGED <<storeVars, cargo>>
    PROVE  StoreInv'
<1>1. /\ thread'[t] = "running" /\ thread[t] = "beginning"
      /\ \A s \in Jobs : s # t => thread'[s] = thread[s]
      /\ UNCHANGED <<entry, onDisk, bytes, stale, withdrawn, cargo>>
  BY DEF JobInv, JobCore, InCharge, TypeOK, storeVars
<1>2. Held(r) /\ cargo[t] = req[r].upload /\ req[r].upload \in Files
  BY ReqShape DEF JobInv, StoreInv, Held, Owning, Charge
<1>3. \A s \in Jobs : (Ran(s) <=> Ran(s)') /\ (Live(s) <=> Live(s)')
  BY <1>1 DEF Ran, Live, Over
<1>4. \A q \in Requests : req[q].pc \in {"join", "begin"} /\ req[q].upload # NoUpload =>
         (SentBefore(req[q].upload) => \E s \in Jobs : cargo[s] = req[q].upload /\ Ran(s)')
  BY <1>3 DEF SentBefore
<1>5. ASSUME NEW u \in Uploads PROVE Length(u)' /\ Accounted(u)'
  BY <1>1, <1>3 DEF StoreInv, Length, Accounted, SentBefore
<1>6. ASSUME NEW q \in Requests PROVE Held(q)'
  <2>1. CASE q = r
    BY <1>1, <1>2, <2>1 DEF Held, Charge, Files
  <2>2. CASE q # r
    BY <1>1, <1>4, <2>2 DEF StoreInv, Held, SentBefore
  <2> QED BY <2>1, <2>2
<1>7. ASSUME NEW s \in Jobs PROVE Carries(s)'
  <2>0. Carries(s)
    BY DEF StoreInv
  <2>1. CASE s = t
    BY <1>1, <1>2, <1>3, <2>0, <2>1 DEF Carries
  <2>2. CASE s # t
    BY <1>1, <1>3, <2>0, <2>2 DEF Carries
  <2> QED BY <2>1, <2>2
<1> QED BY <1>5, <1>6, <1>7 DEF StoreInv

\* The worker could not be launched: the job never had its upload, and the row
\* still accounts for it.
LEMMA LaunchFailStore ==
    ASSUME JobInv, StoreInv, NEW r \in Requests, req[r].pc = "launch",
           NEW t \in Jobs, t = req[r].task,
           thread' = [thread EXCEPT ![t] = "ended"],
           req'[r].pc = "reset", req'[r].upload = req[r].upload, req'[r].task = t,
           \A q \in Requests : q # r => req'[q] = req[q],
           UNCHANGED <<storeVars, cargo>>
    PROVE  StoreInv'
<1>1. /\ thread'[t] = "ended" /\ thread[t] = "beginning"
      /\ \A s \in Jobs : s # t => thread'[s] = thread[s]
      /\ UNCHANGED <<entry, onDisk, bytes, stale, withdrawn, cargo>>
  BY DEF JobInv, JobCore, InCharge, TypeOK, storeVars
<1>2. Held(r) /\ cargo[t] = req[r].upload /\ req[r].upload \in Files
  BY ReqShape DEF JobInv, StoreInv, Held, Owning, Charge
<1>3. /\ \A s \in Jobs : Ran(s) <=> Ran(s)'
      /\ \A s \in Jobs : s # t => (Live(s) <=> Live(s)')
  BY <1>1 DEF Ran, Live, Over
<1>4. ASSUME NEW u \in Uploads PROVE Length(u)' /\ Accounted(u)'
  <2>1. Length(u)'
    BY <1>1 DEF StoreInv, Length
  <2>2. u \in onDisk => entry[u].there \/ \E s \in Jobs : cargo[s] = u /\ Live(s)'
    BY <1>2, <1>3 DEF StoreInv, Accounted, Held
  <2>3. entry[u].there => u \in onDisk \/ SentBefore(u)'
    BY <1>1, <1>3 DEF StoreInv, Accounted, SentBefore
  <2> QED BY <1>1, <2>1, <2>2, <2>3 DEF Accounted
<1>5. ASSUME NEW q \in Requests PROVE Held(q)'
  <2>1. CASE q = r
    BY <1>1, <1>2, <2>1 DEF Held, Charge
  <2>2. CASE q # r
    BY <1>1, <1>3, <2>2 DEF StoreInv, Held, SentBefore
  <2> QED BY <2>1, <2>2
<1>6. ASSUME NEW s \in Jobs PROVE Carries(s)'
  <2>0. Carries(s)
    BY DEF StoreInv
  <2>1. CASE s = t
    <3>1. ~Ran(t)
      BY <1>1 DEF Ran, Over
    <3> QED BY <1>1, <1>3, <2>1, <3>1 DEF Carries
  <2>2. CASE s # t
    BY <1>1, <1>3, <2>0, <2>2 DEF Carries
  <2> QED BY <2>1, <2>2
<1> QED BY <1>4, <1>5, <1>6 DEF StoreInv

\* The store forgets the job.
LEMMA ResetStore ==
    ASSUME JobInv, StoreInv, NEW r \in Requests, req[r].pc = "reset",
           NEW t \in Jobs, t = req[r].task,
           cargo' = [cargo EXCEPT ![t] = NoUpload], req'[r].pc = "idle",
           \A q \in Requests : q # r => req'[q] = req[q],
           UNCHANGED <<storeVars, thread>>
    PROVE  StoreInv'
<1>1. /\ thread[t] = "ended" /\ cargo'[t] = NoUpload
      /\ \A s \in Jobs : s # t => cargo'[s] = cargo[s]
      /\ UNCHANGED <<entry, onDisk, bytes, stale, withdrawn, thread>>
  BY DEF JobInv, JobCore, InCharge, TypeOK, storeVars
<1>2. /\ \A s \in Jobs : (Ran(s) => s # t /\ Ran(s)') /\ (Ran(s)' => s = t \/ Ran(s))
      /\ \A s \in Jobs : (Live(s) <=> Live(s)') /\ (Live(s) => s # t)
  BY <1>1 DEF Ran, Live
<1>3. NoUpload \notin onDisk
  BY WebAssumption DEF JobInv, TypeOK
<1>4. ASSUME NEW u \in Uploads PROVE Length(u)' /\ Accounted(u)'
  <2>1. Length(u)'
    BY <1>1 DEF StoreInv, Length
  <2>2. u \in onDisk => entry[u].there \/ \E s \in Jobs : cargo'[s] = u /\ Live(s)'
    BY <1>1, <1>2 DEF StoreInv, Accounted
  <2>3. entry[u].there => u \in onDisk \/ SentBefore(u)'
    BY <1>1, <1>2 DEF StoreInv, Accounted, SentBefore
  <2> QED BY <1>1, <2>1, <2>2, <2>3 DEF Accounted
<1>5. ASSUME NEW q \in Requests PROVE Held(q)'
  <2>1. CASE q = r
    BY <2>1 DEF Held, Charge
  <2>2. CASE q # r
    <3>1. req[q].pc \in Charge => req[q].task \in Jobs /\ req[q].task # t
      BY <2>2, ReqShape DEF JobInv, JobCore, OneInCharge, Charge, Owning
    <3> QED BY <1>1, <1>2, <2>2, <3>1 DEF StoreInv, Held, SentBefore
  <2> QED BY <2>1, <2>2
<1>6. ASSUME NEW s \in Jobs PROVE Carries(s)'
  <2>0. Carries(s)
    BY DEF StoreInv
  <2>1. CASE s = t
    BY <1>1, <1>3, <2>1 DEF Carries
  <2>2. CASE s # t
    <3>1. cargo[s] # NoUpload /\ thread[s] \in {"beginning", "running"} =>
             \/ cargo[s] \in onDisk \cup withdrawn
             \/ \E i \in Jobs : i < s /\ cargo'[i] = cargo[s] /\ Ran(i)'
      BY <1>1, <1>2, <2>0 DEF Carries
    <3> QED BY <1>1, <1>2, <2>0, <2>2, <3>1 DEF Carries
  <2> QED BY <2>1, <2>2
<1> QED BY <1>4, <1>5, <1>6 DEF StoreInv

\* The row of the upload goes; the job accounts for the file, or has removed it.
LEMMA ReleaseStore ==
    ASSUME JobInv, StoreInv, NEW r \in Requests, req[r].pc = "release",
           NEW u, u = req[r].upload,
           entry' = [entry EXCEPT ![u] = NoRow], stale' = stale \ {u}, req'[r].pc = "idle",
           \A q \in Requests : q # r => req'[q] = req[q],
           UNCHANGED <<onDisk, bytes, withdrawn, thread, cargo>>
    PROVE  StoreInv'
<1> DEFINE t == req[r].task
<1>1. t \in Jobs /\ cargo[t] = u /\ u \in Uploads /\ thread[t] \in Over \cup {"running", "ended"}
  BY ReqShape DEF JobInv, JobCore, InCharge, StoreInv, Held, Owning, Charge
<1>2. ~entry'[u].there /\ \A v \in Uploads : v # u => entry'[v] = entry[v]
  BY <1>1 DEF JobInv, TypeOK, NoRow
<1>3. \A s \in Jobs : (Ran(s) <=> Ran(s)') /\ (Live(s) <=> Live(s)')
  BY DEF Ran, Live
<1>4. \A q \in Requests : q # r /\ req[q].pc \in Charge => req[q].task # t
  BY DEF JobInv, JobCore, OneInCharge, Charge
<1>5. u \in onDisk => thread[t] = "running"
  <2>1. thread[t] \in Over \cup {"ended"} => Ran(t)
    BY <1>4 DEF Ran, Charge
  <2> QED BY <1>1, <2>1 DEF StoreInv, Carries
<1>6. \A v \in Uploads : SentBefore(v) => SentBefore(v)'
  BY <1>3 DEF SentBefore
<1>7. ASSUME NEW v \in Uploads PROVE Length(v)' /\ Accounted(v)'
  <2>1. Length(v) /\ Accounted(v)
    BY DEF StoreInv
  <2>2. CASE v = u
    <3>1. u \in onDisk => \E s \in Jobs : cargo'[s] = u /\ Live(s)'
      BY <1>1, <1>3, <1>5 DEF Live
    <3> QED BY <1>2, <2>2, <3>1 DEF Length, Accounted
  <2>3. CASE v # u
    <3>1. entry'[v] = entry[v]
      BY <1>2, <2>3
    <3>2. Length(v)'
      BY <2>1, <3>1 DEF Length
    <3> QED BY <1>3, <1>6, <2>1, <3>1, <3>2 DEF Accounted
  <2> QED BY <2>2, <2>3
<1>8. ASSUME NEW q \in Requests PROVE Held(q)'
  <2>1. CASE q = r
    BY <2>1 DEF Held, Charge
  <2>2. CASE q # r
    <3>0. Held(q) /\ req'[q] = req[q]
      BY <2>2 DEF StoreInv
    <3>1. req[q].pc \in {"init", "launch", "reset"} /\ req[q].upload \in onDisk => req[q].upload # u
      <4>1. thread[t] = "running" => job.task = t
        BY <1>1 DEF JobInv, JobCore, LiveIsShown, Live
      <4>2. req[q].pc \in {"init", "launch", "reset"} => job.task = req[q].task
        BY DEF JobInv, JobCore, InCharge
      <4> QED BY <1>4, <1>5, <2>2, <4>1, <4>2 DEF Charge
    <3>2. req[q].pc \in {"init", "launch", "reset"} /\ req[q].upload \in onDisk => entry'[req[q].upload].there
      <4>1. onDisk \subseteq Uploads
        BY DEF JobInv, TypeOK
      <4> QED BY <1>2, <3>0, <3>1, <4>1 DEF Held
    <3>3. req[q].pc \in {"join", "begin"} /\ req[q].upload # NoUpload =>
             req[q].upload \in onDisk \cup withdrawn \/ \E s \in Jobs : cargo[s] = req[q].upload /\ Ran(s)'
      BY <1>3, <3>0 DEF Held, SentBefore
    <3> QED BY <3>0, <3>2, <3>3 DEF Held, SentBefore
  <2> QED BY <2>1, <2>2
<1>9. ASSUME NEW s \in Jobs PROVE Carries(s)'
  <2>0. Carries(s)
    BY DEF StoreInv
  <2>1. cargo[s] # NoUpload /\ thread[s] = "running" /\ entry'[cargo[s]].there =>
           \E q \in Requests : req'[q].pc = "release" /\ req'[q].task = s
    <3>1. ASSUME cargo[s] # NoUpload, thread[s] = "running", entry'[cargo[s]].there
          PROVE  \E q \in Requests : req'[q].pc = "release" /\ req'[q].task = s
      <4>1. cargo[s] \in Uploads
        BY <3>1 DEF JobInv, TypeOK
      <4>2. cargo[s] # u /\ entry[cargo[s]].there
        BY <1>2, <3>1, <4>1
      <4>3. PICK q \in Requests : req[q].pc = "release" /\ req[q].task = s
        BY <2>0, <3>1, <4>2 DEF Carries
      <4>4. q # r
        BY <1>1, <4>2, <4>3
      <4> QED BY <4>3, <4>4
    <3> QED BY <3>1
  <2>2. cargo[s] # NoUpload /\ thread[s] \in {"beginning", "running"} =>
           \/ cargo[s] \in onDisk \cup withdrawn
           \/ \E i \in Jobs : i < s /\ cargo[i] = cargo[s] /\ Ran(i)'
    BY <1>3, <2>0 DEF Carries
  <2> QED BY <1>3, <2>0, <2>1, <2>2 DEF Carries
<1> QED BY <1>7, <1>8, <1>9 DEF StoreInv

\* The function of a job returns and its staged file is removed.
LEMMA RunStore ==
    ASSUME JobInv, StoreInv, NEW t \in Jobs, thread[t] = "running", NEW pc \in Over,
           thread' = [thread EXCEPT ![t] = pc], onDisk' = onDisk \ {cargo[t]},
           UNCHANGED <<entry, bytes, stale, withdrawn, cargo, req>>
    PROVE  StoreInv'
<1>1. thread'[t] = pc /\ \A s \in Jobs : s # t => thread'[s] = thread[s]
  BY DEF JobInv, TypeOK
<1>2. /\ \A s \in Jobs : s # t => ((Ran(s) <=> Ran(s)') /\ ~Live(s))
      /\ \A s \in Jobs : Live(s) <=> Live(s)'
  BY <1>1 DEF JobInv, JobCore, LiveIsShown, Live, Ran, Over
<1>3. Ran(t)' /\ ~Ran(t)
  <2>1. \A r \in Requests : ~(req[r].pc = "reset" /\ req[r].task = t)
    BY DEF JobInv, JobCore, InCharge
  <2> QED BY <1>1, <2>1 DEF Ran, Over
<1>4. \A s \in Jobs : Ran(s) => Ran(s)'
  BY <1>2, <1>3
<1>5. ASSUME NEW u \in Uploads PROVE Length(u)' /\ Accounted(u)'
  <2>1. Length(u)'
    BY DEF StoreInv, Length
  <2>2. u \in onDisk' => entry[u].there \/ \E s \in Jobs : cargo[s] = u /\ Live(s)'
    BY <1>2 DEF StoreInv, Accounted
  <2>3. entry[u].there => u \in onDisk' \/ SentBefore(u)'
    BY <1>3, <1>4 DEF StoreInv, Accounted, SentBefore
  <2> QED BY <2>1, <2>2, <2>3 DEF Accounted
<1>6. ASSUME NEW q \in Requests PROVE Held(q)'
  BY <1>3, <1>4 DEF StoreInv, Held, SentBefore
<1>7. ASSUME NEW s \in Jobs PROVE Carries(s)'
  <2>0. Carries(s)
    BY DEF StoreInv
  <2>1. CASE s = t
    <3>1. thread'[t] \notin {"none", "beginning", "running"}
      BY <1>1 DEF Over
    <3> QED BY <2>1, <3>1 DEF Carries
  <2>2. CASE s # t
    <3>1. thread[s] \notin {"beginning", "running"}
      BY <1>2, <2>2 DEF Live
    <3> QED BY <1>1, <1>2, <2>0, <2>2, <3>1 DEF Carries
  <2> QED BY <2>1, <2>2
<1> QED BY <1>5, <1>6, <1>7 DEF StoreInv

\* The end of a job is shown; it has no file left to account for.
LEMMA FinishStore ==
    ASSUME JobInv, StoreInv, NEW t \in Jobs, thread[t] \in Over,
           thread' = [thread EXCEPT ![t] = "ended"],
           UNCHANGED <<storeVars, cargo, req>>
    PROVE  StoreInv'
<1>1. /\ thread'[t] = "ended" /\ \A s \in Jobs : s # t => thread'[s] = thread[s]
      /\ UNCHANGED <<entry, onDisk, bytes, stale, withdrawn, cargo, req>>
  BY DEF JobInv, TypeOK, storeVars
<1>2. /\ \A s \in Jobs : Ran(s) <=> Ran(s)'
      /\ \A s \in Jobs : s # t => (Live(s) <=> Live(s)')
  BY <1>1 DEF Live, Ran, Over
<1>3. cargo[t] \notin onDisk
  <2>1. \A r \in Requests : ~(req[r].pc = "reset" /\ req[r].task = t)
    BY DEF JobInv, JobCore, InCharge, Over
  <2> QED BY <2>1 DEF StoreInv, Carries, Ran
<1>4. ASSUME NEW u \in Uploads PROVE Length(u)' /\ Accounted(u)'
  <2>1. Length(u)'
    BY <1>1 DEF StoreInv, Length
  <2>2. u \in onDisk => entry[u].there \/ \E s \in Jobs : cargo[s] = u /\ Live(s)'
    BY <1>2, <1>3 DEF StoreInv, Accounted
  <2>3. entry[u].there => u \in onDisk \/ SentBefore(u)'
    BY <1>1, <1>2 DEF StoreInv, Accounted, SentBefore
  <2> QED BY <1>1, <2>1, <2>2, <2>3 DEF Accounted
<1>5. ASSUME NEW q \in Requests PROVE Held(q)'
  BY <1>1, <1>2 DEF StoreInv, Held, SentBefore
<1>6. ASSUME NEW s \in Jobs PROVE Carries(s)'
  <2>0. Carries(s)
    BY DEF StoreInv
  <2>1. CASE s = t
    BY <1>1, <1>3, <2>1 DEF Carries
  <2>2. CASE s # t
    BY <1>1, <1>2, <2>0, <2>2 DEF Carries
  <2> QED BY <2>1, <2>2
<1> QED BY <1>4, <1>5, <1>6 DEF StoreInv

\* The destructors: no worker is left, and nothing is staged any more.
LEMMA QuitStore ==
    ASSUME JobInv, StoreInv, TypeOK', QuitEnds
    PROVE  StoreInv'
<1>1. /\ onDisk' = {} /\ stale' = {} /\ \A u \in Uploads : ~entry'[u].there
      /\ UNCHANGED <<thread, cargo, req>> /\ server # "serving"
  BY DEF QuitEnds, workerVars, NoRow
<1>2. \A r \in Requests : req[r].pc = "idle"
  BY <1>1 DEF JobInv, JobCore, Quiet
<1>3. ASSUME NEW t \in Jobs PROVE thread[t] \notin {"beginning", "running"}
  <2>1. Attended(t) /\ t # None
    BY WebAssumption DEF JobInv, JobCore, Jobs, None
  <2>2. thread[t] = "running" => handle = t
    BY <2>1 DEF Attended
  <2>3. thread[t] # "running"
    BY <2>1, <2>2 DEF QuitEnds
  <2>4. thread[t] # "beginning"
    BY <1>2, <2>1 DEF Attended
  <2> QED BY <2>3, <2>4
<1>4. ASSUME NEW u \in Uploads PROVE Length(u)' /\ Accounted(u)'
  BY <1>1 DEF Length, Accounted
<1>5. ASSUME NEW q \in Requests PROVE Held(q)'
  BY <1>1, <1>2 DEF Held, Charge
<1>6. ASSUME NEW t \in Jobs PROVE Carries(t)'
  BY <1>1, <1>3 DEF StoreInv, Carries
<1> QED BY <1>4, <1>5, <1>6 DEF StoreInv

\* The calls of the store, one upload at a time.
LEMMA UploadStore ==
    ASSUME JobInv, StoreInv, TypeOK', UploadCall
    PROVE  StoreInv'
<1> DEFINE Each == \A v \in Uploads : Untouched(v) \/ Purged(v) \/ Cancelled(v) \/ Started(v)
<1>0. TypeOK /\ UNCHANGED <<thread, cargo, req>>
  BY DEF JobInv, UploadCall, workerVars
<1>1. \A v \in Uploads : Length(v)
  BY DEF StoreInv
<1>2. PICK u \in Uploads : \/ \E size \in Sizes : StartUpload(u, size)
                           \/ Append1(u) \/ FinishUpload(u) \/ CancelUpload(u) \/ Age(u)
  BY DEF UploadCall
<1>3. CASE \E size \in Sizes : StartUpload(u, size)
  <2>1. PICK size \in Sizes : StartUpload(u, size)
    BY <1>3
  <2>2. /\ Fresh(u) /\ bytes[u] = 0 /\ stale' = {} /\ UNCHANGED <<bytes, withdrawn>>
        /\ onDisk' = (onDisk \ stale) \cup {u}
        /\ entry'[u] = [there |-> TRUE, expected |-> size, received |-> 0, finished |-> FALSE]
        /\ \A v \in Uploads : v # u => entry'[v] = IF v \in stale THEN NoRow ELSE entry[v]
    BY <2>1 DEF StartUpload, Fresh
  <2>3. Started(u)
    <3>1. Length(u)'
      BY <2>2 DEF Length
    <3> QED BY <2>2, <3>1 DEF Started
  <2>4. ASSUME NEW v \in Uploads, v # u PROVE Untouched(v) \/ Purged(v)
    <3>1. CASE v \in stale
      BY <2>2, <2>4, <3>1 DEF Purged, NoRow
    <3>2. CASE v \notin stale
      <4>1. entry'[v] = entry[v] /\ bytes'[v] = bytes[v] /\ v \notin stale' /\ (v \in onDisk' <=> v \in onDisk)
        BY <2>2, <2>4, <3>2
      <4>2. Length(v)'
        BY <1>1, <4>1 DEF Length
      <4> QED BY <4>1, <4>2 DEF Untouched
    <3> QED BY <3>1, <3>2
  <2>5. Each /\ withdrawn' = withdrawn
    BY <2>2, <2>3, <2>4
  <2> QED BY <1>0, <2>5, StoreFrame
<1>4. CASE Append1(u)
  <2>1. /\ MayAppend(u) /\ stale' \subseteq stale /\ UNCHANGED <<onDisk, withdrawn>>
        /\ bytes' = [bytes EXCEPT ![u] = @ + 1]
        /\ entry' = [entry EXCEPT ![u].received = @ + 1] \/ entry' = entry
    BY <1>4 DEF Append1
  <2>2. /\ bytes'[u] = bytes[u] + 1 /\ bytes[u] = entry[u].received
        /\ bytes[u] \in Nat /\ entry[u].expected \in Nat /\ entry[u].received < entry[u].expected
        /\ ~entry[u].finished
        /\ entry'[u].received = entry[u].received + 1 \/ entry'[u].received = entry[u].received
        /\ entry'[u].expected = entry[u].expected /\ entry'[u].finished = entry[u].finished
    BY <1>0, <2>1, WebAssumption DEF TypeOK, MayAppend
  <2>3. Length(u)'
    BY <2>2 DEF Length
  <2>4. ASSUME NEW v \in Uploads, v # u PROVE Length(v)'
    <3>1. entry'[v] = entry[v] /\ bytes'[v] = bytes[v]
      BY <1>0, <2>1, <2>4 DEF TypeOK
    <3> QED BY <1>1, <3>1 DEF Length
  <2>5. \A v \in Uploads : entry'[v].there = entry[v].there
    BY <1>0, <2>1 DEF TypeOK
  <2>6. Each
    BY <2>1, <2>3, <2>4, <2>5 DEF Untouched
  <2> QED BY <1>0, <2>1, <2>6, StoreFrame
<1>5. CASE FinishUpload(u)
  <2>1. /\ stale' \subseteq stale /\ UNCHANGED <<onDisk, bytes, withdrawn>>
        /\ entry' = [entry EXCEPT ![u].finished = TRUE] /\ entry[u].received = entry[u].expected
    BY <1>5 DEF FinishUpload
  <2>2. /\ \A v \in Uploads : v # u => entry'[v] = entry[v]
        /\ entry'[u].received = entry[u].received /\ entry'[u].expected = entry[u].expected
        /\ entry'[u].there = entry[u].there
    BY <1>0, <2>1 DEF TypeOK
  <2>3. \A v \in Uploads : Length(v)'
    BY <1>1, <2>1, <2>2 DEF Length
  <2>4. Each
    BY <2>1, <2>2, <2>3 DEF Untouched
  <2> QED BY <1>0, <2>1, <2>4, StoreFrame
<1>6. CASE CancelUpload(u)
  <2>1. /\ withdrawn' = withdrawn \cup {u} /\ stale' = stale \ {u} /\ bytes' = bytes
        /\ onDisk' = onDisk \ {u}
        /\ \A v \in Uploads : entry'[v] = IF v \in {u} THEN NoRow ELSE entry[v]
    BY <1>6 DEF CancelUpload, erase_upload
  <2>2. Cancelled(u)
    BY <2>1 DEF Cancelled, NoRow
  <2>3. ASSUME NEW v \in Uploads, v # u PROVE Untouched(v)
    <3>1. entry'[v] = entry[v] /\ bytes'[v] = bytes[v]
      BY <2>1, <2>3
    <3>2. Length(v)'
      BY <1>1, <3>1 DEF Length
    <3> QED BY <2>1, <2>3, <3>1, <3>2 DEF Untouched
  <2>4. Each /\ withdrawn \subseteq withdrawn'
    BY <2>1, <2>2, <2>3
  <2> QED BY <1>0, <2>4, StoreFrame
<1>7. CASE Age(u)
  <2>1. /\ stale' = stale \cup {u} /\ UNCHANGED <<entry, onDisk, bytes, withdrawn>>
        /\ \A r \in Requests : req[r].pc \in {"join", "begin", "init", "launch", "release"} => req[r].upload # u
    BY <1>7 DEF Age, Busy
  <2>2. \A v \in Uploads : Length(v)'
    BY <1>1, <2>1 DEF Length
  <2>3. Each
    BY <2>1, <2>2 DEF Untouched
  <2> QED BY <1>0, <2>1, <2>3, StoreFrame
<1> QED BY <1>2, <1>3, <1>4, <1>5, <1>6, <1>7

\* Removing the uploads that nobody has touched for idle_ttl.
LEMMA PurgeEach ==
    ASSUME TypeOK, StoreInv, purge_expired, bytes' = bytes
    PROVE  \A v \in Uploads : Untouched(v) \/ Purged(v)
<1>1. ASSUME NEW v \in Uploads, v \in stale PROVE Purged(v)
  BY <1>1 DEF purge_expired, erase_upload, Purged, NoRow
<1>2. ASSUME NEW v \in Uploads, v \notin stale PROVE Untouched(v)
  <2>1. entry'[v] = entry[v] /\ v \notin stale' /\ (v \in onDisk' <=> v \in onDisk)
    BY <1>2 DEF purge_expired, erase_upload
  <2>2. Length(v)'
    BY <2>1 DEF StoreInv, Length
  <2> QED BY <2>1, <2>2 DEF Untouched
<1> QED BY <1>1, <1>2

\* Every step keeps the invariant of the staged files.
LEMMA StoreNext ==
    ASSUME JobInv, StoreInv, [Next]_vars, ~ProcessEnds
    PROVE  StoreInv'
<1> DEFINE Each == \A v \in Uploads : Untouched(v) \/ Purged(v) \/ Cancelled(v) \/ Started(v)
<1>0. TypeOK /\ ReqOK /\ TypeOK' /\ Numbered
  BY JobNext DEF JobInv, JobCore
<1>1. UNCHANGED storeVars => Each /\ withdrawn \subseteq withdrawn'
  BY DEF storeVars, StoreInv, Length, Untouched
<1>2. CASE UNCHANGED vars
  BY <1>0, <1>1, <1>2, StoreFrame DEF vars, workerVars
<1>3. CASE UploadCall
  BY <1>0, <1>3, UploadStore
<1>4. CASE Housekeeping
  <2>1. Each /\ UNCHANGED <<thread, cargo, req, withdrawn>>
    BY <1>0, <1>4, PurgeEach DEF Housekeeping, workerVars
  <2> QED BY <1>0, <2>1, StoreFrame
<1>5. CASE Quit
  BY <1>0, <1>1, <1>5, StoreFrame DEF Quit
<1>6. CASE QuitEnds
  BY <1>0, <1>6, QuitStore
<1>7. ASSUME NEW t \in Jobs, Worker(t)
      PROVE  StoreInv'
  <2>1. CASE Report(t)
    BY <1>0, <1>1, <2>1, StoreFrame DEF Report, workerVars
  <2>2. CASE RunEnds(t)
    <3>1. PICK ok \in BOOLEAN :
             thread' = [thread EXCEPT ![t] = IF t \in requested' THEN "canceled"
                                             ELSE IF ok THEN "success" ELSE "failed"]
      BY <2>2 DEF RunEnds
    <3> DEFINE pc == IF t \in requested' THEN "canceled" ELSE IF ok THEN "success" ELSE "failed"
    <3>2. pc \in Over /\ thread' = [thread EXCEPT ![t] = pc]
      BY <3>1 DEF Over
    <3> HIDE DEF pc
    <3> QED BY <2>2, <3>2, RunStore DEF RunEnds, Cleaned
  <2>3. CASE Finish(t)
    BY <2>3, FinishStore DEF Finish, Over
  <2> QED BY <1>7, <2>1, <2>2, <2>3 DEF Worker
<1>8. ASSUME NEW r \in Requests, Request(r)
      PROVE  StoreInv'
  <2>0. Held(r)
    BY DEF StoreInv
  <2>1. ASSUME NEW u \in Uploads, completed_path(r, u)
        PROVE  StoreInv'
    <3>1. /\ UNCHANGED <<bytes, withdrawn, thread, cargo>> /\ purge_expired
          /\ req[r].pc = "idle" /\ entry[u].there /\ u \notin stale
          /\ req' = [req EXCEPT ![r] = [pc |-> "join", kind |-> "send", upload |-> u]]
      BY <2>1 DEF completed_path, workerVars
    <3>2. /\ req'[r].pc = "join" /\ req'[r].upload = u
          /\ \A q \in Requests : q # r => req'[q] = req[q]
      BY <1>0, <3>1 DEF ReqOK
    <3>3. Each
      BY <1>0, <3>1, PurgeEach
    <3>4. u \in onDisk' \cup withdrawn' \/ SentBefore(u)'
      <4>1. u \in onDisk \/ SentBefore(u)
        BY <3>1 DEF StoreInv, Accounted
      <4>2. u \in onDisk => u \in onDisk'
        BY <3>1 DEF purge_expired, erase_upload
      <4>3. \A s \in Jobs : Ran(s) => Ran(s)'
        BY <3>1, <3>2 DEF Ran
      <4> QED BY <3>1, <4>1, <4>2, <4>3 DEF SentBefore
    <3>5. u \notin stale'
      BY <3>1 DEF purge_expired
    <3>6. Held(r)'
      <4>1. (req[r].upload)' = u
        BY <3>2
      <4> QED BY <3>2, <3>4, <3>5, <4>1 DEF Held, Charge, SentBefore
    <3> QED BY <1>0, <3>1, <3>2, <3>3, <3>6, StoreFrame
  <2>2. CASE join_finished_worker(r)
    <3>1. UNCHANGED <<storeVars, cargo, thread>> /\ req[r].pc = "join" /\ Step(r, "begin")
      BY <2>2 DEF join_finished_worker, workerVars
    <3>2. /\ req'[r].pc = "begin" /\ req'[r].upload = req[r].upload
          /\ \A q \in Requests : q # r => req'[q] = req[q]
      BY <1>0, <3>1, StepOn
    <3>3. \A s \in Jobs : Ran(s) => Ran(s)'
      BY <3>1, <3>2 DEF Ran
    <3>4. Held(r)'
      BY <2>0, <3>1, <3>2, <3>3 DEF Held, Charge, SentBefore, storeVars
    <3> QED BY <1>0, <1>1, <3>1, <3>2, <3>4, StoreFrame
  <2>3. ASSUME NEW kind \in {"send", "note"}, AskJob(r, kind)
        PROVE  StoreInv'
    <3>1. /\ UNCHANGED <<storeVars, cargo, thread>> /\ req[r].pc = "idle"
          /\ req' = [req EXCEPT ![r] = [pc |-> "begin", kind |-> kind, upload |-> NoUpload]]
      BY <2>3 DEF AskJob, workerVars
    <3>2. /\ req'[r].pc = "begin" /\ req'[r].upload = NoUpload
          /\ \A q \in Requests : q # r => req'[q] = req[q]
      BY <1>0, <3>1 DEF ReqOK
    <3>3. NoUpload \notin stale'
      BY <1>0, WebAssumption DEF TypeOK, Rows
    <3>4. Held(r)'
      BY <3>2, <3>3 DEF Held, Charge
    <3> QED BY <1>0, <1>1, <3>1, <3>2, <3>4, StoreFrame
  <2>4. ASSUME UNCHANGED <<storeVars, cargo, thread>>,
               \A q \in Requests : q # r => req'[q] = req[q],
               req[r].pc \notin {"release", "reset"}, req'[r].pc \in {"idle", "store", "cancel"}
        PROVE  StoreInv'
    <3>1. Held(r)'
      BY <2>4 DEF Held, Charge
    <3> QED BY <1>0, <1>1, <2>4, <3>1, StoreFrame
  <2>5. CASE begin_task(r)
    <3>1. req[r].pc = "begin" /\ UNCHANGED storeVars
      BY <2>5 DEF begin_task
    <3>2. CASE Done(r) /\ UNCHANGED <<thread, cargo>>
      <4>1. req'[r].pc = "idle" /\ \A q \in Requests : q # r => req'[q] = req[q]
        BY <1>0, <3>2, DoneReq
      <4> QED BY <2>4, <3>1, <3>2, <4>1
    <3>3. CASE ~(Done(r) /\ UNCHANGED <<thread, cargo>>)
      <4> DEFINE t == Cardinality(Begun) + 1
                 pc == IF req[r].kind = "note" THEN "init" ELSE "launch"
      <4>1. /\ ~job.running /\ Begun # Jobs
            /\ thread' = [thread EXCEPT ![t] = "beginning"]
            /\ cargo' = [cargo EXCEPT ![t] = req[r].upload]
            /\ req' = [req EXCEPT ![r] = [pc |-> pc, kind |-> req[r].kind, upload |-> req[r].upload, task |-> t]]
        BY <2>5, <3>3 DEF begin_task, MayBegin
      <4>2. /\ req'[r].pc \in {"init", "launch"} /\ req'[r].upload = req[r].upload /\ req'[r].task = t
            /\ \A q \in Requests : q # r => req'[q] = req[q]
        BY <1>0, <4>1 DEF ReqOK
      <4>3. t \in Jobs /\ thread[t] = "none" /\ \A s \in Jobs : thread[s] # "none" => s < t
        BY <1>0, <4>1, NextJob
      <4> HIDE DEF t
      <4> QED BY <3>1, <4>1, <4>2, <4>3, BeginStore
    <3> QED BY <3>2, <3>3
  <2>6. CASE InitNote(r)
    <3>1. UNCHANGED <<storeVars, cargo, thread>> /\ req[r].pc = "init" /\ Step(r, "launch")
      BY <2>6 DEF InitNote, workerVars
    <3>2. /\ req'[r].pc = "launch" /\ req'[r].upload = req[r].upload /\ req'[r].task = req[r].task
          /\ \A q \in Requests : q # r => req'[q] = req[q]
      BY <1>0, <3>1, StepOn DEF Charge
    <3>3. Held(r)'
      BY <2>0, <3>1, <3>2 DEF Held, Charge, storeVars
    <3> QED BY <1>0, <1>1, <3>1, <3>2, <3>3, StoreFrame
  <2>7. CASE Launch(r)
    <3>1. UNCHANGED <<storeVars, cargo>> /\ req[r].pc = "launch"
      BY <2>7 DEF Launch
    <3>2. PICK t \in Jobs : t = req[r].task
      BY <1>0, <3>1, ReqShape DEF Owning, Charge
    <3>3. CASE /\ thread' = [thread EXCEPT ![req[r].task] = "running"]
               /\ IF req[r].upload = NoUpload THEN Done(r) ELSE Step(r, "release")
      <4>1. CASE req[r].upload = NoUpload
        <5>1. req'[r].pc = "idle" /\ \A q \in Requests : q # r => req'[q] = req[q]
          BY <1>0, <3>3, <4>1, DoneReq
        <5> QED BY <3>1, <3>2, <3>3, <4>1, <5>1, LaunchStore
      <4>2. CASE req[r].upload # NoUpload
        <5>1. /\ req'[r].pc = "release" /\ req'[r].upload = req[r].upload /\ req'[r].task = t
              /\ \A q \in Requests : q # r => req'[q] = req[q]
          BY <1>0, <3>1, <3>2, <3>3, <4>2, StepOn DEF Charge
        <5> QED BY <3>1, <3>2, <3>3, <4>2, <5>1, LaunchStore
      <4> QED BY <4>1, <4>2
    <3>4. CASE thread' = [thread EXCEPT ![req[r].task] = "ended"] /\ Step(r, "reset")
      <4>1. /\ req'[r].pc = "reset" /\ req'[r].upload = req[r].upload /\ req'[r].task = t
            /\ \A q \in Requests : q # r => req'[q] = req[q]
        BY <1>0, <3>1, <3>2, <3>4, StepOn DEF Charge
      <4> QED BY <3>1, <3>2, <3>4, <4>1, LaunchFailStore
    <3> QED BY <2>7, <3>3, <3>4 DEF Launch
  <2>8. CASE reset_task(r)
    <3>1. /\ req[r].pc = "reset" /\ Done(r) /\ cargo' = [cargo EXCEPT ![req[r].task] = NoUpload]
          /\ UNCHANGED <<storeVars, thread>>
      BY <2>8 DEF reset_task, workerVars
    <3>2. PICK t \in Jobs : t = req[r].task
      BY <1>0, <3>1, ReqShape DEF Owning, Charge
    <3>3. req'[r].pc = "idle" /\ \A q \in Requests : q # r => req'[q] = req[q]
      BY <1>0, <3>1, DoneReq
    <3> QED BY <3>1, <3>2, <3>3, ResetStore
  <2>9. CASE release(r)
    <3>1. /\ req[r].pc = "release" /\ Done(r) /\ UNCHANGED <<onDisk, bytes, withdrawn, thread, cargo>>
          /\ entry' = [entry EXCEPT ![req[r].upload] = NoRow] /\ stale' = stale \ {req[r].upload}
      BY <2>9 DEF release, workerVars
    <3>2. req'[r].pc = "idle" /\ \A q \in Requests : q # r => req'[q] = req[q]
      BY <1>0, <3>1, DoneReq
    <3> QED BY <3>1, <3>2, ReleaseStore
  <2>10. CASE StoreNote(r) \/ Signal(r)
    <3>1. Done(r) /\ req[r].pc \in {"store", "cancel"} /\ UNCHANGED <<storeVars, cargo, thread>>
      BY <2>10 DEF StoreNote, Signal, workerVars
    <3>2. req'[r].pc = "idle" /\ \A q \in Requests : q # r => req'[q] = req[q]
      BY <1>0, <3>1, DoneReq
    <3> QED BY <2>4, <3>1, <3>2
  <2>11. CASE AskNote(r) \/ cancel(r)
    <3>1. req[r].pc = "idle" /\ UNCHANGED <<storeVars, cargo, thread>>
      BY <2>11 DEF AskNote, cancel, workerVars
    <3>2. req'[r].pc \in {"store", "cancel"} /\ \A q \in Requests : q # r => req'[q] = req[q]
      BY <1>0, <2>11 DEF ReqOK, AskNote, cancel
    <3> QED BY <2>4, <3>1, <3>2
  <2> QED BY <1>8, <2>1, <2>2, <2>3, <2>5, <2>6, <2>7, <2>8, <2>9, <2>10, <2>11 DEF Request
<1> QED BY <1>2, <1>3, <1>4, <1>5, <1>6, <1>7, <1>8 DEF Next

-----------------------------------------------------------------------------
(* The theorems.                                                           *)

\* No step takes place after the process has ended, and none stages a file after
\* the destructors have run.
LEMMA StagedNext ==
    ASSUME JobInv, StagedInv, [Next]_vars
    PROVE  StagedInv'
<1>0. TypeOK
  BY DEF JobInv
<1>1. CASE ProcessEnds
  BY <1>0, <1>1, ProcessEndsInv
<1>2. CASE ~ProcessEnds /\ Alive
  <2>1. StoreInv'
    BY <1>2, StoreNext DEF StagedInv
  <2>2. CASE UNCHANGED vars
    BY <1>2, <2>1, <2>2 DEF vars, storeVars, Alive, StagedInv
  <2>3. CASE UploadCall \/ Housekeeping \/ Quit \/ QuitEnds
    BY <2>1, <2>3 DEF UploadCall, Housekeeping, Quit, QuitEnds, Alive, StagedInv
  <2>4. ASSUME NEW r \in Requests, Request(r) PROVE StagedInv'
    <3>1. server' = server
      BY <2>4 DEF Request, completed_path, AskJob, join_finished_worker, begin_task, InitNote, Launch,
            reset_task, release, AskNote, StoreNote, cancel, Signal
    <3>2. server = "gone" => onDisk' = onDisk
      BY <2>4 DEF Request, completed_path, AskJob, join_finished_worker, begin_task, InitNote, Launch,
            reset_task, release, AskNote, StoreNote, cancel, Signal, storeVars
    <3> QED BY <1>2, <2>1, <3>1, <3>2 DEF StagedInv, Alive
  <2>5. ASSUME NEW t \in Jobs, Worker(t) PROVE StagedInv'
    <3>1. server' = server /\ onDisk' \subseteq onDisk
      BY <2>5 DEF Worker, Report, RunEnds, Finish, Cleaned, storeVars
    <3> QED BY <1>2, <2>1, <3>1 DEF StagedInv, Alive
  <2> QED BY <1>2, <2>2, <2>3, <2>4, <2>5 DEF Next
<1>3. CASE ~ProcessEnds /\ ~Alive
  <2>1. UNCHANGED vars
    BY <1>3 DEF Next, UploadCall, Housekeeping, Quit, QuitEnds, Request, Worker, Alive
  <2> QED BY <1>3, <2>1 DEF vars, storeVars, Alive, StagedInv
<1> QED BY <1>1, <1>2, <1>3

\* Nothing is staged and no job is begun at the start.
LEMMA InitInv == Init => WebInv
<1> SUFFICES ASSUME Init PROVE WebInv
  OBVIOUS
<1>1. TypeOK
  <2>1. entry \in [Uploads -> [there : BOOLEAN, expected : Sizes \cup {0}, received : Nat, finished : BOOLEAN]]
    BY DEF Init, NoRow
  <2> QED BY <2>1 DEF Init, TypeOK, NoJob, None, Rows
<1>2. ReqOK
  BY DEF Init, ReqOK
<1>3. \A r \in Requests : req[r].pc = "idle"
  BY DEF Init, Idle
<1>4. \A t \in Jobs : thread[t] = "none" /\ cargo[t] = NoUpload
  BY DEF Init
<1>5. Numbered
  <2>1. Begun = 1..0 /\ 0 \in 0..MaxJobs
    BY <1>4, WebAssumption DEF Begun
  <2> QED BY <2>1 DEF Numbered
<1>6. LiveIsShown /\ OneInCharge /\ Outcome /\ Quiet
  BY <1>3, <1>4 DEF Init, LiveIsShown, Live, OneInCharge, Charge, Outcome, OutcomeIsOwn, Quiet, NoJob
<1>7. JobCore
  BY <1>3, <1>4, <1>5, <1>6 DEF JobCore, InCharge, Attended, Over
<1>8. \A u \in Uploads : ~entry[u].there /\ u \notin onDisk
  BY DEF Init, NoRow
<1>9. StoreInv
  BY <1>3, <1>4, <1>8 DEF StoreInv, Length, Accounted, Held, Carries, Charge, Ran, Over
<1>10. StagedInv
  BY <1>9 DEF Init, StagedInv, Alive
<1> QED BY <1>1, <1>2, <1>7, <1>10 DEF WebInv, JobInv

\* The invariant holds in every state.
LEMMA Always == Spec => []WebInv
<1>1. WebInv /\ [Next]_vars => WebInv'
  BY JobNext, StagedNext DEF WebInv
<1> QED BY InitInv, <1>1, PTL DEF Spec

\* Every variable of the console keeps its type: for the code, no request or
\* worker reads a job, an upload or a handle that is not there.
THEOREM TypeCorrect == Spec => []TypeOK
<1>1. WebInv => TypeOK
  BY DEF WebInv, JobInv
<1> QED BY Always, <1>1, PTL

\* WebJobStore: the end that the store shows is the end of the job it shows, and
\* "canceled" only answers the cancellation of that job, whichever requests start,
\* fail to launch, cancel and store notes in between.
THEOREM OwnOutcome == Spec => []OutcomeIsOwn
<1>1. WebInv => OutcomeIsOwn
  BY DEF WebInv, JobInv, JobCore, Outcome
<1> QED BY Always, <1>1, PTL

\* WebUploadStore and StagedFileCleanup: as long as the process lives, no staged file
\* is left behind when its row is released, and none is removed under the job that
\* sends it; none is left once the destructors have run.
THEOREM StagedFilesAccounted == Spec => []StagedAccounted
<1>1. ASSUME JobInv, StoreInv
      PROVE  /\ \A u \in onDisk : entry[u].there \/ \E t \in Jobs : cargo[t] = u /\ Live(t)
             /\ \A u \in Rows : u \in onDisk \/ \E t \in Jobs : cargo[t] = u
             /\ \A t \in Jobs, u \in Uploads : cargo[t] = u /\ thread[t] = "running" =>
                   (u \in onDisk \/ u \in withdrawn \/ \E s \in Jobs : s < t /\ cargo[s] = u)
  <2>1. \A u \in onDisk : entry[u].there \/ \E t \in Jobs : cargo[t] = u /\ Live(t)
    BY <1>1 DEF JobInv, TypeOK, StoreInv, Accounted
  <2>2. \A u \in Rows : u \in onDisk \/ \E t \in Jobs : cargo[t] = u
    BY <1>1 DEF StoreInv, Accounted, SentBefore, Rows
  <2>3. \A t \in Jobs, u \in Uploads : cargo[t] = u /\ thread[t] = "running" =>
           (u \in onDisk \/ u \in withdrawn \/ \E s \in Jobs : s < t /\ cargo[s] = u)
    BY <1>1, WebAssumption DEF StoreInv, Carries
  <2> QED BY <2>1, <2>2, <2>3
<1>2. ASSUME WebInv PROVE StagedAccounted
  <2>1. CASE Alive
    BY <1>1, <1>2, <2>1 DEF WebInv, StagedInv, StagedAccounted
  <2>2. CASE ~Alive
    BY <1>2, <2>2, WebAssumption DEF WebInv, StagedInv, StagedAccounted, Rows
  <2> QED BY <2>1, <2>2
<1>3. WebInv => StagedAccounted
  BY <1>2
<1> QED BY Always, <1>3, PTL

\* append and finish: a finished upload has exactly the length it declared, also
\* after writes that failed and could not be rolled back.
THEOREM FinishedUploadsWhole == Spec => []FinishedIsWhole
<1>1. WebInv => FinishedIsWhole
  BY DEF WebInv, StagedInv, StoreInv, Length, FinishedIsWhole, Rows
<1> QED BY Always, <1>1, PTL
=============================================================================
