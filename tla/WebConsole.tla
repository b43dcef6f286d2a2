----------------------------- MODULE WebConsole -----------------------------
(***************************************************************************)
(* The browser console: WebServer with a thread per HTTP request, the one  *)
(* job of WebJobStore with its worker thread, and the staged files of      *)
(* WebUploadStore.  Each store has a mutex, and no request holds one from  *)
(* one call to the next.                                                   *)
(*                                                                         *)
(* Jobs are numbered in the order of begin_task; a job's number stands for *)
(* its cancellation token, its worker and its note session.  A staged file *)
(* is a number of chunks.                                                  *)
(***************************************************************************)
EXTENDS Naturals, FiniteSets, FiniteSetsExt

CONSTANTS
    Requests,   \* request threads, at most kMaxRequestWorkers at a time
    Uploads,    \* upload ids; a random id is used once
    Sizes,      \* declared sizes of uploads, in chunks
    MaxActive,  \* limits.max_active_uploads
    Capacity,   \* disk space beyond free_space_reserve_bytes, in chunks
    MaxJobs     \* bound on the jobs begun

Jobs == 1..MaxJobs
None == 0    \* no job, no token, no worker
NoUpload == "no upload"

ASSUME WebAssumption ==
    /\ Sizes \subseteq Nat /\ MaxActive \in Nat /\ Capacity \in Nat /\ MaxJobs \in Nat
    /\ IsFiniteSet(Uploads) /\ NoUpload \notin Uploads

VARIABLES
    job,        \* Impl::state: [task, kind, running, result, note]
    token,      \* Impl::cancellation, as the job it cancels
    runtime,    \* Impl::note_runtime, as its job
    handle,     \* Impl::worker, None when not joinable
    thread,     \* thread[t]: where the worker of job t is
    requested,  \* jobs whose cancellation token is set
    stopped,    \* jobs whose note session was asked to stop
    entry,      \* entry[u]: the table row of upload u
    onDisk,     \* staged files that exist
    bytes,      \* bytes[u]: their length
    stale,      \* rows not touched for idle_ttl
    req,        \* req[r]: what request r is doing
    cargo,      \* cargo[t]: the staged file job t sends and then removes
    withdrawn,  \* uploads a client has cancelled (a history variable)
    server      \* the accept loop, and how the process comes to its end

storeVars  == <<entry, onDisk, bytes, stale, withdrawn>>
workerVars == <<thread, stopped, requested>>
vars == <<job, token, runtime, handle, workerVars, storeVars, req, cargo, server>>

Idle     == [pc |-> "idle"]
NoJob    == [task |-> None, kind |-> "none", running |-> FALSE, result |-> "none", note |-> None]
NoRow    == [there |-> FALSE, expected |-> 0, received |-> 0, finished |-> FALSE]
Rows     == {u \in Uploads : entry[u].there}
Busy     == {r \in Requests : req[r].pc # "idle"}
Begun    == {t \in Jobs : thread[t] # "none"}
Alive    == server # "exited"

Init ==
    /\ job = NoJob /\ token = None /\ runtime = None /\ handle = None
    /\ thread = [t \in Jobs |-> "none"]
    /\ requested = {} /\ stopped = {}
    /\ entry = [u \in Uploads |-> NoRow]
    /\ onDisk = {} /\ bytes = [u \in Uploads |-> 0] /\ stale = {} /\ withdrawn = {}
    /\ req = [r \in Requests |-> Idle]
    /\ cargo = [t \in Jobs |-> NoUpload]
    /\ server = "serving"

-----------------------------------------------------------------------------
(* WebUploadStore.  Every method is one step under the store's mutex.      *)

\* erase_upload: the file and the row.
erase_upload(us) ==
    /\ entry' = [u \in Uploads |-> IF u \in us THEN NoRow ELSE entry[u]]
    /\ onDisk' = onDisk \ us

purge_expired == erase_upload(stale) /\ stale' = {}

\* Space that open uploads may still need.
reserved_remaining_bytes(us) == MapThenSumSet(LAMBDA u : entry[u].expected - entry[u].received, us)

BytesOf(us) == MapThenSumSet(LAMBDA u : bytes[u], us)
Used == BytesOf(onDisk)
Free == IF Used > Capacity THEN 0 ELSE Capacity - Used

\* An id that was never given out; it keeps its bytes only while the file exists.
Fresh(u) == ~entry[u].there /\ u \notin onDisk \cup withdrawn /\ bytes[u] = 0
            /\ \A t \in Jobs : cargo[t] # u

\* POST /api/upload/start.  The purge happens also when the upload is refused;
\* that outcome is the one of Housekeeping.
StartUpload(u, size) ==
    LET kept == Rows \ stale IN
    /\ Fresh(u)
    /\ Cardinality(kept) < MaxActive
    /\ size > 0 => size + reserved_remaining_bytes(kept)
                     <= Free + BytesOf(stale \cap onDisk)
    /\ entry' = [v \in Uploads |->
          IF v = u THEN [there |-> TRUE, expected |-> size, received |-> 0, finished |-> FALSE]
          ELSE IF v \in stale THEN NoRow ELSE entry[v]]
    /\ onDisk' = (onDisk \ stale) \cup {u}
    /\ stale' = {}
    /\ UNCHANGED <<bytes, withdrawn>>

\* The checks of append.  Mutant: the staged file is not measured.
MayAppend_Trusting(u) ==
    entry[u].there /\ ~entry[u].finished /\ entry[u].received < entry[u].expected
MayAppend(u) ==
    /\ entry[u].there /\ ~entry[u].finished /\ entry[u].received < entry[u].expected
    /\ u \in onDisk /\ bytes[u] = entry[u].received

\* POST /api/upload/chunk: written, or not and rolled back, or torn because the
\* rollback failed as well.
Append1(u) ==
    /\ MayAppend(u)
    /\ \/ /\ bytes' = [bytes EXCEPT ![u] = @ + 1]
          /\ entry' = [entry EXCEPT ![u].received = @ + 1]
          /\ stale' = stale \ {u}
       \/ /\ bytes' = [bytes EXCEPT ![u] = @ + 1]
          /\ UNCHANGED <<entry, stale>>
    /\ UNCHANGED <<onDisk, withdrawn>>

\* POST /api/upload/finish
FinishUpload(u) ==
    /\ entry[u].there /\ entry[u].received = entry[u].expected
    /\ entry' = [entry EXCEPT ![u].finished = TRUE]
    /\ stale' = stale \ {u}
    /\ UNCHANGED <<onDisk, bytes, withdrawn>>

\* POST /api/upload/cancel
CancelUpload(u) ==
    /\ entry[u].there
    /\ erase_upload({u})
    /\ stale' = stale \ {u}
    /\ withdrawn' = withdrawn \cup {u}
    /\ UNCHANGED bytes

\* idle_ttl passes without a call for u.  No request stays that long between
\* completed_path and release.
Age(u) ==
    /\ u \in Rows \ stale
    /\ \A r \in Busy : req[r].pc \in {"join", "begin", "init", "launch", "release"} => req[r].upload # u
    /\ stale' = stale \cup {u}
    /\ UNCHANGED <<entry, onDisk, bytes, withdrawn>>

UploadCall ==
    /\ server = "serving"
    /\ \E u \in Uploads : \/ \E size \in Sizes : StartUpload(u, size)
                          \/ Append1(u) \/ FinishUpload(u) \/ CancelUpload(u) \/ Age(u)
    /\ UNCHANGED <<job, token, runtime, handle, workerVars, req, cargo, server>>

-----------------------------------------------------------------------------
(* A request that starts a job.                                            *)

Step(r, pc) == req' = [req EXCEPT ![r].pc = pc]
Done(r)     == req' = [req EXCEPT ![r] = Idle]

\* POST /api/send with an upload id: completed_path, with its purge and its touch.
completed_path(r, u) ==
    /\ server = "serving" /\ req[r].pc = "idle"
    /\ entry[u].there /\ entry[u].finished /\ u \notin stale
    /\ purge_expired
    /\ req' = [req EXCEPT ![r] = [pc |-> "join", kind |-> "send", upload |-> u]]
    /\ UNCHANGED <<bytes, withdrawn, job, token, runtime, handle, workerVars, cargo, server>>

\* join_finished_worker: the worker that has cleared `running` only has to return.
joined == IF job.running THEN handle ELSE None
join_finished_worker(r) ==
    /\ req[r].pc = "join"
    /\ handle' = joined
    /\ Step(r, "begin")
    /\ UNCHANGED <<job, token, runtime, workerVars, storeVars, cargo, server>>

\* POST /api/send with a path, /api/recv, /api/doctor ("send") and
\* /api/note/start begin with it.
AskJob(r, kind) ==
    /\ server = "serving" /\ req[r].pc = "idle"
    /\ handle' = joined
    /\ req' = [req EXCEPT ![r] = [pc |-> "begin", kind |-> kind, upload |-> NoUpload]]
    /\ UNCHANGED <<job, token, runtime, workerVars, storeVars, cargo, server>>

\* begin_task.  Mutant: it does not look at `running`.
MayBegin_Always == TRUE
MayBegin == ~job.running
begin_task(r) ==
    /\ req[r].pc = "begin"
    /\ \/ /\ MayBegin /\ Begun # Jobs
          /\ LET t == Cardinality(Begun) + 1 IN
             /\ job' = [task |-> t, kind |-> req[r].kind, running |-> TRUE,
                        result |-> "none", note |-> None]
             /\ token' = t
             /\ runtime' = None
             /\ thread' = [thread EXCEPT ![t] = "beginning"]
             /\ cargo' = [cargo EXCEPT ![t] = req[r].upload]
             /\ req' = [req EXCEPT ![r] = [pc |-> IF req[r].kind = "note" THEN "init" ELSE "launch",
                                           kind |-> req[r].kind, upload |-> req[r].upload, task |-> t]]
       \/ /\ ~MayBegin \/ Begun = Jobs
          /\ Done(r)
          /\ UNCHANGED <<job, token, runtime, thread, cargo>>
    /\ UNCHANGED <<handle, requested, stopped, storeVars, server>>

\* The initializer of start_note.
InitNote(r) ==
    /\ req[r].pc = "init"
    /\ runtime' = req[r].task
    /\ job' = [job EXCEPT !.note = req[r].task]
    /\ Step(r, "launch")
    /\ UNCHANGED <<token, handle, workerVars, storeVars, cargo, server>>

\* launch_worker throws if the previous worker was not joined, and start_task
\* resets the job: a worker that ended after this request's join is still there.
Joinable == handle # None
Launch(r) ==
    /\ req[r].pc = "launch"
    /\ \/ /\ ~Joinable
          /\ handle' = req[r].task
          /\ thread' = [thread EXCEPT ![req[r].task] = "running"]
          /\ IF req[r].upload = NoUpload THEN Done(r) ELSE Step(r, "release")
          /\ UNCHANGED <<job, token, runtime, cargo>>
       \/ /\ Joinable
          /\ thread' = [thread EXCEPT ![req[r].task] = "ended"]
          /\ Step(r, "reset")
          /\ UNCHANGED <<job, token, runtime, handle, cargo>>
    /\ UNCHANGED <<requested, stopped, storeVars, server>>

reset_task(r) ==
    /\ req[r].pc = "reset"
    /\ job' = NoJob /\ token' = None /\ runtime' = None
    /\ cargo' = [cargo EXCEPT ![req[r].task] = NoUpload]
    /\ Done(r)
    /\ UNCHANGED <<handle, workerVars, storeVars, server>>

\* release: the file now belongs to the job alone.
release(r) ==
    /\ req[r].pc = "release"
    /\ entry' = [entry EXCEPT ![req[r].upload] = NoRow]
    /\ stale' = stale \ {req[r].upload}
    /\ Done(r)
    /\ UNCHANGED <<onDisk, bytes, withdrawn, job, token, runtime, handle, workerVars, cargo, server>>

-----------------------------------------------------------------------------
(* The worker of a job.                                                    *)

\* A note session reports through its callbacks.
Report(t) ==
    /\ thread[t] = "running" /\ job.kind = "note" /\ job.note # t
    /\ job' = [job EXCEPT !.note = t]
    /\ UNCHANGED <<token, runtime, handle, workerVars, storeVars, req, cargo, server>>

\* StagedFileCleanup.  Mutant: it is not built.
Cleaned_Nothing(t) == onDisk
Cleaned(t) == onDisk \ {cargo[t]}

\* The function returns or throws, its staged file is removed, and the token is
\* read.  A note session that was stopped sets the token itself; a send whose
\* file is gone fails.
RunEnds(t) ==
    /\ thread[t] = "running"
    /\ \E ok \in BOOLEAN :
          /\ ok /\ cargo[t] # NoUpload => cargo[t] \in onDisk
          /\ requested' = IF ok /\ t \in stopped THEN requested \cup {t} ELSE requested
          /\ thread' = [thread EXCEPT ![t] = IF t \in requested' THEN "canceled"
                                             ELSE IF ok THEN "success" ELSE "failed"]
    /\ onDisk' = Cleaned(t)
    /\ UNCHANGED <<stopped, job, token, runtime, handle, entry, bytes, stale, withdrawn, req, cargo, server>>

\* finish_success, finish_failed, finish_canceled; the thread then ends.
Finish(t) ==
    /\ thread[t] \in {"success", "failed", "canceled"}
    /\ job' = [job EXCEPT !.running = FALSE, !.result = thread[t]]
    /\ thread' = [thread EXCEPT ![t] = "ended"]
    /\ UNCHANGED <<stopped, requested, token, runtime, handle, storeVars, req, cargo, server>>

-----------------------------------------------------------------------------
(* Other requests.                                                         *)

\* mutate_note takes the runtime under the lock, changes its session and takes a
\* snapshot of that (a closed session refuses the change) ...
AskNote(r) ==
    /\ server = "serving" /\ req[r].pc = "idle"
    /\ job.running /\ job.kind = "note" /\ runtime # None
    /\ thread[runtime] \in {"beginning", "running"}
    /\ req' = [req EXCEPT ![r] = [pc |-> "store", task |-> runtime]]
    /\ UNCHANGED <<job, token, runtime, handle, workerVars, storeVars, cargo, server>>

\* ... and stores it under the lock again, whatever job the state shows by then.
StoreNote(r) ==
    /\ req[r].pc = "store"
    /\ job' = [job EXCEPT !.note = req[r].task]
    /\ Done(r)
    /\ UNCHANGED <<token, runtime, handle, workerVars, storeVars, cargo, server>>

\* POST /api/job/cancel: the token and the session are copied under the lock ...
cancel(r) ==
    /\ server = "serving" /\ req[r].pc = "idle"
    /\ req' = [req EXCEPT ![r] = [pc |-> "cancel", task |-> token, session |-> runtime]]
    /\ UNCHANGED <<job, token, runtime, handle, workerVars, storeVars, cargo, server>>

\* ... and used after it.  Mutant: only a note session is told.
Signal_SessionOnly(r) ==
    /\ req[r].pc = "cancel"
    /\ stopped' = stopped \cup ({req[r].session} \ {None})
    /\ Done(r)
    /\ UNCHANGED <<requested, thread, job, token, runtime, handle, storeVars, cargo, server>>
Signal(r) ==
    /\ req[r].pc = "cancel"
    /\ requested' = requested \cup ({req[r].task} \ {None})
    /\ stopped' = stopped \cup ({req[r].session} \ {None})
    /\ Done(r)
    /\ UNCHANGED <<thread, job, token, runtime, handle, storeVars, cargo, server>>

\* WebServer::run between two connections.
Housekeeping ==
    /\ server = "serving"
    /\ handle' = joined
    /\ purge_expired
    /\ UNCHANGED <<bytes, withdrawn, job, token, runtime, workerVars, req, cargo, server>>

\* The last owner lets go of the server: the main thread after the loop, or a
\* request thread while the main thread is on its way out ("dropping").
\* ~WebJobStore cancels and joins, ~WebUploadStore removes what is staged.
Quit ==
    /\ server = "serving" /\ Busy = {}
    /\ requested' = requested \cup ({token} \ {None})
    /\ stopped' = stopped \cup ({runtime} \ {None})
    /\ server' \in {"joining", "dropping"}
    /\ UNCHANGED <<job, token, runtime, handle, thread, storeVars, req, cargo>>
QuitEnds ==
    /\ server \in {"joining", "dropping"}
    /\ handle # None => thread[handle] = "ended"
    /\ handle' = None
    /\ onDisk' = {}
    /\ entry' = [u \in Uploads |-> NoRow]
    /\ stale' = {}
    /\ server' = "gone"
    /\ UNCHANGED <<bytes, withdrawn, job, token, runtime, workerVars, req, cargo>>

\* The loop has ended while a request thread (of one of the calls above, or one that
\* only reads) shares the server.  The thread is detached and main returns without
\* waiting for it: the process ends under it, and what it had in memory is gone.
ProcessEnds ==
    /\ server \in {"serving", "dropping"}
    /\ server' = "exited"
    /\ job' = NoJob /\ token' = None /\ runtime' = None /\ handle' = None
    /\ thread' = [t \in Jobs |-> "none"]
    /\ requested' = {} /\ stopped' = {} /\ stale' = {}
    /\ entry' = [u \in Uploads |-> NoRow]
    /\ req' = [r \in Requests |-> Idle]
    /\ cargo' = [t \in Jobs |-> NoUpload]
    /\ UNCHANGED <<onDisk, bytes, withdrawn>>

-----------------------------------------------------------------------------
Request(r) ==
    /\ Alive
    /\ \/ \E u \in Uploads : completed_path(r, u)
       \/ \E kind \in {"send", "note"} : AskJob(r, kind)
       \/ join_finished_worker(r) \/ begin_task(r) \/ InitNote(r) \/ Launch(r) \/ reset_task(r) \/ release(r)
       \/ AskNote(r) \/ StoreNote(r) \/ cancel(r) \/ Signal(r)

Worker(t) == Alive /\ (Report(t) \/ RunEnds(t) \/ Finish(t))

Next ==
    \/ UploadCall \/ Housekeeping \/ Quit \/ QuitEnds \/ ProcessEnds
    \/ \E r \in Requests : Request(r)
    \/ \E t \in Jobs : Worker(t)

Spec == Init /\ [][Next]_vars

\* While the process lives, a request once accepted runs on, a worker whose job was
\* cancelled leaves its blocking call (module Cancellation), and a destructor runs on.
Fairness ==
    /\ \A r \in Requests : WF_vars(req[r].pc # "idle" /\ Request(r))
    /\ \A t \in Jobs : /\ WF_vars(Alive /\ t \in requested \cup stopped /\ RunEnds(t))
                       /\ WF_vars(Alive /\ Finish(t))
    /\ WF_vars(QuitEnds)

FairSpec == Spec /\ Fairness

-----------------------------------------------------------------------------
\* Every variable has its type.
TypeOK ==
    /\ job \in [task : Jobs \cup {None}, kind : {"none", "send", "note"}, running : BOOLEAN,
                result : {"none", "success", "failed", "canceled"}, note : Jobs \cup {None}]
    /\ {token, runtime, handle} \subseteq Jobs \cup {None}
    /\ thread \in [Jobs -> {"none", "beginning", "running", "success", "failed", "canceled", "ended"}]
    /\ requested \subseteq Jobs /\ stopped \subseteq Jobs
    /\ entry \in [Uploads -> [there : BOOLEAN, expected : Sizes \cup {0}, received : Nat, finished : BOOLEAN]]
    /\ onDisk \subseteq Uploads /\ stale \subseteq Rows /\ withdrawn \subseteq Uploads
    /\ bytes \in [Uploads -> Nat]
    /\ cargo \in [Jobs -> Uploads \cup {NoUpload}]
    /\ server \in {"serving", "joining", "dropping", "gone", "exited"}

Live(t) == thread[t] \in {"beginning", "running", "success", "failed", "canceled"}

\* What the store shows as the end of a job is the end of that job, and it is
\* "canceled" only if its own token was set.
OutcomeIsOwn ==
    job.result # "none" => /\ thread[job.task] = "ended"
                           /\ job.result = "canceled" => job.task \in requested

\* While the process lives, every staged file is accounted for: by its row, or by a
\* job that will remove it; and a job that sends one has it whole unless a client
\* cancelled the upload or an earlier job of the same upload removed it.  Nothing
\* is left when the destructors have run.  (A process that exits under a request
\* leaves what it had staged: StagedRemoved.)
StagedAccounted ==
    /\ \A u \in onDisk : Alive => entry[u].there \/ \E t \in Jobs : cargo[t] = u /\ Live(t)
    /\ \A u \in Rows : u \in onDisk \/ \E t \in Jobs : cargo[t] = u
    /\ \A t \in Jobs, u \in Uploads : cargo[t] = u /\ thread[t] = "running" =>
          (u \in onDisk \/ u \in withdrawn \/ \E s \in Jobs : s < t /\ cargo[s] = u)
    /\ server = "gone" => onDisk = {}

\* What the README says of staged files: none outlives the console.
StagedRemoved == server \in {"gone", "exited"} => onDisk = {}

\* A finished upload has exactly its declared length, whatever writes failed and
\* could not be rolled back before.
FinishedIsWhole == \A u \in Rows \cap onDisk : entry[u].finished => bytes[u] = entry[u].expected

\* A cancelled job ends, unless the process does first: also when the cancel falls
\* between begin_task and the launch, or before the note runtime is there.
CancelTakesEffect ==
    \A r \in Requests, t \in Jobs :
        req[r].pc = "cancel" /\ req[r].task = t ~> (job.task = t => ~job.running) \/ ~Alive
=============================================================================
