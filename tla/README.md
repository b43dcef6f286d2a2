# TLA+ verification of kiko

kiko sends files and shared notes between two computers, directly when their
networks allow it and through a relay otherwise. This directory holds TLA+
models of its concurrent and failure-prone parts, the TLC configurations that
check them on small instances, and TLAPS proofs of the most important results
for every instance.

`PROJECT.json` maps each definition to the source lines it models and lists the
components, the runs, the mutants that show that each property can fail, the
hazards, the finding and the theorems.

    tlc -workers 2 -config MCRelayRooms_pool.cfg MCRelayRooms
    tlapm RelayRooms_proofs.tla

## 1. Inventory

Paths are relative to the repository's `src/`.

| Component | State it keeps | Operations | What is hard |
|---|---|---|---|
| Relay rooms and server (`relay/relay_room_state`, `relay/relay_server`) | `waiting_`, `active_rooms_`, the vector of client workers, cancel flags, sockets that move between owners | hello, ping, pair, wait, reject, purge, tell, pipe, release, close, `stop()` | a thread per client, an accept thread, a cleanup thread and `stop()` share one table; sockets change owner; every error path must close and release |
| Relay race and discovery (`relay/relay_race`, `connect/peer_route_session`, `connect/discovery`) | entries, connect tasks, candidates with sockets, an index to the best one | announce, discover, connect, register, poll, settle, choose, close | two peers choose on their own; indexes into a vector that shrinks |
| Route commit (`connect/route_session`, `relay/relay_route_state`, `wait_route_decision`) | each peer's direct socket and choice, the relay's two choices | `relay_standby`, `direct_ok`, `relay_ready`, the deadline, `relay_start`, `direct_start`, `done` | three parties decide at once; the relay may commit before a peer's attempt ends |
| Direct connection (`connect/connectivity`, `udp_punch`) | phases, the socket in hand, listeners with unaccepted connections | dial, same-port dial, accept, hello and ack, time limits | both peers dial and accept by turns, in phases that are not synchronous |
| LAN upgrade and handshake (`connect/lan_upgrade`, `core/pake`) | the channel each side holds, the sender's listener | ask, answer, dial, accept, point, confirmation | the two sides leave the upgrade at different times, and the next protocol starts on the same pipe |
| Peer route session (`connect/peer_route_session`, `rendezvous_session`, `direct_session`, `route_planner`) | plan, peer's policy, primary and auxiliary channels, status of the direct channels | prepare, rendezvous, establish, gather, exchange status | the phases above in sequence, with leftovers of one in the next; a status exchange with a time limit |
| Note session and editor (`note/`, `tui/tui_note`) | documents with revision and writer, pads, outbox, acknowledged revisions; the text box, typed and pending text | edit, clear, create and select pad, queue, send, apply, acknowledge, stop; type, send after a pause, load remote edits | concurrent edits; frames queued in another order than they were made; coalescing; a bounded outbox; remote edits while the user types |
| Multiplexed transfer (`transfer/mux_*`) | per-channel queues and pending bytes, workers, readers, contiguous prefix, pending ranges | resume, enqueue, send, account, end, write, record, truncate, verify | back pressure, chunks in any order, failures of one of many threads |
| Batch transfer (`transfer/transfer*`, `receive_plan`, `transfer_manifest`, `transfer_file_session`, `transfer_resume`, `transfer_stream`, `transfer_retry`) | manifest, plan, position, part files, digests, attempts | plan, skip, rename, resume, restart, write, verify, commit, retry, run again | a rerun meets the files of the run before; crashes between writes; a source that changes |
| Progress (`core/progress_state`) | counts of files and bytes, terminal flags | events of the above | skipped, resumed, restarted and retried files move the same counters |
| Cancellation (`core/cancellation`) | the flag and the tracked handles | `request`, `track`, `adopt` | `request` is three steps of which only one holds the lock |
| Transfer screen (`tui/tui`, `tui_session`, `tui_transfer_actions`) | tab, confirmation, the shared progress, the worker and its cancellation | start, quit twice, again, menu, leave | keys race with the worker's reports |
| Web jobs and uploads (`web/`) | one job snapshot and worker, a table of uploads, staged files | start, update, cancel, join; create, append, finish, release, purge | a thread per HTTP request and no lock across two calls |
| Settings (`connect/profile`, `platform/user_config`, `platform/atomic_file`) | a file replaced atomically, backups of malformed ones, the old preferences | read, migrate, repair, change, replace | several processes without a lock, crashes |
| Ignore rules, codecs, ciphers, diagnostics, web assets, command line | little or none | pure functions, I/O, drawing | unit tests reach them |

How they interact. A session asks the relay race for a relay and a peer; the
relay's *rooms* pair the two clients and its worker runs the *route commit* with
them, while each peer makes its *direct* attempt; on the relay route the *LAN
upgrade* may replace the pipe; the *handshake* secures the channel, and on a
direct route the peers agree on parallel connections. *Batch* and *multiplexed*
transfers or a *note session* run on the channels; the front ends (*transfer
screen*, *note editor*, *web console*) start them on worker threads, show their
*progress* and end them through a *cancellation*, which shuts the sockets that
were tracked. *Settings* are read before and written after a session.

What makes each one correct:

- rooms: a socket has one owner and is closed by it; a room serves one pair at a
  time and is freed after it; limits hold; `stop()` ends and leaves nothing;
- race: both peers end on one relay, and a peer that was answered ends on some relay;
- route commit: the two peers never use different routes, and both get an answer;
- direct attempt: a connection that the dialer counts is kept by the other side;
- session: two secured sides hold the two ends of one channel and the same number
  of connections, no side waits for ever;
- notes: the two workspaces become equal, edits settle, what is typed is not lost,
  what is shown is what the workspace holds;
- transfer: a batch reported complete is complete, nothing else in the directory
  changes, what was received is kept, progress is true, back pressure never
  blocks for good, retrying ends;
- cancellation and front ends: nothing survives a request, an outcome belongs to
  its own job, no staged file leaks while the console lives;
- settings: no torn file, no edit and no save is lost unnoticed.

## 2. Order of work

Modelled, in this order: `RelayRooms`; `RouteCommit` and `RelayRoute`;
`LanUpgrade`; `NoteSync`; `MuxTransfer`; `Cancellation`; then `RelayRace`,
`FileTransfer`, `DirectAttempt`, `PeerSession` (composing `RelayRoute` and
`LanUpgrade`), `WebConsole`, `Settings`, `NoteEditor` (extending `NoteSync`) and
`TuiTransfer` (extending `Cancellation`).

Proved: the safety of `RelayRooms`, `Cancellation`, `TuiTransfer`, `RelayRoute`
(with its refinement of `RouteCommit`), `PeerSession`, `DirectAttempt`, `WebConsole`,
`Settings`, `NoteSync`, `NoteEditor`, `RelayRace`, `FileTransfer` and `MuxTransfer`.

## 3. Modules

| Module | Models | Extends or instantiates |
|---|---|---|
| `RelayRooms` | the relay server | |
| `MCRelayRooms` | its symmetry set for TLC | `RelayRooms` |
| `RelayRooms_proofs` | its theorems | `RelayRooms` |
| `RelayRace`, `RelayRace_proofs` | preparation and relay race of two peers; its theorems, and those of `MuxTransfer` | |
| `RouteCommit` | what the negotiation promises (abstract) | |
| `RelayRoute` | the negotiation of two peers and the relay worker | instantiates `RouteCommit` |
| `DirectAttempt`, `DirectAttempt_proofs` | the direct attempt of both peers; its theorems | |
| `LanUpgrade` | relay channel to secured channel | |
| `PeerSession`, `PeerSession_proofs` | plan, negotiation, upgrade, handshake, parallel connections; the theorems of it and of `RelayRoute` | instantiates `RelayRoute`, `LanUpgrade` |
| `NoteSync` | two note sessions | |
| `NoteEditor`, `MCNoteEditor`, `NoteEditor_proofs` | the terminal's note editor on one of them; the theorems of both | `NoteSync` |
| `MuxTransfer` | one file over several channels, with resume | |
| `FileTransfer`, `MCFileTransfer`, `FileTransfer_proofs` | a batch over one stream: plan, resume, commit, retry, progress; its theorems | |
| `Cancellation` | cancellation and the session it cancels | |
| `TuiTransfer` | the transfer screen around it | `Cancellation` |
| `WebConsole`, `WebConsole_proofs` | web jobs and uploads; its theorems | |
| `Settings`, `MCSettings`, `Settings_proofs` | profile and user config on disk; its theorems, and those of `TuiTransfer` and `Cancellation` | |

An operator named `X_Something` right before the definition `X` is that definition
with a plausible bug. No specification uses it; `PROJECT.json` names it as a mutant of
the definition. `TypeOK` of a module is its type invariant. The modules with a
`_proofs` module (`NoteSync` and `RelayRoute` share one with the module built on them,
`Cancellation` and `TuiTransfer` with `Settings`, `MuxTransfer` with `RelayRace`) have
theirs proved; those of the others were model-checked on the configurations below,
which list only the properties that say more.

### RelayRooms

`waiting` and `active` are `RelayRoomState`'s two tables, `workers` the vector of
client workers, `step[c]` the place of worker `c` in `handle_client`, `mate[c]`
the socket it took out of the table, `told[c]` what client `c` has been sent,
`srv` the progress of `BackgroundRelay::stop`. An action that stands for a method
of `RelayRoomState` is one step because the method holds its mutex. `Purge` and
`Pair` are separate steps of a worker, as they are separate calls. Reads, route
decision, pipe, release and close are separate steps, so all orders with other
workers, the cleanup thread and `stop()` occur.

The pipe is two copying threads. `MayStall` are the clients that may stop reading in
one, all of them in the runs; `full` holds the clients that have stopped reading
while their peer sends: the thread to such a client sits in `native_send_all`, which
has no time limit, and ends only if that client's socket breaks; the thread to any
other client waits for its peer and ends when that one's does (`CopyEnds`). The first
to end shuts both sockets (`PipeReturns`). `SendsInVain` is the other way out: a
client sends more for a peer whose socket is broken.

Abstractions: a hello is a room, a channel index, a role and whether it is auxiliary;
bad hellos, bad passwords and punch probes are one refusal. What the peers say while a
route is chosen is the choice between `DecideDirect`, `DecideRelay` and
`DecideNothing`. Time is the set `stale`, which a waiting client may enter at any
time. A client that hangs up is noticed by `socket_is_dead` unless it has sent bytes
that nobody has read; only auxiliary clients send before they are matched
(`MayBeUnread`). Peers that vanish without closing their connection are not modelled,
here or in `PeerSession`.

### RelayRace

`entries`, `future`, `relays` and `best` are `race_entries`, the connect tasks, the
candidates and the index of the best one; `stage` and `result` where
`race_until_peer` is. Each peer begins with `prepare`: the sender announces its
relay or not, the receiver finds it or not. `inbox[p][r]` is what the connection to
a relay holds; `Match` stands for the relay's rooms. The index moves on erasure as
in the code: entries before it shift and it does not (`shifted` remembers that).

### RelayRoute and RouteCommit

`up[p]` and `down[p]` are the two ordered streams of peer `p`, in whole frames,
those in flight included: a poll may find nothing although a frame is on its way.
`Poll` is one round of `wait_route_decision`, with any subset of the peers heard.
The direct attempt is an outcome, `up` only if the other peer tries as well. A
peer may break at any time before it has a route (`Break`); `broken` remembers
who did. `RouteCommit` is the promise without channels: one decision, direct only
if both offered it, and each peer follows it or gives up. `verdictBar` and
`pathBar` are the refinement mapping.

### DirectAttempt

Each peer goes through the phases of `try_direct_with_plan` on one thread: it
accepts or dials, and a dialled connection counts after `direct_hello` was answered
by `direct_ack`. `backlog[p]` is the listener of `p`, where a connection stays after
its dialer has closed it. Same-port dials use one pair of addresses, so two of them
may meet in a simultaneous open. Time limits may pass at any moment, so the two
peers meet in every combination of phases.

### LanUpgrade and PeerSession

`chan[p]` is the channel side `p` holds, `wire[ch][p]` the frames on their way to
`p`, `shut` the channels one end of which is closed, `listener` the connections
nobody has accepted yet. The sender's loop accepts and reads for two seconds, the
receiver asks, waits and dials. `Timely` says that the two sides begin well within
each other's two seconds; `Leftovers` admits what an earlier phase may leave
behind (a route frame in the pipe, an abandoned connection in the listener). The
PAKE is symbolic: a point and a confirmation each way, and a frame of the wrong
kind fails the session as `decode_message` or the MAC check does.

`PeerSession` runs the two in sequence. The plan (`build_route_plan`,
`merge_ai_route_plan`, `apply_peer_direct_policy`) decides whether the direct attempt
is made and how many connections are announced. `Proceed` hands the channel that the
negotiation chose, and the frames left in the relay's pipe, to `LanUpgrade`, for both
peers in one step; the branch for a peer of an older protocol
(`connect/peer_route_session.cpp:341`) is left out. On a direct route `DialAux`,
`AcceptAux`, `Gathered`, `ReadStatus` and `NoStatus` are
`negotiate_direct_mux_channels`: a side may stop waiting for the other's status
(`late`).

### NoteSync and NoteEditor

A document is its revision and its writer, which determine the text; the time
stamp plays no part in the order. `hand[p]` holds edits that a thread has applied
to the workspace and not yet queued, so two threads can queue in the other order.
`outgoing` is the outbox, with coalescing, its limit, and the stop of the session
when it overflows. `Receive` applies an edit and queues its acknowledgement in
one step, although the code takes two locks one after the other; an edit of the
local user between the two would concern neither the acknowledged revision nor
the acknowledgement's place relative to other acknowledgements.

In `NoteEditor` peer 1 is the terminal: `editor` is the document its text box showed
last, `typed` what is not yet sent, `pending` the pads with remote edits to load,
`telling` the callbacks of the run thread that are under way, and `ui` what the
interface thread is in the middle of.

### MuxTransfer

Offsets are counted in chunks, the content of a chunk is the version of the source
it was read from, and a digest is the sequence of contents it covers. The sending
thread, one worker per channel, one reader per channel and the receiving thread
are separate processes. Latency scores only order the channels with room, so any
of them may be chosen. With `Faults`, a connection may break, a write or the
final trim may fail and the receiver may crash, keeping any part of what it wrote
since the resume offset. `Edit` rewrites the source at any time, `Retry` begins
the next attempt on the same part file.

### FileTransfer

A path is the number of a name and the number of the ` (n)` that
`unique_conflict_path` adds; names `n` and `n + 10` differ in case only. `plan` is
what the receiver made of the manifest, `file` its current file, `disk` and `part` the
output directory with its part files, `wire` and `reply` the frames under way, at most
`Window` of them. Each frame of the sender's and the receiver's loop is a step of its
own; connections break and processes are killed between any two, and then lose chunks
that are not yet on disk. `Rerun` is the user starting both sides again; the automatic
retry comes first while attempts are left and the error is one that is retried. Other
programs may create a file in the output directory or rewrite a source file. `shown`
is what the progress of either side would display. In the model every lost connection
may be retried; in the code some are not, by the text of the error. What a side that
gives up alone leaves to the other is in `SenderStops` and `ReconnectAlone`. Paths are
flat, so the checks of `plan_collision_error` on parents and children
(`transfer/receive_plan.cpp:40`) are left out.

### Cancellation and TuiTransfer

`request()` is three steps: the flag, the swap of the list under the lock, and one
interrupt after the other without it. `track()` is one step because it holds the
lock throughout. The session thread checks, connects, tracks, blocks and retries.
`TuiTransfer` runs several such sessions, one after the other, each with a fresh
`TransferCancellation`: the interface thread asks before it cancels, runs `request()`
itself and joins the worker before `Again`, `Menu` and leaving. The report of a
complete transfer (session `"complete"`) and the return of the task are two steps:
`record_success` follows the report and may throw, and `Outcome` then takes the
report back (`tui/tui_session.cpp:26`).

### WebConsole

A job's number stands for its cancellation token, its worker and its note session.
Each method of the two stores is one step under its mutex; a request is several
such steps (`begin_task`, `launch`, then `completed_path`, `release` and so on), between
which other requests run. Cleaning up a staged file belongs to the job once the
upload is released.

The server may end in two ways. When no request thread shares it, the destructors
cancel and join the job and remove what is staged (`Quit`, `QuitEnds`), in the main
thread or in the last request thread (`"dropping"`). But request threads are detached
and `main` does not wait for them: with one in flight, or while the last one runs the
destructors, the process just ends (`ProcessEnds`), and only the files stay. No upload
expires between `completed_path` and `release` of one request, which would take an
hour between two calls.

### Settings

What a document says is the set of saves it was made from; a file is missing,
whole, part, malformed or unreadable. A process looks, may move a malformed file to
a backup, migrates the old preferences, creates, fills and renames a temporary
file; it may die or fail at each of these steps. The user may break the file by
hand at any time.

## 4. Runs

| Run | Instance | Properties | Distinct states |
|---|---|---|---|
| `relay_pool` | 3 clients, 1 room, channels 0 and 1, 1 waiting slot, 2 workers | `OneOwner`, `RoomClaimedOnce`, `SocketsAccounted`, `StoppedClean` | 1.92 million |
| `relay_live` | 2 clients, rooms expire, fair | `StopCompletes`, `HangupFreesRoom`, `WaitersResolve` | 163 thousand |
| `race` | sender's, configured and one stranger's relay; the receiver's connections may break | `SplitNeedsSilence`, `ReadIsDelivered` | 3.64 million |
| `direct` | with and without same-port dials, 3 connections | `DialedIsMutual`, `RolesKeepItOne` | 82 thousand |
| `session` | 1 or 3 connections asked for, faults, fair | `FailsOnlyUnpaired`, `ImplementsCommit`, `SecuredTogether`, `MuxAgree`, `MuxIsWhole`, `SessionEnds` | 31 thousand |
| `lan_fallback` | both sides try, on time, nothing left over | `UpgradeHarmless` is violated | |
| `note` | 2 pads, 2 threads a side, 2 frames of outbox, the terminal's user may leave, fair | `EditorShowsDocument`, `Converged`, `TypingSettles`, `EditsSettle`, `StopReachesBoth` | 204 thousand |
| `mux` | 2 channels, 0 or 2 chunks, 1 chunk of pending data, 1 rewrite, 2 attempts, faults, fair | `NeverCorrupt`, `Delivered`, `AttemptEnds` | 219 thousand |
| `files` | 4 batches of 2 or 3 entries, 3 policies, files of 2 chunks, 2 attempts, 1 rerun, 1 change, 1 fault, fair | `ProgressTrue`, `BatchWhole`, `Untouched`, `ProgressKept`, `RetriesEnd` | 842 thousand |
| `cancel` | 2 transfers, 2 requests each, 3 sockets, 2 attempts, fair | `NothingSurvives`, `OutcomeIsItsOwn`, `ConfirmedQuitEnds` | 30 thousand |
| `web` | 2 requests at a time, 1 upload of 2 chunks, 2 jobs, fair | `OutcomeIsOwn`, `StagedAccounted`, `FinishedIsWhole`, `CancelTakesEffect` | 284 thousand |
| `settings` | profile or config, 3 processes, 1 edit by hand | `NeverTorn`, `EditsPreserved`, `SavesSurvive` | 4.33 million |

What they show:

- *relay*: no socket is used by two threads or forgotten, whatever the order of
  matching, purging, hanging up and stopping; `stop()` leaves nothing, and it returns,
  and a hang-up frees its room, unless a client that stopped reading holds a pipe.
- *race*: two peers that rank the relays alike take the same one, unless one of them
  had not heard from it in time; and a peer that a relay answered does not end with
  nothing or with an entry that does not exist. Both are qualified by `shifted`, see
  below; which relay such a peer ends with is left to `SplitNeedsSilence`.
- *direct, session*: from the matched room to the channels of the session the two
  peers stay together: one route, one channel with its two ends secured, the same
  number of connections, or an error on both sides. The negotiation implements the
  abstract commitment.
- *note*: both users end with the same documents, every edit is acknowledged or
  superseded, and the text box neither loses what is typed nor shows an old text.
- *mux, files*: a digest fails only for a rewritten source; a batch that both sides
  call complete is, and nothing that was in the directory is changed under `skip` and
  `rename` (contents; the mode and time of a directory that was there may be set,
  `transfer/transfer_file_session.cpp:209`); what was received is not received again;
  progress never runs ahead; retrying ends on both sides.
- *cancel, web*: a request leaves no open socket behind, and an outcome shown belongs
  to the job shown, also when cancelling races with completing and with the next
  job. A job reported complete may still fail, and is then shown so. As long as the
  console's process lives no staged file leaks or is sent incomplete.
- *settings*: a reader never finds a torn file; a malformed or unreadable file that a
  process has seen, and a save that was reported, are kept, unless a process replaces
  it that had read before.

Why the bounds are enough:

- *relay*: three clients are a pair and a third that competes for its room, its
  waiting slot or a worker; one room suffices because rooms only meet in the
  limits, which one slot and two workers already reach. The run with three clients does not tell states apart by `told` (`Untold`), on which
  no step and none of its invariants depends. Client symmetry is used
  for the invariants only, never for the liveness run.
- *race*: three relays are the least where an entry before the best one can die
  while another is behind it. One unreliable peer is enough for either peer's result
  to be affected, since time limits may pass for both.
- *direct*: three connections are one each way and one left over in a listener.
- *session*: one and more than one connection; the counts of the two sides differ.
- *notes*: two threads and two revisions give every order of queueing, a tie
  between writers, and an edit that meets a newer one; two frames let one edit per
  pad and an acknowledgement overflow the outbox. Users stop editing once the
  revisions of all pads add up to `MaxRevision`.
- *mux*: two chunks over two channels arrive in either order, with a hole before the
  second, and a rewrite to an empty file is the shortest way to a source that is
  shorter than the resume offset; a pending limit of one makes the reading thread
  wait; two attempts are the least with a resume, after a failure or after a crash.
- *files*: the four batches have names that collide after a rename in both
  orders, names that differ only in case, and a link and a directory beside a file;
  two chunks are the least with a proper prefix, one of them sampled; an automatic
  retry, a rerun, a fault and a change of the disk meet in every order.
- *cancel*: two requests can swap the list one after the other; three sockets over
  two attempts let one be opened after the first request; two transfers let the
  first one's outcome reach the second.
- *web*: two requests race for the job, for one upload, or for a job and the upload
  it sends; two jobs follow each other and may send the same upload.
- *settings*: a reader, a saver and one that repairs; processes are symmetric.

Runs say `CHECK_DEADLOCK FALSE` because the systems come to rest: a stopped server, a
finished session or transfer, users who edit no more.

Fairness. Only steps of the program's own threads are fair, and weakly but for one: a
thread that can go on does go on, and a wait with a time limit ends. Clients need not
connect, hang up or answer, users need not edit, type or stop, connections need not
break. The end of a relay's pipe (`PipeEnds`) is strongly fair: a client that stops
reading and reads on again and again disables it over and over, but what a broken peer
has left for it is finite. A client that never reads on is not excluded; that none
holds a pipe for good is the premise of `StopCompletes` and `HangupFreesRoom`
(`Held`). The relay's `Age` is fair because time passes when `room_ttl` is set. The
handshake's receive has no time limit and gets no fairness to end it: that it ends is
what `SessionEnds` shows. `AcceptorEnds` is fair during `stop()` only, which closes
the listener. In `NoteEditor` the pause after typing ends, and the screen's loop
handles the events posted to it. In `TuiTransfer` a connect fails in the end, as the
system's connect does, but a blocked read only ends with its socket. What follows the
report of a completed transfer ends too, since it only writes a file. In `WebConsole`
the steps are fair while the process lives, and a worker's task need not end until it
was cancelled or its note session stopped; that a cancelled task does end is what
`ConfirmedQuitEnds` shows for the same cancellation in `TuiTransfer`.

### What the violated property shows

`UpgradeHarmless`: a receiver that reaches none of the sender's addresses goes on
to the handshake on the relay; the sender, still in its two seconds, takes the
PAKE frame for a message, and its session fails (`connect/lan_upgrade.cpp:65`).
The pair does not go on with the relay channel, as the header says it would.

### What the models show beside the runs

Behaviours met while modelling, which the models contain and no property excludes:

- In a relay's pipe the client that was waiting stops reading while its peer sends. The
  thread to it stays in `send` (`relay/relay_server.cpp:194`). `stop()` sets the cancel
  flag, which the pipe does not look at, and shuts the socket of the worker's own
  client, which only ends a thread that reads it or writes to it; then it joins the
  worker without end. The relay's test has `stop()` interrupt an active worker within a
  second (`tests/relay_test.cpp:86-89`), one that waits for a frame. By the same wait a
  hang-up does not free the room until the other client reads on. The configuration
  `MCRelayRooms_stall.cfg` of `MCRelayRooms` checks `StopReturnsAlways`, which is
  `StopCompletes` without its premise, and TLC gives this behaviour.
- The program's README says that staged files are removed automatically
  (`README.md:181-182`). Only `~WebUploadStore` removes their directory, and it does not
  run when the process ends under a request (`web/web.cpp:555`): the page asks for the
  job four times a second, so one often is in flight. Nor is the job cancelled or joined
  then. `WebConsole_exit.cfg` checks `StagedRemoved`, and TLC gives this end.
- A peer whose direct attempt ends after the relay has decided still sends its
  choice, and the pipe delivers that frame to the other peer as data
  (`relay/relay_server.cpp:368`). `session` shows that this fails no session beyond
  the cases of `SecuredTogether`.
- With same-port dials two peers may each keep a different connection, of which the
  other end is abandoned (`connect/connectivity.cpp:177`): `SameConnection` holds only
  without them, which is `RolesKeepItOne`.
- When a candidate dies in the same wait in which a later one answered, `best`
  points past its entry (`relay/relay_race.cpp:203`): another relay is returned, or the
  index is beyond the vector. `SplitNeedsSilence` and `ReadIsDelivered` exclude
  this case by `shifted`.
- An edit that loses against a concurrent one is acknowledged all the same
  (`note/note_session.cpp:114`): the status says `synced` although the peer never
  applied that revision. Convergence does not suffer, and `EditsSettle` needs it.
- A dirty editor sends its text with the next revision over a remote edit that its
  user has not seen; text of more than 1 MiB is never sent, and lost when the pad
  is changed; leaving within the pause after typing loses what was typed; *New* on
  a stopped session makes a pad active without loading it.
- A rerun with `rename` sends finished files again as `name (1)`, so `ProgressKept`
  is about `overwrite` and `skip`. A file that appears after the plan was made is
  overwritten (`transfer/receive_plan.cpp:167`). A file is skipped when its sampled
  digest agrees (`transfer/transfer_resume.cpp:89`). Which errors are retried is
  decided by substrings of their text (`transfer/transfer_retry.cpp:25`).
- A process that could neither read a malformed settings file nor move it aside
  goes on with the defaults and may save them (`platform/user_config.cpp:134`); the
  file moved to a backup may by then be another process's valid one. `SavesSurvive`
  names both.
- A button pressed on a transfer that is shown as finished before its task has returned
  makes the interface thread join a worker that may still save the profile or, when
  the end of the session fails, try again (`tui/tui.cpp:134`).
- *Again* on a transfer whose path has vanished leaves the screen at an unfinished
  transfer without a worker (`tui/tui.cpp:215`).

## 5. Proofs

`RelayRooms_proofs` proves the type invariant and six other invariants of the relay
server for every set of connections and rooms and all limits, from
the assumptions on the constants stated in `RelayRooms` alone (an unset partner is
no connection, auxiliary indices are positive, limits are natural numbers). None of
the invariants is inductive alone; each is strengthened and later layers use
earlier ones:

1. `Base`: `TypeOK`, and a worker past its first frame has a hello (`TypeCorrect`).
2. `Owned`: which phases of a worker allow which states of its socket, together
   with `OneOwner` and `SocketsAccounted` (`OwnershipSafe`, `SocketsSafe`). The two
   need each other: that a waiting socket is open follows from its worker having
   returned, and that no second worker uses it from its being open and parked.
3. `Claimed`: `RoomClaimedOnce` and the fact that only primary channels hold rooms
   (`RoomsSafe`), from `Owned`.
4. `Bounded`: the tables are finite and within their limits (`LimitsSafe`).
5. `Stopping`: a live worker is in the vector that `stop()` joins, and the acceptor
   is gone before it cancels; hence `StoppedClean`, also for the worker that fills
   the table after `close_waiting` (`StopSafe`).
6. `Judged`: a client that was told a verdict is out of the table and its worker is
   past the point where another could be sent (`VerdictsSafe`).

`WithinLimits` and `OneVerdict` are proved and no longer in a run.

`PeerSession_proofs` proves first of the negotiation, the instance `Route` of
`RelayRoute`, that it implements `RouteCommit` and that `FailsOnlyUnpaired` holds.
`CommitInv` is what the refinement rests on: every verdict on its way is the one the
relay took, and every `direct_ok` that was sent or read is that of a peer which
offered a direct connection. A step of a peer is then an offer, a `Follow` or a
`GiveUp` of the abstract commitment or leaves it alone, and a `Poll` of the relay is
at most one decision. `FailInv` adds, for the time in which nobody is cancelled
(`Untroubled`), that the first frame each peer reads after the relay's answer is the
verdict, and that the relay reads the end of no stream before it.

It then carries the invariant of the negotiation through the session up to `Proceed`
(`NotBefore`); after it nothing undoes the decision (`Implements`). `SecuredTogether`
needs what is on the wire: `Sent` says where a frame of the handshake comes from,
`Ordered` what follows a point on its stream, `Awaited` what a peer that has read the
point finds next, `Paired` that it shares its channel with the other, and `NotAlone`
that a confirmed peer which is gone was cancelled. `Parts` and `ShutMeans` keep the
upgrade and the leftovers of earlier phases apart from this. For `MuxAgree` and
`MuxIsWhole`, `Joins` says how far each peer is and what it knows of the other, and
`Waiting` counts the connections in the sender's listener against those dialled and
accepted.

`RelayRace_proofs` proves `SplitNeedsSilence` and `ReadIsDelivered` for any relays that
only the receiver has found, however connections break and tasks end. `Known` is what
holds of a peer until its index slips: it has heard no relay better than the one at
`best`, which is a candidate that reported its peer, and when it has left the wait than
its result. That this survives the erasure of dead candidates rests on `ErasedKeeps`,
a lemma about sub-vectors: the entries before the first dead one keep their place.
`BestIsForemost` is the same of the loop that compares the answers of one round. Two
peers with one ranking could then differ only on relays of equal rank, and the two
relays that both can name have different ranks.

The same module proves `NeverCorrupt` of `MuxTransfer` and its type invariant, for any
channels, file lengths, limits, edits and number of attempts; `MuxBounds` restates what
`MuxTransfer` assumes of its constants. `Order` says when threads leave: a worker with
an empty queue or an error, the sending thread for the trailer when all workers have
left without one, the receiving thread when every reader has read its ChunkEnd. `Ends`
says that a ChunkEnd stands behind every chunk of its channel, and the FileEnd behind
all workers. As long as nobody rewrites the source, no chunk on its way is out of place
(`Right`), the part file starts with the accepted prefix of it (`Opened`), and
`NothingLost` keeps count: every chunk that was read is written or on its way, unless
something is `Broken`. A frame sent on a cut connection is lost, so the count needs that
this shows: its channel is cut and its ChunkEnd has not been sent, and so never arrives,
or a side has failed. When the FileEnd is read nothing is `Broken` and nothing on its
way (`WholeFile`), so the part file is what the digest covers. A crash keeps any part
of the chunks written, but the next attempt accepts only a prefix that matches.

`DirectAttempt_proofs` proves `DialedIsMutual` and `RolesKeepItOne` for any number of
connections. `On` says what may be on a connection: one that a peer dialled alone
carries to it only the ack of the peer that accepted it and keeps it (`OnlyAcks`); on
one that both dialled each peer finds the other's hello first, and once it has
answered it the ack is on its way, was read, or met a closed end (`Both`). `Listening`
keeps the listeners apart: each connection waits in one, with its hello in front.
`RolesKeepItOne` needs `SenderIsLast`: without same-port dials the sender dials only
in the last phase, and does not then accept a connection of the receiver, whose role
is no longer active.

`WebConsole_proofs` proves `OutcomeIsOwn`, `StagedAccounted` and `FinishedIsWhole` for
any number of requests, uploads and jobs. `JobInv` says who may move a job: the one
live job is the one shown, exactly one request is in charge of it until its worker is
launched, and a job that reports "canceled" was asked to. `StoreInv` says what each
stage of a request knows of its staged file (`Held`), that a running job whose file is
gone was preceded by one that sent the same file, or its user cancelled it (`Carries`),
and which lengths a row and its file have in common (`Length`). `NoUpload`, the job
without a file, is assumed to be no upload. All of `StoreInv` holds while the process
lives; `StagedInv` adds that nothing is staged after the destructors, and that a process
that has ended leaves no row and no job.

`Settings_proofs` proves `NeverTorn`, `EditsPreserved` and `SavesSurvive` for any number
of processes and of edits by hand. A temporary file is complete before it is renamed
(`TempReady`); a process about to replace the file has seen no edit that is still there
(`SeenGone`); and a reported save that a process has read is in its copy, in a backup
or was overtaken before (`KnownKept`). With these the two properties are inductive.

The same module reaches the transfer screen as the instance `Tui` of `TuiTransfer`, and
`Cancellation` below it; their assumptions on the constants are the hypothesis
`TuiBounds` of its theorems. It first proves `TypeOK` and `NothingSurvives` of
`Cancellation` for any number of requests, sockets and attempts
(`SessionTypeCorrect`, `CancellationComplete`). The invariant `SessionInv` adds that an
open tracked socket that is not interrupted has its handle in the list or in a
caller's sweep, and that when the list is not empty and the flag is set some caller
has yet to swap it. Both are then carried over to a screen that starts any number of
transfers: a step of the screen is a step of `Cancellation` or leaves it alone, or
starts a new one from its initial state, so `SessionInv` is preserved
(`EveryTransferCancelled`); `TuiTypeCorrect` types the screen. `OutcomesOwn` proves
`OutcomeIsItsOwn` with two facts that it needs: the flag is set only by a request of
this transfer (`FlagIsOwn`), and a worker shows what its session did (`WorkerShows`),
a completion that was reported and may still be taken back included.

`FileTransfer_proofs` proves `TypeOK`, `Untouched`, `BatchWhole`, `ProgressTrue` and
`ProgressKept` for any batch of files, links and directories of any size, on a file
system that tells upper from lower case or not, with any policy, window and number of
attempts, and whatever breaks, stops or is edited meanwhile. `Core` is the inductive
invariant; its parts need each other:

- `Plans`: entries that are not skipped have targets that are different names on the
  receiver's file system (`Key`), and one that is skipped has something there.
  `Spared`: where the plan lets the receiver write, the plan found nothing, or a
  directory for a directory. That it stays so needs that nothing is ever taken away
  from the output directory.
- `Wired`: what may follow what on the stream (`FrameAt`) and how it goes with the
  states of the two sides (`Coupled`). A header is the last frame and comes after the
  end of the entry in progress; the answer is first when the receiver waits for it;
  the end of a payload carries the digest in `sent`. Only while the receiver has not
  failed is the stream what it expects.
- `Shape` and `Sending`: where each side is, which entries have had their header, and
  which have a digest.

`Untouched` is then `Spared` at every write. `Arrived`, proved on top of `Core`, says
that every entry whose end was read is `Whole`, from the header of a skipped or marked
entry and from the verified end of a payload; that later entries do not disturb it is
that their targets differ. With all entries received at `Done` this is `BatchWhole`.

`ProgressTrue` needs to know how many chunks are still to come. `Counted` says it of
the stream: the part file, or while the receiver waits for the answer the offset in
it, plus the position of a frame is at most `Size` for a data frame, exactly `Size`
and one for the end of the payload, and with all frames what the sender has read. A
payload is therefore complete when its end is read, and `ReceiverShown` can count it
as a whole file from then on; `SenderShown` is the same for the sender, which counts
an entry when it is past it. `Within` and `Alone` say that both stay below the batch,
and that a side is shown finished only while the receiver is done, which needs that
only failed sides try again.

`ProgressKept` relates several attempts. `Kept` says, as long as no source was
rewritten, no chunk was lost from the disk and no target was renamed, that every chunk
anywhere is one of the sources (`Unchanged`), that the plan writes under the names of
the batch (`Named`), and of every file (`Had`) that what was ever received of it is in
its part file, or that the file is in place, or that the policy "skip" spares what
somebody else put there. `InHand` carries that through an entry: what the receiver
offers is all that it received, and the sender accepts all of it, since it is a prefix
of its source. A verified file is then spared in the next attempt by
`try_skip_existing_duplicate`, and a part file never grows beyond the file (`Counted`).

`NoteEditor_proofs` proves `Converged` for two sessions of any users
(`SessionsConverge`) and with the terminal on one side (`TerminalConverges`), and
`EditorShowsDocument`, for any number of pads, threads and revisions and any outbox
limit. That edits are applied by a total order (`AtLeast`) is not enough for
convergence: an edit that wins must also arrive. `Carried` says that the document of a
running session, when its own user wrote it, is either beaten on the other side or has
its frame on the way there, in the hand of a thread, the outbox, the sender or the
stream. To keep it through the outbox, where a thread that comes late finds a newer
frame queued or replaces an older one, the proof needs that the outbox has one edit
per pad (`Coalesced`), that every edit on its way is one its writer has applied
(`Own`), so that the frame which stands in for the latest is the latest, and that a
document of the other's is one that it has had (`Taken`). With nothing on its way each
document is then at least the other's. A pad exists just when it was edited or is the
first (`Existing`), so the pads agree too. For the editor, `EditorInv` says what the
interface thread has in hand in each of its steps, and that its frame is the document
unless a remote edit of the pad is announced.

The inductive invariants of these modules were checked by TLC before they were proved:
on the instances of the runs, that of `Settings` with two processes, `WebInv` with two
uploads as well, that of `FileTransfer` with windows of two and four frames, that of
`MuxTransfer` also with one or two chunks, two pending and a window of two.

Only model-checked:

- liveness, and with it everything that needs fairness or `ENABLED`
  (`StopCompletes`, `SessionEnds`, `EditsSettle`, `RetriesEnd` and the like), which
  is beyond the provers used;
- `LanUpgrade` on its own, whose safety is that of `PeerSession`.

## 6. Not modelled

- The bytes of the relay's pipe and the sizes of its buffers: a client reads on or
  does not.
- The data race on one socket object between the note session's reader, which closes
  it at the end of the stream, and its sender thread inside a write
  (`core/socket.cpp:302`).
- NAT behaviour, UDP probing and round-trip times: the network decides which dials
  succeed, and a score only orders choices that the models leave open.
- Collecting the files to send, ignore rules, file modes and times, compression and
  encryption as functions of bytes, record formats and host names.
- HTTP parsing and authorization, static pages, settings dialogs, drawing, native
  pickers, the doctor and the command line's options: pure functions or I/O without
  state shared with the parts above.
