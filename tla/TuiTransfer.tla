---------------------------- MODULE TuiTransfer ----------------------------
(***************************************************************************)
(* The transfer screen of the terminal menu around the cancellable session *)
(* of Cancellation.  The interface thread starts a worker with a fresh     *)
(* TransferCancellation, asks before it cancels, runs request() itself,    *)
(* and joins the worker before it repeats, returns to the menu or leaves;  *)
(* the worker writes progress and outcome into the shared TuiState.        *)
(***************************************************************************)
EXTENDS Cancellation

CONSTANT MaxTransfers  \* bound: transfers started from one screen

ASSUME TransfersAssumption == MaxTransfers \in Nat \ {0}

VARIABLES
    tab,     \* screen_tab; "left" when run_tui_menu_screen has returned
    ui,      \* what the interface thread is in the middle of, or "idle"
    confirm, \* quit_confirm_pending
    shown,   \* finished, failed and canceled of transfer_state
    worker,  \* the worker thread: "none", in its "task", or "ended" and not yet joined
    started  \* transfers started so far

screen   == <<tab, ui, confirm, shown, worker, started>>
tui_vars == <<vars, screen>>

TuiInit ==
    /\ Init
    /\ tab = "menu" /\ ui = "idle" /\ confirm = FALSE
    /\ shown = "running" /\ worker = "none" /\ started = 0

-----------------------------------------------------------------------------
(* The worker thread: start_tui_task.                                      *)

\* The session runs and reports: transfer_complete, or the retry that resets the view.
Work ==
    /\ worker = "task" /\ SessionStep
    /\ shown' = CASE session' = "complete" -> "finished"
                  [] session' = "delay"    -> "running"
                  [] OTHER                 -> shown
    /\ UNCHANGED <<tab, ui, confirm, worker, started>>

\* A task that has thrown was canceled if its user asked and failed if not, also
\* when it had been reported as complete before; of one that returned, the report
\* stands.  Mutants: an earlier completion stays; what the session threw decides.
Outcome_FirstReport ==
    CASE shown # "running"              -> shown
      [] shown = "running" /\ requested  -> "canceled"
      [] shown = "running" /\ ~requested -> "failed"
Outcome_Thrown ==
    CASE session = "done"     -> shown
      [] session = "canceled" -> "canceled"
      [] session = "failed"   -> "failed"
Outcome ==
    CASE session = "done"               -> shown
      [] session # "done" /\ requested  -> "canceled"
      [] session # "done" /\ ~requested -> "failed"

TaskEnds ==
    /\ worker = "task" /\ session \in Over
    /\ worker' = "ended"
    /\ shown' = Outcome
    /\ UNCHANGED <<vars, tab, ui, confirm, started>>

-----------------------------------------------------------------------------
(* The interface thread.                                                   *)

\* It handles one event after the other; request() runs on it too.
Idle == tab # "left" /\ ui = "idle" /\ \A c \in Callers : call[c] \in {"idle", "returned"}

Done == shown # "running"

\* make_shared<TransferCancellation>: the calls for the last transfer do not reach it.
NewCancellation ==
    /\ requested' = FALSE /\ interrupted' = {}
    /\ handles' = {} /\ call' = [c \in Callers |-> "idle"] /\ swept' = [c \in Callers |-> {}]

\* begin_transfer with valid settings.
StartWorker ==
    /\ started < MaxTransfers /\ started' = started + 1
    /\ NewCancellation
    /\ session' = "check" /\ fresh' = {} /\ open' = {} /\ used' = {} /\ attempt' = 1
    /\ worker' = "task" /\ shown' = "running" /\ tab' = "transfer" /\ confirm' = FALSE

Start == Idle /\ tab = "menu" /\ StartWorker /\ UNCHANGED ui

\* q asks, Escape takes it back, and q again cancels.
AskQuit ==
    /\ Idle /\ tab = "transfer" /\ ~Done
    /\ confirm' = ~confirm
    /\ UNCHANGED <<vars, tab, ui, shown, worker, started>>
ConfirmQuit ==
    /\ Idle /\ tab = "transfer" /\ ~Done /\ confirm
    /\ ui' = "cancel"
    /\ UNCHANGED <<vars, tab, confirm, shown, worker, started>>

\* request_transfer_cancel: without a worker there is nothing to cancel.
\* (With the calls of the bound used up, a further one would find the flag set.)
Cancel ==
    /\ ui = "cancel"
    /\ IF worker # "none" /\ \E c \in Callers : call[c] = "idle"
         THEN \E c \in Callers : Request(c)
         ELSE UNCHANGED vars
    /\ ui' = "idle" /\ confirm' = FALSE
    /\ UNCHANGED <<tab, shown, worker, started>>

Requesting ==
    /\ \E c \in Callers : Swap(c) \/ Interrupt(c) \/ Returns(c)
    /\ UNCHANGED screen

\* The buttons of make_tui_transfer_actions: Again and Retry, Menu, Quit.
Press(button) ==
    /\ Idle /\ tab = "transfer" /\ Done
    /\ button = "again" => shown # "canceled"
    /\ ui' = button
    /\ UNCHANGED <<vars, tab, confirm, shown, worker, started>>

\* q or Escape in the menu.
LeaveMenu ==
    /\ Idle /\ tab = "menu"
    /\ ui' = "quit"
    /\ UNCHANGED <<vars, tab, confirm, shown, worker, started>>

\* join_worker_if_needed returns, and the cancellation is dropped.
Joined(button) == ui = button /\ worker # "task" /\ ui' = "idle"

\* repeat_transfer: when the settings or the path are no longer valid, begin_transfer
\* leaves the screen on a transfer that has been reset and has no worker.
Repeat ==
    /\ Joined("again")
    /\ \/ StartWorker
       \/ /\ worker' = "none" /\ shown' = "running" /\ confirm' = FALSE
          /\ UNCHANGED <<vars, tab, started>>
ReturnToMenu ==
    /\ Joined("menu")
    /\ worker' = "none" /\ tab' = "menu" /\ confirm' = FALSE
    /\ UNCHANGED <<vars, shown, started>>
Leave ==
    /\ Joined("quit")
    /\ worker' = "none" /\ tab' = "left"
    /\ UNCHANGED <<vars, confirm, shown, started>>

-----------------------------------------------------------------------------
UserEvent ==
    Start \/ AskQuit \/ ConfirmQuit \/ LeaveMenu \/ \E button \in {"again", "menu", "quit"} : Press(button)

TuiNext ==
    \/ Work \/ TaskEnds \/ UserEvent
    \/ Cancel \/ Requesting \/ Repeat \/ ReturnToMenu \/ Leave

TuiSpec == TuiInit /\ [][TuiNext]_tui_vars

\* Both threads run on where they can, a session that waits for its peer is only
\* sure to end once it is woken, and the user need not do anything.
TuiFairness ==
    /\ WF_tui_vars(Work /\ (Check \/ track \/ Woken \/ RecordSuccess \/ Handle \/ Delay))
    /\ WF_tui_vars(Work /\ ConnectFails)
    /\ WF_tui_vars(TaskEnds) /\ WF_tui_vars(Cancel) /\ WF_tui_vars(Requesting)
    /\ WF_tui_vars(Repeat \/ ReturnToMenu \/ Leave)

TuiFairSpec == TuiSpec /\ TuiFairness

-----------------------------------------------------------------------------
\* Every variable has its type; a worker is only there on the transfer tab.
TuiTypeOK ==
    /\ TypeOK
    /\ tab \in {"menu", "transfer", "left"}
    /\ ui \in {"idle", "cancel", "again", "menu", "quit"}
    /\ confirm \in BOOLEAN
    /\ shown \in {"running", "finished", "failed", "canceled"}
    /\ worker \in {"none", "task", "ended"} /\ (worker # "none" => tab = "transfer")
    /\ started \in 0..MaxTransfers

\* The outcome shown is that of the transfer on the screen, whatever was confirmed,
\* cancelled or repeated before and however the keys race with the worker.  It is
\* canceled only if its own user asked and the task threw, failed only if the task
\* threw.  Finished may come early, with the report of the running attempt; once
\* the worker has ended it stands exactly if the task returned, so a throw after the
\* last byte takes it back.
OutcomeIsItsOwn ==
    /\ shown = "canceled" => session \in {"canceled", "failed"} /\ \E c \in Callers : call[c] # "idle"
    /\ shown = "failed" => session = "failed"
    /\ shown = "finished" => session = "done" \/ (worker = "task" /\ session \in {"complete", "error"} \cup Over)
    /\ worker = "ended" => shown # "running" /\ (session = "done" => shown = "finished")

\* A confirmed quit ends the transfer, even when its peer is silent, and the screen
\* never calls it a failure.
ConfirmedQuitEnds ==
    requested /\ worker = "task" ~> worker = "ended" /\ shown \in {"canceled", "finished"}
=============================================================================
