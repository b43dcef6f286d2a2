----------------------------- MODULE NoteEditor -----------------------------
(***************************************************************************)
(* The notepad in the terminal: peer 1 of NoteSync edits through the text  *)
(* box of run_tui_note, peer 2 is any user.  The interface thread shows    *)
(* one pad in the editor, sends what was typed after a pause and before it *)
(* changes the pad, and loads remote edits that the run thread announced,  *)
(* as long as nothing is typed and unsent.                                 *)
(***************************************************************************)
EXTENDS NoteSync

VARIABLES
    editor,  \* the document whose text the editor showed last
    typed,   \* local_dirty: what is typed and unsent, "none", "fits" or "too long"
    pending, \* the pads of pending_remote
    telling, \* the pads whose RemoteApplied callback is on its way
    ui       \* what the interface thread does: [does |-> ..., pad |-> ...]

terminal  == <<editor, typed, pending, telling, ui>>
note_vars == <<vars, terminal>>

Idle == [does |-> "idle", pad |-> 1]

NoteInit ==
    /\ Init
    /\ editor = Blank
    /\ typed = "none"
    /\ pending = {}
    /\ telling = {}
    /\ ui = Idle

\* The interface thread waits in screen.Loop.
Waits == ui = Idle

\* mark_local_changed; a user goes on within the bound of NoteSync only.
Type ==
    /\ Waits /\ MayEdit(1)
    /\ typed' \in {"fits", "too long"}
    /\ UNCHANGED <<vars, editor, pending, telling, ui>>

\* load_active_document, of the pad that is active afterwards.
load_active_document ==
    /\ editor' = docs'[1][active'[1]]
    /\ typed' = "none"

\* send_editor up to the queue: the text becomes the document, and `next` is what
\* the thread does with the answer.
\* (A stopped session refuses the text and every later event sends it again: bounded.)
send_editor(next_step) ==
    /\ typed = "fits" /\ (stop[1] => MayEdit(1))
    /\ LocalEdit(1, active[1])
    /\ ui' = next_step
    /\ UNCHANGED <<pads, active, next, acked, session, wire, editor, typed, pending, telling>>

\* The debounce has passed and an event or the ticker wakes the thread.
Send == Waits /\ send_editor([does |-> "send", pad |-> active[1]])

\* create_pad finds a number in the bound.
HasNumber == MayEdit(1) /\ \E pad \in Pads \ pads[1] : pad >= next[1]

\* switch_active_pad and the New button: what is typed goes out first, unless it
\* is too long.
Leave(step) ==
    /\ Waits /\ (step.does = "create" => HasNumber)
    /\ \/ send_editor([step EXCEPT !.does = IF @ = "select" THEN "send, select" ELSE "send, create"])
       \/ /\ typed # "fits"
          /\ ui' = step
          /\ UNCHANGED <<vars, editor, typed, pending, telling>>

Switch == \E pad \in pads[1] \ {active[1]} : Leave([does |-> "select", pad |-> pad])
New    == Leave([does |-> "create", pad |-> 1])

\* Mutant: the pad changes and the editor keeps its text.
Select_NoLoad ==
    /\ ui.does = "select"
    /\ select_pad(1, ui.pad)
    /\ ui' = Idle
    /\ typed' = "none"
    /\ UNCHANGED <<editor, pending, telling>>
Select ==
    /\ ui.does = "select"
    /\ select_pad(1, ui.pad)
    /\ ui' = Idle
    /\ load_active_document
    /\ UNCHANGED <<pending, telling>>

\* create_pad, while there is a number left in the bound; otherwise nothing happens.
Create ==
    /\ ui.does = "create"
    /\ \/ /\ create_pad(1)
          /\ ui' = [ui EXCEPT !.does = "created"]
       \/ /\ ~HasNumber
          /\ ui' = Idle
          /\ UNCHANGED vars
    /\ UNCHANGED <<editor, typed, pending, telling>>

\* The Clear button empties the editor, and the document with it.
Clear ==
    /\ Waits /\ MayEdit(1)
    /\ LocalEdit(1, active[1])
    /\ editor' = docs'[1][active[1]]
    /\ ui' = [does |-> "clear", pad |-> active[1]]
    /\ UNCHANGED <<pads, active, next, acked, session, wire, typed, pending, telling>>

\* queue_frame returns to the interface thread.  A stopped session refuses the
\* frame: then the text stays unsent and a new pad is not loaded.
Queued ==
    \E frame \in hand[1] :
        /\ QueueEdit(1, frame)
        /\ LET accepted == ~stop'[1]
           IN  \/ /\ ui.does \in {"send", "send, select", "send, create"}
                  /\ editor' = IF accepted THEN Applied(frame) ELSE editor
                  /\ typed' = IF accepted THEN "none" ELSE typed
               \/ /\ ui.does = "created"
                  /\ IF accepted THEN load_active_document ELSE UNCHANGED <<editor, typed>>
               \/ ui.does = "clear" /\ typed' = "none" /\ UNCHANGED editor
        /\ ui' = CASE ui.does = "send, select" -> [ui EXCEPT !.does = "select"]
                   [] ui.does = "send, create" -> [ui EXCEPT !.does = "create"]
                   [] OTHER -> Idle
        /\ UNCHANGED <<pending, telling>>

\* Mutant: remote edits are loaded over what is typed.
apply_remote_updates_Dirty ==
    /\ Waits /\ pending # {}
    /\ pending' = {}
    /\ IF active[1] \in pending THEN editor' = docs[1][active[1]] /\ typed' = "none"
                                ELSE UNCHANGED <<editor, typed>>
    /\ UNCHANGED <<vars, telling, ui>>
apply_remote_updates ==
    /\ Waits /\ typed = "none" /\ pending # {}
    /\ pending' = {}
    /\ IF active[1] \in pending THEN editor' = docs[1][active[1]] /\ UNCHANGED typed
                                ELSE UNCHANGED <<editor, typed>>
    /\ UNCHANGED <<vars, telling, ui>>

\* Quit, Escape and the end of the loop.
Quit ==
    /\ Waits
    /\ request_stop(1)
    /\ ui' = [does |-> "gone", pad |-> 1]
    /\ UNCHANGED <<editor, typed, pending, telling>>

\* The run thread announces an edit it applied before it looks at the next frame;
\* it queues the acknowledgement after that, which the editor does not see.
ReceiveEdit ==
    /\ telling = {}
    /\ Receive(1)
    /\ telling' = {pad \in Pads : docs'[1][pad] # docs[1][pad]}
    /\ UNCHANGED <<editor, typed, pending, ui>>

workspace_changed ==
    /\ telling # {}
    /\ pending' = pending \cup telling
    /\ telling' = {}
    /\ UNCHANGED <<vars, editor, typed, ui>>

Interface ==
    Type \/ Send \/ Switch \/ New \/ Select \/ Create \/ Clear \/ Queued
        \/ apply_remote_updates \/ Quit

\* The threads of peer 1's session beside the interface.
Session1 ==
    \/ Pop(1) \/ Transmit(1) \/ TransmitFails(1) \/ Open(1) \/ Greet(1)
    \/ telling = {} /\ EndRun(1)

NoteNext ==
    \/ Interface \/ ReceiveEdit \/ workspace_changed
    \/ (Session1 \/ User(2) \/ Threads(2)) /\ UNCHANGED terminal

NoteSpec == NoteInit /\ [][NoteNext]_note_vars

\* The threads of both sessions run on, the ticker and remote edits wake the
\* interface, and the user pauses now and then.
NoteFairness ==
    /\ WF_note_vars(Send) /\ WF_note_vars(apply_remote_updates)
    /\ WF_note_vars(Queued) /\ WF_note_vars(Select \/ Create)
    /\ WF_note_vars(ReceiveEdit) /\ WF_note_vars(workspace_changed)
    /\ WF_note_vars((Pop(1) \/ Transmit(1) \/ TransmitFails(1)) /\ UNCHANGED terminal)
    /\ WF_note_vars((Open(1) \/ Greet(1)) /\ UNCHANGED terminal)
    /\ WF_note_vars(telling = {} /\ EndRun(1) /\ UNCHANGED terminal)
    /\ WF_note_vars((\E frame \in hand[2] : QueueEdit(2, frame)) /\ UNCHANGED terminal)
    /\ WF_note_vars((Pop(2) \/ Transmit(2) \/ TransmitFails(2)) /\ UNCHANGED terminal)
    /\ WF_note_vars((Open(2) \/ Greet(2)) /\ UNCHANGED terminal)
    /\ WF_note_vars(Receive(2) /\ UNCHANGED terminal)
    /\ WF_note_vars(EndRun(2) /\ UNCHANGED terminal)

NoteFairSpec == NoteSpec /\ NoteFairness

-----------------------------------------------------------------------------
\* The editor never shows an old text or another pad's: when nothing typed is
\* unsent and no remote edit of the pad is announced or about to be, its text is
\* the active document's, whatever the user and the run thread did in between.
EditorShowsDocument ==
    Waits /\ ~stop[1] /\ typed = "none" /\ active[1] \notin pending \cup telling
        => editor = docs[1][active[1]]

\* What is typed is not lost to a remote edit: while the session lives it becomes
\* an edit of this side, unless the user makes it too long.
TypingSettles ==
    typed = "fits" ~> (typed = "none" /\ editor.writer = 1) \/ typed = "too long" \/ stop[1]
=============================================================================
