------------------------------ MODULE Settings ------------------------------
(***************************************************************************)
(* Several processes of one user keep one settings file: the network       *)
(* profile (save_profile_success) or the user config (load_user_config,    *)
(* remember_send_settings, remember_recv_settings).  No lock is taken; a    *)
(* save reads the file, changes it in memory and renames a temporary file  *)
(* over it, and a malformed file is moved to a backup first.               *)
(*                                                                         *)
(* What a document says is abstracted to "holds": the saves it was made    *)
(* from, one after the other.                                              *)
(***************************************************************************)
EXTENDS Naturals, FiniteSets

CONSTANTS
    Stores,    \* which of "profile" and "config" the file may be
    Procs,     \* the processes, each of which does one load or save
    MaxEdits   \* bound on the times the user breaks the file by hand

ASSUME SettingsAssumption == Stores \subseteq {"profile", "config"} /\ MaxEdits \in Nat
ASSUME ProcsAssumption == Procs \cap {"old", "legacy"} = {}

VARIABLES
    store,      \* which file this is
    file,       \* the document at the path
    legacy,     \* the document at legacy_tui_prefs_path
    backups,    \* documents moved aside; each has a name of its own
    temp,       \* temp[p]: the temporary file of p
    pc,         \* pc[p]: the next step of p
    base,       \* base[p]: the saves in the copy p has in memory
    known,      \* known[p]: the saves that were in the file when p made that copy
    seen,       \* seen[p]: the document p last looked at
    saver,      \* the processes that save, not only load
    edits,      \* how often the user has broken the file
    \* History
    saved,      \* processes that were told their save succeeded
    overtaken,  \* saves that a process replaced which had made its copy without them
    overwritten \* edits that a process replaced which had last looked before them

procVars == <<temp, pc, base, known, seen>>
history  == <<saved, overtaken, overwritten>>
vars == <<store, file, legacy, backups, procVars, saver, edits, history>>

Doc(kind, holds, edit) == [kind |-> kind, holds |-> holds, edit |-> edit]
Missing == Doc("missing", {}, 0)
Defaults == {}

\* The document a save writes; its temporary file may break off in the middle.
Saved(holds) == Doc("whole", holds, 0)
Part         == Doc("part", {}, 0)

Init ==
    /\ store \in Stores
    /\ edits \in {0, 1}
    /\ file \in IF edits = 0 THEN {Missing, Saved({"old"})} ELSE {Doc("malformed", {"old"}, 1)}
    /\ legacy \in IF store = "config" THEN {Missing, Saved({"legacy"})} ELSE {Missing}
    /\ backups = {}
    /\ temp = [p \in Procs |-> Missing]
    /\ pc = [p \in Procs |-> IF store = "config" THEN "load" ELSE "save"]
    /\ base = [p \in Procs |-> Defaults]
    /\ known = [p \in Procs |-> {}]
    /\ seen = [p \in Procs |-> Missing]
    /\ saver \in IF store = "config" THEN SUBSET Procs ELSE {Procs}
    /\ saved = {} /\ overtaken = {} /\ overwritten = {}

Goto(p, step) == pc' = [pc EXCEPT ![p] = step]

\* load_profile_root, read_config_file: opening the file may fail for this once.
Status(doc) ==
    CASE doc.kind = "missing" -> {"missing"}
      [] doc.kind = "whole"   -> {"loaded", "unreadable"}
      [] doc.kind \in {"malformed", "part"} -> {"invalid", "unreadable"}
      [] doc.kind = "unreadable" -> {"unreadable"}

-----------------------------------------------------------------------------
(* load_user_config_with_status *)

TakeCopy_Fresh(p, s) ==
    /\ base' = [base EXCEPT ![p] = Defaults]
    /\ known' = [known EXCEPT ![p] = IF s = "unreadable" THEN {} ELSE file.holds]

\* The copy of the file that p works on from here: what it read, or the defaults.
TakeCopy(p, s) ==
    /\ base' = [base EXCEPT ![p] = IF s = "loaded" THEN file.holds ELSE Defaults]
    /\ known' = [known EXCEPT ![p] = IF s = "unreadable" THEN {} ELSE file.holds]

\* A read that works is the copy in memory; else the legacy file is tried next, and
\* what it says may be written to the path unless something unread is there.
Load(p) ==
    /\ pc[p] = "load"
    /\ \E s \in Status(file) :
          /\ seen' = [seen EXCEPT ![p] = file]
          /\ TakeCopy(p, s)
          /\ Goto(p, CASE s = "loaded"     -> "loaded"
                       [] s = "missing"    -> "migrate"
                       [] s = "invalid"    -> "preserve"
                       [] s = "unreadable" -> "legacy")
    /\ UNCHANGED <<store, file, legacy, backups, temp, saver, edits, history>>

move_file_to_recovery_backup_SameName(p, ok, failed) ==
    /\ \/ /\ file.kind # "missing"
          /\ backups' = {file} /\ file' = Missing
          /\ Goto(p, ok)
       \/ /\ UNCHANGED <<file, backups>>
          /\ Goto(p, failed)

\* rename() moves whatever is at the path by now, and fails if nothing is.
move_file_to_recovery_backup(p, ok, failed) ==
    /\ \/ /\ file.kind # "missing"
          /\ backups' = backups \cup {file} /\ file' = Missing
          /\ Goto(p, ok)
       \/ /\ UNCHANGED <<file, backups>>
          /\ Goto(p, failed)

\* Without a backup the load goes on with the legacy file or the defaults.
PreserveOnLoad(p) ==
    /\ pc[p] = "preserve"
    /\ move_file_to_recovery_backup(p, "migrate", "legacy")
    /\ known' = [known EXCEPT ![p] = IF pc'[p] = "legacy" THEN {} ELSE @]
    /\ UNCHANGED <<store, legacy, temp, base, seen, saver, edits, history>>

ReadLegacy(p) ==
    /\ pc[p] \in {"migrate", "legacy"}
    /\ \E s \in Status(legacy) :
          IF s = "loaded"
          THEN /\ base' = [base EXCEPT ![p] = legacy.holds]
               /\ Goto(p, IF pc[p] = "migrate" THEN "write_legacy" ELSE "loaded")
          ELSE Goto(p, "loaded") /\ UNCHANGED base
    /\ UNCHANGED <<store, file, legacy, backups, temp, known, seen, saver, edits, history>>

\* The config is in memory: done, or changed and saved (remember_*_settings, the menu).
Loaded(p) ==
    /\ pc[p] = "loaded"
    /\ Goto(p, IF p \in saver THEN "save" ELSE "done")
    /\ UNCHANGED <<store, file, legacy, backups, temp, base, known, seen, saver, edits, history>>

-----------------------------------------------------------------------------
(* save_profile_success, save_user_config *)

\* The profile starts from what is there; the config looks only whether it may overwrite it.
Save(p) ==
    /\ pc[p] = "save"
    /\ \E s \in Status(file) :
          /\ seen' = [seen EXCEPT ![p] = file]
          /\ IF store = "config" THEN UNCHANGED <<base, known>> ELSE TakeCopy(p, s)
          /\ Goto(p, CASE s \in {"loaded", "missing"} -> "write"
                       [] s = "invalid"    -> "preserve_save"
                       [] s = "unreadable" -> "refused")
    /\ UNCHANGED <<store, file, legacy, backups, temp, saver, edits, history>>

PreserveOnSave(p) ==
    /\ pc[p] = "preserve_save"
    /\ move_file_to_recovery_backup(p, "write", "refused")
    /\ UNCHANGED <<store, legacy, temp, base, known, seen, saver, edits, history>>

-----------------------------------------------------------------------------
(* atomic_write_text_file *)

Writes(p)    == pc[p] \in {"write", "write_legacy"}
Replaces(p)  == pc[p] \in {"replace", "replace_legacy"}
Migrating(p) == pc[p] \in {"write_legacy", "replace_legacy"}
Own(p)       == IF Migrating(p) THEN {} ELSE {p}

\* A migration that fails is only a warning.
WriteFails(p) == Goto(p, IF Migrating(p) THEN "loaded" ELSE "refused")

WriteTemp_Short(p) ==
    /\ Writes(p)
    /\ \/ temp' = [temp EXCEPT ![p] = Part]
       \/ temp' = [temp EXCEPT ![p] = Saved(base[p] \cup Own(p))]
    /\ Goto(p, IF Migrating(p) THEN "replace_legacy" ELSE "replace")
    /\ UNCHANGED <<store, file, legacy, backups, base, known, seen, saver, edits, history>>

\* write_private_temp_file: create it, write it in full and close it.  On an error the
\* temporary file is removed again (TempFileCleanup).
WriteTemp(p) ==
    /\ Writes(p)
    /\ \/ temp[p] = Missing /\ temp' = [temp EXCEPT ![p] = Part] /\ UNCHANGED pc
       \/ /\ temp[p] = Part
          /\ temp' = [temp EXCEPT ![p] = Saved(base[p] \cup Own(p))]
          /\ Goto(p, IF Migrating(p) THEN "replace_legacy" ELSE "replace")
       \/ temp' = [temp EXCEPT ![p] = Missing] /\ WriteFails(p)
    /\ UNCHANGED <<store, file, legacy, backups, base, known, seen, saver, edits, history>>

\* atomic_replace_file: the rename is one step, or fails and the temporary file goes.
Replace(p) ==
    /\ Replaces(p)
    /\ \/ /\ file' = temp[p]
          /\ overtaken' = overtaken \cup (file.holds \ known[p])
          /\ overwritten' = IF file = seen[p] THEN overwritten ELSE overwritten \cup {file.edit}
          /\ saved' = saved \cup Own(p)
          /\ Goto(p, IF Migrating(p) THEN "loaded" ELSE "done")
       \/ WriteFails(p) /\ UNCHANGED <<file, saved, overtaken, overwritten>>
    /\ temp' = [temp EXCEPT ![p] = Missing]
    /\ UNCHANGED <<store, legacy, backups, base, known, seen, saver, edits>>

-----------------------------------------------------------------------------
(* The world around *)

\* A process may end between any two steps; its temporary file stays.
Crash(p) ==
    /\ pc[p] \notin {"done", "refused", "crashed"}
    /\ Goto(p, "crashed")
    /\ UNCHANGED <<store, file, legacy, backups, temp, base, known, seen, saver, edits, history>>

\* The user leaves the file malformed, or takes away the right to read it.
UserBreaks ==
    /\ edits < MaxEdits /\ file.kind \in {"missing", "whole"}
    /\ edits' = edits + 1
    /\ \E kind \in {"malformed", "unreadable"} : file' = Doc(kind, file.holds, edits')
    /\ UNCHANGED <<store, legacy, backups, procVars, saver, history>>

Proc(p) ==
    \/ Load(p) \/ PreserveOnLoad(p) \/ ReadLegacy(p) \/ Loaded(p)
    \/ Save(p) \/ PreserveOnSave(p) \/ WriteTemp(p) \/ Replace(p)
    \/ Crash(p)

Next == (\E p \in Procs : Proc(p)) \/ UserBreaks

Spec == Init /\ [][Next]_vars

-----------------------------------------------------------------------------
(* Properties *)

Saves == Procs \cup {"old", "legacy"}
Docs  == [kind : {"missing", "whole", "malformed", "unreadable", "part"},
          holds : SUBSET Saves, edit : 0..edits]
Steps == {"load", "preserve", "migrate", "legacy", "loaded", "save", "preserve_save", "write",
          "write_legacy", "replace", "replace_legacy", "done", "refused", "crashed"}

\* Every variable has its type: no document names an edit that was not made yet.
TypeOK ==
    /\ store \in Stores
    /\ file \in Docs /\ legacy \in Docs /\ backups \subseteq Docs
    /\ temp \in [Procs -> Docs] /\ seen \in [Procs -> Docs]
    /\ pc \in [Procs -> Steps]
    /\ base \in [Procs -> SUBSET Saves] /\ known \in [Procs -> SUBSET Saves]
    /\ saver \subseteq Procs /\ edits \in 0..(MaxEdits + 1)
    /\ saved \subseteq Procs

\* Whatever fails or crashes in the middle of a save, the path never holds a part of
\* a document: a reader finds the old one, the new one, or none.
NeverTorn == file.kind # "part"

\* A file the user has left malformed or unreadable is where it was, or in a backup,
\* unless it appeared after the process that replaced it had last looked.
EditsPreserved ==
    \A e \in 1..edits :
        \/ e \in overwritten
        \/ \E d \in {file} \cup backups : d.edit = e

\* A save that was reported to have worked is in the file or in a backup, unless a
\* process replaced it that had made its own copy without it: it read the file before, or
\* its load could neither read the file nor move it aside, and went on with the defaults.
SavesSurvive ==
    \A s \in saved :
        \/ s \in overtaken
        \/ \E d \in {file} \cup backups : s \in d.holds

=============================================================================
