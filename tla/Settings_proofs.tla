-------------------------- MODULE Settings_proofs --------------------------
(***************************************************************************)
(* Proofs about Settings for any number of processes and of edits by hand: *)
(* the file is never torn, no edit made by hand is lost to a process that  *)
(* has seen it, and no reported save to one that has read it.              *)
(*                                                                         *)
(* The other half is about TuiTransfer, the transfer screen of the menus   *)
(* that edit these settings, and the cancellation it uses, for any number  *)
(* of callers, sockets, attempts and transfers.  First one session:        *)
(* TransferCancellation::request() leaves no tracked socket running.  Then *)
(* the screen: each of its steps is one of Cancellation or starts a new    *)
(* session, so what holds of a session holds of every transfer of the      *)
(* screen, and each is shown its own outcome.                              *)
(***************************************************************************)
EXTENDS Settings, TLAPS

CONSTANTS Callers, Sockets, MaxAttempts, MaxTransfers
VARIABLES requested, handles, call, swept, session, fresh, open, interrupted, used, attempt,
          tab, ui, confirm, shown, worker, started
Tui == INSTANCE TuiTransfer

\* What Cancellation and TuiTransfer assume of their constants.
TuiBounds == MaxAttempts \in Nat \ {0} /\ MaxTransfers \in Nat \ {0}

-----------------------------------------------------------------------------

\* Steps from which a process may still replace the file.
Bound == {"migrate", "legacy", "loaded", "save", "write", "write_legacy", "replace", "replace_legacy"}

\* What the backups hold.
Backed == UNION {d.holds : d \in backups}

\* A temporary file is complete before it is renamed, and says what its process has
\* in memory.
TempReady == \A p \in Procs : Replaces(p) => temp[p] = Saved(base[p] \cup Own(p))

\* What the path holds if nobody touched it by hand; a save appears in a document
\* when it is reported, not before.
PathSound ==
    /\ file.kind # "part"
    /\ file.kind = "missing" => file.holds = {}
    /\ file.kind \in {"missing", "whole"} => file.edit = 0

HoldsSaved ==
    /\ file.holds \cap Procs \subseteq saved
    /\ legacy.holds \cap Procs = {}
    /\ \A p \in Procs : base[p] \cap Procs \subseteq saved /\ known[p] \cap Procs \subseteq saved

\* A process that is going to replace the file has seen no edit that is still there:
\* it went on only after it had found none or moved the file away.
SeenGone ==
    \A p \in Procs :
        pc[p] \in {"migrate", "write", "write_legacy", "replace", "replace_legacy"}
            => seen[p].edit = 0 \/ seen[p].edit # file.edit

\* A reported save that a process has read is in its copy, in a backup, or was
\* already overtaken.
KnownKept ==
    /\ \A p \in Procs : pc[p] \in {"preserve", "migrate", "legacy"} => base[p] = {}
    /\ \A p \in Procs : pc[p] \in Bound =>
          known[p] \cap saved \subseteq base[p] \cup overtaken \cup Backed

Inv ==
    /\ TypeOK /\ TempReady /\ PathSound /\ HoldsSaved /\ SeenGone /\ KnownKept
    /\ EditsPreserved /\ SavesSurvive

-----------------------------------------------------------------------------
(* Reading the file.                                                       *)

\* What each result of a read says about the document.
LEMMA StatusMeans ==
    ASSUME NEW d \in Docs, NEW s \in Status(d)
    PROVE  /\ s \in {"missing", "loaded", "invalid", "unreadable"}
           /\ s = "missing" => d.kind = "missing"
           /\ s = "loaded"  => d.kind = "whole"
           /\ s = "invalid" => d.kind # "whole"
  BY DEF Docs, Status

\* Documents of the program's own have their type.
LEMMA OwnDocs ==
    ASSUME edits \in Nat
    PROVE  /\ Missing \in Docs /\ Part \in Docs
           /\ \A holds \in SUBSET Saves : Saved(holds) \in Docs
  BY DEF Docs, Missing, Part, Saved, Doc

\* The first process starts from a typed store with nothing to lose.
LEMMA InitInv == Init => Inv
  <1> SUFFICES ASSUME Init PROVE Inv
    OBVIOUS
  <1> USE ProcsAssumption DEF Init, Missing, Saved, Doc, Defaults
  <1>1. TypeOK
    <2>1. 0..edits \subseteq 0..(MaxEdits + 1) /\ {0, edits} \subseteq 0..edits
      BY SettingsAssumption
    <2>2. file \in Docs /\ legacy \in Docs
      BY <2>1 DEF Docs, Saves
    <2>3. Missing \in Docs
      BY <2>1, OwnDocs
    <2> QED BY <2>1, <2>2, <2>3 DEF TypeOK, Saves, Steps
  <1>2. TempReady /\ PathSound /\ SeenGone
    BY DEF TempReady, Replaces, PathSound, SeenGone
  <1>3. HoldsSaved /\ KnownKept /\ SavesSurvive
    BY DEF HoldsSaved, KnownKept, SavesSurvive
  <1>4. EditsPreserved
    <2>1. CASE edits = 0
      BY <2>1 DEF EditsPreserved
    <2>2. CASE edits = 1
      <3>1. file.edit = 1 /\ 1..edits = {1}
        BY <2>2
      <3> QED BY <3>1, Zenon DEF EditsPreserved
    <2> QED BY <2>1, <2>2
  <1> QED BY <1>1, <1>2, <1>3, <1>4 DEF Inv

-----------------------------------------------------------------------------
(* What the steps of a process do, in the terms the invariant speaks of.    *)

\* Load and Save read the file and take it from there.
LEMMA LoadReads ==
    ASSUME TypeOK, NEW p \in Procs, Load(p)
    PROVE  /\ pc[p] = "load"
           /\ seen' = [seen EXCEPT ![p] = file]
           /\ UNCHANGED <<store, file, legacy, backups, temp, saver, edits, saved, overtaken, overwritten>>
           /\ \/ /\ file.kind = "whole" /\ pc' = [pc EXCEPT ![p] = "loaded"]
                 /\ base' = [base EXCEPT ![p] = file.holds] /\ known' = [known EXCEPT ![p] = file.holds]
              \/ /\ file.kind = "missing" /\ pc' = [pc EXCEPT ![p] = "migrate"]
                 /\ base' = [base EXCEPT ![p] = {}] /\ known' = [known EXCEPT ![p] = file.holds]
              \/ /\ pc' = [pc EXCEPT ![p] = "preserve"]
                 /\ base' = [base EXCEPT ![p] = {}] /\ known' = [known EXCEPT ![p] = file.holds]
              \/ /\ pc' = [pc EXCEPT ![p] = "legacy"]
                 /\ base' = [base EXCEPT ![p] = {}] /\ known' = [known EXCEPT ![p] = {}]
  <1>0. /\ pc[p] = "load" /\ seen' = [seen EXCEPT ![p] = file]
        /\ UNCHANGED <<store, file, legacy, backups, temp, saver, edits, saved, overtaken, overwritten>>
    BY Zenon DEF Load, history
  <1>1. PICK s \in Status(file) :
          /\ TakeCopy(p, s)
          /\ Goto(p, CASE s = "loaded"     -> "loaded"
                       [] s = "missing"    -> "migrate"
                       [] s = "invalid"    -> "preserve"
                       [] s = "unreadable" -> "legacy")
    BY Zenon DEF Load
  <1>2. /\ s \in {"missing", "loaded", "invalid", "unreadable"}
        /\ s = "missing" => file.kind = "missing"
        /\ s = "loaded"  => file.kind = "whole"
    BY StatusMeans DEF TypeOK
  <1>3. CASE s = "loaded"
    BY <1>0, <1>1, <1>2, <1>3, Zenon DEF TakeCopy, Goto
  <1>4. CASE s = "missing"
    BY <1>0, <1>1, <1>2, <1>4, Zenon DEF TakeCopy, Goto, Defaults
  <1>5. CASE s = "invalid"
    BY <1>0, <1>1, <1>2, <1>5, Zenon DEF TakeCopy, Goto, Defaults
  <1>6. CASE s = "unreadable"
    BY <1>0, <1>1, <1>2, <1>6, Zenon DEF TakeCopy, Goto, Defaults
  <1> QED BY <1>2, <1>3, <1>4, <1>5, <1>6


\* The second read, of a save, in the same terms.
LEMMA SaveReads ==
    ASSUME TypeOK, NEW p \in Procs, Save(p)
    PROVE  /\ pc[p] = "save"
           /\ seen' = [seen EXCEPT ![p] = file]
           /\ UNCHANGED <<store, file, legacy, backups, temp, saver, edits, saved, overtaken, overwritten>>
           /\ \/ UNCHANGED <<base, known>>
              \/ /\ file.kind = "whole" => base' = [base EXCEPT ![p] = file.holds]
                 /\ file.kind # "whole" => base' = [base EXCEPT ![p] = {}]
                 /\ known' = [known EXCEPT ![p] = file.holds]
              \/ pc' = [pc EXCEPT ![p] = "refused"]
           /\ \/ file.kind \in {"missing", "whole"} /\ pc' = [pc EXCEPT ![p] = "write"]
              \/ pc' = [pc EXCEPT ![p] = "preserve_save"]
              \/ pc' = [pc EXCEPT ![p] = "refused"]
           /\ \E b \in {base[p], file.holds, {}} : base' = [base EXCEPT ![p] = b]
           /\ \E k \in {known[p], file.holds, {}} : known' = [known EXCEPT ![p] = k]
  <1>1. PICK s \in Status(file) :
          /\ IF store = "config" THEN UNCHANGED <<base, known>> ELSE TakeCopy(p, s)
          /\ Goto(p, CASE s \in {"loaded", "missing"} -> "write"
                       [] s = "invalid"    -> "preserve_save"
                       [] s = "unreadable" -> "refused")
    BY Zenon DEF Save
  <1>2. /\ s \in {"missing", "loaded", "invalid", "unreadable"}
        /\ s = "missing" => file.kind = "missing"
        /\ s = "loaded"  => file.kind = "whole"
        /\ s = "invalid" => file.kind # "whole"
    BY StatusMeans DEF TypeOK
  <1>3. /\ s \in {"loaded", "missing"} => pc' = [pc EXCEPT ![p] = "write"]
        /\ s = "invalid"    => pc' = [pc EXCEPT ![p] = "preserve_save"]
        /\ s = "unreadable" => pc' = [pc EXCEPT ![p] = "refused"]
    BY <1>1, Zenon DEF Goto
  <1>4. \/ UNCHANGED <<base, known>>
        \/ /\ base' = [base EXCEPT ![p] = IF s = "loaded" THEN file.holds ELSE {}]
           /\ known' = [known EXCEPT ![p] = IF s = "unreadable" THEN {} ELSE file.holds]
    BY <1>1 DEF TakeCopy, Defaults
  <1>5. /\ pc[p] = "save" /\ seen' = [seen EXCEPT ![p] = file]
        /\ UNCHANGED <<store, file, legacy, backups, temp, saver, edits, saved, overtaken, overwritten>>
    BY Zenon DEF Save, history
  <1> QED BY <1>2, <1>3, <1>4, <1>5 DEF TypeOK

-----------------------------------------------------------------------------
(* Every step keeps the invariant.                                         *)

\* A step of a process keeps the types.
LEMMA TypeStep == TypeOK /\ [Next]_vars => TypeOK'
  <1> SUFFICES ASSUME TypeOK, [Next]_vars PROVE TypeOK'
    OBVIOUS
  <1> USE DEF TypeOK
  <1>0. edits \in Nat /\ edits \in 0..(MaxEdits + 1)
    BY SettingsAssumption
  <1>1. CASE UNCHANGED vars
    BY <1>1 DEF vars, procVars, history, Docs
  <1>2. ASSUME edits' = edits PROVE Docs' = Docs
    BY <1>2 DEF Docs
  <1>3. ASSUME NEW p \in Procs, Proc(p) PROVE TypeOK'
    <2>0. edits' = edits /\ Docs' = Docs
      BY <1>2, <1>3 DEF Proc, Load, PreserveOnLoad, ReadLegacy, Loaded, Save, PreserveOnSave,
                        WriteTemp, Replace, Crash
    <2>1. CASE Load(p)
      <3>1. file.holds \in SUBSET Saves /\ {} \in SUBSET Saves
        BY DEF Docs
      <3>2. base' \in [Procs -> SUBSET Saves] /\ known' \in [Procs -> SUBSET Saves] /\ pc' \in [Procs -> Steps]
        BY <2>1, <3>1, LoadReads DEF Steps
      <3> QED BY <2>0, <2>1, <3>2, LoadReads
    <2>2. CASE PreserveOnLoad(p)
      BY <2>0, <2>2, <1>0, OwnDocs DEF PreserveOnLoad, move_file_to_recovery_backup, Goto, history, Steps
    <2>3. CASE ReadLegacy(p)
      BY <2>0, <2>3 DEF ReadLegacy, Goto, history, Steps, Docs
    <2>4. CASE Loaded(p)
      BY <2>0, <2>4 DEF Loaded, Goto, history, Steps
    <2>5. CASE Save(p)
      <3>1. file.holds \in SUBSET Saves /\ {} \in SUBSET Saves
        BY DEF Docs
      <3>2. base' \in [Procs -> SUBSET Saves] /\ known' \in [Procs -> SUBSET Saves] /\ pc' \in [Procs -> Steps]
        BY <2>5, <3>1, SaveReads DEF Steps
      <3> QED BY <2>0, <2>5, <3>2, SaveReads
    <2>6. CASE PreserveOnSave(p)
      BY <2>0, <2>6, <1>0, OwnDocs DEF PreserveOnSave, move_file_to_recovery_backup, Goto, history, Steps
    <2>7. CASE WriteTemp(p)
      <3>1. Saved(base[p] \cup Own(p)) \in Docs
        BY <1>0, OwnDocs DEF Own, Saves
      <3> QED BY <2>0, <2>7, <1>0, OwnDocs, <3>1 DEF WriteTemp, WriteFails, Goto, history, Steps
    <2>8. CASE Replace(p)
      BY <2>0, <2>8, <1>0, OwnDocs DEF Replace, WriteFails, Goto, Steps, Own
    <2>9. CASE Crash(p)
      BY <2>0, <2>9 DEF Crash, Goto, history, Steps
    <2> QED BY <1>3, <2>1, <2>2, <2>3, <2>4, <2>5, <2>6, <2>7, <2>8, <2>9 DEF Proc
  <1>4. CASE UserBreaks
    <2>1. edits' \in 0..(MaxEdits + 1) /\ edits' \in Nat /\ edits <= edits'
      BY <1>0, <1>4, SettingsAssumption DEF UserBreaks
    <2>2. Docs \subseteq Docs'
      BY <2>1, <1>0 DEF Docs
    <2>3. file' \in Docs'
      BY <2>1, <1>4 DEF UserBreaks, Doc, Docs
    <2> QED BY <1>4, <2>1, <2>2, <2>3 DEF UserBreaks, procVars, history
  <1> QED BY <1>1, <1>3, <1>4 DEF Next


\* No step leaves a process about to rename a file that is not complete.
LEMMA TempStep ==
    ASSUME Inv, TypeOK', NEW p \in Procs, Proc(p)
    PROVE  TempReady'
  <1> USE DEF Inv, TypeOK, TempReady, Replaces, Writes, Own, Migrating, Saved, Doc, Missing
  <1>1. CASE Load(p)
    BY <1>1, LoadReads
  <1>2. CASE PreserveOnLoad(p)
    BY <1>2 DEF PreserveOnLoad, move_file_to_recovery_backup, Goto, history
  <1>3. CASE ReadLegacy(p)
    BY <1>3 DEF ReadLegacy, Goto, history
  <1>4. CASE Loaded(p)
    BY <1>4 DEF Loaded, Goto, history
  <1>5. CASE Save(p)
    BY <1>5, SaveReads
  <1>6. CASE PreserveOnSave(p)
    BY <1>6 DEF PreserveOnSave, move_file_to_recovery_backup, Goto, history
  <1>7. CASE WriteTemp(p)
    BY <1>7 DEF WriteTemp, WriteFails, Goto, history
  <1>8. CASE Replace(p)
    BY <1>8 DEF Replace, WriteFails, Goto
  <1>9. CASE Crash(p)
    BY <1>9 DEF Crash, Goto, history
  <1> QED BY <1>1, <1>2, <1>3, <1>4, <1>5, <1>6, <1>7, <1>8, <1>9 DEF Proc

\* No step leaves a part of a document at the path.
LEMMA PathStep ==
    ASSUME Inv, TypeOK', NEW p \in Procs, Proc(p)
    PROVE  PathSound'
  <1> USE DEF Inv, TypeOK, PathSound, TempReady, Replaces, Own, Saved, Doc, Missing
  <1>1. CASE Load(p)
    BY <1>1, LoadReads
  <1>2. CASE PreserveOnLoad(p)
    BY <1>2 DEF PreserveOnLoad, move_file_to_recovery_backup, Goto, history
  <1>3. CASE ReadLegacy(p)
    BY <1>3 DEF ReadLegacy, Goto, history
  <1>4. CASE Loaded(p)
    BY <1>4 DEF Loaded, Goto, history
  <1>5. CASE Save(p)
    BY <1>5, SaveReads
  <1>6. CASE PreserveOnSave(p)
    BY <1>6 DEF PreserveOnSave, move_file_to_recovery_backup, Goto, history
  <1>7. CASE WriteTemp(p)
    BY <1>7 DEF WriteTemp, WriteFails, Goto, history
  <1>8. CASE Replace(p)
    BY <1>8 DEF Replace, WriteFails, Goto
  <1>9. CASE Crash(p)
    BY <1>9 DEF Crash, Goto, history
  <1> QED BY <1>1, <1>2, <1>3, <1>4, <1>5, <1>6, <1>7, <1>8, <1>9 DEF Proc

\* No step puts a save into a document before it is reported.
LEMMA HoldsStep ==
    ASSUME Inv, TypeOK', NEW p \in Procs, Proc(p)
    PROVE  HoldsSaved'
  <1> USE DEF Inv, TypeOK, HoldsSaved, TempReady, Replaces, Own, Migrating, Saved, Doc, Missing
  <1>1. CASE Load(p)
    BY <1>1, LoadReads
  <1>2. CASE PreserveOnLoad(p)
    BY <1>2 DEF PreserveOnLoad, move_file_to_recovery_backup, Goto, history
  <1>3. CASE ReadLegacy(p)
    BY <1>3 DEF ReadLegacy, Goto, history
  <1>4. CASE Loaded(p)
    BY <1>4 DEF Loaded, Goto, history
  <1>5. CASE Save(p)
    BY <1>5, SaveReads
  <1>6. CASE PreserveOnSave(p)
    BY <1>6 DEF PreserveOnSave, move_file_to_recovery_backup, Goto, history
  <1>7. CASE WriteTemp(p)
    BY <1>7 DEF WriteTemp, WriteFails, Goto, history
  <1>8. CASE Replace(p)
    BY <1>8, ProcsAssumption DEF Replace, WriteFails, Goto
  <1>9. CASE Crash(p)
    BY <1>9 DEF Crash, Goto, history
  <1> QED BY <1>1, <1>2, <1>3, <1>4, <1>5, <1>6, <1>7, <1>8, <1>9 DEF Proc

\* No step lets a process go on over an edit it has seen.
LEMMA SeenStep ==
    ASSUME Inv, TypeOK', NEW p \in Procs, Proc(p)
    PROVE  SeenGone'
  <1> USE DEF Inv, TypeOK, SeenGone, PathSound, TempReady, Replaces, Writes, Migrating, Saved, Doc, Missing
  <1>1. CASE Load(p)
    BY <1>1, LoadReads
  <1>2. CASE PreserveOnLoad(p)
    BY <1>2 DEF PreserveOnLoad, move_file_to_recovery_backup, Goto, history
  <1>3. CASE ReadLegacy(p)
    BY <1>3 DEF ReadLegacy, Goto, history
  <1>4. CASE Loaded(p)
    BY <1>4 DEF Loaded, Goto, history
  <1>5. CASE Save(p)
    BY <1>5, SaveReads
  <1>6. CASE PreserveOnSave(p)
    BY <1>6 DEF PreserveOnSave, move_file_to_recovery_backup, Goto, history
  <1>7. CASE WriteTemp(p)
    BY <1>7 DEF WriteTemp, WriteFails, Goto, history
  <1>8. CASE Replace(p)
    BY <1>8 DEF Replace, WriteFails, Goto
  <1>9. CASE Crash(p)
    BY <1>9 DEF Crash, Goto, history
  <1> QED BY <1>1, <1>2, <1>3, <1>4, <1>5, <1>6, <1>7, <1>8, <1>9 DEF Proc


\* A step that takes an edit away from the path keeps it in a backup, or came too late to see it.
LEMMA EditsStep ==
    ASSUME Inv, TypeOK', NEW p \in Procs, Proc(p)
    PROVE  EditsPreserved'
  <1> USE DEF Inv, TypeOK, EditsPreserved, SeenGone, PathSound, TempReady, Replaces
  <1>1. CASE Load(p)
    BY <1>1, LoadReads
  <1>2. CASE PreserveOnLoad(p)
    BY <1>2 DEF PreserveOnLoad, move_file_to_recovery_backup, Goto, history
  <1>3. CASE ReadLegacy(p)
    BY <1>3 DEF ReadLegacy, Goto, history
  <1>4. CASE Loaded(p)
    BY <1>4 DEF Loaded, Goto, history
  <1>5. CASE Save(p)
    BY <1>5, SaveReads
  <1>6. CASE PreserveOnSave(p)
    BY <1>6 DEF PreserveOnSave, move_file_to_recovery_backup, Goto, history
  <1>7. CASE WriteTemp(p)
    BY <1>7 DEF WriteTemp, WriteFails, Goto, history
  <1>8. CASE Replace(p)
    BY <1>8 DEF Replace, WriteFails, Goto
  <1>9. CASE Crash(p)
    BY <1>9 DEF Crash, Goto, history
  <1> QED BY <1>1, <1>2, <1>3, <1>4, <1>5, <1>6, <1>7, <1>8, <1>9 DEF Proc

\* A step that takes a save away from the path keeps it in a backup or counts it as overtaken.
LEMMA SavesStep ==
    ASSUME Inv, TypeOK', NEW p \in Procs, Proc(p)
    PROVE  SavesSurvive'
  <1> USE DEF Inv, TypeOK, SavesSurvive, KnownKept, TempReady, Replaces, Backed, Bound, Own, Saved, Doc
  <1>1. CASE Load(p)
    BY <1>1, LoadReads
  <1>2. CASE PreserveOnLoad(p)
    BY <1>2 DEF PreserveOnLoad, move_file_to_recovery_backup, Goto, history
  <1>3. CASE ReadLegacy(p)
    BY <1>3 DEF ReadLegacy, Goto, history
  <1>4. CASE Loaded(p)
    BY <1>4 DEF Loaded, Goto, history
  <1>5. CASE Save(p)
    BY <1>5, SaveReads
  <1>6. CASE PreserveOnSave(p)
    BY <1>6 DEF PreserveOnSave, move_file_to_recovery_backup, Goto, history
  <1>7. CASE WriteTemp(p)
    BY <1>7 DEF WriteTemp, WriteFails, Goto, history
  <1>8. CASE Replace(p)
    BY <1>8 DEF Replace, WriteFails, Goto
  <1>9. CASE Crash(p)
    BY <1>9 DEF Crash, Goto, history
  <1> QED BY <1>1, <1>2, <1>3, <1>4, <1>5, <1>6, <1>7, <1>8, <1>9 DEF Proc

\* A process that will replace the file has what it read in memory, or it is in a backup.
LEMMA KnownStep ==
    ASSUME Inv, TypeOK', NEW p \in Procs, Proc(p)
    PROVE  KnownKept'
  <1> USE DEF Inv, TypeOK, KnownKept, SavesSurvive, HoldsSaved, TempReady, PathSound, Replaces, Writes, Migrating, Backed, Bound, Own, Saved, Doc
  <1>1. CASE Load(p)
    BY <1>1, LoadReads
  <1>2. CASE PreserveOnLoad(p)
    BY <1>2 DEF PreserveOnLoad, move_file_to_recovery_backup, Goto, history
  <1>3. CASE ReadLegacy(p)
    BY <1>3 DEF ReadLegacy, Goto, history
  <1>4. CASE Loaded(p)
    BY <1>4 DEF Loaded, Goto, history
  <1>5. CASE Save(p)
    BY <1>5, SaveReads
  <1>6. CASE PreserveOnSave(p)
    BY <1>6 DEF PreserveOnSave, move_file_to_recovery_backup, Goto, history
  <1>7. CASE WriteTemp(p)
    BY <1>7 DEF WriteTemp, WriteFails, Goto, history
  <1>8. CASE Replace(p)
    BY <1>8 DEF Replace, WriteFails, Goto
  <1>9. CASE Crash(p)
    BY <1>9 DEF Crash, Goto, history
  <1> QED BY <1>1, <1>2, <1>3, <1>4, <1>5, <1>6, <1>7, <1>8, <1>9 DEF Proc


\* The user's own edits break nothing.
LEMMA UserStep ==
    ASSUME Inv, TypeOK', UserBreaks
    PROVE  Inv'
  <1> USE DEF Inv
  <1>1. /\ edits \in Nat /\ edits' = edits + 1
        /\ file'.edit = edits' /\ file'.holds = file.holds /\ file'.kind \in {"malformed", "unreadable"}
        /\ UNCHANGED <<legacy, backups, temp, pc, base, known, seen, saved, overtaken, overwritten>>
    BY SettingsAssumption DEF TypeOK, UserBreaks, Doc, procVars, history
  <1>2. TempReady' /\ PathSound' /\ HoldsSaved' /\ KnownKept'
    BY <1>1 DEF TempReady, Replaces, Own, Migrating, PathSound, HoldsSaved, KnownKept, Backed
  <1>3. SeenGone'
    <2>1. \A p \in Procs : seen[p].edit \in Nat /\ seen[p].edit <= edits
      BY <1>1 DEF TypeOK, Docs
    <2> QED BY <1>1, <2>1 DEF SeenGone
  <1>4. EditsPreserved'
    <2>1. PathSound /\ file.kind \in {"missing", "whole"} /\ file.edit = 0
      BY DEF UserBreaks, PathSound
    <2> QED BY <1>1, <2>1 DEF EditsPreserved
  <1>5. SavesSurvive'
    BY <1>1 DEF SavesSurvive
  <1> QED BY <1>2, <1>3, <1>4, <1>5

\* Every step of a process or of the user keeps the invariant.
LEMMA NextInv == Inv /\ [Next]_vars => Inv'
  <1> SUFFICES ASSUME Inv, [Next]_vars PROVE Inv'
    OBVIOUS
  <1>1. TypeOK'
    BY TypeStep DEF Inv
  <1>2. CASE UNCHANGED vars
    BY <1>1, <1>2 DEF vars, procVars, history, Inv, TempReady, Replaces, Own, Migrating, PathSound,
                      HoldsSaved, SeenGone, KnownKept, Backed, EditsPreserved, SavesSurvive
  <1>3. ASSUME NEW p \in Procs, Proc(p) PROVE Inv'
    BY <1>1, <1>3, TempStep, PathStep, HoldsStep, SeenStep, KnownStep, EditsStep, SavesStep DEF Inv
  <1>4. CASE UserBreaks
    BY <1>1, <1>4, UserStep
  <1> QED BY <1>2, <1>3, <1>4 DEF Next

-----------------------------------------------------------------------------
(* What follows from it.                                                   *)

\* The invariant holds in every reachable state.
LEMMA Always == Spec => []Inv
  BY InitInv, NextInv, PTL DEF Spec

\* Every variable has its type, for any number of processes and edits.
THEOREM TypeCorrect == Spec => []TypeOK
  <1>1. Inv => TypeOK
    BY DEF Inv
  <1> QED BY <1>1, Always, PTL

\* Whatever fails or crashes in the middle of atomic_write_text_file, the path never
\* holds a part of a document.
THEOREM PathNeverTorn == Spec => []NeverTorn
  <1>1. Inv => NeverTorn
    BY DEF Inv, PathSound, NeverTorn
  <1> QED BY <1>1, Always, PTL

\* A malformed file is never replaced by a process that has looked at it, only moved
\* to a backup.
THEOREM EditsKept == Spec => []EditsPreserved
  <1>1. Inv => EditsPreserved
    BY DEF Inv
  <1> QED BY <1>1, Always, PTL

\* A reported save is lost only to a process whose copy was made without it.
THEOREM SavesKept == Spec => []SavesSurvive
  <1>1. Inv => SavesSurvive
    BY DEF Inv
  <1> QED BY <1>1, Always, PTL

-----------------------------------------------------------------------------
(* One cancellable session.                                                *)

\* Where the handle of a socket that still runs can be: in the list, or in the
\* hands of a call that swapped it out.
HandleHeld ==
    \A s \in open \ interrupted : s \in handles \/ \E c \in Callers : s \in swept[c]

\* A list that is not empty after the flag was stored has a call coming for it,
\* and only a call that interrupts holds handles.
ListAwaited ==
    /\ requested /\ handles # {} => \E c \in Callers : call[c] = "swap"
    /\ \A c \in Callers : swept[c] # {} => call[c] = "interrupt"

SessionInv == TuiBounds /\ Tui!TypeOK /\ HandleHeld /\ ListAwaited

\* Before anything happens no handle is kept and no call of request() is under way.
LEMMA SessionInitInv == TuiBounds /\ Tui!Init => SessionInv
  <1> SUFFICES ASSUME TuiBounds, Tui!Init PROVE SessionInv
    OBVIOUS
  <1>1. attempt \in 1..MaxAttempts
    BY DEF Tui!Init, TuiBounds
  <1>2. Tui!TypeOK
    BY <1>1, Zenon DEF Tui!Init, Tui!TypeOK, Tui!Over
  <1>3. HandleHeld /\ ListAwaited
    BY DEF Tui!Init, HandleHeld, ListAwaited
  <1> QED BY <1>2, <1>3 DEF SessionInv

\* A step of request() keeps the invariant.
LEMMA RequestInv ==
    ASSUME SessionInv, NEW c \in Callers, Tui!RequestStep(c)
    PROVE  SessionInv'
  <1>1. CASE Tui!Request(c)
    BY <1>1 DEF SessionInv, Tui!TypeOK, HandleHeld, ListAwaited, Tui!Request, Tui!thread, Tui!Over
  <1>2. CASE Tui!Swap(c)
    <2>1. Tui!TypeOK'
      BY <1>2 DEF SessionInv, Tui!TypeOK, Tui!Swap, Tui!thread, Tui!Over
    <2>2. HandleHeld'
      BY <1>2 DEF SessionInv, Tui!TypeOK, HandleHeld, ListAwaited, Tui!Swap, Tui!thread
    <2>3. ListAwaited'
      BY <1>2 DEF SessionInv, Tui!TypeOK, ListAwaited, Tui!Swap, Tui!thread
    <2> QED BY <2>1, <2>2, <2>3 DEF SessionInv
  <1>3. CASE Tui!Interrupt(c)
    <2>1. PICK s \in swept[c] :
            /\ interrupted' = interrupted \cup ({s} \cap open)
            /\ swept' = [swept EXCEPT ![c] = @ \ {s}]
      BY <1>3 DEF Tui!Interrupt
    <2>2. Tui!TypeOK'
      BY <1>3, <2>1 DEF SessionInv, Tui!TypeOK, Tui!Interrupt, Tui!thread, Tui!Over
    <2>3. HandleHeld'
      BY <1>3, <2>1 DEF SessionInv, Tui!TypeOK, HandleHeld, Tui!Interrupt, Tui!thread
    <2>4. ListAwaited'
      BY <1>3, <2>1 DEF SessionInv, Tui!TypeOK, ListAwaited, Tui!Interrupt, Tui!thread
    <2> QED BY <2>2, <2>3, <2>4 DEF SessionInv
  <1>4. CASE Tui!Returns(c)
    <2>1. Tui!TypeOK' /\ HandleHeld'
      BY <1>4 DEF SessionInv, Tui!TypeOK, HandleHeld, Tui!Returns, Tui!thread, Tui!Over
    <2>2. ListAwaited'
      BY <1>4 DEF SessionInv, Tui!TypeOK, ListAwaited, Tui!Returns, Tui!thread
    <2> QED BY <2>1, <2>2 DEF SessionInv
  <1> QED BY <1>1, <1>2, <1>3, <1>4 DEF Tui!RequestStep

\* A step of the session thread keeps the invariant; only track() adds a socket.
LEMMA SessionStepInv ==
    ASSUME SessionInv, Tui!SessionStep
    PROVE  SessionInv'
  <1> USE DEF TuiBounds
  <1>1. CASE Tui!track
    <2>1. Tui!TypeOK'
      BY <1>1 DEF SessionInv, Tui!TypeOK, Tui!track, Tui!Over
    <2>2. HandleHeld'
      BY <1>1 DEF SessionInv, Tui!TypeOK, HandleHeld, Tui!track
    <2>3. ListAwaited'
      BY <1>1 DEF SessionInv, Tui!TypeOK, ListAwaited, Tui!track
    <2> QED BY <2>1, <2>2, <2>3 DEF SessionInv
  <1>2. CASE Tui!Proceed \/ Tui!RecordSuccess
    BY <1>2 DEF SessionInv, Tui!TypeOK, HandleHeld, ListAwaited, Tui!Proceed, Tui!RecordSuccess,
                Tui!cancel, Tui!Over
  <1>3. CASE Tui!Handle
    BY <1>3 DEF SessionInv, Tui!TypeOK, HandleHeld, ListAwaited, Tui!Handle, Tui!cancel, Tui!Over
  <1>4. CASE Tui!Connect
    BY <1>4 DEF SessionInv, Tui!TypeOK, HandleHeld, ListAwaited, Tui!Connect, Tui!cancel, Tui!Over
  <1>5. CASE Tui!Check \/ Tui!ConnectFails \/ Tui!PeerLeaves \/ Tui!Woken \/ Tui!Delay
    BY <1>5 DEF SessionInv, Tui!TypeOK, HandleHeld, ListAwaited, Tui!Check, Tui!ConnectFails,
                Tui!PeerLeaves, Tui!Woken,
                Tui!Delay, Tui!cancel, Tui!Over
  <1> QED BY <1>1, <1>2, <1>3, <1>4, <1>5 DEF Tui!SessionStep

\* Every step of request(), of track() and of the session thread keeps the invariant.
LEMMA SessionNextInv == SessionInv /\ [Tui!Next]_(Tui!vars) => SessionInv'
  <1> SUFFICES ASSUME SessionInv, [Tui!Next]_(Tui!vars) PROVE SessionInv'
    OBVIOUS
  <1>1. CASE UNCHANGED Tui!vars
    BY <1>1 DEF Tui!vars, Tui!cancel, Tui!thread, SessionInv, Tui!TypeOK, HandleHeld, ListAwaited
  <1>2. CASE Tui!Next
    BY <1>2, SessionStepInv, RequestInv DEF Tui!Next
  <1> QED BY <1>1, <1>2

\* The types of the cancellation's and the session's state.
THEOREM SessionTypeCorrect == TuiBounds /\ Tui!Spec => []Tui!TypeOK
  <1>1. SessionInv => Tui!TypeOK
    BY DEF SessionInv
  <1> QED BY <1>1, SessionInitInv, SessionNextInv, PTL DEF Tui!Spec

\* When the flag is set and no call of request() is at work, no handle is left
\* anywhere, so every tracked open socket was interrupted.
THEOREM CancellationComplete == TuiBounds /\ Tui!Spec => []Tui!NothingSurvives
  <1>1. SessionInv => Tui!NothingSurvives
    <2> SUFFICES ASSUME SessionInv, requested, \A c \in Callers : call[c] \in {"idle", "returned"}
                 PROVE  open \subseteq interrupted
      BY DEF Tui!NothingSurvives
    <2>1. \A c \in Callers : swept[c] = {}
      BY DEF SessionInv, ListAwaited
    <2>2. handles = {}
      BY DEF SessionInv, ListAwaited
    <2> QED BY <2>1, <2>2 DEF SessionInv, HandleHeld
  <1> QED BY <1>1, SessionInitInv, SessionNextInv, PTL DEF Tui!Spec

-----------------------------------------------------------------------------
(* The transfer screen.                                                    *)

\* The flag is only set by the user's own calls, and only it makes a session end
\* as canceled.
FlagIsOwn ==
    /\ requested => \E c \in Callers : call[c] # "idle"
    /\ session = "canceled" => requested

\* What a worker has shown so far, and when it ends: a completion shows from its
\* report until the task returns, throws for good or retries.
WorkerShows ==
    /\ worker = "ended" => session \in Tui!Over
    /\ worker = "task" =>
          /\ shown \in {"running", "finished"}
          /\ session \in {"check", "connect", "track", "use", "delay"} => shown = "running"
          /\ session \in {"complete", "done"} => shown = "finished"

TuiInv == SessionInv /\ FlagIsOwn /\ WorkerShows /\ Tui!OutcomeIsItsOwn

\* At the start nothing runs and nothing is shown.
LEMMA TuiInitInv == TuiBounds /\ Tui!TuiInit => TuiInv
  <1> SUFFICES ASSUME TuiBounds, Tui!TuiInit PROVE TuiInv
    OBVIOUS
  <1>1. SessionInv
    BY SessionInitInv DEF Tui!TuiInit
  <1>2. FlagIsOwn /\ WorkerShows /\ Tui!OutcomeIsItsOwn
    BY DEF Tui!TuiInit, Tui!Init, FlagIsOwn, WorkerShows, Tui!OutcomeIsItsOwn
  <1> QED BY <1>1, <1>2 DEF TuiInv

\* A new transfer starts as a new session.
LEMMA StartInv ==
    ASSUME TuiBounds, Tui!StartWorker
    PROVE  TuiInv'
  <1>1. Tui!TypeOK'
    <2>1. 1 \in 1..MaxAttempts
      BY DEF TuiBounds
    <2> QED BY <2>1, Zenon DEF Tui!StartWorker, Tui!NewCancellation, Tui!TypeOK, Tui!Over
  <1>2. HandleHeld' /\ ListAwaited'
    BY DEF Tui!StartWorker, Tui!NewCancellation, HandleHeld, ListAwaited
  <1>3. FlagIsOwn' /\ WorkerShows' /\ Tui!OutcomeIsItsOwn'
    BY DEF Tui!StartWorker, Tui!NewCancellation, FlagIsOwn, WorkerShows, Tui!OutcomeIsItsOwn
  <1> QED BY <1>1, <1>2, <1>3 DEF TuiInv, SessionInv

\* A step of the session under its worker.
LEMMA WorkInv ==
    ASSUME TuiInv, Tui!Work
    PROVE  TuiInv'
  <1>1. SessionInv'
    BY SessionStepInv DEF TuiInv, Tui!Work
  <1>2. call' = call /\ requested' = requested /\ worker = "task" /\ worker' = "task"
    BY DEF Tui!Work, Tui!SessionStep, Tui!Check, Tui!Connect, Tui!ConnectFails, Tui!track, Tui!Proceed,
           Tui!RecordSuccess, Tui!PeerLeaves, Tui!Woken, Tui!Handle, Tui!Delay, Tui!cancel
  <1>3. session' = "canceled" => requested
    BY DEF Tui!Work, Tui!SessionStep, Tui!Check, Tui!Connect, Tui!ConnectFails, Tui!track, Tui!Proceed,
           Tui!RecordSuccess, Tui!PeerLeaves, Tui!Woken, Tui!Handle, Tui!Delay
  <1>4. /\ session' \in {"check", "connect", "track", "use"} =>
              session \in {"check", "connect", "track", "use", "delay"}
        /\ session' = "done" => session = "complete"
    BY DEF Tui!Work, Tui!SessionStep, Tui!Check, Tui!Connect, Tui!ConnectFails, Tui!track, Tui!Proceed,
           Tui!RecordSuccess, Tui!PeerLeaves, Tui!Woken, Tui!Handle, Tui!Delay
  <1>5. /\ session' = "complete" => shown' = "finished"
        /\ session' = "delay" => shown' = "running"
        /\ session' \notin {"complete", "delay"} => shown' = shown
    <2>1. shown' = CASE session' = "complete" -> "finished"
                     [] session' = "delay"    -> "running"
                     [] OTHER                 -> shown
      BY Zenon DEF Tui!Work
    <2>2. (session' = "complete") => ~(session' = "delay")
      OBVIOUS
    <2> QED BY <2>1, <2>2, Zenon
  <1>6. FlagIsOwn'
    BY <1>2, <1>3 DEF TuiInv, FlagIsOwn
  <1>7. WorkerShows'
    BY <1>2, <1>4, <1>5 DEF TuiInv, WorkerShows
  <1>8. Tui!OutcomeIsItsOwn'
    BY <1>1, <1>2, <1>7 DEF SessionInv, Tui!TypeOK, WorkerShows, Tui!OutcomeIsItsOwn
  <1> QED BY <1>1, <1>6, <1>7, <1>8 DEF TuiInv

\* The end of the worker.
LEMMA TaskEndsInv ==
    ASSUME TuiInv, Tui!TaskEnds
    PROVE  TuiInv'
  <1>1. SessionInv' /\ FlagIsOwn'
    BY DEF TuiInv, Tui!TaskEnds, Tui!vars, Tui!cancel, Tui!thread, SessionInv, Tui!TypeOK,
           HandleHeld, ListAwaited, FlagIsOwn
  <1>2. session' = session /\ call' = call /\ worker' = "ended" /\ session \in Tui!Over
    BY DEF Tui!TaskEnds, Tui!vars, Tui!cancel, Tui!thread
  <1>3. CASE session = "done"
    BY <1>1, <1>2, <1>3 DEF TuiInv, Tui!TaskEnds, Tui!Outcome, WorkerShows, Tui!OutcomeIsItsOwn
  <1>4. CASE session # "done" /\ requested
    <2>1. shown' = "canceled"
      BY <1>4 DEF Tui!TaskEnds, Tui!Outcome
    <2>2. session \in {"canceled", "failed"} /\ \E c \in Callers : call[c] # "idle"
      BY <1>2, <1>4 DEF Tui!Over, TuiInv, FlagIsOwn
    <2> QED BY <1>1, <1>2, <2>1, <2>2 DEF TuiInv, WorkerShows, Tui!OutcomeIsItsOwn
  <1>5. CASE session # "done" /\ ~requested
    <2>1. shown' = "failed" /\ session = "failed"
      BY <1>2, <1>5 DEF Tui!TaskEnds, Tui!Outcome, TuiInv, FlagIsOwn, Tui!Over
    <2> QED BY <1>1, <1>2, <2>1 DEF TuiInv, WorkerShows, Tui!OutcomeIsItsOwn
  <1> QED BY <1>3, <1>4, <1>5

\* A step of request() on the interface thread.
LEMMA RequestingInv ==
    ASSUME TuiInv, NEW c \in Callers, Tui!RequestStep(c), UNCHANGED <<shown, worker>>
    PROVE  TuiInv'
  <1>1. SessionInv'
    BY RequestInv DEF TuiInv
  <1>2. session' = session
    BY DEF Tui!RequestStep, Tui!Request, Tui!Swap, Tui!Interrupt, Tui!Returns, Tui!thread
  <1>3. (\E d \in Callers : call'[d] # "idle")
    BY DEF Tui!RequestStep, Tui!Request, Tui!Swap, Tui!Interrupt, Tui!Returns, TuiInv, SessionInv,
           Tui!TypeOK
  <1>4. requested => requested'
    BY DEF Tui!RequestStep, Tui!Request, Tui!Swap, Tui!Interrupt, Tui!Returns
  <1> QED BY <1>1, <1>2, <1>3, <1>4 DEF TuiInv, FlagIsOwn, WorkerShows, Tui!OutcomeIsItsOwn

\* The interface steps that leave the session alone.
LEMMA QuietInv ==
    ASSUME TuiInv, UNCHANGED Tui!vars,
           \/ UNCHANGED <<shown, worker>>
           \/ worker # "task" /\ worker' = "none" /\ shown' \in {shown, "running"}
    PROVE  TuiInv'
  <1>1. SessionInv' /\ FlagIsOwn'
    BY DEF TuiInv, Tui!vars, Tui!cancel, Tui!thread, SessionInv, Tui!TypeOK, HandleHeld,
           ListAwaited, FlagIsOwn
  <1>2. session' = session /\ call' = call
    BY DEF Tui!vars, Tui!cancel, Tui!thread
  <1> QED BY <1>1, <1>2 DEF TuiInv, WorkerShows, Tui!OutcomeIsItsOwn

\* Every step of the screen keeps the invariant.
LEMMA TuiNextInv == TuiInv /\ [Tui!TuiNext]_(Tui!tui_vars) => TuiInv'
  <1> SUFFICES ASSUME TuiInv, [Tui!TuiNext]_(Tui!tui_vars) PROVE TuiInv'
    OBVIOUS
  <1>0. TuiBounds
    BY DEF TuiInv, SessionInv
  <1>1. CASE UNCHANGED Tui!tui_vars
    BY <1>1, QuietInv DEF Tui!tui_vars, Tui!screen
  <1>2. CASE Tui!Work
    BY <1>2, WorkInv
  <1>3. CASE Tui!TaskEnds
    BY <1>3, TaskEndsInv
  <1>4. CASE Tui!UserEvent
    <2>1. CASE Tui!Start
      BY <1>0, <2>1, StartInv DEF Tui!Start
    <2>2. CASE Tui!AskQuit \/ Tui!ConfirmQuit \/ Tui!LeaveMenu \/ \E button \in {"again", "menu", "quit"} : Tui!Press(button)
      BY <2>2, QuietInv DEF Tui!AskQuit, Tui!ConfirmQuit, Tui!LeaveMenu, Tui!Press
    <2> QED BY <1>4, <2>1, <2>2 DEF Tui!UserEvent
  <1>5. CASE Tui!Cancel
    <2>1. CASE UNCHANGED Tui!vars
      BY <1>5, <2>1, QuietInv DEF Tui!Cancel
    <2>2. CASE \E c \in Callers : Tui!Request(c)
      BY <1>5, <2>2, RequestingInv DEF Tui!Cancel, Tui!RequestStep
    <2> QED BY <1>5, <2>1, <2>2 DEF Tui!Cancel
  <1>6. CASE Tui!Requesting
    BY <1>6, RequestingInv DEF Tui!Requesting, Tui!RequestStep, Tui!screen
  <1>7. CASE Tui!Repeat
    BY <1>0, <1>7, StartInv, QuietInv DEF Tui!Repeat, Tui!Joined
  <1>8. CASE Tui!ReturnToMenu \/ Tui!Leave
    BY <1>8, QuietInv DEF Tui!ReturnToMenu, Tui!Leave, Tui!Joined
  <1> QED BY <1>1, <1>2, <1>3, <1>4, <1>5, <1>6, <1>7, <1>8 DEF Tui!TuiNext

\* Every step of the screen keeps its own variables within their types.
LEMMA ScreenTyped ==
    ASSUME TuiBounds, Tui!TuiTypeOK, Tui!TypeOK', [Tui!TuiNext]_(Tui!tui_vars)
    PROVE  Tui!TuiTypeOK'
  <1> USE DEF Tui!TuiTypeOK
  <1>1. CASE UNCHANGED Tui!tui_vars
    BY <1>1 DEF Tui!tui_vars, Tui!screen
  <1>2. CASE Tui!Work
    BY <1>2 DEF Tui!Work
  <1>3. CASE Tui!TaskEnds
    BY <1>3 DEF Tui!TaskEnds, Tui!Outcome
  <1>4. ASSUME Tui!StartWorker, ui' \in {"idle", ui} PROVE Tui!TuiTypeOK'
    <2>1. started' \in 0..MaxTransfers
      BY <1>4 DEF Tui!StartWorker, TuiBounds
    <2> QED BY <1>4, <2>1, Zenon DEF Tui!StartWorker
  <1>5. CASE Tui!UserEvent
    <2>1. CASE Tui!Start
      BY <2>1, <1>4 DEF Tui!Start
    <2>2. CASE Tui!AskQuit \/ Tui!ConfirmQuit \/ Tui!LeaveMenu
      BY <2>2 DEF Tui!AskQuit, Tui!ConfirmQuit, Tui!LeaveMenu
    <2>3. CASE \E button \in {"again", "menu", "quit"} : Tui!Press(button)
      BY <2>3 DEF Tui!Press
    <2> QED BY <1>5, <2>1, <2>2, <2>3 DEF Tui!UserEvent
  <1>6. CASE Tui!Cancel
    BY <1>6 DEF Tui!Cancel
  <1>7. CASE Tui!Requesting
    BY <1>7 DEF Tui!Requesting, Tui!screen
  <1>8. CASE Tui!Repeat
    BY <1>8, <1>4 DEF Tui!Repeat, Tui!Joined
  <1>9. CASE Tui!ReturnToMenu \/ Tui!Leave
    BY <1>9 DEF Tui!ReturnToMenu, Tui!Leave, Tui!Joined
  <1> QED BY <1>1, <1>2, <1>3, <1>5, <1>6, <1>7, <1>8, <1>9 DEF Tui!TuiNext

\* The screen is type correct for every number of transfers, requests and sockets.
THEOREM TuiTypeCorrect == TuiBounds /\ Tui!TuiSpec => []Tui!TuiTypeOK
  <1>1. TuiBounds /\ Tui!TuiInit => Tui!TuiTypeOK
    <2> SUFFICES ASSUME TuiBounds, Tui!TuiInit PROVE Tui!TuiTypeOK
      OBVIOUS
    <2>1. Tui!TypeOK
      BY TuiInitInv DEF TuiInv, SessionInv
    <2>2. 0 \in 0..MaxTransfers
      BY DEF TuiBounds
    <2> QED BY <2>1, <2>2 DEF Tui!TuiInit, Tui!TuiTypeOK
  <1>2. TuiInv /\ TuiInv' /\ Tui!TuiTypeOK /\ [Tui!TuiNext]_(Tui!tui_vars) => Tui!TuiTypeOK'
    BY ScreenTyped DEF TuiInv, SessionInv
  <1> QED BY <1>1, <1>2, TuiInitInv, TuiNextInv, PTL DEF Tui!TuiSpec

\* Cancelling leaves no tracked socket running in any transfer of the screen.
THEOREM EveryTransferCancelled == TuiBounds /\ Tui!TuiSpec => []Tui!NothingSurvives
  <1>1. TuiInv => Tui!NothingSurvives
    <2> SUFFICES ASSUME TuiInv, requested, \A c \in Callers : call[c] \in {"idle", "returned"}
                 PROVE  open \subseteq interrupted
      BY DEF Tui!NothingSurvives
    <2>1. \A c \in Callers : swept[c] = {}
      BY DEF TuiInv, SessionInv, ListAwaited
    <2>2. handles = {}
      BY DEF TuiInv, SessionInv, ListAwaited
    <2> QED BY <2>1, <2>2 DEF TuiInv, SessionInv, HandleHeld
  <1> QED BY <1>1, TuiInitInv, TuiNextInv, PTL DEF Tui!TuiSpec

\* The screen never shows one transfer the outcome of another: "canceled" answers its own
\* user, and an early completion is taken back when the task throws.
THEOREM OutcomesOwn == TuiBounds /\ Tui!TuiSpec => []Tui!OutcomeIsItsOwn
  <1>1. TuiInv => Tui!OutcomeIsItsOwn
    BY DEF TuiInv
  <1> QED BY <1>1, TuiInitInv, TuiNextInv, PTL DEF Tui!TuiSpec
=============================================================================
