---------------------------- MODULE MCNoteEditor ----------------------------
(* A small instance of NoteEditor: the terminal's user starts one edit less  *)
(* than the other one.                                                       *)
EXTENDS NoteEditor

Bounds == <<1, 2>>
=============================================================================
