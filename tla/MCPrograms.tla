----------------------------- MODULE MCPrograms -----------------------------
(***************************************************************************)
(* The programs: the full-screen ones of the shell, and the desktop.  One  *)
(* of the two runs, the other rests.  The text boxes have one column and   *)
(* the lists one row, so that everything scrolls; the pool of windows is   *)
(* used up by a program and two dialogs.  The desktop opens three windows, *)
(* and the pointer goes to the launcher, a menu entry, title bars and      *)
(* windows that lie over each other.                                       *)
(***************************************************************************)
EXTENDS Userland

\* A file in FAT, and one with a blank in its name in ext2.
OneFile == [p \in {<<Fat, <<"X">>>>} |-> "file"]
SomeFiles == [p \in {<<Fat, <<"X">>>>, <<Ext, <<"X", " ", "Y">>>>} |-> "file"]

VARIABLES
    part,
    windows, clients, layout, next_id, menu, pointer, button, drag, scene

desktop == <<windows, clients, layout, next_id, menu, pointer, button, drag, scene>>

D == INSTANCE Desktop WITH
       MaxWindows <- 3, ScreenWidth <- 640, ScreenHeight <- 480, MaxIds <- 3,
       Spots <- {<<20, 20>>, <<20, 80>>, <<70, 140>>, <<520, 80>>, <<20, 460>>}

\* A part that does not run rests in one of its initial states.
MCInit ==
    /\ part \in {"shell", "desktop"}
    /\ (part # "shell" => doc = NoDoc) /\ Init
    /\ (part # "desktop" => pointer = <<20, 20>>) /\ D!Init

MCNext ==
    /\ UNCHANGED part
    /\ IF part = "shell" THEN Next ELSE UNCHANGED vars
    /\ IF part = "desktop" THEN D!Next ELSE UNCHANGED desktop

MCSpec == MCInit /\ [][MCNext]_<<part, vars, desktop>>

\* edit alone.
ArrowsSpec ==
    /\ MCInit /\ part = "shell" /\ doc # NoDoc
    /\ [][ArrowsNext /\ UNCHANGED <<part, desktop>>]_<<part, vars, desktop>>

-----------------------------------------------------------------------------
(* Properties                                                              *)

\* The screen shows the windows of the program as the state of their widgets has them, and
\* the cursor is where the next character goes.
DisplayTrue == part = "shell" => ScreenTrue /\ CursorTrue

\* A file is deleted, and a changed text given up, only after the user has confirmed it.
Asked == DeleteAsked /\ UnsavedAsked

\* Exactly one window of the desktop has the focus and every client slot in use belongs
\* to exactly one window.  wm_at finds the window that was painted last over a place, and
\* tiled windows lie between the panels and apart.
PressHitsTop == part = "desktop" => D!OneFocus /\ D!PressHitsTop /\ D!TilesApart

=============================================================================
