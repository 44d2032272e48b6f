------------------------------ MODULE MCMini64 ------------------------------
(***************************************************************************)
(* The Mini64 rescue system: the files of its volume, where it believes    *)
(* the volume to be, its drive, and its line editor.  One of the parts     *)
(* runs, the others rest.                                                  *)
(*   files     five clusters, a directory of five entries that two modes   *)
(*             and the payload overflow, one power failure                 *)
(*   volume    every disk                                                  *)
(*   ata       two sectors, a flush every three writes                     *)
(*   line      two characters fit at the prompt and one in an answer, two  *)
(*             lines are remembered, and one of the two commands is        *)
(*             completed whatever Shift does                               *)
(***************************************************************************)
EXTENDS Mini64Fat, Mini64Disk

AllSizes == [f \in {"KERNEL.BIN", "INITRD.BIN", "MINI64.BIN", "GRUB.CFG", "BOOTMODE.CFG",
                    "MODEDESK.FLG", "MODECLI.FLG", "MODEDBG.FLG", "MODERECV.FLG"} |->
               IF f = "KERNEL.BIN" THEN 2 ELSE 1]

VARIABLES
    part,
    at, room, spilled, buf, pos, len, h, saved, history, past, left_shift, right_shift, caps_lock, held, caps

typing == <<at, room, spilled, buf, pos, len, h, saved, history, past, left_shift, right_shift,
            caps_lock, held, caps>>

L == INSTANCE Mini64Line WITH
       Upper <- [a |-> "A"], cmd_list <- {<<"a", "a">>, <<"A", "a">>}, max <- 3, answer <- 2, HIST_MAX <- 2

\* A part that does not run rests in one of its initial states.
MCInit ==
    /\ part \in {"files", "volume", "ata", "line"}
    /\ Init
    /\ (part # "volume" => disk_sectors = [s \in VolumeSectors |-> "other"]) /\ VolumeInit
    /\ (part # "ata" => medium = [s \in Sectors |-> "u"]) /\ AtaInit
    /\ L!Init

MCNext ==
    /\ UNCHANGED part
    /\ IF part = "files" THEN Next ELSE UNCHANGED vars
    /\ IF part = "volume" THEN VolumeNext ELSE UNCHANGED volume
    /\ IF part = "ata" THEN AtaNext ELSE UNCHANGED ata
    /\ IF part = "line" THEN L!Next ELSE UNCHANGED typing

MCSpec == MCInit /\ [][MCNext]_<<part, vars, volume, ata, typing>>

-----------------------------------------------------------------------------
(* Properties                                                              *)

\* Whatever keys are pressed, Tab and the history included, readline returns the line that the
\* user has typed or recalled, up to the cursor, and at the prompt it fits its buffer.
LineTrue == L!LineTrue

=============================================================================
