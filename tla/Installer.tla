----------------------------- MODULE Installer ------------------------------
(***************************************************************************)
(* install /dev/sda (c_install and install_confirm in                      *)
(* kernel/core/kernel.c): the confirmation, and the stages that follow,    *)
(* each of which may fail with the disk.  Sizes are those of the payload.  *)
(***************************************************************************)
EXTENDS Naturals, Sequences

CONSTANTS
    ConfigSize,     \* the bytes of boot/os64/manager.cfg
    ImageSize,      \* the bytes of each of the other files
    BootArea,       \* the bytes of the boot image
    Word            \* letters of the confirmation

Size(f) == IF f = "GRUB.CFG" THEN ConfigSize ELSE ImageSize
Files == <<"KERNEL.BIN", "INITRD.BIN", "MINI64.BIN", "GRUB.CFG">>
HOME_START == 2048
HOME_SECTORS == 129024

VARIABLES
    answer, length, \* the confirmation as typed: each letter right, wrong or NUL
    stage,          \* what c_install does next
    disk,           \* what is on the disk: the stages that were done
    faulted,        \* the disk has failed a write
    outcome

vars == <<answer, length, stage, disk, faulted, outcome>>

\* install_confirm: Backspace takes back the place of a letter, not the letter.
Type(c) ==
    /\ stage = "confirm" /\ length < Word
    /\ answer' = [answer EXCEPT ![length] = c] /\ length' = length + 1
    /\ UNCHANGED <<stage, disk, faulted, outcome>>

Backspace ==
    /\ stage = "confirm" /\ length > 0 /\ length' = length - 1
    /\ UNCHANGED <<answer, stage, disk, faulted, outcome>>

Confirmed == \A i \in 0..Word - 1 : answer[i] = "right"

Enter ==
    /\ stage = "confirm"
    /\ stage' = IF Confirmed THEN "disk_format" ELSE "end"
    /\ outcome' = IF Confirmed THEN outcome ELSE "cancelled"
    /\ UNCHANGED <<answer, length, disk, faulted>>

-----------------------------------------------------------------------------

\* disk_install_boot_area takes an image of one size, disk_store_large one that fits the
\* volume, disk_store one sector.
Takes(s) ==
    CASE s = "boot_area" -> BootArea = HOME_START * 512
      [] s = "GRUB.CFG" -> Size(s) <= 512
      [] s \in {"KERNEL.BIN", "INITRD.BIN", "MINI64.BIN"} -> Size(s) > 0 /\ Size(s) <= HOME_SECTORS * 512
      [] OTHER -> TRUE

Order == <<"disk_format", "varfs_format", "boot_area">> \o Files \o <<"home", "accounts", "sync", "end">>
After(s) == Order[1 + CHOOSE i \in DOMAIN Order : Order[i] = s]

Stage ==
    /\ stage \notin {"confirm", "end"}
    /\ \E works \in BOOLEAN :
          LET ok == works /\ Takes(stage) IN
          /\ faulted' = (faulted \/ ~works)
          /\ disk' = IF ok THEN disk \cup {stage} ELSE disk
          /\ stage' = IF ok THEN After(stage) ELSE "end"
          /\ outcome' = IF ~ok THEN "failed" ELSE IF stage' = "end" THEN "complete" ELSE outcome
    /\ UNCHANGED <<answer, length>>

\* The command is over, and can be given again.
Again ==
    /\ stage = "end" /\ stage' = "confirm" /\ outcome' = "none" /\ faulted' = FALSE
    /\ answer' = [i \in 0..Word |-> "NUL"] /\ length' = 0 /\ UNCHANGED disk

Init ==
    /\ answer = [i \in 0..Word |-> "NUL"] /\ length = 0
    /\ stage = "confirm" /\ disk = {} /\ faulted = FALSE /\ outcome = "none"

Next == (\E c \in {"right", "wrong"} : Type(c)) \/ Backspace \/ Enter \/ Stage \/ Again

Spec == Init /\ [][Next]_vars

\* "install /dev/sda performs a complete installation": with the payload of the repository
\* and a disk that takes every write, it does not fail.
InstallWorks == outcome = "failed" => faulted
=============================================================================
