----------------------------- MODULE PanicBoot ------------------------------
(***************************************************************************)
(* What survives a kernel panic, across reboots: kernel_panic writes a     *)
(* record to a raw sector and PANIC.FLG to the FAT volume, the boot        *)
(* manager turns the flag into a boot of Mini64, Mini64 consumes it.  The  *)
(* power may fail between any two writes.  Panics are numbered, and a      *)
(* record or a flag is the number of the panic that wrote it.              *)
(***************************************************************************)
EXTENDS Integers

CONSTANTS
    ModeNames,      \* the boot modes bootmode is used with, besides normal
    MaxPanics,      \* bound on kernel panics
    MaxCrashes      \* bound on power failures

ASSUME PanicBootAssumption ==
    ModeNames \subseteq {"desktop", "cli", "debug", "recovery"} /\ MaxPanics \in Nat /\ MaxCrashes \in Nat

None == 0
Cleared == MaxPanics + 1    \* a record that pstore clear has erased

VARIABLES
    record,         \* the raw sector: None, Cleared or a panic
    flag,           \* PANIC.FLG: None or the panic that wrote it
    modes,          \* the boot mode flags on the volume
    at,             \* what the machine is doing
    entry,          \* the menu entry it was started with
    mounted,        \* OS64 has the FAT volume mounted
    valid,          \* pstore.c: a record was found or written in this session
    panics, crashes,
    served,         \* the panics whose flag a Mini64 session has consumed
    chosen          \* the modes the user may find selected

disk == <<record, flag, modes>>
flagged == <<disk, at, entry, mounted, valid, panics, crashes, served, chosen>>

-----------------------------------------------------------------------------
(* Booting                                                                 *)

\* manager.cfg: the first mode flag there is.
Mode == IF "desktop" \in modes THEN "desktop" ELSE IF "cli" \in modes THEN "cli"
        ELSE IF "debug" \in modes THEN "debug" ELSE IF "recovery" \in modes THEN "recovery"
        ELSE "normal"

Menu == {"normal", "recovery", "panic"}

\* manager.cfg: a panic flag goes before every mode, with no menu; otherwise
\* the user may choose another entry before the time is up.
PowerOn ==
    /\ at = "off"
    /\ entry' \in IF flag # None THEN {"panic"} ELSE {Mode} \cup Menu
    /\ at' = IF entry' \in {"panic", "recovery"} THEN "mini64_start" ELSE "os64_start"
    /\ UNCHANGED <<disk, mounted, valid, panics, crashes, served, chosen>>

\* OS64: disk_init, pstore_init, disk_mount.
kernel_main ==
    /\ at = "os64_start"
    /\ at' = "os64" /\ mounted' = TRUE /\ valid' = (record \in 1..MaxPanics)
    /\ UNCHANGED <<disk, entry, panics, crashes, served, chosen>>

\* Mutant: the flag stays.
mini64_main_keep ==
    /\ at = "mini64_start"
    /\ at' = "mini64"
    /\ served' = IF flag # None THEN served \cup {flag} ELSE served
    /\ UNCHANGED <<disk, entry, mounted, valid, panics, crashes, chosen>>

\* Mini64: fat_init, then clear_panic_flag.
mini64_main ==
    /\ at = "mini64_start"
    /\ at' = "mini64" /\ flag' = None
    /\ served' = IF flag # None THEN served \cup {flag} ELSE served
    /\ UNCHANGED <<record, modes, entry, mounted, valid, panics, crashes, chosen>>

\* The reboot commands, and the reset button.
reboot ==
    /\ at \in {"os64", "mini64", "halted", "done"}
    /\ at' = "off" /\ mounted' = FALSE /\ valid' = FALSE
    /\ UNCHANGED <<disk, entry, panics, crashes, served, chosen>>

\* The power fails.
Crash ==
    /\ at # "off" /\ crashes < MaxCrashes
    /\ crashes' = crashes + 1
    /\ at' = "off" /\ mounted' = FALSE /\ valid' = FALSE
    /\ UNCHANGED <<disk, entry, panics, served, chosen>>

-----------------------------------------------------------------------------
(* kernel_panic                                                            *)

\* A panic before the volume is mounted (INITRD_NOT_FOUND) or after.
kernel_panic ==
    /\ at \in {"os64_start", "os64"} /\ panics < MaxPanics
    /\ panics' = panics + 1
    /\ at' = "panic"
    /\ UNCHANGED <<disk, entry, mounted, valid, crashes, served, chosen>>

\* Mutant: the flag first, then the record.
WriteRecordLate ==
    /\ at = "panic"
    /\ IF flag = panics \/ ~mounted
       THEN record' = panics /\ at' = "done" /\ UNCHANGED flag
       ELSE flag' = panics /\ at' = "panic" /\ UNCHANGED record
    /\ UNCHANGED <<modes, entry, mounted, valid, panics, crashes, served, chosen>>

\* pstore_write_panic: the record, and nothing more if it cannot be written.
WriteRecord ==
    /\ at = "panic"
    /\ \/ record' = panics /\ valid' = TRUE /\ at' = "panic_recorded"
       \/ at' = "done" /\ UNCHANGED <<record, valid>>
    /\ UNCHANGED <<flag, modes, entry, mounted, panics, crashes, served, chosen>>

\* disk_store of PANIC.FLG, which fails on a full directory or volume.
WriteFlag ==
    /\ at = "panic_recorded"
    /\ flag' \in {flag} \cup (IF mounted THEN {panics} ELSE {})
    /\ at' = "done"
    /\ UNCHANGED <<record, modes, entry, mounted, valid, panics, crashes, served, chosen>>

\* A fault while the panic is handled: panic_active is set, the CPU stops.
NestedPanic ==
    /\ at \in {"panic", "panic_recorded"}
    /\ at' = "halted"
    /\ UNCHANGED <<disk, entry, mounted, valid, panics, crashes, served, chosen>>

-----------------------------------------------------------------------------
(* pstore clear, and bootmode of Mini64                                    *)

pstore_clear ==
    /\ at = "os64"
    /\ record' = Cleared
    /\ at' = "clearing"
    /\ UNCHANGED <<flag, modes, entry, mounted, valid, panics, crashes, served, chosen>>

RemoveFlag ==
    /\ at = "clearing"
    /\ flag' = IF mounted THEN None ELSE flag
    /\ valid' = FALSE /\ at' = "os64"
    /\ UNCHANGED <<record, modes, entry, mounted, panics, crashes, served, chosen>>

\* Mutant: the flags of the other modes stay.
DeleteModesKeep(m) ==
    /\ at = "mini64"
    /\ chosen' = chosen \cup {"normal", m}
    /\ at' = m
    /\ UNCHANGED <<disk, entry, mounted, valid, panics, crashes, served>>

\* bootmode m: every mode flag goes, then the one of the mode is stored, if
\* there is room for it.
DeleteModes(m) ==
    /\ at = "mini64"
    /\ modes' = {}
    /\ chosen' = chosen \cup {"normal", m}
    /\ at' = m
    /\ UNCHANGED <<record, flag, entry, mounted, valid, panics, crashes, served>>

StoreMode(m) ==
    /\ at = m
    /\ \/ m # "normal" /\ modes' = modes \cup {m} /\ chosen' = {m}
       \/ modes' = modes /\ chosen' = {"normal"}
    /\ at' = "mini64"
    /\ UNCHANGED <<record, flag, entry, mounted, valid, panics, crashes, served>>

-----------------------------------------------------------------------------
(* The specification                                                       *)

FlagInit ==
    /\ record = None /\ flag = None /\ modes = {}
    /\ at = "off" /\ entry = "normal" /\ mounted = FALSE /\ valid = FALSE
    /\ panics = 0 /\ crashes = 0 /\ served = {} /\ chosen = {"normal"}

FlagNext ==
    \/ PowerOn \/ kernel_main \/ mini64_main \/ reboot \/ Crash
    \/ kernel_panic \/ WriteRecord \/ WriteFlag \/ NestedPanic
    \/ pstore_clear \/ RemoveFlag
    \/ \E m \in ModeNames \cup {"normal"} : DeleteModes(m) \/ StoreMode(m)

\* Straight-line code goes on, and a machine that has stopped is restarted.
GoesOn ==
    \/ PowerOn \/ kernel_main \/ mini64_main \/ WriteRecord \/ WriteFlag \/ RemoveFlag
    \/ reboot /\ at \in {"halted", "done"}

FlagFairness == WF_flagged(GoesOn)

FlagSpec == FlagInit /\ [][FlagNext]_flagged /\ FlagFairness

-----------------------------------------------------------------------------
(* Properties                                                              *)

\* Wherever the power fails, an automatic recovery never starts for a panic
\* whose record is missing or older: pstore_write_panic writes the record
\* first, and only the user erases it.
RecordBehindFlag == flag # None => record >= flag

\* manager.cfg, "Panic recovery is one-shot because Mini64 consumes PANIC.FLG":
\* once a Mini64 session has consumed the flag of a panic, nothing but a new
\* panic brings a flag back.
OneShot == flag \notin served

\* The boot manager selects the mode that was set last or, when bootmode was
\* interrupted or the directory was full, the one before or normal.
ModeAsChosen == Mode \in chosen

\* PANIC.FLG never announces a panic whose record is missing or older,
\* wherever the power fails; once a Mini64 session has consumed the flag of a
\* panic it does not come back; and the mode that the flag files select is
\* one the user has chosen.
FlagTrue == RecordBehindFlag /\ OneShot /\ ModeAsChosen

\* A flag, once written, is consumed.
FlagServed == flag # None ~> flag = None

=============================================================================
