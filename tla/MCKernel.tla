------------------------------ MODULE MCKernel ------------------------------
(***************************************************************************)
(* What the kernel is made of before its programs run, and what a panic    *)
(* leaves of it.  One of the parts runs, the others rest.                  *)
(*   heap       256 bytes, room for four minimal blocks; the boot map      *)
(*              reports nothing, too little for a list, or enough for two  *)
(*              blocks; one request needs rounding, one overflows in it,   *)
(*              one count overflows the product                            *)
(*   services   a poll budget of two shows a probe that answers and a wait *)
(*              that times out; the commands go to a root of the           *)
(*              dependencies, a service with a subsystem to stop and the   *)
(*              two whose start can fail at once                           *)
(*   log        a ring of three entries and a clock that ticks once        *)
(*   flag       two panics, two power failures, two modes                  *)
(*   panic      640x400, the smallest framebuffer the boot accepts, the    *)
(*              text screen, 1024x768 and 1920x1080; log lines that fill   *)
(*              the file or leave room                                     *)
(*   startup    every entry of both menus on every processor               *)
(*   tags       padded and unpadded tags of each kind that is looked for   *)
(*   faults     exceptions before and after the gates are set              *)
(*   pci        two buses of three slots, and a list one machine overflows *)
(***************************************************************************)
EXTENDS Heap, Services, Log, PanicBoot, TLC

CONSTANTS m1, m2

MCMsgs == {m1, m2}

SomeSizes == (1 :> {9, 16}) @@ (3 :> {17, 24}) @@ (4 :> {16}) @@ (6 :> {40}) @@ (8 :> {31, 38})

VARIABLES
    part,
    size, sink, panic_at, entries, length, log_save, chain, frames, row, reason_row, id_row,
    chosen_entry, cpu, loaded, pc, esi, ebx, rdi, pages, on, framebuffer, line, idt,
    modules, volumes, volumes_used, wrote,
    tags, loop, off, found, done,
    gates, fault_pc, stack, delivered, vector, error, reason, depth, first_fault,
    present, many, bus, slot, function, functions, devices, pci_pc

panic == <<size, sink, panic_at, entries, length, log_save, chain, frames, row, reason_row, id_row>>
startup == <<chosen_entry, cpu, loaded, pc, esi, ebx, rdi, pages, on, framebuffer, line,
             idt, modules, volumes, volumes_used, wrote>>
info == <<tags, loop, off, found, done>>
faults == <<gates, fault_pc, stack, delivered, vector, error, reason, depth, first_fault>>
pci == <<present, many, bus, slot, function, functions, devices, pci_pc>>

E == INSTANCE Faults WITH
       idt <- gates, pc <- fault_pc, rdi <- vector, rsi <- error, first <- first_fault,
       Displays <- {<<71, 23>>, <<80, 25>>, <<113, 45>>, <<213, 63>>},
       Lengths <- {30, 94}, MaxFrames <- 6, at <- panic_at
U == INSTANCE Startup WITH
       entry <- chosen_entry, mounted <- volumes_used, Sizes <- SomeSizes, MaxTags <- 3, max_mods <- 2
D == INSTANCE Pci WITH Buses <- 2, Slots <- 3, MaxDevices <- 4, pc <- pci_pc

\* A part that does not run rests in one of its initial states.
MCInit ==
    /\ part \in {"heap", "services", "log", "flag", "panic", "startup", "tags", "faults", "pci"}
    /\ (part # "tags" => tags = <<U!EndTag>> /\ loop = "framebuffer_info") /\ U!InfoInit
    /\ (part # "pci" => present = {}) /\ D!Init
    /\ (part # "panic" => size = <<71, 23>> /\ sink = FALSE /\ entries = 0 /\ length = 30 /\ chain = <<"zero">>) /\ E!ScreenInit
    /\ (part # "services" => probe = {} /\ recovery = FALSE /\ timed_updated = FALSE) /\ ServicesInit
    /\ (part # "startup" => volumes = {}) /\ U!Init
    /\ (part # "heap" => heap_bytes = HeapMax) /\ HeapInit
    /\ LogInit /\ FlagInit /\ E!ExceptionInit

MCNext ==
    /\ UNCHANGED part
    /\ IF part = "heap" THEN HeapNext ELSE UNCHANGED allocator
    /\ IF part = "services" THEN ServicesNext ELSE UNCHANGED services
    /\ IF part = "log" THEN LogNext ELSE UNCHANGED log
    /\ IF part = "flag" THEN FlagNext ELSE UNCHANGED flagged
    /\ IF part = "panic" THEN E!ScreenNext ELSE UNCHANGED panic
    /\ IF part = "startup" THEN U!Next ELSE UNCHANGED startup
    /\ IF part = "tags" THEN U!InfoNext ELSE UNCHANGED info
    /\ IF part = "faults" THEN E!ExceptionNext ELSE UNCHANGED faults
    /\ IF part = "pci" THEN D!Next ELSE UNCHANGED pci

all == <<part, allocator, services, log, flagged, panic, startup, info, faults, pci>>

MCSpec ==
    /\ MCInit /\ [][MCNext]_all
    /\ WF_services(part = "services" /\ Boot) /\ WF_services(part = "services" /\ Wait)
    /\ WF_flagged(part = "flag" /\ GoesOn)

-----------------------------------------------------------------------------
(* Properties                                                              *)

\* The boot sequence ends: a probe that never answers costs the budget of polls of its
\* service_wait_ready and no more.  With all subsystems up its end finds every service ready
\* that recovery mode does not skip, and the number it reports is always the ready ones.
BootEnds == (part = "services" => BootFinishes) /\ HealthyBoot /\ BootCount

\* kernel_panic saves a log whole or not at all; outside the desktop it leaves the panic ID on
\* every display unless the frame pointers led out of memory, and the reason on the larger ones.
PanicReported == part = "panic" => E!PanicReported

\* The long mode that boot.asm enters has the first four GiB in place, and what the menu entry
\* asked for is the mode the system comes up in, on every processor and with every module
\* and volume there or missing.
StartsAsAsked == part = "startup" => U!Translated /\ U!StartsAsAsked

\* The kernel's scans of what the machine reports find what is there, in order and once: the
\* tags of the boot information, and the functions of the PCI buses.
ScansComplete == part \in {"tags", "pci"} => U!TagsFound /\ D!DevicesFound

\* An exception is dispatched with its own vector and error code on an aligned stack, and the
\* panic screen names the first one.
FaultNamed == part = "faults" => E!FaultNamed

=============================================================================
