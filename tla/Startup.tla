------------------------------ MODULE Startup -------------------------------
(***************************************************************************)
(* From the menu of the boot loader to the shell: the entries of grub.cfg  *)
(* (the CD) and manager.cfg (an installed disk), boot.asm, and kernel_main *)
(* with the options it reads from the command line.  What tells one boot   *)
(* from another travels in one register: the loader leaves the address of  *)
(* its information in ebx.  The entries of Mini64 start mini64/boot.asm.   *)
(***************************************************************************)
EXTENDS Naturals, Sequences, SequencesExt

VARIABLES
    entry,              \* the menu entry, or "none"
    cpu,                \* what CPUID tells: subset of {"cpuid", "long"}
    loaded,             \* the loader found a video mode, the initrd
    pc,                 \* where the processor is
    esi, ebx, rdi,      \* what these registers hold
    pages,              \* page |-> [to, user]: the tables, in pages of 2 MiB
    on,                 \* of CR3, PAE, LME and PG, the ones set
    framebuffer, line, idt,
    modules,            \* the payloads Mini64 has found
    volumes,            \* of "home" and "var", the volumes that are valid
    mounted, wrote      \* the volumes in use; something was written to one

cpu_state == <<esi, ebx, rdi, pages, on>>
kernel_state == <<framebuffer, line, idt, modules, mounted>>
vars == <<entry, cpu, loaded, pc, cpu_state, kernel_state, volumes, wrote>>

-----------------------------------------------------------------------------
(* The menu                                                                *)

\* bootmode= of the entries of grub.cfg that load OS64, and whether they ask for text.
GrubCfg == [normal  |-> <<"bootmode=normal", "graphics">>, desktop  |-> <<"bootmode=desktop", "graphics">>,
            cli     |-> <<"bootmode=cli", "text">>,        large    |-> <<"bootmode=normal", "graphics">>,
            debug   |-> <<"bootmode=debug", "text">>,      recovery |-> <<"bootmode=recovery", "text">>]
\* manager.cfg leaves the video mode to the header of the image.
ManagerCfg == [disk_normal |-> <<"bootmode=normal", "graphics">>, disk_desktop |-> <<"bootmode=desktop", "graphics">>,
               disk_cli    |-> <<"bootmode=cli", "graphics">>,    disk_debug   |-> <<"bootmode=debug", "graphics">>]
\* The entries of Mini64, with the modules loaded beside it.
Rescue == [rescue      |-> {"kernel", "initrd", "bootloader", "manager", "mini64"},
           disk_rescue |-> {"kernel", "initrd"}, disk_panic |-> {"kernel", "initrd"}]
Entries == DOMAIN GrubCfg \cup DOMAIN ManagerCfg \cup DOMAIN Rescue
Of(e) == IF e \in DOMAIN GrubCfg THEN GrubCfg[e] ELSE ManagerCfg[e]
Asked(e) == Of(e)[1]

\* The loader: a text entry gives text, the others a framebuffer if there is a mode.
Grub(e, c, l) ==
    /\ pc = "grub" /\ pc' = "start"
    /\ entry' = e /\ cpu' = c /\ loaded' = l
    /\ ebx' = "info"
    /\ UNCHANGED <<esi, rdi, pages, on, kernel_state, volumes, wrote>>

Video == IF Of(entry)[2] = "graphics" /\ "mode" \in loaded THEN "graphics" ELSE "text"

-----------------------------------------------------------------------------
(* boot.asm                                                                *)

\* The processor is not fit: a line of text, and the end.
x64_required ==
    /\ pc = "start" /\ entry \notin DOMAIN Rescue /\ cpu # {"cpuid", "long"} /\ pc' = "halted"
    /\ UNCHANGED <<entry, cpu, loaded, cpu_state, kernel_state, volumes, wrote>>

start ==
    /\ pc = "start" /\ entry \notin DOMAIN Rescue /\ cpu = {"cpuid", "long"} /\ pc' = "tables"
    /\ esi' = ebx /\ ebx' = "cpuid"
    /\ UNCHANGED <<entry, cpu, loaded, rdi, pages, on, kernel_state, volumes, wrote>>

PerTable == 512
Word == 4 * PerTable        \* pages of 2 MiB that 32 bits address

\* Mutant: the number of the table is not shifted far enough.
PageShort(t, i) == [to |-> (i + t * (PerTable \div 2)) % Word, user |-> t = 0 /\ i >= 4 /\ i < 8]

\* Entry i of table t: its address in 32 bits, and the window of the applications.
Page(t, i) == [to |-> (i + t * PerTable) % Word, user |-> t = 0 /\ i >= 4 /\ i < 8]

tables ==
    /\ pc = "tables" /\ pc' = "enable"
    /\ pages' = [p \in 0..Word - 1 |-> Page(p \div PerTable, p % PerTable)]
    /\ ebx' = "table"
    /\ UNCHANGED <<entry, cpu, loaded, esi, rdi, on, kernel_state, volumes, wrote>>

\* One register after the other; a processor with PG and without the others resets.
enable ==
    /\ pc = "enable"
    /\ \/ "CR3" \notin on /\ on' = on \cup {"CR3"} /\ UNCHANGED pc
       \/ "CR3" \in on /\ "PAE" \notin on /\ on' = on \cup {"PAE"} /\ UNCHANGED pc
       \/ "PAE" \in on /\ "LME" \notin on /\ on' = on \cup {"LME"} /\ UNCHANGED pc
       \/ "LME" \in on /\ on' = on \cup {"PG"} /\ pc' = "long_mode"
    /\ UNCHANGED <<entry, cpu, loaded, esi, ebx, rdi, pages, kernel_state, volumes, wrote>>

\* Mutant: the register the loader used, which the table loop has used since.
LongModeEbx ==
    /\ pc = "long_mode" /\ pc' = "kernel_main" /\ rdi' = ebx
    /\ UNCHANGED <<entry, cpu, loaded, esi, ebx, pages, on, kernel_state, volumes, wrote>>

long_mode ==
    /\ pc = "long_mode" /\ pc' = "kernel_main" /\ rdi' = esi
    /\ UNCHANGED <<entry, cpu, loaded, esi, ebx, pages, on, kernel_state, volumes, wrote>>

-----------------------------------------------------------------------------
(* Mini64                                                                  *)

\* mini64/boot.asm stays in 32 bits and pushes ebx as the argument of kernel_main, which
\* keeps of every module named there where it is.
mini64_start ==
    /\ pc = "start" /\ entry \in DOMAIN Rescue /\ pc' = "mini64"
    /\ modules' = IF ebx = "info" THEN Rescue[entry] ELSE {}
    /\ framebuffer' = (ebx = "info" /\ entry # "rescue" /\ "mode" \in loaded)
    /\ UNCHANGED <<entry, cpu, loaded, cpu_state, line, idt, mounted, volumes, wrote>>

-----------------------------------------------------------------------------
(* kernel_main                                                             *)

\* display_init finds the framebuffer and ends with exceptions_init; bootopts_init finds
\* the command line.  Both look where rdi points.
display_init ==
    /\ pc = "kernel_main" /\ pc' = "initrd"
    /\ framebuffer' = (rdi = "info" /\ Video = "graphics") /\ idt' = TRUE
    /\ line' = IF rdi = "info" THEN Asked(entry) ELSE ""
    /\ UNCHANGED <<entry, cpu, loaded, cpu_state, modules, mounted, volumes, wrote>>

bootopts_recovery == line = "bootmode=recovery"
bootopts_desktop == line = "bootmode=desktop"
bootopts_cli == line = "bootmode=cli"

initrd ==
    /\ pc = "initrd" /\ pc' = IF rdi = "info" /\ "initrd" \in loaded THEN "storage" ELSE "panic"
    /\ UNCHANGED <<entry, cpu, loaded, cpu_state, kernel_state, volumes, wrote>>

\* disk_mount() && varfs_mount(), and then the directory of root on the first volume if
\* there is none.
storage ==
    /\ pc = "storage" /\ pc' = "services"
    /\ mounted' = IF bootopts_recovery \/ "home" \notin volumes THEN {} ELSE volumes
    /\ wrote' \in {FALSE, mounted' = {"home", "var"}}
    /\ UNCHANGED <<entry, cpu, loaded, cpu_state, framebuffer, line, idt, modules, volumes>>

services ==
    /\ pc = "services" /\ pc' = IF bootopts_desktop /\ framebuffer THEN "desktop" ELSE "shell"
    /\ UNCHANGED <<entry, cpu, loaded, cpu_state, kernel_state, volumes, wrote>>

-----------------------------------------------------------------------------
(* Commands, as far as the boot mode decides about them                    *)

\* execute refuses the full-screen programs in CLI mode; desktop_run needs a framebuffer.
Desktop ==
    /\ pc = "shell" /\ ~bootopts_cli /\ framebuffer /\ pc' = "desktop"
    /\ UNCHANGED <<entry, cpu, loaded, cpu_state, kernel_state, volumes, wrote>>

c_mount ==
    /\ pc = "shell" /\ mounted' = mounted \cup volumes
    /\ UNCHANGED <<entry, cpu, loaded, pc, cpu_state, framebuffer, line, idt, modules, volumes, wrote>>

vfs_write ==
    /\ pc = "shell" /\ mounted # {} /\ wrote' = TRUE
    /\ UNCHANGED <<entry, cpu, loaded, pc, cpu_state, kernel_state, volumes>>

\* Off and on again, with another disk perhaps.
Restart ==
    /\ pc \in {"shell", "desktop", "panic", "halted", "mini64"} /\ pc' = "grub"
    /\ entry' = "none" /\ cpu' = {} /\ loaded' = {} /\ esi' = "" /\ ebx' = "" /\ rdi' = "" /\ pages' = <<>>
    /\ on' = {} /\ framebuffer' = FALSE /\ line' = "" /\ idt' = FALSE /\ modules' = {} /\ mounted' = {} /\ wrote' = FALSE
    /\ volumes' \in SUBSET {"home", "var"}

Init ==
    /\ entry = "none" /\ cpu = {} /\ loaded = {} /\ pc = "grub" /\ esi = "" /\ ebx = "" /\ rdi = ""
    /\ pages = <<>> /\ on = {} /\ framebuffer = FALSE /\ line = "" /\ idt = FALSE
    /\ modules = {} /\ mounted = {} /\ wrote = FALSE /\ volumes \in SUBSET {"home", "var"}

Next ==
    \/ \E e \in Entries, c \in SUBSET {"cpuid", "long"}, l \in SUBSET {"mode", "initrd"} : Grub(e, c, l)
    \/ mini64_start \/ x64_required \/ start \/ tables \/ enable \/ long_mode
    \/ display_init \/ initrd \/ storage \/ services
    \/ Desktop \/ c_mount \/ vfs_write \/ Restart

Spec == Init /\ [][Next]_vars

-----------------------------------------------------------------------------
(* Properties                                                              *)

\* Whenever paging is on, the processor has all it needs for long mode, and all of the first
\* four GiB are at their own addresses, the 8 to 16 MiB of the applications and no others
\* open to them: the 32-bit arithmetic of the table loop never wraps.
Translated ==
    "PG" \in on =>
        /\ {"CR3", "PAE", "LME"} \subseteq on
        /\ \A p \in 0..Word - 1 : pages[p] = [to |-> p, user |-> p \in 4..7]

\* The mode of the menu entry is the mode of the system: its line reaches the options, and its
\* modules reach Mini64, through every register they pass; a desktop runs where it is wanted
\* and only on a framebuffer, CLI mode never shows one, recovery mode mounts nothing unasked,
\* and the kernel gives up only when its initrd was not loaded.
StartsAsAsked ==
    /\ pc = "panic" => "initrd" \notin loaded
    /\ pc \in {"storage", "services", "shell", "desktop"} => line = Asked(entry)
    /\ pc = "mini64" => modules = Rescue[entry]
    /\ pc = "desktop" => framebuffer /\ Asked(entry) # "bootmode=cli"
    /\ pc = "services" /\ mounted # {} => Asked(entry) # "bootmode=recovery"

-----------------------------------------------------------------------------
(***************************************************************************)
(* The boot information that GRUB passes, and the seven loops of OS64 and  *)
(* Mini64 that look for something in it: each goes from tag to tag by the  *)
(* size found there, rounded up to 8, and each has its own idea of where   *)
(* to stop.  A tag is its type, its size and the number it has in the      *)
(* information; what else is in it is left out.                            *)
(***************************************************************************)

CONSTANTS
    Sizes,          \* type |-> the sizes such a tag may have
    MaxTags,        \* bound on the tags before the end tag
    max_mods        \* modules that Mini64 keeps: 6

VARIABLES
    tags,           \* the information
    loop,           \* the loop that runs
    off, found,     \* where it is, and the numbers of the tags it has taken
    done

info == <<tags, loop, off, found, done>>

Round(n) == 8 * ((n + 7) \div 8)

\* What the loops look for, and how much of a tag there has to be.
Loops == {"bootopts line", "bootopts initrd", "framebuffer_info", "multiboot_available_bytes",
          "multiboot_basic_bytes", "memory_kib", "fb_init", "parse_modules"}
Wants(l) == CASE l = "bootopts line" -> 1 [] l \in {"bootopts initrd", "parse_modules"} -> 3
              [] l = "multiboot_basic_bytes" -> 4 [] l \in {"multiboot_available_bytes", "memory_kib"} -> 6
              [] OTHER -> 8
Least(l) == CASE l = "bootopts line" -> 9 [] l \in {"framebuffer_info", "fb_init"} -> 38 [] OTHER -> 16

\* Whether one is enough, and the most that are kept.
First(l) == l \in {"bootopts initrd", "framebuffer_info", "multiboot_basic_bytes"}
Most(l) == IF First(l) THEN 1 ELSE IF l = "parse_modules" THEN max_mods ELSE MaxTags

-----------------------------------------------------------------------------
(* The information                                                         *)

EndTag == [type |-> 0, size |-> 8, n |-> 0]
Padding == [type |-> 0, size |-> 0, n |-> 0]
Number(ts) == [i \in DOMAIN ts |-> [type |-> ts[i][1], size |-> ts[i][2], n |-> i]]

Offset(i) == 8 + FoldLeft(LAMBDA sum, t : sum + Round(t.size), 0, SubSeq(tags, 1, i - 1))
total == Offset(Len(tags) + 1)

\* The two words at an offset: those of the tag that begins there.
Read(o) == IF \E i \in DOMAIN tags : Offset(i) = o THEN tags[CHOOSE i \in DOMAIN tags : Offset(i) = o] ELSE Padding

-----------------------------------------------------------------------------
(* A turn of a loop                                                        *)

Margin == IF loop = "memory_kib" THEN 16 ELSE 8

\* The loops that know the end tag, and the ones that stop at a size that cannot be.
Stops(t) == t.size < 8 \/ (t.type = 0 /\ loop \in {"multiboot_available_bytes", "multiboot_basic_bytes", "parse_modules"})

Takes(t) == t.type = Wants(loop) /\ t.size >= Least(loop) /\ Len(found) < Most(loop)

\* Mutant: the size is not rounded.
Unrounded(t) == off + t.size

Follow(t) == off + Round(t.size)

Turn ==
    /\ ~done
    /\ LET t == Read(off) IN
       IF off + Margin > total \/ Stops(t) THEN done' = TRUE /\ UNCHANGED <<off, found>>
       ELSE /\ found' = IF Takes(t) THEN Append(found, t.n) ELSE found
            /\ off' = Follow(t)
            /\ done' = (Takes(t) /\ loop \in {"framebuffer_info", "multiboot_basic_bytes"})
    /\ UNCHANGED <<tags, loop>>

Rest == done /\ UNCHANGED info

InfoInit ==
    /\ \E n \in 0..MaxTags :
          tags \in {Append(Number(ts), EndTag) :
                       ts \in {s \in [1..n -> (DOMAIN Sizes) \X UNION {Sizes[y] : y \in DOMAIN Sizes}] :
                                  \A i \in 1..n : s[i][2] \in Sizes[s[i][1]]}}
    /\ loop \in Loops /\ off = 8 /\ found = <<>> /\ done = FALSE

InfoNext == Turn \/ Rest

InfoSpec == InfoInit /\ [][InfoNext]_info

-----------------------------------------------------------------------------
\* What is in the information for a loop, in its order.
Listed == LET Fit(t) == t.type = Wants(loop) /\ t.size >= Least(loop)
              all == [i \in DOMAIN SelectSeq(tags, Fit) |-> SelectSeq(tags, Fit)[i].n]
          IN  SubSeq(all, 1, IF Len(all) < Most(loop) THEN Len(all) ELSE Most(loop))

\* Every loop finds what is there for it, in order and once, whatever the sizes of the tags
\* before are, how they are padded and where its own way of stopping stops it.
TagsFound == done => found = Listed
==============================================================================
