---------------------------- MODULE Mini64Screen ----------------------------
(***************************************************************************)
(* The screen of the Mini64 rescue system during a session                 *)
(* (mini64/kernel.c): where putc and fb_putc leave the cursor, and what    *)
(* every command prints.  Output is a sequence of texts of some length, of *)
(* newlines and of whole short lines.  What a command finds on the disk    *)
(* decides which of its outputs comes, so that all of them may.            *)
(***************************************************************************)
EXTENDS Naturals, Sequences, SequencesExt, FiniteSets

CONSTANTS
    Framebuffer,    \* a linear framebuffer of 32 bits was found
    Loaded,         \* the sets of modules that a menu entry of GRUB may pass
    MaxKeys,        \* glyphs that readline echoes for a line
    MaxRow          \* bound on the rows below the screen

VGA_ROWS == 25
VGA_COLS == 80                                         \* and fb_cols, of 1024 pixels
fb_h == 768 \div 16                                     \* rows of the framebuffer
fb_rows == IF fb_h > 30 THEN 30 ELSE fb_h               \* rows that Mini64 uses

VARIABLES row, col, mods, waiting

vars == <<row, col, mods, waiting>>

Text(n) == <<<<"text", n>>>>
Lines(n) == <<<<"lines", n>>>>
Line == Lines(1)
Blank == <<<<"newline", 1>>>>

At(r, c) == [row |-> r, col |-> c]

\* The rows a text takes, and where it leaves the column.
Down(at, x) == IF x[1] = "text" THEN (at.col + x[2]) \div VGA_COLS ELSE x[2]
Column(at, x) == IF x[1] = "text" THEN (at.col + x[2]) % VGA_COLS ELSE 0

\* putc: the screen scrolls as soon as the cursor is below it.
putc(at, x) ==
    LET r == at.row + Down(at, x) IN At(IF r >= VGA_ROWS THEN VGA_ROWS - 1 ELSE r, Column(at, x))

\* fb_putc: a newline only moves the cursor; a glyph scrolls when it ends on the row just
\* below the last one, and never again when the cursor is further down.
fb_putc(at, x) ==
    LET r == at.row + Down(at, x)
        last == IF x[1] = "text" THEN fb_rows - 1 ELSE fb_rows
    IN  At(IF x[1] # "newline" /\ at.row <= fb_rows /\ r > last THEN last ELSE r, Column(at, x))

puts(at, out) == IF Framebuffer THEN FoldLeft(fb_putc, at, out) ELSE FoldLeft(putc, at, out)

-----------------------------------------------------------------------------
(* What is printed                                                         *)

Prompt == Text(10)

\* The banner, a line for each module, and what fat_init and the panic flag tell.
Banner ==
    {Blank \o Lines(3) \o Blank \o Lines(Cardinality(mods)) \o Blank \o Lines(disk) \o Line \o Blank : disk \in 1..2}

Payload == {"kernel", "initrd", "bootloader", "manager", "mini64"}

\* fat_format draws a bar.  do_recover tells of the volume when it was not mounted, and then
\* of every file until one fails.
Format == {Line, Lines(2)}
Files(with) == 2 + (IF "bootloader" \in with THEN 3 ELSE 0)
do_recover(with) ==
    {v \o Lines(n) : v \in {<<>>, Line} \cup {Lines(2)}, n \in 1..Files(with) + 2}

\* Confirmation asks for one more line, which is echoed.
Confirm == {<<>>} \cup {Line \o Text(28 + k) \o Blank : k \in 1..MaxKeys}

install ==
    IF mods # Payload THEN {Text(86) \o Blank}
    ELSE {c \o Line \o r \o Line : c \in Confirm, r \in do_recover(mods)} \cup {c \o Line : c \in Confirm}
recover == IF "kernel" \notin mods THEN {Lines(5)} ELSE do_recover({})
recover_with_bl ==
    IF "kernel" \notin mods THEN {Lines(6)}
    ELSE IF "bootloader" \notin mods THEN {Line \o r : r \in do_recover({})} ELSE do_recover(mods)

help == Blank \o Lines(28) \o Blank
list_dir == {Lines(n) : n \in 1..16}
status == Blank \o Lines(7) \o Blank
modules == Lines(5)
diskinfo == {Lines(1), Lines(2)}
hexdump == {Line, Lines(8)}
show_partitions == {Lines(n) : n \in 1..5}
show_pstore == {Line, Line \o Text(498) \o Blank}
erase_sectors == {Lines(2)} \cup {c \o Line : c \in Confirm}
verify == {Line}
history == {Lines(n) : n \in 1..8}
echo == {Blank, Line}
bootmode == {Line}
OneLine == {Line}           \* uname, meminfo, chkfs, mount, umount, sync, or not a command

Outputs ==
    install \cup recover \cup recover_with_bl \cup {help, status, modules, <<>>} \cup list_dir
    \cup diskinfo \cup hexdump \cup show_partitions \cup show_pstore \cup erase_sectors \cup verify
    \cup history \cup echo \cup {Line \o f : f \in Format} \cup bootmode \cup OneLine

-----------------------------------------------------------------------------

Shows(out) ==
    LET at == puts(At(row, col), out) IN row' = at.row /\ col' = at.col

\* kernel_main up to its first prompt.
Start ==
    /\ ~waiting /\ waiting' = TRUE
    /\ \E out \in Banner : Shows(out \o Prompt)
    /\ UNCHANGED mods

\* readline echoes the line and Enter; the command prints; the next prompt follows.
Command ==
    /\ waiting /\ row < MaxRow
    /\ \E out \in Outputs, keys \in 1..MaxKeys : Shows(Text(keys) \o Blank \o out \o Prompt)
    /\ UNCHANGED <<mods, waiting>>

clear == waiting /\ row' = 0 /\ col' = 10 /\ UNCHANGED <<mods, waiting>>

\* boot: the machine starts again, and GRUB passes what its entry says.
Reboot == waiting /\ row' = 0 /\ col' = 0 /\ waiting' = FALSE /\ mods' \in Loaded

Init == row = 0 /\ col = 0 /\ mods \in Loaded /\ waiting = FALSE

Next == Start \/ Command \/ clear \/ Reboot

Spec == Init /\ [][Next]_vars

-----------------------------------------------------------------------------
\* "Run help inside Mini64 for the complete command list": whatever was printed before, the
\* prompt and the line typed after it are on the screen.
PromptShown == waiting => row < (IF Framebuffer THEN fb_h ELSE VGA_ROWS)
=============================================================================
