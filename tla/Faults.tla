------------------------------- MODULE Faults --------------------------------
(* From a fault to the panic screen.                                       *)
EXTENDS Integers, Sequences, FiniteSets

(***************************************************************************)
(* From a faulting instruction to kernel_panic: the gates of exceptions.c, *)
(* the stubs of exceptions.asm and exception_dispatch.  The processor      *)
(* pushes an error code for some exceptions and none for others; the stubs *)
(* level that out, so that one tail finds the vector and the error code by *)
(* their distance from the top of the stack.  A second fault, inside       *)
(* kernel_panic, goes the same way and ends in the halt of the nested      *)
(* panic.  The stack is a sequence of words, its top last.                 *)
(***************************************************************************)

VARIABLES
    idt,            \* the vectors that have a gate; none before exceptions_init
    pc,             \* the label the processor is at
    stack,          \* above the aligned place where delivery began
    delivered,      \* the vector the processor found a gate for
    rdi, rsi,
    reason, depth,  \* of kernel_panic: its argument, and how often it was entered
    first           \* the vector of the fault that made it panic

exception == <<idt, pc, stack, delivered, rdi, rsi, reason, depth, first>>

-----------------------------------------------------------------------------
(* The processor                                                           *)

\* The exceptions ring 0 can raise, the contributory ones, those with an error code.
Raised == {0, 1, 3, 4, 5, 6, 7, 10, 11, 12, 13, 14, 16, 19}
Contributory == {0, 10, 11, 12, 13}
WithError == {8, 10, 11, 12, 13, 14}

\* An empty gate is a general protection fault, and that fault while a contributory one is
\* being delivered is a double fault.
Found(v) == IF v \in idt THEN v ELSE IF v \in Contributory THEN 8 ELSE 13

\* The stack is aligned first; then SS, RSP, RFLAGS, CS, RIP and perhaps the error code.
Pushed(v) ==
    <<"ss", "rsp", "rflags", "cs", "rip">> \o (IF v \in WithError THEN <<"error">> ELSE <<>>)

Label(v) == CASE v = 0 -> "isr_divide" [] v = 6 -> "isr_opcode" [] v = 8 -> "isr_double"
              [] v = 13 -> "isr_gp" [] v = 14 -> "isr_page"

Fault(v) ==
    /\ pc \in {"running", "panic"}
    /\ IF idt = {}
       THEN pc' = "reset" /\ UNCHANGED <<stack, delivered>>
       ELSE /\ delivered' = Found(v) /\ pc' = Label(Found(v))
            /\ stack' = Pushed(Found(v))
    /\ first' = IF depth = 0 THEN Found(v) ELSE first
    /\ UNCHANGED <<idt, rdi, rsi, reason, depth>>

-----------------------------------------------------------------------------
(* exceptions.c and exceptions.asm                                         *)

exceptions_init ==
    /\ pc = "running" /\ depth = 0 /\ idt' = {0, 6, 8, 13, 14}
    /\ UNCHANGED <<pc, stack, delivered, rdi, rsi, reason, depth, first>>

Stub(label, words) ==
    /\ pc = label /\ pc' = "isr_common" /\ stack' = stack \o words
    /\ UNCHANGED <<idt, delivered, rdi, rsi, reason, depth, first>>

\* Mutant: the vector alone, as in the stubs of exceptions that have an error code.
DivideShort == Stub("isr_divide", <<0>>)

isr_divide == Stub("isr_divide", <<"error", 0>>)
isr_opcode == Stub("isr_opcode", <<"error", 6>>)
isr_double == Stub("isr_double", <<8>>)
isr_gp == Stub("isr_gp", <<13>>)
isr_page == Stub("isr_page", <<14>>)

Registers == <<"rax", "rbx", "rcx", "rdx", "rbp", "rsi", "rdi", "r8", "r9", "r10", "r11", "r12",
               "r13", "r14", "r15">>
\* The word at [rsp + offset].
At(s, offset) == s[Len(s) - offset \div 8]

isr_common ==
    /\ pc = "isr_common" /\ pc' = "exception_dispatch"
    /\ stack' = stack \o Registers
    /\ rdi' = At(stack', 120) /\ rsi' = At(stack', 128)
    /\ UNCHANGED <<idt, delivered, reason, depth, first>>

Reasons(v) ==
    CASE v = 0 -> "DIVIDE_ERROR" [] v = 6 -> "INVALID_OPCODE" [] v = 8 -> "DOUBLE_FAULT"
      [] v = 13 -> "GENERAL_PROTECTION_FAULT" [] v = 14 -> "PAGE_FAULT"
      [] v < 15 -> "UNKNOWN" [] OTHER -> "CPU_EXCEPTION"

\* exception_dispatch, and of kernel_panic that a nested one halts at once.
exception_dispatch ==
    /\ pc = "exception_dispatch"
    /\ pc' = IF depth = 0 THEN "panic" ELSE "halted"
    /\ reason' = IF depth = 0 THEN Reasons(rdi) ELSE reason
    /\ depth' = depth + 1
    /\ UNCHANGED <<idt, stack, delivered, rdi, rsi, first>>

\* Power off and on.
Restart ==
    /\ pc \in {"halted", "panic", "reset"}
    /\ idt' = {} /\ pc' = "running" /\ stack' = <<>> /\ delivered' = 0
    /\ rdi' = 0 /\ rsi' = "none" /\ reason' = "none" /\ depth' = 0 /\ first' = 0

ExceptionInit ==
    /\ idt = {} /\ pc = "running" /\ stack = <<>> /\ delivered = 0
    /\ rdi = 0 /\ rsi = "none" /\ reason = "none" /\ depth = 0 /\ first = 0

ExceptionNext ==
    \/ \E v \in Raised : Fault(v)
    \/ exceptions_init
    \/ isr_divide \/ isr_opcode \/ isr_double \/ isr_gp \/ isr_page
    \/ isr_common \/ exception_dispatch \/ Restart

ExceptionSpec == ExceptionInit /\ [][ExceptionNext]_exception

-----------------------------------------------------------------------------
(* Properties                                                              *)

Names == [v \in {0, 6, 8, 13, 14} |-> Reasons(v)]

\* Whatever was raised and whether or not it came with an error code, exception_dispatch is
\* called with the vector whose gate was taken and its error code, on a stack aligned to 16
\* bytes as compiled code expects, and the panic screen names the first exception, not the
\* one a fault inside the panic raised.
FaultNamed ==
    /\ pc = "exception_dispatch" => rdi = delivered /\ rsi = "error" /\ (8 * Len(stack)) % 16 = 0
    /\ depth > 0 => reason = Names[first]

-----------------------------------------------------------------------------
(***************************************************************************)
(* What a kernel panic leaves for the reader (kernel/core/panic.c): the    *)
(* log as a file, then a box of lines on the display, drawn from top to    *)
(* bottom while the display scrolls.  The call trace follows frame         *)
(* pointers that may be anything, since the kernel is built without them:  *)
(* one that is canonical but not mapped faults, and the panic inside the   *)
(* panic stops the processor.  A line is its width.                        *)
(***************************************************************************)

CONSTANTS
    Displays,           \* <<width, height>> of a display the kernel accepts, in cells
    Lengths,            \* of a line of the log in the file
    MaxFrames           \* frames followed: 6

LogMax == 64
BufferSize == 6144

VARIABLES
    size,               \* of the display
    sink,               \* a command of the desktop runs: display_putc hands on what it is given
    at,                 \* the part of kernel_panic that comes next
    entries, length,    \* the log: how many entries, and how long a line is
    log_save,           \* entries in the file
    chain,              \* what walk finds: "frame"s and then what ends them
    frames,             \* frames collected
    row,                \* rows drawn since display_clear, scrolled away or not
    reason_row, id_row  \* where these lines begin, or -1

screen == <<size, sink, at, entries, length, log_save, chain, frames, row, reason_row, id_row>>

-----------------------------------------------------------------------------
(* The display: a line that is as wide as it leaves an empty row behind.   *)

\* Cells of 9 by 17 pixels, in the mode that grub.cfg asks for.
Usual == <<1024 \div 9, 768 \div 17>>

Rows(w) == IF sink THEN 0 ELSE w \div size[1] + 1
RECURSIVE Drawn(_)
Drawn(ws) == IF ws = <<>> THEN 0 ELSE Rows(Head(ws)) + Drawn(Tail(ws))

Rule == 80              \* btop, bsep, bdiv and bbot
vline == 79
Title == <<Rule, 78, Rule, vline, vline, vline, 79>>
Reason == 75
RegisterLines == <<Rule, vline, vline, Rule, 78, 78, 78, 78, 78, 78, Rule, 78, 87, Rule>>
Vendor == <<82, Rule>>
TraceLines(n) == <<79>> \o (IF n = 0 THEN <<78>> ELSE IF n <= 3 THEN <<78>> ELSE <<78, 78>>) \o <<Rule>>
StackLines == <<80, 86, 86, Rule>>
PanicId == 72

\* Whether a line that began in row r is still to be seen, the cursor being below the last.
Visible(r) == ~sink /\ r # -1 /\ row - r < size[2]

-----------------------------------------------------------------------------
(* kernel_panic, part by part                                              *)

\* panic_log_save takes entries, the oldest first, while 100 bytes are left.
Fits == Cardinality({i \in 1..LogMax : i <= entries /\ (i - 1) * length + 100 < BufferSize})

\* Mutant: half the buffer.
SaveHalf == Cardinality({i \in 1..LogMax : i <= entries /\ (i - 1) * length + 100 < BufferSize \div 2})

panic_log_save == Fits

\* The file is written only if /var is mounted and has room; pstore_write_panic follows.
Save ==
    /\ at = "save" /\ at' = "head"
    /\ log_save' \in {0, panic_log_save}
    /\ UNCHANGED <<size, sink, entries, length, chain, frames, row, reason_row, id_row>>

\* Mutant: the frames are followed before anything is drawn.
HeadLate ==
    /\ at = "head" /\ at' = "walk"
    /\ UNCHANGED <<size, sink, entries, length, log_save, chain, frames, row, reason_row, id_row>>

DrawHead ==
    /\ at = "head" /\ at' = "walk"
    /\ reason_row' = Drawn(Title)
    /\ row' = Drawn(Title) + Rows(Reason) + Drawn(RegisterLines \o Vendor)
    /\ UNCHANGED <<size, sink, entries, length, log_save, chain, frames, id_row>>

\* One turn of the loop over the frame pointers.
Walk ==
    /\ at = "walk"
    /\ IF frames = MaxFrames \/ chain[frames + 1] \in {"zero", "not canonical"} THEN at' = "tail" /\ UNCHANGED frames
       ELSE IF chain[frames + 1] = "unmapped" THEN at' = "halted" /\ UNCHANGED frames
       ELSE frames' = frames + 1 /\ UNCHANGED at
    /\ UNCHANGED <<size, sink, entries, length, log_save, chain, row, reason_row, id_row>>

\* The trace, the stack (rsp is always the stack in use) and the line with the number.
DrawTail ==
    /\ at = "tail" /\ at' = "halted"
    /\ id_row' = row + Drawn(TraceLines(frames) \o StackLines)
    /\ row' = id_row' + Rows(PanicId) + Rows(Rule)
    /\ UNCHANGED <<size, sink, entries, length, log_save, chain, frames, reason_row>>

FramesThen(n) == [i \in 1..n |-> "frame"]

ScreenInit ==
    /\ size \in Displays /\ sink \in BOOLEAN
    /\ at = "save" /\ entries \in {0, 1, LogMax} /\ length \in Lengths /\ log_save = 0
    /\ chain \in {FramesThen(n) \o <<end>> : n \in 0..MaxFrames, end \in {"zero", "not canonical", "unmapped"}}
    /\ frames = 0 /\ row = 0 /\ reason_row = -1 /\ id_row = -1

Halt == at = "halted" /\ UNCHANGED screen

ScreenNext == Save \/ DrawHead \/ Walk \/ DrawTail \/ Halt

ScreenSpec == ScreenInit /\ [][ScreenNext]_screen

-----------------------------------------------------------------------------
\* When the processor stops: a log that was saved was saved whole, the entries just before the
\* panic included.  Unless the desktop has taken the output, the line with the panic ID is on
\* the display, however small, if the frame pointers did not lead out of memory; and on a
\* display of the usual size or larger the reason is still to be seen, whatever they were.
PanicReported ==
    at = "halted" =>
        /\ log_save \in {0, entries}
        /\ sink \/ Visible(id_row) \/ \E i \in DOMAIN chain : chain[i] = "unmapped"
        /\ ~sink /\ size[1] >= Usual[1] /\ size[2] >= Usual[2] => Visible(reason_row)
==============================================================================
