------------------------------- MODULE Shell -------------------------------
\* The command line of kernel/core/kernel.c on the display: the line editor of
\* shell_loop, and the commands and full-screen programs it runs.
EXTENDS Integers, Sequences, SequencesExt, FiniteSets

----------------------------------------------------------------------------
\* kernel/drivers/display/display.c with a framebuffer.  The driver's static data is
\* one record, `d` below.  A place on the screen is row * Width + column.  `fb` is
\* what the pixels of each place show: a character, drawn plain or as the cursor.
CONSTANTS Width, Height

Size == Width * Height
Places == 0..Size-1
Blank == " "

Plain(c) == <<c, "plain">>
Inverted(c) == <<c, "cursor">>

----------------------------------------------------------------------------
\* cursor_x and cursor_y are `cursor`; row and col are `at`.
render_cell(d, p, c) == [d EXCEPT !.cells[p] = c, !.fb[p] = Plain(c)]

cursor_restore(d) ==
    IF ~d.drawn THEN d ELSE [d EXCEPT !.fb[d.cursor] = Plain(d.cells[d.cursor]), !.drawn = FALSE]

cursor_draw(d) ==
    IF ~d.visible \/ d.drawn THEN d
    ELSE [d EXCEPT !.fb[d.cursor] = Inverted(d.cells[d.cursor]), !.drawn = TRUE]

\* Called with `at` past the last place when the output reached the end of the screen.
scroll(d) ==
    IF d.at < Size THEN d
    ELSE LET up == [p \in Places |-> IF p + Width < Size THEN d.cells[p + Width] ELSE Blank]
         IN [d EXCEPT !.cells = up, !.fb = [p \in Places |-> Plain(up[p])],
                      !.at = Size - Width + (@ % Width)]

\* The cursor is drawn at the output position.
Follow(d) == cursor_draw([d EXCEPT !.cursor = d.at])

display_clear(d) ==
    [d EXCEPT !.cells = [p \in Places |-> Blank], !.fb = [p \in Places |-> Plain(Blank)], !.at = 0]

\* display_putc takes the cursor off the screen, writes and puts it back.
Write(d, c) ==
    Follow(scroll(CASE c = "LF" -> [d EXCEPT !.at = (@ \div Width + 1) * Width]
                    [] c = "BS" -> IF d.at % Width = 0 THEN d
                                   ELSE [render_cell(d, d.at - 1, Blank) EXCEPT !.at = @ - 1]
                    [] OTHER -> [render_cell(d, d.at, c) EXCEPT !.at = @ + 1]))

display_putc(d, c) == Write(cursor_restore(d), c)

display_puts(d, s) == FoldLeft(display_putc, d, s)

display_cursor_left(d) ==
    IF d.at = 0 THEN d ELSE Follow([cursor_restore(d) EXCEPT !.at = @ - 1])

display_cursor_right(d) ==
    IF d.at + 1 >= Size THEN d ELSE Follow([cursor_restore(d) EXCEPT !.at = @ + 1])

\* display_set_cell does not care whether the cursor is drawn there.
display_set_cell(d, p, c) == render_cell(d, p, c)

display_cursor_set(d, p, visible) ==
    Follow([cursor_restore(d) EXCEPT !.at = p, !.visible = visible])

\* display_cursor_tick, half a second after the last change.
display_cursor_tick(d) ==
    IF ~d.visible THEN d ELSE IF d.drawn THEN cursor_restore(d) ELSE cursor_draw(d)

display_cursor_activity(d) == IF ~d.visible THEN d ELSE cursor_draw(cursor_restore(d))

\* display_set_mode keeps the number of places here; a smaller screen is cleared alike.
display_set_mode(d) == display_clear([cursor_restore(d) EXCEPT !.at = 0, !.cursor = 0, !.drawn = FALSE])

display_init ==
    [cells |-> [p \in Places |-> Blank], fb |-> [p \in Places |-> Plain(Blank)], at |-> 0,
     cursor |-> 0, visible |-> FALSE, drawn |-> FALSE]

----------------------------------------------------------------------------
\* shell_loop
CONSTANTS
    Prompt,         \* the characters of the prompt
    Chars,          \* printable keys; Blank is one of them
    LineCapacity,   \* sizeof line - 1
    HistoryMax,     \* 16 in the code
    MaxOutput       \* characters that a command prints

VARIABLES
    d,                      \* the display
    line, position,         \* shell_loop's line, its first n characters, and the cursor in it
    history, history_pos,   \* history_lines, and the number of lines above history_pos
    phase,                  \* "input", "run": a command runs, "full": it owns the terminal
    terminal_saved,         \* cells and position at terminal_acquire
    before,                 \* the display as the full-screen program found it
    printed                 \* characters printed by the command

shell == <<line, position, history, history_pos>>
vars == <<d, line, position, history, history_pos, phase, terminal_saved, before, printed>>

\* Prompt and line fit on the screen, wherever in a row the prompt starts.
ShellAssumption == Width + Len(Prompt) + LineCapacity < Size

Nothing == <<>>
IsBlank(s) == \A i \in DOMAIN s : s[i] = Blank
Times(f(_), x, n) == FoldLeft(LAMBDA y, i : f(y), x, [i \in 1..n |-> i])

move_left(e, n) == Times(display_cursor_left, e, n)
move_right(e, n) == Times(display_cursor_right, e, n)

\* prompt, and the cursor behind it.
prompt(e) == LET f == display_puts(e, Prompt) IN display_cursor_set(f, f.at, TRUE)

\* shell_loop back at its top.
NewLine(e, h) ==
    /\ d' = prompt(e) /\ line' = <<>> /\ position' = 0 /\ history' = h /\ history_pos' = Len(h)
    /\ phase' = "input" /\ printed' = 0 /\ before' = display_init /\ UNCHANGED terminal_saved

Init ==
    /\ d = prompt(display_init) /\ line = <<>> /\ position = 0 /\ history = <<>> /\ history_pos = 0
    /\ phase = "input" /\ terminal_saved = Nothing /\ before = display_init
    /\ printed = 0

\* Mutant: a recalled line does not wipe the rest of a longer one.
ReplaceShort(e, value) == display_puts(move_left(e, position), value)

\* replace_input: the display after the line gives way to `value`.
replace_input(e, value) ==
    LET start == move_left(e, position)
        wiped == move_left(display_puts(start, [i \in DOMAIN line |-> Blank]), Len(line))
    IN display_puts(wiped, value)

remember(s) == IF Len(history) = HistoryMax THEN Append(Tail(history), s) ELSE Append(history, s)

----------------------------------------------------------------------------
\* One key at the prompt; input_result has touched the cursor first.
Ready == display_cursor_activity(d)

Edit(e, l, p, h) ==
    /\ d' = e /\ line' = l /\ position' = p /\ history_pos' = h
    /\ UNCHANGED <<history, phase, terminal_saved, before, printed>>

Interrupt == NewLine(display_puts(move_right(Ready, Len(line) - position), <<"^", "C", "LF">>), history)

Enter ==
    LET e == display_putc(move_right(Ready, Len(line) - position), "LF")
        hidden == display_cursor_set(e, e.at, FALSE)
    IN IF IsBlank(line) THEN NewLine(hidden, history)
       ELSE /\ d' = hidden /\ history' = remember(line) /\ phase' = "run" /\ printed' = 0
            /\ line' = <<>> /\ position' = 0 /\ history_pos' = 0
            /\ UNCHANGED <<terminal_saved, before>>

Recall(h) ==
    LET value == IF h < Len(history) THEN history[h + 1] ELSE <<>> IN
    /\ history # <<>> /\ Edit(replace_input(Ready, value), value, Len(value), h)

Up == Recall(IF history_pos > 0 THEN history_pos - 1 ELSE 0)
Down == Recall(IF history_pos < Len(history) THEN history_pos + 1 ELSE history_pos)
Left == position > 0 /\ Edit(display_cursor_left(Ready), line, position - 1, history_pos)
Right == position < Len(line) /\ Edit(display_cursor_right(Ready), line, position + 1, history_pos)

Backspace ==
    LET l == RemoveAt(line, position)
        rest == SubSeq(l, position, Len(l))
    IN /\ position > 0
       /\ Edit(move_left(display_puts(display_cursor_left(Ready), rest \o <<Blank>>), Len(rest) + 1),
               l, position - 1, history_pos)

Type(c) ==
    LET l == InsertAt(line, position + 1, c)
        rest == SubSeq(l, position + 1, Len(l))
    IN /\ Len(line) < LineCapacity
       /\ Edit(move_left(display_puts(Ready, rest), Len(rest) - 1), l, position + 1, history_pos)

Key == phase = "input" /\ (Interrupt \/ Enter \/ Up \/ Down \/ Left \/ Right \/ Backspace \/ \E c \in Chars : Type(c))

\* While input waits, the cursor blinks.
Blink == phase # "run" /\ d' = display_cursor_tick(d) /\ UNCHANGED <<shell, phase, terminal_saved, before, printed>>

----------------------------------------------------------------------------
\* What a command does: print, clear the screen, change the mode, or return.
Run(e, n) == d' = e /\ printed' = n /\ UNCHANGED <<shell, phase, terminal_saved, before>>

Output ==
    /\ phase = "run" /\ printed < MaxOutput
    /\ \/ \E c \in (Chars \ {Blank}) \cup {"LF"} : Run(display_putc(d, c), printed + 1)
       \/ Run(display_clear(d), printed + 1)
       \/ Run(display_set_mode(d), printed + 1)

\* The program gets an empty screen without a cursor.
Blanked(e) == FoldLeft(LAMBDA f, p : display_set_cell(f, p - 1, Blank), e, [p \in 1..Size |-> p])

\* Mutant: the position is asked for after the cursor has been moved.
AcquireLate ==
    /\ phase = "run" /\ phase' = "full" /\ before' = d
    /\ LET e == display_cursor_set(d, 0, FALSE) IN terminal_saved' = <<e.cells, e.at>> /\ d' = Blanked(e)
    /\ UNCHANGED <<shell, printed>>

\* Refused to a program that has the terminal already.
terminal_acquire ==
    /\ phase = "run" /\ phase' = "full" /\ before' = d
    /\ terminal_saved' = <<d.cells, d.at>>
    /\ d' = Blanked(display_cursor_set(d, 0, FALSE))
    /\ UNCHANGED <<shell, printed>>

\* terminal_release puts the cells back, then the position.
Restored(e) ==
    FoldLeft(LAMBDA f, p : display_set_cell(f, p - 1, terminal_saved[1][p - 1]),
             display_cursor_set(e, 0, FALSE), [p \in 1..Size |-> p])

terminal_release(e) == display_cursor_set(Restored(e), terminal_saved[2], TRUE)

\* A program draws a cell or places the cursor, or a command that it dispatches prints.
Draw ==
    /\ phase = "full" /\ printed < MaxOutput
    /\ \E p \in {0, Size - 1} :
          \/ \E c \in Chars : Run(display_set_cell(d, p, c), printed + 1)
          \/ \E visible \in BOOLEAN : Run(display_cursor_set(d, p, visible), printed + 1)
          \/ \E c \in (Chars \ {Blank}) \cup {"LF"} : Run(display_putc(d, c), printed + 1)

\* The program releases the terminal and goes on.
Release ==
    /\ phase = "full" /\ phase' = "run" /\ d' = terminal_release(d) /\ terminal_saved' = Nothing
    /\ before' = display_init /\ UNCHANGED <<shell, printed>>

\* execute releases what the program did not.
Finish ==
    \/ phase = "run" /\ NewLine(d, history)
    \/ phase = "full" /\ NewLine(terminal_release(d), history)

Next == Key \/ Blink \/ Output \/ terminal_acquire \/ Draw \/ Release \/ Finish

Spec == Init /\ [][Next]_vars

----------------------------------------------------------------------------
\* While the shell waits for a key, the screen shows the prompt, then the line as it
\* will be executed, then nothing, and the cursor is at its place in the line: however
\* the line was edited, recalled, wrapped or scrolled (shell_loop, replace_input).
PromptTrue ==
    LET start == d.at - position IN
    phase = "input" =>
        /\ \A i \in DOMAIN Prompt : d.cells[start - Len(Prompt) + i - 1] = Prompt[i]
        /\ \A i \in DOMAIN line : d.cells[start + i - 1] = line[i]
        /\ \A p \in start + Len(line)..Size - 1 : d.cells[p] = Blank
        /\ d.cursor = d.at /\ d.visible

\* The pixels show the cells and at most one cursor, at the place where the driver will
\* take it off again: no cursor is left behind (cursor_restore, cursor_draw).
NoGhost ==
    \A p \in Places :
        \/ d.fb[p] = Plain(d.cells[p])
        \/ d.fb[p] = Inverted(d.cells[p]) /\ d.drawn /\ p = d.cursor

Shown(e) == <<e.cells, e.at>>

\* A full-screen program leaves no trace, whatever it or a command it dispatched has put on the
\* screen: when it gives the terminal back, the screen and the place where the output goes on
\* are those it found, and when it ends without doing so, the screen is the one it found with
\* the prompt printed behind (abi_terminal_acquire, abi_terminal_release, execute).
ScreenRestored ==
    [][/\ (phase = "full" /\ phase' = "run") => Shown(d') = Shown(before)
       /\ (phase = "full" /\ phase' = "input") => Shown(d') = Shown(prompt(before))]_vars
=============================================================================
