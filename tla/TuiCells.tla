------------------------------ MODULE TuiCells ------------------------------
(***************************************************************************)
(* The cells under libtui (user/libtui/screen.c): windows are painted one  *)
(* over the other into the back buffer, and tui_render writes to the       *)
(* terminal the cells in which the back buffer differs from the front      *)
(* buffer, its memory of what the terminal shows.  A cell is the part of a *)
(* window it belongs to, without colours.                                  *)
(***************************************************************************)
EXTENDS Integers, Sequences, SequencesExt, TLC

CONSTANTS
    width, height,      \* of the screen
    Kinds,              \* windows to create: [x, y, width, height, double, title]
    MaxWindows,         \* TUI_MAX_WINDOWS
    Values              \* what the widget of a window may show

VARIABLES
    windows,            \* application.windows, each with `visible` and its widget's `value`
    back, front,
    terminal,           \* what the cells of the terminal show
    redraw, dirty

vars == <<windows, back, front, terminal, redraw, dirty>>

Cells == (0..width - 1) \X (0..height - 1)
Desktop == <<0, " ">>
Invalid == <<0, "invalid">>

-----------------------------------------------------------------------------
(* Painting.  Windows may lie partly outside: what is outside is dropped.  *)

tui_fill(b, r) ==
    [c \in Cells |-> IF c[1] \in r.x..r.x + r.w - 1 /\ c[2] \in r.y..r.y + r.h - 1 THEN r.cell ELSE b[c]]

Area(x, y, w, h, cell) == [x |-> x, y |-> y, w |-> w, h |-> h, cell |-> cell]

\* tui_text writes one cell per character, at most `limit`.
tui_text(x, y, n, limit, cell) == Area(x, y, IF n < limit THEN n ELSE limit, 1, cell)

\* The frame of tui_box and of a double border: four sides without the corners, four corners.
Frame(x, y, w, h, i) ==
    << Area(x + 1, y + 1, w - 2, h - 2, <<i, "inside">>),
       Area(x + 1, y, w - 2, 1, <<i, "horizontal">>), Area(x + 1, y + h - 1, w - 2, 1, <<i, "horizontal">>),
       Area(x, y + 1, 1, h - 2, <<i, "vertical">>), Area(x + w - 1, y + 1, 1, h - 2, <<i, "vertical">>),
       Area(x, y, 1, 1, <<i, "corner">>), Area(x + w - 1, y, 1, 1, <<i, "corner">>),
       Area(x, y + h - 1, 1, 1, <<i, "corner">>), Area(x + w - 1, y + h - 1, 1, 1, <<i, "corner">>) >>

\* A double border has its title in a row of its own above a line, a single one on the frame.
Title(w, i) ==
    LET n == w.title
        middle == w.x + (w.width - n) \div 2
    IN IF n = 0 THEN <<>>
       ELSE IF w.double
       THEN << tui_text(middle, w.y + 1, n, n, <<i, "title">>),
               Area(w.x, w.y + 2, 1, 1, <<i, "corner">>), Area(w.x + w.width - 1, w.y + 2, 1, 1, <<i, "corner">>),
               Area(w.x + 1, w.y + 2, w.width - 2, 1, <<i, "horizontal">>) >>
       ELSE << tui_text(middle - 1, w.y, 1, 1, <<i, "title">>),
               tui_text(middle, w.y, n, w.width - 4, <<i, "title">>),
               tui_text(middle + n, w.y, 1, 1, <<i, "title">>) >>

content_y(w) == IF w.double /\ w.title > 0 THEN w.y + 3 ELSE w.y + 1

\* The window's widget: a text that fills the first row of the content.
Widget(w, i) == << Area(w.x + 1, content_y(w), w.width - 2, 1, <<i, w.value>>) >>

Paint(b, areas) == FoldLeft(tui_fill, b, areas)

tui_window_draw(b, i) ==
    LET w == windows[i]
    IN IF ~w.visible THEN b
       ELSE Paint(b, Frame(w.x, w.y, w.width, w.height, i) \o Title(w, i) \o Widget(w, i))

-----------------------------------------------------------------------------
(* The library's calls                                                     *)

Least(a, b) == IF a < b THEN a ELSE b
Most(a, b) == IF a > b THEN a ELSE b

\* tui_window_create keeps a cell of the window on the screen.
Placed(k) ==
    LET w == Least(k.width, width)
        h == Least(k.height, height)
    IN [k EXCEPT !.width = w, !.height = h,
                 !.x = Least(Most(k.x, 1 - w), width - 1), !.y = Least(Most(k.y, 1 - h), height - 1)]

tui_window_create(k) ==
    /\ Len(windows) < MaxWindows /\ k.width >= 4 /\ k.height >= 3
    /\ \E v \in Values : windows' = Append(windows, Placed(k) @@ [visible |-> TRUE, value |-> v])
    /\ dirty' = TRUE /\ UNCHANGED <<back, front, terminal, redraw>>

\* tui_window_show, tui_window_hide and tui_window_destroy
tui_window_show(i, shown) ==
    /\ windows' = [windows EXCEPT ![i].visible = shown]
    /\ dirty' = TRUE /\ UNCHANGED <<back, front, terminal, redraw>>

tui_request_redraw ==
    /\ redraw' = TRUE /\ dirty' = TRUE /\ UNCHANGED <<windows, back, front, terminal>>

\* A widget changes and is drawn again by itself, over the windows in front of its own.
tui_widget_repaint(i, v) ==
    /\ windows[i].visible /\ windows' = [windows EXCEPT ![i].value = v]
    /\ back' = Paint(back, Widget(windows'[i], i))
    /\ dirty' = TRUE /\ UNCHANGED <<front, terminal, redraw>>

Painted ==
    IF redraw
    THEN FoldLeft(tui_window_draw, [c \in Cells |-> Desktop], [i \in DOMAIN windows |-> i])
    ELSE back

\* Mutant: the front buffer takes the back buffer as it was before the redraw.
RenderBehind ==
    /\ back' = Painted /\ redraw' = FALSE /\ dirty' = FALSE
    /\ terminal' = IF dirty THEN [c \in Cells |-> IF front[c] # back'[c] THEN back'[c] ELSE terminal[c]]
                   ELSE terminal
    /\ front' = IF dirty THEN back ELSE front
    /\ UNCHANGED windows

tui_render ==
    /\ back' = Painted /\ redraw' = FALSE /\ dirty' = FALSE
    /\ terminal' = IF dirty THEN [c \in Cells |-> IF front[c] # back'[c] THEN back'[c] ELSE terminal[c]]
                   ELSE terminal
    /\ front' = IF dirty THEN back' ELSE front
    /\ UNCHANGED windows

\* tui_initialize: nothing is known of the terminal, which terminal_acquire has cleared.
Init ==
    /\ windows = <<>> /\ back = [c \in Cells |-> Desktop] /\ front = [c \in Cells |-> Invalid]
    /\ terminal = [c \in Cells |-> <<0, "cleared">>] /\ redraw = TRUE /\ dirty = TRUE

Next ==
    \/ \E k \in Kinds : tui_window_create(k)
    \/ \E i \in DOMAIN windows : \/ \E shown \in BOOLEAN : tui_window_show(i, shown)
                                 \/ \E v \in Values : tui_widget_repaint(i, v)
    \/ tui_request_redraw \/ tui_render

Spec == Init /\ [][Next]_vars

-----------------------------------------------------------------------------
(* Properties                                                              *)

Covers(i, c) == LET w == windows[i] IN
    w.visible /\ c[1] \in w.x..w.x + w.width - 1 /\ c[2] \in w.y..w.y + w.height - 1

\* What an observer expects in a cell: the part of the last created visible window there.
Expected(c) ==
    LET over == {i \in DOMAIN windows : Covers(i, c)}
        top == CHOOSE i \in over : \A j \in over : j <= i
        w == windows[top]
        column == c[1] - w.x
        row == c[2] - w.y
        sides == {0, w.width - 1}
        rules == {0, w.height - 1} \cup (IF w.double /\ w.title > 0 THEN {2} ELSE {})
        start == (w.width - w.title) \div 2
        title == IF w.title = 0 THEN {} ELSE IF w.double THEN {<<x, 1>> : x \in start..start + w.title - 1}
                 ELSE {<<x, 0>> : x \in start - 1..start + w.title}
    IN IF over = {} THEN Desktop
       ELSE IF <<column, row>> \in title THEN <<top, "title">>
       ELSE IF column \in sides /\ row \in rules THEN <<top, "corner">>
       ELSE IF row \in rules THEN <<top, "horizontal">>
       ELSE IF column \in sides THEN <<top, "vertical">>
       ELSE IF row = content_y(w) - w.y THEN <<top, w.value>>
       ELSE <<top, "inside">>

\* A tui_render that was asked to redraw leaves every cell of the terminal as the windows
\* want it, the one in front first and whatever was shown, hidden or repainted before; and
\* one that was not leaves the terminal as the back buffer has it, where a window that
\* was hidden is still seen and a widget repainted behind another window shows through.
CellsTrue ==
    [][ (dirty /\ ~dirty') =>
            /\ terminal' = back'
            /\ redraw => \A c \in Cells : terminal'[c] = Expected(c) ]_vars
=============================================================================
