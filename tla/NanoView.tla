------------------------------ MODULE NanoView ------------------------------
(***************************************************************************)
(* How nano shows its text (kernel/core/kernel.c, nano_draw and the top of *)
(* c_nano's loop): the first line and the first column on the screen       *)
(* follow the cursor, the text is drawn row by row from the buffer, and    *)
(* the cursor is set by counting.  A cell is the position in the buffer it *)
(* shows, or blank.  The keys that change the text or the position are     *)
(* here as far as they can move the view.                                  *)
(***************************************************************************)
EXTENDS Naturals, Sequences

CONSTANTS
    width, height,      \* of the display, in cells
    Letters,            \* characters that take one cell
    Capacity            \* of the buffer

NL == "nl"
TAB == "tab"
blank == 0              \* a cell that shows nothing; others show a position, plus one
body == IF height > 4 THEN height - 4 ELSE 1

VARIABLES nano_buffer, position, top_line, left_column, cells, cursor

vars == <<nano_buffer, position, top_line, left_column, cells, cursor>>

-----------------------------------------------------------------------------
(* Lines of a buffer b; positions count from 0                             *)

nano_line_of(b, p) == Len(SelectSeq(SubSeq(b, 1, p), LAMBDA c : c = NL))

nano_line_start(b, p) == CHOOSE i \in 0..p :
    (i = 0 \/ b[i] = NL) /\ \A j \in i + 1..p : b[j] # NL

nano_line_end(b, p) == CHOOSE i \in p..Len(b) :
    (i = Len(b) \/ b[i + 1] = NL) /\ \A j \in p + 1..i : b[j] # NL

nano_position_for_line(b, line) == CHOOSE i \in 0..Len(b) :
    /\ nano_line_start(b, i) = i \/ i = Len(b)
    /\ nano_line_of(b, i) = line \/ (i = Len(b) /\ nano_line_of(b, i) < line)

column(b, p) == p - nano_line_start(b, p)

-----------------------------------------------------------------------------
(* nano_draw                                                               *)

\* One row: characters from source while the row has room, the first `left` columns left out.
RECURSIVE DrawRow(_, _, _, _, _)
DrawRow(b, left, source, col, out) ==
    IF source = Len(b) \/ b[source + 1] = NL \/ Len(out) = width
    THEN [out |-> out \o [i \in 1..width - Len(out) |-> blank], source |-> source]
    ELSE LET advance == IF b[source + 1] = TAB THEN 4 - (col % 4) ELSE 1
             shown == IF col + advance <= left THEN 0
                      ELSE IF col < left THEN col + advance - left ELSE advance
             fits == IF shown < width - Len(out) THEN shown ELSE width - Len(out)
         IN DrawRow(b, left, source + 1, col + advance, out \o [i \in 1..fits |-> source + 1])

\* The rows from source on; a newline that follows the last character drawn is passed.
RECURSIVE DrawRows(_, _, _, _)
DrawRows(b, left, source, rows) ==
    IF rows = 0 THEN <<>>
    ELSE LET r == DrawRow(b, left, source, 0, <<>>)
             next == IF r.source < Len(b) /\ b[r.source + 1] = NL THEN r.source + 1 ELSE r.source
         IN <<r.out>> \o DrawRows(b, left, next, rows - 1)

Below(x, limit) == IF x >= limit THEN limit - 1 ELSE x

\* Mutant: the row of the cursor is counted from the first line of the text.
CursorUnscrolled(b, p, top, left) ==
    [x |-> Below(IF column(b, p) >= left THEN column(b, p) - left ELSE 0, width),
     y |-> Below(nano_line_of(b, p) + 1, height - 3)]

Cursor(b, p, top, left) ==
    [x |-> Below(IF column(b, p) >= left THEN column(b, p) - left ELSE 0, width),
     y |-> Below(IF nano_line_of(b, p) >= top THEN nano_line_of(b, p) - top + 1 ELSE 1, height - 3)]

-----------------------------------------------------------------------------
(* c_nano: a key, and the turn of the loop that shows what it did          *)

\* The first of `size` that are shown so that x is among them.
Scrolled(first, x, size) ==
    IF x < first THEN x ELSE IF x >= first + size THEN x - size + 1 ELSE first

Show(b, p, top, left) ==
    /\ nano_buffer' = b /\ position' = p
    /\ top_line' = Scrolled(top, nano_line_of(b, p), body)
    /\ left_column' = Scrolled(left, column(b, p), width)
    /\ cells' = DrawRows(b, left_column', nano_position_for_line(b, top_line'), body)
    /\ cursor' = Cursor(b, p, top_line', left_column')

Insert(b, p, c) == SubSeq(b, 1, p) \o <<c>> \o SubSeq(b, p + 1, Len(b))
Erase(b, p) == SubSeq(b, 1, p) \o SubSeq(b, p + 2, Len(b))

Type(c) ==
    /\ Len(nano_buffer) < Capacity
    /\ Show(Insert(nano_buffer, position, c), position + 1, top_line, left_column)

Backspace ==
    /\ position > 0
    /\ Show(Erase(nano_buffer, position - 1), position - 1, top_line, left_column)

Go(p) == Show(nano_buffer, p, top_line, left_column)

Lesser(a, b) == IF a < b THEN a ELSE b

Up ==
    LET b == nano_buffer
        start == nano_line_start(b, position)
    IN /\ start > 0
       /\ Go(Lesser(nano_line_start(b, start - 1) + column(b, position), start - 1))

Down ==
    LET b == nano_buffer
        end == nano_line_end(b, position)
    IN /\ end < Len(b)
       /\ Go(Lesser(end + 1 + column(b, position), nano_line_end(b, end + 1)))

Sideways ==
    \/ position > 0 /\ Go(position - 1)
    \/ position < Len(nano_buffer) /\ Go(position + 1)
    \/ Go(nano_line_start(nano_buffer, position))
    \/ Go(nano_line_end(nano_buffer, position))

Init ==
    /\ nano_buffer = <<>> /\ position = 0 /\ top_line = 0 /\ left_column = 0
    /\ cells = DrawRows(<<>>, 0, 0, body) /\ cursor = Cursor(<<>>, 0, 0, 0)

Next ==
    \/ \E c \in Letters \cup {NL, TAB} : Type(c)
    \/ Backspace \/ Up \/ Down \/ Sideways

Spec == Init /\ [][Next]_vars

-----------------------------------------------------------------------------
(* Properties                                                              *)

\* A line on the screen that is drawn to its end: a longer one goes on in the next row.
Drawn(line) ==
    LET start == nano_position_for_line(nano_buffer, line)
        r == DrawRow(nano_buffer, left_column, start, 0, <<>>)
    IN r.source = nano_line_end(nano_buffer, start)

\* The cursor is on the character the next key acts on, or on the blank behind the end of its
\* line, wherever the view has been scrolled to.  A tab in front of the cursor and a line
\* above it that is wider than the screen are the exceptions the code has: the cursor counts
\* characters and lines, the drawing counts cells and goes on in the next row.
CursorOnText ==
    LET line == nano_line_of(nano_buffer, position)
        start == nano_line_start(nano_buffer, position)
        under == cells[cursor.y][cursor.x + 1]
    IN (/\ \A i \in start + 1..position : nano_buffer[i] # TAB
        /\ \A l \in top_line..line : l < line => Drawn(l))
       => IF position = nano_line_end(nano_buffer, position) THEN under = blank ELSE under = position + 1
=============================================================================
