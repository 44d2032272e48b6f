------------------------------ MODULE Desktop ------------------------------
\* kernel/core/desktop.c and window_manager.c: the windows, their clients, and the
\* mouse and keyboard of the desktop.  One step is one turn of desktop_run's loop.
EXTENDS Integers, Sequences, SequencesExt, FiniteSets

CONSTANTS
    MaxWindows,                 \* WM_MAX_WINDOWS
    ScreenWidth, ScreenHeight,
    Spots,                      \* where the pointer goes: <<x, y>>
    MaxIds                      \* windows that are ever opened

VARIABLES
    windows,        \* manager.windows: a record, or Free
    clients,        \* clients[]: the kind of a used one, or Unused
    layout, next_id,
    menu, pointer, button,      \* button: old_buttons & 1
    drag,           \* <<id, dx, dy>> while dragging, or Free
    scene           \* what render last painted

vars == <<windows, clients, layout, next_id, menu, pointer, button, drag, scene>>

Free == <<>>
Unused == ""
Slots == 1..MaxWindows
Used(ws) == {i \in Slots : ws[i] # Free}
Order(ws) == SetToSortSeq(Used(ws), <)

----------------------------------------------------------------------------
\* window_manager.c, on the windows ws.  Ids are unique, and a slot stands for its id
\* within one step.
wm_focused(ws) == SelectInSeq(ws, LAMBDA w : w # Free /\ w.focused)
wm_by_id(ws, id) == SelectInSeq(ws, LAMBDA w : w # Free /\ w.id = id)

Place(w, x, y, width, height) == [w EXCEPT !.x = x, !.y = y, !.width = width, !.height = height]

tile(ws, lay) ==
    LET n == Cardinality(Used(ws))
        x == 8  y == 44  w == ScreenWidth - 16  h == ScreenHeight - 96
        left == (w * 3) \div 5
        rh == h \div (n - 1)
        put(i) == LET seen == Cardinality({j \in Used(ws) : j < i})
                      top == y + (seen - 1) * rh
                  IN CASE n = 1 -> Place(ws[i], x, y, w, h)
                       [] n > 1 /\ seen = 0 -> Place(ws[i], x, y, left - 3, h)
                       [] OTHER -> Place(ws[i], x + left + 3, top, w - left - 3,
                                         IF seen = n - 1 THEN y + h - top ELSE rh - 3)
    IN IF lay # "tiled" THEN ws ELSE [i \in Slots |-> IF ws[i] = Free THEN Free ELSE put(i)]

\* Mutant: the focus is given and taken from nobody.
FocusAdds(ws, slot) == IF slot = 0 THEN ws ELSE [ws EXCEPT ![slot].focused = TRUE]

wm_focus(ws, slot) == [i \in Slots |-> IF ws[i] = Free THEN Free ELSE [ws[i] EXCEPT !.focused = (i = slot)]]

\* wm_create in the first free slot (there is one), then tiled.
Placed(ws, client) ==
    LET slot == Min(Slots \ Used(ws))
        w == [id |-> next_id, client |-> client, focused |-> TRUE, x |-> 36 + (slot - 1) * 28,
              y |-> 54 + (slot - 1) * 24, width |-> ScreenWidth - 144, height |-> ScreenHeight - 160]
    IN [wm_focus(ws, 0) EXCEPT ![slot] = w]

wm_create(ws, client) == tile(Placed(ws, client), layout)

\* wm_close: the last used slot gets the focus, whoever has it.
wm_close(ws, slot) ==
    LET rest == [ws EXCEPT ![slot] = Free]
        last == Max(Used(rest))
    IN tile(IF Used(rest) = {} THEN rest ELSE [rest EXCEPT ![last].focused = TRUE], layout)

\* wm_focus_next: the next id, or the lowest.
wm_focus_next(ws) ==
    LET current == IF wm_focused(ws) = 0 THEN 0 ELSE ws[wm_focused(ws)].id
        ids == {ws[i].id : i \in Used(ws)}
        later == {id \in ids : id > current}
    IN IF ids = {} THEN ws ELSE wm_focus(ws, wm_by_id(ws, Min(IF later # {} THEN later ELSE ids)))

\* wm_move, with the window kept off the panels.
wm_move(ws, id, x, y) ==
    LET slot == wm_by_id(ws, id)
        w == ws[slot]
        low(v, min) == IF v < min THEN min ELSE v
        high(v, max) == IF v > max THEN max ELSE v
    IN IF slot = 0 \/ layout # "floating" THEN ws
       ELSE [ws EXCEPT ![slot].x = high(low(x, 0), ScreenWidth - w.width),
                       ![slot].y = high(low(y, 36), ScreenHeight - 44 - w.height)]

Covers(w, p) == p[1] >= w.x /\ p[2] >= w.y /\ p[1] < w.x + w.width /\ p[2] < w.y + w.height

\* Mutant: the focused window is not looked at first.
AtBySlot(ws, p) == LET hit == {i \in Used(ws) : Covers(ws[i], p)} IN IF hit = {} THEN 0 ELSE Max(hit)

wm_at(ws, p) ==
    LET hit == {i \in Used(ws) : Covers(ws[i], p)}
        first == {i \in hit : ws[i].focused}
    IN IF first # {} THEN Min(first) ELSE IF hit # {} THEN Max(hit) ELSE 0

----------------------------------------------------------------------------
\* desktop.c.  A change of windows and clients is a pair.

\* new_terminal and new_image.
Open(kind) ==
    LET c == Min({i \in Slots : clients[i] = Unused}) IN
    IF \A i \in Slots : clients[i] # Unused THEN <<windows, clients>>
    ELSE <<wm_create(windows, c), [clients EXCEPT ![c] = kind]>>

close_window(ws, slot) == <<wm_close(ws, slot), [clients EXCEPT ![ws[slot].client] = Unused]>>

\* run_command: what it does to the windows; any other command is output in the window.
run_command(slot, command) ==
    CASE command = "exit" -> close_window(windows, slot)
      [] command = "view" -> Open("image")
      [] OTHER -> <<windows, clients>>

\* render: unfocused windows in slot order, then the focused ones.
Painted(ws) == SelectSeq(Order(ws), LAMBDA i : ~ws[i].focused) \o SelectSeq(Order(ws), LAMBDA i : ws[i].focused)
render(ws, lay, m) == <<[k \in DOMAIN Painted(ws) |-> ws[Painted(ws)[k]]], lay, m>>

Result(change) ==
    /\ windows' = change[1] /\ clients' = change[2]
    /\ next_id' = next_id + (IF Used(change[1]) \subseteq Used(windows) THEN 0 ELSE 1)
Repaint == scene' = render(windows', layout', menu')

Same == <<windows, clients>>

\* F5 and the menu's third entry.
wm_toggle_layout ==
    LET to == IF layout = "tiled" THEN "floating" ELSE "tiled" IN
    layout' = to /\ windows' = tile(windows, to) /\ UNCHANGED <<clients, next_id>>

MenuButton(p) == p[2] < 36 /\ p[1] < 135

\* The menu is open or the press opens it.
PressMenu(p) ==
    /\ MenuButton(p) \/ menu
    /\ menu' = (~menu /\ MenuButton(p))
    /\ IF menu /\ p[2] \in 132..161 THEN wm_toggle_layout
       ELSE /\ Result(IF menu /\ p[2] \in 36..71 THEN Open("terminal")
                      ELSE IF menu /\ p[2] \in 72..101 THEN Open("image") ELSE Same)
            /\ UNCHANGED layout
    /\ UNCHANGED drag

\* The task bar; task_window_at.
PressTask(p) ==
    LET k == (p[1] - 10) \div 122 + 1 IN
    /\ ~menu /\ ~MenuButton(p) /\ p[2] > ScreenHeight - 44
    /\ Result(IF p[1] >= 10 /\ k \in DOMAIN Order(windows)
              THEN <<wm_focus(windows, Order(windows)[k]), clients>> ELSE Same)
    /\ UNCHANGED <<menu, layout, drag>>

\* A window: its close button, its title bar, or the rest of it.
PressWindow(p) ==
    LET slot == wm_at(windows, p)
        w == windows[slot]
        ws == wm_focus(windows, slot)
    IN /\ ~menu /\ ~MenuButton(p) /\ p[2] <= ScreenHeight - 44 /\ slot # 0
       /\ IF p[1] >= w.x + w.width - 30 /\ p[2] < w.y + 32
          THEN Result(close_window(ws, slot)) /\ UNCHANGED drag
          ELSE /\ Result(<<ws, clients>>)
               /\ drag' = IF layout = "floating" /\ p[2] < w.y + 32
                          THEN <<w.id, p[1] - w.x, p[2] - w.y>> ELSE drag
       /\ UNCHANGED <<menu, layout>>

\* The icons on the background; Files and System also run a command in the new window.
PressIcon(p) ==
    /\ ~menu /\ ~MenuButton(p) /\ p[2] <= ScreenHeight - 44 /\ wm_at(windows, p) = 0
    /\ Result(IF p[2] \notin 54..131 THEN Same
              ELSE CASE p[1] \in 160..223 -> Open("image")
                     [] p[1] \in (16..81) \cup (88..153) \cup (232..301) -> Open("terminal")
                     [] OTHER -> Same)
    /\ UNCHANGED <<menu, layout, drag>>

\* A mouse packet: movement, or a change of the button.
MouseMove(p) ==
    /\ pointer' = p /\ UNCHANGED <<clients, layout, next_id, menu, button, drag>>
    /\ windows' = IF drag # Free THEN wm_move(windows, drag[1], p[1] - drag[2], p[2] - drag[3]) ELSE windows
    /\ IF drag # Free THEN Repaint ELSE UNCHANGED scene

MousePress ==
    /\ ~button /\ button' = TRUE /\ UNCHANGED pointer
    /\ PressMenu(pointer) \/ PressTask(pointer) \/ PressWindow(pointer) \/ PressIcon(pointer)
    /\ Repaint

MouseRelease ==
    button /\ button' = FALSE /\ drag' = Free
    /\ UNCHANGED <<windows, clients, layout, next_id, menu, pointer, scene>>

KeyEsc == menu /\ menu' = FALSE /\ UNCHANGED <<windows, clients, layout, next_id>>
KeyF2 == Result(Open("terminal")) /\ UNCHANGED <<menu, layout>>
KeyF3 == Result(<<wm_focus_next(windows), clients>>) /\ UNCHANGED <<menu, layout>>
KeyF4 == wm_focused(windows) # 0 /\ Result(close_window(windows, wm_focused(windows))) /\ UNCHANGED <<menu, layout>>
KeyF5 == wm_toggle_layout /\ UNCHANGED menu
KeyT == Used(windows) = {} /\ Result(Open("terminal")) /\ UNCHANGED <<menu, layout>>

\* Enter in the focused terminal.
KeyEnter ==
    LET slot == wm_focused(windows) IN
    /\ slot # 0 /\ clients[windows[slot].client] = "terminal"
    /\ \E command \in {"exit", "view", "other"} : Result(run_command(slot, command))
    /\ UNCHANGED <<menu, layout>>

Key == (KeyEsc \/ KeyF2 \/ KeyF3 \/ KeyF4 \/ KeyF5 \/ KeyT \/ KeyEnter) /\ Repaint /\ UNCHANGED <<pointer, button, drag>>

----------------------------------------------------------------------------
Init ==
    /\ windows = [i \in Slots |-> Free] /\ clients = [i \in Slots |-> Unused]
    /\ layout = "floating" /\ next_id = 1 /\ menu = FALSE /\ pointer \in Spots /\ button = FALSE
    /\ drag = Free /\ scene = render(windows, layout, menu)

Next == (Key \/ MousePress \/ MouseRelease \/ \E p \in Spots : MouseMove(p)) /\ next_id' <= MaxIds + 1

Spec == Init /\ [][Next]_vars

\* Exactly one window has the focus when there is any, so that a key has one receiver;
\* and every used client slot belongs to exactly one window, so that no slot is lost or
\* shared (wm_close gives the focus away without taking it from anyone).
OneFocus ==
    /\ Used(windows) # {} => Cardinality({i \in Used(windows) : windows[i].focused}) = 1
    /\ \A c \in Slots : clients[c] # Unused <=> Cardinality({i \in Used(windows) : windows[i].client = c}) = 1

\* The order of wm_at is the order of render: of the windows at a place it finds the one
\* that was painted last over it, which is the one a press there goes to, the panels and an
\* open menu apart (with the menu open desktop_run looks at y only and asks no window).
PressHitsTop ==
    \A p \in Spots :
        LET over == SelectSeq(scene[1], LAMBDA w : Covers(w, p)) IN
        IF over = <<>> THEN wm_at(windows, p) = 0
        ELSE wm_at(windows, p) # 0 /\ windows[wm_at(windows, p)] = Last(over)

\* Tiled windows lie between the panels and do not overlap (tile).
TilesApart ==
    layout = "tiled" =>
        \A i \in Used(windows) : LET v == windows[i] IN
            /\ v.width > 0 /\ v.height > 0 /\ v.x >= 0 /\ v.y >= 36
            /\ v.x + v.width <= ScreenWidth /\ v.y + v.height <= ScreenHeight - 44
            /\ \A j \in Used(windows) \ {i} : LET u == windows[j] IN
                  v.x + v.width <= u.x \/ u.x + u.width <= v.x \/ v.y + v.height <= u.y \/ u.y + u.height <= v.y
=============================================================================
