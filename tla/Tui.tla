-------------------------------- MODULE Tui --------------------------------
\* user/libtui: the window and widget library of the full-screen programs.  The
\* library's static data is one record, `u` below, and a library call is an
\* operator on it.  A buffer of cells is kept as one picture per window, or
\* Nothing where the window is not on the screen.
EXTENDS Integers, Sequences, SequencesExt

CONSTANTS
    MaxWindows,   \* TUI_MAX_WINDOWS
    Chars,        \* printable keys; " " is one of them
    Cols,         \* columns of a text box
    Rows,         \* rows of a list
    MaxText       \* longest text that a text box takes

VARIABLES
    app,          \* the program in the foreground, or "shell"
    ui,           \* libtui's static data
    st,           \* the program's own variables
    owned         \* terminal_owned: a program has acquired the terminal

Nothing == <<>>
Unknown == <<"unknown">>          \* front buffer cells that were never written

Inputs == {"text", "password"}
Lists == {"list", "table"}

----------------------------------------------------------------------------
\* Widgets.  Everything but the type, the text and the items starts at zero.  A text
\* is a sequence: of keys in a text box, of the parts of a message elsewhere.
Widget(type, text) ==
    [type |-> type, text |-> text, visible |-> TRUE, focused |-> FALSE, checked |-> FALSE,
     value |-> 0, scroll |-> 0, cursor |-> 0, insert_mode |-> TRUE, width |-> 1,
     items |-> <<>>, selected |-> 0, activate |-> ""]

\* A label is as wide as the text it is created with.
Label(text) == [Widget("label", text) EXCEPT !.width = IF text = Nothing THEN 0 ELSE 1]
Button(text) == Widget("button", text)
Handler(text, handler) == [Button(text) EXCEPT !.activate = handler]
Textbox(initial) == [Widget("text", initial) EXCEPT !.cursor = Len(initial)]
Password(initial) == [Textbox(initial) EXCEPT !.type = "password"]
Listbox(items) == [Widget("list", Nothing) EXCEPT !.items = items]
Table(items) == [Listbox(items) EXCEPT !.type = "table"]

Focusable(w) == w.visible /\ w.type \notin {"label", "status", "progress"}

\* Where the first shown character or row lies so that `at` is among the n shown.
InView(scroll, at, n) ==
    IF at < scroll THEN at ELSE IF at >= scroll + n THEN at - n + 1 ELSE scroll

\* Drawing a text box or a list moves its scroll position.
Draw(w) ==
    IF ~w.visible THEN w
    ELSE IF w.type \in Inputs THEN [w EXCEPT !.scroll = InView(@, w.cursor, Cols)]
    ELSE IF w.type \in Lists THEN [w EXCEPT !.scroll = InView(@, w.selected, Rows)]
    ELSE w

Shown(s, scroll, n) == SubSeq(s, scroll + 1, IF scroll + n < Len(s) THEN scroll + n ELSE Len(s))

\* What drawing a widget leaves in the cells.
Picture(w) ==
    IF ~w.visible THEN Nothing
    ELSE <<w.type, w.focused,
           CASE w.type = "text" -> <<Shown(w.text, w.scroll, Cols), w.cursor - w.scroll>>
             [] w.type = "password" -> <<Len(Shown(w.text, w.scroll, Cols)), w.cursor - w.scroll>>
             [] w.type \in Lists -> <<Shown(w.items, w.scroll, Rows), w.selected - w.scroll>>
             [] w.type = "radio" -> <<w.text, w.checked>>
             [] w.type = "progress" -> w.value
             [] w.type = "view" -> <<w.text, w.scroll>>
             [] OTHER -> IF w.width = 0 THEN Nothing ELSE w.text>>

Paint(win) == IF win.visible THEN [i \in DOMAIN win.children |-> Picture(Draw(win.children[i]))]
              ELSE Nothing

----------------------------------------------------------------------------
\* screen.c

\* tui_initialize and tui_app_create.
tui_initialize ==
    [windows |-> <<>>, back |-> <<>>, front |-> Unknown, cursor |-> Nothing, running |-> TRUE,
     redraw |-> TRUE, dirty |-> TRUE, dialog |-> Nothing, fired |-> ""]

tui_request_redraw(u) == [u EXCEPT !.redraw = TRUE, !.dirty = TRUE]

Full(u) == Len(u.windows) >= MaxWindows

\* tui_window_create and the creation of the window's widgets; windows are never reused.
tui_window_create(u, children) ==
    IF Full(u) THEN u
    ELSE [u EXCEPT !.windows = Append(@, [visible |-> TRUE, focus_index |-> 1, children |-> children]),
                   !.back = Append(@, Nothing), !.dirty = TRUE]

\* A destroyed window is never shown again; its widgets are dropped.
tui_window_destroy(u, i) ==
    [u EXCEPT !.windows[i] = [visible |-> FALSE, focus_index |-> 0, children |-> <<>>], !.dirty = TRUE]

\* tui_widget_repaint, for child c of window i: the widget's cells, then the dirty mark.
Redrawn(u, i, c) ==
    LET w == u.windows[i].children[c] IN
    IF ~w.visible \/ ~u.windows[i].visible THEN u
    ELSE [u EXCEPT !.windows[i].children[c] = Draw(w),
                   !.back[i] = IF @ = Nothing THEN @ ELSE [@ EXCEPT ![c] = Picture(Draw(w))]]

tui_widget_repaint(u, i, c) ==
    [Redrawn(u, i, c) EXCEPT !.dirty = @ \/ (u.windows[i].visible /\ u.windows[i].children[c].visible)]

FocusedInput(win) ==
    SelectInSeq(win.children, LAMBDA w : w.focused /\ w.type \in Inputs)

\* tui_update_cursor: the first window from the top that has a focused text box.
tui_update_cursor(u) ==
    LET i == SelectLastInSeq(u.windows, LAMBDA w : w.visible /\ FocusedInput(w) # 0)
        w == u.windows[i].children[FocusedInput(u.windows[i])]
    IN IF i = 0 THEN Nothing ELSE <<i, FocusedInput(u.windows[i]), w.cursor - w.scroll>>

\* tui_render: a requested redraw repaints every visible window; then the cells
\* that differ go to the terminal.
tui_render(u) ==
    LET v == IF ~u.redraw THEN u
             ELSE [u EXCEPT !.windows = [i \in DOMAIN @ |->
                                IF @[i].visible
                                THEN [@[i] EXCEPT !.children = [c \in DOMAIN @ |-> Draw(@[c])]]
                                ELSE @[i]],
                            !.back = [i \in DOMAIN @ |-> Paint(u.windows[i])],
                            !.redraw = FALSE, !.dirty = TRUE]
    IN IF v.dirty THEN [v EXCEPT !.front = v.back, !.cursor = tui_update_cursor(v), !.dirty = FALSE]
       ELSE v

----------------------------------------------------------------------------
\* widgets.c

\* tui_widget_set_focus, for child c of window i.
tui_widget_set_focus(u, i, c) ==
    LET v == [u EXCEPT !.windows[i].focus_index = c,
                       !.windows[i].children = [k \in DOMAIN @ |-> [@[k] EXCEPT !.focused = (k = c)]]]
    IN IF u.windows[i].children[c].focused THEN tui_widget_repaint(v, i, c)
       ELSE tui_request_redraw(v)

\* The nearest focusable child after (by = 1) or before (by = -1) the focus, or 0.
Neighbour(win, by) ==
    LET n == Len(win.children)
        at(k) == ((win.focus_index - 1 + by * k + n * n) % n) + 1
        k == SelectInSeq([j \in 1..n |-> at(j)], LAMBDA c : Focusable(win.children[c]))
    IN IF k = 0 THEN 0 ELSE at(k)

focus_move(u, i, by) ==
    LET c == Neighbour(u.windows[i], by) IN IF c = 0 THEN u ELSE tui_widget_set_focus(u, i, c)

\* edit: one key in a text box; `cursor` counts the characters before the cursor.
edit(w, key) ==
    LET n == Len(w.text)  p == w.cursor  IN
    CASE key = "Left" /\ p > 0 -> [w EXCEPT !.cursor = p - 1]
      [] key = "Right" /\ p < n -> [w EXCEPT !.cursor = p + 1]
      [] key = "Home" -> [w EXCEPT !.cursor = 0]
      [] key = "End" -> [w EXCEPT !.cursor = n]
      [] key = "Insert" -> [w EXCEPT !.insert_mode = ~@]
      [] key = "BS" /\ p > 0 -> [w EXCEPT !.cursor = p - 1, !.text = RemoveAt(@, p)]
      [] key = "Delete" /\ p < n -> [w EXCEPT !.text = RemoveAt(@, p + 1)]
      [] key \in Chars /\ n < MaxText ->
            [w EXCEPT !.cursor = p + 1,
                      !.text = IF w.insert_mode \/ p = n THEN InsertAt(@, p + 1, key)
                               ELSE ReplaceAt(@, p + 1, key)]
      [] OTHER -> w

\* Where a key moves the selection of a list of n > 0 rows.
Select(w, key) ==
    LET n == Len(w.items)  s == w.selected  IN
    CASE key = "Up" /\ s > 0 -> s - 1
      [] key = "Down" /\ s + 1 < n -> s + 1
      [] key = "Home" -> 0
      [] key = "End" -> n - 1
      [] key = "PageUp" -> IF s > Rows THEN s - Rows ELSE 0
      [] key = "PageDown" -> IF s + Rows >= n THEN n - 1 ELSE s + Rows
      [] OTHER -> s

\* tui_dispatch_event on window i.  `fired` is the handler the key activates.
tui_dispatch_event(u, i, key) ==
    LET win == u.windows[i]  c == win.focus_index  w == win.children[c] IN
    CASE key \in {"^C", "F10", "Esc"} -> [u EXCEPT !.running = FALSE]
      [] key = "Tab" -> focus_move(u, i, 1)
      [] key = "BackTab" -> focus_move(u, i, -1)
      [] ~Focusable(w) /\ key \notin {"^C", "F10", "Esc", "Tab", "BackTab"} -> focus_move(u, i, 1)
      [] OTHER ->
            CASE w.type \in Inputs ->
                    tui_widget_repaint([u EXCEPT !.windows[i].children[c] = edit(w, key)], i, c)
              [] w.type \in Lists ->
                    tui_request_redraw([u EXCEPT !.windows[i].children[c].selected = Select(w, key)])
              [] w.type = "radio" /\ key \in {" ", "Enter"} ->
                    tui_request_redraw([u EXCEPT !.windows[i].children[c].checked = ~@])
              [] w.type = "button" /\ key \in {" ", "Enter"} -> [u EXCEPT !.fired = w.activate]
              [] OTHER -> u

----------------------------------------------------------------------------
\* dialog.c.  A dialog runs its own loop; `dialog` says which one is open and, in
\* `tag`, where the program goes on when it returns.

\* tui_message_box up to its first wait.
tui_message_box(u, tag, message) ==
    tui_render(tui_request_redraw(
        [tui_window_create(u, <<Label(message), Button(<<"OK">>)>>) EXCEPT
            !.dialog = [kind |-> "message", tag |-> tag, message |-> message]]))

\* tui_input_box up to its first wait.
tui_input_box(u, tag, initial) ==
    LET v == tui_window_create(u, <<Label(<<tag>>), Textbox(initial)>>) IN
    tui_render(tui_request_redraw(
        [tui_widget_set_focus(v, Len(v.windows), 2) EXCEPT
            !.dialog = [kind |-> "input", tag |-> tag, message |-> Nothing]]))

Waiting == ui # Nothing                \* a full-screen program waits for a key
InDialog == Waiting /\ ui.dialog # Nothing
AtMain == Waiting /\ ui.dialog = Nothing

\* The box at the top is closed.
Closed(u) == [tui_window_destroy(u, Len(u.windows)) EXCEPT !.dialog = Nothing]

\* One key in a message box: <<TRUE, answer>> when it returns.
BoxAnswer(key) ==
    CASE key \in {"Enter", " "} -> <<TRUE, "yes">>
      [] key \in {"Esc", "F10"} -> <<TRUE, "no">>
      [] OTHER -> <<FALSE, "">>

InputText == ui.windows[Len(ui.windows)].children[2].text

\* One key in an input box that does not close it: dispatched to a program of one
\* window whose `running` nobody reads.
InputKey(u, key) ==
    tui_render([tui_dispatch_event(u, Len(u.windows), key) EXCEPT !.running = TRUE])

----------------------------------------------------------------------------
Keys == Chars \cup {"Enter", "Esc", "Tab", "BackTab", "BS", "^C", "Up", "Down", "Left", "Right",
                    "Home", "End", "PageUp", "PageDown", "Insert", "Delete",
                    "F1", "F3", "F5", "F6", "F7", "F8", "F10"}

\* tui_shutdown and the return to the shell; the next program starts afresh.
Exit == app' = "shell" /\ ui' = Nothing /\ st' = Nothing /\ owned' = FALSE

\* A program starts: terminal_acquire succeeds, the program draws itself and waits.
Begin(name, u, s) ==
    /\ app = "shell" /\ ~owned /\ app' = name /\ ui' = u /\ st' = s /\ owned' = TRUE

\* The program goes on and waits for the next key.
Stay(u, s) == ui' = u /\ st' = s /\ UNCHANGED <<app, owned>>
=============================================================================
