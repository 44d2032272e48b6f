------------------------------ MODULE Userland ------------------------------
\* The programs that the shell runs in the foreground, one at a time.
EXTENDS Tui, FiniteSets

CONSTANTS
    InitialFiles,           \* the files that exist at first
    Cwd,                    \* the shell's working directory
    MaxTyped,               \* characters in the text boxes of a program
    MaxDepth, MaxChanges,   \* slashes in the path of a panel, and changes of `files`, that are explored
    Letters,                \* printable keys of the editors; "y" and "n" are among them
    Newline, Tabulator,     \* what Enter and Tab type
    Width,                  \* columns of the screen of edit
    Capacity,               \* characters in the buffer
    CutCapacity,            \* sizeof nano_cut
    Body                    \* rows of text on the screen

VARIABLES
    files,                  \* every place that is in use: "file" or "dir"
    doc,                    \* the file that is edited: its text, or Missing or Huge
    cut                     \* nano_cut, kept from one nano to the next

----------------------------------------------------------------------------
\* The editors: `edit` (user/apps/edit) and the shell's nano (c_nano).  Both hold one
\* file in a buffer; `doc` is that file, which nobody else writes meanwhile, or NoDoc
\* where no editor is used.

NoDoc == <<"none">>
Missing == <<"missing">>
Huge == <<"huge">>          \* longer than the buffer: the read fails

----------------------------------------------------------------------------
\* Positions: p characters of the text t lie before the cursor.

line_start(t, p) == Max({0} \cup {q \in 1..p : t[q] = Newline})
line_end(t, p) == Min({Len(t)} \cup {q \in p..Len(t)-1 : t[q+1] = Newline})
line_at(t, p) == Cardinality({q \in 1..p : t[q] = Newline})
find_line(t, n) == Min({Len(t)} \cup {p \in 0..Len(t) : line_at(t, p) = n})
column(t, p) == p - line_start(t, p)

\* vertical, and nano's Up and Down: the same column in the next line or its end.
vertical(t, p, by) ==
    LET line == line_at(t, p) + by
        start == find_line(t, line)
    IN IF line < 0 \/ line > line_at(t, Len(t)) THEN p
       ELSE Min({start + column(t, p), line_end(t, start)})

\* n steps of a page movement.
Repeat(step(_), p, n) == LET f[k \in 0..n] == IF k = 0 THEN p ELSE step(f[k-1]) IN f[n]

\* nano's PgUp goes to the end of the line before, nano's PgDn to the start of the next.
PageUp(t, p) ==
    line_start(t, Repeat(LAMBDA q : IF line_start(t, q) = 0 THEN 0 ELSE line_start(t, q) - 1, p, Body))
PageDown(t, p) == Repeat(LAMBDA q : Min({Len(t), line_end(t, q) + 1}), p, Body)

----------------------------------------------------------------------------
\* What opening the file puts into the buffer.
Readable == IF doc \in {Missing, Huge} THEN <<>> ELSE doc

\* The editor's variables, and `warned`, not in the code: the user was asked about
\* leaving with this very text.
Opened ==
    [text |-> Readable, position |-> 0, top_line |-> 0, changed |-> FALSE, quit_armed |-> FALSE,
     warned |-> FALSE]

\* Mutant: the last row of the text is one row too low.
DrawnLate(s) == [s EXCEPT !.top_line = InView(@, line_at(s.text, s.position), Body + 1)]

\* Drawing moves top_line so that the cursor's line is shown.
Drawn(s) == [s EXCEPT !.top_line = InView(@, line_at(s.text, s.position), Body)]

\* The rows of the screen of edit, from the first line shown: a tab is drawn as blanks up
\* to the next column of four, and what does not fit is cut.
Cells(line) ==
    LET put(row, c) == row \o (IF c = Tabulator THEN [i \in 1..4 - (Len(row) % 4) |-> " "] ELSE <<c>>)
        all == FoldLeft(put, <<>>, line)
    IN SubSeq(all, 1, Min({Width, Len(all)}))

EditRows(s) ==
    LET t == s.text
        at[r \in 0..Body] == IF r = 0 THEN find_line(t, s.top_line) ELSE Min({Len(t), line_end(t, at[r-1]) + 1})
    IN [r \in 0..Body-1 |-> Cells(SubSeq(t, at[r] + 1, line_end(t, at[r])))]

\* Where edit puts the cursor: it counts characters.
EditCursor(s) ==
    [x |-> Min({column(s.text, s.position), Width - 1}), y |-> line_at(s.text, s.position) - s.top_line]

Move(s, p) == [s EXCEPT !.position = p]

\* Mutant: typing leaves quit_armed set.
InsertArmed(s, c) ==
    IF Len(s.text) >= Capacity THEN s
    ELSE [s EXCEPT !.text = InsertAt(@, s.position + 1, c), !.position = @ + 1, !.changed = TRUE]

insert(s, c) ==
    IF Len(s.text) >= Capacity THEN s
    ELSE [s EXCEPT !.text = InsertAt(@, s.position + 1, c), !.position = @ + 1,
                   !.changed = TRUE, !.quit_armed = FALSE]

\* erase, at the position p.
erase(s, p) ==
    IF p >= Len(s.text) THEN s
    ELSE [s EXCEPT !.text = RemoveAt(@, p + 1), !.position = Min({@, Len(s.text) - 1}),
                   !.changed = TRUE, !.quit_armed = FALSE]

\* A key that moves the cursor in either editor.
Movement(s, code) ==
    LET t == s.text  p == s.position IN
    CASE code = "0x13" -> Max({0, p - 1})
      [] code = "Right" -> Min({Len(t), p + 1})
      [] code = "0x11" -> vertical(t, p, -1)
      [] code = "Down" -> vertical(t, p, 1)
      [] code = "Home" -> line_start(t, p)
      [] code = "End" -> line_end(t, p)
      [] OTHER -> p

\* A key that changes the text in either editor.
Typed(s, code) ==
    CASE code = "Delete" -> erase(s, s.position)
      [] code = "BS" /\ s.position > 0 -> erase(Move(s, s.position - 1), s.position - 1)
      [] code = "Enter" -> insert(s, Newline)
      [] code = "Tab" -> insert(s, Tabulator)
      [] code \in Letters -> insert(s, code)
      [] OTHER -> s

\* The keyboard sends the same code for Up and Ctrl+Q, and for Left and Ctrl+S.
Code(key) == CASE key \in {"Up", "^Q"} -> "0x11" [] key \in {"Left", "^S"} -> "0x13" [] OTHER -> key

\* vfs_write, which may fail: the text is on disk, or nothing changed.
Written(s) == [s EXCEPT !.changed = FALSE, !.quit_armed = FALSE]
Save(done, failed) ==
    \/ doc' = st.text /\ done
    \/ doc' = doc /\ failed

Continue(s) == Stay(ui, [Drawn(s) EXCEPT !.warned = @ /\ s.text = st.text])

----------------------------------------------------------------------------
EditStart == doc # NoDoc /\ Begin("edit", Nothing, Drawn(Opened)) /\ UNCHANGED <<doc, cut>>

EditSave == Save(Continue(Written(st)), Continue(st))

EditQuit ==
    /\ IF st.changed /\ ~st.quit_armed
       THEN Continue([st EXCEPT !.quit_armed = TRUE, !.warned = TRUE])
       ELSE Exit
    /\ UNCHANGED doc

EditMove(code) ==
    Continue(Move(st, CASE code = "PageUp" ->
                              Repeat(LAMBDA p : vertical(st.text, p, -1), st.position, 10)
                        [] code = "PageDown" ->
                              Repeat(LAMBDA p : vertical(st.text, p, 1), st.position, 10)
                        [] OTHER -> Movement(st, code)))

\* The main loop of edit: the codes of saving and quitting come before the arrows.
EditKey(key) ==
    LET code == Code(key) IN
    /\ app = "edit" /\ UNCHANGED cut
    /\ CASE code = "0x13" -> EditSave
         [] code \in {"0x11", "^C"} -> EditQuit
         [] code \in Letters \cup {"Enter", "Tab", "BS", "Delete"} -> Continue(Typed(st, code)) /\ UNCHANGED doc
         [] OTHER -> EditMove(code) /\ UNCHANGED doc

----------------------------------------------------------------------------
\* nano draws on the shell's own terminal: it does not acquire it.
NanoStart ==
    /\ doc # NoDoc /\ app = "shell" /\ app' = "nano" /\ st' = Drawn(Opened) /\ UNCHANGED <<ui, owned, doc, cut>>

\* Ctrl+X; with changes, `quit_armed` stands for the question on the status line.
NanoExit ==
    /\ IF st.changed THEN Continue([st EXCEPT !.quit_armed = TRUE, !.warned = TRUE]) ELSE Exit
    /\ UNCHANGED <<doc, cut>>

NanoAnswer(key) ==
    /\ CASE key = "y" -> Save(Exit, Continue([st EXCEPT !.quit_armed = FALSE]))
         [] key = "n" -> Exit /\ UNCHANGED doc
         [] OTHER -> Continue([st EXCEPT !.quit_armed = FALSE]) /\ UNCHANGED doc
    /\ UNCHANGED cut

\* Ctrl+K takes the line with its newline; nano_cut keeps the first CutCapacity of it.
NanoCut ==
    LET b == line_start(st.text, st.position)
        e == Min({Len(st.text), line_end(st.text, st.position) + 1})
    IN /\ cut' = SubSeq(st.text, b + 1, Min({e, b + CutCapacity}))
       /\ Continue([st EXCEPT !.text = SubSeq(@, 1, b) \o SubSeq(@, e + 1, Len(@)),
                              !.position = b, !.changed = TRUE])

\* Ctrl+U inserts as much of nano_cut as fits.
NanoPaste ==
    LET pasted == SubSeq(cut, 1, Min({Len(cut), Capacity - Len(st.text)})) IN
    /\ Continue([st EXCEPT !.text = SubSeq(@, 1, st.position) \o pasted \o SubSeq(@, st.position + 1, Len(@)),
                           !.position = @ + Len(pasted), !.changed = @ \/ pasted # <<>>])
    /\ UNCHANGED cut

\* Ctrl+W: from the character after the cursor, then from the start up to there; a match
\* lies inside one of the two parts.
NanoSearch(query) ==
    LET t == st.text  n == Len(query)
        start == IF st.position < Len(t) THEN st.position + 1 ELSE 0
        in(b, e) == {i \in b..e - n : SubSeq(t, i + 1, i + n) = query}
        found == IF in(start, Len(t)) # {} THEN in(start, Len(t)) ELSE in(0, start)
    IN Continue(IF found = {} THEN st ELSE Move(st, Min(found))) /\ UNCHANGED cut

NanoKey(key) ==
    /\ app = "nano"
    /\ IF st.quit_armed THEN NanoAnswer(key)
       ELSE LET code == Code(key) IN
            CASE code = "^X" -> NanoExit
              [] code = "^O" -> Save(Continue(Written(st)), Continue(st)) /\ UNCHANGED cut
              [] code = "^K" -> NanoCut /\ UNCHANGED doc
              [] code = "^U" -> NanoPaste /\ UNCHANGED doc
              [] code = "^W" -> UNCHANGED doc /\ \E query \in [1..1 -> Letters] \cup [1..2 -> Letters] : NanoSearch(query)
              [] code = "PageUp" -> Continue(Move(st, PageUp(st.text, st.position))) /\ UNCHANGED <<doc, cut>>
              [] code = "PageDown" -> Continue(Move(st, PageDown(st.text, st.position))) /\ UNCHANGED <<doc, cut>>
              [] code \in Letters \cup {"Enter", "Tab", "BS", "Delete"} -> Continue(Typed(st, code)) /\ UNCHANGED <<doc, cut>>
              [] OTHER -> Continue(Move(st, Movement(st, code))) /\ UNCHANGED <<doc, cut>>

EditorKeys == Letters \cup {"Enter", "Tab", "BS", "Delete", "^C", "Up", "Down", "Left", "Right", "Home", "End",
                           "PageUp", "PageDown", "^S", "^Q", "^X", "^O", "^K", "^U", "^W"}

----------------------------------------------------------------------------
\* user/apps/filemm: the two-panel file manager, with the kernel commands it
\* dispatches.  A path is a text: a sequence of characters, with "/" before each name.

Home == <<"h">>             \* "home"
Mnt == <<"m">>              \* "mnt"
Os64 == <<"o">>             \* "os64"
Parent == <<".", ".">>      \* the first item of a panel
LeftPath == <<"/">> \o Home
RightPath == <<"/">> \o Mnt

\* The parts of a text between separators, empty ones left out.
Split(text, separator) ==
    SelectSeq(FoldLeft(LAMBDA parts, c : IF c = separator THEN Append(parts, <<>>)
                                         ELSE Front(parts) \o <<Append(Last(parts), c)>>,
                       <<<<>>>>, text),
              LAMBDA part : part # <<>>)

\* The names of an absolute path: slashes collapse, "." and ".." are followed, and what does
\* not begin with a slash lies below the working directory.
resolve_path(text) ==
    FoldLeft(LAMBDA names, n : CASE n = <<".">> -> names
                                 [] n = Parent -> IF names = <<>> THEN names ELSE Front(names)
                                 [] OTHER -> Append(names, n),
             <<>>, Split(IF text # <<>> /\ Head(text) = "/" THEN text ELSE Cwd \o <<"/">> \o text, "/"))

\* Where the path leads: the FAT file system is mounted twice, at /home and at
\* /mnt/os64, the ext2 file system at /mnt.  In a directory entry of FAT a name is filled
\* up with blanks; the names here are short and in capitals.
Fat == <<"F">>
Ext == <<"E">>
name83(name) == SubSeq(name, 1, Max({0} \cup {i \in DOMAIN name : name[i] # " "}))
OnFat(names) == <<Fat>> \o [i \in DOMAIN names |-> name83(names[i])]
Place(names) ==
    CASE Len(names) > 1 /\ names[1] = Home -> OnFat(Tail(names))
      [] Len(names) > 2 /\ names[1] = Mnt /\ names[2] = Os64 -> OnFat(Tail(Tail(names)))
      [] Len(names) > 1 /\ names[1] = Mnt /\ ~(Len(names) > 2 /\ names[2] = Os64) -> <<Ext>> \o Tail(names)
      [] OTHER -> <<>>

\* mkdir knows FAT only: a directory below /mnt is created there, too.
Created(names) ==
    IF Len(names) < 2 \/ names[1] \notin {Home, Mnt} THEN <<>>
    ELSE OnFat(IF names[1] = Mnt /\ names[2] = Os64 THEN Tail(Tail(names)) ELSE Tail(names))

Exists(p) == p \in DOMAIN files
Above(p) == {SubSeq(p, 1, k) : k \in 2..Len(p)-1}

\* A place that an entry can be made in: FAT wants the directories above it, ext2 makes
\* those that are missing.
Open(p) == Len(p) >= 2 /\ \A q \in Above(p) : IF Exists(q) THEN files[q] = "dir" ELSE p[1] = Ext
With(p, kind) ==
    [q \in DOMAIN files \cup Above(p) \cup {p} |->
        IF q = p THEN kind ELSE IF Exists(q) THEN files[q] ELSE "dir"]

\* What is in a directory goes with it; ext2 removes no directory.
Removable(p) == Exists(p) /\ (files[p] = "dir" => p[1] = Fat)
Without(fs, p) == [q \in {q \in DOMAIN fs : ~IsPrefix(p, q)} |-> fs[q]]

\* The commands, as <<exit status, files left>>.  A command may fail at each file
\* system call it makes.  cp and mv take the first two words of their arguments.
two_args(arguments) == Split(arguments, " ")
IsFile(p) == Exists(p) /\ files[p] = "file"
Takes(p) == Open(p) /\ (Exists(p) => IsFile(p))

c_cp(arguments) ==
    LET words == two_args(arguments)
        x == Place(resolve_path(words[1]))
        y == Place(resolve_path(words[2]))
    IN {<<1, files>>} \cup IF IsFile(x) /\ Takes(y) THEN {<<0, With(y, "file")>>} ELSE {}

\* Read the source, write the destination, remove the source.
c_mv(arguments) ==
    LET words == two_args(arguments)
        x == Place(resolve_path(words[1]))
        y == Place(resolve_path(words[2]))
    IN {<<1, files>>} \cup
       IF IsFile(x) /\ Takes(y)
       THEN {<<1, With(y, "file")>>, <<0, Without(With(y, "file"), x)>>}
       ELSE {}

\* disk_create is content with an entry that exists.
c_mkdir(argument) ==
    LET p == Created(resolve_path(argument)) IN
    {<<1, files>>} \cup IF ~Open(p) THEN {} ELSE {<<0, IF Exists(p) THEN files ELSE With(p, "dir")>>}

c_rm(argument) ==
    LET p == Place(resolve_path(argument)) IN
    {<<1, files>>} \cup IF Removable(p) THEN {<<0, Without(files, p)>>} ELSE {}

\* file_action: the two paths, with a blank between them.
Arguments(source, destination) == source \o <<" ">> \o destination

----------------------------------------------------------------------------
\* What a directory entry of FAT is printed as: up to the first blank.
printable(name) == SubSeq(name, 1, Min({Len(name)} \cup {i \in 0..Len(name)-1 : name[i+1] = " "}))

\* vfs_readdir compares the path as it is given.  The files of the initial ram disk, and
\* the mounts that hold none of `files`, are left out.
Listing(path, fs) ==
    LET in(store) == SetToSeq({Last(p) : p \in {q \in DOMAIN fs : Len(q) = 2 /\ q[1] = store}}) IN
    CASE path = <<"/">> -> <<Home, Mnt>>
      [] path \in {LeftPath, RightPath \o <<"/">> \o Os64} -> [i \in DOMAIN in(Fat) |-> printable(in(Fat)[i])]
      [] path = RightPath -> in(Ext)
      [] OTHER -> <<>>

load_dir(u, side, path, fs) ==
    [u EXCEPT !.windows[1].children[side].items = <<Parent>> \o Listing(path, fs),
              !.windows[1].children[side].selected = 0]

path_join(base, name) == base \o <<"/">> \o name

\* Trailing slashes, the last name and one slash before it are dropped.
parent_dir(path) ==
    LET last == Max({1} \cup {i \in DOMAIN path : path[i] # "/"})
        slash == Max({1} \cup {i \in 1..last : path[i] = "/"})
    IN SubSeq(path, 1, Max({1, slash - 1}))

Active(u) == IF u.windows[1].children[1].focused THEN 1 ELSE 2
Other(u) == 3 - Active(u)
Chosen(u) == LET list == u.windows[1].children[Active(u)] IN list.items[list.selected + 1]
Picked == ui.windows[1].children[Active(ui)].selected > 0

\* The top of the main loop: the path line, a full redraw.
Loop(u, paths) ==
    tui_render(tui_request_redraw(
        [u EXCEPT !.windows[1].children[3].text = <<"Path">> \o paths[Active(u)]]))

FilemmStart ==
    LET paths == <<LeftPath, RightPath>>
        u == tui_window_create(tui_initialize,
                 <<Listbox(<<>>), Listbox(<<>>), Widget("status", <<>>), Widget("status", <<"keys">>)>>)
        v == load_dir(load_dir(tui_widget_set_focus(u, 1, 1), 1, LeftPath, files), 2, RightPath, files)
    IN Begin("filemm", Loop(v, paths), [paths |-> paths, said |-> <<>>])

\* A report, unless every window is used up: tui_message_box then returns at once.
Report(u, tag, message, s) ==
    IF Full(u) THEN Stay(Loop(u, s.paths), s) ELSE Stay(tui_message_box(u, tag, message), s)

\* Explored: one panel at a time leaves the directory that it opened with.
Go(path) ==
    LET s == [st EXCEPT !.paths[Active(ui)] = path] IN
    (s.paths[1] = LeftPath \/ s.paths[2] = RightPath) /\ Stay(Loop(load_dir(ui, Active(ui), path, files), s.paths), s)

----------------------------------------------------------------------------
\* One key in the main loop.
FilemmAt(key) == app = "filemm" /\ AtMain /\ key \in Keys

FilemmQuit(key) == FilemmAt(key) /\ key \in {"F10", "Esc", "^C"} /\ Exit /\ UNCHANGED files

FilemmHelp(key) == FilemmAt(key) /\ key = "F1" /\ Report(ui, "report", <<"help">>, st) /\ UNCHANGED files

FilemmOpen(key) ==
    /\ FilemmAt(key) /\ key = "Enter" /\ UNCHANGED files
    /\ LET path == st.paths[Active(ui)] IN
       IF Picked
       THEN /\ Cardinality({i \in DOMAIN path : path[i] = "/"}) < MaxDepth
            /\ Go(path_join(path, Chosen(ui)))
       ELSE Go(parent_dir(path))

FilemmUp(key) ==
    FilemmAt(key) /\ key = "BS" /\ Go(parent_dir(st.paths[Active(ui)])) /\ UNCHANGED files

\* F3: a file that can be read is shown, anything else is an error.
FilemmView(key) ==
    /\ FilemmAt(key) /\ key = "F3" /\ UNCHANGED files
    /\ IF ~Picked THEN Stay(Loop(ui, st.paths), st)
       ELSE \E message \in {<<"contents">>, <<"could not open">>} : Report(ui, "report", message, st)

Source == path_join(st.paths[Active(ui)], Chosen(ui))
Destination == path_join(st.paths[Other(ui)], Chosen(ui))

\* F5 and F6 dispatch the command, reload the panels and report.
FilemmCopy(key) ==
    /\ FilemmAt(key) /\ key = "F5"
    /\ IF ~Picked THEN Stay(Loop(ui, st.paths), st) /\ UNCHANGED files
       ELSE \E r \in c_cp(Arguments(Source, Destination)) :
            /\ files' = r[2]
            /\ Report(load_dir(ui, Other(ui), st.paths[Other(ui)], r[2]), "report",
                      <<"copied", r[1] = 0>>, st)

FilemmMove(key) ==
    /\ FilemmAt(key) /\ key = "F6"
    /\ IF ~Picked THEN Stay(Loop(ui, st.paths), st) /\ UNCHANGED files
       ELSE \E r \in c_mv(Arguments(Source, Destination)) :
            /\ files' = r[2]
            /\ Report(load_dir(load_dir(ui, Active(ui), st.paths[Active(ui)], r[2]),
                               Other(ui), st.paths[Other(ui)], r[2]),
                      "report", <<"moved", r[1] = 0>>, [st EXCEPT !.said = Place(resolve_path(Destination))])

FilemmMkdir(key) ==
    /\ FilemmAt(key) /\ key = "F7" /\ UNCHANGED files
    /\ Stay(IF Full(ui) THEN Loop(ui, st.paths) ELSE tui_input_box(ui, "mkdir", <<>>), st)

\* Mutant: F8 does not ask.
FilemmDeleteAtOnce(key) ==
    /\ FilemmAt(key) /\ key = "F8"
    /\ IF ~Picked THEN Stay(Loop(ui, st.paths), st) /\ UNCHANGED files
       ELSE \E r \in c_rm(Source) :
            /\ files' = r[2]
            /\ Stay(Loop(load_dir(ui, Active(ui), st.paths[Active(ui)], r[2]), st.paths), st)

\* F8 asks first; without a window to ask in, the answer is no.
FilemmDelete(key) ==
    /\ FilemmAt(key) /\ key = "F8" /\ UNCHANGED files
    /\ Stay(IF ~Picked \/ Full(ui) THEN Loop(ui, st.paths)
            ELSE tui_message_box(ui, "delete", <<"Delete", Chosen(ui)>>), st)

FilemmOther(key) ==
    /\ FilemmAt(key) /\ UNCHANGED files
    /\ key \notin {"F10", "Esc", "^C", "F1", "Enter", "BS", "F3", "F5", "F6", "F7", "F8"}
    /\ Stay(Loop(tui_dispatch_event(ui, 1, key), st.paths), st)

----------------------------------------------------------------------------
\* One key in a dialog.
FilemmReport(key) ==
    /\ app = "filemm" /\ InDialog /\ ui.dialog.tag = "report" /\ UNCHANGED files
    /\ Stay(IF BoxAnswer(key)[1] THEN Loop(tui_request_redraw(Closed(ui)), st.paths) ELSE ui,
            IF BoxAnswer(key)[1] THEN [st EXCEPT !.said = <<>>] ELSE st)

\* An answered confirmation: the entry is removed, and that is reported.
FilemmRemove(key) ==
    /\ app = "filemm" /\ InDialog /\ ui.dialog.tag = "delete"
    /\ BoxAnswer(key)[1]
    /\ \E r \in c_rm(Source) :
          /\ files' = r[2]
          /\ Report(load_dir(tui_request_redraw(Closed(ui)), Active(ui),
                             st.paths[Active(ui)], r[2]),
                    "report", <<"deleted", r[1] = 0>>, st)

FilemmConfirm(key) ==
    /\ app = "filemm" /\ InDialog /\ ui.dialog.tag = "delete"
    /\ CASE BoxAnswer(key) = <<TRUE, "yes">> -> FilemmRemove(key)
         [] BoxAnswer(key) = <<TRUE, "no">> ->
               Stay(Loop(tui_request_redraw(Closed(ui)), st.paths), st) /\ UNCHANGED files
         [] OTHER -> Stay(ui, st) /\ UNCHANGED files

FilemmName(key) ==
    /\ app = "filemm" /\ InDialog /\ ui.dialog.tag = "mkdir"
    /\ CASE key = "Enter" ->
                \E r \in c_mkdir(path_join(st.paths[Active(ui)], InputText)) :
                   /\ files' = r[2]
                   /\ Report(load_dir(Closed(ui), Active(ui), st.paths[Active(ui)], r[2]),
                             "report", <<"created", r[1] = 0>>, st)
         [] key = "Esc" -> Stay(Loop(Closed(ui), st.paths), st) /\ UNCHANGED files
         [] OTHER -> Stay(InputKey(ui, key), st) /\ UNCHANGED files

FilemmKey(key) ==
    \/ FilemmQuit(key) \/ FilemmHelp(key) \/ FilemmOpen(key) \/ FilemmUp(key) \/ FilemmView(key)
    \/ FilemmCopy(key) \/ FilemmMove(key) \/ FilemmMkdir(key) \/ FilemmDelete(key) \/ FilemmOther(key)
    \/ FilemmReport(key) \/ FilemmConfirm(key) \/ FilemmName(key)

----------------------------------------------------------------------------
\* The small ones: user/apps/usercfg, netcfg, sysmgr and browser.

\* One key in the main loop or in a dialog of the program.
At(name, key) == app = name /\ AtMain /\ key \in Keys
InBox(name, kind, key) == app = name /\ InDialog /\ ui.dialog.kind = kind /\ key \in Keys

Leaves == {"F10", "Esc", "^C"}
FocusOf(u) == SelectInSeq(u.windows[1].children, LAMBDA w : w.focused)

----------------------------------------------------------------------------
\* usercfg: four buttons that ask for a name, and then ask or report something.
Actions == <<"list", "add", "password", "shell", "remove">>

UsercfgStart ==
    Begin("usercfg",
          tui_render(tui_window_create(tui_initialize,
              <<Table(<<"root", "nobody", "guest">>), Button(<<"Add User">>), Button(<<"Password">>),
                Button(<<"Set Shell">>), Button(<<"Remove">>), Widget("status", <<"keys">>)>>)),
          [name |-> <<>>])

\* The end of the loop: the key that opened the dialogs is dispatched as well.
UsercfgLoop(u) == tui_render(tui_dispatch_event(u, 1, "Enter"))

\* A dialog that finds no window free returns 0: the action is abandoned.
UsercfgAsk(u, tag, initial) == IF Full(u) THEN UsercfgLoop(u) ELSE tui_input_box(u, tag, initial)
UsercfgTell(u, tag, message) == IF Full(u) THEN UsercfgLoop(u) ELSE tui_message_box(u, tag, message)

UsercfgKey(key) ==
    /\ At("usercfg", key)
    /\ LET f == FocusOf(ui) IN
       IF key \in Leaves THEN Exit
       ELSE IF key = "Enter" /\ f \in 2..5 THEN Stay(UsercfgAsk(ui, Actions[f], <<>>), st)
       ELSE Stay(tui_render(tui_dispatch_event(ui, 1, key)), st)

\* Enter accepts the text: a second question, a confirmation, or the report.
UsercfgInput(key) ==
    /\ InBox("usercfg", "input", key)
    /\ LET u == Closed(ui)  tag == ui.dialog.tag IN
       CASE key = "Enter" ->
              CASE tag = "add" -> Stay(UsercfgTell(u, "report", <<"added", InputText>>), st)
                [] tag = "password" -> Stay(UsercfgAsk(u, "new password", <<>>), [name |-> InputText])
                [] tag = "shell" -> Stay(UsercfgAsk(u, "path", <<" ">>), [name |-> InputText])
                [] tag = "remove" -> Stay(UsercfgTell(u, "confirm", <<"remove", InputText>>), st)
                [] OTHER -> Stay(UsercfgTell(u, "report", <<tag, st.name>>), [name |-> <<>>])
         [] key = "Esc" -> Stay(UsercfgLoop(u), [name |-> <<>>])
         [] OTHER -> Stay(InputKey(ui, key), st)

UsercfgBox(key) ==
    /\ InBox("usercfg", "message", key)
    /\ LET u == tui_request_redraw(Closed(ui)) IN
       CASE BoxAnswer(key) = <<TRUE, "yes">> /\ ui.dialog.tag = "confirm" ->
              Stay(UsercfgTell(u, "report", <<"not available">>), st)
         [] BoxAnswer(key)[1] /\ ~(BoxAnswer(key)[2] = "yes" /\ ui.dialog.tag = "confirm") ->
              Stay(UsercfgLoop(u), st)
         [] OTHER -> Stay(ui, st)

----------------------------------------------------------------------------
\* netcfg: two radio buttons, three addresses, and a box that says what was saved.
NetcfgStart ==
    Begin("netcfg",
          tui_render(tui_window_create(tui_initialize,
              <<Label(<<"Device">>), [Widget("radio", <<"DHCP">>) EXCEPT !.checked = TRUE],
                Widget("radio", <<"Static">>), Textbox(<<" ">>), Textbox(<<" ">>), Textbox(<<" ">>),
                Button(<<"Save">>), Button(<<"Cancel">>), Widget("status", <<"keys">>)>>)),
          Nothing)

\* The mode and the addresses are put behind the end of the heading, six bytes too
\* far: the label ends with the heading.
Saved == <<"Configuration saved">>

NetcfgKey(key) ==
    /\ At("netcfg", key)
    /\ LET f == FocusOf(ui)
           u == IF key = " " /\ f \in {2, 3}
                THEN [ui EXCEPT !.windows[1].children[f].checked = TRUE,
                                !.windows[1].children[5 - f].checked = FALSE]
                ELSE ui
       IN CASE key \in Leaves -> Exit
            [] key = "Enter" /\ f \in {2, 7} ->
                  IF Full(ui) THEN Exit
                  ELSE Stay(tui_message_box(ui, "saved", Saved), st)
            [] OTHER -> Stay(tui_render(tui_dispatch_event(u, 1, key)), st)

\* The program ends when the box is closed.
NetcfgBox(key) ==
    InBox("netcfg", "message", key) /\ IF BoxAnswer(key)[1] THEN Exit ELSE Stay(ui, st)

----------------------------------------------------------------------------
\* sysmgr: the state of the services is asked for before every redraw.
Reports == {<<"OK">>, <<"FAIL">>}          \* what system_query may answer

SysmgrLoop(u, rows) ==
    tui_render(tui_request_redraw([u EXCEPT !.windows[1].children[2].items = rows,
                                            !.windows[1].children[3].text = <<"info">> \o rows]))

SysmgrStart ==
    \E rows \in Reports :
       Begin("sysmgr",
             SysmgrLoop(tui_window_create(tui_initialize,
                 <<Widget("menu", <<"File">>), Table(<<>>), Widget("view", Nothing),
                   Widget("status", <<"keys">>)>>), rows),
             Nothing)

SysmgrKey(key) ==
    /\ At("sysmgr", key)
    /\ \E rows \in Reports :
       CASE key \in Leaves -> Exit
         [] key = "F1" ->
               Stay(IF Full(ui) THEN SysmgrLoop(ui, rows) ELSE tui_message_box(ui, "help", <<"help">>), st)
         [] key = "F5" -> Stay(SysmgrLoop(ui, rows), st)
         [] OTHER -> Stay(SysmgrLoop(tui_dispatch_event(ui, 1, key), rows), st)

SysmgrBox(key) ==
    /\ InBox("sysmgr", "message", key)
    /\ \E rows \in Reports :
       Stay(IF BoxAnswer(key)[1] THEN SysmgrLoop(tui_request_redraw(Closed(ui)), rows) ELSE ui, st)

----------------------------------------------------------------------------
\* browser: an address, the document and a status line.
BrowserLoop(u) == tui_render(tui_request_redraw(u))

BrowserStart ==
    Begin("browser",
          BrowserLoop(tui_widget_set_focus(tui_window_create(tui_initialize,
              <<Widget("menu", <<"File">>), Textbox(<<" ">>), Widget("view", <<"Press Enter">>),
                Widget("status", <<"enabled">>)>>), 1, 2)),
          Nothing)

MaxScroll == 2      \* rows of a document that are explored

\* Page Down is ten rows of the document; here one.
\* browser_fetch loads the document or returns an error; either way it is shown.
BrowserKey(key) ==
    /\ At("browser", key)
    /\ LET f == FocusOf(ui)  page == ui.windows[1].children[3] IN
       CASE key \in Leaves -> Exit
         [] key = "F1" ->
               Stay(IF Full(ui) THEN BrowserLoop(ui) ELSE tui_message_box(ui, "help", <<"help">>), st)
         [] key = "F5" \/ (key = "Enter" /\ f = 2) ->
               \/ Stay(BrowserLoop([ui EXCEPT !.windows[1].children[3].text = <<"document">>,
                                              !.windows[1].children[3].scroll = 0,
                                              !.windows[1].children[4].text = <<"loaded">>]), st)
               \/ Stay(BrowserLoop([ui EXCEPT !.windows[1].children[3].text = <<"error">>,
                                              !.windows[1].children[4].text = <<"failed">>]), st)
         [] f = 3 /\ key \in {"Up", "PageUp"} ->
               Stay(BrowserLoop(IF page.scroll = 0 THEN ui
                                ELSE [ui EXCEPT !.windows[1].children[3].scroll = @ - 1]), st)
         [] f = 3 /\ key \in {"Down", "PageDown"} ->
               /\ page.scroll < MaxScroll
               /\ Stay(BrowserLoop([ui EXCEPT !.windows[1].children[3].scroll = @ + 1]), st)
         [] OTHER -> Stay(BrowserLoop(tui_dispatch_event(ui, 1, key)), st)

BrowserBox(key) ==
    /\ InBox("browser", "message", key)
    /\ Stay(IF BoxAnswer(key)[1] THEN BrowserLoop(tui_request_redraw(Closed(ui))) ELSE ui, st)

PanelStart == UsercfgStart \/ NetcfgStart \/ SysmgrStart \/ BrowserStart
PanelKey(key) ==
    \/ UsercfgKey(key) \/ UsercfgInput(key) \/ UsercfgBox(key)
    \/ NetcfgKey(key) \/ NetcfgBox(key) \/ SysmgrKey(key) \/ SysmgrBox(key)
    \/ BrowserKey(key) \/ BrowserBox(key)

----------------------------------------------------------------------------
\* user/apps/setup: the wizard.  Every page's widgets are children of one window and
\* a page shows its own.  Labels that never change are left out.

Zones == <<"Cairo", "Manila">>              \* tz_names
ACCOUNT == 0
TIMEZONE == 1
NETWORK == 2
SUMMARY == 3
INSTALL == 4
COMPLETE == 5

\* The widgets in the order of their creation.
Children ==
    <<Label(<<"Account">>), Label(<<"Account Configuration">>),
      Textbox(<<" ">>), Textbox(<<" ">>), Password(<<>>), Password(<<>>),
      [Label(<<>>) EXCEPT !.width = 1], [Listbox(Zones) EXCEPT !.selected = 1],
      [Label(<<"DHCP">>) EXCEPT !.width = 1], Handler(<<"DHCP">>, "dhcp_toggle"), Textbox(<<>>),
      [Label(<<>>) EXCEPT !.width = 1], [Label(<<>>) EXCEPT !.width = 1],
      Label(<<>>), Widget("progress", <<>>), Label(<<>>), Label(<<>>), Label(<<>>),
      Handler(<<"Reboot">>, "on_reboot"), Handler(<<"Back">>, "on_back"), Handler(<<"Next">>, "on_next"),
      Widget("status", <<"keys">>)>>

lbl_step == 1
lbl_title == 2
txt_hostname == 3
lbl_err == 7
lst_tz == 8
lbl_dhcp == 9
txt_ip == 11
lbl_net_err == 12
lbl_summ == 13
lbl_prog == 14
prog_bar == 15
lbl_prog_status == 16
lbl_done == 17
lbl_reboot_info == 18
btn_reboot == 19
btn_back == 20
btn_next == 21
sbar == 22

Page(step, use_dhcp) ==
    {lbl_step, lbl_title, sbar} \cup
    CASE step = ACCOUNT -> (txt_hostname..lbl_err) \cup {btn_next}
      [] step = TIMEZONE -> {lst_tz, btn_back, btn_next}
      [] step = NETWORK -> {lbl_dhcp, lbl_net_err, btn_back, btn_next} \cup IF use_dhcp THEN {} ELSE {txt_ip}
      [] step = SUMMARY -> {lbl_summ, btn_back, btn_next}
      [] step = INSTALL -> lbl_prog..lbl_prog_status
      [] step = COMPLETE -> lbl_done..btn_reboot

Titles == <<"Account", "Timezone", "Network", "Summary", "Installing", "Complete">>
W(u, c) == u.windows[1].children[c]
SetText(u, c, text) == [u EXCEPT !.windows[1].children[c].text = text]

\* The widgets of a page shown, and its texts.
PageShown(u, step, s) ==
    [SetText(u, lbl_title, <<Titles[step + 1]>>) EXCEPT
        !.windows[1].children = [c \in DOMAIN @ |-> [@[c] EXCEPT !.visible = c \in Page(step, s.use_dhcp)]],
        !.windows[1].children[lst_tz].selected = IF step = TIMEZONE THEN s.tz_sel ELSE @,
        !.windows[1].children[btn_next].text = IF step = SUMMARY THEN <<"Install">>
                                               ELSE IF step < SUMMARY THEN <<"Next">> ELSE @]

set_all_visible(u, step, s) == tui_request_redraw(PageShown(u, step, s))

update_step_indicator(u, step) ==
    tui_widget_repaint(SetText(u, lbl_step, <<Titles[step + 1]>>), 1, lbl_step)

----------------------------------------------------------------------------
\* The answers that are checked are the program's own, hostname and the like: the
\* text boxes are given copies, and nothing copies what is typed back.
vhost(s) == s.hostname # <<>>
vuser(s) == s.username # <<>>
First(text) == IF text = <<>> THEN <<>> ELSE <<Head(text)>>    \* only the first characters are compared
mismatch(s) == (s.pass1 # <<>> \/ s.pass2 # <<>>) /\ First(s.pass1) # First(s.pass2)
short_pass(s) == Len(s.pass1) \in 1..3

validate(u, s) ==
    CASE s.cur_step = ACCOUNT ->
            tui_widget_repaint(SetText(u, lbl_err,
                IF ~vhost(s) THEN <<"Hostname">> ELSE IF ~vuser(s) THEN <<"Username">>
                ELSE IF short_pass(s) THEN <<"minimum">> ELSE IF mismatch(s) THEN <<"match">> ELSE <<>>),
                1, lbl_err)
      [] s.cur_step = NETWORK /\ ~s.use_dhcp ->
            tui_widget_repaint(SetText(u, lbl_net_err, IF s.ip = <<>> THEN <<"IP">> ELSE <<>>), 1, lbl_net_err)
      [] OTHER -> u

can_advance(s) ==
    CASE s.cur_step = ACCOUNT -> vhost(s) /\ vuser(s) /\ First(s.pass1) = First(s.pass2) /\ ~short_pass(s)
      [] s.cur_step = NETWORK -> s.use_dhcp \/ s.ip # <<>>
      [] OTHER -> TRUE

build_summary(u, s) ==
    tui_widget_repaint(SetText(u, lbl_summ, <<s.hostname, s.username, s.tz_buf>>), 1, lbl_summ)

\* The whole installation runs inside the handler of the button, a picture per step.
simulate_install(u, s) ==
    LET bar(v) == tui_render(tui_widget_repaint([v EXCEPT !.windows[1].children[prog_bar].value = 100],
                                                1, prog_bar))
        shown == tui_render(set_all_visible(SetText(u, lbl_prog, <<"Installing">>), INSTALL, s))
        done == tui_render(tui_widget_repaint(SetText(bar(shown), lbl_prog_status, <<"Done">>),
                                              1, lbl_prog_status))
    IN set_all_visible(SetText(SetText(done, lbl_done, <<"completed">>), lbl_reboot_info, <<"ready">>),
                       COMPLETE, s)

\* The handlers, as <<u, s>>.
on_back(u, s) ==
    LET t == [s EXCEPT !.cur_step = @ - 1]
        v == update_step_indicator(set_all_visible(u, t.cur_step, t), t.cur_step)
    IN IF s.cur_step = 0 THEN <<u, s>> ELSE <<IF t.cur_step = ACCOUNT THEN validate(v, t) ELSE v, t>>

on_next(u, s) ==
    LET t == [s EXCEPT !.cur_step = @ + 1]
        v == update_step_indicator(set_all_visible(u, t.cur_step, t), t.cur_step)
    IN CASE ~can_advance(s) -> <<validate(u, s), s>>
         [] can_advance(s) /\ s.cur_step = SUMMARY -> <<simulate_install(u, s), [s EXCEPT !.cur_step = COMPLETE]>>
         [] can_advance(s) /\ s.cur_step < SUMMARY ->
               <<CASE t.cur_step = NETWORK ->
                        tui_request_redraw(SetText(v, lbl_dhcp, <<IF t.use_dhcp THEN "DHCP" ELSE "Static">>))
                   [] t.cur_step = SUMMARY -> build_summary(v, t)
                   [] OTHER -> v, t>>
         [] OTHER -> <<u, s>>

----------------------------------------------------------------------------
SetupStart ==
    LET s == [cur_step |-> ACCOUNT, use_dhcp |-> TRUE, tz_sel |-> 1, tz_buf |-> "Manila",
              hostname |-> <<" ">>, username |-> <<" ">>, pass1 |-> <<>>, pass2 |-> <<>>, ip |-> <<>>]
        u == tui_window_create(tui_initialize, Children)
        v == update_step_indicator(set_all_visible(u, ACCOUNT, s), ACCOUNT)
    IN Begin("setup", tui_render(tui_request_redraw(tui_widget_set_focus(v, 1, txt_hostname))), s)

\* A key that is dispatched: the handler it activates, then the checks of the page.
Dispatched(key) ==
    LET u == [tui_dispatch_event(ui, 1, key) EXCEPT !.fired = ""]
        fired == tui_dispatch_event(ui, 1, key).fired
        r == CASE fired = "on_back" -> on_back(u, st) [] fired = "on_next" -> on_next(u, st)
               [] OTHER -> <<u, st>>
    IN <<validate(r[1], r[2]), r[2]>>

on_reboot == Exit          \* what follows is the shutdown of the system

SetupKey(key) ==
    /\ app = "setup" /\ AtMain /\ key \in Keys
    /\ CASE key \in {"F10", "Esc", "^C"} -> Exit
         [] key \in {"Tab", "BackTab"} -> Stay(tui_render(tui_dispatch_event(ui, 1, key)), st)
         [] key = "Enter" /\ st.cur_step = TIMEZONE /\ W(ui, lst_tz).focused ->
               LET i == W(ui, lst_tz).selected IN
               Stay(tui_render(ui), [st EXCEPT !.tz_sel = i, !.tz_buf = Zones[i + 1]])
         [] OTHER ->
               IF tui_dispatch_event(ui, 1, key).fired = "on_reboot" THEN on_reboot
               ELSE Stay(tui_render(Dispatched(key)[1]), Dispatched(key)[2])

----------------------------------------------------------------------------
\* All of them.
vars == <<app, ui, st, owned, files, doc, cut>>

Init ==
    /\ app = "shell" /\ ui = Nothing /\ st = Nothing /\ owned = FALSE
    /\ files = InitialFiles /\ doc \in {NoDoc, Missing, Huge, <<Newline>>} /\ cut = <<>>

\* What is explored: as many files made and removed since the start; a limited number of
\* characters; moving the cursor off the end and overwriting in one text box at a time.
Near(fs) ==
    Cardinality(DOMAIN fs \ DOMAIN InitialFiles) + Cardinality(DOMAIN InitialFiles \ DOMAIN fs) <= MaxChanges

TextBoxes == SelectSeq(FlattenSeq([i \in DOMAIN ui.windows |-> ui.windows[i].children]),
                       LAMBDA w : w.type \in Inputs)
Bounded(key) ==
    /\ key \in Chars => FoldSeq(LAMBDA w, n : n + Len(w.text), 0, TextBoxes) < MaxTyped
    /\ key \in {"Insert", "Left", "Home"} =>
          \A i \in DOMAIN TextBoxes : LET w == TextBoxes[i] IN
             w.focused \/ (w.insert_mode /\ w.cursor = Len(w.text))

Tui(key) ==
    /\ Waiting /\ Bounded(key) /\ UNCHANGED <<doc, cut>>
    /\ \/ FilemmKey(key) /\ Near(files')
       \/ (PanelKey(key) \/ SetupKey(key)) /\ UNCHANGED files

Editor(key) == (EditKey(key) \/ NanoKey(key)) /\ UNCHANGED files

\* Programs that share nothing are not run after each other: what the file manager did
\* to the files, or an editor to its document, changes nothing for the others.  With
\* changed files only sysmgr is started, which has the fewest states.
Start ==
    \/ /\ doc = NoDoc /\ files = InitialFiles /\ (FilemmStart \/ PanelStart \/ SetupStart)
       /\ UNCHANGED <<files, doc, cut>>
    \/ doc = NoDoc /\ files # InitialFiles /\ SysmgrStart /\ UNCHANGED <<files, doc, cut>>
    \/ (EditStart \/ NanoStart) /\ UNCHANGED files

Next ==
    \/ Start
    \/ \E key \in Keys : Tui(key)
    \/ \E key \in EditorKeys : Editor(key)

Spec == Init /\ [][Next]_vars

----------------------------------------------------------------------------
\* A widget that setup creates as a label without a text: it has no width and never shows
\* the text it is given later, "Installation completed successfully." among them.
Unseen(c) == app = "setup" /\ c \in {lbl_prog, lbl_prog_status, lbl_done, lbl_reboot_info}

\* The cells of a widget show its text; a text box a part of its text with the cursor in
\* it, a list some of its items with the selected one marked; and whether it has the focus.
Shows(cells, w) ==
    /\ cells # Nothing /\ cells[1] = w.type /\ cells[2] = w.focused
    /\ LET is == cells[3] IN
       CASE w.type = "text" ->
               \E k \in 0..w.cursor :
                  is = <<SubSeq(w.text, k + 1, Min({k + Cols, Len(w.text)})), w.cursor - k>> /\ is[2] < Cols
         [] w.type = "password" -> is[1] <= Len(w.text) /\ is[2] \in 0..Cols-1 /\ is[2] <= w.cursor
         [] w.type \in Lists -> w.items # <<>> => /\ is[2] + 1 \in DOMAIN is[1]
                                                  /\ is[1][is[2] + 1] = w.items[w.selected + 1]
         [] w.type = "radio" -> is = <<w.text, w.checked>>
         [] w.type = "progress" -> is = w.value
         [] w.type = "view" -> is = <<w.text, w.scroll>>
         [] OTHER -> is = w.text

\* While a full-screen program waits for a key, the screen shows the state of every widget
\* of every window, and of nothing that is hidden or closed: no change by a program, a
\* dialog or a widget is left without its repaint (request_redraw, tui_widget_repaint and
\* tui_render in user/libtui).  The code has three exceptions: labels that setup creates
\* without a text have no width; usercfg's main loop renders without a redraw after an
\* input box was left with Esc, so the box stays; and what a failed command of filemm
\* prints stays in the cells that the library believes unchanged, which no variable here has.
ScreenTrue ==
    Waiting => \A i \in DOMAIN ui.windows :
        IF ui.windows[i].visible
        THEN ui.front[i] # Nothing /\ \A c \in DOMAIN ui.windows[i].children :
                LET w == ui.windows[i].children[c] IN
                IF w.visible THEN Shows(ui.front[i][c], w) \/ Unseen(c) ELSE ui.front[i][c] = Nothing
        ELSE ui.front[i] = Nothing \/ (app = "usercfg" /\ ui.front[i][2][1] = "text")

\* The terminal's cursor is inside the text box that has the focus, in the topmost window
\* that has one (tui_update_cursor).  The cursor of an editor is on one of the rows its
\* text is drawn on; the cursor of edit is on the character that Delete removes, or behind
\* the end of the line (draw).  The code of edit has two exceptions: a tab before the
\* cursor, which is drawn as up to four columns and counted as one, and a line that is as
\* wide as the screen.
CursorTrue ==
    /\ Waiting => LET at == {i \in DOMAIN ui.windows : ui.windows[i].visible /\ FocusedInput(ui.windows[i]) # 0} IN
                  IF at = {} THEN ui.cursor = Nothing
                  ELSE ui.cursor[1] = Max(at) /\ ui.windows[Max(at)].children[ui.cursor[2]].focused
                       /\ ui.cursor[3] = ui.front[Max(at)][ui.cursor[2]][3][2] /\ ui.cursor[3] \in 0..Cols-1
    /\ app \in {"edit", "nano"} => EditCursor(st).y \in 0..Body-1
    /\ app = "edit" =>
          LET t == st.text  p == st.position  row == EditRows(st)[EditCursor(st).y] IN
          \/ Tabulator \in Range(SubSeq(t, line_start(t, p) + 1, p)) \/ column(t, p) >= Width
          \/ IF p = line_end(t, p) THEN Len(row) = EditCursor(st).x
             ELSE row[EditCursor(st).x + 1] = IF t[p + 1] = Tabulator THEN " " ELSE t[p + 1]

\* What the user has selected, and where a move of it should go.
Selected == Place(resolve_path(Source))
Target == Place(resolve_path(Destination))

\* filemm removes a file only when it is the selected one, or lies in it, and the user has just answered
\* the question that names it or has pressed F6 and the copy is in place (F8 and F6 of
\* filemm, c_rm, c_mv).  The code has two exceptions: a move of a file to where it is, also
\* under its other name below /mnt/os64, removes it (MovedIsThere); and a blank in a path
\* ends the word that c_mv takes, so that the move of "X Y" is one of "X".
DeleteAsked ==
    [][\A p \in DOMAIN files \ DOMAIN files' :
          IF ui.dialog # Nothing
          THEN /\ IsPrefix(Selected, p) /\ ui.dialog.tag = "delete"
               /\ ui.front[Len(ui.windows)][1][3] = <<"Delete", Chosen(ui)>>
          ELSE \/ p = Selected /\ (Target \in DOMAIN files' \/ Target = p)
               \/ " " \in Range(Source \o Destination)]_vars

\* Neither editor is left with text that is not on disk unless the user was asked about
\* exactly that text: an edit after the question asks again (quit_armed in edit, the
\* question of Ctrl+X in nano).
UnsavedAsked ==
    [][(app \in {"edit", "nano"} /\ app' = "shell") =>
          (st.text \in {Readable, doc'} \/ st.warned)]_vars

\* After filemm reports "File moved successfully." the file is at the place it was
\* moved to (F6 of filemm, c_mv).
MovedIsThere ==
    Waiting /\ ui.dialog # Nothing /\ ui.dialog.message = <<"moved", TRUE>> => Exists(st.said)

\* edit used without Ctrl+S, Ctrl+Q and Ctrl+C.
ArrowsNext ==
    \/ EditStart /\ UNCHANGED files
    \/ \E key \in EditorKeys \ {"^S", "^Q", "^C"} : EditKey(key) /\ UNCHANGED files

\* The status line of edit: Ctrl+S saves, Ctrl+Q exits and the arrows navigate; so
\* without those keys the file stays as it is and the editor open.
ArrowsNavigate == [][doc' = doc /\ (app = "edit" => app' = "edit")]_vars
=============================================================================
