----------------------------- MODULE MCTerminal -----------------------------
(***************************************************************************)
(* Between the user and the system: keyboard and mouse, the shell's line   *)
(* on the display, the view of nano, the cells of libtui, and the pages    *)
(* that curl and the browsers fetch.  One of the parts runs, the others    *)
(* rest.                                                                   *)
(*   input     two keys, two packets, two repetitions                      *)
(*   shell     a screen of three rows of two, a prompt of one character    *)
(*             and lines of two, so that the line wraps and scrolls        *)
(*   nano      three columns and as many rows of text, six characters      *)
(*   tui       two windows of three kinds that overlap and leave the       *)
(*             screen                                                      *)
(*   fetch     five redirects, as in the code                              *)
(***************************************************************************)
EXTENDS Ps2

\* The release of Enter, and the letter a.
SomeKeys == {156, 30}
\* A click, a movement whose bytes look like first bytes, and an overflow.
SomePackets == {<<9, 0, 8>>, <<8, 8, 3>>, <<72, 1, 1>>}

VARIABLES
    part,
    d, line, line_position, history, history_pos, shell_phase, terminal_saved, before, printed,
    nano_buffer, position, top_line, left_column, cells, cursor,
    windows, back, front, terminal, redraw, dirty,
    caller, url, live, follow, was_secure, redirects, fetched, http_output, outcome

shell == <<d, line, line_position, history, history_pos, shell_phase, terminal_saved,
           before, printed>>
nano == <<nano_buffer, position, top_line, left_column, cells, cursor>>
tui == <<windows, back, front, terminal, redraw, dirty>>
fetch == <<caller, url, live, follow, was_secure, redirects, fetched, http_output, outcome>>

Win(x, y, w, h, double, title) ==
    [x |-> x, y |-> y, width |-> w, height |-> h, double |-> double, title |-> title]

S == INSTANCE Shell WITH
       Width <- 2, Height <- 3, Prompt <- <<"#">>, Chars <- {"a", " "}, LineCapacity <- 2,
       HistoryMax <- 1, MaxOutput <- 2, position <- line_position, phase <- shell_phase
N == INSTANCE NanoView WITH width <- 3, height <- 6, Letters <- {"a"}, Capacity <- 6
W == INSTANCE TuiCells WITH
       width <- 7, height <- 6, MaxWindows <- 2, Values <- {"u", "v"},
       Kinds <- {Win(0, 0, 6, 5, FALSE, 2), Win(-2, 1, 5, 5, TRUE, 2), Win(4, 3, 9, 3, FALSE, 0)}
F == INSTANCE Fetch WITH Redirects <- 5

ASSUME Ps2Assumption /\ S!ShellAssumption

\* A part that does not run rests in one of its initial states.
MCInit ==
    /\ part \in {"input", "shell", "nano", "tui", "fetch"}
    /\ (part # "input" => config = 0 /\ mouse = [present |-> FALSE, reporting |-> FALSE]) /\ Init
    /\ S!Init /\ N!Init /\ W!Init /\ F!Init

MCNext ==
    /\ UNCHANGED part
    /\ IF part = "input" THEN Next ELSE UNCHANGED vars
    /\ IF part = "shell" THEN S!Next ELSE UNCHANGED shell
    /\ IF part = "nano" THEN N!Next ELSE UNCHANGED nano
    /\ IF part = "tui" THEN W!Next ELSE UNCHANGED tui
    /\ IF part = "fetch" THEN F!Next ELSE UNCHANGED fetch

MCSpec ==
    /\ MCInit /\ [][MCNext]_<<part, vars, shell, nano, tui, fetch>>
    /\ WF_vars(part = "input" /\ Initializes) /\ WF_vars(part = "input" /\ KeyPoll)
    /\ WF_vars(part = "input" /\ MousePoll) /\ WF_vars(part = "input" /\ Load)
    /\ WF_fetch(part = "fetch" /\ F!Step)

-----------------------------------------------------------------------------
(* Properties                                                              *)

\* While the shell waits for a key, the display shows the prompt, the line that Enter would
\* execute and nothing else, with the cursor at its place, and no cursor is left elsewhere.
PromptTrue == part = "shell" => S!PromptTrue /\ S!NoGhost

\* When a full-screen program gives the terminal back, the screen is the one it found; when it
\* ends without doing so, that screen with the prompt printed behind.
ScreenRestored == S!ScreenRestored

\* nano's cursor is on the character that the next key acts on, wherever the view was scrolled
\* to; a tab before it and a line above it that is wider than the screen are excepted.
CursorOnText == part = "nano" => N!CursorOnText

\* What a tui_render that redraws leaves on the terminal is what the windows show, the one in
\* front first; any other leaves what is in the back buffer.
CellsTrue == W!CellsTrue

\* Redirects that lead to each other end the fetch all the same, and once a page of it came
\* over HTTPS no later one is asked for over HTTP.
FetchEnds == F!FetchEnds /\ []F!NoDowngrade

=============================================================================
