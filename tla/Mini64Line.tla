----------------------------- MODULE Mini64Line -----------------------------
(***************************************************************************)
(* The keyboard and the line editor of the Mini64 rescue system            *)
(* (mini64/kernel.c): kbd_get, readline with Tab completion, and the       *)
(* history.  A buffer is an array with a NUL somewhere, as in the code:    *)
(* what lies behind the NUL stays there.  readline is called with line,    *)
(* which is as long as an entry of the history, and for a confirmation     *)
(* with answer, which is shorter.                                          *)
(***************************************************************************)
EXTENDS Integers, Sequences, FiniteSets

CONSTANTS
    Upper,          \* the letter keys, and the upper case of each
    cmd_list,       \* the commands, as sequences of characters
    max, answer,    \* sizeof line, and of the answer to a question
    HIST_MAX

VARIABLES
    at,                     \* "edit" in readline, "caller" once it has returned
    room,                   \* readline's max
    spilled,                \* a line longer than its buffer was copied there: nothing is known from then on
    buf, pos, len,          \* readline's line
    h, saved,               \* the history entry shown, or -1; the draft put aside for it
    history,                \* newest first, hist_count entries
    past,                   \* for the properties: the lines that hist_add was given for them
    left_shift, right_shift, caps_lock,
    held, caps              \* the keyboard itself: shift keys held down, its Caps Lock

prompt == <<at, room>>
line == <<prompt, spilled, buf, pos, len, h, saved>>
kbd == <<left_shift, right_shift, caps_lock, held, caps>>
vars == <<line, history, past, kbd>>

NUL == "NUL"
Index == 0..max - 1
Letters == DOMAIN Upper

Text(b, n) == [i \in 1..n |-> b[i - 1]]
strlen(b) == CHOOSE n \in 0..max : (n = max \/ b[n] = NUL) /\ \A i \in 0..n - 1 : b[i] # NUL
String(b) == Text(b, strlen(b))
Copy(b, s) == [i \in Index |-> IF i < Len(s) THEN s[i + 1] ELSE IF i = Len(s) THEN NUL ELSE b[i]]

-----------------------------------------------------------------------------
(* kbd_get                                                                 *)

Char(k) == IF (left_shift \/ right_shift) # caps_lock THEN Upper[k] ELSE k

\* Mutant: releasing one shift key releases both.
ReleaseBoth(side) == left_shift' = FALSE /\ right_shift' = FALSE

Release(side) ==
    /\ left_shift' = (left_shift /\ side # "left")
    /\ right_shift' = (right_shift /\ side # "right")

ShiftDown(side) ==
    /\ side \notin held /\ held' = held \cup {side}
    /\ left_shift' = (left_shift \/ side = "left") /\ right_shift' = (right_shift \/ side = "right")
    /\ UNCHANGED <<line, history, past, caps_lock, caps>>

ShiftUp(side) ==
    /\ side \in held /\ held' = held \ {side} /\ Release(side)
    /\ UNCHANGED <<line, history, past, caps_lock, caps>>

CapsLock ==
    /\ caps' = ~caps /\ caps_lock' = ~caps_lock
    /\ UNCHANGED <<line, history, past, left_shift, right_shift, held>>

-----------------------------------------------------------------------------
(* readline                                                                *)

Now(b, p, n) ==
    /\ at = "edit" /\ UNCHANGED prompt
    /\ buf' = b /\ pos' = p /\ len' = n /\ spilled' = (n >= room)
Edited == UNCHANGED <<h, saved, history, past, kbd>>

Inserted(b, n, p, c) == [i \in Index |-> IF i = p THEN c ELSE IF i \in p + 1..n THEN b[i - 1] ELSE b[i]]
Removed(b, n, p) == [i \in Index |-> IF i \in p..n - 1 THEN b[i + 1] ELSE b[i]]

Type(k) ==
    /\ len + 1 < room
    /\ Now([Inserted(buf, len, pos, Char(k)) EXCEPT ![len + 1] = NUL], pos + 1, len + 1) /\ Edited

Backspace ==
    /\ pos > 0
    /\ Now([Removed(buf, len, pos - 1) EXCEPT ![len - 1] = NUL], pos - 1, len - 1) /\ Edited

Delete ==
    /\ pos < len
    /\ Now([Removed(buf, len, pos) EXCEPT ![len - 1] = NUL], pos, len - 1) /\ Edited

\* Home, End, Left and Right.
MoveCursor ==
    /\ \/ Now(buf, 0, len) \/ Now(buf, len, len)
       \/ pos > 0 /\ Now(buf, pos - 1, len)
       \/ pos < len /\ Now(buf, pos + 1, len)
    /\ Edited

\* A command matches when it and the buffer, up to its NUL, agree as far as the shorter goes.
Match(w) == LET s == String(buf) IN \A i \in 1..Len(w) : i <= Len(s) => w[i] = s[i]

\* Tab: the rest of the only match goes in at the cursor, a character at a time, with
\* no NUL behind it; several matches are listed.
RECURSIVE Completed(_, _, _, _)
Completed(b, p, n, rest) ==
    IF rest = <<>> \/ p + 1 >= room THEN <<b, p, n>>
    ELSE Completed(Inserted(b, n, p, Head(rest)), p + 1, n + 1, Tail(rest))

Tab ==
    LET matches == {w \in cmd_list : Match(w)}
        w == CHOOSE v \in matches : TRUE
        done == Completed(buf, pos, len, SubSeq(w, strlen(buf) + 1, Len(w)))
    IN  /\ Cardinality(matches) = 1
        /\ Now(done[1], done[2], done[3]) /\ Edited

\* The loops that copy an entry or the draft know its NUL, and not the size of the buffer.
Show(s) == Now(Copy(buf, s), Len(s), Len(s))

\* saved matters only while an entry is shown.
Up ==
    /\ h + 1 < Len(history)
    /\ saved' = IF h = -1 THEN Text(buf, len) ELSE saved
    /\ h' = h + 1 /\ Show(String(history[h' + 1]))
    /\ UNCHANGED <<history, past, kbd>>

Down ==
    /\ h >= 0 /\ h' = h - 1
    /\ Show(IF h > 0 THEN String(history[h]) ELSE saved)
    /\ saved' = IF h > 0 THEN saved ELSE <<>>
    /\ UNCHANGED <<history, past, kbd>>

\* hist_add: nothing for an empty line, or one like the entry it looks at.  The new
\* entry is written over a copy of the one that was newest, without a NUL at its end.
Kept(s) == s # <<>> /\ (history = <<>> \/ String(history[Len(history)]) # s)

hist_add(s) ==
    LET count == IF Len(history) < HIST_MAX THEN Len(history) + 1 ELSE HIST_MAX
        old == IF history = <<>> THEN [i \in Index |-> NUL] ELSE history[1]
        new == [[i \in Index |-> IF i < Len(s) THEN s[i + 1] ELSE old[i]] EXCEPT ![max - 1] = NUL]
    IN  IF ~Kept(s) THEN history
        ELSE [i \in 1..count |-> IF i = 1 THEN new ELSE history[i - 1]]

\* Mutant: the line is not ended.
Unended == buf

Ended == [buf EXCEPT ![pos] = NUL]

\* Enter ends the line at the cursor, and the caller reads it up to its NUL.
Enter ==
    LET s == String(Ended) IN
    /\ at = "edit" /\ at' = "caller"
    /\ buf' = Ended /\ history' = hist_add(s)
    /\ past' = IF Kept(s) THEN SubSeq(<<s>> \o past, 1, Len(history')) ELSE past
    /\ pos' = 0 /\ len' = 0 /\ h' = -1 /\ saved' = <<>>
    /\ UNCHANGED <<room, spilled, kbd>>

\* The arrays are not initialized beyond the NUL that readline puts at their start.
Buffers == {b \in [Index -> Letters \cup {NUL}] : b[0] = NUL}

readline ==
    /\ at = "caller" /\ at' = "edit" /\ room' \in {max, answer}
    /\ buf' \in Buffers
    /\ UNCHANGED <<spilled, pos, len, h, saved, history, past, kbd>>

Lost == spilled /\ UNCHANGED vars

Init ==
    /\ at = "caller" /\ room = max /\ spilled = FALSE /\ past = <<>>
    /\ buf = [i \in Index |-> NUL] /\ pos = 0 /\ len = 0 /\ h = -1 /\ saved = <<>> /\ history = <<>>
    /\ left_shift = FALSE /\ right_shift = FALSE /\ caps_lock = FALSE
    /\ held = {} /\ caps = FALSE

Key ==
    \/ \E k \in Letters : Type(k)
    \/ Backspace \/ Delete \/ MoveCursor \/ Tab \/ Up \/ Down \/ Enter
    \/ \E side \in {"left", "right"} : ShiftDown(side) \/ ShiftUp(side)
    \/ CapsLock

Next == (~spilled /\ (Key \/ readline)) \/ Lost

Spec == Init /\ [][Next]_vars

-----------------------------------------------------------------------------
(* Properties                                                              *)

Editor == INSTANCE LineEditor WITH
    typed <- {IF (held # {}) # caps THEN Upper[k] ELSE k : k \in Letters}, Capacity <- room - 1, Words <- cmd_list,
    text <- Text(buf, len), cursor <- pos,
    given <- IF at = "edit" THEN {} ELSE {String(buf)},
    level <- h + 1, draft <- saved

\* The line that readline returns is the one the user has typed, up to the cursor, with the
\* shift keys and Caps Lock as they really are, with what Tab completes or a line of the past
\* recalled in its place, whatever these have left behind its end: readline implements the
\* line editor.  At Mini64's prompt the line always fits its buffer; in a confirmation this
\* is so until an entry of the history that is too long for the answer is recalled.
LineTrue ==
    /\ Editor!Init
    /\ [][(spilled' => room < max) /\ (spilled' \/ Editor!Next)]_<<Editor!editor, spilled>>
=============================================================================
