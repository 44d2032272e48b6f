----------------------------- MODULE LineEditor -----------------------------
(* What a line editor promises: the line is the characters typed and not   *)
(* erased, in order, the cursor is a place in it, and Enter hands on what  *)
(* stands before the cursor.                                               *)
EXTENDS Naturals, Sequences, SequencesExt

CONSTANTS
    Words           \* what can be completed

VARIABLES
    Capacity,       \* characters of a line
    text, cursor,
    typed,          \* what the keys type at the moment
    given,          \* {the line handed on}, before the next one is begun
    past,           \* the lines remembered, newest first
    level, draft    \* how far back the line is from, and the line put aside for it

editor == <<text, cursor, given, past, level, draft>>

Editing == given = {} /\ UNCHANGED <<given, past, level, draft>>

Insert ==
    /\ Editing /\ Len(text) < Capacity
    /\ \E c \in typed : text' = InsertAt(text, cursor + 1, c) /\ cursor' = cursor + 1
Erase == Editing /\ cursor > 0 /\ text' = RemoveAt(text, cursor) /\ cursor' = cursor - 1
Delete == Editing /\ cursor < Len(text) /\ text' = RemoveAt(text, cursor + 1) /\ cursor' = cursor
Move == Editing /\ cursor' \in 0..Len(text) /\ text' = text

\* The rest of a word that the line begins goes in at the cursor, as far as there is room,
\* and leaves the line as it was otherwise.
Complete ==
    \E w \in Words : \E i \in Len(text) + 1..Len(w) : \E n \in 1..Len(w) + 1 - i :
        /\ Editing /\ IsPrefix(text, w)
        /\ n = Len(w) + 1 - i \/ cursor + n = Capacity
        /\ text' = SubSeq(text, 1, cursor) \o SubSeq(w, i, i + n - 1) \o SubSeq(text, cursor + 1, Len(text))
        /\ cursor' = cursor + n

\* What is recalled begins with the line that was handed on.  A longer line remembered before
\* it may show behind its end.
Recall(l) == level' = l /\ IsPrefix(past[l], text') /\ cursor' = Len(text')

Older ==
    /\ given = {} /\ UNCHANGED <<given, past>>
    /\ level < Len(past) /\ Recall(level + 1)
    /\ draft' = IF level = 0 THEN text ELSE draft

Newer ==
    /\ given = {} /\ UNCHANGED <<given, past>>
    /\ \/ level > 1 /\ Recall(level - 1) /\ draft' = draft
       \/ level = 1 /\ level' = 0 /\ text' = draft /\ cursor' = Len(text') /\ draft' = <<>>

\* Only a line that begins as the oldest one does, or an empty one, may go unremembered.
HandOn ==
    LET s == SubSeq(text, 1, cursor) IN
    /\ given = {} /\ given' = {s} /\ text' = <<>> /\ cursor' = 0 /\ level' = 0 /\ draft' = <<>>
    /\ \/ past' # <<>> /\ Head(past') = s /\ IsPrefix(Tail(past'), past) /\ Len(past') >= Len(past)
       \/ past' = past /\ (s # <<>> => past # <<>> /\ IsPrefix(Last(past), s))

Begin == given # {} /\ given' = {} /\ UNCHANGED <<text, cursor, past, level, draft>>

Init == text = <<>> /\ cursor = 0 /\ past = <<>> /\ level = 0 /\ draft = <<>>
Next == Insert \/ Erase \/ Delete \/ Move \/ Complete \/ Older \/ Newer \/ HandOn \/ Begin
Spec == Init /\ [][Next]_editor
=============================================================================
