----------------------------- MODULE LogHistory -----------------------------
(***************************************************************************)
(* What the kernel log promises its readers (dmesg and the panic log): the *)
(* last Capacity messages that passed the level filter, oldest first.      *)
(***************************************************************************)
EXTENDS Naturals, Sequences

CONSTANTS Capacity, Levels, Msgs, Banner, MaxTime

VARIABLES recent, level, now

vars == <<recent, level, now>>

Entry(lv, m) == [timestamp |-> now, level |-> lv, msg |-> m]

Push(e) ==
    recent' = IF Len(recent) < Capacity THEN Append(recent, e) ELSE Append(Tail(recent), e)

Init == recent = <<>> /\ level = 0 /\ now = 0

\* A message below the level leaves no trace.
Submit(lv, m) == lv >= level /\ Push(Entry(lv, m)) /\ UNCHANGED <<level, now>>

\* The service starts anew: the history is forgotten.
Restart == recent' = <<Entry(1, Banner)>> /\ level' = 0 /\ now' = now

SetLevel == level' \in Levels /\ UNCHANGED <<recent, now>>

Tick == now < MaxTime /\ now' = now + 1 /\ UNCHANGED <<recent, level>>

Next == (\E lv \in Levels, m \in Msgs : Submit(lv, m)) \/ Restart \/ SetLevel \/ Tick

Spec == Init /\ [][Next]_vars

=============================================================================
