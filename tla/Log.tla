-------------------------------- MODULE Log ---------------------------------
(***************************************************************************)
(* The kernel log of kernel/drivers/display/log.c: a ring of               *)
(* LOG_MAX_ENTRIES entries, read by index.  A message is one value; the    *)
(* messages of the kernel are shorter than LOG_MSG_SIZE.                   *)
(***************************************************************************)
EXTENDS Integers, Sequences

CONSTANTS
    LOG_MAX_ENTRIES,
    Msgs,             \* what callers submit
    Banner,           \* "logging service initialized"
    MaxTime           \* bound on the clock

ASSUME LogAssumption == LOG_MAX_ENTRIES \in Nat \ {0} /\ MaxTime \in Nat

Levels == 0..3

Entries == [timestamp : Nat, level : Levels, msg : Msgs \cup {Banner}]

VARIABLES
    buffer,           \* a slot that was never written holds Blank
    head, count, current_level,
    now               \* timed_monotonic_ns

log == <<buffer, head, count, current_level, now>>

Blank == [timestamp |-> 0, level |-> 0, msg |-> Banner]

Entry(lv, m) == [timestamp |-> now, level |-> lv, msg |-> m]

\* The static variables of log.c before logd starts.
LogInit ==
    /\ buffer = [i \in 0..LOG_MAX_ENTRIES - 1 |-> Blank]
    /\ head = 0 /\ count = 0 /\ current_level = 0
    /\ now = 0

inc(v) == (v + 1) % LOG_MAX_ENTRIES

\* Mutant: the level is not looked at.
PassesAny(lv) == TRUE

Passes(lv) == lv >= current_level

\* log_submit with a message that passes; one that does not changes nothing.
log_submit(lv, m) ==
    /\ Passes(lv)
    /\ buffer' = [buffer EXCEPT ![head] = Entry(lv, m)]
    /\ head' = inc(head)
    /\ count' = IF count < LOG_MAX_ENTRIES THEN count + 1 ELSE count
    /\ UNCHANGED <<current_level, now>>

\* service_start of logd; it submits its banner to the ring it has emptied.
log_init ==
    /\ buffer' = [buffer EXCEPT ![0] = Entry(1, Banner)]
    /\ head' = inc(0)
    /\ count' = 1
    /\ current_level' = 0
    /\ now' = now

log_set_level ==
    /\ current_level' \in Levels
    /\ UNCHANGED <<buffer, head, count, now>>

Tick == now < MaxTime /\ now' = now + 1 /\ UNCHANGED <<buffer, head, count, current_level>>

LogNext ==
    \/ \E lv \in Levels, m \in Msgs : log_submit(lv, m)
    \/ log_init \/ log_set_level \/ Tick

LogSpec == LogInit /\ [][LogNext]_log

\* Mutant: a full ring is read from its first slot.
PositionUnrotated(index) == index

\* Where log_read finds the entry with this index.
Position(index) ==
    IF count < LOG_MAX_ENTRIES THEN index ELSE (head + index) % LOG_MAX_ENTRIES

\* What log_dump and panic_log_save see: log_read(0), ..., log_read(count-1).
log_read == [i \in 1..count |-> buffer[Position(i - 1)]]

-----------------------------------------------------------------------------

\* Types: the head stays inside the ring and the count within its capacity.
LogTypeOK ==
    /\ buffer \in [0..LOG_MAX_ENTRIES - 1 -> Entries]
    /\ head \in 0..LOG_MAX_ENTRIES - 1
    /\ count \in 0..LOG_MAX_ENTRIES
    /\ current_level \in Levels
    /\ now \in Nat

History == INSTANCE LogHistory
    WITH Capacity <- LOG_MAX_ENTRIES, recent <- log_read, level <- current_level

\* Reading the ring by index gives the last messages accepted, oldest first:
\* the ring implements the bounded history, across wrap-around, restarts of
\* logd and changes of the level.
RefinesHistory == History!Spec

\* dmesg shows times that do not go back.
Chronological ==
    \A i, j \in 1..count : i < j => log_read[i].timestamp <= log_read[j].timestamp

\* What dmesg and the panic log show is the last messages that log_submit
\* accepted, oldest first, at times that never go back.
LogKept == RefinesHistory /\ []Chronological

=============================================================================
