---------------------------- MODULE Timekeeping ----------------------------
\* The clock of the system: timed_init reads the CMOS clock once, with the loop
\* of rtc_read; from then on the clock runs by itself and is corrected by NTP.
EXTENDS Integers, FiniteSets, Sequences

CONSTANTS
    Seconds, Minutes,   \* seconds in a minute, minutes in an hour
    Times,              \* the times at which the chip is read and from which it ticks
    MaxTries,           \* comparisons before rtc_read gives up, 8
    NS_SECOND,          \* nanoseconds in a second
    FX_SECOND,          \* units of the fixed-point NTP format in a second, 2^32
    MaxDelay,           \* the round trip that timed_sync still accepts
    retries,            \* queries of a synchronization
    Start,              \* the time at boot, long after the epoch
    Horizon,            \* the time at which a behaviour ends
    Errors,             \* how wrong the local clock may be at first
    Pause,              \* how long a server may take to answer
    NetMax              \* datagrams under way at a time

ASSUME RtcAssumption ==
    {Seconds, Minutes, MaxTries} \subseteq Nat \ {0} /\ Times \subseteq Nat

ASSUME ClockAssumption ==
    /\ {NS_SECOND, FX_SECOND} \subseteq Nat \ {0} /\ NS_SECOND <= FX_SECOND
    /\ {MaxDelay, retries, Start, Horizon, Pause, NetMax} \subseteq Nat /\ Errors \subseteq Int

VARIABLES
    booted,
    chip,       \* [time, uip, bcd, h24]: the time, update in progress, format
    pc, tries, a, b,
    result,     \* what rtc_read stored through its argument
    shown,      \* the times that the chip has shown during the call
    ticked,     \* the updates in the previous snapshot and in this one
    now, err,
    running, synchronized, last_delay,
    query,      \* [pc, t1, tries]: timed_sync and its network_ntp_query
    request,    \* ntp_request_timestamp
    status,     \* ntp_reply_status
    reply,      \* ntp_reply
    net         \* the datagrams under way

rtc == <<chip, pc, tries, a, b, result, shown, ticked>>
clock == <<err, running, synchronized, last_delay>>
client == <<query, request, status, reply>>
timed == <<now, clock, client, net>>
vars == <<booted, rtc, timed>>

----------------------------------------------------------------------------
\* drivers/rtc/rtc.c: rtc_read against a clock chip that ticks while its
\* registers are read one by one.  The registers are the second, the minute,
\* the hour in the chip's format, and one that stands for the date.

Bcd(n) == 16 * (n \div 10) + (n % 10)
from_bcd(n) == (n % 16) + 10 * (n \div 16)

\* The chip: 12-hour formats count 12, 1, ..., 11 and set bit 7 after noon.
HourRegister(h, bcd, h24) ==
    LET h12 == IF h % 12 = 0 THEN 12 ELSE h % 12
        n   == IF h24 THEN h ELSE h12
    IN  (IF bcd THEN Bcd(n) ELSE n) + (IF ~h24 /\ h >= 12 THEN 128 ELSE 0)

Time(t) == <<t % Seconds, (t \div Seconds) % Minutes,
             (t \div (Seconds * Minutes)) % 24, t \div (Seconds * Minutes * 24)>>

Registers ==
    LET t == Time(chip.time)
        Coded(n) == IF chip.bcd THEN Bcd(n) ELSE n
    IN  <<Coded(t[1]), Coded(t[2]), HourRegister(t[3], chip.bcd, chip.h24), Coded(t[4])>>

\* rtc_read's conversion, by status register B.
HourDecoded(r, bcd, h24) ==
    LET pm == r >= 128
        h  == IF bcd THEN from_bcd(r % 128) ELSE r % 128
    IN  IF h24 THEN h
        ELSE IF pm /\ h < 12 THEN h + 12
        ELSE IF ~pm /\ h = 12 THEN 0 ELSE h

Decoded(s) ==
    LET D(n) == IF chip.bcd THEN from_bcd(n) ELSE n
    IN  <<D(s[1]), D(s[2]), HourDecoded(s[3], chip.bcd, chip.h24), D(s[4])>>

RtcInit ==
    /\ chip \in [time : Times, uip : {FALSE}, bcd : BOOLEAN, h24 : BOOLEAN]
    /\ pc = "idle" /\ tries = 0 /\ a = <<>> /\ b = <<>>
    /\ result = <<>> /\ shown = {} /\ ticked = <<0, 0>>

----------------------------------------------------------------------------
\* wait_update_complete has seen the bit clear: the next snapshot begins.
Await(from, to) ==
    /\ pc = from /\ ~chip.uip
    /\ pc' = to
    /\ ticked' = <<ticked[2], 0>>

Begin ==
    /\ Await("idle", "a")
    /\ tries' = 0 /\ a' = <<>> /\ b' = <<>> /\ result' = <<>>
    /\ shown' = {Time(chip.time)}
    /\ UNCHANGED chip

\* snapshot: one register after the other.
SnapshotA ==
    /\ pc = "a"
    /\ a' = Append(a, Registers[Len(a) + 1])
    /\ pc' = IF Len(a') = 4 THEN "again" ELSE "a"
    /\ UNCHANGED <<chip, tries, b, result, shown, ticked>>

Again ==
    /\ Await("again", "b")
    /\ b' = <<>>
    /\ UNCHANGED <<chip, tries, a, result, shown>>

SnapshotB ==
    /\ pc = "b"
    /\ b' = Append(b, Registers[Len(b) + 1])
    /\ pc' = IF Len(b') = 4 THEN "compare" ELSE "b"
    /\ UNCHANGED <<chip, tries, a, result, shown, ticked>>

\* Mutant: one snapshot is enough.
CompareNothing ==
    /\ pc = "compare"
    /\ result' = Decoded(b) /\ pc' = "idle"
    /\ UNCHANGED <<chip, tries, a, b, shown, ticked>>

Compare ==
    /\ pc = "compare"
    /\ IF a = b
       THEN result' = Decoded(b) /\ pc' = "idle" /\ UNCHANGED <<tries, a>>
       ELSE /\ a' = b /\ UNCHANGED result
            /\ IF tries = MaxTries - 1 THEN pc' = "idle" /\ UNCHANGED tries
               ELSE pc' = "again" /\ tries' = tries + 1
    /\ UNCHANGED <<chip, b, shown, ticked>>

\* The bit stays set for too long: rtc_read returns 0.
GivesUp ==
    /\ pc = "again" /\ chip.uip
    /\ pc' = "idle"
    /\ UNCHANGED <<chip, tries, a, b, result, shown, ticked>>

----------------------------------------------------------------------------
\* The chip announces an update and then makes it, at most once in two
\* snapshots: they take far less than a second.
Announces ==
    /\ ~chip.uip /\ chip.time \in Times
    /\ chip' = [chip EXCEPT !.uip = TRUE]
    /\ UNCHANGED <<pc, tries, a, b, result, shown, ticked>>

Ticks ==
    /\ chip.uip /\ (pc = "idle" \/ ticked = <<0, 0>>)
    /\ chip' = [chip EXCEPT !.uip = FALSE, !.time = @ + 1]
    /\ shown' = IF pc = "idle" THEN shown ELSE shown \cup {Time(chip'.time)}
    /\ ticked' = <<0, IF pc = "idle" THEN 0 ELSE 1>>
    /\ UNCHANGED <<pc, tries, a, b, result>>

RtcStep ==
    \/ Begin \/ SnapshotA \/ Again \/ SnapshotB \/ Compare \/ GivesUp
    \/ Announces \/ Ticks

\* rtc_read has returned, or its first wait has failed.  The chip is not read
\* again, so that its state and that of the call no longer matter.
Rests ==
    /\ pc = "idle" /\ pc' = "idle"
    /\ chip' = [time |-> 0, uip |-> FALSE, bcd |-> TRUE, h24 |-> TRUE]
    /\ tries' = 0 /\ a' = <<>> /\ b' = <<>>
    /\ result' = <<>> /\ shown' = {} /\ ticked' = <<0, 0>>

----------------------------------------------------------------------------
\* core/timed.c and the NTP client of net/net.c.  Time is counted in
\* nanoseconds of the server's clock; the local clock is err ahead of it, and
\* err changes only when timed_sync corrects it (the rate of the TSC is taken
\* to be right).  The network delays, loses, repeats and reorders datagrams.

Request(o) == [kind |-> "request", origin |-> o, receive |-> 0, transmit |-> 0, at |-> 0]

\* Division of C: towards zero.
Quotient(n, d) == IF n >= 0 THEN n \div d ELSE -((-n) \div d)
Remainder(n, d) == n - d * Quotient(n, d)

ntp_from_ns(ns) ==
    (ns \div NS_SECOND) * FX_SECOND + ((ns % NS_SECOND) * FX_SECOND) \div NS_SECOND

fixed_delta_ns(t, s) ==
    LET d == t - s
    IN  Quotient(d, FX_SECOND) * NS_SECOND
          + Quotient(Remainder(d, FX_SECOND) * NS_SECOND, FX_SECOND)

Local == now + err                 \* timed_get_realtime_ns

Idle == [pc |-> "idle", t1 |-> 0, tries |-> 0]

ClockInit ==
    /\ now = Start /\ err = 0
    /\ running = FALSE /\ synchronized = FALSE /\ last_delay = 0
    /\ query = Idle /\ request = 0 /\ status = "none"
    /\ reply = [receive |-> 0, transmit |-> 0]
    /\ net = {}

timed_start ==
    /\ query = Idle /\ ~running /\ running' = TRUE
    /\ UNCHANGED <<now, err, synchronized, last_delay, client, net>>

timed_stop ==
    /\ query = Idle /\ running /\ running' = FALSE
    /\ UNCHANGED <<now, err, synchronized, last_delay, client, net>>

\* timed_set_server: what the clock was synchronized with no longer counts.
timed_set_server ==
    /\ query = Idle /\ synchronized /\ synchronized' = FALSE
    /\ UNCHANGED <<now, err, running, last_delay, client, net>>

\* timed_sync, called by timed_poll or by a command, takes its timestamp once.
\* No datagram under way carries the same one: a nanosecond is that short.
timed_sync ==
    LET t1 == ntp_from_ns(Local)
    IN  /\ query = Idle /\ running
        /\ \A m \in net : m.origin # t1
        /\ query' = [pc |-> "attempt", t1 |-> t1, tries |-> 0]
        /\ UNCHANGED <<now, clock, request, status, reply, net>>

\* A query has failed: the next one, or timed_sync gives up.
Failed == IF query.tries + 1 < retries
          THEN [query EXCEPT !.pc = "attempt", !.tries = @ + 1] ELSE Idle

\* network_ntp_query: no address, no route or no card; or the request is sent.
AttemptFails ==
    /\ query.pc = "attempt"
    /\ query' = Failed
    /\ UNCHANGED <<now, clock, request, status, reply, net>>

AttemptSends ==
    /\ query.pc = "attempt"
    /\ request' = query.t1 /\ status' = "none"
    /\ query' = [query EXCEPT !.pc = "wait"]
    /\ net' = net \cup {Request(query.t1)}
    /\ Cardinality(net') <= NetMax
    /\ UNCHANGED <<now, clock, reply>>

\* The wait ends without an answer, or with one that ntp_receive refused.
AttemptTimesOut ==
    /\ query.pc = "wait" /\ status # "ok"
    /\ query' = Failed
    /\ UNCHANGED <<now, clock, request, status, reply, net>>

\* What timed_sync makes of the answer: offset and round trip.
Offset(t4) ==
    Quotient(fixed_delta_ns(reply.receive, query.t1) + fixed_delta_ns(reply.transmit, t4), 2)

Delay(t4) == fixed_delta_ns(t4, query.t1) - fixed_delta_ns(reply.transmit, reply.receive)

Answered ==
    LET t4 == ntp_from_ns(Local)
    IN  /\ query.pc = "wait" /\ status = "ok"
        /\ last_delay' = Delay(t4)
        /\ IF Delay(t4) \in 0..MaxDelay
           THEN err' = err + Offset(t4) /\ synchronized' = TRUE
           ELSE UNCHANGED <<err, synchronized>>
        /\ query' = Idle
        /\ UNCHANGED <<now, running, request, status, reply, net>>

\* Mutant: the reply's originate timestamp is not compared.
ntp_receive_any(m) ==
    IF m.kind # "reply" \/ m.transmit < m.receive THEN status' = "refused" /\ UNCHANGED reply
    ELSE status' = "ok" /\ reply' = [receive |-> m.receive, transmit |-> m.transmit]

\* The reply must name the request's timestamp and have sound ones itself.
ntp_receive(m) ==
    IF m.kind # "reply" \/ m.origin # request \/ m.transmit < m.receive
    THEN status' = "refused" /\ UNCHANGED reply
    ELSE status' = "ok" /\ reply' = [receive |-> m.receive, transmit |-> m.transmit]

----------------------------------------------------------------------------
\* The server stamps a request when it arrives and its answer, which may be a
\* refusal, when it leaves.  The request may arrive again.
ServerAnswers ==
    \E m \in net, kind \in {"reply", "refusal"}, p \in 0..Pause :
      /\ m.kind = "request"
      /\ net' = net \cup {[kind |-> kind, origin |-> m.origin, at |-> now + p,
                           receive |-> ntp_from_ns(now), transmit |-> ntp_from_ns(now + p)]}
      /\ Cardinality(net') <= NetMax
      /\ UNCHANGED <<now, clock, client>>

\* network_poll meets an answer, in a wait or outside one.  It may come again.
Arrives ==
    \E m \in net :
      /\ m.kind # "request" /\ m.at <= now
      /\ ntp_receive(m)
      /\ UNCHANGED <<now, clock, query, request, net>>

Lost == \E m \in net : net' = net \ {m} /\ UNCHANGED <<now, clock, client>>

Tick == now < Horizon /\ now' = now + 1 /\ UNCHANGED <<clock, client, net>>

ClockStep ==
    \/ timed_start \/ timed_stop \/ timed_set_server \/ timed_sync
    \/ AttemptFails \/ AttemptSends \/ AttemptTimesOut \/ Answered
    \/ ServerAnswers \/ Arrives \/ Lost \/ Tick

----------------------------------------------------------------------------
\* The clock of the system
Init == booted = FALSE /\ RtcInit /\ ClockInit

Boots == ~booted /\ RtcStep /\ UNCHANGED <<booted, timed>>

\* service_init: rtc_read has returned and timed_init makes its base of the
\* result, which may be wrong or give no time at all; timed_stop follows at once.
timed_init ==
    /\ ~booted /\ booted' = TRUE /\ Rests
    /\ err' \in Errors /\ running' = FALSE
    /\ synchronized' = FALSE /\ last_delay' = 0
    /\ UNCHANGED <<now, client, net>>

Runs == booted /\ ClockStep /\ UNCHANGED <<booted, rtc>>

Next == Boots \/ timed_init \/ Runs

Spec == Init /\ [][Next]_vars

----------------------------------------------------------------------------
\* A time that rtc_read returns is one that the chip has shown during the call,
\* whole and in every register format, although the registers are read one by
\* one and an update may fall between any two of the reads.
ReadsTrue == result # <<>> => result \in shown

Distance(n) == IF n < 0 THEN -n ELSE n

Rounding == 4       \* nanoseconds that the conversions and the halving may cost

Bounded == 2 * Distance(err) <= last_delay + Rounding

\* A correction of the clock leaves it off by no more than half the round trip
\* that timed then reports, and only such a step makes it synchronized: whatever
\* the network does to requests and replies, and although every retry repeats
\* the timestamp of the first.
SyncBound ==
    [][booted /\ (err' # err \/ (synchronized' /\ ~synchronized)) => Bounded']_vars

=============================================================================
