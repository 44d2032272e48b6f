--------------------------- MODULE NetworkProofs ----------------------------
(***************************************************************************)
(* Proofs about the calls that ask and wait: that a lookup and a ping are  *)
(* given the answer to their own question, that rtc_read never mixes two   *)
(* times, and how far from the server's time a synchronization leaves the  *)
(* clock.                                                                  *)
(***************************************************************************)
EXTENDS Timekeeping, Datagrams, TLAPS

-----------------------------------------------------------------------------
(* ARP, ping and DNS                                                       *)

\* Two numbers less than m apart that agree modulo m are the same.
LEMMA SameModulo ==
    ASSUME NEW m \in Nat \ {0}, NEW x \in Nat, NEW y \in Nat,
           y <= x, x < y + m, x % m = y % m
    PROVE  x = y
<1>1. x = m * (x \div m) + (x % m) /\ y = m * (y \div m) + (y % m)
  OBVIOUS
<1> DEFINE p == x \div m
           q == y \div m
<1>2. p \in Int /\ q \in Int /\ x - y = m * p - m * q
  BY <1>1
<1> HIDE DEF p, q
<1>3. m * (p - q) = m * p - m * q
  BY <1>2
<1>4. 0 <= m * (p - q) /\ m * (p - q) < m
  BY <1>2, <1>3
<1>5. p - q = 0
  BY <1>2, <1>4
<1> QED
  BY <1>2, <1>5

\* Counting on by one, modulo m.
LEMMA NextModulo ==
    ASSUME NEW m \in Nat \ {0}, NEW x \in Nat
    PROVE  (x + 1) % m = IF x % m = m - 1 THEN 0 ELSE (x % m) + 1
<1> DEFINE p == x \div m
           r == x % m
<1>1. p \in Nat /\ r \in 0..m - 1 /\ x = m * p + r
  OBVIOUS
<1> HIDE DEF p, r
<1>2. CASE r = m - 1
  <2>1. x + 1 = m * (p + 1) + 0
    BY <1>1, <1>2
  <2>2. (m * (p + 1) + 0) % m = 0
    BY <1>1
  <2> QED
    BY <1>2, <2>1, <2>2 DEF r
<1>3. CASE r # m - 1
  <2>1. x + 1 = m * p + (r + 1) /\ r + 1 \in 0..m - 1
    BY <1>1, <1>3
  <2>2. (m * p + (r + 1)) % m = r + 1
    BY <1>1, <2>1
  <2> QED
    BY <1>3, <2>1, <2>2 DEF r
<1> QED
  BY <1>2, <1>3

DatagramsTypeOK ==
    /\ asked \in [ping : Nat, dns : Nat]
    /\ sequence \in Nat /\ reply_sequence \in Nat /\ echoed \in Nat /\ refused \in Nat /\ told \in Nat
    /\ dns_reply_id \in Nat /\ dns_reply_status \in Nat /\ dns_reply_address \in Nat
    /\ ping_error \in BOOLEAN

\* The inductive invariant.  The identifiers follow the number of questions;
\* what is kept of an answer belongs to the last question of its kind; and
\* while a call waits there is no answer.
DatagramsInv ==
    /\ DatagramsTypeOK
    /\ sequence = asked.ping % Width
    /\ dns_reply_id = IF asked.dns = 0 THEN 0 ELSE IdOf(asked.dns)
    /\ reply_sequence = echoed % Width
    /\ echoed # 0 => echoed <= asked.ping /\ asked.ping < echoed + Age
    /\ ping_error => refused = asked.ping
    /\ dns_reply_status = 1 => dns_reply_address = asked.dns
    /\ dns_reply_status # 0 => told = asked.dns
    /\ waiting.wait \in {"arp", "answer"} => answer.op = "none" /\ waiting.op \in {"ping", "dns"}
    /\ AnswersTrue

\* Nothing was asked when the network comes up.
LEMMA DatagramsInitInv == DatagramsInit => DatagramsInv
<1> SUFFICES ASSUME DatagramsInit PROVE DatagramsInv
  OBVIOUS
<1>1. DatagramsTypeOK
  BY ZenonT(40) DEF DatagramsInit, DatagramsTypeOK
<1>2. 0 % Width = 0
  BY DatagramsAssumption
<1>3. waiting.wait = "none" /\ answer.op = "none" /\ asked.ping = 0 /\ asked.dns = 0
  BY DEF DatagramsInit, NoCall
<1>4. AnswersTrue
  BY <1>3 DEF AnswersTrue
<1>5. sequence = asked.ping % Width /\ reply_sequence = echoed % Width
  BY <1>2, <1>3 DEF DatagramsInit
<1> QED
  BY <1>1, <1>3, <1>4, <1>5 DEF DatagramsInit, DatagramsInv

\* The identifier after the one of query n is that of query n + 1.
LEMMA NextIdIs ==
    ASSUME DatagramsInv PROVE NextId = IdOf(asked.dns + 1) /\ NextId \in Nat
<1> DEFINE k == asked.dns
<1>0. k \in Nat /\ Width \in Nat /\ Width > 1
  BY DatagramsAssumption DEF DatagramsInv, DatagramsTypeOK
<1>1. CASE k = 0
  BY <1>0, <1>1 DEF DatagramsInv, NextId, IdOf
<1>2. CASE k > 0
  <2>1. dns_reply_id = ((k - 1) % (Width - 1)) + 1
    BY <1>0, <1>2 DEF DatagramsInv, IdOf
  <2> DEFINE m == Width - 1
             j == k - 1
             r == j % m
  <2>2. m \in Nat \ {0} /\ j \in Nat /\ r \in 0..m - 1
    BY <1>0, <1>2
  <2>3. (j + 1) % m = IF r = m - 1 THEN 0 ELSE r + 1
    BY <2>2, NextModulo
  <2>4. IdOf(k + 1) = ((j + 1) % m) + 1
    BY <1>0 DEF IdOf
  <2>5. dns_reply_id = r + 1
    BY <2>1
  <2> HIDE DEF r
  <2>6. CASE r = m - 1
    BY <1>0, <2>2, <2>3, <2>4, <2>5, <2>6 DEF NextId
  <2>7. CASE r # m - 1
    BY <1>0, <2>2, <2>3, <2>4, <2>5, <2>7 DEF NextId
  <2> QED
    BY <2>6, <2>7
<1> QED
  BY <1>0, <1>1, <1>2

\* A step that sends no question and returns no answer, and keeps what
\* belongs to the last questions.
LEMMA QuietInv ==
    ASSUME DatagramsInv, Silent, answer' = answer,
           waiting'.wait \in {"arp", "answer"} => answer.op = "none" /\ waiting'.op \in {"ping", "dns"}
    PROVE  DatagramsInv'
BY DEF DatagramsInv, DatagramsTypeOK, Silent, ping, dns, AnswersTrue, IdOf

\* The question of a ping or of a lookup goes out.
LEMMA SendInv ==
    ASSUME DatagramsInv, NEW op \in {"ping", "dns"}, Send(op),
           answer'.op = "none", waiting'.op = op
    PROVE  DatagramsInv'
<1>0. DatagramsTypeOK
  BY DEF DatagramsInv
<1>1. CASE op = "ping"
  <2>1. /\ sequence' = (sequence + 1) % Width /\ reply_sequence' = 0 /\ ping_error' = FALSE
        /\ echoed' = 0 /\ refused' = refused /\ asked' = [asked EXCEPT !.ping = @ + 1]
        /\ dns_reply_id' = dns_reply_id /\ dns_reply_status' = dns_reply_status
        /\ dns_reply_address' = dns_reply_address /\ told' = told
    BY <1>1 DEF Send, SendPing, dns
  <2>2. asked'.ping = asked.ping + 1 /\ asked'.dns = asked.dns /\ asked' \in [ping : Nat, dns : Nat]
    BY <1>0, <2>1 DEF DatagramsTypeOK
  <2>3. (sequence + 1) % Width = (asked.ping + 1) % Width
    <3> DEFINE r == asked.ping % Width
    <3>1. Width \in Nat \ {0} /\ asked.ping \in Nat /\ Width > 1
      BY <1>0, DatagramsAssumption DEF DatagramsTypeOK
    <3>2. (asked.ping + 1) % Width = IF r = Width - 1 THEN 0 ELSE r + 1
      BY ZenonT(40), <3>1, NextModulo
    <3>3. r \in 0..Width - 1
      BY <3>1
    <3>4. sequence = r
      BY DEF DatagramsInv
    <3> HIDE DEF r
    <3>5. (r + 1) % Width = IF r = Width - 1 THEN 0 ELSE r + 1
      BY <3>1, <3>3
    <3> QED
      BY <3>2, <3>4, <3>5
  <2>4. sequence' \in Nat /\ 0 % Width = 0
    BY <1>0, <2>1, DatagramsAssumption DEF DatagramsTypeOK
  <2>5. DatagramsTypeOK'
    BY ZenonT(40), <1>0, <2>1, <2>2, <2>4 DEF DatagramsTypeOK
  <2> QED
    BY <2>1, <2>2, <2>3, <2>4, <2>5 DEF DatagramsInv, AnswersTrue, IdOf
<1>2. CASE op = "dns"
  <2>1. /\ dns_reply_id' = NextId /\ dns_reply_status' = 0 /\ dns_reply_address' = 0 /\ told' = told
        /\ asked' = [asked EXCEPT !.dns = @ + 1]
        /\ sequence' = sequence /\ reply_sequence' = reply_sequence
        /\ ping_error' = ping_error /\ echoed' = echoed /\ refused' = refused
    BY <1>2 DEF Send, SendQuery, ping
  <2>2. asked'.dns = asked.dns + 1 /\ asked'.ping = asked.ping /\ asked' \in [ping : Nat, dns : Nat]
        /\ asked'.dns > 0
    BY <1>0, <2>1 DEF DatagramsTypeOK
  <2>3. dns_reply_id' = IdOf(asked'.dns) /\ dns_reply_id' \in Nat
    BY <2>1, <2>2, NextIdIs
  <2>5. DatagramsTypeOK'
    BY <1>0, <2>1, <2>2, <2>3 DEF DatagramsTypeOK
  <2> QED
    BY <2>1, <2>2, <2>3, <2>5 DEF DatagramsInv, AnswersTrue, IdOf
<1> QED
  BY <1>1, <1>2

\* network_ping and network_resolve: the question goes out at once, or when
\* resolve_next_hop has found the neighbour.
LEMMA CallInv ==
    ASSUME DatagramsInv,
           \/ \E to \in Hosts \cup {None} : network_ping(to)
           \/ network_resolve
           \/ HopFound
    PROVE  DatagramsInv'
<1>1. ASSUME NEW op \in {"ping", "dns"}, NEW to, Ask(op, to) PROVE DatagramsInv'
  <2>1. answer'.op = "none" /\ waiting'.op = op
    BY <1>1 DEF Ask
  <2>2. CASE Send(op)
    BY <2>1, <2>2, SendInv
  <2>3. CASE Silent
    BY <2>1, <2>3 DEF DatagramsInv, DatagramsTypeOK, Silent, ping, dns, AnswersTrue, IdOf
  <2> QED
    BY <1>1, <2>2, <2>3 DEF Ask
<1>2. CASE HopFound
  <2>1. answer'.op = "none" /\ waiting.op \in {"ping", "dns"} /\ waiting'.op = waiting.op
    BY <1>2 DEF HopFound, DatagramsInv
  <2> QED
    BY <1>2, <2>1, SendInv DEF HopFound
<1> QED
  BY <1>1, <1>2 DEF network_ping, network_resolve

\* A call returns: an echo with the number of the last ping is the echo of
\* the last ping, and an address or an error that is kept belongs to the last
\* query.
LEMMA ReturnInv ==
    ASSUME DatagramsInv, HopMissing \/ PingReturns \/ ResolveReturns
    PROVE  DatagramsInv'
<1>0. DatagramsTypeOK
  BY DEF DatagramsInv
<1>1. Silent /\ waiting'.wait = "none"
  BY DEF HopMissing, PingReturns, ResolveReturns, Returns, NoCall
<1>2. /\ DatagramsTypeOK' /\ asked' = asked /\ sequence' = sequence
  BY <1>0, <1>1 DEF Silent, ping, dns, DatagramsTypeOK
<1>3. AnswersTrue'
  <2>1. CASE HopMissing
    <3>1. answer'.value = "no_route"
      BY <2>1 DEF HopMissing, Returns
    <3> QED
      BY <3>1 DEF AnswersTrue
  <2>2. CASE PingReturns
    <3>1. /\ answer'.op = "ping" /\ answer'.of = IF ping_error THEN refused ELSE echoed
          /\ answer'.value = "echo" => ~ping_error /\ reply_sequence = sequence
          /\ answer'.value = "unreachable" => ping_error
      BY <2>2 DEF PingReturns, Returns
    <3>2. ASSUME reply_sequence = sequence, sequence # 0 PROVE echoed = asked.ping
      <4>1. /\ Width \in Nat \ {0} /\ Age \in Nat /\ Age < Width
            /\ asked.ping \in Nat /\ echoed \in Nat
        BY <1>0, DatagramsAssumption DEF DatagramsTypeOK
      <4>2. echoed % Width = asked.ping % Width /\ echoed # 0
        BY <3>2, <4>1 DEF DatagramsInv
      <4>3. echoed <= asked.ping /\ asked.ping < echoed + Width
        BY <4>1, <4>2 DEF DatagramsInv
      <4> QED
        BY ZenonT(40), <4>1, <4>2, <4>3, SameModulo
    <3>3. ASSUME ping_error PROVE refused = asked.ping
      BY <3>3 DEF DatagramsInv
    <3> QED
      BY <1>2, <3>1, <3>2, <3>3 DEF AnswersTrue
  <2>3. CASE ResolveReturns
    <3>1. /\ answer'.op = "dns" /\ answer'.of = IF dns_reply_status = 1 THEN dns_reply_address ELSE told
          /\ answer'.value = "address" => dns_reply_status = 1
          /\ answer'.value = "error" => dns_reply_status \notin {0, 1}
      BY <2>3 DEF ResolveReturns, Returns
    <3> QED
      BY <1>2, <3>1 DEF AnswersTrue, DatagramsInv
  <2> QED
    BY <2>1, <2>2, <2>3
<1> QED
  BY <1>1, <1>2, <1>3 DEF DatagramsInv, Silent, ping, dns, IdOf

\* The frames.  Only the last query has the identifier of the last query
\* among those that may still be answered.
LEMMA FrameInv ==
    ASSUME DatagramsInv,
           \/ \E h \in Hosts : Arp(h)
           \/ \E n \in Recent("ping") : Echo(n)
           \/ Unreachable
           \/ \E n \in Recent("dns") : Answer(n)
    PROVE  DatagramsInv'
<1>0. /\ DatagramsTypeOK /\ Width \in Nat /\ Width > 1 /\ Age \in Nat /\ Age < Width
      /\ asked.ping \in Nat /\ asked.dns \in Nat
  BY DatagramsAssumption DEF DatagramsInv, DatagramsTypeOK
<1>1. asked' = asked /\ waiting' = waiting /\ answer' = answer
  BY DEF Arp, Echo, Unreachable, Answer, Untouched
<1>2. CASE \E h \in Hosts : Arp(h)
  BY <1>1, <1>2, QuietInv DEF Arp, Silent, DatagramsInv
<1>3. ASSUME NEW n \in Recent("ping"), Echo(n) PROVE DatagramsInv'
  <2>1. n \in Nat /\ n <= asked.ping /\ asked.ping < n + Age
    BY <1>0 DEF Recent
  <2>2. n % Width \in Nat
    BY <1>0, <2>1
  <2>3. DatagramsTypeOK'
    BY <1>0, <1>1, <1>3, <2>1, <2>2 DEF Echo, DatagramsTypeOK, dns
  <2> QED
    BY <1>1, <1>3, <2>1, <2>3 DEF Echo, DatagramsInv, AnswersTrue, dns, IdOf
<1>4. CASE Unreachable
  <2>1. DatagramsTypeOK'
    BY <1>0, <1>1, <1>4 DEF Unreachable, DatagramsTypeOK, dns
  <2> QED
    BY <1>1, <1>4, <2>1 DEF Unreachable, DatagramsInv, AnswersTrue, dns, IdOf
<1>5. ASSUME NEW n \in Recent("dns"), Answer(n) PROVE DatagramsInv'
  <2>1. n \in Nat \ {0} /\ n <= asked.dns /\ asked.dns < n + Age
    BY <1>0 DEF Recent
  <2>2. PICK s \in {1, 3} : dns_receive(IdOf(n), n, s)
    BY <1>5 DEF Answer
  <2>3. /\ sequence' = sequence /\ reply_sequence' = reply_sequence /\ ping_error' = ping_error
        /\ echoed' = echoed /\ refused' = refused /\ dns_reply_id' = dns_reply_id
    BY <1>5 DEF Answer, ping
  <2>4. IdOf(n) = dns_reply_id => n = asked.dns
    <3> DEFINE m == Width - 1
               x == asked.dns - 1
               y == n - 1
    <3>1. m \in Nat \ {0} /\ x \in Nat /\ y \in Nat /\ y <= x /\ x < y + m
      BY <1>0, <2>1
    <3>2. dns_reply_id = (x % m) + 1 /\ IdOf(n) = (y % m) + 1
      BY <1>0, <2>1 DEF DatagramsInv, IdOf
    <3>3. x % m \in Nat /\ y % m \in Nat
      BY <3>1
    <3> HIDE DEF m, x, y
    <3>4. IdOf(n) = dns_reply_id => x % m = y % m
      BY <3>2, <3>3
    <3>5. x % m = y % m => x = y
      BY ZenonT(40), <3>1, SameModulo
    <3> QED
      BY <1>0, <2>1, <3>4, <3>5 DEF x, y
  <2>5. /\ dns_reply_status' \in Nat /\ dns_reply_address' \in Nat /\ told' \in Nat
        /\ dns_reply_status' = 1 => dns_reply_address' = asked.dns
        /\ dns_reply_status' # 0 => told' = asked.dns
    BY <1>0, <2>1, <2>2, <2>4 DEF dns_receive, DatagramsInv, DatagramsTypeOK
  <2>6. DatagramsTypeOK'
    BY <1>0, <1>1, <2>3, <2>5 DEF DatagramsTypeOK
  <2> QED
    BY <1>1, <2>3, <2>5, <2>6 DEF DatagramsInv, AnswersTrue, IdOf
<1> QED
  BY <1>2, <1>3, <1>4, <1>5

\* The address or the error a lookup returns and the echo a ping returns are the
\* answer to their own question, whatever the network does to the answers of
\* earlier ones and however often the identifiers have wrapped, as long as no
\* answer is older than the identifiers can tell apart; and a ping reports an
\* unreachable host only if such a message came after it was sent.
THEOREM AnswersTrueAlways == DatagramsSpec => []AnswersTrue
<1>1. DatagramsInv /\ [DatagramsNext]_datagrams => DatagramsInv'
  <2> SUFFICES ASSUME DatagramsInv, [DatagramsNext]_datagrams PROVE DatagramsInv'
    OBVIOUS
  <2>1. CASE UNCHANGED datagrams
    BY <2>1, QuietInv DEF datagrams, Silent, ping, dns, DatagramsInv
  <2>2. CASE DatagramsNext
    BY <2>2, CallInv, ReturnInv, FrameInv DEF DatagramsNext
  <2> QED
    BY <2>1, <2>2
<1>2. DatagramsInv => AnswersTrue
  BY DEF DatagramsInv
<1> QED
  BY <1>1, <1>2, DatagramsInitInv, PTL DEF DatagramsSpec

-----------------------------------------------------------------------------
(* rtc_read                                                                *)

\* The registers of a chip at time t in a register format, and their reading.
Codes(t, bcd, h24) ==
    LET Coded(n) == IF bcd THEN Bcd(n) ELSE n
    IN  <<Coded(Time(t)[1]), Coded(Time(t)[2]), HourRegister(Time(t)[3], bcd, h24),
          Coded(Time(t)[4])>>

\* Binary coded decimals are read back.
LEMMA BcdInverse ==
    ASSUME NEW n \in Nat PROVE from_bcd(Bcd(n)) = n /\ Bcd(n) \in Nat
<1> DEFINE q == n \div 10
           r == n % 10
<1>1. q \in Nat /\ r \in 0..9 /\ n = 10 * q + r
  OBVIOUS
<1> HIDE DEF q, r
<1>2. Bcd(n) = 16 * q + r
  BY DEF Bcd, q, r
<1>3. (16 * q + r) % 16 = r /\ (16 * q + r) \div 16 = q
  BY <1>1
<1>4. from_bcd(Bcd(n)) = ((16 * q + r) % 16) + 10 * ((16 * q + r) \div 16)
  BY <1>2 DEF from_bcd
<1>5. from_bcd(Bcd(n)) = r + 10 * q
  BY <1>3, <1>4
<1> QED
  BY <1>1, <1>2, <1>5

\* So are the hours, in each of the four formats.
LEMMA HourInverse ==
    ASSUME NEW h \in 0..23, NEW bcd \in BOOLEAN, NEW h24 \in BOOLEAN
    PROVE  HourDecoded(HourRegister(h, bcd, h24), bcd, h24) = h
<1>1. CASE bcd = TRUE /\ h24 = TRUE
  BY <1>1 DEF HourDecoded, HourRegister, Bcd, from_bcd
<1>2. CASE bcd = TRUE /\ h24 = FALSE
  BY <1>2 DEF HourDecoded, HourRegister, Bcd, from_bcd
<1>3. CASE bcd = FALSE /\ h24 = TRUE
  BY <1>3 DEF HourDecoded, HourRegister
<1>4. CASE bcd = FALSE /\ h24 = FALSE
  BY <1>4 DEF HourDecoded, HourRegister
<1> QED
  BY ZenonT(40), <1>1, <1>2, <1>3, <1>4

\* The parts of a time.
LEMMA TimeParts ==
    ASSUME NEW t \in Nat
    PROVE  /\ Time(t)[1] \in Nat /\ Time(t)[2] \in Nat /\ Time(t)[3] \in 0..23 /\ Time(t)[4] \in Nat
           /\ Time(t) = <<Time(t)[1], Time(t)[2], Time(t)[3], Time(t)[4]>>
<1>1. Seconds \in Nat \ {0} /\ Minutes \in Nat \ {0}
  BY RtcAssumption
<1> DEFINE m == Seconds * Minutes
           d == m * 24
<1>2. m \in Nat \ {0} /\ d \in Nat \ {0}
  BY <1>1
<1>3. /\ t % Seconds \in Nat /\ t \div Seconds \in Nat /\ t \div m \in Nat /\ t \div d \in Nat
  BY <1>1, <1>2
<1>4. (t \div Seconds) % Minutes \in Nat /\ (t \div m) % 24 \in 0..23
  BY <1>1, <1>3
<1> QED
  BY <1>3, <1>4 DEF Time

\* The conversion undoes the coding.
LEMMA CodesInverse ==
    ASSUME NEW t \in Nat, chip.bcd \in BOOLEAN, chip.h24 \in BOOLEAN
    PROVE  Decoded(Codes(t, chip.bcd, chip.h24)) = Time(t)
<1>1. /\ Time(t)[1] \in Nat /\ Time(t)[2] \in Nat /\ Time(t)[3] \in 0..23 /\ Time(t)[4] \in Nat
      /\ Time(t) = <<Time(t)[1], Time(t)[2], Time(t)[3], Time(t)[4]>>
  BY TimeParts
<1>2. /\ from_bcd(Bcd(Time(t)[1])) = Time(t)[1] /\ from_bcd(Bcd(Time(t)[2])) = Time(t)[2]
      /\ from_bcd(Bcd(Time(t)[4])) = Time(t)[4]
      /\ HourDecoded(HourRegister(Time(t)[3], chip.bcd, chip.h24), chip.bcd, chip.h24) = Time(t)[3]
  BY <1>1, BcdInverse, HourInverse
<1> QED
  BY <1>1, <1>2 DEF Decoded, Codes

\* The registers are numbers.
LEMMA CodesTyped ==
    ASSUME NEW t \in Nat, NEW bcd \in BOOLEAN, NEW h24 \in BOOLEAN
    PROVE  \A i \in 1..4 : Codes(t, bcd, h24)[i] \in Nat
<1>1. /\ Time(t)[1] \in Nat /\ Time(t)[2] \in Nat /\ Time(t)[3] \in 0..23 /\ Time(t)[4] \in Nat
  BY TimeParts
<1>2. /\ Bcd(Time(t)[1]) \in Nat /\ Bcd(Time(t)[2]) \in Nat /\ Bcd(Time(t)[4]) \in Nat
  BY <1>1, BcdInverse
<1>3. HourRegister(Time(t)[3], bcd, h24) \in Nat
  BY <1>1 DEF HourRegister, Bcd
<1> QED
  BY <1>1, <1>2, <1>3 DEF Codes

\* The registers in s were read while the chip showed time t.
Shows(s, t) == \A i \in 1..Len(s) : s[i] = Codes(t, chip.bcd, chip.h24)[i]

RtcTypeOK ==
    /\ chip \in [time : Nat, uip : BOOLEAN, bcd : BOOLEAN, h24 : BOOLEAN]
    /\ pc \in {"idle", "a", "again", "b", "compare"}
    /\ ticked \in {<<0, 0>>, <<0, 1>>, <<1, 0>>}
    /\ a \in Seq(Nat) /\ b \in Seq(Nat)

\* The inductive invariant.  A snapshot during which the chip has not ticked
\* shows its time; if it has ticked in the second of two snapshots, the first
\* shows the time before.
RtcInv ==
    /\ RtcTypeOK
    /\ pc = "a" => Len(a) < 4
    /\ pc \in {"again", "b", "compare"} => Len(a) = 4
    /\ pc = "b" => Len(b) < 4
    /\ pc = "compare" => Len(b) = 4
    /\ pc \in {"a", "again"} /\ ticked[2] = 0 => Shows(a, chip.time)
    /\ pc \in {"b", "compare"} /\ ticked[2] = 0 => Shows(b, chip.time)
    /\ pc \in {"b", "compare"} /\ ticked = <<0, 0>> => Shows(a, chip.time)
    /\ pc \in {"b", "compare"} /\ ticked[2] = 1 => Shows(a, chip.time - 1)
    /\ pc # "idle" => Time(chip.time) \in shown /\ result = <<>>
    /\ pc # "idle" /\ ticked[2] = 1 => chip.time > 0 /\ Time(chip.time - 1) \in shown
    /\ ReadsTrue

\* The driver starts before its first reading of the chip.
LEMMA RtcInitInv == RtcInit => RtcInv
<1> SUFFICES ASSUME RtcInit PROVE RtcInv
  OBVIOUS
<1>1. chip \in [time : Nat, uip : BOOLEAN, bcd : BOOLEAN, h24 : BOOLEAN]
  <2>1. Times \subseteq Nat
    BY RtcAssumption
  <2> QED
    BY ZenonT(40), <2>1 DEF RtcInit
<1>2. RtcTypeOK
  BY <1>1 DEF RtcInit, RtcTypeOK
<1> QED
  BY <1>2 DEF RtcInit, RtcInv, ReadsTrue

\* One register more.
LEMMA SnapshotShows ==
    ASSUME RtcTypeOK, NEW s \in Seq(Nat), Len(s) < 4
    PROVE  /\ Append(s, Registers[Len(s) + 1]) \in Seq(Nat)
           /\ Len(Append(s, Registers[Len(s) + 1])) = Len(s) + 1
           /\ Shows(s, chip.time) => Shows(Append(s, Registers[Len(s) + 1]), chip.time)
<1>1. chip.time \in Nat /\ chip.bcd \in BOOLEAN /\ chip.h24 \in BOOLEAN
  BY DEF RtcTypeOK
<1>2. Registers = Codes(chip.time, chip.bcd, chip.h24)
  BY DEF Registers, Codes
<1>3. Len(s) + 1 \in 1..4
  OBVIOUS
<1>4. Registers[Len(s) + 1] \in Nat
  BY <1>1, <1>2, <1>3, CodesTyped
<1> QED
  BY <1>2, <1>4 DEF Shows

\* Two equal snapshots are one time.
LEMMA EqualShows ==
    ASSUME RtcInv, pc = "compare", a = b
    PROVE  Decoded(b) \in shown
<1>1. chip.time \in Nat /\ chip.bcd \in BOOLEAN /\ chip.h24 \in BOOLEAN
  BY DEF RtcInv, RtcTypeOK
<1>2. ASSUME NEW t \in Nat, Shows(b, t) PROVE Decoded(b) = Time(t)
  <2>1. \A i \in 1..4 : b[i] = Codes(t, chip.bcd, chip.h24)[i]
    BY ZenonT(40), <1>2 DEF Shows, RtcInv
  <2>2. Decoded(b) = Decoded(Codes(t, chip.bcd, chip.h24))
    BY <2>1 DEF Decoded
  <2> QED
    BY <1>1, <2>2, CodesInverse
<1>3. CASE ticked[2] = 0
  <2>1. Shows(b, chip.time) /\ Time(chip.time) \in shown
    BY <1>3 DEF RtcInv
  <2> QED
    BY <1>1, <1>2, <2>1
<1>4. CASE ticked[2] = 1
  <2>1. Shows(b, chip.time - 1) /\ chip.time - 1 \in Nat /\ Time(chip.time - 1) \in shown
    BY <1>1, <1>4 DEF RtcInv
  <2> QED
    BY <1>2, <2>1
<1> QED
  BY <1>3, <1>4 DEF RtcInv, RtcTypeOK

\* Begin, snapshot and the second wait.
LEMMA SnapshotInv ==
    ASSUME RtcInv, Begin \/ SnapshotA \/ Again \/ SnapshotB
    PROVE  RtcInv'
<1>0. RtcTypeOK
  BY DEF RtcInv
<1>t. CASE Begin \/ Again
  <2>1. ticked' = <<ticked[2], 0>>
    BY <1>t DEF Begin, Again, Await
  <2>2. ticked[2] \in {0, 1}
    BY <1>0 DEF RtcTypeOK
  <2>3. /\ ticked' \in {<<0, 0>>, <<1, 0>>} /\ ticked'[2] = 0
        /\ ticked' = <<0, 0>> => ticked[2] = 0
    BY <2>1, <2>2
  <2>4. CASE Begin
    <3>0. /\ pc' = "a" /\ chip' = chip /\ a' = <<>> /\ b' = <<>> /\ result' = <<>>
          /\ shown' = {Time(chip.time)}
      BY <2>4 DEF Begin, Await
    <3>1. RtcTypeOK'
      BY <1>0, <2>3, <3>0 DEF RtcTypeOK
    <3> QED
      BY <2>3, <3>0, <3>1 DEF RtcInv, ReadsTrue, Shows
  <2>5. CASE Again
    <3>0. /\ pc = "again" /\ pc' = "b" /\ chip' = chip /\ a' = a /\ b' = <<>>
          /\ result' = result /\ shown' = shown
      BY <2>5 DEF Again, Await
    <3>1. RtcTypeOK'
      BY <1>0, <2>3, <3>0 DEF RtcTypeOK
    <3>2. Shows(b, chip.time)' /\ (Shows(a, chip.time) => Shows(a, chip.time)')
      BY <3>0 DEF Shows
    <3> QED
      BY <2>3, <3>0, <3>1, <3>2 DEF RtcInv, ReadsTrue
  <2> QED
    BY <1>t, <2>4, <2>5
<1>1. CASE SnapshotA
  <2>1. Len(a) < 4 /\ a \in Seq(Nat)
    BY <1>0, <1>1 DEF RtcInv, RtcTypeOK, SnapshotA
  <2>2. a' \in Seq(Nat) /\ Len(a') = Len(a) + 1 /\ (Shows(a, chip.time) => Shows(a', chip.time))
    BY <1>0, <1>1, <2>1, SnapshotShows DEF SnapshotA
  <2>3. RtcTypeOK'
    BY <1>0, <1>1, <2>2 DEF RtcTypeOK, SnapshotA
  <2>4. ticked'[2] = 0 => Shows(a, chip.time)'
    BY <1>1, <2>2 DEF RtcInv, SnapshotA, Shows
  <2> QED
    BY <1>1, <2>1, <2>2, <2>3, <2>4 DEF RtcInv, ReadsTrue, SnapshotA
<1>2. CASE SnapshotB
  <2>1. Len(b) < 4 /\ b \in Seq(Nat)
    BY <1>0, <1>2 DEF RtcInv, RtcTypeOK, SnapshotB
  <2>2. b' \in Seq(Nat) /\ Len(b') = Len(b) + 1 /\ (Shows(b, chip.time) => Shows(b', chip.time))
    BY <1>0, <1>2, <2>1, SnapshotShows DEF SnapshotB
  <2>3. RtcTypeOK'
    BY <1>0, <1>2, <2>2 DEF RtcTypeOK, SnapshotB
  <2>4. ticked'[2] = 0 => Shows(b, chip.time)'
    BY <1>2, <2>2 DEF RtcInv, SnapshotB, Shows
  <2>5. /\ ticked' = <<0, 0>> => Shows(a, chip.time)'
        /\ ticked'[2] = 1 => Shows(a, chip.time - 1)'
    BY <1>2 DEF RtcInv, SnapshotB, Shows
  <2>6. /\ pc = "b" /\ pc' = (IF Len(b') = 4 THEN "compare" ELSE "b") /\ chip' = chip /\ a' = a
        /\ result' = result /\ shown' = shown /\ ticked' = ticked
    BY <1>2 DEF SnapshotB
  <2> QED
    BY <2>1, <2>2, <2>3, <2>4, <2>5, <2>6 DEF RtcInv, ReadsTrue
<1> QED
  BY <1>t, <1>1, <1>2

\* The comparison, and giving up.
LEMMA CompareInv ==
    ASSUME RtcInv, Compare \/ GivesUp
    PROVE  RtcInv'
<1>0. RtcTypeOK
  BY DEF RtcInv
<1>1. CASE Compare
  <2>0. RtcTypeOK'
    BY <1>0, <1>1 DEF RtcTypeOK, Compare
  <2>1. CASE a = b
    BY <1>1, <2>0, <2>1, EqualShows DEF RtcInv, ReadsTrue, Compare
  <2>2. CASE a # b
    <3>1. /\ a' = b /\ result' = result /\ pc' \in {"idle", "again"}
          /\ chip' = chip /\ b' = b /\ shown' = shown /\ ticked' = ticked
      BY <1>1, <2>2 DEF Compare
    <3>2. ticked'[2] = 0 => Shows(a, chip.time)'
      BY ZenonT(40), <1>1, <3>1 DEF RtcInv, Shows, Compare
    <3> QED
      BY <1>1, <2>0, <3>1, <3>2 DEF RtcInv, ReadsTrue, Compare
  <2> QED
    BY <2>1, <2>2
<1>2. CASE GivesUp
  BY <1>0, <1>2 DEF RtcInv, RtcTypeOK, ReadsTrue, GivesUp
<1> QED
  BY <1>1, <1>2

\* The chip.
LEMMA ChipInv ==
    ASSUME RtcInv, Announces \/ Ticks
    PROVE  RtcInv'
<1>0. RtcTypeOK
  BY DEF RtcInv
<1>1. CASE Announces
  <2>1. /\ chip'.time = chip.time /\ chip'.bcd = chip.bcd /\ chip'.h24 = chip.h24
        /\ chip' \in [time : Nat, uip : BOOLEAN, bcd : BOOLEAN, h24 : BOOLEAN]
    BY ZenonT(40), <1>0, <1>1 DEF RtcTypeOK, Announces
  <2>2. RtcTypeOK'
    BY <1>0, <1>1, <2>1 DEF RtcTypeOK, Announces
  <2> QED
    BY <1>1, <2>1, <2>2 DEF RtcInv, ReadsTrue, Announces, Shows
<1>2. CASE Ticks
  <2>1. /\ chip'.time = chip.time + 1 /\ chip'.bcd = chip.bcd /\ chip'.h24 = chip.h24
        /\ chip' \in [time : Nat, uip : BOOLEAN, bcd : BOOLEAN, h24 : BOOLEAN]
        /\ chip.time \in Nat /\ chip'.time - 1 = chip.time
    <3>1. chip.time \in Nat /\ chip.bcd \in BOOLEAN /\ chip.h24 \in BOOLEAN
      BY <1>0 DEF RtcTypeOK
    <3>2. chip' = [time |-> chip.time + 1, uip |-> FALSE, bcd |-> chip.bcd, h24 |-> chip.h24]
      BY ZenonT(40), <1>0, <1>2 DEF RtcTypeOK, Ticks
    <3> QED
      BY <3>1, <3>2
  <2>2. CASE pc = "idle"
    <3>1. ticked' = <<0, 0>> /\ pc' = "idle" /\ shown' = shown /\ result' = result
      BY <1>2, <2>2 DEF Ticks
    <3>2. RtcTypeOK'
      BY <1>0, <1>2, <2>1, <3>1 DEF RtcTypeOK, Ticks
    <3> QED
      BY <3>1, <3>2 DEF RtcInv, ReadsTrue
  <2>3. CASE pc # "idle"
    <3>1. /\ ticked = <<0, 0>> /\ ticked' = <<0, 1>> /\ pc' = pc
          /\ shown' = shown \cup {Time(chip'.time)} /\ result' = result /\ a' = a /\ b' = b
      BY <1>2, <2>3 DEF Ticks
    <3>2. RtcTypeOK'
      BY <1>0, <2>1, <3>1 DEF RtcTypeOK
    <3>3. Shows(a, chip.time) => Shows(a, chip.time - 1)'
      BY <2>1, <3>1 DEF Shows
    <3>4. chip'.time > 0 /\ Time(chip'.time - 1) = Time(chip.time)
      BY <2>1
    <3> QED
      BY <2>3, <3>1, <3>2, <3>3, <3>4 DEF RtcInv, ReadsTrue
  <2> QED
    BY <2>2, <2>3
<1> QED
  BY <1>1, <1>2

\* A time that rtc_read returns was shown by the chip during the call, in every
\* register format and however the reads fall between the updates, as long as
\* the chip does not tick twice in two snapshots.
THEOREM ReadsTrueAlways == Spec => []ReadsTrue
<1>1. Init => RtcInv
  BY RtcInitInv DEF Init
<1>2. RtcInv /\ [Next]_vars => RtcInv'
  <2> SUFFICES ASSUME RtcInv, [Next]_vars PROVE RtcInv'
    OBVIOUS
  <2>1. CASE UNCHANGED rtc
    BY <2>1 DEF rtc, RtcInv, RtcTypeOK, Shows, ReadsTrue
  <2>2. CASE RtcStep
    BY <2>2, SnapshotInv, CompareInv, ChipInv DEF RtcStep
  <2>3. CASE Rests
    <3>1. RtcTypeOK'
      BY <2>3 DEF Rests, RtcTypeOK
    <3> QED
      BY <2>3, <3>1 DEF Rests, RtcInv, ReadsTrue
  <2> QED
    BY <2>1, <2>2, <2>3 DEF Next, Boots, timed_init, Runs, vars
<1>3. RtcInv => ReadsTrue
  BY DEF RtcInv
<1> QED
  BY <1>1, <1>2, <1>3, PTL DEF Spec

-----------------------------------------------------------------------------
(* The fixed-point format of NTP                                           *)

\* Towards zero, and off by less than one.
LEMMA QuotientBounds ==
    ASSUME NEW n \in Int, NEW d \in Nat \ {0}
    PROVE  /\ Quotient(n, d) \in Int
           /\ n >= 0 => Quotient(n, d) >= 0 /\ d * Quotient(n, d) <= n /\ n < d * Quotient(n, d) + d
           /\ n <= 0 => Quotient(n, d) <= 0 /\ n <= d * Quotient(n, d) /\ d * Quotient(n, d) - d < n
<1>1. CASE n >= 0
  <2>1. n \div d \in Nat /\ d * (n \div d) <= n /\ n < d * (n \div d) + d
    BY <1>1
  <2>2. n <= 0 => n \div d = 0
    BY <1>1
  <2> QED
    BY <1>1, <2>1, <2>2 DEF Quotient
<1>2. CASE n < 0
  <2> DEFINE k == (-n) \div d
  <2>1. k \in Nat /\ d * k <= -n /\ -n < d * k + d
    BY <1>2
  <2>2. Quotient(n, d) = -k
    BY <1>2 DEF Quotient
  <2> HIDE DEF k
  <2>3. d * (-k) = -(d * k)
    BY <2>1
  <2> QED
    BY <1>2, <2>1, <2>2, <2>3
<1> QED
  BY <1>1, <1>2

\* A time in the fixed-point format is at most one unit late, and never early:
\* N * ntp_from_ns(x) is in (F * x - N, F * x].
LEMMA FormatBounds ==
    ASSUME NEW x \in Int
    PROVE  /\ ntp_from_ns(x) \in Int
           /\ NS_SECOND * ntp_from_ns(x) <= FX_SECOND * x
           /\ FX_SECOND * x < NS_SECOND * ntp_from_ns(x) + NS_SECOND
<1> DEFINE N == NS_SECOND
           F == FX_SECOND
           q == x \div N
           r == x % N
           f == (r * F) \div N
<1>1. N \in Nat \ {0} /\ F \in Nat \ {0}
  BY ClockAssumption
<1>2. q \in Int /\ r \in Nat /\ x = N * q + r
  BY <1>1
<1>3. r * F \in Nat
  BY <1>1, <1>2
<1>4. f \in Nat /\ N * f <= r * F /\ r * F < N * f + N
  BY <1>1, <1>3
<1>5. ntp_from_ns(x) = q * F + f
  BY DEF ntp_from_ns
<1> HIDE DEF q, r, f
<1>6. N * (q * F + f) = F * (N * q) + N * f
  BY <1>1, <1>2, <1>4
<1>7. F * x = F * (N * q) + r * F
  BY <1>1, <1>2
<1> QED
  BY <1>1, <1>2, <1>3, <1>4, <1>5, <1>6, <1>7

\* The difference of two stamps in nanoseconds, rounded towards zero.
LEMMA DeltaBounds ==
    ASSUME NEW t \in Int, NEW u \in Int
    PROVE  LET d == t - u
               D == fixed_delta_ns(t, u)
           IN  /\ D \in Int
               /\ d >= 0 => D >= 0 /\ FX_SECOND * D <= NS_SECOND * d
                                  /\ NS_SECOND * d < FX_SECOND * D + FX_SECOND
               /\ d <= 0 => D <= 0 /\ NS_SECOND * d <= FX_SECOND * D
                                  /\ FX_SECOND * D - FX_SECOND < NS_SECOND * d
<1> DEFINE N == NS_SECOND
           F == FX_SECOND
           d == t - u
           q == Quotient(d, F)
           r == d - F * q
           k == Quotient(r * N, F)
<1>1. N \in Nat \ {0} /\ F \in Nat \ {0} /\ d \in Int
  BY ClockAssumption
<1>2. /\ q \in Int
      /\ d >= 0 => q >= 0 /\ F * q <= d /\ d < F * q + F
      /\ d <= 0 => q <= 0 /\ d <= F * q /\ F * q - F < d
  BY <1>1, QuotientBounds
<1>3. fixed_delta_ns(t, u) = q * N + k
  BY DEF fixed_delta_ns, Remainder
<1> HIDE DEF d, q
<1>4. /\ r \in Int
      /\ d >= 0 => r >= 0
      /\ d <= 0 => r <= 0
  BY <1>1, <1>2
<1>5. d = F * q + r
  BY <1>1, <1>2
<1> HIDE DEF r
<1>6. /\ r * N \in Int
      /\ d >= 0 => r * N >= 0
      /\ d <= 0 => r * N <= 0
  BY <1>1, <1>4
<1>7. /\ k \in Int
      /\ r * N >= 0 => k >= 0 /\ F * k <= r * N /\ r * N < F * k + F
      /\ r * N <= 0 => k <= 0 /\ r * N <= F * k /\ F * k - F < r * N
  BY ZenonT(40), <1>1, <1>6, QuotientBounds
<1> HIDE DEF k
<1>8. N * d = F * (q * N) + r * N
  BY <1>1, <1>2, <1>4, <1>5
<1>9. F * (q * N + k) = F * (q * N) + F * k
  BY <1>1, <1>2, <1>7
<1>10. /\ q * N \in Int
       /\ d >= 0 => q * N >= 0
       /\ d <= 0 => q * N <= 0
  BY <1>1, <1>2
<1>11. q * N + k \in Int
  BY <1>7, <1>10
<1>12. CASE d >= 0
  BY <1>1, <1>3, <1>6, <1>7, <1>8, <1>9, <1>10, <1>11, <1>12 DEF d
<1>13. CASE d <= 0
  BY <1>1, <1>3, <1>6, <1>7, <1>8, <1>9, <1>10, <1>11, <1>13 DEF d
<1> QED
  BY <1>1, <1>12, <1>13

\* The difference of the stamps of two times is the difference of the times,
\* or one nanosecond less.
LEMMA StampDelta ==
    ASSUME NEW x \in Int, NEW y \in Int
    PROVE  LET D == fixed_delta_ns(ntp_from_ns(x), ntp_from_ns(y))
           IN  /\ D \in Int
               /\ x >= y => x - y - 1 <= D /\ D <= x - y
               /\ x <= y => x - y <= D /\ D <= x - y + 1
<1> DEFINE N == NS_SECOND
           F == FX_SECOND
           s == ntp_from_ns(x)
           u == ntp_from_ns(y)
           k == x - y
           d == s - u
           D == fixed_delta_ns(s, u)
<1>1. N \in Nat \ {0} /\ F \in Nat \ {0} /\ N <= F
  BY ClockAssumption
<1>2. /\ s \in Int /\ N * s <= F * x /\ F * x < N * s + N
      /\ u \in Int /\ N * u <= F * y /\ F * y < N * u + N
  BY FormatBounds
<1>3. /\ D \in Int
      /\ d >= 0 => D >= 0 /\ F * D <= N * d /\ N * d < F * D + F
      /\ d <= 0 => D <= 0 /\ N * d <= F * D /\ F * D - F < N * d
  BY ZenonT(40), <1>2, DeltaBounds
<1> HIDE DEF s, u, D
<1>4. N * d = N * s - N * u /\ F * k = F * x - F * y /\ d \in Int /\ k \in Int
  BY <1>1, <1>2
<1>5. F * k - N < N * d /\ N * d < F * k + N
  BY <1>1, <1>2, <1>4
<1> HIDE DEF d, k
<1>6. CASE k >= 0
  <2>1. F * k >= 0
    BY <1>1, <1>4, <1>6
  <2>2. d >= 0
    BY <1>1, <1>4, <1>5, <2>1
  <2>3. F * D < F * k + F /\ F * k < F * D + 2 * F
    BY <1>1, <1>3, <1>4, <1>5, <2>2
  <2>4. F * (D - k) < F /\ F * (k - D) < 2 * F
    BY <1>1, <1>3, <1>4, <2>3
  <2>5. D - k < 1 /\ k - D < 2
    BY <1>1, <1>3, <1>4, <2>4
  <2> QED
    BY <1>3, <1>4, <1>6, <2>2, <2>5 DEF k, D, s, u
<1>7. CASE k <= 0
  <2>1. F * k <= 0
    BY <1>1, <1>4, <1>7
  <2>2. d <= 0
    BY <1>1, <1>4, <1>5, <2>1
  <2>3. F * k < F * D + F /\ F * D < F * k + 2 * F
    BY <1>1, <1>3, <1>4, <1>5, <2>2
  <2>4. F * (k - D) < F /\ F * (D - k) < 2 * F
    BY <1>1, <1>3, <1>4, <2>3
  <2>5. k - D < 1 /\ D - k < 2
    BY <1>1, <1>3, <1>4, <2>4
  <2> QED
    BY <1>3, <1>4, <1>7, <2>2, <2>5 DEF k, D, s, u
<1> QED
  BY <1>4, <1>6, <1>7

\* Either way it is no more than one nanosecond off.
LEMMA StampNear ==
    ASSUME NEW x \in Int, NEW y \in Int
    PROVE  /\ fixed_delta_ns(ntp_from_ns(x), ntp_from_ns(y)) \in Int
           /\ x - y - 1 <= fixed_delta_ns(ntp_from_ns(x), ntp_from_ns(y))
           /\ fixed_delta_ns(ntp_from_ns(x), ntp_from_ns(y)) <= x - y + 1
           /\ x >= y => fixed_delta_ns(ntp_from_ns(x), ntp_from_ns(y)) <= x - y
<1> DEFINE D == fixed_delta_ns(ntp_from_ns(x), ntp_from_ns(y))
<1>1. /\ D \in Int
      /\ x >= y => x - y - 1 <= D /\ D <= x - y
      /\ x <= y => x - y <= D /\ D <= x - y + 1
  BY StampDelta
<1> HIDE DEF D
<1>2. x - y - 1 <= D /\ D <= x - y + 1
  BY <1>1
<1> QED
  BY <1>1, <1>2 DEF D

\* What timed_sync makes of the four stamps, when the request left at n and the
\* answer r and left the server at r and w, on the server's clock.
LEMMA CorrectionBounded ==
    ASSUME NEW n \in Int, NEW r \in Int, NEW w \in Int, now \in Int, err \in Int,
           n <= r, r <= w, w <= now,
           query.t1 = ntp_from_ns(n + err),
           reply.receive = ntp_from_ns(r), reply.transmit = ntp_from_ns(w)
    PROVE  LET t4 == ntp_from_ns(Local)
           IN  /\ Offset(t4) \in Int /\ Delay(t4) \in Int
               /\ 2 * Distance(err + Offset(t4)) <= Delay(t4) + Rounding
<1>p. PICK p \in Int, z \in Int : p = n + err /\ z = now + err
  OBVIOUS
<1> DEFINE t4 == ntp_from_ns(z)
           D1 == fixed_delta_ns(reply.receive, query.t1)
           D2 == fixed_delta_ns(reply.transmit, t4)
           D3 == fixed_delta_ns(t4, query.t1)
           D4 == fixed_delta_ns(reply.transmit, reply.receive)
           h  == Quotient(D1 + D2, 2)
<1>0. D1 = fixed_delta_ns(ntp_from_ns(r), ntp_from_ns(p)) /\ D3 = fixed_delta_ns(t4, ntp_from_ns(p))
  BY <1>p
<1>1. D1 \in Int /\ r - p - 1 <= D1 /\ D1 <= r - p + 1
  BY <1>0, StampNear
<1>2. D2 \in Int /\ w - z - 1 <= D2 /\ D2 <= w - z + 1
  BY ZenonT(40), StampNear
<1>3. D3 \in Int /\ z - p - 1 <= D3
  BY ZenonT(40), <1>0, <1>p, StampNear
<1>4. D4 \in Int /\ D4 <= w - r
  BY ZenonT(40), StampNear
<1>5. ntp_from_ns(Local) = t4 /\ Offset(t4) = h /\ Delay(t4) = D3 - D4
  BY <1>p DEF Local, Offset, Delay
<1> HIDE DEF D1, D2, D3, D4
<1>6. h \in Int /\ D1 + D2 - 1 <= 2 * h /\ 2 * h <= D1 + D2 + 1
  <2>1. PICK e \in Int : e = D1 + D2
    BY <1>1, <1>2
  <2>2. /\ Quotient(e, 2) \in Int
        /\ e >= 0 => 2 * Quotient(e, 2) <= e /\ e < 2 * Quotient(e, 2) + 2
        /\ e <= 0 => e <= 2 * Quotient(e, 2) /\ 2 * Quotient(e, 2) - 2 < e
    BY QuotientBounds
  <2>3. h = Quotient(e, 2)
    BY <2>1
  <2> QED
    BY <1>1, <1>2, <2>1, <2>2, <2>3
<1> HIDE DEF h, t4
<1>7. 2 * Distance(err + h) <= D3 - D4 + Rounding
  BY <1>p, <1>1, <1>2, <1>3, <1>4, <1>6 DEF Distance, Rounding
<1> QED
  BY <1>3, <1>4, <1>5, <1>6, <1>7

-----------------------------------------------------------------------------
(* timed_sync                                                              *)

Datagram == [kind : {"request", "reply", "refusal"}, origin : Int, receive : Int,
             transmit : Int, at : Int]

ClockTypeOK ==
    /\ now \in Int /\ err \in Int
    /\ query \in [pc : {"idle", "attempt", "wait"}, t1 : Int, tries : Int]
    /\ request \in Int
    /\ reply \in [receive : Int, transmit : Int]
    /\ net \subseteq Datagram

\* The stamps of an answer were made after time n.
Stamped(m, n) ==
    \E r \in Int : n <= r /\ r <= m.at /\ m.receive = ntp_from_ns(r) /\ m.transmit = ntp_from_ns(m.at)

\* The query began at time n.  What carries its timestamp was stamped later,
\* and so was the answer it has accepted.
Began(n) ==
    /\ n <= now
    /\ query.t1 = ntp_from_ns(n + err)
    /\ \A m \in net : m.origin = query.t1 /\ m.kind # "request" => Stamped(m, n)
    /\ query.pc = "wait" => request = query.t1
    /\ query.pc = "wait" /\ status = "ok" =>
         \E r, w \in Int : /\ n <= r /\ r <= w /\ w <= now
                          /\ reply.receive = ntp_from_ns(r) /\ reply.transmit = ntp_from_ns(w)

\* The inductive invariant.
ClockInv ==
    /\ ClockTypeOK
    /\ ~booted => query.pc = "idle"
    /\ query.pc # "idle" => \E n \in Int : Began(n)

\* timed starts without a query.
LEMMA ClockInitInv == Init => ClockInv
BY ClockAssumption DEF Init, ClockInit, ClockInv, ClockTypeOK, Idle

\* The stamps are numbers.
LEMMA StampInt == ASSUME NEW x \in Int PROVE ntp_from_ns(x) \in Int
BY FormatBounds

\* A query begins, and fails.
LEMMA QueryInv ==
    ASSUME ClockInv, timed_sync \/ AttemptFails \/ AttemptTimesOut, booted' = booted, booted
    PROVE  ClockInv'
<1>0. ClockTypeOK
  BY DEF ClockInv
<1>1. CASE timed_sync
  <2>1. PICK t1 \in Int : t1 = ntp_from_ns(now + err)
    BY <1>0, StampInt DEF ClockTypeOK
  <2>2. /\ query' = [pc |-> "attempt", t1 |-> t1, tries |-> 0] /\ now' = now /\ err' = err /\ net' = net
        /\ request' = request /\ reply' = reply /\ status' = status
        /\ \A m \in net : m.origin # t1
    BY <1>1, <2>1 DEF timed_sync, Local, clock
  <2>3. ClockTypeOK'
    BY <1>0, <2>1, <2>2 DEF ClockTypeOK
  <2>4. Began(now)'
    BY <1>0, <2>1, <2>2 DEF Began, ClockTypeOK
  <2>5. now' \in Int /\ now' = now
    BY <1>0, <2>2 DEF ClockTypeOK
  <2> QED
    BY <2>3, <2>4, <2>5 DEF ClockInv
<1>2. CASE AttemptFails \/ AttemptTimesOut
  <2>1. /\ query' = Failed /\ now' = now /\ err' = err /\ net' = net
        /\ request' = request /\ reply' = reply /\ status' = status
        /\ query.pc # "idle"
    BY <1>2 DEF AttemptFails, AttemptTimesOut, clock
  <2>2. /\ query' \in [pc : {"idle", "attempt", "wait"}, t1 : Int, tries : Int]
        /\ query'.pc # "idle" => query'.pc = "attempt" /\ query'.t1 = query.t1
    <3>1. query.t1 \in Int /\ query.tries \in Int
      BY <1>0 DEF ClockTypeOK
    <3>2. \/ query' = [pc |-> "attempt", t1 |-> query.t1, tries |-> query.tries + 1]
          \/ query' = [pc |-> "idle", t1 |-> 0, tries |-> 0]
      BY ZenonT(40), <1>0, <2>1 DEF Failed, Idle, ClockTypeOK
    <3> QED
      BY <3>1, <3>2
  <2>3. ClockTypeOK'
    BY <1>0, <2>1, <2>2 DEF ClockTypeOK
  <2>4. PICK n \in Int : Began(n)
    BY <2>1 DEF ClockInv
  <2>5. query'.pc # "idle" => Began(n)'
    BY <2>1, <2>2, <2>4 DEF Began, Stamped
  <2> QED
    BY <2>3, <2>5 DEF ClockInv
<1> QED
  BY <1>1, <1>2

\* A request is sent, an answer is made or a datagram is lost.
LEMMA NetInv ==
    ASSUME ClockInv, AttemptSends \/ ServerAnswers \/ Lost, booted' = booted, booted
    PROVE  ClockInv'
<1>0. ClockTypeOK
  BY DEF ClockInv
<1>1. CASE AttemptSends
  <2>1. query.t1 \in Int /\ query.tries \in Int /\ query.pc = "attempt"
    BY <1>0, <1>1 DEF ClockTypeOK, AttemptSends
  <2>2. /\ query' = [pc |-> "wait", t1 |-> query.t1, tries |-> query.tries]
        /\ request' = query.t1 /\ status' = "none" /\ now' = now /\ err' = err /\ reply' = reply
        /\ net' = net \cup {Request(query.t1)}
    BY <1>0, <1>1 DEF ClockTypeOK, AttemptSends, clock
  <2>3. Request(query.t1) \in Datagram /\ Request(query.t1).kind = "request"
    BY <2>1 DEF Request, Datagram
  <2>4. ClockTypeOK'
    BY <1>0, <2>1, <2>2, <2>3 DEF ClockTypeOK
  <2>5. PICK n \in Int : Began(n)
    BY <2>1 DEF ClockInv
  <2>6. Began(n)'
    BY <2>2, <2>3, <2>5 DEF Began, Stamped
  <2> QED
    BY <2>4, <2>6 DEF ClockInv
<1>2. CASE ServerAnswers
  <2>1. PICK m \in net, kind \in {"reply", "refusal"}, p \in 0..Pause :
          /\ net' = net \cup {[kind |-> kind, origin |-> m.origin, at |-> now + p,
                               receive |-> ntp_from_ns(now), transmit |-> ntp_from_ns(now + p)]}
          /\ now' = now /\ err' = err /\ query' = query /\ request' = request
          /\ status' = status /\ reply' = reply
    BY <1>2 DEF ServerAnswers, clock, client
  <2>2. PICK new : new = [kind |-> kind, origin |-> m.origin, at |-> now + p,
                          receive |-> ntp_from_ns(now), transmit |-> ntp_from_ns(now + p)]
    BY ZenonT(40)
  <2>3. now \in Int /\ p \in Nat /\ now + p \in Int /\ m.origin \in Int /\ now <= now + p
    <3>1. p \in Nat
      BY ClockAssumption
    <3> QED
      BY <1>0, <3>1 DEF ClockTypeOK, Datagram
  <2>4. new \in Datagram
    BY <2>2, <2>3, StampInt DEF Datagram
  <2>5. ASSUME NEW n \in Int, n <= now PROVE Stamped(new, n)
    BY <2>2, <2>3, <2>5 DEF Stamped
  <2>6. ClockTypeOK'
    BY <1>0, <2>1, <2>2, <2>4 DEF ClockTypeOK
  <2>7. ASSUME NEW n \in Int, Began(n) PROVE Began(n)'
    <3>1. n <= now
      BY <2>7 DEF Began
    <3>2. Stamped(new, n)
      BY <2>5, <3>1
    <3>3. \A x \in net' : x.origin = query'.t1 /\ x.kind # "request" => Stamped(x, n)
      BY <2>1, <2>2, <2>7, <3>2 DEF Began
    <3> QED
      BY <2>1, <2>7, <3>3 DEF Began, Stamped
  <2> QED
    BY <2>1, <2>6, <2>7 DEF ClockInv
<1>3. CASE Lost
  <2>1. /\ net' \subseteq net /\ now' = now /\ err' = err /\ query' = query /\ request' = request
        /\ status' = status /\ reply' = reply
    BY <1>3 DEF Lost, clock, client
  <2>2. ClockTypeOK'
    BY <1>0, <2>1 DEF ClockTypeOK
  <2>3. ASSUME NEW n \in Int, Began(n) PROVE Began(n)'
    BY <2>1, <2>3 DEF Began, Stamped
  <2> QED
    BY <2>1, <2>2, <2>3 DEF ClockInv
<1> QED
  BY <1>1, <1>2, <1>3

\* An answer arrives: it counts only if it names the timestamp of the query.
LEMMA ArrivesInv ==
    ASSUME ClockInv, Arrives, booted' = booted, booted
    PROVE  ClockInv'
<1>0. ClockTypeOK
  BY DEF ClockInv
<1>1. PICK m \in net : m.kind # "request" /\ m.at <= now /\ ntp_receive(m)
  BY DEF Arrives
<1>2. now' = now /\ err' = err /\ query' = query /\ request' = request /\ net' = net
  BY DEF Arrives, clock
<1>3. m.receive \in Int /\ m.transmit \in Int /\ m.at \in Int
  BY <1>0 DEF ClockTypeOK, Datagram
<1>4. ClockTypeOK'
  BY <1>0, <1>1, <1>2, <1>3 DEF ClockTypeOK, ntp_receive
<1>5. ASSUME NEW n \in Int, Began(n) PROVE Began(n)'
  <2>1. CASE status' = "refused"
    BY <1>2, <1>5, <2>1 DEF Began, Stamped
  <2>2. CASE status' = "ok"
    <3>1. /\ m.kind = "reply" /\ m.origin = request
          /\ reply' = [receive |-> m.receive, transmit |-> m.transmit]
      BY <1>1, <2>2 DEF ntp_receive
    <3>2. query.pc = "wait" => Stamped(m, n)
      BY <1>1, <1>5, <3>1 DEF Began
    <3>3. query'.pc = "wait" =>
            \E r, w \in Int : /\ n <= r /\ r <= w /\ w <= now'
                             /\ reply'.receive = ntp_from_ns(r) /\ reply'.transmit = ntp_from_ns(w)
      BY <1>1, <1>2, <1>3, <3>1, <3>2 DEF Stamped
    <3> QED
      BY <1>2, <1>5, <3>3 DEF Began, Stamped
  <2> QED
    BY <1>1, <2>1, <2>2 DEF ntp_receive
<1> QED
  BY <1>2, <1>4, <1>5 DEF ClockInv

\* The steps that leave the query as it is, or end it.
LEMMA RestInv ==
    ASSUME ClockInv,
           \/ timed_start \/ timed_stop \/ timed_set_server \/ Tick \/ Answered
           \/ timed_init \/ UNCHANGED timed,
           booted' = booted \/ timed_init
    PROVE  ClockInv'
<1>0. ClockTypeOK
  BY DEF ClockInv
<1>1. CASE timed_start \/ timed_stop \/ timed_set_server \/ UNCHANGED timed
  <2>1. /\ now' = now /\ err' = err /\ query' = query /\ request' = request /\ net' = net
        /\ status' = status /\ reply' = reply
    BY <1>1 DEF timed_start, timed_stop, timed_set_server, timed, clock, client
  <2>2. ClockTypeOK' /\ (booted => booted')
    BY <1>0, <2>1 DEF ClockTypeOK, timed_init
  <2>3. ASSUME NEW n \in Int, Began(n) PROVE Began(n)'
    BY ZenonT(40), <2>1, <2>3 DEF Began, Stamped
  <2> QED
    BY <2>1, <2>2, <2>3 DEF ClockInv
<1>2. CASE Tick
  <2>1. /\ now' = now + 1 /\ err' = err /\ query' = query /\ request' = request /\ net' = net
        /\ status' = status /\ reply' = reply
    BY <1>2 DEF Tick, clock, client
  <2>2. ClockTypeOK' /\ (booted => booted') /\ now \in Int
    BY <1>0, <2>1 DEF ClockTypeOK, timed_init
  <2>3. ASSUME NEW n \in Int, Began(n) PROVE Began(n)'
    BY <2>1, <2>2, <2>3 DEF Began, Stamped
  <2> QED
    BY <2>1, <2>2, <2>3 DEF ClockInv
<1>3. CASE Answered
  <2>1. /\ query' = [pc |-> "idle", t1 |-> 0, tries |-> 0] /\ now' = now
        /\ request' = request /\ net' = net /\ reply' = reply
    BY <1>3 DEF Answered, Idle
  <2>2. query.pc = "wait" /\ status = "ok"
    BY <1>3 DEF Answered
  <2>3. PICK n \in Int : Began(n)
    BY <2>2 DEF ClockInv
  <2>4. Offset(ntp_from_ns(Local)) \in Int
    BY <1>0, <2>2, <2>3, CorrectionBounded DEF Began, ClockTypeOK
  <2>5. err' \in Int
    BY <1>0, <1>3, <2>4 DEF Answered, ClockTypeOK
  <2> QED
    BY <1>0, <2>1, <2>5 DEF ClockInv, ClockTypeOK
<1>4. CASE timed_init
  <2>1. /\ err' \in Int /\ now' = now /\ query' = query /\ request' = request /\ net' = net
        /\ reply' = reply /\ query.pc = "idle"
    BY <1>4, ClockAssumption DEF timed_init, client, ClockInv
  <2> QED
    BY <1>0, <2>1 DEF ClockInv, ClockTypeOK
<1> QED
  BY <1>1, <1>2, <1>3, <1>4

\* Every step of timed, of the network and of time itself.
LEMMA ClockNextInv == ClockInv /\ [Next]_vars => ClockInv'
<1> SUFFICES ASSUME ClockInv, [Next]_vars PROVE ClockInv'
  OBVIOUS
<1>1. CASE UNCHANGED vars
  BY <1>1, RestInv DEF vars
<1>2. CASE Boots
  BY <1>2, RestInv DEF Boots
<1>3. CASE timed_init
  BY <1>3, RestInv
<1>4. CASE Runs
  BY <1>4, QueryInv, NetInv, ArrivesInv, RestInv DEF Runs, ClockStep
<1> QED
  BY <1>1, <1>2, <1>3, <1>4 DEF Next

\* After a correction the clock is off by no more than half the round trip and
\* two nanoseconds, for every format, every delay and every error of the clock
\* at first, whatever the network loses, repeats or delays.
THEOREM SyncBoundAlways == Spec => SyncBound
<1>1. ClockInv /\ [Next]_vars
        => [booted /\ (err' # err \/ (synchronized' /\ ~synchronized)) => Bounded']_vars
  <2> SUFFICES ASSUME ClockInv, Next, booted, err' # err \/ (synchronized' /\ ~synchronized)
               PROVE  Bounded'
    OBVIOUS
  <2>1. Answered
    <3>1. ClockStep
      BY DEF Next, Boots, timed_init, Runs
    <3> QED
      BY <3>1 DEF ClockStep, timed_start, timed_stop, timed_set_server, timed_sync, AttemptFails,
           AttemptSends, AttemptTimesOut, ServerAnswers, Arrives, Lost, Tick, clock
  <2>2. /\ query.pc = "wait" /\ status = "ok"
        /\ err' = err + Offset(ntp_from_ns(Local)) /\ last_delay' = Delay(ntp_from_ns(Local))
    BY <2>1 DEF Answered
  <2>3. PICK n \in Int : Began(n)
    BY <2>2 DEF ClockInv
  <2>4. PICK r \in Int, w \in Int :
          /\ n <= r /\ r <= w /\ w <= now /\ query.t1 = ntp_from_ns(n + err)
          /\ reply.receive = ntp_from_ns(r) /\ reply.transmit = ntp_from_ns(w)
    BY <2>2, <2>3 DEF Began
  <2>5. now \in Int /\ err \in Int
    BY DEF ClockInv, ClockTypeOK
  <2>6. 2 * Distance(err + Offset(ntp_from_ns(Local))) <= Delay(ntp_from_ns(Local)) + Rounding
    BY <2>4, <2>5, CorrectionBounded
  <2> QED
    BY <2>2, <2>6 DEF Bounded
<1> QED
  BY <1>1, ClockInitInv, ClockNextInv, PTL DEF Spec, SyncBound

=============================================================================
