----------------------------- MODULE TcpProofs ------------------------------
EXTENDS Tcp, FiniteSets, FiniteSetTheorems, SequenceTheorems,
        WellFoundedInduction, NaturalsInduction, TLAPS

\* A set of natural numbers that is not empty has a least element.
LEMMA LeastElement ==
    ASSUME NEW T \in SUBSET Nat, T # {}
    PROVE  \E x \in T : \A y \in T : x <= y
<1> DEFINE R == OpToRel(<, Nat)
<1>1. IsWellFoundedOn(R, Nat)
  BY ZenonT(40), NatLessThanWellFounded
<1>2. \A x, y \in Nat : <<y, x>> \in R <=> y < x
  BY DEF OpToRel
<1> HIDE DEF R
<1>3. PICK x \in T : \A y \in T : ~ (<<y, x>> \in R)
  BY ZenonT(40), <1>1, WFMin
<1>4. ASSUME NEW y \in T PROVE ~(y < x)
  <2>1. x \in Nat /\ y \in Nat
    OBVIOUS
  <2>2. <<y, x>> \in R <=> y < x
    BY <1>2, <2>1, Zenon
  <2> QED
    BY <1>3, <2>2, Zenon
<1> QED
  BY <1>4

\* Induction over the natural numbers, for a set.
LEMMA SetInduction ==
    ASSUME NEW S, 0 \in S, \A n \in Nat : n \in S => n + 1 \in S
    PROVE  Nat \subseteq S
<1> DEFINE T == Nat \ S
<1>1. SUFFICES ASSUME T # {} PROVE FALSE
  OBVIOUS
<1>2. PICK x \in T : \A y \in T : x <= y
  BY ZenonT(40), LeastElement, <1>1
<1>3. x \in Nat /\ x # 0 /\ x - 1 \in Nat /\ x - 1 \notin T
  BY <1>2
<1> QED
  BY <1>2, <1>3

\* The turns of the loop of tcp_drain_fragments.
IsDrain(t, k, g) == g = [n \in 0..k |-> IF n = 0 THEN t ELSE DrainOne(g[n - 1])]

\* The recursion that tcp_drain_fragments is defined by has a solution.
LEMMA DrainExists ==
    ASSUME NEW t
    PROVE  \A k \in Nat : \E g : IsDrain(t, k, g)
<1> DEFINE S == {k \in Nat : \E g : IsDrain(t, k, g)}
<1>1. 0 \in S
  <2> DEFINE g == [n \in 0..0 |-> t]
  <2>1. IsDrain(t, 0, g)
    BY DEF IsDrain
  <2> QED
    BY <2>1
<1>2. ASSUME NEW k \in Nat, k \in S PROVE k + 1 \in S
  <2>1. PICK g : IsDrain(t, k, g)
    BY <1>2
  <2> DEFINE h == [n \in 0..(k + 1) |-> IF n <= k THEN g[n] ELSE DrainOne(g[k])]
  <2>2. \A n \in 0..(k + 1) : n # 0 => n - 1 \in 0..k /\ h[n - 1] = g[n - 1]
    OBVIOUS
  <2>3. \A n \in 0..k : g[n] = IF n = 0 THEN t ELSE DrainOne(g[n - 1])
    BY <2>1 DEF IsDrain
  <2>4. \A n \in 0..(k + 1) : h[n] = IF n = 0 THEN t ELSE DrainOne(h[n - 1])
    <3> SUFFICES ASSUME NEW n \in 0..(k + 1)
                 PROVE  h[n] = IF n = 0 THEN t ELSE DrainOne(h[n - 1])
      OBVIOUS
    <3>1. CASE n <= k
      BY <3>1, <2>2, <2>3
    <3>2. CASE n = k + 1
      BY <3>2, <2>2
    <3> QED
      BY <3>1, <3>2
  <2>5. IsDrain(t, k + 1, h)
    BY <2>4 DEF IsDrain
  <2> QED
    BY <2>5
<1> QED
  BY ZenonT(40), <1>1, <1>2, SetInduction

\* What one turn of the loop of tcp_drain_fragments keeps, the loop keeps.
LEMMA DrainInduction ==
    ASSUME NEW t, NEW P, t \in P, \A u \in P : DrainOne(u) \in P
    PROVE  tcp_drain_fragments(t) \in P
<1>1. Fragments \in Nat
  BY TcpAssumption
<1>2. \E g : IsDrain(t, Fragments, g)
  BY <1>1, DrainExists
<1>3. PICK g : IsDrain(t, Fragments, g) /\ tcp_drain_fragments(t) = g[Fragments]
  <2> DEFINE d == CHOOSE g : IsDrain(t, Fragments, g)
  <2>1. IsDrain(t, Fragments, d)
    BY <1>2
  <2>2. tcp_drain_fragments(t) = d[Fragments]
    BY DEF tcp_drain_fragments, IsDrain
  <2> QED
    BY ZenonT(40), <2>1, <2>2
<1>4. \A n \in 0..Fragments : g[n] = IF n = 0 THEN t ELSE DrainOne(g[n - 1])
  BY ZenonT(40), <1>3 DEF IsDrain
<1> DEFINE S == {n \in Nat : n <= Fragments => g[n] \in P}
<1>5. 0 \in S
  BY <1>1, <1>4
<1>6. ASSUME NEW n \in Nat, n \in S PROVE n + 1 \in S
  <2> SUFFICES ASSUME n + 1 <= Fragments PROVE g[n + 1] \in P
    OBVIOUS
  <2>1. g[n] \in P
    BY <1>1, <1>6
  <2>2. g[n + 1] = DrainOne(g[n])
    BY <1>1, <1>4
  <2> QED
    BY <2>1, <2>2
<1>7. Fragments \in S
  <2> HIDE DEF S
  <2> QED
    BY <1>1, <1>5, <1>6, SetInduction
<1> QED
  BY <1>1, <1>3, <1>7

-----------------------------------------------------------------------------
(* The connection and its invariant                                        *)

FragmentTypes == [seq : Nat, len : Nat, fin : BOOLEAN]

TcpStates ==
    [state : {Closed, SynSent, Established, FinReceived, Reset}, remote_seq : Nat,
     queue : Seq(Nat), last_ack : Nat, fragments : [1..Fragments -> FragmentTypes],
     dropped : BOOLEAN]

\* The last byte that remote_seq acknowledges.
Got(n) == IF n > Stream THEN Stream ELSE n - 1

\* What a slot of tcp_fragments may hold when n is the next byte wanted.
FragmentSound(f, n) ==
    f # NoFragment =>
        /\ f.seq >= 1
        /\ f.len <= Mss
        /\ f.seq + f.len <= Stream + 1
        /\ f.seq + f.len <= n + Window
        /\ f.fin => f.seq + f.len = Stream + 1

\* What tcp_receive keeps, when r is what the application has read.
StateSound(t, r) ==
    /\ t \in TcpStates
    /\ t.remote_seq <= Stream + 2
    /\ Len(t.queue) <= QueueSize
    /\ \A i \in 1..Fragments : FragmentSound(t.fragments[i], t.remote_seq)
    /\ t.state = FinReceived => t.remote_seq = Stream + 2
    /\ ~t.dropped => r \o t.queue = Bytes(1, Got(t.remote_seq))

\* How far tcp_receive may move a connection.
Follows(t, u) ==
    /\ t.remote_seq <= u.remote_seq
    /\ u.last_ack = t.last_ack
    /\ u.state = t.state \/ u.state = FinReceived
    /\ t.dropped => u.dropped

\* The bytes beyond the queue that the slots of tcp_fragments hold.
Covered(t) ==
    {p \in t.remote_seq .. Stream :
        \E i \in 1..Fragments : /\ t.fragments[i].seq <= p
                                /\ p < t.fragments[i].seq + t.fragments[i].len}

\* What the queue holds and what it will receive from the slots.
Load(t) == Len(t.queue) + Cardinality(Covered(t))

CallTypes == [name : {"none", "connect", "send", "receive", "close"}, attempt : Nat, left : 0..Burst]

TcpTypes ==
    /\ local_seq \in Nat /\ acked \in Nat /\ requests \in Nat
    /\ call \in CallTypes
    /\ peer \in [received : Nat, acked : Nat]
    /\ read \in Seq(Nat)

\* Nothing has come from the peer yet.
NothingCame ==
    /\ read = <<>> /\ tcp.queue = <<>> /\ ~tcp.dropped
    /\ tcp.fragments = [i \in 1..Fragments |-> NoFragment]

\* How the two ends stand to each other.
EndsAgree ==
    /\ tcp.last_ack <= peer.received
    /\ peer.acked <= acked /\ acked <= tcp.remote_seq
    /\ peer.received = 0 => tcp.remote_seq = 0
    /\ tcp.state = SynSent => tcp.remote_seq = 0
    /\ tcp.state >= Established => tcp.remote_seq >= 1
    /\ tcp.remote_seq = 0 => NothingCame
    /\ call.name = "send" => local_seq = requests + 2 /\ tcp.state # SynSent
    /\ call.name = "receive" => tcp.remote_seq >= 1

\* A poll of network_tcp_receive starts from an empty queue, and every frame
\* that is left in it brings one segment at most.
RoomForPoll ==
    call.name = "receive" /\ call.left > 0 =>
        Load(tcp) + call.left * Mss <= Burst * Mss + Window

\* What the calls have reported is true.
ReportsTrue ==
    /\ ~tcp.dropped /\ tcp_result = <<"receive", 0>> => read = Bytes(1, Stream)
    /\ requests < peer.received \/ requests = 0

TcpInv ==
    /\ StateSound(tcp, read)
    /\ TcpTypes
    /\ EndsAgree
    /\ RoomForPoll
    /\ ReportsTrue

-----------------------------------------------------------------------------
(* What the steps of tcp_receive do to the queue                           *)

\* Bytes is a sequence of its length.
LEMMA BytesType ==
    ASSUME NEW a1 \in Nat, a1 >= 1, NEW n \in Int
    PROVE  Bytes(a1, n) \in Seq(Nat) /\ (n >= 0 => Len(Bytes(a1, n)) = n)
           /\ (n <= 0 => Bytes(a1, n) = <<>>)
<1>1. CASE n >= 0
  BY <1>1 DEF Bytes
<1>2. CASE n < 0
  <2>1. 1..n = {} /\ 1..0 = {}
    BY <1>2
  <2>2. Bytes(a1, n) = [i \in 1..0 |-> a1 + i - 1]
    BY <2>1 DEF Bytes
  <2> QED
    BY <1>2, <2>2
<1> QED
  BY <1>1, <1>2

\* The bytes that follow the first k extend them.
LEMMA BytesConcat ==
    ASSUME NEW k \in Nat, NEW n \in Nat
    PROVE  Bytes(1, k) \o Bytes(k + 1, n) = Bytes(1, k + n)
<1>1. Bytes(1, k) \in Seq(Nat) /\ Len(Bytes(1, k)) = k
  BY BytesType
<1>2. Bytes(k + 1, n) \in Seq(Nat) /\ Len(Bytes(k + 1, n)) = n
  BY BytesType
<1>3. Bytes(1, k + n) \in Seq(Nat) /\ Len(Bytes(1, k + n)) = k + n
  BY BytesType
<1>4. \A i \in 1..(k + n) : Bytes(1, k + n)[i] = i
  BY DEF Bytes
<1>5. \A i \in 1..k : Bytes(1, k)[i] = i
  BY DEF Bytes
<1>6. \A i \in 1..n : Bytes(k + 1, n)[i] = k + i
  BY DEF Bytes
<1> DEFINE c == Bytes(1, k) \o Bytes(k + 1, n)
<1>7. c \in Seq(Nat) /\ Len(c) = k + n
  BY <1>1, <1>2
<1>8. \A i \in 1..(k + n) : c[i] = i
  BY <1>1, <1>2, <1>5, <1>6
<1> QED
  BY ZenonT(40), <1>3, <1>4, <1>7, <1>8, SeqEqual

\* u is t with len bytes appended, the ones from seq on, as far as they fit.
Appended(t, seq, len, u) ==
    /\ u \in TcpStates
    /\ u.state = t.state /\ u.fragments = t.fragments /\ u.last_ack = t.last_ack
    /\ u.remote_seq = t.remote_seq + len
    /\ Len(u.queue) <= QueueSize
    /\ Len(u.queue) <= Len(t.queue) + len
    /\ Len(t.queue) + len <= QueueSize => u.dropped = t.dropped
    /\ ~u.dropped => ~t.dropped /\ u.queue = t.queue \o Bytes(seq, len)

\* tcp_append moves remote_seq by the whole length; the bytes it queues are the
\* first that fit.
LEMMA AppendFacts ==
    ASSUME NEW t \in TcpStates, NEW seq \in Nat, seq >= 1, NEW len \in Nat,
           Len(t.queue) <= QueueSize
    PROVE  Appended(t, seq, len, tcp_append(t, seq, len))
<1>0. PICK u : u = tcp_append(t, seq, len)
  OBVIOUS
<1> DEFINE room == QueueSize - Len(t.queue)
           take == IF len > room THEN room ELSE len
<1>1. QueueSize \in Nat /\ Len(t.queue) \in Nat /\ t.queue \in Seq(Nat)
  BY TcpAssumption DEF TcpStates
<1>2. take \in Nat /\ take <= len /\ take <= room /\ (take < len <=> Len(t.queue) + len > QueueSize)
  <2>1. PICK k \in Nat : k = Len(t.queue)
    BY <1>1
  <2>2. k <= QueueSize /\ room = QueueSize - k
    BY <2>1
  <2> HIDE DEF room
  <2>3. take \in Nat /\ take <= len /\ take <= room /\ (take < len <=> k + len > QueueSize)
    BY <1>1, <2>2
  <2> QED
    BY <2>1, <2>3
<1>3. u = [t EXCEPT !.queue = t.queue \o Bytes(seq, take), !.remote_seq = t.remote_seq + len,
                    !.dropped = t.dropped \/ take < len]
  BY <1>0 DEF tcp_append
<1> HIDE DEF take
<1>4. Bytes(seq, take) \in Seq(Nat) /\ Len(Bytes(seq, take)) = take
  BY <1>2, BytesType
<1>5. PICK q : q = t.queue \o Bytes(seq, take)
  BY ZenonT(40)
<1>6. q \in Seq(Nat) /\ Len(q) = Len(t.queue) + take
  <2>1. PICK c : c = t.queue
    OBVIOUS
  <2>2. PICK b2 : b2 = Bytes(seq, take)
    OBVIOUS
  <2>3. c \in Seq(Nat) /\ b2 \in Seq(Nat) /\ q = c \o b2 /\ Len(b2) = take
    BY <1>1, <1>4, <1>5, <2>1, <2>2
  <2>4. q \in Seq(Nat) /\ Len(q) = Len(c) + Len(b2)
    BY ONLY ZenonT(40), <2>3, ConcatProperties
  <2> QED
    BY <2>1, <2>3, <2>4
<1>7. PICK d \in BOOLEAN : d = (t.dropped \/ take < len)
  BY ZenonT(40) DEF TcpStates
<1>8. u = [t EXCEPT !.queue = q, !.remote_seq = t.remote_seq + len, !.dropped = d]
  BY <1>3, <1>5, <1>7, Zenon
<1>9. t.remote_seq + len \in Nat
  BY DEF TcpStates
<1>10. u \in TcpStates /\ u.state = t.state /\ u.fragments = t.fragments
       /\ u.last_ack = t.last_ack /\ u.remote_seq = t.remote_seq + len
       /\ u.queue = q /\ u.dropped = d
  BY ZenonT(40), <1>6, <1>8, <1>9 DEF TcpStates
<1>11. Len(u.queue) <= QueueSize /\ Len(u.queue) <= Len(t.queue) + len
  BY <1>1, <1>2, <1>6, <1>10
<1>12. Len(t.queue) + len <= QueueSize => ~(take < len)
  BY <1>1, <1>2
<1>13. t.dropped \in BOOLEAN
  BY DEF TcpStates
<1>14. ~(take < len) => take = len
  BY <1>2
<1>15. Len(t.queue) + len <= QueueSize => u.dropped = t.dropped
  BY <1>7, <1>10, <1>12, <1>13, Zenon
<1>16. ~u.dropped => ~t.dropped /\ u.queue = t.queue \o Bytes(seq, len)
  BY <1>5, <1>7, <1>10, <1>14, Zenon
<1> QED
  BY <1>0, <1>10, <1>11, <1>15, <1>16, Zenon DEF Appended

\* A segment that starts at the byte that is wanted, or an empty one, keeps the
\* connection sound.
LEMMA TakeSound ==
    ASSUME NEW t, NEW r \in Seq(Nat), StateSound(t, r), NEW len \in Nat, NEW fin \in BOOLEAN,
           t.remote_seq >= 1, t.remote_seq + len <= Stream + 1,
           fin => t.remote_seq + len = Stream + 1,
           NEW v, Appended(t, t.remote_seq, len, v),
           NEW u, u = Fin(v, fin)
    PROVE  /\ StateSound(u, r) /\ Follows(t, u)
           /\ u.fragments = t.fragments
           /\ u.remote_seq >= t.remote_seq + len
           /\ Len(u.queue) <= Len(t.queue) + len
           /\ Len(t.queue) + len <= QueueSize => u.dropped = t.dropped
<1>0. PICK n : n = t.remote_seq
  OBVIOUS
<1>1. t \in TcpStates /\ n = t.remote_seq /\ n \in Nat /\ n <= Stream + 2 /\ Len(t.queue) <= QueueSize
  BY <1>0 DEF StateSound, TcpStates
<1>2. Stream \in Nat /\ Mss \in Nat /\ Window \in Nat /\ Fragments \in Nat /\ QueueSize \in Nat
  BY TcpAssumption
<1>4a. n >= 1 /\ n + len <= Stream + 1
  BY <1>0
<1>4b. fin => n + len = Stream + 1
  BY <1>0
<1>4. /\ v \in TcpStates
      /\ v.state = t.state /\ v.fragments = t.fragments /\ v.last_ack = t.last_ack
      /\ v.remote_seq = t.remote_seq + len
      /\ Len(v.queue) <= QueueSize
      /\ Len(v.queue) <= Len(t.queue) + len
      /\ Len(t.queue) + len <= QueueSize => v.dropped = t.dropped
      /\ ~v.dropped => ~t.dropped /\ v.queue = t.queue \o Bytes(n, len)
  BY <1>1, Zenon DEF Appended
<1>5. u = IF fin THEN [v EXCEPT !.remote_seq = v.remote_seq + 1, !.state = FinReceived] ELSE v
  BY <1>1 DEF Fin
<1>6. /\ u \in TcpStates /\ u.fragments = t.fragments /\ u.last_ack = t.last_ack
      /\ u.queue = v.queue /\ u.dropped = v.dropped
      /\ fin => u.remote_seq = n + len + 1 /\ u.state = FinReceived
      /\ ~fin => u.remote_seq = n + len /\ u.state = t.state
  <2>1. CASE fin
    <3>1. u = [v EXCEPT !.remote_seq = v.remote_seq + 1, !.state = FinReceived]
      BY <1>5, <2>1
    <3>2. v.remote_seq + 1 = n + len + 1 /\ n + len + 1 \in Nat
      BY <1>1, <1>4
    <3> QED
      BY ZenonT(40), <1>4, <2>1, <3>1, <3>2 DEF TcpStates
  <2>2. CASE ~fin
    <3>1. u = v
      BY <1>5, <2>2
    <3> QED
      BY <1>1, <1>4, <2>2, <3>1
  <2> QED
    BY <2>1, <2>2
<1>7. u.remote_seq \in Nat /\ u.remote_seq >= n + len /\ u.remote_seq <= Stream + 2
  <2>1. CASE fin
    <3>1. n + len = Stream + 1 /\ u.remote_seq = n + len + 1 /\ u.state = FinReceived
      BY ZenonT(40), <1>4b, <1>6, <2>1
    <3> QED
      BY <1>1, <1>2, <3>1
  <2>2. CASE ~fin
    BY <1>1, <1>2, <1>6, <2>2
  <2> QED
    BY <2>1, <2>2
<1>8. Follows(t, u)
  <2>1. t.dropped => u.dropped
    BY <1>4, <1>6, Zenon
  <2> QED
    BY <1>1, <1>6, <1>7, <2>1 DEF Follows
<1>9. \A i \in 1..Fragments : FragmentSound(u.fragments[i], u.remote_seq)
  <2> SUFFICES ASSUME NEW i \in 1..Fragments
               PROVE  FragmentSound(t.fragments[i], u.remote_seq)
    BY <1>6
  <2>1. FragmentSound(t.fragments[i], n)
    BY <1>1 DEF StateSound
  <2>2. t.fragments[i].seq \in Nat /\ t.fragments[i].len \in Nat
    BY ZenonT(40), <1>1 DEF TcpStates, FragmentTypes
  <2>3. PICK f : f = t.fragments[i]
    OBVIOUS
  <2>4. FragmentSound(f, n) /\ f.seq \in Nat /\ f.len \in Nat
    BY <2>1, <2>2, <2>3
  <2>5. PICK m \in Nat : m = u.remote_seq /\ m >= n
    BY <1>1, <1>7
  <2>6. FragmentSound(f, m)
    <3>1. f.seq + f.len <= n + Window => f.seq + f.len <= m + Window
      <4>1. PICK x \in Nat : x = f.seq + f.len
        BY <2>4
      <4>2. n \in Nat /\ m \in Nat /\ m >= n /\ Window \in Nat
        BY <1>1, <1>2, <2>5
      <4>3. x <= n + Window => x <= m + Window
        BY ONLY <4>2, x \in Nat
      <4> QED
        BY <4>1, <4>3
    <3> QED
      BY ONLY <2>4, <3>1, Zenon DEF FragmentSound
  <2> QED
    BY <2>3, <2>5, <2>6
<1>10. u.state = FinReceived => u.remote_seq = Stream + 2
  <2>1. CASE fin
    <3>1. n + len = Stream + 1 /\ u.remote_seq = n + len + 1 /\ u.state = FinReceived
      BY ZenonT(40), <1>4b, <1>6, <2>1
    <3> QED
      BY <1>1, <1>2, <3>1
  <2>2. CASE ~fin
    <3>1. t.state = FinReceived => n = Stream + 2
      BY <1>1 DEF StateSound
    <3> QED
      BY <1>1, <1>2, <1>6, <2>2, <3>1
  <2> QED
    BY <2>1, <2>2
<1>11. ASSUME ~u.dropped PROVE r \o u.queue = Bytes(1, Got(u.remote_seq))
  <2>1. ~t.dropped /\ u.queue = t.queue \o Bytes(n, len)
    BY <1>4, <1>6, <1>11
  <2>2. r \o t.queue = Bytes(1, Got(n))
    BY <1>1, <2>1 DEF StateSound
  <2>3. n - 1 \in Nat /\ Got(n) = n - 1
    BY <1>1, <1>2 DEF Got
  <2>4. Got(u.remote_seq) = n - 1 + len
    <3>1. CASE fin
      <4>1. n + len = Stream + 1 /\ u.remote_seq = n + len + 1
        BY ZenonT(40), <1>4b, <1>6, <3>1
      <4> QED
        <5>1. Got(Stream + 2) = Stream
          BY ONLY <1>2 DEF Got
        <5>2. n + len + 1 = Stream + 2 /\ n - 1 + len = Stream
          BY ONLY <1>1, <1>2, <4>1, len \in Nat
        <5> QED
          BY <4>1, <5>1, <5>2
    <3>2. CASE ~fin
      <4>1. u.remote_seq = n + len
        BY <1>6, <3>2
      <4>2. n + len \in Nat /\ n + len <= Stream + 1
        BY <1>1, <1>4a
      <4>3. PICK x \in Nat : x = n + len /\ x <= Stream + 1
        BY <4>2
      <4>4. Got(x) = x - 1
        BY ONLY <1>2, <4>3 DEF Got
      <4>5. x - 1 = n - 1 + len
        BY ONLY <1>1, <4>3, len \in Nat
      <4> QED
        BY <4>1, <4>3, <4>4, <4>5
    <3> QED
      BY <3>1, <3>2
  <2>5. t.queue \in Seq(Nat) /\ Bytes(n, len) \in Seq(Nat)
    BY <1>1, BytesType DEF TcpStates
  <2>6. r \o (t.queue \o Bytes(n, len)) = (r \o t.queue) \o Bytes(n, len)
    <3>1. PICK c : c = t.queue
      OBVIOUS
    <3>2. PICK b2 : b2 = Bytes(n, len)
      OBVIOUS
    <3>3. r \in Seq(Nat) /\ c \in Seq(Nat) /\ b2 \in Seq(Nat)
      BY <2>5, <3>1, <3>2
    <3>4. r \o (c \o b2) = (r \o c) \o b2
      BY ONLY <3>3, ConcatAssociative
    <3> QED
      BY <3>1, <3>2, <3>4
  <2>7. Bytes(1, n - 1) \o Bytes((n - 1) + 1, len) = Bytes(1, (n - 1) + len)
    BY ZenonT(40), <2>3, BytesConcat
  <2>8. (n - 1) + 1 = n
    BY <1>1
  <2>9. Bytes(1, n - 1) \o Bytes(n, len) = Bytes(1, (n - 1) + len)
    BY <2>7, <2>8
  <2> QED
    BY <2>1, <2>2, <2>3, <2>4, <2>6, <2>9
<1>12. StateSound(u, r)
  BY <1>4, <1>6, <1>7, <1>9, <1>10, <1>11 DEF StateSound
<1> QED
  BY <1>1, <1>4, <1>6, <1>7, <1>8, <1>12

-----------------------------------------------------------------------------
(* tcp_drain_fragments                                                     *)

\* A slot that DrainOne picks holds the bytes that are wanted.
LEMMA PickSlot ==
    ASSUME NEW T \in SUBSET (1..Fragments), T # {}
    PROVE  (CHOOSE k \in T : \A j \in T : k <= j) \in T
<1>1. Fragments \in Nat
  BY TcpAssumption
<1>2. \E k \in T : \A j \in T : k <= j
  <2>1. T \in SUBSET Nat
    BY <1>1
  <2> QED
    BY <2>1, LeastElement
<1> QED
  BY ZenonT(40), <1>2

\* Emptying a slot keeps the connection sound.
LEMMA ClearSound ==
    ASSUME NEW t, NEW r, StateSound(t, r), NEW i \in 1..Fragments
    PROVE  LET u == [t EXCEPT !.fragments[i] = NoFragment]
           IN  /\ StateSound(u, r) /\ Follows(t, u)
               /\ u.queue = t.queue /\ u.remote_seq = t.remote_seq /\ u.dropped = t.dropped
               /\ u.fragments = [t.fragments EXCEPT ![i] = NoFragment]
<1> DEFINE u == [t EXCEPT !.fragments[i] = NoFragment]
<1>1. t \in TcpStates
  BY DEF StateSound
<1>2. NoFragment \in FragmentTypes
  BY DEF NoFragment, FragmentTypes
<1>3. u \in TcpStates /\ u.queue = t.queue /\ u.remote_seq = t.remote_seq /\ u.dropped = t.dropped
      /\ u.fragments = [t.fragments EXCEPT ![i] = NoFragment]
      /\ u.state = t.state /\ u.last_ack = t.last_ack
  BY ZenonT(40), <1>1, <1>2 DEF TcpStates
<1> HIDE DEF u
<1>4. \A j \in 1..Fragments : FragmentSound(u.fragments[j], u.remote_seq)
  <2> SUFFICES ASSUME NEW j \in 1..Fragments
               PROVE  FragmentSound(u.fragments[j], u.remote_seq)
    OBVIOUS
  <2>1. u.fragments[j] = NoFragment \/ u.fragments[j] = t.fragments[j]
    BY <1>1, <1>3 DEF TcpStates
  <2>2. FragmentSound(t.fragments[j], t.remote_seq)
    BY DEF StateSound
  <2>3. FragmentSound(NoFragment, t.remote_seq)
    BY DEF FragmentSound
  <2> QED
    BY <1>3, <2>1, <2>2, <2>3
<1>5. StateSound(u, r)
  BY <1>3, <1>4 DEF StateSound
<1>6. Follows(t, u)
  <2>1. t.remote_seq \in Nat
    BY <1>1 DEF TcpStates
  <2> QED
    BY <1>3, <2>1 DEF Follows
<1> QED
  BY <1>3, <1>5, <1>6 DEF u

\* One turn of the loop takes the bytes of one slot, or does nothing.
LEMMA DrainCases ==
    ASSUME NEW t
    PROVE  \/ DrainOne(t) = t
           \/ \E i \in 1..Fragments :
                 /\ t.fragments[i] # NoFragment /\ t.fragments[i].seq = t.remote_seq
                 /\ DrainOne(t) =
                      [Fin(tcp_append(t, t.fragments[i].seq, t.fragments[i].len), t.fragments[i].fin)
                         EXCEPT !.fragments[i] = NoFragment]
<1> DEFINE T == {i \in 1..Fragments : t.fragments[i] # NoFragment /\ t.fragments[i].seq = t.remote_seq}
           i == CHOOSE k \in T : \A j \in T : k <= j
<1>1. CASE T = {}
  BY ZenonT(40), <1>1 DEF DrainOne
<1>2. CASE T # {}
  <2>1. T \in SUBSET (1..Fragments)
    OBVIOUS
  <2>2. i \in T
    <3> HIDE DEF T
    <3> QED
      BY <1>2, <2>1, PickSlot
  <2>3. DrainOne(t) =
          [Fin(tcp_append(t, t.fragments[i].seq, t.fragments[i].len), t.fragments[i].fin)
             EXCEPT !.fragments[i] = NoFragment]
    BY ZenonT(40), <1>2 DEF DrainOne
  <2> HIDE DEF i
  <2> QED
    BY ZenonT(40), <2>2, <2>3
<1> QED
  BY <1>1, <1>2

-----------------------------------------------------------------------------
(* What the queue holds and will receive                                   *)

\* The bytes that the slots hold are finitely many.
LEMMA CoveredFinite ==
    ASSUME NEW t \in TcpStates
    PROVE  IsFiniteSet(Covered(t)) /\ Cardinality(Covered(t)) \in Nat
<1>1. t.remote_seq \in Int /\ Stream \in Int
  BY TcpAssumption DEF TcpStates
<1>2. IsFiniteSet(t.remote_seq .. Stream)
  BY <1>1, FS_Interval
<1>3. Covered(t) \subseteq t.remote_seq .. Stream
  BY DEF Covered
<1>4. IsFiniteSet(Covered(t))
  BY ZenonT(40), <1>2, <1>3, FS_Subset
<1> QED
  BY <1>4, FS_CardinalityType

\* What the queue holds and will receive is a number.
LEMMA LoadType ==
    ASSUME NEW t \in TcpStates
    PROVE  Load(t) \in Nat /\ Len(t.queue) \in Nat
<1>1. Cardinality(Covered(t)) \in Nat
  BY CoveredFinite
<1>2. Len(t.queue) \in Nat
  BY DEF TcpStates
<1> QED
  BY <1>1, <1>2 DEF Load

\* n consecutive bytes.
LEMMA IntervalSize ==
    ASSUME NEW k \in Nat, NEW n \in Nat
    PROVE  IsFiniteSet(k..(k + n - 1)) /\ Cardinality(k..(k + n - 1)) = n
<1>1. k \in Int /\ k + n - 1 \in Int
  OBVIOUS
<1>2. IsFiniteSet(k..(k + n - 1))
  BY <1>1, FS_Interval
<1>3. Cardinality(k..(k + n - 1)) = IF k > k + n - 1 THEN 0 ELSE (k + n - 1) - k + 1
  BY <1>1, FS_Interval
<1> QED
  BY <1>2, <1>3

\* Bytes that were taken, and slots that were emptied, are covered no longer.
LEMMA CoveredShrinks ==
    ASSUME NEW t \in TcpStates, NEW u \in TcpStates, t.remote_seq <= u.remote_seq,
           \A i \in 1..Fragments : u.fragments[i] = t.fragments[i] \/ u.fragments[i] = NoFragment
    PROVE  Covered(u) \subseteq Covered(t) \ (t.remote_seq .. (u.remote_seq - 1))
<1> SUFFICES ASSUME NEW p \in Covered(u)
             PROVE  p \in Covered(t) /\ p \notin t.remote_seq .. (u.remote_seq - 1)
  OBVIOUS
<1>1. t.remote_seq \in Nat /\ u.remote_seq \in Nat /\ Stream \in Nat
  BY TcpAssumption DEF TcpStates
<1>2. p \in u.remote_seq .. Stream
  BY DEF Covered
<1>3. PICK i \in 1..Fragments : u.fragments[i].seq <= p /\ p < u.fragments[i].seq + u.fragments[i].len
  BY DEF Covered
<1>4. u.fragments[i] # NoFragment
  <2> SUFFICES ASSUME u.fragments[i] = NoFragment PROVE FALSE
    OBVIOUS
  <2>1. u.fragments[i].seq = 0 /\ u.fragments[i].len = 0
    BY DEF NoFragment
  <2> QED
    BY <1>1, <1>2, <1>3, <2>1
<1>5. u.fragments[i] = t.fragments[i]
  BY <1>4
<1>6. p \in t.remote_seq .. Stream /\ p \notin t.remote_seq .. (u.remote_seq - 1)
  BY <1>1, <1>2
<1> QED
  BY <1>3, <1>5, <1>6 DEF Covered

\* A finite set of which k consecutive members are gone.
LEMMA Smaller ==
    ASSUME NEW C, IsFiniteSet(C), NEW D, NEW k \in Nat, NEW n \in Nat, NEW m \in Nat, k + n <= m,
           k..(k + n - 1) \subseteq C, D \subseteq C \ (k..(m - 1))
    PROVE  IsFiniteSet(D) /\ Cardinality(C) \in Nat /\ Cardinality(D) \in Nat
           /\ Cardinality(D) + n <= Cardinality(C)
<1> DEFINE I == k..(k + n - 1)
<1>1. IsFiniteSet(I) /\ Cardinality(I) = n
  BY IntervalSize
<1>2. D \subseteq C \ I
  OBVIOUS
<1>3. I \subseteq C
  OBVIOUS
<1> HIDE DEF I
<1>4. IsFiniteSet(C \ I) /\ Cardinality(C \ I) = Cardinality(C) - Cardinality(C \cap I)
  BY ZenonT(40), FS_Difference
<1>5. C \cap I = I
  BY <1>3
<1>6. IsFiniteSet(D) /\ Cardinality(D) <= Cardinality(C \ I)
  BY <1>2, <1>4, FS_Subset
<1>7. Cardinality(C) \in Nat /\ Cardinality(D) \in Nat
  BY <1>6, FS_CardinalityType
<1> QED
  BY <1>1, <1>4, <1>5, <1>6, <1>7

\* u is what the loop of tcp_drain_fragments may make of t.
Drained(t, u, r) ==
    /\ StateSound(u, r) /\ Follows(t, u)
    /\ Load(t) <= QueueSize => Load(u) <= Load(t) /\ u.dropped = t.dropped

\* One turn of the loop moves bytes from a slot to the queue, where there is
\* room for them as long as the queue can take all that the slots hold.
LEMMA DrainOneSound ==
    ASSUME NEW t, NEW r \in Seq(Nat), StateSound(t, r)
    PROVE  Drained(t, DrainOne(t), r)
<1>1. t \in TcpStates /\ t.remote_seq \in Nat /\ Len(t.queue) \in Nat /\ Len(t.queue) <= QueueSize
  BY DEF StateSound, TcpStates
<1>2. IsFiniteSet(Covered(t)) /\ Cardinality(Covered(t)) \in Nat
  BY <1>1, CoveredFinite
<1>3. CASE DrainOne(t) = t
  <2>1. Follows(t, t)
    BY <1>1 DEF Follows
  <2>2. Load(t) <= Load(t)
    BY <1>1, <1>2 DEF Load
  <2> QED
    BY <1>3, <2>1, <2>2 DEF Drained
<1>4. ASSUME NEW i \in 1..Fragments,
             t.fragments[i] # NoFragment, t.fragments[i].seq = t.remote_seq,
             DrainOne(t) =
               [Fin(tcp_append(t, t.fragments[i].seq, t.fragments[i].len), t.fragments[i].fin)
                  EXCEPT !.fragments[i] = NoFragment]
      PROVE  Drained(t, DrainOne(t), r)
  <2>1. PICK len, fin : len = t.fragments[i].len /\ fin = t.fragments[i].fin
    BY ZenonT(40)
  <2>2. PICK n : n = t.remote_seq
    OBVIOUS
  <2>3. len \in Nat /\ fin \in BOOLEAN /\ n \in Nat
    BY ZenonT(40), <1>1, <2>1, <2>2 DEF TcpStates, FragmentTypes
  <2>4. FragmentSound(t.fragments[i], n)
    BY <2>2 DEF StateSound
  <2>5. n >= 1 /\ n + len <= Stream + 1 /\ (fin => n + len = Stream + 1)
    BY <1>4, <2>1, <2>2, <2>4 DEF FragmentSound
  <2>6. PICK v : v = tcp_append(t, n, len)
    OBVIOUS
  <2>7. Appended(t, n, len, v)
    BY ONLY <1>1, <2>3, <2>5, <2>6, AppendFacts
  <2>8. PICK u : u = Fin(v, fin)
    OBVIOUS
  <2>9. /\ StateSound(u, r) /\ Follows(t, u)
        /\ u.fragments = t.fragments
        /\ u.remote_seq >= t.remote_seq + len
        /\ Len(u.queue) <= Len(t.queue) + len
        /\ Len(t.queue) + len <= QueueSize => u.dropped = t.dropped
    <3>1. /\ t.remote_seq >= 1 /\ t.remote_seq + len <= Stream + 1
          /\ fin => t.remote_seq + len = Stream + 1
          /\ Appended(t, t.remote_seq, len, v)
      BY <2>2, <2>5, <2>7
    <3> QED
      BY <2>3, <2>8, <3>1, TakeSound
  <2>10. PICK w : w = [u EXCEPT !.fragments[i] = NoFragment]
    BY ZenonT(40)
  <2>11. DrainOne(t) = w
    BY <1>4, <2>1, <2>2, <2>6, <2>8, <2>10
  <2>12. /\ StateSound(w, r) /\ Follows(u, w)
         /\ w.queue = u.queue /\ w.remote_seq = u.remote_seq /\ w.dropped = u.dropped
         /\ w.fragments = [u.fragments EXCEPT ![i] = NoFragment]
    BY ZenonT(40), <2>9, <2>10, ClearSound
  <2>13. u \in TcpStates /\ w \in TcpStates
    BY <2>9, <2>12 DEF StateSound
  <2>14. Follows(t, w)
    <3>1. u.remote_seq \in Nat /\ w.remote_seq \in Nat
      BY <2>13 DEF TcpStates
    <3> QED
      BY <1>1, <2>9, <2>12, <3>1 DEF Follows
  <2>15. t.fragments \in [1..Fragments -> FragmentTypes]
    BY <1>1 DEF TcpStates
  <2>16. \A j \in 1..Fragments : w.fragments[j] = t.fragments[j] \/ w.fragments[j] = NoFragment
    BY <2>9, <2>12, <2>15
  <2>17. PICK m \in Nat : m = w.remote_seq /\ n + len <= m
    <3>1. u.remote_seq \in Nat
      BY <2>13 DEF TcpStates
    <3> QED
      BY <2>2, <2>9, <2>12, <3>1
  <2>18. Covered(w) \subseteq Covered(t) \ (n..(m - 1))
    <3>1. t.remote_seq <= w.remote_seq
      BY <2>14 DEF Follows
    <3>2. Covered(w) \subseteq Covered(t) \ (t.remote_seq .. (w.remote_seq - 1))
      BY ONLY <1>1, <2>13, <2>16, <3>1, CoveredShrinks
    <3> QED
      BY <2>2, <2>17, <3>2
  <2>19. n..(n + len - 1) \subseteq Covered(t)
    <3> SUFFICES ASSUME NEW p \in n..(n + len - 1) PROVE p \in Covered(t)
      OBVIOUS
    <3>1. Stream \in Nat
      BY TcpAssumption
    <3>2. p \in n..Stream /\ n <= p /\ p < n + len
      BY <2>3, <2>5, <3>1
    <3>3. t.fragments[i].seq = n /\ t.fragments[i].len = len
      BY <1>4, <2>1, <2>2
    <3>4. p \in t.remote_seq .. Stream
      BY <2>2, <3>2
    <3>5. t.fragments[i].seq <= p /\ p < t.fragments[i].seq + t.fragments[i].len
      BY <3>2, <3>3
    <3> QED
      BY <3>4, <3>5 DEF Covered
  <2>20. Cardinality(Covered(w)) \in Nat /\ Cardinality(Covered(w)) + len <= Cardinality(Covered(t))
    <3>1. PICK C, D : C = Covered(t) /\ D = Covered(w)
      OBVIOUS
    <3>2. /\ IsFiniteSet(C) /\ n + len <= m
          /\ n..(n + len - 1) \subseteq C /\ D \subseteq C \ (n..(m - 1))
      BY <1>2, <2>17, <2>18, <2>19, <3>1
    <3>3. Cardinality(D) \in Nat /\ Cardinality(D) + len <= Cardinality(C)
      BY ONLY ZenonT(40), <2>3, <3>2, m \in Nat, Smaller
    <3> QED
      BY <3>1, <3>3
  <2>21. Len(w.queue) \in Nat /\ Len(w.queue) <= Len(t.queue) + len
    <3>1. w.queue \in Seq(Nat)
      BY <2>13 DEF TcpStates
    <3> QED
      BY <2>9, <2>12, <3>1
  <2>22. QueueSize \in Nat
    BY TcpAssumption
  <2>23. Load(w) <= Load(t) /\ (Load(t) <= QueueSize => Len(t.queue) + len <= QueueSize)
    <3>1. PICK x \in Nat : x = Cardinality(Covered(t))
      BY <1>2
    <3>2. PICK y \in Nat : y = Cardinality(Covered(w))
      BY <2>20
    <3>3. PICK p \in Nat : p = Len(t.queue)
      BY <1>1
    <3>4. PICK q \in Nat : q = Len(w.queue)
      BY <2>21
    <3>5. y + len <= x /\ q <= p + len
      BY <2>20, <2>21, <3>1, <3>2, <3>3, <3>4
    <3>6. q + y <= p + x /\ (p + x <= QueueSize => p + len <= QueueSize)
      BY ONLY <2>3, <2>22, <3>5, x \in Nat, y \in Nat, p \in Nat, q \in Nat
    <3> QED
      BY <3>1, <3>2, <3>3, <3>4, <3>6 DEF Load
  <2>24. Load(t) <= QueueSize => w.dropped = t.dropped
    BY <2>9, <2>12, <2>23
  <2> QED
    BY <2>11, <2>12, <2>14, <2>23, <2>24, Zenon DEF Drained
<1> QED
  BY <1>3, <1>4, DrainCases

\* The loop as a whole.
LEMMA DrainSound ==
    ASSUME NEW t, NEW r \in Seq(Nat), StateSound(t, r)
    PROVE  Drained(t, tcp_drain_fragments(t), r)
<1> DEFINE P == {w \in TcpStates : Drained(t, w, r)}
<1>1. t \in TcpStates
  BY DEF StateSound
<1>2. t \in P
  <2>1. Follows(t, t)
    BY <1>1 DEF Follows, TcpStates
  <2>2. Load(t) <= Load(t)
    <3>1. Cardinality(Covered(t)) \in Nat /\ Len(t.queue) \in Nat
      BY <1>1, CoveredFinite DEF TcpStates
    <3> QED
      BY <3>1 DEF Load
  <2> QED
    BY <1>1, <2>1, <2>2 DEF Drained
<1>3. ASSUME NEW u \in P PROVE DrainOne(u) \in P
  <2>1. u \in TcpStates /\ Drained(t, u, r)
    OBVIOUS
  <2>2. StateSound(u, r)
    BY <2>1 DEF Drained
  <2>3. PICK w : w = DrainOne(u)
    OBVIOUS
  <2>4. Drained(u, w, r)
    BY <2>2, <2>3, DrainOneSound
  <2>5. w \in TcpStates
    BY <2>4 DEF Drained, StateSound
  <2>6. Follows(t, w)
    <3>1. Follows(t, u) /\ Follows(u, w)
      BY <2>1, <2>4 DEF Drained
    <3>2. t.remote_seq \in Nat /\ u.remote_seq \in Nat /\ w.remote_seq \in Nat
      BY <1>1, <2>1, <2>5 DEF TcpStates
    <3> QED
      BY <3>1, <3>2 DEF Follows
  <2>7. Load(t) <= QueueSize => Load(w) <= Load(t) /\ w.dropped = t.dropped
    <3>1. Load(t) \in Nat /\ Load(u) \in Nat /\ Load(w) \in Nat
      BY <1>1, <2>1, <2>5, LoadType
    <3>2. QueueSize \in Nat
      BY TcpAssumption
    <3>3. ASSUME Load(t) <= QueueSize PROVE Load(w) <= Load(t) /\ w.dropped = t.dropped
      <4>1. Load(u) <= Load(t) /\ u.dropped = t.dropped
        BY <2>1, <3>3 DEF Drained
      <4>2. Load(u) <= QueueSize
        BY <3>1, <3>2, <3>3, <4>1
      <4>3. Load(w) <= Load(u) /\ w.dropped = u.dropped
        BY <2>4, <4>2 DEF Drained
      <4> QED
        BY <3>1, <4>1, <4>3
    <3> QED
      BY <3>3
  <2>8. Drained(t, w, r)
    BY <2>4, <2>6, <2>7 DEF Drained
  <2> QED
    BY <2>3, <2>5, <2>8
<1> HIDE DEF P
<1>4. tcp_drain_fragments(t) \in P
  BY <1>2, <1>3, DrainInduction
<1> QED
  BY <1>4 DEF P

\* Where no slot holds anything the loop does nothing.
LEMMA DrainNothing ==
    ASSUME NEW t, \A i \in 1..Fragments : t.fragments[i] = NoFragment
    PROVE  tcp_drain_fragments(t) = t
<1> DEFINE P == {t}
<1>1. t \in P
  OBVIOUS
<1>2. DrainOne(t) = t
  BY DrainCases
<1>3. \A u \in P : DrainOne(u) \in P
  BY <1>2
<1> HIDE DEF P
<1>4. tcp_drain_fragments(t) \in P
  BY <1>1, <1>3, DrainInduction
<1> QED
  BY <1>4 DEF P

-----------------------------------------------------------------------------
(* tcp_receive                                                             *)

\* An acknowledgement changes nothing else.
LEMMA AckSound ==
    ASSUME NEW t, NEW r, StateSound(t, r), NEW n \in Nat,
           NEW u, u = [t EXCEPT !.last_ack = n]
    PROVE  /\ StateSound(u, r) /\ u.last_ack = n /\ u.state = t.state
           /\ u.remote_seq = t.remote_seq /\ u.dropped = t.dropped /\ Load(u) = Load(t)
           /\ u.fragments = t.fragments
<1>1. t \in TcpStates
  BY DEF StateSound
<1>2. u \in TcpStates /\ u.last_ack = n /\ u.state = t.state /\ u.queue = t.queue
      /\ u.remote_seq = t.remote_seq /\ u.dropped = t.dropped /\ u.fragments = t.fragments
  BY ZenonT(40), <1>1 DEF TcpStates
<1>3. Covered(u) = Covered(t)
  BY <1>2, Zenon DEF Covered
<1>4. Load(u) = Load(t)
  BY <1>2, <1>3, Zenon DEF Load
<1>5. StateSound(u, r)
  BY <1>2 DEF StateSound
<1> QED
  BY <1>2, <1>4, <1>5

\* A segment of the peer, as tcp_receive finds it.
SegmentSound(s, n) ==
    /\ s \in [seq : Nat, len : Nat, fin : BOOLEAN, ack : Nat]
    /\ FragmentSound([seq |-> s.seq, len |-> s.len, fin |-> s.fin], n)
    /\ s.seq >= 1 /\ s.len <= Mss /\ s.seq + s.len <= Stream + 1 /\ s.seq + s.len <= n + Window
    /\ s.fin => s.seq + s.len = Stream + 1

\* What tcp_receive makes of t when s arrives.
Received(t, s, u, r) ==
    /\ StateSound(u, r)
    /\ t.remote_seq <= u.remote_seq
    /\ u.last_ack = s.ack
    /\ u.state = t.state \/ u.state = FinReceived
    /\ t.dropped => u.dropped
    /\ Load(t) + Mss <= QueueSize => Load(u) <= Load(t) + Mss /\ u.dropped = t.dropped

\* A segment from beyond the gap is kept in a slot, or not at all.
LEMMA StoreSound ==
    ASSUME NEW t, NEW r, StateSound(t, r), NEW s, SegmentSound(s, t.remote_seq),
           NEW u, u = tcp_store_fragment(t, s.seq, s.len, s.fin)
    PROVE  /\ StateSound(u, r) /\ u.remote_seq = t.remote_seq /\ u.last_ack = t.last_ack
           /\ u.state = t.state /\ u.dropped = t.dropped
           /\ Load(u) <= Load(t) + Mss
<1>1. t \in TcpStates /\ Load(t) \in Nat /\ Len(t.queue) \in Nat
  BY LoadType DEF StateSound
<1>2. Mss \in Nat /\ Stream \in Nat /\ Window \in Nat /\ Fragments \in Nat
  BY TcpAssumption
<1>3. s.seq \in Nat /\ s.len \in Nat /\ s.fin \in BOOLEAN /\ s.len <= Mss
  BY DEF SegmentSound
<1>4. CASE u = t
  BY <1>1, <1>2, <1>4
<1>5. CASE u # t
  <2> DEFINE T == {i \in 1..Fragments : t.fragments[i] = NoFragment}
             k == CHOOSE i \in T : \A j \in T : i <= j
  <2>1. PICK f : f = [seq |-> s.seq, len |-> s.len, fin |-> s.fin]
    BY ZenonT(40)
  <2>2. T # {} /\ u = [t EXCEPT !.fragments[k] = f]
    BY <1>5, <2>1 DEF tcp_store_fragment
  <2>3. k \in 1..Fragments /\ t.fragments[k] = NoFragment
    <3>1. T \in SUBSET (1..Fragments)
      OBVIOUS
    <3>2. k \in T
      <4> HIDE DEF T
      <4> QED
        BY <2>2, <3>1, PickSlot
    <3> HIDE DEF k
    <3> QED
      BY <3>2
  <2> HIDE DEF k
  <2>4. f \in FragmentTypes /\ f.seq = s.seq /\ f.len = s.len
    BY <1>3, <2>1 DEF FragmentTypes
  <2>5. u \in TcpStates /\ u.state = t.state /\ u.queue = t.queue /\ u.last_ack = t.last_ack
        /\ u.remote_seq = t.remote_seq /\ u.dropped = t.dropped
        /\ u.fragments = [t.fragments EXCEPT ![k] = f]
    BY ZenonT(40), <1>1, <2>2, <2>3, <2>4 DEF TcpStates
  <2>6. t.fragments \in [1..Fragments -> FragmentTypes]
    BY <1>1 DEF TcpStates
  <2>7. \A j \in 1..Fragments : u.fragments[j] = IF j = k THEN f ELSE t.fragments[j]
    BY ZenonT(40), <2>3, <2>5, <2>6
  <2>8. FragmentSound(f, t.remote_seq)
    BY <2>1 DEF SegmentSound
  <2>9. \A j \in 1..Fragments : FragmentSound(u.fragments[j], u.remote_seq)
    <3>1. \A j \in 1..Fragments : FragmentSound(t.fragments[j], t.remote_seq)
      BY DEF StateSound
    <3> QED
      BY <2>5, <2>7, <2>8, <3>1
  <2>10. StateSound(u, r)
    BY <2>5, <2>9 DEF StateSound
  <2> DEFINE I == s.seq .. (s.seq + s.len - 1)
  <2>11. Covered(u) \subseteq Covered(t) \cup I
    <3> SUFFICES ASSUME NEW p \in Covered(u), p \notin I PROVE p \in Covered(t)
      OBVIOUS
    <3>1. p \in t.remote_seq .. Stream
      BY <2>5 DEF Covered
    <3>2. PICK j \in 1..Fragments :
            u.fragments[j].seq <= p /\ p < u.fragments[j].seq + u.fragments[j].len
      BY DEF Covered
    <3>3. p \in Int
      BY <1>1, <1>2, <3>1 DEF TcpStates
    <3>4. j # k
      BY <1>3, <2>4, <2>7, <3>2, <3>3
    <3> QED
      BY <2>7, <3>1, <3>2, <3>4 DEF Covered
  <2>12. IsFiniteSet(I) /\ Cardinality(I) = s.len
    BY ZenonT(40), <1>3, IntervalSize
  <2> HIDE DEF I
  <2>13. PICK C, D : C = Covered(t) /\ D = Covered(u)
    OBVIOUS
  <2>14. IsFiniteSet(C) /\ Cardinality(C) \in Nat
    BY <1>1, <2>13, CoveredFinite
  <2>15. IsFiniteSet(C \cup I) /\ Cardinality(C \cup I) = Cardinality(C) + s.len - Cardinality(C \cap I)
    BY <2>12, <2>14, FS_Union
  <2>16. Cardinality(C \cap I) \in Nat
    <3>1. IsFiniteSet(C \cap I)
      BY <2>14, FS_Subset
    <3> QED
      BY <3>1, FS_CardinalityType
  <2>17. Cardinality(D) <= Cardinality(C \cup I) /\ Cardinality(D) \in Nat
    <3>1. D \subseteq C \cup I
      BY <2>11, <2>13
    <3>2. IsFiniteSet(D) /\ Cardinality(D) <= Cardinality(C \cup I)
      BY <2>15, <3>1, FS_Subset
    <3> QED
      BY <3>2, FS_CardinalityType
  <2>18. Cardinality(D) <= Cardinality(C) + Mss
    BY <1>2, <1>3, <2>14, <2>15, <2>16, <2>17
  <2>19. Load(u) <= Load(t) + Mss
    <3>1. Len(u.queue) = Len(t.queue)
      BY <2>5
    <3> QED
      BY <1>1, <1>2, <2>13, <2>14, <2>17, <2>18, <3>1 DEF Load
  <2> QED
    BY <2>5, <2>10, <2>19
<1> QED
  BY <1>4, <1>5

\* The bytes of a segment in order add to the queue what they take from the
\* slots, or more by their number.
LEMMA TakeLoad ==
    ASSUME NEW t \in TcpStates, NEW u \in TcpStates, NEW len \in Nat, u.fragments = t.fragments,
           t.remote_seq <= u.remote_seq, Len(u.queue) <= Len(t.queue) + len
    PROVE  Load(u) <= Load(t) + len
<1>1. Covered(u) \subseteq Covered(t)
  BY CoveredShrinks
<1>2. IsFiniteSet(Covered(t)) /\ Cardinality(Covered(t)) \in Nat
  BY CoveredFinite
<1>3. Cardinality(Covered(u)) \in Nat
  BY CoveredFinite
<1>4. Cardinality(Covered(u)) <= Cardinality(Covered(t))
  BY <1>1, <1>2, FS_Subset
<1>5. Len(t.queue) \in Nat /\ Len(u.queue) \in Nat
  BY LoadType
<1> QED
  BY <1>2, <1>3, <1>4, <1>5 DEF Load

\* tcp_receive keeps a connection sound, and drops nothing when the queue has
\* room for the slots and for one more segment.
LEMMA ReceiveSound ==
    ASSUME NEW t, NEW r \in Seq(Nat), StateSound(t, r), t.remote_seq >= 1,
           NEW s, SegmentSound(s, t.remote_seq)
    PROVE  Received(t, s, tcp_receive(t, s), r)
<1>1. s.seq \in Nat /\ s.len \in Nat /\ s.fin \in BOOLEAN /\ s.ack \in Nat
      /\ s.seq >= 1 /\ s.len <= Mss
  BY DEF SegmentSound
<1>2. Mss \in Nat /\ Stream \in Nat /\ QueueSize \in Nat
  BY TcpAssumption
<1>3. t \in TcpStates /\ t.remote_seq \in Nat /\ Load(t) \in Nat
  BY LoadType DEF StateSound, TcpStates
<1>4. PICK v : v = [t EXCEPT !.last_ack = s.ack]
  BY ZenonT(40)
<1>5. /\ StateSound(v, r) /\ v.last_ack = s.ack /\ v.state = t.state
      /\ v.remote_seq = t.remote_seq /\ v.dropped = t.dropped /\ Load(v) = Load(t)
  BY <1>1, <1>4, AckSound
<1>6. v \in TcpStates
  BY <1>5 DEF StateSound
<1>7. SegmentSound(s, v.remote_seq)
  BY <1>5
<1>8. PICK w : w = tcp_receive(t, s)
  OBVIOUS
<1> DEFINE carries == s.len > 0 \/ s.fin
<1>9. w = IF carries /\ s.seq # v.remote_seq
          THEN IF s.seq > v.remote_seq THEN tcp_store_fragment(v, s.seq, s.len, s.fin) ELSE v
          ELSE tcp_drain_fragments(Fin(IF s.len > 0 THEN tcp_append(v, s.seq, s.len) ELSE v, s.fin))
  BY <1>4, <1>8 DEF tcp_receive, InOrder
<1>10. CASE carries /\ s.seq # v.remote_seq
  <2>1. CASE s.seq > v.remote_seq
    <3>1. w = tcp_store_fragment(v, s.seq, s.len, s.fin)
      BY <1>9, <1>10, <2>1
    <3>2. /\ StateSound(w, r) /\ w.remote_seq = v.remote_seq /\ w.last_ack = v.last_ack
          /\ w.state = v.state /\ w.dropped = v.dropped
          /\ Load(w) <= Load(v) + Mss
      BY <1>5, <1>7, <3>1, StoreSound
    <3> QED
      BY <1>3, <1>5, <1>8, <3>2 DEF Received
  <2>2. CASE ~(s.seq > v.remote_seq)
    <3>1. w = v
      BY <1>9, <1>10, <2>2
    <3>2. Load(t) <= Load(t) + Mss
      BY <1>2, <1>3
    <3> QED
      BY <1>3, <1>5, <1>8, <3>1, <3>2 DEF Received
  <2> QED
    BY <2>1, <2>2
<1>11. ASSUME NEW u, StateSound(u, r), Follows(v, u), w = tcp_drain_fragments(u),
              Load(v) + Mss <= QueueSize => Load(u) <= Load(v) + Mss /\ u.dropped = v.dropped
       PROVE  Received(t, s, w, r)
  <2>1. Drained(u, w, r)
    BY <1>11, DrainSound
  <2>2. StateSound(w, r) /\ Follows(u, w)
    BY <2>1 DEF Drained
  <2>3. u \in TcpStates /\ w \in TcpStates
    BY <1>11, <2>2 DEF StateSound
  <2>4. u.remote_seq \in Nat /\ w.remote_seq \in Nat
    BY <2>3 DEF TcpStates
  <2>5. /\ t.remote_seq <= w.remote_seq /\ w.last_ack = s.ack
        /\ (w.state = t.state \/ w.state = FinReceived) /\ (t.dropped => w.dropped)
    BY <1>3, <1>5, <1>11, <2>2, <2>4 DEF Follows
  <2>6. Load(u) \in Nat /\ Load(w) \in Nat
    BY <2>3, LoadType
  <2>7. ASSUME Load(t) + Mss <= QueueSize PROVE Load(w) <= Load(t) + Mss /\ w.dropped = t.dropped
    <3>1. Load(v) + Mss <= QueueSize
      BY <1>5, <2>7
    <3>2. Load(u) <= Load(v) + Mss /\ u.dropped = v.dropped
      BY <1>11, <3>1
    <3>3. Load(u) <= QueueSize
      <4>1. Load(u) <= Load(t) + Mss
        BY <1>5, <3>2
      <4> QED
        BY <1>2, <1>3, <2>6, <2>7, <4>1
    <3>4. Load(w) <= Load(u) /\ w.dropped = u.dropped
      BY <2>1, <3>3 DEF Drained
    <3>5. Load(w) <= Load(t) + Mss
      <4>1. Load(u) <= Load(t) + Mss
        BY <1>5, <3>2
      <4> QED
        BY <1>2, <1>3, <2>6, <3>4, <4>1
    <3> QED
      BY <1>5, <3>2, <3>4, <3>5
  <2> QED
    BY <2>2, <2>5, <2>7 DEF Received
<1>12. CASE carries /\ s.seq = v.remote_seq
  <2>1. PICK c : c = IF s.len > 0 THEN tcp_append(v, s.seq, s.len) ELSE v
    OBVIOUS
  <2>2. PICK u : u = Fin(c, s.fin)
    OBVIOUS
  <2>3. w = tcp_drain_fragments(u)
    BY <1>9, <1>12, <2>1, <2>2
  <2>4. Len(v.queue) <= QueueSize /\ Len(v.queue) \in Nat /\ v.queue \in Seq(Nat)
    BY <1>5 DEF StateSound, TcpStates
  <2>5. Appended(v, v.remote_seq, s.len, c)
    <3>1. CASE s.len > 0
      <4>1. Appended(v, s.seq, s.len, tcp_append(v, s.seq, s.len))
        BY <1>1, <1>6, <2>4, AppendFacts
      <4>2. c = tcp_append(v, s.seq, s.len)
        BY <2>1, <3>1
      <4> QED
        BY <1>12, <4>1, <4>2
    <3>2. CASE ~(s.len > 0)
      <4>1. c = v /\ s.len = 0
        BY <1>1, <2>1, <3>2
      <4>2. v.remote_seq \in Nat
        BY <1>6 DEF TcpStates
      <4>3. v.remote_seq + 0 = v.remote_seq /\ Len(v.queue) <= Len(v.queue) + 0
        BY <2>4, <4>2
      <4>4. v.remote_seq >= 1
        BY <1>1, <1>12
      <4>5. Bytes(v.remote_seq, 0) = <<>>
        BY <4>2, <4>4, BytesType
      <4>6. v.queue = v.queue \o <<>>
        BY <2>4
      <4> QED
        BY <1>6, <2>4, <4>1, <4>3, <4>5, <4>6, Zenon DEF Appended
    <3> QED
      BY <3>1, <3>2
  <2>6. /\ v.remote_seq >= 1 /\ v.remote_seq + s.len <= Stream + 1
        /\ s.fin => v.remote_seq + s.len = Stream + 1
    BY <1>12 DEF SegmentSound
  <2>7. /\ StateSound(u, r) /\ Follows(v, u)
        /\ u.fragments = v.fragments
        /\ u.remote_seq >= v.remote_seq + s.len
        /\ Len(u.queue) <= Len(v.queue) + s.len
        /\ Len(v.queue) + s.len <= QueueSize => u.dropped = v.dropped
    <3>1. PICK len, fin : len = s.len /\ fin = s.fin
      OBVIOUS
    <3>2. /\ len \in Nat /\ fin \in BOOLEAN /\ v.remote_seq >= 1 /\ v.remote_seq + len <= Stream + 1
          /\ fin => v.remote_seq + len = Stream + 1
          /\ Appended(v, v.remote_seq, len, c) /\ u = Fin(c, fin)
      BY <1>1, <2>2, <2>5, <2>6, <3>1
    <3>3. /\ StateSound(u, r) /\ Follows(v, u)
          /\ u.fragments = v.fragments
          /\ u.remote_seq >= v.remote_seq + len
          /\ Len(u.queue) <= Len(v.queue) + len
          /\ Len(v.queue) + len <= QueueSize => u.dropped = v.dropped
      BY <1>5, <3>2, TakeSound
    <3> QED
      BY <3>1, <3>3
  <2>8. u \in TcpStates
    BY <2>7 DEF StateSound
  <2>9. v.remote_seq <= u.remote_seq
    BY <2>7 DEF Follows
  <2>10. Load(u) <= Load(v) + s.len
    BY <1>1, <1>6, <2>7, <2>8, <2>9, TakeLoad
  <2>11. Load(u) \in Nat /\ Load(v) \in Nat /\ Len(v.queue) <= Load(v)
    <3>1. Cardinality(Covered(v)) \in Nat
      BY <1>6, CoveredFinite
    <3>2. Len(v.queue) <= Load(v)
      BY <2>4, <3>1 DEF Load
    <3> QED
      BY <1>6, <2>8, <3>2, LoadType
  <2>12. Load(u) <= Load(v) + Mss
    BY <1>1, <1>2, <2>10, <2>11
  <2>13. Load(v) + Mss <= QueueSize => Len(v.queue) + s.len <= QueueSize
    BY <1>1, <1>2, <2>4, <2>11
  <2> QED
    BY <1>8, <1>11, <2>3, <2>7, <2>12, <2>13
<1>13. CASE ~carries
  <2>1. w = tcp_drain_fragments(v)
    BY <1>9, <1>13 DEF Fin
  <2>2. Follows(v, v)
    BY <1>6 DEF Follows, TcpStates
  <2>3. Load(v) <= Load(v) + Mss
    BY <1>2, <1>3, <1>5
  <2> QED
    BY <1>5, <1>8, <1>11, <2>1, <2>2, <2>3
<1> QED
  BY <1>10, <1>12, <1>13

-----------------------------------------------------------------------------
(* The invariant                                                           *)

\* One frame less.
LEMMA FrameLess ==
    ASSUME NEW n \in Nat, n >= 1, NEW m \in Nat
    PROVE  n * m \in Nat /\ (n - 1) * m = n * m - m /\ n * m >= m
<1>1. n * m \in Nat /\ (n - 1) * m \in Nat
  OBVIOUS
<1>2. (n - 1) * m = n * m - m
  OBVIOUS
<1> QED
  BY <1>1, <1>2

\* An empty queue, and slots that hold no more than one window.
LEMMA WindowBound ==
    ASSUME NEW t, NEW r, StateSound(t, r), t.queue = <<>>
    PROVE  Load(t) \in Nat /\ Load(t) <= Window
<1>1. t \in TcpStates /\ t.remote_seq \in Nat
  BY DEF StateSound, TcpStates
<1>2. Window \in Nat /\ Stream \in Nat
  BY TcpAssumption
<1>3. PICK n \in Nat : n = t.remote_seq
  BY <1>1
<1>4. Covered(t) \subseteq n..(n + Window - 1)
  <2> SUFFICES ASSUME NEW p \in Covered(t) PROVE p \in n..(n + Window - 1)
    OBVIOUS
  <2>1. p \in n..Stream
    BY <1>3 DEF Covered
  <2>2. PICK i \in 1..Fragments :
          t.fragments[i].seq <= p /\ p < t.fragments[i].seq + t.fragments[i].len
    BY DEF Covered
  <2>3. PICK f : f = t.fragments[i]
    OBVIOUS
  <2>4. f.seq \in Nat /\ f.len \in Nat
    BY ZenonT(40), <1>1, <2>3 DEF TcpStates, FragmentTypes
  <2>5. FragmentSound(f, n)
    BY <1>3, <2>3 DEF StateSound
  <2>6. f # NoFragment
    <3> SUFFICES ASSUME f = NoFragment PROVE FALSE
      OBVIOUS
    <3>1. f.seq = 0 /\ f.len = 0
      BY DEF NoFragment
    <3> QED
      BY <1>2, <2>1, <2>2, <2>3, <3>1
  <2>7. f.seq + f.len <= n + Window
    BY <2>5, <2>6 DEF FragmentSound
  <2> QED
    BY <1>2, <2>1, <2>2, <2>3, <2>4, <2>7
<1>5. IsFiniteSet(n..(n + Window - 1)) /\ Cardinality(n..(n + Window - 1)) = Window
  BY <1>2, IntervalSize
<1>6. Cardinality(Covered(t)) <= Window
  BY ZenonT(40), <1>4, <1>5, FS_Subset
<1>7. Cardinality(Covered(t)) \in Nat
  BY <1>1, CoveredFinite
<1>8. Len(t.queue) = 0
  OBVIOUS
<1> QED
  BY <1>2, <1>6, <1>7, <1>8 DEF Load

\* The invariant holds at first.
LEMMA TcpInvInit == TcpInit => TcpInv
<1> SUFFICES ASSUME TcpInit PROVE TcpInv
  OBVIOUS
<1>1. NoFragment \in FragmentTypes
  BY DEF NoFragment, FragmentTypes
<1>2. Stream \in Nat /\ QueueSize \in Nat /\ Burst \in Nat /\ Fragments \in Nat
  BY TcpAssumption
<1>3. tcp \in TcpStates
  BY <1>1 DEF TcpInit, TcpStates, Closed
<1>4. Got(0) = -1
  BY <1>2 DEF Got
<1>5. read \o tcp.queue = Bytes(1, Got(tcp.remote_seq))
  <2>1. Bytes(1, -1) = <<>>
    BY BytesType
  <2>2. read = <<>> /\ tcp.queue = <<>> /\ tcp.remote_seq = 0
    BY DEF TcpInit
  <2> QED
    BY <1>4, <2>1, <2>2
<1>6. StateSound(tcp, read)
  <2>1. \A i \in 1..Fragments : tcp.fragments[i] = NoFragment
    BY DEF TcpInit
  <2>2. tcp.remote_seq = 0 /\ tcp.queue = <<>> /\ tcp.state = 0
    BY DEF TcpInit, Closed
  <2> QED
    BY <1>2, <1>3, <1>5, <2>1, <2>2 DEF StateSound, FragmentSound, FinReceived
<1>7. TcpTypes
  BY <1>2 DEF TcpInit, TcpTypes, CallTypes, NotCalled
<1>8. EndsAgree
  BY DEF TcpInit, EndsAgree, NotCalled, Closed, SynSent, Established, NothingCame
<1>9. RoomForPoll
  BY DEF TcpInit, RoomForPoll, NotCalled
<1>10. ReportsTrue
  BY DEF TcpInit, ReportsTrue
<1> QED
  BY <1>6, <1>7, <1>8, <1>9, <1>10 DEF TcpInv

\* A step that leaves what has been received alone: one that calls, polls,
\* returns or reaches the peer.
LEMMA QuietStep ==
    ASSUME TcpInv,
           \/ network_tcp_send \/ network_tcp_receive \/ network_tcp_close \/ ConnectReturns
           \/ SendReturns \/ Cancelled \/ Poll \/ PollEnds \/ PeerReceives
    PROVE  TcpInv'
<1> USE DEF Closed, SynSent, Established, FinReceived, Reset
<1>1. tcp' = tcp /\ read' = read
  BY DEF network_tcp_send, network_tcp_receive, network_tcp_close, ConnectReturns,
         SendReturns, Cancelled, Poll, PollEnds, PeerReceives
<1>2. StateSound(tcp, read)'
  BY <1>1 DEF TcpInv
<1>3. tcp.state \in {0, 1, 2, 4, -2} /\ tcp.remote_seq \in Nat /\ tcp.last_ack \in Nat
  BY DEF TcpInv, StateSound, TcpStates
<1>4. TcpTypes /\ EndsAgree /\ RoomForPoll /\ ReportsTrue
  BY DEF TcpInv
<1>5. Burst \in Nat
  BY TcpAssumption
<1>6. NothingCame => NothingCame'
  BY <1>1 DEF NothingCame
<1>7. CASE network_tcp_send
  <2>1. TcpTypes'
    <3>1. call' = [name |-> "send", attempt |-> 1, left |-> 0]
      BY ZenonT(40), <1>7 DEF network_tcp_send, NotCalled
    <3>2. call' \in CallTypes
      BY <1>5, <3>1 DEF CallTypes
    <3>3. local_seq' \in Nat /\ acked' = tcp.remote_seq /\ requests' = requests /\ peer' = peer
      BY <1>4, <1>7 DEF network_tcp_send, tcp_send, TcpTypes
    <3> QED
      BY <1>1, <1>3, <1>4, <3>2, <3>3 DEF TcpTypes
  <2>2. EndsAgree'
    <3>1. call'.name = "send" /\ local_seq' = requests' + 2 /\ acked' = tcp.remote_seq /\ peer' = peer
      BY <1>4, <1>7 DEF network_tcp_send, tcp_send, NotCalled, TcpTypes
    <3>2. tcp.state = 2
      BY <1>7 DEF network_tcp_send
    <3> QED
      BY <1>1, <1>3, <1>4, <1>6, <3>1, <3>2 DEF EndsAgree, TcpTypes
  <2>3. RoomForPoll'
    BY <1>7 DEF network_tcp_send, NotCalled, RoomForPoll
  <2>4. ReportsTrue'
    BY <1>1, <1>4, <1>7 DEF network_tcp_send, ReportsTrue
  <2> QED
    BY <1>2, <2>1, <2>2, <2>3, <2>4 DEF TcpInv
<1>8. CASE network_tcp_receive
  <2>1. TcpTypes'
    BY <1>1, <1>4, <1>5, <1>8 DEF network_tcp_receive, Begins, TcpTypes, CallTypes, NotCalled
  <2>2. EndsAgree'
    BY <1>1, <1>3, <1>4, <1>6, <1>8 DEF network_tcp_receive, Begins, NotCalled, EndsAgree, TcpTypes
  <2>3. RoomForPoll'
    BY <1>8 DEF network_tcp_receive, Begins, NotCalled, RoomForPoll
  <2>4. ReportsTrue'
    BY <1>1, <1>4, <1>8 DEF network_tcp_receive, ReportsTrue
  <2> QED
    BY <1>2, <2>1, <2>2, <2>3, <2>4 DEF TcpInv
<1>9. CASE network_tcp_close
  <2>a. PICK k \in 0..1 : call' = [name |-> "close", attempt |-> k, left |-> 0]
    BY <1>9 DEF network_tcp_close
  <2>b. call' \in CallTypes /\ call'.name = "close"
    BY <1>5, <2>a DEF CallTypes
  <2>c. local_seq' = local_seq \/ local_seq' = local_seq + 1
    BY <1>9 DEF network_tcp_close
  <2>d. local_seq' \in Nat
    BY <1>4, <2>c DEF TcpTypes
  <2>0. /\ call' \in CallTypes /\ call'.name = "close" /\ local_seq' \in Nat /\ requests' = requests
        /\ (acked' = acked \/ acked' = tcp.remote_seq) /\ peer' = peer /\ tcp_result' = tcp_result
    BY <1>9, <2>b, <2>d DEF network_tcp_close, tcp_send
  <2>1. TcpTypes'
    BY <1>1, <1>3, <1>4, <2>0 DEF TcpTypes
  <2>2. EndsAgree'
    BY <1>1, <1>3, <1>4, <1>6, <2>0 DEF EndsAgree, TcpTypes
  <2>3. RoomForPoll'
    BY <2>0 DEF RoomForPoll
  <2>4. ReportsTrue'
    BY <1>1, <1>4, <2>0 DEF ReportsTrue
  <2> QED
    BY <1>2, <2>1, <2>2, <2>3, <2>4 DEF TcpInv
<1>10. CASE ConnectReturns \/ Cancelled
  <2>0. /\ call' = NotCalled /\ local_seq' = local_seq /\ requests' = requests
        /\ acked' = acked /\ peer' = peer /\ tcp_result' # <<"receive", 0>>
    BY <1>10 DEF ConnectReturns, Cancelled, CallReturns
  <2>1. TcpTypes'
    BY <1>1, <1>4, <1>5, <2>0 DEF TcpTypes, CallTypes, NotCalled
  <2>2. EndsAgree'
    BY <1>1, <1>3, <1>4, <1>6, <2>0 DEF EndsAgree, TcpTypes, NotCalled
  <2>3. RoomForPoll'
    BY <2>0 DEF RoomForPoll, NotCalled
  <2>4. ReportsTrue'
    BY <1>1, <1>4, <2>0 DEF ReportsTrue
  <2> QED
    BY <1>2, <2>1, <2>2, <2>3, <2>4 DEF TcpInv
<1>11. CASE SendReturns
  <2>0. /\ call.name = "send" /\ local_seq' = local_seq /\ acked' = acked /\ peer' = peer
        /\ \/ call' = NotCalled /\ tcp_result' # <<"receive", 0>>
              /\ (requests' = requests \/ (tcp.last_ack >= local_seq /\ requests' = requests + 1))
           \/ call' = [call EXCEPT !.attempt = @ + 1] /\ tcp_result' = tcp_result /\ requests' = requests
    BY <1>11 DEF SendReturns, CallReturns
  <2>1. call' \in CallTypes
    BY <1>4, <1>5, <2>0 DEF TcpTypes, CallTypes, NotCalled
  <2>2. requests' \in Nat
    BY <1>4, <2>0 DEF TcpTypes
  <2>3. TcpTypes'
    BY <1>1, <1>4, <2>0, <2>1, <2>2 DEF TcpTypes
  <2>4. call'.name = "none" \/ (call'.name = "send" /\ requests' = requests)
    BY <1>4, <2>0 DEF TcpTypes, CallTypes, NotCalled
  <2>5. EndsAgree'
    BY <1>1, <1>3, <1>4, <1>6, <2>0, <2>4 DEF EndsAgree, TcpTypes
  <2>6. RoomForPoll'
    BY <2>4 DEF RoomForPoll
  <2>7. ReportsTrue'
    <3>1. local_seq = requests + 2 /\ tcp.last_ack <= peer.received
      BY <1>4, <2>0 DEF EndsAgree
    <3>2. requests \in Nat /\ peer.received \in Nat
      BY <1>4 DEF TcpTypes
    <3>3. requests' < peer'.received \/ requests' = 0
      BY <1>3, <1>4, <2>0, <3>1, <3>2 DEF ReportsTrue
    <3>4. ~tcp.dropped /\ tcp_result' = <<"receive", 0>> => read = Bytes(1, Stream)
      BY <1>4, <2>0 DEF ReportsTrue
    <3> QED
      BY <1>1, <3>3, <3>4 DEF ReportsTrue
  <2> QED
    BY <1>2, <2>3, <2>5, <2>6, <2>7 DEF TcpInv
<1>12. CASE Poll
  <2>0. /\ call' = [call EXCEPT !.left = Burst] /\ Spins /\ local_seq' = local_seq /\ requests' = requests
        /\ acked' = acked /\ peer' = peer /\ tcp_result' = tcp_result
    BY <1>12 DEF Poll
  <2>1. call' \in CallTypes /\ call'.name = call.name /\ call'.left = Burst
    <3>1. call \in CallTypes
      BY <1>4 DEF TcpTypes
    <3>2. call' = [call EXCEPT !.left = Burst] /\ Burst \in 0..Burst
      BY <1>5, <2>0
    <3> QED
      BY ONLY <3>1, <3>2 DEF CallTypes
  <2>2. TcpTypes'
    BY <1>1, <1>4, <2>0, <2>1 DEF TcpTypes
  <2>3. EndsAgree'
    BY <1>1, <1>3, <1>4, <1>6, <2>0, <2>1 DEF EndsAgree, TcpTypes
  <2>4. ASSUME call.name = "receive" PROVE Load(tcp) + Burst * Mss <= Burst * Mss + Window
    <3>1. tcp.queue = <<>>
      BY <2>0, <2>4 DEF Spins
    <3>2. Load(tcp) \in Nat /\ Load(tcp) <= Window
      BY <3>1, WindowBound DEF TcpInv
    <3>3. Window \in Nat /\ Mss \in Nat
      BY TcpAssumption
    <3>4. PICK x \in Nat : x = Burst * Mss
      BY <1>5, <3>3
    <3>5. Load(tcp) + x <= x + Window
      BY <3>2, <3>3
    <3> QED
      BY <3>4, <3>5
  <2>5. RoomForPoll'
    BY <1>1, <2>1, <2>4 DEF RoomForPoll
  <2>6. ReportsTrue'
    BY <1>1, <1>4, <2>0 DEF ReportsTrue
  <2> QED
    BY <1>2, <2>2, <2>3, <2>5, <2>6 DEF TcpInv
<1>13. CASE PollEnds
  <2>0. /\ call' = [call EXCEPT !.left = 0] /\ local_seq' = local_seq /\ requests' = requests
        /\ acked' = acked /\ peer' = peer /\ tcp_result' = tcp_result
    BY <1>13 DEF PollEnds
  <2>1. call' \in CallTypes /\ call'.name = call.name /\ call'.left = 0
    <3>1. call \in CallTypes
      BY <1>4 DEF TcpTypes
    <3>2. call' = [call EXCEPT !.left = 0] /\ 0 \in 0..Burst
      BY <1>5, <2>0
    <3> QED
      BY ONLY <3>1, <3>2 DEF CallTypes
  <2>2. TcpTypes'
    BY <1>1, <1>4, <2>0, <2>1 DEF TcpTypes
  <2>3. EndsAgree'
    BY <1>1, <1>3, <1>4, <1>6, <2>0, <2>1 DEF EndsAgree, TcpTypes
  <2>5. RoomForPoll'
    BY <2>1 DEF RoomForPoll
  <2>6. ReportsTrue'
    BY <1>1, <1>4, <2>0 DEF ReportsTrue
  <2> QED
    BY <1>2, <2>2, <2>3, <2>5, <2>6 DEF TcpInv
<1>14. CASE PeerReceives
  <2>0. /\ call' = call /\ local_seq' = local_seq /\ requests' = requests
        /\ acked' = acked /\ tcp_result' = tcp_result
        /\ \/ peer' = [peer EXCEPT !.received = @ + 1]
           \/ peer.acked < acked /\ peer' = [peer EXCEPT !.acked = acked]
    BY <1>14 DEF PeerReceives
  <2>1. /\ peer' \in [received : Nat, acked : Nat]
        /\ peer.received \in Nat /\ peer.acked \in Nat /\ acked \in Nat
        /\ peer.received <= peer'.received
        /\ peer'.acked = peer.acked \/ peer'.acked = acked
    BY <1>4, <2>0 DEF TcpTypes
  <2>2. TcpTypes'
    BY <1>1, <1>4, <2>0, <2>1 DEF TcpTypes
  <2>3. EndsAgree'
    <3>1. peer'.received \in Nat /\ peer'.acked \in Nat
      BY <2>1
    <3>2. peer'.received = 0 => peer.received = 0
      BY <2>1, <3>1
    <3> QED
      BY <1>1, <1>3, <1>4, <1>6, <2>0, <2>1, <3>1, <3>2 DEF EndsAgree
  <2>5. RoomForPoll'
    BY <1>1, <1>4, <2>0 DEF RoomForPoll
  <2>6. ReportsTrue'
    <3>1. peer'.received \in Nat /\ requests \in Nat
      BY <1>4, <2>1 DEF TcpTypes
    <3>2. requests < peer'.received \/ requests = 0
      BY <1>4, <2>1, <3>1 DEF ReportsTrue
    <3> QED
      BY <1>1, <1>4, <2>0, <3>2 DEF ReportsTrue
  <2> QED
    BY <1>2, <2>2, <2>3, <2>5, <2>6 DEF TcpInv
<1> QED
  BY <1>7, <1>8, <1>9, <1>10, <1>11, <1>12, <1>13, <1>14

\* The bytes that network_tcp_receive hands out and those it moves to the front.
LEMMA SplitQueue ==
    ASSUME NEW q \in Seq(Nat), NEW n \in 0..Len(q)
    PROVE  /\ SubSeq(q, 1, n) \in Seq(Nat) /\ SubSeq(q, n + 1, Len(q)) \in Seq(Nat)
           /\ SubSeq(q, 1, n) \o SubSeq(q, n + 1, Len(q)) = q
           /\ Len(SubSeq(q, n + 1, Len(q))) <= Len(q)
<1>1. Len(q) \in Nat /\ n \in Nat /\ n <= Len(q)
  OBVIOUS
<1>2. SubSeq(q, 1, n) \in Seq(Nat) /\ SubSeq(q, n + 1, Len(q)) \in Seq(Nat)
  BY <1>1
<1>3. Len(SubSeq(q, n + 1, Len(q))) <= Len(q)
  BY <1>1
<1>4. CASE q = <<>>
  <2>1. Len(q) = 0 /\ n = 0
    BY <1>1, <1>4
  <2>2. SubSeq(q, 1, n) = <<>> /\ SubSeq(q, n + 1, Len(q)) = <<>>
    BY <2>1, SubSeqEmpty
  <2> QED
    BY <1>2, <1>3, <1>4, <2>2
<1>5. CASE q # <<>>
  <2>1. Len(q) >= 1
    BY <1>1, <1>5
  <2>2. SubSeq(q, 1, n) \o SubSeq(q, n + 1, Len(q)) = SubSeq(q, 1, Len(q))
    <3>1. PICK m, k : m = 1 /\ k = Len(q)
      OBVIOUS
    <3>2. m \in 1 .. Len(q) + 1 /\ n \in m - 1 .. Len(q) /\ k \in n .. Len(q)
      BY <1>1, <3>1
    <3>3. SubSeq(q, m, n) \o SubSeq(q, n + 1, k) = SubSeq(q, m, k)
      BY ONLY q \in Seq(Nat), <3>2, ConcatAdjacentSubSeq
    <3> QED
      BY ZenonT(40), <3>1, <3>3
  <2>3. SubSeq(q, 1, Len(q)) = q
    BY SubSeqFull
  <2> QED
    BY ZenonT(40), <1>2, <1>3, <2>2, <2>3
<1> QED
  BY ZenonT(40), <1>4, <1>5

\* A call that starts over, hands bytes to the application or closes.
LEMMA OwnStep ==
    ASSUME TcpInv, network_tcp_connect \/ ReceiveReturns \/ CloseReturns
    PROVE  TcpInv'
<1> USE DEF Closed, SynSent, Established, FinReceived, Reset
<1>1. StateSound(tcp, read) /\ TcpTypes /\ EndsAgree /\ ReportsTrue
  BY DEF TcpInv
<1>2. tcp \in TcpStates
  BY <1>1 DEF StateSound
<1>3. tcp.state \in {0, 1, 2, 4, -2} /\ tcp.remote_seq \in Nat /\ tcp.last_ack \in Nat
      /\ tcp.queue \in Seq(Nat) /\ Len(tcp.queue) \in Nat
  BY <1>2 DEF TcpStates
<1>4. Burst \in Nat /\ Stream \in Nat /\ QueueSize \in Nat /\ Capacity \in Nat \ {0} /\ Fragments \in Nat
  BY TcpAssumption
<1>5. CASE network_tcp_connect
  <2>1. /\ call' = [name |-> "connect", attempt |-> 0, left |-> 0]
        /\ peer.received = 0 /\ peer' = peer /\ read' = read /\ requests' = requests
        /\ tcp_result' = tcp_result /\ local_seq' = 1 /\ acked' = 0
        /\ tcp' = [state |-> 1, remote_seq |-> 0, queue |-> <<>>, last_ack |-> 0,
                   fragments |-> [i \in 1..Fragments |-> NoFragment], dropped |-> FALSE]
    BY <1>5 DEF network_tcp_connect, Begins, NotCalled
  <2>2. tcp.remote_seq = 0 /\ NothingCame /\ acked = 0 /\ peer.acked = 0
    BY <1>1, <1>3, <2>1 DEF EndsAgree, TcpTypes
  <2>3. NoFragment \in FragmentTypes
    BY DEF NoFragment, FragmentTypes
  <2>4. tcp' \in TcpStates /\ tcp'.state = 1 /\ tcp'.remote_seq = 0 /\ tcp'.queue = <<>>
        /\ tcp'.last_ack = 0 /\ ~tcp'.dropped /\ tcp'.fragments = [i \in 1..Fragments |-> NoFragment]
    BY <2>1, <2>3 DEF TcpStates
  <2>5. StateSound(tcp, read)'
    <3>1. \A i \in 1..Fragments : FragmentSound(tcp'.fragments[i], tcp'.remote_seq)
      BY <2>4 DEF FragmentSound
    <3>2. Bytes(1, Got(0)) = <<>>
      <4>1. Got(0) = -1
        BY <1>4 DEF Got
      <4> QED
        BY <4>1, BytesType
    <3>3. read' \o tcp'.queue = Bytes(1, Got(tcp'.remote_seq))
      BY <2>1, <2>2, <2>4, <3>2 DEF NothingCame
    <3> QED
      BY <1>4, <2>4, <3>1, <3>3 DEF StateSound
  <2>6. TcpTypes'
    <3>1. call' \in CallTypes
      BY <1>4, <2>1 DEF CallTypes
    <3> QED
      BY <1>1, <2>1, <3>1 DEF TcpTypes
  <2>7. EndsAgree'
    <3>1. NothingCame'
      BY <2>1, <2>2, <2>4 DEF NothingCame
    <3>2. call'.name = "connect"
      BY <2>1
    <3> QED
      BY <1>1, <2>1, <2>2, <2>4, <3>1, <3>2 DEF EndsAgree, TcpTypes
  <2>8. RoomForPoll'
    BY <2>1 DEF RoomForPoll
  <2>9. ReportsTrue'
    <3>1. ~tcp.dropped
      BY <2>2 DEF NothingCame
    <3> QED
      BY <1>1, <2>1, <3>1 DEF ReportsTrue
  <2> QED
    BY <2>5, <2>6, <2>7, <2>8, <2>9 DEF TcpInv
<1>6. CASE ReceiveReturns
  <2> DEFINE take == IF Len(tcp.queue) > Capacity THEN Capacity ELSE Len(tcp.queue)
             one == SubSeq(tcp.queue, 1, take)
             two == SubSeq(tcp.queue, take + 1, Len(tcp.queue))
  <2>1. /\ call.name = "receive" /\ call' = NotCalled /\ peer' = peer /\ requests' = requests
        /\ local_seq' = local_seq /\ acked' = acked
        /\ tcp_result' = <<"receive", IF take > 0 THEN 1 ELSE IF tcp.state = 4 THEN 0 ELSE -2>>
        /\ read' = read \o one
        /\ tcp' = [tcp EXCEPT !.queue = two]
    BY <1>6 DEF ReceiveReturns, CallReturns
  <2>2. take \in Nat /\ take <= Len(tcp.queue) /\ (take = 0 => Len(tcp.queue) = 0)
    BY <1>3, <1>4
  <2> HIDE DEF take
  <2>3. one \in Seq(Nat) /\ two \in Seq(Nat) /\ tcp.queue = one \o two /\ Len(two) <= Len(tcp.queue)
    <3>1. PICK q, n : q = tcp.queue /\ n = take
      OBVIOUS
    <3>2. q \in Seq(Nat) /\ n \in 0..Len(q)
      BY <1>3, <2>2, <3>1
    <3>3. /\ SubSeq(q, 1, n) \in Seq(Nat) /\ SubSeq(q, n + 1, Len(q)) \in Seq(Nat)
          /\ SubSeq(q, 1, n) \o SubSeq(q, n + 1, Len(q)) = q
          /\ Len(SubSeq(q, n + 1, Len(q))) <= Len(q)
      BY ONLY ZenonT(40), <3>2, SplitQueue
    <3> QED
      BY ZenonT(40), <3>1, <3>3
  <2> HIDE DEF one, two
  <2>4. tcp' \in TcpStates /\ tcp'.state = tcp.state /\ tcp'.remote_seq = tcp.remote_seq /\ tcp'.queue = two
        /\ tcp'.last_ack = tcp.last_ack /\ tcp'.dropped = tcp.dropped /\ tcp'.fragments = tcp.fragments
    BY ZenonT(40), <1>2, <2>1, <2>3 DEF TcpStates
  <2>5. read \in Seq(Nat) /\ read' \in Seq(Nat) /\ read' \o two = read \o tcp.queue
    <3>1. PICK r : r = read
      OBVIOUS
    <3>2. r \in Seq(Nat)
      BY <1>1, <3>1 DEF TcpTypes
    <3>3. r \o one \in Seq(Nat) /\ (r \o one) \o two = r \o (one \o two)
      BY SMTT(40), <2>3, <3>2, ConcatAssociative
    <3> QED
      BY <2>1, <2>3, <3>1, <3>2, <3>3
  <2>6. StateSound(tcp, read)'
    <3>1. \A i \in 1..Fragments : FragmentSound(tcp'.fragments[i], tcp'.remote_seq)
      BY <1>1, <2>4 DEF StateSound
    <3>2. ~tcp'.dropped => read' \o tcp'.queue = Bytes(1, Got(tcp'.remote_seq))
      BY <1>1, <2>4, <2>5 DEF StateSound
    <3>3. Len(tcp'.queue) <= QueueSize
      <4>1. Len(two) \in Nat /\ Len(tcp.queue) <= QueueSize
        BY <1>1, <2>3 DEF StateSound
      <4> QED
        BY <1>3, <1>4, <2>3, <2>4, <4>1
    <3> QED
      BY <1>1, <2>4, <3>1, <3>2, <3>3 DEF StateSound
  <2>7. TcpTypes'
    <3>1. call' \in CallTypes
      BY <1>4, <2>1 DEF CallTypes, NotCalled
    <3> QED
      BY <1>1, <2>1, <2>5, <3>1 DEF TcpTypes
  <2>8. EndsAgree'
    <3>1. tcp.remote_seq >= 1 /\ call'.name = "none"
      BY <1>1, <2>1 DEF EndsAgree, NotCalled
    <3> QED
      BY <1>1, <1>3, <2>1, <2>4, <3>1 DEF EndsAgree
  <2>9. RoomForPoll'
    BY <2>1 DEF RoomForPoll, NotCalled
  <2>10. ReportsTrue'
    <3>1. ASSUME ~tcp'.dropped, tcp_result' = <<"receive", 0>> PROVE read' = Bytes(1, Stream)
      <4>1. ~(take > 0) /\ tcp.state = 4
        BY <2>1, <3>1
      <4>2. tcp.remote_seq = Stream + 2
        BY <1>1, <4>1 DEF StateSound
      <4>3. Got(tcp.remote_seq) = Stream
        BY <1>4, <4>2 DEF Got
      <4>4. Len(two) = 0
        BY <1>3, <2>2, <2>3, <4>1
      <4>5. two = <<>>
        BY <2>3, <4>4
      <4>6. read' \o two = read'
        BY <2>5, <4>5
      <4>7. read \o tcp.queue = Bytes(1, Stream)
        BY <1>1, <2>4, <3>1, <4>3 DEF StateSound
      <4> QED
        BY ZenonT(40), <2>5, <4>6, <4>7
    <3>2. requests' < peer'.received \/ requests' = 0
      BY <1>1, <2>1 DEF ReportsTrue
    <3> QED
      BY <3>1, <3>2 DEF ReportsTrue
  <2> QED
    BY <2>6, <2>7, <2>8, <2>9, <2>10 DEF TcpInv
<1>7. CASE CloseReturns
  <2>1. /\ call' = NotCalled /\ peer' = peer /\ requests' = requests /\ read' = read
        /\ local_seq' = local_seq /\ acked' = acked /\ tcp_result' = <<"close", 1>>
        /\ tcp' = [tcp EXCEPT !.state = 0]
    BY <1>7 DEF CloseReturns, CallReturns
  <2>2. tcp' \in TcpStates /\ tcp'.state = 0 /\ tcp'.remote_seq = tcp.remote_seq /\ tcp'.queue = tcp.queue
        /\ tcp'.last_ack = tcp.last_ack /\ tcp'.dropped = tcp.dropped /\ tcp'.fragments = tcp.fragments
    BY <1>2, <2>1 DEF TcpStates
  <2>3. StateSound(tcp, read)'
    BY <1>1, <2>1, <2>2 DEF StateSound
  <2>4. TcpTypes'
    BY <1>1, <1>4, <2>1 DEF TcpTypes, CallTypes, NotCalled
  <2>5. EndsAgree'
    <3>1. NothingCame => NothingCame'
      BY <2>1, <2>2 DEF NothingCame
    <3>2. call'.name = "none"
      BY <2>1 DEF NotCalled
    <3> QED
      BY <1>1, <1>3, <2>1, <2>2, <3>1, <3>2 DEF EndsAgree
  <2>6. RoomForPoll'
    BY <2>1 DEF RoomForPoll, NotCalled
  <2>7. ReportsTrue'
    BY <1>1, <2>1 DEF ReportsTrue
  <2> QED
    BY <2>3, <2>4, <2>5, <2>6, <2>7 DEF TcpInv
<1> QED
  BY <1>5, <1>6, <1>7

\* A frame arrives.
LEMMA FrameStep ==
    ASSUME TcpInv, SynAckArrives \/ SegmentArrives \/ ResetArrives
    PROVE  TcpInv' /\ (call.name = "receive" => tcp'.dropped = tcp.dropped)
<1> USE DEF Closed, SynSent, Established, FinReceived, Reset
<1>1. StateSound(tcp, read) /\ TcpTypes /\ EndsAgree /\ RoomForPoll /\ ReportsTrue
  BY DEF TcpInv
<1>2. tcp \in TcpStates /\ read \in Seq(Nat)
  BY <1>1 DEF StateSound, TcpTypes
<1>3. tcp.state \in {0, 1, 2, 4, -2} /\ tcp.remote_seq \in Nat /\ tcp.last_ack \in Nat /\ Load(tcp) \in Nat
  BY <1>2, LoadType DEF TcpStates
<1>4. Burst \in Nat /\ Stream \in Nat /\ Mss \in Nat /\ QueueSize \in Nat /\ Window \in Nat
      /\ Requests \in Nat /\ Burst * Mss + Window <= QueueSize
  BY TcpAssumption
<1>5. call.left > 0 /\ call' = [call EXCEPT !.left = @ - 1]
  BY DEF SynAckArrives, SegmentArrives, ResetArrives, FrameTaken
<1>6. call.left \in 0..Burst
  BY <1>1 DEF TcpTypes, CallTypes
<1>7. call' \in CallTypes /\ call'.name = call.name /\ call'.left = call.left - 1
  <2>1. PICK k \in 0..Burst : k = call.left - 1
    BY <1>4, <1>5, <1>6
  <2>2. call \in CallTypes /\ call' = [call EXCEPT !.left = k]
    BY <1>1, <1>5, <2>1 DEF TcpTypes
  <2> QED
    BY <2>1, <2>2 DEF CallTypes
<1>8. peer' = peer /\ read' = read /\ requests' = requests /\ tcp_result' = tcp_result
  BY DEF SynAckArrives, SegmentArrives, ResetArrives
<1>9. peer.received \in Nat /\ peer.acked \in Nat /\ acked \in Nat /\ local_seq \in Nat /\ requests \in Nat
  BY <1>1 DEF TcpTypes
\* What the frame leaves of the room of a poll.
<1>10. PICK x \in Nat, y \in Nat :
         /\ call'.left * Mss = x - Mss /\ x >= Mss /\ y = Burst * Mss
         /\ call.name = "receive" => Load(tcp) + x <= y + Window
  <2>1. PICK n \in Nat : n = call.left /\ n >= 1
    BY <1>4, <1>5, <1>6
  <2>2. n * Mss \in Nat /\ (n - 1) * Mss = n * Mss - Mss /\ n * Mss >= Mss
    BY <1>4, <2>1, FrameLess
  <2>3. PICK x \in Nat : x = n * Mss
    BY <2>2
  <2>4. PICK y \in Nat : y = Burst * Mss
    BY <1>4
  <2>5. call.name = "receive" => Load(tcp) + x <= y + Window
    BY <1>1, <1>5, <2>1, <2>3, <2>4 DEF RoomForPoll
  <2>6. call'.left * Mss = x - Mss /\ x >= Mss
    BY <1>7, <2>1, <2>2, <2>3
  <2> QED
    BY <2>4, <2>5, <2>6
<1>10a. call.name = "receive" => Load(tcp) + Mss <= QueueSize
  BY <1>3, <1>4, <1>10
<1>10b. ASSUME tcp' \in TcpStates, call.name = "receive" => Load(tcp') <= Load(tcp) + Mss
        PROVE  RoomForPoll'
  <2> SUFFICES ASSUME call.name = "receive"
               PROVE  Load(tcp') + call'.left * Mss <= Burst * Mss + Window
    BY <1>7 DEF RoomForPoll
  <2>1. Load(tcp') \in Nat
    BY <1>10b, LoadType
  <2>2. Load(tcp') <= Load(tcp) + Mss /\ Load(tcp) + x <= y + Window
    BY <1>10, <1>10b
  <2>3. Load(tcp') + (x - Mss) <= y + Window
    BY <1>3, <1>4, <2>1, <2>2
  <2> QED
    BY <1>10, <2>3
\* The other parts of the invariant, from what the frame does to tcp.
<1>11. ASSUME tcp' \in TcpStates, ~tcp'.dropped => ~tcp.dropped,
              local_seq' \in Nat, acked' \in Nat,
              tcp'.last_ack <= peer.received, peer.acked <= acked' /\ acked' <= tcp'.remote_seq,
              tcp.remote_seq <= tcp'.remote_seq,
              peer.received = 0 => tcp'.remote_seq = 0,
              tcp'.state = 1 => tcp'.remote_seq = 0,
              tcp'.state >= 2 => tcp'.remote_seq >= 1,
              tcp'.remote_seq = 0 => NothingCame',
              call.name = "send" => local_seq' = requests + 2 /\ tcp'.state # 1
       PROVE  TcpTypes' /\ EndsAgree' /\ ReportsTrue'
  <2>1. TcpTypes'
    BY <1>1, <1>7, <1>8, <1>11 DEF TcpTypes
  <2>2. tcp'.remote_seq \in Nat
    BY <1>11 DEF TcpStates
  <2>3. call.name = "receive" => tcp'.remote_seq >= 1
    BY <1>1, <1>3, <1>11, <2>2 DEF EndsAgree
  <2>4. EndsAgree'
    BY <1>7, <1>8, <1>11, <2>3 DEF EndsAgree
  <2>5. ReportsTrue'
    BY <1>1, <1>8, <1>11 DEF ReportsTrue
  <2> QED
    BY <2>1, <2>4, <2>5
<1>12. CASE ResetArrives
  <2>1. tcp' = [tcp EXCEPT !.state = -2] /\ local_seq' = local_seq /\ acked' = acked
    BY <1>12 DEF ResetArrives
  <2>2. tcp' \in TcpStates /\ tcp'.state = -2 /\ tcp'.remote_seq = tcp.remote_seq /\ tcp'.queue = tcp.queue
        /\ tcp'.last_ack = tcp.last_ack /\ tcp'.dropped = tcp.dropped /\ tcp'.fragments = tcp.fragments
    BY ZenonT(40), <1>2, <2>1 DEF TcpStates
  <2>3. StateSound(tcp, read)'
    BY <1>1, <1>8, <2>2 DEF StateSound
  <2>4. NothingCame => NothingCame'
    BY <1>8, <2>2 DEF NothingCame
  <2>5. Covered(tcp') = Covered(tcp)
    BY <2>2, Zenon DEF Covered
  <2>6. Load(tcp') = Load(tcp)
    BY <2>2, <2>5, Zenon DEF Load
  <2>7. RoomForPoll'
    <3>1. Load(tcp') <= Load(tcp) + Mss
      BY <1>3, <1>4, <2>6
    <3> QED
      BY <1>10b, <2>2, <3>1
  <2>8. TcpTypes' /\ EndsAgree' /\ ReportsTrue'
    <3>1. /\ tcp.last_ack <= peer.received
          /\ peer.acked <= acked /\ acked <= tcp.remote_seq
          /\ peer.received = 0 => tcp.remote_seq = 0
          /\ tcp.remote_seq = 0 => NothingCame
          /\ call.name = "send" => local_seq = requests + 2
      BY <1>1 DEF EndsAgree
    <3> QED
      BY <1>3, <1>9, <1>11, <2>1, <2>2, <2>4, <3>1
  <2> QED
    BY <2>2, <2>3, <2>7, <2>8 DEF TcpInv
<1>13. CASE SynAckArrives /\ tcp.state = 1
  <2>1. /\ tcp' = [tcp EXCEPT !.state = 2, !.remote_seq = 1, !.last_ack = 1]
        /\ local_seq' = 1 /\ acked' = acked /\ peer.received >= 1
    BY <1>13 DEF SynAckArrives
  <2>2. tcp' \in TcpStates /\ tcp'.state = 2 /\ tcp'.remote_seq = 1 /\ tcp'.queue = tcp.queue
        /\ tcp'.last_ack = 1 /\ tcp'.dropped = tcp.dropped /\ tcp'.fragments = tcp.fragments
    BY ZenonT(40), <1>2, <2>1 DEF TcpStates
  <2>3. tcp.remote_seq = 0 /\ NothingCame /\ acked = 0 /\ peer.acked = 0
    BY <1>1, <1>9, <1>13 DEF EndsAgree
  <2>4. read = <<>> /\ tcp.queue = <<>> /\ \A i \in 1..Fragments : tcp.fragments[i] = NoFragment
    BY <2>3 DEF NothingCame
  <2>5. StateSound(tcp, read)'
    <3>1. \A i \in 1..Fragments : FragmentSound(tcp'.fragments[i], tcp'.remote_seq)
      BY <2>2, <2>4 DEF FragmentSound
    <3>2. Got(1) = 0
      BY <1>4 DEF Got
    <3>3. Bytes(1, 0) = <<>>
      BY BytesType
    <3>4. read' \o tcp'.queue = Bytes(1, Got(tcp'.remote_seq))
      BY <1>8, <2>2, <2>4, <3>2, <3>3
    <3>5. Len(tcp'.queue) <= QueueSize /\ tcp'.remote_seq <= Stream + 2
      BY <1>4, <2>2, <2>4
    <3> QED
      BY <2>2, <3>1, <3>4, <3>5 DEF StateSound
  <2>6. call.name # "receive" /\ call.name # "send"
    BY <1>1, <1>13, <2>3 DEF EndsAgree
  <2>7. RoomForPoll'
    BY <1>7, <2>6 DEF RoomForPoll
  <2>8. TcpTypes' /\ EndsAgree' /\ ReportsTrue'
    BY <1>9, <1>11, <2>1, <2>2, <2>3, <2>6
  <2> QED
    BY <2>5, <2>6, <2>7, <2>8 DEF TcpInv
<1>14. CASE SynAckArrives /\ tcp.state # 1
  <2>1. PICK t : t = [tcp EXCEPT !.last_ack = 1]
    BY ZenonT(40)
  <2>2. /\ tcp' = tcp_drain_fragments(t)
        /\ local_seq' = local_seq /\ acked' = tcp'.remote_seq /\ peer.received >= 1
    BY <1>14, <2>1 DEF SynAckArrives, tcp_send
  <2>3. /\ StateSound(t, read) /\ t.last_ack = 1 /\ t.state = tcp.state
        /\ t.remote_seq = tcp.remote_seq /\ t.dropped = tcp.dropped /\ Load(t) = Load(tcp)
        /\ t.fragments = tcp.fragments
    BY <1>1, <2>1, AckSound
  <2>4. Drained(t, tcp', read)
    BY <1>2, <2>2, <2>3, DrainSound
  <2>5. StateSound(tcp', read) /\ Follows(t, tcp')
    BY <2>4 DEF Drained
  <2>6. StateSound(tcp, read)'
    BY <1>8, <2>5
  <2>7. tcp' \in TcpStates /\ tcp'.remote_seq \in Nat /\ t \in TcpStates
    BY <2>3, <2>5 DEF StateSound, TcpStates
  <2>8. tcp.remote_seq <= tcp'.remote_seq /\ tcp'.last_ack = 1 /\ (tcp'.state = tcp.state \/ tcp'.state = 4)
    BY <2>3, <2>5 DEF Follows
  <2>9. call.name = "receive" => Load(tcp') <= Load(tcp) + Mss /\ tcp'.dropped = tcp.dropped
    <3>1. Load(tcp') \in Nat
      BY <2>7, LoadType
    <3>2. Load(tcp) + Mss <= QueueSize => Load(t) <= QueueSize
      BY <1>3, <1>4, <2>3
    <3>3. Load(t) <= QueueSize => Load(tcp') <= Load(t) /\ tcp'.dropped = t.dropped
      BY <2>4 DEF Drained
    <3>4. Load(tcp') <= Load(tcp) => Load(tcp') <= Load(tcp) + Mss
      BY <1>3, <1>4, <3>1
    <3> QED
      BY <1>10a, <2>3, <3>2, <3>3, <3>4
  <2>10. RoomForPoll'
    BY <1>10b, <2>7, <2>9
  <2>11. ASSUME tcp'.remote_seq = 0 PROVE NothingCame' /\ tcp'.dropped = tcp.dropped /\ tcp'.state = tcp.state
    <3>1. tcp.remote_seq = 0
      BY <1>3, <2>7, <2>8, <2>11
    <3>2. NothingCame
      BY <1>1, <3>1 DEF EndsAgree
    <3>3. \A i \in 1..Fragments : t.fragments[i] = NoFragment
      BY <2>3, <3>2 DEF NothingCame
    <3>4. tcp' = t
      BY <2>2, <3>3, DrainNothing
    <3>5. t.queue = tcp.queue
      BY <1>2, <2>1 DEF TcpStates
    <3> QED
      BY <1>8, <2>3, <3>2, <3>4, <3>5 DEF NothingCame
  <2>12. tcp'.state >= 2 => tcp'.remote_seq >= 1
    <3>1. tcp'.state = 4 => tcp'.remote_seq = Stream + 2
      BY <2>5 DEF StateSound
    <3>2. tcp.state >= 2 => tcp.remote_seq >= 1
      BY <1>1 DEF EndsAgree
    <3> QED
      BY <1>3, <1>4, <2>7, <2>8, <3>1, <3>2
  <2>13. ~tcp'.dropped => ~tcp.dropped
    BY <2>3, <2>5 DEF Follows
  <2>14. tcp'.state # 1
    BY <1>14, <2>8
  <2>15. /\ peer.acked <= acked'
         /\ call.name = "send" => local_seq = requests + 2
    <3>1. peer.acked <= acked /\ acked <= tcp.remote_seq /\ (call.name = "send" => local_seq = requests + 2)
      BY <1>1 DEF EndsAgree
    <3> QED
      BY <1>3, <1>9, <2>2, <2>7, <2>8, <3>1
  <2>16. TcpTypes' /\ EndsAgree' /\ ReportsTrue'
    <3>1. acked' \in Nat /\ acked' <= tcp'.remote_seq /\ tcp'.last_ack <= peer.received /\ peer.received # 0
      BY <1>9, <2>2, <2>7, <2>8
    <3> QED
      BY <1>9, <1>11, <2>2, <2>7, <2>8, <2>11, <2>12, <2>13, <2>14, <2>15, <3>1
  <2> QED
    BY <2>6, <2>9, <2>10, <2>16 DEF TcpInv
<1>15. CASE SegmentArrives
  <2>1. PICK s \in Segments : tcp' = tcp_receive(tcp, s)
    BY <1>15 DEF SegmentArrives
  <2>2. acked' = tcp'.remote_seq /\ local_seq' = local_seq
    BY <1>15 DEF SegmentArrives, tcp_send
  <2>3. /\ s \in [seq : 1..Stream + 1, len : 0..Mss, fin : BOOLEAN, ack : 1..Requests + 2]
        /\ peer.acked >= 1 /\ s.ack <= peer.received /\ s.seq + s.len <= Stream + 1
        /\ s.seq + s.len <= peer.acked + Window /\ (s.fin => s.seq + s.len = Stream + 1)
    BY DEF Segments
  <2>4. peer.acked <= acked /\ acked <= tcp.remote_seq
    BY <1>1 DEF EndsAgree
  <2>5. s.seq \in Nat /\ s.len \in Nat /\ s.fin \in BOOLEAN /\ s.ack \in Nat /\ s.seq >= 1 /\ s.len <= Mss
    BY <1>4, <2>3
  <2>6. tcp.remote_seq >= 1 /\ s.seq + s.len <= tcp.remote_seq + Window /\ peer.received # 0
    BY <1>1, <1>3, <1>4, <1>9, <2>3, <2>4, <2>5 DEF EndsAgree
  <2>7. SegmentSound(s, tcp.remote_seq)
    <3>1. s \in [seq : Nat, len : Nat, fin : BOOLEAN, ack : Nat]
      BY <2>3, <2>5
    <3>2. PICK f : f = [seq |-> s.seq, len |-> s.len, fin |-> s.fin]
      BY ZenonT(40)
    <3>3. f.seq = s.seq /\ f.len = s.len /\ f.fin = s.fin
      BY <3>2
    <3>4. FragmentSound(f, tcp.remote_seq)
      BY <2>3, <2>5, <2>6, <3>3, Zenon DEF FragmentSound
    <3> QED
      BY <2>3, <2>5, <2>6, <3>1, <3>2, <3>4, Zenon DEF SegmentSound
  <2>8. Received(tcp, s, tcp', read)
    BY <1>1, <1>2, <2>1, <2>6, <2>7, ReceiveSound
  <2>9. /\ StateSound(tcp', read) /\ tcp.remote_seq <= tcp'.remote_seq /\ tcp'.last_ack = s.ack
        /\ (tcp'.state = tcp.state \/ tcp'.state = 4)
        /\ Load(tcp) + Mss <= QueueSize => Load(tcp') <= Load(tcp) + Mss /\ tcp'.dropped = tcp.dropped
    BY <2>8 DEF Received
  <2>10. StateSound(tcp, read)'
    BY <1>8, <2>9
  <2>11. tcp' \in TcpStates /\ tcp'.remote_seq \in Nat
    BY <2>9 DEF StateSound, TcpStates
  <2>12. call.name = "receive" => Load(tcp') <= Load(tcp) + Mss /\ tcp'.dropped = tcp.dropped
    BY <1>10a, <2>9
  <2>13. RoomForPoll'
    BY <1>10b, <2>11, <2>12
  <2>14. tcp'.remote_seq >= 1
    BY <1>3, <2>6, <2>9, <2>11
  <2>15. ~tcp'.dropped => ~tcp.dropped
    BY <2>8 DEF Received
  <2>16. tcp'.state # 1
    <3>1. tcp.state # 1
      BY <1>1, <2>6 DEF EndsAgree
    <3> QED
      BY <2>9, <3>1
  <2>17. peer.acked <= acked' /\ acked' \in Nat /\ acked' <= tcp'.remote_seq
    BY <1>3, <1>9, <2>2, <2>4, <2>9, <2>11
  <2>18. call.name = "send" => local_seq = requests + 2
    BY <1>1 DEF EndsAgree
  <2>19. TcpTypes' /\ EndsAgree' /\ ReportsTrue'
    <3>1. tcp'.remote_seq # 0 /\ tcp'.last_ack <= peer.received
      BY <2>3, <2>9, <2>11, <2>14
    <3> QED
      BY <1>9, <1>11, <2>2, <2>6, <2>9, <2>11, <2>14, <2>15, <2>16, <2>17, <2>18, <3>1
  <2> QED
    BY <2>10, <2>12, <2>13, <2>19 DEF TcpInv
<1> QED
  BY <1>12, <1>13, <1>14, <1>15

\* Every step keeps the invariant, and no step drops a byte under a receive.
LEMMA TcpInvStep ==
    ASSUME TcpInv, [TcpNext]_connection
    PROVE  TcpInv' /\ (call.name = "receive" => tcp'.dropped = tcp.dropped)
<1>1. CASE \/ network_tcp_send \/ network_tcp_receive \/ network_tcp_close \/ ConnectReturns
           \/ SendReturns \/ Cancelled \/ Poll \/ PollEnds \/ PeerReceives
  <2>1. TcpInv'
    BY <1>1, QuietStep
  <2>2. tcp' = tcp
    BY <1>1 DEF network_tcp_send, network_tcp_receive, network_tcp_close, ConnectReturns,
                SendReturns, Cancelled, Poll, PollEnds, PeerReceives
  <2> QED
    BY <2>1, <2>2
<1>2. CASE network_tcp_connect \/ ReceiveReturns \/ CloseReturns
  <2>1. TcpInv'
    BY <1>2, OwnStep
  <2>2. call.name = "receive" => tcp'.dropped = tcp.dropped
    <3>1. tcp \in TcpStates
      BY DEF TcpInv, StateSound
    <3>2. CASE network_tcp_connect
      BY <3>2 DEF network_tcp_connect, Begins, NotCalled
    <3>3. CASE ReceiveReturns
      <4>1. PICK q : tcp' = [tcp EXCEPT !.queue = q]
        BY ZenonT(40), <3>3 DEF ReceiveReturns
      <4> QED
        BY <3>1, <4>1 DEF TcpStates
    <3>4. CASE CloseReturns
      BY <3>1, <3>4 DEF CloseReturns, TcpStates
    <3> QED
      BY <1>2, <3>2, <3>3, <3>4
  <2> QED
    BY <2>1, <2>2
<1>3. CASE SynAckArrives \/ SegmentArrives \/ ResetArrives
  BY <1>3, FrameStep
<1>4. CASE UNCHANGED connection
  <2>1. /\ tcp' = tcp /\ local_seq' = local_seq /\ acked' = acked /\ call' = call
        /\ requests' = requests /\ read' = read /\ tcp_result' = tcp_result /\ peer' = peer
    BY <1>4 DEF connection
  <2>2. StateSound(tcp, read)'
    BY <2>1 DEF TcpInv
  <2>3. TcpTypes' /\ EndsAgree' /\ RoomForPoll' /\ ReportsTrue'
    BY <2>1 DEF TcpInv, TcpTypes, EndsAgree, NothingCame, RoomForPoll, ReportsTrue
  <2> QED
    BY <2>1, <2>2, <2>3 DEF TcpInv
<1> QED
  BY <1>1, <1>2, <1>3, <1>4 DEF TcpNext

\* The invariant says what StreamIntact says.
LEMMA TcpInvSays == TcpInv => StreamIntact
BY DEF TcpInv, StateSound, Got, ReportsTrue, StreamIntact

\* However segments are lost, repeated or reordered, what network_tcp_receive
\* has handed out and what tcp_queue holds are the bytes acknowledged so far, in
\* order and each once, unless tcp_append has dropped one; the end of the stream
\* is reported only after its last byte, and a chunk only once it has arrived.
THEOREM StreamIntactAlways == TcpSpec => []StreamIntact
<1>1. TcpInit => TcpInv
  BY TcpInvInit
<1>2. TcpInv /\ [TcpNext]_connection => TcpInv'
  BY TcpInvStep
<1>3. TcpInv => StreamIntact
  BY TcpInvSays
<1> QED
  BY <1>1, <1>2, <1>3, PTL DEF TcpSpec

\* tcp_append never drops a byte while network_tcp_receive polls, for every
\* queue that has room for one poll of segments and one window.
THEOREM ReceiveDropsNothingAlways == TcpSpec => ReceiveDropsNothing
<1>1. TcpInit => TcpInv
  BY TcpInvInit
<1>2. TcpInv /\ [TcpNext]_connection => TcpInv'
  BY TcpInvStep
<1>3. TcpInv /\ [TcpNext]_connection =>
        [call.name = "receive" => (tcp'.dropped = tcp.dropped)]_connection
  BY TcpInvStep
<1> QED
  BY <1>1, <1>2, <1>3, PTL DEF TcpSpec, ReceiveDropsNothing

=============================================================================
