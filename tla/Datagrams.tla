----------------------------- MODULE Datagrams ------------------------------
(***************************************************************************)
(* The calls of kernel/net/net.c that ask with one packet and wait for the *)
(* answer: ARP (resolve_next_hop), network_ping and network_resolve.  Any  *)
(* answer may be lost, repeated, late or out of order, as long as it is    *)
(* not older than Age questions.  Frames are seen in network_poll only, a  *)
(* burst at a time, so that several may come before a caller looks.        *)
(***************************************************************************)
EXTENDS Naturals

CONSTANTS
    Hosts,          \* addresses of the local network, as numbers, gateway included
    dns_server, gateway,
    Slots,          \* of neighbors
    Width,          \* identifiers are counted modulo this
    Age, MaxAsked   \* how late an answer may come; bound on the questions

ASSUME DatagramsAssumption ==
    /\ {Slots, MaxAsked, Age} \subseteq Nat /\ Hosts \subseteq Nat /\ {dns_server, gateway} \subseteq Nat
    /\ Width \in Nat /\ Width > 1 /\ Age < Width

VARIABLES
    neighbors,      \* slot |-> address, or None
    asked,          \* [ping, dns]: how many questions were sent
    sequence, reply_sequence, ping_error,
    dns_reply_id, dns_reply_status, dns_reply_address,
    waiting,        \* the call in progress and what it waits for
    echoed,         \* the number of the ping the last echo answers
    refused,        \* how many pings were sent when an ICMP destination unreachable came last
    told,           \* the number of the query dns_reply_status is about
    answer          \* what the last call returned

datagrams == <<neighbors, asked, sequence, reply_sequence, ping_error, dns_reply_id,
               dns_reply_status, dns_reply_address, waiting, echoed, refused, told, answer>>
ping == <<sequence, reply_sequence, ping_error, echoed, refused>>
dns == <<dns_reply_id, dns_reply_status, dns_reply_address, told>>

None == Slots + 1000
Slot == 0..Slots - 1
NoCall == [op |-> "none", to |-> None, wait |-> "none"]

next_hop(to) == IF to \in Hosts THEN to ELSE gateway

-----------------------------------------------------------------------------
(* The neighbours: the entry of the address, a free one, or the one its    *)
(* last bits name.                                                         *)

neighbor_find(a) == \E i \in Slot : neighbors[i] = a

neighbor_store(a) ==
    LET free == {i \in Slot : neighbors[i] = None}
        i == IF free # {} THEN CHOOSE j \in free : \A k \in free : j <= k ELSE a % Slots
    IN  neighbors' = IF neighbor_find(a) THEN neighbors ELSE [neighbors EXCEPT ![i] = a]

-----------------------------------------------------------------------------
(* The calls                                                               *)

Returns(r) == waiting' = NoCall /\ answer' = r

\* Mutant: an earlier error is not cleared.
SendAfterError ==
    /\ sequence' = (sequence + 1) % Width /\ reply_sequence' = 0 /\ UNCHANGED ping_error /\ echoed' = 0 /\ refused' = refused
    /\ asked' = [asked EXCEPT !.ping = @ + 1]
    /\ UNCHANGED dns

\* The question goes out, and what an earlier answer has left is cleared.
SendPing ==
    /\ sequence' = (sequence + 1) % Width /\ reply_sequence' = 0 /\ ping_error' = FALSE /\ echoed' = 0 /\ refused' = refused
    /\ asked' = [asked EXCEPT !.ping = @ + 1]
    /\ UNCHANGED dns

NextId == IF (dns_reply_id + 1) % Width = 0 THEN 1 ELSE dns_reply_id + 1

SendQuery ==
    /\ dns_reply_id' = NextId /\ dns_reply_status' = 0 /\ dns_reply_address' = 0 /\ told' = told
    /\ asked' = [asked EXCEPT !.dns = @ + 1]
    /\ UNCHANGED ping

Send(op) == IF op = "ping" THEN SendPing ELSE SendQuery
Silent == UNCHANGED <<asked, ping, dns>>

\* network_ping and network_resolve, up to their first wait.
Ask(op, to) ==
    /\ waiting.op = "none" /\ asked[op] < MaxAsked
    /\ IF neighbor_find(next_hop(to))
       THEN waiting' = [op |-> op, to |-> to, wait |-> "answer"] /\ Send(op)
       ELSE waiting' = [op |-> op, to |-> to, wait |-> "arp"] /\ Silent
    /\ answer' = [op |-> "none"]
    /\ UNCHANGED neighbors

network_ping(address) == Ask("ping", address)
network_resolve == Ask("dns", dns_server)

\* resolve_next_hop sees the entry, or gives up: the spins are over, or Ctrl+C was pressed.
HopFound ==
    /\ waiting.wait = "arp" /\ neighbor_find(next_hop(waiting.to))
    /\ waiting' = [waiting EXCEPT !.wait = "answer"] /\ Send(waiting.op)
    /\ UNCHANGED <<neighbors, answer>>

HopMissing ==
    /\ waiting.wait = "arp" /\ ~neighbor_find(next_hop(waiting.to))
    /\ Returns([op |-> waiting.op, value |-> "no_route"])
    /\ Silent /\ UNCHANGED neighbors

\* network_ping returns: an error, the echo it waited for, or nothing for too long.
PingReturns ==
    /\ waiting.wait = "answer" /\ waiting.op = "ping"
    /\ Returns([op |-> "ping", value |-> IF ping_error THEN "unreachable"
                                         ELSE IF reply_sequence = sequence THEN "echo" ELSE "timeout",
                of |-> IF ping_error THEN refused ELSE echoed])
    /\ Silent /\ UNCHANGED neighbors

\* network_resolve returns: its status and address, or nothing for too long or until Ctrl+C.
ResolveReturns ==
    /\ waiting.wait = "answer" /\ waiting.op = "dns"
    /\ Returns([op |-> "dns", value |-> IF dns_reply_status = 1 THEN "address"
                                        ELSE IF dns_reply_status = 0 THEN "timeout" ELSE "error",
                of |-> IF dns_reply_status = 1 THEN dns_reply_address ELSE told])
    /\ Silent /\ UNCHANGED neighbors

-----------------------------------------------------------------------------
(* process: the frames                                                     *)

Recent(op) == {n \in 1..asked[op] : n + Age > asked[op]}
Untouched == UNCHANGED <<asked, waiting, answer>>

\* Any ARP packet of a host, whether it was asked for or not.
Arp(h) == neighbor_store(h) /\ Untouched /\ UNCHANGED <<ping, dns>>

Echo(n) ==
    /\ reply_sequence' = n % Width /\ echoed' = n
    /\ Untouched /\ UNCHANGED <<neighbors, sequence, ping_error, refused, dns>>

\* process takes every ICMP destination unreachable for an answer to the ping, whichever
\* packet it is about.
Unreachable ==
    /\ Recent("ping") \cup Recent("dns") # {} /\ ping_error' = TRUE /\ refused' = asked.ping
    /\ Untouched /\ UNCHANGED <<neighbors, sequence, reply_sequence, echoed, dns>>

\* The identifier that query n had, counted from 1 and never 0.
IdOf(n) == ((n - 1) % (Width - 1)) + 1

\* Mutant: any answer will do.
ReceiveAny(id, n, status) ==
    /\ dns_reply_status' = status /\ told' = n
    /\ dns_reply_address' = IF status = 1 THEN n ELSE dns_reply_address

\* dns_receive: the address, or an error of the server or of the packet, for this query only.
dns_receive(id, n, status) ==
    IF id # dns_reply_id THEN UNCHANGED <<dns_reply_status, dns_reply_address, told>>
    ELSE /\ dns_reply_status' = status /\ told' = n
         /\ dns_reply_address' = IF status = 1 THEN n ELSE dns_reply_address

\* The address in the answer to query n is stood for by n.
Answer(n) ==
    /\ \E status \in {1, 3} : dns_receive(IdOf(n), n, status)
    /\ Untouched /\ UNCHANGED <<neighbors, ping, dns_reply_id>>

DatagramsInit ==
    /\ neighbors = [i \in Slot |-> None] /\ asked = [ping |-> 0, dns |-> 0]
    /\ sequence = 0 /\ reply_sequence = 0 /\ ping_error = FALSE /\ echoed = 0 /\ refused = 0
    /\ dns_reply_id = 0 /\ dns_reply_status = 0 /\ dns_reply_address = 0 /\ told = 0
    /\ waiting = NoCall /\ answer = [op |-> "none"]

DatagramsNext ==
    \/ \E a \in Hosts \cup {None} : network_ping(a)
    \/ network_resolve \/ HopFound \/ HopMissing \/ PingReturns \/ ResolveReturns
    \/ \E h \in Hosts : Arp(h)
    \/ \E n \in Recent("ping") : Echo(n)
    \/ Unreachable
    \/ \E n \in Recent("dns") : Answer(n)

DatagramsSpec == DatagramsInit /\ [][DatagramsNext]_datagrams

-----------------------------------------------------------------------------
\* The echo that a ping returns, and the address or the error that a lookup returns, answer the
\* question of that very call, although answers to earlier questions arrive before, between and
\* after, and the identifiers wrap.  "Unreachable" is weaker: the message came after the ping
\* was sent, but may be about an earlier packet.  The ping whose sequence number wraps to 0 is
\* left out: it counts as answered before it is sent.
AnswersTrue ==
    /\ answer.op = "dns" /\ answer.value \in {"address", "error"} => answer.of = asked.dns
    /\ answer.op = "ping" /\ answer.value = "echo" /\ sequence # 0 => answer.of = asked.ping
    /\ answer.op = "ping" /\ answer.value = "unreachable" => answer.of = asked.ping
=============================================================================
