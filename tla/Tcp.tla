-------------------------------- MODULE Tcp ---------------------------------
(***************************************************************************)
(* The TCP client of kernel/net/net.c against a peer over a network that   *)
(* loses, repeats, delays and reorders segments.  The client is polled: it *)
(* sees frames only inside network_poll, up to Burst at a time, while one  *)
(* of its calls waits.  Sequence numbers are counted from the initial      *)
(* ones, so that the byte number i of the peer's stream is the number i.   *)
(***************************************************************************)
EXTENDS Integers, Sequences

CONSTANTS
    Stream,         \* bytes the peer sends before its FIN
    Requests,       \* chunks the client sends
    Mss,            \* bytes of a segment
    Window,         \* the window the client advertises, whatever its queue holds
    QueueSize,      \* sizeof tcp_queue
    Fragments,      \* slots of tcp_fragments
    Burst,          \* frames of one network_poll
    Capacity,       \* buffer of the application
    Attempts        \* transmissions of a chunk

ASSUME TcpAssumption ==
    /\ {Stream, Requests} \subseteq Nat
    /\ {Mss, Window, QueueSize, Fragments, Burst, Capacity, Attempts} \subseteq Nat \ {0}
    /\ Burst * Mss + Window <= QueueSize      \* 16 * 1460 + 4096 <= 32768

Closed == 0
SynSent == 1
Established == 2
FinReceived == 4
Reset == -2

NoFragment == [seq |-> 0, len |-> 0, fin |-> FALSE]

VARIABLES
    tcp,            \* what tcp_receive changes: state, remote_seq, queue, fragments,
                    \* last_ack, and whether a byte was ever dropped
    local_seq,      \* tcp_local_seq
    acked,          \* the last acknowledgement the client has sent
    call,           \* the call in progress: its name, the attempt, frames left in this poll
    requests,       \* chunks network_tcp_send has reported as sent
    read,           \* bytes the application has read
    tcp_result,     \* what the last call returned
    peer            \* external: what the peer has received and seen acknowledged

connection == <<tcp, local_seq, acked, call, requests, read, tcp_result, peer>>

-----------------------------------------------------------------------------
(* tcp_receive                                                             *)

Bytes(seq, len) == [i \in 1..len |-> seq + i - 1]

\* Bytes that do not fit in the queue are dropped, and acknowledged.
tcp_append(t, seq, len) ==
    LET room == QueueSize - Len(t.queue)
        take == IF len > room THEN room ELSE len
    IN  [t EXCEPT !.queue = @ \o Bytes(seq, take), !.remote_seq = @ + len,
                  !.dropped = @ \/ take < len]

Fin(t, fin) == IF fin THEN [t EXCEPT !.remote_seq = @ + 1, !.state = FinReceived] ELSE t

tcp_store_fragment(t, seq, len, fin) ==
    LET free == {i \in 1..Fragments : t.fragments[i] = NoFragment}
    IN  IF free = {} \/ \E i \in 1..Fragments : t.fragments[i].seq = seq THEN t
        ELSE [t EXCEPT !.fragments[CHOOSE i \in free : \A j \in free : i <= j] =
                         [seq |-> seq, len |-> len, fin |-> fin]]

\* One turn of the loop of tcp_drain_fragments.
DrainOne(t) ==
    LET next == {i \in 1..Fragments : t.fragments[i] # NoFragment /\ t.fragments[i].seq = t.remote_seq}
        i == CHOOSE k \in next : \A j \in next : k <= j
        f == t.fragments[i]
    IN  IF next = {} THEN t
        ELSE [Fin(tcp_append(t, f.seq, f.len), f.fin) EXCEPT !.fragments[i] = NoFragment]

tcp_drain_fragments(t) ==
    LET after[n \in 0..Fragments] == IF n = 0 THEN t ELSE DrainOne(after[n - 1])
    IN  after[Fragments]

\* Mutant: a segment from the past is taken as well.
InOrderLoose(t, s) == s.seq <= t.remote_seq

InOrder(t, s) == s.seq = t.remote_seq

\* A data, FIN or plain acknowledgement segment.
tcp_receive(t, s) ==
    LET u == [t EXCEPT !.last_ack = s.ack]
        carries == s.len > 0 \/ s.fin
    IN  IF carries /\ ~InOrder(u, s)
        THEN IF s.seq > u.remote_seq THEN tcp_store_fragment(u, s.seq, s.len, s.fin) ELSE u
        ELSE tcp_drain_fragments(Fin(IF s.len > 0 THEN tcp_append(u, s.seq, s.len) ELSE u, s.fin))

-----------------------------------------------------------------------------
(* The peer and the network.  A segment the peer could have sent may arrive *)
(* now, again, or never.                                                   *)

Segments ==
    {s \in [seq : 1..Stream + 1, len : 0..Mss, fin : BOOLEAN, ack : 1..Requests + 2] :
        /\ peer.acked >= 1                     \* the handshake is complete
        /\ s.ack <= peer.received
        /\ s.seq + s.len <= Stream + 1
        /\ s.seq + s.len <= peer.acked + Window
        /\ s.fin => s.seq + s.len = Stream + 1}

\* The next segment of the client arrives, or an acknowledgement does.
PeerReceives ==
    /\ \/ peer.received < local_seq /\ peer' = [peer EXCEPT !.received = @ + 1]
       \/ peer.acked < acked /\ peer' = [peer EXCEPT !.acked = acked]
    /\ UNCHANGED <<tcp, local_seq, acked, call, requests, read, tcp_result>>

-----------------------------------------------------------------------------
(* network_poll                                                            *)

Waiting == call.name # "none"

\* Mutant: the receive loop goes on while there is room for more.
SpinsOn ==
    CASE call.name = "connect" -> tcp.state = SynSent
      [] call.name = "send"    -> tcp.state = Established /\ tcp.last_ack < local_seq
      [] call.name = "receive" -> tcp.state >= Established
      [] OTHER -> FALSE

\* The loop condition of the call in progress.
Spins ==
    CASE call.name = "connect" -> tcp.state = SynSent
      [] call.name = "send"    -> tcp.state = Established /\ tcp.last_ack < local_seq
      [] call.name = "receive" -> tcp.queue = <<>> /\ tcp.state >= Established
      [] call.name = "close"   -> tcp.state < FinReceived /\ call.attempt = 1
      [] OTHER -> FALSE

Poll ==
    /\ Waiting /\ call.left = 0 /\ Spins
    /\ call' = [call EXCEPT !.left = Burst]
    /\ UNCHANGED <<tcp, local_seq, acked, requests, read, tcp_result, peer>>

\* No further frame, now or in this poll.
PollEnds ==
    /\ call.left > 0
    /\ call' = [call EXCEPT !.left = 0]
    /\ UNCHANGED <<tcp, local_seq, acked, requests, read, tcp_result, peer>>

FrameTaken == call.left > 0 /\ call' = [call EXCEPT !.left = @ - 1]

\* A segment that goes out acknowledges all that has come in.
tcp_send(t) == acked' = t.remote_seq

\* A SYN+ACK is acknowledged only when it comes a second time.
SynAckArrives ==
    /\ FrameTaken /\ peer.received >= 1
    /\ IF tcp.state = SynSent
       THEN /\ tcp' = [tcp EXCEPT !.state = Established, !.remote_seq = 1, !.last_ack = 1]
            /\ local_seq' = 1 /\ acked' = acked
       ELSE /\ tcp' = tcp_drain_fragments([tcp EXCEPT !.last_ack = 1])
            /\ local_seq' = local_seq /\ tcp_send(tcp')
    /\ UNCHANGED <<requests, read, tcp_result, peer>>

SegmentArrives ==
    /\ FrameTaken
    /\ \E s \in Segments : tcp' = tcp_receive(tcp, s)
    /\ tcp_send(tcp')
    /\ UNCHANGED <<local_seq, requests, read, tcp_result, peer>>

ResetArrives ==
    /\ FrameTaken /\ peer.received >= 1
    /\ tcp' = [tcp EXCEPT !.state = Reset]
    /\ UNCHANGED <<local_seq, acked, requests, read, tcp_result, peer>>

-----------------------------------------------------------------------------
(* The calls                                                               *)

NotCalled == [name |-> "none", attempt |-> 0, left |-> 0]

Begins(name) == call = NotCalled /\ call' = [NotCalled EXCEPT !.name = name]
CallReturns(name, r) == call.name = name /\ call.left = 0 /\ call' = NotCalled /\ tcp_result' = <<name, r>>

network_tcp_connect ==
    /\ Begins("connect") /\ tcp.state = Closed /\ peer.received = 0
    /\ tcp' = [state |-> SynSent, remote_seq |-> 0, queue |-> <<>>, last_ack |-> 0,
               fragments |-> [i \in 1..Fragments |-> NoFragment], dropped |-> FALSE]
    /\ local_seq' = 1 /\ acked' = 0
    /\ UNCHANGED <<requests, read, tcp_result, peer>>

\* A loop ends on its condition or when its spins are used up.
ConnectReturns ==
    /\ CallReturns("connect", IF tcp.state = Established THEN 1
                              ELSE IF tcp.state = Reset THEN -5 ELSE -4)
    /\ UNCHANGED <<tcp, local_seq, acked, requests, read, peer>>

\* One chunk.  No caller sends again after a chunk that failed.
network_tcp_send ==
    /\ call = NotCalled /\ tcp.state = Established
    /\ requests < Requests /\ local_seq = requests + 1
    /\ call' = [NotCalled EXCEPT !.name = "send", !.attempt = 1]
    /\ local_seq' = local_seq + 1 /\ tcp_send(tcp)
    /\ UNCHANGED <<tcp, requests, read, tcp_result, peer>>

\* Mutant: giving up counts as success.
SendReturnsAlways ==
    /\ IF call.attempt < Attempts
       THEN /\ call.name = "send" /\ call.left = 0 /\ tcp.last_ack < local_seq
            /\ call' = [call EXCEPT !.attempt = @ + 1]
            /\ UNCHANGED <<requests, tcp_result>>
       ELSE CallReturns("send", 1) /\ requests' = requests + 1
    /\ UNCHANGED <<tcp, local_seq, acked, read, peer>>

\* Acknowledged; or the spins are used up, for another attempt or for good.
SendReturns ==
    /\ \/ CallReturns("send", 1) /\ tcp.last_ack >= local_seq /\ requests' = requests + 1
       \/ CallReturns("send", -2) /\ tcp.last_ack < local_seq /\ call.attempt = Attempts
          /\ requests' = requests
       \/ /\ call.name = "send" /\ call.left = 0 /\ tcp.last_ack < local_seq
          /\ call.attempt < Attempts
          /\ call' = [call EXCEPT !.attempt = @ + 1]
          /\ UNCHANGED <<requests, tcp_result>>
    /\ UNCHANGED <<tcp, local_seq, acked, read, peer>>

network_tcp_receive ==
    /\ Begins("receive") /\ tcp.state >= Established
    /\ UNCHANGED <<tcp, local_seq, acked, requests, read, tcp_result, peer>>

\* Mutant: the end of the stream is reported before the queue is empty.
ReceiveReturnsEarly ==
    LET take == IF Len(tcp.queue) > Capacity THEN Capacity ELSE Len(tcp.queue)
    IN  /\ CallReturns("receive", IF tcp.state = FinReceived THEN 0 ELSE IF take > 0 THEN 1 ELSE -2)
        /\ read' = read \o SubSeq(tcp.queue, 1, take)
        /\ tcp' = [tcp EXCEPT !.queue = SubSeq(@, take + 1, Len(@))]
        /\ UNCHANGED <<local_seq, acked, requests, peer>>

ReceiveReturns ==
    LET take == IF Len(tcp.queue) > Capacity THEN Capacity ELSE Len(tcp.queue)
    IN  /\ CallReturns("receive", IF take > 0 THEN 1 ELSE IF tcp.state = FinReceived THEN 0 ELSE -2)
        /\ read' = read \o SubSeq(tcp.queue, 1, take)
        /\ tcp' = [tcp EXCEPT !.queue = SubSeq(@, take + 1, Len(@))]
        /\ UNCHANGED <<local_seq, acked, requests, peer>>

\* process_cancel_requested, looked at before every poll but those of a close.
Cancelled ==
    /\ call.name \in {"connect", "send", "receive"} /\ Spins
    /\ CallReturns(call.name, IF call.name = "connect" THEN -6 ELSE -3)
    /\ UNCHANGED <<tcp, local_seq, acked, requests, read, peer>>

network_tcp_close ==
    /\ call = NotCalled /\ tcp.state # Closed
    /\ LET open == tcp.state = Established
       IN  /\ call' = [name |-> "close", attempt |-> IF open THEN 1 ELSE 0, left |-> 0]
           /\ local_seq' = IF open THEN local_seq + 1 ELSE local_seq
           /\ IF open THEN tcp_send(tcp) ELSE acked' = acked
    /\ UNCHANGED <<tcp, requests, read, tcp_result, peer>>

CloseReturns ==
    /\ CallReturns("close", 1)
    /\ tcp' = [tcp EXCEPT !.state = Closed]
    /\ UNCHANGED <<local_seq, acked, requests, read, peer>>

-----------------------------------------------------------------------------
(* The specification                                                       *)

TcpInit ==
    /\ tcp = [state |-> Closed, remote_seq |-> 0, queue |-> <<>>, last_ack |-> 0,
              fragments |-> [i \in 1..Fragments |-> NoFragment], dropped |-> FALSE]
    /\ local_seq = 0 /\ acked = 0
    /\ call = NotCalled /\ requests = 0 /\ read = <<>> /\ tcp_result = <<"none", 0>>
    /\ peer = [received |-> 0, acked |-> 0]

TcpNext ==
    \/ network_tcp_connect \/ network_tcp_send \/ network_tcp_receive \/ network_tcp_close
    \/ ConnectReturns \/ SendReturns \/ ReceiveReturns \/ CloseReturns
    \/ Cancelled \/ Poll \/ PollEnds \/ SynAckArrives \/ SegmentArrives \/ ResetArrives \/ PeerReceives

TcpSpec == TcpInit /\ [][TcpNext]_connection

-----------------------------------------------------------------------------
(* Properties                                                              *)

\* Whatever the network repeats or reorders, what was read and what is queued
\* are the peer's bytes acknowledged so far, in order and each once, and
\* network_tcp_receive says 0 only after the last of them.  Both hold until
\* tcp_append drops a byte, which it may do while another call than receive
\* polls (ReceiveDropsNothing).  A chunk that network_tcp_send
\* reports as sent has been received.
StreamIntact ==
    /\ ~tcp.dropped =>
          read \o tcp.queue = Bytes(1, IF tcp.remote_seq > Stream THEN Stream ELSE tcp.remote_seq - 1)
    /\ ~tcp.dropped /\ tcp_result = <<"receive", 0>> => read = Bytes(1, Stream)
    /\ requests < peer.received \/ requests = 0

\* The advertised window never shrinks, and tcp_append acknowledges what it
\* drops; yet a queue that holds one poll and one window never drops a byte
\* while network_tcp_receive polls, since its loop stops at the first byte.
ReceiveDropsNothing == [][call.name = "receive" => (tcp'.dropped = tcp.dropped)]_connection

=============================================================================
