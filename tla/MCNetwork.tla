----------------------------- MODULE MCNetwork ------------------------------
(***************************************************************************)
(* The network: the cards, the datagrams and the connection of net.c, and  *)
(* the clock that is set over it.  One of the parts runs, the others rest. *)
(*   time      an hour of two minutes of two seconds, fixed-point units    *)
(*             that do not divide a second, two queries, two datagrams     *)
(*             under way                                                   *)
(*   tcp       one connection over a network that loses, repeats and       *)
(*             reorders                                                    *)
(*   cards     four frames on rings of three descriptors and in a buffer   *)
(*             that the frames do not fill evenly, one of them bad         *)
(*   datagrams three hosts and two slots of the neighbour cache, and       *)
(*             identifiers that wrap                                       *)
(***************************************************************************)
EXTENDS Timekeeping, Datagrams, Tcp

VARIABLES
    part,
    fitted, device,
    rx_ring, tx_ring, rx_index, pcnet_tx, pcnet_present, pcnet_pc, pcnet_card,
    rx_buffer, rx_offset, tx_buffer, rtl_tx, rtl_present, rtl_pc, rtl_card,
    arrived, received, sent, wire

pcnet == <<rx_ring, tx_ring, rx_index, pcnet_tx, pcnet_present, pcnet_pc, pcnet_card>>
rtl == <<rx_buffer, rx_offset, tx_buffer, rtl_tx, rtl_present, rtl_pc, rtl_card>>
devices == <<fitted, device, pcnet, rtl, arrived, received, sent, wire>>

InitialErrors == {-3}

\* About the hour: midnight, noon, and where a digit of the hour changes.
AboutHours == {Seconds * Minutes * h - k : h \in {1, 10, 12, 13, 20, 24}, k \in 0..3}

-----------------------------------------------------------------------------
(* drivers/network/netdev.c: one card is fitted, and netdev_init, called   *)
(* by network_init whenever netd is started, looks for the RTL8139 first.  *)

MaxFrames == 4
MaxSends == 4
Bad == {2}

P == INSTANCE Pcnet WITH
       RING_COUNT <- 3,
       tx_index <- pcnet_tx, present <- pcnet_present, pc <- pcnet_pc, card <- pcnet_card
R == INSTANCE Rtl8139 WITH
       Words <- 6, Size <- <<2, 3, 2, 3>>, TxCount <- 2,
       tx_index <- rtl_tx, present <- rtl_present, pc <- rtl_pc, card <- rtl_card

NetdevInit ==
    /\ fitted \in {"RTL8139", "PCNET"} /\ device = "NONE"
    /\ P!Init /\ R!Init

netdev_init ==
    /\ R!rtl8139_init(fitted = "RTL8139")
    /\ IF rtl_present' THEN device' = "RTL8139" /\ UNCHANGED pcnet
       ELSE /\ P!pcnet_init(fitted = "PCNET")
            /\ device' = IF pcnet_present' THEN "PCNET" ELSE "NONE"
    /\ UNCHANGED fitted

\* netdev_send, netdev_receive and the card.
NetdevRuns ==
    \/ device = "RTL8139" /\ R!Step /\ UNCHANGED <<fitted, device, pcnet>>
    \/ device = "PCNET" /\ P!Step /\ UNCHANGED <<fitted, device, rtl>>

ByDevice(r, p) == CASE device = "RTL8139" -> r [] device = "PCNET" -> p [] OTHER -> <<>>

Rx == INSTANCE FrameQueue WITH
        Frames <- 1..MaxFrames, delivered <- received,
        queue <- ByDevice(R!WaitingRx, P!WaitingRx)

Tx == INSTANCE FrameQueue WITH
        Frames <- 1..MaxSends, Bad <- {}, delivered <- wire,
        queue <- ByDevice(R!WaitingTx, P!WaitingTx)

-----------------------------------------------------------------------------
(* One part at a time                                                      *)

\* A part that does not run rests in one of its initial states.
MCInit ==
    /\ part \in {"time", "tcp", "cards", "datagrams"}
    /\ (part # "time" => chip = [time |-> 2, uip |-> FALSE, bcd |-> FALSE, h24 |-> FALSE]) /\ Init
    /\ (part # "cards" => fitted = "PCNET") /\ NetdevInit
    /\ TcpInit /\ DatagramsInit

\* A connection that is over stays so.
MCNext ==
    /\ UNCHANGED part
    /\ IF part = "time" THEN Next ELSE UNCHANGED vars
    /\ IF part = "tcp" THEN TcpNext \/ UNCHANGED connection ELSE UNCHANGED connection
    /\ IF part = "cards" THEN netdev_init \/ NetdevRuns ELSE UNCHANGED devices
    /\ IF part = "datagrams" THEN DatagramsNext ELSE UNCHANGED datagrams

MCSpec == MCInit /\ [][MCNext]_<<part, vars, connection, devices, datagrams>>

-----------------------------------------------------------------------------
(* Properties                                                              *)

\* net.c is given the frames that arrive in order, once and whole, whatever the
\* card does while the driver copies one; only an initialisation loses what
\* waits.  In the RTL8139's buffer, driver and card round and wrap their places
\* alike, so that the driver never loses its own.
ReceivesInOrder ==
    /\ Rx!Init /\ [](device = "RTL8139" => R!InStep)
    /\ [][UNCHANGED devices \/ IF netdev_init THEN Rx!Reset ELSE Rx!Flow]_Rx!vars

\* The wire carries the frames that netdev_send has accepted in order, once and
\* as they were given: no buffer is filled again before it has been sent.
SendsInOrder == Tx!Init /\ [][UNCHANGED devices \/ IF netdev_init THEN Tx!Reset ELSE Tx!Flow]_Tx!vars

\* Between two initialisations the drivers implement queues of frames.
FramesInOrder == ReceivesInOrder /\ SendsInOrder

=============================================================================
