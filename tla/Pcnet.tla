------------------------------- MODULE Pcnet -------------------------------
\* drivers/network/pcnet.c: two rings of descriptors that the driver and the
\* card hand to each other through an OWN bit.  The card works at the same
\* time as the driver; a frame is in its buffer before the descriptor changes
\* hands, and copied before it is given back.  Frames are numbered in the
\* order in which they reach the card, or the driver.
EXTENDS Naturals, Sequences, FiniteSets

CONSTANTS
    RING_COUNT,   \* descriptors of a ring
    MaxFrames,    \* frames that arrive in a behaviour
    MaxSends,     \* frames that are sent
    Bad           \* the frames that arrive with an error bit

VARIABLES
    rx_ring, tx_ring,     \* [slot -> [own, frame]]: descriptors with their buffers
    rx_index, tx_index,   \* the driver's place in each ring
    present,
    pc,                   \* what the driver is in the middle of
    card,                 \* [on, rx, tx, writing]: the card's side
    arrived, received,    \* frames that have reached the card; frames handed to net.c
    sent, wire            \* frames accepted for sending; frames on the wire

driver == <<rx_index, tx_index, present, pc>>
history == <<arrived, received, sent, wire>>
vars == <<rx_ring, tx_ring, driver, card, history>>

Slot == 0..(RING_COUNT - 1)
Torn == 0                          \* the contents of a buffer being written
After(i) == (i + 1) % RING_COUNT
Owned(who) == [i \in Slot |-> [own |-> who, frame |-> Torn]]

Init ==
    /\ rx_ring = Owned("host") /\ tx_ring = Owned("host")
    /\ rx_index = 0 /\ tx_index = 0
    /\ present = FALSE /\ pc = "idle"
    /\ card = [on |-> FALSE, rx |-> 0, tx |-> 0, writing |-> FALSE]
    /\ arrived = 0 /\ received = <<>> /\ sent = 0 /\ wire = <<>>

\* The card, if it is found, is stopped, both rings are set up and it is started
\* again with them, unless it does not report in time that it is initialised.
pcnet_init(found) ==
    /\ pc = "idle"
    /\ IF found
       THEN /\ rx_ring' = Owned("card") /\ tx_ring' = Owned("host")
            /\ \/ /\ present' = TRUE /\ rx_index' = 0 /\ tx_index' = 0
                  /\ card' = [on |-> TRUE, rx |-> 0, tx |-> 0, writing |-> FALSE]
               \/ /\ present' = FALSE /\ UNCHANGED <<rx_index, tx_index>>
                  /\ card' = [card EXCEPT !.on = FALSE, !.writing = FALSE]
       ELSE present' = FALSE /\ UNCHANGED <<rx_ring, tx_ring, rx_index, tx_index, card>>
    /\ UNCHANGED <<pc, history>>

\* Mutant: the owner of the descriptor is not looked at.
SendBeginBusy ==
    /\ pc = "idle" /\ present /\ sent < MaxSends
    /\ tx_ring' = [tx_ring EXCEPT ![tx_index].frame = sent + 1]
    /\ pc' = "send"
    /\ UNCHANGED <<rx_ring, rx_index, tx_index, present, card, history>>

\* pcnet_send copies the frame into the buffer of a descriptor that is the
\* driver's (it returns 0 if the next one is not) ...
SendBegin ==
    /\ pc = "idle" /\ present /\ sent < MaxSends
    /\ tx_ring[tx_index].own = "host"
    /\ tx_ring' = [tx_ring EXCEPT ![tx_index].frame = sent + 1]
    /\ pc' = "send"
    /\ UNCHANGED <<rx_ring, rx_index, tx_index, present, card, history>>

\* ... and hands it to the card.
SendEnd ==
    /\ pc = "send"
    /\ tx_ring' = [tx_ring EXCEPT ![tx_index].own = "card"]
    /\ tx_index' = After(tx_index) /\ sent' = sent + 1
    /\ pc' = "idle"
    /\ UNCHANGED <<rx_ring, rx_index, present, card, arrived, received, wire>>

\* pcnet_receive finds a descriptor that the card has handed over ...
ReceiveBegin ==
    /\ pc = "idle" /\ present
    /\ rx_ring[rx_index].own = "host"
    /\ pc' = "receive"
    /\ UNCHANGED <<rx_ring, tx_ring, rx_index, tx_index, present, card, history>>

\* ... copies the frame unless it is bad, and gives the descriptor back.
ReceiveEnd ==
    LET frame == rx_ring[rx_index].frame
    IN  /\ pc = "receive"
        /\ received' = IF frame \in Bad THEN received ELSE Append(received, frame)
        /\ rx_ring' = [rx_ring EXCEPT ![rx_index].own = "card"]
        /\ rx_index' = After(rx_index)
        /\ pc' = "idle"
        /\ UNCHANGED <<tx_ring, tx_index, present, card, arrived, sent, wire>>

----------------------------------------------------------------------------
\* The card.  A frame that finds no free descriptor is missed.
CardFill ==
    /\ card.on /\ ~card.writing /\ arrived < MaxFrames
    /\ rx_ring[card.rx].own = "card"
    /\ rx_ring' = [rx_ring EXCEPT ![card.rx].frame = Torn]
    /\ card' = [card EXCEPT !.writing = TRUE]
    /\ UNCHANGED <<tx_ring, driver, history>>

CardHandsOver ==
    /\ card.writing
    /\ rx_ring' = [rx_ring EXCEPT ![card.rx] = [own |-> "host", frame |-> arrived + 1]]
    /\ card' = [card EXCEPT !.writing = FALSE, !.rx = After(@)]
    /\ arrived' = arrived + 1
    /\ UNCHANGED <<tx_ring, driver, received, sent, wire>>

CardMisses ==
    /\ card.on /\ ~card.writing /\ arrived < MaxFrames
    /\ rx_ring[card.rx].own = "host"
    /\ arrived' = arrived + 1
    /\ UNCHANGED <<rx_ring, tx_ring, driver, card, received, sent, wire>>

CardSends ==
    /\ card.on /\ tx_ring[card.tx].own = "card"
    /\ wire' = Append(wire, tx_ring[card.tx].frame)
    /\ tx_ring' = [tx_ring EXCEPT ![card.tx].own = "host"]
    /\ card' = [card EXCEPT !.tx = After(@)]
    /\ UNCHANGED <<rx_ring, driver, arrived, received, sent>>

Step ==
    \/ SendBegin \/ SendEnd \/ ReceiveBegin \/ ReceiveEnd
    \/ CardFill \/ CardHandsOver \/ CardMisses \/ CardSends

----------------------------------------------------------------------------
\* The frames that wait in a ring: from slot i on, in ring order, as many as
\* belong to who.
Waiting(ring, who, i) ==
    [k \in 1..Cardinality({s \in Slot : ring[s].own = who})
       |-> ring[(i + k - 1) % RING_COUNT].frame]

WaitingRx == IF present THEN Waiting(rx_ring, "host", rx_index) ELSE <<>>
WaitingTx == Waiting(tx_ring, "card", card.tx)

=============================================================================
