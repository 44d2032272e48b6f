------------------------------ MODULE Rtl8139 ------------------------------
\* drivers/network/rtl8139.c: frames of different lengths, one behind the other
\* in a circular buffer that the card fills and the driver empties, and four
\* buffers in turn for sending.  The buffer is counted in words of four bytes,
\* to which both sides round a frame; a frame starts with its header.  The card
\* delivers only frames without an error of at most 1518 bytes (RCR is 0xf).
EXTENDS Naturals, Sequences, FiniteSets, SequencesExt

CONSTANTS
    Words,       \* RX_SIZE in words
    Size,        \* Size[f]: the words of frame f, its header included
    MaxFrames,   \* frames that arrive in a behaviour
    MaxSends,    \* frames that are sent
    Bad,         \* the frames that arrive damaged
    TxCount      \* transmit buffers

VARIABLES
    rx_buffer,           \* [word -> <<frame, which of its words>>]
    rx_offset,
    tx_buffer,           \* [i -> [own, frame]]: OWN is set while the buffer is the driver's
    tx_index, present,
    pc,                  \* what the driver is in the middle of
    card,                \* [on, addr, ptr, done, tx]: the card's side, see CardWrites
    arrived, received, sent, wire

history == <<arrived, received, sent, wire>>
vars == <<rx_buffer, rx_offset, tx_buffer, tx_index, present, pc, card, history>>

Word == 0..(Words - 1)
Tx == 0..(TxCount - 1)
Empty == <<0, 0>>

Init ==
    /\ rx_buffer = [w \in Word |-> Empty] /\ rx_offset = 0
    /\ tx_buffer = [i \in Tx |-> [own |-> "driver", frame |-> 0]] /\ tx_index = 0
    /\ present = FALSE /\ pc = "idle"
    /\ card = [on |-> FALSE, addr |-> 0, ptr |-> 0, done |-> 0, tx |-> 0]
    /\ arrived = 0 /\ received = <<>> /\ sent = 0 /\ wire = <<>>

\* A card that is found and reset starts at the front of the buffer with all
\* transmit buffers free; the reset may not end in time.
rtl8139_init(found) ==
    /\ pc = "idle"
    /\ rx_offset' = 0 /\ tx_index' = 0
    /\ IF found
       THEN /\ present' \in BOOLEAN
            /\ tx_buffer' = [i \in Tx |-> [tx_buffer[i] EXCEPT !.own = "driver"]]
            /\ card' = [on |-> present', addr |-> 0, ptr |-> 0, done |-> 0, tx |-> 0]
       ELSE present' = FALSE /\ UNCHANGED <<tx_buffer, card>>
    /\ UNCHANGED <<rx_buffer, pc, history>>

\* rtl8139_send waits for the buffer whose turn it is (and gives up if the card
\* does not return it), fills it ...
SendBegin ==
    /\ pc = "idle" /\ present /\ sent < MaxSends
    /\ tx_buffer[tx_index].own = "driver"
    /\ tx_buffer' = [tx_buffer EXCEPT ![tx_index].frame = sent + 1]
    /\ pc' = "send"
    /\ UNCHANGED <<rx_buffer, rx_offset, tx_index, present, card, history>>

\* ... and gives it to the card by writing its length.
SendEnd ==
    /\ pc = "send"
    /\ tx_buffer' = [tx_buffer EXCEPT ![tx_index].own = "card"]
    /\ tx_index' = (tx_index + 1) % TxCount /\ sent' = sent + 1
    /\ pc' = "idle"
    /\ UNCHANGED <<rx_buffer, rx_offset, present, card, arrived, received, wire>>

\* rtl8139_receive: the card says that its buffer is not empty ...
ReceiveBegin ==
    /\ pc = "idle" /\ present
    /\ card.ptr # card.addr
    /\ pc' = "receive"
    /\ UNCHANGED <<rx_buffer, rx_offset, tx_buffer, tx_index, present, card, history>>

\* What the copy loop reads: the frame, or 0 if some word is not the frame's.
Copy(frame) ==
    IF \A k \in 0..(Size[frame] - 1) :
         rx_buffer[(rx_offset + k) % Words] = <<frame, k>>
    THEN frame ELSE 0

\* Mutant: a frame that passes the end of the buffer is followed by the front.
BehindAligned(n) == IF rx_offset + n > Words THEN 0 ELSE (rx_offset + n) % Words

\* The offset behind a frame of n words.
Behind(n) == (rx_offset + n) % Words

\* ... the frame behind the header at rx_offset is copied, and the card is told
\* how far its buffer is free again; a header that makes no sense starts over
\* at the front.
ReceiveEnd ==
    LET header == rx_buffer[rx_offset]
    IN  /\ pc = "receive"
        /\ IF header # Empty /\ header[2] = 0
           THEN /\ received' = Append(received, Copy(header[1]))
                /\ rx_offset' = Behind(Size[header[1]])
           ELSE /\ rx_offset' = 0 /\ UNCHANGED received
        /\ card' = [card EXCEPT !.ptr = rx_offset']
        /\ pc' = "idle"
        /\ UNCHANGED <<rx_buffer, tx_buffer, tx_index, present, arrived, sent, wire>>

----------------------------------------------------------------------------
\* The card writes the next frame word by word from addr on (done of them so
\* far) if it fits in front of ptr, which is where the driver will read next.
Fits(n) ==
    LET room == (Words + card.ptr - card.addr) % Words
    IN  room = 0 \/ n < room

Accepts(frame) == frame \notin Bad /\ Fits(Size[frame])

CardWrites ==
    LET frame == arrived + 1
    IN  /\ card.on /\ arrived < MaxFrames
        /\ card.done > 0 \/ Accepts(frame)
        /\ card.done < Size[frame]
        /\ rx_buffer' = [rx_buffer EXCEPT ![(card.addr + card.done) % Words] = <<frame, card.done>>]
        /\ card' = [card EXCEPT !.done = @ + 1]
        /\ UNCHANGED <<rx_offset, tx_buffer, tx_index, present, pc, history>>

CardAdvances ==
    /\ card.on /\ arrived < MaxFrames /\ card.done = Size[arrived + 1]
    /\ card' = [card EXCEPT !.addr = (@ + card.done) % Words, !.done = 0]
    /\ arrived' = arrived + 1
    /\ UNCHANGED <<rx_buffer, rx_offset, tx_buffer, tx_index, present, pc, received, sent, wire>>

CardMisses ==
    /\ card.on /\ arrived < MaxFrames /\ card.done = 0 /\ ~Accepts(arrived + 1)
    /\ arrived' = arrived + 1
    /\ UNCHANGED <<rx_buffer, rx_offset, tx_buffer, tx_index, present, pc, card, received, sent, wire>>

CardSends ==
    /\ card.on /\ tx_buffer[card.tx].own = "card"
    /\ wire' = Append(wire, tx_buffer[card.tx].frame)
    /\ tx_buffer' = [tx_buffer EXCEPT ![card.tx].own = "driver"]
    /\ card' = [card EXCEPT !.tx = (@ + 1) % TxCount]
    /\ UNCHANGED <<rx_buffer, rx_offset, tx_index, present, pc, arrived, received, sent>>

Step ==
    \/ SendBegin \/ SendEnd \/ ReceiveBegin \/ ReceiveEnd
    \/ CardWrites \/ CardAdvances \/ CardMisses \/ CardSends

----------------------------------------------------------------------------
\* The frames whose header lies between the driver's and the card's place.
WaitingRx ==
    LET used == (Words + card.addr - rx_offset) % Words
        headers == {h \in {rx_buffer[(rx_offset + d) % Words] : d \in 0..(used - 1)} : h[2] = 0}
    IN  SetToSortSeq({h[1] : h \in headers}, <)

WaitingTx ==
    [k \in 1..Cardinality({i \in Tx : tx_buffer[i].own = "card"})
       |-> tx_buffer[(card.tx + k - 1) % TxCount].frame]

\* The driver's place is that of a header, unless nothing waits.
InStep == card.on => rx_offset = card.addr \/ rx_buffer[rx_offset][2] = 0

=============================================================================
