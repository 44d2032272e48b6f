----------------------------- MODULE FrameQueue -----------------------------
\* What net.c expects of a network card, one direction at a time: a queue of
\* frames that come out in the order in which they went in, each of them once
\* and whole, unless the frame is damaged or the card is initialised again.
EXTENDS Naturals, Sequences

CONSTANTS
    Frames,    \* the frames that may go in
    Bad        \* the ones that arrive damaged

VARIABLES
    queue,      \* the frames that have gone in and not come out
    delivered   \* the frames that have come out, in order

vars == <<queue, delivered>>

Init == queue = <<>> /\ delivered = <<>>

Put(f) == queue' = Append(queue, f) /\ UNCHANGED delivered

Take ==
    /\ queue # <<>>
    /\ queue' = Tail(queue)
    /\ delivered' = IF Head(queue) \in Bad THEN delivered
                    ELSE Append(delivered, Head(queue))

Reset == queue' = <<>> /\ UNCHANGED delivered

Flow == (\E f \in Frames : Put(f)) \/ Take

=============================================================================
