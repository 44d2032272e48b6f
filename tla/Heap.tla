-------------------------------- MODULE Heap --------------------------------
(***************************************************************************)
(* The kernel heap of kernel/mm/memory.c: one array of heap_bytes bytes    *)
(* that a doubly linked list of blocks cuts into header + payload pieces.  *)
(* Addresses are byte offsets into the array `heap'; a block is named by   *)
(* the offset of its header, a pointer handed to a client is the offset of *)
(* the payload that follows it.  The functions that several entry points   *)
(* share (taking a block, releasing one) are operators on a heap record,   *)
(* so that krealloc is the composition of kmalloc and kfree that it is in  *)
(* the code.                                                               *)
(***************************************************************************)
EXTENDS Integers, FiniteSets, FiniteSetsExt

CONSTANTS
    HeapMax,      \* HEAP_MAX_BYTES
    SizeMax,      \* the largest size_t
    Available,    \* amounts of memory a boot map may report
    Sizes,        \* request sizes the clients use
    Counts,       \* element counts the clients of kcalloc use
    Vals,         \* what a client may fill its payload with
    Zero          \* what kcalloc fills a payload with

Hdr        == 48  \* sizeof(block_t): 36 bytes of fields, aligned to 16
Align      == 16
MinPayload == 16
Null       == -1
Stale      == "stale"   \* header bytes, and payload bytes nobody has a claim on

ASSUME HeapAssumption ==
    /\ HeapMax \in Nat
    /\ SizeMax \in Nat /\ HeapMax + Hdr + MinPayload <= SizeMax
    /\ (SizeMax + 1) % Align = 0
    /\ Available \subseteq Nat /\ Sizes \subseteq 0..SizeMax /\ Counts \subseteq 0..SizeMax
    /\ Zero \notin Vals /\ Stale \notin Vals \cup {Zero}

VARIABLES
    heap_bytes,   \* usable length of the array
    first,        \* the first block of the list, or Null
    heap,         \* [block, used, allocations, mem]
    held          \* ghost: what each client pointer still owns

allocator == <<heap_bytes, first, heap, held>>

-----------------------------------------------------------------------------
(* Arithmetic and memory                                                   *)

RoundDown(n) == n - (n % Align)

align_up(value) ==
    IF value > SizeMax - (Align - 1) THEN 0 ELSE RoundDown(value + Align - 1)

\* The 16-byte cells that the n bytes at address a touch; a is aligned.
Cells(a, n) == {c \in 0..(HeapMax - 1) : c % Align = 0 /\ a <= c /\ c < a + n}

\* The memory after the n bytes at address a have been overwritten by v.
Store(mem, a, n, v) == [c \in DOMAIN mem |-> IF c \in Cells(a, n) THEN v ELSE mem[c]]

\* Mutant: the copy loop stops one cell early.
CopyShort(mem, q, p, n) ==
    [c \in DOMAIN mem |-> IF c \in Cells(q, n - Align) THEN mem[c - q + p] ELSE mem[c]]

\* The memory after n bytes have been copied from address p to address q.
Copy(mem, q, p, n) ==
    [c \in DOMAIN mem |-> IF c \in Cells(q, n) THEN mem[c - q + p] ELSE mem[c]]

-----------------------------------------------------------------------------
(* Walking the list                                                        *)

\* The n-th block that a walk along `next' from block f comes to.
Walk(block, f) ==
    LET visit[n \in 0..Cardinality(DOMAIN block)] ==
          IF n = 0 THEN f
          ELSE IF visit[n-1] = Null THEN Null ELSE block[visit[n-1]].next
    IN  visit

Reached(block, f, b) == \E n \in DOMAIN Walk(block, f) : Walk(block, f)[n] = b

Fits(block, b, wanted) == b \in DOMAIN block /\ block[b].free = 1 /\ block[b].size >= wanted

\* kmalloc stops at block b: the first one on the walk that fits.
FirstFit(block, f, wanted, b) ==
    /\ Fits(block, b, wanted)
    /\ \E n \in DOMAIN Walk(block, f) :
         /\ Walk(block, f)[n] = b
         /\ \A m \in 0..(n-1) : ~Fits(block, Walk(block, f)[m], wanted)

\* The block whose payload is at p, found by a walk, in use.
InUse(block, f, p) ==
    /\ p - Hdr \in DOMAIN block
    /\ Reached(block, f, p - Hdr)
    /\ block[p - Hdr].free = 0

-----------------------------------------------------------------------------
(* kmalloc and kfree on a heap record                                      *)

\* Mutant: the remainder's size forgets its own header.
SplitNoHeader(block, b, wanted) ==
    LET old       == block[b]
        remainder == b + Hdr + wanted
    IN  [a \in DOMAIN block \cup {remainder} |->
           CASE a = remainder -> [size |-> old.size - wanted, previous |-> b,
                                  next |-> old.next, free |-> 1]
             [] a = b         -> [size |-> wanted, previous |-> old.previous,
                                  next |-> remainder, free |-> 0]
             [] a = old.next  -> [block[a] EXCEPT !.previous = remainder]
             [] OTHER         -> block[a]]

\* The list after block b, of which `wanted' bytes are kept, gives up the
\* rest of its payload as a new free block behind it.
Split(block, b, wanted) ==
    LET old       == block[b]
        remainder == b + Hdr + wanted
    IN  [a \in DOMAIN block \cup {remainder} |->
           CASE a = remainder -> [size |-> old.size - wanted - Hdr, previous |-> b,
                                  next |-> old.next, free |-> 1]
             [] a = b         -> [size |-> wanted, previous |-> old.previous,
                                  next |-> remainder, free |-> 0]
             [] a = old.next  -> [block[a] EXCEPT !.previous = remainder]
             [] OTHER         -> block[a]]

\* Mutant: `used' counts the request, not the block that is given away.
TakeWanted(h, b, wanted) ==
    IF h.block[b].size >= wanted + Hdr + MinPayload
    THEN [block       |-> Split(h.block, b, wanted),
          used        |-> h.used + wanted,
          allocations |-> h.allocations + 1,
          mem         |-> Store(h.mem, b + Hdr + wanted, Hdr, Stale)]
    ELSE [block       |-> [h.block EXCEPT ![b].free = 0],
          used        |-> h.used + wanted,
          allocations |-> h.allocations + 1,
          mem         |-> h.mem]

\* The rest of kmalloc once its loop has stopped at b.
Take(h, b, wanted) ==
    IF h.block[b].size >= wanted + Hdr + MinPayload
    THEN [block       |-> Split(h.block, b, wanted),
          used        |-> h.used + wanted,
          allocations |-> h.allocations + 1,
          mem         |-> Store(h.mem, b + Hdr + wanted, Hdr, Stale)]
    ELSE [block       |-> [h.block EXCEPT ![b].free = 0],
          used        |-> h.used + h.block[b].size,
          allocations |-> h.allocations + 1,
          mem         |-> h.mem]

\* Mutant: the block behind the swallowed one keeps its old `previous'.
MergeOneWay(block, a, n) ==
    [x \in DOMAIN block \ {n} |->
       IF x = a THEN [block[a] EXCEPT !.size = @ + Hdr + block[n].size,
                                      !.next = block[n].next]
       ELSE block[x]]

\* Block a swallows block n, which follows it.
Merge(block, a, n) ==
    [x \in DOMAIN block \ {n} |->
       CASE x = a             -> [block[a] EXCEPT !.size = @ + Hdr + block[n].size,
                                                  !.next = block[n].next]
         [] x = block[n].next -> [block[x] EXCEPT !.previous = a]
         [] OTHER             -> block[x]]

\* Mutant: the neighbour is swallowed without looking at its free flag.
MergeNextAlways(block, b) ==
    LET n == block[b].next
    IN  IF n # Null THEN Merge(block, b, n) ELSE block

MergeNext(block, b) ==
    LET n == block[b].next
    IN  IF n # Null /\ block[n].free = 1 THEN Merge(block, b, n) ELSE block

\* Mutant: no coalescing with the block in front.
MergePreviousNever(block, b) == block

MergePrevious(block, b) ==
    LET p == block[b].previous
    IN  IF p # Null /\ block[p].free = 1 THEN Merge(block, p, b) ELSE block

\* kfree once its walk has found the block b of the pointer, in use.  The
\* bytes stay, but no client can count on them any more: they are Stale.
Release(h, b) ==
    [block       |-> MergePrevious(MergeNext([h.block EXCEPT ![b].free = 1], b), b),
     used        |-> h.used - h.block[b].size,
     allocations |-> IF h.allocations > 0 THEN h.allocations - 1 ELSE 0,
     mem         |-> Store(h.mem, b + Hdr, h.block[b].size, Stale)]

-----------------------------------------------------------------------------
(* The entry points                                                        *)

\* memory_init: the boot map's figure bounds the heap to an eighth of it,
\* and a heap that cannot hold one minimal block has no list at all.
memory_init(available) ==
    LET bytes == RoundDown(IF available # 0 /\ available \div 8 < HeapMax
                           THEN available \div 8 ELSE HeapMax)
        small == bytes <= Hdr + MinPayload
    IN  /\ heap_bytes = bytes
        /\ first = IF small THEN Null ELSE 0
        /\ heap = [block       |-> [a \in (IF small THEN {} ELSE {0}) |->
                                      [size |-> bytes - Hdr, previous |-> Null,
                                       next |-> Null, free |-> 1]],
                   used        |-> 0,
                   allocations |-> 0,
                   mem         |-> [c \in Cells(0, bytes) |-> Stale]]
        /\ held = [p \in {} |-> 0]

HeapInit == \E available \in Available : memory_init(available)

\* kmalloc(size) stops at block b and returns the payload behind it.
Allocates(size, b) ==
    /\ size # 0 /\ first # Null
    /\ align_up(size) # 0
    /\ FirstFit(heap.block, first, align_up(size), b)

\* kmalloc(size) returns 0.
Fails(size) == ~ \E b \in DOMAIN heap.block : Allocates(size, b)

\* A client learns nothing about the bytes kmalloc hands it: len = 0.
kmalloc(size) ==
    \/ \E b \in DOMAIN heap.block :
         /\ Allocates(size, b)
         /\ heap' = Take(heap, b, align_up(size))
         /\ held' = [p \in DOMAIN held \cup {b + Hdr} |->
                       IF p = b + Hdr THEN [cap |-> size, len |-> 0, val |-> Zero]
                       ELSE held[p]]
         /\ UNCHANGED <<heap_bytes, first>>
    \/ Fails(size) /\ UNCHANGED allocator

\* kfree(p), p any address: one that is not the payload of a used block is
\* ignored, wherever it points.
kfree(p) ==
    \/ /\ Hdr <= p /\ p < heap_bytes
       /\ InUse(heap.block, first, p)
       /\ heap' = Release(heap, p - Hdr)
       /\ held' = [q \in DOMAIN held \ {p} |-> held[q]]
       /\ UNCHANGED <<heap_bytes, first>>
    \/ /\ ~(Hdr <= p /\ p < heap_bytes /\ InUse(heap.block, first, p))
       /\ UNCHANGED allocator

kcalloc(count, size) ==
    LET bytes    == count * size
        overflow == size # 0 /\ count > SizeMax \div size
    IN  \/ /\ ~overflow
           /\ \E b \in DOMAIN heap.block :
                /\ Allocates(bytes, b)
                /\ LET taken == Take(heap, b, align_up(bytes))
                   IN  heap' = [taken EXCEPT !.mem = Store(@, b + Hdr, bytes, Zero)]
                /\ held' = [p \in DOMAIN held \cup {b + Hdr} |->
                              IF p = b + Hdr THEN [cap |-> bytes, len |-> bytes, val |-> Zero]
                              ELSE held[p]]
           /\ UNCHANGED <<heap_bytes, first>>
        \/ (overflow \/ Fails(bytes)) /\ UNCHANGED allocator

\* krealloc of a pointer in use to a size other than zero: the block stays
\* where it is when it is large enough; otherwise kmalloc, a copy of the
\* whole old payload and kfree; if kmalloc fails the old block is kept.
Resize(p, size) ==
    \/ /\ heap.block[p - Hdr].size >= size
       /\ held' = [held EXCEPT ![p].cap = size,
                               ![p].len = IF @ < size THEN @ ELSE size]
       /\ UNCHANGED <<heap_bytes, first, heap>>
    \/ /\ heap.block[p - Hdr].size < size
       /\ \E b \in DOMAIN heap.block :
            /\ Allocates(size, b)
            /\ LET q      == b + Hdr
                   taken  == Take(heap, b, align_up(size))
                   copied == [taken EXCEPT !.mem = Copy(@, q, p, taken.block[p - Hdr].size)]
               IN  /\ heap' = Release(copied, p - Hdr)
                   /\ held' = [x \in (DOMAIN held \cup {q}) \ {p} |->
                                 IF x = q THEN [held[p] EXCEPT !.cap = size]
                                 ELSE held[x]]
       /\ UNCHANGED <<heap_bytes, first>>
    \/ /\ heap.block[p - Hdr].size < size /\ Fails(size)
       /\ UNCHANGED allocator

krealloc(p, size) ==
    \/ p = Null /\ kmalloc(size)
    \/ p # Null /\ size = 0 /\ kfree(p)
    \/ p # Null /\ size # 0 /\ ~InUse(heap.block, first, p) /\ UNCHANGED allocator
    \/ p # Null /\ size # 0 /\ InUse(heap.block, first, p) /\ Resize(p, size)

\* A client fills all the bytes it asked for.
Fill(p, v) ==
    /\ p \in DOMAIN held
    /\ heap' = [heap EXCEPT !.mem = Store(@, p, held[p].cap, v)]
    /\ held' = [held EXCEPT ![p].len = held[p].cap, ![p].val = v]
    /\ UNCHANGED <<heap_bytes, first>>

\* The addresses a client may pass, its own pointers and any other: payloads
\* start at aligned offsets, and the last ones lie beyond the heap.
Pointers == {c + Hdr : c \in Cells(0, HeapMax)}

HeapNext ==
    \/ \E size \in Sizes : kmalloc(size)
    \/ \E count \in Counts, size \in Sizes : kcalloc(count, size)
    \/ \E p \in Pointers : kfree(p)
    \/ \E p \in Pointers \cup {Null}, size \in Sizes : krealloc(p, size)
    \/ \E p \in Pointers, v \in Vals : Fill(p, v)

HeapSpec == HeapInit /\ [][HeapNext]_allocator

-----------------------------------------------------------------------------
(* Properties                                                              *)

Block == [size : Nat, previous : Nat \cup {Null}, next : Nat \cup {Null}, free : {0, 1}]

\* Types: the list's blocks carry natural sizes and links that are null or
\* offsets, and the ghost records mirror what kmalloc was asked for.
HeapTypeOK ==
    /\ heap_bytes \in 0..HeapMax
    /\ first \in {Null, 0}
    /\ DOMAIN heap.block \subseteq Nat
    /\ heap.block \in [DOMAIN heap.block -> Block]
    /\ heap.used \in Int /\ heap.allocations \in Nat
    /\ heap.mem \in [Cells(0, heap_bytes) -> Vals \cup {Zero, Stale}]
    /\ held \in [DOMAIN held -> [cap : Nat, len : Nat, val : Vals \cup {Zero}]]

BlockEnd(block, b) == b + Hdr + block[b].size

Linked(block, f, bytes) ==
    /\ f # Null => f \in DOMAIN block
    /\ \A b \in DOMAIN block :
         /\ b % Align = 0
         /\ block[b].size % Align = 0 /\ block[b].size >= MinPayload
         /\ IF block[b].next = Null THEN BlockEnd(block, b) = bytes
            ELSE /\ block[b].next = BlockEnd(block, b)
                 /\ block[b].next \in DOMAIN block
                 /\ block[block[b].next].previous = b
         /\ IF block[b].previous = Null THEN b = f
            ELSE /\ block[b].previous \in DOMAIN block
                 /\ block[block[b].previous].next = b

\* The blocks of the list tile the heap: a block ends where its `next'
\* begins and the last one ends with the heap, `previous' undoes `next',
\* and every block is aligned and can hold a minimal payload.
Tiled == Linked(heap.block, first, heap_bytes)

\* kmalloc never hands out bytes that belong to another allocation, to a
\* header or to nobody: what clients hold lies in the heap and is disjoint.
NoOverlap ==
    \A p \in DOMAIN held :
      /\ p >= Hdr /\ p + held[p].cap <= heap_bytes
      /\ \A q \in DOMAIN held : p # q =>
           p + held[p].cap <= q - Hdr \/ q + held[q].cap <= p - Hdr

\* kfree leaves no two free blocks side by side, whatever the order in
\* which neighbours are released.
Coalesced ==
    \A b \in DOMAIN heap.block :
      heap.block[b].free = 1 /\ heap.block[b].next # Null
        => heap.block[heap.block[b].next].free = 0

\* The walk from `first' that kmalloc, kfree and memory_free_bytes rely on
\* visits every block, so no memory is ever lost to them; and the blocks in
\* use are exactly the ones whose pointer a client still holds.
NothingLost ==
    /\ \A b \in DOMAIN heap.block : Reached(heap.block, first, b)
    /\ {p - Hdr : p \in DOMAIN held} = {b \in DOMAIN heap.block : heap.block[b].free = 0}
    /\ held = [p \in {} |-> 0] /\ first # Null
         => heap.block = [a \in {0} |-> [size |-> heap_bytes - Hdr, previous |-> Null,
                                         next |-> Null, free |-> 1]]

\* The bytes of a set of blocks, and the blocks in one of the two states.
Bytes(block, S) == MapThenSumSet(LAMBDA b : block[b].size, S)
Marked(block, free) == {b \in DOMAIN block : block[b].free = free}

memory_free_bytes == Bytes(heap.block, Marked(heap.block, 1))

\* The counters that memory_used_bytes, memory_allocation_count and
\* memory_free_bytes report agree with the list, and with the headers they
\* account for every byte of the heap.
Accounting ==
    /\ heap.used = Bytes(heap.block, Marked(heap.block, 0))
    /\ heap.allocations = Cardinality(Marked(heap.block, 0))
    /\ first # Null => heap.used + memory_free_bytes
                         + Hdr * Cardinality(DOMAIN heap.block) = heap_bytes

\* What kmalloc hands out overlaps nothing, kfree leaves no two free blocks
\* side by side, and the walk from `first' reaches every block of a list that
\* tiles the heap.
HeapSound == Tiled /\ NoOverlap /\ Coalesced /\ NothingLost

\* No operation on one allocation changes the bytes of another: what a
\* client last wrote, had zeroed by kcalloc or had moved by krealloc is
\* still what its pointer shows.
ContentsIntact ==
    \A p \in DOMAIN held : \A c \in Cells(p, held[p].len) : heap.mem[c] = held[p].val

=============================================================================
