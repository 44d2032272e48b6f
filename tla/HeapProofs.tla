----------------------------- MODULE HeapProofs -----------------------------
(***************************************************************************)
(* Proofs about Heap, for every heap size, every set of request sizes and  *)
(* every client.  The lemmas about Split and Merge are facts about one     *)
(* block list; the lemmas about Take and Release lift them to the whole    *)
(* heap, what the clients hold included, so that kcalloc and krealloc,     *)
(* which the code builds from kmalloc and kfree, need no argument of their *)
(* own.                                                                    *)
(***************************************************************************)
EXTENDS Heap, FiniteSetTheorems, WellFoundedInduction, TLAPS

\* No block reaches into a later one, nor out of the heap.
Apart(block, bytes) ==
    /\ \A b \in DOMAIN block : BlockEnd(block, b) <= bytes
    /\ \A b, c \in DOMAIN block : b < c => BlockEnd(block, b) <= c

\* A block list the allocator may leave behind.
GoodList(block, f, bytes) ==
    /\ DOMAIN block \subseteq Nat
    /\ block \in [DOMAIN block -> Block]
    /\ f \in {Null, 0} /\ bytes \in 0..HeapMax
    /\ Linked(block, f, bytes)
    /\ Apart(block, bytes)

USE DEF Null, Hdr, Align, MinPayload

\* What the other proofs use about one block of a good list.
Fact(block, f, bytes, x) ==
    /\ x \in Nat /\ block[x] \in Block
    /\ block[x].size \in Nat /\ block[x].free \in {0, 1}
    /\ block[x].next \in Nat \cup {Null} /\ block[x].previous \in Nat \cup {Null}
    /\ x % Align = 0 /\ block[x].size % Align = 0 /\ block[x].size >= MinPayload
    /\ block[x].next = Null => x + Hdr + block[x].size = bytes
    /\ block[x].next # Null => /\ block[x].next \in DOMAIN block
                               /\ block[x].next = x + Hdr + block[x].size
                               /\ block[block[x].next].previous = x
    /\ block[x].previous = Null => x = f
    /\ block[x].previous # Null => /\ block[x].previous \in DOMAIN block
                                   /\ block[block[x].previous].next = x

\* Every block of a good list has those properties.
LEMMA ListFacts ==
    ASSUME NEW block, NEW f, NEW bytes, GoodList(block, f, bytes)
    PROVE  \A x \in DOMAIN block : Fact(block, f, bytes, x)
<1> SUFFICES ASSUME NEW x \in DOMAIN block PROVE Fact(block, f, bytes, x)
  OBVIOUS
<1>1. x \in Nat /\ block[x] \in Block
  BY DEF GoodList
<1>2. /\ block[x].size \in Nat /\ block[x].free \in {0, 1}
      /\ block[x].next \in Nat \cup {Null} /\ block[x].previous \in Nat \cup {Null}
  BY <1>1 DEF Block
<1> QED
  BY <1>1, <1>2 DEF Fact, GoodList, Linked, BlockEnd

\* The facts again give a linked list.
LEMMA FactsLinked ==
    ASSUME NEW block, NEW f, NEW bytes, f # Null => f \in DOMAIN block,
           \A x \in DOMAIN block : Fact(block, f, bytes, x)
    PROVE  Linked(block, f, bytes)
BY DEF Fact, Linked, BlockEnd

\* kmalloc's split of a block leaves a good list.
LEMMA SplitList ==
    ASSUME NEW block, NEW f, NEW bytes, GoodList(block, f, bytes),
           NEW b \in DOMAIN block, NEW wanted \in Nat,
           wanted % Align = 0, wanted >= MinPayload,
           block[b].size >= wanted + Hdr + MinPayload
    PROVE  GoodList(Split(block, b, wanted), f, bytes)
<1> DEFINE r == b + Hdr + wanted
           new == Split(block, b, wanted)
<1>f. \A x \in DOMAIN block : Fact(block, f, bytes, x)
  BY ListFacts
<1>1. /\ b \in Nat /\ r \in Nat /\ r % Align = 0
      /\ block[b] \in Block /\ block[b].size \in Nat
      /\ block[b].next \in Nat \cup {Null} /\ block[b].previous \in Nat \cup {Null}
  BY <1>f DEF Fact
<1>2. r \notin DOMAIN block /\ r # b /\ block[b].next # r /\ block[b].next # b
  <2>1. r \notin DOMAIN block
    BY <1>1 DEF GoodList, Apart, BlockEnd, Block
  <2>2. block[b].next # Null => block[b].next \in DOMAIN block /\ block[b].next # b
    BY <1>1, <1>f DEF Fact
  <2> QED
    BY <1>1, <2>1, <2>2
<1>3. DOMAIN new = DOMAIN block \cup {r}
  BY DEF Split
<1>4. new[r] = [size |-> block[b].size - wanted - Hdr, previous |-> b,
                next |-> block[b].next, free |-> 1]
  BY <1>2 DEF Split
<1>5. new[b] = [size |-> wanted, previous |-> block[b].previous, next |-> r, free |-> 0]
  BY <1>2 DEF Split
<1>6. ASSUME NEW a \in DOMAIN block, a # b
      PROVE  /\ new[a].size = block[a].size /\ new[a].next = block[a].next
             /\ new[a].free = block[a].free
             /\ new[a].previous = IF a = block[b].next THEN r ELSE block[a].previous
  <2>1. block[a] \in Block /\ a # r
    BY <1>2 DEF GoodList
  <2>2. new[a] = IF a = block[b].next THEN [block[a] EXCEPT !.previous = r] ELSE block[a]
    BY <2>1, <1>2, <1>6 DEF Split
  <2> QED
    BY <2>1, <2>2 DEF Block
<1>7. new \in [DOMAIN new -> Block] /\ DOMAIN new \subseteq Nat
  <2>1. ASSUME NEW a \in DOMAIN new PROVE new[a] \in Block
    <3>1. CASE a = r \/ a = b
      BY <3>1, <1>1, <1>4, <1>5 DEF Block
    <3>2. CASE a # r /\ a # b
      <4>1. a \in DOMAIN block /\ block[a] \in Block
        BY <3>2, <1>3 DEF GoodList
      <4>2. new[a] = IF a = block[b].next THEN [block[a] EXCEPT !.previous = r] ELSE block[a]
        BY <3>2, <4>1, <1>2 DEF Split
      <4> QED
        BY <4>1, <4>2, <1>1 DEF Block
    <3> QED
      BY <3>1, <3>2
  <2>2. new = [a \in DOMAIN new |-> new[a]]
    BY DEF Split
  <2> QED
    BY <2>1, <2>2, <1>1, <1>3 DEF GoodList
<1>8. Apart(new, bytes)
  BY <1>1, <1>2, <1>3, <1>4, <1>5, <1>6 DEF GoodList, Apart, BlockEnd, Block
<1>9. Linked(new, f, bytes)
  <2>1. SUFFICES ASSUME NEW x \in DOMAIN new PROVE Fact(new, f, bytes, x)
    <3>1. f # Null => f \in DOMAIN new
      BY <1>3 DEF GoodList, Linked
    <3> QED
      BY <3>1, FactsLinked
  <2>2. x \in Nat /\ new[x] \in Block
    BY <1>7
  <2>3. CASE x = r
    <3>1. /\ new[r].size = block[b].size - wanted - Hdr /\ new[r].previous = b
          /\ new[r].next = block[b].next /\ new[r].free = 1
      BY <1>4
    <3>2. /\ new[r].size \in Nat /\ new[r].size % Align = 0 /\ new[r].size >= MinPayload
          /\ r + Hdr + new[r].size = b + Hdr + block[b].size
      BY <3>1, <1>f, <1>1 DEF Fact
    <3>3. new[r].next = Null => r + Hdr + new[r].size = bytes
      BY ZenonT(40), <3>1, <3>2, <1>f DEF Fact
    <3>4. new[r].next # Null => /\ new[r].next \in DOMAIN new
                                /\ new[r].next = r + Hdr + new[r].size
                                /\ new[new[r].next].previous = r
      BY <3>1, <3>2, <1>f, <1>2, <1>3, <1>6 DEF Fact
    <3>5. b \in DOMAIN new /\ new[b].next = r /\ b # Null
      BY <1>1, <1>3, <1>5
    <3> HIDE DEF r, new
    <3> QED
      BY <2>2, <2>3, <3>1, <3>2, <3>3, <3>4, <3>5, <1>1 DEF Fact
  <2>4. CASE x = b
    BY <2>2, <2>4, <1>f, <1>1, <1>2, <1>3, <1>4, <1>5, <1>6 DEF Fact
  <2>5. CASE x # r /\ x # b
    BY <2>2, <2>5, <1>f, <1>1, <1>2, <1>3, <1>4, <1>5, <1>6 DEF Fact
  <2> QED
    BY <2>3, <2>4, <2>5
<1> QED
  BY <1>7, <1>8, <1>9 DEF GoodList

\* kfree's merge of two neighbours leaves a good list.
LEMMA MergeList ==
    ASSUME NEW block, NEW f, NEW bytes, GoodList(block, f, bytes),
           NEW a \in DOMAIN block, NEW n, n # Null, block[a].next = n
    PROVE  GoodList(Merge(block, a, n), f, bytes)
<1> DEFINE new == Merge(block, a, n)
           nn  == block[n].next
<1>f. \A x \in DOMAIN block : Fact(block, f, bytes, x)
  BY ListFacts
<1>1. /\ n \in DOMAIN block /\ n = a + Hdr + block[a].size /\ a \in Nat /\ n \in Nat
      /\ block[a] \in Block /\ block[n] \in Block /\ a < n
  BY <1>f DEF Fact
<1>2. nn # a /\ nn # n /\ (nn # Null => nn \in DOMAIN block /\ n < nn)
  BY <1>1, <1>f DEF Fact
<1>3. DOMAIN new = DOMAIN block \ {n}
  BY DEF Merge
<1>4. /\ new[a].size = block[a].size + Hdr + block[n].size
      /\ new[a].next = nn /\ new[a].previous = block[a].previous
      /\ new[a].free = block[a].free
  <2>1. new[a] = [block[a] EXCEPT !.size = @ + Hdr + block[n].size, !.next = nn]
    BY <1>1, <1>2 DEF Merge
  <2> QED
    BY <2>1, <1>1 DEF Block
<1>5. ASSUME NEW x \in DOMAIN new, x # a
      PROVE  /\ new[x].size = block[x].size /\ new[x].next = block[x].next
             /\ new[x].free = block[x].free
             /\ new[x].previous = IF x = nn THEN a ELSE block[x].previous
  <2>1. block[x] \in Block
    BY <1>3 DEF GoodList
  <2>2. new[x] = IF x = nn THEN [block[x] EXCEPT !.previous = a] ELSE block[x]
    BY <1>2, <1>5 DEF Merge
  <2> QED
    BY <2>1, <2>2 DEF Block
<1>6. new \in [DOMAIN new -> Block] /\ DOMAIN new \subseteq Nat
  <2>1. ASSUME NEW x \in DOMAIN new PROVE new[x] \in Block
    <3>1. x \in DOMAIN block /\ block[x] \in Block
      BY <1>3 DEF GoodList
    <3>2. new[x] = IF x = a THEN [block[a] EXCEPT !.size = @ + Hdr + block[n].size, !.next = nn]
                   ELSE IF x = nn THEN [block[x] EXCEPT !.previous = a] ELSE block[x]
      BY <1>2, <1>3 DEF Merge
    <3>3. nn \in Nat \cup {Null} /\ block[n].size \in Nat
      BY <1>1, <1>f DEF Fact
    <3>4. CASE x = a
      <4> DEFINE total == block[a].size + Hdr + block[n].size
      <4>1. total \in Nat
        BY <3>3, <1>1, <1>f DEF Fact
      <4>2. new[x] = [[block[a] EXCEPT !.size = total] EXCEPT !.next = nn]
        BY <3>1, <3>2, <3>4
      <4> HIDE DEF total
      <4>3. [block[a] EXCEPT !.size = total] \in Block
        BY <1>1, <4>1 DEF Block
      <4> QED
        BY ZenonT(40), <3>3, <4>2, <4>3 DEF Block
    <3>5. CASE x # a
      BY <3>1, <3>2, <3>5, <1>1 DEF Block
    <3> QED
      BY <3>4, <3>5
  <2>2. new = [x \in DOMAIN new |-> new[x]]
    BY DEF Merge
  <2> QED
    BY <2>1, <2>2, <1>3 DEF GoodList
<1>7. Apart(new, bytes)
  BY <1>1, <1>2, <1>3, <1>4, <1>5 DEF GoodList, Apart, BlockEnd, Block
<1>8. Linked(new, f, bytes)
  <2>1. SUFFICES ASSUME NEW x \in DOMAIN new PROVE Fact(new, f, bytes, x)
    <3>1. f # Null => f \in DOMAIN new
      BY <1>1, <1>3 DEF GoodList, Linked
    <3> QED
      BY <3>1, FactsLinked
  <2>2. x \in Nat /\ new[x] \in Block
    BY <1>6
  <2>3. CASE x = a
    <3>1. block[a].previous # n
      BY <1>f, <1>1, <1>2 DEF Fact
    <3>2. nn # Null => nn \in DOMAIN new /\ new[nn].previous = a
      BY <1>f, <1>1, <1>2, <1>3, <1>5
    <3>3. block[a].previous # Null => block[a].previous \in DOMAIN new
      BY <1>f, <1>1, <1>3, <3>1 DEF Fact
    <3>4. block[a].previous # Null => new[block[a].previous].next = a
      BY <1>f, <1>1, <1>5, <3>3 DEF Fact
    <3>5. Fact(block, f, bytes, a) /\ Fact(block, f, bytes, n)
      BY <1>f, <1>1
    <3> QED
      BY <2>2, <2>3, <1>1, <1>4, <3>2, <3>3, <3>4, <3>5 DEF Fact
  <2>4. CASE x # a
    BY <2>2, <2>4, <1>f, <1>1, <1>2, <1>3, <1>4, <1>5 DEF Fact
  <2> QED
    BY <2>3, <2>4
<1> QED
  BY <1>6, <1>7, <1>8 DEF GoodList

-----------------------------------------------------------------------------
(* Taking and releasing a block                                            *)

Settled(block) ==
    \A b \in DOMAIN block :
      block[b].free = 1 /\ block[b].next # Null => block[block[b].next].free = 0

Memory(bytes) == [Cells(0, bytes) -> Vals \cup {Zero, Stale}]

GoodHeap(h, f, bytes) ==
    /\ h = [block |-> h.block, used |-> h.used, allocations |-> h.allocations, mem |-> h.mem]
    /\ GoodList(h.block, f, bytes)
    /\ Settled(h.block)
    /\ h.used \in Int /\ h.allocations \in Nat
    /\ h.mem \in Memory(bytes)

\* A write stays inside the memory and inside the bytes it is meant for.
LEMMA StoreMemory ==
    ASSUME NEW bytes, NEW mem \in Memory(bytes), NEW a, NEW n,
           NEW v \in Vals \cup {Zero, Stale}
    PROVE  /\ Store(mem, a, n, v) \in Memory(bytes)
           /\ \A c \in DOMAIN mem : c \notin Cells(a, n) => Store(mem, a, n, v)[c] = mem[c]
           /\ \A c \in DOMAIN mem : c \in Cells(a, n) => Store(mem, a, n, v)[c] = v
BY DEF Store, Memory

\* kmalloc takes a free block: the list stays good and settled, every other
\* block keeps its size and its state, and only the free payload of the
\* block is written.
LEMMA TakeHeap ==
    ASSUME NEW h, NEW f, NEW bytes, GoodHeap(h, f, bytes),
           NEW b \in DOMAIN h.block, h.block[b].free = 1,
           NEW wanted \in Nat, wanted % Align = 0, wanted >= MinPayload,
           h.block[b].size >= wanted
    PROVE  LET new == Take(h, b, wanted)
           IN  /\ GoodHeap(new, f, bytes)
               /\ DOMAIN h.block \subseteq DOMAIN new.block
               /\ new.block[b].free = 0 /\ new.block[b].size >= wanted
               /\ \A x \in DOMAIN h.block : x # b => /\ new.block[x].free = h.block[x].free
                                                    /\ new.block[x].size = h.block[x].size
               /\ \A x \in DOMAIN new.block : x \notin DOMAIN h.block => new.block[x].free = 1
               /\ \A c \in DOMAIN h.mem :
                    c < b \/ b + Hdr + h.block[b].size <= c => new.mem[c] = h.mem[c]
<1> DEFINE new == Take(h, b, wanted)
           block == h.block
<1>f. \A x \in DOMAIN block : Fact(block, f, bytes, x)
  BY ListFacts DEF GoodHeap
<1>1. CASE block[b].size >= wanted + Hdr + MinPayload
  <2> DEFINE r == b + Hdr + wanted
             cut == Split(block, b, wanted)
  <2>1. /\ new = [block |-> cut, used |-> h.used + wanted, allocations |-> h.allocations + 1,
                  mem |-> Store(h.mem, r, Hdr, Stale)]
    BY <1>1 DEF Take
  <2>2. GoodList(cut, f, bytes)
    BY <1>1, SplitList DEF GoodHeap
  <2>3. b \in Nat /\ r \in Nat /\ block[b].size \in Nat /\ block[b].next # b /\ block[b].next # r
    BY <1>1, <1>f DEF Fact
  <2>4. r \notin DOMAIN block /\ r # b
    BY <1>1, <2>3 DEF GoodHeap, GoodList, Apart, BlockEnd
  <2>5. DOMAIN cut = DOMAIN block \cup {r}
    BY DEF Split
  <2>6. /\ cut[r] = [size |-> block[b].size - wanted - Hdr, previous |-> b,
                     next |-> block[b].next, free |-> 1]
        /\ cut[b] = [size |-> wanted, previous |-> block[b].previous, next |-> r, free |-> 0]
    BY <2>3, <2>4 DEF Split
  <2>7. ASSUME NEW x \in DOMAIN block, x # b
        PROVE  cut[x].size = block[x].size /\ cut[x].next = block[x].next
               /\ cut[x].free = block[x].free
    <3>1. block[x] \in Block /\ x # r
      BY <1>f, <2>4 DEF Fact
    <3>2. cut[x] = IF x = block[b].next THEN [block[x] EXCEPT !.previous = r] ELSE block[x]
      BY <3>1, <2>3, <2>4, <2>7 DEF Split
    <3> QED
      BY <3>1, <3>2 DEF Block
  <2>8. Settled(cut)
    <3> SUFFICES ASSUME NEW x \in DOMAIN cut, cut[x].free = 1, cut[x].next # Null
                 PROVE  cut[cut[x].next].free = 0
      BY DEF Settled
    <3>1. CASE x = r
      BY <3>1, <1>f, <2>3, <2>6, <2>7 DEF Fact, GoodHeap, Settled
    <3>2. CASE x # r
      <4>1. x \in DOMAIN block /\ x # b
        BY <3>2, <2>5, <2>6
      <4>2. cut[x].next = block[x].next /\ block[x].free = 1 /\ block[x].next \in DOMAIN block
        BY <4>1, <2>7, <1>f DEF Fact
      <4>3. block[block[x].next].free = 0
        BY <4>1, <4>2 DEF GoodHeap, Settled
      <4>4. block[x].next # b
        BY <4>3
      <4> QED
        BY <4>2, <4>3, <4>4, <2>7
    <3> QED
      BY <3>1, <3>2
  <2>9. /\ new.mem \in Memory(bytes)
        /\ \A c \in DOMAIN h.mem :
              c < b \/ b + Hdr + block[b].size <= c => new.mem[c] = h.mem[c]
    <3>1. \A c \in Cells(r, Hdr) : ~(c < b \/ b + Hdr + block[b].size <= c)
      BY <1>1, <2>3 DEF Cells
    <3> QED
      BY <3>1, <2>1, StoreMemory DEF GoodHeap
  <2>10. GoodHeap(new, f, bytes)
    BY <2>1, <2>2, <2>8, <2>9 DEF GoodHeap
  <2> QED
    BY <2>1, <2>5, <2>6, <2>7, <2>9, <2>10
<1>2. CASE ~(block[b].size >= wanted + Hdr + MinPayload)
  <2> DEFINE cut == [block EXCEPT ![b].free = 0]
  <2>1. new = [block |-> cut, used |-> h.used + block[b].size,
               allocations |-> h.allocations + 1, mem |-> h.mem]
    BY <1>2 DEF Take
  <2>2. /\ DOMAIN cut = DOMAIN block /\ cut[b].free = 0
        /\ \A x \in DOMAIN block : x # b => cut[x].free = block[x].free
        /\ \A x \in DOMAIN block : /\ cut[x] \in Block
                                   /\ cut[x].size = block[x].size
                                   /\ cut[x].next = block[x].next
                                   /\ cut[x].previous = block[x].previous
    BY <1>f DEF Fact, Block
  <2>3. GoodList(cut, f, bytes)
    BY <2>2 DEF GoodHeap, GoodList, Linked, Apart, BlockEnd
  <2>4. Settled(cut)
    BY <2>2, <1>f DEF GoodHeap, Settled, Fact
  <2>5. GoodHeap(new, f, bytes)
    BY <2>1, <2>3, <2>4, <1>f DEF GoodHeap, Fact
  <2> QED
    BY <2>1, <2>2, <2>5
<1> QED
  BY <1>1, <1>2

\* Merging neighbours a and n, both free, changes no other block's size or
\* state; a keeps its own.
LEMMA MergeFacts ==
    ASSUME NEW block, NEW f, NEW bytes, GoodList(block, f, bytes),
           NEW a \in DOMAIN block, NEW n, n # Null, block[a].next = n
    PROVE  /\ n \in DOMAIN block /\ n # a
           /\ DOMAIN Merge(block, a, n) = DOMAIN block \ {n}
           /\ Merge(block, a, n)[a].next = block[n].next
           /\ Merge(block, a, n)[a].previous = block[a].previous
           /\ \A x \in DOMAIN block \ {n} :
                /\ Merge(block, a, n)[x].free = block[x].free
                /\ x # a => /\ Merge(block, a, n)[x].size = block[x].size
                            /\ Merge(block, a, n)[x].next = block[x].next
<1> DEFINE new == Merge(block, a, n)
           nn  == block[n].next
<1>f. \A x \in DOMAIN block : Fact(block, f, bytes, x)
  BY ListFacts
<1>1. n \in DOMAIN block /\ a < n /\ a \in Nat /\ n \in Nat /\ nn # a /\ nn # n
  BY <1>f DEF Fact
<1>2. DOMAIN new = DOMAIN block \ {n}
  BY DEF Merge
<1>3. new[a] = [block[a] EXCEPT !.size = @ + Hdr + block[n].size, !.next = nn]
  BY <1>1 DEF Merge
<1>4. /\ new[a].next = nn /\ new[a].previous = block[a].previous /\ new[a].free = block[a].free
  BY <1>3, <1>f DEF Fact, Block
<1>5. ASSUME NEW x \in DOMAIN new, x # a
      PROVE  new[x].size = block[x].size /\ new[x].next = block[x].next
             /\ new[x].free = block[x].free
  <2>1. block[x] \in Block
    BY <1>2, <1>f DEF Fact
  <2>2. new[x] = IF x = nn THEN [block[x] EXCEPT !.previous = a] ELSE block[x]
    BY <1>1, <1>5 DEF Merge
  <2> QED
    BY <2>1, <2>2 DEF Block
<1> QED
  BY <1>1, <1>2, <1>4, <1>5

\* kfree gives a used block back: the list stays good, no two free blocks
\* are left side by side, every other used block stays as it is, no free
\* block becomes used, and no byte outside the block is written.
LEMMA ReleaseHeap ==
    ASSUME NEW h, NEW f, NEW bytes, GoodHeap(h, f, bytes),
           NEW b \in DOMAIN h.block, h.block[b].free = 0
    PROVE  LET new == Release(h, b)
           IN  /\ GoodHeap(new, f, bytes)
               /\ \A x \in DOMAIN h.block : x # b /\ h.block[x].free = 0 =>
                    /\ x \in DOMAIN new.block
                    /\ new.block[x].free = 0 /\ new.block[x].size = h.block[x].size
               /\ \A x \in DOMAIN new.block : new.block[x].free = 0 =>
                    x \in DOMAIN h.block /\ x # b /\ h.block[x].free = 0
               /\ \A c \in DOMAIN h.mem :
                    c < b \/ b + Hdr + h.block[b].size <= c => new.mem[c] = h.mem[c]
<1> DEFINE new   == Release(h, b)
           block == h.block
           b1    == [block EXCEPT ![b].free = 1]
           b2    == MergeNext(b1, b)
           b3    == MergePrevious(b2, b)
           Kept(bb) ==
             /\ \A x \in DOMAIN block : x # b /\ block[x].free = 0 =>
                  x \in DOMAIN bb /\ bb[x].free = 0 /\ bb[x].size = block[x].size
             /\ \A x \in DOMAIN bb : bb[x].free = 0 =>
                  x \in DOMAIN block /\ x # b /\ block[x].free = 0
<1>f. \A x \in DOMAIN block : Fact(block, f, bytes, x)
  BY ListFacts DEF GoodHeap
<1>1. /\ DOMAIN b1 = DOMAIN block /\ b1[b].free = 1
      /\ \A x \in DOMAIN block : x # b => b1[x].free = block[x].free
      /\ \A x \in DOMAIN block : /\ b1[x] \in Block
                                 /\ b1[x].size = block[x].size
                                 /\ b1[x].next = block[x].next
                                 /\ b1[x].previous = block[x].previous
  BY <1>f DEF Fact, Block
<1>2. GoodList(b1, f, bytes) /\ Kept(b1)
  <2>1. GoodList(b1, f, bytes)
    BY <1>1 DEF GoodHeap, GoodList, Linked, Apart, BlockEnd
  <2>2. Kept(b1)
    BY <1>1
  <2> QED
    BY <2>1, <2>2
\* b is the only block that may have free neighbours.
<1>3. \A x \in DOMAIN b1 : b1[x].free = 1 /\ b1[x].next # Null /\ x # b /\ b1[x].next # b
         => b1[b1[x].next].free = 0
  BY <1>1, <1>f DEF GoodHeap, Settled, Fact
<1> HIDE DEF b1
\* Once its successor is swallowed, only a predecessor may be free.
<1>4. /\ GoodList(b2, f, bytes) /\ Kept(b2) /\ b \in DOMAIN b2 /\ b2[b].free = 1
      /\ \A x \in DOMAIN b2 : b2[x].free = 1 /\ b2[x].next # Null /\ b2[x].next # b
            => b2[b2[x].next].free = 0
  <2> DEFINE n == b1[b].next
  <2>f. \A x \in DOMAIN b1 : Fact(b1, f, bytes, x)
    BY <1>2, ListFacts
  <2>1. CASE n # Null /\ b1[n].free = 1
    <3>1. b2 = Merge(b1, b, n)
      BY <2>1 DEF MergeNext
    <3>2. GoodList(b2, f, bytes)
      BY <3>1, <2>1, <1>1, <1>2, MergeList
    <3>3. /\ n \in DOMAIN b1 /\ n # b /\ DOMAIN b2 = DOMAIN b1 \ {n} /\ b2[b].next = b1[n].next
          /\ \A x \in DOMAIN b2 : /\ b2[x].free = b1[x].free
                                  /\ x # b => /\ b2[x].size = b1[x].size
                                              /\ b2[x].next = b1[x].next
      <4>1. b \in DOMAIN b1
        BY <1>1
      <4>2. GoodList(b1, f, bytes)
        BY <1>2
      <4> HIDE DEF Kept, b2
      <4> QED
        BY <4>1, <4>2, <3>1, <2>1, MergeFacts
    <3>4. Kept(b2)
      BY <3>3, <2>1, <1>1, <1>2
    <3>5. ASSUME NEW x \in DOMAIN b2, b2[x].free = 1, b2[x].next # Null, b2[x].next # b
          PROVE  b2[b2[x].next].free = 0
      <4>f. \A y \in DOMAIN b2 : Fact(b2, f, bytes, y)
        BY <3>2, ListFacts
      <4>1. b2[x].next \in DOMAIN b2
        BY <3>5, <4>f DEF Fact
      <4>2. CASE x = b
        BY <4>1, <4>2, <3>3, <3>5, <2>1, <1>3
      <4>3. CASE x # b
        BY <4>1, <4>3, <3>3, <3>5, <1>3
      <4> QED
        BY <4>2, <4>3
    <3> QED
      BY <3>2, <3>3, <3>4, <3>5, <1>1
  <2>2. CASE ~(n # Null /\ b1[n].free = 1)
    <3>1. b2 = b1
      BY <2>2 DEF MergeNext
    <3>2. n # Null => n \in DOMAIN b1 /\ b1[n].free \in {0, 1}
      BY <2>f, <1>1 DEF Fact
    <3> HIDE DEF b2
    <3> QED
      BY <3>1, <3>2, <2>2, <1>1, <1>2, <1>3
  <2> QED
    BY <2>1, <2>2
<1> HIDE DEF b2
<1>5. GoodList(b3, f, bytes) /\ Kept(b3) /\ Settled(b3)
  <2> DEFINE p == b2[b].previous
  <2>f. \A x \in DOMAIN b2 : Fact(b2, f, bytes, x)
    BY <1>4, ListFacts
  <2>0. b \in Nat /\ (p # Null => p \in DOMAIN b2 /\ b2[p].next = b /\ b2[p].free \in {0, 1})
    BY <2>f, <1>4 DEF Fact
  <2>1. CASE p # Null /\ b2[p].free = 1
    <3>1. b3 = Merge(b2, p, b)
      BY <2>1 DEF MergePrevious
    <3>2. b # Null
      BY <2>0
    <3>3. GoodList(b3, f, bytes)
      BY <3>1, <3>2, <2>0, <2>1, <1>4, MergeList
    <3>4. /\ p # b /\ DOMAIN b3 = DOMAIN b2 \ {b} /\ b3[p].next = b2[b].next
          /\ \A x \in DOMAIN b3 : /\ b3[x].free = b2[x].free
                                  /\ x # p => /\ b3[x].size = b2[x].size
                                              /\ b3[x].next = b2[x].next
      BY <3>1, <3>2, <2>0, <2>1, <1>4, MergeFacts
    <3>5. Kept(b3)
      BY <3>4, <2>1, <1>4
    <3>6. ASSUME NEW x \in DOMAIN b3, b3[x].free = 1, b3[x].next # Null
          PROVE  b3[b3[x].next].free = 0
      <4>f. \A y \in DOMAIN b3 : Fact(b3, f, bytes, y)
        BY <3>3, ListFacts
      <4>1. b3[x].next \in DOMAIN b3 /\ b3[x].next # b
        BY <3>4, <3>6, <4>f DEF Fact
      <4>2. CASE x = p
        BY <4>1, <4>2, <3>4, <3>6, <1>4
      <4>3. CASE x # p
        BY <4>1, <4>3, <3>4, <3>6, <1>4
      <4> QED
        BY <4>2, <4>3
    <3> QED
      BY <3>3, <3>5, <3>6 DEF Settled
  <2>2. CASE ~(p # Null /\ b2[p].free = 1)
    <3>1. b3 = b2
      BY <2>2 DEF MergePrevious
    <3>2. ASSUME NEW x \in DOMAIN b2, b2[x].free = 1, b2[x].next = b
          PROVE  x = p /\ p # Null
      BY <3>2, <2>f, <2>0 DEF Fact
    <3>3. Settled(b2)
      BY <3>2, <2>2, <1>4 DEF Settled
    <3> HIDE DEF b3
    <3> QED
      BY <3>1, <3>3, <1>4
  <2> QED
    BY <2>1, <2>2
<1> HIDE DEF b3
<1>6. new = [block |-> b3, used |-> h.used - block[b].size,
             allocations |-> IF h.allocations > 0 THEN h.allocations - 1 ELSE 0,
             mem |-> Store(h.mem, b + Hdr, block[b].size, Stale)]
  BY DEF Release, b1, b2, b3
<1>7. /\ new.mem \in Memory(bytes)
      /\ \A c \in DOMAIN h.mem :
            c < b \/ b + Hdr + block[b].size <= c => new.mem[c] = h.mem[c]
  <2>1. \A c \in Cells(b + Hdr, block[b].size) : ~(c < b \/ b + Hdr + block[b].size <= c)
    BY <1>f DEF Cells, Fact
  <2> QED
    BY <2>1, <1>6, StoreMemory DEF GoodHeap
<1>8. GoodHeap(new, f, bytes)
  <2>1. block[b].size \in Nat
    BY <1>f DEF Fact
  <2> QED
    BY <2>1, <1>5, <1>6, <1>7 DEF GoodHeap
<1>9. new.block = b3
  BY <1>6
<1> QED
  BY <1>5, <1>7, <1>8, <1>9

-----------------------------------------------------------------------------
(* What the clients hold                                                   *)

Claim == [cap : Nat, len : Nat, val : Vals \cup {Zero}]

\* The pointers the clients hold are those of the used blocks, and a client
\* asked for no more than its block has.
Owned(block, own) ==
    /\ DOMAIN own \subseteq Nat
    /\ own \in [DOMAIN own -> Claim]
    /\ \A p \in DOMAIN own :
         /\ p - Hdr \in DOMAIN block /\ block[p - Hdr].free = 0
         /\ own[p].len <= own[p].cap /\ own[p].cap <= block[p - Hdr].size
    /\ \A b \in DOMAIN block : block[b].free = 0 => b + Hdr \in DOMAIN own

Shown(mem, own) ==
    \A p \in DOMAIN own : \A c \in Cells(p, own[p].len) : mem[c] = own[p].val

Sound(h, own, f, bytes) ==
    GoodHeap(h, f, bytes) /\ Owned(h.block, own) /\ Shown(h.mem, own)

\* A client's cells lie in its block, hence in the memory and apart from
\* every other block.
LEMMA ClientCells ==
    ASSUME NEW h, NEW own, NEW f, NEW bytes,
           GoodHeap(h, f, bytes), Owned(h.block, own),
           NEW p \in DOMAIN own, NEW n \in Nat, n <= h.block[p - Hdr].size
    PROVE  /\ Cells(p, n) \subseteq DOMAIN h.mem
           /\ \A c \in Cells(p, n) : \A b \in DOMAIN h.block :
                b # p - Hdr => c < b \/ b + Hdr + h.block[b].size <= c
<1>f. \A x \in DOMAIN h.block : Fact(h.block, f, bytes, x)
  BY ListFacts DEF GoodHeap
<1>1. /\ p \in Nat /\ p - Hdr \in DOMAIN h.block /\ p - Hdr \in Nat
      /\ h.block[p - Hdr].size \in Nat
  BY <1>f DEF Owned, Fact
<1>2. p + h.block[p - Hdr].size <= bytes /\ bytes \in 0..HeapMax
  BY <1>1 DEF GoodHeap, GoodList, Apart, BlockEnd
<1>3. DOMAIN h.mem = Cells(0, bytes)
  BY DEF GoodHeap, Memory
<1>4. Cells(p, n) \subseteq DOMAIN h.mem
  BY <1>1, <1>2, <1>3, HeapAssumption DEF Cells
<1>5. ASSUME NEW c \in Cells(p, n), NEW b \in DOMAIN h.block, b # p - Hdr
      PROVE  c < b \/ b + Hdr + h.block[b].size <= c
  <2>1. c \in Int /\ p <= c /\ c < p + h.block[p - Hdr].size /\ b \in Nat /\ h.block[b].size \in Nat
    BY <1>1, <1>f, HeapAssumption DEF Cells, Fact
  <2>2. CASE b < p - Hdr
    BY <2>1, <2>2, <1>1 DEF GoodHeap, GoodList, Apart, BlockEnd
  <2>3. CASE p - Hdr < b
    BY <2>1, <2>3, <1>1 DEF GoodHeap, GoodList, Apart, BlockEnd
  <2> QED
    BY <1>1, <1>5, <2>1, <2>2, <2>3
<1> QED
  BY <1>4, <1>5

\* A client's new pointer with nothing known about its bytes.
Grant(own, q, size) ==
    [p \in DOMAIN own \cup {q} |->
       IF p = q THEN [cap |-> size, len |-> 0, val |-> Zero] ELSE own[p]]

\* The rest of kmalloc, seen with its clients.
LEMMA TakeSound ==
    ASSUME NEW h, NEW own, NEW f, NEW bytes, Sound(h, own, f, bytes),
           NEW b \in DOMAIN h.block, h.block[b].free = 1,
           NEW wanted \in Nat, wanted % Align = 0, wanted >= MinPayload,
           h.block[b].size >= wanted, NEW size \in Nat, size <= wanted
    PROVE  /\ Sound(Take(h, b, wanted), Grant(own, b + Hdr, size), f, bytes)
           /\ b + Hdr \notin DOMAIN own
<1> DEFINE new == Take(h, b, wanted)
           q   == b + Hdr
           gr  == Grant(own, q, size)
<1>f. \A x \in DOMAIN h.block : Fact(h.block, f, bytes, x)
  BY ListFacts DEF Sound, GoodHeap
<1>1. q \notin DOMAIN own /\ b \in Nat
  BY <1>f DEF Sound, Owned, Fact
<1>2. GoodHeap(h, f, bytes) /\ Owned(h.block, own) /\ Shown(h.mem, own)
  BY DEF Sound
<1>3. /\ GoodHeap(new, f, bytes)
      /\ DOMAIN h.block \subseteq DOMAIN new.block
      /\ new.block[b].free = 0 /\ new.block[b].size >= wanted
      /\ \A x \in DOMAIN h.block : x # b => /\ new.block[x].free = h.block[x].free
                                           /\ new.block[x].size = h.block[x].size
      /\ \A x \in DOMAIN new.block : x \notin DOMAIN h.block => new.block[x].free = 1
      /\ \A c \in DOMAIN h.mem :
           c < b \/ b + Hdr + h.block[b].size <= c => new.mem[c] = h.mem[c]
  BY <1>2, TakeHeap
<1> HIDE DEF new
<1>g. new.block[b].size \in Nat
  BY <1>3, ListFacts DEF GoodHeap, Fact
<1>4. /\ DOMAIN gr = DOMAIN own \cup {q}
      /\ gr[q] = [cap |-> size, len |-> 0, val |-> Zero]
      /\ \A p \in DOMAIN own : p # q => gr[p] = own[p]
  BY DEF Grant
<1>5. gr \in [DOMAIN gr -> Claim] /\ DOMAIN gr \subseteq Nat
  BY <1>1, <1>2 DEF Grant, Owned, Claim
<1>6. Owned(new.block, gr)
  <2>1. ASSUME NEW p \in DOMAIN gr
        PROVE  /\ p - Hdr \in DOMAIN new.block /\ new.block[p - Hdr].free = 0
               /\ gr[p].len <= gr[p].cap /\ gr[p].cap <= new.block[p - Hdr].size
    <3>1. CASE p = q
      BY <3>1, <1>1, <1>3, <1>4, <1>g
    <3>2. CASE p # q
      <4>1. p \in DOMAIN own /\ gr[p] = own[p] /\ p - Hdr # b
        BY <3>2, <1>1, <1>2, <1>4, <1>5 DEF Owned
      <4> QED
        BY <4>1, <1>2, <1>3 DEF Owned
    <3> QED
      BY <3>1, <3>2
  <2>2. ASSUME NEW x \in DOMAIN new.block, new.block[x].free = 0
        PROVE  x + Hdr \in DOMAIN gr
    BY <2>2, <1>2, <1>3, <1>4 DEF Owned
  <2> QED
    BY <2>1, <2>2, <1>5 DEF Owned
<1>7. Shown(new.mem, gr)
  <2> SUFFICES ASSUME NEW p \in DOMAIN gr, NEW c \in Cells(p, gr[p].len)
               PROVE  new.mem[c] = gr[p].val
    BY DEF Shown
  <2>1. CASE p = q
    BY <2>1, <1>1, <1>4 DEF Cells
  <2>2. CASE p # q
    <3>1. p \in DOMAIN own /\ gr[p] = own[p] /\ p - Hdr # b
      BY <2>2, <1>1, <1>2, <1>4, <1>5 DEF Owned
    <3>2. own[p].len \in Nat /\ own[p].len <= h.block[p - Hdr].size
      <4>1. own[p] \in Claim /\ p - Hdr \in DOMAIN h.block
        BY <3>1, <1>2 DEF Owned
      <4>2. own[p].len \in Nat /\ own[p].cap \in Nat /\ h.block[p - Hdr].size \in Nat
        BY <4>1, <1>f DEF Claim, Fact
      <4> QED
        BY <3>1, <4>2, <1>2 DEF Owned
    <3>3. c \in DOMAIN h.mem /\ (c < b \/ b + Hdr + h.block[b].size <= c)
      BY <3>1, <3>2, <1>2, ClientCells
    <3> QED
      BY <3>1, <3>3, <1>2, <1>3 DEF Shown
  <2> QED
    BY <2>1, <2>2
<1> QED
  BY <1>1, <1>3, <1>6, <1>7 DEF Sound, new

\* The numbers of a client's claim and of its block.
LEMMA ClaimFacts ==
    ASSUME NEW h, NEW own, NEW f, NEW bytes,
           GoodHeap(h, f, bytes), Owned(h.block, own), NEW p \in DOMAIN own
    PROVE  /\ p \in Nat /\ p - Hdr \in DOMAIN h.block /\ p - Hdr \in Nat
           /\ own[p] \in Claim /\ own[p].len \in Nat /\ own[p].cap \in Nat
           /\ own[p].val \in Vals \cup {Zero}
           /\ h.block[p - Hdr].size \in Nat /\ h.block[p - Hdr].free = 0
           /\ own[p].len <= own[p].cap /\ own[p].cap <= h.block[p - Hdr].size
<1>1. /\ p \in Nat /\ p - Hdr \in DOMAIN h.block /\ h.block[p - Hdr].free = 0
      /\ own[p] \in Claim
      /\ own[p].len <= own[p].cap /\ own[p].cap <= h.block[p - Hdr].size
  BY DEF Owned
<1>2. own[p].len \in Nat /\ own[p].cap \in Nat /\ own[p].val \in Vals \cup {Zero}
  BY <1>1 DEF Claim
<1>3. p - Hdr \in Nat /\ h.block[p - Hdr].size \in Nat
  BY <1>1, ListFacts DEF GoodHeap, Fact
<1> QED
  BY <1>1, <1>2, <1>3

\* Writing memory within the block of one client, to a claim of that client
\* that the memory now shows, leaves everything sound.
LEMMA WriteSound ==
    ASSUME NEW h, NEW own, NEW f, NEW bytes, Sound(h, own, f, bytes),
           NEW p \in DOMAIN own, NEW mem \in Memory(bytes), NEW claim \in Claim,
           claim.len <= claim.cap, claim.cap <= h.block[p - Hdr].size,
           \A c \in DOMAIN h.mem :
              c \notin Cells(p, h.block[p - Hdr].size) => mem[c] = h.mem[c],
           \A c \in Cells(p, claim.len) : mem[c] = claim.val
    PROVE  Sound([h EXCEPT !.mem = mem], [own EXCEPT ![p] = claim], f, bytes)
<1> DEFINE new == [h EXCEPT !.mem = mem]
           ow2 == [own EXCEPT ![p] = claim]
<1>1. GoodHeap(h, f, bytes) /\ Owned(h.block, own) /\ Shown(h.mem, own)
  BY DEF Sound
<1>2. new = [block |-> h.block, used |-> h.used, allocations |-> h.allocations, mem |-> mem]
  BY <1>1 DEF GoodHeap
<1>3. GoodHeap(new, f, bytes)
  BY <1>1, <1>2 DEF GoodHeap
<1>4. Owned(h.block, ow2)
  BY <1>1 DEF Owned
<1>5. ASSUME NEW x \in DOMAIN ow2, NEW c \in Cells(x, ow2[x].len)
      PROVE  mem[c] = ow2[x].val
  <2>1. CASE x = p
    BY <2>1
  <2>2. CASE x # p
    <3>1. ow2[x] = own[x] /\ x \in DOMAIN own
      BY <2>2
    <3>2. /\ x \in Nat /\ p \in Nat /\ own[x].len \in Nat /\ own[x].cap \in Nat
          /\ own[x].len <= h.block[x - Hdr].size
          /\ p - Hdr \in DOMAIN h.block /\ p - Hdr \in Nat /\ h.block[p - Hdr].size \in Nat
      <4>1. /\ p \in Nat /\ p - Hdr \in DOMAIN h.block /\ p - Hdr \in Nat
            /\ h.block[p - Hdr].size \in Nat
        BY <1>1, ClaimFacts
      <4>2. /\ x \in Nat /\ own[x].len \in Nat /\ own[x].cap \in Nat
            /\ h.block[x - Hdr].size \in Nat
            /\ own[x].len <= own[x].cap /\ own[x].cap <= h.block[x - Hdr].size
        BY <3>1, <1>1, ClaimFacts
      <4> QED
        BY <4>1, <4>2
    <3>3. c \in DOMAIN h.mem /\ (c < p - Hdr \/ p + h.block[p - Hdr].size <= c)
      <4>1. p - Hdr # x - Hdr
        BY <2>2, <3>2
      <4>2. c \in Cells(x, own[x].len)
        BY <3>1
      <4>3. c \in DOMAIN h.mem /\ (c < p - Hdr \/ (p - Hdr) + Hdr + h.block[p - Hdr].size <= c)
        BY <4>1, <4>2, <3>1, <3>2, <1>1, ClientCells
      <4> QED
        BY <4>3, <3>2
    <3>4. c \notin Cells(p, h.block[p - Hdr].size)
      BY <3>2, <3>3, HeapAssumption DEF Cells
    <3>5. h.mem[c] = own[x].val
      BY <3>1, <1>1 DEF Shown
    <3> QED
      BY <3>1, <3>3, <3>4, <3>5
  <2> QED
    BY <2>1, <2>2
<1>6. Shown(mem, ow2)
  BY <1>5 DEF Shown
<1> QED
  BY <1>2, <1>3, <1>4, <1>6 DEF Sound

\* kfree, seen with its clients.
LEMMA ReleaseSound ==
    ASSUME NEW h, NEW own, NEW f, NEW bytes, Sound(h, own, f, bytes), NEW p \in DOMAIN own
    PROVE  Sound(Release(h, p - Hdr), [x \in DOMAIN own \ {p} |-> own[x]], f, bytes)
<1> DEFINE b   == p - Hdr
           new == Release(h, b)
           ow2 == [x \in DOMAIN own \ {p} |-> own[x]]
<1>1. GoodHeap(h, f, bytes) /\ Owned(h.block, own) /\ Shown(h.mem, own)
  BY DEF Sound
<1>2. p \in Nat /\ b \in DOMAIN h.block /\ b \in Nat /\ h.block[b].free = 0
  BY <1>1, ClaimFacts
<1>3. /\ GoodHeap(new, f, bytes)
      /\ \A x \in DOMAIN h.block : x # b /\ h.block[x].free = 0 =>
           /\ x \in DOMAIN new.block
           /\ new.block[x].free = 0 /\ new.block[x].size = h.block[x].size
      /\ \A x \in DOMAIN new.block : new.block[x].free = 0 =>
           x \in DOMAIN h.block /\ x # b /\ h.block[x].free = 0
      /\ \A c \in DOMAIN h.mem :
           c < b \/ b + Hdr + h.block[b].size <= c => new.mem[c] = h.mem[c]
  BY <1>1, <1>2, ReleaseHeap
<1> HIDE DEF new
<1>4. Owned(new.block, ow2)
  <2>1. DOMAIN ow2 \subseteq Nat /\ ow2 \in [DOMAIN ow2 -> Claim]
    BY <1>1 DEF Owned
  <2>2. ASSUME NEW x \in DOMAIN ow2
        PROVE  /\ x - Hdr \in DOMAIN new.block /\ new.block[x - Hdr].free = 0
               /\ ow2[x].len <= ow2[x].cap /\ ow2[x].cap <= new.block[x - Hdr].size
    <3>1. x - Hdr # b
      BY <1>1, <1>2 DEF Owned
    <3> QED
      BY <3>1, <1>1, <1>3 DEF Owned
  <2>3. ASSUME NEW y \in DOMAIN new.block, new.block[y].free = 0
        PROVE  y + Hdr \in DOMAIN ow2
    <3>1. y \in DOMAIN h.block /\ y # b /\ h.block[y].free = 0
      BY <2>3, <1>3
    <3>2. y \in Nat
      BY <3>1, <1>1, ListFacts DEF GoodHeap, Fact
    <3> QED
      BY <3>1, <3>2, <1>1, <1>2 DEF Owned
  <2> QED
    BY <2>1, <2>2, <2>3 DEF Owned
<1>5. Shown(new.mem, ow2)
  <2> SUFFICES ASSUME NEW x \in DOMAIN ow2, NEW c \in Cells(x, ow2[x].len)
               PROVE  new.mem[c] = ow2[x].val
    BY DEF Shown
  <2>1. /\ x \in DOMAIN own /\ ow2[x] = own[x] /\ x \in Nat /\ own[x].len \in Nat
        /\ own[x].len <= h.block[x - Hdr].size
    <3>1. x \in DOMAIN own /\ ow2[x] = own[x]
      OBVIOUS
    <3>2. /\ x \in Nat /\ own[x].len \in Nat /\ own[x].cap \in Nat
          /\ h.block[x - Hdr].size \in Nat
          /\ own[x].len <= own[x].cap /\ own[x].cap <= h.block[x - Hdr].size
      BY <3>1, <1>1, ClaimFacts
    <3> QED
      BY <3>1, <3>2
  <2>2. b # x - Hdr
    BY <2>1, <1>2
  <2>3. c \in DOMAIN h.mem /\ (c < b \/ b + Hdr + h.block[b].size <= c)
    BY <2>1, <2>2, <1>1, <1>2, ClientCells
  <2> QED
    BY <2>1, <2>3, <1>1, <1>3 DEF Shown
<1> QED
  BY <1>3, <1>4, <1>5 DEF Sound, new

\* krealloc's copy: client q, whose block is large enough, now shows what
\* client p shows.
LEMMA CopySound ==
    ASSUME NEW h, NEW own, NEW f, NEW bytes, Sound(h, own, f, bytes),
           NEW p \in DOMAIN own, NEW q \in DOMAIN own,
           NEW size \in Nat, h.block[p - Hdr].size < size, size <= h.block[q - Hdr].size
    PROVE  Sound([h EXCEPT !.mem = Copy(h.mem, q, p, h.block[p - Hdr].size)],
                 [own EXCEPT ![q] = [cap |-> size, len |-> own[p].len, val |-> own[p].val]],
                 f, bytes)
<1> DEFINE n     == h.block[p - Hdr].size
           mem   == Copy(h.mem, q, p, n)
           claim == [cap |-> size, len |-> own[p].len, val |-> own[p].val]
<1>1. GoodHeap(h, f, bytes) /\ Owned(h.block, own) /\ Shown(h.mem, own)
  BY DEF Sound
<1>2. /\ p \in Nat /\ p - Hdr \in Nat /\ p - Hdr \in DOMAIN h.block /\ n \in Nat
      /\ own[p].len \in Nat /\ own[p].cap \in Nat /\ own[p].val \in Vals \cup {Zero}
      /\ own[p].len <= own[p].cap /\ own[p].cap <= n
  BY <1>1, ClaimFacts
<1>3. /\ q \in Nat /\ q - Hdr \in Nat /\ q - Hdr \in DOMAIN h.block
      /\ h.block[q - Hdr].size \in Nat
  BY <1>1, ClaimFacts
<1>4. p % Align = 0 /\ q % Align = 0
  <2>1. (p - Hdr) % Align = 0 /\ (q - Hdr) % Align = 0
    BY <1>1, <1>2, <1>3, ListFacts DEF GoodHeap, Fact
  <2> QED
    BY <2>1, <1>2, <1>3
<1>5. ASSUME NEW m \in Nat, m <= n, NEW c \in Cells(q, m)
      PROVE  c - q + p \in Cells(p, m) /\ c - q + p \in DOMAIN h.mem
  <2>1. c \in Int /\ c % Align = 0 /\ q <= c /\ c < q + m
    BY <1>3, HeapAssumption DEF Cells
  <2>2. (c - q + p) % Align = 0
    BY <2>1, <1>2, <1>3, <1>4
  <2>3. p - Hdr + Hdr + n <= HeapMax
    BY <1>1, <1>2, HeapAssumption DEF GoodHeap, GoodList, Apart, BlockEnd
  <2>4. c - q + p \in Cells(p, m)
    BY <2>1, <2>2, <2>3, <1>2, <1>3, <1>5, HeapAssumption DEF Cells
  <2>5. Cells(p, m) \subseteq DOMAIN h.mem
    BY <1>1, <1>5, ClientCells
  <2> QED
    BY <2>4, <2>5
<1>6. h.mem \in Memory(bytes)
  BY <1>1 DEF GoodHeap
<1>7. mem \in Memory(bytes)
  <2>1. \A c \in Cells(q, n) : c - q + p \in DOMAIN h.mem
    BY <1>2, <1>5
  <2> QED
    BY <2>1, <1>6 DEF Copy, Memory
<1>8. ASSUME NEW c \in DOMAIN h.mem, c \notin Cells(q, h.block[q - Hdr].size)
      PROVE  mem[c] = h.mem[c]
  <2>1. c \notin Cells(q, n)
    BY <1>2, <1>3, <1>8, HeapAssumption DEF Cells
  <2> QED
    BY <2>1 DEF Copy
<1>9. ASSUME NEW c \in Cells(q, claim.len)
      PROVE  mem[c] = claim.val
  <2>1. c \in Cells(q, n) /\ c - q + p \in Cells(p, own[p].len)
    <3>1. own[p].len <= n
      BY <1>2
    <3>2. c - q + p \in Cells(p, own[p].len)
      BY <3>1, <1>2, <1>5
    <3>3. c \in Cells(q, n)
      BY <3>1, <1>2, <1>3, HeapAssumption DEF Cells
    <3> QED
      BY <3>2, <3>3
  <2>2. c \in DOMAIN h.mem
    <3>1. n <= h.block[q - Hdr].size
      BY <1>2, <1>3
    <3> QED
      BY <2>1, <3>1, <1>1, <1>2, ClientCells
  <2>3. mem[c] = h.mem[c - q + p]
    BY <2>1, <2>2 DEF Copy
  <2>4. h.mem[c - q + p] = own[p].val
    BY <2>1, <1>1 DEF Shown
  <2> QED
    BY <2>3, <2>4
<1>10. claim \in Claim /\ claim.len <= claim.cap /\ claim.cap <= h.block[q - Hdr].size
  BY <1>2 DEF Claim
<1> HIDE DEF mem, claim
<1>11. Sound([h EXCEPT !.mem = mem], [own EXCEPT ![q] = claim], f, bytes)
  BY <1>7, <1>8, <1>9, <1>10, WriteSound
<1> QED
  BY <1>11 DEF mem, claim

-----------------------------------------------------------------------------
(* The invariant and the actions                                           *)

IInv == Sound(heap, held, first, heap_bytes)

\* memory_init leaves one free block or no list at all.
LEMMA InitIInv == HeapInit => IInv
<1> SUFFICES ASSUME NEW available \in Available, memory_init(available) PROVE IInv
  BY DEF HeapInit
<1> DEFINE bytes == RoundDown(IF available # 0 /\ available \div 8 < HeapMax
                              THEN available \div 8 ELSE HeapMax)
           small == bytes <= Hdr + MinPayload
<1>1. bytes \in 0..HeapMax /\ bytes % Align = 0
  <2>1. available \div 8 \in Nat
    BY HeapAssumption
  <2> DEFINE n == IF available # 0 /\ available \div 8 < HeapMax
                  THEN available \div 8 ELSE HeapMax
  <2>2. n \in 0..HeapMax
    BY <2>1, HeapAssumption
  <2> HIDE DEF n
  <2>3. RoundDown(n) \in 0..HeapMax /\ RoundDown(n) % Align = 0
    BY <2>2, HeapAssumption DEF RoundDown
  <2> QED
    BY <2>3 DEF n
<1>2. /\ heap_bytes = bytes /\ first = IF small THEN Null ELSE 0
      /\ heap = [block |-> [a \in (IF small THEN {} ELSE {0}) |->
                               [size |-> bytes - Hdr, previous |-> Null,
                                next |-> Null, free |-> 1]],
                 used |-> 0, allocations |-> 0,
                 mem |-> [c \in Cells(0, bytes) |-> Stale]]
      /\ held = [p \in {} |-> 0]
  BY DEF memory_init
<1> HIDE DEF bytes
<1>3. GoodHeap(heap, first, heap_bytes)
  <2>1. DOMAIN heap.block = IF small THEN {} ELSE {0}
    BY <1>2
  <2>2. ~small => heap.block[0] = [size |-> bytes - Hdr, previous |-> Null,
                                   next |-> Null, free |-> 1]
    BY <1>2
  <2>3. heap.block \in [DOMAIN heap.block -> Block] /\ DOMAIN heap.block \subseteq Nat
    BY <1>1, <1>2 DEF Block
  <2>4. Linked(heap.block, first, heap_bytes) /\ Apart(heap.block, heap_bytes)
    BY <1>1, <1>2, <2>1, <2>2 DEF Linked, Apart, BlockEnd
  <2>5. Settled(heap.block)
    BY <2>1, <2>2 DEF Settled
  <2>6. heap.mem \in Memory(heap_bytes)
    BY <1>2 DEF Memory
  <2> QED
    BY <1>1, <1>2, <2>3, <2>4, <2>5, <2>6 DEF GoodHeap, GoodList
<1>4. Owned(heap.block, held) /\ Shown(heap.mem, held)
  <2>1. DOMAIN held = {}
    BY <1>2
  <2>2. \A b \in DOMAIN heap.block : heap.block[b].free = 1
    BY <1>2
  <2> QED
    BY <2>1, <2>2, <1>2 DEF Owned, Shown
<1> QED
  BY <1>3, <1>4 DEF IInv, Sound

\* align_up rounds up to a whole number of cells, or reports an overflow.
LEMMA AlignUpFacts ==
    ASSUME NEW size \in Nat, size # 0, align_up(size) # 0
    PROVE  /\ align_up(size) \in Nat /\ align_up(size) % Align = 0
           /\ align_up(size) >= MinPayload /\ size <= align_up(size)
BY HeapAssumption DEF align_up, RoundDown

\* A successful kmalloc: the block is free and large enough, so taking it
\* is sound.
LEMMA AllocatesSound ==
    ASSUME IInv, NEW size \in Nat, NEW b \in DOMAIN heap.block, Allocates(size, b)
    PROVE  /\ Sound(Take(heap, b, align_up(size)), Grant(held, b + Hdr, size),
                    first, heap_bytes)
           /\ b + Hdr \notin DOMAIN held
           /\ align_up(size) \in Nat /\ size <= align_up(size)
           /\ Take(heap, b, align_up(size)).block[b].size >= align_up(size)
           /\ \A x \in DOMAIN heap.block : x # b =>
                Take(heap, b, align_up(size)).block[x].size = heap.block[x].size
<1>1. /\ heap.block[b].free = 1 /\ heap.block[b].size >= align_up(size)
      /\ size # 0 /\ align_up(size) # 0
  BY DEF Allocates, FirstFit, Fits
<1>2. /\ align_up(size) \in Nat /\ align_up(size) % Align = 0
      /\ align_up(size) >= MinPayload /\ size <= align_up(size)
  BY <1>1, AlignUpFacts
<1>3. GoodHeap(heap, first, heap_bytes)
  BY DEF IInv, Sound
<1>4. /\ Sound(Take(heap, b, align_up(size)), Grant(held, b + Hdr, size), first, heap_bytes)
      /\ b + Hdr \notin DOMAIN held
  BY <1>1, <1>2, TakeSound DEF IInv
<1>5. /\ Take(heap, b, align_up(size)).block[b].size >= align_up(size)
      /\ \A x \in DOMAIN heap.block : x # b =>
                Take(heap, b, align_up(size)).block[x].size = heap.block[x].size
  BY <1>1, <1>2, <1>3, TakeHeap
<1> QED
  BY <1>2, <1>4, <1>5

\* kmalloc keeps the invariant, whether it succeeds or not.
LEMMA KmallocIInv ==
    ASSUME IInv, NEW size \in Nat, kmalloc(size)
    PROVE  IInv'
<1>1. ASSUME NEW b \in DOMAIN heap.block, Allocates(size, b),
             heap' = Take(heap, b, align_up(size)), held' = Grant(held, b + Hdr, size),
             UNCHANGED <<heap_bytes, first>>
      PROVE  IInv'
  BY <1>1, AllocatesSound DEF IInv
<1>2. CASE UNCHANGED allocator
  BY <1>2 DEF IInv, allocator
<1> QED
  BY ZenonT(40), <1>1, <1>2 DEF kmalloc, Grant

\* kfree keeps the invariant, for a pointer in use and for any other.
LEMMA KfreeIInv ==
    ASSUME IInv, NEW p \in Int, kfree(p)
    PROVE  IInv'
<1>1. CASE /\ Hdr <= p /\ p < heap_bytes /\ InUse(heap.block, first, p)
           /\ heap' = Release(heap, p - Hdr)
           /\ held' = [q \in DOMAIN held \ {p} |-> held[q]]
           /\ UNCHANGED <<heap_bytes, first>>
  <2>1. (p - Hdr) + Hdr \in DOMAIN held
    BY <1>1 DEF InUse, IInv, Sound, Owned
  <2> QED
    BY <1>1, <2>1, ReleaseSound DEF IInv
<1>2. CASE UNCHANGED allocator
  BY <1>2 DEF IInv, allocator
<1> QED
  BY <1>1, <1>2 DEF kfree

\* kcalloc is kmalloc and a write within the new block.
LEMMA KcallocIInv ==
    ASSUME IInv, NEW count \in Nat, NEW size \in Nat, kcalloc(count, size)
    PROVE  IInv'
<1> DEFINE n == count * size
<1>1. n \in Nat
  OBVIOUS
<1> HIDE DEF n
<1>2. ASSUME NEW b \in DOMAIN heap.block, Allocates(n, b),
             heap' = [Take(heap, b, align_up(n)) EXCEPT !.mem = Store(@, b + Hdr, n, Zero)],
             held' = [p \in DOMAIN held \cup {b + Hdr} |->
                        IF p = b + Hdr THEN [cap |-> n, len |-> n, val |-> Zero]
                        ELSE held[p]],
             UNCHANGED <<heap_bytes, first>>
      PROVE  IInv'
  <2> DEFINE q     == b + Hdr
             taken == Take(heap, b, align_up(n))
             gr    == Grant(held, q, n)
             claim == [cap |-> n, len |-> n, val |-> Zero]
             mem   == Store(taken.mem, q, n, Zero)
  <2>1. /\ Sound(taken, gr, first, heap_bytes) /\ q \in DOMAIN gr
        /\ align_up(n) \in Nat /\ n <= align_up(n)
        /\ taken.block[b].size >= align_up(n)
    BY <1>1, <1>2, AllocatesSound DEF Grant
  <2> HIDE DEF taken
  <2>2. b \in Nat /\ q - Hdr = b
    BY DEF IInv, Sound, GoodHeap, GoodList
  <2>3. GoodHeap(taken, first, heap_bytes) /\ Owned(taken.block, gr)
    BY <2>1 DEF Sound
  <2>4. taken.block[b].size \in Nat /\ taken.mem \in Memory(heap_bytes)
    <3>1. taken.block[q - Hdr].size \in Nat
      BY <2>1, <2>3, ClaimFacts
    <3> QED
      BY <3>1, <2>2, <2>3 DEF GoodHeap
  <2>5. n <= taken.block[b].size
    BY <1>1, <2>1, <2>4
  <2>6. mem \in Memory(heap_bytes)
    BY <2>4, StoreMemory
  <2>7. Cells(q, n) \subseteq DOMAIN taken.mem
    BY <1>1, <2>1, <2>2, <2>3, <2>5, ClientCells
  <2>8. \A c \in Cells(q, n) : mem[c] = Zero
    BY <2>4, <2>7, StoreMemory
  <2>9. ASSUME NEW c \in DOMAIN taken.mem, c \notin Cells(q, taken.block[q - Hdr].size)
        PROVE  mem[c] = taken.mem[c]
    <3>1. c \notin Cells(q, n)
      BY <2>9, <1>1, <2>2, <2>4, <2>5, HeapAssumption DEF Cells
    <3> QED
      BY <3>1, <2>4, StoreMemory
  <2>10. claim \in Claim /\ claim.len <= claim.cap /\ claim.cap <= taken.block[q - Hdr].size
         /\ claim.len = n /\ claim.val = Zero
    BY <1>1, <2>2, <2>5 DEF Claim
  <2> HIDE DEF mem, claim, gr, q
  <2>11. Sound([taken EXCEPT !.mem = mem], [gr EXCEPT ![q] = claim], first, heap_bytes)
    BY <2>1, <2>6, <2>8, <2>9, <2>10, WriteSound
  <2>12. heap' = [taken EXCEPT !.mem = mem]
    BY <1>2 DEF mem, taken, q
  <2>13. held' = [gr EXCEPT ![q] = claim]
    BY ZenonT(40), <1>2 DEF gr, claim, q, Grant
  <2> QED
    BY ZenonT(40), <1>2, <2>11, <2>12, <2>13 DEF IInv
<1>3. CASE UNCHANGED allocator
  BY <1>3 DEF IInv, allocator
<1> QED
  BY ZenonT(40), <1>2, <1>3 DEF kcalloc, n

\* A client's own write keeps the invariant.
LEMMA FillIInv ==
    ASSUME IInv, NEW p, NEW v \in Vals, Fill(p, v)
    PROVE  IInv'
<1> DEFINE n     == held[p].cap
           claim == [cap |-> n, len |-> n, val |-> v]
           mem   == Store(heap.mem, p, n, v)
<1>1. /\ p \in DOMAIN held /\ UNCHANGED <<heap_bytes, first>>
      /\ heap' = [heap EXCEPT !.mem = mem]
      /\ held' = [held EXCEPT ![p].len = n, ![p].val = v]
  BY DEF Fill
<1>2. GoodHeap(heap, first, heap_bytes) /\ Owned(heap.block, held)
  BY DEF IInv, Sound
<1>3. /\ p \in Nat /\ n \in Nat /\ held[p] \in Claim /\ n <= heap.block[p - Hdr].size
      /\ heap.block[p - Hdr].size \in Nat
  BY <1>1, <1>2, ClaimFacts
<1>4. held' = [held EXCEPT ![p] = claim]
  <2>1. held[p] = [cap |-> n, len |-> held[p].len, val |-> held[p].val]
    BY <1>3 DEF Claim
  <2>2. /\ DOMAIN held' = DOMAIN held /\ \A x \in DOMAIN held : x # p => held'[x] = held[x]
        /\ held'[p] = [[held[p] EXCEPT !.len = n] EXCEPT !.val = v]
        /\ held' = [x \in DOMAIN held' |-> held'[x]]
    BY ZenonT(40), <1>1
  <2>3. held'[p] = claim
    BY ZenonT(40), <2>1, <2>2
  <2> HIDE DEF claim
  <2> QED
    BY <2>2, <2>3
<1>5. heap.mem \in Memory(heap_bytes)
  BY <1>2 DEF GoodHeap
<1>6. mem \in Memory(heap_bytes)
  BY <1>5, StoreMemory
<1>7. Cells(p, n) \subseteq DOMAIN heap.mem
  BY <1>1, <1>2, <1>3, ClientCells
<1>8. \A c \in Cells(p, n) : mem[c] = v
  BY <1>5, <1>7, StoreMemory
<1>9. ASSUME NEW c \in DOMAIN heap.mem, c \notin Cells(p, heap.block[p - Hdr].size)
      PROVE  mem[c] = heap.mem[c]
  <2>1. c \notin Cells(p, n)
    BY <1>9, <1>3, HeapAssumption DEF Cells
  <2> QED
    BY <2>1, <1>5, StoreMemory
<1>10. /\ claim \in Claim /\ claim.len <= claim.cap /\ claim.cap <= heap.block[p - Hdr].size
       /\ claim.len = n /\ claim.val = v
  BY <1>3 DEF Claim
<1> HIDE DEF mem, claim, n
<1>11. Sound([heap EXCEPT !.mem = mem], [held EXCEPT ![p] = claim], first, heap_bytes)
  BY ZenonT(40), <1>1, <1>6, <1>8, <1>9, <1>10, WriteSound DEF IInv
<1> QED
  BY ZenonT(40), <1>1, <1>4, <1>11 DEF IInv

\* krealloc of a pointer in use: in place only the claim changes, a move is
\* kmalloc, the copy and kfree, and a failure changes nothing.
LEMMA ResizeIInv ==
    ASSUME IInv, NEW p \in DOMAIN held, NEW size \in Nat, Resize(p, size)
    PROVE  IInv'
<1>1. GoodHeap(heap, first, heap_bytes) /\ Owned(heap.block, held) /\ Shown(heap.mem, held)
  BY DEF IInv, Sound
<1>2. /\ p \in Nat /\ p - Hdr \in DOMAIN heap.block /\ p - Hdr \in Nat
      /\ held[p] \in Claim /\ held[p].len \in Nat /\ held[p].cap \in Nat
      /\ held[p].val \in Vals \cup {Zero}
      /\ heap.block[p - Hdr].size \in Nat /\ heap.block[p - Hdr].free = 0
      /\ held[p].len <= held[p].cap /\ held[p].cap <= heap.block[p - Hdr].size
  BY <1>1, ClaimFacts
<1>3. held[p] = [cap |-> held[p].cap, len |-> held[p].len, val |-> held[p].val]
  BY <1>2 DEF Claim
<1>4. CASE /\ heap.block[p - Hdr].size >= size
           /\ held' = [held EXCEPT ![p].cap = size, ![p].len = IF @ < size THEN @ ELSE size]
           /\ UNCHANGED <<heap_bytes, first, heap>>
  <2> DEFINE len   == IF held[p].len < size THEN held[p].len ELSE size
             claim == [cap |-> size, len |-> len, val |-> held[p].val]
  <2>1. /\ DOMAIN held' = DOMAIN held /\ \A x \in DOMAIN held : x # p => held'[x] = held[x]
        /\ held'[p] = [[held[p] EXCEPT !.cap = size] EXCEPT !.len = len]
        /\ held' = [x \in DOMAIN held' |-> held'[x]]
    BY ZenonT(40), <1>3, <1>4
  <2>2. held'[p] = claim
    BY ZenonT(40), <1>3, <2>1
  <2>3. held' = [held EXCEPT ![p] = claim]
    <3> HIDE DEF claim
    <3> QED
      BY <2>1, <2>2
  <2>4. /\ claim \in Claim /\ claim.len <= claim.cap /\ claim.cap <= heap.block[p - Hdr].size
        /\ claim.len = len /\ claim.val = held[p].val /\ len \in Nat /\ len <= held[p].len
    BY <1>2, <1>4 DEF Claim
  <2>5. ASSUME NEW c \in Cells(p, len) PROVE heap.mem[c] = held[p].val
    <3>1. c \in Cells(p, held[p].len)
      BY <1>2, <2>4, HeapAssumption DEF Cells
    <3> QED
      BY <3>1, <1>1 DEF Shown
  <2>6. heap.mem \in Memory(heap_bytes)
    BY <1>1 DEF GoodHeap
  <2> HIDE DEF claim, len
  <2>7. Sound([heap EXCEPT !.mem = heap.mem], [held EXCEPT ![p] = claim], first, heap_bytes)
    BY <2>4, <2>5, <2>6, WriteSound DEF IInv
  <2>8. heap = [heap EXCEPT !.mem = heap.mem]
    BY <1>1 DEF GoodHeap
  <2> QED
    BY ZenonT(40), <1>4, <2>3, <2>7, <2>8 DEF IInv
<1>5. ASSUME heap.block[p - Hdr].size < size,
             NEW b \in DOMAIN heap.block, Allocates(size, b),
             LET taken == Take(heap, b, align_up(size))
             IN  heap' = Release([taken EXCEPT !.mem =
                                    Copy(@, b + Hdr, p, taken.block[p - Hdr].size)], p - Hdr),
             held' = [x \in (DOMAIN held \cup {b + Hdr}) \ {p} |->
                        IF x = b + Hdr THEN [held[p] EXCEPT !.cap = size] ELSE held[x]],
             UNCHANGED <<heap_bytes, first>>
      PROVE  IInv'
  <2> DEFINE q      == b + Hdr
             taken  == Take(heap, b, align_up(size))
             gr     == Grant(held, q, size)
             copied == [taken EXCEPT !.mem = Copy(taken.mem, q, p, taken.block[p - Hdr].size)]
             claim  == [cap |-> size, len |-> gr[p].len, val |-> gr[p].val]
             own    == [gr EXCEPT ![q] = claim]
  <2>1. /\ Sound(taken, gr, first, heap_bytes) /\ q \notin DOMAIN held
        /\ align_up(size) \in Nat /\ size <= align_up(size)
        /\ taken.block[b].size >= align_up(size)
        /\ \A x \in DOMAIN heap.block : x # b => taken.block[x].size = heap.block[x].size
    BY <1>5, AllocatesSound
  <2>2. p \in DOMAIN gr /\ q \in DOMAIN gr /\ gr[p] = held[p] /\ p # q
    BY <2>1 DEF Grant
  <2>3. b \in Nat /\ q - Hdr = b /\ p - Hdr # b
    <3>1. b \in Nat
      BY <1>1 DEF GoodHeap, GoodList
    <3> QED
      BY <3>1, <1>2, <2>2
  <2> HIDE DEF taken, gr
  <2>4. taken.block[p - Hdr].size < size /\ size <= taken.block[q - Hdr].size
    <3>1. taken.block[q - Hdr].size \in Nat
      BY <2>1, <2>2, ClaimFacts DEF Sound
    <3> QED
      BY <3>1, <1>2, <1>5, <2>1, <2>3
  <2>5. Sound(copied, own, first, heap_bytes)
    BY <2>1, <2>2, <2>4, CopySound
  <2>6. p \in DOMAIN own /\ DOMAIN own = DOMAIN held \cup {q}
    BY <2>2 DEF gr, Grant
  <2> HIDE DEF copied
  <2>7. Sound(Release(copied, p - Hdr), [x \in DOMAIN own \ {p} |-> own[x]],
              first, heap_bytes)
    <3> HIDE DEF own
    <3> QED
      BY <2>5, <2>6, ReleaseSound
  <2>8. heap' = Release(copied, p - Hdr)
    BY <1>5 DEF copied, taken
  <2>9. held' = [x \in DOMAIN own \ {p} |-> own[x]]
    <3>1. [held[p] EXCEPT !.cap = size] = claim
      BY <1>3, <2>2
    <3>2. own[q] = claim /\ \A x \in DOMAIN held : x # q => own[x] = held[x]
      BY <2>2 DEF gr, Grant
    <3> HIDE DEF own, claim
    <3> QED
      BY <1>5, <2>6, <3>1, <3>2
  <2> QED
    BY <1>5, <2>7, <2>8, <2>9 DEF IInv
<1>6. CASE UNCHANGED allocator
  BY <1>6 DEF IInv, allocator
<1> QED
  BY ZenonT(40), <1>4, <1>5, <1>6 DEF Resize

\* Every step keeps the invariant.
LEMMA NextIInv == IInv /\ [HeapNext]_allocator => IInv'
<1> SUFFICES ASSUME IInv, [HeapNext]_allocator PROVE IInv'
  OBVIOUS
<1>0. Sizes \subseteq Nat /\ Counts \subseteq Nat /\ Pointers \subseteq Int
  BY HeapAssumption DEF Pointers, Cells
<1>1. ASSUME NEW size \in Sizes, kmalloc(size) PROVE IInv'
  BY <1>0, <1>1, KmallocIInv
<1>2. ASSUME NEW count \in Counts, NEW size \in Sizes, kcalloc(count, size) PROVE IInv'
  BY <1>0, <1>2, KcallocIInv
<1>3. ASSUME NEW p \in Pointers, kfree(p) PROVE IInv'
  BY <1>0, <1>3, KfreeIInv
<1>4. ASSUME NEW p \in Pointers \cup {Null}, NEW size \in Sizes, krealloc(p, size) PROVE IInv'
  <2>0. p \in Int /\ size \in Nat
    BY <1>0
  <2>1. CASE kmalloc(size)
    BY <2>0, <2>1, KmallocIInv
  <2>2. CASE kfree(p)
    BY <2>0, <2>2, KfreeIInv
  <2>3. CASE UNCHANGED allocator
    BY <2>3 DEF IInv, allocator
  <2>4. CASE InUse(heap.block, first, p) /\ Resize(p, size)
    <3>1. (p - Hdr) + Hdr \in DOMAIN held
      BY <2>4 DEF InUse, IInv, Sound, Owned
    <3>2. p \in DOMAIN held
      BY <2>0, <3>1
    <3> QED
      BY <2>0, <2>4, <3>2, ResizeIInv
  <2> QED
    BY <1>4, <2>1, <2>2, <2>3, <2>4 DEF krealloc
<1>5. ASSUME NEW p \in Pointers, NEW v \in Vals, Fill(p, v) PROVE IInv'
  BY <1>5, FillIInv
<1>6. CASE UNCHANGED allocator
  BY <1>6 DEF IInv, allocator
<1> QED
  BY <1>1, <1>2, <1>3, <1>4, <1>5, <1>6 DEF HeapNext

-----------------------------------------------------------------------------
(* The walk along the list                                                 *)

\* A set of natural numbers that is not empty has a least element.
LEMMA LeastElement ==
    ASSUME NEW T \in SUBSET Nat, T # {}
    PROVE  \E x \in T : \A y \in T : x <= y
<1> DEFINE R == OpToRel(<, Nat)
<1>1. IsWellFoundedOn(R, Nat)
  BY ZenonT(40), NatLessThanWellFounded
<1>2. \A x, y \in Nat : <<y, x>> \in R <=> y < x
  BY DEF OpToRel
<1> HIDE DEF R
<1>3. PICK x \in T : \A y \in T : ~ (<<y, x>> \in R)
  BY ZenonT(40), <1>1, WFMin
<1>4. ASSUME NEW y \in T PROVE ~(y < x)
  <2>1. x \in Nat /\ y \in Nat
    OBVIOUS
  <2>2. <<y, x>> \in R <=> y < x
    BY <1>2, <2>1, Zenon
  <2> QED
    BY <1>3, <2>2, Zenon
<1> QED
  BY <1>4

\* Induction over the natural numbers, for a set.
LEMMA SetInduction ==
    ASSUME NEW S, 0 \in S, \A n \in Nat : n \in S => n + 1 \in S
    PROVE  Nat \subseteq S
<1> DEFINE T == Nat \ S
<1>1. SUFFICES ASSUME T # {} PROVE FALSE
  OBVIOUS
<1>2. PICK x \in T : \A y \in T : x <= y
  BY ZenonT(40), LeastElement, <1>1
<1>3. x \in Nat /\ x # 0 /\ x - 1 \in Nat /\ x - 1 \notin T
  BY <1>2
<1> QED
  BY <1>2, <1>3

\* One step of the walk along `next'.
Step(block, x) == IF x = Null THEN Null ELSE block[x].next

IsWalk(block, f, k, g) ==
    g = [n \in 0..k |-> IF n = 0 THEN f ELSE Step(block, g[n - 1])]

LEMMA WalkExists ==
    ASSUME NEW block, NEW f
    PROVE  \A k \in Nat : \E g : IsWalk(block, f, k, g)
<1> DEFINE S == {k \in Nat : \E g : IsWalk(block, f, k, g)}
<1>1. 0 \in S
  <2> DEFINE g == [n \in 0..0 |-> f]
  <2>1. IsWalk(block, f, 0, g)
    BY DEF IsWalk
  <2> QED
    BY <2>1
<1>2. ASSUME NEW k \in Nat, k \in S PROVE k + 1 \in S
  <2>1. PICK g : IsWalk(block, f, k, g)
    BY <1>2
  <2> DEFINE h == [n \in 0..(k + 1) |-> IF n <= k THEN g[n] ELSE Step(block, g[k])]
  <2>2. \A n \in 0..(k + 1) : n # 0 => n - 1 \in 0..k /\ h[n - 1] = g[n - 1]
    OBVIOUS
  <2>3. \A n \in 0..k : g[n] = IF n = 0 THEN f ELSE Step(block, g[n - 1])
    BY <2>1 DEF IsWalk
  <2>4. \A n \in 0..(k + 1) : h[n] = IF n = 0 THEN f ELSE Step(block, h[n - 1])
    <3> SUFFICES ASSUME NEW n \in 0..(k + 1)
                 PROVE  h[n] = IF n = 0 THEN f ELSE Step(block, h[n - 1])
      OBVIOUS
    <3>1. CASE n <= k
      BY <3>1, <2>2, <2>3
    <3>2. CASE n = k + 1
      BY <3>2, <2>2
    <3> QED
      BY <3>1, <3>2
  <2>5. IsWalk(block, f, k + 1, h)
    BY <2>4 DEF IsWalk
  <2> QED
    BY <2>5
<1> QED
  BY ZenonT(40), <1>1, <1>2, SetInduction

\* The recursion that Walk is defined by.
LEMMA WalkSteps ==
    ASSUME NEW block, NEW f, Cardinality(DOMAIN block) \in Nat
    PROVE  IsWalk(block, f, Cardinality(DOMAIN block), Walk(block, f))
<1> DEFINE k == Cardinality(DOMAIN block)
<1>1. \E g : IsWalk(block, f, k, g)
  BY WalkExists
<1>2. Walk(block, f) = CHOOSE g : IsWalk(block, f, k, g)
  BY DEF Walk, IsWalk, Step
<1> QED
  BY <1>1, <1>2

\* A good list has finitely many blocks.
LEMMA ListFinite ==
    ASSUME NEW block, NEW f, NEW bytes, GoodList(block, f, bytes)
    PROVE  IsFiniteSet(DOMAIN block)
<1>1. \A x \in DOMAIN block : Fact(block, f, bytes, x)
  BY ListFacts
<1>2. bytes \in Nat
  BY HeapAssumption DEF GoodList
<1>3. ASSUME NEW x \in DOMAIN block PROVE x <= bytes
  <2>1. x \in Nat /\ block[x].size \in Nat
    BY <1>1 DEF Fact
  <2>2. x + Hdr + block[x].size <= bytes
    BY DEF GoodList, Apart, BlockEnd
  <2> QED
    BY <1>2, <2>1, <2>2
<1> QED
  BY <1>2, <1>3, FS_BoundedSetOfNaturals DEF GoodList

\* The blocks in front of block b.
Before(block, b) == {c \in DOMAIN block : c < b}

\* The walk comes to a block when it has passed the ones in front of it.
LEMMA WalkReaches ==
    ASSUME NEW block, NEW f, NEW bytes, GoodList(block, f, bytes)
    PROVE  \A b \in DOMAIN block : Reached(block, f, b)
<1> DEFINE k == Cardinality(DOMAIN block)
           w == Walk(block, f)
           At(b) == Cardinality(Before(block, b))
           T == {b \in DOMAIN block : w[At(b)] # b}
<1>1. \A x \in DOMAIN block : Fact(block, f, bytes, x)
  BY ListFacts
<1>2. IsFiniteSet(DOMAIN block) /\ DOMAIN block \in SUBSET Nat
  BY ListFinite DEF GoodList
<1>3. k \in Nat
  BY <1>2, FS_CardinalityType
<1>4. IsWalk(block, f, k, w)
  BY <1>3, WalkSteps
<1>5. \A b \in DOMAIN block : /\ IsFiniteSet(Before(block, b))
                              /\ At(b) \in 0..k
  <2> SUFFICES ASSUME NEW b \in DOMAIN block
               PROVE  IsFiniteSet(Before(block, b)) /\ At(b) \in 0..k
    OBVIOUS
  <2>1. Before(block, b) \in SUBSET DOMAIN block
    BY DEF Before
  <2>2. IsFiniteSet(Before(block, b)) /\ At(b) <= k
    BY <1>2, <2>1, FS_Subset
  <2>3. At(b) \in Nat
    BY <2>2, FS_CardinalityType
  <2> QED
    BY <2>2, <2>3, <1>3
<1>6. T = {}
  <2> SUFFICES ASSUME T # {} PROVE FALSE
    OBVIOUS
  <2>1. PICK b \in T : \A c \in T : b <= c
    <3> T \in SUBSET Nat
      BY <1>2
    <3> QED
      BY ZenonT(40), LeastElement
  <2>2. Fact(block, f, bytes, b) /\ b \in DOMAIN block
    BY <1>1
  <2>3. CASE block[b].previous = Null
    <3>1. b = f /\ b = 0
      <4>1. b = f /\ b \in Nat
        BY <2>2, <2>3 DEF Fact
      <4>2. f \in {Null, 0}
        BY DEF GoodList
      <4> QED
        BY <4>1, <4>2
    <3>2. Before(block, b) = {}
      BY <3>1, <1>2 DEF Before
    <3>3. At(b) = 0
      BY <3>2, FS_EmptySet
    <3>4. w[0] = f
      BY <1>3, <1>4 DEF IsWalk
    <3> QED
      BY <3>1, <3>3, <3>4
  <2>4. CASE block[b].previous # Null
    <3>1. PICK p \in DOMAIN block : block[p].next = b
      BY <2>2, <2>4 DEF Fact
    <3>2. Fact(block, f, bytes, p)
      BY <1>1
    <3>3. p \in Nat /\ b \in Nat /\ block[p].size \in Nat /\ b = p + Hdr + block[p].size
      <4>1. p \in Nat /\ b \in Nat /\ block[p].size \in Nat
        BY <3>2, <2>2 DEF Fact
      <4>2. block[p].next # Null => block[p].next = p + Hdr + block[p].size
        BY <3>2 DEF Fact
      <4> QED
        BY <4>1, <4>2, <3>1
    <3>4. p < b /\ p \notin T
      BY <3>3, <2>1
    <3>5. w[At(p)] = p
      BY <3>4
    <3>6. Before(block, b) = Before(block, p) \cup {p}
      <4>1. \A c \in DOMAIN block : c < b <=> c < p \/ c = p
        <5> SUFFICES ASSUME NEW c \in DOMAIN block PROVE c < b <=> c < p \/ c = p
          OBVIOUS
        <5>1. c \in Nat /\ (p < c => BlockEnd(block, p) <= c)
          BY <3>1, <1>2 DEF GoodList, Apart
        <5> QED
          BY <5>1, <3>3 DEF BlockEnd
      <4> QED
        BY <4>1, <3>1 DEF Before
    <3>7. At(b) = At(p) + 1
      <4>1. p \notin Before(block, p)
        BY <3>3 DEF Before
      <4> QED
        BY ZenonT(40), <4>1, <3>6, <3>1, <1>5, FS_AddElement
    <3>8. w[At(b)] = Step(block, w[At(b) - 1])
      <4>1. At(b) \in 0..k /\ At(b) # 0
        BY <3>7, <3>1, <1>5
      <4> HIDE DEF w, At, k
      <4> QED
        BY ZenonT(40), <4>1, <1>4 DEF IsWalk
    <3>9. w[At(b)] = Step(block, p)
      <4>1. At(b) - 1 = At(p)
        BY <3>7, <3>1, <1>5
      <4> QED
        BY <4>1, <3>8, <3>5
    <3> QED
      BY <3>9, <3>1, <3>3 DEF Step
  <2> QED
    BY <2>3, <2>4
<1> SUFFICES ASSUME NEW b \in DOMAIN block PROVE Reached(block, f, b)
  OBVIOUS
<1>7. w[At(b)] = b /\ At(b) \in 0..k
  BY <1>6, <1>5
<1>8. DOMAIN w = 0..k
  BY <1>4 DEF IsWalk
<1> QED
  BY <1>7, <1>8 DEF Reached

-----------------------------------------------------------------------------
(* The theorems                                                            *)

\* The invariant holds in every state the kernel reaches.
THEOREM Invariance == HeapSpec => []IInv
BY InitIInv, NextIInv, PTL DEF HeapSpec

\* The heap's types: headers, counters and memory stay well formed whatever
\* sequence of kmalloc, kcalloc, krealloc and kfree is made.
THEOREM TypeCorrect == HeapSpec => []HeapTypeOK
<1>1. IInv => HeapTypeOK
  <2> SUFFICES ASSUME IInv PROVE HeapTypeOK
    OBVIOUS
  <2>1. GoodHeap(heap, first, heap_bytes) /\ Owned(heap.block, held)
    BY DEF IInv, Sound
  <2> QED
    BY <2>1 DEF HeapTypeOK, GoodHeap, GoodList, Owned, Claim, Memory
<1> QED
  BY <1>1, Invariance, PTL

\* The block list tiles the heap and is linked both ways, after any split
\* in kmalloc and any merge in kfree.
THEOREM TiledAlways == HeapSpec => []Tiled
<1>1. IInv => Tiled
  BY DEF IInv, Sound, GoodHeap, GoodList, Tiled
<1> QED
  BY <1>1, Invariance, PTL

\* kfree leaves no two free blocks side by side.
THEOREM CoalescedAlways == HeapSpec => []Coalesced
<1>1. IInv => Coalesced
  BY DEF IInv, Sound, GoodHeap, Settled, Coalesced
<1> QED
  BY <1>1, Invariance, PTL

\* Two allocations never overlap, nor does one leave the heap or run into
\* the header of another block.
THEOREM NoOverlapAlways == HeapSpec => []NoOverlap
<1>1. IInv => NoOverlap
  <2> SUFFICES ASSUME IInv, NEW p \in DOMAIN held
               PROVE  /\ p >= Hdr /\ p + held[p].cap <= heap_bytes
                      /\ \A q \in DOMAIN held : p # q =>
                           p + held[p].cap <= q - Hdr \/ q + held[q].cap <= p - Hdr
    BY DEF NoOverlap
  <2>1. GoodHeap(heap, first, heap_bytes) /\ Owned(heap.block, held)
    BY DEF IInv, Sound
  <2>2. heap_bytes \in Nat /\ Apart(heap.block, heap_bytes)
    BY <2>1, HeapAssumption DEF GoodHeap, GoodList
  <2>3. \A q \in DOMAIN held :
          /\ q \in Nat /\ q - Hdr \in DOMAIN heap.block /\ q - Hdr \in Nat
          /\ held[q].cap \in Nat /\ heap.block[q - Hdr].size \in Nat
          /\ held[q].cap <= heap.block[q - Hdr].size
    BY <2>1, ClaimFacts
  <2>4. p >= Hdr /\ p + held[p].cap <= heap_bytes
    BY <2>2, <2>3 DEF Apart, BlockEnd
  <2>5. ASSUME NEW q \in DOMAIN held, p # q
        PROVE  p + held[p].cap <= q - Hdr \/ q + held[q].cap <= p - Hdr
    <3>1. p - Hdr < q - Hdr \/ q - Hdr < p - Hdr
      BY <2>3, <2>5
    <3> QED
      BY <3>1, <2>2, <2>3 DEF Apart, BlockEnd
  <2> QED
    BY <2>4, <2>5
<1> QED
  BY <1>1, Invariance, PTL

\* Every block stays within reach of the walk from `first', the blocks in use
\* are the ones that clients hold, and what they have all given back is one
\* block again: kfree and kmalloc lose no memory.
THEOREM NothingLostAlways == HeapSpec => []NothingLost
<1>1. IInv => NothingLost
  <2> SUFFICES ASSUME IInv PROVE NothingLost
    OBVIOUS
  <2> DEFINE block == heap.block
  <2>1. GoodList(block, first, heap_bytes) /\ Settled(block) /\ Owned(block, held)
    BY DEF IInv, Sound, GoodHeap
  <2>2. \A x \in DOMAIN block : Fact(block, first, heap_bytes, x)
    BY <2>1, ListFacts
  <2>3. \A b \in DOMAIN block : Reached(block, first, b)
    BY <2>1, WalkReaches
  <2> HIDE DEF block
  <2>4. {p - Hdr : p \in DOMAIN held} = {b \in DOMAIN block : block[b].free = 0}
    <3>1. ASSUME NEW p \in DOMAIN held PROVE p - Hdr \in DOMAIN block /\ block[p - Hdr].free = 0
      BY <2>1 DEF Owned
    <3>2. ASSUME NEW b \in DOMAIN block, block[b].free = 0
          PROVE  \E p \in DOMAIN held : b = p - Hdr
      <4>1. b + Hdr \in DOMAIN held
        BY <2>1, <3>2 DEF Owned
      <4>2. b \in Nat
        BY <2>2 DEF Fact
      <4> QED
        BY <4>1, <4>2
    <3> QED
      BY <3>1, <3>2
  <2>5. ASSUME held = [p \in {} |-> 0], first # Null
        PROVE  block = [a \in {0} |-> [size |-> heap_bytes - Hdr, previous |-> Null,
                                       next |-> Null, free |-> 1]]
    <3>1. first = 0 /\ first \in DOMAIN block
      BY <2>1, <2>5 DEF GoodList, Linked
    <3>2. ASSUME NEW b \in DOMAIN block PROVE block[b].free = 1 /\ block[b].next = Null
      <4>1. \A c \in DOMAIN block : block[c].free = 1
        <5> SUFFICES ASSUME NEW c \in DOMAIN block PROVE block[c].free = 1
          OBVIOUS
        <5>1. block[c].free \in {0, 1}
          BY <2>2 DEF Fact
        <5>2. block[c].free # 0
          BY <2>5, <2>1 DEF Owned
        <5> QED
          BY <5>1, <5>2
      <4>2. block[b].next # Null => block[b].next \in DOMAIN block /\ block[block[b].next].free = 0
        BY <4>1, <2>1, <2>2 DEF Fact, Settled
      <4> QED
        BY <4>1, <4>2
    <3>3. ASSUME NEW b \in DOMAIN block PROVE b = 0 /\ block[b].previous = Null
      <4>1. block[b].previous # Null => /\ block[b].previous \in DOMAIN block
                                        /\ block[block[b].previous].next = b
        BY <2>2 DEF Fact
      <4>2. b # Null
        BY <2>2 DEF Fact
      <4>3. block[b].previous = Null
        BY <4>1, <4>2, <3>2
      <4> QED
        BY <4>3, <2>2, <3>1 DEF Fact
    <3>4. DOMAIN block = {0}
      BY <3>1, <3>3
    <3>5. block[0] \in Block /\ block[0].size \in Nat /\ 0 + Hdr + block[0].size = heap_bytes
      BY <3>1, <3>2, <2>2 DEF Fact
    <3>6. block[0] = [size |-> heap_bytes - Hdr, previous |-> Null, next |-> Null, free |-> 1]
      <4>1. block[0].size = heap_bytes - Hdr
        BY <3>5
      <4>2. block[0] = [size |-> block[0].size, previous |-> block[0].previous,
                        next |-> block[0].next, free |-> block[0].free]
        BY <3>5 DEF Block
      <4> QED
        BY <4>1, <4>2, <3>1, <3>2, <3>3
    <3>7. block = [a \in DOMAIN block |-> block[a]]
      BY <2>1 DEF GoodList
    <3> QED
      BY <3>4, <3>6, <3>7
  <2> QED
    BY <2>3, <2>4, <2>5 DEF NothingLost, block
<1> QED
  BY <1>1, Invariance, PTL

\* The heap as a whole: the list tiles it, allocations are disjoint, free
\* neighbours are merged and no block is out of reach.
THEOREM HeapSoundAlways == HeapSpec => []HeapSound
<1>1. Tiled /\ NoOverlap /\ Coalesced /\ NothingLost => HeapSound
  BY DEF HeapSound
<1> QED
  BY <1>1, TiledAlways, NoOverlapAlways, CoalescedAlways, NothingLostAlways, PTL

\* What a client wrote, had zeroed by kcalloc or had moved by krealloc is
\* what its pointer shows until the client itself changes or frees it.
THEOREM ContentsIntactAlways == HeapSpec => []ContentsIntact
<1>1. IInv => ContentsIntact
  BY DEF IInv, Sound, Shown, ContentsIntact
<1> QED
  BY <1>1, Invariance, PTL

=============================================================================
