-------------------------- MODULE HeapCountProofs ---------------------------
(***************************************************************************)
(* The figures that the allocator reports, proved from the inductive       *)
(* invariant of HeapProofs: the sizes of a set of blocks add up by a       *)
(* recursion over the set, every operation moves the counters by the block *)
(* it takes or gives back, and blocks and headers together cover the heap. *)
(***************************************************************************)
EXTENDS HeapProofs

USE DEF Null, Hdr, Align, MinPayload

-----------------------------------------------------------------------------
(* The bytes of a set of blocks                                            *)

\* The block that the sum takes first, and the recursion that it follows.
Pick(s) == CHOOSE x \in s : TRUE

IsSum(block, S, g) ==
    g = [s \in SUBSET S |-> IF s = {} THEN 0 ELSE block[Pick(s)].size + g[s \ {Pick(s)}]]

\* The sum of a finite set of blocks exists.
LEMMA SumExists ==
    ASSUME NEW block, NEW S, IsFiniteSet(S)
    PROVE  \E g : IsSum(block, S, g)
<1> DEFINE D(n) == {s \in SUBSET S : Cardinality(s) <= n}
           Sum(n, g) == g = [s \in D(n) |-> IF s = {} THEN 0
                                            ELSE block[Pick(s)].size + g[s \ {Pick(s)}]]
           T == {n \in Nat : \E g : Sum(n, g)}
<1>1. ASSUME NEW s \in SUBSET S
      PROVE  /\ IsFiniteSet(s) /\ Cardinality(s) \in Nat
             /\ Cardinality(s) = 0 <=> s = {}
             /\ s # {} => /\ Pick(s) \in s /\ s \ {Pick(s)} \in SUBSET S
                          /\ Cardinality(s \ {Pick(s)}) = Cardinality(s) - 1
  <2>1. IsFiniteSet(s) /\ Cardinality(s) \in Nat
    BY FS_Subset, FS_CardinalityType
  <2>2. Cardinality(s) = 0 <=> s = {}
    BY <2>1, FS_EmptySet
  <2>3. s # {} => Pick(s) \in s
    BY DEF Pick
  <2> QED
    BY ZenonT(40), <2>1, <2>2, <2>3, FS_RemoveElement
<1>2. 0 \in T
  <2> DEFINE g == [s \in D(0) |-> 0]
  <2>1. ASSUME NEW s \in D(0) PROVE s = {}
    <3>1. s \in SUBSET S /\ Cardinality(s) <= 0
      OBVIOUS
    <3>2. Cardinality(s) \in Nat /\ (Cardinality(s) = 0 <=> s = {})
      BY ZenonT(40), <1>1, <3>1
    <3> QED
      BY <3>1, <3>2
  <2>2. Sum(0, g)
    BY <2>1
  <2> QED
    BY ZenonT(40), <2>2
<1>3. ASSUME NEW n \in Nat, n \in T PROVE n + 1 \in T
  <2>1. PICK g : Sum(n, g)
    BY ZenonT(40), <1>3
  <2> DEFINE h == [s \in D(n + 1) |-> IF s \in D(n) THEN g[s]
                                      ELSE block[Pick(s)].size + g[s \ {Pick(s)}]]
  <2>2. \A s \in D(n) : s # {} => s \ {Pick(s)} \in D(n)
    BY <1>1
  <2>3. \A s \in D(n + 1) : s # {} => s \ {Pick(s)} \in D(n)
    BY <1>1
  <2>4. {} \in D(n) /\ \A s \in D(n) : s \in D(n + 1)
    <3>1. Cardinality({}) = 0
      BY FS_EmptySet
    <3>2. \A s \in SUBSET S : Cardinality(s) \in Nat
      BY ZenonT(40), <1>1
    <3> QED
      BY <3>1, <3>2
  <2>5. \A s \in D(n) : g[s] = IF s = {} THEN 0 ELSE block[Pick(s)].size + g[s \ {Pick(s)}]
    BY ZenonT(40), <2>1
  <2> HIDE DEF D
  <2>6. \A s \in D(n + 1) :
          h[s] = IF s = {} THEN 0 ELSE block[Pick(s)].size + h[s \ {Pick(s)}]
    BY ZenonT(40), <2>2, <2>3, <2>4, <2>5
  <2>7. Sum(n + 1, h)
    BY ZenonT(40), <2>6
  <2> HIDE DEF h, Sum
  <2> QED
    BY <2>7
<1>4. Cardinality(S) \in T
  <2>1. Cardinality(S) \in Nat
    BY FS_CardinalityType
  <2> HIDE DEF T
  <2>2. Nat \subseteq T
    BY <1>2, <1>3, SetInduction
  <2> QED
    BY <2>1, <2>2
<1>5. D(Cardinality(S)) = SUBSET S
  BY FS_Subset
<1> QED
  BY ZenonT(40), <1>4, <1>5 DEF IsSum

\* Two sums of sets of blocks whose sizes agree, agree.
LEMMA SumUnique ==
    ASSUME NEW block, NEW new, NEW S, IsFiniteSet(S), NEW T \in SUBSET S,
           \A x \in T : block[x].size = new[x].size,
           NEW g, IsSum(block, S, g), NEW h, IsSum(new, T, h)
    PROVE  \A s \in SUBSET T : g[s] = h[s]
<1> DEFINE N == {n \in Nat : \A s \in SUBSET T : Cardinality(s) = n => g[s] = h[s]}
<1>1. \A s \in SUBSET T : IsFiniteSet(s) /\ Cardinality(s) \in Nat
  BY FS_Subset, FS_CardinalityType
<1>2. \A s \in SUBSET T :
        /\ g[s] = IF s = {} THEN 0 ELSE block[Pick(s)].size + g[s \ {Pick(s)}]
        /\ h[s] = IF s = {} THEN 0 ELSE new[Pick(s)].size + h[s \ {Pick(s)}]
  BY ZenonT(40) DEF IsSum
<1>3. 0 \in N
  <2>1. \A s \in SUBSET T : Cardinality(s) = 0 => s = {}
    BY <1>1, FS_EmptySet
  <2> QED
    BY <1>2, <2>1
<1>4. ASSUME NEW n \in Nat, n \in N PROVE n + 1 \in N
  <2> SUFFICES ASSUME NEW s \in SUBSET T, Cardinality(s) = n + 1 PROVE g[s] = h[s]
    OBVIOUS
  <2>1. s # {}
    BY FS_EmptySet
  <2>2. Pick(s) \in s
    BY <2>1 DEF Pick
  <2>3. s \ {Pick(s)} \in SUBSET T /\ Cardinality(s \ {Pick(s)}) = n
    <3>1. Cardinality(s \ {Pick(s)}) = Cardinality(s) - 1
      BY <1>1, <2>2, FS_RemoveElement
    <3> QED
      BY <3>1
  <2>4. g[s \ {Pick(s)}] = h[s \ {Pick(s)}]
    BY <1>4, <2>3
  <2>5. block[Pick(s)].size = new[Pick(s)].size
    BY <2>2
  <2> QED
    BY ZenonT(40), <1>2, <2>1, <2>4, <2>5
<1>5. Nat \subseteq N
  <2> HIDE DEF N
  <2> QED
    BY <1>3, <1>4, SetInduction
<1> QED
  BY <1>1, <1>5

\* Bytes follows the recursion.
LEMMA BytesSum ==
    ASSUME NEW block, NEW S, IsFiniteSet(S)
    PROVE  \E g : IsSum(block, S, g) /\ \A T \in SUBSET S : g[T] = Bytes(block, T)
<1>1. ASSUME NEW T, IsFiniteSet(T)
      PROVE  \E h : IsSum(block, T, h) /\ h[T] = Bytes(block, T)
  <2>1. \E h : IsSum(block, T, h)
    BY <1>1, SumExists
  <2>2. Bytes(block, T) = (CHOOSE h : IsSum(block, T, h))[T]
    BY DEF Bytes, MapThenSumSet, MapThenFoldSet, IsSum, Pick
  <2> QED
    BY ZenonT(40), <2>1, <2>2
<1>2. PICK g : IsSum(block, S, g)
  BY SumExists
<1>3. ASSUME NEW T \in SUBSET S PROVE g[T] = Bytes(block, T)
  <2>1. IsFiniteSet(T)
    BY FS_Subset
  <2>2. PICK h : IsSum(block, T, h) /\ h[T] = Bytes(block, T)
    BY <1>1, <2>1
  <2>3. \A s \in SUBSET T : g[s] = h[s]
    <3>1. PICK same : same = block
      OBVIOUS
    <3>2. \A x \in T : block[x].size = same[x].size
      BY <3>1
    <3>3. IsSum(block, S, g) /\ IsSum(same, T, h) /\ T \in SUBSET S
      BY <1>2, <2>2, <3>1
    <3> QED
      BY <3>2, <3>3, SumUnique
  <2> QED
    BY <2>2, <2>3
<1> QED
  BY <1>2, <1>3

\* What the bytes of a finite set of blocks are.
LEMMA BytesFacts ==
    ASSUME NEW block, NEW S, IsFiniteSet(S), \A x \in S : block[x].size \in Nat
    PROVE  /\ Bytes(block, {}) = 0
           /\ \A T \in SUBSET S : Bytes(block, T) \in Nat
           /\ \A T \in SUBSET S : \A x \in S \ T :
                Bytes(block, T \cup {x}) = Bytes(block, T) + block[x].size
<1>1. PICK g : IsSum(block, S, g) /\ \A T \in SUBSET S : g[T] = Bytes(block, T)
  BY BytesSum
<1>2. \A s \in SUBSET S :
        Bytes(block, s) = IF s = {} THEN 0
                          ELSE block[Pick(s)].size + Bytes(block, s \ {Pick(s)})
  <2> SUFFICES ASSUME NEW s \in SUBSET S
               PROVE  Bytes(block, s) = IF s = {} THEN 0
                        ELSE block[Pick(s)].size + Bytes(block, s \ {Pick(s)})
    OBVIOUS
  <2>1. g[s] = IF s = {} THEN 0 ELSE block[Pick(s)].size + g[s \ {Pick(s)}]
    BY ZenonT(40), <1>1 DEF IsSum
  <2>2. s \ {Pick(s)} \in SUBSET S
    OBVIOUS
  <2> QED
    BY <1>1, <2>1, <2>2
<1>3. \A s \in SUBSET S : IsFiniteSet(s) /\ Cardinality(s) \in Nat
  BY FS_Subset, FS_CardinalityType
<1>4. \A s \in SUBSET S : s # {} => Pick(s) \in s
  BY DEF Pick
<1>5. \A s \in SUBSET S : \A x \in s : Cardinality(s \ {x}) = Cardinality(s) - 1
  BY ZenonT(40), <1>3, FS_RemoveElement
<1> DEFINE N == {n \in Nat : \A T \in SUBSET S : Cardinality(T) <= n =>
                   /\ Bytes(block, T) \in Nat
                   /\ \A x \in T : Bytes(block, T) = Bytes(block, T \ {x}) + block[x].size}
<1>6. 0 \in N
  <2> SUFFICES ASSUME NEW T \in SUBSET S, Cardinality(T) <= 0
               PROVE  T = {} /\ Bytes(block, T) = 0
    OBVIOUS
  <2>1. T = {}
    <3>1. Cardinality(T) = 0
      BY <1>3
    <3> QED
      BY <3>1, <1>3, FS_EmptySet
  <2> QED
    BY ZenonT(40), <1>2, <2>1
<1>7. ASSUME NEW n \in Nat, n \in N PROVE n + 1 \in N
  <2>0. \A s \in SUBSET S : Cardinality(s) <= n =>
          /\ Bytes(block, s) \in Nat
          /\ \A z \in s : Bytes(block, s) = Bytes(block, s \ {z}) + block[z].size
    BY <1>7
  <2> SUFFICES ASSUME NEW T \in SUBSET S, Cardinality(T) = n + 1
               PROVE  /\ Bytes(block, T) \in Nat
                      /\ \A x \in T : Bytes(block, T) = Bytes(block, T \ {x}) + block[x].size
    <3>1. \A s \in SUBSET S : Cardinality(s) <= n + 1 <=> Cardinality(s) <= n \/ Cardinality(s) = n + 1
      BY <1>3
    <3> QED
      BY <2>0, <3>1
  <2> DEFINE y == Pick(T)
  <2>1. T # {}
    BY FS_EmptySet
  <2>2. y \in T
    BY <1>4, <2>1
  <2> HIDE DEF y
  <2>3. ASSUME NEW x \in T
        PROVE  /\ T \ {x} \in SUBSET S /\ Cardinality(T \ {x}) = n
               /\ Bytes(block, T \ {x}) \in Nat
               /\ \A z \in T \ {x} : Bytes(block, T \ {x})
                                       = Bytes(block, (T \ {x}) \ {z}) + block[z].size
    <3>1. Cardinality(T \ {x}) = Cardinality(T) - 1
      BY <1>5
    <3>2. T \ {x} \in SUBSET S /\ Cardinality(T \ {x}) = n
      BY <3>1
    <3>3. Cardinality(T \ {x}) <= n
      BY <3>2
    <3> QED
      BY <3>2, <3>3, <2>0, Zenon
  <2>4. Bytes(block, T) = Bytes(block, T \ {y}) + block[y].size
    <3>1. Bytes(block, T) = block[y].size + Bytes(block, T \ {y})
      BY <1>2, <2>1 DEF y
    <3>2. block[y].size \in Nat /\ Bytes(block, T \ {y}) \in Nat
      BY ZenonT(40), <2>2, <2>3
    <3> QED
      BY <3>1, <3>2
  <2>5. Bytes(block, T) \in Nat
    <3>1. block[y].size \in Nat /\ Bytes(block, T \ {y}) \in Nat
      BY ZenonT(40), <2>2, <2>3
    <3> QED
      BY <2>4, <3>1
  <2>6. ASSUME NEW x \in T PROVE Bytes(block, T) = Bytes(block, T \ {x}) + block[x].size
    <3>1. CASE x = y
      BY <3>1, <2>4
    <3>2. CASE x # y
      <4>1. (T \ {x}) \ {y} = (T \ {y}) \ {x}
        OBVIOUS
      <4>2. Bytes(block, T \ {x}) = Bytes(block, (T \ {x}) \ {y}) + block[y].size
        BY ZenonT(40), <2>2, <2>3, <3>2
      <4>3. Bytes(block, T \ {y}) = Bytes(block, (T \ {y}) \ {x}) + block[x].size
        BY ZenonT(40), <2>2, <2>3, <3>2
      <4>4. (T \ {x}) \ {y} \in SUBSET S /\ Cardinality((T \ {x}) \ {y}) = n - 1
        BY ZenonT(40), <1>5, <2>2, <2>3, <3>2
      <4>5. Bytes(block, T \ {x}) \in Nat /\ Bytes(block, T \ {y}) \in Nat
            /\ block[x].size \in Nat /\ block[y].size \in Nat
        BY <2>2, <2>3
      <4>6. Bytes(block, (T \ {x}) \ {y}) \in Nat
        BY <4>4, <2>0
      <4>7. Bytes(block, (T \ {x}) \ {y}) = Bytes(block, (T \ {y}) \ {x})
        BY <4>1
      <4> QED
        BY <2>4, <4>2, <4>3, <4>5, <4>6, <4>7
    <3> QED
      BY <3>1, <3>2
  <2> QED
    BY <2>5, <2>6
<1>8. Nat \subseteq N
  <2> HIDE DEF N
  <2> QED
    BY <1>6, <1>7, SetInduction
<1>9. Bytes(block, {}) = 0
  BY ZenonT(40), <1>2
<1>10. \A T \in SUBSET S : /\ Bytes(block, T) \in Nat
                            /\ \A x \in T : Bytes(block, T)
                                            = Bytes(block, T \ {x}) + block[x].size
  BY <1>3, <1>8
<1>11. ASSUME NEW T \in SUBSET S, NEW x \in S \ T
       PROVE  Bytes(block, T \cup {x}) = Bytes(block, T) + block[x].size
  <2>1. T \cup {x} \in SUBSET S /\ x \in T \cup {x} /\ (T \cup {x}) \ {x} = T
    OBVIOUS
  <2>2. Bytes(block, T \cup {x}) = Bytes(block, (T \cup {x}) \ {x}) + block[x].size
    BY <1>10, <2>1
  <2> QED
    BY <2>1, <2>2
<1> QED
  BY <1>9, <1>10, <1>11

\* Blocks of the same sizes have the same bytes.
LEMMA BytesAgree ==
    ASSUME NEW block, NEW new, NEW S, IsFiniteSet(S),
           \A x \in S : block[x].size = new[x].size
    PROVE  Bytes(block, S) = Bytes(new, S)
<1>1. PICK g : IsSum(block, S, g) /\ \A T \in SUBSET S : g[T] = Bytes(block, T)
  BY BytesSum
<1>2. PICK h : IsSum(new, S, h) /\ \A T \in SUBSET S : h[T] = Bytes(new, T)
  BY BytesSum
<1>3. S \in SUBSET S
  OBVIOUS
<1>4. \A s \in SUBSET S : g[s] = h[s]
  BY <1>1, <1>2, <1>3, SumUnique
<1> QED
  BY <1>1, <1>2, <1>3, <1>4

-----------------------------------------------------------------------------
(* The counters                                                            *)

Counted(h) ==
    /\ h.used = Bytes(h.block, Marked(h.block, 0))
    /\ h.allocations = Cardinality(Marked(h.block, 0))

\* The sizes of a good list are numbers, and its blocks are finitely many.
LEMMA ListSizes ==
    ASSUME NEW block, NEW f, NEW bytes, GoodList(block, f, bytes), NEW S \in SUBSET DOMAIN block
    PROVE  IsFiniteSet(S) /\ \A x \in S : block[x].size \in Nat
<1>1. IsFiniteSet(DOMAIN block)
  BY ListFinite
<1>2. \A x \in DOMAIN block : Fact(block, f, bytes, x)
  BY ListFacts
<1> QED
  BY <1>1, <1>2, FS_Subset DEF Fact

\* kmalloc counts the block that it takes, whether it splits it or not.
LEMMA TakeCounts ==
    ASSUME NEW h, NEW f, NEW bytes, GoodHeap(h, f, bytes), Counted(h),
           NEW b \in DOMAIN h.block, h.block[b].free = 1,
           NEW wanted \in Nat, wanted % Align = 0, wanted >= MinPayload,
           h.block[b].size >= wanted
    PROVE  Counted(Take(h, b, wanted))
<1> DEFINE new == Take(h, b, wanted)
           M == Marked(h.block, 0)
           N == Marked(new.block, 0)
<1>1. /\ GoodHeap(new, f, bytes) /\ DOMAIN h.block \subseteq DOMAIN new.block
      /\ new.block[b].free = 0
      /\ \A x \in DOMAIN h.block : x # b => /\ new.block[x].free = h.block[x].free
                                            /\ new.block[x].size = h.block[x].size
      /\ \A x \in DOMAIN new.block : x \notin DOMAIN h.block => new.block[x].free = 1
  BY TakeHeap
<1>2. new.used = h.used + new.block[b].size /\ new.allocations = h.allocations + 1
  <2>1. h.block[b] \in Block
    BY DEF GoodHeap, GoodList
  <2>2. CASE h.block[b].size >= wanted + Hdr + MinPayload
    <3>1. /\ new.used = h.used + wanted /\ new.allocations = h.allocations + 1
          /\ new.block = Split(h.block, b, wanted)
      BY <2>2 DEF Take
    <3>2. b \in Nat /\ b # b + Hdr + wanted /\ h.block[b].next # b
      <4>1. Fact(h.block, f, bytes, b)
        BY ListFacts DEF GoodHeap
      <4> QED
        BY <4>1 DEF Fact
    <3>3. Split(h.block, b, wanted)[b] = [size |-> wanted, previous |-> h.block[b].previous,
                                          next |-> b + Hdr + wanted, free |-> 0]
      BY <3>2 DEF Split
    <3>4. new.block[b].size = wanted
      BY <3>1, <3>3
    <3> QED
      BY <3>1, <3>4
  <2>3. CASE ~(h.block[b].size >= wanted + Hdr + MinPayload)
    <3>1. /\ new.used = h.used + h.block[b].size /\ new.allocations = h.allocations + 1
          /\ new.block = [h.block EXCEPT ![b].free = 0]
      BY <2>3 DEF Take
    <3>2. new.block[b].size = h.block[b].size
      BY <3>1, <2>1 DEF Block
    <3> QED
      BY <3>1, <3>2
  <2> QED
    BY <2>2, <2>3
<1> HIDE DEF new
<1>3. N = M \cup {b} /\ b \notin M
  BY <1>1 DEF Marked
<1>4. /\ IsFiniteSet(M) /\ IsFiniteSet(N) /\ \A x \in N : new.block[x].size \in Nat
      /\ M \in SUBSET N
  <2>1. M \in SUBSET DOMAIN h.block /\ N \in SUBSET DOMAIN new.block
    BY DEF Marked
  <2> QED
    BY <1>1, <1>3, <2>1, ListSizes DEF GoodHeap
<1>5. Bytes(h.block, M) = Bytes(new.block, M)
  <2>1. \A x \in M : h.block[x].size = new.block[x].size
    BY <1>1 DEF Marked
  <2> QED
    BY <1>4, <2>1, BytesAgree
<1>6. Bytes(new.block, N) = Bytes(new.block, M) + new.block[b].size
  BY <1>3, <1>4, BytesFacts
<1>7. Cardinality(N) = Cardinality(M) + 1
  BY <1>3, <1>4, FS_AddElement
<1> QED
  BY <1>2, <1>5, <1>6, <1>7 DEF Counted, new

\* kfree stops counting the block that it releases, whatever it merges.
LEMMA ReleaseCounts ==
    ASSUME NEW h, NEW f, NEW bytes, GoodHeap(h, f, bytes), Counted(h),
           NEW b \in DOMAIN h.block, h.block[b].free = 0
    PROVE  Counted(Release(h, b))
<1> DEFINE new == Release(h, b)
           M == Marked(h.block, 0)
           N == Marked(new.block, 0)
<1>1. /\ \A x \in DOMAIN h.block : x # b /\ h.block[x].free = 0 =>
           /\ x \in DOMAIN new.block
           /\ new.block[x].free = 0 /\ new.block[x].size = h.block[x].size
      /\ \A x \in DOMAIN new.block : new.block[x].free = 0 =>
           x \in DOMAIN h.block /\ x # b /\ h.block[x].free = 0
  BY ReleaseHeap
<1>2. /\ new.used = h.used - h.block[b].size
      /\ new.allocations = IF h.allocations > 0 THEN h.allocations - 1 ELSE 0
  BY DEF Release
<1> HIDE DEF new
<1>3. N = M \ {b} /\ b \in M /\ M = N \cup {b} /\ b \notin N /\ N \in SUBSET M
  BY <1>1 DEF Marked
<1>4. /\ IsFiniteSet(M) /\ IsFiniteSet(N) /\ \A x \in M : h.block[x].size \in Nat
  <2>1. M \in SUBSET DOMAIN h.block
    BY DEF Marked
  <2>2. IsFiniteSet(M) /\ \A x \in M : h.block[x].size \in Nat
    BY <2>1, ListSizes DEF GoodHeap
  <2> QED
    BY <1>3, <2>2, FS_Subset
<1>5. Bytes(h.block, N) = Bytes(new.block, N)
  <2>1. \A x \in N : h.block[x].size = new.block[x].size
    BY <1>1 DEF Marked
  <2> QED
    BY <1>4, <2>1, BytesAgree
<1>6. Bytes(h.block, M) = Bytes(h.block, N) + h.block[b].size
  BY <1>3, <1>4, BytesFacts
<1>7. Cardinality(M) = Cardinality(N) + 1 /\ Cardinality(N) \in Nat
  BY <1>3, <1>4, FS_AddElement, FS_CardinalityType
<1>8. Bytes(h.block, N) \in Nat /\ h.block[b].size \in Nat
  BY <1>3, <1>4, BytesFacts
<1> QED
  BY <1>2, <1>5, <1>6, <1>7, <1>8 DEF Counted, new

\* The bytes in front of a block are the payloads there and their headers.
LEMMA Covered ==
    ASSUME NEW block, NEW f, NEW bytes, GoodList(block, f, bytes), f # Null
    PROVE  Bytes(block, Marked(block, 0)) + Bytes(block, Marked(block, 1))
             + Hdr * Cardinality(DOMAIN block) = bytes
<1> DEFINE In(b, free) == {c \in Before(block, b) : block[c].free = free}
           Sum(b) == Bytes(block, In(b, 0)) + Bytes(block, In(b, 1))
                       + Hdr * Cardinality(Before(block, b))
           T == {b \in DOMAIN block : Sum(b) # b}
<1>1. \A x \in DOMAIN block : Fact(block, f, bytes, x)
  BY ListFacts
<1>2. /\ IsFiniteSet(DOMAIN block) /\ DOMAIN block \in SUBSET Nat
      /\ \A x \in DOMAIN block : block[x].size \in Nat
  <2>1. DOMAIN block \in SUBSET DOMAIN block
    OBVIOUS
  <2> QED
    BY <2>1, ListSizes DEF GoodList
\* Sum of a set and one more block.
<1>3. ASSUME NEW p \in DOMAIN block, NEW b \in Nat,
             Before(block, b) = Before(block, p) \cup {p},
             Sum(p) = p, b = p + Hdr + block[p].size
      PROVE  Sum(b) = b
  <2>1. p \in Nat /\ p \notin Before(block, p) /\ Before(block, p) \in SUBSET DOMAIN block
    BY <1>2 DEF Before
  <2>2. IsFiniteSet(Before(block, p))
    BY <1>2, <2>1, FS_Subset
  <2>3. /\ Cardinality(Before(block, b)) = Cardinality(Before(block, p)) + 1
        /\ Cardinality(Before(block, p)) \in Nat
    BY ZenonT(40), <1>3, <2>1, <2>2, FS_AddElement, FS_CardinalityType
  <2>4. \A free \in {0, 1} :
          /\ In(p, free) \in SUBSET DOMAIN block /\ p \in DOMAIN block \ In(p, free)
          /\ Bytes(block, In(p, free)) \in Nat
          /\ Bytes(block, In(p, free) \cup {p}) = Bytes(block, In(p, free)) + block[p].size
    <3> SUFFICES ASSUME NEW free \in {0, 1}
                 PROVE  /\ In(p, free) \in SUBSET DOMAIN block /\ p \in DOMAIN block \ In(p, free)
                        /\ Bytes(block, In(p, free)) \in Nat
                        /\ Bytes(block, In(p, free) \cup {p})
                             = Bytes(block, In(p, free)) + block[p].size
      BY ZenonT(40)
    <3>1. In(p, free) \in SUBSET DOMAIN block /\ p \in DOMAIN block \ In(p, free)
      BY <2>1
    <3> HIDE DEF In
    <3> QED
      BY <3>1, <1>2, BytesFacts
  <2>5. \/ block[p].free = 0 /\ In(b, 0) = In(p, 0) \cup {p} /\ In(b, 1) = In(p, 1)
        \/ block[p].free = 1 /\ In(b, 1) = In(p, 1) \cup {p} /\ In(b, 0) = In(p, 0)
    <3>1. block[p].free \in {0, 1}
      BY <1>1 DEF Fact
    <3> QED
      BY <1>3, <3>1
  <2>6. block[p].size \in Nat
    BY <1>2
  <2>7. Bytes(block, In(b, 0)) + Bytes(block, In(b, 1))
          = Bytes(block, In(p, 0)) + Bytes(block, In(p, 1)) + block[p].size
    <3> HIDE DEF In
    <3>0. /\ Bytes(block, In(p, 0)) \in Nat /\ Bytes(block, In(p, 1)) \in Nat
          /\ Bytes(block, In(p, 0) \cup {p}) = Bytes(block, In(p, 0)) + block[p].size
          /\ Bytes(block, In(p, 1) \cup {p}) = Bytes(block, In(p, 1)) + block[p].size
      BY <2>4
    <3>1. CASE In(b, 0) = In(p, 0) \cup {p} /\ In(b, 1) = In(p, 1)
      <4>1. /\ Bytes(block, In(b, 0)) = Bytes(block, In(p, 0) \cup {p})
            /\ Bytes(block, In(b, 1)) = Bytes(block, In(p, 1))
        BY <3>1
      <4> QED
        BY <3>0, <4>1, <2>6
    <3>2. CASE In(b, 1) = In(p, 1) \cup {p} /\ In(b, 0) = In(p, 0)
      <4>1. /\ Bytes(block, In(b, 1)) = Bytes(block, In(p, 1) \cup {p})
            /\ Bytes(block, In(b, 0)) = Bytes(block, In(p, 0))
        BY <3>2
      <4> QED
        BY <3>0, <4>1, <2>6
    <3> QED
      BY <3>1, <3>2, <2>5
  <2>8. Bytes(block, In(p, 0)) \in Nat /\ Bytes(block, In(p, 1)) \in Nat
    BY <2>4
  <2> HIDE DEF In
  <2> QED
    BY <1>3, <2>1, <2>3, <2>6, <2>7, <2>8
<1>4. ASSUME NEW p \in DOMAIN block, NEW b \in Nat, b = p + Hdr + block[p].size,
             \A c \in DOMAIN block : p < c => b <= c
      PROVE  Before(block, b) = Before(block, p) \cup {p}
  <2>1. p \in Nat /\ block[p].size \in Nat
    BY <1>2
  <2>2. \A c \in DOMAIN block : c < b <=> c < p \/ c = p
    <3> SUFFICES ASSUME NEW c \in DOMAIN block PROVE c < b <=> c < p \/ c = p
      OBVIOUS
    <3>1. c \in Nat /\ (p < c => b <= c)
      BY <1>2, <1>4
    <3> QED
      BY <1>4, <2>1, <3>1
  <2> QED
    BY <2>2 DEF Before
<1>5. ASSUME NEW p \in DOMAIN block PROVE Sum(p) = p
  <2> SUFFICES ASSUME T # {} PROVE FALSE
    BY ZenonT(40)
  <2>1. PICK b \in T : \A c \in T : b <= c
    <3> T \in SUBSET Nat
      BY <1>2
    <3> QED
      BY ZenonT(40), LeastElement
  <2>2. Fact(block, f, bytes, b) /\ b \in DOMAIN block /\ b \in Nat
    BY <1>1, <1>2
  <2>3. CASE block[b].previous = Null
    <3>1. b = 0
      BY <2>2, <2>3 DEF Fact, GoodList
    <3>2. Before(block, b) = {} /\ In(b, 0) = {} /\ In(b, 1) = {}
      BY <3>1, <1>2 DEF Before
    <3>3. Bytes(block, {}) = 0 /\ Cardinality({}) = 0
      BY <1>2, BytesFacts, FS_EmptySet
    <3>4. Sum(b) = 0
      BY <3>2, <3>3
    <3> QED
      BY <3>1, <3>4
  <2>4. CASE block[b].previous # Null
    <3>1. PICK q \in DOMAIN block : block[q].next = b
      BY <2>2, <2>4 DEF Fact
    <3>2. Fact(block, f, bytes, q)
      BY <1>1
    <3>3. q \in Nat /\ block[q].size \in Nat /\ b = q + Hdr + block[q].size
      <4>1. q \in Nat /\ block[q].size \in Nat
        BY <3>2 DEF Fact
      <4>2. block[q].next # Null => block[q].next = q + Hdr + block[q].size
        BY <3>2 DEF Fact
      <4> QED
        BY <4>1, <4>2, <2>2, <3>1
    <3>4. Sum(q) = q
      <4>1. q < b /\ q \notin T
        BY <2>1, <2>2, <3>3
      <4> QED
        BY <4>1
    <3>5. \A c \in DOMAIN block : q < c => b <= c
      BY <3>3 DEF GoodList, Apart, BlockEnd
    <3>6. Before(block, b) = Before(block, q) \cup {q}
      BY <1>4, <2>2, <3>3, <3>5
    <3> HIDE DEF Sum
    <3>7. Sum(b) = b
      BY <1>3, <2>2, <3>3, <3>4, <3>6
    <3> QED
      BY <3>7
  <2> QED
    BY <2>3, <2>4
\* The last block ends with the heap.
<1>6. PICK m \in DOMAIN block : block[m].next = Null
  <2> SUFFICES ASSUME \A x \in DOMAIN block : block[x].next # Null PROVE FALSE
    OBVIOUS
  <2> DEFINE Left == {bytes - x : x \in DOMAIN block}
  <2>1. bytes \in Nat
    BY HeapAssumption DEF GoodList
  <2>2. \A x \in DOMAIN block : /\ x \in Nat /\ x <= bytes
                                 /\ block[x].next \in DOMAIN block /\ x < block[x].next
    <3> SUFFICES ASSUME NEW x \in DOMAIN block
                 PROVE  /\ x \in Nat /\ x <= bytes
                        /\ block[x].next \in DOMAIN block /\ x < block[x].next
      OBVIOUS
    <3>1. /\ x \in Nat /\ block[x].size \in Nat
          /\ block[x].next \in DOMAIN block /\ block[x].next = x + Hdr + block[x].size
      BY <1>1 DEF Fact
    <3>2. x + Hdr + block[x].size <= bytes
      BY DEF GoodList, Apart, BlockEnd
    <3> QED
      BY <2>1, <3>1, <3>2
  <2>3. Left \in SUBSET Nat
    BY <2>1, <2>2
  <2>4. Left # {}
    BY DEF GoodList, Linked
  <2>5. PICK y \in Left : \A z \in Left : y <= z
    <3> HIDE DEF Left
    <3> QED
      BY <2>3, <2>4, LeastElement
  <2>6. PICK x \in DOMAIN block : y = bytes - x
    BY <2>5
  <2>7. bytes - block[x].next \in Left
    BY <2>2
  <2>8. y <= bytes - block[x].next
    BY <2>5, <2>7
  <2>9. x \in Nat /\ block[x].next \in Nat /\ x < block[x].next
    BY <2>2
  <2> HIDE DEF Left
  <2> QED
    BY <2>1, <2>6, <2>8, <2>9
<1>7. m \in Nat /\ block[m].size \in Nat /\ m + Hdr + block[m].size = bytes /\ bytes \in Nat
  BY <1>1, <1>2, <1>6 DEF Fact
<1>8. Before(block, bytes) = DOMAIN block
  <2> SUFFICES ASSUME NEW c \in DOMAIN block PROVE c < bytes
    BY DEF Before
  <2>1. c \in Nat /\ block[c].size \in Nat /\ c + Hdr + block[c].size <= bytes
    BY <1>2 DEF GoodList, Apart, BlockEnd
  <2> QED
    BY <1>7, <2>1
<1>9. Before(block, bytes) = Before(block, m) \cup {m}
  <2>1. \A c \in DOMAIN block : m < c => bytes <= c
    BY <1>7 DEF GoodList, Apart, BlockEnd
  <2> QED
    BY <1>4, <1>7, <2>1
<1>10. Sum(bytes) = bytes
  <2>1. Sum(m) = m
    BY <1>5
  <2> HIDE DEF Sum
  <2> QED
    BY <1>3, <1>7, <1>9, <2>1
<1>11. In(bytes, 0) = Marked(block, 0) /\ In(bytes, 1) = Marked(block, 1)
  BY <1>8 DEF Marked
<1> HIDE DEF In
<1> QED
  BY <1>8, <1>10, <1>11

\* A write to the memory changes no counter.
LEMMA WriteCounts ==
    ASSUME NEW h, NEW f, NEW bytes, GoodHeap(h, f, bytes), Counted(h), NEW mem
    PROVE  Counted([h EXCEPT !.mem = mem])
<1>1. [h EXCEPT !.mem = mem]
        = [block |-> h.block, used |-> h.used, allocations |-> h.allocations, mem |-> mem]
  BY DEF GoodHeap
<1> HIDE DEF GoodHeap
<1> QED
  BY <1>1 DEF Counted

\* A successful kmalloc counts its block.
LEMMA AllocatesCounts ==
    ASSUME IInv, Counted(heap), NEW size \in Nat, NEW b \in DOMAIN heap.block, Allocates(size, b)
    PROVE  Counted(Take(heap, b, align_up(size)))
<1>1. /\ heap.block[b].free = 1 /\ heap.block[b].size >= align_up(size)
      /\ size # 0 /\ align_up(size) # 0
  BY DEF Allocates, FirstFit, Fits
<1>2. /\ align_up(size) \in Nat /\ align_up(size) % Align = 0
      /\ align_up(size) >= MinPayload
  BY <1>1, AlignUpFacts
<1>3. GoodHeap(heap, first, heap_bytes)
  BY DEF IInv, Sound
<1> QED
  BY <1>1, <1>2, <1>3, TakeCounts

\* Every step keeps the counters true.
LEMMA NextCounts == IInv /\ Counted(heap) /\ [HeapNext]_allocator => Counted(heap')
<1> SUFFICES ASSUME IInv, Counted(heap), [HeapNext]_allocator PROVE Counted(heap')
  OBVIOUS
<1>0. /\ Sizes \subseteq Nat /\ Counts \subseteq Nat /\ Pointers \subseteq Int
      /\ \A count \in Counts, size \in Sizes : count * size \in Nat
  BY HeapAssumption DEF Pointers, Cells
<1>g. GoodHeap(heap, first, heap_bytes)
  BY DEF IInv, Sound
<1>1. ASSUME NEW size \in Sizes, kmalloc(size) PROVE Counted(heap')
  BY ZenonT(40), <1>0, <1>1, AllocatesCounts DEF kmalloc, allocator
<1>2. ASSUME NEW count \in Counts, NEW size \in Sizes, kcalloc(count, size) PROVE Counted(heap')
  <2>1. ASSUME NEW n \in Nat, NEW b \in DOMAIN heap.block, Allocates(n, b),
               heap' = [Take(heap, b, align_up(n)) EXCEPT !.mem = Store(@, b + Hdr, n, Zero)]
        PROVE  Counted(heap')
    <3> DEFINE taken == Take(heap, b, align_up(n))
    <3>1. GoodHeap(taken, first, heap_bytes) /\ Counted(taken)
      BY <2>1, AllocatesSound, AllocatesCounts DEF Sound
    <3>2. heap' = [taken EXCEPT !.mem = Store(taken.mem, b + Hdr, n, Zero)]
      BY <2>1
    <3> HIDE DEF taken
    <3> QED
      BY <3>1, <3>2, WriteCounts
  <2>2. CASE UNCHANGED allocator
    BY <2>2 DEF allocator
  <2> QED
    BY ZenonT(40), <1>0, <1>2, <2>1, <2>2 DEF kcalloc
<1>3. ASSUME NEW p \in Int, kfree(p) PROVE Counted(heap')
  BY <1>3, <1>g, ReleaseCounts DEF kfree, InUse, allocator
<1>4. ASSUME NEW p \in Pointers \cup {Null}, NEW size \in Sizes, krealloc(p, size)
      PROVE  Counted(heap')
  <2>0. p \in Int /\ size \in Nat
    BY <1>0
  <2>1. CASE kmalloc(size)
    BY <1>1, <2>1
  <2>2. CASE kfree(p)
    BY <1>3, <2>0, <2>2
  <2>3. CASE UNCHANGED allocator
    BY <2>3 DEF allocator
  <2>4. CASE InUse(heap.block, first, p) /\ Resize(p, size)
    <3>1. p - Hdr \in DOMAIN heap.block /\ heap.block[p - Hdr].free = 0
      BY <2>4 DEF InUse
    <3>2. ASSUME NEW b \in DOMAIN heap.block, Allocates(size, b),
                 heap' = Release([Take(heap, b, align_up(size)) EXCEPT !.mem =
                           Copy(@, b + Hdr, p, Take(heap, b, align_up(size)).block[p - Hdr].size)],
                                 p - Hdr)
          PROVE  Counted(heap')
      <4> DEFINE taken == Take(heap, b, align_up(size))
                 mem == Copy(taken.mem, b + Hdr, p, taken.block[p - Hdr].size)
                 copied == [taken EXCEPT !.mem = mem]
      <4>1. GoodHeap(taken, first, heap_bytes) /\ Counted(taken)
        BY <2>0, <3>2, AllocatesSound, AllocatesCounts DEF Sound
      <4>2. /\ heap.block[b].free = 1 /\ heap.block[b].size >= align_up(size)
            /\ align_up(size) \in Nat /\ align_up(size) % Align = 0
            /\ align_up(size) >= MinPayload
        BY <2>0, <3>2, AlignUpFacts DEF Allocates, FirstFit, Fits
      <4>3. p - Hdr \in DOMAIN taken.block /\ taken.block[p - Hdr].free = 0
        BY <1>g, <3>1, <4>2, TakeHeap
      <4>4. heap' = Release(copied, p - Hdr)
        BY <3>2
      <4> HIDE DEF taken, mem
      <4>5. Counted(copied) /\ copied.block = taken.block
        BY ZenonT(40), <4>1, WriteCounts DEF GoodHeap
      <4>6. Release(copied, p - Hdr).block = Release(taken, p - Hdr).block
            /\ Release(copied, p - Hdr).used = Release(taken, p - Hdr).used
            /\ Release(copied, p - Hdr).allocations = Release(taken, p - Hdr).allocations
        BY <4>1 DEF GoodHeap, Release
      <4>7. Counted(Release(taken, p - Hdr))
        BY <4>1, <4>3, ReleaseCounts
      <4> QED
        BY <4>4, <4>6, <4>7 DEF Counted
    <3> QED
      BY ZenonT(40), <2>4, <3>2 DEF Resize, allocator
  <2> QED
    BY <1>4, <2>1, <2>2, <2>3, <2>4 DEF krealloc
<1>5. ASSUME NEW p \in Pointers, NEW v \in Vals, Fill(p, v) PROVE Counted(heap')
  <2>1. PICK mem : heap' = [heap EXCEPT !.mem = mem]
    BY ZenonT(40), <1>5 DEF Fill
  <2> QED
    BY <1>g, <2>1, WriteCounts
<1>6. CASE UNCHANGED allocator
  BY <1>6 DEF allocator
<1> QED
  BY <1>0, <1>1, <1>2, <1>3, <1>4, <1>5, <1>6 DEF HeapNext

\* The figures that memory_used_bytes, memory_allocation_count and
\* memory_free_bytes report agree with the list and account for every byte of
\* the heap, after any sequence of kmalloc, kcalloc, krealloc and kfree.
THEOREM AccountingAlways == HeapSpec => []Accounting
<1>1. HeapInit => Counted(heap)
  <2> SUFFICES ASSUME HeapInit PROVE Counted(heap)
    OBVIOUS
  <2>1. heap.used = 0 /\ heap.allocations = 0 /\ \A b \in DOMAIN heap.block : heap.block[b].free = 1
    BY DEF HeapInit, memory_init
  <2>2. Marked(heap.block, 0) = {}
    BY <2>1 DEF Marked
  <2>3. Bytes(heap.block, {}) = 0 /\ Cardinality({}) = 0
    BY BytesFacts, FS_EmptySet
  <2> QED
    BY <2>1, <2>2, <2>3 DEF Counted
<1>2. IInv /\ Counted(heap) => Accounting
  <2> SUFFICES ASSUME IInv, Counted(heap) PROVE Accounting
    OBVIOUS
  <2>1. GoodList(heap.block, first, heap_bytes)
    BY DEF IInv, Sound, GoodHeap
  <2> QED
    BY <2>1, Covered DEF Accounting, Counted, memory_free_bytes
<1>3. IInv /\ Counted(heap) /\ [HeapNext]_allocator => Counted(heap)'
  BY NextCounts DEF Counted
<1> QED
  BY <1>1, <1>2, <1>3, Invariance, PTL DEF HeapSpec
=============================================================================
