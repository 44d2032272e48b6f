-------------------------- MODULE Mini64FileProofs --------------------------
(***************************************************************************)
(* Proofs about the files of a Mini64 volume, on top of its shape: what a  *)
(* recovery does with the space, and what a command does to the files.     *)
(***************************************************************************)
EXTENDS Mini64Proofs

-----------------------------------------------------------------------------
(* The space of a recovery                                                 *)

Recovering == op.cmd \in {"recover", "install"} /\ (op.pc = "done" => op.ok)

\* Who answers for a cluster in use.
Kept(x) ==
    \/ x \in op.lost
    \/ \E s \in 1..Slots : dir[s] # None /\ x \in Chain(dir[s].first)
    \/ op.pc = "free" /\ x \in Chain(op.cluster)
    \/ op.pc \in Building /\ x \in Chain(op.first)
    \/ op.pc \in {"zero", "link"} /\ x = op.cluster

OnlyStores ==
    op.cmd \in {"recover", "install"} => \A i \in 1..Len(op.todo) : op.todo[i][1] = "store"

\* The old file loses its first cluster first, and its entry last; the new one
\* is a chain that ends in the tail.
Linked ==
    /\ op.pc = "free" => op.cluster = dir[op.slot].first \/ fat[dir[op.slot].first] = Free
    /\ op.pc = "erase" => fat[dir[op.slot].first] = Free
    /\ op.pc \in Building /\ op.tail \in Clusters => op.tail \in Chain(op.first)

Space == Recovering => \A x \in Clusters : fat[x] # Free => Kept(x)

\* recover and install only store.
LEMMA OnlyStoresNext ==
    ASSUME Sound, OnlyStores, [Next]_vars
    PROVE  OnlyStores'
<1>0. op \in Ops /\ op.todo \in Seq(Calls)
  BY ZenonT(40) DEF Sound, Types, Ops
<1>1. CASE op'.todo = <<>>
  BY <1>1 DEF OnlyStores
<1>2. CASE op'.todo = op.todo /\ op'.cmd = op.cmd
  BY <1>2 DEF OnlyStores
<1>3. CASE op.todo # <<>> /\ op'.todo = Tail(op.todo) /\ op'.cmd = op.cmd
  <2>1. \A i \in 1..Len(op'.todo) : op'.todo[i] = op.todo[i + 1] /\ i + 1 \in 1..Len(op.todo)
    BY <1>0, <1>3
  <2> QED
    BY <1>3, <2>1 DEF OnlyStores
<1>4. CASE recover \/ install
  <2>1. op'.todo = RecoverSteps \/ op'.todo = InstallSteps
    BY ZenonT(40), <1>4 DEF recover, install, Begin, Idle
  <2>2. Len(RecoverSteps) = 2 /\ \A i \in 1..2 : RecoverSteps[i][1] = "store"
    BY DEF RecoverSteps, Store
  <2>3. Len(InstallSteps) = 4 /\ \A i \in 1..4 : InstallSteps[i][1] = "store"
    BY DEF InstallSteps, RecoverSteps, Store
  <2> QED
    BY <2>1, <2>2, <2>3 DEF OnlyStores
<1>5. CASE \E m \in Modes : bootmode(m)
  <2>1. op'.cmd = "bootmode"
    BY <1>5 DEF bootmode, Begin, Idle
  <2> QED
    BY <2>1 DEF OnlyStores
<1>6. CASE op' = Failed(op) /\ op.todo # <<>>
  <2>1. CASE op.cmd = "bootmode"
    BY <1>0, <1>3, <1>6, <2>1 DEF Failed, Ops
  <2>2. CASE op.cmd # "bootmode"
    BY <1>1, <1>6, <2>2 DEF Failed, Idle
  <2> QED
    BY <2>1, <2>2
<1>7. CASE NextCall
  BY ZenonT(40), <1>0, <1>1, <1>2, <1>3, <1>7 DEF NextCall, Ops, Idle
<1>8. CASE FreeStep \/ EraseStep \/ ZeroStep \/ LinkStep \/ WriteStep
  <2>1. op'.todo = op.todo /\ op'.cmd = op.cmd
    BY ZenonT(40), <1>0, <1>8 DEF FreeStep, EraseStep, ZeroStep, LinkStep, WriteStep, Ops
  <2> QED
    BY <1>2, <2>1
<1>9. CASE ScanStep \/ AllocStep
  <2>1. op.todo # <<>>
    BY <1>9 DEF ScanStep, AllocStep, Sound, Stages
  <2>2. op' = Failed(op) \/ (op'.todo = op.todo /\ op'.cmd = op.cmd)
    BY ZenonT(40), <1>0, <1>9 DEF ScanStep, AllocStep, Ops
  <2> QED
    BY <1>2, <1>6, <2>1, <2>2
<1>10. CASE CommitStep
  <2>1. op.todo # <<>> /\ op'.todo = Tail(op.todo) /\ op'.cmd = op.cmd
    BY <1>0, <1>10 DEF CommitStep, Sound, Stages, Ops
  <2> QED
    BY <1>3, <2>1
<1>11. CASE boot \/ Crash \/ TornFatSet \/ UNCHANGED vars
  BY <1>1, <1>2, <1>11 DEF boot, Crash, TornFatSet, PowerFails, Session, vars, Idle
<1> QED
  BY <1>4, <1>5, <1>7, <1>8, <1>9, <1>10, <1>11 DEF Next, Step

Spaced == Linked /\ Space

\* A step that leaves the chains alone, and what they are kept for.
LEMMA SpacedIdle ==
    ASSUME op'.pc \in {"done", "next"}, ~Recovering'
    PROVE  Spaced'
BY DEF Spaced, Linked, Space, Building

\* What is lost when a command begins is noted.
LEMMA SpacedBegin ==
    ASSUME Spaced, NEW c \in {"recover", "install", "bootmode"}, NEW steps, Begin(c, steps)
    PROVE  Spaced'
<1>1. op'.pc = "next" /\ op'.lost = Lost /\ UNCHANGED <<fat, dir>>
  BY DEF Begin, Idle, disk
<1>2. ASSUME NEW x \in Clusters, fat[x] # Free PROVE Kept(x)'
  <2>1. x \in Lost \/ \E s \in 1..Slots : dir[s] # None /\ x \in Chain(dir[s].first)
    BY <1>2 DEF Lost, Live
  <2> QED
    BY <1>1, <2>1 DEF Kept, Chain
<1> QED
  BY <1>1, <1>2 DEF Spaced, Linked, Space, Building

\* The file to replace is found: its chain is the one to free.
LEMMA SpacedNextCall ==
    ASSUME Sound, OnlyStores, Spaced, NextCall
    PROVE  Spaced'
<1> DEFINE call == Head(op.todo)
           found == Find(call[2])
           s == CHOOSE t \in found : \A u \in found : t <= u
<1>0. op \in Ops /\ op.pc = "next" /\ op.todo \in Seq(Calls) /\ UNCHANGED fat
  BY ZenonT(40) DEF Sound, Types, NextCall, Ops
<1>1. CASE op.todo = <<>> /\ op' = [Idle EXCEPT !.cmd = op.cmd, !.lost = op.lost,
                                  !.ok = \A f \in Verified[op.cmd] : Find(f) # {}] /\ dir' = dir
  <2>1. op'.pc = "done" /\ op'.cmd = op.cmd /\ op'.lost = op.lost
    BY <1>1 DEF Idle
  <2>2. \A x : Kept(x) => Kept(x)'
    BY <1>0, <1>1, <2>1 DEF Kept, Chain, Building
  <2> QED
    BY <1>0, <2>1, <2>2 DEF Spaced, Linked, Space, Recovering, Building
<1>2. CASE op' = [op EXCEPT !.pc = "scan"] /\ dir' = dir
  <2>1. op'.pc = "scan" /\ op'.cmd = op.cmd /\ op'.lost = op.lost
    BY <1>0, <1>2 DEF Ops
  <2>2. \A x : Kept(x) => Kept(x)'
    BY <1>0, <1>2, <2>1 DEF Kept, Chain, Building
  <2> QED
    BY <1>0, <2>1, <2>2 DEF Spaced, Linked, Space, Recovering, Building
<1>3. CASE op' = [op EXCEPT !.pc = "free", !.slot = s, !.cluster = dir[s].first] /\ dir' = dir
  <2> HIDE DEF s
  <2>1. /\ op'.pc = "free" /\ op'.cmd = op.cmd /\ op'.lost = op.lost
        /\ op'.slot = s /\ op'.cluster = dir[s].first
    BY <1>0, <1>3 DEF Ops
  <2>2. \A x : Kept(x) => Kept(x)'
    BY <1>0, <1>3, <2>1 DEF Kept, Chain, Building
  <2> QED
    BY <1>0, <1>3, <2>1, <2>2 DEF Spaced, Linked, Space, Recovering, Building
<1>4. CASE op.todo # <<>> /\ call[1] = "delete" /\ op' = [op EXCEPT !.todo = Tail(@)]
  <2>1. op'.pc = "next" /\ op'.cmd = op.cmd
    BY <1>0, <1>4 DEF Ops
  <2>2. op.todo[1] = call /\ 1 \in 1..Len(op.todo)
    BY <1>0, <1>4
  <2>3. op.cmd \notin {"recover", "install"}
    BY <1>4, <2>2 DEF OnlyStores
  <2> QED
    BY <2>1, <2>3, SpacedIdle DEF Recovering
<1> QED
  BY <1>1, <1>2, <1>3, <1>4 DEF NextCall

\* A cluster freed leaves the rest of the old chain to be freed.
LEMMA SpacedFree ==
    ASSUME Sound, Spaced, FreeStep
    PROVE  Spaced'
<1>0. /\ op \in Ops /\ op.pc = "free" /\ Links(fat) /\ Links(mirror) /\ Acyclic(fat)
      /\ op.slot \in 1..Slots /\ dir \in [1..Slots -> Entries] /\ dir[op.slot] # None
      /\ fat' = [fat EXCEPT ![op.cluster] = Free] /\ UNCHANGED dir
  BY ZenonT(40) DEF Sound, Types, Stages, FreeStep, FatSet
<1>1. PICK c \in Clusters : c = op.cluster
  BY DEF Sound, Stages, FreeStep
<1>2. PICK g : g = fat'
  OBVIOUS
<1>3. Links(g) /\ \A x \in Clusters : g[x] = IF x = c THEN Free ELSE fat[x]
  BY <1>0, <1>1, <1>2 DEF Links
<1>4. /\ \A x : ChainIn(fat, x) \subseteq ChainIn(g, x) \cup {c} \cup ChainIn(g, fat[c])
      /\ Acyclic(g) /\ ChainIn(g, fat[c]) = ChainIn(fat, fat[c])
  BY ONLY <1>0, <1>3, c \in Clusters, SetFree
<1>5. /\ op'.cmd = op.cmd /\ op'.lost = op.lost /\ op'.slot = op.slot
      /\ op'.pc = IF fat[c] \in Clusters THEN "free" ELSE "erase"
      /\ fat[c] \in Clusters => op'.cluster = fat[c]
  BY <1>0, <1>1 DEF FreeStep, Ops
<1>6. fat[c] \notin Clusters => ChainIn(g, fat[c]) = {}
  BY <1>3, <1>4, ChainUnfold
<1>7. ASSUME NEW x \in Clusters, g[x] # Free, Kept(x) PROVE Kept(x)'
  <2>1. x # c /\ op'.lost = op.lost
    BY <1>3, <1>5, <1>7
  <2>2. CASE x \in ChainIn(g, fat[c])
    BY <1>2, <1>5, <1>6, <2>2 DEF Kept, Chain
  <2>3. CASE x \in op.lost
    BY <2>1, <2>3 DEF Kept
  <2>4. ASSUME NEW s \in 1..Slots, dir[s] # None, x \in Chain(dir[s].first) PROVE Kept(x)'
    <3>1. x \in ChainIn(g, dir[s].first) \/ x \in ChainIn(g, fat[c])
      BY <1>4, <2>1, <2>4 DEF Chain
    <3>2. CASE x \in ChainIn(g, dir[s].first)
      BY <1>0, <1>2, <2>4, <3>2 DEF Kept, Chain
    <3> QED
      BY <2>2, <3>1, <3>2
  <2>5. CASE x \in Chain(op.cluster)
    <3>1. x \in {c} \cup ChainIn(fat, fat[c])
      BY <1>0, <1>1, <2>5, ChainUnfold DEF Chain
    <3> QED
      BY <1>4, <2>1, <2>2, <3>1
  <2> QED
    BY <1>0, <1>7, <2>3, <2>4, <2>5 DEF Kept, Building
<1>8. Recovering' => Recovering
  BY <1>0, <1>5 DEF Recovering
<1>9. Space'
  <2> SUFFICES ASSUME Recovering', NEW x \in Clusters, g[x] # Free PROVE Kept(x)'
    BY <1>2 DEF Space
  <2>1. Kept(x)
    BY <1>3, <1>8 DEF Spaced, Space
  <2> QED
    BY <1>7, <2>1
<1>10. Linked'
  <2>1. dir[op.slot].first \in Clusters
    BY <1>0 DEF Entries
  <2>2. g[dir[op.slot].first] = Free
    BY <1>0, <1>1, <1>3, <2>1 DEF Spaced, Linked
  <2> QED
    BY <1>0, <1>2, <1>5, <2>2 DEF Linked, Building
<1> QED
  BY <1>9, <1>10 DEF Spaced

\* The entry erased leads to a free cluster only.
LEMMA SpacedErase ==
    ASSUME Sound, Spaced, EraseStep
    PROVE  Spaced'
<1>0. /\ op \in Ops /\ op.pc = "erase" /\ Links(fat) /\ Acyclic(fat) /\ UNCHANGED fat
      /\ op.slot \in 1..Slots /\ dir \in [1..Slots -> Entries] /\ dir[op.slot] # None
  BY ZenonT(40) DEF Sound, Types, Stages, EraseStep
<1>1. op'.pc = "scan" /\ op'.cmd = op.cmd /\ op'.lost = op.lost
  BY <1>0 DEF EraseStep, Ops
<1>2. \A s \in 1..Slots : s # op.slot => dir'[s] = dir[s]
  BY <1>0 DEF EraseStep
<1>3. PICK c : c = dir[op.slot].first
  OBVIOUS
<1>4. c \in Clusters /\ fat[c] = Free
  BY <1>0, <1>3 DEF Entries, Spaced, Linked
<1>5. Chain(c) = {c}
  <2>1. fat[c] \notin Clusters
    BY <1>4, ClusterFacts
  <2>2. ChainIn(fat, c) = {c} \cup ChainIn(fat, fat[c]) /\ ChainIn(fat, fat[c]) = {}
    BY <1>0, <1>4, <2>1, ChainUnfold
  <2> QED
    BY <2>2 DEF Chain
<1>6. ASSUME NEW x \in Clusters, fat[x] # Free, Kept(x) PROVE Kept(x)'
  <2>1. x \notin Chain(c)
    BY <1>4, <1>5, <1>6
  <2>2. x \in op.lost \/ \E s \in 1..Slots : s # op.slot /\ dir[s] # None /\ x \in Chain(dir[s].first)
    BY <1>0, <1>3, <1>6, <2>1 DEF Kept, Building
  <2> QED
    BY <1>0, <1>1, <1>2, <2>2 DEF Kept, Chain
<1> QED
  BY <1>0, <1>1, <1>6 DEF Spaced, Linked, Space, Recovering, Building

\* A recovery whose store fails reports no success.
LEMMA FailedIdle ==
    ASSUME op \in Ops, op' = Failed(op)
    PROVE  op'.pc \in {"done", "next"} /\ ~Recovering'
<1>1. CASE op.cmd = "bootmode"
  BY <1>1 DEF Failed, Ops, Recovering
<1>2. CASE op.cmd # "bootmode"
  BY <1>2 DEF Failed, Idle, Recovering
<1> QED
  BY <1>1, <1>2

\* The new file has no cluster yet.
LEMMA SpacedScan ==
    ASSUME Sound, Spaced, ScanStep
    PROVE  Spaced'
<1>0. op \in Ops /\ op.pc = "scan" /\ UNCHANGED <<fat, dir>>
  BY ZenonT(40) DEF Sound, Types, ScanStep, disk
<1>1. CASE op' = Failed(op)
  BY <1>0, <1>1, FailedIdle, SpacedIdle
<1>2. CASE op' # Failed(op)
  <2>1. /\ op'.pc = "alloc" /\ op'.cmd = op.cmd /\ op'.lost = op.lost
        /\ op'.tail = 0 /\ op'.first = 0
    BY <1>0, <1>2 DEF ScanStep, Ops
  <2>2. \A x : Kept(x) => Kept(x)'
    BY <1>0, <2>1 DEF Kept, Chain, Building
  <2>3. 0 \notin Clusters
    BY ClusterFacts DEF Free
  <2> QED
    BY <1>0, <2>1, <2>2, <2>3 DEF Spaced, Linked, Space, Recovering, Building
<1> QED
  BY <1>1, <1>2

\* The cluster allocated belongs to the file being written.
LEMMA SpacedAlloc ==
    ASSUME Sound, Spaced, AllocStep
    PROVE  Spaced'
<1>0. op \in Ops /\ op.pc = "alloc" /\ Links(fat) /\ Acyclic(fat) /\ UNCHANGED dir
  BY ZenonT(40) DEF Sound, Types, AllocStep
<1>1. CASE Candidates = {}
  BY <1>0, <1>1, FailedIdle, SpacedIdle DEF AllocStep
<1>2. CASE Candidates # {}
  <2>1. PICK c : c = Allocated
    OBVIOUS
  <2>2. c \in Clusters /\ fat[c] = Free /\ fat[c] \notin Clusters
    BY <1>2, <2>1, AllocatedFacts, ClusterFacts
  <2>3. fat' = [fat EXCEPT ![c] = EOC] /\ op' = [op EXCEPT !.pc = "zero", !.cluster = c]
    BY <1>2, <2>1 DEF AllocStep, FatSet
  <2>4. PICK g : g = fat'
    OBVIOUS
  <2>5. Links(g) /\ \A x \in Clusters : g[x] = IF x = c THEN EOC ELSE fat[x]
    BY <1>0, <2>2, <2>3, <2>4 DEF Links
  <2>6. \A x : ChainIn(g, x) = ChainIn(fat, x)
    BY ONLY <1>0, <2>2, <2>5, SetEnd
  <2>7. /\ op'.pc = "zero" /\ op'.cluster = c /\ op'.cmd = op.cmd /\ op'.lost = op.lost
        /\ op'.first = op.first /\ op'.tail = op.tail
    BY <1>0, <2>3 DEF Ops
  <2>8. \A x : Kept(x) => Kept(x)'
    BY <1>0, <2>4, <2>6, <2>7 DEF Kept, Chain, Building
  <2>9. Kept(c)'
    BY <2>7 DEF Kept
  <2>10. Space'
    <3> SUFFICES ASSUME Recovering', NEW x \in Clusters, g[x] # Free PROVE Kept(x)'
      BY <2>4 DEF Space
    <3>1. Recovering
      BY <1>0, <2>7 DEF Recovering
    <3>2. CASE x = c
      BY <2>9, <3>2
    <3>3. CASE x # c
      BY <2>5, <2>8, <3>1, <3>3 DEF Spaced, Space
    <3> QED
      BY <3>2, <3>3
  <2>11. Linked'
    BY <1>0, <2>4, <2>6, <2>7 DEF Spaced, Linked, Building, Chain
  <2> QED
    BY <2>10, <2>11 DEF Spaced
<1> QED
  BY <1>1, <1>2

\* The first cluster of the file begins its chain.
LEMMA SpacedZero ==
    ASSUME Sound, Spaced, ZeroStep
    PROVE  Spaced'
<1>0. /\ op \in Ops /\ op.pc = "zero" /\ Links(fat) /\ Acyclic(fat) /\ UNCHANGED <<fat, dir>>
      /\ op.cluster \in Clusters /\ (op.first = 0 <=> op.tail = 0)
  BY ZenonT(40) DEF Sound, Types, Stages, ZeroStep
<1>1. CASE op.tail = 0
  <2>1. op' = [op EXCEPT !.first = op.cluster, !.tail = op.cluster, !.pc = "write"]
    BY <1>1 DEF ZeroStep
  <2>2. /\ op'.pc = "write" /\ op'.cmd = op.cmd /\ op'.lost = op.lost
        /\ op'.first = op.cluster /\ op'.tail = op.cluster
    BY <1>0, <2>1 DEF Ops
  <2>3. Chain(op.first) = {}
    BY <1>0, <1>1, ChainUnfold, ClusterFacts DEF Chain, Free
  <2>4. op.cluster \in Chain(op.cluster)
    BY <1>0, ChainClosed DEF Chain
  <2>5. \A x : Kept(x) => Kept(x)'
    BY <1>0, <2>2, <2>3, <2>4 DEF Kept, Chain, Building
  <2>6. Linked'
    BY <1>0, <2>2, <2>4 DEF Linked, Chain, Building
  <2> QED
    BY <1>0, <2>2, <2>5, <2>6 DEF Spaced, Space, Recovering
<1>2. CASE op.tail # 0
  <2>1. op' = [op EXCEPT !.pc = "link"]
    BY <1>2 DEF ZeroStep
  <2>2. /\ op'.pc = "link" /\ op'.cmd = op.cmd /\ op'.lost = op.lost
        /\ op'.first = op.first /\ op'.tail = op.tail /\ op'.cluster = op.cluster
    BY <1>0, <2>1 DEF Ops
  <2>3. \A x : Kept(x) => Kept(x)'
    BY <1>0, <2>2 DEF Kept, Chain, Building
  <2> QED
    BY <1>0, <2>2, <2>3 DEF Spaced, Linked, Space, Recovering, Building, Chain
<1> QED
  BY <1>1, <1>2

\* The cluster linked joins the chain of the file.
LEMMA SpacedLink ==
    ASSUME Sound, Spaced, LinkStep
    PROVE  Spaced'
<1>0. /\ op \in Ops /\ op.pc = "link" /\ Links(fat) /\ Acyclic(fat) /\ UNCHANGED dir
      /\ op.tail \in Clusters /\ op.cluster \in Clusters /\ op.tail # op.cluster
      /\ fat[op.tail] = EOC /\ fat[op.cluster] = EOC
      /\ fat' = [fat EXCEPT ![op.tail] = op.cluster]
  BY ZenonT(40) DEF Sound, Types, Stages, LinkStep, FatSet, Building
<1>1. PICK c \in Clusters : c = op.cluster
  BY <1>0
<1>2. PICK t \in Clusters : t = op.tail
  BY <1>0
<1>3. PICK g : g = fat'
  OBVIOUS
<1>4. Links(g) /\ \A x \in Clusters : g[x] = IF x = t THEN c ELSE fat[x]
  BY <1>0, <1>1, <1>2, <1>3 DEF Links
<1>5. t # c /\ fat[t] \notin Clusters /\ fat[c] \notin Clusters /\ fat[t] # Free
  BY <1>0, <1>1, <1>2, ClusterFacts
<1>6. /\ \A x : ChainIn(fat, x) \subseteq ChainIn(g, x)
      /\ \A x : t \in ChainIn(fat, x) => c \in ChainIn(g, x)
  BY ONLY <1>0, <1>4, <1>5, c \in Clusters, t \in Clusters, SetLink
<1>7. /\ op'.pc = "write" /\ op'.cmd = op.cmd /\ op'.lost = op.lost
      /\ op'.first = op.first /\ op'.tail = c
  BY <1>0, <1>1 DEF LinkStep, Ops
<1>8. c \in ChainIn(g, op.first)
  BY <1>0, <1>2, <1>6 DEF Spaced, Linked, Building, Chain
<1>9. \A x : Kept(x) => Kept(x)'
  BY ZenonT(40), <1>0, <1>1, <1>3, <1>6, <1>7, <1>8 DEF Kept, Chain, Building
<1>10. Linked'
  BY <1>3, <1>7, <1>8 DEF Linked, Building, Chain
<1>11. Space'
  BY <1>0, <1>3, <1>4, <1>5, <1>7, <1>9 DEF Spaced, Space, Recovering
<1> QED
  BY <1>10, <1>11 DEF Spaced

\* Writing a part allocates nothing.
LEMMA SpacedWrite ==
    ASSUME Sound, Spaced, WriteStep
    PROVE  Spaced'
<1>0. op \in Ops /\ op.pc = "write" /\ UNCHANGED <<fat, dir>>
  BY ZenonT(40) DEF Sound, Types, WriteStep
<1>1. /\ op'.pc \in {"alloc", "commit"} /\ op'.cmd = op.cmd /\ op'.lost = op.lost
      /\ op'.first = op.first /\ op'.tail = op.tail
  BY <1>0 DEF WriteStep, Ops
<1>2. \A x : Kept(x) => Kept(x)'
  BY <1>0, <1>1 DEF Kept, Chain, Building
<1> QED
  BY <1>0, <1>1, <1>2 DEF Spaced, Linked, Space, Recovering, Building, Chain

\* The chain of the file passes to its entry.
LEMMA SpacedCommit ==
    ASSUME Sound, Spaced, CommitStep
    PROVE  Spaced'
<1>0. /\ op \in Ops /\ op.pc = "commit" /\ UNCHANGED fat /\ op.slot \in 1..Slots
      /\ dir \in [1..Slots -> Entries] /\ dir[op.slot] = None /\ op.first \in Clusters
  BY ZenonT(40) DEF Sound, Types, Stages, CommitStep, Building
<1>1. op'.pc = "next" /\ op'.cmd = op.cmd /\ op'.lost = op.lost
  BY <1>0 DEF CommitStep, Ops
<1>2. PICK entry : entry = [name |-> Current, first |-> op.first]
  BY ZenonT(40)
<1>3. entry.first = op.first /\ entry # None
  BY ZenonT(40), <1>0, <1>2, ClusterFacts DEF None, Free
<1>4. \A s \in 1..Slots : dir'[s] = IF s = op.slot THEN entry ELSE dir[s]
  BY <1>0, <1>2 DEF CommitStep
<1>5. ASSUME NEW x, Kept(x) PROVE Kept(x)'
  <2>1. CASE x \in Chain(op.first)
    BY <1>0, <1>3, <1>4, <2>1 DEF Kept, Chain
  <2>2. CASE \E s \in 1..Slots : dir[s] # None /\ x \in Chain(dir[s].first)
    BY <1>0, <1>4, <2>2 DEF Kept, Chain
  <2>3. CASE x \in op.lost
    BY <1>1, <2>3 DEF Kept
  <2> QED
    BY <1>0, <1>5, <2>1, <2>2, <2>3 DEF Kept
<1> QED
  BY <1>0, <1>1, <1>5 DEF Spaced, Linked, Space, Recovering, Building

\* Every step keeps the account of the clusters in use.
LEMMA SpacedNext ==
    ASSUME Sound, OnlyStores, Spaced, [Next]_vars
    PROVE  Spaced'
<1>1. CASE recover \/ install \/ \E m \in Modes : bootmode(m)
  <2>1. PICK c \in {"recover", "install", "bootmode"} : \E steps : Begin(c, steps)
    BY <1>1 DEF recover, install, bootmode
  <2> QED
    BY <2>1, SpacedBegin
<1>2. CASE Step
  BY <1>2, SpacedNextCall, SpacedFree, SpacedErase, SpacedScan, SpacedAlloc, SpacedZero,
     SpacedLink, SpacedWrite, SpacedCommit DEF Step
<1>3. CASE boot \/ Crash \/ TornFatSet
  <2>1. op'.pc = "done" /\ op'.cmd = "none"
    BY <1>3 DEF boot, Crash, TornFatSet, PowerFails, Session, Idle
  <2> QED
    BY <2>1, SpacedIdle DEF Recovering
<1>4. CASE UNCHANGED vars
  BY <1>4 DEF vars, disk, Spaced, Linked, Space, Recovering, Kept, Chain
<1> QED
  BY <1>1, <1>2, <1>3, <1>4 DEF Next

\* A recovery or an installation that reports success has lost no cluster of
\* the FAT that was not lost before it, and no file has two entries: for every
\* size of the volume, and wherever the power failed before the command.
THEOREM RecoveryKeepsSpaceAlways == Spec => []RecoveryKeepsSpace
<1> DEFINE Inv == Sound /\ OnlyStores /\ Spaced
<1>1. Init => Inv
  <2> SUFFICES ASSUME Init PROVE OnlyStores /\ Spaced
    BY SoundInit
  <2>1. op.pc = "done" /\ op.cmd = "none"
    BY DEF Init, Idle
  <2> QED
    BY <2>1 DEF OnlyStores, Spaced, Linked, Space, Recovering, Building
<1>2. Inv /\ [Next]_vars => Inv'
  BY SoundNext, OnlyStoresNext, SpacedNext
<1>3. Inv => RecoveryKeepsSpace
  <2> SUFFICES ASSUME Inv PROVE RecoveryKeepsSpace
    OBVIOUS
  <2>1. ASSUME op.cmd \in {"recover", "install"}, op.pc = "done", op.ok PROVE Lost \subseteq op.lost
    BY <2>1 DEF Spaced, Space, Recovering, Kept, Lost, Live, Building
  <2>2. \A s, t \in Live : dir[s].name = dir[t].name => s = t
    BY DEF Sound, OneEntry, Live
  <2> QED
    BY <2>1, <2>2 DEF RecoveryKeepsSpace
<1> QED
  BY <1>1, <1>2, <1>3, PTL DEF Spec

-----------------------------------------------------------------------------
(* The files of a volume whose power has not failed                        *)

Whole(s) == Intact(s) /\ Size[dir[s].name] < Limit

Good(s) == dir[s] # None /\ ~Replaced(s)

\* The clusters that chains begin with.
Start(h) ==
    \/ \E s \in 1..Slots : Good(s) /\ h = dir[s].first
    \/ op.pc \in {"free", "zero", "link"} /\ h = op.cluster
    \/ op.pc \in Building /\ h = op.first

\* No cluster is linked to twice, and none that is linked to is free.
Straight(f) ==
    /\ \A x, y \in Clusters : f[x] \in Clusters /\ f[x] = f[y] => x = y
    /\ \A x \in Clusters : f[x] \in Clusters => f[f[x]] # Free

\* No chain leads to the beginning of another, and no two begin alike.
Order ==
    /\ Straight(fat)
    /\ \A h \in Clusters : Start(h) => fat[h] # Free /\ \A x \in Clusters : fat[x] # h
    /\ \A s, t \in 1..Slots : Good(s) /\ Good(t) /\ dir[s].first = dir[t].first => s = t
    /\ op.pc \in {"free", "zero", "link"} =>
         \A s \in 1..Slots : Good(s) => dir[s].first # op.cluster
    /\ op.pc \in Building => \A s \in 1..Slots : Good(s) => dir[s].first # op.first
    /\ op.pc \in {"zero", "link"} => op.first # op.cluster

\* Of the new file, the parts that were counted are written and the chain ends
\* in the tail.
Part(k) ==
    /\ k \in 1..Limit /\ Walk(op.first)[k] = op.tail
    /\ \A i \in 1..k : Walk(op.first)[i] \in Clusters
    /\ \A i \in 1..op.written : data[Walk(op.first)[i]] = <<Current, i>>

Content ==
    /\ \A s \in 1..Slots : Good(s) => Whole(s)
    /\ op.pc \in {"alloc", "zero", "link", "write"} => op.written < Size[Current]
    /\ op.pc = "commit" => op.written = Size[Current]
    /\ op.pc \in Building /\ op.first = 0 => op.written = 0
    /\ op.pc \in {"alloc", "zero", "link", "commit"} /\ op.first \in Clusters => Part(op.written)
    /\ op.pc = "write" => Part(op.written + 1)

Tidy == crashes = 0 => Order /\ Content

\* Past its first cluster a chain has only clusters that are linked to.
LEMMA ChainMembers ==
    ASSUME NEW f, Links(f), Acyclic(f), NEW h, NEW x \in ChainIn(f, h)
    PROVE  x = h \/ \E y \in Clusters : f[y] = x
<1>1. /\ ChainIn(f, h) \subseteq Clusters
      /\ \A y \in ChainIn(f, h) : f[y] \in Clusters => f[y] \in ChainIn(f, h)
  BY ChainClosed
<1> DEFINE S == {y \in Clusters : y = h \/ \E z \in Clusters : f[z] = y}
<1>2. /\ h \in Clusters => h \in S
      /\ \A y \in S \cap Clusters : f[y] \in Clusters => f[y] \in S
  OBVIOUS
<1> HIDE DEF S
<1>3. ChainIn(f, h) \subseteq S
  BY ZenonT(40), <1>2, ChainLeast
<1> QED
  BY <1>3 DEF S

\* Two chains that begin differently, where no cluster is linked to, are disjoint.
LEMMA ChainsApart ==
    ASSUME NEW f, Links(f), Acyclic(f), Straight(f), NEW g, NEW h, g # h,
           \A x \in Clusters : f[x] # g /\ f[x] # h
    PROVE  ChainIn(f, g) \cap ChainIn(f, h) = {}
<1> DEFINE inner == {y \in ChainIn(f, h) : y = h \/ \E z \in ChainIn(f, h) : f[z] = y}
           S == Clusters \ ChainIn(f, h)
<1>1. /\ ChainIn(f, h) \subseteq Clusters /\ (h \in Clusters => h \in ChainIn(f, h))
      /\ \A y \in ChainIn(f, h) : f[y] \in Clusters => f[y] \in ChainIn(f, h)
  BY ChainClosed
<1>2. /\ h \in Clusters => h \in inner
      /\ \A y \in inner \cap Clusters : f[y] \in Clusters => f[y] \in inner
  BY <1>1
<1>3. ChainIn(f, h) \subseteq inner
  <2> HIDE DEF inner
  <2> QED
    BY ZenonT(40), <1>2, ChainLeast
<1>4. g \in Clusters => g \in S
  BY <1>1, <1>3
<1>5. ASSUME NEW x \in S \cap Clusters, f[x] \in Clusters PROVE f[x] \in S
  <2> SUFFICES ASSUME f[x] \in ChainIn(f, h) PROVE FALSE
    BY <1>5
  <2>1. PICK z \in ChainIn(f, h) : f[z] = f[x]
    BY <1>3
  <2>2. z = x
    BY <1>1, <1>5, <2>1 DEF Straight
  <2> QED
    BY <2>2
<1>6. ChainIn(f, g) \subseteq S
  <2> HIDE DEF S
  <2> QED
    BY ZenonT(40), <1>4, <1>5, ChainLeast
<1> QED
  BY <1>6

\* The first k clusters of a walk depend on the links before them.
LEMMA PrefixAgree ==
    ASSUME NEW f, NEW g, NEW c, NEW k \in 1..Limit,
           \A i \in 1..Limit : i < k /\ WalkIn(f, c)[i] \in Clusters => g[WalkIn(f, c)[i]] = f[WalkIn(f, c)[i]]
    PROVE  \A i \in 1..k : WalkIn(g, c)[i] = WalkIn(f, c)[i]
<1> DEFINE at == WalkIn(f, c)
           bt == WalkIn(g, c)
           T == {i \in 1..Limit : i <= k => bt[i] = at[i]}
<1>0. Limit \in Nat /\ Limit > 3
  BY ClusterFacts
<1>1. at[1] = c /\ \A i \in 1..Limit : i < Limit => at[i + 1] = After(f, at[i])
  BY WalkSteps
<1>2. bt[1] = c /\ \A i \in 1..Limit : i < Limit => bt[i + 1] = After(g, bt[i])
  BY WalkSteps
<1>3. \A i \in 1..Limit : i < k /\ at[i] \in Clusters => g[at[i]] = f[at[i]]
  OBVIOUS
<1> HIDE DEF at, bt
<1>4. 1 \in T
  BY <1>0, <1>1, <1>2
<1>5. ASSUME NEW i \in 1..Limit, i \in T, i < Limit PROVE i + 1 \in T
  <2>1. at[i + 1] = After(f, at[i]) /\ bt[i + 1] = After(g, bt[i]) /\ i + 1 \in 1..Limit
    BY <1>0, <1>1, <1>2, <1>5
  <2>2. CASE i + 1 <= k
    <3>1. i < k /\ i <= k
      BY <1>0, <2>2
    <3>2. bt[i] = at[i]
      BY <1>5, <3>1
    <3> QED
      BY <1>3, <2>1, <3>1, <3>2 DEF After
  <2>3. CASE ~(i + 1 <= k)
    BY <2>1, <2>3
  <2> QED
    BY <2>2, <2>3
<1>6. 1..Limit \subseteq T
  <2> HIDE DEF T
  <2> QED
    BY <1>4, <1>5, WalkInduction
<1>7. \A i \in 1..k : i \in 1..Limit /\ i <= k
  BY <1>0
<1> QED
  BY <1>6, <1>7 DEF at, bt

\* A file stays whole when its entry, its chain and its clusters stay.
LEMMA WholeKept ==
    ASSUME Sound, NEW s \in 1..Slots, dir[s] # None, Whole(s), dir'[s] = dir[s],
           SameWalk(fat, fat', dir[s].first),
           \A x \in ChainIn(fat, dir[s].first) : data'[x] = data[x]
    PROVE  Whole(s)'
<1> DEFINE n == Size[dir[s].name]
           at == WalkIn(fat, dir[s].first)
           bt == WalkIn(fat', dir[s].first)
<1>1. dir[s].name \in Names
  BY ZenonT(40) DEF Sound, Types, Entries
<1>2. n \in Nat /\ n < Limit /\ Limit \in Nat
  <2>1. Size \in [Names -> Nat \ {0}]
    BY ZenonT(40), Mini64Assumption
  <2> QED
    BY <1>1, <2>1, ClusterFacts DEF Whole
<1>3. /\ \A i \in 1..n : at[i] \in Clusters /\ data[at[i]] = <<dir[s].name, i>>
      /\ at[n + 1] = EOC
  BY DEF Whole, Intact, Walk
<1>4. (n + 1) \in 1..Limit /\ \A i \in 1..n : i \in 1..Limit
  BY <1>2
<1>5. \A i \in 1..n : at[i] \in ChainIn(fat, dir[s].first)
  BY <1>3, <1>4 DEF ChainIn
<1>6. bt[n + 1] = EOC /\ \A i \in 1..n : bt[i] \in Clusters /\ data'[bt[i]] = <<dir[s].name, i>>
  BY <1>3, <1>4, <1>5 DEF SameWalk
<1> QED
  BY <1>2, <1>6 DEF Whole, Intact, Walk

\* The part of the new file stays written when its chain and clusters stay.
LEMMA PartKept ==
    ASSUME Sound, NEW k, Part(k), op'.first = op.first, op'.tail = op.tail,
           op'.written = op.written, op.written <= k, op'.todo = op.todo,
           SameWalk(fat, fat', op.first),
           \A x \in ChainIn(fat, op.first) : data'[x] = data[x]
    PROVE  Part(k)'
<1> DEFINE at == WalkIn(fat, op.first)
           bt == WalkIn(fat', op.first)
<1>1. /\ k \in 1..Limit /\ at[k] = op.tail /\ \A i \in 1..k : at[i] \in Clusters
      /\ \A i \in 1..op.written : data[at[i]] = <<Current, i>>
  BY DEF Part, Walk
<1>2. op.written \in Nat /\ Limit \in Nat
  BY ZenonT(40), ClusterFacts DEF Sound, Types, Ops
<1>3. (\A i \in 1..k : i \in 1..Limit) /\ \A i \in 1..op.written : i \in 1..k
  BY <1>1, <1>2
<1>4. \A i \in 1..k : at[i] \in ChainIn(fat, op.first)
  BY <1>1, <1>3 DEF ChainIn
<1>5. \A i \in 1..op.written : data'[bt[i]] = <<Current, i>>
  BY <1>1, <1>3, <1>4 DEF SameWalk
<1>6. bt[k] = op.tail /\ \A i \in 1..k : bt[i] \in Clusters
  BY <1>1, <1>3 DEF SameWalk
<1>7. Current' = Current
  BY DEF Current
<1> QED
  BY <1>1, <1>5, <1>6, <1>7 DEF Part, Walk

\* The files stay as they are when a step touches neither the FAT nor the
\* clusters, builds nothing and adds no entry.
LEMMA Settles ==
    ASSUME Sound, Order, Content, fat' = fat, data' = data,
           op'.pc \in {"done", "next", "scan", "erase"},
           \A s \in 1..Slots : Good(s)' => Good(s) /\ dir'[s] = dir[s]
    PROVE  Order' /\ Content'
<1>1. \A h : Start(h)' => Start(h)
  BY DEF Start, Building
<1>2. Order'
  BY <1>1 DEF Order, Building
<1>3. ASSUME NEW s \in 1..Slots, Good(s)' PROVE Whole(s)'
  <2>1. dir[s] # None /\ Whole(s) /\ dir'[s] = dir[s]
    BY <1>3 DEF Good, Content
  <2> QED
    BY <2>1, WholeKept DEF SameWalk
<1>4. Content'
  BY <1>3 DEF Content, Building
<1> QED
  BY <1>2, <1>4

\* A call begins: nothing on the volume changes but a deleted entry.
LEMMA TidyNextCall ==
    ASSUME Sound, Order, Content, NextCall
    PROVE  Order' /\ Content'
<1> DEFINE call == Head(op.todo)
           found == Find(call[2])
           s == CHOOSE t \in found : \A u \in found : t <= u
<1>0. op \in Ops /\ op.pc = "next" /\ dir \in [1..Slots -> Entries] /\ UNCHANGED <<fat, data>>
  BY ZenonT(40) DEF Sound, Types, NextCall
<1>1. \A t : Good(t) <=> dir[t] # None
  BY <1>0 DEF Good, Replaced
<1>2. CASE dir' = dir /\ op'.pc \in {"done", "scan"}
  BY <1>0, <1>1, <1>2, Settles DEF Good
<1>3. CASE op' = [op EXCEPT !.pc = "free", !.slot = s, !.cluster = dir[s].first] /\ found # {} /\ dir' = dir
  <2>1. found \in SUBSET (1..Slots) /\ \A t \in found : dir[t] # None
    BY DEF Find, Live
  <2>2. s \in found
    <3>1. found \in SUBSET Nat
      BY <2>1
    <3> HIDE DEF found
    <3> QED
      BY <1>3, <3>1, MinFacts
  <2> HIDE DEF s, found
  <2>3. op'.pc = "free" /\ op'.slot = s /\ op'.cluster = dir[s].first
    BY <1>0, <1>3 DEF Ops
  <2>4. s \in 1..Slots /\ Good(s)
    BY <1>1, <2>1, <2>2
  <2>5. \A t \in 1..Slots : Good(t)' => Good(t) /\ t # s
    BY <1>1, <1>3, <2>3 DEF Good, Replaced
  <2>6. \A h : Start(h)' => Start(h)
    BY <1>3, <2>3, <2>4, <2>5 DEF Start, Building
  <2>7. Order'
    BY <1>0, <1>3, <2>3, <2>4, <2>5, <2>6 DEF Order, Building
  <2>8. ASSUME NEW t \in 1..Slots, Good(t)' PROVE Whole(t)'
    <3>1. dir[t] # None /\ Whole(t) /\ dir'[t] = dir[t]
      BY <1>3, <2>5, <2>8 DEF Good, Content
    <3> QED
      BY <1>0, <3>1, WholeKept DEF SameWalk
  <2>9. Content'
    BY <2>3, <2>8 DEF Content, Building
  <2> QED
    BY <2>7, <2>9
<1>4. CASE op' = [op EXCEPT !.todo = Tail(@)] /\ dir' = delete_root_file(found)
  <2>1. op'.pc = "next"
    BY <1>0, <1>4 DEF Ops
  <2>2. dir' = dir \/ dir' = [dir EXCEPT ![s] = None]
    BY <1>4 DEF delete_root_file
  <2> HIDE DEF s
  <2>3. \A t \in 1..Slots : dir'[t] # None => dir'[t] = dir[t]
    BY ZenonT(40), <1>0, <2>2
  <2> QED
    BY <1>0, <1>1, <2>1, <2>3, Settles DEF Good
<1>5. op' = [Idle EXCEPT !.cmd = op.cmd, !.lost = op.lost,
                         !.ok = \A f \in Verified[op.cmd] : Find(f) # {}] => op'.pc = "done"
  BY DEF Idle
<1>6. op' = [op EXCEPT !.pc = "scan"] => op'.pc = "scan"
  BY <1>0 DEF Ops
<1> QED
  BY <1>2, <1>3, <1>4, <1>5, <1>6 DEF NextCall

\* Freeing the old chain touches no other file: no chain leads into it.
LEMMA TidyFree ==
    ASSUME Sound, Order, Content, FreeStep
    PROVE  Order' /\ Content'
<1>0. /\ op \in Ops /\ op.pc = "free" /\ Links(fat) /\ Acyclic(fat) /\ Straight(fat)
      /\ fat' = [fat EXCEPT ![op.cluster] = Free] /\ UNCHANGED <<dir, data>>
  BY ZenonT(40) DEF Sound, Types, FreeStep, FatSet, Order
<1>1. PICK c \in Clusters : c = op.cluster
  BY DEF Sound, Stages, FreeStep
<1>2. PICK g : g = fat'
  OBVIOUS
<1>3. Links(g) /\ \A x \in Clusters : g[x] = IF x = c THEN Free ELSE fat[x]
  BY <1>0, <1>1, <1>2 DEF Links
<1>4. \A x : c \notin ChainIn(fat, x) => SameWalk(fat, g, x)
  BY ONLY <1>0, <1>3, c \in Clusters, SetFree
<1>5. /\ op'.slot = op.slot /\ op'.pc = IF fat[c] \in Clusters THEN "free" ELSE "erase"
      /\ fat[c] \in Clusters => op'.cluster = fat[c]
  BY <1>0, <1>1 DEF FreeStep, Ops
<1>6. \A s : Good(s)' <=> Good(s)
  BY <1>0, <1>5 DEF Good, Replaced
<1>7. \A x \in Clusters : fat[x] # c
  BY <1>0, <1>1 DEF Order, Start
<1>8. Free \notin Clusters /\ fat[c] # c
  BY <1>7, ClusterFacts
<1>9. Straight(g)
  BY <1>0, <1>3, <1>7, <1>8 DEF Straight
<1>10. \A s \in 1..Slots : Good(s) => /\ dir[s].first # c /\ dir[s].first \in Clusters
                                        /\ \A x \in Clusters : fat[x] # dir[s].first
  BY ZenonT(40), <1>0, <1>1 DEF Order, Start, Good, Sound, Types, Entries
<1>11. ASSUME NEW h \in Clusters, Start(h)' PROVE g[h] # Free /\ \A x \in Clusters : g[x] # h
  <2>1. CASE \E s \in 1..Slots : Good(s) /\ h = dir[s].first
    <3>1. h # c /\ fat[h] # Free /\ \A x \in Clusters : fat[x] # h
      BY <1>10, <2>1 DEF Order, Start
    <3> QED
      BY <1>3, <1>8, <3>1
  <2>2. CASE fat[c] \in Clusters /\ h = fat[c]
    <3>1. fat[h] # Free /\ \A x \in Clusters : fat[x] = h => x = c
      BY <1>0, <2>2 DEF Straight
    <3> QED
      BY <1>3, <1>8, <2>2, <3>1
  <2> QED
    BY <1>0, <1>5, <1>6, <1>11, <2>1, <2>2 DEF Start, Building
<1>12. Order'
  <2>1. fat[c] \in Clusters => \A s \in 1..Slots : Good(s) => dir[s].first # fat[c]
    BY <1>10
  <2> QED
    BY <1>0, <1>2, <1>5, <1>6, <1>9, <1>11, <2>1 DEF Order, Building
<1>13. ASSUME NEW s \in 1..Slots, Good(s) PROVE Whole(s)'
  <2>1. c \notin ChainIn(fat, dir[s].first)
    BY <1>0, <1>7, <1>10, <1>13, ChainMembers
  <2>2. SameWalk(fat, fat', dir[s].first)
    BY <1>2, <1>4, <2>1
  <2>3. dir[s] # None /\ Whole(s) /\ dir'[s] = dir[s] /\ data' = data
    BY <1>0, <1>13 DEF Good, Content
  <2> QED
    BY <2>2, <2>3, WholeKept
<1>14. Content'
  BY <1>5, <1>6, <1>13 DEF Content, Building
<1> QED
  BY <1>12, <1>14

\* Erasing the old entry touches no other file.
LEMMA TidyErase ==
    ASSUME Sound, Order, Content, EraseStep
    PROVE  Order' /\ Content'
<1>0. /\ op \in Ops /\ op.pc = "erase" /\ dir \in [1..Slots -> Entries]
      /\ op.slot \in 1..Slots /\ UNCHANGED <<fat, data>>
  BY ZenonT(40) DEF Sound, Types, Stages, EraseStep
<1>1. op'.pc = "scan"
  BY <1>0 DEF EraseStep, Ops
<1>2. \A s \in 1..Slots : dir'[s] # None => dir'[s] = dir[s] /\ s # op.slot
  BY <1>0 DEF EraseStep
<1> QED
  BY <1>0, <1>1, <1>2, Settles DEF Good, Replaced

\* The file being stored has a size.
LEMMA CurrentSize ==
    ASSUME Sound, op.pc \notin {"done", "next"}
    PROVE  Current \in Names /\ Size[Current] \in Nat /\ Size[Current] > 0
<1>1. op.todo # <<>> /\ op.todo \in Seq(Calls)
  BY ZenonT(40) DEF Sound, Stages, Types, Ops
<1>2. Head(op.todo) \in Calls
  BY <1>1
<1>3. Current \in Names
  BY <1>2, CallTypes DEF Current
<1>4. Size \in [Names -> Nat \ {0}]
  BY ZenonT(40), Mini64Assumption
<1> QED
  BY <1>3, <1>4

\* Finding a slot touches no file.
LEMMA TidyScan ==
    ASSUME Sound, Order, Content, ScanStep
    PROVE  Order' /\ Content'
<1>0. op \in Ops /\ op.pc = "scan" /\ UNCHANGED <<fat, dir, data>> /\ op.todo # <<>>
  BY ZenonT(40) DEF Sound, Types, Stages, ScanStep, disk
<1>1. \A s : Good(s) <=> dir[s] # None
  BY <1>0 DEF Good, Replaced
<1>2. CASE op' = Failed(op)
  <2>1. op'.pc \in {"done", "next"}
    BY <1>0, <1>2, FailedType
  <2> QED
    BY <1>0, <1>1, <2>1, Settles DEF Good
<1>3. CASE op' # Failed(op)
  <2>1. /\ op'.pc = "alloc" /\ op'.first = 0 /\ op'.written = 0 /\ op'.todo = op.todo
    BY <1>0, <1>3 DEF ScanStep, Ops
  <2>2. \A s : Good(s)' => Good(s)
    BY <1>0, <1>1 DEF Good
  <2>3. 0 \notin Clusters
    BY ClusterFacts DEF Free
  <2>4. \A h \in Clusters : Start(h)' => Start(h)
    BY <1>0, <2>1, <2>2, <2>3 DEF Start
  <2>5. \A s \in 1..Slots : Good(s) => dir[s].first # 0
    BY ZenonT(40), <2>3 DEF Good, Sound, Types, Entries
  <2>6. Order'
    BY <1>0, <2>1, <2>2, <2>4, <2>5 DEF Order, Building
  <2>7. ASSUME NEW s \in 1..Slots, Good(s)' PROVE Whole(s)'
    <3>1. dir[s] # None /\ Whole(s) /\ dir'[s] = dir[s]
      BY <1>0, <2>2, <2>7 DEF Good, Content
    <3> QED
      BY <1>0, <3>1, WholeKept DEF SameWalk
  <2>8. Size[Current] > 0 /\ Current' = Current /\ Size[Current] \in Nat
    BY <1>0, <2>1, CurrentSize DEF Current
  <2>9. Content'
    BY <2>1, <2>3, <2>7, <2>8 DEF Content, Building
  <2> QED
    BY <2>6, <2>9
<1> QED
  BY <1>2, <1>3

\* The cluster allocated was free, and no chain leads to a free cluster.
LEMMA TidyAlloc ==
    ASSUME Sound, Order, Content, AllocStep
    PROVE  Order' /\ Content'
<1>0. /\ op \in Ops /\ op.pc = "alloc" /\ Links(fat) /\ Acyclic(fat) /\ Straight(fat)
      /\ op.todo # <<>> /\ UNCHANGED <<dir, data>>
  BY ZenonT(40) DEF Sound, Types, Stages, AllocStep, Order
<1>1. \A s : Good(s) <=> dir[s] # None
  BY <1>0 DEF Good, Replaced
<1>2. CASE Candidates = {}
  <2>1. op' = Failed(op) /\ fat' = fat
    BY <1>2 DEF AllocStep
  <2>2. op'.pc \in {"done", "next"}
    BY <1>0, <2>1, FailedType
  <2> QED
    BY <1>0, <1>1, <2>1, <2>2, Settles DEF Good
<1>3. CASE Candidates # {}
  <2>1. PICK c : c = Allocated
    OBVIOUS
  <2>2. c \in Clusters /\ fat[c] = Free /\ fat[c] \notin Clusters
    BY <1>3, <2>1, AllocatedFacts, ClusterFacts
  <2>3. fat' = [fat EXCEPT ![c] = EOC] /\ op' = [op EXCEPT !.pc = "zero", !.cluster = c]
    BY <1>3, <2>1 DEF AllocStep, FatSet
  <2>4. PICK g : g = fat'
    OBVIOUS
  <2>5. Links(g) /\ \A x \in Clusters : g[x] = IF x = c THEN EOC ELSE fat[x]
    BY <1>0, <2>2, <2>3, <2>4 DEF Links
  <2>6. \A x : c \notin ChainIn(fat, x) => SameWalk(fat, g, x)
    BY ONLY <1>0, <2>2, <2>5, SetEnd
  <2>7. /\ op'.pc = "zero" /\ op'.cluster = c /\ op'.first = op.first /\ op'.tail = op.tail
        /\ op'.written = op.written /\ op'.todo = op.todo
    BY <1>0, <2>3 DEF Ops
  <2>8. EOC \notin Clusters /\ EOC # Free
    BY ClusterFacts
  <2>9. \A x \in Clusters : fat[x] # c
    BY <1>0, <2>2 DEF Straight
  <2>10. Straight(g)
    BY <1>0, <2>5, <2>8 DEF Straight
  <2>11. \A h \in Clusters : Start(h) => h # c /\ fat[h] # Free /\ \A x \in Clusters : fat[x] # h
    BY <2>2 DEF Order
  <2>12. \A s : Good(s)' <=> Good(s)
    BY <1>0, <1>1, <2>7 DEF Good, Replaced
  <2>13. \A h : Start(h)' => Start(h) \/ h = c
    BY <1>0, <2>7, <2>12 DEF Start, Building
  <2>14. \A h \in Clusters : Start(h)' => g[h] # Free /\ \A x \in Clusters : g[x] # h
    BY <2>5, <2>8, <2>9, <2>11, <2>13
  <2>15. /\ \A s \in 1..Slots : Good(s) => dir[s].first \in Clusters /\ dir[s].first # c
         /\ op.first # c
    <3>1. \A s \in 1..Slots : Good(s) => dir[s].first \in Clusters
      BY ZenonT(40) DEF Good, Sound, Types, Entries
    <3>2. Start(op.first)
      BY <1>0 DEF Start, Building
    <3> QED
      BY <2>2, <2>11, <3>1, <3>2 DEF Start
  <2>16. Order'
    BY ZenonT(40), <1>0, <2>4, <2>7, <2>10, <2>12, <2>14, <2>15 DEF Order, Building
  <2>17. ASSUME NEW h, h # c PROVE SameWalk(fat, fat', h)
    <3>1. c \notin ChainIn(fat, h)
      BY <1>0, <2>9, <2>17, ChainMembers
    <3> QED
      BY <2>4, <2>6, <3>1
  <2>18. ASSUME NEW s \in 1..Slots, Good(s) PROVE Whole(s)'
    <3>1. dir[s] # None /\ Whole(s) /\ dir'[s] = dir[s] /\ data' = data
      BY <1>0, <2>18 DEF Good, Content
    <3>2. SameWalk(fat, fat', dir[s].first)
      BY <2>15, <2>17, <2>18
    <3> QED
      BY <3>1, <3>2, WholeKept
  <2>19. op.first \in Clusters => Part(op.written)'
    <3> SUFFICES ASSUME op.first \in Clusters PROVE Part(op.written)'
      OBVIOUS
    <3>1. PICK k : k = op.written
      OBVIOUS
    <3>2. Part(k) /\ op.written <= k
      BY <1>0, <3>1 DEF Content, Ops
    <3>3. SameWalk(fat, fat', op.first)
      BY <2>15, <2>17
    <3>4. Part(k)'
      BY ZenonT(40), <1>0, <2>7, <3>2, <3>3, PartKept
    <3> QED
      BY <2>7, <3>1, <3>4 DEF Part
  <2>20. Current' = Current
    BY <2>7 DEF Current
  <2>21. Content'
    BY <1>0, <2>7, <2>12, <2>18, <2>19, <2>20 DEF Content, Building
  <2> QED
    BY <2>16, <2>21
<1> QED
  BY <1>2, <1>3

\* The cluster zeroed is in no file.
LEMMA TidyZero ==
    ASSUME Sound, Order, Content, ZeroStep
    PROVE  Order' /\ Content'
<1>0. /\ op \in Ops /\ op.pc = "zero" /\ Links(fat) /\ Acyclic(fat) /\ Straight(fat)
      /\ op.todo # <<>> /\ op.cluster \in Clusters /\ (op.first = 0 <=> op.tail = 0)
      /\ op.first \in {0} \cup Clusters
      /\ UNCHANGED <<fat, dir>> /\ data \in [Clusters -> (Names \cup {""}) \X Nat]
      /\ data' = [data EXCEPT ![op.cluster] = Zeros] /\ 0 \notin Clusters
  BY ZenonT(40), ClusterFacts DEF Sound, Types, Stages, ZeroStep, Order, Ops, Free
<1>1. \A s : Good(s) <=> dir[s] # None
  BY ZenonT(40), <1>0 DEF Good, Replaced
<1>2. /\ op'.todo = op.todo /\ op'.written = op.written
      /\ op.tail = 0 => op'.pc = "write" /\ op'.first = op.cluster /\ op'.tail = op.cluster
      /\ op.tail # 0 => op'.pc = "link" /\ op'.cluster = op.cluster /\ op'.first = op.first
                         /\ op'.tail = op.tail
  BY ZenonT(40), <1>0 DEF ZeroStep, Ops
<1>3. \A s : Good(s)' <=> Good(s)
  BY ZenonT(40), <1>0, <1>1, <1>2 DEF Good, Replaced
<1>4. \A h \in Clusters : Start(h)' => Start(h)
  BY ZenonT(40), <1>0, <1>2, <1>3 DEF Start, Building
<1>5. Order'
  BY ZenonT(40), <1>0, <1>2, <1>3, <1>4 DEF Order, Building
<1>6. \A x \in Clusters : fat[x] # op.cluster
  BY ZenonT(40), <1>0 DEF Order, Start
<1>7. ASSUME NEW h, h # op.cluster PROVE \A x \in ChainIn(fat, h) : data'[x] = data[x]
  <2>0. PICK c : c = op.cluster
    OBVIOUS
  <2>a. Links(fat) /\ Acyclic(fat) /\ h # c /\ \A x \in Clusters : fat[x] # c
    BY ZenonT(40), <1>0, <1>6, <1>7, <2>0
  <2>b. c \notin ChainIn(fat, h)
    BY <2>a, ChainMembers
  <2>1. op.cluster \notin ChainIn(fat, h)
    BY <2>0, <2>b
  <2>2. ChainIn(fat, h) \subseteq Clusters
    BY ZenonT(40), <1>0, ChainClosed
  <2> QED
    BY ZenonT(40), <1>0, <2>1, <2>2
<1>8. ASSUME NEW s \in 1..Slots, Good(s) PROVE Whole(s)'
  <2>1. dir[s] # None /\ Whole(s) /\ dir'[s] = dir[s] /\ fat' = fat /\ dir[s].first # op.cluster
    BY ZenonT(40), <1>0, <1>8 DEF Good, Content, Order
  <2>2. \A x \in ChainIn(fat, dir[s].first) : data'[x] = data[x]
    BY <1>7, <2>1
  <2> QED
    BY <2>1, <2>2, WholeKept DEF SameWalk
<1>9. Current' = Current
  BY <1>2 DEF Current
<1>10. CASE op.tail = 0
  <2>1. op.written = 0
    BY ZenonT(40), <1>0, <1>10 DEF Content, Building
  <2>2. WalkIn(fat, op.cluster)[1] = op.cluster
    BY WalkSteps
  <2>3. Part(op.written + 1)'
    <3>1. /\ op'.written = 0 /\ op'.first = op.cluster /\ op'.tail = op.cluster /\ fat' = fat
      BY ZenonT(40), <1>0, <1>2, <1>10, <2>1
    <3>0. op'.written + 1 = 1 /\ 1 \in 1..Limit
      BY <3>1, ClusterFacts
    <3>2. \A i \in 1..1 : WalkIn(fat, op.cluster)[i] \in Clusters
      <4>1. \A i \in 1..1 : i = 1
        OBVIOUS
      <4>2. op.cluster \in Clusters
        BY ZenonT(40), <1>0
      <4> QED
        BY <2>2, <4>1, <4>2
    <3>3. \A i \in 1..0 : FALSE
      OBVIOUS
    <3> QED
      BY <2>2, <3>0, <3>1, <3>2, <3>3 DEF Part, Walk
  <2> QED
    BY ZenonT(40), <1>0, <1>2, <1>3, <1>5, <1>8, <1>9, <1>10, <2>3 DEF Content, Building
<1>11. CASE op.tail # 0
  <2>1. PICK k : k = op.written
    OBVIOUS
  <2>a. Part(k)
    BY ZenonT(40), <1>0, <1>11, <2>1 DEF Content
  <2>b. op.written <= k
    <3>1. op.written \in Nat
      BY ZenonT(40) DEF Sound, Types, Ops
    <3> QED
      BY <2>1, <3>1
  <2>c. op.first # op.cluster
    BY ZenonT(40), <1>0 DEF Order
  <2>2. Part(k) /\ op.written <= k /\ op.first # op.cluster
    BY <2>a, <2>b, <2>c
  <2>3. \A x \in ChainIn(fat, op.first) : data'[x] = data[x]
    BY <1>7, <2>2
  <2>4. Part(k)'
    BY ZenonT(40), <1>0, <1>2, <1>11, <2>2, <2>3, PartKept DEF SameWalk
  <2>5. Part(op.written)'
    BY <1>2, <2>1, <2>4 DEF Part
  <2> QED
    BY ZenonT(40), <1>0, <1>2, <1>3, <1>5, <1>8, <1>9, <1>11, <2>5 DEF Content, Building
<1> QED
  BY <1>10, <1>11

\* The tail linked is in the chain of the new file, and in no other.
LEMMA TidyLink ==
    ASSUME Sound, Order, Content, Linked, LinkStep
    PROVE  Order' /\ Content'
<1>0. /\ op \in Ops /\ op.pc = "link" /\ Links(fat) /\ Acyclic(fat) /\ Straight(fat)
      /\ op.tail \in Clusters /\ op.cluster \in Clusters /\ op.first \in Clusters
      /\ fat[op.tail] = EOC /\ fat[op.cluster] = EOC /\ op.tail # op.cluster
      /\ fat' = [fat EXCEPT ![op.tail] = op.cluster] /\ UNCHANGED <<dir, data>>
      /\ op.tail \in ChainIn(fat, op.first)
  BY ZenonT(40) DEF Sound, Types, Stages, LinkStep, FatSet, Building, Order, Linked, Chain
<1>1. PICK c \in Clusters : c = op.cluster
  BY <1>0
<1>2. PICK t \in Clusters : t = op.tail
  BY <1>0
<1>3. PICK g : g = fat'
  OBVIOUS
<1>4. Links(g) /\ \A x \in Clusters : g[x] = IF x = t THEN c ELSE fat[x]
  BY <1>0, <1>1, <1>2, <1>3 DEF Links
<1>5. /\ t # c /\ fat[t] = EOC /\ fat[c] = EOC /\ EOC \notin Clusters /\ EOC # Free
      /\ fat[t] \notin Clusters /\ fat[c] \notin Clusters
  BY <1>0, <1>1, <1>2, ClusterFacts
<1>6. \A x : t \notin ChainIn(fat, x) => SameWalk(fat, g, x)
  BY ONLY ZenonT(40), <1>0, <1>4, <1>5, c \in Clusters, t \in Clusters, SetLink
<1>7. /\ op'.pc = "write" /\ op'.first = op.first /\ op'.tail = c
      /\ op'.written = op.written /\ op'.todo = op.todo
  BY <1>0, <1>1 DEF LinkStep, Ops
<1>8. \A s : Good(s)' <=> Good(s)
  BY ZenonT(40), <1>0, <1>7 DEF Good, Replaced
<1>9. \A x \in Clusters : fat[x] # c
  BY ZenonT(40), <1>0, <1>1 DEF Order, Start
<1>10. Straight(g)
  <2>1. ASSUME NEW x \in Clusters, NEW y \in Clusters, g[x] \in Clusters, g[x] = g[y] PROVE x = y
    BY <1>0, <1>4, <1>9, <2>1 DEF Straight
  <2>2. ASSUME NEW x \in Clusters, g[x] \in Clusters PROVE g[g[x]] # Free
    <3>0. c # Free /\ g[c] = EOC /\ g[t] = c
      BY <1>4, <1>5, ClusterFacts
    <3>1. CASE x = t
      BY <1>5, <3>0, <3>1
    <3>2. CASE x # t
      BY <1>0, <1>4, <2>2, <3>0, <3>2 DEF Straight
    <3> QED
      BY <3>1, <3>2
  <2> QED
    BY <2>1, <2>2 DEF Straight
<1>11. \A h : Start(h)' => Start(h)
  BY ZenonT(40), <1>0, <1>7, <1>8 DEF Start, Building
<1>12. \A h \in Clusters : Start(h)' => h # c
  BY ZenonT(40), <1>0, <1>1, <1>7, <1>8 DEF Start, Building, Order
<1>13. \A h \in Clusters : Start(h)' => g[h] # Free /\ \A x \in Clusters : g[x] # h
  <2> SUFFICES ASSUME NEW h \in Clusters, Start(h)' PROVE g[h] # Free /\ \A x \in Clusters : g[x] # h
    OBVIOUS
  <2>1. h # c /\ fat[h] # Free /\ \A x \in Clusters : fat[x] # h
    BY <1>11, <1>12 DEF Order
  <2>2. c # Free
    BY ClusterFacts
  <2> QED
    BY <1>4, <2>1, <2>2
<1>14. Order'
  BY <1>0, <1>3, <1>7, <1>8, <1>10, <1>13 DEF Order, Building
<1>15. ASSUME NEW s \in 1..Slots, Good(s) PROVE Whole(s)'
  <2>1. PICK h : h = dir[s].first
    OBVIOUS
  <2>2. PICK p : p = op.first
    OBVIOUS
  <2>3. /\ h \in Clusters /\ h # p /\ \A x \in Clusters : fat[x] # h /\ fat[x] # p
        /\ t \in ChainIn(fat, p)
    <3>1. h \in Clusters
      BY ZenonT(40), <1>15, <2>1 DEF Good, Sound, Types, Entries
    <3>2. h # p
      BY <1>0, <1>15, <2>1, <2>2 DEF Order, Building
    <3>3. Start(h) /\ Start(p)
      BY <1>0, <1>15, <2>1, <2>2 DEF Start, Building
    <3> QED
      BY <1>0, <1>2, <2>2, <3>1, <3>2, <3>3 DEF Order
  <2>4. ChainIn(fat, h) \cap ChainIn(fat, p) = {}
    BY <1>0, <2>3, ChainsApart
  <2>5. t \notin ChainIn(fat, h)
    BY <2>3, <2>4
  <2>6. SameWalk(fat, fat', dir[s].first)
    BY <1>3, <1>6, <2>1, <2>5
  <2>7. dir[s] # None /\ Whole(s) /\ dir'[s] = dir[s] /\ data' = data
    BY <1>0, <1>15 DEF Good, Content
  <2> QED
    BY <2>6, <2>7, WholeKept
<1>16. Part(op.written + 1)'
  <2> DEFINE at == WalkIn(fat, op.first)
             bt == WalkIn(g, op.first)
             n == op.written
  <2>0. n \in Nat /\ Limit \in Nat
    BY <1>0, ClusterFacts DEF Ops
  <2>1. /\ n \in 1..Limit /\ at[n] = t /\ (\A i \in 1..n : at[i] \in Clusters)
        /\ \A i \in 1..n : data[at[i]] = <<Current, i>>
    BY ZenonT(40), <1>0, <1>2 DEF Content, Part, Walk
  <2>2. at[Limit] \notin Clusters
    BY ZenonT(40), <1>0, WalkEnds
  <2>3. \A i \in 1..Limit : i < Limit => at[i + 1] = After(fat, at[i])
    BY WalkSteps
  <2>4. bt[n + 1] = After(g, bt[n]) /\ n < Limit
    <3>1. n # Limit
      BY <2>1, <2>2
    <3>2. n < Limit
      BY <2>0, <2>1, <3>1
    <3> QED
      BY <2>1, <3>2, WalkSteps
  <2> HIDE DEF at, bt, n
  <2>5. \A i \in 1..Limit : i < n => at[i] # t
    <3> SUFFICES ASSUME NEW i \in 1..Limit, i < n, at[i] = t PROVE FALSE
      OBVIOUS
    <3>1. i < Limit /\ i + 1 \in 1..n
      BY <2>0, <2>4
    <3>2. at[i + 1] = fat[t]
      BY <2>3, <3>1 DEF After
    <3> QED
      BY <1>5, <2>1, <3>1, <3>2
  <2>6. \A i \in 1..Limit : i < n /\ at[i] \in Clusters => g[at[i]] = fat[at[i]]
    BY <1>4, <2>5
  <2>7. \A i \in 1..n : bt[i] = at[i]
    BY <2>1, <2>6, PrefixAgree DEF at, bt
  <2>8. bt[n] = t /\ bt[n + 1] = c
    BY <1>4, <2>0, <2>1, <2>4, <2>7 DEF After
  <2>9. n + 1 \in 1..Limit /\ \A i \in 1..n + 1 : bt[i] \in Clusters
    BY <2>0, <2>1, <2>4, <2>7, <2>8
  <2>10. \A i \in 1..n : data[bt[i]] = <<Current, i>>
    BY <2>1, <2>7
  <2>11. Current' = Current
    BY <1>7 DEF Current
  <2> QED
    BY ZenonT(40), <1>0, <1>3, <1>7, <2>8, <2>9, <2>10, <2>11 DEF Part, Walk, bt, n
<1>17. Current' = Current
  BY <1>7 DEF Current
<1>18. Content'
  BY <1>0, <1>7, <1>8, <1>15, <1>16, <1>17, ClusterFacts DEF Content, Building
<1> QED
  BY <1>14, <1>18

\* The part written goes to the tail, which no other file has.
LEMMA TidyWrite ==
    ASSUME Sound, Order, Content, Linked, WriteStep
    PROVE  Order' /\ Content'
<1>0. /\ op \in Ops /\ op.pc = "write" /\ Links(fat) /\ Acyclic(fat) /\ Straight(fat)
      /\ op.tail \in Clusters /\ op.first \in Clusters /\ fat[op.tail] = EOC
      /\ op.tail \in ChainIn(fat, op.first) /\ UNCHANGED <<fat, dir>>
      /\ data \in [Clusters -> (Names \cup {""}) \X Nat]
      /\ data' = [data EXCEPT ![op.tail] = <<Current, op.written + 1>>]
  BY ZenonT(40) DEF Sound, Types, Stages, WriteStep, Building, Order, Linked, Chain
<1>1. PICK n \in Nat : n = op.written
  BY ZenonT(40) DEF Sound, Types, Ops
<1>2. PICK t \in Clusters : t = op.tail
  BY ZenonT(40), <1>0
<1>3. /\ op'.first = op.first /\ op'.tail = op.tail /\ op'.written = n + 1 /\ op'.todo = op.todo
      /\ op'.pc = IF n + 1 < Size[Current] THEN "alloc" ELSE "commit"
  BY ZenonT(40), <1>0, <1>1 DEF WriteStep, Ops
<1>4. PICK v : v = <<Current, n + 1>>
  BY ZenonT(40)
<1>5. \A x \in Clusters : data'[x] = IF x = t THEN v ELSE data[x]
  BY ZenonT(40), <1>0, <1>1, <1>2, <1>4
<1>6. \A s : Good(s)' <=> Good(s)
  BY ZenonT(40), <1>0, <1>3 DEF Good, Replaced
<1>7. \A h : Start(h)' => Start(h)
  BY ZenonT(40), <1>0, <1>3, <1>6 DEF Start, Building
<1>8. Order'
  BY ZenonT(40), <1>0, <1>3, <1>6, <1>7 DEF Order, Building
<1>9. ASSUME NEW s \in 1..Slots, Good(s) PROVE Whole(s)'
  <2>1. PICK h : h = dir[s].first
    OBVIOUS
  <2>2. PICK p : p = op.first
    OBVIOUS
  <2>3. /\ h \in Clusters /\ h # p /\ \A x \in Clusters : fat[x] # h /\ fat[x] # p
        /\ t \in ChainIn(fat, p)
    <3>1. h \in Clusters
      BY ZenonT(40), <1>9, <2>1 DEF Good, Sound, Types, Entries
    <3>2. h # p
      BY ZenonT(40), <1>0, <1>9, <2>1, <2>2 DEF Order, Building
    <3>3. Start(h) /\ Start(p)
      BY ZenonT(40), <1>0, <1>9, <2>1, <2>2 DEF Start, Building
    <3> QED
      BY ZenonT(40), <1>0, <1>2, <2>2, <3>1, <3>2, <3>3 DEF Order
  <2>4. ChainIn(fat, h) \cap ChainIn(fat, p) = {} /\ ChainIn(fat, h) \subseteq Clusters
    BY ZenonT(40), <1>0, <2>3, ChainsApart, ChainClosed
  <2>5. \A x \in ChainIn(fat, dir[s].first) : data'[x] = data[x]
    BY <1>5, <2>1, <2>3, <2>4
  <2>6. dir[s] # None /\ Whole(s) /\ dir'[s] = dir[s] /\ fat' = fat
    BY ZenonT(40), <1>0, <1>9 DEF Good, Content
  <2> QED
    BY ZenonT(40), <2>5, <2>6, WholeKept DEF SameWalk
<1>10. Current' = Current
  BY <1>3 DEF Current
<1>11. PICK k : k = n + 1
  OBVIOUS
<1>12. Part(k)'
  <2> DEFINE at == WalkIn(fat, op.first)
  <2>1. /\ k \in 1..Limit /\ at[k] = t /\ (\A i \in 1..k : at[i] \in Clusters)
        /\ \A i \in 1..n : data[at[i]] = <<Current, i>>
    BY ZenonT(40), <1>0, <1>1, <1>2, <1>11 DEF Content, Part, Walk
  <2>2. \A i \in 1..Limit : i < Limit => at[i + 1] = After(fat, at[i])
    BY WalkSteps
  <2>3. fat[t] \notin Clusters /\ Limit \in Nat
    BY ZenonT(40), <1>0, <1>2, ClusterFacts
  <2> HIDE DEF at
  <2>4. ASSUME NEW i \in 1..n PROVE at[i] # t
    <3>1. i \in 1..Limit /\ i < Limit /\ i + 1 \in 1..k
      BY <1>11, <2>1, <2>3
    <3>2. at[i] = t => at[i + 1] = fat[t]
      BY <2>2, <3>1 DEF After
    <3> QED
      BY <2>1, <2>3, <3>1, <3>2
  <2>5. ASSUME NEW i \in 1..k PROVE data'[at[i]] = <<Current, i>>
    <3>1. CASE i = k
      BY <1>4, <1>5, <1>11, <2>1, <3>1
    <3>2. CASE i # k
      <4>1. i \in 1..n
        BY <1>11, <3>2
      <4> QED
        BY <1>5, <2>1, <2>4, <4>1
    <3> QED
      BY <3>1, <3>2
  <2> QED
    BY ZenonT(40), <1>0, <1>2, <1>3, <1>10, <1>11, <2>1, <2>5 DEF Part, Walk, at
<1>13. n < Size[Current] /\ Size[Current] \in Nat
  BY ZenonT(40), <1>0, <1>1, CurrentSize DEF Content
<1>14. op'.pc = "commit" => op'.written = Size[Current]
  BY <1>3, <1>13
<1>15. op'.pc = "alloc" => op'.written < Size[Current]
  BY <1>3, <1>13
<1>16. Part(op.written)'
  BY <1>3, <1>11, <1>12 DEF Part
<1>17. op'.pc \in {"alloc", "commit"} /\ op'.first # 0
  BY ZenonT(40), <1>0, <1>3, ClusterFacts DEF Free
<1>18. Content'
  BY <1>6, <1>9, <1>10, <1>14, <1>15, <1>16, <1>17 DEF Content
<1> QED
  BY <1>8, <1>18

\* The file committed has all its parts, in order, and its chain ends.
LEMMA TidyCommit ==
    ASSUME Sound, Order, Content, CommitStep
    PROVE  Order' /\ Content'
<1>0. /\ op \in Ops /\ op.pc = "commit" /\ Links(fat) /\ Acyclic(fat)
      /\ op.slot \in 1..Slots /\ dir[op.slot] = None /\ op.first \in Clusters
      /\ op.tail \in Clusters /\ fat[op.tail] = EOC
      /\ dir \in [1..Slots -> Entries] /\ UNCHANGED <<fat, data>>
  BY ZenonT(40) DEF Sound, Types, Stages, CommitStep, Building
<1>1. op'.pc = "next"
  BY <1>0 DEF CommitStep, Ops
<1>2. PICK entry : entry = [name |-> Current, first |-> op.first]
  BY ZenonT(40)
<1>3. entry.first = op.first /\ entry.name = Current
  BY <1>2
<1>4. \A s \in 1..Slots : dir'[s] = IF s = op.slot THEN entry ELSE dir[s]
  BY <1>0, <1>2 DEF CommitStep
<1>5. \A s \in 1..Slots : Good(s)' => s = op.slot \/ (Good(s) /\ dir'[s] = dir[s])
  BY <1>0, <1>4 DEF Good, Replaced
<1>6. \A h : Start(h)' => Start(h)
  BY <1>0, <1>1, <1>3, <1>4, <1>5 DEF Start, Building
<1>7. \A s \in 1..Slots : Good(s) => dir[s].first # op.first
  BY <1>0 DEF Order, Building
<1>8. Order'
  BY ZenonT(40), <1>0, <1>1, <1>3, <1>4, <1>5, <1>6, <1>7 DEF Order, Building
<1>9. Whole(op.slot)'
  <2> DEFINE at == WalkIn(fat, op.first)
  <2>1. PICK n : n = op.written
    OBVIOUS
  <2>2. /\ n \in 1..Limit /\ at[n] = op.tail /\ n = Size[Current]
        /\ \A i \in 1..n : at[i] \in Clusters /\ data[at[i]] = <<Current, i>>
    BY ZenonT(40), <1>0, <2>1 DEF Content, Part, Walk
  <2>3. at[Limit] \notin Clusters /\ Limit \in Nat
    BY <1>0, WalkEnds, ClusterFacts
  <2>4. n # Limit
    BY <1>0, <2>2, <2>3
  <2>5. n < Limit
    BY <2>2, <2>3, <2>4
  <2>6. at[n + 1] = EOC
    <3>1. at[n + 1] = After(fat, at[n])
      BY <2>2, <2>5, WalkSteps
    <3> QED
      BY <1>0, <2>2, <3>1 DEF After
  <2>7. op'.slot = op.slot
    BY <1>0 DEF CommitStep, Ops
  <2>8. PICK s \in 1..Slots : s = op.slot
    BY <1>0
  <2>9. dir'[s].first = op.first /\ dir'[s].name = Current
    BY <1>3, <1>4, <2>8
  <2>10. Whole(s)'
    BY <1>0, <2>2, <2>5, <2>6, <2>9 DEF Whole, Intact, Walk
  <2> QED
    BY <2>7, <2>8, <2>10
<1>10. ASSUME NEW s \in 1..Slots, Good(s)' PROVE Whole(s)'
  <2>1. CASE s = op.slot
    <3>1. op'.slot = op.slot
      BY <1>0 DEF CommitStep, Ops
    <3> QED
      BY <1>9, <2>1, <3>1
  <2>2. CASE s # op.slot
    <3>1. dir[s] # None /\ Whole(s) /\ dir'[s] = dir[s] /\ fat' = fat /\ data' = data
      BY <1>0, <1>5, <1>10, <2>2 DEF Good, Content
    <3> QED
      BY <3>1, WholeKept DEF SameWalk
  <2> QED
    BY <2>1, <2>2
<1>11. Content'
  BY <1>1, <1>10 DEF Content, Building
<1> QED
  BY <1>8, <1>11

\* Every step keeps the files while the power holds.
LEMMA TidyNext ==
    ASSUME Sound, Linked, Tidy, [Next]_vars
    PROVE  Tidy'
<1>0. crashes \in Nat
  BY ZenonT(40) DEF Sound, Types
<1>1. CASE Crash \/ TornFatSet
  <2>1. crashes' = crashes + 1
    BY <1>1 DEF Crash, TornFatSet, PowerFails
  <2>2. crashes' # 0
    BY <1>0, <2>1
  <2> QED
    BY <2>2 DEF Tidy
<1>2. ASSUME ~(Crash \/ TornFatSet), crashes' = 0 PROVE Order' /\ Content'
  <2>1. crashes' = crashes
    BY ZenonT(40), <1>2 DEF Next, recover, install, bootmode, Begin, Step, NextCall, FreeStep, EraseStep,
       ScanStep, AllocStep, ZeroStep, LinkStep, WriteStep, CommitStep, boot, vars
  <2>2. Order /\ Content
    BY <1>2, <2>1 DEF Tidy
  <2>3. CASE recover \/ install \/ (\E m \in Modes : bootmode(m)) \/ boot
    <3>1. op.pc = "done" /\ op'.pc \in {"done", "next"} /\ UNCHANGED <<fat, dir, data>>
      <4>1. CASE boot
        BY <4>1 DEF boot, Session, Idle, disk
      <4>2. ASSUME NEW c, NEW steps, Begin(c, steps)
            PROVE  op.pc = "done" /\ op'.pc \in {"done", "next"} /\ UNCHANGED <<fat, dir, data>>
        BY <4>2 DEF Begin, Idle, disk
      <4> QED
        BY <2>3, <4>1, <4>2 DEF recover, install, bootmode
    <3> QED
      BY <2>2, <3>1, Settles DEF Good, Replaced
  <2>4. CASE Step
    BY <2>2, <2>4, TidyNextCall, TidyFree, TidyErase, TidyScan, TidyAlloc, TidyZero, TidyLink,
       TidyWrite, TidyCommit DEF Step
  <2>5. CASE UNCHANGED vars
    <3>1. fat' = fat /\ dir' = dir /\ data' = data /\ op' = op
      BY <2>5 DEF vars, disk
    <3>2. Current' = Current /\ (Straight(fat)' <=> Straight(fat))
      BY <3>1 DEF Current, Straight
    <3>3. ASSUME NEW h PROVE Walk(h)' = Walk(h)
      BY <3>1 DEF Walk
    <3>4. ASSUME NEW s PROVE Good(s)' <=> Good(s)
      BY <3>1 DEF Good, Replaced, Current
    <3>5. ASSUME NEW s PROVE Whole(s)' <=> Whole(s)
      BY <3>1 DEF Whole, Intact, Walk
    <3>6. ASSUME NEW h PROVE Start(h)' <=> Start(h)
      BY <3>1 DEF Start, Good, Replaced, Current
    <3>7. Order'
      BY <2>2, <3>1, <3>2, <3>4, <3>6 DEF Order
    <3>8. (Part(op.written)' <=> Part(op.written)) /\ (Part(op.written + 1)' <=> Part(op.written + 1))
      BY ZenonT(40), <3>1, <3>2, <3>3 DEF Part
    <3>9. Content'
      BY <2>2, <3>1, <3>2, <3>4, <3>5, <3>8 DEF Content
    <3> QED
      BY <3>7, <3>9
  <2> QED
    BY <1>2, <2>3, <2>4, <2>5 DEF Next
<1> QED
  BY <1>1, <1>2 DEF Tidy

\* While the power holds, a command of Mini64 leaves every file but the one it
\* replaces as it was stored, and no two files share a cluster: for every
\* volume, root directory and set of file sizes, when either is full as well.
THEOREM DamageConfinedAlways == Spec => []DamageConfined
<1> DEFINE Inv == Sound /\ OnlyStores /\ Spaced /\ Tidy
<1>1. Init => Inv
  <2> SUFFICES ASSUME Init PROVE Inv
    OBVIOUS
  <2>1. /\ op.pc = "done" /\ op.cmd = "none" /\ (\A s \in 1..Slots : dir[s] = None)
        /\ \A c \in Clusters : fat[c] = Free
    BY DEF Init, Idle
  <2>2. OnlyStores /\ Spaced
    BY <2>1 DEF OnlyStores, Spaced, Linked, Space, Recovering, Building
  <2>3. Order /\ Content
    BY <2>1, ClusterFacts DEF Order, Content, Straight, Start, Good, Building
  <2> QED
    BY <2>2, <2>3, SoundInit DEF Tidy
<1>2. Inv /\ [Next]_vars => Inv'
  BY SoundNext, OnlyStoresNext, SpacedNext, TidyNext DEF Spaced
<1>3. Inv => DamageConfined
  <2> SUFFICES ASSUME Inv, crashes = 0 PROVE
        \A s \in Live : ~Replaced(s) =>
          Intact(s) /\ \A t \in Live : t # s /\ ~Replaced(t) => Disjoint(s, t)
    BY DEF DamageConfined
  <2>0. Order /\ Content /\ Links(fat) /\ Acyclic(fat) /\ Straight(fat)
    BY ZenonT(40) DEF Tidy, Sound, Types, Order
  <2>1. \A s \in Live : ~Replaced(s) => Good(s) /\ s \in 1..Slots /\ dir[s].first \in Clusters
    BY ZenonT(40) DEF Live, Good, Sound, Types, Entries
  <2>2. \A s \in Live : ~Replaced(s) => Intact(s)
    BY <2>0, <2>1 DEF Content, Whole
  <2>3. ASSUME NEW s \in Live, NEW t \in Live, ~Replaced(s), ~Replaced(t), s # t
        PROVE  Disjoint(s, t)
    <3>1. PICK g : g = dir[s].first
      OBVIOUS
    <3>2. PICK h : h = dir[t].first
      OBVIOUS
    <3>3. g # h
      BY ZenonT(40), <2>0, <2>1, <2>3, <3>1, <3>2 DEF Order
    <3>4. g \in Clusters /\ h \in Clusters /\ Start(g) /\ Start(h)
      BY <2>1, <2>3, <3>1, <3>2 DEF Start
    <3>5. \A x \in Clusters : fat[x] # g /\ fat[x] # h
      BY <2>0, <3>4 DEF Order
    <3>6. ChainIn(fat, g) \cap ChainIn(fat, h) = {}
      BY <2>0, <3>3, <3>5, ChainsApart
    <3> QED
      BY <3>1, <3>2, <3>6 DEF Disjoint, Chain
  <2> QED
    BY <2>2, <2>3
<1> QED
  BY <1>1, <1>2, <1>3, PTL DEF Spec

=============================================================================
