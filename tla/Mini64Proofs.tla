---------------------------- MODULE Mini64Proofs ----------------------------
(***************************************************************************)
(* Proofs about the Mini64 rescue system: its drive (Mini64Disk), where it *)
(* believes its volume to be, and the files of the volume (Mini64Fat).     *)
(***************************************************************************)
EXTENDS Mini64Fat, Mini64Disk, FiniteSetTheorems, WellFoundedInduction, TLAPS

-----------------------------------------------------------------------------
(* The drive                                                               *)

\* What the drive answers is something the caller was told about, and nothing
\* that was reported written is only in the cache once no write is pending.
AtaInv ==
    /\ medium \in [Sectors -> Values] /\ cache \in [Sectors -> Values]
    /\ pending_writes \in Nat /\ sure \subseteq Sectors
    /\ allowed \in [Sectors -> SUBSET Values]
    /\ \A s \in Sectors : medium[s] \in allowed[s] /\ cache[s] \in allowed[s]
    /\ pending_writes = 0 => \A s \in sure : medium[s] = cache[s]

\* disk_flush reports success only when nothing is pending or the drive has answered.
LEMMA FlushInv ==
    ASSUME AtaInv, disk_flush
    PROVE  AtaInv'
<1>1. cache' = cache /\ sure' = sure
  BY DEF disk_flush
<1>2. ASSUME pending_writes = 0 \/ medium' = cache, Promise(TRUE),
             medium' \in {medium, cache}, pending_writes' \in {0, pending_writes},
             pending_writes' = 0 => pending_writes = 0 \/ medium' = cache
      PROVE  AtaInv'
  <2>1. \A s \in sure : medium'[s] = cache[s]
    BY <1>2 DEF AtaInv
  <2>2. allowed' = [s \in Sectors |-> IF s \in sure THEN {cache[s]} ELSE allowed[s]]
    BY <1>2 DEF Promise
  <2>3. \A s \in Sectors : medium'[s] \in allowed'[s] /\ cache[s] \in allowed'[s]
    BY <1>2, <2>1, <2>2 DEF AtaInv
  <2> QED
    BY <1>1, <1>2, <2>1, <2>2, <2>3 DEF AtaInv
<1>3. ASSUME Promise(FALSE), medium' = medium, pending_writes' = pending_writes
      PROVE  AtaInv'
  BY <1>1, <1>3 DEF AtaInv, Promise
<1> QED
  BY ZenonT(40), <1>2, <1>3 DEF disk_flush, Flush

\* disk_write, whether it flushes or not, and whether the drive answers in time or not.
LEMMA WriteInv ==
    ASSUME AtaInv, NEW s \in Sectors, NEW v \in Values, disk_write(s, v)
    PROVE  AtaInv'
<1>1. /\ cache' = [cache EXCEPT ![s] = v] /\ allowed' = [allowed EXCEPT ![s] = @ \cup {v}]
      /\ medium' \in {medium, cache'} /\ sure' \subseteq sure \cup {s}
  BY DEF disk_write, Flush
<1>2. /\ cache' \in [Sectors -> Values] /\ allowed' \in [Sectors -> SUBSET Values]
      /\ medium' \in [Sectors -> Values] /\ sure' \subseteq Sectors
      /\ \A t \in Sectors : medium'[t] \in allowed'[t] /\ cache'[t] \in allowed'[t]
  BY <1>1 DEF AtaInv
<1>3. /\ pending_writes' \in Nat
      /\ pending_writes' = 0 => \/ medium' = cache'
                                \/ pending_writes = 0 /\ medium' = medium /\ sure' = sure \ {s}
  BY DEF disk_write, Flush, AtaInv
<1>4. pending_writes' = 0 => \A t \in sure' : medium'[t] = cache'[t]
  BY <1>1, <1>3 DEF AtaInv
<1> QED
  BY <1>2, <1>3, <1>4 DEF AtaInv

\* Once disk_flush has returned 1, what was reported written is on the medium,
\* for any number of sectors and any limit on the pending writes.
THEOREM SyncKeepsAlways == AtaSpec => []SyncKeeps
<1>1. AtaInit => AtaInv
  BY DEF AtaInit, AtaInv
<1>2. AtaInv /\ [AtaNext]_ata => AtaInv'
  <2> SUFFICES ASSUME AtaInv, [AtaNext]_ata PROVE AtaInv'
    OBVIOUS
  <2>1. CASE disk_flush
    BY <2>1, FlushInv
  <2>2. CASE DriveDone
    BY <2>2 DEF DriveDone, AtaInv
  <2>3. CASE DriveLosesPower
    BY <2>3 DEF DriveLosesPower, AtaInv
  <2>4. ASSUME NEW s \in Sectors, WriteBack(s) PROVE AtaInv'
    BY <2>4 DEF WriteBack, AtaInv
  <2>5. ASSUME NEW s \in Sectors, NEW v \in Values, disk_write(s, v) PROVE AtaInv'
    BY <2>5, WriteInv
  <2>6. CASE UNCHANGED ata
    BY <2>6 DEF ata, AtaInv
  <2> QED
    BY <2>1, <2>2, <2>3, <2>4, <2>5, <2>6 DEF AtaNext
<1>3. AtaInv => SyncKeeps
  BY DEF AtaInv, SyncKeeps
<1> QED
  BY <1>1, <1>2, <1>3, PTL DEF AtaSpec

-----------------------------------------------------------------------------
(* The volume                                                              *)

\* The two parts of the geometry are known together, and always to a session that counts
\* the volume as mounted or whose disk holds a volume that fat_init would find.
VolumeInv ==
    /\ disk_sectors \in [VolumeSectors -> Contents]
    /\ fat_mounted \in BOOLEAN
    /\ vol_start \in {0, HOME_START} /\ data_start \in {0, DataStart}
    /\ data_start = DataStart => vol_start = HOME_START
    /\ fat_mounted \/ Found(disk_sectors) => data_start = DataStart

\* What the format writes is a layout the volume can have.
LEMMA FormattedType ==
    ASSUME NEW d \in [VolumeSectors -> Contents], NEW lba
    PROVE  Formatted(d, lba) \in [VolumeSectors -> Contents]
<1>1. "table" \in Contents /\ "boot" \in Contents /\ "label" \in Contents
  BY DEF Contents
<1>2. [d EXCEPT ![Table] = "table", ![Boot] = "boot"] \in [VolumeSectors -> Contents]
  BY ZenonT(40), <1>1
<1> QED
  BY ZenonT(40), <1>1, <1>2 DEF Formatted

\* What format leaves is found if and only if the label went to the root directory: the
\* two other places it can go to are the sectors that the volume is recognised by.
LEMMA FormattedFound ==
    ASSUME NEW d \in [VolumeSectors -> Contents], NEW lba \in VolumeSectors
    PROVE  Found(Formatted(d, lba)) <=> lba = Root
<1>1. CASE lba = Table
  BY <1>1 DEF Formatted, Found, VolumeSectors, Table, Boot, Root, HOME_START, DataStart
<1>2. CASE lba = Boot
  BY <1>2 DEF Formatted, Found, VolumeSectors, Table, Boot, Root, HOME_START, DataStart
<1>3. CASE lba = Root
  BY <1>3 DEF Formatted, Found, VolumeSectors, Table, Boot, Root, HOME_START, DataStart
<1> QED
  BY <1>1, <1>2, <1>3 DEF VolumeSectors

\* Where the label goes: to the root directory in a session that knows the geometry, to the
\* start of the volume in one that does not.
LEMMA LabelPlace ==
    ASSUME VolumeInv
    PROVE  RootLba \in VolumeSectors /\ (RootLba = Root <=> data_start = DataStart)
BY DEF VolumeInv, RootLba, VolumeSectors, Table, Boot, Root, HOME_START, DataStart

\* For every disk and every sequence of commands and boots: a volume that counts as mounted
\* is used through its own geometry; only erase makes a volume unrecognisable, and recover and
\* install change nothing of a recognised one but its root directory; and the next boot finds
\* what format leaves exactly when the session had known the geometry of a volume before
\* (mini64/kernel.c, fat_init, fat_format, do_recover, do_install).
THEOREM StoresLandAlways == VolumeSpec => StoresLand
<1>1. VolumeInit => VolumeInv
  <2> SUFFICES ASSUME VolumeInit PROVE VolumeInv
    OBVIOUS
  <2>1. disk_sectors \in [VolumeSectors -> Contents]
    BY DEF VolumeInit, Disks
  <2>2. CASE Found(disk_sectors)
    BY <2>1, <2>2 DEF VolumeInit, VolumeInv, Found
  <2>3. CASE ~Found(disk_sectors)
    <3>1. data_start = 0 /\ fat_mounted = FALSE /\ vol_start \in {0, HOME_START}
      BY <2>3 DEF VolumeInit
    <3>2. DataStart # 0
      BY DEF DataStart
    <3> QED
      BY <2>1, <2>3, <3>1, <3>2, Zenon DEF VolumeInv
  <2> QED
    BY <2>2, <2>3
<1>2. VolumeInv /\ [VolumeNext]_volume => VolumeInv'
  <2> SUFFICES ASSUME VolumeInv, [VolumeNext]_volume PROVE VolumeInv'
    OBVIOUS
  <2>1. disk_sectors' \in [VolumeSectors -> Contents]
    <3>1. /\ Ready(disk_sectors) \in [VolumeSectors -> Contents]
          /\ Recovered(disk_sectors) \in [VolumeSectors -> Contents]
          /\ [Recovered(disk_sectors) EXCEPT ![Table] = "table"] \in [VolumeSectors -> Contents]
      BY ZenonT(40), FormattedType DEF VolumeInv, Ready, Recovered, Contents
    <3>2. Formatted(disk_sectors, RootLba) \in [VolumeSectors -> Contents]
      BY FormattedType DEF VolumeInv
    <3>3. \A s \in VolumeSectors : [disk_sectors EXCEPT ![s] = "other"] \in [VolumeSectors -> Contents]
      BY DEF VolumeInv, Contents
    <3> HIDE DEF VolumeSectors, Contents
    <3> QED
      BY ZenonT(40), <3>1, <3>2, <3>3 DEF VolumeInv, VolumeNext, volume, mount, chkfs, ls, umount, format,
         recover_volume, install_volume, erase, boot_volume
  <2>2. /\ fat_mounted' \in BOOLEAN
        /\ vol_start' \in {0, HOME_START} /\ data_start' \in {0, DataStart}
        /\ data_start' = DataStart => vol_start' = HOME_START
        /\ fat_mounted' \/ Found(disk_sectors') => data_start' = DataStart
    <3>1. CASE mount \/ chkfs \/ ls
      BY ZenonT(40), <3>1 DEF VolumeInv, mount, chkfs, ls, fat_init, Found
    <3>2. CASE umount
      BY ZenonT(40), <3>2 DEF VolumeInv, umount
    <3>3. CASE \E s \in VolumeSectors : erase(s)
      <4>1. PICK s \in VolumeSectors : erase(s)
        BY <3>3
      <4>2. Found(disk_sectors') => Found(disk_sectors)
        BY <4>1 DEF VolumeInv, erase, Found, VolumeSectors
      <4> QED
        BY ZenonT(40), <4>1, <4>2 DEF VolumeInv, erase
    <3>4. CASE format \/ recover_volume \/ install_volume
      BY ZenonT(40), <3>4 DEF format, recover_volume, install_volume, SetGeometry
    <3>5. CASE boot_volume
      <4>1. CASE Found(disk_sectors)
        BY <3>5, <4>1 DEF boot_volume, Found
      <4>2. CASE ~Found(disk_sectors)
        <5>1. /\ data_start' = 0 /\ fat_mounted' = FALSE /\ vol_start' \in {0, HOME_START}
              /\ ~Found(disk_sectors')
          BY <3>5, <4>2 DEF boot_volume
        <5>2. DataStart # 0
          BY DEF DataStart
        <5> QED
          BY <5>1, <5>2, Zenon
      <4> QED
        BY <4>1, <4>2
    <3>6. CASE UNCHANGED volume
      BY <3>6 DEF VolumeInv, volume
    <3> QED
      BY <3>1, <3>2, <3>3, <3>4, <3>5, <3>6 DEF VolumeNext
  <2> QED
    BY <2>1, <2>2 DEF VolumeInv
<1>3. VolumeInv => GeometryTrue
  BY DEF VolumeInv, GeometryTrue, RootLba, Root, HOME_START, DataStart
<1> DEFINE Keeps == Found(disk_sectors) /\ report'[1] # "erase" => Found(disk_sectors')
           Spares == Found(disk_sectors) /\ report'[1] \in {"recover", "install"} =>
                        /\ \A s \in VolumeSectors \ {Root} : disk_sectors'[s] = disk_sectors[s]
                        /\ disk_sectors'[Root] \in {disk_sectors[Root], "entries"}
           Labels == report'[1] = "format" => (Found(disk_sectors') <=> data_start = DataStart)
<1>4. VolumeInv /\ VolumeNext => Keeps /\ Spares /\ Labels
  <2> SUFFICES ASSUME VolumeInv, VolumeNext PROVE Keeps /\ Spares /\ Labels
    OBVIOUS
  <2>1. CASE mount \/ chkfs \/ ls \/ umount \/ boot_volume
    BY <2>1 DEF mount, chkfs, ls, umount, boot_volume, Says
  <2>2. CASE format
    <3>1. Found(disk_sectors') <=> data_start = DataStart
      BY <2>2, FormattedFound, LabelPlace DEF VolumeInv, format
    <3>2. report'[1] = "format"
      BY <2>2 DEF format, Says
    <3> QED
      BY <3>1, <3>2 DEF VolumeInv
  <2>3. CASE recover_volume \/ install_volume
    <3>0. \/ report' = <<"recover", TRUE>> \/ report' = <<"recover", FALSE>>
          \/ report' = <<"install", TRUE>> \/ report' = <<"install", FALSE>>
      BY ZenonT(40), <2>3 DEF recover_volume, install_volume, Says
    <3>1. report'[1] # "format"
      <4>1. \A c, ok : <<c, ok>>[1] = c
        OBVIOUS
      <4>2. report'[1] = "recover" \/ report'[1] = "install"
        BY ZenonT(40), <3>0, <4>1
      <4> QED
        BY <4>2
    <3> SUFFICES ASSUME Found(disk_sectors)
                 PROVE  /\ \A s \in VolumeSectors \ {Root} : disk_sectors'[s] = disk_sectors[s]
                        /\ disk_sectors'[Root] \in {disk_sectors[Root], "entries"}
      BY <3>1 DEF Found, VolumeSectors, Table, Boot, Root, HOME_START, DataStart
    <3>2. Ready(disk_sectors) = disk_sectors
      BY DEF Ready
    <3> DEFINE r == [disk_sectors EXCEPT ![Root] = "entries"]
    <3>3. disk_sectors' \in {disk_sectors, r, [r EXCEPT ![Table] = "table"]}
      BY ZenonT(40), <2>3, <3>2 DEF recover_volume, install_volume, Recovered
    <3> QED
      BY <3>3 DEF VolumeInv, Found, VolumeSectors, Table, Boot, Root, HOME_START, DataStart
  <2>4. CASE \E s \in VolumeSectors : erase(s)
    BY <2>4 DEF erase, Says
  <2> QED
    BY <2>1, <2>2, <2>3, <2>4 DEF VolumeNext
<1>5. VolumeInv /\ [VolumeNext]_volume => [Keeps /\ Spares /\ Labels]_volume
  BY <1>4
<1> QED
  BY <1>1, <1>2, <1>3, <1>5, PTL DEF VolumeSpec, StoresLand, FormatsAgain

-----------------------------------------------------------------------------
(* Induction, walks and chains                                             *)

\* A set of natural numbers that is not empty has a least element.
LEMMA LeastElement ==
    ASSUME NEW T \in SUBSET Nat, T # {}
    PROVE  \E x \in T : \A y \in T : x <= y
<1> DEFINE R == OpToRel(<, Nat)
<1>1. IsWellFoundedOn(R, Nat)
  BY ZenonT(40), NatLessThanWellFounded
<1>2. \A x, y \in Nat : <<y, x>> \in R <=> y < x
  BY DEF OpToRel
<1> HIDE DEF R
<1>3. PICK x \in T : \A y \in T : ~ (<<y, x>> \in R)
  BY ZenonT(40), <1>1, WFMin
<1>4. ASSUME NEW y \in T PROVE ~(y < x)
  <2>1. x \in Nat /\ y \in Nat
    OBVIOUS
  <2>2. <<y, x>> \in R <=> y < x
    BY <1>2, <2>1, Zenon
  <2> QED
    BY <1>3, <2>2, Zenon
<1> QED
  BY <1>4

\* Induction over the natural numbers, for a set.
LEMMA SetInduction ==
    ASSUME NEW S, 0 \in S, \A n \in Nat : n \in S => n + 1 \in S
    PROVE  Nat \subseteq S
<1> DEFINE T == Nat \ S
<1>1. SUFFICES ASSUME T # {} PROVE FALSE
  OBVIOUS
<1>2. PICK x \in T : \A y \in T : x <= y
  BY ZenonT(40), LeastElement, <1>1
<1>3. x \in Nat /\ x # 0 /\ x - 1 \in Nat /\ x - 1 \notin T
  BY <1>2
<1> QED
  BY <1>2, <1>3

\* Induction along a walk: from position 1 to position Limit.
LEMMA WalkInduction ==
    ASSUME NEW S, 1 \in S, \A i \in 1..Limit : i \in S /\ i < Limit => i + 1 \in S
    PROVE  1..Limit \subseteq S
<1>0. Limit \in Nat
  BY ZenonT(40), Mini64Assumption
<1> DEFINE T == {n \in Nat : n + 1 <= Limit => n + 1 \in S}
<1>1. 0 \in T
  OBVIOUS
<1>2. ASSUME NEW n \in Nat, n \in T PROVE n + 1 \in T
  BY <1>0, <1>2
<1>3. Nat \subseteq T
  <2> HIDE DEF T
  <2> QED
    BY <1>1, <1>2, SetInduction
<1>4. ASSUME NEW i \in 1..Limit PROVE i \in S
  <2>1. i - 1 \in Nat /\ (i - 1) + 1 = i /\ i <= Limit
    BY <1>0
  <2>2. i - 1 \in T
    BY <1>3, <2>1
  <2> QED
    BY <2>1, <2>2
<1> QED
  BY <1>4

-----------------------------------------------------------------------------
(* The walk along a chain                                                  *)

After(f, x) == IF x \in Clusters THEN f[x] ELSE x

IsWalk(f, c, k, at) == at = [i \in 1..k |-> IF i = 1 THEN c ELSE After(f, at[i - 1])]

\* There is a walk from every cluster, one step for each position.
LEMMA WalkExists ==
    ASSUME NEW f, NEW c
    PROVE  \A k \in Nat : \E at : IsWalk(f, c, k, at)
<1> DEFINE S == {k \in Nat : \E at : IsWalk(f, c, k, at)}
<1>1. 0 \in S
  <2>1. IsWalk(f, c, 0, [i \in 1..0 |-> c])
    BY DEF IsWalk
  <2> QED
    BY <2>1
<1>2. ASSUME NEW k \in Nat, k \in S PROVE k + 1 \in S
  <2>1. PICK g : IsWalk(f, c, k, g)
    BY <1>2
  <2> DEFINE h == [i \in 1..(k + 1) |-> IF i <= k THEN g[i] ELSE IF i = 1 THEN c ELSE After(f, g[k])]
  <2>2. \A i \in 1..(k + 1) : i # 1 => i - 1 \in 1..k /\ h[i - 1] = g[i - 1]
    OBVIOUS
  <2>3. \A i \in 1..k : g[i] = IF i = 1 THEN c ELSE After(f, g[i - 1])
    BY <2>1 DEF IsWalk
  <2>4. \A i \in 1..(k + 1) : h[i] = IF i = 1 THEN c ELSE After(f, h[i - 1])
    <3> SUFFICES ASSUME NEW i \in 1..(k + 1)
                 PROVE  h[i] = IF i = 1 THEN c ELSE After(f, h[i - 1])
      OBVIOUS
    <3>1. CASE i <= k
      BY <3>1, <2>2, <2>3
    <3>2. CASE i = k + 1
      BY <3>2, <2>2
    <3> QED
      BY <3>1, <3>2
  <2>5. IsWalk(f, c, k + 1, h)
    BY <2>4 DEF IsWalk
  <2> QED
    BY <2>5
<1> QED
  BY ZenonT(40), <1>1, <1>2, SetInduction

\* The recursion that WalkIn is defined by.
LEMMA WalkSteps ==
    ASSUME NEW f, NEW c
    PROVE  /\ DOMAIN WalkIn(f, c) = 1..Limit
           /\ WalkIn(f, c)[1] = c
           /\ \A i \in 1..Limit : i < Limit => WalkIn(f, c)[i + 1] = After(f, WalkIn(f, c)[i])
<1>0. Limit \in Nat /\ Limit > 3
  BY ZenonT(40), Mini64Assumption
<1>1. \E at : IsWalk(f, c, Limit, at)
  BY <1>0, WalkExists
<1>2. WalkIn(f, c) = CHOOSE at : IsWalk(f, c, Limit, at)
  BY DEF WalkIn, IsWalk, After
<1>3. IsWalk(f, c, Limit, WalkIn(f, c))
  BY <1>1, <1>2
<1> DEFINE at == WalkIn(f, c)
<1> HIDE DEF at
<1>4. at = [i \in 1..Limit |-> IF i = 1 THEN c ELSE After(f, at[i - 1])]
  BY ZenonT(40), <1>3 DEF IsWalk, at
<1>5. ASSUME NEW i \in 1..Limit, i < Limit PROVE at[i + 1] = After(f, at[i])
  <2>1. i + 1 \in 1..Limit /\ i + 1 # 1 /\ (i + 1) - 1 = i
    BY <1>0, <1>5
  <2> QED
    BY <1>4, <2>1
<1>6. DOMAIN at = 1..Limit /\ at[1] = c
  BY <1>0, <1>4
<1> QED
  BY <1>5, <1>6 DEF at

\* A FAT without a cycle: some rank falls along every link.
Links(f) == f \in [Clusters -> Clusters \cup {Free, EOC}]

Ranked(f, r) ==
    /\ r \in [Clusters -> Nat]
    /\ \A c \in Clusters : f[c] \in Clusters => r[f[c]] < r[c]

Acyclic(f) == \E r : Ranked(f, r)

\* A cluster number is neither the free mark nor the end mark.
LEMMA ClusterFacts ==
    /\ Limit \in Nat /\ Limit > 3 /\ Clusters \subseteq Nat
    /\ 0 \notin Clusters /\ Free \notin Clusters /\ EOC \notin Clusters /\ Free # EOC
    /\ IsFiniteSet(Clusters) /\ Cardinality(Clusters) = Limit - 3
<1>1. Limit \in Nat /\ Limit > 3
  BY ZenonT(40), Mini64Assumption
<1>2. IsFiniteSet(3..Limit - 1) /\ Cardinality(3..Limit - 1) = Limit - 3
  BY <1>1, FS_Interval
<1> QED
  BY <1>1, <1>2 DEF Clusters, Free, EOC

\* Along a walk the rank falls, so the walk ends before it has taken Limit steps.
LEMMA WalkEnds ==
    ASSUME NEW f, Links(f), Acyclic(f), NEW c
    PROVE  WalkIn(f, c)[Limit] \notin Clusters
<1> DEFINE at == WalkIn(f, c)
<1> SUFFICES ASSUME at[Limit] \in Clusters PROVE FALSE
  OBVIOUS
<1>0. Limit \in Nat /\ Limit > 3 /\ IsFiniteSet(Clusters) /\ Cardinality(Clusters) = Limit - 3
  BY ClusterFacts
<1>1. PICK r : Ranked(f, r)
  BY DEF Acyclic
<1>2. \A i \in 1..Limit : i < Limit => at[i + 1] = After(f, at[i])
  BY WalkSteps
<1> HIDE DEF at
\* It has not left the clusters before.
<1>3. ASSUME NEW i \in 1..Limit PROVE at[i] \in Clusters
  <2> SUFFICES ASSUME at[i] \notin Clusters PROVE FALSE
    OBVIOUS
  <2> DEFINE S == {j \in 1..Limit : j >= i => at[j] = at[i]}
  <2>1. 1 \in S
    BY <1>0
  <2>2. ASSUME NEW j \in 1..Limit, j \in S, j < Limit PROVE j + 1 \in S
    <3>1. at[j + 1] = After(f, at[j]) /\ j + 1 \in 1..Limit
      BY <1>0, <1>2, <2>2
    <3>2. CASE j >= i
      BY <2>2, <3>1, <3>2 DEF After
    <3>3. CASE j < i
      <4>1. j + 1 >= i => j + 1 = i
        BY <3>3
      <4> QED
        BY <3>1, <4>1
    <3> QED
      BY <3>2, <3>3
  <2>3. 1..Limit \subseteq S
    <3> HIDE DEF S
    <3> QED
      BY <2>1, <2>2, WalkInduction
  <2>4. at[Limit] = at[i]
    BY <1>0, <2>3
  <2> QED
    BY <2>4
<1>4. ASSUME NEW i \in 1..Limit, NEW j \in 1..Limit, i < j PROVE at[i] # at[j]
  <2> DEFINE S == {k \in 1..Limit : k > i => r[at[k]] < r[at[i]]}
  <2>0. \A k \in 1..Limit : r[at[k]] \in Nat
    BY <1>1, <1>3 DEF Ranked
  <2>1. 1 \in S
    BY <1>0
  <2>2. ASSUME NEW k \in 1..Limit, k \in S, k < Limit PROVE k + 1 \in S
    <3>1. at[k + 1] = f[at[k]] /\ k + 1 \in 1..Limit /\ at[k] \in Clusters /\ at[k + 1] \in Clusters
      BY <1>0, <1>2, <1>3, <2>2 DEF After
    <3>2. r[at[k + 1]] < r[at[k]]
      BY <1>1, <3>1 DEF Ranked
    <3>3. r[at[k + 1]] \in Nat /\ r[at[k]] \in Nat /\ r[at[i]] \in Nat
      BY <2>0, <3>1
    <3>4. CASE k > i
      BY <2>2, <3>1, <3>2, <3>3, <3>4
    <3>5. CASE k = i
      BY <3>1, <3>2, <3>5
    <3>6. CASE k < i
      <4>1. ~(k + 1 > i)
        BY <3>6
      <4> QED
        BY <3>1, <4>1
    <3> QED
      BY <3>4, <3>5, <3>6
  <2>3. 1..Limit \subseteq S
    <3> HIDE DEF S
    <3> QED
      BY <2>1, <2>2, WalkInduction
  <2>4. r[at[j]] < r[at[i]]
    BY <1>4, <2>3
  <2> QED
    BY <2>0, <2>4
<1>5. [i \in 1..Limit |-> at[i]] \in [1..Limit -> Clusters]
  BY <1>3
<1>6. IsFiniteSet(1..Limit) /\ Cardinality(1..Limit) = Limit
  BY <1>0, FS_Interval
<1>7. PICK i \in 1..Limit, j \in 1..Limit : i # j /\ at[i] = at[j]
  <2> DEFINE w == [i \in 1..Limit |-> at[i]]
  <2>1. Cardinality(Clusters) < Cardinality(1..Limit)
    BY <1>0, <1>6
  <2>2. w \in [1..Limit -> Clusters]
    BY <1>5
  <2> HIDE DEF w
  <2>3. \E i, j \in 1..Limit : i # j /\ w[i] = w[j]
    BY <1>0, <1>6, <2>1, <2>2, FS_PigeonHole
  <2> QED
    BY <2>3 DEF w
<1>8. i < j \/ j < i
  BY <1>0, <1>7
<1> QED
  BY <1>4, <1>7, <1>8

\* A chain is the least set of clusters that holds its first one and the link
\* of each of its members.
LEMMA ChainLeast ==
    ASSUME NEW f, Links(f), NEW c, NEW S,
           c \in Clusters => c \in S,
           \A x \in S \cap Clusters : f[x] \in Clusters => f[x] \in S
    PROVE  ChainIn(f, c) \subseteq S
<1> DEFINE at == WalkIn(f, c)
           T == {i \in 1..Limit : at[i] \in Clusters => at[i] \in S}
<1>0. Limit \in Nat /\ Limit > 3
  BY ClusterFacts
<1>1. at[1] = c /\ \A i \in 1..Limit : i < Limit => at[i + 1] = After(f, at[i])
  BY WalkSteps
<1> HIDE DEF at
<1>2. 1 \in T
  BY <1>0, <1>1
<1>3. ASSUME NEW i \in 1..Limit, i \in T, i < Limit PROVE i + 1 \in T
  <2>1. at[i + 1] = After(f, at[i]) /\ i + 1 \in 1..Limit
    BY <1>0, <1>1, <1>3
  <2> QED
    BY <1>3, <2>1 DEF After
<1>4. 1..Limit \subseteq T
  <2> HIDE DEF T
  <2> QED
    BY <1>2, <1>3, WalkInduction
<1> QED
  BY <1>4 DEF ChainIn, at

\* A chain holds the cluster it begins with and, with a cluster, its link.
LEMMA ChainClosed ==
    ASSUME NEW f, Links(f), Acyclic(f), NEW c
    PROVE  /\ ChainIn(f, c) \subseteq Clusters
           /\ c \in Clusters => c \in ChainIn(f, c)
           /\ \A x \in ChainIn(f, c) : f[x] \in Clusters => f[x] \in ChainIn(f, c)
<1> DEFINE at == WalkIn(f, c)
<1>0. Limit \in Nat /\ Limit > 3
  BY ClusterFacts
<1>1. at[1] = c /\ \A i \in 1..Limit : i < Limit => at[i + 1] = After(f, at[i])
  BY WalkSteps
<1>2. at[Limit] \notin Clusters
  BY WalkEnds
<1>3. ChainIn(f, c) = {at[i] : i \in 1..Limit} \cap Clusters
  BY DEF ChainIn
<1> HIDE DEF at
<1>4. c \in Clusters => c \in ChainIn(f, c)
  BY <1>0, <1>1, <1>3
<1>5. ASSUME NEW x \in ChainIn(f, c), f[x] \in Clusters PROVE f[x] \in ChainIn(f, c)
  <2>1. PICK i \in 1..Limit : x = at[i] /\ x \in Clusters
    BY <1>3
  <2>2. i < Limit
    BY <1>0, <1>2, <2>1
  <2>3. at[i + 1] = f[x] /\ i + 1 \in 1..Limit
    BY <1>0, <1>1, <2>1, <2>2 DEF After
  <2> QED
    BY <1>3, <1>5, <2>3
<1> QED
  BY <1>3, <1>4, <1>5

\* The chain of a cluster is the cluster and the chain of its link, which does
\* not come back to it.
LEMMA ChainUnfold ==
    ASSUME NEW f, Links(f), Acyclic(f)
    PROVE  /\ \A c : c \notin Clusters => ChainIn(f, c) = {}
           /\ \A c \in Clusters : ChainIn(f, c) = {c} \cup ChainIn(f, f[c])
           /\ \A c \in Clusters : c \notin ChainIn(f, f[c])
<1>1. ASSUME NEW c, c \notin Clusters PROVE ChainIn(f, c) = {}
  <2>1. PICK S : S = {}
    BY ZenonT(40)
  <2>2. \A x \in S \cap Clusters : f[x] \in Clusters => f[x] \in S
    BY <2>1
  <2>3. ChainIn(f, c) \subseteq S
    BY ZenonT(40), <1>1, <2>2, ChainLeast
  <2> QED
    BY <2>1, <2>3
<1>2. ASSUME NEW c \in Clusters PROVE ChainIn(f, c) = {c} \cup ChainIn(f, f[c])
  <2>1. /\ f[c] \in Clusters => f[c] \in ChainIn(f, f[c])
        /\ \A x \in ChainIn(f, f[c]) : f[x] \in Clusters => f[x] \in ChainIn(f, f[c])
    BY ChainClosed
  <2>2. /\ c \in ChainIn(f, c)
        /\ \A x \in ChainIn(f, c) : f[x] \in Clusters => f[x] \in ChainIn(f, c)
    BY ChainClosed
  <2> DEFINE S == {c} \cup ChainIn(f, f[c])
  <2>3. c \in S /\ \A x \in S \cap Clusters : f[x] \in Clusters => f[x] \in S
    BY <2>1
  <2>4. ChainIn(f, c) \subseteq S
    <3> HIDE DEF S
    <3> QED
      BY <2>3, ChainLeast
  <2>5. ChainIn(f, f[c]) \subseteq ChainIn(f, c)
    BY <2>2, ChainLeast
  <2> QED
    BY <2>2, <2>4, <2>5
<1>3. ASSUME NEW c \in Clusters PROVE c \notin ChainIn(f, f[c])
  <2>1. PICK r : Ranked(f, r)
    BY DEF Acyclic
  <2> DEFINE S == {x \in Clusters : r[x] < r[c]}
  <2>2. f[c] \in Clusters => f[c] \in S
    BY <2>1 DEF Ranked
  <2>3. \A x \in S \cap Clusters : f[x] \in Clusters => f[x] \in S
    <3> SUFFICES ASSUME NEW x \in S, f[x] \in Clusters PROVE r[f[x]] < r[c]
      OBVIOUS
    <3>1. r[f[x]] < r[x] /\ r[x] < r[c] /\ r[f[x]] \in Nat /\ r[x] \in Nat /\ r[c] \in Nat
      BY <2>1 DEF Ranked
    <3> QED
      BY <3>1
  <2>4. ChainIn(f, f[c]) \subseteq S
    <3> HIDE DEF S
    <3> QED
      BY ZenonT(40), <2>2, <2>3, ChainLeast
  <2>5. c \notin S
    BY <2>1 DEF Ranked
  <2> QED
    BY <2>4, <2>5
<1> QED
  BY <1>1, <1>2, <1>3

\* Two FATs that agree on a chain, and that give the same walk.
Agree(f, g, c) == \A x \in ChainIn(f, c) : g[x] = f[x]
SameWalk(f, g, c) == \A i \in 1..Limit : WalkIn(g, c)[i] = WalkIn(f, c)[i]

\* A walk does not change when the FAT changes elsewhere.
LEMMA WalkAgree ==
    ASSUME NEW f, NEW g, NEW c, Agree(f, g, c)
    PROVE  /\ SameWalk(f, g, c)
           /\ ChainIn(g, c) = ChainIn(f, c)
<1> DEFINE at == WalkIn(f, c)
           bt == WalkIn(g, c)
           T == {i \in 1..Limit : bt[i] = at[i]}
<1>0. Limit \in Nat /\ Limit > 3
  BY ClusterFacts
<1>1. at[1] = c /\ \A i \in 1..Limit : i < Limit => at[i + 1] = After(f, at[i])
  BY WalkSteps
<1>2. bt[1] = c /\ \A i \in 1..Limit : i < Limit => bt[i + 1] = After(g, bt[i])
  BY WalkSteps
<1>3. \A i \in 1..Limit : at[i] \in Clusters => g[at[i]] = f[at[i]]
  BY DEF Agree, ChainIn
<1> HIDE DEF at, bt
<1>4. 1 \in T
  BY <1>0, <1>1, <1>2
<1>5. ASSUME NEW i \in 1..Limit, i \in T, i < Limit PROVE i + 1 \in T
  <2>1. at[i + 1] = After(f, at[i]) /\ bt[i + 1] = After(g, bt[i]) /\ i + 1 \in 1..Limit
    BY <1>0, <1>1, <1>2, <1>5
  <2> QED
    BY <1>3, <1>5, <2>1 DEF After
<1>6. 1..Limit \subseteq T
  <2> HIDE DEF T
  <2> QED
    BY <1>4, <1>5, WalkInduction
<1>7. \A i \in 1..Limit : bt[i] = at[i]
  BY <1>6
<1>8. {bt[i] : i \in 1..Limit} = {at[i] : i \in 1..Limit}
  BY <1>7
<1> QED
  BY <1>7, <1>8 DEF SameWalk, ChainIn, at, bt

\* More links make longer chains.
LEMMA ChainGrows ==
    ASSUME NEW f, Links(f), NEW g, Links(g), Acyclic(g),
           \A x \in Clusters : f[x] \in Clusters => g[x] = f[x], NEW c
    PROVE  ChainIn(f, c) \subseteq ChainIn(g, c)
<1>1. /\ ChainIn(g, c) \subseteq Clusters /\ (c \in Clusters => c \in ChainIn(g, c))
      /\ \A x \in ChainIn(g, c) : g[x] \in Clusters => g[x] \in ChainIn(g, c)
  BY ChainClosed
<1>2. \A x \in ChainIn(g, c) \cap Clusters : f[x] \in Clusters => f[x] \in ChainIn(g, c)
  BY <1>1
<1> QED
  BY <1>1, <1>2, ChainLeast

\* Freeing a cluster cuts the chains it is in; what lay behind it stays a chain.
LEMMA SetFree ==
    ASSUME NEW f, Links(f), Acyclic(f), NEW c \in Clusters, NEW g, Links(g),
           \A x \in Clusters : g[x] = IF x = c THEN Free ELSE f[x]
    PROVE  /\ Acyclic(g)
           /\ ChainIn(g, f[c]) = ChainIn(f, f[c])
           /\ \A x : ChainIn(f, x) \subseteq ChainIn(g, x) \cup {c} \cup ChainIn(g, f[c])
           /\ \A x : ChainIn(g, x) \subseteq ChainIn(f, x)
           /\ \A x : c \notin ChainIn(f, x) =>
                /\ ChainIn(g, x) = ChainIn(f, x)
                /\ SameWalk(f, g, x)
<1>0. Free \notin Clusters
  BY ClusterFacts
<1>1. Links(g) /\ \A x \in Clusters : g[x] = IF x = c THEN Free ELSE f[x]
  OBVIOUS
<1>2. Acyclic(g)
  <2>1. PICK r : Ranked(f, r)
    BY DEF Acyclic
  <2>2. Ranked(g, r)
    BY <1>0, <1>1, <2>1 DEF Ranked
  <2> QED
    BY <2>2 DEF Acyclic
<1>3. ASSUME NEW x, c \notin ChainIn(f, x)
      PROVE  /\ ChainIn(g, x) = ChainIn(f, x)
             /\ SameWalk(f, g, x)
  <2>1. Agree(f, g, x)
    BY <1>1, <1>3, ChainClosed DEF Agree
  <2>2. ChainIn(g, x) = ChainIn(f, x)
    BY <2>1, WalkAgree
  <2>3. SameWalk(f, g, x)
    BY <2>1, WalkAgree
  <2> QED
    BY <2>2, <2>3
<1>4. ChainIn(g, f[c]) = ChainIn(f, f[c])
  BY <1>3, ChainUnfold
<1>5. ASSUME NEW x PROVE ChainIn(g, x) \subseteq ChainIn(f, x)
  <2>1. \A y \in Clusters : g[y] \in Clusters => f[y] = g[y]
    BY <1>0, <1>1
  <2> QED
    BY <1>1, <2>1, ChainGrows
<1>6. ASSUME NEW x PROVE ChainIn(f, x) \subseteq ChainIn(g, x) \cup {c} \cup ChainIn(g, f[c])
  <2> DEFINE S == ChainIn(g, x) \cup {c} \cup ChainIn(g, f[c])
  <2>1. /\ x \in Clusters => x \in ChainIn(g, x)
        /\ \A y \in ChainIn(g, x) : g[y] \in Clusters => g[y] \in ChainIn(g, x)
    BY <1>1, <1>2, ChainClosed
  <2>2. /\ f[c] \in Clusters => f[c] \in ChainIn(g, f[c])
        /\ \A y \in ChainIn(g, f[c]) : g[y] \in Clusters => g[y] \in ChainIn(g, f[c])
    BY <1>1, <1>2, ChainClosed
  <2>3. x \in Clusters => x \in S
    BY <2>1
  <2>4. \A y \in S \cap Clusters : f[y] \in Clusters => f[y] \in S
    BY <1>1, <2>1, <2>2
  <2> HIDE DEF S
  <2>5. ChainIn(f, x) \subseteq S
    BY ZenonT(40), <2>3, <2>4, ChainLeast
  <2> QED
    BY <2>5 DEF S
<1> QED
  BY <1>1, <1>2, <1>3, <1>4, <1>5, <1>6

\* Marking a free cluster as the end of a chain changes no chain.
LEMMA SetEnd ==
    ASSUME NEW f, Links(f), Acyclic(f), NEW c \in Clusters, f[c] \notin Clusters,
           NEW g, Links(g), \A x \in Clusters : g[x] = IF x = c THEN EOC ELSE f[x]
    PROVE  /\ Acyclic(g)
           /\ \A x : ChainIn(g, x) = ChainIn(f, x)
           /\ \A x : c \notin ChainIn(f, x) =>
                SameWalk(f, g, x)
<1>0. EOC \notin Clusters
  BY ClusterFacts
<1>1. Links(g) /\ \A x \in Clusters : g[x] = IF x = c THEN EOC ELSE f[x]
  OBVIOUS
<1>2. Acyclic(g)
  <2>1. PICK r : Ranked(f, r)
    BY DEF Acyclic
  <2>2. Ranked(g, r)
    BY <1>0, <1>1, <2>1 DEF Ranked
  <2> QED
    BY <2>2 DEF Acyclic
<1>3. ASSUME NEW x PROVE ChainIn(g, x) = ChainIn(f, x)
  <2>1. /\ \A y \in Clusters : g[y] \in Clusters => f[y] = g[y]
        /\ \A y \in Clusters : f[y] \in Clusters => g[y] = f[y]
    BY <1>0, <1>1
  <2>2. ChainIn(g, x) \subseteq ChainIn(f, x)
    BY <1>1, <2>1, ChainGrows
  <2>3. ChainIn(f, x) \subseteq ChainIn(g, x)
    BY <1>1, <1>2, <2>1, ChainGrows
  <2> QED
    BY <2>2, <2>3
<1>4. ASSUME NEW x, c \notin ChainIn(f, x)
      PROVE  SameWalk(f, g, x)
  <2>1. Agree(f, g, x)
    BY <1>1, <1>4, ChainClosed DEF Agree
  <2>2. ChainIn(g, x) = ChainIn(f, x)
    BY <2>1, WalkAgree
  <2>3. SameWalk(f, g, x)
    BY <2>1, WalkAgree
  <2> QED
    BY <2>2, <2>3
<1> QED
  BY <1>1, <1>2, <1>3, <1>4

\* Linking the last cluster t of a chain to a cluster c that ends one makes no
\* cycle, and c joins exactly the chains that t is in.
LEMMA SetLink ==
    ASSUME NEW f, Links(f), Acyclic(f), NEW t \in Clusters, NEW c \in Clusters, t # c,
           f[t] \notin Clusters, f[c] \notin Clusters,
           NEW g, Links(g), \A x \in Clusters : g[x] = IF x = t THEN c ELSE f[x]
    PROVE  /\ Acyclic(g)
           /\ \A x : ChainIn(f, x) \subseteq ChainIn(g, x)
           /\ \A x : ChainIn(g, x) \subseteq ChainIn(f, x) \cup {c}
           /\ \A x : t \in ChainIn(f, x) => c \in ChainIn(g, x)
           /\ \A x : t \notin ChainIn(f, x) =>
                /\ ChainIn(g, x) = ChainIn(f, x)
                /\ SameWalk(f, g, x)
<1>1. Links(g) /\ \A x \in Clusters : g[x] = IF x = t THEN c ELSE f[x]
  OBVIOUS
<1>2. Acyclic(g)
  <2>1. PICK r : Ranked(f, r)
    BY DEF Acyclic
  <2> DEFINE q == [x \in Clusters |-> IF x = c THEN 0 ELSE r[x] + 1]
  <2>2. q \in [Clusters -> Nat]
    BY <2>1 DEF Ranked
  <2>3. ASSUME NEW x \in Clusters, g[x] \in Clusters PROVE q[g[x]] < q[x]
    <3>1. r[x] \in Nat /\ r[g[x]] \in Nat
      BY <2>1, <2>3 DEF Ranked
    <3>2. x # c
      BY <1>1, <2>3
    <3>3. CASE x = t
      BY <1>1, <3>1, <3>2, <3>3
    <3>4. CASE x # t
      BY <1>1, <2>1, <2>3, <3>1, <3>2, <3>4 DEF Ranked
    <3> QED
      BY <3>3, <3>4
  <2>4. Ranked(g, q)
    <3> HIDE DEF q
    <3> QED
      BY <2>2, <2>3 DEF Ranked
  <2> QED
    BY <2>4 DEF Acyclic
<1>3. ASSUME NEW x PROVE ChainIn(f, x) \subseteq ChainIn(g, x)
  <2>1. \A y \in Clusters : f[y] \in Clusters => g[y] = f[y]
    BY <1>1
  <2> QED
    BY <1>1, <1>2, <2>1, ChainGrows
<1>4. ASSUME NEW x PROVE ChainIn(g, x) \subseteq ChainIn(f, x) \cup {c}
  <2> DEFINE S == ChainIn(f, x) \cup {c}
  <2>1. /\ x \in Clusters => x \in ChainIn(f, x)
        /\ \A y \in ChainIn(f, x) : f[y] \in Clusters => f[y] \in ChainIn(f, x)
    BY ChainClosed
  <2>2. x \in Clusters => x \in S
    BY <2>1
  <2>3. \A y \in S \cap Clusters : g[y] \in Clusters => g[y] \in S
    BY <1>1, <2>1
  <2> HIDE DEF S
  <2>4. ChainIn(g, x) \subseteq S
    BY ZenonT(40), <1>1, <2>2, <2>3, ChainLeast
  <2> QED
    BY <2>4 DEF S
<1>5. ASSUME NEW x, t \in ChainIn(f, x) PROVE c \in ChainIn(g, x)
  <2>1. t \in ChainIn(g, x)
    BY <1>3, <1>5
  <2>2. \A y \in ChainIn(g, x) : g[y] \in Clusters => g[y] \in ChainIn(g, x)
    BY <1>1, <1>2, ChainClosed
  <2> QED
    BY <1>1, <2>1, <2>2
<1>6. ASSUME NEW x, t \notin ChainIn(f, x)
      PROVE  /\ ChainIn(g, x) = ChainIn(f, x)
             /\ SameWalk(f, g, x)
  <2>1. Agree(f, g, x)
    BY <1>1, <1>6, ChainClosed DEF Agree
  <2>2. ChainIn(g, x) = ChainIn(f, x)
    BY <2>1, WalkAgree
  <2>3. SameWalk(f, g, x)
    BY <2>1, WalkAgree
  <2> QED
    BY <2>2, <2>3
<1> QED
  BY <1>1, <1>2, <1>3, <1>4, <1>5, <1>6


-----------------------------------------------------------------------------
(* The shape of the volume                                                 *)

\* The calls of the commands, and the entries of the root directory.
Calls == {"store", "delete"} \X Files
Building == {"alloc", "zero", "link", "write", "commit"}
Entries == {None} \cup [name : Names, first : Clusters]

Ops == [cmd : {"none", "recover", "install", "bootmode"}, todo : Seq(Calls),
        pc : {"done", "next", "free", "erase", "scan"} \cup Building, ok : BOOLEAN,
        lost : SUBSET Clusters, slot : 0..Slots, cluster : {0} \cup Clusters,
        first : {0} \cup Clusters, tail : {0} \cup Clusters, written : Nat]

Types ==
    /\ Links(fat) /\ Links(mirror) /\ dir \in [1..Slots -> Entries]
    /\ data \in [Clusters -> (Names \cup {""}) \X Nat]
    /\ fsinfo \in Nat /\ hint \in Nat /\ crashes \in Nat
    /\ op \in Ops

\* What a call has established when it reaches each of its writes.
Stages ==
    /\ op.pc \notin {"done", "next"} => op.todo # <<>> /\ Head(op.todo)[1] = "store"
    /\ op.pc \in {"free", "erase"} =>
         /\ op.slot \in 1..Slots /\ op.cluster \in Clusters
         /\ dir[op.slot] # None /\ dir[op.slot].name = Current
    /\ op.pc \in {"scan"} \cup Building =>
         \A s \in 1..Slots : dir[s] # None => dir[s].name # Current
    /\ op.pc \in Building => op.slot \in 1..Slots /\ dir[op.slot] = None
    /\ op.pc \in {"link", "write", "commit"} => op.first \in Clusters /\ op.tail \in Clusters
    /\ op.pc \in {"alloc", "zero"} => (op.first = 0 <=> op.tail = 0)
    /\ op.pc \in {"zero", "link"} =>
         op.cluster \in Clusters /\ fat[op.cluster] = EOC /\ op.tail # op.cluster
    /\ op.pc \in Building => (op.tail \in Clusters => fat[op.tail] = EOC)

OneEntry ==
    \A s, t \in 1..Slots :
        dir[s] # None /\ dir[t] # None /\ dir[s].name = dir[t].name => s = t

\* The number CHOOSE takes from a set of numbers is in the set.
LEMMA MinFacts ==
    ASSUME NEW S \in SUBSET Nat, S # {}
    PROVE  (CHOOSE t \in S : \A u \in S : t <= u) \in S
<1>1. \E t \in S : \A u \in S : t <= u
  BY LeastElement
<1> QED
  BY ZenonT(40), <1>1

\* The commands make calls on files the volume can hold.
LEMMA CallTypes ==
    /\ RecoverSteps \in Seq(Calls) /\ InstallSteps \in Seq(Calls)
    /\ \A m \in Modes : BootmodeSteps(m) \in Seq(Calls)
    /\ \A f \in Files : f \in Names
    /\ \A call \in Calls : call[1] \in {"store", "delete"} /\ call[2] \in Files
<1>0. Modes \subseteq DOMAIN Flag \cup {"normal"} /\ Files \subseteq Names
  BY ZenonT(40), Mini64Assumption
<1>1. \A f \in Files : Store(f) \in Calls /\ Delete(f) \in Calls
  BY DEF Store, Delete, Calls
<1>2. /\ Store("KERNEL.BIN") \in Calls /\ Store("INITRD.BIN") \in Calls
      /\ Store("MINI64.BIN") \in Calls /\ Store("GRUB.CFG") \in Calls
      /\ Store("BOOTMODE.CFG") \in Calls
  BY <1>1 DEF Files
<1>3. /\ "MODEDESK.FLG" \in Files /\ "MODECLI.FLG" \in Files
      /\ "MODEDBG.FLG" \in Files /\ "MODERECV.FLG" \in Files
  BY DEF Files, Flag
<1>4. RecoverSteps \in Seq(Calls)
  BY <1>2 DEF RecoverSteps
<1>5. InstallSteps \in Seq(Calls)
  BY <1>2, <1>4 DEF InstallSteps
<1>6. ASSUME NEW m \in Modes PROVE BootmodeSteps(m) \in Seq(Calls)
  <2>1. m # "normal" => Store(Flag[m]) \in Calls
    BY ZenonT(40), <1>0, <1>1 DEF Files
  <2>2. <<Store("BOOTMODE.CFG"), Delete("MODEDESK.FLG"), Delete("MODECLI.FLG"),
          Delete("MODEDBG.FLG"), Delete("MODERECV.FLG")>> \in Seq(Calls)
    BY <1>1, <1>2, <1>3
  <2>3. (IF m = "normal" THEN <<>> ELSE <<Store(Flag[m])>>) \in Seq(Calls)
    BY <2>1
  <2> QED
    BY <2>2, <2>3 DEF BootmodeSteps
<1> QED
  BY <1>0, <1>4, <1>5, <1>6 DEF Calls

\* A slot of the root directory is a slot number.
LEMMA SlotFacts == Slots \in Nat /\ \A s \in 1..Slots : s \in 0..Slots
<1>1. Slots \in Nat
  BY ZenonT(40), Mini64Assumption
<1> QED
  BY <1>1

\* Between two commands the record of the command is empty.
LEMMA IdleType == Idle \in Ops
<1>1. <<>> \in Seq(Calls)
  OBVIOUS
<1>2. Slots \in Nat
  BY SlotFacts
<1> QED
  BY <1>1, <1>2 DEF Idle, Ops

\* After a failed store the command is at its next call or over.
LEMMA FailedType ==
    ASSUME NEW o \in Ops, o.todo # <<>>
    PROVE  Failed(o) \in Ops /\ Failed(o).pc \in {"done", "next"}
<1>1. Tail(o.todo) \in Seq(Calls)
  BY DEF Ops
<1>2. CASE o.cmd = "bootmode"
  <2>1. Failed(o) = [o EXCEPT !.todo = Tail(o.todo), !.pc = "next"]
    BY <1>2 DEF Failed
  <2> QED
    BY ZenonT(40), <1>1, <2>1 DEF Ops
<1>3. CASE o.cmd # "bootmode"
  <2>1. Failed(o) = [Idle EXCEPT !.cmd = o.cmd, !.lost = o.lost]
    BY <1>3 DEF Failed
  <2>2. o.cmd \in {"none", "recover", "install", "bootmode"} /\ o.lost \in SUBSET Clusters
    BY DEF Ops
  <2> QED
    BY ZenonT(40), <2>1, <2>2, IdleType DEF Ops, Idle
<1> QED
  BY <1>2, <1>3

Sound == Types /\ Stages /\ OneEntry /\ Acyclic(fat)

\* A step that ends the call, or the command, leaves nothing to show.
LEMMA Rested ==
    ASSUME op'.pc \in {"done", "next"}
    PROVE  Stages'
BY DEF Stages, Building

\* A command begins on a sound volume.
LEMMA BeginSound ==
    ASSUME Sound, NEW c \in {"recover", "install", "bootmode"}, NEW steps \in Seq(Calls),
           Begin(c, steps)
    PROVE  Sound'
<1>1. Lost \in SUBSET Clusters
  BY DEF Lost
<1>2. op' \in Ops /\ op'.pc = "next"
  BY ZenonT(40), <1>1, IdleType DEF Begin, Ops, Idle
<1>3. Types' /\ OneEntry' /\ Acyclic(fat)'
  BY ZenonT(40), <1>2 DEF Sound, Types, OneEntry, Begin, disk, Links, Acyclic
<1>4. Stages'
  BY <1>2, Rested
<1> QED
  BY <1>3, <1>4 DEF Sound

\* disk_store_large finds the entry to replace, or that there is none; delete_root_file removes one.
LEMMA NextCallSound ==
    ASSUME Sound, NextCall
    PROVE  Sound'
<1> DEFINE call == Head(op.todo)
           found == Find(call[2])
           s == CHOOSE t \in found : \A u \in found : t <= u
<1>0. /\ op \in Ops /\ op.pc = "next" /\ op.todo \in Seq(Calls) /\ Links(fat) /\ Links(mirror)
      /\ dir \in [1..Slots -> Entries] /\ UNCHANGED <<fat, mirror, data, fsinfo, hint, crashes>>
  BY ZenonT(40) DEF Sound, Types, NextCall, Ops
<1>1. found \in SUBSET (1..Slots) /\ \A t \in found : dir[t] # None /\ dir[t].name = call[2]
  BY DEF Find, Live
<1>2. found # {} => s \in found
  <2>1. found \in SUBSET Nat
    BY <1>1
  <2> HIDE DEF found
  <2> QED
    BY <2>1, MinFacts
<1>3. CASE op.todo = <<>> /\ op' = [Idle EXCEPT !.cmd = op.cmd, !.lost = op.lost,
                                  !.ok = \A f \in Verified[op.cmd] : Find(f) # {}] /\ dir' = dir
  <2>1. op' \in Ops /\ op'.pc = "done"
    BY ZenonT(40), <1>0, <1>3, IdleType DEF Ops, Idle
  <2>2. Types' /\ OneEntry' /\ Acyclic(fat)'
    BY ZenonT(40), <1>0, <1>3, <2>1 DEF Sound, Types, OneEntry, Links, Acyclic
  <2> QED
    BY <2>1, <2>2, Rested DEF Sound
<1>4. CASE op.todo # <<>> /\ call[1] = "store" /\ found = {} /\ op' = [op EXCEPT !.pc = "scan"] /\ dir' = dir
  <2>1. op' \in Ops /\ op'.pc = "scan" /\ op'.todo = op.todo
    BY <1>0, <1>4 DEF Ops
  <2>2. Types' /\ OneEntry' /\ Acyclic(fat)'
    BY ZenonT(40), <1>0, <1>4, <2>1 DEF Sound, Types, OneEntry, Links, Acyclic
  <2>3. \A t \in 1..Slots : dir'[t] # None => dir'[t].name # Current'
    BY <1>4, <2>1 DEF Find, Live, Current
  <2>4. Stages'
    BY <1>4, <2>1, <2>3 DEF Stages, Building
  <2> QED
    BY <2>2, <2>4 DEF Sound
<1>5. CASE op.todo # <<>> /\ call[1] = "store" /\ found # {} /\ dir' = dir
           /\ op' = [op EXCEPT !.pc = "free", !.slot = s, !.cluster = dir[s].first]
  <2> HIDE DEF s, found
  <2>1. s \in 1..Slots /\ dir[s] # None /\ dir[s].name = call[2] /\ dir[s] \in Entries
    BY <1>0, <1>1, <1>2, <1>5
  <2>2. dir[s].first \in Clusters
    BY <2>1 DEF Entries
  <2>a. PICK c : c = dir[s].first
    OBVIOUS
  <2>b. s \in 0..Slots /\ c \in {0} \cup Clusters
    BY <2>1, <2>2, <2>a, SlotFacts
  <2>c. op' = [op EXCEPT !.pc = "free", !.slot = s, !.cluster = c]
    BY <1>5, <2>a
  <2>d. op' \in Ops /\ op'.pc = "free" /\ op'.todo = op.todo /\ op'.slot = s /\ op'.cluster = c
    BY ZenonT(40), <1>0, <2>b, <2>c DEF Ops
  <2>3. /\ op' \in Ops /\ op'.pc = "free" /\ op'.todo = op.todo
        /\ op'.slot = s /\ op'.cluster = dir[s].first
    BY <2>a, <2>d
  <2>4. Types' /\ OneEntry' /\ Acyclic(fat)'
    BY ZenonT(40), <1>0, <1>5, <2>3 DEF Sound, Types, OneEntry, Links, Acyclic
  <2>5. Stages'
    BY <1>5, <2>1, <2>2, <2>3 DEF Stages, Building, Current
  <2> QED
    BY <2>4, <2>5 DEF Sound
<1>6. CASE op.todo # <<>> /\ op' = [op EXCEPT !.todo = Tail(@)] /\ dir' = delete_root_file(found)
  <2>0. Tail(op.todo) \in Seq(Calls)
    BY <1>0, <1>6
  <2>1. op' \in Ops /\ op'.pc = "next"
    BY ZenonT(40), <1>0, <1>6, <2>0 DEF Ops
  <2>2. dir' = IF found = {} THEN dir ELSE [dir EXCEPT ![s] = None]
    BY <1>6 DEF delete_root_file
  <2> HIDE DEF s, found
  <2>3. dir' \in [1..Slots -> Entries] /\ \A t \in 1..Slots : dir'[t] # None => dir'[t] = dir[t]
    BY ZenonT(40), <1>0, <1>1, <1>2, <2>2 DEF Entries
  <2>4. Types' /\ Acyclic(fat)'
    BY ZenonT(40), <1>0, <2>1, <2>3 DEF Sound, Types, Links, Acyclic
  <2>5. OneEntry'
    BY <2>3 DEF Sound, OneEntry
  <2> QED
    BY <2>1, <2>4, <2>5, Rested DEF Sound
<1> QED
  BY <1>0, <1>3, <1>4, <1>5, <1>6 DEF NextCall

\* fat_set changes one entry, in both copies.
LEMMA FatSetFacts ==
    ASSUME Links(fat), Links(mirror), NEW c \in Clusters, NEW v \in Clusters \cup {Free, EOC},
           fat' = [fat EXCEPT ![c] = v]
    PROVE  /\ Links(fat') /\ \A x \in Clusters : fat'[x] = IF x = c THEN v ELSE fat[x]
           /\ FatSet(c, v) => Links(mirror')
BY DEF Links, FatSet

\* allocate_cluster takes a free cluster.
LEMMA AllocatedFacts ==
    ASSUME Candidates # {}
    PROVE  Allocated \in Clusters /\ fat[Allocated] = Free
<1>1. Candidates \in SUBSET Nat /\ \A c \in Candidates : c \in Clusters /\ fat[c] = Free
  BY ClusterFacts DEF Candidates, Clusters
<1>2. Allocated \in Candidates
  BY <1>1, MinFacts DEF Allocated
<1> QED
  BY <1>1, <1>2

\* None of the three writes to the FAT makes a cycle.
LEMMA FatWrites ==
    ASSUME Sound
    PROVE  /\ op.pc = "free" /\ fat' = [fat EXCEPT ![op.cluster] = Free]
                => Links(fat') /\ Acyclic(fat')
           /\ op.pc = "alloc" /\ Candidates # {} /\ fat' = [fat EXCEPT ![Allocated] = EOC]
                => Links(fat') /\ Acyclic(fat')
           /\ op.pc = "link" /\ fat' = [fat EXCEPT ![op.tail] = op.cluster]
                => Links(fat') /\ Acyclic(fat')
<1>0. /\ Links(fat) /\ Links(mirror) /\ Acyclic(fat)
      /\ (op.pc = "free" => op.cluster \in Clusters)
  BY ZenonT(40) DEF Sound, Types, Stages
<1>1. PICK g : g = fat'
  OBVIOUS
<1>2. ASSUME NEW c \in Clusters, NEW v \in Clusters \cup {Free, EOC}, fat' = [fat EXCEPT ![c] = v]
      PROVE  Links(g) /\ \A x \in Clusters : g[x] = IF x = c THEN v ELSE fat[x]
  BY ZenonT(40), <1>0, <1>1, <1>2, FatSetFacts
<1>3. ASSUME op.pc = "free", fat' = [fat EXCEPT ![op.cluster] = Free]
      PROVE  Links(fat') /\ Acyclic(fat')
  <2>1. PICK c \in Clusters : c = op.cluster
    BY <1>0, <1>3
  <2>2. Links(g) /\ \A x \in Clusters : g[x] = IF x = c THEN Free ELSE fat[x]
    BY ZenonT(40), <1>2, <1>3, <2>1
  <2>3. Acyclic(g)
    BY ONLY <1>0, <2>2, c \in Clusters, SetFree
  <2> QED
    BY <1>1, <2>2, <2>3
<1>4. ASSUME op.pc = "alloc", Candidates # {}, fat' = [fat EXCEPT ![Allocated] = EOC]
      PROVE  Links(fat') /\ Acyclic(fat')
  <2>1. PICK c : c = Allocated
    OBVIOUS
  <2>2. c \in Clusters /\ fat[c] \notin Clusters
    BY <1>4, <2>1, AllocatedFacts, ClusterFacts
  <2>3. Links(g) /\ \A x \in Clusters : g[x] = IF x = c THEN EOC ELSE fat[x]
    BY ZenonT(40), <1>2, <1>4, <2>1, <2>2
  <2>4. Acyclic(g)
    BY ONLY <1>0, <2>2, <2>3, SetEnd
  <2> QED
    BY <1>1, <2>3, <2>4
<1>5. ASSUME op.pc = "link", fat' = [fat EXCEPT ![op.tail] = op.cluster]
      PROVE  Links(fat') /\ Acyclic(fat')
  <2>0. /\ op.tail \in Clusters /\ op.cluster \in Clusters /\ op.tail # op.cluster
        /\ fat[op.tail] = EOC /\ fat[op.cluster] = EOC
    BY <1>5 DEF Sound, Stages, Building
  <2>1. PICK c \in Clusters : c = op.cluster
    BY <2>0
  <2>2. PICK t \in Clusters : t = op.tail
    BY <2>0
  <2>3. Links(g) /\ \A x \in Clusters : g[x] = IF x = t THEN c ELSE fat[x]
    BY ZenonT(40), <1>2, <1>5, <2>1, <2>2
  <2>4. t # c /\ fat[t] \notin Clusters /\ fat[c] \notin Clusters
    BY <2>0, <2>1, <2>2, ClusterFacts
  <2>5. Acyclic(g)
    BY ONLY <1>0, <2>3, <2>4, c \in Clusters, t \in Clusters, SetLink
  <2> QED
    BY <1>1, <2>3, <2>5
<1> QED
  BY <1>3, <1>4, <1>5

\* Freeing a cluster of the old file keeps the volume sound.
LEMMA FreeSound ==
    ASSUME Sound, FreeStep
    PROVE  Sound'
<1>0. /\ op \in Ops /\ op.pc = "free" /\ Links(fat) /\ Links(mirror) /\ Acyclic(fat)
      /\ op.cluster \in Clusters /\ FatSet(op.cluster, Free) /\ fat' = [fat EXCEPT ![op.cluster] = Free]
      /\ UNCHANGED <<dir, data, fsinfo, hint, crashes>>
  BY ZenonT(40) DEF Sound, Types, Stages, FreeStep, FatSet
<1>1. /\ Links(fat') /\ Links(mirror')
      /\ \A x \in Clusters : fat'[x] = IF x = op.cluster THEN Free ELSE fat[x]
  BY ZenonT(40), <1>0, FatSetFacts
<1>2. Acyclic(fat')
  BY <1>0, FatWrites
<1>3. /\ op' \in Ops /\ op'.pc \in {"free", "erase"} /\ op'.todo = op.todo /\ op'.slot = op.slot
      /\ op'.cluster \in Clusters
  <2>1. CASE fat[op.cluster] \in Clusters
    <3>1. op' = [op EXCEPT !.cluster = fat[op.cluster]]
      BY <2>1 DEF FreeStep
    <3>2. PICK c \in Clusters : c = fat[op.cluster]
      BY <2>1
    <3>3. op' = [op EXCEPT !.cluster = c]
      BY <3>1, <3>2
    <3> QED
      BY <1>0, <3>2, <3>3 DEF Ops
  <2>2. CASE fat[op.cluster] \notin Clusters
    <3>1. op' = [op EXCEPT !.pc = "erase"]
      BY <2>2 DEF FreeStep
    <3> QED
      BY <1>0, <3>1 DEF Ops, Building
  <2> QED
    BY <2>1, <2>2
<1>4. Types' /\ OneEntry'
  BY ZenonT(40), <1>0, <1>1, <1>3 DEF Sound, Types, OneEntry
<1>5. Stages'
  BY <1>0, <1>3 DEF Sound, Stages, Building, Current
<1> QED
  BY <1>2, <1>4, <1>5 DEF Sound

\* With its entry erased the file has none.
LEMMA EraseSound ==
    ASSUME Sound, EraseStep
    PROVE  Sound'
<1>0. /\ op \in Ops /\ op.pc = "erase" /\ op.slot \in 1..Slots /\ op.todo # <<>> /\ Head(op.todo)[1] = "store"
      /\ dir \in [1..Slots -> Entries] /\ dir[op.slot] # None /\ dir[op.slot].name = Current
      /\ UNCHANGED <<fat, mirror, data, fsinfo, hint, crashes>>
  BY ZenonT(40) DEF Sound, Types, Stages, EraseStep
<1>1. op' \in Ops /\ op'.pc = "scan" /\ op'.todo = op.todo
  BY <1>0 DEF EraseStep, Ops
<1>2. /\ dir' \in [1..Slots -> Entries] /\ dir'[op.slot] = None
      /\ \A t \in 1..Slots : dir'[t] # None => dir'[t] = dir[t] /\ t # op.slot
  BY <1>0 DEF EraseStep, Entries
<1>3. Types' /\ Acyclic(fat)'
  BY ZenonT(40), <1>0, <1>1, <1>2 DEF Sound, Types, Links, Acyclic
<1>4. OneEntry'
  BY <1>2 DEF Sound, OneEntry
<1>5. \A t \in 1..Slots : dir'[t] # None => dir'[t].name # Current'
  <2> SUFFICES ASSUME NEW t \in 1..Slots, dir'[t] # None, dir'[t].name = Current PROVE FALSE
    BY <1>1 DEF Current
  <2>1. dir[t] # None /\ dir[t].name = dir[op.slot].name /\ t # op.slot
    BY <1>0, <1>2
  <2> QED
    BY <1>0, <2>1 DEF Sound, OneEntry
<1>6. Stages'
  BY <1>0, <1>1, <1>5 DEF Stages, Building
<1> QED
  BY <1>3, <1>4, <1>6 DEF Sound

\* The slot found for the new entry is empty.
LEMMA ScanSound ==
    ASSUME Sound, ScanStep
    PROVE  Sound'
<1> DEFINE free == 1..Slots \ Live
           s == CHOOSE t \in free : \A u \in free : t <= u
<1>0. /\ op \in Ops /\ op.pc = "scan" /\ op.todo # <<>> /\ Head(op.todo)[1] = "store" /\ dir \in [1..Slots -> Entries]
      /\ UNCHANGED <<fat, mirror, dir, data, fsinfo, hint, crashes>>
      /\ \A t \in 1..Slots : dir[t] # None => dir[t].name # Current
  BY ZenonT(40) DEF Sound, Types, Stages, ScanStep, disk
<1>1. CASE free = {}
  <2>1. op' = Failed(op)
    BY <1>1 DEF ScanStep
  <2>2. op' \in Ops /\ op'.pc \in {"done", "next"}
    BY <1>0, <2>1, FailedType
  <2>3. Types' /\ OneEntry' /\ Acyclic(fat)'
    BY ZenonT(40), <1>0, <2>2 DEF Sound, Types, OneEntry, Links, Acyclic
  <2> QED
    BY <2>2, <2>3, Rested DEF Sound
<1>2. CASE free # {}
  <2>1. op' = [op EXCEPT !.slot = s, !.pc = "alloc", !.first = 0, !.tail = 0, !.written = 0]
    BY <1>2 DEF ScanStep
  <2>2. s \in free
    <3>1. free \in SUBSET Nat
      OBVIOUS
    <3> HIDE DEF free
    <3> QED
      BY <1>2, <3>1, MinFacts
  <2> HIDE DEF s
  <2>3. s \in 1..Slots /\ dir[s] = None
    BY <2>2 DEF Live
  <2>4. s \in 0..Slots
    BY <2>3, SlotFacts
  <2>5. /\ op' \in Ops /\ op'.pc = "alloc" /\ op'.todo = op.todo /\ op'.slot = s
        /\ op'.first = 0 /\ op'.tail = 0
    BY ZenonT(40), <1>0, <2>1, <2>4 DEF Ops, Building
  <2>6. Types' /\ OneEntry' /\ Acyclic(fat)'
    BY ZenonT(40), <1>0, <2>5 DEF Sound, Types, OneEntry, Links, Acyclic
  <2>7. 0 \notin Clusters
    BY ClusterFacts DEF Free
  <2>8. Stages'
    BY <1>0, <2>3, <2>5, <2>7 DEF Stages, Building, Current
  <2> QED
    BY <2>6, <2>8 DEF Sound
<1> QED
  BY <1>1, <1>2

\* The cluster allocated ends a chain of its own, and is not the tail.
LEMMA AllocSound ==
    ASSUME Sound, AllocStep
    PROVE  Sound'
<1>0. /\ op \in Ops /\ op.pc = "alloc" /\ op.todo # <<>> /\ Head(op.todo)[1] = "store" /\ Links(fat) /\ Links(mirror)
      /\ Acyclic(fat) /\ UNCHANGED <<dir, data, fsinfo, hint, crashes>>
      /\ (op.tail \in Clusters => fat[op.tail] = EOC) /\ op.tail \in {0} \cup Clusters
  BY ZenonT(40) DEF Sound, Types, Stages, AllocStep, Building, Ops
<1>1. CASE Candidates = {}
  <2>1. op' = Failed(op) /\ UNCHANGED <<fat, mirror>>
    BY <1>1 DEF AllocStep
  <2>2. op' \in Ops /\ op'.pc \in {"done", "next"}
    BY <1>0, <2>1, FailedType
  <2>3. Types' /\ OneEntry' /\ Acyclic(fat)'
    BY ZenonT(40), <1>0, <2>1, <2>2 DEF Sound, Types, OneEntry, Links, Acyclic
  <2> QED
    BY <2>2, <2>3, Rested DEF Sound
<1>2. CASE Candidates # {}
  <2>1. PICK c : c = Allocated
    OBVIOUS
  <2>2. c \in Clusters /\ fat[c] = Free
    BY <1>2, <2>1, AllocatedFacts
  <2>3. /\ FatSet(c, EOC) /\ fat' = [fat EXCEPT ![c] = EOC]
        /\ op' = [op EXCEPT !.pc = "zero", !.cluster = c]
    BY <1>2, <2>1 DEF AllocStep, FatSet
  <2>4. /\ Links(fat') /\ Links(mirror')
        /\ \A x \in Clusters : fat'[x] = IF x = c THEN EOC ELSE fat[x]
    <3>1. c \in Clusters /\ EOC \in Clusters \cup {Free, EOC} /\ Links(fat) /\ Links(mirror)
      BY <1>0, <2>2
    <3> QED
      BY ONLY ZenonT(40), <2>3, <3>1, FatSetFacts
  <2>5. Acyclic(fat')
    BY <1>0, <1>2, <2>1, <2>3, FatWrites
  <2>6. /\ op' \in Ops /\ op'.pc = "zero" /\ op'.cluster = c
        /\ op'.todo = op.todo /\ op'.slot = op.slot /\ op'.first = op.first /\ op'.tail = op.tail
    BY ZenonT(40), <1>0, <2>2, <2>3 DEF Ops, Building
  <2>7. Types' /\ OneEntry'
    BY ZenonT(40), <1>0, <2>4, <2>6 DEF Sound, Types, OneEntry
  <2>8. op.tail # c /\ fat'[c] = EOC /\ (op.tail \in Clusters => fat'[op.tail] = EOC)
    BY <1>0, <2>2, <2>4, ClusterFacts
  <2>9. Stages'
    BY ZenonT(40), <1>0, <2>2, <2>6, <2>8 DEF Sound, Stages, Building, Current
  <2> QED
    BY <2>5, <2>7, <2>9 DEF Sound
<1> QED
  BY <1>1, <1>2

\* The first cluster allocated becomes the first of the file.
LEMMA ZeroSound ==
    ASSUME Sound, ZeroStep
    PROVE  Sound'
<1>0. /\ op \in Ops /\ op.pc = "zero" /\ op.todo # <<>> /\ Head(op.todo)[1] = "store" /\ op.cluster \in Clusters
      /\ fat[op.cluster] = EOC /\ (op.tail \in Clusters => fat[op.tail] = EOC)
      /\ op.tail \in {0} \cup Clusters /\ op.first \in {0} \cup Clusters
      /\ (op.first = 0 <=> op.tail = 0) /\ op.tail # op.cluster
      /\ UNCHANGED <<fat, mirror, dir, fsinfo, crashes>>
  BY ZenonT(40) DEF Sound, Types, Stages, ZeroStep, Building, Ops
<1>1. hint' \in Nat /\ data' \in [Clusters -> (Names \cup {""}) \X Nat]
  <2>1. op.cluster + 1 \in Nat
    BY <1>0, ClusterFacts DEF Clusters
  <2>2. Zeros \in (Names \cup {""}) \X Nat
    BY ZenonT(40) DEF Zeros
  <2> QED
    BY ZenonT(40), <1>0, <2>1, <2>2 DEF Sound, Types, ZeroStep
<1>2. /\ op' \in Ops /\ op'.todo = op.todo /\ op'.slot = op.slot
      /\ op'.pc \in {"link", "write"} /\ op'.first \in Clusters /\ op'.tail \in Clusters
      /\ fat[op'.tail] = EOC
      /\ op'.pc = "link" => op'.cluster = op.cluster /\ op'.tail = op.tail
  <2>1. CASE op.tail = 0
    <3>1. op' = [op EXCEPT !.first = op.cluster, !.tail = op.cluster, !.pc = "write"]
      BY <2>1 DEF ZeroStep
    <3> QED
      BY ZenonT(40), <1>0, <3>1 DEF Ops, Building
  <2>2. CASE op.tail # 0
    <3>1. op' = [op EXCEPT !.pc = "link"]
      BY <2>2 DEF ZeroStep
    <3> QED
      BY <1>0, <2>2, <3>1 DEF Ops, Building
  <2> QED
    BY <2>1, <2>2
<1>3. Types' /\ OneEntry' /\ Acyclic(fat)'
  BY ZenonT(40), <1>0, <1>1, <1>2 DEF Sound, Types, OneEntry, Links, Acyclic
<1>4. Stages'
  BY <1>0, <1>2 DEF Sound, Stages, Building, Current
<1> QED
  BY <1>3, <1>4 DEF Sound

\* The cluster linked becomes the tail, and ends the chain.
LEMMA LinkSound ==
    ASSUME Sound, LinkStep
    PROVE  Sound'
<1>0. /\ op \in Ops /\ op.pc = "link" /\ op.todo # <<>> /\ Head(op.todo)[1] = "store" /\ op.cluster \in Clusters
      /\ fat[op.cluster] = EOC /\ op.tail \in Clusters /\ fat[op.tail] = EOC
      /\ op.tail # op.cluster /\ op.first \in Clusters /\ Links(fat) /\ Links(mirror)
      /\ Acyclic(fat) /\ FatSet(op.tail, op.cluster) /\ fat' = [fat EXCEPT ![op.tail] = op.cluster]
      /\ UNCHANGED <<dir, data, fsinfo, hint, crashes>>
  BY ZenonT(40) DEF Sound, Types, Stages, LinkStep, Building, FatSet
<1>1. /\ Links(fat') /\ Links(mirror')
      /\ \A x \in Clusters : fat'[x] = IF x = op.tail THEN op.cluster ELSE fat[x]
  BY ZenonT(40), <1>0, FatSetFacts
<1>2. Acyclic(fat')
  BY <1>0, FatWrites
<1>3. /\ op' \in Ops /\ op'.pc = "write" /\ op'.tail = op.cluster
      /\ op'.todo = op.todo /\ op'.slot = op.slot /\ op'.first = op.first
  <2>1. op' = [op EXCEPT !.tail = op.cluster, !.pc = "write"]
    BY DEF LinkStep
  <2> QED
    BY ZenonT(40), <1>0, <2>1 DEF Ops, Building
<1>4. Types' /\ OneEntry'
  BY ZenonT(40), <1>0, <1>1, <1>3 DEF Sound, Types, OneEntry
<1>5. fat'[op.cluster] = EOC
  BY <1>0, <1>1
<1>6. Stages'
  BY ZenonT(40), <1>0, <1>3, <1>5 DEF Sound, Stages, Building, Current
<1> QED
  BY <1>2, <1>4, <1>6 DEF Sound

\* Writing a part changes no link and no entry.
LEMMA WriteSound ==
    ASSUME Sound, WriteStep
    PROVE  Sound'
<1>0. /\ op \in Ops /\ op.pc = "write" /\ op.todo # <<>> /\ Head(op.todo)[1] = "store" /\ op.todo \in Seq(Calls)
      /\ op.tail \in Clusters /\ op.first \in Clusters /\ fat[op.tail] = EOC
      /\ op.written \in Nat /\ UNCHANGED <<fat, mirror, dir, fsinfo, hint, crashes>>
  BY ZenonT(40) DEF Sound, Types, Stages, WriteStep, Building, Ops
<1>1. Current \in Names
  <2>1. Head(op.todo) \in Calls
    BY <1>0
  <2> QED
    BY <2>1, CallTypes DEF Current
<1>2. data' \in [Clusters -> (Names \cup {""}) \X Nat]
  <2>0. PICK n \in Nat : n = op.written + 1
    BY <1>0
  <2>1. <<Current, op.written + 1>> \in (Names \cup {""}) \X Nat
    BY ZenonT(40), <1>1, <2>0
  <2> QED
    BY ZenonT(40), <1>0, <2>1 DEF Sound, Types, WriteStep
<1>3. /\ op' \in Ops /\ op'.pc \in {"alloc", "commit"} /\ op'.todo = op.todo
      /\ op'.slot = op.slot /\ op'.first = op.first /\ op'.tail = op.tail
  <2>1. PICK p : p = IF op.written + 1 < Size[Current] THEN "alloc" ELSE "commit"
    OBVIOUS
  <2>0. PICK n \in Nat : n = op.written + 1
    BY <1>0
  <2>2. op' = [op EXCEPT !.written = n, !.pc = p]
    BY <2>0, <2>1 DEF WriteStep
  <2>3. p \in {"alloc", "commit"}
    BY <2>1
  <2> QED
    BY ZenonT(40), <1>0, <2>2, <2>3 DEF Ops, Building
<1>4. Types' /\ OneEntry' /\ Acyclic(fat)'
  BY ZenonT(40), <1>0, <1>2, <1>3 DEF Sound, Types, OneEntry, Links, Acyclic
<1>5. op.first # 0 /\ op.tail # 0
  BY <1>0, ClusterFacts DEF Free
<1>6. Stages'
  BY ZenonT(40), <1>0, <1>3, <1>5 DEF Sound, Stages, Building, Current
<1> QED
  BY <1>4, <1>6 DEF Sound

\* The entry committed is the only one of its name.
LEMMA CommitSound ==
    ASSUME Sound, CommitStep
    PROVE  Sound'
<1>0. /\ op \in Ops /\ op.pc = "commit" /\ op.todo # <<>> /\ op.todo \in Seq(Calls)
      /\ op.slot \in 1..Slots /\ op.first \in Clusters /\ dir \in [1..Slots -> Entries]
      /\ UNCHANGED <<fat, mirror, data, fsinfo, hint, crashes>>
      /\ \A t \in 1..Slots : dir[t] # None => dir[t].name # Current
  BY ZenonT(40) DEF Sound, Types, Stages, CommitStep, Building, Ops
<1>1. Current \in Names
  <2>1. Head(op.todo) \in Calls
    BY <1>0
  <2> QED
    BY <2>1, CallTypes DEF Current
<1>2. PICK entry : entry = [name |-> Current, first |-> op.first]
  BY ZenonT(40)
<1>3. entry \in Entries /\ entry.name = Current
  BY <1>0, <1>1, <1>2 DEF Entries
<1>4. dir' \in [1..Slots -> Entries] /\ \A t \in 1..Slots : dir'[t] = IF t = op.slot THEN entry ELSE dir[t]
  BY <1>0, <1>2, <1>3 DEF CommitStep
<1>5. op' \in Ops /\ op'.pc = "next"
  <2>1. Tail(op.todo) \in Seq(Calls)
    BY <1>0
  <2> QED
    BY ZenonT(40), <1>0, <2>1 DEF CommitStep, Ops
<1>6. Types' /\ Acyclic(fat)'
  BY ZenonT(40), <1>0, <1>4, <1>5 DEF Sound, Types, Links, Acyclic
<1>7. OneEntry'
  BY <1>0, <1>3, <1>4 DEF Sound, OneEntry
<1> QED
  BY <1>5, <1>6, <1>7, Rested DEF Sound

\* Wherever the power fails, the next session finds a sound volume.
LEMMA SessionSound ==
    ASSUME Sound, boot \/ Crash \/ TornFatSet
    PROVE  Sound'
<1>1. op' = Idle /\ hint' = fsinfo /\ UNCHANGED <<mirror, dir, data, fsinfo>>
  BY DEF boot, Crash, TornFatSet, PowerFails, Session, disk
<1>2. op' \in Ops /\ op'.pc = "done"
  BY <1>1, IdleType DEF Idle
<1>3. crashes' \in Nat
  <2>1. crashes' = crashes \/ crashes' = crashes + 1
    BY DEF boot, Crash, TornFatSet, PowerFails
  <2>2. crashes \in Nat
    BY ZenonT(40) DEF Sound, Types
  <2> QED
    BY <2>1, <2>2
<1>4. Links(fat') /\ Acyclic(fat')
  <2>1. CASE boot \/ Crash
    BY ZenonT(40), <2>1 DEF boot, Crash, disk, Sound, Types
  <2>2. CASE TornFatSet
    BY <2>2, FatWrites DEF TornFatSet
  <2> QED
    BY <2>1, <2>2
<1>5. Types' /\ OneEntry'
  BY ZenonT(40), <1>1, <1>2, <1>3, <1>4 DEF Sound, Types, OneEntry, Links
<1> QED
  BY <1>2, <1>4, <1>5, Rested DEF Sound

\* A freshly formatted volume is sound.
LEMMA SoundInit == Init => Sound
<1> SUFFICES ASSUME Init PROVE Sound
  OBVIOUS
<1>1. op \in Ops /\ op.pc = "done"
  BY IdleType DEF Init, Idle
<1>2. Links(fat) /\ Links(mirror) /\ \A c \in Clusters : fat[c] = Free
  BY DEF Init, Links
<1>3. Acyclic(fat)
  <2> DEFINE r == [c \in Clusters |-> 0]
  <2>1. Ranked(fat, r)
    BY <1>2, ClusterFacts DEF Ranked
  <2> QED
    BY <2>1 DEF Acyclic
<1>4. dir \in [1..Slots -> Entries] /\ \A s \in 1..Slots : dir[s] = None
  BY DEF Init, Entries
<1>5. data \in [Clusters -> (Names \cup {""}) \X Nat]
  BY ZenonT(40) DEF Init, Zeros
<1>6. fsinfo \in Nat /\ hint \in Nat /\ crashes \in Nat
  <2>1. Hints \subseteq 3..Limit
    BY ZenonT(40), Mini64Assumption
  <2> QED
    BY <2>1, ClusterFacts DEF Init
<1>7. Types /\ OneEntry /\ Stages
  BY ZenonT(40), <1>1, <1>2, <1>4, <1>5, <1>6 DEF Types, OneEntry, Stages, Building
<1> QED
  BY <1>3, <1>7 DEF Sound

\* Every step keeps the volume sound.
LEMMA SoundNext ==
    ASSUME Sound, [Next]_vars
    PROVE  Sound'
<1>1. CASE recover \/ install \/ \E m \in Modes : bootmode(m)
  <2>1. PICK c \in {"recover", "install", "bootmode"}, steps \in Seq(Calls) : Begin(c, steps)
    BY <1>1, CallTypes DEF recover, install, bootmode
  <2> QED
    BY <2>1, BeginSound
<1>2. CASE Step
  BY <1>2, NextCallSound, FreeSound, EraseSound, ScanSound, AllocSound, ZeroSound, LinkSound,
     WriteSound, CommitSound DEF Step
<1>3. CASE boot \/ Crash \/ TornFatSet
  BY <1>3, SessionSound
<1>4. CASE UNCHANGED vars
  BY ZenonT(40), <1>4 DEF vars, disk, Sound, Types, Stages, OneEntry, Links, Acyclic, Current
<1> QED
  BY <1>1, <1>2, <1>3, <1>4 DEF Next

-----------------------------------------------------------------------------
(* One boot mode                                                           *)

Absent(f) == \A s \in 1..Slots : dir[s] # None => dir[s].name # f

\* A flag is stored when the other flags are gone, or will be by then; only
\* one is stored, and only one is there.
StoredAlone ==
    \A i \in 1..Len(op.todo) : \A m, n \in DOMAIN Flag :
        op.todo[i] = Store(Flag[m]) /\ n # m =>
            Absent(Flag[n]) \/ \E j \in 1..i - 1 : op.todo[j] = Delete(Flag[n])
StoredOnce ==
    \A i, j \in 1..Len(op.todo) : \A m, n \in DOMAIN Flag :
        op.todo[i] = Store(Flag[m]) /\ op.todo[j] = Store(Flag[n]) => i = j
OneFlag == \A m, n \in DOMAIN Flag : ~Absent(Flag[m]) /\ ~Absent(Flag[n]) => m = n

Modal == StoredAlone /\ StoredOnce /\ OneFlag

\* What is left to do after the first call keeps its promise when that call
\* has done its part.
LEMMA ModalTail ==
    ASSUME Modal, op.todo \in Seq(Calls), op.todo # <<>>, op'.todo = Tail(op.todo),
           \A n \in DOMAIN Flag : Absent(Flag[n]) => Absent(Flag[n])',
           \A n \in DOMAIN Flag : Head(op.todo) = Delete(Flag[n]) => Absent(Flag[n])'
    PROVE  Modal'
<1>1. /\ Len(op'.todo) = Len(op.todo) - 1 /\ Len(op.todo) \in Nat
      /\ \A i \in 1..Len(op'.todo) : op'.todo[i] = op.todo[i + 1] /\ i + 1 \in 1..Len(op.todo)
      /\ Head(op.todo) = op.todo[1]
  OBVIOUS
<1>2. ASSUME NEW i \in 1..Len(op'.todo), NEW m \in DOMAIN Flag, NEW n \in DOMAIN Flag,
             op'.todo[i] = Store(Flag[m]), n # m
      PROVE  Absent(Flag[n])' \/ \E j \in 1..i - 1 : op'.todo[j] = Delete(Flag[n])
  <2>1. Absent(Flag[n]) \/ \E j \in 1..(i + 1) - 1 : op.todo[j] = Delete(Flag[n])
    BY <1>1, <1>2 DEF Modal, StoredAlone
  <2>2. CASE Absent(Flag[n])
    BY <2>2
  <2>3. ASSUME NEW j \in 1..(i + 1) - 1, op.todo[j] = Delete(Flag[n])
        PROVE  Absent(Flag[n])' \/ \E k \in 1..i - 1 : op'.todo[k] = Delete(Flag[n])
    <3>1. CASE j = 1
      BY <1>1, <2>3, <3>1
    <3>2. CASE j # 1
      <4>1. j - 1 \in 1..i - 1 /\ j - 1 \in 1..Len(op'.todo) /\ (j - 1) + 1 = j
        BY <1>1, <3>2
      <4>2. op'.todo[j - 1] = Delete(Flag[n])
        BY <1>1, <2>3, <4>1
      <4> QED
        BY <4>1, <4>2
    <3> QED
      BY <3>1, <3>2
  <2> QED
    BY <2>1, <2>2, <2>3
<1>3. ASSUME NEW i \in 1..Len(op'.todo), NEW j \in 1..Len(op'.todo), NEW m \in DOMAIN Flag,
             NEW n \in DOMAIN Flag, op'.todo[i] = Store(Flag[m]), op'.todo[j] = Store(Flag[n])
      PROVE  i = j
  <2>1. i + 1 = j + 1
    BY <1>1, <1>3 DEF Modal, StoredOnce
  <2> QED
    BY <2>1
<1>4. OneFlag'
  BY DEF Modal, OneFlag
<1>5. StoredAlone'
  BY ZenonT(40), <1>2 DEF StoredAlone
<1>6. StoredOnce'
  BY ZenonT(40), <1>3 DEF StoredOnce
<1> QED
  BY <1>4, <1>5, <1>6 DEF Modal

\* Nothing left to do, or the same calls on a directory with fewer entries.
LEMMA ModalKeeps ==
    ASSUME Modal, op'.todo = op.todo \/ op'.todo = <<>>,
           \A n \in DOMAIN Flag : Absent(Flag[n]) => Absent(Flag[n])'
    PROVE  Modal'
<1>1. CASE op'.todo = op.todo
  <2>1. ASSUME NEW i \in 1..Len(op'.todo), NEW m \in DOMAIN Flag, NEW n \in DOMAIN Flag,
               op'.todo[i] = Store(Flag[m]), n # m
        PROVE  Absent(Flag[n])' \/ \E j \in 1..i - 1 : op'.todo[j] = Delete(Flag[n])
    <3>1. Absent(Flag[n]) \/ \E j \in 1..i - 1 : op.todo[j] = Delete(Flag[n])
      BY <1>1, <2>1 DEF Modal, StoredAlone
    <3> QED
      BY <1>1, <3>1
  <2>2. StoredAlone'
    BY <2>1 DEF StoredAlone
  <2>3. StoredOnce'
    BY <1>1 DEF Modal, StoredOnce
  <2>4. OneFlag'
    BY DEF Modal, OneFlag
  <2> QED
    BY <2>2, <2>3, <2>4 DEF Modal
<1>2. CASE op'.todo = <<>>
  <2>1. StoredAlone' /\ StoredOnce'
    BY <1>2 DEF StoredAlone, StoredOnce
  <2>2. OneFlag'
    BY DEF Modal, OneFlag
  <2> QED
    BY <2>1, <2>2 DEF Modal
<1> QED
  BY <1>1, <1>2

\* Four flags with four names, none of them another file.
LEMMA FlagFacts ==
    /\ \A m, n \in DOMAIN Flag : Flag[m] = Flag[n] => m = n
    /\ \A f, g : Store(f) # Delete(g)
    /\ \A f, g : Store(f) = Store(g) => f = g
    /\ \A f, g : Delete(f) = Delete(g) => f = g
    /\ \A m \in DOMAIN Flag :
         Flag[m] \notin {"KERNEL.BIN", "INITRD.BIN", "MINI64.BIN", "GRUB.CFG", "BOOTMODE.CFG"}
BY DEF Flag, Store, Delete

\* bootmode deletes the four flags before it stores one; the other commands store none.
LEMMA ModalBegin ==
    ASSUME Modal, recover \/ install \/ \E m \in Modes : bootmode(m)
    PROVE  Modal'
<1>0. dir' = dir
  BY ZenonT(40) DEF recover, install, bootmode, Begin, disk
<1>1. CASE recover \/ install
  <2>1. op'.todo = RecoverSteps \/ op'.todo = InstallSteps
    BY ZenonT(40), <1>1 DEF recover, install, Begin, Idle
  <2>2. \A i \in 1..Len(op'.todo) : \A m \in DOMAIN Flag : op'.todo[i] # Store(Flag[m])
    <3>1. CASE op'.todo = RecoverSteps
      BY <3>1, FlagFacts DEF RecoverSteps
    <3>2. CASE op'.todo = InstallSteps
      <4>1. Len(InstallSteps) = 4 /\ \A i \in 1..4 : InstallSteps[i] \in
              {Store("KERNEL.BIN"), Store("INITRD.BIN"), Store("MINI64.BIN"), Store("GRUB.CFG")}
        BY DEF InstallSteps, RecoverSteps
      <4> QED
        BY <3>2, <4>1, FlagFacts
    <3> QED
      BY <2>1, <3>1, <3>2
  <2>3. StoredAlone' /\ StoredOnce'
    BY <2>2 DEF StoredAlone, StoredOnce
  <2>4. OneFlag'
    BY <1>0 DEF Modal, OneFlag, Absent
  <2> QED
    BY <2>3, <2>4 DEF Modal
<1>2. ASSUME NEW k \in Modes, bootmode(k) PROVE Modal'
  <2> DEFINE dels == <<Store("BOOTMODE.CFG"), Delete("MODEDESK.FLG"), Delete("MODECLI.FLG"),
                       Delete("MODEDBG.FLG"), Delete("MODERECV.FLG")>>
  <2>1. op'.todo = BootmodeSteps(k)
    BY ZenonT(40), <1>2 DEF bootmode, Begin, Idle
  <2>2. \A i \in 1..5 : \A m \in DOMAIN Flag : dels[i] # Store(Flag[m])
    BY FlagFacts
  <2>3. \A n \in DOMAIN Flag : \E j \in 1..5 : dels[j] = Delete(Flag[n])
    <3>1. dels[2] = Delete(Flag["desktop"]) /\ dels[3] = Delete(Flag["cli"])
          /\ dels[4] = Delete(Flag["debug"]) /\ dels[5] = Delete(Flag["recovery"])
      BY DEF Flag
    <3>2. DOMAIN Flag = {"desktop", "cli", "debug", "recovery"}
      BY DEF Flag
    <3> HIDE DEF dels
    <3> QED
      BY <3>1, <3>2
  <2>4. CASE k = "normal"
    <3>1. op'.todo = dels
      BY <2>1, <2>4 DEF BootmodeSteps
    <3>2. Len(op'.todo) = 5
      BY <3>1
    <3> HIDE DEF dels
    <3>3. StoredAlone' /\ StoredOnce'
      BY <2>2, <3>1, <3>2 DEF StoredAlone, StoredOnce
    <3>4. OneFlag'
      BY <1>0 DEF Modal, OneFlag, Absent
    <3> QED
      BY <3>3, <3>4 DEF Modal
  <2>5. CASE k # "normal"
    <3>1. /\ Len(op'.todo) = 6 /\ op'.todo[6] = Store(Flag[k])
          /\ \A i \in 1..5 : op'.todo[i] = dels[i]
      BY <2>1, <2>5 DEF BootmodeSteps
    <3> HIDE DEF dels
    <3>2. \A i \in 1..Len(op'.todo) : \A m \in DOMAIN Flag : op'.todo[i] = Store(Flag[m]) => i = 6
      BY <2>2, <3>1
    <3>3. \A n \in DOMAIN Flag : \E j \in 1..6 - 1 : op'.todo[j] = Delete(Flag[n])
      BY <2>3, <3>1
    <3>4. StoredAlone'
      BY <3>2, <3>3 DEF StoredAlone
    <3>5. StoredOnce'
      BY <3>2 DEF StoredOnce
    <3>6. OneFlag'
      BY <1>0 DEF Modal, OneFlag, Absent
    <3> QED
      BY <3>4, <3>5, <3>6 DEF Modal
  <2> QED
    BY <2>4, <2>5
<1> QED
  BY <1>1, <1>2

\* A failed store ends recover and install; bootmode goes on with the next call.
LEMMA FailedTodo ==
    ASSUME NEW o \in Ops
    PROVE  Failed(o).todo = Tail(o.todo) \/ Failed(o).todo = <<>>
<1>1. CASE o.cmd = "bootmode"
  BY <1>1 DEF Failed, Ops
<1>2. CASE o.cmd # "bootmode"
  BY <1>2 DEF Failed, Idle
<1> QED
  BY <1>1, <1>2

\* Every step keeps one boot mode, the failing ones and the crashes included.
LEMMA ModalNext ==
    ASSUME Sound, Modal, [Next]_vars
    PROVE  Modal'
<1>0. op \in Ops /\ op.todo \in Seq(Calls) /\ dir \in [1..Slots -> Entries]
  BY ZenonT(40) DEF Sound, Types, Ops
<1>1. CASE recover \/ install \/ \E m \in Modes : bootmode(m)
  BY <1>1, ModalBegin
<1>2. CASE NextCall
  <2> DEFINE call == Head(op.todo)
             found == Find(call[2])
             s == CHOOSE t \in found : \A u \in found : t <= u
  <2>1. CASE dir' = dir /\ (op'.todo = op.todo \/ op'.todo = <<>>)
    BY <2>1, ModalKeeps DEF Absent
  <2>2. CASE /\ op.todo # <<>> /\ call[1] = "delete" /\ op' = [op EXCEPT !.todo = Tail(@)]
             /\ dir' = delete_root_file(found)
    <3>1. op'.todo = Tail(op.todo)
      BY <1>0, <2>2 DEF Ops
    <3>2. found \in SUBSET (1..Slots) /\ \A t \in 1..Slots : dir[t] # None /\ dir[t].name = call[2] => t \in found
      BY DEF Find, Live
    <3>3. found # {} => s \in found
      <4>1. found \in SUBSET Nat
        BY <3>2
      <4> HIDE DEF found
      <4> QED
        BY <4>1, MinFacts
    <3>4. \A t \in found : dir[t] # None /\ dir[t].name = call[2]
      BY DEF Find, Live
    <3>5. dir' = IF found = {} THEN dir ELSE [dir EXCEPT ![s] = None]
      BY <2>2 DEF delete_root_file
    <3> HIDE DEF s, found
    <3>6. \A t \in 1..Slots : dir'[t] # None => dir'[t] = dir[t] /\ t \notin found
      <4> SUFFICES ASSUME NEW t \in 1..Slots, dir'[t] # None PROVE dir'[t] = dir[t] /\ t \notin found
        OBVIOUS
      <4>1. CASE found = {}
        BY <3>5, <4>1
      <4>2. CASE found # {}
        <5>1. t # s /\ dir'[t] = dir[t] /\ s \in found
          BY <1>0, <3>2, <3>3, <3>5, <4>2
        <5>2. t \in found => t = s
          BY <3>2, <3>4, <5>1 DEF Sound, OneEntry
        <5> QED
          BY <5>1, <5>2
      <4> QED
        BY <4>1, <4>2
    <3>7. \A f : Absent(f) => Absent(f)'
      BY <3>6 DEF Absent
    <3>8. PICK f : f = call[2]
      OBVIOUS
    <3>9. Absent(f)'
      BY <3>2, <3>6, <3>8 DEF Absent
    <3>10. \A n \in DOMAIN Flag : call = Delete(Flag[n]) => f = Flag[n]
      BY <3>8 DEF Delete
    <3>11. \A n \in DOMAIN Flag : Head(op.todo) = Delete(Flag[n]) => Absent(Flag[n])'
      BY <3>9, <3>10
    <3> QED
      BY <1>0, <2>2, <3>1, <3>7, <3>11, ModalTail
  <2>3. op' = [op EXCEPT !.pc = "scan"] => op'.todo = op.todo
    BY <1>0 DEF Ops
  <2>4. op' = [op EXCEPT !.pc = "free", !.slot = s, !.cluster = dir[s].first] => op'.todo = op.todo
    BY <1>0 DEF Ops
  <2>5. op' = [Idle EXCEPT !.cmd = op.cmd, !.lost = op.lost,
                           !.ok = \A f \in Verified[op.cmd] : Find(f) # {}] => op'.todo = <<>>
    BY DEF Idle
  <2> QED
    BY <1>2, <2>1, <2>2, <2>3, <2>4, <2>5 DEF NextCall
<1>3. CASE FreeStep \/ ZeroStep \/ LinkStep \/ WriteStep
  <2>1. dir' = dir /\ op'.todo = op.todo
    BY ZenonT(40), <1>0, <1>3 DEF FreeStep, ZeroStep, LinkStep, WriteStep, Ops
  <2> QED
    BY <2>1, ModalKeeps DEF Absent
<1>4. CASE EraseStep
  <2>1. op'.todo = op.todo /\ \A t \in 1..Slots : dir'[t] # None => dir'[t] = dir[t]
    BY <1>0, <1>4 DEF EraseStep, Ops
  <2> QED
    BY <2>1, ModalKeeps DEF Absent
<1>5. CASE ScanStep \/ AllocStep
  <2>1. dir' = dir /\ op.todo # <<>> /\ Head(op.todo)[1] = "store"
    BY <1>5 DEF ScanStep, AllocStep, disk, Sound, Stages
  <2>2. op'.todo = op.todo \/ op' = Failed(op)
    BY ZenonT(40), <1>0, <1>5 DEF ScanStep, AllocStep, Ops
  <2>3. CASE op'.todo = op.todo \/ op'.todo = <<>>
    BY <2>1, <2>3, ModalKeeps DEF Absent
  <2>4. CASE op'.todo = Tail(op.todo)
    <3>1. \A n \in DOMAIN Flag : Head(op.todo) # Delete(Flag[n])
      BY <2>1 DEF Delete
    <3> QED
      BY <1>0, <2>1, <2>4, <3>1, ModalTail DEF Absent
  <2> QED
    BY <1>0, <2>2, <2>3, <2>4, FailedTodo
<1>6. CASE CommitStep
  <2>0. op.todo # <<>> /\ Head(op.todo)[1] = "store" /\ op.slot \in 1..Slots
    BY <1>6 DEF CommitStep, Sound, Stages, Building
  <2>1. op'.todo = Tail(op.todo)
    BY <1>0, <1>6 DEF CommitStep, Ops
  <2>2. PICK entry : entry = [name |-> Current, first |-> op.first]
    BY ZenonT(40)
  <2>3. \A t \in 1..Slots : dir'[t] = IF t = op.slot THEN entry ELSE dir[t]
    BY <1>0, <1>6, <2>2 DEF CommitStep
  <2>4. \A f : f # Current => (Absent(f) => Absent(f)')
    BY <2>2, <2>3 DEF Absent
  <2>5. Head(op.todo) = Store(Current) /\ Head(op.todo) = op.todo[1] /\ 1 \in 1..Len(op.todo)
    <3>1. Head(op.todo) \in Calls /\ Head(op.todo) = op.todo[1] /\ 1 \in 1..Len(op.todo)
      BY <1>0, <2>0
    <3> QED
      BY <2>0, <3>1 DEF Calls, Store, Current
  <2>6. CASE \A m \in DOMAIN Flag : Current # Flag[m]
    <3>1. \A n \in DOMAIN Flag : Head(op.todo) # Delete(Flag[n])
      BY <2>5, FlagFacts
    <3> QED
      BY <1>0, <2>0, <2>1, <2>4, <2>6, <3>1, ModalTail
  <2>7. ASSUME NEW m \in DOMAIN Flag, Current = Flag[m] PROVE Modal'
    <3>1. \A n \in DOMAIN Flag : n # m => Absent(Flag[n])
      <4> SUFFICES ASSUME NEW n \in DOMAIN Flag, n # m PROVE Absent(Flag[n])
        OBVIOUS
      <4>1. Absent(Flag[n]) \/ \E j \in 1..1 - 1 : op.todo[j] = Delete(Flag[n])
        BY <2>5, <2>7 DEF Modal, StoredAlone
      <4> QED
        BY <4>1
    <3>2. \A n \in DOMAIN Flag : n # m => Absent(Flag[n])'
      BY <2>4, <2>7, <3>1, FlagFacts
    <3>3. \A i \in 1..Len(op'.todo) : op'.todo[i] = op.todo[i + 1] /\ i + 1 \in 1..Len(op.todo)
      BY <1>0, <2>0, <2>1
    <3>4. \A i \in 1..Len(op'.todo) : \A n \in DOMAIN Flag : op'.todo[i] # Store(Flag[n])
      <4> SUFFICES ASSUME NEW i \in 1..Len(op'.todo), NEW n \in DOMAIN Flag,
                          op'.todo[i] = Store(Flag[n])
                   PROVE  FALSE
        OBVIOUS
      <4>1. i + 1 = 1
        BY <2>5, <2>7, <3>3 DEF Modal, StoredOnce
      <4> QED
        BY <4>1
    <3>5. StoredAlone' /\ StoredOnce'
      BY <3>4 DEF StoredAlone, StoredOnce
    <3>6. OneFlag'
      BY <3>2 DEF OneFlag
    <3> QED
      BY <3>5, <3>6 DEF Modal
  <2> QED
    BY <2>6, <2>7
<1>7. CASE boot \/ Crash \/ TornFatSet \/ UNCHANGED vars
  <2>1. dir' = dir /\ (op'.todo = op.todo \/ op'.todo = <<>>)
    BY <1>7 DEF boot, Crash, TornFatSet, PowerFails, Session, disk, vars, Idle
  <2> QED
    BY <2>1, ModalKeeps DEF Absent
<1> QED
  BY <1>1, <1>2, <1>3, <1>4, <1>5, <1>6, <1>7 DEF Next, Step

\* The copies of the FAT differ only after the power failed between them.
LEMMA MirrorNext ==
    ASSUME Sound, MirrorsAgree, [Next]_vars
    PROVE  MirrorsAgree'
<1>0. crashes \in Nat
  BY ZenonT(40) DEF Sound, Types
<1>1. CASE crashes' = crashes /\ UNCHANGED <<fat, mirror>>
  BY <1>1 DEF MirrorsAgree
<1>2. ASSUME NEW c, NEW v, FatSet(c, v), crashes' = crashes PROVE MirrorsAgree'
  BY <1>2 DEF MirrorsAgree, FatSet
<1>3. CASE crashes' = crashes + 1
  <2>1. crashes' # 0
    BY <1>0, <1>3
  <2> QED
    BY <2>1 DEF MirrorsAgree
<1>4. CASE recover \/ install \/ \E m \in Modes : bootmode(m)
  BY ZenonT(40), <1>1, <1>4 DEF recover, install, bootmode, Begin, disk
<1>5. CASE Step
  BY <1>1, <1>2, <1>5 DEF Step, NextCall, FreeStep, EraseStep, ScanStep, AllocStep, ZeroStep,
     LinkStep, WriteStep, CommitStep, disk
<1>6. CASE boot \/ Crash \/ TornFatSet \/ UNCHANGED vars
  BY <1>1, <1>3, <1>6 DEF boot, Crash, TornFatSet, PowerFails, disk, vars
<1> QED
  BY <1>4, <1>5, <1>6 DEF Next

\* Wherever the power fails, every chain of the volume ends, no file has two
\* entries and one boot mode is set at most; while it holds, the copies of the
\* FAT agree: for every volume and every sequence of commands.
THEOREM VolumeSoundAlways == Spec => []VolumeSound
<1> DEFINE Inv == Sound /\ Modal /\ MirrorsAgree
<1>1. Init => Inv
  <2> SUFFICES ASSUME Init PROVE Inv
    OBVIOUS
  <2>1. op.todo = <<>> /\ mirror = fat /\ \A s \in 1..Slots : dir[s] = None
    BY DEF Init, Idle
  <2>2. Modal
    <3>1. StoredAlone /\ StoredOnce
      BY <2>1 DEF StoredAlone, StoredOnce
    <3>2. OneFlag
      BY <2>1 DEF OneFlag, Absent
    <3> QED
      BY <3>1, <3>2 DEF Modal
  <2>3. MirrorsAgree
    BY <2>1 DEF MirrorsAgree
  <2> QED
    BY <2>2, <2>3, SoundInit
<1>2. Inv /\ [Next]_vars => Inv'
  BY SoundNext, ModalNext, MirrorNext
<1>3. Inv => VolumeSound
  <2> SUFFICES ASSUME Inv PROVE WalksEnd /\ OneMode
    BY DEF VolumeSound
  <2>1. \A s \in Live : Walk(dir[s].first)[Limit] \notin Clusters
    BY ZenonT(40), WalkEnds DEF Sound, Types, Walk
  <2>2. WalksEnd
    BY <2>1 DEF WalksEnd, Sound, OneEntry, Live
  <2> DEFINE set == {m \in DOMAIN Flag : Find(Flag[m]) # {}}
  <2>3. \A m, n \in set : m = n
    <3>1. \A m \in set : ~Absent(Flag[m])
      BY DEF Absent, Find, Live
    <3> QED
      BY <3>1 DEF Modal, OneFlag
  <2>4. Cardinality(set) <= 1
    <3> HIDE DEF set
    <3>1. set = {} \/ \E m : set = {m}
      BY <2>3
    <3>2. Cardinality(set) = 0 \/ Cardinality(set) = 1
      BY ZenonT(40), <3>1, FS_EmptySet, FS_Singleton
    <3> QED
      BY <3>2
  <2> QED
    BY <2>2, <2>4 DEF OneMode
<1> QED
  BY <1>1, <1>2, <1>3, PTL DEF Spec

=============================================================================
