------------------------------ MODULE HomeFat ------------------------------
\* drivers/disk/disk.c: the FAT32 volume behind /home.  An operation is worked out when
\* it is called (nobody else writes meanwhile) as the list of its sector writes; all of
\* these reach the disk, or the power fails and some first ones of them have.
EXTENDS Integers, Sequences, SequencesExt, FiniteSets

CONSTANTS
    Limit,          \* clusters 2..Limit-1; 2 is the root directory
    Slots,          \* entries of a directory: 16
    Files, Dirs,    \* the paths in use, as sequences of names
    Cluster,        \* bytes of a cluster: 512
    Small, Large,   \* contents of one cluster, and of two: <<their bytes, their length>>
    MaxCrashes

VARIABLES
    disk,           \* fat, fat2: the two tables; info: FSInfo; data: the clusters
    next_cluster, free_clusters,
    holds,          \* what each path may hold, by what the callers were told
    torn,           \* clusters that an interrupted disk_remove has freed under their entry
    crashes

vars == <<disk, next_cluster, free_clusters, holds, torn, crashes>>

Root == 2
Clusters == 3..Limit-1
Free == 0
EOC == Limit
None == [name |-> "", type |-> "", first |-> 0, size |-> 0]
Zeros == [kind |-> "zero", dir |-> [i \in 1..Slots |-> None], part |-> <<>>]
Directory(slots) == [Zeros EXCEPT !.kind = "dir", !.dir = slots]
Part(v, i) == [Zeros EXCEPT !.kind = "file", !.part = <<v[1], i>>]

Empty == <<"", 0>>
Absent == <<"absent", -1>>
Size(v) == v[2]

----------------------------------------------------------------------------
\* A state of the driver inside an operation: the disk, the cached FSInfo values, the
\* writes so far, whether it goes on, and the cluster that was allocated last.
Start == [disk |-> disk, next |-> next_cluster, free |-> free_clusters, w |-> <<>>, ok |-> TRUE, c |-> 0]

Apply(dk, w) ==
    CASE w.at = "fat" -> [dk EXCEPT !.fat[w.c] = w.v]
      [] w.at = "fat2" -> [dk EXCEPT !.fat2[w.c] = w.v]
      [] w.at = "info" -> [dk EXCEPT !.info = w.v]
      [] w.at = "data" -> [dk EXCEPT !.data[w.c] = w.v]

Put(s, at, c, v) ==
    LET w == [at |-> at, c |-> c, v |-> v] IN [s EXCEPT !.disk = Apply(@, w), !.w = Append(@, w)]

Failed(s) == [s EXCEPT !.ok = FALSE]

fat_set(s, c, v) == Put(Put(s, "fat", c, v), "fat2", c, v)
fsinfo_update(s) == Put(s, "info", 0, <<s.free, s.next>>)

\* Mutant: the cluster that was found is not marked before the next search.
AllocateUnmarked(s) ==
    LET found == {c \in Clusters : c >= s.next /\ s.disk.fat[c] = Free}
        c == Min(found)
    IN IF found = {} THEN Failed(s)
       ELSE Put(fsinfo_update([s EXCEPT !.free = IF @ > 0 THEN @ - 1 ELSE @, !.c = c]), "data", c, Zeros)

\* allocate: the first free cluster from next_cluster on.
allocate(s) ==
    LET found == {c \in Clusters : c >= s.next /\ s.disk.fat[c] = Free}
        c == Min(found)
    IN IF found = {} THEN Failed(s)
       ELSE Put(fsinfo_update([fat_set(s, c, EOC) EXCEPT
                                  !.next = c + 1, !.free = IF @ > 0 THEN @ - 1 ELSE @, !.c = c]),
                "data", c, Zeros)

----------------------------------------------------------------------------
\* Looking up a path.  A cluster that is no directory has no entries.
Entries(dk, c) == dk.data[c].dir
find_entry_at(dk, c, name) == SelectInSeq(Entries(dk, c), LAMBDA e : e.name = name)

\* parent_dir: the cluster of the directory that holds the path, or 0.
parent_dir(dk, path) ==
    LET i == find_entry_at(dk, Root, path[1])
        e == Entries(dk, Root)[i]
    IN IF Len(path) = 1 THEN Root ELSE IF i = 0 \/ e.type # "dir" THEN 0 ELSE e.first

Find(dk, path) ==
    IF parent_dir(dk, path) = 0 THEN 0 ELSE find_entry_at(dk, parent_dir(dk, path), Last(path))
Entry(dk, path) == Entries(dk, parent_dir(dk, path))[Find(dk, path)]

SetEntry(s, path, i, e) ==
    LET p == parent_dir(s.disk, path) IN
    Put(s, "data", p, Directory([Entries(s.disk, p) EXCEPT ![i] = e]))

\* disk_load reads the first cluster, and takes the length from the entry.
disk_load(dk, path) ==
    LET e == Entry(dk, path)
    IN IF Find(dk, path) = 0 \/ e.type = "dir" THEN Absent
       ELSE IF e.size = 0 THEN Empty
       ELSE IF dk.data[e.first].kind # "file" THEN <<"", e.size>>
       ELSE <<dk.data[e.first].part[1], e.size>>

\* What follows the first cluster for those who go on along the FAT, as a boot loader does.
Second(dk, path) ==
    LET next == dk.fat[Entry(dk, path).first]
    IN IF next \in Clusters THEN dk.data[next].part ELSE <<>>

----------------------------------------------------------------------------
disk_create(s, path, type) ==
    LET p == parent_dir(s.disk, path)
        i == SelectInSeq(Entries(s.disk, p), LAMBDA e : e = None)
        a == IF type = "dir" THEN allocate(s) ELSE s
        b == IF type = "dir" THEN Put(a, "data", a.c, Directory([k \in 1..Slots |-> None])) ELSE a
        e == [name |-> Last(path), type |-> type, first |-> IF type = "dir" THEN a.c ELSE 0, size |-> 0]
    IN IF p = 0 THEN Failed(s)
       ELSE IF Find(s.disk, path) # 0 THEN s
       ELSE IF i = 0 \/ ~a.ok THEN Failed(a)
       ELSE SetEntry(b, path, i, e)

\* disk_store takes one cluster; a file that has one keeps it and is overwritten there, and
\* the entry with the new length follows.
disk_store(t, path, v) ==
    LET s == disk_create(t, path, "file")
        i == Find(s.disk, path)
        e == Entry(s.disk, path)
        a == IF Size(v) > 0 /\ e.first = 0 THEN allocate(s) ELSE s
        f == [e EXCEPT !.first = IF Size(v) > 0 /\ @ = 0 THEN a.c ELSE @, !.size = Size(v)]
    IN IF Size(v) > Cluster THEN Failed(t)
       ELSE IF ~s.ok THEN s
       ELSE IF e.type = "dir" \/ ~a.ok THEN Failed(a)
       ELSE SetEntry(IF Size(v) = 0 THEN a ELSE Put(a, "data", f.first, Part(v, 1)), path, i, f)

\* disk_store_large, for a name in the root: an old file's clusters stay allocated.
disk_store_large(t, path, v) ==
    LET gone == IF Find(t.disk, path) = 0 THEN t
                ELSE SetEntry(t, path, Find(t.disk, path), None)
        s == disk_create(gone, path, "file")
        i == Find(s.disk, path)
        a == allocate(s)
        b == Put(a, "data", a.c, Part(v, 1))
        n == allocate(b)
        m == fat_set(n, a.c, n.c)
    IN IF ~s.ok \/ ~a.ok THEN Failed(IF s.ok THEN a ELSE s)
       ELSE IF Size(v) > Cluster /\ ~n.ok THEN Failed(n)
       ELSE SetEntry(IF Size(v) > Cluster THEN Put(m, "data", n.c, Part(v, 2)) ELSE b, path, i,
                     [Entry(s.disk, path) EXCEPT !.first = a.c, !.size = Size(v)])

\* Mutant: the search does not start again at the freed cluster.
RemoveAhead(s, path) ==
    LET i == Find(s.disk, path)
        c == Entry(s.disk, path).first
        f == [fat_set(s, c, Free) EXCEPT !.free = @ + 1]
    IN IF i = 0 THEN Failed(s)
       ELSE SetEntry(IF c # 0 THEN fsinfo_update(f) ELSE s, path, i, None)

\* disk_remove frees the first cluster, then drops the entry.
disk_remove(s, path) ==
    LET i == Find(s.disk, path)
        c == Entry(s.disk, path).first
        f == [fat_set(s, c, Free) EXCEPT !.next = IF c < @ THEN c ELSE @, !.free = @ + 1]
    IN IF i = 0 THEN Failed(s)
       ELSE SetEntry(IF c # 0 THEN fsinfo_update(f) ELSE s, path, i, None)

----------------------------------------------------------------------------
\* disk_check, which chkfs calls: the copies of the FAT agree, and every entry of the root
\* directory has a chain that ends and that its size does not exceed.
disk_check(dk) ==
    LET sound(e) ==
            LET at[k \in 0..Limit] ==
                    IF k = 0 THEN e.first ELSE IF at[k-1] \in Clusters THEN dk.fat[at[k-1]] ELSE at[k-1]
            IN \E k \in 1..Limit : /\ at[k-1] \in Clusters /\ at[k] = EOC
                                   /\ e.type = "file" => k * Cluster >= e.size
    IN dk.fat = dk.fat2 /\ \A i \in 1..Slots : LET e == Entries(dk, Root)[i] IN e = None \/ sound(e)

----------------------------------------------------------------------------
\* disk_format, and disk_mount.
Init ==
    /\ disk = [fat |-> [c \in Clusters |-> Free], fat2 |-> [c \in Clusters |-> Free],
               info |-> <<Cardinality(Clusters), 3>>,
               data |-> [c \in Clusters \cup {Root} |-> IF c = Root THEN Directory([i \in 1..Slots |-> None]) ELSE Zeros]]
    /\ next_cluster = 3 /\ free_clusters = Cardinality(Clusters)
    /\ holds = [p \in Files |-> {Absent}]
    /\ torn = {} /\ crashes = 0

Below(path) == {p \in Files : Len(p) > Len(path) /\ IsPrefix(path, p)}
SetOf(cond, x) == IF cond THEN {x} ELSE {}

\* What a path may hold when an operation on it did not end well: what it held or, when
\* it was being created, nothing yet.  disk_store_large drops the old file first.
Kept(op, p) ==
    holds[p] \cup SetOf(op = "large", Absent) \cup SetOf(Absent \in holds[p] \/ op = "large", Empty)

\* An operation that returns.
Completed(op, s, path, v) ==
    /\ disk' = s.disk /\ next_cluster' = s.next /\ free_clusters' = s.free
    /\ holds' = [p \in Files |-> IF p = path THEN IF s.ok THEN {v} ELSE Kept(op, p)
                                 ELSE IF p \in Below(path) /\ op = "remove" /\ s.ok THEN {Absent}
                                 ELSE holds[p]]
    /\ UNCHANGED <<torn, crashes>>

\* The power fails after k writes of an operation, and disk_init reads FSInfo again.  A file
\* that disk_store was overwriting may have the new bytes and the old length.
Interrupted(op, s, path, v) ==
    /\ crashes < MaxCrashes /\ crashes' = crashes + 1
    /\ \E k \in 0..Len(s.w) : disk' = FoldLeft(Apply, disk, SubSeq(s.w, 1, k))
    /\ free_clusters' = disk'.info[1] /\ next_cluster' = disk'.info[2]
    /\ holds' = [p \in Files |->
                    IF p = path
                    THEN Kept(op, p) \cup {v} \cup {<<v[1], old[2]>> : old \in {u \in holds[p] : op = "store" /\ Size(u) > 0}}
                    ELSE IF p \in Below(path) THEN holds[p] \cup {Absent} ELSE holds[p]]
    /\ torn' = torn \cup {c \in Clusters : /\ op = "remove" /\ disk'.fat[c] = Free
                                         /\ Find(disk', path) # 0 /\ Entry(disk', path).first = c}

Call(op, s, path, v) == Completed(op, s, path, v) \/ Interrupted(op, s, path, v)

Store(path, v) == Call("store", disk_store(Start, path, v), path, v)
StoreLarge(path, v) == Len(path) = 1 /\ Call("large", disk_store_large(Start, path, v), path, v)
Create(path) == Call("create", disk_create(Start, path, "file"), path,
                     IF disk_load(disk, path) = Absent THEN Empty ELSE disk_load(disk, path))
MakeDir(path) == Call("mkdir", disk_create(Start, path, "dir"), path, Empty)
Delete(path) == Call("remove", disk_remove(Start, path), path, Absent)

Next ==
    \/ \E p \in Files : Create(p) \/ Delete(p)
    \/ \E p \in Files, v \in Small \cup {Empty} : Store(p, v)
    \/ \E p \in Files, v \in Small \cup Large : StoreLarge(p, v)
    \/ \E p \in Dirs : MakeDir(p) \/ Delete(p)

Spec == Init /\ [][Next]_vars

----------------------------------------------------------------------------
\* The clusters of the file and the one of its directory.
Needs(p) ==
    LET c == Entry(disk, p).first
    IN {parent_dir(disk, p)} \cup (IF Find(disk, p) = 0 THEN {} ELSE {c} \cup (IF c \in Clusters THEN {disk.fat[c]} ELSE {}))

\* A file reads back as what was last stored in it, along the FAT as well, and after power
\* failures as what an interrupted operation on that very file found or was to leave or, when
\* disk_store was overwriting it, as the new bytes under the old length; other files are not
\* touched.  The exception are files that need a cluster which a power failure inside
\* disk_remove has freed under an entry that remains: it may be given to another.
ContentsKept ==
    \A p \in {q \in Files : Needs(q) \cap torn = {}} :
        LET v == disk_load(disk, p)
        IN v \in holds[p] /\ (v \in Large => Second(disk, p) = <<v[1], 2>>)

\* Every free cluster but one that an interrupted disk_remove has freed can still be allocated:
\* it is not below next_cluster, where allocate never looks.  While no power failure has struck
\* the free count is right, and disk_check finds fault with an empty file, which has no cluster,
\* and with nothing else.
SpaceFound ==
    /\ \A c \in Clusters \ torn : disk.fat[c] = Free => c >= next_cluster
    /\ crashes = 0 => free_clusters = Cardinality({c \in Clusters : disk.fat[c] = Free})
    /\ crashes = 0 => disk_check(disk) \/ \E i \in 1..Slots : Entries(disk, Root)[i].name # "" /\ Entries(disk, Root)[i].first = 0
=============================================================================
