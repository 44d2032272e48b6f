------------------------------- MODULE Ext2 -------------------------------
\* kernel/fs/ext2.c: the ext2 volume behind /var.  An operation is the sequence of its
\* block writes: all of them reach the disk, or the power fails and some first ones have.
\* A name takes one unit of a directory's block, a block is written whole.
EXTENDS Integers, Sequences, FiniteSets

CONSTANTS
    LastBlock,      \* block 1 is the root directory, 2..LastBlock are allocated
    LastInode,      \* inode 2 is the root, 3..LastInode are allocated
    Slots,          \* names a directory's block has room for
    Direct,         \* block numbers in an inode: 12
    PerBlock,       \* block numbers in an indirect block: 1024
    Paths,          \* the paths in use, as sequences of names
    Contents,       \* what is stored
    Blocks(_),      \* how many blocks a content takes, from 0
    EntryLike,      \* the contents whose first bytes pass for a directory entry with room behind it
    MaxCrashes

Absent == "absent"
Garbage == "garbage"

\* ext2_store refuses what does not fit in MAX_FILE_BLOCKS; one content is the empty one.
ASSUME Ext2Assumption ==
    /\ LastBlock \in Nat /\ LastInode \in Nat /\ Slots \in Nat /\ MaxCrashes \in Nat
    /\ Direct \in Nat \ {0} /\ PerBlock \in Nat \ {0}
    /\ \A p \in Paths : p \in Seq(STRING) /\ p # <<>>
    /\ \A v \in Contents : Blocks(v) \in 0..Direct + PerBlock /\ v \notin {Absent, Garbage}
    /\ \A v, u \in Contents : Blocks(v) = 0 /\ Blocks(u) = 0 => v = u

VARIABLES
    disk,           \* bb, ib: used blocks and inodes; sb, gd: the counters; ino; blk
    holds,          \* what each path may hold, by what the callers were told
    strayed,        \* files below which one was stored, and what was stored there
    crashes

vars == <<disk, holds, strayed, crashes>>

Root == 2
Data == 2..LastBlock
Files == 3..LastInode
NoInode == [type |-> "", size |-> 0, block |-> [i \in 1..Direct |-> 0], ind |-> 0]
\* A block holds the entries of a directory or a part of a file.
Spoiled == <<"an entry in it">>
Block == [dir |-> {}, tab |-> [i \in 1..PerBlock |-> 0], part |-> <<>>]
----------------------------------------------------------------------------
\* The volume inside an operation, the volumes that a power failure up to here may leave,
\* and the last number allocated.
Start == [disk |-> disk, seen |-> {disk}, got |-> 0, ok |-> TRUE]

\* bwrite: one block reaches the disk.
Put(s, dk) == [s EXCEPT !.disk = dk, !.seen = @ \cup {dk}]
inode_put(s, n, in) == Put(s, [s.disk EXCEPT !.ino[n] = in])
PutBlock(s, n, b) == Put(s, [s.disk EXCEPT !.blk[n] = b])

Failed(s) == [s EXCEPT !.ok = FALSE]

\* counters: the superblock's, then the group descriptor's free blocks and inodes.
Moved(c, db, di) == <<c[1] + db, c[2] + di>>
Described(s, db, di) == Put(s, [s.disk EXCEPT !.gd = Moved(@, db, di)])
counters(s, db, di) == Described(Put(s, [s.disk EXCEPT !.sb = Moved(@, db, di)]), db, di)

Bits(dk, bitmap) == IF bitmap = "bb" THEN dk.bb ELSE dk.ib
WithBits(dk, bitmap, bits) ==
    IF bitmap = "bb" THEN [dk EXCEPT !.bb = bits] ELSE [dk EXCEPT !.ib = bits]

Least(set) == CHOOSE n \in set : \A m \in set : n <= m

\* Mutant: a number is counted as used but not marked.
AllocUnmarked(s, bitmap, bits, db, di) ==
    LET open == bits \ Bits(s.disk, bitmap)
    IN IF open = {} THEN [s EXCEPT !.got = 0]
       ELSE [counters(s, db, di) EXCEPT !.got = Least(open) + 1]

\* alloc_bit returns the place of a clear bit and one, or 0; free_bit takes such a number.
\* Block n has bit n, inode n has bit n - 1.
alloc_bit(s, bitmap, bits, db, di) ==
    LET open == bits \ Bits(s.disk, bitmap)
        marked == WithBits(s.disk, bitmap, Bits(s.disk, bitmap) \cup {Least(open)})
    IN IF open = {} THEN [s EXCEPT !.got = 0]
       ELSE [counters(Put(s, marked), db, di) EXCEPT !.got = Least(open) + 1]

Unmarked(s, bitmap, number) == Put(s, WithBits(s.disk, bitmap, Bits(s.disk, bitmap) \ {number - 1}))

\* Mutant: what is freed is not counted.
FreeUncounted(s, bitmap, number, db, di) == Unmarked(s, bitmap, number)

free_bit(s, bitmap, number, db, di) == counters(Unmarked(s, bitmap, number), db, di)

InodeBits == {n - 1 : n \in Files}

BlockGot(a) == IF a.got = 0 THEN a ELSE [a EXCEPT !.got = @ - 1]
alloc_block(s) == BlockGot(alloc_bit(s, "bb", Data, -1, 0))
alloc_inode(s) == alloc_bit(s, "ib", InodeBits, 0, -1)

\* Mutant: a block is released under the number of the one before it.
FreeBefore(s, n) == IF n = 0 THEN s ELSE free_bit(s, "bb", n, 1, 0)

FreeBlock(s, n) == IF n = 0 THEN s ELSE free_bit(s, "bb", n + 1, 1, 0)
FreeInode(s, n) == free_bit(s, "ib", n, 0, 1)

----------------------------------------------------------------------------
\* dir_find: the inode of a name, or 0; only a directory has names.
dir_find(dk, dir, name) ==
    LET found == {e \in dk.blk[dk.ino[dir].block[1]].dir : e[1] = name}
        first == CHOOSE e \in found : TRUE
    IN IF dk.ino[dir].type # "dir" \/ found = {} THEN 0 ELSE first[2]

\* dir_add takes the first block of the inode for a directory's, whatever the inode is: in a
\* file's block the entry goes where the bytes leave room for one, or nowhere.
Parses(b) == b.part \in {<<>>, Spoiled} \cup {<<v, 1>> : v \in EntryLike}

dir_add(s, dir, name, ino) ==
    LET b == s.disk.ino[dir].block[1]
        there == s.disk.blk[b]
    IN IF b = 0 \/ ~Parses(there) \/ Cardinality(there.dir) >= Slots THEN Failed(s)
       ELSE PutBlock(s, b, [there EXCEPT !.dir = @ \cup {<<name, ino>>},
                                         !.part = IF @ = <<>> THEN @ ELSE Spoiled])

\* make_dir asks for an inode and a block; one without the other stays allocated.  The
\* new directory is written before its name, and its parent's inode last.
DirNamed(d, ino, parent) ==
    IF ~d.ok THEN d
    ELSE [inode_put(counters(d, 0, 0), parent, d.disk.ino[parent]) EXCEPT !.got = ino]

DirWritten(b, ino) ==
    inode_put(PutBlock(b, b.got, Block), ino,
              [NoInode EXCEPT !.type = "dir", !.size = 1, !.block[1] = b.got])

DirIn(b, ino, parent, name) ==
    IF ino = 0 \/ b.got = 0 THEN Failed(b)
    ELSE DirNamed(dir_add(DirWritten(b, ino), parent, name, ino), ino, parent)

WithInode(a, parent, name) == DirIn(alloc_block(a), a.got, parent, name)
make_dir(s, parent, name) == WithInode(alloc_inode(s), parent, name)

\* walk: the inode of the directory of a path is left in `got`; with `create` the
\* directories on the way are made.
Walked(t, name, create) ==
    LET n == dir_find(t.disk, t.got, name)
    IN IF ~t.ok THEN t
       ELSE IF n # 0 THEN [t EXCEPT !.got = n]
       ELSE IF create THEN make_dir(t, t.got, name) ELSE Failed(t)

walk(s, path, create) ==
    LET at[k \in 0..Len(path) - 1] ==
            IF k = 0 THEN [s EXCEPT !.got = Root] ELSE Walked(at[k - 1], path[k], create)
    IN at[Len(path) - 1]

----------------------------------------------------------------------------
\* file_block: block i of a file.
file_block(dk, in, i) ==
    IF i <= Direct THEN in.block[i]
    ELSE IF in.ind = 0 THEN 0 ELSE dk.blk[in.ind].tab[i - Direct]

Owned(dk, in) ==
    in.block \o (IF in.ind = 0 THEN <<>> ELSE dk.blk[in.ind].tab \o <<in.ind>>)

release_blocks(s, in) ==
    LET own == Owned(s.disk, in)
        freed[k \in 0..Len(own)] == IF k = 0 THEN s ELSE FreeBlock(freed[k - 1], own[k])
    IN freed[Len(own)]

\* One turn of write_new_blocks: block i of v, and the indirect block's entry for it.
Filled(s, in, n, v, i) == [s |-> PutBlock(s, n, [Block EXCEPT !.part = <<v, i>>]), in |-> in]
Linked(s, ind, i, n) == PutBlock(s, ind, [s.disk.blk[ind] EXCEPT !.tab[i - Direct] = n])
Undone(s, in) == [s |-> Failed(release_blocks(s, in)), in |-> NoInode]

FirstIndirect(b, in, n, v, i) ==
    IF b.got = 0 THEN Undone(FreeBlock(b, n), in)
    ELSE Filled(Linked(PutBlock(b, b.got, Block), b.got, i, n), [in EXCEPT !.ind = b.got], n, v, i)

WithBlock(a, in, v, i) ==
    IF a.got = 0 THEN Undone(a, in)
    ELSE IF i <= Direct THEN Filled(a, [in EXCEPT !.block[i] = a.got], a.got, v, i)
    ELSE IF in.ind # 0 THEN Filled(Linked(a, in.ind, i, a.got), in, a.got, v, i)
    ELSE FirstIndirect(alloc_block(a), in, a.got, v, i)

NewBlock(t, v, i) == IF t.s.ok THEN WithBlock(alloc_block(t.s), t.in, v, i) ELSE t

write_new_blocks(s, v) ==
    LET new[i \in 0..Blocks(v)] ==
            IF i = 0 THEN [s |-> s, in |-> [NoInode EXCEPT !.type = "file", !.size = Blocks(v)]]
            ELSE NewBlock(new[i - 1], v, i)
    IN new[Blocks(v)]

\* ext2_store writes new blocks, points the inode at them, then names a new inode or
\* releases the old blocks of one that was found.
Replaced(n, ino, old) ==
    IF n.s.ok THEN release_blocks(inode_put(n.s, ino, n.in), old) ELSE n.s

Named(d, in, ino) ==
    IF d.ok THEN d ELSE FreeInode(inode_put(release_blocks(d, in), ino, NoInode), ino)

Created(n, ino, dir, name) ==
    IF ~n.s.ok THEN FreeInode(n.s, ino)
    ELSE Named(dir_add(inode_put(n.s, ino, n.in), dir, name, ino), n.in, ino)

CreatedIn(a, dir, name, v) ==
    IF a.got = 0 THEN Failed(a) ELSE Created(write_new_blocks(a, v), a.got, dir, name)

StoredIn(p, found, name, v) ==
    IF ~p.ok \/ (found # 0 /\ p.disk.ino[found].type = "dir") THEN Failed(p)
    ELSE IF found = 0 THEN CreatedIn(alloc_inode(p), p.got, name, v)
    ELSE Replaced(write_new_blocks(p, v), found, p.disk.ino[found])

Last(path) == path[Len(path)]
At(p, path) == dir_find(p.disk, p.got, Last(path))
StoredAt(p, path, v) == StoredIn(p, At(p, path), Last(path), v)
ext2_store(s, path, v) == StoredAt(walk(s, path, TRUE), path, v)

Unnamed(s, p, found) ==
    LET b == p.disk.ino[p.got].block[1]
    IN PutBlock(s, b, [p.disk.blk[b] EXCEPT !.dir = {e \in @ : e[2] # found}])

Removable(p, found) == p.ok /\ found # 0 /\ p.disk.ino[found].type # "dir"

\* Mutant: the name is dropped last.
RemoveLate(p, found) ==
    IF Removable(p, found)
    THEN Unnamed(FreeInode(release_blocks(p, p.disk.ino[found]), found), p, found)
    ELSE Failed(p)

\* ext2_remove drops the name, then the blocks, then the inode.
Removed(p, found) ==
    IF Removable(p, found)
    THEN FreeInode(inode_put(release_blocks(Unnamed(p, p, found), p.disk.ino[found]), found, NoInode), found)
    ELSE Failed(p)

RemovedAt(p, path) == Removed(p, At(p, path))
ext2_remove(s, path) == RemovedAt(walk(s, path, FALSE), path)

\* locate: the inode of a path, or 0.
locate(dk, path) ==
    LET at[k \in 0..Len(path)] ==
            IF k = 0 THEN Root ELSE IF at[k - 1] = 0 THEN 0 ELSE dir_find(dk, at[k - 1], path[k])
    IN at[Len(path)]

\* ext2_load: what the blocks of the file hold, if one content is whole there.
Whole(dk, in, v) ==
    /\ in.size = Blocks(v)
    /\ \A i \in 1..in.size : /\ file_block(dk, in, i) # 0
                             /\ dk.blk[file_block(dk, in, i)].part = <<v, i>>

Reads(dk, in) ==
    LET vs == {v \in Contents : Whole(dk, in, v)}
    IN IF vs = {} THEN Garbage ELSE CHOOSE v \in vs : TRUE

ext2_load(dk, path) ==
    LET n == locate(dk, path)
    IN IF n = 0 \/ dk.ino[n].type # "file" THEN Absent ELSE Reads(dk, dk.ino[n])

----------------------------------------------------------------------------
Free == <<Cardinality(Data), Cardinality(Files)>>

\* ext2_format, and ext2_mount.  Inode and block 0 stand for the number 0, "none".
Init ==
    /\ disk = [bb |-> {0, 1}, ib |-> 0..Root - 1, sb |-> Free, gd |-> Free,
               ino |-> [n \in {0, Root} \cup Files |->
                          IF n = Root THEN [NoInode EXCEPT !.type = "dir", !.size = 1, !.block[1] = 1]
                          ELSE NoInode],
               blk |-> [n \in {0, 1} \cup Data |-> Block]]
    /\ holds = [p \in Paths |-> {Absent}]
    /\ strayed = {}
    /\ crashes = 0

\* The call returns, or the power fails after some writes and the volume is mounted again.
Call(s, path, v) ==
    \/ /\ disk' = s.disk /\ UNCHANGED crashes
       /\ holds' = IF s.ok THEN [holds EXCEPT ![path] = {v}] ELSE holds
    \/ /\ crashes < MaxCrashes /\ crashes' = crashes + 1
       /\ disk' \in s.seen
       /\ holds' = [holds EXCEPT ![path] = @ \cup {v}]

FilesAbove(path) ==
    {q \in Paths : \E k \in 1..Len(path) - 1 : q = SubSeq(path, 1, k) /\ ext2_load(disk, q) # Absent}

Store(path, v) ==
    /\ Call(ext2_store(Start, path, v), path, v)
    /\ strayed' = strayed \cup FilesAbove(path) \cup (IF FilesAbove(path) = {} THEN {} ELSE {path})

Unlink(path) == Call(ext2_remove(Start, path), path, Absent) /\ UNCHANGED strayed

Next == \E p \in Paths : (\E v \in Contents : Store(p, v)) \/ Unlink(p)

Spec == Init /\ [][Next]_vars

----------------------------------------------------------------------------
Reachable == {n \in {Root} \cup Files :
                 \/ n = Root
                 \/ \E d \in {Root} \cup Files : \E e \in disk.blk[disk.ino[d].block[1]].dir :
                       disk.ino[d].type = "dir" /\ e[2] = n}
OwnedBy(n) ==
    LET own == Owned(disk, disk.ino[n]) IN {own[i] : i \in DOMAIN own} \ {0}

\* A file reads as what was last stored in it; after a power failure inside ext2_store or
\* ext2_remove it is whole, the old content or the new, and other files are untouched: no
\* write of ext2_store touches a block the file had before its inode points elsewhere.  The
\* exceptions are a path that was stored below a file and that file, which no step refuses.
WholeOrOld == \A p \in Paths \ strayed : ext2_load(disk, p) \in holds[p]

\* Whatever operations failed or were cut off, an inode that a directory names is marked
\* used, its blocks are marked used and belong to it alone: alloc_bit never hands out
\* what a file still has.
ClaimedOnce ==
    \A n \in Reachable :
        /\ n - 1 \in disk.ib
        /\ OwnedBy(n) \subseteq disk.bb
        /\ \A m \in Reachable \ {n} : OwnedBy(n) \cap OwnedBy(m) = {}

\* While no power failure has struck the free counts of the superblock and of the group
\* descriptor agree with the bitmaps: no operation frees a block twice on its error path.
CountsTrue ==
    crashes = 0 => /\ disk.sb = disk.gd
                   /\ disk.sb = <<Cardinality(Data \ disk.bb), Cardinality(InodeBits \ disk.ib)>>

\* No block and no inode is claimed twice or marked free while it is claimed, and the
\* counters agree with the bitmaps until the power fails.
BitmapsTrue == ClaimedOnce /\ CountsTrue
=============================================================================
