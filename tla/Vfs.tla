-------------------------------- MODULE Vfs --------------------------------
(***************************************************************************)
(* The file system switch (kernel/fs/vfs.c, vfs_access.c and tmpfs.c) and  *)
(* the commands cp and mv on top of it.  A path leads to one of four       *)
(* stores by its prefix, decided anew in every call: the slots of tmpfs,   *)
(* the FAT volume under /home and under /mnt/os64, the ext2 volume under   *)
(* /var, /root and the rest of /mnt, and the initramfs, which nothing      *)
(* writes and which also shows where the ext2 volume has no such file.     *)
(* The caller is root: permissions are left out.                           *)
(***************************************************************************)
EXTENDS Naturals, FiniteSets

CONSTANTS
    VfsPaths,              \* <<prefix, name>>
    Key(_),             \* what name83 makes of a name
    Packed,             \* the paths the initramfs has
    Texts,           \* [text, size]: what is written
    FILES, DATA         \* slots of tmpfs and bytes in one

Places == {"/tmp/", "/home/", "/mnt/os64/", "/var/", "/mnt/", "/etc/"}

ASSUME VfsAssumption ==
    /\ VfsPaths \subseteq Places \X STRING /\ Packed \subseteq VfsPaths
    /\ Texts \subseteq [text : STRING, size : Nat] /\ FILES \in Nat /\ DATA \in Nat

VARIABLES
    tmp, fat, ext,      \* what the stores hold, by path, by 8.3 name and by path
    mounted,            \* of "fat" and "ext", the volumes in use
    told                \* what each file holds, by what the callers were told

vfs == <<tmp, fat, ext, mounted, told>>

Names == {p[2] : p \in VfsPaths}
NoFile == [text |-> "absent", size |-> 0]
Empty == [text |-> "", size |-> 0]
PackedText == [text |-> "packed", size |-> 1]

-----------------------------------------------------------------------------
(* Routing                                                                 *)

fat_path(p) == p[1] \in {"/home/", "/mnt/os64/"}

\* Mutant: all of /mnt, the FAT volume's second place included.
NativeAll(p) == p[1] \in {"/var/", "/mnt/", "/mnt/os64/"}

native_path(p) == p[1] \in {"/var/", "/mnt/"}

\* The file a path stands for.
File(p) == IF fat_path(p) THEN <<"fat", Key(p[2])>> ELSE p

fs_find(p) == IF p \in Packed THEN PackedText ELSE NoFile

vfs_read(p) ==
    IF p[1] = "/tmp/" THEN tmp[p[2]]
    ELSE IF fat_path(p) THEN IF "fat" \in mounted THEN fat[Key(p[2])] ELSE NoFile
    ELSE IF native_path(p) /\ "ext" \in mounted /\ ext[p] # NoFile THEN ext[p]
    ELSE fs_find(p)

-----------------------------------------------------------------------------
(* Writing and removing.  A call is the set of its outcomes: the stores    *)
(* after it and whether it reports success.                                *)

Stores == [tmp |-> tmp, fat |-> fat, ext |-> ext]
Outcome(stores, ok) == [stores |-> stores, ok |-> ok]
Refused(s) == {Outcome(s, FALSE)}

\* A slot of the same path, or the first free one.
tmpfs_store(s, n, c) ==
    LET used == {m \in Names : s.tmp[m] # NoFile}
    IN IF c.size > DATA \/ (n \notin used /\ Cardinality(used) >= FILES) THEN Refused(s)
       ELSE {Outcome([s EXCEPT !.tmp[n] = c], TRUE)}

\* One cluster at most.  A volume without room leaves a new file empty, or makes none.
disk_store(s, k, c) ==
    IF "fat" \notin mounted THEN Refused(s)
    ELSE {Outcome([s EXCEPT !.fat[k] = c], TRUE)}
         \cup (IF s.fat[k] = NoFile THEN Refused(s) \cup Refused([s EXCEPT !.fat[k] = Empty])
               ELSE IF s.fat[k] = Empty THEN Refused(s) ELSE {})

\* ext2_store gives up before the file changes, or stores it and fails to sync.
varfs_store(s, p, c) ==
    IF "ext" \notin mounted THEN Refused(s)
    ELSE {Outcome([s EXCEPT !.ext[p] = c], ok) : ok \in BOOLEAN} \cup Refused(s)

vfs_write(s, p, c) ==
    IF p[1] = "/tmp/" THEN tmpfs_store(s, p[2], c)
    ELSE IF fat_path(p) /\ c.size <= 512 THEN disk_store(s, Key(p[2]), c)
    ELSE IF native_path(p) THEN varfs_store(s, p, c)
    ELSE Refused(s)

vfs_remove(s, p) ==
    IF p[1] = "/tmp/"
    THEN {Outcome([s EXCEPT !.tmp[p[2]] = NoFile], s.tmp[p[2]] # NoFile)}
    ELSE IF fat_path(p)
    THEN IF "fat" \notin mounted \/ s.fat[Key(p[2])] = NoFile THEN Refused(s)
         ELSE {Outcome([s EXCEPT !.fat[Key(p[2])] = NoFile], TRUE)}
    ELSE IF native_path(p)
    THEN IF "ext" \notin mounted \/ s.ext[p] = NoFile THEN Refused(s)
         ELSE {Outcome([s EXCEPT !.ext[p] = NoFile], TRUE)}
    ELSE Refused(s)

-----------------------------------------------------------------------------
(* Commands                                                                *)

\* What the file of p is known to hold: what was asked for or, where the call failed, what it
\* left.
Told(t, p, c, o) ==
    [t EXCEPT ![File(p)] = IF o.ok THEN c
                           ELSE IF fat_path(p) THEN o.stores.fat[Key(p[2])]
                           ELSE IF native_path(p) THEN o.stores.ext[p] ELSE @]

After(o, t) ==
    /\ tmp' = o.stores.tmp /\ fat' = o.stores.fat /\ ext' = o.stores.ext /\ told' = t
    /\ UNCHANGED mounted

Write(p, c) == \E o \in vfs_write(Stores, p, c) : After(o, Told(told, p, c, o))
c_rm(p) == \E o \in vfs_remove(Stores, p) : After(o, Told(told, p, NoFile, o))

c_cp(x, y) ==
    /\ vfs_read(x) # NoFile
    /\ \E o \in vfs_write(Stores, y, vfs_read(x)) : After(o, Told(told, y, vfs_read(x), o))

\* Read, write, remove; the file that is moved onto itself is the one it then removes.
c_mv(x, y) ==
    /\ vfs_read(x) # NoFile
    /\ \E o \in vfs_write(Stores, y, vfs_read(x)) :
          LET t == Told(told, y, vfs_read(x), o)
          IN IF ~o.ok THEN After(o, t)
             ELSE \E r \in vfs_remove(o.stores, x) : After(r, Told(t, x, NoFile, r))

c_mount == mounted' = {"fat", "ext"} /\ UNCHANGED <<tmp, fat, ext, told>>

\* vfs_init: the slots of tmpfs are empty again.
Reboot ==
    /\ tmp' = [n \in Names |-> NoFile] /\ mounted' \in SUBSET {"fat", "ext"}
    /\ told' = [f \in DOMAIN told |-> IF f[1] = "/tmp/" THEN NoFile ELSE told[f]]
    /\ UNCHANGED <<fat, ext>>

VfsInit ==
    /\ tmp = [n \in Names |-> NoFile] /\ fat = [k \in {Key(n) : n \in Names} |-> NoFile]
    /\ ext = [p \in {q \in VfsPaths : native_path(q)} |-> NoFile]
    /\ mounted \in SUBSET {"fat", "ext"} /\ told = [f \in {File(p) : p \in VfsPaths} |-> NoFile]

VfsNext ==
    \/ \E p \in VfsPaths : (\E c \in Texts : Write(p, c)) \/ c_rm(p) \/ (\E q \in VfsPaths : c_cp(p, q) \/ c_mv(p, q))
    \/ c_mount \/ Reboot

VfsSpec == VfsInit /\ [][VfsNext]_vfs

-----------------------------------------------------------------------------
(* Properties                                                              *)

Volume(p) == IF fat_path(p) THEN {"fat"} ELSE IF native_path(p) THEN {"ext"} ELSE {}

\* Reading, writing, removing, copying and moving agree on where a path leads: a file reads as
\* what the callers of these were told last, on whichever of its paths, or, where the writable
\* volume has none, as the initramfs has it.
ReadsBack ==
    \A p \in VfsPaths : Volume(p) \subseteq mounted =>
        vfs_read(p) = IF (told[File(p)] = NoFile /\ native_path(p)) \/ p[1] = "/etc/"
                      THEN fs_find(p) ELSE told[File(p)]
=============================================================================
