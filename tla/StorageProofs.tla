---------------------------- MODULE StorageProofs ----------------------------
(***************************************************************************)
(* Theorems about the file system switch (Vfs) and the package manager     *)
(* (Packages), for every set of paths, every way of shortening names and   *)
(* every catalog.                                                          *)
(***************************************************************************)
EXTENDS Vfs, Packages, WellFoundedInduction, NaturalsInduction, TLAPS

\* A set of places of the catalog that is not empty has a first one.
LEMMA LeastPlace ==
    ASSUME NEW T \in SUBSET Nat, T # {}
    PROVE  \E x \in T : \A y \in T : x <= y
<1> DEFINE R == OpToRel(<, Nat)
<1>1. IsWellFoundedOn(R, Nat)
  BY ZenonT(40), NatLessThanWellFounded
<1>2. \A x, y \in Nat : <<y, x>> \in R <=> y < x
  BY DEF OpToRel
<1> HIDE DEF R
<1>3. PICK x \in T : \A y \in T : ~ (<<y, x>> \in R)
  BY ZenonT(40), <1>1, WFMin
<1>4. ASSUME NEW y \in T PROVE ~(y < x)
  <2>1. x \in Nat /\ y \in Nat
    OBVIOUS
  <2>2. <<y, x>> \in R <=> y < x
    BY <1>2, <2>1, Zenon
  <2> QED
    BY <1>3, <2>2, Zenon
<1> QED
  BY <1>4

-----------------------------------------------------------------------------
(* The file system switch                                                  *)

\* What is ever read or written.
Value == Texts \cup {NoFile, Empty, PackedText}
Keys == {Key(n) : n \in Names}
Native == {p \in VfsPaths : native_path(p)}
StoreType == [tmp : [Names -> Value], fat : [Keys -> Value], ext : [Native -> Value]]
FileNames == {File(p) : p \in VfsPaths}

\* What the store that a path leads to holds under it.
Held(s, p) ==
    IF p[1] = "/tmp/" THEN s.tmp[p[2]]
    ELSE IF fat_path(p) THEN s.fat[Key(p[2])]
    ELSE IF native_path(p) THEN s.ext[p] ELSE NoFile

\* The record t of what callers were told is true of the stores s, mounted or not.
Agree(s, t) ==
    /\ s \in StoreType
    /\ t \in [FileNames -> Value]
    /\ \A p \in VfsPaths : t[File(p)] = Held(s, p)

\* What a call on p to leave c promises: no other file changes, success means that p holds c,
\* and where failure is not looked into (tmpfs, the initramfs) it changes nothing.
CallSound(s, p, c, o) ==
    /\ o.stores \in StoreType
    /\ \A q \in VfsPaths : File(q) # File(p) => Held(o.stores, q) = Held(s, q)
    /\ o.ok => Held(o.stores, p) = c
    /\ ~o.ok /\ ~fat_path(p) /\ ~native_path(p) => Held(o.stores, p) = Held(s, p)

\* A path is a place and a name, and its parts are where the stores have them.
LEMMA PathParts ==
    ASSUME NEW p \in VfsPaths
    PROVE  /\ p = <<p[1], p[2]>> /\ p[1] \in Places /\ p[2] \in Names /\ Key(p[2]) \in Keys
           /\ native_path(p) => p \in Native
           /\ File(p) \in FileNames
  BY VfsAssumption DEF Names, Keys, Native, FileNames

\* Two paths that stand for one file read the same, two that do not are kept apart.
LEMMA OneFile ==
    ASSUME NEW p \in VfsPaths, NEW q \in VfsPaths
    PROVE  /\ File(p) = File(q) => \A s : Held(s, p) = Held(s, q)
           /\ File(p) # File(q) /\ p[1] = "/tmp/" /\ q[1] = "/tmp/" => p[2] # q[2]
           /\ File(p) # File(q) /\ fat_path(p) /\ fat_path(q) => Key(p[2]) # Key(q[2])
           /\ File(p) # File(q) /\ ~fat_path(p) => p # q
<1>1. p = <<p[1], p[2]>> /\ p[1] \in Places /\ q = <<q[1], q[2]>> /\ q[1] \in Places
  BY PathParts
<1>2. ASSUME File(p) = File(q), NEW s PROVE Held(s, p) = Held(s, q)
  <2>1. CASE fat_path(p)
    <3>1. fat_path(q)
      BY <1>1, <1>2, <2>1 DEF File, fat_path, Places
    <3>2. Key(p[2]) = Key(q[2])
      BY <1>2, <2>1, <3>1 DEF File
    <3> QED
      BY <2>1, <3>1, <3>2 DEF Held, fat_path
  <2>2. CASE ~fat_path(p)
    <3>1. ~fat_path(q)
      BY <1>1, <1>2, <2>2 DEF File, fat_path, Places
    <3>2. p = q
      BY <1>2, <2>2, <3>1 DEF File
    <3> QED
      BY <3>2
  <2> QED
    BY <2>1, <2>2
<1> QED
  BY <1>1, <1>2 DEF File, fat_path

\* tmpfs_store, disk_store, varfs_store and the refusals, behind vfs_write.
LEMMA WriteSound ==
    ASSUME NEW s \in StoreType, NEW p \in VfsPaths, NEW c \in Value, NEW o \in vfs_write(s, p, c)
    PROVE  CallSound(s, p, c, o)
<1>0. p[1] \in Places /\ p[2] \in Names /\ Key(p[2]) \in Keys /\ (native_path(p) => p \in Native)
  BY PathParts
<1>1. ASSUME o \in Refused(s) PROVE CallSound(s, p, c, o)
  BY <1>1 DEF Refused, Outcome, CallSound
<1>2. CASE p[1] = "/tmp/"
  <2>1. CASE o \in Refused(s)
    BY <1>1, <2>1
  <2>2. CASE o = Outcome([s EXCEPT !.tmp[p[2]] = c], TRUE)
    <3> DEFINE z == [s EXCEPT !.tmp[p[2]] = c]
    <3>1. o.stores = z /\ o.ok
      BY <2>2 DEF Outcome
    <3>2. z \in StoreType /\ z.fat = s.fat /\ z.ext = s.ext /\ z.tmp = [s.tmp EXCEPT ![p[2]] = c]
      BY DEF StoreType
    <3>3. Held(z, p) = c
      BY <1>0, <1>2, <3>2 DEF Held, StoreType
    <3>4. ASSUME NEW q \in VfsPaths, File(q) # File(p) PROVE Held(z, q) = Held(s, q)
      <4>1. q[1] = "/tmp/" => q[2] # p[2] /\ q[2] \in Names
        BY <1>2, <3>4, OneFile, PathParts
      <4> QED
        BY <3>2, <4>1 DEF Held, StoreType
    <3> QED
      BY <1>2, <3>1, <3>2, <3>3, <3>4 DEF CallSound
  <2> QED
    BY ZenonT(40), <1>2, <2>1, <2>2 DEF vfs_write, tmpfs_store
<1>3. CASE fat_path(p)
  <2>1. CASE o \in Refused(s)
    BY <1>1, <2>1
  <2>2. ASSUME NEW v \in Value, NEW ok \in BOOLEAN, ok => v = c,
               o = Outcome([s EXCEPT !.fat[Key(p[2])] = v], ok)
        PROVE  CallSound(s, p, c, o)
    <3> DEFINE z == [s EXCEPT !.fat[Key(p[2])] = v]
    <3>1. o.stores = z /\ o.ok = ok
      BY <2>2 DEF Outcome
    <3>2. z \in StoreType /\ z.tmp = s.tmp /\ z.ext = s.ext /\ z.fat = [s.fat EXCEPT ![Key(p[2])] = v]
      BY DEF StoreType
    <3>3. Held(z, p) = v
      BY <1>0, <1>3, <3>2 DEF Held, StoreType, fat_path
    <3>4. ASSUME NEW q \in VfsPaths, File(q) # File(p) PROVE Held(z, q) = Held(s, q)
      <4>1. fat_path(q) => Key(q[2]) # Key(p[2]) /\ Key(q[2]) \in Keys
        BY <1>3, <3>4, OneFile, PathParts
      <4> QED
        BY <3>2, <4>1 DEF Held, StoreType
    <3> QED
      BY <1>3, <2>2, <3>1, <3>2, <3>3, <3>4 DEF CallSound
  <2>3. \/ o \in Refused(s) \/ o = Outcome([s EXCEPT !.fat[Key(p[2])] = c], TRUE)
        \/ o = Outcome([s EXCEPT !.fat[Key(p[2])] = Empty], FALSE)
    BY ZenonT(40), <1>3 DEF vfs_write, disk_store, Refused, fat_path, native_path
  <2>4. Empty \in Value
    BY DEF Value
  <2> QED
    BY ZenonT(40), <2>1, <2>2, <2>3, <2>4
<1>4. CASE native_path(p)
  <2>1. CASE o \in Refused(s)
    BY <1>1, <2>1
  <2>2. ASSUME NEW ok \in BOOLEAN, o = Outcome([s EXCEPT !.ext[p] = c], ok)
        PROVE  CallSound(s, p, c, o)
    <3> DEFINE z == [s EXCEPT !.ext[p] = c]
    <3>1. o.stores = z /\ o.ok = ok
      BY <2>2 DEF Outcome
    <3>2. z \in StoreType /\ z.tmp = s.tmp /\ z.fat = s.fat /\ z.ext = [s.ext EXCEPT ![p] = c]
      BY DEF StoreType
    <3>3. Held(z, p) = c
      BY <1>0, <1>4, <3>2 DEF Held, StoreType, native_path, fat_path
    <3>4. ASSUME NEW q \in VfsPaths, File(q) # File(p) PROVE Held(z, q) = Held(s, q)
      <4>1. q # p /\ (native_path(q) => q \in Native)
        BY <3>4, PathParts
      <4> QED
        BY <3>2, <4>1 DEF Held, StoreType
    <3> QED
      BY <1>4, <2>2, <3>1, <3>2, <3>3, <3>4 DEF CallSound
  <2>3. \/ o \in Refused(s) \/ \E ok \in BOOLEAN : o = Outcome([s EXCEPT !.ext[p] = c], ok)
    BY <1>4 DEF vfs_write, varfs_store, fat_path, native_path
  <2> QED
    BY <2>1, <2>2, <2>3
<1>5. CASE p[1] = "/etc/"
  <2>1. o \in Refused(s)
    BY <1>5 DEF vfs_write, fat_path, native_path
  <2> QED
    BY <1>1, <2>1
<1> QED
  BY <1>0, <1>2, <1>3, <1>4, <1>5 DEF Places, fat_path, native_path

\* vfs_remove, which leaves nothing.
LEMMA RemoveSound ==
    ASSUME NEW s \in StoreType, NEW p \in VfsPaths, NEW o \in vfs_remove(s, p)
    PROVE  CallSound(s, p, NoFile, o)
<1>0. p[1] \in Places /\ p[2] \in Names /\ Key(p[2]) \in Keys /\ (native_path(p) => p \in Native)
  BY PathParts
<1>n. NoFile \in Value
  BY DEF Value
<1>1. ASSUME o \in Refused(s) PROVE CallSound(s, p, NoFile, o)
  BY <1>1 DEF Refused, Outcome, CallSound
<1>2. CASE p[1] = "/tmp/"
  <2> DEFINE z == [s EXCEPT !.tmp[p[2]] = NoFile]
             ok == s.tmp[p[2]] # NoFile
  <2>0. o = Outcome(z, ok)
    BY <1>2 DEF vfs_remove
  <2>1. o.stores = z /\ (o.ok <=> ok)
    <3> HIDE DEF z, ok
    <3>1. o.stores = z
      BY <2>0 DEF Outcome
    <3>2. o.ok = ok
      BY <2>0, Zenon DEF Outcome
    <3> QED
      BY <3>1, <3>2, Zenon
  <2>2. z \in StoreType /\ z.fat = s.fat /\ z.ext = s.ext /\ z.tmp = [s.tmp EXCEPT ![p[2]] = NoFile]
    BY <1>n DEF StoreType
  <2>3. Held(z, p) = NoFile /\ (~ok => Held(s, p) = NoFile)
    BY <1>0, <1>2, <2>2 DEF Held, StoreType
  <2>4. ASSUME NEW q \in VfsPaths, File(q) # File(p) PROVE Held(z, q) = Held(s, q)
    <3>1. q[1] = "/tmp/" => q[2] # p[2] /\ q[2] \in Names
      BY <1>2, <2>4, OneFile, PathParts
    <3> QED
      BY <2>2, <3>1 DEF Held, StoreType
  <2> QED
    BY <2>1, <2>2, <2>3, <2>4 DEF CallSound
<1>3. CASE fat_path(p)
  <2>1. CASE o \in Refused(s)
    BY <1>1, <2>1
  <2>2. CASE o = Outcome([s EXCEPT !.fat[Key(p[2])] = NoFile], TRUE)
    <3> DEFINE z == [s EXCEPT !.fat[Key(p[2])] = NoFile]
    <3>1. o.stores = z /\ o.ok
      BY <2>2 DEF Outcome
    <3>2. z \in StoreType /\ z.tmp = s.tmp /\ z.ext = s.ext /\ z.fat = [s.fat EXCEPT ![Key(p[2])] = NoFile]
      BY <1>n DEF StoreType
    <3>3. Held(z, p) = NoFile
      BY <1>0, <1>3, <3>2 DEF Held, StoreType, fat_path
    <3>4. ASSUME NEW q \in VfsPaths, File(q) # File(p) PROVE Held(z, q) = Held(s, q)
      <4>1. fat_path(q) => Key(q[2]) # Key(p[2]) /\ Key(q[2]) \in Keys
        BY <1>3, <3>4, OneFile, PathParts
      <4> QED
        BY <3>2, <4>1 DEF Held, StoreType
    <3> QED
      BY <3>1, <3>2, <3>3, <3>4 DEF CallSound
  <2> QED
    BY ZenonT(40), <1>3, <2>1, <2>2 DEF vfs_remove, fat_path
<1>4. CASE native_path(p)
  <2>1. CASE o \in Refused(s)
    BY <1>1, <2>1
  <2>2. CASE o = Outcome([s EXCEPT !.ext[p] = NoFile], TRUE)
    <3> DEFINE z == [s EXCEPT !.ext[p] = NoFile]
    <3>1. o.stores = z /\ o.ok
      BY <2>2 DEF Outcome
    <3>2. z \in StoreType /\ z.tmp = s.tmp /\ z.fat = s.fat /\ z.ext = [s.ext EXCEPT ![p] = NoFile]
      BY <1>n DEF StoreType
    <3>3. Held(z, p) = NoFile
      BY <1>0, <1>4, <3>2 DEF Held, StoreType, native_path, fat_path
    <3>4. ASSUME NEW q \in VfsPaths, File(q) # File(p) PROVE Held(z, q) = Held(s, q)
      <4>1. q # p /\ (native_path(q) => q \in Native)
        BY <3>4, PathParts
      <4> QED
        BY <3>2, <4>1 DEF Held, StoreType
    <3> QED
      BY <3>1, <3>2, <3>3, <3>4 DEF CallSound
  <2> QED
    BY ZenonT(40), <1>4, <2>1, <2>2 DEF vfs_remove, fat_path, native_path
<1>5. CASE p[1] = "/etc/"
  <2>1. o \in Refused(s)
    BY <1>5 DEF vfs_remove, fat_path, native_path
  <2> QED
    BY <1>1, <2>1
<1> QED
  BY <1>0, <1>2, <1>3, <1>4, <1>5 DEF Places, fat_path, native_path

\* A call that keeps its promise keeps the record true.
LEMMA ToldSound ==
    ASSUME NEW s, NEW t, NEW p \in VfsPaths, NEW c \in Value, NEW o,
           Agree(s, t), CallSound(s, p, c, o)
    PROVE  Agree(o.stores, Told(t, p, c, o))
<1> DEFINE u == Told(t, p, c, o)
           z == o.stores
<1>0. z \in StoreType /\ t \in [FileNames -> Value] /\ File(p) \in FileNames
  BY PathParts DEF Agree, CallSound
<1>1. u = [t EXCEPT ![File(p)] = u[File(p)]] /\ u \in [FileNames -> Value] /\ u[File(p)] = Held(z, p)
  <2>0. p[1] \in Places /\ p[2] \in Names /\ Key(p[2]) \in Keys /\ (native_path(p) => p \in Native)
    BY PathParts
  <2>1. CASE o.ok
    <3>1. u = [t EXCEPT ![File(p)] = c] /\ Held(z, p) = c
      BY <2>1 DEF Told, CallSound
    <3> QED
      BY <1>0, <3>1
  <2>2. CASE ~o.ok /\ fat_path(p)
    <3>1. u = [t EXCEPT ![File(p)] = z.fat[Key(p[2])]] /\ Held(z, p) = z.fat[Key(p[2])]
      BY <2>2 DEF Told, Held, fat_path
    <3>2. z.fat[Key(p[2])] \in Value
      BY <1>0, <2>0 DEF StoreType
    <3> QED
      BY <1>0, <3>1, <3>2
  <2>3. CASE ~o.ok /\ native_path(p)
    <3>1. u = [t EXCEPT ![File(p)] = z.ext[p]] /\ Held(z, p) = z.ext[p]
      BY ZenonT(40), <2>3 DEF Told, Held, fat_path, native_path
    <3>2. z.ext[p] \in Value
      BY <1>0, <2>0, <2>3 DEF StoreType
    <3> QED
      BY <1>0, <3>1, <3>2
  <2>4. CASE ~o.ok /\ ~fat_path(p) /\ ~native_path(p)
    <3>1. u = [t EXCEPT ![File(p)] = t[File(p)]] /\ Held(z, p) = Held(s, p)
      BY <2>4 DEF Told, CallSound
    <3>2. t[File(p)] = Held(s, p) /\ t[File(p)] \in Value
      BY <1>0 DEF Agree
    <3> QED
      BY <1>0, <3>1, <3>2
  <2> QED
    BY <2>1, <2>2, <2>3, <2>4
<1> HIDE DEF u, z
<1>2. ASSUME NEW q \in VfsPaths PROVE u[File(q)] = Held(z, q)
  <2>1. CASE File(q) = File(p)
    BY <1>1, <2>1, OneFile
  <2>2. CASE File(q) # File(p)
    <3>1. Held(z, q) = Held(s, q) /\ t[File(q)] = Held(s, q) /\ File(q) \in FileNames
      BY <2>2, PathParts DEF Agree, CallSound, z
    <3> QED
      BY <1>0, <1>1, <2>2, <3>1
  <2> QED
    BY <2>1, <2>2
<1>3. Agree(z, u)
  BY <1>0, <1>1, <1>2 DEF Agree
<1> QED
  BY <1>3 DEF u, z

VfsInv == Agree(Stores, told)

\* Reading gives a value, and with the volume mounted it is what the store holds.
LEMMA ReadType ==
    ASSUME VfsInv, NEW p \in VfsPaths
    PROVE  vfs_read(p) \in Value
<1>1. p[1] \in Places /\ p[2] \in Names /\ Key(p[2]) \in Keys /\ (native_path(p) => p \in Native)
  BY PathParts
<1>2. tmp \in [Names -> Value] /\ fat \in [Keys -> Value] /\ ext \in [Native -> Value]
  BY DEF VfsInv, Agree, Stores, StoreType
<1>3. fs_find(p) \in Value /\ NoFile \in Value
  BY DEF fs_find, Value
<1> QED
  BY <1>1, <1>2, <1>3 DEF vfs_read

\* The empty stores of the first boot agree with an empty record.
LEMMA VfsInvInit ==
    ASSUME VfsInit
    PROVE  VfsInv
<1>1. Stores.tmp = [n \in Names |-> NoFile] /\ Stores.fat = [k \in Keys |-> NoFile]
      /\ Stores.ext = [p \in Native |-> NoFile] /\ told = [f \in FileNames |-> NoFile]
  BY DEF VfsInit, Stores, Keys, Native, FileNames
<1>2. Stores \in StoreType /\ told \in [FileNames -> Value]
  BY <1>1 DEF VfsInit, Stores, StoreType, Value, Keys, Native
<1>3. ASSUME NEW p \in VfsPaths PROVE told[File(p)] = Held(Stores, p)
  BY <1>1, PathParts DEF Held
<1> QED
  BY <1>2, <1>3 DEF VfsInv, Agree

\* Writing, removing, copying, moving, mounting and rebooting keep the record true.
LEMMA VfsInvStep ==
    ASSUME VfsInv, [VfsNext]_vfs
    PROVE  VfsInv'
<1>0. Stores \in StoreType /\ NoFile \in Value
  BY DEF VfsInv, Agree, Value
<1>1. ASSUME NEW o, NEW t, After(o, t), Agree(o.stores, t) PROVE VfsInv'
  <2>1. o.stores = [tmp |-> o.stores.tmp, fat |-> o.stores.fat, ext |-> o.stores.ext]
    BY <1>1 DEF Agree, StoreType
  <2>2. Stores' = o.stores /\ told' = t
    BY <1>1, <2>1 DEF After, Stores
  <2> QED
    BY <1>1, <2>2 DEF VfsInv
<1>2. ASSUME NEW p \in VfsPaths, NEW c \in Value, NEW o \in vfs_write(Stores, p, c)
      PROVE  Agree(o.stores, Told(told, p, c, o))
  BY <1>0, <1>2, WriteSound, ToldSound DEF VfsInv
<1>3. ASSUME NEW p \in VfsPaths, NEW c \in Texts, Write(p, c) PROVE VfsInv'
  <2>1. c \in Value
    BY DEF Value
  <2>2. PICK o \in vfs_write(Stores, p, c) : After(o, Told(told, p, c, o))
    BY <1>3 DEF Write
  <2> QED
    BY <1>1, <1>2, <2>1, <2>2
<1>4. ASSUME NEW p \in VfsPaths, c_rm(p) PROVE VfsInv'
  <2>1. PICK o \in vfs_remove(Stores, p) : After(o, Told(told, p, NoFile, o))
    BY <1>4 DEF c_rm
  <2>2. CallSound(Stores, p, NoFile, o)
    BY <1>0, RemoveSound
  <2>3. Agree(o.stores, Told(told, p, NoFile, o))
    BY <1>0, <2>2, ToldSound DEF VfsInv
  <2> QED
    BY <1>1, <2>1, <2>3
<1>5. ASSUME NEW x \in VfsPaths, NEW y \in VfsPaths, c_cp(x, y) PROVE VfsInv'
  <2>1. vfs_read(x) \in Value
    BY ReadType
  <2>2. PICK o \in vfs_write(Stores, y, vfs_read(x)) : After(o, Told(told, y, vfs_read(x), o))
    BY <1>5 DEF c_cp
  <2> QED
    BY <1>1, <1>2, <2>1, <2>2
<1>6. ASSUME NEW x \in VfsPaths, NEW y \in VfsPaths, c_mv(x, y) PROVE VfsInv'
  <2>1. vfs_read(x) \in Value
    BY ReadType
  <2> DEFINE t(o) == Told(told, y, vfs_read(x), o)
  <2>2. PICK o \in vfs_write(Stores, y, vfs_read(x)) :
           IF ~o.ok THEN After(o, t(o))
           ELSE \E r \in vfs_remove(o.stores, x) : After(r, Told(t(o), x, NoFile, r))
    BY <1>6 DEF c_mv
  <2>3. Agree(o.stores, t(o))
    BY <1>2, <2>1
  <2> HIDE DEF t
  <2>4. CASE ~o.ok
    BY <1>1, <2>2, <2>3, <2>4
  <2>5. CASE o.ok
    <3>1. PICK r \in vfs_remove(o.stores, x) : After(r, Told(t(o), x, NoFile, r))
      BY <2>2, <2>5
    <3>2. CallSound(o.stores, x, NoFile, r)
      BY <2>3, RemoveSound DEF Agree
    <3>3. Agree(r.stores, Told(t(o), x, NoFile, r))
      BY <1>0, <2>3, <3>2, ToldSound
    <3> QED
      BY <1>1, <3>1, <3>3
  <2> QED
    BY <2>4, <2>5
<1>7. CASE c_mount \/ UNCHANGED vfs
  <2>1. Stores' = Stores /\ told' = told
    BY <1>7 DEF c_mount, vfs, Stores
  <2> QED
    BY <2>1 DEF VfsInv
<1>8. CASE Reboot
  <2>1. /\ Stores'.tmp = [n \in Names |-> NoFile] /\ Stores'.fat = fat /\ Stores'.ext = ext
        /\ Stores' = [tmp |-> Stores'.tmp, fat |-> fat, ext |-> ext]
        /\ Stores.tmp = tmp /\ Stores.fat = fat /\ Stores.ext = ext
    BY <1>8 DEF Reboot, Stores
  <2>2. told \in [FileNames -> Value]
        /\ told' = [f \in FileNames |-> IF f[1] = "/tmp/" THEN NoFile ELSE told[f]]
    BY <1>8 DEF Reboot, VfsInv, Agree
  <2>3. Stores' \in StoreType
    BY <1>0, <2>1 DEF StoreType
  <2>4. told' \in [FileNames -> Value]
    BY <1>0, <2>2
  <2>5. ASSUME NEW p \in VfsPaths PROVE told'[File(p)] = Held(Stores', p)
    <3>1. p[1] \in Places /\ p[2] \in Names /\ File(p) \in FileNames /\ p = <<p[1], p[2]>>
      BY PathParts
    <3>2. told[File(p)] = Held(Stores, p)
      BY DEF VfsInv, Agree
    <3>3. CASE p[1] = "/tmp/"
      BY <2>1, <2>2, <3>1, <3>3 DEF Held, File, fat_path
    <3>4. CASE p[1] # "/tmp/"
      <4>1. File(p)[1] # "/tmp/"
        BY <3>4 DEF File
      <4>2. told'[File(p)] = told[File(p)]
        BY <2>2, <3>1, <4>1
      <4> QED
        BY <2>1, <3>2, <3>4, <4>2 DEF Held
    <3> QED
      BY <3>3, <3>4
  <2> QED
    BY <2>3, <2>4, <2>5 DEF VfsInv, Agree
<1> QED
  BY <1>3, <1>4, <1>5, <1>6, <1>7, <1>8 DEF VfsNext

\* A record that is true says what a read gives when the volume is mounted.
LEMMA VfsInvSays ==
    ASSUME VfsInv
    PROVE  ReadsBack
<1>1. SUFFICES ASSUME NEW p \in VfsPaths, Volume(p) \subseteq mounted
               PROVE  vfs_read(p) = IF (told[File(p)] = NoFile /\ native_path(p)) \/ p[1] = "/etc/"
                                    THEN fs_find(p) ELSE told[File(p)]
  BY DEF ReadsBack
<1>2. told[File(p)] = Held(Stores, p) /\ p[1] \in Places
  BY PathParts DEF VfsInv, Agree
<1>3. Stores.tmp = tmp /\ Stores.fat = fat /\ Stores.ext = ext
  BY DEF Stores
<1> QED
  BY <1>1, <1>2, <1>3 DEF Held, vfs_read, Volume, fat_path, native_path, Places

\* Through whichever of its paths a file of OS64 is read, it reads as the last write, copy,
\* move or removal left it by what its caller was told, mounted volumes and reboots included.
THEOREM ReadsBackAlways == VfsSpec => []ReadsBack
<1>1. VfsInit => VfsInv
  BY VfsInvInit
<1>2. VfsInv /\ [VfsNext]_vfs => VfsInv'
  BY VfsInvStep
<1>3. VfsInv => ReadsBack
  BY VfsInvSays
<1> QED
  BY <1>1, <1>2, <1>3, PTL DEF VfsSpec

-----------------------------------------------------------------------------
(* The package manager                                                     *)

\* What is stored is right; the step package_install is at has its checks behind it; the
\* essential packages that are not stored are still to come; the last message is true.
AppsRight == apps \in [Catalog -> {"none", "right"}]
CommandSound ==
    /\ todo \in SUBSET (DOMAIN packages)
    /\ pc # "idle" => todo # {}
    /\ pc \in {"store", "chmod", "sync"} => body = "right"
    /\ pc \in {"chmod", "sync"} => apps[Current] = "right"
    /\ pc = "sync" => Current \in executable
EssentialsToCome ==
    pc # "idle" /\ many => \A n \in Essential : apps[n] = "right" \/ \E i \in todo : packages[i] = n
SaidTrue ==
    /\ said # <<>> /\ said[1] = "installed" => apps[said[2]] = "right" /\ said[2] \in executable
    /\ said = <<"ready">> => \A n \in Essential : apps[n] = "right"
PmInv == AppsRight /\ CommandSound /\ EssentialsToCome /\ SaidTrue

\* The first place still to come is one of them.
LEMMA FirstToCome ==
    ASSUME todo \in SUBSET (DOMAIN packages), todo # {}
    PROVE  First \in todo /\ Current \in Catalog
<1>1. DOMAIN packages \subseteq Nat
  BY PackagesAssumption
<1>2. todo \in SUBSET Nat
  BY <1>1
<1>3. \E x \in todo : \A y \in todo : x <= y
  BY <1>2, LeastPlace
<1>4. First \in todo
  BY <1>3 DEF First
<1> QED
  BY <1>4 DEF Current, Catalog

\* A command that ends with a failure says so and leaves nothing to come.
LEMMA FailSound ==
    ASSUME Fail
    PROVE  CommandSound' /\ EssentialsToCome' /\ SaidTrue'
  BY DEF Fail, CommandSound, EssentialsToCome, SaidTrue

\* A package that is done is stored, and executable if it was installed just now: what is said
\* of it is true, and so is what is said of the essential packages after the last of them.
LEMMA DoneSound ==
    ASSUME PmInv, pc # "idle", NEW result \in {"already", "installed"}, Done(result),
           UNCHANGED <<apps, executable, many>>,
           apps[Current] = "right", result = "installed" => Current \in executable
    PROVE  PmInv'
<1>0. First \in todo /\ Current \in Catalog /\ todo \in SUBSET (DOMAIN packages)
  BY FirstToCome DEF PmInv, CommandSound
<1>1. AppsRight'
  BY DEF PmInv, AppsRight
<1>2. CASE many /\ todo # {First}
  <2>1. pc' = "start" /\ todo' = todo \ {First} /\ said' = <<result, Current>>
    BY <1>2 DEF Done
  <2>2. CommandSound'
    BY <1>0, <1>2, <2>1 DEF CommandSound
  <2>3. EssentialsToCome'
    <3>1. SUFFICES ASSUME NEW n \in Essential
                   PROVE  apps[n] = "right" \/ \E i \in todo' : packages[i] = n
      BY DEF EssentialsToCome
    <3>2. apps[n] = "right" \/ \E i \in todo : packages[i] = n
      BY <1>2 DEF PmInv, EssentialsToCome
    <3> QED
      BY <2>1, <3>2 DEF Current
  <2>4. SaidTrue'
    BY <2>1 DEF SaidTrue
  <2> QED
    BY <1>1, <2>2, <2>3, <2>4 DEF PmInv
<1>3. CASE ~(many /\ todo # {First})
  <2>1. pc' = "idle" /\ todo' = {} /\ said' = IF many THEN <<"ready">> ELSE <<result, Current>>
    BY <1>3 DEF Done
  <2>2. CommandSound' /\ EssentialsToCome'
    BY <2>1 DEF CommandSound, EssentialsToCome
  <2>3. CASE many
    <3>1. todo = {First} /\ said' = <<"ready">>
      BY <1>3, <2>1, <2>3
    <3>2. ASSUME NEW n \in Essential PROVE apps[n] = "right"
      <4>1. apps[n] = "right" \/ \E i \in todo : packages[i] = n
        BY <2>3 DEF PmInv, EssentialsToCome
      <4> QED
        BY <3>1, <4>1 DEF Current
    <3> QED
      BY <1>1, <2>2, <3>1, <3>2 DEF PmInv, SaidTrue
  <2>4. CASE ~many
    <3>1. said' = <<result, Current>>
      BY <2>1, <2>4
    <3>2. SaidTrue'
      BY <3>1 DEF SaidTrue
    <3> QED
      BY <1>1, <2>2, <3>2 DEF PmInv
  <2> QED
    BY <2>3, <2>4
<1> QED
  BY <1>2, <1>3

\* An empty /var/apps, and no command.
LEMMA PmInvInit ==
    ASSUME PmInit
    PROVE  PmInv
  BY DEF PmInit, PmInv, AppsRight, CommandSound, EssentialsToCome, SaidTrue

\* Every step of an installation, every other command and a power failure keep it.
LEMMA PmInvStep ==
    ASSUME PmInv, [PmNext]_pm
    PROVE  PmInv'
<1>0. pc # "idle" => First \in todo /\ Current \in Catalog
  BY FirstToCome DEF PmInv, CommandSound
<1>1. CASE PmStart
  <2>1. pc = "start" /\ UNCHANGED <<var_mounted, apps, executable, many, body>>
    BY <1>1 DEF PmStart
  <2>2. CASE package_installed(Current)
    <3>1. Done("already") /\ apps[Current] # "none"
      BY <1>1, <2>2 DEF PmStart, package_installed
    <3>2. apps[Current] = "right"
      BY <1>0, <2>1, <3>1 DEF PmInv, AppsRight
    <3> QED
      BY <2>1, <3>1, <3>2, DoneSound
  <2>3. CASE ~package_installed(Current) /\ ~var_mounted
    <3>1. Fail
      BY <1>1, <2>3 DEF PmStart
    <3> QED
      BY <2>1, <3>1, FailSound DEF PmInv, AppsRight
  <2>4. CASE ~package_installed(Current) /\ var_mounted
    <3>1. pc' = "fetch" /\ UNCHANGED <<todo, said>>
      BY <1>1, <2>4 DEF PmStart
    <3> QED
      BY <2>1, <3>1 DEF PmInv, AppsRight, CommandSound, EssentialsToCome, SaidTrue
  <2> QED
    BY <2>2, <2>3, <2>4
<1>2. ASSUME NEW a \in Answers, package_fetch(a) PROVE PmInv'
  <2>1. pc = "fetch" /\ UNCHANGED <<var_mounted, apps, executable, many>>
    BY <1>2 DEF package_fetch
  <2>2. CASE Fail
    BY <2>1, <2>2, FailSound DEF PmInv, AppsRight
  <2>3. CASE pc' \in {"fetch", "verify"} /\ UNCHANGED <<todo, said>>
    BY <2>1, <2>3 DEF PmInv, AppsRight, CommandSound, EssentialsToCome, SaidTrue
  <2> QED
    BY <1>2, <2>1, <2>2, <2>3 DEF package_fetch
<1>3. CASE Verify
  <2>1. pc = "verify" /\ UNCHANGED <<var_mounted, apps, executable, many, mirror, body>>
    BY <1>3 DEF Verify
  <2>2. CASE Fail
    BY <2>1, <2>2, FailSound DEF PmInv, AppsRight
  <2>3. CASE body = "right" /\ pc' = "store" /\ UNCHANGED <<todo, said>>
    BY <2>1, <2>3 DEF PmInv, AppsRight, CommandSound, EssentialsToCome, SaidTrue
  <2> QED
    BY <1>3, <2>2, <2>3 DEF Verify, package_hash_valid
<1>4. CASE StoreApp
  <2>1. pc = "store" /\ body = "right" /\ UNCHANGED <<var_mounted, executable, many, mirror, body>>
    BY <1>4 DEF StoreApp, PmInv, CommandSound
  <2>2. AppsRight'
    BY <1>0, <1>4, <2>1 DEF StoreApp, PmInv, AppsRight
  <2>3. CASE Fail
    BY <2>2, <2>3, FailSound DEF PmInv
  <2>4. CASE apps' = [apps EXCEPT ![Current] = body] /\ pc' = "chmod" /\ UNCHANGED <<todo, said>>
    <3>1. Current' = Current
      BY <2>4 DEF Current, First
    <3>2. \A n \in Catalog : apps[n] = "right" => apps'[n] = "right"
      BY <2>1, <2>4 DEF PmInv, AppsRight
    <3>3. apps'[Current] = "right"
      BY <1>0, <2>1, <2>4 DEF PmInv, AppsRight
    <3>4. CommandSound'
      BY <2>1, <2>4, <3>1, <3>3 DEF PmInv, CommandSound
    <3>5. EssentialsToCome'
      BY <2>1, <2>4, <3>2, PackagesAssumption DEF PmInv, EssentialsToCome
    <3>6. SaidTrue'
      <4>1. \A n : apps[n] = "right" => apps'[n] = "right"
        BY <1>0, <2>1, <2>4 DEF PmInv, AppsRight
      <4> QED
        BY <2>1, <2>4, <4>1 DEF PmInv, SaidTrue
    <3> QED
      BY <2>2, <3>4, <3>5, <3>6 DEF PmInv
  <2> QED
    BY <1>4, <2>3, <2>4 DEF StoreApp
<1>5. CASE varfs_chmod
  <2>1. pc = "chmod" /\ UNCHANGED <<var_mounted, apps, many, mirror, body>>
    BY <1>5 DEF varfs_chmod
  <2>2. CASE Fail
    BY <2>1, <2>2, FailSound DEF PmInv, AppsRight
  <2>3. CASE executable' = executable \cup {Current} /\ pc' = "sync" /\ UNCHANGED <<todo, said>>
    <3>1. Current' = Current
      BY <2>3 DEF Current, First
    <3> QED
      BY <2>1, <2>3, <3>1 DEF PmInv, AppsRight, CommandSound, EssentialsToCome, SaidTrue
  <2> QED
    BY <1>5, <2>2, <2>3 DEF varfs_chmod
<1>6. CASE varfs_sync
  <2>1. pc = "sync" /\ UNCHANGED <<var_mounted, apps, executable, many, mirror, body>>
    BY <1>6 DEF varfs_sync
  <2>2. CASE Fail
    BY <2>1, <2>2, FailSound DEF PmInv, AppsRight
  <2>3. CASE Done("installed")
    <3>1. apps[Current] = "right" /\ Current \in executable
      BY <2>1 DEF PmInv, CommandSound
    <3> QED
      BY <2>1, <2>3, <3>1, DoneSound
  <2> QED
    BY <1>6, <2>2, <2>3 DEF varfs_sync
<1>7. ASSUME NEW i \in DOMAIN packages, Install(i) PROVE PmInv'
  BY <1>7 DEF Install, PmInv, AppsRight, CommandSound, EssentialsToCome, SaidTrue
<1>8. ASSUME NEW n \in Catalog, Uninstall(n) PROVE PmInv'
  <2>1. pc = "idle" /\ UNCHANGED <<pc, todo, many, body>>
    BY <1>8 DEF Uninstall
  <2>2. AppsRight' /\ said' \in {<<"removed", n>>, <<"failed", n>>, <<"absent", n>>}
    BY <1>8 DEF Uninstall, PmInv, AppsRight
  <2> QED
    BY <2>1, <2>2 DEF PmInv, CommandSound, EssentialsToCome, SaidTrue
<1>9. CASE InstallEssentials
  <2>1. pc = "idle" /\ UNCHANGED <<apps, executable, body>>
    BY <1>9 DEF InstallEssentials
  <2>2. CASE pc' = "start" /\ todo' = {i \in DOMAIN packages : packages[i] \in Essential} /\ said' = <<>>
    <3>1. \A n \in Essential : \E i \in todo' : packages[i] = n
      BY <2>2, PackagesAssumption DEF Catalog
    <3>2. todo' # {} /\ todo' \in SUBSET (DOMAIN packages)
      BY <2>2, <3>1, PackagesAssumption
    <3> QED
      BY <2>1, <2>2, <3>1, <3>2 DEF PmInv, AppsRight, CommandSound, EssentialsToCome, SaidTrue
  <2>3. CASE said' = <<"unmounted">> /\ UNCHANGED <<pc, todo>>
    BY <2>1, <2>3 DEF PmInv, AppsRight, CommandSound, EssentialsToCome, SaidTrue
  <2> QED
    BY <1>9, <2>2, <2>3 DEF InstallEssentials
<1>10. CASE Power
  BY <1>10 DEF Power, PmInv, AppsRight, CommandSound, EssentialsToCome, SaidTrue
<1>11. CASE UNCHANGED pm
  <2>1. Current' = Current
    BY <1>11 DEF pm, Current, First
  <2> QED
    BY <1>11, <2>1 DEF pm, PmInv, AppsRight, CommandSound, EssentialsToCome, SaidTrue
<1> QED
  BY <1>1, <1>2, <1>3, <1>4, <1>5, <1>6, <1>7, <1>8, <1>9, <1>10, <1>11 DEF PmNext

\* Whatever the mirrors of pm answer, whichever call of package_install fails and whenever the
\* power does, a package's name never stands for another payload than the catalog's, and what
\* pm says is installed, or ready, is: for every catalog and number of mirrors.
THEOREM PackagesVerifiedAlways == PmSpec => []PackagesVerified
<1>1. PmInit => PmInv
  BY PmInvInit
<1>2. PmInv /\ [PmNext]_pm => PmInv'
  BY PmInvStep
<1>3. PmInv => PackagesVerified
  BY DEF PmInv, AppsRight, SaidTrue, PackagesVerified
<1> QED
  BY <1>1, <1>2, <1>3, PTL DEF PmSpec
=============================================================================
