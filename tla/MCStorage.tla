----------------------------- MODULE MCStorage ------------------------------
(***************************************************************************)
(* What OS64 keeps on its disk: the FAT volume of /home, the ext2 volume   *)
(* of /var, the files and the packages on top of them.  One of the parts   *)
(* runs, the others rest.                                                  *)
(*   home      two clusters that two files and a directory overflow, two   *)
(*             contents of one cluster with different lengths and one of   *)
(*             two, one power failure                                      *)
(*   ext2      three blocks and three inodes, a content that needs the     *)
(*             indirect block, a path below another, one power failure     *)
(*   vfs       pairs of paths that share an 8.3 name or a file, one slot   *)
(*             of tmpfs                                                    *)
(*   pm        three packages, two of them essential, two repositories     *)
(***************************************************************************)
EXTENDS Ext2, Vfs, Packages

VARIABLES
    part,
    fat_disk, next_cluster, free_clusters, fat_holds, torn, fat_crashes

home == <<fat_disk, next_cluster, free_clusters, fat_holds, torn, fat_crashes>>

BlockCount(v) == CASE v = "e" -> 0 [] v = "x" -> 1 [] v = "L" -> 2

VarPaths == {<<"a">>, <<"a", "b">>, <<"c">>}

H == INSTANCE HomeFat WITH
       Limit <- 5, Slots <- 2, Files <- {<<"a">>, <<"d", "a">>}, Dirs <- {<<"d">>},
       Cluster <- 2, Small <- {<<"x", 1>>, <<"y", 2>>}, Large <- {<<"L", 3>>}, MaxCrashes <- 1,
       disk <- fat_disk, holds <- fat_holds, crashes <- fat_crashes

ShortName(n) == IF n \in {"readme-old", "readme-older"} THEN "README-O" ELSE "B"
SomePaths == {<<"/tmp/", "readme-old">>, <<"/tmp/", "readme-older">>, <<"/home/", "readme-old">>,
              <<"/home/", "readme-older">>, <<"/mnt/os64/", "readme-old">>, <<"/mnt/", "b">>,
              <<"/var/", "b">>, <<"/etc/", "b">>}

SomeTexts == {[text |-> "u", size |-> 100], [text |-> "v", size |-> 600]}
PackedPaths == {<<"/etc/", "b">>, <<"/var/", "b">>}
ThreePackages == <<"a", "b", "c">>

\* A part that does not run rests in one of its initial states.
MCInit ==
    /\ part \in {"home", "ext2", "vfs", "pm"}
    /\ Init /\ H!Init
    /\ (part # "vfs" => mounted = {}) /\ VfsInit
    /\ (part # "pm" => var_mounted = FALSE) /\ PmInit

MCNext ==
    /\ UNCHANGED part
    /\ IF part = "home" THEN H!Next ELSE UNCHANGED home
    /\ IF part = "ext2" THEN Next ELSE UNCHANGED vars
    /\ IF part = "vfs" THEN VfsNext ELSE UNCHANGED vfs
    /\ IF part = "pm" THEN PmNext ELSE UNCHANGED pm

MCSpec == MCInit /\ [][MCNext]_<<part, vars, home, vfs, pm>>

-----------------------------------------------------------------------------
(* Properties                                                              *)

\* A file of /home reads back as what was last stored in it or, after a power failure, as what
\* the interrupted operation on it found or was to leave, or as the new bytes under the old
\* length; other files are untouched, unless an interrupted disk_remove freed their cluster.
ContentsKept == part = "home" => H!ContentsKept

\* Every free cluster of /home can still be allocated, those of an interrupted disk_remove
\* apart, and until the power fails the free count is right.
SpaceFound == part = "home" => H!SpaceFound
=============================================================================
