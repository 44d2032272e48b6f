----------------------------- MODULE Mini64Fat ------------------------------
(***************************************************************************)
(* The FAT32 writer of the Mini64 rescue system (mini64/kernel.c): the     *)
(* commands recover, install and bootmode as sequences of disk_store_large *)
(* and delete_root_file calls, one disk_write at a time.  The power may    *)
(* fail between two writes; the next session starts from what is on disk.  *)
(* A file is a number of clusters, and the content of a cluster is the     *)
(* part of the file it holds.  The device keeps every completed write.     *)
(***************************************************************************)
EXTENDS Integers, Sequences, FiniteSets

CONSTANTS
    Limit,          \* clusters 3 .. Limit-1 hold files; 2 is the root directory
    Slots,          \* entries of the root directory
    Size,           \* clusters of each file: [Names -> Nat \ {0}]
    Modes,          \* the modes bootmode is used with
    Installs,       \* whether install is used besides recover
    Hints,          \* what the FSInfo sector may say: the free-cluster hint
    MaxCrashes      \* bound on power failures

Names == DOMAIN Size

Flag == [desktop |-> "MODEDESK.FLG", cli |-> "MODECLI.FLG",
         debug |-> "MODEDBG.FLG", recovery |-> "MODERECV.FLG"]

Files == {"KERNEL.BIN", "INITRD.BIN", "MINI64.BIN", "GRUB.CFG", "BOOTMODE.CFG"}
         \cup {Flag[m] : m \in DOMAIN Flag}

ASSUME Mini64Assumption ==
    /\ Limit \in Nat /\ Limit > 3 /\ Slots \in Nat \ {0} /\ MaxCrashes \in Nat
    /\ Size \in [Names -> Nat \ {0}] /\ "" \notin Names
    /\ Files \subseteq Names
    /\ Modes \subseteq DOMAIN Flag \cup {"normal"}
    /\ Hints \subseteq 3..Limit

Clusters == 3..Limit - 1
Free == 0
EOC == Limit                       \* 0x0FFFFFFF, an end of chain
None == [name |-> "", first |-> 0] \* a directory entry that is 0 or 0xE5
Zeros == <<"", 0>>                 \* a cluster that was zeroed

VARIABLES
    fat, mirror,    \* the two copies of the FAT
    dir,            \* the root directory
    data,           \* what each cluster holds: <<name, number of the part>>
    fsinfo,         \* the hint in the FSInfo sector, which Mini64 never updates
    hint,           \* next_free_cluster
    crashes,
    op              \* the command in progress

disk == <<fat, mirror, dir, data, fsinfo>>
vars == <<disk, hint, crashes, op>>

-----------------------------------------------------------------------------
(* Chains                                                                  *)

\* The walk along a chain: where it stands after each step.
WalkIn(f, c) ==
    LET at[i \in 1..Limit] ==
          IF i = 1 THEN c
          ELSE LET prev == at[i - 1] IN IF prev \in Clusters THEN f[prev] ELSE prev
    IN  at

Walk(c) == WalkIn(fat, c)
ChainIn(f, c) == {WalkIn(f, c)[i] : i \in 1..Limit} \cap Clusters
Chain(c) == ChainIn(fat, c)

Live == {s \in 1..Slots : dir[s] # None}

Find(f) == {s \in Live : dir[s].name = f}

\* Reading the file of slot s gives the parts it was stored with.
Intact(s) ==
    LET at == Walk(dir[s].first)
        n  == Size[dir[s].name]
    IN  /\ \A i \in 1..n : at[i] \in Clusters /\ data[at[i]] = <<dir[s].name, i>>
        /\ at[n + 1] = EOC

Disjoint(s, t) == Chain(dir[s].first) \cap Chain(dir[t].first) = {}

\* Clusters in use that no directory entry leads to.
Lost == {c \in Clusters : fat[c] # Free} \ UNION {Chain(dir[s].first) : s \in Live}

-----------------------------------------------------------------------------
(* The commands                                                            *)

Idle == [cmd |-> "none", todo |-> <<>>, pc |-> "done", ok |-> FALSE, lost |-> {},
         slot |-> 0, cluster |-> 0, first |-> 0, tail |-> 0, written |-> 0]

Store(f) == <<"store", f>>
Delete(f) == <<"delete", f>>

\* Mutant: the old mode flags stay.
BootmodeStepsKeep(m) ==
    <<Store("BOOTMODE.CFG")>> \o (IF m = "normal" THEN <<>> ELSE <<Store(Flag[m])>>)

\* bootmode m: the policy file, then no flag, then the flag of the mode.
BootmodeSteps(m) ==
    <<Store("BOOTMODE.CFG"), Delete("MODEDESK.FLG"), Delete("MODECLI.FLG"),
      Delete("MODEDBG.FLG"), Delete("MODERECV.FLG")>>
    \o (IF m = "normal" THEN <<>> ELSE <<Store(Flag[m])>>)

Verified == [recover |-> {"KERNEL.BIN", "INITRD.BIN"},
             install |-> {"KERNEL.BIN", "INITRD.BIN", "MINI64.BIN", "GRUB.CFG"},
             bootmode |-> {}]

RecoverSteps == <<Store("KERNEL.BIN"), Store("INITRD.BIN")>>

InstallSteps == RecoverSteps \o <<Store("MINI64.BIN"), Store("GRUB.CFG")>>

Begin(c, steps) ==
    /\ op.pc = "done"
    /\ op' = [Idle EXCEPT !.cmd = c, !.todo = steps, !.pc = "next", !.ok = TRUE, !.lost = Lost]
    /\ UNCHANGED <<disk, hint, crashes>>

recover == Begin("recover", RecoverSteps)
install == Installs /\ Begin("install", InstallSteps)
bootmode(m) == Begin("bootmode", BootmodeSteps(m))

\* do_recover gives up at the first store that fails; bootmode goes on.
Failed(o) ==
    IF o.cmd = "bootmode" THEN [o EXCEPT !.todo = Tail(@), !.pc = "next"]
    ELSE [Idle EXCEPT !.cmd = o.cmd, !.lost = o.lost]

\* The first entry of the name is marked deleted; its clusters stay as they are.
delete_root_file(found) ==
    IF found = {} THEN dir ELSE [dir EXCEPT ![CHOOSE t \in found : \A u \in found : t <= u] = None]

\* The next call of the command, or its end.  do_recover looks for the files
\* it has written before it reports success.
NextCall ==
    /\ op.pc = "next"
    /\ LET call == Head(op.todo)
           found == Find(call[2])
           s == CHOOSE t \in found : \A u \in found : t <= u
       IN  \/ /\ op.todo = <<>>
              /\ op' = [Idle EXCEPT !.cmd = op.cmd, !.lost = op.lost,
                                    !.ok = \A f \in Verified[op.cmd] : Find(f) # {}]
              /\ dir' = dir
           \/ /\ op.todo # <<>> /\ call[1] = "store"
              /\ op' = IF found = {} THEN [op EXCEPT !.pc = "scan"]
                       ELSE [op EXCEPT !.pc = "free", !.slot = s, !.cluster = dir[s].first]
              /\ dir' = dir
           \/ /\ op.todo # <<>> /\ call[1] = "delete"
              /\ op' = [op EXCEPT !.todo = Tail(@)]
              /\ dir' = delete_root_file(found)
    /\ UNCHANGED <<fat, mirror, data, fsinfo, hint, crashes>>

-----------------------------------------------------------------------------
(* disk_store_large                                                        *)

\* allocate_cluster looks from the hint on and then from the start.
Candidates ==
    LET ahead == {c \in Clusters : fat[c] = Free /\ (hint \notin Clusters \/ c >= hint)}
    IN  IF ahead # {} THEN ahead ELSE {c \in Clusters : fat[c] = Free}

Allocated == CHOOSE c \in Candidates : \A d \in Candidates : c <= d

\* Mutant: the FAT entry is set in the first copy only.
FatSetOne(c, v) == fat' = [fat EXCEPT ![c] = v] /\ mirror' = mirror

FatSet(c, v) == fat' = [fat EXCEPT ![c] = v] /\ mirror' = [mirror EXCEPT ![c] = v]

\* Mutant: only the first cluster of the old file is freed.
FreeFirst ==
    /\ op.pc = "free"
    /\ FatSet(op.cluster, Free)
    /\ op' = [op EXCEPT !.pc = "erase"]
    /\ UNCHANGED <<dir, data, fsinfo, hint, crashes>>

\* One turn of the loop that frees the old chain.
FreeStep ==
    /\ op.pc = "free"
    /\ FatSet(op.cluster, Free)
    /\ op' = IF fat[op.cluster] \in Clusters THEN [op EXCEPT !.cluster = fat[op.cluster]]
             ELSE [op EXCEPT !.pc = "erase"]
    /\ UNCHANGED <<dir, data, fsinfo, hint, crashes>>

\* Mutant: the old entry stays.
EraseKeep ==
    /\ op.pc = "erase"
    /\ op' = [op EXCEPT !.pc = "scan"]
    /\ UNCHANGED <<disk, hint, crashes>>

EraseStep ==
    /\ op.pc = "erase"
    /\ dir' = [dir EXCEPT ![op.slot] = None]
    /\ op' = [op EXCEPT !.pc = "scan"]
    /\ UNCHANGED <<fat, mirror, data, fsinfo, hint, crashes>>

ScanStep ==
    /\ op.pc = "scan"
    /\ LET free == 1..Slots \ Live
       IN  op' = IF free = {} THEN Failed(op)
                 ELSE [op EXCEPT !.slot = CHOOSE s \in free : \A t \in free : s <= t,
                                 !.pc = "alloc", !.first = 0, !.tail = 0, !.written = 0]
    /\ UNCHANGED <<disk, hint, crashes>>

\* allocate_cluster marks the cluster, then zeroes it.
AllocStep ==
    /\ op.pc = "alloc"
    /\ IF Candidates = {} THEN op' = Failed(op) /\ UNCHANGED <<fat, mirror>>
       ELSE /\ FatSet(Allocated, EOC)
            /\ op' = [op EXCEPT !.pc = "zero", !.cluster = Allocated]
    /\ UNCHANGED <<dir, data, fsinfo, hint, crashes>>

ZeroStep ==
    /\ op.pc = "zero"
    /\ data' = [data EXCEPT ![op.cluster] = Zeros]
    /\ hint' = op.cluster + 1
    /\ op' = IF op.tail = 0
             THEN [op EXCEPT !.first = op.cluster, !.tail = op.cluster, !.pc = "write"]
             ELSE [op EXCEPT !.pc = "link"]
    /\ UNCHANGED <<fat, mirror, dir, fsinfo, crashes>>

LinkStep ==
    /\ op.pc = "link"
    /\ FatSet(op.tail, op.cluster)
    /\ op' = [op EXCEPT !.tail = op.cluster, !.pc = "write"]
    /\ UNCHANGED <<dir, data, fsinfo, hint, crashes>>

Current == Head(op.todo)[2]

\* Mutant: the last part of the file is not written.
WriteStepShort ==
    /\ op.pc = "write"
    /\ data' = IF op.written + 1 < Size[Current] \/ Size[Current] = 1
               THEN [data EXCEPT ![op.tail] = <<Current, op.written + 1>>] ELSE data
    /\ op' = [op EXCEPT !.written = @ + 1,
                        !.pc = IF op.written + 1 < Size[Current] THEN "alloc" ELSE "commit"]
    /\ UNCHANGED <<fat, mirror, dir, fsinfo, hint, crashes>>

WriteStep ==
    /\ op.pc = "write"
    /\ data' = [data EXCEPT ![op.tail] = <<Current, op.written + 1>>]
    /\ op' = [op EXCEPT !.written = @ + 1,
                        !.pc = IF op.written + 1 < Size[Current] THEN "alloc" ELSE "commit"]
    /\ UNCHANGED <<fat, mirror, dir, fsinfo, hint, crashes>>

CommitStep ==
    /\ op.pc = "commit"
    /\ dir' = [dir EXCEPT ![op.slot] = [name |-> Current, first |-> op.first]]
    /\ op' = [op EXCEPT !.todo = Tail(@), !.pc = "next"]
    /\ UNCHANGED <<fat, mirror, data, fsinfo, hint, crashes>>

Step == NextCall \/ FreeStep \/ EraseStep \/ ScanStep \/ AllocStep \/ ZeroStep \/ LinkStep
        \/ WriteStep \/ CommitStep

-----------------------------------------------------------------------------
(* Power failures and new sessions                                         *)

\* fat_init takes the hint from the FSInfo sector.
Session == op' = Idle /\ hint' = fsinfo

boot == op.pc = "done" /\ Session /\ UNCHANGED <<disk, crashes>>

PowerFails == crashes < MaxCrashes /\ crashes' = crashes + 1 /\ Session

Crash == op.pc # "done" /\ PowerFails /\ UNCHANGED disk

\* The power fails between the two copies of a FAT entry.
TornFatSet ==
    /\ PowerFails
    /\ \/ op.pc = "free" /\ fat' = [fat EXCEPT ![op.cluster] = Free]
       \/ op.pc = "alloc" /\ Candidates # {} /\ fat' = [fat EXCEPT ![Allocated] = EOC]
       \/ op.pc = "link" /\ fat' = [fat EXCEPT ![op.tail] = op.cluster]
    /\ UNCHANGED <<mirror, dir, data, fsinfo>>

\* A freshly formatted volume.
Init ==
    /\ fat = [c \in Clusters |-> Free] /\ mirror = fat
    /\ dir = [s \in 1..Slots |-> None]
    /\ data = [c \in Clusters |-> Zeros]
    /\ fsinfo \in Hints /\ hint = fsinfo
    /\ crashes = 0
    /\ op = Idle

Next ==
    \/ recover \/ install \/ (\E m \in Modes : bootmode(m))
    \/ Step \/ boot \/ Crash \/ TornFatSet

Spec == Init /\ [][Next]_vars

-----------------------------------------------------------------------------
(* Properties                                                              *)

\* The file a command is replacing, whose chain is being taken apart.
Replaced(s) == op.pc \in {"free", "erase"} /\ s = op.slot

\* As long as the power holds, a command damages no file but the one it is
\* replacing, and no two files share a cluster: not while it runs, not when
\* the volume or the root directory is full.
DamageConfined ==
    crashes = 0 => \A s \in Live : ~Replaced(s) =>
        Intact(s) /\ \A t \in Live : t # s /\ ~Replaced(t) => Disjoint(s, t)

\* README, "repeated recovery runs do not leak clusters or exhaust
\* root-directory entries": a recovery that succeeds loses no cluster, and
\* there is one entry for each file.  A power failure before the command does
\* not matter.
RecoveryKeepsSpace ==
    /\ op.cmd \in {"recover", "install"} /\ op.pc = "done" /\ op.ok => Lost \subseteq op.lost
    /\ \A s, t \in Live : dir[s].name = dir[t].name => s = t

\* "OS64 recovery complete": the kernel and the initrd on the disk are the
\* ones of the rescue medium.
RecoveryComplete ==
    op.cmd = "recover" /\ op.pc = "done" /\ op.ok =>
        \A f \in {"KERNEL.BIN", "INITRD.BIN"} : \A s \in Find(f) : Intact(s)

\* Between two FAT writes the copies are the same: disk_check of the OS64 kernel refuses a volume whose copies differ.
MirrorsAgree == crashes = 0 => mirror = fat

\* Wherever the power fails, no chain becomes a cycle, and no file gets two
\* entries: a walk along any chain ends.
WalksEnd ==
    /\ \A s \in Live : Walk(dir[s].first)[Limit] \notin Clusters
    /\ \A s, t \in Live : dir[s].name = dir[t].name => s = t

\* One boot mode at a time, whatever fails: the boot manager takes the first
\* flag it finds, so a second flag would be a mode nobody chose.
OneMode == Cardinality({m \in DOMAIN Flag : Find(Flag[m]) # {}}) <= 1

\* Wherever the power fails a walk along any chain ends and at most one boot mode is set;
\* as long as it does not fail, the two copies of the FAT are the same.
VolumeSound == WalksEnd /\ OneMode /\ MirrorsAgree

=============================================================================
