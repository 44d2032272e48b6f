----------------------------- MODULE Mini64Disk ------------------------------
(* The disk of the Mini64 rescue system: its driver, and its volume.        *)
EXTENDS Integers

(***************************************************************************)
(* The disk driver of the Mini64 rescue system (mini64/kernel.c): writes   *)
(* counted in pending_writes and flushed by sync or when there are many,   *)
(* every wait bounded.  A wait that ends without an answer makes the       *)
(* operation fail while the drive goes on with its command.  The drive     *)
(* keeps sectors in a cache that a power failure loses.                    *)
(***************************************************************************)

CONSTANTS Sectors, Values,
          FlushAt       \* uncommitted writes that make disk_write flush: 128

VARIABLES
    medium, cache,      \* the sectors on the medium, and as the drive answers them
    busy,               \* the command the drive is still at, or "none"
    pending_writes,
    allowed,            \* what a sector may hold after what the callers were told
    sure                \* sectors whose last write was reported done

ata == <<medium, cache, busy, pending_writes, allowed, sure>>

\* disk_wait_ready succeeds when the drive ends its command in time.
DriveIdle == busy = "none"
Answered(done) == IF done THEN busy' = "none" ELSE busy' = "flush"

\* Mutant: the count is cleared when the flush is sent, not when it is done.
FlushSent(c, sent, done) ==
    /\ Answered(done) /\ medium' = IF done THEN c ELSE medium
    /\ pending_writes' = 0

\* disk_flush from the command on, for a drive that is idle.
Flush(c, sent, done) ==
    /\ Answered(done) /\ medium' = IF done THEN c ELSE medium
    /\ pending_writes' = IF done THEN 0 ELSE sent

\* Once a caller was told that everything is on the disk, it has to be.
Promise(told) == allowed' = IF told THEN [s \in Sectors |-> IF s \in sure THEN {cache[s]} ELSE allowed[s]] ELSE allowed

disk_flush ==
    /\ \/ pending_writes = 0 /\ Promise(TRUE) /\ UNCHANGED <<medium, busy, pending_writes>>
       \/ pending_writes > 0 /\ ~DriveIdle /\ Promise(FALSE) /\ UNCHANGED <<medium, busy, pending_writes>>
       \/ /\ pending_writes > 0 /\ DriveIdle
          /\ \E done \in BOOLEAN : Flush(cache, pending_writes, done) /\ Promise(done)
    /\ UNCHANGED <<cache, sure>>

\* disk_write: nothing is sent to a drive that is busy or does not ask for the data.
\* Otherwise the drive has the data, whether it answers in time or not.
disk_write(s, v) ==
    /\ DriveIdle /\ pending_writes <= FlushAt
    /\ cache' = [cache EXCEPT ![s] = v] /\ allowed' = [allowed EXCEPT ![s] = @ \cup {v}]
    /\ \/ busy' = "write" /\ sure' = sure \ {s} /\ UNCHANGED <<medium, pending_writes>>
       \/ /\ pending_writes + 1 < FlushAt /\ pending_writes' = pending_writes + 1
          /\ sure' = sure \cup {s} /\ UNCHANGED <<medium, busy>>
       \/ /\ pending_writes + 1 >= FlushAt
          /\ \E done \in BOOLEAN :
                /\ Flush(cache', pending_writes + 1, done)
                /\ sure' = IF done THEN sure \cup {s} ELSE sure \ {s}

\* The drive: it ends its command, it moves a sector to the medium when it likes, and
\* what is only in its cache is lost with the power.
DriveDone ==
    /\ ~DriveIdle /\ busy' = "none" /\ medium' = IF busy = "flush" THEN cache ELSE medium
    /\ UNCHANGED <<cache, pending_writes, allowed, sure>>

WriteBack(s) ==
    /\ medium[s] # cache[s] /\ medium' = [medium EXCEPT ![s] = cache[s]]
    /\ UNCHANGED <<cache, busy, pending_writes, allowed, sure>>

DriveLosesPower ==
    /\ cache' = medium /\ busy' = "none" /\ pending_writes' = 0 /\ sure' = {}
    /\ UNCHANGED <<medium, allowed>>

AtaInit ==
    /\ \E v \in Values : medium = [s \in Sectors |-> v]
    /\ cache = medium /\ busy = "none" /\ pending_writes = 0
    /\ allowed = [s \in Sectors |-> {medium[s]}] /\ sure = {}

AtaNext ==
    \/ disk_flush \/ DriveDone \/ DriveLosesPower
    \/ \E s \in Sectors : WriteBack(s) \/ \E v \in Values : disk_write(s, v)

AtaSpec == AtaInit /\ [][AtaNext]_ata

\* "sync" says true: once disk_flush has returned 1, every sector that was reported written
\* holds that on the medium, whatever timed out before and whenever the power fails.  The drive
\* is one that completes its flushes: the last wait of disk_flush looks at BSY only, so that
\* a flush which ends in an error would be taken for one that succeeded.
SyncKeeps == \A s \in Sectors : medium[s] \in allowed[s]

-----------------------------------------------------------------------------
(***************************************************************************)
(* Where the Mini64 rescue system believes its FAT32 volume to be          *)
(* (mini64/kernel.c): the geometry in memory, the sectors it is read from, *)
(* and the commands that change one of them: mount, chkfs, ls, umount,     *)
(* format, recover, install, erase and boot.  Three sectors matter: the    *)
(* partition table, the boot sector of the volume and its root directory.  *)
(***************************************************************************)

HOME_START == 2048
DataStart == 2018                   \* 32 reserved sectors and two FATs of 993
Table == 0                          \* the LBA of the partition table
Boot == HOME_START
Root == HOME_START + DataStart
VolumeSectors == {Table, Boot, Root}

\* What a sector may hold: a partition table, a boot sector, the volume label
\* at the start of an empty directory, directory entries, or anything else.
Contents == {"table", "boot", "label", "entries", "other"}

\* Before the first session: a blank disk, an installed one, or one that something else used.
Disks == {d \in [VolumeSectors -> Contents] :
            /\ d[Table] \in {"table", "other"} /\ d[Boot] \in {"boot", "other"}
            /\ d[Root] \in {"entries", "other"}}

VARIABLES
    disk_sectors,           \* [VolumeSectors -> Contents]
    vol_start, data_start,
    fat_mounted,
    report          \* the last command and whether it reported success

volume == <<disk_sectors, vol_start, data_start, fat_mounted, report>>

-----------------------------------------------------------------------------

Found(d) == d[Table] = "table" /\ d[Boot] = "boot"

\* fat_init takes the start of the volume before it looks at its boot sector,
\* and changes nothing more when that is not one.
fat_init ==
    /\ vol_start' = IF disk_sectors[Table] = "table" THEN HOME_START ELSE vol_start
    /\ data_start' = IF Found(disk_sectors) THEN DataStart ELSE data_start
    /\ fat_mounted' = (fat_mounted \/ Found(disk_sectors))

\* cluster_lba(2)
RootLba == vol_start + data_start

\* Mutant: the label goes to the start of the volume.
FormattedAtStart(d, lba) == [d EXCEPT ![Table] = "table", ![Boot] = "label"]

\* fat_format writes the label through the geometry it had before.
Formatted(d, lba) ==
    [[d EXCEPT ![Table] = "table", ![Boot] = "boot"] EXCEPT ![lba] = "label"]

SetGeometry == vol_start' = HOME_START /\ data_start' = DataStart /\ fat_mounted' = TRUE

\* Mutant: a volume that does not count as mounted is formatted without being looked for.
ReadyAnew(d) == IF fat_mounted THEN d ELSE Formatted(d, RootLba)

\* do_recover mounts the volume, or formats.  The start of the volume, which
\* fat_init may have found, is the one format uses.
Ready(d) ==
    LET start == IF d[Table] = "table" THEN HOME_START ELSE vol_start
    IN  IF fat_mounted \/ Found(d) THEN d ELSE Formatted(d, start + data_start)

\* Then it stores the files, unless there is no room for one of them.
Recovered(d) == [Ready(d) EXCEPT ![Root] = "entries"]

-----------------------------------------------------------------------------

Says(cmd, ok) == report' = <<cmd, ok>>

mount == fat_init /\ Says("mount", Found(disk_sectors)) /\ disk_sectors' = disk_sectors

\* chkfs looks for the volume anew; what it says of FSInfo and of the root's chain is open.
chkfs ==
    /\ fat_init /\ disk_sectors' = disk_sectors
    /\ \E ok \in BOOLEAN : Says("chkfs", ok /\ Found(disk_sectors))

\* ls, and status: the volume is looked for unless it counts as mounted.
ls ==
    /\ IF fat_mounted THEN UNCHANGED <<vol_start, data_start, fat_mounted>> ELSE fat_init
    /\ disk_sectors' = disk_sectors
    /\ Says("ls", fat_mounted \/ Found(disk_sectors))

umount ==
    /\ fat_mounted' = FALSE
    /\ Says("umount", fat_mounted)
    /\ UNCHANGED <<disk_sectors, vol_start, data_start>>

format ==
    /\ disk_sectors' = Formatted(disk_sectors, RootLba)
    /\ SetGeometry
    /\ Says("format", TRUE)

recover_volume ==
    /\ \/ disk_sectors' = Recovered(disk_sectors) /\ Says("recover", TRUE)
       \/ disk_sectors' \in {Ready(disk_sectors), Recovered(disk_sectors)} /\ Says("recover", FALSE)
    /\ SetGeometry

\* install writes the boot image, partition table included, over the sectors
\* before the volume, when the files are stored.
install_volume ==
    /\ \/ disk_sectors' = [Recovered(disk_sectors) EXCEPT ![Table] = "table"] /\ Says("install", TRUE)
       \/ disk_sectors' \in {Ready(disk_sectors), Recovered(disk_sectors)} /\ Says("install", FALSE)
    /\ SetGeometry

erase(s) ==
    /\ disk_sectors' = [disk_sectors EXCEPT ![s] = "other"]
    /\ fat_mounted' = FALSE
    /\ Says("erase", TRUE)
    /\ UNCHANGED <<vol_start, data_start>>

\* Mutant: the new session takes the volume for mounted.
boot_volume_mounted ==
    /\ vol_start' = 0 /\ data_start' = 0 /\ fat_mounted' = TRUE
    /\ Says("boot", TRUE) /\ disk_sectors' = disk_sectors

\* A new session: memory is zeroed, then kernel_main calls fat_init.
boot_volume ==
    /\ vol_start' = IF disk_sectors[Table] = "table" THEN HOME_START ELSE 0
    /\ data_start' = IF Found(disk_sectors) THEN DataStart ELSE 0
    /\ fat_mounted' = Found(disk_sectors)
    /\ Says("boot", Found(disk_sectors))
    /\ disk_sectors' = disk_sectors

VolumeInit ==
    /\ disk_sectors \in Disks
    /\ vol_start = IF disk_sectors[Table] = "table" THEN HOME_START ELSE 0
    /\ data_start = IF Found(disk_sectors) THEN DataStart ELSE 0
    /\ fat_mounted = Found(disk_sectors)
    /\ report = <<"boot", Found(disk_sectors)>>

VolumeNext ==
    \/ mount \/ chkfs \/ ls \/ umount \/ format \/ recover_volume \/ install_volume \/ boot_volume
    \/ \E s \in VolumeSectors : erase(s)

VolumeSpec == VolumeInit /\ [][VolumeNext]_volume

-----------------------------------------------------------------------------
(* Properties                                                              *)

\* Whatever was erased, formatted or remounted before, a volume that counts as
\* mounted is used through its real geometry, so that every directory and FAT
\* write of recover, bootmode and clear_panic_flag lands in the volume.
GeometryTrue == fat_mounted => RootLba = Root

\* The volume as the commands leave it.  Only erase makes a volume unrecognisable that the
\* next boot would have found.  recover and install never format such a volume: they change
\* its root directory and nothing else.  After format the next boot finds a volume if and only
\* if the session knew the geometry before: fat_format writes the label through the old
\* geometry, and where fat_init has found no volume since the boot that is the sector of the
\* partition table or of the boot sector just written.
FormatsAgain ==
    [][/\ Found(disk_sectors) /\ report'[1] # "erase" => Found(disk_sectors')
       /\ Found(disk_sectors) /\ report'[1] \in {"recover", "install"} =>
             /\ \A s \in VolumeSectors \ {Root} : disk_sectors'[s] = disk_sectors[s]
             /\ disk_sectors'[Root] \in {disk_sectors[Root], "entries"}
       /\ report'[1] = "format" => (Found(disk_sectors') <=> data_start = DataStart)]_volume

\* Whatever was erased, formatted or remounted before, Mini64 writes the directory and the
\* FAT of a volume that it counts as mounted through the geometry of that volume; it keeps a
\* volume that it recognises; and what format leaves is found by the next boot exactly when
\* the session had known a volume (fat_init, fat_format, do_recover, do_install).
StoresLand == []GeometryTrue /\ FormatsAgain
==============================================================================
