# A TLA+ verification project for OS64

OS64 is a small x86_64 operating system in C: a cooperative kernel with a
shell and a desktop, its rescue system Mini64, and a TUI library with a few
applications. This directory holds TLA+ models of its parts, the TLC
configurations that check them on small instances, and TLAPS proofs of what
matters most for every instance. Paths below are relative to `src/`.

## The system

Nothing in the kernel is preemptive and there is one processor: a command, a
boot step or an application call runs to its end, and the input loop polls the
services in between. What is concurrent with the code is the outside world:
the network, the devices, the user, the power supply, and the next boot, which
finds on the disk what the last one left.

| Part | Source | Modules |
| --- | --- | --- |
| Boot: menus, long mode, options, start | `boot/grub/grub.cfg`, `boot/os64/manager.cfg`, both `boot.asm`, `kernel/core/bootopts.c`, `kernel/core/kernel.c` | Startup |
| Heap | `kernel/mm/memory.c` | Heap, HeapProofs, HeapCountProofs |
| Services and boot sequence | `kernel/core/service.c`, `kernel/core/kernel.c` | Services, KernelProofs |
| Log | `kernel/drivers/display/log.c` | Log, LogHistory, KernelProofs |
| Exceptions, panic, pstore | `kernel/arch/.../interrupts`, `kernel/core/panic.c`, `kernel/core/pstore.c` | Faults, PanicBoot, KernelProofs |
| PCI | `kernel/drivers/pci/pci.c` | Pci |
| Mini64 | `mini64/kernel.c` | Mini64Fat, Mini64Disk, Mini64Line, LineEditor, Mini64Screen, Mini64Proofs, Mini64FileProofs |
| Home volume, data volume | `kernel/drivers/disk/disk.c`, `kernel/fs/ext2.c` | HomeFat, Ext2 |
| VFS, packages, installer | `kernel/fs/`, `kernel/core/kernel.c` | Vfs, Packages, Installer, StorageProofs |
| Network cards | `kernel/drivers/network/` | FrameQueue, Pcnet, Rtl8139, MCNetwork |
| TCP; ARP, ping, DNS; HTTP | `kernel/net/net.c`, `kernel/core/kernel.c` | Tcp, Datagrams, Fetch, TcpProofs, NetworkProofs |
| Clock | `kernel/core/timed.c`, `kernel/drivers/rtc/rtc.c` | Timekeeping, NetworkProofs |
| Keyboard and mouse | `kernel/drivers/keyboard/` | Ps2 |
| Display, shell, nano | `kernel/drivers/display/display.c`, `kernel/core/kernel.c` | Shell, NanoView |
| TUI library and applications | `user/libtui/`, `user/apps/` | Tui, TuiCells, Userland |
| Desktop | `kernel/core/desktop.c`, `kernel/core/window_manager.c` | Desktop |

They interact through the disk (the kernel, Mini64 and the boot manager share
the FAT volume and the raw record), through the service table (`netd`, `timed`,
`graphicsd` and `logd` start and stop a subsystem each), through
`network_poll`, which every waiting network call runs, and through the
terminal, which the shell lends to full-screen programs.

What is hard to test here: a power failure between two disk writes; a volume
or directory that fills up in the middle of a command; a second command that
relies on what the first one left in memory; segments and answers that arrive
twice, late or out of order; a start that fails half-way; a ring that wraps; a
screen that no longer shows what the program believes; and long sequences of
allocations. The list, line by line, is `hazards` in `PROJECT.json`.

## The modules

### The kernel

**Heap** models the allocator byte-exactly in its arithmetic (header of 48,
alignment and minimal payload of 16) and cell by cell in its contents: the
record `heap` is the block list, the counters and the memory in 16-byte cells;
`held` is a ghost that says what each client pointer owns and last wrote.
`Take` and `Release` are the bodies of `kmalloc` and `kfree` once their walk
has stopped, so that `krealloc` is their composition, as in the code. Every
address may be passed to `kfree` and `krealloc`. The magic number is not
modelled: no client writes outside what it asked for.

**Services** models the table, `poll_one` and its probes, `service_start`,
`service_stop`, each turn of the loop of `service_wait_ready`, the boot
sequence with the services that recovery mode skips, and the daemon commands.
Which subsystems came up before the boot, the result of every `network_init`
and of every `disk_sync` are arbitrary. **Log** models the ring and how it is
read; **LogHistory** says what readers are promised, a bounded history, and Log
implements it with `recent` mapped to what reading by index shows.

**Startup** follows one boot from the chosen menu entry through `boot.asm` (the
processor checks, the page tables, the one register that carries the address of
the boot information) to `kernel_main` and the shell or the desktop.
Its second part (`InfoInit`, `InfoNext`) is about the information itself: seven
loops of the kernel and of Mini64 step from tag to tag by the size they find
there. **Pci** is the scan of
the buses through the two configuration ports.

**Faults** has two parts. The first (`ExceptionNext`) goes from a faulting instruction to `kernel_panic`: the processor
pushes an error code for some exceptions and none for others, and the stubs
level that out. The second (`ScreenNext`) is what the panic then shows and saves, on
a display of any of the accepted sizes or into the terminal of a desktop: a line is its
width, the frame pointers of the call trace may be anything. **PanicBoot**
models what a panic leaves on the disk and what the next boots make of it, one
disk write at a time: OS64 from `disk_init` on, the panic path, `pstore clear`,
the choice of `manager.cfg`, Mini64's consumption of the flag, `bootmode`. The
power may fail anywhere, a second fault may stop a panic, and the flag may not
fit on the volume.

### Mini64

**Mini64Fat** models `recover`, `install` and `bootmode` as sequences of
`disk_store_large` and `delete_root_file` calls over a FAT with its mirror, a
root directory and cluster contents, one sector write at a time. A cluster
holds one numbered part of a file. **Mini64Disk** has two parts. `VolumeNext` is about the geometry
of the volume: five kinds of sector content at the three places that matter, and the
geometry variables that `format`, `erase`, `chkfs`, `umount`, `install` and a restart
change or forget to change. `AtaNext` is the drive: writes are counted and
flushed, every wait is bounded, and the drive goes on after the driver has
given up. **Mini64Line** keeps the line as the array that `readline` has, at the prompt
and in the smaller buffer of a confirmation, with Tab completion, the history with what a
longer entry leaves behind a shorter one, and the Shift keys of `kbd_get`; **LineEditor**
says what a user expects of it, and Mini64Line implements it. **Mini64Screen** counts
the rows that every command prints.

### Storage

**HomeFat** models `disk_create`, `disk_store`, `disk_store_large` and
`disk_remove` of the FAT volume under `/home`, and `disk_load` and the `disk_check` of
`chkfs` as functions of it; a content has a length, so that the bytes and the length in
the entry can disagree. **Ext2** models
`ext2_store` and `ext2_remove` of the volume under `/var`. In both, an operation
is the sequence of writes it makes, each of which may be the last before a power
failure; what a file may hold afterwards is kept in a ghost. In Ext2 an operation
is a function of the volume: its value is the volume it leaves, and `seen` is the
set of volumes that a power failure inside it may leave, one for each prefix of
its block writes. `dir_add` does not ask whether the parent is a directory, so a file may
be taken for one if its bytes look like entries (`EntryLike`); the paths of such a store
are in the ghost `strayed`. **Vfs** decides as `vfs.c` does
which store a path leads to, with 8.3 names that alias and the initramfs behind
the data volume, and has `cp`, `mv`, `rm` and `mount` on top. **Packages** is
`pm`: mirrors that fail or answer with something else, a payload that is decoded
and compared, and three calls to store it. **Installer** is `install /dev/sda`
with the sizes of the payload in the repository.

### The network

**FrameQueue** says what the network stack expects of a card: in each direction
a queue of frames, which only an initialisation may empty. **Pcnet** models the
driver and, externally, the card over two rings of descriptors that change
owner; a buffer is filled and copied in separate steps, so that one side can
act while the other is in the middle. **Rtl8139** models a circular buffer of
words in which frames of different lengths follow each other, written word by
word. `NetdevInit` and `netdev_init` of **MCNetwork** compose them as `netdev.c`
does: one card is fitted, and
`netdev_init`, which looks for the RTL8139 first, may run again at any moment
between two calls. Whichever card it is, each direction implements the queue,
with the waiting frames read off the ring as `queue`.

**Tcp** models the client and, as external definitions, the peer: any segment
the peer may have sent can arrive now, again or never, limited by the window
and by what the peer has seen acknowledged. Frames are only seen inside
`network_poll`, up to `Burst` of them before a call looks at its condition
again, which is what the queue bound depends on. Sequence numbers are counted
from the initial ones, so a byte of the stream is its number. A call that
waits may be cancelled before every poll. **Datagrams** has the calls that ask
with one packet: ARP with its cache, `network_ping` and `network_resolve`;
answers not older than `Age` questions may arrive at any time, and so may an ICMP
"unreachable", which the code takes for the answer to whatever ping waits. **Fetch** has the
three redirect loops of `curl` and the two browsers.

**Timekeeping** models `timed_sync` with its retries and the NTP client of `net.c`.
Time is counted in nanoseconds of the server, the local clock is `err` ahead of
it, and the conversions to and from NTP's fixed point round as the code does.
Datagrams may be lost, repeated, delayed and reordered, across synchronizations
as well. Two things are assumed: the TSC runs at its nominal rate, and no
datagram under way carries the very nanosecond of a new request. It also has
`rtc_read`, register by register, while the chip ticks at most once in two
snapshots; the hour takes all four register formats. `timed_init` reads the chip
once, and from then on the clock goes by itself, starting from a time that may be
wrong.

### Terminal, programs, desktop

**Ps2** models the two initialisations as lists of port accesses and waits, and
the polling of the shell and of the desktop, against a controller with one
output buffer and a device with a queue on each port. A read takes whatever
byte is in the buffer. Devices answer before a wait times out, after it (`Slow`), or
never; the keyboard is left alone until it has been initialised.

**Shell** begins with `display.c` as functions of cells, with the cursor that is
drawn by inverting a cell and has to be undone before anything else is drawn.
The rest is the input loop on it: the line is edited in memory and on the
screen in parallel, with positions the shell counts itself, and a program may
take the terminal in between. **NanoView** is how nano scrolls and draws its
text.

**Tui** is the library as its programs use it: a pool of windows, widgets with
focus, lists and text boxes, dialogs, what is repainted and when. **Userland**
has the programs on it, as what the shell can start: `filemm` (two panes, copy,
move, delete) with its dialogs, `edit` and nano key by key, the small programs
(`usercfg`, `netcfg`, `sysmgr`, `browser`) and the wizard of `setup`. The paths of
`filemm` are texts: `path_join`, `resolve_path` and the splitting of arguments at blanks
work on them as the code does, and `Place` says which file of which volume a path is.
What is promised of the screen (`Shows`) is stated from the widgets, not from the
drawing. Of the rows that `edit` draws a tab is as many blanks as in the code. **TuiCells** is the level below: windows painted
over each other into a back buffer, and the cells that `tui_render` writes
because they differ from the front buffer. **Desktop** is the window table with
focus, tiling and dragging, the launcher, the task bar and the keys.

### MC modules

A run checks several parts at once. Its module EXTENDS the parts that theorems are
about, so that the run and the proofs use the same definitions, and takes the
others with INSTANCE; the variable `part` is chosen in the initial
state, that part runs, and the others rest in one of their initial states. A
property that names a part is about the behaviours in which it runs. The
variables of two parts are never related: where components interact the
composition is modelled (the two cards under `netdev.c` in MCNetwork, the chip and
the clock in Timekeeping, Shell on its display, Userland over Tui, PanicBoot over
kernel, boot manager and Mini64).

Definitions whose comment starts with *Mutant* are plausible slips of the code,
used to show that each property notices one. A few mutants are definitions of
the model itself that leave out the last step of the one they replace, such as
`Redrawn` for `tui_widget_repaint`.

## The runs

| Run | Parts | Checks | Result |
| --- | --- | --- | --- |
| `kernel` | heap, services, log, panic flag, panic screen, start, boot information, exceptions, PCI | the block list tiles the heap, nothing overlaps, is lost or miscounted, contents stay; boot gates, nothing left starting, the boot ends; the log is a history; a boot comes up as its menu entry asks; scans find everything; exceptions and panics are reported as what they are, on four sizes of display; a panic flag never outruns its record and is served once | holds |
| `mini64` | files, volume, drive, line | while the power holds no other file is damaged and a success loses no cluster; with a power failure anywhere walks end and one mode is set; a mounted volume is used through its geometry, a recognised one is never formatted by `recover` or `install`, and what `format` leaves is found again exactly when the geometry was known; a successful flush is on the medium; the line is the one typed | holds |
| `mini64_redo` | files | "OS64 recovery complete" after an earlier power failure | violated |
| `mini64_prompt` | screen | the prompt is on the screen | violated |
| `storage` | `/home`, `/var`, VFS, packages | files are whole, old or new, through power failures; blocks, inodes and clusters have one owner and can be found again; a path reads as what its callers were told; only verified packages are installed | holds |
| `install` | installer | an installation on a disk that takes every write does not fail | violated |
| `network` | clock, TCP, cards, datagrams | a CMOS time that is returned was shown; the corrected clock is off by at most half the round trip; the stream arrives in order and once, and the calls say what is true; no byte is dropped while the application receives; each direction of a card is a queue; answers belong to their questions | holds |
| `terminal` | PS/2, shell, nano, cells, fetch | scan codes and packets arrive whole and are served; the screen shows the line that Enter would execute; a program gives the screen back; nano's cursor is on its character; the terminal shows the windows; redirects end and do not leave HTTPS | holds |
| `ps2_startup` | PS/2 | keys are served, with keys pending or typed while the desktop starts | violated |
| `programs` | programs, desktop | the screen shows the widgets and the cursor is in its box, that of `edit` on its character; nothing is deleted or given up unasked; one window has the focus, the hit test follows the order of painting, tiles are apart | holds |
| `move_same` | filemm | "File moved successfully." | violated |
| `edit_arrows` | edit | "Arrows Navigate" | violated |

The six violations are disagreements between the code and what the repository
says of it; `findings` in `PROJECT.json` quotes the lines.

- `mini64_redo`: the old chain is freed before its entry is erased. If the
  power fails in between, the next recovery gives a freed cluster to
  `KERNEL.BIN` and frees it again through the stale entry of `INITRD.BIN`.
- `mini64_prompt`: `fb_putc` does not scroll on a newline, and never scrolls
  again once the cursor is below the row under the last one.
- `install`: `GRUB.CFG` has 1738 bytes and is stored with `disk_store`, which
  takes 512.
- `ps2_startup`: the release of Enter, pending when the desktop starts, is read
  as the configuration byte and written back: it switches the keyboard off. The
  panel then names the keyboard as the input that is left.
- `move_same`: F6 with both panes on one directory, under whatever path, copies a file
  onto itself and removes it.
- `edit_arrows`: Left and Up have the codes of Ctrl+S and Ctrl+Q.

### What the properties leave out on purpose

The models show these too; the properties state what holds without them, and
the notes of `hazards` have the lines.

- Mini64: a recovery that runs out of clusters keeps the ones it had already
  chained; `delete_root_file` never frees the cluster of a flag; `format` writes
  the label through the geometry it had before, so that the first format of a session
  that has found no volume overwrites its own partition table or boot sector
  (`StoresLand` says so exactly); the history compares a new line with the oldest one,
  and a recalled line may end in the tail of an older one; `disk_flush` takes a flush
  that ends in an error for done.
- Panics: one before the mount, or with no room for the flag, leaves none; an
  unmapped frame pointer stops the panic before its ID is drawn; on displays smaller
  than 1024x768 the reason scrolls away, and in a terminal of the desktop nothing is
  promised.
- Services: stopping one does not stop what depends on it.
- `/home`: a power failure inside `disk_remove` may leave two files with one
  cluster; replacing or removing a file of several clusters loses all but the
  first. `/var`: `make_dir` keeps what it allocated when a later step fails; a store
  below an existing file writes into that file.
- VFS: two names with the same 8.3 form are one file. Packages: one whose
  `chmod` failed counts as installed.
- Network: a ping whose sequence number wraps to 0 is taken for answered; the SYN
  is sent once; a late "unreachable" ends a later ping; `tcp_append` acknowledges what it
  drops while a call other than `network_tcp_receive` polls.
- PS/2: an answer that comes after the wait for it leaves bytes that neither poll reads.
- Recovery mode does not mount the volumes, but `mount` mounts them writable.
- nano: a tab before the cursor, and a line above it that is wider than the
  screen, put the cursor on another character. A file too large to read opens
  empty. `edit`: a tab before the cursor, or a line as wide as the screen, puts the cursor
  on another character.
- `usercfg` leaves a cancelled box on the screen, a failed command of `filemm` prints over
  its windows, and four labels of `setup` have no width, that of "Installation completed
  successfully." among them. A blank in a path makes `filemm` copy or move something else.
  With the menu of the desktop open, a press in its rows counts for its entries wherever
  the pointer is.

### Bounds

- Heap: 256 bytes hold up to four blocks, so that a block with neighbours on
  both sides is freed, merged either way and reused; the sizes include zero, one
  that is rounded up, and one that overflows the rounding; two of the three boot
  maps give a heap that is too small or smaller than its array.
- Services: a budget of two polls reaches both ends of the wait; the managed
  daemons include one without a dependency, one with dependents, and the three
  that own a subsystem flag. Every combination of subsystems is an initial state.
- Log: three slots, two messages, one tick: the ring wraps and is restarted
  full.
- Panic flag: two panics and two power failures, so that a flag of the second
  panic can meet the record of the first. Panic screen: 640x400, the smallest
  framebuffer that is accepted, the text screen, 1024x768 and 1920x1080; log lines that
  fill the file or leave room; up to six frames.
- Start: every entry of both menus, every kind of processor, with each module and
  volume there or not. Boot information: up to three tags, padded or not, of every
  type a loop looks for. PCI: two buses of three slots and a list that one machine
  overflows.
- Mini64: five clusters and five directory slots are enough
  to replace a file, to run out of clusters in its middle, to run out of slots
  and to wrap the hint; one power failure at any step is followed by any further
  commands. Every disk for the volume; two sectors and a flush every three writes
  for the drive; lines of two characters at the prompt and of one in a confirmation, and
  two remembered lines.
- Storage: two clusters, two files in two directories, two contents of one cluster with
  different lengths and one of two clusters; three blocks, three inodes, three paths, one
  below another, and a content that needs the indirect block; one power failure each.
  Eight paths over the stores of the VFS, three packages, two mirrors.
- Clock: two seconds to a minute and two minutes to an hour; the chip is read
  about midnight, noon and the hours at which a digit changes; two comparisons.
  3 ns and 4 fixed-point units to the second make both conversions round; two tries, two datagrams under way, and
  time for two synchronizations with an answer of the first arriving in the
  second. The slack of 4 in `Rounding` is the least that holds.
- TCP: a stream of six bytes and a window of three. The queue holds
  `Burst * Mss + Window` bytes, the least that the assumption of Tcp allows; in the
  code 16 * 1460 + 4096 is well below 32768. One connection is made, and when it is over it stays so.
- Cards: three descriptors, two transmit buffers, four frames, one of them
  damaged, and four sends: the rings wrap, fill up and are initialised again at
  any moment. Six words and frames of two and three let a frame cross the end of
  the RTL8139's buffer and the next one not fit.
- Datagrams: three hosts and two slots of the cache, identifiers of two bits and
  five questions of each kind, so that numbers wrap while old answers are under way.
- PS/2: two keys, two packets of three kinds (one whose later bytes look like first
  bytes, one with an overflow) and two requests to resend.
- Shell: a screen of three rows of two, a prompt of one character and lines of
  two: the line wraps, and scrolls the screen while it is edited. nano: three
  columns, three rows of text, six characters. Cells: two windows of three kinds
  that overlap and leave the screen. Fetch: five redirects, as in the code.
- Programs: text boxes of one column and lists of one row, so that everything
  scrolls; a pool of three windows that a program and two dialogs use up; texts
  of two characters (three in the violation runs) on screens of two columns. `filemm`
  starts with a file in FAT and one with a blank in its name in ext2; two files are made
  or removed (`MaxChanges`), a path has up to two slashes (`MaxDepth`), and one pane at a
  time leaves its first directory. Desktop: three windows, five places of the pointer.

### Fairness

Only where the code runs on by itself: the steps of the boot and of a wait
(Services); the straight-line parts of a boot or a panic, with a stopped
machine being restarted some day (`GoesOn` of PanicBoot); the driver's steps,
the polling loops, which never end, and the controller filling its buffer (Ps2);
the next turn of a fetch that has begun, since every request it makes returns
(Fetch). Commands, panics, power failures, keys and the network are never
assumed to happen.

## The proofs

Checked by TLAPS for every value of the constants that the named assumptions
allow. Where a run checks the property too, it is the same definition: the MC
module extends the module the theorem is about.

| Module | Proved always | Checked by the run |
| --- | --- | --- |
| HeapProofs | `TypeOK`, `Tiled`, `Coalesced`, `NoOverlap`, `NothingLost`, `HeapSound`, `ContentsIntact` | `kernel` |
| HeapCountProofs | `Accounting` | `kernel` |
| KernelProofs | `BootGates` with `NoLimbo` and `SubsystemsFollow`; `LogKept` with the refinement of LogHistory; `FlagTrue` | `kernel` |
| Mini64Proofs | `SyncKeeps`, `StoresLand`, `VolumeSound` | `mini64` |
| Mini64FileProofs | `RecoveryKeepsSpace`, `DamageConfined` | `mini64` |
| StorageProofs | `ReadsBack`, `PackagesVerified` | `storage` |
| NetworkProofs | `AnswersTrue`, `ReadsTrue`, `SyncBound` | `network` |
| TcpProofs | `StreamIntact`, `ReceiveDropsNothing` | `network` |

**The heap.** `NoOverlap` is not inductive: a client's claim must lie in a block in
use, and blocks are disjoint only because the list tiles the heap. The invariant
adds to the five properties that every used block belongs to exactly one claim no
larger than its payload, and that any two blocks of the list are apart. `Split`,
`Merge` and the walk each have their lemmas; the actions are then compositions of
`Take` and `Release`. That the walk from `first` reaches every block
(`NothingLost`) takes a block of least address that it does not reach. For
`Accounting` the sum of the sizes of a set of blocks is a recursive function over
the set; every operation moves the counters by the block it takes or gives back,
and blocks and headers together cover the heap.

**Services, log, panic flag.** `BootGates` holds because the services still to be
booted have not been touched, a dependency comes earlier in the boot order, and
nobody polls in the background before the boot is over. The ring of the log
implements the history because a ring that is not full has its head at its count.
`FlagTrue` needs, besides the record being at least as new as the flag, what holds
between two writes: a panic that has recorded and not yet flagged is the newest and
has not been served, and `bootmode` stores a mode only when the flags of the others
are gone.

**Mini64.** `AtaInv` relates the drive's cache, the medium and what callers were
told: with no write pending, what was flushed is on the medium. For the geometry
(`VolumeInv`) the data area, where it is set, belongs to a volume that starts where
OS64's does, and it is set in every session that counts the volume as mounted or whose
disk holds one that would be found: that is why only the first format of a session on an
unknown disk can lose its label. For the files, `Sound` holds through power failures: the FAT is
acyclic, with a rank that falls along every link, each file has one entry, and each
program counter has established what its next write relies on. While the power
holds, `Tidy` adds that no cluster is linked to twice, no chain leads into another,
and the parts of a file that were counted are written. Facts about whole chains are
proved along that rank. `RecoveryKeepsSpace` says of every cluster in use who
answers for it at each step.

**Files and packages.** In Vfs `Agree` says that what the callers were told of a file
is what the store its path leads to holds, through 8.3 aliases, mounted or not.
`CallSound` is what one call of the stores promises, of which `cp` and `mv` are
compositions. In Packages `PmInv` says at each program counter what the payload and
the packages before it are, and that of the essential packages those not yet there
are still to come.

**The network.** For `AnswersTrue`, two questions less than `Width` apart have
different identifiers, and what is kept of an answer belongs to the last question of
its kind. `ReadsTrue`: a snapshot during which the chip has not ticked shows its
time, and of two that agree one is such. `SyncBound` bounds the rounding of the
conversions of NTP and follows the time at which a query began into the stamps of
its answer. For TCP, `TcpInv` says that what was read and the queue are the stream
up to the next byte wanted, and that the fragments set aside lie within it.
`ReceiveDropsNothing` needs `RoomForPoll`: the queue and the bytes that the
fragments cover, with what the rest of a burst may bring, fit the queue, by the
assumption `Burst * Mss + Window <= QueueSize`.

**Induction.** The library's induction rules take an operator as a parameter, which
the provers here cannot instantiate. Where a proof needs induction (along the block
list, over sums and chains) it takes the
least place at which the claim fails, from the well-foundedness of the natural
numbers, as an ordinary lemma about sets; a recursive function is shown to exist in
the same way before its equations are used.

**Only model-checked.** Liveness (`BootEnds`, `FlagServed`, `KeysServed`,
`FetchEnds`), which these provers do not do. `StartsAsAsked`, `FaultNamed` and
`ScansComplete`: the machines, menu entries and exceptions they range over are
finite, and the run goes through all of them up to the named bounds. `PanicReported`
and the properties of the runs `terminal` and `programs`: screens and windows whose
invariants would restate the drawing code cell by cell. `LineTrue` and
`FramesInOrder`: refinements whose mapping reads a recursion over a ring or a line.
`WholeOrOld` and `BitmapsTrue` of `/var`, `ContentsKept` and `SpaceFound` of `/home`:
their operations go through many intermediate volumes, each of which the invariant
would have to describe. Mini64Screen and Installer are exercised by their violation
runs only.

## Not modelled

- Accounts, `sudo` and permission bits: decided call by call from a file; in Vfs
  and the programs the caller is root.
- TLS, BearSSL and the generated certificate store: third-party code and data.
- Random numbers, ACPI, the registers of `bochs_vbe.c`: port I/O without state
  the rest of the kernel relies on. The ELF loader: one pass over one image.
- Drawing: glyphs, colours, images, the compositor, escape sequences; the wording
  of messages. `procfs` and most commands of the shell only format text.
- `disk_fill`, formatting of `/var`, `ext2_chmod` and `ext2_chown`,
  the calendar and the schedule of `timed_poll`, the decoding of scan codes.
- The games and demonstration packages, the build scripts, code without a caller
  (`file_selector`, `dhcp_toggle` of setup, `ps2_mouse_shutdown`).

The disk keeps every completed write, except in Mini64Disk: the order in which a
drive's cache reaches the platter is not modelled elsewhere, and a block of ext2
is written at once.

What would come next: proofs for the two volumes of OS64 along the lines of those for
Mini64's, and of `FramesInOrder` for both cards.
