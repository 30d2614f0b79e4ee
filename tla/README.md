# Verification of the xv6 kernel with encrypted user pages

The repository is xv6 for x86 with one large change: the user pages of a
process are kept encrypted (every byte complemented) and not present. A page
fault decrypts the page it hits, and a queue of `CLOCKSIZE` entries per process
limits how many pages are in the clear: when it is full, the clock algorithm
picks a decrypted page to encrypt again. `getpgtable` and `dump_rawphymem` let
programs look at the result. This directory holds TLA+ models of that machinery
and of the parts of xv6 it meets, TLC configurations, and TLAPS proofs.

## 1. The system

| Part | State | Operations | Meets | What is hard | What makes it correct |
|---|---|---|---|---|---|
| Encrypted memory (`vm.c`, `growproc`, `fork`, `exec`, `trap`) | PTE flags P, E, U, A; frames; `nodes`, `inClock`, `currInd` | page fault, `mencrypt`, `sbrk`, `fork`, `exec`, kernel access to user memory | every system call that follows a user pointer | long sequences of legal calls; the array bound; flags, frames and queue changing together | programs read what they wrote; every decrypted page is tracked; at most `CLOCKSIZE` in the clear; every access completes |
| `getpgtable` | none of its own | one read-only walk | page table, queue | loop bounds | lists exactly the mapped pages, or those in the queue |
| Processes (`proc.c`) | `ptable`, `cpu->proc` | `fork`, `exit`, `wait`, `kill`, `sleep`, `wakeup`, `yield`, `scheduler` | everything that sleeps | exits, waits and kills on several CPUs | one CPU per process; no lost child; no lost wakeup |
| Log (`log.c`) | header and data blocks on disk, `log.lh`, `outstanding`, `committing` | `begin_op`, `log_write`, `end_op`, commit, recovery | buffer cache, every file system call | crash between two disk writes; reservation; sleepers | crash atomicity; never full; sleepers wake |
| Buffer cache and disk (`bio.c`, `ide.c`, `sleeplock.c`) | buffers, LRU list, request queue | `bread`, `bwrite`, `brelse`, interrupt | log, inodes | interrupt against requests; recycling | one buffer per block, never recycled while dirty |
| Pipes (`pipe.c`) | ring buffer, two wrapping counters, open flags | `pipewrite`, `piperead`, `pipeclose` | process table, files | several readers and writers; wraparound; kill | a bounded FIFO queue; no lost wakeup |
| Spin locks and ticks (`spinlock.c`, `trap.c`, `sys_sleep`) | lock owners, `ncli`, `intena`, FL_IF, `ticks` | `acquire`, `release`, timer interrupt, `sched`, `sys_sleep` | every kernel part | interrupts, and threads that change CPUs | depths and flags right after every switch; no deadlock; no missed tick |
| Console (`console.c`) | line buffer with three wrapping indices, `cons.lock` | `consoleintr`, `consoleread`, `consolewrite`, `cprintf` | keyboard interrupt, page faults | faults inside the critical section | lines delivered in order; locks paired |
| Inodes and directories (`fs.c`, `sysfile.c`) | `icache` references, link counts, directory entries, inode locks | lookup, open, create, link, unlink, chdir, close | log, buffer cache, processes' `cwd` | `iput` against lookups; locks taken along paths; error exits | counts agree with what they count; nothing in use is freed; directories are a tree |
| File contents and descriptors (`fs.c`, `file.c`, `sysfile.c`) | bitmap, block maps, sizes, open files with offsets, descriptors | open, read, write, dup, close, fork, unlink | log reservation | chunks of a write interleave; lazy allocation; truncation on the last close | a file is an array of bytes; no block has two owners |
| Allocator and address spaces (`kalloc.c`, `vm.c`, `exec.c`, `proc.c`) | free list, page tables, kernel stacks, `cr3` | `kalloc`, `kfree`, fork, exec, sbrk, exit, wait | page tables, kernel stacks | running out half way; freeing what a CPU uses | no page lost or owned twice |
| Boot, drivers, user programs | - | - | - | - | not modelled (section 7) |

## 2. Modules

| Module | Models |
|---|---|
| `ClockVm` | the encrypted memory of one process |
| `ClockVmProofs` | theorems about `ClockVm` and `WorkingSet` |
| `MCClockVm` | the program behaviours that the runs of `ClockVm` let loose |
| `Log` | `log.c` over the caching of `bio.c`, with crashes |
| `AtomicDisk` | abstract: what the log promises; `Log!Atomic` says that `Log` implements it |
| `Pipe`, `MCPipe` | `pipe.c`, with `sleep`, `wakeup` and `kill` |
| `ByteQueue` | abstract: a bounded queue; `Pipe!Fifo` says that `Pipe` implements it |
| `Console`, `MCConsole` | `console.c` and `cons.lock` |
| `SpinLocks` | `spinlock.c` under timer interrupts, with `sched`, the scheduler and `sys_sleep` |
| `Proc` | the process table and the schedulers |
| `Bio`, `MCBio` | `bio.c`, `sleeplock.c` and `ide.c` |
| `BlockStore` | abstract: one copy of each block, held by one user (a pointer of a process) at a time; `Bio!OneCopy` says that `Bio` implements it |
| `Inodes` | the inode cache, directories, path lookup and the calls on names |
| `FileData`, `MCFileData` | block allocation, `readi`, `writei`, open files and descriptors |
| `ByteFile` | abstract: files as sequences of bytes with shared offsets; `FileData!BytesInOrder` says that `FileData` implements it |
| `PhysMem` | physical pages through `kalloc`, fork, exec, sbrk, exit and wait |
| `WorkingSet` | `getpgtable`, over the state of `ClockVm` |
| `Memory` | `PhysMem` under names that do not meet those of `ClockVm` and `Proc` |
| `MCMemory` | `ClockVm` with `WorkingSet`, and `PhysMem`, side by side |
| `InodeLocks` | `Inodes` under names that do not meet those of `SpinLocks` |
| `MCLocks` | `SpinLocks` and `Inodes` side by side |
| `LogProofs`, `PipeProofs`, `ConsoleProofs`, `SpinLocksProofs`, `ProcProofs`, `BioProofs`, `FileDataProofs` | theorems about the modules of those names (section 5); `ProcProofs` also has those about `PhysMem`, as `Memory` instantiates it, and `SpinLocksProofs` those about `Inodes`, as `InodeLocks` instantiates it |

`MCMemory` and `MCLocks` each hold two models that share no variable. The
variable `part` is chosen at the start and says which of them moves; each
property is about one of the two.

Operators named after C functions (`begin_op`, `growproc`, `wait`...) model the
whole function; operators with capitals model a branch, a loop turn or a helper.
An operator whose comment starts with "Mutant" is not part of the model: it is a
broken variant of the definition after it, kept to show that some property
notices the difference. PROJECT.json maps each definition to its lines.

### ClockVm

`pte`, `mem`, `nodes`, `inClock`, `currInd` and `sz` are the fields of the same
names; `prog` is a history variable, the byte the program believes to be in each
page. A page's content is its first byte, because all bytes go through the same
XOR and the first is the one `mdecrypt` tests. XOR 0xFF is `MAXBYTE - b`. The
memory access in progress (`acc`) is issued, faults as often as needed, and
completes; `mdecrypt` runs with interrupts off and is one step. User accesses
check P and U; accesses of the kernel through a user pointer check P only and
panic where a user access kills.

Assumptions: the user pages lie under one second-level page table; the TLB is
coherent (every change that matters is followed by `switchuvm`, except after
`sbrk(-sz)`); memory allocation does not fail; a process starts in the state
`exec` leaves, so the unencrypted page of `initcode` is not seen. `fork` is
followed into the child, the parent's memory being unchanged by it; `nodes` not
copied keep what the slot's last owner left (`Stale`). A write past
`proc->nodes` ends the model with status "overrun", since it destroys `inClock`.

### Log

Memory and disk are separate variables and `Crash` forgets the memory between
any two disk writes, during recovery too. `log_write` stands for changing a
buffer and recording it. `bget` may recycle any buffer that is not dirty, and
the next reader sees the disk. One block write is atomic and synchronous. The
refinement mapping gives `AtomicDisk` as durable contents the home blocks
overlaid with the log's blocks if the on-disk header commits them (`Durable`),
as view the cache, or the durable contents until recovery has ended (`View`),
and as open calls those between `begin_op` and `end_op` (`Running`).

### Pipe and Console

Each process is a program counter through the C function, with a step for every
point at which another CPU can act; the lock is held across the steps between
`acquire` and `release` or `sleep`. `sleep` gives up the lock and sleeps in one
step because it holds `ptable.lock`, but the test of `killed` before it is a
separate step. Counters are taken modulo `UINT`, a small multiple of the buffer
size as 2^32 is. In `Console` an access to an encrypted user page may call
`cprintf` inside the critical section, any number of times. Once that has
dropped the lock (`Unlocked`) the properties promise nothing.

### SpinLocks

A context is the kernel thread of a process or of a scheduler. `pc` is where it
is, `ipc` where an interrupt handler on top of it is. `locked`, `ncli`, `intena`
and `flag` (FL_IF) belong to CPUs. The tables `Acquires`, `Releases` and `After`
give each place of the code that takes or drops a lock its lock and successor,
so that `acquire` and `release` are written once. An interrupt may arrive
whenever the flag is on. A process that left CPU 0 in `sched` may come back on
CPU 1 with the `intena` it saved. `swtch` lets the scheduler pick any RUNNABLE
process; the order of the table is not kept. `slept` is a history variable that
counts the ticks of a sleep. `kill` comes from outside the two CPUs.

### Proc

Slots, states, parents, channels and killed flags are those of `struct proc`;
`where` and `child` stand for the kernel stack. `fork` is three steps
(`allocproc` under the lock, a failure without it, the end under it). A process
may be preempted anywhere. Nobody kills init, and `init.c` does not exit.

### Bio

A step is what runs under one spin lock. `bget` is the search and recycling
under `bcache.lock`; the wait for the buffer's sleep lock, the transfer and the
release are further steps, and `brelse` is two: it drops the sleep lock before
it takes `bcache.lock`. A process has up to two buffers, each through a pointer
of its own (`Handles`): `install_trans` and `write_log` read a second block while
they have the first, `bmap` and `itrunc` call `balloc` and `bfree` with the
indirect block in hand. `Pairs` says which second block may follow which first;
processes that take two blocks do so in an order without cycles, as the code
does (log block before home block, indirect block before bitmap block). `bget`
with no buffer to recycle panics, and `Halted` is what is left to do then.
`queue` is `idequeue`, `drive` what `idestart` told the
controller, and `ideintr` finishes the head of the queue whenever it is enabled.
`log_write` leaves B_DIRTY set, and only a later `bwrite` of the block clears
it. The refinement mapping gives `BlockStore` the valid buffer of a block, or
the disk if there is none (`Contents`), and the pointer through which that
buffer's lock was taken as the holder (`Holders`).

### Inodes

`dinode` is the inode on disk, `mem` its entry of the inode cache, `ent` the
directories. A system call is a record in `loc` that walks its path: `namex`
takes and drops one inode lock per name, and every acquisition of a lock is a
step. `iput` is three steps, as its two uses of `icache.lock` and the freeing in
between are. The error exits of `sys_link`, `sys_unlink`, `create`, `sys_open`
and `sys_chdir` are followed to their `iput`s. Each process has a current
directory and at most one open file. Contents are left to `FileData`. `orphans`
is a history variable: the inodes that lost a name because `iput` truncated the
directory it was in. No action looks at it; `LinksExact` excepts these inodes.

### FileData

A block holds `BSIZE` words, bytes of data or block numbers. `filewrite` goes
through its chunks, each a transaction under the inode's lock, and `writei`
through its blocks, allocating as it goes; other processes act between blocks
and between chunks. `log` collects the blocks a chunk has logged. Reading is one
step because it holds the lock throughout. The last close of an unlinked file
truncates it. The mapping to `ByteFile` shows the contents saved when the inode
was locked until it is unlocked, so that a chunk takes effect at once.

### PhysMem

Every `kalloc` is a step that may fail; a call keeps what it has so far in
`call`. Page tables have both levels, so growing may need a table and a page.
The failure exits of `allocuvm`, `copyuvm`, `fork` and `exec` give back exactly
what the code gives back. `exit` holds `ptable.lock` (`locked`) until the
scheduler has left the zombie's stack and directory.

### WorkingSet

`getpgtable` is a recursive function that walks down from the page below `sz`
as the loop does, the end of the loop being tested only after a page was looked
at. `WorkingSetReported` compares it with the decrypted pages.

## 3. Runs

| Run | Checks | Shows |
|---|---|---|
| `coherence` | `TypeOK`, `Coherent` | a program that does anything but an unaligned dump reads back what it wrote |
| `tracking` | `Tracked`, `FewDecrypted`, `NoOverrun`, `WorkingSetReported`, `MemoryExact`, `CpuMemoryHeld` | without fork, and growing by whole pages, the queue knows all decrypted pages, at most `CLOCKSIZE` of them, is not overrun and is what `getpgtable` reports; no physical page is lost or owned twice |
| `progress` | `AccessCompletes`, `EvictsUnused`, `FaultServes` | accesses complete, faults serve their page and the clock prefers unused pages, even with a damaged queue |
| `fork_overrun` | `NoOverrun` (violated) | the child of a fork writes past `proc->nodes` |
| `log_crash` | `Atomic` | crash atomicity, as a refinement |
| `log_space` | `SpaceKept`, `SleepersWake` | the reservation suffices, and nobody sleeps for ever |
| `pipe_fifo` | `NoLostWakeup`, `Stream` | a FIFO queue across the wraparound, without lost wakeups but the one a killed writer owes |
| `console` | `NoLostWakeup`, `PanicsUnlocked`, `LinesDelivered` | console input in order, no lost wakeup, ^D seen, and `cons.lock` paired unless a page fault drops it |
| `locks` | `CpuInv`, `NoSpinCycle`, `InterruptsRestored`, `SleepsWhole`, `CountsExact`, `InUseKept`, `TreeShape`, `CyclesNeedPut` | spin locks: cli depths, interrupt flags and lock order kept across switches, sleeps of the right length; inode locks: reference counts exact, link counts too but for orphans, and directories a tree under concurrent lookups, links and removals |
| `proc_table` | `OneCpuEach`, `ParentAlive`, `WaitersWait`, `OrphansReaped` | exits, waits and kills on two CPUs |
| `block_cache` | `CacheInv`, `PanicWhenFull`, `SleepersHaveWaker`, `OneCopy` | the cache is one copy of each block, through recycling, pinning and the disk queue; it runs out of buffers only when each one is in use or pinned |
| `file_bytes` | `DiskInv`, `ReadsRange`, `WithinReservation`, `DescriptorsCounted`, `BytesInOrder` | files are arrays of bytes with shared offsets; blocks are owned once; chunks fit their transaction |

Some of these are conjunctions of named parts, each explained where it is
defined: `MemoryExact` (`TypeOK`, `PagesOwnedOnce`, `MapsItsSize` of `PhysMem`),
`SpaceKept` (`TypeOK`, `NoPanic`, `SleepersHaveWaker` of `Log`), `NoLostWakeup`
(`TypeOK`, `ReadersWait` and, in `Pipe`, `WritersWait`), `Stream` (`Fifo`,
`EndOfFile`), `LinesDelivered` (`InOrder`, `EofReported`), `CpuInv` (`TypeOK`,
`NoPanic`, `CliCounts` of `SpinLocks`), `SleepsWhole` (`SleepersWait`,
`NeverEarly`), `OneCpuEach` (`TypeOK`, `OnOneCpu`), `CacheInv` (`TypeOK`,
`OneBuffer`), `CountsExact` (`TypeOK`, `RefsExact`, `LinksExact`),
`InUseKept` (`NoPanic`, `UsersAlive`), `DiskInv` (`TypeOK`, `BlocksOwnedOnce`).

### Bounds

- `ClockVm`: queues of 2 to 4 slots and 3 to 5 pages. The queue fills, evicts,
  goes round and is shrunk with more user pages than slots; `MaxPages` is an
  end of the address space, at which `sbrk` is refused. Bytes 0..3 keep 0, its
  complement, and two ordinary bytes. Pages of 2 bytes tell whole from partial
  growth. `MaxInd` bounds `currInd` in descendants of forks: one to two forks
  beyond the array, which is past every comparison the code makes.
- `Log`: three blocks and two values tell old from new contents; 2 processes in
  the crash run, 3 in the space run so that one sleeps while two run. A call
  records fewer blocks than it reserves (`OpWrites < MAXOPBLOCKS`): the calls of
  the repository record at most 7 of 10. The header is one of the `LOGSIZE`
  blocks (`mkfs.c:25`, `log.c:218`), so `param.h:14` "max data blocks in on-disk
  log" is one too many, and `log_write` tests for a full log before it absorbs.
  With 30 blocks both together leave a call 8 of its 10 blocks (`Enough` of
  `LogProofs`); one that recorded more could meet the panic.
- `Pipe`: 3 processes (two of a kind against one), a buffer of 2, counters
  modulo 4, so that they wrap many times; calls of up to 3 bytes, so that a
  write fills the buffer and sleeps in the middle. `Console`: 2 processes and the
  keyboard, a buffer of 2, indices modulo 4.
- `Proc`: 4 slots on 2 CPUs. A chain of four processes is the shortest in which
  init inherits a zombie from a process that is not its own child; with 3 slots
  the wakeup of init in `exit` could be left out unnoticed. Pids end at 4, so
  slots are reused only after failed forks, and freed by `wait` otherwise.
- `SpinLocks`: 2 CPUs and 2 processes, so that both run, one changes CPU while
  the other holds a lock, or both sleep. Sleeps last one tick and `ticks` wraps
  at 2, so every second sleep spans the wrap; one of the processes is killed.
- `Bio`: 4 blocks in 2 buffers, for 2 processes that have up to 2 buffers each
  and a log that pins one (`MaxDirty`). So buffers are recycled while others are
  pinned, processes wait for each other's, and the cache runs out: `bget` panics
  in some behaviours. In the kernel `NBUF` is `3 * MAXOPBLOCKS` = 30, the log
  alone may pin `LOGSIZE - 1` = 29 of these, and 64 processes may each want one or
  two more, so nothing in `param.h` excludes the panic. `PanicWhenFull` therefore
  does not say that it is never reached, but that it is reached only when no
  buffer is left. With 3 buffers the states are too many for the run; the theorem
  is for every `NBUF`.
- `Inodes`: 3 inodes and 2 names: the root, a directory and a file with names in
  both. Calls make, find, rename by link and remove them, with the error exits
  (a name taken, a directory not empty, a name missing, a directory linked).
  With two processes a directory is removed while somebody is in it and gets a
  new name there before it is freed, so that `orphans` is not always empty.
  The calls satisfy `Downward`: `..` stands only where `sys_unlink` refuses it.
  Other paths through `..` are finding 7 of section 4.
- `FileData`: 2 files, 2 open files, 2 descriptors per process, blocks of 2
  words and 2 direct blocks; a write of 7 bytes takes four chunks and reaches
  the indirect block, 5 data blocks are too few for two full files. Writes are
  bounded by `MaxWrites`; 2 cover a rewrite and an overlap.
- `PhysMem`: 11 pages. Two processes fit and three do not, so each allocation of
  fork, exec and sbrk fails in some behaviour. A page table has 3 entries.

Processes are interchangeable in the pipe, console, lock, block and file runs,
which use symmetry and check safety only. Deadlock is not checked where a process
may simply stop making calls or the machine may have panicked (`ClockVm`, `Pipe`,
`Console`, `FileData`). In the lock run it is checked for `SpinLocks` only:
processes can block each other for ever in `Inodes` (section 4), and `LocksNext`
lets that half stutter.

### Fairness

- `ClockVm`: the processor retries a faulting access and takes its fault without
  waiting for anybody (weak fairness of `Complete \/ PageFault`).
- `Log`: a process in `begin_op` or between `begin_op` and `end_op` keeps
  running, commits and recovery finish because the disk answers. Nothing forces
  a process to start a call, and a sleeper is owed nothing but its wakeup.
- `Proc`: every scheduler scans the whole table, so init is chosen if it is
  runnable again and again (strong fairness); the clock interrupts every
  running process; devices wake their sleepers; init, which loops on `wait`
  (`init.c:34`), calls it whenever it could return a zombie often enough.

## 4. Disagreements between code and documentation

The run `fork_overrun` exhibits the first; PROJECT.json quotes the lines. The
others were found as TLC counterexamples and are stated by definitions that no
run lists; what to check to see them is given in brackets.

1. `fork` sets `currInd + 3` in the child (`proc.c:291`); with a partly filled
   queue the next fault writes beyond `nodes`. `tests/13.desc:1`: "child
   process's clock queue is properly cloned from parent's clock queue".
2. `growproc` does not move `currInd` back when the last entry goes
   (`proc.c:250`); a later page is stored outside the first `inClock` entries
   and stays in the clear. `proc.h:71`: "track the decrypted pages for the
   process". [`ClockVm!Tracked` with `Ops <- MCGrows` and negative `SbrkArgs`]
3. `mdecrypt` takes a first byte 0 in the frame for an error (`vm.c:467`), so a
   page whose plaintext begins with 0xFF cannot be decrypted. `trap.c:81` tells
   a decryption request from a fault by "If its encrypted bit is set?".
   [`ClockVm!RequestServed` with `Ops <- MCStores`, `Bytes` with `MAXBYTE`]
4. `cprintf` does not acquire `cons.lock` if its CPU holds it, but releases it
   (`console.c:63`): a console read or write whose user buffer is on an
   encrypted page ends in `panic("release")`. [`Console!NoPanic`]
5. `create` keeps the new inode locked while `iunlockput(dp)` takes the
   directory's lock again in `iput` (`sysfile.c:280`, `fs.c:333`); `unlink` has
   the directory locked and waits for the inode (`sysfile.c:210`). Two processes
   that create and unlink one name can wait for each other for ever.
   `usertests.c:855`: "another concurrent link/unlink/create test, to look for
   deadlocks". [`Inodes!NoWaitCycle`; `CyclesNeedPut`, which holds, says that
   every such cycle goes through an `iput` with another inode locked]
6. `link(x, ".")` hangs by itself: `dirlink` finds the directory under its own
   name and calls `iput` on it with its lock held (`fs.c:560`).
   [`Inodes!NoWaitCycle` with the call `MCLink(<<"a">>, <<".">>)`]
7. A removed directory keeps its `..`. If a process is in it and the parent is
   removed too, looking up `..` reaches a free inode, and `ilock` panics
   (`fs.c:310`). [`Inodes!NoPanic` with opens of `..`]
8. A disk read that fails leaves the buffer marked valid with what was in it
   before (`ide.c:118`). [`Bio!OneCopy` with `Faults = TRUE`]

The restrictions in the passing runs are necessary for more reasons of the same
kind. Each was seen as a TLC counterexample, by giving the run's configuration
the operation left out:

- growing by less than a page leaves a page in the clear outside the queue
  (`proc.c:209`), so `FewDecrypted` needs whole pages;
- a program that encrypts one page repeatedly fills the queue with it, and the
  fault on that page then evicts it for ever (`vm.c:536`), so `AccessCompletes`
  needs programs without `mencrypt`;
- `dump_rawphymem` into an unaligned buffer writes plaintext into an encrypted
  page (`vm.c:723`, `vm.c:396`), so `Coherent` excludes it;
- `mencrypt` skips a page that is not the user's and encrypts the others
  (`vm.c:582`), although `vm.c:569` announces a check before any change;
- a process killed between the test of `killed` and `sleep` in a pipe sleeps on
  (`pipe.c:107`);
- a killed writer that finds the buffer full again returns before it wakes
  anybody (`pipe.c:85`), and readers that slept on the buffer before it was
  filled sleep on with bytes to read, so `NoLostWakeup` of `Pipe` excepts pipes
  that a killed process has left (`KilledLeft`);
- a process may create a file in a directory that has been removed and is still
  its current one (`sysfile.c:277` does not look at `dp->nlink`); when the
  directory is freed its names go with its blocks (`fs.c:341`), nobody lowers the
  link counts of what they named, and those inodes stay allocated for ever. So
  `LinksExact` excepts `orphans`, and says that these have links left over;
- a `fork` that fails leaves its pid in the free slot, where `kill` marks it for
  the next owner (`proc.c:130`, `proc.c:285`).

## 5. Proofs

The theorems hold for every value of the constants that the named assumptions of
the modules allow, and for the hypotheses a theorem states itself. Where a
hypothesis is stated, the behaviour without it is in section 4 or under Bounds.

| Module | Theorem | States | Hypotheses |
|---|---|---|---|
| `ClockVmProofs` | `TypeCorrect` | `[]TypeOK` | |
| | `Coherence` | `[]Coherent` | no unaligned dump |
| | `Tracking`, `Bounded`, `FewInTheClear`, `Reported` | `[]Tracked`, `[]NoOverrun`, `[]FewDecrypted`, `[]WorkingSetReported` | `WholePages`: no fork, growth by whole pages |
| | `SecondChance`, `Served` | `EvictsUnused`, `FaultServes` | `WholePages`, no `mencrypt` |
| `LogProofs` | `Atomicity` | `Atomic`: `Log` implements `AtomicDisk` | |
| | `SpaceEnough` | `[]SpaceKept` | `Enough`: calls record at most 8 of 10 with the sizes of `param.h` |
| `PipeProofs` | `Wakeups`, `EndOfFiles`, `Streams` | `[]NoLostWakeup`, `EndOfFile`, `Stream`: `Pipe` implements `ByteQueue` | |
| `ConsoleProofs` | `Wakeups`, `Panics`, `Lines` | `[]NoLostWakeup`, `PanicsUnlocked`, `LinesDelivered` | |
| `SpinLocksProofs` | `Cpu`, `LockOrder`, `Restores`, `Sleeps` | `[]CpuInv`, `[]NoSpinCycle`, `[]InterruptsRestored`, `[]SleepsWhole` | |
| | `ExactCounts`, `KeptInUse`, `DirectoryTree`, `WaitCycles` | `[]CountsExact`, `[]InUseKept`, `[]TreeShape`, `[]CyclesNeedPut` of `Inodes` | `Configuration`: finitely many processes, inodes and names, well-formed calls; `Downward`: no path goes through `..` |
| `ProcProofs` | `RunsOnce`, `Parents`, `Waiters` | `[]OneCpuEach`, `[]ParentAlive`, `[]WaitersWait` | |
| | `PagesAccounted`, `CpuMemory` | `[]MemoryExact`, `[]CpuMemoryHeld` of `PhysMem` | `Configuration`: enough pages for init, images below `KERNBASE` |
| `BioProofs` | `Cache`, `Wakers` | `[]CacheInv`, `[]SleepersHaveWaker` | |
| | `PanicsWhenFull` | `[]PanicWhenFull` | |
| | `Copies` | `OneCopy`: `Bio` implements `BlockStore` | `~Faults`: the drive makes no errors |
| `FileDataProofs` | `Descriptors`, `Disk`, `Reservation`, `Ranges` | `[]DescriptorsCounted`, `[]DiskInv`, `[]WithinReservation`, `[]ReadsRange` | |
| | `Bytes` | `BytesInOrder`: `FileData` implements `ByteFile` | |

Each module first states its inductive invariant as a conjunction of named
parts, then the lemmas about the operators, then one lemma per action or group
of actions, and the theorems last.

**ClockVm.** `Coherent` is not inductive: `mencrypt` tests E and complements the
frame, so one must know that a user page without E is present and holds
plaintext. `CoherentInv` adds that every user page is present or encrypted, and
that the access in progress is one of the program's. `TrackInv` adds to `Tracked`
that while the queue fills `currInd` is `inClock`, that no entry is both present
and encrypted (so an evicted page leaves the set), and that `sz` is a whole
number of pages. `FewInTheClear` follows because the decrypted pages are the
image of the queue's slots. The two action theorems need the queue to be exact
(`QueueInv`): every entry is a decrypted page, and there once. `mencrypt` breaks
that, because it encrypts pages and leaves them in the queue. `HandStops` says
where the clock's hand stops: at the first entry not accessed, or, when all are,
where it started.

**WorkingSet.** The walk of `getpgtable` is a recursive function, so all that is
known of it is that it solves the equation of one turn (`Turn`), provided there is
a solution; `SolveNext` builds one page by page. What it returns then follows by
induction over the pages, with the set of pages where the claim holds in the
place of a predicate (`Upward`). A call whose `num` never equals the entries filled
lists the pages that are there and asked for, each once, down from the top
(`ListPages`), and the answer to a smaller `num` is the beginning of that list
(`WalkCut`). `PlaceInv` adds that user pages are below `sz` and have frames, which
keeps the walk above address 0 and makes the whole table complete; that every
decrypted page is in the list is `Tracked`.

**Log.** The inductive invariant has two halves. `Control` relates `outstanding`,
`committing` and the phase of commit or recovery. `DiskInv` says what is where in
each phase: the on-disk header is empty before the commit point and equals
`log.lh` after it (`Header`), the log blocks written so far are the buffers'
contents and those installed so far are home (`Progress`), the buffers not
dirty agree with the disk (`Clean`). Recovery needs `Consistent`, since a crashed
commit leaves log blocks that no buffer describes. Every step is then a step of
`AtomicDisk` or leaves its variables alone: the header's write is the commit,
clearing it changes nothing because all is installed. For the space,
`Reserved` says that the log's length and what the running calls may still
record stay within `LOGSIZE`; `log_write` uses up what its call has reserved,
`end_op` gives the rest back.

**Pipe.** What a sleeper saw before it slept still holds, or somebody who owes it
a wakeup is inside the critical section (`ReadersOwed`, `WritersOwed`); `Held`
says that only one process is. For the refinement, `RingBound` bounds the
distance of the wrapped counters, from which the cells in use follow modulo the
buffer size: the buffer size must divide the range of the counters, as it does
2^32 (`ModUnique` and the lemmas after it).

**Console.** `Held` says where the keyboard handler, readers, writers and
`cprintf` hold `cons.lock`, `Ring` that r, w and e stay in this order modulo
`UINT` and within the buffer. A page fault on a user buffer may drop the lock;
`Inv` does not exclude that, and `Panics` says that no panic comes without it.
`Ring` survives even then, since every step of the model reads and writes its
index at once.

**SpinLocks.** For each label of the code, `LocksOf` says which locks the CPU has
there, `DepthOf` that `ncli` counts them, `FlagsOf` that interrupts are off and
what `intena` will restore. A process that is off its CPU is parked just before
a release of `ptable.lock` with the `intena` of its own critical section
(`Parked`), so the depth and the flag are right on whichever CPU it continues.
Lock order follows: a CPU that spins with a lock in hand has `tickslock`.
`Naptime` compares the wrapped difference of `ticks` with the history `slept`.

**Proc.** `OnCpu`, `Forks` (an EMBRYO belongs to one fork) and `Family` (free
slots and embryos have no parent, the others a living one) are needed together:
`wait` frees a slot only because nothing else refers to it.

**PhysMem** (the second part of `ProcProofs`). Pages are counted by cells: `Fill`
gives the page in every place of an address space, of a space being built, in
`mem` and in `kstack`, and `Owned` says that each page is free or in exactly one
cell. Every step is then a page taken (`Taken`), the contents of a set of cells
given back (`Given`) or cells exchanged (`Swapped`): exec's commit exchanges the
old space and the new one, fork's end the child's empty space and the copy. What
makes the undo paths exact is `CallOk`: where each call is on its way and what
its locals then hold, with `LoopOk` for the loops of `allocuvm` and `copyuvm`
(the pages below `at` are mapped, and no other). `SlotOk` says what a slot has in
each state, that a loaded `cr3` is the directory of its process, and that a
zombie still on its CPU has `ptable.lock`, which keeps `wait` away from it. Sizes
come in through the lemmas on addresses: rounding up takes no page more
(`SameBelow`), and a loop that ends has reached exactly the rounded size
(`AlignedOnce`).

**Inodes** (the second part of `SpinLocksProofs`). None of the four properties is
inductive: that a freed inode is nobody's needs the counts, the counts need to
know what each call still holds, and that needs to know what other calls may have
done to the directories in the meantime. `InodeInv` has these together. `LocOk`
says for each stage of a call which of its variables are set, the stages it
reaches again after an `iput` included, and `LockOk` that the locks taken are
exactly those of the stages. References and links are counted as the contents of
cells: `Refs` has one cell for each variable of each process, and `RefsOk` makes
`ref` the number of cells with the inode; `Links` has a cell for each name, for
the `..` of each directory that has a name, for a link that `sys_link` has counted
and not entered or `sys_unlink` has erased and not discounted (`Pending`), and one
for the root. `LinksOk` makes their number `nlink` unless the inode is in
`orphans`, and less than `nlink` if it is. A step then changes the few cells of
its process or of one name (`RefsChange`, `LinksChange`), and changes `nlink` by
as much (`Balance`, `LinksBalance`); only the freeing of a directory empties cells
whose inodes keep their counts, and these are what `Forget` adds. `LinksCounted`
adds the cells up to the sum in `NumLinks`. `Alone`
says who has an inode to himself: a new one, and one that `iput` is about to free;
so a step of one process leaves what the others know intact (`OthersStep`), since
it changes only inodes that are its own or locked (`Confined`) and gains only
inodes that are not (`Reach`). `TreeOk` and `NoPair` are about the names: two
directories are never in each other, which is what rules out a cycle of two
`ilock`s. `Downward` comes in where a name leads to an inode: a name other than
`..` is counted in `nlink`, hence not free, but the `..` of a removed directory is
not; the code does not prevent that (finding 7), and the theorems do not claim it.

**Bio.** `Locks`, `Users` and `Counts` tie buffers to the processes that have
them, `Unique` is `OneBuffer`, `Requests` ties the driver's queue to the processes
asleep in `iderw`, `FewPinned` counts the dirty buffers that are not being
written. For `PanicsWhenFull`, a buffer that `bget` may not recycle has a count,
which by `Counts` is somebody's, or is dirty; if it is dirty and in nobody's
hands the log pins it (`NoneFree`). `Wakers` needs that the two pointers of a
process never lead to one buffer (`Apart`), since it would wait for itself.
`Synced` (without drive errors, an unchanged clean buffer agrees with the disk)
is what makes recycling a stuttering step of `BlockStore`.

**FileData.** The blocks of an inode are numbered by their place in the file,
and `Loc` gives the block of a number through the direct or the indirect block,
so that one owner per block becomes the injectivity of `Loc` (`Own`). An
indirect block is data to the disk: that storing the bytes of a file never
changes one is part of the proof of `StoreKeeps`, and follows from `Own`. `Inv`
adds what allocation and truncation rely on: an open file has an inode as long
as it has descriptors and an offset within the file (`EntryOK`), a call of write
works on an open file of its process, on a range that fits (`CallOK`), and who
copies to an inode has its lock (`Locks`). The second invariant, `CopyInv`, is
about the middle of a chunk: every position below the end of a file has a block
(`Backed`), what has been copied so far is where it belongs and the rest is what
`saved` has (`Copied`), and the blocks logged so far are the bitmap's, the
indirect one and those of the positions copied (`LoggedUpTo`). A turn of the
loop changes bytes of its own range only (`TurnBytes`), and the other inodes
keep theirs (`TurnKeeps`). `Reservation` counts: a range of `Room * BSIZE` bytes
touches at most `Room + 1` blocks (`BlocksTouched`), and `Room + 4` is at most
`MAXOPBLOCKS`, with one block of bitmap, as a disk of `FSSIZE` has. For the
refinement, the start of a chunk and its turns leave what `ByteFile` sees alone,
because the inode is locked, and the end is one write of all its bytes
(`EndContent`). `Ranges` is about a loop: `readi` is a recursive function, that is,
some solution of the equation that relates a turn to the later ones (`Turns`). The
bytes of the file solve it (`LoopReads`, from `Backed` and `SameBlock`), and two
solutions do not differ, since they would not at the last turn where they do
(`LoopOnce`).

Only model-checked:

- `AccessCompletes`, `SleepersWake`, `OrphansReaped`: liveness under fairness is
  out of the prover's reach.

All invariants that the passing runs check are proved.

## 6. Plan

1. (done) `ClockVm` with its runs and proofs; `Log` against `AtomicDisk`;
   `Pipe` against `ByteQueue`; `Console`; `Proc`.
2. (done) `Bio` against `BlockStore`; `Inodes`; `FileData` against `ByteFile`;
   `PhysMem`; `WorkingSet`; `SpinLocks`.
3. (done) Proofs of the safety properties of `ClockVm`, `WorkingSet`, `Log`, `Pipe`,
   `Console`, `SpinLocks`, `Inodes`, `Proc`, `PhysMem`, `Bio` and `FileData`, the four
   refinements included.

## 7. Not modelled

Boot, multiprocessor start-up, interrupt controllers, serial port and keyboard
drivers are hardware set-up. User programs and tests are clients: the models let
a program make any sequence of calls. `mkfs` only contributes the initial disk
of `Log` and `Inodes`. Number formatting, the display and debugging output are
left out, but for the lock `cprintf` takes. Of the modelled parts: `stat`, the
clean-up of `pipe(2)` when it runs out of descriptors, port I/O of the disk,
`memide.c` and the ELF format. A page fault of `mdecrypt` at an address without
a page table dereferences NULL (`vm.c:441`); `ClockVm` has one page table that
exists. PROJECT.json lists every part with its status, and the hazards no
property covers with the reason.
