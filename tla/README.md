# Formal models of the CS537 kernels

TLA+ models of the parts of this repository that are hard to get right and hard
to test, with TLC configurations for small instances and TLAPS proofs of the
invariants (all but the shell's) and of the four refinements. The repository holds the six projects of an operating-systems course: two
text filters (`p1`), a shell (`p3`), and four versions of the xv6 kernel. `p2`
adds system call counters, `p4` a round-robin scheduler with time slices and
sleep compensation, `p5` and `p6` encrypted memory. The kernels share most of
their files. What one project changed is modelled in that project's version,
and what they share is modelled once, from `p4/src`.

    tlc -workers 2 -config Log.cfg Log          # one run
    tlapm SchedProofs.tla                       # the proofs of a module

`PROJECT.json` lists the runs, the source lines of every definition, the
findings, the hazards and the theorems.

## 1. Inventory

| Component | State | Operations | What is hard | Module |
|---|---|---|---|---|
| Scheduler and process table (`p4/src/proc.c`, `trap.c`, `sysproc.c`) | `ptable.proc[]`, the list `head`/`tail`, `nextpid`, the current process | `scheduler`, `yield`, `sleep`, `wakeup`, `fork2`, `exit`, `wait`, `kill`, `setslice`, `getslice` | Interrupts between any two critical sections; lost wakeups; the current process must be the head of the list | `Sched` |
| Run queue (`push`, `pop` in `p4/src/proc.c`) | `head`, `tail`, `next` | `push`, `pop` | Stale `next` pointers; `pop` compares pids, not pointers | `RunQueue` |
| Scheduling statistics (`pstat.h`) | `schedticks`, `compticks`, `sleepticks`, `switches` | counted in `scheduler`, `wakeup1`; cleared in `allocproc`; read by `getpinfo` | Off-by-one at the end of a slice; compensation used twice | `SchedStats` |
| Log (`log.c`) | on disk: header and log blocks; in memory: `log.lh`, `outstanding`, `committing` | `begin_op`, `log_write`, `end_op`, `commit`, `recover_from_log` | A crash between any two disk writes; several calls in one transaction; reservation of space | `Log` |
| Buffer cache (`bio.c`), sleep-locks (`sleeplock.c`), disk driver (`ide.c`) | buffers with `B_VALID`, `B_DIRTY`, `refcnt`, their locks, the LRU list; the request queue | `bget`, `bread`, `bwrite`, `brelse`, `acquiresleep`, `releasesleep`, `iderw`, `ideintr` | A buffer given away while somebody waits for it; an interrupt against an append; several sleepers for one lock | `BufferCache` |
| File contents (`fs.c`, `file.c`) | free map, `addrs`, `size`, offsets | `balloc`, `bfree`, `bmap`, `itrunc`, `readi`, `writei`, `fileread`, `filewrite` | Two writers, chunk by chunk; stale words of a re-used block; the size of a transaction | `FileData` |
| Inodes, directories (`fs.c`, `sysfile.c`) | the inode cache, `ref`, `nlink`, entries | `iget`, `ilock`, `iput`, `ialloc`, `namex`, `dirlookup`, `dirlink`; `open`, `mkdir`, `chdir`, `link`, `unlink` | The last reference against a lookup; locks of two inodes at once | `Inodes` |
| File table and pipes (`file.c`, `pipe.c`, `sysfile.c`) | `ref`; ring buffer, counters, open ends | `pipe`, `dup`, `close`, `read`, `write`, `fork`, `exit`, `kill` | Both ends asleep; wrapping counters; the last close; kill | `Files` |
| Page allocator, page tables (`p5/src/kalloc.c`, `vm.c`, `exec.c`, `proc.c`) | free list, page directories, `sz` | `kalloc`, `kfree`, `fork`, `exec`, `sbrk`, `exit`, `wait`, `mencrypt`, `decrypt`, `dump_rawphymem` | Out of memory at every allocation; a page encrypted twice | `Memory` |
| Encrypted memory with a clock (`p6/vm.c`, `proc.c`, `trap.c`, `exec.c`) | page table with `PTE_E`, `PTE_A`; `clockqueue`, `clockhand`; `sz` | `mencrypt`, `mdecrypt`, `wsetinsert`, `wsetdelete`, `growproc`, `fork`, `exec`, page faults | Long sequences of faults and `sbrk`; partial failures | `WorkingSet` |
| Shell (`p3/mysh.c`) | the doubly linked alias list, the child | lines: `alias`, `unalias`, `exit`, commands with redirection | Sequences of aliases in memory that `malloc` hands out again | `Shell` |
| Everything else | - | - | - | section 7 |

How they interact: `sleep`/`wakeup` is the only way a process waits, so pipes,
locks, the log and the disk driver all run on the scheduler's promise that a
woken process runs. The file system calls the log, the log the buffer cache,
the cache the disk driver. `fork`, `exec` and `sbrk` are where processes meet
memory, `fork` and `exit` where they meet files.

Each module takes what it uses of another from that module's properties: `Log`
a cache that holds each block once and reads back what was stored
(`BufferCache!OneCopy`, `ReadsLatest`); `FileData` an inode that is not freed while
it is open (`Inodes!InUse`) and operations that commit as a whole
(`Log!Atomic`, of `MAXOPBLOCKS` blocks, which `FileData!OpFits` gives back);
`Inodes` and `FileData` locks that are handed on (`BufferCache!LockHanded`).

What makes each component correct:

* scheduler: nobody ready is outside the queue, nobody is in it twice, no
  wakeup is lost, every ready process runs, every zombie can be reaped;
* statistics: the numbers add up at every moment;
* log: all or nothing across crashes, and nothing outgrows its place on disk;
* buffer cache: one copy of a block, used by one process at a time, and every
  request served;
* files: references are counted exactly, a pipe is a bounded FIFO queue, a file
  a sequence of bytes, and what is open is not freed;
* memory: every frame has one owner, and every process its own memory;
* encrypted memory: what is readable is the working set, at most `CLOCKSIZE`
  pages, and no page is encrypted or decrypted twice;
* shell: the list is what the user defined, and what runs is what he typed.

## 2. Modules

| Module | Models | Uses |
|---|---|---|
| `ProcTable` | what `Sched` and `RunQueue` share: slots, pids and the run queue as a sequence | - |
| `Sched` | scheduler, process table, traps, process system calls of p4 | `ProcTable` |
| `SchedStats` | the statistics, counted on top of the unchanged steps of `Sched` | `Sched` |
| `RunQueue` | the linked list behind the sequence `queue` | `ProcTable` |
| `AtomicDisk` | abstract specification: what the log promises | - |
| `Log` | `log.c` over the cache and the disk | `AtomicDisk` (refinement) |
| `BufferCache` | `bio.c`, `sleeplock.c`, `ide.c` | - |
| `Channel` | abstract specification: bounded queues of bytes with two ends | - |
| `Files` | file table, descriptors, pipes, fork, exit, kill | `Channel` (refinement) |
| `Inodes` | inode cache, directories, and the calls on paths | - |
| `ByteFiles` | abstract specification: files are sequences, offsets move over them | - |
| `FileData` | free map, `bmap`, reads and writes | `ByteFiles` (refinement) |
| `AddressSpaces` | abstract specification: each process has pages of its own | - |
| `Memory` | frames, page tables, fork, exec, sbrk, encryption of p5 | `AddressSpaces` (refinement) |
| `WorkingSet` | encrypted memory and clock of p6 | - |
| `Shell` | `mysh.c` | - |
| `SchedProofs`, `LogProofs`, `BufferCacheProofs`, `FilesProofs`, `InodesProofs`, `FileDataProofs`, `MemoryProofs`, `WorkingSetProofs` | theorems (section 5) | the module they are named after; `SchedProofs` also `SchedStats` and `RunQueue` |
| `MC...` | sets used as constants by the `.cfg` files | |

Operators named `Mut...` are a definition of the model with one slip a
programmer could make (a dropped guard, an off-by-one, a missing wakeup). No
specification uses them. Put in the place of the original, each makes the
property it belongs to fail; `PROJECT.json` pairs them under `mutants`.

The models are of one CPU (the Makefiles boot with `CPUS := 1`), so the code between
the acquire and the release of a spinlock is one step: interrupts are off.
Everything else interleaves.

### Sched

`Tick` and `DeviceInterrupt` may happen whenever interrupts are on,
which is `Interruptible`: in the idle scheduler, in user space, and in the
kernel outside critical sections. `Tick` is the whole timer trap: `ticks++`,
`wakeup(&ticks)`, then `yield` or, for a killed process in user space, `exit`.

| Variable | Code |
|---|---|
| `state`, `pid`, `parent`, `killed`, `chan` | the fields of `struct proc` |
| `timeslice`, `activeticks`, `activesleepticks` | the fields p4 added |
| `left` | `sleepdeadline - ticks`: only the difference matters, and `ticks` itself would make the state space infinite |
| `queue` | the list from `head` to `tail`; that the pointers are a sequence is `RunQueue`'s result |
| `cur`, `spc` | `cpu->proc`, and whether the CPU is in the scheduler (idle or in its loop), in a process, or in `panic` |
| `pc`, `child`, `cslice` | where a process resumes; `np` and `slice` of a `fork2` in progress |

`fork2` is three actions, because interrupts are on in between: `ForkAlloc`
takes the slot under the lock, `ForkFail` is the path out of memory, `ForkPublish`
is the end under the lock. `wait` is split by what the scan of the table finds
(`WaitReap`, `WaitNone`, `WaitSleep`). All sleep loops of other subsystems
(pipes, log, disk, locks) are `SleepOn`, `SleepDone` and `SysWakeup` on a channel
of `Events`: whether their condition holds is free, so every interleaving the
real ones can have is covered. Early `-1` returns are `SysReturn`.

### SchedStats

Each action is an action of `Sched` with its effect on the counters.
`blockedOn` is a history variable: the channels a process has slept on.

### RunQueue

`push` and `pop` on the pointers, statement by statement (`PushList`, `PopList`),
beside the sequence `queue` of `ProcTable` they are meant to represent. `push` is called only for a process that is not
in the list (`QueueSound` of `Sched` shows callers keep to that), and two
processes in the list have different pids (`PidsUnique`); these are the guards of
the environment here. The module has a theorem (`QueueIsLinked`) and no run.

### Log

A step ends where the CPU may be lost with its effect visible: at each disk
write and each release of `log.lock`. A disk write of one block is atomic, since
`BSIZE` is one sector. `Crash` may happen before any step, also during recovery.
`LogWriteCheck` and `LogWrite` are separate because `log_write` looks at the size
of the log before it takes the lock. `begin_op` reserves `MAXOPBLOCKS` blocks for a
call; the calls of this file system write `OPBLOCKS` at most (section 4). The cache is what the log needs of it:
reading fills it, `Evict` recycles any buffer that is neither held nor
`B_DIRTY`, at any time.

`Atomic` is the refinement: `stable` is what recovery would leave on disk if the
machine stopped now (the header's blocks from the log, the others from home),
`volatile` what a reader sees, and a process is `in`, `ending` or `out` of a call
by its `pc`. The step that becomes `AtomicDisk!Commit` is the write of the header,
and all other disk writes, installation included, leave `stable` alone.

### BufferCache

A step is what one of `bcache.lock`, a sleep-lock's `lk` or `idelock` protects. The
parts that are separate in the code are separate here: a hit in `bget` counts
the reference (`BgetHit`) before `acquiresleep` is entered (`AcquireSleep`,
`AcquireGot`); `brelse` gives the lock away (`Release`) before it drops the
reference and moves the buffer in the LRU list (`Put`). A wakeup makes all
sleepers of the channel ready; each tests again. `Ideintr` is the whole handler:
take the head off, finish it, wake its process, start the next. Of a block's
content the model keeps whether it is what was last stored there. `Pin` is
`log_write`, which sets `B_DIRTY` without writing.

### Files and Channel

A step is what `ftable.lock` or a pipe's lock protects; `fileclose` is two, since
it frees the entry before it closes the pipe, and the entry may be re-used in
between (`ff` is its copy). `pipe()` is three steps and a way back at each.
`PipeRead` and `PipeWrite` go on until the call returns or sleeps: in between the lock is
held. The counters are of a word `WORD` that wraps. Which descriptor
number refers to a file does not matter, so `ofile[p][f]` counts them.
Processes are those of p2, p5 and p6, where `kill` makes a sleeper ready; p4's
does not (section 4). `Channel` says that a step adds bytes at the end of one
queue up to its capacity, or takes them from the front, or closes an end, and
that a new channel is empty.

### Inodes

A step ends where a lock is taken or `icache.lock` is released, because there
another process may come in. `iput`, called from nearly everywhere, is three
steps: the test under the inode's lock, the freeing, and the decrement under
`icache.lock`; `CallIput` says where its caller goes on. `namex` is a loop of one
step per element. The log's operations have no effect here: `begin_op` and
`end_op` exclude nothing. Directories are functions from names to inode numbers.
`dotdot` is a directory's `..`, which counts in its parent's `nlink`, as in the
code. `.` and `..` are looked up where that takes a lock in a new order, as the last name
of `link`'s second path (`Enter`): `dirlink` finds them, and puts them back while it
holds the directory.

### FileData and ByteFiles

`filewrite` is a loop over chunks; a chunk begins (`WriteBegin`: `begin_op`,
`ilock`, the checks of `writei`), writes block after block (`WriteBlock`: `bmap`
with the allocations it needs, then the words), and ends (`WriteEnd`: size,
`iupdate`, offset, unlock, `end_op`). A block has `BSIZE` words, and an indirect
block holds pointers in the same words, so that stale data would be followed as
pointers. A process writes its own number, so every word tells who wrote it.
`fileread` is one step: it holds the inode's lock throughout. In the refinement a
chunk counts as written when it begins, since the inode is locked until it ends.

### Memory and AddressSpaces

Frames hold what they are used for: nothing, a kernel stack, a directory, a
table, or a user page with one byte. `Pte` walks through the directory as
`walkpgdir` does; `mappages` takes a second frame for a table when needed. `fork`
and `exec` are loops of one step per allocation, each of which may find the free
list empty, and `Bad` is the way back. `Kalloc` takes any frame, the same for the
same free list; the order of the list is left out. A page fault on an
encrypted page is `decrypt`; user programs store, encrypt, grow, shrink and dump.
`copyout` writes raw bytes, also into an encrypted page; with `EncryptedDumps`
user programs ask for that (section 4).
Sizes wrap at `WORD` as `sz + n` does. In `AddressSpaces` a page changes
only by a store of its own process, a new page is zero, and a new process has a
copy of its parent's pages.

### WorkingSet

One process: page table and clock are its own, `fork` copies both, and faults and
system calls of one process do not overlap. The contents of a page are `plain`,
`neg` (complemented) or `mixed`; encryption flips the first two. The guard page
is present but not accessible to the user, so a hit is handled like a page to be
decrypted and retried (`GuardFault`, `stuck`). `Touch` may or may not follow an
access: the code clears `PTE_A` without flushing the TLB, so the bit may stay
clear. Sizes count units of which a page has `PGSIZE`, so that unaligned `sbrk`
calls exist. `odd` is a history variable: since `exec`, `sbrk` was called with
something else than whole pages up. `Deleted` is the loop in which `growproc`
takes the pages it frees out of the clock, one `wsetdelete` (`DeleteAt`) for each.

### Shell

A line is a sequence of words, a word a sequence of pieces, and `>` is a piece: `a>f`
is one word, which is what aliases and built-in commands are compared with, and
three pieces, which is how the redirection cuts it (`Pieces`). A step is a line.
`mem` is the memory of the nodes, including what a freed node still contains,
and `malloc` returns the node freed last, as the C library does with chunks of
one size. In batch mode a new node's `next` is set to null, in interactive mode it
is not, and both loops are otherwise the same code. `Chain` is the walk along
`next`; a walk that meets a node twice or a freed one has no end we could rely
on, and the shell is `lost`. `aliases` is the history of definitions, the
reference for the list; `leftover` says that a node was linked whose `next` was
not null; `most` is the greatest number of words a node was ever given.

## 3. Runs

| Run | Module | Shows | Instance |
|---|---|---|---|
| `sched_live` | `Sched` | `QueueOK`: the current process is the head, nobody is queued twice or without being able to run, everybody ready is queued. `PidsUnique`. `WaitSound`: no lost wakeup in `wait`. `ParentLive`: no zombie without a parent. Under fairness: every ready process runs, `sleep` ends, `wait` returns | 3 slots, 3 pids, forks that fail, one pid that is killed |
| `sched_stats` | `SchedStats` | `TypeOK`, `TurnsOK` (every tick charged once, turns end on time), `CompWithinSleep` | 2 slots, slices 1 and 2, sleeps of 2 and of -1 ticks, a pipe to block on |
| `log` | `Log` | `Atomic`: all or nothing, across crashes at every disk write. `OpsSound`: a commit runs alone, a sleeper has somebody to wake him, no buffer that is recycled held an update. `LogFits`; `SleeperWakes` under fairness | 2 calls at a time that reserve 2 blocks and write 1, 3 blocks of 2 values, a log of 4 blocks, header included |
| `bufcache` | `BufferCache` | `CacheOK`: one copy of a block, references exact, a lock with its owner. `ReadsLatest`. `QueueServed`: the drive works on the head of the queue. `WaitersServed` under fairness | 3 processes, 2 buffers, 3 blocks |
| `files` | `Files` | `RefsOK`: entries of the table and ends of pipes are counted exactly. `NoLostWakeup`. `PipesAreChannels` (refinement). `KilledExits` under fairness | 2 processes, 2 entries, 2 descriptors each, a pipe of 2 bytes, counters modulo 4 |
| `inodes` | `Inodes` | `CacheOK`: references exact, one entry for an inode, and it agrees with the disk. `InUse`: nothing is freed under a user. `LinksCover` | 2 processes, one that makes things and one that removes them; 3 inodes, 3 cache entries, 2 names, `.` and `..` |
| `file_data` | `FileData` | `BlocksOK`: the free map is exact and every block has one owner. `DinodeCurrent`. `OpFits`: a chunk writes no more than it reserved. `FilesAreBytes` (refinement) | 2 processes, 2 files, 2 open files, 4 blocks of 2 words, 1 direct block, writes of 3 words |
| `memory` | `Memory` | `FramesOwned`: every frame is free or has one owner. `SizeOK`: what is below `sz` is mapped and nothing else. `PrivateMemory` (refinement) | 3 processes, 14 frames, 4 pages of 2 addresses, 3 entries in a page table; two of the processes fork, encrypt and store |
| `working_set` | `WorkingSet` | `ClockOK`; `ContentMatches` for `sbrk` of any size and sign; `SetIsResident` while a process grows by whole pages; `GuardKills` under fairness | 3 clock entries, 6 pages of 2 addresses |
| `shell` | `Shell` | `ListOK`: the list is the aliases defined, and its memory is accounted for. `RunsCommand`: what the child executes is what was typed or defined | 3 nodes, lines of up to 5 words, `>` with and without blanks, both modes |
| `sched_kill` | `Sched` | fails, see section 4 | 2 slots |
| `inodes_deadlock` | `Inodes` | fails, see section 4 | 2 processes that create, link and unlink one name |

Why the bounds are enough:

* `Sched`: with as many pids as slots, a fork that fails gives its slot, with its
  pid, to the next one. Two processes and a child that is orphaned are all
  `wait` and `exit` tell apart. At the bound `fork` fails as with a full table. The
  theorems remove the bounds on slots and pids for every invariant of this run.
  `Events` is empty there and has a channel in `sched_stats`, where devices and
  other system calls sleep and wake. `SlicePids` has a pid that is there, one
  that is not, and that of a free slot.
* `SchedStats`: slices of 1 and 2 together tell a turn that is one tick too long.
  There are no `setslice` calls: a slice changed in the middle of a turn makes
  `TurnsOK` a statement about nothing. `MaxSched` ends a behaviour after that
  many ticks on the CPU for one process: several turns, with a sleep in between. A
  sleep of -1 ticks is due before it begins, as one of 0 is.
* `Log`: the log has the size `mkfs` gives it, `nlog = LOGSIZE`, so with its header one
  block less than `begin_op` hands out. `LOGSIZE = 2 * MAXOPBLOCKS`: two calls are let in on an
  empty log, and a call that comes when one is inside and a block is logged sleeps in
  `begin_op`. Three blocks make transactions that differ; two values tell old from new.
* `BufferCache`: three processes for two buffers, so that one waits for a lock, one
  for the disk, and a recycled buffer is asked for again.
* `Files`: counters modulo 4 for a buffer of 2 wrap after four bytes; a message of
  three bytes does not fit, so that a writer sleeps in the middle; two entries
  are just enough for one pipe, so that `pipe()` also fails after its first entry.
* `Inodes`: `x` may be a file or a directory with `y` in it, so that there are
  paths through something that is removed, and in `x/.` and `x/..` links to names
  that are there. Three inodes and entries run
  out. `MAXLINK` bounds links to a file.
* `FileData`: one direct block and an indirect one of two entries: every file
  passes the border. Two files of three blocks, and one more for each indirect
  block, do not fit on the disk. Writes of three words begin and end inside
  blocks. Files and open files are interchangeable, hence the symmetry;
  no liveness is checked with it.
* `Memory`: 14 frames are not enough for three processes, so that every `kalloc`
  in `fork`, `exec` and `sbrk` is once the one that fails. Four pages need two
  tables of three entries. `Written` is the page of the stack, which is
  encrypted, stored to and dumped into, and which `fork` copies while it is encrypted.
* `WorkingSet`: three entries are the least in which the hand can be before, at
  and behind a deleted entry; with six pages the clock replaces pages several
  times. `Spans = {FALSE}` keeps the buffer of `dump_rawphymem` within a page
  (section 4).
* `Shell`: three aliases are a first, a middle and a last one; one of
  them is defined with one and with two words, in either order. Redirections are in every
  position, as a word and inside of one.

Deadlock is checked in every run. A panicked kernel, a killed process, calls that
wait for each other's locks (section 4) and a reached bound stutter explicitly
(`Halted`, `Stuck`, `Over`, `AtBound`).

Fairness, and why the code justifies it:

* `Sched`: the scheduler loop is the only thing that runs when no process does
  (weak fairness). A timer interrupt stays pending while interrupts are off
  (strong fairness of `Tick`). Kernel code progresses when it has the CPU, which
  the timer may take away between its steps again and again (strong fairness of
  `KernelStep`). User space and devices owe nothing.
* `Log`: the scheduler runs what is ready (`EveryRunnableRuns`) and the disk
  completes its requests (weak fairness of commit, recovery, `begin_op`'s loop and
  `log_write`); a file system call writes a bounded number of blocks, so it
  reaches `end_op` (strong fairness of `EndOp`). `Crash` is never forced.
* `BufferCache`: the drive interrupts when it is done, and what is ready runs (weak
  fairness); whoever holds a buffer does a bounded number of things with it and
  then calls `brelse` (strong fairness of `Release`, which every `bwrite` disables
  for a while). Nothing is said about which of several sleepers gets a lock, and
  `WaitersServed` does not claim that each of them does: it is woken, and may
  find the lock taken again.
* `Files`: a process in a system call goes on when it can, and a killed
  process exits on its way back to user space (weak fairness). Nobody has to
  call anything.
* `WorkingSet`: the instruction that faulted is executed again.

## 4. Where the code does something else than it says

Two runs state what comments of the repository say, and fail.

| Run | The code says | What happens |
|---|---|---|
| `sched_kill` | "Wake process from sleep if necessary." | p4's `kill` sets RUNNABLE without `push`: the process is never scheduled, never exits, and its parent waits for ever |
| `inodes_deadlock` | "The separation also helps avoid deadlock and races during pathname lookup." (`fs.c:149`), and of the test that does the same: "another concurrent link/unlink/create test, to look for deadlocks." (`usertests.c:855`) | `create` and `unlink` drop the directory while they hold the inode (`sysfile.c:225`, `280`), and `iput` locks what it drops to look whether it is to be freed (`fs.c:334`). Another call that comes down the path holds the directory and waits for the inode |

The models contain more disagreements. The properties of the passing runs make
room for them, as said.

Scheduler (`p4/src`):

* `getslice` of an unknown pid acquires the lock it holds and panics
  (`proc.c:735`): `GetSlice` of such a pid leads to `panic`, and the liveness
  properties except a panicked kernel.
* `kill(0)` (or the pid of a fork that failed) marks a free slot, and `allocproc`
  does not clear the mark: the next process is born killed (`proc.c:634`; a
  `Kill` of such a pid followed by `ForkAlloc`).
* The compensation of one sleep is used again after each later block in `wait` or
  on a pipe, because `wakeup1` resets `activeticks` and not `activesleepticks`
  (`proc.c:606`): `CompWithinSleep` without its condition on `blockedOn` fails.
* `sleepticks`, "number of ticks during which this process was blocked"
  (`pstat.h:12`), counts only ticks in `sys_sleep`; `switches`, "total num times
  this process has been scheduled" (`pstat.h:13`), counts only turns that expire.
* `RunnableQueued`, `EveryRunnableRuns` and `WaitReturns` except killed
  processes because of `sched_kill`.

File system (`p4/src`, the same in all four kernels):

* `mkfs` makes a log of `LOGSIZE` blocks, header included (`mkfs.c:25`), one fewer
  than `begin_op` hands out ("max data blocks in on-disk log", `param.h:11`). Calls that used all
  of their `MAXOPBLOCKS` would meet `log_write`'s panic, and two that pass its unlocked check
  together (`log.c:218`) would write behind the log: `LogFits` fails with
  `OPBLOCKS = MAXOPBLOCKS`. The calls of this file system write fewer than the 10 blocks they
  reserve, because its bitmap is one block (`FSSIZE` is 1000): a chunk of `filewrite` 7 at most
  (4 of data, the indirect block, the bitmap, the inode), `mkdir` 6, `link` and `unlink` 5, and
  one more where the path led through a directory removed meanwhile. That one
  block is left is enough (`LogNeverOverflows`). A bitmap of several blocks would use up the reservation:
  `OpFits` is `MAXOPBLOCKS` and no less.
* There are more circles of the kind `inodes_deadlock` finds. `dirlink` puts back what it found under a
  name while it holds the directory (`fs.c:559`): in `link(f, "d/.")` that is the
  directory itself, for which the process waits for ever, and in `link(f, "d/..")` the parent, which
  an `unlink("d")` may hold while it waits for `d`. The model has all of them, and `Stuck` is the state.
* Of two `iput`s of an unlinked inode that both see the other's reference, none
  frees it (`fs.c:327`): the inode stays allocated and in no directory. The model has
  the leak; `InUse` and `LinksCover` are one-sided.
* A file can be created in a directory that was removed while `create` was on the
  way to its lock. It is in no path, and is freed with the last reference.
* A writer that is killed while the pipe is full returns without waking the
  readers (`pipe.c:85`): `abandoned` in `NoLostWakeup`. The next write or close
  wakes them.
* A read error of the disk leaves the buffer as it was and marks it
  `B_VALID` (`ide.c:118`); the models have a disk that works. `bget` panics when all
  buffers are in use or pinned (`bio.c:92`), and `Halted` is that state.

Memory:

* p6, `growproc(n < 0)` frees pages, then removes the wrong ones from the clock and
  fails (`p6/proc.c:193`): the size stays, and the next `fork` panics
  (`p6/vm.c:362`), although "Return 0 on success, -1 on failure." Growth that is
  not aligned encrypts one page too few (`p6/proc.c:176`). `odd` excepts both:
  `SetIsResident` without it fails.
* p6, `dump_rawphymem` into a buffer that spans two pages writes plain bytes into an
  encrypted second page (`p6/vm.c:575`): `ContentMatches` fails with
  `Spans = {TRUE, FALSE}`.
* p6, `PTE_A` is cleared without a TLB flush (`p6/vm.c:613`): a page in use may look
  unused. `Touch` may fail to happen for that reason; no property needs it to.
* p5, `dump_rawphymem` into an encrypted page: `copyout` stores raw bytes (`p5/src/vm.c:542`), and the
  process, once the page is decrypted, reads their complement, although the call is to "dump the
  raw content of one physical page" (`p5/src/sysproc.c:126`). `PrivateMemory` fails with
  `EncryptedDumps = TRUE`.
* p5, `getpgtable` compares `i * PGSIZE > sz` (`p5/src/vm.c:516`) and may report one page too many; it
  changes nothing.

Shell (`p3/mysh.c`):

* The interactive loop does not set `new_node->next` (line 188). A node that
  was freed with a successor brings it back into the list, which then has a circle or
  a freed node, and the shell hangs or worse: `pc = "lost"`. `leftover`
  excepts these behaviours; `ListOK` without `Clean` fails.
* An alias that is defined again with fewer words, or in memory that was an alias of more
  words, keeps the rest of the old ones, against "if so, replace its current path" (lines
  178-179): `addNodePath` writes no null behind the new words. `RunsCommand` is exact as long as
  the node was never given more words than now (`most`), and says of the others that the new words
  come first; without that condition it fails.
* The word that is looked up in the aliases ends at a blank: `a>f` runs the program `a` and not the
  alias.
* An alias runs without looking at redirection or further words on its line.

## 5. Proofs

All theorems hold for every value of the constants under the named assumptions of
the module that declares them. "If" in the table is a hypothesis of the theorem
itself.

| Theorem | Says | If |
|---|---|---|
| `SchedProofs!TypeCorrect` | `TypeOK` | |
| `SchedProofs!QueueCorrect` | `QueueOK`, that is `CurIsHead`, `QueueSound`, `RunnableQueued` | |
| `SchedProofs!PidsCorrect` | `PidsUnique` | |
| `SchedProofs!WaitCorrect` | `WaitSound`: no lost wakeup in `wait` | |
| `SchedProofs!ParentCorrect` | `ParentLive`: no zombie without a live parent | |
| `SchedProofs!TurnsCorrect` | `TurnsOK`: no turn is too long, and the numbers add up | `SlicePids = {}` |
| `SchedProofs!CompensationCorrect` | `CompWithinSleep` | `SlicePids = {}` |
| `SchedProofs!QueueIsLinked` | `Linked`: the pointers represent the queue | |
| `LogProofs!OpsCorrect` | `OpsSound`: commits run alone, sleepers have a waker, no update is evicted | |
| `LogProofs!LogNeverOverflows` | `LogFits` | `nlog >= LOGSIZE`, `OPBLOCKS < MAXOPBLOCKS`, `MAXOPBLOCKS < LOGSIZE` |
| `LogProofs!LogIsAtomic` | `Atomic`: the log implements `AtomicDisk`, crashes included | |
| `BufferCacheProofs!CacheCorrect` | `CacheOK`: one copy, exact references | |
| `BufferCacheProofs!QueueCorrect` | `QueueServed`: the drive works on the head of the queue | |
| `BufferCacheProofs!ReadsCorrect` | `ReadsLatest` | |
| `FilesProofs!RefsCorrect` | `RefsOK`: references and ends are counted exactly | |
| `FilesProofs!WakeupsCorrect` | `NoLostWakeup` | |
| `FilesProofs!PipesRefineChannels` | `PipesAreChannels`: pipes implement `Channel` | |
| `InodesProofs!CacheIsExact` | `CacheOK`: references exact, one entry for an inode, agreeing with the disk | |
| `InodesProofs!UsedIsNotFreed` | `InUse`: no inode is freed under a user | |
| `InodesProofs!LinksAreCounted` | `LinksCover`: `nlink` covers the entries | |
| `FileDataProofs!BlocksCorrect` | `BlocksOK`: marked blocks are owned once, no panic | |
| `FileDataProofs!DinodeCorrect` | `DinodeCurrent` | |
| `FileDataProofs!OpCorrect` | `OpFits`: a chunk logs what it reserved at most | |
| `FileDataProofs!FilesRefineBytes` | `FilesAreBytes`: files implement `ByteFiles` | |
| `MemoryProofs!FramesAreOwned` | `FramesOwned`: every frame is free or has exactly one pointer to it | |
| `MemoryProofs!SizesAreMapped` | `SizeOK`: the pages below `sz` are mapped and no others, no panic | |
| `MemoryProofs!MemoryIsPrivate` | `PrivateMemory`: the kernel's memory implements `AddressSpaces` | `~EncryptedDumps` |
| `WorkingSetProofs!ClockCorrect` | `ClockOK` | |
| `WorkingSetProofs!ContentsCorrect` | `ContentMatches`: no page is encrypted twice | `Spans \subseteq {FALSE}` |
| `WorkingSetProofs!WorkingSetCorrect` | `SetIsResident` | |

Each hypothesis is a condition under which the run has the property too, and
sections 3 and 4 say what the code does without it: a slice set in the middle of
a turn, a call that uses its whole reservation, a dump into an encrypted page, a dump into a
buffer that spans two pages. `param.h` and `mkfs.c` have `nlog = LOGSIZE = 3 * MAXOPBLOCKS`. `OpsCorrect`
and `LogIsAtomic` are about `dlog`, which has `LOGSIZE` places whatever `nlog` is.
They speak of the real disk where `LogFits` says that all places in use are on it.

The assumptions on constants:

* tables, blocks, words and slices have a positive size, pids are natural
  numbers, and the channels of `Sched` are not `&ticks` or `wait`'s;
* `None`, `NotCached` and the like are not in the sets they are added to;
* what is counted is finite: `Ops`, the `Procs` of `BufferCache`, `Files` and
  `Inodes`, `Names`, `Inodes` of `FileData`;
* `Files`: `WORD % PIPESIZE = 0`, as 2^32 is a multiple of 512. It is needed: where
  the counters wrap, `nread % PIPESIZE` would jump otherwise. There is a byte;
* `FileData`: `MAXOPBLOCKS >= 6`, so that a chunk has at least a block; `Procs`
  are positive numbers, since they are what is written;
* `Log`: one call fits, `MAXOPBLOCKS <= LOGSIZE`, and writes no more than it reserved,
  `OPBLOCKS <= MAXOPBLOCKS`;
* `Memory`: an address space has two pages at least, the first process fits into
  the frames, and the fields of a program header are natural numbers, because
  they are unsigned. `sbrk` may be called with anything within `KERNBASE`, which
  keeps `sz + n` in the word.

Every inductive invariant below was checked with TLC before it was proved.

### Sched, SchedStats and RunQueue

Not even `TypeOK` is inductive by itself: `ForkPublish` indexes the table with
`child[p]`, which is a slot only while the fork is in progress. The inductive
invariant of the queue is

    SInv == TypeOK /\ CurSpc /\ CurIsHead /\ QueueSound /\ RunnableQueued
            /\ PidsUnique /\ ForkOwned

`CurSpc` says that a process has the CPU exactly when the scheduler has not.
`ForkOwned` says that every fork in progress owns an EMBRYO of its own, so that
two forks cannot publish one slot. `PidsUnique` is needed because `pop` compares
pids: only with distinct pids is it `Tail` (`PopTail`). `CurIsHead` is needed for
`sleep`, which pops the head and means the current process. The steps are
grouped by their effect on the queue: those that leave it alone (`QuietStep`),
`SleepStep`, `DropStep`, `ExpireStep`, `RunStep`, wakeups (`WakeStep`, resting on
`WakeQueue`: appending sleepers, who are not queued, keeps the entries distinct),
and the process steps `AllocStep`, `FailStep`, `PublishStep`, `ReapStep`,
`KillStep`, `ExitStep`.

The family properties need `SInv` and

    FInv == InitLive /\ Rooted /\ ParentLive /\ WaitSound

init never exits, so there is always somebody to inherit; nobody is its own
parent, so an exiting process does not wait for itself. The hard case is
`FamilyExit`: the parent of the exiting process is woken, and init too if it
inherits a zombie, so nobody who sleeps in `wait` has one.

For the list, `ListInv == ListTypeOK /\ Linked /\ DistinctPids`.

`SchedStats` adds to `SInv` a statement about each process, `ProcInv`: what it
starts with (`Fresh`), that every sleep is in `blockedOn` (`Recorded`), that the
turn so far is within slice and compensation (`Within`), that `schedticks` is
switches times slice plus this turn, with no compensation, for who never blocked
(`Accounted`), and that the compensation used and still to be used is covered by
the ticks slept and, during a sleep, those still to be slept (`Covered`). Since the steps of `Sched` are used unchanged, the
proof takes `SInv` as it is; the new work is one step for every kind of count.

### Log

    LInv == TypeOK /\ Distinct /\ BootInv /\ CacheInv /\ HeldInv /\ CommitInv
            /\ HeaderInv /\ LogInv /\ SpaceInv /\ CountInv /\ SleeperHasWaker

`HeaderInv` and `LogInv` say what disk, log and header have at each step of commit
and recovery: the log holds what the cache has up to `tail`, home has what the log
has up to `tail`. `SpaceInv` is the argument of `begin_op`: the log's length and the
blocks its calls have not used yet (`Unused`, pairs of a call and a number) are
within `LOGSIZE`; a call that is let in reserves `MAXOPBLOCKS` pairs, a block appended takes
one away. That is `LOGSIZE` blocks, and the log of `mkfs` has `LOGSIZE - 1`. For
`LogNeverOverflows` a call never uses the last place of its reservation (`Spare`), so the log is
shorter than `LOGSIZE` (`SlackInv`). The check of `log_write` asks for one place more, and without
the lock: `TightInv` says that two calls leave two places, that a call which has ended since the last
commit has returned one, and that otherwise the blocks in the log are the one call's own, fewer than
its reservation.

For `Atomic` each step is shown to be a step of `AtomicDisk` or to leave
`stable`, `volatile` and the phases alone. The write of the header is `Commit`:
before it, `stable` is the disk, after it, the log's blocks over the disk, and
`LogInv` says that these are the cache's. `Crash` at any place leaves `stable`.

### BufferCache

    BInv == TypeOK /\ OneCopy /\ RefInv /\ OwnInv /\ QueueServed /\ PcInv /\ DataInv

`RefInv` is exact: `refcnt` is the number of processes that use the buffer, the ones
on their way to its lock included. So a buffer with none is nobody's, and `bget` may
give it away. `DataInv` ties buffers to the disk: what is valid is new, what is
dirty is valid, and a block whose buffer is not dirty is new on disk. `bget` scans
the list for the first match; that the scan finds one, and the last free one from
the back, rests on a least (or greatest) position, not on induction.

### Files and Channel

    FInv == TypeOK /\ RefsExact /\ EndsCounted /\ EntryInv /\ LocalInv
            /\ NewInv /\ UseInv /\ FillInv /\ NoLostWakeup

`NewInv` is needed because `sys_pipe` fills an entry that `filealloc` had counted,
and `pipealloc` sets its fields outside the lock: nobody else may know the entry
by then. `UseInv` says that who is asleep in a pipe has a descriptor for that end, so
that the pipe is not freed below it. `FillInv` is about counters that wrap: the
difference modulo `WORD` is at most `PIPESIZE`. Counting the references of an entry is
a sum over processes, and each step changes it by one summand.

For `PipesAreChannels`, the queue of a pipe is the bytes from `nread` on, each found
at its counter modulo `PIPESIZE`. Two counters less than `PIPESIZE` apart do not
share a place, so a byte stored does not overwrite one in the queue (`BytesPut`),
and reading takes from the front (`BytesTake`).

### Inodes

    NInv == VarInv /\ Good(icache, dinode) /\ RefsExact /\ LockInv /\ TreeInv
            /\ CountInv /\ \A p \in Procs : ProcInv(p)

`RefsExact` is exact: `ref` counts the pointers of all processes to the entry,
six variables of each, and a step changes the count by what its own process
gains and loses. `Good` is the agreement of cache and disk, and `LockInv` says who
keeps which lock, and that a locked entry is in use. `CountInv` is the argument for
links: entries for an inode, the `..` of the directories in it, and the links that
calls under way have counted and not entered, or removed and not yet uncounted
(`Claims`), are together at most `nlink`. Without the claims it is not inductive:
`link` counts first and enters a good while later, and `unlink` the other way
round. `TreeInv` says that two directories are not in each other.

`ProcInv` says for each place of a call which pointers it has (`LocalAt`), and
three facts about what nobody else can do meanwhile: what `iput` is about to free has
no link and nobody uses it (`TruncAt`), what `create` has allocated and not
yet entered is known to nobody (`NewAt`), and what `unlink` found is still in the
directory it holds (`ChildAt`). `UsedIsNotFreed` follows. It is not
that a freed inode has no other reference: `link` to the `..` of a directory that was removed finds the
number of an inode that may be about to be freed, or free already, refers to it only to put it back, and
does not look at it (`DotsInv`: it is an inode's number).

### FileData and ByteFiles

    DInv == TypeOK /\ RegInv /\ LockInv /\ OffInv /\ OwnInv /\ ExtentInv
            /\ DiskInv /\ LogInv /\ TextInv

(and that `dinode` is a function on the inodes). `OffInv`: no offset is past the end
of its file, so `writei`'s first check never fails and there are no holes.
`OwnInv`: pointers that are not null are different, and point to exactly the marked
blocks; this is what `balloc` of a free block and `itrunc` of all keep. `ExtentInv`:
a file has a pointer for block `k` just when its words need block `k`, where a chunk under way
counts with what it has written; so `bmap` is asked for a new block only where there
is none, and `readi` finds all blocks. `LogInv`: what a chunk has logged is among its
data blocks, their bitmap blocks, and the indirect block with its own (`Loggable`).
A chunk of `K` blocks' length, `K = (MAXOPBLOCKS - 4) \div 2`, touches `K + 1` data
blocks, and if it touches that many, the first one is not new; so at most `2K + 3`
blocks, and with the inode `MAXOPBLOCKS` (`OpCorrect`). That is the comment in
`filewrite` ("i-node, indirect block, allocation blocks, and 2 blocks of slop for
non-aligned writes") as a theorem.

For `FilesAreBytes`, a chunk counts as written when it begins: the abstract file has its
bytes already, although the blocks follow one by one. `TextInv` says that the words
written so far are the chunk's, and when it ends the two agree. Pointers of
different files and places differ, so a word written changes no other file.

### Memory and AddressSpaces

    MInv == TableInv /\ PanicInv /\ MemInv(mem, free) /\ RootInv /\ StackInv /\ ChildInv
            /\ \A p \in Procs : ProcInv(mem, state[p], pgdir[p], sz[p], reg[p])

The memory is seen as two relations: a directory has a table at an index (`Has`), and
a table holds a user frame at an index (`Holds`). `MemInv` says that what is free is
junk (`KindInv`), and that each table and each user frame has exactly one place in
them (`LinkInv`); `RootInv` and `StackInv` say the same of directories, which belong to a
process or to a call of `fork` or `exec` under way, and of kernel stacks. `ProcInv` says
what each call has allocated so far: `Upto(m, d, n)`, the pages of `d` are those below
`n`, where `n` is the loop's counter during `allocuvm` and `copyuvm`, and the rounded
size otherwise. A process whose `sbrk` shrank it to nothing has no page at all, and
cannot run (`UserInv`): that is the disjunct which makes the invariant inductive.

Steps are proved by what they do to the two relations: a frame that is taken, a page
that is mapped with or without a new table, pages dropped, and a whole address
space given back, for which `Space(d)` is shown to be closed: nothing outside points
into it. `FramesAreOwned` counts: the function from pointers to frames is one to one
and onto what is not free. `SizesAreMapped` has the panics as a consequence:
`mappages` is called at the counter, where nothing is mapped, `copyuvm` and `loaduvm`
below it.

For `MemoryIsPrivate` more is needed,

    VInv == MInv /\ FlagInv(mem) /\ \A p \in Procs : ReadInv(mem, state[p], pgdir[p], reg[p])

no entry is both present and encrypted (`FlagInv`), the pages `sbrk` has added so far
are zero (`Zeroed`), and those `fork` has copied so far show what the parent's do,
encrypted or not (`Copied`). A step changes frames of the acting process's own
address spaces only (`Within`), so that what all others read stays (`Neighbours`): this
is where `MInv` is used. What is left is one address space, page by page (`Alike`):
`mencrypt` and `decrypt` complement a byte and the flag that says so, hence change nothing
anybody reads; the end of `sbrk` is `Resize`, of `fork` and `exec` `Fork` and `Exec`, and
all steps before them stutter, because the pages they fill are past `sz` or in a
directory that is nobody's yet. `Forget` is a step that only clears the record of
the last store.

### WorkingSet

`ClockOK` is inductive with the types (`BaseInv`): the free places are a run right
behind the hand, `wsetinsert` takes the first of them, and `wsetdelete` closes the gap.
The deletions of `growproc` are a loop; that it keeps the clock good is shown by
its least counterexample. `ContentMatches` is inductive on top of it. For
`SetIsResident`, as long as `sbrk` was called with whole pages up,

    ResidentInv == ~odd => TableInv /\ SetInv /\ status /= "panic"

the page table has the pages below `sz` and no page is both present and encrypted
(`TableInv`), the clock has each page of the user once and just the present ones
(`SetInv`). The guard page gets into the clock when the process hits it, and then
the process does nothing but repeat the fault until it is killed; before, it is
not in the clock (`Runs => ~InClock(clockqueue, Guard)`).

### What is not proved

* Liveness: `EveryRunnableRuns`, `WaitReturns` and the other temporal properties under
  fairness. The prover has neither fairness nor ENABLED.
* `Shell` walks a list of any length by recursion and evaluates words of a line one
  after the other, which would need induction over data. TLC checks it.

## 6. What the models leave out

* More than one CPU, torn writes of one block, and failing disks.
* Wrap-around of `ticks` and `nextpid`. `Sched` takes `n <= 0` in `sleep(n)` as due at
  the next tick, which is what the comparison with the deadline `n + ticks0`
  (`sysproc.c:66`) gives while `ticks` does not wrap; a deadline that wraps is not
  modelled.
* Lines longer than mysh's arrays: `args` has 101 places, and a line of 101 words
  or more writes behind them.
* The null page table entry of p5's `decrypt` and `uva2ka` (`p5/src/vm.c:424`) for
  addresses without a page table: the models' processes access what is below
  `sz` and what a dump may name.
* "." and ".." as names in a path, but for the last one of `link`'s second path. Where
  `namex` looks ".." up in a current directory that was removed, its inode may be free, and `ilock`
  panics ("ilock: no type"). `mknod`, `fstat` and device files; the fetching of arguments.
* User-space memory in `Sched`; the contents of pages beyond one byte in `Memory`;
  the order of `kalloc`'s free list.
* `getpinfo`, `getpgtable` and other calls that only read.

## 7. Components not modelled

* Boot code, interrupt controllers, the assembly of trap entry and of the context
  switch: they set up hardware and have no protocol on one CPU.
* Console, keyboard and serial line: device input and output. The input ring of
  `console.c` has the indices of the pipe, which is modelled.
* `p1`, the xv6 shell, user programs and tests: sequential programs that do I/O and
  drive what is modelled.
* p2's counters: one function increments them.
* `mkfs`: runs on the host; its one decision that matters, the size of the log, is
  the constant `nlog`.
* The virtual memory of p2 and p4 is p5's without `PTE_E`. The schedulers of p2, p5
  and p6 are the original table scan, which p4 replaced.
* Much of the repository is there four times. A definition names the one copy it
  was translated from, so the mapped lines are of one kernel.

## 8. Plan

Every safety property of the passing runs is a theorem, but for `Shell`'s. Next in
the models: wrap-around of `ticks` in `sleep` with a small word; ".." anywhere in paths; the
console's input ring; a disk that fails.
