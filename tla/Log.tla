-------------------------------- MODULE Log --------------------------------
(***************************************************************************)
(* The file system's write-ahead log (log.c, the same file in every xv6    *)
(* tree of the repository), over the buffer cache and the disk.            *)
(*                                                                         *)
(* A step ends where the code may lose the CPU with its effect visible:    *)
(* after each disk write and each release of log.lock.  A disk write of    *)
(* one block is atomic (BSIZE is one sector).  The machine may stop before *)
(* any step; the disk keeps its blocks and boot runs initlog().            *)
(***************************************************************************)
EXTENDS Integers, Sequences, FiniteSets

CONSTANTS
    Ops,            \* the processes that make file system calls
    Blocks,         \* the blocks of the file system, outside the log
    Values, Blank,  \* what a block may hold, and holds at first
    MAXOPBLOCKS,    \* "max # of blocks any FS op writes": what begin_op reserves
    OPBLOCKS,       \* the most blocks a call of this file system does write
    LOGSIZE,        \* entries of struct logheader
    nlog,           \* blocks of the log on disk, its header included
    NotCached

ASSUME OpsAssumption    == IsFiniteSet(Ops)
ASSUME BlocksAssumption == Blank \in Values /\ NotCached \notin Values \cup Blocks
ASSUME SizesAssumption  ==
    /\ MAXOPBLOCKS \in Nat \ {0} /\ LOGSIZE \in Nat /\ nlog \in Nat \ {0}
    /\ OPBLOCKS \in Nat /\ OPBLOCKS <= MAXOPBLOCKS /\ MAXOPBLOCKS <= LOGSIZE

VARIABLES
    disk, dlog, dhdr,   \* on disk: home blocks, log blocks, log header
    cache, dirty,       \* the buffer cache: data and B_DIRTY, by block
    lh,                 \* log.lh
    outstanding, committing,
    pc,                 \* of each process, see PCs
    held,               \* the block whose buffer the process has locked
    wrote,              \* the blocks its call has modified so far
    cpc, tail           \* the step of commit or recovery, and its loop index

diskVars == <<disk, dlog, dhdr>>
bufVars  == <<cache, dirty>>
opVars   == <<pc, held, wrote>>
vars == <<diskVars, bufVars, lh, outstanding, committing, opVars, cpc, tail>>

\* outside a call, in begin_op's loop, asleep in it, inside a call, between
\* log_write's check and its lock, in end_op's commit, in a panic.
PCs == {"out", "begin", "asleep", "in", "append", "commit", "panic"}
CPCs == {"none", "log", "head", "install", "clear", "done",
         "boot", "rinstall", "rclear"}

TypeOK ==
    /\ disk \in [Blocks -> Values]
    /\ dlog \in [1..LOGSIZE -> Values]
    /\ dhdr \in Seq(Blocks) /\ Len(dhdr) <= LOGSIZE
    /\ cache \in [Blocks -> Values \cup {NotCached}]
    /\ dirty \in [Blocks -> BOOLEAN]
    /\ lh \in Seq(Blocks) /\ Len(lh) <= LOGSIZE
    /\ outstanding \in Nat
    /\ committing \in BOOLEAN
    /\ pc \in [Ops -> PCs]
    /\ held \in [Ops -> Blocks \cup {NotCached}]
    /\ wrote \in [Ops -> SUBSET Blocks]
    /\ cpc \in CPCs
    /\ tail \in 1..(LOGSIZE + 1)

Init ==
    /\ disk = [b \in Blocks |-> Blank]
    /\ dlog = [i \in 1..LOGSIZE |-> Blank]
    /\ dhdr = <<>>
    /\ cache = [b \in Blocks |-> NotCached]
    /\ dirty = [b \in Blocks |-> FALSE]
    /\ lh = <<>>
    /\ outstanding = 0
    /\ committing = FALSE
    /\ pc = [p \in Ops |-> "out"]
    /\ held = [p \in Ops |-> NotCached]
    /\ wrote = [p \in Ops |-> {}]
    /\ cpc = "boot"
    /\ tail = 1

Booting == cpc \in {"boot", "rinstall", "rclear"}
Halted  == \E p \in Ops : pc[p] = "panic"
Up      == ~Booting /\ ~Halted

-----------------------------------------------------------------------------
(* The buffer cache, as the log uses it. *)

\* bread(b): the cached copy, or the disk's.
bread(b) == IF cache[b] = NotCached THEN disk[b] ELSE cache[b]

\* A reader, inside or outside a call, brings a block into the cache.
Read(b) ==
    /\ Up /\ cache[b] = NotCached
    /\ cache' = [cache EXCEPT ![b] = disk[b]]
    /\ UNCHANGED <<diskVars, dirty, lh, outstanding, committing, opVars, cpc, tail>>

\* bget() recycles a buffer nobody uses, unless it is B_DIRTY.
Evict(b) ==
    /\ Up /\ cache[b] /= NotCached /\ ~dirty[b]
    /\ \A p \in Ops : held[p] /= b
    /\ cache' = [cache EXCEPT ![b] = NotCached]
    /\ UNCHANGED <<diskVars, dirty, lh, outstanding, committing, opVars, cpc, tail>>

-----------------------------------------------------------------------------
(* System calls. *)

wakeup(P) == [p \in Ops |-> IF P[p] = "asleep" THEN "begin" ELSE P[p]]

\* The operators named Mut... are slips in the definition that follows each;
\* no specification uses them.

\* Slip: the space of the call that asks is not counted.
MutNoSpace == Len(lh) + outstanding * MAXOPBLOCKS > LOGSIZE

\* Reserved space: every call in progress may still write MAXOPBLOCKS blocks.
NoSpace == Len(lh) + (outstanding + 1) * MAXOPBLOCKS > LOGSIZE

Call(p) ==
    /\ Up /\ pc[p] = "out"
    /\ pc' = [pc EXCEPT ![p] = "begin"]
    /\ UNCHANGED <<diskVars, bufVars, lh, outstanding, committing, held, wrote, cpc,
                   tail>>

\* One turn of begin_op's loop.
BeginSleep(p) ==
    /\ Up /\ pc[p] = "begin"
    /\ committing \/ NoSpace
    /\ pc' = [pc EXCEPT ![p] = "asleep"]
    /\ UNCHANGED <<diskVars, bufVars, lh, outstanding, committing, held, wrote, cpc,
                   tail>>

BeginOp(p) ==
    /\ Up /\ pc[p] = "begin"
    /\ ~committing /\ ~NoSpace
    /\ outstanding' = outstanding + 1
    /\ pc' = [pc EXCEPT ![p] = "in"]
    /\ UNCHANGED <<diskVars, bufVars, lh, committing, held, wrote, cpc, tail>>

TooBig == Len(lh) >= LOGSIZE \/ Len(lh) >= nlog - 1

\* The caller locks a buffer and modifies it; log_write looks at the size of
\* the log before it takes log.lock.
LogWriteCheck(p, b, v) ==
    /\ Up /\ pc[p] = "in"
    /\ \A q \in Ops : held[q] /= b
    /\ Cardinality(wrote[p] \cup {b}) <= OPBLOCKS
    /\ cache' = [cache EXCEPT ![b] = v]
    /\ held' = [held EXCEPT ![p] = b]
    /\ wrote' = [wrote EXCEPT ![p] = @ \cup {b}]
    /\ pc' = [pc EXCEPT ![p] = IF TooBig \/ outstanding < 1 THEN "panic" ELSE "append"]
    /\ UNCHANGED <<diskVars, dirty, lh, outstanding, committing, cpc, tail>>

\* A block that is in the log already is absorbed.
absorb(h, b) == IF \E i \in 1..Len(h) : h[i] = b THEN h ELSE Append(h, b)

\* Slip: the buffer is not pinned with B_DIRTY.
MutLogWrite(p) ==
    /\ Up /\ pc[p] = "append"
    /\ lh' = absorb(lh, held[p])
    /\ held' = [held EXCEPT ![p] = NotCached]
    /\ pc' = [pc EXCEPT ![p] = "in"]
    /\ UNCHANGED <<diskVars, bufVars, outstanding, committing, wrote, cpc, tail>>

LogWrite(p) ==
    /\ Up /\ pc[p] = "append"
    /\ lh' = absorb(lh, held[p])
    /\ dirty' = [dirty EXCEPT ![held[p]] = TRUE]
    /\ held' = [held EXCEPT ![p] = NotCached]
    /\ pc' = [pc EXCEPT ![p] = "in"]
    /\ UNCHANGED <<diskVars, cache, outstanding, committing, wrote, cpc, tail>>

EndOp(p) ==
    /\ Up /\ pc[p] = "in"
    /\ outstanding' = outstanding - 1
    /\ wrote' = [wrote EXCEPT ![p] = {}]
    /\ committing' = (committing \/ outstanding' = 0)
    /\ IF ~committing /\ outstanding' = 0
       THEN /\ pc' = [pc EXCEPT ![p] = "commit"]
            /\ cpc' = IF lh = <<>> THEN "done" ELSE "log"
            /\ tail' = 1
       ELSE /\ pc' = IF committing THEN [pc EXCEPT ![p] = "panic"]
                     ELSE [wakeup(pc) EXCEPT ![p] = "out"]
            /\ UNCHANGED <<cpc, tail>>
    /\ UNCHANGED <<diskVars, bufVars, lh, held>>

-----------------------------------------------------------------------------
(* commit(), in the process that ended the last call. *)

\* One turn of write_log's loop: cache block to log block.
WriteLog ==
    /\ Up /\ cpc = "log"
    /\ dlog' = [dlog EXCEPT ![tail] = bread(lh[tail])]
    /\ tail' = tail + 1
    /\ cpc' = IF tail = Len(lh) THEN "head" ELSE "log"
    /\ UNCHANGED <<disk, dhdr, bufVars, lh, outstanding, committing, opVars>>

\* "This is the true point at which the current transaction commits."
WriteHead ==
    /\ Up /\ cpc = "head"
    /\ dhdr' = lh
    /\ tail' = 1
    /\ cpc' = "install"
    /\ UNCHANGED <<disk, dlog, bufVars, lh, outstanding, committing, opVars>>

\* One turn of install_trans's loop: log block to home block, through the
\* cache; the finished disk write clears B_DIRTY.
Install ==
    /\ disk' = [disk EXCEPT ![lh[tail]] = dlog[tail]]
    /\ cache' = [cache EXCEPT ![lh[tail]] = dlog[tail]]
    /\ dirty' = [dirty EXCEPT ![lh[tail]] = FALSE]
    /\ tail' = tail + 1
    /\ UNCHANGED <<dlog, dhdr, lh, outstanding, committing, opVars>>

InstallTrans ==
    /\ Up /\ cpc = "install"
    /\ Install
    /\ cpc' = IF tail = Len(lh) THEN "clear" ELSE "install"

\* log.lh.n = 0; write_head().
ClearHead ==
    /\ lh' = <<>>
    /\ dhdr' = <<>>
    /\ tail' = 1
    /\ UNCHANGED <<disk, dlog, bufVars, outstanding, committing, opVars>>

CommitClear == Up /\ cpc = "clear" /\ ClearHead /\ cpc' = "done"

\* Slip: the end of the commit is not announced with wakeup(&log).
MutEndCommit ==
    /\ Up /\ cpc = "done"
    /\ committing' = FALSE
    /\ cpc' = "none"
    /\ pc' = [p \in Ops |-> IF pc[p] = "commit" THEN "out" ELSE pc[p]]
    /\ UNCHANGED <<diskVars, bufVars, lh, outstanding, held, wrote, tail>>

EndCommit ==
    /\ Up /\ cpc = "done"
    /\ committing' = FALSE
    /\ cpc' = "none"
    /\ pc' = [p \in Ops |-> IF pc[p] = "commit" THEN "out" ELSE wakeup(pc)[p]]
    /\ UNCHANGED <<diskVars, bufVars, lh, outstanding, held, wrote, tail>>

-----------------------------------------------------------------------------
(* Crash and recovery: recover_from_log(), before any system call. *)

Crash ==
    /\ cache' = [b \in Blocks |-> NotCached]
    /\ dirty' = [b \in Blocks |-> FALSE]
    /\ lh' = <<>>
    /\ outstanding' = 0
    /\ committing' = FALSE
    /\ pc' = [p \in Ops |-> "out"]
    /\ held' = [p \in Ops |-> NotCached]
    /\ wrote' = [p \in Ops |-> {}]
    /\ cpc' = "boot"
    /\ tail' = 1
    /\ UNCHANGED diskVars

\* Slip: recovery clears the log without installing it.
MutReadHead ==
    /\ cpc = "boot"
    /\ lh' = dhdr
    /\ tail' = 1
    /\ cpc' = "rclear"
    /\ UNCHANGED <<diskVars, bufVars, outstanding, committing, opVars>>

ReadHead ==
    /\ cpc = "boot"
    /\ lh' = dhdr
    /\ tail' = 1
    /\ cpc' = IF dhdr = <<>> THEN "rclear" ELSE "rinstall"
    /\ UNCHANGED <<diskVars, bufVars, outstanding, committing, opVars>>

RecoverInstall ==
    /\ cpc = "rinstall"
    /\ Install
    /\ cpc' = IF tail = Len(lh) THEN "rclear" ELSE "rinstall"

RecoverClear == cpc = "rclear" /\ ClearHead /\ cpc' = "none"

-----------------------------------------------------------------------------
Committer == WriteLog \/ WriteHead \/ InstallTrans \/ CommitClear \/ EndCommit
Recovery  == ReadHead \/ RecoverInstall \/ RecoverClear

Next ==
    \/ Committer
    \/ Recovery
    \/ Crash
    \/ \E b \in Blocks : Read(b) \/ Evict(b)
    \/ \E p \in Ops : Call(p) \/ BeginSleep(p) \/ BeginOp(p) \/ LogWrite(p) \/ EndOp(p)
    \/ \E p \in Ops, b \in Blocks, v \in Values : LogWriteCheck(p, b, v)

Spec == Init /\ [][Next]_vars

\* The scheduler runs every process that is ready (Sched's EveryRunnableRuns)
\* and the disk completes every request; a system call writes a bounded number
\* of blocks, so one that keeps getting back to "in" ends.
Fairness ==
    /\ WF_vars(Committer)
    /\ WF_vars(Recovery)
    /\ \A p \in Ops :
        /\ WF_vars(BeginSleep(p) \/ BeginOp(p))
        /\ WF_vars(LogWrite(p))
        /\ SF_vars(EndOp(p))

FairSpec == Spec /\ Fairness

-----------------------------------------------------------------------------
(* Properties. *)

\* What recovery would leave on the disk if the machine stopped now.
Recovered ==
    [b \in Blocks |->
        IF \E i \in 1..Len(dhdr) : dhdr[i] = b
        THEN dlog[CHOOSE i \in 1..Len(dhdr) : dhdr[i] = b] ELSE disk[b]]

Abstract == INSTANCE AtomicDisk WITH
    stable   <- Recovered,
    volatile <- [b \in Blocks |-> IF Booting THEN Recovered[b] ELSE bread(b)],
    status   <- [p \in Ops |-> IF Booting THEN "out"
                               ELSE CASE pc[p] \in {"in", "append", "panic"} -> "in"
                                      [] pc[p] = "commit" -> "ending"
                                      [] OTHER -> "out"]

\* All or nothing, across a crash at any point of commit and of recovery (and
\* of recovery from a recovery): the log implements AtomicDisk.
Atomic == Abstract!Spec

\* A buffer that could be recycled holds what the disk has, so that dropping
\* it loses no update; only blocks of the current transaction are pinned.
CacheCoherent ==
    \A b \in Blocks :
        /\ cache[b] /= NotCached /\ ~dirty[b] /\ (\A p \in Ops : held[p] /= b) /\ ~Booting
            => cache[b] = disk[b]
        /\ dirty[b] => cache[b] /= NotCached /\ \E i \in 1..Len(lh) : lh[i] = b

\* No lost wakeup: a process sleeps in begin_op only while an end_op is still
\* to come that will wake it.
SleeperHasWaker ==
    (\E p \in Ops : pc[p] = "asleep") => committing \/ outstanding > 0

\* The count of calls in progress is exact, and a commit runs alone: the
\* blocks it copies cannot change under it, and end_op() never meets one.
CommitAlone ==
    /\ outstanding = Cardinality({p \in Ops : pc[p] \in {"in", "append", "panic"}})
    /\ committing => outstanding = 0 /\ Cardinality({p \in Ops : pc[p] = "commit"}) = 1

\* begin_op and end_op keep count: a commit runs alone, what it writes does not
\* change under it, whoever sleeps has somebody to wake him, and no update is
\* lost with a buffer that the cache gives to another block.
OpsSound == TypeOK /\ CommitAlone /\ SleeperHasWaker /\ CacheCoherent

\* "too big a transaction" and the other panics of log.c are never reached, and
\* what the calls that were let in append to the log fits in its blocks on
\* disk: although log_write looks at the size before it takes the lock, so that
\* two calls may pass on room for one, and although the log mkfs makes has one
\* block less than LOGSIZE promises ("max data blocks in on-disk log").
LogFits == Len(lh) <= nlog - 1 /\ ~Halted

\* A process that waits in begin_op is woken up.
SleeperWakes ==
    \A p \in Ops : pc[p] = "asleep" ~> (pc[p] /= "asleep" \/ Halted)
=============================================================================
