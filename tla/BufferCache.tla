---------------------------- MODULE BufferCache ----------------------------
(***************************************************************************)
(* The buffer cache, its sleep-locks and the disk driver (bio.c,           *)
(* sleeplock.c, ide.c; the same files in every xv6 tree).                  *)
(*                                                                         *)
(* A step is a piece of code under one spin-lock: bcache.lock, the lk of a *)
(* buffer's sleep-lock, or idelock, which the interrupt handler takes too. *)
(* Each process works with one buffer at a time.  Of the content of a      *)
(* block the model keeps whether it is what was last stored in that block. *)
(***************************************************************************)
EXTENDS Integers, Sequences, FiniteSets

CONSTANTS
    Procs,
    NBUF,           \* buffers
    Blocks,         \* block numbers
    None            \* no process, no block, no request

Bufs == 1..NBUF

ASSUME BufAssumption   == NBUF \in Nat \ {0}
ASSUME ProcsAssumption == IsFiniteSet(Procs)
ASSUME NoneAssumption  == None \notin Procs \cup Blocks \cup Bufs

VARIABLES
    blockno, valid, dirty, refcnt, data,    \* struct buf; data and disk hold
                                            \* "new" for what was last stored
    owner,      \* the holder of the buffer's sleep-lock, or None
    lru,        \* the buffers from bcache.head.next on
    idequeue,   \* the buffers from idequeue along qnext
    active,     \* what the drive is working on, as idestart told it
    disk,
    pc, buf     \* of each process: where it is, and its buffer

bufVars == <<blockno, valid, dirty, refcnt, data>>
ideVars == <<idequeue, active, disk>>
vars == <<bufVars, owner, lru, ideVars, pc, buf>>

\* outside; in acquiresleep's loop, asleep there; about to call iderw, asleep
\* there, woken up; holding the locked buffer; between the two halves of
\* brelse; in a panic.
PCs == {"out", "lock", "lockwait", "rw", "iowait", "iowake", "have", "put", "panic"}
Contents == {"new", "old"}
Requests == [buf : Bufs, blockno : Blocks, write : BOOLEAN, data : Contents]

ASSUME RequestsAssumption == None \notin Requests

TypeOK ==
    /\ blockno \in [Bufs -> Blocks \cup {None}]
    /\ valid \in [Bufs -> BOOLEAN] /\ dirty \in [Bufs -> BOOLEAN]
    /\ refcnt \in [Bufs -> 0..Cardinality(Procs)]
    /\ data \in [Bufs -> Contents]
    /\ owner \in [Bufs -> Procs \cup {None}]
    /\ lru \in [1..NBUF -> Bufs] /\ \A b \in Bufs : \E i \in 1..NBUF : lru[i] = b
    /\ idequeue \in Seq(Bufs) /\ Len(idequeue) <= NBUF
    /\ active \in Requests \cup {None}
    /\ disk \in [Blocks -> Contents]
    /\ pc \in [Procs -> PCs]
    /\ buf \in [Procs -> Bufs \cup {None}]

\* binit() links each buffer in at the front.
Init ==
    /\ blockno = [b \in Bufs |-> None]
    /\ valid = [b \in Bufs |-> FALSE] /\ dirty = [b \in Bufs |-> FALSE]
    /\ refcnt = [b \in Bufs |-> 0]
    /\ data = [b \in Bufs |-> "old"]
    /\ owner = [b \in Bufs |-> None]
    /\ lru = [i \in 1..NBUF |-> NBUF + 1 - i]
    /\ idequeue = <<>> /\ active = None
    /\ disk = [k \in Blocks |-> "new"]
    /\ pc = [p \in Procs |-> "out"]
    /\ buf = [p \in Procs |-> None]

Up == \A p \in Procs : pc[p] /= "panic"

\* wakeup(ch): everyone in state "from" with buffer b.
wakeup(P, from, to, b) ==
    [p \in Procs |-> IF P[p] = from /\ buf[p] = b THEN to ELSE P[p]]

-----------------------------------------------------------------------------
(* bget: under bcache.lock. *)

Cached(k) == {b \in Bufs : blockno[b] = k}

\* Mutant: B_DIRTY does not keep a buffer.
MutRecyclable == {i \in 1..NBUF : refcnt[lru[i]] = 0}

\* The buffer the scan from the tail of the list comes to first.
Recyclable == {i \in 1..NBUF : refcnt[lru[i]] = 0 /\ ~dirty[lru[i]]}
Victim     == lru[CHOOSE i \in Recyclable : \A j \in Recyclable : j <= i]

\* Mutant: the reference is not counted.
MutBgetHit(p, k) ==
    /\ Up /\ pc[p] = "out"
    /\ \E b \in Cached(k) : buf' = [buf EXCEPT ![p] = b]
    /\ pc' = [pc EXCEPT ![p] = "lock"]
    /\ UNCHANGED <<bufVars, owner, lru, ideVars>>

BgetHit(p, k) ==
    /\ Up /\ pc[p] = "out"
    /\ \E b \in Cached(k) :
        /\ refcnt' = [refcnt EXCEPT ![b] = @ + 1]
        /\ buf' = [buf EXCEPT ![p] = b]
    /\ pc' = [pc EXCEPT ![p] = "lock"]
    /\ UNCHANGED <<blockno, valid, dirty, data, owner, lru, ideVars>>

BgetMiss(p, k) ==
    /\ Up /\ pc[p] = "out" /\ Cached(k) = {}
    /\ IF Recyclable = {}
       THEN pc' = [pc EXCEPT ![p] = "panic"] /\ UNCHANGED <<bufVars, buf>>
       ELSE /\ blockno' = [blockno EXCEPT ![Victim] = k]
            /\ valid' = [valid EXCEPT ![Victim] = FALSE]
            /\ refcnt' = [refcnt EXCEPT ![Victim] = 1]
            /\ buf' = [buf EXCEPT ![p] = Victim]
            /\ pc' = [pc EXCEPT ![p] = "lock"]
            /\ UNCHANGED <<dirty, data>>
    /\ UNCHANGED <<owner, lru, ideVars>>

-----------------------------------------------------------------------------
(* Sleep-locks: under lk->lk. *)

\* One turn of acquiresleep's loop; bread then asks the disk if need be.
AcquireSleep(p) ==
    /\ Up /\ pc[p] = "lock" /\ owner[buf[p]] /= None
    /\ pc' = [pc EXCEPT ![p] = "lockwait"]
    /\ UNCHANGED <<bufVars, owner, lru, ideVars, buf>>

AcquireGot(p) ==
    /\ Up /\ pc[p] = "lock" /\ owner[buf[p]] = None
    /\ owner' = [owner EXCEPT ![buf[p]] = p]
    /\ pc' = [pc EXCEPT ![p] = IF valid[buf[p]] THEN "have" ELSE "rw"]
    /\ UNCHANGED <<bufVars, lru, ideVars, buf>>

\* Mutant: releasesleep forgets the wakeup.
MutRelease(p) ==
    /\ Up /\ pc[p] = "have"
    /\ owner' = [owner EXCEPT ![buf[p]] = None]
    /\ pc' = [pc EXCEPT ![p] = "put"]
    /\ UNCHANGED <<bufVars, lru, ideVars, buf>>

\* brelse, first half: releasesleep.
Release(p) ==
    /\ Up /\ pc[p] = "have"
    /\ owner' = [owner EXCEPT ![buf[p]] = None]
    /\ pc' = [wakeup(pc, "lockwait", "lock", buf[p]) EXCEPT ![p] = "put"]
    /\ UNCHANGED <<bufVars, lru, ideVars, buf>>

\* The list with b moved to the front.
MoveToFront(b) ==
    LET at == CHOOSE i \in 1..NBUF : lru[i] = b
    IN [i \in 1..NBUF |-> IF i = 1 THEN b ELSE IF i <= at THEN lru[i - 1] ELSE lru[i]]

\* brelse, second half: under bcache.lock.
Put(p) ==
    /\ Up /\ pc[p] = "put"
    /\ refcnt' = [refcnt EXCEPT ![buf[p]] = @ - 1]
    /\ lru' = IF refcnt[buf[p]] = 1 THEN MoveToFront(buf[p]) ELSE lru
    /\ pc' = [pc EXCEPT ![p] = "out"]
    /\ buf' = [buf EXCEPT ![p] = None]
    /\ UNCHANGED <<blockno, valid, dirty, data, owner, ideVars>>

-----------------------------------------------------------------------------
(* What the holder of a buffer does with it. *)

\* The holder stores in b: every other copy of the block is out of date.
Store(b) ==
    /\ data' = [c \in Bufs |-> IF c = b THEN "new"
                              ELSE IF blockno[c] = blockno[b] THEN "old" ELSE data[c]]
    /\ disk' = [disk EXCEPT ![blockno[b]] = "old"]
    /\ active' = IF active /= None /\ active.blockno = blockno[b]
                 THEN [active EXCEPT !.data = "old"] ELSE active
    /\ dirty' = [dirty EXCEPT ![b] = TRUE]

\* bwrite, after a store.
Bwrite(p) ==
    /\ Up /\ pc[p] = "have"
    /\ Store(buf[p])
    /\ pc' = [pc EXCEPT ![p] = "rw"]
    /\ UNCHANGED <<blockno, valid, refcnt, owner, lru, idequeue, buf>>

\* log_write, after a store: B_DIRTY pins the buffer until the log writes it.
Pin(p) ==
    /\ Up /\ pc[p] = "have"
    /\ Store(buf[p])
    /\ UNCHANGED <<blockno, valid, refcnt, owner, lru, idequeue, pc, buf>>

-----------------------------------------------------------------------------
(* The disk driver: under idelock. *)

\* idestart(b): the data of a write are handed to the drive at once.
idestart(b) == [buf |-> b, blockno |-> blockno[b], write |-> dirty[b], data |-> data[b]]

\* Mutant: the drive is started though it is busy.
MutIderw(p) ==
    /\ Up /\ pc[p] = "rw"
    /\ idequeue' = Append(idequeue, buf[p])
    /\ active' = idestart(buf[p])
    /\ pc' = [pc EXCEPT ![p] = "iowait"]
    /\ UNCHANGED <<bufVars, owner, lru, disk, buf>>

Iderw(p) ==
    /\ Up /\ pc[p] = "rw"
    /\ idequeue' = Append(idequeue, buf[p])
    /\ active' = IF idequeue = <<>> THEN idestart(buf[p]) ELSE active
    /\ pc' = [pc EXCEPT ![p] = "iowait"]
    /\ UNCHANGED <<bufVars, owner, lru, disk, buf>>

\* The drive has finished and interrupts.  What it did is what it was told;
\* the handler takes it for the request at the head of the queue.
Ideintr ==
    /\ Up /\ active /= None
    /\ LET b == Head(idequeue) IN
        /\ disk' = IF active.write THEN [disk EXCEPT ![active.blockno] = active.data]
                   ELSE disk
        /\ data' = [data EXCEPT ![b] = IF dirty[b] THEN @ ELSE disk[active.blockno]]
        /\ valid' = [valid EXCEPT ![b] = TRUE]
        /\ dirty' = [dirty EXCEPT ![b] = FALSE]
        /\ pc' = wakeup(pc, "iowait", "iowake", b)
    /\ idequeue' = Tail(idequeue)
    /\ active' = IF Tail(idequeue) = <<>> THEN None ELSE idestart(Head(Tail(idequeue)))
    /\ UNCHANGED <<blockno, refcnt, owner, lru, buf>>

\* The condition of iderw's loop, looked at again.
IoCheck(p) ==
    /\ Up /\ pc[p] = "iowake"
    /\ pc' = [pc EXCEPT ![p] = IF valid[buf[p]] /\ ~dirty[buf[p]] THEN "have" ELSE "iowait"]
    /\ UNCHANGED <<bufVars, owner, lru, ideVars, buf>>

Halted == ~Up /\ UNCHANGED vars

-----------------------------------------------------------------------------
Next ==
    \/ Ideintr
    \/ \E p \in Procs :
        \/ AcquireSleep(p) \/ AcquireGot(p) \/ Release(p) \/ Put(p)
        \/ Bwrite(p) \/ Pin(p) \/ Iderw(p) \/ IoCheck(p)
    \/ \E p \in Procs, k \in Blocks : BgetHit(p, k) \/ BgetMiss(p, k)
    \/ Halted

Spec == Init /\ [][Next]_vars

\* The drive answers; the scheduler runs every process that is ready; and a
\* holder, who does a bounded number of things with its buffer, releases it
\* (SF: each Bwrite takes it away from "have" for a while).
Fairness ==
    /\ WF_vars(Ideintr)
    /\ \A p \in Procs :
        /\ WF_vars(AcquireSleep(p) \/ AcquireGot(p))
        /\ WF_vars(Iderw(p)) /\ WF_vars(IoCheck(p)) /\ WF_vars(Put(p))
        /\ SF_vars(Release(p))

FairSpec == Spec /\ Fairness

-----------------------------------------------------------------------------
(* Properties. *)

\* A block is in the cache at most once, so that its sleep-lock really is the
\* lock of the block.
OneCopy == \A b, c \in Bufs : blockno[b] = blockno[c] /\ blockno[b] /= None => b = c

\* Whoever holds a block sees what was last stored in it, however often the
\* block was written, pinned, recycled and read again in between.
ReadsLatest ==
    \A p \in Procs : pc[p] = "have" => data[buf[p]] = "new"

\* A buffer that a process has, waits for, or has asked the disk for is not
\* given away: it stays the process's until brelse is through.
BufferKept ==
    \A b \in Bufs :
        /\ refcnt[b] = Cardinality({p \in Procs : buf[p] = b})
        /\ owner[b] /= None <=> \E p \in Procs :
                /\ buf[p] = b /\ owner[b] = p
                /\ pc[p] \in {"rw", "iowait", "iowake", "have"}

\* A block has at most one buffer, and a buffer its block for as long as
\* somebody has or waits for it, between the two halves of bget and of brelse too.
CacheOK == TypeOK /\ OneCopy /\ BufferKept

\* The drive works on the head of the queue, works whenever there is one, and
\* everything in the queue is locked and waited for by its owner.
QueueServed ==
    /\ active = None <=> idequeue = <<>>
    /\ idequeue /= <<>> => active = idestart(Head(idequeue))
    /\ \A i \in 1..Len(idequeue) :
        \E p \in Procs : buf[p] = idequeue[i] /\ owner[buf[p]] = p /\ pc[p] = "iowait"
    /\ \A i, j \in 1..Len(idequeue) : idequeue[i] = idequeue[j] => i = j

\* A process that sleeps for a buffer's lock does so while somebody holds it,
\* and is woken up.
LockHanded ==
    \A p \in Procs : pc[p] = "lockwait" ~> (pc[p] /= "lockwait" \/ ~Up)

\* Every disk request is finished and its process returns from iderw.
IoCompletes ==
    \A p \in Procs : pc[p] \in {"rw", "iowait"} ~> (pc[p] = "have" \/ ~Up)

\* Nobody waits for ever: neither for a buffer that others use, nor for the disk.
WaitersServed == LockHanded /\ IoCompletes
=============================================================================
