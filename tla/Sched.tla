------------------------------- MODULE Sched -------------------------------
(***************************************************************************)
(* The process table, run queue and scheduler of the p4 kernel             *)
(* (p4/src/proc.c, trap.c, sysproc.c), on the one CPU its Makefile boots.  *)
(*                                                                         *)
(* A step is a piece of kernel code that runs with interrupts off, i.e.    *)
(* under a spinlock; between two steps the timer or a device may interrupt *)
(* and, in the timer's case, take the CPU away.                            *)
(*                                                                         *)
(* The linked list head/tail/next is a sequence here; that the pointers    *)
(* implement a sequence is shown in RunQueue.                              *)
(***************************************************************************)
EXTENDS ProcTable, FiniteSets

CONSTANTS
    MaxPid,     \* BOUND: the last pid allocproc hands out
    Slices,     \* the time slices a caller of fork2/setslice asks for
    SleepLens,  \* the arguments of the sleep system call
    KillPids,   \* the arguments of kill
    SlicePids,  \* the pids setslice and getslice are called with
    Events      \* wait channels other than &ticks and wait()'s

ASSUME MaxPidAssumption    == MaxPid \in Nat \ {0}
ASSUME SlicesAssumption    == Slices \subseteq Nat \ {0} /\ 1 \in Slices
ASSUME SleepLensAssumption == SleepLens \subseteq Int
ASSUME PidsAssumption      == KillPids \cup SlicePids \subseteq Nat
ASSUME EventsAssumption    == Events \cap {"none", "ticks", "wait"} = {}

InitProc == 1   \* userinit() takes the first slot of the table

States == {"UNUSED", "EMBRYO", "SLEEPING", "RUNNABLE", "RUNNING", "ZOMBIE"}

\* Where a process resumes: in user space, at its first return from fork, at
\* the start of a system call, between allocproc and the end of fork2, in the
\* loop of wait(), in sys_sleep, in any other sleep loop, or in exit().
PCs == {"user", "forkret", "sys", "copy", "wait", "sleep", "event", "exiting"}

VARIABLES
    state, parent, killed, chan,                \* struct proc
    timeslice, activeticks, activesleepticks,   \* struct proc, scheduling
    left,       \* ticks until sleepdeadline (of a sleeper on &ticks)
    nextpid,
    cur,        \* cpu->proc
    spc,        \* what the CPU does: "idle" (scheduler, interrupts on),
                \* "loop" (scheduler, holding ptable.lock), "run", "panic"
    pc,         \* where each process resumes
    child, cslice   \* np and slice of a fork2 in progress

procVars == <<state, pid, parent, killed, chan>>
tickVars == <<timeslice, activeticks, activesleepticks, left>>
forkVars == <<child, cslice, nextpid>>
vars == <<procVars, tickVars, forkVars, queue, cur, spc, pc>>

TypeOK ==
    /\ state \in [Slots -> States]
    /\ pid \in [Slots -> Nat]
    /\ parent \in [Slots -> Slots \cup {NoProc}]
    /\ killed \in [Slots -> BOOLEAN]
    /\ chan \in [Slots -> {"none", "ticks", "wait"} \cup Events]
    /\ timeslice \in [Slots -> Slices \cup {0}]
    /\ activeticks \in [Slots -> Nat]
    /\ activesleepticks \in [Slots -> Int]
    /\ left \in [Slots -> Nat]
    /\ queue \in Seq(Slots)
    /\ nextpid \in Nat
    /\ cur \in Slots \cup {NoProc}
    /\ spc \in {"idle", "loop", "run", "panic"}
    /\ pc \in [Slots -> PCs]
    /\ child \in [Slots -> Slots \cup {NoProc}]
    /\ cslice \in [Slots -> Slices \cup {0}]

-----------------------------------------------------------------------------
(* Helpers on the table and the queue. *)

\* The state userinit() leaves behind.
Init ==
    /\ state = [p \in Slots |-> IF p = InitProc THEN "RUNNABLE" ELSE "UNUSED"]
    /\ pid = [p \in Slots |-> IF p = InitProc THEN 1 ELSE 0]
    /\ parent = [p \in Slots |-> NoProc]
    /\ killed = [p \in Slots |-> FALSE]
    /\ chan = [p \in Slots |-> "none"]
    /\ timeslice = [p \in Slots |-> IF p = InitProc THEN 1 ELSE 0]
    /\ activeticks = [p \in Slots |-> 0]
    /\ activesleepticks = [p \in Slots |-> 0]
    /\ left = [p \in Slots |-> 0]
    /\ queue = <<InitProc>>
    /\ nextpid = 2
    /\ cur = NoProc
    /\ spc = "idle"
    /\ pc = [p \in Slots |-> "forkret"]
    /\ child = [p \in Slots |-> NoProc]
    /\ cslice = [p \in Slots |-> 0]

\* The operators named Mut... are the definitions that follow them with a slip
\* a programmer could make.  No specification uses them: each is put in the
\* place of its original to show that a property notices.

push(q, p) == Append(q, p)

\* pop() takes "head->pid == tail->pid" for "one process left".
pop(q) == IF q = <<>> \/ pid[q[1]] = pid[q[Len(q)]] THEN <<>> ELSE Tail(q)

\* The members of W in table order: the order in which a scan of the table
\* meets, and wakeup1 pushes, them.  A set with one element.
TableOrder(W) ==
    {w \in [1..Cardinality(W) -> W] :
        /\ \A i, j \in 1..Cardinality(W) : i < j => w[i] < w[j]
        /\ \A p \in W : \E i \in 1..Cardinality(W) : w[i] = p}

\* The slots a scan for a pid stops at: the first with that pid, if any.
FindPid(k) == {p \in Slots : pid[p] = k /\ \A q \in Slots : pid[q] = k => p <= q}

\* wakeup1 on everyone in W, all of them SLEEPING on the channel.
Woken(st, W) == [p \in Slots |-> IF p \in W THEN "RUNNABLE" ELSE st[p]]
ResetTicks(W) == [p \in Slots |-> IF p \in W THEN 0 ELSE activeticks[p]]

Sleepers(ch) == {p \in Slots : state[p] = "SLEEPING" /\ chan[p] = ch}

\* Interrupts are on: no spinlock is held.  A process that returns into the
\* loop of wait() still holds ptable.lock.
Interruptible == spc = "idle" \/ (spc = "run" /\ pc[cur] /= "wait")

Running(p) == spc = "run" /\ cur = p

\* The end of trap() for a system call: exit() if killed, else user space.
Return(p) == IF killed[p] THEN "exiting" ELSE "user"

-----------------------------------------------------------------------------
(* The scheduler. *)

SchedEnter ==
    /\ spc = "idle" /\ queue /= <<>>
    /\ spc' = "loop"
    /\ UNCHANGED <<procVars, tickVars, forkVars, queue, cur, pc>>

SchedDrained ==
    /\ spc = "loop" /\ queue = <<>>
    /\ spc' = "idle"
    /\ UNCHANGED <<procVars, tickVars, forkVars, queue, cur, pc>>

\* The head is not RUNNABLE: forget it.
SchedDrop ==
    /\ spc = "loop" /\ queue /= <<>> /\ state[Head(queue)] /= "RUNNABLE"
    /\ queue' = pop(queue)
    /\ UNCHANGED <<procVars, tickVars, forkVars, cur, spc, pc>>

\* Slip: <= for <.
MutHasTicksLeft(p) == activeticks[p] <= timeslice[p] + activesleepticks[p]

HasTicksLeft(p) == activeticks[p] < timeslice[p] + activesleepticks[p]

\* Slip: the counters are reset, but the process stays at the head.
MutSchedExpire ==
    /\ spc = "loop" /\ queue /= <<>>
    /\ LET p == Head(queue) IN
        /\ state[p] = "RUNNABLE" /\ ~HasTicksLeft(p)
        /\ activeticks' = [activeticks EXCEPT ![p] = 0]
        /\ activesleepticks' = [activesleepticks EXCEPT ![p] = 0]
    /\ UNCHANGED <<procVars, timeslice, left, forkVars, queue, cur, spc, pc>>

\* Slip: popped, and not pushed again.
MutSchedExpireLost ==
    /\ spc = "loop" /\ queue /= <<>>
    /\ LET p == Head(queue) IN
        /\ state[p] = "RUNNABLE" /\ ~HasTicksLeft(p)
        /\ queue' = pop(queue)
        /\ activeticks' = [activeticks EXCEPT ![p] = 0]
        /\ activesleepticks' = [activesleepticks EXCEPT ![p] = 0]
    /\ UNCHANGED <<procVars, timeslice, left, forkVars, cur, spc, pc>>

\* The head has used its slice and its compensation: to the tail with it.
SchedExpire ==
    /\ spc = "loop" /\ queue /= <<>>
    /\ LET p == Head(queue) IN
        /\ state[p] = "RUNNABLE" /\ ~HasTicksLeft(p)
        /\ queue' = push(pop(queue), p)
        /\ activeticks' = [activeticks EXCEPT ![p] = 0]
        /\ activesleepticks' = [activesleepticks EXCEPT ![p] = 0]
    /\ UNCHANGED <<procVars, timeslice, left, forkVars, cur, spc, pc>>

\* swtch to the head, which stays in the queue while it runs.  The process
\* continues in sleep() or yield(); the latter, and sys_sleep, then return to
\* user space through trap()'s check of killed.
SchedRun ==
    /\ spc = "loop" /\ queue /= <<>>
    /\ LET p == Head(queue) IN
        /\ state[p] = "RUNNABLE" /\ HasTicksLeft(p)
        /\ activeticks' = [activeticks EXCEPT ![p] = @ + 1]
        /\ state' = [state EXCEPT ![p] = "RUNNING"]
        /\ chan' = [chan EXCEPT ![p] = "none"]
        /\ cur' = p
        /\ spc' = "run"
        /\ pc' = [pc EXCEPT ![p] = IF @ \in {"user", "sleep"} THEN Return(p) ELSE @]
    /\ UNCHANGED <<pid, parent, killed, timeslice, activesleepticks, left, forkVars,
                   queue>>

-----------------------------------------------------------------------------
(* Interrupts and traps. *)

\* Slip: the timer interrupt yields, but does not call wakeup(&ticks).
MutTick ==
    /\ Interruptible
    /\ IF spc = "idle" THEN UNCHANGED <<state, cur, spc>>
       ELSE /\ state' = [state EXCEPT ![cur] = "RUNNABLE"]
            /\ cur' = NoProc
            /\ spc' = "loop"
    /\ UNCHANGED <<pid, parent, killed, chan, tickVars, forkVars, queue, pc>>

\* Sleepers on &ticks whose deadline the new value of ticks has reached.
Due == {p \in Sleepers("ticks") : left[p] <= 1}

\* ticks++ and wakeup(&ticks); then a process interrupted in user space with
\* killed set goes to exit(), any other process yields.
Tick ==
    /\ Interruptible
    /\ \E w \in TableOrder(Due) : queue' = queue \o w
    /\ activeticks' = ResetTicks(Due)
    /\ left' = [p \in Slots |-> IF p \in Sleepers("ticks") \ Due THEN left[p] - 1
                                ELSE IF p \in Due THEN 0 ELSE left[p]]
    /\ \/ /\ spc = "idle"
          /\ state' = Woken(state, Due)
          /\ UNCHANGED <<cur, spc, pc>>
       \/ /\ spc = "run" /\ pc[cur] = "user" /\ killed[cur]
          /\ state' = Woken(state, Due)
          /\ pc' = [pc EXCEPT ![cur] = "exiting"]
          /\ UNCHANGED <<cur, spc>>
       \/ /\ spc = "run" /\ ~(pc[cur] = "user" /\ killed[cur])
          /\ state' = [Woken(state, Due) EXCEPT ![cur] = "RUNNABLE"]
          /\ cur' = NoProc
          /\ spc' = "loop"
          /\ UNCHANGED pc
    /\ UNCHANGED <<pid, parent, killed, chan, timeslice, activesleepticks, forkVars>>

\* wakeup(e) for a channel other than &ticks.
wakeup(e) ==
    /\ \E w \in TableOrder(Sleepers(e)) : queue' = queue \o w
    /\ activeticks' = ResetTicks(Sleepers(e))
    /\ state' = Woken(state, Sleepers(e))
    /\ UNCHANGED <<pid, parent, killed, chan, timeslice, activesleepticks, left>>

\* A disk, keyboard or serial interrupt wakes the sleepers of its channel.
DeviceInterrupt(e) ==
    /\ Interruptible
    /\ wakeup(e)
    /\ pc' = [p \in Slots |->
                IF p = cur /\ pc[p] = "user" /\ killed[p] THEN "exiting" ELSE pc[p]]
    /\ UNCHANGED <<forkVars, cur, spc>>

\* A process in user space makes a system call.
SysEnter(p) ==
    /\ Running(p) /\ pc[p] = "user"
    /\ pc' = [pc EXCEPT ![p] = IF killed[p] THEN "exiting" ELSE "sys"]
    /\ UNCHANGED <<procVars, tickVars, forkVars, queue, cur, spc>>

\* A fault in user space: trap() kills the process.
UserFault(p) ==
    /\ Running(p) /\ pc[p] = "user"
    /\ killed' = [killed EXCEPT ![p] = TRUE]
    /\ pc' = [pc EXCEPT ![p] = "exiting"]
    /\ UNCHANGED <<state, pid, parent, chan, tickVars, forkVars, queue, cur, spc>>

\* forkret() returns to user space without looking at killed.
ForkRet(p) ==
    /\ Running(p) /\ pc[p] = "forkret"
    /\ pc' = [pc EXCEPT ![p] = "user"]
    /\ UNCHANGED <<procVars, tickVars, forkVars, queue, cur, spc>>

-----------------------------------------------------------------------------
(* System calls. *)

\* sleep(ch, lk): block and enter the scheduler.
Sleep(p, ch) ==
    /\ chan' = [chan EXCEPT ![p] = ch]
    /\ state' = [state EXCEPT ![p] = "SLEEPING"]
    /\ queue' = pop(queue)
    /\ cur' = NoProc
    /\ spc' = "loop"

\* A system call that changes nothing here, and every early return -1.
SysReturn(p) ==
    /\ Running(p) /\ pc[p] = "sys"
    /\ pc' = [pc EXCEPT ![p] = Return(p)]
    /\ UNCHANGED <<procVars, tickVars, forkVars, queue, cur, spc>>

\* Slip: the scan for a free slot looks at one slot too many.
MutForkAllocFull(p, s) ==
    /\ Running(p) /\ pc[p] = "sys" /\ nextpid <= MaxPid
    /\ \E np \in 1..(NPROC + 1) :
        /\ np \in Slots => state[np] = "UNUSED"
        /\ \A q \in Slots : state[q] = "UNUSED" => np <= q
        /\ state' = [q \in Slots |-> IF q = np THEN "EMBRYO" ELSE state[q]]
        /\ pid' = [q \in Slots |-> IF q = np THEN nextpid ELSE pid[q]]
        /\ child' = [child EXCEPT ![p] = np]
    /\ cslice' = [cslice EXCEPT ![p] = s]
    /\ nextpid' = nextpid + 1
    /\ pc' = [pc EXCEPT ![p] = "copy"]
    /\ UNCHANGED <<parent, killed, chan, tickVars, queue, cur, spc>>

\* Slip: nextpid for nextpid++.
MutForkAllocPid(p, s) ==
    /\ Running(p) /\ pc[p] = "sys"
    /\ \E np \in Slots :
        /\ state[np] = "UNUSED" /\ \A q \in Slots : state[q] = "UNUSED" => np <= q
        /\ state' = [state EXCEPT ![np] = "EMBRYO"]
        /\ pid' = [pid EXCEPT ![np] = nextpid]
        /\ child' = [child EXCEPT ![p] = np]
    /\ cslice' = [cslice EXCEPT ![p] = s]
    /\ pc' = [pc EXCEPT ![p] = "copy"]
    /\ UNCHANGED <<parent, killed, chan, tickVars, nextpid, queue, cur, spc>>

\* The first half of fork2(slice); fork() is fork2 with the caller's slice.
\* The bound on pids makes a table whose pids are used up look full.
ForkAlloc(p, s) ==
    /\ Running(p) /\ pc[p] = "sys" /\ nextpid <= MaxPid
    /\ \E np \in Slots :
        /\ state[np] = "UNUSED" /\ \A q \in Slots : state[q] = "UNUSED" => np <= q
        /\ state' = [state EXCEPT ![np] = "EMBRYO"]
        /\ pid' = [pid EXCEPT ![np] = nextpid]
        /\ activeticks' = [activeticks EXCEPT ![np] = 0]
        /\ activesleepticks' = [activesleepticks EXCEPT ![np] = 0]
        /\ left' = [left EXCEPT ![np] = 0]
        /\ child' = [child EXCEPT ![p] = np]
    /\ cslice' = [cslice EXCEPT ![p] = s]
    /\ nextpid' = nextpid + 1
    /\ pc' = [pc EXCEPT ![p] = "copy"]
    /\ UNCHANGED <<parent, killed, chan, timeslice, queue, cur, spc>>

ForkDone(p) ==
    /\ child' = [child EXCEPT ![p] = NoProc]
    /\ cslice' = [cslice EXCEPT ![p] = 0]
    /\ UNCHANGED nextpid

\* No memory for the stack or the page table: the slot is free again, and
\* keeps its pid.
ForkFail(p) ==
    /\ Running(p) /\ pc[p] = "copy"
    /\ state' = [state EXCEPT ![child[p]] = "UNUSED"]
    /\ pc' = [pc EXCEPT ![p] = Return(p)]
    /\ ForkDone(p)
    /\ UNCHANGED <<pid, parent, killed, chan, tickVars, queue, cur, spc>>

\* The code sets np->parent a little before it takes the lock; only p looks for
\* children of p, so nobody can tell.
ForkPublish(p) ==
    /\ Running(p) /\ pc[p] = "copy"
    /\ parent' = [parent EXCEPT ![child[p]] = p]
    /\ state' = [state EXCEPT ![child[p]] = "RUNNABLE"]
    /\ timeslice' = [timeslice EXCEPT ![child[p]] = cslice[p]]
    /\ queue' = push(queue, child[p])
    /\ pc' = [pc EXCEPT ![p] = Return(p), ![child[p]] = "forkret"]
    /\ ForkDone(p)
    /\ UNCHANGED <<pid, killed, chan, activeticks, activesleepticks, left, cur, spc>>

Children(p) == {q \in Slots : parent[q] = p}
Zombies(p)  == {q \in Children(p) : state[q] = "ZOMBIE"}

\* wait() under ptable.lock: entered by the system call, or after a wakeup.
InWait(p) == Running(p) /\ pc[p] \in {"sys", "wait"}

WaitReap(p) ==
    /\ InWait(p)
    /\ \E q \in Zombies(p) :
        /\ \A r \in Zombies(p) : q <= r
        /\ pid' = [pid EXCEPT ![q] = 0]
        /\ parent' = [parent EXCEPT ![q] = NoProc]
        /\ killed' = [killed EXCEPT ![q] = FALSE]
        /\ state' = [state EXCEPT ![q] = "UNUSED"]
    /\ pc' = [pc EXCEPT ![p] = Return(p)]
    /\ UNCHANGED <<chan, tickVars, forkVars, queue, cur, spc>>

WaitNone(p) ==
    /\ InWait(p)
    /\ Zombies(p) = {} /\ (Children(p) = {} \/ killed[p])
    /\ pc' = [pc EXCEPT ![p] = Return(p)]
    /\ UNCHANGED <<procVars, tickVars, forkVars, queue, cur, spc>>

WaitSleep(p) ==
    /\ InWait(p)
    /\ Zombies(p) = {} /\ Children(p) /= {} /\ ~killed[p]
    /\ Sleep(p, "wait")
    /\ pc' = [pc EXCEPT ![p] = "wait"]
    /\ UNCHANGED <<pid, parent, killed, tickVars, forkVars>>

\* sys_sleep(n): the fields are set before killed is looked at.
SysSleep(p, n) ==
    /\ Running(p) /\ pc[p] = "sys"
    /\ activesleepticks' = [activesleepticks EXCEPT ![p] = n]
    /\ activeticks' = [activeticks EXCEPT ![p] = 0]
    /\ IF killed[p]
       THEN /\ pc' = [pc EXCEPT ![p] = "exiting"]
            /\ UNCHANGED <<chan, state, queue, cur, spc, left>>
       ELSE /\ left' = [left EXCEPT ![p] = IF n > 0 THEN n ELSE 0]
            /\ Sleep(p, "ticks")
            /\ pc' = [pc EXCEPT ![p] = "sleep"]
    /\ UNCHANGED <<pid, parent, killed, timeslice, forkVars>>

\* kill(k): marks the first slot with that pid; a sleeper becomes RUNNABLE.
Kill(p, k) ==
    /\ Running(p) /\ pc[p] = "sys"
    /\ \E q \in FindPid(k) :
        /\ killed' = [killed EXCEPT ![q] = TRUE]
        /\ state' = [state EXCEPT ![q] = IF @ = "SLEEPING" THEN "RUNNABLE" ELSE @]
        /\ pc' = [pc EXCEPT ![p] = IF q = p THEN "exiting" ELSE Return(p)]
    /\ UNCHANGED <<pid, parent, chan, tickVars, forkVars, queue, cur, spc>>

setslice(p, k, s) ==
    /\ Running(p) /\ pc[p] = "sys"
    /\ \E q \in FindPid(k) : timeslice' = [timeslice EXCEPT ![q] = s]
    /\ pc' = [pc EXCEPT ![p] = Return(p)]
    /\ UNCHANGED <<procVars, activeticks, activesleepticks, left, forkVars, queue, cur,
                   spc>>

\* getslice of a pid nobody has: the second acquire(&ptable.lock) panics.
\* (Found, it only reads: SysReturn.)
getslice(p, k) ==
    /\ Running(p) /\ pc[p] = "sys"
    /\ FindPid(k) = {}
    /\ spc' = "panic"
    /\ UNCHANGED <<procVars, tickVars, forkVars, queue, cur, pc>>

\* Any other sleep loop (pipes, console, sleep-locks, log, disk); the root
\* process also sleeps on the disk in its forkret, an exiting one in fileclose.
SleepOn(p, e) ==
    /\ Running(p)
    /\ pc[p] \in {"sys", "event", "exiting"} \/ (pc[p] = "forkret" /\ p = InitProc)
    /\ pc[p] = "exiting" => p /= InitProc
    /\ Sleep(p, e)
    /\ pc' = [pc EXCEPT ![p] = IF @ = "sys" THEN "event" ELSE @]
    /\ UNCHANGED <<pid, parent, killed, tickVars, forkVars>>

\* The condition of the sleep loop holds now.
SleepDone(p) ==
    /\ Running(p) /\ pc[p] = "event"
    /\ pc' = [pc EXCEPT ![p] = Return(p)]
    /\ UNCHANGED <<procVars, tickVars, forkVars, queue, cur, spc>>

\* A system call that wakes others: pipes, sleep-locks, the log.
SysWakeup(p, e) ==
    /\ Running(p) /\ pc[p] = "sys"
    /\ wakeup(e)
    /\ pc' = [pc EXCEPT ![p] = Return(p)]
    /\ UNCHANGED <<forkVars, cur, spc>>

ExitCall(p) ==
    /\ Running(p) /\ pc[p] = "sys"
    /\ pc' = [pc EXCEPT ![p] = "exiting"]
    /\ UNCHANGED <<procVars, tickVars, forkVars, queue, cur, spc>>

InitExits(p) ==
    /\ Running(p) /\ pc[p] = "exiting" /\ p = InitProc
    /\ spc' = "panic"
    /\ UNCHANGED <<procVars, tickVars, forkVars, queue, cur, pc>>

\* Slips: exit() does not wake init when it inherits a zombie; it wakes nobody;
\* it does not pass its children to init.
ExitWith(p, W, par) ==
    /\ Running(p) /\ pc[p] = "exiting" /\ p /= InitProc
    /\ \E w \in TableOrder(W) : queue' = queue \o w
    /\ activeticks' = ResetTicks(W)
    /\ state' = [Woken(state, W) EXCEPT ![p] = "ZOMBIE"]
    /\ parent' = par
    /\ cur' = NoProc
    /\ spc' = "loop"
    /\ UNCHANGED <<pid, killed, chan, timeslice, activesleepticks, left, forkVars, pc>>

Inherited(p) == [q \in Slots |-> IF parent[q] = p THEN InitProc ELSE parent[q]]

MutExitSilent(p) == ExitWith(p, {}, Inherited(p))
MutExitOrphan(p) == ExitWith(p, Sleepers("wait") \cap {parent[p]}, parent)

\* exit() under ptable.lock: wake the parent, then init if it inherits a
\* zombie, and never come back.
Exit(p) ==
    /\ Running(p) /\ pc[p] = "exiting" /\ p /= InitProc
    /\ LET W1 == Sleepers("wait") \cap {parent[p]}
           W2 == IF Zombies(p) = {} THEN {}
                 ELSE (Sleepers("wait") \cap {InitProc}) \ W1
       IN /\ \E w1 \in TableOrder(W1), w2 \in TableOrder(W2) :
                queue' = (queue \o w1) \o w2
          /\ activeticks' = ResetTicks(W1 \cup W2)
          /\ state' = [Woken(state, W1 \cup W2) EXCEPT ![p] = "ZOMBIE"]
    /\ parent' = [q \in Slots |-> IF parent[q] = p THEN InitProc ELSE parent[q]]
    /\ cur' = NoProc
    /\ spc' = "loop"
    /\ UNCHANGED <<pid, killed, chan, timeslice, activesleepticks, left, forkVars, pc>>

\* panic() spins with interrupts off.
Halted == spc = "panic" /\ UNCHANGED vars

-----------------------------------------------------------------------------
Scheduler == SchedEnter \/ SchedDrained \/ SchedDrop \/ SchedExpire \/ SchedRun

\* Steps inside the kernel that need nothing from user space or a device.
KernelStep(p) ==
    \/ ForkRet(p) \/ ForkFail(p) \/ ForkPublish(p) \/ Exit(p) \/ InitExits(p)
    \/ (pc[p] = "wait" /\ (WaitReap(p) \/ WaitNone(p) \/ WaitSleep(p)))

Syscall(p) ==
    \/ SysEnter(p) \/ UserFault(p) \/ SysReturn(p) \/ ExitCall(p)
    \/ WaitReap(p) \/ WaitNone(p) \/ WaitSleep(p)
    \/ \E s \in Slices : ForkAlloc(p, s)
    \/ \E n \in SleepLens : SysSleep(p, n)
    \/ \E k \in KillPids : Kill(p, k)
    \/ \E k \in SlicePids : getslice(p, k)
    \/ \E k \in SlicePids, s \in Slices : setslice(p, k, s)
    \/ \E e \in Events : SleepOn(p, e) \/ SleepDone(p) \/ SysWakeup(p, e)

Next ==
    \/ Scheduler
    \/ Tick
    \/ \E e \in Events : DeviceInterrupt(e)
    \/ \E p \in Slots : KernelStep(p) \/ Syscall(p)
    \/ Halted

Spec == Init /\ [][Next]_vars
\* The timer interrupt is latched until interrupts are on again, so it is
\* taken (SF); the scheduler loop runs whenever nobody else does (WF); code
\* inside the kernel makes progress each time it has the CPU, which the timer
\* may take away again and again (SF).  User space owes no progress.
Fairness ==
    /\ WF_vars(Scheduler)
    /\ SF_vars(Tick)
    /\ \A p \in Slots : SF_vars(KernelStep(p))

FairSpec == Spec /\ Fairness

-----------------------------------------------------------------------------
(* Properties. *)

\* Liveness is promised only while the kernel runs.
Panicked == spc = "panic"

InQueue(p) == \E i \in 1..Len(queue) : queue[i] = p

\* The running process is the one at the head of the queue.  sleep() and
\* scheduler() rely on it: both pop() the head to remove the current process.
CurIsHead ==
    /\ \A p \in Slots : state[p] = "RUNNING" <=> cur = p
    /\ cur /= NoProc => queue /= <<>> /\ queue[1] = cur

\* push() never adds a process that is in the queue already, which would cut
\* the list at p->next = 0; and a process that cannot run is in the queue only
\* for the moment between exit() and the scheduler's next look at the head.
QueueSound ==
    /\ \A i, j \in 1..Len(queue) : queue[i] = queue[j] => i = j
    /\ \A i \in 1..Len(queue) :
        \/ state[queue[i]] \in {"RUNNABLE", "RUNNING"}
        \/ state[queue[i]] = "ZOMBIE" /\ i = 1 /\ spc = "loop"

\* A process that is ready is in the queue, the only place scheduler() looks
\* at, however its wakeup interleaved with timer ticks, exits and forks.
\* (kill() breaks this for the processes it wakes.)
RunnableQueued ==
    \A p \in Slots : state[p] = "RUNNABLE" /\ ~killed[p] => InQueue(p)

\* The run queue holds what scheduler() needs of it: the current process first,
\* nobody twice or without being able to run, everybody who is ready.
QueueOK == CurIsHead /\ QueueSound /\ RunnableQueued

\* No two slots carry the same pid, those of failed forks included, so that
\* pop()'s comparison of pids and the scans of kill and setslice are sound.
PidsUnique ==
    /\ \A p, q \in Slots : pid[p] = pid[q] /\ pid[p] /= 0 => p = q
    /\ \A p \in Slots : pid[p] < nextpid
    /\ \A p \in Slots : state[p] /= "UNUSED" => pid[p] /= 0

\* No lost wakeup in wait(): a parent sleeps only while it has a child that
\* will wake it up, i.e. a child that has not exited yet.
WaitSound ==
    \A p \in Sleepers("wait") : Zombies(p) = {} /\ Children(p) /= {}

\* Every process but init has a parent that can still wait for it, so that no
\* zombie is left behind when parents exit first.
ParentLive ==
    \A p \in Slots :
        /\ state[p] \in {"UNUSED", "EMBRYO"} => parent[p] = NoProc
        /\ state[p] \notin {"UNUSED", "EMBRYO"} /\ p /= InitProc =>
            /\ parent[p] \in Slots
            /\ state[parent[p]] \in {"SLEEPING", "RUNNABLE", "RUNNING"}

\* No starvation: the round robin reaches every process that is ready.
EveryRunnableRuns ==
    \A p \in Slots :
        (state[p] = "RUNNABLE" /\ ~killed[p]) ~>
            (state[p] = "RUNNING" \/ killed[p] \/ Panicked)

\* A process asleep in sys_sleep wakes up after its ticks.
SleeperWakes ==
    \A p \in Slots :
        (state[p] = "SLEEPING" /\ chan[p] = "ticks") ~>
            (state[p] /= "SLEEPING" \/ Panicked)

\* wait() returns once there is a zombie to return.
WaitReturns ==
    \A p \in Slots :
        (pc[p] = "wait" /\ Zombies(p) /= {}) ~>
            (pc[p] /= "wait" \/ killed[p] \/ Panicked)

\* "Kill the process with the given pid. Process won't exit until it returns
\* to user space": a killed process whose system call can end does exit.
KilledExits ==
    \A p \in Slots :
        (killed[p] /\ pc[p] = "sleep" /\ p /= InitProc) ~>
            (state[p] \in {"ZOMBIE", "UNUSED"} \/ Panicked)

=============================================================================
