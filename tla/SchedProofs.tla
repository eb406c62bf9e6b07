---------------------------- MODULE SchedProofs ----------------------------
(***************************************************************************)
(* Proofs about the p4 scheduler, for every size of the process table,     *)
(* every set of arguments and schedules of any length: the process table   *)
(* and the run queue (Sched), the statistics of getpinfo() (SchedStats),   *)
(* and the pointers that implement the run queue (RunQueue).               *)
(***************************************************************************)
EXTENDS SchedStats, RunQueue, SequenceTheorems, FiniteSetTheorems, TLAPS

-----------------------------------------------------------------------------
(* Facts about the queue. *)

\* w lists the members of W, each of them once.
Lists(w, W) ==
    /\ w \in Seq(Slots)
    /\ \A i \in 1..Len(w) : w[i] \in W
    /\ \A p \in W : \E i \in 1..Len(w) : w[i] = p
    /\ \A i, j \in 1..Len(w) : w[i] = w[j] => i = j

\* The sequence wakeup1 pushes lists the processes it wakes.
LEMMA TableOrderFacts ==
    ASSUME NEW W \in SUBSET Slots, NEW w \in TableOrder(W)
    PROVE  Lists(w, W)
<1>1. IsFiniteSet(W)
  <2>1. IsFiniteSet(1..NPROC)
    BY FS_Interval, NPROCAssumption
  <2> QED BY <2>1, FS_Subset DEF Slots
<1>2. Cardinality(W) \in Nat
  BY <1>1, FS_CardinalityType
<1> DEFINE n == Cardinality(W)
<1> HIDE DEF n
<1>3. /\ w \in [1..n -> W]
      /\ \A i, j \in 1..n : i < j => w[i] < w[j]
      /\ \A p \in W : \E i \in 1..n : w[i] = p
  BY DEF TableOrder, n
<1>4. n \in Nat
  BY <1>2 DEF n
<1>5. w \in Seq(W) /\ Len(w) = n
  BY <1>3, <1>4
<1>6. w \in Seq(Slots)
  BY <1>5, SeqMonotonic
<1>7. \A i, j \in 1..n : w[i] = w[j] => i = j
  <2> SUFFICES ASSUME NEW i \in 1..n, NEW j \in 1..n, w[i] = w[j], i /= j
               PROVE  FALSE
    OBVIOUS
  <2>1. w[i] \in Slots /\ w[j] \in Slots
    BY <1>3
  <2>2. w[i] \in Int
    BY <2>1, NPROCAssumption DEF Slots
  <2>3. w[i] < w[j] \/ w[j] < w[i]
    BY <1>3, <1>4
  <2> QED BY <2>2, <2>3
<1> QED BY <1>3, <1>5, <1>6, <1>7 DEF Lists

\* pop() yields a sequence of processes, whatever the pids are.
LEMMA PopType ==
    ASSUME TypeOK
    PROVE  pop(queue) \in Seq(Slots)
BY HeadTailProperties, EmptySeq DEF TypeOK, pop

-----------------------------------------------------------------------------
(* Types. *)

\* The state userinit() leaves has the right types.
LEMMA InitType == Init => TypeOK
<1> SUFFICES ASSUME Init PROVE TypeOK
  OBVIOUS
<1>1. InitProc \in Slots
  BY NPROCAssumption DEF Slots, InitProc
<1>2. queue \in Seq(Slots)
  BY <1>1 DEF Init
<1> QED
  BY <1>1, <1>2, SlicesAssumption DEF Init, TypeOK, States, PCs, NoProc

\* A wakeup changes no types.
LEMMA WakeType ==
    ASSUME TypeOK, NEW W \in SUBSET Slots, NEW w \in TableOrder(W)
    PROVE  /\ queue \o w \in Seq(Slots)
           /\ ResetTicks(W) \in [Slots -> Nat]
           /\ Woken(state, W) \in [Slots -> States]
<1>1. w \in Seq(Slots)
  BY TableOrderFacts DEF Lists
<1>2. queue \o w \in Seq(Slots)
  BY <1>1, ConcatProperties DEF TypeOK
<1>3. ResetTicks(W) \in [Slots -> Nat]
  BY DEF TypeOK, ResetTicks
<1>4. Woken(state, W) \in [Slots -> States]
  BY DEF TypeOK, Woken, States
<1> QED BY <1>2, <1>3, <1>4

\* The end of a system call is a place where a process can be.
LEMMA ReturnType == \A p \in Slots : Return(p) \in PCs
BY DEF Return, PCs

\* The scheduler's steps keep the types.
LEMMA SchedulerType == TypeOK /\ Scheduler => TypeOK'
<1> SUFFICES ASSUME TypeOK, Scheduler PROVE TypeOK'
  OBVIOUS
<1> USE DEF TypeOK, procVars, tickVars, forkVars
<1>0. queue /= <<>> => Head(queue) \in Slots
  BY HeadTailProperties
<1>1. CASE SchedEnter
  BY <1>1 DEF SchedEnter
<1>2. CASE SchedDrained
  BY <1>2 DEF SchedDrained
<1>3. CASE SchedDrop
  BY <1>3, PopType DEF SchedDrop
<1>4. CASE SchedExpire
  <2>1. push(pop(queue), Head(queue)) \in Seq(Slots)
    BY <1>0, <1>4, PopType, AppendProperties DEF SchedExpire, push
  <2> QED BY <1>4, <2>1, SMTT(60) DEF SchedExpire
<1>5. CASE SchedRun
  <2> DEFINE p == Head(queue)
  <2>1. p \in Slots /\ Return(p) \in PCs
    BY <1>0, <1>5, ReturnType DEF SchedRun
  <2>2. state' \in [Slots -> States]
    BY <1>5 DEF SchedRun, States
  <2>3. activeticks' \in [Slots -> Nat]
    BY <1>5, <2>1 DEF SchedRun
  <2>4. pc' \in [Slots -> PCs] /\ chan' \in [Slots -> {"none", "ticks", "wait"} \cup Events]
    BY <1>5, <2>1 DEF SchedRun
  <2> QED BY <1>5, <2>1, <2>2, <2>3, <2>4 DEF SchedRun
<1> QED BY <1>1, <1>2, <1>3, <1>4, <1>5 DEF Scheduler

\* A timer interrupt keeps the types.
LEMMA TickType == TypeOK /\ Tick => TypeOK'
<1> SUFFICES ASSUME TypeOK, Tick PROVE TypeOK'
  OBVIOUS
<1> DEFINE D == Due
<1>1. D \in SUBSET Slots
  BY DEF Due, Sleepers
<1>2. PICK w \in TableOrder(D) : queue' = queue \o w
  BY DEF Tick
<1>3. queue' \in Seq(Slots) /\ activeticks' \in [Slots -> Nat]
  BY <1>1, <1>2, WakeType DEF Tick
<1>4. Woken(state, D) \in [Slots -> States]
  BY <1>1, <1>2, WakeType
<1>5. state' \in [Slots -> States]
  BY <1>4 DEF Tick, States
<1>6. left' \in [Slots -> Nat]
  BY DEF Tick, TypeOK, Due
<1>7. pc' \in [Slots -> PCs] /\ cur' \in Slots \cup {NoProc} /\ spc' \in {"idle", "loop", "run", "panic"}
  BY DEF Tick, TypeOK, PCs
<1> QED BY <1>3, <1>5, <1>6, <1>7 DEF Tick, TypeOK, forkVars

\* wakeup() of a channel keeps the types of all it changes.
LEMMA WakeupType ==
    ASSUME TypeOK, NEW e, wakeup(e)
    PROVE  /\ queue' \in Seq(Slots)
           /\ activeticks' \in [Slots -> Nat]
           /\ state' \in [Slots -> States]
<1>1. Sleepers(e) \in SUBSET Slots
  BY DEF Sleepers
<1> QED BY <1>1, WakeType DEF wakeup

\* A device interrupt keeps the types.
LEMMA DeviceType ==
    ASSUME TypeOK, NEW e \in Events, DeviceInterrupt(e)
    PROVE  TypeOK'
<1>1. wakeup(e) /\ pc' \in [Slots -> PCs]
  BY DEF DeviceInterrupt, TypeOK, PCs
<1> QED BY <1>1, WakeupType DEF TypeOK, DeviceInterrupt, wakeup, forkVars

\* What sleep() changes keeps its type.
LEMMA SleepType ==
    ASSUME TypeOK, NEW p \in Slots, NEW ch \in {"none", "ticks", "wait"} \cup Events, Sleep(p, ch)
    PROVE  /\ chan' \in [Slots -> {"none", "ticks", "wait"} \cup Events]
           /\ state' \in [Slots -> States]
           /\ queue' \in Seq(Slots)
           /\ cur' \in Slots \cup {NoProc}
           /\ spc' \in {"idle", "loop", "run", "panic"}
BY PopType DEF Sleep, TypeOK, States

\* fork2 remembers its child from allocproc to the end: what ForkPublish
\* pushes is a process.
ForkChild == \A p \in Slots : pc[p] = "copy" => child[p] \in Slots

\* wait() keeps the types, whether it reaps, returns or sleeps.
LEMMA WaitType ==
    ASSUME TypeOK, NEW p \in Slots, WaitReap(p) \/ WaitNone(p) \/ WaitSleep(p)
    PROVE  TypeOK'
<1> USE ReturnType DEF procVars, tickVars, forkVars
<1>1. CASE WaitReap(p)
  <2>1. PICK q \in Slots :
          /\ pid' = [pid EXCEPT ![q] = 0]
          /\ parent' = [parent EXCEPT ![q] = NoProc]
          /\ killed' = [killed EXCEPT ![q] = FALSE]
          /\ state' = [state EXCEPT ![q] = "UNUSED"]
    BY <1>1 DEF WaitReap, Zombies, Children
  <2> QED BY <1>1, <2>1 DEF WaitReap, TypeOK, States
<1>2. CASE WaitNone(p)
  BY <1>2 DEF WaitNone, TypeOK
<1>3. CASE WaitSleep(p)
  <2>1. Sleep(p, "wait")
    BY <1>3 DEF WaitSleep
  <2>2. pc' \in [Slots -> PCs]
    BY <1>3 DEF WaitSleep, TypeOK, PCs
  <2> QED BY <1>3, <2>1, <2>2, SleepType DEF WaitSleep, TypeOK
<1> QED BY <1>1, <1>2, <1>3

\* exit() keeps the types.
LEMMA ExitType ==
    ASSUME TypeOK, NEW p \in Slots, Exit(p)
    PROVE  TypeOK'
<1> DEFINE W1 == Sleepers("wait") \cap {parent[p]}
           W2 == IF Zombies(p) = {} THEN {} ELSE (Sleepers("wait") \cap {InitProc}) \ W1
           W == W1 \cup W2
<1>1. W1 \in SUBSET Slots /\ W2 \in SUBSET Slots /\ W \in SUBSET Slots
  BY DEF Sleepers
<1>2. PICK w1 \in TableOrder(W1), w2 \in TableOrder(W2) : queue' = (queue \o w1) \o w2
  BY DEF Exit
<1>3. queue' \in Seq(Slots)
  <2>1. w1 \in Seq(Slots) /\ w2 \in Seq(Slots)
    BY <1>1, TableOrderFacts DEF Lists
  <2> QED BY <1>2, <2>1, ConcatProperties DEF TypeOK
<1>4. activeticks' \in [Slots -> Nat]
  BY DEF Exit, ResetTicks, TypeOK
<1>5. state' \in [Slots -> States]
  BY DEF Exit, Woken, TypeOK, States
<1>6. parent' \in [Slots -> Slots \cup {NoProc}]
  BY NPROCAssumption DEF Exit, TypeOK, InitProc, Slots
<1> QED BY <1>3, <1>4, <1>5, <1>6 DEF Exit, TypeOK, forkVars

\* The steps inside the kernel keep the types.
LEMMA KernelType ==
    ASSUME TypeOK, ForkChild, NEW p \in Slots, KernelStep(p)
    PROVE  TypeOK'
<1> USE DEF procVars, tickVars, forkVars
<1>1. CASE ForkRet(p)
  BY <1>1 DEF ForkRet, TypeOK, PCs
<1>2. CASE ForkFail(p)
  BY <1>2, ReturnType DEF ForkFail, ForkDone, TypeOK, States
<1>3. CASE ForkPublish(p)
  <2>1. child[p] \in Slots /\ cslice[p] \in Slices \cup {0} /\ Return(p) \in PCs
    BY <1>3, ReturnType DEF TypeOK, ForkChild, ForkPublish
  <2>2. queue' \in Seq(Slots)
    BY <1>3, <2>1, AppendProperties DEF ForkPublish, push, TypeOK
  <2> QED BY <1>3, <2>1, <2>2 DEF ForkPublish, ForkDone, TypeOK, States, PCs
<1>4. CASE Exit(p)
  BY <1>4, ExitType
<1>5. CASE InitExits(p)
  BY <1>5 DEF InitExits, TypeOK
<1>6. CASE WaitReap(p) \/ WaitNone(p) \/ WaitSleep(p)
  BY <1>6, WaitType
<1> QED BY <1>1, <1>2, <1>3, <1>4, <1>5, <1>6 DEF KernelStep

\* The system calls keep the types.
LEMMA SyscallType ==
    ASSUME TypeOK, NEW p \in Slots, Syscall(p)
    PROVE  TypeOK'
<1> USE ReturnType DEF procVars, tickVars, forkVars
<1>1. CASE SysEnter(p)
  BY <1>1 DEF SysEnter, TypeOK, PCs
<1>2. CASE UserFault(p)
  BY <1>2 DEF UserFault, TypeOK, PCs
<1>3. CASE SysReturn(p)
  BY <1>3 DEF SysReturn, TypeOK
<1>4. CASE ExitCall(p)
  BY <1>4 DEF ExitCall, TypeOK, PCs
<1>5. CASE SleepDone(p)
  BY <1>5 DEF SleepDone, TypeOK
<1>6. CASE WaitReap(p) \/ WaitNone(p) \/ WaitSleep(p)
  BY <1>6, WaitType
<1>7. ASSUME NEW s \in Slices, ForkAlloc(p, s) PROVE TypeOK'
  <2>1. PICK np \in Slots :
          /\ state' = [state EXCEPT ![np] = "EMBRYO"]
          /\ pid' = [pid EXCEPT ![np] = nextpid]
          /\ activeticks' = [activeticks EXCEPT ![np] = 0]
          /\ activesleepticks' = [activesleepticks EXCEPT ![np] = 0]
          /\ left' = [left EXCEPT ![np] = 0]
          /\ child' = [child EXCEPT ![p] = np]
    BY <1>7 DEF ForkAlloc
  <2> QED BY <1>7, <2>1, SMTT(60) DEF ForkAlloc, TypeOK, States, PCs
<1>8. ASSUME NEW n \in SleepLens, SysSleep(p, n) PROVE TypeOK'
  <2>1. n \in Int /\ (IF n > 0 THEN n ELSE 0) \in Nat
    BY SleepLensAssumption
  <2>2. CASE killed[p]
    BY <1>8, <2>1, <2>2 DEF SysSleep, TypeOK, PCs
  <2>3. CASE ~killed[p]
    <3>1. Sleep(p, "ticks")
      BY <1>8, <2>3 DEF SysSleep
    <3>2. pc' \in [Slots -> PCs] /\ left' \in [Slots -> Nat] /\ activesleepticks' \in [Slots -> Int]
          /\ activeticks' \in [Slots -> Nat]
      BY <1>8, <2>1, <2>3, ZenonT(120) DEF SysSleep, TypeOK, PCs
    <3> QED BY <1>8, <3>1, <3>2, SleepType DEF SysSleep, TypeOK
  <2> QED BY <2>2, <2>3
<1>9. ASSUME NEW k \in KillPids, Kill(p, k) PROVE TypeOK'
  <2>1. PICK q \in Slots :
          /\ killed' = [killed EXCEPT ![q] = TRUE]
          /\ state' = [state EXCEPT ![q] = IF @ = "SLEEPING" THEN "RUNNABLE" ELSE @]
          /\ pc' = [pc EXCEPT ![p] = IF q = p THEN "exiting" ELSE Return(p)]
    BY <1>9 DEF Kill, FindPid
  <2>2. pc' \in [Slots -> PCs]
    BY <2>1 DEF TypeOK, PCs, Return
  <2>3. state' \in [Slots -> States]
    BY <2>1 DEF TypeOK, States
  <2> QED BY <1>9, <2>1, <2>2, <2>3 DEF Kill, TypeOK
<1>10. ASSUME NEW k \in SlicePids, getslice(p, k) PROVE TypeOK'
  BY <1>10 DEF getslice, TypeOK
<1>11. ASSUME NEW k \in SlicePids, NEW s \in Slices, setslice(p, k, s) PROVE TypeOK'
  <2>1. PICK q \in Slots : timeslice' = [timeslice EXCEPT ![q] = s]
    BY <1>11 DEF setslice, FindPid
  <2> QED BY <1>11, <2>1 DEF setslice, TypeOK
<1>12. ASSUME NEW e \in Events, SleepOn(p, e) PROVE TypeOK'
  <2>1. Sleep(p, e)
    BY <1>12 DEF SleepOn
  <2>2. pc' \in [Slots -> PCs]
    BY <1>12 DEF SleepOn, TypeOK, PCs
  <2> QED BY <1>12, <2>1, <2>2, SleepType DEF SleepOn, TypeOK
<1>13. ASSUME NEW e \in Events, SysWakeup(p, e) PROVE TypeOK'
  <2>1. wakeup(e) /\ pc' \in [Slots -> PCs]
    BY <1>13 DEF SysWakeup, TypeOK
  <2> QED BY <1>13, <2>1, WakeupType DEF TypeOK, SysWakeup, wakeup
<1> QED
  BY <1>1, <1>2, <1>3, <1>4, <1>5, <1>6, <1>7, <1>8, <1>9, <1>10, <1>11, <1>12, <1>13
  DEF Syscall

-----------------------------------------------------------------------------
(* Scheduling.  The invariant says of every process where it is: RUNNING   *)
(* and at the head, RUNNABLE and in the queue, or in neither place.        *)

\* The CPU has a process exactly while it runs (or panicked while running).
CurSpc == cur /= NoProc <=> spc \in {"run", "panic"}

\* A process inside fork2 owns its EMBRYO, alone, until it publishes it.
ForkOwned ==
    \A p \in Slots : pc[p] = "copy" =>
        /\ state[p] \in {"RUNNABLE", "RUNNING"}
        /\ child[p] \in Slots
        /\ state[child[p]] = "EMBRYO"
        /\ \A r \in Slots : pc[r] = "copy" /\ child[r] = child[p] => r = p

SInv ==
    /\ TypeOK
    /\ CurSpc
    /\ CurIsHead
    /\ QueueSound
    /\ RunnableQueued
    /\ PidsUnique
    /\ ForkOwned

\* What queue consists of, for use where TypeOK is too much to expand.
LEMMA QueueFacts ==
    ASSUME TypeOK
    PROVE  /\ Len(queue) \in Nat
           /\ \A i \in 1..Len(queue) : queue[i] \in Slots
           /\ queue /= <<>> => Len(queue) >= 1 /\ Head(queue) = queue[1] /\ 1 \in 1..Len(queue)
BY ElementOfSeq, EmptySeq DEF TypeOK

\* A process that takes a step is the one on the CPU.
LEMMA RunningFacts ==
    ASSUME SInv, NEW p \in Slots, Running(p)
    PROVE  /\ cur = p /\ spc = "run" /\ p /= NoProc
           /\ state[p] = "RUNNING"
           /\ queue /= <<>> /\ queue[1] = p
BY NPROCAssumption DEF SInv, Running, CurIsHead, Slots, NoProc

\* A process in the queue has a pid, and no other slot has it; so pop()
\* recognises the last process and removes exactly the head.
LEMMA PopTail ==
    ASSUME SInv, queue /= <<>>
    PROVE  /\ pop(queue) = Tail(queue)
           /\ pop(queue) \in Seq(Slots)
           /\ Len(pop(queue)) = Len(queue) - 1
           /\ \A i \in 1..Len(pop(queue)) : pop(queue)[i] = queue[i + 1]
<1>1. TypeOK /\ QueueSound /\ PidsUnique
  BY DEF SInv
<1>2. /\ Len(queue) \in Nat /\ Len(queue) >= 1 /\ queue[1] \in Slots
      /\ queue[Len(queue)] \in Slots /\ queue \in Seq(Slots)
  BY <1>1, QueueFacts DEF TypeOK
<1>3. /\ Tail(queue) \in Seq(Slots)
      /\ Len(Tail(queue)) = Len(queue) - 1
      /\ \A i \in 1..Len(Tail(queue)) : Tail(queue)[i] = queue[i + 1]
  BY <1>2, HeadTailProperties
<1>4. ASSUME pid[queue[1]] = pid[queue[Len(queue)]]
      PROVE  Len(queue) = 1
  <2>1. state[queue[1]] /= "UNUSED"
    BY <1>1, <1>2 DEF QueueSound
  <2>2. queue[1] = queue[Len(queue)]
    BY <1>1, <1>2, <1>4, <2>1 DEF PidsUnique
  <2>3. 1 \in 1..Len(queue) /\ Len(queue) \in 1..Len(queue)
    BY <1>2
  <2>4. \A i, j \in 1..Len(queue) : queue[i] = queue[j] => i = j
    BY <1>1 DEF QueueSound
  <2> QED BY <2>2, <2>3, <2>4
<1>5. ASSUME Len(queue) = 1 PROVE Tail(queue) = <<>>
  <2>1. Len(Tail(queue)) = 0
    BY <1>3, <1>5
  <2>2. Tail(queue) /= <<>> => Len(Tail(queue)) \in Nat \ {0}
    BY <1>3, EmptySeq
  <2> QED BY <2>1, <2>2
<1> QED BY <1>3, <1>4, <1>5 DEF pop

\* Steps that move no process: they change at most where a process is in the
\* kernel, and what the idle CPU does.
LEMMA QuietStep ==
    ASSUME SInv, TypeOK',
           UNCHANGED <<state, pid, queue, cur, nextpid, child>>,
           \A p \in Slots : killed[p] => killed'[p],
           \A p \in Slots : pc'[p] = "copy" => pc[p] = "copy",
           \/ spc' = spc
           \/ spc = "idle" /\ spc' = "loop"
           \/ spc = "run" /\ spc' = "panic"
           \/ queue = <<>> /\ spc = "loop" /\ spc' = "idle"
    PROVE  SInv'
<1>1. CurSpc'
  BY DEF SInv, CurSpc
<1>2. CurIsHead'
  BY DEF SInv, CurIsHead
<1>3. QueueSound'
  BY DEF SInv, QueueSound
<1>4. RunnableQueued'
  BY DEF SInv, RunnableQueued, InQueue
<1>5. PidsUnique'
  BY DEF SInv, PidsUnique
<1>6. ForkOwned'
  BY DEF SInv, ForkOwned
<1> QED BY <1>1, <1>2, <1>3, <1>4, <1>5, <1>6 DEF SInv

\* The running process blocks: sleep() takes it, and only it, off the queue.
LEMMA SleepStep ==
    ASSUME SInv, TypeOK', NEW p \in Slots, Running(p), NEW ch, Sleep(p, ch),
           UNCHANGED <<pid, killed, nextpid, child>>,
           pc[p] /= "copy",
           \A r \in Slots : pc'[r] = "copy" => pc[r] = "copy"
    PROVE  SInv'
<1>1. /\ cur = p /\ spc = "run" /\ p /= NoProc /\ state[p] = "RUNNING"
      /\ queue /= <<>> /\ queue[1] = p
  BY RunningFacts
<1>2. /\ state' = [state EXCEPT ![p] = "SLEEPING"]
      /\ cur' = NoProc /\ spc' = "loop" /\ queue' = pop(queue)
  BY DEF Sleep
<1>3. /\ Len(queue) \in Nat /\ Len(queue) >= 1
      /\ Len(queue') = Len(queue) - 1
      /\ \A i \in 1..Len(queue') : queue'[i] = queue[i + 1]
      /\ \A i \in 1..Len(queue) : queue[i] \in Slots
  BY <1>1, <1>2, PopTail, QueueFacts DEF SInv
<1>4. \A r \in Slots : state'[r] = IF r = p THEN "SLEEPING" ELSE state[r]
  BY <1>2 DEF SInv, TypeOK
<1>5. CurSpc' /\ CurIsHead'
  BY <1>1, <1>2, <1>4, NPROCAssumption DEF SInv, CurSpc, CurIsHead, Slots, NoProc
<1>6. QueueSound'
  <2>1. \A i \in 1..Len(queue') : i + 1 \in 1..Len(queue) /\ queue'[i] = queue[i + 1]
                                  /\ queue[i + 1] /= p
    BY <1>1, <1>3 DEF SInv, QueueSound
  <2>2. \A i, j \in 1..Len(queue') : queue'[i] = queue'[j] => i = j
    BY <1>3, <2>1 DEF SInv, QueueSound
  <2>3. \A i \in 1..Len(queue') : state'[queue'[i]] \in {"RUNNABLE", "RUNNING"}
    BY <1>1, <1>3, <1>4, <2>1 DEF SInv, QueueSound
  <2> QED BY <2>2, <2>3 DEF QueueSound
<1>7. RunnableQueued'
  <2> SUFFICES ASSUME NEW r \in Slots, state'[r] = "RUNNABLE", ~killed[r]
               PROVE  InQueue(r)'
    BY DEF RunnableQueued
  <2>1. PICK i \in 1..Len(queue) : queue[i] = r
    BY <1>4 DEF SInv, RunnableQueued, InQueue
  <2>2. i /= 1
    BY <1>1, <1>4, <2>1
  <2>3. i - 1 \in 1..Len(queue') /\ queue'[i - 1] = r
    BY <1>3, <2>1, <2>2
  <2> QED BY <2>3 DEF InQueue
<1>8. PidsUnique'
  BY <1>1, <1>4 DEF SInv, PidsUnique
<1>9. ForkOwned'
  BY <1>1, <1>4 DEF SInv, ForkOwned
<1> QED BY <1>5, <1>6, <1>7, <1>8, <1>9 DEF SInv

\* The scheduler forgets a head that cannot run.
LEMMA DropStep ==
    ASSUME SInv, TypeOK', SchedDrop
    PROVE  SInv'
<1> USE DEF procVars, tickVars, forkVars
<1>1. /\ spc = "loop" /\ spc' = spc /\ queue /= <<>> /\ state[queue[1]] /= "RUNNABLE"
      /\ queue' = pop(queue)
      /\ UNCHANGED <<state, pid, killed, cur, nextpid, child, pc>>
  BY QueueFacts DEF SchedDrop, SInv
<1>2. /\ Len(queue) \in Nat /\ Len(queue) >= 1
      /\ Len(queue') = Len(queue) - 1
      /\ \A i \in 1..Len(queue') : queue'[i] = queue[i + 1]
      /\ \A i \in 1..Len(queue) : queue[i] \in Slots
  BY <1>1, PopTail, QueueFacts DEF SInv
<1>3. CurSpc' /\ CurIsHead' /\ PidsUnique' /\ ForkOwned'
  BY <1>1 DEF SInv, CurSpc, CurIsHead, PidsUnique, ForkOwned
<1>4. QueueSound'
  <2>1. \A i \in 1..Len(queue') : i + 1 \in 1..Len(queue) /\ queue'[i] = queue[i + 1]
    BY <1>2
  <2>2. \A i, j \in 1..Len(queue') : queue'[i] = queue'[j] => i = j
    BY <1>2, <2>1 DEF SInv, QueueSound
  <2>3. \A i \in 1..Len(queue') : state[queue'[i]] \in {"RUNNABLE", "RUNNING"}
    BY <1>2, <2>1 DEF SInv, QueueSound
  <2> QED BY <1>1, <2>2, <2>3 DEF QueueSound
<1>5. RunnableQueued'
  <2> SUFFICES ASSUME NEW r \in Slots, state[r] = "RUNNABLE", ~killed[r]
               PROVE  InQueue(r)'
    BY <1>1 DEF RunnableQueued
  <2>1. PICK i \in 1..Len(queue) : queue[i] = r
    BY DEF SInv, RunnableQueued, InQueue
  <2>2. i - 1 \in 1..Len(queue') /\ queue'[i - 1] = r
    BY <1>1, <1>2, <2>1
  <2> QED BY <2>2 DEF InQueue
<1> QED BY <1>3, <1>4, <1>5 DEF SInv

\* The scheduler moves the head to the tail.
LEMMA ExpireStep ==
    ASSUME SInv, TypeOK', SchedExpire
    PROVE  SInv'
<1> USE DEF procVars, tickVars, forkVars
<1>1. /\ spc = "loop" /\ spc' = spc /\ queue /= <<>> /\ state[queue[1]] = "RUNNABLE"
      /\ queue' = Append(pop(queue), queue[1])
      /\ UNCHANGED <<state, pid, killed, cur, nextpid, child, pc>>
  BY QueueFacts DEF SchedExpire, SInv, push
<1>2. /\ Len(queue) \in Nat /\ Len(queue) >= 1 /\ pop(queue) \in Seq(Slots)
      /\ Len(pop(queue)) = Len(queue) - 1
      /\ \A i \in 1..Len(pop(queue)) : pop(queue)[i] = queue[i + 1]
      /\ \A i \in 1..Len(queue) : queue[i] \in Slots
  BY <1>1, PopTail, QueueFacts DEF SInv
<1>3. /\ Len(queue') = Len(queue)
      /\ \A i \in 1..(Len(queue) - 1) : queue'[i] = queue[i + 1]
      /\ queue'[Len(queue)] = queue[1]
  <2>1. queue[1] \in Slots
    BY <1>2
  <2> QED BY <1>1, <1>2, <2>1, AppendProperties
<1>4. CurSpc' /\ PidsUnique' /\ ForkOwned'
  BY <1>1 DEF SInv, CurSpc, PidsUnique, ForkOwned
<1>5. CurIsHead'
  BY <1>1 DEF SInv, CurSpc, CurIsHead
<1>6. QueueSound'
  <2>1. \A i \in 1..Len(queue') :
            queue'[i] = queue[IF i = Len(queue) THEN 1 ELSE i + 1]
    BY <1>2, <1>3
  <2>2. \A i, j \in 1..Len(queue') : queue'[i] = queue'[j] => i = j
    BY <1>2, <1>3, <2>1 DEF SInv, QueueSound
  <2>3. \A i \in 1..Len(queue') : state[queue'[i]] \in {"RUNNABLE", "RUNNING"}
    BY <1>1, <1>2, <1>3, <2>1 DEF SInv, QueueSound
  <2> QED BY <1>1, <2>2, <2>3 DEF QueueSound
<1>7. RunnableQueued'
  <2> SUFFICES ASSUME NEW r \in Slots, state[r] = "RUNNABLE", ~killed[r]
               PROVE  InQueue(r)'
    BY <1>1 DEF RunnableQueued
  <2>1. PICK i \in 1..Len(queue) : queue[i] = r
    BY DEF SInv, RunnableQueued, InQueue
  <2>2. CASE i = 1
    BY <1>2, <1>3, <2>1, <2>2 DEF InQueue
  <2>3. CASE i /= 1
    <3>1. i - 1 \in 1..Len(queue') /\ queue'[i - 1] = r
      BY <1>2, <1>3, <2>1, <2>3
    <3> QED BY <3>1 DEF InQueue
  <2> QED BY <2>2, <2>3
<1> QED BY <1>4, <1>5, <1>6, <1>7 DEF SInv

\* The scheduler gives the CPU to the head.
LEMMA RunStep ==
    ASSUME SInv, TypeOK', SchedRun
    PROVE  SInv'
<1> USE DEF forkVars
<1> DEFINE p == queue[1]
<1>1. /\ spc = "loop" /\ spc' = "run" /\ queue /= <<>> /\ state[p] = "RUNNABLE"
      /\ state' = [state EXCEPT ![p] = "RUNNING"]
      /\ cur' = p
      /\ UNCHANGED <<queue, pid, killed, nextpid, child>>
      /\ pc' = [pc EXCEPT ![p] = IF @ \in {"user", "sleep"} THEN Return(p) ELSE @]
  BY QueueFacts DEF SchedRun, SInv
<1>2. p \in Slots /\ cur = NoProc /\ \A i \in 1..Len(queue) : queue[i] \in Slots
  BY <1>1, QueueFacts DEF SInv, CurSpc
<1>3. \A r \in Slots : state'[r] = IF r = p THEN "RUNNING" ELSE state[r]
  BY <1>1, <1>2 DEF SInv, TypeOK
<1>4. \A r \in Slots : pc'[r] = "copy" => pc[r] = "copy"
  BY <1>1, <1>2 DEF SInv, TypeOK, Return
<1>5. CurSpc' /\ CurIsHead'
  BY <1>1, <1>2, <1>3, NPROCAssumption DEF SInv, CurSpc, CurIsHead, Slots, NoProc
<1>6. QueueSound'
  BY <1>1, <1>2, <1>3 DEF SInv, QueueSound
<1>7. RunnableQueued'
  BY <1>1, <1>2, <1>3 DEF SInv, RunnableQueued, InQueue
<1>8. PidsUnique'
  BY <1>1, <1>2, <1>3 DEF SInv, PidsUnique
<1>9. ForkOwned'
  BY <1>1, <1>2, <1>3, <1>4 DEF SInv, ForkOwned
<1> QED BY <1>5, <1>6, <1>7, <1>8, <1>9 DEF SInv

\* Q is the queue followed by the members of W.
Appended(Q, W) ==
    /\ Len(queue) \in Nat /\ Len(Q) \in Nat /\ Len(Q) >= Len(queue)
    /\ \A i \in 1..Len(queue) : Q[i] = queue[i]
    /\ \A i \in 1..Len(Q) : i > Len(queue) => Q[i] \in W
    /\ \A i, j \in 1..Len(Q) : Q[i] = Q[j] => i = j
    /\ \A p \in W : \E i \in 1..Len(Q) : Q[i] = p
    /\ queue /= <<>> => Q /= <<>> /\ Q[1] = queue[1]

\* wakeup1 appends sleepers, which are in no queue.
LEMMA WakeQueue ==
    ASSUME SInv, NEW W \in SUBSET Slots, \A p \in W : state[p] = "SLEEPING",
           NEW w, Lists(w, W), NEW Q, Q = queue \o w
    PROVE  Appended(Q, W)
<1>1. /\ w \in Seq(Slots)
      /\ \A i \in 1..Len(w) : w[i] \in W
      /\ \A p \in W : \E i \in 1..Len(w) : w[i] = p
      /\ \A i, j \in 1..Len(w) : w[i] = w[j] => i = j
  BY DEF Lists
<1>2. queue \in Seq(Slots) /\ Len(queue) \in Nat /\ Len(w) \in Nat /\ Q \in Seq(Slots)
  BY <1>1, LenProperties, ConcatProperties DEF SInv, TypeOK
<1>3. /\ Len(Q) = Len(queue) + Len(w)
      /\ \A i \in 1..(Len(queue) + Len(w)) :
            Q[i] = IF i <= Len(queue) THEN queue[i] ELSE w[i - Len(queue)]
  BY <1>1, <1>2, ConcatProperties
<1>4. \A i \in 1..Len(queue) : Q[i] = queue[i]
  BY <1>2, <1>3
<1>5. \A i \in 1..Len(Q) : i > Len(queue) => Q[i] = w[i - Len(queue)] /\ i - Len(queue) \in 1..Len(w)
  BY <1>2, <1>3
<1>6. \A i \in 1..Len(queue) : queue[i] \notin W
  BY DEF SInv, QueueSound
<1>7. \A i, j \in 1..Len(Q) : Q[i] = Q[j] => i = j
  <2> SUFFICES ASSUME NEW i \in 1..Len(Q), NEW j \in 1..Len(Q), Q[i] = Q[j]
               PROVE  i = j
    OBVIOUS
  <2>1. CASE i <= Len(queue) /\ j <= Len(queue)
    BY <1>2, <1>4, <2>1 DEF SInv, QueueSound
  <2>2. CASE i > Len(queue) /\ j > Len(queue)
    <3>1. i - Len(queue) = j - Len(queue)
      BY <1>1, <1>5, <2>2
    <3> QED BY <1>2, <1>3, <3>1
  <2>3. CASE i <= Len(queue) /\ j > Len(queue)
    BY <1>1, <1>2, <1>4, <1>5, <1>6, <2>3
  <2>4. CASE i > Len(queue) /\ j <= Len(queue)
    BY <1>1, <1>2, <1>4, <1>5, <1>6, <2>4
  <2> QED BY <1>2, <1>3, <2>1, <2>2, <2>3, <2>4
<1>8. ASSUME NEW p \in W PROVE \E i \in 1..Len(Q) : Q[i] = p
  <2>1. PICK k \in 1..Len(w) : w[k] = p
    BY <1>1
  <2>2. k + Len(queue) \in 1..Len(Q) /\ Q[k + Len(queue)] = w[k]
    BY <1>2, <1>3
  <2> QED BY <2>1, <2>2
<1>9. queue /= <<>> => Q /= <<>> /\ Q[1] = queue[1]
  <2>1. queue /= <<>> => Len(queue) >= 1
    BY <1>2, EmptySeq
  <2>2. Len(queue) >= 1 => Len(Q) >= 1 /\ Q[1] = queue[1]
    BY <1>2, <1>3, <1>4
  <2> QED BY <2>1, <2>2
<1>10. Len(Q) \in Nat /\ Len(Q) >= Len(queue)
  BY ONLY <1>2, <1>3
<1>11. \A i \in 1..Len(Q) : i > Len(queue) => Q[i] \in W
  <2> SUFFICES ASSUME NEW i \in 1..Len(Q), i > Len(queue) PROVE Q[i] \in W
    OBVIOUS
  <2>k. PICK k : k = i - Len(queue)
    OBVIOUS
  <2>1. Q[i] = w[k] /\ k \in 1..Len(w)
    BY ONLY <1>5, <2>k, i \in 1..Len(Q), i > Len(queue)
  <2> QED BY ONLY <1>1, <2>1, Zenon
<1>12. Len(queue) \in Nat
  BY ONLY <1>2
<1> QED BY ONLY <1>4, <1>7, <1>8, <1>9, <1>10, <1>11, <1>12, Zenon DEF Appended

\* Two lists of different processes, one after the other, list them all.
LEMMA ListsConcat ==
    ASSUME NEW W1, NEW W2, NEW w1, NEW w2, Lists(w1, W1), Lists(w2, W2), W1 \cap W2 = {}
    PROVE  Lists(w1 \o w2, W1 \cup W2)
<1> DEFINE w == w1 \o w2
<1>1. /\ w1 \in Seq(Slots) /\ w2 \in Seq(Slots) /\ w \in Seq(Slots)
      /\ Len(w1) \in Nat /\ Len(w2) \in Nat /\ Len(w) = Len(w1) + Len(w2)
      /\ \A i \in 1..(Len(w1) + Len(w2)) : w[i] = IF i <= Len(w1) THEN w1[i] ELSE w2[i - Len(w1)]
  BY ConcatProperties, LenProperties DEF Lists
<1> HIDE DEF w
<1>2. \A i \in 1..Len(w) :
        \/ i \in 1..Len(w1) /\ w[i] = w1[i]
        \/ i > Len(w1) /\ i - Len(w1) \in 1..Len(w2) /\ w[i] = w2[i - Len(w1)]
  BY <1>1
<1>3. \A i \in 1..Len(w) : w[i] \in W1 \cup W2
  BY <1>2 DEF Lists
<1>4. ASSUME NEW p \in W1 \cup W2 PROVE \E i \in 1..Len(w) : w[i] = p
  <2>1. CASE p \in W1
    <3>1. PICK k \in 1..Len(w1) : w1[k] = p
      BY <2>1 DEF Lists
    <3>2. k \in 1..Len(w) /\ w[k] = p
      BY <1>1, <3>1
    <3> QED BY <3>2
  <2>2. CASE p \in W2
    <3>1. PICK k \in 1..Len(w2) : w2[k] = p
      BY <2>2 DEF Lists
    <3>2. k + Len(w1) \in 1..Len(w) /\ ~(k + Len(w1) <= Len(w1)) /\ (k + Len(w1)) - Len(w1) = k
      BY <1>1, <3>1
    <3>3. w[k + Len(w1)] = p
      BY <1>1, <3>1, <3>2
    <3> QED BY <3>2, <3>3
  <2> QED BY <2>1, <2>2
<1>5. ASSUME NEW i \in 1..Len(w), NEW j \in 1..Len(w), w[i] = w[j] PROVE i = j
  <2>1. CASE i \in 1..Len(w1) /\ j \in 1..Len(w1)
    BY <1>1, <1>2, <1>5, <2>1, SMTT(60) DEF Lists
  <2>2. CASE i > Len(w1) /\ j > Len(w1)
    <3>1. /\ i - Len(w1) \in 1..Len(w2) /\ j - Len(w1) \in 1..Len(w2)
          /\ w2[i - Len(w1)] = w2[j - Len(w1)]
      BY <1>1, <1>5, <2>2
    <3>2. i - Len(w1) = j - Len(w1)
      BY <3>1 DEF Lists
    <3> QED BY <1>1, <3>2
  <2>3. CASE i \in 1..Len(w1) /\ j > Len(w1)
    <3>1. w[i] \in W1 /\ w[j] \in W2
      BY <1>1, <1>2, <2>3, SMTT(60) DEF Lists
    <3> QED BY <1>5, <3>1
  <2>4. CASE i > Len(w1) /\ j \in 1..Len(w1)
    <3>1. w[i] \in W2 /\ w[j] \in W1
      BY <1>1, <1>2, <2>4, SMTT(60) DEF Lists
    <3> QED BY <1>5, <3>1
  <2> QED BY <1>1, <2>1, <2>2, <2>3, <2>4
<1> QED BY <1>1, <1>3, <1>4, <1>5 DEF Lists, w

\* Sleepers are woken, and the running process goes on, yields or exits.
LEMMA WakeStep ==
    ASSUME SInv, TypeOK',
           NEW W \in SUBSET Slots, \A p \in W : state[p] = "SLEEPING",
           NEW w, Lists(w, W), queue' = queue \o w,
           UNCHANGED <<pid, killed, nextpid, child>>,
           \A p \in Slots : pc'[p] = "copy" => pc[p] = "copy",
           \/ /\ state' = Woken(state, W)
              /\ UNCHANGED <<cur, spc>>
           \/ /\ spc = "run" /\ spc' = "loop" /\ cur' = NoProc
              /\ state' = [Woken(state, W) EXCEPT ![cur] = "RUNNABLE"]
           \/ /\ spc = "run" /\ spc' = "loop" /\ cur' = NoProc /\ pc[cur] /= "copy"
              /\ state' = [Woken(state, W) EXCEPT ![cur] = "ZOMBIE"]
    PROVE  SInv'
<1>1. /\ Len(queue) \in Nat /\ Len(queue') \in Nat /\ Len(queue') >= Len(queue)
      /\ \A i \in 1..Len(queue) : queue'[i] = queue[i]
      /\ \A i \in 1..Len(queue') : i > Len(queue) => queue'[i] \in W
      /\ \A i, j \in 1..Len(queue') : queue'[i] = queue'[j] => i = j
      /\ \A p \in W : \E i \in 1..Len(queue') : queue'[i] = p
      /\ queue /= <<>> => queue' /= <<>> /\ queue'[1] = queue[1]
  <2> DEFINE Q == queue \o w
  <2>1. Appended(Q, W)
    BY WakeQueue
  <2> QED BY <2>1 DEF Appended
<1>2. \A p \in Slots : /\ p \in W => p /= cur /\ state[p] = "SLEEPING"
                       /\ Woken(state, W)[p] = IF p \in W THEN "RUNNABLE" ELSE state[p]
  BY DEF SInv, CurIsHead, Woken
<1>3. spc = "run" => cur \in Slots /\ state[cur] = "RUNNING" /\ queue /= <<>> /\ queue[1] = cur
  BY DEF SInv, TypeOK, CurSpc, CurIsHead
<1>4. \A i \in 1..Len(queue) : queue[i] \in Slots
  BY QueueFacts DEF SInv
<1>5. \A i \in 1..Len(queue') : i \in 1..Len(queue) \/ i > Len(queue)
  BY <1>1
<1>6. CASE state' = Woken(state, W) /\ UNCHANGED <<cur, spc>>
  <2>1. \A p \in Slots : state'[p] = IF p \in W THEN "RUNNABLE" ELSE state[p]
    BY <1>2, <1>6
  <2>2. CurSpc' /\ CurIsHead'
    BY <1>1, <1>2, <1>6, <2>1 DEF SInv, CurSpc, CurIsHead
  <2>3. QueueSound'
    BY <1>1, <1>4, <1>5, <1>6, <2>1 DEF SInv, QueueSound
  <2>4. RunnableQueued'
    BY <1>1, <2>1 DEF SInv, RunnableQueued, InQueue
  <2>5. PidsUnique'
    BY <1>2, <2>1 DEF SInv, PidsUnique
  <2>6. ForkOwned'
    BY <1>2, <2>1 DEF SInv, ForkOwned
  <2> QED BY <2>2, <2>3, <2>4, <2>5, <2>6 DEF SInv
<1>7. CASE /\ spc = "run" /\ spc' = "loop" /\ cur' = NoProc
           /\ state' = [Woken(state, W) EXCEPT ![cur] = "RUNNABLE"]
  <2>1. \A p \in Slots : state'[p] = IF p \in W \/ p = cur THEN "RUNNABLE" ELSE state[p]
    BY <1>2, <1>3, <1>7 DEF Woken
  <2>2. CurSpc' /\ CurIsHead'
    BY <1>1, <1>2, <1>3, <1>7, <2>1, NPROCAssumption DEF SInv, CurSpc, CurIsHead, NoProc, Slots
  <2>3. QueueSound'
    BY <1>1, <1>3, <1>4, <1>5, <1>7, <2>1, SMTT(60) DEF SInv, QueueSound
  <2>4. RunnableQueued'
    <3> SUFFICES ASSUME NEW r \in Slots, state'[r] = "RUNNABLE", ~killed[r]
                 PROVE  InQueue(r)'
      BY DEF RunnableQueued
    <3>1. CASE r = cur
      BY <1>1, <1>3, <1>7, <3>1, QueueFacts DEF InQueue, SInv
    <3>2. CASE r \in W
      BY <1>1, <3>2 DEF InQueue
    <3>3. CASE r /= cur /\ r \notin W
      BY <1>1, <2>1, <3>3 DEF SInv, RunnableQueued, InQueue
    <3> QED BY <3>1, <3>2, <3>3
  <2>5. PidsUnique'
    BY <1>2, <1>3, <1>7, <2>1 DEF SInv, PidsUnique
  <2>6. ForkOwned'
    BY <1>2, <1>3, <1>7, <2>1 DEF SInv, ForkOwned
  <2> QED BY <2>2, <2>3, <2>4, <2>5, <2>6 DEF SInv
<1>8. CASE /\ spc = "run" /\ spc' = "loop" /\ cur' = NoProc /\ pc[cur] /= "copy"
           /\ state' = [Woken(state, W) EXCEPT ![cur] = "ZOMBIE"]
  <2>1. \A p \in Slots : state'[p] = IF p = cur THEN "ZOMBIE"
                                     ELSE IF p \in W THEN "RUNNABLE" ELSE state[p]
    BY <1>2, <1>3, <1>8 DEF Woken
  <2>2. CurSpc' /\ CurIsHead'
    BY <1>1, <1>2, <1>3, <1>8, <2>1, NPROCAssumption DEF SInv, CurSpc, CurIsHead, NoProc, Slots
  <2>3. QueueSound'
    <3> SUFFICES ASSUME NEW i \in 1..Len(queue')
                 PROVE  \/ state'[queue'[i]] \in {"RUNNABLE", "RUNNING"}
                        \/ state'[queue'[i]] = "ZOMBIE" /\ i = 1
      BY <1>1, <1>8 DEF QueueSound
    <3>1. CASE i > Len(queue)
      BY <1>1, <1>2, <2>1, <3>1
    <3>2. CASE i \in 1..Len(queue) /\ i = 1
      BY <1>1, <1>3, <1>8, <2>1, <3>2
    <3>3. CASE i \in 1..Len(queue) /\ i /= 1
      <4>1. queue'[i] = queue[i] /\ queue[i] \in Slots /\ queue[i] /= cur
        BY <1>1, <1>3, <1>4, <1>8, <3>3 DEF SInv, QueueSound
      <4> QED BY <1>8, <2>1, <3>3, <4>1 DEF SInv, QueueSound
    <3> QED BY <1>5, <3>1, <3>2, <3>3
  <2>4. RunnableQueued'
    BY <1>1, <2>1 DEF SInv, RunnableQueued, InQueue
  <2>5. PidsUnique'
    BY <1>2, <1>3, <1>8, <2>1 DEF SInv, PidsUnique
  <2>6. ForkOwned'
    BY <1>2, <1>3, <1>8, <2>1 DEF SInv, ForkOwned
  <2> QED BY <2>2, <2>3, <2>4, <2>5, <2>6 DEF SInv
<1> QED BY <1>6, <1>7, <1>8

\* allocproc() takes a free slot and a fresh pid.
LEMMA AllocStep ==
    ASSUME SInv, TypeOK', NEW p \in Slots, NEW s \in Slices, ForkAlloc(p, s)
    PROVE  SInv'
<1>1. PICK np \in Slots :
        /\ state[np] = "UNUSED"
        /\ state' = [state EXCEPT ![np] = "EMBRYO"]
        /\ pid' = [pid EXCEPT ![np] = nextpid]
        /\ child' = [child EXCEPT ![p] = np]
  BY DEF ForkAlloc
<1>2. /\ Running(p) /\ pc[p] = "sys"
      /\ nextpid' = nextpid + 1
      /\ pc' = [pc EXCEPT ![p] = "copy"]
      /\ UNCHANGED <<killed, queue, cur, spc>>
  BY DEF ForkAlloc
<1>3. state[p] = "RUNNING" /\ cur = p
  BY <1>2, RunningFacts
<1>4. /\ \A r \in Slots : state'[r] = IF r = np THEN "EMBRYO" ELSE state[r]
      /\ \A r \in Slots : pid'[r] = IF r = np THEN nextpid ELSE pid[r]
      /\ \A r \in Slots : child'[r] = IF r = p THEN np ELSE child[r]
      /\ \A r \in Slots : pc'[r] = IF r = p THEN "copy" ELSE pc[r]
  BY <1>1, <1>2 DEF SInv, TypeOK
<1>5. CurSpc' /\ CurIsHead'
  BY <1>1, <1>2, <1>3, <1>4 DEF SInv, CurSpc, CurIsHead
<1>6. QueueSound'
  <2>1. \A i \in 1..Len(queue) : queue[i] \in Slots /\ queue[i] /= np
    BY <1>1, QueueFacts DEF SInv, QueueSound
  <2> QED BY <1>2, <1>4, <2>1 DEF SInv, QueueSound
<1>7. RunnableQueued'
  BY <1>2, <1>4 DEF SInv, RunnableQueued, InQueue
<1>8. PidsUnique'
  <2>1. /\ nextpid \in Nat /\ nextpid > 0
        /\ \A r \in Slots : pid[r] \in Nat /\ pid[r] < nextpid
    BY <1>1, SMTT(60) DEF SInv, TypeOK, PidsUnique
  <2> QED BY <1>2, <1>4, <2>1 DEF SInv, PidsUnique
<1>9. ForkOwned'
  BY <1>1, <1>2, <1>3, <1>4 DEF SInv, ForkOwned
<1> QED BY <1>5, <1>6, <1>7, <1>8, <1>9 DEF SInv

\* fork2 gives up: its EMBRYO is free again, pid and all.
LEMMA FailStep ==
    ASSUME SInv, TypeOK', NEW p \in Slots, ForkFail(p)
    PROVE  SInv'
<1> DEFINE np == child[p]
<1>1. /\ Running(p) /\ pc[p] = "copy"
      /\ state' = [state EXCEPT ![np] = "UNUSED"]
      /\ pc' = [pc EXCEPT ![p] = Return(p)]
      /\ child' = [child EXCEPT ![p] = NoProc]
      /\ UNCHANGED <<pid, killed, queue, cur, spc, nextpid>>
  BY DEF ForkFail, ForkDone
<1>2. np \in Slots /\ state[np] = "EMBRYO"
  BY <1>1 DEF SInv, ForkOwned
<1>3. /\ \A r \in Slots : state'[r] = IF r = np THEN "UNUSED" ELSE state[r]
      /\ \A r \in Slots : pc'[r] = IF r = p THEN Return(p) ELSE pc[r]
      /\ \A r \in Slots : child'[r] = IF r = p THEN NoProc ELSE child[r]
  BY <1>1, <1>2 DEF SInv, TypeOK
<1>4. Return(p) /= "copy"
  BY DEF Return
<1>5. CurSpc' /\ CurIsHead'
  BY <1>1, <1>2, <1>3 DEF SInv, CurSpc, CurIsHead
<1>6. QueueSound'
  <2>1. \A i \in 1..Len(queue) : queue[i] \in Slots /\ queue[i] /= np
    BY <1>2, QueueFacts DEF SInv, QueueSound
  <2> QED BY <1>1, <1>3, <2>1 DEF SInv, QueueSound
<1>7. RunnableQueued'
  BY <1>1, <1>3 DEF SInv, RunnableQueued, InQueue
<1>8. PidsUnique'
  BY <1>1, <1>3 DEF SInv, PidsUnique
<1>9. ForkOwned'
  <2> SUFFICES ASSUME NEW r \in Slots, pc'[r] = "copy"
               PROVE  /\ state'[r] \in {"RUNNABLE", "RUNNING"}
                      /\ child'[r] \in Slots
                      /\ state'[child'[r]] = "EMBRYO"
                      /\ \A t \in Slots : pc'[t] = "copy" /\ child'[t] = child'[r] => t = r
    BY DEF ForkOwned
  <2>1. r /= p /\ pc[r] = "copy" /\ child'[r] = child[r]
    BY <1>3, <1>4
  <2>2. child[r] /= np /\ child[r] \in Slots /\ state[child[r]] = "EMBRYO" /\ r /= np
    BY <1>1, <1>2, <2>1 DEF SInv, ForkOwned
  <2> QED BY <1>3, <1>4, <2>1, <2>2 DEF SInv, ForkOwned
<1> QED BY <1>5, <1>6, <1>7, <1>8, <1>9 DEF SInv

\* fork2 publishes its child, which nobody has put in the queue before.
LEMMA PublishStep ==
    ASSUME SInv, TypeOK', NEW p \in Slots, ForkPublish(p)
    PROVE  SInv'
<1> DEFINE np == child[p]
<1>1. /\ Running(p) /\ pc[p] = "copy"
      /\ state' = [state EXCEPT ![np] = "RUNNABLE"]
      /\ pc' = [pc EXCEPT ![p] = Return(p), ![np] = "forkret"]
      /\ child' = [child EXCEPT ![p] = NoProc]
      /\ queue' = Append(queue, np)
      /\ UNCHANGED <<pid, killed, cur, spc, nextpid>>
  BY DEF ForkPublish, ForkDone, push
<1>2. np \in Slots /\ state[np] = "EMBRYO" /\ np /= p
  BY <1>1 DEF SInv, ForkOwned
<1>3. /\ \A r \in Slots : state'[r] = IF r = np THEN "RUNNABLE" ELSE state[r]
      /\ \A r \in Slots : pc'[r] = IF r = np THEN "forkret" ELSE IF r = p THEN Return(p) ELSE pc[r]
      /\ \A r \in Slots : child'[r] = IF r = p THEN NoProc ELSE child[r]
  BY <1>1, <1>2, ZenonT(120) DEF SInv, TypeOK
<1>4. Return(p) /= "copy"
  BY DEF Return
<1>5. /\ Len(queue) \in Nat /\ Len(queue') = Len(queue) + 1
      /\ \A i \in 1..Len(queue) : queue'[i] = queue[i] /\ queue[i] \in Slots /\ queue[i] /= np
      /\ queue'[Len(queue) + 1] = np
      /\ queue /= <<>> /\ queue[1] = p /\ Len(queue) >= 1 /\ queue' /= <<>>
  <2>1. /\ Len(queue) \in Nat
        /\ \A i \in 1..Len(queue) : queue[i] \in Slots /\ queue[i] /= np
        /\ queue /= <<>> /\ queue[1] = p /\ Len(queue) >= 1
    BY <1>1, <1>2, QueueFacts, RunningFacts DEF SInv, QueueSound
  <2>2. queue \in Seq(Slots)
    BY DEF SInv, TypeOK
  <2> QED BY <1>1, <1>2, <2>1, <2>2, AppendProperties
<1>6. CurSpc' /\ CurIsHead'
  BY <1>1, <1>2, <1>3, <1>5 DEF SInv, CurSpc, CurIsHead
<1>7. QueueSound'
  <2>1. \A i \in 1..Len(queue') : i \in 1..Len(queue) \/ i = Len(queue) + 1
    BY <1>5
  <2>2. \A i, j \in 1..Len(queue') : queue'[i] = queue'[j] => i = j
    BY <1>5, <2>1 DEF SInv, QueueSound
  <2>3. \A i \in 1..Len(queue) : \/ state[queue[i]] \in {"RUNNABLE", "RUNNING"}
                                 \/ state[queue[i]] = "ZOMBIE" /\ i = 1 /\ spc = "loop"
    BY DEF SInv, QueueSound
  <2>4. \A i \in 1..Len(queue') : \/ state'[queue'[i]] \in {"RUNNABLE", "RUNNING"}
                                  \/ state'[queue'[i]] = "ZOMBIE" /\ i = 1 /\ spc' = "loop"
    BY <1>1, <1>2, <1>3, <1>5, <2>1, <2>3
  <2> QED BY <2>2, <2>4 DEF QueueSound
<1>8. RunnableQueued'
  <2> SUFFICES ASSUME NEW r \in Slots, state'[r] = "RUNNABLE", ~killed[r]
               PROVE  InQueue(r)'
    BY <1>1 DEF RunnableQueued
  <2>1. CASE r = np
    BY <1>5, <2>1 DEF InQueue
  <2>2. CASE r /= np
    <3>1. PICK i \in 1..Len(queue) : queue[i] = r
      BY <1>3, <2>2 DEF SInv, RunnableQueued, InQueue
    <3>2. i \in 1..Len(queue') /\ queue'[i] = r
      BY <1>5, <3>1
    <3> QED BY <3>2 DEF InQueue
  <2> QED BY <2>1, <2>2
<1>9. PidsUnique'
  BY <1>1, <1>2, <1>3 DEF SInv, PidsUnique
<1>10. ForkOwned'
  <2> SUFFICES ASSUME NEW r \in Slots, pc'[r] = "copy"
               PROVE  /\ state'[r] \in {"RUNNABLE", "RUNNING"}
                      /\ child'[r] \in Slots
                      /\ state'[child'[r]] = "EMBRYO"
                      /\ \A t \in Slots : pc'[t] = "copy" /\ child'[t] = child'[r] => t = r
    BY DEF ForkOwned
  <2>1. r /= p /\ r /= np /\ pc[r] = "copy" /\ child'[r] = child[r]
    BY <1>3, <1>4
  <2>2. child[r] /= np /\ child[r] \in Slots /\ state[child[r]] = "EMBRYO"
    BY <1>1, <1>2, <2>1 DEF SInv, ForkOwned
  <2> QED BY <1>3, <1>4, <2>1, <2>2 DEF SInv, ForkOwned
<1> QED BY <1>6, <1>7, <1>8, <1>9, <1>10 DEF SInv

\* wait() frees a zombie: it is in no queue, because the parent is running.
LEMMA ReapStep ==
    ASSUME SInv, TypeOK', NEW p \in Slots, WaitReap(p)
    PROVE  SInv'
<1> USE DEF forkVars
<1>1. PICK q \in Slots :
        /\ state[q] = "ZOMBIE"
        /\ pid' = [pid EXCEPT ![q] = 0]
        /\ killed' = [killed EXCEPT ![q] = FALSE]
        /\ state' = [state EXCEPT ![q] = "UNUSED"]
  BY DEF WaitReap, Zombies, Children
<1>2. /\ Running(p) /\ pc[p] /= "copy"
      /\ pc' = [pc EXCEPT ![p] = Return(p)]
      /\ UNCHANGED <<child, nextpid, queue, cur, spc>>
  BY DEF WaitReap, InWait
<1>3. /\ \A r \in Slots : state'[r] = IF r = q THEN "UNUSED" ELSE state[r]
      /\ \A r \in Slots : pid'[r] = IF r = q THEN 0 ELSE pid[r]
      /\ \A r \in Slots : killed'[r] = IF r = q THEN FALSE ELSE killed[r]
      /\ \A r \in Slots : pc'[r] = "copy" => pc[r] = "copy"
  BY <1>1, <1>2 DEF SInv, TypeOK, Return
<1>4. CurSpc' /\ CurIsHead'
  BY <1>1, <1>2, <1>3 DEF SInv, CurSpc, CurIsHead
<1>5. QueueSound'
  <2>1. \A i \in 1..Len(queue) : queue[i] \in Slots /\ queue[i] /= q
    BY <1>1, <1>2, QueueFacts, RunningFacts DEF SInv, QueueSound
  <2> QED BY <1>2, <1>3, <2>1 DEF SInv, QueueSound
<1>6. RunnableQueued'
  BY <1>2, <1>3 DEF SInv, RunnableQueued, InQueue
<1>7. PidsUnique'
  <2>1. nextpid \in Nat /\ pid[q] \in Nat /\ pid[q] < nextpid
    BY DEF SInv, TypeOK, PidsUnique
  <2> QED BY <1>2, <1>3, <2>1 DEF SInv, PidsUnique
<1>8. ForkOwned'
  BY <1>1, <1>2, <1>3 DEF SInv, ForkOwned
<1> QED BY <1>4, <1>5, <1>6, <1>7, <1>8 DEF SInv

\* kill() makes a sleeper RUNNABLE without queueing it, but marks it killed.
LEMMA KillStep ==
    ASSUME SInv, TypeOK', NEW p \in Slots, NEW k, Kill(p, k)
    PROVE  SInv'
<1> USE DEF forkVars
<1>1. PICK q \in Slots :
        /\ killed' = [killed EXCEPT ![q] = TRUE]
        /\ state' = [state EXCEPT ![q] = IF @ = "SLEEPING" THEN "RUNNABLE" ELSE @]
        /\ pc' = [pc EXCEPT ![p] = IF q = p THEN "exiting" ELSE Return(p)]
  BY DEF Kill, FindPid
<1>2. UNCHANGED <<pid, child, nextpid, queue, cur, spc>>
  BY DEF Kill
<1>3. /\ \A r \in Slots : \/ state'[r] = state[r]
                          \/ r = q /\ state[r] = "SLEEPING" /\ state'[r] = "RUNNABLE"
      /\ \A r \in Slots : killed'[r] = IF r = q THEN TRUE ELSE killed[r]
      /\ \A r \in Slots : pc'[r] = "copy" => pc[r] = "copy"
  BY <1>1, <1>2 DEF SInv, TypeOK, Return
<1>4. CurSpc' /\ CurIsHead'
  BY <1>2, <1>3 DEF SInv, CurSpc, CurIsHead
<1>5. QueueSound'
  BY <1>2, <1>3, QueueFacts DEF SInv, QueueSound
<1>6. RunnableQueued'
  BY <1>2, <1>3 DEF SInv, RunnableQueued, InQueue
<1>7. PidsUnique'
  BY <1>2, <1>3 DEF SInv, PidsUnique
<1>8. ForkOwned'
  BY <1>2, <1>3 DEF SInv, ForkOwned
<1> QED BY <1>4, <1>5, <1>6, <1>7, <1>8 DEF SInv

\* The inductive invariant holds when userinit() is done.
LEMMA InitSInv == Init => SInv
<1> SUFFICES ASSUME Init PROVE SInv
  OBVIOUS
<1>1. TypeOK
  BY InitType
<1>2. Len(queue) = 1 /\ queue[1] = InitProc /\ queue /= <<>> /\ InitProc \in Slots /\ NoProc \notin Slots
  BY NPROCAssumption DEF Init, InitProc, Slots, NoProc
<1>3. CurSpc /\ CurIsHead
  BY <1>2 DEF Init, CurSpc, CurIsHead
<1>4. QueueSound /\ RunnableQueued
  BY <1>2 DEF Init, QueueSound, RunnableQueued, InQueue
<1>5. PidsUnique /\ ForkOwned
  BY <1>2 DEF Init, PidsUnique, ForkOwned
<1> QED BY <1>1, <1>3, <1>4, <1>5 DEF SInv

\* The scheduler preserves it: drop, expire, run.
LEMMA SchedulerSInv ==
    ASSUME SInv, Scheduler
    PROVE  SInv'
<1> USE DEF procVars, tickVars, forkVars
<1>0. TypeOK'
  BY SchedulerType DEF SInv
<1>1. CASE SchedEnter
  BY <1>0, <1>1, QuietStep DEF SchedEnter
<1>2. CASE SchedDrained
  BY <1>0, <1>2, QuietStep DEF SchedDrained
<1> QED BY <1>0, <1>1, <1>2, DropStep, ExpireStep, RunStep DEF Scheduler

\* The timer and the devices preserve it: only sleepers join the queue.
LEMMA InterruptSInv ==
    ASSUME SInv, Tick \/ \E e \in Events : DeviceInterrupt(e)
    PROVE  SInv'
<1> USE DEF procVars, tickVars, forkVars
<1>1. CASE Tick
  <2>0. TypeOK'
    BY <1>1, TickType DEF SInv
  <2>1. Due \in SUBSET Slots /\ \A p \in Due : state[p] = "SLEEPING"
    BY DEF Due, Sleepers
  <2>2. PICK w \in TableOrder(Due) : queue' = queue \o w
    BY <1>1 DEF Tick
  <2>3. Lists(w, Due)
    BY <2>1, <2>2, TableOrderFacts
  <2>4. \A p \in Slots : pc'[p] = "copy" => pc[p] = "copy"
    BY <1>1 DEF Tick, SInv, TypeOK
  <2>5. UNCHANGED <<pid, killed, nextpid, child>>
    BY <1>1 DEF Tick
  <2>6. \/ state' = Woken(state, Due) /\ UNCHANGED <<cur, spc>>
        \/ /\ spc = "run" /\ spc' = "loop" /\ cur' = NoProc
           /\ state' = [Woken(state, Due) EXCEPT ![cur] = "RUNNABLE"]
    BY <1>1 DEF Tick
  <2> HIDE DEF procVars, tickVars, forkVars
  <2> QED BY <2>0, <2>1, <2>2, <2>3, <2>4, <2>5, <2>6, WakeStep
<1>2. ASSUME NEW e \in Events, DeviceInterrupt(e) PROVE SInv'
  <2>0. TypeOK'
    BY <1>2, DeviceType DEF SInv
  <2>1. Sleepers(e) \in SUBSET Slots /\ \A p \in Sleepers(e) : state[p] = "SLEEPING"
    BY DEF Sleepers
  <2>2. PICK w \in TableOrder(Sleepers(e)) : queue' = queue \o w
    BY <1>2 DEF DeviceInterrupt, wakeup
  <2>3. Lists(w, Sleepers(e))
    BY <2>1, <2>2, TableOrderFacts
  <2>4. \A p \in Slots : pc'[p] = "copy" => pc[p] = "copy"
    BY <1>2 DEF DeviceInterrupt
  <2>5. UNCHANGED <<pid, killed, nextpid, child>>
    BY <1>2 DEF DeviceInterrupt, wakeup
  <2>6. state' = Woken(state, Sleepers(e)) /\ UNCHANGED <<cur, spc>>
    BY <1>2 DEF DeviceInterrupt, wakeup
  <2> QED BY <2>0, <2>1, <2>2, <2>3, <2>4, <2>5, <2>6, WakeStep
<1> QED BY <1>1, <1>2

\* exit() preserves it: the parent and init may be woken, and the zombie stays
\* at the head for the scheduler to drop.
LEMMA ExitStep ==
    ASSUME SInv, TypeOK', NEW p \in Slots, Exit(p)
    PROVE  SInv'
<1> DEFINE W1 == Sleepers("wait") \cap {parent[p]}
           W2 == IF Zombies(p) = {} THEN {} ELSE (Sleepers("wait") \cap {InitProc}) \ W1
           W == W1 \cup W2
<1>1. /\ W1 \in SUBSET Slots /\ W2 \in SUBSET Slots /\ W \in SUBSET Slots /\ W1 \cap W2 = {}
      /\ \A r \in W : state[r] = "SLEEPING"
  BY DEF Sleepers
<1>2. PICK w1 \in TableOrder(W1), w2 \in TableOrder(W2) : queue' = (queue \o w1) \o w2
  BY DEF Exit
<1>3. Lists(w1, W1) /\ Lists(w2, W2)
  BY <1>1, <1>2, TableOrderFacts
<1>4. Lists(w1 \o w2, W)
  BY <1>1, <1>3, ListsConcat
<1>5. queue' = queue \o (w1 \o w2)
  <2>1. w1 \in Seq(Slots) /\ w2 \in Seq(Slots) /\ queue \in Seq(Slots)
    BY <1>3 DEF Lists, SInv, TypeOK
  <2> QED BY <1>2, <2>1, ConcatAssociative
<1>6. /\ UNCHANGED <<pid, killed, nextpid, child, pc>>
      /\ cur = p /\ spc = "run" /\ spc' = "loop" /\ cur' = NoProc /\ pc[cur] = "exiting"
      /\ state' = [Woken(state, W) EXCEPT ![cur] = "ZOMBIE"]
  BY DEF Exit, Running, forkVars
<1> DEFINE w == w1 \o w2
<1> HIDE DEF w, W
<1>7. Lists(w, W) /\ queue' = queue \o w
  BY <1>4, <1>5 DEF w
<1>8. pc[cur] /= "copy" /\ \A r \in Slots : pc'[r] = "copy" => pc[r] = "copy"
  BY <1>6
<1> QED BY <1>1, <1>6, <1>7, <1>8, WakeStep

\* The running process preserves it, whatever it does.
LEMMA ProcessSInv ==
    ASSUME SInv, NEW p \in Slots, KernelStep(p) \/ Syscall(p)
    PROVE  SInv'
<1> USE DEF procVars, tickVars, forkVars
<1>a. TypeOK /\ ForkChild /\ pc \in [Slots -> PCs] /\ killed \in [Slots -> BOOLEAN] /\ Return(p) /= "copy"
  BY DEF SInv, ForkOwned, ForkChild, TypeOK, Return
<1>0. TypeOK'
  BY <1>a, KernelType, SyscallType
<1>1. CASE ForkRet(p)
  BY <1>0, <1>1, <1>a, QuietStep DEF ForkRet
<1>2. CASE InitExits(p)
  BY <1>0, <1>2, QuietStep DEF InitExits, Running
<1>3. CASE SysEnter(p)
  BY <1>0, <1>3, <1>a, QuietStep DEF SysEnter
<1>4. CASE UserFault(p)
  BY <1>0, <1>4, <1>a, QuietStep DEF UserFault
<1>5. CASE SysReturn(p)
  BY <1>0, <1>5, <1>a, QuietStep DEF SysReturn
<1>6. CASE ExitCall(p)
  BY <1>0, <1>6, <1>a, QuietStep DEF ExitCall
<1>7. CASE SleepDone(p)
  BY <1>0, <1>7, <1>a, QuietStep DEF SleepDone
<1>8. CASE WaitNone(p)
  BY <1>0, <1>8, <1>a, QuietStep DEF WaitNone
<1>9. CASE WaitSleep(p)
  <2>1. /\ Running(p) /\ Sleep(p, "wait") /\ pc[p] /= "copy"
        /\ UNCHANGED <<pid, killed, nextpid, child>>
        /\ \A r \in Slots : pc'[r] = "copy" => pc[r] = "copy"
    BY <1>9, <1>a DEF WaitSleep, InWait
  <2> QED BY <1>0, <2>1, SleepStep
<1>10. ASSUME NEW n \in SleepLens, SysSleep(p, n) PROVE SInv'
  <2>1. CASE killed[p]
    BY <1>0, <1>10, <1>a, <2>1, QuietStep DEF SysSleep
  <2>2. CASE ~killed[p]
    <3>1. /\ Running(p) /\ Sleep(p, "ticks") /\ pc[p] /= "copy"
          /\ UNCHANGED <<pid, killed, nextpid, child>>
          /\ \A r \in Slots : pc'[r] = "copy" => pc[r] = "copy"
      BY <1>10, <1>a, <2>2 DEF SysSleep
    <3> QED BY <1>0, <3>1, SleepStep
  <2> QED BY <2>1, <2>2
<1>11. ASSUME NEW e \in Events, SleepOn(p, e) PROVE SInv'
  <2>1. /\ Running(p) /\ Sleep(p, e) /\ pc[p] /= "copy"
        /\ UNCHANGED <<pid, killed, nextpid, child>>
        /\ \A r \in Slots : pc'[r] = "copy" => pc[r] = "copy"
    BY <1>11, <1>a DEF SleepOn
  <2> QED BY <1>0, <2>1, SleepStep
<1>12. ASSUME NEW k \in SlicePids, getslice(p, k) PROVE SInv'
  BY <1>0, <1>12, QuietStep DEF getslice, Running
<1>13. ASSUME NEW k \in SlicePids, NEW s \in Slices, setslice(p, k, s) PROVE SInv'
  BY <1>0, <1>13, <1>a, QuietStep DEF setslice
<1>14. ASSUME NEW e \in Events, SysWakeup(p, e) PROVE SInv'
  <2>1. Sleepers(e) \in SUBSET Slots /\ \A r \in Sleepers(e) : state[r] = "SLEEPING"
    BY DEF Sleepers
  <2>2. PICK w \in TableOrder(Sleepers(e)) : queue' = queue \o w
    BY <1>14 DEF SysWakeup, wakeup
  <2>3. Lists(w, Sleepers(e))
    BY <2>1, <2>2, TableOrderFacts
  <2>4. \A r \in Slots : pc'[r] = "copy" => pc[r] = "copy"
    BY <1>14, <1>a DEF SysWakeup
  <2>5. UNCHANGED <<pid, killed, nextpid, child>>
    BY <1>14 DEF SysWakeup, wakeup
  <2>6. state' = Woken(state, Sleepers(e)) /\ UNCHANGED <<cur, spc>>
    BY <1>14 DEF SysWakeup, wakeup
  <2> QED BY <1>0, <2>1, <2>2, <2>3, <2>4, <2>5, <2>6, WakeStep
<1>15. CASE ForkFail(p) \/ ForkPublish(p) \/ Exit(p) \/ WaitReap(p)
  BY <1>0, <1>15, FailStep, PublishStep, ExitStep, ReapStep
<1>16. ASSUME NEW s \in Slices, ForkAlloc(p, s) PROVE SInv'
  BY <1>0, <1>16, AllocStep
<1>17. ASSUME NEW k \in KillPids, Kill(p, k) PROVE SInv'
  BY <1>0, <1>17, KillStep
<1> HIDE DEF procVars, tickVars, forkVars
<1> QED
  BY <1>1, <1>2, <1>3, <1>4, <1>5, <1>6, <1>7, <1>8, <1>9, <1>10, <1>11, <1>12, <1>13,
     <1>14, <1>15, <1>16, <1>17
  DEF KernelStep, Syscall

\* Every step preserves it.
LEMMA NextSInv == SInv /\ [Next]_vars => SInv'
<1> SUFFICES ASSUME SInv, [Next]_vars PROVE SInv'
  OBVIOUS
<1>1. CASE UNCHANGED vars
  <2>1. TypeOK'
    BY <1>1 DEF SInv, TypeOK, vars, procVars, tickVars, forkVars
  <2> QED BY <1>1, <2>1, QuietStep DEF vars, procVars, tickVars, forkVars
<1>2. CASE Next
  BY <1>1, <1>2, SchedulerSInv, InterruptSInv, ProcessSInv DEF Next, Halted
<1> QED BY <1>1, <1>2

\* The type invariant, for every instance.
THEOREM TypeCorrect == Spec => []TypeOK
<1>1. SInv => TypeOK
  BY DEF SInv
<1> QED BY <1>1, InitSInv, NextSInv, PTL DEF Spec

\* The run queue holds what it must: the running process is its head, nothing
\* is in it twice, nothing that cannot run lingers in it, and no ready
\* process that was not killed is missing from it.
THEOREM QueueCorrect == Spec => []QueueOK
<1>1. SInv => QueueOK
  BY DEF SInv, QueueOK
<1> QED BY <1>1, InitSInv, NextSInv, PTL DEF Spec

\* No two slots of the process table ever carry the same pid.
THEOREM PidsCorrect == Spec => []PidsUnique
<1>1. SInv => PidsUnique
  BY DEF SInv
<1> QED BY <1>1, InitSInv, NextSInv, PTL DEF Spec

-----------------------------------------------------------------------------
(* Parents and children. *)

Alive == {"SLEEPING", "RUNNABLE", "RUNNING"}

\* init, to which orphans go, never goes away.
InitLive == state[InitProc] \in Alive

\* init has no parent, and nobody is its own: else an exiting process would
\* hand itself over to init.
Rooted == parent[InitProc] = NoProc /\ \A p \in Slots : parent[p] /= p

FInv == InitLive /\ Rooted /\ ParentLive /\ WaitSound

\* The family relations hold when init is the only process.
LEMMA InitFInv == Init => FInv
BY NPROCAssumption
   DEF Init, FInv, InitLive, Rooted, ParentLive, WaitSound, Sleepers, Alive, InitProc, Slots, NoProc

\* Steps in which nobody is born, dies or changes parents, and whoever starts
\* to wait has looked for zombies first.
LEMMA FamilyQuiet ==
    ASSUME FInv, UNCHANGED parent,
           \A p \in Slots : state'[p] = state[p] \/ (state[p] \in Alive /\ state'[p] \in Alive),
           \A p \in Slots : state'[p] = "SLEEPING" /\ chan'[p] = "wait" =>
                \/ state[p] = "SLEEPING" /\ chan[p] = "wait"
                \/ Zombies(p) = {} /\ Children(p) /= {}
    PROVE  FInv'
<1>1. InitProc \in Slots
  BY NPROCAssumption DEF InitProc, Slots
<1>2. InitLive' /\ Rooted'
  BY <1>1 DEF FInv, InitLive, Rooted
<1>3. ParentLive'
  BY DEF FInv, ParentLive, Alive
<1>4. \A p \in Slots : Zombies(p)' = Zombies(p) /\ Children(p)' = Children(p)
  BY DEF Zombies, Children, Alive
<1>5. WaitSound'
  BY <1>4 DEF FInv, WaitSound, Sleepers
<1> QED BY <1>2, <1>3, <1>5 DEF FInv

\* A slot is taken or given back; nobody is its child.
LEMMA FamilyEmbryo ==
    ASSUME FInv, NEW np \in Slots, UNCHANGED <<parent, chan>>,
           state[np] \in {"UNUSED", "EMBRYO"},
           NEW x \in {"UNUSED", "EMBRYO"},
           \A p \in Slots : state'[p] = IF p = np THEN x ELSE state[p]
    PROVE  FInv'
<1>1. InitProc \in Slots
  BY NPROCAssumption DEF InitProc, Slots
<1>2. InitLive' /\ Rooted'
  BY <1>1 DEF FInv, InitLive, Rooted, Alive
<1>3. ParentLive'
  BY DEF FInv, ParentLive
<1>4. \A p \in Slots : Zombies(p)' = Zombies(p) /\ Children(p)' = Children(p)
  BY DEF Zombies, Children
<1>5. WaitSound'
  BY <1>4 DEF FInv, WaitSound, Sleepers
<1> QED BY <1>2, <1>3, <1>5 DEF FInv

\* fork2 gives the child a parent that is running.
LEMMA FamilyPublish ==
    ASSUME SInv, FInv, NEW p \in Slots, ForkPublish(p)
    PROVE  FInv'
<1> DEFINE np == child[p]
<1>1. /\ pc[p] = "copy" /\ Running(p)
      /\ parent' = [parent EXCEPT ![np] = p]
      /\ state' = [state EXCEPT ![np] = "RUNNABLE"]
      /\ UNCHANGED chan
  BY DEF ForkPublish
<1>2. np \in Slots /\ state[np] = "EMBRYO" /\ state[p] = "RUNNING" /\ InitProc \in Slots
  BY <1>1, RunningFacts, NPROCAssumption DEF SInv, ForkOwned, InitProc, Slots
<1>3. /\ \A r \in Slots : parent'[r] = IF r = np THEN p ELSE parent[r]
      /\ \A r \in Slots : state'[r] = IF r = np THEN "RUNNABLE" ELSE state[r]
  BY <1>1, <1>2 DEF SInv, TypeOK
<1>a. np /= InitProc /\ np /= p
  BY <1>2 DEF FInv, InitLive, Alive
<1>4. InitLive' /\ Rooted'
  BY <1>2, <1>3, <1>a DEF FInv, InitLive, Rooted, Alive
<1>5. ParentLive'
  BY <1>2, <1>3 DEF FInv, ParentLive
<1>6. \A r \in Slots : Zombies(r)' = Zombies(r) /\ Children(r) \subseteq Children(r)'
  <2>1. parent[np] = NoProc /\ NoProc \notin Slots
    BY <1>2, NPROCAssumption DEF FInv, ParentLive, NoProc, Slots
  <2> QED BY <1>2, <1>3, <2>1 DEF Zombies, Children
<1>7. WaitSound'
  BY <1>1, <1>3, <1>6 DEF FInv, WaitSound, Sleepers
<1> QED BY <1>4, <1>5, <1>7 DEF FInv

\* wait() frees a zombie, which has no children.
LEMMA FamilyReap ==
    ASSUME SInv, FInv, NEW p \in Slots, WaitReap(p)
    PROVE  FInv'
<1>1. PICK q \in Slots :
        /\ parent[q] = p /\ state[q] = "ZOMBIE"
        /\ parent' = [parent EXCEPT ![q] = NoProc]
        /\ state' = [state EXCEPT ![q] = "UNUSED"]
  BY DEF WaitReap, Zombies, Children
<1>2. Running(p) /\ UNCHANGED chan
  BY DEF WaitReap, InWait
<1>3. state[p] = "RUNNING" /\ InitProc \in Slots /\ NoProc \notin Slots
  BY <1>2, RunningFacts, NPROCAssumption DEF InitProc, Slots, NoProc
<1>4. /\ \A r \in Slots : parent'[r] = IF r = q THEN NoProc ELSE parent[r]
      /\ \A r \in Slots : state'[r] = IF r = q THEN "UNUSED" ELSE state[r]
  BY <1>1 DEF SInv, TypeOK
<1>5. InitLive' /\ Rooted'
  BY <1>1, <1>3, <1>4 DEF FInv, InitLive, Rooted, Alive
<1>6. ParentLive'
  BY <1>1, <1>3, <1>4 DEF FInv, ParentLive
<1>7. \A r \in Slots : r /= p => Zombies(r)' = Zombies(r) /\ Children(r)' = Children(r)
  BY <1>1, <1>3, <1>4 DEF Zombies, Children
<1>8. WaitSound'
  BY <1>2, <1>3, <1>4, <1>7, <1>1 DEF FInv, WaitSound, Sleepers
<1> QED BY <1>5, <1>6, <1>8 DEF FInv

\* exit() leaves no zombie with a sleeping parent: it wakes its own, and init
\* when it hands a zombie over.
LEMMA FamilyExit ==
    ASSUME SInv, FInv, NEW p \in Slots, Exit(p)
    PROVE  FInv'
<1> DEFINE W1 == Sleepers("wait") \cap {parent[p]}
           W2 == IF Zombies(p) = {} THEN {} ELSE (Sleepers("wait") \cap {InitProc}) \ W1
           W == W1 \cup W2
<1>1. /\ Running(p) /\ p /= InitProc
      /\ parent' = [q \in Slots |-> IF parent[q] = p THEN InitProc ELSE parent[q]]
      /\ state' = [Woken(state, W) EXCEPT ![p] = "ZOMBIE"]
      /\ UNCHANGED chan
  BY DEF Exit
<1>2. state[p] = "RUNNING" /\ InitProc \in Slots /\ NoProc \notin Slots
  BY <1>1, RunningFacts, NPROCAssumption DEF InitProc, Slots, NoProc
<1>3. /\ \A r \in Slots : state'[r] = IF r = p THEN "ZOMBIE"
                                      ELSE IF r \in W THEN "RUNNABLE" ELSE state[r]
      /\ \A r \in Slots : parent'[r] = IF parent[r] = p THEN InitProc ELSE parent[r]
      /\ \A r \in W : state[r] = "SLEEPING"
  BY <1>1 DEF Woken, Sleepers
<1> HIDE DEF W
<1>4. InitLive' /\ Rooted'
  BY <1>1, <1>2, <1>3 DEF FInv, InitLive, Rooted, Alive
<1>5. ParentLive'
  <2> SUFFICES ASSUME NEW r \in Slots
               PROVE  /\ state'[r] \in {"UNUSED", "EMBRYO"} => parent'[r] = NoProc
                      /\ state'[r] \notin {"UNUSED", "EMBRYO"} /\ r /= InitProc =>
                            parent'[r] \in Slots /\ state'[parent'[r]] \in Alive
    BY DEF ParentLive, Alive
  <2>1. state'[r] \in {"UNUSED", "EMBRYO"} => parent'[r] = NoProc
    BY <1>2, <1>3 DEF FInv, ParentLive
  <2>2. ASSUME state'[r] \notin {"UNUSED", "EMBRYO"}, r /= InitProc
        PROVE  parent'[r] \in Slots /\ state'[parent'[r]] \in Alive
    <3>1. state[r] \notin {"UNUSED", "EMBRYO"}
      BY <1>2, <1>3, <2>2
    <3>2. parent[r] \in Slots /\ state[parent[r]] \in Alive
      BY <2>2, <3>1 DEF FInv, ParentLive, Alive
    <3>3. CASE parent[r] = p
      BY <1>2, <1>3, <1>4, <3>3 DEF InitLive
    <3>4. CASE parent[r] /= p
      BY <1>3, <3>2, <3>4 DEF Alive
    <3> QED BY <3>3, <3>4
  <2> QED BY <2>1, <2>2
<1>6. WaitSound'
  <2> SUFFICES ASSUME NEW r \in Slots, state'[r] = "SLEEPING", chan[r] = "wait"
               PROVE  Zombies(r)' = {} /\ Children(r)' /= {}
    BY <1>1 DEF WaitSound, Sleepers
  <2>1. r /= p /\ r \notin W /\ state[r] = "SLEEPING"
    BY <1>3
  <2>2. Zombies(r) = {} /\ Children(r) /= {} /\ r \in Sleepers("wait")
    BY <2>1 DEF FInv, WaitSound, Sleepers
  <2>3. parent[p] /= r
    BY <2>1, <2>2 DEF W
  <2>4. r = InitProc => Zombies(p) = {}
    BY <2>1, <2>2 DEF W
  <2>5. Children(r)' /= {}
    <3>1. PICK q \in Slots : parent[q] = r
      BY <2>2 DEF Children
    <3>2. parent'[q] = r
      BY <1>3, <2>1, <3>1
    <3> QED BY <3>2 DEF Children
  <2>6. Zombies(r)' = {}
    <3> SUFFICES ASSUME NEW q \in Slots, parent'[q] = r, state'[q] = "ZOMBIE"
                 PROVE  FALSE
      BY DEF Zombies, Children
    <3>1. CASE parent[q] = p
      <4>1. r = InitProc
        BY <1>3, <3>1
      <4>2. q /= p
        BY <3>1 DEF FInv, Rooted
      <4> QED BY <1>3, <2>4, <3>1, <4>1, <4>2 DEF Zombies, Children
    <3>2. CASE parent[q] /= p
      <4>1. parent[q] = r /\ q /= p
        BY <1>3, <2>3, <3>2
      <4> QED BY <1>3, <2>2, <4>1 DEF Zombies, Children
    <3> QED BY <3>1, <3>2
  <2> QED BY <2>5, <2>6
<1> QED BY <1>4, <1>5, <1>6 DEF FInv

\* Every step preserves the family relations.
LEMMA NextFInv == SInv /\ FInv /\ [Next]_vars => FInv'
<1> SUFFICES ASSUME SInv, FInv, [Next]_vars PROVE FInv'
  OBVIOUS
<1> USE DEF procVars, tickVars, forkVars
<1>0. TypeOK
  BY DEF SInv
<1>1. CASE UNCHANGED <<state, parent, chan>>
  BY <1>1, FamilyQuiet
<1>2. CASE Scheduler
  <2>1. CASE SchedRun
    <3> DEFINE p == Head(queue)
    <3>1. /\ p \in Slots /\ state[p] = "RUNNABLE" /\ UNCHANGED parent
          /\ state' = [state EXCEPT ![p] = "RUNNING"]
          /\ chan' = [chan EXCEPT ![p] = "none"]
      BY <1>0, <2>1, QueueFacts DEF SchedRun
    <3>2. /\ \A r \in Slots : state'[r] = IF r = p THEN "RUNNING" ELSE state[r]
          /\ \A r \in Slots : r /= p => chan'[r] = chan[r]
      BY <1>0, <3>1 DEF TypeOK
    <3> HIDE DEF p
    <3> QED BY <3>1, <3>2, FamilyQuiet DEF Alive
  <2>2. CASE SchedEnter \/ SchedDrained \/ SchedDrop \/ SchedExpire
    BY <1>1, <2>2 DEF SchedEnter, SchedDrained, SchedDrop, SchedExpire
  <2> QED BY <1>2, <2>1, <2>2 DEF Scheduler
<1>3. CASE Tick
  <2>1. UNCHANGED <<parent, chan>>
    BY <1>3 DEF Tick
  <2>2. \A p \in Slots : state'[p] = state[p] \/ (state[p] = "SLEEPING" /\ state'[p] = "RUNNABLE")
                         \/ (state[p] = "RUNNING" /\ state'[p] = "RUNNABLE")
    <3>1. spc = "run" => cur \in Slots /\ state[cur] = "RUNNING"
      BY DEF SInv, TypeOK, CurSpc, CurIsHead
    <3>2. \A p \in Slots : Woken(state, Due)[p] = state[p]
                           \/ (state[p] = "SLEEPING" /\ Woken(state, Due)[p] = "RUNNABLE")
      BY DEF Woken, Due, Sleepers
    <3>3. \/ state' = Woken(state, Due)
          \/ spc = "run" /\ state' = [Woken(state, Due) EXCEPT ![cur] = "RUNNABLE"]
      BY <1>3 DEF Tick
    <3>4. DOMAIN Woken(state, Due) = Slots
      BY DEF Woken
    <3> QED BY <3>1, <3>2, <3>3, <3>4
  <2> QED BY <2>1, <2>2, FamilyQuiet DEF Alive
<1>4. ASSUME NEW e, wakeup(e) PROVE FInv'
  <2>1. UNCHANGED <<parent, chan>>
    BY <1>4 DEF wakeup
  <2>2. \A p \in Slots : state'[p] = state[p] \/ (state[p] = "SLEEPING" /\ state'[p] = "RUNNABLE")
    BY <1>4 DEF wakeup, Woken, Sleepers
  <2> QED BY <2>1, <2>2, FamilyQuiet DEF Alive
<1>5. ASSUME NEW p \in Slots, NEW ch, Running(p), Sleep(p, ch), UNCHANGED parent,
             ch = "wait" => Zombies(p) = {} /\ Children(p) /= {}
      PROVE  FInv'
  <2>1. /\ \A r \in Slots : state'[r] = IF r = p THEN "SLEEPING" ELSE state[r]
        /\ \A r \in Slots : chan'[r] = IF r = p THEN ch ELSE chan[r]
        /\ state[p] = "RUNNING"
    BY <1>0, <1>5, RunningFacts DEF Sleep, TypeOK
  <2> QED BY <1>5, <2>1, FamilyQuiet DEF Alive
<1>6. ASSUME NEW p \in Slots, KernelStep(p) \/ Syscall(p) PROVE FInv'
  <2>1. CASE \/ ForkRet(p) \/ InitExits(p) \/ SysEnter(p) \/ UserFault(p) \/ SysReturn(p)
             \/ ExitCall(p) \/ SleepDone(p) \/ WaitNone(p)
    BY <1>1, <2>1
    DEF ForkRet, InitExits, SysEnter, UserFault, SysReturn, ExitCall, SleepDone, WaitNone
  <2>2. CASE WaitSleep(p)
    BY <1>5, <2>2 DEF WaitSleep, InWait
  <2>3. ASSUME NEW n \in SleepLens, SysSleep(p, n) PROVE FInv'
    <3>1. CASE killed[p]
      BY <1>1, <2>3, <3>1 DEF SysSleep
    <3>2. CASE ~killed[p]
      BY <1>5, <2>3, <3>2 DEF SysSleep
    <3> QED BY <3>1, <3>2
  <2>4. ASSUME NEW e \in Events, SleepOn(p, e) PROVE FInv'
    <3>1. e /= "wait"
      BY EventsAssumption
    <3> QED BY <1>5, <2>4, <3>1 DEF SleepOn
  <2>5. ASSUME NEW e \in Events, SysWakeup(p, e) PROVE FInv'
    BY <1>4, <2>5 DEF SysWakeup
  <2>6. ASSUME NEW k \in SlicePids, getslice(p, k) PROVE FInv'
    BY <1>1, <2>6 DEF getslice
  <2>7. ASSUME NEW k \in SlicePids, NEW s \in Slices, setslice(p, k, s) PROVE FInv'
    BY <1>1, <2>7 DEF setslice
  <2>8. ASSUME NEW k \in KillPids, Kill(p, k) PROVE FInv'
    <3>1. UNCHANGED <<parent, chan>>
      BY <2>8 DEF Kill
    <3>2. \A r \in Slots : state'[r] = state[r] \/ (state[r] = "SLEEPING" /\ state'[r] = "RUNNABLE")
      BY <1>0, <2>8 DEF Kill, FindPid, TypeOK
    <3> QED BY <3>1, <3>2, FamilyQuiet DEF Alive
  <2>9. ASSUME NEW s \in Slices, ForkAlloc(p, s) PROVE FInv'
    <3>1. PICK np \in Slots : state[np] = "UNUSED" /\ state' = [state EXCEPT ![np] = "EMBRYO"]
      BY <2>9 DEF ForkAlloc
    <3>2. \A r \in Slots : state'[r] = IF r = np THEN "EMBRYO" ELSE state[r]
      BY <1>0, <3>1 DEF TypeOK
    <3>3. UNCHANGED <<parent, chan>>
      BY <2>9 DEF ForkAlloc
    <3> QED BY <3>1, <3>2, <3>3, FamilyEmbryo
  <2>10. CASE ForkFail(p)
    <3>1. child[p] \in Slots /\ state[child[p]] = "EMBRYO"
      BY <2>10 DEF ForkFail, SInv, ForkOwned
    <3>2. \A r \in Slots : state'[r] = IF r = child[p] THEN "UNUSED" ELSE state[r]
      BY <1>0, <2>10, <3>1 DEF ForkFail, TypeOK
    <3>3. UNCHANGED <<parent, chan>>
      BY <2>10 DEF ForkFail
    <3> QED BY <3>1, <3>2, <3>3, FamilyEmbryo
  <2>11. CASE ForkPublish(p) \/ WaitReap(p) \/ Exit(p)
    BY <2>11, FamilyPublish, FamilyReap, FamilyExit
  <2> HIDE DEF procVars, tickVars, forkVars
  <2> QED
    BY <1>6, <2>1, <2>2, <2>3, <2>4, <2>5, <2>6, <2>7, <2>8, <2>9, <2>10, <2>11
    DEF KernelStep, Syscall
<1>7. ASSUME NEW e \in Events, DeviceInterrupt(e) PROVE FInv'
  BY <1>4, <1>7 DEF DeviceInterrupt
<1>8. CASE UNCHANGED vars \/ Halted
  BY <1>1, <1>8 DEF vars, Halted
<1> HIDE DEF procVars, tickVars, forkVars
<1> QED BY <1>2, <1>3, <1>6, <1>7, <1>8 DEF Next

\* wait() loses no wakeup: whoever sleeps in it has a child, and none of its
\* children has exited.
THEOREM WaitCorrect == Spec => []WaitSound
<1>1. FInv => WaitSound
  BY DEF FInv
<1> QED BY <1>1, InitSInv, NextSInv, InitFInv, NextFInv, PTL DEF Spec

\* Every process has a parent that is alive to reap it.
THEOREM ParentCorrect == Spec => []ParentLive
<1>1. FInv => ParentLive
  BY DEF FInv
<1> QED BY <1>1, InitSInv, NextSInv, InitFInv, NextFInv, PTL DEF Spec

-----------------------------------------------------------------------------
(* The statistics: turns are charged exactly, and compensation never exceeds *)
(* the sleep it is for.                                                      *)

Granted(p) == IF activesleepticks[p] > 0 THEN activesleepticks[p] ELSE 0
Used(p)    == IF activeticks[p] > timeslice[p] THEN activeticks[p] - timeslice[p] ELSE 0

-----------------------------------------------------------------------------
(* The inductive invariant, one process at a time. *)

\* A slot between allocproc and the end of fork2 has nothing on its account.
Fresh(p) ==
    state[p] = "EMBRYO" =>
        /\ activeticks[p] = 0 /\ activesleepticks[p] = 0 /\ blockedOn[p] = {}
        /\ schedticks[p] = 0 /\ compticks[p] = 0 /\ sleepticks[p] = 0 /\ switches[p] = 0

\* The history variable records every sleep.
Recorded(p) == state[p] = "SLEEPING" => chan[p] \in blockedOn[p]

Within(p) == Live(p) => activeticks[p] <= timeslice[p] + Granted(p)

Accounted(p) ==
    Live(p) /\ blockedOn[p] = {} /\ ~killed[p] =>
        /\ schedticks[p] = timeslice[p] * switches[p] + activeticks[p]
        /\ compticks[p] = 0 /\ activesleepticks[p] = 0

\* What a process may still use of the compensation granted to it is covered
\* by the ticks it has slept and, while it sleeps, those it has to sleep yet.
Covered(p) ==
    Live(p) /\ blockedOn[p] \subseteq {"ticks"} /\ ~killed[p] =>
        /\ compticks[p] <= sleepticks[p]
        /\ state[p] = "SLEEPING" => compticks[p] + Granted(p) <= sleepticks[p] + left[p]
        /\ state[p] /= "SLEEPING" => compticks[p] + Granted(p) <= sleepticks[p] + Used(p)

ProcInv(p) == Fresh(p) /\ Recorded(p) /\ Within(p) /\ Accounted(p) /\ Covered(p)

StInv == SInv /\ StatsTypeOK /\ \A p \in Slots : ProcInv(p)

-----------------------------------------------------------------------------
LEMMA StatsNextNext == StatsNext => [Next]_vars
<1>1. CountRun \/ CountExpire \/ CountTick => Next
  BY DEF CountRun, CountExpire, CountTick, Next, Scheduler
<1>2. ASSUME NEW p \in Slots, CountAlloc(p) \/ CountSleep(p) PROVE Next
  BY <1>2 DEF CountAlloc, CountSleep, Next, Syscall
<1>3. Uncounted => Next
  BY DEF Uncounted, Next, Scheduler, KernelStep, Syscall
<1>4. AtBound => UNCHANGED vars
  BY DEF AtBound, allVars
<1> QED BY <1>1, <1>2, <1>3, <1>4 DEF StatsNext

LEMMA Numbers ==
    ASSUME StInv, NEW p \in Slots
    PROVE  /\ timeslice[p] \in Nat /\ activeticks[p] \in Nat /\ activesleepticks[p] \in Int
           /\ left[p] \in Nat /\ schedticks[p] \in Nat /\ compticks[p] \in Nat
           /\ sleepticks[p] \in Nat /\ switches[p] \in Nat
<1>1. timeslice[p] \in Slices \cup {0}
  BY DEF StInv, SInv, TypeOK
<1>2. /\ activeticks[p] \in Nat /\ activesleepticks[p] \in Int /\ left[p] \in Nat
  BY DEF StInv, SInv, TypeOK
<1>3. /\ schedticks[p] \in Nat /\ compticks[p] \in Nat
      /\ sleepticks[p] \in Nat /\ switches[p] \in Nat
  BY DEF StInv, StatsTypeOK
<1>4. timeslice[p] \in Nat
  <2>1. \A s \in Slices : s \in Nat
    BY SlicesAssumption, Zenon
  <2>2. timeslice[p] \in Slices \/ timeslice[p] = 0
    BY <1>1
  <2> QED BY <2>1, <2>2
<1> QED BY <1>2, <1>3, <1>4

\* A process whose numbers stay as they are: it may get or lose the CPU, be
\* killed, die or be reaped.
LEMMA NumbersSame ==
    ASSUME StInv, NEW p \in Slots,
           /\ timeslice'[p] = timeslice[p] /\ activeticks'[p] = activeticks[p]
           /\ activesleepticks'[p] = activesleepticks[p] /\ left'[p] = left[p]
           /\ schedticks'[p] = schedticks[p] /\ compticks'[p] = compticks[p]
           /\ sleepticks'[p] = sleepticks[p] /\ switches'[p] = switches[p]
           /\ blockedOn'[p] = blockedOn[p],
           \/ /\ state'[p] = state[p] /\ chan'[p] = chan[p]
              /\ killed[p] => killed'[p]
           \/ /\ state[p] \in {"RUNNABLE", "RUNNING"} /\ state'[p] \in {"RUNNABLE", "RUNNING"}
              /\ killed[p] => killed'[p]
           \/ state[p] = "SLEEPING" /\ state'[p] = "RUNNABLE" /\ killed'[p]
           \/ state'[p] \in {"UNUSED", "ZOMBIE"}
    PROVE  ProcInv(p)'
<1> USE DEF StInv, ProcInv
<1>1. Fresh(p)' /\ Recorded(p)'
  BY DEF Fresh, Recorded
<1>2. Within(p)' /\ Accounted(p)' /\ Covered(p)'
  BY DEF Within, Accounted, Covered, Granted, Used, Live
<1> QED BY <1>1, <1>2

\* wakeup1 on a channel other than &ticks: compensation is no longer claimed.
LEMMA WokenElsewhere ==
    ASSUME StInv, NEW p \in Slots, state[p] = "SLEEPING", chan[p] /= "ticks",
           state'[p] = "RUNNABLE", activeticks'[p] = 0,
           /\ timeslice'[p] = timeslice[p] /\ activesleepticks'[p] = activesleepticks[p]
           /\ blockedOn'[p] = blockedOn[p]
    PROVE  ProcInv(p)'
<1>1. chan[p] \in blockedOn[p]
  BY DEF StInv, ProcInv, Recorded
<1>2. Fresh(p)' /\ Recorded(p)' /\ Accounted(p)' /\ Covered(p)'
  BY <1>1 DEF Fresh, Recorded, Accounted, Covered
<1>3. Within(p)'
  BY Numbers DEF Within, Granted
<1> QED BY <1>2, <1>3 DEF ProcInv

LEMMA InitStInv == StatsInit => StInv
<1> SUFFICES ASSUME StatsInit PROVE StInv
  OBVIOUS
<1>1. SInv
  BY InitSInv DEF StatsInit
<1>2. StatsTypeOK
  BY DEF StatsInit, StatsTypeOK
<1>3. ASSUME NEW p \in Slots PROVE ProcInv(p)
  <2>1. /\ activeticks[p] = 0 /\ activesleepticks[p] = 0 /\ blockedOn[p] = {}
        /\ schedticks[p] = 0 /\ compticks[p] = 0 /\ sleepticks[p] = 0 /\ switches[p] = 0
        /\ left[p] = 0 /\ timeslice[p] \in {0, 1} /\ state[p] \in {"RUNNABLE", "UNUSED"}
    BY DEF StatsInit, Init
  <2> QED BY <2>1 DEF ProcInv, Fresh, Recorded, Within, Accounted, Covered, Granted, Used, Live
<1> QED BY <1>1, <1>2, <1>3 DEF StInv

\* The head of the queue when the scheduler looks at it.
LEMMA HeadIs ==
    ASSUME StInv, queue /= <<>>
    PROVE  Head(queue) \in Slots
BY QueueFacts DEF StInv, SInv

LEMMA RunStInv ==
    ASSUME StInv, CountRun
    PROVE  StatsTypeOK' /\ \A p \in Slots : ProcInv(p)'
<1>1. PICK h \in Slots : h = Head(queue)
  BY HeadIs DEF CountRun, SchedRun
<1>2. /\ state[h] = "RUNNABLE" /\ activeticks[h] < timeslice[h] + activesleepticks[h]
      /\ activeticks' = [activeticks EXCEPT ![h] = @ + 1]
      /\ state' = [state EXCEPT ![h] = "RUNNING"]
      /\ chan' = [chan EXCEPT ![h] = "none"]
      /\ schedticks' = [schedticks EXCEPT ![h] = @ + 1]
      /\ compticks' = [compticks EXCEPT
                            ![h] = IF activeticks'[h] > timeslice[h] THEN @ + 1 ELSE @]
      /\ UNCHANGED <<killed, timeslice, activesleepticks, left, sleepticks, switches, blockedOn>>
  BY <1>1 DEF CountRun, SchedRun, HasTicksLeft
<1>3. activeticks'[h] = activeticks[h] + 1 /\ state'[h] = "RUNNING" /\ schedticks'[h] = schedticks[h] + 1
      /\ compticks'[h] = IF activeticks[h] + 1 > timeslice[h] THEN compticks[h] + 1 ELSE compticks[h]
  BY <1>2 DEF StInv, SInv, TypeOK, StatsTypeOK
<1>4. StatsTypeOK'
  BY <1>2 DEF StInv, StatsTypeOK
<1>5. ProcInv(h)'
  <2>1. Fresh(h)' /\ Recorded(h)'
    BY <1>3 DEF Fresh, Recorded
  <2>2. Within(h)'
    BY <1>2, <1>3, Numbers DEF Within, Granted
  <2>3. Accounted(h)'
    <3> SUFFICES ASSUME blockedOn[h] = {}, ~killed[h]
                 PROVE  /\ schedticks'[h] = timeslice[h] * switches[h] + activeticks'[h]
                        /\ compticks'[h] = 0 /\ activesleepticks[h] = 0
      BY <1>2 DEF Accounted
    <3>1. /\ schedticks[h] = timeslice[h] * switches[h] + activeticks[h]
          /\ compticks[h] = 0 /\ activesleepticks[h] = 0
      BY <1>2 DEF StInv, ProcInv, Accounted, Live
    <3>2. timeslice[h] * switches[h] \in Nat
      BY Numbers
    <3> QED BY <1>2, <1>3, <3>1, <3>2, Numbers
  <2>4. Covered(h)'
    <3> SUFFICES ASSUME blockedOn[h] \subseteq {"ticks"}, ~killed[h]
                 PROVE  /\ compticks'[h] <= sleepticks[h]
                        /\ compticks'[h] + Granted(h)' <= sleepticks[h] + Used(h)'
      BY <1>2, <1>3 DEF Covered
    <3>1. compticks[h] <= sleepticks[h] /\ compticks[h] + Granted(h) <= sleepticks[h] + Used(h)
      BY <1>2 DEF StInv, ProcInv, Covered, Live
    <3>2. compticks'[h] + Granted(h)' <= sleepticks[h] + Used(h)'
      BY <1>2, <1>3, <3>1, Numbers DEF Granted, Used
    <3>3. Used(h)' <= Granted(h)'
      BY <1>2, <1>3, Numbers DEF Granted, Used
    <3> QED BY <1>2, <1>3, <3>2, <3>3, Numbers DEF Granted, Used
  <2> QED BY <2>1, <2>2, <2>3, <2>4 DEF ProcInv
<1>6. ASSUME NEW p \in Slots, p /= h PROVE ProcInv(p)'
  <2>1. /\ timeslice'[p] = timeslice[p] /\ activeticks'[p] = activeticks[p]
        /\ activesleepticks'[p] = activesleepticks[p] /\ left'[p] = left[p]
        /\ schedticks'[p] = schedticks[p] /\ compticks'[p] = compticks[p]
        /\ sleepticks'[p] = sleepticks[p] /\ switches'[p] = switches[p]
        /\ blockedOn'[p] = blockedOn[p] /\ state'[p] = state[p] /\ chan'[p] = chan[p]
        /\ killed'[p] = killed[p]
    BY <1>2, <1>6 DEF StInv, SInv, TypeOK, StatsTypeOK
  <2> QED BY <2>1, NumbersSame
<1> QED BY <1>4, <1>5, <1>6

LEMMA ExpireStInv ==
    ASSUME StInv, CountExpire
    PROVE  StatsTypeOK' /\ \A p \in Slots : ProcInv(p)'
<1>1. PICK h \in Slots : h = Head(queue)
  BY HeadIs DEF CountExpire, SchedExpire
<1>2. /\ state[h] = "RUNNABLE" /\ ~(activeticks[h] < timeslice[h] + activesleepticks[h])
      /\ activeticks' = [activeticks EXCEPT ![h] = 0]
      /\ activesleepticks' = [activesleepticks EXCEPT ![h] = 0]
      /\ switches' = [switches EXCEPT ![h] = @ + 1]
      /\ UNCHANGED <<state, chan, killed, timeslice, left, schedticks, compticks, sleepticks,
                     blockedOn>>
  BY <1>1 DEF CountExpire, SchedExpire, HasTicksLeft, procVars
<1>3. activeticks'[h] = 0 /\ activesleepticks'[h] = 0 /\ switches'[h] = switches[h] + 1
  BY <1>2 DEF StInv, SInv, TypeOK, StatsTypeOK
<1>4. StatsTypeOK'
  BY <1>2 DEF StInv, StatsTypeOK
<1>5. ProcInv(h)'
  <2>1. Fresh(h)' /\ Recorded(h)'
    BY <1>2 DEF Fresh, Recorded
  <2>2. Within(h)'
    BY <1>2, <1>3, Numbers DEF Within, Granted
  <2>3. Accounted(h)'
    <3> SUFFICES ASSUME blockedOn[h] = {}, ~killed[h]
                 PROVE  /\ schedticks[h] = timeslice[h] * (switches[h] + 1) + 0
                        /\ compticks[h] = 0
      BY <1>2, <1>3 DEF Accounted
    <3>1. /\ schedticks[h] = timeslice[h] * switches[h] + activeticks[h]
          /\ compticks[h] = 0 /\ activesleepticks[h] = 0
      BY <1>2 DEF StInv, ProcInv, Accounted, Live
    <3>2. activeticks[h] = timeslice[h]  \* a turn is neither shorter nor longer
      BY <1>2, <3>1, Numbers DEF StInv, ProcInv, Within, Granted, Live
    <3>3. timeslice[h] * (switches[h] + 1) = timeslice[h] * switches[h] + timeslice[h]
      BY Numbers
    <3>4. timeslice[h] * switches[h] \in Nat
      BY Numbers
    <3> QED BY <3>1, <3>2, <3>3, <3>4, Numbers
  <2>4. Covered(h)'
    BY <1>2, <1>3, Numbers DEF StInv, ProcInv, Covered, Granted, Used, Live
  <2> QED BY <2>1, <2>2, <2>3, <2>4 DEF ProcInv
<1>6. ASSUME NEW p \in Slots, p /= h PROVE ProcInv(p)'
  <2>1. /\ timeslice'[p] = timeslice[p] /\ activeticks'[p] = activeticks[p]
        /\ activesleepticks'[p] = activesleepticks[p] /\ left'[p] = left[p]
        /\ schedticks'[p] = schedticks[p] /\ compticks'[p] = compticks[p]
        /\ sleepticks'[p] = sleepticks[p] /\ switches'[p] = switches[p]
        /\ blockedOn'[p] = blockedOn[p] /\ state'[p] = state[p] /\ chan'[p] = chan[p]
        /\ killed'[p] = killed[p]
    BY <1>2, <1>6 DEF StInv, SInv, TypeOK, StatsTypeOK
  <2> QED BY <2>1, NumbersSame
<1> QED BY <1>4, <1>5, <1>6

LEMMA TickStInv ==
    ASSUME StInv, CountTick
    PROVE  StatsTypeOK' /\ \A p \in Slots : ProcInv(p)'
<1> DEFINE S == Sleepers("ticks")
           D == Due
<1>1. /\ activeticks' = [p \in Slots |-> IF p \in D THEN 0 ELSE activeticks[p]]
      /\ left' = [p \in Slots |-> IF p \in S \ D THEN left[p] - 1
                                  ELSE IF p \in D THEN 0 ELSE left[p]]
      /\ sleepticks' = [p \in Slots |-> IF p \in S THEN sleepticks[p] + 1 ELSE sleepticks[p]]
      /\ UNCHANGED <<killed, chan, timeslice, activesleepticks, schedticks, compticks,
                     switches, blockedOn>>
  BY DEF CountTick, Tick, ResetTicks
<1>2. \A p \in Slots : /\ p \in S <=> state[p] = "SLEEPING" /\ chan[p] = "ticks"
                       /\ p \in D <=> p \in S /\ left[p] <= 1
  BY DEF Sleepers, Due
<1>3. \A p \in Slots : /\ p \in D => state'[p] = "RUNNABLE"
                       /\ p \notin D => \/ state'[p] = state[p]
                                        \/ state[p] = "RUNNING" /\ state'[p] = "RUNNABLE"
  <2>1. cur \in Slots => state[cur] = "RUNNING"
    BY DEF StInv, SInv, CurIsHead
  <2>2. state' = Woken(state, D) \/ state' = [Woken(state, D) EXCEPT ![cur] = "RUNNABLE"]
    BY DEF CountTick, Tick
  <2> QED BY <1>2, <2>1, <2>2 DEF Woken
<1> HIDE DEF S, D
<1>4. StatsTypeOK'
  BY <1>1 DEF StInv, StatsTypeOK
<1>5. ASSUME NEW p \in Slots PROVE ProcInv(p)'
  <2> USE Numbers
  <2>0. /\ activeticks'[p] = IF p \in D THEN 0 ELSE activeticks[p]
        /\ left'[p] = IF p \in S \ D THEN left[p] - 1 ELSE IF p \in D THEN 0 ELSE left[p]
        /\ sleepticks'[p] = IF p \in S THEN sleepticks[p] + 1 ELSE sleepticks[p]
    BY <1>1
  <2>1. CASE p \in D
    <3>1. /\ state[p] = "SLEEPING" /\ chan[p] = "ticks" /\ left[p] <= 1 /\ p \in S
          /\ state'[p] = "RUNNABLE" /\ "ticks" \in blockedOn[p]
      BY <1>2, <1>3, <2>1 DEF StInv, ProcInv, Recorded
    <3>2. Fresh(p)' /\ Recorded(p)' /\ Accounted(p)'
      BY <1>1, <3>1 DEF Fresh, Recorded, Accounted
    <3>3. Within(p)'
      BY <1>1, <2>0, <2>1 DEF Within, Granted
    <3>4. Covered(p)'
      BY <1>1, <2>0, <2>1, <3>1 DEF StInv, ProcInv, Covered, Granted, Used, Live
    <3> QED BY <3>2, <3>3, <3>4 DEF ProcInv
  <2>2. CASE p \in S \ D
    <3>1. /\ state[p] = "SLEEPING" /\ chan[p] = "ticks" /\ ~(left[p] <= 1)
          /\ state'[p] = "SLEEPING" /\ "ticks" \in blockedOn[p]
      BY <1>2, <1>3, <2>2 DEF StInv, ProcInv, Recorded
    <3>2. Fresh(p)' /\ Recorded(p)' /\ Accounted(p)'
      BY <1>1, <3>1 DEF Fresh, Recorded, Accounted
    <3>3. Within(p)'
      BY <1>1, <2>0, <2>2, <3>1 DEF StInv, ProcInv, Within, Granted, Live
    <3>4. Covered(p)'
      BY <1>1, <2>0, <2>2, <3>1 DEF StInv, ProcInv, Covered, Granted, Used, Live
    <3> QED BY <3>2, <3>3, <3>4 DEF ProcInv
  <2>3. CASE p \notin S
    <3>1. p \notin D
      BY <1>2, <2>3
    <3> QED BY <1>1, <1>3, <2>0, <2>3, <3>1, NumbersSame
  <2> QED BY <2>1, <2>2, <2>3
<1> QED BY <1>4, <1>5

LEMMA AllocStInv ==
    ASSUME StInv, NEW p \in Slots, CountAlloc(p)
    PROVE  StatsTypeOK' /\ \A q \in Slots : ProcInv(q)'
<1>1. PICK np \in Slots :
        /\ state' = [state EXCEPT ![np] = "EMBRYO"]
        /\ activeticks' = [activeticks EXCEPT ![np] = 0]
        /\ activesleepticks' = [activesleepticks EXCEPT ![np] = 0]
        /\ left' = [left EXCEPT ![np] = 0]
        /\ child' = [child EXCEPT ![p] = np]
  BY DEF CountAlloc, ForkAlloc
<1>2. child'[p] = np
  BY <1>1 DEF StInv, SInv, TypeOK
<1>3. /\ schedticks' = [schedticks EXCEPT ![np] = 0]
      /\ compticks' = [compticks EXCEPT ![np] = 0]
      /\ sleepticks' = [sleepticks EXCEPT ![np] = 0]
      /\ switches' = [switches EXCEPT ![np] = 0]
      /\ blockedOn' = [blockedOn EXCEPT ![np] = {}]
      /\ UNCHANGED <<killed, chan, timeslice>>
  BY <1>2 DEF CountAlloc, ForkAlloc
<1>4. StatsTypeOK'
  BY <1>3 DEF StInv, StatsTypeOK
<1>5. ASSUME NEW q \in Slots PROVE ProcInv(q)'
  <2>1. CASE q = np
    <3>1. /\ state'[q] = "EMBRYO" /\ activeticks'[q] = 0 /\ activesleepticks'[q] = 0
          /\ schedticks'[q] = 0 /\ compticks'[q] = 0 /\ sleepticks'[q] = 0
          /\ switches'[q] = 0 /\ blockedOn'[q] = {}
      BY <1>1, <1>3, <2>1 DEF StInv, SInv, TypeOK, StatsTypeOK
    <3> QED BY <3>1 DEF ProcInv, Fresh, Recorded, Within, Accounted, Covered, Live
  <2>2. CASE q /= np
    <3>1. /\ timeslice'[q] = timeslice[q] /\ activeticks'[q] = activeticks[q]
          /\ activesleepticks'[q] = activesleepticks[q] /\ left'[q] = left[q]
          /\ schedticks'[q] = schedticks[q] /\ compticks'[q] = compticks[q]
          /\ sleepticks'[q] = sleepticks[q] /\ switches'[q] = switches[q]
          /\ blockedOn'[q] = blockedOn[q] /\ state'[q] = state[q] /\ chan'[q] = chan[q]
          /\ killed'[q] = killed[q]
      BY <1>1, <1>3, <2>2 DEF StInv, SInv, TypeOK, StatsTypeOK
    <3> QED BY <3>1, NumbersSame
  <2> QED BY <2>1, <2>2
<1> QED BY <1>4, <1>5

\* sleep() of the running process.  In sys_sleep the compensation granted is
\* the time it is going to sleep.
LEMMA SleepStInv ==
    ASSUME StInv, NEW p \in Slots, CountSleep(p)
    PROVE  StatsTypeOK' /\ \A q \in Slots : ProcInv(q)'
<1>1. Running(p) /\ state[p] = "RUNNING"
  BY RunningFacts DEF CountSleep, WaitSleep, InWait, SysSleep, SleepOn, StInv
<1>2. \A q \in Slots \ {p} :
        /\ timeslice'[q] = timeslice[q] /\ activeticks'[q] = activeticks[q]
        /\ activesleepticks'[q] = activesleepticks[q] /\ left'[q] = left[q]
        /\ state'[q] = state[q] /\ chan'[q] = chan[q] /\ killed'[q] = killed[q]
  BY DEF CountSleep, WaitSleep, SysSleep, SleepOn, Sleep, tickVars, StInv, SInv, TypeOK
<1>3. /\ UNCHANGED <<schedticks, compticks, sleepticks, switches>>
      /\ blockedOn' = [blockedOn EXCEPT
                          ![p] = IF state'[p] = "SLEEPING" THEN @ \cup {chan'[p]} ELSE @]
  BY DEF CountSleep
<1>4. /\ \A q \in Slots \ {p} : blockedOn'[q] = blockedOn[q]
      /\ blockedOn'[p] = IF state'[p] = "SLEEPING" THEN blockedOn[p] \cup {chan'[p]}
                         ELSE blockedOn[p]
  BY <1>3 DEF StInv, StatsTypeOK
<1>5. ASSUME NEW q \in Slots \ {p} PROVE ProcInv(q)'
  BY <1>2, <1>3, <1>4, <1>5, NumbersSame
<1>6. ASSUME WaitSleep(p) \/ \E e \in Events : SleepOn(p, e)
      PROVE  /\ chan'[p] \in {"wait"} \cup Events /\ state'[p] = "SLEEPING"
             /\ UNCHANGED <<timeslice, activeticks, activesleepticks>>
  BY <1>6 DEF WaitSleep, SleepOn, Sleep, tickVars, StInv, SInv, TypeOK
<1>7. ASSUME NEW n \in SleepLens, SysSleep(p, n)
      PROVE  /\ timeslice' = timeslice /\ activesleepticks'[p] = n /\ activeticks'[p] = 0
             /\ killed' = killed /\ n \in Int
             /\ killed[p] => state'[p] = "RUNNING" /\ chan'[p] = chan[p]
             /\ ~killed[p] => /\ chan'[p] = "ticks" /\ state'[p] = "SLEEPING"
                              /\ left'[p] = IF n > 0 THEN n ELSE 0
  BY <1>1, <1>7, SleepLensAssumption DEF SysSleep, Sleep, StInv, SInv, TypeOK
<1>8. ProcInv(p)'
  <2>1. CASE WaitSleep(p) \/ \E e \in Events : SleepOn(p, e)
    <3>1. chan'[p] \in blockedOn'[p] /\ chan'[p] /= "ticks"
      BY <1>4, <1>6, <2>1, EventsAssumption
    <3>2. Fresh(p)' /\ Recorded(p)' /\ Accounted(p)' /\ Covered(p)'
      BY <1>6, <2>1, <3>1 DEF Fresh, Recorded, Accounted, Covered
    <3>3. Within(p)'
      BY <1>1, <1>6, <2>1 DEF StInv, ProcInv, Within, Granted, Live
    <3> QED BY <3>2, <3>3 DEF ProcInv
  <2>2. ASSUME NEW n \in SleepLens, SysSleep(p, n) PROVE ProcInv(p)'
    <3> USE Numbers
    <3>1. Fresh(p)' /\ Recorded(p)'
      BY <1>1, <1>4, <1>7, <2>2 DEF Fresh, Recorded, StInv, ProcInv
    <3>2. Within(p)'
      BY <1>7, <2>2 DEF Within, Granted
    <3>3. Accounted(p)'
      BY <1>4, <1>7, <2>2 DEF Accounted
    <3>4. Covered(p)'
      <4> SUFFICES ASSUME ~killed[p], blockedOn'[p] \subseteq {"ticks"}
                   PROVE  /\ compticks[p] <= sleepticks[p]
                          /\ compticks[p] + Granted(p)' <= sleepticks[p] + left'[p]
        BY <1>3, <1>7, <2>2 DEF Covered
      <4>1. compticks[p] <= sleepticks[p]
        BY <1>1, <1>4 DEF StInv, ProcInv, Covered, Live
      <4>2. Granted(p)' = left'[p] /\ left'[p] \in Nat
        BY <1>7, <2>2 DEF Granted
      <4> QED BY <4>1, <4>2
    <3> QED BY <3>1, <3>2, <3>3, <3>4 DEF ProcInv
  <2> QED BY <2>1, <2>2 DEF CountSleep
<1>9. StatsTypeOK'
  <2>1. chan'[p] \in {"none", "ticks", "wait"} \cup Events
    BY <1>6, <1>7 DEF CountSleep, StInv, SInv, TypeOK
  <2>2. state'[p] = "SLEEPING" => chan'[p] \in {"ticks", "wait"} \cup Events
    BY <1>6, <1>7 DEF CountSleep
  <2> QED BY <1>3, <2>2 DEF StInv, StatsTypeOK
<1> QED BY <1>5, <1>8, <1>9

-----------------------------------------------------------------------------
(* The steps that leave the statistics alone. *)

\* A step that wakes W, all of them asleep on one channel other than &ticks, in
\* which at most one other process changes its state, by dying.
LEMMA WakeStInv ==
    ASSUME StInv, UNCHANGED statVars, NEW W,
           \A q \in W : state[q] = "SLEEPING" /\ chan[q] /= "ticks",
           activeticks' = ResetTicks(W),
           UNCHANGED <<killed, chan, timeslice, activesleepticks, left>>,
           \A q \in Slots : \/ q \in W /\ state'[q] = "RUNNABLE"
                            \/ q \notin W /\ state'[q] \in {state[q], "ZOMBIE"}
    PROVE  \A q \in Slots : ProcInv(q)'
<1> SUFFICES ASSUME NEW q \in Slots PROVE ProcInv(q)'
  OBVIOUS
<1>1. activeticks'[q] = IF q \in W THEN 0 ELSE activeticks[q]
  BY DEF ResetTicks
<1>2. CASE q \in W
  BY <1>1, <1>2, WokenElsewhere DEF statVars
<1>3. CASE q \notin W
  BY <1>1, <1>3, NumbersSame DEF statVars
<1> QED BY <1>2, <1>3

LEMMA UncountedStInv ==
    ASSUME StInv, Uncounted, SlicePids = {}
    PROVE  \A q \in Slots : ProcInv(q)'
<1> USE DEF procVars, tickVars
<1>0. UNCHANGED statVars
  BY DEF Uncounted
<1>1. ASSUME UNCHANGED <<procVars, tickVars>> PROVE \A q \in Slots : ProcInv(q)'
  BY <1>0, <1>1, NumbersSame DEF statVars
<1>2. CASE SchedEnter \/ SchedDrained \/ SchedDrop \/ Halted
  BY <1>1, <1>2 DEF SchedEnter, SchedDrained, SchedDrop, Halted, vars
<1>3. ASSUME NEW p \in Slots,
             \/ ForkRet(p) \/ InitExits(p) \/ SysEnter(p) \/ SysReturn(p) \/ ExitCall(p)
             \/ WaitNone(p) \/ SleepDone(p) \/ \E k \in SlicePids : getslice(p, k)
      PROVE  \A q \in Slots : ProcInv(q)'
  BY <1>1, <1>3 DEF ForkRet, InitExits, SysEnter, SysReturn, ExitCall, WaitNone, SleepDone, getslice
<1>4. ASSUME NEW e \in Events, wakeup(e) PROVE \A q \in Slots : ProcInv(q)'
  <2>1. \A q \in Sleepers(e) : state[q] = "SLEEPING" /\ chan[q] /= "ticks"
    BY EventsAssumption DEF Sleepers
  <2>2. \A q \in Slots : \/ q \in Sleepers(e) /\ state'[q] = "RUNNABLE"
                         \/ q \notin Sleepers(e) /\ state'[q] = state[q]
    BY <1>4 DEF wakeup, Woken
  <2> QED BY <1>0, <1>4, <2>1, <2>2, WakeStInv DEF wakeup
<1>5. ASSUME NEW p \in Slots, Exit(p) PROVE \A q \in Slots : ProcInv(q)'
  <2> DEFINE W1 == Sleepers("wait") \cap {parent[p]}
             W2 == IF Zombies(p) = {} THEN {} ELSE (Sleepers("wait") \cap {InitProc}) \ W1
             W == W1 \cup W2
  <2>1. \A q \in W : state[q] = "SLEEPING" /\ chan[q] /= "ticks"
    BY DEF Sleepers
  <2>2. state[p] = "RUNNING"
    BY <1>5, RunningFacts DEF Exit, StInv
  <2>3. \A q \in Slots : \/ q \in W /\ state'[q] = "RUNNABLE"
                         \/ q \notin W /\ state'[q] \in {state[q], "ZOMBIE"}
    BY <1>5, <2>1, <2>2 DEF Exit, Woken
  <2>4. /\ activeticks' = ResetTicks(W)
        /\ UNCHANGED <<killed, chan, timeslice, activesleepticks, left>>
    BY <1>5 DEF Exit
  <2> QED BY <1>0, <2>1, <2>3, <2>4, WakeStInv
<1>6. ASSUME NEW p \in Slots, ForkFail(p) \/ ForkPublish(p)
      PROVE  \A q \in Slots : ProcInv(q)'
  <2>1. PICK c \in Slots : c = child[p] /\ state[c] = "EMBRYO"
    BY <1>6 DEF ForkFail, ForkPublish, StInv, SInv, ForkOwned
  <2>2. /\ UNCHANGED <<killed, chan, activeticks, activesleepticks, left>>
        /\ state'[c] \in {"UNUSED", "RUNNABLE"}
        /\ \A q \in Slots \ {c} : state'[q] = state[q] /\ timeslice'[q] = timeslice[q]
        /\ ForkFail(p) => state'[c] = "UNUSED"
    BY <1>6, <2>1 DEF ForkFail, ForkPublish, StInv, SInv, TypeOK
  <2>3. ForkPublish(p) => timeslice'[c] \in Nat
    <3>1. cslice[p] \in Slices \/ cslice[p] = 0
      BY DEF StInv, SInv, TypeOK
    <3>2. \A s \in Slices : s \in Nat
      BY SlicesAssumption, Zenon
    <3>3. ForkPublish(p) => timeslice'[c] = cslice[p]
      BY <2>1 DEF ForkPublish, StInv, SInv, TypeOK
    <3> QED BY <3>1, <3>2, <3>3
  <2>4. ASSUME NEW q \in Slots \ {c} PROVE ProcInv(q)'
    BY <1>0, <2>2, <2>4, NumbersSame DEF statVars
  <2>5. ProcInv(c)'
    <3>1. /\ activeticks'[c] = 0 /\ activesleepticks'[c] = 0 /\ blockedOn'[c] = {}
          /\ schedticks'[c] = 0 /\ compticks'[c] = 0 /\ sleepticks'[c] = 0
          /\ switches'[c] = 0 /\ left'[c] \in Nat
      BY <1>0, <2>1, <2>2, Numbers DEF StInv, ProcInv, Fresh, statVars
    <3>2. CASE ForkFail(p)
      BY <2>2, <3>2 DEF ProcInv, Fresh, Recorded, Within, Accounted, Covered, Live
    <3>3. CASE ForkPublish(p)
      BY <2>2, <2>3, <3>1, <3>3
         DEF ProcInv, Fresh, Recorded, Within, Accounted, Covered, Granted, Used, Live
    <3> QED BY <1>6, <3>2, <3>3
  <2> QED BY <2>4, <2>5
<1>7. ASSUME NEW p \in Slots, UserFault(p) PROVE \A q \in Slots : ProcInv(q)'
  <2>1. \A q \in Slots : killed[q] => killed'[q]
    BY <1>7 DEF UserFault, StInv, SInv, TypeOK
  <2> QED BY <1>0, <1>7, <2>1, NumbersSame DEF UserFault, statVars
<1>8. ASSUME NEW p \in Slots, WaitReap(p) PROVE \A q \in Slots : ProcInv(q)'
  <2>1. PICK c \in Slots : /\ killed' = [killed EXCEPT ![c] = FALSE]
                           /\ state' = [state EXCEPT ![c] = "UNUSED"]
    BY <1>8 DEF WaitReap, Zombies, Children
  <2>2. \A q \in Slots : \/ state'[q] = "UNUSED"
                         \/ state'[q] = state[q] /\ killed'[q] = killed[q]
    BY <2>1 DEF StInv, SInv, TypeOK
  <2> QED BY <1>0, <1>8, <2>2, NumbersSame DEF WaitReap, statVars
<1>9. ASSUME NEW p \in Slots, NEW k, Kill(p, k) PROVE \A q \in Slots : ProcInv(q)'
  <2>1. PICK c \in Slots :
          /\ killed' = [killed EXCEPT ![c] = TRUE]
          /\ state' = [state EXCEPT ![c] = IF @ = "SLEEPING" THEN "RUNNABLE" ELSE @]
    BY <1>9 DEF Kill, FindPid
  <2>2. \A q \in Slots : \/ state'[q] = state[q] /\ (killed[q] => killed'[q])
                         \/ state[q] = "SLEEPING" /\ state'[q] = "RUNNABLE" /\ killed'[q]
    BY <2>1 DEF StInv, SInv, TypeOK
  <2> QED BY <1>0, <1>9, <2>2, NumbersSame DEF Kill, statVars
<1> QED BY <1>2, <1>3, <1>4, <1>5, <1>6, <1>7, <1>8, <1>9 DEF Uncounted, DeviceInterrupt, SysWakeup

LEMMA NextStInv ==
    ASSUME SlicePids = {}
    PROVE  StInv /\ [StatsNext]_allVars => StInv'
<1> SUFFICES ASSUME StInv, [StatsNext]_allVars PROVE StInv'
  OBVIOUS
<1>1. SInv'
  <2>1. [Next]_vars
    BY StatsNextNext DEF allVars
  <2> QED BY <2>1, NextSInv DEF StInv
<1>2. CASE UNCHANGED allVars
  <2>1. StatsTypeOK'
    BY <1>2 DEF StInv, StatsTypeOK, allVars, statVars
  <2>2. \A p \in Slots : ProcInv(p)'
    BY <1>2, NumbersSame DEF allVars, statVars, vars, procVars, tickVars
  <2> QED BY <1>1, <2>1, <2>2 DEF StInv
<1>3. CASE Uncounted
  <2>1. StatsTypeOK'
    BY <1>3 DEF Uncounted, StInv, StatsTypeOK, statVars
  <2> QED BY <1>1, <1>3, <2>1, UncountedStInv DEF StInv
<1>4. CASE CountRun \/ CountExpire \/ CountTick
  BY <1>1, <1>4, RunStInv, ExpireStInv, TickStInv DEF StInv
<1>5. ASSUME NEW p \in Slots, CountAlloc(p) \/ CountSleep(p) PROVE StInv'
  BY <1>1, <1>5, AllocStInv, SleepStInv DEF StInv
<1> QED BY <1>2, <1>3, <1>4, <1>5 DEF StatsNext, AtBound

-----------------------------------------------------------------------------
(* Theorems, for programs that do not call setslice or getslice: a slice that *)
(* changes in the middle of a turn leaves no turn to account for.             *)

\* Every tick is charged once: a process that never blocked has been charged
\* its full turns and the ticks of the current one, no turn is longer than the
\* slice and the compensation granted, for any number of processes and ticks.
THEOREM TurnsCorrect ==
    ASSUME SlicePids = {}
    PROVE  StatsSpec => []TurnsOK
<1>1. StInv => TurnsOK
  BY DEF StInv, ProcInv, Accounted, Within, Granted, TurnsOK, TurnAccounting, TurnWithinSlice
<1>2. StInv /\ [StatsNext]_allVars => StInv'
  BY NextStInv
<1> QED BY <1>1, <1>2, InitStInv, PTL DEF StatsSpec

\* A process that blocks only in sys_sleep never uses more compensation ticks
\* than it has slept, however often it is preempted or sleeps again before its
\* compensation is used up.
THEOREM CompensationCorrect ==
    ASSUME SlicePids = {}
    PROVE  StatsSpec => []CompWithinSleep
<1>1. StInv => CompWithinSleep
  BY DEF StInv, ProcInv, Covered, CompWithinSleep
<1>2. StInv /\ [StatsNext]_allVars => StInv'
  BY NextStInv
<1> QED BY <1>1, <1>2, InitStInv, PTL DEF StatsSpec

-----------------------------------------------------------------------------
(* The pointers of the run queue implement Sched's sequence.  Linked is      *)
(* inductive together with the types and the distinctness of pids, without   *)
(* which pop() may mistake the head for the last process.                    *)

ListInv == ListTypeOK /\ Linked /\ DistinctPids

\* Only processes are queued.
LEMMA QueuedSlots ==
    ASSUME ListTypeOK
    PROVE  \A i \in 1..Len(queue) : queue[i] \in Slots
BY ElementOfSeq DEF ListTypeOK

\* The head of the list is null exactly when the queue is empty.
LEMMA HeadNull ==
    ASSUME ListTypeOK, Linked
    PROVE  head = NoProc <=> queue = <<>>
<1>1. queue /= <<>> => queue[1] \in Slots
  BY EmptySeq, ElementOfSeq DEF ListTypeOK
<1> QED BY <1>1 DEF Linked, NoProc, Slots

\* Nothing is queued when the kernel starts.
LEMMA ListInit == InitList => ListInv
BY DEF InitList, ListInv, ListTypeOK, Linked, DistinctPids, Slots, NoProc

\* push() keeps the list a list: only the old tail and the new one change.
LEMMA PushInv ==
    ASSUME ListInv, NEW p \in Slots, PushList(p)
    PROVE  ListInv'
<1> USE DEF NoProc, Slots
<1>0. ListTypeOK /\ Linked /\ DistinctPids
  BY DEF ListInv
<1>1. ListTypeOK'
  <2>1. queue' \in Seq(Slots) /\ pid' = pid /\ tail' = p /\ (head' = p \/ head' = head)
    BY <1>0 DEF ListTypeOK, PushList
  <2>2. next' \in [Slots -> Slots \cup {NoProc}]
    BY <1>0 DEF ListTypeOK, PushList
  <2> QED BY <1>0, <2>1, <2>2 DEF ListTypeOK
<1>2. /\ queue' = Append(queue, p) /\ queue \in Seq(Slots)
      /\ Len(queue') = Len(queue) + 1 /\ queue'[Len(queue')] = p
      /\ \A i \in 1..Len(queue) : queue'[i] = queue[i]
  BY <1>0 DEF ListTypeOK, PushList
<1>3. \A i \in 1..Len(queue) : queue[i] /= p /\ pid[queue[i]] /= pid[p]
  BY DEF PushList, MayPush
<1>4. DistinctPids'
  BY <1>0, <1>2, <1>3 DEF DistinctPids, PushList
<1>5. CASE queue = <<>>
  <2>1. head = NoProc
    BY <1>0, <1>5, HeadNull
  <2>2. Linked'
    BY <1>0, <1>2, <1>5, <2>1 DEF Linked, PushList, ListTypeOK
  <2> QED BY <1>1, <1>4, <2>2 DEF ListInv
<1>6. CASE queue /= <<>>
  <2>1. head /= NoProc /\ head' = head /\ tail' = p /\ next' = [next EXCEPT ![tail] = p, ![p] = NoProc]
    BY <1>0, <1>6, HeadNull DEF PushList
  <2>2. Len(queue) \in Nat /\ Len(queue) >= 1
    BY <1>0, <1>6 DEF ListTypeOK
  <2>3. tail = queue[Len(queue)] /\ head = queue[1] /\ tail \in Slots
    BY <1>0, <1>6, <2>2, QueuedSlots DEF Linked
  <2>4. tail /= p
    BY <1>3, <2>2, <2>3
  <2>5. next'[tail] = p /\ next'[p] = NoProc
    BY <1>0, <2>1, <2>3, <2>4 DEF ListTypeOK
  <2>6. ASSUME NEW i \in 1..(Len(queue') - 1)
        PROVE  next'[queue'[i]] = queue'[i + 1]
    <3>1. i \in 1..Len(queue) /\ queue'[i] = queue[i] /\ queue[i] \in Slots
      BY <1>0, <1>2, <2>2, QueuedSlots
    <3>2. CASE i = Len(queue)
      BY <1>2, <2>3, <2>5, <3>1, <3>2
    <3>3. CASE i /= Len(queue)
      <4>1. i \in 1..(Len(queue) - 1) /\ i + 1 \in 1..Len(queue) /\ queue'[i + 1] = queue[i + 1]
        BY <1>2, <2>2, <3>1, <3>3
      <4>2. queue[i] /= tail
        BY <1>0, <2>2, <2>3, <3>1, <3>3 DEF DistinctPids
      <4>3. queue[i] /= p
        BY <1>3, <3>1
      <4>4. next'[queue[i]] = next[queue[i]]
        BY <1>0, <2>1, <3>1, <4>2, <4>3 DEF ListTypeOK
      <4> QED BY <1>0, <3>1, <4>1, <4>4 DEF Linked
    <3> QED BY <3>2, <3>3
  <2>7. queue' /= <<>> /\ queue'[1] = queue[1]
    BY <1>2, <2>2
  <2>8. Linked'
    BY <1>2, <2>1, <2>3, <2>5, <2>6, <2>7 DEF Linked
  <2> QED BY <1>1, <1>4, <2>8 DEF ListInv
<1> QED BY <1>5, <1>6

\* pop() drops the head, and sees the last process for what it is.
LEMMA PopInv ==
    ASSUME ListInv, PopList
    PROVE  ListInv'
<1> USE DEF NoProc, Slots
<1>0. ListTypeOK /\ Linked /\ DistinctPids
  BY DEF ListInv
<1>1. CASE queue = <<>>
  <2>1. head = NoProc
    BY <1>0, <1>1, HeadNull
  <2> QED BY <1>0, <1>1, <2>1 DEF PopList, ListInv, ListTypeOK, Linked, DistinctPids
<1>2. CASE queue /= <<>>
  <2>1. head /= NoProc /\ queue' = Tail(queue) /\ next' = next /\ pid' = pid
    BY <1>0, <1>2, HeadNull DEF PopList
  <2>2. /\ Len(queue) \in Nat /\ Len(queue) >= 1 /\ Len(queue') = Len(queue) - 1
        /\ queue' \in Seq(Slots)
        /\ \A i \in 1..Len(queue') : queue'[i] = queue[i + 1]
    BY <1>0, <1>2, <2>1 DEF ListTypeOK
  <2>3. DistinctPids'
    <3> SUFFICES ASSUME NEW i \in 1..Len(queue'), NEW j \in 1..Len(queue'),
                        pid[queue'[i]] = pid[queue'[j]]
                 PROVE  i = j
      BY <2>1 DEF DistinctPids
    <3>1. /\ i \in Int /\ j \in Int /\ i + 1 \in 1..Len(queue) /\ j + 1 \in 1..Len(queue)
          /\ pid[queue[i + 1]] = pid[queue[j + 1]]
      BY <2>2
    <3>2. i + 1 = j + 1
      BY <1>0, <3>1 DEF DistinctPids
    <3> QED BY <3>1, <3>2
  <2>4. head = queue[1] /\ tail = queue[Len(queue)] /\ next[tail] = NoProc
    BY <1>0, <1>2 DEF Linked
  <2>5. pid[head] = pid[tail] <=> Len(queue) = 1
    BY <1>0, <2>2, <2>4 DEF DistinctPids
  <2>6. CASE Len(queue) = 1
    <3>1. head' = NoProc /\ tail' = NoProc /\ queue' = <<>>
      BY <2>1, <2>2, <2>5, <2>6 DEF PopList
    <3>2. ListTypeOK' /\ Linked'
      BY <1>0, <2>1, <3>1 DEF ListTypeOK, Linked
    <3> QED BY <2>3, <3>2 DEF ListInv
  <2>7. CASE Len(queue) /= 1
    <3>1. head' = next[head] /\ tail' = tail
      BY <2>1, <2>5, <2>7 DEF PopList
    <3>2. /\ next[queue[1]] = queue[2] /\ queue'[1] = queue[2] /\ queue' /= <<>>
          /\ queue'[Len(queue')] = queue[Len(queue)]
      BY <1>0, <2>2, <2>7 DEF Linked
    <3>3. ListTypeOK'
      BY <1>0, <2>1, <2>2, <2>4, <3>1, <3>2 DEF ListTypeOK
    <3>4. \A i \in 1..(Len(queue') - 1) : next'[queue'[i]] = queue'[i + 1]
      BY <1>0, <2>1, <2>2 DEF Linked
    <3>5. Linked'
      BY <2>1, <2>4, <3>1, <3>2, <3>4 DEF Linked
    <3> QED BY <2>3, <3>3, <3>5 DEF ListInv
  <2> QED BY <2>6, <2>7
<1> QED BY <1>1, <1>2

\* Renumbering a process that is not in the queue disturbs nothing.
LEMMA SetPidInv ==
    ASSUME ListInv, NEW p \in Slots, NEW k \in Pids, SetPid(p, k)
    PROVE  ListInv'
BY DEF SetPid, Queued, ListInv, ListTypeOK, Linked, DistinctPids

\* The list reached through head, next and tail is at every moment the
\* sequence of the processes pushed and not yet popped.
THEOREM QueueIsLinked == ListSpec => []Linked
<1>1. ListInv /\ [NextList]_listVars => ListInv'
  <2> SUFFICES ASSUME ListInv, [NextList]_listVars PROVE ListInv'
    OBVIOUS
  <2>1. CASE UNCHANGED listVars
    BY <2>1 DEF listVars, ListInv, ListTypeOK, Linked, DistinctPids
  <2>2. CASE NextList
    BY <2>2, PushInv, PopInv, SetPidInv DEF NextList
  <2> QED BY <2>1, <2>2
<1>2. ListInv => Linked
  BY DEF ListInv
<1> QED BY ListInit, <1>1, <1>2, PTL DEF ListSpec
=============================================================================
