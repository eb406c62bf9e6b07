----------------------------- MODULE SchedStats -----------------------------
(***************************************************************************)
(* The statistics getpinfo() reports (p4/src/pstat.h), kept by the         *)
(* scheduler, by wakeup1 and by allocproc.  Sched runs unchanged beneath.  *)
(***************************************************************************)
EXTENDS Sched

CONSTANT MaxSched   \* BOUND: the schedticks a process may collect
ASSUME MaxSchedAssumption == MaxSched \in Nat

VARIABLES
    schedticks, compticks, sleepticks, switches,    \* struct proc
    blockedOn   \* history: the channels the process has slept on

statVars == <<schedticks, compticks, sleepticks, switches, blockedOn>>
allVars  == <<vars, statVars>>

StatsTypeOK ==
    /\ schedticks \in [Slots -> Nat]
    /\ compticks \in [Slots -> Nat]
    /\ sleepticks \in [Slots -> Nat]
    /\ switches \in [Slots -> Nat]
    /\ blockedOn \in [Slots -> SUBSET ({"ticks", "wait"} \cup Events)]

StatsInit ==
    /\ Init
    /\ schedticks = [p \in Slots |-> 0]
    /\ compticks = [p \in Slots |-> 0]
    /\ sleepticks = [p \in Slots |-> 0]
    /\ switches = [p \in Slots |-> 0]
    /\ blockedOn = [p \in Slots |-> {}]

\* Slip (see Sched on the Mut... operators): >= for > in the compensation test.
MutCountRun ==
    /\ SchedRun
    /\ LET p == Head(queue) IN
        /\ schedticks[p] < MaxSched
        /\ schedticks' = [schedticks EXCEPT ![p] = @ + 1]
        /\ compticks' = [compticks EXCEPT
                            ![p] = IF activeticks'[p] >= timeslice[p] THEN @ + 1 ELSE @]
    /\ UNCHANGED <<sleepticks, switches, blockedOn>>

\* scheduler(): one tick is charged each time the head is given the CPU, a
\* compensation tick if it is beyond the time slice.
CountRun ==
    /\ SchedRun
    /\ LET p == Head(queue) IN
        /\ schedticks[p] < MaxSched
        /\ schedticks' = [schedticks EXCEPT ![p] = @ + 1]
        /\ compticks' = [compticks EXCEPT
                            ![p] = IF activeticks'[p] > timeslice[p] THEN @ + 1 ELSE @]
    /\ UNCHANGED <<sleepticks, switches, blockedOn>>

CountExpire ==
    /\ SchedExpire
    /\ switches' = [switches EXCEPT ![Head(queue)] = @ + 1]
    /\ UNCHANGED <<schedticks, compticks, sleepticks, blockedOn>>

\* wakeup1(&ticks) counts the tick for every process in sys_sleep.
CountTick ==
    /\ Tick
    /\ sleepticks' = [p \in Slots |-> IF p \in Sleepers("ticks") THEN sleepticks[p] + 1
                                      ELSE sleepticks[p]]
    /\ UNCHANGED <<schedticks, compticks, switches, blockedOn>>

\* allocproc() clears the statistics of the slot it takes.
CountAlloc(p) ==
    /\ \E s \in Slices : ForkAlloc(p, s)
    /\ schedticks' = [schedticks EXCEPT ![child'[p]] = 0]
    /\ compticks' = [compticks EXCEPT ![child'[p]] = 0]
    /\ sleepticks' = [sleepticks EXCEPT ![child'[p]] = 0]
    /\ switches' = [switches EXCEPT ![child'[p]] = 0]
    /\ blockedOn' = [blockedOn EXCEPT ![child'[p]] = {}]

CountSleep(p) ==
    /\ \/ WaitSleep(p)
       \/ \E n \in SleepLens : SysSleep(p, n)
       \/ \E e \in Events : SleepOn(p, e)
    /\ blockedOn' = [blockedOn EXCEPT
                        ![p] = IF state'[p] = "SLEEPING" THEN @ \cup {chan'[p]} ELSE @]
    /\ UNCHANGED <<schedticks, compticks, sleepticks, switches>>

\* Every other step leaves the statistics alone.
Uncounted ==
    /\ \/ SchedEnter \/ SchedDrained \/ SchedDrop
       \/ \E e \in Events : DeviceInterrupt(e)
       \/ \E p \in Slots :
            \/ ForkRet(p) \/ ForkFail(p) \/ ForkPublish(p) \/ Exit(p) \/ InitExits(p)
            \/ SysEnter(p) \/ UserFault(p) \/ SysReturn(p) \/ ExitCall(p)
            \/ WaitReap(p) \/ WaitNone(p)
            \/ \E k \in KillPids : Kill(p, k)
            \/ \E k \in SlicePids : getslice(p, k)
            \/ \E k \in SlicePids, s \in Slices : setslice(p, k, s)
            \/ \E e \in Events : SleepDone(p) \/ SysWakeup(p, e)
       \/ Halted
    /\ UNCHANGED statVars

\* The bound is reached: nothing is claimed beyond it.
AtBound == (\E p \in Slots : schedticks[p] = MaxSched) /\ UNCHANGED allVars

StatsNext ==
    \/ CountRun \/ CountExpire \/ CountTick
    \/ \E p \in Slots : CountAlloc(p) \/ CountSleep(p)
    \/ Uncounted
    \/ AtBound

StatsSpec == StatsInit /\ [][StatsNext]_allVars

-----------------------------------------------------------------------------
(* Properties. *)

Live(p) == state[p] \in {"RUNNABLE", "RUNNING", "SLEEPING"}

\* "verify == its timeslice x switches" (tests 8 and 9), at every moment and
\* not only at the end of a turn: what a process that never blocked has been
\* charged is its full turns and the ticks of the current one.
TurnAccounting ==
    \A p \in Slots :
        Live(p) /\ blockedOn[p] = {} /\ ~killed[p] =>
            /\ schedticks[p] = timeslice[p] * switches[p] + activeticks[p]
            /\ compticks[p] = 0

\* A process uses no more compensation than it has slept, as long as
\* sys_sleep is the only thing it blocks in.
CompWithinSleep ==
    \A p \in Slots :
        Live(p) /\ blockedOn[p] \subseteq {"ticks"} /\ ~killed[p] =>
            compticks[p] <= sleepticks[p]

\* One turn never exceeds the time slice and the compensation granted.
TurnWithinSlice ==
    \A p \in Slots :
        Live(p) => activeticks[p] <=
            timeslice[p] + (IF activesleepticks[p] > 0 THEN activesleepticks[p] ELSE 0)

\* Every tick is charged once, to the right counter, and a turn ends on time.
TurnsOK == StatsTypeOK /\ TurnAccounting /\ TurnWithinSlice
=============================================================================
