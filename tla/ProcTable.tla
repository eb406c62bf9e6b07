----------------------------- MODULE ProcTable -----------------------------
(***************************************************************************)
(* What the scheduler (Sched) and the linked list of its run queue         *)
(* (RunQueue) share: the slots of the p4 process table, their pids, and    *)
(* the sequence of processes from head to tail (p4/src/proc.c).            *)
(***************************************************************************)
EXTENDS Integers, Sequences

CONSTANT NPROC  \* size of the process table
ASSUME NPROCAssumption == NPROC \in Nat \ {0}

Slots  == 1..NPROC
NoProc == 0             \* the null pointer

VARIABLES pid, queue
=============================================================================
