----------------------------- MODULE AtomicDisk -----------------------------
(***************************************************************************)
(* What the log promises to the file system: the updates of the system     *)
(* calls between begin_op() and end_op() reach the disk all together or,   *)
(* if the machine stops first, not at all; and they are on the disk when   *)
(* the last of a group of overlapping calls returns.                       *)
(***************************************************************************)
CONSTANTS
    Ops,        \* the processes that make file system calls
    Blocks,     \* the blocks of the file system
    Values,     \* what a block may hold
    Blank       \* what mkfs leaves in them

VARIABLES
    stable,     \* what survives a crash
    volatile,   \* what readers see
    status      \* of each process: "out", "in" a call, or "ending" one

vars == <<stable, volatile, status>>

Init ==
    /\ stable = [b \in Blocks |-> Blank]
    /\ volatile = stable
    /\ status = [p \in Ops |-> "out"]

Begin(p) ==
    /\ status[p] = "out"
    /\ \A q \in Ops : status[q] /= "ending"
    /\ status' = [status EXCEPT ![p] = "in"]
    /\ UNCHANGED <<stable, volatile>>

Write(p, b, v) ==
    /\ status[p] = "in"
    /\ volatile' = [volatile EXCEPT ![b] = v]
    /\ UNCHANGED <<stable, status>>

\* A call that others overlap returns at once; the last one has to commit.
End(p) ==
    /\ status[p] = "in"
    /\ status' = [status EXCEPT ![p] =
                    IF \E q \in Ops \ {p} : status[q] = "in" THEN "out" ELSE "ending"]
    /\ UNCHANGED <<stable, volatile>>

\* Nobody is inside a call: the whole of every call becomes stable at once.
Commit ==
    /\ \E p \in Ops : status[p] = "ending"
    /\ \A p \in Ops : status[p] /= "in"
    /\ stable' = volatile
    /\ UNCHANGED <<volatile, status>>

Return(p) ==
    /\ status[p] = "ending"
    /\ stable = volatile
    /\ status' = [status EXCEPT ![p] = "out"]
    /\ UNCHANGED <<stable, volatile>>

Crash ==
    /\ volatile' = stable
    /\ status' = [p \in Ops |-> "out"]
    /\ UNCHANGED stable

Next ==
    \/ Commit
    \/ Crash
    \/ \E p \in Ops : Begin(p) \/ End(p) \/ Return(p)
    \/ \E p \in Ops, b \in Blocks, v \in Values : Write(p, b, v)

Spec == Init /\ [][Next]_vars
=============================================================================
