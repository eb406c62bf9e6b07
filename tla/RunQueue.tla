------------------------------ MODULE RunQueue ------------------------------
(***************************************************************************)
(* The run queue of the p4 kernel as it is in memory: head, tail and the   *)
(* next fields of the process table (p4/src/proc.c, push and pop).         *)
(*                                                                         *)
(* queue is the sequence the callers have in mind, Sched's queue.  Callers *)
(* push only processes that are not in the queue (Sched's QueueSound), and *)
(* pids of queued processes differ (Sched's PidsUnique).                   *)
(***************************************************************************)
EXTENDS ProcTable

CONSTANT Pids   \* the pids processes may have

VARIABLES head, tail, next

listVars == <<head, tail, next, pid, queue>>

ListTypeOK ==
    /\ head \in Slots \cup {NoProc}
    /\ tail \in Slots \cup {NoProc}
    /\ next \in [Slots -> Slots \cup {NoProc}]
    /\ pid \in [Slots -> Pids]
    /\ queue \in Seq(Slots)

Queued(p) == \E i \in 1..Len(queue) : queue[i] = p

InitList ==
    /\ head = NoProc
    /\ tail = NoProc
    /\ next = [p \in Slots |-> NoProc]
    /\ pid \in [Slots -> Pids]
    /\ queue = <<>>

\* What Sched guarantees of its calls of push.
MayPush(p) == \A i \in 1..Len(queue) : queue[i] /= p /\ pid[queue[i]] /= pid[p]

PushList(p) ==
    /\ MayPush(p)
    /\ \/ /\ head = NoProc
          /\ head' = p
          /\ next' = [next EXCEPT ![p] = NoProc]
       \/ /\ head /= NoProc
          /\ next' = [next EXCEPT ![tail] = p, ![p] = NoProc]
          /\ UNCHANGED head
    /\ tail' = p
    /\ queue' = Append(queue, p)
    /\ UNCHANGED pid

\* The last process is told by its pid; its next field keeps what it held.
PopList ==
    /\ \/ /\ head = NoProc
          /\ UNCHANGED <<head, tail, queue>>
       \/ /\ head /= NoProc /\ pid[head] = pid[tail]
          /\ head' = NoProc
          /\ tail' = NoProc
          /\ queue' = Tail(queue)
       \/ /\ head /= NoProc /\ pid[head] /= pid[tail]
          /\ head' = next[head]
          /\ queue' = Tail(queue)
          /\ UNCHANGED tail
    /\ UNCHANGED <<next, pid>>

\* allocproc and wait change the pid of a slot that is not queued.
SetPid(p, k) ==
    /\ ~Queued(p)
    /\ pid' = [pid EXCEPT ![p] = k]
    /\ UNCHANGED <<head, tail, next, queue>>

NextList ==
    \/ \E p \in Slots : PushList(p)
    \/ PopList
    \/ \E p \in Slots, k \in Pids : SetPid(p, k)

ListSpec == InitList /\ [][NextList]_listVars

-----------------------------------------------------------------------------
(* Properties. *)

\* The pointers spell the queue: from head, along next, to tail, whose next is
\* null; both ends are null when the queue is empty.  A stale next field of a
\* popped process, or a head left by a misjudged last pop, shows up here.
Linked ==
    /\ queue = <<>> => head = NoProc /\ tail = NoProc
    /\ queue /= <<>> => /\ head = queue[1]
                        /\ tail = queue[Len(queue)]
                        /\ next[tail] = NoProc
    /\ \A i \in 1..(Len(queue) - 1) : next[queue[i]] = queue[i + 1]

\* No process is in the list twice, and no two have the same pid, so that
\* pop() takes the pids of head and tail for equal only at the last process.
DistinctPids == \A i, j \in 1..Len(queue) : pid[queue[i]] = pid[queue[j]] => i = j
=============================================================================
