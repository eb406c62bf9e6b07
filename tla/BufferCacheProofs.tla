-------------------------- MODULE BufferCacheProofs --------------------------
(***************************************************************************)
(* Proofs about the buffer cache and the disk driver, for any number of    *)
(* processes, buffers and blocks: a block has one buffer, references and   *)
(* sleep-locks are exact, the drive works on the head of the queue, and    *)
(* whoever has a block sees what was last stored in it.                    *)
(***************************************************************************)
EXTENDS BufferCache, FiniteSetTheorems, WellFoundedInduction, TLAPS

Users(b)  == {p \in Procs : buf[p] = b}
Queued(b) == \E i \in 1..Len(idequeue) : idequeue[i] = b
Holding   == {"rw", "iowait", "iowake", "have"}

-----------------------------------------------------------------------------
(* The inductive invariant. *)

RefInv == \A b \in Bufs : refcnt[b] = Cardinality(Users(b))

\* A sleep-lock is held by the one process that is in the section it protects.
OwnInv ==
    /\ \A p \in Procs : pc[p] \in Holding => owner[buf[p]] = p
    /\ \A b \in Bufs : owner[b] /= None =>
            owner[b] \in Procs /\ buf[owner[b]] = b /\ pc[owner[b]] \in Holding

\* Where a process is and what its buffer looks like.
PcInv ==
    \A p \in Procs :
        /\ buf[p] = None <=> pc[p] \in {"out", "panic"}
        /\ buf[p] /= None => blockno[buf[p]] \in Blocks
        /\ pc[p] = "iowait" => Queued(buf[p])
        /\ pc[p] \in {"have", "iowake"} => valid[buf[p]]
        /\ pc[p] = "iowake" => ~dirty[buf[p]]

\* Of a block without a dirty buffer the disk has the latest content; a valid
\* buffer always has it.
DataInv ==
    /\ \A b \in Bufs : valid[b] => data[b] = "new"
    /\ \A b \in Bufs : dirty[b] => valid[b] /\ blockno[b] \in Blocks
    /\ \A k \in Blocks : (\A b \in Bufs : blockno[b] = k => ~dirty[b]) => disk[k] = "new"

BInv == TypeOK /\ OneCopy /\ RefInv /\ OwnInv /\ QueueServed /\ PcInv /\ DataInv

-----------------------------------------------------------------------------
(* Helpers. *)

\* The naturals are well-ordered.
LEMMA MinByRelation ==
    ASSUME NEW T, T \subseteq Nat, T /= {}, NEW R, IsWellFoundedOn(R, Nat),
           \A x, y \in Nat : x < y => <<x, y>> \in R
    PROVE  \E x \in T : \A y \in T : x <= y
<1>1. PICK x \in T : \A y \in T : ~(<<y, x>> \in R)
  BY WFMin, ZenonT(120)
<1>2. \A y \in T : ~(y < x)
  BY <1>1
<1>3. \A y \in T : x <= y
  BY <1>2
<1> QED BY <1>3

LEMMA NatMinimum ==
    ASSUME NEW T, T \subseteq Nat, T /= {}
    PROVE  \E x \in T : \A y \in T : x <= y
<1>1. IsWellFoundedOn(OpToRel(<, Nat), Nat)
  BY NatLessThanWellFounded
<1>2. \A x, y \in Nat : x < y => <<x, y>> \in OpToRel(<, Nat)
  BY DEF OpToRel
<1> QED BY <1>1, <1>2, MinByRelation, Zenon

LEMMA MaximumBelow ==
    ASSUME NEW N \in Nat, NEW S, S \subseteq 1..N, S /= {}
    PROVE  \E x \in S : \A y \in S : y <= x
<1> DEFINE T == {n \in Nat : \E i \in S : n = N - i}
<1>1. \A i \in S : N - i \in T
  OBVIOUS
<1>2. T \subseteq Nat /\ T /= {}
  BY <1>1, Zenon
<1>3. PICK x \in T : \A y \in T : x <= y
  BY <1>2, NatMinimum
<1>4. PICK i \in S : x = N - i
  OBVIOUS
<1> QED BY <1>1, <1>3, <1>4

\* bget's scan finds a buffer nobody uses that is not pinned, if there is one.
LEMMA VictimFree ==
    ASSUME TypeOK, Recyclable /= {}
    PROVE  Victim \in Bufs /\ refcnt[Victim] = 0 /\ ~dirty[Victim]
<1>1. Recyclable \subseteq 1..NBUF
  BY DEF Recyclable
<1>2. \E i \in Recyclable : \A j \in Recyclable : j <= i
  BY <1>1, MaximumBelow, BufAssumption
<1>3. PICK i \in Recyclable : Victim = lru[i]
  BY <1>2 DEF Victim
<1> QED BY <1>3 DEF Recyclable, TypeOK

LEMMA UsersFinite ==
    \A b : IsFiniteSet(Users(b)) /\ Cardinality(Users(b)) \in 0..Cardinality(Procs)
BY ProcsAssumption, FS_Subset, FS_CardinalityType DEF Users

\* A queue without repetitions is no longer than there are buffers.
LEMMA QueueShort ==
    ASSUME NEW q \in Seq(Bufs), \A i, j \in 1..Len(q) : q[i] = q[j] => i = j
    PROVE  Len(q) <= NBUF
<1>1. q \in Injection(1..Len(q), Bufs)
  BY DEF Injection, IsInjective
<1>2. /\ IsFiniteSet(Bufs) /\ Cardinality(Bufs) = NBUF
      /\ Cardinality(1..Len(q)) = Len(q)
  BY FS_Interval, BufAssumption DEF Bufs
<1> QED BY <1>1, <1>2, FS_Injection

LEMMA InitBInv == Init => BInv
<1> SUFFICES ASSUME Init PROVE BInv
  OBVIOUS
<1> USE DEF Init
<1>1. TypeOK
  <2>1. /\ lru \in [1..NBUF -> Bufs] /\ \A b \in Bufs : \E i \in 1..NBUF : lru[i] = b
    <3>1. \A i \in 1..NBUF : NBUF + 1 - i \in 1..NBUF /\ NBUF + 1 - (NBUF + 1 - i) = i
      BY BufAssumption
    <3> QED BY <3>1 DEF Bufs
  <2>2. refcnt \in [Bufs -> 0..Cardinality(Procs)]
    BY ProcsAssumption, FS_CardinalityType
  <2>3. idequeue \in Seq(Bufs) /\ Len(idequeue) <= NBUF
    BY BufAssumption
  <2> QED BY <2>1, <2>2, <2>3 DEF TypeOK, PCs, Contents
<1>2. RefInv
  <2>1. \A b \in Bufs : Users(b) = {}
    BY NoneAssumption DEF Users
  <2> QED BY <2>1, FS_EmptySet DEF RefInv
<1> QED BY <1>1, <1>2 DEF BInv, OneCopy, OwnInv, QueueServed, PcInv, DataInv, Holding

LEMMA RefSame ==
    ASSUME BInv, UNCHANGED <<refcnt, buf>>
    PROVE  RefInv'
BY DEF BInv, RefInv, Users

\* A process that is not outside has a buffer.
LEMMA HasBuf ==
    ASSUME BInv, NEW p \in Procs, pc[p] \notin {"out", "panic"}
    PROVE  buf[p] \in Bufs /\ blockno[buf[p]] \in Blocks
BY DEF BInv, TypeOK, PcInv

-----------------------------------------------------------------------------
(* bget. *)

LEMMA BgetHitBInv ==
    ASSUME BInv, NEW p \in Procs, NEW k \in Blocks, BgetHit(p, k)
    PROVE  BInv'
<1> USE DEF BgetHit, ideVars
<1>1. PICK b \in Bufs : /\ blockno[b] = k
                        /\ refcnt' = [refcnt EXCEPT ![b] = @ + 1]
                        /\ buf' = [buf EXCEPT ![p] = b]
  BY DEF Cached
<1>2. \A q \in Procs : /\ buf'[q] = IF q = p THEN b ELSE buf[q]
                       /\ pc'[q] = IF q = p THEN "lock" ELSE pc[q]
  BY <1>1 DEF BInv, TypeOK
<1>3. buf[p] = None /\ pc[p] = "out"
  BY DEF BInv, PcInv
<1>4. RefInv' /\ refcnt' \in [Bufs -> 0..Cardinality(Procs)]
  <2>1. Users(b)' = Users(b) \cup {p} /\ p \notin Users(b)
    BY <1>2, <1>3, NoneAssumption DEF Users
  <2>2. \A c \in Bufs \ {b} : Users(c)' = Users(c)
    BY <1>2, <1>3, NoneAssumption DEF Users
  <2>3. Cardinality(Users(b)') = Cardinality(Users(b)) + 1
    BY <2>1, UsersFinite, FS_AddElement
  <2>4. Cardinality(Users(b)') \in 0..Cardinality(Procs)
    BY UsersFinite, ProcsAssumption, FS_Subset, FS_CardinalityType DEF Users
  <2>5. refcnt'[b] = Cardinality(Users(b)') /\ \A c \in Bufs \ {b} : refcnt'[c] = refcnt[c]
    BY <1>1, <2>3 DEF BInv, TypeOK, RefInv
  <2> QED BY <1>1, <2>2, <2>4, <2>5 DEF BInv, TypeOK, RefInv
<1>5. TypeOK'
  BY <1>1, <1>4 DEF BInv, TypeOK, PCs
<1>6. OwnInv'
  BY <1>2, <1>3 DEF BInv, TypeOK, OwnInv, Holding
<1>7. QueueServed'
  BY <1>2, <1>3 DEF BInv, QueueServed, idestart
<1>8. PcInv'
  BY <1>1, <1>2, NoneAssumption DEF BInv, PcInv, Queued
<1>9. OneCopy' /\ DataInv'
  BY DEF BInv, OneCopy, DataInv
<1> QED BY <1>4, <1>5, <1>6, <1>7, <1>8, <1>9 DEF BInv

LEMMA BgetPanicBInv ==
    ASSUME BInv, NEW p \in Procs, NEW k \in Blocks, BgetMiss(p, k), Recyclable = {}
    PROVE  BInv'
<1>1. /\ pc' = [pc EXCEPT ![p] = "panic"] /\ pc[p] = "out"
      /\ UNCHANGED <<blockno, valid, dirty, refcnt, data, owner, lru, idequeue, active,
                     disk, buf>>
  BY DEF BgetMiss, bufVars, ideVars
<1>2. \A q \in Procs : pc'[q] = IF q = p THEN "panic" ELSE pc[q]
  BY <1>1 DEF BInv, TypeOK
<1>3. TypeOK' /\ OneCopy' /\ DataInv'
  BY <1>1 DEF BInv, TypeOK, PCs, OneCopy, DataInv
<1>4. OwnInv' /\ PcInv'
  BY <1>1, <1>2 DEF BInv, OwnInv, Holding, PcInv, Queued
<1>5. QueueServed'
  BY <1>1, <1>2 DEF BInv, QueueServed, idestart
<1> QED BY <1>1, <1>3, <1>4, <1>5, RefSame DEF BInv

\* A recycled buffer has no user, is in no queue and nobody has its lock.
LEMMA BgetRecycleBInv ==
    ASSUME BInv, NEW p \in Procs, NEW k \in Blocks, BgetMiss(p, k), Recyclable /= {}
    PROVE  BInv'
<1>0. PICK b \in Bufs : b = Victim /\ refcnt[b] = 0 /\ ~dirty[b]
  BY VictimFree DEF BInv
<1>1. /\ blockno' = [blockno EXCEPT ![b] = k] /\ valid' = [valid EXCEPT ![b] = FALSE]
      /\ refcnt' = [refcnt EXCEPT ![b] = 1] /\ buf' = [buf EXCEPT ![p] = b]
      /\ pc' = [pc EXCEPT ![p] = "lock"] /\ pc[p] = "out" /\ Cached(k) = {}
      /\ UNCHANGED <<dirty, data, owner, lru, idequeue, active, disk>>
  BY <1>0 DEF BgetMiss, ideVars
<1>2. \A q \in Procs : /\ buf'[q] = IF q = p THEN b ELSE buf[q]
                       /\ pc'[q] = IF q = p THEN "lock" ELSE pc[q]
  BY <1>1 DEF BInv, TypeOK
<1>3. \A c \in Bufs : /\ blockno'[c] = IF c = b THEN k ELSE blockno[c]
                      /\ valid'[c] = IF c = b THEN FALSE ELSE valid[c]
                      /\ refcnt'[c] = IF c = b THEN 1 ELSE refcnt[c]
                      /\ blockno[c] /= k
  BY <1>1 DEF BInv, TypeOK, Cached
<1>4. Users(b) = {} /\ buf[p] = None
  BY <1>0, <1>1, UsersFinite, FS_EmptySet DEF BInv, RefInv, PcInv
<1>5. owner[b] = None /\ \A q \in Procs : buf[q] /= b
  BY <1>0, <1>4 DEF BInv, OwnInv, Users
<1>6. RefInv' /\ refcnt' \in [Bufs -> 0..Cardinality(Procs)]
  <2>1. Users(b)' = {p} /\ \A c \in Bufs \ {b} : Users(c)' = Users(c)
    BY <1>2, <1>4, <1>5, NoneAssumption DEF Users
  <2>2. Cardinality({p}) = 1
    BY FS_Singleton
  <2>3. 1 <= Cardinality(Procs) /\ Cardinality(Procs) \in Nat
    BY <2>2, ProcsAssumption, FS_Subset, FS_CardinalityType
  <2>4. RefInv'
    BY <1>3, <2>1, <2>2 DEF BInv, RefInv
  <2> QED BY <1>0, <1>1, <2>3, <2>4 DEF BInv, TypeOK
<1>7. TypeOK'
  BY <1>0, <1>1, <1>6 DEF BInv, TypeOK, PCs
<1>8. OneCopy'
  BY <1>3 DEF BInv, OneCopy
<1>9. OwnInv'
  BY <1>1, <1>2, <1>5 DEF BInv, TypeOK, OwnInv, Holding
<1>10. QueueServed'
  <2>1. \A i \in 1..Len(idequeue) : idequeue[i] /= b /\ idequeue[i] \in Bufs
    BY <1>5 DEF BInv, QueueServed, TypeOK
  <2>2. idequeue /= <<>> => Head(idequeue) = idequeue[1] /\ 1 \in 1..Len(idequeue)
    BY DEF BInv, TypeOK
  <2>3. idequeue /= <<>> => idestart(Head(idequeue))' = idestart(Head(idequeue))
    BY <1>1, <1>3, <2>1, <2>2 DEF idestart
  <2>4. \A i \in 1..Len(idequeue) :
            \E q \in Procs : buf'[q] = idequeue[i] /\ owner[buf'[q]] = q /\ pc'[q] = "iowait"
    BY <1>1, <1>2 DEF BInv, QueueServed
  <2> QED BY <1>1, <2>3, <2>4 DEF BInv, QueueServed
<1>11. PcInv'
  <2> SUFFICES ASSUME NEW q \in Procs PROVE PcInv!(q)'
    BY DEF PcInv
  <2>1. CASE q = p
    BY <1>0, <1>2, <1>3, <2>1, NoneAssumption
  <2>2. CASE q /= p
    BY <1>1, <1>2, <1>3, <1>5, <2>2 DEF BInv, PcInv, Queued, TypeOK
  <2> QED BY <2>1, <2>2
<1>12. DataInv'
  <2>1. \A c \in Blocks : (\A d \in Bufs : blockno'[d] = c => ~dirty[d]) => disk[c] = "new"
    BY <1>0, <1>3 DEF BInv, DataInv
  <2> QED BY <1>0, <1>1, <1>3, <2>1 DEF BInv, DataInv
<1> QED BY <1>6, <1>7, <1>8, <1>9, <1>10, <1>11, <1>12 DEF BInv

\* Who waits for the disk goes on waiting, and the queue is as it was.
LEMMA QueueSame ==
    ASSUME BInv, UNCHANGED <<blockno, dirty, data, idequeue, active>>,
           \A q \in Procs : pc[q] = "iowait" =>
                pc'[q] = "iowait" /\ buf'[q] = buf[q] /\ owner'[buf[q]] = owner[buf[q]]
    PROVE  QueueServed'
<1>1. \A i \in 1..Len(idequeue) :
        \E q \in Procs : buf'[q] = idequeue[i] /\ owner'[buf'[q]] = q /\ pc'[q] = "iowait"
  BY DEF BInv, QueueServed
<1> QED BY <1>1 DEF BInv, QueueServed, idestart

-----------------------------------------------------------------------------
(* acquiresleep, releasesleep, brelse. *)

\* Steps that only move a process, and not into or out of the lock.
LEMMA MoveBInv ==
    ASSUME BInv, NEW p \in Procs, AcquireSleep(p) \/ IoCheck(p)
    PROVE  BInv'
<1>1. /\ UNCHANGED <<blockno, valid, dirty, refcnt, data, owner, lru, idequeue, active,
                     disk, buf>>
      /\ \/ pc[p] = "lock" /\ pc' = [pc EXCEPT ![p] = "lockwait"]
         \/ pc[p] = "iowake" /\ pc' = [pc EXCEPT ![p] = "have"]
  BY DEF AcquireSleep, IoCheck, bufVars, ideVars, BInv, PcInv
<1>2. \/ /\ pc[p] = "lock"
         /\ \A q \in Procs : pc'[q] = IF q = p THEN "lockwait" ELSE pc[q]
      \/ /\ pc[p] = "iowake"
         /\ \A q \in Procs : pc'[q] = IF q = p THEN "have" ELSE pc[q]
  BY <1>1 DEF BInv, TypeOK
<1>3. TypeOK' /\ OneCopy' /\ DataInv'
  BY <1>1 DEF BInv, TypeOK, PCs, OneCopy, DataInv
<1>4. OwnInv' /\ PcInv'
  BY <1>1, <1>2 DEF BInv, OwnInv, Holding, PcInv, Queued
<1>5. QueueServed'
  BY <1>1, <1>2 DEF BInv, QueueServed, idestart
<1> QED BY <1>1, <1>3, <1>4, <1>5, RefSame DEF BInv

LEMMA AcquireGotBInv ==
    ASSUME BInv, NEW p \in Procs, AcquireGot(p)
    PROVE  BInv'
<1>1. PICK b \in Bufs : /\ b = buf[p] /\ pc[p] = "lock" /\ owner[b] = None
                        /\ owner' = [owner EXCEPT ![b] = p]
                        /\ pc' = [pc EXCEPT ![p] = IF valid[b] THEN "have" ELSE "rw"]
  BY HasBuf DEF AcquireGot
<1>2. UNCHANGED <<blockno, valid, dirty, refcnt, data, lru, idequeue, active, disk, buf>>
  BY DEF AcquireGot, bufVars, ideVars
<1>3. /\ \A c \in Bufs : owner'[c] = IF c = b THEN p ELSE owner[c]
      /\ \A q \in Procs : pc'[q] = IF q = p THEN IF valid[b] THEN "have" ELSE "rw"
                                   ELSE pc[q]
  BY <1>1 DEF BInv, TypeOK
<1>4. TypeOK' /\ OneCopy' /\ DataInv'
  BY <1>1, <1>2 DEF BInv, TypeOK, PCs, OneCopy, DataInv
<1>5. OwnInv'
  <2>1. \A q \in Procs : pc[q] \in Holding => buf[q] \in Bufs /\ owner[buf[q]] = q
    BY HasBuf DEF BInv, OwnInv, Holding
  <2> QED BY <1>1, <1>2, <1>3, <2>1, NoneAssumption DEF BInv, OwnInv, Holding
<1>6. PcInv'
  BY <1>1, <1>2, <1>3 DEF BInv, PcInv, Queued
<1>7. QueueServed'
  <2>1. \A q \in Procs : pc[q] = "iowait" => /\ pc'[q] = "iowait"
                                            /\ buf[q] \in Bufs \ {b}
    BY <1>1, <1>3, HasBuf, NoneAssumption DEF BInv, OwnInv, Holding
  <2> QED BY <1>2, <1>3, <2>1, QueueSame
<1> QED BY <1>2, <1>4, <1>5, <1>6, <1>7, RefSame DEF BInv

LEMMA ReleaseBInv ==
    ASSUME BInv, NEW p \in Procs, Release(p)
    PROVE  BInv'
<1>1. PICK b \in Bufs : /\ b = buf[p] /\ pc[p] = "have" /\ owner[b] = p
                        /\ owner' = [owner EXCEPT ![b] = None]
                        /\ pc' = [wakeup(pc, "lockwait", "lock", b) EXCEPT ![p] = "put"]
  BY HasBuf DEF Release, BInv, OwnInv, Holding
<1>2. UNCHANGED <<blockno, valid, dirty, refcnt, data, lru, idequeue, active, disk, buf>>
  BY DEF Release, bufVars, ideVars
<1>3. /\ \A c \in Bufs : owner'[c] = IF c = b THEN None ELSE owner[c]
      /\ \A q \in Procs : \/ q = p /\ pc'[q] = "put"
                          \/ q /= p /\ pc'[q] = pc[q]
                          \/ q /= p /\ pc[q] = "lockwait" /\ pc'[q] = "lock"
  BY <1>1 DEF BInv, TypeOK, wakeup
<1>4. TypeOK' /\ OneCopy' /\ DataInv'
  BY <1>1, <1>2 DEF BInv, TypeOK, PCs, OneCopy, DataInv, wakeup
<1>5. OwnInv'
  <2>1. \A q \in Procs : pc[q] \in Holding => buf[q] \in Bufs /\ owner[buf[q]] = q
    BY HasBuf DEF BInv, OwnInv, Holding
  <2> QED BY <1>1, <1>2, <1>3, <2>1, NoneAssumption DEF BInv, OwnInv, Holding
<1>6. PcInv'
  BY <1>1, <1>2, <1>3 DEF BInv, PcInv, Queued
<1>7. QueueServed'
  <2>1. \A q \in Procs : pc[q] = "iowait" => /\ pc'[q] = "iowait"
                                            /\ buf[q] \in Bufs \ {b}
    BY <1>1, <1>3, HasBuf, NoneAssumption DEF BInv, OwnInv, Holding
  <2> QED BY <1>2, <1>3, <2>1, QueueSame
<1> QED BY <1>2, <1>4, <1>5, <1>6, <1>7, RefSame DEF BInv

\* A list with one buffer moved to the front still has all of them.
LEMMA MoveKeepsAll ==
    ASSUME TypeOK, NEW b \in Bufs
    PROVE  /\ MoveToFront(b) \in [1..NBUF -> Bufs]
           /\ \A c \in Bufs : \E i \in 1..NBUF : MoveToFront(b)[i] = c
<1> DEFINE at == CHOOSE i \in 1..NBUF : lru[i] = b
<1>1. at \in 1..NBUF /\ lru[at] = b
  BY DEF TypeOK
<1>2. MoveToFront(b) = [i \in 1..NBUF |-> IF i = 1 THEN b
                                          ELSE IF i <= at THEN lru[i - 1] ELSE lru[i]]
  BY DEF MoveToFront
<1> HIDE DEF at
<1>3. \A i \in 2..NBUF : i - 1 \in 1..NBUF
  BY BufAssumption
<1>4. MoveToFront(b) \in [1..NBUF -> Bufs]
  BY <1>2, <1>3, BufAssumption DEF TypeOK
<1>5. ASSUME NEW c \in Bufs PROVE \E i \in 1..NBUF : MoveToFront(b)[i] = c
  <2>1. CASE c = b
    <3>1. 1 \in 1..NBUF
      BY BufAssumption
    <3> QED BY <1>2, <2>1, <3>1
  <2>2. CASE c /= b
    <3>1. PICK i \in 1..NBUF : lru[i] = c
      BY DEF TypeOK
    <3>2. i /= at
      BY <1>1, <2>2, <3>1
    <3>3. CASE i < at
      <4>1. i + 1 \in 1..NBUF /\ i + 1 /= 1 /\ i + 1 <= at /\ (i + 1) - 1 = i
        BY <1>1, <3>3, BufAssumption
      <4>2. MoveToFront(b)[i + 1] = c
        BY <1>2, <3>1, <4>1
      <4> QED BY <4>1, <4>2
    <3>4. CASE i > at
      <4>1. i /= 1 /\ ~(i <= at)
        BY <1>1, <3>4
      <4> QED BY <1>2, <3>1, <4>1
    <3> QED BY <1>1, <3>2, <3>3, <3>4, BufAssumption
  <2> QED BY <2>1, <2>2
<1> QED BY <1>4, <1>5

LEMMA PutBInv ==
    ASSUME BInv, NEW p \in Procs, Put(p)
    PROVE  BInv'
<1>1. PICK b \in Bufs : /\ b = buf[p] /\ pc[p] = "put"
                        /\ refcnt' = [refcnt EXCEPT ![b] = @ - 1]
                        /\ lru' = IF refcnt[b] = 1 THEN MoveToFront(b) ELSE lru
                        /\ pc' = [pc EXCEPT ![p] = "out"]
                        /\ buf' = [buf EXCEPT ![p] = None]
  BY HasBuf DEF Put
<1>2. UNCHANGED <<blockno, valid, dirty, data, owner, idequeue, active, disk>>
  BY DEF Put, ideVars
<1>3. \A q \in Procs : /\ pc'[q] = IF q = p THEN "out" ELSE pc[q]
                       /\ buf'[q] = IF q = p THEN None ELSE buf[q]
  BY <1>1 DEF BInv, TypeOK
<1>4. RefInv' /\ refcnt' \in [Bufs -> 0..Cardinality(Procs)]
  <2>1. Users(b)' = Users(b) \ {p} /\ p \in Users(b)
    BY <1>1, <1>3, NoneAssumption DEF Users
  <2>2. \A c \in Bufs \ {b} : Users(c)' = Users(c)
    BY <1>1, <1>3, NoneAssumption DEF Users
  <2>3. Cardinality(Users(b)') = Cardinality(Users(b)) - 1
    BY <2>1, UsersFinite, FS_RemoveElement
  <2>4. Cardinality(Users(b)') \in 0..Cardinality(Procs)
    BY UsersFinite, ProcsAssumption, FS_Subset, FS_CardinalityType DEF Users
  <2>5. refcnt'[b] = Cardinality(Users(b)') /\ \A c \in Bufs \ {b} : refcnt'[c] = refcnt[c]
    BY <1>1, <2>3 DEF BInv, TypeOK, RefInv
  <2> QED BY <1>1, <2>2, <2>4, <2>5 DEF BInv, TypeOK, RefInv
<1>5. TypeOK'
  <2>1. lru' \in [1..NBUF -> Bufs] /\ \A c \in Bufs : \E i \in 1..NBUF : lru'[i] = c
    BY <1>1, MoveKeepsAll DEF BInv, TypeOK
  <2> QED BY <1>1, <1>2, <1>4, <2>1 DEF BInv, TypeOK, PCs
<1>6. OneCopy' /\ DataInv'
  BY <1>2 DEF BInv, OneCopy, DataInv
<1>7. OwnInv'
  BY <1>1, <1>2, <1>3 DEF BInv, OwnInv, Holding
<1>8. PcInv'
  BY <1>2, <1>3 DEF BInv, PcInv, Queued
<1>9. QueueServed'
  BY <1>1, <1>2, <1>3 DEF BInv, QueueServed, idestart
<1> QED BY <1>4, <1>5, <1>6, <1>7, <1>8, <1>9 DEF BInv

-----------------------------------------------------------------------------
(* Stores, and the disk. *)

\* The head of the queue is locked by somebody who waits for the disk.
LEMMA QueueHead ==
    ASSUME BInv, idequeue /= <<>>
    PROVE  /\ Head(idequeue) \in Bufs /\ Head(idequeue) = idequeue[1]
           /\ Len(idequeue) \in Nat \ {0}
           /\ active = idestart(Head(idequeue)) /\ active /= None
           /\ \E p \in Procs : /\ buf[p] = Head(idequeue) /\ owner[buf[p]] = p
                               /\ pc[p] = "iowait"
<1>1. /\ Head(idequeue) \in Bufs /\ Head(idequeue) = idequeue[1]
      /\ Len(idequeue) \in Nat \ {0} /\ 1 \in 1..Len(idequeue)
  BY DEF BInv, TypeOK
<1> QED BY <1>1 DEF BInv, QueueServed

LEMMA StoreBInv ==
    ASSUME BInv, NEW p \in Procs, Bwrite(p) \/ Pin(p)
    PROVE  BInv'
<1>1. PICK b \in Bufs : b = buf[p] /\ pc[p] = "have" /\ owner[b] = p /\ valid[b]
                        /\ blockno[b] \in Blocks /\ Store(b)
  BY HasBuf DEF Bwrite, Pin, BInv, OwnInv, Holding, PcInv
<1>2. /\ UNCHANGED <<blockno, valid, refcnt, owner, lru, idequeue, buf>>
      /\ \A q \in Procs : /\ q /= p => pc'[q] = pc[q]
                          /\ q = p => pc'[q] \in {"rw", "have"}
      /\ pc' \in [Procs -> PCs]
  BY <1>1 DEF Bwrite, Pin, BInv, TypeOK, PCs
<1>3. \A c \in Bufs : blockno[c] = blockno[b] => c = b
  BY <1>1, NoneAssumption DEF BInv, OneCopy
<1>4. /\ \A c \in Bufs : /\ data'[c] = IF c = b THEN "new" ELSE data[c]
                         /\ dirty'[c] = IF c = b THEN TRUE ELSE dirty[c]
      /\ \A k \in Blocks : disk'[k] = IF k = blockno[b] THEN "old" ELSE disk[k]
      /\ data' \in [Bufs -> Contents] /\ dirty' \in [Bufs -> BOOLEAN]
      /\ disk' \in [Blocks -> Contents]
  BY <1>1, <1>3 DEF Store, BInv, TypeOK, Contents
<1>5. active' = active /\ (idequeue /= <<>> => Head(idequeue) /= b)
  <2>1. CASE idequeue = <<>>
    BY <1>1, <2>1 DEF Store, BInv, QueueServed
  <2>2. CASE idequeue /= <<>>
    <3>1. Head(idequeue) /= b /\ Head(idequeue) \in Bufs
      BY <1>1, <2>2, QueueHead
    <3>2. active.blockno = blockno[Head(idequeue)]
      BY <2>2, QueueHead DEF idestart
    <3> QED BY <1>1, <1>3, <3>1, <3>2 DEF Store
  <2> QED BY <2>1, <2>2
<1>6. TypeOK'
  BY <1>2, <1>4, <1>5 DEF BInv, TypeOK
<1>7. OneCopy' /\ OwnInv'
  BY <1>1, <1>2 DEF BInv, OneCopy, OwnInv, Holding
<1>8. QueueServed'
  <2>1. idequeue /= <<>> => idestart(Head(idequeue))' = idestart(Head(idequeue))
    BY <1>2, <1>4, <1>5, QueueHead DEF idestart
  <2>2. \A i \in 1..Len(idequeue) :
          \E q \in Procs : buf[q] = idequeue[i] /\ owner[buf[q]] = q /\ pc'[q] = "iowait"
    BY <1>1, <1>2 DEF BInv, QueueServed
  <2> QED BY <1>2, <1>5, <2>1, <2>2 DEF BInv, QueueServed
<1>9. PcInv'
  <2> SUFFICES ASSUME NEW q \in Procs PROVE PcInv!(q)'
    BY DEF PcInv
  <2>1. CASE q = p
    BY <1>1, <1>2, <2>1, NoneAssumption
  <2>2. CASE q /= p
    <3>1. pc[q] = "iowake" => buf[q] \in Bufs /\ buf[q] /= b
      BY <1>1, <2>2, HasBuf DEF BInv, OwnInv, Holding
    <3> QED BY <1>2, <1>4, <2>2, <3>1, ZenonT(120) DEF BInv, PcInv, Queued
  <2> QED BY <2>1, <2>2
<1>10. DataInv'
  <2>1. \A c \in Bufs : valid[c] => data'[c] = "new"
    BY <1>4 DEF BInv, DataInv
  <2>2. \A c \in Bufs : dirty'[c] => valid[c] /\ blockno[c] \in Blocks
    BY <1>1, <1>4 DEF BInv, DataInv
  <2>3. \A k \in Blocks : (\A c \in Bufs : blockno[c] = k => ~dirty'[c]) => disk'[k] = "new"
    BY <1>1, <1>4, ZenonT(120) DEF BInv, DataInv
  <2> QED BY <1>2, <2>1, <2>2, <2>3 DEF DataInv
<1> QED BY <1>2, <1>6, <1>7, <1>8, <1>9, <1>10, RefSame DEF BInv

LEMMA IderwBInv ==
    ASSUME BInv, NEW p \in Procs, Iderw(p)
    PROVE  BInv'
<1>1. PICK b \in Bufs : /\ b = buf[p] /\ pc[p] = "rw" /\ owner[b] = p
                        /\ blockno[b] \in Blocks
                        /\ idequeue' = Append(idequeue, b)
                        /\ active' = IF idequeue = <<>> THEN idestart(b) ELSE active
                        /\ pc' = [pc EXCEPT ![p] = "iowait"]
  BY HasBuf DEF Iderw, BInv, OwnInv, Holding
<1>2. UNCHANGED <<blockno, valid, dirty, refcnt, data, owner, lru, disk, buf>>
  BY DEF Iderw, bufVars
<1>3. \A q \in Procs : pc'[q] = IF q = p THEN "iowait" ELSE pc[q]
  BY <1>1 DEF BInv, TypeOK
<1>4. /\ idequeue' \in Seq(Bufs) /\ Len(idequeue') = Len(idequeue) + 1
      /\ Len(idequeue) \in Nat
      /\ \A i \in 1..Len(idequeue') :
            idequeue'[i] = IF i = Len(idequeue) + 1 THEN b ELSE idequeue[i]
  BY <1>1 DEF BInv, TypeOK
<1>5. \A i \in 1..Len(idequeue) : idequeue[i] /= b
  BY <1>1 DEF BInv, QueueServed
<1>6. \A i, j \in 1..Len(idequeue') : idequeue'[i] = idequeue'[j] => i = j
  BY <1>4, <1>5 DEF BInv, QueueServed
<1>7. idestart(b) \in Requests
  BY <1>1 DEF idestart, Requests, BInv, TypeOK
<1>8. TypeOK'
  <2>1. Len(idequeue') <= NBUF
    BY <1>4, <1>6, QueueShort
  <2>2. active' \in Requests \cup {None}
    BY <1>1, <1>7 DEF BInv, TypeOK
  <2> QED BY <1>1, <1>2, <1>4, <2>1, <2>2 DEF BInv, TypeOK, PCs
<1>9. OneCopy' /\ OwnInv' /\ DataInv'
  BY <1>1, <1>2, <1>3 DEF BInv, OneCopy, OwnInv, Holding, DataInv
<1>10. PcInv'
  <2>1. \A c \in Bufs : Queued(c)' <=> Queued(c) \/ c = b
    BY <1>4 DEF Queued
  <2> QED BY <1>1, <1>2, <1>3, <2>1, HasBuf DEF BInv, PcInv
<1>11. QueueServed'
  <2>1. idequeue' /= <<>> /\ Head(idequeue') = IF idequeue = <<>> THEN b ELSE Head(idequeue)
    <3>1. idequeue' /= <<>> /\ Head(idequeue') = idequeue'[1]
      BY <1>4
    <3>2. CASE idequeue = <<>>
      BY <1>4, <3>1, <3>2
    <3>3. CASE idequeue /= <<>>
      BY <1>4, <3>1, <3>3, QueueHead
    <3> QED BY <3>2, <3>3
  <2>2. active' = idestart(Head(idequeue'))
    BY <1>1, <2>1, QueueHead
  <2>3. idestart(Head(idequeue))' = idestart(Head(idequeue'))
    BY <1>2 DEF idestart
  <2>4. active' /= None
    BY <1>1, <1>7, RequestsAssumption, QueueHead
  <2>5. \A i \in 1..Len(idequeue') :
          \E q \in Procs : buf[q] = idequeue'[i] /\ owner[buf[q]] = q /\ pc'[q] = "iowait"
    <3> SUFFICES ASSUME NEW i \in 1..Len(idequeue')
                 PROVE  \E q \in Procs : /\ buf[q] = idequeue'[i] /\ owner[buf[q]] = q
                                         /\ pc'[q] = "iowait"
      OBVIOUS
    <3>1. CASE i = Len(idequeue) + 1
      BY <1>1, <1>3, <1>4, <3>1
    <3>2. CASE i /= Len(idequeue) + 1
      <4>1. i \in 1..Len(idequeue) /\ idequeue'[i] = idequeue[i]
        BY <1>4, <3>2
      <4>2. PICK q \in Procs : buf[q] = idequeue[i] /\ owner[buf[q]] = q /\ pc[q] = "iowait"
        BY <4>1 DEF BInv, QueueServed
      <4> QED BY <1>1, <1>3, <4>1, <4>2
    <3> QED BY <3>1, <3>2
  <2> QED BY <1>2, <1>6, <2>1, <2>2, <2>3, <2>4, <2>5 DEF QueueServed
<1> QED BY <1>2, <1>8, <1>9, <1>10, <1>11, RefSame DEF BInv

\* The interrupt handler, with the request it takes for the finished one.
LEMMA IdeintrBInv ==
    ASSUME BInv, Ideintr
    PROVE  BInv'
<1>1. idequeue /= <<>>
  BY DEF Ideintr, BInv, QueueServed
<1>2. PICK b \in Bufs : b = Head(idequeue) /\ b = idequeue[1]
  BY <1>1, QueueHead
<1>3. PICK o \in Procs : buf[o] = b /\ owner[b] = o /\ pc[o] = "iowait"
  BY <1>1, <1>2, QueueHead
<1>4. blockno[b] \in Blocks
  BY <1>3, HasBuf
<1>5. active.write = dirty[b] /\ active.blockno = blockno[b] /\ active.data = data[b]
  BY <1>1, <1>2, QueueHead DEF idestart
<1>6. /\ disk' = IF dirty[b] THEN [disk EXCEPT ![blockno[b]] = data[b]] ELSE disk
      /\ data' = [data EXCEPT ![b] = IF dirty[b] THEN data[b] ELSE disk[blockno[b]]]
      /\ valid' = [valid EXCEPT ![b] = TRUE]
      /\ dirty' = [dirty EXCEPT ![b] = FALSE]
      /\ pc' = wakeup(pc, "iowait", "iowake", b)
      /\ idequeue' = Tail(idequeue)
      /\ active' = IF Tail(idequeue) = <<>> THEN None ELSE idestart(Head(Tail(idequeue)))
      /\ UNCHANGED <<blockno, refcnt, owner, lru, buf>>
  BY <1>2, <1>5 DEF Ideintr, BInv, TypeOK
<1>7. \A c \in Bufs : blockno[c] = blockno[b] => c = b
  BY <1>4, NoneAssumption DEF BInv, OneCopy
<1>8. data'[b] = "new"
  <2>1. dirty[b] => data[b] = "new"
    BY DEF BInv, DataInv
  <2>2. ~dirty[b] => disk[blockno[b]] = "new"
    BY <1>4, <1>7 DEF BInv, DataInv
  <2> QED BY <1>6, <2>1, <2>2 DEF BInv, TypeOK
<1>9. /\ \A c \in Bufs : /\ c /= b => data'[c] = data[c] /\ dirty'[c] = dirty[c]
                                      /\ valid'[c] = valid[c]
                         /\ c = b => ~dirty'[c] /\ valid'[c]
      /\ \A k \in Blocks : disk'[k] = IF k = blockno[b] /\ dirty[b] THEN "new" ELSE disk[k]
  <2>1. dirty[b] => data[b] = "new"
    BY DEF BInv, DataInv
  <2> QED BY <1>4, <1>6, <2>1 DEF BInv, TypeOK
<1>10. \A q \in Procs : pc'[q] = IF q = o THEN "iowake" ELSE pc[q]
  BY <1>3, <1>6 DEF wakeup, BInv, OwnInv, Holding
<1>11. /\ idequeue' \in Seq(Bufs) /\ Len(idequeue') = Len(idequeue) - 1
       /\ Len(idequeue) \in Nat \ {0}
       /\ \A i \in 1..Len(idequeue') : idequeue'[i] = idequeue[i + 1] /\ i + 1 \in 1..Len(idequeue)
  BY <1>1, <1>6, SMTT(60) DEF BInv, TypeOK
<1>12. \A i \in 1..Len(idequeue') : idequeue'[i] \in Bufs /\ idequeue'[i] /= b
  <2>1. 1 \in 1..Len(idequeue)
    BY <1>11
  <2>2. \A i \in 1..Len(idequeue') : idequeue[i + 1] /= idequeue[1]
    BY <1>11, <2>1 DEF BInv, QueueServed
  <2> QED BY <1>2, <1>11, <2>2
<1>13. \A i \in 1..Len(idequeue') :
         \E q \in Procs : buf[q] = idequeue'[i] /\ owner[buf[q]] = q /\ pc'[q] = "iowait"
  <2> SUFFICES ASSUME NEW i \in 1..Len(idequeue')
               PROVE  \E q \in Procs : /\ buf[q] = idequeue'[i] /\ owner[buf[q]] = q
                                       /\ pc'[q] = "iowait"
    OBVIOUS
  <2>1. PICK q \in Procs : buf[q] = idequeue[i + 1] /\ owner[buf[q]] = q /\ pc[q] = "iowait"
    BY <1>11 DEF BInv, QueueServed
  <2>2. buf[q] = idequeue'[i] /\ q /= o
    BY <1>3, <1>11, <1>12, <2>1
  <2> QED BY <1>10, <2>1, <2>2
<1>14. idequeue' /= <<>> =>
         LET c == Head(idequeue') IN
            /\ c = idequeue'[1] /\ 1 \in 1..Len(idequeue')
            /\ c \in Bufs /\ c /= b /\ blockno[c] \in Blocks
            /\ idestart(c) \in Requests
            /\ active' = idestart(c) /\ active' = idestart(Head(idequeue))'
  <2> SUFFICES ASSUME idequeue' /= <<>>
               PROVE  LET c == Head(idequeue') IN
                        /\ c = idequeue'[1] /\ 1 \in 1..Len(idequeue')
                        /\ c \in Bufs /\ c /= b /\ blockno[c] \in Blocks
                        /\ idestart(c) \in Requests
                        /\ active' = idestart(c) /\ active' = idestart(Head(idequeue))'
    OBVIOUS
  <2>1. Head(idequeue') = idequeue'[1] /\ 1 \in 1..Len(idequeue')
    BY <1>11
  <2>2. PICK c \in Bufs : c = Head(idequeue') /\ c /= b
    BY <1>12, <2>1
  <2>3. blockno[c] \in Blocks
    <3>1. \E q \in Procs : buf[q] = c
      BY <1>13, <2>1, <2>2
    <3> QED BY <3>1, NoneAssumption DEF BInv, PcInv
  <2>4. idestart(c) \in Requests
    BY <2>3 DEF idestart, Requests, BInv, TypeOK
  <2>5. active' = idestart(c) /\ active' = idestart(Head(idequeue))'
    BY <1>6, <1>9, <2>2, ZenonT(120) DEF idestart
  <2> QED BY <2>1, <2>2, <2>3, <2>4, <2>5
<1>15. TypeOK'
  <2>1. disk[blockno[b]] \in Contents
    BY <1>4 DEF BInv, TypeOK
  <2>2. /\ disk' \in [Blocks -> Contents] /\ data' \in [Bufs -> Contents]
        /\ valid' \in [Bufs -> BOOLEAN] /\ dirty' \in [Bufs -> BOOLEAN]
    BY <1>4, <1>6, <2>1 DEF BInv, TypeOK
  <2>3. pc' \in [Procs -> PCs]
    BY <1>6 DEF BInv, TypeOK, wakeup, PCs
  <2>4. active' \in Requests \cup {None}
    BY <1>6, <1>14
  <2>5. Len(idequeue') <= NBUF
    BY <1>11, BufAssumption DEF BInv, TypeOK
  <2> QED BY <1>6, <1>11, <2>2, <2>3, <2>4, <2>5 DEF BInv, TypeOK
<1>16. OneCopy' /\ OwnInv'
  BY <1>3, <1>6, <1>10 DEF BInv, OneCopy, OwnInv, Holding
<1>17. QueueServed'
  <2>1. active' = None <=> idequeue' = <<>>
    BY <1>6, <1>14, RequestsAssumption
  <2>2. \A i, j \in 1..Len(idequeue') : idequeue'[i] = idequeue'[j] => i = j
    BY <1>11, SMTT(60) DEF BInv, QueueServed
  <2> QED BY <1>6, <1>13, <1>14, <2>1, <2>2, SMTT(60) DEF QueueServed
<1>18. PcInv'
  <2> SUFFICES ASSUME NEW q \in Procs PROVE PcInv!(q)'
    BY DEF PcInv
  <2>1. CASE q = o
    BY <1>3, <1>4, <1>6, <1>9, <1>10, <2>1, NoneAssumption
  <2>2. CASE q /= o
    <3>1. pc[q] = "iowait" => Queued(buf[q])'
      <4> SUFFICES ASSUME pc[q] = "iowait" PROVE Queued(buf[q])'
        OBVIOUS
      <4>1. buf[q] /= b
        BY <1>3, <2>2 DEF BInv, OwnInv, Holding
      <4>2. PICK i \in 1..Len(idequeue) : idequeue[i] = buf[q]
        BY DEF BInv, PcInv, Queued
      <4>3. i /= 1
        BY <1>2, <4>1, <4>2
      <4>4. i - 1 \in 1..Len(idequeue') /\ (i - 1) + 1 = i
        BY <1>11, <4>2, <4>3
      <4>5. idequeue'[i - 1] = buf[q]
        BY <1>11, <4>2, <4>4
      <4> QED BY <1>6, <4>4, <4>5 DEF Queued
    <3>2. pc[q] \in {"have", "iowake"} => buf[q] \in Bufs /\ buf[q] /= b
      BY <1>3, <2>2, HasBuf DEF BInv, OwnInv, Holding
    <3> QED BY <1>6, <1>9, <1>10, <2>2, <3>1, <3>2 DEF BInv, PcInv
  <2> QED BY <2>1, <2>2
<1>19. DataInv'
  <2>1. \A c \in Bufs : valid'[c] => data'[c] = "new"
    BY <1>8, <1>9 DEF BInv, DataInv
  <2>2. \A c \in Bufs : dirty'[c] => valid'[c] /\ blockno[c] \in Blocks
    BY <1>9 DEF BInv, DataInv
  <2>3. \A k \in Blocks : (\A c \in Bufs : blockno[c] = k => ~dirty'[c]) => disk'[k] = "new"
    BY <1>9 DEF BInv, DataInv
  <2> QED BY <1>6, <2>1, <2>2, <2>3 DEF DataInv
<1> QED BY <1>6, <1>15, <1>16, <1>17, <1>18, <1>19, RefSame DEF BInv

LEMMA NextBInv == BInv /\ [Next]_vars => BInv'
<1> SUFFICES ASSUME BInv, [Next]_vars PROVE BInv'
  OBVIOUS
<1>1. ASSUME NEW p \in Procs, AcquireSleep(p) \/ AcquireGot(p) \/ Release(p) \/ Put(p)
      PROVE  BInv'
  BY <1>1, MoveBInv, AcquireGotBInv, ReleaseBInv, PutBInv
<1>2. ASSUME NEW p \in Procs, Bwrite(p) \/ Pin(p) \/ Iderw(p) \/ IoCheck(p)
      PROVE  BInv'
  BY <1>2, MoveBInv, StoreBInv, IderwBInv
<1>3. ASSUME NEW p \in Procs, NEW k \in Blocks, BgetHit(p, k) \/ BgetMiss(p, k)
      PROVE  BInv'
  BY <1>3, BgetHitBInv, BgetPanicBInv, BgetRecycleBInv
<1>4. CASE UNCHANGED vars
  <2> USE <1>4 DEF vars, bufVars, ideVars
  <2>1. TypeOK' /\ OneCopy' /\ OwnInv' /\ PcInv' /\ DataInv'
    BY DEF BInv, TypeOK, OneCopy, OwnInv, PcInv, Queued, DataInv
  <2>2. QueueServed'
    BY QueueSame
  <2> QED BY <2>1, <2>2, RefSame DEF BInv
<1> QED BY <1>1, <1>2, <1>3, <1>4, IdeintrBInv DEF Next, Halted

LEMMA SpecBInv == Spec => []BInv
BY InitBInv, NextBInv, PTL DEF Spec

-----------------------------------------------------------------------------
(* Theorems. *)

\* For any number of processes, buffers and blocks: a block is in the cache at
\* most once, a buffer is counted by exactly those who use it, and its
\* sleep-lock belongs to the process that is between bget and brelse, whatever
\* bget recycles between the halves of other calls.
THEOREM CacheCorrect == Spec => []CacheOK
<1>1. BInv => CacheOK
  <2> SUFFICES ASSUME BInv PROVE CacheOK
    OBVIOUS
  <2>1. ASSUME NEW b \in Bufs PROVE BufferKept!(b)
    <3>1. refcnt[b] = Cardinality({p \in Procs : buf[p] = b})
      BY DEF BInv, RefInv, Users
    <3>2. owner[b] /= None <=> \E p \in Procs :
            buf[p] = b /\ owner[b] = p /\ pc[p] \in {"rw", "iowait", "iowake", "have"}
      BY NoneAssumption DEF BInv, OwnInv, Holding
    <3> QED BY <3>1, <3>2
  <2> QED BY <2>1 DEF BInv, CacheOK, BufferKept
<1> QED BY <1>1, SpecBInv, PTL

\* The drive always works on the head of idequeue, and whatever is queued is
\* locked by a process that sleeps for it: the interrupt handler completes the
\* request that the drive has finished.
THEOREM QueueCorrect == Spec => []QueueServed
<1>1. BInv => QueueServed
  BY DEF BInv
<1> QED BY <1>1, SpecBInv, PTL

\* Whoever holds a locked buffer sees what was last stored in its block, through
\* any sequence of pins, writes, recycling and reads of the block.
THEOREM ReadsCorrect == Spec => []ReadsLatest
<1>1. BInv => ReadsLatest
  BY HasBuf DEF BInv, PcInv, DataInv, ReadsLatest
<1> QED BY <1>1, SpecBInv, PTL

=============================================================================
