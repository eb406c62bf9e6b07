----------------------------- MODULE WorkingSet -----------------------------
(***************************************************************************)
(* The encrypted memory of a p6 process (p6/vm.c, proc.c, trap.c, exec.c): *)
(* pages are kept encrypted and not present; the first access faults and   *)
(* decrypts; at most CLOCKSIZE pages stay decrypted, and a clock with      *)
(* reference bits chooses the one to encrypt again.                        *)
(*                                                                         *)
(* One process is enough: page table and clock are its own, and fork()     *)
(* copies both.  Faults and system calls of one process do not overlap.    *)
(* Sizes count units of which a page holds PGSIZE; pages are numbered.     *)
(***************************************************************************)
EXTENDS Integers, FiniteSets

CONSTANTS
    CLOCKSIZE,  \* entries of the clock
    PGSIZE,     \* units in a page
    TextPages,  \* pages of the program; a guard and a stack page follow
    MaxPages,   \* BOUND: the size at which allocuvm refuses (KERNBASE)
    Sbrks,      \* the arguments of sbrk
    Spans       \* whether a buffer of dump_rawphymem may span two pages

ASSUME SizesAssumption ==
    /\ CLOCKSIZE \in Nat \ {0} /\ PGSIZE \in Nat \ {0} /\ TextPages \in Nat \ {0}
    /\ MaxPages \in Nat /\ MaxPages >= TextPages + 2
ASSUME SbrksAssumption == Sbrks \subseteq Int \ {0} /\ Spans \subseteq BOOLEAN

Pages == 0..(MaxPages - 1)
Guard == TextPages
Empty == -1     \* an unused entry of the clock
Index == 0..(CLOCKSIZE - 1)

VARIABLES
    sz,
    pt,         \* page table: PTE_P, PTE_E, PTE_U, PTE_A, and what the page holds
    clockqueue, clockhand,
    stuck,      \* an instruction that accesses the guard page is retried
    status,     \* "run", "killed" or (the whole kernel) "panic"
    odd         \* history: an sbrk since exec that was not of whole pages up

vars == <<sz, pt, clockqueue, clockhand, stuck, status, odd>>

\* "neg" is the complement of what the program stored, "mixed" neither.
Contents == {"plain", "neg", "mixed"}
Entry == [P : BOOLEAN, E : BOOLEAN, U : BOOLEAN, A : BOOLEAN, data : Contents]

TypeOK ==
    /\ sz \in 0..(MaxPages * PGSIZE)
    /\ pt \in [Pages -> Entry]
    /\ clockqueue \in [Index -> Pages \cup {Empty}]
    /\ clockhand \in Index \cup {-1}
    /\ stuck \in BOOLEAN
    /\ status \in {"run", "killed", "panic"}
    /\ odd \in BOOLEAN

-----------------------------------------------------------------------------
(* Page tables. *)

PageUp(x)   == (x + PGSIZE - 1) \div PGSIZE
PageDown(x) == x \div PGSIZE

Free == [P |-> FALSE, E |-> FALSE, U |-> FALSE, A |-> FALSE, data |-> "plain"]
Fresh == [Free EXCEPT !.P = TRUE, !.U = TRUE]       \* a zeroed page

Mapped(t, pg) == t[pg].P \/ t[pg].E

\* uva2ka() finds the page.
Accessible(t, pg) == pg \in Pages /\ Mapped(t, pg) /\ t[pg].U

Flip(d) == CASE d = "plain" -> "neg" [] d = "neg" -> "plain" [] OTHER -> d

\* mencrypt(first, len) is all or nothing, and skips encrypted pages.
MayEncrypt(t, first, len) == \A i \in first..(first + len - 1) : Accessible(t, i)

\* Slip (an operator named Mut... is a slip in the definition that follows it,
\* and is used by no specification): encrypt what is encrypted already.
MutEncrypt(t, first, len) ==
    [pg \in Pages |->
        IF pg \in first..(first + len - 1)
        THEN [t[pg] EXCEPT !.P = FALSE, !.E = TRUE, !.A = FALSE, !.data = Flip(@)]
        ELSE t[pg]]

mencrypt(t, first, len) ==
    [pg \in Pages |->
        IF pg \in first..(first + len - 1) /\ ~t[pg].E
        THEN [t[pg] EXCEPT !.P = FALSE, !.E = TRUE, !.A = FALSE, !.data = Flip(@)]
        ELSE t[pg]]

\* The part of mdecrypt before wsetinsert.  A fault drops the page's TLB entry,
\* so that the kernel's own accesses set PTE_A.
Decrypt(t, pg) ==
    [t EXCEPT ![pg] = [t[pg] EXCEPT !.P = TRUE, !.E = FALSE, !.A = TRUE, !.data = Flip(@)]]

\* The state exec() leaves: all but the guard page encrypted, an empty clock.
ExecSize == (TextPages + 2) * PGSIZE
ExecTable ==
    [pg \in Pages |->
        IF pg >= TextPages + 2 THEN Free
        ELSE IF pg = Guard THEN [Fresh EXCEPT !.U = FALSE]
        ELSE [Fresh EXCEPT !.P = FALSE, !.E = TRUE, !.data = "neg"]]
EmptyClock == [i \in Index |-> Empty]

Init ==
    /\ sz = ExecSize
    /\ pt = ExecTable
    /\ clockqueue = EmptyClock
    /\ clockhand = -1
    /\ stuck = FALSE
    /\ status = "run"
    /\ odd = FALSE

-----------------------------------------------------------------------------
(* The clock. *)

\* The k-th entry the hand comes to.
At(q, h, k) == q[(h + k) % CLOCKSIZE]

\* wsetinsert stops at an unused entry and at a page without PTE_A; it clears
\* PTE_A of those it passes, so that it stops at the second entry of one page.
Stops(t, q, h, k) ==
    LET e == At(q, h, k) IN
    e = Empty \/ ~t[e].A \/ \E j \in 1..(k - 1) : At(q, h, j) = e

StopAt(t, q, h) ==
    CHOOSE k \in 1..(CLOCKSIZE + 1) :
        Stops(t, q, h, k) /\ \A j \in 1..(k - 1) : ~Stops(t, q, h, j)

Unref(t, q, h, k) ==
    [pg \in Pages |-> IF \E j \in 1..(k - 1) : At(q, h, j) = pg
                      THEN [t[pg] EXCEPT !.A = FALSE] ELSE t[pg]]

\* Slip: a page that cannot be encrypted is replaced all the same.
MutWsetinsertForce(t, q, h, pg) ==
    LET k == StopAt(t, q, h)
        at == (h + k) % CLOCKSIZE
        t1 == Unref(t, q, h, k)
    IN [ok |-> TRUE,
        pt |-> IF q[at] /= Empty /\ Accessible(t1, q[at]) THEN mencrypt(t1, q[at], 1) ELSE t1,
        queue |-> [q EXCEPT ![at] = pg], hand |-> at]

wsetinsert(t, q, h, pg) ==
    LET k  == StopAt(t, q, h)
        at == (h + k) % CLOCKSIZE
        t1 == Unref(t, q, h, k)
        ok == q[at] = Empty \/ Accessible(t1, q[at])
    IN [ok    |-> ok,
        pt    |-> IF ok /\ q[at] /= Empty THEN mencrypt(t1, q[at], 1) ELSE t1,
        queue |-> IF ok THEN [q EXCEPT ![at] = pg] ELSE q,
        hand  |-> at]

\* wsetdelete(pg): found is the last match in the order from the hand; the
\* entries after it, up to the hand, move back by one.
Found(q, h, pg) == {i \in Index : At(q, h, i) = pg}
LastFound(q, h, pg) == CHOOSE i \in Found(q, h, pg) : \A j \in Found(q, h, pg) : j <= i

Shifted(q, h, pg) ==
    LET f == LastFound(q, h, pg)
        offset(i) == (i - h) % CLOCKSIZE
    IN [i \in Index |-> IF i = h % CLOCKSIZE THEN Empty
                        ELSE IF f /= 0 /\ offset(i) >= f THEN q[(i + 1) % CLOCKSIZE]
                        ELSE q[i]]

\* Slip: the hand stays where it is.
MutWsetdelete(q, h, pg) == [queue |-> Shifted(q, h, pg), hand |-> h]

wsetdelete(q, h, pg) ==
    [queue |-> Shifted(q, h, pg), hand |-> IF h = 0 THEN CLOCKSIZE - 1 ELSE h - 1]

-----------------------------------------------------------------------------
(* Accesses and page faults. *)

Runs == status = "run" /\ ~stuck

\* The process uses a page it has: the hardware sets PTE_A (or does not, when
\* the TLB still holds the entry from before wsetinsert cleared the bit).
Touch(pg) ==
    /\ Runs /\ pt[pg].P /\ pt[pg].U
    /\ pt' = [pt EXCEPT ![pg].A = TRUE]
    /\ UNCHANGED <<sz, clockqueue, clockhand, stuck, status, odd>>

\* trap(T_PGFLT) for a page in the table: mdecrypt, and what the trap handler
\* does if that fails.
mdecrypt(pg, otherwise) ==
    LET r == wsetinsert(Decrypt(pt, pg), clockqueue, clockhand, pg) IN
    /\ pt' = r.pt
    /\ clockqueue' = r.queue
    /\ clockhand' = r.hand
    /\ status' = IF r.ok THEN status ELSE otherwise

\* The process accesses an encrypted page.
Fault(pg) ==
    /\ Runs /\ pt[pg].E
    /\ mdecrypt(pg, "killed")
    /\ UNCHANGED <<sz, stuck, odd>>

\* The process accesses the guard page, which is present: the page is
\* "decrypted", enters the clock, and the instruction faults again.
GuardFault ==
    /\ status = "run" /\ pt[Guard].P /\ ~pt[Guard].U
    /\ mdecrypt(Guard, "killed")
    /\ stuck' = (status' = "run")
    /\ UNCHANGED <<sz, odd>>

\* An address that is in no page.
WildAccess ==
    /\ Runs
    /\ status' = "killed"
    /\ UNCHANGED <<sz, pt, clockqueue, clockhand, stuck, odd>>

\* The kernel uses a buffer of the process, below sz (argptr): a fault that
\* mdecrypt cannot handle is "our mistake".
KernelAccess(pg) ==
    /\ Runs /\ pg * PGSIZE < sz /\ ~pt[pg].P
    /\ IF Mapped(pt, pg) THEN mdecrypt(pg, "panic")
       ELSE status' = "panic" /\ UNCHANGED <<pt, clockqueue, clockhand>>
    /\ UNCHANGED <<sz, stuck, odd>>

\* dump_rawphymem: the kernel accesses the first page of the buffer, then
\* copyout() writes through physical addresses, encrypted or not.
DumpRaw(pg, spans) ==
    /\ Runs /\ (pg + 1) * PGSIZE + (IF spans THEN 1 ELSE 0) <= sz
    /\ pt[pg].P /\ pt[pg].U
    /\ pt' = [q \in Pages |->
                IF q = pg THEN [pt[q] EXCEPT !.A = TRUE]
                ELSE IF spans /\ q = pg + 1 /\ Accessible(pt, q) /\ pt[q].E
                     THEN [pt[q] EXCEPT !.data = "mixed"]
                ELSE pt[q]]
    /\ UNCHANGED <<sz, clockqueue, clockhand, stuck, status, odd>>

-----------------------------------------------------------------------------
(* growproc, fork, exec. *)

\* Slip: one page too few.
MutBetween(lo, hi) == {pg \in Pages : PageUp(lo) <= pg /\ pg + 1 < PageUp(hi)}

Between(lo, hi) == {pg \in Pages : PageUp(lo) <= pg /\ pg < PageUp(hi)}

\* allocuvm fails (no memory, or the size limit): what it mapped is freed.
GrowFails(n) ==
    /\ Runs /\ n > 0
    /\ pt' = [pg \in Pages |->
                IF pg \in Between(sz, sz + n) /\ sz + n <= MaxPages * PGSIZE THEN Free
                ELSE pt[pg]]
    /\ UNCHANGED <<sz, clockqueue, clockhand, stuck, status, odd>>

\* allocuvm maps the new pages ("remap" panics); n / PGSIZE pages from the old
\* end are encrypted, and if that fails the size stays.
Grow(n) ==
    /\ Runs /\ n > 0 /\ sz + n <= MaxPages * PGSIZE
    /\ LET new == Between(sz, sz + n)
           t   == [pg \in Pages |-> IF pg \in new THEN Fresh ELSE pt[pg]]
           ok  == MayEncrypt(t, PageDown(sz), n \div PGSIZE)
       IN IF \E pg \in new : Mapped(pt, pg)
          THEN status' = "panic" /\ UNCHANGED <<sz, pt>>
          ELSE /\ pt' = IF ok THEN mencrypt(t, PageDown(sz), n \div PGSIZE) ELSE t
               /\ sz' = IF ok THEN sz + n ELSE sz
               /\ UNCHANGED status
    /\ UNCHANGED <<clockqueue, clockhand, stuck>>
    /\ odd' = (odd \/ n % PGSIZE /= 0)

\* One turn of growproc's loop; s.ok says whether it is still in the loop.
DeleteAt(s, a) ==
    LET pg == PageDown(a) IN
    IF s.ok /\ a >= 0 /\ a % PGSIZE = 0 /\ Found(s.queue, s.hand, pg) /= {}
    THEN [ok |-> TRUE, queue |-> wsetdelete(s.queue, s.hand, pg).queue,
          hand |-> wsetdelete(s.queue, s.hand, pg).hand]
    ELSE [s EXCEPT !.ok = FALSE]

\* growproc's loop: m deletions, downwards from a.
Deleted(s, a, m) ==
    LET del[i \in 0..m] == IF i = 0 THEN s ELSE DeleteAt(del[i - 1], a - (i - 1) * PGSIZE)
    IN del[m]

\* deallocuvm frees the pages; then the clock loses the pages at the new end,
\* one page below it, two pages below it... until one is not in the clock,
\* when growproc returns and the size stays.  (A size below zero wraps around:
\* nothing is freed.)
Shrink(n) ==
    /\ Runs /\ n < 0
    /\ LET end == IF sz + n < 0 THEN sz ELSE sz + n
           r   == Deleted([ok |-> TRUE, queue |-> clockqueue, hand |-> clockhand],
                          end, (-n) \div PGSIZE)
       IN /\ pt' = [pg \in Pages |-> IF pg \in Between(end, sz) THEN Free ELSE pt[pg]]
          /\ clockqueue' = IF end = 0 THEN clockqueue ELSE r.queue
          /\ clockhand' = IF end = 0 THEN clockhand ELSE r.hand
          /\ sz' = IF end /= 0 /\ r.ok THEN end ELSE sz
    /\ UNCHANGED <<stuck, status>>
    /\ odd' = TRUE

\* copyuvm insists that every page below sz is there; the child is a copy.
Fork ==
    /\ Runs
    /\ status' = IF \E pg \in Between(0, sz) : ~Mapped(pt, pg) THEN "panic" ELSE status
    /\ UNCHANGED <<sz, pt, clockqueue, clockhand, stuck, odd>>

Exec ==
    /\ Runs
    /\ sz' = ExecSize
    /\ pt' = ExecTable
    /\ clockqueue' = EmptyClock
    /\ clockhand' = -1
    /\ UNCHANGED <<stuck, status>>
    /\ odd' = FALSE

Over == status /= "run" /\ UNCHANGED vars

Next ==
    \/ \E pg \in Pages : Touch(pg) \/ Fault(pg) \/ KernelAccess(pg)
    \/ \E pg \in Pages, s \in Spans : DumpRaw(pg, s)
    \/ \E n \in Sbrks : Grow(n) \/ GrowFails(n) \/ Shrink(n)
    \/ GuardFault \/ WildAccess \/ Fork \/ Exec \/ Over

Spec == Init /\ [][Next]_vars

\* The faulting instruction is executed again whenever the process runs.
FairSpec == Spec /\ WF_vars(stuck /\ GuardFault)

-----------------------------------------------------------------------------
(* Properties. *)

\* The unused entries of the clock are the ones the hand meets next, so that a
\* page is replaced only when the clock is full and wsetdelete's shift moves
\* pages and never loses one.
ClockShape ==
    \A k \in 1..(CLOCKSIZE - 1) :
        At(clockqueue, clockhand, k + 1) = Empty => At(clockqueue, clockhand, k) = Empty

\* The clock's hand and entries are where wsetinsert and wsetdelete, with all
\* their circular shifts, expect them.
ClockOK == TypeOK /\ ClockShape

\* A page marked encrypted holds the complement of its contents, a page the
\* program can read holds its contents: nothing is encrypted twice, decrypted
\* twice, or copied in between.
ContentMatches ==
    \A pg \in Pages :
        /\ pt[pg].E => pt[pg].data = "neg" /\ ~pt[pg].P
        /\ pt[pg].P /\ pt[pg].U => pt[pg].data = "plain"

\* getpgtable(..., 1): the pages of the working set.
getpgtable == {pg \in Pages : pg <= PageDown(sz) /\ Mapped(pt, pg)
                                /\ \E i \in Index : clockqueue[i] = pg}

\* The next three hold while sbrk only adds whole pages; growproc breaks each of
\* them for a process that shrinks, or whose size is off a page boundary.

\* "mencrypt the increased pages": while the process runs, the pages it can
\* read are those in its working set, and no page is there twice; so at most
\* CLOCKSIZE pages are ever decrypted.
ResidentInSet ==
    status = "run" /\ ~odd =>
        /\ \A pg \in Pages : pt[pg].P /\ pt[pg].U <=> pg \in getpgtable \ {Guard}
        /\ \A i, j \in Index :
            clockqueue[i] = clockqueue[j] /\ clockqueue[i] \notin {Empty, Guard} => i = j

\* "remove pages from queue": no entry is left for a page that was freed,
\* whose later replacement would fail and kill the process.
QueueMapped ==
    ~odd => \A i \in Index : clockqueue[i] /= Empty => Mapped(pt, clockqueue[i])

\* "copyuvm: page not present": fork finds every page below sz, and the kernel
\* meets no page fault of its own making.
NoPanic == ~odd => status /= "panic"

\* The working set is what is resident, in both directions, and fork never
\* meets a page that is neither.
SetIsResident == ResidentInSet /\ QueueMapped /\ NoPanic

\* The guard page is inaccessible: a process that runs into it is killed, and
\* does not fault for ever.
GuardKills == stuck ~> status = "killed"
=============================================================================
