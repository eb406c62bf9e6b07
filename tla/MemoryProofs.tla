---------------------------- MODULE MemoryProofs ----------------------------
(***************************************************************************)
(* Proofs about the frames and the address spaces of the p5 kernel, for    *)
(* every number of processes, frames and pages, every shape of page        *)
(* tables, every program and arguments of sbrk.                            *)
(***************************************************************************)
EXTENDS Memory, FiniteSetTheorems, TLAPS

-----------------------------------------------------------------------------
(* The inductive invariant.  A memory m is seen as two relations: which      *)
(* table a directory has where, and which user frame a table holds where.    *)

Pdx == 0..(UTABLES + KTABLES - 1)
Ptx == 0..(PTSIZE - 1)

\* Entry i of directory d points to frame t.
Has(m, d, i, t) ==
    d \in Frames /\ i \in Pdx /\ t \in Frames
        /\ m[d].kind = "dir" /\ m[d].pde[i] = t

\* Entry j of table t points to frame f.
Holds(m, t, j, f) ==
    t \in Frames /\ j \in Ptx /\ f \in Frames
        /\ m[t].kind = "table" /\ (m[t].pte[j].p \/ m[t].pte[j].e)
        /\ m[t].pte[j].frame = f

\* Page a of the address space d is frame f.
MapsTo(m, d, a, f) ==
    \E t \in Frames : Has(m, d, a \div PTSIZE, t) /\ Holds(m, t, a % PTSIZE, f)
InSpace(m, d, a) == \E f \in Frames : MapsTo(m, d, a, f)

\* An entry points to a frame exactly when it is in use.
EntryInv(m) ==
    \A t \in Frames, j \in Ptx : m[t].kind = "table" =>
        (m[t].pte[j].p \/ m[t].pte[j].e <=> m[t].pte[j].frame \in Frames)

\* The kinds of frames, and the frames that are free.
KindInv(m, F) ==
    /\ m \in [Frames -> Contents]
    /\ F \subseteq Frames
    /\ \A f \in Frames : f \in F <=> m[f].kind = "junk"
    /\ EntryInv(m)

\* A frame that is a table is entry i of directory d for one i and one d, and
\* the same of the frames of users.
LinkInv(m) ==
    /\ \A d, t \in Frames, i \in Pdx : Has(m, d, i, t) => m[t].kind = "table"
    /\ \A t, f \in Frames, j \in Ptx : Holds(m, t, j, f) => m[f].kind = "user"
    /\ \A d, t, c \in Frames, i, k \in Pdx : Has(m, d, i, t) /\ Has(m, c, k, t) => d = c /\ i = k
    /\ \A t, f, u \in Frames, j, k \in Ptx : Holds(m, t, j, f) /\ Holds(m, u, k, f) => t = u /\ j = k
    /\ \A t \in Frames : m[t].kind = "table" => \E d \in Frames, i \in Pdx : Has(m, d, i, t)
    /\ \A f \in Frames : m[f].kind = "user" => \E t \in Frames, j \in Ptx : Holds(m, t, j, f)
    /\ \A d, t, f \in Frames, i \in Pdx, j \in Ptx : Has(m, d, i, t) /\ Holds(m, t, j, f) =>
         i < UTABLES /\ i * PTSIZE + j \in Pages

MemInv(m, F) == KindInv(m, F) /\ LinkInv(m)

\* The pages of d are those below n.
Upto(m, d, n) == \A a \in Pages : InSpace(m, d, a) <=> a < n

PCs == {"user", "grow", "kvmdir", "kvm", "copy", "segs", "load", "stack"}
Regs == [pc : PCs, d : Frames \cup {None}, i : Nat, old : Nat, end : Nat,
         np : Procs \cup {None}, image : Seq(Segments)]

\* A process in state s with directory D, size z and the locals r of its
\* system call.
UserInv(m, D, z, r) ==
    /\ r.pc = "user" => r = Idle
    /\ r.pc = "user" => Upto(m, D, PGROUNDUP(z)) \/ Upto(m, D, 0)
    /\ r.pc = "grow" => /\ r.d = D /\ r.old = z /\ r.np = None
                        /\ Upto(m, D, r.i)
    /\ r.pc \notin {"user", "grow"} => Upto(m, D, PGROUNDUP(z))
CallInv(m, z, r) ==
    /\ r.pc = "kvmdir" => r.d = None /\ r.i = 0 /\ r.old = 0
    /\ r.pc \notin {"user", "kvmdir"} => r.d # None
    /\ r.np # None => r.pc \in {"kvmdir", "kvm", "copy"}
    /\ r.pc = "kvm" => /\ r.i <= KTABLES /\ r.old = 0 /\ Upto(m, r.d, 0)
                       /\ \A i \in Pdx, t \in Frames : Has(m, r.d, i, t) => i < UTABLES + r.i
    /\ r.pc = "copy" => r.np # None /\ r.i <= PGROUNDUP(z) /\ Upto(m, r.d, r.i)
    /\ r.pc = "segs" => r.old < KERNBASE /\ Upto(m, r.d, PGROUNDUP(r.old))
    /\ r.pc \in {"load", "stack"} => Upto(m, r.d, r.i)
    /\ r.pc \in {"grow", "load", "stack"} =>
          /\ r.old <= r.end /\ r.end < KERNBASE
          /\ PGROUNDUP(r.old) <= r.i /\ r.i <= PGROUNDUP(r.end)
    /\ r.pc = "load" => /\ r.image # <<>>
                        /\ Head(r.image).vaddr + Head(r.image).memsz <= r.end
                        /\ Head(r.image).filesz <= Head(r.image).memsz
    /\ r.pc = "stack" => \E k \in Pages : r.old = k * PGSIZE /\ r.end = (k + 2) * PGSIZE
ProcInv(m, s, D, z, r) ==
    /\ s # "RUN" => r = Idle
    /\ s = "RUN" => UserInv(m, D, z, r) /\ CallInv(m, z, r)

\* Who has a directory, who is making one; every directory has one owner, and
\* every kernel stack.
HasDir(p) == state[p] \in {"RUN", "ZOMBIE"}
HasNew(p) == reg[p].d # None /\ reg[p].pc # "grow"
RootInv ==
    /\ \A p \in Procs : HasDir(p) => pgdir[p] \in Frames /\ mem[pgdir[p]].kind = "dir"
    /\ \A p \in Procs : HasNew(p) => reg[p].d \in Frames /\ mem[reg[p].d].kind = "dir"
    /\ \A p, q \in Procs : HasDir(p) /\ HasDir(q) /\ pgdir[p] = pgdir[q] => p = q
    /\ \A p, q \in Procs : HasNew(p) /\ HasNew(q) /\ reg[p].d = reg[q].d => p = q
    /\ \A p, q \in Procs : HasDir(p) /\ HasNew(q) => pgdir[p] # reg[q].d
    /\ \A f \in Frames : mem[f].kind = "dir" =>
         \E p \in Procs : (HasDir(p) /\ pgdir[p] = f) \/ (HasNew(p) /\ reg[p].d = f)
StackInv ==
    /\ \A p \in Procs : state[p] # "UNUSED" =>
         kstack[p] \in Frames /\ mem[kstack[p]].kind = "kstack"
    /\ \A p, q \in Procs : state[p] # "UNUSED" /\ state[q] # "UNUSED"
         /\ kstack[p] = kstack[q] => p = q
    /\ \A f \in Frames : mem[f].kind = "kstack" =>
         \E p \in Procs : state[p] # "UNUSED" /\ kstack[p] = f

\* The child of a fork under way.
ChildInv ==
    /\ \A p \in Procs : reg[p].np # None => state[reg[p].np] = "EMBRYO"
    /\ \A p, q \in Procs : reg[p].np # None /\ reg[p].np = reg[q].np => p = q

PanicInv == panicked \in {"no", "init exiting"}
TableInv ==
    /\ state \in [Procs -> {"UNUSED", "EMBRYO", "RUN", "ZOMBIE"}]
    /\ kstack \in [Procs -> Frames \cup {None}]
    /\ pgdir \in [Procs -> Frames \cup {None}]
    /\ sz \in [Procs -> 0..(KERNBASE - 1)]
    /\ parent \in [Procs -> Procs \cup {None}]
    /\ reg \in [Procs -> Regs]

MInv ==
    /\ TableInv /\ PanicInv /\ MemInv(mem, free) /\ RootInv /\ StackInv /\ ChildInv
    /\ \A p \in Procs : ProcInv(mem, state[p], pgdir[p], sz[p], reg[p])

-----------------------------------------------------------------------------
(* Division: pages into tables, addresses into pages. *)

\* Multiplication is monotonic.
LEMMA Times ==
    ASSUME NEW n \in Nat, NEW x \in Nat, NEW y \in Nat, x <= y
    PROVE  x * n <= y * n /\ x * n \in Nat /\ y * n \in Nat
OBVIOUS

\* Quotient and remainder.
LEMMA DivMod ==
    ASSUME NEW x \in Nat, NEW n \in Nat \ {0}
    PROVE  x \div n \in Nat /\ x % n \in 0..(n - 1) /\ x = (x \div n) * n + (x % n)
<1>1. x \div n \in Nat /\ x % n \in 0..(n - 1)
  OBVIOUS
<1>2. x = n * (x \div n) + (x % n)
  OBVIOUS
<1>3. \A k \in Nat : n * k = k * n
  OBVIOUS
<1> QED BY <1>1, <1>2, <1>3

\* There is only one way to divide.
LEMMA DivUnique ==
    ASSUME NEW q \in Nat, NEW n \in Nat \ {0}, NEW r \in 0..(n - 1)
    PROVE  (q * n + r) \div n = q /\ (q * n + r) % n = r
<1> DEFINE x == q * n + r
           k == x \div n
           s == x % n
<1>1. x \in Nat
  BY Times
<1>2. k \in Nat /\ s \in 0..(n - 1) /\ x = k * n + s
  BY <1>1, DivMod
<1> HIDE DEF k, s
<1>3. ~(q + 1 <= k)
  <2> SUFFICES ASSUME q + 1 <= k PROVE FALSE
    OBVIOUS
  <2>1. (q + 1) * n <= k * n /\ k * n \in Nat /\ q * n \in Nat
    BY <1>2, Times
  <2>2. (q + 1) * n = q * n + n
    OBVIOUS
  <2> QED BY <1>2, <2>1, <2>2
<1>4. ~(k + 1 <= q)
  <2> SUFFICES ASSUME k + 1 <= q PROVE FALSE
    OBVIOUS
  <2>1. (k + 1) * n <= q * n /\ k * n \in Nat /\ q * n \in Nat
    BY <1>2, Times
  <2>2. (k + 1) * n = k * n + n
    BY <1>2
  <2> QED BY <1>2, <2>1, <2>2
<1>5. k = q
  BY <1>2, <1>3, <1>4
<1> QED BY <1>2, <1>5, Times DEF k, s

LEMMA Sizes ==
    /\ KERNBASE \in Nat /\ UTABLES \in Nat \ {0} /\ PGSIZE < KERNBASE
    /\ PGSIZE \in Nat \ {0} /\ PTSIZE \in Nat \ {0} /\ NPAGES \in Nat \ {0, 1}
    /\ KTABLES \in Nat /\ NFRAMES \in Nat /\ NFRAMES > 4 + KTABLES /\ 0 \in Pages
<1>0. /\ PGSIZE \in Nat \ {0} /\ PTSIZE \in Nat \ {0} /\ NPAGES \in Nat \ {0, 1}
      /\ KTABLES \in Nat /\ NFRAMES \in Nat /\ NFRAMES > 4 + KTABLES /\ 0 \in Pages
  BY SizeAssumption DEF Pages
<1>1. KERNBASE \in Nat /\ 2 * PGSIZE <= NPAGES * PGSIZE
  BY <1>0, Times DEF KERNBASE
<1> DEFINE n == NPAGES + PTSIZE - 1
<1>2. UTABLES \in Nat /\ UTABLES * PTSIZE > n - PTSIZE
  BY <1>0, DivMod DEF UTABLES
<1>3. UTABLES /= 0
  BY <1>0, <1>2
<1> QED BY <1>0, <1>1, <1>2, <1>3 DEF KERNBASE

\* A page is an entry of a user table.
LEMMA PageSplit ==
    ASSUME NEW a \in Pages
    PROVE  /\ a \div PTSIZE \in 0..(UTABLES - 1) /\ a \div PTSIZE \in Pdx /\ a % PTSIZE \in Ptx
           /\ (a \div PTSIZE) * PTSIZE + (a % PTSIZE) = a
<1>1. a \in Nat /\ a < NPAGES
  BY Sizes DEF Pages
<1> DEFINE n == NPAGES + PTSIZE - 1
           q == a \div PTSIZE
<1>2. q \in Nat /\ a % PTSIZE \in 0..(PTSIZE - 1) /\ a = q * PTSIZE + (a % PTSIZE)
  BY <1>1, Sizes, DivMod
<1>3. UTABLES * PTSIZE > n - PTSIZE /\ UTABLES \in Nat
  BY Sizes, DivMod DEF UTABLES
<1> HIDE DEF q
<1>4. ~(UTABLES <= q)
  <2> SUFFICES ASSUME UTABLES <= q PROVE FALSE
    OBVIOUS
  <2>1. UTABLES * PTSIZE <= q * PTSIZE /\ q * PTSIZE \in Nat /\ UTABLES * PTSIZE \in Nat
    BY <1>2, <1>3, Sizes, Times
  <2>2. UTABLES * PTSIZE >= NPAGES
    BY <1>3, <2>1, Sizes
  <2>3. a >= q * PTSIZE
    BY <1>1, <1>2, <2>1
  <2> QED BY <1>1, <2>1, <2>2, <2>3, Sizes
<1> QED BY <1>2, <1>3, <1>4, Sizes DEF q, Pdx, Ptx

\* Two pages do not share an entry.
LEMMA PageJoin ==
    ASSUME NEW i \in Nat, NEW j \in Ptx
    PROVE  (i * PTSIZE + j) \div PTSIZE = i /\ (i * PTSIZE + j) % PTSIZE = j
BY DivUnique, Sizes DEF Ptx

\* Page a begins below address x exactly when it is below PGROUNDUP(x).
LEMMA RoundUp ==
    ASSUME NEW x \in Nat, NEW a \in Nat
    PROVE  PGROUNDUP(x) \in Nat /\ (a * PGSIZE < x <=> a < PGROUNDUP(x))
<1> DEFINE q == PGROUNDUP(x)
           r == (x + PGSIZE - 1) % PGSIZE
<1>0. x + PGSIZE - 1 \in Nat
  BY Sizes
<1>1. q \in Nat /\ r \in 0..(PGSIZE - 1) /\ x + PGSIZE - 1 = q * PGSIZE + r
  BY <1>0, Sizes, DivMod DEF PGROUNDUP
<1> HIDE DEF q, r
<1>2. ASSUME a < q PROVE a * PGSIZE < x
  <2>1. (a + 1) * PGSIZE <= q * PGSIZE /\ a * PGSIZE \in Nat /\ q * PGSIZE \in Nat
    BY <1>1, <1>2, Sizes, Times
  <2>2. (a + 1) * PGSIZE = a * PGSIZE + PGSIZE
    BY Sizes
  <2> QED BY <1>1, <2>1, <2>2, Sizes
<1>3. ASSUME q <= a PROVE ~(a * PGSIZE < x)
  <2>1. q * PGSIZE <= a * PGSIZE /\ a * PGSIZE \in Nat /\ q * PGSIZE \in Nat
    BY <1>1, <1>3, Sizes, Times
  <2> QED BY <1>1, <2>1, Sizes
<1> QED BY <1>1, <1>2, <1>3 DEF q

LEMMA RoundType ==
    ASSUME NEW x \in Nat PROVE PGROUNDUP(x) \in Nat
BY RoundUp

LEMMA RoundMono ==
    ASSUME NEW x \in Nat, NEW y \in Nat, x <= y
    PROVE  PGROUNDUP(x) <= PGROUNDUP(y)
<1> DEFINE q == PGROUNDUP(x)
           r == PGROUNDUP(y)
<1>1. q \in Nat /\ r \in Nat
  BY RoundType
<1>2. r * PGSIZE \in Nat
  BY <1>1, Sizes, Times
<1>3. ~(r * PGSIZE < y)
  BY <1>1, RoundUp
<1>4. ~(r < q)
  BY <1>1, <1>2, <1>3, RoundUp
<1> QED BY <1>1, <1>4

LEMMA RoundExact ==
    ASSUME NEW k \in Nat
    PROVE  k * PGSIZE \in Nat /\ PGROUNDUP(k * PGSIZE) = k /\ (k * PGSIZE) \div PGSIZE = k
<1>1. k * PGSIZE \in Nat
  BY Sizes, Times
<1>2. k * PGSIZE + PGSIZE - 1 = k * PGSIZE + (PGSIZE - 1) /\ PGSIZE - 1 \in 0..(PGSIZE - 1)
  BY <1>1, Sizes
<1>3. (k * PGSIZE + (PGSIZE - 1)) \div PGSIZE = k
  BY <1>2, Sizes, DivUnique
<1>4. (k * PGSIZE + 0) \div PGSIZE = k /\ k * PGSIZE + 0 = k * PGSIZE
  BY <1>1, Sizes, DivUnique
<1> QED BY <1>1, <1>2, <1>3, <1>4 DEF PGROUNDUP

LEMMA RoundBound ==
    ASSUME NEW x \in Nat, x < KERNBASE
    PROVE  \A a \in Nat : a < PGROUNDUP(x) => a \in Pages
<1> SUFFICES ASSUME NEW a \in Nat, a < PGROUNDUP(x), ~(a < NPAGES) PROVE FALSE
  BY Sizes DEF Pages
<1>1. a * PGSIZE < x
  BY RoundUp
<1>2. NPAGES * PGSIZE <= a * PGSIZE
  BY Sizes, Times
<1>3. a * PGSIZE \in Nat /\ NPAGES * PGSIZE \in Nat
  BY Sizes, Times
<1> QED BY <1>1, <1>2, <1>3 DEF KERNBASE

-----------------------------------------------------------------------------
(* What frames hold. *)

TableOf(f) == [kind |-> "table", pte |-> f]
DirOf(f) == [kind |-> "dir", pde |-> f]

LEMMA Kinds ==
    ASSUME NEW c \in Contents
    PROVE  /\ c.kind \in {"junk", "kstack", "user", "table", "dir"}
           /\ c.kind = "junk" => c = Junk
           /\ c.kind = "user" => c.byte \in Byte
           /\ c.kind = "table" => c.pte \in [Ptx -> Entries] /\ c = TableOf(c.pte)
           /\ c.kind = "dir" => c.pde \in [Pdx -> Frames \cup {None}] /\ c = DirOf(c.pde)
BY DEF Contents, Junk, KStack, User, Ptx, Pdx, TableOf, DirOf

LEMMA Makes ==
    /\ Junk \in Contents /\ Junk.kind = "junk"
    /\ KStack \in Contents /\ KStack.kind = "kstack"
    /\ \A b \in Byte : User(b) \in Contents /\ User(b).kind = "user" /\ User(b).byte = b
    /\ \A f \in [Ptx -> Entries] : TableOf(f) \in Contents /\ TableOf(f).kind = "table" /\ TableOf(f).pte = f
    /\ \A f \in [Pdx -> Frames \cup {None}] : DirOf(f) \in Contents /\ DirOf(f).kind = "dir" /\ DirOf(f).pde = f
BY DEF Contents, Junk, KStack, User, Ptx, Pdx, TableOf, DirOf

LEMMA EmptyOnes ==
    /\ Table \in Contents /\ Table.kind = "table"
    /\ \A j \in Ptx : Table.pte[j] = NoEntry
    /\ Dir \in Contents /\ Dir.kind = "dir" /\ \A i \in Pdx : Dir.pde[i] = None
    /\ NoEntry \in Entries /\ ~NoEntry.p /\ ~NoEntry.e /\ NoEntry.frame \notin Frames
<1>1. NoEntry \in Entries /\ ~NoEntry.p /\ ~NoEntry.e /\ NoEntry.frame \notin Frames
  BY NoneAssumption DEF NoEntry, Entries
<1>2. [i \in Ptx |-> NoEntry] \in [Ptx -> Entries]
  BY <1>1
<1>3. [i \in Pdx |-> None] \in [Pdx -> Frames \cup {None}]
  OBVIOUS
<1>4. Table = TableOf([i \in Ptx |-> NoEntry]) /\ Dir = DirOf([i \in Pdx |-> None])
  BY DEF Table, Dir, TableOf, DirOf, Ptx, Pdx
<1> QED BY <1>1, <1>2, <1>3, <1>4, Makes

-----------------------------------------------------------------------------
(* How the relations change. *)

\* An entry points to one frame.
LEMMA OneTarget ==
    ASSUME NEW m, NEW d, NEW i, NEW t, NEW u
    PROVE  /\ Has(m, d, i, t) /\ Has(m, d, i, u) => t = u
           /\ Holds(m, d, i, t) /\ Holds(m, d, i, u) => t = u
BY DEF Has, Holds

LEMMA Typed ==
    ASSUME NEW m, NEW d, NEW i, NEW t
    PROVE  /\ Has(m, d, i, t) => d \in Frames /\ t \in Frames /\ i \in Pdx
           /\ Holds(m, d, i, t) => d \in Frames /\ t \in Frames /\ i \in Ptx
BY DEF Has, Holds

\* A frame is at most one page of one address space, a page at most one frame.
LEMMA OnePage ==
    ASSUME NEW m, LinkInv(m), NEW d \in Frames, NEW c \in Frames, NEW a \in Pages, NEW b \in Pages,
           NEW f \in Frames, NEW g \in Frames, MapsTo(m, d, a, f), MapsTo(m, c, b, g)
    PROVE  /\ f = g => d = c /\ a = b
           /\ d = c /\ a = b => f = g
<1>1. PICK t \in Frames : Has(m, d, a \div PTSIZE, t) /\ Holds(m, t, a % PTSIZE, f)
  BY DEF MapsTo
<1>2. PICK u \in Frames : Has(m, c, b \div PTSIZE, u) /\ Holds(m, u, b % PTSIZE, g)
  BY DEF MapsTo
<1>3. ASSUME f = g PROVE d = c /\ a = b
  <2>1. a % PTSIZE \in Ptx /\ b % PTSIZE \in Ptx /\ a \div PTSIZE \in Pdx /\ b \div PTSIZE \in Pdx
    BY PageSplit
  <2>2. t = u /\ a % PTSIZE = b % PTSIZE
    BY <1>1, <1>2, <1>3, <2>1 DEF LinkInv
  <2>3. d = c /\ a \div PTSIZE = b \div PTSIZE
    BY <1>1, <1>2, <2>1, <2>2 DEF LinkInv
  <2>4. a = (a \div PTSIZE) * PTSIZE + (a % PTSIZE) /\ b = (b \div PTSIZE) * PTSIZE + (b % PTSIZE)
    BY PageSplit
  <2> QED BY <2>2, <2>3, <2>4
<1>4. d = c /\ a = b => f = g
  BY <1>1, <1>2, OneTarget
<1> QED BY <1>3, <1>4

\* The frames X are freed: whole address spaces, or pages out of their tables.
Leaving(m, n, X) ==
    /\ n \in [Frames -> Contents] /\ EntryInv(n) /\ X \subseteq Frames
    /\ \A f \in Frames : n[f].kind = IF f \in X THEN "junk" ELSE m[f].kind
    /\ \A d, t \in Frames, i \in Pdx : Has(n, d, i, t) <=> Has(m, d, i, t) /\ d \notin X
    /\ \A t, f \in Frames, j \in Ptx : Holds(n, t, j, f) <=> Holds(m, t, j, f) /\ f \notin X
    /\ \A d, t \in Frames, i \in Pdx : Has(m, d, i, t) => (d \in X <=> t \in X)
    /\ \A t, f \in Frames, j \in Ptx : Holds(m, t, j, f) => (t \in X => f \in X)

LEMMA LeaveStep ==
    ASSUME NEW m, NEW F, NEW n, NEW X, MemInv(m, F), Leaving(m, n, X)
    PROVE  /\ MemInv(n, F \cup X)
           /\ \A d, f \in Frames, a \in Pages : MapsTo(n, d, a, f) <=> MapsTo(m, d, a, f) /\ f \notin X
<1>1. KindInv(m, F) /\ LinkInv(m)
  BY DEF MemInv
<1>2. KindInv(n, F \cup X)
  BY <1>1 DEF KindInv, Leaving
<1>3. LinkInv(n)
  <2>1. \A d, t \in Frames, i \in Pdx : Has(n, d, i, t) => n[t].kind = "table"
    BY <1>1 DEF LinkInv, Leaving
  <2>2. \A t, f \in Frames, j \in Ptx : Holds(n, t, j, f) => n[f].kind = "user"
    BY <1>1 DEF LinkInv, Leaving
  <2>3. \A d, t, c \in Frames, i, k \in Pdx : Has(n, d, i, t) /\ Has(n, c, k, t) => d = c /\ i = k
    BY <1>1 DEF LinkInv, Leaving
  <2>4. \A t, f, u \in Frames, j, k \in Ptx : Holds(n, t, j, f) /\ Holds(n, u, k, f) => t = u /\ j = k
    BY <1>1 DEF LinkInv, Leaving
  <2>5. ASSUME NEW t \in Frames, n[t].kind = "table" PROVE \E d \in Frames, i \in Pdx : Has(n, d, i, t)
    <3>1. t \notin X /\ m[t].kind = "table"
      BY <2>5 DEF Leaving
    <3>2. PICK d \in Frames, i \in Pdx : Has(m, d, i, t)
      BY <1>1, <3>1 DEF LinkInv
    <3> QED BY <3>1, <3>2 DEF Leaving
  <2>6. ASSUME NEW f \in Frames, n[f].kind = "user" PROVE \E t \in Frames, j \in Ptx : Holds(n, t, j, f)
    <3>1. f \notin X /\ m[f].kind = "user"
      BY <2>6 DEF Leaving
    <3>2. PICK t \in Frames, j \in Ptx : Holds(m, t, j, f)
      BY <1>1, <3>1 DEF LinkInv
    <3> QED BY <3>1, <3>2 DEF Leaving
  <2>7. \A d, t, f \in Frames, i \in Pdx, j \in Ptx : Has(n, d, i, t) /\ Holds(n, t, j, f) =>
          i < UTABLES /\ i * PTSIZE + j \in Pages
    BY <1>1 DEF LinkInv, Leaving
  <2> QED BY <2>1, <2>2, <2>3, <2>4, <2>5, <2>6, <2>7 DEF LinkInv
<1>4. ASSUME NEW d \in Frames, NEW f \in Frames, NEW a \in Pages
      PROVE  MapsTo(n, d, a, f) <=> MapsTo(m, d, a, f) /\ f \notin X
  <2>1. a % PTSIZE \in Ptx /\ a \div PTSIZE \in Pdx
    BY PageSplit
  <2> QED BY <2>1 DEF MapsTo, Leaving
<1> QED BY <1>2, <1>3, <1>4 DEF MemInv

\* A free frame g becomes a kernel stack or an empty directory.
NewRoot(m, n, F, g) ==
    /\ n \in [Frames -> Contents] /\ EntryInv(n) /\ g \in F
    /\ n[g].kind \in {"kstack", "dir"}
    /\ \A f \in Frames : f # g => n[f].kind = m[f].kind
    /\ \A d, t \in Frames, i \in Pdx : Has(n, d, i, t) <=> Has(m, d, i, t)
    /\ \A t, f \in Frames, j \in Ptx : Holds(n, t, j, f) <=> Holds(m, t, j, f)

LEMMA RootStep ==
    ASSUME NEW m, NEW F, NEW n, NEW g, MemInv(m, F), NewRoot(m, n, F, g)
    PROVE  /\ MemInv(n, F \ {g})
           /\ \A d, f \in Frames, a \in Pages : MapsTo(n, d, a, f) <=> MapsTo(m, d, a, f)
           /\ g \in Frames /\ m[g].kind = "junk"
<1>1. KindInv(m, F) /\ LinkInv(m)
  BY DEF MemInv
<1>2. g \in Frames /\ m[g].kind = "junk" /\ KindInv(n, F \ {g})
  BY <1>1 DEF KindInv, NewRoot
<1>3. LinkInv(n)
  <2>1. \A d, t \in Frames, i \in Pdx : Has(n, d, i, t) => n[t].kind = "table"
    BY <1>1, <1>2 DEF LinkInv, NewRoot
  <2>2. \A t, f \in Frames, j \in Ptx : Holds(n, t, j, f) => n[f].kind = "user"
    BY <1>1, <1>2 DEF LinkInv, NewRoot
  <2>3. \A d, t, c \in Frames, i, k \in Pdx : Has(n, d, i, t) /\ Has(n, c, k, t) => d = c /\ i = k
    BY <1>1 DEF LinkInv, NewRoot
  <2>4. \A t, f, u \in Frames, j, k \in Ptx : Holds(n, t, j, f) /\ Holds(n, u, k, f) => t = u /\ j = k
    BY <1>1 DEF LinkInv, NewRoot
  <2>5. ASSUME NEW t \in Frames, n[t].kind = "table" PROVE \E d \in Frames, i \in Pdx : Has(n, d, i, t)
    <3>1. m[t].kind = "table"
      BY <2>5 DEF NewRoot
    <3> QED BY <1>1, <3>1 DEF LinkInv, NewRoot
  <2>6. ASSUME NEW f \in Frames, n[f].kind = "user" PROVE \E t \in Frames, j \in Ptx : Holds(n, t, j, f)
    <3>1. m[f].kind = "user"
      BY <2>6 DEF NewRoot
    <3> QED BY <1>1, <3>1 DEF LinkInv, NewRoot
  <2>7. \A d, t, f \in Frames, i \in Pdx, j \in Ptx : Has(n, d, i, t) /\ Holds(n, t, j, f) =>
          i < UTABLES /\ i * PTSIZE + j \in Pages
    BY <1>1 DEF LinkInv, NewRoot
  <2> QED BY <2>1, <2>2, <2>3, <2>4, <2>5, <2>6, <2>7 DEF LinkInv
<1>4. ASSUME NEW d \in Frames, NEW f \in Frames, NEW a \in Pages
      PROVE  MapsTo(n, d, a, f) <=> MapsTo(m, d, a, f)
  <2>1. a % PTSIZE \in Ptx /\ a \div PTSIZE \in Pdx
    BY PageSplit
  <2> QED BY <2>1 DEF MapsTo, NewRoot
<1> QED BY <1>2, <1>3, <1>4 DEF MemInv

\* A free frame g becomes an empty table, entry k of directory c.
NewTable(m, n, F, c, k, g) ==
    /\ n \in [Frames -> Contents] /\ EntryInv(n) /\ g \in F /\ c \in Frames /\ k \in Pdx
    /\ n[g].kind = "table"
    /\ \A t \in Frames : ~Has(m, c, k, t)
    /\ \A f \in Frames : f # g => n[f].kind = m[f].kind
    /\ \A d, t \in Frames, i \in Pdx :
          Has(n, d, i, t) <=> Has(m, d, i, t) \/ (d = c /\ i = k /\ t = g)
    /\ \A t, f \in Frames, j \in Ptx : Holds(n, t, j, f) <=> Holds(m, t, j, f)

LEMMA TableStep ==
    ASSUME NEW m, NEW F, NEW n, NEW c, NEW k, NEW g, MemInv(m, F), NewTable(m, n, F, c, k, g)
    PROVE  /\ MemInv(n, F \ {g})
           /\ \A d, f \in Frames, a \in Pages : MapsTo(n, d, a, f) <=> MapsTo(m, d, a, f)
           /\ g \in Frames /\ m[g].kind = "junk"
<1>1. KindInv(m, F) /\ LinkInv(m)
  BY DEF MemInv
<1>2. g \in Frames /\ m[g].kind = "junk" /\ KindInv(n, F \ {g})
  BY <1>1 DEF KindInv, NewTable
<1>0. /\ \A d \in Frames, i \in Pdx : ~Has(m, d, i, g)
      /\ \A f \in Frames, j \in Ptx : ~Holds(m, g, j, f) /\ ~Holds(m, f, j, g)
  <2>1. \A d \in Frames, i \in Pdx : ~Has(m, d, i, g)
    BY <1>1, <1>2 DEF LinkInv
  <2>2. \A f \in Frames, j \in Ptx : ~Holds(m, f, j, g)
    BY <1>1, <1>2 DEF LinkInv
  <2>3. \A f \in Frames, j \in Ptx : ~Holds(m, g, j, f)
    BY <1>2 DEF Holds
  <2> QED BY <2>1, <2>2, <2>3
<1>3. LinkInv(n)
  <2>1. \A d, t \in Frames, i \in Pdx : Has(n, d, i, t) => n[t].kind = "table"
    BY <1>1, <1>2 DEF LinkInv, NewTable
  <2>2. \A t, f \in Frames, j \in Ptx : Holds(n, t, j, f) => n[f].kind = "user"
    BY <1>0, <1>1, <1>2 DEF LinkInv, NewTable
  <2>3. \A d, t, e \in Frames, i, l \in Pdx : Has(n, d, i, t) /\ Has(n, e, l, t) => d = e /\ i = l
    BY <1>0, <1>1 DEF LinkInv, NewTable
  <2>4. \A t, f, u \in Frames, j, l \in Ptx : Holds(n, t, j, f) /\ Holds(n, u, l, f) => t = u /\ j = l
    BY <1>1 DEF LinkInv, NewTable
  <2>5. ASSUME NEW t \in Frames, n[t].kind = "table" PROVE \E d \in Frames, i \in Pdx : Has(n, d, i, t)
    <3>1. CASE t = g
      BY <1>2, <3>1 DEF NewTable
    <3>2. CASE t /= g
      BY <1>1, <2>5, <3>2 DEF LinkInv, NewTable
    <3> QED BY <3>1, <3>2
  <2>6. ASSUME NEW f \in Frames, n[f].kind = "user" PROVE \E t \in Frames, j \in Ptx : Holds(n, t, j, f)
    <3>1. m[f].kind = "user"
      BY <2>6 DEF NewTable
    <3> QED BY <1>1, <3>1 DEF LinkInv, NewTable
  <2>7. \A d, t, f \in Frames, i \in Pdx, j \in Ptx : Has(n, d, i, t) /\ Holds(n, t, j, f) =>
          i < UTABLES /\ i * PTSIZE + j \in Pages
    BY <1>0, <1>1 DEF LinkInv, NewTable
  <2> QED BY <2>1, <2>2, <2>3, <2>4, <2>5, <2>6, <2>7 DEF LinkInv
<1>4. ASSUME NEW d \in Frames, NEW f \in Frames, NEW a \in Pages
      PROVE  MapsTo(n, d, a, f) <=> MapsTo(m, d, a, f)
  <2>1. a % PTSIZE \in Ptx /\ a \div PTSIZE \in Pdx
    BY PageSplit
  <2> QED BY <1>0, <2>1 DEF MapsTo, NewTable
<1> QED BY <1>2, <1>3, <1>4 DEF MemInv

\* A free frame g becomes page b of directory c, whose table u is there.
NewPage(m, n, F, c, b, u, g) ==
    /\ n \in [Frames -> Contents] /\ EntryInv(n) /\ g \in F /\ c \in Frames /\ u \in Frames /\ b \in Pages
    /\ n[g].kind = "user"
    /\ Has(m, c, b \div PTSIZE, u)
    /\ \A f \in Frames : ~Holds(m, u, b % PTSIZE, f)
    /\ \A f \in Frames : f # g => n[f].kind = m[f].kind
    /\ \A d, t \in Frames, i \in Pdx : Has(n, d, i, t) <=> Has(m, d, i, t)
    /\ \A t, f \in Frames, j \in Ptx :
          Holds(n, t, j, f) <=> Holds(m, t, j, f) \/ (t = u /\ j = b % PTSIZE /\ f = g)

LEMMA PageStep ==
    ASSUME NEW m, NEW F, NEW n, NEW c, NEW b, NEW u, NEW g, MemInv(m, F), NewPage(m, n, F, c, b, u, g)
    PROVE  /\ MemInv(n, F \ {g})
           /\ \A d, f \in Frames, a \in Pages :
                 MapsTo(n, d, a, f) <=> MapsTo(m, d, a, f) \/ (d = c /\ a = b /\ f = g)
           /\ g \in Frames /\ m[g].kind = "junk"
<1> DEFINE k == b \div PTSIZE
           l == b % PTSIZE
<1>1. KindInv(m, F) /\ LinkInv(m)
  BY DEF MemInv
<1>2. g \in Frames /\ m[g].kind = "junk" /\ KindInv(n, F \ {g})
  BY <1>1 DEF KindInv, NewPage
<1>5. k \in Pdx /\ l \in Ptx /\ k < UTABLES /\ k * PTSIZE + l = b /\ b \in Pages
  BY PageSplit, Sizes DEF NewPage
<1>0. /\ \A d \in Frames, i \in Pdx : ~Has(m, d, i, g)
      /\ \A f \in Frames, j \in Ptx : ~Holds(m, f, j, g)
  <2>1. \A d \in Frames, i \in Pdx : ~Has(m, d, i, g)
    BY <1>1, <1>2 DEF LinkInv
  <2>2. \A f \in Frames, j \in Ptx : ~Holds(m, f, j, g)
    BY <1>1, <1>2 DEF LinkInv
  <2> QED BY <2>1, <2>2
<1>6. /\ u \in Frames /\ c \in Frames /\ Has(m, c, k, u) /\ n[g].kind = "user"
      /\ \A f \in Frames : ~Holds(m, u, l, f)
      /\ \A f \in Frames : f # g => n[f].kind = m[f].kind
      /\ \A d, t \in Frames, i \in Pdx : Has(n, d, i, t) <=> Has(m, d, i, t)
      /\ \A t, f \in Frames, j \in Ptx : Holds(n, t, j, f) <=> Holds(m, t, j, f) \/ (t = u /\ j = l /\ f = g)
  BY DEF NewPage
<1> HIDE DEF k, l
<1>3. LinkInv(n)
  <2>1. \A d, t \in Frames, i \in Pdx : Has(n, d, i, t) => n[t].kind = "table"
    BY <1>1, <1>2, <1>6 DEF LinkInv
  <2>2. \A t, f \in Frames, j \in Ptx : Holds(n, t, j, f) => n[f].kind = "user"
    BY <1>0, <1>1, <1>2, <1>6 DEF LinkInv
  <2>3. \A d, t, e \in Frames, i, x \in Pdx : Has(n, d, i, t) /\ Has(n, e, x, t) => d = e /\ i = x
    BY <1>1, <1>6 DEF LinkInv
  <2>4. \A t, f, v \in Frames, j, x \in Ptx : Holds(n, t, j, f) /\ Holds(n, v, x, f) => t = v /\ j = x
    BY <1>0, <1>1, <1>6 DEF LinkInv
  <2>5. ASSUME NEW t \in Frames, n[t].kind = "table" PROVE \E d \in Frames, i \in Pdx : Has(n, d, i, t)
    BY <1>1, <1>6, <2>5 DEF LinkInv
  <2>6. ASSUME NEW f \in Frames, n[f].kind = "user" PROVE \E t \in Frames, j \in Ptx : Holds(n, t, j, f)
    <3>1. CASE f = g
      BY <1>2, <1>5, <1>6, <3>1
    <3>2. CASE f /= g
      BY <1>1, <1>6, <2>6, <3>2 DEF LinkInv
    <3> QED BY <3>1, <3>2
  <2>7. ASSUME NEW d \in Frames, NEW t \in Frames, NEW f \in Frames, NEW i \in Pdx, NEW j \in Ptx,
               Has(n, d, i, t), Holds(n, t, j, f)
        PROVE  i < UTABLES /\ i * PTSIZE + j \in Pages
    <3>1. CASE Holds(m, t, j, f)
      BY <1>1, <1>6, <2>7, <3>1 DEF LinkInv
    <3>2. CASE t = u /\ j = l
      <4>1. d = c /\ i = k
        BY <1>1, <1>5, <1>6, <2>7, <3>2 DEF LinkInv
      <4> QED BY <1>5, <3>2, <4>1
    <3> QED BY <1>6, <2>7, <3>1, <3>2
  <2> QED BY <2>1, <2>2, <2>3, <2>4, <2>5, <2>6, <2>7 DEF LinkInv
<1>4. ASSUME NEW d \in Frames, NEW f \in Frames, NEW a \in Pages
      PROVE  MapsTo(n, d, a, f) <=> MapsTo(m, d, a, f) \/ (d = c /\ a = b /\ f = g)
  <2>1. a % PTSIZE \in Ptx /\ a \div PTSIZE \in Pdx /\ a = (a \div PTSIZE) * PTSIZE + (a % PTSIZE)
    BY PageSplit
  <2>2. ASSUME MapsTo(n, d, a, f) PROVE MapsTo(m, d, a, f) \/ (d = c /\ a = b /\ f = g)
    <3>1. PICK t \in Frames : Has(n, d, a \div PTSIZE, t) /\ Holds(n, t, a % PTSIZE, f)
      BY <2>2 DEF MapsTo
    <3>2. CASE Holds(m, t, a % PTSIZE, f)
      BY <1>6, <2>1, <3>1, <3>2 DEF MapsTo
    <3>3. CASE t = u /\ a % PTSIZE = l /\ f = g
      <4>1. d = c /\ a \div PTSIZE = k
        BY <1>1, <1>5, <1>6, <2>1, <3>1, <3>3 DEF LinkInv
      <4> QED BY <1>5, <2>1, <3>3, <4>1
    <3> QED BY <1>6, <2>1, <3>1, <3>2, <3>3
  <2>3. ASSUME MapsTo(m, d, a, f) PROVE MapsTo(n, d, a, f)
    BY <1>6, <2>1, <2>3 DEF MapsTo
  <2>4. ASSUME d = c, a = b, f = g PROVE MapsTo(n, d, a, f)
    BY <1>5, <1>6, <2>1, <2>4 DEF MapsTo, k, l
  <2> QED BY <2>2, <2>3, <2>4
<1> QED BY <1>2, <1>3, <1>4 DEF MemInv

-----------------------------------------------------------------------------
(* How the operations change the memory. *)

PutPte(m, t, j, e) == [m EXCEPT ![t].pte[j] = e]
PutPde(m, d, i, t) == [m EXCEPT ![d].pde[i] = t]
Mems == [Frames -> Contents]

LEMMA PteFacts ==
    ASSUME NEW m \in Mems, NEW t \in Frames, m[t].kind = "table", NEW j \in Ptx, NEW e \in Entries
    PROVE  /\ PutPte(m, t, j, e) \in Mems
           /\ \A f \in Frames : f # t => PutPte(m, t, j, e)[f] = m[f]
           /\ PutPte(m, t, j, e)[t].kind = "table"
           /\ \A k \in Ptx : PutPte(m, t, j, e)[t].pte[k] = IF k = j THEN e ELSE m[t].pte[k]
<1> DEFINE x == m[t].pte
           y == [x EXCEPT ![j] = e]
<1>1. x \in [Ptx -> Entries] /\ m[t] = TableOf(x)
  BY Kinds DEF Mems
<1>2. y \in [Ptx -> Entries] /\ \A k \in Ptx : y[k] = IF k = j THEN e ELSE x[k]
  BY <1>1
<1>3. PutPte(m, t, j, e)[t] = TableOf(y)
  BY <1>1 DEF PutPte, TableOf, Mems
<1>4. \A f \in Frames : f # t => PutPte(m, t, j, e)[f] = m[f]
  BY DEF PutPte, Mems
<1>5. PutPte(m, t, j, e) \in [Frames -> {PutPte(m, t, j, e)[f] : f \in Frames}]
  BY DEF PutPte, Mems
<1>6. TableOf(y) \in Contents /\ TableOf(y).kind = "table" /\ TableOf(y).pte = y
  BY <1>2, Makes
<1> HIDE DEF y, x
<1>7. PutPte(m, t, j, e) \in Mems
  BY <1>3, <1>4, <1>5, <1>6 DEF Mems
<1> QED BY <1>2, <1>3, <1>4, <1>6, <1>7 DEF x

LEMMA PdeFacts ==
    ASSUME NEW m \in Mems, NEW d \in Frames, m[d].kind = "dir", NEW i \in Pdx, NEW t \in Frames
    PROVE  /\ PutPde(m, d, i, t) \in Mems
           /\ \A f \in Frames : f # d => PutPde(m, d, i, t)[f] = m[f]
           /\ PutPde(m, d, i, t)[d].kind = "dir"
           /\ \A k \in Pdx : PutPde(m, d, i, t)[d].pde[k] = IF k = i THEN t ELSE m[d].pde[k]
<1> DEFINE x == m[d].pde
           y == [x EXCEPT ![i] = t]
<1>1. x \in [Pdx -> Frames \cup {None}] /\ m[d] = DirOf(x)
  BY Kinds DEF Mems
<1>2. y \in [Pdx -> Frames \cup {None}] /\ \A k \in Pdx : y[k] = IF k = i THEN t ELSE x[k]
  BY <1>1
<1>3. PutPde(m, d, i, t)[d] = DirOf(y)
  BY <1>1 DEF PutPde, DirOf, Mems
<1>4. \A f \in Frames : f # d => PutPde(m, d, i, t)[f] = m[f]
  BY DEF PutPde, Mems
<1>5. PutPde(m, d, i, t) \in [Frames -> {PutPde(m, d, i, t)[f] : f \in Frames}]
  BY DEF PutPde, Mems
<1>6. DirOf(y) \in Contents /\ DirOf(y).kind = "dir" /\ DirOf(y).pde = y
  BY <1>2, Makes
<1> HIDE DEF y, x
<1>7. PutPde(m, d, i, t) \in Mems
  BY <1>3, <1>4, <1>5, <1>6 DEF Mems
<1> QED BY <1>2, <1>3, <1>4, <1>6, <1>7 DEF x

\* A frame is filled with x.
Fill(m, g, x) == [m EXCEPT ![g] = x]

LEMMA FillFacts ==
    ASSUME NEW m \in Mems, NEW g \in Frames, NEW x \in Contents
    PROVE  /\ Fill(m, g, x) \in Mems /\ Fill(m, g, x)[g] = x
           /\ \A f \in Frames : f # g => Fill(m, g, x)[f] = m[f]
BY DEF Fill, Mems

LEMMA FreeFacts ==
    ASSUME NEW m, NEW F, MemInv(m, F)
    PROVE  /\ m \in Mems /\ F \subseteq Frames /\ EntryInv(m) /\ LinkInv(m)
           /\ \A g \in F : g \in Frames /\ m[g].kind = "junk"
           /\ \A f \in Frames : m[f].kind = "junk" => f \in F
BY DEF MemInv, KindInv, Mems

LEMMA RootChange ==
    ASSUME NEW m, NEW F, MemInv(m, F), NEW g \in F, NEW x, x = KStack \/ x = Dir
    PROVE  NewRoot(m, Fill(m, g, x), F, g)
<1>1. m \in Mems /\ g \in Frames /\ EntryInv(m) /\ m[g].kind = "junk"
  BY FreeFacts
<1>2. x \in Contents /\ x.kind \in {"kstack", "dir"} /\ (x.kind = "dir" => \A i \in Pdx : x.pde[i] = None)
  BY Makes, EmptyOnes
<1> DEFINE n == Fill(m, g, x)
<1>3. n \in Mems /\ n[g] = x /\ \A f \in Frames : f # g => n[f] = m[f]
  BY <1>1, <1>2, FillFacts
<1> HIDE DEF n
<1>4. EntryInv(n)
  BY <1>1, <1>2, <1>3 DEF EntryInv
<1>5. \A d, t \in Frames, i \in Pdx : Has(n, d, i, t) <=> Has(m, d, i, t)
  BY <1>1, <1>2, <1>3, NoneAssumption DEF Has
<1>6. \A t, f \in Frames, j \in Ptx : Holds(n, t, j, f) <=> Holds(m, t, j, f)
  BY <1>1, <1>2, <1>3 DEF Holds
<1> QED BY <1>2, <1>3, <1>4, <1>5, <1>6 DEF NewRoot, Mems, n

LEMMA TableChange ==
    ASSUME NEW m, NEW F, MemInv(m, F), NEW g \in F, NEW c \in Frames, m[c].kind = "dir",
           NEW k \in Pdx, m[c].pde[k] = None
    PROVE  /\ NewTable(m, PutPde(Fill(m, g, Table), c, k, g), F, c, k, g)
           /\ \A j \in Ptx : PutPde(Fill(m, g, Table), c, k, g)[g].pte[j] = NoEntry
<1>1. m \in Mems /\ g \in Frames /\ EntryInv(m) /\ m[g].kind = "junk"
  BY FreeFacts
<1> DEFINE l == Fill(m, g, Table)
           n == PutPde(l, c, k, g)
<1>2. g # c
  BY <1>1
<1>3. l \in Mems /\ l[g] = Table /\ \A f \in Frames : f # g => l[f] = m[f]
  BY <1>1, EmptyOnes, FillFacts
<1> HIDE DEF l
<1>4. /\ n \in Mems /\ n[c].kind = "dir" /\ \A f \in Frames : f # c => n[f] = l[f]
      /\ \A i \in Pdx : n[c].pde[i] = IF i = k THEN g ELSE l[c].pde[i]
  BY <1>1, <1>2, <1>3, PdeFacts
<1> HIDE DEF n
<1>5. n[g] = Table /\ \A f \in Frames : f \notin {c, g} => n[f] = m[f]
  BY <1>1, <1>2, <1>3, <1>4
<1>6. /\ n[g].kind = "table" /\ \A j \in Ptx : n[g].pte[j] = NoEntry
      /\ \A f \in Frames : f # g => n[f].kind = m[f].kind
      /\ \A i \in Pdx : n[c].pde[i] = IF i = k THEN g ELSE m[c].pde[i]
  BY <1>2, <1>3, <1>4, <1>5, EmptyOnes
<1>7. EntryInv(n)
  BY <1>1, <1>4, <1>5, <1>6, EmptyOnes DEF EntryInv
<1>8. \A d, t \in Frames, i \in Pdx : Has(n, d, i, t) <=> Has(m, d, i, t) \/ (d = c /\ i = k /\ t = g)
  BY <1>1, <1>4, <1>5, <1>6, NoneAssumption DEF Has
<1>9. \A t, f \in Frames, j \in Ptx : Holds(n, t, j, f) <=> Holds(m, t, j, f)
  BY <1>1, <1>4, <1>5, <1>6, EmptyOnes DEF Holds
<1>10. \A t \in Frames : ~Has(m, c, k, t)
  BY NoneAssumption DEF Has
<1> QED BY <1>1, <1>4, <1>6, <1>7, <1>8, <1>9, <1>10 DEF NewTable, Mems, n, l

LEMMA PageChange ==
    ASSUME NEW m, NEW F, MemInv(m, F), NEW g \in F, NEW c \in Frames, NEW u \in Frames, NEW a \in Pages,
           Has(m, c, a \div PTSIZE, u), \A f \in Frames : ~Holds(m, u, a % PTSIZE, f),
           NEW b \in Byte, NEW e \in Entries, e.p \/ e.e, e.frame = g
    PROVE  NewPage(m, PutPte(Fill(m, g, User(b)), u, a % PTSIZE, e), F, c, a, u, g)
<1>1. m \in Mems /\ g \in Frames /\ EntryInv(m) /\ LinkInv(m) /\ m[g].kind = "junk"
  BY FreeFacts
<1>k. PICK k : k = a % PTSIZE
  OBVIOUS
<1> DEFINE l == Fill(m, g, User(b))
           n == PutPte(l, u, k, e)
<1>2. k \in Ptx /\ a \div PTSIZE \in Pdx
  BY <1>k, PageSplit
<1>3. m[u].kind = "table" /\ u # g
  BY <1>1, <1>2 DEF LinkInv
<1>4. l \in Mems /\ l[g] = User(b) /\ \A f \in Frames : f # g => l[f] = m[f]
  BY <1>1, Makes, FillFacts
<1> HIDE DEF l
<1>5. /\ n \in Mems /\ n[u].kind = "table" /\ \A f \in Frames : f # u => n[f] = l[f]
      /\ \A j \in Ptx : n[u].pte[j] = IF j = k THEN e ELSE l[u].pte[j]
  BY <1>2, <1>3, <1>4, PteFacts
<1> HIDE DEF n
<1>6. /\ n[g] = User(b) /\ \A f \in Frames : f \notin {u, g} => n[f] = m[f]
      /\ \A j \in Ptx : n[u].pte[j] = IF j = k THEN e ELSE m[u].pte[j]
  BY <1>1, <1>3, <1>4, <1>5
<1>7. n[g].kind = "user" /\ \A f \in Frames : f # g => n[f].kind = m[f].kind
  BY <1>3, <1>5, <1>6, Makes
<1>8. EntryInv(n)
  BY <1>1, <1>3, <1>6, <1>7 DEF EntryInv
<1>9. \A d, t \in Frames, i \in Pdx : Has(n, d, i, t) <=> Has(m, d, i, t)
  BY <1>1, <1>3, <1>5, <1>6, <1>7 DEF Has
<1>10. \A t, f \in Frames, j \in Ptx : Holds(n, t, j, f) <=> Holds(m, t, j, f) \/ (t = u /\ j = k /\ f = g)
  <2>1. \A f \in Frames : ~Holds(m, u, k, f)
    BY <1>k
  <2> QED BY <1>1, <1>3, <1>5, <1>6, <1>7, <2>1 DEF Holds
<1> QED BY <1>1, <1>k, <1>5, <1>7, <1>8, <1>9, <1>10 DEF NewPage, Mems, n, l

-----------------------------------------------------------------------------
(* mappages. *)

\* What the entry of a page says.
LEMMA EntryOf ==
    ASSUME MemInv(mem, free), NEW d \in Frames, mem[d].kind = "dir", NEW a \in Pages
    PROVE  /\ Pte(d, a) \in Entries
           /\ \A f \in Frames : MapsTo(mem, d, a, f) <=> Mapped(d, a) /\ Pte(d, a).frame = f
           /\ Mapped(d, a) => Pte(d, a).frame \in Frames /\ MapsTo(mem, d, a, Pte(d, a).frame)
                              /\ mem[Pte(d, a).frame].kind = "user"
           /\ Mapped(d, a) <=> InSpace(mem, d, a)
<1>1. mem \in Mems /\ EntryInv(mem) /\ LinkInv(mem)
  BY FreeFacts
<1>i. PICK i : i = a \div PTSIZE
  OBVIOUS
<1>j. PICK j : j = a % PTSIZE
  OBVIOUS
<1>2. i \in Pdx /\ j \in Ptx
  BY <1>i, <1>j, PageSplit
<1>t. PICK t : t = mem[d].pde[i]
  OBVIOUS
<1>3. t \in Frames \cup {None}
  BY <1>1, <1>2, <1>t, Kinds DEF Mems
<1>4. CASE t = None
  <2>1. Pte(d, a) = NoEntry
    BY <1>4, <1>i, <1>t DEF Pte
  <2>2. \A f \in Frames : ~MapsTo(mem, d, a, f)
    BY <1>4, <1>i, <1>t, NoneAssumption DEF MapsTo, Has
  <2> QED BY <2>1, <2>2, EmptyOnes DEF Mapped, InSpace
<1>5. CASE t \in Frames
  <2>1. Pte(d, a) = mem[t].pte[j]
    BY <1>5, <1>i, <1>j, <1>t, NoneAssumption DEF Pte
  <2>2. Has(mem, d, i, t)
    BY <1>2, <1>5, <1>t DEF Has
  <2>3. mem[t].kind = "table"
    BY <1>1, <1>2, <1>5, <2>2 DEF LinkInv
  <2>4. Pte(d, a) \in Entries
    BY <1>1, <1>2, <1>5, <2>1, <2>3, Kinds DEF Mems
  <2>5. \A f \in Frames : MapsTo(mem, d, a, f) <=> Holds(mem, t, j, f)
    BY <1>5, <1>i, <1>j, <2>2, OneTarget DEF MapsTo
  <2>6. \A f \in Frames : Holds(mem, t, j, f) <=> Mapped(d, a) /\ Pte(d, a).frame = f
    BY <1>2, <1>5, <2>1, <2>3 DEF Holds, Mapped
  <2>7. Mapped(d, a) => Pte(d, a).frame \in Frames
    BY <1>1, <1>2, <1>5, <2>1, <2>3 DEF EntryInv, Mapped
  <2>8. \A f \in Frames : Holds(mem, t, j, f) => mem[f].kind = "user"
    BY <1>1, <1>2, <1>5 DEF LinkInv
  <2> QED BY <2>4, <2>5, <2>6, <2>7, <2>8 DEF InSpace
<1> QED BY <1>3, <1>4, <1>5

\* The directories and kernel stacks are the same, and the space of d.
SameRoots(m, n) ==
    \A f \in Frames : /\ n[f].kind = "dir" <=> m[f].kind = "dir"
                      /\ n[f].kind = "kstack" <=> m[f].kind = "kstack"
SameSpace(m, n, d) ==
    /\ \A a \in Pages : InSpace(n, d, a) <=> InSpace(m, d, a)
    /\ \A i \in Pdx, t \in Frames : Has(n, d, i, t) <=> Has(m, d, i, t)

LEMMA FiniteFrames == IsFiniteSet(Frames) /\ Cardinality(Frames) = NFRAMES
BY FS_Interval, Sizes DEF Frames

LEMMA TwoFree ==
    ASSUME NEW F, F \subseteq Frames
    PROVE  /\ Cardinality(F) >= 1 => F # {}
           /\ \A f \in F : Cardinality(F) >= 2 => F \ {f} # {}
<1>1. IsFiniteSet(F)
  BY FiniteFrames, FS_Subset
<1>2. Cardinality({}) = 0
  BY FS_EmptySet
<1>3. \A f \in F : Cardinality(F \ {f}) = Cardinality(F) - 1
  BY <1>1, FS_RemoveElement
<1> QED BY <1>1, <1>2, <1>3, FS_CardinalityType

\* What mappages does to an address space, whether or not it needs a table.
LEMMA MapPages ==
    ASSUME MemInv(mem, free), NEW d \in Frames, mem[d].kind = "dir", NEW a \in Pages,
           ~Mapped(d, a), NEW b \in Byte, NEW e \in BOOLEAN, NEW u \in BOOLEAN,
           CanMap(d, a), mappages(d, a, b, e, u)
    PROVE  /\ MemInv(mem', free') /\ SameRoots(mem, mem')
           /\ \A c \in Frames : c # d => SameSpace(mem, mem', c)
           /\ \A x \in Pages : InSpace(mem', d, x) <=> InSpace(mem, d, x) \/ x = a
<1>1. mem \in Mems /\ EntryInv(mem) /\ LinkInv(mem) /\ free \subseteq Frames
  BY FreeFacts
<1>i. PICK i : i = a \div PTSIZE
  OBVIOUS
<1>j. PICK j : j = a % PTSIZE
  OBVIOUS
<1>2. i \in Pdx /\ j \in Ptx
  BY <1>i, <1>j, PageSplit
<1>f. PICK f : f = Kalloc
  OBVIOUS
<1>g. PICK g : g = CHOOSE h \in free \ {f} : TRUE
  OBVIOUS
<1>x. PICK x : x = [frame |-> f, p |-> ~e, e |-> e, u |-> u]
  OBVIOUS
<1>3. Cardinality(free) >= 1
  <2>1. Cardinality(free) \in Nat
    BY <1>1, FiniteFrames, FS_Subset, FS_CardinalityType
  <2> QED BY <2>1 DEF CanMap
<1>4. f \in free /\ f \in Frames
  BY <1>1, <1>3, <1>f, TwoFree DEF Kalloc
<1>5. x \in Entries /\ (x.p \/ x.e) /\ x.frame = f
  BY <1>x, <1>4 DEF Entries
<1>6. CASE ~NeedTable(d, a)
  <2>t. PICK t : t = mem[d].pde[i]
    OBVIOUS
  <2>1. t \in Frames
    BY <1>1, <1>2, <1>6, <1>i, <2>t, Kinds DEF Mems, NeedTable
  <2>2. Has(mem, d, i, t)
    BY <1>2, <2>1, <2>t DEF Has
  <2>3. \A y \in Frames : ~Holds(mem, t, j, y)
    BY <1>i, <1>j, <2>1, <2>2, EntryOf DEF MapsTo
  <2>4. f # d
    BY <1>4, FreeFacts
  <2>5. mem' = SetPte(Fill(mem, f, User(b)), d, a, x) /\ free' = free \ {f}
    BY <1>6, <1>f, <1>x DEF mappages, Fill
  <2>6. Fill(mem, f, User(b))[d] = mem[d]
    BY <1>1, <1>4, <2>4, FillFacts, Makes
  <2>7. mem' = PutPte(Fill(mem, f, User(b)), t, j, x)
    BY <1>i, <1>j, <2>t, <2>5, <2>6 DEF SetPte, PutPte
  <2>8. NewPage(mem, mem', free, d, a, t, f)
    BY <1>4, <1>5, <1>i, <1>j, <2>1, <2>2, <2>3, <2>7, PageChange
  <2>9. /\ MemInv(mem', free') /\ mem[f].kind = "junk"
        /\ \A c, y \in Frames, z \in Pages :
              MapsTo(mem', c, z, y) <=> MapsTo(mem, c, z, y) \/ (c = d /\ z = a /\ y = f)
    BY <2>5, <2>8, PageStep
  <2>10. /\ mem'[f].kind = "user" /\ \A y \in Frames : y # f => mem'[y].kind = mem[y].kind
         /\ \A c, y \in Frames, k \in Pdx : Has(mem', c, k, y) <=> Has(mem, c, k, y)
    BY <2>8 DEF NewPage
  <2>11. SameRoots(mem, mem')
    BY <1>4, <2>9, <2>10 DEF SameRoots
  <2>12. \A c \in Frames : c # d => SameSpace(mem, mem', c)
    BY <2>9, <2>10 DEF SameSpace, InSpace
  <2>13. \A y \in Pages : InSpace(mem', d, y) <=> InSpace(mem, d, y) \/ y = a
    BY <1>4, <2>9 DEF InSpace
  <2> QED BY <2>9, <2>11, <2>12, <2>13
<1>7. CASE NeedTable(d, a)
  <2>1. Cardinality(free) >= 2
    BY <1>7 DEF CanMap
  <2>2. g \in free /\ g # f /\ g \in Frames
    BY <1>1, <1>4, <1>g, <2>1, TwoFree
  <2>3. mem[d].pde[i] = None /\ f # d /\ g # d
    BY <1>7, <1>4, <1>i, <2>2, FreeFacts DEF NeedTable
  <2>l. PICK l : l = PutPde(Fill(mem, g, Table), d, i, g)
    OBVIOUS
  <2>4. NewTable(mem, l, free, d, i, g) /\ \A k \in Ptx : l[g].pte[k] = NoEntry
    BY <1>2, <2>2, <2>3, <2>l, TableChange
  <2>5. /\ MemInv(l, free \ {g}) /\ mem[g].kind = "junk"
        /\ \A c, y \in Frames, z \in Pages : MapsTo(l, c, z, y) <=> MapsTo(mem, c, z, y)
    BY <2>4, TableStep
  <2>6. f \in free \ {g} /\ Has(l, d, i, g) /\ \A y \in Frames : ~Holds(l, g, j, y)
    <3>1. Has(l, d, i, g)
      BY <1>2, <2>2, <2>4 DEF NewTable
    <3>2. \A y \in Frames : ~Holds(l, g, j, y)
      BY <1>2, <2>4, EmptyOnes DEF Holds
    <3> QED BY <1>4, <2>2, <3>1, <3>2
  <2>7. mem' = PutPte(Fill(l, f, User(b)), g, j, x) /\ free' = (free \ {g}) \ {f}
    <3>1. /\ mem' = SetPte([[mem EXCEPT ![f] = User(b)] EXCEPT ![g] = Table, ![d].pde[i] = g], d, a, x)
          /\ free' = free \ {f, g}
      BY <1>7, <1>f, <1>g, <1>i, <1>x DEF mappages
    <3>2. [[mem EXCEPT ![f] = User(b)] EXCEPT ![g] = Table, ![d].pde[i] = g] = Fill(l, f, User(b))
      <4>1. Fill(mem, g, Table) \in Mems
        BY <1>1, <2>2, FillFacts, EmptyOnes
      <4>2. [[mem EXCEPT ![f] = User(b)] EXCEPT ![g] = Table, ![d].pde[i] = g]
              = [[[mem EXCEPT ![g] = Table] EXCEPT ![d].pde[i] = g] EXCEPT ![f] = User(b)]
        BY <1>1, <1>4, <2>2, <2>3 DEF Mems
      <4> QED BY <2>l, <4>2 DEF Fill, PutPde
    <3>3. Fill(l, f, User(b))[d] = l[d] /\ l[d].pde[i] = g
      BY <1>4, <2>3, <2>5, <2>6, FreeFacts, FillFacts, Makes DEF Has
    <3> QED BY <1>i, <1>j, <3>1, <3>2, <3>3 DEF SetPte, PutPte
  <2>8. NewPage(l, mem', free \ {g}, d, a, g, f)
    BY <1>5, <1>i, <1>j, <2>2, <2>5, <2>6, <2>7, PageChange
  <2>9. /\ MemInv(mem', free') /\ l[f].kind = "junk"
        /\ \A c, y \in Frames, z \in Pages :
              MapsTo(mem', c, z, y) <=> MapsTo(l, c, z, y) \/ (c = d /\ z = a /\ y = f)
    BY <2>5, <2>7, <2>8, PageStep
  <2>10. /\ mem'[f].kind = "user" /\ \A y \in Frames : y # f => mem'[y].kind = l[y].kind
         /\ \A c, y \in Frames, k \in Pdx : Has(mem', c, k, y) <=> Has(l, c, k, y)
    BY <2>8 DEF NewPage
  <2>11. /\ l[g].kind = "table" /\ \A y \in Frames : y # g => l[y].kind = mem[y].kind
         /\ \A c, y \in Frames, k \in Pdx : c # d => (Has(l, c, k, y) <=> Has(mem, c, k, y))
    BY <2>4 DEF NewTable
  <2>12. SameRoots(mem, mem')
    BY <1>4, <2>2, <2>5, <2>9, <2>10, <2>11, FreeFacts DEF SameRoots
  <2>13. \A c \in Frames : c # d => SameSpace(mem, mem', c)
    BY <2>5, <2>9, <2>10, <2>11 DEF SameSpace, InSpace
  <2>14. \A y \in Pages : InSpace(mem', d, y) <=> InSpace(mem, d, y) \/ y = a
    BY <1>4, <2>5, <2>9 DEF InSpace
  <2> QED BY <2>9, <2>12, <2>13, <2>14
<1> QED BY <1>6, <1>7

-----------------------------------------------------------------------------
(* Freeing address spaces, and changes of bytes and flags. *)

\* Frame contents x and y point to the same frames.
SameShape(x, y) ==
    /\ y.kind = x.kind
    /\ x.kind = "dir" => \A i \in Pdx : y.pde[i] = x.pde[i]
    /\ x.kind = "table" => \A j \in Ptx :
          /\ (y.pte[j].p \/ y.pte[j].e) <=> (x.pte[j].p \/ x.pte[j].e)
          /\ y.pte[j].frame = x.pte[j].frame

\* X has all or nothing of every address space.
Closed(m, X) ==
    /\ \A d, t \in Frames, i \in Pdx : Has(m, d, i, t) => (d \in X <=> t \in X)
    /\ \A t, f \in Frames, j \in Ptx : Holds(m, t, j, f) => (t \in X <=> f \in X)

Frees(m, n, X) ==
    /\ n \in Mems /\ X \subseteq Frames /\ Closed(m, X)
    /\ \A f \in Frames : IF f \in X THEN n[f] = Junk ELSE SameShape(m[f], n[f])

LEMMA FreeStep ==
    ASSUME NEW m, NEW F, NEW n, NEW X, MemInv(m, F), Frees(m, n, X)
    PROVE  /\ MemInv(n, F \cup X)
           /\ \A f \in Frames : n[f].kind = IF f \in X THEN "junk" ELSE m[f].kind
           /\ \A d \in Frames : d \notin X => SameSpace(m, n, d)
           /\ \A d, f \in Frames, a \in Pages : MapsTo(n, d, a, f) <=> MapsTo(m, d, a, f) /\ f \notin X
<1>1. /\ n \in Mems /\ X \subseteq Frames /\ Closed(m, X)
      /\ \A f \in Frames : f \in X => n[f] = Junk
      /\ \A f \in Frames : f \notin X => SameShape(m[f], n[f])
  BY DEF Frees
<1>2. EntryInv(m)
  BY FreeFacts
<1>3. \A f \in Frames : n[f].kind = IF f \in X THEN "junk" ELSE m[f].kind
  BY <1>1, Makes DEF SameShape
<1>4. \A d, t \in Frames, i \in Pdx : Has(n, d, i, t) <=> Has(m, d, i, t) /\ d \notin X
  BY <1>1, <1>3 DEF Has, SameShape
<1>5. ASSUME NEW t \in Frames, NEW f \in Frames, NEW j \in Ptx
      PROVE  Holds(n, t, j, f) <=> Holds(m, t, j, f) /\ f \notin X
  <2>1. CASE t \in X
    BY <1>1, <1>3, <2>1 DEF Holds, Closed
  <2>2. CASE t \notin X
    <3>1. Holds(n, t, j, f) <=> Holds(m, t, j, f)
      BY <1>1, <1>3, <2>2 DEF Holds, SameShape
    <3> QED BY <1>1, <2>2, <3>1 DEF Closed
  <2> QED BY <2>1, <2>2
<1>6. EntryInv(n)
  BY <1>1, <1>2, <1>3 DEF EntryInv, SameShape
<1>7. Leaving(m, n, X)
  BY <1>1, <1>3, <1>4, <1>5, <1>6 DEF Leaving, Closed, Mems
<1>8. /\ MemInv(n, F \cup X)
      /\ \A d, f \in Frames, a \in Pages : MapsTo(n, d, a, f) <=> MapsTo(m, d, a, f) /\ f \notin X
  BY <1>7, LeaveStep
<1>9. ASSUME NEW d \in Frames, d \notin X PROVE SameSpace(m, n, d)
  <2>1. ASSUME NEW a \in Pages, NEW f \in Frames, MapsTo(m, d, a, f) PROVE f \notin X
    <3>1. PICK t \in Frames : Has(m, d, a \div PTSIZE, t) /\ Holds(m, t, a % PTSIZE, f)
      BY <2>1 DEF MapsTo
    <3>2. a \div PTSIZE \in Pdx /\ a % PTSIZE \in Ptx
      BY PageSplit
    <3> QED BY <1>1, <1>9, <3>1, <3>2 DEF Closed
  <2>2. \A a \in Pages : InSpace(n, d, a) <=> InSpace(m, d, a)
    BY <1>8, <2>1 DEF InSpace
  <2> QED BY <1>4, <1>9, <2>2 DEF SameSpace
<1> QED BY <1>3, <1>8, <1>9

\* The frames freevm frees.
LEMMA SpaceOf ==
    ASSUME MemInv(mem, free), NEW d \in Frames, mem[d].kind = "dir", NEW f
    PROVE  f \in Space(d) <=> \/ f = d
                              \/ f \in Frames /\ \E i \in Pdx : Has(mem, d, i, f)
                              \/ f \in Frames /\ \E a \in Pages : MapsTo(mem, d, a, f)
<1>1. PGROUNDUP(0) = 0
  <2>1. 0 * PGSIZE = 0
    BY Sizes
  <2> QED BY <2>1, RoundExact
<1>2. Dropped(d, KERNBASE, 0) = {a \in Pages : Mapped(d, a)}
  <2>1. \A a \in Pages : a >= 0 /\ a * PGSIZE < KERNBASE
    <3> SUFFICES ASSUME NEW a \in Pages PROVE a >= 0 /\ a * PGSIZE < KERNBASE
      OBVIOUS
    <3>1. a \in Nat /\ a + 1 <= NPAGES
      BY Sizes DEF Pages
    <3>2. (a + 1) * PGSIZE <= NPAGES * PGSIZE /\ (a + 1) * PGSIZE = a * PGSIZE + PGSIZE
      BY <3>1, Sizes, Times
    <3>3. a * PGSIZE \in Nat /\ NPAGES * PGSIZE \in Nat
      BY <3>1, Sizes, Times
    <3> QED BY <3>1, <3>2, <3>3, Sizes DEF KERNBASE
  <2>2. ~(0 >= KERNBASE)
    BY Sizes
  <2> QED BY <1>1, <2>1, <2>2 DEF Dropped
<1>3. f \in FramesOf(d, Dropped(d, KERNBASE, 0)) <=> f \in Frames /\ \E a \in Pages : MapsTo(mem, d, a, f)
  BY <1>2, EntryOf DEF FramesOf
<1>4. f \in TablesOf(d) <=> f \in Frames /\ \E i \in Pdx : Has(mem, d, i, f)
  <2>1. mem[d].pde \in [Pdx -> Frames \cup {None}] /\ DOMAIN mem[d].pde = Pdx
    BY FreeFacts, Kinds DEF Mems
  <2> QED BY <2>1, NoneAssumption DEF TablesOf, Has
<1> QED BY <1>3, <1>4 DEF Space

LEMMA SpaceClosed ==
    ASSUME MemInv(mem, free), NEW d \in Frames, mem[d].kind = "dir"
    PROVE  /\ Closed(mem, Space(d)) /\ Space(d) \subseteq Frames
           /\ \A f \in Space(d) : mem[f].kind \in {"table", "user"} \/ f = d
<1>1. LinkInv(mem)
  BY FreeFacts
<1>2. Space(d) \subseteq Frames
  BY SpaceOf
<1>3. ASSUME NEW f \in Space(d), f # d
      PROVE  \/ mem[f].kind = "table" /\ \E i \in Pdx : Has(mem, d, i, f)
             \/ mem[f].kind = "user" /\ \E a \in Pages : MapsTo(mem, d, a, f)
  <2>1. CASE f \in Frames /\ \E i \in Pdx : Has(mem, d, i, f)
    BY <1>1, <2>1 DEF LinkInv
  <2>2. CASE f \in Frames /\ \E a \in Pages : MapsTo(mem, d, a, f)
    BY <2>2, EntryOf
  <2> QED BY <1>3, <2>1, <2>2, SpaceOf
<1>4. ASSUME NEW c \in Frames, NEW t \in Frames, NEW i \in Pdx, Has(mem, c, i, t)
      PROVE  c \in Space(d) <=> t \in Space(d)
  <2>1. mem[c].kind = "dir" /\ mem[t].kind = "table"
    BY <1>1, <1>4 DEF LinkInv, Has
  <2>2. c \in Space(d) => c = d
    BY <1>3, <2>1
  <2>3. t \in Space(d) => \E k \in Pdx : Has(mem, d, k, t)
    BY <1>3, <2>1
  <2>4. t \in Space(d) => c = d
    BY <1>1, <1>4, <2>3 DEF LinkInv
  <2> QED BY <1>4, <2>2, <2>4, SpaceOf
<1>5. ASSUME NEW t \in Frames, NEW f \in Frames, NEW j \in Ptx, Holds(mem, t, j, f)
      PROVE  t \in Space(d) <=> f \in Space(d)
  <2>1. mem[t].kind = "table" /\ mem[f].kind = "user"
    BY <1>1, <1>5 DEF LinkInv, Holds
  <2>2. ASSUME t \in Space(d) PROVE f \in Space(d)
    <3>1. PICK i \in Pdx : Has(mem, d, i, t)
      BY <1>3, <2>1, <2>2
    <3>2. i \in Nat /\ i * PTSIZE + j \in Pages
      BY <1>1, <1>5, <3>1 DEF LinkInv, Pdx
    <3>3. MapsTo(mem, d, i * PTSIZE + j, f)
      BY <1>5, <3>1, <3>2, PageJoin DEF MapsTo
    <3> QED BY <3>2, <3>3, SpaceOf
  <2>3. ASSUME f \in Space(d) PROVE t \in Space(d)
    <3>1. PICK a \in Pages : MapsTo(mem, d, a, f)
      BY <1>3, <2>1, <2>3
    <3>2. PICK u \in Frames : Has(mem, d, a \div PTSIZE, u) /\ Holds(mem, u, a % PTSIZE, f)
      BY <3>1 DEF MapsTo
    <3>3. a \div PTSIZE \in Pdx /\ a % PTSIZE \in Ptx
      BY PageSplit
    <3>4. u = t
      BY <1>1, <1>5, <3>2, <3>3 DEF LinkInv
    <3> QED BY <3>2, <3>3, <3>4, SpaceOf
  <2> QED BY <2>2, <2>3
<1> QED BY <1>2, <1>3, <1>4, <1>5 DEF Closed

LEMMA ShapeSelf == ASSUME NEW x PROVE SameShape(x, x)
BY DEF SameShape

LEMMA JunkedFacts ==
    ASSUME NEW m \in Mems, NEW X
    PROVE  /\ Junked(m, X) \in Mems
           /\ \A f \in Frames : Junked(m, X)[f] = IF f \in X THEN Junk ELSE m[f]
BY Makes DEF Junked, Mems

\* With a kernel stack or without.
LEMMA ClosedMore ==
    ASSUME NEW m, LinkInv(m), NEW X, Closed(m, X), NEW k \in Frames, m[k].kind = "kstack"
    PROVE  Closed(m, X \cup {k})
<1>1. \A d, t \in Frames, i \in Pdx : Has(m, d, i, t) => d # k /\ t # k
  BY DEF LinkInv, Has
<1>2. \A t, f \in Frames, j \in Ptx : Holds(m, t, j, f) => t # k /\ f # k
  BY DEF LinkInv, Holds
<1> QED BY <1>1, <1>2 DEF Closed

LEMMA ClosedNone == ASSUME NEW m PROVE Closed(m, {})
BY DEF Closed

-----------------------------------------------------------------------------
(* deallocuvm. *)

\* Table i of d, without the entries of the pages S.
Cleared(t, i, S) == [mem[t] EXCEPT !.pte = [j \in 0..(PTSIZE - 1) |->
                        IF i * PTSIZE + j \in S THEN NoEntry ELSE mem[t].pte[j]]]

LEMMA ClearedFacts ==
    ASSUME NEW t \in Frames, mem[t] \in Contents, mem[t].kind = "table", NEW i, NEW S
    PROVE  /\ Cleared(t, i, S) \in Contents /\ Cleared(t, i, S).kind = "table"
           /\ \A j \in Ptx : Cleared(t, i, S).pte[j] =
                 IF i * PTSIZE + j \in S THEN NoEntry ELSE mem[t].pte[j]
<1> DEFINE x == mem[t].pte
           y == [j \in Ptx |-> IF i * PTSIZE + j \in S THEN NoEntry ELSE x[j]]
<1>1. x \in [Ptx -> Entries] /\ mem[t] = TableOf(x)
  BY Kinds
<1>2. y \in [Ptx -> Entries]
  BY <1>1, EmptyOnes
<1>3. Cleared(t, i, S) = TableOf(y)
  <2>1. Cleared(t, i, S) = [mem[t] EXCEPT !.pte = y]
    BY DEF Cleared, Ptx
  <2>2. \A z : [TableOf(x) EXCEPT !.pte = z] = TableOf(z)
    BY DEF TableOf
  <2> HIDE DEF y
  <2> QED BY <1>1, <2>1, <2>2
<1>4. \A j \in Ptx : y[j] = IF i * PTSIZE + j \in S THEN NoEntry ELSE x[j]
  OBVIOUS
<1> HIDE DEF y
<1> QED BY <1>2, <1>3, <1>4, Makes

LEMMA Without ==
    ASSUME MemInv(mem, free), NEW d \in Frames, mem[d].kind = "dir", NEW S
    PROVE  /\ WithoutPages(d, S) \in Mems
           /\ \A f \in Frames : WithoutPages(d, S)[f].kind = mem[f].kind
           /\ \A t \in Frames, i \in Pdx : Has(mem, d, i, t) /\ i < UTABLES =>
                \A j \in Ptx : WithoutPages(d, S)[t].pte[j] =
                    IF i * PTSIZE + j \in S THEN NoEntry ELSE mem[t].pte[j]
           /\ \A f \in Frames : (\A i \in Pdx : ~(Has(mem, d, i, f) /\ i < UTABLES)) =>
                WithoutPages(d, S)[f] = mem[f]
<1> DEFINE W == WithoutPages(d, S)
           U == {mem[d].pde[i] : i \in 0..(UTABLES - 1)} \ {None}
<1>1. mem \in Mems /\ LinkInv(mem)
  BY FreeFacts
<1>2. mem[d].pde \in [Pdx -> Frames \cup {None}]
  BY <1>1, Kinds DEF Mems
<1>3. \A i : i \in 0..(UTABLES - 1) <=> i \in Pdx /\ i < UTABLES
  BY Sizes DEF Pdx
<1>4. \A f \in Frames : f \in U <=> \E i \in Pdx : Has(mem, d, i, f) /\ i < UTABLES
  BY <1>2, <1>3, NoneAssumption DEF Has
<1>5. /\ \A f \in Frames : f \in U => W[f] = Cleared(f, CHOOSE i \in 0..(UTABLES - 1) : mem[d].pde[i] = f, S)
      /\ \A f \in Frames : f \notin U => W[f] = mem[f]
      /\ W \in [Frames -> {W[f] : f \in Frames}]
  BY DEF WithoutPages, Cleared
<1>6. ASSUME NEW t \in Frames, NEW i \in Pdx, Has(mem, d, i, t), i < UTABLES
      PROVE  (CHOOSE k \in 0..(UTABLES - 1) : mem[d].pde[k] = t) = i
  <2>1. \A k \in 0..(UTABLES - 1) : mem[d].pde[k] = t => k = i
    BY <1>1, <1>3, <1>6 DEF LinkInv, Has
  <2>2. i \in 0..(UTABLES - 1) /\ mem[d].pde[i] = t
    BY <1>3, <1>6 DEF Has
  <2> QED BY <2>1, <2>2
<1> HIDE DEF W, U
<1>7. ASSUME NEW t \in Frames, NEW i \in Pdx, Has(mem, d, i, t), i < UTABLES
      PROVE  W[t] = Cleared(t, i, S) /\ mem[t].kind = "table" /\ mem[t] \in Contents
  BY <1>1, <1>4, <1>5, <1>6, <1>7, ZenonT(120) DEF LinkInv, Mems
<1>8. ASSUME NEW f \in Frames PROVE W[f] \in Contents /\ W[f].kind = mem[f].kind
  <2>1. CASE f \in U
    <3>1. PICK i \in Pdx : Has(mem, d, i, f) /\ i < UTABLES
      BY <1>4, <2>1
    <3> QED BY <1>7, <3>1, ClearedFacts
  <2>2. CASE f \notin U
    BY <1>1, <1>5, <2>2 DEF Mems
  <2> QED BY <2>1, <2>2
<1>9. W \in Mems
  BY <1>5, <1>8 DEF Mems
<1>10. \A t \in Frames, i \in Pdx : Has(mem, d, i, t) /\ i < UTABLES =>
         \A j \in Ptx : W[t].pte[j] = IF i * PTSIZE + j \in S THEN NoEntry ELSE mem[t].pte[j]
  BY <1>7, ClearedFacts
<1>11. \A f \in Frames : (\A i \in Pdx : ~(Has(mem, d, i, f) /\ i < UTABLES)) => W[f] = mem[f]
  BY <1>4, <1>5
<1> QED BY <1>8, <1>9, <1>10, <1>11 DEF W

LEMMA DropStep ==
    ASSUME MemInv(mem, free), NEW d \in Frames, mem[d].kind = "dir", NEW S \in SUBSET Pages,
           \A a \in S : Mapped(d, a),
           free' = free \cup FramesOf(d, S),
           mem' = Junked(WithoutPages(d, S), FramesOf(d, S))
    PROVE  /\ MemInv(mem', free') /\ SameRoots(mem, mem')
           /\ \A c \in Frames : c # d => SameSpace(mem, mem', c)
           /\ \A x \in Pages : InSpace(mem', d, x) <=> InSpace(mem, d, x) /\ x \notin S
<1>x. PICK X : X = FramesOf(d, S)
  OBVIOUS
<1>w. PICK W : W = WithoutPages(d, S)
  OBVIOUS
<1>1. mem \in Mems /\ EntryInv(mem) /\ LinkInv(mem)
  BY FreeFacts
<1>2. \A f \in X : f \in Frames /\ mem[f].kind = "user" /\ \E a \in S : MapsTo(mem, d, a, f)
  BY <1>x, EntryOf DEF FramesOf
<1>3. \A f \in Frames, a \in S : MapsTo(mem, d, a, f) => f \in X
  BY <1>x, EntryOf DEF FramesOf
<1>4. /\ W \in Mems
      /\ \A f \in Frames : W[f].kind = mem[f].kind
      /\ \A t \in Frames, i \in Pdx : Has(mem, d, i, t) /\ i < UTABLES =>
            \A j \in Ptx : W[t].pte[j] = IF i * PTSIZE + j \in S THEN NoEntry ELSE mem[t].pte[j]
      /\ \A f \in Frames : (\A i \in Pdx : ~(Has(mem, d, i, f) /\ i < UTABLES)) => W[f] = mem[f]
  BY <1>w, Without
<1>5. mem' \in Mems /\ \A f \in Frames : mem'[f] = IF f \in X THEN Junk ELSE W[f]
  BY <1>4, <1>w, <1>x, JunkedFacts
<1>6. \A f \in Frames : mem'[f].kind = IF f \in X THEN "junk" ELSE mem[f].kind
  BY <1>4, <1>5, Makes
<1>7. ASSUME NEW c \in Frames, NEW t \in Frames, NEW i \in Pdx
      PROVE  Has(mem', c, i, t) <=> Has(mem, c, i, t) /\ c \notin X
  <2>1. mem[c].kind = "dir" => W[c] = mem[c] /\ c \notin X
    BY <1>1, <1>2, <1>4 DEF LinkInv
  <2> QED BY <1>5, <1>6, <2>1 DEF Has
<1>8. ASSUME NEW t \in Frames, NEW f \in Frames, NEW j \in Ptx
      PROVE  Holds(mem', t, j, f) <=> Holds(mem, t, j, f) /\ f \notin X
  <2>1. CASE mem[t].kind # "table"
    BY <1>6, <2>1 DEF Holds
  <2>2. CASE mem[t].kind = "table" /\ \E i \in Pdx : Has(mem, d, i, t) /\ i < UTABLES
    <3>1. PICK i \in Pdx : Has(mem, d, i, t) /\ i < UTABLES
      BY <2>2
    <3>a. PICK a : a = i * PTSIZE + j
      OBVIOUS
    <3>2. t \notin X /\ mem'[t] = W[t] /\ W[t].kind = "table"
      BY <1>2, <1>4, <1>5, <2>2
    <3>3. i \in Nat /\ a \div PTSIZE = i /\ a % PTSIZE = j
      BY <3>a, PageJoin DEF Pdx
    <3>4. Holds(mem, t, j, f) => a \in Pages /\ MapsTo(mem, d, a, f)
      <4>1. ASSUME Holds(mem, t, j, f) PROVE a \in Pages
        BY <1>1, <3>1, <3>a, <4>1 DEF LinkInv
      <4> QED BY <3>1, <3>3, <4>1 DEF MapsTo
    <3>5. CASE a \in S
      <4>1. W[t].pte[j] = NoEntry
        BY <1>4, <3>1, <3>5, <3>a
      <4>2. ~Holds(mem', t, j, f)
        BY <3>2, <4>1, EmptyOnes DEF Holds
      <4> QED BY <1>3, <3>4, <3>5, <4>2
    <3>6. CASE a \notin S
      <4>1. W[t].pte[j] = mem[t].pte[j]
        BY <1>4, <3>1, <3>6, <3>a
      <4>2. Holds(mem', t, j, f) <=> Holds(mem, t, j, f)
        BY <2>2, <3>2, <4>1 DEF Holds
      <4>3. ASSUME Holds(mem, t, j, f), f \in X PROVE FALSE
        <5>1. PICK b \in S : MapsTo(mem, d, b, f)
          BY <1>2, <4>3
        <5>2. a \in Pages /\ MapsTo(mem, d, a, f) /\ b \in Pages
          BY <3>4, <4>3
        <5> QED BY <1>1, <3>6, <5>1, <5>2, OnePage
      <4> QED BY <4>2, <4>3
    <3> QED BY <3>5, <3>6
  <2>3. CASE mem[t].kind = "table" /\ ~\E i \in Pdx : Has(mem, d, i, t) /\ i < UTABLES
    <3>1. t \notin X /\ W[t] = mem[t]
      BY <1>2, <1>4, <2>3
    <3>2. Holds(mem', t, j, f) <=> Holds(mem, t, j, f)
      BY <1>5, <3>1 DEF Holds
    <3>3. ASSUME Holds(mem, t, j, f), f \in X PROVE FALSE
      <4>1. PICK b \in S : MapsTo(mem, d, b, f)
        BY <1>2, <3>3
      <4>2. PICK u \in Frames : Has(mem, d, b \div PTSIZE, u) /\ Holds(mem, u, b % PTSIZE, f)
        BY <4>1 DEF MapsTo
      <4>3. b \in Pages /\ b \div PTSIZE \in Pdx /\ b % PTSIZE \in Ptx /\ b \div PTSIZE < UTABLES
        BY PageSplit, Sizes
      <4>4. u = t
        BY <1>1, <3>3, <4>2, <4>3 DEF LinkInv
      <4> QED BY <2>3, <4>2, <4>3, <4>4
    <3> QED BY <3>2, <3>3
  <2> QED BY <2>1, <2>2, <2>3
<1>9. EntryInv(mem')
  <2> SUFFICES ASSUME NEW t \in Frames, NEW j \in Ptx, mem'[t].kind = "table"
               PROVE  mem'[t].pte[j].p \/ mem'[t].pte[j].e <=> mem'[t].pte[j].frame \in Frames
    BY DEF EntryInv
  <2>1. t \notin X /\ mem'[t] = W[t] /\ mem[t].kind = "table"
    BY <1>5, <1>6
  <2>2. W[t].pte[j] = NoEntry \/ W[t].pte[j] = mem[t].pte[j]
    BY <1>4
  <2> QED BY <1>1, <2>1, <2>2, EmptyOnes DEF EntryInv
<1>10. Leaving(mem, mem', X)
  <2>1. \A c, t \in Frames, i \in Pdx : Has(mem, c, i, t) => (c \in X <=> t \in X)
    BY <1>1, <1>2 DEF LinkInv, Has
  <2>2. \A t, f \in Frames, j \in Ptx : Holds(mem, t, j, f) => (t \in X => f \in X)
    BY <1>2 DEF Holds
  <2> QED BY <1>2, <1>5, <1>6, <1>7, <1>8, <1>9, <2>1, <2>2 DEF Leaving, Mems
<1>11. /\ MemInv(mem', free')
       /\ \A c, f \in Frames, a \in Pages : MapsTo(mem', c, a, f) <=> MapsTo(mem, c, a, f) /\ f \notin X
  <2>1. free' = free \cup X
    BY <1>x
  <2>2. MemInv(mem, free) /\ Leaving(mem, mem', X)
    BY <1>10
  <2> QED BY ONLY <2>1, <2>2, LeaveStep
<1>12. SameRoots(mem, mem')
  BY <1>2, <1>6 DEF SameRoots
<1>13. ASSUME NEW c \in Frames, NEW a \in Pages, NEW f \in Frames, MapsTo(mem, c, a, f)
       PROVE  f \in X <=> c = d /\ a \in S
  <2>1. f \in X => c = d /\ a \in S
    BY <1>1, <1>2, <1>13, OnePage
  <2> QED BY <1>3, <1>13, <2>1
<1>14. ASSUME NEW c \in Frames, c # d PROVE SameSpace(mem, mem', c)
  <2>1. \A a \in Pages : InSpace(mem', c, a) <=> InSpace(mem, c, a)
    BY <1>11, <1>13, <1>14 DEF InSpace
  <2>2. \A i \in Pdx, t \in Frames : Has(mem', c, i, t) <=> Has(mem, c, i, t)
    BY <1>2, <1>7 DEF Has
  <2> QED BY <2>1, <2>2 DEF SameSpace
<1>15. \A a \in Pages : InSpace(mem', d, a) <=> InSpace(mem, d, a) /\ a \notin S
  BY <1>11, <1>13 DEF InSpace
<1> QED BY <1>11, <1>12, <1>14, <1>15

-----------------------------------------------------------------------------
(* Processes that a step is not about. *)

LEMMA IdleReg ==
    /\ Idle \in Regs /\ Idle.pc = "user" /\ Idle.d = None /\ Idle.np = None
    /\ Idle.i = 0 /\ Idle.old = 0
BY DEF Idle, Regs, PCs

\* A process keeps its invariant when its address spaces are left alone.
LEMMA FrameProc ==
    ASSUME NEW m, NEW n, NEW s, NEW D, NEW z, NEW r, ProcInv(m, s, D, z, r),
           s = "RUN" => SameSpace(m, n, D),
           r.d # None => SameSpace(m, n, r.d)
    PROVE  ProcInv(n, s, D, z, r)
<1>1. CASE s # "RUN"
  BY <1>1 DEF ProcInv
<1>2. CASE s = "RUN"
  <2>1. \A x : Upto(m, D, x) => Upto(n, D, x)
    BY <1>2 DEF SameSpace, Upto
  <2>2. r.d # None => \A x : Upto(m, r.d, x) => Upto(n, r.d, x)
    BY DEF SameSpace, Upto
  <2>3. UserInv(m, D, z, r) /\ CallInv(m, z, r)
    BY <1>2 DEF ProcInv
  <2>4. UserInv(n, D, z, r)
    BY <2>1, <2>3 DEF UserInv
  <2>5. CallInv(n, z, r)
    <3>1. r.pc \notin {"user", "kvmdir"} => r.d # None
      BY <2>3 DEF CallInv
    <3>2. r.pc = "kvm" => \A i \in Pdx, t \in Frames : Has(n, r.d, i, t) => i < UTABLES + r.i
      BY <2>3, <3>1 DEF CallInv, SameSpace
    <3> QED BY <2>2, <2>3, <3>1, <3>2 DEF CallInv
  <2> QED BY <1>2, <2>4, <2>5 DEF ProcInv
<1> QED BY <1>1, <1>2

\* What a process in a system call has.
LEMMA Mine ==
    ASSUME MInv, NEW p \in Procs, state[p] = "RUN"
    PROVE  /\ reg[p] \in Regs /\ sz[p] \in Nat /\ sz[p] < KERNBASE
           /\ UserInv(mem, pgdir[p], sz[p], reg[p]) /\ CallInv(mem, sz[p], reg[p])
           /\ HasDir(p) /\ pgdir[p] \in Frames /\ mem[pgdir[p]].kind = "dir"
           /\ reg[p].pc \notin {"user", "kvmdir"} => reg[p].d \in Frames /\ mem[reg[p].d].kind = "dir"
           /\ MemInv(mem, free)
<1>1. /\ TableInv /\ RootInv /\ MemInv(mem, free)
      /\ ProcInv(mem, state[p], pgdir[p], sz[p], reg[p])
  BY DEF MInv
<1>2. reg[p] \in Regs /\ sz[p] \in Nat /\ sz[p] < KERNBASE
  BY <1>1, Sizes DEF TableInv
<1>3. UserInv(mem, pgdir[p], sz[p], reg[p]) /\ CallInv(mem, sz[p], reg[p])
  BY <1>1 DEF ProcInv
<1>4. HasDir(p) /\ pgdir[p] \in Frames /\ mem[pgdir[p]].kind = "dir"
  BY <1>1 DEF RootInv, HasDir
<1>5. ASSUME reg[p].pc \notin {"user", "kvmdir"}
      PROVE  reg[p].d \in Frames /\ mem[reg[p].d].kind = "dir"
  <2>1. reg[p].d # None
    BY <1>3, <1>5 DEF CallInv
  <2>2. CASE reg[p].pc = "grow"
    BY <1>3, <1>4, <2>2 DEF UserInv
  <2>3. CASE reg[p].pc # "grow"
    BY <1>1, <2>1, <2>3 DEF RootInv, HasNew
  <2> QED BY <2>2, <2>3
<1> QED BY <1>1, <1>2, <1>3, <1>4, <1>5

\* Nobody else has the address spaces of p.
Own(p) == {pgdir[p], reg[p].d}
LEMMA Apart ==
    ASSUME MInv, NEW p \in Procs, NEW q \in Procs, p # q, state[p] = "RUN"
    PROVE  /\ HasDir(q) => pgdir[q] \in Frames \ Own(p)
           /\ reg[q].d # None => reg[q].d \in Frames \ Own(p)
<1>1. RootInv
  BY DEF MInv
<1>2. HasDir(p) /\ pgdir[p] \in Frames /\ UserInv(mem, pgdir[p], sz[p], reg[p])
  BY Mine
<1>3. reg[p].d = None \/ reg[p].d = pgdir[p] \/ HasNew(p)
  BY <1>2 DEF HasNew, UserInv
<1>4. HasDir(q) => pgdir[q] \in Frames \ Own(p)
  <2> SUFFICES ASSUME HasDir(q) PROVE pgdir[q] \in Frames \ Own(p)
    OBVIOUS
  <2>1. pgdir[q] \in Frames /\ pgdir[q] # pgdir[p] /\ (HasNew(p) => pgdir[q] # reg[p].d)
    BY <1>1, <1>2 DEF RootInv
  <2> QED BY <1>3, <2>1, NoneAssumption DEF Own
<1>5. ASSUME reg[q].d # None PROVE reg[q].d \in Frames \ Own(p)
  <2>1. CASE HasNew(q)
    <3>1. reg[q].d \in Frames /\ reg[q].d # pgdir[p] /\ (HasNew(p) => reg[q].d # reg[p].d)
      BY <1>1, <1>2, <2>1 DEF RootInv
    <3> QED BY <1>3, <3>1, NoneAssumption DEF Own
  <2>2. CASE ~HasNew(q)
    <3>1. reg[q].pc = "grow"
      BY <1>5, <2>2 DEF HasNew
    <3>2. state[q] = "RUN"
      <4>1. ProcInv(mem, state[q], pgdir[q], sz[q], reg[q])
        BY DEF MInv
      <4> QED BY <3>1, <4>1, IdleReg DEF ProcInv
    <3>3. reg[q].d = pgdir[q] /\ HasDir(q)
      BY <3>1, <3>2, Mine DEF UserInv
    <3> QED BY <1>4, <3>3
  <2> QED BY <2>1, <2>2
<1> QED BY <1>4, <1>5

\* A step of p that makes and frees no directory and no kernel stack.
LEMMA LocalStep ==
    ASSUME MInv, NEW p \in Procs, state[p] = "RUN", UNCHANGED <<state, kstack, pgdir, parent, panicked>>,
           reg' \in [Procs -> Regs], sz' \in [Procs -> 0..(KERNBASE - 1)],
           \A q \in Procs : q # p => reg'[q] = reg[q] /\ sz'[q] = sz[q],
           MemInv(mem', free'), SameRoots(mem, mem'),
           \A c \in Frames : c \notin Own(p) => SameSpace(mem, mem', c),
           HasNew(p)' <=> HasNew(p), HasNew(p) => reg'[p].d = reg[p].d, reg'[p].np = reg[p].np,
           UserInv(mem', pgdir[p], sz'[p], reg'[p]), CallInv(mem', sz'[p], reg'[p])
    PROVE  MInv'
<1>1. TableInv /\ PanicInv /\ RootInv /\ StackInv /\ ChildInv
  BY DEF MInv
<1>2. TableInv' /\ PanicInv'
  BY <1>1 DEF TableInv, PanicInv
<1>3. /\ \A q \in Procs : HasDir(q)' <=> HasDir(q)
      /\ \A q \in Procs : HasNew(q)' <=> HasNew(q)
      /\ \A q \in Procs : HasNew(q) => reg'[q].d = reg[q].d
      /\ \A q \in Procs : reg'[q].np = reg[q].np
  BY DEF HasDir, HasNew
<1>4. RootInv'
  <2>1. /\ \A q \in Procs : HasDir(q)' => pgdir'[q] \in Frames /\ mem'[pgdir'[q]].kind = "dir"
        /\ \A q \in Procs : HasNew(q)' => reg'[q].d \in Frames /\ mem'[reg'[q].d].kind = "dir"
    BY <1>1, <1>3 DEF RootInv, SameRoots
  <2>2. /\ \A r, q \in Procs : HasDir(r)' /\ HasDir(q)' /\ pgdir'[r] = pgdir'[q] => r = q
        /\ \A r, q \in Procs : HasNew(r)' /\ HasNew(q)' /\ reg'[r].d = reg'[q].d => r = q
        /\ \A r, q \in Procs : HasDir(r)' /\ HasNew(q)' => pgdir'[r] # reg'[q].d
    BY <1>1, <1>3 DEF RootInv
  <2>3. \A f \in Frames : mem'[f].kind = "dir" =>
          \E q \in Procs : (HasDir(q)' /\ pgdir'[q] = f) \/ (HasNew(q)' /\ reg'[q].d = f)
    BY <1>1, <1>3 DEF RootInv, SameRoots
  <2> QED BY <2>1, <2>2, <2>3 DEF RootInv
<1>5. StackInv'
  BY <1>1 DEF StackInv, SameRoots
<1>6. ChildInv'
  BY <1>1, <1>3 DEF ChildInv
<1>7. ASSUME NEW q \in Procs PROVE ProcInv(mem, state[q], pgdir[q], sz[q], reg[q])'
  <2>1. CASE q = p
    BY <2>1 DEF ProcInv
  <2>2. CASE q # p
    <3>1. /\ state[q] = "RUN" => SameSpace(mem, mem', pgdir[q])
          /\ reg[q].d # None => SameSpace(mem, mem', reg[q].d)
      BY <2>2, Apart DEF HasDir
    <3>2. ProcInv(mem, state[q], pgdir[q], sz[q], reg[q])
      BY DEF MInv
    <3>3. ProcInv(mem', state[q], pgdir[q], sz[q], reg[q])
      BY <3>1, <3>2, FrameProc
    <3> QED BY <2>2, <3>3
  <2> QED BY <2>1, <2>2
<1> QED BY <1>2, <1>4, <1>5, <1>6, <1>7 DEF MInv

-----------------------------------------------------------------------------
(* sbrk, and the loop of allocuvm. *)

\* The locals of a call.
SetI(r, x) == [r EXCEPT !.i = x]
LEMMA RegStep ==
    ASSUME NEW r \in Regs, NEW x \in Nat
    PROVE  /\ SetI(r, x) \in Regs /\ SetI(r, x).pc = r.pc /\ SetI(r, x).d = r.d
           /\ SetI(r, x).i = x /\ SetI(r, x).old = r.old /\ SetI(r, x).end = r.end
           /\ SetI(r, x).np = r.np /\ SetI(r, x).image = r.image
BY DEF Regs, SetI

LEMMA SetReg ==
    ASSUME MInv, NEW p \in Procs, NEW s \in Regs, reg' = [reg EXCEPT ![p] = s]
    PROVE  reg' \in [Procs -> Regs] /\ reg'[p] = s /\ \A q \in Procs : q # p => reg'[q] = reg[q]
BY DEF MInv, TableInv

LEMMA UptoSame ==
    ASSUME NEW m, NEW n, NEW d, SameSpace(m, n, d), NEW x, Upto(m, d, x)
    PROVE  Upto(n, d, x)
BY DEF SameSpace, Upto

LEMMA SpaceSelf == ASSUME NEW m, NEW d PROVE SameSpace(m, m, d) /\ SameRoots(m, m)
BY DEF SameSpace, SameRoots

\* The new directory is not the old one.
LEMMA TwoDirs ==
    ASSUME MInv, NEW p \in Procs, state[p] = "RUN", reg[p].pc \notin {"user", "kvmdir", "grow"}
    PROVE  pgdir[p] # reg[p].d /\ HasNew(p)
<1>1. RootInv /\ HasDir(p) /\ CallInv(mem, sz[p], reg[p])
  BY Mine DEF MInv
<1>2. HasNew(p)
  BY <1>1 DEF HasNew, CallInv
<1> QED BY <1>1, <1>2 DEF RootInv

\* Page i is the next one when the pages are those below i.
LEMMA NextPage ==
    ASSUME MemInv(mem, free), NEW d \in Frames, mem[d].kind = "dir", NEW i \in Pages, Upto(mem, d, i)
    PROVE  ~Mapped(d, i)
<1>1. ~InSpace(mem, d, i)
  BY DEF Upto, Pages
<1> QED BY <1>1, EntryOf

LEMMA AllocPageInv ==
    ASSUME MInv, NEW p \in Procs, AllocPage(p)
    PROVE  MInv'
<1>1. /\ state[p] = "RUN" /\ reg[p].pc \in {"grow", "load", "stack"} /\ ~AllDone(p)
  BY DEF AllocPage, Allocating, At
<1>2. /\ reg[p] \in Regs /\ UserInv(mem, pgdir[p], sz[p], reg[p]) /\ CallInv(mem, sz[p], reg[p])
      /\ pgdir[p] \in Frames /\ reg[p].d \in Frames /\ mem[reg[p].d].kind = "dir" /\ MemInv(mem, free)
  BY <1>1, Mine
<1>d. PICK d : d = reg[p].d
  OBVIOUS
<1>i. PICK i : i = reg[p].i
  OBVIOUS
<1>3. /\ i \in Nat /\ reg[p].end \in Nat /\ i * PGSIZE < reg[p].end /\ reg[p].end < KERNBASE
      /\ PGROUNDUP(reg[p].old) <= i /\ i <= PGROUNDUP(reg[p].end) /\ reg[p].old \in Nat
  <2>1. i \in Nat /\ reg[p].end \in Nat /\ reg[p].old \in Nat
    BY <1>2, <1>i DEF Regs
  <2>2. i * PGSIZE \in Nat
    BY <2>1, Sizes, Times
  <2> QED BY <1>1, <1>2, <1>i, <2>1, <2>2 DEF CallInv, AllDone
<1>4. i < PGROUNDUP(reg[p].end) /\ PGROUNDUP(reg[p].end) \in Nat /\ i \in Pages
  BY <1>3, RoundUp, RoundBound
<1>5. Upto(mem, d, i)
  BY <1>1, <1>2, <1>d, <1>i DEF UserInv, CallInv
<1>6. ~Mapped(d, i) /\ d \in Frames /\ mem[d].kind = "dir"
  BY <1>2, <1>4, <1>5, <1>d, NextPage
<1>7. /\ CanMap(d, i) /\ mappages(d, i, 0, FALSE, TRUE)
      /\ reg' = [reg EXCEPT ![p].i = @ + 1] /\ UNCHANGED <<ptable, panicked>>
  BY <1>6, <1>d, <1>i DEF AllocPage
<1>8. /\ MemInv(mem', free') /\ SameRoots(mem, mem')
      /\ \A c \in Frames : c # d => SameSpace(mem, mem', c)
      /\ \A x \in Pages : InSpace(mem', d, x) <=> InSpace(mem, d, x) \/ x = i
  <2>1. 0 \in Byte
    BY SizeAssumption DEF Byte
  <2> QED BY <1>2, <1>4, <1>6, <1>7, <2>1, MapPages
<1>9. Upto(mem', d, i + 1)
  BY <1>4, <1>5, <1>8 DEF Upto, Pages
<1>10. /\ reg' \in [Procs -> Regs] /\ \A q \in Procs : q # p => reg'[q] = reg[q]
       /\ reg'[p].pc = reg[p].pc /\ reg'[p].d = d /\ reg'[p].i = i + 1 /\ reg'[p].old = reg[p].old
       /\ reg'[p].end = reg[p].end /\ reg'[p].np = reg[p].np /\ reg'[p].image = reg[p].image
  <2>s. PICK s : s = SetI(reg[p], i + 1)
    OBVIOUS
  <2>2. /\ s \in Regs /\ s.pc = reg[p].pc /\ s.d = d /\ s.i = i + 1 /\ s.old = reg[p].old
        /\ s.end = reg[p].end /\ s.np = reg[p].np /\ s.image = reg[p].image
    <3>1. reg[p] \in Regs /\ i + 1 \in Nat
      BY <1>2, <1>3
    <3> QED BY ONLY <1>d, <2>s, <3>1, RegStep
  <2>3. reg' = [reg EXCEPT ![p] = s]
    BY <1>7, <1>i, <2>s DEF SetI
  <2> QED BY <2>2, <2>3, SetReg
<1>11. UserInv(mem', pgdir[p], sz[p], reg'[p])
  <2>1. CASE reg[p].pc = "grow"
    <3>1. pgdir[p] = d
      BY <1>2, <1>d, <2>1 DEF UserInv
    <3> QED BY <1>2, <1>9, <1>10, <2>1, <3>1 DEF UserInv
  <2>2. CASE reg[p].pc \in {"load", "stack"}
    <3>1. Upto(mem, pgdir[p], PGROUNDUP(sz[p])) /\ pgdir[p] # d
      BY <1>1, <1>2, <1>d, <2>2, TwoDirs DEF UserInv
    <3>2. Upto(mem', pgdir[p], PGROUNDUP(sz[p]))
      BY <1>2, <1>8, <3>1, UptoSame
    <3> QED BY <1>10, <2>2, <3>2 DEF UserInv
  <2> QED BY <1>1, <2>1, <2>2
<1>12. CallInv(mem', sz[p], reg'[p])
  <2>1. i + 1 <= PGROUNDUP(reg[p].end) /\ PGROUNDUP(reg[p].old) <= i + 1
    BY <1>3, <1>4, RoundType
  <2> QED BY <1>1, <1>2, <1>9, <1>10, <1>d, <2>1 DEF CallInv
<1>13. (HasNew(p)' <=> HasNew(p)) /\ reg'[p].d = reg[p].d
  BY <1>10, <1>d DEF HasNew
<1>14. sz' = sz /\ sz \in [Procs -> 0..(KERNBASE - 1)] /\ UNCHANGED <<state, kstack, pgdir, parent, panicked>>
  BY <1>7 DEF MInv, TableInv, ptable
<1>15. \A c \in Frames : c \notin Own(p) => SameSpace(mem, mem', c)
  BY <1>8, <1>d DEF Own
<1> QED BY <1>1, <1>8, <1>10, <1>11, <1>12, <1>13, <1>14, <1>15, LocalStep

\* The pages deallocuvm leaves.
LEMMA DropUpto ==
    ASSUME MemInv(mem, free), NEW d \in Frames, mem[d].kind = "dir", NEW i \in Nat, Upto(mem, d, i),
           NEW old \in Nat, NEW new \in Nat, i <= PGROUNDUP(old), deallocuvm(d, old, new)
    PROVE  /\ MemInv(mem', free') /\ SameRoots(mem, mem')
           /\ \A c \in Frames : c # d => SameSpace(mem, mem', c)
           /\ new >= old => Upto(mem', d, i)
           /\ new < old => \A n \in Nat : PGROUNDUP(new) <= i /\ n = PGROUNDUP(new) => Upto(mem', d, n)
<1>s. PICK S : S = Dropped(d, old, new)
  OBVIOUS
<1>1. S \in SUBSET Pages /\ \A a \in S : Mapped(d, a)
  BY <1>s DEF Dropped
<1>2. free' = free \cup FramesOf(d, S) /\ mem' = Junked(WithoutPages(d, S), FramesOf(d, S))
  BY <1>s DEF deallocuvm, Freed
<1>3. /\ MemInv(mem', free') /\ SameRoots(mem, mem')
      /\ \A c \in Frames : c # d => SameSpace(mem, mem', c)
      /\ \A x \in Pages : InSpace(mem', d, x) <=> InSpace(mem, d, x) /\ x \notin S
  BY <1>1, <1>2, DropStep
<1>4. new >= old => Upto(mem', d, i)
  <2>1. new >= old => S = {}
    BY <1>s DEF Dropped
  <2> QED BY <1>3, <2>1 DEF Upto
<1>5. ASSUME new < old, NEW n \in Nat, n <= i, n = PGROUNDUP(new) PROVE Upto(mem', d, n)
  <2> SUFFICES ASSUME NEW a \in Pages PROVE InSpace(mem', d, a) <=> a < n
    BY DEF Upto
  <2>1. a \in Nat /\ (InSpace(mem, d, a) <=> a < i) /\ (Mapped(d, a) <=> InSpace(mem, d, a))
    BY EntryOf, Sizes DEF Upto, Pages
  <2>2. a < i => a * PGSIZE < old
    BY <2>1, RoundUp
  <2>3. a \in S <=> a >= n /\ a * PGSIZE < old /\ Mapped(d, a)
    BY <1>5, <1>s DEF Dropped
  <2> QED BY <1>3, <1>5, <2>1, <2>2, <2>3
<1> QED BY <1>3, <1>4, <1>5

\* A process that can fetch its instructions has its pages.
LEMMA RunsUpto ==
    ASSUME MInv, NEW p \in Procs, Runs(p)
    PROVE  /\ state[p] = "RUN" /\ panicked = "no" /\ reg[p] = Idle
           /\ Upto(mem, pgdir[p], PGROUNDUP(sz[p]))
<1>1. state[p] = "RUN" /\ panicked = "no" /\ reg[p].pc = "user"
  BY DEF Runs, At
<1>2. /\ UserInv(mem, pgdir[p], sz[p], reg[p]) /\ pgdir[p] \in Frames /\ mem[pgdir[p]].kind = "dir"
      /\ MemInv(mem, free)
  BY <1>1, Mine
<1>3. InSpace(mem, pgdir[p], 0)
  <2>1. 0 \in Pages /\ Mapped(pgdir[p], 0)
    BY Sizes DEF Runs, Mapped
  <2> QED BY <1>2, <2>1, EntryOf
<1>4. ~Upto(mem, pgdir[p], 0)
  BY <1>3, Sizes DEF Upto
<1> QED BY <1>1, <1>2, <1>4 DEF UserInv

SetAlloc(r, pc, d, i, old, end) ==
    [r EXCEPT !.pc = pc, !.d = d, !.i = i, !.old = old, !.end = end]
LEMMA RegAlloc ==
    ASSUME NEW r \in Regs, NEW pc \in PCs, NEW d \in Frames, NEW i \in Nat, NEW old \in Nat, NEW end \in Nat,
           NEW s, s = SetAlloc(r, pc, d, i, old, end)
    PROVE  /\ s \in Regs /\ s.pc = pc /\ s.d = d /\ s.i = i /\ s.old = old /\ s.end = end
           /\ s.np = r.np /\ s.image = r.image
BY DEF Regs, SetAlloc

\* allocuvm is called.
LEMMA AllocCall ==
    ASSUME MInv, NEW p \in Procs, state[p] = "RUN", NEW pc \in PCs, NEW d \in Frames, NEW old \in Nat, NEW end \in Nat,
           allocuvm(p, pc, d, old, end)
    PROVE  /\ reg' \in [Procs -> Regs] /\ \A q \in Procs : q # p => reg'[q] = reg[q]
           /\ reg'[p].pc = pc /\ reg'[p].d = d /\ reg'[p].i = PGROUNDUP(old) /\ reg'[p].old = old
           /\ reg'[p].end = end /\ reg'[p].np = reg[p].np /\ reg'[p].image = reg[p].image
<1>1. reg[p] \in Regs /\ PGROUNDUP(old) \in Nat
  BY Mine, RoundType
<1>s. PICK s : s = SetAlloc(reg[p], pc, d, PGROUNDUP(old), old, end)
  OBVIOUS
<1>2. /\ s \in Regs /\ s.pc = pc /\ s.d = d /\ s.i = PGROUNDUP(old) /\ s.old = old /\ s.end = end
      /\ s.np = reg[p].np /\ s.image = reg[p].image
  BY <1>1, <1>s, RegAlloc
<1>3. reg' = [reg EXCEPT ![p] = s]
  BY <1>s DEF allocuvm, SetAlloc
<1> QED BY <1>2, <1>3, SetReg

LEMMA GrowInv ==
    ASSUME MInv, NEW p \in Procs, NEW n \in Sbrks, Grow(p, n)
    PROVE  MInv'
<1>1. /\ Runs(p) /\ n > 0 /\ sz[p] + n < KERNBASE /\ allocuvm(p, "grow", pgdir[p], sz[p], sz[p] + n)
      /\ UNCHANGED <<free, mem, ptable, panicked>>
  BY DEF Grow
<1>2. state[p] = "RUN" /\ reg[p] = Idle /\ Upto(mem, pgdir[p], PGROUNDUP(sz[p]))
  BY <1>1, RunsUpto
<1>3. sz[p] \in Nat /\ pgdir[p] \in Frames /\ MemInv(mem, free)
  BY <1>2, Mine
<1>4. n \in Int /\ sz[p] + n \in Nat /\ sz[p] <= sz[p] + n
  <2>1. n \in Int
    BY SizeAssumption, Sizes
  <2> QED BY <1>1, <1>3, <2>1
<1>5. /\ reg' \in [Procs -> Regs] /\ \A q \in Procs : q # p => reg'[q] = reg[q]
      /\ reg'[p].pc = "grow" /\ reg'[p].d = pgdir[p] /\ reg'[p].i = PGROUNDUP(sz[p]) /\ reg'[p].old = sz[p]
      /\ reg'[p].end = sz[p] + n /\ reg'[p].np = None
  <2>1. "grow" \in PCs
    BY DEF PCs
  <2> QED BY <1>1, <1>2, <1>3, <1>4, <2>1, AllocCall, IdleReg
<1>6. mem' = mem /\ free' = free /\ sz' = sz /\ UNCHANGED <<state, kstack, pgdir, parent, panicked>>
  BY <1>1 DEF ptable
<1>7. UserInv(mem', pgdir[p], sz'[p], reg'[p])
  BY <1>2, <1>5, <1>6 DEF UserInv
<1>8. CallInv(mem', sz'[p], reg'[p])
  <2>1. PGROUNDUP(sz[p]) <= PGROUNDUP(sz[p] + n) /\ PGROUNDUP(sz[p]) \in Nat
    BY <1>3, <1>4, RoundMono, RoundType
  <2>2. pgdir[p] # None
    BY <1>3, NoneAssumption
  <2> QED BY <1>1, <1>4, <1>5, <2>1, <2>2 DEF CallInv
<1>9. ~HasNew(p) /\ ~HasNew(p)' /\ reg'[p].np = reg[p].np
  BY <1>2, <1>5, IdleReg DEF HasNew
<1>10. sz \in [Procs -> 0..(KERNBASE - 1)]
  BY DEF MInv, TableInv
<1>11. MemInv(mem', free') /\ SameRoots(mem, mem') /\ \A c \in Frames : SameSpace(mem, mem', c)
  BY <1>3, <1>6, SpaceSelf
<1> QED BY <1>2, <1>5, <1>6, <1>7, <1>8, <1>9, <1>10, <1>11, LocalStep

\* The call is over and the process has the pages of its size, or none.
LEMMA ReturnStep ==
    ASSUME MInv, NEW p \in Procs, state[p] = "RUN", UNCHANGED <<state, kstack, pgdir, parent, panicked>>,
           ~HasNew(p), reg[p].np = None, reg' = [reg EXCEPT ![p] = Idle],
           sz' \in [Procs -> 0..(KERNBASE - 1)], \A q \in Procs : q # p => sz'[q] = sz[q],
           MemInv(mem', free'), SameRoots(mem, mem'),
           \A c \in Frames : c \notin Own(p) => SameSpace(mem, mem', c),
           Upto(mem', pgdir[p], PGROUNDUP(sz'[p])) \/ Upto(mem', pgdir[p], 0)
    PROVE  MInv'
<1>1. reg' \in [Procs -> Regs] /\ reg'[p] = Idle /\ \A q \in Procs : q # p => reg'[q] = reg[q]
  BY IdleReg, SetReg
<1>2. UserInv(mem', pgdir[p], sz'[p], reg'[p])
  BY <1>1, IdleReg DEF UserInv
<1>3. CallInv(mem', sz'[p], reg'[p])
  BY <1>1, IdleReg DEF CallInv
<1>4. ~HasNew(p)' /\ reg'[p].np = reg[p].np
  BY <1>1, IdleReg DEF HasNew
<1> QED BY <1>1, <1>2, <1>3, <1>4, LocalStep

LEMMA GrowDoneInv ==
    ASSUME MInv, NEW p \in Procs, GrowDone(p)
    PROVE  MInv'
<1>1. /\ state[p] = "RUN" /\ reg[p].pc = "grow" /\ AllDone(p) /\ sz' = [sz EXCEPT ![p] = reg[p].end]
      /\ reg' = [reg EXCEPT ![p] = Idle]
      /\ UNCHANGED <<free, mem, state, kstack, pgdir, parent, panicked>>
  BY DEF GrowDone, At, Return
<1>2. /\ reg[p] \in Regs /\ UserInv(mem, pgdir[p], sz[p], reg[p]) /\ CallInv(mem, sz[p], reg[p])
      /\ MemInv(mem, free)
  BY <1>1, Mine
<1>3. reg[p].end \in Nat /\ reg[p].end < KERNBASE /\ reg[p].i \in Nat /\ reg[p].i <= PGROUNDUP(reg[p].end)
  BY <1>1, <1>2 DEF CallInv, Regs
<1>4. PGROUNDUP(reg[p].end) = reg[p].i
  <2>1. reg[p].i * PGSIZE \in Nat /\ ~(reg[p].i * PGSIZE < reg[p].end)
    BY <1>1, <1>3, Sizes, Times DEF AllDone
  <2> QED BY <1>3, <2>1, RoundUp
<1>5. /\ sz' \in [Procs -> 0..(KERNBASE - 1)] /\ \A q \in Procs : q # p => sz'[q] = sz[q]
      /\ sz'[p] = reg[p].end
  BY <1>1, <1>3, Sizes DEF MInv, TableInv
<1>6. Upto(mem', pgdir[p], PGROUNDUP(sz'[p]))
  BY <1>1, <1>2, <1>4, <1>5 DEF UserInv
<1>7. ~HasNew(p) /\ reg[p].np = None
  BY <1>1, <1>2 DEF HasNew, UserInv
<1>8. MemInv(mem', free') /\ SameRoots(mem, mem') /\ \A c \in Frames : SameSpace(mem, mem', c)
  BY <1>1, <1>2, SpaceSelf
<1> QED BY <1>1, <1>5, <1>6, <1>7, <1>8, ReturnStep

LEMMA GrowFailInv ==
    ASSUME MInv, NEW p \in Procs, GrowFail(p)
    PROVE  MInv'
<1>1. /\ state[p] = "RUN" /\ reg[p].pc = "grow" /\ deallocuvm(reg[p].d, reg[p].end, reg[p].old)
      /\ reg' = [reg EXCEPT ![p] = Idle] /\ UNCHANGED <<ptable, panicked>>
  BY DEF GrowFail, At, Return
<1>2. /\ reg[p] \in Regs /\ UserInv(mem, pgdir[p], sz[p], reg[p]) /\ CallInv(mem, sz[p], reg[p])
      /\ MemInv(mem, free) /\ pgdir[p] \in Frames /\ mem[pgdir[p]].kind = "dir" /\ sz[p] \in Nat
  BY <1>1, Mine
<1>3. /\ reg[p].d = pgdir[p] /\ reg[p].old = sz[p] /\ reg[p].np = None /\ Upto(mem, pgdir[p], reg[p].i)
      /\ sz[p] <= reg[p].end /\ PGROUNDUP(sz[p]) <= reg[p].i /\ reg[p].i <= PGROUNDUP(reg[p].end)
  BY <1>1, <1>2 DEF UserInv, CallInv
<1>4. reg[p].end \in Nat /\ reg[p].i \in Nat
  BY <1>2 DEF Regs
<1>5. /\ MemInv(mem', free') /\ SameRoots(mem, mem')
      /\ \A c \in Frames : c # pgdir[p] => SameSpace(mem, mem', c)
      /\ sz[p] >= reg[p].end => Upto(mem', pgdir[p], reg[p].i)
      /\ sz[p] < reg[p].end => Upto(mem', pgdir[p], PGROUNDUP(sz[p]))
  <2>1. deallocuvm(pgdir[p], reg[p].end, sz[p]) /\ PGROUNDUP(sz[p]) \in Nat
    BY <1>1, <1>2, <1>3, RoundType
  <2> QED BY <1>2, <1>3, <1>4, <2>1, DropUpto
<1>6. Upto(mem', pgdir[p], PGROUNDUP(sz[p]))
  <2>1. CASE sz[p] >= reg[p].end
    <3>1. sz[p] = reg[p].end
      BY <1>2, <1>3, <1>4, <2>1
    <3>2. reg[p].i = PGROUNDUP(sz[p])
      BY <1>2, <1>3, <1>4, <3>1, RoundType
    <3> QED BY <1>5, <2>1, <3>2
  <2>2. CASE sz[p] < reg[p].end
    BY <1>5, <2>2
  <2> QED BY <1>2, <1>4, <2>1, <2>2
<1>7. sz' = sz /\ sz \in [Procs -> 0..(KERNBASE - 1)] /\ UNCHANGED <<state, kstack, pgdir, parent, panicked>>
  BY <1>1 DEF MInv, TableInv, ptable
<1>8. ~HasNew(p) /\ \A c \in Frames : c \notin Own(p) => SameSpace(mem, mem', c)
  BY <1>1, <1>5 DEF HasNew, Own
<1> QED BY <1>1, <1>3, <1>5, <1>6, <1>7, <1>8, ReturnStep

LEMMA ShrinkInv ==
    ASSUME MInv, NEW p \in Procs, NEW n \in Sbrks, Shrink(p, n)
    PROVE  MInv'
<1>n. PICK new : new = (sz[p] + n) % WORD
  OBVIOUS
<1>g. PICK got : got = IF new >= sz[p] THEN sz[p] ELSE new
  OBVIOUS
<1>1. /\ Runs(p) /\ deallocuvm(pgdir[p], sz[p], new) /\ sz' = [sz EXCEPT ![p] = IF got = 0 THEN sz[p] ELSE got]
      /\ UNCHANGED <<state, kstack, pgdir, parent, reg, panicked>>
  BY <1>n, <1>g DEF Shrink
<1>2. state[p] = "RUN" /\ reg[p] = Idle /\ Upto(mem, pgdir[p], PGROUNDUP(sz[p]))
  BY <1>1, RunsUpto
<1>3. /\ sz[p] \in Nat /\ sz[p] < KERNBASE /\ pgdir[p] \in Frames /\ mem[pgdir[p]].kind = "dir" /\ MemInv(mem, free)
  BY <1>2, Mine
<1>4. new \in Nat
  <2>1. n \in Int /\ WORD \in Nat /\ WORD > 0
    BY SizeAssumption, Sizes DEF WORD
  <2> QED BY <1>3, <1>n, <2>1
<1>5. /\ MemInv(mem', free') /\ SameRoots(mem, mem')
      /\ \A c \in Frames : c # pgdir[p] => SameSpace(mem, mem', c)
      /\ new >= sz[p] => Upto(mem', pgdir[p], PGROUNDUP(sz[p]))
      /\ new < sz[p] => Upto(mem', pgdir[p], PGROUNDUP(new))
  <2>1. PGROUNDUP(sz[p]) \in Nat /\ PGROUNDUP(new) \in Nat /\ (new < sz[p] => PGROUNDUP(new) <= PGROUNDUP(sz[p]))
    BY <1>3, <1>4, RoundType, RoundMono
  <2> QED BY <1>1, <1>2, <1>3, <1>4, <2>1, DropUpto
<1>6. got \in Nat /\ got < KERNBASE /\ Upto(mem', pgdir[p], PGROUNDUP(got))
  <2>1. CASE new >= sz[p]
    BY <1>3, <1>5, <1>g, <2>1
  <2>2. CASE new < sz[p]
    <3>1. got = new
      BY <1>3, <1>4, <1>g, <2>2
    <3> QED BY <1>3, <1>4, <1>5, <2>2, <3>1, Sizes
  <2> QED BY <1>3, <1>4, <2>1, <2>2
<1>7. /\ sz' \in [Procs -> 0..(KERNBASE - 1)] /\ \A q \in Procs : q # p => sz'[q] = sz[q]
      /\ sz'[p] = IF got = 0 THEN sz[p] ELSE got
  <2>1. sz \in [Procs -> 0..(KERNBASE - 1)]
    BY DEF MInv, TableInv
  <2> QED BY <1>1, <1>3, <1>6, <2>1, Sizes
<1>8. Upto(mem', pgdir[p], PGROUNDUP(sz'[p])) \/ Upto(mem', pgdir[p], 0)
  <2>1. PGROUNDUP(0) = 0
    <3>1. 0 * PGSIZE = 0
      BY Sizes
    <3> QED BY <3>1, RoundExact
  <2> QED BY <1>6, <1>7, <2>1
<1>9. ~HasNew(p) /\ reg[p].np = None
  BY <1>2, IdleReg DEF HasNew
<1>10. reg' = [reg EXCEPT ![p] = Idle]
  <2>1. reg \in [Procs -> Regs]
    BY DEF MInv, TableInv
  <2> QED BY <1>1, <1>2, <2>1
<1>11. \A c \in Frames : c \notin Own(p) => SameSpace(mem, mem', c)
  BY <1>5 DEF Own
<1> QED BY <1>1, <1>2, <1>5, <1>7, <1>8, <1>9, <1>10, <1>11, ReturnStep

-----------------------------------------------------------------------------
(* fork and exec make a directory. *)

SetPc(r, pc, i) == [r EXCEPT !.pc = pc, !.i = i]
LEMMA RegPc ==
    ASSUME NEW r \in Regs, NEW pc \in PCs, NEW i \in Nat, NEW s, s = SetPc(r, pc, i)
    PROVE  /\ s \in Regs /\ s.pc = pc /\ s.d = r.d /\ s.i = i /\ s.old = r.old /\ s.end = r.end
           /\ s.np = r.np /\ s.image = r.image
BY DEF Regs, SetPc

\* A step of p in fork or exec that leaves its own memory alone.
LEMMA CallStep ==
    ASSUME MInv, NEW p \in Procs, state[p] = "RUN", UNCHANGED <<ptable, panicked>>,
           reg' \in [Procs -> Regs], \A q \in Procs : q # p => reg'[q] = reg[q],
           reg[p].pc \notin {"user", "grow", "kvmdir"}, reg'[p].pc \notin {"user", "grow", "kvmdir"},
           reg'[p].d = reg[p].d, reg'[p].np = reg[p].np,
           MemInv(mem', free'), SameRoots(mem, mem'),
           \A c \in Frames : c # reg[p].d => SameSpace(mem, mem', c),
           CallInv(mem', sz[p], reg'[p])
    PROVE  MInv'
<1>1. UserInv(mem, pgdir[p], sz[p], reg[p]) /\ pgdir[p] \in Frames
  BY Mine
<1>2. pgdir[p] # reg[p].d /\ HasNew(p)
  BY TwoDirs
<1>3. Upto(mem', pgdir[p], PGROUNDUP(sz[p]))
  BY <1>1, <1>2, UptoSame DEF UserInv
<1>4. UserInv(mem', pgdir[p], sz[p], reg'[p])
  BY <1>3 DEF UserInv
<1>5. sz' = sz /\ sz \in [Procs -> 0..(KERNBASE - 1)] /\ UNCHANGED <<state, kstack, pgdir, parent, panicked>>
  BY DEF MInv, TableInv, ptable
<1>6. HasNew(p)'
  BY <1>2 DEF HasNew
<1>7. \A c \in Frames : c \notin Own(p) => SameSpace(mem, mem', c)
  BY DEF Own
<1> QED BY <1>2, <1>4, <1>5, <1>6, <1>7, LocalStep

LEMMA KvmTableInv ==
    ASSUME MInv, NEW p \in Procs, At(p, "kvm"), reg[p].i < KTABLES, free # {},
           free' = free \ {Kalloc},
           mem' = [mem EXCEPT ![Kalloc] = Table, ![reg[p].d].pde[UTABLES + reg[p].i] = Kalloc],
           reg' = [reg EXCEPT ![p].i = @ + 1], UNCHANGED <<ptable, panicked>>
    PROVE  MInv'
<1>1. state[p] = "RUN" /\ reg[p].pc = "kvm"
  BY DEF At
<1>2. /\ reg[p] \in Regs /\ CallInv(mem, sz[p], reg[p]) /\ reg[p].d \in Frames /\ mem[reg[p].d].kind = "dir"
      /\ MemInv(mem, free)
  BY <1>1, Mine
<1>d. PICK d : d = reg[p].d
  OBVIOUS
<1>i. PICK i : i = reg[p].i
  OBVIOUS
<1>g. PICK g : g = Kalloc
  OBVIOUS
<1>3. /\ i \in Nat /\ i < KTABLES /\ UTABLES + i \in Pdx /\ g \in free /\ d \in Frames /\ mem[d].kind = "dir"
      /\ reg[p].old = 0 /\ Upto(mem, d, 0)
      /\ \A k \in Pdx, t \in Frames : Has(mem, d, k, t) => k < UTABLES + i
  <2>1. i \in Nat
    BY <1>2, <1>i DEF Regs
  <2>2. UTABLES + i \in Pdx
    BY <1>i, <2>1, Sizes DEF Pdx
  <2> QED BY <1>1, <1>2, <1>d, <1>i, <1>g, <2>1, <2>2 DEF CallInv, Kalloc
<1>4. mem[d].pde[UTABLES + i] = None
  <2>1. mem[d].pde[UTABLES + i] \in Frames \cup {None}
    BY <1>2, <1>3, FreeFacts, Kinds DEF Mems
  <2>2. ~(UTABLES + i < UTABLES + i)
    BY <1>3, Sizes
  <2>3. ASSUME mem[d].pde[UTABLES + i] \in Frames PROVE FALSE
    <3>1. Has(mem, d, UTABLES + i, mem[d].pde[UTABLES + i])
      BY <1>3, <2>3 DEF Has
    <3> QED BY <1>3, <2>2, <2>3, <3>1
  <2> QED BY <2>1, <2>3
<1>5. mem' = PutPde(Fill(mem, g, Table), d, UTABLES + i, g)
  BY <1>d, <1>i, <1>g DEF PutPde, Fill
<1>6. NewTable(mem, mem', free, d, UTABLES + i, g)
  <2>k. PICK k : k = UTABLES + i
    OBVIOUS
  <2>1. /\ MemInv(mem, free) /\ g \in free /\ d \in Frames /\ mem[d].kind = "dir" /\ k \in Pdx
        /\ mem[d].pde[k] = None /\ mem' = PutPde(Fill(mem, g, Table), d, k, g)
    BY <1>2, <1>3, <1>4, <1>5, <2>k
  <2>2. NewTable(mem, mem', free, d, k, g)
    BY ONLY <2>1, TableChange
  <2> QED BY <2>2, <2>k
<1>7. /\ MemInv(mem', free') /\ mem[g].kind = "junk" /\ g \in Frames
      /\ \A c, f \in Frames, a \in Pages : MapsTo(mem', c, a, f) <=> MapsTo(mem, c, a, f)
  <2>1. MemInv(mem, free) /\ NewTable(mem, mem', free, d, UTABLES + i, g) /\ free' = free \ {g}
    BY <1>2, <1>6, <1>g
  <2> QED BY ONLY <2>1, TableStep
<1>8. /\ mem'[g].kind = "table" /\ \A f \in Frames : f # g => mem'[f].kind = mem[f].kind
      /\ \A c, t \in Frames, k \in Pdx :
            Has(mem', c, k, t) <=> Has(mem, c, k, t) \/ (c = d /\ k = UTABLES + i /\ t = g)
  BY <1>6 DEF NewTable
<1>9. SameRoots(mem, mem')
  BY <1>7, <1>8 DEF SameRoots
<1>10. \A c \in Frames : c # d => SameSpace(mem, mem', c)
  BY <1>7, <1>8 DEF SameSpace, InSpace
<1>11. Upto(mem', d, 0)
  BY <1>3, <1>7 DEF Upto, InSpace
<1>12. \A k \in Pdx, t \in Frames : Has(mem', d, k, t) => k < UTABLES + (i + 1)
  BY <1>3, <1>8, Sizes DEF Pdx
<1>13. /\ reg' \in [Procs -> Regs] /\ \A q \in Procs : q # p => reg'[q] = reg[q]
       /\ reg'[p].pc = "kvm" /\ reg'[p].d = d /\ reg'[p].i = i + 1 /\ reg'[p].old = 0
       /\ reg'[p].np = reg[p].np
  <2>s. PICK s : s = SetI(reg[p], i + 1)
    OBVIOUS
  <2>2. s \in Regs /\ s.pc = reg[p].pc /\ s.d = reg[p].d /\ s.i = i + 1 /\ s.old = reg[p].old /\ s.np = reg[p].np
    <3>1. reg[p] \in Regs /\ i + 1 \in Nat
      BY <1>2, <1>3
    <3> QED BY ONLY <2>s, <3>1, RegStep
  <2>3. reg' = [reg EXCEPT ![p] = s]
    BY <1>i, <2>s DEF SetI
  <2> QED BY <1>1, <1>3, <1>d, <2>2, <2>3, SetReg
<1>14. CallInv(mem', sz[p], reg'[p])
  <2>1. i + 1 <= KTABLES /\ d # None
    BY <1>3, Sizes, NoneAssumption
  <2> QED BY <1>11, <1>12, <1>13, <2>1 DEF CallInv
<1> QED BY <1>1, <1>7, <1>9, <1>10, <1>13, <1>14, <1>d, CallStep

LEMMA KvmDoneInv ==
    ASSUME MInv, NEW p \in Procs, KvmDone(p)
    PROVE  MInv'
<1>c. PICK pc : pc = IF reg[p].np = None THEN "segs" ELSE "copy"
  OBVIOUS
<1>1. /\ state[p] = "RUN" /\ reg[p].pc = "kvm" /\ reg' = [reg EXCEPT ![p].pc = pc, ![p].i = 0]
      /\ UNCHANGED <<free, mem, ptable, panicked>>
  BY <1>c DEF At, KvmDone
<1>2. /\ reg[p] \in Regs /\ CallInv(mem, sz[p], reg[p]) /\ MemInv(mem, free) /\ sz[p] \in Nat
  BY <1>1, Mine
<1>3. reg[p].old = 0 /\ Upto(mem, reg[p].d, 0) /\ reg[p].d # None
  BY <1>1, <1>2 DEF CallInv
<1>4. /\ reg' \in [Procs -> Regs] /\ \A q \in Procs : q # p => reg'[q] = reg[q]
      /\ reg'[p].pc = pc /\ reg'[p].d = reg[p].d /\ reg'[p].i = 0 /\ reg'[p].old = reg[p].old
      /\ reg'[p].np = reg[p].np
  <2>s. PICK s : s = SetPc(reg[p], pc, 0)
    OBVIOUS
  <2>1. s \in Regs /\ s.pc = pc /\ s.d = reg[p].d /\ s.i = 0 /\ s.old = reg[p].old /\ s.np = reg[p].np
    <3>1. reg[p] \in Regs /\ 0 \in Nat /\ pc \in PCs
      BY <1>2, <1>c DEF PCs
    <3> QED BY ONLY <2>s, <3>1, RegPc
  <2>2. reg \in [Procs -> Regs]
    BY DEF MInv, TableInv
  <2>3. reg' = [reg EXCEPT ![p] = s]
    BY <1>1, <2>s, <2>2 DEF SetPc
  <2> QED BY <2>1, <2>3, SetReg
<1>5. MemInv(mem', free') /\ SameRoots(mem, mem') /\ \A c \in Frames : SameSpace(mem, mem', c)
  BY <1>1, <1>2, SpaceSelf
<1>6. CallInv(mem', sz[p], reg'[p])
  <2>1. PGROUNDUP(0) = 0 /\ PGROUNDUP(sz[p]) \in Nat
    <3>1. 0 * PGSIZE = 0
      BY Sizes
    <3> QED BY <1>2, <3>1, RoundExact, RoundType
  <2>2. Upto(mem', reg[p].d, 0) /\ 0 < KERNBASE
    BY <1>1, <1>3, Sizes
  <2>3. CASE reg[p].np = None
    BY <1>3, <1>4, <1>c, <2>1, <2>2, <2>3 DEF CallInv
  <2>4. CASE reg[p].np # None
    BY <1>3, <1>4, <1>c, <2>1, <2>2, <2>4 DEF CallInv
  <2> QED BY <2>3, <2>4
<1>7. pc \notin {"user", "grow", "kvmdir"}
  BY <1>c
<1> QED BY <1>1, <1>4, <1>5, <1>6, <1>7, CallStep

\* One page is copied; it is there, so copyuvm does not panic.
LEMMA CopyThere ==
    ASSUME MInv, NEW p \in Procs, At(p, "copy"), reg[p].i * PGSIZE < sz[p]
    PROVE  /\ reg[p].i \in Pages /\ reg[p].i < PGROUNDUP(sz[p]) /\ Mapped(pgdir[p], reg[p].i)
<1>1. state[p] = "RUN" /\ reg[p].pc = "copy"
  BY DEF At
<1>2. /\ reg[p] \in Regs /\ UserInv(mem, pgdir[p], sz[p], reg[p]) /\ sz[p] \in Nat /\ sz[p] < KERNBASE
      /\ MemInv(mem, free) /\ pgdir[p] \in Frames /\ mem[pgdir[p]].kind = "dir"
  BY <1>1, Mine
<1>3. reg[p].i \in Nat
  BY <1>2 DEF Regs
<1>4. reg[p].i < PGROUNDUP(sz[p])
  BY <1>2, <1>3, RoundUp
<1>5. reg[p].i \in Pages
  BY <1>2, <1>3, <1>4, RoundBound
<1>6. Upto(mem, pgdir[p], PGROUNDUP(sz[p]))
  BY <1>1, <1>2 DEF UserInv
<1> QED BY <1>2, <1>4, <1>5, <1>6, EntryOf DEF Upto

LEMMA CopyPageInv ==
    ASSUME MInv, NEW p \in Procs, At(p, "copy"), reg[p].i * PGSIZE < sz[p], CanMap(reg[p].d, reg[p].i),
           mappages(reg[p].d, reg[p].i, mem[Pte(pgdir[p], reg[p].i).frame].byte,
                    Pte(pgdir[p], reg[p].i).e, Pte(pgdir[p], reg[p].i).u),
           reg' = [reg EXCEPT ![p].i = @ + 1], UNCHANGED <<ptable, panicked>>
    PROVE  MInv'
<1>1. state[p] = "RUN" /\ reg[p].pc = "copy"
  BY DEF At
<1>2. /\ reg[p] \in Regs /\ CallInv(mem, sz[p], reg[p]) /\ MemInv(mem, free)
      /\ pgdir[p] \in Frames /\ mem[pgdir[p]].kind = "dir" /\ sz[p] \in Nat
      /\ reg[p].d \in Frames /\ mem[reg[p].d].kind = "dir"
  BY <1>1, Mine
<1>d. PICK d : d = reg[p].d
  OBVIOUS
<1>i. PICK i : i = reg[p].i
  OBVIOUS
<1>e. PICK e : e = Pte(pgdir[p], i)
  OBVIOUS
<1>3. i \in Pages /\ i \in Nat /\ i < PGROUNDUP(sz[p]) /\ Mapped(pgdir[p], i)
  BY <1>2, <1>i, CopyThere DEF Regs
<1>4. e \in Entries /\ e.frame \in Frames /\ mem[e.frame].kind = "user"
  BY <1>2, <1>3, <1>e, EntryOf
<1>5. mem[e.frame].byte \in Byte /\ e.e \in BOOLEAN /\ e.u \in BOOLEAN
  <2>1. mem[e.frame] \in Contents
    BY <1>2, <1>4, FreeFacts DEF Mems
  <2>2. mem[e.frame].byte \in Byte
    BY <1>4, <2>1, Kinds
  <2> QED BY <1>4, <2>2 DEF Entries
<1>6. Upto(mem, d, i) /\ d \in Frames /\ mem[d].kind = "dir" /\ d # None
  BY <1>1, <1>2, <1>d, <1>i DEF CallInv
<1>7. ~Mapped(d, i)
  BY <1>2, <1>3, <1>6, NextPage
<1>8. /\ MemInv(mem', free') /\ SameRoots(mem, mem')
      /\ \A c \in Frames : c # d => SameSpace(mem, mem', c)
      /\ \A x \in Pages : InSpace(mem', d, x) <=> InSpace(mem, d, x) \/ x = i
  <2>1. CanMap(d, i) /\ mappages(d, i, mem[e.frame].byte, e.e, e.u)
    BY <1>d, <1>i, <1>e
  <2> QED BY <1>2, <1>3, <1>5, <1>6, <1>7, <2>1, MapPages
<1>9. Upto(mem', d, i + 1)
  BY <1>3, <1>6, <1>8 DEF Upto, Pages
<1>10. /\ reg' \in [Procs -> Regs] /\ \A q \in Procs : q # p => reg'[q] = reg[q]
       /\ reg'[p].pc = "copy" /\ reg'[p].d = d /\ reg'[p].i = i + 1 /\ reg'[p].np = reg[p].np
  <2>s. PICK s : s = SetI(reg[p], i + 1)
    OBVIOUS
  <2>2. s \in Regs /\ s.pc = reg[p].pc /\ s.d = reg[p].d /\ s.i = i + 1 /\ s.np = reg[p].np
    <3>1. reg[p] \in Regs /\ i + 1 \in Nat
      BY <1>2, <1>3
    <3> QED BY ONLY <2>s, <3>1, RegStep
  <2>3. reg' = [reg EXCEPT ![p] = s]
    BY <1>i, <2>s DEF SetI
  <2> QED BY <1>1, <1>d, <2>2, <2>3, SetReg
<1>11. CallInv(mem', sz[p], reg'[p])
  <2>1. i + 1 <= PGROUNDUP(sz[p]) /\ reg[p].np # None
    BY <1>1, <1>2, <1>3, RoundType DEF CallInv
  <2> QED BY <1>6, <1>9, <1>10, <2>1 DEF CallInv
<1> QED BY <1>1, <1>8, <1>10, <1>11, <1>d, CallStep

-----------------------------------------------------------------------------
(* Bytes and flags change, pointers do not. *)

LEMMA SameStep ==
    ASSUME MemInv(mem, free), mem' \in Mems, \A f \in Frames : SameShape(mem[f], mem'[f]), free' = free
    PROVE  MemInv(mem', free') /\ SameRoots(mem, mem') /\ \A c \in Frames : SameSpace(mem, mem', c)
<1>x. PICK X : X = {}
  OBVIOUS
<1>1. Frees(mem, mem', X)
  BY <1>x, ClosedNone DEF Frees
<1>2. /\ MemInv(mem', free \cup X)
      /\ \A f \in Frames : mem'[f].kind = IF f \in X THEN "junk" ELSE mem[f].kind
      /\ \A d \in Frames : d \notin X => SameSpace(mem, mem', d)
  <2>0. MemInv(mem, free) /\ Frees(mem, mem', X)
    BY <1>1
  <2>1. MemInv(mem', free \cup X)
    BY ONLY <2>0, FreeStep
  <2>2. \A f \in Frames : mem'[f].kind = IF f \in X THEN "junk" ELSE mem[f].kind
    BY ONLY <2>0, FreeStep, ZenonT(120)
  <2>3. \A d \in Frames : d \notin X => SameSpace(mem, mem', d)
    BY ONLY <2>0, FreeStep
  <2> QED BY <2>1, <2>2, <2>3
<1>3. free' = free \cup X
  BY <1>x
<1> QED BY <1>2, <1>3, <1>x DEF SameRoots

LEMMA UserShape ==
    ASSUME NEW x \in Contents, x.kind = "user", NEW b \in Byte
    PROVE  SameShape(x, User(b)) /\ User(b) \in Contents
BY Makes DEF SameShape

LEMMA UserFrames ==
    ASSUME MemInv(mem, free), NEW d \in Frames, mem[d].kind = "dir", NEW S, S \subseteq Pages,
           \A a \in S : Mapped(d, a)
    PROVE  \A f \in FramesOf(d, S) : f \in Frames /\ mem[f].kind = "user"
BY EntryOf DEF FramesOf

\* Process p changes bytes and flags, in user mode.
LEMMA QuietStep ==
    ASSUME MInv, NEW p \in Procs, state[p] = "RUN", reg[p].pc = "user", UNCHANGED <<free, ptable, reg, panicked>>,
           mem' \in Mems, \A f \in Frames : SameShape(mem[f], mem'[f])
    PROVE  MInv'
<1>1. /\ UserInv(mem, pgdir[p], sz[p], reg[p]) /\ MemInv(mem, free) /\ pgdir[p] \in Frames
  BY Mine
<1>2. MemInv(mem', free') /\ SameRoots(mem, mem') /\ \A c \in Frames : SameSpace(mem, mem', c)
  BY <1>1, SameStep
<1>3. /\ reg' \in [Procs -> Regs] /\ sz' \in [Procs -> 0..(KERNBASE - 1)] /\ reg' = reg /\ sz' = sz
      /\ UNCHANGED <<state, kstack, pgdir, parent, panicked>>
  BY DEF MInv, TableInv, ptable
<1>4. reg[p] = Idle /\ reg \in [Procs -> Regs]
  BY <1>1, <1>3 DEF UserInv
<1>5. reg' = [reg EXCEPT ![p] = Idle]
  BY <1>3, <1>4
<1>6. Upto(mem', pgdir[p], PGROUNDUP(sz'[p])) \/ Upto(mem', pgdir[p], 0)
  BY <1>1, <1>2, <1>3, UptoSame DEF UserInv
<1>7. ~HasNew(p) /\ reg[p].np = None
  BY <1>4, IdleReg DEF HasNew
<1> QED BY <1>2, <1>3, <1>5, <1>6, <1>7, ReturnStep

LEMMA SetByteInv ==
    ASSUME MInv, NEW p \in Procs, At(p, "user"), NEW a \in Pages, NEW b \in Byte, Mapped(pgdir[p], a),
           SetByte(p, a, b)
    PROVE  MInv'
<1>1. state[p] = "RUN" /\ reg[p].pc = "user"
  BY DEF At
<1>2. MemInv(mem, free) /\ pgdir[p] \in Frames /\ mem[pgdir[p]].kind = "dir"
  BY <1>1, Mine
<1>f. PICK f : f = Pte(pgdir[p], a).frame
  OBVIOUS
<1>3. f \in Frames /\ mem[f].kind = "user" /\ mem \in Mems
  BY <1>2, <1>f, EntryOf, FreeFacts
<1>4. mem' = Fill(mem, f, User(b)) /\ UNCHANGED <<free, ptable, reg, panicked>>
  BY <1>f DEF SetByte, Fill
<1>5. SameShape(mem[f], User(b)) /\ User(b) \in Contents
  BY <1>3, UserShape DEF Mems
<1>6. mem' \in Mems /\ \A g \in Frames : SameShape(mem[g], mem'[g])
  <2>1. Fill(mem, f, User(b)) \in Mems /\ Fill(mem, f, User(b))[f] = User(b)
        /\ \A g \in Frames : g # f => Fill(mem, f, User(b))[g] = mem[g]
    BY <1>3, <1>5, FillFacts
  <2> QED BY <1>4, <1>5, <2>1, ShapeSelf
<1> QED BY <1>1, <1>4, <1>6, QuietStep

LEMMA StoreInv ==
    ASSUME MInv, NEW p \in Procs, NEW a \in Written, NEW b \in Stored, Store(p, a, b)
    PROVE  MInv'
<1>1. a \in Pages /\ b \in Byte /\ Mapped(pgdir[p], a) /\ At(p, "user") /\ SetByte(p, a, b)
  BY SizeAssumption DEF Store, Runs, Mapped
<1> QED BY <1>1, SetByteInv

LEMMA DumpInv ==
    ASSUME MInv, NEW p \in Procs, NEW f \in Frames, NEW a \in Written, dump_rawphymem(p, f, a)
    PROVE  MInv'
<1>1. PICK b \in Byte : SetByte(p, a, b)
  BY DEF dump_rawphymem
<1>2. At(p, "user") /\ Accessible(pgdir[p], a) /\ a \in Pages /\ state[p] = "RUN"
  BY SizeAssumption DEF dump_rawphymem, Runs, At
<1>3. Pte(pgdir[p], a) \in Entries
  BY <1>2, Mine, EntryOf
<1>4. Mapped(pgdir[p], a)
  BY <1>2, <1>3 DEF Accessible, Mapped, Entries
<1> QED BY <1>1, <1>2, <1>4, SetByteInv

FlipEntry(x) == [x EXCEPT !.p = FALSE, !.e = TRUE]
ClearEntry(x) == [x EXCEPT !.p = TRUE, !.e = FALSE]
LEMMA FlagFacts ==
    ASSUME NEW x \in Entries
    PROVE  /\ FlipEntry(x) \in Entries /\ FlipEntry(x).e /\ FlipEntry(x).frame = x.frame
           /\ ClearEntry(x) \in Entries /\ ClearEntry(x).p /\ ClearEntry(x).frame = x.frame
BY DEF Entries, FlipEntry, ClearEntry

LEMMA FlipByte == \A b \in Byte : Flip(b) \in Byte
BY SizeAssumption DEF Flip, Byte

LEMMA DecryptInv ==
    ASSUME MInv, NEW p \in Procs, NEW a \in Pages, decrypt(p, a)
    PROVE  MInv'
<1>e. PICK e : e = Pte(pgdir[p], a)
  OBVIOUS
<1>d. PICK d : d = pgdir[p]
  OBVIOUS
<1>1. /\ state[p] = "RUN" /\ reg[p].pc = "user" /\ e.e
      /\ mem' = SetPte([mem EXCEPT ![e.frame] = User(Flip(mem[e.frame].byte))], d, a, ClearEntry(e))
      /\ UNCHANGED <<free, ptable, reg, panicked>>
  BY <1>e, <1>d DEF decrypt, At, ClearEntry
<1>2. MemInv(mem, free) /\ d \in Frames /\ mem[d].kind = "dir"
  BY <1>1, <1>d, Mine
<1>3. mem \in Mems /\ EntryInv(mem) /\ LinkInv(mem)
  BY <1>2, FreeFacts
<1>4. Mapped(d, a) /\ e = Pte(d, a) /\ e \in Entries
  BY <1>1, <1>2, <1>d, <1>e, EntryOf DEF Mapped
<1>5. e.frame \in Frames /\ mem[e.frame].kind = "user" /\ MapsTo(mem, d, a, e.frame)
  BY <1>2, <1>4, EntryOf
<1>i. PICK i : i = a \div PTSIZE
  OBVIOUS
<1>j. PICK j : j = a % PTSIZE
  OBVIOUS
<1>6. PICK t \in Frames : Has(mem, d, i, t) /\ Holds(mem, t, j, e.frame)
  BY <1>5, <1>i, <1>j DEF MapsTo
<1>7. mem[d].pde[i] = t /\ mem[t].kind = "table" /\ j \in Ptx /\ mem[t].pte[j] = e
  <2>1. mem[d].pde[i] = t /\ mem[t].kind = "table" /\ j \in Ptx
    BY <1>6 DEF Has, Holds
  <2>2. Pte(d, a) = mem[t].pte[j]
    BY <1>i, <1>j, <2>1, NoneAssumption DEF Pte
  <2> QED BY <1>4, <2>1, <2>2
<1>b. PICK b : b = Flip(mem[e.frame].byte)
  OBVIOUS
<1>8. b \in Byte
  <2>1. mem[e.frame] \in Contents
    BY <1>3, <1>5 DEF Mems
  <2> QED BY <1>5, <1>b, <2>1, Kinds, FlipByte
<1>l. PICK l : l = Fill(mem, e.frame, User(b))
  OBVIOUS
<1>9. l \in Mems /\ l[e.frame] = User(b) /\ \A f \in Frames : f # e.frame => l[f] = mem[f]
  <2>f. PICK f : f = e.frame
    OBVIOUS
  <2>y. PICK y : y = User(b)
    OBVIOUS
  <2>1. mem \in Mems /\ f \in Frames /\ y \in Contents /\ l = Fill(mem, f, y)
    BY <1>3, <1>5, <1>8, <1>l, <2>f, <2>y, Makes
  <2>2. l \in Mems /\ l[f] = y /\ \A g \in Frames : g # f => l[g] = mem[g]
    BY ONLY <2>1, FillFacts
  <2> QED BY <2>2, <2>f, <2>y
<1>10. l[d] = mem[d] /\ l[t] = mem[t] /\ t # e.frame
  BY <1>2, <1>5, <1>7, <1>9
<1>11. mem' = PutPte(l, t, j, ClearEntry(e))
  BY <1>1, <1>b, <1>i, <1>j, <1>l, <1>7, <1>10 DEF SetPte, PutPte, Fill
<1>12. ClearEntry(e) \in Entries /\ ClearEntry(e).p /\ ClearEntry(e).frame = e.frame
  BY <1>4, FlagFacts
<1>13. /\ mem' \in Mems /\ \A f \in Frames : f # t => mem'[f] = l[f]
       /\ mem'[t].kind = "table" /\ \A k \in Ptx : mem'[t].pte[k] = IF k = j THEN ClearEntry(e) ELSE mem[t].pte[k]
  BY <1>7, <1>9, <1>10, <1>11, <1>12, PteFacts
<1>14. ASSUME NEW f \in Frames PROVE SameShape(mem[f], mem'[f])
  <2>1. CASE f = t
    <3>1. ASSUME NEW k \in Ptx
          PROVE  /\ (mem'[t].pte[k].p \/ mem'[t].pte[k].e) <=> (mem[t].pte[k].p \/ mem[t].pte[k].e)
                 /\ mem'[t].pte[k].frame = mem[t].pte[k].frame
      <4>1. CASE k = j
        BY <1>1, <1>7, <1>12, <1>13, <4>1
      <4>2. CASE k # j
        BY <1>13, <4>2
      <4> QED BY <4>1, <4>2
    <3> QED BY <1>7, <1>13, <2>1, <3>1 DEF SameShape
  <2>2. CASE f = e.frame
    <3>1. mem[f] \in Contents
      BY <1>3 DEF Mems
    <3> QED BY <1>5, <1>8, <1>9, <1>10, <1>13, <2>2, <3>1, UserShape
  <2>3. CASE f # t /\ f # e.frame
    BY <1>9, <1>13, <2>3, ShapeSelf
  <2> QED BY <2>1, <2>2, <2>3
<1> QED BY <1>1, <1>13, <1>14, QuietStep

\* A table whose entries to the frames X are flagged encrypted.
Flagged(t, X) == [mem[t] EXCEPT !.pte = [j \in 0..(PTSIZE - 1) |->
                    LET e == mem[t].pte[j]
                    IN IF e.frame \in X THEN [e EXCEPT !.p = FALSE, !.e = TRUE] ELSE e]]
LEMMA FlaggedFacts ==
    ASSUME NEW t \in Frames, mem[t] \in Contents, mem[t].kind = "table", EntryInv(mem), NEW X, X \subseteq Frames
    PROVE  Flagged(t, X) \in Contents /\ SameShape(mem[t], Flagged(t, X))
<1> DEFINE x == mem[t].pte
           y == [j \in Ptx |-> IF x[j].frame \in X THEN FlipEntry(x[j]) ELSE x[j]]
<1>1. x \in [Ptx -> Entries] /\ mem[t] = TableOf(x)
  BY Kinds
<1>2. Flagged(t, X) = TableOf(y)
  <2>1. Flagged(t, X) = [mem[t] EXCEPT !.pte = y]
    BY DEF Flagged, Ptx, FlipEntry
  <2>2. \A z : [TableOf(x) EXCEPT !.pte = z] = TableOf(z)
    BY DEF TableOf
  <2> HIDE DEF y
  <2> QED BY <1>1, <2>1, <2>2
<1>3. y \in [Ptx -> Entries]
  BY <1>1, FlagFacts
<1>4. \A j \in Ptx : y[j] = IF x[j].frame \in X THEN FlipEntry(x[j]) ELSE x[j]
  OBVIOUS
<1>5. \A j \in Ptx : x[j] \in Entries /\ (x[j].p \/ x[j].e <=> x[j].frame \in Frames)
  BY <1>1 DEF EntryInv
<1> HIDE DEF y, x
<1>6. TableOf(y) \in Contents /\ TableOf(y).kind = "table" /\ TableOf(y).pte = y
  BY <1>3, Makes
<1>7. \A j \in Ptx : (y[j].p \/ y[j].e <=> x[j].p \/ x[j].e) /\ y[j].frame = x[j].frame
  BY <1>4, <1>5, FlagFacts
<1>8. SameShape(mem[t], TableOf(y))
  BY <1>6, <1>7 DEF SameShape, x
<1> QED BY <1>2, <1>6, <1>8

LEMMA MencryptInv ==
    ASSUME MInv, NEW p \in Procs, NEW a \in Written, NEW n \in 1..NPAGES, mencrypt(p, a, n)
    PROVE  MInv'
<1> DEFINE d == pgdir[p]
           S == {b \in a..(a + n - 1) : ~Pte(d, b).e}
           X == FramesOf(d, S)
<1>1. /\ state[p] = "RUN" /\ reg[p].pc = "user" /\ UNCHANGED <<free, ptable, reg, panicked>>
      /\ \A b \in a..(a + n - 1) : b \in Pages /\ Accessible(d, b)
  BY DEF mencrypt, Runs, At
<1>0. mem' = [f \in Frames |->
            CASE f \in X -> User(Flip(mem[f].byte))
              [] f \in TablesOf(d) -> Flagged(f, X)
              [] OTHER -> mem[f]]
  BY DEF mencrypt, Flagged
<1>d. d = pgdir[p] /\ S = {b \in a..(a + n - 1) : ~Pte(d, b).e} /\ X = FramesOf(d, S)
  OBVIOUS
<1> HIDE DEF d, S, X
<1>2. MemInv(mem, free) /\ d \in Frames /\ mem[d].kind = "dir"
  BY <1>1, <1>d, Mine
<1>3. mem \in Mems /\ EntryInv(mem) /\ LinkInv(mem)
  BY <1>2, FreeFacts
<1>4. S \subseteq Pages /\ \A b \in S : Mapped(d, b)
  <2> SUFFICES ASSUME NEW b \in S PROVE b \in Pages /\ Mapped(d, b)
    OBVIOUS
  <2>1. b \in Pages /\ Accessible(d, b)
    BY <1>1, <1>d
  <2>2. Pte(d, b) \in Entries
    BY <1>2, <2>1, EntryOf
  <2> QED BY <2>1, <2>2 DEF Accessible, Mapped, Entries
<1>5. X \subseteq Frames /\ \A f \in X : mem[f].kind = "user"
  BY <1>2, <1>4, <1>d, UserFrames
<1>6. \A f \in TablesOf(d) : f \in Frames /\ mem[f].kind = "table"
  <2>1. mem[d].pde \in [Pdx -> Frames \cup {None}] /\ DOMAIN mem[d].pde = Pdx
    BY <1>2, <1>3, Kinds DEF Mems
  <2>2. \A f \in TablesOf(d) : f \in Frames /\ \E i \in Pdx : Has(mem, d, i, f)
    BY <1>2, <2>1 DEF TablesOf, Has
  <2> QED BY <1>2, <1>3, <2>2 DEF LinkInv
<1>7. ASSUME NEW f \in Frames PROVE mem'[f] \in Contents /\ SameShape(mem[f], mem'[f])
  <2>0. mem[f] \in Contents
    BY <1>3 DEF Mems
  <2>1. CASE f \in X
    <3>1. mem'[f] = User(Flip(mem[f].byte))
      BY <1>0, <1>5, <1>6, <2>1
    <3>2. Flip(mem[f].byte) \in Byte
      BY <1>5, <2>0, <2>1, Kinds, FlipByte
    <3> QED BY <1>5, <2>0, <2>1, <3>1, <3>2, UserShape
  <2>2. CASE f \in TablesOf(d)
    <3>1. mem'[f] = Flagged(f, X)
      BY <1>0, <1>5, <1>6, <2>2
    <3> QED BY <1>3, <1>5, <1>6, <2>0, <2>2, <3>1, FlaggedFacts
  <2>3. CASE f \notin X /\ f \notin TablesOf(d)
    <3>1. mem'[f] = mem[f]
      BY <1>0, <2>3
    <3> QED BY <2>0, <3>1, ShapeSelf
  <2> QED BY <2>1, <2>2, <2>3
<1>8. mem' \in Mems
  <2>1. mem' \in [Frames -> {mem'[f] : f \in Frames}]
    BY <1>0
  <2> QED BY <1>7, <2>1 DEF Mems
<1> QED BY <1>1, <1>7, <1>8, QuietStep
-----------------------------------------------------------------------------
(* exec: the image. *)

SetExec(r, image) == [r EXCEPT !.pc = "kvmdir", !.image = image]
LEMMA RegExec ==
    ASSUME NEW r \in Regs, NEW image \in Seq(Segments), NEW s, s = SetExec(r, image)
    PROVE  /\ s \in Regs /\ s.pc = "kvmdir" /\ s.d = r.d /\ s.i = r.i /\ s.old = r.old /\ s.end = r.end
           /\ s.np = r.np /\ s.image = image
BY DEF Regs, SetExec, PCs

LEMMA ExecInv ==
    ASSUME MInv, NEW p \in Procs, NEW image \in Images, Exec(p, image)
    PROVE  MInv'
<1>1. /\ Runs(p) /\ reg' = [reg EXCEPT ![p].pc = "kvmdir", ![p].image = image]
      /\ UNCHANGED <<free, mem, ptable, panicked>>
  BY DEF Exec
<1>2. state[p] = "RUN" /\ reg[p] = Idle /\ Upto(mem, pgdir[p], PGROUNDUP(sz[p]))
  BY <1>1, RunsUpto
<1>3. MemInv(mem, free) /\ reg[p] \in Regs /\ image \in Seq(Segments)
  BY <1>2, Mine, ImagesAssumption
<1>s. PICK s : s = SetExec(reg[p], image)
  OBVIOUS
<1>4. s \in Regs /\ s.pc = "kvmdir" /\ s.d = None /\ s.i = 0 /\ s.old = 0 /\ s.np = None
  BY <1>2, <1>3, <1>s, RegExec, IdleReg
<1>5. reg' \in [Procs -> Regs] /\ reg'[p] = s /\ \A q \in Procs : q # p => reg'[q] = reg[q]
  <2>1. reg \in [Procs -> Regs]
    BY DEF MInv, TableInv
  <2>2. reg' = [reg EXCEPT ![p] = s]
    BY <1>1, <1>s, <2>1 DEF SetExec
  <2> QED BY <1>4, <2>2, SetReg
<1>6. mem' = mem /\ free' = free /\ sz' = sz /\ UNCHANGED <<state, kstack, pgdir, parent, panicked>>
  BY <1>1 DEF ptable
<1>7. UserInv(mem', pgdir[p], sz'[p], reg'[p])
  BY <1>2, <1>4, <1>5, <1>6 DEF UserInv
<1>8. CallInv(mem', sz'[p], reg'[p])
  BY <1>4, <1>5 DEF CallInv
<1>9. ~HasNew(p) /\ ~HasNew(p)' /\ reg'[p].np = reg[p].np
  BY <1>2, <1>4, <1>5, IdleReg DEF HasNew
<1>10. sz \in [Procs -> 0..(KERNBASE - 1)]
  BY DEF MInv, TableInv
<1>11. MemInv(mem', free') /\ SameRoots(mem, mem') /\ \A c \in Frames : SameSpace(mem, mem', c)
  BY <1>3, <1>6, SpaceSelf
<1> QED BY <1>2, <1>5, <1>6, <1>7, <1>8, <1>9, <1>10, <1>11, LocalStep

\* The step to allocuvm in exec.
LEMMA ExecAlloc ==
    ASSUME MInv, NEW p \in Procs, At(p, "segs"), NEW pc \in {"load", "stack"}, NEW old \in Nat, NEW end \in Nat,
           allocuvm(p, pc, reg[p].d, old, end), UNCHANGED <<free, mem, ptable, panicked>>,
           old <= end, end < KERNBASE, PGROUNDUP(old) = PGROUNDUP(reg[p].old),
           pc = "load" => /\ reg[p].image # <<>>
                          /\ Head(reg[p].image).vaddr + Head(reg[p].image).memsz <= end
                          /\ Head(reg[p].image).filesz <= Head(reg[p].image).memsz,
           pc = "stack" => \E k \in Pages : old = k * PGSIZE /\ end = (k + 2) * PGSIZE
    PROVE  MInv'
<1>1. state[p] = "RUN" /\ reg[p].pc = "segs"
  BY DEF At
<1>2. /\ CallInv(mem, sz[p], reg[p]) /\ MemInv(mem, free) /\ reg[p].d \in Frames
  BY <1>1, Mine
<1>3. Upto(mem, reg[p].d, PGROUNDUP(old)) /\ reg[p].np = None
  BY <1>1, <1>2 DEF CallInv
<1>4. /\ reg' \in [Procs -> Regs] /\ \A q \in Procs : q # p => reg'[q] = reg[q]
      /\ reg'[p].pc = pc /\ reg'[p].d = reg[p].d /\ reg'[p].i = PGROUNDUP(old) /\ reg'[p].old = old
      /\ reg'[p].end = end /\ reg'[p].np = reg[p].np /\ reg'[p].image = reg[p].image
  <2>d. PICK d : d = reg[p].d
    OBVIOUS
  <2>1. /\ MInv /\ p \in Procs /\ state[p] = "RUN" /\ pc \in PCs /\ d \in Frames /\ old \in Nat /\ end \in Nat
        /\ allocuvm(p, pc, d, old, end)
    BY <1>1, <1>2, <2>d DEF PCs
  <2>2. /\ reg' \in [Procs -> Regs] /\ \A q \in Procs : q # p => reg'[q] = reg[q]
        /\ reg'[p].pc = pc /\ reg'[p].d = d /\ reg'[p].i = PGROUNDUP(old) /\ reg'[p].old = old
        /\ reg'[p].end = end /\ reg'[p].np = reg[p].np /\ reg'[p].image = reg[p].image
    BY ONLY <2>1, AllocCall
  <2> QED BY <2>2, <2>d
<1>5. MemInv(mem', free') /\ SameRoots(mem, mem') /\ \A c \in Frames : SameSpace(mem, mem', c)
  BY <1>2, SpaceSelf
<1>6. CallInv(mem', sz[p], reg'[p])
  <2>1. /\ PGROUNDUP(old) \in Nat /\ PGROUNDUP(old) <= PGROUNDUP(old) /\ PGROUNDUP(old) <= PGROUNDUP(end)
        /\ reg[p].d # None
    <3>1. old \in Nat /\ end \in Nat /\ old <= end
      OBVIOUS
    <3>2. PGROUNDUP(old) \in Nat /\ PGROUNDUP(old) <= PGROUNDUP(end)
      BY ONLY <3>1, RoundType, RoundMono
    <3> QED BY <1>2, <3>2, NoneAssumption
  <2>2. Upto(mem', reg'[p].d, reg'[p].i)
    BY <1>3, <1>4
  <2>3. CASE pc = "load"
    BY <1>3, <1>4, <2>1, <2>2, <2>3 DEF CallInv
  <2>4. CASE pc = "stack"
    BY <1>3, <1>4, <2>1, <2>2, <2>4 DEF CallInv
  <2> QED BY <2>3, <2>4
<1> QED BY <1>1, <1>4, <1>5, <1>6, CallStep

LEMMA MaxOf ==
    ASSUME NEW x \in Nat, NEW y \in Nat
    PROVE  /\ Max({x, y}) \in {x, y} /\ Max({x, y}) >= x /\ Max({x, y}) >= y
<1>1. \E z \in {x, y} : \A w \in {x, y} : z >= w
  <2>1. CASE x >= y
    BY <2>1
  <2>2. CASE y >= x
    BY <2>2
  <2> QED BY <2>1, <2>2
<1> QED BY <1>1 DEF Max

LEMMA ExecSegmentInv ==
    ASSUME MInv, NEW p \in Procs, At(p, "segs"), reg[p].image # <<>>, NEW s, s = Head(reg[p].image),
           ~(s.memsz < s.filesz), ~(s.vaddr + s.memsz >= KERNBASE),
           allocuvm(p, "load", reg[p].d, reg[p].old, Max({s.vaddr + s.memsz, reg[p].old})),
           UNCHANGED <<free, mem, ptable, panicked>>
    PROVE  MInv'
<1>1. state[p] = "RUN" /\ reg[p].pc = "segs"
  BY DEF At
<1>2. reg[p] \in Regs /\ CallInv(mem, sz[p], reg[p])
  BY <1>1, Mine
<1>3. reg[p].old \in Nat /\ reg[p].old < KERNBASE /\ reg[p].image \in Seq(Segments)
  BY <1>1, <1>2 DEF CallInv, Regs
<1>4. s \in Segments
  BY <1>3
<1>5. s.vaddr \in Nat /\ s.memsz \in Nat /\ s.filesz \in Nat /\ s.vaddr + s.memsz \in Nat
  BY <1>4, SMTT(60) DEF Segments
<1>e. PICK e : e = Max({s.vaddr + s.memsz, reg[p].old})
  OBVIOUS
<1>6. e \in Nat /\ reg[p].old <= e /\ s.vaddr + s.memsz <= e /\ e < KERNBASE
  <2>n. PICK n : n = s.vaddr + s.memsz
    OBVIOUS
  <2>o. PICK o : o = reg[p].old
    OBVIOUS
  <2>1. n \in Nat /\ o \in Nat /\ n < KERNBASE /\ o < KERNBASE
    BY <1>3, <1>5, <2>n, <2>o, Sizes
  <2>2. e \in {n, o} /\ e >= n /\ e >= o
    BY <1>e, <2>n, <2>o, <2>1, MaxOf
  <2> QED BY <2>1, <2>2, <2>n, <2>o
<1>7. s.filesz <= s.memsz
  BY <1>5
<1>o. PICK o : o = reg[p].old
  OBVIOUS
<1>8. /\ o \in Nat /\ e \in Nat /\ allocuvm(p, "load", reg[p].d, o, e) /\ o <= e /\ e < KERNBASE
      /\ PGROUNDUP(o) = PGROUNDUP(reg[p].old)
      /\ reg[p].image # <<>> /\ Head(reg[p].image).vaddr + Head(reg[p].image).memsz <= e
      /\ Head(reg[p].image).filesz <= Head(reg[p].image).memsz
  BY <1>3, <1>6, <1>7, <1>e, <1>o
<1> QED BY <1>8, ExecAlloc

LEMMA ExecStackInv ==
    ASSUME MInv, NEW p \in Procs, At(p, "segs"), NEW base, base = PGROUNDUP(reg[p].old) * PGSIZE,
           ~(base + 2 * PGSIZE >= KERNBASE),
           allocuvm(p, "stack", reg[p].d, base, base + 2 * PGSIZE), UNCHANGED <<free, mem, ptable, panicked>>
    PROVE  MInv'
<1>1. state[p] = "RUN" /\ reg[p].pc = "segs"
  BY DEF At
<1>2. reg[p] \in Regs /\ CallInv(mem, sz[p], reg[p])
  BY <1>1, Mine
<1>3. reg[p].old \in Nat
  BY <1>2 DEF Regs
<1>k. PICK k : k = PGROUNDUP(reg[p].old)
  OBVIOUS
<1>4. k \in Nat
  BY <1>3, <1>k, RoundType
<1>5. base = k * PGSIZE /\ base \in Nat /\ base + 2 * PGSIZE \in Nat /\ base + 2 * PGSIZE = (k + 2) * PGSIZE
  <2>1. base = k * PGSIZE /\ base \in Nat
    BY <1>4, <1>k, Times, Sizes
  <2>2. (k + 2) * PGSIZE = base + 2 * PGSIZE
    BY <1>4, <2>1, Times, Sizes
  <2> QED BY <2>1, <2>2, Sizes
<1>6. k \in Pages
  <2>1. CASE k >= NPAGES
    <3>1. NPAGES * PGSIZE <= k * PGSIZE
      BY <1>4, <2>1, Times, Sizes
    <3> QED BY <1>5, <3>1, Sizes DEF KERNBASE
  <2> QED BY <1>4, <2>1, Sizes DEF Pages
<1>7. PGROUNDUP(base) = k
  BY <1>4, <1>5, RoundExact
<1>e. PICK e : e = base + 2 * PGSIZE
  OBVIOUS
<1>8. /\ base \in Nat /\ e \in Nat /\ allocuvm(p, "stack", reg[p].d, base, e) /\ base <= e /\ e < KERNBASE
      /\ PGROUNDUP(base) = PGROUNDUP(reg[p].old)
      /\ \E x \in Pages : base = x * PGSIZE /\ e = (x + 2) * PGSIZE
  BY <1>5, <1>6, <1>7, <1>e, <1>k, Sizes
<1> QED BY <1>8, ExecAlloc

SetLoaded(r) == [r EXCEPT !.pc = "segs", !.old = r.end, !.image = Tail(r.image)]
LEMMA RegLoaded ==
    ASSUME NEW r \in Regs, r.image # <<>>, NEW s, s = SetLoaded(r)
    PROVE  /\ s \in Regs /\ s.pc = "segs" /\ s.d = r.d /\ s.i = r.i /\ s.old = r.end /\ s.end = r.end
           /\ s.np = r.np
<1>1. r.image \in Seq(Segments) /\ r.end \in Nat
  BY DEF Regs
<1>2. Tail(r.image) \in Seq(Segments)
  BY <1>1
<1> QED BY <1>1, <1>2 DEF Regs, SetLoaded, PCs

\* All pages of the call are there.
LEMMA LoadDone ==
    ASSUME MInv, NEW p \in Procs, NEW pc \in {"load", "stack"}, At(p, pc), AllDone(p)
    PROVE  /\ reg[p].end \in Nat /\ reg[p].end < KERNBASE /\ reg[p].np = None
           /\ reg[p].i = PGROUNDUP(reg[p].end) /\ Upto(mem, reg[p].d, PGROUNDUP(reg[p].end))
<1>1. state[p] = "RUN" /\ reg[p].pc = pc
  BY DEF At
<1>2. reg[p] \in Regs /\ CallInv(mem, sz[p], reg[p])
  BY <1>1, Mine
<1>3. /\ reg[p].end \in Nat /\ reg[p].end < KERNBASE /\ reg[p].i \in Nat /\ reg[p].i <= PGROUNDUP(reg[p].end)
      /\ reg[p].np = None /\ Upto(mem, reg[p].d, reg[p].i)
  BY <1>1, <1>2 DEF CallInv, Regs
<1>4. reg[p].i = PGROUNDUP(reg[p].end)
  <2>1. reg[p].i * PGSIZE \in Nat /\ ~(reg[p].i * PGSIZE < reg[p].end)
    BY <1>3, Sizes, Times DEF AllDone
  <2> QED BY <1>3, <2>1, RoundUp
<1> QED BY <1>3, <1>4

\* The pages of a segment's file part are mapped, so loaduvm does not panic.
LEMMA LoadThere ==
    ASSUME MInv, NEW p \in Procs, At(p, "load"), AllDone(p), NEW a \in Pages,
           a * PGSIZE < Head(reg[p].image).vaddr + Head(reg[p].image).filesz
    PROVE  Mapped(reg[p].d, a)
<1>1. state[p] = "RUN" /\ reg[p].pc = "load"
  BY DEF At
<1>2. /\ reg[p] \in Regs /\ CallInv(mem, sz[p], reg[p]) /\ MemInv(mem, free)
      /\ reg[p].d \in Frames /\ mem[reg[p].d].kind = "dir"
  BY <1>1, Mine
<1>3. reg[p].end \in Nat /\ Upto(mem, reg[p].d, PGROUNDUP(reg[p].end))
  BY LoadDone
<1>s. PICK s : s = Head(reg[p].image)
  OBVIOUS
<1>4. reg[p].image # <<>> /\ s.vaddr + s.memsz <= reg[p].end /\ s.filesz <= s.memsz
  BY <1>1, <1>2, <1>s DEF CallInv
<1>5. s \in Segments
  BY <1>2, <1>4, <1>s DEF Regs
<1>6. a \in Nat /\ a * PGSIZE \in Nat
  <2>1. a \in Nat
    BY Sizes DEF Pages
  <2> QED BY <2>1, Times, Sizes
<1>7. a * PGSIZE < reg[p].end
  BY <1>3, <1>4, <1>5, <1>6, <1>s DEF Segments
<1>8. a < PGROUNDUP(reg[p].end)
  BY <1>3, <1>6, <1>7, RoundUp
<1> QED BY <1>2, <1>3, <1>8, EntryOf DEF Upto

LEMMA ExecLoadInv ==
    ASSUME MInv, NEW p \in Procs, At(p, "load"), AllDone(p), NEW S, NEW X, X = FramesOf(reg[p].d, S),
           S \subseteq Pages, \A a \in S : Mapped(reg[p].d, a),
           mem' = [f \in Frames |-> IF f \in X THEN User(Loaded) ELSE mem[f]],
           reg' = [reg EXCEPT ![p] = SetLoaded(reg[p])], UNCHANGED <<free, ptable, panicked>>
    PROVE  MInv'
<1>1. state[p] = "RUN" /\ reg[p].pc = "load"
  BY DEF At
<1>2. /\ reg[p] \in Regs /\ CallInv(mem, sz[p], reg[p]) /\ MemInv(mem, free)
      /\ reg[p].d \in Frames /\ mem[reg[p].d].kind = "dir"
  BY <1>1, Mine
<1>3. mem \in Mems /\ \A f \in X : f \in Frames /\ mem[f].kind = "user"
  BY <1>2, UserFrames, FreeFacts
<1>4. ASSUME NEW f \in Frames PROVE mem'[f] \in Contents /\ SameShape(mem[f], mem'[f])
  <2>0. mem[f] \in Contents /\ Loaded \in Byte
    BY <1>3, SizeAssumption DEF Mems, Loaded, Byte
  <2>1. CASE f \in X
    BY <1>3, <2>0, <2>1, UserShape
  <2>2. CASE f \notin X
    BY <2>0, <2>2, ShapeSelf
  <2> QED BY <2>1, <2>2
<1>5. mem' \in Mems
  <2>1. mem' \in [Frames -> {mem'[f] : f \in Frames}]
    OBVIOUS
  <2> QED BY <1>4, <2>1 DEF Mems
<1>6. MemInv(mem', free') /\ SameRoots(mem, mem') /\ \A c \in Frames : SameSpace(mem, mem', c)
  BY <1>2, <1>4, <1>5, SameStep
<1>7. /\ reg[p].end \in Nat /\ reg[p].end < KERNBASE /\ reg[p].np = None
      /\ Upto(mem, reg[p].d, PGROUNDUP(reg[p].end))
  BY LoadDone
<1>s. PICK s : s = SetLoaded(reg[p])
  OBVIOUS
<1>8. s \in Regs /\ s.pc = "segs" /\ s.d = reg[p].d /\ s.old = reg[p].end /\ s.np = reg[p].np
  <2>1. reg[p].image # <<>>
    BY <1>1, <1>2 DEF CallInv
  <2> QED BY <1>2, <1>s, <2>1, RegLoaded
<1>9. reg' \in [Procs -> Regs] /\ reg'[p] = s /\ \A q \in Procs : q # p => reg'[q] = reg[q]
  BY <1>8, <1>s, SetReg
<1>10. CallInv(mem', sz[p], reg'[p])
  <2>1. Upto(mem', reg[p].d, PGROUNDUP(reg[p].end)) /\ reg[p].d # None
    BY <1>2, <1>6, <1>7, UptoSame, NoneAssumption
  <2> QED BY <1>7, <1>8, <1>9, <2>1 DEF CallInv
<1> QED BY <1>1, <1>6, <1>8, <1>9, <1>10, CallStep

-----------------------------------------------------------------------------
(* Steps that make directories and kernel stacks, free them or hand them on. *)

\* The processes Q are the ones the step is about.
LEMMA WholeStep ==
    ASSUME MInv, TableInv', PanicInv', MemInv(mem', free'), RootInv', StackInv', ChildInv', NEW Q,
           \A q \in Procs : q \notin Q =>
              /\ state'[q] = state[q] /\ pgdir'[q] = pgdir[q] /\ sz'[q] = sz[q] /\ reg'[q] = reg[q]
              /\ state[q] = "RUN" => SameSpace(mem, mem', pgdir[q])
              /\ reg[q].d # None => SameSpace(mem, mem', reg[q].d),
           \A q \in Procs : q \in Q => ProcInv(mem', state'[q], pgdir'[q], sz'[q], reg'[q])
    PROVE  MInv'
<1>1. ASSUME NEW q \in Procs PROVE ProcInv(mem', state'[q], pgdir'[q], sz'[q], reg'[q])
  <2>1. CASE q \in Q
    BY <2>1
  <2>2. CASE q \notin Q
    <3>1. ProcInv(mem, state[q], pgdir[q], sz[q], reg[q])
      BY DEF MInv
    <3>2. /\ state[q] = "RUN" => SameSpace(mem, mem', pgdir[q])
          /\ reg[q].d # None => SameSpace(mem, mem', reg[q].d)
      BY <2>2
    <3>3. ProcInv(mem', state[q], pgdir[q], sz[q], reg[q])
      BY <3>1, <3>2, FrameProc
    <3> QED BY <2>2, <3>3
  <2> QED BY <2>1, <2>2
<1> QED BY <1>1 DEF MInv

\* What the invariant says of any process.
LEMMA Anyone ==
    ASSUME MInv, NEW q \in Procs
    PROVE  /\ state[q] # "RUN" => reg[q] = Idle
           /\ state[q] = "RUN" => pgdir[q] \in Frames /\ mem[pgdir[q]].kind = "dir"
           /\ reg[q].d # None => reg[q].d \in Frames /\ mem[reg[q].d].kind = "dir"
           /\ reg[q].d # None => HasNew(q) \/ (HasDir(q) /\ reg[q].d = pgdir[q])
<1>1. RootInv /\ ProcInv(mem, state[q], pgdir[q], sz[q], reg[q])
  BY DEF MInv
<1>2. state[q] # "RUN" => reg[q] = Idle
  BY <1>1 DEF ProcInv
<1>3. state[q] = "RUN" => pgdir[q] \in Frames /\ mem[pgdir[q]].kind = "dir"
  BY Mine
<1>4. ASSUME reg[q].d # None
      PROVE  /\ reg[q].d \in Frames /\ mem[reg[q].d].kind = "dir"
             /\ HasNew(q) \/ (HasDir(q) /\ reg[q].d = pgdir[q])
  <2>1. state[q] = "RUN"
    BY <1>2, <1>4, IdleReg
  <2>2. CASE reg[q].pc = "grow"
    BY <2>1, <2>2, Mine DEF UserInv
  <2>3. CASE reg[q].pc # "grow"
    BY <1>1, <1>4, <2>3 DEF RootInv, HasNew
  <2> QED BY <2>2, <2>3
<1> QED BY <1>2, <1>3, <1>4

\* An address space and a kernel stack, or only one of them.
Gone(d, k) == (IF d = None THEN {} ELSE Space(d)) \cup (IF k = None THEN {} ELSE {k})

LEMMA GoneFacts ==
    ASSUME MemInv(mem, free), NEW d, d = None \/ (d \in Frames /\ mem[d].kind = "dir"),
           NEW k, k = None \/ (k \in Frames /\ mem[k].kind = "kstack"), NEW X, X = Gone(d, k)
    PROVE  /\ Closed(mem, X) /\ X \subseteq Frames
           /\ \A f \in Frames : mem[f].kind = "dir" => (f \in X <=> f = d)
           /\ \A f \in Frames : mem[f].kind = "kstack" => (f \in X <=> f = k)
<1>1. LinkInv(mem)
  BY FreeFacts
<1>y. PICK Y : Y = IF d = None THEN {} ELSE Space(d)
  OBVIOUS
<1>2. /\ Closed(mem, Y) /\ Y \subseteq Frames
      /\ \A f \in Y : mem[f].kind \in {"table", "user"} \/ (f = d /\ mem[f].kind = "dir")
      /\ d # None => d \in Y
  <2>1. CASE d = None
    BY <1>y, <2>1, ClosedNone
  <2>2. CASE d # None
    <3>1. d \in Frames /\ mem[d].kind = "dir"
      BY <2>2
    <3>2. /\ Closed(mem, Space(d)) /\ Space(d) \subseteq Frames
          /\ \A f \in Space(d) : mem[f].kind \in {"table", "user"} \/ f = d
      BY <3>1, SpaceClosed
    <3>3. d \in Space(d)
      BY DEF Space
    <3> QED BY <1>y, <2>2, <3>1, <3>2, <3>3
  <2> QED BY <2>1, <2>2
<1>3. X = Y \cup (IF k = None THEN {} ELSE {k})
  BY <1>y DEF Gone
<1>4. Closed(mem, X) /\ X \subseteq Frames
  <2>1. CASE k = None
    <3>1. X = Y
      BY <1>3, <2>1
    <3> QED BY <1>2, <3>1
  <2>2. CASE k # None
    <3>1. X = Y \cup {k} /\ k \in Frames /\ mem[k].kind = "kstack"
      BY <1>3, <2>2
    <3> QED BY <1>1, <1>2, <3>1, ClosedMore
  <2> QED BY <2>1, <2>2
<1>5. \A f \in Frames : mem[f].kind = "dir" => (f \in X <=> f = d)
  BY <1>2, <1>3, NoneAssumption
<1>6. \A f \in Frames : mem[f].kind = "kstack" => (f \in X <=> f = k)
  BY <1>2, <1>3, NoneAssumption
<1> QED BY <1>4, <1>5, <1>6

\* They are freed.
LEMMA Release ==
    ASSUME MemInv(mem, free), NEW d, d = None \/ (d \in Frames /\ mem[d].kind = "dir"),
           NEW k, k = None \/ (k \in Frames /\ mem[k].kind = "kstack"), NEW X, X = Gone(d, k),
           free' = free \cup X, mem' \in Mems,
           \A f \in Frames : IF f \in X THEN mem'[f] = Junk ELSE SameShape(mem[f], mem'[f])
    PROVE  /\ MemInv(mem', free')
           /\ \A f \in Frames : mem'[f].kind = "dir" <=> mem[f].kind = "dir" /\ f # d
           /\ \A f \in Frames : mem'[f].kind = "kstack" <=> mem[f].kind = "kstack" /\ f # k
           /\ \A c \in Frames : mem[c].kind = "dir" /\ c # d => SameSpace(mem, mem', c)
<1>1. /\ Closed(mem, X) /\ X \subseteq Frames
      /\ \A f \in Frames : mem[f].kind = "dir" => (f \in X <=> f = d)
      /\ \A f \in Frames : mem[f].kind = "kstack" => (f \in X <=> f = k)
  BY GoneFacts
<1>2. MemInv(mem, free) /\ Frees(mem, mem', X)
  BY <1>1 DEF Frees
<1>3. MemInv(mem', free \cup X)
  BY ONLY <1>2, FreeStep
<1>4. \A f \in Frames : mem'[f].kind = IF f \in X THEN "junk" ELSE mem[f].kind
  BY ONLY <1>2, FreeStep, ZenonT(120)
<1>5. \A c \in Frames : c \notin X => SameSpace(mem, mem', c)
  BY ONLY <1>2, FreeStep
<1> QED BY <1>1, <1>3, <1>4, <1>5

LEMMA FreeRelease ==
    ASSUME MemInv(mem, free), NEW X, mem' = Junked(mem, X)
    PROVE  mem' \in Mems /\ \A f \in Frames : IF f \in X THEN mem'[f] = Junk ELSE SameShape(mem[f], mem'[f])
<1>1. mem \in Mems
  BY FreeFacts
<1>2. mem' \in Mems /\ \A f \in Frames : mem'[f] = IF f \in X THEN Junk ELSE mem[f]
  BY <1>1, JunkedFacts
<1> QED BY <1>2, ShapeSelf

\* A free frame becomes a kernel stack or a directory.
LEMMA Obtain ==
    ASSUME MemInv(mem, free), free # {}, NEW x, x = KStack \/ x = Dir, mem' = [mem EXCEPT ![Kalloc] = x],
           free' = free \ {Kalloc}
    PROVE  /\ MemInv(mem', free') /\ Kalloc \in Frames /\ mem[Kalloc].kind = "junk" /\ mem'[Kalloc] = x
           /\ \A f \in Frames : f # Kalloc => mem'[f].kind = mem[f].kind
           /\ \A c \in Frames : SameSpace(mem, mem', c)
           /\ \A i \in Pdx, t \in Frames : ~Has(mem', Kalloc, i, t)
<1>g. PICK g : g = Kalloc
  OBVIOUS
<1>1. g \in free
  BY <1>g DEF Kalloc
<1>2. mem' = Fill(mem, g, x) /\ free' = free \ {g} /\ mem \in Mems /\ g \in Frames
  BY <1>1, <1>g, FreeFacts DEF Fill
<1>0. MemInv(mem, free) /\ (x = KStack \/ x = Dir)
  OBVIOUS
<1>3. NewRoot(mem, mem', free, g)
  <2>1. NewRoot(mem, Fill(mem, g, x), free, g)
    BY ONLY <1>0, <1>1, RootChange
  <2> QED BY ONLY <1>2, <2>1
<1>4. /\ MemInv(mem', free') /\ mem[g].kind = "junk"
      /\ \A d, f \in Frames, a \in Pages : MapsTo(mem', d, a, f) <=> MapsTo(mem, d, a, f)
  <2>1. /\ MemInv(mem', free \ {g}) /\ mem[g].kind = "junk"
        /\ \A d, f \in Frames, a \in Pages : MapsTo(mem', d, a, f) <=> MapsTo(mem, d, a, f)
    BY ONLY <1>0, <1>3, RootStep
  <2> QED BY <1>2, <2>1
<1>5. /\ \A f \in Frames : f # g => mem'[f].kind = mem[f].kind
      /\ \A d, t \in Frames, i \in Pdx : Has(mem', d, i, t) <=> Has(mem, d, i, t)
  BY <1>3 DEF NewRoot
<1>6. mem'[g] = x
  <2>1. x \in Contents
    BY Makes, EmptyOnes
  <2>2. Fill(mem, g, x)[g] = x
    BY ONLY <1>2, <2>1, FillFacts
  <2> QED BY ONLY <1>2, <2>2
<1>7. \A c \in Frames : SameSpace(mem, mem', c)
  BY <1>4, <1>5 DEF SameSpace, InSpace
<1>8. \A i \in Pdx, t \in Frames : ~Has(mem', g, i, t)
  BY <1>2, <1>4, <1>5 DEF Has
<1> QED BY <1>2, <1>4, <1>5, <1>6, <1>7, <1>8, <1>g

SetFork(r, c) == [r EXCEPT !.pc = "kvmdir", !.np = c]
LEMMA RegFork ==
    ASSUME NEW r \in Regs, NEW c \in Procs, NEW s, s = SetFork(r, c)
    PROVE  /\ s \in Regs /\ s.pc = "kvmdir" /\ s.d = r.d /\ s.i = r.i /\ s.old = r.old /\ s.np = c
BY DEF Regs, SetFork, PCs

LEMMA ForkAllocInv ==
    ASSUME MInv, NEW p \in Procs, ForkAlloc(p)
    PROVE  MInv'
<1>g. PICK g : g = Kalloc
  OBVIOUS
<1>c. PICK c \in Procs : /\ state[c] = "UNUSED" /\ state' = [state EXCEPT ![c] = "EMBRYO"]
                         /\ kstack' = [kstack EXCEPT ![c] = g]
                         /\ reg' = [reg EXCEPT ![p].pc = "kvmdir", ![p].np = c]
  BY <1>g DEF ForkAlloc
<1>1. /\ Runs(p) /\ free # {} /\ free' = free \ {Kalloc} /\ mem' = [mem EXCEPT ![Kalloc] = KStack]
      /\ UNCHANGED <<pgdir, sz, parent, panicked>>
  BY DEF ForkAlloc
<1>2. state[p] = "RUN" /\ reg[p] = Idle /\ Upto(mem, pgdir[p], PGROUNDUP(sz[p]))
  BY <1>1, RunsUpto
<1>3. TableInv /\ PanicInv /\ MemInv(mem, free) /\ RootInv /\ StackInv /\ ChildInv
  BY DEF MInv
<1>4. /\ MemInv(mem', free') /\ g \in Frames /\ mem[g].kind = "junk" /\ mem'[g].kind = "kstack"
      /\ \A f \in Frames : f # g => mem'[f].kind = mem[f].kind
      /\ \A d \in Frames : SameSpace(mem, mem', d)
  <2>1. KStack.kind = "kstack"
    BY Makes
  <2> QED BY <1>1, <1>3, <1>g, <2>1, Obtain
<1>s. PICK s : s = SetFork(reg[p], c)
  OBVIOUS
<1>5. s \in Regs /\ s.pc = "kvmdir" /\ s.d = None /\ s.i = 0 /\ s.old = 0 /\ s.np = c
  <2>1. reg[p] \in Regs
    BY <1>2, Mine
  <2> QED BY <1>2, <1>s, <2>1, RegFork, IdleReg
<1>6. reg' \in [Procs -> Regs] /\ reg'[p] = s /\ \A q \in Procs : q # p => reg'[q] = reg[q]
  <2>1. reg' = [reg EXCEPT ![p] = s]
    BY <1>3, <1>c, <1>s DEF SetFork, TableInv
  <2> QED BY <1>5, <2>1, SetReg
<1>7. /\ state' \in [Procs -> {"UNUSED", "EMBRYO", "RUN", "ZOMBIE"}] /\ state'[c] = "EMBRYO"
      /\ kstack' \in [Procs -> Frames \cup {None}] /\ kstack'[c] = g
      /\ \A q \in Procs : q # c => state'[q] = state[q] /\ kstack'[q] = kstack[q]
  BY <1>3, <1>4, <1>c DEF TableInv
<1>8. TableInv' /\ PanicInv'
  BY <1>1, <1>3, <1>6, <1>7 DEF TableInv, PanicInv
<1>9. /\ \A q \in Procs : HasDir(q)' <=> HasDir(q)
      /\ \A q \in Procs : HasNew(q)' <=> HasNew(q)
      /\ \A q \in Procs : reg'[q].d = reg[q].d
      /\ \A f \in Frames : mem'[f].kind = "dir" <=> mem[f].kind = "dir"
  <2>1. reg'[p].d = None /\ reg[p].d = None
    BY <1>2, <1>5, <1>6, IdleReg
  <2> QED BY <1>4, <1>6, <1>7, <1>c, <2>1 DEF HasDir, HasNew
<1>10. RootInv'
  BY <1>1, <1>3, <1>9 DEF RootInv
<1>11. StackInv'
  <2>1. \A q \in Procs : q # c /\ state[q] # "UNUSED" => kstack[q] # g
    BY <1>3, <1>4 DEF StackInv
  <2>2. \A q \in Procs : state'[q] # "UNUSED" => kstack'[q] \in Frames /\ mem'[kstack'[q]].kind = "kstack"
    BY <1>3, <1>4, <1>7, <2>1 DEF StackInv
  <2>3. \A r, q \in Procs : state'[r] # "UNUSED" /\ state'[q] # "UNUSED" /\ kstack'[r] = kstack'[q] => r = q
    BY <1>3, <1>7, <2>1 DEF StackInv
  <2>4. \A f \in Frames : mem'[f].kind = "kstack" => \E q \in Procs : state'[q] # "UNUSED" /\ kstack'[q] = f
    BY <1>3, <1>4, <1>7, <1>c DEF StackInv
  <2> QED BY <2>2, <2>3, <2>4 DEF StackInv
<1>12. ChildInv'
  <2>1. \A q \in Procs : q # p /\ reg[q].np # None => reg[q].np \in Procs /\ reg[q].np # c /\ state[reg[q].np] = "EMBRYO"
    BY <1>3, <1>c DEF ChildInv, TableInv, Regs
  <2>2. \A q \in Procs : reg'[q].np # None => state'[reg'[q].np] = "EMBRYO"
    BY <1>5, <1>6, <1>7, <2>1
  <2>3. \A r, q \in Procs : reg'[r].np # None /\ reg'[r].np = reg'[q].np => r = q
    BY <1>3, <1>5, <1>6, <2>1 DEF ChildInv
  <2> QED BY <2>2, <2>3 DEF ChildInv
<1>13. ProcInv(mem', state'[p], pgdir'[p], sz'[p], reg'[p])
  <2>1. Upto(mem', pgdir[p], PGROUNDUP(sz[p]))
    BY <1>2, <1>4, Mine, UptoSame
  <2>2. UserInv(mem', pgdir'[p], sz'[p], reg'[p])
    BY <1>1, <1>5, <1>6, <2>1 DEF UserInv
  <2>3. CallInv(mem', sz'[p], reg'[p])
    BY <1>5, <1>6 DEF CallInv
  <2>4. state'[p] = "RUN"
    BY <1>2, <1>7, <1>c
  <2> QED BY <2>2, <2>3, <2>4 DEF ProcInv
<1>14. ProcInv(mem', state'[c], pgdir'[c], sz'[c], reg'[c])
  <2>1. reg'[c] = Idle
    BY <1>2, <1>6, <1>c, Anyone
  <2> QED BY <1>7, <2>1 DEF ProcInv
<1>q. PICK Q : Q = {p, c}
  OBVIOUS
<1>15. \A q \in Procs : q \notin Q =>
          /\ state'[q] = state[q] /\ pgdir'[q] = pgdir[q] /\ sz'[q] = sz[q] /\ reg'[q] = reg[q]
          /\ state[q] = "RUN" => SameSpace(mem, mem', pgdir[q])
          /\ reg[q].d # None => SameSpace(mem, mem', reg[q].d)
  BY <1>1, <1>4, <1>6, <1>7, <1>q, Anyone
<1>16. \A q \in Procs : q \in Q => ProcInv(mem', state'[q], pgdir'[q], sz'[q], reg'[q])
  BY <1>13, <1>14, <1>q
<1> QED BY <1>4, <1>8, <1>10, <1>11, <1>12, <1>15, <1>16, WholeStep

SetDir(r, d) == [r EXCEPT !.pc = "kvm", !.d = d]
LEMMA RegDir ==
    ASSUME NEW r \in Regs, NEW d \in Frames, NEW s, s = SetDir(r, d)
    PROVE  /\ s \in Regs /\ s.pc = "kvm" /\ s.d = d /\ s.i = r.i /\ s.old = r.old /\ s.np = r.np
BY DEF Regs, SetDir, PCs

LEMMA KvmDirInv ==
    ASSUME MInv, NEW p \in Procs, At(p, "kvmdir"), free # {}, free' = free \ {Kalloc},
           mem' = [mem EXCEPT ![Kalloc] = Dir], reg' = [reg EXCEPT ![p].pc = "kvm", ![p].d = Kalloc],
           UNCHANGED <<ptable, panicked>>
    PROVE  MInv'
<1>g. PICK g : g = Kalloc
  OBVIOUS
<1>1. state[p] = "RUN" /\ reg[p].pc = "kvmdir"
  BY DEF At
<1>2. /\ reg[p] \in Regs /\ UserInv(mem, pgdir[p], sz[p], reg[p]) /\ CallInv(mem, sz[p], reg[p])
      /\ pgdir[p] \in Frames
  BY <1>1, Mine
<1>3. TableInv /\ PanicInv /\ MemInv(mem, free) /\ RootInv /\ StackInv /\ ChildInv
  BY DEF MInv
<1>4. /\ MemInv(mem', free') /\ g \in Frames /\ mem[g].kind = "junk" /\ mem'[g].kind = "dir"
      /\ \A f \in Frames : f # g => mem'[f].kind = mem[f].kind
      /\ \A d \in Frames : SameSpace(mem, mem', d)
      /\ \A i \in Pdx, t \in Frames : ~Has(mem', g, i, t)
  <2>1. Dir.kind = "dir"
    BY EmptyOnes
  <2> QED BY <1>3, <1>g, <2>1, Obtain
<1>s. PICK s : s = SetDir(reg[p], g)
  OBVIOUS
<1>5. s \in Regs /\ s.pc = "kvm" /\ s.d = g /\ s.i = 0 /\ s.old = 0 /\ s.np = reg[p].np /\ reg[p].d = None
  <2>1. reg[p].d = None /\ reg[p].i = 0 /\ reg[p].old = 0
    BY <1>1, <1>2 DEF CallInv
  <2> QED BY <1>2, <1>4, <1>s, <2>1, RegDir
<1>6. reg' \in [Procs -> Regs] /\ reg'[p] = s /\ \A q \in Procs : q # p => reg'[q] = reg[q]
  <2>1. reg' = [reg EXCEPT ![p] = s]
    BY <1>3, <1>g, <1>s DEF SetDir, TableInv
  <2> QED BY <1>5, <2>1, SetReg
<1>7. UNCHANGED <<state, kstack, pgdir, sz, parent>>
  BY DEF ptable
<1>8. TableInv' /\ PanicInv'
  BY <1>3, <1>6, <1>7 DEF TableInv, PanicInv
<1>9. /\ \A q \in Procs : HasDir(q)' <=> HasDir(q)
      /\ \A q \in Procs : HasNew(q)' <=> HasNew(q) \/ q = p
      /\ \A q \in Procs : HasNew(q) => reg'[q].d = reg[q].d /\ q # p
      /\ reg'[p].d = g
  <2>1. HasNew(p)' /\ ~HasNew(p)
    BY <1>4, <1>5, <1>6, NoneAssumption DEF HasNew
  <2> QED BY <1>5, <1>6, <1>7, <2>1 DEF HasDir, HasNew
<1>10. RootInv'
  <2>1. \A q \in Procs : HasDir(q) => pgdir[q] \in Frames /\ pgdir[q] # g /\ mem'[pgdir[q]].kind = "dir"
    BY <1>3, <1>4 DEF RootInv
  <2>2. \A q \in Procs : HasNew(q) => reg[q].d \in Frames /\ reg[q].d # g /\ mem'[reg[q].d].kind = "dir"
    BY <1>3, <1>4 DEF RootInv
  <2>3. /\ \A q \in Procs : HasDir(q)' => pgdir'[q] \in Frames /\ mem'[pgdir'[q]].kind = "dir"
        /\ \A q \in Procs : HasNew(q)' => reg'[q].d \in Frames /\ mem'[reg'[q].d].kind = "dir"
    BY <1>4, <1>7, <1>9, <2>1, <2>2, ZenonT(120)
  <2>4. /\ \A r, q \in Procs : HasDir(r)' /\ HasDir(q)' /\ pgdir'[r] = pgdir'[q] => r = q
        /\ \A r, q \in Procs : HasNew(r)' /\ HasNew(q)' /\ reg'[r].d = reg'[q].d => r = q
        /\ \A r, q \in Procs : HasDir(r)' /\ HasNew(q)' => pgdir'[r] # reg'[q].d
    BY ONLY p \in Procs, <1>3, <1>7, <1>9, <2>1, <2>2 DEF RootInv
  <2>5. \A f \in Frames : mem'[f].kind = "dir" =>
          \E q \in Procs : (HasDir(q)' /\ pgdir'[q] = f) \/ (HasNew(q)' /\ reg'[q].d = f)
    BY ONLY p \in Procs, <1>3, <1>4, <1>7, <1>9 DEF RootInv
  <2> QED BY <2>3, <2>4, <2>5 DEF RootInv
<1>11. StackInv'
  BY <1>3, <1>4, <1>7 DEF StackInv
<1>12. ChildInv'
  <2>1. \A q \in Procs : reg'[q].np = reg[q].np
    BY <1>5, <1>6
  <2> QED BY <1>3, <1>7, <2>1, ZenonT(120) DEF ChildInv
<1>13. ProcInv(mem', state'[p], pgdir'[p], sz'[p], reg'[p])
  <2>1. Upto(mem', pgdir[p], PGROUNDUP(sz[p]))
    <3>1. Upto(mem, pgdir[p], PGROUNDUP(sz[p]))
      BY <1>1, <1>2 DEF UserInv
    <3> QED BY <1>2, <1>4, <3>1, UptoSame
  <2>2. UserInv(mem', pgdir'[p], sz'[p], reg'[p])
    BY <1>5, <1>6, <1>7, <2>1 DEF UserInv
  <2>3. Upto(mem', g, 0)
    <3>1. \A a \in Pages : ~InSpace(mem', g, a) /\ ~(a < 0)
      <4> SUFFICES ASSUME NEW a \in Pages PROVE ~InSpace(mem', g, a) /\ ~(a < 0)
        OBVIOUS
      <4>1. a \div PTSIZE \in Pdx
        BY PageSplit
      <4>2. ~InSpace(mem', g, a)
        BY ONLY <1>4, <4>1 DEF InSpace, MapsTo
      <4> QED BY <4>2 DEF Pages
    <3> QED BY <3>1 DEF Upto
  <2>4. CallInv(mem', sz'[p], reg'[p])
    <3>1. 0 <= KTABLES /\ g # None
      BY <1>4, Sizes, NoneAssumption
    <3> QED BY <1>4, <1>5, <1>6, <2>3, <3>1 DEF CallInv
  <2> QED BY <1>1, <1>7, <2>2, <2>4 DEF ProcInv
<1>q. PICK Q : Q = {p}
  OBVIOUS
<1>15. \A q \in Procs : q \notin Q =>
          /\ state'[q] = state[q] /\ pgdir'[q] = pgdir[q] /\ sz'[q] = sz[q] /\ reg'[q] = reg[q]
          /\ state[q] = "RUN" => SameSpace(mem, mem', pgdir[q])
          /\ reg[q].d # None => SameSpace(mem, mem', reg[q].d)
  BY <1>4, <1>6, <1>7, <1>q, Anyone
<1>16. \A q \in Procs : q \in Q => ProcInv(mem', state'[q], pgdir'[q], sz'[q], reg'[q])
  BY <1>13, <1>q
<1> QED BY <1>4, <1>8, <1>10, <1>11, <1>12, <1>15, <1>16, WholeStep

\* The child gets the directory; the parent returns.
LEMMA ForkDoneInv ==
    ASSUME MInv, NEW p \in Procs, ForkDone(p)
    PROVE  MInv'
<1>c. PICK c : c = reg[p].np
  OBVIOUS
<1>d. PICK d : d = reg[p].d
  OBVIOUS
<1>1. /\ state[p] = "RUN" /\ reg[p].pc = "copy" /\ reg[p].i * PGSIZE >= sz[p]
      /\ pgdir' = [pgdir EXCEPT ![c] = d] /\ sz' = [sz EXCEPT ![c] = sz[p]]
      /\ parent' = [parent EXCEPT ![c] = p] /\ state' = [state EXCEPT ![c] = "RUN"]
      /\ reg' = [reg EXCEPT ![p] = Idle] /\ UNCHANGED <<free, mem, kstack, panicked>>
  BY <1>c, <1>d DEF ForkDone, At, Return
<1>2. /\ reg[p] \in Regs /\ UserInv(mem, pgdir[p], sz[p], reg[p]) /\ CallInv(mem, sz[p], reg[p])
      /\ sz[p] \in Nat /\ d \in Frames /\ mem[d].kind = "dir"
  BY <1>1, <1>d, Mine
<1>3. TableInv /\ PanicInv /\ MemInv(mem, free) /\ RootInv /\ StackInv /\ ChildInv
  BY DEF MInv
<1>4. c \in Procs /\ state[c] = "EMBRYO" /\ c # p
  <2>1. c # None
    BY <1>1, <1>2, <1>c DEF CallInv
  <2> QED BY <1>1, <1>2, <1>3, <1>c, <2>1 DEF ChildInv, Regs
<1>5. Upto(mem, pgdir[p], PGROUNDUP(sz[p])) /\ Upto(mem, d, PGROUNDUP(sz[p]))
  <2>1. /\ Upto(mem, pgdir[p], PGROUNDUP(sz[p])) /\ Upto(mem, d, reg[p].i)
        /\ reg[p].i \in Nat /\ reg[p].i <= PGROUNDUP(sz[p])
    BY <1>1, <1>2, <1>d DEF UserInv, CallInv, Regs
  <2>2. reg[p].i * PGSIZE \in Nat /\ ~(reg[p].i * PGSIZE < sz[p])
    BY <1>1, <1>2, <2>1, Sizes, Times
  <2>3. reg[p].i = PGROUNDUP(sz[p])
    BY <1>2, <2>1, <2>2, RoundUp
  <2> QED BY <2>1, <2>3
<1>6. reg' \in [Procs -> Regs] /\ reg'[p] = Idle /\ \A q \in Procs : q # p => reg'[q] = reg[q]
  BY <1>1, IdleReg, SetReg
<1>7. /\ state' \in [Procs -> {"UNUSED", "EMBRYO", "RUN", "ZOMBIE"}] /\ state'[c] = "RUN"
      /\ pgdir' \in [Procs -> Frames \cup {None}] /\ pgdir'[c] = d
      /\ sz' \in [Procs -> 0..(KERNBASE - 1)] /\ sz'[c] = sz[p]
      /\ parent' \in [Procs -> Procs \cup {None}]
      /\ \A q \in Procs : q # c => state'[q] = state[q] /\ pgdir'[q] = pgdir[q] /\ sz'[q] = sz[q]
  BY <1>1, <1>2, <1>3, <1>4 DEF TableInv
<1>8. TableInv' /\ PanicInv'
  BY <1>1, <1>3, <1>6, <1>7 DEF TableInv, PanicInv
<1>9. /\ \A q \in Procs : HasDir(q)' <=> HasDir(q) \/ q = c
      /\ \A q \in Procs : HasNew(q)' <=> HasNew(q) /\ q # p
      /\ \A q \in Procs : HasDir(q) => q # c
      /\ HasNew(p) /\ reg[p].d = d
  <2>1. HasNew(p) /\ ~HasNew(p)'
    BY <1>1, <1>6, TwoDirs, IdleReg DEF HasNew
  <2> QED BY <1>4, <1>6, <1>7, <1>d, <2>1 DEF HasDir, HasNew
<1>10. RootInv'
  <2>1. /\ \A q \in Procs : HasDir(q)' => pgdir'[q] \in Frames /\ mem'[pgdir'[q]].kind = "dir"
        /\ \A q \in Procs : HasNew(q)' => reg'[q].d \in Frames /\ mem'[reg'[q].d].kind = "dir"
    BY ONLY p \in Procs, <1>1, <1>2, <1>3, <1>4, <1>6, <1>7, <1>9 DEF RootInv
  <2>2. /\ \A r, q \in Procs : HasDir(r)' /\ HasDir(q)' /\ pgdir'[r] = pgdir'[q] => r = q
        /\ \A r, q \in Procs : HasNew(r)' /\ HasNew(q)' /\ reg'[r].d = reg'[q].d => r = q
        /\ \A r, q \in Procs : HasDir(r)' /\ HasNew(q)' => pgdir'[r] # reg'[q].d
    BY ONLY p \in Procs, <1>3, <1>4, <1>6, <1>7, <1>9 DEF RootInv
  <2>3. \A f \in Frames : mem'[f].kind = "dir" =>
          \E q \in Procs : (HasDir(q)' /\ pgdir'[q] = f) \/ (HasNew(q)' /\ reg'[q].d = f)
    <3> SUFFICES ASSUME NEW f \in Frames, mem[f].kind = "dir"
                 PROVE  \E q \in Procs : (HasDir(q)' /\ pgdir'[q] = f) \/ (HasNew(q)' /\ reg'[q].d = f)
      BY <1>1
    <3>1. PICK q \in Procs : (HasDir(q) /\ pgdir[q] = f) \/ (HasNew(q) /\ reg[q].d = f)
      BY <1>3 DEF RootInv
    <3>2. CASE q = p /\ HasNew(q) /\ reg[q].d = f
      BY <1>4, <1>7, <1>9, <3>2
    <3>3. CASE ~(q = p /\ HasNew(q) /\ reg[q].d = f)
      BY <1>6, <1>7, <1>9, <3>1, <3>3
    <3> QED BY <3>2, <3>3
  <2> QED BY <2>1, <2>2, <2>3 DEF RootInv
<1>11. StackInv'
  <2>1. mem' = mem /\ kstack' = kstack /\ \A q \in Procs : state'[q] # "UNUSED" <=> state[q] # "UNUSED"
    BY <1>1, <1>4, <1>7
  <2> QED BY <1>3, <2>1 DEF StackInv
<1>12. ChildInv'
  <2>1. \A q \in Procs : reg'[q].np # None => q # p /\ reg'[q].np = reg[q].np /\ reg[q].np \in Procs /\ reg[q].np # c
    BY <1>3, <1>4, <1>6, <1>c, IdleReg, NoneAssumption, ZenonT(120) DEF ChildInv, TableInv, Regs
  <2> QED BY <1>3, <1>7, <2>1 DEF ChildInv
<1>13. ASSUME NEW q \in {p, c} PROVE ProcInv(mem', state'[q], pgdir'[q], sz'[q], reg'[q])
  <2>1. reg'[q] = Idle /\ state'[q] = "RUN"
    BY <1>1, <1>4, <1>6, <1>7, Anyone
  <2>2. Upto(mem', pgdir'[q], PGROUNDUP(sz'[q]))
    BY <1>1, <1>4, <1>5, <1>7
  <2>3. UserInv(mem', pgdir'[q], sz'[q], reg'[q])
    BY <2>1, <2>2, IdleReg DEF UserInv
  <2>4. CallInv(mem', sz'[q], reg'[q])
    BY <2>1, IdleReg DEF CallInv
  <2> QED BY <2>1, <2>3, <2>4 DEF ProcInv
<1>q. PICK Q : Q = {p, c}
  OBVIOUS
<1>15. \A q \in Procs : q \notin Q =>
          /\ state'[q] = state[q] /\ pgdir'[q] = pgdir[q] /\ sz'[q] = sz[q] /\ reg'[q] = reg[q]
          /\ state[q] = "RUN" => SameSpace(mem, mem', pgdir[q])
          /\ reg[q].d # None => SameSpace(mem, mem', reg[q].d)
  BY <1>1, <1>6, <1>7, <1>q, SpaceSelf
<1>16. \A q \in Procs : q \in Q => ProcInv(mem', state'[q], pgdir'[q], sz'[q], reg'[q])
  BY <1>13, <1>q
<1>17. MemInv(mem', free')
  BY <1>1, <1>3
<1> QED BY <1>8, <1>10, <1>11, <1>12, <1>15, <1>16, <1>17, WholeStep

LEMMA ExitInv ==
    ASSUME MInv, NEW p \in Procs, At(p, "user"), state' = [state EXCEPT ![p] = "ZOMBIE"],
           parent' = [q \in Procs |-> IF parent[q] = p THEN InitProc ELSE parent[q]],
           UNCHANGED <<free, mem, kstack, pgdir, sz, reg, panicked>>
    PROVE  MInv'
<1>1. state[p] = "RUN" /\ reg[p].pc = "user"
  BY DEF At
<1>2. reg[p] = Idle
  BY <1>1, Mine DEF UserInv
<1>3. TableInv /\ PanicInv /\ MemInv(mem, free) /\ RootInv /\ StackInv /\ ChildInv
  BY DEF MInv
<1>4. /\ state' \in [Procs -> {"UNUSED", "EMBRYO", "RUN", "ZOMBIE"}] /\ state'[p] = "ZOMBIE"
      /\ \A q \in Procs : q # p => state'[q] = state[q]
  BY <1>3 DEF TableInv
<1>5. parent' \in [Procs -> Procs \cup {None}]
  <2>1. InitProc \in Procs /\ parent \in [Procs -> Procs \cup {None}]
    BY <1>3, SizeAssumption DEF InitProc, Procs, TableInv
  <2> QED BY <2>1
<1>6. TableInv' /\ PanicInv'
  BY <1>3, <1>4, <1>5 DEF TableInv, PanicInv
<1>7. \A q \in Procs : (HasDir(q)' <=> HasDir(q)) /\ (HasNew(q)' <=> HasNew(q))
  BY <1>1, <1>4 DEF HasDir, HasNew
<1>8. RootInv'
  BY <1>3, <1>7 DEF RootInv
<1>9. StackInv'
  BY <1>1, <1>3, <1>4 DEF StackInv
<1>10. ChildInv'
  <2>1. \A q \in Procs : reg[q].np # None => reg[q].np \in Procs /\ reg[q].np # p
    BY <1>1, <1>3 DEF ChildInv, TableInv, Regs
  <2> QED BY <1>3, <1>4, <2>1 DEF ChildInv
<1>q. PICK Q : Q = {p}
  OBVIOUS
<1>11. \A q \in Procs : q \notin Q =>
          /\ state'[q] = state[q] /\ pgdir'[q] = pgdir[q] /\ sz'[q] = sz[q] /\ reg'[q] = reg[q]
          /\ state[q] = "RUN" => SameSpace(mem, mem', pgdir[q])
          /\ reg[q].d # None => SameSpace(mem, mem', reg[q].d)
  BY <1>4, <1>q, SpaceSelf
<1>12. \A q \in Procs : q \in Q => ProcInv(mem', state'[q], pgdir'[q], sz'[q], reg'[q])
  BY <1>2, <1>4, <1>q DEF ProcInv
<1>13. MemInv(mem', free')
  BY <1>3
<1> QED BY <1>6, <1>8, <1>9, <1>10, <1>11, <1>12, <1>13, WholeStep

\* wait frees the child's address space and its kernel stack.
LEMMA WaitInv ==
    ASSUME MInv, NEW p \in Procs, NEW c \in Procs, Wait(p, c)
    PROVE  MInv'
<1>d. PICK d : d = pgdir[c]
  OBVIOUS
<1>k. PICK k : k = kstack[c]
  OBVIOUS
<1>x. PICK X : X = Space(d) \cup {k}
  OBVIOUS
<1>1. /\ Runs(p) /\ state[c] = "ZOMBIE" /\ free' = free \cup X /\ mem' = Junked(mem, X)
      /\ kstack' = [kstack EXCEPT ![c] = None] /\ parent' = [parent EXCEPT ![c] = None]
      /\ state' = [state EXCEPT ![c] = "UNUSED"] /\ pgdir' = [pgdir EXCEPT ![c] = None]
      /\ sz' = [sz EXCEPT ![c] = 0] /\ UNCHANGED <<reg, panicked>>
  BY <1>d, <1>k, <1>x DEF Wait, FreeFrames, Freed
<1>3. TableInv /\ PanicInv /\ MemInv(mem, free) /\ RootInv /\ StackInv /\ ChildInv
  BY DEF MInv
<1>4. d \in Frames /\ mem[d].kind = "dir" /\ k \in Frames /\ mem[k].kind = "kstack" /\ HasDir(c)
  BY <1>1, <1>3, <1>d, <1>k DEF RootInv, StackInv, HasDir
<1>5. /\ MemInv(mem', free')
      /\ \A f \in Frames : mem'[f].kind = "dir" <=> mem[f].kind = "dir" /\ f # d
      /\ \A f \in Frames : mem'[f].kind = "kstack" <=> mem[f].kind = "kstack" /\ f # k
      /\ \A e \in Frames : mem[e].kind = "dir" /\ e # d => SameSpace(mem, mem', e)
  <2>1. X = Gone(d, k)
    BY <1>4, <1>x, NoneAssumption DEF Gone
  <2>2. mem' \in Mems /\ \A f \in Frames : IF f \in X THEN mem'[f] = Junk ELSE SameShape(mem[f], mem'[f])
    BY <1>1, <1>3, FreeRelease
  <2>3. /\ MemInv(mem, free) /\ d \in Frames /\ mem[d].kind = "dir" /\ k \in Frames /\ mem[k].kind = "kstack"
        /\ free' = free \cup X
    BY <1>1, <1>3, <1>4
  <2> QED BY ONLY <2>1, <2>2, <2>3, Release
<1>6. /\ state' \in [Procs -> {"UNUSED", "EMBRYO", "RUN", "ZOMBIE"}] /\ state'[c] = "UNUSED"
      /\ kstack' \in [Procs -> Frames \cup {None}] /\ pgdir' \in [Procs -> Frames \cup {None}]
      /\ sz' \in [Procs -> 0..(KERNBASE - 1)] /\ parent' \in [Procs -> Procs \cup {None}]
      /\ \A q \in Procs : q # c => /\ state'[q] = state[q] /\ kstack'[q] = kstack[q]
                                   /\ pgdir'[q] = pgdir[q] /\ sz'[q] = sz[q]
  <2>1. 0 \in 0..(KERNBASE - 1)
    BY Sizes
  <2> QED BY <1>1, <1>3, <2>1 DEF TableInv
<1>7. TableInv' /\ PanicInv'
  BY <1>1, <1>3, <1>6 DEF TableInv, PanicInv
<1>8. /\ \A q \in Procs : HasDir(q)' <=> HasDir(q) /\ q # c
      /\ \A q \in Procs : HasNew(q)' <=> HasNew(q)
  BY <1>1, <1>6 DEF HasDir, HasNew
<1>9. /\ \A q \in Procs : HasDir(q) /\ q # c => pgdir[q] # d
      /\ \A q \in Procs : HasNew(q) => reg[q].d # d
  BY <1>3, <1>4, <1>d DEF RootInv
<1>10. RootInv'
  <2>1. /\ \A q \in Procs : HasDir(q)' => pgdir'[q] \in Frames /\ mem'[pgdir'[q]].kind = "dir"
        /\ \A q \in Procs : HasNew(q)' => reg'[q].d \in Frames /\ mem'[reg'[q].d].kind = "dir"
    BY ONLY <1>1, <1>3, <1>5, <1>6, <1>8, <1>9 DEF RootInv
  <2>2. /\ \A r, q \in Procs : HasDir(r)' /\ HasDir(q)' /\ pgdir'[r] = pgdir'[q] => r = q
        /\ \A r, q \in Procs : HasNew(r)' /\ HasNew(q)' /\ reg'[r].d = reg'[q].d => r = q
        /\ \A r, q \in Procs : HasDir(r)' /\ HasNew(q)' => pgdir'[r] # reg'[q].d
    BY ONLY <1>1, <1>3, <1>6, <1>8 DEF RootInv
  <2>3. \A f \in Frames : mem'[f].kind = "dir" =>
          \E q \in Procs : (HasDir(q)' /\ pgdir'[q] = f) \/ (HasNew(q)' /\ reg'[q].d = f)
    BY ONLY <1>1, <1>3, <1>5, <1>6, <1>8, <1>d DEF RootInv
  <2> QED BY <2>1, <2>2, <2>3 DEF RootInv
<1>11. StackInv'
  <2>1. \A q \in Procs : q # c /\ state[q] # "UNUSED" => kstack[q] # k
    BY <1>1, <1>3, <1>k DEF StackInv
  <2> QED BY <1>3, <1>5, <1>6, <1>k, <2>1 DEF StackInv
<1>12. ChildInv'
  <2>1. \A q \in Procs : reg[q].np # None => reg[q].np \in Procs /\ reg[q].np # c
    BY <1>1, <1>3 DEF ChildInv, TableInv, Regs
  <2> QED BY <1>1, <1>3, <1>6, <2>1 DEF ChildInv
<1>q. PICK Q : Q = {c}
  OBVIOUS
<1>15. \A q \in Procs : q \notin Q =>
          /\ state'[q] = state[q] /\ pgdir'[q] = pgdir[q] /\ sz'[q] = sz[q] /\ reg'[q] = reg[q]
          /\ state[q] = "RUN" => SameSpace(mem, mem', pgdir[q])
          /\ reg[q].d # None => SameSpace(mem, mem', reg[q].d)
  <2> SUFFICES ASSUME NEW q \in Procs, q # c
               PROVE  /\ state[q] = "RUN" => SameSpace(mem, mem', pgdir[q])
                      /\ reg[q].d # None => SameSpace(mem, mem', reg[q].d)
    BY <1>1, <1>6, <1>q
  <2>1. state[q] = "RUN" => pgdir[q] \in Frames /\ mem[pgdir[q]].kind = "dir" /\ pgdir[q] # d
    BY <1>9, Anyone DEF HasDir
  <2>2. reg[q].d # None => reg[q].d \in Frames /\ mem[reg[q].d].kind = "dir" /\ reg[q].d # d
    BY <1>9, Anyone
  <2> QED BY <1>5, <2>1, <2>2
<1>16. \A q \in Procs : q \in Q => ProcInv(mem', state'[q], pgdir'[q], sz'[q], reg'[q])
  <2>1. reg'[c] = Idle
    BY <1>1, Anyone
  <2> QED BY <1>6, <1>q, <2>1 DEF ProcInv
<1> QED BY <1>5, <1>7, <1>10, <1>11, <1>12, <1>15, <1>16, WholeStep

\* A fork or an exec fails and gives back what it has.
LEMMA BadInv ==
    ASSUME MInv, NEW p \in Procs, state[p] = "RUN", reg[p].pc \notin {"user", "grow"},
           NEW F, F = IF reg[p].d = None THEN {} ELSE Space(reg[p].d), Bad(p, F)
    PROVE  MInv'
<1>c. PICK c : c = reg[p].np
  OBVIOUS
<1>d. PICK d : d = reg[p].d
  OBVIOUS
<1>k. PICK k : k = IF c = None THEN None ELSE kstack[c]
  OBVIOUS
<1>x. PICK X : X = IF c = None THEN F ELSE F \cup {kstack[c]}
  OBVIOUS
<1>1. /\ free' = free \cup X /\ mem' = Junked(mem, X)
      /\ c = None => UNCHANGED ptable
      /\ c # None => /\ kstack' = [kstack EXCEPT ![c] = None] /\ pgdir' = [pgdir EXCEPT ![c] = None]
                     /\ state' = [state EXCEPT ![c] = "UNUSED"] /\ UNCHANGED <<sz, parent>>
      /\ reg' = [reg EXCEPT ![p] = Idle] /\ UNCHANGED panicked
  BY <1>c, <1>x DEF Bad, FreeFrames, Freed, Return
<1>2. /\ reg[p] \in Regs /\ UserInv(mem, pgdir[p], sz[p], reg[p]) /\ CallInv(mem, sz[p], reg[p])
      /\ pgdir[p] \in Frames /\ mem[pgdir[p]].kind = "dir" /\ HasDir(p)
  BY Mine
<1>3. TableInv /\ PanicInv /\ MemInv(mem, free) /\ RootInv /\ StackInv /\ ChildInv
  BY DEF MInv
<1>4. /\ d = None \/ (d \in Frames /\ mem[d].kind = "dir" /\ HasNew(p))
      /\ HasNew(p) => d # None
  BY <1>3, <1>d DEF RootInv, HasNew
<1>5. /\ c = None \/ (c \in Procs /\ state[c] = "EMBRYO" /\ c # p)
      /\ k = None \/ (k \in Frames /\ mem[k].kind = "kstack")
      /\ c # None => k = kstack[c]
  <2>1. c # None => c \in Procs /\ state[c] = "EMBRYO"
    BY <1>2, <1>3, <1>c DEF ChildInv, Regs
  <2> QED BY <1>3, <1>k, <2>1 DEF StackInv
<1>6. /\ MemInv(mem', free')
      /\ \A f \in Frames : mem'[f].kind = "dir" <=> mem[f].kind = "dir" /\ f # d
      /\ \A f \in Frames : mem'[f].kind = "kstack" <=> mem[f].kind = "kstack" /\ f # k
      /\ \A e \in Frames : mem[e].kind = "dir" /\ e # d => SameSpace(mem, mem', e)
  <2>1. X = Gone(d, k)
    <3>1. CASE c = None
      BY <1>d, <1>k, <1>x, <3>1 DEF Gone
    <3>2. CASE c # None
      <4>1. k = kstack[c] /\ k # None
        BY <1>3, <1>5, <3>2, NoneAssumption DEF StackInv
      <4> QED BY <1>d, <1>x, <3>2, <4>1 DEF Gone
    <3> QED BY <3>1, <3>2
  <2>2. mem' \in Mems /\ \A f \in Frames : IF f \in X THEN mem'[f] = Junk ELSE SameShape(mem[f], mem'[f])
    BY <1>1, <1>3, FreeRelease
  <2>3. /\ MemInv(mem, free) /\ (d = None \/ (d \in Frames /\ mem[d].kind = "dir"))
        /\ (k = None \/ (k \in Frames /\ mem[k].kind = "kstack")) /\ free' = free \cup X
    BY <1>1, <1>3, <1>4, <1>5
  <2> QED BY ONLY <2>1, <2>2, <2>3, Release
<1>7. /\ state' \in [Procs -> {"UNUSED", "EMBRYO", "RUN", "ZOMBIE"}] /\ (c # None => state'[c] = "UNUSED")
      /\ kstack' \in [Procs -> Frames \cup {None}] /\ pgdir' \in [Procs -> Frames \cup {None}]
      /\ sz' = sz /\ parent' = parent
      /\ \A q \in Procs : q # c => state'[q] = state[q] /\ kstack'[q] = kstack[q] /\ pgdir'[q] = pgdir[q]
  <2>1. CASE c = None
    BY <1>1, <1>3, <2>1 DEF TableInv, ptable
  <2>2. CASE c # None
    BY <1>1, <1>3, <1>5, <2>2 DEF TableInv
  <2> QED BY <2>1, <2>2
<1>8. reg' \in [Procs -> Regs] /\ reg'[p] = Idle /\ \A q \in Procs : q # p => reg'[q] = reg[q]
  BY <1>1, IdleReg, SetReg
<1>9. TableInv' /\ PanicInv'
  BY <1>1, <1>3, <1>7, <1>8 DEF TableInv, PanicInv
<1>10. /\ \A q \in Procs : HasDir(q)' <=> HasDir(q)
       /\ \A q \in Procs : HasDir(q) => q # c
       /\ \A q \in Procs : HasNew(q)' <=> HasNew(q) /\ q # p
  <2>1. ~HasNew(p)'
    BY <1>8, IdleReg DEF HasNew
  <2>2. c \in Procs => c # None
    BY NoneAssumption
  <2> QED BY ONLY <1>5, <1>7, <1>8, <2>1, <2>2 DEF HasDir, HasNew
<1>11. /\ \A q \in Procs : HasDir(q) => pgdir[q] \in Frames /\ mem[pgdir[q]].kind = "dir" /\ pgdir[q] # d
       /\ \A q \in Procs : HasNew(q) /\ q # p => reg[q].d \in Frames /\ mem[reg[q].d].kind = "dir" /\ reg[q].d # d
  BY ONLY p \in Procs, <1>3, <1>4, <1>d, NoneAssumption DEF RootInv
<1>12. RootInv'
  <2>1. /\ \A q \in Procs : HasDir(q)' => pgdir'[q] \in Frames /\ mem'[pgdir'[q]].kind = "dir"
        /\ \A q \in Procs : HasNew(q)' => reg'[q].d \in Frames /\ mem'[reg'[q].d].kind = "dir"
    BY ONLY <1>6, <1>7, <1>8, <1>10, <1>11
  <2>2. /\ \A r, q \in Procs : HasDir(r)' /\ HasDir(q)' /\ pgdir'[r] = pgdir'[q] => r = q
        /\ \A r, q \in Procs : HasNew(r)' /\ HasNew(q)' /\ reg'[r].d = reg'[q].d => r = q
        /\ \A r, q \in Procs : HasDir(r)' /\ HasNew(q)' => pgdir'[r] # reg'[q].d
    BY ONLY <1>3, <1>7, <1>8, <1>10 DEF RootInv
  <2>3. \A f \in Frames : mem'[f].kind = "dir" =>
          \E q \in Procs : (HasDir(q)' /\ pgdir'[q] = f) \/ (HasNew(q)' /\ reg'[q].d = f)
    BY ONLY <1>3, <1>6, <1>7, <1>8, <1>10, <1>d DEF RootInv
  <2> QED BY <2>1, <2>2, <2>3 DEF RootInv
<1>13. StackInv'
  <2>1. \A q \in Procs : q # c /\ state[q] # "UNUSED" => kstack[q] # k
    BY <1>3, <1>5, <1>k, NoneAssumption DEF StackInv
  <2>2. \A q \in Procs : state'[q] # "UNUSED" => q # c /\ state[q] # "UNUSED" /\ kstack'[q] = kstack[q]
    BY <1>5, <1>7, NoneAssumption
  <2>3. \A q \in Procs : q # c /\ state[q] # "UNUSED" => state'[q] # "UNUSED" /\ kstack'[q] = kstack[q]
    BY <1>7
  <2>4. /\ \A q \in Procs : state'[q] # "UNUSED" => kstack'[q] \in Frames /\ mem'[kstack'[q]].kind = "kstack"
        /\ \A r, q \in Procs : state'[r] # "UNUSED" /\ state'[q] # "UNUSED" /\ kstack'[r] = kstack'[q] => r = q
    BY ONLY <1>3, <1>6, <2>1, <2>2 DEF StackInv
  <2>5. ASSUME NEW f \in Frames, mem'[f].kind = "kstack"
        PROVE  \E q \in Procs : state'[q] # "UNUSED" /\ kstack'[q] = f
    <3>1. PICK q \in Procs : state[q] # "UNUSED" /\ kstack[q] = f
      BY <1>3, <1>6, <2>5 DEF StackInv
    <3>2. q # c
      BY <1>5, <1>6, <2>5, <3>1, NoneAssumption
    <3> QED BY <2>3, <3>1, <3>2
  <2> QED BY <2>4, <2>5 DEF StackInv
<1>14. ChildInv'
  <2>1. \A q \in Procs : reg'[q].np # None => q # p /\ reg'[q].np = reg[q].np /\ reg[q].np \in Procs /\ reg[q].np # c
    <3> SUFFICES ASSUME NEW q \in Procs, reg'[q].np # None
                 PROVE  q # p /\ reg'[q].np = reg[q].np /\ reg[q].np \in Procs /\ reg[q].np # c
      OBVIOUS
    <3>1. q # p /\ reg'[q] = reg[q]
      BY <1>8, IdleReg
    <3>2. reg[q].np \in Procs
      BY <1>3, <3>1 DEF TableInv, Regs
    <3> QED BY <1>3, <1>c, <3>1, <3>2 DEF ChildInv
  <2> QED BY <1>3, <1>7, <2>1 DEF ChildInv
<1>15. ProcInv(mem', state'[p], pgdir'[p], sz'[p], reg'[p])
  <2>1. state'[p] = "RUN" /\ pgdir'[p] = pgdir[p] /\ sz'[p] = sz[p]
    BY <1>5, <1>7, NoneAssumption
  <2>2. Upto(mem', pgdir[p], PGROUNDUP(sz[p]))
    <3>1. Upto(mem, pgdir[p], PGROUNDUP(sz[p]))
      BY <1>2 DEF UserInv
    <3>2. SameSpace(mem, mem', pgdir[p])
      BY <1>2, <1>6, <1>11
    <3> QED BY <3>1, <3>2, UptoSame
  <2>3. UserInv(mem', pgdir'[p], sz'[p], reg'[p])
    BY <1>8, <2>1, <2>2, IdleReg DEF UserInv
  <2>4. CallInv(mem', sz'[p], reg'[p])
    BY <1>8, IdleReg DEF CallInv
  <2> QED BY <2>1, <2>3, <2>4 DEF ProcInv
<1>16. c # None => ProcInv(mem', state'[c], pgdir'[c], sz'[c], reg'[c])
  <2> SUFFICES ASSUME c # None PROVE ProcInv(mem', state'[c], pgdir'[c], sz'[c], reg'[c])
    OBVIOUS
  <2>1. c \in Procs /\ c # p /\ state[c] # "RUN"
    BY <1>5
  <2>2. reg'[c] = Idle
    BY <1>8, <2>1, Anyone
  <2> QED BY <1>7, <2>2 DEF ProcInv
<1>q. PICK Q : Q = {p, c}
  OBVIOUS
<1>17. \A q \in Procs : q \notin Q =>
          /\ state'[q] = state[q] /\ pgdir'[q] = pgdir[q] /\ sz'[q] = sz[q] /\ reg'[q] = reg[q]
          /\ state[q] = "RUN" => SameSpace(mem, mem', pgdir[q])
          /\ reg[q].d # None => SameSpace(mem, mem', reg[q].d)
  <2> SUFFICES ASSUME NEW q \in Procs, q # p, q # c
               PROVE  /\ state[q] = "RUN" => SameSpace(mem, mem', pgdir[q])
                      /\ reg[q].d # None => SameSpace(mem, mem', reg[q].d)
    BY <1>7, <1>8, <1>q
  <2>1. state[q] = "RUN" => pgdir[q] \in Frames /\ mem[pgdir[q]].kind = "dir" /\ pgdir[q] # d
    BY <1>11 DEF HasDir
  <2>2. reg[q].d # None => reg[q].d \in Frames /\ mem[reg[q].d].kind = "dir" /\ reg[q].d # d
    BY <1>11, Anyone
  <2> QED BY <1>6, <2>1, <2>2
<1>18. \A q \in Procs : q \in Q => ProcInv(mem', state'[q], pgdir'[q], sz'[q], reg'[q])
  BY <1>15, <1>16, <1>q, NoneAssumption
<1> QED BY <1>6, <1>9, <1>12, <1>13, <1>14, <1>17, <1>18, WholeStep

\* The flags of an entry and the byte of a frame change.
LEMMA PutFlags ==
    ASSUME MemInv(mem, free), NEW d \in Frames, mem[d].kind = "dir", NEW a \in Pages, Mapped(d, a),
           NEW e \in Entries, e.p \/ e.e, e.frame = Pte(d, a).frame, NEW n, n = SetPte(mem, d, a, e)
    PROVE  n \in Mems /\ \A f \in Frames : SameShape(mem[f], n[f])
<1>1. mem \in Mems
  BY FreeFacts
<1>g. PICK g : g = Pte(d, a).frame
  OBVIOUS
<1>2. g \in Frames /\ MapsTo(mem, d, a, g)
  BY <1>g, EntryOf
<1>i. PICK i : i = a \div PTSIZE
  OBVIOUS
<1>j. PICK j : j = a % PTSIZE
  OBVIOUS
<1>3. PICK t \in Frames : Has(mem, d, i, t) /\ Holds(mem, t, j, g)
  BY <1>2, <1>i, <1>j DEF MapsTo
<1>4. /\ mem[d].pde[i] = t /\ mem[t].kind = "table" /\ j \in Ptx
      /\ (mem[t].pte[j].p \/ mem[t].pte[j].e) /\ mem[t].pte[j].frame = g
  BY <1>3 DEF Has, Holds
<1>5. n = PutPte(mem, t, j, e)
  BY <1>4, <1>i, <1>j DEF SetPte, PutPte
<1>6. /\ n \in Mems /\ n[t].kind = "table" /\ \A f \in Frames : f # t => n[f] = mem[f]
      /\ \A k \in Ptx : n[t].pte[k] = IF k = j THEN e ELSE mem[t].pte[k]
  BY ONLY <1>1, <1>4, <1>5, t \in Frames, e \in Entries, PteFacts
<1>7. SameShape(mem[t], n[t])
  <2>1. ASSUME NEW k \in Ptx
        PROVE  /\ (n[t].pte[k].p \/ n[t].pte[k].e) <=> (mem[t].pte[k].p \/ mem[t].pte[k].e)
               /\ n[t].pte[k].frame = mem[t].pte[k].frame
    <3>1. CASE k = j
      BY <1>4, <1>6, <1>g, <3>1
    <3>2. CASE k # j
      BY <1>6, <3>2
    <3> QED BY <3>1, <3>2
  <2> QED BY <1>4, <1>6, <2>1 DEF SameShape
<1> QED BY <1>6, <1>7, ShapeSelf

LEMMA ShapeThen ==
    ASSUME NEW x, NEW y, NEW z, SameShape(x, y), SameShape(y, z)
    PROVE  SameShape(x, z)
BY DEF SameShape

\* The pages of a new stack.
LEMMA StackPages ==
    ASSUME MInv, NEW p \in Procs, At(p, "stack"), AllDone(p), NEW top, top = reg[p].end \div PGSIZE - 1
    PROVE  top \in Pages /\ top - 1 \in Pages /\ Mapped(reg[p].d, top) /\ Mapped(reg[p].d, top - 1)
<1>1. state[p] = "RUN" /\ reg[p].pc = "stack"
  BY DEF At
<1>2. /\ CallInv(mem, sz[p], reg[p]) /\ MemInv(mem, free) /\ reg[p].d \in Frames /\ mem[reg[p].d].kind = "dir"
  BY <1>1, Mine
<1>3. PICK k \in Pages : reg[p].end = (k + 2) * PGSIZE
  BY <1>1, <1>2 DEF CallInv
<1>4. k \in Nat /\ k + 2 \in Nat
  BY Sizes DEF Pages
<1>5. /\ reg[p].end \in Nat /\ reg[p].end < KERNBASE
      /\ Upto(mem, reg[p].d, PGROUNDUP(reg[p].end))
  BY LoadDone
<1>6. PGROUNDUP(reg[p].end) = k + 2 /\ reg[p].end \div PGSIZE = k + 2
  BY <1>3, <1>4, RoundExact
<1>7. top = k + 1 /\ top - 1 = k /\ top \in Nat
  BY <1>4, <1>6
<1>8. top \in Pages
  <2>1. top < PGROUNDUP(reg[p].end)
    BY <1>4, <1>6, <1>7
  <2> QED BY <1>5, <1>7, <2>1, RoundBound
<1>9. InSpace(mem, reg[p].d, top) /\ InSpace(mem, reg[p].d, k)
  BY <1>4, <1>5, <1>6, <1>7, <1>8 DEF Upto
<1>10. Mapped(reg[p].d, top) /\ Mapped(reg[p].d, k)
  BY <1>2, <1>8, <1>9, EntryOf DEF InSpace
<1> QED BY <1>7, <1>8, <1>10

Unuser(x) == [x EXCEPT !.u = FALSE]
LEMMA UnuserFacts ==
    ASSUME NEW x \in Entries
    PROVE  /\ Unuser(x) \in Entries /\ Unuser(x).frame = x.frame
           /\ (Unuser(x).p \/ Unuser(x).e <=> x.p \/ x.e)
BY DEF Entries, Unuser

\* What exec does to memory when it commits, before the old space is freed.
LEMMA CommitShape ==
    ASSUME MInv, NEW p \in Procs, At(p, "stack"), AllDone(p), NEW d, d = reg[p].d,
           NEW top, top = reg[p].end \div PGSIZE - 1, NEW b \in Byte,
           NEW g, g = SetPte(mem, d, top - 1, Unuser(Pte(d, top - 1))),
           NEW n, n = [g EXCEPT ![Pte(d, top).frame] = User(b)]
    PROVE  n \in Mems /\ \A f \in Frames : SameShape(mem[f], n[f])
<1>1. state[p] = "RUN" /\ reg[p].pc = "stack"
  BY DEF At
<1>2. MemInv(mem, free) /\ d \in Frames /\ mem[d].kind = "dir"
  BY <1>1, Mine
<1>a. PICK a : a = top - 1
  OBVIOUS
<1>3. top \in Pages /\ a \in Pages /\ Mapped(d, top) /\ Mapped(d, a)
  BY <1>a, StackPages
<1>e. PICK e : e = Unuser(Pte(d, a))
  OBVIOUS
<1>4. e \in Entries /\ (e.p \/ e.e) /\ e.frame = Pte(d, a).frame
  <2>1. Pte(d, a) \in Entries /\ (Pte(d, a).p \/ Pte(d, a).e)
    BY <1>2, <1>3, EntryOf DEF Mapped
  <2> QED BY <1>e, <2>1, UnuserFacts
<1>5. g \in Mems /\ \A f \in Frames : SameShape(mem[f], g[f])
  <2>1. g = SetPte(mem, d, a, e)
    BY <1>a, <1>e
  <2> QED BY ONLY <1>2, <1>3, <1>4, <2>1, PutFlags
<1>h. PICK h : h = Pte(d, top).frame
  OBVIOUS
<1>6. h \in Frames /\ mem[h].kind = "user"
  BY <1>2, <1>3, <1>h, EntryOf
<1>7. g[h] \in Contents /\ g[h].kind = "user"
  BY <1>5, <1>6 DEF Mems, SameShape
<1>y. PICK y : y = User(b)
  OBVIOUS
<1>8. SameShape(g[h], y) /\ y \in Contents
  BY <1>7, <1>y, UserShape
<1>9. n \in Mems /\ n[h] = y /\ \A f \in Frames : f # h => n[f] = g[f]
  <2>1. n = Fill(g, h, y)
    BY <1>h, <1>y DEF Fill
  <2> QED BY ONLY <1>5, <1>6, <1>8, <2>1, FillFacts
<1> QED BY <1>5, <1>6, <1>8, <1>9, ShapeThen

LEMMA ExecCommitInv ==
    ASSUME MInv, NEW p \in Procs, At(p, "stack"), AllDone(p), NEW n \in Mems,
           \A f \in Frames : SameShape(mem[f], n[f]), NEW D, D = pgdir[p],
           mem' = Junked(n, Space(D)), free' = free \cup Space(D),
           pgdir' = [pgdir EXCEPT ![p] = reg[p].d], sz' = [sz EXCEPT ![p] = reg[p].end],
           reg' = [reg EXCEPT ![p] = Idle], UNCHANGED <<state, kstack, parent, panicked>>
    PROVE  MInv'
<1>d. PICK d : d = reg[p].d
  OBVIOUS
<1>x. PICK X : X = Space(D)
  OBVIOUS
<1>1. state[p] = "RUN" /\ reg[p].pc = "stack"
  BY DEF At
<1>2. /\ reg[p] \in Regs /\ d \in Frames /\ mem[d].kind = "dir" /\ D \in Frames /\ mem[D].kind = "dir"
      /\ HasDir(p) /\ HasNew(p) /\ D # d
  BY <1>1, <1>d, Mine, TwoDirs
<1>3. TableInv /\ PanicInv /\ MemInv(mem, free) /\ RootInv /\ StackInv /\ ChildInv
  BY DEF MInv
<1>4. /\ reg[p].end \in Nat /\ reg[p].end < KERNBASE /\ reg[p].np = None
      /\ Upto(mem, d, PGROUNDUP(reg[p].end))
  BY <1>d, LoadDone
<1>5. /\ MemInv(mem', free')
      /\ \A f \in Frames : mem'[f].kind = "dir" <=> mem[f].kind = "dir" /\ f # D
      /\ \A f \in Frames : mem'[f].kind = "kstack" <=> mem[f].kind = "kstack" /\ f # None
      /\ \A e \in Frames : mem[e].kind = "dir" /\ e # D => SameSpace(mem, mem', e)
  <2>k. PICK k : k = None
    OBVIOUS
  <2>1. X = Gone(D, k)
    BY <1>2, <1>x, <2>k, NoneAssumption DEF Gone
  <2>2. mem' \in Mems /\ \A f \in Frames : IF f \in X THEN mem'[f] = Junk ELSE SameShape(mem[f], mem'[f])
    <3>1. Junked(n, X) \in Mems /\ \A f \in Frames : Junked(n, X)[f] = IF f \in X THEN Junk ELSE n[f]
      BY ONLY n \in Mems, JunkedFacts
    <3>2. mem' = Junked(n, X)
      BY <1>x
    <3> QED BY <3>1, <3>2
  <2>3. /\ MemInv(mem, free) /\ (D = None \/ (D \in Frames /\ mem[D].kind = "dir"))
        /\ (k = None \/ (k \in Frames /\ mem[k].kind = "kstack")) /\ free' = free \cup X
    BY <1>2, <1>3, <1>x, <2>k
  <2>4. /\ MemInv(mem', free')
        /\ \A f \in Frames : mem'[f].kind = "dir" <=> mem[f].kind = "dir" /\ f # D
        /\ \A f \in Frames : mem'[f].kind = "kstack" <=> mem[f].kind = "kstack" /\ f # k
        /\ \A e \in Frames : mem[e].kind = "dir" /\ e # D => SameSpace(mem, mem', e)
    BY ONLY <2>1, <2>2, <2>3, Release
  <2> QED BY <2>4, <2>k
<1>6. reg' \in [Procs -> Regs] /\ reg'[p] = Idle /\ \A q \in Procs : q # p => reg'[q] = reg[q]
  BY IdleReg, SetReg
<1>7. /\ pgdir' \in [Procs -> Frames \cup {None}] /\ pgdir'[p] = d
      /\ sz' \in [Procs -> 0..(KERNBASE - 1)] /\ sz'[p] = reg[p].end
      /\ \A q \in Procs : q # p => pgdir'[q] = pgdir[q] /\ sz'[q] = sz[q]
  BY <1>2, <1>3, <1>4, <1>d, Sizes DEF TableInv
<1>8. TableInv' /\ PanicInv'
  BY <1>3, <1>6, <1>7 DEF TableInv, PanicInv
<1>9. /\ \A q \in Procs : HasDir(q)' <=> HasDir(q)
      /\ \A q \in Procs : HasNew(q)' <=> HasNew(q) /\ q # p
  <2>1. ~HasNew(p)'
    BY <1>6, IdleReg DEF HasNew
  <2> QED BY <1>6, <2>1 DEF HasDir, HasNew
<1>10. /\ \A q \in Procs : HasDir(q) /\ q # p => pgdir[q] \in Frames /\ mem[pgdir[q]].kind = "dir" /\ pgdir[q] \notin {D, d}
       /\ \A q \in Procs : HasNew(q) /\ q # p => reg[q].d \in Frames /\ mem[reg[q].d].kind = "dir" /\ reg[q].d \notin {D, d}
  <2>1. p \in Procs /\ D = pgdir[p] /\ RootInv
    BY <1>3
  <2> QED BY ONLY <1>2, <1>d, <2>1 DEF RootInv
<1>11. RootInv'
  <2>0. p \in Procs /\ D = pgdir[p]
    OBVIOUS
  <2>1. /\ \A q \in Procs : HasDir(q)' => pgdir'[q] \in Frames /\ mem'[pgdir'[q]].kind = "dir"
        /\ \A q \in Procs : HasNew(q)' => reg'[q].d \in Frames /\ mem'[reg'[q].d].kind = "dir"
    BY ONLY <1>2, <1>5, <1>6, <1>7, <1>9, <1>10
  <2>2. /\ \A r, q \in Procs : HasDir(r)' /\ HasDir(q)' /\ pgdir'[r] = pgdir'[q] => r = q
        /\ \A r, q \in Procs : HasNew(r)' /\ HasNew(q)' /\ reg'[r].d = reg'[q].d => r = q
        /\ \A r, q \in Procs : HasDir(r)' /\ HasNew(q)' => pgdir'[r] # reg'[q].d
    BY ONLY <1>3, <1>6, <1>7, <1>9, <1>10 DEF RootInv
  <2>3. \A f \in Frames : mem'[f].kind = "dir" =>
          \E q \in Procs : (HasDir(q)' /\ pgdir'[q] = f) \/ (HasNew(q)' /\ reg'[q].d = f)
    BY ONLY <1>2, <1>3, <1>5, <1>6, <1>7, <1>9, <1>d, <2>0 DEF RootInv
  <2> QED BY <2>1, <2>2, <2>3 DEF RootInv
<1>12. StackInv'
  <2>1. \A f \in Frames : mem'[f].kind = "kstack" <=> mem[f].kind = "kstack"
    BY <1>5, NoneAssumption
  <2>2. kstack' = kstack /\ state' = state
    OBVIOUS
  <2> QED BY ONLY <1>3, <2>1, <2>2 DEF StackInv
<1>13. ChildInv'
  <2>1. \A q \in Procs : reg'[q].np = reg[q].np
    BY <1>4, <1>6, IdleReg
  <2> QED BY <1>3, <2>1 DEF ChildInv
<1>14. ProcInv(mem', state'[p], pgdir'[p], sz'[p], reg'[p])
  <2>1. Upto(mem', d, PGROUNDUP(reg[p].end))
    BY <1>2, <1>4, <1>5, UptoSame
  <2>2. UserInv(mem', pgdir'[p], sz'[p], reg'[p])
    BY <1>6, <1>7, <2>1, IdleReg DEF UserInv
  <2>3. CallInv(mem', sz'[p], reg'[p])
    BY <1>6, IdleReg DEF CallInv
  <2> QED BY <1>1, <2>2, <2>3 DEF ProcInv
<1>q. PICK Q : Q = {p}
  OBVIOUS
<1>15. \A q \in Procs : q \notin Q =>
          /\ state'[q] = state[q] /\ pgdir'[q] = pgdir[q] /\ sz'[q] = sz[q] /\ reg'[q] = reg[q]
          /\ state[q] = "RUN" => SameSpace(mem, mem', pgdir[q])
          /\ reg[q].d # None => SameSpace(mem, mem', reg[q].d)
  <2> SUFFICES ASSUME NEW q \in Procs, q # p
               PROVE  /\ state[q] = "RUN" => SameSpace(mem, mem', pgdir[q])
                      /\ reg[q].d # None => SameSpace(mem, mem', reg[q].d)
    BY <1>6, <1>7, <1>q
  <2>1. state[q] = "RUN" => pgdir[q] \in Frames /\ mem[pgdir[q]].kind = "dir" /\ pgdir[q] # D
    BY <1>10 DEF HasDir
  <2>2. reg[q].d # None => reg[q].d \in Frames /\ mem[reg[q].d].kind = "dir" /\ reg[q].d # D
    BY <1>10, Anyone
  <2> QED BY <1>5, <2>1, <2>2
<1>16. \A q \in Procs : q \in Q => ProcInv(mem', state'[q], pgdir'[q], sz'[q], reg'[q])
  BY <1>14, <1>q
<1> QED BY <1>5, <1>8, <1>11, <1>12, <1>13, <1>15, <1>16, WholeStep

-----------------------------------------------------------------------------
(* userinit. *)

InitPde == [i \in Pdx |-> IF i = 0 THEN 3 ELSE IF i < UTABLES THEN None ELSE 5 + i - UTABLES]
InitPte == [frame |-> 4, p |-> TRUE, e |-> FALSE, u |-> TRUE]

LEMMA InitFrames ==
    ASSUME Init
    PROVE  /\ mem \in Mems /\ mem[1] = KStack /\ mem[4] = User(Loaded)
           /\ mem[2].kind = "dir" /\ \A i \in Pdx : mem[2].pde[i] = InitPde[i]
           /\ mem[3].kind = "table" /\ \A j \in Ptx : mem[3].pte[j] = IF j = 0 THEN InitPte ELSE NoEntry
           /\ \A f \in Frames : f > 4 /\ f <= 4 + KTABLES => mem[f] = Table
           /\ \A f \in Frames : f > 4 + KTABLES => mem[f] = Junk
           /\ 1 \in Frames /\ 2 \in Frames /\ 3 \in Frames /\ 4 \in Frames
<1>1. 1 \in Frames /\ 2 \in Frames /\ 3 \in Frames /\ 4 \in Frames
  BY Sizes DEF Frames
<1>2. InitPde \in [Pdx -> Frames \cup {None}]
  <2>1. \A i \in Pdx : i >= UTABLES => 5 + i - UTABLES \in Frames
    BY Sizes DEF Pdx, Frames
  <2>2. \A i \in Pdx : i < UTABLES \/ i >= UTABLES
    BY Sizes DEF Pdx
  <2> QED BY <1>1, <2>1, <2>2 DEF InitPde
<1>x. PICK x : x = [i \in Ptx |-> NoEntry]
  OBVIOUS
<1>z. PICK z : z = [x EXCEPT ![0] = InitPte]
  OBVIOUS
<1>3. /\ x \in [Ptx -> Entries] /\ z \in [Ptx -> Entries] /\ 0 \in Ptx
      /\ \A j \in Ptx : z[j] = IF j = 0 THEN InitPte ELSE NoEntry
  <2>1. InitPte \in Entries /\ NoEntry \in Entries
    BY <1>1, EmptyOnes DEF InitPte, Entries
  <2>2. 0 \in Ptx
    BY Sizes DEF Ptx
  <2>3. x \in [Ptx -> Entries]
    BY <1>x, <2>1
  <2> QED BY <1>x, <1>z, <2>1, <2>2, <2>3
<1>4. [Dir EXCEPT !.pde = [i \in 0..(UTABLES + KTABLES - 1) |-> IF i = 0 THEN 3
                             ELSE IF i < UTABLES THEN None ELSE 5 + i - UTABLES]] = DirOf(InitPde)
  <2>1. Dir = DirOf([i \in Pdx |-> None])
    BY DEF Dir, DirOf, Pdx
  <2>2. \A v, w : [DirOf(v) EXCEPT !.pde = w] = DirOf(w)
    BY DEF DirOf
  <2>3. InitPde = [i \in 0..(UTABLES + KTABLES - 1) |-> IF i = 0 THEN 3
                     ELSE IF i < UTABLES THEN None ELSE 5 + i - UTABLES]
    BY DEF InitPde, Pdx
  <2>4. [Dir EXCEPT !.pde = InitPde] = DirOf(InitPde)
    BY ONLY <2>1, <2>2
  <2> QED BY ONLY <2>3, <2>4
<1>5. [Table EXCEPT !.pte[0] = [frame |-> 4, p |-> TRUE, e |-> FALSE, u |-> TRUE]] = TableOf(z)
  <2>1. Table = TableOf(x)
    BY <1>x DEF Table, TableOf, Ptx
  <2>2. [TableOf(x) EXCEPT !.pte[0] = InitPte] = TableOf(z)
    BY <1>z DEF TableOf
  <2> QED BY <2>1, <2>2 DEF InitPte
<1>6. mem = [f \in Frames |->
                CASE f = 1 -> KStack
                  [] f = 2 -> DirOf(InitPde)
                  [] f = 3 -> TableOf(z)
                  [] f = 4 -> User(Loaded)
                  [] f \in 5..(4 + KTABLES) -> Table
                  [] OTHER -> Junk]
  BY <1>4, <1>5 DEF Init
<1>7. /\ mem[1] = KStack /\ mem[2] = DirOf(InitPde) /\ mem[3] = TableOf(z) /\ mem[4] = User(Loaded)
  BY <1>1, <1>6, Sizes
<1>8. /\ \A f \in Frames : f > 4 /\ f <= 4 + KTABLES => mem[f] = Table
      /\ \A f \in Frames : f > 4 + KTABLES => mem[f] = Junk
      /\ \A f \in Frames : f \in {1, 2, 3, 4} \/ f > 4
  <2> SUFFICES ASSUME NEW f \in Frames
               PROVE  /\ f > 4 /\ f <= 4 + KTABLES => mem[f] = Table
                      /\ f > 4 + KTABLES => mem[f] = Junk
                      /\ f \in {1, 2, 3, 4} \/ f > 4
    OBVIOUS
  <2>1. f \in Nat /\ f >= 1
    BY Sizes DEF Frames
  <2>2. f > 4 /\ f <= 4 + KTABLES => mem[f] = Table
    BY <1>6, <2>1, Sizes
  <2>3. f > 4 + KTABLES => mem[f] = Junk
    BY <1>6, <2>1, Sizes
  <2> QED BY <2>1, <2>2, <2>3
<1>9. /\ DirOf(InitPde) \in Contents /\ DirOf(InitPde).kind = "dir" /\ DirOf(InitPde).pde = InitPde
      /\ TableOf(z) \in Contents /\ TableOf(z).kind = "table" /\ TableOf(z).pte = z
      /\ User(Loaded) \in Contents /\ KStack \in Contents /\ Table \in Contents /\ Junk \in Contents
  <2>1. Loaded \in Byte
    BY SizeAssumption DEF Loaded, Byte
  <2> QED BY <1>2, <1>3, <2>1, Makes, EmptyOnes
<1>10. mem \in Mems
  <2>1. \A f \in Frames : mem[f] \in Contents
    <3> SUFFICES ASSUME NEW f \in Frames PROVE mem[f] \in Contents
      OBVIOUS
    <3>1. f \in Nat
      BY DEF Frames
    <3> QED BY <1>7, <1>8, <1>9, <3>1, Sizes
  <2>2. mem \in [Frames -> {mem[f] : f \in Frames}]
    BY <1>6
  <2> QED BY <2>1, <2>2 DEF Mems
<1> QED BY <1>1, <1>3, <1>7, <1>8, <1>9, <1>10

LEMMA InitLinks ==
    ASSUME Init
    PROVE  /\ \A d, i, t : Has(mem, d, i, t) <=>
                 /\ d = 2 /\ i \in Pdx /\ t \in Frames
                 /\ (i = 0 /\ t = 3) \/ (i >= UTABLES /\ t = 5 + i - UTABLES)
           /\ \A t, j, f : Holds(mem, t, j, f) <=> t = 3 /\ j = 0 /\ f = 4
           /\ 0 \in Pdx /\ 0 \in Ptx
           /\ \A f \in Frames : f \in Nat /\ f >= 1 /\ f <= NFRAMES
           /\ \A i \in Pdx : i \in Nat /\ i <= UTABLES + KTABLES - 1
<1>1. /\ mem \in Mems /\ mem[1] = KStack /\ mem[4] = User(Loaded)
      /\ mem[2].kind = "dir" /\ \A i \in Pdx : mem[2].pde[i] = InitPde[i]
      /\ mem[3].kind = "table" /\ \A j \in Ptx : mem[3].pte[j] = IF j = 0 THEN InitPte ELSE NoEntry
      /\ \A f \in Frames : f > 4 /\ f <= 4 + KTABLES => mem[f] = Table
      /\ \A f \in Frames : f > 4 + KTABLES => mem[f] = Junk
      /\ 1 \in Frames /\ 2 \in Frames /\ 3 \in Frames /\ 4 \in Frames
  BY InitFrames
<1>2. 0 \in Pdx /\ 0 \in Ptx
  BY Sizes DEF Pdx, Ptx
<1>3. /\ \A f \in Frames : f \in Nat /\ f >= 1 /\ f <= NFRAMES
      /\ \A i \in Pdx : i \in Nat /\ i <= UTABLES + KTABLES - 1
  BY Sizes DEF Frames, Pdx
<1>4. /\ KStack.kind = "kstack" /\ User(Loaded).kind = "user" /\ Junk.kind = "junk" /\ Table.kind = "table"
      /\ \A j \in Ptx : ~Table.pte[j].p /\ ~Table.pte[j].e
      /\ ~NoEntry.p /\ ~NoEntry.e /\ InitPte.p /\ ~InitPte.e /\ InitPte.frame = 4
  <2>1. Loaded \in Byte
    BY SizeAssumption DEF Loaded, Byte
  <2> QED BY <2>1, Makes, EmptyOnes DEF InitPte
<1>5. \A f \in Frames : f \in {1, 2, 3, 4} \/ (f > 4 /\ f <= 4 + KTABLES) \/ f > 4 + KTABLES
  BY <1>3, Sizes
<1>6. \A f \in Frames : (mem[f].kind = "dir" <=> f = 2) /\ (mem[f].kind = "table" => f = 3 \/ mem[f] = Table)
  <2> SUFFICES ASSUME NEW f \in Frames
               PROVE  (mem[f].kind = "dir" <=> f = 2) /\ (mem[f].kind = "table" => f = 3 \/ mem[f] = Table)
    OBVIOUS
  <2>1. CASE f \in {1, 2, 3, 4}
    BY <1>1, <1>4, <2>1
  <2>2. CASE f > 4 /\ f <= 4 + KTABLES
    BY <1>1, <1>3, <1>4, <2>2
  <2>3. CASE f > 4 + KTABLES
    BY <1>1, <1>3, <1>4, <2>3, Sizes
  <2> QED BY <1>5, <2>1, <2>2, <2>3
<1>7. ASSUME NEW d, NEW i, NEW t
      PROVE  Has(mem, d, i, t) <=> /\ d = 2 /\ i \in Pdx /\ t \in Frames
                                   /\ (i = 0 /\ t = 3) \/ (i >= UTABLES /\ t = 5 + i - UTABLES)
  <2>1. Has(mem, d, i, t) <=> d = 2 /\ i \in Pdx /\ t \in Frames /\ InitPde[i] = t
    BY <1>1, <1>6 DEF Has
  <2>2. ASSUME i \in Pdx, t \in Frames
        PROVE  InitPde[i] = t <=> (i = 0 /\ t = 3) \/ (i >= UTABLES /\ t = 5 + i - UTABLES)
    <3>1. InitPde[i] = IF i = 0 THEN 3 ELSE IF i < UTABLES THEN None ELSE 5 + i - UTABLES
      BY <2>2 DEF InitPde
    <3>2. i \in Nat
      BY <1>3, <2>2
    <3> QED BY <2>2, <3>1, <3>2, Sizes, NoneAssumption
  <2> QED BY <2>1, <2>2
<1>8. ASSUME NEW t, NEW j, NEW f
      PROVE  Holds(mem, t, j, f) <=> t = 3 /\ j = 0 /\ f = 4
  BY <1>1, <1>2, <1>4, <1>6 DEF Holds
<1> QED BY <1>2, <1>3, <1>7, <1>8

LEMMA InitMem ==
    ASSUME Init
    PROVE  MemInv(mem, free)
<1>1. /\ mem \in Mems /\ mem[1] = KStack /\ mem[4] = User(Loaded)
      /\ mem[2].kind = "dir"
      /\ mem[3].kind = "table" /\ \A j \in Ptx : mem[3].pte[j] = IF j = 0 THEN InitPte ELSE NoEntry
      /\ \A f \in Frames : f > 4 /\ f <= 4 + KTABLES => mem[f] = Table
      /\ \A f \in Frames : f > 4 + KTABLES => mem[f] = Junk
      /\ 1 \in Frames /\ 2 \in Frames /\ 3 \in Frames /\ 4 \in Frames
  BY InitFrames
<1>2. /\ \A d, i, t : Has(mem, d, i, t) <=>
                 /\ d = 2 /\ i \in Pdx /\ t \in Frames
                 /\ (i = 0 /\ t = 3) \/ (i >= UTABLES /\ t = 5 + i - UTABLES)
      /\ \A t, j, f : Holds(mem, t, j, f) <=> t = 3 /\ j = 0 /\ f = 4
      /\ 0 \in Pdx /\ 0 \in Ptx
      /\ \A f \in Frames : f \in Nat /\ f >= 1 /\ f <= NFRAMES
      /\ \A i \in Pdx : i \in Nat /\ i <= UTABLES + KTABLES - 1
  BY InitLinks
<1>3. /\ KStack.kind = "kstack" /\ User(Loaded).kind = "user" /\ Junk.kind = "junk" /\ Table.kind = "table"
      /\ \A j \in Ptx : Table.pte[j] = NoEntry
      /\ ~NoEntry.p /\ ~NoEntry.e /\ NoEntry.frame \notin Frames /\ InitPte.p /\ InitPte.frame = 4
  <2>1. Loaded \in Byte
    BY SizeAssumption DEF Loaded, Byte
  <2> QED BY <2>1, Makes, EmptyOnes DEF InitPte
<1>4. \A f \in Frames : f \in {1, 2, 3, 4} \/ (f > 4 /\ f <= 4 + KTABLES) \/ f > 4 + KTABLES
  BY <1>2, Sizes
<1>5. \A f \in Frames : f \in {1, 2, 3, 4} => f <= 4
  OBVIOUS
<1>6. ASSUME NEW f \in Frames
      PROVE  /\ mem[f].kind = "junk" <=> f > 4 + KTABLES
             /\ mem[f].kind = "user" => f = 4
             /\ mem[f].kind = "table" => (f = 3 \/ (f > 4 /\ f <= 4 + KTABLES /\ mem[f] = Table))
  <2>1. CASE f \in {1, 2, 3, 4}
    BY <1>1, <1>3, <2>1, Sizes
  <2>2. CASE f > 4 /\ f <= 4 + KTABLES
    BY <1>1, <1>2, <1>3, <2>2, Sizes
  <2>3. CASE f > 4 + KTABLES
    BY <1>1, <1>2, <1>3, <2>3, Sizes
  <2> QED BY <1>4, <2>1, <2>2, <2>3
<1>7. free \subseteq Frames /\ \A f \in Frames : f \in free <=> f > 4 + KTABLES
  <2>1. free = (5 + KTABLES)..NFRAMES
    BY DEF Init
  <2> QED BY <1>2, <2>1, Sizes DEF Frames
<1>8. EntryInv(mem)
  <2> SUFFICES ASSUME NEW t \in Frames, NEW j \in Ptx, mem[t].kind = "table"
               PROVE  mem[t].pte[j].p \/ mem[t].pte[j].e <=> mem[t].pte[j].frame \in Frames
    BY DEF EntryInv
  <2>1. CASE t = 3 /\ j = 0
    BY <1>1, <1>3, <2>1
  <2>2. CASE ~(t = 3 /\ j = 0)
    <3>1. mem[t].pte[j] = NoEntry
      BY <1>1, <1>3, <1>6, <2>2
    <3> QED BY <1>3, <3>1
  <2> QED BY <2>1, <2>2
<1>9. KindInv(mem, free)
  BY <1>1, <1>6, <1>7, <1>8 DEF KindInv, Mems
<1>10. LinkInv(mem)
  <2>1. ASSUME NEW d \in Frames, NEW t \in Frames, NEW i \in Pdx, Has(mem, d, i, t) PROVE mem[t].kind = "table"
    <3>1. CASE i = 0 /\ t = 3
      BY <1>1, <3>1
    <3>2. CASE i >= UTABLES /\ t = 5 + i - UTABLES
      <4>1. t > 4 /\ t <= 4 + KTABLES
        BY <1>2, <3>2, Sizes
      <4> QED BY <1>1, <1>3, <4>1
    <3> QED BY <1>2, <2>1, <3>1, <3>2
  <2>2. \A t, f \in Frames, j \in Ptx : Holds(mem, t, j, f) => mem[f].kind = "user"
    BY <1>1, <1>2, <1>3
  <2>3. ASSUME NEW d \in Frames, NEW t \in Frames, NEW c \in Frames, NEW i \in Pdx, NEW k \in Pdx,
               Has(mem, d, i, t), Has(mem, c, k, t)
        PROVE  d = c /\ i = k
    <3>1. /\ d = 2 /\ c = 2 /\ i \in Nat /\ k \in Nat
          /\ (i = 0 /\ t = 3) \/ (i >= UTABLES /\ t = 5 + i - UTABLES)
          /\ (k = 0 /\ t = 3) \/ (k >= UTABLES /\ t = 5 + k - UTABLES)
      BY <1>2, <2>3
    <3> QED BY <3>1, Sizes
  <2>4. \A t, f, u \in Frames, j, k \in Ptx : Holds(mem, t, j, f) /\ Holds(mem, u, k, f) => t = u /\ j = k
    BY <1>2
  <2>5. ASSUME NEW t \in Frames, mem[t].kind = "table" PROVE \E d \in Frames, i \in Pdx : Has(mem, d, i, t)
    <3>1. CASE t = 3
      BY <1>1, <1>2, <3>1
    <3>2. CASE t > 4 /\ t <= 4 + KTABLES
      <4>i. PICK i : i = UTABLES + t - 5
        OBVIOUS
      <4>1. i \in Pdx /\ i >= UTABLES /\ t = 5 + i - UTABLES
        BY <1>2, <3>2, <4>i, Sizes DEF Pdx
      <4> QED BY <1>1, <1>2, <4>1
    <3> QED BY <1>6, <2>5, <3>1, <3>2
  <2>6. \A f \in Frames : mem[f].kind = "user" => \E t \in Frames, j \in Ptx : Holds(mem, t, j, f)
    BY <1>1, <1>2, <1>6
  <2>7. ASSUME NEW d \in Frames, NEW t \in Frames, NEW f \in Frames, NEW i \in Pdx, NEW j \in Ptx,
               Has(mem, d, i, t), Holds(mem, t, j, f)
        PROVE  i < UTABLES /\ i * PTSIZE + j \in Pages
    <3>1. t = 3 /\ j = 0 /\ ((i = 0 /\ t = 3) \/ (i >= UTABLES /\ t = 5 + i - UTABLES)) /\ i \in Nat
      BY <1>2, <2>7
    <3>2. i = 0
      BY <3>1, Sizes
    <3> QED BY <3>1, <3>2, Sizes
  <2> QED BY <2>1, <2>2, <2>3, <2>4, <2>5, <2>6, <2>7 DEF LinkInv
<1> QED BY <1>9, <1>10 DEF MemInv

LEMMA InitInv == Init => MInv
<1> SUFFICES ASSUME Init PROVE MInv
  OBVIOUS
<1>1. /\ state = [p \in Procs |-> IF p = InitProc THEN "RUN" ELSE "UNUSED"]
      /\ kstack = [p \in Procs |-> IF p = InitProc THEN 1 ELSE None]
      /\ pgdir = [p \in Procs |-> IF p = InitProc THEN 2 ELSE None]
      /\ sz = [p \in Procs |-> IF p = InitProc THEN PGSIZE ELSE 0]
      /\ parent = [p \in Procs |-> None]
      /\ reg = [p \in Procs |-> Idle]
  BY DEF Init
<1>2. MemInv(mem, free)
  BY InitMem
<1>3. /\ mem \in Mems /\ mem[1] = KStack /\ mem[4] = User(Loaded)
      /\ mem[2].kind = "dir" /\ mem[3].kind = "table"
      /\ \A f \in Frames : f > 4 /\ f <= 4 + KTABLES => mem[f] = Table
      /\ \A f \in Frames : f > 4 + KTABLES => mem[f] = Junk
      /\ 1 \in Frames /\ 2 \in Frames /\ 3 \in Frames /\ 4 \in Frames
  BY InitFrames
<1>4. /\ \A d, i, t : Has(mem, d, i, t) <=>
                 /\ d = 2 /\ i \in Pdx /\ t \in Frames
                 /\ (i = 0 /\ t = 3) \/ (i >= UTABLES /\ t = 5 + i - UTABLES)
      /\ \A t, j, f : Holds(mem, t, j, f) <=> t = 3 /\ j = 0 /\ f = 4
      /\ 0 \in Pdx /\ 0 \in Ptx
      /\ \A f \in Frames : f \in Nat /\ f >= 1 /\ f <= NFRAMES
  BY InitLinks
<1>5. KStack.kind = "kstack" /\ User(Loaded).kind = "user" /\ Junk.kind = "junk" /\ Table.kind = "table"
  <2>1. Loaded \in Byte
    BY SizeAssumption DEF Loaded, Byte
  <2> QED BY <2>1, Makes, EmptyOnes
<1>6. ASSUME NEW f \in Frames
      PROVE  (mem[f].kind = "dir" => f = 2) /\ (mem[f].kind = "kstack" => f = 1)
  <2>1. CASE f \in {1, 2, 3, 4}
    BY <1>3, <1>5, <2>1
  <2>2. CASE f > 4 /\ f <= 4 + KTABLES
    BY <1>3, <1>5, <2>2
  <2>3. CASE f > 4 + KTABLES
    BY <1>3, <1>5, <2>3
  <2>4. f \in {1, 2, 3, 4} \/ (f > 4 /\ f <= 4 + KTABLES) \/ f > 4 + KTABLES
    BY <1>4, Sizes
  <2> QED BY <2>1, <2>2, <2>3, <2>4
<1>7. InitProc \in Procs
  BY SizeAssumption DEF InitProc, Procs
<1>8. TableInv
  <2>1. 0 \in 0..(KERNBASE - 1) /\ PGSIZE \in 0..(KERNBASE - 1)
    BY Sizes
  <2> QED BY <1>1, <1>3, <2>1, IdleReg DEF TableInv
<1>9. PanicInv
  BY DEF Init, PanicInv
<1>10. RootInv
  <2>1. \A p \in Procs : (HasDir(p) <=> p = InitProc) /\ ~HasNew(p) /\ (HasDir(p) => pgdir[p] = 2)
    BY <1>1, IdleReg DEF HasDir, HasNew
  <2> QED BY <1>3, <1>6, <1>7, <2>1 DEF RootInv
<1>11. StackInv
  <2>1. \A p \in Procs : (state[p] # "UNUSED" <=> p = InitProc) /\ (p = InitProc => kstack[p] = 1)
    BY <1>1
  <2> QED BY <1>3, <1>5, <1>6, <1>7, <2>1 DEF StackInv
<1>12. ChildInv
  BY <1>1, IdleReg DEF ChildInv
<1>13. Upto(mem, 2, 1)
  <2> SUFFICES ASSUME NEW a \in Pages PROVE InSpace(mem, 2, a) <=> a < 1
    BY DEF Upto
  <2>1. a \in Nat /\ a \div PTSIZE \in Nat /\ a = (a \div PTSIZE) * PTSIZE + (a % PTSIZE)
    BY PageSplit, Sizes DEF Pages, Pdx
  <2>2. ASSUME InSpace(mem, 2, a) PROVE a = 0
    <3>1. PICK f \in Frames, t \in Frames : Has(mem, 2, a \div PTSIZE, t) /\ Holds(mem, t, a % PTSIZE, f)
      BY <2>2 DEF InSpace, MapsTo
    <3>2. t = 3 /\ a % PTSIZE = 0
      BY <1>4, <3>1
    <3>i. PICK i : i = a \div PTSIZE
      OBVIOUS
    <3>3. i \in Nat /\ ((i = 0 /\ t = 3) \/ (i >= UTABLES /\ t = 5 + i - UTABLES))
      BY <1>4, <2>1, <3>1, <3>i
    <3>4. i = 0
      BY <3>2, <3>3, Sizes
    <3> QED BY <2>1, <3>2, <3>4, <3>i, Sizes
  <2>3. ASSUME a = 0 PROVE InSpace(mem, 2, a)
    <3>1. a \div PTSIZE = 0 /\ a % PTSIZE = 0
      BY <2>3, Sizes
    <3>2. Has(mem, 2, a \div PTSIZE, 3) /\ Holds(mem, 3, a % PTSIZE, 4)
      BY <1>3, <1>4, <3>1
    <3> QED BY <1>3, <3>2 DEF InSpace, MapsTo
  <2> QED BY <2>1, <2>2, <2>3
<1>14. PGROUNDUP(PGSIZE) = 1
  <2>1. 1 * PGSIZE = PGSIZE
    BY Sizes
  <2> QED BY <2>1, RoundExact
<1>15. ASSUME NEW p \in Procs PROVE ProcInv(mem, state[p], pgdir[p], sz[p], reg[p])
  <2>1. reg[p] = Idle
    BY <1>1
  <2>2. CASE p # InitProc
    BY <1>1, <2>1, <2>2 DEF ProcInv
  <2>3. CASE p = InitProc
    <3>1. state[p] = "RUN" /\ pgdir[p] = 2 /\ sz[p] = PGSIZE
      BY <1>1, <2>3
    <3>2. UserInv(mem, pgdir[p], sz[p], reg[p])
      BY <1>13, <1>14, <2>1, <3>1, IdleReg DEF UserInv
    <3>3. CallInv(mem, sz[p], reg[p])
      BY <2>1, IdleReg DEF CallInv
    <3> QED BY <3>1, <3>2, <3>3 DEF ProcInv
  <2> QED BY <2>2, <2>3
<1> QED BY <1>2, <1>8, <1>9, <1>10, <1>11, <1>12, <1>15 DEF MInv

-----------------------------------------------------------------------------
(* Every step. *)

LEMMA SameState ==
    ASSUME MInv, UNCHANGED <<free, mem, ptable, reg>>, PanicInv'
    PROVE  MInv'
<1>1. UNCHANGED <<state, kstack, pgdir, sz, parent>>
  BY DEF ptable
<1>2. TableInv' /\ RootInv' /\ StackInv' /\ ChildInv'
  BY <1>1 DEF MInv, TableInv, RootInv, StackInv, ChildInv, HasDir, HasNew
<1>3. MemInv(mem', free') /\ \A p \in Procs : ProcInv(mem', state'[p], pgdir'[p], sz'[p], reg'[p])
  BY <1>1 DEF MInv
<1> QED BY <1>2, <1>3 DEF MInv

\* fork and exec fail in four places of the calls.
LEMMA FailInv ==
    ASSUME MInv, NEW p \in Procs, NEW pc \in {"kvm", "copy", "segs", "load", "stack"}, At(p, pc),
           Bad(p, Space(reg[p].d))
    PROVE  MInv'
<1>1. state[p] = "RUN" /\ reg[p].pc = pc
  BY DEF At
<1>2. reg[p].d # None
  BY <1>1, Mine DEF CallInv
<1>f. PICK F : F = Space(reg[p].d)
  OBVIOUS
<1>3. F = IF reg[p].d = None THEN {} ELSE Space(reg[p].d)
  BY <1>2, <1>f
<1>4. /\ MInv /\ p \in Procs /\ state[p] = "RUN" /\ reg[p].pc \notin {"user", "grow"} /\ Bad(p, F)
  BY <1>1, <1>f
<1> QED BY ONLY <1>3, <1>4, BadInv

LEMMA KvmInv ==
    ASSUME MInv, NEW p \in Procs, KvmDir(p) \/ KvmTable(p)
    PROVE  MInv'
<1>1. CASE KvmDir(p) /\ free = {}
  <2>1. At(p, "kvmdir") /\ Bad(p, {})
    BY <1>1 DEF KvmDir
  <2>2. state[p] = "RUN" /\ reg[p].pc = "kvmdir"
    BY <2>1 DEF At
  <2>3. reg[p].d = None
    BY <2>2, Mine DEF CallInv
  <2>f. PICK F : F = {}
    OBVIOUS
  <2>4. F = IF reg[p].d = None THEN {} ELSE Space(reg[p].d)
    BY <2>3, <2>f
  <2>5. /\ MInv /\ p \in Procs /\ state[p] = "RUN" /\ reg[p].pc \notin {"user", "grow"} /\ Bad(p, F)
    BY <2>1, <2>2, <2>f
  <2> QED BY ONLY <2>4, <2>5, BadInv
<1>2. CASE KvmDir(p) /\ free # {}
  BY <1>2, KvmDirInv DEF KvmDir
<1>3. CASE KvmTable(p) /\ free = {}
  BY <1>3, FailInv DEF KvmTable
<1>4. CASE KvmTable(p) /\ free # {}
  BY <1>4, KvmTableInv DEF KvmTable
<1> QED BY <1>1, <1>2, <1>3, <1>4

LEMMA CopyInv ==
    ASSUME MInv, NEW p \in Procs, CopyPage(p)
    PROVE  MInv'
<1>1. At(p, "copy") /\ reg[p].i * PGSIZE < sz[p]
  BY DEF CopyPage
<1>2. Pte(pgdir[p], reg[p].i).p \/ Pte(pgdir[p], reg[p].i).e
  BY <1>1, CopyThere DEF Mapped
<1>3. CASE ~CanMap(reg[p].d, reg[p].i)
  <2>1. Bad(p, Space(reg[p].d))
    BY <1>2, <1>3 DEF CopyPage
  <2> QED BY <1>1, <2>1, FailInv
<1>4. CASE CanMap(reg[p].d, reg[p].i)
  <2>1. /\ mappages(reg[p].d, reg[p].i, mem[Pte(pgdir[p], reg[p].i).frame].byte,
                    Pte(pgdir[p], reg[p].i).e, Pte(pgdir[p], reg[p].i).u)
        /\ reg' = [reg EXCEPT ![p].i = @ + 1] /\ UNCHANGED <<ptable, panicked>>
    BY <1>2, <1>4 DEF CopyPage
  <2> QED BY <1>1, <1>4, <2>1, CopyPageInv
<1> QED BY <1>3, <1>4

LEMMA ImageInv ==
    ASSUME MInv, NEW p \in Procs, ExecSegment(p) \/ ExecStack(p) \/ ExecFail(p)
    PROVE  MInv'
<1>1. CASE ExecSegment(p)
  <2>s. PICK s : s = Head(reg[p].image)
    OBVIOUS
  <2>1. At(p, "segs") /\ reg[p].image # <<>>
    BY <1>1 DEF ExecSegment
  <2>2. CASE s.memsz < s.filesz \/ s.vaddr + s.memsz >= KERNBASE \/ (s.vaddr + s.memsz = 0 /\ reg[p].old = 0)
    <3>1. Bad(p, Space(reg[p].d))
      BY <1>1, <2>s, <2>2 DEF ExecSegment, ExecBad
    <3> QED BY <2>1, <3>1, FailInv
  <2>3. CASE ~(s.memsz < s.filesz \/ s.vaddr + s.memsz >= KERNBASE \/ (s.vaddr + s.memsz = 0 /\ reg[p].old = 0))
    <3>1. /\ allocuvm(p, "load", reg[p].d, reg[p].old, Max({s.vaddr + s.memsz, reg[p].old}))
          /\ UNCHANGED <<free, mem, ptable, panicked>>
      BY <1>1, <2>s, <2>3 DEF ExecSegment
    <3> QED BY <2>1, <2>3, <2>s, <3>1, ExecSegmentInv
  <2> QED BY <2>2, <2>3
<1>2. CASE ExecStack(p)
  <2>b. PICK base : base = PGROUNDUP(reg[p].old) * PGSIZE
    OBVIOUS
  <2>1. At(p, "segs")
    BY <1>2 DEF ExecStack
  <2>2. CASE base + 2 * PGSIZE >= KERNBASE
    <3>1. Bad(p, Space(reg[p].d))
      BY <1>2, <2>b, <2>2 DEF ExecStack, ExecBad
    <3> QED BY <2>1, <3>1, FailInv
  <2>3. CASE ~(base + 2 * PGSIZE >= KERNBASE)
    <3>1. /\ allocuvm(p, "stack", reg[p].d, base, base + 2 * PGSIZE)
          /\ UNCHANGED <<free, mem, ptable, panicked>>
      BY <1>2, <2>b, <2>3 DEF ExecStack
    <3> QED BY <2>1, <2>3, <2>b, <3>1, ExecStackInv
  <2> QED BY <2>2, <2>3
<1>3. CASE ExecFail(p)
  <2>1. (At(p, "load") \/ At(p, "stack")) /\ Bad(p, Space(reg[p].d))
    BY <1>3 DEF ExecFail, ExecBad
  <2> QED BY <2>1, FailInv
<1> QED BY <1>1, <1>2, <1>3

LEMMA LoadInv ==
    ASSUME MInv, NEW p \in Procs, ExecLoad(p)
    PROVE  MInv'
<1>s. PICK s : s = Head(reg[p].image)
  OBVIOUS
<1>x. PICK S : S = {a \in Pages : s.vaddr <= a * PGSIZE /\ a * PGSIZE < s.vaddr + s.filesz}
  OBVIOUS
<1>1. At(p, "load") /\ AllDone(p)
  BY DEF ExecLoad
<1>2. S \subseteq Pages /\ \A a \in S : Mapped(reg[p].d, a)
  BY <1>1, <1>s, <1>x, LoadThere
<1>f. PICK X : X = FramesOf(reg[p].d, S)
  OBVIOUS
<1>3. \/ Bad(p, Space(reg[p].d))
      \/ /\ mem' = [f \in Frames |-> IF f \in X THEN User(Loaded) ELSE mem[f]]
         /\ reg' = [reg EXCEPT ![p].pc = "segs", ![p].old = reg[p].end, ![p].image = Tail(@)]
         /\ UNCHANGED <<free, ptable, panicked>>
  BY <1>2, <1>s, <1>x, <1>f DEF ExecLoad, ExecBad
<1>4. CASE Bad(p, Space(reg[p].d))
  BY <1>1, <1>4, FailInv
<1>5. CASE /\ mem' = [f \in Frames |-> IF f \in X THEN User(Loaded) ELSE mem[f]]
           /\ reg' = [reg EXCEPT ![p].pc = "segs", ![p].old = reg[p].end, ![p].image = Tail(@)]
           /\ UNCHANGED <<free, ptable, panicked>>
  <2>1. reg \in [Procs -> Regs]
    BY DEF MInv, TableInv
  <2>2. reg' = [reg EXCEPT ![p] = SetLoaded(reg[p])]
    BY ONLY <1>5, <2>1, p \in Procs DEF SetLoaded, Regs
  <2>3. /\ MInv /\ p \in Procs /\ At(p, "load") /\ AllDone(p) /\ X = FramesOf(reg[p].d, S)
        /\ S \subseteq Pages /\ \A a \in S : Mapped(reg[p].d, a)
        /\ mem' = [f \in Frames |-> IF f \in X THEN User(Loaded) ELSE mem[f]]
        /\ UNCHANGED <<free, ptable, panicked>>
    BY ONLY MInv, p \in Procs, <1>1, <1>2, <1>5, <1>f
  <2> QED BY ONLY <2>2, <2>3, ExecLoadInv
<1> QED BY <1>3, <1>4, <1>5

LEMMA CommitInv ==
    ASSUME MInv, NEW p \in Procs, ExecCommit(p)
    PROVE  MInv'
<1>d. PICK d : d = reg[p].d
  OBVIOUS
<1>t. PICK top : top = reg[p].end \div PGSIZE - 1
  OBVIOUS
<1>g. PICK g : g = SetPte(mem, d, top - 1, Unuser(Pte(d, top - 1)))
  OBVIOUS
<1>1. At(p, "stack") /\ AllDone(p)
  BY DEF ExecCommit
<1>2. CASE ExecBad(p)
  BY <1>1, <1>2, FailInv DEF ExecBad
<1>3. CASE ~ExecBad(p)
  <2>1. /\ \E b \in Byte : mem' = Junked([g EXCEPT ![Pte(d, top).frame] = User(b)], Space(pgdir[p]))
        /\ free' = free \cup Space(pgdir[p])
        /\ pgdir' = [pgdir EXCEPT ![p] = reg[p].d] /\ sz' = [sz EXCEPT ![p] = reg[p].end]
        /\ reg' = [reg EXCEPT ![p] = Idle] /\ UNCHANGED <<state, kstack, parent, panicked>>
    BY <1>3, <1>d, <1>t, <1>g DEF ExecCommit, Freed, Return, Unuser
  <2>2. PICK b \in Byte : mem' = Junked([g EXCEPT ![Pte(d, top).frame] = User(b)], Space(pgdir[p]))
    BY <2>1
  <2>n. PICK n : n = [g EXCEPT ![Pte(d, top).frame] = User(b)]
    OBVIOUS
  <2>3. n \in Mems /\ \A f \in Frames : SameShape(mem[f], n[f])
    <3>1. MInv /\ p \in Procs /\ b \in Byte
      OBVIOUS
    <3> QED BY ONLY <1>1, <1>d, <1>t, <1>g, <2>n, <3>1, CommitShape
  <2>D. PICK D : D = pgdir[p]
    OBVIOUS
  <2>4. mem' = Junked(n, Space(D)) /\ free' = free \cup Space(D)
    BY <2>1, <2>2, <2>n, <2>D
  <2> QED BY <1>1, <2>1, <2>3, <2>4, <2>D, ExecCommitInv
<1> QED BY <1>2, <1>3

LEMMA LeaveInv ==
    ASSUME MInv, NEW p \in Procs, Exit(p)
    PROVE  MInv'
<1>1. CASE p = InitProc
  <2>1. panicked' = "init exiting" /\ UNCHANGED <<free, mem, ptable, reg>>
    BY <1>1, Zenon DEF Exit, Panic
  <2>2. PanicInv'
    BY <2>1, Zenon DEF PanicInv
  <2> QED BY ONLY MInv, <2>1, <2>2, SameState
<1>2. CASE p # InitProc
  BY <1>2, ExitInv DEF Exit
<1> QED BY <1>1, <1>2

\* The invariant is inductive.
LEMMA StepInv == MInv /\ [Next]_vars => MInv'
<1> SUFFICES ASSUME MInv, [Next]_vars PROVE MInv'
  OBVIOUS
<1>1. CASE UNCHANGED vars
  <2>1. UNCHANGED <<free, mem, ptable, reg>> /\ panicked' = panicked
    BY <1>1 DEF vars
  <2>2. PanicInv'
    BY <2>1 DEF MInv, PanicInv
  <2> QED BY <2>1, <2>2, SameState
<1>2. ASSUME NEW p \in Procs, Quiet(p) PROVE MInv'
  <2>1. ASSUME NEW n \in Sbrks, Grow(p, n) \/ Shrink(p, n) PROVE MInv'
    BY <2>1, GrowInv, ShrinkInv
  <2>2. CASE AllocPage(p) \/ GrowFail(p) \/ GrowDone(p)
    BY <2>2, AllocPageInv, GrowFailInv, GrowDoneInv
  <2>3. CASE ForkAlloc(p)
    BY <2>3, ForkAllocInv
  <2>4. CASE KvmDir(p) \/ KvmTable(p) \/ KvmDone(p)
    BY <2>4, KvmInv, KvmDoneInv
  <2>5. CASE CopyPage(p) \/ ForkDone(p)
    BY <2>5, CopyInv, ForkDoneInv
  <2>6. ASSUME NEW image \in Images, Exec(p, image) PROVE MInv'
    BY <2>6, ExecInv
  <2>7. CASE ExecSegment(p) \/ ExecStack(p) \/ ExecFail(p)
    BY <2>7, ImageInv
  <2>8. CASE ExecLoad(p) \/ ExecCommit(p)
    BY <2>8, LoadInv, CommitInv
  <2>9. CASE Exit(p)
    BY <2>9, LeaveInv
  <2>10. ASSUME NEW c \in Procs, Wait(p, c) PROVE MInv'
    BY <2>10, WaitInv
  <2>11. ASSUME NEW a \in Written, NEW n \in 1..NPAGES, mencrypt(p, a, n) PROVE MInv'
    BY <2>11, MencryptInv
  <2>12. ASSUME NEW a \in Pages, decrypt(p, a) PROVE MInv'
    BY <2>12, DecryptInv
  <2> QED BY <1>2, <2>1, <2>2, <2>3, <2>4, <2>5, <2>6, <2>7, <2>8, <2>9, <2>10, <2>11, <2>12 DEF Quiet
<1>3. ASSUME NEW p \in Procs, NEW a \in Written, NEW b \in Stored, Store(p, a, b) PROVE MInv'
  BY <1>3, StoreInv
<1>4. ASSUME NEW p \in Procs, NEW f \in Frames, NEW a \in Written, dump_rawphymem(p, f, a) PROVE MInv'
  BY <1>4, DumpInv
<1>5. CASE Halted
  BY <1>1, <1>5 DEF Halted
<1> QED BY <1>1, <1>2, <1>3, <1>4, <1>5 DEF Next

\* What TypeOK and SizeMapped say follows from the invariant.
LEMMA SizeFromInv == MInv => SizeOK
<1> SUFFICES ASSUME MInv PROVE SizeOK
  OBVIOUS
<1>1. TypeOK
  <2>1. /\ free \subseteq Frames /\ \A f \in Frames : mem[f] \in Contents
    BY FreeFacts DEF MInv, Mems
  <2>2. panicked \in {"no", "remap", "copyuvm", "loaduvm", "init exiting"}
    <3>1. panicked \in {"no", "init exiting"}
      BY Zenon DEF MInv, PanicInv
    <3> QED BY ONLY <3>1, Zenon
  <2>3. TableInv
    BY DEF MInv
  <2> QED BY <2>1, <2>2, <2>3, Zenon DEF TypeOK, TableInv
<1>2. ASSUME NEW p \in Procs, Runs(p), NEW a \in Pages
      PROVE  Mapped(pgdir[p], a) <=> a * PGSIZE < sz[p]
  <2>1. state[p] = "RUN" /\ Upto(mem, pgdir[p], PGROUNDUP(sz[p]))
    BY <1>2, RunsUpto
  <2>2. MemInv(mem, free) /\ pgdir[p] \in Frames /\ mem[pgdir[p]].kind = "dir" /\ sz[p] \in Nat
    BY <2>1, Mine
  <2>3. a \in Nat
    BY Sizes DEF Pages
  <2>4. Mapped(pgdir[p], a) <=> InSpace(mem, pgdir[p], a)
    BY <2>2, EntryOf DEF InSpace
  <2>5. InSpace(mem, pgdir[p], a) <=> a < PGROUNDUP(sz[p])
    BY <2>1 DEF Upto
  <2> QED BY <2>2, <2>3, <2>4, <2>5, RoundUp
<1>3. panicked \in {"no", "init exiting"}
  BY Zenon DEF MInv, PanicInv
<1>4. SizeMapped
  BY <1>2, <1>3, Zenon DEF SizeMapped
<1> QED BY <1>1, <1>4 DEF SizeOK

-----------------------------------------------------------------------------
(* The pointers to frames. *)

Ptr(at, f) == [at |-> at, frame |-> f]

\* A set of pointers has one to each frame of a kind, and to no other.
OneEach(S, kind) ==
    /\ \A x \in S : x.frame \in Frames /\ mem[x.frame].kind = kind
    /\ \A x, y \in S : x.frame = y.frame => x = y
    /\ \A f \in Frames : mem[f].kind = kind => \E x \in S : x.frame = f

LEMMA PtrFrame == \A at, f : Ptr(at, f).frame = f
BY DEF Ptr

Stacks == {[at |-> <<"kstack", p>>, frame |-> kstack[p]] : p \in {q \in Procs : state[q] # "UNUSED"}}
LEMMA StackPtrs == ASSUME MInv PROVE OneEach(Stacks, "kstack")
<1>1. StackInv
  BY DEF MInv
<1>2. \A x : x \in Stacks <=> \E p \in Procs : state[p] # "UNUSED" /\ x = Ptr(<<"kstack", p>>, kstack[p])
  BY DEF Stacks, Ptr
<1>3. \A x \in Stacks : \E p \in Procs : state[p] # "UNUSED" /\ x = Ptr(<<"kstack", p>>, kstack[p]) /\ x.frame = kstack[p]
  BY <1>2, PtrFrame
<1>4. ASSUME NEW f \in Frames, mem[f].kind = "kstack" PROVE \E x \in Stacks : x.frame = f
  <2>1. PICK p \in Procs : state[p] # "UNUSED" /\ kstack[p] = f
    BY <1>1, <1>4 DEF StackInv
  <2>2. PICK x : x = Ptr(<<"kstack", p>>, kstack[p])
    OBVIOUS
  <2>3. x \in Stacks
    BY <1>2, <2>1, <2>2
  <2>4. x.frame = f
    BY <2>1, <2>2, PtrFrame
  <2> QED BY <2>3, <2>4
<1>5. ASSUME NEW x \in Stacks, NEW y \in Stacks, x.frame = y.frame PROVE x = y
  <2>1. PICK p \in Procs : state[p] # "UNUSED" /\ x = Ptr(<<"kstack", p>>, kstack[p]) /\ x.frame = kstack[p]
    BY <1>3
  <2>2. PICK q \in Procs : state[q] # "UNUSED" /\ y = Ptr(<<"kstack", q>>, kstack[q]) /\ y.frame = kstack[q]
    BY <1>3
  <2>3. p = q
    BY <1>1, <1>5, <2>1, <2>2 DEF StackInv
  <2> QED BY <2>1, <2>2, <2>3
<1>6. ASSUME NEW x \in Stacks PROVE x.frame \in Frames /\ mem[x.frame].kind = "kstack"
  <2>1. PICK p \in Procs : state[p] # "UNUSED" /\ x.frame = kstack[p]
    BY <1>3
  <2> QED BY <1>1, <2>1 DEF StackInv
<1> QED BY <1>4, <1>5, <1>6 DEF OneEach

LEMMA DirPtrs == ASSUME MInv PROVE OneEach(Dirs, "dir")
<1>1. RootInv
  BY DEF MInv
<1>2. \A x : x \in Dirs <=> \/ \E p \in Procs : HasDir(p) /\ x = Ptr(<<"pgdir", p>>, pgdir[p])
                            \/ \E p \in Procs : HasNew(p) /\ x = Ptr(<<"new", p>>, reg[p].d)
  BY DEF Dirs, Ptr, HasDir, HasNew
<1>3. ASSUME NEW x \in Dirs
      PROVE  \E p \in Procs : \/ HasDir(p) /\ x = Ptr(<<"pgdir", p>>, pgdir[p]) /\ x.frame = pgdir[p]
                              \/ HasNew(p) /\ x = Ptr(<<"new", p>>, reg[p].d) /\ x.frame = reg[p].d
  <2>1. CASE \E p \in Procs : HasDir(p) /\ x = Ptr(<<"pgdir", p>>, pgdir[p])
    <3>1. PICK p \in Procs : HasDir(p) /\ x = Ptr(<<"pgdir", p>>, pgdir[p])
      BY <2>1
    <3>2. x.frame = pgdir[p]
      BY <3>1, PtrFrame
    <3> QED BY <3>1, <3>2
  <2>2. CASE \E p \in Procs : HasNew(p) /\ x = Ptr(<<"new", p>>, reg[p].d)
    <3>1. PICK p \in Procs : HasNew(p) /\ x = Ptr(<<"new", p>>, reg[p].d)
      BY <2>2
    <3>2. x.frame = reg[p].d
      BY <3>1, PtrFrame
    <3> QED BY <3>1, <3>2
  <2> QED BY <1>2, <2>1, <2>2
<1>4. ASSUME NEW f \in Frames, mem[f].kind = "dir" PROVE \E x \in Dirs : x.frame = f
  <2>1. PICK p \in Procs : (HasDir(p) /\ pgdir[p] = f) \/ (HasNew(p) /\ reg[p].d = f)
    BY <1>1, <1>4 DEF RootInv
  <2> QED BY <1>2, <2>1, PtrFrame
<1>5. ASSUME NEW x \in Dirs, NEW y \in Dirs, x.frame = y.frame PROVE x = y
  <2>1. PICK p \in Procs : \/ HasDir(p) /\ x = Ptr(<<"pgdir", p>>, pgdir[p]) /\ x.frame = pgdir[p]
                           \/ HasNew(p) /\ x = Ptr(<<"new", p>>, reg[p].d) /\ x.frame = reg[p].d
    BY <1>3
  <2>2. PICK q \in Procs : \/ HasDir(q) /\ y = Ptr(<<"pgdir", q>>, pgdir[q]) /\ y.frame = pgdir[q]
                           \/ HasNew(q) /\ y = Ptr(<<"new", q>>, reg[q].d) /\ y.frame = reg[q].d
    BY <1>3
  <2>3. CASE HasDir(p) /\ x = Ptr(<<"pgdir", p>>, pgdir[p]) /\ x.frame = pgdir[p]
    <3>1. HasDir(q) /\ y = Ptr(<<"pgdir", q>>, pgdir[q]) /\ y.frame = pgdir[q]
      BY <1>1, <1>5, <2>2, <2>3 DEF RootInv
    <3>2. p = q
      BY <1>1, <1>5, <2>3, <3>1 DEF RootInv
    <3> QED BY <2>3, <3>1, <3>2
  <2>4. CASE HasNew(p) /\ x = Ptr(<<"new", p>>, reg[p].d) /\ x.frame = reg[p].d
    <3>1. HasNew(q) /\ y = Ptr(<<"new", q>>, reg[q].d) /\ y.frame = reg[q].d
      BY <1>1, <1>5, <2>2, <2>4 DEF RootInv
    <3>2. p = q
      BY <1>1, <1>5, <2>4, <3>1 DEF RootInv
    <3> QED BY <2>4, <3>1, <3>2
  <2> QED BY <2>1, <2>3, <2>4
<1>6. ASSUME NEW x \in Dirs PROVE x.frame \in Frames /\ mem[x.frame].kind = "dir"
  <2>1. PICK p \in Procs : \/ HasDir(p) /\ x.frame = pgdir[p]
                           \/ HasNew(p) /\ x.frame = reg[p].d
    BY <1>3
  <2> QED BY <1>1, <2>1 DEF RootInv
<1> QED BY <1>4, <1>5, <1>6 DEF OneEach

TablePtrs == UNION {Tables(x) : x \in Dirs}
LEMMA TablePtrsOne == ASSUME MInv PROVE OneEach(TablePtrs, "table")
<1>1. MemInv(mem, free)
  BY DEF MInv
<1>2. LinkInv(mem) /\ mem \in Mems
  BY <1>1, FreeFacts
<1>3. OneEach(Dirs, "dir")
  BY DirPtrs
<1>4. ASSUME NEW x \in Dirs, NEW y
      PROVE  y \in Tables(x) <=> \E i \in Pdx, t \in Frames : Has(mem, x.frame, i, t) /\ y = Ptr(Append(x.at, i), t)
  <2>1. x.frame \in Frames /\ mem[x.frame].kind = "dir"
    BY <1>3 DEF OneEach
  <2>2. mem[x.frame].pde \in [Pdx -> Frames \cup {None}] /\ DOMAIN mem[x.frame].pde = Pdx
    BY <1>2, <2>1, Kinds DEF Mems
  <2>3. y \in Tables(x) <=> \E i \in Pdx : mem[x.frame].pde[i] # None /\ y = Ptr(Append(x.at, i), mem[x.frame].pde[i])
    BY <2>1, <2>2 DEF Tables, Ptr
  <2> QED BY <2>1, <2>2, <2>3, NoneAssumption DEF Has
<1>5. ASSUME NEW y \in TablePtrs
      PROVE  \E x \in Dirs, i \in Pdx, t \in Frames :
                Has(mem, x.frame, i, t) /\ y = Ptr(Append(x.at, i), t) /\ y.frame = t
  BY <1>4, PtrFrame DEF TablePtrs
<1>6. ASSUME NEW t \in Frames, mem[t].kind = "table" PROVE \E y \in TablePtrs : y.frame = t
  <2>1. PICK d \in Frames, i \in Pdx : Has(mem, d, i, t)
    BY <1>2, <1>6 DEF LinkInv
  <2>2. mem[d].kind = "dir"
    BY <2>1 DEF Has
  <2>3. PICK x \in Dirs : x.frame = d
    BY <1>3, <2>2 DEF OneEach
  <2>4. Ptr(Append(x.at, i), t) \in Tables(x)
    BY <1>4, <2>1, <2>3
  <2> QED BY <2>4, PtrFrame DEF TablePtrs
<1>7. ASSUME NEW y \in TablePtrs, NEW z \in TablePtrs, y.frame = z.frame PROVE y = z
  <2>1. PICK x \in Dirs, i \in Pdx, t \in Frames :
          Has(mem, x.frame, i, t) /\ y = Ptr(Append(x.at, i), t) /\ y.frame = t
    BY <1>5
  <2>2. PICK w \in Dirs, k \in Pdx, u \in Frames :
          Has(mem, w.frame, k, u) /\ z = Ptr(Append(w.at, k), u) /\ z.frame = u
    BY <1>5
  <2>3. t = u /\ x.frame \in Frames /\ w.frame \in Frames
    BY <1>3, <1>7, <2>1, <2>2 DEF OneEach
  <2>4. x.frame = w.frame /\ i = k
    BY <1>2, <2>1, <2>2, <2>3 DEF LinkInv
  <2>5. x = w
    BY <1>3, <2>4 DEF OneEach
  <2> QED BY <2>1, <2>2, <2>3, <2>4, <2>5
<1>8. ASSUME NEW y \in TablePtrs PROVE y.frame \in Frames /\ mem[y.frame].kind = "table"
  BY <1>2, <1>3, <1>5 DEF LinkInv, OneEach
<1> QED BY <1>6, <1>7, <1>8 DEF OneEach

LeafPtrs == UNION {Leaves(x) : x \in TablePtrs}
LEMMA LeafPtrsOne == ASSUME MInv PROVE OneEach(LeafPtrs, "user")
<1>1. MemInv(mem, free)
  BY DEF MInv
<1>2. LinkInv(mem) /\ mem \in Mems /\ EntryInv(mem)
  BY <1>1, FreeFacts
<1>3. OneEach(TablePtrs, "table")
  BY TablePtrsOne
<1>4. ASSUME NEW x \in TablePtrs, NEW y
      PROVE  y \in Leaves(x) <=> \E j \in Ptx, f \in Frames : Holds(mem, x.frame, j, f) /\ y = Ptr(Append(x.at, j), f)
  <2>1. x.frame \in Frames /\ mem[x.frame].kind = "table"
    BY <1>3 DEF OneEach
  <2>2. mem[x.frame].pte \in [Ptx -> Entries] /\ DOMAIN mem[x.frame].pte = Ptx
    BY <1>2, <2>1, Kinds DEF Mems
  <2>3. y \in Leaves(x) <=> \E j \in Ptx : /\ mem[x.frame].pte[j].p \/ mem[x.frame].pte[j].e
                                           /\ y = Ptr(Append(x.at, j), mem[x.frame].pte[j].frame)
    BY <2>1, <2>2 DEF Leaves, Ptr
  <2>4. \A j \in Ptx : mem[x.frame].pte[j].p \/ mem[x.frame].pte[j].e => mem[x.frame].pte[j].frame \in Frames
    BY <1>2, <2>1 DEF EntryInv
  <2> QED BY <2>1, <2>3, <2>4 DEF Holds
<1>5. ASSUME NEW y \in LeafPtrs
      PROVE  \E x \in TablePtrs, j \in Ptx, f \in Frames :
                Holds(mem, x.frame, j, f) /\ y = Ptr(Append(x.at, j), f) /\ y.frame = f
  BY <1>4, PtrFrame DEF LeafPtrs
<1>6. ASSUME NEW f \in Frames, mem[f].kind = "user" PROVE \E y \in LeafPtrs : y.frame = f
  <2>1. PICK t \in Frames, j \in Ptx : Holds(mem, t, j, f)
    BY <1>2, <1>6 DEF LinkInv
  <2>2. mem[t].kind = "table"
    BY <2>1 DEF Holds
  <2>3. PICK x \in TablePtrs : x.frame = t
    BY <1>3, <2>2 DEF OneEach
  <2>4. Ptr(Append(x.at, j), f) \in Leaves(x)
    BY <1>4, <2>1, <2>3
  <2> QED BY <2>4, PtrFrame DEF LeafPtrs
<1>7. ASSUME NEW y \in LeafPtrs, NEW z \in LeafPtrs, y.frame = z.frame PROVE y = z
  <2>1. PICK x \in TablePtrs, j \in Ptx, f \in Frames :
          Holds(mem, x.frame, j, f) /\ y = Ptr(Append(x.at, j), f) /\ y.frame = f
    BY <1>5
  <2>2. PICK w \in TablePtrs, k \in Ptx, g \in Frames :
          Holds(mem, w.frame, k, g) /\ z = Ptr(Append(w.at, k), g) /\ z.frame = g
    BY <1>5
  <2>3. f = g /\ x.frame \in Frames /\ w.frame \in Frames
    BY <1>3, <1>7, <2>1, <2>2 DEF OneEach
  <2>4. x.frame = w.frame /\ j = k
    BY <1>2, <2>1, <2>2, <2>3 DEF LinkInv
  <2>5. x = w
    BY <1>3, <2>4 DEF OneEach
  <2> QED BY <2>1, <2>2, <2>3, <2>4, <2>5
<1>8. ASSUME NEW y \in LeafPtrs PROVE y.frame \in Frames /\ mem[y.frame].kind = "user"
  BY <1>2, <1>3, <1>5 DEF LinkInv, OneEach
<1> QED BY <1>6, <1>7, <1>8 DEF OneEach

LEMMA OwnedFromInv == MInv => FramesOwned
<1> SUFFICES ASSUME MInv PROVE FramesOwned
  OBVIOUS
<1>1. /\ OneEach(Stacks, "kstack") /\ OneEach(Dirs, "dir") /\ OneEach(TablePtrs, "table")
      /\ OneEach(LeafPtrs, "user")
  BY StackPtrs, DirPtrs, TablePtrsOne, LeafPtrsOne
<1>p. PICK P : P = Pointers
  OBVIOUS
<1>2. P = Stacks \cup Dirs \cup TablePtrs \cup LeafPtrs
  BY <1>p DEF Pointers, Stacks, TablePtrs, LeafPtrs
<1>t. PICK T : T = Frames \ free
  OBVIOUS
<1>3. \A f \in Frames : f \in T <=> mem[f].kind \in {"kstack", "dir", "table", "user"}
  <2>1. MemInv(mem, free)
    BY DEF MInv
  <2>2. mem \in Mems /\ free \subseteq Frames /\ \A f \in Frames : f \in free <=> mem[f].kind = "junk"
    BY <2>1, FreeFacts
  <2>3. \A f \in Frames : mem[f].kind \in {"junk", "kstack", "user", "table", "dir"}
    BY <2>2, Kinds DEF Mems
  <2> QED BY <1>t, <2>2, <2>3
<1>4. \A x \in P : x.frame \in Frames /\ x.frame \in T
  BY <1>1, <1>2, <1>3 DEF OneEach
<1>5. ASSUME NEW f \in T PROVE \E x \in P : x.frame = f
  <2>1. f \in Frames
    BY <1>t
  <2> QED BY <1>1, <1>2, <1>3, <2>1 DEF OneEach
<1>6. ASSUME NEW x \in P, NEW y \in P, x.frame = y.frame PROVE x = y
  <2>1. CASE x \in Stacks
    <3>1. y \in Stacks
      BY <1>1, <1>2, <1>6, <2>1 DEF OneEach
    <3> QED BY <1>1, <1>6, <2>1, <3>1 DEF OneEach
  <2>2. CASE x \in Dirs
    <3>1. y \in Dirs
      BY <1>1, <1>2, <1>6, <2>2 DEF OneEach
    <3> QED BY <1>1, <1>6, <2>2, <3>1 DEF OneEach
  <2>3. CASE x \in TablePtrs
    <3>1. y \in TablePtrs
      BY <1>1, <1>2, <1>6, <2>3 DEF OneEach
    <3> QED BY <1>1, <1>6, <2>3, <3>1 DEF OneEach
  <2>4. CASE x \in LeafPtrs
    <3>1. y \in LeafPtrs
      BY <1>1, <1>2, <1>6, <2>4 DEF OneEach
    <3> QED BY <1>1, <1>6, <2>4, <3>1 DEF OneEach
  <2> QED BY <1>2, <2>1, <2>2, <2>3, <2>4
<1>7. {x.frame : x \in P} = T
  BY <1>4, <1>5
<1>8. Cardinality(P) = Cardinality(T)
  <2>h. PICK h : h = [x \in P |-> x.frame]
    OBVIOUS
  <2>1. h \in [P -> T] /\ \A x \in P : h[x] = x.frame
    BY <1>4, <2>h
  <2>2. h \in Injection(P, T)
    BY <1>6, <2>1 DEF Injection, IsInjective
  <2>3. h \in Surjection(P, T)
    BY <1>5, <2>1 DEF Surjection
  <2>4. IsFiniteSet(T)
    BY <1>t, FiniteFrames, FS_Subset
  <2> QED BY ONLY <2>2, <2>3, <2>4, FS_Injection
<1> QED BY <1>7, <1>8, <1>p, <1>t DEF FramesOwned

-----------------------------------------------------------------------------

\* The invariant holds of every state of the system.
LEMMA MemoryInvariant == Spec => []MInv
BY InitInv, StepInv, PTL DEF Spec

\* Every frame is free or has exactly one pointer to it, through every
\* interleaving of fork, exec, sbrk, exit and wait of any number of processes
\* and wherever kalloc fails in them: no frame leaks, is freed while it is in
\* use, or belongs to two address spaces.
THEOREM FramesAreOwned == Spec => []FramesOwned
BY MemoryInvariant, OwnedFromInv, PTL

\* A process that can run has exactly the pages below its size, which is below
\* KERNBASE; mappages, copyuvm and loaduvm never panic.
THEOREM SizesAreMapped == Spec => []SizeOK
BY MemoryInvariant, SizeFromInv, PTL

-----------------------------------------------------------------------------
(* What processes read.  An entry is never present and encrypted, the pages  *)
(* sbrk has added so far are zero, and those fork has copied so far show     *)
(* what the parent's do.                                                     *)

\* The entry of page a of d in the memory m, whether it can be read, and what.
EntryAt(m, d, a) ==
    IF m[d].pde[a \div PTSIZE] = None THEN NoEntry
    ELSE m[m[d].pde[a \div PTSIZE]].pte[a % PTSIZE]
On(m, d, a) == EntryAt(m, d, a).u /\ (EntryAt(m, d, a).p # EntryAt(m, d, a).e)
Val(m, d, a) ==
    IF EntryAt(m, d, a).e THEN Flip(m[EntryAt(m, d, a).frame].byte)
    ELSE m[EntryAt(m, d, a).frame].byte

\* Page a of d in m looks like page a of c in n.
Alike(m, d, n, c, a) ==
    /\ On(m, d, a) <=> On(n, c, a)
    /\ On(m, d, a) => Val(m, d, a) = Val(n, c, a)

FlagInv(m) ==
    \A t \in Frames, j \in Ptx : m[t].kind = "table" => ~(m[t].pte[j].p /\ m[t].pte[j].e)
Zeroed(m, D, r) ==
    r.pc = "grow" => \A a \in Pages :
        PGROUNDUP(r.old) <= a /\ a < r.i /\ On(m, D, a) => Val(m, D, a) = 0
Copied(m, D, r) ==
    r.pc = "copy" => \A a \in Pages : a < r.i => Alike(m, D, m, r.d, a)
ReadInv(m, s, D, r) == s = "RUN" => Zeroed(m, D, r) /\ Copied(m, D, r)

VInv ==
    /\ MInv /\ FlagInv(mem)
    /\ \A p \in Procs : ReadInv(mem, state[p], pgdir[p], reg[p])

LEMMA AlikeSteps ==
    /\ \A m, d, a : Alike(m, d, m, d, a)
    /\ \A m, d, n, c, a : Alike(m, d, n, c, a) => Alike(n, c, m, d, a)
    /\ \A m, d, n, c, k, b, a : Alike(m, d, n, c, a) /\ Alike(n, c, k, b, a) => Alike(m, d, k, b, a)
BY DEF Alike

LEMMA PteNow ==
    ASSUME NEW d, NEW a
    PROVE  Pte(d, a) = EntryAt(mem, d, a) /\ (Accessible(d, a) <=> On(mem, d, a))
BY DEF Pte, EntryAt, Accessible, On

\* What an entry says, in any memory that satisfies the invariant.
LEMMA EntryIn ==
    ASSUME NEW m, NEW F, MemInv(m, F), NEW d \in Frames, m[d].kind = "dir", NEW a \in Pages
    PROVE  /\ EntryAt(m, d, a) \in Entries
           /\ \A f \in Frames : MapsTo(m, d, a, f) <=>
                (EntryAt(m, d, a).p \/ EntryAt(m, d, a).e) /\ EntryAt(m, d, a).frame = f
           /\ On(m, d, a) => /\ EntryAt(m, d, a).frame \in Frames
                             /\ MapsTo(m, d, a, EntryAt(m, d, a).frame)
                             /\ Val(m, d, a) \in Byte
           /\ FlagInv(m) => ~(EntryAt(m, d, a).p /\ EntryAt(m, d, a).e)
<1>1. m \in Mems /\ EntryInv(m) /\ LinkInv(m)
  BY FreeFacts
<1>i. PICK i : i = a \div PTSIZE
  OBVIOUS
<1>j. PICK j : j = a % PTSIZE
  OBVIOUS
<1>2. i \in Pdx /\ j \in Ptx
  BY <1>i, <1>j, PageSplit
<1>t. PICK t : t = m[d].pde[i]
  OBVIOUS
<1>3. t \in Frames \cup {None}
  BY <1>1, <1>2, <1>t, Kinds DEF Mems
<1>e. PICK e : e = EntryAt(m, d, a)
  OBVIOUS
<1>4. CASE t = None
  <2>1. e = NoEntry
    BY <1>4, <1>e, <1>i, <1>t DEF EntryAt
  <2>2. \A f \in Frames : ~MapsTo(m, d, a, f)
    BY <1>4, <1>i, <1>t, NoneAssumption DEF MapsTo, Has
  <2>3. e \in Entries /\ ~e.p /\ ~e.e
    BY <2>1, EmptyOnes
  <2>4. ~On(m, d, a)
    BY <1>e, <2>3 DEF On, Entries
  <2> QED BY <1>e, <2>2, <2>3, <2>4
<1>5. CASE t \in Frames
  <2>1. e = m[t].pte[j]
    BY <1>5, <1>e, <1>i, <1>j, <1>t, NoneAssumption DEF EntryAt
  <2>2. Has(m, d, i, t)
    BY <1>2, <1>5, <1>t DEF Has
  <2>3. m[t].kind = "table"
    BY <1>1, <1>2, <1>5, <2>2 DEF LinkInv
  <2>4. e \in Entries
    BY <1>1, <1>2, <1>5, <2>1, <2>3, Kinds DEF Mems
  <2>5. \A f \in Frames : MapsTo(m, d, a, f) <=> Holds(m, t, j, f)
    BY <1>5, <1>i, <1>j, <2>2, OneTarget DEF MapsTo
  <2>6. \A f \in Frames : Holds(m, t, j, f) <=> (e.p \/ e.e) /\ e.frame = f
    BY <1>2, <1>5, <2>1, <2>3 DEF Holds
  <2>7. e.p \/ e.e => e.frame \in Frames
    BY <1>1, <1>2, <1>5, <2>1, <2>3 DEF EntryInv
  <2>8. \A f \in Frames : Holds(m, t, j, f) => m[f].kind = "user"
    BY <1>1, <1>2, <1>5 DEF LinkInv
  <2>9. On(m, d, a) => e.p \/ e.e
    BY <1>e, <2>4 DEF On, Entries
  <2>10. e.p \/ e.e => m[e.frame].byte \in Byte
    BY <1>1, <2>6, <2>7, <2>8, Kinds DEF Mems
  <2>11. On(m, d, a) => Val(m, d, a) \in Byte
    BY <1>e, <2>9, <2>10, FlipByte DEF Val
  <2>12. FlagInv(m) => ~(e.p /\ e.e)
    BY <1>2, <1>5, <2>1, <2>3 DEF FlagInv
  <2> QED BY <1>e, <2>4, <2>5, <2>6, <2>7, <2>9, <2>11, <2>12
<1> QED BY <1>3, <1>4, <1>5

-----------------------------------------------------------------------------
(* Address spaces are apart. *)

\* In the memory n nothing has changed but free frames, kernel stacks, and the
\* address spaces of D.
Only(n, D) ==
    \A f \in Frames : \/ n[f] = mem[f]
                      \/ mem[f].kind \in {"junk", "kstack"}
                      \/ \E d \in D : f \in Space(d)

LEMMA SpacesApart ==
    ASSUME MemInv(mem, free), NEW c \in Frames, mem[c].kind = "dir", NEW d \in Frames, mem[d].kind = "dir",
           c # d, NEW f \in Space(c)
    PROVE  f \notin Space(d) /\ mem[f].kind \notin {"junk", "kstack"}
<1>1. Closed(mem, Space(d)) /\ c \notin Space(d)
  BY SpaceClosed
<1>2. f \in Frames /\ mem[f].kind \notin {"junk", "kstack"}
  BY SpaceClosed
<1>3. CASE f = c
  BY <1>1, <1>2, <1>3
<1>4. CASE \E i \in Pdx : Has(mem, c, i, f)
  BY <1>1, <1>2, <1>4 DEF Closed
<1>5. CASE \E a \in Pages : MapsTo(mem, c, a, f)
  <2>1. PICK a \in Pages, t \in Frames : Has(mem, c, a \div PTSIZE, t) /\ Holds(mem, t, a % PTSIZE, f)
    BY <1>5 DEF MapsTo
  <2>2. a \div PTSIZE \in Pdx /\ a % PTSIZE \in Ptx
    BY PageSplit
  <2>3. t \notin Space(d)
    BY <1>1, <2>1, <2>2 DEF Closed
  <2> QED BY <1>1, <1>2, <2>1, <2>2, <2>3 DEF Closed
<1> QED BY <1>2, <1>3, <1>4, <1>5, SpaceOf

\* An address space whose frames are the same reads the same.
LEMMA SameFrames ==
    ASSUME MemInv(mem, free), NEW c \in Frames, mem[c].kind = "dir", NEW n,
           \A f \in Space(c) : n[f] = mem[f], NEW a \in Pages
    PROVE  EntryAt(n, c, a) = EntryAt(mem, c, a) /\ Alike(mem, c, n, c, a)
<1>i. PICK i : i = a \div PTSIZE
  OBVIOUS
<1>j. PICK j : j = a % PTSIZE
  OBVIOUS
<1>1. i \in Pdx /\ j \in Ptx
  BY <1>i, <1>j, PageSplit
<1>2. n[c] = mem[c]
  BY SpaceOf
<1>3. mem[c].pde[i] \in Frames \cup {None}
  BY <1>1, FreeFacts, Kinds DEF Mems
<1>4. mem[c].pde[i] \in Frames => mem[c].pde[i] \in Space(c)
  BY <1>1, SpaceOf DEF Has
<1>5. EntryAt(n, c, a) = EntryAt(mem, c, a)
  BY <1>2, <1>3, <1>4, <1>i DEF EntryAt
<1>6. On(mem, c, a) => EntryAt(mem, c, a).frame \in Space(c)
  BY EntryIn, SpaceOf
<1> QED BY <1>5, <1>6 DEF Alike, On, Val

LEMMA Elsewhere ==
    ASSUME MemInv(mem, free), NEW n, NEW D, D \subseteq Frames, \A d \in D : mem[d].kind = "dir",
           Only(n, D), NEW c \in Frames, mem[c].kind = "dir", c \notin D
    PROVE  \A a \in Pages : EntryAt(n, c, a) = EntryAt(mem, c, a) /\ Alike(mem, c, n, c, a)
<1>1. ASSUME NEW f \in Space(c) PROVE n[f] = mem[f]
  <2>1. f \in Frames
    BY SpaceClosed
  <2>2. mem[f].kind \notin {"junk", "kstack"} /\ \A d \in D : f \notin Space(d)
    <3>1. ASSUME NEW d \in D PROVE f \notin Space(d)
      BY SpacesApart
    <3>2. mem[f].kind \notin {"junk", "kstack"}
      BY SpaceClosed
    <3> QED BY <3>1, <3>2
  <2> QED BY <2>1, <2>2 DEF Only
<1> QED BY <1>1, SameFrames

-----------------------------------------------------------------------------
(* The state of the abstract specification, and its steps. *)

\* What a process in state s with directory D and size z reads in m.
PagesOf(m, D, z) == {b \in Pages : b * PGSIZE < z /\ On(m, D, b)}
ViewOf(m, s, D, z) ==
    IF s # "RUN" THEN None
    ELSE [root |-> D, page |-> [a \in PagesOf(m, D, z) |-> Val(m, D, a)]]
SpacesOf(m, s, D, z) == [q \in Procs |-> ViewOf(m, s[q], D[q], z[q])]
Was(q) == ViewOf(mem, state[q], pgdir[q], sz[q])
Will(q) == ViewOf(mem', state'[q], pgdir'[q], sz'[q])

LEMMA SpacesNow == [p \in Procs |-> View(p)] = SpacesOf(mem, state, pgdir, sz)
BY DEF SpacesOf, ViewOf, PagesOf, View, Accessible, Pte, EntryAt, On, Val

LEMMA SpacesNext == [p \in Procs |-> View(p)]' = SpacesOf(mem', state', pgdir', sz')
BY DEF SpacesOf, ViewOf, PagesOf, View, Accessible, Pte, EntryAt, On, Val

LEMMA ViewFacts ==
    ASSUME NEW m, NEW D, NEW z
    PROVE  /\ \A s : s # "RUN" => ViewOf(m, s, D, z) = None
           /\ ViewOf(m, "RUN", D, z).root = D
           /\ DOMAIN ViewOf(m, "RUN", D, z).page = PagesOf(m, D, z)
           /\ \A a \in PagesOf(m, D, z) : ViewOf(m, "RUN", D, z).page[a] = Val(m, D, a)
BY DEF ViewOf

\* Memories that look alike below z give one view.
LEMMA ViewSame ==
    ASSUME NEW m, NEW n, NEW s, NEW D, NEW z,
           s = "RUN" => \A a \in Pages : a * PGSIZE < z => Alike(m, D, n, D, a)
    PROVE  ViewOf(n, s, D, z) = ViewOf(m, s, D, z)
<1>1. CASE s # "RUN"
  BY <1>1 DEF ViewOf
<1>2. CASE s = "RUN"
  <2>1. PagesOf(n, D, z) = PagesOf(m, D, z)
    BY <1>2 DEF PagesOf, Alike
  <2>2. \A a \in PagesOf(m, D, z) : Val(n, D, a) = Val(m, D, a)
    BY <1>2 DEF PagesOf, Alike
  <2> QED BY <1>2, <2>1, <2>2 DEF ViewOf
<1> QED BY <1>1, <1>2

AllSpaces == [root : Frames, page : UNION {[S -> Byte] : S \in SUBSET Pages}]
LEMMA ViewType ==
    ASSUME NEW m, NEW F, MemInv(m, F), NEW D \in Frames, m[D].kind = "dir", NEW z
    PROVE  ViewOf(m, "RUN", D, z) \in AllSpaces /\ ViewOf(m, "RUN", D, z) # None
<1> DEFINE S == PagesOf(m, D, z)
           f == [a \in S |-> Val(m, D, a)]
<1>1. S \in SUBSET Pages /\ \A a \in S : On(m, D, a)
  BY DEF PagesOf
<1>2. \A a \in S : Val(m, D, a) \in Byte
  BY <1>1, EntryIn
<1>3. f \in [S -> Byte]
  BY <1>2
<1>4. ViewOf(m, "RUN", D, z) = [root |-> D, page |-> f]
  BY DEF ViewOf
<1> HIDE DEF S, f
<1>5. f \in UNION {[T -> Byte] : T \in SUBSET Pages}
  BY <1>1, <1>3
<1>6. [root |-> D, page |-> f] \in AllSpaces
  BY <1>5 DEF AllSpaces
<1>7. None \notin AllSpaces
  BY NoSpaceAssumption DEF AllSpaces
<1> QED BY <1>4, <1>6, <1>7

\* A step that concerns one process.
LEMMA OneSpace ==
    ASSUME NEW p \in Procs, \A q \in Procs : q # p => Will(q) = Was(q)
    PROVE  SpacesOf(mem', state', pgdir', sz') = [SpacesOf(mem, state, pgdir, sz) EXCEPT ![p] = Will(p)]
BY DEF SpacesOf, Will, Was

LEMMA AtSpace ==
    ASSUME NEW p \in Procs
    PROVE  SpacesOf(mem, state, pgdir, sz)[p] = Was(p) /\ SpacesOf(mem', state', pgdir', sz')[p] = Will(p)
BY DEF SpacesOf, Will, Was

LEMMA AbsStutter ==
    ASSUME stored' = None, \A q \in Procs : Will(q) = Was(q)
    PROVE  A!Forget
<1>1. SpacesOf(mem', state', pgdir', sz') = SpacesOf(mem, state, pgdir, sz)
  BY DEF SpacesOf, Will, Was
<1> QED BY <1>1, SpacesNow, SpacesNext, Zenon DEF A!Forget, A!Silent

LEMMA AbsExit ==
    ASSUME stored' = None, NEW p \in Procs, \A q \in Procs : q # p => Will(q) = Was(q),
           Was(p) # None, Will(p) = None
    PROVE  A!ANext
<1>1. SpacesOf(mem', state', pgdir', sz') = [SpacesOf(mem, state, pgdir, sz) EXCEPT ![p] = None]
  BY OneSpace
<1>2. SpacesOf(mem, state, pgdir, sz)[p] # None
  BY AtSpace
<1>3. A!Exit(p)
  BY <1>1, <1>2, SpacesNow, SpacesNext, Zenon DEF A!Exit, A!Silent, A!Alive, A!Becomes
<1> QED BY <1>3 DEF A!ANext

LEMMA AbsExec ==
    ASSUME stored' = None, NEW p \in Procs, \A q \in Procs : q # p => Will(q) = Was(q),
           Was(p) # None, Will(p) \in AllSpaces,
           \A q \in Procs : Was(q) # None => Was(q).root # Will(p).root
    PROVE  A!ANext
<1>v. PICK V : V = SpacesOf(mem, state, pgdir, sz)
  OBVIOUS
<1>w. PICK W : W = SpacesOf(mem', state', pgdir', sz')
  OBVIOUS
<1>1. W = [V EXCEPT ![p] = W[p]]
  BY <1>v, <1>w, OneSpace, AtSpace
<1>2. V[p] # None /\ W[p] \in AllSpaces /\ \A q \in Procs : V[q] # None => V[q].root # W[p].root
  BY <1>v, <1>w, AtSpace
<1>3. A!Exec(p)
  BY <1>1, <1>2, <1>v, <1>w, SpacesNow, SpacesNext, Zenon
     DEF A!Exec, A!Silent, A!Alive, A!Becomes, A!Fresh, A!Spaces, AllSpaces
<1> QED BY <1>3 DEF A!ANext

LEMMA AbsFork ==
    ASSUME stored' = None, NEW p \in Procs, NEW c \in Procs, \A q \in Procs : q # c => Will(q) = Was(q),
           Was(p) # None, Was(c) = None, Will(c) # None,
           \A q \in Procs : Was(q) # None => Was(q).root # Will(c).root,
           Will(c) = [Was(p) EXCEPT !.root = Will(c).root]
    PROVE  A!ANext
<1>v. PICK V : V = SpacesOf(mem, state, pgdir, sz)
  OBVIOUS
<1>w. PICK W : W = SpacesOf(mem', state', pgdir', sz')
  OBVIOUS
<1>1. W = [V EXCEPT ![c] = W[c]]
  BY <1>v, <1>w, OneSpace, AtSpace
<1>2. /\ V[p] # None /\ ~(V[c] # None) /\ W[c] # None
      /\ \A q \in Procs : V[q] # None => V[q].root # W[c].root
      /\ W[c] = [V[p] EXCEPT !.root = W[c].root]
  BY <1>v, <1>w, AtSpace
<1>3. W = [V EXCEPT ![c] = [V[p] EXCEPT !.root = W[c].root]]
  BY <1>1, <1>2
<1>4. A!Fork(p, c)
  BY <1>2, <1>3, <1>v, <1>w, SpacesNow, SpacesNext, Zenon
     DEF A!Fork, A!Silent, A!Alive, A!Becomes, A!Fresh
<1> QED BY <1>4 DEF A!ANext

LEMMA AbsResize ==
    ASSUME stored' = None, NEW p \in Procs, \A q \in Procs : q # p => Will(q) = Was(q),
           Was(p) # None, Will(p) # None, DOMAIN Will(p).page \subseteq Pages,
           Will(p) = [Was(p) EXCEPT !.page = [a \in DOMAIN Will(p).page |->
                        IF a \in DOMAIN Was(p).page THEN Was(p).page[a] ELSE 0]]
    PROVE  A!ANext
<1>v. PICK V : V = SpacesOf(mem, state, pgdir, sz)
  OBVIOUS
<1>w. PICK W : W = SpacesOf(mem', state', pgdir', sz')
  OBVIOUS
<1>1. W = [V EXCEPT ![p] = W[p]]
  BY <1>v, <1>w, OneSpace, AtSpace
<1>2. /\ V[p] # None /\ W[p] # None /\ DOMAIN W[p].page \subseteq Pages
      /\ W[p] = [V[p] EXCEPT !.page = [a \in DOMAIN W[p].page |->
                    IF a \in DOMAIN V[p].page THEN V[p].page[a] ELSE 0]]
  <2>1. V[p] = Was(p) /\ W[p] = Will(p)
    BY <1>v, <1>w, AtSpace
  <2> QED BY <2>1, Zenon
<1>3. W = [V EXCEPT ![p] = [V[p] EXCEPT !.page = [a \in DOMAIN W[p].page |->
                    IF a \in DOMAIN V[p].page THEN V[p].page[a] ELSE 0]]]
  BY <1>1, <1>2, Zenon
<1>4. A!Resize(p)
  BY <1>2, <1>3, <1>v, <1>w, SpacesNow, SpacesNext, Zenon DEF A!Resize, A!Silent, A!Alive, A!Becomes
<1> QED BY <1>4 DEF A!ANext

LEMMA AbsStore ==
    ASSUME NEW p \in Procs, \A q \in Procs : q # p => Will(q) = Was(q), NEW a \in Pages, NEW b \in Byte,
           stored' = [proc |-> p, page |-> a, byte |-> b], Was(p) # None, a \in DOMAIN Was(p).page,
           Will(p) = [Was(p) EXCEPT !.page[a] = b]
    PROVE  A!ANext
<1>v. PICK V : V = SpacesOf(mem, state, pgdir, sz)
  OBVIOUS
<1>w. PICK W : W = SpacesOf(mem', state', pgdir', sz')
  OBVIOUS
<1>1. V[p] # None /\ a \in DOMAIN V[p].page
  BY <1>v, AtSpace
<1>2. W = [V EXCEPT ![p] = [V[p] EXCEPT !.page[a] = b]]
  BY <1>v, <1>w, OneSpace, AtSpace, Zenon
<1>3. stored'.proc = p /\ stored'.page = a /\ stored'.byte = b /\ stored' # None
  BY NoSpaceAssumption
<1>4. W = [V EXCEPT ![p] = [V[p] EXCEPT !.page[stored'.page] = stored'.byte]]
  BY <1>2, <1>3, Zenon
<1>5. stored'.page \in DOMAIN V[p].page /\ stored'.byte \in Byte
  BY <1>1, <1>3
<1>6. A!Store(p)
  BY <1>1, <1>3, <1>4, <1>5, <1>v, <1>w, SpacesNow, SpacesNext, Zenon DEF A!Store, A!Alive, A!Becomes
<1> QED BY <1>6 DEF A!ANext

-----------------------------------------------------------------------------
(* Processes that a step is not about keep what they read. *)

\* D are address spaces, and nothing else changes.
Within(D) == D \subseteq Frames /\ (\A d \in D : mem[d].kind = "dir") /\ Only(mem', D)

LEMMA KeepView ==
    ASSUME VInv, NEW D, Within(D), NEW q \in Procs,
           state'[q] = state[q], pgdir'[q] = pgdir[q], sz'[q] = sz[q],
           state[q] = "RUN" => pgdir[q] \notin D
    PROVE  Will(q) = Was(q)
<1>1. ASSUME state[q] = "RUN" PROVE \A a \in Pages : Alike(mem, pgdir[q], mem', pgdir[q], a)
  <2>1. MInv
    BY DEF VInv
  <2>2. pgdir[q] \in Frames /\ mem[pgdir[q]].kind = "dir" /\ MemInv(mem, free) /\ pgdir[q] \notin D
    BY <1>1, <2>1, Mine
  <2>3. D \subseteq Frames /\ (\A d \in D : mem[d].kind = "dir") /\ Only(mem', D)
    BY DEF Within
  <2> QED BY <2>2, <2>3, Elsewhere
<1>2. ViewOf(mem', state[q], pgdir[q], sz[q]) = ViewOf(mem, state[q], pgdir[q], sz[q])
  BY <1>1, ViewSame
<1> QED BY <1>2 DEF Will, Was

LEMMA KeepRead ==
    ASSUME VInv, NEW D, Within(D), NEW q \in Procs,
           state'[q] = state[q], pgdir'[q] = pgdir[q], reg'[q] = reg[q],
           state[q] = "RUN" => pgdir[q] \notin D /\ reg[q].d \notin D
    PROVE  ReadInv(mem', state'[q], pgdir'[q], reg'[q])
<1> SUFFICES ASSUME state[q] = "RUN" PROVE Zeroed(mem', pgdir[q], reg[q]) /\ Copied(mem', pgdir[q], reg[q])
  BY DEF ReadInv
<1>1. MInv /\ Zeroed(mem, pgdir[q], reg[q]) /\ Copied(mem, pgdir[q], reg[q])
  BY DEF VInv, ReadInv
<1>2. D \subseteq Frames /\ (\A d \in D : mem[d].kind = "dir") /\ Only(mem', D)
  BY DEF Within
<1>3. pgdir[q] \in Frames /\ mem[pgdir[q]].kind = "dir" /\ MemInv(mem, free)
  BY <1>1, Mine
<1>4. \A a \in Pages : Alike(mem, pgdir[q], mem', pgdir[q], a)
  BY <1>2, <1>3, Elsewhere
<1>5. Zeroed(mem', pgdir[q], reg[q])
  BY <1>1, <1>4 DEF Zeroed, Alike
<1>6. Copied(mem', pgdir[q], reg[q])
  <2> SUFFICES ASSUME reg[q].pc = "copy", NEW a \in Pages, a < reg[q].i
               PROVE  Alike(mem', pgdir[q], mem', reg[q].d, a)
    BY DEF Copied
  <2>1. reg[q].d \in Frames /\ mem[reg[q].d].kind = "dir"
    BY <1>1, Mine
  <2>2. Alike(mem, reg[q].d, mem', reg[q].d, a)
    BY <1>2, <1>3, <2>1, Elsewhere
  <2>3. Alike(mem, pgdir[q], mem, reg[q].d, a)
    BY <1>1 DEF Copied
  <2> QED BY <1>4, <2>2, <2>3, AlikeSteps
<1> QED BY <1>5, <1>6

\* What is to be shown of every step.
VStep ==
    /\ FlagInv(mem')
    /\ \A q \in Procs : ReadInv(mem', state'[q], pgdir'[q], reg'[q])
    /\ A!ANext \/ A!Forget

\* A step of p on its own address spaces.
LEMMA Neighbours ==
    ASSUME VInv, NEW p \in Procs, state[p] = "RUN", NEW D, Within(D), D \subseteq Own(p),
           NEW q \in Procs, q # p,
           state'[q] = state[q], pgdir'[q] = pgdir[q], sz'[q] = sz[q], reg'[q] = reg[q]
    PROVE  Will(q) = Was(q) /\ ReadInv(mem', state'[q], pgdir'[q], reg'[q])
<1>1. MInv
  BY DEF VInv
<1>2. /\ state[q] = "RUN" => pgdir[q] \notin D
      /\ reg[q].d # None => reg[q].d \notin D
  BY <1>1, Apart DEF HasDir
<1>3. reg[q].d = None => reg[q].d \notin D
  BY NoneAssumption DEF Within
<1> QED BY <1>2, <1>3, KeepView, KeepRead

LEMMA LocalForget ==
    ASSUME VInv, NEW p \in Procs, state[p] = "RUN", NEW D, Within(D), D \subseteq Own(p),
           UNCHANGED <<state, pgdir, sz>>, \A q \in Procs : q # p => reg'[q] = reg[q],
           FlagInv(mem'), Will(p) = Was(p), ReadInv(mem', state[p], pgdir[p], reg'[p]), stored' = None
    PROVE  VStep
<1>1. \A q \in Procs : q # p => Will(q) = Was(q) /\ ReadInv(mem', state'[q], pgdir'[q], reg'[q])
  BY Neighbours
<1>2. A!Forget
  BY <1>1, AbsStutter
<1> QED BY <1>1, <1>2 DEF VStep

\* Nothing changes but the locals of p.
LEMMA RegView ==
    ASSUME VInv, NEW p \in Procs, state[p] = "RUN", UNCHANGED <<mem, state, pgdir, sz>>, stored' = None,
           \A q \in Procs : q # p => reg'[q] = reg[q],
           reg'[p] = reg[p] \/ ( /\ reg'[p].pc = "grow" => reg'[p].i = PGROUNDUP(reg'[p].old) /\ reg'[p].old \in Nat
                                 /\ reg'[p].pc = "copy" => reg'[p].i = 0 )
    PROVE  VStep
<1>1. Within({})
  BY DEF Within, Only
<1>2. FlagInv(mem')
  BY DEF VInv
<1>3. Will(p) = Was(p)
  BY DEF Will, Was
<1>4. ReadInv(mem', state[p], pgdir[p], reg'[p])
  <2>1. CASE reg'[p] = reg[p]
    BY <2>1 DEF VInv
  <2>2. CASE /\ reg'[p].pc = "grow" => reg'[p].i = PGROUNDUP(reg'[p].old) /\ reg'[p].old \in Nat
             /\ reg'[p].pc = "copy" => reg'[p].i = 0
    <3>1. reg'[p].pc = "grow" => PGROUNDUP(reg'[p].old) \in Nat
      BY <2>2, RoundType
    <3>2. \A a \in Pages : a \in Nat
      BY Sizes DEF Pages
    <3> QED BY <2>2, <3>1, <3>2 DEF ReadInv, Zeroed, Copied
  <2> QED BY <2>1, <2>2
<1> QED BY <1>1, <1>2, <1>3, <1>4, LocalForget

-----------------------------------------------------------------------------
(* mappages, again. *)

\* Two pages in one table have different entries.
LEMMA OtherPage ==
    ASSUME NEW a \in Pages, NEW x \in Pages, x # a, x \div PTSIZE = a \div PTSIZE
    PROVE  x % PTSIZE # a % PTSIZE
BY PageSplit

LEMMA MapMem ==
    ASSUME MemInv(mem, free), NEW d \in Frames, mem[d].kind = "dir", NEW a \in Pages,
           ~Mapped(d, a), NEW b \in Byte, NEW e \in BOOLEAN, NEW u \in BOOLEAN,
           CanMap(d, a), mappages(d, a, b, e, u)
    PROVE  \E f \in Frames, t \in Frames :
             /\ mem[f].kind = "junk" /\ mem'[f] = User(b) /\ mem'[d].kind = "dir" /\ t # d /\ t # f
             /\ mem'[d].pde[a \div PTSIZE] = t /\ mem'[t].kind = "table"
             /\ mem'[t].pte[a % PTSIZE] = [frame |-> f, p |-> ~e, e |-> e, u |-> u]
             /\ \A y \in Frames : y \notin {d, f, t} => mem'[y] = mem[y]
             /\ \A k \in Pdx : k # a \div PTSIZE => mem'[d].pde[k] = mem[d].pde[k]
             /\ \/ /\ Has(mem, d, a \div PTSIZE, t) /\ mem'[d] = mem[d]
                   /\ \A k \in Ptx : k # a % PTSIZE => mem'[t].pte[k] = mem[t].pte[k]
                \/ /\ mem[d].pde[a \div PTSIZE] = None /\ mem[t].kind = "junk"
                   /\ \A k \in Ptx : k # a % PTSIZE => mem'[t].pte[k] = NoEntry
<1>1. mem \in Mems /\ EntryInv(mem) /\ LinkInv(mem) /\ free \subseteq Frames
  BY FreeFacts
<1>i. PICK i : i = a \div PTSIZE
  OBVIOUS
<1>j. PICK j : j = a % PTSIZE
  OBVIOUS
<1>2. i \in Pdx /\ j \in Ptx
  BY <1>i, <1>j, PageSplit
<1>f. PICK f : f = Kalloc
  OBVIOUS
<1>g. PICK g : g = CHOOSE h \in free \ {f} : TRUE
  OBVIOUS
<1>x. PICK x : x = [frame |-> f, p |-> ~e, e |-> e, u |-> u]
  OBVIOUS
<1>3. Cardinality(free) >= 1
  <2>1. Cardinality(free) \in Nat
    BY <1>1, FiniteFrames, FS_Subset, FS_CardinalityType
  <2> QED BY <2>1 DEF CanMap
<1>4. f \in free /\ f \in Frames /\ mem[f].kind = "junk" /\ f # d
  BY <1>1, <1>3, <1>f, TwoFree, FreeFacts DEF Kalloc
<1>5. x \in Entries /\ User(b) \in Contents
  BY <1>x, <1>4, Makes DEF Entries
<1>6. CASE ~NeedTable(d, a)
  <2>t. PICK t : t = mem[d].pde[i]
    OBVIOUS
  <2>1. t \in Frames
    BY <1>1, <1>2, <1>6, <1>i, <2>t, Kinds DEF Mems, NeedTable
  <2>2. Has(mem, d, i, t) /\ mem[t].kind = "table" /\ t # f /\ t # d
    <3>1. Has(mem, d, i, t)
      BY <1>2, <2>1, <2>t DEF Has
    <3> QED BY <1>1, <1>2, <1>4, <2>1, <3>1 DEF LinkInv
  <2>l. PICK l : l = Fill(mem, f, User(b))
    OBVIOUS
  <2>3. l \in Mems /\ l[f] = User(b) /\ \A y \in Frames : y # f => l[y] = mem[y]
    BY <1>1, <1>4, <1>5, <2>l, FillFacts
  <2>4. mem' = SetPte(l, d, a, x)
    BY <1>6, <1>f, <1>x, <2>l DEF mappages, Fill
  <2>5. mem' = PutPte(l, t, j, x)
    BY <1>i, <1>j, <1>4, <2>t, <2>3, <2>4 DEF SetPte, PutPte
  <2>6. /\ \A y \in Frames : y # t => mem'[y] = l[y]
        /\ mem'[t].kind = "table" /\ \A k \in Ptx : mem'[t].pte[k] = IF k = j THEN x ELSE l[t].pte[k]
    BY <1>2, <1>5, <2>1, <2>2, <2>3, <2>5, PteFacts
  <2>7. /\ mem'[f] = User(b) /\ mem'[d] = mem[d] /\ mem'[t].pte[j] = x
        /\ \A y \in Frames : y \notin {d, f, t} => mem'[y] = mem[y]
        /\ \A k \in Ptx : k # j => mem'[t].pte[k] = mem[t].pte[k]
    BY <1>2, <1>4, <2>1, <2>2, <2>3, <2>6
  <2>8. /\ mem[f].kind = "junk" /\ mem'[f] = User(b) /\ mem'[d].kind = "dir" /\ t # d /\ t # f
        /\ mem'[d].pde[i] = t /\ mem'[t].kind = "table" /\ mem'[t].pte[j] = x
        /\ \A y \in Frames : y \notin {d, f, t} => mem'[y] = mem[y]
        /\ \A k \in Pdx : k # i => mem'[d].pde[k] = mem[d].pde[k]
        /\ Has(mem, d, i, t) /\ mem'[d] = mem[d]
        /\ \A k \in Ptx : k # j => mem'[t].pte[k] = mem[t].pte[k]
    BY <1>4, <2>2, <2>t, <2>6, <2>7
  <2> QED BY <1>i, <1>j, <1>x, <1>4, <2>1, <2>8
<1>7. CASE NeedTable(d, a)
  <2>1. Cardinality(free) >= 2
    BY <1>7 DEF CanMap
  <2>2. g \in free /\ g # f /\ g \in Frames /\ mem[g].kind = "junk" /\ g # d
    BY <1>1, <1>4, <1>g, <2>1, TwoFree, FreeFacts
  <2>3. mem[d].pde[i] = None
    BY <1>7, <1>i DEF NeedTable
  <2>k. PICK k : k = Fill(mem, f, User(b))
    OBVIOUS
  <2>4. k \in Mems /\ k[f] = User(b) /\ \A y \in Frames : y # f => k[y] = mem[y]
    BY <1>1, <1>4, <1>5, <2>k, FillFacts
  <2>h. PICK h : h = Fill(k, g, Table)
    OBVIOUS
  <2>5. h \in Mems /\ h[g] = Table /\ \A y \in Frames : y # g => h[y] = k[y]
    <3>1. Table \in Contents
      BY EmptyOnes
    <3> QED BY ONLY <2>2, <2>4, <2>h, <3>1, FillFacts
  <2>l. PICK l : l = PutPde(h, d, i, g)
    OBVIOUS
  <2>6. /\ l \in Mems /\ (\A y \in Frames : y # d => l[y] = h[y]) /\ l[d].kind = "dir"
        /\ \A y \in Pdx : l[d].pde[y] = IF y = i THEN g ELSE h[d].pde[y]
    BY <1>2, <1>4, <2>2, <2>4, <2>5, <2>l, PdeFacts
  <2>7. mem' = PutPte(l, g, j, x)
    <3>1. mem' = SetPte([[mem EXCEPT ![f] = User(b)] EXCEPT ![g] = Table, ![d].pde[i] = g], d, a, x)
      BY <1>7, <1>f, <1>g, <1>i, <1>x DEF mappages
    <3>2. [[mem EXCEPT ![f] = User(b)] EXCEPT ![g] = Table, ![d].pde[i] = g] = l
      BY <2>k, <2>h, <2>l DEF Fill, PutPde
    <3>3. l[d].pde[i] = g
      BY <1>2, <2>6
    <3> QED BY <1>i, <1>j, <3>1, <3>2, <3>3 DEF SetPte, PutPte
  <2>8. l[g] = Table /\ l[g].kind = "table"
    BY <2>2, <2>5, <2>6, EmptyOnes
  <2>9. /\ \A y \in Frames : y # g => mem'[y] = l[y]
        /\ mem'[g].kind = "table" /\ \A y \in Ptx : mem'[g].pte[y] = IF y = j THEN x ELSE l[g].pte[y]
    BY <1>2, <1>5, <2>2, <2>6, <2>7, <2>8, PteFacts
  <2>10. /\ mem'[f] = User(b) /\ mem'[d].kind = "dir" /\ mem'[d].pde[i] = g /\ mem'[g].pte[j] = x
         /\ \A y \in Frames : y \notin {d, f, g} => mem'[y] = mem[y]
         /\ \A y \in Pdx : y # i => mem'[d].pde[y] = mem[d].pde[y]
         /\ \A y \in Ptx : y # j => mem'[g].pte[y] = NoEntry
    BY <1>2, <1>4, <2>2, <2>4, <2>5, <2>6, <2>8, <2>9, EmptyOnes
  <2> QED BY <1>i, <1>j, <1>x, <1>4, <2>2, <2>3, <2>9, <2>10
<1> QED BY <1>6, <1>7

LEMMA MapView ==
    ASSUME MemInv(mem, free), NEW d \in Frames, mem[d].kind = "dir", NEW a \in Pages,
           ~Mapped(d, a), NEW b \in Byte, NEW e \in BOOLEAN, NEW u \in BOOLEAN,
           CanMap(d, a), mappages(d, a, b, e, u)
    PROVE  /\ Within({d}) /\ (FlagInv(mem) => FlagInv(mem'))
           /\ \A x \in Pages : x # a => Alike(mem, d, mem', d, x)
           /\ On(mem', d, a) <=> u
           /\ Val(mem', d, a) = IF e THEN Flip(b) ELSE b
<1>0. PICK f \in Frames, t \in Frames :
        /\ mem[f].kind = "junk" /\ mem'[f] = User(b) /\ mem'[d].kind = "dir" /\ t # d /\ t # f
        /\ mem'[d].pde[a \div PTSIZE] = t /\ mem'[t].kind = "table"
        /\ mem'[t].pte[a % PTSIZE] = [frame |-> f, p |-> ~e, e |-> e, u |-> u]
        /\ \A y \in Frames : y \notin {d, f, t} => mem'[y] = mem[y]
        /\ \A k \in Pdx : k # a \div PTSIZE => mem'[d].pde[k] = mem[d].pde[k]
        /\ \/ /\ Has(mem, d, a \div PTSIZE, t) /\ mem'[d] = mem[d]
              /\ \A k \in Ptx : k # a % PTSIZE => mem'[t].pte[k] = mem[t].pte[k]
           \/ /\ mem[d].pde[a \div PTSIZE] = None /\ mem[t].kind = "junk"
              /\ \A k \in Ptx : k # a % PTSIZE => mem'[t].pte[k] = NoEntry
  BY MapMem, SMTT(60)
<1>1. mem \in Mems /\ LinkInv(mem)
  BY FreeFacts
<1>i. PICK i : i = a \div PTSIZE
  OBVIOUS
<1>j. PICK j : j = a % PTSIZE
  OBVIOUS
<1>2. i \in Pdx /\ j \in Ptx
  BY <1>i, <1>j, PageSplit
<1>x. PICK x : x = [frame |-> f, p |-> ~e, e |-> e, u |-> u]
  OBVIOUS
<1>3. /\ mem[f].kind = "junk" /\ mem'[f] = User(b) /\ mem'[d].kind = "dir" /\ t # d /\ t # f
      /\ mem'[d].pde[i] = t /\ mem'[t].kind = "table" /\ mem'[t].pte[j] = x
      /\ \A y \in Frames : y \notin {d, f, t} => mem'[y] = mem[y]
      /\ \A k \in Pdx : k # i => mem'[d].pde[k] = mem[d].pde[k]
  BY <1>0, <1>i, <1>j, <1>x
<1>4. \/ /\ Has(mem, d, i, t) /\ mem'[d] = mem[d]
         /\ \A k \in Ptx : k # j => mem'[t].pte[k] = mem[t].pte[k]
      \/ /\ mem[d].pde[i] = None /\ mem[t].kind = "junk"
         /\ \A k \in Ptx : k # j => mem'[t].pte[k] = NoEntry
  BY <1>0, <1>i, <1>j
<1>5. mem[t].kind \in {"table", "junk"}
  BY <1>1, <1>2, <1>4 DEF LinkInv
<1>6. Within({d})
  <2>1. ASSUME NEW y \in Frames, mem'[y] # mem[y], mem[y].kind \notin {"junk", "kstack"} PROVE y \in Space(d)
    <3>1. y = d \/ (y = t /\ Has(mem, d, i, t))
      BY <1>3, <1>4, <2>1
    <3> QED BY <1>2, <3>1, SpaceOf
  <2> QED BY <2>1 DEF Within, Only
<1>7. ASSUME FlagInv(mem) PROVE FlagInv(mem')
  <2> SUFFICES ASSUME NEW y \in Frames, NEW k \in Ptx, mem'[y].kind = "table"
               PROVE  ~(mem'[y].pte[k].p /\ mem'[y].pte[k].e)
    BY DEF FlagInv
  <2>1. CASE y = t /\ k = j
    <3>1. (x.p <=> ~e) /\ (x.e <=> e)
      BY <1>x
    <3>2. mem'[y].pte[k] = x
      BY <1>3, <2>1
    <3>3. ~(x.p /\ x.e)
      BY <3>1, Zenon
    <3> QED BY <3>2, <3>3, Zenon
  <2>2. CASE y = t /\ k # j
    <3>1. mem'[t].pte[k] = NoEntry \/ (mem[t].kind = "table" /\ mem'[t].pte[k] = mem[t].pte[k])
      BY <1>1, <1>2, <1>4, <2>2 DEF LinkInv
    <3> QED BY <1>7, <2>2, <3>1, EmptyOnes DEF FlagInv
  <2>3. CASE y # t
    <3>1. mem'[y] = mem[y]
      BY <1>3, <2>3, Makes
    <3> QED BY <1>7, <3>1 DEF FlagInv
  <2> QED BY <2>1, <2>2, <2>3
<1>8. ASSUME NEW y \in Pages, y # a PROVE Alike(mem, d, mem', d, y)
  <2>k. PICK k : k = y \div PTSIZE
    OBVIOUS
  <2>l. PICK l : l = y % PTSIZE
    OBVIOUS
  <2>1. k \in Pdx /\ l \in Ptx /\ (k = i => l # j)
    BY <1>8, <1>i, <1>j, <2>k, <2>l, PageSplit, OtherPage
  <2>2. mem[d].pde[k] \in Frames \cup {None}
    BY <1>1, <2>1, Kinds DEF Mems
  <2>3. EntryAt(mem', d, y) = EntryAt(mem, d, y)
    <3>1. CASE k = i
      <4>1. EntryAt(mem', d, y) = mem'[t].pte[l]
        BY <1>3, <2>k, <2>l, <3>1, NoneAssumption DEF EntryAt
      <4>2. CASE Has(mem, d, i, t) /\ \A z \in Ptx : z # j => mem'[t].pte[z] = mem[t].pte[z]
        <5>1. EntryAt(mem, d, y) = mem[t].pte[l]
          BY <2>k, <2>l, <3>1, <4>2, NoneAssumption DEF EntryAt, Has
        <5> QED BY <2>1, <3>1, <4>1, <4>2, <5>1
      <4>3. CASE mem[d].pde[i] = None /\ \A z \in Ptx : z # j => mem'[t].pte[z] = NoEntry
        <5>1. EntryAt(mem, d, y) = NoEntry
          BY <2>k, <3>1, <4>3 DEF EntryAt
        <5> QED BY <2>1, <3>1, <4>1, <4>3, <5>1
      <4> QED BY <1>4, <4>2, <4>3
    <3>2. CASE k # i
      <4>1. mem'[d].pde[k] = mem[d].pde[k]
        BY <1>3, <2>1, <3>2
      <4>2. ASSUME mem[d].pde[k] \in Frames PROVE mem'[mem[d].pde[k]] = mem[mem[d].pde[k]]
        <5>h. PICK h : h = mem[d].pde[k]
          OBVIOUS
        <5>1. Has(mem, d, k, h) /\ h \in Frames
          BY <2>1, <4>2, <5>h DEF Has
        <5>2. mem[h].kind = "table"
          BY <1>1, <2>1, <5>1 DEF LinkInv
        <5>3. h # t
          BY <1>1, <1>2, <1>4, <2>1, <3>2, <5>1, <5>2 DEF LinkInv
        <5> QED BY <1>3, <5>h, <5>1, <5>2, <5>3
      <4> QED BY <2>2, <2>k, <2>l, <4>1, <4>2 DEF EntryAt
    <3> QED BY <3>1, <3>2
  <2>4. ASSUME On(mem, d, y) PROVE mem'[EntryAt(mem, d, y).frame] = mem[EntryAt(mem, d, y).frame]
    <3>h. PICK h : h = EntryAt(mem, d, y).frame
      OBVIOUS
    <3>1. h \in Frames /\ MapsTo(mem, d, y, h)
      BY <2>4, <3>h, EntryIn
    <3>2. mem[h].kind = "user"
      BY <3>1, EntryOf
    <3>3. h \notin {d, f, t}
      BY <1>3, <1>5, <3>2
    <3> QED BY <1>3, <3>h, <3>1, <3>3
  <2> QED BY <2>3, <2>4 DEF Alike, On, Val
<1>9. EntryAt(mem', d, a) = x
  BY <1>3, <1>i, <1>j, NoneAssumption DEF EntryAt
<1>10. x.frame = f /\ x.p = ~e /\ x.e = e /\ x.u = u
  BY <1>x
<1>11. On(mem', d, a) <=> u
  BY <1>9, <1>10 DEF On
<1>12. Val(mem', d, a) = IF e THEN Flip(b) ELSE b
  BY <1>3, <1>9, <1>10, Makes DEF Val
<1> QED BY <1>6, <1>7, <1>8, <1>11, <1>12

LEMMA CountStep ==
    ASSUME MInv, NEW p \in Procs, state[p] = "RUN", reg' = [reg EXCEPT ![p].i = @ + 1]
    PROVE  /\ \A q \in Procs : q # p => reg'[q] = reg[q]
           /\ reg'[p].pc = reg[p].pc /\ reg'[p].d = reg[p].d /\ reg'[p].i = reg[p].i + 1
           /\ reg'[p].old = reg[p].old
<1>1. reg[p] \in Regs
  BY Mine
<1>s. PICK s : s = SetI(reg[p], reg[p].i + 1)
  OBVIOUS
<1>2. s \in Regs /\ s.pc = reg[p].pc /\ s.d = reg[p].d /\ s.i = reg[p].i + 1 /\ s.old = reg[p].old
  <2>1. reg[p].i + 1 \in Nat
    BY <1>1 DEF Regs
  <2> QED BY <1>1, <1>s, <2>1, RegStep
<1>3. reg' = [reg EXCEPT ![p] = s]
  BY <1>s DEF SetI
<1> QED BY <1>2, <1>3, SetReg

LEMMA AllocPageView ==
    ASSUME VInv, NEW p \in Procs, AllocPage(p), stored' = None
    PROVE  VStep
<1>0. MInv /\ FlagInv(mem) /\ ReadInv(mem, state[p], pgdir[p], reg[p])
  BY DEF VInv
<1>1. state[p] = "RUN" /\ reg[p].pc \in {"grow", "load", "stack"} /\ ~AllDone(p)
  BY DEF AllocPage, Allocating, At
<1>2. /\ reg[p] \in Regs /\ UserInv(mem, pgdir[p], sz[p], reg[p]) /\ CallInv(mem, sz[p], reg[p])
      /\ pgdir[p] \in Frames /\ reg[p].d \in Frames /\ mem[reg[p].d].kind = "dir" /\ MemInv(mem, free)
      /\ sz[p] \in Nat
  BY <1>0, <1>1, Mine
<1>d. PICK d : d = reg[p].d
  OBVIOUS
<1>i. PICK i : i = reg[p].i
  OBVIOUS
<1>3. /\ i \in Nat /\ reg[p].end \in Nat /\ i * PGSIZE < reg[p].end /\ reg[p].end < KERNBASE
      /\ PGROUNDUP(reg[p].old) <= i /\ reg[p].old \in Nat
  <2>1. i \in Nat /\ reg[p].end \in Nat /\ reg[p].old \in Nat
    BY <1>2, <1>i DEF Regs
  <2>2. i * PGSIZE \in Nat
    BY <2>1, Sizes, Times
  <2> QED BY <1>1, <1>2, <1>i, <2>1, <2>2 DEF CallInv, AllDone
<1>4. i < PGROUNDUP(reg[p].end) /\ i \in Pages
  BY <1>3, RoundUp, RoundBound
<1>5. Upto(mem, d, i)
  BY <1>1, <1>2, <1>d, <1>i DEF UserInv, CallInv
<1>6. ~Mapped(d, i) /\ d \in Frames /\ mem[d].kind = "dir"
  BY <1>2, <1>4, <1>5, <1>d, NextPage
<1>7. /\ CanMap(d, i) /\ mappages(d, i, 0, FALSE, TRUE)
      /\ reg' = [reg EXCEPT ![p].i = @ + 1] /\ UNCHANGED <<state, pgdir, sz>>
  BY <1>6, <1>d, <1>i DEF AllocPage, ptable
<1>8. /\ Within({d}) /\ FlagInv(mem')
      /\ \A x \in Pages : x # i => Alike(mem, d, mem', d, x)
      /\ Val(mem', d, i) = 0
  <2>1. 0 \in Byte
    BY SizeAssumption DEF Byte
  <2> QED BY <1>0, <1>2, <1>4, <1>6, <1>7, <2>1, MapView
<1>9. /\ \A q \in Procs : q # p => reg'[q] = reg[q]
      /\ reg'[p].pc = reg[p].pc /\ reg'[p].d = d /\ reg'[p].i = i + 1 /\ reg'[p].old = reg[p].old
  BY <1>0, <1>1, <1>7, <1>d, <1>i, CountStep
<1>10. {d} \subseteq Own(p)
  BY <1>d DEF Own
<1>11. CASE reg[p].pc = "grow"
  <2>1. d = pgdir[p] /\ reg[p].old = sz[p]
    BY <1>2, <1>11, <1>d DEF UserInv
  <2>2. \A a \in Pages : a * PGSIZE < sz[p] => Alike(mem, d, mem', d, a)
    <3> SUFFICES ASSUME NEW a \in Pages, a * PGSIZE < sz[p] PROVE Alike(mem, d, mem', d, a)
      OBVIOUS
    <3>1. a \in Nat /\ PGROUNDUP(sz[p]) \in Nat /\ a < PGROUNDUP(sz[p])
      BY <1>2, RoundUp, Sizes DEF Pages
    <3> QED BY <1>3, <1>8, <2>1, <3>1
  <2>3. Will(p) = Was(p)
    BY <1>7, <2>1, <2>2, ViewSame DEF Will, Was
  <2>4. Zeroed(mem', pgdir[p], reg'[p])
    <3> SUFFICES ASSUME NEW a \in Pages, PGROUNDUP(reg[p].old) <= a, a < i + 1, On(mem', d, a)
                 PROVE  Val(mem', d, a) = 0
      BY <1>9, <2>1 DEF Zeroed
    <3>1. CASE a = i
      BY <1>8, <3>1
    <3>2. CASE a # i
      <4>1. a < i
        BY <1>3, <3>2 DEF Pages
      <4>2. On(mem, d, a) => Val(mem, d, a) = 0
        BY <1>0, <1>1, <1>11, <1>i, <2>1, <4>1 DEF ReadInv, Zeroed
      <4> QED BY <1>8, <3>2, <4>2 DEF Alike
    <3> QED BY <3>1, <3>2
  <2>5. ReadInv(mem', state[p], pgdir[p], reg'[p])
    BY <1>9, <1>11, <2>4 DEF ReadInv, Copied
  <2> QED BY <1>1, <1>7, <1>8, <1>9, <1>10, <2>3, <2>5, LocalForget
<1>12. CASE reg[p].pc \in {"load", "stack"}
  <2>1. pgdir[p] # d
    BY <1>0, <1>1, <1>12, <1>d, TwoDirs
  <2>2. Will(p) = Was(p)
    BY <1>7, <1>8, <2>1, KeepView
  <2>3. ReadInv(mem', state[p], pgdir[p], reg'[p])
    BY <1>9, <1>12 DEF ReadInv, Copied, Zeroed
  <2> QED BY <1>1, <1>7, <1>8, <1>9, <1>10, <2>2, <2>3, LocalForget
<1> QED BY <1>1, <1>11, <1>12

LEMMA CopyPageView ==
    ASSUME VInv, NEW p \in Procs, At(p, "copy"), reg[p].i * PGSIZE < sz[p], CanMap(reg[p].d, reg[p].i),
           mappages(reg[p].d, reg[p].i, mem[Pte(pgdir[p], reg[p].i).frame].byte,
                    Pte(pgdir[p], reg[p].i).e, Pte(pgdir[p], reg[p].i).u),
           reg' = [reg EXCEPT ![p].i = @ + 1], UNCHANGED <<state, pgdir, sz>>, stored' = None
    PROVE  VStep
<1>0. MInv /\ FlagInv(mem) /\ ReadInv(mem, state[p], pgdir[p], reg[p])
  BY DEF VInv
<1>1. state[p] = "RUN" /\ reg[p].pc = "copy"
  BY DEF At
<1>2. /\ reg[p] \in Regs /\ CallInv(mem, sz[p], reg[p]) /\ MemInv(mem, free)
      /\ pgdir[p] \in Frames /\ mem[pgdir[p]].kind = "dir"
      /\ reg[p].d \in Frames /\ mem[reg[p].d].kind = "dir"
  BY <1>0, <1>1, Mine
<1>d. PICK d : d = reg[p].d
  OBVIOUS
<1>i. PICK i : i = reg[p].i
  OBVIOUS
<1>e. PICK e : e = EntryAt(mem, pgdir[p], i)
  OBVIOUS
<1>b. PICK b : b = mem[e.frame].byte
  OBVIOUS
<1>3. i \in Pages /\ i \in Nat /\ Mapped(pgdir[p], i)
  BY <1>0, <1>2, <1>i, CopyThere DEF Regs
<1>4. /\ e \in Entries /\ e.frame \in Frames /\ mem[e.frame].kind = "user"
      /\ (e.p \/ e.e) /\ ~(e.p /\ e.e)
  <2>1. Pte(pgdir[p], i) = e
    BY <1>e, PteNow
  <2> QED BY <1>0, <1>2, <1>3, <1>e, <2>1, EntryOf, EntryIn DEF Mapped
<1>5. b \in Byte /\ e.e \in BOOLEAN /\ e.u \in BOOLEAN /\ e.p = ~e.e
  <2>1. mem[e.frame] \in Contents
    BY <1>2, <1>4, FreeFacts DEF Mems
  <2>2. mem[e.frame].byte \in Byte
    BY <1>4, <2>1, Kinds
  <2> QED BY <1>4, <1>b, <2>2 DEF Entries
<1>6. Upto(mem, d, i) /\ d \in Frames /\ mem[d].kind = "dir"
  BY <1>1, <1>2, <1>d, <1>i DEF CallInv
<1>7. ~Mapped(d, i)
  BY <1>2, <1>3, <1>6, NextPage
<1>8. /\ Within({d}) /\ FlagInv(mem')
      /\ \A x \in Pages : x # i => Alike(mem, d, mem', d, x)
      /\ On(mem', d, i) <=> e.u
      /\ Val(mem', d, i) = IF e.e THEN Flip(b) ELSE b
  <2>1. CanMap(d, i) /\ mappages(d, i, b, e.e, e.u)
    BY <1>b, <1>d, <1>i, <1>e, PteNow
  <2> QED BY <1>0, <1>2, <1>3, <1>5, <1>6, <1>7, <2>1, MapView
<1>9. /\ \A q \in Procs : q # p => reg'[q] = reg[q]
      /\ reg'[p].pc = "copy" /\ reg'[p].d = d /\ reg'[p].i = i + 1
  BY <1>0, <1>1, <1>d, <1>i, CountStep
<1>10. {d} \subseteq Own(p) /\ pgdir[p] # d
  BY <1>0, <1>1, <1>d, TwoDirs DEF Own
<1>11. Will(p) = Was(p)
  BY <1>8, <1>10, KeepView
<1>12. \A a \in Pages : Alike(mem, pgdir[p], mem', pgdir[p], a)
  BY <1>2, <1>8, <1>10, Elsewhere DEF Within
<1>13. ASSUME NEW a \in Pages, a < i + 1 PROVE Alike(mem', pgdir[p], mem', d, a)
  <2>1. CASE a = i
    <3>1. On(mem, pgdir[p], i) <=> e.u
      BY <1>5, <1>e DEF On
    <3>2. Val(mem, pgdir[p], i) = IF e.e THEN Flip(b) ELSE b
      BY <1>b, <1>e DEF Val
    <3>3. Alike(mem, pgdir[p], mem', d, i)
      BY <1>8, <3>1, <3>2 DEF Alike
    <3> QED BY <1>12, <2>1, <3>3, AlikeSteps
  <2>2. CASE a # i
    <3>1. a < i
      BY <1>3, <1>13, <2>2 DEF Pages
    <3>2. Alike(mem, pgdir[p], mem, d, a)
      BY <1>0, <1>1, <1>d, <1>i, <3>1 DEF ReadInv, Copied
    <3>3. Alike(mem, d, mem', d, a)
      BY <1>8, <2>2
    <3> QED BY <1>12, <3>2, <3>3, AlikeSteps
  <2> QED BY <2>1, <2>2
<1>14. ReadInv(mem', state[p], pgdir[p], reg'[p])
  BY <1>9, <1>13 DEF ReadInv, Copied, Zeroed
<1> QED BY <1>1, <1>8, <1>9, <1>10, <1>11, <1>14, LocalForget
-----------------------------------------------------------------------------
(* sbrk. *)

LEMMA DropView ==
    ASSUME MemInv(mem, free), NEW d \in Frames, mem[d].kind = "dir", NEW S \in SUBSET Pages,
           \A a \in S : Mapped(d, a), mem' = Junked(WithoutPages(d, S), FramesOf(d, S))
    PROVE  /\ Within({d}) /\ (FlagInv(mem) => FlagInv(mem'))
           /\ \A x \in Pages : x \notin S => Alike(mem, d, mem', d, x)
           /\ \A x \in Pages : x \in S => ~On(mem', d, x)
<1>x. PICK X : X = FramesOf(d, S)
  OBVIOUS
<1>n. PICK n : n = WithoutPages(d, S)
  OBVIOUS
<1>1. mem \in Mems /\ LinkInv(mem)
  BY FreeFacts
<1>2. \A f \in X : f \in Frames /\ mem[f].kind = "user" /\ \E a \in S : MapsTo(mem, d, a, f)
  <2> SUFFICES ASSUME NEW f \in X PROVE f \in Frames /\ mem[f].kind = "user" /\ \E a \in S : MapsTo(mem, d, a, f)
    OBVIOUS
  <2>1. PICK a \in S : f = Pte(d, a).frame
    BY <1>x DEF FramesOf
  <2>2. a \in Pages /\ Mapped(d, a)
    OBVIOUS
  <2> QED BY <2>1, <2>2, EntryOf
<1>3. /\ n \in Mems
      /\ \A f \in Frames : n[f].kind = mem[f].kind
      /\ \A t \in Frames, i \in Pdx : Has(mem, d, i, t) /\ i < UTABLES =>
           \A j \in Ptx : n[t].pte[j] = IF i * PTSIZE + j \in S THEN NoEntry ELSE mem[t].pte[j]
      /\ \A f \in Frames : (\A i \in Pdx : ~(Has(mem, d, i, f) /\ i < UTABLES)) => n[f] = mem[f]
  BY <1>n, Without
<1>4. \A f \in Frames : mem'[f] = IF f \in X THEN Junk ELSE n[f]
  BY <1>3, <1>n, <1>x, JunkedFacts
<1>5. \A t \in Frames, i \in Pdx : Has(mem, d, i, t) => mem[t].kind = "table" /\ t \notin X
  BY <1>1, <1>2 DEF LinkInv
<1>6. Within({d})
  <2>1. ASSUME NEW f \in Frames, mem'[f] # mem[f] PROVE f \in Space(d)
    <3>1. CASE f \in X
      BY <1>2, <3>1, SpaceOf
    <3>2. CASE f \notin X
      <4>1. n[f] # mem[f]
        BY <1>4, <2>1, <3>2
      <4>2. \E i \in Pdx : Has(mem, d, i, f)
        BY <1>3, <4>1
      <4> QED BY <4>2, SpaceOf
    <3> QED BY <3>1, <3>2
  <2> QED BY <2>1 DEF Within, Only
<1>7. ASSUME FlagInv(mem) PROVE FlagInv(mem')
  <2> SUFFICES ASSUME NEW t \in Frames, NEW j \in Ptx, mem'[t].kind = "table"
               PROVE  ~(mem'[t].pte[j].p /\ mem'[t].pte[j].e)
    BY DEF FlagInv
  <2>1. t \notin X /\ mem'[t] = n[t] /\ mem[t].kind = "table"
    BY <1>3, <1>4, Makes
  <2>2. ~(mem[t].pte[j].p /\ mem[t].pte[j].e)
    BY <1>7, <2>1 DEF FlagInv
  <2>3. n[t].pte[j] = NoEntry \/ n[t].pte[j] = mem[t].pte[j]
    BY <1>3
  <2> QED BY <2>1, <2>2, <2>3, EmptyOnes
<1>8. ASSUME NEW x \in Pages PROVE EntryAt(mem', d, x) = IF x \in S THEN NoEntry ELSE EntryAt(mem, d, x)
  <2>i. PICK i : i = x \div PTSIZE
    OBVIOUS
  <2>j. PICK j : j = x % PTSIZE
    OBVIOUS
  <2>1. i \in Pdx /\ j \in Ptx /\ i < UTABLES /\ i * PTSIZE + j = x
    BY <2>i, <2>j, PageSplit, Sizes
  <2>2. mem'[d] = mem[d]
    <3>1. d \notin X /\ \A k \in Pdx : ~Has(mem, d, k, d)
      BY <1>2, <1>5
    <3> QED BY <1>3, <1>4, <3>1
  <2>t. PICK t : t = mem[d].pde[i]
    OBVIOUS
  <2>3. t \in Frames \cup {None}
    BY <1>1, <2>1, <2>t, Kinds DEF Mems
  <2>4. CASE t = None
    BY <2>2, <2>i, <2>t, <2>4 DEF EntryAt
  <2>5. CASE t \in Frames
    <3>1. Has(mem, d, i, t)
      BY <2>1, <2>t, <2>5 DEF Has
    <3>2. mem'[t] = n[t]
      BY <1>4, <1>5, <2>1, <2>5, <3>1
    <3>3. n[t].pte[j] = IF x \in S THEN NoEntry ELSE mem[t].pte[j]
      BY <1>3, <2>1, <2>5, <3>1
    <3>4. EntryAt(mem', d, x) = mem'[t].pte[j] /\ EntryAt(mem, d, x) = mem[t].pte[j]
      BY <2>2, <2>5, <2>i, <2>j, <2>t, NoneAssumption DEF EntryAt
    <3> QED BY <3>2, <3>3, <3>4
  <2> QED BY <2>3, <2>4, <2>5
<1>9. ASSUME NEW x \in Pages, x \notin S PROVE Alike(mem, d, mem', d, x)
  <2>1. EntryAt(mem', d, x) = EntryAt(mem, d, x)
    BY <1>8, <1>9
  <2>2. ASSUME On(mem, d, x) PROVE mem'[EntryAt(mem, d, x).frame] = mem[EntryAt(mem, d, x).frame]
    <3>h. PICK h : h = EntryAt(mem, d, x).frame
      OBVIOUS
    <3>1. h \in Frames /\ MapsTo(mem, d, x, h)
      BY <2>2, <3>h, EntryIn
    <3>2. mem[h].kind = "user"
      BY <3>1, EntryOf
    <3>3. h \notin X
      <4>1. SUFFICES ASSUME h \in X PROVE FALSE
        OBVIOUS
      <4>2. PICK a \in S : MapsTo(mem, d, a, h)
        BY <1>2, <4>1
      <4> QED BY <1>1, <1>9, <3>1, <4>2, OnePage
    <3>4. n[h] = mem[h]
      BY <1>3, <1>5, <3>1, <3>2
    <3> QED BY <1>4, <3>h, <3>1, <3>3, <3>4
  <2> QED BY <2>1, <2>2 DEF Alike, On, Val
<1>10. ASSUME NEW x \in Pages, x \in S PROVE ~On(mem', d, x)
  <2>1. EntryAt(mem', d, x) = NoEntry
    BY <1>8, <1>10
  <2> QED BY <2>1 DEF On, NoEntry
<1> QED BY <1>6, <1>7, <1>9, <1>10

\* deallocuvm keeps the pages below the new size and takes away the others.
LEMMA DeallocView ==
    ASSUME MemInv(mem, free), NEW d \in Frames, mem[d].kind = "dir", NEW old \in Nat, NEW new \in Nat,
           deallocuvm(d, old, new)
    PROVE  /\ Within({d}) /\ (FlagInv(mem) => FlagInv(mem'))
           /\ \A x \in Pages : x * PGSIZE < new => Alike(mem, d, mem', d, x)
           /\ \A x \in Pages : Alike(mem, d, mem', d, x) \/ ~On(mem', d, x)
           /\ new < old => \A x \in Pages : x * PGSIZE < old /\ On(mem', d, x) => x * PGSIZE < new
<1>s. PICK S : S = Dropped(d, old, new)
  OBVIOUS
<1>1. S \in SUBSET Pages /\ \A a \in S : Mapped(d, a)
  BY <1>s DEF Dropped
<1>2. mem' = Junked(WithoutPages(d, S), FramesOf(d, S))
  BY <1>s DEF deallocuvm
<1>3. /\ Within({d}) /\ (FlagInv(mem) => FlagInv(mem'))
      /\ \A x \in Pages : x \notin S => Alike(mem, d, mem', d, x)
      /\ \A x \in Pages : x \in S => ~On(mem', d, x)
  BY <1>1, <1>2, DropView
<1>4. \A x \in Pages : x \in Nat
  BY Sizes DEF Pages
<1>5. PGROUNDUP(new) \in Nat
  BY RoundType
<1>6. ASSUME NEW x \in Pages, x * PGSIZE < new PROVE x \notin S
  <2>1. x < PGROUNDUP(new)
    BY <1>4, <1>6, RoundUp
  <2> QED BY <1>4, <1>5, <1>s, <2>1 DEF Dropped
<1>7. ASSUME new < old, NEW x \in Pages, x * PGSIZE < old, On(mem', d, x) PROVE x * PGSIZE < new
  <2>1. x \notin S
    BY <1>3, <1>7
  <2>2. Mapped(d, x)
    <3>1. On(mem, d, x)
      BY <1>3, <1>7, <2>1 DEF Alike
    <3>2. EntryAt(mem, d, x) \in Entries
      BY EntryIn
    <3>3. EntryAt(mem, d, x).p \/ EntryAt(mem, d, x).e
      BY <3>1, <3>2 DEF On, Entries
    <3> QED BY <3>3, PteNow DEF Mapped
  <2>3. ~(x >= PGROUNDUP(new))
    BY <1>7, <1>s, <2>1, <2>2 DEF Dropped
  <2> QED BY <1>4, <1>5, <2>3, RoundUp
<1> QED BY <1>3, <1>6, <1>7

LEMMA IdleRead ==
    ASSUME NEW m, NEW s, NEW D
    PROVE  ReadInv(m, s, D, Idle)
BY IdleReg DEF ReadInv, Zeroed, Copied

LEMMA GrowFailView ==
    ASSUME VInv, NEW p \in Procs, GrowFail(p), stored' = None
    PROVE  VStep
<1>0. MInv /\ FlagInv(mem)
  BY DEF VInv
<1>1. /\ state[p] = "RUN" /\ reg[p].pc = "grow" /\ deallocuvm(reg[p].d, reg[p].end, reg[p].old)
      /\ reg' = [reg EXCEPT ![p] = Idle] /\ UNCHANGED <<state, pgdir, sz>>
  BY DEF GrowFail, At, Return, ptable
<1>2. /\ reg[p] \in Regs /\ UserInv(mem, pgdir[p], sz[p], reg[p]) /\ MemInv(mem, free)
      /\ pgdir[p] \in Frames /\ mem[pgdir[p]].kind = "dir" /\ sz[p] \in Nat
  BY <1>0, <1>1, Mine
<1>3. reg[p].d = pgdir[p] /\ reg[p].old = sz[p] /\ reg[p].end \in Nat
  BY <1>1, <1>2 DEF UserInv, Regs
<1>d. PICK d : d = pgdir[p]
  OBVIOUS
<1>e. PICK e : e = reg[p].end
  OBVIOUS
<1>z. PICK z : z = sz[p]
  OBVIOUS
<1>4. /\ d \in Frames /\ mem[d].kind = "dir" /\ e \in Nat /\ z \in Nat /\ deallocuvm(d, e, z)
  BY <1>1, <1>2, <1>3, <1>d, <1>e, <1>z
<1>5. /\ Within({d}) /\ FlagInv(mem') /\ \A x \in Pages : x * PGSIZE < z => Alike(mem, d, mem', d, x)
  BY <1>0, <1>2, <1>4, DeallocView
<1>6. Will(p) = Was(p)
  BY <1>1, <1>5, <1>d, <1>z, ViewSame DEF Will, Was
<1>7. /\ \A q \in Procs : q # p => reg'[q] = reg[q]
      /\ reg'[p] = Idle
  BY <1>0, <1>1, SetReg, IdleReg
<1>8. ReadInv(mem', state[p], pgdir[p], reg'[p])
  BY <1>7, IdleRead
<1>9. {d} \subseteq Own(p)
  BY <1>d DEF Own
<1> QED BY <1>1, <1>5, <1>6, <1>7, <1>8, <1>9, LocalForget

\* A step that changes the size of p.
LEMMA ResizeView ==
    ASSUME VInv, NEW p \in Procs, state[p] = "RUN", Within({pgdir[p]}), FlagInv(mem'),
           UNCHANGED <<state, pgdir>>, stored' = None, reg'[p] = Idle,
           \A q \in Procs : q # p => reg'[q] = reg[q] /\ sz'[q] = sz[q],
           \A a \in Pages : a * PGSIZE < sz'[p] /\ On(mem', pgdir[p], a) =>
              IF a * PGSIZE < sz[p] THEN Alike(mem, pgdir[p], mem', pgdir[p], a)
              ELSE Val(mem', pgdir[p], a) = 0,
           Will(p) # None
    PROVE  VStep
<1>d. PICK d : d = pgdir[p]
  OBVIOUS
<1>1. MInv
  BY DEF VInv
<1>2. MemInv(mem, free) /\ d \in Frames /\ mem[d].kind = "dir"
  BY <1>1, <1>d, Mine
<1>3. Was(p) = ViewOf(mem, "RUN", d, sz[p]) /\ Will(p) = ViewOf(mem', "RUN", d, sz'[p])
  BY <1>d DEF Was, Will
<1>4. Was(p) # None
  BY <1>2, <1>3, ViewType
<1> DEFINE S == PagesOf(mem, d, sz[p])
           T == PagesOf(mem', d, sz'[p])
           f == [a \in S |-> Val(mem, d, a)]
           g == [a \in T |-> Val(mem', d, a)]
           h == [a \in T |-> IF a \in S THEN f[a] ELSE 0]
<1>5. \A a \in T : a \in Pages /\ a * PGSIZE < sz'[p] /\ On(mem', d, a)
  BY DEF PagesOf
<1>6. ASSUME NEW a \in T PROVE Val(mem', d, a) = IF a \in S THEN f[a] ELSE 0
  <2>1. a \in Pages /\ a * PGSIZE < sz'[p] /\ On(mem', d, a)
    BY <1>5
  <2>2. CASE a * PGSIZE < sz[p]
    <3>1. Alike(mem, d, mem', d, a)
      BY <1>d, <2>1, <2>2
    <3>2. a \in S /\ Val(mem', d, a) = Val(mem, d, a)
      BY <2>1, <2>2, <3>1 DEF Alike, PagesOf
    <3> QED BY <3>2
  <2>3. CASE ~(a * PGSIZE < sz[p])
    <3>1. a \notin S
      BY <2>3 DEF PagesOf
    <3> QED BY <1>d, <2>1, <2>3, <3>1
  <2> QED BY <2>2, <2>3
<1>7. g = h
  BY <1>6
<1>8. Was(p) = [root |-> d, page |-> f] /\ Will(p) = [root |-> d, page |-> g]
  BY <1>3 DEF ViewOf
<1>9. Was(p).page = f /\ Will(p).page = g /\ DOMAIN f = S /\ DOMAIN g = T /\ T \subseteq Pages
  BY <1>5, <1>8
<1>10. Will(p) = [Was(p) EXCEPT !.page = h]
  <2> HIDE DEF f, g, h, S, T
  <2> QED BY <1>7, <1>8
<1>11. h = [a \in DOMAIN Will(p).page |-> IF a \in DOMAIN Was(p).page THEN Was(p).page[a] ELSE 0]
  <2>1. h = [a \in T |-> IF a \in S THEN f[a] ELSE 0]
    OBVIOUS
  <2> HIDE DEF f, g, h, S, T
  <2> QED BY <1>9, <2>1
<1>12. \A q \in Procs : q # p => Will(q) = Was(q) /\ ReadInv(mem', state'[q], pgdir'[q], reg'[q])
  <2>1. {d} \subseteq Own(p) /\ Within({d})
    BY <1>d DEF Own
  <2> QED BY <2>1, Neighbours
<1>13. A!ANext
  <2>1. DOMAIN Will(p).page \subseteq Pages
    BY <1>9
  <2>2. Will(p) = [Was(p) EXCEPT !.page = [a \in DOMAIN Will(p).page |->
                        IF a \in DOMAIN Was(p).page THEN Was(p).page[a] ELSE 0]]
    <3> HIDE DEF h
    <3> QED BY <1>10, <1>11
  <2> QED BY <1>4, <1>12, <2>1, <2>2, AbsResize
<1>14. ReadInv(mem', state'[p], pgdir'[p], reg'[p])
  BY IdleRead
<1> QED BY <1>12, <1>13, <1>14 DEF VStep

\* A process that runs after the step has an address space.
LEMMA WillBe ==
    ASSUME MInv', NEW p \in Procs, state'[p] = "RUN"
    PROVE  Will(p) \in AllSpaces /\ Will(p) # None
<1>1. MemInv(mem', free') /\ pgdir'[p] \in Frames /\ mem'[pgdir'[p]].kind = "dir"
  BY DEF MInv, RootInv, HasDir
<1> QED BY <1>1, ViewType DEF Will

LEMMA GrowDoneView ==
    ASSUME VInv, NEW p \in Procs, GrowDone(p), stored' = None
    PROVE  VStep
<1>0. MInv /\ FlagInv(mem) /\ ReadInv(mem, state[p], pgdir[p], reg[p])
  BY DEF VInv
<1>1. /\ state[p] = "RUN" /\ reg[p].pc = "grow" /\ AllDone(p) /\ sz' = [sz EXCEPT ![p] = reg[p].end]
      /\ reg' = [reg EXCEPT ![p] = Idle] /\ UNCHANGED <<mem, state, pgdir>>
  BY DEF GrowDone, At, Return
<1>2. /\ reg[p] \in Regs /\ UserInv(mem, pgdir[p], sz[p], reg[p]) /\ CallInv(mem, sz[p], reg[p])
      /\ pgdir[p] \in Frames /\ mem[pgdir[p]].kind = "dir" /\ sz[p] \in Nat
  BY <1>0, <1>1, Mine
<1>3. /\ reg[p].end \in Nat /\ reg[p].i \in Nat /\ reg[p].old = sz[p]
  BY <1>1, <1>2 DEF UserInv, Regs
<1>4. PGROUNDUP(reg[p].end) <= reg[p].i
  <2>1. reg[p].i * PGSIZE \in Nat /\ ~(reg[p].i * PGSIZE < reg[p].end)
    BY <1>1, <1>3, Sizes, Times DEF AllDone
  <2>2. PGROUNDUP(reg[p].end) \in Nat /\ ~(reg[p].i < PGROUNDUP(reg[p].end))
    BY <1>3, <2>1, RoundUp
  <2> QED BY <1>3, <2>2
<1>5. sz'[p] = reg[p].end /\ \A q \in Procs : q # p => sz'[q] = sz[q]
  BY <1>0, <1>1 DEF MInv, TableInv
<1>6. /\ \A q \in Procs : q # p => reg'[q] = reg[q]
      /\ reg'[p] = Idle
  BY <1>0, <1>1, SetReg, IdleReg
<1>7. ASSUME NEW a \in Pages, a * PGSIZE < sz'[p], On(mem', pgdir[p], a)
      PROVE  IF a * PGSIZE < sz[p] THEN Alike(mem, pgdir[p], mem', pgdir[p], a)
             ELSE Val(mem', pgdir[p], a) = 0
  <2>1. a \in Nat
    BY Sizes DEF Pages
  <2>2. CASE a * PGSIZE < sz[p]
    <3>1. Alike(mem, pgdir[p], mem', pgdir[p], a)
      BY <1>1, AlikeSteps
    <3> QED BY <2>2, <3>1
  <2>3. CASE ~(a * PGSIZE < sz[p])
    <3>1. PGROUNDUP(sz[p]) \in Nat /\ PGROUNDUP(sz[p]) <= a
      BY <1>2, <2>1, <2>3, RoundUp
    <3>2. PGROUNDUP(reg[p].end) \in Nat /\ a < PGROUNDUP(reg[p].end)
      BY <1>3, <1>5, <1>7, <2>1, RoundUp
    <3>3. a < reg[p].i
      BY <1>3, <1>4, <2>1, <3>2
    <3>4. Val(mem, pgdir[p], a) = 0
      BY <1>0, <1>1, <1>3, <1>7, <3>1, <3>3 DEF ReadInv, Zeroed
    <3> QED BY <1>1, <2>3, <3>4
  <2> QED BY <2>2, <2>3
<1>8. Within({pgdir[p]}) /\ FlagInv(mem')
  BY <1>0, <1>1, <1>2 DEF Within, Only
<1>9. Will(p) # None
  <2>1. MInv'
    BY <1>0, GrowDoneInv
  <2> QED BY <1>1, <2>1, WillBe
<1> QED BY <1>1, <1>5, <1>6, <1>7, <1>8, <1>9, ResizeView

LEMMA ShrinkView ==
    ASSUME VInv, NEW p \in Procs, NEW n \in Sbrks, Shrink(p, n), stored' = None
    PROVE  VStep
<1>0. MInv /\ FlagInv(mem)
  BY DEF VInv
<1>n. PICK new : new = (sz[p] + n) % WORD
  OBVIOUS
<1>g. PICK got : got = IF new >= sz[p] THEN sz[p] ELSE new
  OBVIOUS
<1>1. /\ Runs(p) /\ deallocuvm(pgdir[p], sz[p], new) /\ sz' = [sz EXCEPT ![p] = IF got = 0 THEN sz[p] ELSE got]
      /\ UNCHANGED <<state, pgdir, reg>>
  BY <1>n, <1>g DEF Shrink
<1>2. state[p] = "RUN" /\ reg[p] = Idle
  BY <1>0, <1>1, RunsUpto
<1>3. /\ sz[p] \in Nat /\ sz[p] < KERNBASE /\ pgdir[p] \in Frames /\ mem[pgdir[p]].kind = "dir" /\ MemInv(mem, free)
  BY <1>0, <1>2, Mine
<1>4. new \in Nat
  <2>1. n \in Int /\ WORD \in Nat /\ WORD > 0
    BY SizeAssumption, Sizes DEF WORD
  <2> QED BY <1>3, <1>n, <2>1
<1>d. PICK d : d = pgdir[p]
  OBVIOUS
<1>z. PICK z : z = sz[p]
  OBVIOUS
<1>5. /\ Within({d}) /\ FlagInv(mem')
      /\ \A x \in Pages : x * PGSIZE < new => Alike(mem, d, mem', d, x)
      /\ new < z => \A x \in Pages : x * PGSIZE < z /\ On(mem', d, x) => x * PGSIZE < new
  BY <1>0, <1>1, <1>3, <1>4, <1>d, <1>z, DeallocView
<1>6. sz'[p] = (IF got = 0 THEN z ELSE got) /\ \A q \in Procs : q # p => sz'[q] = sz[q]
  BY <1>0, <1>1, <1>z DEF MInv, TableInv
<1>7. ASSUME NEW a \in Pages, a * PGSIZE < sz'[p], On(mem', d, a)
      PROVE  a * PGSIZE < z /\ Alike(mem, d, mem', d, a)
  <2>k. PICK k : k = a * PGSIZE
    OBVIOUS
  <2>1. k \in Nat /\ k < sz'[p] /\ z \in Nat
    BY <1>3, <1>7, <1>z, <2>k, Sizes, Times DEF Pages
  <2>2. CASE new >= z
    <3>1. got = z
      BY <1>g, <1>z, <2>2
    <3>2. k < z /\ k < new
      BY <1>4, <1>6, <2>1, <2>2, <3>1
    <3> QED BY <1>5, <2>k, <3>2
  <2>3. CASE new < z
    <3>1. got = new
      BY <1>3, <1>4, <1>g, <1>z, <2>3
    <3>2. k < z
      BY <1>4, <1>6, <2>1, <2>3, <3>1
    <3>3. k < new
      BY <1>5, <1>7, <2>3, <2>k, <3>2
    <3> QED BY <1>5, <2>k, <3>2, <3>3
  <2> QED BY <1>4, <2>1, <2>2, <2>3
<1>8. Will(p) # None
  <2>1. MInv'
    BY <1>0, ShrinkInv
  <2> QED BY <1>1, <1>2, <2>1, WillBe
<1>9. \A a \in Pages : a * PGSIZE < sz'[p] /\ On(mem', pgdir[p], a) =>
              IF a * PGSIZE < sz[p] THEN Alike(mem, pgdir[p], mem', pgdir[p], a)
              ELSE Val(mem', pgdir[p], a) = 0
  BY <1>7, <1>d, <1>z
<1>10. Within({pgdir[p]}) /\ reg'[p] = Idle /\ \A q \in Procs : q # p => reg'[q] = reg[q] /\ sz'[q] = sz[q]
  BY <1>1, <1>2, <1>5, <1>6, <1>d
<1> QED BY <1>1, <1>2, <1>5, <1>8, <1>9, <1>10, ResizeView

LEMMA GrowView ==
    ASSUME VInv, NEW p \in Procs, NEW n \in Sbrks, Grow(p, n), stored' = None
    PROVE  VStep
<1>0. MInv
  BY DEF VInv
<1>1. /\ Runs(p) /\ n > 0 /\ UNCHANGED <<mem, state, pgdir, sz>>
      /\ allocuvm(p, "grow", pgdir[p], sz[p], sz[p] + n)
  BY DEF Grow, ptable
<1>2. state[p] = "RUN"
  BY <1>1 DEF Runs, At
<1>3. sz[p] \in Nat /\ pgdir[p] \in Frames
  BY <1>0, <1>2, Mine
<1>d. PICK d : d = pgdir[p]
  OBVIOUS
<1>z. PICK z : z = sz[p]
  OBVIOUS
<1>e. PICK e : e = sz[p] + n
  OBVIOUS
<1>4. allocuvm(p, "grow", d, z, e) /\ d \in Frames /\ z \in Nat /\ e \in Nat
  <2>1. n \in Int
    BY SizeAssumption, Sizes
  <2> QED BY <1>1, <1>3, <1>d, <1>e, <1>z, <2>1
<1>5. /\ \A q \in Procs : q # p => reg'[q] = reg[q]
      /\ reg'[p].pc = "grow" /\ reg'[p].i = PGROUNDUP(z) /\ reg'[p].old = z
  BY <1>0, <1>2, <1>4, AllocCall DEF PCs
<1> QED BY <1>1, <1>2, <1>4, <1>5, RegView

-----------------------------------------------------------------------------
(* Steps that only change the locals of a call. *)

LEMMA ExecView ==
    ASSUME VInv, NEW p \in Procs, NEW image \in Images, Exec(p, image), stored' = None
    PROVE  VStep
<1>0. MInv
  BY DEF VInv
<1>1. /\ Runs(p) /\ UNCHANGED <<mem, state, pgdir, sz>>
      /\ reg' = [reg EXCEPT ![p].pc = "kvmdir", ![p].image = image]
  BY DEF Exec, ptable
<1>2. state[p] = "RUN"
  BY <1>1 DEF Runs, At
<1>3. reg[p] \in Regs /\ image \in Seq(Segments)
  BY <1>0, <1>2, Mine, ImagesAssumption
<1>s. PICK s : s = SetExec(reg[p], image)
  OBVIOUS
<1>4. s \in Regs /\ s.pc = "kvmdir"
  BY <1>3, <1>s, RegExec
<1>5. reg' = [reg EXCEPT ![p] = s]
  BY <1>1, <1>s DEF SetExec
<1>6. reg'[p] = s /\ \A q \in Procs : q # p => reg'[q] = reg[q]
  BY <1>0, <1>4, <1>5, SetReg
<1> QED BY <1>1, <1>2, <1>4, <1>6, RegView

LEMMA KvmDoneView ==
    ASSUME VInv, NEW p \in Procs, KvmDone(p), stored' = None
    PROVE  VStep
<1>0. MInv
  BY DEF VInv
<1>c. PICK pc : pc = IF reg[p].np = None THEN "segs" ELSE "copy"
  OBVIOUS
<1>1. /\ At(p, "kvm") /\ UNCHANGED <<mem, state, pgdir, sz>>
      /\ reg' = [reg EXCEPT ![p].pc = pc, ![p].i = 0]
  BY <1>c DEF KvmDone, ptable
<1>2. state[p] = "RUN"
  BY <1>1 DEF At
<1>3. reg[p] \in Regs /\ pc \in PCs /\ pc # "grow"
  BY <1>0, <1>2, <1>c, Mine DEF PCs
<1>s. PICK s : s = SetPc(reg[p], pc, 0)
  OBVIOUS
<1>4. s \in Regs /\ s.pc = pc /\ s.i = 0
  BY <1>3, <1>s, RegPc
<1>5. reg' = [reg EXCEPT ![p] = s]
  BY <1>1, <1>s DEF SetPc
<1>6. reg'[p] = s /\ \A q \in Procs : q # p => reg'[q] = reg[q]
  BY <1>0, <1>4, <1>5, SetReg
<1> QED BY <1>1, <1>2, <1>3, <1>4, <1>6, RegView

LEMMA ExecAllocView ==
    ASSUME VInv, NEW p \in Procs, At(p, "segs"), NEW pc \in {"load", "stack"}, NEW old \in Nat, NEW end \in Nat,
           allocuvm(p, pc, reg[p].d, old, end), UNCHANGED <<mem, state, pgdir, sz>>, stored' = None
    PROVE  VStep
<1>0. MInv
  BY DEF VInv
<1>1. state[p] = "RUN" /\ reg[p].pc = "segs"
  BY DEF At
<1>d. PICK d : d = reg[p].d
  OBVIOUS
<1>2. d \in Frames /\ allocuvm(p, pc, d, old, end) /\ pc \in PCs
  BY <1>0, <1>1, <1>d, Mine DEF PCs
<1>3. /\ \A q \in Procs : q # p => reg'[q] = reg[q]
      /\ reg'[p].pc = pc
  BY <1>0, <1>1, <1>2, AllocCall
<1> QED BY <1>1, <1>3, RegView

\* Nothing changes.
LEMMA SameView ==
    ASSUME VInv, NEW p \in Procs, state[p] = "RUN", UNCHANGED <<mem, state, pgdir, sz, reg>>, stored' = None
    PROVE  VStep
BY RegView

-----------------------------------------------------------------------------
(* Steps of a fork or an exec before it succeeds. *)

LEMMA FlagSame ==
    ASSUME FlagInv(mem), NEW n,
           \A f \in Frames : n[f] = mem[f] \/ n[f].kind # "table" \/ \A j \in Ptx : n[f].pte[j] = NoEntry
    PROVE  FlagInv(n)
BY EmptyOnes DEF FlagInv

\* What p builds is not yet its memory; the child does not run yet.
LEMMA CallView ==
    ASSUME VInv, NEW p \in Procs, state[p] = "RUN", state'[p] = state[p], pgdir'[p] = pgdir[p], sz'[p] = sz[p],
           NEW D, Within(D), D \subseteq Own(p), pgdir[p] \notin D, FlagInv(mem'), stored' = None,
           reg'[p].pc \notin {"grow", "copy"}, \A q \in Procs : q # p => reg'[q] = reg[q],
           \A q \in Procs : q # p => \/ state'[q] = state[q] /\ pgdir'[q] = pgdir[q] /\ sz'[q] = sz[q]
                                     \/ state[q] # "RUN" /\ state'[q] # "RUN"
    PROVE  VStep
<1>1. ASSUME NEW q \in Procs, q # p PROVE Will(q) = Was(q) /\ ReadInv(mem', state'[q], pgdir'[q], reg'[q])
  <2>1. CASE state'[q] = state[q] /\ pgdir'[q] = pgdir[q] /\ sz'[q] = sz[q]
    BY <1>1, <2>1, Neighbours
  <2>2. CASE state[q] # "RUN" /\ state'[q] # "RUN"
    BY <2>2 DEF Will, Was, ViewOf, ReadInv
  <2> QED BY <1>1, <2>1, <2>2
<1>2. Will(p) = Was(p)
  BY KeepView
<1>3. ReadInv(mem', state'[p], pgdir'[p], reg'[p])
  BY DEF ReadInv, Zeroed, Copied
<1>4. A!Forget
  BY <1>1, <1>2, AbsStutter
<1> QED BY <1>1, <1>3, <1>4 DEF VStep

LEMMA ObtainView ==
    ASSUME MemInv(mem, free), free # {}, NEW x, x = KStack \/ x = Dir, mem' = [mem EXCEPT ![Kalloc] = x],
           free' = free \ {Kalloc}
    PROVE  Within({}) /\ (FlagInv(mem) => FlagInv(mem'))
<1>1. mem \in Mems
  BY FreeFacts
<1>2. Kalloc \in Frames /\ mem[Kalloc].kind = "junk" /\ mem'[Kalloc] = x
  BY Obtain
<1>3. \A f \in Frames : f # Kalloc => mem'[f] = mem[f]
  BY <1>1 DEF Mems
<1>4. x.kind # "table"
  BY Makes, EmptyOnes
<1>5. Within({})
  BY <1>2, <1>3 DEF Within, Only
<1>6. ASSUME FlagInv(mem) PROVE FlagInv(mem')
  BY <1>2, <1>3, <1>4, <1>6, FlagSame
<1> QED BY <1>5, <1>6

LEMMA ForkAllocView ==
    ASSUME VInv, NEW p \in Procs, ForkAlloc(p), stored' = None
    PROVE  VStep
<1>0. MInv /\ FlagInv(mem)
  BY DEF VInv
<1>c. PICK c \in Procs : /\ state[c] = "UNUSED" /\ state' = [state EXCEPT ![c] = "EMBRYO"]
                         /\ reg' = [reg EXCEPT ![p].pc = "kvmdir", ![p].np = c]
  BY DEF ForkAlloc
<1>1. /\ Runs(p) /\ free # {} /\ free' = free \ {Kalloc} /\ mem' = [mem EXCEPT ![Kalloc] = KStack]
      /\ UNCHANGED <<pgdir, sz>>
  BY DEF ForkAlloc
<1>2. state[p] = "RUN" /\ reg \in [Procs -> Regs] /\ MemInv(mem, free)
  BY <1>0, <1>1 DEF Runs, At, MInv, TableInv
<1>3. Within({}) /\ FlagInv(mem')
  BY <1>0, <1>1, <1>2, ObtainView
<1>s. PICK s : s = SetFork(reg[p], c)
  OBVIOUS
<1>4. s \in Regs /\ s.pc = "kvmdir"
  BY <1>2, <1>s, RegFork
<1>5. reg'[p] = s /\ \A q \in Procs : q # p => reg'[q] = reg[q]
  <2>1. reg' = [reg EXCEPT ![p] = s]
    BY <1>2, <1>c, <1>s DEF SetFork
  <2> QED BY <1>0, <1>4, <2>1, SetReg
<1>6. c # p /\ state'[c] = "EMBRYO" /\ \A q \in Procs : q # c => state'[q] = state[q]
  BY <1>0, <1>2, <1>c DEF MInv, TableInv
<1> QED BY <1>1, <1>2, <1>3, <1>4, <1>5, <1>6, <1>c, CallView

LEMMA KvmDirView ==
    ASSUME VInv, NEW p \in Procs, At(p, "kvmdir"), free # {}, free' = free \ {Kalloc},
           mem' = [mem EXCEPT ![Kalloc] = Dir], reg' = [reg EXCEPT ![p].pc = "kvm", ![p].d = Kalloc],
           UNCHANGED <<state, pgdir, sz>>, stored' = None
    PROVE  VStep
<1>0. MInv /\ FlagInv(mem)
  BY DEF VInv
<1>g. PICK g : g = Kalloc
  OBVIOUS
<1>2. state[p] = "RUN" /\ reg \in [Procs -> Regs] /\ MemInv(mem, free)
  BY <1>0 DEF At, MInv, TableInv
<1>3. Within({}) /\ FlagInv(mem') /\ g \in Frames
  BY <1>0, <1>2, <1>g, ObtainView, Obtain
<1>s. PICK s : s = SetDir(reg[p], g)
  OBVIOUS
<1>4. s \in Regs /\ s.pc = "kvm"
  BY <1>2, <1>3, <1>s, RegDir
<1>5. reg'[p] = s /\ \A q \in Procs : q # p => reg'[q] = reg[q]
  <2>1. reg' = [reg EXCEPT ![p] = s]
    BY <1>2, <1>g, <1>s DEF SetDir
  <2> QED BY <1>0, <1>4, <2>1, SetReg
<1> QED BY <1>2, <1>3, <1>4, <1>5, CallView

LEMMA KvmTableView ==
    ASSUME VInv, NEW p \in Procs, At(p, "kvm"), reg[p].i < KTABLES, free # {},
           mem' = [mem EXCEPT ![Kalloc] = Table, ![reg[p].d].pde[UTABLES + reg[p].i] = Kalloc],
           reg' = [reg EXCEPT ![p].i = @ + 1], UNCHANGED <<state, pgdir, sz>>, stored' = None
    PROVE  VStep
<1>0. MInv /\ FlagInv(mem)
  BY DEF VInv
<1>1. state[p] = "RUN" /\ reg[p].pc = "kvm"
  BY DEF At
<1>2. reg[p] \in Regs /\ reg[p].d \in Frames /\ mem[reg[p].d].kind = "dir" /\ MemInv(mem, free)
  BY <1>0, <1>1, Mine
<1>d. PICK d : d = reg[p].d
  OBVIOUS
<1>k. PICK k : k = UTABLES + reg[p].i
  OBVIOUS
<1>g. PICK g : g = Kalloc
  OBVIOUS
<1>3. g \in Frames /\ mem[g].kind = "junk" /\ d \in Frames /\ mem[d].kind = "dir" /\ k \in Pdx /\ mem \in Mems
  <2>1. g \in free
    BY <1>g DEF Kalloc
  <2>2. k \in Pdx
    BY <1>2, <1>k, Sizes, SMTT(60) DEF Pdx, Regs
  <2> QED BY <1>2, <1>d, <2>1, <2>2, FreeFacts
<1>n. PICK n : n = Fill(mem, g, Table)
  OBVIOUS
<1>4. n \in Mems /\ n[g] = Table /\ \A f \in Frames : f # g => n[f] = mem[f]
  <2>1. Table \in Contents
    BY EmptyOnes
  <2> QED BY ONLY <1>3, <1>n, <2>1, FillFacts
<1>5. mem' = PutPde(n, d, k, g)
  BY <1>d, <1>k, <1>g, <1>n DEF PutPde, Fill
<1>6. (\A f \in Frames : f # d => mem'[f] = n[f]) /\ mem'[d].kind = "dir"
  <2>1. n \in Mems /\ d \in Frames /\ n[d].kind = "dir" /\ k \in Pdx /\ g \in Frames
    BY <1>3, <1>4
  <2> QED BY ONLY <1>5, <2>1, PdeFacts
<1>7. Within({d})
  <2>1. d \in Space(d)
    BY <1>2, <1>3, SpaceOf
  <2> QED BY <1>3, <1>4, <1>6, <2>1 DEF Within, Only
<1>8. FlagInv(mem')
  <2>1. \A f \in Frames : mem'[f] = mem[f] \/ mem'[f].kind # "table" \/ mem'[f] = Table
    BY <1>4, <1>6
  <2>2. \A j \in Ptx : Table.pte[j] = NoEntry
    BY EmptyOnes
  <2> QED BY <1>0, <2>1, <2>2, FlagSame
<1>9. /\ \A q \in Procs : q # p => reg'[q] = reg[q]
      /\ reg'[p].pc = "kvm"
  BY <1>0, <1>1, CountStep
<1>10. {d} \subseteq Own(p) /\ pgdir[p] # d
  BY <1>0, <1>1, <1>d, TwoDirs DEF Own
<1> QED BY <1>1, <1>7, <1>8, <1>9, <1>10, CallView

\* What is freed belonged to one address space.
LEMMA FreeView ==
    ASSUME MemInv(mem, free), NEW D, D \subseteq Frames, \A d \in D : mem[d].kind = "dir", NEW X,
           \A f \in X : f \in Frames => mem[f].kind = "kstack" \/ \E d \in D : f \in Space(d),
           mem' = Junked(mem, X)
    PROVE  Within(D) /\ (FlagInv(mem) => FlagInv(mem'))
<1>1. \A f \in Frames : mem'[f] = IF f \in X THEN Junk ELSE mem[f]
  BY FreeFacts, JunkedFacts
<1>2. Within(D)
  BY <1>1 DEF Within, Only
<1>3. ASSUME FlagInv(mem) PROVE FlagInv(mem')
  BY <1>1, <1>3, Makes, FlagSame
<1> QED BY <1>2, <1>3

LEMMA BadView ==
    ASSUME VInv, NEW p \in Procs, state[p] = "RUN", reg[p].pc \notin {"user", "grow"},
           NEW F, F = IF reg[p].d = None THEN {} ELSE Space(reg[p].d), Bad(p, F), stored' = None
    PROVE  VStep
<1>0. MInv /\ FlagInv(mem)
  BY DEF VInv
<1>c. PICK c : c = reg[p].np
  OBVIOUS
<1>d. PICK d : d = reg[p].d
  OBVIOUS
<1>x. PICK X : X = IF c = None THEN F ELSE F \cup {kstack[c]}
  OBVIOUS
<1>1. /\ mem' = Junked(mem, X)
      /\ c = None => UNCHANGED ptable
      /\ c # None => /\ pgdir' = [pgdir EXCEPT ![c] = None]
                     /\ state' = [state EXCEPT ![c] = "UNUSED"] /\ UNCHANGED sz
      /\ reg' = [reg EXCEPT ![p] = Idle]
  BY <1>c, <1>x DEF Bad, FreeFrames, Freed, Return
<1>2. reg[p] \in Regs /\ HasDir(p)
  BY <1>0, Mine
<1>3. TableInv /\ MemInv(mem, free) /\ RootInv /\ StackInv /\ ChildInv
  BY <1>0 DEF MInv
<1>4. d = None \/ (d \in Frames /\ mem[d].kind = "dir" /\ d # pgdir[p])
  BY <1>2, <1>3, <1>d DEF RootInv, HasNew
<1>5. c = None \/ (c \in Procs /\ state[c] = "EMBRYO" /\ c # p /\ mem[kstack[c]].kind = "kstack")
  <2>1. c # None => c \in Procs /\ state[c] = "EMBRYO"
    BY <1>2, <1>3, <1>c DEF ChildInv, Regs
  <2> QED BY <1>3, <2>1 DEF StackInv
<1>D. PICK D : D = IF d = None THEN {} ELSE {d}
  OBVIOUS
<1>6. D \subseteq Frames /\ (\A e \in D : mem[e].kind = "dir") /\ D \subseteq Own(p) /\ pgdir[p] \notin D
  BY <1>4, <1>d, <1>D DEF Own
<1>7. \A f \in X : f \in Frames => mem[f].kind = "kstack" \/ \E e \in D : f \in Space(e)
  BY <1>5, <1>d, <1>x, <1>D
<1>8. Within(D) /\ FlagInv(mem')
  BY <1>0, <1>1, <1>3, <1>6, <1>7, FreeView
<1>9. reg'[p] = Idle /\ \A q \in Procs : q # p => reg'[q] = reg[q]
  BY <1>0, <1>1, IdleReg, SetReg
<1>10. \A q \in Procs : \/ state'[q] = state[q] /\ pgdir'[q] = pgdir[q] /\ sz'[q] = sz[q]
                        \/ q = c /\ state[q] # "RUN" /\ state'[q] # "RUN"
  <2>1. CASE c = None
    BY <1>1, <2>1 DEF ptable
  <2>2. CASE c # None
    BY <1>1, <1>3, <1>5, <2>2 DEF TableInv
  <2> QED BY <2>1, <2>2
<1>11. state'[p] = state[p] /\ pgdir'[p] = pgdir[p] /\ sz'[p] = sz[p]
  BY <1>10
<1> QED BY <1>6, <1>8, <1>9, <1>10, <1>11, IdleReg, CallView

LEMMA FailView ==
    ASSUME VInv, NEW p \in Procs, NEW pc \in {"kvm", "copy", "segs", "load", "stack"}, At(p, pc),
           Bad(p, Space(reg[p].d)), stored' = None
    PROVE  VStep
<1>0. MInv
  BY DEF VInv
<1>1. state[p] = "RUN" /\ reg[p].pc = pc
  BY DEF At
<1>2. reg[p].d # None
  BY <1>0, <1>1, Mine DEF CallInv
<1>f. PICK F : F = Space(reg[p].d)
  OBVIOUS
<1>3. F = IF reg[p].d = None THEN {} ELSE Space(reg[p].d)
  BY <1>2, <1>f
<1>4. /\ VInv /\ p \in Procs /\ state[p] = "RUN" /\ reg[p].pc \notin {"user", "grow"} /\ Bad(p, F) /\ stored' = None
  BY <1>1, <1>f
<1> QED BY ONLY <1>3, <1>4, BadView

LEMMA ExecLoadView ==
    ASSUME VInv, NEW p \in Procs, At(p, "load"), AllDone(p), NEW S, NEW X, X = FramesOf(reg[p].d, S),
           S \subseteq Pages, \A a \in S : Mapped(reg[p].d, a),
           mem' = [f \in Frames |-> IF f \in X THEN User(Loaded) ELSE mem[f]],
           reg' = [reg EXCEPT ![p] = SetLoaded(reg[p])], UNCHANGED <<state, pgdir, sz>>, stored' = None
    PROVE  VStep
<1>0. MInv /\ FlagInv(mem)
  BY DEF VInv
<1>1. state[p] = "RUN" /\ reg[p].pc = "load"
  BY DEF At
<1>2. /\ reg[p] \in Regs /\ CallInv(mem, sz[p], reg[p])
      /\ reg[p].d \in Frames /\ mem[reg[p].d].kind = "dir" /\ MemInv(mem, free)
  BY <1>0, <1>1, Mine
<1>d. PICK d : d = reg[p].d
  OBVIOUS
<1>3. \A f \in X : f \in Space(d)
  <2> SUFFICES ASSUME NEW a \in S PROVE Pte(d, a).frame \in Space(d)
    BY <1>d DEF FramesOf
  <2>1. a \in Pages /\ Mapped(d, a)
    BY <1>d
  <2>2. Pte(d, a).frame \in Frames /\ MapsTo(mem, d, a, Pte(d, a).frame)
    BY <1>2, <1>d, <2>1, EntryOf
  <2> QED BY <1>2, <1>d, <2>1, <2>2, SpaceOf
<1>4. \A f \in Frames : mem'[f] = IF f \in X THEN User(Loaded) ELSE mem[f]
  OBVIOUS
<1>5. Within({d})
  BY <1>2, <1>3, <1>4, <1>d DEF Within, Only
<1>6. FlagInv(mem')
  <2>1. User(Loaded).kind # "table"
    BY DEF User
  <2> QED BY <1>0, <1>4, <2>1, FlagSame
<1>s. PICK s : s = SetLoaded(reg[p])
  OBVIOUS
<1>7. s \in Regs /\ s.pc = "segs"
  BY <1>1, <1>2, <1>s, RegLoaded DEF CallInv
<1>8. reg'[p] = s /\ \A q \in Procs : q # p => reg'[q] = reg[q]
  BY <1>0, <1>7, <1>s, SetReg
<1>9. {d} \subseteq Own(p) /\ pgdir[p] # d
  BY <1>0, <1>1, <1>d, TwoDirs DEF Own
<1> QED BY <1>1, <1>5, <1>6, <1>7, <1>8, <1>9, CallView

-----------------------------------------------------------------------------
(* fork succeeds, exit, wait. *)

\* Two processes have different roots.
LEMMA FreshRoot ==
    ASSUME MInv, NEW p \in Procs, state[p] = "RUN", reg[p].pc \notin {"user", "kvmdir", "grow"},
           NEW q \in Procs, Was(q) # None
    PROVE  Was(q).root # reg[p].d
<1>1. state[q] = "RUN"
  BY DEF Was, ViewOf
<1>2. Was(q).root = pgdir[q]
  BY <1>1 DEF Was, ViewOf
<1>3. HasNew(p) /\ HasDir(q)
  BY <1>1, TwoDirs DEF HasDir
<1>4. pgdir[q] # reg[p].d
  BY <1>3 DEF MInv, RootInv
<1> QED BY <1>2, <1>4

LEMMA WasOne ==
    ASSUME MInv, NEW p \in Procs, state[p] = "RUN"
    PROVE  Was(p) # None /\ Was(p) = ViewOf(mem, "RUN", pgdir[p], sz[p])
<1>1. Was(p) = ViewOf(mem, "RUN", pgdir[p], sz[p])
  BY DEF Was
<1>2. MemInv(mem, free) /\ pgdir[p] \in Frames /\ mem[pgdir[p]].kind = "dir"
  BY Mine
<1> QED BY <1>1, <1>2, ViewType

LEMMA ForkDoneView ==
    ASSUME VInv, NEW p \in Procs, ForkDone(p), stored' = None
    PROVE  VStep
<1>0. MInv /\ FlagInv(mem) /\ ReadInv(mem, state[p], pgdir[p], reg[p])
  BY DEF VInv
<1>c. PICK c : c = reg[p].np
  OBVIOUS
<1>d. PICK d : d = reg[p].d
  OBVIOUS
<1>z. PICK z : z = sz[p]
  OBVIOUS
<1>1. /\ state[p] = "RUN" /\ reg[p].pc = "copy" /\ reg[p].i * PGSIZE >= sz[p]
      /\ pgdir' = [pgdir EXCEPT ![c] = d] /\ sz' = [sz EXCEPT ![c] = z]
      /\ state' = [state EXCEPT ![c] = "RUN"]
      /\ reg' = [reg EXCEPT ![p] = Idle] /\ UNCHANGED mem
  BY <1>c, <1>d, <1>z DEF ForkDone, At, Return
<1>2. /\ reg[p] \in Regs /\ CallInv(mem, sz[p], reg[p]) /\ z \in Nat /\ d \in Frames /\ mem[d].kind = "dir"
      /\ MemInv(mem, free)
  BY <1>0, <1>1, <1>d, <1>z, Mine
<1>3. TableInv /\ ChildInv
  BY <1>0 DEF MInv
<1>4. c \in Procs /\ state[c] = "EMBRYO" /\ c # p
  <2>1. c # None
    BY <1>1, <1>2, <1>c DEF CallInv
  <2> QED BY <1>1, <1>2, <1>3, <1>c, <2>1 DEF ChildInv, Regs
<1>5. \A a \in Pages : a * PGSIZE < z => Alike(mem, pgdir[p], mem, d, a)
  <2> SUFFICES ASSUME NEW a \in Pages, a * PGSIZE < z PROVE Alike(mem, pgdir[p], mem, d, a)
    OBVIOUS
  <2>1. a \in Nat /\ reg[p].i \in Nat
    BY <1>2, Sizes DEF Pages, Regs
  <2>2. reg[p].i * PGSIZE \in Nat /\ ~(reg[p].i * PGSIZE < z)
    BY <1>1, <1>2, <1>z, <2>1, Sizes, Times
  <2>3. a < reg[p].i
    BY <1>2, <2>1, <2>2, RoundUp
  <2> QED BY <1>0, <1>1, <1>d, <2>3 DEF ReadInv, Copied
<1>6. reg'[p] = Idle /\ \A q \in Procs : q # p => reg'[q] = reg[q]
  BY <1>0, <1>1, IdleReg, SetReg
<1>7. /\ state'[c] = "RUN" /\ pgdir'[c] = d /\ sz'[c] = z
      /\ \A q \in Procs : q # c => state'[q] = state[q] /\ pgdir'[q] = pgdir[q] /\ sz'[q] = sz[q]
  BY <1>1, <1>3, <1>4 DEF TableInv
<1>8. Within({})
  BY <1>1 DEF Within, Only
<1>9. \A q \in Procs : q # c => Will(q) = Was(q)
  BY <1>7, <1>8, KeepView
<1>10. \A q \in Procs : ReadInv(mem', state'[q], pgdir'[q], reg'[q])
  <2> SUFFICES ASSUME NEW q \in Procs PROVE ReadInv(mem', state'[q], pgdir'[q], reg'[q])
    OBVIOUS
  <2>1. CASE q = p
    BY <1>6, <2>1, IdleRead
  <2>2. CASE q = c
    <3>1. reg'[c] = Idle
      BY <1>0, <1>4, <1>6, Anyone
    <3> QED BY <2>2, <3>1, IdleRead
  <2>3. CASE q # p /\ q # c
    BY <1>6, <1>7, <1>8, <2>3, KeepRead
  <2> QED BY <2>1, <2>2, <2>3
<1>11. Was(p) # None /\ Was(p) = ViewOf(mem, "RUN", pgdir[p], z)
  BY <1>0, <1>1, <1>z, WasOne
<1>12. Was(c) = None
  BY <1>4 DEF Was, ViewOf
<1>13. Will(c) = ViewOf(mem, "RUN", d, z)
  BY <1>1, <1>7 DEF Will
<1>14. Will(c) # None
  BY <1>2, <1>13, ViewType
<1> DEFINE f == [a \in PagesOf(mem, pgdir[p], z) |-> Val(mem, pgdir[p], a)]
           g == [a \in PagesOf(mem, d, z) |-> Val(mem, d, a)]
<1>15. f = g
  <2>1. PagesOf(mem, pgdir[p], z) = PagesOf(mem, d, z)
    BY <1>5 DEF PagesOf, Alike
  <2>2. \A a \in PagesOf(mem, d, z) : Val(mem, pgdir[p], a) = Val(mem, d, a)
    BY <1>5 DEF PagesOf, Alike
  <2> QED BY <2>1, <2>2
<1>16. Was(p) = [root |-> pgdir[p], page |-> f] /\ Will(c) = [root |-> d, page |-> g]
  BY <1>11, <1>13 DEF ViewOf
<1> HIDE DEF f, g
<1>17. Will(c) = [Was(p) EXCEPT !.root = Will(c).root] /\ Will(c).root = d
  BY <1>15, <1>16
<1>18. \A q \in Procs : Was(q) # None => Was(q).root # Will(c).root
  BY <1>0, <1>1, <1>d, <1>17, FreshRoot
<1>19. A!ANext
  BY <1>4, <1>9, <1>11, <1>12, <1>14, <1>17, <1>18, AbsFork
<1>20. FlagInv(mem')
  BY <1>0, <1>1
<1> QED BY <1>10, <1>19, <1>20 DEF VStep

LEMMA ExitView ==
    ASSUME VInv, NEW p \in Procs, At(p, "user"), state' = [state EXCEPT ![p] = "ZOMBIE"],
           UNCHANGED <<mem, pgdir, sz, reg>>, stored' = None
    PROVE  VStep
<1>0. MInv /\ FlagInv(mem)
  BY DEF VInv
<1>1. state[p] = "RUN" /\ state'[p] = "ZOMBIE" /\ \A q \in Procs : q # p => state'[q] = state[q]
  BY <1>0 DEF At, MInv, TableInv
<1>2. Within({})
  BY DEF Within, Only
<1>3. \A q \in Procs : q # p => Will(q) = Was(q) /\ ReadInv(mem', state'[q], pgdir'[q], reg'[q])
  BY <1>1, <1>2, KeepView, KeepRead
<1>4. Will(p) = None /\ ReadInv(mem', state'[p], pgdir'[p], reg'[p])
  BY <1>1 DEF Will, ViewOf, ReadInv
<1>5. Was(p) # None
  BY <1>0, <1>1, WasOne
<1>6. A!ANext
  BY <1>3, <1>4, <1>5, AbsExit
<1>7. FlagInv(mem')
  BY <1>0
<1> QED BY <1>3, <1>4, <1>6, <1>7 DEF VStep

LEMMA WaitView ==
    ASSUME VInv, NEW p \in Procs, NEW c \in Procs, Wait(p, c), stored' = None
    PROVE  VStep
<1>0. MInv /\ FlagInv(mem)
  BY DEF VInv
<1>d. PICK d : d = pgdir[c]
  OBVIOUS
<1>k. PICK k : k = kstack[c]
  OBVIOUS
<1>x. PICK X : X = Space(d) \cup {k}
  OBVIOUS
<1>1. /\ state[c] = "ZOMBIE" /\ mem' = Junked(mem, X)
      /\ state' = [state EXCEPT ![c] = "UNUSED"] /\ pgdir' = [pgdir EXCEPT ![c] = None]
      /\ sz' = [sz EXCEPT ![c] = 0] /\ UNCHANGED reg
  BY <1>d, <1>k, <1>x DEF Wait, FreeFrames, Freed
<1>2. TableInv /\ MemInv(mem, free) /\ RootInv /\ StackInv
  BY <1>0 DEF MInv
<1>3. d \in Frames /\ mem[d].kind = "dir" /\ mem[k].kind = "kstack" /\ HasDir(c)
  BY <1>1, <1>2, <1>d, <1>k DEF RootInv, StackInv, HasDir
<1>4. Within({d}) /\ FlagInv(mem')
  <2>1. \A f \in X : f \in Frames => mem[f].kind = "kstack" \/ \E e \in {d} : f \in Space(e)
    BY <1>3, <1>x
  <2> QED BY <1>0, <1>1, <1>2, <1>3, <2>1, FreeView
<1>5. /\ state'[c] = "UNUSED"
      /\ \A q \in Procs : q # c => state'[q] = state[q] /\ pgdir'[q] = pgdir[q] /\ sz'[q] = sz[q]
  BY <1>1, <1>2 DEF TableInv
<1>6. ASSUME NEW q \in Procs, q # c
      PROVE  Will(q) = Was(q) /\ ReadInv(mem', state'[q], pgdir'[q], reg'[q])
  <2>1. HasDir(q) => pgdir[q] # d
    BY <1>2, <1>3, <1>6, <1>d DEF RootInv
  <2>2. HasNew(q) => reg[q].d # d
    BY <1>2, <1>3, <1>d DEF RootInv
  <2>3. reg[q].d # d
    BY <1>0, <1>3, <2>1, <2>2, Anyone, NoneAssumption
  <2>4. state[q] = "RUN" => pgdir[q] \notin {d} /\ reg[q].d \notin {d}
    BY <2>1, <2>3 DEF HasDir
  <2> QED BY <1>1, <1>4, <1>5, <1>6, <2>4, KeepView, KeepRead
<1>7. Will(c) = Was(c) /\ ReadInv(mem', state'[c], pgdir'[c], reg'[c])
  BY <1>1, <1>5 DEF Will, Was, ViewOf, ReadInv
<1>8. A!Forget
  BY <1>6, <1>7, AbsStutter
<1> QED BY <1>4, <1>6, <1>7, <1>8 DEF VStep

-----------------------------------------------------------------------------
(* Memory as the process uses it. *)

\* A page reads the same when its entry and its frame are the same.
LEMMA SamePage ==
    ASSUME MemInv(mem, free), NEW d \in Frames, mem[d].kind = "dir", NEW x \in Pages, NEW n, n[d] = mem[d],
           \A t \in Frames : Has(mem, d, x \div PTSIZE, t) =>
              n[t].pte[x % PTSIZE] = mem[t].pte[x % PTSIZE],
           \A f \in Frames : MapsTo(mem, d, x, f) => n[f] = mem[f]
    PROVE  EntryAt(n, d, x) = EntryAt(mem, d, x) /\ Alike(mem, d, n, d, x)
<1>i. PICK i : i = x \div PTSIZE
  OBVIOUS
<1>j. PICK j : j = x % PTSIZE
  OBVIOUS
<1>t. PICK t : t = mem[d].pde[i]
  OBVIOUS
<1>1. i \in Pdx /\ t \in Frames \cup {None}
  <2>1. i \in Pdx
    BY <1>i, PageSplit
  <2> QED BY <1>t, <2>1, FreeFacts, Kinds DEF Mems
<1>2. t \in Frames => n[t].pte[j] = mem[t].pte[j]
  BY <1>1, <1>i, <1>j, <1>t DEF Has
<1>3. EntryAt(n, d, x) = EntryAt(mem, d, x)
  BY <1>1, <1>2, <1>i, <1>j, <1>t DEF EntryAt
<1>4. On(mem, d, x) => n[EntryAt(mem, d, x).frame] = mem[EntryAt(mem, d, x).frame]
  BY EntryIn
<1> QED BY <1>3, <1>4 DEF Alike, On, Val

\* A step of a program that changes nothing it reads.
LEMMA QuietView ==
    ASSUME VInv, NEW p \in Procs, state[p] = "RUN", Within({pgdir[p]}), FlagInv(mem'), reg[p].pc = "user",
           UNCHANGED <<state, pgdir, sz, reg>>, stored' = None,
           \A x \in Pages : Alike(mem, pgdir[p], mem', pgdir[p], x)
    PROVE  VStep
<1>1. Will(p) = Was(p)
  BY ViewSame DEF Will, Was
<1>2. ReadInv(mem', state[p], pgdir[p], reg'[p])
  BY DEF ReadInv, Zeroed, Copied
<1>3. {pgdir[p]} \subseteq Own(p)
  BY DEF Own
<1> QED BY <1>1, <1>2, <1>3, LocalForget

\* The frame of page a is filled with b.
LEMMA ByteView ==
    ASSUME MemInv(mem, free), NEW d \in Frames, mem[d].kind = "dir", NEW a \in Pages, Mapped(d, a), NEW b \in Byte,
           mem' = [mem EXCEPT ![Pte(d, a).frame] = User(b)]
    PROVE  /\ Within({d}) /\ (FlagInv(mem) => FlagInv(mem'))
           /\ \A x \in Pages : EntryAt(mem', d, x) = EntryAt(mem, d, x)
           /\ \A x \in Pages : x # a => Alike(mem, d, mem', d, x)
           /\ Val(mem', d, a) = IF Pte(d, a).e THEN Flip(b) ELSE b
<1>f. PICK f : f = Pte(d, a).frame
  OBVIOUS
<1>1. f \in Frames /\ mem[f].kind = "user" /\ mem \in Mems /\ MapsTo(mem, d, a, f) /\ LinkInv(mem)
  BY <1>f, EntryOf, FreeFacts
<1>2. mem'[f] = User(b) /\ \A g \in Frames : g # f => mem'[g] = mem[g]
  BY <1>1, <1>f DEF Mems
<1>3. f \in Space(d)
  BY <1>1, SpaceOf
<1>4. Within({d})
  BY <1>2, <1>3 DEF Within, Only
<1>5. ASSUME FlagInv(mem) PROVE FlagInv(mem')
  <2>1. \A g \in Frames : mem'[g] = mem[g] \/ mem'[g].kind # "table"
    BY <1>2, Makes
  <2> QED BY <1>5, <2>1, FlagSame
<1>6. ASSUME NEW x \in Pages PROVE EntryAt(mem', d, x) = EntryAt(mem, d, x)
  <2>i. PICK i : i = x \div PTSIZE
    OBVIOUS
  <2>1. i \in Pdx
    BY <2>i, PageSplit
  <2>t. PICK t : t = mem[d].pde[i]
    OBVIOUS
  <2>2. t \in Frames \cup {None}
    BY <1>1, <2>1, <2>t, Kinds DEF Mems
  <2>3. t \in Frames => mem[t].kind = "table"
    <3>1. t \in Frames => Has(mem, d, i, t)
      BY <2>1, <2>t DEF Has
    <3> QED BY <1>1, <2>1, <3>1 DEF LinkInv
  <2>4. mem'[d] = mem[d] /\ (t \in Frames => mem'[t] = mem[t])
    BY <1>1, <1>2, <2>3
  <2> QED BY <2>2, <2>4, <2>i, <2>t, SMTT(60) DEF EntryAt
<1>7. ASSUME NEW x \in Pages, x # a PROVE Alike(mem, d, mem', d, x)
  <2>1. ASSUME NEW g \in Frames, MapsTo(mem, d, x, g) PROVE mem'[g] = mem[g]
    <3>1. g # f
      BY <1>1, <1>7, <2>1, OnePage
    <3> QED BY <1>2, <3>1
  <2>2. mem'[d] = mem[d]
    BY <1>1, <1>2
  <2>3. \A t \in Frames : Has(mem, d, x \div PTSIZE, t) => mem'[t] = mem[t]
    <3>1. \A t \in Frames : Has(mem, d, x \div PTSIZE, t) => mem[t].kind = "table"
      BY <1>1, PageSplit DEF LinkInv
    <3> QED BY <1>1, <1>2, <3>1
  <2> QED BY <2>1, <2>2, <2>3, SamePage
<1>8. Val(mem', d, a) = IF Pte(d, a).e THEN Flip(b) ELSE b
  <2>1. EntryAt(mem', d, a) = Pte(d, a)
    BY <1>6, PteNow
  <2> QED BY <1>2, <1>f, <2>1, Makes DEF Val
<1> QED BY <1>4, <1>5, <1>6, <1>7, <1>8

LEMMA SetByteView ==
    ASSUME VInv, NEW p \in Procs, Runs(p), NEW a \in Pages, NEW b \in Byte, Accessible(pgdir[p], a),
           ~Pte(pgdir[p], a).e, SetByte(p, a, b)
    PROVE  VStep
<1>0. MInv /\ FlagInv(mem)
  BY DEF VInv
<1>1. state[p] = "RUN" /\ reg[p] = Idle /\ Upto(mem, pgdir[p], PGROUNDUP(sz[p]))
  BY <1>0, RunsUpto
<1>d. PICK d : d = pgdir[p]
  OBVIOUS
<1>z. PICK z : z = sz[p]
  OBVIOUS
<1>e. PICK e : e = Pte(d, a)
  OBVIOUS
<1>y. PICK y : y = b
  OBVIOUS
<1>2. /\ mem' = [mem EXCEPT ![e.frame] = User(b)] /\ stored' = [proc |-> p, page |-> a, byte |-> y]
      /\ UNCHANGED <<state, pgdir, sz, reg>>
  BY <1>d, <1>e, <1>y DEF SetByte, ptable
<1>3. MemInv(mem, free) /\ d \in Frames /\ mem[d].kind = "dir" /\ z \in Nat /\ Upto(mem, d, PGROUNDUP(z))
  BY <1>0, <1>1, <1>d, <1>z, Mine
<1>4. On(mem, d, a) /\ Mapped(d, a) /\ y \in Byte
  <2>1. e \in Entries /\ Accessible(d, a)
    BY <1>3, <1>d, <1>e, EntryOf
  <2>2. Mapped(d, a)
    BY <1>e, <2>1 DEF Accessible, Mapped, Entries
  <2> QED BY <1>y, <2>1, <2>2, PteNow
<1>5. a * PGSIZE < z
  <2>1. InSpace(mem, d, a)
    BY <1>3, <1>4, EntryOf
  <2>2. a < PGROUNDUP(z) /\ a \in Nat
    BY <1>3, <2>1, Sizes DEF Upto, Pages
  <2> QED BY <1>3, <2>2, RoundUp
<1>6. /\ Within({d}) /\ FlagInv(mem')
      /\ \A x \in Pages : EntryAt(mem', d, x) = EntryAt(mem, d, x)
      /\ \A x \in Pages : x # a => Alike(mem, d, mem', d, x)
      /\ Val(mem', d, a) = y
  BY <1>0, <1>2, <1>3, <1>4, <1>d, <1>e, <1>y, ByteView
<1>7. PagesOf(mem', d, z) = PagesOf(mem, d, z)
  BY <1>6 DEF PagesOf, On
<1> DEFINE S == PagesOf(mem, d, z)
           f == [x \in S |-> Val(mem, d, x)]
           g == [x \in S |-> Val(mem', d, x)]
<1>8. a \in S
  BY <1>4, <1>5 DEF PagesOf
<1>9. \A x \in S : x # a => Val(mem', d, x) = Val(mem, d, x)
  BY <1>6 DEF PagesOf, Alike
<1>10. g = [f EXCEPT ![a] = y]
  BY <1>6, <1>8, <1>9
<1>11. Was(p) = [root |-> d, page |-> f] /\ Will(p) = [root |-> d, page |-> g]
  BY <1>1, <1>2, <1>7, <1>d, <1>z DEF Was, Will, ViewOf
<1>12. DOMAIN f = S
  OBVIOUS
<1> HIDE DEF f, g, S
<1>13. Will(p) = [Was(p) EXCEPT !.page[a] = y] /\ a \in DOMAIN Was(p).page
  BY <1>8, <1>10, <1>11, <1>12
<1>14. \A q \in Procs : q # p => Will(q) = Was(q) /\ ReadInv(mem', state'[q], pgdir'[q], reg'[q])
  <2>1. {d} \subseteq Own(p)
    BY <1>d DEF Own
  <2> QED BY <1>1, <1>2, <1>6, <2>1, Neighbours
<1>15. Was(p) # None
  BY <1>0, <1>1, WasOne
<1>16. A!ANext
  BY <1>2, <1>4, <1>13, <1>14, <1>15, AbsStore
<1>17. ReadInv(mem', state'[p], pgdir'[p], reg'[p])
  BY <1>1, <1>2, IdleRead
<1> QED BY <1>6, <1>14, <1>16, <1>17 DEF VStep

LEMMA StoreView ==
    ASSUME VInv, NEW p \in Procs, NEW a \in Written, NEW b \in Stored, Store(p, a, b)
    PROVE  VStep
<1>0. MInv /\ FlagInv(mem)
  BY DEF VInv
<1>1. a \in Pages /\ b \in Byte /\ Runs(p) /\ SetByte(p, a, b) /\ Pte(pgdir[p], a).p /\ Pte(pgdir[p], a).u
  BY SizeAssumption DEF Store
<1>2. state[p] = "RUN"
  BY <1>1 DEF Runs, At
<1>3. MemInv(mem, free) /\ pgdir[p] \in Frames /\ mem[pgdir[p]].kind = "dir"
  BY <1>0, <1>2, Mine
<1>4. Pte(pgdir[p], a) \in Entries /\ ~(Pte(pgdir[p], a).p /\ Pte(pgdir[p], a).e)
  BY <1>0, <1>1, <1>3, EntryIn, PteNow
<1>5. Accessible(pgdir[p], a) /\ ~Pte(pgdir[p], a).e
  BY <1>1, <1>4 DEF Accessible, Entries
<1> QED BY <1>1, <1>5, SetByteView

LEMMA DumpView ==
    ASSUME VInv, NEW p \in Procs, NEW f \in Frames, NEW a \in Written, dump_rawphymem(p, f, a), ~EncryptedDumps
    PROVE  VStep
<1>1. PICK b \in Byte : SetByte(p, a, b)
  BY DEF dump_rawphymem
<1>2. Runs(p) /\ Accessible(pgdir[p], a) /\ a \in Pages /\ ~Pte(pgdir[p], a).e
  BY SizeAssumption DEF dump_rawphymem
<1> QED BY <1>1, <1>2, SetByteView

LEMMA Flips ==
    /\ \A b \in Byte : Flip(Flip(b)) = b
    /\ \A x \in Entries : /\ ~FlipEntry(x).p /\ FlipEntry(x).e /\ FlipEntry(x).u = x.u
                          /\ ClearEntry(x).p /\ ~ClearEntry(x).e /\ ClearEntry(x).u = x.u
<1>1. \A b \in Byte : Flip(Flip(b)) = b
  BY SizeAssumption DEF Flip, Byte
<1>2. ASSUME NEW x \in Entries
      PROVE  /\ ~FlipEntry(x).p /\ FlipEntry(x).e /\ FlipEntry(x).u = x.u
             /\ ClearEntry(x).p /\ ~ClearEntry(x).e /\ ClearEntry(x).u = x.u
  BY DEF Entries, FlipEntry, ClearEntry
<1> QED BY <1>1, <1>2

LEMMA DecryptView ==
    ASSUME VInv, NEW p \in Procs, NEW a \in Pages, decrypt(p, a), stored' = None
    PROVE  VStep
<1>0. MInv /\ FlagInv(mem)
  BY DEF VInv
<1>e. PICK e : e = Pte(pgdir[p], a)
  OBVIOUS
<1>d. PICK d : d = pgdir[p]
  OBVIOUS
<1>1. /\ state[p] = "RUN" /\ reg[p].pc = "user" /\ e.e
      /\ mem' = SetPte([mem EXCEPT ![e.frame] = User(Flip(mem[e.frame].byte))], d, a, ClearEntry(e))
      /\ UNCHANGED <<state, pgdir, sz, reg>>
  BY <1>e, <1>d DEF decrypt, At, ClearEntry, ptable
<1>2. MemInv(mem, free) /\ d \in Frames /\ mem[d].kind = "dir"
  BY <1>0, <1>1, <1>d, Mine
<1>3. mem \in Mems /\ LinkInv(mem)
  BY <1>2, FreeFacts
<1>4. Mapped(d, a) /\ e = Pte(d, a) /\ e \in Entries
  BY <1>1, <1>2, <1>d, <1>e, EntryOf DEF Mapped
<1>5. e.frame \in Frames /\ mem[e.frame].kind = "user" /\ MapsTo(mem, d, a, e.frame)
  BY <1>2, <1>4, EntryOf
<1>i. PICK i : i = a \div PTSIZE
  OBVIOUS
<1>j. PICK j : j = a % PTSIZE
  OBVIOUS
<1>6. PICK t \in Frames : Has(mem, d, i, t) /\ Holds(mem, t, j, e.frame)
  BY <1>5, <1>i, <1>j DEF MapsTo
<1>7. mem[d].pde[i] = t /\ mem[t].kind = "table" /\ i \in Pdx /\ j \in Ptx
  BY <1>6 DEF Has, Holds
<1>b. PICK b : b = Flip(mem[e.frame].byte)
  OBVIOUS
<1>8. b \in Byte /\ mem[e.frame].byte \in Byte
  <2>1. mem[e.frame] \in Contents
    BY <1>3, <1>5 DEF Mems
  <2> QED BY <1>5, <1>b, <2>1, Kinds, FlipByte
<1>l. PICK l : l = Fill(mem, e.frame, User(b))
  OBVIOUS
<1>9. l \in Mems /\ l[e.frame] = User(b) /\ \A f \in Frames : f # e.frame => l[f] = mem[f]
  <2>f. PICK f : f = e.frame
    OBVIOUS
  <2>y. PICK y : y = User(b)
    OBVIOUS
  <2>1. mem \in Mems /\ f \in Frames /\ y \in Contents /\ l = Fill(mem, f, y)
    BY <1>3, <1>5, <1>8, <1>l, <2>f, <2>y, Makes
  <2>2. l \in Mems /\ l[f] = y /\ \A g \in Frames : g # f => l[g] = mem[g]
    BY ONLY <2>1, FillFacts
  <2> QED BY <2>2, <2>f, <2>y
<1>10. l[d] = mem[d] /\ l[t] = mem[t] /\ t # e.frame /\ d # e.frame /\ d # t
  BY <1>2, <1>5, <1>7, <1>9
<1>11. mem' = PutPte(l, t, j, ClearEntry(e))
  BY <1>1, <1>b, <1>i, <1>j, <1>l, <1>7, <1>10 DEF SetPte, PutPte, Fill
<1>12. /\ \A f \in Frames : f # t => mem'[f] = l[f]
       /\ mem'[t].kind = "table" /\ \A k \in Ptx : mem'[t].pte[k] = IF k = j THEN ClearEntry(e) ELSE mem[t].pte[k]
  <2>1. ClearEntry(e) \in Entries
    BY <1>4, FlagFacts
  <2> QED BY <1>7, <1>9, <1>10, <1>11, <2>1, PteFacts
<1>13. /\ mem'[e.frame] = User(b) /\ mem'[d] = mem[d]
       /\ \A f \in Frames : f \notin {t, e.frame} => mem'[f] = mem[f]
  BY <1>2, <1>5, <1>9, <1>10, <1>12
<1>14. Within({d})
  <2>1. t \in Space(d) /\ e.frame \in Space(d)
    BY <1>2, <1>5, <1>6, <1>7, SpaceOf
  <2> QED BY <1>2, <1>13, <2>1 DEF Within, Only
<1>15. FlagInv(mem')
  <2> SUFFICES ASSUME NEW y \in Frames, NEW k \in Ptx, mem'[y].kind = "table"
               PROVE  ~(mem'[y].pte[k].p /\ mem'[y].pte[k].e)
    BY DEF FlagInv
  <2>1. CASE y = t /\ k = j
    <3>1. ~ClearEntry(e).e
      BY <1>4, Flips
    <3> QED BY <1>12, <2>1, <3>1
  <2>2. CASE y = t /\ k # j
    BY <1>0, <1>7, <1>12, <2>2 DEF FlagInv
  <2>3. CASE y # t
    <3>1. mem'[y] = mem[y]
      BY <1>13, <2>3, Makes, <1>8
    <3> QED BY <1>0, <3>1 DEF FlagInv
  <2> QED BY <2>1, <2>2, <2>3
<1>16. ASSUME NEW x \in Pages, x # a PROVE Alike(mem, d, mem', d, x)
  <2>k. PICK k : k = x \div PTSIZE
    OBVIOUS
  <2>m. PICK m : m = x % PTSIZE
    OBVIOUS
  <2>1. k \in Pdx /\ m \in Ptx /\ (k = i => m # j)
    BY <1>16, <1>i, <1>j, <2>k, <2>m, PageSplit, OtherPage
  <2>2. ASSUME NEW u \in Frames, Has(mem, d, k, u) PROVE mem'[u].pte[m] = mem[u].pte[m]
    <3>1. CASE u = t
      <4>1. k = i
        BY <1>2, <1>3, <1>6, <1>7, <2>1, <2>2, <3>1 DEF LinkInv
      <4> QED BY <1>12, <2>1, <3>1, <4>1
    <3>2. CASE u # t
      <4>1. u # e.frame
        BY <1>2, <1>3, <1>5, <2>1, <2>2 DEF LinkInv
      <4> QED BY <1>13, <3>2, <4>1
    <3> QED BY <3>1, <3>2
  <2>3. ASSUME NEW f \in Frames, MapsTo(mem, d, x, f) PROVE mem'[f] = mem[f]
    <3>1. f # e.frame
      BY <1>2, <1>3, <1>5, <1>16, <2>3, OnePage
    <3>2. mem[f].kind = "user"
      BY <1>2, <2>3, EntryOf
    <3> QED BY <1>7, <1>13, <3>1, <3>2
  <2> QED BY <1>2, <1>13, <2>2, <2>3, <2>k, <2>m, SamePage
<1>17. Alike(mem, d, mem', d, a)
  <2>1. EntryAt(mem, d, a) = e
    BY <1>4, PteNow
  <2>2. EntryAt(mem', d, a) = ClearEntry(e)
    BY <1>7, <1>12, <1>13, <1>i, <1>j, NoneAssumption DEF EntryAt
  <2>3. ~e.p
    BY <1>0, <1>1, <1>2, <2>1, EntryIn
  <2>4. ClearEntry(e).p /\ ~ClearEntry(e).e /\ ClearEntry(e).u = e.u /\ ClearEntry(e).frame = e.frame
    BY <1>4, Flips, FlagFacts
  <2>5. e.u \in BOOLEAN /\ e.p \in BOOLEAN /\ e.e \in BOOLEAN
    BY <1>4 DEF Entries
  <2>6. (On(mem, d, a) <=> e.u) /\ (On(mem', d, a) <=> e.u)
    BY <1>1, <2>1, <2>2, <2>3, <2>4, <2>5 DEF On
  <2>7. Val(mem, d, a) = b
    BY <1>1, <1>b, <2>1 DEF Val
  <2>8. Val(mem', d, a) = b
    BY <1>8, <1>13, <2>2, <2>4, Makes DEF Val
  <2> QED BY <2>6, <2>7, <2>8 DEF Alike
<1> QED BY <1>1, <1>14, <1>15, <1>16, <1>17, <1>d, QuietView

\* The entries of a table after mencrypt.
LEMMA FlaggedEntries ==
    ASSUME NEW t \in Frames, mem[t] \in Contents, mem[t].kind = "table", NEW X
    PROVE  /\ Flagged(t, X).kind = "table"
           /\ \A j \in Ptx : Flagged(t, X).pte[j] =
                 IF mem[t].pte[j].frame \in X THEN FlipEntry(mem[t].pte[j]) ELSE mem[t].pte[j]
<1> DEFINE x == mem[t].pte
           y == [j \in Ptx |-> IF x[j].frame \in X THEN FlipEntry(x[j]) ELSE x[j]]
<1>1. mem[t] = TableOf(x)
  BY Kinds
<1>2. Flagged(t, X) = TableOf(y)
  <2>1. Flagged(t, X) = [mem[t] EXCEPT !.pte = y]
    BY DEF Flagged, Ptx, FlipEntry
  <2>2. \A z : [TableOf(x) EXCEPT !.pte = z] = TableOf(z)
    BY DEF TableOf
  <2> HIDE DEF y
  <2> QED BY <1>1, <2>1, <2>2
<1>3. \A j \in Ptx : y[j] = IF x[j].frame \in X THEN FlipEntry(x[j]) ELSE x[j]
  OBVIOUS
<1>4. TableOf(y).kind = "table" /\ TableOf(y).pte = y
  <2> HIDE DEF y
  <2> QED BY DEF TableOf
<1> QED BY <1>2, <1>3, <1>4

LEMMA MencryptView ==
    ASSUME VInv, NEW p \in Procs, NEW a \in Written, NEW n \in 1..NPAGES, mencrypt(p, a, n), stored' = None
    PROVE  VStep
<1> DEFINE d == pgdir[p]
           S == {b \in a..(a + n - 1) : ~Pte(d, b).e}
           X == FramesOf(d, S)
<1>1. /\ state[p] = "RUN" /\ reg[p].pc = "user" /\ UNCHANGED <<state, pgdir, sz, reg>>
      /\ \A b \in a..(a + n - 1) : b \in Pages /\ Accessible(d, b)
  BY DEF mencrypt, Runs, At, ptable
<1>0. mem' = [f \in Frames |->
            CASE f \in X -> User(Flip(mem[f].byte))
              [] f \in TablesOf(d) -> Flagged(f, X)
              [] OTHER -> mem[f]]
  BY DEF mencrypt, Flagged
<1>d. d = pgdir[p] /\ S = {b \in a..(a + n - 1) : ~Pte(d, b).e} /\ X = FramesOf(d, S)
  OBVIOUS
<1> HIDE DEF d, S, X
<1>v. MInv /\ FlagInv(mem)
  BY DEF VInv
<1>2. MemInv(mem, free) /\ d \in Frames /\ mem[d].kind = "dir"
  BY <1>1, <1>d, <1>v, Mine
<1>3. mem \in Mems /\ EntryInv(mem) /\ LinkInv(mem)
  BY <1>2, FreeFacts
<1>4. \A b \in S : b \in Pages /\ Accessible(d, b) /\ ~Pte(d, b).e /\ Mapped(d, b)
  <2> SUFFICES ASSUME NEW b \in S PROVE b \in Pages /\ Accessible(d, b) /\ ~Pte(d, b).e /\ Mapped(d, b)
    OBVIOUS
  <2>1. b \in Pages /\ Accessible(d, b) /\ ~Pte(d, b).e
    BY <1>1, <1>d
  <2>2. Pte(d, b) \in Entries
    BY <1>2, <2>1, EntryOf
  <2> QED BY <2>1, <2>2 DEF Accessible, Mapped, Entries
<1>5. \A f \in X : f \in Frames /\ mem[f].kind = "user" /\ \E b \in S : MapsTo(mem, d, b, f)
  <2> SUFFICES ASSUME NEW f \in X
               PROVE  f \in Frames /\ mem[f].kind = "user" /\ \E b \in S : MapsTo(mem, d, b, f)
    OBVIOUS
  <2>1. PICK b \in S : f = Pte(d, b).frame
    BY <1>d DEF FramesOf
  <2> QED BY <1>2, <1>4, <2>1, EntryOf
<1>6. \A f \in Frames : f \in TablesOf(d) <=> \E i \in Pdx : Has(mem, d, i, f)
  <2>1. mem[d].pde \in [Pdx -> Frames \cup {None}] /\ DOMAIN mem[d].pde = Pdx
    BY <1>2, <1>3, Kinds DEF Mems
  <2> QED BY <1>2, <2>1, NoneAssumption DEF TablesOf, Has
<1>7. \A f \in Frames : f \in TablesOf(d) => mem[f].kind = "table"
  BY <1>2, <1>3, <1>6 DEF LinkInv
<1>8. /\ \A f \in X : mem'[f] = User(Flip(mem[f].byte))
      /\ \A f \in Frames : f \in TablesOf(d) => mem'[f] = Flagged(f, X)
      /\ \A f \in Frames : f \notin X /\ f \notin TablesOf(d) => mem'[f] = mem[f]
  BY <1>0, <1>5, <1>7
<1>9. \A t \in Frames : t \in TablesOf(d) =>
        /\ mem'[t].kind = "table"
        /\ \A j \in Ptx : mem'[t].pte[j] = IF mem[t].pte[j].frame \in X THEN FlipEntry(mem[t].pte[j]) ELSE mem[t].pte[j]
  BY <1>3, <1>7, <1>8, FlaggedEntries DEF Mems
<1>10. Within({d})
  <2>1. ASSUME NEW f \in Frames, mem'[f] # mem[f] PROVE f \in Space(d)
    <3>1. f \in X \/ f \in TablesOf(d)
      BY <1>8, <2>1
    <3>2. CASE f \in X
      BY <1>2, <1>4, <1>5, <3>2, SpaceOf
    <3>3. CASE f \in TablesOf(d)
      BY <1>2, <1>6, <3>3, SpaceOf
    <3> QED BY <3>1, <3>2, <3>3
  <2> QED BY <1>2, <2>1 DEF Within, Only
<1>11. FlagInv(mem')
  <2> SUFFICES ASSUME NEW t \in Frames, NEW j \in Ptx, mem'[t].kind = "table"
               PROVE  ~(mem'[t].pte[j].p /\ mem'[t].pte[j].e)
    BY DEF FlagInv
  <2>1. CASE t \in TablesOf(d)
    <3>1. mem[t].pte[j] \in Entries /\ ~(mem[t].pte[j].p /\ mem[t].pte[j].e)
      BY <1>3, <1>7, <1>v, <2>1, Kinds DEF Mems, FlagInv
    <3>2. ~FlipEntry(mem[t].pte[j]).p
      BY <3>1, Flips
    <3> QED BY <1>9, <2>1, <3>1, <3>2
  <2>2. CASE t \in X
    <3>y. PICK y : y = Flip(mem[t].byte)
      OBVIOUS
    <3>1. mem'[t] = User(y)
      BY <1>8, <2>2, <3>y
    <3>2. User(y).kind = "user"
      BY DEF User
    <3> QED BY <3>1, <3>2
  <2>3. CASE t \notin X /\ t \notin TablesOf(d)
    BY <1>8, <1>v, <2>3 DEF FlagInv
  <2> QED BY <2>1, <2>2, <2>3
<1>12. mem'[d] = mem[d]
  BY <1>2, <1>5, <1>7, <1>8
<1>13. ASSUME NEW x \in Pages, x \notin S PROVE Alike(mem, d, mem', d, x)
  <2>k. PICK k : k = x \div PTSIZE
    OBVIOUS
  <2>m. PICK m : m = x % PTSIZE
    OBVIOUS
  <2>1. k \in Pdx /\ m \in Ptx
    BY <2>k, <2>m, PageSplit
  <2>2. ASSUME NEW f \in Frames, MapsTo(mem, d, x, f) PROVE f \notin X
    <3> SUFFICES ASSUME f \in X PROVE FALSE
      OBVIOUS
    <3>1. PICK b \in S : MapsTo(mem, d, b, f)
      BY <1>5
    <3> QED BY <1>2, <1>3, <1>4, <1>13, <2>2, <3>1, OnePage
  <2>3. ASSUME NEW u \in Frames, Has(mem, d, k, u) PROVE mem'[u].pte[m] = mem[u].pte[m]
    <3>1. u \in TablesOf(d) /\ mem[u].kind = "table"
      BY <1>6, <1>7, <2>1, <2>3
    <3>2. ASSUME mem[u].pte[m].frame \in X PROVE FALSE
      <4>g. PICK g : g = mem[u].pte[m].frame
        OBVIOUS
      <4>1. g \in Frames /\ g \in X
        BY <1>5, <3>2, <4>g
      <4>2. Holds(mem, u, m, g)
        BY <1>3, <2>1, <3>1, <4>1, <4>g DEF Holds, EntryInv
      <4>3. MapsTo(mem, d, x, g)
        BY <2>3, <2>k, <2>m, <4>2 DEF MapsTo
      <4> QED BY <2>2, <4>1, <4>3
    <3> QED BY <1>9, <2>1, <3>1, <3>2
  <2>4. ASSUME NEW f \in Frames, MapsTo(mem, d, x, f) PROVE mem'[f] = mem[f]
    <3>1. mem[f].kind = "user"
      BY <1>2, <2>4, EntryOf
    <3> QED BY <1>7, <1>8, <2>2, <2>4, <3>1
  <2> QED BY <1>2, <1>12, <2>3, <2>4, <2>k, <2>m, SamePage
<1>14. ASSUME NEW x \in S PROVE Alike(mem, d, mem', d, x)
  <2>1. x \in Pages /\ Accessible(d, x) /\ ~Pte(d, x).e /\ Mapped(d, x)
    BY <1>4
  <2>e. PICK e : e = Pte(d, x)
    OBVIOUS
  <2>f. PICK f : f = e.frame
    OBVIOUS
  <2>2. e \in Entries /\ f \in Frames /\ MapsTo(mem, d, x, f) /\ f \in X /\ e.p /\ ~e.e /\ mem[f].kind = "user"
    <3>1. f \in X
      BY <1>d, <2>e, <2>f DEF FramesOf
    <3>2. e.p
      BY <2>1, <2>e DEF Mapped
    <3> QED BY <1>2, <2>1, <2>e, <2>f, <3>1, <3>2, EntryOf
  <2>k. PICK k : k = x \div PTSIZE
    OBVIOUS
  <2>m. PICK m : m = x % PTSIZE
    OBVIOUS
  <2>3. PICK t \in Frames : Has(mem, d, k, t) /\ Holds(mem, t, m, f)
    BY <2>2, <2>k, <2>m DEF MapsTo
  <2>4. mem[d].pde[k] = t /\ k \in Pdx /\ m \in Ptx /\ t \in TablesOf(d)
    BY <1>6, <2>3 DEF Has, Holds
  <2>5. EntryAt(mem, d, x) = e /\ mem[t].pte[m] = e
    <3>1. EntryAt(mem, d, x) = e
      BY <2>1, <2>e, PteNow
    <3>2. EntryAt(mem, d, x) = mem[t].pte[m]
      BY <2>4, <2>k, <2>m, NoneAssumption DEF EntryAt
    <3> QED BY <3>1, <3>2
  <2>6. EntryAt(mem', d, x) = FlipEntry(e)
    <3>1. mem'[t].pte[m] = FlipEntry(e)
      BY <1>9, <2>2, <2>4, <2>5, <2>f
    <3> QED BY <1>12, <2>4, <2>k, <2>m, <3>1, NoneAssumption DEF EntryAt
  <2>7. ~FlipEntry(e).p /\ FlipEntry(e).e /\ FlipEntry(e).u = e.u /\ FlipEntry(e).frame = f
    BY <2>2, <2>f, Flips, FlagFacts
  <2>8. e.u \in BOOLEAN /\ e.p \in BOOLEAN /\ e.e \in BOOLEAN
    BY <2>2 DEF Entries
  <2>9. (On(mem, d, x) <=> e.u) /\ (On(mem', d, x) <=> e.u)
    BY <2>2, <2>5, <2>6, <2>7, <2>8 DEF On
  <2>10. mem[f].byte \in Byte
    BY <1>3, <2>2, Kinds DEF Mems
  <2>11. Val(mem, d, x) = mem[f].byte
    BY <2>2, <2>5, <2>f DEF Val
  <2>12. Val(mem', d, x) = Flip(mem'[f].byte)
    BY <2>6, <2>7 DEF Val
  <2>13. mem'[f].byte = Flip(mem[f].byte)
    BY <1>8, <2>2, <2>10, FlipByte, Makes
  <2>14. Flip(mem'[f].byte) = mem[f].byte
    BY <2>10, <2>13, Flips
  <2> QED BY <2>9, <2>11, <2>12, <2>14 DEF Alike
<1> QED BY <1>1, <1>10, <1>11, <1>13, <1>14, <1>d, QuietView

-----------------------------------------------------------------------------
(* exec succeeds, and every step. *)

LEMMA CommitView ==
    ASSUME VInv, NEW p \in Procs, At(p, "stack"), AllDone(p), NEW d, d = reg[p].d,
           NEW top, top = reg[p].end \div PGSIZE - 1, NEW b \in Byte,
           NEW g, g = SetPte(mem, d, top - 1, Unuser(Pte(d, top - 1))),
           NEW n, n = [g EXCEPT ![Pte(d, top).frame] = User(b)],
           mem' = Junked(n, Space(pgdir[p])), pgdir' = [pgdir EXCEPT ![p] = d],
           reg' = [reg EXCEPT ![p] = Idle], sz' = [sz EXCEPT ![p] = reg[p].end],
           UNCHANGED state, MInv', stored' = None
    PROVE  VStep
<1>0. MInv /\ FlagInv(mem)
  BY DEF VInv
<1>1. state[p] = "RUN" /\ reg[p].pc = "stack"
  BY DEF At
<1>D. PICK D : D = pgdir[p]
  OBVIOUS
<1>2. MemInv(mem, free) /\ d \in Frames /\ mem[d].kind = "dir" /\ D \in Frames /\ mem[D].kind = "dir"
  BY <1>0, <1>1, <1>D, Mine
<1>3. mem \in Mems /\ LinkInv(mem)
  BY <1>2, FreeFacts
<1>a. PICK a : a = top - 1
  OBVIOUS
<1>4. top \in Pages /\ a \in Pages /\ Mapped(d, top) /\ Mapped(d, a)
  BY <1>0, <1>a, StackPages
<1>e. PICK e : e = Pte(d, a)
  OBVIOUS
<1>5. e \in Entries /\ e.frame \in Frames /\ MapsTo(mem, d, a, e.frame)
  BY <1>2, <1>4, <1>e, EntryOf
<1>i. PICK i : i = a \div PTSIZE
  OBVIOUS
<1>j. PICK j : j = a % PTSIZE
  OBVIOUS
<1>6. PICK t \in Frames : Has(mem, d, i, t) /\ Holds(mem, t, j, e.frame)
  BY <1>5, <1>i, <1>j DEF MapsTo
<1>7. mem[d].pde[i] = t /\ mem[t].kind = "table" /\ i \in Pdx /\ j \in Ptx /\ mem[t].pte[j] = e
  <2>1. mem[d].pde[i] = t /\ mem[t].kind = "table" /\ i \in Pdx /\ j \in Ptx
    BY <1>6 DEF Has, Holds
  <2>2. Pte(d, a) = mem[t].pte[j]
    BY <1>i, <1>j, <2>1, NoneAssumption DEF Pte
  <2> QED BY <1>e, <2>1, <2>2
<1>y. PICK y : y = Unuser(e)
  OBVIOUS
<1>8. y \in Entries /\ y.p = e.p /\ y.e = e.e
  BY <1>5, <1>y DEF Unuser, Entries
<1>9. /\ g \in Mems /\ g[t].kind = "table" /\ \A f \in Frames : f # t => g[f] = mem[f]
      /\ \A k \in Ptx : g[t].pte[k] = IF k = j THEN y ELSE mem[t].pte[k]
  <2>1. g = PutPte(mem, t, j, y)
    BY <1>7, <1>a, <1>e, <1>i, <1>j, <1>y DEF SetPte, PutPte
  <2> QED BY ONLY <1>3, <1>7, <1>8, <2>1, t \in Frames, PteFacts
<1>h. PICK h : h = Pte(d, top).frame
  OBVIOUS
<1>10. h \in Frames /\ mem[h].kind = "user" /\ MapsTo(mem, d, top, h)
  BY <1>2, <1>4, <1>h, EntryOf
<1>11. n \in Mems /\ n[h] = User(b) /\ \A f \in Frames : f # h => n[f] = g[f]
  <2>z. PICK z : z = User(b)
    OBVIOUS
  <2>1. n = Fill(g, h, z) /\ z \in Contents
    BY <1>h, <2>z, Makes DEF Fill
  <2>2. n \in Mems /\ n[h] = z /\ \A f \in Frames : f # h => n[f] = g[f]
    BY ONLY <1>9, <1>10, <2>1, FillFacts
  <2> QED BY <2>2, <2>z
<1>12. \A f \in Frames : mem'[f] = IF f \in Space(D) THEN Junk ELSE n[f]
  <2>X. PICK X : X = Space(D)
    OBVIOUS
  <2>1. mem' = Junked(n, X)
    BY <1>D, <2>X
  <2>2. \A f \in Frames : mem'[f] = IF f \in X THEN Junk ELSE n[f]
    BY ONLY <2>1 DEF Junked
  <2> QED BY ONLY <2>X, <2>2
<1>13. Within({D, d})
  <2>1. t \in Space(d) /\ h \in Space(d)
    BY <1>2, <1>4, <1>6, <1>7, <1>10, SpaceOf
  <2>2. \A f \in Frames : mem'[f] = mem[f] \/ f \in Space(D) \/ f \in Space(d)
    BY ONLY <1>9, <1>11, <1>12, <2>1, ZenonT(120)
  <2> QED BY <1>2, <2>2 DEF Within, Only
<1>14. FlagInv(mem')
  <2> SUFFICES ASSUME NEW f \in Frames, NEW k \in Ptx, mem'[f].kind = "table"
               PROVE  ~(mem'[f].pte[k].p /\ mem'[f].pte[k].e)
    BY DEF FlagInv
  <2>1. mem'[f] = n[f]
    BY <1>12, Makes
  <2>2. n[f] = g[f]
    <3>1. User(b).kind = "user"
      BY Makes
    <3>2. f # h
      BY ONLY <1>11, <2>1, <3>1, mem'[f].kind = "table", Zenon
    <3> QED BY ONLY <1>11, <3>2, f \in Frames, Zenon
  <2>F. FlagInv(mem)
    BY <1>0
  <2>G. \A u \in Frames, l \in Ptx :
            mem[u].kind = "table" => ~(mem[u].pte[l].p /\ mem[u].pte[l].e)
    BY ONLY <2>F DEF FlagInv
  <2>3. CASE f = t /\ k = j
    <3>0. mem[t].pte[j] = e /\ mem[t].kind = "table" /\ j \in Ptx
      BY <1>7
    <3>a. ~(mem[t].pte[j].p /\ mem[t].pte[j].e)
      BY ONLY <2>G, <3>0, t \in Frames, Zenon
    <3>1. y.p = mem[t].pte[j].p /\ y.e = mem[t].pte[j].e
      BY <1>8, <3>0
    <3>2. g[t].pte[j] = y
      BY <1>9, <3>0
    <3>3. mem'[f].pte[k] = y
      BY ONLY <2>1, <2>2, <2>3, <3>2
    <3> QED BY ONLY <3>a, <3>1, <3>3
  <2>4. CASE f = t /\ k # j
    <3>1. g[t].pte[k] = mem[t].pte[k]
      BY <1>9, <2>4
    <3> QED BY ONLY <1>7, <2>1, <2>2, <2>4, <2>G, <3>1, f \in Frames, k \in Ptx
  <2>5. CASE f # t
    <3>1. g[f] = mem[f]
      BY <1>9, <2>5
    <3> QED BY ONLY <2>1, <2>2, <2>G, <3>1, f \in Frames, k \in Ptx, mem'[f].kind = "table"
  <2> QED BY <2>3, <2>4, <2>5
<1>15. /\ pgdir'[p] = d /\ state'[p] = "RUN"
       /\ \A q \in Procs : q # p => pgdir'[q] = pgdir[q] /\ sz'[q] = sz[q] /\ state'[q] = state[q]
  BY <1>0, <1>1 DEF MInv, TableInv
<1>16. reg'[p] = Idle /\ \A q \in Procs : q # p => reg'[q] = reg[q]
  BY <1>0, IdleReg, SetReg
<1>17. \A q \in Procs : q # p => Will(q) = Was(q) /\ ReadInv(mem', state'[q], pgdir'[q], reg'[q])
  <2>1. {D, d} \subseteq Own(p)
    BY <1>D DEF Own
  <2> QED BY <1>1, <1>13, <1>15, <1>16, <2>1, Neighbours
<1>18. Will(p) \in AllSpaces
  BY <1>15, WillBe
<1>19. Will(p).root = d
  BY <1>15 DEF Will, ViewOf
<1>20. \A q \in Procs : Was(q) # None => Was(q).root # Will(p).root
  BY <1>0, <1>1, <1>19, FreshRoot
<1>21. Was(p) # None
  BY <1>0, <1>1, WasOne
<1>22. A!ANext
  BY <1>17, <1>18, <1>20, <1>21, AbsExec
<1>23. ReadInv(mem', state'[p], pgdir'[p], reg'[p])
  BY <1>16, IdleRead
<1> QED BY <1>14, <1>17, <1>22, <1>23 DEF VStep

LEMMA ExecCommitView ==
    ASSUME VInv, NEW p \in Procs, ExecCommit(p), stored' = None
    PROVE  VStep
<1>0. MInv
  BY DEF VInv
<1>m. MInv'
  BY <1>0, CommitInv
<1>d. PICK d : d = reg[p].d
  OBVIOUS
<1>t. PICK top : top = reg[p].end \div PGSIZE - 1
  OBVIOUS
<1>g. PICK g : g = SetPte(mem, d, top - 1, Unuser(Pte(d, top - 1)))
  OBVIOUS
<1>1. At(p, "stack") /\ AllDone(p)
  BY DEF ExecCommit
<1>2. CASE ExecBad(p)
  BY <1>1, <1>2, FailView DEF ExecBad
<1>3. CASE ~ExecBad(p)
  <2>1. /\ \E b \in Byte : mem' = Junked([g EXCEPT ![Pte(d, top).frame] = User(b)], Space(pgdir[p]))
        /\ pgdir' = [pgdir EXCEPT ![p] = d] /\ sz' = [sz EXCEPT ![p] = reg[p].end]
        /\ reg' = [reg EXCEPT ![p] = Idle] /\ UNCHANGED state
    BY <1>3, <1>d, <1>t, <1>g DEF ExecCommit, Freed, Return, Unuser
  <2>2. PICK b \in Byte : mem' = Junked([g EXCEPT ![Pte(d, top).frame] = User(b)], Space(pgdir[p]))
    BY <2>1
  <2>n. PICK n : n = [g EXCEPT ![Pte(d, top).frame] = User(b)]
    OBVIOUS
  <2>3. VInv /\ p \in Procs /\ b \in Byte /\ stored' = None /\ mem' = Junked(n, Space(pgdir[p]))
    BY <2>2, <2>n
  <2> QED BY ONLY <1>1, <1>d, <1>t, <1>g, <1>m, <2>1, <2>n, <2>3, CommitView
<1> QED BY <1>2, <1>3

LEMMA KvmView ==
    ASSUME VInv, NEW p \in Procs, KvmDir(p) \/ KvmTable(p), stored' = None
    PROVE  VStep
<1>0. MInv
  BY DEF VInv
<1>1. CASE KvmDir(p) /\ free = {}
  <2>1. At(p, "kvmdir") /\ Bad(p, {})
    BY <1>1 DEF KvmDir
  <2>2. state[p] = "RUN" /\ reg[p].pc = "kvmdir"
    BY <2>1 DEF At
  <2>3. reg[p].d = None
    BY <1>0, <2>2, Mine DEF CallInv
  <2>f. PICK F : F = {}
    OBVIOUS
  <2>4. F = IF reg[p].d = None THEN {} ELSE Space(reg[p].d)
    BY <2>3, <2>f
  <2>5. VInv /\ p \in Procs /\ state[p] = "RUN" /\ reg[p].pc \notin {"user", "grow"} /\ Bad(p, F) /\ stored' = None
    BY <2>1, <2>2, <2>f
  <2> QED BY ONLY <2>4, <2>5, BadView
<1>2. CASE KvmDir(p) /\ free # {}
  BY <1>2, KvmDirView DEF KvmDir, ptable
<1>3. CASE KvmTable(p) /\ free = {}
  BY <1>3, FailView DEF KvmTable
<1>4. CASE KvmTable(p) /\ free # {}
  BY <1>4, KvmTableView DEF KvmTable, ptable
<1> QED BY <1>1, <1>2, <1>3, <1>4

LEMMA CopyView ==
    ASSUME VInv, NEW p \in Procs, CopyPage(p), stored' = None
    PROVE  VStep
<1>0. MInv
  BY DEF VInv
<1>1. At(p, "copy") /\ reg[p].i * PGSIZE < sz[p]
  BY DEF CopyPage
<1>2. Pte(pgdir[p], reg[p].i).p \/ Pte(pgdir[p], reg[p].i).e
  BY <1>0, <1>1, CopyThere DEF Mapped
<1>3. CASE ~CanMap(reg[p].d, reg[p].i)
  <2>1. Bad(p, Space(reg[p].d))
    BY <1>2, <1>3 DEF CopyPage
  <2> QED BY <1>1, <2>1, FailView
<1>4. CASE CanMap(reg[p].d, reg[p].i)
  <2>1. /\ mappages(reg[p].d, reg[p].i, mem[Pte(pgdir[p], reg[p].i).frame].byte,
                    Pte(pgdir[p], reg[p].i).e, Pte(pgdir[p], reg[p].i).u)
        /\ reg' = [reg EXCEPT ![p].i = @ + 1] /\ UNCHANGED <<state, pgdir, sz>>
    BY <1>2, <1>4 DEF CopyPage, ptable
  <2> QED BY <1>1, <1>4, <2>1, CopyPageView
<1> QED BY <1>3, <1>4

LEMMA ImageView ==
    ASSUME VInv, NEW p \in Procs, ExecSegment(p) \/ ExecStack(p) \/ ExecFail(p), stored' = None
    PROVE  VStep
<1>0. MInv
  BY DEF VInv
<1>1. CASE ExecSegment(p)
  <2>s. PICK s : s = Head(reg[p].image)
    OBVIOUS
  <2>1. At(p, "segs") /\ reg[p].image # <<>>
    BY <1>1 DEF ExecSegment
  <2>2. CASE s.memsz < s.filesz \/ s.vaddr + s.memsz >= KERNBASE \/ (s.vaddr + s.memsz = 0 /\ reg[p].old = 0)
    <3>1. Bad(p, Space(reg[p].d))
      BY <1>1, <2>s, <2>2 DEF ExecSegment, ExecBad
    <3> QED BY <2>1, <3>1, FailView
  <2>3. CASE ~(s.memsz < s.filesz \/ s.vaddr + s.memsz >= KERNBASE \/ (s.vaddr + s.memsz = 0 /\ reg[p].old = 0))
    <3>e. PICK e : e = Max({s.vaddr + s.memsz, reg[p].old})
      OBVIOUS
    <3>o. PICK o : o = reg[p].old
      OBVIOUS
    <3>1. /\ allocuvm(p, "load", reg[p].d, o, e) /\ UNCHANGED <<mem, state, pgdir, sz>>
      BY <1>1, <2>s, <2>3, <3>e, <3>o DEF ExecSegment, ptable
    <3>2. o \in Nat /\ e \in Nat
      <4>1. reg[p] \in Regs
        BY <1>0, <2>1, Mine DEF At
      <4>2. s \in Segments
        BY <2>1, <2>s, <4>1 DEF Regs
      <4>3. s.vaddr + s.memsz \in Nat /\ o \in Nat
        BY <3>o, <4>1, <4>2 DEF Segments, Regs
      <4> QED BY <3>e, <3>o, <4>3, MaxOf
    <3> QED BY <2>1, <3>1, <3>2, ExecAllocView
  <2> QED BY <2>2, <2>3
<1>2. CASE ExecStack(p)
  <2>b. PICK base : base = PGROUNDUP(reg[p].old) * PGSIZE
    OBVIOUS
  <2>1. At(p, "segs")
    BY <1>2 DEF ExecStack
  <2>2. CASE base + 2 * PGSIZE >= KERNBASE
    <3>1. Bad(p, Space(reg[p].d))
      BY <1>2, <2>b, <2>2 DEF ExecStack, ExecBad
    <3> QED BY <2>1, <3>1, FailView
  <2>3. CASE ~(base + 2 * PGSIZE >= KERNBASE)
    <3>e. PICK e : e = base + 2 * PGSIZE
      OBVIOUS
    <3>1. /\ allocuvm(p, "stack", reg[p].d, base, e) /\ UNCHANGED <<mem, state, pgdir, sz>>
      BY <1>2, <2>b, <2>3, <3>e DEF ExecStack, ptable
    <3>2. base \in Nat /\ e \in Nat
      <4>1. reg[p].old \in Nat
        BY <1>0, <2>1, Mine DEF At, Regs
      <4>2. base \in Nat
        BY <2>b, <4>1, RoundType, Sizes, Times
      <4> QED BY <3>e, <4>2, Sizes
    <3> QED BY <2>1, <3>1, <3>2, ExecAllocView
  <2> QED BY <2>2, <2>3
<1>3. CASE ExecFail(p)
  <2>1. (At(p, "load") \/ At(p, "stack")) /\ Bad(p, Space(reg[p].d))
    BY <1>3 DEF ExecFail, ExecBad
  <2> QED BY <2>1, FailView
<1> QED BY <1>1, <1>2, <1>3

LEMMA LoadView ==
    ASSUME VInv, NEW p \in Procs, ExecLoad(p), stored' = None
    PROVE  VStep
<1>0. MInv
  BY DEF VInv
<1>s. PICK s : s = Head(reg[p].image)
  OBVIOUS
<1>x. PICK S : S = {a \in Pages : s.vaddr <= a * PGSIZE /\ a * PGSIZE < s.vaddr + s.filesz}
  OBVIOUS
<1>1. At(p, "load") /\ AllDone(p)
  BY DEF ExecLoad
<1>2. S \subseteq Pages /\ \A a \in S : Mapped(reg[p].d, a)
  BY <1>0, <1>1, <1>s, <1>x, LoadThere
<1>f. PICK X : X = FramesOf(reg[p].d, S)
  OBVIOUS
<1>3. \/ Bad(p, Space(reg[p].d))
      \/ /\ mem' = [f \in Frames |-> IF f \in X THEN User(Loaded) ELSE mem[f]]
         /\ reg' = [reg EXCEPT ![p].pc = "segs", ![p].old = reg[p].end, ![p].image = Tail(@)]
         /\ UNCHANGED <<free, ptable, panicked>>
  BY <1>2, <1>s, <1>x, <1>f DEF ExecLoad, ExecBad
<1>4. CASE Bad(p, Space(reg[p].d))
  BY <1>1, <1>4, FailView
<1>5. CASE /\ mem' = [f \in Frames |-> IF f \in X THEN User(Loaded) ELSE mem[f]]
           /\ reg' = [reg EXCEPT ![p].pc = "segs", ![p].old = reg[p].end, ![p].image = Tail(@)]
           /\ UNCHANGED <<free, ptable, panicked>>
  <2>1. reg \in [Procs -> Regs]
    BY <1>0 DEF MInv, TableInv
  <2>2. reg' = [reg EXCEPT ![p] = SetLoaded(reg[p])]
    BY ONLY <1>5, <2>1, p \in Procs DEF SetLoaded, Regs
  <2>4. UNCHANGED <<state, pgdir, sz>>
    BY <1>5 DEF ptable
  <2>3. /\ VInv /\ p \in Procs /\ At(p, "load") /\ AllDone(p) /\ X = FramesOf(reg[p].d, S)
        /\ S \subseteq Pages /\ \A a \in S : Mapped(reg[p].d, a)
        /\ mem' = [f \in Frames |-> IF f \in X THEN User(Loaded) ELSE mem[f]]
        /\ UNCHANGED <<state, pgdir, sz>> /\ stored' = None
    BY ONLY VInv, p \in Procs, stored' = None, <1>1, <1>2, <1>5, <1>f, <2>4
  <2> QED BY ONLY <2>2, <2>3, ExecLoadView
<1> QED BY <1>3, <1>4, <1>5

LEMMA LeaveView ==
    ASSUME VInv, NEW p \in Procs, Exit(p), stored' = None
    PROVE  VStep
<1>1. At(p, "user") /\ state[p] = "RUN"
  BY DEF Exit, At
<1>2. CASE p = InitProc
  <2>1. UNCHANGED <<free, mem, ptable, reg>>
    BY <1>2, Zenon DEF Exit, Panic
  <2>2. UNCHANGED <<mem, state, pgdir, sz, reg>>
    BY <2>1 DEF ptable
  <2> QED BY ONLY VInv, p \in Procs, stored' = None, <1>1, <2>2, SameView
<1>3. CASE p # InitProc
  BY <1>1, <1>3, ExitView DEF Exit
<1> QED BY <1>2, <1>3


-----------------------------------------------------------------------------
(* Every step is one of the abstract memory's.                              *)

LEMMA NextView == ~EncryptedDumps /\ VInv /\ Next => VStep \/ UNCHANGED vars
<1> SUFFICES ASSUME ~EncryptedDumps, VInv, Next PROVE VStep \/ UNCHANGED vars
  OBVIOUS
<1>1. ASSUME NEW p \in Procs, Quiet(p), stored' = None PROVE VStep
  <2>1. ASSUME NEW n \in Sbrks, Grow(p, n) \/ Shrink(p, n) PROVE VStep
    BY <1>1, <2>1, GrowView, ShrinkView
  <2>2. CASE AllocPage(p) \/ GrowFail(p) \/ GrowDone(p)
    BY <1>1, <2>2, AllocPageView, GrowFailView, GrowDoneView
  <2>3. CASE ForkAlloc(p)
    BY <1>1, <2>3, ForkAllocView
  <2>4. CASE KvmDir(p) \/ KvmTable(p) \/ KvmDone(p)
    BY <1>1, <2>4, KvmView, KvmDoneView
  <2>5. CASE CopyPage(p) \/ ForkDone(p)
    BY <1>1, <2>5, CopyView, ForkDoneView
  <2>6. ASSUME NEW image \in Images, Exec(p, image) PROVE VStep
    BY <1>1, <2>6, ExecView
  <2>7. CASE ExecSegment(p) \/ ExecStack(p) \/ ExecFail(p)
    BY <1>1, <2>7, ImageView
  <2>8. CASE ExecLoad(p) \/ ExecCommit(p)
    BY <1>1, <2>8, LoadView, ExecCommitView
  <2>9. CASE Exit(p)
    BY <1>1, <2>9, LeaveView
  <2>10. ASSUME NEW c \in Procs, Wait(p, c) PROVE VStep
    BY <1>1, <2>10, WaitView
  <2>11. ASSUME NEW a \in Written, NEW n \in 1..NPAGES, mencrypt(p, a, n) PROVE VStep
    BY <1>1, <2>11, MencryptView
  <2>12. ASSUME NEW a \in Pages, decrypt(p, a) PROVE VStep
    BY <1>1, <2>12, DecryptView
  <2> QED BY <1>1, <2>1, <2>2, <2>3, <2>4, <2>5, <2>6, <2>7, <2>8, <2>9, <2>10, <2>11, <2>12 DEF Quiet
<1>2. ASSUME NEW p \in Procs, NEW a \in Written, NEW b \in Stored, Store(p, a, b) PROVE VStep
  BY <1>2, StoreView
<1>3. ASSUME NEW p \in Procs, NEW f \in Frames, NEW a \in Written, dump_rawphymem(p, f, a) PROVE VStep
  BY <1>3, DumpView
<1>4. CASE Halted
  BY <1>4 DEF Halted
<1> QED BY <1>1, <1>2, <1>3, <1>4 DEF Next

LEMMA StepView == ~EncryptedDumps /\ VInv /\ [Next]_vars => VInv' /\ [A!ANext \/ A!Forget]_(A!avars)
<1> SUFFICES ASSUME ~EncryptedDumps, VInv, [Next]_vars PROVE VInv' /\ [A!ANext \/ A!Forget]_(A!avars)
  OBVIOUS
<1>1. MInv'
  BY StepInv DEF VInv
<1>2. CASE UNCHANGED vars
  <2>1. UNCHANGED <<mem, state, pgdir, sz, reg, stored>>
    BY <1>2 DEF vars, ptable
  <2>2. FlagInv(mem') /\ \A p \in Procs : ReadInv(mem', state'[p], pgdir'[p], reg'[p])
    BY <2>1 DEF VInv
  <2>3. [p \in Procs |-> View(p)]' = [p \in Procs |-> View(p)]
    BY <2>1, SpacesNow, SpacesNext
  <2>4. UNCHANGED A!avars
    BY <2>1, <2>3, Zenon DEF A!avars
  <2> QED BY <1>1, <2>2, <2>4 DEF VInv
<1>3. CASE VStep
  BY <1>1, <1>3 DEF VInv, VStep
<1> QED BY <1>2, <1>3, NextView

LEMMA InitView == Init => VInv /\ A!AInit
<1> SUFFICES ASSUME Init PROVE VInv /\ A!AInit
  OBVIOUS
<1>1. /\ state = [p \in Procs |-> IF p = InitProc THEN "RUN" ELSE "UNUSED"]
      /\ pgdir = [p \in Procs |-> IF p = InitProc THEN 2 ELSE None]
      /\ reg = [p \in Procs |-> Idle] /\ stored = None
  BY DEF Init
<1>2. MInv
  BY InitInv
<1>3. FlagInv(mem)
  <2> SUFFICES ASSUME NEW t \in Frames, NEW j \in Ptx, mem[t].kind = "table"
               PROVE  ~(mem[t].pte[j].p /\ mem[t].pte[j].e)
    BY DEF FlagInv
  <2>1. CASE Holds(mem, t, j, 4)
    <3>1. t = 3 /\ j = 0
      BY <2>1, InitLinks
    <3>2. mem[t].pte[j] = InitPte
      BY <3>1, InitFrames
    <3> QED BY <3>2 DEF InitPte
  <2>2. CASE ~Holds(mem, t, j, 4)
    <3>1. \A f : ~Holds(mem, t, j, f)
      BY <2>2, InitLinks
    <3>2. mem[t].pte[j].p \/ mem[t].pte[j].e => mem[t].pte[j].frame \in Frames
      <4>1. MemInv(mem, free)
        BY InitMem
      <4> QED BY <4>1 DEF MemInv, EntryInv, KindInv, LinkInv
    <3> QED BY <3>1, <3>2 DEF Holds
  <2> QED BY <2>1, <2>2
<1>4. \A p \in Procs : ReadInv(mem, state[p], pgdir[p], reg[p])
  <2>1. \A p \in Procs : reg[p] = Idle
    BY <1>1
  <2> QED BY <2>1, IdleRead
<1>5. A!AInit
  <2>s. PICK s : s = Was(InitProc)
    OBVIOUS
  <2>1. InitProc \in Procs
    BY SizeAssumption DEF InitProc, Procs
  <2>2. s \in AllSpaces
    <3>1. MemInv(mem, free) /\ 2 \in Frames /\ mem[2].kind = "dir"
      BY InitMem, InitFrames
    <3>z. PICK z : z = sz[InitProc]
      OBVIOUS
    <3>2. s = ViewOf(mem, "RUN", 2, z)
      BY <1>1, <2>s, <2>1, <3>z DEF Was
    <3> QED BY <3>1, <3>2, ViewType
  <2>3. \A p \in Procs : p # InitProc => Was(p) = None
    BY <1>1 DEF Was, ViewOf
  <2>4. SpacesOf(mem, state, pgdir, sz) = [p \in Procs |-> IF p = InitProc THEN s ELSE None]
    BY <2>s, <2>3 DEF SpacesOf, Was
  <2>5. [p \in Procs |-> View(p)] = [p \in Procs |-> IF p = InitProc THEN s ELSE None]
    BY <2>4, SpacesNow
  <2> QED BY <1>1, <2>2, <2>5, Zenon DEF A!AInit, A!Spaces, AllSpaces
<1> QED BY <1>2, <1>3, <1>4, <1>5 DEF VInv

\* Each process has a memory of its own: what it reads is what it stored or
\* dumped itself or had from its parent, encrypted in between or not, and the
\* pages sbrk adds are zero, through every interleaving of the calls of any
\* number of processes and wherever kalloc fails in them, as long as nothing is
\* dumped into an encrypted page.
THEOREM MemoryIsPrivate ==
    ASSUME ~EncryptedDumps
    PROVE  Spec => PrivateMemory
<1>1. Init => VInv /\ A!AInit
  BY InitView
<1>2. VInv /\ [Next]_vars => VInv' /\ [A!ANext \/ A!Forget]_(A!avars)
  BY StepView
<1> QED BY <1>1, <1>2, PTL DEF Spec, PrivateMemory, A!ASpec

=============================================================================
