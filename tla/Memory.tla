-------------------------------- MODULE Memory --------------------------------
(***************************************************************************)
(* Physical pages and address spaces of the p5 kernel: kalloc.c, vm.c with *)
(* mencrypt and decrypt, growproc, fork, exit and wait of proc.c, exec.c.  *)
(* The free list, page directories, page tables, user pages and kernel     *)
(* stacks are all frames of one physical memory; who owns a frame is not   *)
(* recorded anywhere but in the pointers to it.                            *)
(*                                                                         *)
(* A step is one iteration of the loops of setupkvm, allocuvm and copyuvm: *)
(* kernel code is preempted between them, and other processes compete for  *)
(* the last frames.  What a process frees in one go nobody else can reach, *)
(* so that is one step.  Which frame kalloc takes makes no difference.     *)
(* Addresses are counted in units of a fraction of a page, pages in        *)
(* numbers; a page holds one byte value.                                   *)
(***************************************************************************)
EXTENDS Integers, Sequences, FiniteSets, FiniteSetsExt

CONSTANTS
    NPROC,
    NFRAMES,        \* what freerange gives the free list
    PGSIZE,         \* addresses in a page
    NPAGES,         \* user pages of an address space
    PTSIZE,         \* entries of a page table
    KTABLES,        \* page tables that map the kernel
    MaxByte,        \* bytes are 0..MaxByte
    Sbrks,          \* arguments of sbrk
    Images,         \* programs: sequences of segments of an ELF file
    Calls,          \* Calls[p]: what the program of p does
    Written,        \* the pages programs store to and encrypt
    Stored,         \* the values they store
    EncryptedDumps, \* whether they dump into pages that are encrypted
    None

Procs == 1..NPROC
InitProc == 1
Frames == 1..NFRAMES
Pages == 0..(NPAGES - 1)
Byte == 0..MaxByte
KERNBASE == NPAGES * PGSIZE
UTABLES == (NPAGES + PTSIZE - 1) \div PTSIZE
WORD == 2 * KERNBASE

ASSUME SizeAssumption ==
    /\ NPROC \in Nat \ {0} /\ PGSIZE \in Nat \ {0} /\ NPAGES \in Nat \ {0, 1}
    /\ PTSIZE \in Nat \ {0} /\ KTABLES \in Nat /\ MaxByte \in Nat
    /\ Sbrks \subseteq (-KERNBASE)..KERNBASE
    /\ Written \subseteq Pages /\ Stored \subseteq Byte /\ EncryptedDumps \in BOOLEAN
    /\ NFRAMES \in Nat /\ NFRAMES > 4 + KTABLES
\* The fields of a program header are unsigned.
Segments == [vaddr : Nat, memsz : Nat, filesz : Nat]
ASSUME ImagesAssumption == \A image \in Images : image \in Seq(Segments)
ASSUME NoneAssumption == None \notin Frames \cup Procs
\* None stands for no address space and for no store as well.
ASSUME NoSpaceAssumption ==
    /\ None \notin [root : Frames, page : UNION {[S -> Byte] : S \in SUBSET Pages}]
    /\ None \notin [proc : Procs, page : Pages, byte : Byte]

VARIABLES
    free,       \* kmem.freelist
    mem,        \* mem[f]: what is in frame f
    state, kstack, pgdir, sz, parent,   \* of struct proc
    reg,        \* reg[p]: the locals of p's system call
    stored,     \* what the last step stored, as its process sees it
    panicked

ptable == <<state, kstack, pgdir, sz, parent>>
vars == <<free, mem, ptable, reg, stored, panicked>>

Loaded == MaxByte   \* what a program's file has in its pages

(* What a frame holds. *)
Junk == [kind |-> "junk"]
KStack == [kind |-> "kstack"]
User(b) == [kind |-> "user", byte |-> b]
NoEntry == [frame |-> None, p |-> FALSE, e |-> FALSE, u |-> FALSE]
Table == [kind |-> "table", pte |-> [i \in 0..(PTSIZE - 1) |-> NoEntry]]
Dir == [kind |-> "dir", pde |-> [i \in 0..(UTABLES + KTABLES - 1) |-> None]]

PGROUNDUP(x) == (x + PGSIZE - 1) \div PGSIZE    \* in pages
Flip(b) == MaxByte - b                          \* b ^ 0xFF

\* walkpgdir without alloc: the entry of page a under directory d.
Pte(d, a) ==
    LET t == mem[d].pde[a \div PTSIZE]
    IN IF t = None THEN NoEntry ELSE mem[t].pte[a % PTSIZE]
SetPte(m, d, a, e) == [m EXCEPT ![m[d].pde[a \div PTSIZE]].pte[a % PTSIZE] = e]

Mapped(d, a) == Pte(d, a).p \/ Pte(d, a).e
\* uva2ka returns an address.
Accessible(d, a) == Pte(d, a).u /\ (Pte(d, a).p # Pte(d, a).e)

Kalloc == CHOOSE f \in free : TRUE
Freed(F) == free' = free \cup F
Junked(m, F) == [f \in Frames |-> IF f \in F THEN Junk ELSE m[f]]

\* Page a of directory d in a new frame, with a new page table if need be.
NeedTable(d, a) == mem[d].pde[a \div PTSIZE] = None
CanMap(d, a) == Cardinality(free) >= IF NeedTable(d, a) THEN 2 ELSE 1
mappages(d, a, b, e, u) ==
    LET f == Kalloc
        t == CHOOSE g \in free \ {f} : TRUE
        page == [mem EXCEPT ![f] = User(b)]
        tabled == IF NeedTable(d, a)
                  THEN [page EXCEPT ![t] = Table, ![d].pde[a \div PTSIZE] = t]
                  ELSE page
    IN /\ free' = free \ (IF NeedTable(d, a) THEN {f, t} ELSE {f})
       /\ mem' = SetPte(tabled, d, a, [frame |-> f, p |-> ~e, e |-> e, u |-> u])

\* The pages deallocuvm takes away, and their frames.
MutDropped(d, old, new) ==     \* PGROUNDDOWN for PGROUNDUP
    IF new >= old THEN {}
    ELSE {a \in Pages : a >= new \div PGSIZE /\ a * PGSIZE < old /\ Mapped(d, a)}
Dropped(d, old, new) ==
    IF new >= old THEN {}
    ELSE {a \in Pages : a >= PGROUNDUP(new) /\ a * PGSIZE < old /\ Mapped(d, a)}
FramesOf(d, S) == {Pte(d, a).frame : a \in S}
TablesOf(d) == {mem[d].pde[i] : i \in DOMAIN mem[d].pde} \ {None}
WithoutPages(d, S) ==
    [f \in Frames |->
        IF f \in {mem[d].pde[i] : i \in 0..(UTABLES - 1)} \ {None}
        THEN LET i == CHOOSE i \in 0..(UTABLES - 1) : mem[d].pde[i] = f
             IN [mem[f] EXCEPT !.pte = [j \in 0..(PTSIZE - 1) |->
                    IF i * PTSIZE + j \in S THEN NoEntry ELSE mem[f].pte[j]]]
        ELSE mem[f]]
deallocuvm(d, old, new) ==
    LET S == Dropped(d, old, new)
    IN Freed(FramesOf(d, S)) /\ mem' = Junked(WithoutPages(d, S), FramesOf(d, S))

\* Every frame of an address space; freevm frees them.
Space(d) == FramesOf(d, Dropped(d, KERNBASE, 0)) \cup TablesOf(d) \cup {d}
FreeFrames(F) == Freed(F) /\ mem' = Junked(mem, F)

(* The process table. *)
Idle == [pc |-> "user", d |-> None, i |-> 0, old |-> 0, end |-> 0,
         np |-> None, image |-> <<>>]

\* userinit: a kernel stack, a directory with its tables, and one page.
Init ==
    /\ free = (5 + KTABLES)..NFRAMES
    /\ mem = [f \in Frames |->
                CASE f = 1 -> KStack
                  [] f = 2 -> [Dir EXCEPT !.pde = [i \in 0..(UTABLES + KTABLES - 1) |->
                                IF i = 0 THEN 3
                                ELSE IF i < UTABLES THEN None ELSE 5 + i - UTABLES]]
                  [] f = 3 -> [Table EXCEPT !.pte[0] =
                                [frame |-> 4, p |-> TRUE, e |-> FALSE, u |-> TRUE]]
                  [] f = 4 -> User(Loaded)
                  [] f \in 5..(4 + KTABLES) -> Table
                  [] OTHER -> Junk]
    /\ state = [p \in Procs |-> IF p = InitProc THEN "RUN" ELSE "UNUSED"]
    /\ kstack = [p \in Procs |-> IF p = InitProc THEN 1 ELSE None]
    /\ pgdir = [p \in Procs |-> IF p = InitProc THEN 2 ELSE None]
    /\ sz = [p \in Procs |-> IF p = InitProc THEN PGSIZE ELSE 0]
    /\ parent = [p \in Procs |-> None]
    /\ reg = [p \in Procs |-> Idle]
    /\ stored = None /\ panicked = "no"

At(p, pc) == panicked = "no" /\ state[p] = "RUN" /\ reg[p].pc = pc

\* p is in user mode and can fetch its instructions, from page 0.
Runs(p) == At(p, "user") /\ Pte(pgdir[p], 0).p /\ Pte(pgdir[p], 0).u

Return(p) == reg' = [reg EXCEPT ![p] = Idle]
Panic(why) == panicked' = why /\ UNCHANGED <<free, mem, ptable, reg>>

(* allocuvm, one page at a time, for sbrk, for a segment, for the stack. *)
allocuvm(p, pc, d, old, end) ==
    reg' = [reg EXCEPT ![p] = [@ EXCEPT !.pc = pc, !.d = d, !.i = PGROUNDUP(old),
                                        !.old = old, !.end = end]]

Allocating(p) == \E pc \in {"grow", "load", "stack"} : At(p, pc)
AllDone(p) == reg[p].i * PGSIZE >= reg[p].end

AllocPage(p) ==
    /\ Allocating(p) /\ ~AllDone(p)
    /\ IF Mapped(reg[p].d, reg[p].i)
       THEN Panic("remap")
       ELSE /\ CanMap(reg[p].d, reg[p].i)
            /\ mappages(reg[p].d, reg[p].i, 0, FALSE, TRUE)
            /\ reg' = [reg EXCEPT ![p].i = @ + 1]
            /\ UNCHANGED <<ptable, panicked>>

GrowFail(p) ==
    /\ At(p, "grow") /\ ~AllDone(p) /\ ~CanMap(reg[p].d, reg[p].i)
    /\ deallocuvm(reg[p].d, reg[p].end, reg[p].old)
    /\ Return(p) /\ UNCHANGED <<ptable, panicked>>

\* growproc, n > 0; a size past KERNBASE is refused.
Grow(p, n) ==
    /\ Runs(p) /\ n > 0 /\ sz[p] + n < KERNBASE
    /\ allocuvm(p, "grow", pgdir[p], sz[p], sz[p] + n)
    /\ UNCHANGED <<free, mem, ptable, panicked>>

GrowDone(p) ==
    /\ At(p, "grow") /\ AllDone(p)
    /\ sz' = [sz EXCEPT ![p] = reg[p].end]
    /\ Return(p)
    /\ UNCHANGED <<free, mem, state, kstack, pgdir, parent, panicked>>

\* growproc, n < 0.  The new size may wrap around; when it is 0 the pages are
\* gone but the call fails and the size stays.
Shrink(p, n) ==
    LET new == (sz[p] + n) % WORD
        got == IF new >= sz[p] THEN sz[p] ELSE new
    IN /\ Runs(p) /\ n < 0
       /\ deallocuvm(pgdir[p], sz[p], new)
       /\ sz' = [sz EXCEPT ![p] = IF got = 0 THEN @ ELSE got]
       /\ UNCHANGED <<state, kstack, pgdir, parent, reg, panicked>>

(* fork and exec: setupkvm, then the pages. *)
\* What a failing fork or exec gives back.
MutBad(p, F) ==     \* the kernel stack is not freed
    LET c == reg[p].np
    IN /\ FreeFrames(F)
       /\ IF c = None THEN UNCHANGED ptable
          ELSE /\ kstack' = [kstack EXCEPT ![c] = None]
               /\ pgdir' = [pgdir EXCEPT ![c] = None]
               /\ state' = [state EXCEPT ![c] = "UNUSED"]
               /\ UNCHANGED <<sz, parent>>
       /\ Return(p) /\ UNCHANGED panicked
Bad(p, F) ==
    LET c == reg[p].np
    IN /\ FreeFrames(IF c = None THEN F ELSE F \cup {kstack[c]})
       /\ IF c = None THEN UNCHANGED ptable
          ELSE /\ kstack' = [kstack EXCEPT ![c] = None]
               /\ pgdir' = [pgdir EXCEPT ![c] = None]
               /\ state' = [state EXCEPT ![c] = "UNUSED"]
               /\ UNCHANGED <<sz, parent>>
       /\ Return(p) /\ UNCHANGED panicked

\* allocproc: the first slot that is free, and a kernel stack for it.
ForkAlloc(p) ==
    /\ Runs(p) /\ free # {}
    /\ \E c \in Procs :
        /\ state[c] = "UNUSED" /\ \A q \in Procs : q < c => state[q] # "UNUSED"
        /\ state' = [state EXCEPT ![c] = "EMBRYO"]
        /\ kstack' = [kstack EXCEPT ![c] = Kalloc]
        /\ reg' = [reg EXCEPT ![p].pc = "kvmdir", ![p].np = c]
    /\ free' = free \ {Kalloc} /\ mem' = [mem EXCEPT ![Kalloc] = KStack]
    /\ UNCHANGED <<pgdir, sz, parent, panicked>>

Exec(p, image) ==
    /\ Runs(p)
    /\ reg' = [reg EXCEPT ![p].pc = "kvmdir", ![p].image = image]
    /\ UNCHANGED <<free, mem, ptable, panicked>>

KvmDir(p) ==
    /\ At(p, "kvmdir")
    /\ IF free = {} THEN Bad(p, {})
       ELSE /\ free' = free \ {Kalloc} /\ mem' = [mem EXCEPT ![Kalloc] = Dir]
            /\ reg' = [reg EXCEPT ![p].pc = "kvm", ![p].d = Kalloc]
            /\ UNCHANGED <<ptable, panicked>>

KvmTable(p) ==
    /\ At(p, "kvm") /\ reg[p].i < KTABLES
    /\ IF free = {} THEN Bad(p, Space(reg[p].d))
       ELSE /\ free' = free \ {Kalloc}
            /\ mem' = [mem EXCEPT ![Kalloc] = Table,
                                  ![reg[p].d].pde[UTABLES + reg[p].i] = Kalloc]
            /\ reg' = [reg EXCEPT ![p].i = @ + 1]
            /\ UNCHANGED <<ptable, panicked>>

KvmDone(p) ==
    /\ At(p, "kvm") /\ reg[p].i = KTABLES
    /\ reg' = [reg EXCEPT ![p].pc = IF reg[p].np = None THEN "segs" ELSE "copy",
                          ![p].i = 0]
    /\ UNCHANGED <<free, mem, ptable, panicked>>

\* copyuvm copies the bytes as they are, and the flags.
CopyPage(p) ==
    LET e == Pte(pgdir[p], reg[p].i)
    IN /\ At(p, "copy") /\ reg[p].i * PGSIZE < sz[p]
       /\ IF ~(e.p \/ e.e) THEN Panic("copyuvm")
          ELSE IF ~CanMap(reg[p].d, reg[p].i) THEN Bad(p, Space(reg[p].d))
          ELSE /\ mappages(reg[p].d, reg[p].i, mem[e.frame].byte, e.e, e.u)
               /\ reg' = [reg EXCEPT ![p].i = @ + 1]
               /\ UNCHANGED <<ptable, panicked>>

ForkDone(p) ==
    LET c == reg[p].np
    IN /\ At(p, "copy") /\ reg[p].i * PGSIZE >= sz[p]
       /\ pgdir' = [pgdir EXCEPT ![c] = reg[p].d]
       /\ sz' = [sz EXCEPT ![c] = sz[p]]
       /\ parent' = [parent EXCEPT ![c] = p]
       /\ state' = [state EXCEPT ![c] = "RUN"]
       /\ Return(p) /\ UNCHANGED <<free, mem, kstack, panicked>>

(* exec: the segments, the stack, the arguments. *)
ExecBad(p) == Bad(p, Space(reg[p].d))

ExecSegment(p) ==
    LET s == Head(reg[p].image)
        new == s.vaddr + s.memsz
    IN /\ At(p, "segs") /\ reg[p].image # <<>>
       /\ IF s.memsz < s.filesz \/ new >= KERNBASE \/ (new = 0 /\ reg[p].old = 0)
          THEN ExecBad(p)
          ELSE /\ allocuvm(p, "load", reg[p].d, reg[p].old, Max({new, reg[p].old}))
               /\ UNCHANGED <<free, mem, ptable, panicked>>

ExecStack(p) ==
    LET base == PGROUNDUP(reg[p].old) * PGSIZE
    IN /\ At(p, "segs") /\ reg[p].image = <<>>
       /\ IF base + 2 * PGSIZE >= KERNBASE
          THEN ExecBad(p)
          ELSE /\ allocuvm(p, "stack", reg[p].d, base, base + 2 * PGSIZE)
               /\ UNCHANGED <<free, mem, ptable, panicked>>

ExecFail(p) ==
    /\ At(p, "load") \/ At(p, "stack")
    /\ ~AllDone(p) /\ ~CanMap(reg[p].d, reg[p].i)
    /\ ExecBad(p)

\* loaduvm fills the pages of the segment's file part; the file may be short.
ExecLoad(p) ==
    LET s == Head(reg[p].image)
        S == {a \in Pages : s.vaddr <= a * PGSIZE /\ a * PGSIZE < s.vaddr + s.filesz}
        F == FramesOf(reg[p].d, S)
    IN /\ At(p, "load") /\ AllDone(p)
       /\ \/ ExecBad(p)
          \/ /\ s.vaddr % PGSIZE = 0
             /\ IF \E a \in S : ~Mapped(reg[p].d, a) THEN Panic("loaduvm")
                ELSE /\ mem' = [f \in Frames |-> IF f \in F THEN User(Loaded) ELSE mem[f]]
                     /\ reg' = [reg EXCEPT ![p].pc = "segs", ![p].old = reg[p].end,
                                           ![p].image = Tail(@)]
                     /\ UNCHANGED <<free, ptable, panicked>>

\* The guard page loses PTE_U; too many or too long arguments do not fit the
\* stack page.  Otherwise the process changes over and frees its old space.
ExecCommit(p) ==
    LET d == reg[p].d
        top == reg[p].end \div PGSIZE - 1
        guarded == SetPte(mem, d, top - 1, [Pte(d, top - 1) EXCEPT !.u = FALSE])
    IN /\ At(p, "stack") /\ AllDone(p)
       /\ \/ ExecBad(p)
          \/ /\ \E b \in Byte :
                  mem' = Junked([guarded EXCEPT ![Pte(d, top).frame] = User(b)],
                                Space(pgdir[p]))
             /\ Freed(Space(pgdir[p]))
             /\ pgdir' = [pgdir EXCEPT ![p] = d]
             /\ sz' = [sz EXCEPT ![p] = reg[p].end]
             /\ Return(p) /\ UNCHANGED <<state, kstack, parent, panicked>>

(* exit and wait. *)
Exit(p) ==
    /\ At(p, "user")
    /\ IF p = InitProc THEN Panic("init exiting")
       ELSE /\ state' = [state EXCEPT ![p] = "ZOMBIE"]
            /\ parent' = [q \in Procs |-> IF parent[q] = p THEN InitProc ELSE parent[q]]
            /\ UNCHANGED <<free, mem, kstack, pgdir, sz, reg, panicked>>

\* What stays in the slot (pgdir, sz) is set before it is read again, and the
\* model clears it.
Wait(p, c) ==
    /\ Runs(p) /\ parent[c] = p /\ state[c] = "ZOMBIE"
    /\ FreeFrames(Space(pgdir[c]) \cup {kstack[c]})
    /\ kstack' = [kstack EXCEPT ![c] = None]
    /\ parent' = [parent EXCEPT ![c] = None]
    /\ state' = [state EXCEPT ![c] = "UNUSED"]
    /\ pgdir' = [pgdir EXCEPT ![c] = None] /\ sz' = [sz EXCEPT ![c] = 0]
    /\ UNCHANGED <<reg, panicked>>

(* Memory as the process uses it. *)
\* Byte b goes to the frame of page a, as it is.
SetByte(p, a, b) ==
    /\ mem' = [mem EXCEPT ![Pte(pgdir[p], a).frame] = User(b)]
    /\ stored' = [proc |-> p, page |-> a, byte |-> b]
    /\ UNCHANGED <<free, ptable, reg, panicked>>

Store(p, a, b) ==
    /\ Runs(p) /\ Pte(pgdir[p], a).p /\ Pte(pgdir[p], a).u
    /\ SetByte(p, a, b)

\* All pages of the range, or none; the encrypted ones stay as they are.
MutMencrypt(p, a, n) ==     \* encrypted pages are not skipped
    LET d == pgdir[p]
        S == a..(a + n - 1)
    IN /\ Runs(p) /\ n * PGSIZE <= sz[p]
       /\ \A b \in a..(a + n - 1) : b \in Pages /\ Accessible(d, b)
       /\ mem' = [f \in Frames |->
            CASE f \in FramesOf(d, S) -> User(Flip(mem[f].byte))
              [] f \in TablesOf(d) ->
                    [mem[f] EXCEPT !.pte = [j \in 0..(PTSIZE - 1) |->
                        LET e == mem[f].pte[j]
                        IN IF e.frame \in FramesOf(d, S)
                           THEN [e EXCEPT !.p = FALSE, !.e = TRUE] ELSE e]]
              [] OTHER -> mem[f]]
       /\ UNCHANGED <<free, ptable, reg, panicked>>
mencrypt(p, a, n) ==
    LET d == pgdir[p]
        S == {b \in a..(a + n - 1) : ~Pte(d, b).e}
    IN /\ Runs(p) /\ n * PGSIZE <= sz[p]
       /\ \A b \in a..(a + n - 1) : b \in Pages /\ Accessible(d, b)
       /\ mem' = [f \in Frames |->
            CASE f \in FramesOf(d, S) -> User(Flip(mem[f].byte))
              [] f \in TablesOf(d) ->
                    [mem[f] EXCEPT !.pte = [j \in 0..(PTSIZE - 1) |->
                        LET e == mem[f].pte[j]
                        IN IF e.frame \in FramesOf(d, S)
                           THEN [e EXCEPT !.p = FALSE, !.e = TRUE] ELSE e]]
              [] OTHER -> mem[f]]
       /\ UNCHANGED <<free, ptable, reg, panicked>>

\* A page fault on an encrypted page, of the process or of the kernel for it.
decrypt(p, a) ==
    LET d == pgdir[p]
        e == Pte(d, a)
    IN /\ At(p, "user") /\ e.e
       /\ mem' = SetPte([mem EXCEPT ![e.frame] = User(Flip(@.byte))], d, a,
                        [e EXCEPT !.p = TRUE, !.e = FALSE])
       /\ UNCHANGED <<free, ptable, reg, panicked>>

\* A frame is copied to page a behind the page table's back: an encrypted page
\* stays marked as encrypted, and will be read as the complement.
dump_rawphymem(p, f, a) ==
    /\ Runs(p) /\ Accessible(pgdir[p], a) /\ (Pte(pgdir[p], a).e => EncryptedDumps)
    /\ \E b \in Byte :
        /\ mem[f].kind = "user" => b = mem[f].byte
        /\ SetByte(p, a, b)

Halted == panicked # "no" /\ UNCHANGED vars

Quiet(p) ==
    \/ "sbrk" \in Calls[p] /\ \E n \in Sbrks : Grow(p, n) \/ Shrink(p, n)
    \/ AllocPage(p) \/ GrowFail(p) \/ GrowDone(p)
    \/ "fork" \in Calls[p] /\ ForkAlloc(p)
    \/ KvmDir(p) \/ KvmTable(p) \/ KvmDone(p) \/ CopyPage(p) \/ ForkDone(p)
    \/ "exec" \in Calls[p] /\ \E image \in Images : Exec(p, image)
    \/ ExecSegment(p) \/ ExecStack(p) \/ ExecFail(p) \/ ExecLoad(p) \/ ExecCommit(p)
    \/ Exit(p) \/ \E c \in Procs : Wait(p, c)
    \/ "encrypt" \in Calls[p] /\ \E a \in Written, n \in 1..NPAGES : mencrypt(p, a, n)
    \/ \E a \in Pages : decrypt(p, a)

Next ==
    \/ \E p \in Procs :
        \/ Quiet(p) /\ stored' = None
        \/ "store" \in Calls[p] /\ \E a \in Written, b \in Stored : Store(p, a, b)
        \/ "dump" \in Calls[p] /\ \E f \in Frames, a \in Written : dump_rawphymem(p, f, a)
    \/ Halted

Spec == Init /\ [][Next]_vars

------------------------------------------------------------------------------
(* Properties. *)
Entries == [frame : Frames \cup {None}, p : BOOLEAN, e : BOOLEAN, u : BOOLEAN]
Contents == {Junk, KStack} \cup {User(b) : b \in Byte}
    \cup [kind : {"table"}, pte : [0..(PTSIZE - 1) -> Entries]]
    \cup [kind : {"dir"}, pde : [0..(UTABLES + KTABLES - 1) -> Frames \cup {None}]]

\* Types; sizes stay below KERNBASE, whatever sbrk is called with.
TypeOK ==
    /\ free \subseteq Frames
    /\ \A f \in Frames : mem[f] \in Contents
    /\ state \in [Procs -> {"UNUSED", "EMBRYO", "RUN", "ZOMBIE"}]
    /\ kstack \in [Procs -> Frames \cup {None}]
    /\ pgdir \in [Procs -> Frames \cup {None}]
    /\ sz \in [Procs -> 0..(KERNBASE - 1)]
    /\ parent \in [Procs -> Procs \cup {None}]
    /\ panicked \in {"no", "remap", "copyuvm", "loaduvm", "init exiting"}

\* The pointers to frames, each with where it is: kernel stacks, directories
\* of processes and of calls under way, their tables, and the pages of those.
Dirs == {[at |-> <<"pgdir", p>>, frame |-> pgdir[p]] :
            p \in {q \in Procs : state[q] \in {"RUN", "ZOMBIE"}}}
    \cup {[at |-> <<"new", p>>, frame |-> reg[p].d] :
            p \in {q \in Procs : reg[q].d # None /\ reg[q].pc # "grow"}}
Tables(x) == IF mem[x.frame].kind # "dir" THEN {}
    ELSE LET pde == mem[x.frame].pde
         IN {[at |-> Append(x.at, i), frame |-> pde[i]] :
                i \in {j \in DOMAIN pde : pde[j] # None}}
Leaves(x) == IF mem[x.frame].kind # "table" THEN {}
    ELSE LET pte == mem[x.frame].pte
         IN {[at |-> Append(x.at, i), frame |-> pte[i].frame] :
                i \in {j \in DOMAIN pte : pte[j].p \/ pte[j].e}}
Pointers ==
    LET tables == UNION {Tables(x) : x \in Dirs}
    IN {[at |-> <<"kstack", p>>, frame |-> kstack[p]] :
            p \in {q \in Procs : state[q] # "UNUSED"}}
       \cup Dirs \cup tables \cup UNION {Leaves(x) : x \in tables}

\* Every frame is in the free list or has exactly one pointer to it, through
\* every interleaving of fork, exec, sbrk and exit and wherever kalloc fails
\* in them: nothing leaks, nothing is freed twice, freed while it is in use,
\* or shared by two address spaces.
FramesOwned ==
    /\ {x.frame : x \in Pointers} = Frames \ free
    /\ Cardinality(Pointers) = Cardinality(Frames \ free)

\* A process that can run has the pages below its size and no others (but for
\* those that a call under way is adding), so copyuvm, loaduvm and mappages do
\* not panic, whatever sequence of unaligned, failing and wrapping sbrk calls,
\* encryptions and forks led there.
SizeMapped ==
    /\ panicked \in {"no", "init exiting"}
    /\ \A p \in Procs : Runs(p) =>
        \A a \in Pages : Mapped(pgdir[p], a) <=> a * PGSIZE < sz[p]

\* sz is the size of what is mapped, and below KERNBASE.
SizeOK == TypeOK /\ SizeMapped

\* What a process reads in its pages, encrypted ones decrypted.
View(p) ==
    IF state[p] # "RUN" THEN None
    ELSE [root |-> pgdir[p],
          page |-> [a \in {b \in Pages : b * PGSIZE < sz[p] /\ Accessible(pgdir[p], b)} |->
                      LET e == Pte(pgdir[p], a)
                      IN IF e.e THEN Flip(mem[e.frame].byte) ELSE mem[e.frame].byte]]
A == INSTANCE AddressSpaces
        WITH First <- InitProc, Roots <- Frames, Zero <- 0, Dead <- None,
             space <- [p \in Procs |-> View(p)]

\* The kernel gives each process a memory of its own: what it reads is what it
\* stored (or dumped) itself or had from its parent, encrypted in between or
\* not, and new pages are zero whatever the frame held before.
PrivateMemory == A!ASpec
==============================================================================
