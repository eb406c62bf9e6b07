-------------------------------- MODULE Files --------------------------------
(***************************************************************************)
(* The file table, file descriptors and pipes (file.c, pipe.c, and dup,    *)
(* close, pipe, read and write of sysfile.c, with what fork, exit and kill *)
(* of proc.c do to them).  Files that are inodes are in module Inodes.     *)
(*                                                                         *)
(* A step is a piece of code under one spin-lock (ftable.lock, a pipe's    *)
(* lock, kmem.lock) with the process-private code around it: on the one    *)
(* processor the Makefiles ask for, a process may be preempted wherever it *)
(* holds no lock.  Descriptors are counted, not numbered, and fields and   *)
(* bytes that are set before they are read again are cleared.              *)
(***************************************************************************)
EXTENDS Integers, Sequences, FiniteSets, FiniteSetsExt

CONSTANTS
    Procs,
    NFILE,          \* entries of the file table
    NOFILE,         \* descriptors of a process
    Pipes,          \* the pages kalloc has for pipes
    PIPESIZE,       \* bytes in a pipe
    WORD,           \* nread and nwrite are counted modulo WORD
    Byte,
    Messages,       \* what a process may write
    ReadSizes,      \* how much it may ask for
    None

ASSUME SizeAssumption ==
    /\ NFILE \in Nat \ {0} /\ NOFILE \in Nat \ {0}
    /\ PIPESIZE \in Nat \ {0} /\ WORD \in Nat /\ WORD > PIPESIZE
    /\ WORD % PIPESIZE = 0
    /\ Byte /= {} /\ Messages \subseteq Seq(Byte) \ {<<>>}
    /\ ReadSizes \subseteq Nat \ {0}
ASSUME ProcsAssumption == IsFiniteSet(Procs)

Files == 1..NFILE

\* What an entry of the table, a struct file, may be.
Entries == [ref : 0..(Cardinality(Procs) * (NOFILE + 1)), type : {"none", "pipe"},
            pipe : Pipes \cup {None}, writable : BOOLEAN]

ASSUME NoneAssumption == None \notin Procs \cup Pipes \cup Files \cup Entries

VARIABLES
    file,       \* ftable.file
    pipe,       \* struct pipe of each page, and whether the page is in use
    ofile,      \* ofile[p][f]: how many descriptors of p are for entry f
    killed,
    pc,
    f0, f1,     \* locals of sys_pipe
    ff,         \* fileclose's copy of the entry it closes
    ret,        \* where fileclose returns to
    at,         \* the pipe of a read or write
    want, left, \* how much a reader asks for, what a writer still has to write
    got, gave,  \* what the last step brought a reader, took from a writer
    abandoned   \* history: pipes whose sleeping readers a killed
                \* writer did not wake up, nor anyone since

loc == <<f0, f1, ff, ret>>
io  == <<at, want, left>>
vars == <<file, pipe, ofile, killed, pc, loc, io, got, gave, abandoned>>

PCs == {"unused", "user", "read", "rsleep", "write", "wsleep",
        "pipe1", "pipe2", "bad", "close", "exit"}

AnyByte == CHOOSE b \in Byte : TRUE
NoFile == [ref |-> 0, type |-> "none", pipe |-> None, writable |-> FALSE]
NoPipe == [used |-> FALSE, readopen |-> FALSE, writeopen |-> FALSE,
           nread |-> 0, nwrite |-> 0, data |-> [i \in 0..(PIPESIZE - 1) |-> AnyByte]]

TypeOK ==
    /\ file \in [Files -> Entries]
    /\ pipe \in [Pipes -> [used : BOOLEAN, readopen : BOOLEAN, writeopen : BOOLEAN,
                           nread : 0..(WORD - 1), nwrite : 0..(WORD - 1),
                           data : [0..(PIPESIZE - 1) -> Byte]]]
    /\ ofile \in [Procs -> [Files -> 0..NOFILE]]
    /\ killed \in [Procs -> BOOLEAN]
    /\ pc \in [Procs -> PCs]
    /\ f0 \in [Procs -> Files \cup {None}] /\ f1 \in [Procs -> Files \cup {None}]
    /\ ff \in [Procs -> Entries \cup {None}]
    /\ ret \in [Procs -> PCs] /\ at \in [Procs -> Pipes \cup {None}]
    /\ want \in [Procs -> ReadSizes \cup {0}] /\ left \in [Procs -> Seq(Byte)]
    /\ abandoned \subseteq Pipes

Init ==
    /\ file = [f \in Files |-> NoFile]
    /\ pipe = [q \in Pipes |-> NoPipe]
    /\ ofile = [p \in Procs |-> [f \in Files |-> 0]]
    /\ killed = [p \in Procs |-> FALSE]
    /\ pc = [p \in Procs |-> "unused"]
    /\ f0 = [p \in Procs |-> None] /\ f1 = [p \in Procs |-> None]
    /\ ff = [p \in Procs |-> None] /\ ret = [p \in Procs |-> "user"]
    /\ at = [p \in Procs |-> None] /\ want = [p \in Procs |-> 0]
    /\ left = [p \in Procs |-> <<>>]
    /\ got = <<>> /\ gave = <<>>
    /\ abandoned = {}

Quiet == got' = <<>> /\ gave' = <<>>
Goto(p, where) == pc' = [pc EXCEPT ![p] = where]

\* At the entry of a system call; a killed process exits instead (trap.c).
Enter(p) ==
    /\ pc[p] = "user" /\ ~killed[p]
    /\ Quiet

-----------------------------------------------------------------------------
(* The file table: under ftable.lock. *)

FreeFiles == {f \in Files : file[f].ref = 0}
FreeFds(p) == NOFILE - Cardinality({x \in Files \X (1..NOFILE) : x[2] <= ofile[p][x[1]]})

\* filealloc: the first free entry.
filealloc(f) ==
    /\ f \in FreeFiles /\ \A g \in FreeFiles : f <= g
    /\ file' = [file EXCEPT ![f].ref = 1]

\* Mutant: the copy is made after the entry is cleared.
MutFileclose(p, f, then) ==
    IF file[f].ref > 1
    THEN /\ file' = [file EXCEPT ![f].ref = @ - 1]
         /\ Goto(p, then) /\ UNCHANGED <<ff, ret>>
    ELSE /\ file' = [file EXCEPT ![f] = NoFile]
         /\ ff' = [ff EXCEPT ![p] = NoFile]
         /\ ret' = [ret EXCEPT ![p] = then]
         /\ Goto(p, "close")

\* fileclose(f), up to the release: a last reference clears the entry, and
\* what was in it is closed from the copy; otherwise on to "then".
fileclose(p, f, then) ==
    IF file[f].ref > 1
    THEN /\ file' = [file EXCEPT ![f].ref = @ - 1]
         /\ Goto(p, then) /\ UNCHANGED <<ff, ret>>
    ELSE /\ file' = [file EXCEPT ![f] = NoFile]
         /\ ff' = [ff EXCEPT ![p] = file[f]]
         /\ ret' = [ret EXCEPT ![p] = then]
         /\ Goto(p, "close")

\* pipeclose(q, w): under the pipe's lock; the last end frees the page.
Awake(P, q, from, to) ==
    [x \in Procs |-> IF P[x] = from /\ at[x] = q THEN to ELSE P[x]]

pipeclose(q, w) ==
    LET r == IF w THEN [pipe[q] EXCEPT !.writeopen = FALSE]
                  ELSE [pipe[q] EXCEPT !.readopen = FALSE]
        last == ~r.readopen /\ ~r.writeopen
    IN /\ pipe' = [pipe EXCEPT ![q] = IF last THEN NoPipe ELSE r]
       /\ abandoned' = IF w \/ last THEN abandoned \ {q} ELSE abandoned

\* The rest of fileclose.
FileCloseRest(p) ==
    /\ pc[p] = "close"
    /\ \/ /\ ff[p].type = "pipe"
          /\ pipeclose(ff[p].pipe, ff[p].writable)
          /\ pc' = [(IF ff[p].writable THEN Awake(pc, ff[p].pipe, "rsleep", "read")
                     ELSE Awake(pc, ff[p].pipe, "wsleep", "write"))
                    EXCEPT ![p] = ret[p]]
       \/ /\ ff[p].type = "none"
          /\ Goto(p, ret[p]) /\ UNCHANGED <<pipe, abandoned>>
    /\ ff' = [ff EXCEPT ![p] = None] /\ ret' = [ret EXCEPT ![p] = "user"]
    /\ UNCHANGED <<file, ofile, killed, f0, f1, io>> /\ Quiet

\* sys_close
Close(p, f) ==
    /\ Enter(p) /\ ofile[p][f] > 0
    /\ ofile' = [ofile EXCEPT ![p][f] = @ - 1]
    /\ fileclose(p, f, "user")
    /\ UNCHANGED <<pipe, killed, f0, f1, io, abandoned>>

\* sys_dup
Dup(p, f) ==
    /\ Enter(p) /\ ofile[p][f] > 0 /\ FreeFds(p) > 0
    /\ ofile' = [ofile EXCEPT ![p][f] = @ + 1]
    /\ file' = [file EXCEPT ![f].ref = @ + 1]
    /\ UNCHANGED <<pipe, killed, pc, loc, io, abandoned>>

-----------------------------------------------------------------------------
(* sys_pipe, step by step with its ways out. *)

PipeFile0(p) ==
    /\ Enter(p) /\ FreeFiles /= {}
    /\ \E f \in Files : filealloc(f) /\ f0' = [f0 EXCEPT ![p] = f]
    /\ Goto(p, "pipe1")
    /\ UNCHANGED <<pipe, ofile, killed, f1, ff, ret, io, abandoned>>

PipeFile1(p) ==
    /\ pc[p] = "pipe1"
    /\ \/ /\ \E f \in Files : filealloc(f) /\ f1' = [f1 EXCEPT ![p] = f]
          /\ Goto(p, "pipe2")
       \/ FreeFiles = {} /\ Goto(p, "bad") /\ UNCHANGED <<file, f1>>
    /\ UNCHANGED <<pipe, ofile, killed, f0, ff, ret, io, abandoned>> /\ Quiet

\* kalloc, and the rest of pipealloc and sys_pipe, which is private.
Fill(w, q) == [ref |-> 1, type |-> "pipe", pipe |-> q, writable |-> w]

PipeDone(p) ==
    /\ pc[p] = "pipe2"
    /\ \/ \E q \in Pipes :
            /\ ~pipe[q].used
            /\ pipe' = [pipe EXCEPT ![q] =
                    [NoPipe EXCEPT !.used = TRUE, !.readopen = TRUE, !.writeopen = TRUE]]
            /\ file' = [file EXCEPT ![f0[p]] = Fill(FALSE, q), ![f1[p]] = Fill(TRUE, q)]
            /\ IF FreeFds(p) >= 2
               THEN /\ ofile' = [ofile EXCEPT ![p][f0[p]] = 1, ![p][f1[p]] = 1]
                    /\ f0' = [f0 EXCEPT ![p] = None] /\ f1' = [f1 EXCEPT ![p] = None]
                    /\ Goto(p, "user")
               ELSE Goto(p, "bad") /\ UNCHANGED <<ofile, f0, f1>>
       \/ /\ \A q \in Pipes : pipe[q].used
          /\ Goto(p, "bad") /\ UNCHANGED <<pipe, file, ofile, f0, f1>>
    /\ UNCHANGED <<killed, ff, ret, io, abandoned>> /\ Quiet

\* bad: close the first, then the second.
PipeBad(p) ==
    /\ pc[p] = "bad"
    /\ \/ /\ f0[p] /= None
          /\ fileclose(p, f0[p], "bad") /\ f0' = [f0 EXCEPT ![p] = None]
          /\ UNCHANGED f1
       \/ /\ f0[p] = None /\ f1[p] /= None
          /\ fileclose(p, f1[p], "user") /\ f1' = [f1 EXCEPT ![p] = None]
          /\ UNCHANGED f0
       \/ /\ f0[p] = None /\ f1[p] = None
          /\ Goto(p, "user") /\ UNCHANGED <<file, ff, ret, f0, f1>>
    /\ UNCHANGED <<pipe, ofile, killed, io, abandoned>> /\ Quiet

-----------------------------------------------------------------------------
(* Reading and writing a pipe: under the pipe's lock. *)

Used(q)  == (pipe[q].nwrite - pipe[q].nread) % WORD
Full(q)  == pipe[q].nwrite = (pipe[q].nread + PIPESIZE) % WORD
Empty(q) == pipe[q].nread = pipe[q].nwrite

\* fileread and filewrite: the entry says which.
Read(p, f, n) ==
    /\ Enter(p) /\ ofile[p][f] > 0
    /\ file[f].type = "pipe" /\ ~file[f].writable
    /\ at' = [at EXCEPT ![p] = file[f].pipe]
    /\ want' = [want EXCEPT ![p] = n]
    /\ Goto(p, "read")
    /\ UNCHANGED <<left, file, pipe, ofile, killed, loc, abandoned>>

Write(p, f, m) ==
    /\ Enter(p) /\ ofile[p][f] > 0
    /\ file[f].type = "pipe" /\ file[f].writable
    /\ at' = [at EXCEPT ![p] = file[f].pipe]
    /\ left' = [left EXCEPT ![p] = m]
    /\ Goto(p, "write")
    /\ UNCHANGED <<want, file, pipe, ofile, killed, loc, abandoned>>

Return(p, P) ==
    /\ pc' = [P EXCEPT ![p] = "user"]
    /\ at' = [at EXCEPT ![p] = None]
    /\ want' = [want EXCEPT ![p] = 0] /\ left' = [left EXCEPT ![p] = <<>>]

\* The n places of the buffer from a counter's on.
Places(from, n) == {(from + i) % PIPESIZE : i \in 0..(n - 1)}

Take(r, k) ==
    [r EXCEPT !.nread = (@ + k) % WORD,
              !.data = [i \in DOMAIN @ |-> IF i \in Places(r.nread, k) THEN AnyByte ELSE @[i]]]

\* Mutant: the reader does not wake the writers.
MutPipeRead(p) ==
    LET q == at[p]
        k == Min({want[p], Used(q)})
    IN /\ pc[p] = "read"
       /\ IF Empty(q) /\ pipe[q].writeopen
          THEN /\ IF killed[p] THEN Return(p, pc)
                  ELSE Goto(p, "rsleep") /\ UNCHANGED io
               /\ Quiet /\ UNCHANGED pipe
          ELSE /\ gave' = <<>>
               /\ got' = [i \in 1..k |-> pipe[q].data[(pipe[q].nread + i - 1) % PIPESIZE]]
               /\ pipe' = [pipe EXCEPT ![q] = Take(@, k)]
               /\ Return(p, pc)
       /\ UNCHANGED <<file, ofile, killed, loc, abandoned>>

\* piperead's loop and, once there is something or no writer, its copying.
PipeRead(p) ==
    LET q == at[p]
        k == Min({want[p], Used(q)})
    IN /\ pc[p] = "read"
       /\ IF Empty(q) /\ pipe[q].writeopen
          THEN /\ IF killed[p] THEN Return(p, pc)
                  ELSE Goto(p, "rsleep") /\ UNCHANGED io
               /\ Quiet /\ UNCHANGED pipe
          ELSE /\ gave' = <<>>
               /\ got' = [i \in 1..k |-> pipe[q].data[(pipe[q].nread + i - 1) % PIPESIZE]]
               /\ pipe' = [pipe EXCEPT ![q] = Take(@, k)]
               /\ Return(p, Awake(pc, q, "wsleep", "write"))
       /\ UNCHANGED <<file, ofile, killed, loc, abandoned>>

\* Mutant: nwrite is advanced before it is used as an index.
MutPut(r, s, k) ==
    [r EXCEPT !.nwrite = (@ + k) % WORD,
              !.data = [i \in DOMAIN @ |->
                LET j == {x \in 1..k : (r.nwrite + x) % PIPESIZE = i}
                IN IF j = {} THEN @[i] ELSE s[CHOOSE x \in j : TRUE]]]

\* pipewrite: bytes go in until all are written or the pipe is full.
Put(r, s, k) ==
    [r EXCEPT !.nwrite = (@ + k) % WORD,
              !.data = [i \in DOMAIN @ |->
                LET j == {x \in 1..k : (r.nwrite + x - 1) % PIPESIZE = i}
                IN IF j = {} THEN @[i] ELSE s[CHOOSE x \in j : TRUE]]]

PipeWrite(p) ==
    LET q == at[p]
        k == Min({Len(left[p]), PIPESIZE - Used(q)})
    IN /\ pc[p] = "write"
       /\ pipe' = [pipe EXCEPT ![q] = Put(@, left[p], k)]
       /\ gave' = SubSeq(left[p], 1, k) /\ got' = <<>>
       /\ IF k = Len(left[p])
          THEN /\ Return(p, Awake(pc, q, "rsleep", "read"))
               /\ abandoned' = abandoned \ {q}
          ELSE IF ~pipe[q].readopen \/ killed[p]
          THEN /\ Return(p, pc)
               /\ abandoned' = IF \E x \in Procs : pc[x] = "rsleep" /\ at[x] = q
                               THEN abandoned \cup {q} ELSE abandoned
          ELSE /\ left' = [left EXCEPT ![p] = SubSeq(@, k + 1, Len(@))]
               /\ pc' = [Awake(pc, q, "rsleep", "read") EXCEPT ![p] = "wsleep"]
               /\ abandoned' = abandoned \ {q} /\ UNCHANGED <<at, want>>
       /\ UNCHANGED <<file, ofile, killed, loc>>

-----------------------------------------------------------------------------
(* Processes. *)

\* A process with nothing but the console open.
Start(p) ==
    /\ pc[p] = "unused" /\ Goto(p, "user")
    /\ UNCHANGED <<file, pipe, ofile, killed, loc, io, abandoned>> /\ Quiet

\* fork: the child has the same files; each filedup only adds a reference.
Fork(p, c) ==
    /\ Enter(p) /\ pc[c] = "unused"
    /\ ofile' = [ofile EXCEPT ![c] = ofile[p]]
    /\ file' = [f \in Files |->
            [file[f] EXCEPT !.ref = @ + ofile[p][f]]]
    /\ Goto(c, "user")
    /\ UNCHANGED <<pipe, killed, loc, io, abandoned>>

\* Mutant: a sleeper is left asleep.
MutKill(p) ==
    /\ pc[p] /= "unused"
    /\ killed' = [killed EXCEPT ![p] = TRUE]
    /\ UNCHANGED <<file, pipe, ofile, pc, loc, io, abandoned>> /\ Quiet

\* kill: a sleeper is made runnable, wherever it sleeps.
Kill(p) ==
    /\ pc[p] /= "unused"
    /\ killed' = [killed EXCEPT ![p] = TRUE]
    /\ Goto(p, CASE pc[p] = "rsleep" -> "read" [] pc[p] = "wsleep" -> "write"
                 [] OTHER -> pc[p])
    /\ UNCHANGED <<file, pipe, ofile, loc, io, abandoned>> /\ Quiet

Exit(p) ==
    /\ pc[p] = "user"
    /\ Quiet /\ Goto(p, "exit")
    /\ UNCHANGED <<file, pipe, ofile, killed, loc, io, abandoned>>

\* exit's loop, then the zombie that wait() will free.
ExitClose(p) ==
    /\ pc[p] = "exit"
    /\ \/ \E f \in Files :
            /\ ofile[p][f] > 0
            /\ ofile' = [ofile EXCEPT ![p][f] = @ - 1]
            /\ fileclose(p, f, "exit") /\ UNCHANGED killed
       \/ /\ \A f \in Files : ofile[p][f] = 0
          /\ Goto(p, "unused")
          /\ killed' = [killed EXCEPT ![p] = FALSE]
          /\ UNCHANGED <<ofile, file, ff, ret>>
    /\ UNCHANGED <<pipe, f0, f1, io, abandoned>> /\ Quiet

-----------------------------------------------------------------------------
\* What a process goes on to do by itself, once in a system call.
Step(p) ==
    \/ FileCloseRest(p) \/ PipeFile1(p) \/ PipeDone(p) \/ PipeBad(p)
    \/ PipeRead(p) \/ PipeWrite(p) \/ ExitClose(p)

Next ==
    \E p \in Procs :
        \/ Step(p) \/ Start(p) \/ Kill(p) \/ Exit(p)
        \/ PipeFile0(p)
        \/ \E c \in Procs : Fork(p, c)
        \/ \E f \in Files : Close(p, f) \/ Dup(p, f)
        \/ \E f \in Files, n \in ReadSizes : Read(p, f, n)
        \/ \E f \in Files, m \in Messages : Write(p, f, m)

Spec == Init /\ [][Next]_vars

\* The scheduler runs every process that is not asleep, and one that was
\* killed does not get past trap().
Fairness == \A p \in Procs : WF_vars(Step(p)) /\ WF_vars(killed[p] /\ Exit(p))

FairSpec == Spec /\ Fairness

-----------------------------------------------------------------------------
(* Properties. *)

\* Every reference to an entry of the table is counted, and nothing else: the
\* descriptors of all processes and the files a call holds in its locals.
Descriptors(f) == {x \in Procs \X (1..NOFILE) : x[2] <= ofile[x[1]][f]}

RefsExact ==
    \A f \in Files :
        file[f].ref =
            Cardinality(Descriptors(f))
            + Cardinality({p \in Procs : f0[p] = f})
            + Cardinality({p \in Procs : f1[p] = f})

\* An end of a pipe is open as long as one entry of the table is that end, or
\* a process is about to close it, and never two; so the page is freed once,
\* with the last end, and nobody who reads, writes or sleeps has a freed page.
IsEnd(e, q, w) == e.type = "pipe" /\ e.pipe = q /\ e.writable = w
EndFiles(q, w) == {f \in Files : file[f].ref > 0 /\ IsEnd(file[f], q, w)}
EndClosers(q, w) == {p \in Procs : ff[p] /= None /\ IsEnd(ff[p], q, w)}

EndsOwned ==
    \A q \in Pipes :
        /\ \A w \in BOOLEAN :
            Cardinality(EndFiles(q, w)) + Cardinality(EndClosers(q, w))
            = IF pipe[q].used /\ (IF w THEN pipe[q].writeopen ELSE pipe[q].readopen)
              THEN 1 ELSE 0
        /\ pipe[q].used <=> pipe[q].readopen \/ pipe[q].writeopen
        /\ \A p \in Procs : at[p] = q =>
            IF pc[p] \in {"read", "rsleep"} THEN pipe[q].readopen
            ELSE pipe[q].writeopen

\* What is open is counted, entry by entry and end by end, also while the table
\* and the pipe are changed one after the other.
RefsOK == TypeOK /\ RefsExact /\ EndsOwned

\* Nobody sleeps through what he waits for: a reader asleep has an empty pipe
\* that someone may still write, a writer asleep a full one that someone may
\* still read.  (A killed writer returns from a full pipe without waking the
\* readers: abandoned.)
NoLostWakeup ==
    \A p \in Procs :
        /\ pc[p] = "rsleep" => \/ Empty(at[p]) /\ pipe[at[p]].writeopen
                               \/ at[p] \in abandoned
        /\ pc[p] = "wsleep" => Full(at[p]) /\ pipe[at[p]].readopen

\* A killed process exits, wherever in a call it was.
KilledExits == \A p \in Procs : killed[p] ~> pc[p] = "unused"

\* The bytes between nread and nwrite, where both have wrapped any number of
\* times.
Content(q) ==
    [i \in 1..Used(q) |-> pipe[q].data[(pipe[q].nread + i - 1) % PIPESIZE]]

C == INSTANCE Channel WITH
        Channels <- Pipes, Capacity <- PIPESIZE,
        ends <- [q \in Pipes |-> {e \in {"r", "w"} :
                    IF e = "r" THEN pipe[q].readopen ELSE pipe[q].writeopen}],
        queue <- [q \in Pipes |-> Content(q)]

\* Through wrapping counters, partial reads and writes, closing and reuse of
\* pages and table entries, pipes are bounded queues of bytes.
PipesAreChannels == C!CSpec
==============================================================================
