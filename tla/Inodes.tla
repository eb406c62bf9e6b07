------------------------------- MODULE Inodes -------------------------------
(***************************************************************************)
(* Inodes, the inode cache, directories and path names (fs.c), and the     *)
(* system calls that move them: open, create, mkdir, link, unlink, chdir   *)
(* and close of sysfile.c and file.c.                                      *)
(*                                                                         *)
(* A step starts where a process takes a lock (icache.lock or an inode's   *)
(* sleep-lock) and goes on as long as it waits for no other; where it      *)
(* waits for a second sleep-lock, it holds the first.  Transactions are    *)
(* module Log's.  Of a file's content only its existence matters; of a     *)
(* directory its entries.                                                  *)
(***************************************************************************)
EXTENDS Integers, Sequences, FiniteSets, FiniteSetsExt

CONSTANTS
    Procs,
    NINODE,     \* entries of the inode cache
    NInums,     \* inodes on disk; 1 is the root, 0 is none
    Names,      \* names of entries other than "." and ".."
    Paths,      \* sequences of names, for paths from the root
    RelPaths,   \* those used from the current directory
    MAXLINK,    \* bound: no more calls of link when a file has so many links
    Calls,      \* Calls[p]: the system calls that p makes
    None

\* Names every directory has.  They are looked up as the last name of link's
\* second path only.
Dots == {".", ".."}
Walks == {pa \in Seq(Names \cup Dots) : \A i \in 1..(Len(pa) - 1) : pa[i] \in Names}
Plain(pa) == pa[Len(pa)] \in Names

ASSUME InodeAssumption ==
    /\ NINODE \in Nat \ {0} /\ NInums \in Nat \ {0} /\ MAXLINK \in Nat
    /\ Paths \cup RelPaths \subseteq Walks \ {<<>>} /\ Names \cap Dots = {}
    /\ \A p \in Procs :
        Calls[p] \subseteq {"open", "creat", "mkdir", "link", "unlink", "chdir"}
    /\ IsFiniteSet(Procs) /\ IsFiniteSet(Names) /\ None \notin Procs

Slots == 1..NINODE
Inums == 1..NInums
Root  == 1

VARIABLES
    dinode,     \* on disk: type, links, and the entries of a directory
    dotdot,     \* the inode in a directory's ".."; Root for what is none
    icache,     \* struct inode: inum, ref, valid, and copies of type and nlink
    lock,       \* the holder of each entry's sleep-lock
    pc, op,     \* where a process is, in which call
    path, to,   \* the path still to be walked; link's second path
    cur,        \* namex's ip
    ip, dp,     \* the call's inode and directory
    put, ret,   \* iput's argument and where it returns to
    file, cwd   \* an open file of the process, its current directory

vars == <<dinode, dotdot, icache, lock, pc, op, path, to, cur, ip, dp, put, ret, file, cwd>>

NoEntries == [n \in Names |-> 0]
NoEntry == [inum |-> 0, ref |-> 0, valid |-> FALSE, type |-> "free", nlink |-> 0]
Fresh(i) == [NoEntry EXCEPT !.inum = i, !.ref = 1]
FreeInode == [type |-> "free", nlink |-> 0, ent |-> NoEntries]

PCs == {"idle", "namex", "iput", "trunc", "unref", "open", "close", "create", "exists",
        "new", "created", "unlink", "remove", "letgo", "removed", "link", "enter",
        "entered", "unenter", "chdir", "panic", "bug"}

TypeOK ==
    /\ dinode \in [Inums -> [type : {"free", "file", "dir"}, nlink : Nat,
                             ent : [Names -> 0..NInums]]]
    /\ dotdot \in [Inums -> Inums]
    /\ icache \in [Slots -> [inum : 0..NInums, ref : 0..(6 * Cardinality(Procs)),
                             valid : BOOLEAN, type : {"free", "file", "dir"},
                             nlink : Nat]]
    /\ lock \in [Slots -> Procs \cup {None}]
    /\ pc \in [Procs -> PCs] /\ ret \in [Procs -> PCs]
    /\ \A v \in {cur, ip, dp, put, file} : v \in [Procs -> Slots \cup {0}]
    /\ cwd \in [Procs -> Slots]

\* The file system mkfs made is empty; every process is in the root.
Init ==
    /\ dinode = [i \in Inums |-> IF i = Root
                    THEN [FreeInode EXCEPT !.type = "dir", !.nlink = 1]
                    ELSE FreeInode]
    /\ dotdot = [i \in Inums |-> Root]
    /\ icache = [s \in Slots |-> IF s = 1 THEN [Fresh(Root) EXCEPT !.ref = Cardinality(Procs)]
                                ELSE NoEntry]
    /\ lock = [s \in Slots |-> None]
    /\ pc = [p \in Procs |-> "idle"] /\ op = [p \in Procs |-> "none"]
    /\ path = [p \in Procs |-> <<>>] /\ to = [p \in Procs |-> <<>>]
    /\ cur = [p \in Procs |-> 0] /\ ip = [p \in Procs |-> 0] /\ dp = [p \in Procs |-> 0]
    /\ put = [p \in Procs |-> 0] /\ ret = [p \in Procs |-> "idle"]
    /\ file = [p \in Procs |-> 0] /\ cwd = [p \in Procs |-> 1]

\* Out of inodes or of cache entries; a check of the code's own that failed.
Up == \A p \in Procs : pc[p] \notin {"panic", "bug"}

-----------------------------------------------------------------------------
(* The inode cache. *)

\* iget: the entry that has the inode, or the first free one.
EntriesOf(T, i) == {s \in Slots : T[s].ref > 0 /\ T[s].inum = i}
FreeEntries(T)  == {s \in Slots : T[s].ref = 0}
CanGet(T, i)    == EntriesOf(T, i) /= {} \/ FreeEntries(T) /= {}
SlotOf(T, i)    == IF EntriesOf(T, i) /= {} THEN Min(EntriesOf(T, i)) ELSE Min(FreeEntries(T))
iget(T, i) ==
    IF EntriesOf(T, i) /= {} THEN [T EXCEPT ![SlotOf(T, i)].ref = @ + 1]
    ELSE [T EXCEPT ![SlotOf(T, i)] = Fresh(i)]

\* ilock(s): read from disk if need be.
Load(T, s) ==
    IF T[s].valid THEN T
    ELSE [T EXCEPT ![s].valid = TRUE, ![s].type = dinode[T[s].inum].type,
                   ![s].nlink = dinode[T[s].inum].nlink]
Typeless(s) == Load(icache, s)[s].type = "free" /\ ~icache[s].valid

\* A change of nlink and iupdate: the cache is written through.
SetLinks(T, s, n) == [T EXCEPT ![s].nlink = n]

Goto(p, where) == pc' = [pc EXCEPT ![p] = where]

\* Back in user space the call's own variables are gone.
Leave(p, where) ==
    /\ Goto(p, where)
    /\ op' = [op EXCEPT ![p] = IF where = "idle" THEN "none" ELSE @]
    /\ path' = [path EXCEPT ![p] = IF where = "idle" THEN <<>> ELSE @]
    /\ to' = [to EXCEPT ![p] = IF where = "idle" THEN <<>> ELSE @]

\* iput(s), then "where".
CallIput(p, s, where) ==
    /\ put' = [put EXCEPT ![p] = s] /\ ret' = [ret EXCEPT ![p] = where]
    /\ Goto(p, "iput")

\* Mutant: other references are not looked for.
MutIput(p) ==
    LET s == put[p]
        last == icache[s].valid /\ icache[s].nlink = 0
    IN /\ Up /\ pc[p] = "iput" /\ lock[s] = None
       /\ lock' = IF last THEN [lock EXCEPT ![s] = p] ELSE lock
       /\ Goto(p, IF last THEN "trunc" ELSE "unref")
       /\ UNCHANGED <<dinode, icache, op, path, to, cur, ip, dp, put, ret, file, cwd, dotdot>>

\* iput: look whether the inode has to be freed, under its lock ...
Iput(p) ==
    LET s == put[p]
        last == icache[s].valid /\ icache[s].nlink = 0 /\ icache[s].ref = 1
    IN /\ Up /\ pc[p] = "iput" /\ lock[s] = None
       /\ lock' = IF last THEN [lock EXCEPT ![s] = p] ELSE lock
       /\ Goto(p, IF last THEN "trunc" ELSE "unref")
       /\ UNCHANGED <<dinode, icache, op, path, to, cur, ip, dp, put, ret, file, cwd, dotdot>>

\* Mutant: the cache entry stays valid.
MutTrunc(p) ==
    LET s == put[p]
    IN /\ Up /\ pc[p] = "trunc"
       /\ dinode' = [dinode EXCEPT ![icache[s].inum] = FreeInode]
       /\ icache' = [icache EXCEPT ![s].type = "free", ![s].nlink = 0]
       /\ lock' = [lock EXCEPT ![s] = None]
       /\ Goto(p, "unref")
       /\ dotdot' = [dotdot EXCEPT ![icache[s].inum] = Root]
       /\ UNCHANGED <<op, path, to, cur, ip, dp, put, ret, file, cwd>>

\* ... itrunc and free it ...
Trunc(p) ==
    LET s == put[p]
    IN /\ Up /\ pc[p] = "trunc"
       /\ dinode' = [dinode EXCEPT ![icache[s].inum] = FreeInode]
       /\ icache' = [icache EXCEPT ![s].valid = FALSE, ![s].type = "free", ![s].nlink = 0]
       /\ lock' = [lock EXCEPT ![s] = None]
       /\ Goto(p, "unref")
       /\ dotdot' = [dotdot EXCEPT ![icache[s].inum] = Root]
       /\ UNCHANGED <<op, path, to, cur, ip, dp, put, ret, file, cwd>>

\* ... and drop the reference.  (An entry nobody refers to is not looked at.)
Unref(p) ==
    /\ Up /\ pc[p] = "unref"
    /\ icache' = IF icache[put[p]].ref = 1 THEN [icache EXCEPT ![put[p]] = NoEntry]
                 ELSE [icache EXCEPT ![put[p]].ref = @ - 1]
    /\ Leave(p, ret[p])
    /\ put' = [put EXCEPT ![p] = 0] /\ ret' = [ret EXCEPT ![p] = "idle"]
    /\ UNCHANGED <<dinode, lock, cur, ip, dp, file, cwd, dotdot>>

-----------------------------------------------------------------------------
(* Path names. *)

\* Calls that want the parent of the last name, and where they go on with it;
\* calls that want the inode itself, and where they go on; where all of them go
\* on when there is none.
WantsParent(p) == op[p] \in {"creat", "mkdir", "unlink"} \/ (op[p] = "link" /\ ip[p] /= 0)
Then(p) == CASE op[p] = "unlink" -> "unlink"
             [] op[p] \in {"creat", "mkdir"} -> "create"
             [] op[p] = "link" -> IF ip[p] /= 0 THEN "enter" ELSE "link"
             [] OTHER -> op[p]
Else(p) == IF op[p] = "link" /\ ip[p] /= 0 THEN "unenter" ELSE "idle"

\* namex begins at the root or, for a relative path, at the current directory.
StartAt(p, pa, T) ==
    \/ /\ pa \in RelPaths
       /\ icache' = [T EXCEPT ![cwd[p]].ref = @ + 1]
       /\ cur' = [cur EXCEPT ![p] = cwd[p]]
    \/ /\ pa \in Paths /\ CanGet(T, Root)
       /\ icache' = iget(T, Root)
       /\ cur' = [cur EXCEPT ![p] = SlotOf(T, Root)]

Call(p, o, pa, t) ==
    /\ Up /\ pc[p] = "idle" /\ Plain(pa)
    /\ o \in {"open", "creat"} => file[p] = 0
    /\ o = "link" => \A i \in Inums : dinode[i].type = "file" => dinode[i].nlink < MAXLINK
    /\ op' = [op EXCEPT ![p] = o]
    /\ path' = [path EXCEPT ![p] = pa] /\ to' = [to EXCEPT ![p] = t]
    /\ ip' = [ip EXCEPT ![p] = 0] /\ dp' = [dp EXCEPT ![p] = 0]
    /\ StartAt(p, pa, icache)
    /\ Goto(p, "namex")
    /\ UNCHANGED <<dinode, lock, put, ret, file, cwd, dotdot>>

\* One turn of namex's loop: the directory is locked, looked into and unlocked;
\* what was found is referred to before the directory is let go.
Namex(p) ==
    LET s == cur[p]
        T == Load(icache, s)
        parent == WantsParent(p) /\ Len(path[p]) = 1
        found == dinode[T[s].inum].ent[Head(path[p])]
    IN /\ Up /\ pc[p] = "namex" /\ lock[s] = None
       /\ \/ Typeless(s) /\ Goto(p, "bug") /\ UNCHANGED <<icache, path, cur, ip, dp, put, ret>>
          \/ /\ ~Typeless(s) /\ T[s].type = "dir" /\ parent
             /\ icache' = T /\ dp' = [dp EXCEPT ![p] = s]
             /\ cur' = [cur EXCEPT ![p] = 0]
             /\ Goto(p, Then(p)) /\ UNCHANGED <<path, ip, put, ret>>
          \/ /\ ~Typeless(s) /\ (T[s].type /= "dir" \/ (~parent /\ found = 0))
             /\ icache' = T /\ cur' = [cur EXCEPT ![p] = 0]
             /\ CallIput(p, s, Else(p)) /\ UNCHANGED <<path, ip, dp>>
          \/ /\ ~Typeless(s) /\ T[s].type = "dir" /\ ~parent /\ found /= 0
             /\ IF ~CanGet(T, found)
                THEN Goto(p, "panic") /\ UNCHANGED <<icache, path, cur, ip, put, ret>>
                ELSE /\ icache' = iget(T, found)
                     /\ path' = [path EXCEPT ![p] = Tail(@)]
                     /\ IF Len(path[p]) = 1
                        THEN /\ ip' = [ip EXCEPT ![p] = SlotOf(T, found)]
                             /\ cur' = [cur EXCEPT ![p] = 0]
                             /\ CallIput(p, s, Then(p))
                        ELSE /\ cur' = [cur EXCEPT ![p] = SlotOf(T, found)]
                             /\ CallIput(p, s, "namex") /\ UNCHANGED ip
             /\ UNCHANGED dp
       /\ UNCHANGED <<dinode, lock, op, to, file, cwd, dotdot>>

Last(p) == path[p][Len(path[p])]

-----------------------------------------------------------------------------
(* open, without O_CREATE; close; chdir. *)

\* ilock(ip); then an open file for it, unless it is a directory to be written or
\* there is no more room in the tables of files.
OpenIt(p) ==
    LET s == ip[p]
    IN /\ Up /\ pc[p] = "open" /\ lock[s] = None
       /\ icache' = Load(icache, s)
       /\ \/ Typeless(s) /\ Leave(p, "bug") /\ UNCHANGED <<ip, put, ret, file>>
          \/ /\ ~Typeless(s)
             /\ file' = [file EXCEPT ![p] = s] /\ ip' = [ip EXCEPT ![p] = 0]
             /\ Leave(p, "idle") /\ UNCHANGED <<put, ret>>
          \/ /\ ~Typeless(s)
             /\ ip' = [ip EXCEPT ![p] = 0]
             /\ CallIput(p, s, "idle") /\ UNCHANGED <<op, path, to, file>>
       /\ UNCHANGED <<dinode, lock, cur, dp, cwd, dotdot>>

CloseFile(p) ==
    /\ Up /\ pc[p] = "idle" /\ file[p] /= 0
    /\ file' = [file EXCEPT ![p] = 0]
    /\ CallIput(p, file[p], "idle")
    /\ UNCHANGED <<dinode, icache, lock, op, path, to, cur, ip, dp, cwd, dotdot>>

Chdir(p) ==
    LET s == ip[p]
        dir == Load(icache, s)[s].type = "dir"
    IN /\ Up /\ pc[p] = "chdir" /\ lock[s] = None
       /\ icache' = Load(icache, s)
       /\ IF Typeless(s) THEN Goto(p, "bug") /\ UNCHANGED <<ip, put, ret, cwd>>
          ELSE /\ CallIput(p, IF dir THEN cwd[p] ELSE s, "idle")
               /\ cwd' = IF dir THEN [cwd EXCEPT ![p] = s] ELSE cwd
               /\ ip' = [ip EXCEPT ![p] = 0]
       /\ UNCHANGED <<dinode, lock, op, path, to, cur, dp, file, dotdot>>

-----------------------------------------------------------------------------
(* create: open with O_CREATE, and mkdir. *)

Create(p) ==
    LET d == dp[p]
        T == Load(icache, d)
        found == dinode[T[d].inum].ent[Last(p)]
        free == {i \in Inums : dinode[i].type = "free"}
        i == IF found /= 0 THEN found ELSE Min(free)
    IN /\ Up /\ pc[p] = "create" /\ lock[d] = None
       /\ IF (found = 0 /\ free = {}) \/ ~CanGet(T, i)
          THEN Goto(p, "panic") /\ UNCHANGED <<dinode, icache, lock, ip, dp, put, ret>>
          ELSE /\ icache' = iget(T, i)
               /\ ip' = [ip EXCEPT ![p] = SlotOf(T, i)]
               /\ IF found /= 0
                  THEN /\ CallIput(p, d, "exists") /\ dp' = [dp EXCEPT ![p] = 0]
                       /\ UNCHANGED <<dinode, lock>>
                  ELSE /\ dinode' = [dinode EXCEPT ![i] = [FreeInode EXCEPT
                                !.type = IF op[p] = "mkdir" THEN "dir" ELSE "file"]]
                       /\ lock' = [lock EXCEPT ![d] = p]
                       /\ Goto(p, "new") /\ UNCHANGED <<dp, put, ret>>
       /\ UNCHANGED <<op, path, to, cur, file, cwd, dotdot>>

\* There is one already: good enough if a file was asked for and it is one.
CreateExists(p) ==
    LET s == ip[p]
    IN /\ Up /\ pc[p] = "exists" /\ lock[s] = None
       /\ icache' = Load(icache, s)
       /\ IF Typeless(s) THEN Goto(p, "bug") /\ UNCHANGED <<lock, ip, put, ret>>
          ELSE IF op[p] = "creat" /\ Load(icache, s)[s].type = "file"
          THEN /\ lock' = [lock EXCEPT ![s] = p]
               /\ Goto(p, "created") /\ UNCHANGED <<ip, put, ret>>
          ELSE /\ CallIput(p, s, "idle") /\ ip' = [ip EXCEPT ![p] = 0]
               /\ UNCHANGED lock
       /\ UNCHANGED <<dinode, op, path, to, cur, dp, file, cwd, dotdot>>

\* Links, "." and "..", and the entry; then the directory is let go while the
\* new inode is still locked.
CreateNew(p) ==
    LET s == ip[p]
        d == dp[p]
        T == Load(icache, s)
        i == T[s].inum
        di == T[d].inum
        up == T[d].nlink + (IF op[p] = "mkdir" THEN 1 ELSE 0)
    IN /\ Up /\ pc[p] = "new" /\ lock[s] = None
       /\ icache' = SetLinks(SetLinks(T, s, 1), d, up)
       /\ dinode' = [dinode EXCEPT
                ![i].nlink = 1, ![di].nlink = up, ![di].ent[Last(p)] = i]
       /\ dotdot' = IF op[p] = "mkdir" THEN [dotdot EXCEPT ![i] = di] ELSE dotdot
       /\ lock' = [lock EXCEPT ![s] = p, ![d] = None]
       /\ dp' = [dp EXCEPT ![p] = 0]
       /\ CallIput(p, d, "created")
       /\ UNCHANGED <<op, path, to, cur, ip, file, cwd>>

\* sys_open takes the inode for its file, if it can have one.
Created(p) ==
    LET s == ip[p]
    IN /\ Up /\ pc[p] = "created"
       /\ lock' = [lock EXCEPT ![s] = None] /\ ip' = [ip EXCEPT ![p] = 0]
       /\ \/ /\ op[p] = "creat"
             /\ file' = [file EXCEPT ![p] = s]
             /\ Leave(p, "idle") /\ UNCHANGED <<put, ret>>
          \/ CallIput(p, s, "idle") /\ UNCHANGED <<op, path, to, file>>
       /\ UNCHANGED <<dinode, icache, cur, dp, cwd, dotdot>>

-----------------------------------------------------------------------------
(* unlink *)

\* Under the directory's lock, which is kept.
Unlink(p) ==
    LET d == dp[p]
        T == Load(icache, d)
        found == dinode[T[d].inum].ent[Last(p)]
    IN /\ Up /\ pc[p] = "unlink" /\ lock[d] = None
       /\ IF found = 0
          THEN /\ icache' = T /\ dp' = [dp EXCEPT ![p] = 0]
               /\ CallIput(p, d, "idle") /\ UNCHANGED <<lock, ip>>
          ELSE IF ~CanGet(T, found)
          THEN Goto(p, "panic") /\ UNCHANGED <<icache, lock, ip, dp, put, ret>>
          ELSE /\ icache' = iget(T, found)
               /\ ip' = [ip EXCEPT ![p] = SlotOf(T, found)]
               /\ lock' = [lock EXCEPT ![d] = p]
               /\ Goto(p, "remove") /\ UNCHANGED <<dp, put, ret>>
       /\ UNCHANGED <<dinode, op, path, to, cur, file, cwd, dotdot>>

\* With the inode locked too: not a directory with entries; clear the entry,
\* let the directory go.
Remove(p) ==
    LET s == ip[p]
        d == dp[p]
        T == Load(icache, s)
        dir == T[s].type = "dir"
        di == T[d].inum
        down == T[d].nlink - (IF dir THEN 1 ELSE 0)
    IN /\ Up /\ pc[p] = "remove" /\ lock[s] = None
       /\ IF Typeless(s) \/ T[s].nlink < 1
          THEN Goto(p, "bug") /\ UNCHANGED <<dinode, icache, lock, ip, dp, put, ret>>
          ELSE IF dir /\ dinode[T[s].inum].ent /= NoEntries
          THEN /\ icache' = T /\ ip' = [ip EXCEPT ![p] = 0]
               /\ CallIput(p, s, "letgo") /\ UNCHANGED <<dinode, lock, dp>>
          ELSE /\ icache' = SetLinks(T, d, down)
               /\ dinode' = [dinode EXCEPT ![di].ent[Last(p)] = 0, ![di].nlink = down]
               /\ lock' = [lock EXCEPT ![s] = p, ![d] = None]
               /\ dp' = [dp EXCEPT ![p] = 0]
               /\ CallIput(p, d, "removed") /\ UNCHANGED ip
       /\ UNCHANGED <<op, path, to, cur, file, cwd, dotdot>>

\* Nothing done: the directory goes back as well.
LetGo(p) ==
    /\ Up /\ pc[p] = "letgo"
    /\ lock' = [lock EXCEPT ![dp[p]] = None] /\ dp' = [dp EXCEPT ![p] = 0]
    /\ CallIput(p, dp[p], Else(p))
    /\ UNCHANGED <<dinode, icache, op, path, to, cur, ip, file, cwd, dotdot>>

Removed(p) ==
    LET s == ip[p]
    IN /\ Up /\ pc[p] = "removed"
       /\ icache' = SetLinks(icache, s, icache[s].nlink - 1)
       /\ dinode' = [dinode EXCEPT ![icache[s].inum].nlink = icache[s].nlink - 1]
       /\ lock' = [lock EXCEPT ![s] = None] /\ ip' = [ip EXCEPT ![p] = 0]
       /\ CallIput(p, s, "idle")
       /\ UNCHANGED <<op, path, to, cur, dp, file, cwd, dotdot>>

-----------------------------------------------------------------------------
(* link *)

\* Mutant: the link is entered and not counted.
MutLink(p) ==
    LET s == ip[p]
        T == Load(icache, s)
        n == T[s].nlink
    IN /\ Up /\ pc[p] = "link" /\ lock[s] = None
       /\ \/ /\ Typeless(s) /\ Goto(p, "bug")
             /\ UNCHANGED <<dinode, icache, path, to, cur, ip, put, ret>>
          \/ /\ ~Typeless(s) /\ T[s].type = "dir"
             /\ icache' = T /\ ip' = [ip EXCEPT ![p] = 0]
             /\ CallIput(p, s, "idle") /\ UNCHANGED <<dinode, path, to, cur>>
          \/ /\ ~Typeless(s) /\ T[s].type = "file"
             /\ dinode' = [dinode EXCEPT ![T[s].inum].nlink = n]
             /\ StartAt(p, to[p], SetLinks(T, s, n))
             /\ path' = [path EXCEPT ![p] = to[p]] /\ to' = [to EXCEPT ![p] = <<>>]
             /\ Goto(p, "namex") /\ UNCHANGED <<ip, put, ret>>
       /\ UNCHANGED <<lock, op, dp, file, cwd, dotdot>>

\* One more link, before there is an entry for it; then the second path.
Link(p) ==
    LET s == ip[p]
        T == Load(icache, s)
        n == T[s].nlink + 1
    IN /\ Up /\ pc[p] = "link" /\ lock[s] = None
       /\ \/ /\ Typeless(s) /\ Goto(p, "bug")
             /\ UNCHANGED <<dinode, icache, path, to, cur, ip, put, ret>>
          \/ /\ ~Typeless(s) /\ T[s].type = "dir"
             /\ icache' = T /\ ip' = [ip EXCEPT ![p] = 0]
             /\ CallIput(p, s, "idle") /\ UNCHANGED <<dinode, path, to, cur>>
          \/ /\ ~Typeless(s) /\ T[s].type = "file"
             /\ dinode' = [dinode EXCEPT ![T[s].inum].nlink = n]
             /\ StartAt(p, to[p], SetLinks(T, s, n))
             /\ path' = [path EXCEPT ![p] = to[p]] /\ to' = [to EXCEPT ![p] = <<>>]
             /\ Goto(p, "namex") /\ UNCHANGED <<ip, put, ret>>
       /\ UNCHANGED <<lock, op, dp, file, cwd, dotdot>>

\* dirlink under the directory's lock.  A name that is there already is put
\* back, with the directory still locked; "." and ".." are always there.
Enter(p) ==
    LET d == dp[p]
        T == Load(icache, d)
        di == T[d].inum
        found == IF Last(p) = "." THEN di ELSE IF Last(p) = ".." THEN dotdot[di]
                 ELSE dinode[di].ent[Last(p)]
    IN /\ Up /\ pc[p] = "enter" /\ lock[d] = None
       /\ IF found = 0
          THEN /\ icache' = T /\ dp' = [dp EXCEPT ![p] = 0]
               /\ dinode' = [dinode EXCEPT ![di].ent[Last(p)] = icache[ip[p]].inum]
               /\ CallIput(p, d, "entered") /\ UNCHANGED lock
          ELSE IF ~CanGet(T, found)
          THEN Goto(p, "panic") /\ UNCHANGED <<dinode, icache, lock, dp, put, ret>>
          ELSE /\ icache' = iget(T, found)
               /\ lock' = [lock EXCEPT ![d] = p]
               /\ CallIput(p, SlotOf(T, found), "letgo")
               /\ UNCHANGED <<dinode, dp>>
       /\ UNCHANGED <<op, path, to, cur, ip, file, cwd, dotdot>>

Entered(p) ==
    /\ Up /\ pc[p] = "entered"
    /\ ip' = [ip EXCEPT ![p] = 0] /\ CallIput(p, ip[p], "idle")
    /\ UNCHANGED <<dinode, icache, lock, op, path, to, cur, dp, file, cwd, dotdot>>

\* bad: take the link back.
Unenter(p) ==
    LET s == ip[p]
        T == Load(icache, s)
    IN /\ Up /\ pc[p] = "unenter" /\ lock[s] = None
       /\ icache' = SetLinks(T, s, T[s].nlink - 1)
       /\ dinode' = [dinode EXCEPT ![T[s].inum].nlink = T[s].nlink - 1]
       /\ ip' = [ip EXCEPT ![p] = 0] /\ CallIput(p, s, "idle")
       /\ UNCHANGED <<lock, op, path, to, cur, dp, file, cwd, dotdot>>

\* A panic stops the machine; processes that wait for each other's locks wait.
Wants(p) ==
    CASE pc[p] = "iput" -> put[p]
      [] pc[p] = "namex" -> cur[p]
      [] pc[p] \in {"create", "unlink", "enter"} -> dp[p]
      [] pc[p] \in {"open", "chdir", "exists", "new", "remove", "link", "unenter"} -> ip[p]
      [] OTHER -> 0
Holder(p) == IF Wants(p) = 0 THEN None ELSE lock[Wants(p)]

Halted == ~Up /\ UNCHANGED vars
Stuck  == Up /\ (\A p \in Procs : Holder(p) /= None) /\ UNCHANGED vars

-----------------------------------------------------------------------------
Next ==
    \/ \E p \in Procs :
        \/ Iput(p) \/ Trunc(p) \/ Unref(p) \/ Namex(p) \/ OpenIt(p) \/ CloseFile(p)
        \/ Chdir(p) \/ Create(p) \/ CreateExists(p) \/ CreateNew(p) \/ Created(p)
        \/ Unlink(p) \/ Remove(p) \/ LetGo(p) \/ Removed(p)
        \/ Link(p) \/ Enter(p) \/ Entered(p) \/ Unenter(p)
    \/ \E p \in Procs, pa \in Paths \cup RelPaths : \E o \in Calls[p] \ {"link"} : Call(p, o, pa, <<>>)
    \/ \E p \in Procs, pa, t \in Paths \cup RelPaths : "link" \in Calls[p] /\ Call(p, "link", pa, t)
    \/ Halted \/ Stuck

Spec == Init /\ [][Next]_vars

-----------------------------------------------------------------------------
(* Properties. *)

\* ref counts the pointers to a cache entry: those in the calls under way, open
\* files and current directories.  No pointer is lost on a way out of a call.
RefsExact ==
    \A s \in Slots :
        icache[s].ref = Cardinality({x \in Procs \X (1..6) :
                                <<cur, ip, dp, put, file, cwd>>[x[2]][x[1]] = s})

\* An inode has one entry in the cache, and what a valid entry says of it is
\* what the disk says: a recycled entry, or an inode freed and allocated anew
\* while its last reference is being dropped, never shows an old inode.
CacheCoherent ==
    \A s \in Slots : icache[s].ref > 0 =>
        /\ \A t \in Slots : icache[t].ref > 0 /\ icache[t].inum = icache[s].inum => s = t
        /\ icache[s].valid =>
            /\ icache[s].type = dinode[icache[s].inum].type
            /\ icache[s].nlink = dinode[icache[s].inum].nlink

\* The inode cache: exact counts of references, one entry for an inode, and that
\* entry is what the disk has.
CacheOK == TypeOK /\ RefsExact /\ CacheCoherent

\* An inode is not freed under anyone who looked it up, has it open or is in
\* it, and none of the kernel's own checks of that fails.
InUse ==
    \A p \in Procs :
        /\ pc[p] /= "bug"
        /\ \A s \in {cur[p], ip[p], dp[p], file[p], cwd[p]} \ {0} :
            dinode[icache[s].inum].type /= "free"

\* Every entry of a directory is for an inode in use, and is counted in its
\* links, at every moment of every call: nlink never says too little.
LinksCover ==
    \A i \in Inums :
        LET entries == {x \in Inums \X Names : dinode[x[1]].ent[x[2]] = i}
        IN /\ Cardinality(entries) <= dinode[i].nlink
           /\ entries /= {} => dinode[i].type /= "free"

\* Calls do not wait for each other's locks in a circle: in every set of processes
\* one waits for nobody in the set.  (create and unlink drop their directory with
\* the inode still locked, and iput locks the directory again; dirlink puts back
\* what it found, with the directory still locked.)
NoLockCycle ==
    \A S \in (SUBSET Procs) \ {{}} : \E p \in S : Holder(p) \notin S
=============================================================================
