---------------------------- MODULE InodesProofs ----------------------------
(***************************************************************************)
(* Proofs about inodes, the inode cache and directories, for any number of *)
(* processes, inodes, cache entries, names and paths: references and links *)
(* are counted, and an inode in use is not freed.                          *)
(***************************************************************************)
EXTENDS Inodes, FiniteSetTheorems, WellFoundedInduction, NaturalsInduction, TLAPS

Putting == {"iput", "trunc", "unref"}
Ops == {"open", "creat", "mkdir", "link", "unlink", "chdir", "none"}

\* Where a call is, and where it goes on after iput.
At(p) == IF pc[p] \in Putting THEN ret[p] ELSE pc[p]

HasDir == {"create", "new", "unlink", "remove", "letgo", "enter"}
HasInode == {"open", "chdir", "link", "exists", "new", "created", "remove", "removed",
             "enter", "entered", "unenter"}

\* The inode behind a pointer.
Inum(s) == icache[s].inum
Node(s) == dinode[icache[s].inum]

-----------------------------------------------------------------------------
(* The inductive invariant. *)

Kinds == {"free", "file", "dir"}
Disk == [Inums -> [type : Kinds, nlink : Nat, ent : [Names -> 0..NInums]]]
Cache == [Slots -> [inum : 0..NInums, ref : Nat, valid : BOOLEAN, type : Kinds, nlink : Nat]]

\* Types; the bound on the counts of TypeOK follows from RefsExact.
VarInv ==
    /\ dinode \in Disk /\ icache \in Cache
    /\ lock \in [Slots -> Procs \cup {None}]
    /\ pc \in [Procs -> PCs] /\ ret \in [Procs -> PCs]
    /\ cur \in [Procs -> Slots \cup {0}] /\ ip \in [Procs -> Slots \cup {0}]
    /\ dp \in [Procs -> Slots \cup {0}] /\ put \in [Procs -> Slots \cup {0}]
    /\ file \in [Procs -> Slots \cup {0}] /\ cwd \in [Procs -> Slots]
    /\ op \in [Procs -> Ops]
    /\ path \in [Procs -> Walks] /\ to \in [Procs -> Walks]

\* Which pointers a call has at each place.
LocalAt(p) ==
    /\ put[p] /= 0 <=> pc[p] \in Putting
    /\ ret[p] \notin Putting \cup {"panic", "bug", "new", "remove"}
    /\ cur[p] /= 0 <=> At(p) = "namex"
    /\ dp[p] /= 0 <=> At(p) \in HasDir
    /\ At(p) \notin {"namex", "letgo"} => (ip[p] /= 0 <=> At(p) \in HasInode)
    /\ At(p) = "namex" => op[p] /= "none" /\ (ip[p] /= 0 => op[p] = "link")
    /\ At(p) = "letgo" => (ip[p] /= 0 <=> op[p] = "link")
    /\ At(p) \in {"create", "new", "exists", "created"} => op[p] \in {"creat", "mkdir"}
    /\ At(p) = "open" => op[p] = "open"
    /\ op[p] \in {"open", "creat"} => file[p] = 0
    /\ At(p) \in {"unlink", "remove", "removed"} => op[p] = "unlink"
    /\ At(p) = "letgo" => op[p] \in {"unlink", "link"}
    /\ At(p) \in {"link", "enter", "entered", "unenter"} => op[p] = "link"
    /\ At(p) \in {"namex"} \cup HasDir =>
        path[p] /= <<>> /\ (Plain(path[p]) \/ (op[p] = "link" /\ ip[p] /= 0))

\* Whose lock it is.
Keeps(p, s) ==
    \/ pc[p] = "trunc" /\ put[p] = s
    \/ At(p) \in {"new", "remove", "letgo"} /\ dp[p] = s
    \/ At(p) \in {"created", "removed"} /\ ip[p] = s
LockInv ==
    \A s \in Slots : lock[s] /= None =>
        /\ icache[s].valid /\ icache[s].ref > 0
        /\ pc[lock[s]] /= "panic" => Keeps(lock[s], s)

\* A table of entries that goes with what is on disk: CacheCoherent, and a valid
\* entry is not of a free inode.
Good(T, D) ==
    \A s \in Slots : T[s].ref > 0 =>
        /\ T[s].inum \in Inums
        /\ \A t \in Slots : T[t].ref > 0 /\ T[t].inum = T[s].inum => s = t
        /\ T[s].valid =>
            /\ T[s].type = D[T[s].inum].type /\ T[s].type /= "free"
            /\ T[s].nlink = D[T[s].inum].nlink

\* What a process refers to and may look into.
Uses(p) == {cur[p], ip[p], dp[p], file[p], cwd[p]} \ {0}

\* An inode that is about to be freed has no links, and nobody uses it.  (A link
\* to ".." of a directory that was removed may refer to it, to put it back.)
TruncAt(p) ==
    pc[p] = "trunc" => Node(put[p]).nlink = 0 /\ \A q \in Procs : put[p] \notin Uses(q)

\* An inode that create has just allocated has neither links nor entries, and
\* nobody else can use it.
NewAt(p) ==
    At(p) = "new" =>
        /\ Node(ip[p]).nlink = 0 /\ Node(ip[p]).ent = NoEntries
        /\ Node(ip[p]).type = "dir" => op[p] = "mkdir"
        /\ \A q \in Procs : /\ ip[p] \notin {cur[q], dp[q], file[q], cwd[q]}
                            /\ ip[q] = ip[p] => q = p

\* link has counted the link it is about to enter, unlink has not yet uncounted
\* the one it has removed.
Linking(p) == op[p] = "link" /\ ip[p] /= 0 /\ At(p) \in {"namex", "enter", "letgo", "unenter"}
Claim(p) == Linking(p) \/ At(p) = "removed"

\* unlink holds the directory while it waits for what it found in it.
ChildAt(p) == At(p) = "remove" => Node(dp[p]).ent[Last(p)] = Inum(ip[p])

ProcInv(p) ==
    /\ pc[p] /= "panic" => LocalAt(p)
    /\ \A s \in Slots : Keeps(p, s) => lock[s] = p
    /\ TruncAt(p) /\ NewAt(p) /\ ChildAt(p)
    /\ dp[p] /= 0 => Node(dp[p]).type = "dir"
    /\ Linking(p) => Node(ip[p]).type = "file"
    /\ pc[p] /= "bug" /\ \A s \in Uses(p) : Node(s).type /= "free"

\* Only directories have entries, and no two directories are in each other.
\* nlink covers the entries for an inode, the ".." of the directories in it,
\* and the links that calls under way have counted.
TreeInv ==
    /\ \A i \in Inums : dinode[i].type /= "dir" => dinode[i].ent = NoEntries
    /\ \A i, j \in Inums, n, m \in Names : ~(dinode[i].ent[n] = j /\ dinode[j].ent[m] = i)
EntriesFor(i) == {x \in Inums \X Names : dinode[x[1]].ent[x[2]] = i}
Subdirs(i) == {n \in Names : dinode[i].ent[n] /= 0 /\ dinode[dinode[i].ent[n]].type = "dir"}
Claims(i) == {p \in Procs : Claim(p) /\ Inum(ip[p]) = i}
CountInv ==
    \A i \in Inums :
        /\ Cardinality(EntriesFor(i)) + Cardinality(Subdirs(i)) + Cardinality(Claims(i))
            + (IF i = Root THEN 1 ELSE 0) <= dinode[i].nlink
        /\ dinode[i].type = "free" => dinode[i] = FreeInode

NInv ==
    /\ VarInv /\ Good(icache, dinode) /\ RefsExact /\ LockInv /\ TreeInv /\ CountInv
    /\ \A p \in Procs : ProcInv(p)

-----------------------------------------------------------------------------
(* The cache. *)

LEMMA LeastBy ==
    ASSUME NEW T, T \subseteq Nat, T /= {}, NEW R, IsWellFoundedOn(R, Nat),
           \A x, y \in Nat : x < y => <<x, y>> \in R
    PROVE  \E x \in T : \A y \in T : x <= y
<1>1. PICK x \in T : \A y \in T : ~(<<y, x>> \in R)
  BY WFMin, ZenonT(120)
<1>2. \A y \in T : ~(y < x)
  BY <1>1
<1>3. \A y \in T : x <= y
  BY <1>2
<1> QED BY <1>3

LEMMA MinIn ==
    ASSUME NEW T, T \subseteq Nat, T /= {}
    PROVE  Min(T) \in T
<1>1. PICK x \in T : \A y \in T : x <= y
  <2> DEFINE R == OpToRel(<, Nat)
  <2>1. IsWellFoundedOn(R, Nat)
    BY NatLessThanWellFounded
  <2>2. \A x, y \in Nat : x < y => <<x, y>> \in R
    BY DEF OpToRel
  <2> HIDE DEF R
  <2> QED BY <2>1, <2>2, LeastBy
<1> QED BY <1>1 DEF Min

LEMMA Sets ==
    /\ Slots \subseteq Nat /\ 0 \notin Slots /\ Inums \subseteq Nat /\ 0 \notin Inums
    /\ Root \in Inums /\ 1 \in Slots /\ 0..NInums = Inums \cup {0}
    /\ NoEntries \in [Names -> 0..NInums]
    /\ FreeInode \in [type : Kinds, nlink : Nat, ent : [Names -> 0..NInums]]
    /\ NoEntry \in [inum : 0..NInums, ref : Nat, valid : BOOLEAN, type : Kinds, nlink : Nat]
    /\ \A i \in Inums : Fresh(i) \in [inum : 0..NInums, ref : Nat, valid : BOOLEAN,
                                      type : Kinds, nlink : Nat]
    /\ \A i \in Inums : Fresh(i).inum = i /\ Fresh(i).ref = 1 /\ ~Fresh(i).valid
    /\ FreeInode.type = "free" /\ FreeInode.nlink = 0 /\ FreeInode.ent = NoEntries
    /\ NoEntry.ref = 0
    /\ \A n \in Names : NoEntries[n] = 0
    /\ None \notin Procs
<1>1. NINODE \in Nat \ {0} /\ NInums \in Nat \ {0} /\ None \notin Procs
  BY InodeAssumption
<1>2. /\ Slots \subseteq Nat /\ 0 \notin Slots /\ Inums \subseteq Nat /\ 0 \notin Inums
      /\ Root \in Inums /\ 1 \in Slots /\ 0..NInums = Inums \cup {0}
  BY <1>1 DEF Slots, Inums, Root
<1>3. NoEntries \in [Names -> 0..NInums] /\ \A n \in Names : NoEntries[n] = 0
  BY <1>1 DEF NoEntries
<1>4. /\ FreeInode \in [type : Kinds, nlink : Nat, ent : [Names -> 0..NInums]]
      /\ FreeInode.type = "free" /\ FreeInode.nlink = 0 /\ FreeInode.ent = NoEntries
  BY <1>3 DEF FreeInode, Kinds
<1>5. /\ NoEntry \in [inum : 0..NInums, ref : Nat, valid : BOOLEAN, type : Kinds, nlink : Nat]
      /\ NoEntry.ref = 0
  BY <1>1 DEF NoEntry, Kinds
<1>6. ASSUME NEW i \in Inums
      PROVE  /\ Fresh(i) \in [inum : 0..NInums, ref : Nat, valid : BOOLEAN,
                               type : Kinds, nlink : Nat]
             /\ Fresh(i).inum = i /\ Fresh(i).ref = 1 /\ ~Fresh(i).valid
  <2>1. Fresh(i).inum = i /\ Fresh(i).ref = 1 /\ ~Fresh(i).valid
    BY DEF Fresh, NoEntry
  <2>2. i \in 0..NInums /\ 1 \in Nat
    BY <1>2
  <2>3. Fresh(i) \in [inum : 0..NInums, ref : Nat, valid : BOOLEAN, type : Kinds, nlink : Nat]
    BY <2>2, <1>5 DEF Fresh
  <2> QED BY <2>1, <2>3
<1> QED BY <1>1, <1>2, <1>3, <1>4, <1>5, <1>6

\* A table that is the cache with some entries read from disk.
Same(T) ==
    /\ T \in Cache /\ Good(T, dinode)
    /\ \A t \in Slots : /\ T[t].ref = icache[t].ref /\ T[t].inum = icache[t].inum
                        /\ icache[t].valid => T[t] = icache[t]

LEMMA NoPath == <<>> \in Walks /\ \A pa \in Paths \cup RelPaths : pa \in Walks /\ pa /= <<>>
<1>1. <<>> \in Walks
  BY DEF Walks
<1> QED BY <1>1, InodeAssumption

LEMMA SelfSame ==
    ASSUME VarInv, Good(icache, dinode)
    PROVE  Same(icache)
BY DEF VarInv, Same

LEMMA LoadSame ==
    ASSUME VarInv, Good(icache, dinode), NEW s \in Slots, icache[s].ref > 0,
           Node(s).type /= "free"
    PROVE  /\ Same(Load(icache, s)) /\ Load(icache, s)[s].valid
           /\ Load(icache, s)[s].type = Node(s).type
           /\ Load(icache, s)[s].nlink = Node(s).nlink
           /\ \A t \in Slots : t /= s => Load(icache, s)[t] = icache[t]
           /\ ~Typeless(s)
<1> DEFINE T == Load(icache, s)
<1>1. icache[s].inum \in Inums
  BY DEF Good
<1>2. CASE icache[s].valid
  BY <1>2, SelfSame DEF Load, Good, Typeless, Node
<1>3. CASE ~icache[s].valid
  <2>1. T = [icache EXCEPT ![s].valid = TRUE, ![s].type = Node(s).type, ![s].nlink = Node(s).nlink]
    BY <1>3 DEF Load, Node
  <2>2. T \in Cache
    <3>1. Node(s).type \in Kinds /\ Node(s).nlink \in Nat
      BY <1>1 DEF VarInv, Disk, Node
    <3> DEFINE R == [inum : 0..NInums, ref : Nat, valid : BOOLEAN, type : Kinds, nlink : Nat]
               r1 == [icache[s] EXCEPT !.valid = TRUE]
               r2 == [r1 EXCEPT !.type = Node(s).type]
               r3 == [r2 EXCEPT !.nlink = Node(s).nlink]
    <3>2. icache[s] \in R
      BY DEF VarInv, Cache
    <3>3. r1 \in R
      BY <3>2
    <3>4. r2 \in R
      BY <3>1, <3>3
    <3>5. r3 \in R
      BY <3>1, <3>4
    <3>6. T = [icache EXCEPT ![s] = r3]
      BY <2>1 DEF VarInv, Cache
    <3> QED BY <3>5, <3>6 DEF VarInv, Cache
  <2>3. /\ T[s].inum = icache[s].inum /\ T[s].ref = icache[s].ref /\ T[s].valid
        /\ T[s].type = Node(s).type /\ T[s].nlink = Node(s).nlink
        /\ \A t \in Slots : t /= s => T[t] = icache[t]
    BY <2>1 DEF VarInv, Cache
  <2>4. Good(T, dinode)
    BY <2>3, <1>1 DEF Good, Node
  <2>5. ~Typeless(s)
    BY <2>3 DEF Typeless
  <2> HIDE DEF T
  <2>6. Same(T)
    BY <2>2, <2>3, <2>4, <1>3 DEF Same
  <2> QED BY <2>3, <2>5, <2>6 DEF T
<1> QED BY <1>2, <1>3

\* iget returns the entry of the inode, and one more reference to it.
LEMMA GetFacts ==
    ASSUME NEW T \in Cache, NEW D, Good(T, D), NEW i \in Inums, CanGet(T, i)
    PROVE  LET s == SlotOf(T, i)
               G == iget(T, i)
           IN /\ s \in Slots /\ G \in Cache
              /\ G[s].ref = T[s].ref + 1 /\ G[s].inum = i
              /\ T[s].ref > 0 => T[s].inum = i /\ G[s].valid = T[s].valid
                                 /\ G[s].type = T[s].type /\ G[s].nlink = T[s].nlink
              /\ T[s].ref = 0 => ~G[s].valid /\ \A t \in Slots : T[t].ref > 0 => T[t].inum /= i
              /\ \A t \in Slots : t /= s => G[t] = T[t]
              /\ Good(G, D)
<1> DEFINE s == SlotOf(T, i)
           G == iget(T, i)
           E == EntriesOf(T, i)
           F == FreeEntries(T)
<1>0. E \subseteq Nat /\ F \subseteq Nat /\ E \subseteq Slots /\ F \subseteq Slots
  BY Sets DEF EntriesOf, FreeEntries
<1>1. CASE E /= {}
  <2>1. s = Min(E)
    BY <1>1 DEF SlotOf
  <2>2. s \in E
    BY <1>0, <1>1, <2>1, MinIn
  <2>3. s \in Slots /\ T[s].ref > 0 /\ T[s].inum = i
    BY <2>2 DEF EntriesOf
  <2>4. G = [T EXCEPT ![s] = [T[s] EXCEPT !.ref = T[s].ref + 1]]
    BY <1>1 DEF iget
  <2> HIDE DEF s, G
  <2>5. G \in Cache /\ G[s] = [T[s] EXCEPT !.ref = T[s].ref + 1] /\ \A t \in Slots : t /= s => G[t] = T[t]
    BY <2>3, <2>4 DEF Cache
  <2>6. /\ G[s].ref = T[s].ref + 1 /\ G[s].inum = i /\ G[s].valid = T[s].valid
        /\ G[s].type = T[s].type /\ G[s].nlink = T[s].nlink
    BY <2>3, <2>5 DEF Cache
  <2>7. Good(G, D)
    BY <2>3, <2>5, <2>6 DEF Good, Cache
  <2> QED BY <2>3, <2>5, <2>6, <2>7 DEF s, G, Cache
<1>2. CASE E = {}
  <2>1. s = Min(F) /\ F /= {}
    BY <1>2 DEF SlotOf, CanGet
  <2>2. s \in F
    BY <1>0, <2>1, MinIn
  <2>3. s \in Slots /\ T[s].ref = 0
    BY <2>2 DEF FreeEntries
  <2>4. G = [T EXCEPT ![s] = Fresh(i)]
    BY <1>2 DEF iget
  <2>5. \A t \in Slots : T[t].ref > 0 => T[t].inum /= i
    BY <1>2 DEF EntriesOf
  <2> HIDE DEF s, G
  <2>6. G \in Cache /\ G[s] = Fresh(i) /\ \A t \in Slots : t /= s => G[t] = T[t]
    BY <2>3, <2>4, Sets DEF Cache
  <2>7. /\ G[s].ref = 1 /\ G[s].inum = i /\ ~G[s].valid
    BY <2>6, Sets
  <2>8. Good(G, D)
    BY <2>3, <2>5, <2>6, <2>7 DEF Good
  <2> QED BY <2>3, <2>5, <2>6, <2>7, <2>8 DEF s, G
<1> QED BY <1>1, <1>2

-----------------------------------------------------------------------------
(* Counting pointers. *)

Pointers == <<cur, ip, dp, put, file, cwd>>
One(c) == IF c THEN 1 ELSE 0

\* The pointers of v to s, those that are not p's, and how many p has.
PointersTo(v, s) == {x \in Procs \X (1..6) : v[x[2]][x[1]] = s}
NotOf(v, p, s) == {x \in Procs \X (1..6) : v[x[2]][x[1]] = s /\ x[1] /= p}
Own(v, p, s) == One(v[1][p] = s) + One(v[2][p] = s) + One(v[3][p] = s)
                + One(v[4][p] = s) + One(v[5][p] = s) + One(v[6][p] = s)

LEMMA AddOne ==
    ASSUME NEW S, IsFiniteSet(S), NEW x, x \notin S, NEW c \in BOOLEAN
    PROVE  /\ IsFiniteSet(IF c THEN S \cup {x} ELSE S)
           /\ Cardinality(IF c THEN S \cup {x} ELSE S) = Cardinality(S) + One(c)
<1>1. IsFiniteSet(S \cup {x}) /\ Cardinality(S \cup {x}) = Cardinality(S) + 1
  BY FS_AddElement
<1>2. Cardinality(S) \in Nat
  BY FS_CardinalityType
<1> QED BY <1>1, <1>2 DEF One

LEMMA PointersFinite ==
    ASSUME NEW v, NEW s
    PROVE  /\ IsFiniteSet(PointersTo(v, s)) /\ Cardinality(PointersTo(v, s)) \in Nat
           /\ Cardinality(PointersTo(v, s)) <= 6 * Cardinality(Procs)
           /\ Cardinality(Procs) \in Nat
<1>1. IsFiniteSet(Procs) /\ Cardinality(Procs) \in Nat
  BY InodeAssumption, FS_CardinalityType
<1>2. IsFiniteSet(1..6) /\ Cardinality(1..6) = 6
  <2>1. /\ IsFiniteSet(1..6)
        /\ Cardinality(1..6) = IF 1 > 6 THEN 0 ELSE 6 - 1 + 1
    <3>1. 1 \in Int /\ 6 \in Int
      OBVIOUS
    <3> QED BY <3>1, FS_Interval, Zenon
  <2> QED BY <2>1
<1>3. IsFiniteSet(Procs \X (1..6)) /\ Cardinality(Procs \X (1..6)) = Cardinality(Procs) * 6
  BY <1>1, <1>2, FS_Product
<1>4. PointersTo(v, s) \subseteq Procs \X (1..6)
  BY DEF PointersTo
<1>5. IsFiniteSet(PointersTo(v, s)) /\ Cardinality(PointersTo(v, s)) <= Cardinality(Procs \X (1..6))
  BY <1>3, <1>4, FS_Subset
<1>6. Cardinality(PointersTo(v, s)) \in Nat
  BY <1>5, FS_CardinalityType
<1> QED BY <1>1, <1>3, <1>5, <1>6

LEMMA CountSplit ==
    ASSUME NEW v, NEW p \in Procs, NEW s
    PROVE  /\ Cardinality(PointersTo(v, s)) = Cardinality(NotOf(v, p, s)) + Own(v, p, s)
           /\ Cardinality(NotOf(v, p, s)) \in Nat
<1> DEFINE S0 == NotOf(v, p, s)
           c(k) == v[k][p] = s
           S1 == IF c(1) THEN S0 \cup {<<p, 1>>} ELSE S0
           S2 == IF c(2) THEN S1 \cup {<<p, 2>>} ELSE S1
           S3 == IF c(3) THEN S2 \cup {<<p, 3>>} ELSE S2
           S4 == IF c(4) THEN S3 \cup {<<p, 4>>} ELSE S3
           S5 == IF c(5) THEN S4 \cup {<<p, 5>>} ELSE S4
           S6 == IF c(6) THEN S5 \cup {<<p, 6>>} ELSE S5
<1>1. S0 \subseteq PointersTo(v, s) /\ \A x \in S0 : x[1] /= p
  BY DEF NotOf, PointersTo
<1>2. IsFiniteSet(S0) /\ Cardinality(S0) \in Nat
  BY <1>1, PointersFinite, FS_Subset, FS_CardinalityType
<1>3. \A k : <<p, k>> \notin S0
  BY <1>1
<1> HIDE DEF c, S0
<1>4. \A k : c(k) \in BOOLEAN
  BY DEF c
<1>5. IsFiniteSet(S1) /\ Cardinality(S1) = Cardinality(S0) + One(c(1))
  BY <1>2, <1>3, <1>4, AddOne
<1>6. <<p, 2>> \notin S1 /\ <<p, 3>> \notin S1 /\ <<p, 4>> \notin S1 /\ <<p, 5>> \notin S1 /\ <<p, 6>> \notin S1
  BY <1>3
<1> HIDE DEF S1
<1>7. IsFiniteSet(S2) /\ Cardinality(S2) = Cardinality(S1) + One(c(2))
  <2>1. IsFiniteSet(S1) /\ <<p, 2>> \notin S1 /\ c(2) \in BOOLEAN
    BY <1>5, <1>6, <1>4
  <2> QED BY ONLY <2>1, AddOne, Zenon
<1>8. <<p, 3>> \notin S2 /\ <<p, 4>> \notin S2 /\ <<p, 5>> \notin S2 /\ <<p, 6>> \notin S2
  BY <1>6
<1> HIDE DEF S2
<1>9. IsFiniteSet(S3) /\ Cardinality(S3) = Cardinality(S2) + One(c(3))
  <2>1. IsFiniteSet(S2) /\ <<p, 3>> \notin S2 /\ c(3) \in BOOLEAN
    BY <1>7, <1>8, <1>4
  <2> QED BY ONLY <2>1, AddOne, Zenon
<1>10. <<p, 4>> \notin S3 /\ <<p, 5>> \notin S3 /\ <<p, 6>> \notin S3
  BY <1>8
<1> HIDE DEF S3
<1>11. IsFiniteSet(S4) /\ Cardinality(S4) = Cardinality(S3) + One(c(4))
  <2>1. IsFiniteSet(S3) /\ <<p, 4>> \notin S3 /\ c(4) \in BOOLEAN
    BY <1>9, <1>10, <1>4
  <2> QED BY ONLY <2>1, AddOne, Zenon
<1>12. <<p, 5>> \notin S4 /\ <<p, 6>> \notin S4
  BY <1>10
<1> HIDE DEF S4
<1>13. IsFiniteSet(S5) /\ Cardinality(S5) = Cardinality(S4) + One(c(5))
  <2>1. IsFiniteSet(S4) /\ <<p, 5>> \notin S4 /\ c(5) \in BOOLEAN
    BY <1>11, <1>12, <1>4
  <2> QED BY ONLY <2>1, AddOne, Zenon
<1>14. <<p, 6>> \notin S5
  BY <1>12
<1> HIDE DEF S5
<1>15. IsFiniteSet(S6) /\ Cardinality(S6) = Cardinality(S5) + One(c(6))
  <2>1. IsFiniteSet(S5) /\ <<p, 6>> \notin S5 /\ c(6) \in BOOLEAN
    BY <1>13, <1>14, <1>4
  <2> QED BY ONLY <2>1, AddOne, Zenon
<1>16. S6 = PointersTo(v, s)
  <2>1. S6 = S0 \cup {x \in {<<p, 1>>, <<p, 2>>, <<p, 3>>, <<p, 4>>, <<p, 5>>, <<p, 6>>} : c(x[2])}
    BY DEF S1, S2, S3, S4, S5
  <2>2. {x \in {<<p, 1>>, <<p, 2>>, <<p, 3>>, <<p, 4>>, <<p, 5>>, <<p, 6>>} : c(x[2])}
        = {x \in Procs \X (1..6) : x[1] = p /\ v[x[2]][x[1]] = s}
    BY DEF c
  <2> QED BY <2>1, <2>2 DEF S0, NotOf, PointersTo
<1> HIDE DEF S6
<1>17. \A k : One(c(k)) \in {0, 1}
  BY DEF One
<1>18. Cardinality(S6) = Cardinality(S0) + One(c(1)) + One(c(2)) + One(c(3)) + One(c(4)) + One(c(5)) + One(c(6))
  BY <1>2, <1>5, <1>7, <1>9, <1>11, <1>13, <1>15, <1>17
<1>19. Own(v, p, s) = One(c(1)) + One(c(2)) + One(c(3)) + One(c(4)) + One(c(5)) + One(c(6))
  BY DEF Own, c
<1> QED BY <1>2, <1>16, <1>17, <1>18, <1>19 DEF S0

LEMMA ExactMeans ==
    /\ RefsExact <=> \A s \in Slots : icache[s].ref = Cardinality(PointersTo(Pointers, s))
    /\ RefsExact' <=> \A s \in Slots : icache'[s].ref = Cardinality(PointersTo(Pointers', s))
BY DEF RefsExact, PointersTo, Pointers

\* Every pointer is a reference.
LEMMA Referred ==
    ASSUME VarInv, RefsExact, NEW p \in Procs, NEW k \in 1..6, Pointers[k][p] /= 0
    PROVE  Pointers[k][p] \in Slots /\ icache[Pointers[k][p]].ref > 0
<1> DEFINE s == Pointers[k][p]
<1>1. s \in Slots
  BY DEF VarInv, Pointers
<1>2. <<p, k>> \in PointersTo(Pointers, s)
  BY DEF PointersTo
<1> HIDE DEF s
<1>3. IsFiniteSet(PointersTo(Pointers, s)) /\ Cardinality(PointersTo(Pointers, s)) \in Nat
  BY PointersFinite
<1>4. Cardinality(PointersTo(Pointers, s)) /= 0
  BY <1>2, <1>3, FS_EmptySet
<1>5. icache[s].ref = Cardinality(PointersTo(Pointers, s))
  BY <1>1, ExactMeans
<1> QED BY <1>1, <1>3, <1>4, <1>5 DEF s

\* Two pointers are two references.
LEMMA TwoRefs ==
    ASSUME VarInv, RefsExact, NEW p \in Procs, NEW k \in 1..6, NEW q \in Procs, NEW l \in 1..6,
           p /= q \/ k /= l, Pointers[k][p] /= 0, Pointers[k][p] = Pointers[l][q]
    PROVE  icache[Pointers[k][p]].ref >= 2
<1> DEFINE s == Pointers[k][p]
           S == {<<p, k>>}
<1>1. s \in Slots
  BY Referred
<1>2. S \cup {<<q, l>>} \subseteq PointersTo(Pointers, s)
  BY DEF PointersTo
<1>3. <<q, l>> \notin S
  OBVIOUS
<1>4. IsFiniteSet(S) /\ Cardinality(S) = 1
  BY FS_Singleton
<1> HIDE DEF S, s
<1>5. Cardinality(S \cup {<<q, l>>}) = 2
  <2>1. Cardinality(S \cup {<<q, l>>}) = Cardinality(S) + 1
    BY ONLY <1>3, <1>4, FS_AddElement, Zenon
  <2> QED BY <2>1, <1>4
<1>6. Cardinality(PointersTo(Pointers, s)) >= 2
  BY <1>2, <1>5, PointersFinite, FS_Subset
<1>7. icache[s].ref = Cardinality(PointersTo(Pointers, s))
  BY <1>1, ExactMeans
<1> QED BY <1>6, <1>7 DEF s

\* A step of p leaves the other processes alone.
Others(p) ==
    \A q \in Procs : q /= p =>
        /\ pc'[q] = pc[q] /\ op'[q] = op[q] /\ path'[q] = path[q] /\ to'[q] = to[q]
        /\ cur'[q] = cur[q] /\ ip'[q] = ip[q] /\ dp'[q] = dp[q] /\ put'[q] = put[q]
        /\ ret'[q] = ret[q] /\ file'[q] = file[q] /\ cwd'[q] = cwd[q]

\* The pointers of p to s, counted.
Mine(p, s) == One(cur[p] = s) + One(ip[p] = s) + One(dp[p] = s)
              + One(put[p] = s) + One(file[p] = s) + One(cwd[p] = s)

LEMMA RefsStep ==
    ASSUME RefsExact, NEW p \in Procs, Others(p),
           \A s \in Slots : icache'[s].ref = icache[s].ref - Mine(p, s) + Mine(p, s)'
    PROVE  RefsExact'
<1> DEFINE v == Pointers
           w == Pointers'
<1>1. \A k \in 1..6, q \in Procs : q /= p => w[k][q] = v[k][q]
  BY DEF Others, Pointers
<1>2. ASSUME NEW s \in Slots
      PROVE  icache'[s].ref = Cardinality(PointersTo(w, s))
  <2>1. Mine(p, s) = Own(v, p, s) /\ Mine(p, s)' = Own(w, p, s)
    BY DEF Mine, Own, Pointers
  <2>2. icache[s].ref = Cardinality(PointersTo(v, s))
    BY ExactMeans
  <2>3. NotOf(w, p, s) = NotOf(v, p, s)
    BY <1>1 DEF NotOf
  <2>4. Own(v, p, s) \in Nat /\ Own(w, p, s) \in Nat
    BY DEF Own, One
  <2> HIDE DEF v, w
  <2>5. /\ Cardinality(PointersTo(v, s)) = Cardinality(NotOf(v, p, s)) + Own(v, p, s)
        /\ Cardinality(PointersTo(w, s)) = Cardinality(NotOf(w, p, s)) + Own(w, p, s)
        /\ Cardinality(NotOf(v, p, s)) \in Nat
    BY CountSplit
  <2> QED BY <2>1, <2>2, <2>3, <2>4, <2>5
<1> QED BY <1>2, ExactMeans

-----------------------------------------------------------------------------
(* Counting links. *)

Claiming(p, i) == Claim(p) /\ Inum(ip[p]) = i

\* A claim of another process stays a claim on the same inode.
ClaimsKept(p) ==
    \A q \in Procs : q /= p /\ Claim(q) => icache'[ip[q]].inum = icache[ip[q]].inum

LEMMA LinkSetsFinite ==
    ASSUME NEW i
    PROVE  /\ IsFiniteSet(EntriesFor(i)) /\ Cardinality(EntriesFor(i)) \in Nat
           /\ IsFiniteSet(Subdirs(i)) /\ Cardinality(Subdirs(i)) \in Nat
<1>1. IsFiniteSet(Names) /\ NInums \in Int /\ 1 \in Int
  BY InodeAssumption
<1>2. IsFiniteSet(Inums)
  <2>1. IsFiniteSet(1..NInums)
    BY ONLY <1>1, FS_Interval, Zenon
  <2> QED BY <2>1 DEF Inums
<1>3. IsFiniteSet(Inums \X Names)
  BY <1>1, <1>2, FS_Product
<1>4. EntriesFor(i) \subseteq Inums \X Names /\ Subdirs(i) \subseteq Names
  BY DEF EntriesFor, Subdirs
<1>5. IsFiniteSet(EntriesFor(i)) /\ IsFiniteSet(Subdirs(i))
  BY <1>1, <1>3, <1>4, FS_Subset
<1> QED BY <1>5, FS_CardinalityType

LEMMA ClaimsFinite ==
    ASSUME NEW S, S \subseteq Procs
    PROVE  IsFiniteSet(S) /\ Cardinality(S) \in Nat
BY InodeAssumption, FS_Subset, FS_CardinalityType

LEMMA ClaimsStep ==
    ASSUME NEW p \in Procs, Others(p), ClaimsKept(p), NEW i
    PROVE  /\ Cardinality(Claims(i)') = Cardinality(Claims(i)) - One(Claiming(p, i)) + One(Claiming(p, i)')
           /\ Cardinality(Claims(i)) \in Nat /\ Cardinality(Claims(i)') \in Nat
<1> DEFINE N == {q \in Procs : q /= p /\ Claim(q) /\ Inum(ip[q]) = i}
           c == Claiming(p, i)
           d == Claiming(p, i)'
<1>1. Claims(i) = IF c THEN N \cup {p} ELSE N
  BY DEF Claims, Claiming
<1>2. Claims(i)' = IF d THEN N \cup {p} ELSE N
  <2>1. \A q \in Procs : q /= p => (Claim(q)' <=> Claim(q))
    BY DEF Others, Claim, Linking, At
  <2>2. \A q \in Procs : q /= p /\ Claim(q) => (icache'[ip'[q]].inum = i <=> icache[ip[q]].inum = i)
    BY DEF Others, ClaimsKept
  <2> QED BY <2>1, <2>2 DEF Claims, Claiming, Inum
<1>3. IsFiniteSet(N) /\ p \notin N /\ Cardinality(N) \in Nat
  BY ClaimsFinite
<1>4. c \in BOOLEAN /\ d \in BOOLEAN
  BY DEF Claiming
<1> HIDE DEF N, c, d
<1>5. Cardinality(Claims(i)) = Cardinality(N) + One(c)
  BY <1>1, <1>3, <1>4, AddOne
<1>6. Cardinality(Claims(i)') = Cardinality(N) + One(d)
  BY <1>2, <1>3, <1>4, AddOne
<1>7. One(c) \in {0, 1} /\ One(d) \in {0, 1}
  BY DEF One
<1> QED BY <1>3, <1>5, <1>6, <1>7 DEF c, d

LEMMA CountKeep ==
    ASSUME CountInv, NEW p \in Procs, Others(p), ClaimsKept(p), dinode \in Disk, dinode' \in Disk,
           \A i \in Inums : EntriesFor(i)' \subseteq EntriesFor(i) /\ Subdirs(i)' \subseteq Subdirs(i),
           \A i \in Inums : dinode'[i].nlink
                            >= dinode[i].nlink - One(Claiming(p, i)) + One(Claiming(p, i)'),
           \A i \in Inums : dinode'[i].type = "free" => dinode'[i] = FreeInode
    PROVE  CountInv'
<1> SUFFICES ASSUME NEW i \in Inums
             PROVE  Cardinality(EntriesFor(i)') + Cardinality(Subdirs(i)') + Cardinality(Claims(i)')
                        + (IF i = Root THEN 1 ELSE 0) <= dinode'[i].nlink
  BY DEF CountInv
<1>1. IsFiniteSet(EntriesFor(i)) /\ IsFiniteSet(Subdirs(i))
  BY LinkSetsFinite
<1>2. /\ Cardinality(EntriesFor(i)') <= Cardinality(EntriesFor(i))
      /\ Cardinality(EntriesFor(i)') \in Nat /\ Cardinality(EntriesFor(i)) \in Nat
  BY <1>1, FS_Subset, FS_CardinalityType
<1>3. /\ Cardinality(Subdirs(i)') <= Cardinality(Subdirs(i))
      /\ Cardinality(Subdirs(i)') \in Nat /\ Cardinality(Subdirs(i)) \in Nat
  BY <1>1, FS_Subset, FS_CardinalityType
<1>4. /\ Cardinality(Claims(i)') = Cardinality(Claims(i)) - One(Claiming(p, i)) + One(Claiming(p, i)')
      /\ Cardinality(Claims(i)) \in Nat /\ Cardinality(Claims(i)') \in Nat
  BY ClaimsStep
<1>5. One(Claiming(p, i)) \in {0, 1} /\ One(Claiming(p, i)') \in {0, 1}
  BY DEF One
<1>6. dinode[i].nlink \in Nat /\ dinode'[i].nlink \in Nat
  BY DEF Disk
<1>7. Cardinality(EntriesFor(i)) + Cardinality(Subdirs(i)) + Cardinality(Claims(i))
        + (IF i = Root THEN 1 ELSE 0) <= dinode[i].nlink
  BY DEF CountInv
<1>8. dinode'[i].nlink >= dinode[i].nlink - One(Claiming(p, i)) + One(Claiming(p, i)')
  OBVIOUS
<1> QED BY <1>2, <1>3, <1>4, <1>5, <1>6, <1>7, <1>8

\* Entry n of directory d changes.
Moved(p, d, n) ==
    /\ \A i \in Inums, m \in Names : i /= d \/ m /= n => dinode'[i].ent[m] = dinode[i].ent[m]
    /\ \A i \in Inums :
        /\ dinode'[i].type = dinode[i].type
        /\ dinode[i].type = "free" => dinode'[i] = dinode[i]
        /\ dinode'[i].nlink >= dinode[i].nlink
             - One(Claiming(p, i)) - One(dinode[d].ent[n] = i) - One(i = d /\ n \in Subdirs(d))
             + One(Claiming(p, i)') + One(dinode'[d].ent[n] = i) + One(i = d /\ n \in Subdirs(d)')

LEMMA CountMove ==
    ASSUME CountInv, NEW p \in Procs, Others(p), ClaimsKept(p), dinode \in Disk, dinode' \in Disk,
           NEW d \in Inums, NEW n \in Names, Moved(p, d, n)
    PROVE  CountInv'
<1> SUFFICES ASSUME NEW i \in Inums
             PROVE  Cardinality(EntriesFor(i)') + Cardinality(Subdirs(i)') + Cardinality(Claims(i)')
                        + (IF i = Root THEN 1 ELSE 0) <= dinode'[i].nlink
  BY DEF CountInv, Moved
<1> DEFINE E == {x \in EntriesFor(i) : x /= <<d, n>>}
           S == {m \in Subdirs(i) : ~(i = d /\ m = n)}
           a == dinode[d].ent[n] = i
           b == dinode'[d].ent[n] = i
           e == i = d /\ n \in Subdirs(d)
           f == i = d /\ n \in Subdirs(d)'
<1>1. IsFiniteSet(EntriesFor(i)) /\ IsFiniteSet(Subdirs(i))
  BY LinkSetsFinite
<1>2. /\ IsFiniteSet(E) /\ Cardinality(E) \in Nat /\ <<d, n>> \notin E
      /\ IsFiniteSet(S) /\ Cardinality(S) \in Nat
  BY <1>1, FS_Subset, FS_CardinalityType
<1>3. EntriesFor(i) = IF a THEN E \cup {<<d, n>>} ELSE E
  BY DEF EntriesFor
<1>4. EntriesFor(i)' = IF b THEN E \cup {<<d, n>>} ELSE E
  BY DEF EntriesFor, Moved
<1>5. Subdirs(i) = IF e THEN S \cup {n} ELSE S
  BY DEF Subdirs
<1>6. Subdirs(i)' = IF f THEN S \cup {n} ELSE S
  <2>1. \A m \in Names : dinode[i].ent[m] \in Inums \cup {0}
    BY Sets DEF Disk
  <2>2. ASSUME NEW m \in Names, i /= d \/ m /= n
        PROVE  m \in Subdirs(i)' <=> m \in Subdirs(i)
    BY <2>1, <2>2 DEF Subdirs, Moved
  <2>3. Subdirs(i)' \subseteq Names /\ Subdirs(i) \subseteq Names
    BY DEF Subdirs
  <2> QED BY <2>2, <2>3
<1>7. a \in BOOLEAN /\ b \in BOOLEAN /\ e \in BOOLEAN /\ f \in BOOLEAN
  OBVIOUS
<1>8. i = d => n \notin S
  OBVIOUS
<1>9. e => i = d
  OBVIOUS
<1>10. f => i = d
  OBVIOUS
<1>11. /\ dinode'[i].nlink >= dinode[i].nlink - One(Claiming(p, i)) - One(a) - One(e)
                            + One(Claiming(p, i)') + One(b) + One(f)
  BY DEF Moved
<1> HIDE DEF E, S, a, b, e, f
<1>12. /\ Cardinality(EntriesFor(i)) = Cardinality(E) + One(a)
       /\ Cardinality(EntriesFor(i)') = Cardinality(E) + One(b)
  <2>1. /\ Cardinality(IF a THEN E \cup {<<d, n>>} ELSE E) = Cardinality(E) + One(a)
        /\ Cardinality(IF b THEN E \cup {<<d, n>>} ELSE E) = Cardinality(E) + One(b)
    BY ONLY <1>2, <1>7, AddOne, Zenon
  <2> QED BY <2>1, <1>3, <1>4
<1>13. Cardinality(Subdirs(i)) = Cardinality(S) + One(e)
  <2>1. CASE e
    BY <2>1, <1>2, <1>5, <1>8, <1>9, FS_AddElement DEF One
  <2>2. CASE ~e
    BY <2>2, <1>2, <1>5 DEF One
  <2> QED BY <2>1, <2>2
<1>14. Cardinality(Subdirs(i)') = Cardinality(S) + One(f)
  <2>1. CASE f
    BY <2>1, <1>2, <1>6, <1>8, <1>10, FS_AddElement DEF One
  <2>2. CASE ~f
    BY <2>2, <1>2, <1>6 DEF One
  <2> QED BY <2>1, <2>2
<1>15. /\ Cardinality(Claims(i)') = Cardinality(Claims(i)) - One(Claiming(p, i)) + One(Claiming(p, i)')
       /\ Cardinality(Claims(i)) \in Nat /\ Cardinality(Claims(i)') \in Nat
  BY ClaimsStep
<1>16. /\ One(Claiming(p, i)) \in {0, 1} /\ One(Claiming(p, i)') \in {0, 1}
       /\ One(a) \in {0, 1} /\ One(b) \in {0, 1} /\ One(e) \in {0, 1} /\ One(f) \in {0, 1}
  BY DEF One
<1>17. dinode[i].nlink \in Nat /\ dinode'[i].nlink \in Nat
  BY DEF Disk
<1>18. Cardinality(EntriesFor(i)) + Cardinality(Subdirs(i)) + Cardinality(Claims(i))
        + (IF i = Root THEN 1 ELSE 0) <= dinode[i].nlink
  BY DEF CountInv
<1> QED BY <1>2, <1>11, <1>12, <1>13, <1>14, <1>15, <1>16, <1>17, <1>18

\* An inode that can be found has links and is not free.
LEMMA Linked ==
    ASSUME VarInv, CountInv, NEW i \in Inums
    PROVE  /\ i = Root => dinode[i].nlink > 0
           /\ \A j \in Inums, n \in Names : dinode[j].ent[n] = i => dinode[i].nlink > 0
           /\ \A n \in Names : n \in Subdirs(i) => dinode[i].nlink > 0
           /\ \A p \in Procs : Claim(p) /\ Inum(ip[p]) = i => dinode[i].nlink > 0
           /\ dinode[i].nlink > 0 => dinode[i].type /= "free"
           /\ dinode[i].type = "free" => dinode[i] = FreeInode
<1>1. dinode \in Disk /\ dinode[i].nlink \in Nat
  BY DEF VarInv, Disk
<1>2. /\ IsFiniteSet(EntriesFor(i)) /\ Cardinality(EntriesFor(i)) \in Nat
      /\ IsFiniteSet(Subdirs(i)) /\ Cardinality(Subdirs(i)) \in Nat
  BY LinkSetsFinite
<1>3. IsFiniteSet(Claims(i)) /\ Cardinality(Claims(i)) \in Nat
  BY ClaimsFinite DEF Claims
<1>4. /\ Cardinality(EntriesFor(i)) + Cardinality(Subdirs(i)) + Cardinality(Claims(i))
            + (IF i = Root THEN 1 ELSE 0) <= dinode[i].nlink
      /\ dinode[i].type = "free" => dinode[i] = FreeInode
  BY DEF CountInv
<1>5. EntriesFor(i) /= {} => dinode[i].nlink > 0
  <2>1. EntriesFor(i) /= {} => Cardinality(EntriesFor(i)) /= 0
    BY <1>2, FS_EmptySet
  <2> QED BY <2>1, <1>1, <1>2, <1>3, <1>4
<1>6. Subdirs(i) /= {} => dinode[i].nlink > 0
  <2>1. Subdirs(i) /= {} => Cardinality(Subdirs(i)) /= 0
    BY <1>2, FS_EmptySet
  <2> QED BY <2>1, <1>1, <1>2, <1>3, <1>4
<1>7. Claims(i) /= {} => dinode[i].nlink > 0
  <2>1. Claims(i) /= {} => Cardinality(Claims(i)) /= 0
    BY <1>3, FS_EmptySet
  <2> QED BY <2>1, <1>1, <1>2, <1>3, <1>4
<1>8. i = Root => dinode[i].nlink > 0
  BY <1>1, <1>2, <1>3, <1>4
<1>9. \A j \in Inums, n \in Names : dinode[j].ent[n] = i => <<j, n>> \in EntriesFor(i)
  BY DEF EntriesFor
<1>10. \A p \in Procs : Claim(p) /\ Inum(ip[p]) = i => p \in Claims(i)
  BY DEF Claims
<1>11. dinode[i].nlink > 0 => dinode[i].type /= "free"
  BY <1>1, <1>4, Sets
<1> QED BY <1>4, <1>5, <1>6, <1>7, <1>8, <1>9, <1>10, <1>11

-----------------------------------------------------------------------------
(* What a step of one process does to the others. *)

OwnLocks(p) ==
    \A s \in Slots : lock[s] = p =>
        icache[s].valid /\ icache[s].ref > 0 /\ (pc[p] /= "panic" => Keeps(p, s))

LockFrame(p) ==
    \A s \in Slots : lock'[s] = lock[s] \/ (lock[s] \in {None, p} /\ lock'[s] \in {None, p})

\* A step of p that the invariant of the others survives.
Frame(p) ==
    /\ Others(p) /\ LockFrame(p)
    /\ \A q \in Procs : q /= p =>
        /\ \A s \in Uses(q) : /\ icache'[s].inum = icache[s].inum
                              /\ dinode'[Inum(s)].type = Node(s).type
        /\ put[q] /= 0 => icache'[put[q]].inum = icache[put[q]].inum
        /\ pc[q] = "trunc" => put[q] \notin Uses(p)' /\ dinode'[Inum(put[q])].nlink = 0
        /\ At(q) = "new" =>
            /\ dinode'[Inum(ip[q])].nlink = Node(ip[q]).nlink
            /\ dinode'[Inum(ip[q])].ent = Node(ip[q]).ent
            /\ ip[q] \notin {cur'[p], ip'[p], dp'[p], file'[p], cwd'[p]}
    /\ \A s \in Slots : lock[s] \notin {None, p} =>
        /\ icache'[s].valid /\ icache'[s].ref > 0 /\ icache'[s].inum = icache[s].inum
        /\ dinode'[Inum(s)].ent = Node(s).ent

LEMMA OtherProc ==
    ASSUME NInv, Up, NEW p \in Procs, Frame(p), NEW q \in Procs, q /= p
    PROVE  ProcInv(q)'
<1> USE DEF Others
<1>0. ProcInv(q) /\ pc[q] /= "panic" /\ VarInv /\ Others(p) /\ q /= None
  BY Sets DEF NInv, Up, Frame
<1>1. LocalAt(q)
  BY <1>0 DEF ProcInv
<1>2. At(q)' = At(q) /\ Uses(q)' = Uses(q) /\ Last(q)' = Last(q) /\ Linking(q)' = Linking(q)
  BY <1>0 DEF At, Uses, Last, Linking
<1>3. LocalAt(q)'
  BY <1>0, <1>1, <1>2 DEF LocalAt
<1>4. \A s \in Slots : Keeps(q, s)' <=> Keeps(q, s)
  BY <1>0, <1>2 DEF Keeps
<1>5. \A s \in Slots : Keeps(q, s)' => lock'[s] = q
  BY <1>0, <1>4 DEF ProcInv, Frame, LockFrame
<1>6. \A s \in Uses(q) : icache'[s].inum = icache[s].inum /\ Node(s)'.type = Node(s).type
  BY <1>0 DEF Frame, Node, Inum
<1>7. TruncAt(q)'
  <2> SUFFICES ASSUME pc[q] = "trunc"
               PROVE  Node(put[q])'.nlink = 0 /\ \A r \in Procs : put'[q] \notin Uses(r)'
    BY <1>0 DEF TruncAt
  <2>1. put[q] /= 0
    BY <1>1 DEF LocalAt, Putting
  <2>2. icache'[put[q]].inum = icache[put[q]].inum
    BY <2>1 DEF Frame
  <2>3. put[q] \notin Uses(p)' /\ dinode'[Inum(put[q])].nlink = 0
    BY DEF Frame
  <2>4. \A r \in Procs : r /= p => Uses(r)' = Uses(r)
    BY <1>0 DEF Uses
  <2>5. \A r \in Procs : put[q] \notin Uses(r)
    BY <1>0 DEF ProcInv, TruncAt
  <2>6. \A r \in Procs : put'[q] \notin Uses(r)'
    BY <1>0, <2>3, <2>4, <2>5
  <2> QED BY <1>0, <2>2, <2>3, <2>6 DEF Node, Inum
<1>8. NewAt(q)'
  <2> SUFFICES ASSUME At(q) = "new"
               PROVE  /\ Node(ip[q])'.nlink = 0 /\ Node(ip[q])'.ent = NoEntries
                      /\ Node(ip[q])'.type = "dir" => op'[q] = "mkdir"
                      /\ \A r \in Procs : /\ ip'[q] \notin {cur'[r], dp'[r], file'[r], cwd'[r]}
                                          /\ ip'[r] = ip'[q] => r = q
    BY <1>2 DEF NewAt
  <2>1. ip[q] \in Uses(q)
    BY <1>1 DEF LocalAt, HasInode, Uses
  <2>2. /\ icache'[ip[q]].inum = icache[ip[q]].inum /\ ip'[q] = ip[q] /\ op'[q] = op[q]
        /\ dinode'[Inum(ip[q])].type = Node(ip[q]).type
    BY <2>1, <1>0 DEF Frame
  <2>3. /\ dinode'[Inum(ip[q])].nlink = Node(ip[q]).nlink
        /\ dinode'[Inum(ip[q])].ent = Node(ip[q]).ent
        /\ ip[q] \notin {cur'[p], ip'[p], dp'[p], file'[p], cwd'[p]}
    BY DEF Frame
  <2>4. /\ Node(ip[q]).nlink = 0 /\ Node(ip[q]).ent = NoEntries
        /\ Node(ip[q]).type = "dir" => op[q] = "mkdir"
        /\ \A r \in Procs : /\ ip[q] \notin {cur[r], dp[r], file[r], cwd[r]}
                            /\ ip[r] = ip[q] => r = q
    BY <1>0 DEF ProcInv, NewAt
  <2> QED BY <1>0, <2>2, <2>3, <2>4 DEF Node, Inum
<1>9. ChildAt(q)'
  <2> SUFFICES ASSUME At(q) = "remove"
               PROVE  Node(dp[q])'.ent[Last(q)] = Inum(ip[q])'
    BY <1>0, <1>2 DEF ChildAt
  <2>1. dp[q] /= 0 /\ dp[q] \in Slots /\ ip[q] \in Uses(q)
    BY <1>0, <1>1 DEF LocalAt, HasDir, HasInode, VarInv, Uses
  <2>2. lock[dp[q]] = q
    BY <1>0, <2>1 DEF ProcInv, Keeps
  <2>3. icache'[dp[q]].inum = icache[dp[q]].inum /\ dinode'[Inum(dp[q])].ent = Node(dp[q]).ent
    BY <1>0, <2>1, <2>2 DEF Frame
  <2>4. Node(dp[q])'.ent = Node(dp[q]).ent
    BY <1>0, <2>3 DEF Node, Inum
  <2>5. Inum(ip[q])' = Inum(ip[q])
    BY <2>1, <1>0, <1>6 DEF Inum
  <2> QED BY <1>0, <2>4, <2>5 DEF ProcInv, ChildAt
<1>10. dp'[q] /= 0 => Node(dp[q])'.type = "dir"
  BY <1>0, <1>6 DEF ProcInv, Uses
<1>11. Linking(q)' => Node(ip[q])'.type = "file"
  BY <1>0, <1>2, <1>6 DEF ProcInv, Uses, Linking
<1>12. pc'[q] /= "bug" /\ \A s \in Uses(q)' : Node(s)'.type /= "free"
  BY <1>0, <1>2, <1>6 DEF ProcInv
<1>13. dp'[q] = dp[q] /\ ip'[q] = ip[q]
  BY <1>0
<1> QED BY <1>3, <1>5, <1>7, <1>8, <1>9, <1>10, <1>11, <1>12, <1>13 DEF ProcInv, Node

LEMMA FrameStep ==
    ASSUME NInv, Up, NEW p \in Procs, Frame(p), VarInv', ProcInv(p)', OwnLocks(p)',
           Good(icache', dinode'), RefsExact', TreeInv', CountInv'
    PROVE  NInv'
<1>1. \A q \in Procs : ProcInv(q)'
  BY OtherProc
<1>2. ASSUME NEW s \in Slots, lock'[s] /= None
      PROVE  /\ icache'[s].valid /\ icache'[s].ref > 0
             /\ pc'[lock'[s]] /= "panic" => Keeps(lock[s], s)'
  <2>1. CASE lock'[s] = p
    BY <2>1 DEF OwnLocks
  <2>2. CASE lock'[s] /= p
    <3>1. lock'[s] = lock[s] /\ lock[s] \notin {None, p} /\ lock[s] \in Procs
      BY <1>2, <2>2 DEF Frame, LockFrame, NInv, VarInv
    <3>2. icache'[s].valid /\ icache'[s].ref > 0
      BY <3>1 DEF Frame
    <3>3. Keeps(lock[s], s) /\ pc[lock[s]] /= "panic"
      BY <3>1 DEF NInv, LockInv, Up
    <3>4. Keeps(lock[s], s)'
      BY <3>1, <3>3 DEF Keeps, At, Frame, Others
    <3> QED BY <3>2, <3>4
  <2> QED BY <2>1, <2>2
<1>3. LockInv'
  BY <1>2 DEF LockInv
<1> QED BY <1>1, <1>3 DEF NInv

\* A step that takes at most one new reference, to entry g; p begins to use it only
\* if its inode has links or is free; ...
Got(p, g) ==
    /\ \A s \in Slots :
        /\ icache'[s].ref = icache[s].ref + One(s = g)
        /\ Mine(p, s)' = Mine(p, s) + One(s = g)
        /\ icache[s].ref > 0 => /\ icache'[s].inum = icache[s].inum
                                /\ icache[s].valid => icache'[s].valid
    /\ g \in Slots /\ icache[g].ref > 0 /\ g \in Uses(p)' =>
            g \in Uses(p) \/ Node(g).nlink > 0 \/ Node(g).type = "free"
    /\ Uses(p)' \subseteq Uses(p) \cup {g}

\* ... and that writes only free inodes and those of ip and dp under their locks.
Written(p) ==
    \A i \in Inums : dinode[i].type /= "free" =>
        /\ dinode'[i].type = dinode[i].type
        /\ dinode'[i] /= dinode[i] =>
            \E s \in {ip[p], dp[p]} \ {0} : Inum(s) = i /\ lock[s] \in {None, p}

\* Pointers of a process are references; two of them make two.
LEMMA UseFacts ==
    ASSUME NInv, NEW q \in Procs
    PROVE  /\ \A s \in Uses(q) : /\ s \in Slots /\ icache[s].ref > 0 /\ Inum(s) \in Inums
                                 /\ Node(s).type /= "free" /\ (s = put[q] => icache[s].ref >= 2)
           /\ put[q] /= 0 => put[q] \in Slots /\ icache[put[q]].ref > 0 /\ Inum(put[q]) \in Inums
           /\ \A r \in Procs, s \in Uses(q) : r /= q /\ s \in Uses(r) \cup {put[r]} => icache[s].ref >= 2
<1>0. VarInv /\ RefsExact /\ Good(icache, dinode) /\ ProcInv(q)
  BY DEF NInv
<1>1. \A s \in Uses(q) : \E k \in 1..6 : k /= 4 /\ s = Pointers[k][q] /\ s /= 0
  <2>1. /\ Pointers[1][q] = cur[q] /\ Pointers[2][q] = ip[q] /\ Pointers[3][q] = dp[q]
        /\ Pointers[5][q] = file[q] /\ Pointers[6][q] = cwd[q]
    BY DEF Pointers
  <2>2. 1 \in 1..6 /\ 2 \in 1..6 /\ 3 \in 1..6 /\ 5 \in 1..6 /\ 6 \in 1..6
    OBVIOUS
  <2> QED BY <2>1, <2>2 DEF Uses
<1>2. Pointers[4][q] = put[q] /\ 4 \in 1..6
  BY DEF Pointers
<1>3. ASSUME NEW s \in Uses(q)
      PROVE  /\ s \in Slots /\ icache[s].ref > 0 /\ Inum(s) \in Inums
             /\ Node(s).type /= "free" /\ (s = put[q] => icache[s].ref >= 2)
  <2>1. PICK k \in 1..6 : k /= 4 /\ s = Pointers[k][q] /\ s /= 0
    BY <1>1, <1>3
  <2>2. s \in Slots /\ icache[s].ref > 0
    BY <1>0, <2>1, Referred
  <2>3. s = put[q] => icache[s].ref >= 2
    BY <1>0, <1>2, <2>1, TwoRefs
  <2> QED BY <1>0, <2>2, <2>3 DEF Good, ProcInv, Inum
<1>4. put[q] /= 0 => put[q] \in Slots /\ icache[put[q]].ref > 0
  BY <1>0, <1>2, Referred
<1>5. put[q] /= 0 => Inum(put[q]) \in Inums
  BY <1>0, <1>4 DEF Good, Inum
<1>6. ASSUME NEW r \in Procs, NEW s \in Uses(q), r /= q, s \in Uses(r) \cup {put[r]}
      PROVE  icache[s].ref >= 2
  <2>1. PICK k \in 1..6 : k /= 4 /\ s = Pointers[k][q] /\ s /= 0
    BY <1>1
  <2>2. \E l \in 1..6 : s = Pointers[l][r]
    <3>1. /\ Pointers[1][r] = cur[r] /\ Pointers[2][r] = ip[r] /\ Pointers[3][r] = dp[r]
          /\ Pointers[4][r] = put[r] /\ Pointers[5][r] = file[r] /\ Pointers[6][r] = cwd[r]
      BY DEF Pointers
    <3>2. 1 \in 1..6 /\ 2 \in 1..6 /\ 3 \in 1..6 /\ 4 \in 1..6 /\ 5 \in 1..6 /\ 6 \in 1..6
      OBVIOUS
    <3> QED BY <3>1, <3>2, <1>6 DEF Uses
  <2>3. PICK l \in 1..6 : s = Pointers[l][r]
    BY <2>2
  <2> QED BY <1>0, <1>6, <2>1, <2>3, TwoRefs
<1> QED BY <1>3, <1>4, <1>5, <1>6

\* One entry for an inode.
LEMMA OneEntry ==
    ASSUME NInv, NEW s \in Slots, NEW t \in Slots, icache[s].ref > 0, icache[t].ref > 0,
           Inum(s) = Inum(t)
    PROVE  s = t
BY DEF NInv, Good, Inum

\* A locked entry is valid, and not of a free inode.
LEMMA Locked ==
    ASSUME NInv, Up, NEW s \in Slots, lock[s] /= None
    PROVE  /\ icache[s].valid /\ icache[s].ref > 0 /\ Inum(s) \in Inums /\ Node(s).type /= "free"
           /\ lock[s] \in Procs /\ Keeps(lock[s], s)
<1>1. lock[s] \in Procs /\ icache[s].valid /\ icache[s].ref > 0
  BY DEF NInv, VarInv, LockInv
<1>2. Keeps(lock[s], s)
  BY <1>1 DEF NInv, LockInv, Up
<1> QED BY <1>1, <1>2 DEF NInv, Good, Node, Inum

LEMMA GotFrame ==
    ASSUME NInv, Up, NEW p \in Procs, NEW g \in Slots \cup {0}, VarInv',
           Others(p), LockFrame(p), Got(p, g), Written(p)
    PROVE  Frame(p)
<1> USE DEF Inum, Node
<1>0. VarInv
  BY DEF NInv
<1>1. \A s \in Slots : icache[s].ref \in Nat /\ icache'[s].ref \in Nat
  BY <1>0 DEF VarInv, Cache
<1>2. ASSUME NEW s \in Slots, icache[s].ref > 0, Node(s).type /= "free", s \notin {ip[p], dp[p]} \/ lock[s] \notin {None, p}
      PROVE  dinode'[Inum(s)] = dinode[Inum(s)]
  <2>1. Inum(s) \in Inums
    BY <1>2 DEF NInv, Good
  <2>2. SUFFICES ASSUME dinode'[Inum(s)] /= dinode[Inum(s)]
                 PROVE  FALSE
    OBVIOUS
  <2>3. PICK t \in {ip[p], dp[p]} \ {0} : Inum(t) = Inum(s) /\ lock[t] \in {None, p}
    BY <1>2, <2>1, <2>2 DEF Written
  <2>4. t \in Uses(p)
    BY <2>3 DEF Uses
  <2>5. t \in Slots /\ icache[t].ref > 0
    BY <2>4, UseFacts
  <2>6. s = t
    BY <1>2, <2>3, <2>5, OneEntry
  <2> QED BY <1>2, <2>3, <2>6
<1>3. ASSUME NEW s \in Slots, icache[s].ref > 0, s \notin Uses(p), Node(s).nlink = 0, Node(s).type /= "free"
      PROVE  s \notin Uses(p)'
  <2>1. s = g => s \notin Uses(p)'
    BY <1>3 DEF Got
  <2> QED BY <2>1, <1>3 DEF Got
<1>4. ASSUME NEW q \in Procs, q /= p
      PROVE  \A s \in Uses(q) : /\ icache'[s].inum = icache[s].inum
                                /\ dinode'[Inum(s)].type = Node(s).type
  BY UseFacts DEF Got, Written
<1>5. ASSUME NEW q \in Procs, q /= p, put[q] /= 0
      PROVE  icache'[put[q]].inum = icache[put[q]].inum
  BY <1>5, UseFacts DEF Got
<1>6. ASSUME NEW q \in Procs, q /= p, pc[q] = "trunc"
      PROVE  put[q] \notin Uses(p)' /\ dinode'[Inum(put[q])].nlink = 0
  <2>1. ProcInv(q) /\ pc[q] /= "panic"
    BY <1>6 DEF NInv
  <2>2. put[q] /= 0
    BY <1>6, <2>1 DEF ProcInv, LocalAt, Putting
  <2>3. put[q] \in Slots /\ icache[put[q]].ref > 0
    BY <2>2, UseFacts
  <2>4. Node(put[q]).nlink = 0 /\ put[q] \notin Uses(p)
    BY <1>6, <2>1 DEF ProcInv, TruncAt
  <2>5. lock[put[q]] = q /\ q /= None
    BY <1>6, <2>1, <2>3, Sets DEF ProcInv, Keeps
  <2>6. Node(put[q]).type /= "free"
    BY <2>3, <2>5, Locked
  <2>8. put[q] \notin {ip[p], dp[p]}
    BY <2>2, <2>4 DEF Uses
  <2>9. put[q] \notin Uses(p)'
    BY <1>3, <2>3, <2>4, <2>6
  <2> QED BY <1>2, <2>3, <2>4, <2>6, <2>8, <2>9
<1>7. ASSUME NEW q \in Procs, q /= p, At(q) = "new"
      PROVE  /\ dinode'[Inum(ip[q])].nlink = Node(ip[q]).nlink
             /\ dinode'[Inum(ip[q])].ent = Node(ip[q]).ent
             /\ ip[q] \notin {cur'[p], ip'[p], dp'[p], file'[p], cwd'[p]}
  <2>1. ProcInv(q) /\ pc[q] /= "panic"
    BY DEF NInv, Up
  <2>2. ip[q] /= 0 /\ ip[q] \in Uses(q)
    BY <1>7, <2>1 DEF ProcInv, LocalAt, HasInode, Uses
  <2>3. ip[q] \in Slots /\ icache[ip[q]].ref > 0 /\ Node(ip[q]).type /= "free"
    BY <2>2, UseFacts
  <2>4. Node(ip[q]).nlink = 0 /\ ip[q] \notin Uses(p)
    BY <1>7, <2>1 DEF ProcInv, NewAt, Uses
  <2>6. ip[q] \notin Uses(p)'
    BY <1>3, <2>3, <2>4
  <2>7. ip[q] \notin {ip[p], dp[p]}
    BY <2>2, <2>4 DEF Uses
  <2> QED BY <1>2, <2>2, <2>3, <2>6, <2>7 DEF Uses
<1>8. ASSUME NEW s \in Slots, lock[s] \notin {None, p}
      PROVE  /\ icache'[s].valid /\ icache'[s].ref > 0 /\ icache'[s].inum = icache[s].inum
             /\ dinode'[Inum(s)].ent = Node(s).ent
  <2>1. icache[s].valid /\ icache[s].ref > 0 /\ Node(s).type /= "free"
    BY <1>8, Locked
  <2>2. dinode'[Inum(s)] = dinode[Inum(s)]
    BY <1>2, <1>8, <2>1
  <2>3. icache'[s].ref >= icache[s].ref
    BY <1>1 DEF Got, One
  <2> QED BY <1>1, <2>1, <2>2, <2>3 DEF Got
<1> QED BY <1>4, <1>5, <1>6, <1>7, <1>8 DEF Frame

LEMMA Step ==
    ASSUME NInv, Up, NEW p \in Procs, NEW g \in Slots \cup {0}, VarInv',
           Others(p), LockFrame(p), Got(p, g), Written(p), ProcInv(p)', OwnLocks(p)',
           Good(icache', dinode'), TreeInv', CountInv'
    PROVE  NInv'
<1>1. Frame(p)
  BY GotFrame
<1>2. \A s \in Slots : /\ icache[s].ref \in Nat
                       /\ Mine(p, s) \in Nat /\ Mine(p, s)' \in Nat
  <2>1. \A c : One(c) \in Nat
    BY DEF One
  <2>2. \A s \in Slots : Mine(p, s) \in Nat
    BY <2>1 DEF Mine
  <2>3. \A s \in Slots : Mine(p, s)' \in Nat
    BY <2>1 DEF Mine
  <2> QED BY <2>2, <2>3 DEF NInv, VarInv, Cache
<1>3. \A s \in Slots : icache'[s].ref = icache[s].ref - Mine(p, s) + Mine(p, s)'
  BY <1>2 DEF Got, One
<1>4. RefsExact'
  BY <1>3, RefsStep DEF NInv
<1> QED BY <1>1, <1>4, FrameStep

-----------------------------------------------------------------------------
(* Steps that write nothing to disk. *)

LEMMA SameGot ==
    ASSUME NInv, NEW p \in Procs, Same(icache'), Uses(p)' \subseteq Uses(p),
           \A s \in Slots : Mine(p, s)' = Mine(p, s)
    PROVE  Got(p, 0) /\ Good(icache', dinode) /\ icache' \in Cache
<1>1. \A s \in Slots : Mine(p, s) \in Nat /\ icache[s].ref \in Nat
  BY DEF NInv, VarInv, Cache, Mine, One
<1>2. \A s \in Slots : One(s = 0) = 0
  BY Sets DEF One
<1> QED BY <1>1, <1>2, Sets DEF Got, Same

LEMMA GetGot ==
    ASSUME NInv, NEW p \in Procs, NEW T, Same(T), NEW i \in Inums, CanGet(T, i),
           icache' = iget(T, i),
           SlotOf(T, i) \in Uses(p)' => SlotOf(T, i) \in Uses(p) \/ dinode[i].nlink > 0 \/ dinode[i].type = "free",
           Uses(p)' \subseteq Uses(p) \cup {SlotOf(T, i)},
           \A s \in Slots : Mine(p, s)' = Mine(p, s) + One(s = SlotOf(T, i))
    PROVE  /\ Got(p, SlotOf(T, i)) /\ Good(icache', dinode) /\ icache' \in Cache
           /\ SlotOf(T, i) \in Slots /\ icache'[SlotOf(T, i)].inum = i
           /\ \A s \in Slots : T[s].ref > 0 /\ T[s].valid => icache'[s].valid
<1> DEFINE g == SlotOf(T, i)
           G == iget(T, i)
<1>1. /\ T \in Cache /\ Good(T, dinode)
      /\ \A t \in Slots : /\ T[t].ref = icache[t].ref /\ T[t].inum = icache[t].inum
                          /\ icache[t].valid => T[t] = icache[t]
  BY DEF Same
<1>2. /\ g \in Slots /\ G \in Cache
      /\ G[g].ref = T[g].ref + 1 /\ G[g].inum = i
      /\ T[g].ref > 0 => T[g].inum = i /\ G[g].valid = T[g].valid
      /\ \A t \in Slots : t /= g => G[t] = T[t]
      /\ Good(G, dinode)
  BY <1>1, GetFacts
<1>3. icache' = G
  OBVIOUS
<1> HIDE DEF g, G
<1>4. \A s \in Slots : icache[s].ref \in Nat
  BY DEF NInv, VarInv, Cache
<1>5. ASSUME NEW s \in Slots
      PROVE  /\ icache'[s].ref = icache[s].ref + One(s = g)
             /\ icache[s].ref > 0 => /\ icache'[s].inum = icache[s].inum
                                     /\ icache[s].valid => icache'[s].valid
  <2>1. CASE s = g
    BY <2>1, <1>1, <1>2, <1>3 DEF One
  <2>2. CASE s /= g
    BY <2>2, <1>1, <1>2, <1>3, <1>4 DEF One
  <2> QED BY <2>1, <2>2
<1>6. icache[g].ref > 0 /\ g \in Uses(p)' => g \in Uses(p) \/ Node(g).nlink > 0 \/ Node(g).type = "free"
  BY <1>1, <1>2 DEF Node, g
<1>7. \A s \in Slots : T[s].ref > 0 /\ T[s].valid => icache'[s].valid
  BY <1>2, <1>3
<1> QED BY <1>2, <1>3, <1>5, <1>6, <1>7 DEF Got, g

\* What is left to show of a step that gets at most g and writes nothing.
Calm(p) ==
    /\ Others(p) /\ LockFrame(p) /\ dinode' = dinode
    /\ pc'[p] \notin {"panic", "bug"} /\ LocalAt(p)'
    /\ \A s \in Slots : (Keeps(p, s)' <=> lock'[s] = p)
    /\ \A s \in Slots : lock'[s] = p /\ lock[s] /= p => icache'[s].valid /\ icache'[s].ref > 0
    /\ At(p)' = "remove" => dinode[icache'[dp'[p]].inum].ent[Last(p)'] = icache'[ip'[p]].inum
    /\ pc'[p] = "trunc" => /\ dinode[icache'[put'[p]].inum].nlink = 0
                           /\ \A q \in Procs : put'[p] \notin Uses(q)'
    /\ At(p)' /= "new"
    /\ dp'[p] /= 0 => dp'[p] = dp[p] \/ dinode[icache'[dp'[p]].inum].type = "dir"
    /\ Linking(p)' => Linking(p)
    /\ Claim(p)' => Claim(p) /\ ip'[p] = ip[p]

LEMMA ClaimUses ==
    ASSUME NInv, Up, NEW q \in Procs, Claim(q)
    PROVE  ip[q] \in Uses(q)
<1>1. LocalAt(q)
  BY DEF NInv, Up, ProcInv
<1> QED BY <1>1 DEF LocalAt, HasInode, Claim, Linking, Uses

LEMMA GotClaims ==
    ASSUME NInv, Up, NEW p \in Procs, NEW g, Got(p, g)
    PROVE  ClaimsKept(p) /\ \A q \in Procs : \A s \in Uses(q) : icache'[s].inum = icache[s].inum
<1>1. \A q \in Procs : \A s \in Uses(q) : icache'[s].inum = icache[s].inum
  BY UseFacts DEF Got
<1> QED BY <1>1, ClaimUses DEF ClaimsKept

LEMMA CalmStep ==
    ASSUME NInv, Up, NEW p \in Procs, NEW g \in Slots \cup {0}, Calm(p), Got(p, g), VarInv',
           Good(icache', dinode),
           g \in Uses(p)' => g \in Uses(p) \/ dinode[icache'[g].inum].type /= "free"
    PROVE  NInv'
<1>0. VarInv /\ CountInv /\ TreeInv /\ ProcInv(p) /\ dinode' = dinode /\ dinode \in Disk /\ Others(p)
  BY DEF NInv, Calm, VarInv
<1>1. Written(p)
  BY <1>0 DEF Written
<1>2. Good(icache', dinode') /\ TreeInv'
  BY <1>0 DEF TreeInv
<1>3. CountInv'
  <2>1. ClaimsKept(p)
    BY GotClaims
  <2>2. \A i \in Inums : EntriesFor(i)' \subseteq EntriesFor(i) /\ Subdirs(i)' \subseteq Subdirs(i)
    BY <1>0 DEF EntriesFor, Subdirs
  <2>3. \A i \in Inums : dinode'[i].nlink
                            >= dinode[i].nlink - One(Claiming(p, i)) + One(Claiming(p, i)')
    <3>1. Claim(p)' => Claim(p) /\ icache'[ip'[p]].inum = icache[ip[p]].inum
      BY ClaimUses, GotClaims DEF Calm
    <3>2. \A i \in Inums : Claiming(p, i)' => Claiming(p, i)
      BY <3>1 DEF Claiming, Inum
    <3>3. \A i \in Inums : dinode[i].nlink \in Nat
      BY <1>0 DEF Disk
    <3> QED BY <1>0, <3>2, <3>3 DEF One
  <2>4. \A i \in Inums : dinode'[i].type = "free" => dinode'[i] = FreeInode
    BY <1>0 DEF CountInv
  <2> HIDE DEF CountInv
  <2>5. dinode' \in Disk
    BY <1>0
  <2> QED BY <1>0, <2>1, <2>2, <2>3, <2>4, <2>5, CountKeep
<1>4. ProcInv(p)'
  <2>1. \A s \in Uses(p) : icache'[s].inum = icache[s].inum
    BY GotClaims
  <2>2. \A s \in Uses(p)' : Node(s)'.type /= "free"
    <3> SUFFICES ASSUME NEW s \in Uses(p)'
                 PROVE  Node(s)'.type /= "free"
      OBVIOUS
    <3>1. CASE s \in Uses(p)
      BY <3>1, <2>1, <1>0, UseFacts DEF Node
    <3>2. CASE s = g /\ s \notin Uses(p)
      BY <3>2, <1>0 DEF Node
    <3> QED BY <3>1, <3>2 DEF Got
  <2>3. dp'[p] /= 0 => Node(dp[p])'.type = "dir"
    <3>1. dp'[p] /= 0 /\ dp'[p] = dp[p] => dp[p] \in Uses(p)
      BY DEF Uses
    <3> QED BY <3>1, <2>1, <1>0 DEF Calm, Node, ProcInv
  <2>4. Linking(p)' => Node(ip[p])'.type = "file"
    <3>1. Linking(p)' => Linking(p) /\ ip'[p] = ip[p]
      BY DEF Calm, Claim
    <3>2. Linking(p) => ip[p] \in Uses(p)
      BY DEF Linking, Uses
    <3> QED BY <3>1, <3>2, <2>1, <1>0 DEF Node, ProcInv
  <2>5. TruncAt(p)' /\ ChildAt(p)' /\ NewAt(p)'
    BY <1>0 DEF Calm, TruncAt, ChildAt, NewAt, Node, Inum
  <2>6. pc'[p] /= "bug" /\ LocalAt(p)' /\ \A s \in Slots : Keeps(p, s)' => lock'[s] = p
    BY DEF Calm
  <2> QED BY <2>2, <2>3, <2>4, <2>5, <2>6 DEF ProcInv
<1>5. OwnLocks(p)'
  <2> SUFFICES ASSUME NEW s \in Slots, lock'[s] = p
               PROVE  icache'[s].valid /\ icache'[s].ref > 0 /\ Keeps(p, s)'
    BY DEF OwnLocks
  <2>1. CASE lock[s] = p
    <3>1. icache[s].valid /\ icache[s].ref > 0
      BY <2>1, Locked, Sets
    <3>2. icache'[s].ref >= icache[s].ref /\ icache[s].ref \in Nat /\ icache'[s].ref \in Nat
      <4>1. icache[s].ref \in Nat /\ One(s = g) \in Nat
        BY <1>0 DEF VarInv, Cache, One
      <4> QED BY <4>1 DEF Got
    <3> QED BY <3>1, <3>2 DEF Got, Calm
  <2>2. CASE lock[s] /= p
    BY <2>2 DEF Calm
  <2> QED BY <2>1, <2>2
<1>6. LockFrame(p)
  BY DEF Calm
<1> QED BY <1>0, <1>1, <1>2, <1>3, <1>4, <1>5, <1>6, Step

-----------------------------------------------------------------------------
(* The actions, one by one: first those that only look. *)

\* What is known of a process that takes a step.
LEMMA Here ==
    ASSUME NInv, Up, NEW p \in Procs
    PROVE  /\ VarInv /\ Good(icache, dinode) /\ ProcInv(p) /\ LocalAt(p)
           /\ \A s \in Slots : Keeps(p, s) <=> lock[s] = p
           /\ Same(icache) /\ p /= None
           /\ \A s \in Uses(p) : /\ s \in Slots /\ icache[s].ref > 0 /\ Inum(s) \in Inums
                                 /\ Node(s).type /= "free"
<1>1. VarInv /\ Good(icache, dinode) /\ ProcInv(p) /\ pc[p] /= "panic" /\ p /= None
  BY Sets DEF NInv, Up
<1>2. LocalAt(p)
  BY <1>1 DEF ProcInv
<1>3. \A s \in Slots : Keeps(p, s) <=> lock[s] = p
  BY <1>1, Locked DEF ProcInv
<1> QED BY <1>1, <1>2, <1>3, SelfSame, UseFacts

\* A step after which p has the same pointers.
LEMMA CalmSame ==
    ASSUME NInv, Up, NEW p \in Procs, Calm(p), VarInv', Same(icache'),
           \A s \in Slots : Mine(p, s)' = Mine(p, s), Uses(p)' \subseteq Uses(p)
    PROVE  NInv'
<1>1. Got(p, 0) /\ Good(icache', dinode) /\ 0 \in Slots \cup {0} /\ 0 \notin Uses(p)'
  BY SameGot DEF Uses
<1> QED BY <1>1, CalmStep

LEMMA IputStep ==
    ASSUME NInv, NEW p \in Procs, Iput(p)
    PROVE  NInv'
<1> DEFINE s == put[p]
           last == icache[s].valid /\ icache[s].nlink = 0 /\ icache[s].ref = 1
<1>0. /\ Up /\ pc[p] = "iput" /\ lock[s] = None
      /\ lock' = IF last THEN [lock EXCEPT ![s] = p] ELSE lock
      /\ pc' = [pc EXCEPT ![p] = IF last THEN "trunc" ELSE "unref"]
      /\ UNCHANGED <<dinode, icache, op, path, to, cur, ip, dp, put, ret, file, cwd>>
  BY DEF Iput, Goto
<1>1. /\ VarInv /\ Good(icache, dinode) /\ ProcInv(p) /\ LocalAt(p)
      /\ \A t \in Slots : Keeps(p, t) <=> lock[t] = p
      /\ Same(icache) /\ p /= None
  BY <1>0, Here
<1>2. s \in Slots /\ icache[s].ref > 0
  BY <1>0, <1>1, UseFacts DEF LocalAt, Putting
<1>3. pc'[p] = (IF last THEN "trunc" ELSE "unref") /\ VarInv' /\ Others(p) /\ LockFrame(p)
  BY <1>0, <1>1, <1>2 DEF VarInv, PCs, Others, LockFrame
<1>4. At(p)' = At(p) /\ pc'[p] \in {"trunc", "unref"}
  BY <1>0, <1>3 DEF At, Putting
<1>5. LocalAt(p)'
  BY <1>0, <1>1, <1>4 DEF LocalAt, Putting
<1>6. \A t \in Slots : Keeps(p, t)' <=> lock'[t] = p
  <2>1. \A t \in Slots : Keeps(p, t)' <=> (last /\ t = s) \/ Keeps(p, t)
    BY <1>0, <1>3, <1>4 DEF Keeps
  <2>2. \A t \in Slots : lock'[t] = p <=> (last /\ t = s) \/ lock[t] = p
    BY <1>0, <1>1, <1>2 DEF VarInv
  <2> QED BY <1>1, <2>1, <2>2
<1>7. pc'[p] = "trunc" => Node(s).nlink = 0 /\ \A q \in Procs : s \notin Uses(q)'
  <2>1. pc'[p] = "trunc" => Node(s).nlink = 0 /\ icache[s].ref = 1
    BY <1>1, <1>2, <1>3 DEF Good, Node
  <2>2. \A q \in Procs : s \in Uses(q) => icache[s].ref >= 2
    <3>1. s \in Uses(p) => icache[s].ref >= 2
      BY UseFacts
    <3>2. \A q \in Procs : q /= p /\ s \in Uses(q) => icache[s].ref >= 2
      BY UseFacts
    <3> QED BY <3>1, <3>2
  <2>3. \A q \in Procs : Uses(q)' = Uses(q)
    BY <1>0 DEF Uses
  <2> QED BY <2>1, <2>2, <2>3
<1>8. At(p) = "remove" => dinode[icache[dp[p]].inum].ent[Last(p)] = icache[ip[p]].inum
  BY <1>1 DEF ProcInv, ChildAt, Node, Inum
<1>9. Last(p)' = Last(p) /\ Linking(p)' = Linking(p) /\ Claim(p)' = Claim(p)
  BY <1>0, <1>4 DEF Last, Linking, Claim
<1>10. At(p)' /= "new"
  BY <1>0, <1>1, <1>4 DEF At, Putting, LocalAt
<1>11. \A t \in Slots : lock'[t] = p /\ lock[t] /= p => icache'[t].valid /\ icache'[t].ref > 0
  BY <1>0, <1>1, <1>2 DEF VarInv
<1> HIDE DEF s
<1>12. Calm(p)
  BY <1>0, <1>3, <1>4, <1>5, <1>6, <1>7, <1>8, <1>9, <1>10, <1>11 DEF Calm, Node, s
<1>13. Uses(p)' = Uses(p) /\ \A t \in Slots : Mine(p, t)' = Mine(p, t)
  BY <1>0 DEF Uses, Mine
<1> QED BY <1>0, <1>1, <1>3, <1>12, <1>13, CalmSame

LEMMA CloseFileStep ==
    ASSUME NInv, NEW p \in Procs, CloseFile(p)
    PROVE  NInv'
<1>0. /\ Up /\ pc[p] = "idle" /\ file[p] /= 0
      /\ file' = [file EXCEPT ![p] = 0]
      /\ put' = [put EXCEPT ![p] = file[p]] /\ ret' = [ret EXCEPT ![p] = "idle"]
      /\ pc' = [pc EXCEPT ![p] = "iput"]
      /\ UNCHANGED <<dinode, icache, lock, op, path, to, cur, ip, dp, cwd>>
  BY DEF CloseFile, CallIput, Goto
<1>1. /\ VarInv /\ ProcInv(p) /\ LocalAt(p) /\ Same(icache) /\ p /= None
      /\ \A t \in Slots : Keeps(p, t) <=> lock[t] = p
  BY <1>0, Here
<1>2. At(p) = "idle"
  BY <1>0 DEF At, Putting
<1>3. put[p] = 0 /\ cur[p] = 0 /\ dp[p] = 0 /\ ip[p] = 0
  BY <1>0, <1>1, <1>2 DEF LocalAt, Putting, HasDir, HasInode
<1>4. /\ pc'[p] = "iput" /\ ret'[p] = "idle" /\ put'[p] = file[p] /\ file'[p] = 0
      /\ VarInv' /\ Others(p) /\ LockFrame(p)
  BY <1>0, <1>1 DEF VarInv, PCs, Others, LockFrame
<1>5. At(p)' = "idle"
  BY <1>4 DEF At, Putting
<1>6. LocalAt(p)'
  BY <1>0, <1>3, <1>4, <1>5 DEF LocalAt, Putting, HasDir, HasInode
<1>7. \A t \in Slots : Keeps(p, t)' <=> lock'[t] = p
  BY <1>0, <1>1, <1>2, <1>4, <1>5 DEF Keeps
<1>8. Calm(p)
  BY <1>0, <1>3, <1>4, <1>5, <1>6, <1>7 DEF Calm, Linking, Claim
<1>9. Uses(p)' \subseteq Uses(p) /\ \A t \in Slots : Mine(p, t)' = Mine(p, t)
  BY <1>0, <1>3, <1>4, Sets DEF Uses, Mine, One
<1> QED BY <1>0, <1>1, <1>4, <1>8, <1>9, CalmSame

\* ilock of an inode that p uses.
LEMMA Lookup ==
    ASSUME NInv, Up, NEW p \in Procs, NEW s \in Uses(p)
    PROVE  /\ s \in Slots /\ icache[s].ref > 0 /\ Inum(s) \in Inums /\ Node(s).type /= "free"
           /\ Same(Load(icache, s)) /\ Load(icache, s)[s].valid /\ ~Typeless(s)
           /\ Load(icache, s) \in Cache /\ Load(icache, s)[s].inum = icache[s].inum
           /\ Load(icache, s)[s].type = Node(s).type /\ Load(icache, s)[s].nlink = Node(s).nlink
           /\ \A t \in Slots : t /= s => Load(icache, s)[t] = icache[t]
<1>1. VarInv /\ Good(icache, dinode)
  BY DEF NInv
<1>2. s \in Slots /\ icache[s].ref > 0 /\ Inum(s) \in Inums /\ Node(s).type /= "free"
  BY UseFacts
<1>3. /\ Same(Load(icache, s)) /\ Load(icache, s)[s].valid /\ ~Typeless(s)
      /\ Load(icache, s)[s].type = Node(s).type /\ Load(icache, s)[s].nlink = Node(s).nlink
      /\ \A t \in Slots : t /= s => Load(icache, s)[t] = icache[t]
  BY <1>1, <1>2, LoadSame
<1> QED BY <1>2, <1>3 DEF Same

LEMMA OpenItStep ==
    ASSUME NInv, NEW p \in Procs, OpenIt(p)
    PROVE  NInv'
<1> DEFINE s == ip[p]
<1>0. /\ Up /\ pc[p] = "open" /\ lock[s] = None /\ icache' = Load(icache, s)
      /\ UNCHANGED <<dinode, lock, cur, dp, cwd>>
  BY DEF OpenIt
<1>1. /\ VarInv /\ ProcInv(p) /\ LocalAt(p) /\ p /= None
      /\ \A t \in Slots : Keeps(p, t) <=> lock[t] = p
  BY <1>0, Here
<1>2. At(p) = "open"
  BY <1>0 DEF At, Putting
<1>3. put[p] = 0 /\ cur[p] = 0 /\ dp[p] = 0 /\ ip[p] /= 0 /\ ip[p] \in Uses(p) /\ file[p] = 0
  BY <1>0, <1>1, <1>2 DEF LocalAt, Putting, HasDir, HasInode, Uses
<1>4. s \in Slots /\ Same(icache') /\ icache' \in Cache /\ ~Typeless(s)
  BY <1>0, <1>3, Lookup
<1>5. ip' = [ip EXCEPT ![p] = 0]
  BY <1>4 DEF OpenIt
<1>6. CASE file' = [file EXCEPT ![p] = s] /\ Leave(p, "idle") /\ UNCHANGED <<put, ret>>
  <2>1. /\ pc'[p] = "idle" /\ file'[p] = s /\ ip'[p] = 0 /\ put'[p] = 0 /\ op'[p] = "none"
        /\ VarInv' /\ Others(p) /\ LockFrame(p)
    BY <1>0, <1>1, <1>3, <1>4, <1>5, <1>6, NoPath DEF VarInv, PCs, Ops, Others, LockFrame, Leave, Goto
  <2>2. At(p)' = "idle"
    BY <2>1 DEF At, Putting
  <2>3. LocalAt(p)'
    BY <1>0, <1>1, <1>3, <1>6, <2>1, <2>2 DEF LocalAt, Putting, HasDir, HasInode
  <2>4. \A t \in Slots : Keeps(p, t)' <=> lock'[t] = p
    BY <1>0, <1>1, <1>2, <2>1, <2>2 DEF Keeps
  <2>5. Calm(p)
    BY <1>0, <1>3, <2>1, <2>2, <2>3, <2>4 DEF Calm, Linking, Claim
  <2>6. Uses(p)' \subseteq Uses(p) /\ \A t \in Slots : Mine(p, t)' = Mine(p, t)
    BY <1>0, <1>3, <1>6, <2>1, Sets DEF Uses, Mine, One
  <2> QED BY <1>0, <1>4, <2>1, <2>5, <2>6, CalmSame
<1>7. CASE CallIput(p, s, "idle") /\ UNCHANGED <<op, path, to, file>>
  <2>1. /\ pc'[p] = "iput" /\ ret'[p] = "idle" /\ ip'[p] = 0 /\ put'[p] = s
        /\ VarInv' /\ Others(p) /\ LockFrame(p)
    BY <1>0, <1>1, <1>3, <1>4, <1>5, <1>7 DEF VarInv, PCs, Others, LockFrame, CallIput, Goto
  <2>2. At(p)' = "idle"
    BY <2>1 DEF At, Putting
  <2>3. LocalAt(p)'
    BY <1>0, <1>1, <1>3, <1>7, <2>1, <2>2 DEF LocalAt, Putting, HasDir, HasInode
  <2>4. \A t \in Slots : Keeps(p, t)' <=> lock'[t] = p
    BY <1>0, <1>1, <1>2, <2>1, <2>2 DEF Keeps
  <2>5. Calm(p)
    BY <1>0, <1>3, <2>1, <2>2, <2>3, <2>4 DEF Calm, Linking, Claim
  <2>6. Uses(p)' \subseteq Uses(p) /\ \A t \in Slots : Mine(p, t)' = Mine(p, t)
    BY <1>0, <1>3, <1>7, <2>1, Sets DEF Uses, Mine, One
  <2> QED BY <1>0, <1>4, <2>1, <2>5, <2>6, CalmSame
<1> QED BY <1>4, <1>6, <1>7 DEF OpenIt

LEMMA ChdirStep ==
    ASSUME NInv, NEW p \in Procs, Chdir(p)
    PROVE  NInv'
<1> DEFINE s == ip[p]
           dir == Load(icache, s)[s].type = "dir"
<1>0. /\ Up /\ pc[p] = "chdir" /\ icache' = Load(icache, s)
      /\ UNCHANGED <<dinode, lock, op, path, to, cur, dp, file>>
  BY DEF Chdir
<1>1. /\ VarInv /\ ProcInv(p) /\ LocalAt(p) /\ p /= None
      /\ \A t \in Slots : Keeps(p, t) <=> lock[t] = p
  BY <1>0, Here
<1>2. At(p) = "chdir"
  BY <1>0 DEF At, Putting
<1>3. put[p] = 0 /\ cur[p] = 0 /\ dp[p] = 0 /\ ip[p] /= 0 /\ ip[p] \in Uses(p)
  BY <1>0, <1>1, <1>2 DEF LocalAt, Putting, HasDir, HasInode, Uses
<1>4. s \in Slots /\ Same(icache') /\ icache' \in Cache /\ ~Typeless(s) /\ cwd[p] \in Slots
  BY <1>0, <1>1, <1>3, Lookup DEF VarInv
<1>5. /\ ip' = [ip EXCEPT ![p] = 0] /\ cwd' = IF dir THEN [cwd EXCEPT ![p] = s] ELSE cwd
      /\ put' = [put EXCEPT ![p] = IF dir THEN cwd[p] ELSE s]
      /\ ret' = [ret EXCEPT ![p] = "idle"] /\ pc' = [pc EXCEPT ![p] = "iput"]
  BY <1>4 DEF Chdir, CallIput, Goto
<1> HIDE DEF s, dir
<1>6. /\ pc'[p] = "iput" /\ ret'[p] = "idle" /\ ip'[p] = 0
      /\ put'[p] = (IF dir THEN cwd[p] ELSE s) /\ cwd'[p] = (IF dir THEN s ELSE cwd[p])
      /\ VarInv' /\ Others(p) /\ LockFrame(p)
  BY <1>0, <1>1, <1>3, <1>4, <1>5 DEF VarInv, PCs, Others, LockFrame
<1>7. At(p)' = "idle"
  BY <1>6 DEF At, Putting
<1>8. LocalAt(p)'
  <2>1. put'[p] /= 0
    BY <1>4, <1>6, Sets
  <2> QED BY <1>0, <1>1, <1>3, <1>6, <1>7, <2>1 DEF LocalAt, Putting, HasDir, HasInode
<1>9. \A t \in Slots : Keeps(p, t)' <=> lock'[t] = p
  BY <1>0, <1>1, <1>2, <1>6, <1>7 DEF Keeps
<1>10. Calm(p)
  BY <1>0, <1>3, <1>6, <1>7, <1>8, <1>9 DEF Calm, Linking, Claim
<1>11. Uses(p)' \subseteq Uses(p) /\ \A t \in Slots : Mine(p, t)' = Mine(p, t)
  BY <1>0, <1>3, <1>6, Sets DEF Uses, Mine, One, s
<1> QED BY <1>0, <1>4, <1>6, <1>10, <1>11, CalmSame

LEMMA CreateExistsStep ==
    ASSUME NInv, NEW p \in Procs, CreateExists(p)
    PROVE  NInv'
<1> DEFINE s == ip[p]
<1>0. /\ Up /\ pc[p] = "exists" /\ lock[s] = None /\ icache' = Load(icache, s)
      /\ UNCHANGED <<dinode, op, path, to, cur, dp, file, cwd>>
  BY DEF CreateExists
<1>1. /\ VarInv /\ ProcInv(p) /\ LocalAt(p) /\ p /= None
      /\ \A t \in Slots : Keeps(p, t) <=> lock[t] = p
  BY <1>0, Here
<1>2. At(p) = "exists"
  BY <1>0 DEF At, Putting
<1>3. put[p] = 0 /\ cur[p] = 0 /\ dp[p] = 0 /\ ip[p] /= 0 /\ ip[p] \in Uses(p) /\ op[p] \in {"creat", "mkdir"}
  BY <1>0, <1>1, <1>2 DEF LocalAt, Putting, HasDir, HasInode, Uses
<1>4. /\ s \in Slots /\ Same(icache') /\ icache' \in Cache /\ ~Typeless(s) /\ icache'[s].valid
      /\ icache'[s].ref = icache[s].ref /\ icache[s].ref > 0
  BY <1>0, <1>3, Lookup DEF Same
<1>5. CASE /\ lock' = [lock EXCEPT ![s] = p] /\ Goto(p, "created") /\ UNCHANGED <<ip, put, ret>>
  <2>1. /\ pc'[p] = "created" /\ VarInv' /\ Others(p) /\ LockFrame(p)
        /\ \A t \in Slots : lock'[t] = IF t = s THEN p ELSE lock[t]
    BY <1>0, <1>1, <1>4, <1>5 DEF VarInv, PCs, Others, LockFrame, Goto
  <2>2. At(p)' = "created"
    BY <2>1 DEF At, Putting
  <2>3. LocalAt(p)'
    BY <1>0, <1>1, <1>3, <1>5, <2>1, <2>2 DEF LocalAt, Putting, HasDir, HasInode
  <2>4. \A t \in Slots : Keeps(p, t)' <=> lock'[t] = p
    BY <1>0, <1>1, <1>2, <1>5, <2>1, <2>2 DEF Keeps
  <2>5. Calm(p)
    BY <1>0, <1>3, <1>4, <2>1, <2>2, <2>3, <2>4 DEF Calm, Linking, Claim
  <2>6. Uses(p)' \subseteq Uses(p) /\ \A t \in Slots : Mine(p, t)' = Mine(p, t)
    BY <1>0, <1>3, <1>5 DEF Uses, Mine
  <2> QED BY <1>0, <1>4, <2>1, <2>5, <2>6, CalmSame
<1>6. CASE CallIput(p, s, "idle") /\ ip' = [ip EXCEPT ![p] = 0] /\ UNCHANGED lock
  <2>1. /\ pc'[p] = "iput" /\ ret'[p] = "idle" /\ ip'[p] = 0 /\ put'[p] = s
        /\ VarInv' /\ Others(p) /\ LockFrame(p)
    BY <1>0, <1>1, <1>3, <1>4, <1>6 DEF VarInv, PCs, Others, LockFrame, CallIput, Goto
  <2>2. At(p)' = "idle"
    BY <2>1 DEF At, Putting
  <2>3. LocalAt(p)'
    BY <1>0, <1>1, <1>3, <2>1, <2>2 DEF LocalAt, Putting, HasDir, HasInode
  <2>4. \A t \in Slots : Keeps(p, t)' <=> lock'[t] = p
    BY <1>0, <1>1, <1>2, <1>6, <2>1, <2>2 DEF Keeps
  <2>5. Calm(p)
    BY <1>0, <1>3, <1>6, <2>1, <2>2, <2>3, <2>4 DEF Calm, Linking, Claim
  <2>6. Uses(p)' \subseteq Uses(p) /\ \A t \in Slots : Mine(p, t)' = Mine(p, t)
    BY <1>0, <1>3, <2>1, Sets DEF Uses, Mine, One
  <2> QED BY <1>0, <1>4, <2>1, <2>5, <2>6, CalmSame
<1> QED BY <1>4, <1>5, <1>6 DEF CreateExists

LEMMA CreatedStep ==
    ASSUME NInv, NEW p \in Procs, Created(p)
    PROVE  NInv'
<1> DEFINE s == ip[p]
<1>0. /\ Up /\ pc[p] = "created" /\ UNCHANGED <<dinode, icache, cur, dp, cwd>>
      /\ lock' = [lock EXCEPT ![s] = None] /\ ip' = [ip EXCEPT ![p] = 0]
  BY DEF Created
<1>1. /\ VarInv /\ ProcInv(p) /\ LocalAt(p) /\ p /= None /\ Same(icache)
      /\ \A t \in Slots : Keeps(p, t) <=> lock[t] = p
  BY <1>0, Here
<1>2. At(p) = "created"
  BY <1>0 DEF At, Putting
<1>3. put[p] = 0 /\ cur[p] = 0 /\ dp[p] = 0 /\ ip[p] /= 0 /\ s \in Slots
  BY <1>0, <1>1, <1>2 DEF LocalAt, Putting, HasDir, HasInode, VarInv
<1>4. /\ LockFrame(p) /\ lock' \in [Slots -> Procs \cup {None}]
      /\ \A t \in Slots : lock'[t] /= p
  BY <1>0, <1>1, <1>2, <1>3 DEF VarInv, LockFrame, Keeps
<1>5. CASE /\ file' = [file EXCEPT ![p] = s] /\ Leave(p, "idle") /\ UNCHANGED <<put, ret>>
           /\ op[p] = "creat"
  <2>1. /\ pc'[p] = "idle" /\ file'[p] = s /\ ip'[p] = 0 /\ put'[p] = 0 /\ op'[p] = "none"
        /\ VarInv' /\ Others(p) /\ file[p] = 0
    BY <1>0, <1>1, <1>3, <1>4, <1>5, NoPath DEF VarInv, PCs, Ops, Others, Leave, Goto, LocalAt
  <2>2. At(p)' = "idle"
    BY <2>1 DEF At, Putting
  <2>3. LocalAt(p)'
    BY <1>0, <1>1, <1>3, <1>5, <2>1, <2>2 DEF LocalAt, Putting, HasDir, HasInode
  <2>4. \A t \in Slots : ~Keeps(p, t)'
    BY <2>1, <2>2 DEF Keeps
  <2>5. Calm(p)
    BY <1>0, <1>3, <1>4, <2>1, <2>2, <2>3, <2>4 DEF Calm, Linking, Claim
  <2>6. Uses(p)' \subseteq Uses(p) /\ \A t \in Slots : Mine(p, t)' = Mine(p, t)
    BY <1>0, <1>3, <1>5, <2>1, Sets DEF Uses, Mine, One
  <2> QED BY <1>0, <1>1, <2>1, <2>5, <2>6, CalmSame
<1>6. CASE CallIput(p, s, "idle") /\ UNCHANGED <<op, path, to, file>>
  <2>1. /\ pc'[p] = "iput" /\ ret'[p] = "idle" /\ ip'[p] = 0 /\ put'[p] = s
        /\ VarInv' /\ Others(p)
    BY <1>0, <1>1, <1>3, <1>4, <1>6 DEF VarInv, PCs, Others, CallIput, Goto
  <2>2. At(p)' = "idle"
    BY <2>1 DEF At, Putting
  <2>3. LocalAt(p)'
    BY <1>0, <1>1, <1>3, <1>6, <2>1, <2>2 DEF LocalAt, Putting, HasDir, HasInode
  <2>4. \A t \in Slots : ~Keeps(p, t)'
    BY <2>1, <2>2 DEF Keeps
  <2>5. Calm(p)
    BY <1>0, <1>3, <1>4, <2>1, <2>2, <2>3, <2>4 DEF Calm, Linking, Claim
  <2>6. Uses(p)' \subseteq Uses(p) /\ \A t \in Slots : Mine(p, t)' = Mine(p, t)
    BY <1>0, <1>3, <1>6, <2>1, Sets DEF Uses, Mine, One
  <2> QED BY <1>0, <1>1, <2>1, <2>5, <2>6, CalmSame
<1> QED BY <1>5, <1>6 DEF Created

LEMMA LetGoStep ==
    ASSUME NInv, NEW p \in Procs, LetGo(p)
    PROVE  NInv'
<1> DEFINE d == dp[p]
<1>0. /\ Up /\ pc[p] = "letgo" /\ UNCHANGED <<dinode, icache, op, path, to, cur, ip, file, cwd>>
      /\ lock' = [lock EXCEPT ![d] = None] /\ dp' = [dp EXCEPT ![p] = 0]
      /\ put' = [put EXCEPT ![p] = d] /\ ret' = [ret EXCEPT ![p] = Else(p)]
      /\ pc' = [pc EXCEPT ![p] = "iput"]
  BY DEF LetGo, CallIput, Goto
<1>1. /\ VarInv /\ ProcInv(p) /\ LocalAt(p) /\ p /= None /\ Same(icache)
      /\ \A t \in Slots : Keeps(p, t) <=> lock[t] = p
  BY <1>0, Here
<1>2. At(p) = "letgo"
  BY <1>0 DEF At, Putting
<1>3. /\ put[p] = 0 /\ cur[p] = 0 /\ dp[p] /= 0 /\ d \in Slots
      /\ op[p] \in {"unlink", "link"} /\ (ip[p] /= 0 <=> op[p] = "link")
  BY <1>0, <1>1, <1>2 DEF LocalAt, Putting, HasDir, VarInv
<1>4. Else(p) = IF op[p] = "link" THEN "unenter" ELSE "idle"
  BY <1>3 DEF Else
<1>5. /\ LockFrame(p) /\ lock' \in [Slots -> Procs \cup {None}]
      /\ \A t \in Slots : lock'[t] /= p
  BY <1>0, <1>1, <1>2, <1>3 DEF VarInv, LockFrame, Keeps
<1>6. /\ pc'[p] = "iput" /\ ret'[p] = Else(p) /\ dp'[p] = 0 /\ put'[p] = d
      /\ VarInv' /\ Others(p)
  BY <1>0, <1>1, <1>3, <1>4, <1>5 DEF VarInv, PCs, Others
<1>7. At(p)' = Else(p)
  BY <1>6 DEF At, Putting
<1>8. LocalAt(p)'
  BY <1>0, <1>1, <1>3, <1>4, <1>6, <1>7 DEF LocalAt, Putting, HasDir, HasInode
<1>9. \A t \in Slots : ~Keeps(p, t)'
  BY <1>4, <1>6, <1>7 DEF Keeps
<1>10. Calm(p)
  BY <1>0, <1>2, <1>3, <1>4, <1>5, <1>6, <1>7, <1>8, <1>9 DEF Calm, Linking, Claim
<1>11. Uses(p)' \subseteq Uses(p) /\ \A t \in Slots : Mine(p, t)' = Mine(p, t)
  BY <1>0, <1>3, <1>6, Sets DEF Uses, Mine, One
<1> QED BY <1>0, <1>1, <1>6, <1>10, <1>11, CalmSame

LEMMA EnteredStep ==
    ASSUME NInv, NEW p \in Procs, Entered(p)
    PROVE  NInv'
<1>0. /\ Up /\ pc[p] = "entered"
      /\ UNCHANGED <<dinode, icache, lock, op, path, to, cur, dp, file, cwd>>
      /\ ip' = [ip EXCEPT ![p] = 0] /\ put' = [put EXCEPT ![p] = ip[p]]
      /\ ret' = [ret EXCEPT ![p] = "idle"] /\ pc' = [pc EXCEPT ![p] = "iput"]
  BY DEF Entered, CallIput, Goto
<1>1. /\ VarInv /\ ProcInv(p) /\ LocalAt(p) /\ p /= None /\ Same(icache)
      /\ \A t \in Slots : Keeps(p, t) <=> lock[t] = p
  BY <1>0, Here
<1>2. At(p) = "entered"
  BY <1>0 DEF At, Putting
<1>3. put[p] = 0 /\ cur[p] = 0 /\ dp[p] = 0 /\ ip[p] /= 0
  BY <1>0, <1>1, <1>2 DEF LocalAt, Putting, HasDir, HasInode
<1>4. /\ pc'[p] = "iput" /\ ret'[p] = "idle" /\ ip'[p] = 0 /\ put'[p] = ip[p]
      /\ VarInv' /\ Others(p) /\ LockFrame(p)
  BY <1>0, <1>1, <1>3 DEF VarInv, PCs, Others, LockFrame
<1>5. At(p)' = "idle"
  BY <1>4 DEF At, Putting
<1>6. LocalAt(p)'
  BY <1>0, <1>1, <1>3, <1>4, <1>5 DEF LocalAt, Putting, HasDir, HasInode
<1>7. \A t \in Slots : Keeps(p, t)' <=> lock'[t] = p
  BY <1>0, <1>1, <1>2, <1>4, <1>5 DEF Keeps
<1>8. Calm(p)
  BY <1>0, <1>3, <1>4, <1>5, <1>6, <1>7 DEF Calm, Linking, Claim
<1>9. Uses(p)' \subseteq Uses(p) /\ \A t \in Slots : Mine(p, t)' = Mine(p, t)
  BY <1>0, <1>3, <1>4, Sets DEF Uses, Mine, One
<1> QED BY <1>0, <1>1, <1>4, <1>8, <1>9, CalmSame

-----------------------------------------------------------------------------
(* Actions that look an inode up and refer to it. *)

\* Out of inodes or of cache entries: everything stops.
LEMMA PanicStep ==
    ASSUME NInv, Up, NEW p \in Procs, pc' = [pc EXCEPT ![p] = "panic"],
           UNCHANGED <<dinode, icache, lock, op, path, to, cur, ip, dp, put, ret, file, cwd>>
    PROVE  NInv'
<1>1. VarInv /\ Good(icache, dinode) /\ ProcInv(p) /\ Same(icache)
  BY Here
<1>2. pc'[p] = "panic" /\ VarInv' /\ Others(p) /\ LockFrame(p) /\ Written(p)
  BY <1>1 DEF VarInv, PCs, Others, LockFrame, Written
<1>3. Uses(p)' \subseteq Uses(p) /\ \A t \in Slots : Mine(p, t)' = Mine(p, t)
  BY DEF Uses, Mine
<1>4. Got(p, 0) /\ Good(icache', dinode') /\ 0 \in Slots \cup {0}
  BY <1>1, <1>3, SameGot
<1>5. TreeInv'
  BY DEF NInv, TreeInv
<1>6. At(p)' = "panic"
  BY <1>2 DEF At, Putting
<1>7. ~Linking(p)' /\ ~Claim(p)' /\ \A t \in Slots : ~Keeps(p, t)'
  BY <1>2, <1>6 DEF Linking, Claim, Keeps
<1>8. CountInv'
  <2>1. ClaimsKept(p)
    BY DEF ClaimsKept
  <2>2. \A i \in Inums : EntriesFor(i)' \subseteq EntriesFor(i) /\ Subdirs(i)' \subseteq Subdirs(i)
    BY DEF EntriesFor, Subdirs
  <2>3. \A i \in Inums : dinode'[i].nlink
                            >= dinode[i].nlink - One(Claiming(p, i)) + One(Claiming(p, i)')
    <3>1. \A i \in Inums : One(Claiming(p, i)') = 0 /\ One(Claiming(p, i)) \in {0, 1}
      BY <1>7 DEF Claiming, One
    <3>2. \A i \in Inums : dinode[i].nlink \in Nat
      BY <1>1 DEF VarInv, Disk
    <3> QED BY <3>1, <3>2
  <2>4. CountInv /\ \A i \in Inums : dinode'[i].type = "free" => dinode'[i] = FreeInode
    BY DEF NInv, CountInv
  <2>5. dinode \in Disk /\ dinode' \in Disk
    BY <1>1 DEF VarInv
  <2> QED BY <1>2, <2>1, <2>2, <2>3, <2>4, <2>5, CountKeep
<1>9. ProcInv(p)'
  <2>1. TruncAt(p)' /\ NewAt(p)' /\ ChildAt(p)'
    BY <1>2, <1>6 DEF TruncAt, NewAt, ChildAt
  <2>2. /\ dp'[p] /= 0 => Node(dp[p])'.type = "dir"
        /\ \A s \in Uses(p)' : Node(s)'.type /= "free"
    BY <1>1 DEF ProcInv, Uses, Node
  <2> QED BY <1>2, <1>7, <2>1, <2>2 DEF ProcInv
<1>10. OwnLocks(p)'
  BY <1>2, Locked, Sets DEF OwnLocks
<1> QED BY <1>2, <1>4, <1>5, <1>8, <1>9, <1>10, Step

LEMMA PathFacts ==
    ASSUME NEW pa \in Walks, pa /= <<>>
    PROVE  /\ Len(pa) \in Nat /\ Len(pa) >= 1
           /\ Plain(pa) => pa[Len(pa)] \in Names /\ Head(pa) \in Names
           /\ Len(pa) /= 1 => Head(pa) \in Names /\ Tail(pa) /= <<>> /\ (Plain(Tail(pa)) <=> Plain(pa))
           /\ Tail(pa) \in Walks
<1>1. /\ Len(pa) \in Nat /\ Len(pa) >= 1 /\ pa \in Seq(Names \cup Dots)
      /\ \A i \in 1..(Len(pa) - 1) : pa[i] \in Names
  BY DEF Walks
<1>2. /\ Tail(pa) \in Seq(Names \cup Dots) /\ Len(Tail(pa)) = Len(pa) - 1
      /\ \A i \in 1..(Len(pa) - 1) : Tail(pa)[i] = pa[i + 1]
  BY <1>1
<1>3. Head(pa) = pa[1]
  BY <1>1
<1>4. Len(<<>>) = 0
  OBVIOUS
<1>5. Len(pa) /= 1 => Tail(pa) /= <<>>
  <2>1. Len(pa) /= 1 => Len(Tail(pa)) /= 0
    BY <1>1, <1>2
  <2> QED BY <1>4, <2>1, Zenon
<1>6. Len(pa) /= 1 => Tail(pa)[Len(Tail(pa))] = pa[Len(pa)] /\ pa[1] \in Names
  BY <1>1, <1>2
<1>7. Tail(pa) \in Walks
  <2>1. \A i \in 1..(Len(Tail(pa)) - 1) : Tail(pa)[i] \in Names
    BY <1>1, <1>2
  <2> QED BY <1>2, <2>1 DEF Walks
<1> QED BY <1>1, <1>3, <1>5, <1>6, <1>7 DEF Plain

\* What is found in a directory.
LEMMA Found ==
    ASSUME NInv, NEW j \in Inums, NEW n \in Names, dinode[j].ent[n] /= 0
    PROVE  dinode[j].ent[n] \in Inums /\ dinode[dinode[j].ent[n]].nlink > 0
           /\ dinode[dinode[j].ent[n]].type /= "free"
<1>1. VarInv /\ CountInv
  BY DEF NInv
<1>2. dinode[j].ent[n] \in Inums
  BY <1>1, Sets DEF VarInv, Disk
<1> QED BY <1>1, <1>2, Linked

\* A step that gets inode i, out of a table like the cache.
LEMMA CalmGet ==
    ASSUME NInv, Up, NEW p \in Procs, NEW T, Same(T), NEW i \in Inums, CanGet(T, i),
           icache' = iget(T, i), dinode[i].nlink > 0, Calm(p), VarInv',
           Uses(p)' \subseteq Uses(p) \cup {SlotOf(T, i)},
           \A s \in Slots : Mine(p, s)' = Mine(p, s) + One(s = SlotOf(T, i))
    PROVE  NInv'
<1>1. /\ Got(p, SlotOf(T, i)) /\ Good(icache', dinode) /\ SlotOf(T, i) \in Slots
      /\ icache'[SlotOf(T, i)].inum = i
  BY GetGot
<1>2. dinode[i].type /= "free"
  BY Linked DEF NInv
<1>3. SlotOf(T, i) \in Slots \cup {0}
  BY <1>1
<1> QED BY <1>1, <1>2, <1>3, CalmStep

\* A step that gets inode i only to put it back.
LEMMA CalmPut ==
    ASSUME NInv, Up, NEW p \in Procs, NEW T, Same(T), NEW i \in Inums, CanGet(T, i),
           icache' = iget(T, i), Calm(p), VarInv', Uses(p)' \subseteq Uses(p),
           \A s \in Slots : Mine(p, s)' = Mine(p, s) + One(s = SlotOf(T, i))
    PROVE  NInv'
<1>1. Got(p, SlotOf(T, i)) /\ Good(icache', dinode) /\ SlotOf(T, i) \in Slots
  BY GetGot
<1>2. SlotOf(T, i) \in Slots \cup {0} /\ (SlotOf(T, i) \in Uses(p)' => SlotOf(T, i) \in Uses(p))
  BY <1>1
<1> QED BY <1>1, <1>2, CalmStep

\* The table after iget.
LEMMA Gotten ==
    ASSUME NEW T, Same(T), NEW i \in Inums, CanGet(T, i)
    PROVE  /\ SlotOf(T, i) \in Slots /\ iget(T, i) \in Cache /\ iget(T, i)[SlotOf(T, i)].inum = i
           /\ \A t \in Slots : T[t].ref > 0 => /\ iget(T, i)[t].inum = T[t].inum
                                               /\ iget(T, i)[t].ref > 0
                                               /\ T[t].valid => iget(T, i)[t].valid
<1> DEFINE g == SlotOf(T, i)
           G == iget(T, i)
<1>1. T \in Cache /\ Good(T, dinode)
  BY DEF Same
<1>2. /\ g \in Slots /\ G \in Cache /\ G[g].ref = T[g].ref + 1 /\ G[g].inum = i
      /\ T[g].ref > 0 => T[g].inum = i /\ G[g].valid = T[g].valid
      /\ \A t \in Slots : t /= g => G[t] = T[t]
  BY <1>1, GetFacts
<1> HIDE DEF g, G
<1>3. \A t \in Slots : T[t].ref \in Nat
  BY <1>1 DEF Cache
<1>4. \A t \in Slots : T[t].ref > 0 => G[t].inum = T[t].inum /\ G[t].ref > 0 /\ (T[t].valid => G[t].valid)
  BY <1>2, <1>3
<1> QED BY <1>2, <1>4 DEF g, G

LEMMA NamexStep ==
    ASSUME NInv, NEW p \in Procs, Namex(p)
    PROVE  NInv'
<1> DEFINE s == cur[p]
           T == Load(icache, s)
           parent == WantsParent(p) /\ Len(path[p]) = 1
           found == dinode[T[s].inum].ent[Head(path[p])]
           g == SlotOf(T, found)
<1>0. /\ Up /\ pc[p] = "namex" /\ lock[s] = None /\ UNCHANGED <<dinode, lock, op, to, file, cwd>>
  BY DEF Namex
<1>1. /\ VarInv /\ ProcInv(p) /\ LocalAt(p) /\ p /= None
      /\ \A t \in Slots : Keeps(p, t) <=> lock[t] = p
  BY <1>0, Here
<1>2. At(p) = "namex"
  BY <1>0 DEF At, Putting
<1>3. /\ put[p] = 0 /\ dp[p] = 0 /\ cur[p] /= 0 /\ s \in Uses(p)
      /\ op[p] /= "none" /\ (ip[p] /= 0 => op[p] = "link") /\ path[p] /= <<>>
      /\ op[p] \in Ops /\ path[p] \in Walks /\ (Plain(path[p]) \/ (op[p] = "link" /\ ip[p] /= 0))
  BY <1>0, <1>1, <1>2 DEF LocalAt, Putting, HasDir, Uses, VarInv
<1>4. /\ Same(T) /\ T \in Cache /\ ~Typeless(s) /\ T[s].valid /\ s \in Slots
      /\ T[s].type = Node(s).type /\ T[s].inum = icache[s].inum /\ icache[s].inum \in Inums
      /\ icache[s].ref > 0 /\ T[s].ref = icache[s].ref
  BY <1>0, <1>3, Lookup DEF Inum, Same
<1>5. /\ Len(path[p]) \in Nat /\ Tail(path[p]) \in Walks /\ (~parent => Head(path[p]) \in Names)
      /\ Len(path[p]) /= 1 => Tail(path[p]) /= <<>> /\ (Plain(Tail(path[p])) <=> Plain(path[p]))
  BY <1>3, PathFacts DEF WantsParent
<1>6. \A t \in Slots : ~Keeps(p, t) /\ lock[t] /= p
  BY <1>0, <1>1, <1>2 DEF Keeps
<1> HIDE DEF T
<1>7. CASE /\ T[s].type = "dir" /\ parent
           /\ icache' = T /\ dp' = [dp EXCEPT ![p] = s] /\ cur' = [cur EXCEPT ![p] = 0]
           /\ Goto(p, Then(p)) /\ UNCHANGED <<path, ip, put, ret>>
  <2>1. Then(p) = CASE op[p] = "unlink" -> "unlink"
                    [] op[p] \in {"creat", "mkdir"} -> "create"
                    [] OTHER -> "enter"
    BY <1>3, <1>7 DEF WantsParent, Then
  <2>2. /\ Then(p) \in {"unlink", "create", "enter"}
        /\ Then(p) = "unlink" => op[p] = "unlink"
        /\ Then(p) = "create" => op[p] \in {"creat", "mkdir"}
        /\ Then(p) = "enter" => op[p] = "link" /\ ip[p] /= 0
        /\ Then(p) /= "enter" => ip[p] = 0
    BY <2>1, <1>3, <1>7 DEF WantsParent
  <2>3. /\ pc'[p] = Then(p) /\ dp'[p] = s /\ cur'[p] = 0 /\ VarInv' /\ Others(p) /\ LockFrame(p)
    BY <1>0, <1>1, <1>3, <1>4, <1>7, <2>2 DEF VarInv, PCs, Others, LockFrame, Goto
  <2>4. At(p)' = Then(p)
    BY <2>2, <2>3 DEF At, Putting
  <2>5. LocalAt(p)'
    BY <1>0, <1>1, <1>3, <1>7, <2>2, <2>3, <2>4 DEF LocalAt, Putting, HasDir, HasInode
  <2>6. \A t \in Slots : ~Keeps(p, t)'
    BY <2>2, <2>3, <2>4 DEF Keeps
  <2>7. Calm(p)
    BY <1>0, <1>2, <1>3, <1>4, <1>6, <1>7, <2>2, <2>3, <2>4, <2>5, <2>6 DEF Calm, Linking, Claim, Node
  <2>8. Uses(p)' \subseteq Uses(p) /\ \A t \in Slots : Mine(p, t)' = Mine(p, t)
    BY <1>0, <1>3, <1>7, <2>3, Sets DEF Uses, Mine, One
  <2>9. Same(icache')
    BY <1>4, <1>7
  <2> QED BY <1>0, <2>3, <2>7, <2>8, <2>9, CalmSame
<1>8. CASE /\ icache' = T /\ cur' = [cur EXCEPT ![p] = 0]
           /\ CallIput(p, s, Else(p)) /\ UNCHANGED <<path, ip, dp>>
  <2>1. Else(p) = IF ip[p] /= 0 THEN "unenter" ELSE "idle"
    BY <1>3 DEF Else
  <2>2. /\ pc'[p] = "iput" /\ ret'[p] = Else(p) /\ put'[p] = s /\ cur'[p] = 0
        /\ VarInv' /\ Others(p) /\ LockFrame(p)
    BY <1>0, <1>1, <1>3, <1>4, <1>8, <2>1 DEF VarInv, PCs, Others, LockFrame, CallIput, Goto
  <2>3. At(p)' = Else(p)
    BY <2>2 DEF At, Putting
  <2>4. LocalAt(p)'
    BY <1>0, <1>1, <1>3, <1>8, <2>1, <2>2, <2>3 DEF LocalAt, Putting, HasDir, HasInode
  <2>5. \A t \in Slots : ~Keeps(p, t)'
    BY <2>1, <2>2, <2>3 DEF Keeps
  <2>6. Calm(p)
    BY <1>0, <1>2, <1>3, <1>6, <1>8, <2>1, <2>2, <2>3, <2>4, <2>5 DEF Calm, Linking, Claim
  <2>7. Uses(p)' \subseteq Uses(p) /\ \A t \in Slots : Mine(p, t)' = Mine(p, t)
    BY <1>0, <1>3, <1>8, <2>2, Sets DEF Uses, Mine, One
  <2>8. Same(icache')
    BY <1>4, <1>8
  <2> QED BY <1>0, <2>2, <2>6, <2>7, <2>8, CalmSame
<1>9. CASE Goto(p, "panic") /\ UNCHANGED <<icache, path, cur, ip, put, ret, dp>>
  BY <1>0, <1>9, PanicStep DEF Goto
<1>10. CASE /\ T[s].type = "dir" /\ ~parent /\ found /= 0 /\ CanGet(T, found)
            /\ icache' = iget(T, found) /\ path' = [path EXCEPT ![p] = Tail(@)] /\ UNCHANGED dp
            /\ IF Len(path[p]) = 1
               THEN /\ ip' = [ip EXCEPT ![p] = g] /\ cur' = [cur EXCEPT ![p] = 0]
                    /\ CallIput(p, s, Then(p))
               ELSE /\ cur' = [cur EXCEPT ![p] = g]
                    /\ CallIput(p, s, "namex") /\ UNCHANGED ip
  <2>1. found \in Inums /\ dinode[found].nlink > 0
    BY <1>4, <1>5, <1>10, Found
  <2> HIDE DEF found
  <2>2. g \in Slots /\ icache' \in Cache
    BY <1>4, <1>10, <2>1, Gotten
  <2> HIDE DEF g
  <2>5. /\ path' \in [Procs -> Walks] /\ path'[p] = Tail(path[p])
        /\ \A q \in Procs : q /= p => path'[q] = path[q]
    <3> DEFINE tl == Tail(path[p])
    <3>1. tl \in Walks /\ path' = [path EXCEPT ![p] = tl] /\ path \in [Procs -> Walks]
      BY <1>1, <1>5, <1>10 DEF VarInv
    <3> HIDE DEF tl
    <3> QED BY <3>1 DEF tl
  <2>3. CASE Len(path[p]) = 1
    <3>1. ip[p] = 0 /\ op[p] \in {"open", "chdir", "link"} /\ Then(p) = op[p]
      BY <1>3, <1>10, <2>3 DEF WantsParent, Then, Ops
    <3>2. /\ pc'[p] = "iput" /\ ret'[p] = op[p] /\ put'[p] = s /\ cur'[p] = 0 /\ ip'[p] = g
          /\ VarInv' /\ Others(p) /\ LockFrame(p)
      <4>1. /\ ip' = [ip EXCEPT ![p] = g] /\ cur' = [cur EXCEPT ![p] = 0]
            /\ CallIput(p, s, op[p])
        BY <1>10, <2>3, <3>1
      <4> QED BY <1>0, <1>1, <1>3, <1>4, <1>10, <2>2, <2>5, <3>1, <4>1 DEF VarInv, PCs, Others, LockFrame, CallIput, Goto
    <3>3. At(p)' = op[p]
      BY <3>2 DEF At, Putting
    <3>4. LocalAt(p)'
      BY <1>0, <1>1, <1>3, <1>10, <2>2, <3>1, <3>2, <3>3, Sets DEF LocalAt, Putting, HasDir, HasInode
    <3>5. \A t \in Slots : ~Keeps(p, t)'
      BY <3>1, <3>2, <3>3 DEF Keeps
    <3>6. Calm(p)
      BY <1>0, <1>2, <1>3, <1>6, <1>10, <3>1, <3>2, <3>3, <3>4, <3>5 DEF Calm, Linking, Claim
    <3>7. Uses(p)' \subseteq Uses(p) \cup {g} /\ \A t \in Slots : Mine(p, t)' = Mine(p, t) + One(t = g)
      BY <1>0, <1>3, <1>10, <2>2, <3>1, <3>2, Sets DEF Uses, Mine, One
    <3> QED BY <1>0, <1>4, <1>10, <2>1, <3>2, <3>6, <3>7, CalmGet DEF g
  <2>4. CASE Len(path[p]) /= 1
    <3>2. /\ pc'[p] = "iput" /\ ret'[p] = "namex" /\ put'[p] = s /\ cur'[p] = g /\ ip'[p] = ip[p]
          /\ path'[p] = Tail(path[p]) /\ VarInv' /\ Others(p) /\ LockFrame(p)
      <4>1. /\ cur' = [cur EXCEPT ![p] = g] /\ UNCHANGED ip
            /\ CallIput(p, s, "namex")
        BY <1>10, <2>4
      <4> QED BY <1>0, <1>1, <1>3, <1>4, <1>10, <2>2, <2>5, <4>1 DEF VarInv, PCs, Others, LockFrame, CallIput, Goto
    <3>3. At(p)' = "namex"
      BY <3>2 DEF At, Putting
    <3>4. LocalAt(p)'
      BY <1>0, <1>1, <1>3, <1>5, <1>10, <2>2, <2>4, <3>2, <3>3, Sets DEF LocalAt, Putting, HasDir, HasInode
    <3>5. \A t \in Slots : ~Keeps(p, t)'
      BY <3>2, <3>3 DEF Keeps
    <3>6. Calm(p)
      BY <1>0, <1>2, <1>3, <1>6, <1>10, <3>2, <3>3, <3>4, <3>5 DEF Calm, Linking, Claim
    <3>7. Uses(p)' \subseteq Uses(p) \cup {g} /\ \A t \in Slots : Mine(p, t)' = Mine(p, t) + One(t = g)
      BY <1>0, <1>3, <1>10, <2>2, <3>2, Sets DEF Uses, Mine, One
    <3> QED BY <1>0, <1>4, <1>10, <2>1, <3>2, <3>6, <3>7, CalmGet DEF g
  <2> QED BY <2>3, <2>4
<1> QED BY <1>4, <1>7, <1>8, <1>9, <1>10 DEF Namex, T

\* namex begins with a reference to the root or to the current directory.
LEMMA StartFacts ==
    ASSUME NEW p \in Procs, NEW T \in Cache, NEW D, Good(T, D), cwd[p] \in Slots, T[cwd[p]].ref > 0,
           NEW pa, StartAt(p, pa, T)
    PROVE  \E g \in Slots :
             /\ cur' = [cur EXCEPT ![p] = g] /\ icache' \in Cache /\ Good(icache', D)
             /\ \A s \in Slots : /\ icache'[s].ref = T[s].ref + One(s = g)
                                 /\ T[s].ref > 0 => /\ icache'[s].inum = T[s].inum
                                                    /\ icache'[s].valid = T[s].valid
             /\ g = cwd[p] \/ icache'[g].inum = Root
             /\ pa \in Paths \cup RelPaths
<1>0. \A s \in Slots : T[s].ref \in Nat
  BY DEF Cache
<1>1. CASE /\ pa \in RelPaths /\ icache' = [T EXCEPT ![cwd[p]].ref = @ + 1]
           /\ cur' = [cur EXCEPT ![p] = cwd[p]]
  <2> DEFINE g == cwd[p]
             r == [T[g] EXCEPT !.ref = T[g].ref + 1]
  <2>1. icache' = [T EXCEPT ![g] = r]
    BY <1>1
  <2>2. /\ r \in [inum : 0..NInums, ref : Nat, valid : BOOLEAN, type : Kinds, nlink : Nat]
        /\ r.ref = T[g].ref + 1 /\ r.inum = T[g].inum /\ r.valid = T[g].valid
        /\ r.type = T[g].type /\ r.nlink = T[g].nlink
    BY DEF Cache
  <2> HIDE DEF r, g
  <2>3. g \in Slots /\ T[g].ref > 0
    BY DEF g
  <2>4. icache' \in Cache /\ icache'[g] = r /\ \A s \in Slots : s /= g => icache'[s] = T[s]
    BY <2>1, <2>2, <2>3 DEF Cache
  <2>5. Good(icache', D)
    BY <2>2, <2>3, <2>4, <1>0 DEF Good
  <2>6. \A s \in Slots : /\ icache'[s].ref = T[s].ref + One(s = g)
                         /\ icache'[s].inum = T[s].inum /\ icache'[s].valid = T[s].valid
    BY <2>2, <2>4, <1>0 DEF One
  <2> QED BY <1>1, <2>3, <2>4, <2>5, <2>6 DEF g
<1>2. CASE /\ pa \in Paths /\ CanGet(T, Root) /\ icache' = iget(T, Root)
           /\ cur' = [cur EXCEPT ![p] = SlotOf(T, Root)]
  <2> DEFINE g == SlotOf(T, Root)
  <2>1. /\ g \in Slots /\ icache' \in Cache
        /\ icache'[g].ref = T[g].ref + 1 /\ icache'[g].inum = Root
        /\ T[g].ref > 0 => T[g].inum = Root /\ icache'[g].valid = T[g].valid
        /\ \A t \in Slots : t /= g => icache'[t] = T[t]
        /\ Good(icache', D)
    BY <1>2, Sets, GetFacts
  <2> HIDE DEF g
  <2>2. \A s \in Slots : /\ icache'[s].ref = T[s].ref + One(s = g)
                         /\ T[s].ref > 0 => /\ icache'[s].inum = T[s].inum
                                            /\ icache'[s].valid = T[s].valid
    BY <2>1, <1>0 DEF One
  <2> QED BY <1>2, <2>1, <2>2 DEF g
<1> QED BY <1>1, <1>2 DEF StartAt

LEMMA CallStep ==
    ASSUME NInv, NEW p \in Procs, NEW o \in Ops \ {"none"}, NEW pa \in Paths \cup RelPaths,
           NEW t \in Walks, Call(p, o, pa, t)
    PROVE  NInv'
<1>0. /\ Up /\ pc[p] = "idle" /\ (o \in {"open", "creat"} => file[p] = 0) /\ Plain(pa)
      /\ op' = [op EXCEPT ![p] = o] /\ path' = [path EXCEPT ![p] = pa] /\ to' = [to EXCEPT ![p] = t]
      /\ ip' = [ip EXCEPT ![p] = 0] /\ dp' = [dp EXCEPT ![p] = 0]
      /\ StartAt(p, pa, icache) /\ pc' = [pc EXCEPT ![p] = "namex"]
      /\ UNCHANGED <<dinode, lock, put, ret, file, cwd>>
  BY DEF Call, Goto
<1>1. /\ VarInv /\ ProcInv(p) /\ LocalAt(p) /\ p /= None /\ Good(icache, dinode)
      /\ \A u \in Slots : Keeps(p, u) <=> lock[u] = p
  BY <1>0, Here
<1>2. At(p) = "idle"
  BY <1>0 DEF At, Putting
<1>3. put[p] = 0 /\ cur[p] = 0 /\ dp[p] = 0 /\ ip[p] = 0
  BY <1>0, <1>1, <1>2 DEF LocalAt, Putting, HasDir, HasInode
<1>4. cwd[p] \in Uses(p) /\ cwd[p] \in Slots /\ icache[cwd[p]].ref > 0 /\ Node(cwd[p]).type /= "free"
  <2>1. cwd[p] \in Uses(p)
    BY <1>1, Sets DEF VarInv, Uses
  <2> QED BY <2>1, UseFacts
<1>5. PICK g \in Slots :
             /\ cur' = [cur EXCEPT ![p] = g] /\ icache' \in Cache /\ Good(icache', dinode)
             /\ \A s \in Slots : /\ icache'[s].ref = icache[s].ref + One(s = g)
                                 /\ icache[s].ref > 0 => /\ icache'[s].inum = icache[s].inum
                                                         /\ icache'[s].valid = icache[s].valid
             /\ g = cwd[p] \/ icache'[g].inum = Root
  <2>1. icache \in Cache
    BY <1>1 DEF VarInv
  <2> QED BY <1>0, <1>1, <1>4, <2>1, StartFacts, SMTT(60)
<1>6. pa \in Walks /\ pa /= <<>>
  BY NoPath
<1>7. /\ pc'[p] = "namex" /\ op'[p] = o /\ path'[p] = pa /\ ip'[p] = 0 /\ dp'[p] = 0 /\ cur'[p] = g
      /\ VarInv' /\ Others(p) /\ LockFrame(p)
  BY <1>0, <1>1, <1>5, <1>6 DEF VarInv, PCs, Others, LockFrame
<1>8. At(p)' = "namex"
  BY <1>7 DEF At, Putting
<1>9. LocalAt(p)'
  BY <1>0, <1>1, <1>3, <1>6, <1>7, <1>8, Sets DEF LocalAt, Putting, HasDir, HasInode
<1>10. \A u \in Slots : Keeps(p, u)' <=> lock'[u] = p
  BY <1>0, <1>1, <1>2, <1>7, <1>8 DEF Keeps
<1>11. Calm(p)
  BY <1>0, <1>3, <1>7, <1>8, <1>9, <1>10 DEF Calm, Linking, Claim
<1>12. Uses(p)' \subseteq Uses(p) \cup {g} /\ \A u \in Slots : Mine(p, u)' = Mine(p, u) + One(u = g)
  BY <1>0, <1>3, <1>7, Sets DEF Uses, Mine, One
<1>13. VarInv /\ CountInv /\ dinode[Root].nlink > 0 /\ dinode[Root].type /= "free"
  BY Linked, Sets DEF NInv
<1>14. Got(p, g)
  <2>1. icache[g].ref > 0 => g \in Uses(p) \/ Node(g).nlink > 0
    BY <1>4, <1>5, <1>13 DEF Node
  <2> QED BY <1>5, <1>12, <2>1 DEF Got
<1>15. dinode[icache'[g].inum].type /= "free"
  BY <1>4, <1>5, <1>13 DEF Node
<1> QED BY <1>0, <1>5, <1>7, <1>11, <1>14, <1>15, CalmStep

\* With a directory: the entry that is looked for, and the directory's lock.
LEMMA InDir ==
    ASSUME NInv, Up, NEW p \in Procs, At(p) \in HasDir
    PROVE  LET d == dp[p]
               T == Load(icache, d)
           IN /\ d /= 0 /\ d \in Uses(p) /\ d \in Slots /\ (op[p] /= "link" => Last(p) \in Names)
              /\ Same(T) /\ T \in Cache /\ T[d].valid /\ T[d].ref > 0 /\ T[d].inum = icache[d].inum
              /\ icache[d].inum \in Inums /\ Node(d).type = "dir"
              /\ T[d].nlink = Node(d).nlink /\ T[d].type = Node(d).type
              /\ \A t \in Slots : t /= d => T[t] = icache[t]
<1>1. VarInv /\ LocalAt(p) /\ ProcInv(p)
  BY Here
<1>2. dp[p] /= 0 /\ (op[p] /= "link" => Plain(path[p]))
  BY <1>1 DEF LocalAt
<1>3. dp[p] \in Uses(p) /\ (op[p] /= "link" => Last(p) \in Names)
  BY <1>2 DEF Uses, Last, Plain
<1>4. Node(dp[p]).type = "dir"
  BY <1>1, <1>2 DEF ProcInv
<1> QED BY <1>2, <1>3, <1>4, Lookup DEF Same, Inum

LEMMA UnlinkStep ==
    ASSUME NInv, NEW p \in Procs, Unlink(p)
    PROVE  NInv'
<1> DEFINE d == dp[p]
           T == Load(icache, d)
           found == dinode[T[d].inum].ent[Last(p)]
           g == SlotOf(T, found)
<1>0. /\ Up /\ pc[p] = "unlink" /\ lock[d] = None /\ UNCHANGED <<dinode, op, path, to, cur, file, cwd>>
  BY DEF Unlink
<1>1. /\ VarInv /\ ProcInv(p) /\ LocalAt(p) /\ p /= None
      /\ \A u \in Slots : Keeps(p, u) <=> lock[u] = p
  BY <1>0, Here
<1>2. At(p) = "unlink"
  BY <1>0 DEF At, Putting
<1>3. put[p] = 0 /\ cur[p] = 0 /\ ip[p] = 0 /\ op[p] = "unlink" /\ path[p] /= <<>>
  BY <1>0, <1>1, <1>2 DEF LocalAt, Putting, HasDir, HasInode
<1>4. /\ d /= 0 /\ d \in Uses(p) /\ d \in Slots /\ Last(p) \in Names
      /\ Same(T) /\ T \in Cache /\ T[d].valid /\ T[d].ref > 0 /\ T[d].inum = icache[d].inum
      /\ icache[d].inum \in Inums
  BY <1>0, <1>2, <1>3, InDir DEF HasDir
<1>5. \A t \in Slots : lock[t] /= p
  BY <1>0, <1>1, <1>2 DEF Keeps
<1> HIDE DEF T
<1>6. CASE /\ icache' = T /\ dp' = [dp EXCEPT ![p] = 0]
           /\ CallIput(p, d, "idle") /\ UNCHANGED <<lock, ip>>
  <2>1. /\ pc'[p] = "iput" /\ ret'[p] = "idle" /\ put'[p] = d /\ dp'[p] = 0
        /\ VarInv' /\ Others(p) /\ LockFrame(p)
    BY <1>0, <1>1, <1>3, <1>4, <1>6 DEF VarInv, PCs, Others, LockFrame, CallIput, Goto
  <2>2. At(p)' = "idle"
    BY <2>1 DEF At, Putting
  <2>3. LocalAt(p)'
    BY <1>0, <1>1, <1>3, <1>4, <1>6, <2>1, <2>2 DEF LocalAt, Putting, HasDir, HasInode
  <2>4. \A t \in Slots : ~Keeps(p, t)'
    BY <2>1, <2>2 DEF Keeps
  <2>5. Calm(p)
    BY <1>0, <1>3, <1>5, <1>6, <2>1, <2>2, <2>3, <2>4 DEF Calm, Linking, Claim
  <2>6. Uses(p)' \subseteq Uses(p) /\ \A t \in Slots : Mine(p, t)' = Mine(p, t)
    BY <1>0, <1>3, <1>4, <1>6, <2>1, Sets DEF Uses, Mine, One
  <2>7. Same(icache')
    BY <1>4, <1>6
  <2> QED BY <1>0, <2>1, <2>5, <2>6, <2>7, CalmSame
<1>7. CASE Goto(p, "panic") /\ UNCHANGED <<icache, lock, ip, dp, put, ret>>
  BY <1>0, <1>7, PanicStep DEF Goto
<1>8. CASE /\ found /= 0 /\ CanGet(T, found) /\ icache' = iget(T, found)
           /\ ip' = [ip EXCEPT ![p] = g] /\ lock' = [lock EXCEPT ![d] = p]
           /\ Goto(p, "remove") /\ UNCHANGED <<dp, put, ret>>
  <2>1. found \in Inums /\ dinode[found].nlink > 0
    BY <1>4, <1>8, Found
  <2>10. dinode[icache[d].inum].ent[Last(p)] = found
    BY <1>4
  <2> HIDE DEF found
  <2>2. /\ g \in Slots /\ icache' \in Cache /\ icache'[g].inum = found
        /\ icache'[d].inum = icache[d].inum /\ icache'[d].valid /\ icache'[d].ref > 0
    <3>1. /\ g \in Slots /\ icache' \in Cache /\ icache'[g].inum = found
          /\ \A t \in Slots : T[t].ref > 0 => /\ icache'[t].inum = T[t].inum /\ icache'[t].ref > 0
                                              /\ T[t].valid => icache'[t].valid
      BY <1>4, <1>8, <2>1, Gotten
    <3> QED BY <1>4, <3>1
  <2> HIDE DEF g
  <2>3. /\ pc'[p] = "remove" /\ ip'[p] = g /\ VarInv' /\ Others(p) /\ LockFrame(p)
        /\ \A t \in Slots : lock'[t] = IF t = d THEN p ELSE lock[t]
    BY <1>0, <1>1, <1>3, <1>4, <1>8, <2>2 DEF VarInv, PCs, Others, LockFrame, Goto
  <2>4. At(p)' = "remove"
    BY <2>3 DEF At, Putting
  <2>5. LocalAt(p)'
    BY <1>0, <1>1, <1>3, <1>4, <1>8, <2>2, <2>3, <2>4, Sets DEF LocalAt, Putting, HasDir, HasInode
  <2>6. \A t \in Slots : Keeps(p, t)' <=> lock'[t] = p
    BY <1>5, <1>8, <2>3, <2>4 DEF Keeps
  <2>7. dinode[icache'[dp'[p]].inum].ent[Last(p)'] = icache'[ip'[p]].inum
    BY <1>0, <1>8, <2>2, <2>3, <2>4, <2>10 DEF Last
  <2>8. Calm(p)
    BY <1>0, <1>3, <1>5, <1>8, <2>2, <2>3, <2>4, <2>5, <2>6, <2>7 DEF Calm, Linking, Claim
  <2>9. Uses(p)' \subseteq Uses(p) \cup {g} /\ \A t \in Slots : Mine(p, t)' = Mine(p, t) + One(t = g)
    BY <1>0, <1>3, <1>8, <2>2, <2>3, Sets DEF Uses, Mine, One
  <2> QED BY <1>0, <1>4, <1>8, <2>1, <2>3, <2>8, <2>9, CalmGet DEF g
<1> QED BY <1>6, <1>7, <1>8 DEF Unlink, T

\* What dirlink finds under a name.
InEntry(p, T) ==
    LET di == T[dp[p]].inum
    IN IF Last(p) = "." THEN di ELSE IF Last(p) = ".." THEN dotdot[di] ELSE dinode[di].ent[Last(p)]

LEMMA EntryFacts ==
    ASSUME NInv, Up, dotdot \in [Inums -> Inums], NEW p \in Procs, pc[p] = "enter"
    PROVE  LET found == InEntry(p, Load(icache, dp[p]))
           IN found /= 0 => found \in Inums
<1> DEFINE d == dp[p]
           T == Load(icache, d)
           found == InEntry(p, T)
<1>1. At(p) = "enter" /\ VarInv /\ LocalAt(p)
  BY Here DEF At, Putting
<1>2. T[d].inum = icache[d].inum /\ icache[d].inum \in Inums
  BY <1>1, InDir DEF HasDir
<1>3. PICK di : di = T[d].inum
  OBVIOUS
<1>4. di \in Inums /\ dinode[di].ent \in [Names -> 0..NInums] /\ dotdot[di] \in Inums
  BY <1>1, <1>2, <1>3 DEF VarInv, Disk
<1>5. Last(p) \in Names \cup Dots
  <2>1. path[p] \in Walks /\ path[p] /= <<>>
    BY <1>1 DEF VarInv, LocalAt, HasDir
  <2>2. path[p] \in Seq(Names \cup Dots)
    BY <2>1 DEF Walks
  <2> QED BY <2>1, <2>2 DEF Last
<1>6. found = IF Last(p) = "." THEN di ELSE IF Last(p) = ".." THEN dotdot[di] ELSE dinode[di].ent[Last(p)]
  BY <1>3 DEF InEntry
<1> QED BY <1>4, <1>5, <1>6, Sets DEF Dots

\* The name to link to is there already.
LEMMA EnterFound ==
    ASSUME NInv, dotdot \in [Inums -> Inums], NEW p \in Procs, Enter(p), dinode'= dinode
    PROVE  InEntry(p, Load(icache, dp[p])) /= 0 => NInv'
<1> DEFINE d == dp[p]
           T == Load(icache, d)
           found == InEntry(p, T)
           g == SlotOf(T, found)
<1> SUFFICES ASSUME found /= 0
             PROVE  NInv'
  OBVIOUS
<1>0. /\ Up /\ pc[p] = "enter" /\ lock[d] = None /\ UNCHANGED <<op, path, to, cur, ip, file, cwd>>
  BY DEF Enter
<1>1. /\ VarInv /\ ProcInv(p) /\ LocalAt(p) /\ p /= None
      /\ \A u \in Slots : Keeps(p, u) <=> lock[u] = p
  BY <1>0, Here
<1>2. At(p) = "enter"
  BY <1>0 DEF At, Putting
<1>3. put[p] = 0 /\ cur[p] = 0 /\ ip[p] /= 0 /\ op[p] = "link" /\ path[p] /= <<>>
  BY <1>0, <1>1, <1>2 DEF LocalAt, Putting, HasDir, HasInode
<1>4. /\ d /= 0 /\ d \in Uses(p) /\ d \in Slots
      /\ Same(T) /\ T \in Cache /\ T[d].valid /\ T[d].ref > 0 /\ T[d].inum = icache[d].inum
      /\ icache[d].inum \in Inums
  BY <1>0, <1>2, InDir DEF HasDir
<1>5. \A t \in Slots : lock[t] /= p
  BY <1>0, <1>1, <1>2 DEF Keeps
<1>6. found \in Inums
  BY <1>0, EntryFacts
<1> HIDE DEF T
<1>7. CASE Goto(p, "panic") /\ UNCHANGED <<dinode, icache, lock, dp, put, ret>>
  BY <1>0, <1>7, PanicStep DEF Goto
<1>8. CASE /\ CanGet(T, found) /\ icache' = iget(T, found)
           /\ lock' = [lock EXCEPT ![d] = p]
           /\ CallIput(p, g, "letgo") /\ UNCHANGED <<dinode, dp>>
  <2>1. found \in Inums
    BY <1>6
  <2> HIDE DEF found
  <2>2. /\ g \in Slots /\ icache' \in Cache /\ icache'[g].inum = found
        /\ icache'[d].inum = icache[d].inum /\ icache'[d].valid /\ icache'[d].ref > 0
    <3>1. /\ g \in Slots /\ icache' \in Cache /\ icache'[g].inum = found
          /\ \A t \in Slots : T[t].ref > 0 => /\ icache'[t].inum = T[t].inum /\ icache'[t].ref > 0
                                              /\ T[t].valid => icache'[t].valid
      BY <1>4, <1>8, <2>1, Gotten
    <3> QED BY <1>4, <3>1
  <2> HIDE DEF g
  <2>3. /\ pc'[p] = "iput" /\ ret'[p] = "letgo" /\ put'[p] = g /\ VarInv' /\ Others(p) /\ LockFrame(p)
        /\ \A t \in Slots : lock'[t] = IF t = d THEN p ELSE lock[t]
    BY <1>0, <1>1, <1>3, <1>4, <1>8, <2>2 DEF VarInv, PCs, Others, LockFrame, CallIput, Goto
  <2>4. At(p)' = "letgo"
    BY <2>3 DEF At, Putting
  <2>5. LocalAt(p)'
    BY <1>0, <1>1, <1>3, <1>4, <1>8, <2>2, <2>3, <2>4, Sets DEF LocalAt, Putting, HasDir, HasInode
  <2>6. \A t \in Slots : Keeps(p, t)' <=> lock'[t] = p
    BY <1>5, <1>8, <2>3, <2>4 DEF Keeps
  <2>8. Calm(p)
    BY <1>0, <1>2, <1>3, <1>5, <1>8, <2>2, <2>3, <2>4, <2>5, <2>6 DEF Calm, Linking, Claim
  <2>9. Uses(p)' \subseteq Uses(p) /\ \A t \in Slots : Mine(p, t)' = Mine(p, t) + One(t = g)
    BY <1>0, <1>3, <1>8, <2>2, <2>3, Sets DEF Uses, Mine, One
  <2> QED BY <1>0, <1>4, <1>8, <2>1, <2>3, <2>8, <2>9, CalmPut DEF g
<1> QED BY <1>7, <1>8 DEF Enter, T, InEntry

-----------------------------------------------------------------------------
(* Actions that write. *)

\* The disk with other links or another entry.
WithLinks(D, i, n) == [D EXCEPT ![i].nlink = n]
WithEntry(D, i, n, v) == [D EXCEPT ![i].ent[n] = v]

LEMMA SetNlink ==
    ASSUME NEW D \in Disk, NEW i \in Inums, NEW n \in Nat, NEW E, E = WithLinks(D, i, n)
    PROVE  /\ E \in Disk /\ E[i].nlink = n /\ E[i].type = D[i].type /\ E[i].ent = D[i].ent
           /\ \A j \in Inums : j /= i => E[j] = D[j]
<1> DEFINE r == [D[i] EXCEPT !.nlink = n]
<1>1. E = [D EXCEPT ![i] = r]
  BY DEF WithLinks
<1>2. /\ r \in [type : Kinds, nlink : Nat, ent : [Names -> 0..NInums]]
      /\ r.nlink = n /\ r.type = D[i].type /\ r.ent = D[i].ent
  BY DEF Disk
<1> HIDE DEF r
<1>3. E \in Disk /\ E[i] = r /\ \A j \in Inums : j /= i => E[j] = D[j]
  BY <1>1, <1>2 DEF Disk
<1>4. E[i].nlink = n /\ E[i].type = D[i].type /\ E[i].ent = D[i].ent
  BY <1>2, <1>3
<1> QED BY <1>3, <1>4

LEMMA SetEnt ==
    ASSUME NEW D \in Disk, NEW i \in Inums, NEW n \in Names, NEW v \in 0..NInums,
           NEW E, E = WithEntry(D, i, n, v)
    PROVE  /\ E \in Disk /\ E[i].nlink = D[i].nlink /\ E[i].type = D[i].type /\ E[i].ent[n] = v
           /\ \A m \in Names : m /= n => E[i].ent[m] = D[i].ent[m]
           /\ \A j \in Inums : j /= i => E[j] = D[j]
<1> DEFINE e == [D[i].ent EXCEPT ![n] = v]
           r == [D[i] EXCEPT !.ent = e]
<1>1. E = [D EXCEPT ![i] = r]
  BY DEF WithEntry
<1>2. D[i] \in [type : Kinds, nlink : Nat, ent : [Names -> 0..NInums]]
  BY DEF Disk
<1>3. e \in [Names -> 0..NInums] /\ e[n] = v /\ \A m \in Names : m /= n => e[m] = D[i].ent[m]
  BY <1>2
<1> HIDE DEF e
<1>4. /\ r \in [type : Kinds, nlink : Nat, ent : [Names -> 0..NInums]]
      /\ r.nlink = D[i].nlink /\ r.type = D[i].type /\ r.ent = e
  BY <1>2, <1>3
<1> HIDE DEF r
<1>5. E \in Disk /\ E[i] = r /\ \A j \in Inums : j /= i => E[j] = D[j]
  BY <1>1, <1>4 DEF Disk
<1>6. E[i].nlink = D[i].nlink /\ E[i].type = D[i].type /\ E[i].ent = e
  BY <1>4, <1>5
<1> QED BY <1>3, <1>5, <1>6

LEMMA SetLinksFacts ==
    ASSUME NEW T \in Cache, NEW s \in Slots, NEW n \in Nat, NEW E, E = SetLinks(T, s, n)
    PROVE  /\ E \in Cache /\ E[s].nlink = n /\ E[s].type = T[s].type /\ E[s].inum = T[s].inum
           /\ E[s].ref = T[s].ref /\ E[s].valid = T[s].valid
           /\ \A t \in Slots : t /= s => E[t] = T[t]
<1> DEFINE r == [T[s] EXCEPT !.nlink = n]
<1>1. E = [T EXCEPT ![s] = r]
  BY DEF SetLinks
<1>2. /\ r \in [inum : 0..NInums, ref : Nat, valid : BOOLEAN, type : Kinds, nlink : Nat]
      /\ r.nlink = n /\ r.type = T[s].type /\ r.inum = T[s].inum /\ r.ref = T[s].ref /\ r.valid = T[s].valid
  BY DEF Cache
<1> HIDE DEF r
<1>3. E \in Cache /\ E[s] = r /\ \A t \in Slots : t /= s => E[t] = T[t]
  BY <1>1, <1>2 DEF Cache
<1>4. /\ E[s].nlink = n /\ E[s].type = T[s].type /\ E[s].inum = T[s].inum
      /\ E[s].ref = T[s].ref /\ E[s].valid = T[s].valid
  BY <1>2, <1>3
<1> QED BY <1>3, <1>4

\* What is left to show of a step of p alone.
Fits(p) ==
    /\ Others(p) /\ LockFrame(p)
    /\ pc'[p] \notin {"panic", "bug"} /\ LocalAt(p)'
    /\ \A s \in Slots : (Keeps(p, s)' <=> lock'[s] = p)
    /\ \A s \in Slots : lock'[s] = p /\ lock[s] /= p => icache'[s].valid /\ icache'[s].ref > 0
    /\ TruncAt(p)' /\ ChildAt(p)' /\ NewAt(p)'
    /\ dp'[p] \in {0, dp[p]}
    /\ Linking(p)' => (Linking(p) /\ ip'[p] = ip[p]) \/ Node(ip[p])'.type = "file"

LEMMA WriteStep ==
    ASSUME NInv, Up, NEW p \in Procs, NEW g \in Slots \cup {0}, Fits(p), Got(p, g), Written(p), VarInv',
           Good(icache', dinode'), TreeInv', CountInv', g /= 0 => Node(g)'.type /= "free"
    PROVE  NInv'
<1>0. VarInv /\ ProcInv(p) /\ Others(p) /\ LockFrame(p)
  BY DEF NInv, Fits
<1>1. \A s \in Uses(p) : /\ Node(s)'.type = Node(s).type /\ Node(s)'.type /= "free"
  <2> SUFFICES ASSUME NEW s \in Uses(p)
               PROVE  Node(s)'.type = Node(s).type /\ Node(s)'.type /= "free"
    OBVIOUS
  <2>1. icache'[s].inum = icache[s].inum
    BY GotClaims
  <2>2. icache[s].inum \in Inums /\ dinode[icache[s].inum].type /= "free"
    BY UseFacts DEF Inum, Node
  <2> QED BY <2>1, <2>2 DEF Written, Node
<1>2. ProcInv(p)'
  <2>1. \A s \in Uses(p)' : Node(s)'.type /= "free"
    <3> SUFFICES ASSUME NEW s \in Uses(p)'
                 PROVE  Node(s)'.type /= "free"
      OBVIOUS
    <3>1. s /= 0 /\ s \in Uses(p) \cup {g}
      BY DEF Uses, Got
    <3> QED BY <1>1, <3>1
  <2>2. dp'[p] /= 0 => Node(dp[p])'.type = "dir"
    <3>1. dp'[p] /= 0 => dp'[p] = dp[p] /\ dp[p] \in Uses(p)
      BY DEF Uses, Fits
    <3> QED BY <3>1, <1>0, <1>1 DEF Node, ProcInv
  <2>3. Linking(p)' => Node(ip[p])'.type = "file"
    <3>1. Linking(p) => ip[p] \in Uses(p)
      BY DEF Linking, Uses
    <3> QED BY <3>1, <1>0, <1>1 DEF Fits, ProcInv, Node
  <2> QED BY <2>1, <2>2, <2>3 DEF ProcInv, Fits
<1>3. OwnLocks(p)'
  <2> SUFFICES ASSUME NEW s \in Slots, lock'[s] = p
               PROVE  icache'[s].valid /\ icache'[s].ref > 0 /\ Keeps(p, s)'
    BY DEF OwnLocks
  <2>1. CASE lock[s] = p
    <3>1. icache[s].valid /\ icache[s].ref > 0
      BY <2>1, Locked, Sets
    <3>2. icache'[s].ref >= icache[s].ref /\ icache[s].ref \in Nat /\ icache'[s].ref \in Nat
      <4>1. icache[s].ref \in Nat /\ One(s = g) \in Nat
        BY <1>0 DEF VarInv, Cache, One
      <4> QED BY <4>1 DEF Got
    <3> QED BY <3>1, <3>2 DEF Got, Fits
  <2>2. CASE lock[s] /= p
    BY <2>2 DEF Fits
  <2> QED BY <2>1, <2>2
<1> QED BY <1>0, <1>2, <1>3, Step

\* A cache that differs from a good one in what it says of a disk that changed.
LEMMA GoodWrite ==
    ASSUME NEW T, NEW D, Good(T, D), NEW U, NEW E,
           \A s \in Slots : U[s].ref = T[s].ref /\ U[s].inum = T[s].inum,
           \A s \in Slots : U[s].ref > 0 /\ U[s].valid =>
                /\ U[s].type = E[U[s].inum].type /\ U[s].type /= "free"
                /\ U[s].nlink = E[U[s].inum].nlink
    PROVE  Good(U, E)
BY DEF Good

\* Inode i has n links after a step in which p's claim comes or goes.
Paid(p, i, n) ==
    /\ n >= dinode[i].nlink - One(Claiming(p, i)) + One(Claiming(p, i)')
    /\ \A j \in Inums \ {i} : Claiming(p, j)' => Claiming(p, j)

LEMMA LinkCount ==
    ASSUME NInv, Up, NEW p \in Procs, NEW g, Others(p), Got(p, g), NEW i \in Inums, NEW n \in Nat,
           dinode' = WithLinks(dinode, i, n), dinode[i].type /= "free", Paid(p, i, n)
    PROVE  CountInv' /\ TreeInv' /\ dinode' \in Disk
<1>1. dinode \in Disk /\ CountInv /\ TreeInv
  BY DEF NInv, VarInv
<1>2. /\ dinode' \in Disk /\ dinode'[i].nlink = n /\ dinode'[i].type = dinode[i].type
      /\ dinode'[i].ent = dinode[i].ent /\ \A j \in Inums : j /= i => dinode'[j] = dinode[j]
  BY <1>1, SetNlink
<1>3. \A j \in Inums : dinode'[j].ent = dinode[j].ent /\ dinode'[j].type = dinode[j].type
  BY <1>2
<1>4. TreeInv'
  BY <1>1, <1>3 DEF TreeInv
<1>5. \A j \in Inums : EntriesFor(j)' \subseteq EntriesFor(j) /\ Subdirs(j)' \subseteq Subdirs(j)
  <2>1. \A j \in Inums, m \in Names : dinode[j].ent[m] \in Inums \cup {0}
    BY <1>1, Sets DEF Disk
  <2> QED BY <1>3, <2>1 DEF EntriesFor, Subdirs
<1>6. ASSUME NEW j \in Inums
      PROVE  dinode'[j].nlink >= dinode[j].nlink - One(Claiming(p, j)) + One(Claiming(p, j)')
  <2>1. CASE j = i
    BY <2>1, <1>2 DEF Paid
  <2>2. CASE j /= i
    <3>1. One(Claiming(p, j)') <= One(Claiming(p, j)) /\ One(Claiming(p, j)) \in {0, 1} /\ One(Claiming(p, j)') \in {0, 1}
      BY <2>2 DEF One, Paid
    <3>2. dinode[j].nlink \in Nat /\ dinode'[j] = dinode[j]
      BY <2>2, <1>1, <1>2 DEF Disk
    <3> QED BY <3>1, <3>2
  <2> QED BY <2>1, <2>2
<1>7. \A j \in Inums : dinode'[j].type = "free" => dinode'[j] = FreeInode
  BY <1>1, <1>2 DEF CountInv
<1>8. ClaimsKept(p)
  BY GotClaims
<1> QED BY <1>1, <1>2, <1>4, <1>5, <1>6, <1>7, <1>8, CountKeep

LEMMA RemovedStep ==
    ASSUME NInv, NEW p \in Procs, Removed(p)
    PROVE  NInv'
<1> DEFINE s == ip[p]
<1>i. PICK i : i = icache[s].inum
  OBVIOUS
<1>n. PICK n : n = icache[s].nlink - 1
  OBVIOUS
<1>0. /\ Up /\ pc[p] = "removed" /\ UNCHANGED <<op, path, to, cur, dp, file, cwd>>
      /\ icache' = SetLinks(icache, s, n) /\ dinode' = WithLinks(dinode, i, n)
      /\ lock' = [lock EXCEPT ![s] = None] /\ ip' = [ip EXCEPT ![p] = 0]
      /\ put' = [put EXCEPT ![p] = s] /\ ret' = [ret EXCEPT ![p] = "idle"]
      /\ pc' = [pc EXCEPT ![p] = "iput"]
  BY <1>i, <1>n DEF Removed, CallIput, Goto, WithLinks
<1>1. /\ VarInv /\ ProcInv(p) /\ LocalAt(p) /\ p /= None /\ Good(icache, dinode)
      /\ \A u \in Slots : Keeps(p, u) <=> lock[u] = p
  BY <1>0, Here
<1>2. At(p) = "removed"
  BY <1>0 DEF At, Putting
<1>3. put[p] = 0 /\ cur[p] = 0 /\ dp[p] = 0 /\ ip[p] /= 0 /\ op[p] = "unlink" /\ s \in Uses(p)
  BY <1>0, <1>1, <1>2 DEF LocalAt, Putting, HasDir, HasInode, Uses
<1>4. /\ s \in Slots /\ icache[s].ref > 0 /\ i \in Inums /\ dinode[i].type /= "free" /\ lock[s] = p
      /\ icache[s].valid /\ icache[s].type = dinode[i].type /\ icache[s].nlink = dinode[i].nlink
  <2>1. s \in Slots /\ icache[s].ref > 0 /\ i \in Inums /\ dinode[i].type /= "free"
    BY <1>3, <1>i, UseFacts DEF Inum, Node
  <2>2. lock[s] = p
    BY <1>1, <1>2, <2>1 DEF Keeps
  <2>3. icache[s].valid
    BY <1>0, <1>1, <2>1, <2>2, Locked
  <2> QED BY <1>1, <1>i, <2>1, <2>2, <2>3 DEF Good
<1>5. Claiming(p, i) /\ dinode[i].nlink > 0 /\ dinode[i].nlink \in Nat
  <2>1. Claiming(p, i)
    BY <1>2, <1>i DEF Claiming, Claim, Inum
  <2>2. VarInv /\ CountInv
    BY DEF NInv
  <2> QED BY <1>4, <2>1, <2>2, Linked DEF Claiming, VarInv, Disk
<1>6. n \in Nat /\ n = dinode[i].nlink - 1
  BY <1>4, <1>5, <1>n
<1> HIDE DEF s
<1>7. /\ icache' \in Cache /\ icache'[s].nlink = n /\ icache'[s].type = icache[s].type
      /\ icache'[s].inum = icache[s].inum /\ icache'[s].ref = icache[s].ref
      /\ icache'[s].valid = icache[s].valid /\ \A t \in Slots : t /= s => icache'[t] = icache[t]
  <2>1. icache \in Cache /\ s \in Slots /\ n \in Nat /\ icache' = SetLinks(icache, s, n)
    BY <1>0, <1>1, <1>4, <1>6 DEF VarInv
  <2> QED BY ONLY <2>1, SetLinksFacts
<1>8. /\ dinode' \in Disk /\ dinode'[i].nlink = n /\ dinode'[i].type = dinode[i].type
      /\ \A j \in Inums : j /= i => dinode'[j] = dinode[j]
  <2>1. dinode \in Disk /\ i \in Inums /\ n \in Nat /\ dinode' = WithLinks(dinode, i, n)
    BY <1>0, <1>1, <1>4, <1>6 DEF VarInv
  <2> QED BY ONLY <2>1, SetNlink
<1>9. /\ pc'[p] = "iput" /\ ret'[p] = "idle" /\ put'[p] = s /\ ip'[p] = 0 /\ Others(p) /\ LockFrame(p)
      /\ \A t \in Slots : lock'[t] /= p
  <2>1. pc'[p] = "iput" /\ ret'[p] = "idle" /\ put'[p] = s /\ ip'[p] = 0
    BY <1>0, <1>1, SMTT(60) DEF VarInv, s
  <2>2. Others(p)
    BY <1>0, <1>1, SMTT(60) DEF VarInv, Others
  <2>3. LockFrame(p) /\ \A t \in Slots : lock'[t] /= p
    BY <1>0, <1>1, <1>2, <1>4, Sets, SMTT(60) DEF VarInv, LockFrame, Keeps, s
  <2> QED BY <2>1, <2>2, <2>3
<1>10. VarInv'
  BY <1>0, <1>1, <1>4, <1>7, <1>8, Sets DEF VarInv, PCs
<1>11. At(p)' = "idle"
  BY <1>9 DEF At, Putting
<1>12. LocalAt(p)'
  BY <1>0, <1>1, <1>3, <1>9, <1>11 DEF LocalAt, Putting, HasDir, HasInode, s
<1>13. \A t \in Slots : ~Keeps(p, t)'
  BY <1>9, <1>11 DEF Keeps
<1>14. ~Linking(p)' /\ ~Claim(p)' /\ TruncAt(p)' /\ ChildAt(p)' /\ NewAt(p)'
  BY <1>9, <1>11 DEF Linking, Claim, TruncAt, ChildAt, NewAt
<1>15. Fits(p)
  BY <1>0, <1>9, <1>12, <1>13, <1>14 DEF Fits
<1>16. Got(p, 0)
  <2>1. Uses(p)' \subseteq Uses(p) /\ \A t \in Slots : Mine(p, t)' = Mine(p, t)
    BY <1>0, <1>3, <1>9, Sets DEF Uses, Mine, One, s
  <2>2. \A t \in Slots : Mine(p, t) \in Nat /\ icache[t].ref \in Nat /\ One(t = 0) = 0
    BY <1>1, Sets DEF Mine, One, VarInv, Cache
  <2> QED BY <1>7, <2>1, <2>2, Sets DEF Got
<1>17. Written(p)
  BY <1>3, <1>4, <1>8, <1>i DEF Written, Inum, s
<1>18. CountInv' /\ TreeInv'
  <2>1. n >= dinode[i].nlink - One(Claiming(p, i)) + One(Claiming(p, i)')
    BY <1>5, <1>6, <1>14 DEF One, Claiming
  <2>2. \A j \in Inums \ {i} : Claiming(p, j)' => Claiming(p, j)
    BY <1>14 DEF Claiming
  <2>3. /\ Up /\ Others(p) /\ Got(p, 0) /\ i \in Inums /\ n \in Nat /\ dinode[i].type /= "free"
        /\ dinode' = WithLinks(dinode, i, n) /\ Paid(p, i, n)
    BY <1>0, <1>4, <1>6, <1>9, <1>16, <2>1, <2>2 DEF Paid
  <2> QED BY <2>3, LinkCount
<1>19. Good(icache', dinode')
  <2>1. \A t \in Slots : icache'[t].ref = icache[t].ref /\ icache'[t].inum = icache[t].inum
    BY <1>7
  <2>2. ASSUME NEW t \in Slots, icache'[t].ref > 0, icache'[t].valid
        PROVE  /\ icache'[t].type = dinode'[icache'[t].inum].type /\ icache'[t].type /= "free"
               /\ icache'[t].nlink = dinode'[icache'[t].inum].nlink
    <3>1. CASE t = s
      BY <3>1, <1>4, <1>7, <1>8, <1>i
    <3>2. CASE t /= s
      <4>1. icache[t].inum /= i /\ icache[t].inum \in Inums
        BY <3>2, <2>1, <2>2, <1>1, <1>4, <1>i DEF Good
      <4> QED BY <3>2, <4>1, <2>2, <1>1, <1>7, <1>8 DEF Good
    <3> QED BY <3>1, <3>2
  <2> QED BY <1>1, <2>1, <2>2, GoodWrite
<1> QED BY <1>0, <1>10, <1>15, <1>16, <1>17, <1>18, <1>19, WriteStep

\* ilock(s), n links, and iupdate.
LEMMA LinkWrite ==
    ASSUME NInv, Up, NEW p \in Procs, NEW s \in Uses(p), NEW n \in Nat,
           NEW U, U = SetLinks(Load(icache, s), s, n), NEW E, E = WithLinks(dinode, Inum(s), n)
    PROVE  /\ U \in Cache /\ E \in Disk /\ Good(U, E)
           /\ \A t \in Slots : /\ U[t].ref = icache[t].ref /\ U[t].inum = icache[t].inum
                               /\ icache[t].valid => U[t].valid
           /\ \A j \in Inums : E[j].type = dinode[j].type /\ (j /= Inum(s) => E[j] = dinode[j])
<1> DEFINE T == Load(icache, s)
           i == Inum(s)
<1>1. /\ s \in Slots /\ icache[s].ref > 0 /\ i \in Inums /\ dinode[i].type /= "free"
      /\ Same(T) /\ T[s].valid /\ T \in Cache /\ T[s].inum = i /\ T[s].type = dinode[i].type
      /\ \A t \in Slots : t /= s => T[t] = icache[t]
  BY Lookup DEF Inum, Node
<1>2. /\ Good(T, dinode) /\ Good(icache, dinode) /\ dinode \in Disk
      /\ \A t \in Slots : /\ T[t].ref = icache[t].ref /\ T[t].inum = icache[t].inum
                          /\ icache[t].valid => T[t].valid
  BY <1>1 DEF Same, NInv, VarInv
<1>3. U = SetLinks(T, s, n) /\ E = WithLinks(dinode, i, n)
  OBVIOUS
<1> HIDE DEF T, i
<1>4. /\ U \in Cache /\ U[s].nlink = n /\ U[s].type = T[s].type /\ U[s].inum = T[s].inum
      /\ U[s].ref = T[s].ref /\ U[s].valid = T[s].valid
      /\ \A t \in Slots : t /= s => U[t] = T[t]
  <2>1. T \in Cache /\ s \in Slots /\ n \in Nat /\ U = SetLinks(T, s, n)
    BY <1>1, <1>3
  <2> QED BY ONLY <2>1, SetLinksFacts
<1>5. /\ E \in Disk /\ E[i].nlink = n /\ E[i].type = dinode[i].type
      /\ \A j \in Inums : j /= i => E[j] = dinode[j]
  BY ONLY <1>1, <1>2, <1>3, n \in Nat, SetNlink
<1>6. \A t \in Slots : U[t].ref = T[t].ref /\ U[t].inum = T[t].inum
  BY <1>4
<1>7. ASSUME NEW t \in Slots, U[t].ref > 0, U[t].valid
      PROVE  /\ U[t].type = E[U[t].inum].type /\ U[t].type /= "free"
             /\ U[t].nlink = E[U[t].inum].nlink
  <2>1. CASE t = s
    BY <2>1, <1>1, <1>4, <1>5
  <2>2. CASE t /= s
    <3>1. T[t].inum /= i /\ T[t].inum \in Inums /\ T[t] = U[t]
      BY <2>2, <1>1, <1>2, <1>4, <1>6, <1>7 DEF Good
    <3>2. T[t].type = dinode[T[t].inum].type /\ T[t].type /= "free" /\ T[t].nlink = dinode[T[t].inum].nlink
      BY <3>1, <1>2, <1>7 DEF Good
    <3> QED BY <3>1, <3>2, <1>5
  <2> QED BY <2>1, <2>2
<1>8. Good(U, E)
  BY <1>2, <1>6, <1>7, GoodWrite
<1> QED BY <1>1, <1>2, <1>4, <1>5, <1>6, <1>8, ZenonT(120) DEF i

LEMMA UnenterStep ==
    ASSUME NInv, NEW p \in Procs, Unenter(p)
    PROVE  NInv'
<1> DEFINE s == ip[p]
<1>i. PICK i : i = Inum(s)
  OBVIOUS
<1>n. PICK n : n = dinode[i].nlink - 1
  OBVIOUS
<1>0. /\ Up /\ pc[p] = "unenter" /\ lock[s] = None
      /\ UNCHANGED <<lock, op, path, to, cur, dp, file, cwd>>
      /\ icache' = SetLinks(Load(icache, s), s, Load(icache, s)[s].nlink - 1)
      /\ dinode' = WithLinks(dinode, Load(icache, s)[s].inum, Load(icache, s)[s].nlink - 1)
      /\ ip' = [ip EXCEPT ![p] = 0]
      /\ put' = [put EXCEPT ![p] = s] /\ ret' = [ret EXCEPT ![p] = "idle"]
      /\ pc' = [pc EXCEPT ![p] = "iput"]
  BY DEF Unenter, CallIput, Goto, WithLinks
<1>1. /\ VarInv /\ ProcInv(p) /\ LocalAt(p) /\ p /= None /\ Good(icache, dinode)
      /\ \A u \in Slots : Keeps(p, u) <=> lock[u] = p
  BY <1>0, Here
<1>2. At(p) = "unenter"
  BY <1>0 DEF At, Putting
<1>3. put[p] = 0 /\ cur[p] = 0 /\ dp[p] = 0 /\ ip[p] /= 0 /\ op[p] = "link" /\ s \in Uses(p)
  BY <1>0, <1>1, <1>2 DEF LocalAt, Putting, HasDir, HasInode, Uses
<1>4. /\ s \in Slots /\ icache[s].ref > 0 /\ i \in Inums /\ dinode[i].type /= "free"
      /\ Load(icache, s)[s].inum = i /\ Load(icache, s)[s].nlink = dinode[i].nlink
  BY <1>0, <1>3, <1>i, Lookup DEF Inum, Node
<1>5. Claiming(p, i) /\ dinode[i].nlink > 0 /\ dinode[i].nlink \in Nat
  <2>1. Claiming(p, i)
    BY <1>2, <1>3, <1>i DEF Claiming, Claim, Linking, Inum
  <2>2. VarInv /\ CountInv
    BY DEF NInv
  <2> QED BY <1>4, <2>1, <2>2, Linked DEF Claiming, VarInv, Disk
<1>6. n \in Nat /\ n = dinode[i].nlink - 1
  BY <1>5, <1>n
<1>7. icache' = SetLinks(Load(icache, s), s, n) /\ dinode' = WithLinks(dinode, Inum(s), n)
  BY <1>0, <1>4, <1>i, <1>n
<1> HIDE DEF s
<1>8. /\ icache' \in Cache /\ dinode' \in Disk /\ Good(icache', dinode')
      /\ \A t \in Slots : /\ icache'[t].ref = icache[t].ref /\ icache'[t].inum = icache[t].inum
                          /\ icache[t].valid => icache'[t].valid
      /\ \A j \in Inums : dinode'[j].type = dinode[j].type /\ (j /= Inum(s) => dinode'[j] = dinode[j])
  BY <1>0, <1>3, <1>6, <1>7, LinkWrite
<1>9. /\ pc'[p] = "iput" /\ ret'[p] = "idle" /\ put'[p] = s /\ ip'[p] = 0 /\ Others(p) /\ LockFrame(p)
      /\ \A t \in Slots : lock'[t] /= p
  BY <1>0, <1>1, <1>2, <1>4, Sets DEF VarInv, Others, LockFrame, Keeps, s
<1>10. VarInv'
  BY <1>0, <1>1, <1>4, <1>8, Sets DEF VarInv, PCs
<1>11. At(p)' = "idle"
  BY <1>9 DEF At, Putting
<1>12. LocalAt(p)'
  BY <1>0, <1>1, <1>3, <1>9, <1>11 DEF LocalAt, Putting, HasDir, HasInode, s
<1>13. \A t \in Slots : ~Keeps(p, t)'
  BY <1>9, <1>11 DEF Keeps
<1>14. ~Linking(p)' /\ ~Claim(p)' /\ TruncAt(p)' /\ ChildAt(p)' /\ NewAt(p)'
  BY <1>9, <1>11 DEF Linking, Claim, TruncAt, ChildAt, NewAt
<1>15. Fits(p)
  BY <1>0, <1>9, <1>12, <1>13, <1>14 DEF Fits
<1>16. Got(p, 0)
  <2>1. Uses(p)' \subseteq Uses(p) /\ \A t \in Slots : Mine(p, t)' = Mine(p, t)
    BY <1>0, <1>3, <1>9, Sets DEF Uses, Mine, One, s
  <2>2. \A t \in Slots : Mine(p, t) \in Nat /\ icache[t].ref \in Nat /\ One(t = 0) = 0
    BY <1>1, Sets DEF Mine, One, VarInv, Cache
  <2>3. 0 \notin Slots /\ Uses(p)' \subseteq Uses(p) \cup {0}
    BY <2>1, Sets
  <2>4. \A t \in Slots : /\ icache'[t].ref = icache[t].ref + One(t = 0)
                         /\ Mine(p, t)' = Mine(p, t) + One(t = 0)
    BY <1>8, <2>1, <2>2
  <2> QED BY <1>8, <2>3, <2>4 DEF Got
<1>17. Written(p)
  BY <1>0, <1>3, <1>4, <1>8, <1>i DEF Written, s
<1>18. CountInv' /\ TreeInv'
  <2>1. n >= dinode[i].nlink - One(Claiming(p, i)) + One(Claiming(p, i)')
    BY <1>5, <1>6, <1>14 DEF One, Claiming
  <2>2. \A j \in Inums \ {i} : Claiming(p, j)' => Claiming(p, j)
    BY <1>14 DEF Claiming
  <2>3. /\ Up /\ Others(p) /\ Got(p, 0) /\ i \in Inums /\ n \in Nat /\ dinode[i].type /= "free"
        /\ dinode' = WithLinks(dinode, i, n) /\ Paid(p, i, n)
    BY <1>0, <1>4, <1>6, <1>7, <1>9, <1>16, <1>i, <2>1, <2>2 DEF Paid
  <2> QED BY <2>3, LinkCount
<1> QED BY <1>0, <1>8, <1>10, <1>15, <1>16, <1>17, <1>18, WriteStep

LEMMA LinkStep ==
    ASSUME NInv, NEW p \in Procs, Link(p)
    PROVE  NInv'
<1> DEFINE s == ip[p]
           T == Load(icache, s)
<1>i. PICK i : i = Inum(s)
  OBVIOUS
<1>n. PICK n : n = dinode[i].nlink + 1
  OBVIOUS
<1>0. /\ Up /\ pc[p] = "link" /\ lock[s] = None /\ UNCHANGED <<lock, op, dp, file, cwd>>
  BY DEF Link
<1>1. /\ VarInv /\ ProcInv(p) /\ LocalAt(p) /\ p /= None /\ Good(icache, dinode)
      /\ \A u \in Slots : Keeps(p, u) <=> lock[u] = p
  BY <1>0, Here
<1>2. At(p) = "link"
  BY <1>0 DEF At, Putting
<1>3. put[p] = 0 /\ cur[p] = 0 /\ dp[p] = 0 /\ ip[p] /= 0 /\ op[p] = "link" /\ s \in Uses(p)
  BY <1>0, <1>1, <1>2 DEF LocalAt, Putting, HasDir, HasInode, Uses
<1>4. /\ s \in Slots /\ icache[s].ref > 0 /\ i \in Inums /\ dinode[i].type /= "free"
      /\ T[s].inum = i /\ T[s].nlink = dinode[i].nlink /\ T[s].type = dinode[i].type
      /\ ~Typeless(s) /\ Same(T) /\ T \in Cache
  BY <1>0, <1>3, <1>i, Lookup DEF Inum, Node
<1>5. \A t \in Slots : lock'[t] /= p /\ lock[t] /= p
  BY <1>0, <1>1, <1>2 DEF Keeps
<1>6. n \in Nat
  BY <1>1, <1>4, <1>n DEF VarInv, Disk
<1> HIDE DEF T
<1>7. CASE /\ icache' = T /\ ip' = [ip EXCEPT ![p] = 0]
           /\ CallIput(p, s, "idle") /\ UNCHANGED <<dinode, path, to, cur>>
  <2>1. /\ pc'[p] = "iput" /\ ret'[p] = "idle" /\ ip'[p] = 0 /\ put'[p] = s
        /\ VarInv' /\ Others(p) /\ LockFrame(p)
    BY <1>0, <1>1, <1>3, <1>4, <1>7 DEF VarInv, PCs, Others, LockFrame, CallIput, Goto
  <2>2. At(p)' = "idle"
    BY <2>1 DEF At, Putting
  <2>3. LocalAt(p)'
    BY <1>0, <1>1, <1>3, <1>7, <2>1, <2>2 DEF LocalAt, Putting, HasDir, HasInode
  <2>4. \A t \in Slots : ~Keeps(p, t)'
    BY <2>1, <2>2 DEF Keeps
  <2>5. Calm(p)
    BY <1>0, <1>3, <1>5, <1>7, <2>1, <2>2, <2>3, <2>4 DEF Calm, Linking, Claim
  <2>6. Uses(p)' \subseteq Uses(p) /\ \A t \in Slots : Mine(p, t)' = Mine(p, t)
    BY <1>0, <1>3, <1>7, <2>1, Sets DEF Uses, Mine, One
  <2>7. Same(icache')
    BY <1>4, <1>7
  <2> QED BY <1>0, <2>1, <2>5, <2>6, <2>7, CalmSame
<1>8. CASE /\ T[s].type = "file" /\ dinode' = [dinode EXCEPT ![T[s].inum].nlink = T[s].nlink + 1]
           /\ StartAt(p, to[p], SetLinks(T, s, T[s].nlink + 1))
           /\ path' = [path EXCEPT ![p] = to[p]] /\ to' = [to EXCEPT ![p] = <<>>]
           /\ Goto(p, "namex") /\ UNCHANGED <<ip, put, ret>>
  <2> DEFINE U == SetLinks(T, s, n)
  <2>1. dinode' = WithLinks(dinode, i, n) /\ StartAt(p, to[p], U)
    BY <1>4, <1>8, <1>n DEF WithLinks
  <2>2. /\ U \in Cache /\ dinode' \in Disk /\ Good(U, dinode')
        /\ \A t \in Slots : /\ U[t].ref = icache[t].ref /\ U[t].inum = icache[t].inum
                            /\ icache[t].valid => U[t].valid
        /\ \A j \in Inums : dinode'[j].type = dinode[j].type /\ (j /= Inum(s) => dinode'[j] = dinode[j])
    BY <1>0, <1>3, <1>6, <1>i, <2>1, LinkWrite DEF T
  <2> HIDE DEF U, s
  <2>3. cwd[p] \in Uses(p) /\ cwd[p] \in Slots /\ icache[cwd[p]].ref > 0 /\ U[cwd[p]].ref > 0
    <3>1. cwd[p] \in Uses(p)
      BY <1>1, Sets DEF VarInv, Uses
    <3> QED BY <2>2, <3>1, UseFacts
  <2>4. PICK g \in Slots :
             /\ cur' = [cur EXCEPT ![p] = g] /\ icache' \in Cache /\ Good(icache', dinode')
             /\ \A t \in Slots : /\ icache'[t].ref = U[t].ref + One(t = g)
                                 /\ U[t].ref > 0 => /\ icache'[t].inum = U[t].inum
                                                    /\ icache'[t].valid = U[t].valid
             /\ g = cwd[p] \/ icache'[g].inum = Root
             /\ to[p] \in Paths \cup RelPaths
    BY <2>1, <2>2, <2>3, StartFacts
  <2>5. to[p] \in Walks /\ to[p] /= <<>> /\ <<>> \in Walks
    BY <2>4, NoPath
  <2>6. /\ pc'[p] = "namex" /\ path'[p] = to[p] /\ cur'[p] = g /\ Others(p) /\ LockFrame(p)
        /\ VarInv'
    BY <1>0, <1>1, <1>8, <2>2, <2>4, <2>5, SMTT(60) DEF VarInv, PCs, Others, LockFrame, Goto
  <2>7. At(p)' = "namex"
    BY <2>6 DEF At, Putting
  <2>8. LocalAt(p)'
    BY <1>0, <1>1, <1>3, <1>8, <2>5, <2>6, <2>7, Sets DEF LocalAt, Putting, HasDir, HasInode
  <2>9. \A t \in Slots : ~Keeps(p, t)'
    BY <2>6, <2>7 DEF Keeps
  <2>10. Uses(p)' \subseteq Uses(p) \cup {g} /\ \A u \in Slots : Mine(p, u)' = Mine(p, u) + One(u = g)
    BY <1>0, <1>3, <1>8, <2>6, Sets DEF Uses, Mine, One
  <2>11. VarInv /\ CountInv /\ dinode[Root].nlink > 0 /\ dinode[Root].type /= "free" /\ Root \in Inums
    BY Linked, Sets DEF NInv
  <2>12. Got(p, g)
    <3>1. icache[g].ref > 0 => g \in Uses(p) \/ Node(g).nlink > 0
      BY <2>2, <2>3, <2>4, <2>11 DEF Node
    <3> QED BY <2>2, <2>4, <2>10, <3>1 DEF Got
  <2>13. icache'[s].inum = i
    BY <1>4, <1>i, <2>2, <2>4 DEF Inum
  <2>14. Node(g)'.type /= "free"
    <3>1. CASE g = cwd[p]
      <4>1. icache'[g].inum = icache[g].inum /\ icache[g].inum \in Inums /\ dinode[icache[g].inum].type /= "free"
        BY <3>1, <2>2, <2>3, <2>4, UseFacts DEF Inum, Node
      <4> QED BY <4>1, <2>2 DEF Node
    <3>2. CASE icache'[g].inum = Root
      BY <3>2, <2>2, <2>11 DEF Node
    <3> QED BY <2>4, <3>1, <3>2
  <2>15. Node(ip[p])'.type = "file"
    BY <1>4, <1>8, <2>2, <2>13 DEF Node, s
  <2>16. TruncAt(p)' /\ ChildAt(p)' /\ NewAt(p)'
    BY <2>6, <2>7 DEF TruncAt, ChildAt, NewAt
  <2>17. Fits(p)
    BY <1>0, <1>5, <2>6, <2>8, <2>9, <2>15, <2>16 DEF Fits
  <2>18. Written(p)
    BY <1>0, <1>3, <1>4, <1>i, <2>2 DEF Written, s
  <2>19. CountInv' /\ TreeInv'
    <3>1. n >= dinode[i].nlink - One(Claiming(p, i)) + One(Claiming(p, i)')
      <4>1. One(Claiming(p, i)) \in {0, 1} /\ One(Claiming(p, i)') \in {0, 1} /\ ~Claiming(p, i)
        BY <1>2 DEF One, Claiming, Claim, Linking
      <4>2. dinode[i].nlink \in Nat
        BY <1>1, <1>4 DEF VarInv, Disk
      <4> QED BY <4>1, <4>2, <1>n DEF One
    <3>2. \A j \in Inums \ {i} : Claiming(p, j)' => Claiming(p, j)
      BY <1>8, <2>13 DEF Claiming, Inum, s
    <3>3. /\ Up /\ Others(p) /\ Got(p, g) /\ i \in Inums /\ n \in Nat /\ dinode[i].type /= "free"
          /\ dinode' = WithLinks(dinode, i, n) /\ Paid(p, i, n)
      BY <1>0, <1>4, <1>6, <2>1, <2>6, <2>12, <3>1, <3>2 DEF Paid
    <3> QED BY <3>3, LinkCount
  <2> QED BY <1>0, <2>4, <2>6, <2>12, <2>14, <2>17, <2>18, <2>19, WriteStep
<1> QED BY <1>4, <1>7, <1>8 DEF Link, T

LEMMA EnterStep ==
    ASSUME NInv, dotdot \in [Inums -> Inums], NEW p \in Procs, Enter(p)
    PROVE  NInv'
<1> DEFINE d == dp[p]
           s == ip[p]
           T == Load(icache, d)
           found == InEntry(p, T)
<1>i. PICK i, di, n : i = Inum(s) /\ di = Inum(d) /\ n = Last(p)
  OBVIOUS
<1>0. /\ Up /\ pc[p] = "enter" /\ lock[d] = None /\ UNCHANGED <<op, path, to, cur, ip, file, cwd>>
  BY DEF Enter
<1>1. /\ VarInv /\ ProcInv(p) /\ LocalAt(p) /\ p /= None /\ Good(icache, dinode)
      /\ \A u \in Slots : Keeps(p, u) <=> lock[u] = p
  BY <1>0, Here
<1>2. At(p) = "enter"
  BY <1>0 DEF At, Putting
<1>3. put[p] = 0 /\ cur[p] = 0 /\ ip[p] /= 0 /\ op[p] = "link" /\ path[p] /= <<>> /\ s \in Uses(p)
  BY <1>0, <1>1, <1>2 DEF LocalAt, Putting, HasDir, HasInode, Uses
<1>4. /\ d /= 0 /\ d \in Uses(p) /\ d \in Slots
      /\ Same(T) /\ T \in Cache /\ T[d].inum = di /\ di \in Inums /\ dinode[di].type = "dir"
  BY <1>0, <1>2, <1>i, InDir DEF HasDir, Inum, Node
<1>5. \A t \in Slots : lock[t] /= p
  BY <1>0, <1>1, <1>2 DEF Keeps
<1>6. i \in Inums /\ dinode[i].type = "file" /\ Linking(p) /\ Claiming(p, i)
  <2>1. Linking(p) /\ Claiming(p, i)
    BY <1>2, <1>3, <1>i DEF Linking, Claiming, Claim
  <2> QED BY <1>1, <1>3, <1>i, <2>1, UseFacts DEF ProcInv, Inum, Node
<1>7. CASE found /= 0
  <2>1. dinode' = dinode
    BY <1>7 DEF Enter, InEntry
  <2> QED BY <1>7, <2>1, EnterFound
<1> HIDE DEF T
<1>8. CASE found = 0
  <2>1. /\ icache' = T /\ dp' = [dp EXCEPT ![p] = 0] /\ dinode' = WithEntry(dinode, di, n, i)
        /\ CallIput(p, d, "entered") /\ UNCHANGED lock
    BY <1>4, <1>8, <1>i DEF Enter, WithEntry, T, Inum, InEntry
  <2>0. n \in Names
    <3>1. n /= "." /\ n /= ".."
      <4>1. di /= 0 /\ dotdot[di] /= 0
        BY <1>4, Sets
      <4> QED BY <1>4, <1>8, <1>i, <4>1 DEF InEntry
    <3>2. path[p] \in Seq(Names \cup Dots)
      BY <1>1 DEF VarInv, Walks
    <3>3. n \in Names \cup Dots
      BY <1>3, <1>i, <3>2 DEF Last
    <3> QED BY <3>1, <3>3 DEF Dots
  <2> HIDE DEF d, s, found
  <2>2. /\ dinode' \in Disk /\ dinode'[di].nlink = dinode[di].nlink /\ dinode'[di].type = dinode[di].type
        /\ dinode'[di].ent[n] = i /\ \A m \in Names : m /= n => dinode'[di].ent[m] = dinode[di].ent[m]
        /\ \A j \in Inums : j /= di => dinode'[j] = dinode[j]
    <3>1. dinode \in Disk /\ di \in Inums /\ n \in Names /\ i \in 0..NInums /\ dinode' = WithEntry(dinode, di, n, i)
      BY <1>1, <1>4, <1>6, <2>0, <2>1, Sets DEF VarInv
    <3> QED BY ONLY <3>1, SetEnt
  <2>3. /\ pc'[p] = "iput" /\ ret'[p] = "entered" /\ put'[p] = d /\ dp'[p] = 0
        /\ VarInv' /\ Others(p) /\ LockFrame(p)
    BY <1>0, <1>1, <1>4, <2>1, <2>2 DEF VarInv, PCs, Others, LockFrame, CallIput, Goto
  <2>4. At(p)' = "entered"
    BY <2>3 DEF At, Putting
  <2>5. LocalAt(p)'
    BY <1>0, <1>1, <1>3, <1>4, <2>3, <2>4 DEF LocalAt, Putting, HasDir, HasInode
  <2>6. ~Linking(p)' /\ ~Claim(p)' /\ TruncAt(p)' /\ ChildAt(p)' /\ NewAt(p)' /\ \A t \in Slots : ~Keeps(p, t)'
    BY <2>3, <2>4 DEF Linking, Claim, TruncAt, ChildAt, NewAt, Keeps
  <2>7. Fits(p)
    BY <1>5, <2>1, <2>3, <2>5, <2>6 DEF Fits
  <2>8. Got(p, 0) /\ Good(T, dinode)
    <3>1. Uses(p)' \subseteq Uses(p) /\ \A t \in Slots : Mine(p, t)' = Mine(p, t)
      BY <1>0, <1>3, <1>4, <2>1, <2>3, Sets DEF Uses, Mine, One, d
    <3>2. Same(icache')
      BY <1>4, <2>1
    <3> QED BY <3>1, <3>2, <2>1, SameGot
  <2>9. \A j \in Inums : dinode'[j].type = dinode[j].type /\ dinode'[j].nlink = dinode[j].nlink
    BY <2>2
  <2>10. Written(p)
    BY <1>0, <1>4, <1>i, <2>2, <2>9 DEF Written, d
  <2>11. Good(icache', dinode')
    <3>1. \A t \in Slots : T[t].ref > 0 => T[t].inum \in Inums
      BY <2>8 DEF Good
    <3> QED BY <2>1, <2>8, <2>9, <3>1 DEF Good
  <2>12. i /= di
    BY <1>4, <1>6
  <2>13. TreeInv'
    <3>0. TreeInv
      BY DEF NInv
    <3>1. \A j \in Inums : dinode'[j].type /= "dir" => dinode'[j].ent = NoEntries
      BY <3>0, <1>4, <2>2 DEF TreeInv
    <3>2. \A m \in Names : dinode'[i].ent[m] = 0
      BY <3>0, <1>6, <2>2, <2>12, Sets DEF TreeInv
    <3>3. ASSUME NEW j \in Inums, NEW k \in Inums, NEW m \in Names, NEW l \in Names,
                 dinode'[j].ent[m] = k, dinode'[k].ent[l] = j
          PROVE  FALSE
      <4>1. j /= i /\ k /= i
        BY <3>2, <3>3, Sets
      <4>2. ~(j = di /\ m = n) /\ ~(k = di /\ l = n)
        BY <4>1, <3>3, <2>2
      <4>3. dinode[j].ent[m] = k /\ dinode[k].ent[l] = j
        BY <4>2, <3>3, <2>2
      <4> QED BY <4>3, <3>0 DEF TreeInv
    <3> QED BY <3>1, <3>3 DEF TreeInv
  <2>14. CountInv'
    <3>1. \A j \in Inums, m \in Names : j /= di \/ m /= n => dinode'[j].ent[m] = dinode[j].ent[m]
      BY <2>2
    <3>2. \A j \in Inums : dinode[j].type = "free" => dinode'[j] = dinode[j]
      BY <1>4, <2>2
    <3>3. n \notin Subdirs(di)'
      BY <1>6, <2>2, <2>12 DEF Subdirs
    <3>4. ASSUME NEW j \in Inums
          PROVE  dinode'[j].nlink >= dinode[j].nlink
                  - One(Claiming(p, j)) - One(dinode[di].ent[n] = j) - One(j = di /\ n \in Subdirs(di))
                  + One(Claiming(p, j)') + One(dinode'[di].ent[n] = j) + One(j = di /\ n \in Subdirs(di)')
      <4>1. /\ One(Claiming(p, j)) \in {0, 1} /\ One(dinode[di].ent[n] = j) \in {0, 1}
            /\ One(j = di /\ n \in Subdirs(di)) \in {0, 1}
        BY DEF One
      <4>2. One(Claiming(p, j)') = 0 /\ One(j = di /\ n \in Subdirs(di)') = 0
        BY <2>6, <3>3 DEF One, Claiming
      <4>3. One(dinode'[di].ent[n] = j) <= One(Claiming(p, j)) /\ One(dinode'[di].ent[n] = j) \in {0, 1}
        BY <1>6, <2>2 DEF One
      <4>4. dinode[j].nlink \in Nat /\ dinode'[j].nlink = dinode[j].nlink
        BY <1>1, <2>9 DEF VarInv, Disk
      <4> QED BY <4>1, <4>2, <4>3, <4>4
    <3>5. Moved(p, di, n)
      BY <2>9, <3>1, <3>2, <3>4 DEF Moved
    <3>6. CountInv /\ ClaimsKept(p) /\ dinode \in Disk
      BY <1>0, <1>1, <2>8, GotClaims DEF NInv, VarInv
    <3> QED BY <1>4, <2>0, <2>2, <2>3, <3>5, <3>6, CountMove
  <2> QED BY <1>0, <2>3, <2>7, <2>8, <2>10, <2>11, <2>13, <2>14, WriteStep
<1> QED BY <1>7, <1>8 DEF T

\* The directory and the inode in it that unlink has, once it has both locks.
LEMMA InRemove ==
    ASSUME NInv, Up, NEW p \in Procs, pc[p] = "remove", lock[ip[p]] = None
    PROVE  LET s == ip[p]
               d == dp[p]
               T == Load(icache, s)
           IN /\ At(p) = "remove" /\ put[p] = 0 /\ cur[p] = 0 /\ op[p] = "unlink"
              /\ s \in Uses(p) /\ d \in Uses(p) /\ s \in Slots /\ d \in Slots /\ s /= d /\ d /= 0 /\ s /= 0
              /\ Inum(s) \in Inums /\ Inum(d) \in Inums /\ Inum(s) /= Inum(d)
              /\ icache[s].ref > 0 /\ icache[d].ref > 0
              /\ Last(p) \in Names /\ dinode[Inum(d)].ent[Last(p)] = Inum(s)
              /\ dinode[Inum(s)].type /= "free" /\ dinode[Inum(s)].nlink > 0
              /\ dinode[Inum(d)].type = "dir"
              /\ lock[d] = p /\ icache[d].valid /\ T[d] = icache[d]
              /\ icache[d].type = dinode[Inum(d)].type /\ icache[d].nlink = dinode[Inum(d)].nlink
              /\ Same(T) /\ T \in Cache /\ T[s].valid /\ T[s].inum = Inum(s) /\ T[s].ref = icache[s].ref
              /\ T[s].type = dinode[Inum(s)].type /\ T[s].nlink = dinode[Inum(s)].nlink
              /\ ~Typeless(s)
<1> DEFINE s == ip[p]
           d == dp[p]
           T == Load(icache, s)
<1>1. /\ VarInv /\ ProcInv(p) /\ LocalAt(p) /\ p /= None /\ Good(icache, dinode)
      /\ \A u \in Slots : Keeps(p, u) <=> lock[u] = p
  BY Here
<1>2. At(p) = "remove"
  BY DEF At, Putting
<1>3. put[p] = 0 /\ cur[p] = 0 /\ s /= 0 /\ op[p] = "unlink" /\ s \in Uses(p)
  BY <1>1, <1>2 DEF LocalAt, Putting, HasDir, HasInode, Uses
<1>4. /\ d /= 0 /\ d \in Uses(p) /\ d \in Slots /\ Last(p) \in Names /\ Node(d).type = "dir"
      /\ icache[d].inum \in Inums
  BY <1>2, <1>3, InDir DEF HasDir
<1>5. lock[d] = p
  BY <1>1, <1>2, <1>4 DEF Keeps
<1>6. s /= d
  BY <1>1, <1>5
<1>7. /\ s \in Slots /\ icache[s].ref > 0 /\ Inum(s) \in Inums /\ Node(s).type /= "free"
      /\ Same(T) /\ T[s].valid /\ ~Typeless(s) /\ T \in Cache /\ T[s].inum = icache[s].inum
      /\ T[s].type = Node(s).type /\ T[s].nlink = Node(s).nlink
      /\ \A t \in Slots : t /= s => T[t] = icache[t]
  BY <1>3, Lookup
<1>8. icache[d].valid /\ icache[d].ref > 0
  BY <1>1, <1>4, <1>5, Locked
<1>9. Inum(s) /= Inum(d)
  BY <1>4, <1>6, <1>7, <1>8, OneEntry
<1>10. Node(d).ent[Last(p)] = Inum(s)
  BY <1>1, <1>2 DEF ProcInv, ChildAt
<1>11. Node(s).nlink > 0
  <2>1. VarInv /\ CountInv
    BY DEF NInv
  <2> QED BY <2>1, <1>4, <1>7, <1>10, Linked DEF Node, Inum
<1>12. icache[d].type = Node(d).type /\ icache[d].nlink = Node(d).nlink
  BY <1>1, <1>4, <1>8 DEF Good, Node
<1>13. T[s].ref = icache[s].ref
  BY <1>7 DEF Same
<1> QED BY <1>2, <1>3, <1>4, <1>5, <1>6, <1>7, <1>8, <1>9, <1>10, <1>11, <1>12, <1>13 DEF Node, Inum

LEMMA RemoveStep ==
    ASSUME NInv, NEW p \in Procs, Remove(p)
    PROVE  NInv'
<1> DEFINE s == ip[p]
           d == dp[p]
           T == Load(icache, s)
           dir == T[s].type = "dir"
<1>i. PICK i, di, n : i = Inum(s) /\ di = Inum(d) /\ n = Last(p)
  OBVIOUS
<1>n. PICK down : down = dinode[di].nlink - (IF dir THEN 1 ELSE 0)
  OBVIOUS
<1>0. Up /\ pc[p] = "remove" /\ lock[s] = None /\ UNCHANGED <<op, path, to, cur, file, cwd>>
  BY DEF Remove
<1>1. /\ VarInv /\ ProcInv(p) /\ LocalAt(p) /\ p /= None /\ Good(icache, dinode)
      /\ \A u \in Slots : Keeps(p, u) <=> lock[u] = p
  BY <1>0, Here
<1>2. /\ At(p) = "remove" /\ put[p] = 0 /\ cur[p] = 0 /\ op[p] = "unlink"
      /\ s \in Uses(p) /\ d \in Uses(p) /\ s \in Slots /\ d \in Slots /\ s /= d /\ d /= 0 /\ s /= 0
      /\ i \in Inums /\ di \in Inums /\ i /= di
      /\ icache[s].ref > 0 /\ icache[d].ref > 0
      /\ n \in Names /\ dinode[di].ent[n] = i
      /\ dinode[i].type /= "free" /\ dinode[i].nlink > 0
      /\ dinode[di].type = "dir"
      /\ lock[d] = p /\ icache[d].valid /\ T[d] = icache[d]
      /\ icache[d].type = dinode[di].type /\ icache[d].nlink = dinode[di].nlink
      /\ Same(T) /\ T \in Cache /\ T[s].valid /\ T[s].inum = i /\ T[s].ref = icache[s].ref
      /\ T[s].type = dinode[i].type /\ T[s].nlink = dinode[i].nlink /\ ~Typeless(s)
  BY <1>0, <1>i, InRemove
<1>3. \A t \in Slots : lock[t] = p <=> t = d
  BY <1>0, <1>1, <1>2 DEF Keeps
<1>4. dinode[i].nlink \in Nat /\ dinode[di].nlink \in Nat /\ dinode \in Disk /\ icache \in Cache
  BY <1>1, <1>2 DEF VarInv, Disk
<1>5. ~(T[s].nlink < 1) /\ T[d].inum = di
  BY <1>2, <1>4, <1>i DEF Inum
<1> HIDE DEF T
<1>6. CASE /\ icache' = T /\ ip' = [ip EXCEPT ![p] = 0]
           /\ CallIput(p, s, "letgo") /\ UNCHANGED <<dinode, lock, dp>>
  <2>1. /\ pc'[p] = "iput" /\ ret'[p] = "letgo" /\ ip'[p] = 0 /\ put'[p] = s
        /\ VarInv' /\ Others(p) /\ LockFrame(p)
    BY <1>0, <1>1, <1>2, <1>6 DEF VarInv, PCs, Others, LockFrame, CallIput, Goto
  <2>2. At(p)' = "letgo"
    BY <2>1 DEF At, Putting
  <2>3. LocalAt(p)'
    BY <1>0, <1>1, <1>2, <1>6, <2>1, <2>2 DEF LocalAt, Putting, HasDir, HasInode
  <2>4. \A t \in Slots : Keeps(p, t)' <=> lock'[t] = p
    BY <1>3, <1>6, <2>1, <2>2 DEF Keeps
  <2>6. Calm(p)
    BY <1>0, <1>2, <1>6, <2>1, <2>2, <2>3, <2>4 DEF Calm, Linking, Claim
  <2>7. Uses(p)' \subseteq Uses(p) /\ \A t \in Slots : Mine(p, t)' = Mine(p, t)
    BY <1>0, <1>2, <1>6, <2>1, Sets DEF Uses, Mine, One
  <2>8. Same(icache')
    BY <1>2, <1>6
  <2> QED BY <1>0, <2>1, <2>6, <2>7, <2>8, CalmSame
<1>7. CASE /\ icache' = SetLinks(T, d, T[d].nlink - (IF dir THEN 1 ELSE 0))
           /\ dinode' = [dinode EXCEPT ![T[d].inum].ent[Last(p)] = 0,
                                       ![T[d].inum].nlink = T[d].nlink - (IF dir THEN 1 ELSE 0)]
           /\ lock' = [lock EXCEPT ![s] = p, ![d] = None] /\ dp' = [dp EXCEPT ![p] = 0]
           /\ CallIput(p, d, "removed") /\ UNCHANGED ip
  <2>1. icache' = SetLinks(T, d, down) /\ dinode' = WithLinks(WithEntry(dinode, di, n, 0), di, down)
    BY <1>2, <1>5, <1>7, <1>i, <1>n DEF WithLinks, WithEntry
  <2>2. dir => n \in Subdirs(di)
    BY <1>2, Sets, ZenonT(120) DEF Subdirs
  <2>3. down \in Nat
    <3>1. VarInv /\ CountInv
      BY DEF NInv
    <3>2. dir => dinode[di].nlink > 0
      BY <1>2, <2>2, <3>1, Linked
    <3> QED BY <1>4, <1>n, <3>2
  <2> DEFINE D == WithEntry(dinode, di, n, 0)
  <2>4. /\ D \in Disk /\ D[di].nlink = dinode[di].nlink /\ D[di].type = dinode[di].type /\ D[di].ent[n] = 0
        /\ \A m \in Names : m /= n => D[di].ent[m] = dinode[di].ent[m]
        /\ \A j \in Inums : j /= di => D[j] = dinode[j]
    <3>1. dinode \in Disk /\ di \in Inums /\ n \in Names /\ 0 \in 0..NInums
      BY <1>2, <1>4, Sets
    <3> QED BY ONLY <3>1, SetEnt
  <2> HIDE DEF D
  <2>5. /\ dinode' \in Disk /\ dinode'[di].nlink = down /\ dinode'[di].type = D[di].type
        /\ dinode'[di].ent = D[di].ent /\ \A j \in Inums : j /= di => dinode'[j] = D[j]
    <3>1. D \in Disk /\ di \in Inums /\ down \in Nat /\ dinode' = WithLinks(D, di, down)
      BY <1>2, <2>1, <2>3, <2>4 DEF D
    <3> QED BY ONLY <3>1, SetNlink
  <2>6. /\ dinode'[di].ent[n] = 0 /\ \A j \in Inums : dinode'[j].type = dinode[j].type
        /\ \A j \in Inums, m \in Names : j /= di \/ m /= n => dinode'[j].ent[m] = dinode[j].ent[m]
        /\ \A j \in Inums : j /= di => dinode'[j] = dinode[j]
    BY <2>4, <2>5
  <2>7. /\ icache' \in Cache /\ icache'[d].nlink = down /\ icache'[d].type = T[d].type
        /\ icache'[d].inum = T[d].inum /\ icache'[d].ref = T[d].ref /\ icache'[d].valid = T[d].valid
        /\ \A t \in Slots : t /= d => icache'[t] = T[t]
    <3>1. T \in Cache /\ d \in Slots /\ down \in Nat /\ icache' = SetLinks(T, d, down)
      BY <1>2, <2>1, <2>3
    <3> QED BY ONLY <3>1, SetLinksFacts
  <2> HIDE DEF s, d
  <2>8. /\ pc'[p] = "iput" /\ ret'[p] = "removed" /\ put'[p] = d /\ dp'[p] = 0 /\ ip'[p] = s
        /\ VarInv' /\ Others(p)
    <3>1. lock' \in [Slots -> Procs \cup {None}] /\ s = ip[p]
      BY <1>1, <1>2, <1>7 DEF VarInv, s
    <3> QED BY <1>0, <1>1, <1>2, <1>7, <2>5, <2>7, <3>1, ZenonT(120) DEF VarInv, PCs, Others, CallIput, Goto
  <2>9. /\ LockFrame(p) /\ \A t \in Slots : lock'[t] = p <=> t = s
    BY <1>0, <1>1, <1>2, <1>3, <1>7 DEF LockFrame, VarInv
  <2>10. At(p)' = "removed"
    BY <2>8 DEF At, Putting
  <2>11. LocalAt(p)'
    BY <1>0, <1>1, <1>2, <2>8, <2>10 DEF LocalAt, Putting, HasDir, HasInode
  <2>12. ~Linking(p)' /\ TruncAt(p)' /\ ChildAt(p)' /\ NewAt(p)' /\ \A t \in Slots : Keeps(p, t)' <=> t = s
    BY <2>8, <2>10 DEF Linking, TruncAt, ChildAt, NewAt, Keeps
  <2>13. icache'[s].valid /\ icache'[s].ref > 0 /\ icache'[s].inum = i
    BY <1>2, <2>7
  <2>14. Fits(p)
    BY <2>8, <2>9, <2>11, <2>12, <2>13 DEF Fits
  <2>15. /\ \A t \in Slots : icache'[t].ref = T[t].ref /\ icache'[t].inum = T[t].inum /\ icache'[t].valid = T[t].valid
         /\ \A t \in Slots : /\ T[t].ref = icache[t].ref /\ T[t].inum = icache[t].inum
                             /\ icache[t].valid => T[t].valid
         /\ Good(T, dinode)
    BY <1>2, <2>7 DEF Same
  <2>16. Got(p, 0)
    <3>1. Uses(p)' \subseteq Uses(p) /\ \A t \in Slots : Mine(p, t)' = Mine(p, t)
      BY <1>0, <1>2, <2>8, Sets DEF Uses, Mine, One, s, d
    <3>2. \A t \in Slots : Mine(p, t) \in Nat /\ icache[t].ref \in Nat /\ One(t = 0) = 0
      BY <1>1, Sets DEF Mine, One, VarInv, Cache
    <3> QED BY <2>15, <3>1, <3>2, Sets DEF Got
  <2>17. Written(p)
    BY <1>2, <1>i, <2>6 DEF Written, s, d
  <2>18. Good(icache', dinode')
    <3>1. ASSUME NEW t \in Slots, icache'[t].ref > 0, icache'[t].valid
          PROVE  /\ icache'[t].type = dinode'[icache'[t].inum].type /\ icache'[t].type /= "free"
                 /\ icache'[t].nlink = dinode'[icache'[t].inum].nlink
      <4>1. CASE t = d
        BY <4>1, <1>2, <1>5, <2>5, <2>6, <2>7
      <4>2. CASE t /= d
        <5>1. T[t] = icache'[t] /\ T[t].inum /= di /\ T[t].inum \in Inums
          BY <4>2, <3>1, <1>2, <1>5, <2>7, <2>15 DEF Good
        <5>2. T[t].type = dinode[T[t].inum].type /\ T[t].type /= "free" /\ T[t].nlink = dinode[T[t].inum].nlink
          BY <5>1, <3>1, <2>15 DEF Good
        <5> QED BY <5>1, <5>2, <2>6
      <4> QED BY <4>1, <4>2
    <3> QED BY <2>15, <3>1, GoodWrite
  <2>19. TreeInv'
    <3>0. TreeInv
      BY DEF NInv
    <3>1. \A j \in Inums : dinode'[j].type /= "dir" => dinode'[j].ent = NoEntries
      BY <3>0, <1>2, <2>6 DEF TreeInv
    <3>2. ASSUME NEW j \in Inums, NEW k \in Inums, NEW m \in Names, NEW l \in Names,
                 dinode'[j].ent[m] = k, dinode'[k].ent[l] = j
          PROVE  FALSE
      <4>1. ~(j = di /\ m = n) /\ ~(k = di /\ l = n)
        BY <3>2, <2>6, Sets
      <4>2. dinode[j].ent[m] = k /\ dinode[k].ent[l] = j
        BY <4>1, <3>2, <2>6
      <4> QED BY <4>2, <3>0 DEF TreeInv
    <3> QED BY <3>1, <3>2 DEF TreeInv
  <2>20. CountInv'
    <3>1. \A j \in Inums : dinode[j].type = "free" => dinode'[j] = dinode[j]
      BY <1>2, <2>6
    <3>2. n \notin Subdirs(di)'
      BY <2>6 DEF Subdirs
    <3>3. \A j \in Inums : Claiming(p, j)' <=> j = i
      BY <2>8, <2>10, <2>13 DEF Claiming, Claim, Inum
    <3>4. ASSUME NEW j \in Inums
          PROVE  dinode'[j].nlink >= dinode[j].nlink
                  - One(Claiming(p, j)) - One(dinode[di].ent[n] = j) - One(j = di /\ n \in Subdirs(di))
                  + One(Claiming(p, j)') + One(dinode'[di].ent[n] = j) + One(j = di /\ n \in Subdirs(di)')
      <4>1. One(Claiming(p, j)) \in {0, 1} /\ One(j = di /\ n \in Subdirs(di)) \in {0, 1}
        BY DEF One
      <4>2. One(dinode'[di].ent[n] = j) = 0 /\ One(j = di /\ n \in Subdirs(di)') = 0
        BY <2>6, <3>2, Sets DEF One
      <4>3. One(Claiming(p, j)') = One(dinode[di].ent[n] = j) /\ One(dinode[di].ent[n] = j) \in {0, 1}
        BY <1>2, <3>3 DEF One
      <4>4. dinode[j].nlink \in Nat /\ dinode'[j].nlink >= dinode[j].nlink - One(j = di /\ n \in Subdirs(di))
        <5>1. dinode[j].nlink \in Nat
          BY <1>4 DEF Disk
        <5>2. CASE j = di
          BY <5>1, <5>2, <1>n, <2>2, <2>5 DEF One
        <5>3. CASE j /= di
          BY <5>1, <5>3, <2>6 DEF One
        <5> QED BY <5>1, <5>2, <5>3
      <4>5. dinode'[j].nlink \in Nat
        BY <2>5 DEF Disk
      <4> QED BY <4>1, <4>2, <4>3, <4>4, <4>5
    <3>5. Moved(p, di, n)
      BY <2>6, <3>1, <3>4 DEF Moved
    <3>6. CountInv /\ ClaimsKept(p)
      BY <1>0, <2>16, GotClaims DEF NInv
    <3> QED BY <1>2, <1>4, <2>5, <2>8, <3>5, <3>6, CountMove
  <2> QED BY <1>0, <2>8, <2>14, <2>16, <2>17, <2>18, <2>19, <2>20, WriteStep
<1> QED BY <1>2, <1>5, <1>6, <1>7 DEF Remove, T
\* The directory that create holds and the inode it has just allocated.
LEMMA InNew ==
    ASSUME NInv, Up, NEW p \in Procs, pc[p] = "new", lock[ip[p]] = None
    PROVE  LET s == ip[p]
               d == dp[p]
               T == Load(icache, s)
           IN /\ At(p) = "new" /\ put[p] = 0 /\ cur[p] = 0 /\ op[p] \in {"creat", "mkdir"}
              /\ s \in Uses(p) /\ d \in Uses(p) /\ s \in Slots /\ d \in Slots /\ s /= d /\ d /= 0 /\ s /= 0
              /\ Inum(s) \in Inums /\ Inum(d) \in Inums /\ Inum(s) /= Inum(d)
              /\ icache[s].ref > 0 /\ icache[d].ref > 0 /\ Last(p) \in Names
              /\ dinode[Inum(s)].type /= "free" /\ dinode[Inum(s)].nlink = 0
              /\ dinode[Inum(s)].ent = NoEntries
              /\ dinode[Inum(s)].type = "dir" => op[p] = "mkdir"
              /\ dinode[Inum(d)].type = "dir"
              /\ lock[d] = p /\ icache[d].valid /\ T[d] = icache[d]
              /\ icache[d].type = dinode[Inum(d)].type /\ icache[d].nlink = dinode[Inum(d)].nlink
              /\ Same(T) /\ T \in Cache /\ T[s].valid /\ T[s].inum = Inum(s) /\ T[s].ref = icache[s].ref
              /\ T[s].type = dinode[Inum(s)].type /\ T[s].nlink = dinode[Inum(s)].nlink
<1> DEFINE s == ip[p]
           d == dp[p]
           T == Load(icache, s)
<1>1. /\ VarInv /\ ProcInv(p) /\ LocalAt(p) /\ p /= None /\ Good(icache, dinode)
      /\ \A u \in Slots : Keeps(p, u) <=> lock[u] = p
  BY Here
<1>2. At(p) = "new"
  BY DEF At, Putting
<1>3. put[p] = 0 /\ cur[p] = 0 /\ s /= 0 /\ op[p] \in {"creat", "mkdir"} /\ s \in Uses(p)
  BY <1>1, <1>2 DEF LocalAt, Putting, HasDir, HasInode, Uses
<1>4. /\ d /= 0 /\ d \in Uses(p) /\ d \in Slots /\ Last(p) \in Names /\ Node(d).type = "dir"
      /\ icache[d].inum \in Inums
  BY <1>2, <1>3, InDir DEF HasDir
<1>5. lock[d] = p
  BY <1>1, <1>2, <1>4 DEF Keeps
<1>6. /\ s /= d /\ Node(s).nlink = 0 /\ Node(s).ent = NoEntries
      /\ Node(s).type = "dir" => op[p] = "mkdir"
  BY <1>1, <1>2 DEF ProcInv, NewAt
<1>7. /\ s \in Slots /\ icache[s].ref > 0 /\ Inum(s) \in Inums /\ Node(s).type /= "free"
      /\ Same(T) /\ T[s].valid /\ T \in Cache /\ T[s].inum = icache[s].inum
      /\ T[s].type = Node(s).type /\ T[s].nlink = Node(s).nlink
      /\ \A t \in Slots : t /= s => T[t] = icache[t]
  BY <1>3, Lookup
<1>8. icache[d].valid /\ icache[d].ref > 0
  BY <1>1, <1>4, <1>5, Locked
<1>9. Inum(s) /= Inum(d)
  BY <1>4, <1>6, <1>7, <1>8, OneEntry
<1>12. icache[d].type = Node(d).type /\ icache[d].nlink = Node(d).nlink
  BY <1>1, <1>4, <1>8 DEF Good, Node
<1>13. T[s].ref = icache[s].ref
  BY <1>7 DEF Same
<1> QED BY <1>2, <1>3, <1>4, <1>5, <1>6, <1>7, <1>8, <1>9, <1>12, <1>13 DEF Node, Inum

LEMMA CreateNewStep ==
    ASSUME NInv, NEW p \in Procs, CreateNew(p)
    PROVE  NInv'
<1> DEFINE s == ip[p]
           d == dp[p]
           T == Load(icache, s)
<1>i. PICK i, di, n : i = Inum(s) /\ di = Inum(d) /\ n = Last(p)
  OBVIOUS
<1>n. PICK up : up = dinode[di].nlink + (IF op[p] = "mkdir" THEN 1 ELSE 0)
  OBVIOUS
<1>0. Up /\ pc[p] = "new" /\ lock[s] = None /\ UNCHANGED <<op, path, to, cur, ip, file, cwd>>
  BY DEF CreateNew
<1>1. /\ VarInv /\ ProcInv(p) /\ LocalAt(p) /\ p /= None /\ Good(icache, dinode)
      /\ \A u \in Slots : Keeps(p, u) <=> lock[u] = p
  BY <1>0, Here
<1>2. /\ At(p) = "new" /\ put[p] = 0 /\ cur[p] = 0 /\ op[p] \in {"creat", "mkdir"}
      /\ s \in Uses(p) /\ d \in Uses(p) /\ s \in Slots /\ d \in Slots /\ s /= d /\ d /= 0 /\ s /= 0
      /\ i \in Inums /\ di \in Inums /\ i /= di
      /\ icache[s].ref > 0 /\ icache[d].ref > 0 /\ n \in Names
      /\ dinode[i].type /= "free" /\ dinode[i].nlink = 0 /\ dinode[i].ent = NoEntries
      /\ dinode[i].type = "dir" => op[p] = "mkdir"
      /\ dinode[di].type = "dir"
      /\ lock[d] = p /\ icache[d].valid /\ T[d] = icache[d]
      /\ icache[d].type = dinode[di].type /\ icache[d].nlink = dinode[di].nlink
      /\ Same(T) /\ T \in Cache /\ T[s].valid /\ T[s].inum = i /\ T[s].ref = icache[s].ref
      /\ T[s].type = dinode[i].type /\ T[s].nlink = dinode[i].nlink
  BY <1>0, <1>i, InNew
<1>3. \A t \in Slots : lock[t] = p <=> t = d
  BY <1>0, <1>1, <1>2 DEF Keeps
<1>4. dinode[di].nlink \in Nat /\ dinode \in Disk /\ icache \in Cache
  BY <1>1, <1>2 DEF VarInv, Disk
<1>5. T[d].inum = di
  BY <1>2, <1>i DEF Inum
<1>6. up \in Nat
  BY <1>4, <1>n
<1>7. /\ icache' = SetLinks(SetLinks(T, s, 1), d, up)
      /\ dinode' = WithEntry(WithLinks(WithLinks(dinode, i, 1), di, up), di, n, i)
      /\ lock' = [lock EXCEPT ![s] = p, ![d] = None] /\ dp' = [dp EXCEPT ![p] = 0]
      /\ CallIput(p, d, "created")
  BY <1>2, <1>5, <1>i, <1>n DEF CreateNew, WithLinks, WithEntry
<1> HIDE DEF T
<1> DEFINE D1 == WithLinks(dinode, i, 1)
           D2 == WithLinks(D1, di, up)
<1>8. /\ D1 \in Disk /\ D1[i].nlink = 1 /\ D1[i].type = dinode[i].type /\ D1[i].ent = dinode[i].ent
      /\ \A j \in Inums : j /= i => D1[j] = dinode[j]
  <2>1. dinode \in Disk /\ i \in Inums /\ 1 \in Nat
    BY <1>2, <1>4
  <2> QED BY ONLY <2>1, SetNlink
<1> HIDE DEF D1
<1>9. /\ D2 \in Disk /\ D2[di].nlink = up /\ D2[di].type = D1[di].type /\ D2[di].ent = D1[di].ent
      /\ \A j \in Inums : j /= di => D2[j] = D1[j]
  <2>1. D1 \in Disk /\ di \in Inums /\ up \in Nat
    BY <1>2, <1>6, <1>8
  <2> QED BY ONLY <2>1, SetNlink
<1> HIDE DEF D2
<1>10. /\ dinode' \in Disk /\ dinode'[di].nlink = D2[di].nlink /\ dinode'[di].type = D2[di].type
       /\ dinode'[di].ent[n] = i
       /\ \A m \in Names : m /= n => dinode'[di].ent[m] = D2[di].ent[m]
       /\ \A j \in Inums : j /= di => dinode'[j] = D2[j]
  <2>1. /\ D2 \in Disk /\ di \in Inums /\ n \in Names /\ i \in 0..NInums
        /\ dinode' = WithEntry(D2, di, n, i)
    BY <1>2, <1>7, <1>9, Sets DEF D2, D1
  <2> QED BY ONLY <2>1, SetEnt
<1>11. /\ dinode'[di].ent[n] = i /\ dinode'[i].nlink = 1 /\ dinode'[di].nlink = up
       /\ dinode'[i].ent = NoEntries
       /\ \A j \in Inums : dinode'[j].type = dinode[j].type
       /\ \A j \in Inums, m \in Names : j /= di \/ m /= n => dinode'[j].ent[m] = dinode[j].ent[m]
       /\ \A j \in Inums : j /= di /\ j /= i => dinode'[j] = dinode[j]
  BY <1>2, <1>8, <1>9, <1>10
<1> DEFINE T1 == SetLinks(T, s, 1)
<1>12. /\ T1 \in Cache /\ T1[s].nlink = 1 /\ T1[s].type = T[s].type
       /\ T1[s].inum = T[s].inum /\ T1[s].ref = T[s].ref /\ T1[s].valid = T[s].valid
       /\ \A t \in Slots : t /= s => T1[t] = T[t]
  <2>1. T \in Cache /\ s \in Slots /\ 1 \in Nat
    BY <1>2
  <2> QED BY ONLY <2>1, SetLinksFacts
<1> HIDE DEF T1
<1>13. /\ icache' \in Cache /\ icache'[d].nlink = up /\ icache'[d].type = T1[d].type
       /\ icache'[d].inum = T1[d].inum /\ icache'[d].ref = T1[d].ref /\ icache'[d].valid = T1[d].valid
       /\ \A t \in Slots : t /= d => icache'[t] = T1[t]
  <2>1. T1 \in Cache /\ d \in Slots /\ up \in Nat /\ icache' = SetLinks(T1, d, up)
    BY <1>2, <1>6, <1>7, <1>12 DEF T1
  <2> QED BY ONLY <2>1, SetLinksFacts
<1> HIDE DEF s, d
<1>14. /\ pc'[p] = "iput" /\ ret'[p] = "created" /\ put'[p] = d /\ dp'[p] = 0 /\ ip'[p] = s
       /\ VarInv' /\ Others(p)
  <2>1. lock' \in [Slots -> Procs \cup {None}] /\ s = ip[p]
    BY <1>1, <1>2, <1>7 DEF VarInv, s
  <2> QED BY <1>0, <1>1, <1>2, <1>7, <1>10, <1>13, <2>1, ZenonT(120) DEF VarInv, PCs, Others, CallIput, Goto
<1>15. /\ LockFrame(p) /\ \A t \in Slots : lock'[t] = p <=> t = s
  BY <1>0, <1>1, <1>2, <1>3, <1>7 DEF LockFrame, VarInv
<1>16. At(p)' = "created"
  BY <1>14 DEF At, Putting
<1>17. LocalAt(p)'
  BY <1>0, <1>1, <1>2, <1>14, <1>16 DEF LocalAt, Putting, HasDir, HasInode
<1>18. /\ ~Linking(p)' /\ ~Claim(p)' /\ TruncAt(p)' /\ ChildAt(p)' /\ NewAt(p)'
       /\ \A t \in Slots : Keeps(p, t)' <=> t = s
  BY <1>14, <1>16 DEF Linking, Claim, TruncAt, ChildAt, NewAt, Keeps
<1>19. icache'[s].valid /\ icache'[s].ref > 0 /\ icache'[s].inum = i
  BY <1>2, <1>12, <1>13, ZenonT(120)
<1>20. Fits(p)
  BY <1>14, <1>15, <1>17, <1>18, <1>19 DEF Fits
<1>21. /\ \A t \in Slots : icache'[t].ref = T[t].ref /\ icache'[t].inum = T[t].inum /\ icache'[t].valid = T[t].valid
       /\ \A t \in Slots : t /= s /\ t /= d => icache'[t] = T[t]
       /\ \A t \in Slots : /\ T[t].ref = icache[t].ref /\ T[t].inum = icache[t].inum
                           /\ icache[t].valid => T[t].valid
       /\ Good(T, dinode)
  <2>1. \A t \in Slots : T1[t].ref = T[t].ref /\ T1[t].inum = T[t].inum /\ T1[t].valid = T[t].valid
    BY <1>12
  <2>2. \A t \in Slots : /\ icache'[t].ref = T1[t].ref /\ icache'[t].inum = T1[t].inum
                         /\ icache'[t].valid = T1[t].valid
    BY <1>13
  <2>3. \A t \in Slots : t /= s /\ t /= d => icache'[t] = T[t]
    BY <1>12, <1>13
  <2>4. /\ \A t \in Slots : /\ T[t].ref = icache[t].ref /\ T[t].inum = icache[t].inum
                            /\ icache[t].valid => T[t].valid
        /\ Good(T, dinode)
    BY <1>2 DEF Same
  <2> QED BY <2>1, <2>2, <2>3, <2>4
<1>22. Got(p, 0)
  <2>1. Uses(p)' \subseteq Uses(p) /\ \A t \in Slots : Mine(p, t)' = Mine(p, t)
    BY <1>0, <1>2, <1>14, Sets DEF Uses, Mine, One, s, d
  <2>2. \A t \in Slots : Mine(p, t) \in Nat /\ icache[t].ref \in Nat /\ One(t = 0) = 0
    BY <1>1, Sets DEF Mine, One, VarInv, Cache
  <2> QED BY <1>21, <2>1, <2>2, Sets DEF Got
<1>23. Written(p)
  BY <1>0, <1>2, <1>i, <1>11 DEF Written, s, d
<1>24. Good(icache', dinode')
  <2>1. ASSUME NEW t \in Slots, icache'[t].ref > 0, icache'[t].valid
        PROVE  /\ icache'[t].type = dinode'[icache'[t].inum].type /\ icache'[t].type /= "free"
               /\ icache'[t].nlink = dinode'[icache'[t].inum].nlink
    <3>1. CASE t = d
      BY <3>1, <1>2, <1>5, <1>11, <1>12, <1>13
    <3>2. CASE t = s
      BY <3>2, <1>2, <1>11, <1>12, <1>13
    <3>3. CASE t /= d /\ t /= s
      <4>1. T[t] = icache'[t] /\ T[t].inum /= di /\ T[t].inum /= i /\ T[t].inum \in Inums
        BY <3>3, <2>1, <1>2, <1>5, <1>21 DEF Good
      <4>2. T[t].type = dinode[T[t].inum].type /\ T[t].type /= "free" /\ T[t].nlink = dinode[T[t].inum].nlink
        BY <4>1, <2>1, <1>21 DEF Good
      <4> QED BY <4>1, <4>2, <1>11
    <3> QED BY <3>1, <3>2, <3>3
  <2> QED BY <1>21, <2>1, GoodWrite
<1>25. TreeInv'
  <2>0. TreeInv
    BY DEF NInv
  <2>1. \A j \in Inums : dinode'[j].type /= "dir" => dinode'[j].ent = NoEntries
    BY <2>0, <1>2, <1>11 DEF TreeInv
  <2>2. ASSUME NEW j \in Inums, NEW k \in Inums, NEW m \in Names, NEW l \in Names,
               dinode'[j].ent[m] = k, dinode'[k].ent[l] = j
        PROVE  FALSE
    <3>1. j /= i /\ k /= i
      BY <2>2, <1>11, Sets
    <3>2. dinode[j].ent[m] = k /\ dinode[k].ent[l] = j
      BY <3>1, <2>2, <1>11
    <3> QED BY <3>2, <2>0 DEF TreeInv
  <2> QED BY <2>1, <2>2 DEF TreeInv
<1>26. CountInv'
  <2>1. \A j \in Inums : dinode[j].type = "free" => dinode'[j] = dinode[j]
    BY <1>2, <1>11
  <2>2. n \in Subdirs(di)' => op[p] = "mkdir"
    BY <1>2, <1>11 DEF Subdirs
  <2>3. \A j \in Inums : ~Claiming(p, j)'
    BY <1>18 DEF Claiming
  <2>4. ASSUME NEW j \in Inums
        PROVE  dinode'[j].nlink >= dinode[j].nlink
                - One(Claiming(p, j)) - One(dinode[di].ent[n] = j) - One(j = di /\ n \in Subdirs(di))
                + One(Claiming(p, j)') + One(dinode'[di].ent[n] = j) + One(j = di /\ n \in Subdirs(di)')
    <3>1. /\ One(Claiming(p, j)) \in {0, 1} /\ One(j = di /\ n \in Subdirs(di)) \in {0, 1}
          /\ One(dinode[di].ent[n] = j) \in {0, 1} /\ One(Claiming(p, j)') = 0
      BY <2>3 DEF One
    <3>2. /\ One(dinode'[di].ent[n] = j) = One(j = i) /\ One(j = i) \in {0, 1}
          /\ One(j = di /\ n \in Subdirs(di)') \in {0, 1}
      BY <1>11 DEF One
    <3>4. /\ dinode[j].nlink \in Nat
          /\ dinode'[j].nlink >= dinode[j].nlink + One(j = i) + One(j = di /\ n \in Subdirs(di)')
      <4>1. dinode[j].nlink \in Nat
        BY <1>4 DEF Disk
      <4>2. CASE j = di
        BY <4>1, <4>2, <1>2, <1>n, <1>11, <2>2 DEF One
      <4>3. CASE j = i
        BY <4>1, <4>3, <1>2, <1>11 DEF One
      <4>4. CASE j /= di /\ j /= i
        BY <4>1, <4>4, <1>11 DEF One
      <4> QED BY <4>1, <4>2, <4>3, <4>4
    <3>5. dinode'[j].nlink \in Nat
      BY <1>10 DEF Disk
    <3> QED BY <3>1, <3>2, <3>4, <3>5
  <2>5. Moved(p, di, n)
    BY <1>11, <2>1, <2>4 DEF Moved
  <2>6. CountInv /\ ClaimsKept(p)
    BY <1>0, <1>22, GotClaims DEF NInv
  <2> QED BY <1>2, <1>4, <1>10, <1>14, <2>5, <2>6, CountMove
<1> QED BY <1>0, <1>14, <1>20, <1>22, <1>23, <1>24, <1>25, <1>26, WriteStep

LEMMA CreateStep ==
    ASSUME NInv, NEW p \in Procs, Create(p)
    PROVE  NInv'
<1> DEFINE d == dp[p]
           T == Load(icache, d)
           found == dinode[T[d].inum].ent[Last(p)]
           free == {j \in Inums : dinode[j].type = "free"}
           kind == IF op[p] = "mkdir" THEN "dir" ELSE "file"
           node == [FreeInode EXCEPT !.type = kind]
<1>i. PICK i : i = IF found /= 0 THEN found ELSE Min(free)
  OBVIOUS
<1>g. PICK g : g = SlotOf(T, i)
  OBVIOUS
<1>0. /\ Up /\ pc[p] = "create" /\ lock[d] = None /\ UNCHANGED <<op, path, to, cur, file, cwd>>
  BY DEF Create
<1>1. /\ VarInv /\ ProcInv(p) /\ LocalAt(p) /\ p /= None
      /\ \A u \in Slots : Keeps(p, u) <=> lock[u] = p
  BY <1>0, Here
<1>2. At(p) = "create"
  BY <1>0 DEF At, Putting
<1>3. put[p] = 0 /\ cur[p] = 0 /\ ip[p] = 0 /\ op[p] \in {"creat", "mkdir"} /\ path[p] /= <<>>
  BY <1>0, <1>1, <1>2 DEF LocalAt, Putting, HasDir, HasInode
<1>4. /\ d /= 0 /\ d \in Uses(p) /\ d \in Slots /\ Last(p) \in Names
      /\ Same(T) /\ T \in Cache /\ T[d].valid /\ T[d].ref > 0 /\ T[d].inum = icache[d].inum
      /\ icache[d].inum \in Inums
  BY <1>0, <1>2, <1>3, InDir DEF HasDir
<1>5. \A t \in Slots : lock[t] /= p
  BY <1>0, <1>1, <1>2 DEF Keeps
<1> HIDE DEF T
<1>7. CASE Goto(p, "panic") /\ UNCHANGED <<dinode, icache, lock, ip, dp, put, ret>>
  BY <1>0, <1>7, PanicStep DEF Goto
<1>8. CASE /\ found /= 0 /\ CanGet(T, i) /\ icache' = iget(T, i) /\ ip' = [ip EXCEPT ![p] = g]
           /\ CallIput(p, d, "exists") /\ dp' = [dp EXCEPT ![p] = 0]
           /\ UNCHANGED <<dinode, lock>>
  <2>1. i \in Inums /\ dinode[i].nlink > 0
    BY <1>4, <1>8, <1>i, Found
  <2> HIDE DEF found
  <2>2. /\ g \in Slots /\ icache' \in Cache
    BY <1>4, <1>8, <1>g, <2>1, Gotten
  <2>3. /\ pc'[p] = "iput" /\ ret'[p] = "exists" /\ ip'[p] = g /\ put'[p] = d /\ dp'[p] = 0
        /\ VarInv' /\ Others(p) /\ LockFrame(p)
    BY <1>0, <1>1, <1>3, <1>4, <1>8, <2>2 DEF VarInv, PCs, Others, LockFrame, CallIput, Goto
  <2>4. At(p)' = "exists"
    BY <2>3 DEF At, Putting
  <2>5. LocalAt(p)'
    BY <1>0, <1>1, <1>3, <1>4, <1>8, <2>2, <2>3, <2>4, Sets DEF LocalAt, Putting, HasDir, HasInode
  <2>6. \A t \in Slots : ~Keeps(p, t)'
    BY <2>3, <2>4 DEF Keeps
  <2>8. Calm(p)
    BY <1>0, <1>3, <1>5, <1>8, <2>3, <2>4, <2>5, <2>6 DEF Calm, Linking, Claim
  <2>9. Uses(p)' \subseteq Uses(p) \cup {g} /\ \A t \in Slots : Mine(p, t)' = Mine(p, t) + One(t = g)
    BY <1>0, <1>3, <1>4, <1>8, <2>2, <2>3, Sets DEF Uses, Mine, One
  <2> QED BY <1>0, <1>4, <1>8, <1>g, <2>1, <2>3, <2>8, <2>9, CalmGet
<1>9. CASE /\ found = 0 /\ free /= {} /\ CanGet(T, i) /\ icache' = iget(T, i) /\ ip' = [ip EXCEPT ![p] = g]
           /\ dinode' = [dinode EXCEPT ![i] = node] /\ lock' = [lock EXCEPT ![d] = p]
           /\ Goto(p, "new") /\ UNCHANGED <<dp, put, ret>>
  <2>0. VarInv /\ CountInv /\ TreeInv /\ dinode \in Disk
    BY DEF NInv, VarInv
  <2>1. i \in Inums /\ dinode[i].type = "free"
    <3>1. free \subseteq Nat
      BY Sets
    <3>2. i \in free
      BY <1>9, <1>i, <3>1, MinIn
    <3> QED BY <3>2
  <2>2. /\ dinode[i] = FreeInode /\ dinode[i].nlink = 0 /\ dinode[i].ent = NoEntries
        /\ \A j \in Inums, n \in Names : dinode[j].ent[n] /= i
    <3>1. dinode[i] = FreeInode /\ ~(dinode[i].nlink > 0)
          /\ \A j \in Inums, n \in Names : dinode[j].ent[n] = i => dinode[i].nlink > 0
      BY <2>0, <2>1, Linked
    <3> QED BY <3>1, Sets
  <2>3. /\ node \in [type : Kinds, nlink : Nat, ent : [Names -> 0..NInums]]
        /\ node.type = kind /\ node.nlink = 0 /\ node.ent = NoEntries /\ node.type \in {"dir", "file"}
    BY Sets DEF FreeInode, Kinds
  <2> HIDE DEF node, found, free
  <2>4. /\ dinode' \in Disk /\ dinode'[i] = node /\ \A j \in Inums : j /= i => dinode'[j] = dinode[j]
    BY <1>9, <2>0, <2>1, <2>3 DEF Disk
  <2> DEFINE G == iget(T, i)
  <2>5. /\ g \in Slots /\ icache' \in Cache /\ icache'[g].inum = i
        /\ icache'[d].inum = icache[d].inum /\ icache'[d].valid /\ icache'[d].ref > 0
    <3>1. /\ g \in Slots /\ icache' \in Cache /\ icache'[g].inum = i
          /\ \A t \in Slots : T[t].ref > 0 => /\ icache'[t].inum = T[t].inum /\ icache'[t].ref > 0
                                              /\ T[t].valid => icache'[t].valid
      BY <1>4, <1>9, <1>g, <2>1, Gotten
    <3> QED BY <1>4, <3>1
  <2>6. icache[g].ref > 0 => icache[g].inum = i
    <3>1. T[g].ref > 0 => T[g].inum = i
      BY <1>4, <1>9, <1>g, <2>1, GetFacts DEF Same
    <3> QED BY <1>4, <2>5, <3>1 DEF Same
  <2>7. \A q \in Procs : g \notin Uses(q)
    BY <2>1, <2>6, UseFacts DEF Node
  <2>8. /\ pc'[p] = "new" /\ ip'[p] = g /\ VarInv' /\ Others(p) /\ LockFrame(p)
        /\ \A t \in Slots : lock'[t] = IF t = d THEN p ELSE lock[t]
    BY <1>0, <1>1, <1>3, <1>4, <1>9, <2>4, <2>5 DEF VarInv, PCs, Others, LockFrame, Goto
  <2>9. At(p)' = "new"
    BY <2>8 DEF At, Putting
  <2>10. LocalAt(p)'
    BY <1>0, <1>1, <1>3, <1>4, <1>9, <2>5, <2>8, <2>9, Sets DEF LocalAt, Putting, HasDir, HasInode
  <2>11. \A t \in Slots : Keeps(p, t)' <=> lock'[t] = p
    BY <1>5, <1>9, <2>8, <2>9 DEF Keeps
  <2>12. NewAt(p)'
    <3>1. Node(ip[p])' = node
      BY <2>4, <2>5, <2>8 DEF Node
    <3>2. node.type = "dir" => op'[p] = "mkdir"
      BY <1>0, <2>3
    <3>3. g /= 0 /\ \A q \in Procs : g \notin {cur[q], ip[q], dp[q], file[q], cwd[q]}
      BY <2>5, <2>7, Sets DEF Uses
    <3>4. \A q \in Procs : g \notin {cur'[q], dp'[q], file'[q], cwd'[q]}
      BY <1>0, <1>9, <3>3
    <3>5. \A q \in Procs : ip'[q] = g => q = p
      BY <2>8, <3>3 DEF Others
    <3> QED BY <2>3, <2>8, <3>1, <3>2, <3>4, <3>5 DEF NewAt
  <2>13. TruncAt(p)' /\ ChildAt(p)' /\ ~Linking(p)' /\ ~Claim(p)'
    BY <2>8, <2>9 DEF TruncAt, ChildAt, Linking, Claim
  <2>14. Fits(p)
    BY <1>9, <2>5, <2>8, <2>10, <2>11, <2>12, <2>13 DEF Fits
  <2>15. Got(p, g) /\ Good(icache', dinode)
    <3>1. Uses(p)' \subseteq Uses(p) \cup {g} /\ \A t \in Slots : Mine(p, t)' = Mine(p, t) + One(t = g)
      BY <1>0, <1>3, <1>9, <2>5, <2>8, Sets DEF Uses, Mine, One
    <3> QED BY <1>4, <1>9, <1>g, <2>1, <3>1, GetGot
  <2>16. Written(p)
    BY <2>1, <2>4 DEF Written
  <2>17. Good(icache', dinode')
    <3>1. ASSUME NEW t \in Slots, icache'[t].ref > 0, icache'[t].valid
          PROVE  /\ icache'[t].type = dinode'[icache'[t].inum].type /\ icache'[t].type /= "free"
                 /\ icache'[t].nlink = dinode'[icache'[t].inum].nlink
      <4>1. /\ icache'[t].type = dinode[icache'[t].inum].type /\ icache'[t].type /= "free"
            /\ icache'[t].nlink = dinode[icache'[t].inum].nlink /\ icache'[t].inum \in Inums
        BY <2>15, <3>1 DEF Good
      <4> QED BY <2>1, <2>4, <4>1
    <3> QED BY <2>15, <3>1, GoodWrite
  <2>18. \A j \in Inums : dinode'[j].ent = dinode[j].ent /\ dinode'[j].nlink = dinode[j].nlink
    BY <2>2, <2>3, <2>4
  <2>19. TreeInv'
    <3>1. \A j \in Inums : dinode'[j].type /= "dir" => dinode'[j].ent = NoEntries
      BY <2>0, <2>2, <2>4, <2>18 DEF TreeInv
    <3> QED BY <2>0, <2>18, <3>1 DEF TreeInv
  <2>20. CountInv'
    <3>1. \A j \in Inums : EntriesFor(j)' \subseteq EntriesFor(j)
      BY <2>18 DEF EntriesFor
    <3>2. ASSUME NEW j \in Inums, NEW n \in Subdirs(j)'
          PROVE  n \in Subdirs(j)
      <4>1. n \in Names /\ dinode[j].ent[n] /= 0 /\ dinode'[dinode[j].ent[n]].type = "dir"
        BY <2>18, <3>2 DEF Subdirs
      <4>2. dinode[j].ent[n] \in Inums /\ dinode[j].ent[n] /= i
        BY <2>0, <2>2, <4>1, Sets DEF Disk
      <4> QED BY <2>4, <4>1, <4>2 DEF Subdirs
    <3>3. \A j \in Inums : dinode'[j].nlink
                            >= dinode[j].nlink - One(Claiming(p, j)) + One(Claiming(p, j)')
      <4>1. \A j \in Inums : One(Claiming(p, j)') = 0 /\ One(Claiming(p, j)) \in {0, 1}
        BY <2>13 DEF Claiming, One
      <4>2. \A j \in Inums : dinode[j].nlink \in Nat
        BY <2>0 DEF Disk
      <4> QED BY <4>1, <4>2, <2>18
    <3>4. \A j \in Inums : dinode'[j].type = "free" => dinode'[j] = FreeInode
      BY <2>0, <2>3, <2>4 DEF CountInv
    <3>5. ClaimsKept(p)
      BY <1>0, <2>15, GotClaims
    <3> QED BY <2>0, <2>4, <2>8, <3>1, <3>2, <3>3, <3>4, <3>5, CountKeep
  <2>21. g /= 0 => Node(g)'.type /= "free"
    BY <2>3, <2>4, <2>5 DEF Node
  <2>22. g \in Slots \cup {0}
    BY <2>5
  <2> QED BY <1>0, <2>8, <2>14, <2>15, <2>16, <2>17, <2>19, <2>20, <2>21, <2>22, WriteStep
<1> QED BY <1>7, <1>8, <1>9, <1>i, <1>g DEF Create, T

-----------------------------------------------------------------------------
(* The steps of iput that free an inode and drop a reference. *)

\* The entry that p is about to drop: when there is no other reference to it,
\* nobody uses its inode.
LEMMA Dropping ==
    ASSUME NInv, Up, NEW p \in Procs, pc[p] \in Putting
    PROVE  LET s == put[p]
           IN /\ s \in Slots /\ s /= 0 /\ icache[s].ref > 0 /\ Inum(s) \in Inums
              /\ At(p) = ret[p] /\ ret[p] \notin Putting \cup {"panic", "bug", "new", "remove"}
              /\ \A q \in Procs : s \in Uses(q) => icache[s].ref >= 2
              /\ \A q \in Procs : q /= p /\ put[q] = s => icache[s].ref >= 2
<1>1. LocalAt(p) /\ VarInv /\ RefsExact
  BY Here DEF NInv
<1>2. put[p] /= 0 /\ At(p) = ret[p] /\ ret[p] \notin Putting \cup {"panic", "bug", "new", "remove"}
  BY <1>1 DEF LocalAt, At
<1>3. put[p] \in Slots /\ icache[put[p]].ref > 0 /\ Inum(put[p]) \in Inums
  BY <1>2, UseFacts
<1>4. \A q \in Procs : put[p] \in Uses(q) => icache[put[p]].ref >= 2
  <2>1. put[p] \in Uses(p) => icache[put[p]].ref >= 2
    BY UseFacts
  <2>2. \A q \in Procs : q /= p /\ put[p] \in Uses(q) => icache[put[p]].ref >= 2
    BY UseFacts
  <2> QED BY <2>1, <2>2
<1>5. ASSUME NEW q \in Procs, q /= p, put[q] = put[p]
      PROVE  icache[put[p]].ref >= 2
  <2>1. 4 \in 1..6 /\ Pointers[4] = put
    BY DEF Pointers
  <2> QED BY <1>1, <1>2, <1>5, <2>1, TwoRefs
<1> QED BY <1>2, <1>3, <1>4, <1>5

LEMMA TruncStep ==
    ASSUME NInv, NEW p \in Procs, Trunc(p)
    PROVE  NInv'
<1>s. PICK s, i : s = put[p] /\ i = Inum(put[p])
  OBVIOUS
<1>0. /\ Up /\ pc[p] = "trunc"
      /\ dinode' = [dinode EXCEPT ![i] = FreeInode]
      /\ icache' = [icache EXCEPT ![s].valid = FALSE, ![s].type = "free", ![s].nlink = 0]
      /\ lock' = [lock EXCEPT ![s] = None] /\ Goto(p, "unref")
      /\ UNCHANGED <<op, path, to, cur, ip, dp, put, ret, file, cwd>>
  BY <1>s DEF Trunc, Inum
<1>1. /\ VarInv /\ ProcInv(p) /\ LocalAt(p) /\ p /= None /\ Good(icache, dinode)
      /\ \A u \in Slots : Keeps(p, u) <=> lock[u] = p
  BY <1>0, Here
<1>2. /\ s \in Slots /\ s /= 0 /\ i \in Inums /\ icache[s].inum = i
      /\ At(p) = ret[p] /\ ret[p] \notin Putting \cup {"panic", "bug", "new", "remove"}
      /\ dinode[i].nlink = 0 /\ lock[s] = p /\ icache[s].ref > 0
  <2>1. /\ s \in Slots /\ s /= 0 /\ i \in Inums /\ icache[s].inum = i /\ icache[s].ref > 0
        /\ At(p) = ret[p] /\ ret[p] \notin Putting \cup {"panic", "bug", "new", "remove"}
    BY <1>0, <1>s, Dropping DEF Putting, Inum
  <2>2. dinode[i].nlink = 0
    BY <1>0, <1>1, <1>s DEF ProcInv, TruncAt, Node, Inum
  <2>3. lock[s] = p
    BY <1>0, <1>1, <1>s, <2>1 DEF Keeps
  <2> QED BY <2>1, <2>2, <2>3
<1>3. \A q \in Procs : s \notin Uses(q)
  BY <1>0, <1>1, <1>s DEF ProcInv, TruncAt
<1>4. /\ icache' \in Cache /\ dinode' \in Disk /\ dinode \in Disk
      /\ dinode'[i] = FreeInode /\ \A j \in Inums : j /= i => dinode'[j] = dinode[j]
      /\ icache'[s].ref = icache[s].ref /\ icache'[s].inum = i /\ ~icache'[s].valid
      /\ \A t \in Slots : t /= s => icache'[t] = icache[t]
  <2>1. dinode' \in Disk /\ dinode'[i] = FreeInode /\ \A j \in Inums : j /= i => dinode'[j] = dinode[j]
    BY <1>0, <1>1, <1>2, Sets DEF VarInv, Disk
  <2> DEFINE R == [inum : 0..NInums, ref : Nat, valid : BOOLEAN, type : Kinds, nlink : Nat]
             r1 == [icache[s] EXCEPT !.valid = FALSE]
             r2 == [r1 EXCEPT !.type = "free"]
             r3 == [r2 EXCEPT !.nlink = 0]
  <2>2. icache[s] \in R
    BY <1>1, <1>2 DEF VarInv, Cache
  <2>3. r3 \in R /\ r3.ref = icache[s].ref /\ r3.inum = icache[s].inum /\ ~r3.valid
    <3>1. r1 \in R
      BY <2>2
    <3>2. r2 \in R
      BY <3>1 DEF Kinds
    <3>3. r3 \in R
      BY <3>2
    <3> QED BY <2>2, <3>3
  <2>4. icache' = [icache EXCEPT ![s] = r3]
    BY <1>0, <1>1, <1>2 DEF VarInv, Cache
  <2> HIDE DEF r3
  <2>5. icache' \in Cache /\ icache'[s] = r3 /\ \A t \in Slots : t /= s => icache'[t] = icache[t]
    BY <1>1, <1>2, <2>3, <2>4 DEF VarInv, Cache
  <2> QED BY <1>1, <1>2, <2>1, <2>3, <2>5 DEF VarInv
<1>5. \A t \in Slots : t /= s /\ icache[t].ref > 0 => icache[t].inum /= i /\ icache[t].inum \in Inums
  BY <1>1, <1>2 DEF Good
<1>6. ASSUME NEW q \in Procs, NEW t \in Uses(q)
      PROVE  /\ t \in Slots /\ t /= s /\ icache'[t] = icache[t] /\ Inum(t) \in Inums /\ Inum(t) /= i
             /\ dinode'[Inum(t)] = Node(t) /\ Node(t)' = Node(t)
  <2>1. t \in Slots /\ icache[t].ref > 0 /\ t /= s
    BY <1>3, UseFacts
  <2> QED BY <1>4, <1>5, <2>1 DEF Inum, Node
<1>7. /\ pc'[p] = "unref" /\ VarInv' /\ Others(p) /\ LockFrame(p)
      /\ \A t \in Slots : lock'[t] = IF t = s THEN None ELSE lock[t]
  BY <1>0, <1>1, <1>2, <1>4 DEF VarInv, PCs, Others, LockFrame, Goto
<1>8. At(p)' = At(p) /\ Uses(p)' = Uses(p)
  BY <1>0, <1>2, <1>7 DEF At, Putting, Uses
<1>9. Frame(p)
  <2>1. ASSUME NEW q \in Procs, q /= p
        PROVE  /\ \A t \in Uses(q) : /\ icache'[t].inum = icache[t].inum
                                     /\ dinode'[Inum(t)].type = Node(t).type
               /\ put[q] /= 0 => icache'[put[q]].inum = icache[put[q]].inum
               /\ pc[q] = "trunc" => put[q] \notin Uses(p)' /\ dinode'[Inum(put[q])].nlink = 0
               /\ At(q) = "new" =>
                   /\ dinode'[Inum(ip[q])].nlink = Node(ip[q]).nlink
                   /\ dinode'[Inum(ip[q])].ent = Node(ip[q]).ent
                   /\ ip[q] \notin {cur'[p], ip'[p], dp'[p], file'[p], cwd'[p]}
    <3>1. \A t \in Uses(q) : /\ icache'[t].inum = icache[t].inum
                             /\ dinode'[Inum(t)].type = Node(t).type
      BY <1>6
    <3>2. ProcInv(q) /\ LocalAt(q)
      BY <1>0, Here
    <3>3. put[q] /= 0 => icache'[put[q]].inum = icache[put[q]].inum
      BY <1>2, <1>4, UseFacts
    <3>4. ASSUME pc[q] = "trunc"
          PROVE  put[q] \notin Uses(p)' /\ dinode'[Inum(put[q])].nlink = 0
      <4>1. put[q] /= 0 /\ Node(put[q]).nlink = 0 /\ put[q] \notin Uses(p)
        BY <3>2, <3>4 DEF ProcInv, TruncAt, LocalAt, Putting
      <4>2. put[q] \in Slots /\ icache[put[q]].ref > 0
        BY <4>1, UseFacts
      <4>3. lock[put[q]] = q
        BY <3>2, <3>4, <4>2 DEF ProcInv, Keeps
      <4>4. put[q] /= s
        BY <1>2, <2>1, <4>3
      <4> QED BY <1>4, <1>5, <1>8, <4>1, <4>2, <4>4 DEF Inum, Node
    <3>5. At(q) = "new" => ip[q] \in Uses(q) /\ ip[q] \notin {cur[p], ip[p], dp[p], file[p], cwd[p]}
      BY <2>1, <3>2 DEF ProcInv, NewAt, LocalAt, HasInode, HasDir, Uses
    <3> QED BY <1>0, <1>6, <3>1, <3>3, <3>4, <3>5
  <2>2. ASSUME NEW t \in Slots, lock[t] \notin {None, p}
        PROVE  /\ icache'[t].valid /\ icache'[t].ref > 0 /\ icache'[t].inum = icache[t].inum
               /\ dinode'[Inum(t)].ent = Node(t).ent
    <3>1. t /= s /\ icache[t].valid /\ icache[t].ref > 0
      BY <1>0, <1>2, <2>2, Locked
    <3> QED BY <1>4, <1>5, <3>1 DEF Inum, Node
  <2> QED BY <1>7, <2>1, <2>2 DEF Frame
<1>10. LocalAt(p)'
  BY <1>0, <1>1, <1>7, <1>8 DEF LocalAt, Putting
<1>11. \A t \in Slots : Keeps(p, t)' <=> Keeps(p, t) /\ t /= s
  <2>1. dp[p] /= s /\ ip[p] /= s
    BY <1>2, <1>3 DEF Uses
  <2> QED BY <1>0, <1>7, <1>8, <1>s, <2>1 DEF Keeps
<1>12. ProcInv(p)'
  <2>1. \A t \in Slots : Keeps(p, t)' => lock'[t] = p
    BY <1>1, <1>7, <1>11
  <2>2. TruncAt(p)' /\ NewAt(p)' /\ ChildAt(p)'
    BY <1>2, <1>7, <1>8 DEF TruncAt, NewAt, ChildAt
  <2>3. dp'[p] /= 0 => Node(dp[p])'.type = "dir"
    <3>1. dp[p] /= 0 => dp[p] \in Uses(p) /\ Node(dp[p]).type = "dir"
      BY <1>1 DEF Uses, ProcInv
    <3>2. dp[p] /= 0 => dinode'[icache'[dp[p]].inum].type = "dir"
      BY <1>6, <3>1 DEF Node
    <3> QED BY <1>0, <3>2 DEF Node
  <2>4. Linking(p)' => Node(ip[p])'.type = "file"
    <3>1. Linking(p)' => Linking(p)
      BY <1>0, <1>8 DEF Linking
    <3>2. Linking(p) => ip[p] \in Uses(p) /\ Node(ip[p]).type = "file"
      BY <1>1 DEF Uses, ProcInv, Linking
    <3>3. Linking(p) => dinode'[icache'[ip[p]].inum].type = "file"
      BY <1>6, <3>2 DEF Node
    <3> QED BY <1>0, <3>1, <3>3 DEF Node
  <2>5. \A t \in Uses(p)' : Node(t)'.type /= "free"
    BY <1>1, <1>6, <1>8 DEF ProcInv
  <2> QED BY <1>7, <1>10, <2>1, <2>2, <2>3, <2>4, <2>5 DEF ProcInv
<1>13. OwnLocks(p)'
  <2>1. ASSUME NEW t \in Slots, lock'[t] = p
        PROVE  icache'[t].valid /\ icache'[t].ref > 0 /\ Keeps(p, t)'
    <3>1. t /= s /\ lock[t] = p
      BY <1>1, <1>7, <2>1
    <3>2. icache[t].valid /\ icache[t].ref > 0
      BY <1>0, <1>1, <3>1, Locked
    <3> QED BY <1>1, <1>4, <1>11, <3>1, <3>2
  <2> QED BY <2>1 DEF OwnLocks
<1>14. Good(icache', dinode')
  <2>1. \A t \in Slots : icache'[t].ref = icache[t].ref /\ icache'[t].inum = icache[t].inum
    BY <1>2, <1>4
  <2>2. ASSUME NEW t \in Slots, icache'[t].ref > 0, icache'[t].valid
        PROVE  /\ icache'[t].type = dinode'[icache'[t].inum].type /\ icache'[t].type /= "free"
               /\ icache'[t].nlink = dinode'[icache'[t].inum].nlink
    <3>1. t /= s /\ icache'[t] = icache[t] /\ icache[t].inum /= i /\ icache[t].inum \in Inums
      BY <1>4, <1>5, <2>2
    <3> QED BY <1>1, <1>4, <2>2, <3>1 DEF Good
  <2> QED BY <1>1, <2>1, <2>2, GoodWrite
<1>15. RefsExact'
  <2>1. \A t \in Slots : Mine(p, t)' = Mine(p, t)
    BY <1>0 DEF Mine
  <2>2. \A t \in Slots : Mine(p, t) \in Nat /\ icache[t].ref \in Nat
    BY <1>1, Sets DEF Mine, One, VarInv, Cache
  <2>3. \A t \in Slots : icache'[t].ref = icache[t].ref - Mine(p, t) + Mine(p, t)'
    BY <1>4, <2>1, <2>2
  <2> QED BY <1>7, <2>3, RefsStep DEF NInv
<1>16. \A j \in Inums, n \in Names : dinode'[j].ent[n] /= 0 => j /= i /\ dinode'[j].ent = dinode[j].ent
  BY <1>4, Sets
<1>17. TreeInv'
  <2>0. TreeInv
    BY DEF NInv
  <2>1. \A j \in Inums : dinode'[j].type /= "dir" => dinode'[j].ent = NoEntries
    BY <1>4, <2>0, Sets DEF TreeInv
  <2>2. ASSUME NEW j \in Inums, NEW k \in Inums, NEW m \in Names, NEW l \in Names,
               dinode'[j].ent[m] = k, dinode'[k].ent[l] = j
        PROVE  FALSE
    <3>1. dinode[j].ent[m] = k /\ dinode[k].ent[l] = j
      BY <1>16, <2>2, Sets
    <3> QED BY <3>1, <2>0 DEF TreeInv
  <2> QED BY <2>1, <2>2 DEF TreeInv
<1>18. CountInv'
  <2>1. \A j \in Inums : EntriesFor(j)' \subseteq EntriesFor(j)
    BY <1>16, Sets DEF EntriesFor
  <2>2. ASSUME NEW j \in Inums, NEW n \in Subdirs(j)'
        PROVE  n \in Subdirs(j)
    <3>1. n \in Names /\ dinode'[j].ent[n] /= 0 /\ dinode'[dinode'[j].ent[n]].type = "dir"
      BY <2>2 DEF Subdirs
    <3>2. dinode[j].ent[n] = dinode'[j].ent[n] /\ dinode'[j].ent[n] \in Inums
      BY <1>4, <1>16, <3>1, Sets DEF Disk
    <3>3. dinode'[j].ent[n] /= i
      BY <1>4, <3>1, Sets
    <3> QED BY <1>4, <3>1, <3>2, <3>3 DEF Subdirs
  <2>3. ClaimsKept(p)
    BY <1>0, <1>6, ClaimUses DEF ClaimsKept
  <2>4. \A j \in Inums : Claiming(p, j)' => Claiming(p, j)
    <3>1. Claim(p)' => Claim(p)
      BY <1>0, <1>8 DEF Claim, Linking
    <3>2. Claim(p) => icache'[ip[p]].inum = icache[ip[p]].inum
      BY <1>0, <1>6, ClaimUses
    <3> QED BY <1>0, <3>1, <3>2 DEF Claiming, Inum
  <2>5. \A j \in Inums : dinode'[j].nlink
                            >= dinode[j].nlink - One(Claiming(p, j)) + One(Claiming(p, j)')
    <3>1. \A j \in Inums : /\ One(Claiming(p, j)') \in {0, 1} /\ One(Claiming(p, j)) \in {0, 1}
                           /\ One(Claiming(p, j)') <= One(Claiming(p, j))
      BY <2>4 DEF One
    <3>2. \A j \in Inums : dinode[j].nlink \in Nat /\ dinode'[j].nlink = dinode[j].nlink
      BY <1>2, <1>4, Sets DEF Disk
    <3> QED BY <3>1, <3>2
  <2>6. \A j \in Inums : dinode'[j].type = "free" => dinode'[j] = FreeInode
    BY <1>4 DEF NInv, CountInv
  <2> QED BY <1>4, <1>7, <2>1, <2>2, <2>3, <2>5, <2>6, CountKeep DEF NInv
<1> QED BY <1>0, <1>7, <1>9, <1>12, <1>13, <1>14, <1>15, <1>17, <1>18, FrameStep

LEMMA UnrefStep ==
    ASSUME NInv, NEW p \in Procs, Unref(p)
    PROVE  NInv'
<1>s. PICK s : s = put[p]
  OBVIOUS
<1>0. /\ Up /\ pc[p] = "unref" /\ Leave(p, ret[p])
      /\ icache' = IF icache[s].ref = 1 THEN [icache EXCEPT ![s] = NoEntry]
                   ELSE [icache EXCEPT ![s].ref = @ - 1]
      /\ put' = [put EXCEPT ![p] = 0] /\ ret' = [ret EXCEPT ![p] = "idle"]
      /\ UNCHANGED <<dinode, lock, cur, ip, dp, file, cwd>>
  BY <1>s DEF Unref
<1>1. /\ VarInv /\ ProcInv(p) /\ LocalAt(p) /\ p /= None /\ Good(icache, dinode)
      /\ \A u \in Slots : Keeps(p, u) <=> lock[u] = p
  BY <1>0, Here
<1>2. /\ s \in Slots /\ s /= 0 /\ icache[s].ref > 0
      /\ At(p) = ret[p] /\ ret[p] \notin Putting \cup {"panic", "bug", "new", "remove"}
      /\ \A q \in Procs : s \in Uses(q) => icache[s].ref >= 2
      /\ \A q \in Procs : q /= p /\ put[q] = s => icache[s].ref >= 2
  BY <1>0, <1>s, Dropping DEF Putting
<1>3. /\ icache \in Cache /\ dinode \in Disk /\ \A t \in Slots : icache[t].ref \in Nat
  BY <1>1 DEF VarInv, Cache
<1>4. /\ icache' \in Cache /\ icache'[s].ref = icache[s].ref - 1
      /\ icache[s].ref >= 2 => /\ icache'[s].inum = icache[s].inum /\ icache'[s].valid = icache[s].valid
                               /\ icache'[s].type = icache[s].type /\ icache'[s].nlink = icache[s].nlink
      /\ \A t \in Slots : t /= s => icache'[t] = icache[t]
  <2>1. CASE icache[s].ref = 1
    <3>1. icache' = [icache EXCEPT ![s] = NoEntry]
      BY <1>0, <2>1
    <3>2. icache' \in Cache /\ icache'[s] = NoEntry /\ \A t \in Slots : t /= s => icache'[t] = icache[t]
      BY <1>2, <1>3, <3>1, Sets DEF Cache
    <3> QED BY <2>1, <3>2, Sets
  <2>2. CASE icache[s].ref /= 1
    <3> DEFINE r == [icache[s] EXCEPT !.ref = icache[s].ref - 1]
    <3>1. icache' = [icache EXCEPT ![s] = r]
      BY <1>0, <2>2
    <3>2. icache[s].ref - 1 \in Nat
      BY <1>2, <1>3
    <3>3. /\ r \in [inum : 0..NInums, ref : Nat, valid : BOOLEAN, type : Kinds, nlink : Nat]
          /\ r.ref = icache[s].ref - 1 /\ r.inum = icache[s].inum /\ r.valid = icache[s].valid
          /\ r.type = icache[s].type /\ r.nlink = icache[s].nlink
      BY <1>2, <1>3, <3>2 DEF Cache
    <3> HIDE DEF r
    <3>4. icache' \in Cache /\ icache'[s] = r /\ \A t \in Slots : t /= s => icache'[t] = icache[t]
      BY <1>2, <1>3, <3>1, <3>3 DEF Cache
    <3> QED BY <3>3, <3>4
  <2> QED BY <2>1, <2>2
<1>5. /\ \A q \in Procs : \A t \in Uses(q) : t \in Slots /\ icache'[t].inum = icache[t].inum
      /\ \A q \in Procs : q /= p /\ put[q] /= 0 => icache'[put[q]].inum = icache[put[q]].inum
  <2>1. \A q \in Procs : \A t \in Uses(q) : t \in Slots
    BY UseFacts
  <2>2. \A q \in Procs : put[q] /= 0 => put[q] \in Slots
    BY UseFacts
  <2> QED BY <1>2, <1>4, <2>1, <2>2
<1>6. \A q \in Procs : \A t \in Uses(q) : Node(t)' = Node(t)
  BY <1>0, <1>5 DEF Node
<1>7. /\ pc'[p] = ret[p] /\ put'[p] = 0 /\ ret'[p] = "idle" /\ VarInv' /\ Others(p) /\ LockFrame(p)
      /\ ret[p] /= "idle" => op'[p] = op[p] /\ path'[p] = path[p] /\ to'[p] = to[p]
      /\ ret[p] = "idle" => op'[p] = "none"
  <2>1. /\ pc' = [pc EXCEPT ![p] = ret[p]] /\ op' \in [Procs -> Ops]
        /\ path' \in [Procs -> Walks] /\ to' \in [Procs -> Walks]
        /\ ret[p] /= "idle" => op'[p] = op[p] /\ path'[p] = path[p] /\ to'[p] = to[p]
        /\ ret[p] = "idle" => op'[p] = "none"
        /\ \A q \in Procs : q /= p => op'[q] = op[q] /\ path'[q] = path[q] /\ to'[q] = to[q]
    BY <1>0, <1>1, NoPath DEF Leave, Goto, VarInv, Ops
  <2> QED BY <1>0, <1>1, <1>4, <2>1 DEF VarInv, PCs, Others, LockFrame
<1>8. At(p)' = At(p) /\ Uses(p)' = Uses(p)
  BY <1>0, <1>2, <1>7 DEF At, Uses
<1>9. ASSUME NEW q \in Procs, NEW t \in Slots, lock[t] = q
      PROVE  icache'[t].valid /\ icache'[t].ref > 0 /\ icache'[t].inum = icache[t].inum
  <2>1. icache[t].valid /\ icache[t].ref > 0 /\ Keeps(q, t)
    BY <1>0, <1>9, Sets, Locked
  <2>2. CASE t = s
    <3>1. t \in Uses(q) \/ (q /= p /\ put[q] = s)
      BY <1>0, <1>2, <2>1, <2>2 DEF Keeps, Uses
    <3>2. icache[s].ref >= 2
      BY <1>2, <2>2, <3>1
    <3> QED BY <1>3, <1>4, <2>1, <2>2, <3>2
  <2>3. CASE t /= s
    BY <1>4, <2>1, <2>3
  <2> QED BY <2>2, <2>3
<1>10. Frame(p)
  <2>1. ASSUME NEW q \in Procs, q /= p
        PROVE  /\ \A t \in Uses(q) : /\ icache'[t].inum = icache[t].inum
                                     /\ dinode'[Inum(t)].type = Node(t).type
               /\ put[q] /= 0 => icache'[put[q]].inum = icache[put[q]].inum
               /\ pc[q] = "trunc" => put[q] \notin Uses(p)' /\ dinode'[Inum(put[q])].nlink = 0
               /\ At(q) = "new" =>
                   /\ dinode'[Inum(ip[q])].nlink = Node(ip[q]).nlink
                   /\ dinode'[Inum(ip[q])].ent = Node(ip[q]).ent
                   /\ ip[q] \notin {cur'[p], ip'[p], dp'[p], file'[p], cwd'[p]}
    <3>1. \A t \in Uses(q) : /\ icache'[t].inum = icache[t].inum
                             /\ dinode'[Inum(t)].type = Node(t).type
      BY <1>0, <1>5 DEF Node, Inum
    <3>2. ProcInv(q) /\ LocalAt(q)
      BY <1>0, Here
    <3>3. pc[q] = "trunc" => put[q] \notin Uses(p)' /\ dinode'[Inum(put[q])].nlink = 0
      BY <1>0, <1>8, <3>2 DEF ProcInv, TruncAt, Node, Inum
    <3>5. At(q) = "new" => ip[q] \notin {cur[p], ip[p], dp[p], file[p], cwd[p]}
      BY <2>1, <3>2 DEF ProcInv, NewAt
    <3> QED BY <1>0, <1>5, <2>1, <3>1, <3>3, <3>5 DEF Node, Inum
  <2>2. ASSUME NEW t \in Slots, lock[t] \notin {None, p}
        PROVE  /\ icache'[t].valid /\ icache'[t].ref > 0 /\ icache'[t].inum = icache[t].inum
               /\ dinode'[Inum(t)].ent = Node(t).ent
    <3>1. lock[t] \in Procs
      BY <1>1, <2>2 DEF VarInv
    <3> QED BY <1>0, <1>9, <3>1 DEF Node, Inum
  <2> QED BY <1>7, <2>1, <2>2 DEF Frame
<1>11. LocalAt(p)'
  <2>1. CASE ret[p] = "idle"
    BY <1>0, <1>1, <1>2, <1>7, <1>8, <2>1 DEF LocalAt, Putting, HasDir, HasInode
  <2>2. CASE ret[p] /= "idle"
    BY <1>0, <1>1, <1>2, <1>7, <1>8, <2>2 DEF LocalAt, Putting, HasDir, HasInode
  <2> QED BY <2>1, <2>2
<1>12. \A t \in Slots : Keeps(p, t)' <=> Keeps(p, t)
  BY <1>0, <1>2, <1>7, <1>8 DEF Keeps, Putting
<1>13. Linking(p)' => Linking(p)
  BY <1>0, <1>2, <1>7, <1>8 DEF Linking
<1>14. ProcInv(p)'
  <2>1. \A t \in Slots : Keeps(p, t)' => lock'[t] = p
    BY <1>0, <1>1, <1>12
  <2>2. TruncAt(p)' /\ NewAt(p)' /\ ChildAt(p)'
    BY <1>2, <1>7, <1>8 DEF TruncAt, NewAt, ChildAt, Putting
  <2>3. dp'[p] /= 0 => Node(dp[p])'.type = "dir"
    <3>1. dp[p] /= 0 => dp[p] \in Uses(p) /\ Node(dp[p]).type = "dir"
      BY <1>1 DEF Uses, ProcInv
    <3>2. dp[p] /= 0 => dinode'[icache'[dp[p]].inum].type = "dir"
      BY <1>6, <3>1 DEF Node
    <3> QED BY <1>0, <3>2 DEF Node
  <2>4. Linking(p)' => Node(ip[p])'.type = "file"
    <3>2. Linking(p) => ip[p] \in Uses(p) /\ Node(ip[p]).type = "file"
      BY <1>1 DEF Uses, ProcInv, Linking
    <3>3. Linking(p) => dinode'[icache'[ip[p]].inum].type = "file"
      BY <1>6, <3>2 DEF Node
    <3> QED BY <1>0, <1>13, <3>3 DEF Node
  <2>5. \A t \in Uses(p)' : Node(t)'.type /= "free"
    BY <1>1, <1>6, <1>8 DEF ProcInv
  <2> QED BY <1>2, <1>7, <1>11, <2>1, <2>2, <2>3, <2>4, <2>5 DEF ProcInv
<1>15. OwnLocks(p)'
  BY <1>0, <1>1, <1>9, <1>12 DEF OwnLocks
<1>16. Good(icache', dinode')
  <2>1. \A t \in Slots : icache'[t].ref > 0 =>
            /\ icache[t].ref > 0 /\ icache'[t].inum = icache[t].inum /\ icache'[t].valid = icache[t].valid
            /\ icache'[t].type = icache[t].type /\ icache'[t].nlink = icache[t].nlink
    BY <1>3, <1>4
  <2> QED BY <1>0, <1>1, <2>1 DEF Good
<1>17. RefsExact'
  <2>1. \A t \in Slots : Mine(p, t) = Mine(p, t)' + One(t = s)
    BY <1>0, <1>2, <1>7, <1>s, Sets DEF Mine, One
  <2>2. \A t \in Slots : Mine(p, t) \in Nat /\ Mine(p, t)' \in Nat
    <3>1. \A c : One(c) \in Nat
      BY DEF One
    <3>2. \A t \in Slots : Mine(p, t) \in Nat
      BY <3>1 DEF Mine
    <3>3. \A t \in Slots : Mine(p, t)' \in Nat
      BY <3>1 DEF Mine
    <3> QED BY <3>2, <3>3
  <2>3. \A t \in Slots : icache'[t].ref = icache[t].ref - One(t = s)
    BY <1>3, <1>4 DEF One
  <2>4. \A t \in Slots : One(t = s) \in {0, 1}
    BY DEF One
  <2>5. \A t \in Slots : icache'[t].ref = icache[t].ref - Mine(p, t) + Mine(p, t)'
    BY <1>3, <2>1, <2>2, <2>3, <2>4
  <2> QED BY <1>7, <2>5, RefsStep DEF NInv
<1>18. TreeInv'
  BY <1>0 DEF NInv, TreeInv
<1>19. CountInv'
  <2>1. \A j \in Inums : EntriesFor(j)' \subseteq EntriesFor(j) /\ Subdirs(j)' \subseteq Subdirs(j)
    BY <1>0 DEF EntriesFor, Subdirs
  <2>3. ClaimsKept(p)
    BY <1>0, <1>5, ClaimUses DEF ClaimsKept
  <2>4. \A j \in Inums : Claiming(p, j)' => Claiming(p, j)
    <3>1. Claim(p)' => Claim(p)
      BY <1>8, <1>13 DEF Claim
    <3>2. Claim(p) => icache'[ip[p]].inum = icache[ip[p]].inum
      BY <1>0, <1>5, ClaimUses
    <3> QED BY <1>0, <3>1, <3>2 DEF Claiming, Inum
  <2>5. \A j \in Inums : dinode'[j].nlink
                            >= dinode[j].nlink - One(Claiming(p, j)) + One(Claiming(p, j)')
    <3>1. \A j \in Inums : /\ One(Claiming(p, j)') \in {0, 1} /\ One(Claiming(p, j)) \in {0, 1}
                           /\ One(Claiming(p, j)') <= One(Claiming(p, j))
      BY <2>4 DEF One
    <3>2. \A j \in Inums : dinode[j].nlink \in Nat /\ dinode'[j].nlink = dinode[j].nlink
      BY <1>0, <1>3 DEF Disk
    <3> QED BY <3>1, <3>2
  <2>6. dinode' \in Disk /\ \A j \in Inums : dinode'[j].type = "free" => dinode'[j] = FreeInode
    BY <1>0, <1>3 DEF NInv, CountInv
  <2> QED BY <1>3, <1>7, <2>1, <2>3, <2>5, <2>6, CountKeep DEF NInv
<1> QED BY <1>0, <1>7, <1>10, <1>14, <1>15, <1>16, <1>17, <1>18, <1>19, FrameStep

-----------------------------------------------------------------------------
(* The invariant holds. *)

LEMMA InitInv == Init => NInv
<1> SUFFICES ASSUME Init
             PROVE  NInv
  OBVIOUS
<1> DEFINE C == Cardinality(Procs)
           R == [inum : 0..NInums, ref : Nat, valid : BOOLEAN, type : Kinds, nlink : Nat]
           r == [Fresh(Root) EXCEPT !.ref = C]
           root == [FreeInode EXCEPT !.type = "dir", !.nlink = 1]
<1>1. IsFiniteSet(Procs) /\ C \in Nat
  BY InodeAssumption, FS_CardinalityType
<1>2. r \in R /\ r.inum = Root /\ r.ref = C /\ ~r.valid
  <2>1. Fresh(Root) \in R /\ Fresh(Root).inum = Root /\ ~Fresh(Root).valid
    BY Sets
  <2> HIDE DEF C
  <2> QED BY <1>1, <2>1
<1>3. /\ root \in [type : Kinds, nlink : Nat, ent : [Names -> 0..NInums]]
      /\ root.type = "dir" /\ root.nlink = 1 /\ root.ent = NoEntries
  BY Sets DEF FreeInode, Kinds
<1>4. /\ dinode = [i \in Inums |-> IF i = Root THEN root ELSE FreeInode]
      /\ icache = [s \in Slots |-> IF s = 1 THEN r ELSE NoEntry]
  BY DEF Init
<1> HIDE DEF r, root, C
<1>5. /\ dinode \in Disk /\ icache \in Cache
      /\ dinode[Root] = root /\ \A i \in Inums : i /= Root => dinode[i] = FreeInode
      /\ icache[1] = r /\ \A s \in Slots : s /= 1 => icache[s] = NoEntry
  BY <1>2, <1>3, <1>4, Sets DEF Disk, Cache
<1>6. /\ \A s \in Slots : lock[s] = None
      /\ \A p \in Procs : /\ pc[p] = "idle" /\ op[p] = "none" /\ cur[p] = 0 /\ ip[p] = 0 /\ dp[p] = 0
                          /\ put[p] = 0 /\ ret[p] = "idle" /\ file[p] = 0 /\ cwd[p] = 1
                          /\ At(p) = "idle"
  BY DEF Init, At, Putting
<1>7. VarInv
  <2>1. <<>> \in Walks
    BY NoPath
  <2> QED BY <1>5, <2>1, Sets DEF Init, VarInv, PCs, Ops
<1>8. \A s \in Slots : icache[s].ref > 0 => s = 1
  BY <1>5, Sets
<1>9. Good(icache, dinode)
  BY <1>2, <1>5, <1>8, Sets DEF Good
<1>10. RefsExact
  <2>1. ASSUME NEW s \in Slots
        PROVE  icache[s].ref = Cardinality(PointersTo(Pointers, s))
    <3>0. ASSUME NEW x \in Procs \X (1..6)
          PROVE  Pointers[x[2]][x[1]] = IF x[2] = 6 THEN 1 ELSE 0
      <4>1. x[1] \in Procs /\ x[2] \in {1, 2, 3, 4, 5, 6}
        OBVIOUS
      <4> QED BY <1>6, <4>1 DEF Pointers
    <3>1. CASE s = 1
      <4>1. PointersTo(Pointers, s) = Procs \X {6}
        BY <3>0, <3>1 DEF PointersTo
      <4>2. IsFiniteSet({6}) /\ Cardinality({6}) = 1
        BY FS_Singleton
      <4>3. Cardinality(Procs \X {6}) = Cardinality(Procs) * Cardinality({6})
        BY <1>1, <4>2, FS_Product
      <4>4. Cardinality(Procs) \in Nat /\ icache[s].ref = Cardinality(Procs)
        BY <1>1, <1>2, <1>5, <3>1 DEF C
      <4> QED BY ONLY <4>1, <4>2, <4>3, <4>4
    <3>2. CASE s /= 1
      <4>1. PointersTo(Pointers, s) = {}
        BY <3>0, <3>2, Sets DEF PointersTo
      <4>2. icache[s].ref = 0
        BY <1>5, <3>2, Sets
      <4> QED BY <4>1, <4>2, FS_EmptySet
    <3> QED BY <3>1, <3>2
  <2> QED BY <2>1, ExactMeans
<1>11. LockInv
  BY <1>6 DEF LockInv
<1>12. \A i \in Inums : dinode[i].ent = NoEntries
  BY <1>3, <1>5, Sets
<1>13. TreeInv
  BY <1>12, Sets DEF TreeInv
<1>14. CountInv
  <2>1. ASSUME NEW i \in Inums
        PROVE  EntriesFor(i) = {} /\ Subdirs(i) = {} /\ Claims(i) = {}
    <3>1. EntriesFor(i) = {} /\ Subdirs(i) = {}
      BY <1>12, Sets DEF EntriesFor, Subdirs
    <3>2. Claims(i) = {}
      BY <1>6 DEF Claims, Claim, Linking
    <3> QED BY <3>1, <3>2
  <2>2. Cardinality({}) = 0
    BY FS_EmptySet
  <2>3. ASSUME NEW i \in Inums
        PROVE  /\ (IF i = Root THEN 1 ELSE 0) <= dinode[i].nlink
               /\ dinode[i].type = "free" => dinode[i] = FreeInode
    BY <1>3, <1>5, Sets
  <2>4. ASSUME NEW i \in Inums
        PROVE  Cardinality(EntriesFor(i)) = 0 /\ Cardinality(Subdirs(i)) = 0 /\ Cardinality(Claims(i)) = 0
    BY <2>1, <2>2, Zenon
  <2> QED BY <2>3, <2>4 DEF CountInv
<1>15. ASSUME NEW p \in Procs
       PROVE  ProcInv(p)
  <2>1. LocalAt(p)
    BY <1>6 DEF LocalAt, Putting, HasDir, HasInode
  <2>2. Uses(p) = {1} /\ Node(1).type = "dir"
    BY <1>2, <1>3, <1>5, <1>6 DEF Uses, Node
  <2> QED BY <1>6, <2>1, <2>2 DEF ProcInv, Keeps, TruncAt, NewAt, ChildAt, Linking
<1> QED BY <1>7, <1>9, <1>10, <1>11, <1>13, <1>14, <1>15 DEF NInv

LEMMA StutterInv ==
    ASSUME NInv, UNCHANGED vars
    PROVE  NInv'
<1>1. UNCHANGED <<dinode, icache, lock, pc, op, path, to, cur, ip, dp, put, ret, file, cwd>>
  BY DEF vars
<1>2. VarInv' /\ Good(icache', dinode')
  BY <1>1 DEF NInv, VarInv
<1>3. RefsExact' /\ LockInv'
  BY <1>1 DEF NInv, RefsExact, LockInv, Keeps, At
<1>4. TreeInv' /\ CountInv'
  BY <1>1, ZenonT(120) DEF NInv, TreeInv, CountInv, EntriesFor, Subdirs, Claims, Claim, Linking, At, Inum
<1>5. ASSUME NEW p \in Procs
      PROVE  ProcInv(p)'
  <2>1. ProcInv(p)
    BY DEF NInv
  <2>2. LocalAt(p)' = LocalAt(p)
    BY <1>1 DEF LocalAt, At
  <2>3. \A s : Node(s)' = Node(s)
    BY <1>1 DEF Node
  <2>4. TruncAt(p)' = TruncAt(p) /\ NewAt(p)' = NewAt(p) /\ ChildAt(p)' = ChildAt(p)
    BY <1>1 DEF TruncAt, NewAt, ChildAt, At, Node, Inum, Last, Uses
  <2>5. Linking(p)' = Linking(p) /\ Uses(p)' = Uses(p) /\ \A s : Keeps(p, s)' = Keeps(p, s)
    BY <1>1 DEF Linking, Uses, Keeps, At
  <2> QED BY <1>1, <2>1, <2>2, <2>3, <2>4, <2>5 DEF ProcInv, Node
<1> QED BY <1>2, <1>3, <1>4, <1>5 DEF NInv

\* The ".." of a directory is an inode number.
DotsInv == dotdot \in [Inums -> Inums]

LEMMA DotsStep ==
    ASSUME NInv, DotsInv, [Next]_vars
    PROVE  DotsInv'
<1>1. SUFFICES ASSUME dotdot' /= dotdot
               PROVE  DotsInv'
  BY DEF DotsInv
<1>2. PICK p \in Procs : Trunc(p) \/ CreateNew(p)
  <2>1. ~(UNCHANGED vars) /\ ~Halted /\ ~Stuck
    BY <1>1 DEF vars, Halted, Stuck
  <2>2. \A p \in Procs : ~Iput(p) /\ ~Unref(p) /\ ~Namex(p) /\ ~OpenIt(p) /\ ~CloseFile(p)
    BY <1>1, ZenonT(60) DEF Iput, Unref, Namex, OpenIt, CloseFile
  <2>3. \A p \in Procs : ~Chdir(p) /\ ~Create(p) /\ ~CreateExists(p) /\ ~Created(p) /\ ~Unlink(p)
    BY <1>1, ZenonT(60) DEF Chdir, Create, CreateExists, Created, Unlink
  <2>4. \A p \in Procs : ~Remove(p) /\ ~LetGo(p) /\ ~Removed(p) /\ ~Link(p) /\ ~Enter(p)
    BY <1>1, ZenonT(60) DEF Remove, LetGo, Removed, Link, Enter
  <2>5. \A p \in Procs : ~Entered(p) /\ ~Unenter(p) /\ \A o, pa, u : ~Call(p, o, pa, u)
    BY <1>1, ZenonT(60) DEF Entered, Unenter, Call
  <2> QED BY <2>1, <2>2, <2>3, <2>4, <2>5, ZenonT(60) DEF Next
<1>3. CASE Trunc(p)
  BY <1>3, Sets DEF DotsInv, Trunc
<1>4. CASE CreateNew(p)
  <2>1. Up /\ pc[p] = "new" /\ lock[ip[p]] = None
    BY <1>4 DEF CreateNew
  <2>2. /\ Inum(dp[p]) \in Inums /\ Load(icache, ip[p])[dp[p]] = icache[dp[p]]
    BY <2>1, InNew
  <2>3. Load(icache, ip[p])[dp[p]].inum \in Inums
    BY <2>2 DEF Inum
  <2> QED BY <1>4, <2>3 DEF CreateNew, DotsInv
<1> QED BY <1>2, <1>3, <1>4

LEMMA NextInv ==
    ASSUME NInv, DotsInv, [Next]_vars
    PROVE  NInv'
<1> USE DEF DotsInv
<1>1. CASE UNCHANGED vars
  BY <1>1, StutterInv
<1>2. ASSUME NEW p \in Procs,
             \/ Iput(p) \/ Trunc(p) \/ Unref(p) \/ Namex(p) \/ OpenIt(p) \/ CloseFile(p)
             \/ Chdir(p) \/ Create(p) \/ CreateExists(p) \/ CreateNew(p) \/ Created(p)
             \/ Unlink(p) \/ Remove(p) \/ LetGo(p) \/ Removed(p)
             \/ Link(p) \/ Enter(p) \/ Entered(p) \/ Unenter(p)
      PROVE  NInv'
  BY <1>2, IputStep, TruncStep, UnrefStep, NamexStep, OpenItStep, CloseFileStep, ChdirStep,
     CreateStep, CreateExistsStep, CreateNewStep, CreatedStep, UnlinkStep, RemoveStep, LetGoStep,
     RemovedStep, LinkStep, EnterStep, EnteredStep, UnenterStep, ZenonT(120)
<1>3. ASSUME NEW p \in Procs, NEW pa \in Paths \cup RelPaths, NEW o \in Calls[p] \ {"link"},
             Call(p, o, pa, <<>>)
      PROVE  NInv'
  <2>1. o \in Ops \ {"none"} /\ <<>> \in Walks
    BY InodeAssumption, NoPath DEF Ops
  <2> QED BY <1>3, <2>1, CallStep
<1>4. ASSUME NEW p \in Procs, NEW pa \in Paths \cup RelPaths, NEW t \in Paths \cup RelPaths,
             Call(p, "link", pa, t)
      PROVE  NInv'
  <2>1. "link" \in Ops \ {"none"} /\ t \in Walks
    BY NoPath DEF Ops
  <2> QED BY <1>4, <2>1, CallStep
<1>5. CASE Halted \/ Stuck
  BY <1>5, StutterInv DEF Halted, Stuck
<1> QED BY <1>1, <1>2, <1>3, <1>4, <1>5 DEF Next

LEMMA SpecInv == Spec => [](NInv /\ DotsInv)
<1>1. Init => NInv /\ DotsInv
  BY InitInv, Sets DEF Init, DotsInv
<1>2. NInv /\ DotsInv /\ [Next]_vars => NInv' /\ DotsInv'
  BY NextInv, DotsStep
<1> QED BY <1>1, <1>2, PTL DEF Spec

-----------------------------------------------------------------------------
(* What it means. *)

LEMMA CacheFollows == NInv /\ DotsInv => CacheOK
<1> SUFFICES ASSUME NInv, DotsInv
             PROVE  CacheOK
  OBVIOUS
<1>1. VarInv /\ RefsExact /\ Good(icache, dinode)
  BY DEF NInv
<1>2. ASSUME NEW s \in Slots
      PROVE  icache[s].ref \in 0..(6 * Cardinality(Procs))
  <2> DEFINE n == Cardinality(PointersTo(Pointers, s))
             k == 6 * Cardinality(Procs)
  <2>1. icache[s].ref = n
    BY <1>1, ExactMeans
  <2>2. n \in Nat /\ n <= k /\ k \in Nat
    BY PointersFinite
  <2> HIDE DEF n, k
  <2>3. n \in 0..k
    BY <2>2
  <2> QED BY <2>1, <2>3 DEF k
<1>3. icache \in [Slots -> [inum : 0..NInums, ref : 0..(6 * Cardinality(Procs)),
                             valid : BOOLEAN, type : {"free", "file", "dir"}, nlink : Nat]]
  <2> DEFINE B == 0..(6 * Cardinality(Procs))
  <2>1. \A s \in Slots : icache[s].ref \in B
    BY <1>2
  <2> HIDE DEF B
  <2>2. icache \in [Slots -> [inum : 0..NInums, ref : B, valid : BOOLEAN,
                              type : {"free", "file", "dir"}, nlink : Nat]]
    BY <1>1, <2>1 DEF VarInv, Cache, Kinds
  <2> QED BY <2>2 DEF B
<1>4. TypeOK
  BY <1>1, <1>3 DEF VarInv, Disk, Kinds, TypeOK, DotsInv
<1>5. CacheCoherent
  BY <1>1 DEF Good, CacheCoherent
<1> QED BY <1>1, <1>4, <1>5 DEF CacheOK

LEMMA UseFollows == NInv => InUse
BY DEF NInv, ProcInv, InUse, Uses, Node

LEMMA LinksFollow == NInv => LinksCover
<1> SUFFICES ASSUME NInv, NEW i \in Inums
             PROVE  /\ Cardinality(EntriesFor(i)) <= dinode[i].nlink
                    /\ EntriesFor(i) /= {} => dinode[i].type /= "free"
  BY DEF LinksCover, EntriesFor
<1>1. VarInv /\ CountInv /\ dinode[i].nlink \in Nat
  BY DEF NInv, VarInv, Disk
<1>2. /\ Cardinality(EntriesFor(i)) \in Nat /\ Cardinality(Subdirs(i)) \in Nat
      /\ Cardinality(Claims(i)) \in Nat
  BY LinkSetsFinite, ClaimsFinite DEF Claims
<1>3. Cardinality(EntriesFor(i)) + Cardinality(Subdirs(i)) + Cardinality(Claims(i))
            + (IF i = Root THEN 1 ELSE 0) <= dinode[i].nlink
  BY <1>1 DEF CountInv
<1>4. Cardinality(EntriesFor(i)) <= dinode[i].nlink
  BY <1>1, <1>2, <1>3
<1>5. EntriesFor(i) /= {} => dinode[i].type /= "free"
  <2>1. EntriesFor(i) /= {} => \E j \in Inums, n \in Names : dinode[j].ent[n] = i
    BY DEF EntriesFor
  <2> QED BY <1>1, <2>1, Linked
<1> QED BY <1>4, <1>5

\* The inode cache (iget, ilock, iupdate, iput): in every state the count of an
\* entry is the number of pointers to it, an inode has one entry, and a valid
\* entry says of its inode what the disk says.
THEOREM CacheIsExact == Spec => []CacheOK
BY SpecInv, CacheFollows, PTL

\* iput frees an inode only when nobody else refers to it: no inode that a call
\* has looked up, a process has open or is in is ever free, and no check of the
\* kernel's for that (ilock: no type; unlink: nlink < 1) fails.
THEOREM UsedIsNotFreed == Spec => []InUse
BY SpecInv, UseFollows, PTL

\* create, link and unlink keep nlink at no less than the number of entries for
\* the inode, between any two steps of any calls, and no entry is for a free inode.
THEOREM LinksAreCounted == Spec => []LinksCover
BY SpecInv, LinksFollow, PTL
=============================================================================
