----------------------------- MODULE FilesProofs -----------------------------
(***************************************************************************)
(* Proofs about the file table, descriptors and pipes, for any number of   *)
(* processes, entries, pipes and bytes: references and ends are counted    *)
(* exactly, nobody uses a pipe whose page was freed, and nobody sleeps     *)
(* through what he waits for.                                              *)
(***************************************************************************)
EXTENDS Files, FiniteSetTheorems, TLAPS

Reading == {"read", "rsleep"}
Writing == {"write", "wsleep"}
InIO(p) == pc[p] \in Reading \cup Writing

-----------------------------------------------------------------------------
(* The inductive invariant. *)

\* The counts of EndsOwned; its last part follows from them and UseInv.
EndsCounted ==
    \A q \in Pipes :
        /\ \A w \in BOOLEAN :
            Cardinality(EndFiles(q, w)) + Cardinality(EndClosers(q, w))
            = IF pipe[q].used /\ (IF w THEN pipe[q].writeopen ELSE pipe[q].readopen)
              THEN 1 ELSE 0
        /\ pipe[q].used <=> pipe[q].readopen \/ pipe[q].writeopen

\* An entry nobody refers to is clear.
EntryInv ==
    \A f \in Files :
        /\ file[f].ref = 0 => file[f] = NoFile
        /\ file[f].type = "pipe" => file[f].pipe \in Pipes

\* The locals of sys_pipe and fileclose, by the place the process is at.
LocalAt(p) ==
    /\ pc[p] = "pipe1" => f0[p] \in Files /\ f1[p] = None
    /\ pc[p] = "pipe2" => f0[p] \in Files /\ f1[p] \in Files
    /\ pc[p] = "close" =>
        /\ ff[p] \in Entries /\ ret[p] \in {"user", "bad", "exit"}
        /\ f0[p] = None
        /\ ret[p] /= "bad" => f1[p] = None
        /\ ff[p].type = "pipe" => ff[p].pipe \in Pipes
    /\ pc[p] /= "close" => ff[p] = None
    /\ pc[p] \notin {"pipe1", "pipe2", "bad", "close"} => f0[p] = None /\ f1[p] = None
    /\ f0[p] \in Files => f0[p] /= f1[p]
    /\ pc[p] = "unused" => \A f \in Files : ofile[p][f] = 0

LocalInv == \A p \in Procs : LocalAt(p)

\* What sys_pipe has allocated and not yet filled is nobody else's.
NewFile(p, f) ==
    /\ file[f].ref = 1 /\ file[f].type = "none"
    /\ \A x \in Procs : ofile[x][f] = 0
    /\ \A x \in Procs : f \in {f0[x], f1[x]} => x = p

NewAt(p) ==
    pc[p] \in {"pipe1", "pipe2"} =>
        \A f \in Files : f \in {f0[p], f1[p]} => NewFile(p, f)

NewInv == \A p \in Procs : NewAt(p)

\* Who reads or writes has a descriptor for that end of the pipe.
UseAt(p) ==
    /\ ~InIO(p) => at[p] = None
    /\ InIO(p) =>
        /\ at[p] \in Pipes
        /\ \E f \in Files : ofile[p][f] > 0 /\ IsEnd(file[f], at[p], pc[p] \in Writing)
    /\ pc[p] \in Writing => Len(left[p]) > 0
    /\ pc[p] \in Reading => want[p] > 0

UseInv == \A p \in Procs : UseAt(p)

\* A pipe has at most PIPESIZE bytes, though its counters wrap around.
FillInv == \A q \in Pipes : Used(q) <= PIPESIZE

FInv ==
    /\ TypeOK /\ RefsExact /\ EndsCounted /\ EntryInv /\ LocalInv
    /\ NewInv /\ UseInv /\ FillInv /\ NoLostWakeup

-----------------------------------------------------------------------------
(* Counters that wrap around. *)

LEMMA ModAdd ==
    ASSUME NEW W \in Nat, W > 0, NEW a \in 0..(W - 1), NEW k \in 0..W
    PROVE  (a + k) % W = IF a + k < W THEN a + k ELSE a + k - W
OBVIOUS

LEMMA ModSub ==
    ASSUME NEW W \in Nat, W > 0, NEW a \in 0..(W - 1), NEW b \in 0..(W - 1)
    PROVE  (a - b) % W = IF b <= a THEN a - b ELSE a - b + W
OBVIOUS

-----------------------------------------------------------------------------
(* Counting references.  The operators take the functions they count as      *)
(* arguments, so that a lemma applies to the old and to the new state.       *)

OfType == [Procs -> [Files -> 0..NOFILE]]
LocType == [Procs -> Files \cup {None}]

Desc(o, f) == {x \in Procs \X (1..NOFILE) : x[2] <= o[x[1]][f]}
Held(v, f) == {p \in Procs : v[p] = f}
Refs(o, a, b, f) == Cardinality(Desc(o, f)) + Cardinality(Held(a, f)) + Cardinality(Held(b, f))

LEMMA DescFinite ==
    ASSUME NEW o \in OfType, NEW f \in Files
    PROVE  /\ IsFiniteSet(Desc(o, f)) /\ Cardinality(Desc(o, f)) \in Nat
           /\ Cardinality(Desc(o, f)) <= Cardinality(Procs) * NOFILE
<1>1. IsFiniteSet(1..NOFILE) /\ Cardinality(1..NOFILE) = NOFILE
  BY FS_Interval, SizeAssumption
<1>2. /\ IsFiniteSet(Procs \X (1..NOFILE))
      /\ Cardinality(Procs \X (1..NOFILE)) = Cardinality(Procs) * NOFILE
  BY <1>1, FS_Product, ProcsAssumption
<1>3. Desc(o, f) \in SUBSET (Procs \X (1..NOFILE))
  BY DEF Desc
<1> QED BY <1>2, <1>3, FS_Subset, FS_CardinalityType

LEMMA HeldFinite ==
    ASSUME NEW v, NEW f
    PROVE  IsFiniteSet(Held(v, f)) /\ Cardinality(Held(v, f)) \in Nat
<1>1. Held(v, f) \in SUBSET Procs
  BY DEF Held
<1> QED BY <1>1, FS_Subset, FS_CardinalityType, ProcsAssumption

\* Two locals of one call are never the same entry: so no count exceeds this.
LEMMA RefsBound ==
    ASSUME NEW o \in OfType, NEW a, NEW b, NEW f \in Files,
           \A p \in Procs : a[p] = f => b[p] /= f
    PROVE  Refs(o, a, b, f) \in 0..(Cardinality(Procs) * (NOFILE + 1))
<1>1. /\ Held(a, f) \cup Held(b, f) \in SUBSET Procs
      /\ Held(a, f) \cap Held(b, f) = {}
  BY DEF Held
<1>2. Cardinality(Held(a, f) \cup Held(b, f)) <= Cardinality(Procs)
  BY <1>1, FS_Subset, ProcsAssumption
<1>3. Cardinality(Held(a, f) \cup Held(b, f)) = Cardinality(Held(a, f)) + Cardinality(Held(b, f))
  <2>1. Cardinality(Held(a, f) \cap Held(b, f)) = 0
    BY <1>1, FS_EmptySet
  <2>2. Cardinality(Held(a, f) \cup Held(b, f)) =
            Cardinality(Held(a, f)) + Cardinality(Held(b, f)) - Cardinality(Held(a, f) \cap Held(b, f))
    BY HeldFinite, FS_Union
  <2> QED BY <2>1, <2>2, HeldFinite
<1>4. Cardinality(Procs) * (NOFILE + 1) = Cardinality(Procs) * NOFILE + Cardinality(Procs)
  BY FS_CardinalityType, ProcsAssumption, SizeAssumption
<1>5. Cardinality(Procs) * NOFILE \in Nat /\ Cardinality(Procs) \in Nat
  BY FS_CardinalityType, ProcsAssumption, SizeAssumption
<1> QED BY <1>2, <1>3, <1>4, <1>5, DescFinite, HeldFinite DEF Refs

LEMMA RefsNat ==
    ASSUME NEW o \in OfType, NEW a, NEW b, NEW f \in Files
    PROVE  Refs(o, a, b, f) \in Nat
BY DescFinite, HeldFinite DEF Refs

\* An entry whose count is zero is in no descriptor and in no local.
LEMMA RefsZero ==
    ASSUME NEW o \in OfType, NEW a, NEW b, NEW f \in Files, Refs(o, a, b, f) = 0,
           NEW p \in Procs
    PROVE  o[p][f] = 0 /\ a[p] /= f /\ b[p] /= f
<1>1. /\ Cardinality(Desc(o, f)) = 0 /\ Cardinality(Held(a, f)) = 0
      /\ Cardinality(Held(b, f)) = 0
  BY DescFinite, HeldFinite DEF Refs
<1>2. Desc(o, f) = {} /\ Held(a, f) = {} /\ Held(b, f) = {}
  BY <1>1, DescFinite, HeldFinite, FS_EmptySet
<1>3. <<p, 1>> \notin Desc(o, f)
  BY <1>2
<1>4. o[p][f] \in 0..NOFILE
  BY DEF OfType
<1>5. o[p][f] = 0
  BY <1>3, <1>4, SizeAssumption DEF Desc
<1> QED BY <1>2, <1>5 DEF Held

\* A descriptor more, a descriptor less.
LEMMA DescUp ==
    ASSUME NEW o \in OfType, NEW u \in OfType, NEW p \in Procs, NEW f \in Files, NEW g \in Files,
           u[p][f] = o[p][f] + 1,
           \A x \in Procs : \A h \in Files : x /= p \/ h /= f => u[x][h] = o[x][h]
    PROVE  Cardinality(Desc(u, g)) = Cardinality(Desc(o, g)) + (IF g = f THEN 1 ELSE 0)
<1> DEFINE n == o[p][f] + 1
<1>1. n \in 1..NOFILE /\ \A x \in Procs : \A h \in Files : o[x][h] \in 0..NOFILE
  BY DEF OfType
<1>2. CASE g = f
  <2>1. <<p, n>> \notin Desc(o, f)
    BY <1>1 DEF Desc
  <2>2. ASSUME NEW x \in Procs, NEW i \in 1..NOFILE
        PROVE  i <= u[x][f] <=> i <= o[x][f] \/ (x = p /\ i = n)
    BY <1>1
  <2>3. Desc(u, f) = Desc(o, f) \cup {<<p, n>>}
    BY <1>1, <2>2 DEF Desc
  <2> QED BY <1>2, <2>1, <2>3, FS_AddElement, DescFinite, ZenonT(120)
<1>3. CASE g /= f
  <2>1. Desc(u, g) = Desc(o, g)
    BY <1>3 DEF Desc
  <2> QED BY <1>3, <2>1, DescFinite
<1> QED BY <1>2, <1>3

LEMMA DescDown ==
    ASSUME NEW o \in OfType, NEW u \in OfType, NEW p \in Procs, NEW f \in Files, NEW g \in Files,
           u[p][f] = o[p][f] - 1,
           \A x \in Procs : \A h \in Files : x /= p \/ h /= f => u[x][h] = o[x][h]
    PROVE  Cardinality(Desc(u, g)) = Cardinality(Desc(o, g)) - (IF g = f THEN 1 ELSE 0)
<1>1. o[p][f] = u[p][f] + 1
  BY DEF OfType
<1>2. \A x \in Procs : \A h \in Files : x /= p \/ h /= f => o[x][h] = u[x][h]
  OBVIOUS
<1>3. Cardinality(Desc(o, g)) = Cardinality(Desc(u, g)) + (IF g = f THEN 1 ELSE 0)
  BY <1>1, <1>2, DescUp, ZenonT(120)
<1> QED BY <1>3, DescFinite

\* A child's descriptors.
LEMMA DescFork ==
    ASSUME NEW o \in OfType, NEW u \in OfType, NEW p \in Procs, NEW c \in Procs, NEW g \in Files,
           \A h \in Files : o[c][h] = 0 /\ u[c][h] = o[p][h],
           \A x \in Procs \ {c} : u[x] = o[x]
    PROVE  Cardinality(Desc(u, g)) = Cardinality(Desc(o, g)) + o[p][g]
<1> DEFINE n == o[p][g]
           D == {c} \X (1..n)
<1>1. n \in 0..NOFILE /\ \A x \in Procs : \A h \in Files : o[x][h] \in 0..NOFILE
  BY DEF OfType
<1> HIDE DEF n
<1>2. IsFiniteSet(1..n) /\ Cardinality(1..n) = n
  <2>1. n \in Int /\ 1 \in Int
    BY <1>1
  <2>2. IsFiniteSet(1..n) /\ Cardinality(1..n) = IF 1 > n THEN 0 ELSE n - 1 + 1
    BY <2>1, FS_Interval
  <2> QED BY <1>1, <2>2
<1>3. IsFiniteSet(D) /\ Cardinality(D) = n
  <2>1. IsFiniteSet({c}) /\ Cardinality({c}) = 1
    BY FS_Singleton
  <2>2. IsFiniteSet(D) /\ Cardinality(D) = Cardinality({c}) * Cardinality(1..n)
    BY <1>2, <2>1, FS_Product, Zenon
  <2>3. n \in Nat
    BY <1>1, SizeAssumption
  <2> QED BY <1>2, <2>1, <2>2, <2>3
<1>4. Desc(u, g) = Desc(o, g) \cup D
  <2>1. ASSUME NEW x \in Procs, NEW i \in 1..NOFILE
        PROVE  i <= u[x][g] <=> i <= o[x][g] \/ (x = c /\ i \in 1..n)
    BY <1>1 DEF n
  <2>2. 1..n \subseteq 1..NOFILE
    BY <1>1, SizeAssumption
  <2>3. D \subseteq Procs \X (1..NOFILE)
    BY <2>2, Zenon
  <2> QED BY <2>1, <2>2, <2>3 DEF Desc
<1>5. Desc(o, g) \cap D = {}
  <2>1. \A i \in 1..n : ~(i <= o[c][g])
    BY <1>1
  <2> QED BY <2>1 DEF Desc
<1>6. Cardinality(Desc(o, g) \cap D) = 0
  BY <1>5, FS_EmptySet
<1>7. Cardinality(Desc(o, g) \cup D) =
          Cardinality(Desc(o, g)) + Cardinality(D) - Cardinality(Desc(o, g) \cap D)
  BY <1>3, FS_Union, DescFinite
<1> QED BY <1>1, <1>3, <1>4, <1>6, <1>7, DescFinite DEF n

\* A local that gets or loses an entry.
LEMMA HeldSet ==
    ASSUME NEW v, NEW u, NEW p \in Procs, NEW g,
           v[p] /= g, u[p] = g, \A x \in Procs \ {p} : u[x] = v[x]
    PROVE  Cardinality(Held(u, g)) = Cardinality(Held(v, g)) + 1
<1>1. Held(u, g) = Held(v, g) \cup {p} /\ p \notin Held(v, g)
  BY DEF Held
<1> QED BY <1>1, HeldFinite, FS_AddElement

LEMMA HeldSame ==
    ASSUME NEW v, NEW u, NEW g, \A x \in Procs : u[x] = g <=> v[x] = g
    PROVE  Cardinality(Held(u, g)) = Cardinality(Held(v, g))
<1>1. Held(u, g) = Held(v, g)
  BY DEF Held
<1> QED BY <1>1

\* dup and pipe look for a free descriptor first.
LEMMA FreeFdsRoom ==
    ASSUME ofile \in OfType, NEW p \in Procs, NEW f \in Files, FreeFds(p) > 0
    PROVE  ofile[p][f] < NOFILE
<1> DEFINE S == {x \in Files \X (1..NOFILE) : x[2] <= ofile[p][x[1]]}
           D == {f} \X (1..NOFILE)
<1>1. SUFFICES ASSUME ofile[p][f] = NOFILE PROVE FALSE
  BY SizeAssumption DEF OfType
<1>2. D \in SUBSET S
  BY <1>1, SizeAssumption
<1>3. IsFiniteSet(D) /\ Cardinality(D) = 1 * NOFILE
  <2>1. IsFiniteSet({f}) /\ Cardinality({f}) = 1
    BY FS_Singleton
  <2>2. IsFiniteSet(1..NOFILE) /\ Cardinality(1..NOFILE) = NOFILE
    BY FS_Interval, SizeAssumption
  <2> QED BY <2>1, <2>2, FS_Product, ZenonT(120)
<1>4. IsFiniteSet(S)
  <2>1. IsFiniteSet(Files) /\ IsFiniteSet(1..NOFILE)
    BY FS_Interval, SizeAssumption DEF Files
  <2>2. IsFiniteSet(Files \X (1..NOFILE))
    BY <2>1, FS_Product
  <2>3. S \in SUBSET (Files \X (1..NOFILE))
    OBVIOUS
  <2> QED BY <2>2, <2>3, FS_Subset
<1>5. Cardinality(S) >= NOFILE /\ Cardinality(S) \in Nat
  <2>1. Cardinality(D) <= Cardinality(S)
    BY <1>2, <1>4, FS_Subset
  <2> QED BY <1>3, <1>4, <2>1, FS_CardinalityType, SizeAssumption
<1>6. FreeFds(p) = NOFILE - Cardinality(S)
  BY DEF FreeFds
<1> QED BY <1>5, <1>6, SizeAssumption

-----------------------------------------------------------------------------
(* Counting the ends of a pipe, in the table and in fileclose's copies. *)

EndsF(F, q, w) == {f \in Files : F[f].ref > 0 /\ IsEnd(F[f], q, w)}
EndsC(c, q, w) == {p \in Procs : c[p] /= None /\ IsEnd(c[p], q, w)}
Count(F, c, q, w) == Cardinality(EndsF(F, q, w)) + Cardinality(EndsC(c, q, w))

LEMMA EndsFinite ==
    ASSUME NEW F, NEW c, NEW q, NEW w
    PROVE  /\ IsFiniteSet(EndsF(F, q, w)) /\ Cardinality(EndsF(F, q, w)) \in Nat
           /\ IsFiniteSet(EndsC(c, q, w)) /\ Cardinality(EndsC(c, q, w)) \in Nat
<1>1. IsFiniteSet(Files)
  BY FS_Interval, SizeAssumption DEF Files
<1>2. EndsF(F, q, w) \in SUBSET Files /\ EndsC(c, q, w) \in SUBSET Procs
  BY DEF EndsF, EndsC
<1> QED BY <1>1, <1>2, FS_Subset, FS_CardinalityType, ProcsAssumption

LEMMA CountSame ==
    ASSUME NEW F, NEW G, NEW c, NEW q, NEW w,
           \A f \in Files : G[f].ref > 0 /\ IsEnd(G[f], q, w) <=> F[f].ref > 0 /\ IsEnd(F[f], q, w)
    PROVE  Count(G, c, q, w) = Count(F, c, q, w)
<1>1. EndsF(G, q, w) = EndsF(F, q, w)
  BY DEF EndsF
<1> QED BY <1>1 DEF Count

\* The last fileclose moves an entry from the table to its copy.
LEMMA CountMoved ==
    ASSUME NEW F, NEW G, NEW c, NEW d, NEW q, NEW w, NEW f \in Files, NEW p \in Procs,
           F[f].ref > 0, c[p] = None, d[p] = F[f], d[p] /= None, ~IsEnd(G[f], q, w),
           \A g \in Files \ {f} : G[g] = F[g],
           \A x \in Procs \ {p} : d[x] = c[x]
    PROVE  Count(G, d, q, w) = Count(F, c, q, w)
<1>1. CASE IsEnd(F[f], q, w)
  <2>1. f \in EndsF(F, q, w) /\ EndsF(G, q, w) = EndsF(F, q, w) \ {f}
    BY <1>1 DEF EndsF
  <2>2. p \notin EndsC(c, q, w) /\ EndsC(d, q, w) = EndsC(c, q, w) \cup {p}
    BY <1>1 DEF EndsC
  <2>3. Cardinality(EndsF(G, q, w)) = Cardinality(EndsF(F, q, w)) - 1
    BY <2>1, EndsFinite, FS_RemoveElement
  <2>4. Cardinality(EndsC(d, q, w)) = Cardinality(EndsC(c, q, w)) + 1
    BY <2>2, EndsFinite, FS_AddElement
  <2> QED BY <2>3, <2>4, EndsFinite DEF Count
<1>2. CASE ~IsEnd(F[f], q, w)
  <2>1. EndsF(G, q, w) = EndsF(F, q, w)
    BY <1>2 DEF EndsF
  <2>2. EndsC(d, q, w) = EndsC(c, q, w)
    BY <1>2 DEF EndsC
  <2> QED BY <2>1, <2>2 DEF Count
<1> QED BY <1>1, <1>2

\* The rest of fileclose drops the copy.
LEMMA CountDropped ==
    ASSUME NEW F, NEW c, NEW d, NEW q, NEW w, NEW p \in Procs,
           c[p] /= None, d[p] = None, \A x \in Procs \ {p} : d[x] = c[x]
    PROVE  Count(F, d, q, w) = Count(F, c, q, w) - (IF IsEnd(c[p], q, w) THEN 1 ELSE 0)
<1>1. EndsC(d, q, w) = EndsC(c, q, w) \ {p}
  BY DEF EndsC
<1>2. p \in EndsC(c, q, w) <=> IsEnd(c[p], q, w)
  BY DEF EndsC
<1>3. Cardinality(EndsC(d, q, w)) = Cardinality(EndsC(c, q, w)) - (IF IsEnd(c[p], q, w) THEN 1 ELSE 0)
  <2>1. Cardinality(EndsC(c, q, w) \ {p}) =
            IF p \in EndsC(c, q, w) THEN Cardinality(EndsC(c, q, w)) - 1 ELSE Cardinality(EndsC(c, q, w))
    BY EndsFinite, FS_RemoveElement
  <2> QED BY <1>1, <1>2, <2>1, EndsFinite
<1> QED BY <1>3, EndsFinite DEF Count

\* An entry that becomes an end.
LEMMA CountAdded ==
    ASSUME NEW F, NEW G, NEW c, NEW q, NEW w, NEW f \in Files,
           ~IsEnd(F[f], q, w), G[f].ref > 0, IsEnd(G[f], q, w),
           \A g \in Files \ {f} : G[g].ref > 0 /\ IsEnd(G[g], q, w) <=> F[g].ref > 0 /\ IsEnd(F[g], q, w)
    PROVE  Count(G, c, q, w) = Count(F, c, q, w) + 1
<1>1. f \notin EndsF(F, q, w) /\ EndsF(G, q, w) = EndsF(F, q, w) \cup {f}
  BY DEF EndsF
<1>2. Cardinality(EndsF(G, q, w)) = Cardinality(EndsF(F, q, w)) + 1
  BY <1>1, EndsFinite, FS_AddElement
<1> QED BY <1>2, EndsFinite DEF Count

\* A count of zero, and an entry and a copy at once.
LEMMA CountNone ==
    ASSUME NEW F, NEW c, NEW q, NEW w, Count(F, c, q, w) = 0
    PROVE  /\ \A f \in Files : ~(F[f].ref > 0 /\ IsEnd(F[f], q, w))
           /\ \A p \in Procs : ~(c[p] /= None /\ IsEnd(c[p], q, w))
<1>1. Cardinality(EndsF(F, q, w)) = 0 /\ Cardinality(EndsC(c, q, w)) = 0
  BY EndsFinite DEF Count
<1>2. EndsF(F, q, w) = {} /\ EndsC(c, q, w) = {}
  BY <1>1, EndsFinite, FS_EmptySet
<1> QED BY <1>2 DEF EndsF, EndsC

LEMMA CountTwo ==
    ASSUME NEW F, NEW c, NEW q, NEW w, NEW f \in Files, NEW p \in Procs,
           F[f].ref > 0, IsEnd(F[f], q, w), c[p] /= None, IsEnd(c[p], q, w)
    PROVE  Count(F, c, q, w) > 1
<1>1. EndsF(F, q, w) /= {} /\ EndsC(c, q, w) /= {}
  BY DEF EndsF, EndsC
<1>2. Cardinality(EndsF(F, q, w)) /= 0 /\ Cardinality(EndsC(c, q, w)) /= 0
  BY <1>1, EndsFinite, FS_EmptySet
<1> QED BY <1>2, EndsFinite DEF Count

-----------------------------------------------------------------------------
(* What the parts of the invariant need from a step. *)

\* A step of p, or about p, can only wake the others up.
Others(p) ==
    \A x \in Procs \ {p} :
        \/ pc'[x] = pc[x]
        \/ pc[x] = "rsleep" /\ pc'[x] = "read"
        \/ pc[x] = "wsleep" /\ pc'[x] = "write"

LocalsOf(x) == f0'[x] = f0[x] /\ f1'[x] = f1[x] /\ ff'[x] = ff[x] /\ ret'[x] = ret[x]

\* Same entry, but for the number of its references.
SameEntry(f) ==
    /\ file'[f].type = file[f].type /\ file'[f].pipe = file[f].pipe
    /\ file'[f].writable = file[f].writable

LEMMA RefsForm ==
    /\ RefsExact <=> \A f \in Files : file[f].ref = Refs(ofile, f0, f1, f)
    /\ RefsExact' <=> \A f \in Files : file'[f].ref = Refs(ofile', f0', f1', f)
BY DEF RefsExact, Refs, Desc, Descriptors, Held

LEMMA EndsForm ==
    /\ EndsCounted <=> \A q \in Pipes :
        /\ \A w \in BOOLEAN : Count(file, ff, q, w)
            = IF pipe[q].used /\ (IF w THEN pipe[q].writeopen ELSE pipe[q].readopen)
              THEN 1 ELSE 0
        /\ pipe[q].used <=> pipe[q].readopen \/ pipe[q].writeopen
    /\ EndsCounted' <=> \A q \in Pipes :
        /\ \A w \in BOOLEAN : Count(file', ff', q, w)
            = IF pipe'[q].used /\ (IF w THEN pipe'[q].writeopen ELSE pipe'[q].readopen)
              THEN 1 ELSE 0
        /\ pipe'[q].used <=> pipe'[q].readopen \/ pipe'[q].writeopen
BY DEF EndsCounted, Count, EndsF, EndsC, EndFiles, EndClosers

\* A referenced entry has a descriptor, a local, or both.
LEMMA Referenced ==
    ASSUME TypeOK, RefsExact, NEW f \in Files, NEW p \in Procs,
           ofile[p][f] > 0 \/ f0[p] = f \/ f1[p] = f
    PROVE  file[f].ref > 0
<1>1. ofile \in OfType /\ file[f].ref \in Nat
  BY DEF TypeOK, OfType, Entries
<1>2. file[f].ref = Refs(ofile, f0, f1, f)
  BY RefsForm
<1>3. SUFFICES ASSUME Refs(ofile, f0, f1, f) = 0 PROVE FALSE
  BY <1>1, <1>2
<1>4. ofile[p][f] = 0 /\ f0[p] /= f /\ f1[p] /= f
  BY <1>1, <1>3, RefsZero
<1> QED BY <1>4

LEMMA Unreferenced ==
    ASSUME TypeOK, RefsExact, NEW f \in Files, file[f].ref = 0, NEW p \in Procs
    PROVE  ofile[p][f] = 0 /\ f0[p] /= f /\ f1[p] /= f
<1>1. ofile \in OfType /\ Refs(ofile, f0, f1, f) = 0
  BY RefsForm DEF TypeOK, OfType
<1> QED BY <1>1, RefsZero

\* The number of references stays in its range.
Loose == [ref : Int, type : {"none", "pipe"}, pipe : Pipes \cup {None}, writable : BOOLEAN]

LEMMA FileTyped ==
    ASSUME file' \in [Files -> Loose], RefsExact', (ofile \in OfType)', LocalInv'
    PROVE  file' \in [Files -> Entries]
<1>1. SUFFICES ASSUME NEW f \in Files PROVE file'[f] \in Entries
  BY Zenon
<1>2. file'[f].ref = Refs(ofile', f0', f1', f)
  BY RefsForm
<1>3. \A p \in Procs : f0'[p] = f => f1'[p] /= f
  BY DEF LocalInv, LocalAt
<1>4. file'[f].ref \in 0..(Cardinality(Procs) * (NOFILE + 1))
  BY <1>2, <1>3, RefsBound
<1> QED BY <1>4 DEF Loose, Entries

LEMMA LocalStep ==
    ASSUME LocalInv, NEW p \in Procs, Others(p),
           \A x \in Procs \ {p} : LocalsOf(x) /\ ofile'[x] = ofile[x],
           LocalAt(p)'
    PROVE  LocalInv'
<1>1. SUFFICES ASSUME NEW x \in Procs, x /= p PROVE LocalAt(x)'
  BY DEF LocalInv
<1>2. /\ LocalAt(x) /\ LocalsOf(x) /\ ofile'[x] = ofile[x]
      /\ \/ pc'[x] = pc[x]
         \/ pc[x] = "rsleep" /\ pc'[x] = "read"
         \/ pc[x] = "wsleep" /\ pc'[x] = "write"
  BY <1>1 DEF LocalInv, Others
<1> QED BY <1>2 DEF LocalAt, LocalsOf

\* An action may touch what p has, and what is free.
LEMMA NewStep ==
    ASSUME NewInv, TypeOK, NEW p \in Procs, Others(p),
           \A x \in Procs \ {p} : LocalsOf(x),
           NEW G \in SUBSET Files,
           \A g \in G : file[g].ref = 0 \/ ofile[p][g] > 0 \/ g \in {f0[p], f1[p]},
           \A f \in Files \ G : /\ file'[f].ref = file[f].ref /\ file'[f].type = file[f].type
                                /\ \A x \in Procs : ofile'[x][f] = ofile[x][f],
           {f0'[p], f1'[p]} \subseteq G \cup {f0[p], f1[p], None},
           NewAt(p)'
    PROVE  NewInv'
<1>1. SUFFICES ASSUME NEW x \in Procs, x /= p, pc'[x] \in {"pipe1", "pipe2"},
                      NEW f \in Files, f \in {f0'[x], f1'[x]}
               PROVE  NewFile(x, f)'
  BY DEF NewInv, NewAt
<1>2. pc[x] \in {"pipe1", "pipe2"} /\ f \in {f0[x], f1[x]}
  BY <1>1 DEF Others, LocalsOf
<1>3. NewFile(x, f)
  BY <1>2 DEF NewInv, NewAt
<1>4. file[f].ref = 1 /\ ofile[p][f] = 0 /\ f \notin {f0[p], f1[p]}
  BY <1>1, <1>3 DEF NewFile
<1>5. f \notin G
  BY <1>4
<1>6. f /= None
  BY NoneAssumption
<1>7. \A y \in Procs : f \in {f0'[y], f1'[y]} => f \in {f0[y], f1[y]}
  BY <1>4, <1>5, <1>6 DEF LocalsOf
<1> QED BY <1>3, <1>5, <1>7 DEF NewFile

LEMMA UseStep ==
    ASSUME UseInv, NEW p \in Procs, Others(p),
           \A x \in Procs \ {p} : /\ ofile'[x] = ofile[x] /\ at'[x] = at[x]
                                  /\ left'[x] = left[x] /\ want'[x] = want[x],
           \A f \in Files : \A x \in Procs \ {p} : ofile'[x][f] > 0 => SameEntry(f),
           UseAt(p)'
    PROVE  UseInv'
<1>1. SUFFICES ASSUME NEW x \in Procs, x /= p PROVE UseAt(x)'
  BY DEF UseInv
<1>2. /\ UseAt(x) /\ ofile'[x] = ofile[x] /\ at'[x] = at[x]
      /\ left'[x] = left[x] /\ want'[x] = want[x]
  BY <1>1 DEF UseInv
<1>3. /\ pc'[x] \in Reading <=> pc[x] \in Reading
      /\ pc'[x] \in Writing <=> pc[x] \in Writing
  BY <1>1 DEF Others, Reading, Writing
<1>4. InIO(x)' <=> InIO(x)
  BY <1>3 DEF InIO
<1>5. ASSUME InIO(x)
      PROVE  \E f \in Files : ofile'[x][f] > 0 /\ IsEnd(file'[f], at'[x], pc'[x] \in Writing)
  <2>1. PICK f \in Files : ofile[x][f] > 0 /\ IsEnd(file[f], at[x], pc[x] \in Writing)
    BY <1>2, <1>5 DEF UseAt
  <2>2. SameEntry(f)
    BY <1>1, <1>2, <2>1
  <2> QED BY <1>2, <1>3, <2>1, <2>2 DEF SameEntry, IsEnd
<1> QED BY <1>2, <1>3, <1>4, <1>5 DEF UseAt

\* A step that does not touch a pipe cannot disturb who sleeps.
LEMMA WakeStep ==
    ASSUME NoLostWakeup, NEW p \in Procs, Others(p), UNCHANGED <<pipe, abandoned>>,
           \A x \in Procs \ {p} : at'[x] = at[x],
           pc'[p] \notin {"rsleep", "wsleep"}
    PROVE  NoLostWakeup'
<1>1. SUFFICES ASSUME NEW x \in Procs, pc'[x] \in {"rsleep", "wsleep"}
               PROVE  /\ pc'[x] = "rsleep" =>
                            \/ Empty(at[x])' /\ pipe'[at'[x]].writeopen
                            \/ at'[x] \in abandoned'
                      /\ pc'[x] = "wsleep" => Full(at[x])' /\ pipe'[at'[x]].readopen
  BY DEF NoLostWakeup
<1>2. x /= p /\ pc[x] = pc'[x] /\ at'[x] = at[x]
  BY <1>1 DEF Others
<1> QED BY <1>2 DEF NoLostWakeup, Empty, Full

-----------------------------------------------------------------------------
(* Closing: fileclose up to the release, wherever it is called from. *)

LEMMA FileCloseStep ==
    ASSUME FInv, NEW p \in Procs, NEW f \in Files, NEW then \in {"user", "bad", "exit"},
           fileclose(p, f, then), pc[p] \in {"user", "bad", "exit"},
           ofile[p][f] > 0 \/ f \in {f0[p], f1[p]},
           ofile' \in OfType, f0' \in LocType, f1' \in LocType,
           \A g \in Files : Refs(ofile', f0', f1', g)
                            = Refs(ofile, f0, f1, g) - (IF g = f THEN 1 ELSE 0),
           \A x \in Procs \ {p} : ofile'[x] = ofile[x] /\ f0'[x] = f0[x] /\ f1'[x] = f1[x],
           \A x \in Procs : \A h \in Files \ {f} : ofile'[x][h] = ofile[x][h],
           f0'[p] = None, f1'[p] \in {f1[p], None}, then /= "bad" => f1'[p] = None,
           UNCHANGED <<pipe, killed, io, abandoned>>
    PROVE  FInv'
<1> USE DEF FInv
<1>t. /\ file \in [Files -> Entries] /\ ff \in [Procs -> Entries \cup {None}]
      /\ pc \in [Procs -> PCs] /\ ret \in [Procs -> PCs]
  BY DEF TypeOK
<1>0. file[f].ref > 0 /\ file[f].ref \in Nat
  BY Referenced, <1>t DEF Entries
<1>1. /\ \A g \in Files : file'[g].ref = file[g].ref - (IF g = f THEN 1 ELSE 0)
      /\ \A g \in Files \ {f} : file'[g] = file[g]
      /\ file' \in [Files -> Loose]
      /\ \A x \in Procs \ {p} : pc'[x] = pc[x] /\ ff'[x] = ff[x] /\ ret'[x] = ret[x]
      /\ pc' \in [Procs -> PCs] /\ ret' \in [Procs -> PCs] /\ ff' \in [Procs -> Entries \cup {None}]
      /\ \/ /\ file[f].ref > 1 /\ SameEntry(f) /\ pc'[p] = then
            /\ ff' = ff
         \/ /\ file[f].ref = 1 /\ file'[f] = NoFile /\ pc'[p] = "close"
            /\ ff'[p] = file[f] /\ ret'[p] = then
  <2>e. NoFile \in Loose /\ NoFile.ref = 0
    BY DEF NoFile, Loose
  <2>p. "close" \in PCs /\ then \in PCs
    BY DEF PCs
  <2>1. CASE file[f].ref > 1
    <3>1. /\ file' = [file EXCEPT ![f].ref = @ - 1]
          /\ pc' = [pc EXCEPT ![p] = then] /\ ff' = ff /\ ret' = ret
      BY <2>1 DEF fileclose, Goto
    <3>2. \A g \in Files : file[g].ref \in Nat
      BY <1>t DEF Entries
    <3>3. file' \in [Files -> Loose]
      BY <1>t, <3>1, <3>2, SMTT(60) DEF Entries, Loose
    <3>4. \A g \in Files : file'[g].ref = file[g].ref - (IF g = f THEN 1 ELSE 0)
      BY <1>t, <3>1, <3>2 DEF Entries
    <3>5. SameEntry(f)
      BY <1>t, <3>1 DEF Entries, SameEntry
    <3> QED BY <1>t, <2>1, <2>p, <3>1, <3>3, <3>4, <3>5
  <2>2. CASE ~(file[f].ref > 1)
    <3>1. /\ file' = [file EXCEPT ![f] = NoFile]
          /\ ff' = [ff EXCEPT ![p] = file[f]]
          /\ ret' = [ret EXCEPT ![p] = then]
          /\ pc' = [pc EXCEPT ![p] = "close"]
      BY <2>2 DEF fileclose, Goto
    <3>2. file[f].ref = 1
      BY <1>0, <2>2
    <3>3. \A g \in Files : file[g] \in Loose /\ file[g].ref \in Nat
      BY <1>t DEF Entries, Loose
    <3>4. file' \in [Files -> Loose]
      BY <1>t, <2>e, <3>1, <3>3
    <3>5. \A g \in Files : file'[g].ref = file[g].ref - (IF g = f THEN 1 ELSE 0)
      BY <1>t, <2>e, <3>1, <3>2, <3>3
    <3> QED BY <1>t, <2>p, <3>1, <3>2, <3>4, <3>5
  <2> QED BY <2>1, <2>2
<1> HIDE DEF FInv
<1>2. RefsExact'
  <2>1. \A g \in Files : file[g].ref = Refs(ofile, f0, f1, g)
    BY RefsForm DEF FInv
  <2> QED BY <1>1, <2>1, RefsForm
<1>3. Others(p) /\ \A x \in Procs \ {p} : LocalsOf(x)
  BY <1>1 DEF Others, LocalsOf
<1>4. LocalInv'
  <2>1. ff[p] = None
    BY DEF FInv, LocalInv, LocalAt
  <2>2. file[f] \in Entries /\ (file[f].type = "pipe" => file[f].pipe \in Pipes)
    BY <1>t DEF FInv, EntryInv
  <2>3. LocalAt(p)'
    BY <1>1, <2>1, <2>2, NoneAssumption DEF LocalAt
  <2> QED BY <1>3, <2>3, LocalStep DEF FInv
<1>5. TypeOK'
  <2>1. file' \in [Files -> Entries]
    BY <1>1, <1>2, <1>4, FileTyped
  <2> QED BY <1>1, <2>1 DEF FInv, TypeOK, io, OfType, LocType
<1>6. EndsCounted'
  <2>1. ASSUME NEW q \in Pipes, NEW w \in BOOLEAN
        PROVE  Count(file', ff', q, w) = Count(file, ff, q, w)
    <3>1. CASE file[f].ref > 1
      <4>1. ff' = ff /\ SameEntry(f) /\ file'[f].ref > 0
        BY <1>0, <1>1, <3>1
      <4>2. \A g \in Files : file'[g].ref > 0 /\ IsEnd(file'[g], q, w)
                             <=> file[g].ref > 0 /\ IsEnd(file[g], q, w)
        BY <1>0, <1>1, <4>1 DEF SameEntry, IsEnd
      <4> QED BY <4>1, <4>2, CountSame
    <3>2. CASE ~(file[f].ref > 1)
      <4>1. file'[f] = NoFile /\ ff'[p] = file[f]
        BY <1>1, <3>2
      <4>2. ff'[p] /= None
        BY <1>t, <4>1, NoneAssumption
      <4>3. ~IsEnd(file'[f], q, w)
        BY <4>1 DEF IsEnd, NoFile
      <4>4. ff[p] = None
        BY DEF FInv, LocalInv, LocalAt
      <4> QED BY <1>0, <1>1, <4>1, <4>2, <4>3, <4>4, CountMoved
    <3> QED BY <3>1, <3>2
  <2>2. EndsCounted
    BY DEF FInv
  <2> QED BY <2>1, <2>2, EndsForm
<1>7. EntryInv'
  <2>1. EntryInv
    BY DEF FInv
  <2>2. CASE file[f].ref > 1
    <3>1. SameEntry(f) /\ file'[f].ref /= 0
      BY <1>0, <1>1, <2>2
    <3> QED BY <1>1, <2>1, <3>1 DEF EntryInv, SameEntry
  <2>3. CASE ~(file[f].ref > 1)
    BY <1>1, <2>1, <2>3 DEF EntryInv, NoFile
  <2> QED BY <2>2, <2>3
<1>8. NewInv'
  <2>1. NewAt(p)'
    BY <1>1 DEF NewAt
  <2>2. \A g \in Files \ {f} : file'[g].ref = file[g].ref /\ file'[g].type = file[g].type
    BY <1>1
  <2>3. /\ {f} \in SUBSET Files
        /\ \A g \in {f} : file[g].ref = 0 \/ ofile[p][g] > 0 \/ g \in {f0[p], f1[p]}
        /\ {f0'[p], f1'[p]} \subseteq {f} \cup {f0[p], f1[p], None}
    OBVIOUS
  <2> HIDE DEF FInv
  <2>4. NewInv /\ TypeOK
    BY DEF FInv
  <2> QED BY <1>3, <2>1, <2>2, <2>3, <2>4, NewStep, Zenon, ZenonT(120)
<1>9. UseInv'
  <2>1. ASSUME NEW g \in Files, NEW x \in Procs \ {p}, ofile'[x][g] > 0 PROVE SameEntry(g)
    <3>1. CASE g /= f
      BY <1>1, <3>1 DEF SameEntry
    <3>2. CASE g = f /\ file[f].ref > 1
      BY <1>1, <3>2
    <3>3. CASE g = f /\ file[f].ref = 1
      <4>1. Refs(ofile', f0', f1', f) = 0
        BY <1>1, <1>2, <3>3, RefsForm
      <4>2. ofile'[x][f] = 0
        BY <4>1, RefsZero
      <4> QED BY <2>1, <3>3, <4>2
    <3> QED BY <1>0, <3>1, <3>2, <3>3
  <2>2. at[p] = None
    BY DEF FInv, UseInv, UseAt, InIO, Reading, Writing
  <2>3. UseAt(p)'
    BY <1>1, <2>2 DEF UseAt, InIO, Reading, Writing, io
  <2>4. \A x \in Procs \ {p} : at'[x] = at[x] /\ left'[x] = left[x] /\ want'[x] = want[x]
    BY DEF io
  <2> QED BY <1>3, <2>1, <2>3, <2>4, UseStep DEF FInv
<1>10. FillInv' /\ NoLostWakeup'
  <2>1. FillInv'
    BY DEF FInv, FillInv, Used
  <2>2. pc'[p] \notin {"rsleep", "wsleep"} /\ at' = at
    BY <1>1 DEF io
  <2> QED BY <1>3, <2>1, <2>2, WakeStep DEF FInv
<1> QED BY <1>2, <1>4, <1>5, <1>6, <1>7, <1>8, <1>9, <1>10 DEF FInv

\* A step that moves p from a place to another, and nothing else the invariant
\* speaks of but "killed".
LEMMA IdleStep ==
    ASSUME FInv, NEW p \in Procs, Others(p), pc' \in [Procs -> PCs],
           ~InIO(p), pc'[p] \in {"user", "exit", "unused"},
           ff[p] = None, f0[p] = None, f1[p] = None,
           pc'[p] = "unused" => \A f \in Files : ofile[p][f] = 0,
           killed' \in [Procs -> BOOLEAN],
           UNCHANGED <<file, pipe, ofile, loc, io, abandoned>>
    PROVE  FInv'
<1> USE DEF loc, io
<1>1. RefsExact' /\ EndsCounted' /\ EntryInv' /\ FillInv'
  BY DEF FInv, RefsExact, Descriptors, EndsCounted, EndFiles, EndClosers, EntryInv, FillInv, Used
<1>2. TypeOK'
  BY DEF FInv, TypeOK
<1>3. LocalInv'
  <2>1. LocalAt(p)'
    BY NoneAssumption DEF LocalAt
  <2>2. \A x \in Procs \ {p} : LocalsOf(x)
    BY DEF LocalsOf
  <2> QED BY <2>1, <2>2, LocalStep DEF FInv
<1>4. NewInv'
  <2>1. ASSUME NEW x \in Procs PROVE NewAt(x)'
    <3>1. NewAt(x)
      BY DEF FInv, NewInv
    <3>2. pc'[x] \in {"pipe1", "pipe2"} => pc[x] \in {"pipe1", "pipe2"}
      BY DEF Others
    <3> QED BY <3>1, <3>2 DEF NewAt, NewFile
  <2> QED BY <2>1 DEF NewInv
<1>5. UseInv'
  <2>1. UseAt(p)'
    BY DEF FInv, UseInv, UseAt, InIO, Reading, Writing
  <2>2. \A f \in Files : SameEntry(f)
    BY DEF SameEntry
  <2> QED BY <2>1, <2>2, UseStep DEF FInv
<1>6. NoLostWakeup'
  BY WakeStep DEF FInv
<1> QED BY <1>1, <1>2, <1>3, <1>4, <1>5, <1>6 DEF FInv

\* Descriptors one fewer.
LEMMA RefsDown ==
    ASSUME FInv, NEW p \in Procs, NEW f \in Files, ofile[p][f] > 0,
           ofile' = [ofile EXCEPT ![p][f] = @ - 1], UNCHANGED <<f0, f1>>
    PROVE  /\ ofile' \in OfType /\ f0' \in LocType /\ f1' \in LocType
           /\ \A g \in Files : Refs(ofile', f0', f1', g)
                               = Refs(ofile, f0, f1, g) - (IF g = f THEN 1 ELSE 0)
           /\ \A x \in Procs \ {p} : ofile'[x] = ofile[x]
           /\ \A x \in Procs : \A h \in Files \ {f} : ofile'[x][h] = ofile[x][h]
<1>1. /\ ofile \in OfType /\ f0 \in LocType /\ f1 \in LocType
  BY DEF FInv, TypeOK, OfType, LocType
<1>2. ofile[p][f] \in 0..NOFILE /\ ofile[p][f] - 1 \in 0..NOFILE
  BY <1>1, SizeAssumption DEF OfType
<1>3. ofile' \in OfType
  BY <1>1, <1>2 DEF OfType
<1>4. /\ ofile'[p][f] = ofile[p][f] - 1
      /\ \A x \in Procs : \A h \in Files : x /= p \/ h /= f => ofile'[x][h] = ofile[x][h]
      /\ \A x \in Procs \ {p} : ofile'[x] = ofile[x]
  BY <1>1 DEF OfType
<1>5. ASSUME NEW g \in Files
      PROVE  Refs(ofile', f0', f1', g) = Refs(ofile, f0, f1, g) - (IF g = f THEN 1 ELSE 0)
  <2>1. Cardinality(Desc(ofile', g)) = Cardinality(Desc(ofile, g)) - (IF g = f THEN 1 ELSE 0)
    <3>1. PICK u \in OfType : u = ofile'
      BY <1>3
    <3>2. PICK o \in OfType : o = ofile
      BY <1>1
    <3>3. /\ u[p][f] = o[p][f] - 1
          /\ \A x \in Procs : \A h \in Files : x /= p \/ h /= f => u[x][h] = o[x][h]
      BY <1>4, <3>1, <3>2
    <3>4. Cardinality(Desc(u, g)) = Cardinality(Desc(o, g)) - (IF g = f THEN 1 ELSE 0)
      BY <3>3, DescDown
    <3> QED BY <3>1, <3>2, <3>4
  <2> QED BY <1>1, <2>1, DescFinite, HeldFinite DEF Refs
<1> QED BY <1>1, <1>3, <1>4, <1>5

LEMMA CloseStep == ASSUME FInv, NEW p \in Procs, NEW f \in Files, Close(p, f) PROVE FInv'
<1>1. /\ pc[p] = "user" /\ ofile[p][f] > 0 /\ fileclose(p, f, "user")
      /\ ofile' = [ofile EXCEPT ![p][f] = @ - 1]
      /\ UNCHANGED <<pipe, killed, f0, f1, io, abandoned>>
  BY DEF Close, Enter
<1>2. f0'[p] = None /\ f1'[p] = None
  BY <1>1 DEF FInv, LocalInv, LocalAt
<1>3. /\ ofile' \in OfType /\ f0' \in LocType /\ f1' \in LocType
      /\ \A g \in Files : Refs(ofile', f0', f1', g)
                          = Refs(ofile, f0, f1, g) - (IF g = f THEN 1 ELSE 0)
      /\ \A x \in Procs \ {p} : ofile'[x] = ofile[x]
      /\ \A x \in Procs : \A h \in Files \ {f} : ofile'[x][h] = ofile[x][h]
  BY <1>1, RefsDown
<1>4. \A x \in Procs \ {p} : f0'[x] = f0[x] /\ f1'[x] = f1[x]
  BY <1>1
<1>5. UNCHANGED <<pipe, killed, io, abandoned>> /\ "user" \in {"user", "bad", "exit"}
      /\ pc[p] \in {"user", "bad", "exit"} /\ f1'[p] \in {f1[p], None}
  BY <1>1, <1>2
<1> QED BY <1>1, <1>2, <1>3, <1>4, <1>5, FileCloseStep

LEMMA PipeBadStep == ASSUME FInv, NEW p \in Procs, PipeBad(p) PROVE FInv'
<1>t. ofile \in OfType /\ f0 \in LocType /\ f1 \in LocType /\ pc \in [Procs -> PCs]
  BY DEF FInv, TypeOK, OfType, LocType
<1>u. /\ pc[p] = "bad" /\ ofile' = ofile
      /\ UNCHANGED <<pipe, killed, io, abandoned>>
  BY DEF PipeBad
<1>v. \A g \in Files : g /= None
  BY NoneAssumption
<1>1. CASE f0[p] /= None /\ fileclose(p, f0[p], "bad")
           /\ f0' = [f0 EXCEPT ![p] = None] /\ f1' = f1
  <2>1. PICK f \in Files : f = f0[p]
    BY <1>t, <1>1 DEF LocType
  <2>2. f0' \in LocType /\ f1' \in LocType
    BY <1>t, <1>1 DEF LocType
  <2>3. ASSUME NEW g \in Files
        PROVE  Refs(ofile', f0', f1', g) = Refs(ofile, f0, f1, g) - (IF g = f THEN 1 ELSE 0)
    <3>0. f0'[p] = None /\ \A x \in Procs \ {p} : f0[x] = f0'[x]
      BY <1>t, <1>1 DEF LocType
    <3>1. CASE g = f
      <4>1. Cardinality(Held(f0, g)) = Cardinality(Held(f0', g)) + 1
        BY <1>v, <2>1, <3>0, <3>1, HeldSet
      <4> QED BY <1>t, <1>u, <1>1, <3>1, <4>1, DescFinite, HeldFinite DEF Refs
    <3>2. CASE g /= f
      <4>1. Cardinality(Held(f0', g)) = Cardinality(Held(f0, g))
        BY <1>v, <2>1, <3>0, <3>2, HeldSame
      <4> QED BY <1>t, <1>u, <1>1, <3>2, <4>1, DescFinite, HeldFinite DEF Refs
    <3> QED BY <3>1, <3>2
  <2>4. f0'[p] = None /\ \A x \in Procs \ {p} : f0'[x] = f0[x]
    BY <1>t, <1>1 DEF LocType
  <2>5. ofile' \in OfType
    BY <1>t, <1>u
  <2> QED BY <1>u, <1>1, <2>1, <2>2, <2>3, <2>4, <2>5, FileCloseStep
<1>2. CASE f0[p] = None /\ f1[p] /= None /\ fileclose(p, f1[p], "user")
           /\ f1' = [f1 EXCEPT ![p] = None] /\ f0' = f0
  <2>1. PICK f \in Files : f = f1[p]
    BY <1>t, <1>2 DEF LocType
  <2>2. f0' \in LocType /\ f1' \in LocType
    BY <1>t, <1>2 DEF LocType
  <2>3. ASSUME NEW g \in Files
        PROVE  Refs(ofile', f0', f1', g) = Refs(ofile, f0, f1, g) - (IF g = f THEN 1 ELSE 0)
    <3>0. f1'[p] = None /\ \A x \in Procs \ {p} : f1[x] = f1'[x]
      BY <1>t, <1>2 DEF LocType
    <3>1. CASE g = f
      <4>1. Cardinality(Held(f1, g)) = Cardinality(Held(f1', g)) + 1
        BY <1>v, <2>1, <3>0, <3>1, HeldSet
      <4> QED BY <1>t, <1>u, <1>2, <3>1, <4>1, DescFinite, HeldFinite DEF Refs
    <3>2. CASE g /= f
      <4>1. Cardinality(Held(f1', g)) = Cardinality(Held(f1, g))
        BY <1>v, <2>1, <3>0, <3>2, HeldSame
      <4> QED BY <1>t, <1>u, <1>2, <3>2, <4>1, DescFinite, HeldFinite DEF Refs
    <3> QED BY <3>1, <3>2
  <2>4. f0'[p] = None /\ f1'[p] = None /\ \A x \in Procs \ {p} : f1'[x] = f1[x]
    BY <1>t, <1>2 DEF LocType
  <2>5. ofile' \in OfType
    BY <1>t, <1>u
  <2> QED BY <1>u, <1>2, <2>1, <2>2, <2>3, <2>4, <2>5, FileCloseStep
<1>3. CASE f0[p] = None /\ f1[p] = None /\ Goto(p, "user") /\ UNCHANGED <<file, ff, ret, f0, f1>>
  <2>1. pc' = [pc EXCEPT ![p] = "user"]
    BY <1>3 DEF Goto
  <2>2. Others(p) /\ pc'[p] = "user" /\ pc' \in [Procs -> PCs]
    BY <1>t, <2>1 DEF Others, PCs
  <2>3. ~InIO(p) /\ ff[p] = None
    BY <1>u DEF FInv, LocalInv, LocalAt, InIO, Reading, Writing
  <2>4. UNCHANGED <<file, pipe, ofile, loc, io, abandoned>> /\ killed' \in [Procs -> BOOLEAN]
    BY <1>u, <1>3 DEF loc, FInv, TypeOK
  <2> QED BY <1>3, <2>2, <2>3, <2>4, IdleStep
<1> QED BY <1>1, <1>2, <1>3 DEF PipeBad

LEMMA ExitCloseStep == ASSUME FInv, NEW p \in Procs, ExitClose(p) PROVE FInv'
<1>1. pc[p] = "exit" /\ UNCHANGED <<pipe, f0, f1, io, abandoned>>
  BY DEF ExitClose
<1>2. f0[p] = None /\ f1[p] = None /\ ff[p] = None
  BY <1>1 DEF FInv, LocalInv, LocalAt
<1>3. ASSUME NEW f \in Files, ofile[p][f] > 0, ofile' = [ofile EXCEPT ![p][f] = @ - 1],
             fileclose(p, f, "exit"), UNCHANGED killed
      PROVE  FInv'
  <2>1. /\ ofile' \in OfType /\ f0' \in LocType /\ f1' \in LocType
        /\ \A g \in Files : Refs(ofile', f0', f1', g)
                            = Refs(ofile, f0, f1, g) - (IF g = f THEN 1 ELSE 0)
        /\ \A x \in Procs \ {p} : ofile'[x] = ofile[x]
        /\ \A x \in Procs : \A h \in Files \ {f} : ofile'[x][h] = ofile[x][h]
    BY <1>1, <1>3, RefsDown
  <2>2. \A x \in Procs \ {p} : f0'[x] = f0[x] /\ f1'[x] = f1[x]
    BY <1>1
  <2>3. UNCHANGED <<pipe, killed, io, abandoned>> /\ "exit" \in {"user", "bad", "exit"}
        /\ pc[p] \in {"user", "bad", "exit"} /\ f1'[p] \in {f1[p], None}
        /\ f0'[p] = None /\ f1'[p] = None
    BY <1>1, <1>2, <1>3
  <2> QED BY <1>3, <2>1, <2>2, <2>3, FileCloseStep, ZenonT(120)
<1>4. ASSUME \A f \in Files : ofile[p][f] = 0, Goto(p, "unused"),
             killed' = [killed EXCEPT ![p] = FALSE], UNCHANGED <<ofile, file, ff, ret>>
      PROVE  FInv'
  <2>1. Others(p) /\ pc'[p] = "unused" /\ pc' \in [Procs -> PCs] /\ ~InIO(p)
        /\ killed' \in [Procs -> BOOLEAN]
    BY <1>1, <1>4 DEF Goto, Others, PCs, FInv, TypeOK, InIO, Reading, Writing
  <2>2. UNCHANGED <<file, pipe, ofile, loc, io, abandoned>>
    BY <1>1, <1>4 DEF loc
  <2> QED BY <1>2, <1>4, <2>1, <2>2, IdleStep
<1> QED BY <1>3, <1>4 DEF ExitClose

-----------------------------------------------------------------------------
(* Processes. *)

LEMMA StartStep == ASSUME FInv, NEW p \in Procs, Start(p) \/ Exit(p) PROVE FInv'
<1>1. /\ pc[p] \in {"unused", "user"} /\ pc' \in [Procs -> PCs]
      /\ Others(p) /\ pc'[p] \in {"user", "exit"}
  BY DEF Start, Exit, Goto, Others, PCs, FInv, TypeOK
<1>2. UNCHANGED <<file, pipe, ofile, killed, loc, io, abandoned>>
  BY DEF Start, Exit
<1>3. ff[p] = None /\ f0[p] = None /\ f1[p] = None /\ ~InIO(p)
  BY <1>1 DEF FInv, LocalInv, LocalAt, InIO, Reading, Writing
<1>4. killed' \in [Procs -> BOOLEAN]
  BY <1>2 DEF FInv, TypeOK
<1> QED BY <1>1, <1>2, <1>3, <1>4, IdleStep

LEMMA KillStep == ASSUME FInv, NEW p \in Procs, Kill(p) PROVE FInv'
<1> USE DEF loc, io
<1>1. UNCHANGED <<file, pipe, ofile, loc, io, abandoned>>
  BY DEF Kill
<1>2. pc \in [Procs -> PCs] /\ killed \in [Procs -> BOOLEAN]
  BY DEF FInv, TypeOK
<1>3. /\ pc' = [pc EXCEPT ![p] = CASE pc[p] = "rsleep" -> "read" [] pc[p] = "wsleep" -> "write"
                                   [] OTHER -> pc[p]]
      /\ killed' = [killed EXCEPT ![p] = TRUE]
  BY DEF Kill, Goto
<1>4. /\ pc' \in [Procs -> PCs] /\ killed' \in [Procs -> BOOLEAN]
      /\ \A x \in Procs : \/ pc'[x] = pc[x]
                          \/ pc[x] = "rsleep" /\ pc'[x] = "read"
                          \/ pc[x] = "wsleep" /\ pc'[x] = "write"
      /\ pc'[p] \notin {"rsleep", "wsleep"}
  BY <1>2, <1>3 DEF PCs
<1>5. RefsExact' /\ EndsCounted' /\ EntryInv' /\ FillInv'
  <2>1. /\ file' = file /\ pipe' = pipe /\ ofile' = ofile
        /\ f0' = f0 /\ f1' = f1 /\ ff' = ff
    BY <1>1
  <2>2. RefsExact' /\ EndsCounted'
    BY <2>1, RefsForm, EndsForm DEF FInv
  <2> QED BY <2>1, <2>2 DEF FInv, EntryInv, FillInv, Used
<1>6. TypeOK'
  BY <1>1, <1>4 DEF FInv, TypeOK
<1>7. Others(p) /\ \A x \in Procs \ {p} : LocalsOf(x)
  BY <1>1, <1>4 DEF Others, LocalsOf
<1>8. LocalInv'
  <2>1. LocalAt(p)'
    BY <1>1, <1>4 DEF FInv, LocalInv, LocalAt
  <2> QED BY <1>1, <1>7, <2>1, LocalStep DEF FInv
<1>9. NewInv'
  <2>1. ASSUME NEW x \in Procs PROVE NewAt(x)'
    <3>1. NewAt(x)
      BY DEF FInv, NewInv
    <3>2. pc'[x] \in {"pipe1", "pipe2"} => pc[x] \in {"pipe1", "pipe2"}
      BY <1>4
    <3> QED BY <1>1, <3>1, <3>2 DEF NewAt, NewFile
  <2> QED BY <2>1 DEF NewInv
<1>10. UseInv'
  <2>1. UseAt(p)'
    <3>1. UseAt(p)
      BY DEF FInv, UseInv
    <3>2. /\ pc'[p] \in Reading <=> pc[p] \in Reading
          /\ pc'[p] \in Writing <=> pc[p] \in Writing
      BY <1>4 DEF Reading, Writing
    <3> QED BY <1>1, <3>1, <3>2 DEF UseAt, InIO
  <2>2. \A f \in Files : SameEntry(f)
    BY <1>1 DEF SameEntry
  <2> QED BY <1>1, <1>7, <2>1, <2>2, UseStep DEF FInv
<1>11. NoLostWakeup'
  BY <1>1, <1>4, <1>7, WakeStep DEF FInv
<1> QED BY <1>5, <1>6, <1>8, <1>9, <1>10, <1>11 DEF FInv

\* Descriptors are only added, for entries in use, and counted.
LEMMA MoreRefs ==
    ASSUME FInv, NEW p \in Procs, NEW c \in Procs, Others(c), pc' \in [Procs -> PCs],
           pc[p] = "user", pc[c] \in {"user", "unused"}, pc'[c] = "user", ofile' \in OfType,
           \A f \in Files : ofile'[c][f] = 0 \/ ofile[p][f] > 0,
           \A x \in Procs \ {c} : ofile'[x] = ofile[x],
           file' \in [Files -> Loose],
           \A f \in Files : SameEntry(f)
                /\ (file'[f].ref = file[f].ref \/ (ofile[p][f] > 0 /\ file'[f].ref > 0)),
           RefsExact', UNCHANGED <<pipe, killed, loc, io, abandoned>>
    PROVE  FInv'
<1> USE DEF loc, io
<1>1. \A x \in Procs \ {c} : LocalsOf(x)
  BY DEF LocalsOf
<1>2. LocalInv'
  <2>1. LocalAt(c)'
    BY NoneAssumption DEF FInv, LocalInv, LocalAt
  <2> QED BY <1>1, <2>1, LocalStep DEF FInv
<1>3. TypeOK'
  <2>1. file' \in [Files -> Entries]
    BY <1>2, FileTyped
  <2> QED BY <2>1 DEF FInv, TypeOK, OfType
<1>4. \A f \in Files : file'[f].ref > 0 <=> file[f].ref > 0
  BY Referenced DEF FInv
<1>5. EndsCounted'
  <2>1. ASSUME NEW q \in Pipes, NEW w \in BOOLEAN
        PROVE  Count(file', ff', q, w) = Count(file, ff, q, w)
    <3>1. \A g \in Files : file'[g].ref > 0 /\ IsEnd(file'[g], q, w)
                           <=> file[g].ref > 0 /\ IsEnd(file[g], q, w)
      BY <1>4 DEF SameEntry, IsEnd
    <3> QED BY <3>1, CountSame
  <2> QED BY <2>1, EndsForm DEF FInv
<1>6. EntryInv'
  <2>1. ASSUME NEW f \in Files
        PROVE  /\ file'[f].ref = 0 => file'[f] = NoFile
               /\ file'[f].type = "pipe" => file'[f].pipe \in Pipes
    <3>1. EntryInv /\ file[f] \in Entries /\ file'[f] \in Loose /\ NoFile \in Loose
      BY DEF FInv, TypeOK, Loose, NoFile
    <3>2. file'[f].ref = 0 => file[f].ref = 0
      BY <1>4, <3>1 DEF Entries, Loose
    <3>3. ASSUME file'[f].ref = 0 PROVE file'[f] = NoFile
      <4>1. file[f] = NoFile
        BY <3>1, <3>2, <3>3 DEF EntryInv
      <4> QED BY <3>1, <3>3, <4>1 DEF SameEntry, Loose, NoFile
    <3> QED BY <3>1, <3>3 DEF EntryInv, SameEntry
  <2> QED BY <2>1 DEF EntryInv
<1>7. NewInv'
  <2>1. ASSUME NEW x \in Procs, pc'[x] \in {"pipe1", "pipe2"},
               NEW f \in Files, f \in {f0[x], f1[x]}
        PROVE  NewFile(x, f)'
    <3>1. pc[x] \in {"pipe1", "pipe2"}
      BY <2>1 DEF Others
    <3>2. NewFile(x, f)
      BY <2>1, <3>1 DEF FInv, NewInv, NewAt
    <3>3. ofile[p][f] = 0 /\ file'[f].ref = 1 /\ file'[f].type = "none"
      BY <3>2 DEF NewFile, SameEntry
    <3>4. \A y \in Procs : ofile'[y][f] = 0
      BY <3>2, <3>3 DEF NewFile
    <3> QED BY <3>2, <3>3, <3>4 DEF NewFile
  <2> QED BY <2>1 DEF NewInv, NewAt
<1>8. UseInv'
  <2>1. UseAt(c)'
    BY DEF FInv, UseInv, UseAt, InIO, Reading, Writing
  <2> QED BY <2>1, UseStep DEF FInv
<1>9. FillInv' /\ NoLostWakeup'
  <2>1. FillInv'
    BY DEF FInv, FillInv, Used
  <2> QED BY <2>1, WakeStep DEF FInv
<1> QED BY <1>2, <1>3, <1>5, <1>6, <1>7, <1>8, <1>9 DEF FInv

LEMMA DupStep == ASSUME FInv, NEW p \in Procs, NEW f \in Files, Dup(p, f) PROVE FInv'
<1>1. /\ pc[p] = "user" /\ ofile[p][f] > 0 /\ FreeFds(p) > 0
      /\ ofile' = [ofile EXCEPT ![p][f] = @ + 1]
      /\ file' = [file EXCEPT ![f].ref = @ + 1]
      /\ UNCHANGED <<pipe, killed, pc, loc, io, abandoned>>
  BY DEF Dup, Enter
<1>2. /\ ofile \in OfType /\ file \in [Files -> Entries] /\ pc \in [Procs -> PCs]
  BY DEF FInv, TypeOK, OfType
<1>3. ofile[p][f] \in 0..NOFILE /\ ofile[p][f] + 1 \in 0..NOFILE
  BY <1>1, <1>2, FreeFdsRoom, SizeAssumption DEF OfType
<1>4. PICK o \in OfType : o = ofile
  BY <1>2
<1>5. ofile' \in OfType
  BY <1>1, <1>2, <1>3 DEF OfType
<1>6. PICK u \in OfType : u = ofile'
  BY <1>5
<1>7. /\ u[p][f] = o[p][f] + 1
      /\ \A x \in Procs : \A h \in Files : x /= p \/ h /= f => u[x][h] = o[x][h]
      /\ \A x \in Procs \ {p} : ofile'[x] = ofile[x]
  BY <1>1, <1>2, <1>4, <1>6 DEF OfType
<1>8. \A g \in Files : file[g].ref \in Nat
  BY <1>2 DEF Entries
<1>9. /\ file' \in [Files -> Loose]
      /\ \A g \in Files : file'[g].ref = file[g].ref + (IF g = f THEN 1 ELSE 0)
      /\ \A g \in Files : SameEntry(g)
  <2>1. file' \in [Files -> Loose]
    BY <1>1, <1>2, <1>8 DEF Entries, Loose
  <2>2. \A g \in Files : file'[g].ref = file[g].ref + (IF g = f THEN 1 ELSE 0)
    BY <1>1, <1>2, <1>8 DEF Entries
  <2>3. \A g \in Files : SameEntry(g)
    BY <1>1, <1>2 DEF Entries, SameEntry
  <2> QED BY <2>1, <2>2, <2>3
<1>10. RefsExact'
  <2>1. ASSUME NEW g \in Files PROVE file'[g].ref = Refs(ofile', f0', f1', g)
    <3>1. Cardinality(Desc(u, g)) = Cardinality(Desc(o, g)) + (IF g = f THEN 1 ELSE 0)
      BY <1>7, DescUp
    <3>2. file[g].ref = Refs(o, f0, f1, g) /\ f0' = f0 /\ f1' = f1
      BY <1>1, <1>4, RefsForm DEF FInv, loc
    <3> QED BY <1>6, <1>9, <3>1, <3>2, DescFinite, HeldFinite DEF Refs
  <2> QED BY <2>1, RefsForm
<1>11. Others(p) /\ pc' \in [Procs -> PCs] /\ pc'[p] = "user"
  BY <1>1, <1>2 DEF Others
<1>12. \A g \in Files : ofile'[p][g] = 0 \/ ofile[p][g] > 0
  BY <1>1, <1>2, <1>4, <1>6, <1>7 DEF OfType
<1>13. ASSUME NEW g \in Files
       PROVE  file'[g].ref = file[g].ref \/ (ofile[p][g] > 0 /\ file'[g].ref > 0)
  <2>1. file'[g].ref = file[g].ref + (IF g = f THEN 1 ELSE 0) /\ file[g].ref \in Nat
    BY <1>8, <1>9
  <2> QED BY <1>1, <2>1
<1> QED BY <1>1, <1>5, <1>7, <1>9, <1>10, <1>11, <1>12, <1>13, MoreRefs

LEMMA ForkStep == ASSUME FInv, NEW p \in Procs, NEW c \in Procs, Fork(p, c) PROVE FInv'
<1>1. /\ pc[p] = "user" /\ pc[c] = "unused"
      /\ ofile' = [ofile EXCEPT ![c] = ofile[p]]
      /\ file' = [f \in Files |-> [file[f] EXCEPT !.ref = @ + ofile[p][f]]]
      /\ pc' = [pc EXCEPT ![c] = "user"]
      /\ UNCHANGED <<pipe, killed, loc, io, abandoned>>
  BY DEF Fork, Enter, Goto
<1>2. /\ ofile \in OfType /\ file \in [Files -> Entries] /\ pc \in [Procs -> PCs]
  BY DEF FInv, TypeOK, OfType
<1>3. ofile' \in OfType
  BY <1>1, <1>2 DEF OfType
<1>4. PICK o \in OfType : o = ofile
  BY <1>2
<1>6. PICK u \in OfType : u = ofile'
  BY <1>3
<1>7. /\ \A h \in Files : o[c][h] = 0 /\ u[c][h] = o[p][h]
      /\ \A x \in Procs \ {c} : u[x] = o[x]
  BY <1>1, <1>2, <1>4, <1>6 DEF FInv, LocalInv, LocalAt, OfType
<1>8. \A g \in Files : file[g].ref \in Nat /\ ofile[p][g] \in Nat
  BY <1>2, SizeAssumption DEF Entries, OfType
<1>9. /\ file' \in [Files -> Loose]
      /\ \A g \in Files : file'[g].ref = file[g].ref + ofile[p][g]
      /\ \A g \in Files : SameEntry(g)
  <2>1. file' \in [Files -> Loose]
    <3>1. ASSUME NEW g \in Files PROVE [file[g] EXCEPT !.ref = @ + ofile[p][g]] \in Loose
      <4>1. PICK n \in Int : n = file[g].ref + ofile[p][g]
        BY <1>8
      <4>2. [file[g] EXCEPT !.ref = n] \in Loose
        BY <1>2 DEF Entries, Loose
      <4> QED BY <4>1, <4>2
    <3> QED BY <1>1, <3>1
  <2>2. \A g \in Files : file'[g].ref = file[g].ref + ofile[p][g]
    BY <1>1, <1>2, <1>8 DEF Entries
  <2>3. \A g \in Files : SameEntry(g)
    BY <1>1, <1>2 DEF Entries, SameEntry
  <2> QED BY <2>1, <2>2, <2>3
<1>10. RefsExact'
  <2>1. ASSUME NEW g \in Files PROVE file'[g].ref = Refs(ofile', f0', f1', g)
    <3>1. Cardinality(Desc(u, g)) = Cardinality(Desc(o, g)) + o[p][g]
      BY <1>7, DescFork
    <3>2. file[g].ref = Refs(o, f0, f1, g) /\ f0' = f0 /\ f1' = f1
      BY <1>1, <1>4, RefsForm DEF FInv, loc
    <3>3. file'[g].ref = file[g].ref + o[p][g] /\ o[p][g] \in Nat
      BY <1>4, <1>8, <1>9
    <3> QED BY <1>6, <3>1, <3>2, <3>3, DescFinite, HeldFinite DEF Refs
  <2> QED BY <2>1, RefsForm
<1>11. Others(c) /\ pc' \in [Procs -> PCs] /\ pc'[c] = "user"
  BY <1>1, <1>2 DEF Others, PCs
<1>12. \A g \in Files : ofile'[c][g] = 0 \/ ofile[p][g] > 0
  BY <1>4, <1>6, <1>7, <1>8
<1>13. ASSUME NEW g \in Files
       PROVE  file'[g].ref = file[g].ref \/ (ofile[p][g] > 0 /\ file'[g].ref > 0)
  <2>1. file'[g].ref = file[g].ref + ofile[p][g] /\ file[g].ref \in Nat /\ ofile[p][g] \in Nat
    BY <1>8, <1>9
  <2> QED BY <2>1
<1>14. \A x \in Procs \ {c} : ofile'[x] = ofile[x]
  BY <1>4, <1>6, <1>7
<1> QED BY <1>1, <1>3, <1>9, <1>10, <1>11, <1>12, <1>13, <1>14, MoreRefs

\* sys_pipe gives up.
LEMMA ToBad ==
    ASSUME FInv, NEW p \in Procs, pc[p] \in {"pipe1", "pipe2"}, Goto(p, "bad"),
           UNCHANGED <<file, pipe, ofile, killed, loc, io, abandoned>>
    PROVE  FInv'
<1> USE DEF loc, io
<1>1. /\ pc' \in [Procs -> PCs] /\ pc'[p] = "bad" /\ \A x \in Procs \ {p} : pc'[x] = pc[x]
      /\ Others(p)
  BY DEF FInv, TypeOK, Goto, PCs, Others
<1>2. RefsExact' /\ EndsCounted' /\ EntryInv' /\ FillInv'
  <2>1. RefsExact' /\ EndsCounted'
    BY RefsForm, EndsForm DEF FInv
  <2> QED BY <2>1 DEF FInv, EntryInv, FillInv, Used
<1>3. TypeOK'
  BY <1>1 DEF FInv, TypeOK
<1>4. LocalInv'
  <2>1. LocalAt(p)'
    BY <1>1 DEF FInv, LocalInv, LocalAt
  <2>2. \A x \in Procs \ {p} : LocalsOf(x)
    BY DEF LocalsOf
  <2> QED BY <1>1, <2>1, <2>2, LocalStep DEF FInv
<1>5. NewInv'
  <2>1. ASSUME NEW x \in Procs PROVE NewAt(x)'
    <3>1. NewAt(x)
      BY DEF FInv, NewInv
    <3> QED BY <1>1, <3>1 DEF NewAt, NewFile
  <2> QED BY <2>1 DEF NewInv
<1>6. UseInv'
  <2>1. UseAt(p)'
    BY <1>1 DEF FInv, UseInv, UseAt, InIO, Reading, Writing
  <2>2. \A f \in Files : SameEntry(f)
    BY DEF SameEntry
  <2> QED BY <1>1, <2>1, <2>2, UseStep DEF FInv
<1>7. NoLostWakeup'
  BY <1>1, WakeStep DEF FInv
<1> QED BY <1>2, <1>3, <1>4, <1>5, <1>6, <1>7 DEF FInv

-----------------------------------------------------------------------------
(* sys_pipe. *)

LEMMA AllocStep ==
    ASSUME FInv, NEW p \in Procs, NEW f \in Files, filealloc(f), pc[p] \in {"user", "pipe1"},
           pc'[p] \in {"pipe1", "pipe2"}, pc' \in [Procs -> PCs],
           \A x \in Procs \ {p} : pc'[x] = pc[x] /\ f0'[x] = f0[x] /\ f1'[x] = f1[x],
           f0' \in LocType, f1' \in LocType,
           {f0'[p], f1'[p]} \subseteq {f, f0[p], f1[p], None},
           LocalAt(p)',
           \A g \in Files : Refs(ofile, f0', f1', g)
                            = Refs(ofile, f0, f1, g) + (IF g = f THEN 1 ELSE 0),
           UNCHANGED <<pipe, ofile, killed, ff, ret, io, abandoned>>
    PROVE  FInv'
<1> USE DEF io
<1>1. /\ file' = [file EXCEPT ![f].ref = 1] /\ file[f].ref = 0
  BY DEF filealloc, FreeFiles
<1>2. file \in [Files -> Entries]
  BY DEF FInv, TypeOK
<1>3. file[f] = NoFile
  BY <1>1 DEF FInv, EntryInv
<1>4. /\ \A g \in Files \ {f} : file'[g] = file[g]
      /\ file'[f].ref = 1 /\ file'[f].type = "none" /\ SameEntry(f)
      /\ file' \in [Files -> Loose]
  <2>1. file' \in [Files -> Loose]
    BY <1>1, <1>2 DEF Entries, Loose
  <2>2. file'[f].ref = 1 /\ SameEntry(f) /\ file'[f].type = "none"
    BY <1>1, <1>2, <1>3 DEF Entries, SameEntry, NoFile
  <2> QED BY <1>1, <1>2, <2>1, <2>2
<1>5. RefsExact'
  <2>1. ASSUME NEW g \in Files PROVE file'[g].ref = Refs(ofile', f0', f1', g)
    <3>1. file[g].ref = Refs(ofile, f0, f1, g) /\ file[g].ref \in Nat
      BY <1>2, RefsForm DEF FInv, Entries
    <3>2. file'[g].ref = file[g].ref + (IF g = f THEN 1 ELSE 0)
      BY <1>1, <1>4, <3>1
    <3> QED BY <3>1, <3>2
  <2> QED BY <2>1, RefsForm
<1>6. Others(p) /\ \A x \in Procs \ {p} : LocalsOf(x)
  BY DEF Others, LocalsOf
<1>7. LocalInv'
  BY <1>6, LocalStep DEF FInv
<1>8. TypeOK'
  <2>1. (ofile \in OfType)'
    BY DEF FInv, TypeOK, OfType
  <2>2. file' \in [Files -> Entries]
    BY <1>4, <1>5, <1>7, <2>1, FileTyped
  <2> QED BY <2>2 DEF FInv, TypeOK, LocType
<1>9. EndsCounted'
  <2>1. ASSUME NEW q \in Pipes, NEW w \in BOOLEAN
        PROVE  Count(file', ff', q, w) = Count(file, ff, q, w)
    <3>1. \A g \in Files : file'[g].ref > 0 /\ IsEnd(file'[g], q, w)
                           <=> file[g].ref > 0 /\ IsEnd(file[g], q, w)
      BY <1>3, <1>4 DEF IsEnd, NoFile
    <3> QED BY <3>1, CountSame
  <2> QED BY <2>1, EndsForm DEF FInv
<1>10. EntryInv'
  BY <1>4 DEF FInv, EntryInv
<1>11. NewInv'
  <2>1. \A x \in Procs : ofile[x][f] = 0 /\ f0[x] /= f /\ f1[x] /= f
    BY <1>1, Unreferenced DEF FInv
  <2>2. NewFile(p, f)'
    BY <1>4, <2>1 DEF NewFile
  <2>3. ASSUME NEW g \in Files, g \in {f0'[p], f1'[p]}, g /= f PROVE NewFile(p, g)'
    <3>1. g \in {f0[p], f1[p]} /\ g /= None
      BY <2>3, NoneAssumption
    <3>2. pc[p] = "pipe1"
      BY <3>1 DEF FInv, LocalInv, LocalAt
    <3>3. NewFile(p, g)
      BY <3>1, <3>2 DEF FInv, NewInv, NewAt
    <3> QED BY <1>4, <2>3, <3>3 DEF NewFile
  <2>4. NewAt(p)'
    BY <2>2, <2>3 DEF NewAt
  <2>5. \A g \in Files \ {f} : file'[g].ref = file[g].ref /\ file'[g].type = file[g].type
    BY <1>4
  <2>6. /\ {f} \in SUBSET Files /\ \A g \in {f} : file[g].ref = 0
        /\ {f0'[p], f1'[p]} \subseteq {f} \cup {f0[p], f1[p], None}
    BY <1>1
  <2>7. NewInv /\ TypeOK
    BY DEF FInv
  <2> QED BY <1>6, <2>4, <2>5, <2>6, <2>7, NewStep, Zenon
<1>12. UseInv'
  <2>1. \A g \in Files : SameEntry(g)
    BY <1>4 DEF SameEntry
  <2>2. UseAt(p)'
    BY DEF FInv, UseInv, UseAt, InIO, Reading, Writing
  <2> QED BY <1>6, <2>1, <2>2, UseStep DEF FInv
<1>13. FillInv' /\ NoLostWakeup'
  <2>1. FillInv'
    BY DEF FInv, FillInv, Used
  <2> QED BY <1>6, <2>1, WakeStep DEF FInv
<1> QED BY <1>5, <1>7, <1>8, <1>9, <1>10, <1>11, <1>12, <1>13 DEF FInv

LEMMA PipeFile0Step == ASSUME FInv, NEW p \in Procs, PipeFile0(p) PROVE FInv'
<1>1. PICK f \in Files : filealloc(f) /\ f0' = [f0 EXCEPT ![p] = f]
  BY DEF PipeFile0
<1>2. /\ pc[p] = "user" /\ pc' = [pc EXCEPT ![p] = "pipe1"]
      /\ UNCHANGED <<pipe, ofile, killed, f1, ff, ret, io, abandoned>>
  BY DEF PipeFile0, Enter, Goto
<1>3. /\ f0 \in LocType /\ f1 \in LocType /\ pc \in [Procs -> PCs] /\ ofile \in OfType
  BY DEF FInv, TypeOK, LocType, OfType
<1>4. f0[p] = None /\ f1[p] = None /\ ff[p] = None
  BY <1>2 DEF FInv, LocalInv, LocalAt
<1>5. /\ f0' \in LocType /\ f1' \in LocType /\ pc' \in [Procs -> PCs] /\ pc'[p] = "pipe1"
      /\ \A x \in Procs \ {p} : pc'[x] = pc[x] /\ f0'[x] = f0[x] /\ f1'[x] = f1[x]
      /\ f0'[p] = f /\ f1'[p] = None
  BY <1>1, <1>2, <1>3, <1>4 DEF LocType, PCs
<1>6. LocalAt(p)'
  BY <1>2, <1>4, <1>5, NoneAssumption DEF LocalAt
<1>7. ASSUME NEW g \in Files
      PROVE  Refs(ofile, f0', f1', g) = Refs(ofile, f0, f1, g) + (IF g = f THEN 1 ELSE 0)
  <2>1. CASE g = f
    <3>0. f0[p] /= g /\ f0'[p] = g /\ \A x \in Procs \ {p} : f0'[x] = f0[x]
      BY <1>4, <1>5, <2>1, NoneAssumption
    <3>1. Cardinality(Held(f0', g)) = Cardinality(Held(f0, g)) + 1
      BY <3>0, HeldSet, Zenon
    <3> QED BY <1>2, <1>3, <2>1, <3>1, DescFinite, HeldFinite DEF Refs
  <2>2. CASE g /= f
    <3>1. Cardinality(Held(f0', g)) = Cardinality(Held(f0, g))
      BY <1>4, <1>5, <2>2, NoneAssumption, HeldSame
    <3> QED BY <1>2, <1>3, <2>2, <3>1, DescFinite, HeldFinite DEF Refs
  <2> QED BY <2>1, <2>2
<1>8. UNCHANGED <<pipe, ofile, killed, ff, ret, io, abandoned>>
      /\ {f0'[p], f1'[p]} \subseteq {f, f0[p], f1[p], None}
  BY <1>2, <1>5
<1> QED BY <1>1, <1>2, <1>5, <1>6, <1>7, <1>8, AllocStep

LEMMA PipeFile1Step == ASSUME FInv, NEW p \in Procs, PipeFile1(p) PROVE FInv'
<1>1. pc[p] = "pipe1" /\ UNCHANGED <<pipe, ofile, killed, f0, ff, ret, io, abandoned>>
  BY DEF PipeFile1
<1>2. /\ f0 \in LocType /\ f1 \in LocType /\ pc \in [Procs -> PCs] /\ ofile \in OfType
  BY DEF FInv, TypeOK, LocType, OfType
<1>3. f0[p] \in Files /\ f1[p] = None /\ ff[p] = None
  BY <1>1 DEF FInv, LocalInv, LocalAt
<1>4. ASSUME NEW f \in Files, filealloc(f), f1' = [f1 EXCEPT ![p] = f], Goto(p, "pipe2")
      PROVE  FInv'
  <2>0. f0[p] /= f
    <3>1. file[f].ref = 0
      BY <1>4 DEF filealloc, FreeFiles
    <3> QED BY <3>1, Unreferenced DEF FInv
  <2>5. /\ f0' \in LocType /\ f1' \in LocType /\ pc' \in [Procs -> PCs] /\ pc'[p] = "pipe2"
        /\ \A x \in Procs \ {p} : pc'[x] = pc[x] /\ f0'[x] = f0[x] /\ f1'[x] = f1[x]
        /\ f0'[p] = f0[p] /\ f1'[p] = f
    BY <1>1, <1>2, <1>3, <1>4 DEF LocType, PCs, Goto
  <2>6. LocalAt(p)'
    BY <1>1, <1>3, <2>0, <2>5 DEF LocalAt
  <2>7. ASSUME NEW g \in Files
        PROVE  Refs(ofile, f0', f1', g) = Refs(ofile, f0, f1, g) + (IF g = f THEN 1 ELSE 0)
    <3>1. CASE g = f
      <4>0. f1[p] /= g /\ f1'[p] = g /\ \A x \in Procs \ {p} : f1'[x] = f1[x]
        BY <1>3, <2>5, <3>1, NoneAssumption
      <4>1. Cardinality(Held(f1', g)) = Cardinality(Held(f1, g)) + 1
        BY <4>0, HeldSet, Zenon
      <4> QED BY <1>1, <1>2, <3>1, <4>1, DescFinite, HeldFinite DEF Refs
    <3>2. CASE g /= f
      <4>1. Cardinality(Held(f1', g)) = Cardinality(Held(f1, g))
        BY <1>3, <2>5, <3>2, NoneAssumption, HeldSame
      <4> QED BY <1>1, <1>2, <3>2, <4>1, DescFinite, HeldFinite DEF Refs
    <3> QED BY <3>1, <3>2
  <2>8. UNCHANGED <<pipe, ofile, killed, ff, ret, io, abandoned>>
        /\ {f0'[p], f1'[p]} \subseteq {f, f0[p], f1[p], None}
    BY <1>1, <2>5
  <2> QED BY <1>1, <1>4, <2>5, <2>6, <2>7, <2>8, AllocStep
<1>5. ASSUME Goto(p, "bad"), UNCHANGED <<file, f1>> PROVE FInv'
  BY <1>1, <1>3, <1>5, ToBad DEF loc
<1> QED BY <1>4, <1>5 DEF PipeFile1

\* Who is in a read or a write has that end of a pipe open.
LEMMA AtOpen ==
    ASSUME FInv, NEW x \in Procs, InIO(x)
    PROVE  /\ at[x] \in Pipes /\ pipe[at[x]].used
           /\ IF pc[x] \in Writing THEN pipe[at[x]].writeopen ELSE pipe[at[x]].readopen
<1>1. PICK f \in Files : ofile[x][f] > 0 /\ IsEnd(file[f], at[x], pc[x] \in Writing)
  BY DEF FInv, UseInv, UseAt
<1>2. PICK q \in Pipes : q = at[x]
  BY DEF FInv, UseInv, UseAt
<1>3. PICK w \in BOOLEAN : w = (pc[x] \in Writing)
  <2>1. (pc[x] \in Writing) \in BOOLEAN
    OBVIOUS
  <2> QED BY <2>1, Zenon
<1>4. file[f].ref > 0 /\ IsEnd(file[f], q, w)
  BY <1>1, <1>2, <1>3, Referenced DEF FInv
<1>5. Count(file, ff, q, w) /= 0
  BY <1>4, CountNone
<1>6. pipe[q].used /\ (IF w THEN pipe[q].writeopen ELSE pipe[q].readopen)
  BY <1>5, EndsForm DEF FInv
<1> QED BY <1>2, <1>3, <1>6

LEMMA PipeDoneStep == ASSUME FInv, NEW p \in Procs, PipeDone(p) PROVE FInv'
<1>1. pc[p] = "pipe2" /\ UNCHANGED <<killed, ff, ret, io, abandoned>>
  BY DEF PipeDone
<1>2. /\ f0 \in LocType /\ f1 \in LocType /\ pc \in [Procs -> PCs] /\ ofile \in OfType
      /\ file \in [Files -> Entries]
  BY DEF FInv, TypeOK, LocType, OfType
<1>3. CASE Goto(p, "bad") /\ UNCHANGED <<pipe, file, ofile, f0, f1>>
  BY <1>1, <1>3, ToBad DEF loc
<1>4. ASSUME NEW q \in Pipes, ~pipe[q].used,
             pipe' = [pipe EXCEPT ![q] =
                    [NoPipe EXCEPT !.used = TRUE, !.readopen = TRUE, !.writeopen = TRUE]],
             file' = [file EXCEPT ![f0[p]] = Fill(FALSE, q), ![f1[p]] = Fill(TRUE, q)],
             \/ /\ FreeFds(p) >= 2
                /\ ofile' = [ofile EXCEPT ![p][f0[p]] = 1, ![p][f1[p]] = 1]
                /\ f0' = [f0 EXCEPT ![p] = None] /\ f1' = [f1 EXCEPT ![p] = None]
                /\ Goto(p, "user")
             \/ Goto(p, "bad") /\ UNCHANGED <<ofile, f0, f1>>
      PROVE  FInv'
  <2>1. PICK a \in Files, b \in Files : a = f0[p] /\ b = f1[p]
    BY <1>1 DEF FInv, LocalInv, LocalAt
  <2>2. a /= b /\ ff[p] = None
    BY <1>1, <2>1 DEF FInv, LocalInv, LocalAt
  <2>3. NewFile(p, a) /\ NewFile(p, b)
    BY <1>1, <2>1 DEF FInv, NewInv, NewAt
  <2>4. /\ \A g \in Files \ {a, b} : file'[g] = file[g]
        /\ file'[a] = Fill(FALSE, q) /\ file'[b] = Fill(TRUE, q)
    BY <1>2, <1>4, <2>1, <2>2
  <2>5. file' \in [Files -> Loose]
    <3>1. Fill(FALSE, q) \in Loose /\ Fill(TRUE, q) \in Loose /\ \A g \in Files : file[g] \in Loose
      BY <1>2 DEF Fill, Loose, Entries
    <3> QED BY <1>2, <1>4, <2>1, <3>1
  <2>6. \A g \in Files : file'[g].ref = file[g].ref
    BY <2>3, <2>4 DEF NewFile, Fill
  <2>7. /\ pc' \in [Procs -> PCs] /\ pc'[p] \in {"user", "bad"}
        /\ \A x \in Procs \ {p} : pc'[x] = pc[x]
    BY <1>2, <1>4 DEF Goto, PCs
  <2>8. /\ f0' \in LocType /\ f1' \in LocType
        /\ \A x \in Procs \ {p} : f0'[x] = f0[x] /\ f1'[x] = f1[x]
        /\ \/ f0'[p] = None /\ f1'[p] = None
           \/ f0'[p] = a /\ f1'[p] = b /\ pc'[p] = "bad"
    BY <1>2, <1>4, <2>1 DEF LocType, Goto
  <2>9. /\ ofile' \in OfType
        /\ \A x \in Procs \ {p} : ofile'[x] = ofile[x]
        /\ \A g \in Files \ {a, b} : ofile'[p][g] = ofile[p][g]
    <3>1. 1 \in 0..NOFILE
      BY SizeAssumption
    <3>2. CASE ofile' = ofile
      BY <1>2, <3>2
    <3>3. CASE ofile' = [ofile EXCEPT ![p][a] = 1, ![p][b] = 1]
      <4>1. \A x \in Procs : ofile[x] \in [Files -> 0..NOFILE]
        BY <1>2 DEF OfType
      <4>2. ofile' = [ofile EXCEPT ![p] = [[ofile[p] EXCEPT ![a] = 1] EXCEPT ![b] = 1]]
        BY <1>2, <3>3 DEF OfType
      <4>3. [[ofile[p] EXCEPT ![a] = 1] EXCEPT ![b] = 1] \in [Files -> 0..NOFILE]
        BY <3>1, <4>1
      <4>4. ofile' \in OfType
        BY <1>2, <4>2, <4>3 DEF OfType
      <4>5. \A x \in Procs \ {p} : ofile'[x] = ofile[x]
        BY <1>2, <4>2 DEF OfType
      <4>6. \A g \in Files \ {a, b} : ofile'[p][g] = ofile[p][g]
        BY <1>2, <4>1, <4>2 DEF OfType
      <4> QED BY <4>4, <4>5, <4>6
    <3> QED BY <1>4, <2>1, <3>2, <3>3
  <2>10. Others(p) /\ \A x \in Procs \ {p} : LocalsOf(x)
    BY <1>1, <2>7, <2>8 DEF Others, LocalsOf
  <2>11. RefsExact'
    <3>0. \A g \in Files : file[g].ref = Refs(ofile, f0, f1, g)
      BY RefsForm DEF FInv
    <3>1. CASE UNCHANGED <<ofile, f0, f1>>
      BY <2>6, <3>0, <3>1, RefsForm
    <3>2. CASE /\ ofile' = [ofile EXCEPT ![p][f0[p]] = 1, ![p][f1[p]] = 1]
               /\ f0' = [f0 EXCEPT ![p] = None] /\ f1' = [f1 EXCEPT ![p] = None]
      <4>1. PICK o \in OfType : o = ofile
        BY <1>2
      <4>2. PICK u \in OfType : u = ofile'
        BY <2>9
      <4>3. o[p][a] = 0 /\ o[p][b] = 0
        BY <2>3, <4>1 DEF NewFile
      <4>4. PICK m \in OfType : m = [o EXCEPT ![p][a] = 1]
        <5>1. 1 \in 0..NOFILE
          BY SizeAssumption
        <5> QED BY <5>1 DEF OfType
      <4>5. /\ m[p][a] = o[p][a] + 1
            /\ \A x \in Procs : \A h \in Files : x /= p \/ h /= a => m[x][h] = o[x][h]
        BY <4>3, <4>4 DEF OfType
      <4>6. /\ u[p][b] = m[p][b] + 1
            /\ \A x \in Procs : \A h \in Files : x /= p \/ h /= b => u[x][h] = m[x][h]
        BY <1>2, <2>1, <2>2, <3>2, <4>1, <4>2, <4>3, <4>4, <4>5 DEF OfType
      <4>7. ASSUME NEW g \in Files PROVE Refs(ofile', f0', f1', g) = Refs(ofile, f0, f1, g)
        <5>1. Cardinality(Desc(m, g)) = Cardinality(Desc(o, g)) + (IF g = a THEN 1 ELSE 0)
          BY <4>5, DescUp
        <5>2. Cardinality(Desc(u, g)) = Cardinality(Desc(m, g)) + (IF g = b THEN 1 ELSE 0)
          BY <4>6, DescUp
        <5>3. /\ f0'[p] = None /\ f0[p] = a /\ \A x \in Procs \ {p} : f0[x] = f0'[x]
              /\ f1'[p] = None /\ f1[p] = b /\ \A x \in Procs \ {p} : f1[x] = f1'[x]
              /\ None /= g
          BY <1>2, <2>1, <3>2, NoneAssumption DEF LocType
        <5>4. Cardinality(Held(f0, g)) = Cardinality(Held(f0', g)) + (IF g = a THEN 1 ELSE 0)
          <6>1. CASE g = a
            BY <5>3, <6>1, HeldSet, HeldFinite, SMTT(60)
          <6>2. CASE g /= a
            BY <5>3, <6>2, HeldSame, HeldFinite
          <6> QED BY <6>1, <6>2
        <5>5. Cardinality(Held(f1, g)) = Cardinality(Held(f1', g)) + (IF g = b THEN 1 ELSE 0)
          <6>1. CASE g = b
            BY <5>3, <6>1, HeldSet, HeldFinite
          <6>2. CASE g /= b
            BY <5>3, <6>2, HeldSame, HeldFinite
          <6> QED BY <6>1, <6>2
        <5> QED BY <4>1, <4>2, <5>1, <5>2, <5>4, <5>5, DescFinite, HeldFinite DEF Refs
      <4> QED BY <2>6, <3>0, <4>7, RefsForm
    <3> QED BY <1>4, <3>1, <3>2
  <2>12. LocalInv'
    <3>1. LocalAt(p)'
      BY <1>1, <2>2, <2>7, <2>8, NoneAssumption DEF LocalAt
    <3> QED BY <2>9, <2>10, <3>1, LocalStep DEF FInv
  <2>13. pipe' \in [Pipes -> [used : BOOLEAN, readopen : BOOLEAN, writeopen : BOOLEAN,
                           nread : 0..(WORD - 1), nwrite : 0..(WORD - 1),
                           data : [0..(PIPESIZE - 1) -> Byte]]]
         /\ pipe'[q].used /\ pipe'[q].readopen /\ pipe'[q].writeopen
         /\ pipe'[q].nread = 0 /\ pipe'[q].nwrite = 0
         /\ \A r \in Pipes \ {q} : pipe'[r] = pipe[r]
    <3>1. AnyByte \in Byte /\ 0 \in 0..(WORD - 1)
      BY SizeAssumption DEF AnyByte
    <3> QED BY <1>4, <3>1 DEF FInv, TypeOK, NoPipe
  <2>14. TypeOK'
    <3>1. file' \in [Files -> Entries]
      BY <2>5, <2>9, <2>11, <2>12, FileTyped
    <3> QED BY <1>1, <2>7, <2>8, <2>9, <2>13, <3>1 DEF FInv, TypeOK, OfType, LocType, io
  <2>15. EndsCounted'
    <3>1. ASSUME NEW w \in BOOLEAN PROVE Count(file', ff', q, w) = 1
      <4>1. Count(file, ff, q, w) = 0
        BY <1>4, EndsForm DEF FInv
      <4>2. PICK f \in {a, b} : IsEnd(file'[f], q, w) /\ file'[f].ref > 0
        <5>1. \A v \in BOOLEAN : IsEnd(Fill(v, q), q, v) /\ Fill(v, q).ref > 0
          BY DEF Fill, IsEnd
        <5>2. PICK f \in {a, b} : file'[f] = Fill(w, q)
          BY <2>4
        <5> QED BY <5>1, <5>2
      <4>3. ~IsEnd(file[a], q, w) /\ ~IsEnd(file[b], q, w)
        BY <2>3 DEF NewFile, IsEnd
      <4>4. \A g \in Files \ {f} : file'[g].ref > 0 /\ IsEnd(file'[g], q, w)
                                   <=> file[g].ref > 0 /\ IsEnd(file[g], q, w)
        <5>1. \A g \in {a, b} \ {f} : ~IsEnd(file'[g], q, w)
          BY <2>2, <2>4, <4>2 DEF Fill, IsEnd
        <5> QED BY <2>4, <4>3, <5>1
      <4>5. Count(file', ff, q, w) = Count(file, ff, q, w) + 1
        BY <4>2, <4>3, <4>4, CountAdded
      <4> QED BY <1>1, <4>1, <4>5
    <3>2. ASSUME NEW r \in Pipes \ {q}, NEW w \in BOOLEAN
          PROVE  Count(file', ff', r, w) = Count(file, ff, r, w)
      <4>1. \A g \in {a, b} : ~IsEnd(file[g], r, w) /\ ~IsEnd(file'[g], r, w)
        BY <2>3, <2>4 DEF NewFile, Fill, IsEnd
      <4>2. \A g \in Files : file'[g].ref > 0 /\ IsEnd(file'[g], r, w)
                             <=> file[g].ref > 0 /\ IsEnd(file[g], r, w)
        BY <2>4, <4>1
      <4> QED BY <1>1, <4>2, CountSame
    <3> QED BY <2>13, <3>1, <3>2, EndsForm DEF FInv
  <2>16. EntryInv'
    BY <2>4 DEF FInv, EntryInv, Fill
  <2>17. NewInv'
    <3>1. NewAt(p)'
      BY <2>7 DEF NewAt
    <3>2. \A g \in Files \ {a, b} : /\ file'[g].ref = file[g].ref /\ file'[g].type = file[g].type
                                    /\ \A x \in Procs : ofile'[x][g] = ofile[x][g]
      BY <2>4, <2>9
    <3>3. /\ {a, b} \in SUBSET Files /\ \A g \in {a, b} : g \in {f0[p], f1[p]}
          /\ {f0'[p], f1'[p]} \subseteq {a, b} \cup {f0[p], f1[p], None}
      BY <2>1, <2>8
    <3>4. NewInv /\ TypeOK
      BY DEF FInv
    <3> QED BY <2>10, <3>1, <3>2, <3>3, <3>4, NewStep, Zenon
  <2>18. UseInv'
    <3>1. ASSUME NEW g \in Files, NEW x \in Procs \ {p}, ofile'[x][g] > 0 PROVE SameEntry(g)
      <4>1. g \notin {a, b}
        BY <2>3, <2>9, <3>1 DEF NewFile
      <4> QED BY <2>4, <4>1 DEF SameEntry
    <3>2. UseAt(p)'
      BY <1>1, <2>7 DEF FInv, UseInv, UseAt, InIO, Reading, Writing, io
    <3>3. \A x \in Procs \ {p} : at'[x] = at[x] /\ left'[x] = left[x] /\ want'[x] = want[x]
      BY <1>1 DEF io
    <3> QED BY <2>9, <2>10, <3>1, <3>2, <3>3, UseStep DEF FInv
  <2>19. FillInv'
    <3>1. (0 - 0) % WORD = 0
      BY SizeAssumption
    <3> QED BY <2>13, <3>1, SizeAssumption DEF FInv, FillInv, Used
  <2>20. NoLostWakeup'
    <3>1. SUFFICES ASSUME NEW x \in Procs, pc'[x] \in {"rsleep", "wsleep"}
                   PROVE  /\ pc'[x] = "rsleep" =>
                                \/ Empty(at[x])' /\ pipe'[at'[x]].writeopen
                                \/ at'[x] \in abandoned'
                          /\ pc'[x] = "wsleep" => Full(at[x])' /\ pipe'[at'[x]].readopen
      BY DEF NoLostWakeup
    <3>2. x /= p /\ pc[x] = pc'[x] /\ at'[x] = at[x]
      BY <1>1, <2>7, <3>1 DEF io
    <3>3. InIO(x)
      BY <3>1, <3>2 DEF InIO, Reading, Writing
    <3>4. at[x] \in Pipes /\ at[x] /= q
      BY <1>4, <3>3, AtOpen
    <3>5. pipe'[at[x]] = pipe[at[x]]
      BY <2>13, <3>4
    <3> QED BY <1>1, <3>2, <3>5 DEF FInv, NoLostWakeup, Empty, Full
  <2> QED BY <2>11, <2>12, <2>14, <2>15, <2>16, <2>17, <2>18, <2>19, <2>20 DEF FInv
<1> QED BY <1>3, <1>4 DEF PipeDone

-----------------------------------------------------------------------------
(* The rest of fileclose. *)

\* Nobody uses the end that is being closed.
LEMMA NotInUse ==
    ASSUME FInv, NEW p \in Procs, ff[p] /= None, NEW q \in Pipes, NEW w \in BOOLEAN,
           IsEnd(ff[p], q, w), NEW x \in Procs, InIO(x), at[x] = q
    PROVE  w /= (pc[x] \in Writing)
<1>1. SUFFICES ASSUME w = (pc[x] \in Writing) PROVE FALSE
  OBVIOUS
<1>2. PICK f \in Files : ofile[x][f] > 0 /\ IsEnd(file[f], at[x], pc[x] \in Writing)
  BY DEF FInv, UseInv, UseAt
<1>3. file[f].ref > 0 /\ IsEnd(file[f], q, w)
  BY <1>1, <1>2, Referenced DEF FInv
<1>4. Count(file, ff, q, w) > 1
  BY <1>3, CountTwo
<1>5. Count(file, ff, q, w) \in {0, 1}
  BY EndsForm DEF FInv
<1> QED BY <1>4, <1>5

LEMMA FileCloseRestStep == ASSUME FInv, NEW p \in Procs, FileCloseRest(p) PROVE FInv'
<1> DEFINE c == ff[p]
<1>1. /\ pc[p] = "close"
      /\ ff' = [ff EXCEPT ![p] = None] /\ ret' = [ret EXCEPT ![p] = "user"]
      /\ file' = file /\ ofile' = ofile /\ killed' = killed
      /\ f0' = f0 /\ f1' = f1 /\ at' = at /\ want' = want /\ left' = left
  BY DEF FileCloseRest, io
<1>2. /\ pc \in [Procs -> PCs] /\ ff \in [Procs -> Entries \cup {None}] /\ ret \in [Procs -> PCs]
  BY DEF FInv, TypeOK
<1>3. /\ c \in Entries /\ c /= None /\ ret[p] \in {"user", "bad", "exit"} /\ f0[p] = None
      /\ ret[p] /= "bad" => f1[p] = None
      /\ c.type = "pipe" => c.pipe \in Pipes
  BY <1>1, NoneAssumption DEF FInv, LocalInv, LocalAt
<1>4. /\ ff'[p] = None /\ \A x \in Procs \ {p} : ff'[x] = ff[x] /\ ret'[x] = ret[x]
      /\ ff' \in [Procs -> Entries \cup {None}] /\ ret' \in [Procs -> PCs]
  BY <1>1, <1>2 DEF PCs
<1>5. /\ pc' \in [Procs -> PCs] /\ pc'[p] = ret[p] /\ Others(p)
      /\ c.type = "pipe" => \A x \in Procs \ {p} : at[x] = c.pipe =>
            /\ c.writable => pc'[x] /= "rsleep"
            /\ ~c.writable => pc'[x] /= "wsleep"
  <2>1. CASE c.type = "none"
    <3>1. pc' = [pc EXCEPT ![p] = ret[p]]
      BY <1>3, <2>1 DEF FileCloseRest, Goto
    <3> QED BY <1>2, <2>1, <3>1 DEF Others
  <2>2. CASE c.type = "pipe"
    <3>1. PICK q \in Pipes, w \in BOOLEAN : q = c.pipe /\ w = c.writable
      BY <1>3, <2>2 DEF Entries
    <3>2. pc' = [(IF w THEN Awake(pc, q, "rsleep", "read") ELSE Awake(pc, q, "wsleep", "write"))
                    EXCEPT ![p] = ret[p]]
      BY <2>2, <3>1 DEF FileCloseRest
    <3>3. CASE w
      <4>1. \A x \in Procs : pc'[x] = IF x = p THEN ret[p]
                                      ELSE IF pc[x] = "rsleep" /\ at[x] = q THEN "read" ELSE pc[x]
        BY <3>2, <3>3 DEF Awake
      <4>2. pc' \in [Procs -> PCs]
        BY <1>2, <3>2, <3>3 DEF Awake, PCs
      <4> QED BY <3>1, <3>3, <4>1, <4>2 DEF Others
    <3>4. CASE ~w
      <4>1. \A x \in Procs : pc'[x] = IF x = p THEN ret[p]
                                      ELSE IF pc[x] = "wsleep" /\ at[x] = q THEN "write" ELSE pc[x]
        BY <3>2, <3>4 DEF Awake
      <4>2. pc' \in [Procs -> PCs]
        BY <1>2, <3>2, <3>4 DEF Awake, PCs
      <4> QED BY <3>1, <3>4, <4>1, <4>2 DEF Others
    <3> QED BY <3>3, <3>4
  <2> QED BY <1>3, <2>1, <2>2 DEF Entries
<1>6. \A x \in Procs \ {p} : LocalsOf(x)
  BY <1>1, <1>4 DEF LocalsOf
<1>7. RefsExact' /\ EntryInv'
  BY <1>1, RefsForm DEF FInv, EntryInv
<1>8. LocalInv'
  <2>1. LocalAt(p)'
    BY <1>1, <1>3, <1>4, <1>5, NoneAssumption DEF LocalAt
  <2> QED BY <1>1, <1>5, <1>6, <2>1, LocalStep DEF FInv
<1>9. NewInv'
  <2>1. ASSUME NEW x \in Procs PROVE NewAt(x)'
    <3>1. NewAt(x)
      BY DEF FInv, NewInv
    <3>2. pc'[x] \in {"pipe1", "pipe2"} => pc[x] \in {"pipe1", "pipe2"}
      BY <1>3, <1>5 DEF Others
    <3> QED BY <1>1, <3>1, <3>2 DEF NewAt, NewFile
  <2> QED BY <2>1 DEF NewInv
<1>10. UseInv'
  <2>1. UseAt(p)'
    BY <1>1, <1>3, <1>5 DEF FInv, UseInv, UseAt, InIO, Reading, Writing
  <2>2. \A f \in Files : SameEntry(f)
    BY <1>1 DEF SameEntry
  <2> QED BY <1>1, <1>5, <2>1, <2>2, UseStep DEF FInv
<1>11. ASSUME NEW q \in Pipes, NEW w \in BOOLEAN
       PROVE  Count(file', ff', q, w) = Count(file, ff, q, w) - (IF IsEnd(c, q, w) THEN 1 ELSE 0)
  <2>1. ff[p] /= None /\ ff'[p] = None /\ \A x \in Procs \ {p} : ff'[x] = ff[x]
    BY <1>3, <1>4
  <2>2. Count(file, ff', q, w) = Count(file, ff, q, w) - (IF IsEnd(ff[p], q, w) THEN 1 ELSE 0)
    <3>1. PICK u : u = ff
      OBVIOUS
    <3>2. PICK v : v = ff'
      OBVIOUS
    <3>3. u[p] /= None /\ v[p] = None /\ \A x \in Procs \ {p} : v[x] = u[x]
      BY <2>1, <3>1, <3>2
    <3>4. Count(file, v, q, w) = Count(file, u, q, w) - (IF IsEnd(u[p], q, w) THEN 1 ELSE 0)
      BY <3>3, CountDropped
    <3> QED BY <3>1, <3>2, <3>4
  <2> QED BY <1>1, <2>2
<1>12. CASE c.type = "none"
  <2>1. pipe' = pipe /\ abandoned' = abandoned
    BY <1>12 DEF FileCloseRest
  <2>2. EndsCounted'
    <3>1. \A q \in Pipes : \A w \in BOOLEAN : Count(file', ff', q, w) = Count(file, ff, q, w)
      <4>1. \A q \in Pipes : \A w \in BOOLEAN : ~IsEnd(c, q, w)
        BY <1>12 DEF IsEnd
      <4>2. \A q \in Pipes : \A w \in BOOLEAN : Count(file, ff, q, w) \in Nat
        BY EndsFinite DEF Count
      <4> QED BY <1>11, <4>1, <4>2
    <3> QED BY <2>1, <3>1, EndsForm DEF FInv
  <2>3. TypeOK'
    BY <1>1, <1>4, <1>5, <2>1 DEF FInv, TypeOK
  <2>4. FillInv' /\ NoLostWakeup'
    <3>1. FillInv'
      BY <2>1 DEF FInv, FillInv, Used
    <3>2. pc'[p] \notin {"rsleep", "wsleep"}
      BY <1>3, <1>5
    <3> QED BY <1>1, <1>5, <2>1, <3>1, <3>2, WakeStep DEF FInv
  <2> QED BY <1>7, <1>8, <1>9, <1>10, <2>2, <2>3, <2>4 DEF FInv
<1>13. CASE c.type = "pipe"
  <2>1. PICK q \in Pipes, w \in BOOLEAN : q = c.pipe /\ w = c.writable
    BY <1>3, <1>13 DEF Entries
  <2>2. IsEnd(c, q, w) /\ \A r \in Pipes : \A v \in BOOLEAN : IsEnd(c, r, v) <=> r = q /\ v = w
    BY <1>13, <2>1 DEF IsEnd
  <2>3. pipeclose(q, w)
    BY <1>13, <2>1 DEF FileCloseRest
  <2> DEFINE r == IF w THEN [pipe[q] EXCEPT !.writeopen = FALSE]
                       ELSE [pipe[q] EXCEPT !.readopen = FALSE]
             last == ~r.readopen /\ ~r.writeopen
  <2>4. /\ pipe' = [pipe EXCEPT ![q] = IF last THEN NoPipe ELSE r]
        /\ abandoned' = IF w \/ last THEN abandoned \ {q} ELSE abandoned
    BY <2>3 DEF pipeclose
  <2>5. pipe \in [Pipes -> [used : BOOLEAN, readopen : BOOLEAN, writeopen : BOOLEAN,
                           nread : 0..(WORD - 1), nwrite : 0..(WORD - 1),
                           data : [0..(PIPESIZE - 1) -> Byte]]]
    BY DEF FInv, TypeOK
  <2>6. /\ r \in [used : BOOLEAN, readopen : BOOLEAN, writeopen : BOOLEAN,
                  nread : 0..(WORD - 1), nwrite : 0..(WORD - 1),
                  data : [0..(PIPESIZE - 1) -> Byte]]
        /\ r.used = pipe[q].used /\ r.nread = pipe[q].nread /\ r.nwrite = pipe[q].nwrite
        /\ r.writeopen = (pipe[q].writeopen /\ ~w) /\ r.readopen = (pipe[q].readopen /\ w)
    <3>1. CASE w
      BY <2>5, <3>1
    <3>2. CASE ~w
      BY <2>5, <3>2
    <3> QED BY <3>1, <3>2
  <2>7. NoPipe \in [used : BOOLEAN, readopen : BOOLEAN, writeopen : BOOLEAN,
                    nread : 0..(WORD - 1), nwrite : 0..(WORD - 1),
                    data : [0..(PIPESIZE - 1) -> Byte]]
        /\ ~NoPipe.used /\ ~NoPipe.readopen /\ ~NoPipe.writeopen
        /\ NoPipe.nread = 0 /\ NoPipe.nwrite = 0
    <3>1. AnyByte \in Byte /\ 0 \in 0..(WORD - 1)
      BY SizeAssumption DEF AnyByte
    <3> QED BY <3>1 DEF NoPipe
  <2> HIDE DEF r, last
  <2>8. /\ pipe'[q] = IF last THEN NoPipe ELSE r
        /\ \A s \in Pipes \ {q} : pipe'[s] = pipe[s]
    BY <2>4, <2>5
  <2>9. TypeOK'
    <3>1. pipe' \in [Pipes -> [used : BOOLEAN, readopen : BOOLEAN, writeopen : BOOLEAN,
                           nread : 0..(WORD - 1), nwrite : 0..(WORD - 1),
                           data : [0..(PIPESIZE - 1) -> Byte]]]
      BY <2>4, <2>5, <2>6, <2>7
    <3>2. abandoned' \subseteq Pipes
      BY <2>4 DEF FInv, TypeOK
    <3> QED BY <1>1, <1>4, <1>5, <3>1, <3>2 DEF FInv, TypeOK
  <2>10. EndsCounted'
    <3>1. \A s \in Pipes \ {q} : \A v \in BOOLEAN : Count(file', ff', s, v) = Count(file, ff, s, v)
      <4>1. \A s \in Pipes \ {q} : \A v \in BOOLEAN : ~IsEnd(c, s, v)
        BY <2>2
      <4>2. \A s \in Pipes : \A v \in BOOLEAN : Count(file, ff, s, v) \in Nat
        BY EndsFinite DEF Count
      <4> QED BY <1>11, <4>1, <4>2
    <3>2. Count(file, ff, q, w) /= 0
      BY <1>3, <2>2, CountNone
    <3>3. /\ \A v \in BOOLEAN : Count(file, ff, q, v)
                = IF pipe[q].used /\ (IF v THEN pipe[q].writeopen ELSE pipe[q].readopen)
                  THEN 1 ELSE 0
          /\ pipe[q].used <=> pipe[q].readopen \/ pipe[q].writeopen
      BY EndsForm DEF FInv
    <3>4. /\ Count(file', ff', q, w) = 0 /\ pipe[q].used
          /\ \A v \in BOOLEAN : v /= w => Count(file', ff', q, v) = Count(file, ff, q, v)
      <4>1. \A v \in BOOLEAN : Count(file, ff, q, v) \in Nat
        BY EndsFinite DEF Count
      <4>2. Count(file', ff', q, w) = Count(file, ff, q, w) - 1
        BY <1>11, <2>2
      <4>3. Count(file, ff, q, w) = 1 /\ pipe[q].used
        BY <3>2, <3>3
      <4>4. \A v \in BOOLEAN : v /= w => ~IsEnd(c, q, v)
        BY <2>2
      <4> QED BY <1>11, <4>1, <4>2, <4>3, <4>4
    <3>5. ASSUME NEW v \in BOOLEAN
          PROVE  Count(file', ff', q, v)
                 = IF pipe'[q].used /\ (IF v THEN pipe'[q].writeopen ELSE pipe'[q].readopen)
                   THEN 1 ELSE 0
      <4>1. CASE last
        <5>1. v /= w => Count(file, ff, q, v) = 0
          BY <2>6, <3>3, <4>1 DEF last
        <5> QED BY <2>7, <2>8, <3>4, <4>1, <5>1
      <4>2. CASE ~last
        <5>1. pipe'[q] = r
          BY <2>8, <4>2
        <5>2. CASE v = w
          BY <2>6, <3>4, <5>1, <5>2
        <5>3. CASE v /= w
          BY <2>6, <3>3, <3>4, <5>1, <5>3
        <5> QED BY <5>2, <5>3
      <4> QED BY <4>1, <4>2
    <3>6. pipe'[q].used <=> pipe'[q].readopen \/ pipe'[q].writeopen
      BY <2>6, <2>7, <2>8, <3>4 DEF last
    <3> QED BY <2>8, <3>1, <3>5, <3>6, EndsForm DEF FInv
  <2>11. FillInv'
    <3>1. (0 - 0) % WORD = 0
      BY SizeAssumption
    <3>2. ASSUME NEW s \in Pipes PROVE Used(s)' <= PIPESIZE
      <4>1. CASE s = q /\ last
        BY <2>7, <2>8, <3>1, <4>1, SizeAssumption DEF Used
      <4>2. CASE ~(s = q /\ last)
        <5>1. pipe'[s].nread = pipe[s].nread /\ pipe'[s].nwrite = pipe[s].nwrite
          BY <2>6, <2>8, <4>2
        <5> QED BY <5>1 DEF FInv, FillInv, Used
      <4> QED BY <4>1, <4>2
    <3> QED BY <3>2 DEF FillInv
  <2>12. NoLostWakeup'
    <3>1. SUFFICES ASSUME NEW x \in Procs, pc'[x] \in {"rsleep", "wsleep"}
                   PROVE  /\ pc'[x] = "rsleep" =>
                                \/ Empty(at[x])' /\ pipe'[at'[x]].writeopen
                                \/ at'[x] \in abandoned'
                          /\ pc'[x] = "wsleep" => Full(at[x])' /\ pipe'[at'[x]].readopen
      BY DEF NoLostWakeup
    <3>2. x /= p /\ pc[x] = pc'[x] /\ at'[x] = at[x]
      BY <1>1, <1>3, <1>5, <3>1 DEF Others
    <3>3. InIO(x)
      BY <3>1, <3>2 DEF InIO, Reading, Writing
    <3>4. at[x] \in Pipes
      BY <3>3 DEF FInv, UseInv, UseAt
    <3>5. at[x] /= q
      <4>1. SUFFICES ASSUME at[x] = q PROVE FALSE
        OBVIOUS
      <4>2. w /= (pc[x] \in Writing)
        BY <1>3, <2>2, <3>3, <4>1, NotInUse
      <4>3. CASE w
        <5>1. pc[x] = "rsleep"
          BY <3>1, <3>2, <4>2, <4>3 DEF Writing
        <5> QED BY <1>5, <1>13, <2>1, <3>2, <4>1, <4>3, <5>1
      <4>4. CASE ~w
        <5>1. pc[x] = "wsleep"
          BY <3>1, <3>2, <4>2, <4>4 DEF Writing
        <5> QED BY <1>5, <1>13, <2>1, <3>2, <4>1, <4>4, <5>1
      <4> QED BY <4>3, <4>4
    <3>6. pipe'[at[x]] = pipe[at[x]] /\ (at[x] \in abandoned => at[x] \in abandoned')
      BY <2>4, <2>8, <3>4, <3>5
    <3> QED BY <3>2, <3>6 DEF FInv, NoLostWakeup, Empty, Full
  <2> QED BY <1>7, <1>8, <1>9, <1>10, <2>9, <2>10, <2>11, <2>12 DEF FInv
<1> QED BY <1>3, <1>12, <1>13 DEF Entries

-----------------------------------------------------------------------------
(* Reading and writing. *)

LEMMA MinTwo ==
    ASSUME NEW a \in Int, NEW b \in Int
    PROVE  Min({a, b}) = IF a <= b THEN a ELSE b
BY DEF Min

\* The counters and how much is in the pipe.
LEMMA UsedRange ==
    ASSUME NEW a \in 0..(WORD - 1), NEW b \in 0..(WORD - 1)
    PROVE  /\ (a - b) % WORD \in 0..(WORD - 1)
           /\ a = (b + PIPESIZE) % WORD <=> (a - b) % WORD = PIPESIZE
           /\ a = b <=> (a - b) % WORD = 0
<1>1. (a - b) % WORD = IF b <= a THEN a - b ELSE a - b + WORD
  BY ModSub, SizeAssumption
<1>2. (b + PIPESIZE) % WORD = IF b + PIPESIZE < WORD THEN b + PIPESIZE ELSE b + PIPESIZE - WORD
  BY ModAdd, SizeAssumption
<1> QED BY <1>1, <1>2, SizeAssumption

LEMMA UsedRead ==
    ASSUME NEW a \in 0..(WORD - 1), NEW b \in 0..(WORD - 1), NEW k \in 0..((a - b) % WORD)
    PROVE  /\ (b + k) % WORD \in 0..(WORD - 1)
           /\ (a - ((b + k) % WORD)) % WORD = ((a - b) % WORD) - k
<1>1. (a - b) % WORD = IF b <= a THEN a - b ELSE a - b + WORD
  BY ModSub, SizeAssumption
<1>2. PICK d \in 0..(WORD - 1) : d = (b + k) % WORD
  BY SizeAssumption
<1>3. k \in 0..WORD
  BY <1>1, SizeAssumption
<1>4. d = IF b + k < WORD THEN b + k ELSE b + k - WORD
  BY <1>2, <1>3, ModAdd, SizeAssumption
<1>5. (a - d) % WORD = IF d <= a THEN a - d ELSE a - d + WORD
  BY ModSub, SizeAssumption
<1> QED BY <1>1, <1>2, <1>4, <1>5, SizeAssumption

LEMMA UsedWrite ==
    ASSUME NEW a \in 0..(WORD - 1), NEW b \in 0..(WORD - 1), NEW k \in Nat,
           ((a - b) % WORD) + k <= PIPESIZE
    PROVE  /\ (a + k) % WORD \in 0..(WORD - 1)
           /\ (((a + k) % WORD) - b) % WORD = ((a - b) % WORD) + k
<1>1. (a - b) % WORD = IF b <= a THEN a - b ELSE a - b + WORD
  BY ModSub, SizeAssumption
<1>2. PICK d \in 0..(WORD - 1) : d = (a + k) % WORD
  BY SizeAssumption
<1>3. k \in 0..WORD
  BY <1>1, SizeAssumption
<1>4. d = IF a + k < WORD THEN a + k ELSE a + k - WORD
  BY <1>2, <1>3, ModAdd, SizeAssumption
<1>5. (d - b) % WORD = IF b <= d THEN d - b ELSE d - b + WORD
  BY ModSub, SizeAssumption
<1> QED BY <1>1, <1>2, <1>4, <1>5, SizeAssumption

PipeType == [used : BOOLEAN, readopen : BOOLEAN, writeopen : BOOLEAN,
             nread : 0..(WORD - 1), nwrite : 0..(WORD - 1),
             data : [0..(PIPESIZE - 1) -> Byte]]

\* Reading and writing change neither the table nor who has what open.
LEMMA IOStep ==
    ASSUME FInv, NEW p \in Procs, Others(p), pc[p] \in {"user", "read", "write"},
           pc'[p] \in {"user"} \cup Reading \cup Writing, pc' \in [Procs -> PCs],
           UNCHANGED <<file, ofile, killed, loc>>,
           pipe' \in [Pipes -> PipeType],
           \A q \in Pipes : /\ pipe'[q].used = pipe[q].used
                            /\ pipe'[q].readopen = pipe[q].readopen
                            /\ pipe'[q].writeopen = pipe[q].writeopen,
           \A x \in Procs \ {p} : at'[x] = at[x] /\ left'[x] = left[x] /\ want'[x] = want[x],
           at' \in [Procs -> Pipes \cup {None}], want' \in [Procs -> ReadSizes \cup {0}],
           left' \in [Procs -> Seq(Byte)], abandoned' \subseteq Pipes,
           UseAt(p)', FillInv', NoLostWakeup'
    PROVE  FInv'
<1>0. /\ file' = file /\ ofile' = ofile /\ killed' = killed
      /\ f0' = f0 /\ f1' = f1 /\ ff' = ff /\ ret' = ret
  BY DEF loc
<1>1. RefsExact' /\ EntryInv'
  BY <1>0, RefsForm DEF FInv, EntryInv
<1>2. EndsCounted'
  BY <1>0, EndsForm, SMTT(60) DEF FInv
<1>3. TypeOK'
  BY <1>0 DEF FInv, TypeOK, PipeType
<1>4. LocalInv'
  <2>1. LocalAt(p)'
    BY <1>0, NoneAssumption DEF FInv, LocalInv, LocalAt, Reading, Writing
  <2>2. \A x \in Procs \ {p} : LocalsOf(x)
    BY <1>0 DEF LocalsOf
  <2> QED BY <1>0, <2>1, <2>2, LocalStep DEF FInv
<1>5. NewInv'
  <2>1. ASSUME NEW x \in Procs PROVE NewAt(x)'
    <3>1. NewAt(x)
      BY DEF FInv, NewInv
    <3>2. pc'[x] \in {"pipe1", "pipe2"} => pc[x] \in {"pipe1", "pipe2"}
      BY DEF Others, Reading, Writing
    <3> QED BY <1>0, <3>1, <3>2 DEF NewAt, NewFile
  <2> QED BY <2>1 DEF NewInv
<1>6. UseInv'
  <2>1. \A f \in Files : SameEntry(f)
    BY <1>0 DEF SameEntry
  <2> QED BY <1>0, <2>1, UseStep DEF FInv
<1> QED BY <1>1, <1>2, <1>3, <1>4, <1>5, <1>6 DEF FInv

LEMMA ReadStep ==
    ASSUME FInv, NEW p \in Procs, NEW f \in Files, NEW n \in ReadSizes, Read(p, f, n)
    PROVE  FInv'
<1>1. /\ pc[p] = "user" /\ ofile[p][f] > 0 /\ file[f].type = "pipe" /\ ~file[f].writable
      /\ at' = [at EXCEPT ![p] = file[f].pipe] /\ want' = [want EXCEPT ![p] = n]
      /\ pc' = [pc EXCEPT ![p] = "read"]
      /\ UNCHANGED <<left, file, pipe, ofile, killed, loc, abandoned>>
  BY DEF Read, Enter, Goto
<1>2. /\ pc \in [Procs -> PCs] /\ at \in [Procs -> Pipes \cup {None}]
      /\ want \in [Procs -> ReadSizes \cup {0}] /\ left \in [Procs -> Seq(Byte)]
      /\ pipe \in [Pipes -> PipeType] /\ abandoned \subseteq Pipes /\ file[f] \in Entries
  BY DEF FInv, TypeOK, PipeType
<1>3. PICK q \in Pipes : q = file[f].pipe
  BY <1>1 DEF FInv, EntryInv
<1>4. /\ pc'[p] = "read" /\ pc' \in [Procs -> PCs] /\ Others(p)
      /\ at'[p] = q /\ want'[p] = n /\ n > 0
      /\ at' \in [Procs -> Pipes \cup {None}] /\ want' \in [Procs -> ReadSizes \cup {0}]
      /\ \A x \in Procs \ {p} : at'[x] = at[x] /\ left'[x] = left[x] /\ want'[x] = want[x]
  BY <1>1, <1>2, <1>3, SizeAssumption DEF PCs, Others
<1>5. IsEnd(file'[f], q, FALSE) /\ ofile'[p][f] > 0
  BY <1>1, <1>2, <1>3 DEF IsEnd, Entries
<1>6. UseAt(p)'
  <2>1. InIO(p)' /\ pc'[p] \in Reading /\ pc'[p] \notin Writing
    BY <1>4 DEF InIO, Reading, Writing
  <2>2. IsEnd(file'[f], at'[p], pc'[p] \in Writing)
    <3>1. (pc'[p] \in Writing) = FALSE /\ at'[p] = q
      BY <1>4, <2>1
    <3> QED BY <1>5, <3>1 DEF IsEnd
  <2> QED BY <1>4, <1>5, <2>1, <2>2 DEF UseAt
<1>7. FillInv' /\ NoLostWakeup'
  <2>1. FillInv'
    BY <1>1 DEF FInv, FillInv, Used
  <2> QED BY <1>1, <1>4, <2>1, WakeStep DEF FInv
<1> QED BY <1>1, <1>2, <1>4, <1>6, <1>7, IOStep DEF Reading

LEMMA WriteStep ==
    ASSUME FInv, NEW p \in Procs, NEW f \in Files, NEW m \in Messages, Write(p, f, m)
    PROVE  FInv'
<1>1. /\ pc[p] = "user" /\ ofile[p][f] > 0 /\ file[f].type = "pipe" /\ file[f].writable
      /\ at' = [at EXCEPT ![p] = file[f].pipe] /\ left' = [left EXCEPT ![p] = m]
      /\ pc' = [pc EXCEPT ![p] = "write"]
      /\ UNCHANGED <<want, file, pipe, ofile, killed, loc, abandoned>>
  BY DEF Write, Enter, Goto
<1>2. /\ pc \in [Procs -> PCs] /\ at \in [Procs -> Pipes \cup {None}]
      /\ want \in [Procs -> ReadSizes \cup {0}] /\ left \in [Procs -> Seq(Byte)]
      /\ pipe \in [Pipes -> PipeType] /\ abandoned \subseteq Pipes /\ file[f] \in Entries
  BY DEF FInv, TypeOK, PipeType
<1>3. PICK q \in Pipes : q = file[f].pipe
  BY <1>1 DEF FInv, EntryInv
<1>m. m \in Seq(Byte) /\ Len(m) > 0
  <2>1. m \in Seq(Byte) /\ m /= <<>>
    BY SizeAssumption
  <2> QED BY <2>1
<1>4. /\ pc'[p] = "write" /\ pc' \in [Procs -> PCs] /\ Others(p)
      /\ at'[p] = q /\ left'[p] = m
      /\ at' \in [Procs -> Pipes \cup {None}] /\ left' \in [Procs -> Seq(Byte)]
      /\ \A x \in Procs \ {p} : at'[x] = at[x] /\ left'[x] = left[x] /\ want'[x] = want[x]
  BY <1>1, <1>2, <1>3, <1>m DEF PCs, Others
<1>5. IsEnd(file'[f], q, TRUE) /\ ofile'[p][f] > 0
  BY <1>1, <1>2, <1>3 DEF IsEnd, Entries
<1>6. UseAt(p)'
  <2>1. InIO(p)' /\ pc'[p] \notin Reading /\ pc'[p] \in Writing
    BY <1>4 DEF InIO, Reading, Writing
  <2> QED BY <1>4, <1>5, <1>m, <2>1 DEF UseAt
<1>7. FillInv' /\ NoLostWakeup'
  <2>1. FillInv'
    BY <1>1 DEF FInv, FillInv, Used
  <2> QED BY <1>1, <1>4, <2>1, WakeStep DEF FInv
<1> QED BY <1>1, <1>2, <1>4, <1>6, <1>7, IOStep DEF Writing

\* What Return does to the locals of a call.
LEMMA ReturnFacts ==
    ASSUME FInv, NEW p \in Procs, NEW P \in [Procs -> PCs], Return(p, P)
    PROVE  /\ pc' \in [Procs -> PCs] /\ pc'[p] = "user"
           /\ \A x \in Procs \ {p} : pc'[x] = P[x]
           /\ \A x \in Procs \ {p} : at'[x] = at[x] /\ left'[x] = left[x] /\ want'[x] = want[x]
           /\ at' \in [Procs -> Pipes \cup {None}] /\ want' \in [Procs -> ReadSizes \cup {0}]
           /\ left' \in [Procs -> Seq(Byte)]
           /\ UseAt(p)'
<1>1. /\ at \in [Procs -> Pipes \cup {None}] /\ want \in [Procs -> ReadSizes \cup {0}]
      /\ left \in [Procs -> Seq(Byte)]
  BY DEF FInv, TypeOK
<1>2. /\ pc' = [P EXCEPT ![p] = "user"] /\ at' = [at EXCEPT ![p] = None]
      /\ want' = [want EXCEPT ![p] = 0] /\ left' = [left EXCEPT ![p] = <<>>]
  BY DEF Return
<1>3. <<>> \in Seq(Byte)
  OBVIOUS
<1>4. left' \in [Procs -> Seq(Byte)]
  BY <1>1, <1>2, <1>3
<1>5. pc' \in [Procs -> PCs] /\ pc'[p] = "user" /\ at'[p] = None
  BY <1>1, <1>2 DEF PCs
<1>6. UseAt(p)'
  BY <1>5 DEF UseAt, InIO, Reading, Writing
<1> QED BY <1>1, <1>2, <1>4, <1>5, <1>6

LEMMA PipeReadStep == ASSUME FInv, NEW p \in Procs, PipeRead(p) PROVE FInv'
<1>1. pc[p] = "read" /\ UNCHANGED <<file, ofile, killed, loc, abandoned>>
  BY DEF PipeRead
<1>2. /\ pc \in [Procs -> PCs] /\ pipe \in [Pipes -> PipeType] /\ abandoned \subseteq Pipes
      /\ at \in [Procs -> Pipes \cup {None}] /\ want \in [Procs -> ReadSizes \cup {0}]
      /\ left \in [Procs -> Seq(Byte)]
  BY DEF FInv, TypeOK, PipeType
<1>3. InIO(p) /\ UseAt(p)
  BY <1>1 DEF FInv, UseInv, InIO, Reading
<1>4. PICK q \in Pipes : q = at[p]
  BY <1>3 DEF UseAt
<1>5. CASE Empty(q) /\ pipe[q].writeopen
  <2>1. pipe' = pipe /\ (IF killed[p] THEN Return(p, pc) ELSE Goto(p, "rsleep") /\ UNCHANGED io)
    BY <1>4, <1>5 DEF PipeRead
  <2>2. FillInv'
    BY <2>1 DEF FInv, FillInv, Used
  <2>3. CASE Return(p, pc)
    <3>1. /\ pc' \in [Procs -> PCs] /\ pc'[p] = "user" /\ Others(p) /\ UseAt(p)'
          /\ \A x \in Procs \ {p} : at'[x] = at[x] /\ left'[x] = left[x] /\ want'[x] = want[x]
          /\ at' \in [Procs -> Pipes \cup {None}] /\ want' \in [Procs -> ReadSizes \cup {0}]
          /\ left' \in [Procs -> Seq(Byte)]
      BY <1>2, <2>3, ReturnFacts DEF Others
    <3>2. NoLostWakeup'
      BY <1>1, <2>1, <3>1, WakeStep DEF FInv
    <3>3. abandoned' \subseteq Pipes /\ pc'[p] \in {"user"} \cup Reading \cup Writing
      BY <1>1, <1>2, <3>1
    <3> QED BY <1>1, <1>2, <2>1, <2>2, <3>1, <3>2, <3>3, IOStep
  <2>4. CASE Goto(p, "rsleep") /\ UNCHANGED io
    <3>1. /\ pc' \in [Procs -> PCs] /\ pc'[p] = "rsleep" /\ Others(p)
          /\ \A x \in Procs \ {p} : pc'[x] = pc[x]
          /\ at' = at /\ want' = want /\ left' = left
      BY <1>2, <2>4 DEF Goto, Others, PCs, io
    <3>2. UseAt(p)'
      <4>1. /\ (pc'[p] \in Writing) = (pc[p] \in Writing)
            /\ (pc'[p] \in Reading) = (pc[p] \in Reading)
        BY <1>1, <3>1 DEF Writing, Reading
      <4> QED BY <1>1, <1>3, <3>1, <4>1 DEF UseAt, InIO
    <3>3. NoLostWakeup'
      <4>1. SUFFICES ASSUME NEW x \in Procs, pc'[x] \in {"rsleep", "wsleep"}
                     PROVE  /\ pc'[x] = "rsleep" =>
                                  \/ Empty(at[x])' /\ pipe'[at'[x]].writeopen
                                  \/ at'[x] \in abandoned'
                            /\ pc'[x] = "wsleep" => Full(at[x])' /\ pipe'[at'[x]].readopen
        BY DEF NoLostWakeup
      <4>2. CASE x = p
        BY <1>4, <1>5, <2>1, <3>1, <4>2 DEF Empty
      <4>3. CASE x /= p
        BY <1>1, <2>1, <3>1, <4>3 DEF FInv, NoLostWakeup, Empty, Full
      <4> QED BY <4>2, <4>3
    <3>4. abandoned' \subseteq Pipes /\ pc'[p] \in {"user"} \cup Reading \cup Writing
      BY <1>1, <1>2, <3>1 DEF Reading
    <3> QED BY <1>1, <1>2, <2>1, <2>2, <3>1, <3>2, <3>3, <3>4, IOStep
  <2> QED BY <2>1, <2>3, <2>4
<1>6. CASE ~(Empty(q) /\ pipe[q].writeopen)
  <2> DEFINE k == Min({want[p], Used(q)})
  <2>1. /\ pipe' = [pipe EXCEPT ![q] = Take(@, k)]
        /\ Return(p, Awake(pc, q, "wsleep", "write"))
    BY <1>4, <1>6 DEF PipeRead
  <2>2. /\ pipe[q].nread \in 0..(WORD - 1) /\ pipe[q].nwrite \in 0..(WORD - 1)
        /\ pipe[q].data \in [0..(PIPESIZE - 1) -> Byte]
    BY <1>2 DEF PipeType
  <2>3. Used(q) \in 0..(WORD - 1) /\ Used(q) <= PIPESIZE
    BY <2>2, UsedRange DEF Used, FInv, FillInv
  <2>4. k \in 0..Used(q)
    <3>1. want[p] \in Nat
      <4>1. \A n \in ReadSizes \cup {0} : n \in Nat
        BY SizeAssumption
      <4> QED BY <1>2, <4>1
    <3>2. want[p] \in Int /\ Used(q) \in Int
      BY <2>3, <3>1, SizeAssumption
    <3>3. k = IF want[p] <= Used(q) THEN want[p] ELSE Used(q)
      BY <3>2, MinTwo
    <3> QED BY <2>3, <3>1, <3>3, SizeAssumption
  <2> HIDE DEF k
  <2>5. /\ (pipe[q].nread + k) % WORD \in 0..(WORD - 1)
        /\ (pipe[q].nwrite - ((pipe[q].nread + k) % WORD)) % WORD = Used(q) - k
    BY <2>2, <2>4, UsedRead DEF Used
  <2>6. Take(pipe[q], k) \in PipeType
    <3>1. AnyByte \in Byte
      BY SizeAssumption DEF AnyByte
    <3>2. [i \in DOMAIN pipe[q].data |->
                IF i \in Places(pipe[q].nread, k) THEN AnyByte ELSE pipe[q].data[i]]
          \in [0..(PIPESIZE - 1) -> Byte]
      BY <2>2, <3>1
    <3> QED BY <1>2, <2>5, <3>2, ZenonT(120) DEF Take, PipeType
  <2>7. /\ Take(pipe[q], k).nread = (pipe[q].nread + k) % WORD
        /\ Take(pipe[q], k).nwrite = pipe[q].nwrite /\ Take(pipe[q], k).used = pipe[q].used
        /\ Take(pipe[q], k).readopen = pipe[q].readopen
        /\ Take(pipe[q], k).writeopen = pipe[q].writeopen
    BY <1>2 DEF Take, PipeType
  <2>8. /\ pipe' \in [Pipes -> PipeType]
        /\ pipe'[q] = Take(pipe[q], k) /\ \A r \in Pipes \ {q} : pipe'[r] = pipe[r]
    BY <1>2, <2>1, <2>6
  <2>9. \A r \in Pipes : /\ pipe'[r].used = pipe[r].used
                         /\ pipe'[r].readopen = pipe[r].readopen
                         /\ pipe'[r].writeopen = pipe[r].writeopen
    BY <2>7, <2>8
  <2>10. FillInv'
    <3>1. ASSUME NEW r \in Pipes PROVE Used(r)' <= PIPESIZE
      <4>1. CASE r = q
        <5>1. Used(q)' = Used(q) - k
          <6>1. pipe'[q].nread = (pipe[q].nread + k) % WORD /\ pipe'[q].nwrite = pipe[q].nwrite
            BY <2>7, <2>8
          <6>2. PICK d \in 0..(WORD - 1) : d = (pipe[q].nread + k) % WORD
            BY <2>5
          <6>3. (pipe[q].nwrite - d) % WORD = Used(q) - k
            BY <2>5, <6>2
          <6>4. (pipe'[q].nwrite - pipe'[q].nread) % WORD = Used(q) - k
            BY <6>1, <6>2, <6>3
          <6> QED BY <6>4 DEF Used
        <5> QED BY <2>3, <2>4, <4>1, <5>1, SizeAssumption
      <4>2. CASE r /= q
        BY <2>8, <4>2 DEF FInv, FillInv, Used
      <4> QED BY <4>1, <4>2
    <3> QED BY <3>1 DEF FillInv
  <2>11. /\ Awake(pc, q, "wsleep", "write") \in [Procs -> PCs]
         /\ \A x \in Procs : Awake(pc, q, "wsleep", "write")[x] =
                IF pc[x] = "wsleep" /\ at[x] = q THEN "write" ELSE pc[x]
    BY <1>2 DEF Awake, PCs
  <2>12. /\ pc' \in [Procs -> PCs] /\ pc'[p] = "user" /\ UseAt(p)'
         /\ \A x \in Procs \ {p} : pc'[x] = IF pc[x] = "wsleep" /\ at[x] = q THEN "write" ELSE pc[x]
         /\ \A x \in Procs \ {p} : at'[x] = at[x] /\ left'[x] = left[x] /\ want'[x] = want[x]
         /\ at' \in [Procs -> Pipes \cup {None}] /\ want' \in [Procs -> ReadSizes \cup {0}]
         /\ left' \in [Procs -> Seq(Byte)]
    BY <2>1, <2>11, ReturnFacts
  <2>13. Others(p)
    BY <2>12 DEF Others
  <2>14. NoLostWakeup'
    <3>1. SUFFICES ASSUME NEW x \in Procs, pc'[x] \in {"rsleep", "wsleep"}
                   PROVE  /\ pc'[x] = "rsleep" =>
                                \/ Empty(at[x])' /\ pipe'[at'[x]].writeopen
                                \/ at'[x] \in abandoned'
                          /\ pc'[x] = "wsleep" => Full(at[x])' /\ pipe'[at'[x]].readopen
      BY DEF NoLostWakeup
    <3>2. x /= p /\ pc[x] = pc'[x] /\ at'[x] = at[x]
      BY <2>12, <3>1
    <3>3. at[x] \in Pipes
      BY <3>1, <3>2 DEF FInv, UseInv, UseAt, InIO, Reading, Writing
    <3>4. CASE at[x] = q
      <4>1. pc[x] = "rsleep"
        BY <2>12, <3>1, <3>2, <3>4
      <4>2. at[x] \in abandoned
        BY <1>6, <3>4, <4>1 DEF FInv, NoLostWakeup
      <4> QED BY <1>1, <3>2, <4>1, <4>2
    <3>5. CASE at[x] /= q
      <4>1. pipe'[at[x]] = pipe[at[x]]
        BY <2>8, <3>3, <3>5
      <4> QED BY <1>1, <3>2, <4>1 DEF FInv, NoLostWakeup, Empty, Full
    <3> QED BY <3>4, <3>5
  <2>15. abandoned' \subseteq Pipes /\ pc'[p] \in {"user"} \cup Reading \cup Writing
    BY <1>1, <1>2, <2>12
  <2> QED BY <1>1, <2>8, <2>9, <2>10, <2>12, <2>13, <2>14, <2>15, IOStep
<1> QED BY <1>5, <1>6

LEMMA PipeWriteStep == ASSUME FInv, NEW p \in Procs, PipeWrite(p) PROVE FInv'
<1>1. pc[p] = "write" /\ UNCHANGED <<file, ofile, killed, loc>>
  BY DEF PipeWrite
<1>2. /\ pc \in [Procs -> PCs] /\ pipe \in [Pipes -> PipeType] /\ abandoned \subseteq Pipes
      /\ at \in [Procs -> Pipes \cup {None}] /\ want \in [Procs -> ReadSizes \cup {0}]
      /\ left \in [Procs -> Seq(Byte)]
  BY DEF FInv, TypeOK, PipeType
<1>3. InIO(p) /\ UseAt(p)
  BY <1>1 DEF FInv, UseInv, InIO, Writing
<1>4. PICK q \in Pipes : q = at[p]
  BY <1>3 DEF UseAt
<1>5. PICK s \in Seq(Byte) : s = left[p] /\ Len(s) > 0
  BY <1>1, <1>2, <1>3 DEF UseAt, Writing
<1> DEFINE k == Min({Len(s), PIPESIZE - Used(q)})
<1>6. /\ pipe[q].nread \in 0..(WORD - 1) /\ pipe[q].nwrite \in 0..(WORD - 1)
      /\ pipe[q].data \in [0..(PIPESIZE - 1) -> Byte]
  BY <1>2 DEF PipeType
<1>7. Used(q) \in 0..(WORD - 1) /\ Used(q) <= PIPESIZE
  BY <1>6, UsedRange DEF Used, FInv, FillInv
<1>8. /\ k \in 0..Len(s) /\ Used(q) + k <= PIPESIZE
      /\ k /= Len(s) => Used(q) + k = PIPESIZE
  <2>1. Len(s) \in Nat /\ Len(s) \in Int /\ PIPESIZE - Used(q) \in Int
    BY <1>7, SizeAssumption
  <2>2. k = IF Len(s) <= PIPESIZE - Used(q) THEN Len(s) ELSE PIPESIZE - Used(q)
    BY <2>1, MinTwo
  <2> QED BY <1>7, <2>1, <2>2, SizeAssumption
<1>9. /\ pipe' = [pipe EXCEPT ![q] = Put(@, s, k)]
      /\ \/ /\ k = Len(s) /\ Return(p, Awake(pc, q, "rsleep", "read"))
            /\ abandoned' = abandoned \ {q}
         \/ /\ k /= Len(s) /\ Return(p, pc)
            /\ abandoned' = IF \E x \in Procs : pc[x] = "rsleep" /\ at[x] = q
                            THEN abandoned \cup {q} ELSE abandoned
         \/ /\ k /= Len(s) /\ pipe[q].readopen
            /\ left' = [left EXCEPT ![p] = SubSeq(@, k + 1, Len(@))]
            /\ pc' = [Awake(pc, q, "rsleep", "read") EXCEPT ![p] = "wsleep"]
            /\ abandoned' = abandoned \ {q} /\ UNCHANGED <<at, want>>
  BY <1>4, <1>5 DEF PipeWrite
<1> HIDE DEF k
<1>10. /\ (pipe[q].nwrite + k) % WORD \in 0..(WORD - 1)
       /\ (((pipe[q].nwrite + k) % WORD) - pipe[q].nread) % WORD = Used(q) + k
  <2>1. k \in Nat /\ ((pipe[q].nwrite - pipe[q].nread) % WORD) + k <= PIPESIZE
    BY <1>8 DEF Used
  <2> QED BY <1>6, <2>1, UsedWrite DEF Used
<1>11. Put(pipe[q], s, k) \in PipeType
  <2>1. ASSUME NEW i \in 0..(PIPESIZE - 1), NEW j \in SUBSET (1..k), j /= {}
        PROVE  s[CHOOSE x \in j : TRUE] \in Byte
    <3>1. PICK e \in 1..k : e = CHOOSE x \in j : TRUE
      BY <2>1
    <3>2. e \in 1..Len(s)
      BY <1>8
    <3> QED BY <3>1, <3>2
  <2>2. [i \in DOMAIN pipe[q].data |->
            LET j == {x \in 1..k : (pipe[q].nwrite + x - 1) % PIPESIZE = i}
            IN IF j = {} THEN pipe[q].data[i] ELSE s[CHOOSE x \in j : TRUE]]
        \in [0..(PIPESIZE - 1) -> Byte]
    <3>1. ASSUME NEW i \in 0..(PIPESIZE - 1)
          PROVE  (LET j == {x \in 1..k : (pipe[q].nwrite + x - 1) % PIPESIZE = i}
                  IN IF j = {} THEN pipe[q].data[i] ELSE s[CHOOSE x \in j : TRUE]) \in Byte
      <4> DEFINE j == {x \in 1..k : (pipe[q].nwrite + x - 1) % PIPESIZE = i}
      <4>1. j \in SUBSET (1..k)
        OBVIOUS
      <4> HIDE DEF j
      <4>2. (IF j = {} THEN pipe[q].data[i] ELSE s[CHOOSE x \in j : TRUE]) \in Byte
        BY <1>6, <2>1, <4>1
      <4> QED BY <4>2 DEF j
    <3> QED BY <1>6, <3>1
  <2> QED BY <1>2, <1>10, <2>2, ZenonT(120) DEF Put, PipeType
<1>12. /\ Put(pipe[q], s, k).nwrite = (pipe[q].nwrite + k) % WORD
       /\ Put(pipe[q], s, k).nread = pipe[q].nread /\ Put(pipe[q], s, k).used = pipe[q].used
       /\ Put(pipe[q], s, k).readopen = pipe[q].readopen
       /\ Put(pipe[q], s, k).writeopen = pipe[q].writeopen
  BY <1>2 DEF Put, PipeType
<1>13. /\ pipe' \in [Pipes -> PipeType]
       /\ pipe'[q] = Put(pipe[q], s, k) /\ \A r \in Pipes \ {q} : pipe'[r] = pipe[r]
  BY <1>2, <1>9, <1>11
<1>14. \A r \in Pipes : /\ pipe'[r].used = pipe[r].used
                        /\ pipe'[r].readopen = pipe[r].readopen
                        /\ pipe'[r].writeopen = pipe[r].writeopen
  BY <1>12, <1>13
<1>15. /\ pipe'[q].nread \in 0..(WORD - 1) /\ pipe'[q].nwrite \in 0..(WORD - 1)
       /\ (pipe'[q].nwrite - pipe'[q].nread) % WORD = Used(q) + k
  <2>1. pipe'[q].nwrite = (pipe[q].nwrite + k) % WORD /\ pipe'[q].nread = pipe[q].nread
    BY <1>12, <1>13
  <2> QED BY <1>6, <1>10, <2>1, Zenon
<1>16. FillInv'
  <2>1. ASSUME NEW r \in Pipes PROVE Used(r)' <= PIPESIZE
    <3>1. CASE r = q
      <4>1. Used(q)' = Used(q) + k
        BY <1>15 DEF Used
      <4> QED BY <1>8, <3>1, <4>1
    <3>2. CASE r /= q
      BY <1>13, <3>2 DEF FInv, FillInv, Used
    <3> QED BY <3>1, <3>2
  <2> QED BY <2>1 DEF FillInv
<1>17. k /= Len(s) => Full(q)'
  <2>1. ASSUME k /= Len(s) PROVE Full(q)'
    <3>1. (pipe'[q].nwrite - pipe'[q].nread) % WORD = PIPESIZE
      BY <1>8, <1>15, <2>1
    <3>2. pipe'[q].nwrite = (pipe'[q].nread + PIPESIZE) % WORD
      BY <1>15, <3>1, UsedRange
    <3> QED BY <3>2 DEF Full
  <2> QED BY <2>1
\* A pipe somebody is waiting to write has no room, so that this step wrote
\* nothing and cannot be the end of the write.
<1>18. ASSUME NEW x \in Procs, pc[x] = "wsleep", at[x] = q PROVE k /= Len(s)
  <2>1. Full(q)
    BY <1>18 DEF FInv, NoLostWakeup
  <2>2. Used(q) = PIPESIZE
    BY <1>6, <2>1, UsedRange DEF Full, Used
  <2> QED BY <1>5, <1>8, <2>2, SizeAssumption
<1>19. /\ Awake(pc, q, "rsleep", "read") \in [Procs -> PCs]
       /\ \A x \in Procs : Awake(pc, q, "rsleep", "read")[x] =
                IF pc[x] = "rsleep" /\ at[x] = q THEN "read" ELSE pc[x]
  BY <1>2 DEF Awake, PCs
<1>20. /\ pc' \in [Procs -> PCs] /\ pc'[p] \in {"user", "wsleep"} /\ UseAt(p)'
       /\ Others(p) /\ (pc'[p] = "wsleep" => k /= Len(s) /\ pipe[q].readopen /\ at'[p] = q)
       /\ \A x \in Procs \ {p} : at'[x] = at[x] /\ left'[x] = left[x] /\ want'[x] = want[x]
       /\ at' \in [Procs -> Pipes \cup {None}] /\ want' \in [Procs -> ReadSizes \cup {0}]
       /\ left' \in [Procs -> Seq(Byte)] /\ abandoned' \subseteq Pipes
       /\ \A r \in Pipes \ {q} : r \in abandoned => r \in abandoned'
       /\ \A x \in Procs \ {p} : pc'[x] = "rsleep" /\ at[x] = q => q \in abandoned'
  <2>1. CASE /\ Return(p, Awake(pc, q, "rsleep", "read"))
             /\ abandoned' = abandoned \ {q}
    BY <1>2, <1>19, <2>1, ReturnFacts DEF Others
  <2>2. CASE /\ Return(p, pc)
             /\ abandoned' = IF \E x \in Procs : pc[x] = "rsleep" /\ at[x] = q
                             THEN abandoned \cup {q} ELSE abandoned
    BY <1>2, <2>2, ReturnFacts DEF Others
  <2>3. CASE /\ k /= Len(s) /\ pipe[q].readopen
             /\ left' = [left EXCEPT ![p] = SubSeq(@, k + 1, Len(@))]
             /\ pc' = [Awake(pc, q, "rsleep", "read") EXCEPT ![p] = "wsleep"]
             /\ abandoned' = abandoned \ {q} /\ UNCHANGED <<at, want>>
    <3>1. SubSeq(s, k + 1, Len(s)) \in Seq(Byte) /\ Len(SubSeq(s, k + 1, Len(s))) > 0
      <4>1. Len(s) \in Nat /\ k \in 0..Len(s) /\ k < Len(s)
        BY <1>8, <2>3
      <4>2. \A i \in (k + 1)..Len(s) : s[i] \in Byte
        BY <4>1
      <4> QED BY <4>1, <4>2
    <3>2. /\ left'[p] = SubSeq(s, k + 1, Len(s)) /\ left' \in [Procs -> Seq(Byte)]
          /\ \A x \in Procs \ {p} : left'[x] = left[x]
      BY <1>2, <1>5, <2>3, <3>1
    <3>3. /\ pc' \in [Procs -> PCs] /\ pc'[p] = "wsleep"
          /\ \A x \in Procs \ {p} : pc'[x] =
                IF pc[x] = "rsleep" /\ at[x] = q THEN "read" ELSE pc[x]
      BY <1>19, <2>3 DEF PCs
    <3>4. UseAt(p)'
      <4>1. /\ (pc'[p] \in Writing) = (pc[p] \in Writing)
            /\ (pc'[p] \in Reading) = (pc[p] \in Reading)
        BY <1>1, <3>3 DEF Writing, Reading
      <4> QED BY <1>1, <1>3, <2>3, <3>1, <3>2, <4>1 DEF UseAt, InIO
    <3> QED BY <1>2, <1>4, <2>3, <3>2, <3>3, <3>4, ZenonT(120) DEF Others
  <2> QED BY <1>9, <2>1, <2>2, <2>3
<1>21. NoLostWakeup'
  <2>1. SUFFICES ASSUME NEW x \in Procs, pc'[x] \in {"rsleep", "wsleep"}
                 PROVE  /\ pc'[x] = "rsleep" =>
                              \/ Empty(at[x])' /\ pipe'[at'[x]].writeopen
                              \/ at'[x] \in abandoned'
                        /\ pc'[x] = "wsleep" => Full(at[x])' /\ pipe'[at'[x]].readopen
    BY DEF NoLostWakeup
  <2>2. CASE x = p
    <3>1. pc'[p] = "wsleep" /\ at'[p] = q /\ Full(q)' /\ pipe'[q].readopen
      BY <1>14, <1>17, <1>20, <2>1, <2>2
    <3> QED BY <2>2, <3>1 DEF Full
  <2>3. CASE x /= p
    <3>1. pc[x] = pc'[x] /\ at'[x] = at[x]
      BY <1>20, <2>1, <2>3 DEF Others
    <3>2. at[x] \in Pipes
      BY <2>1, <3>1 DEF FInv, UseInv, UseAt, InIO, Reading, Writing
    <3>3. CASE at[x] = q /\ pc[x] = "rsleep"
      BY <1>20, <2>3, <3>1, <3>3
    <3>4. CASE at[x] = q /\ pc[x] = "wsleep"
      <4>1. Full(q)' /\ pipe'[q].readopen
        BY <1>14, <1>17, <1>18, <3>4 DEF FInv, NoLostWakeup
      <4> QED BY <3>1, <3>4, <4>1 DEF Full
    <3>5. CASE at[x] /= q
      <4>1. pipe'[at[x]] = pipe[at[x]] /\ (at[x] \in abandoned => at[x] \in abandoned')
        BY <1>13, <1>20, <3>2, <3>5
      <4> QED BY <3>1, <4>1 DEF FInv, NoLostWakeup, Empty, Full
    <3> QED BY <2>1, <3>1, <3>3, <3>4, <3>5
  <2> QED BY <2>2, <2>3
<1>22. pc'[p] \in {"user"} \cup Reading \cup Writing
  BY <1>20 DEF Writing
<1> QED BY <1>1, <1>13, <1>14, <1>16, <1>20, <1>21, <1>22, IOStep

-----------------------------------------------------------------------------
(* The theorems. *)

LEMMA InitFInv == Init => FInv
<1> SUFFICES ASSUME Init PROVE FInv
  OBVIOUS
<1> USE DEF Init
<1>0. NoFile \in Entries
  BY FS_CardinalityType, ProcsAssumption, SizeAssumption DEF NoFile, Entries
<1>1. TypeOK
  <2>1. AnyByte \in Byte /\ 0 \in 0..(WORD - 1) /\ 0 \in 0..NOFILE
    BY SizeAssumption DEF AnyByte
  <2>2. pipe \in [Pipes -> [used : BOOLEAN, readopen : BOOLEAN, writeopen : BOOLEAN,
                           nread : 0..(WORD - 1), nwrite : 0..(WORD - 1),
                           data : [0..(PIPESIZE - 1) -> Byte]]]
    BY <2>1 DEF NoPipe
  <2>3. left \in [Procs -> Seq(Byte)]
    OBVIOUS
  <2> QED BY <1>0, <2>1, <2>2, <2>3 DEF TypeOK, PCs
<1>2. RefsExact
  <2>1. ASSUME NEW f \in Files PROVE file[f].ref = Refs(ofile, f0, f1, f)
    <3>1. Desc(ofile, f) = {}
      <4>1. \A x \in Procs \X (1..NOFILE) : ~(x[2] <= ofile[x[1]][f])
        BY SizeAssumption
      <4> QED BY <4>1 DEF Desc
    <3>2. Held(f0, f) = {} /\ Held(f1, f) = {}
      BY NoneAssumption DEF Held
    <3>3. Cardinality({}) = 0
      BY FS_EmptySet
    <3> HIDE DEF Init
    <3>4. Refs(ofile, f0, f1, f) = 0
      BY <3>1, <3>2, <3>3 DEF Refs
    <3> QED BY <3>4 DEF NoFile, Init
  <2> QED BY <2>1, RefsForm
<1>3. EndsCounted
  <2>1. ASSUME NEW q \in Pipes, NEW w \in BOOLEAN PROVE Count(file, ff, q, w) = 0
    <3>1. EndsF(file, q, w) = {} /\ EndsC(ff, q, w) = {}
      BY DEF EndsF, EndsC, NoFile
    <3>2. Cardinality({}) = 0
      BY FS_EmptySet
    <3> HIDE DEF Init
    <3> QED BY <3>1, <3>2 DEF Count
  <2> QED BY <2>1, EndsForm DEF NoPipe
<1>4. FillInv
  <2>1. (0 - 0) % WORD = 0
    BY SizeAssumption
  <2> QED BY <2>1, SizeAssumption DEF FillInv, Used, NoPipe
<1>5. EntryInv /\ LocalInv
  BY NoneAssumption DEF EntryInv, LocalInv, LocalAt, NoFile
<1>6. NewInv /\ UseInv /\ NoLostWakeup
  BY DEF NewInv, NewAt, UseInv, UseAt, InIO, Reading, Writing, NoLostWakeup
<1> QED BY <1>1, <1>2, <1>3, <1>4, <1>5, <1>6 DEF FInv

LEMMA NextFInv == FInv /\ [Next]_vars => FInv'
<1> SUFFICES ASSUME FInv, [Next]_vars PROVE FInv'
  OBVIOUS
<1>1. CASE UNCHANGED vars
  <2>1. /\ file' = file /\ pipe' = pipe /\ ofile' = ofile /\ killed' = killed /\ pc' = pc
        /\ f0' = f0 /\ f1' = f1 /\ ff' = ff /\ ret' = ret /\ at' = at /\ want' = want
        /\ left' = left /\ abandoned' = abandoned
    BY <1>1 DEF vars, loc, io
  <2>2. RefsExact' /\ EndsCounted' /\ TypeOK' /\ EntryInv'
    BY <2>1, RefsForm, EndsForm DEF FInv, TypeOK, EntryInv
  <2>3. LocalInv' /\ NewInv'
    BY <2>1 DEF FInv, LocalInv, LocalAt, NewInv, NewAt, NewFile
  <2>4. UseInv'
    BY <2>1 DEF FInv, UseInv, UseAt, InIO
  <2>5. FillInv' /\ NoLostWakeup'
    BY <2>1 DEF FInv, FillInv, Used, NoLostWakeup, Empty, Full
  <2> QED BY <2>2, <2>3, <2>4, <2>5 DEF FInv
<1>2. CASE Next
  <2>1. PICK p \in Procs :
          \/ Step(p) \/ Start(p) \/ Kill(p) \/ Exit(p)
          \/ PipeFile0(p)
          \/ \E c \in Procs : Fork(p, c)
          \/ \E f \in Files : Close(p, f) \/ Dup(p, f)
          \/ \E f \in Files, n \in ReadSizes : Read(p, f, n)
          \/ \E f \in Files, m \in Messages : Write(p, f, m)
    BY <1>2 DEF Next
  <2>2. CASE Step(p)
    BY <2>2, FileCloseRestStep, PipeFile1Step, PipeDoneStep, PipeBadStep, PipeReadStep,
       PipeWriteStep, ExitCloseStep DEF Step
  <2> QED BY <2>1, <2>2, StartStep, KillStep, PipeFile0Step, ForkStep, CloseStep, DupStep,
             ReadStep, WriteStep
<1> QED BY <1>1, <1>2

LEMMA FInvAlways == Spec => []FInv
BY InitFInv, NextFInv, PTL DEF Spec

LEMMA FInvEnds == FInv => EndsOwned
<1> SUFFICES ASSUME FInv PROVE EndsOwned
  OBVIOUS
<1>1. ASSUME NEW q \in Pipes, NEW p \in Procs, at[p] = q
      PROVE  IF pc[p] \in {"read", "rsleep"} THEN pipe[q].readopen ELSE pipe[q].writeopen
  <2>1. InIO(p)
    BY <1>1, NoneAssumption DEF FInv, UseInv, UseAt
  <2>2. IF pc[p] \in Writing THEN pipe[q].writeopen ELSE pipe[q].readopen
    BY <1>1, <2>1, AtOpen
  <2> QED BY <2>1, <2>2 DEF InIO, Reading, Writing
<1> QED BY <1>1 DEF FInv, EndsCounted, EndsOwned

\* The count of every entry of the file table is the number of descriptors and
\* locals that refer to it, an end of a pipe is open exactly as long as one
\* entry or one fileclose in progress has it, and whoever reads, writes or
\* sleeps has his end open: for every number of processes, descriptors, entries
\* and pipes, and with every interleaving of dup, close, pipe, fork, exit and
\* kill.
THEOREM RefsCorrect == Spec => []RefsOK
<1>1. FInv => RefsOK
  BY FInvEnds DEF RefsOK, FInv
<1> QED BY <1>1, FInvAlways, PTL

\* No reader sleeps on a pipe that has bytes or no writer, no writer on one that
\* has room or no reader, though nread and nwrite wrap around, ends are closed
\* and processes killed meanwhile; the only exception is the wakeup that
\* pipewrite() leaves out when it returns -1.
THEOREM WakeupsCorrect == Spec => []NoLostWakeup
<1>1. FInv => NoLostWakeup
  BY DEF FInv
<1> QED BY <1>1, FInvAlways, PTL

-----------------------------------------------------------------------------
(* Pipes are channels. *)

LEMMA ModShift ==
    ASSUME NEW P \in Nat, P > 0, NEW x \in Int, NEW c \in Int
    PROVE  (x + P * c) % P = x % P
<1>1. PICK d \in Int, r \in 0..(P - 1) : x = P * d + r /\ r = x % P
  OBVIOUS
<1>2. PICK e \in Int, s \in 0..(P - 1) : x + P * c = P * e + s /\ s = (x + P * c) % P
  OBVIOUS
<1>3. P * (e - d - c) = r - s
  BY <1>1, <1>2
<1>4. e - d - c = 0
  <2>1. e - d - c \in Int /\ r - s < P /\ s - r < P
    OBVIOUS
  <2>2. ~(e - d - c >= 1)
    BY <1>3, <2>1
  <2>3. ~(e - d - c <= -1)
    BY <1>3, <2>1
  <2> QED BY <2>1, <2>2, <2>3
<1> QED BY <1>1, <1>2, <1>3, <1>4

LEMMA ModWord ==
    ASSUME NEW P \in Nat, P > 0, NEW W \in Nat, W > 0, W % P = 0, NEW x \in Int, NEW j \in Int
    PROVE  ((x % W) + j) % P = (x + j) % P
<1>1. PICK c \in Int : W = P * c
  OBVIOUS
<1>2. PICK d \in Int, r \in 0..(W - 1) : x = W * d + r /\ r = x % W
  OBVIOUS
<1>3. x + j = (r + j) + P * (c * d)
  BY <1>1, <1>2
<1>4. (x + j) % P = (r + j) % P
  <2>1. r + j \in Int /\ c * d \in Int
    OBVIOUS
  <2>2. ((r + j) + P * (c * d)) % P = (r + j) % P
    BY <2>1, ModShift
  <2> QED BY <1>3, <2>2
<1> QED BY <1>2, <1>4

LEMMA ModInjective ==
    ASSUME NEW P \in Nat, P > 0, NEW x \in Int, NEW y \in Int, x % P = y % P,
           x - y < P, y - x < P
    PROVE  x = y
<1>1. PICK d \in Int, r \in 0..(P - 1) : x = P * d + r /\ r = x % P
  OBVIOUS
<1>2. PICK e \in Int, s \in 0..(P - 1) : y = P * e + s /\ s = y % P
  OBVIOUS
<1>3. P * (d - e) = x - y /\ d - e \in Int
  BY <1>1, <1>2
<1>4. ~(d - e >= 1) /\ ~(d - e <= -1)
  BY <1>3
<1> QED BY <1>3, <1>4

\* The bytes of a pipe, as a function of the pipe.
Fill1(r) == (r.nwrite - r.nread) % WORD
Bytes(r) == [i \in 1..Fill1(r) |-> r.data[(r.nread + i - 1) % PIPESIZE]]

LEMMA PlaceWord ==
    ASSUME NEW x \in Int, NEW j \in Int
    PROVE  ((x % WORD) + j) % PIPESIZE = (x + j) % PIPESIZE
<1>1. PIPESIZE \in Nat /\ PIPESIZE > 0 /\ WORD \in Nat /\ WORD > 0 /\ WORD % PIPESIZE = 0
  <2>1. WORD % PIPESIZE = 0
    BY SizeAssumption, Zenon
  <2> QED BY <2>1, SizeAssumption
<1> QED BY <1>1, ModWord

LEMMA PlaceInjective ==
    ASSUME NEW x \in Int, NEW y \in Int, x % PIPESIZE = y % PIPESIZE,
           x - y < PIPESIZE, y - x < PIPESIZE
    PROVE  x = y
<1>1. PIPESIZE \in Nat /\ PIPESIZE > 0
  BY SizeAssumption
<1> QED BY <1>1, ModInjective

LEMMA PlaceRange ==
    ASSUME NEW x \in Int
    PROVE  x % PIPESIZE \in 0..(PIPESIZE - 1)
BY SizeAssumption

LEMMA WordRange ==
    ASSUME NEW x \in Int
    PROVE  x % WORD \in 0..(WORD - 1)
BY SizeAssumption

LEMMA BytesType ==
    ASSUME NEW r \in PipeType, Fill1(r) <= PIPESIZE
    PROVE  /\ Fill1(r) \in 0..PIPESIZE
           /\ Bytes(r) \in Seq(Byte) /\ Len(Bytes(r)) = Fill1(r)
           /\ \A i \in 1..Fill1(r) : /\ Bytes(r)[i] = r.data[(r.nread + i - 1) % PIPESIZE]
                                     /\ Bytes(r)[i] \in Byte
<1>1. /\ r.nread \in 0..(WORD - 1) /\ r.nwrite \in 0..(WORD - 1)
      /\ r.data \in [0..(PIPESIZE - 1) -> Byte]
  BY DEF PipeType
<1>u. (r.nwrite - r.nread) % WORD \in 0..(WORD - 1)
  BY <1>1, UsedRange, Zenon
<1>2. PICK u \in 0..PIPESIZE : u = Fill1(r)
  <2>1. Fill1(r) \in Nat
    BY <1>u, SizeAssumption DEF Fill1
  <2> QED BY <2>1, SizeAssumption
<1>3. ASSUME NEW i \in 1..u PROVE r.data[(r.nread + i - 1) % PIPESIZE] \in Byte
  <2>1. r.nread + i - 1 \in Int
    BY <1>1, <1>2
  <2>2. (r.nread + i - 1) % PIPESIZE \in 0..(PIPESIZE - 1)
    BY <2>1, PlaceRange
  <2> QED BY <1>1, <2>2
<1>4. Bytes(r) = [i \in 1..u |-> r.data[(r.nread + i - 1) % PIPESIZE]]
  BY <1>2 DEF Bytes
<1>5. Bytes(r) \in [1..u -> Byte]
  BY <1>3, <1>4
<1>6. Bytes(r) \in Seq(Byte) /\ Len(Bytes(r)) = u
  BY <1>2, <1>5
<1> QED BY <1>2, <1>3, <1>4, <1>6

\* piperead takes the first bytes.
LEMMA BytesTake ==
    ASSUME NEW r \in PipeType, Fill1(r) <= PIPESIZE, NEW k \in 0..Fill1(r)
    PROVE  /\ [i \in 1..k |-> r.data[(r.nread + i - 1) % PIPESIZE]] = SubSeq(Bytes(r), 1, k)
           /\ Bytes(Take(r, k)) = SubSeq(Bytes(r), k + 1, Len(Bytes(r)))
<1>1. /\ r.nread \in 0..(WORD - 1) /\ r.nwrite \in 0..(WORD - 1)
      /\ r.data \in [0..(PIPESIZE - 1) -> Byte]
  BY DEF PipeType
<1>2. PICK u \in 0..PIPESIZE : u = Fill1(r)
  BY BytesType
<1>3. PICK b \in Seq(Byte) : /\ b = Bytes(r) /\ Len(b) = u
                             /\ \A i \in 1..u : b[i] = r.data[(r.nread + i - 1) % PIPESIZE]
  BY <1>2, BytesType
<1>4. k \in 0..u /\ k \in Nat /\ u \in Nat
  BY <1>2
<1>5. [i \in 1..k |-> r.data[(r.nread + i - 1) % PIPESIZE]] = SubSeq(b, 1, k)
  <2>1. SubSeq(b, 1, k) = [i \in 1..k |-> b[i]]
    BY <1>3, <1>4
  <2>2. \A i \in 1..k : b[i] = r.data[(r.nread + i - 1) % PIPESIZE]
    BY <1>3, <1>4
  <2> QED BY <2>1, <2>2
<1>6. PICK t \in PipeType : t = Take(r, k)
  <2>1. AnyByte \in Byte
    BY SizeAssumption DEF AnyByte
  <2>2. [i \in DOMAIN r.data |-> IF i \in Places(r.nread, k) THEN AnyByte ELSE r.data[i]]
        \in [0..(PIPESIZE - 1) -> Byte]
    BY <1>1, <2>1
  <2>3. (r.nread + k) % WORD \in 0..(WORD - 1)
    <3>1. r.nread + k \in Int
      BY <1>1, <1>4
    <3> QED BY <3>1, WordRange
  <2> QED BY <2>2, <2>3 DEF Take, PipeType
<1>7. /\ t.nread = (r.nread + k) % WORD /\ t.nwrite = r.nwrite
      /\ \A i \in 0..(PIPESIZE - 1) : i \notin Places(r.nread, k) => t.data[i] = r.data[i]
  BY <1>1, <1>6 DEF Take, PipeType
<1>8. Fill1(t) = u - k
  <2>1. k \in 0..((r.nwrite - r.nread) % WORD)
    BY DEF Fill1
  <2>2. (r.nwrite - ((r.nread + k) % WORD)) % WORD = ((r.nwrite - r.nread) % WORD) - k
    BY <1>1, <2>1, UsedRead
  <2> QED BY <1>2, <1>7, <2>2 DEF Fill1
<1>9. ASSUME NEW i \in 1..(u - k)
      PROVE  t.data[(t.nread + i - 1) % PIPESIZE] = b[i + k]
  <2>1. (t.nread + i - 1) % PIPESIZE = (r.nread + k + i - 1) % PIPESIZE
    <3>1. (((r.nread + k) % WORD) + (i - 1)) % PIPESIZE = ((r.nread + k) + (i - 1)) % PIPESIZE
      <4>1. r.nread + k \in Int /\ i - 1 \in Int
        BY <1>1, <1>4
      <4> QED BY <4>1, PlaceWord
    <3>2. t.nread + i - 1 = ((r.nread + k) % WORD) + (i - 1)
      BY <1>1, <1>4, <1>7, SizeAssumption
    <3>3. r.nread + k + i - 1 = (r.nread + k) + (i - 1)
      BY <1>1, <1>4
    <3> QED BY <3>1, <3>2, <3>3
  <2>2. ASSUME NEW j \in 0..(k - 1)
        PROVE  (r.nread + k + i - 1) % PIPESIZE /= (r.nread + j) % PIPESIZE
    <3>1. SUFFICES ASSUME (r.nread + k + i - 1) % PIPESIZE = (r.nread + j) % PIPESIZE PROVE FALSE
      OBVIOUS
    <3>2. /\ r.nread + k + i - 1 \in Int /\ r.nread + j \in Int
          /\ (r.nread + k + i - 1) - (r.nread + j) < PIPESIZE
          /\ (r.nread + j) - (r.nread + k + i - 1) < PIPESIZE
      BY <1>1, <1>4, SizeAssumption, SMTT(60)
    <3>3. r.nread + k + i - 1 = r.nread + j
      BY <3>1, <3>2, PlaceInjective
    <3> QED BY <1>1, <1>4, <3>3
  <2>3. (r.nread + k + i - 1) % PIPESIZE \notin Places(r.nread, k)
    BY <2>2 DEF Places
  <2>4. (r.nread + k + i - 1) % PIPESIZE \in 0..(PIPESIZE - 1)
    <3>1. r.nread + k + i - 1 \in Int
      BY <1>1, <1>4
    <3> QED BY <3>1, PlaceRange
  <2>5. t.data[(t.nread + i - 1) % PIPESIZE] = r.data[(r.nread + k + i - 1) % PIPESIZE]
    BY <1>7, <2>1, <2>3, <2>4
  <2>6. b[i + k] = r.data[(r.nread + (i + k) - 1) % PIPESIZE]
    BY <1>3, <1>4
  <2>7. r.nread + (i + k) - 1 = r.nread + k + i - 1
    BY <1>1, <1>4
  <2> QED BY <2>5, <2>6, <2>7
<1>10. Bytes(t) = SubSeq(b, k + 1, u)
  <2>1. Bytes(t) = [i \in 1..(u - k) |-> t.data[(t.nread + i - 1) % PIPESIZE]]
    BY <1>8 DEF Bytes
  <2>2. Bytes(t) = [i \in 1..(u - k) |-> b[i + k]]
    BY <1>9, <2>1
  <2>3. SubSeq(b, k + 1, u) = [i \in 1..(u - k) |-> b[i + k]]
    BY <1>3, <1>4
  <2> QED BY <2>2, <2>3
<1> QED BY <1>3, <1>5, <1>6, <1>10

\* pipewrite adds bytes at the end.
LEMMA BytesPut ==
    ASSUME NEW r \in PipeType, NEW s \in Seq(Byte), NEW k \in 0..Len(s), Fill1(r) + k <= PIPESIZE,
           Fill1(r) <= PIPESIZE, NEW t \in PipeType, t = Put(r, s, k)
    PROVE  Bytes(t) = Bytes(r) \o SubSeq(s, 1, k)
<1>1. /\ r.nread \in 0..(WORD - 1) /\ r.nwrite \in 0..(WORD - 1)
      /\ r.data \in [0..(PIPESIZE - 1) -> Byte]
  BY DEF PipeType
<1>2. PICK u \in 0..PIPESIZE : u = Fill1(r)
  BY BytesType
<1>3. PICK b \in Seq(Byte) : /\ b = Bytes(r) /\ Len(b) = u
                             /\ \A i \in 1..u : b[i] = r.data[(r.nread + i - 1) % PIPESIZE]
  BY <1>2, BytesType
<1>4. k \in Nat /\ u \in Nat /\ u + k <= PIPESIZE
  BY <1>2
<1>5. /\ t.nwrite = (r.nwrite + k) % WORD /\ t.nread = r.nread
      /\ \A i \in 0..(PIPESIZE - 1) : t.data[i] =
            LET j == {x \in 1..k : (r.nwrite + x - 1) % PIPESIZE = i}
            IN IF j = {} THEN r.data[i] ELSE s[CHOOSE x \in j : TRUE]
  BY <1>1 DEF Put, PipeType
<1>6. Fill1(t) = u + k
  <2>1. ((r.nwrite - r.nread) % WORD) + k <= PIPESIZE
    BY DEF Fill1
  <2>2. (((r.nwrite + k) % WORD) - r.nread) % WORD = ((r.nwrite - r.nread) % WORD) + k
    BY <1>1, <1>4, <2>1, UsedWrite
  <2> QED BY <1>2, <1>5, <2>2 DEF Fill1
\* nwrite is where the bytes end.
<1>7. ASSUME NEW j \in Int
      PROVE  (r.nwrite + j) % PIPESIZE = (r.nread + u + j) % PIPESIZE
  <2>1. r.nwrite = (r.nread + u) % WORD
    <3>0. WORD \in Nat /\ WORD > 0 /\ u \in 0..WORD
      BY <1>2, SizeAssumption
    <3>1. u = IF r.nread <= r.nwrite THEN r.nwrite - r.nread ELSE r.nwrite - r.nread + WORD
      <4>1. (r.nwrite - r.nread) % WORD
            = IF r.nread <= r.nwrite THEN r.nwrite - r.nread ELSE r.nwrite - r.nread + WORD
        BY <1>1, <3>0, ModSub
      <4> QED BY <1>2, <4>1 DEF Fill1
    <3>2. (r.nread + u) % WORD = IF r.nread + u < WORD THEN r.nread + u ELSE r.nread + u - WORD
      BY <1>1, <3>0, ModAdd
    <3>3. PICK n \in 0..(WORD - 1), m \in 0..(WORD - 1) : n = r.nread /\ m = r.nwrite
      BY <1>1
    <3>4. u = IF n <= m THEN m - n ELSE m - n + WORD
      BY <3>1, <3>3
    <3>5. (n + u) % WORD = IF n + u < WORD THEN n + u ELSE n + u - WORD
      BY <3>2, <3>3
    <3>6. (n + u) % WORD = m
      BY <3>0, <3>4, <3>5
    <3> QED BY <3>3, <3>6
  <2>2. r.nread + u \in Int
    BY <1>1, <1>2
  <2>3. (((r.nread + u) % WORD) + j) % PIPESIZE = ((r.nread + u) + j) % PIPESIZE
    BY <2>2, PlaceWord
  <2> QED BY <2>1, <2>3
<1>8. ASSUME NEW i \in 1..(u + k)
      PROVE  t.data[(t.nread + i - 1) % PIPESIZE] = IF i <= u THEN b[i] ELSE s[i - u]
  <2> DEFINE a == (r.nread + i - 1) % PIPESIZE
             j == {x \in 1..k : (r.nwrite + x - 1) % PIPESIZE = a}
  <2>0. r.nread + i - 1 \in Int
    <3>1. i \in Int
      BY <1>4
    <3> QED BY <1>1, <3>1
  <2>1. a \in 0..(PIPESIZE - 1)
    BY <2>0, PlaceRange
  <2>2. t.data[a] = IF j = {} THEN r.data[a] ELSE s[CHOOSE x \in j : TRUE]
    BY <1>5, <2>1
  <2>3. ASSUME NEW x \in 1..k PROVE (r.nwrite + x - 1) % PIPESIZE = a <=> i = u + x
    <3>1. (r.nwrite + (x - 1)) % PIPESIZE = (r.nread + u + (x - 1)) % PIPESIZE
      BY <1>7
    <3>2. r.nwrite + x - 1 = r.nwrite + (x - 1)
      BY <1>1
    <3>3. ASSUME (r.nread + u + (x - 1)) % PIPESIZE = (r.nread + i - 1) % PIPESIZE
          PROVE  i = u + x
      <4>1. /\ r.nread + u + (x - 1) \in Int /\ r.nread + i - 1 \in Int
            /\ (r.nread + u + (x - 1)) - (r.nread + i - 1) < PIPESIZE
            /\ (r.nread + i - 1) - (r.nread + u + (x - 1)) < PIPESIZE
        BY <1>1, <1>4, SizeAssumption, SMTT(60)
      <4>2. r.nread + u + (x - 1) = r.nread + i - 1
        BY <3>3, <4>1, PlaceInjective
      <4> QED BY <1>1, <1>4, <4>2
    <3>4. ASSUME i = u + x
          PROVE  (r.nread + u + (x - 1)) % PIPESIZE = (r.nread + i - 1) % PIPESIZE
      <4>1. r.nread + u + (x - 1) = r.nread + i - 1
        BY <1>1, <1>4, <3>4
      <4> QED BY <4>1
    <3> QED BY <3>1, <3>2, <3>3, <3>4
  <2>4. t.nread = r.nread
    BY <1>5
  <2> HIDE DEF a
  <2>5. CASE i <= u
    <3>1. j = {}
      BY <1>4, <2>3, <2>5
    <3>2. t.data[a] = r.data[a]
      BY <2>2, <3>1
    <3>3. b[i] = r.data[a]
      BY <1>3, <1>4, <2>5 DEF a
    <3> QED BY <2>4, <2>5, <3>2, <3>3 DEF a
  <2>6. CASE ~(i <= u)
    <3>1. i - u \in 1..k /\ i = u + (i - u)
      BY <1>4, <2>6
    <3>2. j = {i - u}
      <4>1. \A x \in 1..k : x \in j <=> x = i - u
        BY <1>4, <2>3
      <4> QED BY <3>1, <4>1
    <3>3. j /= {} /\ (CHOOSE x \in j : TRUE) = i - u
      BY <3>2
    <3>4. t.data[a] = s[i - u]
      BY <2>2, <3>3
    <3> QED BY <2>4, <2>6, <3>4 DEF a
  <2> QED BY <2>5, <2>6
<1>9. PICK c \in Seq(Byte) : c = SubSeq(s, 1, k) /\ Len(c) = k /\ \A x \in 1..k : c[x] = s[x]
  <2>1. k \in Nat /\ k <= Len(s) /\ \A x \in 1..k : s[x] \in Byte
    BY <1>4
  <2>2. SubSeq(s, 1, k) = [x \in 1..k |-> s[x]]
    BY <2>1
  <2>3. SubSeq(s, 1, k) \in [1..k -> Byte]
    BY <2>1, <2>2
  <2>4. SubSeq(s, 1, k) \in Seq(Byte) /\ Len(SubSeq(s, 1, k)) = k
    BY <2>1, <2>3
  <2> QED BY <2>2, <2>4
<1>10. b \o c = [i \in 1..(u + k) |-> IF i <= u THEN b[i] ELSE s[i - u]]
  <2>1. b \o c = [i \in 1..(u + k) |-> IF i <= u THEN b[i] ELSE c[i - u]]
    <3>1. Len(b) = u /\ Len(c) = k
      BY <1>3, <1>9
    <3>2. /\ b \o c \in Seq(Byte) /\ Len(b \o c) = u + k
          /\ \A i \in 1..(u + k) : (b \o c)[i] = IF i <= u THEN b[i] ELSE c[i - u]
      BY <3>1, <1>4, SMTT(60)
    <3>3. PICK d \in Seq(Byte) : d = b \o c
      BY <3>2
    <3>4. d = [i \in 1..Len(d) |-> d[i]]
      OBVIOUS
    <3>5. d = [i \in 1..(u + k) |-> d[i]]
      BY <3>2, <3>3, <3>4
    <3> QED BY <3>2, <3>3, <3>5
  <2>2. \A i \in 1..(u + k) : ~(i <= u) => c[i - u] = s[i - u]
    BY <1>4, <1>9
  <2> QED BY <2>1, <2>2
<1>11. Bytes(t) = [i \in 1..(u + k) |-> t.data[(t.nread + i - 1) % PIPESIZE]]
  BY <1>6 DEF Bytes
<1>12. Bytes(t) = [i \in 1..(u + k) |-> IF i <= u THEN b[i] ELSE s[i - u]]
  BY <1>8, <1>11
<1> QED BY <1>3, <1>9, <1>10, <1>12
\* The state of the channels, as functions of the pipes.
Open1(r) == {e \in {"r", "w"} : IF e = "r" THEN r.readopen ELSE r.writeopen}
EndsOf(P) == [q \in Pipes |-> Open1(P[q])]
QueueOf(P) == [q \in Pipes |-> Bytes(P[q])]

LEMMA ChannelState ==
    /\ [q \in Pipes |-> {e \in {"r", "w"} :
            IF e = "r" THEN pipe[q].readopen ELSE pipe[q].writeopen}] = EndsOf(pipe)
    /\ [q \in Pipes |-> Content(q)] = QueueOf(pipe)
BY DEF EndsOf, Open1, QueueOf, Bytes, Fill1, Content, Used

LEMMA ChannelNext ==
    /\ [q \in Pipes |-> {e \in {"r", "w"} :
            IF e = "r" THEN pipe[q].readopen ELSE pipe[q].writeopen}]' = EndsOf(pipe')
    /\ [q \in Pipes |-> Content(q)]' = QueueOf(pipe')
BY DEF EndsOf, Open1, QueueOf, Bytes, Fill1, Content, Used

\* A step on one pipe is a step on one channel.
LEMMA OnePipe ==
    ASSUME NEW P \in [Pipes -> PipeType], NEW R \in [Pipes -> PipeType], NEW q \in Pipes,
           \A x \in Pipes \ {q} : R[x] = P[x]
    PROVE  /\ EndsOf(R) = [EndsOf(P) EXCEPT ![q] = Open1(R[q])]
           /\ QueueOf(R) = [QueueOf(P) EXCEPT ![q] = Bytes(R[q])]
           /\ EndsOf(P)[q] = Open1(P[q]) /\ QueueOf(P)[q] = Bytes(P[q])
BY DEF EndsOf, QueueOf

LEMMA SameChannels ==
    ASSUME NEW P \in [Pipes -> PipeType], NEW R \in [Pipes -> PipeType], NEW q \in Pipes,
           \A x \in Pipes \ {q} : R[x] = P[x], Open1(R[q]) = Open1(P[q])
    PROVE  EndsOf(R) = EndsOf(P)
BY DEF EndsOf

LEMMA BytesNone ==
    ASSUME NEW r \in PipeType, r.nread = r.nwrite
    PROVE  Bytes(r) = <<>>
<1>1. Fill1(r) = 0
  BY SizeAssumption DEF Fill1, PipeType
<1>2. Bytes(r) = [i \in 1..0 |-> r.data[(r.nread + i - 1) % PIPESIZE]]
  BY <1>1 DEF Bytes
<1> QED BY <1>2

LEMMA PipesTyped ==
    ASSUME FInv
    PROVE  /\ pipe \in [Pipes -> PipeType]
           /\ \A q \in Pipes : Fill1(pipe[q]) <= PIPESIZE
BY DEF FInv, TypeOK, PipeType, FillInv, Used, Fill1

LEMMA PipesTypedNext ==
    ASSUME FInv'
    PROVE  pipe' \in [Pipes -> PipeType]
BY DEF FInv, TypeOK, PipeType

\* What touches no pipe.
LEMMA QuietStep == ASSUME Quiet, pipe' = pipe PROVE C!Elsewhere
BY DEF Quiet, C!Elsewhere, C!Quiet, Content, Used

\* pipealloc opens a channel.
LEMMA OpenStep == ASSUME FInv, FInv', NEW p \in Procs, PipeDone(p) PROVE C!CNext
<1>1. Quiet
  BY DEF PipeDone
<1>2. CASE pipe' = pipe
  BY <1>1, <1>2, QuietStep DEF C!CNext
<1>3. CASE pipe' /= pipe
  <2> DEFINE n == [NoPipe EXCEPT !.used = TRUE, !.readopen = TRUE, !.writeopen = TRUE]
  <2>1. PICK q \in Pipes : ~pipe[q].used /\ pipe' = [pipe EXCEPT ![q] = n]
    BY <1>3 DEF PipeDone
  <2>2. PICK P \in [Pipes -> PipeType] : P = pipe
    BY PipesTyped
  <2>3. PICK R \in [Pipes -> PipeType] : R = pipe'
    BY PipesTypedNext
  <2>4. R[q] = n /\ \A x \in Pipes \ {q} : R[x] = P[x]
    BY <2>1, <2>2, <2>3
  <2>5. Open1(P[q]) = {}
    <3>1. ~P[q].readopen /\ ~P[q].writeopen
      BY <2>1, <2>2 DEF FInv, EndsCounted
    <3> QED BY <3>1 DEF Open1
  <2>6. Open1(R[q]) = {"r", "w"} /\ R[q].nread = R[q].nwrite
    BY <2>4 DEF Open1, NoPipe
  <2>7. Bytes(R[q]) = <<>>
    BY <2>6, BytesNone
  <2>8. /\ EndsOf(P)[q] = {}
        /\ EndsOf(R) = [EndsOf(P) EXCEPT ![q] = {"r", "w"}]
        /\ QueueOf(R) = [QueueOf(P) EXCEPT ![q] = <<>>]
    BY <2>4, <2>5, <2>6, <2>7, OnePipe
  <2>9. C!Open(q)
    BY <1>1, <2>2, <2>3, <2>8, ChannelState, ChannelNext, Zenon DEF C!Open, C!Quiet, Quiet
  <2> QED BY <2>9 DEF C!CNext
<1> QED BY <1>2, <1>3

\* pipeclose closes an end, once.
LEMMA EndStep == ASSUME FInv, FInv', NEW p \in Procs, FileCloseRest(p) PROVE C!CNext
<1>1. Quiet /\ pc[p] = "close"
  BY DEF FileCloseRest
<1>2. ff[p] \in Entries /\ ff[p] /= None /\ (ff[p].type = "pipe" => ff[p].pipe \in Pipes)
  BY <1>1, NoneAssumption DEF FInv, LocalInv, LocalAt
<1>3. CASE ff[p].type = "none"
  <2>1. pipe' = pipe
    BY <1>3 DEF FileCloseRest
  <2> QED BY <1>1, <2>1, QuietStep DEF C!CNext
<1>4. CASE ff[p].type = "pipe"
  <2>1. PICK q \in Pipes, w \in BOOLEAN : q = ff[p].pipe /\ w = ff[p].writable
    BY <1>2, <1>4 DEF Entries
  <2>2. pipeclose(q, w)
    BY <1>4, <2>1 DEF FileCloseRest
  <2>3. PICK P \in [Pipes -> PipeType] : P = pipe
    BY PipesTyped
  <2>4. PICK R \in [Pipes -> PipeType] : R = pipe'
    BY PipesTypedNext
  <2> DEFINE r == IF w THEN [P[q] EXCEPT !.writeopen = FALSE]
                       ELSE [P[q] EXCEPT !.readopen = FALSE]
             last == ~r.readopen /\ ~r.writeopen
             e == IF w THEN "w" ELSE "r"
  <2>5. R[q] = (IF last THEN NoPipe ELSE r) /\ \A x \in Pipes \ {q} : R[x] = P[x]
    BY <2>2, <2>3, <2>4 DEF pipeclose
  <2>6. IF w THEN P[q].writeopen ELSE P[q].readopen
    <3>1. IsEnd(ff[p], q, w)
      BY <1>4, <2>1 DEF IsEnd
    <3>2. Count(file, ff, q, w) /= 0
      BY <1>2, <3>1, CountNone
    <3>3. IF w THEN pipe[q].writeopen ELSE pipe[q].readopen
      BY <3>2, EndsForm DEF FInv
    <3> QED BY <2>3, <3>3
  <2>7. /\ P[q].readopen \in BOOLEAN /\ P[q].writeopen \in BOOLEAN
        /\ r.readopen = (P[q].readopen /\ w) /\ r.writeopen = (P[q].writeopen /\ ~w)
        /\ r.nread = P[q].nread /\ r.nwrite = P[q].nwrite /\ r.data = P[q].data
    BY DEF PipeType
  <2> HIDE DEF r
  <2>8. /\ e \in Open1(P[q]) /\ Open1(r) = Open1(P[q]) \ {e}
        /\ last <=> Open1(P[q]) = {e}
    <3>1. /\ Open1(P[q]) \subseteq {"r", "w"} /\ Open1(r) \subseteq {"r", "w"}
          /\ "r" \in Open1(P[q]) <=> P[q].readopen
          /\ "w" \in Open1(P[q]) <=> P[q].writeopen
          /\ "r" \in Open1(r) <=> r.readopen
          /\ "w" \in Open1(r) <=> r.writeopen
      BY DEF Open1
    <3>2. CASE w
      BY <2>6, <2>7, <3>1, <3>2
    <3>3. CASE ~w
      BY <2>6, <2>7, <3>1, <3>3
    <3> QED BY <3>2, <3>3
  <2>9. Open1(R[q]) = Open1(P[q]) \ {e}
    <3>1. CASE last
      <4>1. Open1(NoPipe) = {}
        BY DEF Open1, NoPipe
      <4> QED BY <2>5, <2>8, <3>1, <4>1
    <3>2. CASE ~last
      BY <2>5, <2>8, <3>2
    <3> QED BY <3>1, <3>2
  <2>10. Bytes(R[q]) = IF last THEN <<>> ELSE Bytes(P[q])
    <3>1. CASE last
      <4>1. R[q].nread = R[q].nwrite
        BY <2>5, <3>1 DEF NoPipe
      <4> QED BY <3>1, <4>1, BytesNone
    <3>2. CASE ~last
      BY <2>5, <2>7, <3>2 DEF Bytes, Fill1
    <3> QED BY <3>1, <3>2
  <2> HIDE DEF last, e
  <2>11. /\ e \in EndsOf(P)[q]
         /\ EndsOf(R) = [EndsOf(P) EXCEPT ![q] = @ \ {e}]
         /\ QueueOf(R) = IF EndsOf(P)[q] = {e} THEN [QueueOf(P) EXCEPT ![q] = <<>>]
                                               ELSE QueueOf(P)
    <3>1. /\ EndsOf(R) = [EndsOf(P) EXCEPT ![q] = Open1(R[q])]
          /\ QueueOf(R) = [QueueOf(P) EXCEPT ![q] = Bytes(R[q])]
          /\ EndsOf(P)[q] = Open1(P[q]) /\ QueueOf(P)[q] = Bytes(P[q])
      BY <2>5, OnePipe
    <3>2. [QueueOf(P) EXCEPT ![q] = QueueOf(P)[q]] = QueueOf(P)
      BY DEF QueueOf
    <3> QED BY <2>8, <2>9, <2>10, <3>1, <3>2
  <2>12. C!Close(q, e)
    BY <1>1, <2>3, <2>4, <2>11, ChannelState, ChannelNext, Zenon DEF C!Close, C!Quiet, Quiet
  <2>13. e = "r" \/ e = "w"
    BY DEF e
  <2> QED BY <2>12, <2>13 DEF C!CNext
<1> QED BY <1>2, <1>3, <1>4 DEF Entries

\* piperead receives the bytes at the front, or goes to sleep.
LEMMA ReceiveStep == ASSUME FInv, FInv', NEW p \in Procs, PipeRead(p) PROVE C!CNext
<1>1. pc[p] = "read" /\ InIO(p) /\ UseAt(p)
  BY DEF PipeRead, FInv, UseInv, InIO, Reading
<1>2. PICK q \in Pipes : q = at[p] /\ pipe[q].readopen
  BY <1>1, AtOpen DEF Writing
<1>3. CASE Empty(q) /\ pipe[q].writeopen
  <2>1. Quiet /\ pipe' = pipe
    BY <1>2, <1>3 DEF PipeRead
  <2> QED BY <2>1, QuietStep DEF C!CNext
<1>4. CASE ~(Empty(q) /\ pipe[q].writeopen)
  <2>1. PICK P \in [Pipes -> PipeType] : P = pipe
    BY PipesTyped
  <2>2. PICK R \in [Pipes -> PipeType] : R = pipe'
    BY PipesTypedNext
  <2>3. PICK n \in Nat : n = want[p] /\ n > 0
    <3>1. \A m \in ReadSizes \cup {0} : m \in Nat
      BY SizeAssumption
    <3> QED BY <1>1, <3>1 DEF FInv, TypeOK, UseAt, Reading
  <2>4. PICK r \in PipeType : r = P[q] /\ Fill1(r) <= PIPESIZE /\ Used(q) = Fill1(r)
    BY <2>1, PipesTyped DEF Used, Fill1
  <2>5. PICK u \in 0..PIPESIZE : /\ u = Fill1(r) /\ Len(Bytes(r)) = u /\ Bytes(r) \in Seq(Byte)
    BY <2>4, BytesType
  <2>6. PICK k \in 0..u : k = Min({n, u}) /\ (k = 0 => u = 0)
    <3>1. n \in Int /\ u \in Int /\ u \in Nat
      OBVIOUS
    <3>2. Min({n, u}) = IF n <= u THEN n ELSE u
      BY <3>1, MinTwo
    <3> QED BY <2>3, <3>1, <3>2
  <2>7. /\ gave' = <<>>
        /\ got' = [i \in 1..k |-> r.data[(r.nread + i - 1) % PIPESIZE]]
        /\ pipe' = [pipe EXCEPT ![q] = Take(@, k)]
    <3>1. Min({want[p], Used(q)}) = k
      BY <2>3, <2>4, <2>5, <2>6
    <3>2. /\ gave' = <<>>
          /\ got' = [i \in 1..Min({want[p], Used(q)}) |->
                        pipe[q].data[(pipe[q].nread + i - 1) % PIPESIZE]]
          /\ pipe' = [pipe EXCEPT ![q] = Take(@, Min({want[p], Used(q)}))]
      BY <1>2, <1>4 DEF PipeRead
    <3> QED BY <2>1, <2>4, <3>1, <3>2
  <2>8. R[q] = Take(r, k) /\ \A x \in Pipes \ {q} : R[x] = P[x]
    BY <2>1, <2>2, <2>4, <2>7
  <2>9. /\ got' = SubSeq(Bytes(r), 1, k)
        /\ Bytes(R[q]) = SubSeq(Bytes(r), k + 1, Len(Bytes(r)))
    <3>1. k \in 0..Fill1(r)
      BY <2>5
    <3> QED BY <2>4, <2>7, <2>8, <3>1, BytesTake
  <2>10. Open1(R[q]) = Open1(r) /\ "r" \in Open1(r)
    BY <1>2, <2>1, <2>4, <2>8 DEF Take, Open1, PipeType
  <2>11. k = 0 => Bytes(r) = <<>> /\ "w" \notin Open1(r)
    <3>1. SUFFICES ASSUME k = 0 PROVE Bytes(r) = <<>> /\ "w" \notin Open1(r)
      OBVIOUS
    <3>2. r.nread \in 0..(WORD - 1) /\ r.nwrite \in 0..(WORD - 1) /\ (r.nwrite - r.nread) % WORD = 0
      BY <2>5, <2>6, <3>1 DEF PipeType, Fill1
    <3>3. r.nwrite = r.nread
      BY <3>2, UsedRange
    <3>4. ~r.writeopen
      BY <1>4, <2>1, <2>4, <3>3 DEF Empty
    <3> QED BY <3>3, <3>4, BytesNone DEF Open1
  <2>12. /\ EndsOf(R) = EndsOf(P) /\ EndsOf(P)[q] = Open1(r) /\ QueueOf(P)[q] = Bytes(r)
         /\ QueueOf(R) = [QueueOf(P) EXCEPT ![q] = SubSeq(@, k + 1, Len(@))]
    <3>1. EndsOf(R) = EndsOf(P)
      BY <2>4, <2>8, <2>10, SameChannels
    <3>2. /\ QueueOf(R) = [QueueOf(P) EXCEPT ![q] = Bytes(R[q])]
          /\ EndsOf(P)[q] = Open1(P[q]) /\ QueueOf(P)[q] = Bytes(P[q])
      BY <2>8, OnePipe
    <3> QED BY <2>4, <2>9, <3>1, <3>2
  <2>13. /\ k \in 0..Len(QueueOf(P)[q])
         /\ k = 0 => QueueOf(P)[q] = <<>> /\ "w" \notin EndsOf(P)[q]
         /\ got' = SubSeq(QueueOf(P)[q], 1, k) /\ "r" \in EndsOf(P)[q]
    BY <2>5, <2>9, <2>10, <2>11, <2>12
  <2>14. C!Receive(q)
    BY <2>1, <2>2, <2>7, <2>12, <2>13, ChannelState, ChannelNext, Zenon DEF C!Receive
  <2> QED BY <2>14 DEF C!CNext
<1> QED BY <1>3, <1>4

\* pipewrite sends what fits; into a full pipe nothing.
LEMMA SendStep == ASSUME FInv, FInv', NEW p \in Procs, PipeWrite(p) PROVE C!CNext
<1>1. pc[p] = "write" /\ InIO(p) /\ UseAt(p)
  BY DEF PipeWrite, FInv, UseInv, InIO, Writing
<1>2. PICK q \in Pipes : q = at[p] /\ pipe[q].writeopen
  BY <1>1, AtOpen DEF Writing
<1>3. PICK P \in [Pipes -> PipeType] : P = pipe
  BY PipesTyped
<1>4. PICK R \in [Pipes -> PipeType] : R = pipe'
  BY PipesTypedNext
<1>5. PICK s \in Seq(Byte) : s = left[p]
  BY DEF FInv, TypeOK
<1>6. PICK r \in PipeType : r = P[q] /\ Fill1(r) <= PIPESIZE /\ Used(q) = Fill1(r)
  BY <1>3, PipesTyped DEF Used, Fill1
<1>7. PICK u \in 0..PIPESIZE : u = Fill1(r) /\ Len(Bytes(r)) = u /\ Bytes(r) \in Seq(Byte)
  BY <1>6, BytesType
<1>8. PICK k \in 0..Len(s) : k = Min({Len(s), PIPESIZE - u}) /\ u + k <= PIPESIZE
  <2>1. Len(s) \in Int /\ PIPESIZE - u \in Int /\ Len(s) \in Nat /\ PIPESIZE \in Nat
    BY SizeAssumption
  <2>2. Min({Len(s), PIPESIZE - u}) = IF Len(s) <= PIPESIZE - u THEN Len(s) ELSE PIPESIZE - u
    BY <2>1, MinTwo
  <2> QED BY <2>1, <2>2
<1>9. /\ got' = <<>> /\ gave' = SubSeq(s, 1, k)
      /\ pipe' = [pipe EXCEPT ![q] = Put(@, s, k)]
  <2>1. Min({Len(left[p]), PIPESIZE - Used(q)}) = k
    BY <1>5, <1>6, <1>7, <1>8
  <2>2. /\ got' = <<>> /\ gave' = SubSeq(left[p], 1, Min({Len(left[p]), PIPESIZE - Used(q)}))
        /\ pipe' = [pipe EXCEPT ![q] = Put(@, left[p], Min({Len(left[p]), PIPESIZE - Used(q)}))]
    BY <1>2 DEF PipeWrite
  <2> QED BY <1>5, <2>1, <2>2
<1>10. R[q] = Put(r, s, k) /\ \A x \in Pipes \ {q} : R[x] = P[x]
  BY <1>3, <1>4, <1>6, <1>9
<1>11. Bytes(R[q]) = Bytes(r) \o SubSeq(s, 1, k)
  <2>1. Fill1(r) + k <= PIPESIZE
    BY <1>7, <1>8
  <2> QED BY <1>6, <1>10, <2>1, BytesPut, SMTT(60)
<1>12. Open1(R[q]) = Open1(r) /\ "w" \in Open1(r)
  BY <1>2, <1>3, <1>6, <1>10 DEF Put, Open1, PipeType
<1>13. /\ EndsOf(R) = EndsOf(P) /\ EndsOf(P)[q] = Open1(r) /\ QueueOf(P)[q] = Bytes(r)
       /\ QueueOf(R) = [QueueOf(P) EXCEPT ![q] = @ \o SubSeq(s, 1, k)]
  <2>1. EndsOf(R) = EndsOf(P)
    BY <1>6, <1>10, <1>12, SameChannels
  <2>2. /\ QueueOf(R) = [QueueOf(P) EXCEPT ![q] = Bytes(R[q])]
        /\ EndsOf(P)[q] = Open1(P[q]) /\ QueueOf(P)[q] = Bytes(P[q])
    BY <1>10, OnePipe
  <2> QED BY <1>6, <1>11, <2>1, <2>2
<1>14. CASE k = 0
  <2>1. SubSeq(s, 1, k) = <<>>
    BY <1>14
  <2>2. Bytes(R[q]) = Bytes(r)
    BY <1>7, <1>11, <2>1
  <2>3. QueueOf(R) = QueueOf(P)
    BY <1>6, <1>10, <2>2 DEF QueueOf
  <2>4. C!Elsewhere
    BY <1>3, <1>4, <1>9, <1>13, <2>1, <2>3, ChannelState, ChannelNext, Zenon
       DEF C!Elsewhere, C!Quiet
  <2> QED BY <2>4 DEF C!CNext
<1>15. CASE k /= 0
  <2>1. SubSeq(s, 1, k) \in [1..k -> Byte]
    <3>1. k \in Nat /\ k <= Len(s) /\ \A x \in 1..k : s[x] \in Byte
      OBVIOUS
    <3>2. SubSeq(s, 1, k) = [x \in 1..k |-> s[x]]
      BY <3>1
    <3> QED BY <3>1, <3>2
  <2>2. k \in 1..(PIPESIZE - Len(QueueOf(P)[q])) /\ "w" \in EndsOf(P)[q]
    BY <1>7, <1>8, <1>12, <1>13, <1>15, SizeAssumption
  <2>3. C!Send(q)
    BY <1>3, <1>4, <1>9, <1>13, <2>1, <2>2, ChannelState, ChannelNext, Zenon DEF C!Send
  <2> QED BY <2>3 DEF C!CNext
<1> QED BY <1>14, <1>15

LEMMA InitChannels == Init => C!CInit
<1> SUFFICES ASSUME Init PROVE C!CInit
  OBVIOUS
<1>1. NoPipe \in PipeType
  BY SizeAssumption DEF NoPipe, PipeType, AnyByte
<1>2. Open1(NoPipe) = {}
  BY DEF Open1, NoPipe
<1>3. Bytes(NoPipe) = <<>>
  BY <1>1, BytesNone DEF NoPipe
<1>4. pipe = [q \in Pipes |-> NoPipe] /\ got = <<>> /\ gave = <<>>
  BY DEF Init
<1>5. EndsOf(pipe) = [q \in Pipes |-> {}] /\ QueueOf(pipe) = [q \in Pipes |-> <<>>]
  BY <1>2, <1>3, <1>4 DEF EndsOf, QueueOf
<1> QED BY <1>4, <1>5, ChannelState, Zenon DEF C!CInit

\* Pipes are bounded queues of bytes: whatever the interleaving of readers,
\* writers, closers, forks and kills, and however often nread and nwrite have
\* wrapped around, piperead() takes from the front what pipewrite() has put at
\* the back, each byte once; a read brings nothing only at the end of file; an
\* end is closed once, and what was left of a pipe is gone with its page.
THEOREM PipesRefineChannels == Spec => PipesAreChannels
<1>1. FInv /\ FInv' /\ [Next]_vars => [C!CNext]_(C!cvars)
  <2> SUFFICES ASSUME FInv, FInv', [Next]_vars PROVE [C!CNext]_(C!cvars)
    OBVIOUS
  <2>1. CASE UNCHANGED vars
    BY <2>1, ChannelState, ChannelNext, Zenon DEF vars, C!cvars
  <2>2. CASE Next
    <3>1. PICK p \in Procs :
            \/ Step(p) \/ Start(p) \/ Kill(p) \/ Exit(p)
            \/ PipeFile0(p)
            \/ \E c \in Procs : Fork(p, c)
            \/ \E f \in Files : Close(p, f) \/ Dup(p, f)
            \/ \E f \in Files, n \in ReadSizes : Read(p, f, n)
            \/ \E f \in Files, m \in Messages : Write(p, f, m)
      BY <2>2 DEF Next
    <3>2. CASE FileCloseRest(p) \/ PipeDone(p) \/ PipeRead(p) \/ PipeWrite(p)
      BY <3>2, EndStep, OpenStep, ReceiveStep, SendStep
    <3>3. CASE PipeFile1(p) \/ PipeBad(p) \/ ExitClose(p) \/ Start(p) \/ Kill(p) \/ Exit(p)
      <4>1. Quiet /\ pipe' = pipe
        BY <3>3 DEF PipeFile1, PipeBad, ExitClose, Start, Kill, Exit
      <4> QED BY <4>1, QuietStep DEF C!CNext
    <3>4. CASE \/ PipeFile0(p)
               \/ \E c \in Procs : Fork(p, c)
               \/ \E f \in Files : Close(p, f) \/ Dup(p, f)
               \/ \E f \in Files, n \in ReadSizes : Read(p, f, n)
               \/ \E f \in Files, m \in Messages : Write(p, f, m)
      <4>1. Quiet /\ pipe' = pipe
        BY <3>4 DEF PipeFile0, Fork, Close, Dup, Read, Write, Enter
      <4> QED BY <4>1, QuietStep DEF C!CNext
    <3> QED BY <3>1, <3>2, <3>3, <3>4 DEF Step
  <2> QED BY <2>1, <2>2
<1> QED BY <1>1, InitChannels, FInvAlways, PTL DEF Spec, PipesAreChannels, C!CSpec


==============================================================================
