---------------------------- MODULE FileDataProofs ----------------------------
(***************************************************************************)
(* Proofs about FileData: the free map is exact, the inode on disk is      *)
(* current between operations, a chunk of filewrite fits in the log, and   *)
(* files are sequences of bytes.                                           *)
(***************************************************************************)
EXTENDS FileData, FiniteSetTheorems, WellFoundedInduction, TLAPS

\* The pointers of a file: slot k for its block k, slot MAXFILE for its
\* indirect block.
Slots == 0..MAXFILE
Ptr(f, k) == IF k = MAXFILE THEN ip[f].addrs[NDIRECT] ELSE Data(f, k)

\* The blocks of the words from a up to b, without b.
Span(a, b) == {i \div BSIZE : i \in a..(b - 1)}

\* How far a file has blocks: its size, or what a chunk under way has written.
Extent(f) ==
    IF lock[f] = None THEN ip[f].size
    ELSE LET e == off[reg[lock[f]].h] + reg[lock[f]].tot
         IN IF e > ip[f].size THEN e ELSE ip[f].size

-----------------------------------------------------------------------------
(* The inductive invariant. *)

RegType == [pc : {"idle", "chunk", "block"}, h : Handles \cup {None},
            left : Nat, n1 : Nat, tot : Nat]

\* A call under way has its file open; a chunk under way has the inode's lock
\* and ends before the largest size.
RegAt(p) ==
    /\ reg[p].pc = "idle" => reg[p].h = None
    /\ reg[p].pc # "idle" => reg[p].h \in Handles /\ of[reg[p].h] \in Inodes /\ reg[p].left > 0
    /\ reg[p].pc = "block" =>
        /\ reg[p].tot <= reg[p].n1 /\ reg[p].n1 > 0 /\ reg[p].n1 <= max
        /\ reg[p].n1 <= reg[p].left
        /\ off[reg[p].h] + reg[p].n1 <= MAXFILE * BSIZE
        /\ lock[of[reg[p].h]] = p

RegInv ==
    /\ reg \in [Procs -> RegType]
    /\ \A p \in Procs : RegAt(p)

LockInv ==
    \A f \in Inodes : lock[f] # None =>
        reg[lock[f]].pc = "block" /\ of[reg[lock[f]].h] = f

\* No offset is past the end of its file.
OffInv == \A h \in Handles : of[h] # None => off[h] <= ip[of[h]].size

\* Every pointer is to a block of its own, and those blocks are marked.
OwnInv ==
    /\ \A f \in Inodes, k \in Slots : Ptr(f, k) \in used \cup {0}
    /\ \A f, g \in Inodes, j, k \in Slots :
        Ptr(f, j) = Ptr(g, k) /\ Ptr(f, j) # 0 => f = g /\ j = k
    /\ \A b \in used : \E f \in Inodes, k \in Slots : Ptr(f, k) = b

\* A file has the blocks its words need and no others.
ExtentInv ==
    \A f \in Inodes :
        /\ \A k \in 0..(MAXFILE - 1) : Ptr(f, k) # 0 <=> k \in Span(0, Extent(f))
        /\ Ptr(f, MAXFILE) # 0 <=> \E k \in Span(0, Extent(f)) : k >= NDIRECT

\* The inode on disk is behind only while a chunk makes the file longer.
DiskInv == \A f \in Inodes : Extent(f) = ip[f].size => dinode[f] = ip[f]

\* What the operation of p may have written: the indirect block, the data
\* blocks of its words, and the bitmap blocks of those that are new, which the
\* first one is not when the chunk begins inside a block.
First(o) == IF o % BSIZE = 0 THEN {} ELSE {o \div BSIZE}
Loggable(f, o, e) ==
    (IF Ptr(f, MAXFILE) = 0 THEN {} ELSE {DBLOCK(Ptr(f, MAXFILE)), BBLOCK(Ptr(f, MAXFILE))})
    \cup {DBLOCK(Ptr(f, k)) : k \in Span(o, e)}
    \cup {BBLOCK(Ptr(f, k)) : k \in Span(o, e) \ First(o)}

LogInv ==
    /\ logged = [p \in Procs |-> logged[p]]
    /\ \A p \in Procs : reg[p].pc = "block" =>
        LET h == reg[p].h
        IN logged[p] \subseteq Loggable(of[h], off[h], off[h] + reg[p].tot)

\* The words written so far by a chunk under way.
Word(f, i) == block[Ptr(f, i \div BSIZE)][i % BSIZE]
TextInv ==
    \A p \in Procs : reg[p].pc = "block" =>
        \A i \in off[reg[p].h]..(off[reg[p].h] + reg[p].tot - 1) : Word(of[reg[p].h], i) = p

DInv ==
    /\ TypeOK /\ RegInv /\ LockInv /\ OffInv /\ OwnInv /\ ExtentInv
    /\ DiskInv /\ LogInv /\ TextInv
    /\ dinode = [f \in Inodes |-> dinode[f]]

-----------------------------------------------------------------------------
(* Words and blocks. *)

LEMMA Divides ==
    ASSUME NEW P \in Nat, P > 0, NEW x \in Nat
    PROVE  /\ x \div P \in Nat /\ x % P \in 0..(P - 1)
           /\ x = P * (x \div P) + (x % P)
OBVIOUS

LEMMA DivideUnique ==
    ASSUME NEW P \in Nat, P > 0, NEW d \in Nat, NEW r \in 0..(P - 1),
           NEW e \in Nat, NEW s \in 0..(P - 1), P * d + r = P * e + s
    PROVE  d = e /\ r = s
<1>1. P * (d - e) = s - r /\ d - e \in Int
  OBVIOUS
<1>2. ~(d - e >= 1) /\ ~(d - e <= -1)
  BY <1>1
<1> QED BY <1>1, <1>2

LEMMA DivMod ==
    ASSUME NEW o \in Nat
    PROVE  /\ o \div BSIZE \in Nat /\ o % BSIZE \in Words
           /\ o = BSIZE * (o \div BSIZE) + (o % BSIZE)
BY Divides, SizeAssumption DEF Words

LEMMA DivUnique ==
    ASSUME NEW d \in Nat, NEW r \in Words, NEW o \in Nat, o = BSIZE * d + r
    PROVE  o \div BSIZE = d /\ o % BSIZE = r
<1>1. PICK P \in Nat : P = BSIZE /\ P > 0
  BY SizeAssumption
<1>2. /\ o \div P \in Nat /\ o % P \in 0..(P - 1)
      /\ o = P * (o \div P) + (o % P)
  BY <1>1, Divides
<1> QED BY <1>1, <1>2, DivideUnique DEF Words

\* The words of one block.
LEMMA DivSame ==
    ASSUME NEW o \in Nat, NEW m \in Nat, (o % BSIZE) + m <= BSIZE, NEW i \in o..(o + m - 1)
    PROVE  i \div BSIZE = o \div BSIZE /\ i % BSIZE = (o % BSIZE) + (i - o)
<1>1. PICK d \in Nat, r \in Words : d = o \div BSIZE /\ r = o % BSIZE /\ o = BSIZE * d + r
  BY DivMod
<1>2. r + (i - o) \in Words /\ i \in Nat
  BY <1>1, SizeAssumption DEF Words
<1>3. BSIZE * d \in Nat
  BY SizeAssumption
<1>4. i = BSIZE * d + (r + (i - o))
  BY <1>1, <1>2, <1>3 DEF Words
<1> QED BY <1>1, <1>2, <1>4, DivUnique

LEMMA SpanAdd ==
    ASSUME NEW a \in Nat, NEW o \in Nat, a <= o, NEW m \in Nat, m > 0, (o % BSIZE) + m <= BSIZE
    PROVE  Span(a, o + m) = Span(a, o) \cup {o \div BSIZE}
<1>1. ASSUME NEW k \in Span(a, o + m) PROVE k \in Span(a, o) \cup {o \div BSIZE}
  <2>1. PICK i \in a..(o + m - 1) : k = i \div BSIZE
    BY <1>1 DEF Span
  <2>2. CASE i \in a..(o - 1)
    BY <2>1, <2>2 DEF Span
  <2>3. CASE i \in o..(o + m - 1)
    BY <2>1, <2>3, DivSame
  <2> QED BY <2>1, <2>2, <2>3
<1>2. ASSUME NEW k \in Span(a, o) PROVE k \in Span(a, o + m)
  <2>1. PICK i \in a..(o - 1) : k = i \div BSIZE
    BY <1>2 DEF Span
  <2>2. i \in a..(o + m - 1)
    BY <2>1
  <2> QED BY <2>1, <2>2 DEF Span
<1>3. o \div BSIZE \in Span(a, o + m)
  <2>1. o \in a..(o + m - 1)
    OBVIOUS
  <2> QED BY <2>1 DEF Span
<1> QED BY <1>1, <1>2, <1>3

\* The blocks of a file after words o to o + m - 1 of one block were written.
LEMMA SpanGrow ==
    ASSUME NEW E \in Nat, NEW o \in Nat, o <= E, NEW m \in Nat, m > 0, (o % BSIZE) + m <= BSIZE
    PROVE  Span(0, IF o + m > E THEN o + m ELSE E) = Span(0, E) \cup {o \div BSIZE}
<1>1. CASE o + m > E
  <2>1. ASSUME NEW k \in Span(0, o + m) PROVE k \in Span(0, E) \cup {o \div BSIZE}
    <3>1. PICK i \in 0..(o + m - 1) : k = i \div BSIZE
      BY <2>1 DEF Span
    <3>2. CASE i \in 0..(E - 1)
      BY <3>1, <3>2 DEF Span
    <3>3. CASE i \in o..(o + m - 1)
      BY <3>1, <3>3, DivSame
    <3> QED BY <3>1, <3>2, <3>3
  <2>2. ASSUME NEW k \in Span(0, E) PROVE k \in Span(0, o + m)
    <3>1. PICK i \in 0..(E - 1) : k = i \div BSIZE
      BY <2>2 DEF Span
    <3>2. i \in 0..(o + m - 1)
      BY <1>1, <3>1
    <3> QED BY <3>1, <3>2 DEF Span
  <2>3. o \div BSIZE \in Span(0, o + m)
    <3>1. o \in 0..(o + m - 1)
      OBVIOUS
    <3> QED BY <3>1 DEF Span
  <2> QED BY <1>1, <2>1, <2>2, <2>3
<1>2. CASE ~(o + m > E)
  <2>1. o \in 0..(E - 1)
    BY <1>2
  <2> QED BY <1>2, <2>1 DEF Span
<1> QED BY <1>1, <1>2

\* A chunk that begins inside a block finds that block.
LEMMA SpanInside ==
    ASSUME NEW E \in Nat, NEW o \in Nat, o <= E, o % BSIZE # 0
    PROVE  o \div BSIZE \in Span(0, E)
<1>1. PICK d \in Nat, r \in Words : d = o \div BSIZE /\ r = o % BSIZE /\ o = BSIZE * d + r
  BY DivMod
<1>2. r - 1 \in Words
  BY <1>1, SizeAssumption DEF Words
<1>3. BSIZE * d \in Nat
  BY SizeAssumption
<1>4. o - 1 \in 0..(E - 1) /\ o - 1 \in Nat /\ o - 1 = BSIZE * d + (r - 1)
  BY <1>1, <1>2, <1>3 DEF Words
<1>5. (o - 1) \div BSIZE = d
  BY <1>2, <1>4, DivUnique
<1> QED BY <1>1, <1>4, <1>5 DEF Span

LEMMA SpanLimit ==
    ASSUME NEW E \in Nat, E <= MAXFILE * BSIZE, NEW k \in Span(0, E)
    PROVE  k \in 0..(MAXFILE - 1)
<1>1. PICK i \in 0..(E - 1) : k = i \div BSIZE
  BY DEF Span
<1>2. PICK d \in Nat, r \in Words : d = k /\ i = BSIZE * d + r
  BY <1>1, DivMod
<1>3. PICK M \in Nat, P \in Nat : M = MAXFILE /\ P = BSIZE /\ P > 0
  BY SizeAssumption DEF MAXFILE, NINDIRECT
<1>4. P * d < M * P
  BY <1>1, <1>2, <1>3 DEF Words
<1>5. ~(d >= M)
  <2>1. SUFFICES ASSUME d >= M PROVE FALSE
    OBVIOUS
  <2>2. P * d >= P * M
    BY <1>3, <2>1
  <2> QED BY <1>3, <1>4, <2>2
<1> QED BY <1>2, <1>3, <1>5

-----------------------------------------------------------------------------
(* bmap. *)

\* The naturals are well-ordered.
LEMMA LeastBy ==
    ASSUME NEW T, T \subseteq Nat, T /= {}, NEW R, IsWellFoundedOn(R, Nat),
           \A x, y \in Nat : x < y => <<x, y>> \in R
    PROVE  \E x \in T : \A y \in T : x <= y
<1>1. PICK x \in T : \A y \in T : ~(<<y, x>> \in R)
  BY WFMin, ZenonT(120)
<1>2. \A y \in T : ~(y < x)
  BY <1>1
<1>3. \A y \in T : x <= y
  BY <1>2
<1> QED BY <1>3

LEMMA MinIn ==
    ASSUME NEW T, T \subseteq Nat, T /= {}
    PROVE  Min(T) \in T
<1>1. PICK x \in T : \A y \in T : x <= y
  <2> DEFINE R == OpToRel(<, Nat)
  <2>1. IsWellFoundedOn(R, Nat)
    BY NatLessThanWellFounded
  <2>2. \A x, y \in Nat : x < y => <<x, y>> \in R
    BY DEF OpToRel
  <2> HIDE DEF R
  <2> QED BY <2>1, <2>2, LeastBy
<1> QED BY <1>1 DEF Min

LEMMA MinOfTwo ==
    ASSUME NEW x \in Int, NEW y \in Int
    PROVE  Min({x, y}) = IF x <= y THEN x ELSE y
<1>1. PICK z \in {x, y} : \A u \in {x, y} : z <= u
  <2>1. CASE x <= y
    BY <2>1
  <2>2. CASE y <= x
    BY <2>2
  <2> QED BY <2>1, <2>2
<1>2. Min({x, y}) \in {x, y} /\ \A u \in {x, y} : Min({x, y}) <= u
  BY <1>1 DEF Min
<1> QED BY <1>2

LEMMA MaxOfTwo ==
    ASSUME NEW x \in Int, NEW y \in Int
    PROVE  Max({x, y}) = IF x >= y THEN x ELSE y
<1>1. PICK z \in {x, y} : \A u \in {x, y} : z >= u
  <2>1. CASE x >= y
    BY <2>1
  <2>2. CASE y >= x
    BY <2>2
  <2> QED BY <2>1, <2>2
<1>2. Max({x, y}) \in {x, y} /\ \A u \in {x, y} : Max({x, y}) >= u
  BY <1>1 DEF Max
<1> QED BY <1>2

LEMMA Places ==
    /\ NDIRECT \in Nat /\ MAXFILE \in Nat /\ MAXFILE = NDIRECT + BSIZE /\ BSIZE \in Nat /\ BSIZE > 0
    /\ NDIRECT \in 0..NDIRECT /\ MAXFILE \in Slots
    /\ \A k \in 0..(MAXFILE - 1) : /\ k \in Slots /\ k # MAXFILE /\ k \in Nat
                                   /\ k < NDIRECT => k \in 0..NDIRECT /\ k # NDIRECT
                                   /\ k >= NDIRECT => k - NDIRECT \in Words
BY SizeAssumption DEF MAXFILE, NINDIRECT, Slots, Words

LEMMA SameAddrs ==
    ASSUME NEW u \in [0..NDIRECT -> Blocks \cup {0}], NEW v \in [0..NDIRECT -> Blocks \cup {0}],
           \A j \in 0..NDIRECT : u[j] = v[j]
    PROVE  u = v
<1>1. u = [j \in 0..NDIRECT |-> u[j]]
  OBVIOUS
<1>2. v = [j \in 0..NDIRECT |-> v[j]]
  OBVIOUS
<1>3. [j \in 0..NDIRECT |-> u[j]] = [j \in 0..NDIRECT |-> v[j]]
  OBVIOUS
<1> QED BY <1>1, <1>2, <1>3, Zenon

\* balloc finds a block when there is one.
LEMMA FreeFacts ==
    ASSUME TypeOK
    PROVE  /\ IsFiniteSet(Free) /\ Free \subseteq Blocks /\ Cardinality(Free) \in Nat
           /\ Cardinality(Free) >= 1 => Min(Free) \in Free
           /\ Cardinality(Free) >= 2 => Min(Free \ {Min(Free)}) \in Free \ {Min(Free)}
<1>1. IsFiniteSet(Blocks) /\ Blocks \subseteq Nat
  BY FS_Interval, SizeAssumption DEF Blocks
<1>2. /\ IsFiniteSet(Free) /\ Free \subseteq Blocks /\ Free \subseteq Nat
      /\ Cardinality(Free) \in Nat
  BY <1>1, FS_Subset, FS_CardinalityType DEF Free
<1>3. ASSUME Cardinality(Free) >= 1 PROVE Min(Free) \in Free
  <2>1. Free # {}
    BY <1>3, FS_EmptySet
  <2> QED BY <1>2, <2>1, MinIn
<1>4. ASSUME Cardinality(Free) >= 2 PROVE Min(Free \ {Min(Free)}) \in Free \ {Min(Free)}
  <2>0. Cardinality(Free) >= 1
    BY <1>2, <1>4
  <2>1. PICK x \in Free : x = Min(Free)
    BY <1>3, <2>0
  <2>2. Cardinality(Free \ {x}) = Cardinality(Free) - 1
    BY <1>2, FS_RemoveElement
  <2>3. Free \ {x} # {}
    BY <1>2, <1>4, <2>2, FS_EmptySet
  <2>4. Min(Free \ {x}) \in Free \ {x}
    BY <1>2, <2>3, MinIn
  <2> QED BY <2>1, <2>4
<1> QED BY <1>2, <1>3, <1>4

\* What bmap returns: the block a of the file's block k and the indirect block
\* d afterwards, each new (and cleared) only if there was none.
BmapIs(f, k, a, d) ==
    LET b == bmap(f, k)
        ind == k >= NDIRECT
        fresh == ({a} \cup IF ind THEN {d} ELSE {}) \ used
    IN /\ b.addr = a /\ a \in Blocks /\ d \in Blocks \cup {0}
       /\ Ptr(f, k) # 0 => a = Ptr(f, k) /\ d = Ptr(f, MAXFILE)
       /\ Ptr(f, k) = 0 => a \notin used
       /\ Ptr(f, MAXFILE) # 0 \/ ~ind => d = Ptr(f, MAXFILE)
       /\ ind => d \in Blocks /\ d # a
       /\ ind /\ Ptr(f, MAXFILE) = 0 => d \notin used
       /\ b.used = used \cup fresh
       /\ b.inode = [addrs |-> [ip[f].addrs EXCEPT ![IF ind THEN NDIRECT ELSE k] =
                                                    IF ind THEN d ELSE a],
                     size |-> ip[f].size]
       /\ b.block \in [Blocks -> [Words -> Blocks \cup Procs \cup {0}]]
       /\ \A x \in Blocks, w \in Words :
            b.block[x][w] = IF ind /\ x = d /\ w = k - NDIRECT THEN a
                            ELSE IF x \in fresh THEN 0 ELSE block[x][w]
       /\ b.log \subseteq {DBLOCK(a)} \cup (IF Ptr(f, k) = 0 THEN {BBLOCK(a)} ELSE {})
                          \cup IF ind THEN {DBLOCK(d), BBLOCK(d)} ELSE {}

LEMMA BmapFacts ==
    ASSUME TypeOK, OwnInv, NEW f \in Inodes, NEW k \in 0..(MAXFILE - 1),
           Cardinality(Free) >= Needs(f, k)
    PROVE  \E a \in Blocks, d \in Blocks \cup {0} : BmapIs(f, k, a, d)
<1> DEFINE ind == IF NeedInd(f, k) THEN Min(Free) ELSE ip[f].addrs[NDIRECT]
           free == IF NeedInd(f, k) THEN Free \ {ind} ELSE Free
           new == Data(f, k) = 0
           addr == IF new THEN Min(free) ELSE Data(f, k)
           fresh == (IF new THEN {addr} ELSE {}) \cup (IF NeedInd(f, k) THEN {ind} ELSE {})
           clear == Zeroed(fresh)
<1>1. /\ Ptr(f, k) = Data(f, k) /\ Ptr(f, MAXFILE) = ip[f].addrs[NDIRECT]
      /\ k \in Slots /\ MAXFILE \in Slots /\ k # MAXFILE
  BY Places DEF Ptr
<1>2. /\ Data(f, k) \in used \cup {0} /\ ip[f].addrs[NDIRECT] \in used \cup {0}
      /\ used \subseteq Blocks /\ 0 \notin Blocks
  <2>1. Ptr(f, k) \in used \cup {0} /\ Ptr(f, MAXFILE) \in used \cup {0}
    BY <1>1 DEF OwnInv
  <2>2. used \subseteq Blocks
    BY DEF TypeOK
  <2>3. 0 \notin Blocks
    BY SizeAssumption DEF Blocks
  <2> QED BY <1>1, <2>1, <2>2, <2>3
<1>3. k >= NDIRECT /\ ip[f].addrs[NDIRECT] = 0 => new
  BY Places DEF Data
<1>4. /\ NeedInd(f, k) => new /\ ind \in Free /\ addr \in Free \ {ind}
      /\ new /\ ~NeedInd(f, k) => addr \in Free
  <2>1. CASE NeedInd(f, k)
    <3>1. Cardinality(Free) >= 2 /\ new
      BY <1>3, <2>1 DEF NeedInd, Needs
    <3>2. Cardinality(Free) \in Nat /\ Cardinality(Free) >= 1
      BY <3>1, FreeFacts
    <3> QED BY <2>1, <3>1, <3>2, FreeFacts
  <2>2. CASE new /\ ~NeedInd(f, k)
    <3>1. Cardinality(Free) >= 1
      BY <2>2 DEF Needs
    <3> QED BY <2>2, <3>1, FreeFacts
  <2> QED BY <2>1, <2>2
<1>5. addr \in Blocks /\ ind \in Blocks \cup {0} /\ (k >= NDIRECT => ind \in Blocks)
  BY <1>2, <1>4 DEF Free, NeedInd
<1>6. k >= NDIRECT => ind # addr
  <2>1. CASE NeedInd(f, k)
    BY <1>4, <2>1
  <2>2. CASE ~NeedInd(f, k) /\ new
    BY <1>2, <1>4, <2>2 DEF Free, NeedInd
  <2>3. CASE ~NeedInd(f, k) /\ ~new
    BY <1>1, <2>3 DEF OwnInv
  <2> QED BY <2>1, <2>2, <2>3
<1>7. fresh = ({addr} \cup IF k >= NDIRECT THEN {ind} ELSE {}) \ used
  <2>1. new => addr \notin used
    BY <1>4 DEF Free
  <2>2. NeedInd(f, k) => ind \notin used /\ k >= NDIRECT
    BY <1>4 DEF Free, NeedInd
  <2>3. ~new => addr \in used
    BY <1>2
  <2>4. k >= NDIRECT /\ ~NeedInd(f, k) => ind \in used
    BY <1>2 DEF NeedInd
  <2> QED BY <2>1, <2>2, <2>3, <2>4
<1>8. /\ bmap(f, k).addr = addr /\ bmap(f, k).used = used \cup fresh
      /\ bmap(f, k).inode = IF k < NDIRECT THEN [ip[f] EXCEPT !.addrs[k] = addr]
                            ELSE [ip[f] EXCEPT !.addrs[NDIRECT] = ind]
      /\ bmap(f, k).block = IF new /\ k >= NDIRECT THEN [clear EXCEPT ![ind][k - NDIRECT] = addr]
                            ELSE clear
      /\ bmap(f, k).log = {BBLOCK(b) : b \in fresh} \cup {DBLOCK(b) : b \in fresh}
                          \cup IF new /\ k >= NDIRECT THEN {DBLOCK(ind)} ELSE {}
  BY DEF bmap
<1>9. /\ bmap(f, k).block \in [Blocks -> [Words -> Blocks \cup Procs \cup {0}]]
      /\ \A x \in Blocks, w \in Words :
            bmap(f, k).block[x][w] =
                IF k >= NDIRECT /\ x = ind /\ w = k - NDIRECT THEN addr
                ELSE IF x \in fresh THEN 0 ELSE block[x][w]
  <2>1. block \in [Blocks -> [Words -> Blocks \cup Procs \cup {0}]]
    BY DEF TypeOK
  <2>2. /\ clear \in [Blocks -> [Words -> Blocks \cup Procs \cup {0}]]
        /\ \A x \in Blocks, w \in Words : clear[x][w] = IF x \in fresh THEN 0 ELSE block[x][w]
    <3> HIDE DEF fresh
    <3> QED BY <2>1 DEF Zeroed
  <2>3. CASE new /\ k >= NDIRECT
    <3>1. ind \in Blocks /\ k - NDIRECT \in Words
      BY <1>5, <2>3, Places
    <3> HIDE DEF ind, clear, addr, fresh, new
    <3>2. bmap(f, k).block = [clear EXCEPT ![ind][k - NDIRECT] = addr]
      BY <1>8, <2>3
    <3> QED BY <1>5, <2>2, <2>3, <3>1, <3>2
  <2>4. CASE ~(new /\ k >= NDIRECT)
    <3>1. bmap(f, k).block = clear
      BY <1>8, <2>4
    <3>2. ASSUME k >= NDIRECT
          PROVE  ind \in Blocks /\ ind \notin fresh /\ k - NDIRECT \in Words
                 /\ block[ind][k - NDIRECT] = addr
      <4>1. ~NeedInd(f, k) /\ ~new /\ ind = ip[f].addrs[NDIRECT] /\ addr = Data(f, k)
        BY <1>4, <2>4, <3>2
      <4>2. k - NDIRECT \in Words /\ ind \in Blocks /\ ind \in used
        BY <1>2, <1>5, <3>2, <4>1, Places DEF NeedInd
      <4>3. Data(f, k) = block[ip[f].addrs[NDIRECT]][k - NDIRECT]
        BY <1>2, <3>2, <4>1, <4>2, Places DEF Data
      <4> QED BY <1>7, <4>1, <4>2, <4>3
    <3> HIDE DEF ind, clear, addr, fresh, new
    <3> QED BY <2>2, <3>1, <3>2
  <2> QED BY <2>3, <2>4
<1>10. bmap(f, k).log \subseteq {DBLOCK(addr)} \cup (IF new THEN {BBLOCK(addr)} ELSE {})
                              \cup IF k >= NDIRECT THEN {DBLOCK(ind), BBLOCK(ind)} ELSE {}
  <2>1. fresh \subseteq (IF new THEN {addr} ELSE {}) \cup (IF k >= NDIRECT THEN {ind} ELSE {})
    BY DEF NeedInd
  <2> HIDE DEF ind, addr, fresh, new
  <2> QED BY <1>8, <2>1
<1>11. /\ Data(f, k) # 0 => addr = Data(f, k) /\ ind = ip[f].addrs[NDIRECT]
       /\ Data(f, k) = 0 => addr \notin used
       /\ ip[f].addrs[NDIRECT] # 0 \/ ~(k >= NDIRECT) => ind = ip[f].addrs[NDIRECT]
       /\ k >= NDIRECT /\ ip[f].addrs[NDIRECT] = 0 => ind \notin used
  BY <1>4 DEF NeedInd, Free
<1>12. bmap(f, k).inode =
            [addrs |-> [ip[f].addrs EXCEPT ![IF k >= NDIRECT THEN NDIRECT ELSE k] =
                                            IF k >= NDIRECT THEN ind ELSE addr],
             size |-> ip[f].size]
  <2>1. ip[f] = [addrs |-> ip[f].addrs, size |-> ip[f].size]
    BY DEF TypeOK
  <2> HIDE DEF ind, addr
  <2>2. CASE k < NDIRECT
    BY <1>8, <2>1, <2>2, Places
  <2>3. CASE k >= NDIRECT
    BY <1>8, <2>1, <2>3, Places
  <2> QED BY <2>2, <2>3, Places
<1> DEFINE cleared == ({addr} \cup IF k >= NDIRECT THEN {ind} ELSE {}) \ used
<1>13. /\ bmap(f, k).used = used \cup cleared
       /\ \A x \in Blocks, w \in Words :
            bmap(f, k).block[x][w] =
                IF k >= NDIRECT /\ x = ind /\ w = k - NDIRECT THEN addr
                ELSE IF x \in cleared THEN 0 ELSE block[x][w]
  <2>1. fresh = cleared
    BY <1>7
  <2> HIDE DEF fresh, cleared, ind, addr, new, clear
  <2> QED BY <1>8, <1>9, <2>1
<1>14. /\ bmap(f, k).addr = addr
       /\ bmap(f, k).block \in [Blocks -> [Words -> Blocks \cup Procs \cup {0}]]
  BY <1>8, <1>9
<1>15. /\ Ptr(f, k) # 0 => addr = Ptr(f, k) /\ ind = Ptr(f, MAXFILE)
       /\ Ptr(f, k) = 0 => addr \notin used
       /\ Ptr(f, MAXFILE) # 0 \/ ~(k >= NDIRECT) => ind = Ptr(f, MAXFILE)
       /\ k >= NDIRECT /\ Ptr(f, MAXFILE) = 0 => ind \notin used
       /\ bmap(f, k).log \subseteq {DBLOCK(addr)} \cup (IF Ptr(f, k) = 0 THEN {BBLOCK(addr)} ELSE {})
                              \cup IF k >= NDIRECT THEN {DBLOCK(ind), BBLOCK(ind)} ELSE {}
  <2> HIDE DEF ind, addr, fresh, clear
  <2> QED BY <1>1, <1>10, <1>11
<1> HIDE DEF ind, addr, fresh, new, clear
<1>16. k >= NDIRECT => ind \in Blocks /\ ind # addr
  BY <1>5, <1>6
<1>17. BmapIs(f, k, addr, ind)
  BY <1>5, <1>12, <1>13, <1>14, <1>15, <1>16, Zenon DEF BmapIs
<1> QED BY <1>5, <1>17

-----------------------------------------------------------------------------
(* One turn of writei's loop. *)

\* Process p writes words o to o + m - 1 of file f, all in its block k.
Turn(p, h, f, o, m, k) ==
    /\ h = reg[p].h /\ h \in Handles /\ f = of[h] /\ f \in Inodes /\ lock[f] = p
    /\ reg[p].pc = "block" /\ o = off[h] + reg[p].tot
    /\ off[h] \in Nat /\ reg[p].tot \in Nat /\ o \in Nat
    /\ m \in Nat /\ m > 0 /\ (o % BSIZE) + m <= BSIZE /\ o % BSIZE \in Words
    /\ reg[p].tot + m <= reg[p].n1
    /\ k = o \div BSIZE /\ k \in 0..(MAXFILE - 1)
    /\ Extent(f) \in Nat /\ Extent(f) <= MAXFILE * BSIZE /\ o <= Extent(f)
    /\ Extent(f) = IF o > ip[f].size THEN o ELSE ip[f].size

LEMMA Limits == MAXFILE * BSIZE \in Nat /\ max \in Int
BY SizeAssumption DEF MAXFILE, NINDIRECT, max

LEMMA TurnFacts ==
    ASSUME DInv, NEW p \in Procs, WriteBlock(p)
    PROVE  \E h \in Handles, f \in Inodes, o \in Nat, m \in Nat, k \in 0..(MAXFILE - 1) :
              /\ Turn(p, h, f, o, m, k)
              /\ m = Min({reg[p].n1 - reg[p].tot, BSIZE - (o % BSIZE)})
<1>1. /\ reg[p].pc = "block" /\ reg[p].tot < reg[p].n1
  BY DEF WriteBlock
<1>2. PICK h \in Handles, f \in Inodes : h = reg[p].h /\ f = of[h] /\ lock[f] = p
  BY <1>1 DEF DInv, RegInv, RegAt
<1>3. PICK t \in Nat, n \in Nat, s \in Nat, z \in Nat :
        t = reg[p].tot /\ n = reg[p].n1 /\ s = off[h] /\ z = ip[f].size
  <2>1. reg[p] \in RegType
    BY DEF DInv, RegInv
  <2>2. off[h] \in 0..(MAXFILE * BSIZE) /\ ip[f].size \in 0..(MAXFILE * BSIZE)
    BY DEF DInv, TypeOK
  <2> QED BY <2>1, <2>2, Limits DEF RegType
<1>4. t < n /\ s + n <= MAXFILE * BSIZE /\ z <= MAXFILE * BSIZE
  <2>1. t < n /\ s + n <= MAXFILE * BSIZE
    BY <1>1, <1>2, <1>3 DEF DInv, RegInv, RegAt
  <2>2. ip[f].size \in 0..(MAXFILE * BSIZE)
    BY DEF DInv, TypeOK
  <2> QED BY <1>3, <2>1, <2>2, Limits
<1>5. PICK o \in Nat : o = s + t /\ o < MAXFILE * BSIZE
  BY <1>3, <1>4, Limits
<1>6. PICK r \in Words, k \in Nat : r = o % BSIZE /\ k = o \div BSIZE
  BY DivMod
<1>7. k \in 0..(MAXFILE - 1)
  <2>1. o + 1 \in Nat /\ o + 1 <= MAXFILE * BSIZE /\ o \in 0..(o + 1 - 1)
    BY <1>5, Limits
  <2>2. k \in Span(0, o + 1)
    BY <1>6, <2>1 DEF Span
  <2> QED BY <2>1, <2>2, SpanLimit
<1>8. PICK m \in Nat : /\ m = Min({n - t, BSIZE - r})
                       /\ m > 0 /\ t + m <= n /\ r + m <= BSIZE
  <2>1. n - t \in Int /\ BSIZE - r \in Int /\ n - t > 0 /\ BSIZE - r > 0
    BY <1>4, <1>6, SizeAssumption DEF Words
  <2>2. Min({n - t, BSIZE - r}) = IF n - t <= BSIZE - r THEN n - t ELSE BSIZE - r
    BY <2>1, MinOfTwo
  <2> QED BY <1>6, <2>1, <2>2, SizeAssumption DEF Words
<1>9. Extent(f) = IF o > z THEN o ELSE z
  <2>1. p # None
    BY NoneAssumption
  <2> QED BY <1>2, <1>3, <1>5, <2>1 DEF Extent
<1>10. Extent(f) \in Nat /\ Extent(f) <= MAXFILE * BSIZE /\ o <= Extent(f)
  BY <1>4, <1>5, <1>9, Limits
<1>11. Turn(p, h, f, o, m, k)
  BY <1>1, <1>2, <1>3, <1>5, <1>6, <1>7, <1>8, <1>9, <1>10 DEF Turn
<1> QED BY <1>3, <1>6, <1>7, <1>8, <1>11

\* What the turn changes.
Written(p, f, o, m, k, a, d) ==
    /\ \A g \in Inodes, j \in Slots :
        Ptr(g, j)' = IF g = f /\ j = k THEN a ELSE IF g = f /\ j = MAXFILE THEN d ELSE Ptr(g, j)
    /\ used' = used \cup (({a} \cup IF k >= NDIRECT THEN {d} ELSE {}) \ used)
    /\ block' \in [Blocks -> [Words -> Blocks \cup Procs \cup {0}]]
    /\ \A x \in used : x # a /\ (x # d \/ k < NDIRECT) => block'[x] = block[x]
    /\ \A w \in Words : block'[a][w] = IF w >= o % BSIZE /\ w < (o % BSIZE) + m THEN p
                                       ELSE IF a \in used THEN block[a][w] ELSE 0
    /\ ip' \in [Inodes -> [addrs : [0..NDIRECT -> Blocks \cup {0}], size : 0..(MAXFILE * BSIZE)]]
    /\ \A g \in Inodes : ip'[g].size = ip[g].size
    /\ \A g \in Inodes \ {f} : ip'[g] = ip[g]
    /\ Ptr(f, k) # 0 => ip' = ip
    /\ reg' = [reg EXCEPT ![p] = [@ EXCEPT !.tot = reg[p].tot + m]]
    /\ \E L : /\ logged' = [logged EXCEPT ![p] = @ \cup L]
              /\ L \subseteq {DBLOCK(a)} \cup (IF Ptr(f, k) = 0 THEN {BBLOCK(a)} ELSE {})
                             \cup IF k >= NDIRECT THEN {DBLOCK(d), BBLOCK(d)} ELSE {}
    /\ UNCHANGED <<dinode, of, off, lock, panicked>> /\ got' = <<>>

LEMMA TurnWrites ==
    ASSUME DInv, NEW p \in Procs, WriteBlock(p), panicked' = panicked,
           NEW h \in Handles, NEW f \in Inodes, NEW o \in Nat, NEW m \in Nat,
           NEW k \in 0..(MAXFILE - 1), Turn(p, h, f, o, m, k),
           m = Min({reg[p].n1 - reg[p].tot, BSIZE - (o % BSIZE)})
    PROVE  \E a \in Blocks, d \in Blocks \cup {0} :
              BmapIs(f, k, a, d) /\ Written(p, f, o, m, k, a, d)
<1>1. /\ h = reg[p].h /\ f = of[h] /\ o = off[h] + reg[p].tot /\ k = o \div BSIZE
      /\ o % BSIZE \in Words
  BY DEF Turn
<1>2. panicked = "" /\ k < MAXFILE /\ ~(k >= MAXFILE)
  <2>1. panicked = ""
    BY DEF WriteBlock
  <2>2. MAXFILE \in Nat
    BY Places
  <2>3. k < MAXFILE /\ ~(k >= MAXFILE)
    BY <2>2
  <2> QED BY <2>1, <2>3
<1> DEFINE b == bmap(f, k)
<1>3. /\ Cardinality(Free) >= Needs(f, k)
      /\ used' = b.used /\ ip' = [ip EXCEPT ![f] = b.inode]
      /\ block' = [b.block EXCEPT ![b.addr] = [w \in Words |->
                        IF w >= o % BSIZE /\ w < (o % BSIZE) + m THEN p ELSE @[w]]]
      /\ logged' = [logged EXCEPT ![p] = @ \cup b.log \cup {DBLOCK(b.addr)}]
      /\ reg' = [reg EXCEPT ![p].tot = @ + m]
      /\ UNCHANGED <<dinode, of, off, lock, panicked>> /\ got' = <<>>
  <2>1. ~(o \div BSIZE >= MAXFILE)
    BY <1>1, <1>2
  <2>2. ~(Cardinality(Free) < Needs(f, k))
    BY <1>1, <1>2, <2>1 DEF WriteBlock
  <2>3. Cardinality(Free) >= Needs(f, k)
    <3>1. Cardinality(Free) \in Nat
      BY FreeFacts DEF DInv
    <3>2. Needs(f, k) \in Nat
      BY DEF Needs
    <3> QED BY <2>2, <3>1, <3>2
  <2> QED BY <1>1, <2>1, <2>2, <2>3 DEF WriteBlock
<1>4. PICK a \in Blocks, d \in Blocks \cup {0} : BmapIs(f, k, a, d)
  BY <1>3, BmapFacts DEF DInv
<1> DEFINE ind == k >= NDIRECT
           fresh == ({a} \cup IF ind THEN {d} ELSE {}) \ used
<1>5. /\ b.addr = a /\ b.used = used \cup fresh
      /\ Ptr(f, k) # 0 => a = Ptr(f, k) /\ d = Ptr(f, MAXFILE)
      /\ Ptr(f, k) = 0 => a \notin used
      /\ Ptr(f, MAXFILE) # 0 \/ ~ind => d = Ptr(f, MAXFILE)
      /\ ind => d \in Blocks /\ d # a
      /\ ind /\ Ptr(f, MAXFILE) = 0 => d \notin used
  BY <1>4 DEF BmapIs
<1>6. /\ b.inode = [addrs |-> [ip[f].addrs EXCEPT ![IF ind THEN NDIRECT ELSE k] =
                                                    IF ind THEN d ELSE a],
                    size |-> ip[f].size]
      /\ b.block \in [Blocks -> [Words -> Blocks \cup Procs \cup {0}]]
      /\ \A x \in Blocks, w \in Words :
            b.block[x][w] = IF ind /\ x = d /\ w = k - NDIRECT THEN a
                            ELSE IF x \in fresh THEN 0 ELSE block[x][w]
      /\ b.log \subseteq {DBLOCK(a)} \cup (IF Ptr(f, k) = 0 THEN {BBLOCK(a)} ELSE {})
                         \cup IF ind THEN {DBLOCK(d), BBLOCK(d)} ELSE {}
  BY <1>4 DEF BmapIs
<1>7. /\ \A g \in Inodes : /\ ip[g].addrs \in [0..NDIRECT -> Blocks \cup {0}]
                           /\ ip[g].size \in 0..(MAXFILE * BSIZE)
                           /\ ip[g] = [addrs |-> ip[g].addrs, size |-> ip[g].size]
      /\ ip \in [Inodes -> [addrs : [0..NDIRECT -> Blocks \cup {0}], size : 0..(MAXFILE * BSIZE)]]
      /\ block \in [Blocks -> [Words -> Blocks \cup Procs \cup {0}]]
      /\ used \subseteq Blocks
  BY DEF DInv, TypeOK
<1>8. 0 \notin Blocks /\ MAXFILE \in Slots /\ k \in Slots /\ k # MAXFILE
  BY SizeAssumption, Places DEF Blocks
<1> HIDE DEF b, fresh
<1>9. PICK at \in 0..NDIRECT, y \in Blocks \cup {0} :
        /\ at = (IF ind THEN NDIRECT ELSE k) /\ y = (IF ind THEN d ELSE a)
        /\ b.inode = [addrs |-> [ip[f].addrs EXCEPT ![at] = y], size |-> ip[f].size]
  <2>1. (IF ind THEN NDIRECT ELSE k) \in 0..NDIRECT
    BY Places
  <2> QED BY <1>6, <2>1
<1>10. /\ ip' \in [Inodes -> [addrs : [0..NDIRECT -> Blocks \cup {0}], size : 0..(MAXFILE * BSIZE)]]
       /\ \A g \in Inodes \ {f} : ip'[g] = ip[g]
       /\ ip'[f].size = ip[f].size
       /\ \A j \in 0..NDIRECT : ip'[f].addrs[j] = IF j = at THEN y ELSE ip[f].addrs[j]
  <2>1. PICK c \in [addrs : [0..NDIRECT -> Blocks \cup {0}], size : 0..(MAXFILE * BSIZE)] :
            /\ c = b.inode /\ c.size = ip[f].size
            /\ \A j \in 0..NDIRECT : c.addrs[j] = IF j = at THEN y ELSE ip[f].addrs[j]
    <3>1. [ip[f].addrs EXCEPT ![at] = y] \in [0..NDIRECT -> Blocks \cup {0}]
      BY <1>7, <1>9
    <3> QED BY <1>7, <1>9, <3>1
  <2> QED BY <1>3, <1>7, <2>1
<1>11. /\ block' \in [Blocks -> [Words -> Blocks \cup Procs \cup {0}]]
       /\ \A x \in Blocks \ {a} : block'[x] = b.block[x]
       /\ \A w \in Words : block'[a][w] = IF w >= o % BSIZE /\ w < (o % BSIZE) + m THEN p
                                          ELSE b.block[a][w]
  <2>1. block' = [b.block EXCEPT ![a] = [w \in Words |->
                        IF w >= o % BSIZE /\ w < (o % BSIZE) + m THEN p ELSE @[w]]]
    BY <1>3, <1>5
  <2> QED BY <1>6, <2>1
<1>12. \A x \in Blocks : x # a /\ x \notin fresh /\ (x # d \/ ~ind) => block'[x] = block[x]
  <2> SUFFICES ASSUME NEW x \in Blocks, x # a, x \notin fresh, x # d \/ ~ind
               PROVE  block'[x] = block[x]
    OBVIOUS
  <2>1. block'[x] = b.block[x] /\ b.block[x] \in [Words -> Blocks \cup Procs \cup {0}]
    BY <1>6, <1>11
  <2>2. \A w \in Words : b.block[x][w] = block[x][w]
    BY <1>6
  <2> QED BY <1>7, <2>1, <2>2
<1>13. \A g \in Inodes : Ptr(g, MAXFILE) = ip[g].addrs[NDIRECT]
  BY DEF Ptr
<1>14. /\ \A g \in Inodes : Ptr(g, MAXFILE) # 0 => Ptr(g, MAXFILE) \in used /\ Ptr(g, MAXFILE) # a
       /\ \A g \in Inodes \ {f} : Ptr(g, MAXFILE) # 0 /\ ind => Ptr(g, MAXFILE) # d
  <2>1. \A g \in Inodes : Ptr(g, MAXFILE) # 0 => Ptr(g, MAXFILE) \in used
    BY <1>8 DEF DInv, OwnInv
  <2>2. ASSUME NEW g \in Inodes, Ptr(g, MAXFILE) # 0 PROVE Ptr(g, MAXFILE) # a
    <3>1. CASE Ptr(f, k) = 0
      BY <1>5, <2>1, <2>2, <3>1
    <3>2. CASE Ptr(f, k) # 0
      BY <1>5, <1>8, <2>2, <3>2 DEF DInv, OwnInv
    <3> QED BY <3>1, <3>2
  <2>3. ASSUME NEW g \in Inodes \ {f}, Ptr(g, MAXFILE) # 0, ind PROVE Ptr(g, MAXFILE) # d
    <3>1. CASE Ptr(f, MAXFILE) = 0
      BY <1>5, <2>1, <2>3, <3>1
    <3>2. CASE Ptr(f, MAXFILE) # 0
      BY <1>5, <1>8, <2>3, <3>2 DEF DInv, OwnInv
    <3> QED BY <3>1, <3>2
  <2> QED BY <2>1, <2>2, <2>3
\* The indirect blocks of other files are not touched.
<1>15. ASSUME NEW g \in Inodes \ {f}, NEW j \in Slots PROVE Ptr(g, j)' = Ptr(g, j)
  <2>1. ip'[g] = ip[g]
    BY <1>10
  <2>2. Ptr(g, MAXFILE) # 0 => block'[Ptr(g, MAXFILE)] = block[Ptr(g, MAXFILE)]
    <3>1. \A x \in used : x \in Blocks /\ x \notin fresh
      BY <1>7 DEF fresh
    <3> QED BY <1>12, <1>14, <3>1
  <2> QED BY <1>13, <2>1, <2>2 DEF Ptr, Data
<1>16. Ptr(f, MAXFILE)' = d
  <2>1. ip'[f].addrs[NDIRECT] = d
    BY <1>5, <1>9, <1>10, <1>13, Places
  <2> QED BY <2>1 DEF Ptr
<1>17. ASSUME NEW j \in 0..(MAXFILE - 1) PROVE Ptr(f, j)' = IF j = k THEN a ELSE Ptr(f, j)
  <2>0. j # MAXFILE /\ Ptr(f, j)' = Data(f, j)' /\ Ptr(f, j) = Data(f, j) /\ j \in Nat
    BY Places DEF Ptr
  <2>1. CASE j < NDIRECT
    <3>1. j \in 0..NDIRECT /\ j # NDIRECT
      BY <2>1, Places
    <3>2. Data(f, j)' = ip'[f].addrs[j] /\ Data(f, j) = ip[f].addrs[j]
      BY <2>1 DEF Data
    <3> QED BY <1>9, <1>10, <2>0, <2>1, <3>1, <3>2
  <2>2. CASE j >= NDIRECT
    <3>0. j - NDIRECT \in Words /\ ~(j < NDIRECT)
      BY <2>0, <2>2, Places
    <3>1. Data(f, j)' = IF d = 0 THEN 0 ELSE block'[d][j - NDIRECT]
      BY <1>16, <3>0 DEF Data, Ptr
    <3>2. Data(f, j) = IF Ptr(f, MAXFILE) = 0 THEN 0 ELSE block[Ptr(f, MAXFILE)][j - NDIRECT]
      BY <1>13, <3>0 DEF Data
    <3>3. CASE ~ind
      <4>1. d = Ptr(f, MAXFILE) /\ j # k
        BY <1>5, <2>2, <3>3
      <4>2. d # 0 => d \in used /\ d # a /\ d \in Blocks /\ d \notin fresh
        BY <1>7, <1>14, <4>1 DEF fresh
      <4>3. d # 0 => block'[d] = block[d]
        BY <1>12, <3>3, <4>2
      <4> QED BY <2>0, <3>1, <3>2, <4>1, <4>3
    <3>4. CASE ind
      <4>1. d \in Blocks /\ d # 0 /\ d # a
        BY <1>5, <1>8, <3>4
      <4>2. block'[d][j - NDIRECT] = IF j - NDIRECT = k - NDIRECT THEN a
                                     ELSE IF d \in fresh THEN 0 ELSE block[d][j - NDIRECT]
        BY <1>6, <1>11, <3>0, <3>4, <4>1
      <4>3. j - NDIRECT = k - NDIRECT <=> j = k
        BY <2>0, Places
      <4>4. IF d \in fresh THEN Ptr(f, MAXFILE) = 0
            ELSE Ptr(f, MAXFILE) = d
        <5>1. CASE Ptr(f, MAXFILE) = 0
          BY <1>5, <3>4, <5>1 DEF fresh
        <5>2. CASE Ptr(f, MAXFILE) # 0
          BY <1>5, <1>14, <5>2 DEF fresh
        <5> QED BY <5>1, <5>2
      <4> QED BY <2>0, <3>1, <3>2, <4>1, <4>2, <4>3, <4>4
    <3> QED BY <3>3, <3>4
  <2> QED BY <2>0, <2>1, <2>2, Places
<1>18. \A g \in Inodes, j \in Slots :
        Ptr(g, j)' = IF g = f /\ j = k THEN a ELSE IF g = f /\ j = MAXFILE THEN d ELSE Ptr(g, j)
  <2>1. \A j \in Slots : j = MAXFILE \/ j \in 0..(MAXFILE - 1)
    BY Places DEF Slots
  <2> QED BY <1>8, <1>15, <1>16, <1>17, <2>1
<1>19. \A x \in used : x # a /\ (x # d \/ k < NDIRECT) => block'[x] = block[x]
  <2>1. \A x \in used : x \in Blocks /\ x \notin fresh
    BY <1>7 DEF fresh
  <2>2. k < NDIRECT => ~ind
    BY Places
  <2> QED BY <1>12, <2>1, <2>2
<1>20. \A w \in Words : block'[a][w] = IF w >= o % BSIZE /\ w < (o % BSIZE) + m THEN p
                                       ELSE IF a \in used THEN block[a][w] ELSE 0
  <2>1. \A w \in Words : b.block[a][w] = IF a \in fresh THEN 0 ELSE block[a][w]
    BY <1>5, <1>6
  <2>2. a \in fresh <=> a \notin used
    BY DEF fresh
  <2> QED BY <1>11, <2>1, <2>2
<1>21. Ptr(f, k) # 0 => ip' = ip
  <2> SUFFICES ASSUME Ptr(f, k) # 0 PROVE ip' = ip
    OBVIOUS
  <2>1. a = Ptr(f, k) /\ d = Ptr(f, MAXFILE)
    BY <1>5
  <2>2. y = ip[f].addrs[at]
    <3>1. CASE ind
      BY <1>9, <1>13, <2>1, <3>1
    <3>2. CASE ~ind
      <4>1. k < NDIRECT /\ Ptr(f, k) = ip[f].addrs[k]
        BY <1>8, <3>2, Places DEF Ptr, Data
      <4> QED BY <1>9, <2>1, <3>2, <4>1
    <3> QED BY <3>1, <3>2
  <2>3. ip'[f].addrs = ip[f].addrs
    <3>1. \A j \in 0..NDIRECT : ip'[f].addrs[j] = ip[f].addrs[j]
      BY <1>10, <2>2
    <3>2. /\ ip'[f].addrs \in [0..NDIRECT -> Blocks \cup {0}]
          /\ ip[f].addrs \in [0..NDIRECT -> Blocks \cup {0}]
      BY <1>7, <1>10
    <3> QED BY <3>1, <3>2, SameAddrs, Zenon
  <2>4. ip'[f] = ip[f]
    BY <1>7, <1>10, <2>3
  <2> QED BY <1>7, <1>10, <2>4
<1>22. reg' = [reg EXCEPT ![p] = [@ EXCEPT !.tot = reg[p].tot + m]]
  BY <1>3 DEF DInv, RegInv
<1>23. \E L : /\ logged' = [logged EXCEPT ![p] = @ \cup L]
              /\ L \subseteq {DBLOCK(a)} \cup (IF Ptr(f, k) = 0 THEN {BBLOCK(a)} ELSE {})
                             \cup IF ind THEN {DBLOCK(d), BBLOCK(d)} ELSE {}
  <2>1. logged' = [logged EXCEPT ![p] = @ \cup (b.log \cup {DBLOCK(a)})]
    BY <1>3, <1>5
  <2>2. b.log \cup {DBLOCK(a)} \subseteq
            {DBLOCK(a)} \cup (IF Ptr(f, k) = 0 THEN {BBLOCK(a)} ELSE {})
            \cup IF ind THEN {DBLOCK(d), BBLOCK(d)} ELSE {}
    BY <1>6
  <2> QED BY <2>1, <2>2
<1>24. \A g \in Inodes : ip'[g].size = ip[g].size
  BY <1>10
<1>25. used' = used \cup (({a} \cup IF k >= NDIRECT THEN {d} ELSE {}) \ used)
  BY <1>3, <1>5 DEF fresh
<1>26. Written(p, f, o, m, k, a, d)
  BY <1>3, <1>10, <1>11, <1>18, <1>19, <1>20, <1>21, <1>22, <1>23, <1>24, <1>25, Zenon DEF Written
<1> QED BY <1>4, <1>26

-----------------------------------------------------------------------------
(* The steps that leave the blocks alone. *)

LEMMA ExtentType ==
    ASSUME DInv, NEW f \in Inodes
    PROVE  /\ Extent(f) \in Nat /\ Extent(f) <= MAXFILE * BSIZE
           /\ ip[f].size \in Nat /\ ip[f].size <= Extent(f)
           /\ lock[f] = None => Extent(f) = ip[f].size
           /\ lock[f] # None =>
                /\ lock[f] \in Procs /\ reg[lock[f]].pc = "block"
                /\ reg[lock[f]].h \in Handles /\ of[reg[lock[f]].h] = f
                /\ off[reg[lock[f]].h] + reg[lock[f]].tot <= Extent(f)
<1>1. ip[f].size \in Nat /\ ip[f].size <= MAXFILE * BSIZE
  <2>1. ip[f].size \in 0..(MAXFILE * BSIZE)
    BY DEF DInv, TypeOK
  <2> QED BY <2>1, Limits
<1>2. CASE lock[f] = None
  BY <1>1, <1>2, Limits DEF Extent
<1>3. CASE lock[f] # None
  <2>1. PICK p \in Procs : p = lock[f] /\ reg[p].pc = "block" /\ of[reg[p].h] = f
    BY <1>3 DEF DInv, TypeOK, LockInv
  <2>2. PICK h \in Handles : h = reg[p].h
    BY <2>1 DEF DInv, RegInv, RegAt
  <2>3. PICK t \in Nat, n \in Nat, s \in Nat : t = reg[p].tot /\ n = reg[p].n1 /\ s = off[h]
    <3>1. reg[p] \in RegType
      BY DEF DInv, RegInv
    <3>2. off[h] \in 0..(MAXFILE * BSIZE)
      BY DEF DInv, TypeOK
    <3> QED BY <3>1, <3>2, Limits DEF RegType
  <2>4. t <= n /\ s + n <= MAXFILE * BSIZE
    BY <2>1, <2>2, <2>3 DEF DInv, RegInv, RegAt
  <2>5. Extent(f) = IF s + t > ip[f].size THEN s + t ELSE ip[f].size
    BY <1>3, <2>1, <2>2, <2>3 DEF Extent
  <2>6. s + t <= MAXFILE * BSIZE
    BY <2>3, <2>4, Limits
  <2> QED BY <1>1, <1>3, <2>1, <2>2, <2>3, <2>5, <2>6, Limits
<1> QED BY <1>2, <1>3

\* The words a file has, or that a chunk under way has written, are in blocks
\* of the file.
LEMMA ExtentHas ==
    ASSUME DInv, NEW f \in Inodes, NEW i \in 0..(Extent(f) - 1)
    PROVE  /\ i \div BSIZE \in 0..(MAXFILE - 1) /\ i \div BSIZE \in Slots
           /\ i \div BSIZE \in Span(0, Extent(f))
           /\ Ptr(f, i \div BSIZE) \in used /\ Ptr(f, i \div BSIZE) # 0
           /\ Ptr(f, i \div BSIZE) = Data(f, i \div BSIZE)
           /\ Ptr(f, i \div BSIZE) \in Blocks
<1>1. Extent(f) \in Nat /\ Extent(f) <= MAXFILE * BSIZE
  BY ExtentType
<1>2. i \div BSIZE \in Span(0, Extent(f))
  BY DEF Span
<1>3. i \div BSIZE \in 0..(MAXFILE - 1)
  BY <1>1, <1>2, SpanLimit
<1>4. PICK k \in 0..(MAXFILE - 1) : k = i \div BSIZE /\ k \in Slots /\ k # MAXFILE
  BY <1>3, Places
<1>5. Ptr(f, k) # 0
  BY <1>2, <1>4 DEF DInv, ExtentInv
<1>6. Ptr(f, k) \in used /\ used \subseteq Blocks
  BY <1>4, <1>5 DEF DInv, OwnInv, TypeOK
<1>7. Ptr(f, k) = Data(f, k)
  BY <1>4 DEF Ptr
<1> QED BY <1>2, <1>4, <1>5, <1>6, <1>7

\* An inode and the blocks it points to are as they were.
LEMMA PtrSame ==
    ASSUME NEW f \in Inodes, block' = block, ip'[f].addrs = ip[f].addrs
    PROVE  /\ \A k : Ptr(f, k)' = Ptr(f, k)
           /\ \A i : Word(f, i)' = Word(f, i)
           /\ \A o, e : Loggable(f, o, e)' = Loggable(f, o, e)
<1>1. \A k : Ptr(f, k)' = Ptr(f, k)
  BY DEF Ptr, Data
<1>2. \A i : Word(f, i)' = Word(f, i)
  BY <1>1 DEF Word
<1>3. ASSUME NEW o, NEW e PROVE Loggable(f, o, e)' = Loggable(f, o, e)
  BY <1>1 DEF Loggable, DBLOCK, BBLOCK, Span, First
<1> QED BY <1>1, <1>2, <1>3

LEMMA OwnSame ==
    ASSUME OwnInv, used' = used, \A f \in Inodes, k \in Slots : Ptr(f, k)' = Ptr(f, k)
    PROVE  OwnInv'
<1>0. Slots' = Slots
  BY DEF Slots, MAXFILE, NINDIRECT
<1>1. \A f \in Inodes, k \in Slots : Ptr(f, k)' \in used' \cup {0}
  BY DEF OwnInv
<1>2. \A f, g \in Inodes, j, k \in Slots :
        Ptr(f, j)' = Ptr(g, k)' /\ Ptr(f, j)' # 0 => f = g /\ j = k
  BY DEF OwnInv
<1>3. \A b \in used' : \E f \in Inodes, k \in Slots : Ptr(f, k)' = b
  BY DEF OwnInv
<1> QED BY <1>0, <1>1, <1>2, <1>3 DEF OwnInv

LEMMA ExtentInvSame ==
    ASSUME DInv, \A f \in Inodes : Extent(f)' = Extent(f),
           \A f \in Inodes, k \in Slots : Ptr(f, k)' = Ptr(f, k)
    PROVE  ExtentInv'
<1> SUFFICES ASSUME NEW f \in Inodes
             PROVE  /\ \A k \in 0..(MAXFILE - 1) : Ptr(f, k)' # 0 <=> k \in Span(0, Extent(f)')
                    /\ Ptr(f, MAXFILE)' # 0 <=> \E k \in Span(0, Extent(f)') : k >= NDIRECT
  BY DEF ExtentInv, Span
<1>1. Extent(f)' = Extent(f)
  OBVIOUS
<1>2. /\ \A k \in 0..(MAXFILE - 1) : Ptr(f, k)' = Ptr(f, k)
      /\ Ptr(f, MAXFILE)' = Ptr(f, MAXFILE)
  BY Places
<1> QED BY <1>1, <1>2 DEF DInv, ExtentInv

LEMMA Types ==
    ASSUME TypeOK
    PROVE  /\ used \subseteq Blocks
           /\ block \in [Blocks -> [Words -> Blocks \cup Procs \cup {0}]]
           /\ ip \in [Inodes -> [addrs : [0..NDIRECT -> Blocks \cup {0}],
                                 size : 0..(MAXFILE * BSIZE)]]
           /\ of \in [Handles -> Inodes \cup {None}]
           /\ off \in [Handles -> 0..(MAXFILE * BSIZE)]
           /\ lock \in [Inodes -> Procs \cup {None}]
BY Zenon DEF TypeOK

\* A step that changes no block and no inode, and moves a process only into or
\* out of a chunk of which nothing is written.
LEMMA Frame ==
    ASSUME DInv, UNCHANGED disk, TypeOK', RegInv', LockInv', OffInv',
           \A f \in Inodes : Extent(f)' = Extent(f),
           logged' = [p \in Procs |-> logged'[p]],
           \A p \in Procs : reg'[p].pc = "block" =>
                \/ reg'[p].tot = 0 /\ logged'[p] = {}
                \/ /\ reg'[p] = reg[p] /\ logged'[p] = logged[p]
                   /\ of'[reg[p].h] = of[reg[p].h] /\ off'[reg[p].h] = off[reg[p].h]
    PROVE  DInv'
<1>1. used' = used /\ block' = block /\ ip' = ip /\ dinode' = dinode
  BY DEF disk
<1>2. \A f \in Inodes : /\ \A k : Ptr(f, k)' = Ptr(f, k)
                        /\ \A i : Word(f, i)' = Word(f, i)
                        /\ \A o, e : Loggable(f, o, e)' = Loggable(f, o, e)
  BY <1>1, PtrSame
<1>3. OwnInv'
  BY <1>1, <1>2, OwnSame DEF DInv
<1>4. ExtentInv'
  BY <1>2, ExtentInvSame
<1>5. DiskInv'
  BY <1>1 DEF DInv, DiskInv
<1>6. ASSUME NEW p \in Procs, reg'[p].pc = "block"
      PROVE  /\ of'[reg'[p].h] \in Inodes /\ reg'[p].h \in Handles
             /\ off'[reg'[p].h] \in Nat
  <2>1. reg'[p].h \in Handles /\ of'[reg'[p].h] \in Inodes
    BY <1>6 DEF RegInv, RegAt
  <2>2. off' \in [Handles -> 0..(MAXFILE * BSIZE)]
    BY Zenon DEF TypeOK
  <2> QED BY <2>1, <2>2, Limits
<1>7. LogInv'
  <2> SUFFICES ASSUME NEW p \in Procs, reg'[p].pc = "block"
               PROVE  logged'[p] \subseteq
                        Loggable(of[reg[p].h], off[reg[p].h], off[reg[p].h] + reg[p].tot)'
    BY DEF LogInv
  <2>1. CASE logged'[p] = {}
    BY <2>1
  <2>2. CASE /\ reg'[p] = reg[p] /\ logged'[p] = logged[p]
             /\ of'[reg[p].h] = of[reg[p].h] /\ off'[reg[p].h] = off[reg[p].h]
    <3>1. logged[p] \subseteq Loggable(of[reg[p].h], off[reg[p].h], off[reg[p].h] + reg[p].tot)
      BY <2>2 DEF DInv, LogInv
    <3>2. of[reg[p].h] \in Inodes
      BY <1>6, <2>2
    <3>3. Loggable(of[reg[p].h], off[reg[p].h], off[reg[p].h] + reg[p].tot)'
            = Loggable(of[reg[p].h], off[reg[p].h], off[reg[p].h] + reg[p].tot)
      <4>g. PICK g : g = of[reg[p].h]
        OBVIOUS
      <4>o. PICK o : o = off[reg[p].h]
        OBVIOUS
      <4>e. PICK e : e = o + reg[p].tot
        OBVIOUS
      <4>1. /\ of'[reg'[p].h] = g /\ off'[reg'[p].h] = o
            /\ off'[reg'[p].h] + reg'[p].tot = e
        BY <1>2, <2>2, <3>2, <4>g, <4>o, <4>e
      <4>2. \A k : Ptr(g, k)' = Ptr(g, k)
        BY <1>2, <2>2, <3>2, <4>g
      <4>3. Loggable(of[reg[p].h], off[reg[p].h], off[reg[p].h] + reg[p].tot)' = Loggable(g, o, e)
        BY ONLY <4>1, <4>2 DEF Loggable, DBLOCK, BBLOCK, Span, First
      <4> QED BY ONLY <4>g, <4>o, <4>e, <4>3
    <3> QED BY <2>2, <3>1, <3>3
  <2> QED BY <2>1, <2>2
<1>8. TextInv'
  <2> SUFFICES ASSUME NEW p \in Procs, reg'[p].pc = "block",
                      NEW i \in off'[reg'[p].h]..(off'[reg'[p].h] + reg'[p].tot - 1)
               PROVE  Word(of[reg[p].h], i)' = p
    BY DEF TextInv
  <2>1. CASE reg'[p].tot = 0
    BY <1>6, <2>1
  <2>2. CASE /\ reg'[p] = reg[p]
             /\ of'[reg[p].h] = of[reg[p].h] /\ off'[reg[p].h] = off[reg[p].h]
    <3>1. of[reg[p].h] \in Inodes /\ Word(of[reg[p].h], i) = p
      BY <1>6, <2>2 DEF DInv, TextInv
    <3>2. Word(of[reg[p].h], i)' = Word(of[reg[p].h], i)
      BY <1>2, <2>2, <3>1 DEF Word
    <3> QED BY <3>1, <3>2
  <2> QED BY <2>1, <2>2
<1>9. dinode' = [f \in Inodes |-> dinode'[f]]
  BY <1>1 DEF DInv
<1> QED BY <1>3, <1>4, <1>5, <1>7, <1>8, <1>9 DEF DInv

\* A step that changes no more than open files that no chunk is under way on.
LEMMA Quiet ==
    ASSUME DInv, UNCHANGED <<disk, lock, reg, logged>>, TypeOK', OffInv',
           \A p \in Procs : reg[p].pc # "idle" => of'[reg[p].h] = of[reg[p].h],
           \A p \in Procs : reg[p].pc = "block" => off'[reg[p].h] = off[reg[p].h]
    PROVE  DInv'
<1>1. lock' = lock /\ reg' = reg /\ logged' = logged /\ ip' = ip
  BY DEF disk
<1>2. RegInv'
  <2>1. reg' \in [Procs -> RegType]
    BY <1>1 DEF DInv, RegInv
  <2>2. ASSUME NEW p \in Procs PROVE RegAt(p)'
    <3>1. RegAt(p)
      BY DEF DInv, RegInv
    <3> QED BY <1>1, <3>1 DEF RegAt, max
  <2>3. RegType' = RegType
    BY DEF RegType
  <2> QED BY <2>1, <2>2, <2>3 DEF RegInv
<1>3. ASSUME NEW f \in Inodes, lock[f] # None
      PROVE  /\ lock[f] \in Procs /\ reg[lock[f]].pc = "block"
             /\ of'[reg[lock[f]].h] = of[reg[lock[f]].h]
             /\ off'[reg[lock[f]].h] = off[reg[lock[f]].h]
             /\ of[reg[lock[f]].h] = f
  <2>1. lock[f] \in Procs /\ reg[lock[f]].pc = "block" /\ of[reg[lock[f]].h] = f
    BY <1>3, ExtentType
  <2> QED BY <2>1
<1>4. LockInv'
  BY <1>1, <1>3 DEF LockInv
<1>5. \A f \in Inodes : Extent(f)' = Extent(f)
  BY <1>1, <1>3 DEF Extent
<1>6. logged' = [p \in Procs |-> logged'[p]]
  BY <1>1 DEF DInv, LogInv
<1> QED BY <1>1, <1>2, <1>4, <1>5, <1>6, Frame

LEMMA InitDInv ==
    ASSUME Init
    PROVE  DInv
<1>1. /\ used = {} /\ block = [b \in Blocks |-> [w \in Words |-> 0]]
      /\ ip = [f \in Inodes |-> NewInode] /\ dinode = ip
      /\ of = [h \in Handles |-> None] /\ off = [h \in Handles |-> 0]
      /\ lock = [f \in Inodes |-> None]
      /\ reg = [p \in Procs |-> Idle] /\ logged = [p \in Procs |-> {}]
  BY Zenon DEF Init
<1>2. TypeOK
  <2>1. used \subseteq Blocks /\ block \in [Blocks -> [Words -> Blocks \cup Procs \cup {0}]]
    BY <1>1
  <2>2. ip \in [Inodes -> [addrs : [0..NDIRECT -> Blocks \cup {0}], size : 0..(MAXFILE * BSIZE)]]
    BY <1>1, Limits DEF NewInode
  <2>3. /\ of \in [Handles -> Inodes \cup {None}] /\ off \in [Handles -> 0..(MAXFILE * BSIZE)]
        /\ lock \in [Inodes -> Procs \cup {None}]
    BY <1>1, Limits
  <2>4. panicked = ""
    BY Zenon DEF Init
  <2> QED BY <2>1, <2>2, <2>3, <2>4, Zenon DEF TypeOK
<1>3. RegInv
  BY <1>1 DEF RegInv, RegAt, RegType, Idle
<1>4. LockInv /\ OffInv
  BY <1>1 DEF LockInv, OffInv
<1>5. \A f \in Inodes, k \in Slots : Ptr(f, k) = 0
  <2> SUFFICES ASSUME NEW f \in Inodes, NEW k \in Slots PROVE Ptr(f, k) = 0
    OBVIOUS
  <2>1. \A j \in 0..NDIRECT : ip[f].addrs[j] = 0
    BY <1>1 DEF NewInode
  <2>2. k \in Nat /\ (k < NDIRECT => k \in 0..NDIRECT)
    BY Places DEF Slots
  <2> QED BY <2>1, <2>2, Places DEF Ptr, Data
<1>6. OwnInv
  BY <1>1, <1>5 DEF OwnInv
<1>7. \A f \in Inodes : Extent(f) = 0
  BY <1>1 DEF Extent, NewInode
<1>8. Span(0, 0) = {}
  BY DEF Span
<1>9. ExtentInv
  <2> SUFFICES ASSUME NEW f \in Inodes
               PROVE  /\ \A k \in 0..(MAXFILE - 1) : ~(Ptr(f, k) # 0)
                      /\ ~(Ptr(f, MAXFILE) # 0)
    BY <1>7, <1>8 DEF ExtentInv
  <2> QED BY <1>5, Places
<1>10. DiskInv /\ dinode = [f \in Inodes |-> dinode[f]]
  BY <1>1 DEF DiskInv
<1>11. LogInv /\ TextInv
  BY <1>1 DEF LogInv, TextInv, Idle
<1> QED BY <1>2, <1>3, <1>4, <1>6, <1>9, <1>10, <1>11 DEF DInv

LEMMA OpenDInv ==
    ASSUME DInv, NEW h \in Handles, NEW f \in Inodes, Open(h, f)
    PROVE  DInv'
<1>1. /\ of[h] = None /\ of' = [of EXCEPT ![h] = f] /\ off' = [off EXCEPT ![h] = 0]
      /\ UNCHANGED <<disk, lock, reg, logged, panicked>>
  BY Zenon DEF Open
<1>2. /\ of \in [Handles -> Inodes \cup {None}] /\ off \in [Handles -> 0..(MAXFILE * BSIZE)]
      /\ used' = used /\ block' = block /\ ip' = ip
      /\ \A g \in Inodes : ip[g].size \in 0..(MAXFILE * BSIZE)
  BY <1>1, Types DEF DInv, disk
<1>3. of' \in [Handles -> Inodes \cup {None}] /\ off' \in [Handles -> 0..(MAXFILE * BSIZE)]
  BY <1>1, <1>2, Limits
<1>4. TypeOK'
  BY <1>1, <1>2, <1>3, Zenon DEF DInv, TypeOK
<1>5. OffInv'
  <2> SUFFICES ASSUME NEW x \in Handles, of'[x] # None PROVE off'[x] <= ip'[of'[x]].size
    BY DEF OffInv
  <2>1. CASE x = h
    BY <1>1, <1>2, <2>1, Limits
  <2>2. CASE x # h
    BY <1>1, <1>2, <2>2 DEF DInv, OffInv
  <2> QED BY <2>1, <2>2
<1>6. ASSUME NEW p \in Procs, reg[p].pc # "idle"
      PROVE  of'[reg[p].h] = of[reg[p].h] /\ off'[reg[p].h] = off[reg[p].h]
  <2>1. reg[p].h \in Handles /\ of[reg[p].h] \in Inodes
    BY <1>6 DEF DInv, RegInv, RegAt
  <2>2. reg[p].h # h
    BY <1>1, <2>1, NoneAssumption
  <2> QED BY <1>1, <1>2, <2>1, <2>2
<1> QED BY <1>1, <1>4, <1>5, <1>6, Quiet

LEMMA CloseDInv ==
    ASSUME DInv, NEW h \in Handles, Close(h)
    PROVE  DInv'
<1>1. /\ ~Busy(h) /\ of' = [of EXCEPT ![h] = None] /\ off' = [off EXCEPT ![h] = 0]
      /\ UNCHANGED <<disk, lock, reg, logged, panicked>>
  BY Zenon DEF Close
<1>2. /\ of \in [Handles -> Inodes \cup {None}] /\ off \in [Handles -> 0..(MAXFILE * BSIZE)]
      /\ used' = used /\ block' = block /\ ip' = ip
  BY <1>1, Types DEF DInv, disk
<1>3. of' \in [Handles -> Inodes \cup {None}] /\ off' \in [Handles -> 0..(MAXFILE * BSIZE)]
  BY <1>1, <1>2, Limits
<1>4. TypeOK'
  BY <1>1, <1>2, <1>3, Zenon DEF DInv, TypeOK
<1>5. OffInv'
  BY <1>1, <1>2 DEF DInv, OffInv
<1>6. ASSUME NEW p \in Procs, reg[p].pc # "idle"
      PROVE  of'[reg[p].h] = of[reg[p].h] /\ off'[reg[p].h] = off[reg[p].h]
  <2>1. reg[p].h \in Handles /\ reg[p].h # h
    BY <1>1, <1>6 DEF DInv, RegInv, RegAt, Busy
  <2> QED BY <1>1, <1>2, <2>1
<1> QED BY <1>1, <1>4, <1>5, <1>6, Quiet

\* What fileread does: it reads m words of file f from the o-th on.
Reads(h, n, f, m, o) ==
    /\ f = of[h] /\ o = off[h] /\ lock[f] = None
    /\ m = Min({n, ip[f].size - off[h]}) /\ o + m <= ip[f].size
    /\ m = 0 => o = ip[f].size
    /\ \A k \in 1..m : /\ o + k - 1 \in 0..(Extent(f) - 1)
                       /\ Data(f, (off[h] + k - 1) \div BSIZE) \in Blocks
    /\ got' = [k \in 1..m |-> block[Data(f, (off[h] + k - 1) \div BSIZE)]
                                   [(off[h] + k - 1) % BSIZE]]
    /\ off' = [off EXCEPT ![h] = @ + m]
    /\ UNCHANGED <<disk, of, lock, reg, logged, panicked>>

\* readi meets no block that is not there: the words it reads are in the file.
LEMMA ReadFacts ==
    ASSUME DInv, NEW h \in Handles, NEW n \in Sizes, fileread(h, n)
    PROVE  \E f \in Inodes, m \in Nat, o \in Nat : Reads(h, n, f, m, o)
<1>1. of[h] # None /\ lock[of[h]] = None
  BY Zenon DEF fileread
<1>2. PICK f \in Inodes : f = of[h] /\ lock[f] = None
  BY <1>1, Types DEF DInv
<1>3. PICK o \in Nat, z \in Nat : o = off[h] /\ z = ip[f].size /\ o <= z
  <2>1. off[h] \in 0..(MAXFILE * BSIZE) /\ ip[f].size \in 0..(MAXFILE * BSIZE)
    BY Types DEF DInv
  <2>2. off[h] <= ip[f].size
    BY <1>1, <1>2 DEF DInv, OffInv
  <2> QED BY <2>1, <2>2, Limits
<1>4. PICK m \in Nat : m = Min({n, z - o}) /\ o + m <= z /\ (m = 0 => o = z)
  <2>1. n \in Nat /\ n > 0 /\ z - o \in Nat
    BY <1>3, SizeAssumption
  <2>2. Min({n, z - o}) = IF n <= z - o THEN n ELSE z - o
    BY <2>1, MinOfTwo
  <2> QED BY <1>3, <2>1, <2>2
<1>5. Extent(f) = z
  BY <1>2, <1>3, ExtentType
<1>6. ASSUME NEW k \in 1..m
      PROVE  /\ o + k - 1 \in 0..(Extent(f) - 1)
             /\ Data(f, (off[h] + k - 1) \div BSIZE) \in Blocks
  <2>1. o + k - 1 \in 0..(Extent(f) - 1)
    BY <1>4, <1>5
  <2> QED BY <1>3, <2>1, ExtentHas
<1>7. /\ got' = [k \in 1..m |-> block[Data(f, (off[h] + k - 1) \div BSIZE)]
                                     [(off[h] + k - 1) % BSIZE]]
      /\ off' = [off EXCEPT ![h] = @ + m]
      /\ UNCHANGED <<disk, of, lock, reg, logged, panicked>>
  <2>1. m = Min({n, ip[of[h]].size - off[h]}) /\ f = of[h]
    BY <1>2, <1>3, <1>4
  <2>2. ~ \E k \in 1..m : Data(f, (off[h] + k - 1) \div BSIZE) \notin Blocks
    BY <1>6
  <2> QED BY <2>1, <2>2, Zenon DEF fileread
<1>8. Reads(h, n, f, m, o)
  BY <1>2, <1>3, <1>4, <1>6, <1>7 DEF Reads
<1> QED BY <1>8

LEMMA ReadDInv ==
    ASSUME DInv, NEW h \in Handles, NEW n \in Sizes, fileread(h, n)
    PROVE  DInv'
<1>0. PICK f \in Inodes, m \in Nat, o \in Nat : Reads(h, n, f, m, o)
  BY ReadFacts
<1>1. /\ f = of[h] /\ o = off[h] /\ lock[f] = None /\ o + m <= ip[f].size
      /\ off' = [off EXCEPT ![h] = @ + m]
      /\ UNCHANGED <<disk, of, lock, reg, logged, panicked>>
  BY <1>0 DEF Reads
<1>2. /\ of \in [Handles -> Inodes \cup {None}] /\ off \in [Handles -> 0..(MAXFILE * BSIZE)]
      /\ used' = used /\ block' = block /\ ip' = ip
      /\ ip[f].size \in 0..(MAXFILE * BSIZE)
  BY <1>1, Types DEF DInv, disk
<1>3. off' \in [Handles -> 0..(MAXFILE * BSIZE)]
  <2>1. o + m \in 0..(MAXFILE * BSIZE)
    BY <1>1, <1>2, Limits
  <2> QED BY <1>1, <1>2, <2>1
<1>4. TypeOK'
  BY <1>1, <1>2, <1>3, Zenon DEF DInv, TypeOK
<1>5. OffInv'
  BY <1>1, <1>2 DEF DInv, OffInv
<1>6. ASSUME NEW p \in Procs, reg[p].pc = "block" PROVE off'[reg[p].h] = off[reg[p].h]
  <2>1. reg[p].h \in Handles /\ lock[of[reg[p].h]] = p
    BY <1>6 DEF DInv, RegInv, RegAt
  <2>2. reg[p].h # h
    BY <1>1, <2>1, NoneAssumption
  <2> QED BY <1>1, <1>2, <2>1, <2>2
<1> QED BY <1>1, <1>4, <1>5, <1>6, Quiet

\* The blocks of words that a chunk may write.
LEMMA MaxFacts ==
    \E K \in Nat : /\ max = K * BSIZE /\ max \in Nat /\ max > 0
                   /\ K >= 1 /\ 2 * K + 4 <= MAXOPBLOCKS
<1>1. PICK M \in Nat : M = MAXOPBLOCKS - 1 - 1 - 2 /\ M >= 2 /\ M + 4 = MAXOPBLOCKS
  BY SizeAssumption
<1>2. PICK K \in Nat : K = M \div 2 /\ 2 * K <= M /\ K >= 1
  BY <1>1
<1>3. PICK P \in Nat : P = BSIZE /\ P > 0
  BY SizeAssumption
<1>4. K * P \in Nat /\ K * P > 0
  BY <1>2, <1>3
<1>5. max = K * P
  BY <1>1, <1>2, <1>3 DEF max
<1> QED BY <1>1, <1>2, <1>3, <1>4, <1>5

\* A process that goes from or to a place outside the chunks.
LEMMA MoveDInv ==
    ASSUME DInv, NEW p \in Procs, NEW r \in RegType, reg' = [reg EXCEPT ![p] = r],
           reg[p].pc # "block", r.pc # "block", r.pc = "idle" => r.h = None,
           r.pc # "idle" => r.h \in Handles /\ of[r.h] \in Inodes /\ r.left > 0,
           UNCHANGED <<disk, of, off, lock, logged, panicked>>
    PROVE  DInv'
<1>1. used' = used /\ block' = block /\ ip' = ip
  BY DEF disk
<1>2. TypeOK'
  BY <1>1, Zenon DEF DInv, TypeOK
<1>3. /\ reg' \in [Procs -> RegType] /\ reg'[p] = r
      /\ \A q \in Procs \ {p} : reg'[q] = reg[q]
  BY DEF DInv, RegInv
<1>4. RegInv'
  <2>1. ASSUME NEW q \in Procs PROVE RegAt(q)'
    <3>1. CASE q = p
      BY <1>3, <3>1 DEF RegAt
    <3>2. CASE q # p
      <4>1. RegAt(q)
        BY DEF DInv, RegInv
      <4> QED BY <1>3, <3>2, <4>1 DEF RegAt, max
    <3> QED BY <3>1, <3>2
  <2>2. RegType' = RegType
    BY DEF RegType
  <2> QED BY <1>3, <2>1, <2>2 DEF RegInv
<1>5. ASSUME NEW f \in Inodes, lock[f] # None PROVE reg'[lock[f]] = reg[lock[f]]
  <2>1. lock[f] \in Procs /\ reg[lock[f]].pc = "block"
    BY <1>5, ExtentType
  <2> QED BY <1>3, <2>1
<1>6. LockInv' /\ OffInv'
  BY <1>1, <1>5 DEF DInv, LockInv, OffInv
<1>7. \A f \in Inodes : Extent(f)' = Extent(f)
  BY <1>1, <1>5 DEF Extent
<1>8. logged' = [q \in Procs |-> logged'[q]]
  BY DEF DInv, LogInv
<1>9. \A q \in Procs : reg'[q].pc = "block" =>
                /\ reg'[q] = reg[q] /\ logged'[q] = logged[q]
                /\ of'[reg[q].h] = of[reg[q].h] /\ off'[reg[q].h] = off[reg[q].h]
  BY <1>3
<1> QED BY <1>2, <1>4, <1>6, <1>7, <1>8, <1>9, Frame

LEMMA FilewriteDInv ==
    ASSUME DInv, NEW p \in Procs, NEW h \in Handles, NEW n \in Sizes, filewrite(p, h, n)
    PROVE  DInv'
<1> DEFINE r == [Idle EXCEPT !.pc = "chunk", !.h = h, !.left = n]
<1>1. /\ reg[p].pc = "idle" /\ of[h] # None
      /\ reg' = [reg EXCEPT ![p] = [Idle EXCEPT !.pc = "chunk", !.h = h, !.left = n]]
      /\ UNCHANGED <<disk, of, off, lock, logged, panicked>>
  BY Zenon DEF filewrite
<1>2. r \in RegType /\ r.pc = "chunk" /\ r.h = h /\ r.left = n /\ n > 0
  <2>1. n \in Nat /\ n > 0
    BY SizeAssumption
  <2>2. Idle \in RegType
    BY DEF Idle, RegType
  <2>3. r.pc = "chunk" /\ r.h = h /\ r.left = n
    BY DEF Idle
  <2> QED BY <2>1, <2>2, <2>3 DEF RegType
<1>3. reg' = [reg EXCEPT ![p] = r]
  BY <1>1
<1>4. of[h] \in Inodes
  BY <1>1, Types DEF DInv
<1> HIDE DEF r
<1> QED BY <1>1, <1>2, <1>3, <1>4, MoveDInv

\* What WriteBegin does: the write fails, or process p begins a chunk of n1
\* words, with nothing written.
Begins(p, h, f, n1) ==
    /\ reg[p].pc = "chunk" /\ h = reg[p].h /\ f = of[h] /\ lock[f] = None
    /\ n1 > 0 /\ n1 <= max /\ n1 <= reg[p].left /\ reg[p].left > 0
    /\ UNCHANGED <<disk, of, off, panicked>>
    /\ \/ reg' = [reg EXCEPT ![p] = Idle] /\ UNCHANGED <<lock, logged>>
       \/ /\ ~(off[h] > ip[f].size \/ off[h] + n1 > MAXFILE * BSIZE)
          /\ reg' = [reg EXCEPT ![p].pc = "block", ![p].n1 = n1, ![p].tot = 0]
          /\ lock' = [lock EXCEPT ![f] = p]
          /\ logged' = [logged EXCEPT ![p] = {}]
    /\ got' = <<>>

LEMMA BeginFacts ==
    ASSUME DInv, NEW p \in Procs, WriteBegin(p)
    PROVE  \E h \in Handles, f \in Inodes, n1 \in Nat : Begins(p, h, f, n1)
<1>1. reg[p].pc = "chunk" /\ lock[of[reg[p].h]] = None
  BY Zenon DEF WriteBegin
<1>2. PICK h \in Handles, f \in Inodes : h = reg[p].h /\ f = of[h] /\ reg[p].left > 0
  BY <1>1 DEF DInv, RegInv, RegAt
<1>3. PICK n1 \in Nat : n1 = Min({reg[p].left, max}) /\ n1 > 0 /\ n1 <= max /\ n1 <= reg[p].left
  <2>1. reg[p].left \in Nat /\ max \in Nat /\ max > 0
    BY MaxFacts DEF DInv, RegInv, RegType
  <2>2. Min({reg[p].left, max}) = IF reg[p].left <= max THEN reg[p].left ELSE max
    BY <2>1, MinOfTwo
  <2> QED BY <1>2, <2>1, <2>2
<1>4. UNCHANGED <<disk, of, off, panicked>> /\ got' = <<>>
  BY Zenon DEF WriteBegin
<1>5. \/ reg' = [reg EXCEPT ![p] = Idle] /\ UNCHANGED <<lock, logged>>
      \/ /\ ~(off[h] > ip[f].size \/ off[h] + n1 > MAXFILE * BSIZE)
         /\ reg' = [reg EXCEPT ![p].pc = "block", ![p].n1 = n1, ![p].tot = 0]
         /\ lock' = [lock EXCEPT ![f] = p]
         /\ logged' = [logged EXCEPT ![p] = {}]
  BY <1>2, <1>3, Zenon DEF WriteBegin
<1>6. Begins(p, h, f, n1)
  BY <1>1, <1>2, <1>3, <1>4, <1>5 DEF Begins
<1> QED BY <1>6

LEMMA BeginDInv ==
    ASSUME DInv, NEW p \in Procs, WriteBegin(p)
    PROVE  DInv'
<1>0. PICK h \in Handles, f \in Inodes, n1 \in Nat : Begins(p, h, f, n1)
  BY BeginFacts
<1>1. reg[p].pc = "chunk" /\ lock[of[reg[p].h]] = None
  BY <1>0 DEF Begins
<1>2. h = reg[p].h /\ f = of[h] /\ reg[p].left > 0
  BY <1>0 DEF Begins
<1>3. n1 > 0 /\ n1 <= max /\ n1 <= reg[p].left
  BY <1>0 DEF Begins
<1>4. UNCHANGED <<disk, of, off, panicked>>
  BY <1>0 DEF Begins
<1>5. CASE reg' = [reg EXCEPT ![p] = Idle] /\ UNCHANGED <<lock, logged>>
  <2>1. Idle \in RegType /\ Idle.pc = "idle" /\ Idle.h = None
    BY DEF Idle, RegType
  <2> QED BY <1>1, <1>4, <1>5, <2>1, MoveDInv
<1>6. CASE /\ ~(off[h] > ip[f].size \/ off[h] + n1 > MAXFILE * BSIZE)
           /\ reg' = [reg EXCEPT ![p].pc = "block", ![p].n1 = n1, ![p].tot = 0]
           /\ lock' = [lock EXCEPT ![f] = p]
           /\ logged' = [logged EXCEPT ![p] = {}]
  <2>1. used' = used /\ block' = block /\ ip' = ip /\ of' = of /\ off' = off
        /\ lock \in [Inodes -> Procs \cup {None}] /\ off[h] \in Nat
        /\ p # None /\ logged = [q \in Procs |-> logged[q]]
        /\ reg \in [Procs -> RegType] /\ ip[f].size \in Nat
    <3>1. off[h] \in 0..(MAXFILE * BSIZE)
      BY Types DEF DInv
    <3> QED BY <1>4, <3>1, Types, Limits, ExtentType, NoneAssumption DEF DInv, disk, RegInv, LogInv
  <2>2. off[h] <= ip[f].size /\ off[h] + n1 <= MAXFILE * BSIZE
    BY <1>6, <2>1, Limits
  <2>3. lock' \in [Inodes -> Procs \cup {None}]
    BY <1>6, <2>1
  <2>4. TypeOK'
    BY <1>4, <2>1, <2>3, Zenon DEF DInv, TypeOK
  <2>5. /\ reg'[p].pc = "block" /\ reg'[p].h = h /\ reg'[p].left = reg[p].left
        /\ reg'[p].n1 = n1 /\ reg'[p].tot = 0
        /\ reg' \in [Procs -> RegType]
        /\ \A q \in Procs \ {p} : reg'[q] = reg[q]
    <3>1. reg[p] \in RegType
      BY <2>1
    <3>2. /\ reg'[p].pc = "block" /\ reg'[p].h = reg[p].h /\ reg'[p].left = reg[p].left
          /\ reg'[p].n1 = n1 /\ reg'[p].tot = 0 /\ reg'[p] \in RegType
      BY <1>6, <2>1, <3>1 DEF RegType
    <3> QED BY <1>2, <1>6, <2>1, <3>2
  <2>6. \A q \in Procs \ {p} : reg[q].pc = "block" => of[reg[q].h] # f
    BY <1>1, <1>2, NoneAssumption DEF DInv, RegInv, RegAt
  <2>7. RegInv'
    <3>1. ASSUME NEW q \in Procs PROVE RegAt(q)'
      <4>1. CASE q = p
        BY <1>2, <1>3, <1>6, <2>1, <2>2, <2>5, <4>1 DEF RegAt, max
      <4>2. CASE q # p
        <5>1. RegAt(q)
          BY DEF DInv, RegInv
        <5> QED BY <1>6, <2>1, <2>5, <2>6, <4>2, <5>1 DEF RegAt, max
      <4> QED BY <4>1, <4>2
    <3>2. RegType' = RegType
      BY DEF RegType
    <3> QED BY <2>5, <3>1, <3>2 DEF RegInv
  <2>8. ASSUME NEW g \in Inodes, g # f, lock[g] # None
        PROVE  lock'[g] = lock[g] /\ reg'[lock[g]] = reg[lock[g]] /\ of[reg[lock[g]].h] = g
               /\ reg[lock[g]].pc = "block"
    <3>1. lock[g] \in Procs /\ reg[lock[g]].pc = "block" /\ of[reg[lock[g]].h] = g
      BY <2>8, ExtentType
    <3> QED BY <1>1, <1>6, <2>1, <2>5, <2>8, <3>1
  <2>9. LockInv'
    <3> SUFFICES ASSUME NEW g \in Inodes, lock'[g] # None
                 PROVE  reg'[lock'[g]].pc = "block" /\ of'[reg'[lock'[g]].h] = g
      BY DEF LockInv
    <3>1. CASE g = f
      BY <1>2, <1>6, <2>1, <2>5, <3>1
    <3>2. CASE g # f
      BY <1>6, <2>1, <2>8, <3>2
    <3> QED BY <3>1, <3>2
  <2>10. OffInv'
    BY <2>1 DEF DInv, OffInv
  <2>11. ASSUME NEW g \in Inodes PROVE Extent(g)' = Extent(g)
    <3>1. CASE g = f
      <4>1. Extent(f)' = IF off[h] + 0 > ip[f].size THEN off[h] + 0 ELSE ip[f].size
        <5>1. lock'[f] = p /\ p # None
          BY <1>6, <2>1
        <5>2. off'[reg'[p].h] = off[h] /\ reg'[p].tot = 0 /\ ip'[f].size = ip[f].size
          BY <2>1, <2>5
        <5> QED BY <5>1, <5>2 DEF Extent
      <4>2. Extent(f) = ip[f].size
        BY <1>1, <1>2 DEF Extent
      <4> QED BY <2>1, <2>2, <3>1, <4>1, <4>2
    <3>2. CASE g # f
      <4>1. lock'[g] = lock[g]
        BY <1>6, <2>1, <3>2
      <4> QED BY <2>1, <2>8, <3>2, <4>1 DEF Extent
    <3> QED BY <3>1, <3>2
  <2>12. /\ logged' = [q \in Procs |-> logged'[q]]
         /\ \A q \in Procs : logged'[q] = IF q = p THEN {} ELSE logged[q]
    BY <1>6, <2>1
  <2>13. \A q \in Procs : reg'[q].pc = "block" =>
                \/ reg'[q].tot = 0 /\ logged'[q] = {}
                \/ /\ reg'[q] = reg[q] /\ logged'[q] = logged[q]
                   /\ of'[reg[q].h] = of[reg[q].h] /\ off'[reg[q].h] = off[reg[q].h]
    BY <2>1, <2>5, <2>12
  <2> QED BY <1>4, <2>4, <2>7, <2>9, <2>10, <2>11, <2>12, <2>13, Frame
<1>7. \/ reg' = [reg EXCEPT ![p] = Idle] /\ UNCHANGED <<lock, logged>>
      \/ /\ ~(off[h] > ip[f].size \/ off[h] + n1 > MAXFILE * BSIZE)
         /\ reg' = [reg EXCEPT ![p].pc = "block", ![p].n1 = n1, ![p].tot = 0]
         /\ lock' = [lock EXCEPT ![f] = p]
         /\ logged' = [logged EXCEPT ![p] = {}]
  BY <1>0 DEF Begins
<1> QED BY <1>5, <1>6, <1>7

\* What WriteEnd does: file f then has the words that the chunk has written,
\* the inode on disk is the one in memory and its lock is free.
Ends(p, h, f, o) ==
    /\ h = reg[p].h /\ f = of[h] /\ lock[f] = p /\ reg[p].pc = "block"
    /\ o = off[h] + reg[p].tot /\ reg[p].tot = reg[p].n1 /\ o <= MAXFILE * BSIZE
    /\ Extent(f) = IF o > ip[f].size THEN o ELSE ip[f].size
    /\ ip' \in [Inodes -> [addrs : [0..NDIRECT -> Blocks \cup {0}], size : 0..(MAXFILE * BSIZE)]]
    /\ \A g \in Inodes : ip'[g].addrs = ip[g].addrs
    /\ ip'[f].size = Extent(f) /\ dinode'[f] = ip'[f]
    /\ \A g \in Inodes \ {f} : ip'[g] = ip[g] /\ dinode'[g] = dinode[g]
    /\ dinode' = [g \in Inodes |-> dinode'[g]]
    /\ logged' = [logged EXCEPT ![p] = {}]
    /\ off' = [off EXCEPT ![h] = o]
    /\ lock' = [lock EXCEPT ![f] = None]
    /\ reg' \in [Procs -> RegType]
    /\ reg'[p].pc # "block"
    /\ reg'[p].pc = "idle" => reg'[p].h = None
    /\ reg'[p].pc # "idle" => reg'[p].h = h /\ reg'[p].left > 0
    /\ \A q \in Procs \ {p} : reg'[q] = reg[q]
    /\ UNCHANGED <<used, block, of, panicked>> /\ got' = <<>>

LEMMA EndFacts ==
    ASSUME DInv, NEW p \in Procs, WriteEnd(p)
    PROVE  \E h \in Handles, f \in Inodes, o \in Nat : Ends(p, h, f, o)
<1>1. reg[p].pc = "block" /\ reg[p].tot = reg[p].n1
  BY Zenon DEF WriteEnd
<1>2. PICK h \in Handles, f \in Inodes : h = reg[p].h /\ f = of[h] /\ lock[f] = p
  BY <1>1 DEF DInv, RegInv, RegAt
<1>3. PICK t \in Nat, n \in Nat, s \in Nat, z \in Nat, l \in Nat :
        t = reg[p].tot /\ n = reg[p].n1 /\ s = off[h] /\ z = ip[f].size /\ l = reg[p].left
  <2>1. reg[p] \in RegType
    BY DEF DInv, RegInv
  <2>2. off[h] \in 0..(MAXFILE * BSIZE) /\ ip[f].size \in 0..(MAXFILE * BSIZE)
    BY Types DEF DInv
  <2> QED BY <2>1, <2>2, Limits DEF RegType
<1>4. t = n /\ s + n <= MAXFILE * BSIZE /\ n > 0 /\ n <= l
  BY <1>1, <1>2, <1>3 DEF DInv, RegInv, RegAt
<1>5. PICK o \in Nat : o = s + t /\ o <= MAXFILE * BSIZE
  BY <1>3, <1>4, Limits
<1>6. Extent(f) = IF o > z THEN o ELSE z
  <2>1. p # None
    BY NoneAssumption
  <2> QED BY <1>2, <1>3, <1>5, <2>1 DEF Extent
<1>7. /\ IF o > ip[f].size
         THEN /\ ip' = [ip EXCEPT ![f] = [ip[f] EXCEPT !.size = o]]
              /\ dinode' = [dinode EXCEPT ![f] = [ip[f] EXCEPT !.size = o]]
         ELSE UNCHANGED <<ip, dinode>>
      /\ logged' = [logged EXCEPT ![p] = {}]
      /\ off' = [off EXCEPT ![h] = o]
      /\ lock' = [lock EXCEPT ![f] = None]
      /\ reg' = [reg EXCEPT ![p] = IF l - n = 0 THEN Idle
                    ELSE [Idle EXCEPT !.pc = "chunk", !.h = h, !.left = l - n]]
      /\ UNCHANGED <<used, block, of, panicked>> /\ got' = <<>>
  <2>1. off[h] + reg[p].tot = o /\ reg[p].left = l /\ reg[p].n1 = n
    BY <1>3, <1>5
  <2> QED BY <1>2, <2>1, Zenon DEF WriteEnd
<1>8. /\ ip \in [Inodes -> [addrs : [0..NDIRECT -> Blocks \cup {0}], size : 0..(MAXFILE * BSIZE)]]
      /\ dinode = [g \in Inodes |-> dinode[g]]
      /\ reg \in [Procs -> RegType]
  BY Types DEF DInv, RegInv
<1>9. /\ ip' \in [Inodes -> [addrs : [0..NDIRECT -> Blocks \cup {0}], size : 0..(MAXFILE * BSIZE)]]
      /\ \A g \in Inodes : ip'[g].addrs = ip[g].addrs
      /\ ip'[f].size = Extent(f) /\ dinode'[f] = ip'[f]
      /\ \A g \in Inodes \ {f} : ip'[g] = ip[g] /\ dinode'[g] = dinode[g]
      /\ dinode' = [g \in Inodes |-> dinode'[g]]
  <2>1. CASE o > z
    <3>1. PICK r \in [addrs : [0..NDIRECT -> Blocks \cup {0}], size : 0..(MAXFILE * BSIZE)] :
            r = [ip[f] EXCEPT !.size = o] /\ r.addrs = ip[f].addrs /\ r.size = o
      <4>1. o \in 0..(MAXFILE * BSIZE)
        BY <1>5, Limits
      <4> DEFINE r == [ip[f] EXCEPT !.size = o]
      <4>2. ip[f] \in [addrs : [0..NDIRECT -> Blocks \cup {0}], size : 0..(MAXFILE * BSIZE)]
        BY <1>8
      <4>3. /\ r \in [addrs : [0..NDIRECT -> Blocks \cup {0}], size : 0..(MAXFILE * BSIZE)]
            /\ r.addrs = ip[f].addrs /\ r.size = o
        BY <4>1, <4>2
      <4>4. r = [ip[f] EXCEPT !.size = o]
        OBVIOUS
      <4> HIDE DEF r
      <4> QED BY <4>3, <4>4
    <3>2. ip' = [ip EXCEPT ![f] = r] /\ dinode' = [dinode EXCEPT ![f] = r]
      BY <1>3, <1>7, <2>1, <3>1
    <3> QED BY <1>6, <1>8, <2>1, <3>1, <3>2
  <2>2. CASE ~(o > z)
    <3>1. ip' = ip /\ dinode' = dinode /\ Extent(f) = ip[f].size
      BY <1>3, <1>6, <1>7, <2>2
    <3>2. dinode[f] = ip[f]
      BY <3>1 DEF DInv, DiskInv
    <3> QED BY <1>8, <3>1, <3>2
  <2> QED BY <2>1, <2>2
<1>10. /\ reg' \in [Procs -> RegType]
       /\ reg'[p].pc # "block"
       /\ reg'[p].pc = "idle" => reg'[p].h = None
       /\ reg'[p].pc # "idle" => reg'[p].h = h /\ reg'[p].left > 0
       /\ \A q \in Procs \ {p} : reg'[q] = reg[q]
  <2>1. Idle \in RegType /\ Idle.pc = "idle" /\ Idle.h = None
    BY DEF Idle, RegType
  <2>2. CASE l - n = 0
    BY <1>7, <1>8, <2>1, <2>2
  <2>3. CASE l - n # 0
    <3>1. l - n \in Nat /\ l - n > 0
      BY <1>3, <1>4, <2>3
    <3>2. PICK r \in RegType : /\ r = [Idle EXCEPT !.pc = "chunk", !.h = h, !.left = l - n]
                               /\ r.pc = "chunk" /\ r.h = h /\ r.left = l - n
      <4> DEFINE r == [Idle EXCEPT !.pc = "chunk", !.h = h, !.left = l - n]
      <4>1. r.pc = "chunk" /\ r.h = h /\ r.left = l - n
        BY DEF Idle
      <4>2. r \in RegType
        BY <2>1, <3>1, <4>1 DEF RegType
      <4> HIDE DEF r
      <4>3. r = [Idle EXCEPT !.pc = "chunk", !.h = h, !.left = l - n]
        BY DEF r
      <4> QED BY <4>1, <4>2, <4>3
    <3>3. reg' = [reg EXCEPT ![p] = r]
      BY <1>7, <2>3, <3>2
    <3> QED BY <1>8, <3>1, <3>2, <3>3
  <2> QED BY <2>2, <2>3
<1>11. Ends(p, h, f, o)
  BY <1>1, <1>2, <1>3, <1>5, <1>6, <1>7, <1>9, <1>10 DEF Ends
<1> QED BY <1>11

LEMMA EndDInv ==
    ASSUME DInv, NEW p \in Procs, WriteEnd(p)
    PROVE  DInv'
<1>1. PICK h \in Handles, f \in Inodes, o \in Nat : Ends(p, h, f, o)
  BY EndFacts
<1>2. /\ h = reg[p].h /\ f = of[h] /\ lock[f] = p /\ reg[p].pc = "block"
      /\ \A g \in Inodes : ip'[g].addrs = ip[g].addrs
      /\ ip'[f].size = Extent(f) /\ o <= Extent(f)
      /\ \A g \in Inodes \ {f} : ip'[g] = ip[g]
      /\ used' = used /\ block' = block /\ of' = of /\ panicked' = panicked
      /\ logged' = [logged EXCEPT ![p] = {}]
      /\ off' = [off EXCEPT ![h] = o]
      /\ lock' = [lock EXCEPT ![f] = None]
      /\ \A q \in Procs \ {p} : reg'[q] = reg[q]
      /\ reg'[p].pc # "block"
  <2>1. ip[f].size \in Nat /\ Extent(f) = IF o > ip[f].size THEN o ELSE ip[f].size
    BY <1>1, ExtentType DEF Ends
  <2>2. o <= Extent(f)
    BY <2>1
  <2> QED BY <1>1, <2>2, Zenon DEF Ends
<1>3. /\ of \in [Handles -> Inodes \cup {None}] /\ off \in [Handles -> 0..(MAXFILE * BSIZE)]
      /\ lock \in [Inodes -> Procs \cup {None}]
      /\ logged = [q \in Procs |-> logged[q]] /\ p # None
  BY Types, NoneAssumption DEF DInv, LogInv
<1>4. TypeOK'
  <2>1. lock' \in [Inodes -> Procs \cup {None}]
    BY <1>2, <1>3
  <2>2. off' \in [Handles -> 0..(MAXFILE * BSIZE)]
    <3>1. o \in 0..(MAXFILE * BSIZE)
      BY <1>1, Limits, SMTT(60) DEF Ends
    <3> QED BY <1>2, <1>3, <3>1
  <2>3. ip' \in [Inodes -> [addrs : [0..NDIRECT -> Blocks \cup {0}], size : 0..(MAXFILE * BSIZE)]]
    BY <1>1 DEF Ends
  <2> QED BY <1>2, <2>1, <2>2, <2>3, Zenon DEF DInv, TypeOK
\* The chunks under way are on other files.
<1>5. ASSUME NEW q \in Procs, q # p, reg[q].pc = "block"
      PROVE  /\ reg[q].h \in Handles /\ of[reg[q].h] \in Inodes /\ of[reg[q].h] # f
             /\ reg[q].h # h /\ off'[reg[q].h] = off[reg[q].h]
             /\ lock'[of[reg[q].h]] = lock[of[reg[q].h]] /\ logged'[q] = logged[q]
  <2>1. reg[q].h \in Handles /\ of[reg[q].h] \in Inodes /\ lock[of[reg[q].h]] = q
    BY <1>5 DEF DInv, RegInv, RegAt
  <2>2. of[reg[q].h] # f /\ reg[q].h # h
    BY <1>2, <1>5, <2>1
  <2> QED BY <1>2, <1>3, <1>5, <2>1, <2>2
<1>6. RegInv'
  <2>1. reg' \in [Procs -> RegType]
    BY <1>1 DEF Ends
  <2>2. ASSUME NEW q \in Procs PROVE RegAt(q)'
    <3>1. CASE q = p
      BY <1>1, <3>1 DEF RegAt, Ends
    <3>2. CASE q # p
      <4>1. RegAt(q) /\ reg'[q] = reg[q]
        BY <1>2, <3>2 DEF DInv, RegInv
      <4> QED BY <1>2, <1>5, <3>2, <4>1, SMTT(60) DEF RegAt, max
    <3> QED BY <3>1, <3>2
  <2>3. RegType' = RegType
    BY DEF RegType
  <2> QED BY <2>1, <2>2, <2>3 DEF RegInv
<1>7. ASSUME NEW g \in Inodes, g # f, lock[g] # None
      PROVE  /\ lock'[g] = lock[g] /\ lock[g] \in Procs /\ lock[g] # p
             /\ reg'[lock[g]] = reg[lock[g]] /\ of[reg[lock[g]].h] = g
             /\ reg[lock[g]].pc = "block" /\ off'[reg[lock[g]].h] = off[reg[lock[g]].h]
  <2>1. lock[g] \in Procs /\ reg[lock[g]].pc = "block" /\ of[reg[lock[g]].h] = g
    BY <1>7, ExtentType
  <2>2. lock[g] # p
    BY <1>2, <1>7, <2>1
  <2> QED BY <1>2, <1>3, <1>5, <1>7, <2>1, <2>2
<1>8. LockInv'
  <2> SUFFICES ASSUME NEW g \in Inodes, lock'[g] # None
               PROVE  reg'[lock'[g]].pc = "block" /\ of'[reg'[lock'[g]].h] = g
    BY DEF LockInv
  <2>1. g # f /\ lock[g] # None
    BY <1>2, <1>3
  <2> QED BY <1>2, <1>7, <2>1
<1>9. OffInv'
  <2> SUFFICES ASSUME NEW x \in Handles, of[x] # None PROVE off'[x] <= ip'[of[x]].size
    BY <1>2 DEF OffInv
  <2>1. CASE x = h
    BY <1>2, <1>3, <2>1
  <2>2. CASE x # h
    <3>1. of[x] \in Inodes /\ off'[x] = off[x] /\ off[x] <= ip[of[x]].size /\ off[x] \in Nat
      BY <1>2, <1>3, <2>2, Limits DEF DInv, OffInv
    <3>2. CASE of[x] = f
      BY <1>2, <3>1, <3>2, ExtentType
    <3>3. CASE of[x] # f
      BY <1>2, <3>1, <3>3
    <3> QED BY <3>2, <3>3
  <2> QED BY <2>1, <2>2
<1>10. ASSUME NEW g \in Inodes PROVE Extent(g)' = Extent(g)
  <2>1. CASE g = f
    BY <1>2, <1>3, <2>1 DEF Extent
  <2>2. CASE g # f
    <3>1. lock'[g] = lock[g] /\ ip'[g] = ip[g]
      BY <1>2, <1>3, <2>2
    <3> QED BY <1>7, <2>2, <3>1 DEF Extent
  <2> QED BY <2>1, <2>2
<1>11. \A g \in Inodes : /\ \A k : Ptr(g, k)' = Ptr(g, k)
                         /\ \A i : Word(g, i)' = Word(g, i)
                         /\ \A a, e : Loggable(g, a, e)' = Loggable(g, a, e)
  BY <1>2, PtrSame
<1>12. OwnInv' /\ ExtentInv'
  BY <1>2, <1>10, <1>11, OwnSame, ExtentInvSame DEF DInv
<1>13. DiskInv' /\ dinode' = [g \in Inodes |-> dinode'[g]]
  <2> SUFFICES ASSUME NEW g \in Inodes, Extent(g)' = ip'[g].size PROVE dinode'[g] = ip'[g]
    BY <1>1 DEF DiskInv, Ends
  <2>1. CASE g = f
    BY <1>1, <2>1 DEF Ends
  <2>2. CASE g # f
    BY <1>1, <1>10, <2>2 DEF Ends, DInv, DiskInv
  <2> QED BY <2>1, <2>2
<1>14. LogInv'
  <2>1. logged' = [q \in Procs |-> logged'[q]]
    BY <1>2, <1>3
  <2> SUFFICES ASSUME NEW q \in Procs, reg'[q].pc = "block"
               PROVE  logged'[q] \subseteq
                        Loggable(of[reg[q].h], off[reg[q].h], off[reg[q].h] + reg[q].tot)'
    BY <2>1 DEF LogInv
  <2>2. q # p /\ reg'[q] = reg[q] /\ reg[q].pc = "block"
    BY <1>2
  <2>3. logged[q] \subseteq Loggable(of[reg[q].h], off[reg[q].h], off[reg[q].h] + reg[q].tot)
    BY <2>2 DEF DInv, LogInv
  <2>4. /\ of[reg[q].h] \in Inodes /\ off'[reg[q].h] = off[reg[q].h]
        /\ logged'[q] = logged[q]
    BY <1>5, <2>2
  <2>5. Loggable(of[reg[q].h], off[reg[q].h], off[reg[q].h] + reg[q].tot)'
            = Loggable(of[reg[q].h], off[reg[q].h], off[reg[q].h] + reg[q].tot)
    <3>g. PICK g : g = of[reg[q].h]
      OBVIOUS
    <3>x. PICK x : x = off[reg[q].h]
      OBVIOUS
    <3>e. PICK e : e = x + reg[q].tot
      OBVIOUS
    <3>1. /\ of'[reg'[q].h] = g /\ off'[reg'[q].h] = x
          /\ off'[reg'[q].h] + reg'[q].tot = e
      BY <1>2, <2>2, <2>4, <3>g, <3>x, <3>e
    <3>2. \A k : Ptr(g, k)' = Ptr(g, k)
      BY <1>11, <2>4, <3>g
    <3>3. Loggable(of[reg[q].h], off[reg[q].h], off[reg[q].h] + reg[q].tot)' = Loggable(g, x, e)
      BY ONLY <3>1, <3>2 DEF Loggable, DBLOCK, BBLOCK, Span, First
    <3> QED BY ONLY <3>g, <3>x, <3>e, <3>3
  <2> QED BY <2>3, <2>4, <2>5
<1>15. TextInv'
  <2> SUFFICES ASSUME NEW q \in Procs, reg'[q].pc = "block",
                      NEW i \in off'[reg'[q].h]..(off'[reg'[q].h] + reg'[q].tot - 1)
               PROVE  Word(of[reg[q].h], i)' = q
    BY DEF TextInv
  <2>2. q # p /\ reg'[q] = reg[q] /\ reg[q].pc = "block"
    BY <1>2
  <2>3. of[reg[q].h] \in Inodes /\ off'[reg[q].h] = off[reg[q].h]
    BY <1>5, <2>2
  <2>4. Word(of[reg[q].h], i) = q
    BY <2>2, <2>3 DEF DInv, TextInv
  <2>5. Word(of[reg[q].h], i)' = Word(of[reg[q].h], i)
    BY <1>2, <1>11, <2>2, <2>3 DEF Word
  <2> QED BY <2>4, <2>5
<1> QED BY <1>4, <1>6, <1>8, <1>9, <1>12, <1>13, <1>14, <1>15 DEF DInv

\* itrunc frees the blocks the inode points to, all of them in use.
LEMMA TruncFacts ==
    ASSUME DInv, NEW f \in Inodes, itrunc(f)
    PROVE  /\ lock[f] = None /\ \A h \in Handles : of[h] # f
           /\ used' = used \ {Ptr(f, k) : k \in Slots}
           /\ ip' = [ip EXCEPT ![f] = NewInode]
           /\ dinode' = [dinode EXCEPT ![f] = NewInode]
           /\ UNCHANGED <<block, of, off, lock, reg, logged, panicked>> /\ got' = <<>>
<1> DEFINE a == ip[f].addrs
           ind == {block[a[NDIRECT]][w] : w \in IF a[NDIRECT] = 0 THEN {} ELSE Words}
           bs == ({a[i] : i \in 0..NDIRECT} \cup ind) \ {0}
<1>1. ASSUME NEW b \in bs PROVE b \in {Ptr(f, k) : k \in Slots} /\ b # 0
  <2>1. CASE b \in {a[i] : i \in 0..NDIRECT}
    <3>1. PICK i \in 0..NDIRECT : b = a[i]
      BY <2>1
    <3>2. CASE i = NDIRECT
      <4>1. b = Ptr(f, MAXFILE)
        BY <3>1, <3>2 DEF Ptr
      <4> QED BY <1>1, <4>1, Places
    <3>3. CASE i # NDIRECT
      <4>1. i \in Slots /\ i # MAXFILE /\ i < NDIRECT
        BY <3>1, <3>3, Places DEF Slots
      <4>2. b = Ptr(f, i)
        BY <3>1, <4>1 DEF Ptr, Data
      <4> QED BY <1>1, <4>1, <4>2
    <3> QED BY <3>2, <3>3
  <2>2. CASE b \in ind
    <3>1. PICK w \in Words : b = block[a[NDIRECT]][w] /\ a[NDIRECT] # 0
      BY <2>2
    <3>2. PICK k \in Slots : k = NDIRECT + w /\ k # MAXFILE /\ ~(k < NDIRECT) /\ k - NDIRECT = w
      BY <3>1, Places DEF Words, Slots
    <3>3. b = Ptr(f, k)
      BY <3>1, <3>2 DEF Ptr, Data
    <3> QED BY <1>1, <3>2, <3>3
  <2> QED BY <1>1, <2>1, <2>2
<1>2. ASSUME NEW k \in Slots, Ptr(f, k) # 0 PROVE Ptr(f, k) \in bs
  <2>1. CASE k = MAXFILE
    BY <1>2, <2>1, Places DEF Ptr
  <2>2. CASE k # MAXFILE /\ k < NDIRECT
    <3>1. k \in 0..NDIRECT
      BY <2>2, Places DEF Slots
    <3> QED BY <1>2, <2>2, <3>1 DEF Ptr, Data
  <2>3. CASE k # MAXFILE /\ ~(k < NDIRECT)
    <3>1. k - NDIRECT \in Words
      BY <2>3, Places DEF Slots, Words
    <3>2. a[NDIRECT] # 0 /\ Ptr(f, k) = block[a[NDIRECT]][k - NDIRECT]
      BY <1>2, <2>3 DEF Ptr, Data
    <3> QED BY <1>2, <3>1, <3>2
  <2> QED BY <2>1, <2>2, <2>3
<1>3. \A k \in Slots : Ptr(f, k) \in used \cup {0}
  BY DEF DInv, OwnInv
<1>4. 0 \notin used
  <2>1. 0 \notin Blocks
    BY SizeAssumption DEF Blocks
  <2> QED BY <2>1, Types DEF DInv
<1> HIDE DEF bs, ind
<1>5. bs \subseteq used /\ used \ bs = used \ {Ptr(f, k) : k \in Slots}
  BY <1>1, <1>2, <1>3, <1>4
<1>6. /\ lock[f] = None /\ \A h \in Handles : of[h] # f
      /\ used' = used \ bs
      /\ ip' = [ip EXCEPT ![f] = NewInode]
      /\ dinode' = [dinode EXCEPT ![f] = NewInode]
      /\ UNCHANGED <<block, of, off, lock, reg, logged, panicked>> /\ got' = <<>>
  BY <1>5, Zenon DEF itrunc, bs, ind
<1> QED BY <1>5, <1>6

LEMMA TruncDInv ==
    ASSUME DInv, NEW f \in Inodes, itrunc(f)
    PROVE  DInv'
<1>1. /\ lock[f] = None /\ \A h \in Handles : of[h] # f
      /\ used' = used \ {Ptr(f, k) : k \in Slots}
      /\ ip' = [ip EXCEPT ![f] = NewInode]
      /\ dinode' = [dinode EXCEPT ![f] = NewInode]
      /\ block' = block /\ of' = of /\ off' = off /\ lock' = lock /\ reg' = reg
      /\ logged' = logged /\ panicked' = panicked
  BY TruncFacts
<1>2. /\ ip \in [Inodes -> [addrs : [0..NDIRECT -> Blocks \cup {0}], size : 0..(MAXFILE * BSIZE)]]
      /\ used \subseteq Blocks /\ dinode = [g \in Inodes |-> dinode[g]]
      /\ of \in [Handles -> Inodes \cup {None}]
  BY Types DEF DInv
<1>3. /\ ip'[f] = NewInode /\ dinode'[f] = NewInode
      /\ \A g \in Inodes \ {f} : ip'[g] = ip[g] /\ dinode'[g] = dinode[g]
      /\ dinode' = [g \in Inodes |-> dinode'[g]]
  BY <1>1, <1>2
<1>4. TypeOK'
  <2>1. NewInode \in [addrs : [0..NDIRECT -> Blocks \cup {0}], size : 0..(MAXFILE * BSIZE)]
    BY Limits DEF NewInode
  <2>2. ip' \in [Inodes -> [addrs : [0..NDIRECT -> Blocks \cup {0}], size : 0..(MAXFILE * BSIZE)]]
    BY <1>1, <1>2, <2>1
  <2>3. used' \subseteq Blocks
    BY <1>1, <1>2
  <2> QED BY <1>1, <2>2, <2>3, Zenon DEF DInv, TypeOK
<1>5. RegInv'
  <2>1. ASSUME NEW p \in Procs PROVE RegAt(p)'
    <3>1. RegAt(p)
      BY DEF DInv, RegInv
    <3> QED BY <1>1, <3>1 DEF RegAt, max
  <2>2. RegType' = RegType /\ reg' \in [Procs -> RegType]
    BY <1>1 DEF RegType, DInv, RegInv
  <2> QED BY <2>1, <2>2 DEF RegInv
<1>6. LockInv' /\ OffInv'
  <2>1. LockInv'
    BY <1>1 DEF DInv, LockInv
  <2>2. OffInv'
    BY <1>1, <1>2, <1>3 DEF DInv, OffInv
  <2> QED BY <2>1, <2>2
<1>7. \A g \in Inodes \ {f} : /\ \A k : Ptr(g, k)' = Ptr(g, k)
                              /\ \A i : Word(g, i)' = Word(g, i)
                              /\ \A a, e : Loggable(g, a, e)' = Loggable(g, a, e)
  BY <1>1, <1>3, PtrSame
<1>8. \A k \in Slots : Ptr(f, k)' = 0
  <2> SUFFICES ASSUME NEW k \in Slots PROVE Ptr(f, k)' = 0
    OBVIOUS
  <2>1. \A j \in 0..NDIRECT : ip'[f].addrs[j] = 0
    BY <1>3 DEF NewInode
  <2>2. k \in Nat /\ (k < NDIRECT => k \in 0..NDIRECT)
    BY Places DEF Slots
  <2> QED BY <2>1, <2>2, Places DEF Ptr, Data
<1>9. OwnInv'
  <2>1. ASSUME NEW g \in Inodes, NEW k \in Slots PROVE Ptr(g, k)' \in used' \cup {0}
    <3>1. CASE g = f
      BY <1>8, <3>1
    <3>2. CASE g # f
      <4>1. Ptr(g, k)' = Ptr(g, k) /\ Ptr(g, k) \in used \cup {0}
        BY <1>7, <3>2 DEF DInv, OwnInv
      <4>2. Ptr(g, k) # 0 => \A j \in Slots : Ptr(g, k) # Ptr(f, j)
        BY <3>2 DEF DInv, OwnInv
      <4> QED BY <1>1, <4>1, <4>2
    <3> QED BY <3>1, <3>2
  <2>2. ASSUME NEW g \in Inodes, NEW e \in Inodes, NEW j \in Slots, NEW k \in Slots,
               Ptr(g, j)' = Ptr(e, k)', Ptr(g, j)' # 0
        PROVE  g = e /\ j = k
    <3>1. g # f /\ e # f
      BY <1>8, <2>2
    <3>2. Ptr(g, j) = Ptr(e, k) /\ Ptr(g, j) # 0
      BY <1>7, <2>2, <3>1
    <3> QED BY <3>2 DEF DInv, OwnInv
  <2>3. ASSUME NEW b \in used' PROVE \E g \in Inodes, k \in Slots : Ptr(g, k)' = b
    <3>1. b \in used
      BY <1>1, <2>3
    <3>2. PICK g \in Inodes, k \in Slots : Ptr(g, k) = b
      BY <3>1 DEF DInv, OwnInv
    <3>3. g # f
      BY <1>1, <2>3, <3>2
    <3> QED BY <1>7, <3>2, <3>3
  <2>4. Slots' = Slots
    BY DEF Slots, MAXFILE, NINDIRECT
  <2> QED BY <2>1, <2>2, <2>3, <2>4 DEF OwnInv
<1>10. Extent(f)' = 0 /\ \A g \in Inodes \ {f} : Extent(g)' = Extent(g)
  BY <1>1, <1>3 DEF Extent, NewInode
<1>11. Span(0, 0) = {}
  BY DEF Span
<1>12. ExtentInv'
  <2> SUFFICES ASSUME NEW g \in Inodes
               PROVE  /\ \A k \in 0..(MAXFILE - 1) : Ptr(g, k)' # 0 <=> k \in Span(0, Extent(g)')
                      /\ Ptr(g, MAXFILE)' # 0 <=> \E k \in Span(0, Extent(g)') : k >= NDIRECT
    BY DEF ExtentInv, Span
  <2>1. CASE g = f
    BY <1>8, <1>10, <1>11, <2>1, Places
  <2>2. CASE g # f
    BY <1>7, <1>10, <2>2 DEF DInv, ExtentInv
  <2> QED BY <2>1, <2>2
<1>13. DiskInv'
  BY <1>3, <1>10 DEF DInv, DiskInv
<1>14. ASSUME NEW p \in Procs, reg[p].pc = "block"
       PROVE  of[reg[p].h] \in Inodes \ {f}
  BY <1>1, <1>14 DEF DInv, RegInv, RegAt
<1>15. LogInv'
  <2>1. logged' = [q \in Procs |-> logged'[q]]
    BY <1>1 DEF DInv, LogInv
  <2> SUFFICES ASSUME NEW q \in Procs, reg[q].pc = "block"
               PROVE  logged[q] \subseteq
                        Loggable(of[reg[q].h], off[reg[q].h], off[reg[q].h] + reg[q].tot)'
    BY <1>1, <2>1 DEF LogInv
  <2>2. logged[q] \subseteq Loggable(of[reg[q].h], off[reg[q].h], off[reg[q].h] + reg[q].tot)
    BY DEF DInv, LogInv
  <2>3. Loggable(of[reg[q].h], off[reg[q].h], off[reg[q].h] + reg[q].tot)'
            = Loggable(of[reg[q].h], off[reg[q].h], off[reg[q].h] + reg[q].tot)
    BY <1>1, <1>7, <1>14 DEF Loggable, DBLOCK, BBLOCK, Span, First
  <2> QED BY <2>2, <2>3
<1>16. TextInv'
  <2> SUFFICES ASSUME NEW q \in Procs, reg[q].pc = "block",
                      NEW i \in off[reg[q].h]..(off[reg[q].h] + reg[q].tot - 1)
               PROVE  Word(of[reg[q].h], i)' = q
    BY <1>1 DEF TextInv
  <2>1. Word(of[reg[q].h], i) = q
    BY DEF DInv, TextInv
  <2>2. Word(of[reg[q].h], i)' = Word(of[reg[q].h], i)
    BY <1>1, <1>7, <1>14 DEF Word
  <2> QED BY <2>1, <2>2
<1> QED BY <1>3, <1>4, <1>5, <1>6, <1>9, <1>12, <1>13, <1>15, <1>16 DEF DInv

-----------------------------------------------------------------------------
(* The step that writes a block. *)

\* The block that is written is new, or the file's own; so is the indirect one.
LEMMA TurnBlocks ==
    ASSUME DInv, NEW p \in Procs, NEW h \in Handles, NEW f \in Inodes, NEW o \in Nat,
           NEW m \in Nat, NEW k \in 0..(MAXFILE - 1), Turn(p, h, f, o, m, k),
           NEW a \in Blocks, NEW d \in Blocks \cup {0}, BmapIs(f, k, a, d)
    PROVE  /\ Ptr(f, k) = 0 <=> k \notin Span(0, Extent(f))
           /\ a # 0 /\ k \in Slots /\ MAXFILE \in Slots /\ k # MAXFILE
           /\ Ptr(f, k) # 0 => a = Ptr(f, k) /\ a \in used /\ d = Ptr(f, MAXFILE)
           /\ Ptr(f, k) = 0 => a \notin used
           /\ d = Ptr(f, MAXFILE) \/ (Ptr(f, MAXFILE) = 0 /\ d \notin used /\ d # 0 /\ k >= NDIRECT)
           /\ k >= NDIRECT => d # 0 /\ d # a
           /\ Ptr(f, MAXFILE) # 0 => Ptr(f, MAXFILE) \in used /\ Ptr(f, MAXFILE) # a
           /\ d # a
<1>1. 0 \notin Blocks /\ k \in Slots /\ MAXFILE \in Slots /\ k # MAXFILE
  BY Places, SizeAssumption DEF Blocks
<1>2. Ptr(f, k) = 0 <=> k \notin Span(0, Extent(f))
  BY DEF DInv, ExtentInv
<1>3. /\ Ptr(f, k) # 0 => a = Ptr(f, k) /\ d = Ptr(f, MAXFILE)
      /\ Ptr(f, k) = 0 => a \notin used
      /\ Ptr(f, MAXFILE) # 0 \/ ~(k >= NDIRECT) => d = Ptr(f, MAXFILE)
      /\ k >= NDIRECT => d \in Blocks /\ d # a
      /\ k >= NDIRECT /\ Ptr(f, MAXFILE) = 0 => d \notin used
  BY DEF BmapIs
<1>4. Ptr(f, k) \in used \cup {0} /\ Ptr(f, MAXFILE) \in used \cup {0}
  BY <1>1 DEF DInv, OwnInv
<1>5. Ptr(f, MAXFILE) # 0 => Ptr(f, MAXFILE) # a
  <2>1. Ptr(f, k) # 0 => Ptr(f, k) # Ptr(f, MAXFILE)
    BY <1>1 DEF DInv, OwnInv
  <2> QED BY <1>3, <1>4, <2>1
<1>6. d = Ptr(f, MAXFILE) \/ (Ptr(f, MAXFILE) = 0 /\ d \notin used /\ d # 0 /\ k >= NDIRECT)
  BY <1>1, <1>3
<1>7. d # a
  BY <1>1, <1>3, <1>5, <1>6
<1> QED BY <1>1, <1>2, <1>3, <1>4, <1>5, <1>6, <1>7

\* Another call under way is on another file.
LEMMA TurnOthers ==
    ASSUME DInv, NEW p \in Procs, NEW h \in Handles, NEW f \in Inodes, NEW o \in Nat,
           NEW m \in Nat, NEW k \in 0..(MAXFILE - 1), Turn(p, h, f, o, m, k),
           NEW a \in Blocks, NEW d \in Blocks \cup {0}, Written(p, f, o, m, k, a, d)
    PROVE  /\ reg' \in [Procs -> RegType]
           /\ \A q \in Procs \ {p} : reg'[q] = reg[q]
           /\ reg'[p].pc = "block" /\ reg'[p].h = h /\ reg'[p].left = reg[p].left
           /\ reg'[p].n1 = reg[p].n1 /\ reg'[p].tot = reg[p].tot + m
           /\ \A q \in Procs \ {p} : reg[q].pc = "block" => of[reg[q].h] \in Inodes \ {f}
           /\ \A g \in Inodes \ {f} : Extent(g)' = Extent(g)
           /\ Extent(f)' = IF o + m > ip[f].size THEN o + m ELSE ip[f].size
           /\ Extent(f)' = IF o + m > Extent(f) THEN o + m ELSE Extent(f)
<1>1. /\ reg' = [reg EXCEPT ![p] = [@ EXCEPT !.tot = reg[p].tot + m]]
      /\ of' = of /\ off' = off /\ lock' = lock
      /\ \A g \in Inodes : ip'[g].size = ip[g].size
  BY DEF Written
<1>2. /\ h = reg[p].h /\ f = of[h] /\ lock[f] = p /\ reg[p].pc = "block"
      /\ o = off[h] + reg[p].tot /\ off[h] \in Nat /\ reg[p].tot \in Nat /\ m > 0
      /\ Extent(f) = IF o > ip[f].size THEN o ELSE ip[f].size
  BY DEF Turn
<1>3. reg \in [Procs -> RegType] /\ p # None /\ ip[f].size \in Nat
  BY NoneAssumption, ExtentType DEF DInv, RegInv
<1>4. /\ \A q \in Procs \ {p} : reg'[q] = reg[q]
      /\ reg'[p].pc = "block" /\ reg'[p].h = h /\ reg'[p].left = reg[p].left
      /\ reg'[p].n1 = reg[p].n1 /\ reg'[p].tot = reg[p].tot + m
      /\ reg' \in [Procs -> RegType]
  <2>1. reg[p] \in RegType /\ reg[p].tot + m \in Nat
    BY <1>2, <1>3
  <2>2. /\ reg'[p].pc = reg[p].pc /\ reg'[p].h = reg[p].h /\ reg'[p].left = reg[p].left
        /\ reg'[p].n1 = reg[p].n1 /\ reg'[p].tot = reg[p].tot + m /\ reg'[p] \in RegType
    BY <1>1, <1>3, <2>1 DEF RegType
  <2> QED BY <1>1, <1>2, <1>3, <2>2
<1>5. \A q \in Procs \ {p} : reg[q].pc = "block" => of[reg[q].h] \in Inodes \ {f}
  BY <1>2 DEF DInv, RegInv, RegAt
<1>6. ASSUME NEW g \in Inodes \ {f} PROVE Extent(g)' = Extent(g)
  <2>1. lock[g] # None => lock[g] \in Procs /\ lock[g] # p
    <3>1. lock[g] # None => lock[g] \in Procs /\ of[reg[lock[g]].h] = g
      BY ExtentType
    <3> QED BY <1>2, <3>1
  <2> QED BY <1>1, <1>4, <2>1 DEF Extent
<1>7. Extent(f)' = IF o + m > ip[f].size THEN o + m ELSE ip[f].size
  <2>1. off'[reg'[p].h] + reg'[p].tot = o + m
    BY <1>1, <1>2, <1>4
  <2>2. lock'[f] = p /\ ip'[f].size = ip[f].size
    BY <1>1, <1>2
  <2> QED BY <1>3, <2>1, <2>2 DEF Extent
<1>8. Extent(f)' = IF o + m > Extent(f) THEN o + m ELSE Extent(f)
  BY <1>2, <1>3, <1>7
<1> QED BY <1>4, <1>5, <1>6, <1>7, <1>8

\* No word changes but the ones that are written.
Changed(p, f, o, m) ==
    /\ \A g \in Inodes : \A i \in 0..(Extent(g) - 1) :
         Word(g, i)' = IF g = f /\ i \in o..(o + m - 1) THEN p ELSE Word(g, i)
    /\ \A i \in o..(o + m - 1) : Word(f, i)' = p

LEMMA TurnWords ==
    ASSUME DInv, NEW p \in Procs, NEW h \in Handles, NEW f \in Inodes, NEW o \in Nat,
           NEW m \in Nat, NEW k \in 0..(MAXFILE - 1), Turn(p, h, f, o, m, k),
           NEW a \in Blocks, NEW d \in Blocks \cup {0}, BmapIs(f, k, a, d),
           Written(p, f, o, m, k, a, d)
    PROVE  Changed(p, f, o, m)
<1>1. /\ \A g \in Inodes, j \in Slots :
            Ptr(g, j)' = IF g = f /\ j = k THEN a ELSE IF g = f /\ j = MAXFILE THEN d ELSE Ptr(g, j)
      /\ \A x \in used : x # a /\ (x # d \/ k < NDIRECT) => block'[x] = block[x]
      /\ \A w \in Words : block'[a][w] = IF w >= o % BSIZE /\ w < (o % BSIZE) + m THEN p
                                         ELSE IF a \in used THEN block[a][w] ELSE 0
  BY DEF Written
<1>2. /\ Ptr(f, k) # 0 => a = Ptr(f, k) /\ a \in used /\ d = Ptr(f, MAXFILE)
      /\ Ptr(f, k) = 0 => a \notin used
      /\ d = Ptr(f, MAXFILE) \/ (Ptr(f, MAXFILE) = 0 /\ d \notin used /\ d # 0)
      /\ k \in Slots /\ MAXFILE \in Slots /\ k # MAXFILE
  BY TurnBlocks
<1>3. m > 0 /\ (o % BSIZE) + m <= BSIZE /\ o % BSIZE \in Words /\ k = o \div BSIZE
  BY DEF Turn
<1>4. ASSUME NEW i \in o..(o + m - 1)
      PROVE  Word(f, i)' = p
  <2>1. i \div BSIZE = k /\ i % BSIZE = (o % BSIZE) + (i - o)
    BY <1>3, DivSame
  <2>2. i % BSIZE \in Words /\ i % BSIZE >= o % BSIZE /\ i % BSIZE < (o % BSIZE) + m
    BY <1>3, <2>1, SizeAssumption DEF Words
  <2>3. Ptr(f, i \div BSIZE)' = a
    BY <1>1, <1>2, <2>1
  <2> QED BY <1>1, <2>2, <2>3 DEF Word
<1>5. ASSUME NEW g \in Inodes, NEW i \in 0..(Extent(g) - 1), ~(g = f /\ i \in o..(o + m - 1))
      PROVE  Word(g, i)' = Word(g, i)
  <2>1. PICK j \in Slots : /\ j = i \div BSIZE /\ j \in 0..(MAXFILE - 1)
                           /\ Ptr(g, j) \in used /\ Ptr(g, j) # 0
    BY ExtentHas
  <2>2. j # MAXFILE
    BY <2>1, Places
  <2>3. i \in Nat /\ i % BSIZE \in Words /\ i = BSIZE * j + (i % BSIZE)
    <3>1. i \in Nat
      BY ExtentType
    <3> QED BY <2>1, <3>1, DivMod
  <2>4. CASE g = f /\ j = k
    <3>1. a = Ptr(f, k) /\ a \in used /\ Ptr(g, j)' = a
      BY <1>1, <1>2, <2>1, <2>4
    <3>2. ~(i % BSIZE >= o % BSIZE /\ i % BSIZE < (o % BSIZE) + m)
      <4>1. o = BSIZE * k + (o % BSIZE) /\ BSIZE * k \in Nat
        BY <1>3, DivMod, Places
      <4>2. i - o = (i % BSIZE) - (o % BSIZE)
        BY <2>3, <2>4, <4>1, SizeAssumption DEF Words
      <4> QED BY <1>3, <1>5, <2>3, <2>4, <4>2, SizeAssumption DEF Words
    <3>3. block'[a][i % BSIZE] = block[a][i % BSIZE]
      BY <1>1, <2>3, <3>1, <3>2
    <3> QED BY <2>1, <2>4, <3>1, <3>3 DEF Word
  <2>5. CASE ~(g = f /\ j = k)
    <3>1. Ptr(g, j)' = Ptr(g, j)
      BY <1>1, <2>1, <2>2, <2>5
    <3>2. Ptr(g, j) # a
      <4>1. CASE Ptr(f, k) = 0
        BY <1>2, <2>1, <4>1
      <4>2. CASE Ptr(f, k) # 0
        BY <1>2, <2>1, <2>5, <4>2 DEF DInv, OwnInv
      <4> QED BY <4>1, <4>2
    <3>3. Ptr(g, j) # d
      BY <1>2, <2>1, <2>2 DEF DInv, OwnInv
    <3>4. block'[Ptr(g, j)] = block[Ptr(g, j)]
      BY <1>1, <2>1, <3>2, <3>3
    <3> QED BY <2>1, <3>1, <3>4 DEF Word
  <2> QED BY <2>4, <2>5
<1> QED BY <1>4, <1>5 DEF Changed

LEMMA TurnOwn ==
    ASSUME DInv, NEW p \in Procs, NEW h \in Handles, NEW f \in Inodes, NEW o \in Nat,
           NEW m \in Nat, NEW k \in 0..(MAXFILE - 1), Turn(p, h, f, o, m, k),
           NEW a \in Blocks, NEW d \in Blocks \cup {0}, BmapIs(f, k, a, d),
           Written(p, f, o, m, k, a, d)
    PROVE  OwnInv'
<1>1. /\ \A g \in Inodes, j \in Slots :
            Ptr(g, j)' = IF g = f /\ j = k THEN a ELSE IF g = f /\ j = MAXFILE THEN d ELSE Ptr(g, j)
      /\ used' = used \cup (({a} \cup IF k >= NDIRECT THEN {d} ELSE {}) \ used)
  BY DEF Written
<1>2. /\ Ptr(f, k) # 0 => a = Ptr(f, k) /\ a \in used /\ d = Ptr(f, MAXFILE)
      /\ Ptr(f, k) = 0 => a \notin used
      /\ d = Ptr(f, MAXFILE) \/ (Ptr(f, MAXFILE) = 0 /\ d \notin used /\ d # 0 /\ k >= NDIRECT)
      /\ k \in Slots /\ MAXFILE \in Slots /\ k # MAXFILE
      /\ a # 0 /\ d # a
      /\ Ptr(f, MAXFILE) # 0 => Ptr(f, MAXFILE) \in used
      /\ k >= NDIRECT => d # 0
  BY TurnBlocks
<1>3. a \in used' /\ (d # 0 => d \in used') /\ used \subseteq used'
  BY <1>1, <1>2
<1>4. ASSUME NEW g \in Inodes, NEW j \in Slots PROVE Ptr(g, j)' \in used' \cup {0}
  <2>1. Ptr(g, j) \in used \cup {0}
    BY DEF DInv, OwnInv
  <2> QED BY <1>1, <1>3, <2>1
\* a and d are in no other place.
<1>5. ASSUME NEW g \in Inodes, NEW j \in Slots, ~(g = f /\ j = k), Ptr(g, j) # 0
      PROVE  Ptr(g, j) # a
  <2>1. Ptr(g, j) \in used
    BY <1>5 DEF DInv, OwnInv
  <2>2. CASE Ptr(f, k) = 0
    BY <1>2, <2>1, <2>2
  <2>3. CASE Ptr(f, k) # 0
    BY <1>2, <1>5, <2>3 DEF DInv, OwnInv
  <2> QED BY <2>2, <2>3
<1>6. ASSUME NEW g \in Inodes, NEW j \in Slots, ~(g = f /\ j = MAXFILE), Ptr(g, j) # 0
      PROVE  Ptr(g, j) # d
  <2>1. Ptr(g, j) \in used
    BY <1>6 DEF DInv, OwnInv
  <2>2. CASE Ptr(f, MAXFILE) = 0
    BY <1>2, <1>6, <2>1, <2>2
  <2>3. CASE Ptr(f, MAXFILE) # 0
    BY <1>2, <1>6, <2>3 DEF DInv, OwnInv
  <2> QED BY <2>2, <2>3
<1>7. ASSUME NEW g \in Inodes, NEW e \in Inodes, NEW i \in Slots, NEW j \in Slots,
             Ptr(g, i)' = Ptr(e, j)', Ptr(g, i)' # 0
      PROVE  g = e /\ i = j
  <2>1. CASE g = f /\ i = k
    <3>1. Ptr(e, j)' = a
      BY <1>1, <1>7, <2>1
    <3> QED BY <1>1, <1>2, <1>5, <2>1, <3>1
  <2>2. CASE g = f /\ i = MAXFILE
    <3>1. Ptr(e, j)' = d /\ d # 0
      BY <1>1, <1>2, <1>7, <2>2
    <3> QED BY <1>1, <1>2, <1>6, <2>2, <3>1
  <2>3. CASE ~(g = f /\ i = k) /\ ~(g = f /\ i = MAXFILE)
    <3>1. Ptr(g, i)' = Ptr(g, i) /\ Ptr(g, i) # 0 /\ Ptr(g, i) # a /\ Ptr(g, i) # d
      BY <1>1, <1>5, <1>6, <1>7, <2>3
    <3>2. Ptr(e, j)' = Ptr(e, j)
      BY <1>1, <1>7, <3>1
    <3>3. Ptr(g, i) = Ptr(e, j)
      BY <1>7, <3>1, <3>2
    <3> QED BY <3>1, <3>3 DEF DInv, OwnInv
  <2> QED BY <2>1, <2>2, <2>3
<1>8. ASSUME NEW b \in used' PROVE \E g \in Inodes, j \in Slots : Ptr(g, j)' = b
  <2>1. CASE b = a
    BY <1>1, <1>2, <2>1
  <2>2. CASE b = d /\ k >= NDIRECT
    BY <1>1, <1>2, <2>2
  <2>3. CASE b \in used /\ b # a
    <3>1. PICK g \in Inodes, j \in Slots : Ptr(g, j) = b
      BY <2>3 DEF DInv, OwnInv
    <3>2. b # 0
      <4>1. 0 \notin Blocks
        BY SizeAssumption DEF Blocks
      <4> QED BY <2>3, <4>1, Types DEF DInv
    <3>3. CASE g = f /\ j = k
      BY <1>2, <2>3, <3>1, <3>2, <3>3
    <3>4. CASE g = f /\ j = MAXFILE
      BY <1>1, <1>2, <3>1, <3>2, <3>4
    <3>5. CASE ~(g = f /\ j = k) /\ ~(g = f /\ j = MAXFILE)
      BY <1>1, <3>1, <3>5
    <3> QED BY <3>3, <3>4, <3>5
  <2> QED BY <1>1, <1>8, <2>1, <2>2, <2>3
<1>9. Slots' = Slots
  BY DEF Slots, MAXFILE, NINDIRECT
<1> QED BY <1>4, <1>7, <1>8, <1>9 DEF OwnInv

LEMMA TurnExtent ==
    ASSUME DInv, NEW p \in Procs, NEW h \in Handles, NEW f \in Inodes, NEW o \in Nat,
           NEW m \in Nat, NEW k \in 0..(MAXFILE - 1), Turn(p, h, f, o, m, k),
           NEW a \in Blocks, NEW d \in Blocks \cup {0}, BmapIs(f, k, a, d),
           Written(p, f, o, m, k, a, d)
    PROVE  ExtentInv' /\ DiskInv'
<1>1. /\ \A g \in Inodes, j \in Slots :
            Ptr(g, j)' = IF g = f /\ j = k THEN a ELSE IF g = f /\ j = MAXFILE THEN d ELSE Ptr(g, j)
      /\ \A g \in Inodes : ip'[g].size = ip[g].size
      /\ \A g \in Inodes \ {f} : ip'[g] = ip[g]
      /\ Ptr(f, k) # 0 => ip' = ip
      /\ dinode' = dinode
  BY DEF Written
<1>2. /\ Ptr(f, k) = 0 <=> k \notin Span(0, Extent(f))
      /\ k \in Slots /\ MAXFILE \in Slots /\ k # MAXFILE /\ a # 0
      /\ d = Ptr(f, MAXFILE) \/ (Ptr(f, MAXFILE) = 0 /\ d # 0 /\ k >= NDIRECT)
      /\ k >= NDIRECT => d # 0
  BY TurnBlocks
<1>3. /\ \A g \in Inodes \ {f} : Extent(g)' = Extent(g)
      /\ Extent(f)' = IF o + m > ip[f].size THEN o + m ELSE ip[f].size
      /\ Extent(f)' = IF o + m > Extent(f) THEN o + m ELSE Extent(f)
  BY TurnOthers
<1>4. /\ m > 0 /\ (o % BSIZE) + m <= BSIZE /\ k = o \div BSIZE
      /\ Extent(f) \in Nat /\ o <= Extent(f)
      /\ Extent(f) = IF o > ip[f].size THEN o ELSE ip[f].size
  BY DEF Turn
<1>5. Span(0, Extent(f)') = Span(0, Extent(f)) \cup {k}
  BY <1>3, <1>4, SpanGrow
<1>6. ExtentInv'
  <2> SUFFICES ASSUME NEW g \in Inodes
               PROVE  /\ \A j \in 0..(MAXFILE - 1) : Ptr(g, j)' # 0 <=> j \in Span(0, Extent(g)')
                      /\ Ptr(g, MAXFILE)' # 0 <=> \E j \in Span(0, Extent(g)') : j >= NDIRECT
    BY DEF ExtentInv, Span
  <2>0. \A j \in 0..(MAXFILE - 1) : j \in Slots /\ j # MAXFILE
    BY Places
  <2>1. CASE g = f
    <3>1. \A j \in 0..(MAXFILE - 1) : Ptr(f, j)' = IF j = k THEN a ELSE Ptr(f, j)
      BY <1>1, <2>0
    <3>2. Ptr(f, MAXFILE)' = d
      BY <1>1, <1>2
    <3>3. /\ \A j \in 0..(MAXFILE - 1) : Ptr(f, j) # 0 <=> j \in Span(0, Extent(f))
          /\ Ptr(f, MAXFILE) # 0 <=> \E j \in Span(0, Extent(f)) : j >= NDIRECT
      BY DEF DInv, ExtentInv
    <3>4. \A j \in 0..(MAXFILE - 1) : Ptr(f, j)' # 0 <=> j \in Span(0, Extent(f)')
      BY <1>2, <1>5, <3>1, <3>3
    <3>5. Ptr(f, MAXFILE)' # 0 <=> \E j \in Span(0, Extent(f)') : j >= NDIRECT
      BY <1>2, <1>5, <3>2, <3>3
    <3> QED BY <2>1, <3>4, <3>5
  <2>2. CASE g # f
    <3>1. \A j \in Slots : Ptr(g, j)' = Ptr(g, j)
      BY <1>1, <2>2
    <3> QED BY <1>2, <1>3, <2>0, <2>2, <3>1 DEF DInv, ExtentInv
  <2> QED BY <2>1, <2>2
<1>7. DiskInv'
  <2> SUFFICES ASSUME NEW g \in Inodes, Extent(g)' = ip[g].size PROVE dinode[g] = ip'[g]
    BY <1>1 DEF DiskInv
  <2>1. CASE g = f
    <3>0. ip[f].size \in Nat
      BY ExtentType
    <3>1. o + m <= ip[f].size
      BY <1>3, <2>1, <3>0
    <3>2. Extent(f) = ip[f].size /\ o \in 0..(Extent(f) - 1)
      BY <1>4, <3>0, <3>1
    <3>3. k \in Span(0, Extent(f))
      BY <1>4, <3>2 DEF Span
    <3>4. ip' = ip
      BY <1>1, <1>2, <3>3
    <3> QED BY <2>1, <3>2, <3>4 DEF DInv, DiskInv
  <2>2. CASE g # f
    BY <1>1, <1>3, <2>2 DEF DInv, DiskInv
  <2> QED BY <2>1, <2>2
<1> QED BY <1>6, <1>7

LEMMA TurnLog ==
    ASSUME DInv, NEW p \in Procs, NEW h \in Handles, NEW f \in Inodes, NEW o \in Nat,
           NEW m \in Nat, NEW k \in 0..(MAXFILE - 1), Turn(p, h, f, o, m, k),
           NEW a \in Blocks, NEW d \in Blocks \cup {0}, BmapIs(f, k, a, d),
           Written(p, f, o, m, k, a, d)
    PROVE  LogInv'
<1>1. /\ \A g \in Inodes, j \in Slots :
            Ptr(g, j)' = IF g = f /\ j = k THEN a ELSE IF g = f /\ j = MAXFILE THEN d ELSE Ptr(g, j)
      /\ of' = of /\ off' = off
  BY DEF Written
<1>2. PICK L : /\ logged' = [logged EXCEPT ![p] = @ \cup L]
               /\ L \subseteq {DBLOCK(a)} \cup (IF Ptr(f, k) = 0 THEN {BBLOCK(a)} ELSE {})
                              \cup IF k >= NDIRECT THEN {DBLOCK(d), BBLOCK(d)} ELSE {}
  BY DEF Written
<1>3. /\ Ptr(f, k) = 0 <=> k \notin Span(0, Extent(f))
      /\ k \in Slots /\ MAXFILE \in Slots /\ k # MAXFILE
      /\ d = Ptr(f, MAXFILE) \/ Ptr(f, MAXFILE) = 0
      /\ Ptr(f, k) # 0 => a = Ptr(f, k)
      /\ k >= NDIRECT => d # 0
  BY TurnBlocks
<1>4. /\ h = reg[p].h /\ f = of[h] /\ reg[p].pc = "block"
      /\ o = off[h] + reg[p].tot /\ off[h] \in Nat /\ reg[p].tot \in Nat
      /\ m > 0 /\ (o % BSIZE) + m <= BSIZE /\ k = o \div BSIZE
      /\ Extent(f) \in Nat /\ Extent(f) <= MAXFILE * BSIZE /\ o <= Extent(f)
  BY DEF Turn
<1>5. /\ \A q \in Procs \ {p} : reg'[q] = reg[q]
      /\ reg'[p].h = h /\ reg'[p].tot = reg[p].tot + m
      /\ \A q \in Procs \ {p} : reg[q].pc = "block" => of[reg[q].h] \in Inodes \ {f}
  BY TurnOthers
<1>6. logged = [q \in Procs |-> logged[q]]
  BY DEF DInv, LogInv
<1>7. /\ logged'[p] = logged[p] \cup L
      /\ \A q \in Procs \ {p} : logged'[q] = logged[q]
      /\ logged' = [q \in Procs |-> logged'[q]]
  BY <1>2, <1>6
<1> DEFINE s == off[h]
<1>8. Span(s, o + m) = Span(s, o) \cup {k}
  BY <1>4, SpanAdd, SMTT(60)
\* A slot of a block already written is one that the file had.
<1>9. ASSUME NEW j \in Span(s, o) PROVE j \in Slots /\ j # MAXFILE /\ Ptr(f, j)' = Ptr(f, j)
  <2>1. PICK i \in s..(o - 1) : j = i \div BSIZE
    BY <1>9 DEF Span
  <2>2. i \in 0..(Extent(f) - 1)
    BY <1>4, <2>1, SMTT(60)
  <2>3. j \in 0..(MAXFILE - 1) /\ j \in Slots /\ Ptr(f, j) # 0
    BY <2>1, <2>2, ExtentHas
  <2>4. j # MAXFILE
    BY <2>3, Places
  <2> QED BY <1>1, <1>3, <2>3, <2>4
<1>10. Ptr(f, k)' = a /\ Ptr(f, MAXFILE)' = d
  BY <1>1, <1>3
<1>11. Ptr(f, k) = 0 => k \notin First(s)
  <2>1. ASSUME k \in First(s) PROVE k \in Span(0, Extent(f))
    <3>1. k = s \div BSIZE /\ s % BSIZE # 0
      BY <2>1 DEF First
    <3>2. s \in Nat /\ s <= Extent(f)
      BY <1>4
    <3> QED BY <1>4, <3>1, <3>2, SpanInside
  <2> QED BY <1>3, <2>1
<1> DEFINE new == Loggable(f, s, o + m)'
<1>12. new = (IF d = 0 THEN {} ELSE {DBLOCK(d), BBLOCK(d)})
             \cup {DBLOCK(Ptr(f, j)') : j \in Span(s, o + m)}
             \cup {BBLOCK(Ptr(f, j)') : j \in Span(s, o + m) \ First(s)}
  BY <1>1, <1>10 DEF Loggable, DBLOCK, BBLOCK, Span, First
<1> HIDE DEF new, s
<1>13. L \subseteq new
  <2>1. DBLOCK(a) \in new
    BY <1>8, <1>10, <1>12
  <2>2. Ptr(f, k) = 0 => BBLOCK(a) \in new
    BY <1>8, <1>10, <1>11, <1>12
  <2>3. k >= NDIRECT => DBLOCK(d) \in new /\ BBLOCK(d) \in new
    BY <1>3, <1>12
  <2> QED BY <1>2, <2>1, <2>2, <2>3
<1>14. logged[p] \subseteq new
  <2>1. logged[p] \subseteq Loggable(f, s, o)
    BY <1>4 DEF DInv, LogInv, s
  <2>2. ASSUME NEW b \in Loggable(f, s, o) PROVE b \in new
    <3>1. CASE Ptr(f, MAXFILE) # 0 /\ b \in {DBLOCK(Ptr(f, MAXFILE)), BBLOCK(Ptr(f, MAXFILE))}
      BY <1>3, <1>12, <3>1
    <3>2. CASE b \in {DBLOCK(Ptr(f, j)) : j \in Span(s, o)}
      BY <1>8, <1>9, <1>12, <3>2
    <3>3. CASE b \in {BBLOCK(Ptr(f, j)) : j \in Span(s, o) \ First(s)}
      BY <1>8, <1>9, <1>12, <3>3
    <3> QED BY <2>2, <3>1, <3>2, <3>3 DEF Loggable
  <2> QED BY <2>1, <2>2
<1>15. ASSUME NEW q \in Procs, reg'[q].pc = "block"
       PROVE  logged'[q] \subseteq
                Loggable(of[reg[q].h], off[reg[q].h], off[reg[q].h] + reg[q].tot)'
  <2>1. CASE q = p
    <3>1. Loggable(of[reg[q].h], off[reg[q].h], off[reg[q].h] + reg[q].tot)' = new
      <4>1. of'[reg'[p].h] = f /\ off'[reg'[p].h] = s
        BY <1>1, <1>4, <1>5 DEF s
      <4>2. off'[reg'[p].h] + reg'[p].tot = o + m
        BY <1>4, <1>5, <4>1, SMTT(60) DEF s
      <4>3. s' = s /\ o' = o /\ m' = m /\ f' = f
        BY <1>1 DEF s
      <4> QED BY <2>1, <4>1, <4>2, <4>3 DEF new, Loggable, DBLOCK, BBLOCK, Span, First
    <3> QED BY <1>7, <1>13, <1>14, <2>1, <3>1
  <2>2. CASE q # p
    <3>1. reg'[q] = reg[q] /\ of[reg[q].h] \in Inodes \ {f} /\ logged'[q] = logged[q]
      BY <1>5, <1>7, <1>15, <2>2
    <3>2. logged[q] \subseteq Loggable(of[reg[q].h], off[reg[q].h], off[reg[q].h] + reg[q].tot)
      BY <1>15, <3>1 DEF DInv, LogInv
    <3>3. PICK g \in Inodes \ {f} : g = of[reg[q].h] /\ lock[g] = q /\ reg[q].h \in Handles
      BY <1>15, <3>1 DEF DInv, RegInv, RegAt
    <3>4. PICK u \in Nat, t \in Nat : u = off[reg[q].h] /\ t = reg[q].tot
      <4>1. off[reg[q].h] \in 0..(MAXFILE * BSIZE) /\ reg[q] \in RegType
        BY <3>3, Types DEF DInv, RegInv
      <4> QED BY <4>1, Limits DEF RegType
    <3>5. u + t <= Extent(g) /\ Extent(g) \in Nat
      BY <3>3, <3>4, ExtentType, NoneAssumption
    <3>6. ASSUME NEW j \in Span(u, u + t) PROVE Ptr(g, j)' = Ptr(g, j)
      <4>1. PICK i \in u..(u + t - 1) : j = i \div BSIZE
        BY <3>6 DEF Span
      <4>2. i \in 0..(Extent(g) - 1)
        BY <3>5, <4>1
      <4> QED BY <1>1, <4>1, <4>2, ExtentHas
    <3>7. Ptr(g, MAXFILE)' = Ptr(g, MAXFILE)
      BY <1>1, <1>3
    <3>8. Loggable(g, u, u + t)' = Loggable(g, u, u + t)
      <4>1. /\ {DBLOCK(Ptr(g, j)') : j \in Span(u, u + t)} = {DBLOCK(Ptr(g, j)) : j \in Span(u, u + t)}
            /\ {BBLOCK(Ptr(g, j)') : j \in Span(u, u + t) \ First(u)}
                    = {BBLOCK(Ptr(g, j)) : j \in Span(u, u + t) \ First(u)}
        BY <3>6
      <4> QED BY <3>7, <4>1 DEF Loggable, DBLOCK, BBLOCK, Span, First
    <3>9. /\ Loggable(of[reg[q].h], off[reg[q].h], off[reg[q].h] + reg[q].tot)' = Loggable(g, u, u + t)'
          /\ Loggable(of[reg[q].h], off[reg[q].h], off[reg[q].h] + reg[q].tot) = Loggable(g, u, u + t)
      BY <1>1, <3>1, <3>3, <3>4 DEF Loggable, DBLOCK, BBLOCK, Span, First
    <3> QED BY <3>1, <3>2, <3>8, <3>9
  <2> QED BY <2>1, <2>2
<1> QED BY <1>7, <1>15 DEF LogInv

LEMMA BlockDInv ==
    ASSUME DInv, NEW p \in Procs, WriteBlock(p)
    PROVE  DInv'
<1>1. PICK h \in Handles, f \in Inodes, o \in Nat, m \in Nat, k \in 0..(MAXFILE - 1) :
         /\ Turn(p, h, f, o, m, k)
         /\ m = Min({reg[p].n1 - reg[p].tot, BSIZE - (o % BSIZE)})
  BY TurnFacts
<1>2. ~(o \div BSIZE >= MAXFILE) /\ f = of[reg[p].h] /\ o = off[reg[p].h] + reg[p].tot
  <2>1. o \div BSIZE \in 0..(MAXFILE - 1) /\ f = of[reg[p].h] /\ o = off[reg[p].h] + reg[p].tot
    BY <1>1 DEF Turn
  <2> QED BY <2>1, Places
\* The disk is full.
<1>3. CASE panicked' # panicked
  <2>1. /\ panicked' = "balloc: out of blocks" /\ UNCHANGED <<used, block, ip, reg, logged>>
        /\ UNCHANGED <<dinode, of, off, lock>>
    BY <1>2, <1>3, Zenon DEF WriteBlock
  <2>2. TypeOK'
    BY <2>1, Zenon DEF DInv, TypeOK
  <2>3. OffInv'
    BY <2>1 DEF DInv, OffInv
  <2>4. UNCHANGED <<disk, lock, reg, logged>>
    BY <2>1 DEF disk
  <2> QED BY <2>1, <2>2, <2>3, <2>4, Quiet
<1>4. CASE panicked' = panicked
  <2>1. PICK a \in Blocks, d \in Blocks \cup {0} :
            BmapIs(f, k, a, d) /\ Written(p, f, o, m, k, a, d)
    BY <1>1, <1>4, TurnWrites
  <2>2. OwnInv' /\ ExtentInv' /\ DiskInv' /\ LogInv'
    BY <1>1, <2>1, TurnOwn, TurnExtent, TurnLog
  <2>3. /\ h = reg[p].h /\ f = of[h] /\ lock[f] = p /\ o = off[h] + reg[p].tot
        /\ reg[p].tot + m <= reg[p].n1 /\ reg[p].pc = "block"
        /\ off[h] \in Nat /\ reg[p].tot \in Nat
    BY <1>1 DEF Turn
  <2>4. /\ of' = of /\ off' = off /\ lock' = lock /\ dinode' = dinode
        /\ \A g \in Inodes : ip'[g].size = ip[g].size
        /\ block' \in [Blocks -> [Words -> Blocks \cup Procs \cup {0}]]
        /\ ip' \in [Inodes -> [addrs : [0..NDIRECT -> Blocks \cup {0}],
                               size : 0..(MAXFILE * BSIZE)]]
        /\ used' = used \cup (({a} \cup IF k >= NDIRECT THEN {d} ELSE {}) \ used)
    BY <2>1 DEF Written
  <2>5. /\ reg' \in [Procs -> RegType]
        /\ \A q \in Procs \ {p} : reg'[q] = reg[q]
        /\ reg'[p].pc = "block" /\ reg'[p].h = h /\ reg'[p].left = reg[p].left
        /\ reg'[p].n1 = reg[p].n1 /\ reg'[p].tot = reg[p].tot + m
        /\ \A q \in Procs \ {p} : reg[q].pc = "block" => of[reg[q].h] \in Inodes \ {f}
    BY <1>1, <2>1, TurnOthers
  <2>6. TypeOK'
    <3>1. used' \subseteq Blocks
      <4>1. k >= NDIRECT => d \in Blocks
        BY <2>1 DEF BmapIs
      <4> QED BY <2>4, <4>1, Types DEF DInv
    <3> QED BY <1>4, <2>4, <3>1, Zenon DEF DInv, TypeOK
  <2>7. RegInv'
    <3>1. ASSUME NEW q \in Procs PROVE RegAt(q)'
      <4>1. RegAt(q)
        BY DEF DInv, RegInv
      <4>2. CASE q = p
        BY <2>3, <2>4, <2>5, <4>1, <4>2 DEF RegAt, max
      <4>3. CASE q # p
        BY <2>4, <2>5, <4>1, <4>3 DEF RegAt, max
      <4> QED BY <4>2, <4>3
    <3>2. RegType' = RegType
      BY DEF RegType
    <3> QED BY <2>5, <3>1, <3>2 DEF RegInv
  <2>8. LockInv'
    <3> SUFFICES ASSUME NEW g \in Inodes, lock[g] # None
                 PROVE  reg'[lock[g]].pc = "block" /\ of[reg'[lock[g]].h] = g
      BY <2>4 DEF LockInv
    <3>1. lock[g] \in Procs /\ reg[lock[g]].pc = "block" /\ of[reg[lock[g]].h] = g
      BY ExtentType
    <3> QED BY <2>3, <2>5, <3>1
  <2>9. OffInv'
    <3>1. of \in [Handles -> Inodes \cup {None}]
      BY Types DEF DInv
    <3> QED BY <2>4, <3>1 DEF DInv, OffInv
  <2>10. TextInv'
    <3> SUFFICES ASSUME NEW q \in Procs, reg'[q].pc = "block",
                        NEW i \in off[reg'[q].h]..(off[reg'[q].h] + reg'[q].tot - 1)
                 PROVE  Word(of[reg[q].h], i)' = q
      BY <2>4 DEF TextInv
    <3>1. /\ \A g \in Inodes : \A x \in 0..(Extent(g) - 1) :
                Word(g, x)' = IF g = f /\ x \in o..(o + m - 1) THEN p ELSE Word(g, x)
          /\ \A x \in o..(o + m - 1) : Word(f, x)' = p
      <4>1. Changed(p, f, o, m)
        BY <1>1, <2>1, TurnWords
      <4> QED BY <4>1 DEF Changed
    <3>2. PICK g \in Inodes : /\ g = of[reg[q].h] /\ lock[g] = q /\ reg[q].pc = "block"
                              /\ reg[q].h \in Handles /\ reg'[q].h = reg[q].h
      BY <2>3, <2>5 DEF DInv, RegInv, RegAt
    <3>3. Word(of[reg[q].h], i)' = Word(g, i)'
      BY <2>4, <3>2 DEF Word
    <3>4. PICK u \in Nat, t \in Nat : u = off[reg[q].h] /\ t = reg[q].tot
      <4>1. off[reg[q].h] \in 0..(MAXFILE * BSIZE) /\ reg[q] \in RegType
        BY <3>2, Types DEF DInv, RegInv
      <4> QED BY <4>1, Limits DEF RegType
    <3>5. u + t <= Extent(g) /\ Extent(g) \in Nat
      BY <3>2, <3>4, ExtentType, NoneAssumption
    <3>6. ASSUME i \in u..(u + t - 1) PROVE i \in 0..(Extent(g) - 1) /\ Word(g, i) = q
      <4>1. i \in 0..(Extent(g) - 1)
        BY <3>5, <3>6
      <4> QED BY <3>2, <3>4, <3>6, <4>1 DEF DInv, TextInv
    <3>7. CASE q = p
      <4>1. g = f /\ u = off[h] /\ u + t = o /\ i \in u..(o + m - 1)
        BY <2>3, <2>5, <3>2, <3>4, <3>7
      <4>2. CASE i \in o..(o + m - 1)
        BY <3>1, <3>3, <3>7, <4>1, <4>2
      <4>3. CASE i \in u..(u + t - 1)
        BY <3>1, <3>3, <3>6, <3>7, <4>1, <4>3
      <4> QED BY <4>1, <4>2, <4>3
    <3>8. CASE q # p
      <4>1. g # f /\ i \in u..(u + t - 1)
        BY <2>3, <2>5, <3>2, <3>4, <3>8
      <4> QED BY <3>1, <3>3, <3>6, <4>1
    <3> QED BY <3>7, <3>8
  <2>11. dinode' = [g \in Inodes |-> dinode'[g]]
    BY <2>4 DEF DInv
  <2> QED BY <2>2, <2>6, <2>7, <2>8, <2>9, <2>10, <2>11 DEF DInv
<1> QED BY <1>3, <1>4

LEMMA NextDInv == DInv /\ [Next]_vars => DInv'
<1> SUFFICES ASSUME DInv, [Next]_vars PROVE DInv'
  OBVIOUS
<1>1. ASSUME NEW h \in Handles, Close(h) PROVE DInv'
  BY <1>1, CloseDInv
<1>2. ASSUME NEW h \in Handles, NEW f \in Inodes, Open(h, f) PROVE DInv'
  BY <1>2, OpenDInv
<1>3. ASSUME NEW h \in Handles, NEW n \in Sizes, fileread(h, n) PROVE DInv'
  BY <1>3, ReadDInv
<1>4. ASSUME NEW f \in Inodes, itrunc(f) PROVE DInv'
  BY <1>4, TruncDInv
<1>5. ASSUME NEW p \in Procs, NEW h \in Handles, NEW n \in Sizes, filewrite(p, h, n)
      PROVE  DInv'
  BY <1>5, FilewriteDInv
<1>6. ASSUME NEW p \in Procs, WriteBegin(p) PROVE DInv'
  BY <1>6, BeginDInv
<1>7. ASSUME NEW p \in Procs, WriteBlock(p) PROVE DInv'
  BY <1>7, BlockDInv
<1>8. ASSUME NEW p \in Procs, WriteEnd(p) PROVE DInv'
  BY <1>8, EndDInv
<1>9. CASE UNCHANGED vars
  <2>1. /\ UNCHANGED <<disk, lock, reg, logged>> /\ of' = of /\ off' = off
        /\ panicked' = panicked /\ used' = used /\ block' = block /\ ip' = ip /\ lock' = lock
    BY <1>9 DEF vars, disk
  <2>2. TypeOK'
    BY <2>1, Zenon DEF DInv, TypeOK
  <2>3. OffInv'
    BY <2>1 DEF DInv, OffInv
  <2> QED BY <2>1, <2>2, <2>3, Quiet
<1>10. CASE Halted
  <2>1. UNCHANGED vars
    BY <1>10, Zenon DEF Halted
  <2> QED BY <1>9, <2>1
<1> QED BY <1>1, <1>2, <1>3, <1>4, <1>5, <1>6, <1>7, <1>8, <1>9, <1>10 DEF Next

-----------------------------------------------------------------------------
(* What the invariant gives. *)

\* No block is written by a chunk and left out of the inode on disk: whenever
\* nobody has the lock of an inode, iupdate has written it as it is in memory.
THEOREM DinodeCorrect == Spec => []DinodeCurrent
<1>1. DInv => DinodeCurrent
  <2> SUFFICES ASSUME DInv, NEW f \in Inodes, lock[f] = None PROVE dinode[f] = ip[f]
    BY DEF DinodeCurrent
  <2>1. Extent(f) = ip[f].size
    BY ExtentType
  <2> QED BY <2>1 DEF DInv, DiskInv
<1>2. Init => DInv
  BY InitDInv
<1> QED BY <1>1, <1>2, NextDInv, PTL DEF Spec

LEMMA ImageCount ==
    ASSUME NEW S, IsFiniteSet(S), NEW T, NEW G \in [S -> T], \A t \in T : \E x \in S : G[x] = t
    PROVE  /\ IsFiniteSet(T) /\ Cardinality(T) <= Cardinality(S)
           /\ (\A x, y \in S : G[x] = G[y] => x = y) => Cardinality(T) = Cardinality(S)
<1>1. G \in Surjection(S, T)
  BY DEF Surjection
<1>2. (\A x, y \in S : G[x] = G[y] => x = y) => G \in Injection(S, T)
  BY DEF Injection, IsInjective
<1> QED BY <1>1, <1>2, FS_Surjection

\* The free map is exact because every pointer is to a block of its own.
LEMMA OwnedFromOwn ==
    ASSUME DInv
    PROVE  BlocksOwned
<1> DEFINE direct == {ip[x[1]].addrs[x[2]] : x \in Direct}
           indirect == {Data(x[1], NDIRECT + x[2]) : x \in Indirect}
           sl(x) == IF x[2] = NDIRECT THEN MAXFILE ELSE x[2]
           si(x) == NDIRECT + x[2]
<1>1. ASSUME NEW x \in Direct
      PROVE  /\ x[1] \in Inodes /\ x[2] \in 0..NDIRECT /\ x = <<x[1], x[2]>>
             /\ sl(x) \in Slots /\ ip[x[1]].addrs[x[2]] = Ptr(x[1], sl(x))
             /\ ip[x[1]].addrs[x[2]] # 0
             /\ sl(x) = MAXFILE \/ sl(x) < NDIRECT
             /\ x[2] = IF sl(x) = MAXFILE THEN NDIRECT ELSE sl(x)
  <2>1. /\ x[1] \in Inodes /\ x[2] \in 0..NDIRECT /\ x = <<x[1], x[2]>>
        /\ ip[x[1]].addrs[x[2]] # 0
    BY DEF Direct
  <2>2. CASE x[2] = NDIRECT
    BY <2>1, <2>2, Places DEF Ptr
  <2>3. CASE x[2] # NDIRECT
    <3>1. x[2] < NDIRECT /\ x[2] \in Slots /\ x[2] # MAXFILE
      BY <2>1, <2>3, Places DEF Slots
    <3> QED BY <2>1, <2>3, <3>1 DEF Ptr, Data
  <2> QED BY <2>2, <2>3
<1>2. ASSUME NEW x \in Indirect
      PROVE  /\ x[1] \in Inodes /\ x[2] \in Words /\ x = <<x[1], x[2]>>
             /\ si(x) \in Slots /\ Data(x[1], si(x)) = Ptr(x[1], si(x))
             /\ Data(x[1], si(x)) # 0 /\ si(x) # MAXFILE /\ ~(si(x) < NDIRECT)
             /\ x[2] = si(x) - NDIRECT
  <2>1. /\ x[1] \in Inodes /\ x[2] \in Words /\ x = <<x[1], x[2]>>
        /\ Data(x[1], si(x)) # 0
    BY DEF Indirect
  <2>2. si(x) \in Slots /\ si(x) # MAXFILE /\ ~(si(x) < NDIRECT) /\ x[2] = si(x) - NDIRECT
    BY <2>1, Places DEF Slots, Words
  <2> QED BY <2>1, <2>2 DEF Ptr
<1>3. ASSUME NEW f \in Inodes, NEW k \in Slots, Ptr(f, k) # 0
      PROVE  Ptr(f, k) \in direct \cup indirect
  <2>1. CASE k = MAXFILE
    <3>1. <<f, NDIRECT>> \in Direct
      BY <1>3, <2>1, Places DEF Direct, Ptr
    <3>2. Ptr(f, k) = ip[<<f, NDIRECT>>[1]].addrs[<<f, NDIRECT>>[2]]
      BY <2>1 DEF Ptr
    <3> QED BY <3>1, <3>2
  <2>2. CASE k # MAXFILE /\ k < NDIRECT
    <3>1. k \in 0..NDIRECT
      BY <2>2, Places DEF Slots
    <3>2. Ptr(f, k) = ip[f].addrs[k]
      BY <2>2 DEF Ptr, Data
    <3>3. <<f, k>> \in Direct
      BY <1>3, <3>1, <3>2 DEF Direct
    <3>4. Ptr(f, k) = ip[<<f, k>>[1]].addrs[<<f, k>>[2]]
      BY <3>2
    <3> QED BY <3>3, <3>4
  <2>3. CASE k # MAXFILE /\ ~(k < NDIRECT)
    <3>1. PICK w \in Words : k = NDIRECT + w
      <4>1. k - NDIRECT \in Words /\ k = NDIRECT + (k - NDIRECT)
        BY <2>3, Places DEF Slots, Words
      <4> QED BY <4>1
    <3>2. Ptr(f, k) = Data(f, NDIRECT + w)
      BY <2>3, <3>1 DEF Ptr
    <3>3. <<f, w>> \in Indirect
      BY <1>3, <3>1, <3>2 DEF Indirect
    <3>4. Ptr(f, k) = Data(<<f, w>>[1], NDIRECT + <<f, w>>[2])
      BY <3>2
    <3> QED BY <3>3, <3>4
  <2> QED BY <2>1, <2>2, <2>3
<1>4. 0 \notin used
  <2>1. 0 \notin Blocks
    BY SizeAssumption DEF Blocks
  <2> QED BY <2>1, Types DEF DInv
<1>5. used = direct \cup indirect
  <2>1. ASSUME NEW b \in used PROVE b \in direct \cup indirect
    <3>1. PICK f \in Inodes, k \in Slots : Ptr(f, k) = b /\ b # 0
      BY <1>4 DEF DInv, OwnInv
    <3> QED BY <1>3, <3>1
  <2>2. ASSUME NEW b \in direct PROVE b \in used
    <3>1. PICK x \in Direct : b = ip[x[1]].addrs[x[2]]
      OBVIOUS
    <3>2. b = Ptr(x[1], sl(x)) /\ b # 0 /\ x[1] \in Inodes /\ sl(x) \in Slots
      BY <1>1, <3>1
    <3> HIDE DEF sl
    <3> QED BY <3>2 DEF DInv, OwnInv
  <2>3. ASSUME NEW b \in indirect PROVE b \in used
    <3>1. PICK x \in Indirect : b = Data(x[1], si(x))
      OBVIOUS
    <3>2. b = Ptr(x[1], si(x)) /\ b # 0 /\ x[1] \in Inodes /\ si(x) \in Slots
      BY <1>2, <3>1
    <3> HIDE DEF si
    <3> QED BY <3>2 DEF DInv, OwnInv
  <2> HIDE DEF direct, indirect
  <2> QED BY <2>1, <2>2, <2>3
<1>6. direct \cap indirect = {}
  <2> SUFFICES ASSUME NEW x \in Direct, NEW y \in Indirect,
                      ip[x[1]].addrs[x[2]] = Data(y[1], si(y))
               PROVE  FALSE
    OBVIOUS
  <2>1. Ptr(x[1], sl(x)) = Ptr(y[1], si(y)) /\ Ptr(x[1], sl(x)) # 0
    BY <1>1, <1>2
  <2>2. /\ x[1] \in Inodes /\ y[1] \in Inodes /\ sl(x) \in Slots /\ si(y) \in Slots
        /\ sl(x) = MAXFILE \/ sl(x) < NDIRECT
        /\ si(y) # MAXFILE /\ ~(si(y) < NDIRECT)
    BY <1>1, <1>2
  <2> HIDE DEF sl, si
  <2>3. sl(x) = si(y)
    BY <2>1, <2>2 DEF DInv, OwnInv
  <2> QED BY <2>2, <2>3
<1>7. IsFiniteSet(Direct) /\ IsFiniteSet(Indirect)
  <2>1. IsFiniteSet(0..NDIRECT) /\ IsFiniteSet(Words)
    BY Places, FS_Interval DEF Words
  <2>2. IsFiniteSet(Inodes \X (0..NDIRECT)) /\ IsFiniteSet(Inodes \X Words)
    BY <2>1, FS_Product, InodesAssumption
  <2>3. Direct \in SUBSET (Inodes \X (0..NDIRECT)) /\ Indirect \in SUBSET (Inodes \X Words)
    BY DEF Direct, Indirect
  <2> QED BY <2>2, <2>3, FS_Subset
<1>8. IsFiniteSet(direct) /\ Cardinality(direct) = Cardinality(Direct)
  <2> DEFINE G == [x \in Direct |-> ip[x[1]].addrs[x[2]]]
  <2>1. G \in [Direct -> direct] /\ \A t \in direct : \E x \in Direct : G[x] = t
    OBVIOUS
  <2>2. ASSUME NEW x \in Direct, NEW y \in Direct, G[x] = G[y] PROVE x = y
    <3>1. Ptr(x[1], sl(x)) = Ptr(y[1], sl(y)) /\ Ptr(x[1], sl(x)) # 0
      BY <1>1, <2>2
    <3>2. /\ x[1] \in Inodes /\ y[1] \in Inodes /\ sl(x) \in Slots /\ sl(y) \in Slots
          /\ x = <<x[1], x[2]>> /\ y = <<y[1], y[2]>>
          /\ x[2] = IF sl(x) = MAXFILE THEN NDIRECT ELSE sl(x)
          /\ y[2] = IF sl(y) = MAXFILE THEN NDIRECT ELSE sl(y)
      BY <1>1
    <3> HIDE DEF sl, G
    <3>3. x[1] = y[1] /\ sl(x) = sl(y)
      BY <3>1, <3>2 DEF DInv, OwnInv
    <3>4. x[2] = y[2]
      BY <3>2, <3>3
    <3> QED BY <3>2, <3>3, <3>4
  <2> HIDE DEF G, direct
  <2> QED BY <1>7, <2>1, <2>2, ImageCount
<1>9. IsFiniteSet(indirect) /\ Cardinality(indirect) = Cardinality(Indirect)
  <2> DEFINE G == [x \in Indirect |-> Data(x[1], NDIRECT + x[2])]
  <2>1. G \in [Indirect -> indirect] /\ \A t \in indirect : \E x \in Indirect : G[x] = t
    OBVIOUS
  <2>2. ASSUME NEW x \in Indirect, NEW y \in Indirect, G[x] = G[y] PROVE x = y
    <3>1. Ptr(x[1], si(x)) = Ptr(y[1], si(y)) /\ Ptr(x[1], si(x)) # 0
      BY <1>2, <2>2
    <3>2. /\ x[1] \in Inodes /\ y[1] \in Inodes /\ si(x) \in Slots /\ si(y) \in Slots
          /\ x = <<x[1], x[2]>> /\ y = <<y[1], y[2]>>
          /\ x[2] = si(x) - NDIRECT /\ y[2] = si(y) - NDIRECT
      BY <1>2
    <3> HIDE DEF si, G
    <3>3. x[1] = y[1] /\ si(x) = si(y)
      BY <3>1, <3>2 DEF DInv, OwnInv
    <3>4. x[2] = y[2]
      BY <3>2, <3>3
    <3> QED BY <3>2, <3>3, <3>4
  <2> HIDE DEF G, indirect
  <2> QED BY <1>7, <2>1, <2>2, ImageCount
<1> HIDE DEF direct, indirect
<1>10. Cardinality(used) = Cardinality(Direct) + Cardinality(Indirect)
  <2>1. Cardinality(direct \cup indirect)
            = Cardinality(direct) + Cardinality(indirect) - Cardinality(direct \cap indirect)
    BY <1>8, <1>9, FS_Union
  <2>2. Cardinality(direct \cap indirect) = 0
    BY <1>6, FS_EmptySet
  <2>3. Cardinality(direct) \in Nat /\ Cardinality(indirect) \in Nat
    BY <1>8, <1>9, FS_CardinalityType
  <2> QED BY <1>5, <1>8, <1>9, <2>1, <2>2, <2>3
<1> QED BY <1>5, <1>10 DEF BlocksOwned, direct, indirect

\* A block is marked in the free map if and only if exactly one place points to
\* it: balloc never gives out a block that a file has, itrunc frees every block
\* of the file and none twice ("freeing free block" is not reached), bmap is not
\* asked for a block past the last and readi meets no block that is not there.
THEOREM BlocksCorrect == Spec => []BlocksOK
<1>1. DInv => BlocksOK
  BY OwnedFromOwn DEF BlocksOK, DInv
<1>2. Init => DInv
  BY InitDInv
<1> QED BY <1>1, <1>2, NextDInv, PTL DEF Spec

-----------------------------------------------------------------------------
(* How much a chunk writes to the log. *)

LEMMA SpanBounds ==
    ASSUME NEW s \in Nat, NEW n \in Nat, NEW K \in Nat, n <= K * BSIZE, NEW k \in Span(s, s + n)
    PROVE  /\ k \in Nat /\ s \div BSIZE <= k /\ k <= (s \div BSIZE) + K
           /\ s % BSIZE = 0 => k <= (s \div BSIZE) + K - 1
<1>1. PICK P \in Nat : P = BSIZE /\ P > 0
  BY SizeAssumption
<1>2. PICK i \in s..(s + n - 1) : k = i \div BSIZE
  BY DEF Span
<1>3. PICK w \in Words : i \in Nat /\ k \in Nat /\ i = P * k + w /\ w < P /\ w >= 0 /\ w \in Nat
  BY <1>1, <1>2, DivMod DEF Words
<1>4. PICK d \in Nat, r \in Nat : /\ d = s \div BSIZE /\ r = s % BSIZE /\ r < P
                                  /\ s = P * d + r
  BY <1>1, DivMod DEF Words
<1>5. i >= P * d + r /\ i < P * d + r + K * P
  BY <1>1, <1>2, <1>4
<1>6. /\ P * (d + K) = P * d + K * P /\ P * (d + K + 1) = P * d + K * P + P
      /\ P * (k + 1) = P * k + P
  BY <1>1, <1>3, <1>4
<1>7. PICK x \in Nat, y \in Nat, z \in Nat : x = P * d /\ y = P * k /\ z = K * P
  BY <1>1, <1>3, <1>4
<1>8. d <= k
  <2>1. SUFFICES ASSUME k + 1 <= d PROVE FALSE
    BY <1>3, <1>4
  <2>2. P * (k + 1) <= P * d
    BY <1>1, <1>3, <1>4, <2>1
  <2> QED BY <1>1, <1>3, <1>4, <1>5, <1>6, <1>7, <2>2
<1>9. k <= d + K
  <2>1. SUFFICES ASSUME d + K + 1 <= k PROVE FALSE
    BY <1>3, <1>4
  <2>2. P * (d + K + 1) <= P * k
    BY <1>1, <1>3, <1>4, <2>1
  <2> QED BY <1>1, <1>3, <1>4, <1>5, <1>6, <1>7, <2>2
<1>10. r = 0 => k <= d + K - 1
  <2>1. SUFFICES ASSUME r = 0, d + K <= k PROVE FALSE
    BY <1>3, <1>4
  <2>2. P * (d + K) <= P * k
    BY <1>1, <1>3, <1>4, <2>1
  <2> QED BY <1>1, <1>3, <1>4, <1>5, <1>6, <1>7, <2>1, <2>2
<1> QED BY <1>3, <1>4, <1>8, <1>9, <1>10

LEMMA SpanCount ==
    ASSUME NEW s \in Nat, NEW n \in Nat, NEW K \in Nat, n <= K * BSIZE
    PROVE  /\ IsFiniteSet(Span(s, s + n)) /\ IsFiniteSet(Span(s, s + n) \ First(s))
           /\ Cardinality(Span(s, s + n)) + Cardinality(Span(s, s + n) \ First(s)) <= 2 * K + 1
<1>1. PICK d \in Nat, r \in Nat : d = s \div BSIZE /\ r = s % BSIZE
  BY DivMod DEF Words
<1>2. \A k \in Span(s, s + n) : k \in Nat /\ d <= k /\ k <= d + K /\ (r = 0 => k <= d + K - 1)
  BY <1>1, SpanBounds
<1> DEFINE S == Span(s, s + n)
           R == Span(s, s + n) \ First(s)
<1>3. CASE r = 0
  <2>1. S \in SUBSET (d..(d + K - 1)) /\ R \in SUBSET (d..(d + K - 1))
    BY <1>2, <1>3
  <2>2. IsFiniteSet(d..(d + K - 1)) /\ Cardinality(d..(d + K - 1)) = K
    <3>1. PICK e \in Int : e = d + K - 1 /\ d \in Int
      OBVIOUS
    <3>2. IsFiniteSet(d..e) /\ Cardinality(d..e) = IF d > e THEN 0 ELSE e - d + 1
      BY <3>1, FS_Interval
    <3> QED BY <3>1, <3>2
  <2> HIDE DEF S, R
  <2>3. /\ IsFiniteSet(S) /\ IsFiniteSet(R) /\ Cardinality(S) <= K /\ Cardinality(R) <= K
        /\ Cardinality(S) \in Nat /\ Cardinality(R) \in Nat
    <3>1. /\ IsFiniteSet(S) /\ Cardinality(S) <= Cardinality(d..(d + K - 1))
          /\ IsFiniteSet(R) /\ Cardinality(R) <= Cardinality(d..(d + K - 1))
      BY <2>1, <2>2, FS_Subset, Zenon
    <3> QED BY <2>2, <3>1, FS_CardinalityType
  <2>4. Cardinality(S) + Cardinality(R) <= 2 * K + 1
    BY <2>3
  <2> QED BY <2>3, <2>4 DEF S, R
<1>4. CASE r # 0
  <2>0. First(s) = {d}
    BY <1>1, <1>4 DEF First
  <2>1. S \in SUBSET (d..(d + K)) /\ R \in SUBSET ((d + 1)..(d + K))
    BY <1>2, <2>0
  <2>2. /\ IsFiniteSet(d..(d + K)) /\ Cardinality(d..(d + K)) = K + 1
        /\ IsFiniteSet((d + 1)..(d + K)) /\ Cardinality((d + 1)..(d + K)) = K
    <3>1. PICK e \in Int, c \in Int : e = d + K /\ c = d + 1 /\ d \in Int
      OBVIOUS
    <3>2. /\ IsFiniteSet(d..e) /\ Cardinality(d..e) = IF d > e THEN 0 ELSE e - d + 1
          /\ IsFiniteSet(c..e) /\ Cardinality(c..e) = IF c > e THEN 0 ELSE e - c + 1
      BY <3>1, FS_Interval
    <3> QED BY <3>1, <3>2
  <2> HIDE DEF S, R
  <2>3. /\ IsFiniteSet(S) /\ IsFiniteSet(R) /\ Cardinality(S) <= K + 1 /\ Cardinality(R) <= K
        /\ Cardinality(S) \in Nat /\ Cardinality(R) \in Nat
    BY <2>1, <2>2, FS_Subset, FS_CardinalityType, ZenonT(120)
  <2>4. Cardinality(S) + Cardinality(R) <= 2 * K + 1
    BY <2>3
  <2> QED BY <2>3, <2>4 DEF S, R
<1> QED BY <1>3, <1>4

LEMMA UnionCount ==
    ASSUME NEW S, IsFiniteSet(S), NEW T, IsFiniteSet(T)
    PROVE  /\ IsFiniteSet(S \cup T) /\ Cardinality(S) \in Nat /\ Cardinality(T) \in Nat
           /\ Cardinality(S \cup T) \in Nat
           /\ Cardinality(S \cup T) <= Cardinality(S) + Cardinality(T)
<1>1. /\ IsFiniteSet(S \cup T)
      /\ Cardinality(S \cup T) = Cardinality(S) + Cardinality(T) - Cardinality(S \cap T)
  BY FS_Union
<1>2. IsFiniteSet(S \cap T)
  BY FS_Subset
<1>3. /\ Cardinality(S \cap T) \in Nat /\ Cardinality(S) \in Nat /\ Cardinality(T) \in Nat
      /\ Cardinality(S \cup T) \in Nat
  BY <1>1, <1>2, FS_CardinalityType
<1> QED BY <1>1, <1>3

LEMMA LoggableCount ==
    ASSUME NEW f \in Inodes, NEW s \in Nat, NEW n \in Nat, NEW K \in Nat, n <= K * BSIZE
    PROVE  /\ IsFiniteSet(Loggable(f, s, s + n))
           /\ Cardinality(Loggable(f, s, s + n)) \in Nat
           /\ Cardinality(Loggable(f, s, s + n)) <= 2 * K + 3
<1> DEFINE S == Span(s, s + n)
           R == Span(s, s + n) \ First(s)
           x == DBLOCK(Ptr(f, MAXFILE))
           y == BBLOCK(Ptr(f, MAXFILE))
           A == IF Ptr(f, MAXFILE) = 0 THEN {} ELSE {x, y}
           D == {DBLOCK(Ptr(f, k)) : k \in S}
           B == {BBLOCK(Ptr(f, k)) : k \in R}
<1>1. /\ IsFiniteSet(S) /\ IsFiniteSet(R) /\ Cardinality(S) \in Nat /\ Cardinality(R) \in Nat
      /\ Cardinality(S) + Cardinality(R) <= 2 * K + 1
  BY SpanCount, FS_CardinalityType
<1>2. IsFiniteSet(A) /\ Cardinality(A) \in Nat /\ Cardinality(A) <= 2
  <2>1. /\ IsFiniteSet({}) /\ Cardinality({}) = 0
        /\ IsFiniteSet({x}) /\ IsFiniteSet({y}) /\ Cardinality({x}) = 1 /\ Cardinality({y}) = 1
    BY FS_EmptySet, FS_Singleton, Zenon
  <2> HIDE DEF x, y
  <2>2. IsFiniteSet({x} \cup {y}) /\ Cardinality({x} \cup {y}) \in Nat /\ Cardinality({x} \cup {y}) <= 2
    <3>1. /\ IsFiniteSet({x} \cup {y}) /\ Cardinality({x} \cup {y}) \in Nat
          /\ Cardinality({x} \cup {y}) <= Cardinality({x}) + Cardinality({y})
      BY <2>1, UnionCount, Zenon
    <3>2. Cardinality({x} \cup {y}) <= 1 + 1
      BY <2>1, <3>1, Zenon
    <3>3. \A m \in Nat : m <= 1 + 1 => m <= 2
      OBVIOUS
    <3> QED BY <3>1, <3>2, <3>3, Zenon
  <2>3. {x, y} = {x} \cup {y}
    OBVIOUS
  <2> QED BY <2>1, <2>2, <2>3
<1>3. IsFiniteSet(D) /\ Cardinality(D) <= Cardinality(S)
  <2> DEFINE G == [k \in S |-> DBLOCK(Ptr(f, k))]
  <2> HIDE DEF S
  <2>1. G \in [S -> D] /\ \A t \in D : \E k \in S : G[k] = t
    OBVIOUS
  <2> HIDE DEF G, D
  <2> QED BY <1>1, <2>1, ImageCount
<1>4. IsFiniteSet(B) /\ Cardinality(B) <= Cardinality(R)
  <2> DEFINE G == [k \in R |-> BBLOCK(Ptr(f, k))]
  <2> HIDE DEF R
  <2>1. G \in [R -> B] /\ \A t \in B : \E k \in R : G[k] = t
    OBVIOUS
  <2> HIDE DEF G, B
  <2> QED BY <1>1, <2>1, ImageCount
<1>5. Loggable(f, s, s + n) = (A \cup D) \cup B
  BY DEF Loggable
<1> HIDE DEF S, R, A, D, B
<1>6. /\ IsFiniteSet(A \cup D) /\ Cardinality(A \cup D) <= Cardinality(A) + Cardinality(D)
      /\ Cardinality(D) \in Nat /\ Cardinality(A \cup D) \in Nat
  BY <1>2, <1>3, UnionCount
<1>7. /\ IsFiniteSet((A \cup D) \cup B) /\ Cardinality(B) \in Nat
      /\ Cardinality((A \cup D) \cup B) \in Nat
      /\ Cardinality((A \cup D) \cup B) <= Cardinality(A \cup D) + Cardinality(B)
  BY <1>4, <1>6, UnionCount
<1>8. PICK cs \in Nat, cr \in Nat, ca \in Nat, cd \in Nat, cb \in Nat, cu \in Nat, cl \in Nat :
        /\ cs = Cardinality(S) /\ cr = Cardinality(R) /\ ca = Cardinality(A)
        /\ cd = Cardinality(D) /\ cb = Cardinality(B) /\ cu = Cardinality(A \cup D)
        /\ cl = Cardinality((A \cup D) \cup B)
  BY <1>1, <1>2, <1>6, <1>7
<1>9. cl <= 2 * K + 3
  <2>1. cs + cr <= 2 * K + 1 /\ ca <= 2 /\ cd <= cs /\ cb <= cr /\ cu <= ca + cd /\ cl <= cu + cb
    BY <1>1, <1>2, <1>3, <1>4, <1>6, <1>7, <1>8
  <2> QED BY <2>1
<1> QED BY <1>5, <1>7, <1>8, <1>9

\* A chunk of filewrite writes no more blocks than begin_op has reserved: its
\* data blocks, a bitmap block for each that is new, the indirect block with
\* its bitmap block, and the inode.
THEOREM OpCorrect == Spec => []OpFits
<1>1. DInv => OpFits
  <2> SUFFICES ASSUME DInv, NEW p \in Procs, reg[p].pc = "block"
               PROVE  Cardinality(logged[p] \cup {IBLOCK(of[reg[p].h])}) <= MAXOPBLOCKS
    BY DEF OpFits
  <2>1. PICK h \in Handles, f \in Inodes : h = reg[p].h /\ f = of[h]
    BY DEF DInv, RegInv, RegAt
  <2>2. PICK s \in Nat, t \in Nat, n \in Nat : s = off[h] /\ t = reg[p].tot /\ n = reg[p].n1
    <3>1. off[h] \in 0..(MAXFILE * BSIZE) /\ reg[p] \in RegType
      BY Types DEF DInv, RegInv
    <3> QED BY <3>1, Limits DEF RegType
  <2>3. t <= n /\ n <= max
    BY <2>2 DEF DInv, RegInv, RegAt
  <2>4. PICK K \in Nat : max = K * BSIZE /\ max \in Nat /\ 2 * K + 4 <= MAXOPBLOCKS
    BY MaxFacts
  <2>5. t <= K * BSIZE
    BY <2>3, <2>4
  <2> DEFINE L == Loggable(f, s, s + t)
             i == IBLOCK(of[reg[p].h])
  <2>6. IsFiniteSet(L) /\ Cardinality(L) \in Nat /\ Cardinality(L) <= 2 * K + 3
    BY <2>5, LoggableCount
  <2>7. logged[p] \subseteq L
    BY <2>1, <2>2 DEF DInv, LogInv
  <2>8. IsFiniteSet({i}) /\ Cardinality({i}) = 1
    BY FS_Singleton, Zenon
  <2> HIDE DEF L, i
  <2>9. /\ IsFiniteSet(L \cup {i}) /\ Cardinality(L \cup {i}) \in Nat
        /\ Cardinality(L \cup {i}) <= Cardinality(L) + 1
    BY <2>6, <2>8, UnionCount
  <2>10. logged[p] \cup {i} \in SUBSET (L \cup {i})
    BY <2>7
  <2>11. /\ Cardinality(logged[p] \cup {i}) <= Cardinality(L \cup {i})
         /\ Cardinality(logged[p] \cup {i}) \in Nat
    BY <2>9, <2>10, FS_Subset, FS_CardinalityType
  <2>12. MAXOPBLOCKS \in Nat
    BY SizeAssumption
  <2>13. Cardinality(logged[p] \cup {i}) <= MAXOPBLOCKS
    BY <2>4, <2>6, <2>9, <2>11, <2>12
  <2> QED BY <2>13 DEF i
<1>2. Init => DInv
  BY InitDInv
<1> QED BY <1>1, <1>2, NextDInv, PTL DEF Spec

-----------------------------------------------------------------------------
(* Files are sequences of bytes. *)

\* The length and the bytes of a file, as if a chunk under way had been
\* written when it began.
Length(f) ==
    IF lock[f] = None THEN ip[f].size
    ELSE LET e == off[reg[lock[f]].h] + reg[lock[f]].n1
         IN IF e > ip[f].size THEN e ELSE ip[f].size
Byte(f, i) ==
    IF lock[f] # None /\ i > off[reg[lock[f]].h] /\ i <= off[reg[lock[f]].h] + reg[lock[f]].n1
    THEN lock[f] ELSE Word(f, i - 1)

\* The refinement mapping, in these terms.
View ==
    /\ \A f \in Inodes : Length(f) \in Nat /\ AbsBytes(f) = [i \in 1..Length(f) |-> Byte(f, i)]
    /\ \A p \in Procs : reg[p].pc = "block" =>
          AbsOff(reg[p].h) = off[reg[p].h] + reg[p].n1
    /\ \A h \in Handles : (\A p \in Procs : reg[p].pc = "block" => reg[p].h # h) =>
          AbsOff(h) = off[h]

\* The words of a chunk that are not written yet are not read.
LEMMA OneWriter ==
    ASSUME DInv, NEW p \in Procs, NEW q \in Procs, reg[p].pc = "block", reg[q].pc = "block",
           of[reg[p].h] = of[reg[q].h]
    PROVE  p = q
BY DEF DInv, RegInv, RegAt

LEMMA ViewHolds == DInv => View
<1> SUFFICES ASSUME DInv PROVE View
  OBVIOUS
<1>1. ASSUME NEW f \in Inodes, NEW i \in 1..ip[f].size
      PROVE  Contents(f)[i] = Word(f, i - 1)
  <2>1. ip[f].size \in Nat /\ ip[f].size <= Extent(f) /\ Extent(f) \in Nat
    BY ExtentType
  <2>2. i - 1 \in 0..(Extent(f) - 1)
    BY <2>1
  <2>3. Ptr(f, (i - 1) \div BSIZE) = Data(f, (i - 1) \div BSIZE)
    BY <2>2, ExtentHas
  <2> QED BY <2>3 DEF Contents, Word
<1>2. ASSUME NEW f \in Inodes
      PROVE  Length(f) \in Nat /\ AbsBytes(f) = [i \in 1..Length(f) |-> Byte(f, i)]
  <2>0. ip[f].size \in Nat
    BY ExtentType
  <2>1. CASE lock[f] = None
    <3>1. Length(f) = ip[f].size /\ AbsBytes(f) = Contents(f)
      BY <2>1 DEF Length, AbsBytes, Writing
    <3>2. \A i \in 1..ip[f].size : Byte(f, i) = Word(f, i - 1)
      BY <2>1 DEF Byte
    <3>3. Contents(f) = [i \in 1..ip[f].size |-> Contents(f)[i]]
      BY DEF Contents
    <3> QED BY <1>1, <2>0, <3>1, <3>2, <3>3
  <2>2. CASE lock[f] # None
    <3>1. PICK p \in Procs : /\ p = lock[f] /\ reg[p].pc = "block" /\ reg[p].h \in Handles
                             /\ of[reg[p].h] = f
      BY <2>2, ExtentType
    <3>2. PICK o \in Nat, n \in Nat, z \in Nat :
             o = off[reg[p].h] /\ n = reg[p].n1 /\ z = ip[f].size
      <4>1. off[reg[p].h] \in 0..(MAXFILE * BSIZE) /\ reg[p] \in RegType
        BY <3>1, Types DEF DInv, RegInv
      <4> QED BY <2>0, <4>1, Limits DEF RegType
    <3>3. o <= z
      BY <3>1, <3>2, NoneAssumption DEF DInv, OffInv
    <3>4. Length(f) = IF o + n > z THEN o + n ELSE z
      BY <2>2, <3>1, <3>2 DEF Length
    <3>5. Max({z, o + n}) = Length(f)
      <4>1. Max({z, o + n}) = IF z >= o + n THEN z ELSE o + n
        BY MaxOfTwo
      <4> QED BY <3>2, <3>4, <4>1
    <3>6. AbsBytes(f) = [i \in 1..Max({z, o + n}) |->
                            IF i > o /\ i <= o + n THEN p ELSE Contents(f)[i]]
      BY <2>2, <3>1, <3>2 DEF AbsBytes, Writing
    <3>7. ASSUME NEW i \in 1..Length(f)
          PROVE  (IF i > o /\ i <= o + n THEN p ELSE Contents(f)[i]) = Byte(f, i)
      <4>1. CASE i > o /\ i <= o + n
        BY <2>2, <3>1, <3>2, <4>1 DEF Byte
      <4>2. CASE ~(i > o /\ i <= o + n)
        <5>1. i \in 1..ip[f].size
          BY <3>2, <3>3, <3>4, <3>7, <4>2
        <5>2. Byte(f, i) = Word(f, i - 1)
          BY <2>2, <3>1, <3>2, <4>2 DEF Byte
        <5>3. Contents(f)[i] = Word(f, i - 1)
          BY <1>1, <5>1
        <5> QED BY <4>2, <5>2, <5>3
      <4> QED BY <4>1, <4>2
    <3>8. Length(f) \in Nat
      BY <3>2, <3>4
    <3> QED BY <3>5, <3>6, <3>7, <3>8
  <2> QED BY <2>1, <2>2
<1>3. ASSUME NEW p \in Procs, reg[p].pc = "block"
      PROVE  AbsOff(reg[p].h) = off[reg[p].h] + reg[p].n1
  <2> DEFINE Q(q) == reg[q].h = reg[p].h /\ reg[q].pc = "block"
  <2>1. \A q \in Procs : Q(q) => q = p
    BY <1>3, OneWriter
  <2>2. (CHOOSE q \in Procs : Q(q)) = p
    BY <1>3, <2>1
  <2> QED BY <1>3, <2>2 DEF AbsOff
<1>4. ASSUME NEW h \in Handles, \A p \in Procs : reg[p].pc = "block" => reg[p].h # h
      PROVE  AbsOff(h) = off[h]
  <2>1. off[h] \in Nat
    <3>1. off[h] \in 0..(MAXFILE * BSIZE)
      BY Types DEF DInv
    <3> QED BY <3>1, Limits
  <2> QED BY <1>4, <2>1 DEF AbsOff
<1> QED BY <1>2, <1>3, <1>4 DEF View

LEMMA ViewNext == DInv' => View'
BY ViewHolds, PTL

\* The files and the offsets of the abstract specification.
AB == [f \in Inodes |-> AbsBytes(f)]
AO == [h \in Handles |-> AbsOff(h)]

LEMMA BytesKept ==
    ASSUME View, View', NEW f \in Inodes, Length(f)' = Length(f),
           \A i \in 1..Length(f) : Byte(f, i)' = Byte(f, i)
    PROVE  AbsBytes(f)' = AbsBytes(f)
<1>1. AbsBytes(f) = [i \in 1..Length(f) |-> Byte(f, i)]
  BY DEF View
<1>2. AbsBytes(f)' = [i \in 1..Length(f)' |-> Byte(f, i)']
  BY DEF View
<1> QED BY <1>1, <1>2

\* A step that changes no inode, no block and no chunk under way.
LEMMA BytesFrame ==
    ASSUME DInv, DInv', UNCHANGED disk, UNCHANGED lock,
           \A f \in Inodes : lock[f] # None =>
                /\ reg'[lock[f]] = reg[lock[f]]
                /\ off'[reg[lock[f]].h] = off[reg[lock[f]].h]
    PROVE  AB' = AB
<1>0. View /\ View'
  BY ViewHolds, ViewNext
<1>1. ASSUME NEW f \in Inodes PROVE AbsBytes(f)' = AbsBytes(f)
  <2>1. ip' = ip /\ block' = block /\ lock' = lock
    BY DEF disk
  <2>2. \A i : Word(f, i)' = Word(f, i)
    BY <2>1, PtrSame
  <2>3. Length(f)' = Length(f)
    BY <2>1 DEF Length
  <2>4. \A i \in 1..Length(f) : Byte(f, i)' = Byte(f, i)
    BY <2>1, <2>2 DEF Byte
  <2> QED BY <1>0, <2>3, <2>4, BytesKept
<1> QED BY <1>1 DEF AB

LEMMA OffKept ==
    ASSUME DInv, DInv', NEW h \in Handles, off'[h] = off[h],
           \A p \in Procs : reg'[p].pc = "block" /\ reg'[p].h = h <=> reg[p].pc = "block" /\ reg[p].h = h,
           \A p \in Procs : reg[p].pc = "block" => reg'[p].n1 = reg[p].n1
    PROVE  AbsOff(h)' = AbsOff(h)
<1>0. View /\ View'
  BY ViewHolds, ViewNext
<1>1. CASE \E p \in Procs : reg[p].pc = "block" /\ reg[p].h = h
  <2>1. PICK p \in Procs : reg[p].pc = "block" /\ reg[p].h = h
    BY <1>1
  <2>2. AbsOff(reg[p].h) = off[reg[p].h] + reg[p].n1
    BY <1>0, <2>1 DEF View
  <2>3. AbsOff(h)' = off'[h] + reg'[p].n1
    <3>1. reg'[p].pc = "block" /\ reg'[p].h = h
      BY <2>1
    <3>2. AbsOff(reg[p].h)' = off'[reg'[p].h] + reg'[p].n1
      BY <1>0, <3>1 DEF View
    <3>3. AbsOff(reg[p].h)' = AbsOff(h)'
      BY <3>1 DEF AbsOff
    <3> QED BY <3>1, <3>2, <3>3
  <2> QED BY <2>1, <2>2, <2>3
<1>2. CASE ~ \E p \in Procs : reg[p].pc = "block" /\ reg[p].h = h
  <2>1. AbsOff(h) = off[h]
    BY <1>0, <1>2 DEF View
  <2>2. \A p \in Procs : reg'[p].pc = "block" => reg'[p].h # h
    BY <1>2
  <2>3. AbsOff(h)' = off'[h]
    BY <1>0, <2>2 DEF View
  <2> QED BY <2>1, <2>3
<1> QED BY <1>1, <1>2

LEMMA InitBytes ==
    ASSUME Init
    PROVE  F!BInit
<1>1. /\ ip = [f \in Inodes |-> NewInode] /\ off = [h \in Handles |-> 0]
      /\ of = [h \in Handles |-> None] /\ lock = [f \in Inodes |-> None]
      /\ reg = [p \in Procs |-> Idle] /\ got = <<>>
  BY Zenon DEF Init
<1>2. DInv /\ View
  BY InitDInv, ViewHolds
<1>3. ASSUME NEW f \in Inodes PROVE AbsBytes(f) = <<>>
  <2>1. Length(f) = 0
    BY <1>1 DEF Length, NewInode
  <2>2. AbsBytes(f) = [i \in 1..0 |-> Byte(f, i)]
    BY <1>2, <2>1 DEF View
  <2> QED BY <2>2
<1>4. ASSUME NEW h \in Handles PROVE AbsOff(h) = 0
  <2>1. \A p \in Procs : reg[p].pc # "block"
    BY <1>1 DEF Idle
  <2>2. AbsOff(h) = off[h]
    BY <1>2, <2>1 DEF View
  <2> QED BY <1>1, <2>2
<1> QED BY <1>1, <1>3, <1>4 DEF F!BInit

\* The offset of an open file is set to 0: open, and the end of a close.
LEMMA ReopenBytes ==
    ASSUME DInv, DInv', NEW h \in Handles, off' = [off EXCEPT ![h] = 0],
           UNCHANGED <<disk, lock, reg>>, \A p \in Procs : reg[p].pc = "block" => reg[p].h # h
    PROVE  AB' = AB /\ AO' = [AO EXCEPT ![h] = 0]
<1>0. View /\ View'
  BY ViewHolds, ViewNext
<1>1. off \in [Handles -> 0..(MAXFILE * BSIZE)] /\ lock' = lock /\ reg' = reg
  BY Types DEF DInv
<1>2. AB' = AB
  <2>1. \A f \in Inodes : lock[f] # None =>
            lock[f] \in Procs /\ reg[lock[f]].pc = "block" /\ reg[lock[f]].h \in Handles
    BY ExtentType
  <2> QED BY <1>1, <2>1, BytesFrame
<1>3. AbsOff(h)' = 0
  <2>1. AbsOff(h)' = off'[h]
    BY <1>0, <1>1 DEF View
  <2> QED BY <1>1, <2>1
<1>4. ASSUME NEW x \in Handles, x # h PROVE AbsOff(x)' = AbsOff(x)
  BY <1>1, <1>4, OffKept
<1> QED BY <1>2, <1>3, <1>4 DEF AO

LEMMA ReadBytes ==
    ASSUME DInv, DInv', NEW h \in Handles, NEW n \in Sizes, fileread(h, n)
    PROVE  AB' = AB /\ F!Read(h)
<1>0. View /\ View'
  BY ViewHolds, ViewNext
<1>1. PICK f \in Inodes, m \in Nat, o \in Nat : Reads(h, n, f, m, o)
  BY ReadFacts
<1>2. /\ f = of[h] /\ o = off[h] /\ lock[f] = None /\ o + m <= ip[f].size
      /\ m = 0 => o = ip[f].size
      /\ \A k \in 1..m : o + k - 1 \in 0..(Extent(f) - 1)
      /\ got' = [k \in 1..m |-> block[Data(f, (off[h] + k - 1) \div BSIZE)]
                                     [(off[h] + k - 1) % BSIZE]]
      /\ off' = [off EXCEPT ![h] = @ + m]
      /\ UNCHANGED <<disk, of, lock, reg, logged, panicked>>
  BY <1>1 DEF Reads
<1>3. off \in [Handles -> 0..(MAXFILE * BSIZE)] /\ lock' = lock /\ reg' = reg /\ of' = of
  BY <1>2, Types DEF DInv
<1>4. \A p \in Procs : reg[p].pc = "block" => reg[p].h # h
  BY <1>2, NoneAssumption DEF DInv, RegInv, RegAt
<1>5. AB' = AB
  <2>1. \A g \in Inodes : lock[g] # None =>
            lock[g] \in Procs /\ reg[lock[g]].pc = "block" /\ reg[lock[g]].h \in Handles
    BY ExtentType
  <2> QED BY <1>2, <1>3, <1>4, <2>1, BytesFrame
<1>6. AbsOff(h) = o /\ AbsOff(h)' = o + m
  <2>1. AbsOff(h) = off[h] /\ AbsOff(h)' = off'[h]
    BY <1>0, <1>3, <1>4 DEF View
  <2> QED BY <1>2, <1>3, <2>1
<1>7. ASSUME NEW x \in Handles, x # h PROVE AbsOff(x)' = AbsOff(x)
  BY <1>2, <1>3, <1>7, OffKept
<1>8. AO' = [AO EXCEPT ![h] = @ + m] /\ AO[h] = o
  BY <1>6, <1>7 DEF AO
<1>9. PICK z \in Nat : z = ip[f].size /\ o + m <= z
  BY <1>2, ExtentType
<1>10. AbsBytes(f) = [i \in 1..z |-> Word(f, i - 1)]
  <2>1. Length(f) = z /\ \A i \in 1..z : Byte(f, i) = Word(f, i - 1)
    BY <1>2, <1>9 DEF Length, Byte
  <2> QED BY <1>0, <2>1 DEF View
<1>11. Len(AbsBytes(f)) = z
  BY <1>10
<1>12. got' = SubSeq(AbsBytes(f), o + 1, o + m)
  <2>1. SubSeq(AbsBytes(f), o + 1, o + m) = [k \in 1..m |-> AbsBytes(f)[k + (o + 1) - 1]]
    BY <1>9, <1>10
  <2>2. ASSUME NEW k \in 1..m
        PROVE  AbsBytes(f)[k + (o + 1) - 1] = block[Data(f, (off[h] + k - 1) \div BSIZE)]
                                                   [(off[h] + k - 1) % BSIZE]
    <3>1. k + (o + 1) - 1 \in 1..z /\ (k + (o + 1) - 1) - 1 = o + k - 1
      BY <1>9
    <3>2. AbsBytes(f)[k + (o + 1) - 1] = Word(f, o + k - 1)
      BY <1>10, <3>1
    <3>3. Ptr(f, (o + k - 1) \div BSIZE) = Data(f, (o + k - 1) \div BSIZE)
      BY <1>2, ExtentHas
    <3> QED BY <1>2, <3>2, <3>3 DEF Word
  <2> QED BY <1>2, <2>1, <2>2
<1>13. of[h] # None /\ AB[of[h]] = AbsBytes(f) /\ m \in 0..(z - o)
  BY <1>2, <1>9, NoneAssumption DEF AB
<1>14. \E k \in 0..(Len(AB[of[h]]) - AO[h]) :
          /\ got' = SubSeq(AB[of[h]], AO[h] + 1, AO[h] + k)
          /\ AO' = [AO EXCEPT ![h] = @ + k]
          /\ k = 0 => AO[h] = Len(AB[of[h]])
  <2>1. /\ m \in 0..(Len(AB[of[h]]) - AO[h])
        /\ got' = SubSeq(AB[of[h]], AO[h] + 1, AO[h] + m)
        /\ m = 0 => AO[h] = Len(AB[of[h]])
    BY <1>2, <1>8, <1>9, <1>11, <1>12, <1>13
  <2> QED BY <1>8, <2>1
<1> QED BY <1>3, <1>5, <1>13, <1>14 DEF F!Read, AB, AO

LEMMA TruncBytes ==
    ASSUME DInv, DInv', NEW f \in Inodes, itrunc(f)
    PROVE  F!Discard(f)
<1>0. View /\ View'
  BY ViewHolds, ViewNext
<1>1. /\ lock[f] = None /\ \A h \in Handles : of[h] # f
      /\ ip' = [ip EXCEPT ![f] = NewInode]
      /\ block' = block /\ of' = of /\ off' = off /\ lock' = lock /\ reg' = reg
      /\ got' = <<>>
  BY TruncFacts
<1>2. ip'[f] = NewInode /\ \A g \in Inodes \ {f} : ip'[g] = ip[g]
  BY <1>1, Types DEF DInv
<1>3. AbsBytes(f)' = <<>>
  <2>1. Length(f)' = 0
    BY <1>1, <1>2 DEF Length, NewInode
  <2>2. AbsBytes(f)' = [i \in 1..0 |-> Byte(f, i)']
    BY <1>0, <2>1 DEF View
  <2> QED BY <2>2
<1>4. ASSUME NEW g \in Inodes \ {f} PROVE AbsBytes(g)' = AbsBytes(g)
  <2>1. \A i : Word(g, i)' = Word(g, i)
    BY <1>1, <1>2, PtrSame
  <2>2. Length(g)' = Length(g)
    BY <1>1, <1>2 DEF Length
  <2>3. \A i \in 1..Length(g) : Byte(g, i)' = Byte(g, i)
    BY <1>1, <2>1 DEF Byte
  <2> QED BY <1>0, <2>2, <2>3, BytesKept
<1>5. AB' = [AB EXCEPT ![f] = <<>>]
  BY <1>3, <1>4 DEF AB
<1>6. AO' = AO
  BY <1>1 DEF AO, AbsOff
<1> QED BY <1>1, <1>5, <1>6 DEF F!Discard, AB, AO

LEMMA MoveBytes ==
    ASSUME DInv, DInv', NEW p \in Procs, NEW r, reg' = [reg EXCEPT ![p] = r],
           reg[p].pc # "block", r.pc # "block", UNCHANGED <<disk, off, lock>>
    PROVE  AB' = AB /\ AO' = AO
<1>1. /\ reg'[p] = r /\ \A q \in Procs \ {p} : reg'[q] = reg[q]
      /\ off' = off /\ lock' = lock
  BY DEF DInv, RegInv
<1>2. AB' = AB
  <2>1. \A f \in Inodes : lock[f] # None => lock[f] \in Procs /\ reg[lock[f]].pc = "block"
    BY ExtentType
  <2> QED BY <1>1, <2>1, BytesFrame
<1>3. ASSUME NEW h \in Handles PROVE AbsOff(h)' = AbsOff(h)
  BY <1>1, OffKept
<1> QED BY <1>2, <1>3 DEF AO

\* A chunk counts as written when it begins.
LEMMA BeginBytes ==
    ASSUME DInv, DInv', NEW p \in Procs, WriteBegin(p)
    PROVE  \/ AB' = AB /\ AO' = AO /\ of' = of /\ got' = <<>>
           \/ \E h \in Handles : F!Write(h)
<1>0. View /\ View'
  BY ViewHolds, ViewNext
<1>1. PICK h \in Handles, f \in Inodes, n1 \in Nat : Begins(p, h, f, n1)
  BY BeginFacts
<1>2. /\ reg[p].pc = "chunk" /\ h = reg[p].h /\ f = of[h] /\ lock[f] = None /\ n1 > 0
      /\ UNCHANGED <<disk, of, off, panicked>> /\ got' = <<>>
      /\ of' = of /\ off' = off /\ ip' = ip /\ block' = block
  BY <1>1 DEF Begins, disk
<1>3. CASE reg' = [reg EXCEPT ![p] = Idle] /\ UNCHANGED <<lock, logged>>
  <2>1. Idle.pc # "block"
    BY DEF Idle
  <2> QED BY <1>2, <1>3, <2>1, MoveBytes
<1>4. CASE /\ ~(off[h] > ip[f].size \/ off[h] + n1 > MAXFILE * BSIZE)
           /\ reg' = [reg EXCEPT ![p].pc = "block", ![p].n1 = n1, ![p].tot = 0]
           /\ lock' = [lock EXCEPT ![f] = p]
  <2>1. /\ reg'[p].pc = "block" /\ reg'[p].h = h /\ reg'[p].n1 = n1
        /\ \A q \in Procs \ {p} : reg'[q] = reg[q]
    <3>1. reg \in [Procs -> RegType]
      BY DEF DInv, RegInv
    <3>2. reg'[p].pc = "block" /\ reg'[p].h = reg[p].h /\ reg'[p].n1 = n1
      BY <1>4, <3>1 DEF RegType
    <3> QED BY <1>2, <1>4, <3>1, <3>2
  <2>2. lock'[f] = p /\ p # None /\ \A g \in Inodes \ {f} : lock'[g] = lock[g]
    BY <1>4, Types, NoneAssumption DEF DInv
  <2>3. PICK o \in Nat, z \in Nat : /\ o = off[h] /\ z = ip[f].size /\ o <= z
                                    /\ o + n1 <= MAXFILE * BSIZE
    <3>1. off[h] \in 0..(MAXFILE * BSIZE) /\ ip[f].size \in 0..(MAXFILE * BSIZE)
      BY Types DEF DInv
    <3> QED BY <1>4, <3>1, Limits
  <2>4. \A q \in Procs : reg[q].pc = "block" => reg[q].h # h
    BY <1>2, NoneAssumption DEF DInv, RegInv, RegAt
  <2>5. AbsOff(h) = o
    BY <1>0, <2>3, <2>4 DEF View
  <2>6. AbsOff(h)' = o + n1
    <3>1. AbsOff(reg[p].h)' = off'[reg'[p].h] + reg'[p].n1
      BY <1>0, <2>1 DEF View
    <3>2. AbsOff(reg[p].h)' = AbsOff(h)'
      BY <2>1 DEF AbsOff
    <3> QED BY <1>2, <2>1, <2>3, <3>1, <3>2
  <2>7. ASSUME NEW x \in Handles, x # h PROVE AbsOff(x)' = AbsOff(x)
    BY <1>2, <2>1, <2>7, OffKept
  <2>8. \A i : Word(f, i)' = Word(f, i)
    BY <1>2, PtrSame
  <2>9. AbsBytes(f) = [i \in 1..z |-> Word(f, i - 1)]
    <3>1. Length(f) = z /\ \A i \in 1..z : Byte(f, i) = Word(f, i - 1)
      BY <1>2, <2>3 DEF Length, Byte
    <3> QED BY <1>0, <3>1 DEF View
  <2> DEFINE e == IF o + n1 > z THEN o + n1 ELSE z
  <2>10. AbsBytes(f)' = [i \in 1..e |-> IF i > o /\ i <= o + n1 THEN p ELSE Word(f, i - 1)]
    <3>1. Length(f)' = e
      BY <1>2, <2>1, <2>2, <2>3 DEF Length
    <3>2. \A i \in 1..e : Byte(f, i)' = IF i > o /\ i <= o + n1 THEN p ELSE Word(f, i - 1)
      BY <1>2, <2>1, <2>2, <2>3, <2>8 DEF Byte
    <3>3. AbsBytes(f)' = [i \in 1..Length(f)' |-> Byte(f, i)']
      BY <1>0 DEF View
    <3> QED BY <3>1, <3>2, <3>3
  <2> DEFINE s == [i \in 1..n1 |-> p]
  <2>11. AbsBytes(f)' = F!Over(AbsBytes(f), o, s)
    <3>1. Len(AbsBytes(f)) = z /\ Len(s) = n1
      BY <2>9
    <3>2. Max({z, o + n1}) = e
      <4>1. Max({z, o + n1}) = IF z >= o + n1 THEN z ELSE o + n1
        BY MaxOfTwo
      <4> QED BY <2>3, <4>1
    <3>3. F!Over(AbsBytes(f), o, s) =
             [i \in 1..e |-> IF i > o /\ i <= o + n1 THEN s[i - o] ELSE AbsBytes(f)[i]]
      <4>1. F!Max({z, o + n1}) = e
        BY <3>2 DEF F!Max, Max
      <4> HIDE DEF e, s
      <4> QED BY <3>1, <4>1 DEF F!Over
    <3>4. ASSUME NEW i \in 1..e
          PROVE  (IF i > o /\ i <= o + n1 THEN p ELSE Word(f, i - 1))
                    = (IF i > o /\ i <= o + n1 THEN s[i - o] ELSE AbsBytes(f)[i])
      <4>1. CASE i > o /\ i <= o + n1
        <5>1. i - o \in 1..n1
          BY <2>3, <4>1
        <5> QED BY <4>1, <5>1
      <4>2. CASE ~(i > o /\ i <= o + n1)
        <5>1. i \in 1..z
          BY <2>3, <3>4, <4>2
        <5> QED BY <2>9, <4>2, <5>1
      <4> QED BY <4>1, <4>2
    <3> HIDE DEF e, s
    <3> QED BY <2>10, <3>3, <3>4
  <2>12. ASSUME NEW g \in Inodes \ {f} PROVE AbsBytes(g)' = AbsBytes(g)
    <3>1. \A i : Word(g, i)' = Word(g, i)
      BY <1>2, PtrSame
    <3>2. lock'[g] = lock[g] /\ (lock[g] # None => reg'[lock[g]] = reg[lock[g]])
      <4>1. lock[g] # None => lock[g] \in Procs /\ reg[lock[g]].pc = "block"
        BY ExtentType
      <4> QED BY <1>2, <2>1, <2>2, <4>1
    <3>3. Length(g)' = Length(g)
      BY <1>2, <3>2 DEF Length
    <3>4. \A i \in 1..Length(g) : Byte(g, i)' = Byte(g, i)
      BY <1>2, <3>1, <3>2 DEF Byte
    <3> QED BY <1>0, <3>3, <3>4, BytesKept
  <2>13. AB' = [AB EXCEPT ![f] = F!Over(@, o, s)]
    <3> HIDE DEF s
    <3> QED BY <2>11, <2>12 DEF AB
  <2>14. AO[h] = o /\ AO'[h] = o + n1 /\ AO' = [AO EXCEPT ![h] = AO'[h]]
    BY <2>5, <2>6, <2>7 DEF AO
  <2>15. (o + n1) - o = n1 /\ o + n1 > o
    BY <1>2
  <2>16. /\ of[h] # None /\ AO'[h] > AO[h] /\ AO'[h] <= MAXFILE * BSIZE
         /\ AB' = [AB EXCEPT ![of[h]] = F!Over(@, AO[h], [i \in 1..(AO'[h] - AO[h]) |-> p])]
    BY <1>2, <2>3, <2>13, <2>14, <2>15, NoneAssumption
  <2>17. F!Write(h)
    BY <1>2, <2>14, <2>16 DEF F!Write, AB, AO
  <2> QED BY <2>17
<1>5. \/ reg' = [reg EXCEPT ![p] = Idle] /\ UNCHANGED <<lock, logged>>
      \/ /\ ~(off[h] > ip[f].size \/ off[h] + n1 > MAXFILE * BSIZE)
         /\ reg' = [reg EXCEPT ![p].pc = "block", ![p].n1 = n1, ![p].tot = 0]
         /\ lock' = [lock EXCEPT ![f] = p]
  BY <1>1 DEF Begins
<1> QED BY <1>3, <1>4, <1>5

\* One turn of writei's loop writes bytes that the chunk has, and no others.
LEMMA BlockBytes ==
    ASSUME DInv, DInv', NEW p \in Procs, WriteBlock(p)
    PROVE  AB' = AB /\ AO' = AO /\ of' = of /\ got' = <<>>
<1>0. View /\ View'
  BY ViewHolds, ViewNext
<1>1. PICK h \in Handles, f \in Inodes, o \in Nat, m \in Nat, k \in 0..(MAXFILE - 1) :
         /\ Turn(p, h, f, o, m, k)
         /\ m = Min({reg[p].n1 - reg[p].tot, BSIZE - (o % BSIZE)})
  BY TurnFacts
<1>2. of' = of /\ off' = off /\ lock' = lock /\ got' = <<>>
  BY Zenon DEF WriteBlock
<1>3. CASE panicked' # panicked
  <2>1. UNCHANGED <<used, block, ip, reg, dinode>>
    <3>1. ~(o \div BSIZE >= MAXFILE) /\ f = of[reg[p].h] /\ o = off[reg[p].h] + reg[p].tot
      <4>1. o \div BSIZE \in 0..(MAXFILE - 1) /\ f = of[reg[p].h] /\ o = off[reg[p].h] + reg[p].tot
        BY <1>1 DEF Turn
      <4> QED BY <4>1, Places
    <3> QED BY <1>3, <3>1, Zenon DEF WriteBlock
  <2>2. AB' = AB
    BY <1>2, <2>1, BytesFrame DEF disk
  <2>3. AO' = AO
    BY <1>2, <2>1 DEF AO, AbsOff
  <2> QED BY <1>2, <2>2, <2>3
<1>4. CASE panicked' = panicked
  <2>1. PICK a \in Blocks, d \in Blocks \cup {0} :
            BmapIs(f, k, a, d) /\ Written(p, f, o, m, k, a, d)
    BY <1>1, <1>4, TurnWrites
  <2>2. Changed(p, f, o, m)
    BY <1>1, <2>1, TurnWords
  <2>3. /\ h = reg[p].h /\ lock[f] = p /\ reg[p].pc = "block" /\ o = off[h] + reg[p].tot
        /\ off[h] \in Nat /\ reg[p].tot \in Nat /\ reg[p].tot + m <= reg[p].n1
        /\ \A g \in Inodes : ip'[g].size = ip[g].size
    BY <1>1, <2>1 DEF Turn, Written
  <2>4. /\ \A q \in Procs \ {p} : reg'[q] = reg[q]
        /\ reg'[p].pc = "block" /\ reg'[p].h = h /\ reg'[p].n1 = reg[p].n1
    BY <1>1, <2>1, TurnOthers
  <2>5. ASSUME NEW g \in Inodes, lock[g] # None
        PROVE  /\ lock[g] \in Procs /\ reg'[lock[g]].h = reg[lock[g]].h
               /\ reg'[lock[g]].n1 = reg[lock[g]].n1
    <3>1. lock[g] \in Procs
      BY <2>5, ExtentType
    <3> QED BY <2>3, <2>4, <3>1
  <2>6. ASSUME NEW g \in Inodes PROVE AbsBytes(g)' = AbsBytes(g)
    <3>1. Length(g)' = Length(g)
      BY <1>2, <2>3, <2>5 DEF Length
    <3>2. ASSUME NEW i \in 1..Length(g) PROVE Byte(g, i)' = Byte(g, i)
      <4> DEFINE In(x) == /\ lock[g] # None /\ x > off[reg[lock[g]].h]
                          /\ x <= off[reg[lock[g]].h] + reg[lock[g]].n1
      <4>1. CASE In(i)
        BY <1>2, <2>5, <4>1 DEF Byte
      <4>2. CASE ~In(i)
        <5>1. Byte(g, i)' = Word(g, i - 1)' /\ Byte(g, i) = Word(g, i - 1)
          BY <1>2, <2>5, <4>2 DEF Byte
        <5>2. i - 1 \in 0..(Extent(g) - 1)
          <6>1. /\ Extent(g) \in Nat /\ ip[g].size \in Nat /\ ip[g].size <= Extent(g)
                /\ lock[g] # None => lock[g] \in Procs /\ reg[lock[g]].h \in Handles
                                     /\ of[reg[lock[g]].h] = g
            BY ExtentType
          <6>2. i \in 1..ip[g].size
            <7>1. CASE lock[g] = None
              BY <3>2, <7>1 DEF Length
            <7>2. CASE lock[g] # None
              <8>1. PICK u \in Nat, n \in Nat : /\ u = off[reg[lock[g]].h] /\ n = reg[lock[g]].n1
                                                /\ u <= ip[g].size
                <9>1. off[reg[lock[g]].h] \in 0..(MAXFILE * BSIZE) /\ reg[lock[g]] \in RegType
                  BY <6>1, <7>2, Types DEF DInv, RegInv
                <9>2. off[reg[lock[g]].h] <= ip[g].size
                  BY <6>1, <7>2, NoneAssumption DEF DInv, OffInv
                <9> QED BY <9>1, <9>2, Limits DEF RegType
              <8>2. Length(g) = IF u + n > ip[g].size THEN u + n ELSE ip[g].size
                BY <7>2, <8>1 DEF Length
              <8>3. ~(i > u /\ i <= u + n)
                BY <4>2, <7>2, <8>1
              <8> QED BY <3>2, <6>1, <8>1, <8>2, <8>3
            <7> QED BY <7>1, <7>2
          <6> QED BY <6>1, <6>2
        <5>3. ~(g = f /\ i - 1 \in o..(o + m - 1))
          <6>1. SUFFICES ASSUME g = f, i - 1 \in o..(o + m - 1) PROVE FALSE
            OBVIOUS
          <6>2. i > off[h] /\ i <= off[h] + reg[p].n1
            <7>1. reg[p].n1 \in Nat
              BY DEF DInv, RegInv, RegType
            <7> QED BY <2>3, <3>2, <6>1, <7>1
          <6>3. lock[g] = p /\ p # None
            BY <2>3, <6>1, NoneAssumption
          <6> QED BY <2>3, <4>2, <6>2, <6>3
        <5>4. Word(g, i - 1)' = Word(g, i - 1)
          BY <2>2, <5>2, <5>3 DEF Changed
        <5> QED BY <5>1, <5>4
      <4> QED BY <4>1, <4>2
    <3> QED BY <1>0, <3>1, <3>2, BytesKept
  <2>7. ASSUME NEW x \in Handles PROVE AbsOff(x)' = AbsOff(x)
    BY <1>2, <2>3, <2>4, OffKept
  <2> QED BY <1>2, <2>6, <2>7 DEF AB, AO
<1> QED BY <1>3, <1>4

\* The end of a chunk changes no byte and no offset: the bytes are written.
LEMMA EndBytes ==
    ASSUME DInv, DInv', NEW p \in Procs, WriteEnd(p)
    PROVE  AB' = AB /\ AO' = AO /\ of' = of /\ got' = <<>>
<1>0. View /\ View'
  BY ViewHolds, ViewNext
<1>1. PICK h \in Handles, f \in Inodes, o \in Nat : Ends(p, h, f, o)
  BY EndFacts
<1>2. /\ h = reg[p].h /\ f = of[h] /\ lock[f] = p /\ reg[p].pc = "block"
      /\ o = off[h] + reg[p].tot /\ reg[p].tot = reg[p].n1
      /\ ip'[f].size = IF o > ip[f].size THEN o ELSE ip[f].size
      /\ \A g \in Inodes : ip'[g].addrs = ip[g].addrs
      /\ \A g \in Inodes \ {f} : ip'[g] = ip[g]
      /\ off' = [off EXCEPT ![h] = o] /\ lock' = [lock EXCEPT ![f] = None]
      /\ reg'[p].pc # "block" /\ \A q \in Procs \ {p} : reg'[q] = reg[q]
      /\ block' = block /\ of' = of /\ got' = <<>>
  BY <1>1 DEF Ends
<1>3. /\ lock'[f] = None /\ \A g \in Inodes \ {f} : lock'[g] = lock[g]
      /\ off'[h] = o /\ \A x \in Handles \ {h} : off'[x] = off[x]
      /\ p # None
  BY <1>2, Types, NoneAssumption DEF DInv
<1>4. PICK s \in Nat, t \in Nat, z \in Nat : s = off[h] /\ t = reg[p].tot /\ z = ip[f].size
  <2>1. off[h] \in 0..(MAXFILE * BSIZE) /\ reg[p] \in RegType /\ ip[f].size \in Nat
    BY Types, ExtentType DEF DInv, RegInv
  <2> QED BY <2>1, Limits DEF RegType
<1>5. \A g \in Inodes : \A i : Word(g, i)' = Word(g, i)
  BY <1>2, PtrSame
<1>6. AbsBytes(f)' = AbsBytes(f)
  <2>1. Length(f)' = Length(f)
    BY <1>2, <1>3, <1>4 DEF Length
  <2>2. ASSUME NEW i \in 1..Length(f) PROVE Byte(f, i)' = Byte(f, i)
    <3>1. Byte(f, i)' = Word(f, i - 1)
      BY <1>3, <1>5 DEF Byte
    <3>2. Byte(f, i) = IF i > s /\ i <= s + t THEN p ELSE Word(f, i - 1)
      BY <1>2, <1>3, <1>4 DEF Byte
    <3>3. CASE i > s /\ i <= s + t
      <4>1. i - 1 \in s..(s + t - 1)
        BY <1>4, <2>2, <3>3
      <4>2. Word(f, i - 1) = p
        BY <1>2, <1>4, <4>1 DEF DInv, TextInv
      <4> QED BY <3>1, <3>2, <3>3, <4>2
    <3>4. CASE ~(i > s /\ i <= s + t)
      BY <3>1, <3>2, <3>4
    <3> QED BY <3>3, <3>4
  <2> QED BY <1>0, <2>1, <2>2, BytesKept
<1>7. ASSUME NEW g \in Inodes \ {f} PROVE AbsBytes(g)' = AbsBytes(g)
  <2>1. lock[g] # None => /\ lock[g] \in Procs \ {p} /\ reg[lock[g]].h \in Handles \ {h}
    <3>1. lock[g] # None => lock[g] \in Procs /\ reg[lock[g]].h \in Handles
                            /\ of[reg[lock[g]].h] = g
      BY ExtentType
    <3> QED BY <1>2, <3>1
  <2>2. Length(g)' = Length(g)
    BY <1>2, <1>3, <2>1, SMTT(60) DEF Length
  <2>3. \A i \in 1..Length(g) : Byte(g, i)' = Byte(g, i)
    BY <1>2, <1>3, <1>5, <2>1, SMTT(60) DEF Byte
  <2> QED BY <1>0, <2>2, <2>3, BytesKept
<1>8. AbsOff(h)' = AbsOff(h)
  <2>1. AbsOff(h) = off[h] + reg[p].n1
    BY <1>0, <1>2 DEF View
  <2>2. \A q \in Procs : reg'[q].pc = "block" => reg'[q].h # h
    <3> SUFFICES ASSUME NEW q \in Procs, reg'[q].pc = "block", reg'[q].h = h PROVE FALSE
      OBVIOUS
    <3>1. q # p /\ reg[q].pc = "block" /\ reg[q].h = h
      BY <1>2
    <3> QED BY <1>2, <3>1, OneWriter
  <2>3. AbsOff(h)' = off'[h]
    BY <1>0, <2>2 DEF View
  <2> QED BY <1>2, <1>3, <2>1, <2>3
<1>9. ASSUME NEW x \in Handles \ {h} PROVE AbsOff(x)' = AbsOff(x)
  <2>1. \A q \in Procs : reg'[q].pc = "block" /\ reg'[q].h = x <=> reg[q].pc = "block" /\ reg[q].h = x
    BY <1>2
  <2>2. off'[x] = off[x]
    BY <1>3
  <2>3. CASE \E q \in Procs : reg[q].pc = "block" /\ reg[q].h = x
    <3>1. PICK q \in Procs \ {p} : reg[q].pc = "block" /\ reg[q].h = x /\ reg'[q] = reg[q]
      BY <1>2, <2>3
    <3>2. AbsOff(x) = off[x] + reg[q].n1
      BY <1>0, <3>1 DEF View
    <3>3. AbsOff(reg[q].h)' = off'[reg'[q].h] + reg'[q].n1
      BY <1>0, <3>1 DEF View
    <3>4. AbsOff(reg[q].h)' = AbsOff(x)'
      BY <3>1 DEF AbsOff
    <3> QED BY <2>2, <3>1, <3>2, <3>3, <3>4
  <2>4. CASE ~ \E q \in Procs : reg[q].pc = "block" /\ reg[q].h = x
    <3>1. AbsOff(x) = off[x]
      BY <1>0, <2>4 DEF View
    <3>2. \A q \in Procs : reg'[q].pc = "block" => reg'[q].h # x
      BY <2>1, <2>4
    <3>3. AbsOff(x)' = off'[x]
      BY <1>0, <3>2 DEF View
    <3> QED BY <2>2, <3>1, <3>3
  <2> QED BY <2>3, <2>4
<1> QED BY <1>2, <1>6, <1>7, <1>8, <1>9 DEF AB, AO

\* A step of the file system is a step of the abstract files, or leaves them.
LEMMA NextBytes ==
    ASSUME DInv, DInv', [Next]_vars
    PROVE  [F!BNext]_(F!bvars)
<1>1. ASSUME NEW h \in Handles, NEW f \in Inodes, Open(h, f) PROVE F!BNext
  <2>1. /\ of[h] = None /\ of' = [of EXCEPT ![h] = f] /\ off' = [off EXCEPT ![h] = 0]
        /\ got' = <<>> /\ UNCHANGED <<disk, lock, reg>>
    BY <1>1, Zenon DEF Open
  <2>2. \A p \in Procs : reg[p].pc = "block" => reg[p].h # h
    BY <2>1, NoneAssumption DEF DInv, RegInv, RegAt
  <2>3. AB' = AB /\ AO' = [AO EXCEPT ![h] = 0]
    BY <2>1, <2>2, ReopenBytes
  <2>4. F!Open(h, f)
    BY <2>1, <2>3 DEF F!Open, AB, AO
  <2> QED BY <2>4 DEF F!BNext
<1>2. ASSUME NEW h \in Handles, Close(h) PROVE F!BNext
  <2>1. /\ ~Busy(h) /\ of' = [of EXCEPT ![h] = None] /\ off' = [off EXCEPT ![h] = 0]
        /\ got' = <<>> /\ UNCHANGED <<disk, lock, reg>>
    BY <1>2, Zenon DEF Close
  <2>2. \A p \in Procs : reg[p].pc = "block" => reg[p].h # h
    BY <2>1 DEF Busy
  <2>3. AB' = AB /\ AO' = [AO EXCEPT ![h] = 0]
    BY <2>1, <2>2, ReopenBytes
  <2>4. F!Open(h, None)
    BY <2>1, <2>3 DEF F!Open, AB, AO
  <2> QED BY <2>4 DEF F!BNext
<1>3. ASSUME NEW h \in Handles, NEW n \in Sizes, fileread(h, n) PROVE F!BNext
  BY <1>3, ReadBytes DEF F!BNext
<1>4. ASSUME NEW f \in Inodes, itrunc(f) PROVE F!BNext
  BY <1>4, TruncBytes DEF F!BNext
<1>5. ASSUME AB' = AB, AO' = AO, of' = of, got' = <<>> PROVE F!BNext
  BY <1>5 DEF F!BNext, AB, AO
<1>6. ASSUME NEW p \in Procs, NEW h \in Handles, NEW n \in Sizes, filewrite(p, h, n)
      PROVE  F!BNext
  <2> DEFINE r == [Idle EXCEPT !.pc = "chunk", !.h = h, !.left = n]
  <2>1. /\ reg[p].pc = "idle" /\ reg' = [reg EXCEPT ![p] = r]
        /\ UNCHANGED <<disk, off, lock>> /\ of' = of /\ got' = <<>>
    BY <1>6, Zenon DEF filewrite
  <2>2. r.pc # "block"
    BY DEF Idle
  <2> HIDE DEF r
  <2>3. AB' = AB /\ AO' = AO
    BY <2>1, <2>2, MoveBytes
  <2> QED BY <1>5, <2>1, <2>3
<1>7. ASSUME NEW p \in Procs, WriteBegin(p) PROVE F!BNext
  <2>1. CASE AB' = AB /\ AO' = AO /\ of' = of /\ got' = <<>>
    BY <1>5, <2>1
  <2>2. CASE \E h \in Handles : F!Write(h)
    BY <2>2 DEF F!BNext
  <2> QED BY <1>7, <2>1, <2>2, BeginBytes
<1>8. ASSUME NEW p \in Procs, WriteBlock(p) PROVE F!BNext
  BY <1>5, <1>8, BlockBytes
<1>9. ASSUME NEW p \in Procs, WriteEnd(p) PROVE F!BNext
  BY <1>5, <1>9, EndBytes
<1>10. ASSUME UNCHANGED vars PROVE UNCHANGED F!bvars
  <2>1. /\ used' = used /\ block' = block /\ ip' = ip /\ of' = of /\ off' = off
        /\ lock' = lock /\ reg' = reg /\ got' = got /\ dinode' = dinode
    BY <1>10 DEF vars, disk
  <2>2. AB' = AB
    BY <2>1, BytesFrame DEF disk
  <2>3. AO' = AO
    BY <2>1 DEF AO, AbsOff
  <2> QED BY <2>1, <2>2, <2>3 DEF F!bvars, AB, AO
<1>11. ASSUME Halted PROVE UNCHANGED vars
  BY <1>11, Zenon DEF Halted
<1> QED BY <1>1, <1>2, <1>3, <1>4, <1>6, <1>7, <1>8, <1>9, <1>10, <1>11 DEF Next

\* Files are sequences of bytes: through direct and indirect blocks, two writers
\* at once, truncation and re-used blocks, what a read returns is what the last
\* write to those bytes of this file put there.
THEOREM FilesRefineBytes == Spec => FilesAreBytes
<1>1. Init => DInv /\ F!BInit
  BY InitDInv, InitBytes
<1>2. DInv /\ DInv' /\ [Next]_vars => [F!BNext]_(F!bvars)
  BY NextBytes
<1> QED BY <1>1, <1>2, NextDInv, PTL DEF Spec, FilesAreBytes, F!BSpec

==============================================================================
