-------------------------- MODULE WorkingSetProofs --------------------------
(***************************************************************************)
(* Proofs about the encrypted memory of p6, for every size of the clock,   *)
(* of pages and of the address space and for every sbrk: the clock keeps   *)
(* its shape, contents match the encryption bit, and the working set is    *)
(* what is resident.                                                       *)
(***************************************************************************)
EXTENDS WorkingSet, WellFoundedInduction, TLAPS

-----------------------------------------------------------------------------
(* The inductive invariant. *)

\* A clock whose hand is before the first entry has never been used.
ClockGood(q, h) ==
    /\ q \in [Index -> Pages \cup {Empty}] /\ h \in Index \cup {-1}
    /\ h = -1 => \A i \in Index : q[i] = Empty
    /\ \A k \in 1..(CLOCKSIZE - 1) : At(q, h, k + 1) = Empty => At(q, h, k) = Empty

InClock(q, pg) == \E i \in Index : q[i] = pg

\* While sbrk has only added whole pages: the pages below sz are mapped, only
\* the guard page is not the user's, and it is always present.
TableInv ==
    /\ sz % PGSIZE = 0 /\ PageDown(sz) >= TextPages + 2
    /\ \A pg \in Pages : Mapped(pt, pg) <=> pg < PageDown(sz)
    /\ \A pg \in Pages : Mapped(pt, pg) => (pt[pg].U <=> pg /= Guard)
    /\ pt[Guard].P /\ ~pt[Guard].E
    /\ \A pg \in Pages : pt[pg].E => ~pt[pg].P

\* The clock has pages of the process, each of the user's at most once, and the
\* guard page only once the process is stuck at it.
SetInv ==
    /\ \A i \in Index : clockqueue[i] /= Empty => Mapped(pt, clockqueue[i])
    /\ \A i, j \in Index :
        clockqueue[i] = clockqueue[j] /\ clockqueue[i] \notin {Empty, Guard} => i = j
    /\ Runs => ~InClock(clockqueue, Guard)
    /\ status = "run" =>
        \A pg \in Pages \ {Guard} : pt[pg].P <=> InClock(clockqueue, pg)

BaseInv == TypeOK /\ ClockGood(clockqueue, clockhand)
ResidentInv == ~odd => TableInv /\ SetInv /\ status /= "panic"

-----------------------------------------------------------------------------
(* Counting around the clock. *)

LEMMA Divides ==
    ASSUME NEW P \in Nat, P > 0, NEW x \in Int
    PROVE  \E d \in Int, r \in 0..(P - 1) : x = P * d + r /\ r = x % P /\ d = x \div P
OBVIOUS

LEMMA ModShift ==
    ASSUME NEW P \in Nat, P > 0, NEW x \in Int, NEW c \in Int
    PROVE  (x + P * c) % P = x % P
<1>1. PICK d \in Int, r \in 0..(P - 1) : x = P * d + r /\ r = x % P
  BY Divides
<1>2. PICK e \in Int, s \in 0..(P - 1) : x + P * c = P * e + s /\ s = (x + P * c) % P
  OBVIOUS
<1>3. P * (e - d - c) = r - s /\ e - d - c \in Int
  BY <1>1, <1>2
<1>4. ~(e - d - c >= 1) /\ ~(e - d - c <= -1)
  BY <1>3
<1> QED BY <1>1, <1>2, <1>3, <1>4

LEMMA ClockMod ==
    ASSUME NEW x \in Int, NEW j \in Int
    PROVE  /\ x % CLOCKSIZE \in Index
           /\ ((x % CLOCKSIZE) + j) % CLOCKSIZE = (x + j) % CLOCKSIZE
           /\ (x + CLOCKSIZE) % CLOCKSIZE = x % CLOCKSIZE
           /\ x \in Index => x % CLOCKSIZE = x
<1>1. PICK C \in Nat : C = CLOCKSIZE /\ C > 0
  BY SizesAssumption
<1>2. PICK d \in Int, r \in 0..(C - 1) : x = C * d + r /\ r = x % C
  BY <1>1, Divides
<1>3. (x + j) % C = (r + j) % C
  <2>1. r + j \in Int /\ x + j = (r + j) + C * d
    BY <1>2
  <2>2. ((r + j) + C * d) % C = (r + j) % C
    BY <1>1, <2>1, ModShift
  <2> QED BY <2>1, <2>2
<1>4. (x + C) % C = x % C
  <2>1. PICK u \in Int : u = 1
    OBVIOUS
  <2>2. (x + C * u) % C = x % C
    BY <1>1, ModShift
  <2> QED BY <2>1, <2>2
<1>5. x \in 0..(C - 1) => x % C = x
  OBVIOUS
<1> QED BY <1>1, <1>2, <1>3, <1>4, <1>5 DEF Index

LEMMA ClockEqual ==
    ASSUME NEW x \in Int, NEW y \in Int, x % CLOCKSIZE = y % CLOCKSIZE,
           x - y < CLOCKSIZE, y - x < CLOCKSIZE
    PROVE  x = y
<1>1. PICK C \in Nat : C = CLOCKSIZE /\ C > 0
  BY SizesAssumption
<1>2. PICK d \in Int, r \in 0..(C - 1) : x = C * d + r /\ r = x % C
  BY <1>1
<1>3. PICK e \in Int, s \in 0..(C - 1) : y = C * e + s /\ s = y % C
  BY <1>1, Divides
<1>4. C * (d - e) = x - y /\ d - e \in Int
  BY <1>1, <1>2, <1>3
<1>5. ~(d - e >= 1) /\ ~(d - e <= -1)
  BY <1>1, <1>4
<1> QED BY <1>4, <1>5

\* Every entry is one the hand comes to within one turn.
LEMMA ClockTurn ==
    ASSUME NEW h \in Int, NEW i \in Index
    PROVE  \E k \in 1..CLOCKSIZE : i = (h + k) % CLOCKSIZE
<1>1. PICK C \in Nat : C = CLOCKSIZE /\ C > 0
  BY SizesAssumption
<1>2. i \in Int /\ i - h \in Int /\ i % C = i
  BY <1>1, ClockMod DEF Index
<1>3. PICK m \in 0..(C - 1) : m = (i - h) % C
  BY <1>1, <1>2
<1>4. (m + h) % C = ((i - h) + h) % C
  BY <1>1, <1>2, <1>3, ClockMod
<1>5. (i - h) + h = i /\ m + h = h + m
  BY <1>2
<1>6. (h + m) % C = i
  BY <1>2, <1>4, <1>5
<1>7. CASE m /= 0
  BY <1>1, <1>6, <1>7
<1>8. CASE m = 0
  <2>1. (h + C) % C = h % C
    BY <1>1, ClockMod
  <2> QED BY <1>1, <1>6, <1>8, <2>1
<1> QED BY <1>7, <1>8

LEMMA AtEntry ==
    ASSUME NEW q \in [Index -> Pages \cup {Empty}], NEW h \in Int, NEW k \in Int
    PROVE  At(q, h, k) \in Pages \cup {Empty} /\ At(q, h, k + CLOCKSIZE) = At(q, h, k)
<1>1. PICK C \in Nat : C = CLOCKSIZE /\ C > 0
  BY SizesAssumption
<1>2. h + k \in Int
  OBVIOUS
<1>3. (h + k) % C \in Index /\ ((h + k) + C) % C = (h + k) % C
  BY <1>1, <1>2, ClockMod
<1>4. h + (k + C) = (h + k) + C
  BY <1>1
<1> QED BY <1>1, <1>3, <1>4 DEF At

-----------------------------------------------------------------------------
(* Least elements. *)

LEMMA MinByRelation ==
    ASSUME NEW T, T \subseteq Nat, T /= {}, NEW R, IsWellFoundedOn(R, Nat),
           \A x, y \in Nat : x < y => <<x, y>> \in R
    PROVE  \E x \in T : \A y \in T : x <= y
<1>1. PICK x \in T : \A y \in T : ~(<<y, x>> \in R)
  BY WFMin, ZenonT(120)
<1>2. \A y \in T : ~(y < x)
  BY <1>1
<1> QED BY <1>1, <1>2

LEMMA NatMinimum ==
    ASSUME NEW T, T \subseteq Nat, T /= {}
    PROVE  \E x \in T : \A y \in T : x <= y
<1>1. IsWellFoundedOn(OpToRel(<, Nat), Nat)
  BY NatLessThanWellFounded
<1>2. \A x, y \in Nat : x < y => <<x, y>> \in OpToRel(<, Nat)
  BY DEF OpToRel
<1> QED BY <1>1, <1>2, MinByRelation, Zenon

LEMMA IndexMaximum ==
    ASSUME NEW S, S \subseteq Index, S /= {}
    PROVE  \E x \in S : \A y \in S : y <= x
<1> DEFINE T == {n \in Nat : \E i \in S : n = CLOCKSIZE - i}
<1>1. \A i \in S : CLOCKSIZE - i \in T
  BY SizesAssumption DEF Index
<1>2. T \subseteq Nat /\ T /= {}
  BY <1>1, Zenon
<1>3. PICK x \in T : \A y \in T : x <= y
  BY <1>2, NatMinimum
<1>4. PICK i \in S : x = CLOCKSIZE - i
  OBVIOUS
<1> QED BY <1>1, <1>3, <1>4, SizesAssumption DEF Index

-----------------------------------------------------------------------------
(* The clock: wsetinsert. *)

\* If the entry the hand meets next is used, all are.
LEMMA ClockFull ==
    ASSUME NEW q, NEW h, ClockGood(q, h), At(q, h, 1) /= Empty
    PROVE  \A i \in Index : q[i] /= Empty
<1>0. /\ h \in Int /\ CLOCKSIZE \in Nat
      /\ \A k \in 1..(CLOCKSIZE - 1) : At(q, h, k + 1) = Empty => At(q, h, k) = Empty
  BY SizesAssumption DEF ClockGood, Index
<1> DEFINE T == {k \in 1..CLOCKSIZE : At(q, h, k) = Empty}
<1>1. T = {}
  <2>1. SUFFICES ASSUME T /= {} PROVE FALSE
    OBVIOUS
  <2>2. PICK k \in T : \A j \in T : k <= j
    <3>1. T \subseteq Nat
      BY <1>0
    <3> HIDE DEF T
    <3> QED BY <2>1, <3>1, NatMinimum
  <2>3. k \in 1..CLOCKSIZE /\ At(q, h, k) = Empty
    OBVIOUS
  <2>4. k /= 1
    BY <2>3
  <2>5. k - 1 \in 1..(CLOCKSIZE - 1) /\ (k - 1) + 1 = k
    BY <1>0, <2>3, <2>4
  <2>6. At(q, h, (k - 1) + 1) = Empty
    BY <2>3, <2>5
  <2>7. At(q, h, k - 1) = Empty
    BY <1>0, <2>5, <2>6
  <2>8. k - 1 \in T
    BY <1>0, <2>5, <2>7
  <2> QED BY <1>0, <2>2, <2>3, <2>8
<1>2. ASSUME NEW i \in Index PROVE q[i] /= Empty
  <2>1. PICK k \in 1..CLOCKSIZE : i = (h + k) % CLOCKSIZE
    BY <1>0, ClockTurn
  <2> QED BY <1>1, <2>1 DEF At
<1> QED BY <1>2

LEMMA FullGood ==
    ASSUME NEW q \in [Index -> Pages \cup {Empty}], NEW h \in Index, \A i \in Index : q[i] /= Empty
    PROVE  ClockGood(q, h)
<1>1. h \in Int /\ h /= -1
  BY SizesAssumption DEF Index
<1>2. ASSUME NEW k \in 1..(CLOCKSIZE - 1) PROVE At(q, h, k + 1) /= Empty
  <2>1. h + (k + 1) \in Int
    BY <1>1
  <2> QED BY <2>1, ClockMod DEF At
<1> QED BY <1>1, <1>2 DEF ClockGood

\* wsetinsert's scan ends within a turn and one entry.
LEMMA ScanEnds ==
    ASSUME NEW t, NEW q, NEW h, ClockGood(q, h)
    PROVE  /\ StopAt(t, q, h) \in 1..(CLOCKSIZE + 1)
           /\ Stops(t, q, h, StopAt(t, q, h))
           /\ \A j \in 1..(StopAt(t, q, h) - 1) : ~Stops(t, q, h, j)
<1> DEFINE T == {k \in 1..(CLOCKSIZE + 1) : Stops(t, q, h, k)}
<1>0. h \in Int /\ CLOCKSIZE \in Nat /\ CLOCKSIZE >= 1 /\ q \in [Index -> Pages \cup {Empty}]
  BY SizesAssumption DEF ClockGood, Index
<1>1. CLOCKSIZE + 1 \in T
  <2>1. PICK C \in Nat : C = CLOCKSIZE /\ C >= 1
    BY <1>0
  <2>2. At(q, h, 1 + C) = At(q, h, 1)
    BY <1>0, <2>1, AtEntry
  <2>3. 1 + C = C + 1 /\ 1 \in 1..((C + 1) - 1) /\ C + 1 \in 1..(C + 1)
    BY <2>1
  <2> QED BY <2>1, <2>2, <2>3 DEF Stops
<1>2. T \subseteq Nat /\ T /= {}
  BY <1>0, <1>1
<1>3. PICK k \in T : \A j \in T : k <= j
  <2> HIDE DEF T
  <2> QED BY <1>2, NatMinimum
<1>4. \A j \in 1..(k - 1) : ~Stops(t, q, h, j)
  BY <1>0, <1>3
<1>5. k \in 1..(CLOCKSIZE + 1) /\ Stops(t, q, h, k)
  OBVIOUS
<1> QED BY <1>4, <1>5, Zenon DEF StopAt

\* The entry wsetinsert puts a page in.
LEMMA InsertGood ==
    ASSUME NEW t, NEW q, NEW h, ClockGood(q, h), NEW pg \in Pages, NEW at,
           at = (h + StopAt(t, q, h)) % CLOCKSIZE
    PROVE  /\ at \in Index
           /\ ClockGood([q EXCEPT ![at] = pg], at)
           /\ q[at] /= Empty => ClockGood(q, at)
<1>0. /\ h \in Int /\ CLOCKSIZE \in Nat /\ CLOCKSIZE >= 1 /\ q \in [Index -> Pages \cup {Empty}]
      /\ \A k \in 1..(CLOCKSIZE - 1) : At(q, h, k + 1) = Empty => At(q, h, k) = Empty
  BY SizesAssumption DEF ClockGood, Index
<1>1. PICK k \in 1..(CLOCKSIZE + 1) :
        /\ k = StopAt(t, q, h) /\ Stops(t, q, h, k)
        /\ \A j \in 1..(k - 1) : ~Stops(t, q, h, j)
  BY ScanEnds
<1>2. at = (h + k) % CLOCKSIZE /\ at \in Index /\ at \in Int
  <2>1. h + k \in Int
    BY <1>0
  <2> QED BY <1>1, <2>1, ClockMod DEF Index
<1>3. pg /= Empty /\ pg \in Pages \cup {Empty}
  BY DEF Pages, Empty
<1>4. PICK r \in [Index -> Pages \cup {Empty}] :
        /\ r = [q EXCEPT ![at] = pg] /\ r[at] = pg
        /\ \A i \in Index \ {at} : r[i] = q[i]
  <2>1. [q EXCEPT ![at] = pg] \in [Index -> Pages \cup {Empty}]
    BY <1>0, <1>3
  <2> QED BY <1>0, <1>2, <2>1
<1>5. CASE At(q, h, 1) = Empty
  <2>1. k = 1
    <3>1. Stops(t, q, h, 1)
      BY <1>5 DEF Stops
    <3>2. ~(1 \in 1..(k - 1))
      BY <1>1, <3>1
    <3> QED BY <1>0, <3>2
  <2>2. q[at] = Empty
    BY <1>2, <1>5, <2>1 DEF At
  <2>3. ASSUME NEW j \in 1..(CLOCKSIZE - 1)
        PROVE  At(r, at, j) = At(q, h, j + 1)
    <3>1. (at + j) % CLOCKSIZE = (h + (j + 1)) % CLOCKSIZE
      <4>1. h + 1 \in Int /\ j \in Int
        BY <1>0
      <4>2. (((h + 1) % CLOCKSIZE) + j) % CLOCKSIZE = ((h + 1) + j) % CLOCKSIZE
        BY <4>1, ClockMod
      <4>3. (h + 1) + j = h + (j + 1)
        BY <1>0, <4>1
      <4> QED BY <1>2, <2>1, <4>2, <4>3
    <3>2. (at + j) % CLOCKSIZE \in Index /\ (at + j) % CLOCKSIZE /= at
      <4>1. at + j \in Int /\ at - (at + j) < CLOCKSIZE /\ (at + j) - at < CLOCKSIZE /\ at + j /= at
        BY <1>0, <1>2
      <4>2. at % CLOCKSIZE = at
        BY <1>2, ClockMod
      <4>3. (at + j) % CLOCKSIZE \in Index
        BY <4>1, ClockMod
      <4> QED BY <1>2, <4>1, <4>2, <4>3, ClockEqual
    <3> QED BY <1>4, <3>1, <3>2 DEF At
  <2>4. At(r, at, CLOCKSIZE) = pg
    <3>1. (at + CLOCKSIZE) % CLOCKSIZE = at
      BY <1>2, ClockMod
    <3> QED BY <1>4, <3>1 DEF At
  <2>5. ASSUME NEW j \in 1..(CLOCKSIZE - 1), At(r, at, j + 1) = Empty
        PROVE  At(r, at, j) = Empty
    <3>1. j + 1 /= CLOCKSIZE
      BY <1>3, <2>4, <2>5
    <3>2. j + 1 \in 1..(CLOCKSIZE - 1)
      BY <1>0, <3>1
    <3>3. At(r, at, j + 1) = At(q, h, (j + 1) + 1)
      BY <2>3, <3>2
    <3>4. At(q, h, j + 1) = Empty
      BY <1>0, <2>5, <3>2, <3>3
    <3> QED BY <2>3, <3>4
  <2>6. ClockGood(r, at)
    <3>1. at /= -1
      BY <1>0, <1>2 DEF Index
    <3> QED BY <1>2, <2>5, <3>1 DEF ClockGood
  <2> QED BY <1>2, <1>4, <2>2, <2>6
<1>6. CASE At(q, h, 1) /= Empty
  <2>1. \A i \in Index : q[i] /= Empty
    BY <1>6, ClockFull
  <2>2. \A i \in Index : r[i] /= Empty
    BY <1>3, <1>4, <2>1
  <2> QED BY <1>0, <1>2, <1>4, <2>1, <2>2, FullGood
<1> QED BY <1>5, <1>6

-----------------------------------------------------------------------------
(* The clock: wsetdelete. *)

\* What the hand meets after wsetdelete: an unused entry, then the entries
\* before the one deleted, one later than before, then those after it.
LEMMA ShiftedAt ==
    ASSUME NEW q \in [Index -> Pages \cup {Empty}], NEW h \in Index, NEW pg, NEW f \in Index,
           f = LastFound(q, h, pg), NEW n \in Index,
           n = IF h = 0 THEN CLOCKSIZE - 1 ELSE h - 1, NEW j \in 1..CLOCKSIZE
    PROVE  At(Shifted(q, h, pg), n, j) =
              IF j = 1 THEN Empty
              ELSE IF f /= 0 /\ j - 1 >= f THEN At(q, h, j) ELSE At(q, h, j - 1)
<1>0. h \in Int /\ j \in Int /\ CLOCKSIZE \in Nat /\ CLOCKSIZE >= 1 /\ j - 1 \in Index /\ n \in Int
  BY SizesAssumption DEF Index
<1>1. PICK i \in Index : i = (h + (j - 1)) % CLOCKSIZE /\ i \in Int
  <2>1. h + (j - 1) \in Int
    BY <1>0
  <2>2. (h + (j - 1)) % CLOCKSIZE \in Index
    BY <2>1, ClockMod
  <2>3. \A x \in Index : x \in Int
    BY <1>0 DEF Index
  <2> QED BY <2>2, <2>3
<1>2. (n + j) % CLOCKSIZE = i
  <2>1. CASE h = 0
    <3>1. n + j = (h + (j - 1)) + CLOCKSIZE /\ h + (j - 1) \in Int
      BY <1>0, <2>1
    <3>2. ((h + (j - 1)) + CLOCKSIZE) % CLOCKSIZE = (h + (j - 1)) % CLOCKSIZE
      BY <3>1, ClockMod
    <3> QED BY <1>1, <3>1, <3>2
  <2>2. CASE h /= 0
    <3>1. n + j = h + (j - 1)
      BY <1>0, <2>2
    <3> QED BY <1>1, <3>1
  <2> QED BY <2>1, <2>2
<1>3. i = h % CLOCKSIZE <=> j = 1
  <2>1. h + (j - 1) \in Int /\ h \in Int /\ h + (j - 1) - h < CLOCKSIZE /\ h - (h + (j - 1)) < CLOCKSIZE
    BY <1>0
  <2>2. i = h % CLOCKSIZE => h + (j - 1) = h
    BY <1>1, <2>1, ClockEqual
  <2>3. j = 1 => h + (j - 1) = h
    BY <1>0
  <2> QED BY <1>0, <1>1, <2>2, <2>3
<1>4. (i - h) % CLOCKSIZE = j - 1
  <2>1. h + (j - 1) \in Int /\ -h \in Int /\ (h + (j - 1)) + (-h) = j - 1 /\ i + (-h) = i - h
    BY <1>0, <1>1
  <2>2. (((h + (j - 1)) % CLOCKSIZE) + (-h)) % CLOCKSIZE = ((h + (j - 1)) + (-h)) % CLOCKSIZE
    BY <2>1, ClockMod
  <2>3. (j - 1) % CLOCKSIZE = j - 1
    BY <1>0, ClockMod
  <2> QED BY <1>1, <2>1, <2>2, <2>3
<1>5. (i + 1) % CLOCKSIZE = (h + j) % CLOCKSIZE
  <2>1. h + (j - 1) \in Int /\ (h + (j - 1)) + 1 = h + j
    BY <1>0
  <2>2. (((h + (j - 1)) % CLOCKSIZE) + 1) % CLOCKSIZE = ((h + (j - 1)) + 1) % CLOCKSIZE
    BY <2>1, ClockMod
  <2> QED BY <1>1, <2>1, <2>2
<1>6. Shifted(q, h, pg)[i] = IF i = h % CLOCKSIZE THEN Empty
                             ELSE IF f /= 0 /\ (i - h) % CLOCKSIZE >= f
                                  THEN q[(i + 1) % CLOCKSIZE] ELSE q[i]
  BY DEF Shifted
<1>7. Shifted(q, h, pg)[i] = IF j = 1 THEN Empty
                             ELSE IF f /= 0 /\ j - 1 >= f
                                  THEN q[(h + j) % CLOCKSIZE] ELSE q[(h + (j - 1)) % CLOCKSIZE]
  BY <1>1, <1>3, <1>4, <1>5, <1>6
<1> QED BY <1>2, <1>7 DEF At

LEMMA DeleteGood ==
    ASSUME NEW q, NEW h, ClockGood(q, h), NEW pg, pg /= Empty, Found(q, h, pg) /= {}
    PROVE  ClockGood(wsetdelete(q, h, pg).queue, wsetdelete(q, h, pg).hand)
<1>0. /\ CLOCKSIZE \in Nat /\ CLOCKSIZE >= 1 /\ q \in [Index -> Pages \cup {Empty}]
      /\ h \in Index \cup {-1} /\ h \in Int
      /\ \A k \in 1..(CLOCKSIZE - 1) : At(q, h, k + 1) = Empty => At(q, h, k) = Empty
  BY SizesAssumption DEF ClockGood, Index
<1>1. h \in Index
  <2>1. PICK i \in Index : At(q, h, i) = pg
    BY DEF Found
  <2>2. h + i \in Int
    BY <1>0 DEF Index
  <2>3. (h + i) % CLOCKSIZE \in Index
    BY <2>2, ClockMod
  <2> QED BY <1>0, <2>1, <2>3 DEF At, ClockGood
<1>2. PICK f \in Index : f = LastFound(q, h, pg) /\ At(q, h, f) = pg
  <2>1. PICK x \in Found(q, h, pg) : \A y \in Found(q, h, pg) : y <= x
    <3>1. Found(q, h, pg) \subseteq Index
      BY DEF Found
    <3> QED BY <3>1, IndexMaximum
  <2>2. LastFound(q, h, pg) \in Found(q, h, pg)
    BY <2>1, Zenon DEF LastFound
  <2> QED BY <2>2 DEF Found
<1>3. PICK n \in Index : n = IF h = 0 THEN CLOCKSIZE - 1 ELSE h - 1
  BY <1>0, <1>1 DEF Index
<1>4. PICK s \in [Index -> Pages \cup {Empty}] : s = Shifted(q, h, pg)
  <2>1. ASSUME NEW i \in Index PROVE q[i] \in Pages \cup {Empty} /\ q[(i + 1) % CLOCKSIZE] \in Pages \cup {Empty}
    <3>1. i + 1 \in Int
      BY DEF Index
    <3>2. (i + 1) % CLOCKSIZE \in Index
      BY <3>1, ClockMod
    <3> QED BY <1>0, <3>2
  <2> QED BY <2>1 DEF Shifted
<1>5. ASSUME NEW j \in 1..CLOCKSIZE
      PROVE  At(s, n, j) = IF j = 1 THEN Empty
                           ELSE IF f /= 0 /\ j - 1 >= f THEN At(q, h, j) ELSE At(q, h, j - 1)
  BY <1>0, <1>1, <1>2, <1>3, <1>4, ShiftedAt
<1>6. ASSUME NEW j \in 1..(CLOCKSIZE - 1), At(s, n, j + 1) = Empty
      PROVE  At(s, n, j) = Empty
  <2>1. j \in 1..CLOCKSIZE /\ j + 1 \in 1..CLOCKSIZE /\ j + 1 /= 1 /\ (j + 1) - 1 = j
    BY <1>0
  <2>2. At(s, n, j + 1) = IF f /= 0 /\ j >= f THEN At(q, h, j + 1) ELSE At(q, h, j)
    BY <1>5, <2>1
  <2>3. CASE j = 1
    BY <1>5, <2>1, <2>3
  <2>4. CASE j /= 1
    <3>1. j - 1 \in 1..(CLOCKSIZE - 1) /\ (j - 1) + 1 = j
      BY <1>0, <2>4
    <3>2. At(s, n, j) = IF f /= 0 /\ j - 1 >= f THEN At(q, h, j) ELSE At(q, h, j - 1)
      BY <1>5, <2>1, <2>4
    <3>3. CASE ~(f /= 0 /\ j >= f)
      <4>1. At(q, h, j) = Empty /\ ~(f /= 0 /\ j - 1 >= f)
        BY <1>0, <1>6, <2>2, <3>3 DEF Index
      <4>2. At(q, h, (j - 1) + 1) = Empty
        BY <3>1, <4>1
      <4>3. At(q, h, j - 1) = Empty
        BY <1>0, <3>1, <4>2
      <4> QED BY <3>2, <4>1, <4>3
    <3>4. CASE f /= 0 /\ j >= f
      <4>1. At(q, h, j + 1) = Empty
        BY <1>6, <2>2, <3>4
      <4>2. At(q, h, j) = Empty
        BY <1>0, <4>1
      <4>3. j /= f
        BY <1>2, <4>2
      <4>4. j - 1 >= f
        BY <3>4, <4>3 DEF Index
      <4> QED BY <3>2, <3>4, <4>2, <4>4
    <3> QED BY <3>3, <3>4
  <2> QED BY <2>3, <2>4
<1>7. n /= -1
  BY <1>0 DEF Index
<1>8. ClockGood(s, n)
  BY <1>6, <1>7 DEF ClockGood
<1> QED BY <1>3, <1>4, <1>8 DEF wsetdelete

\* A function defined by recursion over 0..m exists.
LEMMA RecursionExists ==
    ASSUME NEW S, NEW s0 \in S, NEW m \in Nat, NEW step \in [1..m -> [S -> S]]
    PROVE  \E f \in [0..m -> S] : f[0] = s0 /\ \A i \in 1..m : f[i] = step[i][f[i - 1]]
<1> DEFINE Good(k) == \E f \in [0..k -> S] :
                        f[0] = s0 /\ \A i \in 1..k : f[i] = step[i][f[i - 1]]
           T == {k \in 0..m : ~Good(k)}
<1>1. T = {}
  <2>1. SUFFICES ASSUME T /= {} PROVE FALSE
    OBVIOUS
  <2>2. PICK k \in T : \A j \in T : k <= j
    <3>1. T \subseteq Nat
      OBVIOUS
    <3> HIDE DEF T
    <3> QED BY <2>1, <3>1, NatMinimum
  <2>3. k \in 0..m /\ ~Good(k)
    OBVIOUS
  <2>4. CASE k = 0
    <3>1. [i \in 0..0 |-> s0] \in [0..k -> S] /\ [i \in 0..0 |-> s0][0] = s0
      BY <2>4
    <3>2. 1..k = {}
      BY <2>4
    <3> QED BY <2>3, <3>1, <3>2
  <2>5. CASE k /= 0
    <3>1. k - 1 \in 0..m /\ ~(k <= k - 1)
      BY <2>3, <2>5
    <3>2. Good(k - 1)
      BY <2>2, <3>1
    <3>3. PICK f \in [0..(k - 1) -> S] :
            f[0] = s0 /\ \A i \in 1..(k - 1) : f[i] = step[i][f[i - 1]]
      BY <3>2
    <3>4. k - 1 \in 0..(k - 1) /\ k \in 1..m
      BY <2>3, <2>5
    <3>5. step[k][f[k - 1]] \in S
      BY <3>4
    <3> DEFINE g == [i \in 0..k |-> IF i = k THEN step[k][f[k - 1]] ELSE f[i]]
    <3>6. g \in [0..k -> S]
      BY <2>3, <3>5
    <3>7. g[0] = s0
      BY <2>3, <2>5, <3>3
    <3>8. ASSUME NEW i \in 1..k PROVE g[i] = step[i][g[i - 1]]
      <4>1. g[i - 1] = f[i - 1]
        BY <2>3
      <4>2. CASE i = k
        BY <2>3, <4>1, <4>2
      <4>3. CASE i /= k
        <5>1. i \in 1..(k - 1)
          BY <2>3, <4>3
        <5>2. g[i] = f[i]
          BY <2>3, <4>3
        <5> QED BY <3>3, <4>1, <5>1, <5>2
      <4> QED BY <4>2, <4>3
    <3> HIDE DEF g
    <3>9. Good(k)
      BY <3>6, <3>7, <3>8
    <3> QED BY <2>3, <3>9
  <2> QED BY <2>4, <2>5
<1>2. m \in 0..m
  OBVIOUS
<1>3. Good(m)
  BY <1>1, <1>2
<1> QED BY <1>3

\* The states of growproc's loop.
ClockStates ==
    {s \in [ok : BOOLEAN, queue : [Index -> Pages \cup {Empty}], hand : Index \cup {-1}] :
        ClockGood(s.queue, s.hand)}

LEMMA DeleteAtGood ==
    ASSUME NEW s \in ClockStates, NEW a \in Int
    PROVE  DeleteAt(s, a) \in ClockStates
<1>1. /\ s \in [ok : BOOLEAN, queue : [Index -> Pages \cup {Empty}], hand : Index \cup {-1}]
      /\ ClockGood(s.queue, s.hand)
  BY DEF ClockStates
<1>2. CASE s.ok /\ a >= 0 /\ a % PGSIZE = 0 /\ Found(s.queue, s.hand, PageDown(a)) /= {}
  <2>1. PageDown(a) /= Empty
    <3>1. PICK d \in Int, r \in 0..(PGSIZE - 1) : a = PGSIZE * d + r /\ d = a \div PGSIZE
      BY SizesAssumption, Divides
    <3>2. d /= -1
      BY <1>2, <3>1, SizesAssumption
    <3> QED BY <3>1, <3>2 DEF PageDown, Empty
  <2>2. PICK w : w = wsetdelete(s.queue, s.hand, PageDown(a))
    OBVIOUS
  <2>3. ClockGood(w.queue, w.hand)
    BY <1>1, <1>2, <2>1, <2>2, DeleteGood
  <2>4. w.queue \in [Index -> Pages \cup {Empty}] /\ w.hand \in Index \cup {-1}
    BY <2>3 DEF ClockGood
  <2>5. DeleteAt(s, a) = [ok |-> TRUE, queue |-> w.queue, hand |-> w.hand]
    BY <1>2, <2>2 DEF DeleteAt
  <2> QED BY <2>3, <2>4, <2>5 DEF ClockStates
<1>3. CASE ~(s.ok /\ a >= 0 /\ a % PGSIZE = 0 /\ Found(s.queue, s.hand, PageDown(a)) /= {})
  <2>1. DeleteAt(s, a) = [s EXCEPT !.ok = FALSE]
    BY <1>3 DEF DeleteAt
  <2> QED BY <1>1, <2>1 DEF ClockStates
<1> QED BY <1>2, <1>3

LEMMA DeletedGood ==
    ASSUME NEW s \in ClockStates, NEW a \in Int, NEW m \in Nat
    PROVE  Deleted(s, a, m) \in ClockStates
<1> DEFINE Body(f) == [i \in 0..m |-> IF i = 0 THEN s
                                      ELSE DeleteAt(f[i - 1], a - (i - 1) * PGSIZE)]
           del == CHOOSE f : f = Body(f)
<1>0. PGSIZE \in Int
  BY SizesAssumption
<1>1. ASSUME NEW i \in 1..m, NEW x \in ClockStates
      PROVE  DeleteAt(x, a - (i - 1) * PGSIZE) \in ClockStates
  <2>1. a - (i - 1) * PGSIZE \in Int
    BY <1>0
  <2> QED BY <2>1, DeleteAtGood
<1>2. PICK f : f = Body(f)
  <2> DEFINE step == [i \in 1..m |-> [x \in ClockStates |-> DeleteAt(x, a - (i - 1) * PGSIZE)]]
  <2>1. step \in [1..m -> [ClockStates -> ClockStates]]
    BY <1>1
  <2>2. \A i \in 1..m, x \in ClockStates : step[i][x] = DeleteAt(x, a - (i - 1) * PGSIZE)
    OBVIOUS
  <2> HIDE DEF step
  <2>3. PICK f \in [0..m -> ClockStates] : f[0] = s /\ \A i \in 1..m : f[i] = step[i][f[i - 1]]
    BY <2>1, RecursionExists
  <2>4. ASSUME NEW i \in 1..m PROVE f[i] = DeleteAt(f[i - 1], a - (i - 1) * PGSIZE)
    <3>1. i - 1 \in 0..m
      OBVIOUS
    <3>2. f[i - 1] \in ClockStates
      BY <3>1
    <3> QED BY <2>2, <2>3, <3>2
  <2>5. ASSUME NEW i \in 0..m
        PROVE  f[i] = IF i = 0 THEN s ELSE DeleteAt(f[i - 1], a - (i - 1) * PGSIZE)
    BY <2>3, <2>4
  <2>6. f = [i \in 0..m |-> f[i]]
    OBVIOUS
  <2>7. f = Body(f)
    BY <2>5, <2>6
  <2> QED BY <2>7
<1>3. PICK d : d = del
  OBVIOUS
<1>4. d = Body(d)
  BY <1>2, <1>3, Zenon
<1>5. d[0] = s /\ \A i \in 1..m : d[i] = DeleteAt(d[i - 1], a - (i - 1) * PGSIZE)
  BY <1>4
<1> DEFINE T == {k \in 0..m : d[k] \notin ClockStates}
<1>6. T = {}
  <2>1. SUFFICES ASSUME T /= {} PROVE FALSE
    OBVIOUS
  <2>2. PICK k \in T : \A j \in T : k <= j
    <3>1. T \subseteq Nat
      OBVIOUS
    <3> HIDE DEF T
    <3> QED BY <2>1, <3>1, NatMinimum
  <2>3. k \in 0..m /\ d[k] \notin ClockStates
    OBVIOUS
  <2>4. k /= 0
    BY <1>5, <2>3
  <2>5. k - 1 \in 0..m /\ k \in 1..m /\ ~(k <= k - 1)
    BY <2>3, <2>4
  <2>6. d[k - 1] \in ClockStates
    BY <2>2, <2>5
  <2> QED BY <1>1, <1>5, <2>3, <2>5, <2>6
<1>7. d[m] \in ClockStates
  BY <1>6
<1>8. Deleted(s, a, m) = del[m]
  BY DEF Deleted
<1> QED BY <1>3, <1>7, <1>8

-----------------------------------------------------------------------------
(* The page table. *)

\* An entry that was passed by, or encrypted.
SameButA(e, x) == e.P = x.P /\ e.E = x.E /\ e.U = x.U /\ e.data = x.data
Encrypted(e, x) == ~e.P /\ e.E /\ e.U = x.U /\ e.data = Flip(x.data)

LEMMA FlipType == \A d \in Contents : Flip(d) \in Contents
BY DEF Flip, Contents

LEMMA EncryptFacts ==
    ASSUME NEW t \in [Pages -> Entry], NEW first \in Int, NEW len \in Int
    PROVE  /\ mencrypt(t, first, len) \in [Pages -> Entry]
           /\ \A x \in Pages :
                IF x \in first..(first + len - 1) /\ ~t[x].E
                THEN Encrypted(mencrypt(t, first, len)[x], t[x])
                ELSE mencrypt(t, first, len)[x] = t[x]
<1>1. ASSUME NEW x \in Pages
      PROVE  [t[x] EXCEPT !.P = FALSE, !.E = TRUE, !.A = FALSE, !.data = Flip(@)] \in Entry
  BY FlipType DEF Entry
<1>2. mencrypt(t, first, len) \in [Pages -> Entry]
  BY <1>1 DEF mencrypt
<1>3. ASSUME NEW x \in Pages
      PROVE  IF x \in first..(first + len - 1) /\ ~t[x].E
             THEN Encrypted(mencrypt(t, first, len)[x], t[x])
             ELSE mencrypt(t, first, len)[x] = t[x]
  <2>1. mencrypt(t, first, len)[x] =
            IF x \in first..(first + len - 1) /\ ~t[x].E
            THEN [t[x] EXCEPT !.P = FALSE, !.E = TRUE, !.A = FALSE, !.data = Flip(@)]
            ELSE t[x]
    BY DEF mencrypt
  <2>2. t[x] \in Entry
    OBVIOUS
  <2> QED BY <2>1, <2>2 DEF Encrypted, Entry
<1> QED BY <1>2, <1>3

LEMMA DecryptFacts ==
    ASSUME NEW t \in [Pages -> Entry], NEW pg \in Pages
    PROVE  /\ Decrypt(t, pg) \in [Pages -> Entry]
           /\ Decrypt(t, pg)[pg].P /\ ~Decrypt(t, pg)[pg].E /\ Decrypt(t, pg)[pg].U = t[pg].U
           /\ Decrypt(t, pg)[pg].data = Flip(t[pg].data)
           /\ \A x \in Pages \ {pg} : Decrypt(t, pg)[x] = t[x]
<1>1. t[pg] \in Entry /\ Flip(t[pg].data) \in Contents
  BY FlipType DEF Entry
<1>2. Decrypt(t, pg) = [t EXCEPT ![pg] = [t[pg] EXCEPT !.P = TRUE, !.E = FALSE, !.A = TRUE,
                                                     !.data = Flip(t[pg].data)]]
  BY DEF Decrypt
<1>3. [t[pg] EXCEPT !.P = TRUE, !.E = FALSE, !.A = TRUE, !.data = Flip(t[pg].data)] \in Entry
  BY <1>1 DEF Entry
<1> QED BY <1>1, <1>2, <1>3 DEF Entry

\* wsetinsert: the clock stays in shape, and the page of the entry that is
\* replaced, and no other, is encrypted.
LEMMA InsertFacts ==
    ASSUME NEW t \in [Pages -> Entry], NEW q, NEW h, ClockGood(q, h), NEW pg \in Pages,
           NEW r, r = wsetinsert(t, q, h, pg)
    PROVE  \E at \in Index :
             /\ r.hand = at /\ r.ok \in BOOLEAN
             /\ r.ok <=> (q[at] = Empty \/ Accessible(t, q[at]))
             /\ r.queue = IF r.ok THEN [q EXCEPT ![at] = pg] ELSE q
             /\ ClockGood(r.queue, r.hand)
             /\ r.pt \in [Pages -> Entry]
             /\ \A x \in Pages :
                  IF r.ok /\ x = q[at] /\ ~t[x].E THEN Encrypted(r.pt[x], t[x])
                                                  ELSE SameButA(r.pt[x], t[x])
<1>0. h \in Int /\ q \in [Index -> Pages \cup {Empty}]
  BY SizesAssumption DEF ClockGood, Index
<1>1. PICK k \in Int : k = StopAt(t, q, h)
  BY ScanEnds, SizesAssumption
<1>2. PICK at \in Index : /\ at = (h + k) % CLOCKSIZE
                          /\ ClockGood([q EXCEPT ![at] = pg], at)
                          /\ q[at] /= Empty => ClockGood(q, at)
  BY <1>1, InsertGood
<1>3. PICK t1 \in [Pages -> Entry] : t1 = Unref(t, q, h, k) /\ \A x \in Pages : SameButA(t1[x], t[x])
  <2>1. ASSUME NEW x \in Pages
        PROVE  [t[x] EXCEPT !.A = FALSE] \in Entry /\ SameButA([t[x] EXCEPT !.A = FALSE], t[x])
    <3>1. t[x] \in Entry
      OBVIOUS
    <3> QED BY <3>1 DEF Entry, SameButA
  <2>2. Unref(t, q, h, k) \in [Pages -> Entry]
    BY <2>1 DEF Unref
  <2>3. ASSUME NEW x \in Pages PROVE SameButA(Unref(t, q, h, k)[x], t[x])
    <3>1. Unref(t, q, h, k)[x] = [t[x] EXCEPT !.A = FALSE] \/ Unref(t, q, h, k)[x] = t[x]
      BY DEF Unref
    <3>2. SameButA(t[x], t[x])
      BY DEF SameButA
    <3> QED BY <2>1, <3>1, <3>2
  <2> QED BY <2>2, <2>3
<1>4. PICK v \in Pages \cup {Empty} : v = q[at]
  BY <1>0
<1>5. Accessible(t1, v) <=> Accessible(t, v)
  BY <1>3 DEF Accessible, Mapped, SameButA
<1> DEFINE ok == v = Empty \/ Accessible(t1, v)
<1>6. r = [ok |-> ok, pt |-> IF ok /\ v /= Empty THEN mencrypt(t1, v, 1) ELSE t1,
           queue |-> IF ok THEN [q EXCEPT ![at] = pg] ELSE q, hand |-> at]
  BY <1>1, <1>2, <1>3, <1>4 DEF wsetinsert
<1>7. ok \in BOOLEAN
  BY DEF Accessible
<1> HIDE DEF ok
<1>8. /\ r.ok = ok /\ r.hand = at
      /\ r.queue = (IF ok THEN [q EXCEPT ![at] = pg] ELSE q)
      /\ r.pt = (IF ok /\ v /= Empty THEN mencrypt(t1, v, 1) ELSE t1)
  BY <1>6
<1>9. ClockGood(r.queue, r.hand)
  <2>1. CASE ok
    BY <1>2, <1>8, <2>1
  <2>2. CASE ~ok
    <3>1. q[at] /= Empty
      BY <1>4, <2>2 DEF ok
    <3> QED BY <1>2, <1>8, <2>2, <3>1
  <2> QED BY <2>1, <2>2
<1>10. /\ r.pt \in [Pages -> Entry]
       /\ \A x \in Pages : IF ok /\ x = v /\ ~t[x].E THEN Encrypted(r.pt[x], t[x])
                                                     ELSE SameButA(r.pt[x], t[x])
  <2>1. CASE ok /\ v /= Empty
    <3>1. v \in Pages /\ v \in Int
      BY <1>4, <2>1, SizesAssumption DEF Pages
    <3>2. r.pt = mencrypt(t1, v, 1)
      BY <1>8, <2>1
    <3>3. /\ r.pt \in [Pages -> Entry]
          /\ \A x \in Pages : IF x \in v..(v + 1 - 1) /\ ~t1[x].E THEN Encrypted(r.pt[x], t1[x])
                                                                  ELSE r.pt[x] = t1[x]
      BY <3>1, <3>2, EncryptFacts
    <3>4. \A x \in Pages : x \in v..(v + 1 - 1) <=> x = v
      BY <3>1, SizesAssumption DEF Pages
    <3> QED BY <1>3, <2>1, <3>3, <3>4 DEF Encrypted, SameButA
  <2>2. CASE ~(ok /\ v /= Empty)
    <3>1. r.pt = t1
      BY <1>8, <2>2
    <3>2. \A x \in Pages : x /= Empty
      BY DEF Pages, Empty
    <3> QED BY <1>3, <2>2, <3>1, <3>2
  <2> QED BY <2>1, <2>2
<1> QED BY <1>4, <1>5, <1>7, <1>8, <1>9, <1>10 DEF ok

\* The page fault handler, on the page table and the clock.
Faulted(pg, o, at, ok) ==
    /\ ClockGood(clockqueue', clockhand')
    /\ clockqueue' = IF ok THEN [clockqueue EXCEPT ![at] = pg] ELSE clockqueue
    /\ status' = IF ok THEN status ELSE o
    /\ ok <=> (clockqueue[at] = Empty \/ Accessible(Decrypt(pt, pg), clockqueue[at]))
    /\ pt' \in [Pages -> Entry]
    /\ \A x \in Pages \ {pg} :
        IF ok /\ x = clockqueue[at] /\ ~pt[x].E THEN Encrypted(pt'[x], pt[x])
                                                ELSE SameButA(pt'[x], pt[x])
    /\ pt'[pg].U = pt[pg].U
    /\ IF ok /\ pg = clockqueue[at]
       THEN ~pt'[pg].P /\ pt'[pg].E /\ pt'[pg].data = Flip(Flip(pt[pg].data))
       ELSE pt'[pg].P /\ ~pt'[pg].E /\ pt'[pg].data = Flip(pt[pg].data)

LEMMA FaultFacts ==
    ASSUME TypeOK, ClockGood(clockqueue, clockhand), NEW pg \in Pages, NEW o, mdecrypt(pg, o)
    PROVE  \E at \in Index, ok \in BOOLEAN : Faulted(pg, o, at, ok)
<1>1. PICK t \in [Pages -> Entry] :
        /\ t = Decrypt(pt, pg) /\ t[pg].P /\ ~t[pg].E /\ t[pg].U = pt[pg].U
        /\ t[pg].data = Flip(pt[pg].data) /\ \A x \in Pages \ {pg} : t[x] = pt[x]
  <2>1. pt \in [Pages -> Entry]
    BY DEF TypeOK
  <2> QED BY <2>1, DecryptFacts
<1>2. PICK q : q = clockqueue
  OBVIOUS
<1>3. PICK h : h = clockhand
  OBVIOUS
<1>4. PICK r : r = wsetinsert(t, q, h, pg)
  OBVIOUS
<1>5. pt' = r.pt /\ clockqueue' = r.queue /\ clockhand' = r.hand /\ status' = IF r.ok THEN status ELSE o
  BY <1>1, <1>2, <1>3, <1>4 DEF mdecrypt
<1>6. ClockGood(q, h)
  BY <1>2, <1>3
<1>7. PICK at \in Index :
             /\ r.hand = at /\ r.ok \in BOOLEAN
             /\ r.ok <=> (q[at] = Empty \/ Accessible(t, q[at]))
             /\ r.queue = IF r.ok THEN [q EXCEPT ![at] = pg] ELSE q
             /\ ClockGood(r.queue, r.hand)
             /\ r.pt \in [Pages -> Entry]
             /\ \A x \in Pages :
                  IF r.ok /\ x = q[at] /\ ~t[x].E THEN Encrypted(r.pt[x], t[x])
                                                  ELSE SameButA(r.pt[x], t[x])
  BY <1>4, <1>6, InsertFacts, SMTT(60)
<1>8. PICK ok \in BOOLEAN : ok = r.ok
  BY <1>7
<1>9. /\ ClockGood(clockqueue', clockhand')
      /\ clockqueue' = IF ok THEN [clockqueue EXCEPT ![at] = pg] ELSE clockqueue
      /\ status' = IF ok THEN status ELSE o
      /\ ok <=> (clockqueue[at] = Empty \/ Accessible(Decrypt(pt, pg), clockqueue[at]))
      /\ pt' \in [Pages -> Entry]
  BY <1>1, <1>2, <1>5, <1>7, <1>8
<1>10. ASSUME NEW x \in Pages \ {pg}
       PROVE  IF ok /\ x = clockqueue[at] /\ ~pt[x].E THEN Encrypted(pt'[x], pt[x])
                                                      ELSE SameButA(pt'[x], pt[x])
  BY <1>1, <1>2, <1>5, <1>7, <1>8
<1>11. IF ok /\ pg = clockqueue[at] THEN Encrypted(pt'[pg], t[pg]) ELSE SameButA(pt'[pg], t[pg])
  BY <1>1, <1>2, <1>5, <1>7, <1>8
<1>12. /\ pt'[pg].U = pt[pg].U
       /\ IF ok /\ pg = clockqueue[at]
          THEN ~pt'[pg].P /\ pt'[pg].E /\ pt'[pg].data = Flip(Flip(pt[pg].data))
          ELSE pt'[pg].P /\ ~pt'[pg].E /\ pt'[pg].data = Flip(pt[pg].data)
  BY <1>1, <1>11 DEF Encrypted, SameButA
<1> QED BY <1>9, <1>10, <1>12 DEF Faulted

-----------------------------------------------------------------------------
(* The clock keeps its shape. *)

LEMMA FreeTyped == Free \in Entry /\ Fresh \in Entry
BY DEF Free, Fresh, Entry, Contents

LEMMA TableTyped == ExecTable \in [Pages -> Entry]
<1>1. /\ [Fresh EXCEPT !.U = FALSE] \in Entry
      /\ [Fresh EXCEPT !.P = FALSE, !.E = TRUE, !.data = "neg"] \in Entry
  BY DEF Free, Fresh, Entry, Contents
<1> QED BY <1>1, FreeTyped DEF ExecTable

LEMMA ExecSizeTyped == ExecSize \in 0..(MaxPages * PGSIZE) /\ Guard \in Pages
<1>1. PICK P \in Nat, M \in Nat, T \in Nat : P = PGSIZE /\ M = MaxPages /\ T = TextPages /\ M >= T + 2
  BY SizesAssumption
<1>2. (M - (T + 2)) * P >= 0 /\ (T + 2) * P >= 0 /\ (T + 2) * P \in Int /\ M * P \in Int
  BY <1>1
<1>3. (M - (T + 2)) * P = M * P - (T + 2) * P
  BY <1>1
<1>4. (T + 2) * P \in 0..(M * P)
  BY <1>2, <1>3
<1> QED BY <1>1, <1>4 DEF ExecSize, Guard, Pages

LEMMA EmptyClockGood == ClockGood(EmptyClock, -1)
<1>1. EmptyClock \in [Index -> Pages \cup {Empty}] /\ \A i \in Index : EmptyClock[i] = Empty
  BY DEF EmptyClock
<1>2. ASSUME NEW k \in Int PROVE At(EmptyClock, -1, k) = Empty
  <2>1. -1 + k \in Int
    OBVIOUS
  <2> QED BY <1>1, <2>1, ClockMod DEF At
<1> QED BY <1>1, <1>2 DEF ClockGood

LEMMA InitBase == Init => BaseInv
BY TableTyped, ExecSizeTyped, EmptyClockGood DEF Init, BaseInv, TypeOK, ClockGood

LEMMA FaultBase ==
    ASSUME BaseInv, NEW pg \in Pages, NEW o \in {"killed", "panic"}, mdecrypt(pg, o),
           sz' = sz, odd' = odd, stuck' \in BOOLEAN
    PROVE  BaseInv'
<1>1. PICK at \in Index, ok \in BOOLEAN : Faulted(pg, o, at, ok)
  BY FaultFacts DEF BaseInv
<1>2. ClockGood(clockqueue', clockhand') /\ pt' \in [Pages -> Entry] /\ status' \in {status, o}
  BY <1>1 DEF Faulted
<1>3. TypeOK'
  BY <1>2 DEF BaseInv, TypeOK, ClockGood
<1> QED BY <1>2, <1>3 DEF BaseInv

\* What changes only the page table and the size.
LEMMA TableBase ==
    ASSUME BaseInv, pt' \in [Pages -> Entry], sz' \in 0..(MaxPages * PGSIZE),
           UNCHANGED <<clockqueue, clockhand, stuck>>, status' \in {"run", "killed", "panic"},
           odd' \in BOOLEAN
    PROVE  BaseInv'
BY DEF BaseInv, TypeOK, ClockGood, At

LEMMA ShrinkBase == ASSUME BaseInv, NEW n \in Sbrks, Shrink(n) PROVE BaseInv'
<1> DEFINE end == IF sz + n < 0 THEN sz ELSE sz + n
           s == [ok |-> TRUE, queue |-> clockqueue, hand |-> clockhand]
           r == Deleted(s, end, (-n) \div PGSIZE)
<1>1. n \in Int /\ n < 0 /\ sz \in Nat /\ sz <= MaxPages * PGSIZE /\ MaxPages * PGSIZE \in Int
  BY SbrksAssumption, SizesAssumption DEF Shrink, BaseInv, TypeOK
<1>2. end \in 0..(MaxPages * PGSIZE) /\ end \in Int
  BY <1>1
<1>3. PICK m \in Nat : m = (-n) \div PGSIZE
  <2>1. PICK P \in Nat : P = PGSIZE /\ P > 0
    BY SizesAssumption
  <2>2. PICK d \in Int, e \in 0..(P - 1) : -n = P * d + e /\ d = (-n) \div P
    <3>1. -n \in Int
      BY <1>1
    <3> QED BY <2>1, <3>1, Divides
  <2>3. d >= 0
    BY <1>1, <2>1, <2>2
  <2> QED BY <2>1, <2>2, <2>3
<1>4. s \in ClockStates
  BY DEF BaseInv, TypeOK, ClockStates
<1> HIDE DEF s
<1>5. PICK w \in ClockStates : w = r
  <2>1. PICK x \in ClockStates : x = s
    BY <1>4
  <2>2. PICK e \in Int : e = end
    BY <1>2
  <2>3. Deleted(x, e, m) \in ClockStates
    BY DeletedGood
  <2> QED BY <1>3, <2>1, <2>2, <2>3
<1>6. /\ w.queue \in [Index -> Pages \cup {Empty}] /\ w.hand \in Index \cup {-1}
      /\ ClockGood(w.queue, w.hand)
  BY DEF ClockStates
<1>7. /\ pt' = [pg \in Pages |-> IF pg \in Between(end, sz) THEN Free ELSE pt[pg]]
      /\ clockqueue' = IF end = 0 THEN clockqueue ELSE r.queue
      /\ clockhand' = IF end = 0 THEN clockhand ELSE r.hand
      /\ sz' = IF end /= 0 /\ r.ok THEN end ELSE sz
      /\ stuck' = stuck /\ status' = status /\ odd' = TRUE
  BY DEF Shrink, s
<1> HIDE DEF end, r
<1>8. pt' \in [Pages -> Entry]
  BY <1>7, FreeTyped DEF BaseInv, TypeOK
<1>9. ClockGood(clockqueue', clockhand')
  BY <1>5, <1>6, <1>7 DEF BaseInv
<1>10. TypeOK'
  BY <1>2, <1>7, <1>8, <1>9 DEF BaseInv, TypeOK, ClockGood
<1> QED BY <1>9, <1>10 DEF BaseInv

LEMMA GrowBase == ASSUME BaseInv, NEW n \in Sbrks, Grow(n) \/ GrowFails(n) PROVE BaseInv'
<1>1. n \in Int /\ sz \in Nat /\ sz <= MaxPages * PGSIZE /\ MaxPages * PGSIZE \in Int
  BY SbrksAssumption, SizesAssumption DEF BaseInv, TypeOK
<1>2. pt \in [Pages -> Entry] /\ status \in {"run", "killed", "panic"} /\ odd \in BOOLEAN
  BY DEF BaseInv, TypeOK
<1>3. CASE GrowFails(n)
  <2>1. pt' \in [Pages -> Entry]
    BY <1>2, <1>3, FreeTyped DEF GrowFails
  <2>2. sz' = sz /\ status' = status /\ odd' = odd /\ UNCHANGED <<clockqueue, clockhand, stuck>>
    BY <1>3 DEF GrowFails
  <2> QED BY <1>1, <1>2, <2>1, <2>2, TableBase
<1>4. CASE Grow(n)
  <2> DEFINE new == Between(sz, sz + n)
             t == [pg \in Pages |-> IF pg \in new THEN Fresh ELSE pt[pg]]
             first == PageDown(sz)
             len == n \div PGSIZE
             ok == MayEncrypt(t, first, len)
  <2>1. n > 0 /\ sz + n <= MaxPages * PGSIZE /\ UNCHANGED <<clockqueue, clockhand, stuck>>
    BY <1>4 DEF Grow
  <2>2. \/ status' = "panic" /\ sz' = sz /\ pt' = pt
        \/ /\ pt' = IF ok THEN mencrypt(t, first, len) ELSE t
           /\ sz' = IF ok THEN sz + n ELSE sz
           /\ status' = status
    BY <1>4 DEF Grow
  <2>3. odd' \in BOOLEAN
    BY <1>4 DEF Grow
  <2>4. t \in [Pages -> Entry]
    BY <1>2, FreeTyped
  <2>5. first \in Int /\ len \in Int
    BY <1>1, SizesAssumption DEF PageDown
  <2> HIDE DEF t, first, len, ok
  <2>6. PICK u \in [Pages -> Entry] : u = t
    BY <2>4
  <2>7. mencrypt(t, first, len) \in [Pages -> Entry]
    BY <2>5, <2>6, EncryptFacts
  <2>8. pt' \in [Pages -> Entry] /\ sz' \in 0..(MaxPages * PGSIZE) /\ status' \in {"run", "killed", "panic"}
    BY <1>1, <1>2, <2>1, <2>2, <2>4, <2>7
  <2> QED BY <2>1, <2>3, <2>8, TableBase
<1> QED BY <1>3, <1>4

LEMMA NextBase == BaseInv /\ [Next]_vars => BaseInv'
<1> SUFFICES ASSUME BaseInv, [Next]_vars PROVE BaseInv'
  OBVIOUS
<1>0. /\ pt \in [Pages -> Entry] /\ status \in {"run", "killed", "panic"} /\ odd \in BOOLEAN
      /\ sz \in 0..(MaxPages * PGSIZE) /\ stuck \in BOOLEAN
  BY DEF BaseInv, TypeOK
<1>1. ASSUME NEW pg \in Pages, Touch(pg) PROVE BaseInv'
  <2>1. pt' \in [Pages -> Entry]
    BY <1>0, <1>1 DEF Touch, Entry
  <2> QED BY <1>0, <1>1, <2>1, TableBase DEF Touch
<1>2. ASSUME NEW pg \in Pages, Fault(pg) PROVE BaseInv'
  BY <1>0, <1>2, FaultBase DEF Fault
<1>3. ASSUME NEW pg \in Pages, KernelAccess(pg) PROVE BaseInv'
  <2>1. CASE Mapped(pt, pg)
    BY <1>0, <1>3, <2>1, FaultBase DEF KernelAccess
  <2>2. CASE ~Mapped(pt, pg)
    <3>1. status' = "panic" /\ UNCHANGED <<pt, clockqueue, clockhand, sz, stuck, odd>>
      BY <1>3, <2>2 DEF KernelAccess
    <3> QED BY <1>0, <3>1, TableBase
  <2> QED BY <2>1, <2>2
<1>4. ASSUME NEW pg \in Pages, NEW s \in Spans, DumpRaw(pg, s) PROVE BaseInv'
  <2>1. pt' \in [Pages -> Entry]
    <3>1. \A x \in Pages : [pt[x] EXCEPT !.A = TRUE] \in Entry /\ [pt[x] EXCEPT !.data = "mixed"] \in Entry
      BY <1>0 DEF Entry, Contents
    <3> QED BY <1>0, <1>4, <3>1 DEF DumpRaw
  <2> QED BY <1>0, <1>4, <2>1, TableBase DEF DumpRaw
<1>5. CASE GuardFault
  <2>1. stuck' \in BOOLEAN
    BY <1>5 DEF GuardFault
  <2> QED BY <1>5, <2>1, FaultBase, ExecSizeTyped DEF GuardFault
<1>6. CASE WildAccess \/ Fork
  <2>1. /\ UNCHANGED <<sz, pt, clockqueue, clockhand, stuck, odd>>
        /\ status' \in {status, "killed", "panic"}
    BY <1>6 DEF WildAccess, Fork
  <2> QED BY <1>0, <2>1, TableBase
<1>7. CASE Exec
  BY <1>7, TableTyped, ExecSizeTyped, EmptyClockGood DEF Exec, BaseInv, TypeOK, ClockGood
<1>8. CASE UNCHANGED vars
  BY <1>0, <1>8, TableBase DEF vars
<1> QED BY <1>1, <1>2, <1>3, <1>4, <1>5, <1>6, <1>7, <1>8, GrowBase, ShrinkBase DEF Next, Over

LEMMA BaseAlways == Spec => []BaseInv
BY InitBase, NextBase, PTL DEF Spec

\* The unused entries of the clock are the ones the hand meets next, and hand
\* and entries stay in range, for every clock, through every wsetinsert() and
\* every loop of wsetdelete() that growproc() runs.
THEOREM ClockCorrect == Spec => []ClockOK
<1>1. BaseInv => ClockOK
  BY DEF BaseInv, ClockGood, ClockOK, ClockShape
<1> QED BY <1>1, BaseAlways, PTL

-----------------------------------------------------------------------------
(* Contents match the encryption bit. *)

Matches(e) == (e.E => e.data = "neg" /\ ~e.P) /\ (e.P /\ e.U => e.data = "plain")

LEMMA MatchesForm == ContentMatches <=> \A pg \in Pages : Matches(pt[pg])
BY DEF ContentMatches, Matches

LEMMA MatchesNext == ContentMatches' <=> \A pg \in Pages : Matches(pt'[pg])
BY DEF ContentMatches, Matches

LEMMA FlipValues == Flip("plain") = "neg" /\ Flip("neg") = "plain"
BY DEF Flip

LEMMA MatchesSame ==
    ASSUME NEW e, NEW x, Matches(x), SameButA(e, x)
    PROVE  Matches(e)
BY DEF Matches, SameButA

LEMMA MatchesEncrypted ==
    ASSUME NEW e, NEW x, Matches(x), x.P, x.U, Encrypted(e, x)
    PROVE  Matches(e)
BY FlipValues DEF Matches, Encrypted

\* mdecrypt is called on an encrypted page, or on one that is not the user's.
LEMMA FaultMatches ==
    ASSUME BaseInv, ContentMatches, NEW pg \in Pages, NEW o, mdecrypt(pg, o),
           pt[pg].E \/ ~pt[pg].U
    PROVE  ContentMatches'
<1>1. PICK at \in Index, ok \in BOOLEAN : Faulted(pg, o, at, ok)
  BY FaultFacts DEF BaseInv
<1>2. PICK v \in Pages \cup {Empty} : v = clockqueue[at]
  BY DEF BaseInv, ClockGood
<1>3. PICK t \in [Pages -> Entry] :
        /\ t = Decrypt(pt, pg) /\ t[pg].P /\ ~t[pg].E /\ t[pg].U = pt[pg].U
        /\ \A x \in Pages \ {pg} : t[x] = pt[x]
  <2>1. pt \in [Pages -> Entry]
    BY DEF BaseInv, TypeOK
  <2> QED BY <2>1, DecryptFacts
<1>4. ok /\ v /= Empty => Accessible(t, v)
  BY <1>1, <1>2, <1>3 DEF Faulted
<1>5. ASSUME NEW x \in Pages \ {pg} PROVE Matches(pt'[x])
  <2>1. Matches(pt[x])
    BY MatchesForm
  <2>2. CASE ok /\ x = v /\ ~pt[x].E
    <3>1. Encrypted(pt'[x], pt[x])
      BY <1>1, <1>2, <2>2 DEF Faulted
    <3>2. pt[x].P /\ pt[x].U
      <4>1. x /= Empty
        BY DEF Pages, Empty
      <4>2. Accessible(t, x)
        BY <1>4, <2>2, <4>1
      <4> QED BY <1>3, <2>2, <4>2 DEF Accessible, Mapped
    <3> QED BY <2>1, <3>1, <3>2, MatchesEncrypted
  <2>3. CASE ~(ok /\ x = v /\ ~pt[x].E)
    <3>1. SameButA(pt'[x], pt[x])
      BY <1>1, <1>2, <2>3 DEF Faulted
    <3> QED BY <2>1, <3>1, MatchesSame
  <2> QED BY <2>2, <2>3
<1>6. Matches(pt'[pg])
  <2>1. pt[pg].E => pt[pg].data = "neg"
    BY DEF ContentMatches
  <2>2. CASE ok /\ pg = v
    <3>1. pg /= Empty
      BY DEF Pages, Empty
    <3>2. Accessible(t, pg)
      BY <1>4, <2>2, <3>1
    <3>3. pt[pg].U
      BY <1>3, <3>2 DEF Accessible
    <3>4. ~pt'[pg].P /\ pt'[pg].E /\ pt'[pg].data = Flip(Flip(pt[pg].data))
      BY <1>1, <1>2, <2>2 DEF Faulted
    <3> QED BY <2>1, <3>3, <3>4, FlipValues DEF Matches
  <2>3. CASE ~(ok /\ pg = v)
    <3>1. /\ pt'[pg].P /\ ~pt'[pg].E /\ pt'[pg].data = Flip(pt[pg].data)
          /\ pt'[pg].U = pt[pg].U
      BY <1>1, <1>2, <2>3 DEF Faulted
    <3>2. ~pt[pg].U => ~pt'[pg].U
      BY <3>1
    <3> QED BY <2>1, <3>1, <3>2, FlipValues DEF Matches
  <2> QED BY <2>2, <2>3
<1> QED BY <1>5, <1>6, MatchesNext

LEMMA TableMatches ==
    ASSUME ContentMatches, \A x \in Pages : pt'[x] = Free \/ SameButA(pt'[x], pt[x])
    PROVE  ContentMatches'
<1>1. Matches(Free)
  BY DEF Matches, Free
<1>2. ASSUME NEW x \in Pages PROVE Matches(pt'[x])
  <2>1. Matches(pt[x])
    BY MatchesForm
  <2> QED BY <1>1, <2>1, MatchesSame
<1> QED BY <1>2, MatchesNext

LEMMA GrowMatches == ASSUME BaseInv, ContentMatches, NEW n \in Sbrks, Grow(n) PROVE ContentMatches'
<1> DEFINE new == Between(sz, sz + n)
           t == [pg \in Pages |-> IF pg \in new THEN Fresh ELSE pt[pg]]
           first == PageDown(sz)
           len == n \div PGSIZE
           ok == MayEncrypt(t, first, len)
<1>1. \/ pt' = pt
      \/ pt' = IF ok THEN mencrypt(t, first, len) ELSE t
  BY DEF Grow
<1>2. t \in [Pages -> Entry]
  BY FreeTyped DEF BaseInv, TypeOK
<1>3. first \in Int /\ len \in Int
  <2>1. n \in Int /\ sz \in Int
    BY SbrksAssumption, SizesAssumption DEF BaseInv, TypeOK
  <2> QED BY <2>1, SizesAssumption DEF PageDown
<1>4. \A x \in Pages : Matches(t[x])
  <2>1. Matches(Fresh)
    BY DEF Matches, Fresh, Free
  <2> QED BY <2>1, MatchesForm
<1>5. ok <=> \A i \in first..(first + len - 1) : Accessible(t, i)
  BY DEF MayEncrypt
<1>6. PICK u \in [Pages -> Entry] : u = t
  BY <1>2
<1> HIDE DEF t, first, len, ok
<1>7. CASE pt' = mencrypt(t, first, len) /\ ok
  <2>1. ASSUME NEW x \in Pages PROVE Matches(pt'[x])
    <3>1. IF x \in first..(first + len - 1) /\ ~u[x].E THEN Encrypted(pt'[x], u[x]) ELSE pt'[x] = u[x]
      BY <1>3, <1>6, <1>7, EncryptFacts
    <3>2. Matches(u[x])
      BY <1>4, <1>6
    <3>3. x \in first..(first + len - 1) /\ ~u[x].E => u[x].P /\ u[x].U
      BY <1>5, <1>6, <1>7 DEF Accessible, Mapped
    <3> QED BY <3>1, <3>2, <3>3, MatchesEncrypted
  <2> QED BY <2>1, MatchesNext
<1>8. CASE pt' = t
  BY <1>4, <1>8, MatchesNext
<1>9. CASE pt' = pt
  BY <1>9, MatchesForm, MatchesNext
<1> QED BY <1>1, <1>7, <1>8, <1>9

LEMMA NextMatches ==
    ASSUME Spans \subseteq {FALSE}, BaseInv, ContentMatches, [Next]_vars
    PROVE  ContentMatches'
<1>0. pt \in [Pages -> Entry]
  BY DEF BaseInv, TypeOK
<1>1. ASSUME NEW pg \in Pages, Touch(pg) PROVE ContentMatches'
  <2>1. \A x \in Pages : SameButA(pt'[x], pt[x])
    BY <1>0, <1>1 DEF Touch, SameButA, Entry
  <2> QED BY <2>1, TableMatches
<1>2. ASSUME NEW pg \in Pages, Fault(pg) PROVE ContentMatches'
  BY <1>2, FaultMatches DEF Fault
<1>3. ASSUME NEW pg \in Pages, KernelAccess(pg) PROVE ContentMatches'
  <2>1. CASE Mapped(pt, pg)
    <3>1. pt[pg].E /\ mdecrypt(pg, "panic")
      BY <1>3, <2>1 DEF KernelAccess, Mapped
    <3> QED BY <3>1, FaultMatches
  <2>2. CASE ~Mapped(pt, pg)
    <3>1. pt' = pt
      BY <1>3, <2>2 DEF KernelAccess
    <3> QED BY <3>1, MatchesForm, MatchesNext
  <2> QED BY <2>1, <2>2
<1>4. ASSUME NEW pg \in Pages, NEW s \in Spans, DumpRaw(pg, s) PROVE ContentMatches'
  <2>1. s = FALSE
    OBVIOUS
  <2>2. \A x \in Pages : pt'[x] = pt[x] \/ pt'[x] = [pt[x] EXCEPT !.A = TRUE]
    BY <1>4, <2>1 DEF DumpRaw
  <2>3. ASSUME NEW x \in Pages PROVE SameButA(pt'[x], pt[x])
    <3>1. PICK e \in Entry : e = pt[x]
      BY <1>0
    <3>2. SameButA(e, e) /\ SameButA([e EXCEPT !.A = TRUE], e)
      BY DEF SameButA, Entry
    <3> QED BY <2>2, <3>1, <3>2
  <2> QED BY <2>3, TableMatches
<1>5. CASE GuardFault
  BY <1>5, FaultMatches, ExecSizeTyped DEF GuardFault
<1>6. CASE WildAccess \/ Fork \/ UNCHANGED vars
  <2>1. pt' = pt
    BY <1>6 DEF WildAccess, Fork, vars
  <2> QED BY <2>1, MatchesForm, MatchesNext
<1>7. CASE Exec
  <2>1. ASSUME NEW x \in Pages PROVE Matches(ExecTable[x])
    BY DEF ExecTable, Matches, Free, Fresh
  <2> QED BY <1>7, <2>1, MatchesNext DEF Exec
<1>8. ASSUME NEW n \in Sbrks, GrowFails(n) \/ Shrink(n) PROVE ContentMatches'
  <2>1. \A x \in Pages : pt'[x] = Free \/ pt'[x] = pt[x]
    BY <1>8 DEF GrowFails, Shrink
  <2>2. \A x \in Pages : SameButA(pt[x], pt[x])
    BY DEF SameButA
  <2>3. \A x \in Pages : pt'[x] = Free \/ SameButA(pt'[x], pt[x])
    BY <2>1, <2>2
  <2> QED BY <2>3, TableMatches
<1> QED BY <1>1, <1>2, <1>3, <1>4, <1>5, <1>6, <1>7, <1>8, GrowMatches DEF Next, Over

\* As long as the buffer of dump_rawphymem() lies in one page, a page marked
\* encrypted holds the complement of its contents and a page the program can
\* read holds its contents: through faults, replacement by the clock, sbrk,
\* fork and exec nothing is encrypted or decrypted twice.
THEOREM ContentsCorrect == ASSUME Spans \subseteq {FALSE} PROVE Spec => []ContentMatches
<1>1. Init => ContentMatches
  <2> SUFFICES ASSUME Init PROVE ContentMatches
    OBVIOUS
  <2>1. ASSUME NEW x \in Pages PROVE Matches(ExecTable[x])
    BY DEF ExecTable, Matches, Free, Fresh
  <2> QED BY <2>1, MatchesForm DEF Init
<1>2. BaseInv /\ ContentMatches /\ [Next]_vars => ContentMatches'
  BY NextMatches
<1> QED BY <1>1, <1>2, BaseAlways, PTL DEF Spec

-----------------------------------------------------------------------------
(* The working set is what is resident. *)

LEMMA PageNumbers ==
    ASSUME NEW x \in Nat, x % PGSIZE = 0
    PROVE  PageDown(x) \in Nat /\ PageUp(x) = PageDown(x) /\ x = PGSIZE * PageDown(x)
<1>1. PICK P \in Nat : P = PGSIZE /\ P > 0
  BY SizesAssumption
<1>2. PICK d \in Int, r \in 0..(P - 1) : x = P * d + r /\ r = x % P /\ d = x \div P
  BY <1>1, Divides
<1>3. r = 0 /\ x = P * d
  BY <1>1, <1>2
<1>4. d >= 0
  BY <1>1, <1>3
<1>5. PICK e \in Int, s \in 0..(P - 1) : x + P - 1 = P * e + s /\ e = (x + P - 1) \div P
  <2>1. x + P - 1 \in Int
    OBVIOUS
  <2> QED BY <1>1, <2>1, Divides
<1>6. e = d
  <2>1. P * (e - d) = P - 1 - s /\ e - d \in Int
    BY <1>3, <1>5
  <2>2. ~(e - d >= 1) /\ ~(e - d <= -1)
    BY <1>1, <2>1
  <2> QED BY <2>1, <2>2
<1> QED BY <1>1, <1>2, <1>3, <1>4, <1>5, <1>6 DEF PageDown, PageUp

LEMMA PageSum ==
    ASSUME NEW x \in Nat, x % PGSIZE = 0, NEW n \in Nat, n % PGSIZE = 0
    PROVE  /\ (x + n) % PGSIZE = 0
           /\ PageDown(x + n) = PageDown(x) + (n \div PGSIZE) /\ n \div PGSIZE \in Nat
<1>1. PICK P \in Nat : P = PGSIZE /\ P > 0
  BY SizesAssumption
<1>2. PICK d \in Nat : d = PageDown(x) /\ x = P * d
  BY <1>1, PageNumbers
<1>3. PICK e \in Nat : e = PageDown(n) /\ n = P * e
  BY <1>1, PageNumbers
<1>4. PICK c \in Int, r \in 0..(P - 1) : x + n = P * c + r /\ c = (x + n) \div P /\ r = (x + n) % P
  <2>1. x + n \in Int
    OBVIOUS
  <2> QED BY <1>1, <2>1, Divides
<1>5. P * (c - (d + e)) = -r /\ c - (d + e) \in Int
  <2>1. P * c + r = P * d + P * e
    BY <1>2, <1>3, <1>4
  <2>2. P * (c - (d + e)) = P * c - (P * d + P * e)
    OBVIOUS
  <2>3. P * c \in Int /\ P * d \in Int /\ P * e \in Int
    OBVIOUS
  <2> QED BY <2>1, <2>2, <2>3
<1>6. ~(c - (d + e) >= 1) /\ ~(c - (d + e) <= -1)
  BY <1>1, <1>5
<1> QED BY <1>1, <1>2, <1>3, <1>4, <1>5, <1>6 DEF PageDown

\* The bits of an entry that count, once it is mapped.
SameBits(e, x) == e.P = x.P /\ e.E = x.E /\ (x.P \/ x.E => e.U = x.U)

LEMMA SameResident ==
    ASSUME BaseInv, ResidentInv, ~odd, \A x \in Pages : SameBits(pt'[x], pt[x]),
           sz' = sz, clockqueue' = clockqueue, stuck' = stuck, status' \in {status, "killed"}
    PROVE  ResidentInv'
<1>1. TableInv /\ SetInv /\ status /= "panic"
  BY DEF ResidentInv
<1>2. Guard \in Pages
  BY ExecSizeTyped
<1>3. \A x \in Pages : Mapped(pt', x) <=> Mapped(pt, x)
  BY DEF SameBits, Mapped
<1>4. TableInv'
  <2>1. ASSUME NEW x \in Pages PROVE Mapped(pt, x)' <=> Mapped(pt', x)
    BY DEF Mapped
  <2> QED BY <1>1, <1>2, <1>3, <2>1 DEF TableInv, SameBits, Mapped
<1>5. SetInv'
  <2>1. \A i \in Index : clockqueue[i] /= Empty => clockqueue[i] \in Pages
    BY DEF BaseInv, ClockGood
  <2>2. \A i \in Index : clockqueue'[i] /= Empty => Mapped(pt', clockqueue'[i])
    BY <1>1, <1>3, <2>1 DEF SetInv
  <2>3. Runs' => Runs
    BY DEF Runs
  <2>4. Runs' => ~InClock(clockqueue', Guard)
    BY <1>1, <2>3 DEF SetInv
  <2>5. status' = "run" => \A x \in Pages \ {Guard} : pt'[x].P <=> InClock(clockqueue', x)
    BY <1>1 DEF SetInv, SameBits
  <2> QED BY <1>1, <2>2, <2>4, <2>5 DEF SetInv, InClock, Mapped
<1> QED BY <1>1, <1>4, <1>5 DEF ResidentInv

\* The page fault handler replaces one page of the set by another.
LEMMA FaultResident ==
    ASSUME BaseInv, ResidentInv, ~odd, status = "run", NEW pg \in Pages, NEW o,
           Mapped(pt, pg), pg = Guard \/ ~pt[pg].P, mdecrypt(pg, o), sz' = sz
    PROVE  \E at \in Index :
            /\ TableInv'
            /\ \A i \in Index : clockqueue'[i] /= Empty => Mapped(pt', clockqueue'[i])
            /\ \A i, j \in Index :
                clockqueue'[i] = clockqueue'[j] /\ clockqueue'[i] \notin {Empty, Guard} => i = j
            /\ InClock(clockqueue', Guard) => InClock(clockqueue, Guard) \/ pg = Guard
            /\ IF clockqueue[at] = Guard THEN status' = o
               ELSE /\ status' = status
                    /\ \A x \in Pages \ {Guard} : pt'[x].P <=> InClock(clockqueue', x)
<1>1. TableInv /\ SetInv
  BY DEF ResidentInv
<1>2. Guard \in Pages
  BY ExecSizeTyped
<1>3. PICK at \in Index, ok \in BOOLEAN : Faulted(pg, o, at, ok)
  BY FaultFacts DEF BaseInv
<1>4. PICK q \in [Index -> Pages \cup {Empty}] : q = clockqueue
  BY DEF BaseInv, ClockGood
<1>5. PICK v \in Pages \cup {Empty} : v = q[at]
  BY <1>4
<1>6. pg /= Empty /\ \A x \in Pages : x /= Empty
  BY DEF Pages, Empty
\* The old state.
<1>7. /\ \A i \in Index : q[i] /= Empty => Mapped(pt, q[i])
      /\ \A i, j \in Index : q[i] = q[j] /\ q[i] \notin {Empty, Guard} => i = j
      /\ \A x \in Pages \ {Guard} : pt[x].P <=> InClock(q, x)
  BY <1>1, <1>4 DEF SetInv
<1>8. pg /= Guard => ~InClock(q, pg) /\ pg /= v
  BY <1>5, <1>7 DEF InClock
<1>9. PICK t \in [Pages -> Entry] :
        /\ t = Decrypt(pt, pg) /\ t[pg].P /\ ~t[pg].E /\ t[pg].U = pt[pg].U
        /\ \A x \in Pages \ {pg} : t[x] = pt[x]
  <2>1. pt \in [Pages -> Entry]
    BY DEF BaseInv, TypeOK
  <2> QED BY <2>1, DecryptFacts
\* Only the guard page cannot be encrypted.
<1>10. ok <=> v /= Guard
  <2>1. ok <=> (v = Empty \/ Accessible(t, v))
    BY <1>3, <1>4, <1>5, <1>9 DEF Faulted
  <2>2. CASE v = Empty
    BY <1>2, <1>6, <2>1, <2>2
  <2>3. CASE v = Guard
    <3>1. ~pt[Guard].U
      BY <1>1, <1>2 DEF TableInv, Mapped
    <3>2. ~t[Guard].U
      BY <1>2, <1>9, <3>1
    <3> QED BY <1>2, <1>6, <2>1, <2>3, <3>2 DEF Accessible
  <2>4. CASE v \in Pages \ {Guard}
    <3>1. InClock(q, v)
      BY <1>5 DEF InClock
    <3>2. Mapped(pt, v) /\ pt[v].U
      BY <1>1, <1>5, <1>6, <1>7, <2>4 DEF TableInv
    <3>3. v /= pg
      BY <1>8, <2>4
    <3>4. t[v] = pt[v]
      BY <1>9, <2>4, <3>3
    <3>5. Accessible(t, v)
      BY <2>4, <3>2, <3>4 DEF Accessible, Mapped
    <3> QED BY <2>1, <2>4, <3>5
  <2> QED BY <2>2, <2>3, <2>4
\* The new page table.
<1>11. /\ pt'[pg].P /\ ~pt'[pg].E /\ pt'[pg].U = pt[pg].U
       /\ \A x \in Pages \ {pg, v} : SameBits(pt'[x], pt[x])
       /\ ~ok /\ v \in Pages \ {pg} => SameBits(pt'[v], pt[v])
       /\ ok /\ v \in Pages \ {pg} => ~pt'[v].P /\ pt'[v].E /\ pt'[v].U = pt[v].U
  <2>1. ~(ok /\ pg = v)
    BY <1>8, <1>10
  <2>2. pt'[pg].P /\ ~pt'[pg].E /\ pt'[pg].U = pt[pg].U
    BY <1>3, <1>4, <1>5, <2>1 DEF Faulted
  <2>3. \A x \in Pages \ {pg, v} : SameBits(pt'[x], pt[x])
    BY <1>3, <1>4, <1>5 DEF Faulted, SameButA, SameBits
  <2>4. ~ok /\ v \in Pages \ {pg} => SameBits(pt'[v], pt[v])
    BY <1>3, <1>4, <1>5 DEF Faulted, SameButA, SameBits
  <2>5. ok /\ v \in Pages \ {pg} => ~pt[v].E
    <3>1. SUFFICES ASSUME ok, v \in Pages \ {pg} PROVE ~pt[v].E
      OBVIOUS
    <3>2. v /= Guard /\ InClock(q, v)
      BY <1>5, <1>10, <3>1 DEF InClock
    <3>3. pt[v].P
      BY <1>7, <3>1, <3>2
    <3> QED BY <1>1, <3>1, <3>3 DEF TableInv
  <2>6. ok /\ v \in Pages \ {pg} => Encrypted(pt'[v], pt[v])
    BY <1>3, <1>4, <1>5, <2>5 DEF Faulted
  <2> QED BY <2>2, <2>3, <2>4, <2>6 DEF Encrypted
<1>12. ASSUME NEW x \in Pages
       PROVE  /\ Mapped(pt', x) <=> Mapped(pt, x)
              /\ Mapped(pt, x) => pt'[x].U = pt[x].U
              /\ (pt[x].E => ~pt[x].P) => (pt'[x].E => ~pt'[x].P)
  <2>1. CASE x = pg
    BY <1>11, <2>1 DEF Mapped
  <2>2. CASE x /= pg /\ x = v
    <3>1. CASE ok
      <4>1. Mapped(pt, v)
        BY <1>5, <1>6, <1>7, <2>2
      <4> QED BY <1>11, <2>2, <3>1, <4>1 DEF Mapped
    <3>2. CASE ~ok
      BY <1>11, <2>2, <3>2 DEF Mapped, SameBits
    <3> QED BY <3>1, <3>2
  <2>3. CASE x /= pg /\ x /= v
    BY <1>11, <2>3 DEF Mapped, SameBits
  <2> QED BY <2>1, <2>2, <2>3
<1>13. pt'[Guard].P /\ ~pt'[Guard].E
  <2>1. pt[Guard].P /\ ~pt[Guard].E
    BY <1>1 DEF TableInv
  <2>2. CASE pg = Guard
    BY <1>11, <2>2
  <2>3. CASE pg /= Guard
    <3>1. SameBits(pt'[Guard], pt[Guard])
      BY <1>2, <1>10, <1>11, <2>3
    <3> QED BY <2>1, <3>1 DEF SameBits
  <2> QED BY <2>2, <2>3
<1>14. TableInv'
  <2>1. ASSUME NEW x \in Pages PROVE Mapped(pt, x)' <=> Mapped(pt', x)
    BY DEF Mapped
  <2> QED BY <1>1, <1>12, <1>13, <2>1 DEF TableInv
\* The new clock.
<1>15. /\ ~ok => clockqueue' = q
       /\ ok => /\ clockqueue'[at] = pg
                /\ \A i \in Index \ {at} : clockqueue'[i] = q[i]
  BY <1>3, <1>4 DEF Faulted
<1>16. \A i \in Index : clockqueue'[i] /= Empty => Mapped(pt', clockqueue'[i])
  <2>1. ASSUME NEW i \in Index, clockqueue'[i] /= Empty PROVE Mapped(pt', clockqueue'[i])
    <3>1. clockqueue'[i] = pg \/ clockqueue'[i] = q[i]
      BY <1>15
    <3>2. clockqueue'[i] \in Pages /\ Mapped(pt, clockqueue'[i])
      BY <1>4, <1>7, <2>1, <3>1
    <3> QED BY <1>12, <3>2
  <2> QED BY <2>1
<1>17. \A i, j \in Index :
         clockqueue'[i] = clockqueue'[j] /\ clockqueue'[i] \notin {Empty, Guard} => i = j
  <2>1. CASE ~ok
    BY <1>7, <1>15, <2>1
  <2>2. CASE ok
    <3>1. pg \notin {Empty, Guard} => \A i \in Index : q[i] /= pg
      BY <1>8 DEF InClock
    <3> QED BY <1>7, <1>15, <2>2, <3>1
  <2> QED BY <2>1, <2>2
<1>18. InClock(clockqueue', Guard) => InClock(clockqueue, Guard) \/ pg = Guard
  BY <1>4, <1>15 DEF InClock
<1>19. ok => \A x \in Pages \ {Guard} : pt'[x].P <=> InClock(clockqueue', x)
  <2>1. SUFFICES ASSUME ok, NEW x \in Pages \ {Guard}
                 PROVE  pt'[x].P <=> InClock(clockqueue', x)
    OBVIOUS
  <2>2. CASE x = pg
    BY <1>11, <1>15, <2>1, <2>2 DEF InClock
  <2>3. CASE x /= pg /\ x = v
    <3>1. ~pt'[x].P
      BY <1>11, <2>1, <2>3
    <3>2. \A i \in Index \ {at} : q[i] /= x
      BY <1>5, <1>6, <1>7, <2>3
    <3> QED BY <1>15, <2>1, <2>3, <3>1, <3>2 DEF InClock
  <2>4. CASE x /= pg /\ x /= v
    <3>1. pt'[x].P = pt[x].P
      BY <1>11, <2>4 DEF SameBits
    <3>2. InClock(clockqueue', x) <=> InClock(q, x)
      BY <1>5, <1>15, <2>1, <2>4 DEF InClock
    <3> QED BY <1>7, <3>1, <3>2
  <2> QED BY <2>2, <2>3, <2>4
<1>20. status' = IF ok THEN status ELSE o
  BY <1>3 DEF Faulted
<1> QED BY <1>4, <1>5, <1>10, <1>14, <1>16, <1>17, <1>18, <1>19, <1>20

LEMMA AccessResident ==
    ASSUME BaseInv, ResidentInv, ~odd, Runs, NEW pg \in Pages, NEW o,
           pt[pg].E, mdecrypt(pg, o), UNCHANGED <<sz, stuck, odd>>
    PROVE  ResidentInv'
<1>1. TableInv /\ SetInv /\ status = "run" /\ ~stuck
  BY DEF ResidentInv, Runs
<1>2. pg /= Guard /\ ~pt[pg].P /\ Mapped(pt, pg)
  BY <1>1 DEF TableInv, Mapped
<1>3. PICK at \in Index :
        /\ TableInv'
        /\ \A i \in Index : clockqueue'[i] /= Empty => Mapped(pt', clockqueue'[i])
        /\ \A i, j \in Index :
            clockqueue'[i] = clockqueue'[j] /\ clockqueue'[i] \notin {Empty, Guard} => i = j
        /\ InClock(clockqueue', Guard) => InClock(clockqueue, Guard) \/ pg = Guard
        /\ IF clockqueue[at] = Guard THEN status' = o
           ELSE /\ status' = status
                /\ \A x \in Pages \ {Guard} : pt'[x].P <=> InClock(clockqueue', x)
  BY <1>1, <1>2, FaultResident
<1>4. ~InClock(clockqueue, Guard)
  BY <1>1 DEF SetInv, Runs
<1>5. clockqueue[at] /= Guard
  BY <1>4 DEF InClock
<1>6. SetInv' /\ status' = "run"
  BY <1>1, <1>2, <1>3, <1>4, <1>5 DEF SetInv, InClock, Mapped
<1> QED BY <1>3, <1>6 DEF ResidentInv

LEMMA GuardResident ==
    ASSUME BaseInv, ResidentInv, ~odd, GuardFault
    PROVE  ResidentInv'
<1>1. TableInv /\ SetInv /\ status = "run" /\ Guard \in Pages
  BY ExecSizeTyped DEF ResidentInv, GuardFault
<1>2. mdecrypt(Guard, "killed") /\ sz' = sz /\ odd' = odd /\ stuck' = (status' = "run")
  BY DEF GuardFault
<1>3. Mapped(pt, Guard)
  BY <1>1 DEF TableInv, Mapped
<1>4. PICK pg \in Pages : pg = Guard
  BY <1>1
<1>5. PICK at \in Index :
        /\ TableInv'
        /\ \A i \in Index : clockqueue'[i] /= Empty => Mapped(pt', clockqueue'[i])
        /\ \A i, j \in Index :
            clockqueue'[i] = clockqueue'[j] /\ clockqueue'[i] \notin {Empty, Guard} => i = j
        /\ IF clockqueue[at] = Guard THEN status' = "killed"
           ELSE /\ status' = status
                /\ \A x \in Pages \ {Guard} : pt'[x].P <=> InClock(clockqueue', x)
  <2>1. mdecrypt(pg, "killed") /\ Mapped(pt, pg)
    BY <1>2, <1>3, <1>4
  <2> QED BY <1>1, <1>2, <1>4, <2>1, FaultResident
<1>6. ~Runs'
  BY <1>2 DEF Runs
<1>7. SetInv' /\ status' /= "panic"
  BY <1>1, <1>5, <1>6 DEF SetInv, InClock, Mapped
<1> QED BY <1>5, <1>7 DEF ResidentInv

\* A fresh program: exec's page table, an empty clock.
LEMMA ExecFacts ==
    /\ ExecSize \in Nat /\ ExecSize % PGSIZE = 0 /\ PageDown(ExecSize) = TextPages + 2
    /\ \A pg \in Pages : /\ Mapped(ExecTable, pg) <=> pg < TextPages + 2
                         /\ Mapped(ExecTable, pg) => (ExecTable[pg].U <=> pg /= Guard)
                         /\ ExecTable[pg].E => ~ExecTable[pg].P
                         /\ ExecTable[pg].P => pg = Guard
    /\ ExecTable[Guard].P /\ ~ExecTable[Guard].E
    /\ \A i \in Index : EmptyClock[i] = Empty
<1>1. PICK P \in Nat, T \in Nat : P = PGSIZE /\ P > 0 /\ T = TextPages + 2
  BY SizesAssumption
<1>2. ExecSize = P * T /\ ExecSize \in Nat
  BY <1>1, ExecSizeTyped DEF ExecSize
<1>3. ExecSize % P = 0 /\ ExecSize \div P = T
  <2>1. PICK c \in Int, r \in 0..(P - 1) :
          ExecSize = P * c + r /\ c = ExecSize \div P /\ r = ExecSize % P
    <3>1. ExecSize \in Int
      BY <1>2
    <3> QED BY <1>1, <3>1, Divides
  <2>2. P * (c - T) = -r /\ c - T \in Int
    <3>1. P * (c - T) = P * c - P * T /\ P * c \in Int /\ P * T \in Int
      OBVIOUS
    <3> QED BY <1>2, <2>1, <3>1
  <2>3. ~(c - T >= 1) /\ ~(c - T <= -1)
    BY <1>1, <2>2
  <2> QED BY <1>1, <2>1, <2>2, <2>3
<1>4. ASSUME NEW pg \in Pages
      PROVE  /\ Mapped(ExecTable, pg) <=> pg < TextPages + 2
             /\ Mapped(ExecTable, pg) => (ExecTable[pg].U <=> pg /= Guard)
             /\ ExecTable[pg].E => ~ExecTable[pg].P
             /\ ExecTable[pg].P => pg = Guard
  BY SizesAssumption DEF ExecTable, Mapped, Free, Fresh, Pages, Guard
<1>5. ExecTable[Guard].P /\ ~ExecTable[Guard].E
  BY ExecSizeTyped, SizesAssumption DEF ExecTable, Free, Fresh, Guard
<1> QED BY <1>1, <1>2, <1>3, <1>4, <1>5 DEF PageDown, EmptyClock

LEMMA InitResident == Init => ResidentInv
<1> SUFFICES ASSUME Init PROVE ResidentInv
  OBVIOUS
<1>1. sz = ExecSize /\ pt = ExecTable /\ clockqueue = EmptyClock /\ status = "run"
  BY DEF Init
<1>2. TableInv
  BY <1>1, ExecFacts, SizesAssumption DEF TableInv
<1>3. Guard \in Pages /\ \A pg \in Pages : pg /= Empty
  BY ExecSizeTyped DEF Pages, Empty
<1>4. SetInv
  BY <1>1, <1>3, ExecFacts DEF SetInv, InClock
<1> QED BY <1>1, <1>2, <1>4 DEF ResidentInv

LEMMA ExecResident == ASSUME BaseInv, Exec PROVE ResidentInv'
<1>1. sz' = ExecSize /\ pt' = ExecTable /\ clockqueue' = EmptyClock /\ status' = "run"
  BY DEF Exec, Runs
<1>2. TableInv'
  <2>1. ASSUME NEW x \in Pages PROVE Mapped(pt, x)' <=> Mapped(ExecTable, x)
    BY <1>1 DEF Mapped
  <2> QED BY <1>1, <2>1, ExecFacts, SizesAssumption DEF TableInv
<1>3. Guard \in Pages /\ \A pg \in Pages : pg /= Empty
  BY ExecSizeTyped DEF Pages, Empty
<1>4. SetInv'
  BY <1>1, <1>3, ExecFacts DEF SetInv, InClock
<1> QED BY <1>1, <1>2, <1>4 DEF ResidentInv

\* sbrk of whole pages finds the new pages unmapped and encrypts them all.
LEMMA GrowResident ==
    ASSUME BaseInv, ResidentInv, ~odd, NEW n \in Sbrks, Grow(n), ~odd'
    PROVE  ResidentInv'
<1>1. TableInv /\ SetInv /\ status = "run" /\ ~stuck
  BY DEF ResidentInv, Grow, Runs
<1>2. n \in Nat /\ n > 0 /\ n % PGSIZE = 0 /\ sz \in Nat /\ sz % PGSIZE = 0
  <2>1. n \in Int /\ n > 0 /\ n % PGSIZE = 0
    BY SbrksAssumption DEF Grow
  <2> QED BY <1>1, <2>1 DEF BaseInv, TypeOK, TableInv
<1>3. PICK N \in Nat, L \in Nat :
        /\ N = PageDown(sz) /\ L = n \div PGSIZE /\ N = PageUp(sz)
        /\ N + L = PageDown(sz + n) /\ N + L = PageUp(sz + n) /\ (sz + n) % PGSIZE = 0
        /\ sz + n = PGSIZE * (N + L)
  <2>1. PICK N \in Nat : N = PageDown(sz) /\ N = PageUp(sz)
    BY <1>2, PageNumbers
  <2>2. PICK L \in Nat : L = n \div PGSIZE /\ (sz + n) % PGSIZE = 0 /\ PageDown(sz + n) = N + L
    BY <1>2, <2>1, PageSum, ZenonT(120)
  <2>3. PICK s \in Nat : s = sz + n
    BY <1>2
  <2>4. PageUp(s) = PageDown(s) /\ s = PGSIZE * PageDown(s)
    BY <2>2, <2>3, PageNumbers
  <2> QED BY <2>1, <2>2, <2>3, <2>4
<1>4. N + L <= MaxPages
  <2>1. PICK P \in Nat, M \in Nat : P = PGSIZE /\ P > 0 /\ M = MaxPages
    BY SizesAssumption
  <2>2. P * (N + L) <= M * P
    BY <1>3, <2>1 DEF Grow
  <2>3. P * (M - (N + L)) = M * P - P * (N + L)
    OBVIOUS
  <2>4. M * P \in Int /\ P * (N + L) \in Int /\ M - (N + L) \in Int
    OBVIOUS
  <2>5. P * (M - (N + L)) >= 0
    BY <2>2, <2>3, <2>4
  <2>6. M - (N + L) >= 0
    BY <2>1, <2>4, <2>5
  <2> QED BY <2>1, <2>6
<1> DEFINE new == {x \in Pages : N <= x /\ x < N + L}
           t == [pg \in Pages |-> IF pg \in new THEN Fresh ELSE pt[pg]]
<1>5. Between(sz, sz + n) = new
  BY <1>3 DEF Between
<1>6. /\ N >= TextPages + 2
      /\ \A x \in Pages : Mapped(pt, x) <=> x < N
      /\ \A x \in Pages : Mapped(pt, x) => (pt[x].U <=> x /= Guard)
      /\ pt[Guard].P /\ ~pt[Guard].E /\ \A x \in Pages : pt[x].E => ~pt[x].P
  BY <1>1, <1>3 DEF TableInv
<1>7. \A x \in new : ~Mapped(pt, x)
  BY <1>6, SizesAssumption DEF Pages
<1>8. t \in [Pages -> Entry]
  BY FreeTyped DEF BaseInv, TypeOK
<1>9. MayEncrypt(t, N, L)
  <2>1. ASSUME NEW i \in N..(N + L - 1) PROVE Accessible(t, i)
    <3>1. i \in new
      BY <1>4, SizesAssumption DEF Pages
    <3> QED BY <3>1 DEF Accessible, Mapped, Fresh, Free
  <2> QED BY <2>1 DEF MayEncrypt
<1>10. /\ pt' = mencrypt(t, N, L) /\ sz' = sz + n /\ status' = status
       /\ clockqueue' = clockqueue /\ stuck' = stuck
  <2>1. ~\E pg \in Between(sz, sz + n) : Mapped(pt, pg)
    BY <1>5, <1>7
  <2>2. LET tt == [pg \in Pages |-> IF pg \in Between(sz, sz + n) THEN Fresh ELSE pt[pg]]
        IN tt = t
    BY <1>5
  <2> HIDE DEF t, new
  <2> QED BY <1>3, <1>9, <2>1, <2>2 DEF Grow
<1>11. ASSUME NEW x \in Pages
       PROVE  IF x \in new THEN ~pt'[x].P /\ pt'[x].E /\ pt'[x].U ELSE pt'[x] = pt[x]
  <2>1. PICK u \in [Pages -> Entry] : u = t
    BY <1>8
  <2>2. N \in Int /\ L \in Int
    OBVIOUS
  <2>3. IF x \in N..(N + L - 1) /\ ~u[x].E THEN Encrypted(pt'[x], u[x]) ELSE pt'[x] = u[x]
    BY <1>10, <2>1, <2>2, EncryptFacts
  <2>4. x \in new <=> x \in N..(N + L - 1)
    BY SizesAssumption DEF Pages
  <2>5. u[x] = IF x \in new THEN Fresh ELSE pt[x]
    BY <2>1
  <2>6. ~Fresh.E /\ Fresh.U
    BY DEF Fresh, Free
  <2> HIDE DEF new
  <2> QED BY <2>3, <2>4, <2>5, <2>6 DEF Encrypted
<1>12. Guard \in Pages /\ Guard \notin new /\ \A x \in new : x /= Guard /\ x \in Pages
  BY <1>6, ExecSizeTyped, SizesAssumption DEF Guard
<1>13. \A x \in Pages : Mapped(pt', x) <=> (Mapped(pt, x) \/ x \in new)
  BY <1>7, <1>11 DEF Mapped
<1>14. \A x \in Pages : x < N + L <=> (x < N \/ x \in new)
  BY <1>3, SizesAssumption DEF Pages
<1> HIDE DEF new, t
<1>15. TableInv'
  <2>1. PageDown(sz') = N + L /\ sz' % PGSIZE = 0 /\ N + L >= TextPages + 2
    BY <1>3, <1>6, <1>10, SizesAssumption
  <2>2. PageDown(sz)' = N + L
    BY <2>1 DEF PageDown
  <2>3. ASSUME NEW x \in Pages PROVE Mapped(pt, x)' <=> Mapped(pt', x)
    BY DEF Mapped
  <2>4. \A x \in Pages : Mapped(pt', x) <=> x < N + L
    BY <1>6, <1>13, <1>14
  <2>5. \A x \in Pages : Mapped(pt', x) => (pt'[x].U <=> x /= Guard)
    BY <1>6, <1>11, <1>12, <1>13
  <2>6. pt'[Guard].P /\ ~pt'[Guard].E
    BY <1>6, <1>11, <1>12
  <2>7. \A x \in Pages : pt'[x].E => ~pt'[x].P
    BY <1>6, <1>11
  <2> QED BY <2>1, <2>2, <2>3, <2>4, <2>5, <2>6, <2>7 DEF TableInv
<1>16. SetInv'
  <2>1. \A i \in Index : clockqueue[i] /= Empty => clockqueue[i] \in Pages /\ Mapped(pt, clockqueue[i])
    BY <1>1 DEF SetInv, BaseInv, ClockGood
  <2>2. \A i \in Index : clockqueue'[i] /= Empty => Mapped(pt', clockqueue'[i])
    BY <1>10, <1>13, <2>1
  <2>3. \A x \in Pages \ {Guard} : pt'[x].P <=> InClock(clockqueue', x)
    <3>1. SUFFICES ASSUME NEW x \in Pages \ {Guard} PROVE pt'[x].P <=> InClock(clockqueue', x)
      OBVIOUS
    <3>2. pt[x].P <=> InClock(clockqueue, x)
      BY <1>1 DEF SetInv
    <3>3. CASE x \in new
      <4>1. ~pt[x].P
        BY <1>7, <3>3 DEF Mapped
      <4> QED BY <1>10, <1>11, <3>2, <3>3, <4>1
    <3>4. CASE x \notin new
      BY <1>10, <1>11, <3>2, <3>4
    <3> QED BY <3>3, <3>4
  <2>4. Runs' => ~InClock(clockqueue', Guard)
    BY <1>1, <1>10 DEF SetInv, Runs
  <2> QED BY <1>1, <1>10, <2>2, <2>3, <2>4 DEF SetInv, InClock, Mapped
<1> QED BY <1>1, <1>10, <1>15, <1>16 DEF ResidentInv

LEMMA NextResident == BaseInv /\ ResidentInv /\ [Next]_vars => ResidentInv'
<1> SUFFICES ASSUME BaseInv, ResidentInv, [Next]_vars PROVE ResidentInv'
  OBVIOUS
<1>0. CASE odd' \/ Exec
  BY <1>0, ExecResident DEF ResidentInv
<1>1. CASE ~odd' /\ ~Exec
  <2>0. ~odd
    BY <1>1 DEF Next, Touch, Fault, KernelAccess, DumpRaw, Grow, GrowFails, Shrink, GuardFault,
                WildAccess, Fork, Over, vars
  <2>1. TableInv /\ SetInv /\ status /= "panic" /\ pt \in [Pages -> Entry]
    BY <2>0 DEF ResidentInv, BaseInv, TypeOK
  <2>2. ASSUME NEW e \in Entry
        PROVE  /\ SameBits(e, e) /\ SameBits([e EXCEPT !.A = TRUE], e)
               /\ SameBits([e EXCEPT !.data = "mixed"], e)
    BY DEF SameBits, Entry
  <2>3. ASSUME NEW pg \in Pages, Touch(pg) PROVE ResidentInv'
    <3>1. \A x \in Pages : pt'[x] = pt[x] \/ pt'[x] = [pt[x] EXCEPT !.A = TRUE]
      BY <2>1, <2>3 DEF Touch
    <3>2. \A x \in Pages : SameBits(pt'[x], pt[x])
      BY <2>1, <2>2, <3>1
    <3> QED BY <2>0, <2>3, <3>2, SameResident DEF Touch
  <2>4. ASSUME NEW pg \in Pages, NEW s \in Spans, DumpRaw(pg, s) PROVE ResidentInv'
    <3>1. \A x \in Pages : \/ pt'[x] = pt[x] \/ pt'[x] = [pt[x] EXCEPT !.A = TRUE]
                           \/ pt'[x] = [pt[x] EXCEPT !.data = "mixed"]
      BY <2>4 DEF DumpRaw
    <3>2. \A x \in Pages : SameBits(pt'[x], pt[x])
      BY <2>1, <2>2, <3>1
    <3> QED BY <2>0, <2>4, <3>2, SameResident DEF DumpRaw
  <2>5. ASSUME NEW pg \in Pages, Fault(pg) PROVE ResidentInv'
    BY <2>0, <2>5, AccessResident DEF Fault
  <2>6. ASSUME NEW pg \in Pages, KernelAccess(pg) PROVE ResidentInv'
    <3>1. PICK N \in Nat : N = PageDown(sz) /\ sz = PGSIZE * N
      <4>1. sz \in Nat /\ sz % PGSIZE = 0
        BY <2>1 DEF BaseInv, TypeOK, TableInv
      <4> QED BY <4>1, PageNumbers
    <3>2. pg < N
      <4>1. PICK P \in Nat : P = PGSIZE /\ P > 0
        BY SizesAssumption
      <4>2. pg \in Int /\ pg * P < P * N
        BY <2>6, <3>1, <4>1, SizesAssumption DEF KernelAccess, Pages
      <4>3. ~(pg - N >= 0)
        <5>1. P * (pg - N) = pg * P - P * N /\ pg * P \in Int /\ P * N \in Int
          BY <4>2
        <5>2. P * (pg - N) < 0 /\ pg - N \in Int
          BY <4>2, <5>1
        <5> QED BY <4>1, <5>2
      <4> QED BY <4>2, <4>3
    <3>3. Mapped(pt, pg) /\ pt[pg].E
      BY <2>1, <2>6, <3>1, <3>2 DEF TableInv, KernelAccess, Mapped
    <3> QED BY <2>0, <2>6, <3>3, AccessResident DEF KernelAccess
  <2>7. CASE GuardFault
    BY <2>0, <2>7, GuardResident
  <2>8. CASE WildAccess \/ UNCHANGED vars
    <3>1. \A x \in Pages : SameBits(pt'[x], pt[x])
      BY <2>1, <2>2, <2>8 DEF WildAccess, vars
    <3> QED BY <2>0, <2>8, <3>1, SameResident DEF WildAccess, vars
  <2>9. CASE Fork
    <3>1. ASSUME NEW x \in Between(0, sz) PROVE Mapped(pt, x)
      <4>1. sz \in Nat /\ sz % PGSIZE = 0
        BY <2>1 DEF BaseInv, TypeOK, TableInv
      <4>2. PageUp(sz) = PageDown(sz)
        BY <4>1, PageNumbers
      <4> QED BY <2>1, <4>2 DEF Between, TableInv
    <3>2. status' = status
      BY <2>9, <3>1 DEF Fork
    <3>3. \A x \in Pages : SameBits(pt'[x], pt[x])
      BY <2>1, <2>2, <2>9 DEF Fork
    <3> QED BY <2>0, <2>9, <3>2, <3>3, SameResident DEF Fork
  <2>10. ASSUME NEW n \in Sbrks, GrowFails(n) PROVE ResidentInv'
    <3>1. PICK N \in Nat : N = PageDown(sz) /\ N = PageUp(sz)
      <4>1. sz \in Nat /\ sz % PGSIZE = 0
        BY <2>1 DEF BaseInv, TypeOK, TableInv
      <4> QED BY <4>1, PageNumbers
    <3>2. ASSUME NEW x \in Pages PROVE SameBits(pt'[x], pt[x])
      <4>1. CASE x \in Between(sz, sz + n) /\ pt'[x] = Free
        <5>1. ~(x < N)
          BY <3>1, <4>1, SizesAssumption DEF Between, Pages
        <5>2. ~pt[x].P /\ ~pt[x].E
          BY <2>1, <3>1, <5>1 DEF TableInv, Mapped
        <5>3. pt[x] \in Entry
          BY <2>1
        <5>4. PICK e \in Entry : e = pt[x]
          BY <5>3
        <5>5. e.P = FALSE /\ e.E = FALSE
          BY <5>2, <5>4 DEF Entry
        <5>6. Free.P = FALSE /\ Free.E = FALSE
          BY DEF Free
        <5>7. SameBits(Free, e)
          BY <5>5, <5>6 DEF SameBits
        <5> QED BY <4>1, <5>4, <5>7
      <4>2. CASE pt'[x] = pt[x]
        BY <2>1, <2>2, <4>2
      <4> QED BY <2>10, <4>1, <4>2 DEF GrowFails
    <3> QED BY <2>0, <2>10, <3>2, SameResident DEF GrowFails
  <2>11. ASSUME NEW n \in Sbrks, Grow(n) PROVE ResidentInv'
    BY <1>1, <2>0, <2>11, GrowResident
  <2>12. ~\E n \in Sbrks : Shrink(n)
    BY <1>1 DEF Shrink
  <2> QED BY <1>1, <2>3, <2>4, <2>5, <2>6, <2>7, <2>8, <2>9, <2>10, <2>11, <2>12 DEF Next, Over
<1> QED BY <1>0, <1>1

\* While sbrk only adds whole pages, the working set is exactly what is
\* resident: the pages the program can read are those in the clock, each once,
\* so at most CLOCKSIZE are ever decrypted; the clock has no entry of a page
\* that is not mapped; and neither fork() nor the kernel's own accesses panic.
\* For every clock, page and address space size and every sequence of faults.
THEOREM WorkingSetCorrect == Spec => []SetIsResident
<1>1. BaseInv /\ ResidentInv => SetIsResident
  <2> SUFFICES ASSUME BaseInv, ResidentInv PROVE SetIsResident
    OBVIOUS
  <2>1. QueueMapped /\ NoPanic
    BY DEF ResidentInv, SetInv, QueueMapped, NoPanic
  <2>2. ASSUME status = "run", ~odd, NEW pg \in Pages
        PROVE  pt[pg].P /\ pt[pg].U <=> pg \in getpgtable \ {Guard}
    <3>1. TableInv /\ SetInv
      BY <2>2 DEF ResidentInv
    <3>2. pg \in getpgtable <=> pg <= PageDown(sz) /\ Mapped(pt, pg) /\ InClock(clockqueue, pg)
      BY DEF getpgtable, InClock
    <3>3. pt[pg].P /\ pt[pg].U => pg /= Guard /\ Mapped(pt, pg)
      BY <3>1 DEF TableInv, Mapped
    <3>4. Mapped(pt, pg) => pg < PageDown(sz) /\ (pt[pg].U <=> pg /= Guard)
      BY <3>1 DEF TableInv
    <3>5. pg < PageDown(sz) => pg <= PageDown(sz)
      <4>1. pg \in Int /\ PageDown(sz) \in Int
        BY SizesAssumption DEF Pages, PageDown, BaseInv, TypeOK
      <4> QED BY <4>1
    <3>6. pg /= Guard => (pt[pg].P <=> InClock(clockqueue, pg))
      BY <2>2, <3>1 DEF SetInv
    <3> QED BY <3>2, <3>3, <3>4, <3>5, <3>6
  <2>3. ResidentInSet
    BY <2>2 DEF ResidentInSet, ResidentInv, SetInv
  <2> QED BY <2>1, <2>3 DEF SetIsResident
<1>2. Spec => []ResidentInv
  BY InitResident, NextResident, BaseAlways, PTL DEF Spec
<1> QED BY <1>1, <1>2, BaseAlways, PTL


=============================================================================
