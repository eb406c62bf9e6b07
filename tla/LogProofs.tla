------------------------------ MODULE LogProofs ------------------------------
(***************************************************************************)
(* Proofs about the log: its bookkeeping is sound, it fits in its blocks   *)
(* on disk, and it implements AtomicDisk, for any number of processes,     *)
(* blocks and log entries, and with crashes anywhere.                      *)
(***************************************************************************)
EXTENDS Log, FiniteSetTheorems, TLAPS

InCall(p) == pc[p] \in {"in", "append", "panic"}
Calls     == {p \in Ops : InCall(p)}
Logged(b) == \E i \in 1..Len(lh) : lh[i] = b

\* The places of the log that are reserved and not yet used: MAXOPBLOCKS for
\* every call, less the blocks of that call that are in the log.
Appended(p) == {b \in wrote[p] : Logged(b)}
Unused == {x \in Ops \X (1..MAXOPBLOCKS) :
              InCall(x[1]) /\ x[2] > Cardinality(Appended(x[1]))}

-----------------------------------------------------------------------------
(* The inductive invariant. *)

\* No block is in a header twice: what is installed for it is one value.
Distinct ==
    /\ \A i, j \in 1..Len(lh) : lh[i] = lh[j] => i = j
    /\ \A i, j \in 1..Len(dhdr) : dhdr[i] = dhdr[j] => i = j

\* During recovery nobody is in a call and nothing is modified in the cache.
BootInv ==
    Booting =>
        /\ outstanding = 0 /\ ~committing
        /\ \A p \in Ops : pc[p] = "out" /\ held[p] = NotCached
        /\ \A b \in Blocks : ~dirty[b]

\* Stronger than CacheCoherent: also while the machine recovers.
CacheInv ==
    \A b \in Blocks :
        /\ cache[b] /= NotCached /\ ~dirty[b] /\ (\A p \in Ops : held[p] /= b)
            => cache[b] = disk[b]
        /\ dirty[b] => cache[b] /= NotCached /\ Logged(b)

\* A buffer is locked only between the caller's store and log_write's append.
HeldInv ==
    \A p \in Ops :
        /\ held[p] /= NotCached => pc[p] \in {"append", "panic"}
        /\ pc[p] = "append" => /\ held[p] \in wrote[p] /\ held[p] \in Blocks
                               /\ cache[held[p]] /= NotCached

\* One process commits, and only while no call is in progress.
CommitInv ==
    /\ committing <=> cpc \in {"log", "head", "install", "clear", "done"}
    /\ committing => outstanding = 0 /\ \E p \in Ops : \A q \in Ops : pc[q] = "commit" <=> q = p
    /\ ~committing => \A p \in Ops : pc[p] /= "commit"

\* What the log and the header hold at each step of commit and recovery.
HeaderInv ==
    /\ cpc \in {"none", "log", "head", "done"} => dhdr = <<>>
    /\ cpc \in {"install", "clear", "rinstall", "rclear"} => dhdr = lh
    /\ cpc \in {"boot", "done"} => lh = <<>>
    /\ cpc = "none" /\ outstanding = 0 => lh = <<>>
    /\ cpc \in {"log", "install", "rinstall"} => tail \in 1..Len(lh)
    /\ cpc = "head" => lh /= <<>>

LogInv ==
    /\ cpc = "log" => \A i \in 1..(tail - 1) : dlog[i] = bread(lh[i])
    /\ cpc \in {"head", "install", "clear"} =>
        \A i \in 1..Len(lh) : dlog[i] = bread(lh[i])
    /\ cpc \in {"install", "rinstall"} =>
        \A i \in 1..(tail - 1) : disk[lh[i]] = dlog[i] /\ ~dirty[lh[i]]
    /\ cpc \in {"clear", "rclear"} =>
        \A i \in 1..Len(lh) : disk[lh[i]] = dlog[i] /\ ~dirty[lh[i]]

\* begin_op's reservation: what is in the log and what the calls in progress
\* may still append fit together.
SpaceInv ==
    /\ \A p \in Ops : IsFiniteSet(wrote[p]) /\ Cardinality(wrote[p]) <= OPBLOCKS
    /\ Len(lh) + Cardinality(Unused) <= LOGSIZE

CountInv == outstanding = Cardinality(Calls)

LInv ==
    /\ TypeOK /\ Distinct /\ BootInv /\ CacheInv /\ HeldInv /\ CommitInv
    /\ HeaderInv /\ LogInv /\ SpaceInv /\ CountInv /\ SleeperHasWaker

-----------------------------------------------------------------------------
(* Helpers. *)

\* Everything about counting that a step cannot disturb unless it changes who
\* is in a call, what the calls wrote, or the log.
LEMMA CountSame ==
    ASSUME LInv, UNCHANGED <<lh, outstanding, wrote>>,
           \A p \in Ops : InCall(p)' <=> InCall(p)
    PROVE  SpaceInv' /\ CountInv'
<1>1. Calls' = Calls
  BY DEF Calls
<1>2. Unused' = Unused
  BY DEF Unused, Appended, Logged
<1> QED BY <1>1, <1>2 DEF LInv, SpaceInv, CountInv

LEMMA InitLInv == Init => LInv
<1> SUFFICES ASSUME Init PROVE LInv
  OBVIOUS
<1> USE DEF Init
<1>1. TypeOK
  <2>1. /\ disk \in [Blocks -> Values] /\ dlog \in [1..LOGSIZE -> Values]
        /\ cache \in [Blocks -> Values \cup {NotCached}]
        /\ dirty \in [Blocks -> BOOLEAN]
    BY BlocksAssumption
  <2>2. /\ dhdr \in Seq(Blocks) /\ Len(dhdr) <= LOGSIZE
        /\ lh \in Seq(Blocks) /\ Len(lh) <= LOGSIZE
        /\ outstanding \in Nat /\ tail \in 1..(LOGSIZE + 1)
    BY SizesAssumption
  <2>3. /\ pc \in [Ops -> PCs] /\ held \in [Ops -> Blocks \cup {NotCached}]
        /\ wrote \in [Ops -> SUBSET Blocks]
        /\ committing \in BOOLEAN /\ cpc \in CPCs
    BY DEF PCs, CPCs
  <2> QED BY <2>1, <2>2, <2>3 DEF TypeOK
<1>2. Distinct /\ BootInv /\ CacheInv /\ HeldInv /\ CommitInv
  BY DEF Distinct, BootInv, CacheInv, HeldInv, CommitInv
<1>3. HeaderInv /\ LogInv /\ SleeperHasWaker
  BY DEF HeaderInv, LogInv, SleeperHasWaker
<1>4. Calls = {} /\ Unused = {}
  BY DEF Calls, Unused, InCall
<1>5. SpaceInv /\ CountInv
  BY <1>4, FS_EmptySet, SizesAssumption DEF SpaceInv, CountInv
<1> QED BY <1>1, <1>2, <1>3, <1>5 DEF LInv

LEMMA ReadLInv ==
    ASSUME LInv, NEW b \in Blocks, Read(b)
    PROVE  LInv'
<1> USE DEF Read, diskVars, opVars
<1>1. TypeOK'
  BY DEF LInv, TypeOK
<1>2. Distinct' /\ BootInv' /\ CommitInv' /\ HeaderInv' /\ SleeperHasWaker'
  BY DEF LInv, Distinct, BootInv, CommitInv, HeaderInv, SleeperHasWaker, Booting
<1>3. CacheInv' /\ HeldInv'
  BY BlocksAssumption DEF LInv, TypeOK, CacheInv, HeldInv, Logged
<1>4. LogInv'
  <2>1. \A c \in Blocks : bread(c)' = bread(c)
    BY BlocksAssumption DEF LInv, TypeOK, bread
  <2>2. \A i \in 1..Len(lh) : lh[i] \in Blocks
    BY DEF LInv, TypeOK
  <2> QED BY <2>1, <2>2 DEF LInv, LogInv, HeaderInv, TypeOK
<1>5. SpaceInv' /\ CountInv'
  BY CountSame DEF InCall
<1> QED BY <1>1, <1>2, <1>3, <1>4, <1>5 DEF LInv

LEMMA EvictLInv ==
    ASSUME LInv, NEW b \in Blocks, Evict(b)
    PROVE  LInv'
<1> USE DEF Evict, diskVars, opVars
<1>1. TypeOK'
  BY DEF LInv, TypeOK
<1>2. Distinct' /\ BootInv' /\ CommitInv' /\ HeaderInv' /\ SleeperHasWaker'
  BY DEF LInv, Distinct, BootInv, CommitInv, HeaderInv, SleeperHasWaker, Booting
<1>3. CacheInv' /\ HeldInv'
  BY BlocksAssumption DEF LInv, TypeOK, CacheInv, HeldInv, Logged
<1>4. LogInv'
  <2>1. \A c \in Blocks : bread(c)' = bread(c)
    BY BlocksAssumption DEF LInv, TypeOK, bread, CacheInv
  <2>2. \A i \in 1..Len(lh) : lh[i] \in Blocks
    BY DEF LInv, TypeOK
  <2> QED BY <2>1, <2>2 DEF LInv, LogInv, HeaderInv, TypeOK
<1>5. SpaceInv' /\ CountInv'
  BY CountSame DEF InCall
<1> QED BY <1>1, <1>2, <1>3, <1>4, <1>5 DEF LInv

\* Steps that change nothing but where a process is in begin_op's loop.
LEMMA LoopLInv ==
    ASSUME LInv, NEW p \in Ops, Call(p) \/ BeginSleep(p)
    PROVE  LInv'
<1> USE DEF Call, BeginSleep, diskVars, bufVars
<1>1. TypeOK'
  BY DEF LInv, TypeOK, PCs
<1>2. \A q \in Ops : /\ InCall(q)' <=> InCall(q)
                     /\ pc'[q] /= pc[q] => pc'[q] \in {"begin", "asleep"}
  BY DEF LInv, TypeOK, InCall
<1>3. Distinct' /\ BootInv' /\ HeaderInv' /\ LogInv'
  BY DEF LInv, Distinct, BootInv, HeaderInv, LogInv, Booting, Up, bread
<1>4. CacheInv' /\ HeldInv'
  BY <1>2, SMTT(60) DEF LInv, TypeOK, CacheInv, HeldInv, Logged
<1>a. CommitInv'
  <2>1. pc[p] /= "commit" /\ \A q \in Ops : pc'[q] = "commit" <=> pc[q] = "commit"
    BY <1>2 DEF LInv, TypeOK
  <2> QED BY <2>1 DEF LInv, CommitInv
<1>5. SleeperHasWaker'
  <2>1. CASE Call(p)
    BY <2>1 DEF LInv, TypeOK, SleeperHasWaker
  <2>2. CASE BeginSleep(p)
    <3>1. ~committing /\ outstanding = 0 => lh = <<>> \* one call always fits
      BY <2>2 DEF LInv, CommitInv, HeaderInv, TypeOK, CPCs, Up, Booting
    <3>2. committing \/ outstanding > 0
      BY <2>2, <3>1, SizesAssumption DEF NoSpace, LInv, TypeOK
    <3> QED BY <2>2, <3>2 DEF SleeperHasWaker
  <2> QED BY <2>1, <2>2
<1>6. SpaceInv' /\ CountInv'
  BY <1>2, CountSame
<1> QED BY <1>1, <1>3, <1>4, <1>a, <1>5, <1>6 DEF LInv

\* Somebody is in a call as long as outstanding says so.
LEMMA CallsCounted ==
    ASSUME LInv
    PROVE  /\ IsFiniteSet(Calls) /\ Cardinality(Calls) \in Nat
           /\ \A p \in Ops : InCall(p) => outstanding > 0
           /\ \A p \in Ops : InCall(p) /\ outstanding = 1 => Calls = {p}
<1>1. IsFiniteSet(Calls) /\ Cardinality(Calls) \in Nat
  BY OpsAssumption, FS_Subset, FS_CardinalityType DEF Calls
<1>2. ASSUME NEW p \in Ops, InCall(p)
      PROVE  outstanding > 0 /\ (outstanding = 1 => Calls = {p})
  <2>1. p \in Calls
    BY <1>2 DEF Calls
  <2>2. Cardinality(Calls) /= 0
    BY <1>1, <2>1, FS_EmptySet
  <2>3. Cardinality(Calls) = 1 => Calls = {p}
    BY <1>1, <2>1, FS_Singleton
  <2> QED BY <1>1, <2>2, <2>3 DEF LInv, CountInv
<1> QED BY <1>1, <1>2

LEMMA UnusedFinite == IsFiniteSet(Unused)
<1>1. IsFiniteSet(1..MAXOPBLOCKS)
  BY FS_Interval, SizesAssumption
<1>2. IsFiniteSet(Ops \X (1..MAXOPBLOCKS))
  BY <1>1, OpsAssumption, FS_Product
<1>3. Unused \subseteq Ops \X (1..MAXOPBLOCKS)
  BY DEF Unused
<1> QED BY <1>2, <1>3, FS_Subset

LEMMA BeginOpLInv ==
    ASSUME LInv, NEW p \in Ops, BeginOp(p)
    PROVE  LInv'
<1> USE DEF BeginOp, diskVars, bufVars
<1>1. TypeOK'
  BY DEF LInv, TypeOK, PCs
<1>2. \A q \in Ops : pc'[q] = IF q = p THEN "in" ELSE pc[q]
  BY DEF LInv, TypeOK
<1>3. Distinct' /\ BootInv' /\ HeaderInv' /\ LogInv'
  BY DEF LInv, TypeOK, Distinct, BootInv, HeaderInv, LogInv, Booting, Up, bread
<1>4. CacheInv' /\ HeldInv' /\ CommitInv' /\ SleeperHasWaker'
  BY <1>2 DEF LInv, TypeOK, CacheInv, HeldInv, CommitInv, SleeperHasWaker, Logged
<1>5. Calls' = Calls \cup {p} /\ p \notin Calls
  BY <1>2 DEF Calls, InCall
<1>6. IsFiniteSet(Calls') /\ Cardinality(Calls') = outstanding + 1
  BY <1>5, CallsCounted, FS_AddElement DEF LInv, CountInv
<1>7. SpaceInv'
  <2> DEFINE M == 1..MAXOPBLOCKS
  <2>1. IsFiniteSet(M) /\ Cardinality(M) = MAXOPBLOCKS
    BY FS_Interval, SizesAssumption
  <2>2. /\ IsFiniteSet(Calls' \X M)
        /\ Cardinality(Calls' \X M) = (outstanding + 1) * MAXOPBLOCKS
    BY <1>6, <2>1, FS_Product, ZenonT(120)
  <2>3. Unused' \subseteq Calls' \X M
    BY DEF Unused, Calls
  <2>4. /\ Cardinality(Unused') <= (outstanding + 1) * MAXOPBLOCKS
        /\ Cardinality(Unused') \in Nat
    BY <2>2, <2>3, FS_Subset, FS_CardinalityType
  <2>5. Len(lh) + (outstanding + 1) * MAXOPBLOCKS <= LOGSIZE
    BY SizesAssumption DEF NoSpace, LInv, TypeOK
  <2>6. /\ Len(lh) \in Nat /\ LOGSIZE \in Nat
        /\ (outstanding + 1) * MAXOPBLOCKS \in Nat
    BY SizesAssumption DEF LInv, TypeOK
  <2>7. Len(lh) + Cardinality(Unused') <= LOGSIZE
    BY <2>4, <2>5, <2>6
  <2> QED BY <2>7 DEF LInv, SpaceInv
<1> QED BY <1>1, <1>3, <1>4, <1>6, <1>7 DEF LInv, CountInv

LEMMA LogWriteCheckLInv ==
    ASSUME LInv, NEW p \in Ops, NEW b \in Blocks, NEW v \in Values,
           LogWriteCheck(p, b, v)
    PROVE  LInv'
<1> USE DEF LogWriteCheck, diskVars
<1>1. \A q \in Ops : /\ wrote'[q] = IF q = p THEN wrote[p] \cup {b} ELSE wrote[q]
                     /\ held'[q] = IF q = p THEN b ELSE held[q]
                     /\ q /= p => pc'[q] = pc[q]
  BY DEF LInv, TypeOK
<1>2. pc[p] = "in" /\ pc'[p] \in {"append", "panic"}
  BY DEF LInv, TypeOK
<1>3. TypeOK'
  BY DEF LInv, TypeOK, PCs
<1>4. ~committing /\ cpc = "none"
  BY CallsCounted DEF LInv, CommitInv, InCall, Up, Booting, TypeOK, CPCs
<1>5. Distinct' /\ BootInv' /\ HeaderInv' /\ LogInv' /\ CommitInv' /\ SleeperHasWaker'
  BY <1>1, <1>2, <1>4 DEF LInv, Distinct, BootInv, HeaderInv, LogInv, CommitInv,
     SleeperHasWaker, Booting
<1>6. CacheInv'
  BY <1>1, <1>2, BlocksAssumption DEF LInv, TypeOK, CacheInv, Logged, HeldInv
<1>7. HeldInv'
  BY <1>1, <1>2, BlocksAssumption DEF LInv, TypeOK, HeldInv
<1>8. \A q \in Ops : InCall(q)' <=> InCall(q)
  BY <1>1, <1>2 DEF InCall
<1>9. Calls' = Calls
  BY <1>8 DEF Calls
<1>10. \A q \in Ops : IsFiniteSet(wrote'[q]) /\ Cardinality(wrote'[q]) <= OPBLOCKS
  <2>1. IsFiniteSet(wrote[p] \cup {b}) /\ Cardinality(wrote[p] \cup {b}) <= OPBLOCKS
    BY FS_AddElement DEF LInv, SpaceInv
  <2> QED BY <1>1, <2>1 DEF LInv, SpaceInv
<1>11. Unused' \subseteq Unused
  <2>1. ASSUME NEW q \in Ops
        PROVE  /\ Cardinality(Appended(q)) <= Cardinality(Appended(q)')
               /\ Cardinality(Appended(q)) \in Nat /\ Cardinality(Appended(q)') \in Nat
    <3>1. Appended(q) \subseteq Appended(q)'
      BY <1>1 DEF Appended, Logged
    <3>2. IsFiniteSet(Appended(q)')
      BY <1>10, FS_Subset DEF Appended
    <3> QED BY <3>1, <3>2, FS_Subset, FS_CardinalityType
  <2> QED BY <1>8, <2>1 DEF Unused
<1>12. Len(lh) + Cardinality(Unused') <= LOGSIZE
  <2>1. IsFiniteSet(Unused)
    BY UnusedFinite
  <2>2. /\ Cardinality(Unused') <= Cardinality(Unused)
        /\ Cardinality(Unused') \in Nat /\ Cardinality(Unused) \in Nat
    BY <1>11, <2>1, FS_Subset, FS_CardinalityType
  <2> QED BY <2>2, SizesAssumption DEF LInv, SpaceInv, TypeOK
<1> QED BY <1>3, <1>5, <1>6, <1>7, <1>9, <1>10, <1>12 DEF LInv, SpaceInv, CountInv


\* log_write appends a block only into a place that was reserved for its call.
LEMMA LogWriteSpace ==
    ASSUME LInv, NEW p \in Ops, LogWrite(p)
    PROVE  /\ lh' \in Seq(Blocks) /\ \A c \in Blocks : Logged(c)' <=> Logged(c) \/ c = held[p]
           /\ Len(lh') = IF Logged(held[p]) THEN Len(lh) ELSE Len(lh) + 1
           /\ \A i, j \in 1..Len(lh') : lh'[i] = lh'[j] => i = j
           /\ Len(lh') + Cardinality(Unused') <= Len(lh) + Cardinality(Unused)
           /\ Cardinality(Unused') \in Nat /\ Cardinality(Unused) \in Nat
<1> DEFINE b == held[p]
<1> USE DEF LogWrite, diskVars
<1>1. /\ b \in Blocks /\ b \in wrote[p] /\ cache[b] /= NotCached
      /\ pc[p] = "append" /\ InCall(p)
  BY DEF LInv, HeldInv, InCall
<1>2. \A q \in Ops : /\ held'[q] = IF q = p THEN NotCached ELSE held[q]
                     /\ pc'[q] = IF q = p THEN "in" ELSE pc[q]
  BY DEF LInv, TypeOK
<1>3. ~committing /\ cpc = "none" /\ outstanding > 0
  BY <1>1, CallsCounted DEF LInv, CommitInv, Up, Booting, TypeOK, CPCs
<1>4. \A q \in Ops : InCall(q)' <=> InCall(q)
  BY <1>1, <1>2 DEF InCall
<1>5. Calls' = Calls
  BY <1>4 DEF Calls
<1>6. /\ lh' \in Seq(Blocks) /\ \A c \in Blocks : Logged(c)' <=> Logged(c) \/ c = b
      /\ Len(lh') = IF Logged(b) THEN Len(lh) ELSE Len(lh) + 1
      /\ \A i, j \in 1..Len(lh') : lh'[i] = lh'[j] => i = j
  <2>1. CASE Logged(b)
    BY <2>1, <1>1 DEF Logged, absorb, LInv, TypeOK, Distinct
  <2>2. CASE ~Logged(b)
    <3>1. lh' = Append(lh, b)
      BY <2>2 DEF Logged, absorb
    <3>2. /\ lh' \in Seq(Blocks) /\ Len(lh') = Len(lh) + 1 /\ Len(lh) \in Nat
          /\ \A i \in 1..Len(lh') : lh'[i] = IF i = Len(lh) + 1 THEN b ELSE lh[i]
      BY <1>1, <3>1 DEF LInv, TypeOK
    <3>3. \A c \in Blocks : Logged(c)' <=> Logged(c) \/ c = b
      BY <3>2, SMTT(60) DEF Logged
    <3>4. \A i, j \in 1..Len(lh') : lh'[i] = lh'[j] => i = j
      BY <2>2, <3>2 DEF Logged, LInv, Distinct
    <3> QED BY <2>2, <3>2, <3>3, <3>4
  <2> QED BY <2>1, <2>2
<1>7. /\ Len(lh') + Cardinality(Unused') <= Len(lh) + Cardinality(Unused)
      /\ Cardinality(Unused') \in Nat /\ Cardinality(Unused) \in Nat
  <2>1. ASSUME NEW q \in Ops
        PROVE  /\ IsFiniteSet(Appended(q)) /\ IsFiniteSet(Appended(q)')
               /\ Appended(q) \subseteq Appended(q)' /\ Appended(q)' \subseteq wrote[q]
    <3>1. Appended(q) \subseteq Appended(q)' /\ Appended(q)' \subseteq wrote[q]
      BY <1>6 DEF Appended, LInv, TypeOK
    <3> QED BY <3>1, FS_Subset DEF LInv, SpaceInv
  <2>2. \A q \in Ops : /\ Cardinality(Appended(q)) <= Cardinality(Appended(q)')
                       /\ Cardinality(Appended(q)) \in Nat
                       /\ Cardinality(Appended(q)') \in Nat
    BY <2>1, FS_Subset, FS_CardinalityType
  <2>3. Unused' \subseteq Unused
    BY <1>4, <2>2 DEF Unused
  <2>4. /\ IsFiniteSet(Unused) /\ Cardinality(Unused) \in Nat
        /\ IsFiniteSet(Unused') /\ Cardinality(Unused') \in Nat
        /\ Cardinality(Unused') <= Cardinality(Unused)
    BY <2>3, UnusedFinite, FS_Subset, FS_CardinalityType
  <2>5. CASE Logged(b)
    BY <2>4, <2>5, <1>6, SizesAssumption DEF LInv, SpaceInv, TypeOK
  <2>6. CASE ~Logged(b)  \* the block takes one of the call's places
    <3> DEFINE k == Cardinality(Appended(p))
               x == <<p, k + 1>>
    <3>1. b \notin Appended(p) /\ b \in Appended(p)'
      BY <1>1, <1>6, <2>6 DEF Appended
    <3>2. Appended(p) \cup {b} \subseteq Appended(p)'
      BY <2>1, <3>1
    <3>3. IsFiniteSet(Appended(p) \cup {b}) /\ Cardinality(Appended(p) \cup {b}) = k + 1
      BY <2>1, <3>1, FS_AddElement
    <3>4. k + 1 <= Cardinality(Appended(p)')
      BY <2>1, <3>2, <3>3, FS_Subset
    <3>5. k \in Nat /\ k + 1 <= MAXOPBLOCKS
      <4>1. /\ Cardinality(Appended(p)') <= Cardinality(wrote[p])
            /\ Cardinality(wrote[p]) <= OPBLOCKS /\ Cardinality(wrote[p]) \in Nat
        BY <2>1, FS_Subset, FS_CardinalityType DEF LInv, SpaceInv
      <4> QED BY <2>2, <3>4, <4>1, SizesAssumption
    <3>6. x \in Unused
      BY <1>1, <3>5, SizesAssumption DEF Unused
    <3>7. x \notin Unused'
      BY <2>2, <3>4, <3>5 DEF Unused
    <3>8. /\ IsFiniteSet(Unused \ {x})
          /\ Cardinality(Unused \ {x}) = Cardinality(Unused) - 1
      BY <2>4, <3>6, FS_RemoveElement
    <3>9. Cardinality(Unused') <= Cardinality(Unused) - 1
      BY <2>3, <3>7, <3>8, FS_Subset
    <3> QED BY <1>6, <2>4, <2>6, <3>9, SizesAssumption DEF LInv, SpaceInv, TypeOK
  <2> QED BY <2>5, <2>6
<1> QED BY <1>6, <1>7

LEMMA LogWriteLInv ==
    ASSUME LInv, NEW p \in Ops, LogWrite(p)
    PROVE  LInv'
<1> DEFINE b == held[p]
<1> USE DEF LogWrite, diskVars
<1>1. /\ b \in Blocks /\ b \in wrote[p] /\ cache[b] /= NotCached
      /\ pc[p] = "append" /\ InCall(p)
  BY DEF LInv, HeldInv, InCall
<1>2. \A q \in Ops : /\ held'[q] = IF q = p THEN NotCached ELSE held[q]
                     /\ pc'[q] = IF q = p THEN "in" ELSE pc[q]
  BY DEF LInv, TypeOK
<1>3. ~committing /\ cpc = "none" /\ outstanding > 0
  BY <1>1, CallsCounted DEF LInv, CommitInv, Up, Booting, TypeOK, CPCs
<1>4. \A q \in Ops : InCall(q)' <=> InCall(q)
  BY <1>1, <1>2 DEF InCall
<1>5. Calls' = Calls
  BY <1>4 DEF Calls
<1>6. /\ lh' \in Seq(Blocks) /\ \A c \in Blocks : Logged(c)' <=> Logged(c) \/ c = b
      /\ Len(lh') = IF Logged(b) THEN Len(lh) ELSE Len(lh) + 1
      /\ \A i, j \in 1..Len(lh') : lh'[i] = lh'[j] => i = j
  BY LogWriteSpace
<1>7. Len(lh') + Cardinality(Unused') <= LOGSIZE /\ Len(lh') <= LOGSIZE
  <2>1. /\ Len(lh') + Cardinality(Unused') <= Len(lh) + Cardinality(Unused)
        /\ Cardinality(Unused') \in Nat /\ Cardinality(Unused) \in Nat
    BY LogWriteSpace, Zenon
  <2>2. Len(lh) + Cardinality(Unused) <= LOGSIZE
    BY DEF LInv, SpaceInv
  <2>3. Len(lh') \in Nat /\ Len(lh) \in Nat
    BY <1>6 DEF LInv, TypeOK
  <2> QED BY <2>1, <2>2, <2>3, SizesAssumption
<1>8. TypeOK'
  BY <1>1, <1>6, <1>7 DEF LInv, TypeOK, PCs
<1>9. CacheInv'
  <2> SUFFICES ASSUME NEW c \in Blocks PROVE CacheInv!(c)'
    BY DEF CacheInv
  <2>1. CASE c = b
    BY <1>1, <1>6, <2>1 DEF LInv, TypeOK
  <2>2. CASE c /= b
    BY <1>2, <1>6, <2>2 DEF LInv, TypeOK, CacheInv
  <2> QED BY <2>1, <2>2
<1>10. HeldInv'
  BY <1>2 DEF LInv, HeldInv
<1>11. Distinct' /\ BootInv' /\ HeaderInv' /\ LogInv'
  BY <1>3, <1>6 DEF LInv, Distinct, BootInv, HeaderInv, LogInv, Booting
<1>12. CommitInv' /\ SleeperHasWaker'
  BY <1>2, <1>3 DEF LInv, CommitInv, SleeperHasWaker
<1> QED BY <1>5, <1>7, <1>8, <1>9, <1>10, <1>11, <1>12 DEF LInv, SpaceInv, CountInv

LEMMA EndOpLInv ==
    ASSUME LInv, NEW p \in Ops, EndOp(p)
    PROVE  LInv'
<1> USE DEF EndOp, diskVars, bufVars
<1>1. pc[p] = "in" /\ InCall(p)
  BY DEF InCall
<1>2. ~committing /\ cpc = "none" /\ outstanding > 0
  BY <1>1, CallsCounted DEF LInv, CommitInv, Up, Booting, TypeOK, CPCs
<1>3. \A q \in Ops :
        /\ wrote'[q] = IF q = p THEN {} ELSE wrote[q]
        /\ q /= p => pc'[q] \in {pc[q], "begin"} /\ (InCall(q)' <=> InCall(q))
        /\ q /= p /\ pc'[q] /= pc[q] => pc[q] = "asleep"
        /\ ~InCall(q)' \/ q /= p
  BY <1>2 DEF LInv, TypeOK, wakeup, InCall
<1>4. Calls' = Calls \ {p} /\ p \in Calls
  BY <1>1, <1>3 DEF Calls
<1>5. CountInv'
  BY <1>4, CallsCounted, FS_RemoveElement DEF LInv, CountInv
<1>6. SpaceInv'
  <2>0. \A q \in Ops : q /= p => Appended(q)' = Appended(q)
    BY <1>3 DEF Appended, Logged
  <2>1. Unused' \subseteq Unused
    BY <1>3, <2>0 DEF Unused
  <2>2. /\ Cardinality(Unused') <= Cardinality(Unused)
        /\ Cardinality(Unused') \in Nat /\ Cardinality(Unused) \in Nat
    BY <2>1, UnusedFinite, FS_Subset, FS_CardinalityType
  <2>3. \A q \in Ops : IsFiniteSet(wrote'[q]) /\ Cardinality(wrote'[q]) <= OPBLOCKS
    BY <1>3, FS_EmptySet, SizesAssumption DEF LInv, SpaceInv
  <2>4. Len(lh) + Cardinality(Unused') <= LOGSIZE
    BY <2>2, SizesAssumption DEF LInv, SpaceInv, TypeOK
  <2> QED BY <2>3, <2>4 DEF SpaceInv
<1>7. TypeOK'
  <2>1. outstanding' \in Nat /\ tail' \in 1..(LOGSIZE + 1) /\ cpc' \in CPCs /\ committing' \in BOOLEAN
    BY <1>2, SizesAssumption DEF LInv, TypeOK, CPCs
  <2>2. pc' \in [Ops -> PCs] /\ wrote' \in [Ops -> SUBSET Blocks]
    BY <1>2 DEF LInv, TypeOK, PCs, wakeup
  <2> QED BY <2>1, <2>2 DEF LInv, TypeOK
<1>8. Distinct' /\ CacheInv'
  BY DEF LInv, Distinct, CacheInv, Logged
<1>9. HeldInv'
  BY <1>1, <1>3 DEF LInv, HeldInv, InCall
<1>10. CASE outstanding = 1
  <2>1. /\ outstanding' = 0 /\ committing' = TRUE /\ tail' = 1
        /\ cpc' = IF lh = <<>> THEN "done" ELSE "log"
        /\ pc' = [pc EXCEPT ![p] = "commit"]
    <3>1. outstanding' = 0
      BY <1>10
    <3> QED BY <1>2, <3>1
  <2>2. CommitInv' /\ BootInv' /\ SleeperHasWaker'
    <3>1. \A q \in Ops : pc'[q] = "commit" <=> q = p
      BY <1>2, <2>1 DEF LInv, TypeOK, CommitInv
    <3> QED BY <2>1, <3>1 DEF CommitInv, BootInv, Booting, SleeperHasWaker
  <2>3. lh /= <<>> => 1 \in 1..Len(lh)
    BY DEF LInv, TypeOK
  <2>4. HeaderInv' /\ LogInv'
    BY <1>2, <2>1, <2>3 DEF LInv, HeaderInv, LogInv
  <2> QED BY <1>5, <1>6, <1>7, <1>8, <1>9, <2>2, <2>4 DEF LInv
<1>11. CASE outstanding /= 1
  <2>1. /\ outstanding' > 0 /\ committing' = committing /\ cpc' = cpc /\ tail' = tail
        /\ pc' = [wakeup(pc) EXCEPT ![p] = "out"]
    BY <1>2, <1>11 DEF LInv, TypeOK
  <2>2. CommitInv' /\ BootInv' /\ SleeperHasWaker'
    <3>1. \A q \in Ops : pc'[q] /= "commit" /\ pc'[q] /= "asleep"
      BY <1>2, <2>1 DEF LInv, TypeOK, CommitInv, wakeup
    <3> QED BY <1>2, <2>1, <3>1 DEF LInv, CommitInv, BootInv, Booting, SleeperHasWaker
  <2>3. HeaderInv' /\ LogInv'
    BY <1>2, <2>1 DEF LInv, TypeOK, HeaderInv, LogInv
  <2> QED BY <1>5, <1>6, <1>7, <1>8, <1>9, <2>2, <2>3 DEF LInv
<1> QED BY <1>10, <1>11

-----------------------------------------------------------------------------
(* Commit, crash and recovery run with nobody in a call. *)

LEMMA Quiet ==
    ASSUME LInv, committing \/ Booting
    PROVE  outstanding = 0 /\ \A p \in Ops : ~InCall(p) /\ held[p] = NotCached
<1>1. outstanding = 0
  BY DEF LInv, CommitInv, BootInv
<1>2. \A p \in Ops : ~InCall(p)
  BY <1>1, CallsCounted
<1> QED BY <1>1, <1>2 DEF LInv, HeldInv, InCall

LEMMA CountQuiet ==
    ASSUME LInv, outstanding' = 0, \A p \in Ops : ~InCall(p)',
           Len(lh') \in Nat, Len(lh') <= LOGSIZE,
           \A p \in Ops : wrote'[p] \in {wrote[p], {}}
    PROVE  SpaceInv' /\ CountInv'
<1>1. Calls' = {} /\ Unused' = {}
  BY DEF Calls, Unused
<1>2. Cardinality(Calls') = 0 /\ Cardinality(Unused') = 0
  BY <1>1, FS_EmptySet
<1>3. \A p \in Ops : IsFiniteSet(wrote'[p]) /\ Cardinality(wrote'[p]) <= OPBLOCKS
  <2>1. IsFiniteSet({}) /\ Cardinality({}) <= OPBLOCKS
    BY FS_EmptySet, SizesAssumption
  <2> QED BY <2>1 DEF LInv, SpaceInv
<1> QED BY <1>2, <1>3 DEF SpaceInv, CountInv


LEMMA WriteLogLInv ==
    ASSUME LInv, WriteLog
    PROVE  LInv'
<1> USE DEF WriteLog, bufVars, opVars
<1>1. tail \in 1..Len(lh) /\ committing /\ Len(lh) \in Nat /\ Len(lh) <= LOGSIZE
  BY DEF LInv, HeaderInv, CommitInv, TypeOK
<1>2. \A i \in 1..Len(lh) : lh[i] \in Blocks /\ bread(lh[i]) \in Values
  BY BlocksAssumption DEF LInv, TypeOK, bread
<1>3. TypeOK'
  <2>1. dlog' \in [1..LOGSIZE -> Values] /\ tail' \in 1..(LOGSIZE + 1)
    BY <1>1, <1>2, SizesAssumption DEF LInv, TypeOK
  <2> QED BY <2>1 DEF LInv, TypeOK, CPCs
<1>4. Distinct' /\ BootInv' /\ CacheInv' /\ HeldInv' /\ CommitInv' /\ SleeperHasWaker'
  BY DEF LInv, Distinct, BootInv, Booting, CacheInv, Logged, HeldInv, CommitInv,
     SleeperHasWaker
<1>5. HeaderInv'
  BY <1>1 DEF LInv, HeaderInv
<1>6. LogInv'
  <2>1. \A i \in 1..LOGSIZE : dlog'[i] = IF i = tail THEN bread(lh[tail]) ELSE dlog[i]
    BY DEF LInv, TypeOK
  <2>2. \A i \in 1..tail : dlog'[i] = bread(lh[i])
    BY <1>1, <2>1, SizesAssumption DEF LInv, LogInv
  <2> QED BY <1>1, <2>2 DEF LogInv, bread
<1>7. SpaceInv' /\ CountInv'
  BY CountSame DEF InCall
<1> QED BY <1>3, <1>4, <1>5, <1>6, <1>7 DEF LInv

LEMMA WriteHeadLInv ==
    ASSUME LInv, WriteHead
    PROVE  LInv'
<1> USE DEF WriteHead, bufVars, opVars
<1>1. TypeOK'
  BY SizesAssumption DEF LInv, TypeOK, CPCs
<1>2. Distinct' /\ BootInv' /\ CacheInv' /\ HeldInv' /\ CommitInv' /\ SleeperHasWaker'
  BY DEF LInv, Distinct, BootInv, Booting, CacheInv, Logged, HeldInv, CommitInv,
     SleeperHasWaker
<1>3. 1 \in 1..Len(lh)
  BY DEF LInv, HeaderInv, TypeOK
<1>4. HeaderInv' /\ LogInv'
  BY <1>3 DEF LInv, HeaderInv, LogInv, bread
<1>5. SpaceInv' /\ CountInv'
  BY CountSame DEF InCall
<1> QED BY <1>1, <1>2, <1>4, <1>5 DEF LInv

\* install_trans, in a commit and in recovery.
LEMMA InstallLInv ==
    ASSUME LInv, InstallTrans \/ RecoverInstall
    PROVE  LInv'
<1> DEFINE b == lh[tail]
<1>0. /\ \/ cpc = "install" /\ cpc' = IF tail = Len(lh) THEN "clear" ELSE "install"
         \/ cpc = "rinstall" /\ cpc' = IF tail = Len(lh) THEN "rclear" ELSE "rinstall"
      /\ tail' = tail + 1
      /\ UNCHANGED <<dlog, dhdr, lh, outstanding, committing, pc, held, wrote>>
  BY DEF InstallTrans, RecoverInstall, Install, opVars
<1>1. /\ tail \in 1..Len(lh) /\ Len(lh) \in Nat /\ Len(lh) <= LOGSIZE
      /\ b \in Blocks /\ dlog[tail] \in Values /\ dlog[tail] /= NotCached
  BY <1>0, SizesAssumption, BlocksAssumption DEF LInv, HeaderInv, TypeOK
<1>2. /\ disk' \in [Blocks -> Values] /\ cache' \in [Blocks -> Values \cup {NotCached}]
      /\ dirty' \in [Blocks -> BOOLEAN]
      /\ \A c \in Blocks :
            /\ disk'[c] = IF c = b THEN dlog[tail] ELSE disk[c]
            /\ cache'[c] = IF c = b THEN dlog[tail] ELSE cache[c]
            /\ dirty'[c] = IF c = b THEN FALSE ELSE dirty[c]
  BY <1>1 DEF InstallTrans, RecoverInstall, Install, LInv, TypeOK
<1> HIDE DEF b
<1>4. TypeOK'
  <2>1. tail' \in 1..(LOGSIZE + 1) /\ cpc' \in CPCs
    BY <1>0, <1>1, SizesAssumption DEF CPCs
  <2> QED BY <1>0, <1>2, <2>1 DEF LInv, TypeOK
<1>5. Distinct' /\ HeldInv' /\ SleeperHasWaker'
  BY <1>0, <1>1, <1>2 DEF LInv, Distinct, HeldInv, SleeperHasWaker
<1>6. BootInv'
  <2>1. Booting' => Booting
    BY <1>0 DEF Booting
  <2> QED BY <1>0, <1>2, <2>1 DEF LInv, BootInv
<1>a. CommitInv'
  <2>1. committing <=> cpc' \in {"log", "head", "install", "clear", "done"}
    BY <1>0 DEF LInv, CommitInv
  <2> QED BY <1>0, <2>1 DEF LInv, CommitInv
<1>7. CacheInv'
  <2> SUFFICES ASSUME NEW c \in Blocks PROVE CacheInv!(c)'
    BY DEF CacheInv
  <2>1. Logged(c)' <=> Logged(c)
    BY <1>0 DEF Logged
  <2> QED BY <1>0, <1>2, <2>1 DEF LInv, CacheInv
<1>8. HeaderInv'
  BY <1>0, <1>1 DEF LInv, HeaderInv
<1>9. LogInv'
  <2>1. \A i \in 1..Len(lh) : lh[i] \in Blocks /\ (lh[i] = b <=> i = tail)
    BY <1>1 DEF LInv, TypeOK, Distinct, b
  <2>2. \A i \in 1..tail : disk'[lh[i]] = dlog[i] /\ ~dirty'[lh[i]]
    <3> SUFFICES ASSUME NEW i \in 1..tail
                 PROVE  disk'[lh[i]] = dlog[i] /\ ~dirty'[lh[i]]
      OBVIOUS
    <3>1. i \in 1..Len(lh)
      BY <1>1
    <3>2. CASE i = tail
      BY <1>2, <2>1, <3>1, <3>2
    <3>3. CASE i /= tail
      <4>1. i \in 1..(tail - 1)
        BY <1>1, <3>3
      <4>2. disk[lh[i]] = dlog[i] /\ ~dirty[lh[i]]
        BY <1>0, <4>1 DEF LInv, LogInv
      <4> QED BY <1>2, <2>1, <3>1, <3>3, <4>2
    <3> QED BY <3>2, <3>3
  <2>3. cpc = "install" => \A i \in 1..Len(lh) : dlog[i] = bread(lh[i])'
    <3> SUFFICES ASSUME cpc = "install", NEW i \in 1..Len(lh)
                 PROVE  dlog[i] = bread(lh[i])'
      OBVIOUS
    <3>1. dlog[i] = bread(lh[i]) /\ bread(lh[i])' = IF cache'[lh[i]] = NotCached
                                                    THEN disk'[lh[i]] ELSE cache'[lh[i]]
      BY <1>0 DEF LInv, LogInv, bread
    <3> QED BY <1>1, <1>2, <2>1, <3>1 DEF bread
  <2>4. tail' - 1 = tail
    BY <1>0, <1>1
  <2> QED BY <1>0, <1>1, <2>2, <2>3, <2>4 DEF LogInv
<1>10. SpaceInv' /\ CountInv'
  BY <1>0, CountSame DEF InCall
<1> QED BY <1>4, <1>5, <1>6, <1>a, <1>7, <1>8, <1>9, <1>10 DEF LInv

LEMMA ClearLInv ==
    ASSUME LInv, CommitClear \/ RecoverClear
    PROVE  LInv'
<1> USE DEF CommitClear, RecoverClear, ClearHead, bufVars, opVars
<1>1. committing \/ Booting
  BY DEF LInv, CommitInv, Booting
<1>2. /\ outstanding = 0 /\ \A p \in Ops : ~InCall(p) /\ held[p] = NotCached
      /\ \A c \in Blocks : ~dirty[c]
  BY <1>1, Quiet DEF LInv, CacheInv, LogInv, Logged
<1>3. TypeOK'
  <2>0. lh' = <<>> /\ dhdr' = <<>> /\ tail' = 1
    OBVIOUS
  <2>1. /\ lh' \in Seq(Blocks) /\ Len(lh') <= LOGSIZE /\ tail' \in 1..(LOGSIZE + 1)
        /\ dhdr' \in Seq(Blocks) /\ Len(dhdr') <= LOGSIZE
    BY <2>0, SizesAssumption
  <2> QED BY <2>1 DEF LInv, TypeOK, CPCs
<1>4. Distinct' /\ HeldInv' /\ SleeperHasWaker' /\ HeaderInv' /\ LogInv'
  BY DEF LInv, Distinct, HeldInv, SleeperHasWaker, HeaderInv, LogInv
<1>5. BootInv' /\ CommitInv'
  BY DEF LInv, BootInv, Booting, CommitInv
<1>6. CacheInv'
  BY <1>2 DEF LInv, CacheInv
<1>7. SpaceInv' /\ CountInv'
  <2>1. Len(lh') = 0 /\ \A p \in Ops : ~InCall(p)'
    BY <1>2 DEF InCall
  <2> QED BY <1>2, <2>1, CountQuiet, SizesAssumption
<1> QED BY <1>3, <1>4, <1>5, <1>6, <1>7 DEF LInv

LEMMA EndCommitLInv ==
    ASSUME LInv, EndCommit
    PROVE  LInv'
<1> USE DEF EndCommit, diskVars, bufVars
<1>1. committing /\ outstanding = 0 /\ \A p \in Ops : ~InCall(p) /\ held[p] = NotCached
  BY Quiet DEF LInv, CommitInv
<1>2. \A p \in Ops : /\ pc'[p] \in PCs /\ ~InCall(p)'
                     /\ pc'[p] \notin {"commit", "asleep"}
  BY <1>1 DEF LInv, TypeOK, PCs, InCall, wakeup
<1>3. TypeOK'
  BY <1>2 DEF LInv, TypeOK, CPCs
<1>4. Distinct' /\ CacheInv' /\ HeaderInv' /\ LogInv'
  BY DEF LInv, Distinct, CacheInv, Logged, HeaderInv, LogInv
<1>5. HeldInv' /\ SleeperHasWaker' /\ BootInv' /\ CommitInv'
  BY <1>1, <1>2 DEF HeldInv, SleeperHasWaker, BootInv, Booting, CommitInv, InCall
<1>6. SpaceInv' /\ CountInv'
  BY <1>1, <1>2, CountQuiet DEF LInv, TypeOK
<1> QED BY <1>3, <1>4, <1>5, <1>6 DEF LInv

LEMMA CrashLInv ==
    ASSUME LInv, Crash
    PROVE  LInv'
<1> USE DEF Crash, diskVars
<1>1. TypeOK'
  <2>1. lh' \in Seq(Blocks) /\ Len(lh') = 0 /\ outstanding' \in Nat /\ tail' \in 1..(LOGSIZE + 1)
    BY SizesAssumption
  <2>2. /\ cache' \in [Blocks -> Values \cup {NotCached}] /\ dirty' \in [Blocks -> BOOLEAN]
        /\ pc' \in [Ops -> PCs] /\ held' \in [Ops -> Blocks \cup {NotCached}]
        /\ wrote' \in [Ops -> SUBSET Blocks] /\ committing' \in BOOLEAN /\ cpc' \in CPCs
    BY DEF PCs, CPCs
  <2> QED BY <2>1, <2>2, SizesAssumption DEF LInv, TypeOK
<1>2. Distinct' /\ CacheInv' /\ HeaderInv' /\ LogInv'
  BY DEF LInv, Distinct, CacheInv, Logged, HeaderInv, LogInv
<1>3. HeldInv' /\ SleeperHasWaker' /\ BootInv' /\ CommitInv'
  BY DEF HeldInv, SleeperHasWaker, BootInv, Booting, CommitInv
<1>4. SpaceInv' /\ CountInv'
  <2>1. /\ Len(lh') = 0 /\ \A p \in Ops : ~InCall(p)'
        /\ \A p \in Ops : wrote'[p] \in {wrote[p], {}}
    BY DEF InCall
  <2> QED BY <2>1, CountQuiet, SizesAssumption
<1> QED BY <1>1, <1>2, <1>3, <1>4 DEF LInv

LEMMA ReadHeadLInv ==
    ASSUME LInv, ReadHead
    PROVE  LInv'
<1> USE DEF ReadHead, diskVars, bufVars, opVars
<1>1. Booting /\ \A c \in Blocks : ~dirty[c]
  BY DEF LInv, BootInv, Booting
<1>2. outstanding = 0 /\ \A p \in Ops : ~InCall(p) /\ held[p] = NotCached
  BY <1>1, Quiet
<1>3. TypeOK'
  BY SizesAssumption DEF LInv, TypeOK, CPCs
<1>4. Distinct' /\ CacheInv' /\ HeldInv' /\ SleeperHasWaker'
  BY <1>1 DEF LInv, Distinct, CacheInv, HeldInv, SleeperHasWaker
<1>5. BootInv' /\ CommitInv'
  BY <1>1 DEF LInv, BootInv, Booting, CommitInv
<1>6. HeaderInv' /\ LogInv'
  <2>1. dhdr /= <<>> => 1 \in 1..Len(dhdr)
    BY DEF LInv, TypeOK
  <2>2. dhdr = <<>> => Len(dhdr) = 0
    OBVIOUS
  <2> QED BY <2>1, <2>2 DEF HeaderInv, LogInv
<1>7. SpaceInv' /\ CountInv'
  BY <1>2, CountQuiet DEF LInv, TypeOK, InCall
<1> QED BY <1>3, <1>4, <1>5, <1>6, <1>7 DEF LInv

LEMMA NextLInv == LInv /\ [Next]_vars => LInv'
<1> SUFFICES ASSUME LInv, [Next]_vars PROVE LInv'
  OBVIOUS
<1>1. ASSUME NEW b \in Blocks, Read(b) \/ Evict(b) PROVE LInv'
  BY <1>1, ReadLInv, EvictLInv
<1>2. ASSUME NEW p \in Ops,
             Call(p) \/ BeginSleep(p) \/ BeginOp(p) \/ LogWrite(p) \/ EndOp(p)
      PROVE  LInv'
  BY <1>2, LoopLInv, BeginOpLInv, LogWriteLInv, EndOpLInv
<1>3. CASE Committer
  BY <1>3, WriteLogLInv, WriteHeadLInv, InstallLInv, ClearLInv, EndCommitLInv
     DEF Committer
<1>4. CASE Recovery
  BY <1>4, ReadHeadLInv, InstallLInv, ClearLInv DEF Recovery
<1>5. CASE UNCHANGED vars
  <2> USE <1>5 DEF vars, diskVars, bufVars, opVars
  <2>1. TypeOK' /\ Distinct' /\ BootInv' /\ CacheInv' /\ HeldInv' /\ CommitInv'
    BY DEF LInv, TypeOK, Distinct, BootInv, Booting, CacheInv, Logged, HeldInv, CommitInv
  <2>2. HeaderInv' /\ LogInv' /\ SleeperHasWaker'
    BY DEF LInv, HeaderInv, LogInv, bread, SleeperHasWaker
  <2>3. SpaceInv' /\ CountInv'
    BY CountSame DEF InCall
  <2> QED BY <2>1, <2>2, <2>3 DEF LInv
<1> QED BY <1>1, <1>2, <1>3, <1>4, <1>5, CrashLInv, LogWriteCheckLInv DEF Next


LEMMA SpecLInv == Spec => []LInv
BY InitLInv, NextLInv, PTL DEF Spec

-----------------------------------------------------------------------------
(* Theorems. *)

\* begin_op and end_op keep count for any number of processes and blocks: one
\* process commits and only with nobody inside a call, whoever sleeps in
\* begin_op has an end_op to wake him, and bget drops no update.
THEOREM OpsCorrect == Spec => []OpsSound
<1>1. LInv => OpsSound
  <2> SUFFICES ASSUME LInv PROVE OpsSound
    OBVIOUS
  <2>1. CommitAlone
    <3>1. outstanding = Cardinality({p \in Ops : pc[p] \in {"in", "append", "panic"}})
      BY DEF LInv, CountInv, Calls, InCall
    <3>2. ASSUME committing
          PROVE  outstanding = 0 /\ Cardinality({p \in Ops : pc[p] = "commit"}) = 1
      <4>1. PICK p \in Ops : \A q \in Ops : pc[q] = "commit" <=> q = p
        BY <3>2 DEF LInv, CommitInv
      <4>2. {q \in Ops : pc[q] = "commit"} = {p}
        BY <4>1
      <4>3. Cardinality({p}) = 1
        BY FS_Singleton
      <4> QED BY <3>2, <4>2, <4>3 DEF LInv, CommitInv
    <3> QED BY <3>1, <3>2 DEF CommitAlone
  <2>2. CacheCoherent
    BY DEF LInv, CacheInv, CacheCoherent, Logged
  <2> QED BY <2>1, <2>2 DEF LInv, OpsSound
<1> QED BY <1>1, SpecLInv, PTL

-----------------------------------------------------------------------------
(* The log that mkfs makes: one block less than LOGSIZE and a header need. *)

\* A call leaves at least one of the places begin_op reserved for it unused.
\* While one is under way the log is therefore not full, and the end of a call
\* adds nothing to it.
SlackInv == Len(lh) < LOGSIZE /\ Len(dhdr) < LOGSIZE

\* More room is left than log_write asks for: two calls leave two places; a
\* call that ends returns one; and if none has ended since the last commit, the
\* blocks in the log are those of the calls under way.
TightInv ==
    \/ Calls = {} \/ Cardinality(Calls) >= 2
    \/ Len(lh) + Cardinality(Unused) < LOGSIZE
    \/ \A i \in 1..Len(lh) : \E p \in Calls : lh[i] \in wrote[p]

\* The last place of a call is never used.
LEMMA Spare ==
    ASSUME LInv, OPBLOCKS < MAXOPBLOCKS, NEW p \in Calls
    PROVE  <<p, MAXOPBLOCKS>> \in Unused
<1>1. p \in Ops /\ InCall(p)
  BY DEF Calls
<1>2. IsFiniteSet(wrote[p]) /\ Cardinality(wrote[p]) <= OPBLOCKS
  BY <1>1 DEF LInv, SpaceInv
<1>3. Appended(p) \subseteq wrote[p]
  BY DEF Appended
<1>4. Cardinality(Appended(p)) <= Cardinality(wrote[p])
      /\ Cardinality(Appended(p)) \in Nat /\ Cardinality(wrote[p]) \in Nat
  BY <1>2, <1>3, FS_Subset, FS_CardinalityType
<1>5. MAXOPBLOCKS \in 1..MAXOPBLOCKS /\ MAXOPBLOCKS > Cardinality(Appended(p))
  BY <1>2, <1>4, SizesAssumption
<1> QED BY <1>1, <1>5 DEF Unused

Spared ==
    OPBLOCKS < MAXOPBLOCKS /\ Calls /= {} =>
        /\ Cardinality(Unused) \in Nat /\ Cardinality(Unused) >= 1
        /\ Len(lh) < LOGSIZE /\ Len(lh) + Cardinality(Unused) <= LOGSIZE
        /\ Cardinality(Calls) >= 2 => Cardinality(Unused) >= 2

LEMMA SpareLeft == LInv => Spared
<1> SUFFICES ASSUME LInv, OPBLOCKS < MAXOPBLOCKS, Calls /= {}
             PROVE  /\ Cardinality(Unused) \in Nat /\ Cardinality(Unused) >= 1
                    /\ Len(lh) < LOGSIZE /\ Len(lh) + Cardinality(Unused) <= LOGSIZE
                    /\ Cardinality(Calls) >= 2 => Cardinality(Unused) >= 2
  BY DEF Spared
<1>1. PICK p \in Calls : TRUE
  OBVIOUS
<1>2. IsFiniteSet(Unused) /\ Cardinality(Unused) \in Nat
  BY UnusedFinite, FS_CardinalityType
<1>3. Cardinality(Unused) >= 1
  <2>1. {<<p, MAXOPBLOCKS>>} \subseteq Unused
    BY Spare
  <2>2. Cardinality({<<p, MAXOPBLOCKS>>}) = 1
    BY FS_Singleton
  <2> QED BY <1>2, <2>1, <2>2, FS_Subset
<1>4. ASSUME Cardinality(Calls) >= 2 PROVE Cardinality(Unused) >= 2
  <2>1. PICK q \in Calls : q /= p
    <3>1. Cardinality({p}) = 1
      BY FS_Singleton
    <3>2. Calls /= {p}
      BY <1>4, <3>1
    <3> QED BY <3>2
  <2> DEFINE x == <<p, MAXOPBLOCKS>>
             y == <<q, MAXOPBLOCKS>>
  <2>2. {x} \cup {y} \subseteq Unused /\ y \notin {x}
    BY <2>1, Spare
  <2>3. IsFiniteSet({x}) /\ Cardinality({x}) = 1
    BY FS_Singleton
  <2> HIDE DEF x, y
  <2>4. Cardinality({x} \cup {y}) = 2
    <3>1. \A S, e : IsFiniteSet(S) /\ e \notin S =>
                        Cardinality(S \cup {e}) = Cardinality(S) + 1
      BY FS_AddElement
    <3>2. Cardinality({x} \cup {y}) = Cardinality({x}) + 1
      BY <2>2, <2>3, <3>1, Zenon
    <3> QED BY <2>3, <3>2
  <2> QED BY <1>2, <2>2, <2>4, FS_Subset
<1>5. Len(lh) \in Nat /\ Len(lh) + Cardinality(Unused) <= LOGSIZE
  BY DEF LInv, TypeOK, SpaceInv
<1> QED BY <1>2, <1>3, <1>4, <1>5, SizesAssumption

LEMMA SpareNext == LInv' => Spared'
BY SpareLeft, PTL

\* Only log_write makes the log longer, and then its call is under way.
LEMMA SlackStep ==
    ASSUME LInv, LInv', OPBLOCKS < MAXOPBLOCKS, SlackInv, [Next]_vars
    PROVE  SlackInv'
<1>1. ASSUME NEW p \in Ops, LogWrite(p) PROVE SlackInv'
  <2>1. p \in Calls' /\ dhdr' = dhdr
    BY <1>1 DEF LogWrite, Calls, InCall, diskVars, LInv, TypeOK
  <2>2. Len(lh') < LOGSIZE
    BY <2>1, SpareNext DEF Spared
  <2> QED BY <2>1, <2>2 DEF SlackInv
<1>2. CASE ~\E p \in Ops : LogWrite(p)
  <2>1. /\ lh' \in {lh, dhdr, <<>>} /\ dhdr' \in {dhdr, lh, <<>>}
    BY <1>2 DEF Next, vars, Committer, Recovery, Crash, Read, Evict, Call, BeginSleep,
       BeginOp, EndOp, LogWriteCheck, WriteLog, WriteHead, InstallTrans, Install,
       CommitClear, ClearHead, EndCommit, ReadHead, RecoverInstall, RecoverClear,
       diskVars, opVars, bufVars
  <2>2. Len(<<>>) < LOGSIZE
    BY SizesAssumption
  <2> QED BY <2>1, <2>2 DEF SlackInv
<1> QED BY <1>1, <1>2

\* The reserved places that are unused become no more while calls only write.
LEMMA UnusedShrinks ==
    ASSUME LInv, LInv', \A q \in Ops : InCall(q)' => InCall(q) /\ wrote[q] \subseteq wrote'[q],
           \A c \in Blocks : Logged(c) => Logged(c)'
    PROVE  /\ Unused' \subseteq Unused
           /\ Cardinality(Unused') <= Cardinality(Unused)
           /\ Cardinality(Unused') \in Nat /\ Cardinality(Unused) \in Nat
<1>1. ASSUME NEW q \in Ops, InCall(q)'
      PROVE  /\ Cardinality(Appended(q)) <= Cardinality(Appended(q)')
             /\ Cardinality(Appended(q)) \in Nat /\ Cardinality(Appended(q)') \in Nat
  <2>1. Appended(q) \subseteq Appended(q)'
    BY <1>1 DEF Appended, LInv, TypeOK
  <2>2. IsFiniteSet(Appended(q)')
    <3>1. IsFiniteSet(wrote'[q])
      BY DEF LInv, SpaceInv
    <3>2. Appended(q)' \subseteq wrote'[q]
      BY DEF Appended
    <3> QED BY <3>1, <3>2, FS_Subset
  <2> QED BY <2>1, <2>2, FS_Subset, FS_CardinalityType
<1>2. Unused' \subseteq Unused
  BY <1>1 DEF Unused
<1> QED BY <1>2, UnusedFinite, FS_Subset, FS_CardinalityType

LEMMA TightSame ==
    ASSUME TightInv, UNCHANGED <<lh, wrote>>, \A p \in Ops : InCall(p)' <=> InCall(p)
    PROVE  TightInv'
<1>1. Calls' = Calls /\ Unused' = Unused
  BY DEF Calls, Unused, Appended, Logged
<1> QED BY <1>1 DEF TightInv

LEMMA TightBegin ==
    ASSUME LInv, NEW p \in Ops, BeginOp(p)
    PROVE  TightInv'
<1>1. Calls' = Calls \cup {p} /\ p \notin Calls
  BY DEF Calls, InCall, BeginOp, LInv, TypeOK
<1>2. CASE Calls = {}
  <2>1. outstanding = 0
    BY <1>2, FS_EmptySet DEF LInv, CountInv
  <2>2. lh' = <<>>
    BY <2>1 DEF BeginOp, LInv, CommitInv, HeaderInv, Up, Booting, TypeOK, CPCs
  <2> QED BY <2>2 DEF TightInv
<1>3. CASE Calls /= {}
  <2>1. IsFiniteSet(Calls) /\ Cardinality(Calls) \in Nat /\ Cardinality(Calls) /= 0
    BY <1>3, CallsCounted, FS_EmptySet, FS_CardinalityType
  <2>2. Cardinality(Calls') = Cardinality(Calls) + 1
    BY <1>1, <2>1, FS_AddElement
  <2>3. Cardinality(Calls') >= 2
    BY <2>1, <2>2
  <2> QED BY <2>3 DEF TightInv
<1> QED BY <1>2, <1>3

LEMMA TightCheck ==
    ASSUME LInv, LInv', TightInv, NEW p \in Ops, NEW b \in Blocks, NEW v \in Values,
           LogWriteCheck(p, b, v)
    PROVE  TightInv'
<1>1. /\ \A q \in Ops : (InCall(q)' <=> InCall(q)) /\ wrote[q] \subseteq wrote'[q]
      /\ lh' = lh
  BY DEF LogWriteCheck, InCall, LInv, TypeOK
<1>2. Calls' = Calls /\ \A c \in Blocks : Logged(c) => Logged(c)'
  BY <1>1 DEF Calls, Logged
<1>3. /\ Cardinality(Unused') <= Cardinality(Unused)
      /\ Cardinality(Unused') \in Nat /\ Cardinality(Unused) \in Nat
  BY <1>1, <1>2, UnusedShrinks
<1>4. Len(lh) \in Nat /\ Calls \subseteq Ops
  BY DEF LInv, TypeOK, Calls
<1>5. CASE Len(lh) + Cardinality(Unused) < LOGSIZE
  BY <1>1, <1>3, <1>4, <1>5, SizesAssumption DEF TightInv
<1>6. CASE \A i \in 1..Len(lh) : \E q \in Calls : lh[i] \in wrote[q]
  BY <1>1, <1>2, <1>4, <1>6 DEF TightInv
<1> QED BY <1>2, <1>5, <1>6 DEF TightInv

LEMMA TightWrite ==
    ASSUME LInv, TightInv, NEW p \in Ops, LogWrite(p)
    PROVE  TightInv'
<1>1. /\ \A q \in Ops : InCall(q)' <=> InCall(q)
      /\ wrote' = wrote /\ p \in Calls /\ held[p] \in wrote[p] /\ held[p] \in Blocks
  BY DEF LogWrite, InCall, LInv, TypeOK, HeldInv, Calls
<1>2. Calls' = Calls
  BY <1>1 DEF Calls
<1>3. /\ Len(lh') + Cardinality(Unused') <= Len(lh) + Cardinality(Unused)
      /\ Cardinality(Unused') \in Nat /\ Cardinality(Unused) \in Nat
      /\ lh \in Seq(Blocks) /\ lh' \in Seq(Blocks)
  BY LogWriteSpace DEF LInv, TypeOK
<1>4. CASE Len(lh) + Cardinality(Unused) < LOGSIZE
  <2>1. Len(lh') + Cardinality(Unused') < LOGSIZE
    BY <1>3, <1>4, SizesAssumption
  <2> QED BY <2>1 DEF TightInv
<1>5. CASE \A i \in 1..Len(lh) : \E q \in Calls : lh[i] \in wrote[q]
  <2>1. \A i \in 1..Len(lh') : lh'[i] = held[p] \/ \E j \in 1..Len(lh) : lh'[i] = lh[j]
    BY <1>1, <1>3 DEF LogWrite, absorb
  <2> QED BY <1>1, <1>2, <1>5, <2>1 DEF TightInv
<1> QED BY <1>2, <1>4, <1>5 DEF TightInv

\* A call that ends gives back a place it never used.
LEMMA TightEnd ==
    ASSUME LInv, LInv', OPBLOCKS < MAXOPBLOCKS, NEW p \in Ops, EndOp(p)
    PROVE  TightInv'
<1>0. ~committing
  BY CallsCounted DEF EndOp, LInv, CommitInv, InCall
<1>1. /\ p \in Calls /\ ~InCall(p)' /\ lh' = lh
      /\ \A q \in Ops : InCall(q)' => InCall(q) /\ q /= p /\ wrote[q] \subseteq wrote'[q]
  <2>1. /\ pc \in [Ops -> PCs] /\ wrote' = [wrote EXCEPT ![p] = {}] /\ lh' = lh
        /\ DOMAIN wrote = Ops
    BY DEF EndOp, LInv, TypeOK
  <2>2. p \in Calls /\ ~InCall(p)'
    BY <1>0, <2>1 DEF EndOp, InCall, Calls, wakeup
  <2>3. \A q \in Ops : q /= p => wrote'[q] = wrote[q]
    BY <2>1
  <2>4. \A q \in Ops : InCall(q)' => InCall(q)
    BY <1>0, <2>1, <2>2 DEF EndOp, InCall, wakeup
  <2> QED BY <2>1, <2>2, <2>3, <2>4
<1>2. \A c \in Blocks : Logged(c) => Logged(c)'
  BY <1>1 DEF Logged
<1>3. Unused' \subseteq Unused /\ Cardinality(Unused') \in Nat
  BY <1>1, <1>2, UnusedShrinks
<1>4. <<p, MAXOPBLOCKS>> \in Unused /\ <<p, MAXOPBLOCKS>> \notin Unused'
  BY <1>1, Spare DEF Unused
<1>5. PICK x : x = <<p, MAXOPBLOCKS>>
  OBVIOUS
<1>6. /\ IsFiniteSet(Unused \ {x}) /\ Cardinality(Unused \ {x}) = Cardinality(Unused) - 1
      /\ Cardinality(Unused) \in Nat
  BY <1>4, <1>5, UnusedFinite, FS_RemoveElement, FS_CardinalityType
<1>7. Unused' \subseteq Unused \ {x}
  BY <1>3, <1>4, <1>5
<1>8. Cardinality(Unused') <= Cardinality(Unused) - 1
  BY <1>6, <1>7, FS_Subset
<1>9. Len(lh) \in Nat /\ Len(lh) + Cardinality(Unused) <= LOGSIZE
  BY DEF LInv, TypeOK, SpaceInv
<1>10. Len(lh') + Cardinality(Unused') < LOGSIZE
  BY <1>1, <1>3, <1>6, <1>8, <1>9, SizesAssumption
<1> QED BY <1>10 DEF TightInv

LEMMA TightStep ==
    ASSUME LInv, LInv', OPBLOCKS < MAXOPBLOCKS, TightInv, [Next]_vars
    PROVE  TightInv'
<1>1. ASSUME NEW p \in Ops, BeginOp(p) \/ LogWrite(p) \/ EndOp(p) PROVE TightInv'
  BY <1>1, TightBegin, TightWrite, TightEnd
<1>2. ASSUME NEW p \in Ops, NEW b \in Blocks, NEW v \in Values, LogWriteCheck(p, b, v)
      PROVE  TightInv'
  BY <1>2, TightCheck
<1>3. ASSUME Committer \/ Recovery \/ UNCHANGED vars \/ (\E b \in Blocks : Read(b) \/ Evict(b))
             \/ (\E p \in Ops : Call(p) \/ BeginSleep(p))
      PROVE  TightInv'
  <2>1. CASE UNCHANGED <<lh, wrote>> /\ \A p \in Ops : InCall(p)' <=> InCall(p)
    BY <2>1, TightSame
  <2>2. CASE lh' = <<>> /\ UNCHANGED pc /\ cpc \in {"clear", "rclear"}
    BY <2>2 DEF TightInv
  <2>3. CASE ReadHead
    <3>1. \A p \in Ops : ~InCall(p)'
      BY <2>3 DEF ReadHead, opVars, InCall, LInv, BootInv, Booting
    <3> QED BY <3>1 DEF TightInv, Calls
  <2> QED BY <1>3, <2>1, <2>2, <2>3 DEF Committer, Recovery, vars, Read, Evict, Call,
         BeginSleep, WriteLog, WriteHead, InstallTrans, Install, CommitClear, ClearHead,
         EndCommit, RecoverInstall, RecoverClear, diskVars, opVars, bufVars, InCall, LInv,
         TypeOK, wakeup
<1>4. ASSUME Crash PROVE TightInv'
  <2>1. lh' = <<>>
    BY <1>4 DEF Crash
  <2> QED BY <2>1 DEF TightInv
<1> QED BY <1>1, <1>2, <1>3, <1>4 DEF Next

\* log_write's check finds room.
LEMMA RoomLeft ==
    ASSUME LInv, TightInv, nlog >= LOGSIZE, OPBLOCKS < MAXOPBLOCKS, MAXOPBLOCKS < LOGSIZE,
           NEW p \in Calls
    PROVE  ~TooBig
<1>1. /\ Cardinality(Unused) \in Nat /\ Cardinality(Unused) >= 1
      /\ Len(lh) + Cardinality(Unused) <= LOGSIZE
      /\ Cardinality(Calls) >= 2 => Cardinality(Unused) >= 2
  BY SpareLeft DEF Spared
<1>2. lh \in Seq(Blocks) /\ Len(lh) \in Nat
  BY DEF LInv, TypeOK
<1>3. CASE Cardinality(Calls) >= 2
  BY <1>1, <1>2, <1>3, SizesAssumption DEF TooBig
<1>4. CASE Len(lh) + Cardinality(Unused) < LOGSIZE
  BY <1>1, <1>2, <1>4, SizesAssumption DEF TooBig
<1>5. CASE ~(Cardinality(Calls) >= 2) /\ \A i \in 1..Len(lh) : \E q \in Calls : lh[i] \in wrote[q]
  <2>1. \A q \in Calls : q = p
    <3> SUFFICES ASSUME NEW q \in Calls, q /= p PROVE FALSE
      OBVIOUS
    <3>1. IsFiniteSet({p}) /\ Cardinality({p}) = 1 /\ q \notin {p}
      BY FS_Singleton
    <3>2. Cardinality({p} \cup {q}) = 2
      BY <3>1, FS_AddElement
    <3>3. {p} \cup {q} \subseteq Calls /\ IsFiniteSet(Calls)
      BY CallsCounted
    <3>4. Cardinality(Calls) >= 2
      BY <3>2, <3>3, FS_Subset, FS_CardinalityType
    <3> QED BY <1>5, <3>4
  <2>2. p \in Ops /\ IsFiniteSet(wrote[p]) /\ Cardinality(wrote[p]) <= OPBLOCKS
    BY DEF Calls, LInv, SpaceInv
  <2>3. lh \in [1..Len(lh) -> wrote[p]]
    BY <1>2, <1>5, <2>1
  <2>4. \A i, j \in 1..Len(lh) : lh[i] = lh[j] => i = j
    BY DEF LInv, Distinct
  <2>5. PICK n \in Nat : n = Len(lh)
    BY <1>2
  <2>6. IsFiniteSet(1..n) /\ Cardinality(1..n) = n
    BY FS_Interval
  <2>7. lh \in Injection(1..n, wrote[p])
    BY <2>3, <2>4, <2>5 DEF Injection, IsInjective
  <2>8. n <= Cardinality(wrote[p]) /\ Cardinality(wrote[p]) \in Nat
    BY <2>2, <2>6, <2>7, FS_Injection, FS_CardinalityType
  <2> QED BY <1>2, <2>2, <2>5, <2>8, SizesAssumption DEF TooBig
<1>6. Calls /= {}
  OBVIOUS
<1> QED BY <1>3, <1>4, <1>5, <1>6 DEF TightInv

\* On the disk mkfs makes (nlog = LOGSIZE, with LOGSIZE = 3 * MAXOPBLOCKS), the
\* reservation of begin_op is enough because no call writes all the blocks it
\* reserves: no call overruns the log on disk or panics, although log_write
\* looks at the size before it takes log.lock and the disk has one block less
\* than LOGSIZE promises.
THEOREM LogNeverOverflows ==
    ASSUME nlog >= LOGSIZE, OPBLOCKS < MAXOPBLOCKS, MAXOPBLOCKS < LOGSIZE
    PROVE  Spec => []LogFits
<1> DEFINE Room == SlackInv /\ TightInv /\ \A p \in Ops : pc[p] /= "panic"
<1>1. Init => Room
  <2> SUFFICES ASSUME Init PROVE Room
    OBVIOUS
  <2>1. Len(<<>>) < LOGSIZE /\ \A p \in Ops : pc[p] = "out"
    BY SizesAssumption DEF Init
  <2> QED BY <2>1 DEF Init, SlackInv, TightInv
<1>2. LInv /\ LInv' /\ Room /\ [Next]_vars => Room'
  <2> SUFFICES ASSUME LInv, LInv', Room, [Next]_vars PROVE Room'
    OBVIOUS
  <2>1. SlackInv' /\ TightInv'
    BY SlackStep, TightStep
  <2>2. ASSUME NEW p \in Ops, NEW b \in Blocks, NEW v \in Values, LogWriteCheck(p, b, v)
        PROVE  \A q \in Ops : pc'[q] /= "panic"
    <3>1. p \in Calls /\ outstanding >= 1
      BY <2>2, CallsCounted DEF LogWriteCheck, Calls, InCall, LInv, TypeOK
    <3>2. ~TooBig
      BY <3>1, RoomLeft
    <3> QED BY <2>2, <3>1, <3>2 DEF LogWriteCheck, LInv, TypeOK
  <2>3. ASSUME NEW p \in Ops, EndOp(p) PROVE \A q \in Ops : pc'[q] /= "panic"
    <3>1. ~committing
      BY <2>3, CallsCounted DEF EndOp, LInv, CommitInv, InCall
    <3> QED BY <2>3, <3>1 DEF EndOp, wakeup, LInv, TypeOK
  <2>4. ASSUME ~(\E p \in Ops : EndOp(p)),
               ~(\E p \in Ops, b \in Blocks, v \in Values : LogWriteCheck(p, b, v))
        PROVE  \A q \in Ops : pc'[q] /= "panic"
    <3>1. CASE UNCHANGED pc
      BY <3>1
    <3>2. CASE Crash
      BY <3>2 DEF Crash
    <3>3. CASE EndCommit
      BY <3>3 DEF EndCommit, wakeup
    <3>4. CASE \E p \in Ops : Call(p) \/ BeginSleep(p) \/ BeginOp(p) \/ LogWrite(p)
      BY <3>4 DEF Call, BeginSleep, BeginOp, LogWrite, LInv, TypeOK
    <3> QED BY <2>4, <3>1, <3>2, <3>3, <3>4 DEF Next, vars, Committer, Recovery, Read,
           Evict, WriteLog, WriteHead, InstallTrans, Install, CommitClear, ClearHead,
           ReadHead, RecoverInstall, RecoverClear, opVars
  <2> QED BY <2>1, <2>2, <2>3, <2>4
<1>3. Room => LogFits
  BY SizesAssumption DEF SlackInv, LogFits, Halted
<1> QED BY <1>1, <1>2, <1>3, SpecLInv, PTL DEF Spec

-----------------------------------------------------------------------------
(* The refinement: what AtomicDisk calls volatile and status. *)

Readers == [b \in Blocks |-> IF Booting THEN Recovered[b] ELSE bread(b)]
Status  == [p \in Ops |-> IF Booting THEN "out"
                          ELSE CASE pc[p] \in {"in", "append", "panic"} -> "in"
                                 [] pc[p] = "commit" -> "ending"
                                 [] OTHER -> "out"]

StatusIs == \A p \in Ops : Status[p] = IF InCall(p) THEN "in"
                                       ELSE IF pc[p] = "commit" THEN "ending" ELSE "out"

LEMMA StatusOf == (LInv => StatusIs) /\ (LInv' => StatusIs')
<1>1. LInv => StatusIs
  BY DEF Status, StatusIs, InCall, LInv, BootInv
<1> QED BY <1>1, PTL

\* An empty header: recovery leaves the disk as it is.
LEMMA RecoveredEmpty == dhdr = <<>> => \A b \in Blocks : Recovered[b] = disk[b]
BY DEF Recovered

\* A header: recovery installs exactly its blocks.
LEMMA RecoveredLogged ==
    ASSUME LInv, NEW b \in Blocks
    PROVE  /\ \A i \in 1..Len(dhdr) : dhdr[i] = b => Recovered[b] = dlog[i]
           /\ (\A i \in 1..Len(dhdr) : dhdr[i] /= b) => Recovered[b] = disk[b]
<1>1. (\A i \in 1..Len(dhdr) : dhdr[i] /= b) => Recovered[b] = disk[b]
  BY DEF Recovered
<1>2. ASSUME NEW i \in 1..Len(dhdr), dhdr[i] = b PROVE Recovered[b] = dlog[i]
  <2> DEFINE j == CHOOSE k \in 1..Len(dhdr) : dhdr[k] = b
  <2>1. j \in 1..Len(dhdr) /\ dhdr[j] = b
    BY <1>2
  <2>2. j = i
    BY <1>2, <2>1 DEF LInv, Distinct
  <2>3. Recovered[b] = dlog[j]
    BY <1>2 DEF Recovered
  <2> QED BY <2>2, <2>3
<1> QED BY <1>1, <1>2

\* A buffer that nobody holds and that is not pinned shows the disk's block.
LEMMA CleanRead ==
    ASSUME LInv, NEW b \in Blocks, ~dirty[b], \A p \in Ops : held[p] /= b
    PROVE  bread(b) = disk[b]
BY DEF LInv, CacheInv, bread

LEMMA Stutter ==
    ASSUME \A b \in Blocks : Recovered'[b] = Recovered[b],
           \A b \in Blocks : Readers'[b] = Readers[b],
           \A p \in Ops : Status'[p] = Status[p]
    PROVE  UNCHANGED Abstract!vars
<1>1. Recovered' = Recovered
  BY DEF Recovered
<1>2. Readers' = Readers
  BY DEF Readers
<1>3. Status' = Status
  BY DEF Status
<1> QED BY <1>1, <1>2, <1>3 DEF Abstract!vars, Readers, Status

LEMMA InitAbstract == Init => Abstract!Init
<1> SUFFICES ASSUME Init PROVE Abstract!Init
  OBVIOUS
<1>1. Booting /\ dhdr = <<>>
  BY DEF Init, Booting
<1>2. Recovered = [b \in Blocks |-> Blank]
  BY <1>1 DEF Recovered, Init
<1>3. Readers = Recovered /\ Status = [p \in Ops |-> "out"]
  BY <1>1, <1>2 DEF Readers, Status
<1> QED BY <1>2, <1>3 DEF Abstract!Init, Readers, Status


\* Steps that leave the disk alone and that no reader can see.
LEMMA SameReads ==
    ASSUME UNCHANGED <<disk, dlog, dhdr, cpc>>,
           \A b \in Blocks : bread(b)' = bread(b)
    PROVE  /\ \A b \in Blocks : Recovered'[b] = Recovered[b]
           /\ \A b \in Blocks : Readers'[b] = Readers[b]
           /\ Recovered' = Recovered /\ Readers' = Readers
<1>1. Recovered' = Recovered
  BY DEF Recovered
<1>2. Booting' <=> Booting
  BY DEF Booting
<1>3. Readers' = Readers
  BY <1>1, <1>2 DEF Readers
<1> QED BY <1>1, <1>3

LEMMA CacheStep ==
    ASSUME LInv, LInv', NEW b \in Blocks, Read(b) \/ Evict(b)
    PROVE  UNCHANGED Abstract!vars
<1>1. \A c \in Blocks : bread(c)' = bread(c)
  BY BlocksAssumption DEF LInv, TypeOK, CacheInv, bread, Read, Evict, diskVars
<1>2. \A p \in Ops : Status'[p] = Status[p]
  BY StatusOf DEF Read, Evict, opVars, StatusIs, InCall
<1> QED BY <1>1, <1>2, SameReads, Stutter DEF Read, Evict, diskVars

LEMMA LoopStep ==
    ASSUME LInv, LInv', NEW p \in Ops, Call(p) \/ BeginSleep(p) \/ LogWrite(p)
    PROVE  UNCHANGED Abstract!vars
<1>1. \A c \in Blocks : bread(c)' = bread(c)
  BY DEF bread, Call, BeginSleep, LogWrite, diskVars, bufVars
<1>2. \A q \in Ops : /\ InCall(q)' <=> InCall(q)
                     /\ pc'[q] = "commit" <=> pc[q] = "commit"
  BY DEF LInv, TypeOK, InCall, Call, BeginSleep, LogWrite
<1>3. \A q \in Ops : Status'[q] = Status[q]
  BY <1>2, StatusOf DEF StatusIs
<1> QED BY <1>1, <1>3, SameReads, Stutter DEF Call, BeginSleep, LogWrite, diskVars

LEMMA BeginStep ==
    ASSUME LInv, LInv', NEW p \in Ops, BeginOp(p)
    PROVE  Abstract!Begin(p)
<1>1. \A c \in Blocks : bread(c)' = bread(c)
  BY DEF bread, BeginOp, diskVars, bufVars
<1>2. Recovered' = Recovered /\ Readers' = Readers
  BY <1>1, SameReads DEF BeginOp, diskVars
<1>3. \A q \in Ops : pc[q] /= "commit" /\ pc'[q] = IF q = p THEN "in" ELSE pc[q]
  BY DEF LInv, TypeOK, CommitInv, BeginOp
<1>4. Status[p] = "out" /\ \A q \in Ops : Status[q] /= "ending"
  BY <1>3, StatusOf DEF StatusIs, InCall, BeginOp
<1>5. Status' = [Status EXCEPT ![p] = "in"]
  <2>1. \A q \in Ops : Status'[q] = IF q = p THEN "in" ELSE Status[q]
    BY <1>3, StatusOf DEF StatusIs, InCall
  <2> QED BY <2>1 DEF Status
<1> QED BY <1>2, <1>4, <1>5 DEF Abstract!Begin, Readers, Status

LEMMA WriteStep ==
    ASSUME LInv, LInv', NEW p \in Ops, NEW b \in Blocks, NEW v \in Values,
           LogWriteCheck(p, b, v)
    PROVE  Abstract!Write(p, b, v)
<1>1. Recovered' = Recovered /\ ~Booting /\ ~Booting'
  BY DEF Recovered, LogWriteCheck, diskVars, Booting, Up
<1>2. \A c \in Blocks : bread(c)' = IF c = b THEN v ELSE bread(c)
  BY BlocksAssumption DEF LInv, TypeOK, LogWriteCheck, bread, diskVars
<1>3. Readers' = [Readers EXCEPT ![b] = v]
  BY <1>1, <1>2 DEF Readers
<1>4. Status[p] = "in"
  BY StatusOf DEF StatusIs, InCall, LogWriteCheck
<1>5. \A q \in Ops : /\ InCall(q)' <=> InCall(q)
                     /\ pc'[q] = "commit" <=> pc[q] = "commit"
  BY DEF LInv, TypeOK, InCall, LogWriteCheck
<1>6. Status' = Status
  <2>1. \A q \in Ops : Status'[q] = Status[q]
    BY <1>5, StatusOf DEF StatusIs
  <2> QED BY <2>1 DEF Status
<1> QED BY <1>1, <1>3, <1>4, <1>6 DEF Abstract!Write, Readers, Status

LEMMA EndStep ==
    ASSUME LInv, LInv', NEW p \in Ops, EndOp(p)
    PROVE  Abstract!End(p)
<1>1. pc[p] = "in" /\ InCall(p) /\ ~committing /\ outstanding > 0 /\ cpc = "none"
  BY CallsCounted DEF EndOp, InCall, LInv, CommitInv, Up, Booting, TypeOK, CPCs
<1>2. Recovered' = Recovered /\ Readers' = Readers
  <2>1. ~Booting /\ ~Booting'
    BY <1>1 DEF EndOp, Booting
  <2>2. \A c \in Blocks : bread(c)' = bread(c)
    BY DEF bread, EndOp, diskVars, bufVars
  <2>3. Recovered' = Recovered
    BY DEF Recovered, EndOp, diskVars
  <2> QED BY <2>1, <2>2, <2>3 DEF Readers
<1>3. \A q \in Ops \ {p} : /\ InCall(q)' <=> InCall(q)
                           /\ pc'[q] = "commit" <=> pc[q] = "commit"
  BY <1>1 DEF LInv, TypeOK, EndOp, wakeup, InCall
<1>4. /\ outstanding = 1 => pc'[p] = "commit"
      /\ outstanding /= 1 => pc'[p] = "out"
  <2>1. outstanding' = 0 <=> outstanding = 1
    BY DEF EndOp, LInv, TypeOK
  <2> QED BY <1>1, <2>1 DEF LInv, TypeOK, EndOp, wakeup
<1>5. outstanding = 1 <=> ~\E q \in Ops \ {p} : InCall(q)
  <2>1. p \in Calls
    BY <1>1 DEF Calls
  <2>2. outstanding = 1 => Calls = {p}
    BY <1>1, CallsCounted
  <2>3. Calls = {p} => outstanding = 1
    BY FS_Singleton DEF LInv, CountInv
  <2> QED BY <2>1, <2>2, <2>3 DEF Calls
<1>6. \A q \in Ops : Status[q] = "in" <=> InCall(q)
  BY StatusOf DEF StatusIs
<1>7. Status' = [Status EXCEPT ![p] =
                    IF \E q \in Ops \ {p} : Status[q] = "in" THEN "out" ELSE "ending"]
  <2>1. \A q \in Ops \ {p} : Status'[q] = Status[q]
    BY <1>3, StatusOf DEF StatusIs
  <2>2. Status'[p] = IF \E q \in Ops \ {p} : Status[q] = "in" THEN "out" ELSE "ending"
    BY <1>4, <1>5, <1>6, StatusOf DEF StatusIs, InCall
  <2> QED BY <2>1, <2>2 DEF Status
<1> QED BY <1>1, <1>2, <1>6, <1>7 DEF Abstract!End, Readers, Status


\* Before the header is written, the log's blocks mean nothing.
LEMMA WriteLogStep ==
    ASSUME LInv, LInv', WriteLog
    PROVE  UNCHANGED Abstract!vars
<1> USE DEF WriteLog, bufVars, opVars
<1>1. dhdr = <<>> /\ dhdr' = <<>> /\ disk' = disk
  BY DEF LInv, HeaderInv
<1>2. \A c \in Blocks : Recovered'[c] = Recovered[c]
  BY <1>1 DEF Recovered
<1>3. ~Booting /\ ~Booting' /\ \A c \in Blocks : bread(c)' = bread(c)
  BY DEF Booting, bread
<1>4. \A c \in Blocks : Readers'[c] = Readers[c]
  BY <1>3 DEF Readers
<1>5. \A p \in Ops : Status'[p] = Status[p]
  BY StatusOf DEF StatusIs, InCall
<1> QED BY <1>2, <1>4, <1>5, Stutter

\* Writing the header is the point at which the transaction commits.
LEMMA CommitStep ==
    ASSUME LInv, LInv', WriteHead
    PROVE  Abstract!Commit
<1> USE DEF WriteHead, bufVars, opVars
<1>1. committing /\ ~Booting /\ ~Booting'
  BY DEF LInv, CommitInv, Booting
<1>2. \A p \in Ops : ~InCall(p) /\ held[p] = NotCached
  BY <1>1, Quiet
<1>3. \A c \in Blocks : bread(c)' = bread(c) /\ Readers[c] = bread(c) /\ Readers'[c] = bread(c)
  BY <1>1 DEF bread, Readers
<1>4. ASSUME NEW c \in Blocks PROVE Recovered'[c] = bread(c)
  <2>1. CASE Logged(c)
    <3> DEFINE j == CHOOSE k \in 1..Len(lh) : lh[k] = c
    <3>1. j \in 1..Len(lh) /\ lh[j] = c
      BY <2>1 DEF Logged
    <3>2. Recovered'[c] = dlog[j]
      BY <2>1 DEF Recovered, Logged
    <3> QED BY <3>1, <3>2 DEF LInv, LogInv
  <2>2. CASE ~Logged(c)
    <3>1. Recovered'[c] = disk[c]
      BY <2>2 DEF Recovered, Logged
    <3>2. ~dirty[c] /\ \A p \in Ops : held[p] /= c
      BY <1>2, <2>2, BlocksAssumption DEF LInv, CacheInv
    <3> QED BY <3>1, <3>2, CleanRead
  <2> QED BY <2>1, <2>2
<1>5. Recovered' = Readers /\ Readers' = Readers
  <2>1. Recovered' = [b \in Blocks |-> Recovered'[b]]
    BY DEF Recovered
  <2>2. Readers = [b \in Blocks |-> Readers[b]] /\ Readers' = [b \in Blocks |-> Readers'[b]]
    BY DEF Readers
  <2> QED BY <1>3, <1>4, <2>1, <2>2
<1>6. Status' = Status
  <2>1. \A p \in Ops : Status'[p] = Status[p]
    BY StatusOf DEF StatusIs, InCall
  <2> QED BY <2>1 DEF Status
<1>7. (\E p \in Ops : Status[p] = "ending") /\ \A p \in Ops : Status[p] /= "in"
  BY <1>1, <1>2, StatusOf DEF StatusIs, LInv, CommitInv
<1> QED BY <1>5, <1>6, <1>7 DEF Abstract!Commit, Readers, Status

\* Installing a block that the header names changes neither what recovery
\* would leave nor what readers see.
LEMMA InstallStep ==
    ASSUME LInv, LInv', InstallTrans \/ RecoverInstall
    PROVE  UNCHANGED Abstract!vars
<1> DEFINE b == lh[tail]
<1>1. /\ \/ cpc = "install" /\ cpc' \in {"install", "clear"}
         \/ cpc = "rinstall" /\ cpc' \in {"rinstall", "rclear"}
      /\ UNCHANGED <<dlog, dhdr, pc>> /\ dhdr = lh
      /\ tail \in 1..Len(lh) /\ b \in Blocks
      /\ dlog[tail] /= NotCached
  BY SizesAssumption, BlocksAssumption
     DEF LInv, HeaderInv, TypeOK, InstallTrans, RecoverInstall, Install, opVars
<1>2. \A c \in Blocks : /\ disk'[c] = IF c = b THEN dlog[tail] ELSE disk[c]
                        /\ cache'[c] = IF c = b THEN dlog[tail] ELSE cache[c]
  BY DEF LInv, TypeOK, InstallTrans, RecoverInstall, Install
<1>3. ASSUME NEW c \in Blocks PROVE Recovered'[c] = Recovered[c]
  <2>1. CASE c = b
    <3>1. \E i \in 1..Len(dhdr) : dhdr[i] = c
      BY <1>1, <2>1
    <3> QED BY <1>1, <3>1 DEF Recovered
  <2>2. CASE c /= b
    BY <1>1, <1>2, <2>2 DEF Recovered
  <2> QED BY <2>1, <2>2
<1>4. ASSUME NEW c \in Blocks PROVE Readers'[c] = Readers[c]
  <2>1. CASE cpc = "install"
    <3>1. dlog[tail] = bread(b)
      BY <1>1, <2>1 DEF LInv, LogInv
    <3>2. bread(c)' = bread(c)
      BY <1>1, <1>2, <3>1 DEF bread
    <3> QED BY <1>1, <2>1, <3>2 DEF Readers, Booting
  <2>2. CASE cpc = "rinstall"
    BY <1>1, <1>3, <2>2 DEF Readers, Booting
  <2> QED BY <1>1, <2>1, <2>2
<1>5. \A p \in Ops : Status'[p] = Status[p]
  BY <1>1, StatusOf DEF StatusIs, InCall
<1> QED BY <1>3, <1>4, <1>5, Stutter

\* Everything is installed when the header is cleared; with the end of recovery
\* readers see the disk.
LEMMA ClearStep ==
    ASSUME LInv, LInv', CommitClear \/ RecoverClear
    PROVE  UNCHANGED Abstract!vars
<1>0. /\ dhdr = lh /\ dhdr' = <<>> /\ UNCHANGED <<disk, cache, pc>>
      /\ \A i \in 1..Len(lh) : disk[lh[i]] = dlog[i]
      /\ \/ cpc = "clear" /\ cpc' = "done"
         \/ cpc = "rclear" /\ cpc' = "none"
  BY DEF CommitClear, RecoverClear, ClearHead, bufVars, opVars, LInv, HeaderInv, LogInv
<1>1. \A c \in Blocks : Recovered[c] = disk[c]
  BY <1>0, RecoveredLogged
<1>2. \A c \in Blocks : Recovered'[c] = disk[c]
  BY <1>0 DEF Recovered
<1>3. \A c \in Blocks : bread(c)' = bread(c)
  BY <1>0 DEF bread
<1>4. ASSUME NEW c \in Blocks PROVE Readers'[c] = Readers[c]
  <2>1. CASE cpc = "clear"
    BY <1>0, <1>3, <2>1 DEF Readers, Booting
  <2>2. CASE cpc = "rclear"
    <3>1. Booting /\ ~Booting'
      BY <1>0, <2>2 DEF Booting
    <3>2. bread(c) = disk[c]
      BY <3>1, Quiet, CleanRead, BlocksAssumption DEF LInv, BootInv
    <3> QED BY <1>1, <1>3, <3>1, <3>2 DEF Readers
  <2> QED BY <1>0, <2>1, <2>2
<1>5. \A p \in Ops : Status'[p] = Status[p]
  BY <1>0, StatusOf DEF StatusIs, InCall
<1> QED BY <1>1, <1>2, <1>4, <1>5, Stutter

\* end_op returns when all that readers see is on the disk.
LEMMA ReturnStep ==
    ASSUME LInv, LInv', EndCommit
    PROVE  \E p \in Ops : Abstract!Return(p)
<1> USE DEF EndCommit, diskVars, bufVars
<1>1. committing /\ ~Booting /\ ~Booting' /\ dhdr = <<>> /\ lh = <<>>
  BY DEF LInv, CommitInv, Booting, HeaderInv
<1>2. PICK p \in Ops : \A q \in Ops : pc[q] = "commit" <=> q = p
  BY <1>1 DEF LInv, CommitInv
<1>3. \A q \in Ops : ~InCall(q) /\ held[q] = NotCached
  BY <1>1, Quiet
<1>4. ASSUME NEW c \in Blocks PROVE Recovered[c] = Readers[c]
  <2>1. ~dirty[c] /\ \A q \in Ops : held[q] /= c
    BY <1>1, <1>3, BlocksAssumption DEF LInv, CacheInv, Logged
  <2>2. bread(c) = disk[c] /\ Recovered[c] = disk[c]
    BY <1>1, <2>1, CleanRead, RecoveredEmpty
  <2> QED BY <1>1, <2>2 DEF Readers
<1>5. Recovered = Readers
  <2>1. Recovered = [b \in Blocks |-> Recovered[b]]
    BY DEF Recovered
  <2>2. Readers = [b \in Blocks |-> Readers[b]]
    BY DEF Readers
  <2> QED BY <1>4, <2>1, <2>2
<1>6. Recovered' = Recovered /\ Readers' = Readers
  <2>1. Recovered' = Recovered
    BY DEF Recovered
  <2>2. \A c \in Blocks : bread(c)' = bread(c)
    BY DEF bread
  <2> QED BY <1>1, <2>1, <2>2 DEF Readers
<1>7. Status[p] = "ending" /\ Status' = [Status EXCEPT ![p] = "out"]
  <2>1. \A q \in Ops : ~InCall(q)' /\ pc'[q] /= "commit"
    BY <1>3 DEF LInv, TypeOK, InCall, wakeup
  <2>2. \A q \in Ops : /\ Status'[q] = "out"
                       /\ Status[q] = IF q = p THEN "ending" ELSE "out"
    BY <1>2, <1>3, <2>1, StatusOf DEF StatusIs
  <2> QED BY <2>2 DEF Status
<1>8. Abstract!Return(p)
  BY <1>5, <1>6, <1>7 DEF Abstract!Return, Readers, Status
<1> QED BY <1>8

LEMMA CrashStep ==
    ASSUME Crash
    PROVE  Abstract!Crash
<1>1. Booting' /\ Recovered' = Recovered
  BY DEF Crash, diskVars, Booting, Recovered
<1>2. Readers' = Recovered /\ Status' = [p \in Ops |-> "out"]
  <2>1. Recovered = [b \in Blocks |-> Recovered[b]]
    BY DEF Recovered
  <2> QED BY <1>1, <2>1 DEF Readers, Status
<1> QED BY <1>1, <1>2 DEF Abstract!Crash, Readers, Status

LEMMA ReadHeadStep ==
    ASSUME LInv, LInv', ReadHead
    PROVE  UNCHANGED Abstract!vars
<1>1. Booting /\ Booting' /\ Recovered' = Recovered
  BY DEF ReadHead, diskVars, Booting, Recovered
<1>2. \A c \in Blocks : Readers'[c] = Readers[c]
  BY <1>1 DEF Readers
<1>3. \A p \in Ops : Status'[p] = Status[p]
  BY StatusOf DEF StatusIs, InCall, ReadHead, opVars
<1> QED BY <1>1, <1>2, <1>3, Stutter

\* All or nothing: for any number of calls, blocks and values, whatever the
\* machine does between two disk writes of commit and of recovery, the log
\* implements AtomicDisk.  Writing the header is Commit; every other disk
\* write is invisible to those who look only after recovery.
THEOREM LogIsAtomic == Spec => Atomic
<1>1. LInv /\ LInv' /\ [Next]_vars => [Abstract!Next]_Abstract!vars
  <2> SUFFICES ASSUME LInv, LInv', [Next]_vars PROVE [Abstract!Next]_Abstract!vars
    OBVIOUS
  <2>1. ASSUME NEW b \in Blocks, Read(b) \/ Evict(b) PROVE UNCHANGED Abstract!vars
    BY <2>1, CacheStep
  <2>2. ASSUME NEW p \in Ops, Call(p) \/ BeginSleep(p) \/ LogWrite(p)
        PROVE  UNCHANGED Abstract!vars
    BY <2>2, LoopStep
  <2>3. ASSUME NEW p \in Ops, BeginOp(p) \/ EndOp(p) PROVE Abstract!Next
    BY <2>3, BeginStep, EndStep DEF Abstract!Next
  <2>4. ASSUME NEW p \in Ops, NEW b \in Blocks, NEW v \in Values, LogWriteCheck(p, b, v)
        PROVE  Abstract!Next
    BY <2>4, WriteStep DEF Abstract!Next
  <2>5. CASE WriteHead \/ EndCommit \/ Crash
    BY <2>5, CommitStep, ReturnStep, CrashStep DEF Abstract!Next
  <2>6. CASE WriteLog \/ InstallTrans \/ CommitClear \/ ReadHead \/ RecoverInstall \/ RecoverClear
    BY <2>6, WriteLogStep, InstallStep, ClearStep, ReadHeadStep
  <2>7. CASE UNCHANGED vars
    BY <2>7 DEF vars, diskVars, bufVars, opVars, Abstract!vars, Recovered, Booting, bread
  <2> QED BY <2>1, <2>2, <2>3, <2>4, <2>5, <2>6, <2>7 DEF Next, Committer, Recovery
<1> QED BY <1>1, InitAbstract, SpecLInv, PTL DEF Spec, Atomic, Abstract!Spec

=============================================================================
