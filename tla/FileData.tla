------------------------------- MODULE FileData -------------------------------
(***************************************************************************)
(* The contents of files: balloc, bfree, bmap, itrunc, readi and writei of *)
(* fs.c, fileread and filewrite of file.c.  Blocks are arrays of words: a  *)
(* byte of a file and a block number in an indirect block are the same     *)
(* kind of thing, and what a block is used as is nowhere recorded.         *)
(*                                                                         *)
(* A step is one iteration of writei's loop, under the lock of the inode;  *)
(* processes that write to different files interleave between them (and    *)
(* inside a bmap, between its two ballocs, where they could change no more *)
(* than which free block it gets).  readi and itrunc change nothing others *)
(* can see before they end and are one step each.  The log is module       *)
(* Log's: here an operation counts the blocks it writes.                   *)
(***************************************************************************)
EXTENDS Integers, Sequences, FiniteSets, FiniteSetsExt

CONSTANTS
    Procs, Inodes, Handles,     \* processes (numbers), files, open files
    NBLOCKS,                    \* data blocks of the disk
    BPB,                        \* bits, of data blocks, in a bitmap block
    BSIZE,                      \* words in a block
    NDIRECT,
    MAXOPBLOCKS,
    Sizes,                      \* how much a process may read or write
    None

NINDIRECT == BSIZE
MAXFILE == NDIRECT + NINDIRECT
Blocks == 1..NBLOCKS
Words == 0..(BSIZE - 1)

ASSUME SizeAssumption ==
    /\ Procs \subseteq Nat \ {0} /\ NBLOCKS \in Nat /\ BPB \in Nat \ {0}
    /\ BSIZE \in Nat \ {0} /\ NDIRECT \in Nat /\ MAXOPBLOCKS \in Nat
    /\ MAXOPBLOCKS >= 6 /\ Sizes \subseteq Nat \ {0}
ASSUME NoneAssumption == None \notin Procs \cup Inodes \cup Handles
ASSUME InodesAssumption == IsFiniteSet(Inodes)

VARIABLES
    used,       \* the free map: blocks marked in use
    block,      \* block[b]: the words of block b
    ip,         \* ip[f]: the inode in memory, addrs and size
    dinode,     \* and on disk
    of, off,    \* struct file: its inode and offset
    lock,       \* lock[f]: who has the inode's lock
    reg,        \* reg[p]: where p is in filewrite
    logged,     \* logged[p]: the blocks p's operation has written to the log
    got,        \* what the last step read
    panicked    \* the message, or ""

disk == <<used, block, ip, dinode>>
vars == <<disk, of, off, lock, reg, logged, got, panicked>>

Idle == [pc |-> "idle", h |-> None, left |-> 0, n1 |-> 0, tot |-> 0]
NewInode == [addrs |-> [i \in 0..NDIRECT |-> 0], size |-> 0]

Init ==
    /\ used = {}
    /\ block = [b \in Blocks |-> [w \in Words |-> 0]]
    /\ ip = [f \in Inodes |-> NewInode] /\ dinode = ip
    /\ of = [h \in Handles |-> None] /\ off = [h \in Handles |-> 0]
    /\ lock = [f \in Inodes |-> None]
    /\ reg = [p \in Procs |-> Idle]
    /\ logged = [p \in Procs |-> {}]
    /\ got = <<>> /\ panicked = ""

\* Blocks of the log's count.
BBLOCK(b) == <<"bitmap", (b - 1) \div BPB>>
IBLOCK(f) == <<"inode", f>>
DBLOCK(b) == <<"data", b>>

(* Where block bn of a file is. *)
Data(f, bn) ==
    LET a == ip[f].addrs
    IN IF bn < NDIRECT THEN a[bn]
       ELSE IF a[NDIRECT] = 0 THEN 0 ELSE block[a[NDIRECT]][bn - NDIRECT]

Free == Blocks \ used
MutZeroed(bs) == block      \* the bug: balloc without bzero
Zeroed(bs) == [b \in Blocks |-> IF b \in bs THEN [w \in Words |-> 0] ELSE block[b]]

\* bmap: the block, with a new data block and a new indirect block if need be.
\* balloc takes the first free ones and clears them; it panics when there are none.
NeedInd(f, bn) == bn >= NDIRECT /\ ip[f].addrs[NDIRECT] = 0
Needs(f, bn) == (IF Data(f, bn) = 0 THEN 1 ELSE 0) + (IF NeedInd(f, bn) THEN 1 ELSE 0)
bmap(f, bn) ==
    LET ind  == IF NeedInd(f, bn) THEN Min(Free) ELSE ip[f].addrs[NDIRECT]
        free == IF NeedInd(f, bn) THEN Free \ {ind} ELSE Free
        new  == Data(f, bn) = 0
        addr == IF new THEN Min(free) ELSE Data(f, bn)
        fresh == (IF new THEN {addr} ELSE {}) \cup (IF NeedInd(f, bn) THEN {ind} ELSE {})
        clear == Zeroed(fresh)
    IN [addr |-> addr,
        used |-> used \cup fresh,
        inode |-> IF bn < NDIRECT THEN [ip[f] EXCEPT !.addrs[bn] = addr]
                  ELSE [ip[f] EXCEPT !.addrs[NDIRECT] = ind],
        block |-> IF new /\ bn >= NDIRECT THEN [clear EXCEPT ![ind][bn - NDIRECT] = addr]
                  ELSE clear,
        log |-> {BBLOCK(b) : b \in fresh} \cup {DBLOCK(b) : b \in fresh}
                \cup IF new /\ bn >= NDIRECT THEN {DBLOCK(ind)} ELSE {}]

-----------------------------------------------------------------------------
(* open and close, as far as the offset goes. *)

Busy(h) == \E p \in Procs : reg[p].h = h

Open(h, f) ==
    /\ panicked = "" /\ of[h] = None
    /\ of' = [of EXCEPT ![h] = f] /\ off' = [off EXCEPT ![h] = 0]
    /\ got' = <<>> /\ UNCHANGED <<disk, lock, reg, logged, panicked>>

Close(h) ==
    /\ panicked = "" /\ of[h] # None /\ ~Busy(h)
    /\ of' = [of EXCEPT ![h] = None] /\ off' = [off EXCEPT ![h] = 0]
    /\ got' = <<>> /\ UNCHANGED <<disk, lock, reg, logged, panicked>>

\* iput of the last reference to a file without links; the inode is then a
\* new file's.
itrunc(f) ==
    LET a == ip[f].addrs
        ind == {block[a[NDIRECT]][w] : w \in IF a[NDIRECT] = 0 THEN {} ELSE Words}
        bs == ({a[i] : i \in 0..NDIRECT} \cup ind) \ {0}
    IN /\ panicked = "" /\ lock[f] = None /\ \A h \in Handles : of[h] # f
       /\ IF bs \subseteq used
          THEN /\ used' = used \ bs /\ UNCHANGED panicked
               /\ ip' = [ip EXCEPT ![f] = NewInode]
               /\ dinode' = [dinode EXCEPT ![f] = NewInode]
          ELSE panicked' = "freeing free block" /\ UNCHANGED <<used, ip, dinode>>
       /\ got' = <<>> /\ UNCHANGED <<block, of, off, lock, reg, logged>>

\* fileread: readi cuts the request at the end of the file.  ("hole" is no
\* message of the code: bmap would allocate a block, outside any operation.)
fileread(h, n) ==
    LET f == of[h]
        m == Min({n, ip[f].size - off[h]})
        At(k) == Data(f, (off[h] + k - 1) \div BSIZE)
    IN /\ panicked = "" /\ f # None /\ lock[f] = None
       /\ IF \E k \in 1..m : At(k) \notin Blocks
          THEN panicked' = "hole" /\ UNCHANGED <<got, off>>
          ELSE /\ got' = [k \in 1..m |-> block[At(k)][(off[h] + k - 1) % BSIZE]]
               /\ off' = [off EXCEPT ![h] = @ + m]
               /\ UNCHANGED panicked
       /\ UNCHANGED <<disk, of, lock, reg, logged>>

(* filewrite: n words, each the writer's number, in chunks of max at most. *)
MutMax == ((MAXOPBLOCKS - 1 - 1) \div 2) * BSIZE     \* no slop for unaligned writes
max == ((MAXOPBLOCKS - 1 - 1 - 2) \div 2) * BSIZE

filewrite(p, h, n) ==
    /\ panicked = "" /\ reg[p].pc = "idle" /\ of[h] # None
    /\ reg' = [reg EXCEPT ![p] = [Idle EXCEPT !.pc = "chunk", !.h = h, !.left = n]]
    /\ got' = <<>> /\ UNCHANGED <<disk, of, off, lock, logged, panicked>>

\* begin_op, ilock, and writei's checks: a write past MAXFILE fails.
WriteBegin(p) ==
    LET h == reg[p].h
        f == of[h]
        n1 == Min({reg[p].left, max})
    IN /\ panicked = "" /\ reg[p].pc = "chunk" /\ lock[f] = None
       /\ IF off[h] > ip[f].size \/ off[h] + n1 > MAXFILE * BSIZE
          THEN reg' = [reg EXCEPT ![p] = Idle] /\ UNCHANGED <<lock, logged>>
          ELSE /\ reg' = [reg EXCEPT ![p].pc = "block", ![p].n1 = n1, ![p].tot = 0]
               /\ lock' = [lock EXCEPT ![f] = p]
               /\ logged' = [logged EXCEPT ![p] = {}]
       /\ got' = <<>> /\ UNCHANGED <<disk, of, off, panicked>>

\* The bug: memmove to the start of the block.
MutWriteBlock(p) ==
    LET f == of[reg[p].h]
        o == off[reg[p].h] + reg[p].tot
        m == Min({reg[p].n1 - reg[p].tot, BSIZE - (o % BSIZE)})
        b == bmap(f, o \div BSIZE)
    IN /\ panicked = "" /\ reg[p].pc = "block" /\ reg[p].tot < reg[p].n1
       /\ IF o \div BSIZE >= MAXFILE
          THEN panicked' = "bmap: out of range" /\ UNCHANGED <<used, block, ip, reg, logged>>
          ELSE IF Cardinality(Free) < Needs(f, o \div BSIZE)
          THEN panicked' = "balloc: out of blocks" /\ UNCHANGED <<used, block, ip, reg, logged>>
          ELSE /\ used' = b.used
               /\ ip' = [ip EXCEPT ![f] = b.inode]
               /\ block' = [b.block EXCEPT ![b.addr] = [w \in Words |->
                                IF w < m THEN p ELSE @[w]]]
               /\ logged' = [logged EXCEPT ![p] = @ \cup b.log \cup {DBLOCK(b.addr)}]
               /\ reg' = [reg EXCEPT ![p].tot = @ + m]
               /\ UNCHANGED panicked
       /\ got' = <<>> /\ UNCHANGED <<dinode, of, off, lock>>

\* One block.
WriteBlock(p) ==
    LET f == of[reg[p].h]
        o == off[reg[p].h] + reg[p].tot
        m == Min({reg[p].n1 - reg[p].tot, BSIZE - (o % BSIZE)})
        b == bmap(f, o \div BSIZE)
    IN /\ panicked = "" /\ reg[p].pc = "block" /\ reg[p].tot < reg[p].n1
       /\ IF o \div BSIZE >= MAXFILE
          THEN panicked' = "bmap: out of range" /\ UNCHANGED <<used, block, ip, reg, logged>>
          ELSE IF Cardinality(Free) < Needs(f, o \div BSIZE)
          THEN panicked' = "balloc: out of blocks" /\ UNCHANGED <<used, block, ip, reg, logged>>
          ELSE /\ used' = b.used
               /\ ip' = [ip EXCEPT ![f] = b.inode]
               /\ block' = [b.block EXCEPT ![b.addr] = [w \in Words |->
                                IF w >= o % BSIZE /\ w < (o % BSIZE) + m THEN p ELSE @[w]]]
               /\ logged' = [logged EXCEPT ![p] = @ \cup b.log \cup {DBLOCK(b.addr)}]
               /\ reg' = [reg EXCEPT ![p].tot = @ + m]
               /\ UNCHANGED panicked
       /\ got' = <<>> /\ UNCHANGED <<dinode, of, off, lock>>

\* The bug: the size changes and iupdate is not called.
MutWriteEnd(p) ==
    LET h == reg[p].h
        f == of[h]
        o == off[h] + reg[p].tot
        grown == [ip[f] EXCEPT !.size = o]
        left == reg[p].left - reg[p].n1
    IN /\ panicked = "" /\ reg[p].pc = "block" /\ reg[p].tot = reg[p].n1
       /\ IF o > ip[f].size
          THEN ip' = [ip EXCEPT ![f] = grown] /\ UNCHANGED dinode
          ELSE UNCHANGED <<ip, dinode>>
       /\ logged' = [logged EXCEPT ![p] = {}]
       /\ off' = [off EXCEPT ![h] = o]
       /\ lock' = [lock EXCEPT ![f] = None]
       /\ reg' = [reg EXCEPT ![p] = IF left = 0 THEN Idle
                    ELSE [Idle EXCEPT !.pc = "chunk", !.h = h, !.left = left]]
       /\ got' = <<>> /\ UNCHANGED <<used, block, of, panicked>>

\* The end of a chunk: the size, if it grew, and with it the inode on disk;
\* the offset; end_op, and the log is empty for the next chunk.
WriteEnd(p) ==
    LET h == reg[p].h
        f == of[h]
        o == off[h] + reg[p].tot
        grown == [ip[f] EXCEPT !.size = o]
        left == reg[p].left - reg[p].n1
    IN /\ panicked = "" /\ reg[p].pc = "block" /\ reg[p].tot = reg[p].n1
       /\ IF o > ip[f].size
          THEN /\ ip' = [ip EXCEPT ![f] = grown]
               /\ dinode' = [dinode EXCEPT ![f] = grown]
          ELSE UNCHANGED <<ip, dinode>>
       /\ logged' = [logged EXCEPT ![p] = {}]
       /\ off' = [off EXCEPT ![h] = o]
       /\ lock' = [lock EXCEPT ![f] = None]
       /\ reg' = [reg EXCEPT ![p] = IF left = 0 THEN Idle
                    ELSE [Idle EXCEPT !.pc = "chunk", !.h = h, !.left = left]]
       /\ got' = <<>> /\ UNCHANGED <<used, block, of, panicked>>

Halted == panicked # "" /\ UNCHANGED vars

Next ==
    \/ \E h \in Handles : Close(h)
    \/ \E h \in Handles, f \in Inodes : Open(h, f)
    \/ \E h \in Handles, n \in Sizes : fileread(h, n)
    \/ \E f \in Inodes : itrunc(f)
    \/ \E p \in Procs, h \in Handles, n \in Sizes : filewrite(p, h, n)
    \/ \E p \in Procs : WriteBegin(p) \/ WriteBlock(p) \/ WriteEnd(p)
    \/ Halted

Spec == Init /\ [][Next]_vars

-----------------------------------------------------------------------------
(* Properties. *)

\* Types; no file grows past MAXFILE blocks, and of the panics only the one
\* for a full disk happens: no block is freed twice, bmap is never asked for a
\* block past the last, and readi never meets a block that is not there.
TypeOK ==
    /\ used \subseteq Blocks
    /\ block \in [Blocks -> [Words -> Blocks \cup Procs \cup {0}]]
    /\ ip \in [Inodes -> [addrs : [0..NDIRECT -> Blocks \cup {0}], size : 0..(MAXFILE * BSIZE)]]
    /\ of \in [Handles -> Inodes \cup {None}]
    /\ off \in [Handles -> 0..(MAXFILE * BSIZE)]
    /\ lock \in [Inodes -> Procs \cup {None}]
    /\ panicked \in {"", "balloc: out of blocks"}

\* The places that point to blocks: in inodes, and in indirect blocks.
Direct == {x \in Inodes \X (0..NDIRECT) : ip[x[1]].addrs[x[2]] # 0}
Indirect == {x \in Inodes \X Words : Data(x[1], NDIRECT + x[2]) # 0}

\* A block is marked in use if and only if one file points to it, from one
\* place: no block is lost, none is in two files, and a block that becomes an
\* indirect block brings no pointers from its past.
BlocksOwned ==
    LET direct == {ip[x[1]].addrs[x[2]] : x \in Direct}
        indirect == {Data(x[1], NDIRECT + x[2]) : x \in Indirect}
    IN /\ used = direct \cup indirect
       /\ Cardinality(used) = Cardinality(Direct) + Cardinality(Indirect)

\* The free map is exact, and no panic but the one of a full disk is reached.
BlocksOK == TypeOK /\ BlocksOwned

\* When an operation ends, the inode on disk is the one in memory: a block
\* that was allocated for the file is never left out of what is committed.
DinodeCurrent == \A f \in Inodes : lock[f] = None => dinode[f] = ip[f]

\* "write a few blocks at a time to avoid exceeding the maximum log transaction
\* size": with the inode, the indirect block, the bitmap and unaligned ends, a
\* chunk never writes more blocks than begin_op reserved for it.
OpFits ==
    \A p \in Procs : reg[p].pc = "block" =>
        Cardinality(logged[p] \cup {IBLOCK(of[reg[p].h])}) <= MAXOPBLOCKS

\* The bytes of a file.  A chunk counts as written when it begins.
Contents(f) == [i \in 1..ip[f].size |-> block[Data(f, (i - 1) \div BSIZE)][(i - 1) % BSIZE]]
Writing(f) == lock[f] # None
AbsBytes(f) ==
    IF ~Writing(f) THEN Contents(f)
    ELSE LET p == lock[f]
             o == off[reg[p].h]
         IN [i \in 1..Max({ip[f].size, o + reg[p].n1}) |->
                IF i > o /\ i <= o + reg[p].n1 THEN p ELSE Contents(f)[i]]
AbsOff(h) == off[h] + IF \E p \in Procs : reg[p].h = h /\ reg[p].pc = "block"
                      THEN reg[CHOOSE p \in Procs : reg[p].h = h /\ reg[p].pc = "block"].n1
                      ELSE 0
F == INSTANCE ByteFiles
        WITH Limit <- MAXFILE * BSIZE, Bytes <- Procs,
             bytes <- [f \in Inodes |-> AbsBytes(f)],
             off <- [h \in Handles |-> AbsOff(h)]

\* Through direct and indirect blocks, two writers at once, truncation and
\* re-used blocks, files are sequences of bytes that reads and writes move over.
FilesAreBytes == F!BSpec
==============================================================================
