------------------------------ MODULE ByteFiles ------------------------------
(***************************************************************************)
(* What files promise: a file is a sequence of bytes.  Writing lays bytes  *)
(* over it at the offset of the open file, reading gives those that are    *)
(* there; both move the offset, which every process that shares the open   *)
(* file sees.  No other byte, of this or of another file, changes.         *)
(***************************************************************************)
EXTENDS Integers, Sequences, FiniteSetsExt

CONSTANTS Inodes, Handles, Limit, Bytes, None

VARIABLES
    bytes,      \* bytes[f]: what is in file f
    of, off,    \* the file and the offset of an open file
    got         \* what the last step read

bvars == <<bytes, of, off, got>>

\* The sequence s over t from the o-th byte on.
Over(t, o, s) ==
    [i \in 1..Max({Len(t), o + Len(s)}) |->
        IF i > o /\ i <= o + Len(s) THEN s[i - o] ELSE t[i]]

BInit ==
    /\ bytes = [f \in Inodes |-> <<>>]
    /\ of = [h \in Handles |-> None] /\ off = [h \in Handles |-> 0]
    /\ got = <<>>

Open(h, f) ==
    /\ of' = [of EXCEPT ![h] = f] /\ off' = [off EXCEPT ![h] = 0]
    /\ got' = <<>> /\ UNCHANGED bytes

\* A whole write, or a part of a long one.
Write(h) ==
    /\ of[h] # None /\ off'[h] > off[h] /\ off'[h] <= Limit
    /\ \E b \in Bytes :
        bytes' = [bytes EXCEPT ![of[h]] =
                    Over(@, off[h], [i \in 1..(off'[h] - off[h]) |-> b])]
    /\ off' = [off EXCEPT ![h] = off'[h]]
    /\ got' = <<>> /\ UNCHANGED of

Read(h) ==
    /\ of[h] # None
    /\ \E k \in 0..(Len(bytes[of[h]]) - off[h]) :
        /\ got' = SubSeq(bytes[of[h]], off[h] + 1, off[h] + k)
        /\ off' = [off EXCEPT ![h] = @ + k]
        /\ k = 0 => off[h] = Len(bytes[of[h]])
    /\ UNCHANGED <<bytes, of>>

\* A file that is in no directory and that nobody has open.
Discard(f) ==
    /\ \A h \in Handles : of[h] # f
    /\ bytes' = [bytes EXCEPT ![f] = <<>>]
    /\ got' = <<>> /\ UNCHANGED <<of, off>>

BNext ==
    \/ \E h \in Handles, f \in Inodes \cup {None} : Open(h, f)
    \/ \E h \in Handles : Write(h) \/ Read(h)
    \/ \E f \in Inodes : Discard(f)
    \/ got' = <<>> /\ UNCHANGED <<bytes, of, off>>

BSpec == BInit /\ [][BNext]_bvars
==============================================================================
