------------------------------ MODULE MCMemory ------------------------------
(* Programs for TLC: one that fits, one with an empty segment at 0 after it, and
   one whose second segment begins in the middle of a page. *)
EXTENDS Memory

Segment(v, m, f) == [vaddr |-> v, memsz |-> m, filesz |-> f]
\* The first process makes others, changes its program and encrypts its stack
\* page; its first child grows, shrinks and looks around as well.
MCCalls == <<{"fork", "exec", "store", "encrypt"},
             {"fork", "sbrk", "store", "encrypt", "dump"}, {}>>
MCSbrks == {-2, 3}
MCImages == {<<Segment(0, 2, 1)>>, <<Segment(0, 2, 1), Segment(0, 0, 0)>>,
             <<Segment(0, 1, 1), Segment(1, 2, 1)>>}
=============================================================================
