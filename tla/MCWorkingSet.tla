---------------------------- MODULE MCWorkingSet ----------------------------
(* The instance of WorkingSet for TLC. *)
EXTENDS WorkingSet

\* The arguments of sbrk: one and two pages up and down, and one that leaves
\* the size off a page boundary.
MCSbrks == {-2 * PGSIZE, -PGSIZE, PGSIZE, PGSIZE + 1, 2 * PGSIZE}
=============================================================================
