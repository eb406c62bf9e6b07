------------------------------ MODULE MCFileData ------------------------------
(* The instance: open files, and files, are interchangeable. *)
EXTENDS FileData, TLC

Symmetry == Permutations(Handles) \cup Permutations(Inodes)
==============================================================================
