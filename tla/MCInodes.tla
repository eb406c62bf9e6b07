------------------------------ MODULE MCInodes ------------------------------
(* Instances of Inodes for TLC. *)
EXTENDS Inodes

\* Two names in the root; from a directory that the process has gone to, "y" in it.
\* "." and ".." are for link.
MCPaths == {<<"x">>, <<"x", ".">>, <<"x", "..">>}
MCRelPaths == {<<"y">>, <<"..">>}

\* One process makes things, the other removes them.
MCCalls == [p \in Procs |-> IF p = 1 THEN {"open", "creat", "mkdir", "link", "chdir"}
                            ELSE {"unlink"}]

\* Two processes that create, link and unlink one name (usertests' linkunlink).
OnePath == {<<"x">>}
NoPaths == {}
LinkUnlink == [p \in Procs |-> {"creat", "link", "unlink"}]
=============================================================================
