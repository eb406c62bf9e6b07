------------------------------- MODULE MCFiles -------------------------------
(* A message that fits, and one that is longer than the pipe. *)
EXTENDS Files

MCMessages == {<<1>>, <<0, 1, 0>>}
==============================================================================
