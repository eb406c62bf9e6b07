---------------------------- MODULE MCSchedStats ----------------------------
(* Instances of SchedStats for TLC. *)
EXTENDS SchedStats

MCEvents == {"pipe"}
\* A sleep of two ticks, and one of a negative length.
MCLens == {-1, 2}
=============================================================================
