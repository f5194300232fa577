----------------------------- MODULE MCPosixEvent -----------------------------
(* Instances of PosixEvent for TLC. *)
EXTENDS PosixEvent, TLC

\* A thread that may wake by itself is not like one that may not.
Symmetry == Permutations(Threads \ Spurious) \cup Permutations(Posters)
=============================================================================
