--------------------------- MODULE MCTaskIoService ---------------------------
(* Instances of TaskIoService for TLC. *)
EXTENDS TaskIoService

\* Threads and operations are interchangeable in every safety property.
PoolSymmetry == Permutations(Threads) \cup Permutations(Ops)
=============================================================================
