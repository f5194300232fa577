---------------------------- MODULE MCEpollReactor ----------------------------
(* Instances of EpollReactor for TLC. *)
EXTENDS EpollReactor, TLC

CONSTANTS p1, p2, f1, f2

TwoStates == <<p1, p2>>
FileSymmetry == Permutations(Files)
=============================================================================
