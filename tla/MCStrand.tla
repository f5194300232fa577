------------------------------- MODULE MCStrand -------------------------------
(* Instances of Strand for TLC. *)
EXTENDS Strand, TLC
=============================================================================
