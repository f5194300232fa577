------------------------------ MODULE MCSignalSet ------------------------------
(* Instances of SignalSet for TLC: two sets of one service, or a set of    *)
(* each of two services.                                                   *)
EXTENDS SignalSet, TLC

CONSTANTS s1, s2, x1, x2

OneHome == (x1 :> s1 @@ x2 :> s1)
TwoHomes == (x1 :> s1 @@ x2 :> s2)
===============================================================================
