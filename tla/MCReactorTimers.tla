---------------------------- MODULE MCReactorTimers ----------------------------
(* The instance of ReactorTimers for TLC: two timers of one service, in    *)
(* one heap.                                                               *)
EXTENDS ReactorTimers, TLC

CONSTANTS t1, t2, k1

OneService == (t1 :> k1 @@ t2 :> k1)
=============================================================================
