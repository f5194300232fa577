---------------------------- MODULE MCSignalService ----------------------------
(* The instance of SignalService for TLC: two users of one io_service, who *)
(* may both construct the service, and one of another.                     *)
EXTENDS SignalService, TLC

CONSTANTS c1, c2, u1, u2, u3

TwoContexts == (u1 :> c1 @@ u2 :> c1 @@ u3 :> c2)
=============================================================================
