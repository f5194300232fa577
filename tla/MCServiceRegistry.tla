--------------------------- MODULE MCServiceRegistry ---------------------------
(* Instances of ServiceRegistry for TLC: a scheduler, a reactor that needs *)
(* it and the signal sets, which need both.                                *)
EXTENDS ServiceRegistry, TLC

CONSTANTS scheduler, reactor, signals

UsesOfAsio == (scheduler :> {} @@ reactor :> {scheduler}
               @@ signals :> {scheduler, reactor})
===============================================================================
