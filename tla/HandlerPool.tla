------------------------------ MODULE HandlerPool ------------------------------
(***************************************************************************)
(* What an io_service promises about handlers, boost/asio/io_service.hpp,  *)
(* whatever its threads do to divide the work: an operation that is        *)
(* submitted is called at most once, "only by a thread that is currently   *)
(* calling" run() or a like function, never after stop(), and is destroyed *)
(* without a call only with the io_service itself.                         *)
(***************************************************************************)
CONSTANTS Threads, Ops, NoOp

VARIABLES
    stage,      \* per operation: "new", "waiting", "called", "over" or "destroyed"
    calling,    \* per thread, the operation whose handler it calls, or NoOp
    inside,     \* the threads in run(), run_one(), poll() or poll_one()
    stopped,
    alive       \* the io_service has not been destroyed

pvars == <<stage, calling, inside, stopped, alive>>

Init == /\ stage = [o \in Ops |-> "new"]
        /\ calling = [t \in Threads |-> NoOp]
        /\ inside = {}
        /\ stopped = FALSE
        /\ alive = TRUE

Submit(o) == /\ alive /\ stage[o] = "new"
             /\ stage' = [stage EXCEPT ![o] = "waiting"]
             /\ UNCHANGED <<calling, inside, stopped, alive>>

\* A thread joins the pool, or leaves it; it does not leave from a handler.
Join(t) == /\ alive /\ t \notin inside
           /\ inside' = inside \cup {t}
           /\ UNCHANGED <<stage, calling, stopped, alive>>

Leave(t) == /\ t \in inside /\ calling[t] = NoOp
            /\ inside' = inside \ {t}
            /\ UNCHANGED <<stage, calling, stopped, alive>>

Begin(t, o) == /\ t \in inside /\ calling[t] = NoOp
               /\ stage[o] = "waiting" /\ ~stopped
               /\ stage' = [stage EXCEPT ![o] = "called"]
               /\ calling' = [calling EXCEPT ![t] = o]
               /\ UNCHANGED <<inside, stopped, alive>>

End(t) == /\ calling[t] # NoOp
          /\ stage' = [stage EXCEPT ![calling[t]] = "over"]
          /\ calling' = [calling EXCEPT ![t] = NoOp]
          /\ UNCHANGED <<inside, stopped, alive>>

\* The stop() for lack of work may come with the return of the thread that
\* saw it.
Stop == /\ stopped' = TRUE
        /\ \/ UNCHANGED inside
           \/ \E t \in inside : calling[t] = NoOp /\ inside' = inside \ {t}
        /\ UNCHANGED <<stage, calling, alive>>

Reset == /\ inside = {} /\ stopped' = FALSE
         /\ UNCHANGED <<stage, calling, inside, alive>>

Destroy == /\ alive /\ inside = {}
           /\ alive' = FALSE
           /\ stage' = [o \in Ops |-> IF stage[o] = "waiting" THEN "destroyed"
                                      ELSE stage[o]]
           /\ UNCHANGED <<calling, inside, stopped>>

Next == \/ \E o \in Ops : Submit(o)
        \/ \E t \in Threads : Join(t) \/ Leave(t) \/ End(t)
        \/ \E t \in Threads, o \in Ops : Begin(t, o)
        \/ Stop \/ Reset \/ Destroy

Spec == Init /\ [][Next]_pvars
=============================================================================
