------------------------------- MODULE TimerBag -------------------------------
(***************************************************************************)
(* What a timer_queue promises the reactor: it knows the time of each      *)
(* timer, gives back those that are due and no other, and says of a new    *)
(* timer whether it is the first to expire.                                *)
(***************************************************************************)
EXTENDS Naturals

CONSTANTS Timers, Times, Never, NotQueued

VARIABLES
    due,        \* per timer, its time
    earliest    \* what the last call of enqueue_timer returned

Queued == {t \in Timers : due[t] # NotQueued}

Init == due = [t \in Timers |-> NotQueued] /\ earliest = FALSE

Add(t, time) ==
    /\ t \notin Queued
    /\ due' = [due EXCEPT ![t] = time]
    /\ earliest' = (/\ time # Never
                    /\ \A u \in Queued : due[u] = Never \/ time < due[u])

\* A further operation of a timer never comes first.
Again(t) == t \in Queued /\ earliest' = FALSE /\ UNCHANGED due

Remove(T) == due' = [t \in Timers |-> IF t \in T THEN NotQueued ELSE due[t]]

Drop(t) == t \in Queued /\ Remove({t}) /\ UNCHANGED earliest

Expire(now) ==
    /\ Remove({t \in Queued : due[t] # Never /\ due[t] <= now})
    /\ UNCHANGED earliest

Clear == Remove(Timers) /\ UNCHANGED earliest

Next == \/ \E t \in Timers : \/ \E time \in Times \cup {Never} : Add(t, time)
                             \/ Again(t) \/ Drop(t)
        \/ \E now \in Times : Expire(now)
        \/ Clear

Spec == Init /\ [][Next]_<<due, earliest>>
=============================================================================
