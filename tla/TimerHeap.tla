------------------------------- MODULE TimerHeap -------------------------------
(***************************************************************************)
(* The data structure of detail/timer_queue.hpp: a binary heap of expiry   *)
(* times in a vector, the index of each timer in it, and the list of the   *)
(* timers that have waits.  Indices are those of the code, from 0.         *)
(***************************************************************************)
EXTENDS Integers, Sequences, SequencesExt

CONSTANTS
    Timers,     \* the per_timer_data of the program's timers
    Never       \* positive infinity: a time, an index and a timeout

ASSUME NeverAssumption == Never \notin Int

\* The list is the set of its timers; the index of a timer that is not in the
\* list is never read.
Queue(heap, index, timers) ==
    [heap_ |-> heap, heap_index_ |-> index, timers_ |-> timers]
EmptyQueue == Queue(<<>>, <<>>, {})

Entry(time, t) == [time_ |-> time, timer_ |-> t]
Size(q) == Len(q.heap_)
At(q, i) == q.heap_[i + 1]
Before(q, i, j) == At(q, i).time_ < At(q, j).time_

Parent(i) == (i - 1) \div 2

SwapHeap(q, i, j) ==
    Queue([q.heap_ EXCEPT ![i + 1] = At(q, j), ![j + 1] = At(q, i)],
          [q.heap_index_ EXCEPT ![At(q, j).timer_] = i, ![At(q, i).timer_] = j],
          q.timers_)

\* One turn of each loop; a loop that has ended goes on with empty turns.
UpStep(s) ==
    IF s.i > 0 /\ Before(s.q, s.i, Parent(s.i))
    THEN [q |-> SwapHeap(s.q, s.i, Parent(s.i)), i |-> Parent(s.i)] ELSE s

MinChild(q, i) ==
    LET c == 2 * i + 1 IN IF c + 1 = Size(q) \/ Before(q, c, c + 1) THEN c ELSE c + 1

DownStep(s) ==
    IF 2 * s.i + 1 >= Size(s.q) \/ Before(s.q, s.i, MinChild(s.q, s.i)) THEN s
    ELSE [q |-> SwapHeap(s.q, s.i, MinChild(s.q, s.i)), i |-> MinChild(s.q, s.i)]

\* up_heap and down_heap: an entry passes each level once at the most.
UpHeap(q, i) ==
    LET after[n \in 0..i] == IF n = 0 THEN [q |-> q, i |-> i] ELSE UpStep(after[n - 1])
    IN  after[i].q

DownHeap(q, i) ==
    LET after[n \in 0..Size(q)] ==
            IF n = 0 THEN [q |-> q, i |-> i] ELSE DownStep(after[n - 1])
    IN  after[Size(q)].q

\* The part of enqueue_timer for a timer that is not in the list.
EnqueueTimer(q, time, t) ==
    LET i == IF time = Never THEN Never ELSE Size(q)
        r == Queue(IF time = Never THEN q.heap_ ELSE Append(q.heap_, Entry(time, t)),
                   [u \in q.timers_ \cup {t} |-> IF u = t THEN i ELSE q.heap_index_[u]],
                   q.timers_ \cup {t})
    IN  IF t \in q.timers_ THEN q ELSE IF time = Never THEN r ELSE UpHeap(r, i)

\* Names that end in a letter after an underscore are variants: each is a
\* mistake that one of the properties finds out.
Repair_A(q, i) == DownHeap(q, i)    \* what comes from the end only goes down

\* The entry that has taken the place of a removed one goes up or down.
Repair(q, i) == IF i > 0 /\ Before(q, i, Parent(i)) THEN UpHeap(q, i) ELSE DownHeap(q, i)

\* The last entry goes where the timer's was.  The timer is out of the list
\* before the repair, which does not look there.
RemoveTimer(q, t) ==
    LET i == q.heap_index_[t]
        last == Size(q) - 1
        inside == i # Never /\ i # last
        p == IF inside THEN SwapHeap(q, i, last) ELSE q
        rest == q.timers_ \ {t}
        r == Queue(IF i = Never THEN p.heap_ ELSE Front(p.heap_),
                   [u \in rest |-> p.heap_index_[u]], rest)
    IN  IF inside THEN Repair(r, i) ELSE r

ReadyStep(q, now) ==
    IF Size(q) = 0 \/ now < At(q, 0).time_ THEN q ELSE RemoveTimer(q, At(q, 0).timer_)

\* get_ready_timers: the timers that leave the list are ready.
AfterReady(q, now) ==
    LET after[n \in 0..Size(q)] == IF n = 0 THEN q ELSE ReadyStep(after[n - 1], now)
    IN  after[Size(q)]

\* What wait_duration_usec computes, in ticks.
WaitDuration(q, now, max) ==
    IF Size(q) = 0 THEN max
    ELSE IF At(q, 0).time_ <= now THEN 0
    ELSE IF At(q, 0).time_ - now > max THEN max ELSE At(q, 0).time_ - now
=============================================================================
