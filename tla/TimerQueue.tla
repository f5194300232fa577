------------------------------ MODULE TimerQueue ------------------------------
(***************************************************************************)
(* One timer_queue under any sequence of calls, detail/timer_queue.hpp.    *)
(* The operations of a timer matter to the heap only in so far as it has   *)
(* some; ReactorTimers models them.  The names differ from those there, so *)
(* that a module may extend both.                                          *)
(***************************************************************************)
EXTENDS TimerHeap

CONSTANTS
    DueTimes,   \* the times that timers are set to
    NotQueued   \* the due time of a timer that is in no list

ASSUME QueueAssumption ==
    DueTimes \subseteq Nat /\ NotQueued \notin Nat \cup {Never}

VARIABLES heap, earliest

queueVars == <<heap, earliest>>

QueueInit == heap = EmptyQueue /\ earliest = FALSE

Earliest_A(q, t) == q.heap_index_[t] = 0    \* also when it was first before
\* enqueue_timer's result for the first operation of a timer.
Earliest(q, t) == t \notin heap.timers_ /\ q.heap_index_[t] = 0

\* enqueue_timer: a new timer, or another operation of one that is queued.
Enqueue(t, time) ==
    /\ heap' = EnqueueTimer(heap, time, t)
    /\ earliest' = Earliest(heap', t)

\* cancel_timer of all operations, or of the last.
Withdraw(t) ==
    /\ t \in heap.timers_
    /\ heap' = RemoveTimer(heap, t)
    /\ UNCHANGED earliest

GetReady(now) == heap' = AfterReady(heap, now) /\ UNCHANGED earliest

GetAll == heap' = EmptyQueue /\ UNCHANGED earliest

QueueNext ==
    \/ \E t \in Timers : \/ \E time \in DueTimes \cup {Never} : Enqueue(t, time)
                         \/ Withdraw(t)
    \/ \E now \in DueTimes : GetReady(now)
    \/ GetAll

QueueSpec == QueueInit /\ [][QueueNext]_queueVars

-----------------------------------------------------------------------------
Positions == 0..(Size(heap) - 1)

\* The vector is a heap: nobody expires before its parent, whatever was
\* removed from its middle.
HeapOrdered == \A i \in Positions : i > 0 => ~Before(heap, i, Parent(i))

\* heap_index_ leads from each timer of the list to its own entry, or is the
\* greatest number for one that never expires; the heap has no other entry.
IndicesExact ==
    /\ \A t \in heap.timers_ :
          heap.heap_index_[t] # Never =>
              /\ heap.heap_index_[t] \in Positions
              /\ At(heap, heap.heap_index_[t]).timer_ = t
    /\ \A i \in Positions : /\ At(heap, i).timer_ \in heap.timers_
                            /\ heap.heap_index_[At(heap, i).timer_] = i

\* remove_timer and enqueue_timer leave a heap whose timers know their places.
HeapSound == HeapOrdered /\ IndicesExact

DueTime(t) ==
    IF t \notin heap.timers_ THEN NotQueued
    ELSE LET E == {e \in ToSet(heap.heap_) : e.timer_ = t}
         IN  IF E = {} THEN Never ELSE (CHOOSE e \in E : TRUE).time_

Bag == INSTANCE TimerBag WITH Times <- DueTimes, due <- [t \in Timers |-> DueTime(t)]

\* enqueue_timer, cancel_timer, get_ready_timers and get_all_timers do to the
\* times of the timers what TimerBag says, and enqueue_timer tells the reactor
\* when its timeout is out of date.
QueueIsBag == Bag!Spec
=============================================================================
