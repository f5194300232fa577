----------------------------- MODULE ReactorTimers -----------------------------
(***************************************************************************)
(* Deadline timers: detail/deadline_timer_service.hpp, schedule_timer and  *)
(* cancel_timer of impl/epoll_reactor.hpp, the timer_queue_set and what    *)
(* epoll_reactor::run does for it (impl/epoll_reactor.ipp), with a timerfd *)
(* or, without one, with the timeout of epoll_wait and the interrupter.    *)
(*                                                                         *)
(* One thread at a time is in run (TaskIoService); others start, cancel    *)
(* and reset timers meanwhile.  A region under mutex_ is one action.       *)
(***************************************************************************)
EXTENDS TimerHeap, FiniteSetsExt

CONSTANTS
    Ops,
    Queues,     \* one per timer service of the io_service
    Home,       \* per timer, its queue
    Msec,       \* ticks of the clock per millisecond
    Horizon,    \* five minutes, in ticks
    MaxTime,    \* bound: the clock stops there
    Expiries,   \* bound: the times that the program sets timers to, but for Never
    MaxAdjust,  \* bound: how often somebody sets the clock
    NotSet      \* the expiry of a new timer

ASSUME TimerAssumption ==
    /\ Home \in [Timers -> Queues]
    /\ Msec \in Nat \ {0} /\ Horizon \in Nat \ {0}
    /\ MaxTime \in Nat /\ MaxAdjust \in Nat /\ Expiries \subseteq 0..MaxTime

Times == 0..MaxTime

VARIABLES
    timer_fd_,  \* whether the kernel has timerfds and the reactor so has one
    now, adjusted,
    alive,      \* the timers constructed and not destroyed
    expiry, might_have_pending_waits, op_queue_,    \* per timer
    timer_queues_,  \* the queues in the set
    queue,      \* per queue
    result,     \* per operation: new, waiting, ok, aborted, destroyed
    shutdown_,
    pc,         \* the reactor: out, wait (in epoll_wait), check (the timers)
    timeout,    \* ticks until epoll_wait times out
    armed,      \* ticks until the timerfd is readable
    edge        \* the interrupter has an edge that epoll_wait has not returned

system == <<timer_fd_, now, adjusted>>
timers == <<alive, expiry, might_have_pending_waits>>
waits == <<op_queue_, queue, result>>
reactor == <<pc, timeout, armed, edge>>
vars == <<system, timers, waits, timer_queues_, shutdown_, reactor>>

Init ==
    /\ timer_fd_ \in BOOLEAN /\ now = 0 /\ adjusted = 0
    /\ alive = Timers
    /\ expiry = [t \in Timers |-> NotSet]
    /\ might_have_pending_waits = [t \in Timers |-> FALSE]
    /\ op_queue_ = [t \in Timers |-> <<>>]
    /\ timer_queues_ = {}
    /\ queue = [k \in Queues |-> EmptyQueue]
    /\ result = [o \in Ops |-> "new"]
    /\ shutdown_ = FALSE
    /\ pc = "out" /\ timeout = Never /\ armed = Never /\ edge = TRUE

-----------------------------------------------------------------------------
(* Timeouts.                                                               *)

\* timer_queue_set::wait_duration over the queues of a function q.
WaitTicks(q) == Min({WaitDuration(q[k], now, Horizon) : k \in timer_queues_} \cup {Horizon})

\* Names that end in a letter after an underscore are variants: each is a
\* mistake that one of the properties below finds out.
MsecTimeout_A(d) == (d \div Msec) * Msec

\* wait_duration_msec: whole milliseconds, but a wait does not become none.
MsecTimeout(d) == IF d = 0 THEN 0 ELSE IF d < Msec THEN Msec ELSE (d \div Msec) * Msec

TimerfdValue_A(d) == IF d = 0 THEN Never ELSE d     \* zero disarms a timerfd
\* get_timeout(itimerspec&): a time in the past if a timer is due.
TimerfdValue(d) == d

UpdateTimeout(q) ==
    IF timer_fd_ THEN armed' = TimerfdValue(WaitTicks(q)) /\ UNCHANGED edge
                  ELSE edge' = TRUE /\ UNCHANGED armed

Less(ticks) == IF ticks = Never THEN Never ELSE IF ticks = 0 THEN 0 ELSE ticks - 1

Tick ==
    /\ now' = IF now < MaxTime THEN now + 1 ELSE now
    /\ timeout' = Less(timeout) /\ armed' = Less(armed)
    /\ UNCHANGED <<timer_fd_, adjusted, timers, waits, timer_queues_, shutdown_, pc, edge>>

\* The system's clock is set; timeouts run on the monotonic one.
AdjustClock ==
    /\ adjusted < MaxAdjust
    /\ adjusted' = adjusted + 1
    /\ now' \in Times
    /\ UNCHANGED <<timer_fd_, timers, waits, timer_queues_, shutdown_, reactor>>

-----------------------------------------------------------------------------
(* The reactor.                                                            *)

RunBegin(block) ==
    /\ pc = "out" /\ ~shutdown_
    /\ pc' = "wait"
    /\ timeout' = IF ~block THEN 0 ELSE IF timer_fd_ THEN Never
                  ELSE MsecTimeout(WaitTicks(queue))
    /\ UNCHANGED <<system, timers, waits, timer_queues_, shutdown_, armed, edge>>

\* epoll_wait returns.  The timerfd, unlike the interrupter, is level-triggered.
EpollReturn ==
    /\ pc = "wait" /\ (timeout = 0 \/ edge \/ armed = 0)
    /\ edge' = FALSE /\ timeout' = Never
    /\ pc' = IF ~timer_fd_ \/ armed = 0 THEN "check" ELSE "out"
    /\ UNCHANGED <<system, timers, waits, timer_queues_, shutdown_, armed>>

\* A signal interrupts it, or only other descriptors are ready.
EpollOther ==
    /\ pc = "wait" /\ ~edge /\ armed # 0
    /\ timeout' = Never
    /\ pc' = IF ~timer_fd_ THEN "check" ELSE "out"
    /\ UNCHANGED <<system, timers, waits, timer_queues_, shutdown_, armed, edge>>

Rearm(q) == IF timer_fd_ THEN armed' = TimerfdValue(WaitTicks(q)) ELSE UNCHANGED armed

\* get_ready_timers of all queues; then the timerfd is set again.
CheckTimers ==
    LET fired == {t \in Timers : t \in queue[Home[t]].timers_ \ queue'[Home[t]].timers_}
    IN  /\ pc = "check"
        /\ pc' = "out"
        /\ queue' = [k \in Queues |-> IF k \in timer_queues_ THEN AfterReady(queue[k], now)
                                     ELSE queue[k]]
        /\ op_queue_' = [t \in Timers |-> IF t \in fired THEN <<>> ELSE op_queue_[t]]
        /\ result' = [o \in Ops |-> IF \E t \in fired : o \in ToSet(op_queue_[t])
                                    THEN "ok" ELSE result[o]]
        /\ Rearm(queue')
        /\ UNCHANGED <<system, timers, timer_queues_, shutdown_, timeout, edge>>

-----------------------------------------------------------------------------
(* The timer services and the program.                                     *)

AddTimerQueue(k) ==
    /\ k \notin timer_queues_ /\ ~shutdown_
    /\ timer_queues_' = timer_queues_ \cup {k}
    /\ UNCHANGED <<system, timers, waits, shutdown_, reactor>>

\* The destructor of a service that the registry has not used.
RemoveTimerQueue(k) ==
    /\ k \in timer_queues_ /\ \A t \in Timers : Home[t] = k => expiry[t] = NotSet
    /\ timer_queues_' = timer_queues_ \ {k}
    /\ UNCHANGED <<system, timers, waits, shutdown_, reactor>>

Usable(t) == t \in alive /\ Home[t] \in timer_queues_

\* cancel_timer: up to max operations of the timer are aborted, oldest first.
CancelTimer(t, max) ==
    LET k == Home[t]
        n == Min({max, Len(op_queue_[t])})
        ops == SubSeq(op_queue_[t], 1, n)
    IN  /\ op_queue_' = [op_queue_ EXCEPT ![t] = SubSeq(@, n + 1, Len(@))]
        /\ result' = [o \in Ops |-> IF o \in ToSet(ops) THEN "aborted" ELSE result[o]]
        /\ queue' = IF t \in queue[k].timers_ /\ op_queue_'[t] = <<>>
                    THEN [queue EXCEPT ![k] = RemoveTimer(@, t)] ELSE queue

\* deadline_timer_service::cancel.
CancelAll(t) ==
    /\ IF might_have_pending_waits[t] THEN CancelTimer(t, Len(op_queue_[t]))
       ELSE UNCHANGED waits
    /\ might_have_pending_waits' = [might_have_pending_waits EXCEPT ![t] = FALSE]

Cancel(t) ==
    /\ Usable(t)
    /\ CancelAll(t)
    /\ UNCHANGED <<system, alive, expiry, timer_queues_, shutdown_, reactor>>

PendingAfterOne_A(t) == FALSE
PendingAfterOne(t) == op_queue_[t] # <<>>

CancelOne(t) ==
    /\ Usable(t) /\ might_have_pending_waits[t]
    /\ CancelTimer(t, 1)
    /\ might_have_pending_waits' =
          [might_have_pending_waits EXCEPT ![t] = PendingAfterOne(t)]
    /\ UNCHANGED <<system, alive, expiry, timer_queues_, shutdown_, reactor>>

ExpiresAt_A(t, time) ==     \* the waits go on
    /\ Usable(t)
    /\ expiry' = [expiry EXCEPT ![t] = time]
    /\ UNCHANGED <<system, alive, might_have_pending_waits, waits, timer_queues_,
                   shutdown_, reactor>>

\* expires_at and expires_from_now: cancel, then set.
ExpiresAt(t, time) ==
    /\ Usable(t)
    /\ CancelAll(t)
    /\ expiry' = [expiry EXCEPT ![t] = time]
    /\ UNCHANGED <<system, alive, timer_queues_, shutdown_, reactor>>

Destroy(t) ==
    /\ Usable(t)
    /\ CancelAll(t)
    /\ alive' = alive \ {t}
    /\ UNCHANGED <<system, expiry, timer_queues_, shutdown_, reactor>>

First_A(q, t) == FALSE
\* enqueue_timer's result: the timer is new and the first to expire.
First(q, t) == op_queue_[t] = <<>> /\ q.heap_index_[t] = 0

\* async_wait and schedule_timer.
AsyncWait(t, o) ==
    LET k == Home[t]
        q == [queue EXCEPT ![k] = EnqueueTimer(@, expiry[t], t)]
    IN  /\ Usable(t) /\ expiry[t] # NotSet /\ result[o] = "new"
        /\ might_have_pending_waits' = [might_have_pending_waits EXCEPT ![t] = TRUE]
        /\ IF shutdown_
           THEN /\ result' = [result EXCEPT ![o] = "destroyed"]
                /\ UNCHANGED <<op_queue_, queue, armed, edge>>
           ELSE /\ result' = [result EXCEPT ![o] = "waiting"]
                /\ op_queue_' = [op_queue_ EXCEPT ![t] = Append(@, o)]
                /\ queue' = q
                /\ IF First(q[k], t) THEN UpdateTimeout(q) ELSE UNCHANGED <<armed, edge>>
        /\ UNCHANGED <<system, alive, expiry, timer_queues_, shutdown_, pc, timeout>>

\* shutdown_service of the reactor, with no thread in run: get_all_timers.
Shutdown ==
    /\ pc = "out" /\ ~shutdown_
    /\ shutdown_' = TRUE
    /\ queue' = [k \in Queues |-> IF k \in timer_queues_ THEN EmptyQueue ELSE queue[k]]
    /\ op_queue_' = [t \in Timers |-> <<>>]
    /\ result' = [o \in Ops |-> IF result[o] = "waiting" THEN "destroyed" ELSE result[o]]
    /\ UNCHANGED <<system, timers, timer_queues_, reactor>>

-----------------------------------------------------------------------------
Next == \/ Tick \/ AdjustClock \/ Shutdown
        \/ \E block \in BOOLEAN : RunBegin(block)
        \/ EpollReturn \/ EpollOther \/ CheckTimers
        \/ \E k \in Queues : AddTimerQueue(k) \/ RemoveTimerQueue(k)
        \/ \E t \in Timers : \/ Cancel(t) \/ CancelOne(t) \/ Destroy(t)
                             \/ \E time \in Expiries \cup {Never} : ExpiresAt(t, time)
                             \/ \E o \in Ops : AsyncWait(t, o)

Spec == Init /\ [][Next]_vars

\* Time goes on, some thread of the pool comes back to the reactor, and
\* epoll_wait returns when it has something.
LiveSpec == /\ Spec /\ WF_vars(Tick)
            /\ WF_vars(RunBegin(TRUE)) /\ WF_vars(EpollReturn) /\ WF_vars(CheckTimers)

-----------------------------------------------------------------------------
Ticks == Nat \cup {Never}

TypeOK ==
    /\ timer_fd_ \in BOOLEAN /\ now \in Times /\ adjusted \in 0..MaxAdjust
    /\ alive \subseteq Timers /\ timer_queues_ \subseteq Queues
    /\ expiry \in [Timers -> Times \cup {Never, NotSet}]
    /\ might_have_pending_waits \in [Timers -> BOOLEAN]
    /\ op_queue_ \in [Timers -> Seq(Ops)]
    /\ \A t \in Timers : \A o \in ToSet(op_queue_[t]) : result[o] = "waiting"
    /\ result \in [Ops -> {"new", "waiting", "ok", "aborted", "destroyed"}]
    /\ pc \in {"out", "wait", "check"} /\ shutdown_ \in BOOLEAN /\ edge \in BOOLEAN
    /\ timeout \in Ticks /\ armed \in Ticks

\* cancel trusts might_have_pending_waits: a timer that the flag says has no
\* waits has none, so one that is destroyed is in no list and in no heap.
FlagCoversWaits ==
    \A t \in Timers :
        t \in queue[Home[t]].timers_ => might_have_pending_waits[t] /\ t \in alive

\* A timer is queued while it has operations, at the time it is set to.
QueuedAtExpiry ==
    \A t \in Timers :
        LET q == queue[Home[t]]
        IN  /\ t \in q.timers_ <=> op_queue_[t] # <<>>
            /\ t \in q.timers_ =>
                  IF expiry[t] = Never THEN q.heap_index_[t] = Never
                  ELSE /\ q.heap_index_[t] # Never
                       /\ At(q, q.heap_index_[t]) = Entry(expiry[t], t)

\* Timers and queues agree: the queue has exactly the timers with waits, where
\* they are set to, and cancel and the destructor never miss one.
WaitsCovered == TypeOK /\ FlagCoversWaits /\ QueuedAtExpiry

\* However waits race the reactor, it does not sleep longer than until the
\* first timer expires (rounded up to a millisecond without timerfd).  Once the
\* clock was set, that is not known; then it sleeps five minutes at most.
NeverOversleeps ==
    ~shutdown_ /\ (\E k \in timer_queues_ : Size(queue[k]) > 0) =>
        LET longest == IF adjusted = 0 THEN WaitTicks(queue) ELSE Horizon
        IN  IF timer_fd_ THEN armed # Never /\ armed <= longest
            ELSE pc = "wait" => edge \/ timeout < longest + Msec

\* "A deadline timer is ... expired or not expired": no wait completes before
\* the time its timer is set to.
NeverEarly ==
    [][\A t \in Timers : \A o \in ToSet(op_queue_[t]) :
          result'[o] = "ok" => expiry[t] \in 0..now]_vars

\* A thread that may block does not spin while no timer is due.
NoBusyWait ==
    [][RunBegin(TRUE) /\ timeout' = 0 =>
          \E t \in Timers : t \in queue[Home[t]].timers_ /\ expiry[t] \in 0..now]_vars

\* Every wait ends that is not for ever: also if the clock is set meanwhile, and
\* if the timer is further off than the five minutes the reactor sleeps at most.
WaitsEnd == \A o \in Ops :
    (result[o] = "waiting" /\ \E t \in Timers : o \in ToSet(op_queue_[t]) /\ expiry[t] # Never)
        ~> result[o] # "waiting"
=============================================================================
