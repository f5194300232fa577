---------------------------- MODULE TaskIoService ----------------------------
(***************************************************************************)
(* The scheduler behind boost::asio::io_service on POSIX systems,          *)
(* boost/asio/detail/task_io_service.{hpp,ipp}.                            *)
(*                                                                         *)
(* A pool of threads calls run(), run_one(), poll() or poll_one().  The    *)
(* queue op_queue_ holds handlers that are ready to be called and one      *)
(* marker, the task operation: the thread that pops the marker runs the    *)
(* reactor (epoll_wait), every other thread calls handlers or sleeps on an *)
(* event of its own.  A region of the code that runs under mutex_ is one   *)
(* action; what the code does outside the mutex (the test of the work      *)
(* count, the reactor, the handlers, work_finished) is an action of its    *)
(* own.  The reactor is abstracted to the set of operations it waits for;  *)
(* an operation completes at most once.                                    *)
(***************************************************************************)
EXTENDS Integers, Sequences, FiniteSets, SequencesExt

CONSTANTS
    Threads,      \* threads of the program
    Ops,          \* completion handlers, each submitted at most once
    Calls,        \* the entry points this program uses
    MaxUserWork,  \* bound on the io_service::work objects alive
    NoThread,     \* mutex_ is free
    NoOp,         \* no handler is being called
    TaskOp        \* &task_operation_, the reactor's place in the queue

EntryPoints == {"run", "run_one", "poll", "poll_one"}

ASSUME ConstantsAssumption ==
    /\ Calls \subseteq EntryPoints
    /\ MaxUserWork \in Nat
    /\ NoThread \notin Threads
    /\ NoOp \notin Ops
    /\ TaskOp \notin Ops

ASSUME FiniteAssumption == IsFiniteSet(Threads) /\ IsFiniteSet(Ops)

VARIABLES
    \* members of class task_io_service
    mutex_,             \* the thread that holds it, or NoThread
    task_,              \* task_ # 0
    task_interrupted_,
    outstanding_work_,
    op_queue_,
    stopped_,
    shutdown_,
    first_idle_thread_, \* the linked list of idle_thread_info, head first
    signalled_,         \* per thread: its wakeup_event is signalled
    \* the stack of each thread
    pc,
    call,               \* the entry point the thread is in, or "none"
    task_has_run,       \* local of do_one
    cur,                \* the operation whose handler the thread is calling
    local_ops,          \* the op_queue on the stack: completed_ops, or the
                        \* operations about to be pushed by a post
    \* the reactor and the program around the service
    pending,            \* operations the reactor waits for
    ready,              \* those of them whose event has occurred
    wakeup,             \* an unconsumed edge of the reactor's interrupter
    user_work,          \* number of io_service::work objects alive
    fresh,              \* operations not submitted yet
    done,               \* operations whose handler has been called
    destroyed           \* operations destroyed without a call

flags     == <<task_, stopped_, shutdown_>>
idle      == <<first_idle_thread_, signalled_>>
interrupt == <<task_interrupted_, wakeup>>
reactor   == <<pending, ready>>
history   == <<fresh, done, destroyed>>

svc  == <<mutex_, flags, task_interrupted_, outstanding_work_, op_queue_, idle>>
stk  == <<pc, call, task_has_run, cur, local_ops>>
env  == <<reactor, wakeup, user_work, history>>
vars == <<svc, stk, env>>

-----------------------------------------------------------------------------
(* Shorthands.                                                             *)

PCs == {"out", "enter", "loop", "idle", "task_wait", "task_poll", "cleanup",
        "handler", "posting", "finish", "stopping"}

Polling(t) == call[t] \in {"poll", "poll_one"}
Looping(t) == call[t] \in {"run", "poll"}

\* The thread may make calls of its own: it is outside the service, or in the
\* body of a handler.
Free(t) == pc[t] \in {"out", "handler"}

\* mutex::scoped_lock around a whole function: it finds the mutex free.
Locked == mutex_ = NoThread

Goto(t, label) == pc' = [pc EXCEPT ![t] = label]

\* The pc at which a thread resumes once a nested call (a post, or the stop()
\* of work_finished) is over: in its handler, at the next round of the for
\* loop of run() and poll(), or outside.
Resume(t) == IF cur[t] # NoOp  THEN "handler"
             ELSE IF Looping(t) THEN "enter"
             ELSE "out"

\* The thread returns from run(), run_one(), poll() or poll_one().
Leave(t) == /\ Goto(t, "out")
            /\ call' = [call EXCEPT ![t] = "none"]
            /\ task_has_run' = [task_has_run EXCEPT ![t] = FALSE]

-----------------------------------------------------------------------------
(* The three private wake-up functions of the service.                     *)

\* Variants of the wake-up functions and of a few steps are stated beside them
\* (names that end in a letter after an underscore): each is a mistake that one
\* of the properties below finds out.
WakeOneIdleThread_A ==  \* the thread is signalled and not unlinked
    IF first_idle_thread_ = <<>>
    THEN UNCHANGED idle
    ELSE /\ UNCHANGED first_idle_thread_
         /\ signalled_' = [signalled_ EXCEPT ![Head(first_idle_thread_)] = TRUE]

\* wake_one_idle_thread_and_unlock, without the unlock
WakeOneIdleThread ==
    IF first_idle_thread_ = <<>>
    THEN UNCHANGED idle
    ELSE /\ first_idle_thread_' = Tail(first_idle_thread_)
         /\ signalled_' = [signalled_ EXCEPT ![Head(first_idle_thread_)] = TRUE]

InterruptTask ==
    IF ~task_interrupted_ /\ task_
    THEN task_interrupted_' = TRUE /\ wakeup' = TRUE
    ELSE UNCHANGED interrupt

WakeOneThread_A ==  \* the task is never interrupted
    WakeOneIdleThread /\ UNCHANGED interrupt

WakeOneThread_B ==  \* an idle thread is never woken
    InterruptTask /\ UNCHANGED idle

\* wake_one_thread_and_unlock, without the unlock
WakeOneThread ==
    /\ WakeOneIdleThread
    /\ IF first_idle_thread_ = <<>>
       THEN InterruptTask
       ELSE UNCHANGED interrupt

\* the while loop of stop_all_threads
WakeAllIdleThreads ==
    /\ first_idle_thread_' = <<>>
    /\ signalled_' = [u \in Threads |->
                        signalled_[u] \/ u \in ToSet(first_idle_thread_)]

StopAllThreads_A ==  \* one idle thread is woken
    stopped_' = TRUE /\ WakeOneIdleThread /\ InterruptTask

StopAllThreads_B ==  \* the task is not interrupted
    stopped_' = TRUE /\ WakeAllIdleThreads /\ UNCHANGED interrupt

StopAllThreads ==
    stopped_' = TRUE /\ WakeAllIdleThreads /\ InterruptTask

-----------------------------------------------------------------------------
(* The count of work.                                                      *)

WorkStarted == outstanding_work_' = outstanding_work_ + 1

WorkFinished_A(t, next) ==  \* one unit of work is left when it stops
    /\ outstanding_work_' = outstanding_work_ - 1
    /\ Goto(t, IF outstanding_work_ <= 2 THEN "stopping" ELSE next)

WorkFinished_B(t, next) ==  \* the last decrement does not stop the service
    /\ outstanding_work_' = outstanding_work_ - 1
    /\ Goto(t, next)

WorkFinished_C(t, next) ==  \* the work is never counted down
    /\ UNCHANGED outstanding_work_
    /\ Goto(t, next)

\* work_finished: the decrement, and stop() when it reaches zero
WorkFinished(t, next) ==
    /\ outstanding_work_' = outstanding_work_ - 1
    /\ Goto(t, IF outstanding_work_ = 1 THEN "stopping" ELSE next)

-----------------------------------------------------------------------------
(* Entry points of the program.                                            *)

\* run, run_one, poll, poll_one: the test of outstanding_work_ is made
\* outside the mutex, and stop() takes the mutex in a later step.
Enter(t, c) ==
    /\ pc[t] = "out"
    /\ ~shutdown_
    /\ IF outstanding_work_ = 0
       THEN Goto(t, "stopping") /\ UNCHANGED call
       ELSE Goto(t, "enter") /\ call' = [call EXCEPT ![t] = c]
    /\ UNCHANGED <<svc, env, task_has_run, cur, local_ops>>

\* stop(), called by the program
Stop(t) ==
    /\ Free(t) /\ Locked /\ ~shutdown_
    /\ StopAllThreads
    /\ UNCHANGED <<stk, reactor, history, mutex_, task_, outstanding_work_,
                   op_queue_, shutdown_, user_work>>

\* reset(); it must not be called during an unfinished run() or poll().
Reset(t) ==
    /\ pc[t] = "out" /\ Locked /\ ~shutdown_
    /\ \A u \in Threads : call[u] = "none" /\ pc[u] # "stopping"
    /\ stopped_' = FALSE
    /\ UNCHANGED <<stk, env, idle, mutex_, task_, task_interrupted_,
                   outstanding_work_, op_queue_, shutdown_>>

\* post(), and dispatch() outside the pool: post_immediate_completion counts
\* the work, then takes the mutex in post_deferred_completion (PushOps).
Post(t, o) ==
    /\ Free(t) /\ ~shutdown_
    /\ o \in fresh
    /\ fresh' = fresh \ {o}
    /\ WorkStarted
    /\ local_ops' = [local_ops EXCEPT ![t] = <<o>>]
    /\ Goto(t, "posting")
    /\ UNCHANGED <<flags, idle, interrupt, reactor, mutex_, op_queue_, call,
                   task_has_run, cur, user_work, done, destroyed>>

\* post_deferred_completion(s): one thread is woken for the whole batch.
PushOps(t) ==
    /\ pc[t] = "posting" /\ Locked
    /\ op_queue_' = op_queue_ \o local_ops[t]
    /\ local_ops' = [local_ops EXCEPT ![t] = <<>>]
    /\ WakeOneThread
    /\ Goto(t, Resume(t))
    /\ UNCHANGED <<flags, reactor, history, mutex_, outstanding_work_, call,
                   task_has_run, cur, user_work>>

WorkConstruct(t) ==
    /\ Free(t) /\ ~shutdown_
    /\ user_work < MaxUserWork
    /\ user_work' = user_work + 1
    /\ WorkStarted
    /\ UNCHANGED <<stk, flags, idle, interrupt, reactor, history, mutex_,
                   op_queue_>>

WorkDestruct(t) ==
    /\ Free(t) /\ ~shutdown_
    /\ user_work > 0
    /\ user_work' = user_work - 1
    /\ WorkFinished(t, pc[t])
    /\ UNCHANGED <<flags, idle, interrupt, reactor, history, mutex_, op_queue_,
                   call, task_has_run, cur, local_ops>>

\* the stop() of an entry point or of work_finished
StopNoWork(t) ==
    /\ pc[t] = "stopping" /\ Locked
    /\ StopAllThreads
    /\ Goto(t, Resume(t))
    /\ call' = [call EXCEPT ![t] = IF Resume(t) = "out" THEN "none" ELSE @]
    /\ UNCHANGED <<reactor, history, mutex_, task_, outstanding_work_,
                   op_queue_, shutdown_, task_has_run, cur, local_ops,
                   user_work>>

-----------------------------------------------------------------------------
(* do_one: one round of its while loop per action.                         *)

\* lock.lock() of the for loop, then the call of do_one
Lock(t) ==
    /\ pc[t] = "enter" /\ Locked
    /\ mutex_' = t
    /\ Goto(t, "loop")
    /\ task_has_run' = [task_has_run EXCEPT ![t] = FALSE]
    /\ UNCHANGED <<env, flags, idle, task_interrupted_, outstanding_work_,
                   op_queue_, call, cur, local_ops>>

\* the while loop ends, do_one returns 0 and the lock is released
ReturnStopped(t) ==
    /\ pc[t] = "loop" /\ stopped_
    /\ mutex_' = NoThread
    /\ Leave(t)
    /\ UNCHANGED <<env, flags, idle, task_interrupted_, outstanding_work_,
                   op_queue_, cur, local_ops>>

AtFront_A(t, o) == /\ pc[t] = "loop"  \* stopped_ is not tested again
                   /\ op_queue_ # <<>>
                   /\ Head(op_queue_) = o

AtFront(t, o) == /\ pc[t] = "loop" /\ ~stopped_
                 /\ op_queue_ # <<>>
                 /\ Head(op_queue_) = o

\* The front of the queue is the task: this thread runs the reactor, and may
\* block in it only if no handler is left for it.
RunTask(t) ==
    LET rest == Tail(op_queue_)
        more_handlers == rest # <<>>
    IN  /\ AtFront(t, TaskOp)
        /\ ~(task_has_run[t] /\ Polling(t))
        /\ op_queue_' = rest
        /\ task_interrupted_' = (more_handlers \/ Polling(t))
        /\ task_has_run' = [task_has_run EXCEPT ![t] = TRUE]
        /\ IF more_handlers
           THEN WakeOneIdleThread
           ELSE UNCHANGED idle
        /\ mutex_' = NoThread
        /\ Goto(t, IF more_handlers \/ Polling(t) THEN "task_poll" ELSE "task_wait")
        /\ UNCHANGED <<env, flags, outstanding_work_, call, cur, local_ops>>

\* A polling thread that finds the task a second time puts it back and returns.
PollDone(t) ==
    /\ AtFront(t, TaskOp)
    /\ task_has_run[t] /\ Polling(t)
    /\ op_queue_' = Append(Tail(op_queue_), TaskOp)
    /\ task_interrupted_' = TRUE
    /\ mutex_' = NoThread
    /\ Leave(t)
    /\ UNCHANGED <<env, flags, idle, outstanding_work_, cur, local_ops>>

RunHandler(t) ==
    \E o \in Ops :
        /\ AtFront(t, o)
        /\ op_queue_' = Tail(op_queue_)
        /\ cur' = [cur EXCEPT ![t] = o]
        /\ IF Tail(op_queue_) # <<>>
           THEN WakeOneThread
           ELSE UNCHANGED <<idle, interrupt>>
        /\ mutex_' = NoThread
        /\ Goto(t, "handler")
        /\ UNCHANGED <<flags, reactor, history, outstanding_work_, call,
                       task_has_run, local_ops, user_work>>

\* The queue is empty: a thread of run() or run_one() goes to sleep ...
GoIdle(t) ==
    /\ pc[t] = "loop" /\ ~stopped_
    /\ op_queue_ = <<>>
    /\ ~Polling(t)
    /\ first_idle_thread_' = <<t>> \o first_idle_thread_
    /\ signalled_' = [signalled_ EXCEPT ![t] = FALSE]
    /\ mutex_' = NoThread
    /\ Goto(t, "idle")
    /\ UNCHANGED <<env, flags, task_interrupted_, outstanding_work_, op_queue_,
                   call, task_has_run, cur, local_ops>>

\* ... and a polling thread returns.
PollEmpty(t) ==
    /\ pc[t] = "loop" /\ ~stopped_
    /\ op_queue_ = <<>>
    /\ Polling(t)
    /\ mutex_' = NoThread
    /\ Leave(t)
    /\ UNCHANGED <<env, flags, idle, task_interrupted_, outstanding_work_,
                   op_queue_, cur, local_ops>>

\* posix_event::wait returns with the mutex held.
Wakeup(t) ==
    /\ pc[t] = "idle" /\ signalled_[t] /\ Locked
    /\ mutex_' = t
    /\ Goto(t, "loop")
    /\ UNCHANGED <<env, flags, idle, task_interrupted_, outstanding_work_,
                   op_queue_, call, task_has_run, cur, local_ops>>

-----------------------------------------------------------------------------
(* The reactor, as do_one sees it.                                         *)

\* Operations leave the reactor's queues, and their events are forgotten.
Withdraw(c) == pending' = pending \ c /\ ready' = ready \ c

\* task_->run returns with the operations that were ready, in any order; a
\* blocking call waits for one of them or for the interrupter.
TaskReturn(t) ==
    /\ \/ pc[t] = "task_poll"
       \/ pc[t] = "task_wait" /\ (ready # {} \/ wakeup)
    /\ \E s \in SetToSeqs(ready) : local_ops' = [local_ops EXCEPT ![t] = s]
    /\ Withdraw(ready)
    /\ wakeup' = FALSE
    /\ Goto(t, "cleanup")
    /\ UNCHANGED <<svc, history, call, task_has_run, cur, user_work>>

\* A signal handler interrupts epoll_wait (EINTR): it returns without an event.
TaskSpurious(t) ==
    /\ pc[t] = "task_wait" /\ ready = {} /\ ~wakeup
    /\ Goto(t, "cleanup")
    /\ UNCHANGED <<svc, env, call, task_has_run, cur, local_ops>>

Reinsert(ops) == op_queue_' = Append(op_queue_ \o ops, TaskOp)

\* ~task_cleanup: the completed operations and the task go back to the queue,
\* and the thread stays in the while loop with the mutex held.
TaskCleanup(t) ==
    /\ pc[t] = "cleanup" /\ Locked
    /\ mutex_' = t
    /\ task_interrupted_' = TRUE
    /\ Reinsert(local_ops[t])
    /\ local_ops' = [local_ops EXCEPT ![t] = <<>>]
    /\ Goto(t, "loop")
    /\ UNCHANGED <<env, flags, idle, outstanding_work_, call, task_has_run,
                   cur>>

\* init_task, called by the first service that needs the reactor; the
\* reactor's constructor leaves an edge on its interrupter.
InitTask(t) ==
    /\ Free(t) /\ Locked
    /\ ~shutdown_ /\ ~task_
    /\ task_' = TRUE
    /\ op_queue_' = Append(op_queue_, TaskOp)
    /\ WakeOneIdleThread
    /\ task_interrupted_' = (task_interrupted_ \/ first_idle_thread_ = <<>>)
    /\ wakeup' = TRUE
    /\ UNCHANGED <<stk, reactor, history, mutex_, outstanding_work_, stopped_,
                   shutdown_, user_work>>

\* start_op or schedule_timer: the reactor queues the operation and counts it.
StartAsync(t, o) ==
    /\ Free(t) /\ task_ /\ ~shutdown_
    /\ o \in fresh
    /\ fresh' = fresh \ {o}
    /\ pending' = pending \cup {o}
    /\ WorkStarted
    /\ UNCHANGED <<stk, flags, idle, interrupt, mutex_, op_queue_, ready,
                   user_work, done, destroyed>>

\* cancel_ops: the waiting operations of one descriptor are taken from the
\* reactor under the descriptor's lock, then posted as one batch (PushOps).
CancelOps(t) ==
    /\ Free(t) /\ ~shutdown_
    /\ \E c \in SUBSET pending \ {{}} :
          /\ \E s \in SetToSeqs(c) : local_ops' = [local_ops EXCEPT ![t] = s]
          /\ Withdraw(c)
    /\ Goto(t, "posting")
    /\ UNCHANGED <<svc, history, call, task_has_run, cur, wakeup, user_work>>

\* The event an operation waits for occurs.
EventOccurs(o) ==
    /\ o \in pending \ ready
    /\ ready' = ready \cup {o}
    /\ UNCHANGED <<svc, stk, history, pending, wakeup, user_work>>

-----------------------------------------------------------------------------
(* Handlers.                                                               *)

HandlerReturn(t) ==
    /\ pc[t] = "handler"
    /\ done' = done \cup {cur[t]}
    /\ cur' = [cur EXCEPT ![t] = NoOp]
    /\ Goto(t, "finish")
    /\ UNCHANGED <<svc, reactor, call, task_has_run, local_ops, wakeup,
                   user_work, fresh, destroyed>>

\* An exception leaves run() or poll() after this handler, as run_one() and
\* poll_one() would.
HandlerThrow(t) ==
    /\ pc[t] = "handler"
    /\ done' = done \cup {cur[t]}
    /\ cur' = [cur EXCEPT ![t] = NoOp]
    /\ call' = [call EXCEPT ![t] = IF Polling(t) THEN "poll_one" ELSE "run_one"]
    /\ Goto(t, "finish")
    /\ UNCHANGED <<svc, reactor, task_has_run, local_ops, wakeup, user_work,
                   fresh, destroyed>>

\* ~work_finished_on_block_exit; do_one returns 1
FinishWork(t) ==
    /\ pc[t] = "finish"
    /\ WorkFinished(t, Resume(t))
    /\ task_has_run' = [task_has_run EXCEPT ![t] = FALSE]
    /\ call' = [call EXCEPT ![t] = IF outstanding_work_ # 1 /\ Resume(t) = "out"
                                   THEN "none" ELSE @]
    /\ UNCHANGED <<env, flags, idle, mutex_, task_interrupted_, op_queue_, cur,
                   local_ops>>

\* ~io_service: no thread uses the service any more.  The reactor and the
\* scheduler destroy what they hold.
Shutdown(t) ==
    /\ pc[t] = "out" /\ Locked /\ ~shutdown_
    /\ \A u \in Threads : pc[u] = "out"
    /\ user_work = 0
    /\ shutdown_' = TRUE
    /\ destroyed' = destroyed \cup pending \cup (ToSet(op_queue_) \ {TaskOp})
    /\ pending' = {}
    /\ ready' = {}
    /\ op_queue_' = <<>>
    /\ task_' = FALSE
    /\ UNCHANGED <<stk, idle, interrupt, mutex_, outstanding_work_, stopped_,
                   user_work, fresh, done>>

-----------------------------------------------------------------------------
Init ==
    /\ mutex_ = NoThread
    /\ task_ = FALSE
    /\ task_interrupted_ = TRUE
    /\ outstanding_work_ = 0
    /\ op_queue_ = <<>>
    /\ stopped_ = FALSE
    /\ shutdown_ = FALSE
    /\ first_idle_thread_ = <<>>
    /\ signalled_ = [t \in Threads |-> FALSE]
    /\ pc = [t \in Threads |-> "out"]
    /\ call = [t \in Threads |-> "none"]
    /\ task_has_run = [t \in Threads |-> FALSE]
    /\ cur = [t \in Threads |-> NoOp]
    /\ local_ops = [t \in Threads |-> <<>>]
    /\ pending = {} /\ ready = {}
    /\ wakeup = FALSE
    /\ user_work = 0
    /\ fresh = Ops
    /\ done = {} /\ destroyed = {}

\* What a thread does inside the service, the body of a handler apart.
Internal(t) ==
    \/ PushOps(t) \/ StopNoWork(t)
    \/ Lock(t) \/ ReturnStopped(t) \/ RunTask(t) \/ PollDone(t)
    \/ RunHandler(t) \/ GoIdle(t) \/ PollEmpty(t) \/ Wakeup(t)
    \/ TaskReturn(t) \/ TaskCleanup(t)
    \/ FinishWork(t)

\* What the program does.
Program(t) ==
    \/ \E c \in Calls : Enter(t, c)
    \/ \E o \in Ops : Post(t, o) \/ StartAsync(t, o)
    \/ Stop(t) \/ Reset(t) \/ WorkConstruct(t) \/ WorkDestruct(t)
    \/ InitTask(t) \/ CancelOps(t) \/ Shutdown(t)
    \/ HandlerReturn(t) \/ HandlerThrow(t)

\* The object is destroyed: nothing is left to happen.
Gone == shutdown_ /\ UNCHANGED vars

Next ==
    \/ \E t \in Threads : Internal(t) \/ Program(t) \/ TaskSpurious(t)
    \/ \E o \in Ops : EventOccurs(o)
    \/ Gone

Spec == Init /\ [][Next]_vars

(* Every thread inside the service is scheduled, and gets the mutex in the *)
(* end when it is free again and again: the strong fairness of a mutex     *)
(* that starves nobody.  Handlers end.  Nothing makes the program call the *)
(* service, or an event occur.                                             *)
FairSpec ==
    /\ Spec
    /\ \A t \in Threads : SF_vars(Internal(t))
    /\ \A t \in Threads : WF_vars(HandlerReturn(t) \/ HandlerThrow(t))

-----------------------------------------------------------------------------
(* Properties.                                                             *)

(* Type invariant. *)
TypeOK ==
    /\ mutex_ \in Threads \cup {NoThread}
    /\ task_ \in BOOLEAN /\ task_interrupted_ \in BOOLEAN
    /\ outstanding_work_ \in Int
    /\ op_queue_ \in Seq(Ops \cup {TaskOp})
    /\ stopped_ \in BOOLEAN /\ shutdown_ \in BOOLEAN
    /\ first_idle_thread_ \in Seq(Threads)
    /\ signalled_ \in [Threads -> BOOLEAN]
    /\ pc \in [Threads -> PCs]
    /\ call \in [Threads -> EntryPoints \cup {"none"}]
    /\ task_has_run \in [Threads -> BOOLEAN]
    /\ cur \in [Threads -> Ops \cup {NoOp}]
    /\ local_ops \in [Threads -> Seq(Ops)]
    /\ pending \subseteq Ops /\ ready \subseteq pending
    /\ wakeup \in BOOLEAN
    /\ user_work \in Nat
    /\ fresh \subseteq Ops /\ done \subseteq Ops /\ destroyed \subseteq Ops

\* A thread asleep that nothing has been done to wake.
Parked(t) == \/ pc[t] = "idle" /\ ~signalled_[t]
             \/ pc[t] = "task_wait" /\ ~wakeup /\ ready = {}

\* A thread that will look at the queue (or at stopped_) without further help.
Awake(t) == \/ pc[t] \in {"enter", "loop", "task_poll", "cleanup"}
            \/ pc[t] = "idle" /\ signalled_[t]
            \/ pc[t] = "task_wait" /\ (wakeup \/ ready # {})

InTask(t) == pc[t] \in {"task_wait", "task_poll", "cleanup"}

InFlight == Ops \ (fresh \cup done \cup destroyed)

(* After stop(), explicit or for lack of work, no thread is left asleep:   *)
(* neither on its event nor in a reactor that nobody interrupts.           *)
StopWakesAll == stopped_ => \A t \in Threads : ~Parked(t)

(* While a handler is in the queue of a running service, the threads of    *)
(* the pool are not all asleep: whoever could be the last to leave the     *)
(* queue has woken another.                                                *)
HandlerAttended ==
    (~stopped_ /\ ToSet(op_queue_) \cap Ops # {} /\ \E t \in Threads : Parked(t))
        => \E u \in Threads : Awake(u)

(* While the reactor waits in the queue for a thread, the pool is not all  *)
(* asleep, so the reactor is run again.                                    *)
TaskAttended ==
    (~stopped_ /\ TaskOp \in ToSet(op_queue_) /\ \E t \in Threads : Parked(t))
        => \E u \in Threads : Awake(u)

(* The task is in the queue exactly once or run by exactly one thread:     *)
(* the reactor is never run by two threads and never lost.                 *)
TaskUnique ==
    LET inQueue == {i \in DOMAIN op_queue_ : op_queue_[i] = TaskOp}
        running == {t \in Threads : InTask(t)}
    IN  Cardinality(inQueue) + Cardinality(running) = IF task_ THEN 1 ELSE 0

(* outstanding_work_ counts the operations submitted and not finished, the *)
(* handlers about to be accounted for and the work objects: run() cannot   *)
(* return for lack of work while one of them is left.                      *)
WorkCounted ==
    ~shutdown_ =>
        outstanding_work_ = user_work + Cardinality(InFlight)
                            + Cardinality({t \in Threads : pc[t] = "finish"})

(* An operation that is submitted and neither called nor destroyed is in   *)
(* exactly one place: the queue, the reactor, a thread's own queue or a    *)
(* handler call.                                                           *)
Places(o) ==
    {<<"queue", i>> : i \in {j \in DOMAIN op_queue_ : op_queue_[j] = o}}
    \cup (IF o \in pending THEN {<<"reactor">>} ELSE {})
    \cup {<<"called", t>> : t \in {u \in Threads : cur[u] = o}}
    \cup UNION {{<<"local", t, i>> :
                   i \in {j \in DOMAIN local_ops[t] : local_ops[t][j] = o}} :
                   t \in Threads}
OpInOnePlace ==
    \A o \in Ops : Cardinality(Places(o)) = IF o \in InFlight THEN 1 ELSE 0

(* first_idle_thread_ lists, once each, the threads asleep on an event     *)
(* that nobody has signalled.                                              *)
IdleListExact ==
    /\ \A t \in Threads :
          t \in ToSet(first_idle_thread_) <=> pc[t] = "idle" /\ ~signalled_[t]
    /\ IsInjective(first_idle_thread_)

(* The queues of the scheduler are sound: each operation, the task and     *)
(* each sleeping thread is in the one place where it will be looked for.   *)
QueuesSound == TypeOK /\ TaskUnique /\ OpInOnePlace /\ IdleListExact

(* While a work object lives, no thread comes to the conclusion that the   *)
(* service is out of work and stops it: "the run() call may be kept        *)
(* running by creating an object of type boost::asio::io_service::work".   *)
WorkKeepsRunning ==
    [][user_work > 0 /\ user_work' > 0 =>
         \A t \in Threads : pc'[t] = "stopping" => pc[t] = "stopping"]_vars

\* How far each operation has come.
Stage == [o \in Ops |->
            IF o \in fresh THEN "new"
            ELSE IF o \in done THEN "over"
            ELSE IF o \in destroyed THEN "destroyed"
            ELSE IF \E t \in Threads : cur[t] = o THEN "called"
            ELSE "waiting"]

\* Threads at work for the service: in a call that has not begun to return.
Inside == {t \in Threads : call[t] # "none"}

(* The scheduler is a HandlerPool.                                         *)
Pool == INSTANCE HandlerPool WITH
    stage <- Stage, calling <- cur, inside <- Inside, stopped <- stopped_,
    alive <- ~shutdown_
PoolKeepsPromises == Pool!Spec

(* A handler in the queue is called while threads are left in the pool:    *)
(* what run() is for.                                                      *)
QueuedServed ==
    \A o \in Ops :
        o \in ToSet(op_queue_) ~> (o \in done \/ stopped_ \/ Inside = {})

(* An event the reactor waits for is noticed while threads are left in the *)
(* pool.                                                                   *)
EventServed ==
    \A o \in Ops : o \in ready ~> (o \notin pending \/ stopped_ \/ Inside = {})

(* stop() makes every thread return, whatever it is doing.                 *)
StopReturns ==
    \A t \in Threads :
        stopped_ /\ call[t] # "none" ~> (call[t] = "none" \/ ~stopped_)

(* A thread returns when there is no work left.                            *)
RunReturns ==
    \A t \in Threads :
        outstanding_work_ = 0 /\ call[t] # "none"
            ~> (call[t] = "none" \/ outstanding_work_ > 0)
=============================================================================
