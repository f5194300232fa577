------------------------- MODULE TaskIoServiceProofs -------------------------
(***************************************************************************)
(* Proofs about TaskIoService, for any number of threads and operations,   *)
(* in three parts, each with an invariant of its own: the wake-up protocol *)
(* (stop() and the lists of sleepers), work that is not left to a sleeping *)
(* pool, and where every operation is, from which the count of work and    *)
(* the refinement of HandlerPool follow.                                   *)
(***************************************************************************)
EXTENDS TaskIoService, TLAPS, FiniteSetTheorems

\* Groups of variables and one-line steps, always expanded.
USE DEF flags, idle, interrupt, reactor, history,
        Withdraw, Reinsert, WorkStarted, WakeAllIdleThreads

-----------------------------------------------------------------------------
(* Facts about sequences and about the enumeration of a set.               *)

LEMMA SetToSeqsType ==
    ASSUME NEW S, IsFiniteSet(S), NEW s \in SetToSeqs(S)
    PROVE  s \in Seq(S)
<1>1. Cardinality(S) \in Nat
  BY FS_CardinalityType
<1>2. s \in [1..Cardinality(S) -> S]
  BY DEF SetToSeqs
<1> QED
  BY <1>1, <1>2

LEMMA SubsetsOfOps ==
    ASSUME NEW S \in SUBSET Ops, NEW s \in SetToSeqs(S)
    PROVE  s \in Seq(Ops)
<1>1. IsFiniteSet(S)
  BY FS_Subset, FiniteAssumption
<1>2. s \in Seq(S)
  BY <1>1, SetToSeqsType
<1> QED
  BY <1>2

LEMMA ElementsOfQueue ==
    ASSUME NEW q \in Seq(Ops \cup {TaskOp})
    PROVE  ToSet(q) \ {TaskOp} \subseteq Ops
BY DEF ToSet

-----------------------------------------------------------------------------
(* The wake-up functions keep the types of what they change.               *)

LEMMA WakeOneIdleThreadType ==
    ASSUME TypeOK, WakeOneIdleThread
    PROVE  /\ first_idle_thread_' \in Seq(Threads)
           /\ signalled_' \in [Threads -> BOOLEAN]
<1>1. CASE first_idle_thread_ = <<>>
  BY <1>1 DEF WakeOneIdleThread, TypeOK
<1>2. CASE first_idle_thread_ # <<>>
  <2>1. /\ Head(first_idle_thread_) \in Threads
        /\ Tail(first_idle_thread_) \in Seq(Threads)
    BY <1>2 DEF TypeOK
  <2> QED
    BY <1>2, <2>1 DEF WakeOneIdleThread, TypeOK
<1> QED
  BY <1>1, <1>2

LEMMA InterruptTaskType ==
    ASSUME TypeOK, InterruptTask
    PROVE  task_interrupted_' \in BOOLEAN /\ wakeup' \in BOOLEAN
BY DEF InterruptTask, TypeOK

LEMMA WakeOneThreadType ==
    ASSUME TypeOK, WakeOneThread
    PROVE  /\ first_idle_thread_' \in Seq(Threads)
           /\ signalled_' \in [Threads -> BOOLEAN]
           /\ task_interrupted_' \in BOOLEAN
           /\ wakeup' \in BOOLEAN
<1>1. task_interrupted_' \in BOOLEAN /\ wakeup' \in BOOLEAN
  <2>1. CASE first_idle_thread_ = <<>>
    BY <2>1, InterruptTaskType DEF WakeOneThread
  <2>2. CASE first_idle_thread_ # <<>>
    BY <2>2 DEF WakeOneThread, TypeOK
  <2> QED
    BY <2>1, <2>2
<1> QED
  BY <1>1, WakeOneIdleThreadType DEF WakeOneThread

LEMMA StopAllThreadsType ==
    ASSUME TypeOK, StopAllThreads
    PROVE  /\ stopped_' \in BOOLEAN
           /\ first_idle_thread_' \in Seq(Threads)
           /\ signalled_' \in [Threads -> BOOLEAN]
           /\ task_interrupted_' \in BOOLEAN
           /\ wakeup' \in BOOLEAN
<1>1. task_interrupted_' \in BOOLEAN /\ wakeup' \in BOOLEAN
  BY InterruptTaskType DEF StopAllThreads
<1>2. signalled_' \in [Threads -> BOOLEAN]
  BY DEF StopAllThreads, TypeOK
<1> QED
  BY <1>1, <1>2 DEF StopAllThreads

-----------------------------------------------------------------------------
(* Type correctness.  A thread in a handler has an operation to call: this *)
(* is what keeps "done" a set of operations.                               *)

HandlerInv == \A t \in Threads : pc[t] = "handler" => cur[t] \in Ops

TypeInv == TypeOK /\ HandlerInv

LEMMA TypeInit == Init => TypeInv
<1> SUFFICES ASSUME Init PROVE TypeInv
  OBVIOUS
<1>1. /\ local_ops \in [Threads -> Seq(Ops)]
      /\ op_queue_ \in Seq(Ops \cup {TaskOp})
      /\ first_idle_thread_ \in Seq(Threads)
  BY DEF Init
<1>2. /\ signalled_ \in [Threads -> BOOLEAN]
      /\ task_has_run \in [Threads -> BOOLEAN]
      /\ cur \in [Threads -> Ops \cup {NoOp}]
  BY DEF Init
<1>3. /\ pc \in [Threads -> PCs]
      /\ call \in [Threads -> EntryPoints \cup {"none"}]
      /\ HandlerInv
  BY DEF Init, PCs, HandlerInv
<1>4. /\ task_ \in BOOLEAN /\ task_interrupted_ \in BOOLEAN
      /\ stopped_ \in BOOLEAN /\ shutdown_ \in BOOLEAN /\ wakeup \in BOOLEAN
  BY DEF Init
<1>5. /\ mutex_ \in Threads \cup {NoThread}
      /\ outstanding_work_ \in Int /\ user_work \in Nat
      /\ pending \subseteq Ops /\ ready \subseteq pending
      /\ fresh \subseteq Ops /\ done \subseteq Ops /\ destroyed \subseteq Ops
  BY DEF Init
<1> QED
  BY <1>1, <1>2, <1>3, <1>4, <1>5 DEF TypeInv, TypeOK

LEMMA TypeStep == TypeInv /\ [Next]_vars => TypeInv'
<1> SUFFICES ASSUME TypeInv, [Next]_vars PROVE TypeInv'
  OBVIOUS
<1>0. TypeOK /\ HandlerInv
  BY DEF TypeInv
<1> USE <1>0 DEF TypeInv, TypeOK, HandlerInv, PCs, EntryPoints
<1>1. ASSUME NEW t \in Threads, NEW c \in Calls, Enter(t, c) PROVE TypeInv'
  <2>1. c \in EntryPoints
    BY ConstantsAssumption DEF ConstantsAssumption
  <2>2. /\ pc' = [pc EXCEPT ![t] = "stopping"] \/ pc' = [pc EXCEPT ![t] = "enter"]
        /\ call' = call \/ call' = [call EXCEPT ![t] = c]
        /\ UNCHANGED <<svc, env, task_has_run, cur, local_ops>>
    BY <1>1 DEF Enter, Goto
  <2>3. pc' \in [Threads -> PCs] /\ HandlerInv'
    BY <2>2
  <2>4. call' \in [Threads -> EntryPoints \cup {"none"}]
    BY <2>1, <2>2
  <2> QED
    BY <2>2, <2>3, <2>4 DEF svc, env
<1>2. ASSUME NEW t \in Threads, Stop(t) PROVE TypeInv'
  BY <1>2, StopAllThreadsType DEF Stop, stk
<1>3. ASSUME NEW t \in Threads, Reset(t) PROVE TypeInv'
  BY <1>3 DEF Reset, stk, env
<1>4. ASSUME NEW t \in Threads, NEW o \in Ops, Post(t, o) PROVE TypeInv'
  BY <1>4 DEF Post, Goto
<1>5. ASSUME NEW t \in Threads, PushOps(t) PROVE TypeInv'
  BY <1>5, WakeOneThreadType DEF PushOps, Goto, Resume
<1>6. ASSUME NEW t \in Threads, WorkConstruct(t) PROVE TypeInv'
  BY <1>6 DEF WorkConstruct, stk
<1>7. ASSUME NEW t \in Threads, WorkDestruct(t) PROVE TypeInv'
  BY <1>7 DEF WorkDestruct, WorkFinished, Goto
<1>8. ASSUME NEW t \in Threads, StopNoWork(t) PROVE TypeInv'
  BY <1>8, StopAllThreadsType DEF StopNoWork, Goto, Resume
<1>9. ASSUME NEW t \in Threads, Lock(t) PROVE TypeInv'
  BY <1>9 DEF Lock, Goto, env
<1>10. ASSUME NEW t \in Threads, ReturnStopped(t) PROVE TypeInv'
  BY <1>10 DEF ReturnStopped, Leave, Goto, env
<1>11. ASSUME NEW t \in Threads, RunTask(t) PROVE TypeInv'
  <2>1. /\ first_idle_thread_' \in Seq(Threads)
        /\ signalled_' \in [Threads -> BOOLEAN]
    <3>1. CASE Tail(op_queue_) # <<>>
      BY <1>11, <3>1, WakeOneIdleThreadType DEF RunTask
    <3>2. CASE Tail(op_queue_) = <<>>
      BY <1>11, <3>2 DEF RunTask
    <3> QED
      BY <3>1, <3>2
  <2>2. /\ op_queue_' \in Seq(Ops \cup {TaskOp})
        /\ task_interrupted_' \in BOOLEAN
        /\ task_has_run' \in [Threads -> BOOLEAN]
        /\ mutex_' = NoThread
    BY <1>11 DEF RunTask, AtFront, Polling
  <2>3. \/ pc' = [pc EXCEPT ![t] = "task_poll"]
        \/ pc' = [pc EXCEPT ![t] = "task_wait"]
    BY <1>11 DEF RunTask, Goto
  <2>4. UNCHANGED <<task_, outstanding_work_, stopped_, shutdown_, call, cur,
                    local_ops, env>>
    BY <1>11 DEF RunTask
  <2> QED
    BY <2>1, <2>2, <2>3, <2>4 DEF env
<1>12. ASSUME NEW t \in Threads, PollDone(t) PROVE TypeInv'
  BY <1>12 DEF PollDone, AtFront, Leave, Goto, env
<1>13. ASSUME NEW t \in Threads, RunHandler(t) PROVE TypeInv'
  BY <1>13, WakeOneThreadType DEF RunHandler, AtFront, Goto
<1>14. ASSUME NEW t \in Threads, GoIdle(t) PROVE TypeInv'
  BY <1>14 DEF GoIdle, Goto, env
<1>15. ASSUME NEW t \in Threads, PollEmpty(t) PROVE TypeInv'
  BY <1>15 DEF PollEmpty, Leave, Goto, env
<1>16. ASSUME NEW t \in Threads, Wakeup(t) PROVE TypeInv'
  BY <1>16 DEF Wakeup, Goto, env
<1>17. ASSUME NEW t \in Threads, TaskReturn(t) PROVE TypeInv'
  <2>1. PICK s \in SetToSeqs(ready) : local_ops' = [local_ops EXCEPT ![t] = s]
    BY <1>17 DEF TaskReturn
  <2>2. local_ops' \in [Threads -> Seq(Ops)]
    <3>1. s \in Seq(Ops)
      BY SubsetsOfOps
    <3> QED
      BY <2>1, <3>1
  <2>3. /\ pc' = [pc EXCEPT ![t] = "cleanup"]
        /\ pending' = pending \ ready /\ ready' = ready \ ready /\ wakeup' = FALSE
        /\ UNCHANGED <<svc, history, call, task_has_run, cur, user_work>>
    BY <1>17 DEF TaskReturn, Goto
  <2>4. pc' \in [Threads -> PCs] /\ HandlerInv'
    BY <2>3
  <2> QED
    BY <2>2, <2>3, <2>4 DEF svc
<1>18. ASSUME NEW t \in Threads, TaskSpurious(t) PROVE TypeInv'
  BY <1>18 DEF TaskSpurious, Goto, svc, env
<1>19. ASSUME NEW t \in Threads, TaskCleanup(t) PROVE TypeInv'
  BY <1>19 DEF TaskCleanup, Goto, env
<1>20. ASSUME NEW t \in Threads, InitTask(t) PROVE TypeInv'
  BY <1>20, WakeOneIdleThreadType DEF InitTask, stk
<1>21. ASSUME NEW t \in Threads, NEW o \in Ops, StartAsync(t, o) PROVE TypeInv'
  BY <1>21 DEF StartAsync, stk
<1>22. ASSUME NEW t \in Threads, CancelOps(t) PROVE TypeInv'
  <2>0. PICK c \in SUBSET pending :
           /\ \E s \in SetToSeqs(c) : local_ops' = [local_ops EXCEPT ![t] = s]
           /\ pending' = pending \ c /\ ready' = ready \ c
    BY <1>22 DEF CancelOps
  <2>1. PICK s \in SetToSeqs(c) : local_ops' = [local_ops EXCEPT ![t] = s]
    BY <2>0
  <2>2. local_ops' \in [Threads -> Seq(Ops)]
    <3>1. s \in Seq(Ops)
      BY SubsetsOfOps
    <3> QED
      BY <2>1, <3>1
  <2>3. /\ pc' = [pc EXCEPT ![t] = "posting"]
        /\ UNCHANGED <<svc, history, call, task_has_run, cur, wakeup, user_work>>
    BY <1>22 DEF CancelOps, Goto
  <2>4. pc' \in [Threads -> PCs] /\ HandlerInv'
    BY <2>3
  <2> QED
    BY <2>0, <2>2, <2>3, <2>4 DEF svc
<1>23. ASSUME NEW o \in Ops, EventOccurs(o) PROVE TypeInv'
  BY <1>23 DEF EventOccurs, svc, stk
<1>24. ASSUME NEW t \in Threads, HandlerReturn(t) PROVE TypeInv'
  BY <1>24 DEF HandlerReturn, Goto, svc
<1>25. ASSUME NEW t \in Threads, HandlerThrow(t) PROVE TypeInv'
  BY <1>25 DEF HandlerThrow, Goto, svc, Polling
<1>26. ASSUME NEW t \in Threads, FinishWork(t) PROVE TypeInv'
  BY <1>26 DEF FinishWork, WorkFinished, Goto, Resume, env
<1>27. ASSUME NEW t \in Threads, Shutdown(t) PROVE TypeInv'
  <2>1. destroyed' \subseteq Ops
    <3>1. ToSet(op_queue_) \ {TaskOp} \subseteq Ops
      BY ElementsOfQueue
    <3> QED
      BY <1>27, <3>1 DEF Shutdown
  <2>2. op_queue_' \in Seq(Ops \cup {TaskOp})
    BY <1>27 DEF Shutdown
  <2>3. task_' \in BOOLEAN /\ shutdown_' \in BOOLEAN
    BY <1>27 DEF Shutdown
  <2>4. pending' \subseteq Ops /\ ready' \subseteq pending'
    BY <1>27 DEF Shutdown
  <2>5. UNCHANGED <<mutex_, task_interrupted_, outstanding_work_, stopped_,
                    first_idle_thread_, signalled_, stk, wakeup, user_work,
                    fresh, done>>
    BY <1>27 DEF Shutdown
  <2> QED
    BY <2>1, <2>2, <2>3, <2>4, <2>5 DEF stk
<1>28. CASE UNCHANGED vars
  BY <1>28 DEF vars, svc, stk, env
<1> QED
  BY <1>1, <1>2, <1>3, <1>4, <1>5, <1>6, <1>7, <1>8, <1>9, <1>10, <1>11, <1>12,
     <1>13, <1>14, <1>15, <1>16, <1>17, <1>18, <1>19, <1>20, <1>21, <1>22, <1>23,
     <1>24, <1>25, <1>26, <1>27, <1>28
     DEF Next, Internal, Program, Gone

(* Every variable keeps its type, for any number of threads and operations. *)
THEOREM TypeCorrect == Spec => []TypeOK
<1>1. TypeInv => TypeOK
  BY DEF TypeInv
<1> QED
  BY <1>1, TypeInit, TypeStep, PTL DEF Spec

-----------------------------------------------------------------------------
(***************************************************************************)
(* The wake-up protocol of TaskIoService, for any number of threads and    *)
(* operations: stop() leaves no thread asleep, and no work is left in the  *)
(* queue to a pool asleep.                                                 *)
(*                                                                         *)
(* The invariant is about who can still be reached: first_idle_thread_     *)
(* lists exactly the threads asleep on an event nobody has signalled       *)
(* (IdleListExact), and a thread that waits in the reactor has left        *)
(* task_interrupted_ false or the interrupter set.  The second part holds  *)
(* only because there is one such thread, that is because the task is in   *)
(* the queue once or run by one thread.                                    *)
(***************************************************************************)

-----------------------------------------------------------------------------
(* The inductive invariant.                                                *)

\* A thread in do_one's loop holds the mutex, and nobody else does.
MutexInv == \A t \in Threads : pc[t] = "loop" <=> mutex_ = t

TaskInQueue == TaskOp \in ToSet(op_queue_)

Once(q) == \A i, j \in DOMAIN q : q[i] = TaskOp /\ q[j] = TaskOp => i = j

\* The reactor has one place.
TaskInv ==
    /\ Once(op_queue_)
    /\ TaskInQueue => task_
    /\ \A t \in Threads : InTask(t) => task_ /\ ~TaskInQueue
    /\ \A t, u \in Threads : InTask(t) /\ InTask(u) => t = u

\* A thread that waits in the reactor can be interrupted, or has been.
InterruptInv ==
    \A t \in Threads : pc[t] = "task_wait" => ~task_interrupted_ \/ wakeup

\* stop() has reached everybody.
StopInv ==
    stopped_ => \A t \in Threads : /\ pc[t] = "idle" => signalled_[t]
                                   /\ pc[t] = "task_wait" => wakeup

WakeInv == MutexInv /\ IdleListExact /\ TaskInv /\ InterruptInv /\ StopInv

-----------------------------------------------------------------------------
(* The task in a queue that grows at the end and shrinks at the front.     *)

LEMMA TaskNotInOps ==
    ASSUME NEW l \in Seq(Ops)
    PROVE  TaskOp \notin ToSet(l)
BY ConstantsAssumption DEF ConstantsAssumption, ToSet

LEMMA QueueTail ==
    ASSUME NEW q \in Seq(Ops \cup {TaskOp}), q # <<>>, Once(q)
    PROVE  /\ Tail(q) \in Seq(Ops \cup {TaskOp})
           /\ Once(Tail(q))
           /\ TaskOp \in ToSet(Tail(q)) => TaskOp \in ToSet(q)
           /\ Head(q) = TaskOp => /\ TaskOp \in ToSet(q)
                                  /\ TaskOp \notin ToSet(Tail(q))
<1>1. /\ Len(q) \in Nat /\ Len(q) > 0
      /\ DOMAIN q = 1..Len(q)
      /\ DOMAIN Tail(q) = 1..(Len(q) - 1)
      /\ \A i \in 1..(Len(q) - 1) : Tail(q)[i] = q[i + 1]
      /\ Head(q) = q[1]
      /\ Tail(q) \in Seq(Ops \cup {TaskOp})
  OBVIOUS
<1>2. Once(Tail(q))
  BY <1>1 DEF Once
<1>3. TaskOp \in ToSet(Tail(q)) => TaskOp \in ToSet(q)
  BY <1>1 DEF ToSet
<1>4. ASSUME Head(q) = TaskOp
      PROVE  TaskOp \in ToSet(q) /\ TaskOp \notin ToSet(Tail(q))
  <2>1. TaskOp \in ToSet(q)
    BY <1>1, <1>4 DEF ToSet
  <2>2. \A i \in 1..(Len(q) - 1) : Tail(q)[i] # TaskOp
    BY <1>1, <1>4 DEF Once
  <2> QED
    BY <1>1, <2>1, <2>2 DEF ToSet
<1> QED
  BY <1>1, <1>2, <1>3, <1>4

LEMMA QueueOps ==
    ASSUME NEW q \in Seq(Ops \cup {TaskOp}), NEW l \in Seq(Ops), Once(q)
    PROVE  /\ q \o l \in Seq(Ops \cup {TaskOp})
           /\ Once(q \o l)
           /\ TaskOp \in ToSet(q \o l) <=> TaskOp \in ToSet(q)
<1>1. /\ q \o l \in Seq(Ops \cup {TaskOp})
      /\ Len(q) \in Nat /\ Len(l) \in Nat
      /\ DOMAIN q = 1..Len(q) /\ DOMAIN l = 1..Len(l)
      /\ DOMAIN (q \o l) = 1..(Len(q) + Len(l))
      /\ \A i \in 1..Len(q) : (q \o l)[i] = q[i]
      /\ \A i \in (Len(q) + 1)..(Len(q) + Len(l)) : (q \o l)[i] = l[i - Len(q)]
  OBVIOUS
<1>2. \A i \in 1..Len(l) : l[i] # TaskOp
  BY <1>1, ConstantsAssumption DEF ConstantsAssumption
<1>3. \A i \in (Len(q) + 1)..(Len(q) + Len(l)) : (q \o l)[i] # TaskOp
  BY <1>1, <1>2
<1>4. \A i \in DOMAIN (q \o l) : (q \o l)[i] = TaskOp => i \in 1..Len(q)
  BY <1>1, <1>3
<1>5. Once(q \o l)
  BY <1>1, <1>4 DEF Once
<1>6. TaskOp \in ToSet(q \o l) <=> TaskOp \in ToSet(q)
  BY <1>1, <1>4 DEF ToSet
<1> QED
  BY <1>1, <1>5, <1>6

LEMMA QueueTask ==
    ASSUME NEW q \in Seq(Ops \cup {TaskOp}), TaskOp \notin ToSet(q)
    PROVE  /\ Append(q, TaskOp) \in Seq(Ops \cup {TaskOp})
           /\ Once(Append(q, TaskOp))
           /\ TaskOp \in ToSet(Append(q, TaskOp))
<1> DEFINE r == Append(q, TaskOp)
<1>1. /\ r \in Seq(Ops \cup {TaskOp})
      /\ Len(q) \in Nat
      /\ DOMAIN q = 1..Len(q) /\ DOMAIN r = 1..(Len(q) + 1)
      /\ \A i \in 1..Len(q) : r[i] = q[i]
      /\ r[Len(q) + 1] = TaskOp
  OBVIOUS
<1>2. \A i \in 1..Len(q) : r[i] # TaskOp
  BY <1>1 DEF ToSet
<1>3. Once(r)
  BY <1>1, <1>2 DEF Once
<1>4. TaskOp \in ToSet(r)
  BY <1>1 DEF ToSet
<1> QED
  BY <1>1, <1>3, <1>4

-----------------------------------------------------------------------------
(* Steps that the wake-up protocol does not see: they change no variable   *)
(* of the protocol, and no thread comes to, or leaves, a place in do_one   *)
(* where it holds the mutex, sleeps or runs the reactor.                   *)

Watched == {"loop", "idle", "task_wait", "task_poll", "cleanup"}

Quiet ==
    /\ UNCHANGED <<mutex_, task_, task_interrupted_, op_queue_, stopped_,
                   first_idle_thread_, signalled_, wakeup>>
    /\ \A t \in Threads :
          pc'[t] = pc[t] \/ (pc[t] \notin Watched \cup {"enter"} /\ pc'[t] \notin Watched)

LEMMA QuietSteps ==
    ASSUME TypeInv,
           \/ \E t \in Threads :
                \/ \E c \in Calls : Enter(t, c)
                \/ \E o \in Ops : Post(t, o) \/ StartAsync(t, o)
                \/ WorkConstruct(t) \/ WorkDestruct(t) \/ CancelOps(t)
                \/ HandlerReturn(t) \/ HandlerThrow(t) \/ FinishWork(t)
           \/ \E o \in Ops : EventOccurs(o)
           \/ UNCHANGED vars
    PROVE  Quiet
<1> USE DEF Quiet, Watched, Goto, svc
<1>0. pc \in [Threads -> PCs]
  BY DEF TypeInv, TypeOK
<1>1. ASSUME NEW t \in Threads, NEW c \in Calls, Enter(t, c) PROVE Quiet
  BY <1>0, <1>1 DEF Enter, env
<1>2. ASSUME NEW t \in Threads, NEW o \in Ops, Post(t, o) PROVE Quiet
  BY <1>0, <1>2 DEF Post, Free
<1>3. ASSUME NEW t \in Threads, NEW o \in Ops, StartAsync(t, o) PROVE Quiet
  BY <1>3 DEF StartAsync, stk
<1>4. ASSUME NEW t \in Threads, WorkConstruct(t) PROVE Quiet
  BY <1>4 DEF WorkConstruct, stk
<1>5. ASSUME NEW t \in Threads, WorkDestruct(t) PROVE Quiet
  BY <1>0, <1>5 DEF WorkDestruct, WorkFinished, Free
<1>6. ASSUME NEW t \in Threads, CancelOps(t) PROVE Quiet
  BY <1>0, <1>6 DEF CancelOps, Free
<1>7. ASSUME NEW t \in Threads, HandlerReturn(t) PROVE Quiet
  BY <1>0, <1>7 DEF HandlerReturn
<1>8. ASSUME NEW t \in Threads, HandlerThrow(t) PROVE Quiet
  BY <1>0, <1>8 DEF HandlerThrow
<1>9. ASSUME NEW t \in Threads, FinishWork(t) PROVE Quiet
  BY <1>0, <1>9 DEF FinishWork, WorkFinished, Resume, env
<1>10. ASSUME NEW o \in Ops, EventOccurs(o) PROVE Quiet
  BY <1>10 DEF EventOccurs, stk
<1>11. CASE UNCHANGED vars
  BY <1>11 DEF vars, stk, env
<1> QED
  BY <1>1, <1>2, <1>3, <1>4, <1>5, <1>6, <1>7, <1>8, <1>9, <1>10, <1>11

LEMMA QuietKeepsWakeInv == WakeInv /\ Quiet => WakeInv'
BY DEF WakeInv, Quiet, Watched, MutexInv, IdleListExact, TaskInv, TaskInQueue, InTask,
       InterruptInv, StopInv, Once

-----------------------------------------------------------------------------
(* What the wake-up functions do to threads asleep.                        *)

LEMMA ListHead ==
    ASSUME NEW s \in Seq(Threads), s # <<>>, IsInjective(s)
    PROVE  /\ Head(s) \in Threads
           /\ Head(s) \in ToSet(s)
           /\ IsInjective(Tail(s))
           /\ \A t \in Threads : t \in ToSet(Tail(s)) <=> t \in ToSet(s) /\ t # Head(s)
<1>1. /\ Len(s) \in Nat /\ Len(s) > 0
      /\ DOMAIN s = 1..Len(s) /\ DOMAIN Tail(s) = 1..(Len(s) - 1)
      /\ \A k \in 1..(Len(s) - 1) : Tail(s)[k] = s[k + 1]
      /\ Head(s) = s[1] /\ Head(s) \in Threads
  OBVIOUS
<1>2. Head(s) \in ToSet(s)
  BY <1>1 DEF ToSet
<1>3. IsInjective(Tail(s))
  BY <1>1 DEF IsInjective
<1>4. ASSUME NEW t \in ToSet(Tail(s)) PROVE t \in ToSet(s) /\ t # Head(s)
  <2>1. PICK k \in 1..(Len(s) - 1) : t = s[k + 1]
    BY <1>1 DEF ToSet
  <2> QED
    BY <1>1, <2>1 DEF ToSet, IsInjective
<1>5. ASSUME NEW t \in ToSet(s), t # Head(s) PROVE t \in ToSet(Tail(s))
  <2>1. PICK k \in 1..Len(s) : t = s[k]
    BY <1>1 DEF ToSet
  <2>2. k - 1 \in 1..(Len(s) - 1) /\ Tail(s)[k - 1] = t
    BY <1>1, <1>5, <2>1
  <2> QED
    BY <1>1, <2>2 DEF ToSet
<1> QED
  BY <1>1, <1>2, <1>3, <1>4, <1>5

\* One thread asleep is signalled and leaves the list; no thread is put to
\* sleep.
LEMMA WakeOneIdleThreadKeepsIdle ==
    ASSUME TypeOK, IdleListExact, WakeOneIdleThread,
           \A t \in Threads : pc'[t] = "idle" <=> pc[t] = "idle"
    PROVE  IdleListExact'
<1>1. CASE first_idle_thread_ = <<>>
  BY <1>1 DEF WakeOneIdleThread, IdleListExact
<1>2. CASE first_idle_thread_ # <<>>
  <2>1. /\ first_idle_thread_' = Tail(first_idle_thread_)
        /\ signalled_' = [signalled_ EXCEPT ![Head(first_idle_thread_)] = TRUE]
    BY <1>2 DEF WakeOneIdleThread
  <2>2. first_idle_thread_ \in Seq(Threads) /\ signalled_ \in [Threads -> BOOLEAN]
    BY DEF TypeOK
  <2>3. IsInjective(first_idle_thread_)
    BY DEF IdleListExact
  <2>4. IsInjective(first_idle_thread_')
    BY <1>2, <2>1, <2>2, <2>3, ListHead
  <2>5. ASSUME NEW t \in Threads
        PROVE  t \in ToSet(first_idle_thread_') <=> pc'[t] = "idle" /\ ~signalled_'[t]
    <3>1. t \in ToSet(first_idle_thread_')
            <=> t \in ToSet(first_idle_thread_) /\ t # Head(first_idle_thread_)
      BY <1>2, <2>1, <2>2, <2>3, ListHead
    <3>2. ~signalled_'[t] <=> ~signalled_[t] /\ t # Head(first_idle_thread_)
      BY <1>2, <2>1, <2>2
    <3> QED
      BY <3>1, <3>2 DEF IdleListExact
  <2> QED
    BY <2>4, <2>5 DEF IdleListExact
<1> QED
  BY <1>1, <1>2

\* No signal is taken back.
LEMMA WakeOneIdleThreadSignals ==
    ASSUME TypeOK, WakeOneIdleThread
    PROVE  \A t \in Threads : signalled_[t] => signalled_'[t]
BY DEF WakeOneIdleThread, TypeOK

LEMMA InterruptTaskReaches ==
    ASSUME InterruptTask
    PROVE  /\ wakeup => wakeup'
           /\ task_ /\ ~task_interrupted_ => wakeup'
           /\ task_interrupted_' => task_interrupted_ \/ wakeup'
BY DEF InterruptTask

LEMMA WakeOneThreadReaches ==
    ASSUME WakeOneThread
    PROVE  /\ wakeup => wakeup'
           /\ task_interrupted_' => task_interrupted_ \/ wakeup'
BY InterruptTaskReaches DEF WakeOneThread

LEMMA StopAllThreadsKeepsWakeInv ==
    ASSUME TypeOK, WakeInv, StopAllThreads,
           UNCHANGED <<mutex_, task_, op_queue_>>,
           \A t \in Threads :
              pc'[t] = pc[t] \/ (pc[t] \notin Watched /\ pc'[t] \notin Watched)
    PROVE  WakeInv'
<1>1. \A t \in Threads : pc'[t] = "idle" => signalled_'[t]
  BY DEF StopAllThreads, WakeInv, IdleListExact, Watched, TypeOK
<1>2. \A t \in Threads : pc'[t] = "task_wait" => wakeup'
  <2> SUFFICES ASSUME NEW t \in Threads, pc'[t] = "task_wait" PROVE wakeup'
    OBVIOUS
  <2>1. pc[t] = "task_wait"
    BY DEF Watched
  <2>2. task_ /\ (~task_interrupted_ \/ wakeup)
    BY <2>1 DEF WakeInv, TaskInv, InTask, InterruptInv
  <2> QED
    BY <2>2, InterruptTaskReaches DEF StopAllThreads
<1>3. MutexInv' /\ TaskInv'
  BY DEF WakeInv, MutexInv, TaskInv, TaskInQueue, InTask, Watched
<1>4. IdleListExact'
  BY <1>1 DEF StopAllThreads, IdleListExact, IsInjective, ToSet
<1> QED
  BY <1>1, <1>2, <1>3, <1>4 DEF WakeInv, InterruptInv, StopInv

LEMMA ListGrows ==
    ASSUME NEW t \in Threads, NEW s \in Seq(Threads), IsInjective(s), t \notin ToSet(s)
    PROVE  /\ IsInjective(<<t>> \o s)
           /\ \A u \in Threads : u \in ToSet(<<t>> \o s) <=> u = t \/ u \in ToSet(s)
<1> DEFINE r == <<t>> \o s
<1>1. /\ Len(s) \in Nat /\ DOMAIN s = 1..Len(s)
      /\ DOMAIN r = 1..(Len(s) + 1)
      /\ r[1] = t
      /\ \A i \in 1..Len(s) : r[i + 1] = s[i]
  OBVIOUS
<1>2. \A i \in 2..(Len(s) + 1) : i - 1 \in DOMAIN s /\ r[i] = s[i - 1]
  <2> TAKE i \in 2..(Len(s) + 1)
  <2>1. i - 1 \in 1..Len(s) /\ (i - 1) + 1 = i
    BY <1>1
  <2> QED
    BY <1>1, <2>1
<1> HIDE DEF r
<1>3. \A i \in 2..(Len(s) + 1) : r[i] # t
  BY <1>2 DEF ToSet
<1>4. IsInjective(r)
  <2>1. \A i, j \in DOMAIN s : s[i] = s[j] => i = j
    BY DEF IsInjective
  <2> SUFFICES ASSUME NEW i \in DOMAIN r, NEW j \in DOMAIN r, r[i] = r[j] PROVE i = j
    BY DEF IsInjective
  <2>2. i \in 1..(Len(s) + 1) /\ j \in 1..(Len(s) + 1)
    BY <1>1
  <2>3. CASE i = 1 \/ j = 1
    BY <1>1, <1>3, <2>2, <2>3
  <2>4. CASE i # 1 /\ j # 1
    <3>1. i \in 2..(Len(s) + 1) /\ j \in 2..(Len(s) + 1)
      BY <1>1, <2>2, <2>4
    <3>2. i - 1 = j - 1
      BY <1>2, <2>1, <3>1
    <3> QED
      BY <3>1, <3>2
  <2> QED
    BY <2>3, <2>4
<1>5. ASSUME NEW u \in Threads PROVE u \in ToSet(r) <=> u = t \/ u \in ToSet(s)
  <2>1. u \in ToSet(r) => u = t \/ u \in ToSet(s)
    BY <1>1, <1>2 DEF ToSet
  <2>2. t \in ToSet(r)
    BY <1>1 DEF ToSet
  <2>3. u \in ToSet(s) => u \in ToSet(r)
    BY <1>1 DEF ToSet
  <2> QED
    BY <2>1, <2>2, <2>3
<1> QED
  BY <1>4, <1>5 DEF r

-----------------------------------------------------------------------------
(* The invariant holds initially and every step keeps it.                  *)

LEMMA WakeInit == Init => WakeInv
<1> SUFFICES ASSUME Init PROVE WakeInv
  OBVIOUS
<1>1. MutexInv
  BY ConstantsAssumption DEF Init, MutexInv, ConstantsAssumption
<1>2. IdleListExact /\ InterruptInv /\ StopInv
  BY DEF Init, IdleListExact, IsInjective, ToSet, InterruptInv, StopInv
<1>3. TaskInv
  <2>1. DOMAIN op_queue_ = {}
    BY DEF Init
  <2>2. \A t \in Threads : ~InTask(t)
    BY DEF Init, InTask
  <2> QED
    BY <2>1, <2>2 DEF TaskInv, TaskInQueue, Once, ToSet
<1> QED
  BY <1>1, <1>2, <1>3 DEF WakeInv

LEMMA WakeStep == TypeInv /\ WakeInv /\ [Next]_vars => WakeInv'
<1> SUFFICES ASSUME TypeInv, WakeInv, [Next]_vars PROVE WakeInv'
  OBVIOUS
<1>a. TypeOK
  BY DEF TypeInv
<1>b. /\ pc \in [Threads -> PCs]
      /\ signalled_ \in [Threads -> BOOLEAN]
      /\ op_queue_ \in Seq(Ops \cup {TaskOp})
      /\ first_idle_thread_ \in Seq(Threads)
      /\ local_ops \in [Threads -> Seq(Ops)]
      /\ mutex_ \in Threads \cup {NoThread}
  BY <1>a DEF TypeOK
<1>c. MutexInv /\ IdleListExact /\ TaskInv /\ InterruptInv /\ StopInv
  BY DEF WakeInv
<1>d. NoThread \notin Threads
  BY ConstantsAssumption DEF ConstantsAssumption
<1> USE <1>a, <1>b, <1>c, <1>d DEF WakeInv, Goto
<1>1. ASSUME NEW t \in Threads, Stop(t) PROVE WakeInv'
  <2>1. StopAllThreads /\ UNCHANGED <<pc, mutex_, task_, op_queue_>>
    BY <1>1 DEF Stop, stk
  <2> QED
    BY <2>1, StopAllThreadsKeepsWakeInv
<1>2. ASSUME NEW t \in Threads, StopNoWork(t) PROVE WakeInv'
  <2>1. /\ StopAllThreads /\ UNCHANGED <<mutex_, task_, op_queue_>>
        /\ pc[t] = "stopping" /\ pc' = [pc EXCEPT ![t] = Resume(t)]
    BY <1>2 DEF StopNoWork
  <2>2. Resume(t) \notin Watched
    BY DEF Resume, Watched
  <2> QED
    BY <2>1, <2>2, StopAllThreadsKeepsWakeInv DEF Watched
<1>3. ASSUME NEW t \in Threads, Reset(t) PROVE WakeInv'
  BY <1>3 DEF Reset, stk, env, MutexInv, IdleListExact, TaskInv, TaskInQueue, InTask,
              InterruptInv, StopInv
<1>4. ASSUME NEW t \in Threads, PushOps(t) PROVE WakeInv'
  <2>1. /\ pc[t] = "posting" /\ mutex_ = NoThread
        /\ pc' = [pc EXCEPT ![t] = Resume(t)]
        /\ op_queue_' = op_queue_ \o local_ops[t]
        /\ WakeOneThread
        /\ UNCHANGED <<mutex_, task_, stopped_>>
    BY <1>4 DEF PushOps, Locked
  <2>2. Resume(t) \notin Watched
    BY DEF Resume, Watched
  <2>3. \A u \in Threads : pc'[u] = pc[u] \/ (pc[u] \notin Watched /\ pc'[u] \notin Watched)
    BY <2>1, <2>2 DEF Watched
  <2>4. MutexInv'
    BY <2>1, <2>3 DEF MutexInv, Watched
  <2>5. IdleListExact'
    BY <2>1, <2>3, WakeOneIdleThreadKeepsIdle DEF WakeOneThread, Watched
  <2>6. TaskInv'
    BY <2>1, <2>3, QueueOps DEF TaskInv, TaskInQueue, InTask, Watched
  <2>7. InterruptInv'
    BY <2>1, <2>3, WakeOneThreadReaches DEF InterruptInv, Watched
  <2>8. StopInv'
    BY <2>1, <2>3, WakeOneThreadReaches, WakeOneIdleThreadSignals
       DEF StopInv, WakeOneThread, Watched
  <2> QED
    BY <2>4, <2>5, <2>6, <2>7, <2>8
<1>5. ASSUME NEW t \in Threads, Lock(t) PROVE WakeInv'
  BY <1>5 DEF Lock, Locked, env, MutexInv, IdleListExact, TaskInv, TaskInQueue, InTask,
              InterruptInv, StopInv
<1>6. ASSUME NEW t \in Threads, ReturnStopped(t) PROVE WakeInv'
  BY <1>6 DEF ReturnStopped, Leave, env, MutexInv, IdleListExact, TaskInv, TaskInQueue,
              InTask, InterruptInv, StopInv
<1>7. ASSUME NEW t \in Threads, RunTask(t) PROVE WakeInv'
  <2>1. /\ pc[t] = "loop" /\ ~stopped_ /\ op_queue_ # <<>> /\ Head(op_queue_) = TaskOp
        /\ op_queue_' = Tail(op_queue_)
        /\ mutex_' = NoThread
        /\ UNCHANGED <<task_, stopped_, wakeup>>
    BY <1>7 DEF RunTask, AtFront, env
  <2>2. \/ pc' = [pc EXCEPT ![t] = "task_poll"]
        \/ pc' = [pc EXCEPT ![t] = "task_wait"] /\ ~task_interrupted_'
    BY <1>7 DEF RunTask
  <2>3. TaskOp \in ToSet(op_queue_) /\ TaskOp \notin ToSet(op_queue_')
    BY <2>1, QueueTail DEF TaskInv
  <2>4. \A u \in Threads : ~InTask(u)
    BY <2>3 DEF TaskInv, TaskInQueue
  <2>5. MutexInv'
    BY <2>1, <2>2 DEF MutexInv
  <2>6. IdleListExact'
    <3>0. \A u \in Threads : pc'[u] = "idle" <=> pc[u] = "idle"
      BY <2>1, <2>2
    <3>1. CASE Tail(op_queue_) # <<>>
      <4>1. WakeOneIdleThread
        BY <1>7, <3>1 DEF RunTask
      <4> QED
        BY <3>0, <4>1, WakeOneIdleThreadKeepsIdle
    <3>2. CASE Tail(op_queue_) = <<>>
      <4>1. UNCHANGED <<first_idle_thread_, signalled_>>
        BY <1>7, <3>2 DEF RunTask
      <4> QED
        BY <3>0, <4>1 DEF IdleListExact
    <3> QED
      BY <3>1, <3>2
  <2>7. TaskInv'
    BY <2>1, <2>2, <2>3, <2>4, QueueTail DEF TaskInv, TaskInQueue, InTask
  <2>8. InterruptInv'
    BY <2>2, <2>4 DEF InterruptInv, InTask
  <2>9. StopInv'
    BY <2>1 DEF StopInv
  <2> QED
    BY <2>5, <2>6, <2>7, <2>8, <2>9
<1>8. ASSUME NEW t \in Threads, PollDone(t) PROVE WakeInv'
  <2>1. /\ pc[t] = "loop" /\ ~stopped_ /\ op_queue_ # <<>> /\ Head(op_queue_) = TaskOp
        /\ op_queue_' = Append(Tail(op_queue_), TaskOp)
        /\ mutex_' = NoThread /\ pc' = [pc EXCEPT ![t] = "out"]
        /\ UNCHANGED <<task_, stopped_, wakeup, first_idle_thread_, signalled_>>
    BY <1>8 DEF PollDone, AtFront, Leave, env
  <2>2. /\ TaskOp \in ToSet(op_queue_)
        /\ Tail(op_queue_) \in Seq(Ops \cup {TaskOp})
        /\ TaskOp \notin ToSet(Tail(op_queue_))
    BY <2>1, QueueTail DEF TaskInv
  <2>3. \A u \in Threads : ~InTask(u)
    BY <2>2 DEF TaskInv, TaskInQueue
  <2>4. MutexInv' /\ IdleListExact' /\ StopInv'
    BY <2>1 DEF MutexInv, IdleListExact, StopInv
  <2>5. TaskInv'
    BY <2>1, <2>2, <2>3, QueueTask DEF TaskInv, TaskInQueue, InTask
  <2>6. InterruptInv'
    BY <2>1, <2>3 DEF InterruptInv, InTask
  <2> QED
    BY <2>4, <2>5, <2>6
<1>9. ASSUME NEW t \in Threads, RunHandler(t) PROVE WakeInv'
  <2>1. /\ pc[t] = "loop" /\ ~stopped_ /\ op_queue_ # <<>>
        /\ op_queue_' = Tail(op_queue_)
        /\ mutex_' = NoThread /\ pc' = [pc EXCEPT ![t] = "handler"]
        /\ UNCHANGED <<task_, stopped_>>
    BY <1>9 DEF RunHandler, AtFront
  <2>2. \/ WakeOneThread
        \/ UNCHANGED <<first_idle_thread_, signalled_, task_interrupted_, wakeup>>
    BY <1>9 DEF RunHandler
  <2>3. MutexInv'
    BY <2>1 DEF MutexInv
  <2>4. IdleListExact'
    <3>1. CASE WakeOneThread
      BY <2>1, <3>1, WakeOneIdleThreadKeepsIdle DEF WakeOneThread
    <3>2. CASE UNCHANGED <<first_idle_thread_, signalled_>>
      BY <2>1, <3>2 DEF IdleListExact
    <3> QED
      BY <2>2, <3>1, <3>2
  <2>5. TaskInv'
    BY <2>1, QueueTail DEF TaskInv, TaskInQueue, InTask
  <2>6. InterruptInv'
    BY <2>1, <2>2, WakeOneThreadReaches DEF InterruptInv
  <2>7. StopInv'
    BY <2>1 DEF StopInv
  <2> QED
    BY <2>3, <2>4, <2>5, <2>6, <2>7
<1>10. ASSUME NEW t \in Threads, GoIdle(t) PROVE WakeInv'
  <2>1. /\ pc[t] = "loop" /\ ~stopped_
        /\ first_idle_thread_' = <<t>> \o first_idle_thread_
        /\ signalled_' = [signalled_ EXCEPT ![t] = FALSE]
        /\ mutex_' = NoThread /\ pc' = [pc EXCEPT ![t] = "idle"]
        /\ UNCHANGED <<task_, task_interrupted_, op_queue_, stopped_, wakeup>>
    BY <1>10 DEF GoIdle, env
  <2>2. /\ IsInjective(<<t>> \o first_idle_thread_)
        /\ \A u \in Threads : u \in ToSet(<<t>> \o first_idle_thread_)
                               <=> u = t \/ u \in ToSet(first_idle_thread_)
    BY <2>1, ListGrows DEF IdleListExact
  <2>3. IdleListExact'
    BY <2>1, <2>2 DEF IdleListExact
  <2> QED
    BY <2>1, <2>3 DEF MutexInv, TaskInv, TaskInQueue, InTask, InterruptInv, StopInv
<1>11. ASSUME NEW t \in Threads, PollEmpty(t) PROVE WakeInv'
  BY <1>11 DEF PollEmpty, Leave, env, MutexInv, IdleListExact, TaskInv, TaskInQueue,
               InTask, InterruptInv, StopInv
<1>12. ASSUME NEW t \in Threads, Wakeup(t) PROVE WakeInv'
  BY <1>12 DEF Wakeup, Locked, env, MutexInv, IdleListExact, TaskInv, TaskInQueue, InTask,
               InterruptInv, StopInv
<1>13. ASSUME NEW t \in Threads, TaskReturn(t) \/ TaskSpurious(t) PROVE WakeInv'
  <2>1. /\ InTask(t) /\ pc[t] # "cleanup" /\ pc' = [pc EXCEPT ![t] = "cleanup"]
        /\ UNCHANGED svc
    BY <1>13 DEF TaskReturn, TaskSpurious, InTask
  <2>2. \A u \in Threads : pc'[u] # "task_wait"
    BY <2>1 DEF TaskInv, InTask
  <2>3. MutexInv' /\ IdleListExact'
    BY <2>1 DEF MutexInv, IdleListExact, svc, InTask
  <2>4. TaskInv'
    BY <2>1 DEF TaskInv, TaskInQueue, InTask, svc
  <2>5. InterruptInv' /\ StopInv'
    BY <2>1, <2>2 DEF InterruptInv, StopInv, svc
  <2> QED
    BY <2>3, <2>4, <2>5
<1>14. ASSUME NEW t \in Threads, TaskCleanup(t) PROVE WakeInv'
  <2>1. /\ pc[t] = "cleanup" /\ mutex_ = NoThread
        /\ mutex_' = t /\ pc' = [pc EXCEPT ![t] = "loop"]
        /\ op_queue_' = Append(op_queue_ \o local_ops[t], TaskOp)
        /\ UNCHANGED <<task_, stopped_, first_idle_thread_, signalled_, wakeup>>
    BY <1>14 DEF TaskCleanup, Locked, env
  <2>2. /\ task_ /\ TaskOp \notin ToSet(op_queue_)
        /\ \A u \in Threads : InTask(u) => u = t
    BY <2>1 DEF TaskInv, TaskInQueue, InTask
  <2>3. \A u \in Threads : ~InTask(u)'
    BY <2>1, <2>2 DEF InTask
  <2>4. /\ op_queue_ \o local_ops[t] \in Seq(Ops \cup {TaskOp})
        /\ TaskOp \notin ToSet(op_queue_ \o local_ops[t])
    BY <2>2, QueueOps DEF TaskInv
  <2>5. TaskInv'
    BY <2>1, <2>2, <2>3, <2>4, QueueTask DEF TaskInv, TaskInQueue
  <2>6. InterruptInv'
    BY <2>3 DEF InterruptInv, InTask
  <2>7. MutexInv' /\ IdleListExact' /\ StopInv'
    BY <2>1 DEF MutexInv, IdleListExact, StopInv
  <2> QED
    BY <2>5, <2>6, <2>7
<1>15. ASSUME NEW t \in Threads, InitTask(t) PROVE WakeInv'
  <2>1. /\ ~task_ /\ task_' /\ wakeup'
        /\ op_queue_' = Append(op_queue_, TaskOp)
        /\ WakeOneIdleThread
        /\ UNCHANGED <<mutex_, stopped_, pc>>
    BY <1>15 DEF InitTask, stk
  <2>2. TaskOp \notin ToSet(op_queue_) /\ \A u \in Threads : ~InTask(u)
    BY <2>1 DEF TaskInv, TaskInQueue
  <2>3. IdleListExact'
    BY <2>1, WakeOneIdleThreadKeepsIdle
  <2>4. TaskInv'
    BY <2>1, <2>2, QueueTask DEF TaskInv, TaskInQueue, InTask
  <2>5. MutexInv' /\ InterruptInv'
    BY <2>1 DEF MutexInv, InterruptInv
  <2>6. StopInv'
    BY <2>1, WakeOneIdleThreadSignals DEF StopInv
  <2> QED
    BY <2>3, <2>4, <2>5, <2>6
<1>16. ASSUME NEW t \in Threads, Shutdown(t) PROVE WakeInv'
  <2>1. /\ \A u \in Threads : pc[u] = "out"
        /\ op_queue_' = <<>>
        /\ UNCHANGED <<mutex_, pc, stopped_, first_idle_thread_, signalled_>>
    BY <1>16 DEF Shutdown, stk
  <2>2. Once(op_queue_') /\ TaskOp \notin ToSet(op_queue_')
    BY <2>1 DEF Once, ToSet
  <2> QED
    BY <2>1, <2>2 DEF MutexInv, IdleListExact, TaskInv, TaskInQueue, InTask, InterruptInv,
                      StopInv
<1>17. CASE Quiet
  BY <1>17, QuietKeepsWakeInv
<1> QED
  BY <1>1, <1>2, <1>3, <1>4, <1>5, <1>6, <1>7, <1>8, <1>9, <1>10, <1>11, <1>12,
     <1>13, <1>14, <1>15, <1>16, <1>17, QuietSteps
     DEF Next, Internal, Program, Gone

(* stop() leaves no thread asleep.                                         *)
THEOREM StopWakesAllThreads == Spec => []StopWakesAll
<1>1. WakeInv => StopWakesAll
  BY DEF WakeInv, StopInv, StopWakesAll, Parked
<1> QED
  BY <1>1, TypeInit, TypeStep, WakeInit, WakeStep, PTL DEF Spec

(* first_idle_thread_ is exactly the threads that nobody has woken.        *)
THEOREM IdleListIsExact == Spec => []IdleListExact
<1>1. WakeInv => IdleListExact
  BY DEF WakeInv
<1> QED
  BY <1>1, TypeInit, TypeStep, WakeInit, WakeStep, PTL DEF Spec

-----------------------------------------------------------------------------
(***************************************************************************)
(* No handler is left in the queue of a running service while the whole    *)
(* pool sleeps; and, as long as nobody polls, neither is the reactor.      *)
(*                                                                         *)
(* The invariant drops the events of the reactor from Parked and Awake: an *)
(* event can be taken back (CancelOps), an edge of the interrupter cannot. *)
(* It says that whoever leaves the queue with work in it has made another  *)
(* thread stir.                                                            *)
(***************************************************************************)

Asleep(t) == \/ pc[t] = "idle" /\ ~signalled_[t]
             \/ pc[t] = "task_wait" /\ ~wakeup

Stirring(t) == \/ pc[t] \in {"enter", "loop", "task_poll", "cleanup"}
               \/ pc[t] = "idle" /\ signalled_[t]
               \/ pc[t] = "task_wait" /\ wakeup

SleepersWatched == (\E t \in Threads : Asleep(t)) => \E u \in Threads : Stirring(u)

\* The program makes no call of poll() or poll_one().
NoPolling == Calls \cap {"poll", "poll_one"} = {}

\* What must not be left to a pool asleep.
Work(q) == ToSet(q) \cap Ops # {} \/ (NoPolling /\ TaskOp \in ToSet(q))

AttendInv == ~stopped_ /\ Work(op_queue_) => SleepersWatched

\* A thread in do_one is in one of the four calls.
CallInv == \A t \in Threads : pc[t] \in Watched \cup {"enter"} => call[t] # "none"

EndsWithTask(q) == q # <<>> /\ q[Len(q)] = TaskOp

\* A polling thread does not sleep; when it is back from the reactor the task
\* is at the end of the queue, so that it returns only if nothing else is there.
PollInv ==
    /\ NoPolling => \A t \in Threads : ~Polling(t)
    /\ \A t \in Threads : Polling(t) =>
          /\ pc[t] # "idle"
          /\ pc[t] = "loop" /\ task_has_run[t] => EndsWithTask(op_queue_)

PoolInv == AttendInv /\ CallInv /\ PollInv

-----------------------------------------------------------------------------
(* The calls of the threads.                                               *)

LEMMA CallStep == TypeInv /\ CallInv /\ [Next]_vars => CallInv'
<1> SUFFICES ASSUME TypeInv, CallInv, [Next]_vars PROVE CallInv'
  OBVIOUS
<1>a. /\ pc \in [Threads -> PCs]
      /\ call \in [Threads -> EntryPoints \cup {"none"}]
  BY DEF TypeInv, TypeOK
<1>b. \A c \in Calls : c # "none"
  BY ConstantsAssumption DEF ConstantsAssumption, EntryPoints
<1> USE <1>a, <1>b DEF CallInv, Watched, Goto
<1>1. ASSUME NEW t \in Threads, NEW c \in Calls, Enter(t, c) PROVE CallInv'
  BY <1>1 DEF Enter
<1>2. ASSUME NEW t \in Threads, NEW o \in Ops, Post(t, o) \/ StartAsync(t, o)
      PROVE  CallInv'
  BY <1>2 DEF Post, StartAsync, stk
<1>3. ASSUME NEW t \in Threads,
             Stop(t) \/ Reset(t) \/ InitTask(t) \/ Shutdown(t) \/ WorkConstruct(t)
      PROVE  CallInv'
  BY <1>3 DEF Stop, Reset, InitTask, Shutdown, WorkConstruct, stk
<1>4. ASSUME NEW t \in Threads, WorkDestruct(t) \/ CancelOps(t) PROVE CallInv'
  BY <1>4 DEF WorkDestruct, WorkFinished, CancelOps, Free
<1>5. ASSUME NEW t \in Threads, HandlerReturn(t) \/ HandlerThrow(t) PROVE CallInv'
  BY <1>5 DEF HandlerReturn, HandlerThrow
<1>6. ASSUME NEW t \in Threads, PushOps(t) PROVE CallInv'
  BY <1>6 DEF PushOps, Resume, Looping
<1>7. ASSUME NEW t \in Threads, StopNoWork(t) PROVE CallInv'
  BY <1>7 DEF StopNoWork, Resume, Looping
<1>8. ASSUME NEW t \in Threads, FinishWork(t) PROVE CallInv'
  BY <1>8 DEF FinishWork, WorkFinished, Resume, Looping
<1>9. ASSUME NEW t \in Threads, ReturnStopped(t) \/ PollDone(t) \/ PollEmpty(t)
      PROVE  CallInv'
  BY <1>9 DEF ReturnStopped, PollDone, PollEmpty, Leave
<1>10. ASSUME NEW t \in Threads,
              Lock(t) \/ RunTask(t) \/ GoIdle(t) \/ Wakeup(t) \/ TaskReturn(t)
              \/ TaskSpurious(t) \/ TaskCleanup(t)
       PROVE  CallInv'
  BY <1>10 DEF Lock, RunTask, AtFront, GoIdle, Wakeup, TaskReturn, TaskSpurious, TaskCleanup
<1>11. ASSUME NEW t \in Threads, RunHandler(t) PROVE CallInv'
  BY <1>11 DEF RunHandler
<1>12. ASSUME NEW o \in Ops, EventOccurs(o) PROVE CallInv'
  BY <1>12 DEF EventOccurs, stk
<1>13. CASE UNCHANGED vars
  BY <1>13 DEF vars, stk
<1> QED
  BY <1>1, <1>2, <1>3, <1>4, <1>5, <1>6, <1>7, <1>8, <1>9, <1>10, <1>11, <1>12, <1>13
     DEF Next, Internal, Program, Gone

-----------------------------------------------------------------------------
(* Polling threads.                                                        *)

\* Steps after which the polling threads are those of before, and as many of
\* them in do_one with the same queue.
LEMMA PollQuiet ==
    ASSUME TypeOK, MutexInv, PollInv,
           \A t \in Threads : Polling(t)' =>
              \/ ~(pc'[t] \in {"idle", "loop"}) /\ Polling(t)
              \/ pc'[t] = pc[t] /\ task_has_run'[t] = task_has_run[t] /\ Polling(t)
                 /\ (op_queue_' = op_queue_ \/ mutex_ # t)
    PROVE  PollInv'
BY DEF PollInv, MutexInv

LEMMA AppendEndsWithTask ==
    ASSUME NEW q \in Seq(Ops \cup {TaskOp})
    PROVE  EndsWithTask(Append(q, TaskOp))
<1>1. /\ Len(q) \in Nat
      /\ Append(q, TaskOp) # <<>>
      /\ Len(Append(q, TaskOp)) = Len(q) + 1
      /\ Append(q, TaskOp)[Len(q) + 1] = TaskOp
  OBVIOUS
<1> QED
  BY <1>1 DEF EndsWithTask

LEMMA PollStep == TypeInv /\ WakeInv /\ PollInv /\ [Next]_vars => PollInv'
<1> SUFFICES ASSUME TypeInv, WakeInv, PollInv, [Next]_vars PROVE PollInv'
  OBVIOUS
<1>a. /\ TypeOK /\ MutexInv
      /\ pc \in [Threads -> PCs]
      /\ call \in [Threads -> EntryPoints \cup {"none"}]
      /\ task_has_run \in [Threads -> BOOLEAN]
  BY DEF TypeInv, TypeOK, WakeInv
<1>d. NoThread \notin Threads
  BY ConstantsAssumption DEF ConstantsAssumption
<1> USE <1>a, <1>d DEF Goto
<1>1. ASSUME NEW t \in Threads, NEW c \in Calls, Enter(t, c) PROVE PollInv'
  <2>1. /\ pc[t] = "out" /\ UNCHANGED <<mutex_, op_queue_, task_has_run>>
        /\ \/ pc' = [pc EXCEPT ![t] = "stopping"] /\ UNCHANGED call
           \/ pc' = [pc EXCEPT ![t] = "enter"] /\ call' = [call EXCEPT ![t] = c]
    BY <1>1 DEF Enter, svc
  <2>2. NoPolling => c \notin {"poll", "poll_one"}
    BY DEF NoPolling
  <2> QED
    BY <2>1, <2>2 DEF PollInv, Polling
<1>2. ASSUME NEW t \in Threads, NEW o \in Ops, Post(t, o) \/ StartAsync(t, o)
      PROVE  PollInv'
  BY <1>2, PollQuiet DEF Post, StartAsync, stk, Polling
<1>3. ASSUME NEW t \in Threads, Stop(t) \/ Reset(t) \/ WorkConstruct(t) PROVE PollInv'
  BY <1>3, PollQuiet DEF Stop, Reset, WorkConstruct, stk, Polling
<1>4. ASSUME NEW t \in Threads, InitTask(t) \/ Shutdown(t) PROVE PollInv'
  BY <1>4, PollQuiet DEF InitTask, Shutdown, Locked, stk, Polling
<1>5. ASSUME NEW t \in Threads, WorkDestruct(t) \/ CancelOps(t) PROVE PollInv'
  BY <1>5, PollQuiet DEF WorkDestruct, WorkFinished, CancelOps, Free, svc, Polling
<1>6. ASSUME NEW t \in Threads, HandlerReturn(t) \/ HandlerThrow(t) PROVE PollInv'
  BY <1>6, PollQuiet DEF HandlerReturn, HandlerThrow, svc, Polling
<1>7. ASSUME NEW t \in Threads, PushOps(t) PROVE PollInv'
  BY <1>7, PollQuiet DEF PushOps, Locked, Resume, Polling
<1>8. ASSUME NEW t \in Threads, StopNoWork(t) \/ FinishWork(t) PROVE PollInv'
  BY <1>8, PollQuiet DEF StopNoWork, FinishWork, WorkFinished, Resume, Polling
<1>9. ASSUME NEW t \in Threads, ReturnStopped(t) \/ PollDone(t) \/ PollEmpty(t)
      PROVE  PollInv'
  <2>1. /\ pc[t] = "loop"
        /\ pc' = [pc EXCEPT ![t] = "out"] /\ call' = [call EXCEPT ![t] = "none"]
        /\ task_has_run' = [task_has_run EXCEPT ![t] = FALSE]
    BY <1>9 DEF ReturnStopped, PollDone, PollEmpty, AtFront, Leave
  <2> QED
    BY <2>1, PollQuiet DEF MutexInv, Polling
<1>10. ASSUME NEW t \in Threads, RunTask(t) PROVE PollInv'
  <2>1. /\ pc[t] = "loop" /\ UNCHANGED call
        /\ \/ pc' = [pc EXCEPT ![t] = "task_poll"]
           \/ pc' = [pc EXCEPT ![t] = "task_wait"]
        /\ task_has_run' = [task_has_run EXCEPT ![t] = TRUE]
    BY <1>10 DEF RunTask, AtFront
  <2> QED
    BY <2>1, PollQuiet DEF MutexInv, Polling
<1>11. ASSUME NEW t \in Threads, RunHandler(t) PROVE PollInv'
  <2>1. /\ pc[t] = "loop" /\ pc' = [pc EXCEPT ![t] = "handler"]
        /\ UNCHANGED <<call, task_has_run>>
    BY <1>11 DEF RunHandler, AtFront
  <2> QED
    BY <2>1, PollQuiet DEF MutexInv, Polling
<1>12. ASSUME NEW t \in Threads, GoIdle(t) \/ Wakeup(t) PROVE PollInv'
  <2>1. /\ ~Polling(t) /\ UNCHANGED <<call, task_has_run, op_queue_>>
        /\ \A u \in Threads \ {t} : pc'[u] = pc[u]
    BY <1>12 DEF GoIdle, Wakeup, PollInv
  <2> QED
    BY <2>1, PollQuiet DEF Polling
<1>13. ASSUME NEW t \in Threads, Lock(t) PROVE PollInv'
  BY <1>13 DEF Lock, PollInv, Polling
<1>14. ASSUME NEW t \in Threads, TaskReturn(t) \/ TaskSpurious(t) PROVE PollInv'
  BY <1>14, PollQuiet DEF TaskReturn, TaskSpurious, svc, Polling
<1>15. ASSUME NEW t \in Threads, TaskCleanup(t) PROVE PollInv'
  <2>1. /\ mutex_ = NoThread /\ pc' = [pc EXCEPT ![t] = "loop"]
        /\ op_queue_' = Append(op_queue_ \o local_ops[t], TaskOp)
        /\ UNCHANGED <<call, task_has_run>>
    BY <1>15 DEF TaskCleanup, Locked
  <2>2. op_queue_ \o local_ops[t] \in Seq(Ops \cup {TaskOp})
    BY DEF TypeOK
  <2>3. EndsWithTask(op_queue_')
    BY <2>1, <2>2, AppendEndsWithTask
  <2> QED
    BY <2>1, <2>3 DEF PollInv, MutexInv, Polling
<1>16. ASSUME NEW o \in Ops, EventOccurs(o) PROVE PollInv'
  BY <1>16, PollQuiet DEF EventOccurs, svc, stk, Polling
<1>17. CASE UNCHANGED vars
  BY <1>17, PollQuiet DEF vars, svc, stk, Polling
<1> QED
  BY <1>1, <1>2, <1>3, <1>4, <1>5, <1>6, <1>7, <1>8, <1>9, <1>10, <1>11, <1>12, <1>13,
     <1>14, <1>15, <1>16, <1>17 DEF Next, Internal, Program, Gone

-----------------------------------------------------------------------------
(* Who is asleep, and who stirs.                                           *)

\* A step that keeps the queue's work, puts nobody to sleep and leaves those
\* who stir as they are.
LEMMA QuietKeepsAttendInv ==
    ASSUME Quiet, AttendInv
    PROVE  AttendInv'
BY DEF Quiet, Watched, AttendInv, SleepersWatched, Asleep, Stirring, Work, NoPolling

\* One thread asleep, or the thread in the reactor, is made to stir: either
\* there is a list head to signal, or the only thread asleep is the one in
\* the reactor, which InterruptInv says can be interrupted.
LEMMA WakeOneThreadStirs ==
    ASSUME TypeOK, WakeInv, WakeOneThread,
           \A t \in Threads : pc'[t] \in {"idle", "task_wait"} <=> pc[t] \in {"idle", "task_wait"},
           \A t \in Threads : pc[t] \in {"idle", "task_wait"} => pc'[t] = pc[t]
    PROVE  SleepersWatched'
<1>1. CASE first_idle_thread_ # <<>>
  <2> DEFINE h == Head(first_idle_thread_)
  <2>1. /\ h \in Threads /\ h \in ToSet(first_idle_thread_)
    BY <1>1, ListHead DEF TypeOK, WakeInv, IdleListExact
  <2>2. pc[h] = "idle"
    BY <2>1 DEF WakeInv, IdleListExact
  <2>3. signalled_'[h]
    BY <1>1, <2>1 DEF WakeOneThread, WakeOneIdleThread, TypeOK
  <2> QED
    BY <2>1, <2>2, <2>3 DEF SleepersWatched, Stirring
<1>2. CASE first_idle_thread_ = <<>>
  <2>1. InterruptTask /\ UNCHANGED signalled_
    BY <1>2 DEF WakeOneThread, WakeOneIdleThread
  <2>2. \A t \in Threads : t \notin ToSet(first_idle_thread_)
    BY <1>2 DEF ToSet
  <2> SUFFICES ASSUME NEW t \in Threads, Asleep(t)' PROVE FALSE
    BY DEF SleepersWatched
  <2>3. CASE pc'[t] = "idle"
    BY <2>1, <2>2, <2>3 DEF Asleep, WakeInv, IdleListExact
  <2>4. CASE pc'[t] = "task_wait"
    <3>1. pc[t] = "task_wait" /\ ~wakeup'
      BY <2>4 DEF Asleep
    <3>2. task_ /\ (~task_interrupted_ \/ wakeup)
      BY <3>1 DEF WakeInv, TaskInv, InTask, InterruptInv
    <3> QED
      BY <2>1, <3>1, <3>2, InterruptTaskReaches
  <2> QED
    BY <2>3, <2>4 DEF Asleep
<1> QED
  BY <1>1, <1>2

LEMMA TailOfOne ==
    ASSUME NEW q \in Seq(Ops \cup {TaskOp}), q # <<>>, Once(q), Head(q) = TaskOp,
           EndsWithTask(q)
    PROVE  Tail(q) = <<>>
<1>1. /\ Len(q) \in Nat /\ Len(q) > 0 /\ DOMAIN q = 1..Len(q) /\ q[1] = TaskOp
      /\ Tail(q) \in Seq(Ops \cup {TaskOp}) /\ Len(Tail(q)) = Len(q) - 1
  OBVIOUS
<1>2. Len(q) = 1
  BY <1>1 DEF EndsWithTask, Once
<1>3. \A r \in Seq(Ops \cup {TaskOp}) : Len(r) = 0 => r = <<>>
  OBVIOUS
<1>4. Len(Tail(q)) = 0
  BY <1>1, <1>2
<1> QED
  BY <1>1, <1>3, <1>4

LEMMA NoWork ==
    /\ ~Work(<<>>)
    /\ ~NoPolling => ~Work(<<TaskOp>>)
BY ConstantsAssumption DEF Work, ToSet, ConstantsAssumption

LEMMA AttendStep == TypeInv /\ WakeInv /\ PoolInv /\ [Next]_vars => AttendInv'
<1> SUFFICES ASSUME TypeInv, WakeInv, PoolInv, [Next]_vars PROVE AttendInv'
  OBVIOUS
<1>a. /\ TypeOK /\ AttendInv /\ CallInv /\ PollInv
      /\ MutexInv /\ IdleListExact /\ TaskInv
  BY DEF TypeInv, PoolInv, WakeInv
<1>b. /\ pc \in [Threads -> PCs]
      /\ op_queue_ \in Seq(Ops \cup {TaskOp})
  BY <1>a DEF TypeOK
<1> USE <1>a, <1>b DEF Goto
<1>1. ASSUME NEW t \in Threads, Stop(t) \/ StopNoWork(t) PROVE AttendInv'
  BY <1>1 DEF Stop, StopNoWork, StopAllThreads, AttendInv
<1>2. ASSUME NEW t \in Threads, Reset(t) PROVE AttendInv'
  <2>1. \A u \in Threads : call[u] = "none" /\ pc'[u] = pc[u]
    BY <1>2 DEF Reset, stk
  <2>2. \A u \in Threads : ~Asleep(u)'
    BY <2>1 DEF CallInv, Watched, Asleep
  <2> QED
    BY <2>2 DEF AttendInv, SleepersWatched
<1>3. ASSUME NEW t \in Threads, PushOps(t) PROVE AttendInv'
  <2>1. /\ pc[t] = "posting" /\ pc' = [pc EXCEPT ![t] = Resume(t)] /\ WakeOneThread
    BY <1>3 DEF PushOps
  <2>2. Resume(t) \notin {"idle", "task_wait"}
    BY DEF Resume
  <2> QED
    BY <2>1, <2>2, WakeOneThreadStirs DEF AttendInv
<1>4. ASSUME NEW t \in Threads, RunHandler(t) PROVE AttendInv'
  <2>1. /\ pc[t] = "loop" /\ pc' = [pc EXCEPT ![t] = "handler"]
        /\ op_queue_' = Tail(op_queue_)
        /\ op_queue_' # <<>> => WakeOneThread
    BY <1>4 DEF RunHandler, AtFront
  <2> QED
    BY <2>1, NoWork, WakeOneThreadStirs DEF AttendInv
<1>5. ASSUME NEW t \in Threads, RunTask(t) PROVE AttendInv'
  <2>1. /\ op_queue_' = Tail(op_queue_)
        /\ \/ pc' = [pc EXCEPT ![t] = "task_poll"]
           \/ op_queue_' = <<>>
    BY <1>5 DEF RunTask
  <2> QED
    BY <2>1, NoWork DEF AttendInv, SleepersWatched, Stirring
<1>6. ASSUME NEW t \in Threads, PollDone(t) PROVE AttendInv'
  <2>1. /\ pc[t] = "loop" /\ op_queue_ # <<>> /\ Head(op_queue_) = TaskOp
        /\ op_queue_' = Append(Tail(op_queue_), TaskOp)
        /\ task_has_run[t] /\ Polling(t)
    BY <1>6 DEF PollDone, AtFront
  <2>2. ~NoPolling /\ EndsWithTask(op_queue_)
    BY <2>1 DEF PollInv
  <2>3. Tail(op_queue_) = <<>>
    BY <2>1, <2>2, TailOfOne DEF TaskInv
  <2>4. Append(<<>>, TaskOp) = <<TaskOp>>
    OBVIOUS
  <2> QED
    BY <2>1, <2>2, <2>3, <2>4, NoWork DEF AttendInv, NoPolling
<1>7. ASSUME NEW t \in Threads, GoIdle(t) \/ PollEmpty(t) \/ Shutdown(t) PROVE AttendInv'
  <2>1. op_queue_' = <<>>
    BY <1>7 DEF GoIdle, PollEmpty, Shutdown
  <2> QED
    BY <2>1, NoWork DEF AttendInv
<1>8. ASSUME NEW t \in Threads, ReturnStopped(t) PROVE AttendInv'
  BY <1>8 DEF ReturnStopped, AttendInv
\* The acting thread itself is awake when the step is over.
<1>9. ASSUME NEW t \in Threads,
             Lock(t) \/ Wakeup(t) \/ TaskReturn(t) \/ TaskSpurious(t) \/ TaskCleanup(t)
      PROVE  AttendInv'
  <2>1. pc'[t] \in {"loop", "cleanup"}
    BY <1>9 DEF Lock, Wakeup, TaskReturn, TaskSpurious, TaskCleanup
  <2> QED
    BY <2>1 DEF AttendInv, SleepersWatched, Stirring
\* The first service to need the reactor wakes a thread for it.
<1>10. ASSUME NEW t \in Threads, InitTask(t) PROVE AttendInv'
  <2>1. ~task_ /\ wakeup' /\ WakeOneIdleThread /\ UNCHANGED pc
    BY <1>10 DEF InitTask, stk
  <2>2. CASE first_idle_thread_ = <<>>
    <3>1. UNCHANGED signalled_ /\ \A u \in Threads : u \notin ToSet(first_idle_thread_)
      BY <2>1, <2>2 DEF WakeOneIdleThread, ToSet
    <3>2. \A u \in Threads : ~Asleep(u)'
      BY <2>1, <3>1 DEF IdleListExact, Asleep
    <3> QED
      BY <3>2 DEF AttendInv, SleepersWatched
  <2>3. CASE first_idle_thread_ # <<>>
    <3> DEFINE h == Head(first_idle_thread_)
    <3>1. h \in Threads /\ h \in ToSet(first_idle_thread_)
      BY <2>3, ListHead DEF TypeOK, IdleListExact
    <3>2. pc'[h] = "idle" /\ signalled_'[h]
      BY <2>1, <2>3, <3>1 DEF WakeOneIdleThread, IdleListExact, TypeOK
    <3> QED
      BY <3>1, <3>2 DEF AttendInv, SleepersWatched, Stirring
  <2> QED
    BY <2>2, <2>3
<1>11. CASE Quiet
  BY <1>11, QuietKeepsAttendInv
<1> QED
  BY <1>1, <1>2, <1>3, <1>4, <1>5, <1>6, <1>7, <1>8, <1>9, <1>10, <1>11, QuietSteps
     DEF Next, Internal, Program, Gone

-----------------------------------------------------------------------------
(* The theorems.                                                           *)

LEMMA PoolInit == Init => PoolInv
<1> SUFFICES ASSUME Init PROVE PoolInv
  OBVIOUS
<1>1. AttendInv
  BY NoWork DEF Init, AttendInv
<1>2. CallInv /\ PollInv
  BY DEF Init, CallInv, Watched, PollInv, Polling
<1> QED
  BY <1>1, <1>2 DEF PoolInv

LEMMA PoolStep == TypeInv /\ WakeInv /\ PoolInv /\ [Next]_vars => PoolInv'
BY CallStep, PollStep, AttendStep DEF PoolInv

(* A running service never leaves a handler in its queue to a pool asleep. *)
THEOREM HandlersAreAttended == Spec => []HandlerAttended
<1>1. PoolInv => HandlerAttended
  BY DEF PoolInv, AttendInv, Work, SleepersWatched, Asleep, Stirring, HandlerAttended,
         Parked, Awake
<1> QED
  BY <1>1, TypeInit, TypeStep, WakeInit, WakeStep, PoolInit, PoolStep, PTL DEF Spec

(* Nor does it leave the reactor in the queue to a pool asleep, if the     *)
(* program never polls: a polling thread that has run the reactor once     *)
(* puts it back and returns without waking anyone.                         *)
THEOREM TaskIsAttended == ASSUME NoPolling PROVE Spec => []TaskAttended
<1>1. PoolInv => TaskAttended
  BY DEF PoolInv, AttendInv, Work, SleepersWatched, Asleep, Stirring, TaskAttended,
         Parked, Awake
<1> QED
  BY <1>1, TypeInit, TypeStep, WakeInit, WakeStep, PoolInit, PoolStep, PTL DEF Spec

-----------------------------------------------------------------------------
(***************************************************************************)
(* Where every operation of TaskIoService is, for any number of threads    *)
(* and operations: in one place, and counted once; hence the scheduler is  *)
(* a HandlerPool.                                                          *)
(*                                                                         *)
(* The invariant says what the stack of a thread may hold at each pc       *)
(* (StackInv), that the task is kept (TaskKept), that an operation in      *)
(* flight is in the queue, in the reactor or with one thread and no        *)
(* operation is there twice (PlaceInv, ListInv), and what the count counts *)
(* (WorkCounted).                                                          *)
(***************************************************************************)

-----------------------------------------------------------------------------
(* The inductive invariant.                                                *)

\* What a thread has on its stack, by pc.
StackInv ==
    \A t \in Threads :
        /\ local_ops[t] # <<>> => pc[t] \in {"posting", "cleanup"}
        /\ cur[t] # NoOp => pc[t] \in {"handler", "posting", "stopping"}
                            /\ call[t] # "none"
        /\ pc[t] = "out" => call[t] = "none"
        /\ pc[t] = "posting" /\ cur[t] = NoOp => call[t] = "none"
        /\ pc[t] = "finish" => call[t] # "none"
        /\ shutdown_ => pc[t] = "out"

\* The reactor is looked for in the queue, or by the thread that runs it.
TaskKept == task_ => TaskInQueue \/ \E t \in Threads : InTask(t)

Queue    == ToSet(op_queue_)
Local(t) == ToSet(local_ops[t])

Has(t, o) == cur[t] = o \/ o \in Local(t)

\* An operation is in flight if it is somewhere, and it is not elsewhere.
Placed(o) ==
    /\ o \in fresh => o \notin done /\ o \notin destroyed
    /\ o \in InFlight <=> \/ o \in Queue
                          \/ o \in pending
                          \/ \E t \in Threads : Has(t, o)
    /\ ~(o \in Queue /\ o \in pending)
    /\ \A t \in Threads : Has(t, o) => o \notin Queue /\ o \notin pending
    /\ \A t, u \in Threads : Has(t, o) /\ Has(u, o) => t = u
    /\ \A t \in Threads : ~(cur[t] = o /\ o \in Local(t))

PlaceInv == \A o \in Ops : Placed(o)

\* No list has an operation twice.
ListInv == /\ IsInjective(op_queue_)
           /\ \A t \in Threads : IsInjective(local_ops[t])

-----------------------------------------------------------------------------
(* Lists that grow at the end and shrink at the front.                     *)

LEMMA Members ==
    ASSUME NEW s, NEW y
    PROVE  y \in ToSet(s) <=> \E i \in DOMAIN s : s[i] = y
BY DEF ToSet

LEMMA Short ==
    /\ ToSet(<<>>) = {} /\ IsInjective(<<>>)
    /\ \A y : ToSet(<<y>>) = {y} /\ IsInjective(<<y>>)
BY DEF ToSet, IsInjective

LEMMA Joined ==
    ASSUME NEW T, NEW s \in Seq(T), NEW u \in Seq(T)
    PROVE  /\ ToSet(s \o u) = ToSet(s) \cup ToSet(u)
           /\ IsInjective(s) /\ IsInjective(u) /\ ToSet(s) \cap ToSet(u) = {}
                 => IsInjective(s \o u)
<1> DEFINE r == s \o u
           n == Len(s)
<1>1. /\ n \in Nat /\ Len(u) \in Nat
      /\ DOMAIN s = 1..n /\ DOMAIN u = 1..Len(u) /\ DOMAIN r = 1..(n + Len(u))
      /\ \A i \in 1..(n + Len(u)) : r[i] = IF i <= n THEN s[i] ELSE u[i - n]
  OBVIOUS
<1> HIDE DEF r, n
<1>2. \A i \in DOMAIN r : \/ i \in DOMAIN s /\ r[i] = s[i]
                          \/ /\ i - n \in DOMAIN u /\ r[i] = u[i - n]
                             /\ i = (i - n) + n
  BY <1>1
<1>3. \A i \in DOMAIN s : i \in DOMAIN r /\ r[i] = s[i]
  BY <1>1
<1>4. \A i \in DOMAIN u : i + n \in DOMAIN r /\ r[i + n] = u[i]
  <2> TAKE i \in DOMAIN u
  <2>1. i + n \in 1..(n + Len(u)) /\ ~(i + n <= n) /\ (i + n) - n = i
    BY <1>1
  <2> QED
    BY <1>1, <2>1
<1>5. ASSUME NEW y PROVE y \in ToSet(r) <=> y \in ToSet(s) \/ y \in ToSet(u)
  <2>1. ASSUME NEW i \in DOMAIN r, r[i] = y PROVE y \in ToSet(s) \/ y \in ToSet(u)
    BY <1>2, <2>1, Members
  <2>2. ASSUME NEW i \in DOMAIN s, s[i] = y PROVE y \in ToSet(r)
    BY <1>3, <2>2, Members
  <2>3. ASSUME NEW i \in DOMAIN u, u[i] = y PROVE y \in ToSet(r)
    BY <1>4, <2>3, Members
  <2> QED
    BY <2>1, <2>2, <2>3, Members
<1>6. ASSUME IsInjective(s), IsInjective(u), ToSet(s) \cap ToSet(u) = {},
             NEW i \in DOMAIN r, NEW j \in DOMAIN r, r[i] = r[j]
      PROVE  i = j
  <2>1. /\ \A k \in DOMAIN s : s[k] \in ToSet(s)
        /\ \A k \in DOMAIN u : u[k] \in ToSet(u)
    BY DEF ToSet
  <2>2. CASE i \in DOMAIN s /\ r[i] = s[i]
    BY <1>2, <1>6, <2>1, <2>2, Zenon DEF IsInjective
  <2>3. CASE i - n \in DOMAIN u /\ r[i] = u[i - n] /\ i = (i - n) + n
    <3>1. CASE j \in DOMAIN s /\ r[j] = s[j]
      BY <1>6, <2>1, <2>3, <3>1, Zenon
    <3>2. CASE j - n \in DOMAIN u /\ r[j] = u[j - n] /\ j = (j - n) + n
      <4>1. i - n = j - n
        BY <1>6, <2>3, <3>2, Zenon DEF IsInjective
      <4> QED
        BY <2>3, <3>2, <4>1, Zenon
    <3> QED
      BY <1>2, <3>1, <3>2
  <2> QED
    BY <1>2, <2>2, <2>3
<1>7. ToSet(r) = ToSet(s) \cup ToSet(u)
  BY <1>5
<1> QED
  BY <1>6, <1>7 DEF r, IsInjective

LEMMA Appended ==
    ASSUME NEW T, NEW s \in Seq(T), NEW x \in T
    PROVE  /\ ToSet(Append(s, x)) = ToSet(s) \cup {x}
           /\ IsInjective(s) /\ x \notin ToSet(s) => IsInjective(Append(s, x))
<1>1. PICK u \in Seq(T) : u = <<x>> /\ Append(s, x) = s \o u
  <2>1. Append(s, x) = s \o <<x>> /\ <<x>> \in Seq(T)
    OBVIOUS
  <2> QED
    BY <2>1, Zenon
<1>2. ToSet(u) = {x} /\ IsInjective(u)
  BY <1>1, Short, Zenon
<1>3. /\ ToSet(s \o u) = ToSet(s) \cup ToSet(u)
      /\ IsInjective(s) /\ IsInjective(u) /\ ToSet(s) \cap ToSet(u) = {}
            => IsInjective(s \o u)
  BY Joined, Zenon
<1>4. x \notin ToSet(s) => ToSet(s) \cap ToSet(u) = {}
  BY <1>2
<1> QED
  BY <1>1, <1>2, <1>3, <1>4

LEMMA Popped ==
    ASSUME NEW T, NEW s \in Seq(T), s # <<>>, IsInjective(s)
    PROVE  /\ Head(s) \in ToSet(s)
           /\ Tail(s) \in Seq(T) /\ IsInjective(Tail(s))
           /\ ToSet(Tail(s)) = ToSet(s) \ {Head(s)}
<1> DEFINE r == Tail(s)
<1>1. /\ Len(s) \in Nat \ {0} /\ DOMAIN s = 1..Len(s) /\ DOMAIN r = 1..(Len(s) - 1)
      /\ \A i \in 1..(Len(s) - 1) : r[i] = s[i + 1]
      /\ Head(s) = s[1] /\ r \in Seq(T)
  OBVIOUS
<1> HIDE DEF r
<1>2. \A i \in DOMAIN r : i + 1 \in DOMAIN s /\ i + 1 # 1 /\ r[i] = s[i + 1]
  BY <1>1
<1>3. ASSUME NEW i \in DOMAIN s, i # 1 PROVE i - 1 \in DOMAIN r /\ r[i - 1] = s[i]
  <2>1. i - 1 \in 1..(Len(s) - 1) /\ (i - 1) + 1 = i
    BY <1>1, <1>3
  <2> QED
    BY <1>1, <2>1
<1>4. 1 \in DOMAIN s /\ \A i, j \in DOMAIN s : s[i] = s[j] => i = j
  BY <1>1 DEF IsInjective
<1>5. ASSUME NEW i \in DOMAIN r, NEW j \in DOMAIN r, r[i] = r[j] PROVE i = j
  <2>1. i + 1 = j + 1
    BY <1>2, <1>4, <1>5
  <2> QED
    BY <1>1, <2>1
<1>6. ASSUME NEW y PROVE y \in ToSet(r) <=> y \in ToSet(s) /\ y # s[1]
  <2>1. ASSUME NEW i \in DOMAIN r, r[i] = y PROVE y \in ToSet(s) /\ y # s[1]
    BY <1>2, <1>4, <2>1, Members
  <2>2. ASSUME NEW i \in DOMAIN s, s[i] = y, y # s[1] PROVE y \in ToSet(r)
    BY <1>3, <2>2, Members
  <2> QED
    BY <2>1, <2>2, Members
<1>7. Head(s) \in ToSet(s)
  BY <1>1, <1>4 DEF ToSet
<1>8. ToSet(r) = ToSet(s) \ {Head(s)}
  BY <1>1, <1>6
<1> QED
  BY <1>1, <1>5, <1>7, <1>8 DEF r, IsInjective

LEMMA Enumerated ==
    ASSUME NEW S \in SUBSET Ops, NEW s \in SetToSeqs(S)
    PROVE  s \in Seq(Ops) /\ ToSet(s) = S /\ IsInjective(s)
<1>1. IsFiniteSet(S)
  BY FS_Subset, FiniteAssumption
<1> DEFINE n == Cardinality(S)
<1>2. n \in Nat /\ Cardinality(1..n) = n
  <2>1. n \in Nat
    BY <1>1, FS_CardinalityType
  <2> HIDE DEF n
  <2>2. 1 \in Int /\ n \in Int
    BY <2>1
  <2>3. Cardinality(1..n) = IF 1 > n THEN 0 ELSE n - 1 + 1
    BY <2>2, FS_Interval, Zenon
  <2> QED
    BY <2>1, <2>3
<1>3. s \in [1..n -> S] /\ \A i, j \in 1..n : i # j => s[i] # s[j]
  BY Zenon DEF SetToSeqs
<1> HIDE DEF n
<1>4. s \in Injection(1..n, S)
  BY <1>3 DEF Injection, IsInjective
<1>5. s \in Surjection(1..n, S)
  BY <1>1, <1>2, <1>4, FS_Injection DEF n
<1>6. \A y \in S : \E i \in 1..n : s[i] = y
  BY <1>5 DEF Surjection
<1>7. DOMAIN s = 1..n
  BY <1>3
<1>8. ToSet(s) = S
  BY <1>3, <1>6, <1>7 DEF ToSet
<1> QED
  BY <1>3, <1>7, <1>8, SubsetsOfOps DEF IsInjective

-----------------------------------------------------------------------------
(* The stacks of the threads.                                              *)

LEMMA StackStep == TypeInv /\ StackInv /\ CallInv /\ [Next]_vars => StackInv'
<1> SUFFICES ASSUME TypeInv, StackInv, CallInv, [Next]_vars PROVE StackInv'
  OBVIOUS
<1>a. /\ pc \in [Threads -> PCs]
      /\ call \in [Threads -> EntryPoints \cup {"none"}]
      /\ cur \in [Threads -> Ops \cup {NoOp}]
      /\ local_ops \in [Threads -> Seq(Ops)]
      /\ HandlerInv
  BY DEF TypeInv, TypeOK
<1>b. NoOp \notin Ops
  BY ConstantsAssumption DEF ConstantsAssumption
<1>c. \A c \in Calls : c # "none"
  BY ConstantsAssumption DEF ConstantsAssumption, EntryPoints
<1> USE <1>a, <1>b DEF StackInv, Goto
<1>1. ASSUME NEW t \in Threads, NEW c \in Calls, Enter(t, c) PROVE StackInv'
  BY <1>1, <1>c DEF Enter, svc
<1>2. ASSUME NEW t \in Threads, NEW o \in Ops, Post(t, o) PROVE StackInv'
  BY <1>2 DEF Post, Free, HandlerInv
<1>3. ASSUME NEW t \in Threads, NEW o \in Ops, StartAsync(t, o) PROVE StackInv'
  BY <1>3 DEF StartAsync, stk
<1>4. ASSUME NEW t \in Threads, Stop(t) \/ Reset(t) \/ InitTask(t) \/ WorkConstruct(t)
      PROVE  StackInv'
  BY <1>4 DEF Stop, Reset, InitTask, WorkConstruct, StopAllThreads, stk
<1>5. ASSUME NEW t \in Threads, Shutdown(t) PROVE StackInv'
  BY <1>5 DEF Shutdown, stk
<1>6. ASSUME NEW t \in Threads, WorkDestruct(t) PROVE StackInv'
  BY <1>6 DEF WorkDestruct, WorkFinished, Free
<1>7. ASSUME NEW t \in Threads, CancelOps(t) PROVE StackInv'
  <2>1. /\ pc[t] \in {"out", "handler"} /\ pc' = [pc EXCEPT ![t] = "posting"]
        /\ \E s : local_ops' = [local_ops EXCEPT ![t] = s]
        /\ UNCHANGED <<cur, call, shutdown_>> /\ ~shutdown_
    BY <1>7 DEF CancelOps, Free, svc
  <2> QED
    BY <2>1 DEF HandlerInv
<1>8. ASSUME NEW t \in Threads, HandlerReturn(t) PROVE StackInv'
  BY <1>8 DEF HandlerReturn, HandlerInv, svc
<1>9. ASSUME NEW t \in Threads, HandlerThrow(t) PROVE StackInv'
  BY <1>9 DEF HandlerThrow, HandlerInv, svc
<1>10. ASSUME NEW t \in Threads, PushOps(t) PROVE StackInv'
  BY <1>10 DEF PushOps, Resume, Looping
<1>11. ASSUME NEW t \in Threads, StopNoWork(t) PROVE StackInv'
  BY <1>11 DEF StopNoWork, Resume, Looping
<1>12. ASSUME NEW t \in Threads, FinishWork(t) PROVE StackInv'
  BY <1>12 DEF FinishWork, WorkFinished, Resume, Looping
<1>13. ASSUME NEW t \in Threads, ReturnStopped(t) \/ PollDone(t) \/ PollEmpty(t)
       PROVE  StackInv'
  BY <1>13 DEF ReturnStopped, PollDone, PollEmpty, AtFront, Leave
<1>14. ASSUME NEW t \in Threads,
              Lock(t) \/ RunTask(t) \/ GoIdle(t) \/ Wakeup(t) \/ TaskSpurious(t)
       PROVE  StackInv'
  <2>1. CASE Lock(t)
    BY <2>1 DEF Lock, svc
  <2>2. CASE RunTask(t)
    BY <2>2 DEF RunTask, AtFront
  <2>3. CASE GoIdle(t)
    BY <2>3 DEF GoIdle
  <2>4. CASE Wakeup(t)
    BY <2>4 DEF Wakeup, svc
  <2>5. CASE TaskSpurious(t)
    BY <2>5 DEF TaskSpurious, svc
  <2> QED
    BY <1>14, <2>1, <2>2, <2>3, <2>4, <2>5
<1>15. ASSUME NEW t \in Threads, TaskReturn(t) PROVE StackInv'
  <2>1. /\ pc[t] \in {"task_poll", "task_wait"} /\ pc' = [pc EXCEPT ![t] = "cleanup"]
        /\ \E s : local_ops' = [local_ops EXCEPT ![t] = s]
        /\ UNCHANGED <<cur, call, shutdown_>>
    BY <1>15 DEF TaskReturn, svc
  <2> QED
    BY <2>1
<1>16. ASSUME NEW t \in Threads, TaskCleanup(t) PROVE StackInv'
  BY <1>16 DEF TaskCleanup
<1>17. ASSUME NEW t \in Threads, RunHandler(t) PROVE StackInv'
  <2>1. /\ pc[t] = "loop" /\ pc' = [pc EXCEPT ![t] = "handler"]
        /\ \E o \in Ops : cur' = [cur EXCEPT ![t] = o]
        /\ UNCHANGED <<local_ops, call, shutdown_>>
    BY <1>17 DEF RunHandler, AtFront
  <2>2. call[t] # "none"
    BY <2>1 DEF CallInv, Watched
  <2> QED
    BY <2>1, <2>2
<1>18. ASSUME NEW o \in Ops, EventOccurs(o) PROVE StackInv'
  BY <1>18 DEF EventOccurs, svc, stk
<1>19. CASE UNCHANGED vars
  BY <1>19 DEF vars, svc, stk
<1> QED
  BY <1>1, <1>2, <1>3, <1>4, <1>5, <1>6, <1>7, <1>8, <1>9, <1>10, <1>11, <1>12, <1>13,
     <1>14, <1>15, <1>16, <1>17, <1>18, <1>19 DEF Next, Internal, Program, Gone

-----------------------------------------------------------------------------
(* The task is kept: who takes it from the queue is in the reactor until   *)
(* it is back.                                                             *)

LEMMA TaskStep == TypeInv /\ TaskKept /\ ListInv /\ [Next]_vars => TaskKept'
<1> SUFFICES ASSUME TypeInv, TaskKept, ListInv, [Next]_vars PROVE TaskKept'
  OBVIOUS
<1>a. /\ pc \in [Threads -> PCs]
      /\ op_queue_ \in Seq(Ops \cup {TaskOp})
      /\ local_ops \in [Threads -> Seq(Ops)]
      /\ IsInjective(op_queue_)
  BY DEF TypeInv, TypeOK, ListInv
<1>b. TaskOp \notin Ops
  BY ConstantsAssumption DEF ConstantsAssumption
<1>c. \A q \in Seq(Ops \cup {TaskOp}) : TaskOp \in ToSet(Append(q, TaskOp))
  BY Appended
<1> USE <1>a DEF TaskKept, TaskInQueue, InTask, Goto
\* Steps that change neither the queue nor who runs the reactor.
<1>1. ASSUME Quiet PROVE TaskKept'
  BY <1>1 DEF Quiet, Watched
<1>2. ASSUME NEW t \in Threads, Stop(t) \/ Reset(t) PROVE TaskKept'
  BY <1>2 DEF Stop, Reset, StopAllThreads, stk
<1>3. ASSUME NEW t \in Threads, StopNoWork(t) PROVE TaskKept'
  BY <1>3 DEF StopNoWork, StopAllThreads
<1>4. ASSUME NEW t \in Threads,
             Lock(t) \/ ReturnStopped(t) \/ GoIdle(t) \/ PollEmpty(t) \/ Wakeup(t)
      PROVE  TaskKept'
  BY <1>4 DEF Lock, ReturnStopped, GoIdle, PollEmpty, Wakeup, Leave
<1>5. ASSUME NEW t \in Threads, TaskReturn(t) \/ TaskSpurious(t) PROVE TaskKept'
  BY <1>5 DEF TaskReturn, TaskSpurious, svc
<1>6. ASSUME NEW t \in Threads, PushOps(t) PROVE TaskKept'
  <2>1. /\ pc[t] = "posting" /\ pc' = [pc EXCEPT ![t] = Resume(t)] /\ UNCHANGED task_
        /\ op_queue_' = op_queue_ \o local_ops[t]
    BY <1>6 DEF PushOps
  <2>2. local_ops[t] \in Seq(Ops \cup {TaskOp})
    OBVIOUS
  <2>3. ToSet(op_queue_') = ToSet(op_queue_) \cup ToSet(local_ops[t])
    BY <2>1, <2>2, Joined
  <2> QED
    BY <2>1, <2>3
<1>7. ASSUME NEW t \in Threads, RunTask(t) PROVE TaskKept'
  <2>1. \/ pc' = [pc EXCEPT ![t] = "task_poll"]
        \/ pc' = [pc EXCEPT ![t] = "task_wait"]
    BY <1>7 DEF RunTask
  <2> QED
    BY <2>1
<1>8. ASSUME NEW t \in Threads, PollDone(t) PROVE TaskKept'
  <2>1. op_queue_ # <<>> /\ op_queue_' = Append(Tail(op_queue_), TaskOp)
    BY <1>8 DEF PollDone, AtFront
  <2>2. Tail(op_queue_) \in Seq(Ops \cup {TaskOp})
    BY <2>1
  <2> QED
    BY <1>c, <2>1, <2>2
<1>9. ASSUME NEW t \in Threads, RunHandler(t) PROVE TaskKept'
  <2>1. /\ op_queue_ # <<>> /\ Head(op_queue_) \in Ops /\ UNCHANGED task_
        /\ op_queue_' = Tail(op_queue_)
        /\ pc[t] = "loop" /\ pc' = [pc EXCEPT ![t] = "handler"]
    BY <1>9 DEF RunHandler, AtFront
  <2>2. ToSet(op_queue_') = ToSet(op_queue_) \ {Head(op_queue_)}
    BY <2>1, Popped
  <2> QED
    BY <1>b, <2>1, <2>2
<1>10. ASSUME NEW t \in Threads, TaskCleanup(t) PROVE TaskKept'
  <2>1. op_queue_' = Append(op_queue_ \o local_ops[t], TaskOp)
    BY <1>10 DEF TaskCleanup
  <2>2. op_queue_ \o local_ops[t] \in Seq(Ops \cup {TaskOp})
    OBVIOUS
  <2> QED
    BY <1>c, <2>1, <2>2
<1>11. ASSUME NEW t \in Threads, InitTask(t) PROVE TaskKept'
  BY <1>c, <1>11 DEF InitTask
<1>12. ASSUME NEW t \in Threads, Shutdown(t) PROVE TaskKept'
  BY <1>12 DEF Shutdown
<1> QED
  BY <1>1, <1>2, <1>3, <1>4, <1>5, <1>6, <1>7, <1>8, <1>9, <1>10, <1>11, <1>12,
     QuietSteps DEF Next, Internal, Program, Gone

-----------------------------------------------------------------------------
(* Operations move from place to place.                                    *)

\* A step that moves no operation.
Still ==
    /\ UNCHANGED <<fresh, done, destroyed, pending, cur, local_ops>>
    /\ Queue' \cap Ops = Queue \cap Ops
    /\ IsInjective(op_queue_')

LEMMA StillKeeps ==
    ASSUME PlaceInv, ListInv, Still
    PROVE  PlaceInv' /\ ListInv'
<1>1. ListInv'
  BY DEF Still, ListInv
<1>2. \A t \in Threads : Local(t)' = Local(t)
  BY DEF Still, Local
<1>3. ASSUME NEW o \in Ops PROVE Placed(o)'
  <2>1. Placed(o) /\ (o \in Queue' <=> o \in Queue)
    BY DEF PlaceInv, Still
  <2> QED
    BY <1>2, <2>1 DEF Placed, Has, InFlight, Still
<1> QED
  BY <1>1, <1>3 DEF PlaceInv

LEMMA SameQueueStill ==
    ASSUME ListInv,
           UNCHANGED <<fresh, done, destroyed, pending, cur, local_ops, op_queue_>>
    PROVE  Still
BY DEF Still, Queue, ListInv

\* What a thread's own list becomes.
LEMMA LocalBecomes ==
    ASSUME TypeOK, NEW t \in Threads, NEW s,
           local_ops' = [local_ops EXCEPT ![t] = s]
    PROVE  /\ local_ops'[t] = s /\ Local(t)' = ToSet(s)
           /\ \A u \in Threads \ {t} : local_ops'[u] = local_ops[u] /\ Local(u)' = Local(u)
BY DEF TypeOK, Local

\* Steps that move the task only.
LEMMA TaskMoves ==
    ASSUME TypeInv, ListInv, TaskInv, NEW t \in Threads,
           RunTask(t) \/ PollDone(t) \/ InitTask(t)
    PROVE  Still
<1>a. /\ op_queue_ \in Seq(Ops \cup {TaskOp}) /\ IsInjective(op_queue_)
  BY DEF TypeInv, TypeOK, ListInv
<1>b. TaskOp \notin Ops
  BY ConstantsAssumption DEF ConstantsAssumption
<1> USE <1>a, <1>b DEF Still, Queue
<1>1. CASE RunTask(t)
  <2>1. op_queue_ # <<>> /\ Head(op_queue_) = TaskOp /\ op_queue_' = Tail(op_queue_)
    BY <1>1 DEF RunTask, AtFront
  <2>2. Queue' = Queue \ {TaskOp} /\ IsInjective(op_queue_')
    BY <2>1, Popped
  <2> QED
    BY <1>1, <2>2 DEF RunTask, env
<1>2. CASE PollDone(t)
  <2> DEFINE q == Tail(op_queue_)
  <2>1. /\ op_queue_ # <<>> /\ Head(op_queue_) = TaskOp
        /\ op_queue_' = Append(q, TaskOp)
    BY <1>2 DEF PollDone, AtFront
  <2>2. /\ q \in Seq(Ops \cup {TaskOp}) /\ IsInjective(q)
        /\ ToSet(q) = Queue \ {TaskOp}
    BY <2>1, Popped
  <2> HIDE DEF q
  <2>3. Queue' = (Queue \ {TaskOp}) \cup {TaskOp} /\ IsInjective(op_queue_')
    BY <2>1, <2>2, Appended
  <2> QED
    BY <1>2, <2>3 DEF PollDone, env
<1>3. CASE InitTask(t)
  <2>1. op_queue_' = Append(op_queue_, TaskOp) /\ TaskOp \notin ToSet(op_queue_)
    BY <1>3 DEF InitTask, TaskInv, TaskInQueue
  <2>2. Queue' = Queue \cup {TaskOp} /\ IsInjective(op_queue_')
    BY <2>1, Appended
  <2> QED
    BY <1>3, <2>2 DEF InitTask, stk
<1> QED
  BY <1>1, <1>2, <1>3

\* A thread's own list joins the queue, after the task or before it.
LEMMA JoinQueue ==
    ASSUME TypeInv, PlaceInv, ListInv, NEW t \in Threads,
           local_ops' = [local_ops EXCEPT ![t] = <<>>],
           UNCHANGED <<fresh, done, destroyed, pending, cur>>,
           \/ op_queue_' = op_queue_ \o local_ops[t]
           \/ TaskOp \notin Queue /\ op_queue_' = Append(op_queue_ \o local_ops[t], TaskOp)
    PROVE  PlaceInv' /\ ListInv'
<1>a. /\ op_queue_ \in Seq(Ops \cup {TaskOp}) /\ IsInjective(op_queue_)
      /\ local_ops[t] \in Seq(Ops \cup {TaskOp}) /\ IsInjective(local_ops[t])
      /\ local_ops[t] \in Seq(Ops)
  BY DEF TypeInv, TypeOK, ListInv
<1>b. TaskOp \notin Ops /\ Local(t) \subseteq Ops
  BY <1>a, ConstantsAssumption DEF ConstantsAssumption, Local, ToSet
<1>c. ToSet(op_queue_) \cap ToSet(local_ops[t]) = {}
  BY <1>b DEF PlaceInv, Placed, Has, Queue, Local
<1> DEFINE q == op_queue_ \o local_ops[t]
<1>1. /\ q \in Seq(Ops \cup {TaskOp}) /\ IsInjective(q)
      /\ ToSet(q) = Queue \cup Local(t)
  BY <1>a, <1>c, Joined DEF Queue, Local
<1>2. /\ IsInjective(op_queue_')
      /\ Queue' \cap Ops = (Queue \cup Local(t)) \cap Ops
  <2> HIDE DEF q
  <2>1. CASE op_queue_' = q
    BY <1>1, <2>1 DEF Queue
  <2>2. CASE TaskOp \notin Queue /\ op_queue_' = Append(q, TaskOp)
    BY <1>1, <1>b, <2>2, Appended DEF Queue
  <2> QED
    BY <2>1, <2>2 DEF q
<1>3. /\ local_ops'[t] = <<>> /\ Local(t)' = {}
      /\ \A u \in Threads \ {t} : local_ops'[u] = local_ops[u] /\ Local(u)' = Local(u)
  BY LocalBecomes, Short DEF TypeInv
<1>4. ListInv'
  BY <1>2, <1>3, Short DEF ListInv
<1>5. ASSUME NEW o \in Ops PROVE Placed(o)'
  <2>1. Placed(o) /\ (o \in Queue' <=> o \in Queue \/ o \in Local(t))
    BY <1>2 DEF PlaceInv
  <2> QED
    BY <1>3, <2>1 DEF Placed, Has, InFlight
<1> QED
  BY <1>4, <1>5 DEF PlaceInv

\* Operations leave the reactor for a thread's own list.
LEMMA Withdrawn ==
    ASSUME TypeInv, PlaceInv, ListInv, NEW t \in Threads, NEW c \in SUBSET pending,
           NEW s \in SetToSeqs(c),
           local_ops[t] = <<>>,
           local_ops' = [local_ops EXCEPT ![t] = s],
           pending' = pending \ c,
           UNCHANGED <<fresh, done, destroyed, cur, op_queue_>>
    PROVE  PlaceInv' /\ ListInv'
<1>1. c \in SUBSET Ops
  BY DEF TypeInv, TypeOK
<1>2. ToSet(s) = c /\ IsInjective(s)
  BY <1>1, Enumerated
<1>3. /\ local_ops'[t] = s /\ Local(t)' = c /\ Local(t) = {}
      /\ \A u \in Threads \ {t} : local_ops'[u] = local_ops[u] /\ Local(u)' = Local(u)
  BY <1>2, LocalBecomes, Short DEF TypeInv, Local
<1>4. ListInv'
  BY <1>2, <1>3 DEF ListInv
<1>5. Queue' = Queue
  BY DEF Queue
<1>6. ASSUME NEW o \in Ops PROVE Placed(o)'
  <2>1. Placed(o)
    BY DEF PlaceInv
  <2> QED
    BY <1>3, <1>5, <2>1 DEF Placed, Has, InFlight
<1> QED
  BY <1>4, <1>6 DEF PlaceInv

LEMMA PlaceStep ==
    TypeInv /\ TaskInv /\ StackInv /\ PlaceInv /\ ListInv /\ [Next]_vars
        => PlaceInv' /\ ListInv'
<1> SUFFICES ASSUME TypeInv, TaskInv, StackInv, PlaceInv, ListInv, [Next]_vars
             PROVE  PlaceInv' /\ ListInv'
  OBVIOUS
<1>a. /\ pc \in [Threads -> PCs]
      /\ cur \in [Threads -> Ops \cup {NoOp}]
      /\ local_ops \in [Threads -> Seq(Ops)]
      /\ op_queue_ \in Seq(Ops \cup {TaskOp})
      /\ pending \subseteq Ops /\ ready \subseteq pending
      /\ TypeOK /\ HandlerInv
  BY DEF TypeInv, TypeOK
<1>b. NoOp \notin Ops /\ TaskOp \notin Ops
  BY ConstantsAssumption DEF ConstantsAssumption
<1>1. CASE Still
  BY <1>1, StillKeeps
<1>2. ASSUME NEW t \in Threads,
             \/ \E c \in Calls : Enter(t, c)
             \/ Stop(t) \/ Reset(t) \/ WorkConstruct(t) \/ WorkDestruct(t)
      PROVE  Still
  BY <1>2, SameQueueStill DEF Enter, Stop, Reset, WorkConstruct, WorkDestruct, stk, svc, env
<1>3. ASSUME NEW t \in Threads,
             \/ StopNoWork(t) \/ Lock(t) \/ ReturnStopped(t) \/ GoIdle(t)
             \/ PollEmpty(t) \/ Wakeup(t) \/ TaskSpurious(t) \/ FinishWork(t)
      PROVE  Still
  BY <1>3, SameQueueStill
     DEF StopNoWork, Lock, ReturnStopped, GoIdle, PollEmpty, Wakeup, TaskSpurious,
         FinishWork, svc, env
<1>4. ASSUME NEW o \in Ops, EventOccurs(o) PROVE Still
  BY <1>4, SameQueueStill DEF EventOccurs, svc, stk
<1>5. CASE UNCHANGED vars
  BY <1>1, <1>5, SameQueueStill DEF vars, svc, stk, env
<1>6. ASSUME NEW t \in Threads, RunTask(t) \/ PollDone(t) \/ InitTask(t) PROVE Still
  BY <1>6, TaskMoves
<1>7. ASSUME NEW t \in Threads, NEW p \in Ops, Post(t, p) PROVE PlaceInv' /\ ListInv'
  <2>1. /\ p \in fresh /\ fresh' = fresh \ {p} /\ pc[t] \in {"out", "handler"}
        /\ local_ops' = [local_ops EXCEPT ![t] = <<p>>]
        /\ UNCHANGED <<done, destroyed, pending, cur, op_queue_>>
    BY <1>7 DEF Post, Free
  <2>2. local_ops[t] = <<>>
    BY <2>1 DEF StackInv
  <2>3. /\ local_ops'[t] = <<p>> /\ Local(t)' = {p} /\ Local(t) = {}
        /\ \A u \in Threads \ {t} : local_ops'[u] = local_ops[u] /\ Local(u)' = Local(u)
    BY <1>a, <2>1, <2>2, LocalBecomes, Short DEF Local
  <2>4. ListInv'
    BY <2>1, <2>3, Short DEF ListInv
  <2>5. ASSUME NEW o \in Ops PROVE Placed(o)'
    <3>1. Placed(o) /\ (o \in Queue' <=> o \in Queue)
      BY <2>1 DEF PlaceInv, Queue
    <3> QED
      BY <2>1, <2>3, <3>1 DEF Placed, Has, InFlight
  <2> QED
    BY <2>4, <2>5 DEF PlaceInv
<1>8. ASSUME NEW t \in Threads, NEW p \in Ops, StartAsync(t, p) PROVE PlaceInv' /\ ListInv'
  <2>1. /\ p \in fresh /\ fresh' = fresh \ {p} /\ pending' = pending \cup {p}
        /\ UNCHANGED <<done, destroyed, local_ops, cur, op_queue_>>
    BY <1>8 DEF StartAsync, stk
  <2>2. ListInv' /\ Queue' = Queue /\ \A u \in Threads : Local(u)' = Local(u)
    BY <2>1 DEF ListInv, Queue, Local
  <2>3. ASSUME NEW o \in Ops PROVE Placed(o)'
    <3>1. Placed(o)
      BY DEF PlaceInv
    <3> QED
      BY <2>1, <2>2, <3>1 DEF Placed, Has, InFlight
  <2> QED
    BY <2>2, <2>3 DEF PlaceInv
<1>9. ASSUME NEW t \in Threads, PushOps(t) PROVE PlaceInv' /\ ListInv'
  BY <1>9, JoinQueue DEF PushOps
<1>10. ASSUME NEW t \in Threads, TaskCleanup(t) PROVE PlaceInv' /\ ListInv'
  <2>1. TaskOp \notin Queue
    BY <1>10 DEF TaskCleanup, TaskInv, InTask, TaskInQueue, Queue
  <2> QED
    BY <1>10, <2>1, JoinQueue DEF TaskCleanup, env
<1>11. ASSUME NEW t \in Threads, CancelOps(t) PROVE PlaceInv' /\ ListInv'
  <2>1. PICK c \in SUBSET pending \ {{}} :
           /\ \E s \in SetToSeqs(c) : local_ops' = [local_ops EXCEPT ![t] = s]
           /\ pending' = pending \ c
    BY <1>11 DEF CancelOps
  <2>2. /\ pc[t] \in {"out", "handler"}
        /\ UNCHANGED <<fresh, done, destroyed, cur, op_queue_>>
    BY <1>11 DEF CancelOps, Free, svc
  <2>3. local_ops[t] = <<>>
    BY <2>2 DEF StackInv
  <2> QED
    BY <2>1, <2>2, <2>3, Withdrawn
<1>12. ASSUME NEW t \in Threads, TaskReturn(t) PROVE PlaceInv' /\ ListInv'
  <2>1. PICK s \in SetToSeqs(ready) : local_ops' = [local_ops EXCEPT ![t] = s]
    BY <1>12 DEF TaskReturn
  <2>2. /\ pc[t] \in {"task_poll", "task_wait"} /\ pending' = pending \ ready
        /\ UNCHANGED <<fresh, done, destroyed, cur, op_queue_>>
    BY <1>12 DEF TaskReturn, svc
  <2>3. local_ops[t] = <<>> /\ ready \in SUBSET pending
    BY <1>a, <2>2 DEF StackInv
  <2> QED
    BY <2>1, <2>2, <2>3, Withdrawn
<1>13. ASSUME NEW t \in Threads, RunHandler(t) PROVE PlaceInv' /\ ListInv'
  <2>1. PICK p \in Ops : /\ op_queue_ # <<>> /\ Head(op_queue_) = p
                         /\ op_queue_' = Tail(op_queue_)
                         /\ cur' = [cur EXCEPT ![t] = p]
                         /\ pc[t] = "loop"
                         /\ UNCHANGED <<fresh, done, destroyed, pending, local_ops>>
    BY <1>13 DEF RunHandler, AtFront
  <2>2. /\ Queue' = Queue \ {p} /\ p \in Queue /\ IsInjective(op_queue_')
    BY <1>a, <2>1, Popped DEF ListInv, Queue
  <2>3. ListInv' /\ \A u \in Threads : Local(u)' = Local(u)
    BY <2>1, <2>2 DEF ListInv, Local
  <2>4. cur[t] = NoOp
    BY <2>1 DEF StackInv
  <2>5. ASSUME NEW o \in Ops PROVE Placed(o)'
    <3>1. Placed(o)
      BY DEF PlaceInv
    <3> QED
      BY <1>a, <1>b, <2>1, <2>2, <2>3, <2>4, <3>1 DEF Placed, Has, InFlight
  <2> QED
    BY <2>3, <2>5 DEF PlaceInv
<1>14. ASSUME NEW t \in Threads, HandlerReturn(t) \/ HandlerThrow(t)
       PROVE  PlaceInv' /\ ListInv'
  <2>1. /\ cur[t] \in Ops /\ done' = done \cup {cur[t]}
        /\ cur' = [cur EXCEPT ![t] = NoOp]
        /\ UNCHANGED <<fresh, destroyed, pending, local_ops, op_queue_>>
    BY <1>a, <1>14 DEF HandlerReturn, HandlerThrow, HandlerInv, svc
  <2>2. ListInv' /\ Queue' = Queue /\ \A u \in Threads : Local(u)' = Local(u)
    BY <2>1 DEF ListInv, Queue, Local
  <2>3. ASSUME NEW o \in Ops PROVE Placed(o)'
    <3>1. Placed(o)
      BY DEF PlaceInv
    <3> QED
      BY <1>a, <1>b, <2>1, <2>2, <3>1 DEF Placed, Has, InFlight
  <2> QED
    BY <2>2, <2>3 DEF PlaceInv
<1>15. ASSUME NEW t \in Threads, Shutdown(t) PROVE PlaceInv' /\ ListInv'
  <2>1. /\ \A u \in Threads : pc[u] = "out"
        /\ destroyed' = destroyed \cup pending \cup (Queue \ {TaskOp})
        /\ pending' = {} /\ op_queue_' = <<>>
        /\ UNCHANGED <<fresh, done, cur, local_ops>>
    BY <1>15 DEF Shutdown, stk, Queue
  <2>2. \A u \in Threads : cur[u] = NoOp /\ local_ops[u] = <<>>
    BY <2>1 DEF StackInv
  <2>3. ListInv' /\ Queue' = {} /\ \A u \in Threads : Local(u) = {} /\ Local(u)' = {}
    BY <2>1, <2>2, Short DEF ListInv, Queue, Local
  <2>4. ASSUME NEW o \in Ops PROVE Placed(o)'
    <3>1. Placed(o)
      BY DEF PlaceInv
    <3> QED
      BY <1>b, <2>1, <2>2, <2>3, <3>1 DEF Placed, Has, InFlight
  <2> QED
    BY <2>3, <2>4 DEF PlaceInv
<1> QED
  BY <1>1, <1>2, <1>3, <1>4, <1>5, <1>6, <1>7, <1>8, <1>9, <1>10, <1>11, <1>12, <1>13,
     <1>14, <1>15 DEF Next, Internal, Program, Gone

-----------------------------------------------------------------------------
(* The count of work.                                                      *)

Finishing == {t \in Threads : pc[t] = "finish"}

LEMMA FiniteCounts ==
    /\ IsFiniteSet(InFlight) /\ Cardinality(InFlight) \in Nat
    /\ IsFiniteSet(Finishing) /\ Cardinality(Finishing) \in Nat
<1>1. InFlight \in SUBSET Ops /\ Finishing \in SUBSET Threads
  BY DEF InFlight, Finishing
<1> QED
  BY <1>1, FiniteAssumption, FS_Subset, FS_CardinalityType

LEMMA CountIs ==
    WorkCounted <=> (~shutdown_ => outstanding_work_ = user_work + Cardinality(InFlight)
                                                       + Cardinality(Finishing))
BY DEF WorkCounted, Finishing

\* Steps that neither submit an operation nor finish one.
SameInFlight == UNCHANGED <<fresh, done, destroyed>>

SameFinishing == \A t \in Threads : pc'[t] = "finish" <=> pc[t] = "finish"

LEMMA SameCounts ==
    /\ SameInFlight => InFlight' = InFlight
    /\ SameFinishing => Finishing' = Finishing
BY DEF SameInFlight, SameFinishing, InFlight, Finishing

LEMMA CountStep ==
    TypeInv /\ StackInv /\ PlaceInv /\ WorkCounted /\ [Next]_vars => WorkCounted'
<1> SUFFICES ASSUME TypeInv, StackInv, PlaceInv, WorkCounted, [Next]_vars
             PROVE  WorkCounted'
  OBVIOUS
<1>a. /\ pc \in [Threads -> PCs]
      /\ outstanding_work_ \in Int /\ user_work \in Nat
      /\ shutdown_ \in BOOLEAN
      /\ HandlerInv
  BY DEF TypeInv, TypeOK
<1>b. ~shutdown_ => outstanding_work_ = user_work + Cardinality(InFlight)
                                        + Cardinality(Finishing)
  BY CountIs
<1>c. (~shutdown_' => outstanding_work_' = user_work' + Cardinality(InFlight')
                                           + Cardinality(Finishing'))
        => WorkCounted'
  BY DEF WorkCounted, Finishing
<1> USE <1>a, <1>b, <1>c, FiniteCounts DEF Goto
<1>1. ASSUME SameInFlight, SameFinishing,
             UNCHANGED <<outstanding_work_, user_work, shutdown_>>
      PROVE  WorkCounted'
  BY <1>1, SameCounts
<1>2. ASSUME NEW t \in Threads,
             (\E c \in Calls : Enter(t, c)) \/ Stop(t) \/ Reset(t) \/ InitTask(t)
      PROVE  WorkCounted'
  BY <1>1, <1>2 DEF Enter, Stop, Reset, InitTask, StopAllThreads, svc, stk, env,
                    SameInFlight, SameFinishing
<1>3. ASSUME NEW t \in Threads, PushOps(t) \/ StopNoWork(t) \/ CancelOps(t)
      PROVE  WorkCounted'
  <2>1. SameFinishing
    BY <1>3 DEF PushOps, StopNoWork, CancelOps, Resume, Free, SameFinishing
  <2> QED
    BY <1>1, <1>3, <2>1 DEF PushOps, StopNoWork, CancelOps, StopAllThreads, svc, SameInFlight
<1>4. ASSUME NEW t \in Threads,
             \/ Lock(t) \/ ReturnStopped(t) \/ RunTask(t) \/ PollDone(t) \/ GoIdle(t)
             \/ PollEmpty(t) \/ Wakeup(t) \/ RunHandler(t)
      PROVE  WorkCounted'
  <2>1. SameFinishing
    BY <1>4 DEF Lock, ReturnStopped, RunTask, PollDone, GoIdle, PollEmpty, Wakeup,
                RunHandler, AtFront, Leave, SameFinishing
  <2>2. SameInFlight /\ UNCHANGED <<outstanding_work_, user_work, shutdown_>>
    BY <1>4 DEF Lock, ReturnStopped, RunTask, PollDone, GoIdle, PollEmpty, Wakeup,
                RunHandler, env, SameInFlight
  <2> QED
    BY <1>1, <2>1, <2>2
<1>5. ASSUME NEW t \in Threads, TaskReturn(t) \/ TaskSpurious(t) \/ TaskCleanup(t)
      PROVE  WorkCounted'
  <2>1. SameFinishing
    BY <1>5 DEF TaskReturn, TaskSpurious, TaskCleanup, SameFinishing
  <2> QED
    BY <1>1, <1>5, <2>1 DEF TaskReturn, TaskSpurious, TaskCleanup, svc, env, SameInFlight
<1>6. ASSUME NEW o \in Ops, EventOccurs(o) PROVE WorkCounted'
  BY <1>1, <1>6 DEF EventOccurs, svc, stk, SameInFlight, SameFinishing
<1>7. CASE UNCHANGED vars
  BY <1>1, <1>7 DEF vars, svc, stk, env, SameInFlight, SameFinishing
<1>8. ASSUME NEW t \in Threads, NEW o \in Ops, Post(t, o) \/ StartAsync(t, o)
      PROVE  WorkCounted'
  <2>1. /\ o \in fresh /\ fresh' = fresh \ {o} /\ ~shutdown_
        /\ outstanding_work_' = outstanding_work_ + 1
        /\ UNCHANGED <<done, destroyed, user_work, shutdown_>>
    BY <1>8 DEF Post, StartAsync
  <2>2. SameFinishing
    BY <1>8 DEF Post, StartAsync, stk, Free, SameFinishing
  <2>3. o \notin InFlight /\ InFlight' = InFlight \cup {o}
    BY <2>1 DEF PlaceInv, Placed, InFlight
  <2>4. Cardinality(InFlight') = Cardinality(InFlight) + 1
    BY <2>3, FS_AddElement
  <2> QED
    BY <2>1, <2>2, <2>4, SameCounts
<1>9. ASSUME NEW t \in Threads, WorkConstruct(t) PROVE WorkCounted'
  BY <1>9, SameCounts DEF WorkConstruct, stk, SameInFlight, SameFinishing
<1>10. ASSUME NEW t \in Threads, WorkDestruct(t) PROVE WorkCounted'
  <2>1. SameFinishing
    BY <1>10 DEF WorkDestruct, WorkFinished, Free, SameFinishing
  <2> QED
    BY <1>10, <2>1, SameCounts DEF WorkDestruct, WorkFinished, SameInFlight
<1>11. ASSUME NEW t \in Threads, HandlerReturn(t) \/ HandlerThrow(t) PROVE WorkCounted'
  <2>1. /\ pc[t] = "handler" /\ pc' = [pc EXCEPT ![t] = "finish"]
        /\ cur[t] \in Ops /\ done' = done \cup {cur[t]}
        /\ UNCHANGED <<fresh, destroyed, outstanding_work_, user_work, shutdown_>>
    BY <1>11 DEF HandlerReturn, HandlerThrow, HandlerInv, svc
  <2>2. cur[t] \in InFlight /\ InFlight' = InFlight \ {cur[t]}
    BY <2>1 DEF PlaceInv, Placed, Has, InFlight
  <2>3. t \notin Finishing /\ Finishing' = Finishing \cup {t}
    BY <2>1 DEF Finishing
  <2>4. /\ Cardinality(InFlight') = Cardinality(InFlight) - 1
        /\ Cardinality(Finishing') = Cardinality(Finishing) + 1
    BY <2>2, <2>3, FS_AddElement, FS_RemoveElement
  <2> QED
    BY <2>1, <2>4
<1>12. ASSUME NEW t \in Threads, FinishWork(t) PROVE WorkCounted'
  <2>1. /\ pc[t] = "finish" /\ outstanding_work_' = outstanding_work_ - 1
        /\ UNCHANGED <<fresh, done, destroyed, user_work, shutdown_>>
        /\ \E l \in PCs \ {"finish"} : pc' = [pc EXCEPT ![t] = l]
    BY <1>12 DEF FinishWork, WorkFinished, Resume, env, PCs
  <2>2. t \in Finishing /\ Finishing' = Finishing \ {t}
    BY <2>1 DEF Finishing
  <2>3. Cardinality(Finishing') = Cardinality(Finishing) - 1
    BY <2>2, FS_RemoveElement
  <2> QED
    BY <2>1, <2>3, SameCounts DEF SameInFlight
<1>13. ASSUME NEW t \in Threads, Shutdown(t) PROVE WorkCounted'
  BY <1>13 DEF Shutdown
<1> QED
  BY <1>2, <1>3, <1>4, <1>5, <1>6, <1>7, <1>8, <1>9, <1>10, <1>11, <1>12, <1>13
     DEF Next, Internal, Program, Gone

-----------------------------------------------------------------------------
(* The invariant.                                                          *)

KeepInv == StackInv /\ TaskKept /\ PlaceInv /\ ListInv /\ WorkCounted

IInv == TypeInv /\ WakeInv /\ PoolInv /\ KeepInv

LEMMA KeepInit == Init => KeepInv
<1> SUFFICES ASSUME Init PROVE KeepInv
  OBVIOUS
<1>1. StackInv /\ TaskKept
  BY DEF Init, StackInv, TaskKept
<1>2. Queue = {} /\ \A t \in Threads : Local(t) = {}
  BY Short DEF Init, Queue, Local
<1>3. NoOp \notin Ops
  BY ConstantsAssumption DEF ConstantsAssumption
<1>4. PlaceInv
  BY <1>2, <1>3 DEF Init, PlaceInv, Placed, Has, InFlight
<1>5. ListInv
  BY Short DEF Init, ListInv
<1>6. InFlight = {} /\ Finishing = {}
  BY DEF Init, InFlight, Finishing
<1>7. Cardinality(InFlight) = 0 /\ Cardinality(Finishing) = 0
  BY <1>6, FS_EmptySet
<1>8. WorkCounted
  BY <1>7, CountIs DEF Init
<1> QED
  BY <1>1, <1>4, <1>5, <1>8 DEF KeepInv

LEMMA IInvInit == Init => IInv
BY TypeInit, WakeInit, PoolInit, KeepInit DEF IInv

LEMMA IInvStep == IInv /\ [Next]_vars => IInv'
<1> SUFFICES ASSUME IInv, [Next]_vars PROVE IInv'
  OBVIOUS
<1>1. TypeInv /\ WakeInv /\ PoolInv /\ KeepInv
  BY DEF IInv
<1>2. TypeInv' /\ WakeInv' /\ PoolInv'
  BY <1>1, TypeStep, WakeStep, PoolStep
<1>3. KeepInv'
  BY <1>1, StackStep, TaskStep, PlaceStep, CountStep DEF KeepInv, WakeInv, PoolInv
<1> QED
  BY <1>2, <1>3 DEF IInv

LEMMA IInvAlways == Spec => []IInv
BY IInvInit, IInvStep, PTL DEF Spec

-----------------------------------------------------------------------------
(* The task has one place, and so has each operation in flight.            *)

LEMMA TaskPlace == WakeInv /\ TaskKept /\ TypeOK => TaskUnique
<1> DEFINE inQueue == {i \in DOMAIN op_queue_ : op_queue_[i] = TaskOp}
           running == {t \in Threads : InTask(t)}
<1> SUFFICES ASSUME WakeInv, TaskKept, TypeOK
             PROVE  Cardinality(inQueue) + Cardinality(running) = IF task_ THEN 1 ELSE 0
  BY DEF TaskUnique
<1>1. TaskInv
  BY DEF WakeInv
<1>2. Cardinality({}) = 0 /\ \A x : Cardinality({x}) = 1
  BY FS_EmptySet, FS_Singleton
<1>3. TaskInQueue <=> inQueue # {}
  BY DEF TaskInQueue, ToSet
<1>4. CASE TaskInQueue
  <2>1. PICK i \in inQueue : TRUE
    BY <1>3, <1>4
  <2>2. inQueue = {i}
    BY <1>1, <2>1 DEF TaskInv, Once
  <2>3. running = {} /\ task_
    BY <1>1, <1>4 DEF TaskInv
  <2>4. Cardinality(inQueue) = 1 /\ Cardinality(running) = 0
    BY <1>2, <2>2, <2>3, Zenon
  <2>5. Cardinality(inQueue) + Cardinality(running) = 1
    BY <2>4
  <2> QED
    BY <2>2, <2>3, <2>5
<1>5. CASE ~TaskInQueue /\ \E t \in Threads : InTask(t)
  <2>1. PICK t \in Threads : InTask(t)
    BY <1>5
  <2>2. running = {t} /\ task_
    BY <1>1, <2>1 DEF TaskInv
  <2>3. inQueue = {}
    BY <1>3, <1>5
  <2>4. Cardinality(inQueue) = 0 /\ Cardinality(running) = 1
    BY <1>2, <2>2, <2>3, Zenon
  <2>5. Cardinality(inQueue) + Cardinality(running) = 1
    BY <2>4
  <2> QED
    BY <2>2, <2>3, <2>5
<1>6. CASE ~TaskInQueue /\ ~\E t \in Threads : InTask(t)
  <2>1. inQueue = {} /\ running = {} /\ task_ = FALSE
    BY <1>3, <1>6 DEF TaskKept, TypeOK
  <2> QED
    BY <1>2, <2>1
<1> QED
  BY <1>4, <1>5, <1>6

LEMMA OnePlace == PlaceInv /\ ListInv => OpInOnePlace
<1> SUFFICES ASSUME PlaceInv, ListInv, NEW o \in Ops
             PROVE  Cardinality(Places(o)) = IF o \in InFlight THEN 1 ELSE 0
  BY DEF OpInOnePlace
<1> DEFINE A == {<<"queue", i>> : i \in {j \in DOMAIN op_queue_ : op_queue_[j] = o}}
           B == IF o \in pending THEN {<<"reactor">>} ELSE {}
           C == {<<"called", t>> : t \in {u \in Threads : cur[u] = o}}
           E(t) == {<<"local", t, i>> :
                      i \in {j \in DOMAIN local_ops[t] : local_ops[t][j] = o}}
           D == UNION {E(t) : t \in Threads}
<1>1. Places(o) = A \cup B \cup C \cup D
  BY Zenon DEF Places
<1>2. Placed(o)
  BY DEF PlaceInv
<1>3. /\ o \notin Queue => A = {}
      /\ o \in Queue => \E x : A = {x}
  <2>1. ASSUME o \notin Queue PROVE A = {}
    <3>1. {j \in DOMAIN op_queue_ : op_queue_[j] = o} = {}
      BY <2>1 DEF Queue, ToSet
    <3> QED
      BY <3>1
  <2>2. ASSUME o \in Queue PROVE \E x : A = {x}
    <3>1. PICK i \in DOMAIN op_queue_ : op_queue_[i] = o
      BY <2>2 DEF Queue, ToSet
    <3>2. {j \in DOMAIN op_queue_ : op_queue_[j] = o} = {i}
      BY <3>1 DEF ListInv, IsInjective
    <3>3. A = {<<"queue", i>>}
      BY <3>2
    <3> QED
      BY <3>3
  <2> QED
    BY <2>1, <2>2
<1>4. \A t \in Threads : cur[t] = o => C = {<<"called", t>>}
  <2> SUFFICES ASSUME NEW t \in Threads, cur[t] = o PROVE C = {<<"called", t>>}
    OBVIOUS
  <2>1. {u \in Threads : cur[u] = o} = {t}
    BY <1>2 DEF Placed, Has
  <2> QED
    BY <2>1
<1>5. (\A t \in Threads : cur[t] # o) => C = {}
  OBVIOUS
<1>6. \A t \in Threads : o \notin Local(t) => E(t) = {}
  <2> SUFFICES ASSUME NEW t \in Threads, o \notin Local(t) PROVE E(t) = {}
    OBVIOUS
  <2>1. {j \in DOMAIN local_ops[t] : local_ops[t][j] = o} = {}
    BY DEF Local, ToSet
  <2> QED
    BY <2>1
<1>7. \A t \in Threads : o \in Local(t) => \E x : E(t) = {x}
  <2> SUFFICES ASSUME NEW t \in Threads, o \in Local(t) PROVE \E x : E(t) = {x}
    OBVIOUS
  <2>1. PICK i \in DOMAIN local_ops[t] : local_ops[t][i] = o
    BY DEF Local, ToSet
  <2>2. {j \in DOMAIN local_ops[t] : local_ops[t][j] = o} = {i}
    BY <2>1 DEF ListInv, IsInjective
  <2>3. E(t) = {<<"local", t, i>>}
    BY <2>2
  <2> HIDE DEF E
  <2> QED
    BY <2>3
<1> HIDE DEF E
<1>8. (\A t \in Threads : o \notin Local(t)) => D = {}
  BY <1>6
<1>9. \A t \in Threads : o \in Local(t) => D = E(t)
  <2> SUFFICES ASSUME NEW t \in Threads, o \in Local(t) PROVE D = E(t)
    OBVIOUS
  <2>1. \A u \in Threads \ {t} : E(u) = {}
    BY <1>2, <1>6 DEF Placed, Has
  <2> QED
    BY <2>1
<1> HIDE DEF A, C, D
<1>10. CASE o \notin InFlight
  <2>1. A = {} /\ B = {} /\ C = {} /\ D = {}
    BY <1>2, <1>3, <1>5, <1>8, <1>10 DEF Placed, Has
  <2> QED
    BY <1>1, <1>10, <2>1, FS_EmptySet
<1>11. CASE o \in InFlight
  <2>1. \E x : Places(o) = {x}
    <3>1. CASE o \in Queue
      <4>1. B = {} /\ C = {} /\ D = {}
        BY <1>2, <1>5, <1>8, <3>1 DEF Placed, Has
      <4> QED
        BY <1>1, <1>3, <3>1, <4>1
    <3>2. CASE o \in pending
      <4>1. A = {} /\ C = {} /\ D = {}
        BY <1>2, <1>3, <1>5, <1>8, <3>2 DEF Placed, Has
      <4> QED
        BY <1>1, <3>2, <4>1
    <3>3. ASSUME NEW t \in Threads, cur[t] = o PROVE \E x : Places(o) = {x}
      <4>1. A = {} /\ B = {}
        BY <1>2, <1>3, <3>3 DEF Placed, Has
      <4>2. D = {}
        BY <1>2, <1>8, <3>3 DEF Placed, Has
      <4> QED
        BY <1>1, <1>4, <3>3, <4>1, <4>2
    <3>4. ASSUME NEW t \in Threads, o \in Local(t) PROVE \E x : Places(o) = {x}
      <4>1. A = {} /\ B = {}
        BY <1>2, <1>3, <3>4 DEF Placed, Has
      <4>2. C = {}
        BY <1>2, <1>5, <3>4 DEF Placed, Has
      <4> QED
        BY <1>1, <1>7, <1>9, <3>4, <4>1, <4>2
    <3> QED
      BY <1>2, <1>11, <3>1, <3>2, <3>3, <3>4 DEF Placed, Has
  <2> QED
    BY <1>11, <2>1, FS_Singleton
<1> QED
  BY <1>10, <1>11

(* The queues of the scheduler are sound: the task, each operation in      *)
(* flight and each sleeping thread is in the one place where it will be    *)
(* looked for.                                                             *)
THEOREM QueuesAreSound == Spec => []QueuesSound
<1>1. IInv => QueuesSound
  BY TaskPlace, OnePlace DEF IInv, TypeInv, WakeInv, KeepInv, QueuesSound
<1> QED
  BY <1>1, IInvAlways, PTL

(* outstanding_work_ is what is left to do, so nobody finds it zero while  *)
(* an operation, a handler's return or a work object is left.              *)
THEOREM WorkIsCounted == Spec => []WorkCounted
<1>1. IInv => WorkCounted
  BY DEF IInv, KeepInv
<1> QED
  BY <1>1, IInvAlways, PTL

-----------------------------------------------------------------------------
(* A work object keeps the pool running.                                   *)

LEMMA WorkStep ==
    ASSUME IInv, [Next]_vars, user_work > 0, user_work' > 0,
           NEW t \in Threads, pc'[t] = "stopping"
    PROVE  pc[t] = "stopping"
<1>a. /\ pc \in [Threads -> PCs] /\ outstanding_work_ \in Int /\ user_work \in Nat
      /\ StackInv /\ WorkCounted
  BY DEF IInv, TypeInv, TypeOK, KeepInv
<1>b. ~shutdown_ => outstanding_work_ = user_work + Cardinality(InFlight)
                                        + Cardinality(Finishing)
  BY <1>a, CountIs
<1> USE <1>a, FiniteCounts DEF Goto
<1>1. ASSUME NEW u \in Threads, NEW c \in Calls, Enter(u, c) PROVE pc[t] = "stopping"
  <2>1. outstanding_work_ # 0
    BY <1>1, <1>b DEF Enter
  <2> QED
    BY <1>1, <2>1 DEF Enter
<1>2. ASSUME NEW u \in Threads, WorkDestruct(u) PROVE pc[t] = "stopping"
  <2>1. outstanding_work_ # 1
    BY <1>2, <1>b DEF WorkDestruct
  <2> QED
    BY <1>2, <2>1 DEF WorkDestruct, WorkFinished
<1>3. ASSUME NEW u \in Threads, FinishWork(u) PROVE pc[t] = "stopping"
  <2>1. u \in Finishing /\ ~shutdown_
    BY <1>3 DEF FinishWork, Finishing, StackInv
  <2>2. Cardinality(Finishing) # 0
    BY <2>1, FS_EmptySet
  <2>3. outstanding_work_ # 1
    BY <1>b, <2>1, <2>2
  <2> QED
    BY <1>3, <2>3 DEF FinishWork, WorkFinished, Resume
<1>4. ASSUME NEW u \in Threads,
             \/ \E o \in Ops : Post(u, o) \/ StartAsync(u, o)
             \/ Stop(u) \/ Reset(u) \/ WorkConstruct(u) \/ InitTask(u) \/ CancelOps(u)
             \/ Shutdown(u) \/ HandlerReturn(u) \/ HandlerThrow(u)
      PROVE  pc[t] = "stopping"
  BY <1>4 DEF Post, StartAsync, Stop, Reset, WorkConstruct, InitTask, CancelOps, Shutdown,
              HandlerReturn, HandlerThrow, stk
<1>5. ASSUME NEW u \in Threads,
             \/ PushOps(u) \/ StopNoWork(u) \/ Lock(u) \/ ReturnStopped(u) \/ RunTask(u)
             \/ PollDone(u) \/ RunHandler(u) \/ GoIdle(u) \/ PollEmpty(u) \/ Wakeup(u)
             \/ TaskReturn(u) \/ TaskCleanup(u) \/ TaskSpurious(u)
      PROVE  pc[t] = "stopping"
  BY <1>5 DEF PushOps, StopNoWork, Lock, ReturnStopped, RunTask, PollDone, RunHandler,
              GoIdle, PollEmpty, Wakeup, TaskReturn, TaskCleanup, TaskSpurious, Leave, Resume
<1>6. ASSUME NEW o \in Ops, EventOccurs(o) PROVE pc[t] = "stopping"
  BY <1>6 DEF EventOccurs, stk
<1>7. CASE UNCHANGED vars
  BY <1>7 DEF vars, stk
<1> QED
  BY <1>1, <1>2, <1>3, <1>4, <1>5, <1>6, <1>7 DEF Next, Internal, Program, Gone

(* While a work object lives, nobody stops the service for lack of work.   *)
THEOREM WorkKeepsItRunning == Spec => WorkKeepsRunning
<1> DEFINE Kept == user_work > 0 /\ user_work' > 0 =>
                     \A t \in Threads : pc'[t] = "stopping" => pc[t] = "stopping"
<1>1. IInv /\ [Next]_vars => Kept
  BY WorkStep
<1>2. IInv /\ [Next]_vars => [Kept]_vars
  BY <1>1
<1> HIDE DEF Kept
<1>3. Spec => [][Kept]_vars
  BY <1>2, IInvAlways, PTL DEF Spec
<1> QED
  BY <1>3 DEF Kept, WorkKeepsRunning

-----------------------------------------------------------------------------
(* The scheduler is a HandlerPool.                                         *)

LEMMA SameStage ==
    UNCHANGED <<fresh, done, destroyed, cur>> => Stage' = Stage
BY DEF Stage

LEMMA SameInside == UNCHANGED call => Inside' = Inside
BY DEF Inside

LEMMA LeaveInside ==
    ASSUME TypeOK, NEW t \in Threads, call' = [call EXCEPT ![t] = "none"]
    PROVE  Inside' = Inside \ {t}
BY DEF TypeOK, Inside

\* The stages of the operations of a state.
LEMMA Stages ==
    ASSUME PlaceInv, NEW o \in Ops
    PROVE  /\ o \in DOMAIN Stage
           /\ o \in fresh => Stage[o] = "new"
           /\ o \notin fresh /\ o \in done => Stage[o] = "over"
           /\ \A t \in Threads : cur[t] = o => Stage[o] = "called"
           /\ o \in Queue \/ o \in pending => Stage[o] = "waiting"
           /\ Stage[o] = "waiting" => \/ o \in Queue \/ o \in pending
                                      \/ \E t \in Threads : o \in Local(t)
BY DEF PlaceInv, Placed, Has, Stage, InFlight

\* Steps the pool does not see.
Unseen == UNCHANGED <<fresh, done, destroyed, cur, call, stopped_, shutdown_>>

LEMMA UnseenStep == Unseen => UNCHANGED Pool!pvars
<1> SUFFICES ASSUME Unseen PROVE UNCHANGED Pool!pvars
  OBVIOUS
<1>1. Stage' = Stage /\ Inside' = Inside
  BY SameStage, SameInside DEF Unseen
<1>2. UNCHANGED <<cur, stopped_, shutdown_>>
  BY DEF Unseen
<1> QED
  BY <1>1, <1>2 DEF Pool!pvars

LEMMA UnseenSteps ==
    ASSUME \/ \E t \in Threads :
                \/ WorkConstruct(t) \/ WorkDestruct(t) \/ InitTask(t) \/ CancelOps(t)
                \/ PushOps(t) \/ Lock(t) \/ RunTask(t) \/ GoIdle(t) \/ Wakeup(t)
                \/ TaskReturn(t) \/ TaskSpurious(t) \/ TaskCleanup(t)
           \/ \E o \in Ops : EventOccurs(o)
           \/ UNCHANGED vars
    PROVE  Unseen
<1> USE DEF Unseen
<1>1. ASSUME NEW t \in Threads,
             WorkConstruct(t) \/ WorkDestruct(t) \/ InitTask(t) \/ CancelOps(t) \/ PushOps(t)
      PROVE  Unseen
  BY <1>1 DEF WorkConstruct, WorkDestruct, InitTask, CancelOps, PushOps, stk, svc
<1>2. ASSUME NEW t \in Threads,
             \/ Lock(t) \/ RunTask(t) \/ GoIdle(t) \/ Wakeup(t)
             \/ TaskReturn(t) \/ TaskSpurious(t) \/ TaskCleanup(t)
      PROVE  Unseen
  BY <1>2 DEF Lock, RunTask, GoIdle, Wakeup, TaskReturn, TaskSpurious, TaskCleanup, svc, env
<1>3. ASSUME NEW o \in Ops, EventOccurs(o) PROVE Unseen
  BY <1>3 DEF EventOccurs, svc, stk
<1>4. CASE UNCHANGED vars
  BY <1>4 DEF vars, svc, stk, env
<1> QED
  BY <1>1, <1>2, <1>3, <1>4

LEMMA SubmitStep ==
    ASSUME IInv, NEW t \in Threads, NEW o \in Ops, Post(t, o) \/ StartAsync(t, o)
    PROVE  Pool!Next
<1>1. /\ PlaceInv /\ NoOp \notin Ops
  BY ConstantsAssumption DEF IInv, KeepInv, ConstantsAssumption
<1>2. /\ o \in fresh /\ fresh' = fresh \ {o} /\ ~shutdown_
      /\ UNCHANGED <<done, destroyed, cur, call, stopped_, shutdown_>>
  BY DEF Post, StartAsync, stk
<1>3. Inside' = Inside
  BY <1>2, SameInside
<1>4. Placed(o)
  BY <1>1 DEF PlaceInv
<1>5. Stage[o] = "new"
  BY <1>1, <1>2, Stages
<1>6. Stage' = [Stage EXCEPT ![o] = "waiting"]
  <2>1. o \notin done /\ o \notin destroyed /\ \A u \in Threads : cur[u] # o
    BY <1>2, <1>4 DEF Placed, Has, InFlight
  <2> QED
    BY <1>2, <2>1 DEF Stage
<1>7. Pool!Submit(o)
  BY <1>2, <1>3, <1>5, <1>6 DEF Pool!Submit
<1> QED
  BY <1>7 DEF Pool!Next

LEMMA EnterStep ==
    ASSUME IInv, NEW t \in Threads, NEW c \in Calls, Enter(t, c)
    PROVE  Pool!Next \/ UNCHANGED Pool!pvars
<1>1. UNCHANGED <<fresh, done, destroyed, cur, stopped_, shutdown_>> /\ ~shutdown_
  BY DEF Enter, svc, env
<1>2. Stage' = Stage
  BY <1>1, SameStage
<1>3. c # "none" /\ call[t] = "none" /\ call \in [Threads -> EntryPoints \cup {"none"}]
  BY ConstantsAssumption
     DEF ConstantsAssumption, EntryPoints, IInv, KeepInv, StackInv, TypeInv, TypeOK, Enter
<1>4. CASE UNCHANGED call
  BY <1>1, <1>2, <1>4, SameInside DEF Pool!pvars
<1>5. CASE call' = [call EXCEPT ![t] = c]
  <2>1. t \notin Inside /\ Inside' = Inside \cup {t}
    BY <1>3, <1>5 DEF Inside
  <2>2. Pool!Join(t)
    BY <1>1, <1>2, <2>1 DEF Pool!Join
  <2> QED
    BY <2>2 DEF Pool!Next
<1> QED
  BY <1>4, <1>5 DEF Enter

\* A thread leaves the pool, outside of any handler.
LEMMA LeaveStep ==
    ASSUME IInv, NEW t \in Threads, cur[t] = NoOp, call[t] # "none",
           call' = [call EXCEPT ![t] = "none"],
           UNCHANGED <<fresh, done, destroyed, cur, stopped_, shutdown_>>
    PROVE  Pool!Next
<1>1. Stage' = Stage
  BY SameStage
<1>2. t \in Inside /\ Inside' = Inside \ {t}
  BY LeaveInside DEF Inside, IInv, TypeInv
<1>3. Pool!Leave(t)
  BY <1>1, <1>2 DEF Pool!Leave
<1> QED
  BY <1>3 DEF Pool!Next

LEMMA ReturnStep ==
    ASSUME IInv, NEW t \in Threads,
           ReturnStopped(t) \/ PollDone(t) \/ PollEmpty(t) \/ FinishWork(t)
    PROVE  Pool!Next \/ UNCHANGED Pool!pvars
<1>1. StackInv /\ CallInv
  BY DEF IInv, KeepInv, PoolInv
<1>2. CASE ReturnStopped(t) \/ PollDone(t) \/ PollEmpty(t)
  <2>1. /\ pc[t] = "loop" /\ call' = [call EXCEPT ![t] = "none"]
        /\ UNCHANGED <<fresh, done, destroyed, cur, stopped_, shutdown_>>
    BY <1>2 DEF ReturnStopped, PollDone, PollEmpty, AtFront, Leave, env
  <2>2. cur[t] = NoOp /\ call[t] # "none"
    BY <1>1, <2>1 DEF StackInv, CallInv, Watched
  <2> QED
    BY <2>1, <2>2, LeaveStep
<1>3. CASE FinishWork(t)
  <2>1. /\ pc[t] = "finish"
        /\ call' = [call EXCEPT ![t] = "none"] \/ call' = [call EXCEPT ![t] = @]
        /\ UNCHANGED <<fresh, done, destroyed, cur, stopped_, shutdown_>>
    BY <1>3 DEF FinishWork, env
  <2>2. cur[t] = NoOp /\ call[t] # "none"
    BY <1>1, <2>1 DEF StackInv
  <2>3. CASE call' = [call EXCEPT ![t] = @]
    <3>1. UNCHANGED call
      BY <2>3 DEF IInv, TypeInv, TypeOK
    <3> QED
      BY <2>1, <3>1, UnseenStep DEF Unseen
  <2> QED
    BY <2>1, <2>2, <2>3, LeaveStep
<1> QED
  BY <1>2, <1>3

LEMMA BeginStep ==
    ASSUME IInv, NEW t \in Threads, RunHandler(t)
    PROVE  Pool!Next
<1>1. /\ PlaceInv /\ StackInv /\ CallInv
      /\ cur \in [Threads -> Ops \cup {NoOp}]
      /\ op_queue_ \in Seq(Ops \cup {TaskOp}) /\ IsInjective(op_queue_)
      /\ NoOp \notin Ops
  BY ConstantsAssumption
     DEF IInv, KeepInv, PoolInv, ListInv, TypeInv, TypeOK, ConstantsAssumption
<1>2. PICK o \in Ops : /\ pc[t] = "loop" /\ ~stopped_
                       /\ op_queue_ # <<>> /\ Head(op_queue_) = o
                       /\ cur' = [cur EXCEPT ![t] = o]
                       /\ UNCHANGED <<fresh, done, destroyed, call, stopped_, shutdown_>>
  BY DEF RunHandler, AtFront
<1>3. o \in Queue
  BY <1>1, <1>2, Popped DEF Queue
<1>4. cur[t] = NoOp /\ t \in Inside
  BY <1>1, <1>2 DEF StackInv, CallInv, Watched, Inside
<1>5. Stage[o] = "waiting" /\ Placed(o)
  BY <1>1, <1>3, Stages DEF PlaceInv
<1>6. Stage' = [Stage EXCEPT ![o] = "called"]
  <2>1. o \notin fresh /\ o \notin done /\ o \notin destroyed
    BY <1>3, <1>5 DEF Placed, InFlight
  <2>2. \A p \in Ops : (\E u \in Threads : cur'[u] = p)
                          <=> p = o \/ \E u \in Threads : cur[u] = p
    BY <1>1, <1>2, <1>4
  <2> QED
    BY <1>2, <2>1, <2>2 DEF Stage
<1>7. Pool!Begin(t, o)
  BY <1>2, <1>4, <1>5, <1>6, SameInside DEF Pool!Begin
<1> QED
  BY <1>7 DEF Pool!Next

LEMMA EndStep ==
    ASSUME IInv, NEW t \in Threads, HandlerReturn(t) \/ HandlerThrow(t)
    PROVE  Pool!Next
<1>1. /\ PlaceInv /\ StackInv /\ HandlerInv
      /\ cur \in [Threads -> Ops \cup {NoOp}]
      /\ call \in [Threads -> EntryPoints \cup {"none"}]
      /\ NoOp \notin Ops
  BY ConstantsAssumption
     DEF IInv, KeepInv, TypeInv, TypeOK, ConstantsAssumption
<1>2. /\ pc[t] = "handler" /\ done' = done \cup {cur[t]}
      /\ cur' = [cur EXCEPT ![t] = NoOp]
      /\ \/ UNCHANGED call
         \/ \E c \in EntryPoints : call' = [call EXCEPT ![t] = c]
      /\ UNCHANGED <<fresh, destroyed, stopped_, shutdown_>>
  BY DEF HandlerReturn, HandlerThrow, EntryPoints, svc
<1>3. cur[t] \in Ops /\ call[t] # "none"
  BY <1>1, <1>2 DEF HandlerInv, StackInv
<1>4. Inside' = Inside
  <2>1. "none" \notin EntryPoints
    BY DEF EntryPoints
  <2> QED
    BY <1>1, <1>2, <1>3, <2>1 DEF Inside
<1>5. Placed(cur[t])
  BY <1>1, <1>3 DEF PlaceInv
<1>6. Stage' = [Stage EXCEPT ![cur[t]] = "over"]
  <2>1. cur[t] \notin fresh
    BY <1>5 DEF Placed, Has, InFlight
  <2>2. \A p \in Ops \ {cur[t]} : (\E u \in Threads : cur'[u] = p)
                                     <=> \E u \in Threads : cur[u] = p
    BY <1>1, <1>2
  <2> QED
    BY <1>2, <1>3, <2>1, <2>2 DEF Stage
<1>7. Pool!End(t)
  BY <1>1, <1>2, <1>3, <1>4, <1>6 DEF Pool!End
<1> QED
  BY <1>7 DEF Pool!Next

LEMMA StopStep ==
    ASSUME IInv, NEW t \in Threads, Stop(t) \/ StopNoWork(t)
    PROVE  Pool!Next
<1>1. UNCHANGED <<fresh, done, destroyed, cur, shutdown_>> /\ stopped_' = TRUE
  BY DEF Stop, StopNoWork, StopAllThreads, stk
<1>2. Stage' = Stage
  BY <1>1, SameStage
<1>3. \/ UNCHANGED Inside
      \/ \E u \in Inside : cur[u] = NoOp /\ Inside' = Inside \ {u}
  <2>1. CASE UNCHANGED call
    BY <2>1, SameInside
  <2>2. CASE StopNoWork(t) /\ Resume(t) = "out"
    <3>1. call' = [call EXCEPT ![t] = "none"] /\ cur[t] = NoOp
      BY <2>2 DEF StopNoWork, Resume
    <3>2. Inside' = Inside \ {t}
      BY <3>1, LeaveInside DEF IInv, TypeInv
    <3> QED
      BY <3>1, <3>2
  <2>3. CASE StopNoWork(t) /\ Resume(t) # "out"
    <3>1. UNCHANGED call
      BY <2>3 DEF StopNoWork, IInv, TypeInv, TypeOK
    <3> QED
      BY <3>1, SameInside
  <2> QED
    BY <2>1, <2>2, <2>3 DEF Stop, stk
<1>4. Pool!Stop
  BY <1>1, <1>2, <1>3 DEF Pool!Stop
<1> QED
  BY <1>4 DEF Pool!Next

LEMMA ResetStep ==
    ASSUME NEW t \in Threads, Reset(t)
    PROVE  Pool!Next
<1>1. /\ UNCHANGED <<fresh, done, destroyed, cur, call, shutdown_>>
      /\ stopped_' = FALSE /\ \A u \in Threads : call[u] = "none"
  BY DEF Reset, stk, env
<1>2. Stage' = Stage /\ Inside' = Inside /\ Inside = {}
  BY <1>1, SameStage, SameInside DEF Inside
<1>3. Pool!Reset
  BY <1>1, <1>2 DEF Pool!Reset
<1> QED
  BY <1>3 DEF Pool!Next

LEMMA DestroyStep ==
    ASSUME IInv, NEW t \in Threads, Shutdown(t)
    PROVE  Pool!Next
<1>1. PlaceInv /\ StackInv /\ TaskOp \notin Ops /\ NoOp \notin Ops
  BY ConstantsAssumption DEF IInv, KeepInv, ConstantsAssumption
<1>2. /\ \A u \in Threads : pc[u] = "out"
      /\ destroyed' = destroyed \cup pending \cup (Queue \ {TaskOp})
      /\ ~shutdown_ /\ shutdown_' = TRUE
      /\ UNCHANGED <<fresh, done, cur, call, stopped_>>
  BY DEF Shutdown, stk, Queue
<1>3. \A u \in Threads : cur[u] = NoOp /\ local_ops[u] = <<>> /\ call[u] = "none"
  BY <1>1, <1>2 DEF StackInv
<1>4. \A u \in Threads : Local(u) = {}
  BY <1>3, Short DEF Local
<1>5. Inside' = Inside /\ Inside = {}
  BY <1>2, <1>3, SameInside DEF Inside
<1>6. Stage' = [o \in Ops |-> IF Stage[o] = "waiting" THEN "destroyed" ELSE Stage[o]]
  <2>1. ASSUME NEW o \in Ops
        PROVE  Stage'[o] = IF Stage[o] = "waiting" THEN "destroyed" ELSE Stage[o]
    <3>1. CASE Stage[o] = "waiting"
      <4>1. o \in Queue \/ o \in pending
        BY <1>1, <1>4, <3>1, Stages
      <4>2. o \notin fresh /\ o \notin done /\ o \in destroyed'
        BY <1>1, <1>2, <3>1, <4>1 DEF Stage
      <4> QED
        BY <1>2, <3>1, <4>2 DEF Stage
    <3>2. CASE Stage[o] # "waiting"
      <4>1. o \in destroyed' <=> o \in destroyed
        BY <1>1, <1>2, <3>2, Stages
      <4> QED
        BY <1>2, <3>2, <4>1 DEF Stage
    <3> QED
      BY <3>1, <3>2
  <2> QED
    BY <2>1 DEF Stage
<1>7. Pool!Destroy
  BY <1>2, <1>5, <1>6 DEF Pool!Destroy
<1> QED
  BY <1>7 DEF Pool!Next

LEMMA PoolMoves == IInv /\ [Next]_vars => [Pool!Next]_(Pool!pvars)
<1> SUFFICES ASSUME IInv, [Next]_vars PROVE Pool!Next \/ UNCHANGED Pool!pvars
  OBVIOUS
<1>1. CASE Unseen
  BY <1>1, UnseenStep
<1> QED
  BY <1>1, UnseenSteps, SubmitStep, EnterStep, ReturnStep, BeginStep, EndStep, StopStep,
     ResetStep, DestroyStep DEF Next, Internal, Program, Gone

(* The scheduler keeps the promises of a HandlerPool: an operation is      *)
(* called at most once, by a thread in the pool, never after stop(), and   *)
(* is destroyed without a call only with the io_service.                   *)
THEOREM SchedulerIsPool == Spec => PoolKeepsPromises
<1>1. Init => Pool!Init
  <2> SUFFICES ASSUME Init PROVE Pool!Init
    OBVIOUS
  <2>1. Stage = [o \in Ops |-> "new"] /\ Inside = {}
    BY DEF Init, Stage, Inside
  <2> QED
    BY <2>1 DEF Init, Pool!Init
<1> QED
  BY <1>1, IInvAlways, PoolMoves, PTL DEF Spec, Pool!Spec, PoolKeepsPromises
=============================================================================
