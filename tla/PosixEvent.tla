------------------------------ MODULE PosixEvent ------------------------------
(***************************************************************************)
(* detail/posix_event.hpp under the idle threads of task_io_service: a     *)
(* flag and a condition variable on the stack of the thread that sleeps.   *)
(* signal_and_unlock unlocks the mutex before it signals, so the order of  *)
(* its three steps, the return of pthread_cond_wait and the end of the     *)
(* sleeper's run_one are apart here.  TaskIoService has an event as a flag *)
(* and all of this as one step; the queue is a count here and the reactor  *)
(* is left out.                                                            *)
(***************************************************************************)
EXTENDS Naturals, Sequences, SequencesExt

CONSTANTS
    Threads,    \* call run and run_one
    Posters,    \* call post from outside
    Spurious,   \* the threads whose pthread_cond_wait may return without a
                \* signal, as POSIX allows
    MaxQueue    \* bound: handlers in op_queue_

ASSUME EventAssumption ==
    /\ Spurious \subseteq Threads /\ MaxQueue \in Nat /\ Threads \cap Posters = {}

VARIABLES
    op_queue_, stopped_,
    first_idle_thread_,
    signalled_,     \* per thread, of the event on its stack
    notified,       \* the threads whose condition variable was signalled
    mutex_,         \* its owner, or the set of nobody
    pc, target      \* target: the thread whose event is being signalled

vars == <<op_queue_, stopped_, first_idle_thread_, signalled_, notified, mutex_, pc, target>>

Free == mutex_ = {}

Init ==
    /\ op_queue_ = 0 /\ stopped_ = FALSE /\ first_idle_thread_ = <<>>
    /\ signalled_ = [t \in Threads |-> FALSE] /\ notified = {} /\ mutex_ = {}
    /\ pc = [t \in Threads \cup Posters |-> "out"]
    /\ target = [t \in Threads \cup Posters |-> t]

\* run_one makes an event and locks; run does so once for many rounds.
Enter(t) ==
    /\ pc[t] \in {"out", "handler"} /\ Free
    /\ mutex_' = {t}
    /\ pc' = [pc EXCEPT ![t] = "do_one"]
    /\ signalled_' = [signalled_ EXCEPT ![t] = @ /\ pc[t] = "handler"]
    /\ UNCHANGED <<op_queue_, stopped_, first_idle_thread_, notified, target>>

\* run_one returns with its event destroyed.
Leave(t) ==
    /\ pc[t] = "handler"
    /\ pc' = [pc EXCEPT ![t] = "out"]
    /\ UNCHANGED <<op_queue_, stopped_, first_idle_thread_, signalled_, notified, mutex_, target>>

DoOneStopped(t) ==
    /\ pc[t] = "do_one" /\ stopped_
    /\ mutex_' = {} /\ pc' = [pc EXCEPT ![t] = "out"]
    /\ UNCHANGED <<op_queue_, stopped_, first_idle_thread_, signalled_, notified, target>>

\* wake_one_idle_thread_and_unlock up to the unlock, for s, which goes on at
\* next; the signal follows.
WakeOneAndUnlock(s, next) ==
    /\ mutex_' = {}
    /\ IF first_idle_thread_ = <<>>
       THEN /\ pc' = [pc EXCEPT ![s] = next]
            /\ UNCHANGED <<first_idle_thread_, signalled_, target>>
       ELSE /\ first_idle_thread_' = Tail(first_idle_thread_)
            /\ signalled_' = [signalled_ EXCEPT ![Head(first_idle_thread_)] = TRUE]
            /\ target' = [target EXCEPT ![s] = Head(first_idle_thread_)]
            /\ pc' = [pc EXCEPT ![s] = "signal"]

DoOneHandler(t) ==
    /\ pc[t] = "do_one" /\ ~stopped_ /\ op_queue_ > 0
    /\ op_queue_' = op_queue_ - 1
    /\ IF op_queue_ > 1 THEN WakeOneAndUnlock(t, "handler")
       ELSE /\ mutex_' = {} /\ pc' = [pc EXCEPT ![t] = "handler"]
            /\ UNCHANGED <<first_idle_thread_, signalled_, target>>
    /\ UNCHANGED <<stopped_, notified>>

\* Link, clear and wait: the mutex is released when the thread sleeps.
DoOneIdle(t) ==
    /\ pc[t] = "do_one" /\ ~stopped_ /\ op_queue_ = 0
    /\ first_idle_thread_' = <<t>> \o first_idle_thread_
    /\ signalled_' = [signalled_ EXCEPT ![t] = FALSE]
    /\ mutex_' = {} /\ pc' = [pc EXCEPT ![t] = "cond_wait"]
    /\ UNCHANGED <<op_queue_, stopped_, notified, target>>

MayWake(t) == t \in notified \cup Spurious

Wake(t) ==
    /\ pc[t] = "cond_wait" /\ MayWake(t)
    /\ notified' = notified \ {t}
    /\ pc' = [pc EXCEPT ![t] = "woken"]
    /\ UNCHANGED <<op_queue_, stopped_, first_idle_thread_, signalled_, mutex_, target>>

\* Names that end in a letter after an underscore are variants: each is a
\* mistake that one of the properties below finds out.
WaitsAgain_A(t) == FALSE            \* if instead of while
WaitsAgain(t) == ~signalled_[t]

Relock(t) ==
    /\ pc[t] = "woken" /\ Free
    /\ IF WaitsAgain(t) THEN pc' = [pc EXCEPT ![t] = "cond_wait"] /\ UNCHANGED mutex_
       ELSE pc' = [pc EXCEPT ![t] = "do_one"] /\ mutex_' = {t}
    /\ UNCHANGED <<op_queue_, stopped_, first_idle_thread_, signalled_, notified, target>>

\* The end of signal_and_unlock: nobody hears it unless asleep.
Signal(s) ==
    /\ pc[s] = "signal"
    /\ notified' = IF pc[target[s]] = "cond_wait" THEN notified \cup {target[s]} ELSE notified
    /\ pc' = [pc EXCEPT ![s] = IF s \in Threads THEN "handler" ELSE "out"]
    /\ UNCHANGED <<op_queue_, stopped_, first_idle_thread_, signalled_, mutex_, target>>

Post(s) ==
    /\ pc[s] = "out" /\ Free /\ op_queue_ < MaxQueue
    /\ op_queue_' = op_queue_ + 1
    /\ WakeOneAndUnlock(s, "out")
    /\ UNCHANGED <<stopped_, notified>>

Signalled_A == {}                   \* flags without signals
Signalled_B == {t \in Threads : pc[t] = "cond_wait"}    \* also who is off the list
Signalled == {t \in ToSet(first_idle_thread_) : pc[t] = "cond_wait"}

\* stop_all_threads signals each event under the mutex.
Stop ==
    /\ Free /\ ~stopped_
    /\ stopped_' = TRUE /\ first_idle_thread_' = <<>>
    /\ signalled_' = [t \in Threads |-> signalled_[t] \/ t \in ToSet(first_idle_thread_)]
    /\ notified' = notified \cup Signalled
    /\ UNCHANGED <<op_queue_, mutex_, pc, target>>

Reset ==
    /\ Free /\ stopped_ /\ \A t \in Threads : pc[t] = "out"
    /\ stopped_' = FALSE
    /\ UNCHANGED <<op_queue_, first_idle_thread_, signalled_, notified, mutex_, pc, target>>

Next ==
    \/ \E t \in Threads :
          \/ Enter(t) \/ Leave(t) \/ DoOneStopped(t) \/ DoOneHandler(t) \/ DoOneIdle(t)
          \/ Wake(t) \/ Relock(t)
    \/ \E s \in Threads \cup Posters : Signal(s)
    \/ \E s \in Posters : Post(s)
    \/ Stop \/ Reset

Spec == Init /\ [][Next]_vars

-----------------------------------------------------------------------------
Asleep(t) == pc[t] \in {"cond_wait", "woken"}

PCs == {"out", "do_one", "handler", "signal", "cond_wait", "woken"}

\* The types; the mutex is held by the thread that looks at the queue and by
\* nobody else, and only a sleeper can have been notified.
TypeOK ==
    /\ op_queue_ \in 0..MaxQueue /\ stopped_ \in BOOLEAN
    /\ first_idle_thread_ \in Seq(Threads)
    /\ signalled_ \in [Threads -> BOOLEAN]
    /\ pc \in [Threads \cup Posters -> PCs]
    /\ \A s \in Posters : pc[s] \in {"out", "signal"}
    /\ target \in [Threads \cup Posters -> Threads \cup Posters]
    /\ mutex_ = {t \in Threads : pc[t] = "do_one"}
    /\ \A t, u \in mutex_ : t = u
    /\ notified \subseteq {t \in Threads : pc[t] = "cond_wait"}

\* A thread's node is in the idle list until its event is signalled and no
\* longer, however often pthread_cond_wait returns: no node of a thread that
\* has gone on is left in the list.
IdleUntilSignalled ==
    /\ IsInjective(first_idle_thread_)
    /\ ToSet(first_idle_thread_) = {t \in Threads : Asleep(t) /\ ~signalled_[t]}

\* A thread that sleeps on a set flag is woken by a signal that was given or
\* is about to be.
WakeupNotLost ==
    \A t \in Threads : pc[t] = "cond_wait" /\ signalled_[t] =>
        t \in notified \/ \E s \in DOMAIN pc : pc[s] = "signal" /\ target[s] = t

\* The event that is signalled after the unlock is still there, in the sleep
\* of the thread that was taken from the list, unless that thread may wake by
\* itself: io_service is to be safe when it is shared.
EventOutlivesSignal ==
    \A s \in DOMAIN pc :
        pc[s] = "signal" /\ target[s] \notin Spurious => Asleep(target[s])

\* The same of every thread, as far as an event that has been destroyed.
EventNotDestroyed ==
    \A s \in DOMAIN pc : pc[s] = "signal" => pc[target[s]] # "out"
=============================================================================
