--------------------------- MODULE PosixEventProofs ---------------------------
(***************************************************************************)
(* Proofs about PosixEvent, for any number of threads and of posts: the    *)
(* idle list is exact and no wake-up is lost, however pthread_cond_wait    *)
(* returns; and the event that signal_and_unlock signals is still there if *)
(* pthread_cond_wait returns to its thread only when signalled.            *)
(*                                                                         *)
(* The last one needs an invariant of its own: such a sleeper of a pending *)
(* signal is in pthread_cond_wait, its flag is set, its condition variable *)
(* has not been signalled, and no other signal is on its way to it.        *)
(***************************************************************************)
EXTENDS PosixEvent, TLAPS

USE EventAssumption DEF EventAssumption

-----------------------------------------------------------------------------
(* Sequences.                                                              *)

LEMMA ListHead ==
    ASSUME NEW l \in Seq(Threads), l # <<>>, IsInjective(l)
    PROVE  /\ Head(l) \in Threads /\ Head(l) \in ToSet(l)
           /\ Tail(l) \in Seq(Threads) /\ IsInjective(Tail(l))
           /\ ToSet(Tail(l)) = ToSet(l) \ {Head(l)}
<1>1. /\ Len(l) \in Nat /\ Len(l) > 0
      /\ DOMAIN l = 1..Len(l) /\ DOMAIN Tail(l) = 1..(Len(l) - 1)
      /\ \A k \in 1..(Len(l) - 1) : Tail(l)[k] = l[k + 1]
      /\ Head(l) = l[1] /\ Head(l) \in Threads /\ Tail(l) \in Seq(Threads)
  OBVIOUS
<1>2. \A i, j \in 1..Len(l) : l[i] = l[j] => i = j
  BY <1>1 DEF IsInjective
<1>3. IsInjective(Tail(l))
  BY <1>1, <1>2 DEF IsInjective
<1>4. ASSUME NEW x \in ToSet(Tail(l)) PROVE x \in ToSet(l) \ {Head(l)}
  <2>1. PICK k \in 1..(Len(l) - 1) : x = l[k + 1]
    BY <1>1, <1>4 DEF ToSet
  <2>2. k + 1 \in 1..Len(l) /\ 1 \in 1..Len(l) /\ k + 1 # 1
    BY <1>1, <2>1
  <2> QED
    BY <1>1, <1>2, <2>1, <2>2 DEF ToSet
<1>5. ASSUME NEW x \in ToSet(l), x # Head(l) PROVE x \in ToSet(Tail(l))
  <2>1. PICK k \in 1..Len(l) : x = l[k]
    BY <1>1, <1>5 DEF ToSet
  <2>2. k # 1
    BY <1>1, <1>5, <2>1
  <2>3. k - 1 \in 1..(Len(l) - 1) /\ (k - 1) + 1 = k
    BY <1>1, <2>1, <2>2
  <2>4. Tail(l)[k - 1] = x
    BY <1>1, <2>1, <2>3
  <2> QED
    BY <1>1, <2>3, <2>4 DEF ToSet
<1>6. Head(l) \in ToSet(l)
  BY <1>1 DEF ToSet
<1> QED
  BY <1>1, <1>3, <1>4, <1>5, <1>6

LEMMA ListGrows ==
    ASSUME NEW t \in Threads, NEW l \in Seq(Threads), IsInjective(l), t \notin ToSet(l)
    PROVE  /\ <<t>> \o l \in Seq(Threads) /\ IsInjective(<<t>> \o l)
           /\ ToSet(<<t>> \o l) = ToSet(l) \cup {t}
<1> DEFINE r == <<t>> \o l
<1>1. /\ r \in Seq(Threads)
      /\ Len(l) \in Nat /\ DOMAIN l = 1..Len(l)
      /\ DOMAIN r = 1..(Len(l) + 1)
      /\ r[1] = t
      /\ \A i \in 2..(Len(l) + 1) : r[i] = l[i - 1] /\ i - 1 \in 1..Len(l)
      /\ \A i \in 1..Len(l) : i + 1 \in 2..(Len(l) + 1) /\ (i + 1) - 1 = i
  OBVIOUS
<1> HIDE DEF r
<1>2. \A i \in 1..Len(l) : l[i] # t
  BY <1>1 DEF ToSet
<1>3. \A i, j \in 1..Len(l) : l[i] = l[j] => i = j
  BY <1>1 DEF IsInjective
<1>4. IsInjective(r)
  <2> SUFFICES ASSUME NEW i \in 1..(Len(l) + 1), NEW j \in 1..(Len(l) + 1), r[i] = r[j]
               PROVE  i = j
    BY <1>1 DEF IsInjective
  <2>1. (i = 1 \/ i \in 2..(Len(l) + 1)) /\ (j = 1 \/ j \in 2..(Len(l) + 1))
    BY <1>1
  <2>2. CASE i = 1 /\ j = 1
    BY <2>2
  <2>3. CASE i = 1 /\ j \in 2..(Len(l) + 1)
    BY <1>1, <1>2, <2>3
  <2>4. CASE i \in 2..(Len(l) + 1) /\ j = 1
    BY <1>1, <1>2, <2>4
  <2>5. CASE i \in 2..(Len(l) + 1) /\ j \in 2..(Len(l) + 1)
    <3>1. i - 1 = j - 1
      BY <1>1, <1>3, <2>5
    <3> QED
      BY <1>1, <2>5, <3>1
  <2> QED
    BY <2>1, <2>2, <2>3, <2>4, <2>5
<1>5. \A x : x \in ToSet(r) => x = t \/ x \in ToSet(l)
  <2> SUFFICES ASSUME NEW x \in ToSet(r) PROVE x = t \/ x \in ToSet(l)
    OBVIOUS
  <2>1. PICK i \in 1..(Len(l) + 1) : x = r[i]
    BY <1>1 DEF ToSet
  <2>2. i = 1 \/ i \in 2..(Len(l) + 1)
    BY <1>1
  <2> QED
    BY <1>1, <2>1, <2>2 DEF ToSet
<1>6. t \in ToSet(r)
  BY <1>1 DEF ToSet
<1>7. \A x \in ToSet(l) : x \in ToSet(r)
  <2> SUFFICES ASSUME NEW x \in ToSet(l) PROVE x \in ToSet(r)
    OBVIOUS
  <2>1. PICK i \in 1..Len(l) : x = l[i]
    BY <1>1 DEF ToSet
  <2>2. i + 1 \in 1..(Len(l) + 1) /\ r[i + 1] = x
    BY <1>1, <2>1
  <2> QED
    BY <1>1, <2>2 DEF ToSet
<1> QED
  BY <1>1, <1>4, <1>5, <1>6, <1>7 DEF r

LEMMA EmptyList == <<>> \in Seq(Threads) /\ IsInjective(<<>>) /\ ToSet(<<>>) = {}
BY DEF IsInjective, ToSet

-----------------------------------------------------------------------------
(* Types and the idle list.                                                *)

Inv == TypeOK /\ IdleUntilSignalled

\* What wake_one_idle_thread_and_unlock does to s and to the head of the list.
LEMMA WakeOneEffect ==
    ASSUME Inv, NEW s \in Threads \cup Posters,
           NEW next \in {"out", "handler"}, WakeOneAndUnlock(s, next)
    PROVE  \/ /\ first_idle_thread_ = <<>>
              /\ pc' = [pc EXCEPT ![s] = next]
              /\ UNCHANGED <<first_idle_thread_, signalled_, target>>
           \/ \E h \in Threads :
                 /\ Asleep(h) /\ ~signalled_[h]
                 /\ first_idle_thread_' \in Seq(Threads)
                 /\ IsInjective(first_idle_thread_')
                 /\ ToSet(first_idle_thread_') = ToSet(first_idle_thread_) \ {h}
                 /\ signalled_' = [signalled_ EXCEPT ![h] = TRUE]
                 /\ target' = [target EXCEPT ![s] = h]
                 /\ pc' = [pc EXCEPT ![s] = "signal"]
<1>1. CASE first_idle_thread_ = <<>>
  BY <1>1 DEF WakeOneAndUnlock
<1>2. CASE first_idle_thread_ # <<>>
  <2> DEFINE h == Head(first_idle_thread_)
  <2>1. /\ h \in Threads /\ h \in ToSet(first_idle_thread_)
        /\ Tail(first_idle_thread_) \in Seq(Threads)
        /\ IsInjective(Tail(first_idle_thread_))
        /\ ToSet(Tail(first_idle_thread_)) = ToSet(first_idle_thread_) \ {h}
    BY <1>2, ListHead DEF Inv, TypeOK, IdleUntilSignalled
  <2>2. Asleep(h) /\ ~signalled_[h]
    BY <2>1 DEF Inv, IdleUntilSignalled
  <2>3. /\ first_idle_thread_' = Tail(first_idle_thread_)
        /\ signalled_' = [signalled_ EXCEPT ![h] = TRUE]
        /\ target' = [target EXCEPT ![s] = h]
        /\ pc' = [pc EXCEPT ![s] = "signal"]
    BY <1>2 DEF WakeOneAndUnlock
  <2> QED
    BY <2>1, <2>2, <2>3
<1> QED
  BY <1>1, <1>2

LEMMA InvInit == Init => Inv
<1> SUFFICES ASSUME Init PROVE Inv
  OBVIOUS
<1>1. TypeOK
  <2>1. first_idle_thread_ \in Seq(Threads)
    BY EmptyList DEF Init
  <2>2. mutex_ = {t \in Threads : pc[t] = "do_one"}
    BY DEF Init
  <2>3. op_queue_ \in 0..MaxQueue /\ stopped_ \in BOOLEAN
    <3>1. MaxQueue \in Nat
      BY EventAssumption DEF EventAssumption
    <3>2. 0 \in 0..MaxQueue
      BY <3>1
    <3>3. op_queue_ = 0 /\ stopped_ \in BOOLEAN
      BY DEF Init
    <3> QED
      BY <3>2, <3>3
  <2>4. pc \in [Threads \cup Posters -> PCs] /\ \A s \in Posters : pc[s] \in {"out", "signal"}
    BY DEF Init, PCs
  <2>5. /\ target \in [Threads \cup Posters -> Threads \cup Posters]
        /\ signalled_ \in [Threads -> BOOLEAN]
    BY DEF Init
  <2>6. /\ \A t, u \in mutex_ : t = u
        /\ notified \subseteq {t \in Threads : pc[t] = "cond_wait"}
    BY DEF Init
  <2> QED
    BY <2>1, <2>2, <2>3, <2>4, <2>5, <2>6, Zenon DEF TypeOK
<1>2. IdleUntilSignalled
  BY EmptyList DEF Init, IdleUntilSignalled, Asleep
<1> QED
  BY <1>1, <1>2 DEF Inv

LEMMA WakeOneKeepsInv ==
    ASSUME Inv, NEW s \in Threads \cup Posters, NEW next \in {"out", "handler"},
           s \in Posters => next = "out",
           mutex_ \subseteq {s}, pc[s] \in {"out", "do_one"}, UNCHANGED notified,
           op_queue_' \in 0..MaxQueue, UNCHANGED stopped_,
           WakeOneAndUnlock(s, next)
    PROVE  Inv'
<1>1. mutex_' = {}
  BY DEF WakeOneAndUnlock
<1>2. \A t \in Threads : t # s => pc[t] # "do_one"
  BY DEF Inv, TypeOK
<1>3. CASE /\ first_idle_thread_ = <<>>
           /\ pc' = [pc EXCEPT ![s] = next]
           /\ UNCHANGED <<first_idle_thread_, signalled_, target>>
  BY <1>1, <1>2, <1>3 DEF Inv, TypeOK, PCs, IdleUntilSignalled, Asleep
<1>4. ASSUME NEW h \in Threads,
             /\ Asleep(h) /\ ~signalled_[h]
             /\ first_idle_thread_' \in Seq(Threads)
             /\ IsInjective(first_idle_thread_')
             /\ ToSet(first_idle_thread_') = ToSet(first_idle_thread_) \ {h}
             /\ signalled_' = [signalled_ EXCEPT ![h] = TRUE]
             /\ target' = [target EXCEPT ![s] = h]
             /\ pc' = [pc EXCEPT ![s] = "signal"]
      PROVE  Inv'
  <2>1. TypeOK'
    BY <1>1, <1>2, <1>4 DEF Inv, TypeOK, PCs
  <2>2. IdleUntilSignalled'
    BY <1>4 DEF Inv, TypeOK, PCs, IdleUntilSignalled, Asleep
  <2> QED
    BY <2>1, <2>2 DEF Inv
<1> QED
  BY <1>3, <1>4, WakeOneEffect

LEMMA InvStep == Inv /\ [Next]_vars => Inv'
<1> SUFFICES ASSUME Inv, [Next]_vars PROVE Inv'
  OBVIOUS
<1> USE DEF Inv, PCs
<1>1. ASSUME NEW t \in Threads, Enter(t) PROVE Inv'
  BY <1>1 DEF Enter, Free, TypeOK, IdleUntilSignalled, Asleep
<1>2. ASSUME NEW t \in Threads, Leave(t) PROVE Inv'
  BY <1>2 DEF Leave, TypeOK, IdleUntilSignalled, Asleep
<1>3. ASSUME NEW t \in Threads, DoOneStopped(t) PROVE Inv'
  BY <1>3 DEF DoOneStopped, TypeOK, IdleUntilSignalled, Asleep
<1>4. ASSUME NEW t \in Threads, DoOneHandler(t) PROVE Inv'
  <2>1. t \notin Posters /\ mutex_ \subseteq {t} /\ op_queue_' \in 0..MaxQueue
    BY <1>4 DEF DoOneHandler, TypeOK
  <2>2. CASE op_queue_ > 1
    BY <1>4, <2>1, <2>2, WakeOneKeepsInv DEF DoOneHandler
  <2>3. CASE ~(op_queue_ > 1)
    BY <1>4, <2>1, <2>3 DEF DoOneHandler, TypeOK, IdleUntilSignalled, Asleep
  <2> QED
    BY <2>2, <2>3
<1>5. ASSUME NEW t \in Threads, DoOneIdle(t) PROVE Inv'
  <2>1. t \notin ToSet(first_idle_thread_)
    BY <1>5 DEF DoOneIdle, IdleUntilSignalled, Asleep
  <2>2. /\ first_idle_thread_' \in Seq(Threads) /\ IsInjective(first_idle_thread_')
        /\ ToSet(first_idle_thread_') = ToSet(first_idle_thread_) \cup {t}
    BY <1>5, <2>1, ListGrows DEF DoOneIdle, TypeOK, IdleUntilSignalled
  <2>3. TypeOK'
    BY <1>5, <2>2 DEF DoOneIdle, TypeOK
  <2>4. IdleUntilSignalled'
    BY <1>5, <2>2 DEF DoOneIdle, TypeOK, IdleUntilSignalled, Asleep
  <2> QED
    BY <2>3, <2>4
<1>6. ASSUME NEW t \in Threads, Wake(t) PROVE Inv'
  BY <1>6 DEF Wake, TypeOK, IdleUntilSignalled, Asleep
<1>7. ASSUME NEW t \in Threads, Relock(t) PROVE Inv'
  BY <1>7 DEF Relock, WaitsAgain, Free, TypeOK, IdleUntilSignalled, Asleep
<1>8. ASSUME NEW s \in Threads \cup Posters, Signal(s) PROVE Inv'
  <2>1. TypeOK'
    BY <1>8 DEF Signal, TypeOK
  <2>2. IdleUntilSignalled'
    BY <1>8 DEF Signal, TypeOK, IdleUntilSignalled, Asleep
  <2> QED
    BY <2>1, <2>2
<1>9. ASSUME NEW s \in Posters, Post(s) PROVE Inv'
  <2>1. op_queue_' \in 0..MaxQueue
    BY <1>9 DEF Post, TypeOK
  <2> QED
    BY <1>9, <2>1, WakeOneKeepsInv DEF Post, Free
<1>10. ASSUME Stop PROVE Inv'
  <2>1. TypeOK'
    <3>1. first_idle_thread_' \in Seq(Threads)
      BY <1>10, EmptyList DEF Stop
    <3>2. ToSet(first_idle_thread_) \subseteq Threads
      BY DEF IdleUntilSignalled
    <3> QED
      BY <1>10, <3>1, <3>2 DEF Stop, Signalled, TypeOK
  <2>2. IdleUntilSignalled'
    BY <1>10, EmptyList DEF Stop, TypeOK, IdleUntilSignalled, Asleep
  <2> QED
    BY <2>1, <2>2
<1>11. ASSUME Reset PROVE Inv'
  BY <1>11 DEF Reset, TypeOK, IdleUntilSignalled, Asleep
<1>12. ASSUME UNCHANGED vars PROVE Inv'
  BY <1>12 DEF vars, TypeOK, IdleUntilSignalled, Asleep
<1> QED
  BY <1>1, <1>2, <1>3, <1>4, <1>5, <1>6, <1>7, <1>8, <1>9, <1>10, <1>11, <1>12 DEF Next

(* The types of the variables, and posix_mutex has one owner at a time.    *)
THEOREM EventTypeCorrect == Spec => []TypeOK
<1>1. Inv => TypeOK
  BY DEF Inv
<1> QED
  BY <1>1, InvInit, InvStep, PTL DEF Spec

(* do_one leaves no node of a running thread in first_idle_thread_, also   *)
(* when pthread_cond_wait returns spuriously.                              *)
THEOREM IdleListIsExact == Spec => []IdleUntilSignalled
<1>1. Inv => IdleUntilSignalled
  BY DEF Inv
<1> QED
  BY <1>1, InvInit, InvStep, PTL DEF Spec

-----------------------------------------------------------------------------
(* Wake-ups.                                                               *)

LEMMA WakeupInit == Init => WakeupNotLost
BY DEF Init, WakeupNotLost

\* Whoever wakes a sleeper is about to signal it.
LEMMA WakeOneKeepsWakeup ==
    ASSUME Inv, WakeupNotLost, NEW s \in Threads \cup Posters,
           NEW next \in {"out", "handler"},
           pc[s] \in {"out", "do_one"}, UNCHANGED notified,
           WakeOneAndUnlock(s, next)
    PROVE  WakeupNotLost'
<1>0. pc \in [Threads \cup Posters -> PCs] /\ signalled_ \in [Threads -> BOOLEAN]
      /\ target \in [Threads \cup Posters -> Threads \cup Posters]
  BY DEF Inv, TypeOK
<1>1. CASE /\ first_idle_thread_ = <<>>
           /\ pc' = [pc EXCEPT ![s] = next]
           /\ UNCHANGED <<first_idle_thread_, signalled_, target>>
  BY <1>0, <1>1 DEF WakeupNotLost
<1>2. ASSUME NEW h \in Threads,
             /\ signalled_' = [signalled_ EXCEPT ![h] = TRUE]
             /\ target' = [target EXCEPT ![s] = h]
             /\ pc' = [pc EXCEPT ![s] = "signal"]
      PROVE  WakeupNotLost'
  <2> SUFFICES ASSUME NEW t \in Threads, pc'[t] = "cond_wait", signalled_'[t], t \notin notified'
               PROVE  \E u \in DOMAIN pc' : pc'[u] = "signal" /\ target'[u] = t
    BY DEF WakeupNotLost
  <2>1. CASE t = h
    BY <1>0, <1>2, <2>1
  <2>2. CASE t # h
    <3>1. PICK u \in DOMAIN pc : pc[u] = "signal" /\ target[u] = t
      BY <1>0, <1>2, <2>2 DEF WakeupNotLost
    <3>2. u # s
      BY <3>1
    <3> QED
      BY <1>0, <1>2, <3>1, <3>2
  <2> QED
    BY <2>1, <2>2
<1> QED
  BY <1>1, <1>2, WakeOneEffect

LEMMA WakeupStep == Inv /\ WakeupNotLost /\ [Next]_vars => WakeupNotLost'
<1> SUFFICES ASSUME Inv, WakeupNotLost, [Next]_vars PROVE WakeupNotLost'
  OBVIOUS
<1>0. pc \in [Threads \cup Posters -> PCs] /\ signalled_ \in [Threads -> BOOLEAN]
      /\ target \in [Threads \cup Posters -> Threads \cup Posters]
  BY DEF Inv, TypeOK
<1>1. ASSUME NEW t \in Threads, Enter(t) PROVE WakeupNotLost'
  BY <1>0, <1>1 DEF Enter, WakeupNotLost
<1>2. ASSUME NEW t \in Threads, Leave(t) PROVE WakeupNotLost'
  BY <1>0, <1>2 DEF Leave, WakeupNotLost
<1>3. ASSUME NEW t \in Threads, DoOneStopped(t) PROVE WakeupNotLost'
  BY <1>0, <1>3 DEF DoOneStopped, WakeupNotLost
<1>4. ASSUME NEW t \in Threads, DoOneHandler(t) PROVE WakeupNotLost'
  <2>1. CASE op_queue_ > 1
    BY <1>4, <2>1, WakeOneKeepsWakeup DEF DoOneHandler
  <2>2. CASE ~(op_queue_ > 1)
    BY <1>0, <1>4, <2>2 DEF DoOneHandler, WakeupNotLost
  <2> QED
    BY <2>1, <2>2
<1>5. ASSUME NEW t \in Threads, DoOneIdle(t) PROVE WakeupNotLost'
  BY <1>0, <1>5 DEF DoOneIdle, WakeupNotLost
<1>6. ASSUME NEW t \in Threads, Wake(t) PROVE WakeupNotLost'
  BY <1>0, <1>6 DEF Wake, WakeupNotLost
<1>7. ASSUME NEW t \in Threads, Relock(t) PROVE WakeupNotLost'
  BY <1>0, <1>7 DEF Relock, WaitsAgain, WakeupNotLost
<1>8. ASSUME NEW s \in Threads \cup Posters, Signal(s) PROVE WakeupNotLost'
  <2> SUFFICES ASSUME NEW t \in Threads, pc'[t] = "cond_wait", signalled_'[t], t \notin notified'
               PROVE  \E u \in DOMAIN pc' : pc'[u] = "signal" /\ target'[u] = t
    BY DEF WakeupNotLost
  <2>1. pc[t] = "cond_wait" /\ signalled_[t] /\ t \notin notified
    BY <1>0, <1>8 DEF Signal
  <2>2. PICK u \in DOMAIN pc : pc[u] = "signal" /\ target[u] = t
    BY <2>1 DEF WakeupNotLost
  <2>3. u # s
    BY <1>8, <2>1, <2>2 DEF Signal
  <2> QED
    BY <1>0, <1>8, <2>2, <2>3 DEF Signal
<1>9. ASSUME NEW s \in Posters, Post(s) PROVE WakeupNotLost'
  BY <1>9, WakeOneKeepsWakeup DEF Post
<1>10. ASSUME Stop PROVE WakeupNotLost'
  <2>1. \A t \in Threads : signalled_'[t] => signalled_[t] \/ t \in ToSet(first_idle_thread_)
    BY <1>10 DEF Stop
  <2> QED
    BY <1>10, <2>1 DEF Stop, Signalled, WakeupNotLost
<1>11. ASSUME Reset PROVE WakeupNotLost'
  BY <1>11 DEF Reset, WakeupNotLost
<1>12. ASSUME UNCHANGED vars PROVE WakeupNotLost'
  BY <1>12 DEF vars, WakeupNotLost
<1> QED
  BY <1>1, <1>2, <1>3, <1>4, <1>5, <1>6, <1>7, <1>8, <1>9, <1>10, <1>11, <1>12 DEF Next

(* A thread that waits on a set flag has been signalled, or will be by the *)
(* caller of signal_and_unlock that has set it.                            *)
THEOREM NoWakeupIsLost == Spec => []WakeupNotLost
  BY InvInit, InvStep, WakeupInit, WakeupStep, PTL DEF Spec

-----------------------------------------------------------------------------
(* The lifetime of the events of threads that wake when signalled.         *)

\* s is about to signal a thread that waits for it.
Signalling(s) == pc[s] = "signal" /\ target[s] \notin Spurious

\* A pending signal is the only way by which its sleeper can wake.
ExactInv ==
    /\ \A s \in Threads \cup Posters : Signalling(s) =>
          /\ target[s] \in Threads /\ pc[target[s]] = "cond_wait"
          /\ signalled_[target[s]] /\ target[s] \notin notified
    /\ \A s, u \in Threads \cup Posters :
          Signalling(s) /\ Signalling(u) /\ target[s] = target[u] => s = u
    /\ \A t \in Threads \ Spurious : pc[t] = "woken" \/ t \in notified => signalled_[t]

LEMMA ExactInit == Init => ExactInv
BY DEF Init, ExactInv, Signalling

LEMMA WakeOneKeepsExact ==
    ASSUME Inv, ExactInv, NEW s \in Threads \cup Posters,
           NEW next \in {"out", "handler"},
           pc[s] \in {"out", "do_one"}, UNCHANGED notified,
           WakeOneAndUnlock(s, next)
    PROVE  ExactInv'
<1>0. /\ pc \in [Threads \cup Posters -> PCs] /\ signalled_ \in [Threads -> BOOLEAN]
      /\ target \in [Threads \cup Posters -> Threads \cup Posters]
      /\ \A t \in notified : t \in Threads
  BY DEF Inv, TypeOK
<1>1. CASE /\ first_idle_thread_ = <<>>
           /\ pc' = [pc EXCEPT ![s] = next]
           /\ UNCHANGED <<first_idle_thread_, signalled_, target>>
  BY <1>0, <1>1 DEF ExactInv, Signalling
<1>2. ASSUME NEW h \in Spurious,
             /\ h \in Threads /\ Asleep(h) /\ ~signalled_[h]
             /\ signalled_' = [signalled_ EXCEPT ![h] = TRUE]
             /\ target' = [target EXCEPT ![s] = h]
             /\ pc' = [pc EXCEPT ![s] = "signal"]
      PROVE  ExactInv'
  <2>1. ~Signalling(s)' /\ pc'[s] = "signal"
    BY <1>0, <1>2 DEF Signalling
  <2>2. \A u \in Threads \cup Posters : u # s =>
           (Signalling(u)' <=> Signalling(u)) /\ target'[u] = target[u] /\ pc'[u] = pc[u]
    BY <1>0, <1>2 DEF Signalling
  <2>3. \A u \in Threads \cup Posters : Signalling(u) => target[u] # s /\ target[u] # h
    BY <1>2 DEF ExactInv, Signalling
  <2>4. \A t \in Threads : t # h => signalled_'[t] = signalled_[t]
    BY <1>0, <1>2
  <2>5. \A t \in Threads \ Spurious : pc'[t] = "woken" \/ t \in notified' => signalled_'[t]
    BY <2>1, <2>2, <2>4 DEF ExactInv
  <2> QED
    BY <2>1, <2>2, <2>3, <2>4, <2>5 DEF ExactInv
<1>3. ASSUME NEW h \in Threads \ Spurious,
             /\ Asleep(h) /\ ~signalled_[h]
             /\ signalled_' = [signalled_ EXCEPT ![h] = TRUE]
             /\ target' = [target EXCEPT ![s] = h]
             /\ pc' = [pc EXCEPT ![s] = "signal"]
      PROVE  ExactInv'
  <2>1. pc[h] = "cond_wait" /\ h \notin notified /\ h # s
    BY <1>3 DEF ExactInv, Asleep
  <2>2. \A u \in Threads \cup Posters : Signalling(u) => target[u] # h /\ target[u] # s /\ u # s
    BY <1>3 DEF ExactInv, Signalling
  <2>3. \A u \in Threads \cup Posters :
           /\ u = s => Signalling(u)' /\ target'[u] = h
           /\ u # s => (Signalling(u)' <=> Signalling(u)) /\ target'[u] = target[u]
    BY <1>0, <1>3 DEF Signalling
  <2>4. /\ \A t \in Threads : t # s => pc'[t] = pc[t]
        /\ \A t \in Threads : t # h => signalled_'[t] = signalled_[t]
        /\ signalled_'[h] /\ pc'[h] = "cond_wait" /\ pc'[s] = "signal"
    BY <1>0, <1>3, <2>1
  <2>5. \A u \in Threads \cup Posters : Signalling(u)' =>
           /\ target'[u] \in Threads /\ pc'[target'[u]] = "cond_wait"
           /\ signalled_'[target'[u]] /\ target'[u] \notin notified'
    <3> SUFFICES ASSUME NEW u \in Threads \cup Posters, Signalling(u)'
                 PROVE  /\ target'[u] \in Threads /\ pc'[target'[u]] = "cond_wait"
                        /\ signalled_'[target'[u]] /\ target'[u] \notin notified'
      OBVIOUS
    <3>1. CASE u = s
      BY <2>1, <2>3, <2>4, <3>1
    <3>2. CASE u # s
      <4>1. Signalling(u) /\ target'[u] = target[u]
        BY <2>3, <3>2
      <4> QED
        BY <2>2, <2>4, <4>1 DEF ExactInv
    <3> QED
      BY <3>1, <3>2
  <2>6. \A u, v \in Threads \cup Posters :
           Signalling(u)' /\ Signalling(v)' /\ target'[u] = target'[v] => u = v
    BY <2>2, <2>3 DEF ExactInv
  <2>7. \A t \in Threads \ Spurious : pc'[t] = "woken" \/ t \in notified' => signalled_'[t]
    BY <2>1, <2>4 DEF ExactInv
  <2> QED
    BY <2>5, <2>6, <2>7 DEF ExactInv
<1> QED
  BY <1>1, <1>2, <1>3, WakeOneEffect

LEMMA ExactStep == Inv /\ ExactInv /\ [Next]_vars => ExactInv'
<1> SUFFICES ASSUME Inv, ExactInv, [Next]_vars PROVE ExactInv'
  OBVIOUS
<1>0. /\ pc \in [Threads \cup Posters -> PCs] /\ signalled_ \in [Threads -> BOOLEAN]
      /\ target \in [Threads \cup Posters -> Threads \cup Posters]
      /\ \A t \in notified : t \in Threads /\ pc[t] = "cond_wait"
  BY DEF Inv, TypeOK
<1> USE DEF Signalling
<1>1. ASSUME NEW t \in Threads, Enter(t) PROVE ExactInv'
  BY <1>0, <1>1 DEF Enter, ExactInv
<1>2. ASSUME NEW t \in Threads, Leave(t) PROVE ExactInv'
  BY <1>0, <1>2 DEF Leave, ExactInv
<1>3. ASSUME NEW t \in Threads, DoOneStopped(t) PROVE ExactInv'
  BY <1>0, <1>3 DEF DoOneStopped, ExactInv
<1>4. ASSUME NEW t \in Threads, DoOneHandler(t) PROVE ExactInv'
  <2>1. CASE op_queue_ > 1
    BY <1>4, <2>1, WakeOneKeepsExact DEF DoOneHandler
  <2>2. CASE ~(op_queue_ > 1)
    BY <1>0, <1>4, <2>2 DEF DoOneHandler, ExactInv
  <2> QED
    BY <2>1, <2>2
<1>5. ASSUME NEW t \in Threads, DoOneIdle(t) PROVE ExactInv'
  BY <1>0, <1>5 DEF DoOneIdle, ExactInv
<1>6. ASSUME NEW t \in Threads, Wake(t) PROVE ExactInv'
  <2>1. CASE t \in notified
    BY <1>0, <1>6, <2>1 DEF Wake, ExactInv
  <2>2. CASE t \in Spurious
    BY <1>0, <1>6, <2>2 DEF Wake, ExactInv
  <2> QED
    BY <1>6, <2>1, <2>2 DEF Wake, MayWake
<1>7. ASSUME NEW t \in Threads, Relock(t) PROVE ExactInv'
  BY <1>0, <1>7 DEF Relock, WaitsAgain, ExactInv
<1>8. ASSUME NEW s \in Threads \cup Posters, Signal(s) PROVE ExactInv'
  <2>1. /\ \A t \in notified' : t \in notified \/ t = target[s]
        /\ target[s] \notin Spurious => signalled_[target[s]]
        /\ UNCHANGED <<signalled_, target>>
    BY <1>8 DEF Signal, ExactInv
  <2>2. \A u \in Threads \cup Posters : u # s => pc'[u] = pc[u]
    BY <1>0, <1>8 DEF Signal
  <2>3. pc[s] = "signal" /\ pc'[s] \in {"handler", "out"}
    BY <1>0, <1>8 DEF Signal
  <2> QED
    BY <2>1, <2>2, <2>3 DEF ExactInv
<1>9. ASSUME NEW s \in Posters, Post(s) PROVE ExactInv'
  BY <1>9, WakeOneKeepsExact DEF Post
<1>10. ASSUME Stop PROVE ExactInv'
  <2>1. /\ \A t \in Threads : signalled_'[t] <=> signalled_[t] \/ t \in ToSet(first_idle_thread_)
        /\ notified' = notified \cup Signalled
        /\ UNCHANGED <<pc, target>>
    BY <1>10 DEF Stop
  <2>2. \A t \in Signalled : t \in ToSet(first_idle_thread_)
    BY DEF Signalled
  <2>3. \A s \in Threads \cup Posters : Signalling(s) => target[s] \notin ToSet(first_idle_thread_)
    BY DEF ExactInv, Inv, IdleUntilSignalled
  <2> QED
    BY <2>1, <2>2, <2>3 DEF ExactInv
<1>11. ASSUME Reset PROVE ExactInv'
  BY <1>11 DEF Reset, ExactInv
<1>12. ASSUME UNCHANGED vars PROVE ExactInv'
  BY <1>12 DEF vars, ExactInv
<1> QED
  BY <1>1, <1>2, <1>3, <1>4, <1>5, <1>6, <1>7, <1>8, <1>9, <1>10, <1>11, <1>12 DEF Next

(* signal_and_unlock signals an event that still exists, although it has   *)
(* given up the mutex, if its thread does not wake by itself.              *)
THEOREM EventStaysUntilSignalled == Spec => []EventOutlivesSignal
<1>1. Inv /\ ExactInv => EventOutlivesSignal
  BY DEF Inv, TypeOK, ExactInv, EventOutlivesSignal, Signalling, Asleep
<1>2. Inv /\ ExactInv /\ [Next]_vars => ExactInv'
  BY ExactStep
<1> QED
  BY <1>1, <1>2, InvInit, InvStep, ExactInit, PTL DEF Spec

=============================================================================
