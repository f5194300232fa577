------------------------- MODULE ServiceRegistryProofs -------------------------
(***************************************************************************)
(* The service registry keeps one object per service, lists every object   *)
(* before the ones it uses, never takes back a reference, and implements   *)
(* ServiceDirectory, for any sets of threads and services and whatever the *)
(* constructors use.                                                       *)
(***************************************************************************)
EXTENDS ServiceRegistry, SequenceTheorems, TLAPS

Registered == {o.svc : o \in ToSet(first_service_)}

\* What a constructor does not need any more is among the services of R.
Met(R, c) == c.at # "search" => Uses[c.svc] \ c.needs \subseteq R

\* The list never shrinks while a constructor runs.
NeedsMet ==
    phase # "destroy" =>
        \A t \in Threads : \A k \in DOMAIN calls[t] : Met(Registered, calls[t][k])

LocksTyped ==
    /\ mutex_ \in Threads \cup {NoThread} /\ task_mutex \in Threads \cup {NoThread}
    /\ task_ \in BOOLEAN

\* Nobody is in a call when the objects go.
Closed == phase = "destroy" => Idle

IInv == TypeOK /\ OnePerService /\ UsersFirst /\ RefsUsable /\ NeedsMet /\ Closed

-----------------------------------------------------------------------------
(* Lists.                                                                  *)

\* What the head and the rest of a list with a new head are.
LEMMA ConsElements ==
    ASSUME NEW T, NEW o \in T, NEW L \in Seq(T)
    PROVE  LET M == <<o>> \o L
           IN  /\ M \in Seq(T) /\ Len(M) = Len(L) + 1
               /\ M[1] = o /\ \A i \in DOMAIN L : M[i + 1] = L[i]
               /\ \A i \in DOMAIN M : i = 1 \/ (i - 1 \in DOMAIN L /\ M[i] = L[i - 1])
               /\ ToSet(M) = ToSet(L) \cup {o}
<1> DEFINE M == <<o>> \o L
<1>1. M \in Seq(T) /\ Len(M) = Len(L) + 1
    OBVIOUS
<1>2. M[1] = o /\ \A i \in DOMAIN L : M[i + 1] = L[i]
    OBVIOUS
<1>3. \A i \in DOMAIN M : i = 1 \/ (i - 1 \in DOMAIN L /\ M[i] = L[i - 1])
    OBVIOUS
<1>4. ASSUME NEW x \in ToSet(M) PROVE x \in ToSet(L) \cup {o}
    BY <1>2, <1>3 DEF ToSet
<1>5. ASSUME NEW x \in ToSet(L) PROVE x \in ToSet(M)
  <2>1. PICK i \in DOMAIN L : x = L[i]
      BY DEF ToSet
  <2>2. i + 1 \in DOMAIN M
      BY <1>1
  <2> QED
      BY <2>1, <2>2, <1>2 DEF ToSet
<1>6. o \in ToSet(M)
  <2>1. 1 \in DOMAIN M
      BY <1>1
  <2> QED
      BY <2>1, <1>2 DEF ToSet
<1> QED
    BY <1>1, <1>2, <1>3, <1>4, <1>5, <1>6

\* The rest of a list, position by position.
LEMMA TailElements ==
    ASSUME NEW T, NEW L \in Seq(T), L # <<>>
    PROVE  /\ Tail(L) \in Seq(T)
           /\ \A i \in DOMAIN Tail(L) : i + 1 \in DOMAIN L /\ Tail(L)[i] = L[i + 1]
           /\ \A i \in DOMAIN L : i = 1 \/ (i - 1 \in DOMAIN Tail(L)
                                            /\ Tail(L)[i - 1] = L[i])
    OBVIOUS

\* All but the last element.
LEMMA FrontElements ==
    ASSUME NEW T, NEW s \in Seq(T), s # <<>>
    PROVE  /\ Front(s) \in Seq(T)
           /\ Len(Front(s)) = Len(s) - 1
           /\ \A k \in DOMAIN Front(s) : k \in DOMAIN s /\ Front(s)[k] = s[k]
<1>1. Len(s) \in Nat /\ Len(s) >= 1
    OBVIOUS
<1>2. Front(s) \in Seq(T)
    BY <1>1 DEF Front
<1>3. DOMAIN Front(s) = 1..(Len(s) - 1)
    BY <1>1 DEF Front
<1>4. Len(Front(s)) = Len(s) - 1
    BY <1>1, <1>2, <1>3, LenProperties
<1>5. \A k \in 1..(Len(s) - 1) : k \in DOMAIN s /\ Front(s)[k] = s[k]
    BY <1>1 DEF Front
<1> QED
    BY <1>2, <1>3, <1>4, <1>5

\* Replacing the last element.
LEMMA ReplaceLast ==
    ASSUME NEW T, NEW s \in Seq(T), s # <<>>, NEW x \in T
    PROVE  /\ Append(Front(s), x) \in Seq(T)
           /\ DOMAIN Append(Front(s), x) = DOMAIN s
           /\ \A k \in DOMAIN s :
                Append(Front(s), x)[k] = IF k = Len(s) THEN x ELSE s[k]
    BY FrontElements

\* A service that is found has an object of the list, its only one.
LEMMA FoundObject ==
    ASSUME NEW s, Found(s)
    PROVE  TheObject(s) \in ToSet(first_service_) /\ TheObject(s).svc = s
    BY DEF Found, TheObject

LEMMA OnlyObject ==
    ASSUME OnePerService, NEW o \in ToSet(first_service_)
    PROVE  Found(o.svc) /\ TheObject(o.svc) = o
<1>1. Found(o.svc)
    BY DEF Found
<1>2. PICK i \in DOMAIN first_service_ : o = first_service_[i]
    BY DEF ToSet
<1>3. PICK j \in DOMAIN first_service_ : TheObject(o.svc) = first_service_[j]
    BY <1>1, FoundObject DEF ToSet
<1>4. first_service_[i].svc = first_service_[j].svc
    BY <1>1, <1>2, <1>3, FoundObject
<1> QED
    BY <1>1, <1>2, <1>3, <1>4 DEF OnePerService

-----------------------------------------------------------------------------
(* The stack of calls.                                                     *)

\* When the list only grows and every call of the new stack of t is met,
\* what constructors have obtained stays registered.
LEMMA StackMeets ==
    ASSUME TypeOK, NeedsMet, phase # "destroy",
           Registered \subseteq Registered',
           NEW t \in Threads, NEW st, calls' = [calls EXCEPT ![t] = st],
           \A k \in DOMAIN st : Met(Registered', st[k])
    PROVE  NeedsMet'
<1> SUFFICES ASSUME NEW u \in Threads, NEW k \in DOMAIN calls'[u]
             PROVE  Met(Registered', calls'[u][k])
    BY DEF NeedsMet
<1>1. CASE u = t
  <2>1. calls'[u] = st
      BY <1>1 DEF TypeOK
  <2> QED
      BY <2>1
<1>2. CASE u # t
  <2>1. calls'[u] = calls[u]
      BY <1>2 DEF TypeOK
  <2>2. Met(Registered, calls[u][k])
      BY <2>1 DEF NeedsMet
  <2> QED
      BY <2>1, <2>2 DEF Met
<1> QED
    BY <1>1, <1>2

\* A call is made.
LEMMA PushMeets ==
    ASSUME TypeOK, NeedsMet, phase # "destroy",
           Registered \subseteq Registered',
           NEW t \in Threads, NEW c \in CallSet, Push(t, c), Met(Registered', c)
    PROVE  NeedsMet' /\ calls' \in [Threads -> Seq(CallSet)]
<1> DEFINE st == Append(calls[t], c)
<1>1. calls[t] \in Seq(CallSet)
    BY DEF TypeOK
<1>2. st \in Seq(CallSet)
    BY <1>1
<1>3. calls' = [calls EXCEPT ![t] = st]
    BY DEF Push
<1>4. ASSUME NEW k \in DOMAIN st PROVE Met(Registered', st[k])
  <2>1. CASE k = Len(calls[t]) + 1
    <3>1. st[k] = c
        BY <1>1, <2>1
    <3> QED
        BY <3>1
  <2>2. CASE k # Len(calls[t]) + 1
    <3>1. k \in DOMAIN calls[t] /\ st[k] = calls[t][k]
        BY <1>1, <2>2
    <3>2. Met(Registered, calls[t][k])
        BY <3>1 DEF NeedsMet
    <3> QED
        BY <3>1, <3>2 DEF Met
  <2> QED
      BY <2>1, <2>2
<1>5. NeedsMet'
  <2> HIDE DEF st
  <2> QED
      BY <1>3, <1>4, StackMeets
<1> QED
    BY <1>2, <1>3, <1>5 DEF TypeOK

\* The innermost call, c replacing it, or its end.
LEMMA TopCall ==
    ASSUME TypeOK, NEW t \in Threads, ~Outside(t)
    PROVE  Top(t) \in CallSet /\ Len(calls[t]) \in DOMAIN calls[t]
    BY DEF TypeOK, Outside, Top

LEMMA SetTopMeets ==
    ASSUME TypeOK, NeedsMet, phase # "destroy",
           Registered \subseteq Registered',
           NEW t \in Threads, ~Outside(t), NEW c \in CallSet, SetTop(t, c), Met(Registered', c)
    PROVE  NeedsMet' /\ calls' \in [Threads -> Seq(CallSet)]
<1> DEFINE st == Append(Front(calls[t]), c)
<1>1. calls[t] \in Seq(CallSet) /\ calls[t] # <<>>
    BY DEF TypeOK, Outside
<1>2. /\ st \in Seq(CallSet) /\ DOMAIN st = DOMAIN calls[t]
      /\ \A k \in DOMAIN st : st[k] = IF k = Len(calls[t]) THEN c ELSE calls[t][k]
    BY <1>1, ReplaceLast
<1>3. calls' = [calls EXCEPT ![t] = st]
    BY DEF SetTop
<1> HIDE DEF st
<1>4. ASSUME NEW k \in DOMAIN st PROVE Met(Registered', st[k])
  <2>1. CASE k = Len(calls[t])
      BY <1>2, <2>1
  <2>2. CASE k # Len(calls[t])
    <3>1. k \in DOMAIN calls[t] /\ st[k] = calls[t][k]
        BY <1>2, <2>2
    <3>2. Met(Registered, calls[t][k])
        BY <3>1 DEF NeedsMet
    <3> QED
        BY <3>1, <3>2 DEF Met
  <2> QED
      BY <2>1, <2>2
<1>5. NeedsMet'
    BY <1>3, <1>4, StackMeets
<1> QED
    BY <1>2, <1>3, <1>5 DEF TypeOK

\* A call ends with the service it was about registered.
LEMMA ReturnMeets ==
    ASSUME TypeOK, NeedsMet, phase # "destroy",
           Registered \subseteq Registered',
           NEW t \in Threads, ~Outside(t), Return(t), Top(t).svc \in Registered'
    PROVE  NeedsMet' /\ calls' \in [Threads -> Seq(CallSet)]
<1> DEFINE outer == Front(calls[t])
           c == [Last(outer) EXCEPT !.needs = @ \ {Top(t).svc}]
           st == IF outer = <<>> THEN <<>> ELSE Append(Front(outer), c)
<1>1. calls[t] \in Seq(CallSet) /\ calls[t] # <<>>
    BY DEF TypeOK, Outside
<1>2. /\ outer \in Seq(CallSet)
      /\ \A k \in DOMAIN outer : k \in DOMAIN calls[t] /\ outer[k] = calls[t][k]
    BY <1>1, FrontElements
<1>3. calls' = [calls EXCEPT ![t] = st]
    BY DEF Return
<1>4. ASSUME NEW k \in DOMAIN outer
      PROVE  outer[k] \in CallSet /\ Met(Registered, outer[k])
  <2>1. outer[k] \in CallSet
      BY <1>2
  <2>2. Met(Registered, outer[k])
      BY <1>2 DEF NeedsMet
  <2> QED
      BY <2>1, <2>2
<1>5. CASE outer = <<>>
  <2>1. st = <<>>
      BY <1>5
  <2>2. \A k \in DOMAIN st : Met(Registered', st[k])
      BY <2>1
  <2>3. NeedsMet'
    <3> HIDE DEF st
    <3> QED
        BY <1>3, <2>2, StackMeets
  <2>4. st \in Seq(CallSet)
      BY <2>1
  <2> HIDE DEF st
  <2> QED
      BY <1>3, <2>3, <2>4 DEF TypeOK
<1>6. CASE outer # <<>>
  <2> HIDE DEF outer
  <2>1. Last(outer) = outer[Len(outer)] /\ Len(outer) \in DOMAIN outer
      BY <1>2, <1>6 DEF Last
  <2>2. c \in CallSet /\ c.svc = Last(outer).svc /\ c.at = Last(outer).at
      BY <1>4, <2>1 DEF CallSet
  <2>3. c.needs = Last(outer).needs \ {Top(t).svc}
      BY <1>4, <2>1 DEF CallSet
  <2>4. Met(Registered', c)
      BY <1>4, <2>1, <2>2, <2>3 DEF Met
  <2> HIDE DEF c
  <2>5. st = Append(Front(outer), c)
      BY <1>6
  <2>6. /\ st \in Seq(CallSet) /\ DOMAIN st = DOMAIN outer
        /\ \A k \in DOMAIN outer : st[k] = IF k = Len(outer) THEN c ELSE outer[k]
      BY <1>2, <1>6, <2>2, <2>5, ReplaceLast
  <2> HIDE DEF st
  <2>7. ASSUME NEW k \in DOMAIN st PROVE Met(Registered', st[k])
    <3>1. CASE k = Len(outer)
        BY <2>4, <2>6, <3>1
    <3>2. CASE k # Len(outer)
      <4>1. k \in DOMAIN outer /\ st[k] = outer[k]
          BY <2>6, <3>2
      <4> QED
          BY <1>4, <4>1 DEF Met
    <3> QED
        BY <3>1, <3>2
  <2>8. NeedsMet'
      BY <1>3, <2>7, StackMeets
  <2> QED
      BY <1>3, <2>6, <2>8 DEF TypeOK
<1> QED
    BY <1>5, <1>6

-----------------------------------------------------------------------------
(* The list.                                                               *)

\* A new object whose needs are registered goes to the head of the list.
LEMMA InsertKeeps ==
    ASSUME TypeOK, OnePerService, UsersFirst, NEW o \in Objects,
           o.svc \notin Registered, Uses[o.svc] \subseteq Registered, Insert(o)
    PROVE  /\ first_service_' \in Seq(Objects) /\ OnePerService' /\ UsersFirst'
           /\ Registered' = Registered \cup {o.svc}
           /\ ToSet(first_service_)' = ToSet(first_service_) \cup {o}
<1> DEFINE L == first_service_
           M == first_service_'
<1>1. L \in Seq(Objects) /\ M = <<o>> \o L
    BY DEF TypeOK, Insert
<1> HIDE DEF L, M
<1>2. /\ M \in Seq(Objects) /\ Len(M) = Len(L) + 1
      /\ M[1] = o /\ \A i \in DOMAIN L : M[i + 1] = L[i]
      /\ \A i \in DOMAIN M : i = 1 \/ (i - 1 \in DOMAIN L /\ M[i] = L[i - 1])
      /\ ToSet(M) = ToSet(L) \cup {o}
    BY <1>1, ConsElements
<1> USE DEF L, M
<1>3. \A i \in DOMAIN L : L[i] \in ToSet(L) /\ L[i].svc \in Registered
    BY DEF ToSet, Registered
<1>4. OnePerService'
  <2> SUFFICES ASSUME NEW i \in DOMAIN M, NEW j \in DOMAIN M, M[i].svc = M[j].svc
               PROVE  i = j
      BY DEF OnePerService
  <2>1. CASE i = 1 /\ j = 1
      BY <2>1
  <2>2. CASE i = 1 /\ j # 1
      BY <1>2, <1>3, <2>2
  <2>3. CASE i # 1 /\ j = 1
      BY <1>2, <1>3, <2>3
  <2>4. CASE i # 1 /\ j # 1
    <3>1. /\ i - 1 \in DOMAIN L /\ M[i] = L[i - 1]
          /\ j - 1 \in DOMAIN L /\ M[j] = L[j - 1]
        BY <1>2, <2>4
    <3>2. i - 1 = j - 1
        BY <3>1 DEF OnePerService
    <3> QED
        BY <1>2, <3>2
  <2> QED
      BY <2>1, <2>2, <2>3, <2>4
<1>5. UsersFirst'
  <2> SUFFICES ASSUME NEW i \in DOMAIN M, NEW d \in Uses[M[i].svc]
               PROVE  \E j \in DOMAIN M : i < j /\ M[j].svc = d
      BY DEF UsersFirst
  <2>1. PICK k \in DOMAIN L : (i = 1 \/ i - 1 < k) /\ L[k].svc = d
    <3>1. CASE i = 1
      <4>1. d \in Registered
          BY <1>2, <3>1
      <4>2. PICK x \in ToSet(L) : x.svc = d
          BY <4>1 DEF Registered
      <4> QED
          BY <3>1, <4>2 DEF ToSet
    <3>2. CASE i # 1
      <4>1. i - 1 \in DOMAIN L /\ M[i] = L[i - 1]
          BY <1>2, <3>2
      <4> QED
          BY <4>1 DEF UsersFirst
    <3> QED
        BY <3>1, <3>2
  <2>2. k + 1 \in DOMAIN M /\ M[k + 1].svc = d /\ i < k + 1
      BY <1>1, <1>2, <2>1
  <2> QED
      BY <2>2
<1>6. Registered' = Registered \cup {o.svc}
    BY <1>2 DEF Registered
<1> QED
    BY <1>2, <1>4, <1>5, <1>6

\* The object at the head goes.
LEMMA RemoveKeeps ==
    ASSUME TypeOK, OnePerService, UsersFirst,
           first_service_ # <<>>, first_service_' = Tail(first_service_)
    PROVE  first_service_' \in Seq(Objects) /\ OnePerService' /\ UsersFirst'
<1> DEFINE L == first_service_
           M == first_service_'
<1>1. /\ L \in Seq(Objects) /\ M \in Seq(Objects)
      /\ \A i \in DOMAIN M : i + 1 \in DOMAIN L /\ M[i] = L[i + 1]
      /\ \A i \in DOMAIN L : i = 1 \/ (i - 1 \in DOMAIN M /\ M[i - 1] = L[i])
    BY TailElements DEF TypeOK
<1>2. OnePerService'
  <2> SUFFICES ASSUME NEW i \in DOMAIN M, NEW j \in DOMAIN M, M[i].svc = M[j].svc
               PROVE  i = j
      BY DEF OnePerService
  <2>1. i + 1 = j + 1
      BY <1>1 DEF OnePerService
  <2> QED
      BY <1>1, <2>1
<1>3. UsersFirst'
  <2> SUFFICES ASSUME NEW i \in DOMAIN M, NEW d \in Uses[M[i].svc]
               PROVE  \E j \in DOMAIN M : i < j /\ M[j].svc = d
      BY DEF UsersFirst
  <2>1. PICK k \in DOMAIN L : i + 1 < k /\ L[k].svc = d
      BY <1>1 DEF UsersFirst
  <2>2. k - 1 \in DOMAIN M /\ M[k - 1].svc = d /\ i < k - 1
      BY <1>1, <2>1
  <2> QED
      BY <2>2
<1> QED
    BY <1>1, <1>2, <1>3

-----------------------------------------------------------------------------
(* The invariant.                                                          *)

LEMMA SameList ==
    ASSUME UNCHANGED first_service_
    PROVE  /\ Registered' = Registered
           /\ OnePerService => OnePerService'
           /\ UsersFirst => UsersFirst'
    BY DEF Registered, OnePerService, UsersFirst

\* A thread that is in a call keeps the io_service from being destroyed.
LEMMA InCall ==
    ASSUME Closed, NEW t \in Threads, ~Outside(t)
    PROVE  phase # "destroy"
    BY DEF Closed, Idle

LEMMA FoundRegistered ==
    ASSUME NEW s PROVE Found(s) <=> s \in Registered
    BY DEF Found, Registered

\* The invariant after a call that leaves the list alone.
LEMMA CallOnly ==
    ASSUME IInv, UNCHANGED <<first_service_, closure>>, phase # "destroy",
           got' = got \/ \E s \in Registered : got' = got \cup {TheObject(s)},
           calls' \in [Threads -> Seq(CallSet)], NeedsMet', LocksTyped'
    PROVE  IInv'
<1>1. OnePerService' /\ UsersFirst'
    BY SameList DEF IInv
<1>2. got' \subseteq ToSet(first_service_)
    BY FoundObject, FoundRegistered DEF IInv, RefsUsable
<1>3. ToSet(first_service_) \subseteq Objects
    BY DEF IInv, TypeOK, ToSet
<1>4. TypeOK'
    BY <1>2, <1>3 DEF IInv, TypeOK, LocksTyped, closure
<1>5. RefsUsable'
    BY <1>2 DEF RefsUsable
<1>6. Closed'
    BY DEF Closed, closure
<1> QED
    BY <1>1, <1>4, <1>5, <1>6 DEF IInv

LEMMA ReturnFoundKeeps ==
    ASSUME IInv, NEW t \in Threads, ~Outside(t), ReturnFound(t), LocksTyped'
    PROVE  IInv'
<1>1. phase # "destroy" /\ Registered' = Registered
    BY InCall, SameList DEF IInv, ReturnFound
<1>2. Top(t).svc \in Registered
    BY FoundRegistered DEF ReturnFound
<1>3. NeedsMet' /\ calls' \in [Threads -> Seq(CallSet)]
    BY <1>1, <1>2, ReturnMeets DEF IInv, ReturnFound
<1> QED
    BY <1>1, <1>2, <1>3, CallOnly DEF ReturnFound

\* A call goes on past its first search.
LEMMA AdvanceKeeps ==
    ASSUME IInv, NEW t \in Threads, ~Outside(t), NEW at \in Places, NEW needs,
           Advance(t, at, needs), needs \subseteq Services, LocksTyped',
           Uses[Top(t).svc] \ needs \subseteq Registered
    PROVE  IInv'
<1> DEFINE c == [Top(t) EXCEPT !.at = at, !.needs = needs]
<1>1. phase # "destroy" /\ Registered' = Registered
    BY InCall, SameList DEF IInv, Advance
<1>2. c \in CallSet /\ c.svc = Top(t).svc /\ c.needs = needs
    BY TopCall DEF IInv, CallSet
<1>3. SetTop(t, c) /\ Met(Registered', c)
    BY <1>1, <1>2 DEF Advance, Met
<1> HIDE DEF c
<1>4. NeedsMet' /\ calls' \in [Threads -> Seq(CallSet)]
    BY <1>1, <1>2, <1>3, SetTopMeets DEF IInv
<1> QED
    BY <1>1, <1>4, CallOnly DEF Advance

\* What the constructor of the innermost call has obtained is registered.
LEMMA TopIsMet ==
    ASSUME IInv, NEW t \in Threads, ~Outside(t), Top(t).at # "search"
    PROVE  Uses[Top(t).svc] \ Top(t).needs \subseteq Registered
<1>1. phase # "destroy" /\ Len(calls[t]) \in DOMAIN calls[t]
    BY InCall, TopCall DEF IInv
<1> QED
    BY <1>1 DEF IInv, NeedsMet, Met, Top

\* The mutexes, and the flag, keep their types.
LEMMA LocksStep ==
    ASSUME TypeOK, [Next]_vars
    PROVE  LocksTyped'
<1>1. LocksTyped
    BY DEF TypeOK, LocksTyped
<1>2. ASSUME UNCHANGED locks PROVE LocksTyped'
    BY <1>1, <1>2 DEF LocksTyped, locks
<1>3. ASSUME NEW t \in Threads, InitTask(t) PROVE LocksTyped'
    BY <1>1, <1>3 DEF InitTask, LocksTyped, locks
<1>4. ASSUME NEW t \in Threads, TaskStarted(t) \/ Publish(t) \/ Discard(t) \/ Throw(t)
      PROVE  LocksTyped'
    BY <1>1, <1>4 DEF TaskStarted, Publish, Discard, Throw, LocksTyped
<1>5. ASSUME NEW t \in Threads,
             Nest(t) \/ Search(t) \/ AddService(t)
               \/ \E s \in Services : UseService(t, s) \/ NewService(t, s)
      PROVE  LocksTyped'
    BY <1>2, <1>5 DEF Nest, Search, AddService, UseService, NewService
<1>6. CASE Close
    BY <1>2, <1>6 DEF Close, BeginShutdown, ShutdownService, DestroyService
<1>7. CASE UNCHANGED vars
    BY <1>2, <1>7 DEF vars
<1> QED
    BY <1>3, <1>4, <1>5, <1>6, <1>7 DEF Next, Step

\* A constructor that has what it needs ends, and its object is inserted.
LEMMA InsertReturns ==
    ASSUME IInv, NEW t \in Threads, ~Outside(t), RegistryAssumption,
           Top(t).at # "search", Top(t).needs = {}, ~Found(Top(t).svc),
           Insert(Object(Top(t).svc, t)), Return(t), UNCHANGED closure, LocksTyped',
           got' = got \/ got' = got \cup {Object(Top(t).svc, t)}
    PROVE  IInv'
<1> DEFINE o == Object(Top(t).svc, t)
<1>1. phase # "destroy"
    BY InCall DEF IInv
<1>2. Top(t) \in CallSet /\ Len(calls[t]) \in DOMAIN calls[t]
    BY TopCall DEF IInv
<1>3. o \in Objects /\ o.svc = Top(t).svc
    BY <1>2 DEF CallSet, Object, Objects
<1>4. Uses[o.svc] \subseteq Registered
    BY <1>1, <1>2, <1>3 DEF IInv, NeedsMet, Met, Top
<1>5. o.svc \notin Registered
    BY <1>3, FoundRegistered
<1> HIDE DEF o
<1>6. Insert(o)
    BY DEF o
<1>7. /\ first_service_' \in Seq(Objects) /\ OnePerService' /\ UsersFirst'
      /\ Registered' = Registered \cup {o.svc}
      /\ ToSet(first_service_)' = ToSet(first_service_) \cup {o}
    BY <1>3, <1>4, <1>5, <1>6, InsertKeeps DEF IInv
<1>8. NeedsMet' /\ calls' \in [Threads -> Seq(CallSet)]
    BY <1>1, <1>3, <1>7, ReturnMeets DEF IInv
<1>9. got' \subseteq got \cup {o}
    BY DEF o
<1>10. TypeOK'
    BY <1>3, <1>7, <1>8, <1>9 DEF IInv, TypeOK, LocksTyped, closure
<1>11. RefsUsable'
    BY <1>1, <1>7, <1>9 DEF IInv, RefsUsable
<1>12. Closed'
    BY <1>1 DEF Closed, closure
<1> QED
    BY <1>7, <1>8, <1>10, <1>11, <1>12 DEF IInv

\* Every step keeps the invariant.
LEMMA IInvStep == RegistryAssumption /\ IInv /\ [Next]_vars => IInv'
<1> SUFFICES ASSUME RegistryAssumption, IInv, [Next]_vars PROVE IInv'
    OBVIOUS
<1>0. LocksTyped'
    BY LocksStep DEF IInv
<1>1. ASSUME NEW t \in Threads, NEW s \in Services, UseService(t, s) PROVE IInv'
  <2>1. phase # "destroy" /\ Registered' = Registered
      BY <1>1, SameList DEF UseService
  <2> DEFINE c == Call("use", s, "search", {})
  <2>2. c \in CallSet /\ Met(Registered', c)
      BY DEF Call, CallSet, Places, Met
  <2>3. NeedsMet' /\ calls' \in [Threads -> Seq(CallSet)]
      BY <1>1, <2>1, <2>2, PushMeets DEF IInv, UseService
  <2> QED
      BY <1>0, <1>1, <2>1, <2>3, CallOnly DEF UseService
<1>2. ASSUME NEW t \in Threads, NEW s \in Services, NewService(t, s) PROVE IInv'
  <2>1. phase # "destroy" /\ Registered' = Registered
      BY <1>2, SameList DEF NewService
  <2> DEFINE c == Call("add", s, "construct", Uses[s])
  <2>2. c \in CallSet /\ Met(Registered', c)
      BY DEF Call, CallSet, Places, Met, RegistryAssumption
  <2>3. NeedsMet' /\ calls' \in [Threads -> Seq(CallSet)]
      BY <1>2, <2>1, <2>2, PushMeets DEF IInv, NewService
  <2> QED
      BY <1>0, <1>2, <2>1, <2>3, CallOnly DEF NewService
<1>3. ASSUME NEW t \in Threads, Nest(t) PROVE IInv'
  <2>1. phase # "destroy" /\ Registered' = Registered
      BY <1>3, InCall, SameList DEF IInv, Nest
  <2>2. Top(t) \in CallSet
      BY <1>3, TopCall DEF IInv, Nest
  <2>3. PICK d \in Top(t).needs : Push(t, Call("use", d, "search", {}))
      BY <1>3 DEF Nest
  <2> DEFINE c == Call("use", d, "search", {})
  <2>4. c \in CallSet /\ Met(Registered', c)
      BY <2>2 DEF Call, CallSet, Places, Met
  <2>5. NeedsMet' /\ calls' \in [Threads -> Seq(CallSet)]
      BY <2>1, <2>3, <2>4, PushMeets DEF IInv
  <2> QED
      BY <1>0, <1>3, <2>1, <2>5, CallOnly DEF Nest
<1>4. ASSUME NEW t \in Threads, Search(t) PROVE IInv'
  <2>1. ~Outside(t)
      BY <1>4 DEF Search, Inside
  <2>2. CASE ReturnFound(t)
      BY <1>0, <2>1, <2>2, ReturnFoundKeeps
  <2>3. CASE ~ReturnFound(t)
    <3>1. Advance(t, "construct", Uses[Top(t).svc])
        BY <1>4, <2>3 DEF Search
    <3>2. Uses[Top(t).svc] \subseteq Services
        BY <2>1, TopCall DEF IInv, CallSet, RegistryAssumption
    <3> QED
        BY <1>0, <2>1, <3>1, <3>2, AdvanceKeeps DEF Places
  <2> QED
      BY <2>2, <2>3
<1>12. ASSUME NEW t \in Threads, InitTask(t) PROVE IInv'
  <2>1. ~Outside(t) /\ Uses[Top(t).svc] \subseteq Registered
      BY <1>12, TopIsMet DEF InitTask
  <2>2. Advance(t, "made", {}) \/ Advance(t, "task", {Reactor})
      BY <1>12 DEF InitTask
  <2>3. {Reactor} \subseteq Services
      BY DEF RegistryAssumption
  <2> QED
      BY <1>0, <2>1, <2>2, <2>3, AdvanceKeeps DEF Places
<1>13. ASSUME NEW t \in Threads, TaskStarted(t) PROVE IInv'
  <2>1. /\ ~Outside(t) /\ Uses[Top(t).svc] \subseteq Registered
        /\ Advance(t, "made", {})
      BY <1>13, TopIsMet DEF TaskStarted
  <2> QED
      BY <1>0, <2>1, AdvanceKeeps DEF Places
<1>5. ASSUME NEW t \in Threads, Publish(t) PROVE IInv'
  <2>1. ~Outside(t) /\ Top(t).at # "search" /\ Top(t).needs = {}
      BY <1>5 DEF Publish, Constructed, Inside
  <2>2. CASE Advance(t, "discard", {})
    <3>1. Uses[Top(t).svc] \subseteq Registered
        BY <2>1, TopIsMet
    <3> QED
        BY <1>0, <2>1, <2>2, <3>1, AdvanceKeeps DEF Places
  <2>3. CASE ~Advance(t, "discard", {})
      BY <1>0, <1>5, <2>1, <2>3, InsertReturns DEF Publish
  <2> QED
      BY <2>2, <2>3
<1>14. ASSUME NEW t \in Threads, Discard(t) PROVE IInv'
    BY <1>0, <1>14, ReturnFoundKeeps DEF Discard, Inside
<1>6. ASSUME NEW t \in Threads, AddService(t) PROVE IInv'
  <2>1. ~Outside(t) /\ Top(t).at # "search" /\ Top(t).needs = {}
      BY <1>6 DEF AddService, Constructed, Inside
  <2>2. CASE Found(Top(t).svc)
    <3>1. phase # "destroy" /\ Registered' = Registered
        BY <1>6, <2>1, <2>2, InCall, SameList DEF IInv, AddService
    <3>2. NeedsMet' /\ calls' \in [Threads -> Seq(CallSet)]
        BY <1>6, <2>1, <2>2, <3>1, FoundRegistered, ReturnMeets DEF IInv, AddService
    <3> QED
        BY <1>0, <1>6, <2>2, <3>1, <3>2, CallOnly DEF AddService
  <2>3. CASE ~Found(Top(t).svc)
      BY <1>0, <1>6, <2>1, <2>3, InsertReturns DEF AddService
  <2> QED
      BY <2>2, <2>3
<1>7. ASSUME NEW t \in Threads, Throw(t) PROVE IInv'
  <2>1. phase # "destroy" /\ Registered' = Registered
      BY <1>7, InCall, SameList DEF IInv, Throw
  <2>2. calls' = [calls EXCEPT ![t] = <<>>]
      BY <1>7 DEF Throw
  <2>3. \A k \in DOMAIN <<>> : Met(Registered', <<>>[k])
      OBVIOUS
  <2>4. NeedsMet'
      BY <2>1, <2>2, <2>3, StackMeets DEF IInv
  <2>5. calls' \in [Threads -> Seq(CallSet)]
      BY <2>2 DEF IInv, TypeOK
  <2> QED
      BY <1>0, <1>7, <2>1, <2>4, <2>5, CallOnly DEF Throw
<1>8. CASE BeginShutdown
    BY <1>8, SameList
    DEF BeginShutdown, IInv, TypeOK, RefsUsable, NeedsMet, Closed, locks
<1>9. CASE ShutdownService
  <2>1. Head(left) \in Objects /\ Tail(left) \in Seq(Objects)
      BY <1>9 DEF ShutdownService, IInv, TypeOK
  <2>2. TypeOK'
      BY <1>9, <2>1 DEF ShutdownService, IInv, TypeOK, locks
  <2> QED
      BY <1>9, <2>2, SameList DEF ShutdownService, IInv, RefsUsable, NeedsMet, Closed
<1>10. CASE DestroyService
  <2>1. first_service_' \in Seq(Objects) /\ OnePerService' /\ UsersFirst'
      BY <1>10, RemoveKeeps DEF DestroyService, IInv
  <2>2. phase' = "destroy" /\ Idle'
      BY <1>10 DEF DestroyService, IInv, Closed, Idle, Outside
  <2>3. TypeOK'
      BY <1>10, <2>1, <2>2 DEF DestroyService, IInv, TypeOK, locks
  <2> QED
      BY <2>1, <2>2, <2>3 DEF IInv, RefsUsable, NeedsMet, Closed
<1>11. CASE UNCHANGED vars
  <2>1. UNCHANGED <<first_service_, calls, mutex_, task_mutex, task_, got,
                    phase, left, down>>
      BY <1>11 DEF vars, locks, closure
  <2> QED
      BY <2>1, SameList
      DEF IInv, TypeOK, RefsUsable, NeedsMet, Closed, Idle, Outside
<1> QED
    BY <1>1, <1>2, <1>3, <1>4, <1>5, <1>6, <1>7, <1>8, <1>9, <1>10, <1>11,
       <1>12, <1>13, <1>14
    DEF Next, Step, Close

LEMMA IInvInit == Init => IInv
<1> SUFFICES ASSUME Init PROVE IInv
    OBVIOUS
<1>1. TypeOK
  <2>1. LocksTyped
      BY DEF Init, LocksTyped
  <2>2. calls \in [Threads -> Seq(CallSet)]
      BY DEF Init
  <2>3. first_service_ \in Seq(Objects) /\ left \in Seq(Objects)
      BY DEF Init
  <2> QED
      BY <2>1, <2>2, <2>3 DEF Init, TypeOK, LocksTyped
<1>2. OnePerService /\ UsersFirst /\ RefsUsable
    BY DEF Init, OnePerService, UsersFirst, RefsUsable
<1>3. NeedsMet /\ Closed
    BY DEF Init, NeedsMet, Closed
<1> QED
    BY <1>1, <1>2, <1>3 DEF IInv

LEMMA IInvAlways == Spec => []IInv
    BY RegistryAssumption, IInvInit, IInvStep, PTL DEF Spec

\* Every reachable state of the registry has its types, and the objects are
\* destroyed only when each has had its turn to be shut down
\* (~service_registry).
THEOREM RegistryTypeCorrect == Spec => []TypeOK
<1>1. IInv => TypeOK
    BY DEF IInv
<1> QED
    BY <1>1, IInvAlways, PTL

\* No two objects of the registry implement one service (do_use_service,
\* do_add_service), whoever raced whom.
THEOREM OneObjectPerService == Spec => []OnePerService
<1>1. IInv => OnePerService
    BY DEF IInv
<1> QED
    BY <1>1, IInvAlways, PTL

\* Every reference returned is to an object of the registry until the
\* io_service is destroyed.
THEOREM ReferencesStayUsable == Spec => []RefsUsable
<1>1. IInv => RefsUsable
    BY DEF IInv
<1> QED
    BY <1>1, IInvAlways, PTL

\* Objects lie before the ones their constructors obtained, so that
\* ~service_registry destroys the users first.
THEOREM UsersGoFirst == Spec => []UsersFirst
<1>1. IInv => UsersFirst
    BY DEF IInv
<1> QED
    BY <1>1, IInvAlways, PTL

-----------------------------------------------------------------------------
(* The refinement.                                                         *)

References == {<<o.svc, o.by>> : o \in got}

\* An object of a list without duplicates is the one a search finds.
LEMMA OnlyOne ==
    ASSUME NEW L, NEW o \in ToSet(L),
           \A i, j \in DOMAIN L : L[i].svc = L[j].svc => i = j
    PROVE  (CHOOSE x \in ToSet(L) : x.svc = o.svc) = o
<1>1. ASSUME NEW x \in ToSet(L), x.svc = o.svc PROVE x = o
    BY <1>1 DEF ToSet
<1> QED
    BY <1>1

LEMMA MakerOfObject ==
    ASSUME OnePerService, NEW o \in ToSet(first_service_), o.svc \in Services
    PROVE  MakerOf[o.svc] = o.by
    BY OnlyObject DEF MakerOf

LEMMA MakerOfObjectNext ==
    ASSUME OnePerService', NEW o \in ToSet(first_service_)', o.svc \in Services
    PROVE  MakerOf'[o.svc] = o.by
<1>1. \A i, j \in DOMAIN first_service_' :
          first_service_'[i].svc = first_service_'[j].svc => i = j
    BY DEF OnePerService
<1>2. (CHOOSE x \in ToSet(first_service_') : x.svc = o.svc) = o
    BY <1>1, OnlyOne
<1>3. Found(o.svc)' /\ TheObject(o.svc)' = o
    BY <1>2 DEF Found, TheObject
<1> QED
    BY <1>3 DEF MakerOf

LEMMA MakerOfNone ==
    ASSUME NEW s \in Services
    PROVE  /\ s \notin Registered => MakerOf[s] = NoThread
           /\ s \notin Registered' => MakerOf'[s] = NoThread
    BY DEF MakerOf, Found, Registered

LEMMA PresentRegistered ==
    ASSUME RegistryAssumption, IInv, NEW s \in Services
    PROVE  Directory!Present(s) <=> s \in Registered
<1>1. CASE s \in Registered
  <2>1. PICK o \in ToSet(first_service_) : o.svc = s
      BY <1>1 DEF Registered
  <2>2. o \in Objects
      BY <2>1 DEF IInv, TypeOK, ToSet
  <2>3. MakerOf[s] = o.by
      BY <2>1, MakerOfObject DEF IInv
  <2> QED
      BY <1>1, <2>2, <2>3 DEF Directory!Present, RegistryAssumption, Objects
<1>2. CASE s \notin Registered
    BY <1>2, MakerOfNone DEF Directory!Present
<1> QED
    BY <1>1, <1>2

\* Steps that leave the list alone are lookups or stutter.
LEMMA SameMaker ==
    ASSUME UNCHANGED first_service_ PROVE MakerOf' = MakerOf
    BY DEF MakerOf, Found, TheObject

LEMMA LookupStep ==
    ASSUME RegistryAssumption, IInv, NEW t \in Threads, ~Outside(t), ReturnFound(t)
    PROVE  Directory!Next
<1> DEFINE o == TheObject(Top(t).svc)
<1>1. PICK s \in Services : s = Top(t).svc
    BY TopCall DEF IInv, CallSet
<1>2. s \in Registered /\ phase # "destroy" /\ phase' = phase
    BY <1>1, FoundRegistered, InCall DEF IInv, ReturnFound, closure
<1>3. o \in ToSet(first_service_) /\ o.svc = s
    BY <1>1, FoundObject DEF ReturnFound
<1>4. MakerOf' = MakerOf /\ MakerOf[s] = o.by
    BY <1>1, <1>3, SameMaker, MakerOfObject DEF IInv, ReturnFound
<1>5. References' = References \cup {<<s, MakerOf'[s]>>}
    BY <1>3, <1>4 DEF References, ReturnFound
<1>6. Directory!Present(s)
    BY <1>1, <1>2, PresentRegistered
<1>7. Directory!Lookup(s)
    BY <1>2, <1>4, <1>5, <1>6 DEF Directory!Lookup, Directory!Obtain, References
<1> QED
    BY <1>7 DEF Directory!Next

LEMMA RegisterStep ==
    ASSUME RegistryAssumption, IInv, IInv', NEW t \in Threads, ~Outside(t),
           Top(t).at # "search", Top(t).needs = {}, UNCHANGED closure,
           NEW s \in Services, s = Top(t).svc, ~Found(s), Insert(Object(s, t))
    PROVE  Directory!Register(s, t)
<1> DEFINE o == Object(s, t)
<1>1. /\ o \in Objects /\ o.svc = s /\ o.by = t
      /\ Top(t) \in CallSet /\ Len(calls[t]) \in DOMAIN calls[t]
    BY TopCall DEF IInv, CallSet, Object, Objects
<1>2. phase # "destroy" /\ phase' = phase
    BY InCall DEF IInv, closure
<1>3. Uses[s] \subseteq Registered /\ s \notin Registered
    BY <1>1, <1>2, FoundRegistered DEF IInv, NeedsMet, Met, Top
<1>4. /\ Registered' = Registered \cup {s}
      /\ ToSet(first_service_)' = ToSet(first_service_) \cup {o}
    BY <1>1, <1>3, InsertKeeps DEF IInv
<1>5. ASSUME NEW r \in Services
      PROVE  MakerOf'[r] = IF r = s THEN t ELSE MakerOf[r]
  <2>1. CASE r = s
      BY <1>1, <1>4, <2>1, MakerOfObjectNext DEF IInv
  <2>2. CASE r # s /\ r \in Registered
    <3>1. PICK x \in ToSet(first_service_) : x.svc = r
        BY <2>2 DEF Registered
    <3>2. MakerOf[r] = x.by
        BY <3>1, MakerOfObject DEF IInv
    <3>3. MakerOf'[r] = x.by
        BY <1>4, <3>1, MakerOfObjectNext DEF IInv
    <3> QED
        BY <2>2, <3>2, <3>3
  <2>3. CASE r # s /\ r \notin Registered
      BY <1>4, <2>3, MakerOfNone
  <2> QED
      BY <2>1, <2>2, <2>3
<1>6. MakerOf' = [MakerOf EXCEPT ![s] = t]
    BY <1>5 DEF MakerOf
<1>7. ~Directory!Present(s) /\ \A d \in Uses[s] : Directory!Present(d)
    BY <1>1, <1>3, PresentRegistered DEF RegistryAssumption
<1> QED
    BY <1>1, <1>2, <1>6, <1>7 DEF Directory!Register

LEMMA DestroyStep ==
    ASSUME RegistryAssumption, IInv, IInv', DestroyService
    PROVE  Directory!Next
<1> DEFINE L == first_service_
           h == L[1]
           s == h.svc
<1>1. /\ L \in Seq(Objects) /\ L # <<>> /\ first_service_' = Tail(L)
      /\ \A i \in DOMAIN Tail(L) : i + 1 \in DOMAIN L /\ Tail(L)[i] = L[i + 1]
      /\ \A i \in DOMAIN L : i = 1 \/ (i - 1 \in DOMAIN Tail(L) /\ Tail(L)[i - 1] = L[i])
    BY TailElements DEF IInv, TypeOK, DestroyService
<1>2. 1 \in DOMAIN L /\ h \in Objects /\ s \in Services
  <2>1. 1 \in DOMAIN L /\ h \in Objects
      BY <1>1
  <2> QED
      BY <2>1 DEF Objects
<1>3. s \in Registered
    BY <1>2 DEF Registered, ToSet
<1>4. ASSUME NEW r \in Services, r \in Registered PROVE s \notin Uses[r]
  <2>1. PICK i \in DOMAIN L : L[i].svc = r
      BY <1>4 DEF Registered, ToSet
  <2>2. SUFFICES ASSUME s \in Uses[r] PROVE FALSE
      OBVIOUS
  <2>3. PICK j \in DOMAIN L : i < j /\ L[j].svc = s
      BY <2>1, <2>2 DEF IInv, UsersFirst
  <2>4. j = 1
      BY <1>2, <2>3 DEF IInv, OnePerService
  <2> QED
      BY <1>1, <2>3, <2>4
<1>5. s \notin Registered'
  <2>1. SUFFICES ASSUME s \in Registered' PROVE FALSE
      OBVIOUS
  <2>2. PICK i \in DOMAIN Tail(L) : Tail(L)[i].svc = s
      BY <1>1, <2>1 DEF Registered, ToSet
  <2>3. i + 1 = 1
      BY <1>1, <1>2, <2>2 DEF IInv, OnePerService
  <2> QED
      BY <1>1, <2>2, <2>3
<1>6. ASSUME NEW r \in Services
      PROVE  MakerOf'[r] = IF r = s THEN NoThread ELSE MakerOf[r]
  <2>1. CASE r = s
      BY <1>5, <2>1, MakerOfNone
  <2>2. CASE r # s /\ r \in Registered'
    <3>1. PICK x \in ToSet(first_service_)' : x.svc = r
        BY <2>2 DEF Registered
    <3>2. x \in ToSet(L)
        BY <1>1, <3>1 DEF ToSet
    <3>3. MakerOf[r] = x.by
        BY <3>1, <3>2, MakerOfObject DEF IInv
    <3>4. MakerOf'[r] = x.by
        BY <3>1, MakerOfObjectNext DEF IInv
    <3> QED
        BY <2>2, <3>3, <3>4
  <2>3. CASE r # s /\ r \notin Registered'
    <3>1. r \notin Registered
      <4>1. SUFFICES ASSUME NEW i \in DOMAIN L, L[i].svc = r PROVE FALSE
          BY DEF Registered, ToSet
      <4>2. i # 1
          BY <2>3, <4>1
      <4>3. i - 1 \in DOMAIN Tail(L) /\ Tail(L)[i - 1] = L[i]
          BY <1>1, <4>2
      <4>4. L[i] \in ToSet(first_service_)'
          BY <1>1, <4>3 DEF ToSet
      <4> QED
          BY <2>3, <4>1, <4>4 DEF Registered
    <3> QED
        BY <2>3, <3>1, MakerOfNone
  <2> QED
      BY <2>1, <2>2, <2>3
<1>7. MakerOf' = [MakerOf EXCEPT ![s] = NoThread]
    BY <1>6 DEF MakerOf
<1>8. /\ Directory!Present(s)
      /\ \A r \in Services : Directory!Present(r) => s \notin Uses[r]
    BY <1>2, <1>3, <1>4, PresentRegistered
<1>9. Directory!Destroy(s)
    BY <1>7, <1>8 DEF Directory!Destroy, DestroyService
<1> QED
    BY <1>2, <1>9 DEF Directory!Next

\* Every step of the registry is a step of the directory or a stutter.
LEMMA DirectoryStep ==
    RegistryAssumption /\ IInv /\ IInv' /\ [Next]_vars
        => [Directory!Next]_(Directory!dvars)
<1> SUFFICES ASSUME RegistryAssumption, IInv, IInv', [Next]_vars
             PROVE  [Directory!Next]_(Directory!dvars)
    OBVIOUS
<1>1. ASSUME UNCHANGED <<first_service_, got>>, (phase' = "destroy") = (phase = "destroy")
      PROVE  UNCHANGED Directory!dvars
  <2>1. MakerOf' = MakerOf
      BY <1>1, SameMaker
  <2> QED
      BY <1>1, <2>1 DEF Directory!dvars
<1>2. ASSUME NEW t \in Threads,
             Throw(t) \/ Nest(t) \/ \E s \in Services : UseService(t, s) \/ NewService(t, s)
      PROVE  UNCHANGED Directory!dvars
    BY <1>1, <1>2 DEF Throw, Nest, UseService, NewService, closure
<1>3. ASSUME NEW t \in Threads, Search(t) PROVE [Directory!Next]_(Directory!dvars)
  <2>1. CASE ReturnFound(t)
      BY <1>3, <2>1, LookupStep DEF Search, Inside
  <2>2. CASE ~ReturnFound(t)
    <3>1. UNCHANGED <<first_service_, got, closure>>
        BY <1>3, <2>2 DEF Search, Advance
    <3> QED
        BY <1>1, <3>1 DEF closure
  <2> QED
      BY <2>1, <2>2
<1>9. ASSUME NEW t \in Threads, InitTask(t) \/ TaskStarted(t)
      PROVE  UNCHANGED Directory!dvars
  <2>1. UNCHANGED <<first_service_, got, closure>>
      BY <1>9 DEF InitTask, TaskStarted, Advance
  <2> QED
      BY <1>1, <2>1 DEF closure
<1>10. ASSUME NEW t \in Threads, Discard(t) PROVE Directory!Next
    BY <1>10, LookupStep DEF Discard, Inside
<1>4. ASSUME NEW t \in Threads, Publish(t) PROVE [Directory!Next]_(Directory!dvars)
  <2>0. ~Outside(t) /\ Top(t).at # "search" /\ Top(t).needs = {}
      BY <1>4 DEF Publish, Constructed, Inside
  <2>1. CASE Found(Top(t).svc)
    <3>1. UNCHANGED <<first_service_, got, closure>>
        BY <1>4, <2>1 DEF Publish, Advance
    <3> QED
        BY <1>1, <3>1 DEF closure
  <2>2. CASE ~Found(Top(t).svc)
    <3>0. PICK s \in Services : s = Top(t).svc
        BY <2>0, TopCall DEF IInv, CallSet
    <3>1. Directory!Register(s, t)
        BY <1>4, <2>0, <2>2, <3>0, RegisterStep DEF Publish
    <3>2. got' = got \cup {Object(s, t)}
        BY <1>4, <2>2, <3>0 DEF Publish
    <3>3. References' = References \cup {<<s, t>>}
      <4>1. Object(s, t).svc = s /\ Object(s, t).by = t
          BY DEF Object
      <4> QED
          BY <3>2, <4>1 DEF References
    <3>4. MakerOf'[s] = t
        BY <3>1 DEF Directory!Register, MakerOf
    <3>5. Directory!Obtain(s)
        BY <3>3, <3>4 DEF Directory!Obtain, References
    <3> QED
        BY <3>1, <3>5 DEF Directory!Next
  <2> QED
      BY <2>1, <2>2
<1>5. ASSUME NEW t \in Threads, AddService(t) PROVE [Directory!Next]_(Directory!dvars)
  <2>1. CASE Found(Top(t).svc)
      BY <1>1, <1>5, <2>1 DEF AddService, closure
  <2>2. CASE ~Found(Top(t).svc)
    <3>0. PICK s \in Services : s = Top(t).svc
        BY <1>5, TopCall DEF IInv, CallSet, AddService, Constructed, Inside
    <3>1. Directory!Register(s, t)
        BY <1>5, <2>2, <3>0, RegisterStep DEF AddService, Constructed, Inside
    <3>2. UNCHANGED got
        BY <1>5 DEF AddService
    <3> QED
        BY <3>1, <3>2 DEF Directory!Next
  <2> QED
      BY <2>1, <2>2
<1>6. CASE BeginShutdown \/ ShutdownService
    BY <1>1, <1>6 DEF BeginShutdown, ShutdownService
<1>7. CASE DestroyService
    BY <1>7, DestroyStep
<1>8. CASE UNCHANGED vars
    BY <1>1, <1>8 DEF vars, closure
<1> QED
    BY <1>2, <1>3, <1>4, <1>5, <1>6, <1>7, <1>8, <1>9, <1>10 DEF Next, Step, Close

\* The registry implements ServiceDirectory: the object of a service is
\* written once, after what it uses, and goes last.
THEOREM RegistryImplementsDirectory == Spec => RegistryIsDirectory
<1>1. Init => Directory!Init
  <2> SUFFICES ASSUME Init PROVE Directory!Init
      OBVIOUS
  <2>1. MakerOf = [s \in Services |-> NoThread]
      BY DEF Init, MakerOf, Found, ToSet
  <2>2. References = {}
      BY DEF Init, References
  <2> QED
      BY <2>1, <2>2 DEF Init, Directory!Init, References
<1> QED
    BY <1>1, RegistryAssumption, IInvAlways, DirectoryStep, PTL
    DEF Spec, Directory!Spec, RegistryIsDirectory
=============================================================================
