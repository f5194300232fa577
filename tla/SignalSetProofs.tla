---------------------------- MODULE SignalSetProofs ----------------------------
(***************************************************************************)
(* Proofs about SignalSet, for any services, sets, signals and capacity of *)
(* the pipe.                                                               *)
(*                                                                         *)
(* First, the pipe that all services share is attended by each of them.    *)
(* An edge is reported once, so that the property is inductive only if     *)
(* every step that takes an edge, the last number of the pipe or a reader  *)
(* away puts one of the others in its place.  What must be known besides   *)
(* is the type of the four variables that it speaks of.                    *)
(*                                                                         *)
(* Then the tables: what a set has registered, what it has counted, who    *)
(* waits in it and what the process handles.  All rest on the order of the *)
(* list of a set (ListInv): it makes the signals of a list distinct, so    *)
(* that remove takes the only registration of one, and the first           *)
(* registration that has counted the smallest.                             *)
(***************************************************************************)
EXTENDS SignalSet, TLAPS, FiniteSetTheorems

USE SignalAssumption DEF SignalAssumption

PipeType ==
    /\ watched \subseteq Services
    /\ pipe \in Seq(Signals)
    /\ edge \in [Services -> BOOLEAN]
    /\ reading \in [Services -> Signals \cup {Out, Looping}]

PipeInv == PipeType /\ PipeAttended

-----------------------------------------------------------------------------
(* What the steps do to the pipe, to the edges and to the readers.         *)

\* A service that begins to watch the pipe has an edge if something is in it.
LEMMA WatchAttends ==
    ASSUME PipeInv, NEW s \in Services, Watch(s), UNCHANGED reading,
           pipe' = pipe \/ pipe' = <<>>
    PROVE  PipeInv'
<1>1. /\ watched' = watched \cup {s}
      /\ edge' = [edge EXCEPT ![s] = pipe' # <<>>]
  BY DEF Watch
<1>2. PipeType'
  <2>1. pipe' \in Seq(Signals)
    <3>1. pipe \in Seq(Signals)
      BY DEF PipeInv, PipeType
    <3>2. <<>> \in Seq(Signals)
      OBVIOUS
    <3> QED
      BY <3>1, <3>2, Zenon
  <2>2. edge' \in [Services -> BOOLEAN]
    BY <1>1 DEF PipeInv, PipeType
  <2> QED
    BY <1>1, <2>1, <2>2 DEF PipeInv, PipeType
<1>3. ASSUME pipe' # <<>>, NEW u \in watched' PROVE edge'[u] \/ reading'[u] # Out
  <2>1. CASE u = s
    BY <1>1, <1>3, <2>1 DEF PipeInv, PipeType
  <2>2. CASE u # s
    BY <1>1, <1>3, <2>2 DEF PipeInv, PipeType, PipeAttended
  <2> QED
    BY <2>1, <2>2
<1> QED
  BY <1>2, <1>3 DEF PipeInv, PipeAttended

\* A service that does not watch any more needs no edge.
LEMMA UnwatchAttends ==
    ASSUME PipeInv, NEW s \in Services, Unwatch(s), UNCHANGED reading,
           pipe' = pipe \/ pipe' = <<>>
    PROVE  PipeInv'
<1>1. /\ watched' = watched \ {s}
      /\ edge' = [edge EXCEPT ![s] = FALSE]
  BY DEF Unwatch
<1>2. PipeType'
  <2>1. pipe' \in Seq(Signals)
    <3>1. pipe \in Seq(Signals)
      BY DEF PipeInv, PipeType
    <3>2. <<>> \in Seq(Signals)
      OBVIOUS
    <3> QED
      BY <3>1, <3>2, Zenon
  <2>2. edge' \in [Services -> BOOLEAN]
    BY <1>1 DEF PipeInv, PipeType
  <2> QED
    BY <1>1, <2>1, <2>2 DEF PipeInv, PipeType
<1>3. ASSUME pipe' # <<>>, NEW u \in watched' PROVE edge'[u] \/ reading'[u] # Out
  BY <1>1, <1>3 DEF PipeInv, PipeType, PipeAttended
<1> QED
  BY <1>2, <1>3 DEF PipeInv, PipeAttended

\* A reader goes on, or stops at an empty pipe.
LEMMA ReaderAttends ==
    ASSUME PipeInv, NEW s \in Services, ReadLoop(s)
    PROVE  PipeInv'
<1>1. UNCHANGED <<watched, edge>>
  BY DEF ReadLoop, Read, EndRead, Deliver
<1>2. CASE Read(s)
  <2>1. /\ pipe # <<>> /\ pipe' = Tail(pipe)
        /\ reading' = [reading EXCEPT ![s] = Head(pipe)]
    BY <1>2 DEF Read
  <2>2. Head(pipe) \in Signals /\ Tail(pipe) \in Seq(Signals)
    BY <2>1 DEF PipeInv, PipeType
  <2>3. Head(pipe) # Out
    BY <2>2 DEF Out
  <2> QED
    BY <1>1, <2>1, <2>2, <2>3 DEF PipeInv, PipeType, PipeAttended
<1>3. CASE EndRead(s)
  BY <1>1, <1>3 DEF EndRead, PipeInv, PipeType, PipeAttended
<1>4. CASE Deliver(s)
  <2>1. pipe' = pipe /\ reading' = [reading EXCEPT ![s] = Looping]
    BY <1>4 DEF Deliver, AfterDelivery
  <2> QED
    BY <1>1, <2>1 DEF PipeInv, PipeType, PipeAttended, Looping, Out
<1> QED
  BY <1>2, <1>3, <1>4 DEF ReadLoop

\* A signal gives every service that watches an edge.
LEMMA RaiseAttends ==
    ASSUME PipeInv, NEW n \in Signals, Raise(n)
    PROVE  PipeInv'
<1>1. UNCHANGED <<watched, reading>>
  BY DEF Raise
<1>2. CASE UNCHANGED <<pipe, edge>>
  BY <1>1, <1>2 DEF PipeInv, PipeType, PipeAttended
<1>3. CASE /\ pipe' = Append(pipe, n)
           /\ edge' = [s \in Services |-> edge[s] \/ s \in watched]
  <2>1. pipe' \in Seq(Signals)
    BY <1>3 DEF PipeInv, PipeType
  <2>2. edge' \in [Services -> BOOLEAN] /\ \A s \in watched : edge'[s]
    BY <1>3 DEF PipeInv, PipeType
  <2> QED
    BY <1>1, <2>1, <2>2 DEF PipeInv, PipeType, PipeAttended
<1> QED
  BY <1>2, <1>3 DEF Raise

-----------------------------------------------------------------------------
LEMMA PipeInit == Init => PipeInv
  BY DEF Init, PipeInv, PipeType, PipeAttended

LEMMA PipeStep == PipeInv /\ [Next]_vars => PipeInv'
<1> SUFFICES ASSUME PipeInv, [Next]_vars PROVE PipeInv'
  OBVIOUS
<1>1. ASSUME UNCHANGED <<pipe, edge, reading, watched>> PROVE PipeInv'
  BY <1>1 DEF PipeInv, PipeType, PipeAttended
<1>2. ASSUME NEW s \in Services, AddService(s) PROVE PipeInv'
  <2>1. Watch(s) /\ UNCHANGED reading /\ (pipe' = pipe \/ pipe' = <<>>)
    BY <1>2 DEF AddService
  <2> QED
    BY <2>1, WatchAttends
<1>3. ASSUME NEW s \in Services, Shutdown(s) PROVE PipeInv'
  <2>1. Unwatch(s) /\ UNCHANGED reading /\ (pipe' = pipe \/ pipe' = <<>>)
    BY <1>3 DEF Shutdown
  <2> QED
    BY <2>1, UnwatchAttends
<1>4. ASSUME NEW s \in Services, BeginRead(s) PROVE PipeInv'
  <2>1. /\ edge' = [edge EXCEPT ![s] = FALSE]
        /\ reading' = [reading EXCEPT ![s] = Looping]
        /\ UNCHANGED <<pipe, watched>>
    BY <1>4 DEF BeginRead
  <2> QED
    BY <2>1 DEF PipeInv, PipeType, PipeAttended, Looping, Out
<1>5. ASSUME NEW s \in Services, ForkPrepare(s) PROVE PipeInv'
  BY <1>5, UnwatchAttends DEF ForkPrepare
<1>6. ASSUME NEW s \in Services, ForkDone(s) PROVE PipeInv'
  <2>1. Watch(s) /\ UNCHANGED reading /\ (pipe' = pipe \/ pipe' = <<>>)
    BY <1>6 DEF ForkDone
  <2> QED
    BY <2>1, WatchAttends
<1>7. ASSUME Fork PROVE PipeInv'
  BY <1>1, <1>7 DEF Fork, reactor
<1>8. ASSUME NEW x \in Sets, NEW n \in Signals, Add(x, n) \/ RemoveSignal(x, n)
      PROVE  PipeInv'
  BY <1>1, <1>8 DEF Add, RemoveSignal, reactor
<1>9. ASSUME NEW x \in Sets, Clear(x) \/ Cancel(x) \/ Destroy(x) PROVE PipeInv'
  BY <1>1, <1>9 DEF Clear, Cancel, Destroy, reactor
<1>10. ASSUME NEW x \in Sets, NEW o \in Ops, AsyncWait(x, o) PROVE PipeInv'
  BY <1>1, <1>10 DEF AsyncWait, reactor
<1>11. ASSUME UNCHANGED vars PROVE PipeInv'
  BY <1>1, <1>11 DEF vars, reactor
<1> QED
  BY <1>2, <1>3, <1>4, <1>5, <1>6, <1>7, <1>8, <1>9, <1>10, <1>11,
     ReaderAttends, RaiseAttends DEF Next

(* While a number is in the pipe, every service that watches it has an     *)
(* edge that its epoll_wait will report, or is in pipe_read_op's loop:     *)
(* registration beside a full pipe, the readers of other services and      *)
(* fork_service lose none.                                                 *)
THEOREM PipeIsAttended == Spec => []PipeAttended
<1>1. PipeInv => PipeAttended
  BY DEF PipeInv
<1> QED
  BY <1>1, PipeInit, PipeStep, PTL DEF Spec

-----------------------------------------------------------------------------
(* Lists, and the first of a set of places.                                *)

LEMMA LeastOf ==
    ASSUME NEW S \in SUBSET Nat, S # {}
    PROVE  \E i \in S : \A j \in S : i <= j
<1>1. PICK i \in S : \A j \in S : ~(<<j, i>> \in OpToRel(<, Nat))
  BY WFMin, NatLessThanWellFounded, Zenon
<1>2. \A j \in S : ~(j < i)
  BY <1>1, Zenon DEF OpToRel
<1> QED
  BY <1>2

LEMMA ConcatIs ==
    ASSUME NEW R, NEW a \in Seq(R), NEW b \in Seq(R)
    PROVE  /\ a \o b \in Seq(R)
           /\ Len(a \o b) = Len(a) + Len(b)
           /\ \A j \in 1..Len(a) : (a \o b)[j] = a[j]
           /\ \A j \in 1..Len(b) : (a \o b)[Len(a) + j] = b[j]
OBVIOUS

LEMMA RemoveAtIs ==
    ASSUME NEW R, NEW q \in Seq(R), NEW i \in DOMAIN q
    PROVE  /\ RemoveAt(q, i) \in Seq(R)
           /\ DOMAIN RemoveAt(q, i) = 1..Len(q) - 1
           /\ \A j \in 1..i - 1 : RemoveAt(q, i)[j] = q[j]
           /\ \A j \in i..Len(q) - 1 : RemoveAt(q, i)[j] = q[j + 1]
<1>1. i \in 1..Len(q) /\ Len(q) \in Nat
  OBVIOUS
<1>2. PICK a : a = SubSeq(q, 1, i - 1)
  OBVIOUS
<1>3. PICK b : b = SubSeq(q, i + 1, Len(q))
  OBVIOUS
<1>4. a \in Seq(R) /\ Len(a) = i - 1 /\ \A j \in 1..i - 1 : a[j] = q[j]
  BY <1>1, <1>2
<1>5. b \in Seq(R) /\ Len(b) = Len(q) - i /\ \A j \in 1..Len(q) - i : b[j] = q[i + j]
  BY <1>1, <1>3
<1>6. PICK c : c = a \o b
  OBVIOUS
<1>7. /\ c \in Seq(R) /\ Len(c) = Len(a) + Len(b)
      /\ \A j \in 1..Len(a) : c[j] = a[j]
      /\ \A j \in 1..Len(b) : c[Len(a) + j] = b[j]
  <2>1. a \in Seq(R) /\ b \in Seq(R)
    BY <1>4, <1>5
  <2>2. /\ a \o b \in Seq(R) /\ Len(a \o b) = Len(a) + Len(b)
        /\ \A j \in 1..Len(a) : (a \o b)[j] = a[j]
        /\ \A j \in 1..Len(b) : (a \o b)[Len(a) + j] = b[j]
    BY <2>1
  <2> QED
    BY <2>2, <1>6, Zenon
<1>8. /\ DOMAIN c = 1..Len(q) - 1
      /\ \A j \in 1..i - 1 : c[j] = q[j]
  <2>1. Len(c) = Len(q) - 1
    BY <1>1, <1>4, <1>5, <1>7
  <2>2. DOMAIN c = 1..Len(c)
    BY <1>7
  <2>3. \A j \in 1..i - 1 : c[j] = a[j]
    BY <1>4, <1>7
  <2> QED
    BY <1>4, <2>1, <2>2, <2>3
<1>9. ASSUME NEW j \in i..Len(q) - 1 PROVE c[j] = q[j + 1]
  <2>1. i \in Int /\ j \in Int /\ Len(q) \in Int /\ i <= j /\ j <= Len(q) - 1
    BY <1>1
  <2>2. PICK k \in Int : /\ k \in 1..Len(q) - i
                         /\ (i - 1) + k = j /\ i + k = j + 1
    <3>1. /\ j - (i - 1) \in 1..Len(q) - i
          /\ (i - 1) + (j - (i - 1)) = j /\ i + (j - (i - 1)) = j + 1
      BY <2>1
    <3> QED
      BY <3>1
  <2>3. k \in 1..Len(b) /\ Len(a) + k = j
    <3>1. Len(a) = i - 1 /\ Len(b) = Len(q) - i
      BY <1>4, <1>5, Zenon
    <3> QED
      BY <2>2, <3>1
  <2>4. c[j] = b[k] /\ b[k] = q[i + k]
    BY <1>5, <1>7, <2>2, <2>3
  <2> QED
    BY <2>2, <2>4
<1>10. RemoveAt(q, i) = c
  BY <1>2, <1>3, <1>6 DEF RemoveAt
<1> QED
  BY <1>7, <1>8, <1>9, <1>10

\* l is list q with r at place i.
Inserted(l, q, i, r) ==
    /\ l \in Seq(Registrations)
    /\ DOMAIN l = 1..Len(q) + 1
    /\ \A j \in 1..i - 1 : l[j] = q[j]
    /\ l[i] = r
    /\ \A j \in i + 1..Len(q) + 1 : l[j] = q[j - 1]

LEMMA InsertAtIs ==
    ASSUME NEW q \in Seq(Registrations), NEW i \in 1..Len(q) + 1,
           NEW r \in Registrations
    PROVE  Inserted(InsertAt(q, i, r), q, i, r)
<1>1. Len(q) \in Nat
  OBVIOUS
<1>2. PICK a : a = SubSeq(q, 1, i - 1)
  OBVIOUS
<1>3. PICK b : b = SubSeq(q, i, Len(q))
  OBVIOUS
<1>4. PICK e : e = <<r>>
  OBVIOUS
<1>5. a \in Seq(Registrations) /\ Len(a) = i - 1 /\ \A j \in 1..i - 1 : a[j] = q[j]
  BY <1>1, <1>2
<1>6. /\ b \in Seq(Registrations) /\ Len(b) = Len(q) + 1 - i
      /\ \A j \in 1..Len(q) + 1 - i : b[j] = q[i + j - 1]
  BY <1>1, <1>3
<1>7. e \in Seq(Registrations) /\ Len(e) = 1 /\ e[1] = r
  BY <1>4
<1>8. PICK d : d = a \o e
  OBVIOUS
<1>9. /\ d \in Seq(Registrations) /\ Len(d) = Len(a) + Len(e)
      /\ \A j \in 1..Len(a) : d[j] = a[j]
      /\ \A j \in 1..Len(e) : d[Len(a) + j] = e[j]
  <2>1. a \in Seq(Registrations) /\ e \in Seq(Registrations)
    BY <1>5, <1>7
  <2>2. /\ a \o e \in Seq(Registrations) /\ Len(a \o e) = Len(a) + Len(e)
        /\ \A j \in 1..Len(a) : (a \o e)[j] = a[j]
        /\ \A j \in 1..Len(e) : (a \o e)[Len(a) + j] = e[j]
    BY <2>1
  <2> QED
    BY <2>2, <1>8, Zenon
<1>10. Len(d) = i /\ d[i] = r /\ \A j \in 1..i - 1 : d[j] = q[j]
  <2>1. 1 \in 1..Len(e) /\ Len(a) + 1 = i
    BY <1>1, <1>5, <1>7
  <2>2. d[i] = r
    BY <1>7, <1>9, <2>1
  <2> QED
    BY <1>1, <1>5, <1>7, <1>9, <2>2
<1>11. PICK c : c = d \o b
  OBVIOUS
<1>12. /\ c \in Seq(Registrations) /\ Len(c) = Len(d) + Len(b)
       /\ \A j \in 1..Len(d) : c[j] = d[j]
       /\ \A j \in 1..Len(b) : c[Len(d) + j] = b[j]
  <2>1. d \in Seq(Registrations) /\ b \in Seq(Registrations)
    BY <1>6, <1>9
  <2>2. /\ d \o b \in Seq(Registrations) /\ Len(d \o b) = Len(d) + Len(b)
        /\ \A j \in 1..Len(d) : (d \o b)[j] = d[j]
        /\ \A j \in 1..Len(b) : (d \o b)[Len(d) + j] = b[j]
    BY <2>1
  <2> QED
    BY <2>2, <1>11, Zenon
<1>13. /\ DOMAIN c = 1..Len(q) + 1
       /\ c[i] = r /\ \A j \in 1..i - 1 : c[j] = q[j]
  BY <1>1, <1>6, <1>10, <1>12
<1>14. ASSUME NEW j \in i + 1..Len(q) + 1 PROVE c[j] = q[j - 1]
  <2>1. i \in Int /\ j \in Int /\ Len(q) \in Int /\ i + 1 <= j /\ j <= Len(q) + 1
    BY <1>1
  <2>2. PICK k \in Int : /\ k \in 1..Len(q) + 1 - i
                         /\ i + k = j /\ i + k - 1 = j - 1
    <3>1. j - i \in 1..Len(q) + 1 - i /\ i + (j - i) = j /\ i + (j - i) - 1 = j - 1
      BY <2>1
    <3> QED
      BY <3>1
  <2>3. k \in 1..Len(b) /\ Len(d) + k = j
    <3>1. Len(d) = i /\ Len(b) = Len(q) + 1 - i
      BY <1>6, <1>10, Zenon
    <3> QED
      BY <2>2, <3>1
  <2>4. c[j] = b[k] /\ b[k] = q[i + k - 1]
    BY <1>6, <1>12, <2>2, <2>3
  <2> QED
    BY <2>2, <2>4
<1>15. InsertAt(q, i, r) = c
  BY <1>2, <1>3, <1>4, <1>8, <1>11 DEF InsertAt
<1> QED
  BY <1>12, <1>13, <1>14, <1>15 DEF Inserted

\* add's walk stops at a place, before all that are not smaller if the list is
\* in order.
LEMMA InsertionPointIs ==
    ASSUME NEW x, NEW n, signals_[x] \in Seq(Registrations)
    PROVE  LET q == signals_[x]
               p == InsertionPoint(x, n)
           IN  /\ p \in 1..Len(q) + 1
               /\ \A j \in 1..p - 1 : j \in DOMAIN q /\ q[j].signal_number_ < n
               /\ p \in DOMAIN q => ~(q[p].signal_number_ < n)
<1> DEFINE q == signals_[x]
           smaller(i) == i \in DOMAIN q /\ q[i].signal_number_ < n
           S == {i \in 1..Len(q) + 1 : ~smaller(i)}
<1>1. Len(q) \in Nat /\ DOMAIN q = 1..Len(q)
  OBVIOUS
<1>2. S \in SUBSET Nat
  BY <1>1
<1>3. Len(q) + 1 \in S
  BY <1>1
<1>4. PICK p \in S : \A j \in S : p <= j
  BY <1>2, <1>3, LeastOf
<1>5. p \in 1..Len(q) + 1 /\ ~smaller(p)
  BY <1>4
<1>6. ASSUME NEW j \in 1..p - 1 PROVE smaller(j)
  <2>1. j \in 1..Len(q) + 1 /\ ~(p <= j)
    BY <1>1, <1>5
  <2> QED
    BY <1>4, <2>1
<1>7. \E i \in 1..Len(q) + 1 : ~smaller(i) /\ \A j \in 1..i - 1 : smaller(j)
  BY <1>5, <1>6
<1>8. InsertionPoint(x, n) =
         CHOOSE i \in 1..Len(q) + 1 : ~smaller(i) /\ \A j \in 1..i - 1 : smaller(j)
  BY DEF InsertionPoint
<1> HIDE DEF q
<1>9. /\ InsertionPoint(x, n) \in 1..Len(q) + 1
      /\ ~smaller(InsertionPoint(x, n))
      /\ \A j \in 1..InsertionPoint(x, n) - 1 : smaller(j)
  BY <1>7, <1>8
<1> USE DEF q
<1> QED
  BY <1>9

-----------------------------------------------------------------------------
(* The invariant of the registrations and of the operations that wait.     *)

Ascending(q) ==
    \A i, j \in DOMAIN q : i < j => q[i].signal_number_ < q[j].signal_number_

\* The list of a set is in order, and while an operation waits nothing in it
\* has counted a signal.
ListInv ==
    /\ signals_ \in [Sets -> Seq(Registrations)]
    /\ queue_ \in [Sets -> Seq(Ops)]
    /\ result \in [Ops -> Results]
    /\ \A x \in Sets : Ascending(signals_[x])
    /\ \A x \in Sets : queue_[x] # <<>> =>
          \A i \in DOMAIN signals_[x] : signals_[x][i].undelivered_ = 0

LEMMA ListShutdown ==
    ASSUME ListInv, NEW s \in Services, Shutdown(s)
    PROVE  ListInv'
<1>1. PICK gone \in SUBSET Sets :
         /\ queue_' = [x \in Sets |-> IF x \in gone THEN <<>> ELSE queue_[x]]
         /\ result' = [o \in Ops |->
               IF \E x \in gone : o \in ToSet(queue_[x])
               THEN Result("destroyed", NoSignal, NoSignal) ELSE result[o]]
  BY DEF Shutdown
<1>2. signals_' = signals_
  BY DEF Shutdown, sets
<1>3. queue_' \in [Sets -> Seq(Ops)]
  BY <1>1 DEF ListInv
<1>4. result' \in [Ops -> Results]
  BY <1>1 DEF ListInv, Result, Results
<1> QED
  BY <1>1, <1>2, <1>3, <1>4 DEF ListInv

\* A registration with another count is one of the same signal.
LEMMA Counted ==
    ASSUME NEW r \in Registrations, NEW u \in Nat
    PROVE  /\ [r EXCEPT !.undelivered_ = u] \in Registrations
           /\ [r EXCEPT !.undelivered_ = u].signal_number_ = r.signal_number_
BY DEF Registrations

\* What deliver_signal makes of a list.
LEMMA NotifyIs ==
    ASSUME ListInv, NEW x \in Sets, NEW n
    PROVE  /\ Notify(x, n) \in Seq(Registrations)
           /\ DOMAIN Notify(x, n) = DOMAIN signals_[x]
           /\ \A i \in DOMAIN signals_[x] :
                 Notify(x, n)[i].signal_number_ = signals_[x][i].signal_number_
<1>1. PICK q \in Seq(Registrations) : q = signals_[x]
  BY DEF ListInv
<1>2. PICK f : f = [i \in DOMAIN q |->
                       IF q[i].signal_number_ = n /\ queue_[x] = <<>>
                       THEN [q[i] EXCEPT !.undelivered_ = @ + 1] ELSE q[i]]
  OBVIOUS
<1>3. Notify(x, n) = f
  BY <1>1, <1>2 DEF Notify
<1>4. \A i \in DOMAIN q : q[i] \in Registrations
  OBVIOUS
<1>5. ASSUME NEW r \in Registrations
      PROVE  /\ [r EXCEPT !.undelivered_ = @ + 1] \in Registrations
             /\ [r EXCEPT !.undelivered_ = @ + 1].signal_number_ = r.signal_number_
  <2>1. r.undelivered_ + 1 \in Nat
    BY DEF Registrations
  <2> QED
    BY <2>1, Counted
<1>6. /\ DOMAIN f = 1..Len(q) /\ Len(q) \in Nat
      /\ \A i \in 1..Len(q) : f[i] \in Registrations
                              /\ f[i].signal_number_ = q[i].signal_number_
  BY <1>2, <1>4, <1>5
<1>7. f \in Seq(Registrations)
  <2>1. f = [i \in 1..Len(q) |-> f[i]]
    BY <1>2
  <2> QED
    BY <1>6, <2>1
<1> QED
  BY <1>1, <1>3, <1>6, <1>7

LEMMA ListDeliver ==
    ASSUME ListInv, NEW s \in Services, Deliver(s)
    PROVE  ListInv'
<1>1. PICK n \in Signals :
      /\ signals_' = [x \in Sets |-> IF x \in Listeners(n) THEN Notify(x, n)
                                     ELSE signals_[x]]
      /\ queue_' = [x \in Sets |-> IF x \in Listeners(n) THEN <<>> ELSE queue_[x]]
      /\ result' = [o \in Ops |->
            IF \E x \in Listeners(n) : o \in ToSet(queue_[x])
            THEN Result("done", n, n) ELSE result[o]]
  BY DEF Deliver
<1>2. signals_' \in [Sets -> Seq(Registrations)]
  BY <1>1, NotifyIs DEF ListInv
<1>3. queue_' \in [Sets -> Seq(Ops)]
  BY <1>1 DEF ListInv
<1>4. result' \in [Ops -> Results]
  BY <1>1 DEF ListInv, Result, Results
<1>5. ASSUME NEW x \in Sets PROVE Ascending(signals_'[x])
  <2>1. CASE x \in Listeners(n)
    <3>1. signals_'[x] = Notify(x, n)
      BY <1>1, <2>1
    <3>2. /\ DOMAIN Notify(x, n) = DOMAIN signals_[x]
          /\ \A i \in DOMAIN signals_[x] :
                Notify(x, n)[i].signal_number_ = signals_[x][i].signal_number_
      BY NotifyIs
    <3>3. Ascending(signals_[x])
      BY DEF ListInv
    <3> QED
      BY <3>1, <3>2, <3>3 DEF Ascending
  <2>2. CASE x \notin Listeners(n)
    BY <1>1, <2>2 DEF ListInv
  <2> QED
    BY <2>1, <2>2
<1>6. ASSUME NEW x \in Sets, queue_'[x] # <<>>
      PROVE  \A i \in DOMAIN signals_'[x] : signals_'[x][i].undelivered_ = 0
  BY <1>1, <1>6 DEF ListInv
<1> QED
  BY <1>2, <1>3, <1>4, <1>5, <1>6 DEF ListInv

LEMMA ListAdd ==
    ASSUME ListInv, NEW x \in Sets, NEW n \in Signals, Add(x, n)
    PROVE  ListInv'
<1>1. PICK q \in Seq(Registrations) : q = signals_[x]
  BY DEF ListInv
<1>2. PICK p : p = InsertionPoint(x, n)
  OBVIOUS
<1>3. PICK r : r = Registration(n, 0)
  OBVIOUS
<1>4. /\ r \in Registrations /\ r.signal_number_ = n /\ r.undelivered_ = 0
      /\ n \in Nat
  BY <1>3 DEF Registration, Registrations
<1>5. /\ p \in 1..Len(q) + 1
      /\ \A j \in 1..p - 1 : j \in DOMAIN q /\ q[j].signal_number_ < n
      /\ p \in DOMAIN q => ~(q[p].signal_number_ < n)
  BY <1>1, <1>2, InsertionPointIs
<1>6. PICK l : l = InsertAt(q, p, r)
  OBVIOUS
<1>7. /\ signals_' = [signals_ EXCEPT ![x] = l]
      /\ UNCHANGED <<queue_, result>>
  BY <1>1, <1>2, <1>3, <1>6 DEF Add, waits
<1>8. /\ l \in Seq(Registrations)
      /\ DOMAIN l = 1..Len(q) + 1
      /\ \A j \in 1..p - 1 : l[j] = q[j]
      /\ l[p] = r
      /\ \A j \in p + 1..Len(q) + 1 : l[j] = q[j - 1]
  <2>1. q \in Seq(Registrations) /\ p \in 1..Len(q) + 1 /\ r \in Registrations
    BY <1>4, <1>5
  <2>2. Inserted(l, q, p, r)
    BY <1>6, <2>1, InsertAtIs, Zenon
  <2> QED
    BY <2>2 DEF Inserted
<1>9. /\ Len(q) \in Nat /\ DOMAIN q = 1..Len(q) /\ p \in Nat
      /\ \A j \in DOMAIN q : q[j].signal_number_ \in Nat
                             /\ q[j].signal_number_ # n
  <2>1. \A j \in DOMAIN q : q[j] \in Registrations /\ q[j] \in ToSet(q)
    BY DEF ToSet
  <2>2. \A j \in DOMAIN q : q[j].signal_number_ # n
    BY <1>1, <2>1 DEF Add, Numbers
  <2>3. \A j \in DOMAIN q : q[j].signal_number_ \in Nat
    BY <2>1 DEF Registrations
  <2>4. Len(q) \in Nat /\ DOMAIN q = 1..Len(q) /\ p \in Nat
    BY <1>5
  <2> QED
    BY <2>2, <2>3, <2>4
<1>10. \A i, j \in DOMAIN q : i < j => q[i].signal_number_ < q[j].signal_number_
  BY <1>1 DEF ListInv, Ascending
<1>11. \A j \in DOMAIN q : p <= j => n < q[j].signal_number_
  <2>1. ASSUME NEW j \in DOMAIN q, p <= j PROVE n < q[j].signal_number_
    <3>1. p \in DOMAIN q
      BY <1>5, <1>9, <2>1
    <3>2. n < q[p].signal_number_
      BY <1>4, <1>5, <1>9, <3>1
    <3>3. p = j \/ q[p].signal_number_ < q[j].signal_number_
      BY <1>9, <1>10, <2>1, <3>1
    <3> QED
      BY <1>4, <1>9, <3>1, <3>2, <3>3
  <2> QED
    BY <2>1
<1>12. Ascending(l)
  <2>1. ASSUME NEW i \in DOMAIN l, NEW j \in DOMAIN l, i < j
        PROVE  l[i].signal_number_ < l[j].signal_number_
    <3>1. CASE j < p
      <4>1. i \in DOMAIN q /\ j \in DOMAIN q /\ l[i] = q[i] /\ l[j] = q[j]
        BY <1>5, <1>8, <1>9, <2>1, <3>1
      <4> QED
        BY <1>10, <2>1, <4>1
    <3>2. CASE j = p
      <4>1. i \in 1..p - 1 /\ l[i] = q[i] /\ l[j] = r
        BY <1>8, <1>9, <2>1, <3>2
      <4> QED
        BY <1>4, <1>5, <4>1
    <3>3. CASE j > p
      <4>1. l[j] = q[j - 1] /\ j - 1 \in DOMAIN q /\ p <= j - 1
        BY <1>8, <1>9, <2>1, <3>3
      <4>2. CASE i < p
        <5>1. l[i] = q[i] /\ i \in 1..p - 1 /\ i \in DOMAIN q /\ i < j - 1
          BY <1>5, <1>8, <1>9, <2>1, <3>3, <4>2
        <5> QED
          BY <1>10, <4>1, <5>1
      <4>3. CASE i = p
        <5>1. l[i] = r
          BY <1>8, <1>9, <2>1, <4>3
        <5> QED
          BY <1>4, <1>11, <4>1, <5>1
      <4>4. CASE i > p
        <5>1. /\ i \in 1..Len(q) + 1 /\ j \in 1..Len(q) + 1
              /\ Len(q) \in Nat /\ p \in 1..Len(q) + 1
          BY <1>5, <1>8, <1>9, <2>1, Zenon
        <5>2. i \in p + 1..Len(q) + 1 /\ i - 1 \in 1..Len(q) /\ i - 1 < j - 1
          BY <2>1, <4>4, <5>1
        <5>3. l[i] = q[i - 1] /\ i - 1 \in DOMAIN q
          BY <1>8, <1>9, <5>2, Zenon
        <5> QED
          BY <1>10, <4>1, <5>2, <5>3
      <4> QED
        BY <1>8, <1>9, <4>2, <4>3, <4>4
    <3> QED
      BY <1>8, <1>9, <3>1, <3>2, <3>3
  <2> QED
    BY <2>1 DEF Ascending
<1>13. ASSUME queue_[x] # <<>>, NEW j \in DOMAIN l PROVE l[j].undelivered_ = 0
  <2>1. \A i \in DOMAIN q : q[i].undelivered_ = 0
    BY <1>1, <1>13 DEF ListInv
  <2>2. CASE j < p
    BY <1>5, <1>8, <1>9, <2>1, <2>2
  <2>3. CASE j = p
    BY <1>4, <1>8, <2>3
  <2>4. CASE j > p
    <3>1. j \in 1..Len(q) + 1 /\ Len(q) \in Nat /\ p \in 1..Len(q) + 1
      BY <1>5, <1>8, <1>9, Zenon
    <3>2. j \in p + 1..Len(q) + 1 /\ j - 1 \in 1..Len(q)
      BY <2>4, <3>1
    <3>3. l[j] = q[j - 1] /\ j - 1 \in DOMAIN q
      BY <1>8, <1>9, <3>2, Zenon
    <3> QED
      BY <2>1, <3>3
  <2> QED
    BY <1>8, <1>9, <2>2, <2>3, <2>4
<1> QED
  BY <1>7, <1>8, <1>12, <1>13 DEF ListInv

LEMMA ListRemove ==
    ASSUME ListInv, NEW x \in Sets, NEW n \in Signals, RemoveSignal(x, n)
    PROVE  ListInv'
<1>1. PICK q \in Seq(Registrations) : q = signals_[x]
  BY DEF ListInv
<1>2. PICK i \in DOMAIN q : signals_' = [signals_ EXCEPT ![x] = RemoveAt(q, i)]
  BY <1>1 DEF RemoveSignal
<1>3. PICK l : l = RemoveAt(q, i)
  OBVIOUS
<1>4. /\ l \in Seq(Registrations)
      /\ DOMAIN l = 1..Len(q) - 1
      /\ \A j \in 1..i - 1 : l[j] = q[j]
      /\ \A j \in i..Len(q) - 1 : l[j] = q[j + 1]
  <2>1. q \in Seq(Registrations) /\ i \in DOMAIN q
    OBVIOUS
  <2>2. /\ RemoveAt(q, i) \in Seq(Registrations)
        /\ DOMAIN RemoveAt(q, i) = 1..Len(q) - 1
        /\ \A j \in 1..i - 1 : RemoveAt(q, i)[j] = q[j]
        /\ \A j \in i..Len(q) - 1 : RemoveAt(q, i)[j] = q[j + 1]
    BY <2>1, RemoveAtIs
  <2> QED
    BY <2>2, <1>3, Zenon
<1>5. Len(q) \in Nat /\ DOMAIN q = 1..Len(q) /\ i \in 1..Len(q)
  BY <1>1
<1>6. /\ \A j, k \in DOMAIN q : j < k => q[j].signal_number_ < q[k].signal_number_
      /\ queue_[x] # <<>> => \A j \in DOMAIN q : q[j].undelivered_ = 0
  BY <1>1 DEF ListInv, Ascending
\* Where the registration at a place was.
<1>7. PICK old \in [1..Len(q) - 1 -> 1..Len(q)] :
         \A j \in 1..Len(q) - 1 : old[j] = IF j < i THEN j ELSE j + 1
  <2>1. [j \in 1..Len(q) - 1 |-> IF j < i THEN j ELSE j + 1]
           \in [1..Len(q) - 1 -> 1..Len(q)]
    BY <1>5
  <2> QED
    BY <2>1
<1>8. /\ \A j \in 1..Len(q) - 1 : l[j] = q[old[j]]
      /\ \A j, k \in 1..Len(q) - 1 : j < k => old[j] < old[k]
  <2>1. ASSUME NEW j \in 1..Len(q) - 1 PROVE l[j] = q[old[j]]
    <3>1. CASE j < i
      <4>1. j \in 1..i - 1
        BY <1>5, <3>1
      <4> QED
        BY <1>4, <1>7, <3>1, <4>1, Zenon
    <3>2. CASE ~(j < i)
      <4>1. j \in i..Len(q) - 1
        BY <1>5, <3>2
      <4> QED
        BY <1>4, <1>7, <3>2, <4>1, Zenon
    <3> QED
      BY <3>1, <3>2
  <2>2. ASSUME NEW j \in 1..Len(q) - 1, NEW k \in 1..Len(q) - 1, j < k
        PROVE  old[j] < old[k]
    BY <1>5, <1>7, <2>2
  <2> QED
    BY <2>1, <2>2
<1>9. Ascending(l)
  <2>1. ASSUME NEW j \in DOMAIN l, NEW k \in DOMAIN l, j < k
        PROVE  l[j].signal_number_ < l[k].signal_number_
    <3>1. /\ l[j] = q[old[j]] /\ l[k] = q[old[k]] /\ old[j] < old[k]
          /\ old[j] \in DOMAIN q /\ old[k] \in DOMAIN q
      <4>1. j \in 1..Len(q) - 1 /\ k \in 1..Len(q) - 1
        BY <1>4, Zenon
      <4> QED
        BY <1>5, <1>7, <1>8, <2>1, <4>1, Zenon
    <3> QED
      BY <1>6, <3>1, Zenon
  <2> QED
    BY <2>1 DEF Ascending
<1>10. ASSUME queue_[x] # <<>>, NEW j \in DOMAIN l PROVE l[j].undelivered_ = 0
  <2>1. j \in 1..Len(q) - 1
    BY <1>4, Zenon
  <2>2. l[j] = q[old[j]] /\ old[j] \in DOMAIN q
    BY <1>5, <1>7, <1>8, <2>1, Zenon
  <2> QED
    BY <1>6, <1>10, <2>2, Zenon
<1>11. UNCHANGED <<queue_, result>>
  BY DEF RemoveSignal, waits
<1> QED
  BY <1>2, <1>3, <1>4, <1>9, <1>10, <1>11 DEF ListInv

\* clear, cancel and both.
LEMMA ListEnd ==
    ASSUME ListInv, NEW x \in Sets, Clear(x) \/ Cancel(x) \/ Destroy(x)
    PROVE  ListInv'
<1>1. signals_' = signals_ \/ signals_' = [signals_ EXCEPT ![x] = <<>>]
  BY DEF Clear, Cancel, Destroy, RemoveAll, sets
<1>2. UNCHANGED <<queue_, result>> \/ Abort(x)
  BY DEF Clear, Cancel, Destroy, waits
<1>3. /\ signals_' \in [Sets -> Seq(Registrations)]
      /\ \A y \in Sets : Ascending(signals_'[y])
  <2>1. Ascending(<<>>) /\ <<>> \in Seq(Registrations)
    BY DEF Ascending
  <2> QED
    BY <1>1, <2>1 DEF ListInv
<1>4. queue_' \in [Sets -> Seq(Ops)] /\ result' \in [Ops -> Results]
  <2>1. CASE UNCHANGED <<queue_, result>>
    BY <2>1 DEF ListInv
  <2>2. CASE Abort(x)
    <3>1. queue_' \in [Sets -> Seq(Ops)]
      BY <2>2 DEF Abort, ListInv
    <3>2. result' \in [Ops -> Results]
      BY <2>2 DEF Abort, ListInv, Result, Results
    <3> QED
      BY <3>1, <3>2
  <2> QED
    BY <1>2, <2>1, <2>2
<1>5. ASSUME NEW y \in Sets, queue_'[y] # <<>>
      PROVE  \A i \in DOMAIN signals_'[y] : signals_'[y][i].undelivered_ = 0
  <2>1. queue_'[y] = queue_[y]
    BY <1>2, <1>5 DEF Abort, ListInv
  <2>2. \A i \in DOMAIN signals_[y] : signals_[y][i].undelivered_ = 0
    BY <1>5, <2>1 DEF ListInv
  <2>3. signals_'[y] = signals_[y] \/ signals_'[y] = <<>>
    BY <1>1 DEF ListInv
  <2>4. DOMAIN <<>> = {}
    OBVIOUS
  <2> QED
    BY <2>2, <2>3, <2>4, Zenon
<1> QED
  BY <1>3, <1>4, <1>5 DEF ListInv

\* The first of the registrations that have counted a signal.
LEMMA FirstNoted ==
    ASSUME ListInv, NEW x \in Sets, Noted(x) # {}
    PROVE  LET i == CHOOSE j \in Noted(x) : \A k \in Noted(x) : j <= k
           IN  i \in Noted(x) /\ \A k \in Noted(x) : i <= k
<1>1. Noted(x) \in SUBSET Nat
  <2>1. DOMAIN signals_[x] \in SUBSET Nat
    BY DEF ListInv
  <2> QED
    BY <2>1 DEF Noted
<1>2. \E j \in Noted(x) : \A k \in Noted(x) : j <= k
  BY <1>1, LeastOf
<1> QED
  BY <1>2

\* start_wait_op uses a notification of the smallest number that has one.
LEMMA WaitUses ==
    ASSUME ListInv, NEW x \in Sets, NEW o \in Ops, AsyncWait(x, o), Noted(x) # {}
    PROVE  \E i \in DOMAIN signals_[x] :
              LET r == signals_[x][i] IN
              /\ r \in Registrations /\ r.undelivered_ > 0
              /\ \A k \in DOMAIN signals_[x] : signals_[x][k].undelivered_ > 0 => i <= k
              /\ signals_' = [signals_ EXCEPT ![x] =
                    [@ EXCEPT ![i] = [r EXCEPT !.undelivered_ = r.undelivered_ - 1]]]
              /\ result' = [result EXCEPT ![o] = Result("done", NoSignal, r.signal_number_)]
              /\ UNCHANGED queue_
<1>1. PICK i : i = CHOOSE j \in Noted(x) : \A k \in Noted(x) : j <= k
  OBVIOUS
<1>2. i \in Noted(x) /\ \A k \in Noted(x) : i <= k
  BY <1>1, FirstNoted
<1>3. i \in DOMAIN signals_[x] /\ signals_[x][i].undelivered_ > 0
  BY <1>2 DEF Noted
<1>4. \A k \in DOMAIN signals_[x] : signals_[x][k].undelivered_ > 0 => i <= k
  BY <1>2 DEF Noted
<1>5. signals_[x][i] \in Registrations
  BY <1>3 DEF ListInv
<1>6. /\ signals_' = [signals_ EXCEPT ![x][i].undelivered_ = @ - 1]
      /\ result' = [result EXCEPT ![o] =
            Result("done", NoSignal, signals_[x][i].signal_number_)]
      /\ UNCHANGED queue_
  BY <1>1 DEF AsyncWait
<1>7. signals_' = [signals_ EXCEPT ![x] = [@ EXCEPT ![i] =
                     [signals_[x][i] EXCEPT !.undelivered_ = signals_[x][i].undelivered_ - 1]]]
  BY <1>3, <1>6 DEF ListInv
<1> QED
  BY <1>3, <1>4, <1>5, <1>6, <1>7

LEMMA WaitQueues ==
    ASSUME NEW x \in Sets, NEW o \in Ops, AsyncWait(x, o), Noted(x) = {}
    PROVE  /\ queue_' = [queue_ EXCEPT ![x] = Append(@, o)]
           /\ result' = [result EXCEPT ![o] = Queued]
           /\ UNCHANGED signals_
BY DEF AsyncWait

LEMMA ListWait ==
    ASSUME ListInv, NEW x \in Sets, NEW o \in Ops, AsyncWait(x, o)
    PROVE  ListInv'
<1>1. CASE Noted(x) # {}
  <2>1. PICK i \in DOMAIN signals_[x] :
              LET r == signals_[x][i] IN
              /\ r \in Registrations /\ r.undelivered_ > 0
              /\ \A k \in DOMAIN signals_[x] : signals_[x][k].undelivered_ > 0 => i <= k
              /\ signals_' = [signals_ EXCEPT ![x] =
                    [@ EXCEPT ![i] = [r EXCEPT !.undelivered_ = r.undelivered_ - 1]]]
              /\ result' = [result EXCEPT ![o] = Result("done", NoSignal, r.signal_number_)]
              /\ UNCHANGED queue_
    BY <1>1, WaitUses
  <2>2. PICK q \in Seq(Registrations) : q = signals_[x]
    BY DEF ListInv
  <2>3. PICK r \in Registrations : r = q[i]
    BY <2>1, <2>2
  <2>4. PICK l : l = [q EXCEPT ![i] = [r EXCEPT !.undelivered_ = r.undelivered_ - 1]]
    OBVIOUS
  <2>5. signals_' = [signals_ EXCEPT ![x] = l]
    BY <2>1, <2>2, <2>3, <2>4
  <2>6. PICK s : s = [r EXCEPT !.undelivered_ = r.undelivered_ - 1]
    OBVIOUS
  <2>7. s \in Registrations /\ s.signal_number_ = r.signal_number_
    <3>1. r.undelivered_ > 0
      BY <2>1, <2>2, <2>3
    <3>2. r.undelivered_ - 1 \in Nat
      BY <3>1 DEF Registrations
    <3> QED
      BY <2>6, <3>2, Counted
  <2>8. /\ l \in Seq(Registrations) /\ DOMAIN l = DOMAIN q
        /\ l[i] = s /\ \A j \in DOMAIN q : j # i => l[j] = q[j]
    BY <2>1, <2>2, <2>4, <2>6, <2>7
  <2>9. \A j \in DOMAIN q : l[j].signal_number_ = q[j].signal_number_
    BY <2>3, <2>7, <2>8
  <2>10. Ascending(l)
    BY <2>2, <2>8, <2>9 DEF ListInv, Ascending
  <2>11. queue_[x] = <<>>
    <3>1. signals_[x][i].undelivered_ > 0
      BY <2>1
    <3> QED
      BY <3>1 DEF ListInv
  <2>12. result' \in [Ops -> Results] /\ UNCHANGED queue_
    BY <2>1 DEF ListInv, Result, Results, Registrations
  <2> QED
    BY <2>5, <2>8, <2>10, <2>11, <2>12 DEF ListInv
<1>2. CASE Noted(x) = {}
  <2>1. /\ queue_' = [queue_ EXCEPT ![x] = Append(@, o)]
        /\ result' = [result EXCEPT ![o] = Queued]
        /\ UNCHANGED signals_
    BY <1>2, WaitQueues
  <2>2. \A i \in DOMAIN signals_[x] : signals_[x][i].undelivered_ = 0
    <3>1. \A i \in DOMAIN signals_[x] : signals_[x][i] \in Registrations
      BY DEF ListInv
    <3> QED
      BY <1>2, <3>1 DEF Noted, Registrations
  <2>3. queue_' \in [Sets -> Seq(Ops)]
    BY <2>1 DEF ListInv
  <2>4. result' \in [Ops -> Results]
    BY <2>1 DEF ListInv, Queued, Result, Results
  <2> QED
    BY <2>1, <2>2, <2>3, <2>4 DEF ListInv
<1> QED
  BY <1>1, <1>2

-----------------------------------------------------------------------------
(* A waiting operation is in one queue, once.                              *)

LEMMA NotQueued ==
    \A n, m : /\ Result("done", n, m) # Queued /\ Result("aborted", n, m) # Queued
              /\ Result("destroyed", n, m) # Queued /\ New # Queued
BY DEF Result, Queued, New

\* Whoever empties queues completes all operations in them.
LEMMA QueuesEmptied ==
    ASSUME ListInv, WaitsOnce, NEW X \in SUBSET Sets, NEW z, z # Queued,
           queue_' = [x \in Sets |-> IF x \in X THEN <<>> ELSE queue_[x]],
           result' = [o \in Ops |-> IF \E x \in X : o \in ToSet(queue_[x])
                                    THEN z ELSE result[o]]
    PROVE  WaitsOnce'
<1>1. ToSet(<<>>) = {} /\ DOMAIN <<>> = {}
  BY DEF ToSet
<1>2. \A o : \A x, y \in Sets : o \in ToSet(queue_[x]) /\ o \in ToSet(queue_[y]) => x = y
  BY DEF WaitsOnce, ToSet
<1>3. ASSUME NEW o \in Ops
      PROVE  result'[o] = Queued <=> \E x \in Sets : o \in ToSet(queue_'[x])
  <2>1. CASE \E x \in X : o \in ToSet(queue_[x])
    BY <1>1, <1>2, <2>1
  <2>2. CASE ~\E x \in X : o \in ToSet(queue_[x])
    <3>1. result'[o] = result[o]
      BY <2>2
    <3>2. \A x \in Sets : o \in ToSet(queue_'[x]) <=> o \in ToSet(queue_[x])
      BY <1>1, <2>2
    <3> QED
      BY <3>1, <3>2 DEF WaitsOnce
  <2> QED
    BY <2>1, <2>2
<1>4. ASSUME NEW x \in Sets, NEW y \in Sets,
             NEW i \in DOMAIN queue_'[x], NEW j \in DOMAIN queue_'[y],
             queue_'[x][i] = queue_'[y][j]
      PROVE  x = y /\ i = j
  <2>1. queue_'[x] = queue_[x] /\ queue_'[y] = queue_[y]
    BY <1>1, <1>4
  <2> QED
    BY <1>4, <2>1 DEF WaitsOnce
<1> QED
  BY <1>3, <1>4 DEF WaitsOnce

LEMMA WaitsAppend ==
    ASSUME ListInv, WaitsOnce, NEW x \in Sets, NEW o \in Ops, result[o] = New,
           queue_' = [queue_ EXCEPT ![x] = Append(@, o)],
           result' = [result EXCEPT ![o] = Queued]
    PROVE  WaitsOnce'
<1>1. PICK q \in Seq(Ops) : q = queue_[x]
  BY DEF ListInv
<1>2. PICK l : l = Append(q, o)
  OBVIOUS
<1>3. /\ DOMAIN q = 1..Len(q) /\ Len(q) \in Nat
      /\ DOMAIN l = 1..Len(q) + 1
      /\ l[Len(q) + 1] = o /\ \A i \in 1..Len(q) : l[i] = q[i]
  BY <1>2
<1>4. \A y \in Sets : \A i \in DOMAIN queue_[y] : queue_[y][i] # o
  <2>1. \A y \in Sets : o \notin ToSet(queue_[y])
    BY NotQueued DEF WaitsOnce
  <2> QED
    BY <2>1 DEF ToSet
<1>5. queue_'[x] = l /\ \A y \in Sets : y # x => queue_'[y] = queue_[y]
  BY <1>1, <1>2 DEF ListInv
<1>6. ToSet(l) = ToSet(q) \cup {o}
  BY <1>3 DEF ToSet
<1>7. ASSUME NEW p \in Ops
      PROVE  result'[p] = Queued <=> \E y \in Sets : p \in ToSet(queue_'[y])
  <2>1. CASE p = o
    BY <1>5, <1>6, <2>1 DEF ListInv
  <2>2. CASE p # o
    <3>1. result'[p] = result[p]
      BY <2>2 DEF ListInv
    <3>2. \A y \in Sets : p \in ToSet(queue_'[y]) <=> p \in ToSet(queue_[y])
      BY <1>1, <1>5, <1>6, <2>2
    <3> QED
      BY <3>1, <3>2 DEF WaitsOnce
  <2> QED
    BY <2>1, <2>2
<1>8. ASSUME NEW y \in Sets, NEW i \in DOMAIN queue_'[y]
      PROVE  \/ y = x /\ i = Len(q) + 1 /\ queue_'[y][i] = o
             \/ i \in DOMAIN queue_[y] /\ queue_'[y][i] = queue_[y][i]
  <2>1. CASE y = x
    <3>1. i \in 1..Len(q) + 1
      BY <1>3, <1>5, <2>1
    <3>2. i \in 1..Len(q) \/ i = Len(q) + 1
      BY <1>3, <3>1
    <3> QED
      BY <1>1, <1>3, <1>5, <2>1, <3>2
  <2>2. CASE y # x
    BY <1>5, <2>2
  <2> QED
    BY <2>1, <2>2
<1>9. ASSUME NEW y \in Sets, NEW z \in Sets,
             NEW i \in DOMAIN queue_'[y], NEW j \in DOMAIN queue_'[z],
             queue_'[y][i] = queue_'[z][j]
      PROVE  y = z /\ i = j
  BY <1>4, <1>8, <1>9 DEF WaitsOnce
<1> QED
  BY <1>7, <1>9 DEF WaitsOnce

LEMMA WaitsStep ==
    ASSUME ListInv, WaitsOnce, [Next]_vars
    PROVE  WaitsOnce'
<1>1. ASSUME UNCHANGED waits PROVE WaitsOnce'
  BY <1>1 DEF waits, WaitsOnce
<1>2. ASSUME NEW s \in Services, Shutdown(s) PROVE WaitsOnce'
  <2>1. PICK gone \in SUBSET Sets :
         /\ queue_' = [x \in Sets |-> IF x \in gone THEN <<>> ELSE queue_[x]]
         /\ result' = [o \in Ops |->
               IF \E x \in gone : o \in ToSet(queue_[x])
               THEN Result("destroyed", NoSignal, NoSignal) ELSE result[o]]
    BY <1>2 DEF Shutdown
  <2> QED
    BY <2>1, NotQueued, QueuesEmptied
<1>3. ASSUME NEW s \in Services, Deliver(s) PROVE WaitsOnce'
  <2>1. PICK n \in Signals :
      /\ queue_' = [x \in Sets |-> IF x \in Listeners(n) THEN <<>> ELSE queue_[x]]
      /\ result' = [o \in Ops |->
            IF \E x \in Listeners(n) : o \in ToSet(queue_[x])
            THEN Result("done", n, n) ELSE result[o]]
    BY <1>3 DEF Deliver
  <2>2. Listeners(n) \in SUBSET Sets
    BY DEF Listeners
  <2> QED
    BY <2>1, <2>2, NotQueued, QueuesEmptied
<1>4. ASSUME NEW x \in Sets, Abort(x) PROVE WaitsOnce'
  <2>1. queue_' = [y \in Sets |-> IF y \in {x} THEN <<>> ELSE queue_[y]]
    BY <1>4 DEF Abort, ListInv
  <2>2. result' = [o \in Ops |-> IF \E y \in {x} : o \in ToSet(queue_[y])
                       THEN Result("aborted", NoSignal, NoSignal) ELSE result[o]]
    BY <1>4 DEF Abort
  <2>3. {x} \in SUBSET Sets
    OBVIOUS
  <2> QED
    BY <2>1, <2>2, <2>3, NotQueued, QueuesEmptied
<1>5. ASSUME NEW x \in Sets, NEW o \in Ops, AsyncWait(x, o) PROVE WaitsOnce'
  <2>1. result[o] = New
    BY <1>5 DEF AsyncWait
  <2>2. CASE Noted(x) = {}
    BY <1>5, <2>1, <2>2, WaitQueues, WaitsAppend
  <2>3. CASE Noted(x) # {}
    <3>1. PICK n : /\ result' = [result EXCEPT ![o] = Result("done", NoSignal, n)]
                   /\ UNCHANGED queue_
      BY <1>5, <2>3, WaitUses
    <3> QED
      BY <2>1, <3>1, NotQueued DEF WaitsOnce, ListInv
  <2> QED
    BY <2>2, <2>3
<1>6. ASSUME NEW s \in Services,
             AddService(s) \/ BeginRead(s) \/ Read(s) \/ EndRead(s)
             \/ ForkPrepare(s) \/ ForkDone(s)
      PROVE  UNCHANGED waits
  BY <1>6 DEF AddService, BeginRead, Read, EndRead, ForkPrepare, ForkDone
<1>7. ASSUME NEW x \in Sets, NEW n \in Signals, Add(x, n) \/ RemoveSignal(x, n) \/ Raise(n)
      PROVE  UNCHANGED waits
  BY <1>7 DEF Add, RemoveSignal, Raise
<1>8. ASSUME NEW x \in Sets, Clear(x) \/ Cancel(x) \/ Destroy(x)
      PROVE  UNCHANGED waits \/ Abort(x)
  BY <1>8 DEF Clear, Cancel, Destroy
<1>9. ASSUME Fork \/ (\E n \in Signals : Raise(n)) \/ UNCHANGED vars PROVE UNCHANGED waits
  BY <1>9 DEF Fork, Raise, vars
<1> QED
  BY <1>1, <1>2, <1>3, <1>4, <1>5, <1>6, <1>7, <1>8, <1>9 DEF Next, ReadLoop

-----------------------------------------------------------------------------
(* The process handles the signals that are registered.                    *)

Registered(n) == {x \in Sets : n \in Numbers(x)}

CountInv ==
    \A n \in Signals :
        /\ IsFiniteSet(Registered(n))
        /\ registration_count_[n] = Cardinality(Registered(n))
        /\ disposition[n] = (IF Registered(n) = {} THEN "default" ELSE "asio")

CountType ==
    /\ registration_count_ \in [Signals -> Nat]
    /\ disposition \in [Signals -> {"asio", "default"}]

LEMMA NumbersAre ==
    ASSUME NEW x \in Sets
    PROVE  /\ Numbers(x) = {signals_[x][i].signal_number_ : i \in DOMAIN signals_[x]}
           /\ Numbers(x)' = {signals_'[x][i].signal_number_ : i \in DOMAIN signals_'[x]}
BY DEF Numbers, ToSet

LEMMA SameList ==
    ASSUME NEW x \in Sets, signals_'[x] = signals_[x]
    PROVE  Numbers(x)' = Numbers(x)
BY DEF Numbers

LEMMA SameNumbers ==
    ASSUME CountInv, CountType, UNCHANGED <<registration_count_, disposition>>,
           \A x \in Sets : Numbers(x)' = Numbers(x)
    PROVE  CountInv' /\ CountType'
<1>1. \A n : Registered(n)' = Registered(n)
  BY DEF Registered
<1> QED
  BY <1>1 DEF CountInv, CountType

LEMMA AddCounts ==
    ASSUME CountInv, CountType, ListInv, NEW x \in Sets, NEW n \in Signals, Add(x, n)
    PROVE  CountInv' /\ CountType'
<1>1. PICK q \in Seq(Registrations) : q = signals_[x]
  BY DEF ListInv
<1>2. PICK p : p = InsertionPoint(x, n)
  OBVIOUS
<1>3. PICK r : r = Registration(n, 0)
  OBVIOUS
<1>4. r \in Registrations /\ r.signal_number_ = n
  BY <1>3 DEF Registration, Registrations
<1>5. p \in 1..Len(q) + 1
  BY <1>1, <1>2, InsertionPointIs
<1>6. PICK l : l = InsertAt(q, p, r)
  OBVIOUS
<1>7. /\ DOMAIN l = 1..Len(q) + 1
      /\ \A j \in 1..p - 1 : l[j] = q[j]
      /\ l[p] = r
      /\ \A j \in p + 1..Len(q) + 1 : l[j] = q[j - 1]
  <2>1. Inserted(l, q, p, r)
    BY <1>4, <1>5, <1>6, InsertAtIs, Zenon
  <2> QED
    BY <2>1 DEF Inserted
<1>8. signals_' = [signals_ EXCEPT ![x] = l]
  BY <1>1, <1>2, <1>3, <1>6 DEF Add
<1>9. {l[j].signal_number_ : j \in DOMAIN l} = {q[j].signal_number_ : j \in DOMAIN q} \cup {n}
  <2>1. Len(q) \in Nat /\ DOMAIN q = 1..Len(q)
    OBVIOUS
  <2>2. ASSUME NEW j \in DOMAIN l
        PROVE  l[j] = r \/ \E i \in DOMAIN q : l[j] = q[i]
    <3>1. j \in 1..p - 1 \/ j = p \/ j \in p + 1..Len(q) + 1
      BY <1>5, <1>7, <2>1
    <3>2. CASE j \in 1..p - 1
      BY <1>5, <1>7, <2>1, <3>2
    <3>3. CASE j \in p + 1..Len(q) + 1
      <4>1. j - 1 \in DOMAIN q
        BY <1>5, <2>1, <3>3
      <4> QED
        BY <1>7, <3>3, <4>1
    <3> QED
      BY <1>7, <3>1, <3>2, <3>3
  <2>3. ASSUME NEW i \in DOMAIN q PROVE \E j \in DOMAIN l : l[j] = q[i]
    <3>1. CASE i < p
      <4>1. i \in 1..p - 1 /\ i \in 1..Len(q) + 1
        BY <1>5, <2>1, <3>1
      <4> QED
        BY <1>7, <4>1
    <3>2. CASE ~(i < p)
      <4>1. PICK j : j = i + 1
        OBVIOUS
      <4>2. j \in p + 1..Len(q) + 1 /\ j \in 1..Len(q) + 1 /\ j - 1 = i
        BY <1>5, <2>1, <3>2, <4>1
      <4>3. l[j] = q[j - 1]
        BY <1>7, <4>2
      <4> QED
        BY <1>7, <4>2, <4>3
    <3> QED
      BY <3>1, <3>2
  <2>4. p \in DOMAIN l /\ l[p] = r
    BY <1>5, <1>7
  <2> QED
    BY <1>4, <2>2, <2>3, <2>4
<1>10. Numbers(x)' = Numbers(x) \cup {n} /\ \A y \in Sets : y # x => Numbers(y)' = Numbers(y)
  <2>1. signals_'[x] = l /\ \A y \in Sets : y # x => signals_'[y] = signals_[y]
    BY <1>8 DEF ListInv
  <2>2. /\ Numbers(x)' = {l[j].signal_number_ : j \in DOMAIN l}
        /\ Numbers(x) = {q[j].signal_number_ : j \in DOMAIN q}
    BY <1>1, <2>1, NumbersAre
  <2>3. ASSUME NEW y \in Sets, y # x PROVE Numbers(y)' = Numbers(y)
    BY <2>1, <2>3, SameList
  <2> QED
    BY <1>9, <2>2, <2>3
<1>11. /\ Registered(n)' = Registered(n) \cup {x} /\ x \notin Registered(n)
       /\ \A m : m # n => Registered(m)' = Registered(m)
  BY <1>10 DEF Registered, Add
<1>12. /\ disposition' = [disposition EXCEPT ![n] =
                             IF registration_count_[n] = 0 THEN "asio" ELSE @]
       /\ registration_count_' = [registration_count_ EXCEPT ![n] = @ + 1]
  BY DEF Add
<1>13. PICK S : S = Registered(n)
  OBVIOUS
<1>14. IsFiniteSet(S) /\ registration_count_[n] = Cardinality(S) /\ x \notin S
       /\ disposition[n] = (IF S = {} THEN "default" ELSE "asio")
  BY <1>11, <1>13 DEF CountInv
<1>15. IsFiniteSet(S \cup {x}) /\ Cardinality(S \cup {x}) = Cardinality(S) + 1
  BY <1>14, FS_AddElement
<1>16. Cardinality(S) = 0 <=> S = {}
  BY <1>14, FS_EmptySet
<1>17. CountType'
  BY <1>12 DEF CountType
<1>18. ASSUME NEW m \in Signals
       PROVE  /\ IsFiniteSet(Registered(m)')
              /\ registration_count_'[m] = Cardinality(Registered(m)')
              /\ disposition'[m] = (IF Registered(m)' = {} THEN "default" ELSE "asio")
  <2>1. CASE m = n
    <3>1. Registered(m)' = S \cup {x}
      BY <1>11, <1>13, <2>1
    <3>2. registration_count_'[m] = Cardinality(S) + 1 /\ disposition'[m] = "asio"
      BY <1>12, <1>14, <1>16, <2>1 DEF CountType
    <3> QED
      BY <1>15, <3>1, <3>2
  <2>2. CASE m # n
    <3>1. Registered(m)' = Registered(m)
      BY <1>11, <2>2
    <3>2. registration_count_'[m] = registration_count_[m] /\ disposition'[m] = disposition[m]
      BY <1>12, <2>2 DEF CountType
    <3> QED
      BY <3>1, <3>2 DEF CountInv
  <2> QED
    BY <2>1, <2>2
<1> QED
  BY <1>17, <1>18 DEF CountInv

LEMMA ForgetCounts ==
    ASSUME CountInv, CountType, NEW x \in Sets, NEW N \in SUBSET Numbers(x), Forget(N),
           Numbers(x)' = Numbers(x) \ N,
           \A y \in Sets : y # x => Numbers(y)' = Numbers(y)
    PROVE  CountInv' /\ CountType'
<1>1. /\ registration_count_' = [n \in Signals |->
             registration_count_[n] - (IF n \in N THEN 1 ELSE 0)]
      /\ disposition' = [n \in Signals |->
             IF n \in N /\ registration_count_[n] = 1 THEN "default" ELSE disposition[n]]
  BY DEF Forget
<1>2. ASSUME NEW n \in Signals
      PROVE  /\ IsFiniteSet(Registered(n)')
             /\ registration_count_'[n] = Cardinality(Registered(n)')
             /\ registration_count_'[n] \in Nat
             /\ disposition'[n] = (IF Registered(n)' = {} THEN "default" ELSE "asio")
  <2>1. PICK S : S = Registered(n)
    OBVIOUS
  <2>2. /\ IsFiniteSet(S) /\ registration_count_[n] = Cardinality(S)
        /\ disposition[n] = (IF S = {} THEN "default" ELSE "asio")
    BY <2>1 DEF CountInv
  <2>3. CASE n \in N
    <3>1. x \in S /\ Registered(n)' = S \ {x}
      BY <2>1, <2>3 DEF Registered
    <3>2. /\ IsFiniteSet(S \ {x}) /\ Cardinality(S \ {x}) = Cardinality(S) - 1
      BY <2>2, <3>1, FS_RemoveElement
    <3>3. Cardinality(S \ {x}) \in Nat /\ (Cardinality(S \ {x}) = 0 <=> S \ {x} = {})
      BY <3>2, FS_CardinalityType, FS_EmptySet
    <3>4. Cardinality(S) \in Nat
      BY <2>2, FS_CardinalityType
    <3>5. /\ registration_count_'[n] = Cardinality(S) - 1
          /\ disposition'[n] = IF Cardinality(S) = 1 THEN "default" ELSE disposition[n]
      BY <1>1, <2>2, <2>3
    <3>6. Cardinality(S) = 1 <=> S \ {x} = {}
      BY <3>2, <3>3, <3>4
    <3>7. disposition[n] = "asio"
      BY <2>2, <3>1
    <3> QED
      BY <3>1, <3>2, <3>3, <3>5, <3>6, <3>7
  <2>4. CASE n \notin N
    <3>1. Registered(n)' = S
      BY <2>1, <2>4 DEF Registered
    <3>2. registration_count_'[n] = registration_count_[n] /\ disposition'[n] = disposition[n]
          /\ registration_count_[n] \in Nat
      BY <1>1, <2>4 DEF CountType
    <3> QED
      BY <2>2, <3>1, <3>2
  <2> QED
    BY <2>3, <2>4
<1>3. CountType'
  <2>1. registration_count_' \in [Signals -> Nat]
    BY <1>1, <1>2
  <2>2. disposition' \in [Signals -> {"asio", "default"}]
    BY <1>1 DEF CountType
  <2> QED
    BY <2>1, <2>2 DEF CountType
<1> QED
  BY <1>2, <1>3 DEF CountInv

LEMMA RemoveForgets ==
    ASSUME ListInv, NEW x \in Sets, NEW n \in Signals, RemoveSignal(x, n)
    PROVE  /\ {n} \in SUBSET Numbers(x) /\ Forget({n})
           /\ Numbers(x)' = Numbers(x) \ {n}
           /\ \A y \in Sets : y # x => Numbers(y)' = Numbers(y)
<1>1. PICK q \in Seq(Registrations) : q = signals_[x]
  BY DEF ListInv
<1>2. PICK i \in DOMAIN q : /\ signals_' = [signals_ EXCEPT ![x] = RemoveAt(q, i)]
                            /\ q[i].signal_number_ = n
  BY <1>1 DEF RemoveSignal
<1>3. PICK l : l = RemoveAt(q, i)
  OBVIOUS
<1>4. /\ DOMAIN l = 1..Len(q) - 1
      /\ \A j \in 1..i - 1 : l[j] = q[j]
      /\ \A j \in i..Len(q) - 1 : l[j] = q[j + 1]
  <2>1. /\ DOMAIN RemoveAt(q, i) = 1..Len(q) - 1
        /\ \A j \in 1..i - 1 : RemoveAt(q, i)[j] = q[j]
        /\ \A j \in i..Len(q) - 1 : RemoveAt(q, i)[j] = q[j + 1]
    BY RemoveAtIs
  <2> QED
    BY <2>1, <1>3, Zenon
<1>5. Len(q) \in Nat /\ DOMAIN q = 1..Len(q) /\ i \in 1..Len(q)
  BY <1>1
<1>6. \A j \in DOMAIN q : j # i => q[j].signal_number_ # n
  <2>1. \A j, k \in DOMAIN q : j < k => q[j].signal_number_ < q[k].signal_number_
    BY <1>1 DEF ListInv, Ascending
  <2>2. \A j \in DOMAIN q : q[j].signal_number_ \in Nat
    <3>1. \A j \in DOMAIN q : q[j] \in Registrations
      OBVIOUS
    <3> QED
      BY <3>1 DEF Registrations
  <2> QED
    BY <1>2, <1>5, <2>1, <2>2
<1>7. ASSUME NEW j \in DOMAIN l PROVE \E k \in DOMAIN q : k # i /\ l[j] = q[k]
  <2>1. j \in 1..Len(q) - 1
    BY <1>4, Zenon
  <2>2. CASE j < i
    <3>1. j \in 1..i - 1 /\ j \in DOMAIN q /\ j # i
      BY <1>5, <2>1, <2>2
    <3> QED
      BY <1>4, <3>1
  <2>3. CASE ~(j < i)
    <3>1. j \in i..Len(q) - 1 /\ j + 1 \in DOMAIN q /\ j + 1 # i
      BY <1>5, <2>1, <2>3
    <3> QED
      BY <1>4, <3>1
  <2> QED
    BY <2>2, <2>3
<1>8. ASSUME NEW k \in DOMAIN q, k # i PROVE \E j \in DOMAIN l : l[j] = q[k]
  <2>1. CASE k < i
    <3>1. k \in 1..i - 1 /\ k \in 1..Len(q) - 1
      BY <1>5, <2>1
    <3> QED
      BY <1>4, <3>1
  <2>2. CASE ~(k < i)
    <3>1. PICK j : j = k - 1
      OBVIOUS
    <3>2. j \in i..Len(q) - 1 /\ j \in 1..Len(q) - 1 /\ j + 1 = k
      BY <1>5, <1>8, <2>2, <3>1
    <3>3. l[j] = q[j + 1]
      BY <1>4, <3>2
    <3> QED
      BY <1>4, <3>2, <3>3
  <2> QED
    BY <2>1, <2>2
<1>9. {l[j].signal_number_ : j \in DOMAIN l} = {q[j].signal_number_ : j \in DOMAIN q} \ {n}
  <2> DEFINE L == {l[j].signal_number_ : j \in DOMAIN l}
             Q == {q[j].signal_number_ : j \in DOMAIN q}
  <2>1. ASSUME NEW m \in L PROVE m \in Q \ {n}
    <3>1. PICK j \in DOMAIN l : m = l[j].signal_number_
      OBVIOUS
    <3>2. PICK k \in DOMAIN q : k # i /\ l[j] = q[k]
      BY <1>7
    <3> QED
      BY <1>6, <3>1, <3>2
  <2>2. ASSUME NEW m \in Q \ {n} PROVE m \in L
    <3>1. PICK k \in DOMAIN q : m = q[k].signal_number_
      OBVIOUS
    <3>2. k # i
      BY <1>2, <3>1
    <3> QED
      BY <1>8, <3>1, <3>2
  <2> QED
    BY <2>1, <2>2
<1>10. Numbers(x)' = Numbers(x) \ {n} /\ \A y \in Sets : y # x => Numbers(y)' = Numbers(y)
  <2>1. signals_'[x] = l /\ \A y \in Sets : y # x => signals_'[y] = signals_[y]
    BY <1>2, <1>3 DEF ListInv
  <2>2. /\ Numbers(x)' = {l[j].signal_number_ : j \in DOMAIN l}
        /\ Numbers(x) = {q[j].signal_number_ : j \in DOMAIN q}
    BY <1>1, <2>1, NumbersAre
  <2>3. ASSUME NEW y \in Sets, y # x PROVE Numbers(y)' = Numbers(y)
    BY <2>1, <2>3, SameList
  <2> QED
    BY <1>9, <2>2, <2>3
<1>11. n \in Numbers(x)
  BY <1>1, <1>2, NumbersAre
<1> QED
  BY <1>10, <1>11 DEF RemoveSignal

LEMMA AllForgets ==
    ASSUME ListInv, NEW x \in Sets, RemoveAll(x)
    PROVE  /\ Numbers(x) \in SUBSET Numbers(x) /\ Forget(Numbers(x))
           /\ Numbers(x)' = Numbers(x) \ Numbers(x)
           /\ \A y \in Sets : y # x => Numbers(y)' = Numbers(y)
<1>1. signals_'[x] = <<>> /\ \A y \in Sets : y # x => signals_'[y] = signals_[y]
  BY DEF RemoveAll, ListInv
<1>2. Numbers(x)' = {}
  BY <1>1 DEF Numbers, ToSet
<1>3. ASSUME NEW y \in Sets, y # x PROVE Numbers(y)' = Numbers(y)
  BY <1>1, <1>3, SameList
<1> QED
  BY <1>2, <1>3 DEF RemoveAll

\* Deliveries and waits change what a registration has counted, not the list.
LEMMA NumbersStay ==
    ASSUME ListInv, \/ \E s \in Services : Deliver(s)
                    \/ \E x \in Sets, o \in Ops : AsyncWait(x, o)
    PROVE  \A x \in Sets : Numbers(x)' = Numbers(x)
<1>1. ASSUME NEW x \in Sets, DOMAIN signals_'[x] = DOMAIN signals_[x],
             \A i \in DOMAIN signals_[x] :
                signals_'[x][i].signal_number_ = signals_[x][i].signal_number_
      PROVE  Numbers(x)' = Numbers(x)
  <2>1. PICK p, q : p = signals_'[x] /\ q = signals_[x]
    OBVIOUS
  <2>2. {p[i].signal_number_ : i \in DOMAIN p} = {q[i].signal_number_ : i \in DOMAIN q}
    BY <1>1, <2>1
  <2>3. Numbers(x)' = {p[i].signal_number_ : i \in DOMAIN p}
    BY <2>1, NumbersAre
  <2>4. Numbers(x) = {q[i].signal_number_ : i \in DOMAIN q}
    BY <2>1, NumbersAre
  <2> QED
    BY <2>2, <2>3, <2>4, Zenon
<1>2. ASSUME NEW s \in Services, Deliver(s), NEW x \in Sets PROVE Numbers(x)' = Numbers(x)
  <2>1. PICK n : signals_' = [y \in Sets |-> IF y \in Listeners(n) THEN Notify(y, n)
                                              ELSE signals_[y]]
    BY <1>2 DEF Deliver
  <2>2. CASE x \in Listeners(n)
    <3>1. signals_'[x] = Notify(x, n)
      BY <2>1, <2>2
    <3> QED
      BY <1>1, <3>1, NotifyIs
  <2>3. CASE x \notin Listeners(n)
    <3>1. signals_'[x] = signals_[x]
      BY <2>1, <2>3
    <3> QED
      BY <1>1, <3>1
  <2> QED
    BY <2>2, <2>3
<1>3. ASSUME NEW y \in Sets, NEW o \in Ops, AsyncWait(y, o), NEW x \in Sets
      PROVE  Numbers(x)' = Numbers(x)
  <2>1. CASE Noted(y) = {}
    BY <1>3, <2>1, <1>1, WaitQueues
  <2>2. CASE Noted(y) # {}
    <3>1. PICK i \in DOMAIN signals_[y] :
             LET r == signals_[y][i] IN
             /\ r \in Registrations
             /\ signals_' = [signals_ EXCEPT ![y] =
                   [@ EXCEPT ![i] = [r EXCEPT !.undelivered_ = r.undelivered_ - 1]]]
      BY <1>3, <2>2, WaitUses
    <3>2. PICK q \in Seq(Registrations) : q = signals_[y]
      BY DEF ListInv
    <3>3. PICK l : l = [q EXCEPT ![i] = [q[i] EXCEPT !.undelivered_ = q[i].undelivered_ - 1]]
      OBVIOUS
    <3>4. DOMAIN l = DOMAIN q /\ \A j \in DOMAIN q : l[j].signal_number_ = q[j].signal_number_
      BY <3>1, <3>2, <3>3 DEF Registrations
    <3>5. signals_'[y] = l /\ \A z \in Sets : z # y => signals_'[z] = signals_[z]
      BY <3>1, <3>2, <3>3 DEF ListInv
    <3>6. CASE x = y
      BY <1>1, <3>2, <3>4, <3>5, <3>6
    <3>7. CASE x # y
      BY <1>1, <3>5, <3>7
    <3> QED
      BY <3>6, <3>7
  <2> QED
    BY <2>1, <2>2
<1> QED
  BY <1>2, <1>3

-----------------------------------------------------------------------------
(* The steps that leave the tables alone.                                  *)

LEMMA StepCases ==
    ASSUME [Next]_vars
    PROVE  \/ UNCHANGED <<sets, waits>>
           \/ \E s \in Services : Shutdown(s) \/ Deliver(s)
           \/ \E x \in Sets : \/ \E n \in Signals : Add(x, n) \/ RemoveSignal(x, n)
                              \/ Clear(x) \/ Cancel(x) \/ Destroy(x)
                              \/ \E o \in Ops : AsyncWait(x, o)
<1>1. ASSUME NEW s \in Services,
             \/ AddService(s) \/ BeginRead(s) \/ Read(s) \/ EndRead(s)
             \/ ForkPrepare(s) \/ ForkDone(s)
      PROVE  UNCHANGED <<sets, waits>>
  BY <1>1 DEF AddService, BeginRead, Read, EndRead, ForkPrepare, ForkDone
<1>2. ASSUME Fork \/ (\E n \in Signals : Raise(n)) \/ UNCHANGED vars
      PROVE  UNCHANGED <<sets, waits>>
  BY <1>2 DEF Fork, Raise, vars
<1> QED
  BY <1>1, <1>2 DEF Next, ReadLoop

LEMMA ListStep == ListInv /\ [Next]_vars => ListInv'
<1> SUFFICES ASSUME ListInv, [Next]_vars PROVE ListInv'
  OBVIOUS
<1>1. ASSUME UNCHANGED <<sets, waits>> PROVE ListInv'
  BY <1>1 DEF sets, waits, ListInv
<1> QED
  BY <1>1, StepCases, ListShutdown, ListDeliver, ListAdd, ListRemove, ListEnd, ListWait

LEMMA CountStep ==
    ASSUME ListInv, CountInv, CountType, [Next]_vars
    PROVE  CountInv' /\ CountType'
<1>1. ASSUME UNCHANGED sets PROVE CountInv' /\ CountType'
  <2>1. \A x \in Sets : Numbers(x)' = Numbers(x)
    BY <1>1, SameList DEF sets
  <2> QED
    BY <1>1, <2>1, SameNumbers DEF sets
<1>2. ASSUME NEW s \in Services, Deliver(s) PROVE CountInv' /\ CountType'
  BY <1>2, NumbersStay, SameNumbers DEF Deliver
<1>3. ASSUME NEW x \in Sets, NEW o \in Ops, AsyncWait(x, o) PROVE CountInv' /\ CountType'
  BY <1>3, NumbersStay, SameNumbers DEF AsyncWait
<1>4. ASSUME NEW x \in Sets, NEW n \in Signals, RemoveSignal(x, n)
      PROVE  CountInv' /\ CountType'
  <2>1. /\ {n} \in SUBSET Numbers(x) /\ Forget({n})
        /\ Numbers(x)' = Numbers(x) \ {n}
        /\ \A y \in Sets : y # x => Numbers(y)' = Numbers(y)
    BY <1>4, RemoveForgets
  <2> QED
    BY <2>1, ForgetCounts
<1>5. ASSUME NEW x \in Sets, RemoveAll(x) PROVE CountInv' /\ CountType'
  BY <1>5, AllForgets, ForgetCounts
<1>6. ASSUME NEW s \in Services, Shutdown(s) PROVE CountInv' /\ CountType'
  BY <1>1, <1>6 DEF Shutdown
<1>7. ASSUME NEW x \in Sets, Cancel(x) PROVE CountInv' /\ CountType'
  BY <1>1, <1>7 DEF Cancel
<1>8. ASSUME NEW x \in Sets, Clear(x) \/ Destroy(x) PROVE CountInv' /\ CountType'
  BY <1>5, <1>8 DEF Clear, Destroy
<1> QED
  BY <1>1, <1>2, <1>3, <1>4, <1>6, <1>7, <1>8, AddCounts, StepCases

-----------------------------------------------------------------------------
(* The types of the other variables.                                       *)

RestType ==
    /\ service_list_ \subseteq Services /\ watched \subseteq service_list_
    /\ Len(pipe) <= PipeSize
    /\ fork \in {"no", "prepare", "parent", "child"}
    /\ fork_prepared_ \in BOOLEAN

LEMMA RestStep ==
    ASSUME PipeInv, RestType, [Next]_vars
    PROVE  RestType'
<1> USE DEF RestType
<1>0. Len(<<>>) = 0 /\ PipeSize \in Nat
  OBVIOUS
<1>1. ASSUME UNCHANGED <<service_list_, pipe, watched, fork_state>> PROVE RestType'
  BY <1>1 DEF fork_state
<1>2. ASSUME NEW s \in Services, AddService(s) PROVE RestType'
  BY <1>0, <1>2 DEF AddService, Watch, fork_state
<1>3. ASSUME NEW s \in Services, Shutdown(s) PROVE RestType'
  BY <1>0, <1>3 DEF Shutdown, Unwatch, fork_state
<1>4. ASSUME NEW n \in Signals, Raise(n) PROVE RestType'
  <2>1. Len(pipe') <= PipeSize
    BY <1>4 DEF Raise, PipeInv, PipeType
  <2> QED
    BY <1>4, <2>1 DEF Raise, fork_state
<1>5. ASSUME NEW s \in Services, Read(s) PROVE RestType'
  <2>1. Len(pipe') <= PipeSize
    BY <1>5 DEF Read, PipeInv, PipeType
  <2> QED
    BY <1>5, <2>1 DEF Read, fork_state
<1>6. ASSUME NEW s \in Services, ForkPrepare(s) PROVE RestType'
  BY <1>6 DEF ForkPrepare, Unwatch
<1>7. ASSUME NEW s \in Services, ForkDone(s) PROVE RestType'
  <2>1. /\ s \in service_list_ /\ service_list_' = service_list_
        /\ watched' = watched \cup {s} /\ fork_prepared_' = FALSE
        /\ pipe' = pipe \/ pipe' = <<>>
        /\ fork' = fork \/ fork' = "no"
    BY <1>7 DEF ForkDone, Watch
  <2>2. Len(pipe') <= PipeSize
    BY <1>0, <2>1
  <2> QED
    BY <2>1, <2>2
<1>8. ASSUME Fork PROVE RestType'
  BY <1>8 DEF Fork
<1>9. ASSUME NEW s \in Services, BeginRead(s) \/ EndRead(s) \/ Deliver(s) PROVE RestType'
  BY <1>1, <1>9 DEF BeginRead, EndRead, Deliver
<1>10. ASSUME NEW x \in Sets, NEW n \in Signals, Add(x, n) \/ RemoveSignal(x, n)
      PROVE  RestType'
  BY <1>1, <1>10 DEF Add, RemoveSignal
<1>11. ASSUME NEW x \in Sets, Clear(x) \/ Cancel(x) \/ Destroy(x) PROVE RestType'
  BY <1>1, <1>11 DEF Clear, Cancel, Destroy
<1>12. ASSUME NEW x \in Sets, NEW o \in Ops, AsyncWait(x, o) PROVE RestType'
  BY <1>1, <1>12 DEF AsyncWait
<1>13. ASSUME UNCHANGED vars PROVE RestType'
  BY <1>1, <1>13 DEF vars
<1> QED
  BY <1>2, <1>3, <1>4, <1>5, <1>6, <1>7, <1>8, <1>9, <1>10, <1>11, <1>12, <1>13
     DEF Next, ReadLoop

-----------------------------------------------------------------------------
LEMMA TablesInit == Init => ListInv /\ WaitsOnce /\ CountInv /\ CountType /\ RestType
<1> SUFFICES ASSUME Init
             PROVE  ListInv /\ WaitsOnce /\ CountInv /\ CountType /\ RestType
  OBVIOUS
<1>1. DOMAIN <<>> = {} /\ ToSet(<<>>) = {} /\ Len(<<>>) = 0
  BY DEF ToSet
<1>2. ListInv
  BY <1>1 DEF Init, ListInv, Ascending, New, Result, Results
<1>3. WaitsOnce
  BY <1>1, NotQueued DEF Init, WaitsOnce
<1>4. CountInv
  <2>1. \A n : Registered(n) = {}
    BY <1>1 DEF Init, Registered, Numbers
  <2>2. IsFiniteSet({}) /\ Cardinality({}) = 0
    BY FS_EmptySet
  <2> QED
    BY <2>1, <2>2 DEF Init, CountInv
<1>5. CountType /\ RestType
  <2>1. CountType
    BY DEF Init, CountType
  <2>2. Len(pipe) <= PipeSize
    <3>1. pipe = <<>> /\ PipeSize \in Nat
      BY DEF Init
    <3> QED
      BY <1>1, <3>1
  <2> QED
    BY <2>1, <2>2 DEF Init, RestType
<1> QED
  BY <1>2, <1>3, <1>4, <1>5

(* The tables are sound for any services, sets, signals and capacity of    *)
(* the pipe: the process handles a signal while, and only while, some set  *)
(* has registered it, and a waiting operation is in one queue, once.       *)
THEOREM TablesAreSound == Spec => []TablesSound
<1>1. PipeInv /\ ListInv /\ CountInv /\ CountType /\ RestType => TypeOK /\ DispositionExact
  BY DEF PipeInv, PipeType, ListInv, CountInv, CountType, RestType, TypeOK,
         DispositionExact, Registered
<1> QED
  BY <1>1, PipeInit, PipeStep, TablesInit, ListStep, WaitsStep, CountStep, RestStep, PTL
     DEF Spec, TablesSound

(* No operation waits in a set that has counted a signal, whichever signal *)
(* of the set it is and however waits, deliveries and removals interleave. *)
THEOREM NoOperationWaitsBesideNotification == Spec => []NoWaitBesideNotification
<1>1. ListInv => NoWaitBesideNotification
  BY DEF ListInv, NoWaitBesideNotification, ToSet
<1> QED
  BY <1>1, TablesInit, ListStep, PTL DEF Spec

(* A wait that finds notifications takes one of the smallest number.       *)
THEOREM NotificationsInOrder == Spec => AscendingOrder
<1>1. ListInv /\ [Next]_vars =>
        [\A x \in Sets, o \in Ops : AsyncWait(x, o) =>
            \A r \in ToSet(signals_[x]) :
               r.undelivered_ > 0 => result'[o].due <= r.signal_number_]_vars
  <2> SUFFICES ASSUME ListInv, NEW x \in Sets, NEW o \in Ops, AsyncWait(x, o),
                      NEW k \in DOMAIN signals_[x], signals_[x][k].undelivered_ > 0
               PROVE  result'[o].due <= signals_[x][k].signal_number_
    BY DEF ToSet
  <2>1. Noted(x) # {}
    BY DEF Noted
  <2>2. PICK i \in DOMAIN signals_[x] :
           LET r == signals_[x][i] IN
           /\ r \in Registrations
           /\ \A j \in DOMAIN signals_[x] : signals_[x][j].undelivered_ > 0 => i <= j
           /\ result' = [result EXCEPT ![o] = Result("done", NoSignal, r.signal_number_)]
    BY <2>1, WaitUses
  <2>3. result'[o].due = signals_[x][i].signal_number_
    BY <2>2 DEF ListInv, Result
  <2>4. PICK q \in Seq(Registrations) : q = signals_[x]
    BY DEF ListInv
  <2>5. i <= k /\ i \in DOMAIN q /\ k \in DOMAIN q
    BY <2>2, <2>4
  <2>6. q[i].signal_number_ \in Nat /\ q[k].signal_number_ \in Nat
    <3>1. q[i] \in Registrations /\ q[k] \in Registrations
      BY <2>5
    <3> QED
      BY <3>1 DEF Registrations
  <2>7. i = k \/ q[i].signal_number_ < q[k].signal_number_
    <3>1. i = k \/ i < k
      BY <2>5
    <3>2. Ascending(q)
      BY <2>4 DEF ListInv
    <3> QED
      BY <2>5, <3>1, <3>2 DEF Ascending
  <2> QED
    BY <2>3, <2>4, <2>6, <2>7
<1> QED
  BY <1>1, TablesInit, ListStep, PTL DEF Spec, AscendingOrder
=============================================================================
