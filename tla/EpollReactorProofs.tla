--------------------------- MODULE EpollReactorProofs ---------------------------
(***************************************************************************)
(* Proofs about EpollReactor, for any files, descriptor states, operations *)
(* and length of the array of events: the descriptor states are sound, no  *)
(* edge is lost, and nobody is overtaken.                                  *)
(*                                                                         *)
(* EdgeNotLost is not inductive, for while start_op holds the mutex of a   *)
(* state after its attempt, its operation is in no queue yet.  CoreInv     *)
(* counts that operation as waiting too (Wanted, CoverInv), and says whose *)
(* a state is (PoolInv), what epoll points to (StatusInv), where           *)
(* operations are queued (QueueInv) and who holds a mutex (StartInv).      *)
(*                                                                         *)
(* Nobody is overtaken, because queues keep the order of the starts        *)
(* (OrderInv); between the turns of an event nobody holds its state        *)
(* (EventInv), and what internal operations wait on does not hang up.      *)
(***************************************************************************)
EXTENDS EpollReactor, FiniteSetTheorems, TLAPS

USE ReactorAssumption DEF ReactorAssumption, read_op, except_op

-----------------------------------------------------------------------------
(* The kind whose turn it is.                                              *)

LEMMA MaxIs ==
    ASSUME NEW n \in Nat, NEW S \in SUBSET (0..n), S # {}
    PROVE  Max(S) \in S /\ \A y \in S : Max(S) >= y
<1> DEFINE T == {n - x : x \in S}
<1>1. T \subseteq Nat /\ T # {}
  <2>1. \A x \in S : n - x \in Nat
      OBVIOUS
  <2>2. PICK x \in S : TRUE
      OBVIOUS
  <2>3. n - x \in T
      OBVIOUS
  <2> QED
      BY <2>1, <2>3
<1> HIDE DEF T
<1>2. PICK m \in T : \A k \in T : ~(<<k, m>> \in OpToRel(<, Nat))
    BY <1>1, WFMin, NatLessThanWellFounded, Zenon
<1>3. \A k \in T : ~(k < m)
    BY <1>1, <1>2, Zenon DEF OpToRel
<1>4. PICK x \in S : m = n - x
    BY DEF T
<1>5. ASSUME NEW y \in S PROVE x >= y
  <2>1. n - y \in T
      BY DEF T
  <2> QED
      BY <1>3, <1>4, <2>1
<1> QED
    BY <1>4, <1>5 DEF Max

LEMMA TurnIs ==
    ASSUME NEW F \in SUBSET Kinds, F # {}
    PROVE  Turn(F) \in F /\ \A k \in F : Turn(F) >= k
<1>1. F \in SUBSET (0..2) /\ 2 \in Nat
    OBVIOUS
<1> QED
    BY <1>1, MaxIs DEF Turn

LEMMA EventIs ==
    ASSUME NEW e \in Events
    PROVE  e # None /\ e.ptr \in P /\ e.flags \in SUBSET Kinds /\ e.file \in Files
    BY DEF Events, P

\* The sequence of the states in use when the reactor is shut down.
LEMMA StatesListed ==
    ASSUME NEW S \in SUBSET P
    PROVE  /\ SetToSeq(S) \in Seq(P) /\ IsInjective(SetToSeq(S))
           /\ ToSet(SetToSeq(S)) \subseteq S
<1>1. IsFiniteSet(P)
  <2>1. Len(States) \in Nat /\ DOMAIN States = 1..Len(States)
      OBVIOUS
  <2>2. States \in Surjection(1..Len(States), P)
      BY <2>1 DEF Surjection, P, ToSet
  <2>3. IsFiniteSet(1..Len(States))
    <3>1. 1 \in Int /\ Len(States) \in Int
        BY <2>1
    <3> QED
        BY <3>1, FS_Interval, Zenon
  <2> QED
      BY <2>2, <2>3, FS_Surjection
<1>2. IsFiniteSet(S)
    BY <1>1, FS_Subset
<1> DEFINE n == Cardinality(S)
<1>3. n \in Nat /\ \E f \in [1..n -> S] : IsInjective(f)
    BY <1>2, FS_CardinalityType DEF ExistsBijection, Bijection, Injection
<1>4. SetToSeq(S) \in [1..n -> S] /\ IsInjective(SetToSeq(S))
    BY <1>3 DEF SetToSeq
<1> HIDE DEF n
<1>5. SetToSeq(S) \in Seq(S)
    BY <1>3, <1>4
<1> QED
    BY <1>4, <1>5 DEF ToSet

-----------------------------------------------------------------------------
(* Sequences.                                                              *)

LEMMA Members ==
    ASSUME NEW s, NEW y
    PROVE  y \in ToSet(s) <=> \E i \in DOMAIN s : s[i] = y
    BY DEF ToSet

LEMMA AppendFacts ==
    ASSUME NEW T, NEW s \in Seq(T), NEW x \in T
    PROVE  /\ Append(s, x) \in Seq(T) /\ Append(s, x) # <<>>
           /\ \A y : y \in ToSet(Append(s, x)) <=> y \in ToSet(s) \/ y = x
           /\ IsInjective(s) /\ x \notin ToSet(s) => IsInjective(Append(s, x))
<1> DEFINE r == Append(s, x)
<1>1. /\ Len(s) \in Nat /\ DOMAIN s = 1..Len(s) /\ DOMAIN r = 1..(Len(s) + 1)
      /\ \A i \in 1..Len(s) : r[i] = s[i]
      /\ r[Len(s) + 1] = x /\ r \in Seq(T) /\ r # <<>>
    OBVIOUS
<1> HIDE DEF r
<1>2. \A i : i \in DOMAIN r <=> i \in DOMAIN s \/ i = Len(s) + 1
    BY <1>1
<1>3. \A y : y \in ToSet(r) <=> y \in ToSet(s) \/ y = x
    BY <1>1, <1>2, Zenon DEF ToSet
<1>4. ASSUME IsInjective(s), x \notin ToSet(s),
             NEW i \in DOMAIN r, NEW j \in DOMAIN r, r[i] = r[j]
      PROVE  i = j
  <2>1. \A k \in DOMAIN s : s[k] # x
      BY <1>4, Members
  <2>2. \A k, l \in DOMAIN s : s[k] = s[l] => k = l
      BY <1>4 DEF IsInjective
  <2> QED
      BY <1>1, <1>2, <1>4, <2>1, <2>2
<1> QED
    BY <1>1, <1>3, <1>4 DEF r, IsInjective

LEMMA ConcatFacts ==
    ASSUME NEW T, NEW s \in Seq(T), NEW u \in Seq(T)
    PROVE  /\ s \o u \in Seq(T)
           /\ \A y : y \in ToSet(s \o u) <=> y \in ToSet(s) \/ y \in ToSet(u)
           /\ IsInjective(s) /\ IsInjective(u) /\ ToSet(s) \cap ToSet(u) = {}
                 => IsInjective(s \o u)
<1> DEFINE r == s \o u
           n == Len(s)
<1>1. /\ n \in Nat /\ Len(u) \in Nat /\ r \in Seq(T)
      /\ DOMAIN s = 1..n /\ DOMAIN u = 1..Len(u) /\ DOMAIN r = 1..(n + Len(u))
      /\ \A i \in 1..(n + Len(u)) : r[i] = IF i <= n THEN s[i] ELSE u[i - n]
    OBVIOUS
<1> HIDE DEF r, n
<1>2. \A i \in DOMAIN r : \/ i \in DOMAIN s /\ r[i] = s[i]
                          \/ /\ i - n \in DOMAIN u /\ r[i] = u[i - n]
                             /\ i = (i - n) + n
    BY <1>1
<1>3. \A i \in DOMAIN s : i \in DOMAIN r /\ r[i] = s[i]
    BY <1>1
<1>4. ASSUME NEW i \in DOMAIN u PROVE i + n \in DOMAIN r /\ r[i + n] = u[i]
    BY <1>1
<1>5. ASSUME NEW y PROVE y \in ToSet(r) <=> y \in ToSet(s) \/ y \in ToSet(u)
  <2>1. ASSUME y \in ToSet(r) PROVE y \in ToSet(s) \/ y \in ToSet(u)
    <3>1. PICK i \in DOMAIN r : r[i] = y
        BY <2>1, Members
    <3> QED
        BY <1>2, <3>1, Members
  <2>2. ASSUME y \in ToSet(s) PROVE y \in ToSet(r)
    <3>1. PICK i \in DOMAIN s : s[i] = y
        BY <2>2, Members
    <3> QED
        BY <1>3, <3>1, Members
  <2>3. ASSUME y \in ToSet(u) PROVE y \in ToSet(r)
    <3>1. PICK i \in DOMAIN u : u[i] = y
        BY <2>3, Members
    <3> QED
        BY <1>4, <3>1, Members
  <2> QED
      BY <2>1, <2>2, <2>3
<1>6. ASSUME IsInjective(s), IsInjective(u), ToSet(s) \cap ToSet(u) = {},
             NEW i \in DOMAIN r, NEW j \in DOMAIN r, r[i] = r[j]
      PROVE  i = j
  <2>1. \A k \in DOMAIN s : s[k] \in ToSet(s)
      BY DEF ToSet
  <2>2. \A k \in DOMAIN u : u[k] \in ToSet(u)
      BY DEF ToSet
  <2>3. CASE i \in DOMAIN s /\ r[i] = s[i]
      BY <1>2, <1>6, <2>1, <2>2, <2>3, Zenon DEF IsInjective
  <2>4. CASE i - n \in DOMAIN u /\ r[i] = u[i - n]
    <3>1. CASE j \in DOMAIN s /\ r[j] = s[j]
        BY <1>6, <2>1, <2>2, <2>4, <3>1, Zenon
    <3>2. CASE j - n \in DOMAIN u /\ r[j] = u[j - n]
      <4>1. i - n = j - n
          BY <1>6, <2>4, <3>2, Zenon DEF IsInjective
      <4>2. i \in Int /\ j \in Int
          BY <1>1
      <4> QED
          BY <1>1, <4>1, <4>2
    <3> QED
        BY <1>2, <3>1, <3>2
  <2> QED
      BY <1>2, <2>3, <2>4
<1> QED
    BY <1>1, <1>5, <1>6 DEF r, IsInjective

LEMMA HeadFacts ==
    ASSUME NEW T, NEW s \in Seq(T), s # <<>>, IsInjective(s)
    PROVE  /\ Head(s) \in T /\ Head(s) \in ToSet(s)
           /\ Tail(s) \in Seq(T) /\ IsInjective(Tail(s))
           /\ \A y : y \in ToSet(Tail(s)) <=> y \in ToSet(s) /\ y # Head(s)
<1> DEFINE r == Tail(s)
<1>1. /\ Len(s) \in Nat \ {0} /\ DOMAIN s = 1..Len(s) /\ DOMAIN r = 1..(Len(s) - 1)
      /\ \A i \in 1..(Len(s) - 1) : r[i] = s[i + 1]
      /\ Head(s) = s[1] /\ Head(s) \in T /\ r \in Seq(T)
    OBVIOUS
<1> HIDE DEF r
<1>2. \A i \in DOMAIN r : i + 1 \in DOMAIN s /\ i + 1 # 1 /\ r[i] = s[i + 1]
    BY <1>1
<1>3. ASSUME NEW i \in DOMAIN s, i # 1 PROVE i - 1 \in DOMAIN r /\ r[i - 1] = s[i]
  <2>1. i - 1 \in 1..(Len(s) - 1) /\ (i - 1) + 1 = i
      BY <1>1, <1>3
  <2> QED
      BY <1>1, <2>1
<1>4. 1 \in DOMAIN s
    BY <1>1
<1>5. \A i, j \in DOMAIN s : s[i] = s[j] => i = j
    BY DEF IsInjective
<1>6. ASSUME NEW i \in DOMAIN r, NEW j \in DOMAIN r, r[i] = r[j] PROVE i = j
  <2>1. i + 1 = j + 1
      BY <1>2, <1>5, <1>6, Zenon
  <2> QED
      BY <1>1, <2>1
<1>7. ASSUME NEW y PROVE y \in ToSet(r) <=> y \in ToSet(s) /\ y # s[1]
  <2>1. ASSUME y \in ToSet(r) PROVE y \in ToSet(s) /\ y # s[1]
    <3>1. PICK i \in DOMAIN r : r[i] = y
        BY <2>1, Members
    <3> QED
        BY <1>2, <1>4, <1>5, <3>1, Members
  <2>2. ASSUME y \in ToSet(s), y # s[1] PROVE y \in ToSet(r)
    <3>1. PICK i \in DOMAIN s : s[i] = y
        BY <2>2, Members
    <3> QED
        BY <1>3, <2>2, <3>1, Members
  <2> QED
      BY <2>1, <2>2
<1>8. Head(s) \in ToSet(s)
    BY <1>1, <1>4 DEF ToSet
<1> QED
    BY <1>1, <1>6, <1>7, <1>8 DEF r, IsInjective

-----------------------------------------------------------------------------
(* The invariant.                                                          *)

Types ==
    /\ status \in [Files -> {"new", "open", "closing", "closed", "failed"}]
    /\ data \in [Files -> P \cup {None}] /\ registered \in [Files -> P \cup {None}]
    /\ ready \in [Files -> [Kinds -> 0..MaxReady]]
    /\ edge \subseteq Files /\ shared \subseteq Files /\ hung \subseteq Files
    /\ live_list_ \subseteq P /\ free_list_ \in Seq(P)
    /\ descriptor_ \in [P -> Files \cup {None}] /\ shutdown_ \in [P -> BOOLEAN]
    /\ op_queue_ \in [P -> [Kinds -> Seq(Ops)]]
    /\ mutex_ \in [P -> Ops \cup {None}]
    /\ \A e \in Collected : e \in Events /\ e.flags # {}
    /\ result \in [Ops -> Results]
    /\ target \in [Ops -> (Files \X Kinds) \cup {None}]

\* A state in use belongs to one I/O object; the free ones are listed once.
PoolInv ==
    /\ IsInjective(free_list_)
    /\ \A p \in P : p \in live_list_ => p \notin ToSet(free_list_)
    /\ \A p \in P : p \in live_list_ <=> Used(p)
    /\ \A p \in live_list_ : descriptor_[p] \in Files /\ data[descriptor_[p]] = p
    /\ \A f \in Files : data[f] \in live_list_ => descriptor_[data[f]] = f

\* What epoll points to.
StatusInv ==
    \A f \in Files :
        /\ status[f] = "new" => data[f] = None
        /\ status[f] = "open" => data[f] \in P
        /\ status[f] = "open" /\ data[f] \in live_list_ => registered[f] = data[f]
        /\ f \in edge => registered[f] # None

\* The state p is that of an I/O object that is open, operation o is one of its.
OpenFor(p, o, k) ==
    /\ p \in live_list_ /\ status[descriptor_[p]] = "open"
    /\ target[o] = <<descriptor_[p], k>>

QueueInv ==
    /\ \A p \in P : \A k \in Kinds :
          /\ IsInjective(op_queue_[p][k])
          /\ \A o \in ToSet(op_queue_[p][k]) : result[o] = "queued" /\ OpenFor(p, o, k)
    /\ \A o \in Ops : result[o] = "queued" =>
          \E p \in live_list_ : \E k \in Kinds : o \in ToSet(op_queue_[p][k])

\* The start of an operation that has been tried holds the mutex of its state.
StartInv ==
    /\ \A p \in P : mutex_[p] # None =>
          /\ result[mutex_[p]] = "starting"
          /\ \E k \in Kinds : OpenFor(p, mutex_[p], k)
    /\ \A o \in Ops : result[o] = "starting" => \E p \in live_list_ : mutex_[p] = o

\* An operation waits for p to be ready for k, or is about to.
Wanted(p, k) ==
    \/ op_queue_[p][k] # <<>>
    \/ mutex_[p] # None /\ target[mutex_[p]] = <<descriptor_[p], k>>

Covered(f, k) ==
    \/ f \in edge /\ registered[f] = data[f]
    \/ \E e \in Collected : e.ptr = data[f] /\ k \in e.flags

\* The report of what an operation waits for is not lost, and not lost either
\* while start_op is between its attempt and its push.
CoverInv ==
    \A f \in Files : \A k \in Kinds :
        k \in ReadyKinds(f) /\ data[f] \in P /\ Wanted(data[f], k) => Covered(f, k)

StateInv == Types /\ PoolInv /\ StatusInv
OpInv == QueueInv /\ StartInv
CoreInv == StateInv /\ OpInv /\ CoverInv

\* No start_op is under way on the state of the event in hand.
EventInv == event # None => mutex_[event.ptr] = None

\* What an internal operation waits on does not hang up.
HungInv ==
    /\ \A f \in hung : \A o \in Internal :
          result[o] \in Waiting => target[o] \notin {f} \X Kinds
    /\ \A f \in hung \cup shared : status[f] # "new"

\* Nobody in s has somebody behind him that A has ahead of him.
InTurn(s, A) == \A i, j \in DOMAIN s : i < j => s[j] \notin A[s[i]]

\* Operations are queued in the order of their starts, and the one that holds
\* the mutex is the last.
OrderInv ==
    /\ ahead \in [Ops -> SUBSET Ops]
    /\ \A x \in Ops : \A o \in ahead[x] : result[o] # "new"
    /\ \A p \in P : \A k \in Kinds :
          /\ InTurn(op_queue_[p][k], ahead)
          /\ mutex_[p] # None => \A x \in ToSet(op_queue_[p][k]) : mutex_[p] \notin ahead[x]

IInv == CoreInv /\ EventInv /\ HungInv /\ OrderInv

LEMMA NoneIsNothing == None \notin P /\ None \notin Files /\ None \notin Ops
    BY DEF P

\* Only an open file's state is wanted.
LEMMA WantedIsOpen ==
    ASSUME StateInv, OpInv, NEW p \in P, NEW k \in Kinds, Wanted(p, k)
    PROVE  /\ p \in live_list_ /\ Used(p) /\ descriptor_[p] \in Files
           /\ status[descriptor_[p]] = "open" /\ data[descriptor_[p]] = p
           /\ registered[descriptor_[p]] = p
           /\ \A f \in Files : data[f] = p => f = descriptor_[p]
<1>1. p \in live_list_ /\ status[descriptor_[p]] = "open"
  <2>1. CASE op_queue_[p][k] # <<>>
    <3>1. op_queue_[p][k] \in Seq(Ops)
        BY DEF StateInv, Types
    <3>2. op_queue_[p][k][1] \in ToSet(op_queue_[p][k])
        BY <2>1, <3>1 DEF ToSet
    <3> QED
        BY <3>2 DEF OpInv, QueueInv, OpenFor
  <2>2. CASE mutex_[p] # None
      BY <2>2 DEF OpInv, StartInv, OpenFor
  <2> QED
      BY <2>1, <2>2 DEF Wanted
<1> QED
    BY <1>1 DEF StateInv, PoolInv, StatusInv

LEMMA UnusedIsEmpty ==
    ASSUME StateInv, OpInv, NEW p \in P, p \notin live_list_
    PROVE  mutex_[p] = None /\ \A k \in Kinds : op_queue_[p][k] = <<>>
<1>1. mutex_[p] = None
    BY DEF OpInv, StartInv, OpenFor
<1> QED
    BY <1>1, WantedIsOpen DEF Wanted

-----------------------------------------------------------------------------
(* What the runs check follows.                                            *)

LEMMA InvStates == CoreInv => StatesSound
<1> SUFFICES ASSUME CoreInv PROVE StatesSound
    OBVIOUS
<1> USE DEF CoreInv, StateInv, OpInv
<1>1. ASSUME NEW p \in P
      PROVE  (mutex_[p] # None) = \E o \in Ops :
                result[o] = "starting" /\ data[target[o][1]] = p
  <2>1. ASSUME mutex_[p] # None
        PROVE  \E o \in Ops : result[o] = "starting" /\ data[target[o][1]] = p
    <3>1. mutex_[p] \in Ops /\ result[mutex_[p]] = "starting"
        BY <2>1 DEF Types, StartInv
    <3>2. p \in live_list_ /\ target[mutex_[p]][1] = descriptor_[p]
      <4>1. PICK k \in Kinds : OpenFor(p, mutex_[p], k)
          BY <2>1 DEF StartInv
      <4> QED
          BY <4>1 DEF OpenFor
    <3> QED
        BY <3>1, <3>2 DEF PoolInv
  <2>2. ASSUME NEW o \in Ops, result[o] = "starting", data[target[o][1]] = p
        PROVE  mutex_[p] # None
    <3>1. PICK q \in live_list_ : mutex_[q] = o
        BY <2>2 DEF StartInv
    <3>2. q \in P /\ o # None
        BY NoneIsNothing DEF Types
    <3>3. target[o][1] = descriptor_[q]
      <4>1. PICK k \in Kinds : OpenFor(q, mutex_[q], k)
          BY <3>1, <3>2 DEF StartInv
      <4> QED
          BY <3>1, <4>1 DEF OpenFor
    <3>4. q = p
        BY <2>2, <3>3 DEF PoolInv
    <3> QED
        BY <3>1, <3>2, <3>4
  <2> QED
      BY <2>1, <2>2
<1>2. TypeOK
  <2>1. ToSet(free_list_) \subseteq P
      BY DEF Types, ToSet
  <2> QED
      BY <1>1, <2>1 DEF Types, TypeOK
<1>3. PoolSound
  <2>1. live_list_ \cap ToSet(free_list_) = {}
      BY DEF PoolInv, Types
  <2>2. ASSUME NEW p \in live_list_
        PROVE  \E f \in Files :
                  data[f] = p /\ descriptor_[p] = f /\ \A g \in Files \ {f} : data[g] # p
    <3>1. descriptor_[p] \in Files
        BY DEF PoolInv
    <3>2. WITNESS descriptor_[p] \in Files
    <3> QED
        BY DEF PoolInv
  <2> QED
      BY <2>1, <2>2 DEF PoolInv, PoolSound
<1>4. OwnOps
  <2>1. ASSUME NEW p \in P, NEW k \in Kinds, NEW o \in ToSet(op_queue_[p][k])
        PROVE  /\ result[o] = "queued" /\ target[o][2] = k
               /\ p \in live_list_ /\ data[target[o][1]] = p
    <3>1. result[o] = "queued" /\ p \in live_list_ /\ target[o] = <<descriptor_[p], k>>
        BY DEF QueueInv, OpenFor
    <3> QED
        BY <3>1 DEF PoolInv
  <2> QED
      BY <2>1 DEF QueueInv, OwnOps
<1> QED
    BY <1>2, <1>3, <1>4 DEF StatesSound

LEMMA InvEdge == CoreInv => EdgeNotLost
<1> SUFFICES ASSUME CoreInv, NEW f \in Files, NEW k \in ReadyKinds(f),
                    data[f] # None, op_queue_[data[f]][k] # <<>>
             PROVE  Covered(f, k)
    BY DEF EdgeNotLost, Covered, Collected, ReadyKinds
<1>1. data[f] \in P /\ k \in Kinds
    BY DEF CoreInv, StateInv, Types, ReadyKinds
<1> QED
    BY <1>1 DEF CoreInv, CoverInv, Wanted

-----------------------------------------------------------------------------
(* The invariant of the operations when they stay, or when those of one    *)
(* state end.                                                              *)

\* States in use stay in use, of the same open files.
StillOpen(p) ==
    /\ p \in live_list_' /\ descriptor_'[p] = descriptor_[p]
    /\ status[descriptor_[p]] = "open" => status'[descriptor_[p]] = "open"

LEMMA OpsStay ==
    ASSUME StateInv, OpInv, UNCHANGED <<op_queue_, result, target, mutex_>>,
           \A p \in live_list_ : StillOpen(p)
    PROVE  OpInv'
<1>1. \A p \in P : \A o, k : OpenFor(p, o, k) => OpenFor(p, o, k)'
    BY DEF OpenFor, StillOpen, ops
<1>2. QueueInv'
  <2>1. ASSUME NEW p \in P, NEW k \in Kinds
        PROVE  /\ IsInjective(op_queue_'[p][k])
               /\ \A o \in ToSet(op_queue_'[p][k]) :
                     result'[o] = "queued" /\ OpenFor(p, o, k)'
      BY <1>1 DEF OpInv, QueueInv, ops
  <2>2. ASSUME NEW o \in Ops, result'[o] = "queued"
        PROVE  \E p \in live_list_' : \E k \in Kinds : o \in ToSet(op_queue_'[p][k])
      BY <2>2 DEF OpInv, QueueInv, ops, StillOpen
  <2> QED
      BY <2>1, <2>2 DEF QueueInv
<1>3. StartInv'
  <2>1. ASSUME NEW p \in P, mutex_'[p] # None
        PROVE  /\ result'[mutex_'[p]] = "starting"
               /\ \E k \in Kinds : OpenFor(p, mutex_[p], k)'
      BY <1>1, <2>1 DEF OpInv, StartInv, ops
  <2>2. ASSUME NEW o \in Ops, result'[o] = "starting"
        PROVE  \E p \in live_list_' : mutex_'[p] = o
      BY <2>2 DEF OpInv, StartInv, ops, StillOpen
  <2> QED
      BY <2>1, <2>2 DEF StartInv, OpenFor
<1> QED
    BY <1>2, <1>3 DEF OpInv

LEMMA QueuedAtIs ==
    ASSUME NEW p, NEW o
    PROVE  o \in QueuedAt(p) <=> \E k \in Kinds : o \in ToSet(op_queue_[p][k])
    BY DEF QueuedAt

LEMMA EmptyFacts == ToSet(<<>>) = {} /\ IsInjective(<<>>)
    BY DEF ToSet, IsInjective

LEMMA EndFacts ==
    ASSUME Types, NEW p \in P, NEW how, End(p, how)
    PROVE  /\ op_queue_' \in [P -> [Kinds -> Seq(Ops)]]
           /\ \A k \in Kinds : op_queue_'[p][k] = <<>>
           /\ \A q \in P : q # p => op_queue_'[q] = op_queue_[q]
           /\ \A o \in Ops : result'[o] = IF o \in QueuedAt(p) THEN how ELSE result[o]
           /\ how \in Results => result' \in [Ops -> Results]
           /\ \A o \in Ops : o \notin QueuedAt(p) => target'[o] = target[o]
           /\ target' \in [Ops -> (Files \X Kinds) \cup {None}]
<1>1. NoOps \in [Kinds -> Seq(Ops)] /\ \A k \in Kinds : NoOps[k] = <<>>
    BY DEF NoOps
<1>2. /\ op_queue_' = [op_queue_ EXCEPT ![p] = NoOps]
      /\ result' = [o \in Ops |-> IF o \in QueuedAt(p) THEN how ELSE result[o]]
      /\ target' = [o \in Ops |-> IF o \in QueuedAt(p) THEN None ELSE target[o]]
    BY DEF End, Forget
<1> QED
    BY <1>1, <1>2 DEF Types

\* Those that hold a mutex are in no queue.
LEMMA HoldersStay ==
    ASSUME Types, OpInv, NEW p \in P, NEW how, End(p, how), NEW q \in P, mutex_[q] # None
    PROVE  target'[mutex_[q]] = target[mutex_[q]]
<1>1. mutex_[q] \in Ops /\ result[mutex_[q]] = "starting"
    BY DEF Types, OpInv, StartInv
<1>2. mutex_[q] \notin QueuedAt(p)
    BY <1>1, QueuedAtIs DEF OpInv, QueueInv
<1> QED
    BY <1>1, <1>2, EndFacts

LEMMA EndOps ==
    ASSUME StateInv, OpInv, NEW p \in P, mutex_[p] = None, UNCHANGED mutex_,
           NEW how \in Results \ {"queued", "starting"}, End(p, how),
           \A q \in live_list_ : q # p => StillOpen(q)
    PROVE  OpInv'
<1>1. /\ \A k \in Kinds : op_queue_'[p][k] = <<>>
      /\ \A q \in P : q # p => op_queue_'[q] = op_queue_[q]
      /\ \A o \in Ops : result'[o] = IF o \in QueuedAt(p) THEN how ELSE result[o]
      /\ \A o \in Ops : o \notin QueuedAt(p) => target'[o] = target[o]
    BY EndFacts DEF StateInv
<1>2. \A q \in P : \A o \in Ops \ QueuedAt(p) : \A k :
         q # p /\ OpenFor(q, o, k) => OpenFor(q, o, k)'
    BY <1>1 DEF OpenFor, StillOpen
<1>3. /\ \A q \in P, k \in Kinds : ToSet(op_queue_[q][k]) \subseteq Ops
      /\ live_list_ \subseteq P
      /\ \A q \in P : mutex_[q] # None => mutex_[q] \in Ops
    BY DEF StateInv, Types, ToSet
<1>4. QueueInv'
  <2>1. ASSUME NEW q \in P, NEW k \in Kinds
        PROVE  /\ IsInjective(op_queue_'[q][k])
               /\ \A o \in ToSet(op_queue_'[q][k]) :
                     result'[o] = "queued" /\ OpenFor(q, o, k)'
    <3>1. CASE q = p
        BY <1>1, <3>1, EmptyFacts
    <3>2. CASE q # p
      <4>1. IsInjective(op_queue_'[q][k])
          BY <1>1, <3>2 DEF OpInv, QueueInv
      <4>2. ASSUME NEW o \in ToSet(op_queue_[q][k])
            PROVE  result'[o] = "queued" /\ OpenFor(q, o, k)'
        <5>1. o \in Ops /\ result[o] = "queued" /\ OpenFor(q, o, k)
            BY <1>3 DEF OpInv, QueueInv
        <5>2. o \notin QueuedAt(p)
          <6>1. ASSUME NEW l \in Kinds, o \in ToSet(op_queue_[p][l]) PROVE FALSE
            <7>1. OpenFor(p, o, l)
                BY <6>1 DEF OpInv, QueueInv
            <7>2. descriptor_[p] = descriptor_[q] /\ p \in live_list_ /\ q \in live_list_
                BY <5>1, <7>1 DEF OpenFor
            <7> QED
                BY <3>2, <7>2 DEF StateInv, PoolInv
          <6> QED
              BY <6>1, QueuedAtIs
        <5> QED
            BY <1>1, <1>2, <3>2, <5>1, <5>2
      <4> QED
          BY <1>1, <3>2, <4>1, <4>2
    <3> QED
        BY <3>1, <3>2
  <2>2. ASSUME NEW o \in Ops, result'[o] = "queued"
        PROVE  \E q \in live_list_' : \E k \in Kinds : o \in ToSet(op_queue_'[q][k])
    <3>1. o \notin QueuedAt(p) /\ result[o] = "queued"
        BY <1>1, <2>2
    <3>2. PICK q \in live_list_ : \E k \in Kinds : o \in ToSet(op_queue_[q][k])
        BY <3>1 DEF OpInv, QueueInv
    <3>3. q # p
        BY <3>1, <3>2, QueuedAtIs
    <3>4. q \in live_list_' /\ op_queue_'[q] = op_queue_[q]
        BY <1>1, <1>3, <3>3 DEF StillOpen
    <3> QED
        BY <3>2, <3>4
  <2> QED
      BY <2>1, <2>2 DEF QueueInv
<1>5. StartInv'
  <2>1. ASSUME NEW o \in Ops, result[o] = "starting" PROVE o \notin QueuedAt(p)
      BY <2>1, QueuedAtIs DEF OpInv, QueueInv
  <2>2. ASSUME NEW q \in P, mutex_'[q] # None
        PROVE  /\ result'[mutex_'[q]] = "starting"
               /\ \E k \in Kinds : OpenFor(q, mutex_[q], k)'
    <3>1. q # p /\ mutex_[q] \in Ops /\ result[mutex_[q]] = "starting"
        BY <1>3, <2>2 DEF OpInv, StartInv
    <3>2. PICK k \in Kinds : OpenFor(q, mutex_[q], k)
        BY <2>2 DEF OpInv, StartInv
    <3> QED
        BY <1>1, <1>2, <2>1, <3>1, <3>2
  <2>3. ASSUME NEW o \in Ops, result'[o] = "starting"
        PROVE  \E q \in live_list_' : mutex_'[q] = o
    <3>1. result[o] = "starting"
        BY <1>1, <2>3
    <3>2. PICK q \in live_list_ : mutex_[q] = o
        BY <3>1 DEF OpInv, StartInv
    <3>3. q # p
        BY <3>2, NoneIsNothing
    <3> QED
        BY <3>2, <3>3 DEF StillOpen
  <2> QED
      BY <2>2, <2>3 DEF StartInv, OpenFor
<1> QED
    BY <1>4, <1>5 DEF OpInv

\* An operation that was new or starting is pushed.
LEMMA PushOps ==
    ASSUME StateInv, OpInv, NEW p \in P, NEW k \in Kinds, NEW o \in Ops,
           result[o] \in {"new", "starting"}, Push(o, p, k), OpenFor(p, o, k)',
           \A q \in live_list_ : StillOpen(q),
           \A u \in Ops : u # o => target'[u] = target[u],
           \A q \in P : mutex_'[q] = IF mutex_[q] = o THEN None ELSE mutex_[q]
    PROVE  OpInv'
<1>1. /\ op_queue_'[p][k] = Append(op_queue_[p][k], o)
      /\ \A q \in P : \A l \in Kinds :
            q # p \/ l # k => op_queue_'[q][l] = op_queue_[q][l]
      /\ result'[o] = "queued" /\ \A u \in Ops : u # o => result'[u] = result[u]
    BY DEF Push, StateInv, Types
<1>2. /\ \A q \in P : \A l \in Kinds : /\ op_queue_[q][l] \in Seq(Ops)
                                      /\ ToSet(op_queue_[q][l]) \subseteq Ops
      /\ live_list_ \subseteq P
      /\ \A q \in P : mutex_[q] # None => mutex_[q] \in Ops
      /\ o # None
    BY NoneIsNothing DEF StateInv, Types, ToSet
<1>3. \A q \in P : \A l \in Kinds : o \notin ToSet(op_queue_[q][l])
    BY DEF OpInv, QueueInv
<1>4. ASSUME NEW q \in P, NEW u \in Ops, u # o, NEW l, OpenFor(q, u, l)
      PROVE  OpenFor(q, u, l)'
    BY <1>4 DEF OpenFor, StillOpen
<1>5. /\ \A y : y \in ToSet(op_queue_'[p][k]) <=> y \in ToSet(op_queue_[p][k]) \/ y = o
      /\ IsInjective(op_queue_'[p][k])
  <2>1. IsInjective(op_queue_[p][k]) /\ o \notin ToSet(op_queue_[p][k])
      BY <1>3 DEF OpInv, QueueInv
  <2> QED
      BY <1>1, <1>2, <2>1, AppendFacts
<1>6. QueueInv'
  <2>1. ASSUME NEW q \in P, NEW l \in Kinds
        PROVE  /\ IsInjective(op_queue_'[q][l])
               /\ \A u \in ToSet(op_queue_'[q][l]) :
                     result'[u] = "queued" /\ OpenFor(q, u, l)'
    <3>1. IsInjective(op_queue_[q][l])
        BY DEF OpInv, QueueInv
    <3>2. ASSUME NEW u \in ToSet(op_queue_[q][l])
          PROVE  result'[u] = "queued" /\ OpenFor(q, u, l)'
      <4>1. u \in Ops /\ u # o /\ result[u] = "queued" /\ OpenFor(q, u, l)
          BY <1>2, <1>3 DEF OpInv, QueueInv
      <4> QED
          BY <1>1, <1>4, <4>1
    <3>3. CASE q = p /\ l = k
      <4>1. result'[o] = "queued" /\ OpenFor(p, o, k)'
          BY <1>1
      <4> QED
          BY <1>5, <3>2, <3>3, <4>1
    <3>4. CASE ~(q = p /\ l = k)
      <4>1. op_queue_'[q][l] = op_queue_[q][l]
          BY <1>1, <3>4
      <4> QED
          BY <3>1, <3>2, <4>1
    <3> QED
        BY <3>3, <3>4
  <2>2. ASSUME NEW u \in Ops, result'[u] = "queued"
        PROVE  \E q \in live_list_' : \E l \in Kinds : u \in ToSet(op_queue_'[q][l])
    <3>1. CASE u = o
        BY <1>5, <3>1 DEF OpenFor
    <3>2. CASE u # o
      <4>1. result[u] = "queued"
          BY <1>1, <2>2, <3>2
      <4>2. PICK q \in live_list_ : \E l \in Kinds : u \in ToSet(op_queue_[q][l])
          BY <4>1 DEF OpInv, QueueInv
      <4>3. PICK l \in Kinds : u \in ToSet(op_queue_[q][l])
          BY <4>2
      <4>4. q \in P /\ q \in live_list_'
          BY <1>2 DEF StillOpen
      <4>5. u \in ToSet(op_queue_'[q][l])
        <5>1. CASE q = p /\ l = k
            BY <1>5, <4>3, <5>1
        <5>2. CASE ~(q = p /\ l = k)
            BY <1>1, <4>3, <4>4, <5>2
        <5> QED
            BY <5>1, <5>2
      <4> QED
          BY <4>4, <4>5
    <3> QED
        BY <3>1, <3>2
  <2> QED
      BY <2>1, <2>2 DEF QueueInv
<1>7. StartInv'
  <2>1. ASSUME NEW q \in P, mutex_'[q] # None
        PROVE  /\ result'[mutex_'[q]] = "starting"
               /\ \E l \in Kinds : OpenFor(q, mutex_[q], l)'
    <3>1. mutex_'[q] = mutex_[q] /\ mutex_[q] # o /\ mutex_[q] # None
        BY <2>1
    <3>2. mutex_[q] \in Ops /\ result[mutex_[q]] = "starting"
        BY <1>2, <3>1 DEF OpInv, StartInv
    <3>3. PICK l \in Kinds : OpenFor(q, mutex_[q], l)
        BY <3>1 DEF OpInv, StartInv
    <3>4. OpenFor(q, mutex_[q], l)'
      <4>1. target'[mutex_[q]] = target[mutex_[q]]
          BY <3>1, <3>2
      <4> QED
          BY <3>1, <3>3, <4>1 DEF OpenFor, StillOpen
    <3> QED
        BY <1>1, <3>1, <3>2, <3>4
  <2>2. ASSUME NEW u \in Ops, result'[u] = "starting"
        PROVE  \E q \in live_list_' : mutex_'[q] = u
    <3>1. u # o /\ result[u] = "starting"
        BY <1>1, <2>2
    <3>2. PICK q \in live_list_ : mutex_[q] = u
        BY <3>1 DEF OpInv, StartInv
    <3> QED
        BY <1>2, <3>1, <3>2 DEF StillOpen
  <2> QED
      BY <2>1, <2>2 DEF StartInv, OpenFor
<1> QED
    BY <1>6, <1>7 DEF OpInv

\* An operation that was new ends at once.
LEMMA RefuseOps ==
    ASSUME StateInv, OpInv, NEW o \in Ops, result[o] = "new",
           NEW how \in Results \ {"queued", "starting"},
           result' = [result EXCEPT ![o] = how],
           \A u \in Ops : u # o => target'[u] = target[u],
           UNCHANGED <<op_queue_, mutex_, live_list_, descriptor_, status>>
    PROVE  OpInv'
<1>1. result'[o] = how /\ \A u \in Ops : u # o => result'[u] = result[u]
    BY DEF StateInv, Types
<1>2. /\ \A q \in P : \A l \in Kinds : ToSet(op_queue_[q][l]) \subseteq Ops
      /\ \A q \in P : mutex_[q] # None => mutex_[q] \in Ops
    BY DEF StateInv, Types, ToSet
<1>3. /\ \A q \in P : \A l \in Kinds : o \notin ToSet(op_queue_[q][l])
      /\ \A q \in P : mutex_[q] # None => mutex_[q] # o
    BY DEF OpInv, QueueInv, StartInv
<1>4. QueueInv'
  <2>1. ASSUME NEW q \in P, NEW l \in Kinds, NEW u \in ToSet(op_queue_[q][l])
        PROVE  result'[u] = "queued" /\ OpenFor(q, u, l)'
    <3>1. u \in Ops /\ u # o /\ result[u] = "queued" /\ OpenFor(q, u, l)
        BY <1>2, <1>3 DEF OpInv, QueueInv
    <3> QED
        BY <1>1, <3>1 DEF OpenFor
  <2>2. \A u \in Ops : result'[u] = "queued" => result[u] = "queued"
      BY <1>1
  <2> QED
      BY <2>1, <2>2 DEF OpInv, QueueInv
<1>5. StartInv'
  <2>1. ASSUME NEW q \in P, mutex_'[q] # None
        PROVE  /\ result'[mutex_'[q]] = "starting"
               /\ \E l \in Kinds : OpenFor(q, mutex_[q], l)'
    <3>1. /\ mutex_[q] \in Ops /\ mutex_[q] # o /\ result[mutex_[q]] = "starting"
          /\ target'[mutex_[q]] = target[mutex_[q]]
        BY <1>2, <1>3, <2>1 DEF OpInv, StartInv
    <3>2. PICK l \in Kinds : OpenFor(q, mutex_[q], l)
        BY <2>1 DEF OpInv, StartInv
    <3>3. OpenFor(q, mutex_[q], l)'
        BY <3>1, <3>2 DEF OpenFor
    <3> QED
        BY <1>1, <3>1, <3>3
  <2>2. \A u \in Ops : result'[u] = "starting" => result[u] = "starting"
      BY <1>1
  <2> QED
      BY <2>1, <2>2 DEF OpInv, StartInv, OpenFor
<1> QED
    BY <1>4, <1>5 DEF OpInv

\* The attempt of start_op fails: it goes on to hold the mutex.
LEMMA HoldOps ==
    ASSUME StateInv, OpInv, NEW p \in P, NEW k \in Kinds, NEW o \in Ops,
           result[o] = "new", mutex_[p] = None, Hold(o, p), OpenFor(p, o, k)',
           result' = [result EXCEPT ![o] = "starting"],
           \A u \in Ops : u # o => target'[u] = target[u],
           UNCHANGED <<op_queue_, live_list_, descriptor_, status>>
    PROVE  OpInv'
<1>1. /\ result'[o] = "starting" /\ \A u \in Ops : u # o => result'[u] = result[u]
      /\ mutex_'[p] = o /\ \A q \in P : q # p => mutex_'[q] = mutex_[q]
    BY DEF StateInv, Types, Hold
<1>2. /\ \A q \in P : \A l \in Kinds : ToSet(op_queue_[q][l]) \subseteq Ops
      /\ \A q \in P : mutex_[q] # None => mutex_[q] \in Ops
      /\ live_list_ \subseteq P
    BY DEF StateInv, Types, ToSet
<1>3. /\ \A q \in P : \A l \in Kinds : o \notin ToSet(op_queue_[q][l])
      /\ \A q \in P : mutex_[q] # None => mutex_[q] # o
    BY DEF OpInv, QueueInv, StartInv
<1>4. QueueInv'
  <2>1. ASSUME NEW q \in P, NEW l \in Kinds, NEW u \in ToSet(op_queue_[q][l])
        PROVE  result'[u] = "queued" /\ OpenFor(q, u, l)'
    <3>1. u \in Ops /\ u # o /\ result[u] = "queued" /\ OpenFor(q, u, l)
        BY <1>2, <1>3 DEF OpInv, QueueInv
    <3> QED
        BY <1>1, <3>1 DEF OpenFor
  <2>2. \A u \in Ops : result'[u] = "queued" => result[u] = "queued"
      BY <1>1
  <2> QED
      BY <2>1, <2>2 DEF OpInv, QueueInv
<1>5. StartInv'
  <2>1. ASSUME NEW q \in P, mutex_'[q] # None
        PROVE  /\ result'[mutex_'[q]] = "starting"
               /\ \E l \in Kinds : OpenFor(q, mutex_[q], l)'
    <3>1. CASE q = p
      <4>1. OpenFor(q, mutex_[q], k)'
          BY <1>1, <3>1
      <4> QED
          BY <1>1, <3>1, <4>1
    <3>2. CASE q # p
      <4>1. /\ mutex_'[q] = mutex_[q] /\ mutex_[q] \in Ops /\ mutex_[q] # o
            /\ result[mutex_[q]] = "starting" /\ target'[mutex_[q]] = target[mutex_[q]]
          BY <1>1, <1>2, <1>3, <2>1, <3>2 DEF OpInv, StartInv
      <4>2. PICK l \in Kinds : OpenFor(q, mutex_[q], l)
          BY <1>1, <2>1, <3>2 DEF OpInv, StartInv
      <4>3. OpenFor(q, mutex_[q], l)'
          BY <4>1, <4>2 DEF OpenFor
      <4> QED
          BY <1>1, <4>1, <4>3
    <3> QED
        BY <3>1, <3>2
  <2>2. ASSUME NEW u \in Ops, result'[u] = "starting"
        PROVE  \E q \in live_list_' : mutex_'[q] = u
    <3>1. CASE u = o
        BY <1>1, <3>1 DEF OpenFor
    <3>2. CASE u # o
      <4>1. PICK q \in live_list_ : mutex_[q] = u
          BY <1>1, <2>2, <3>2 DEF OpInv, StartInv
      <4>2. q # p
          BY <4>1, NoneIsNothing
      <4> QED
          BY <1>1, <1>2, <4>1, <4>2
    <3> QED
        BY <3>1, <3>2
  <2> QED
      BY <2>1, <2>2 DEF StartInv, OpenFor
<1> QED
    BY <1>4, <1>5 DEF OpInv

-----------------------------------------------------------------------------
(* An event is dispatched.                                                 *)

LEMMA TakeFacts ==
    ASSUME Types, NEW f \in Files, NEW k \in Kinds, Take(f, k)
    PROVE  /\ ready' \in [Files -> [Kinds -> 0..MaxReady]] /\ hung' \subseteq hung
           /\ UNCHANGED <<registered, edge>>
           /\ \A g \in Files : ReadyKinds(g)' \subseteq ReadyKinds(g)
<1>1. UNCHANGED <<registered, edge>>
    BY DEF Take
<1>2. CASE ready[f][k] > 0 /\ ready' = [ready EXCEPT ![f][k] = @ - 1] /\ UNCHANGED hung
  <2>1. ready[f][k] - 1 \in 0..MaxReady
    <3>1. ready[f][k] \in 0..MaxReady
        BY DEF Types
    <3> QED
        BY <1>2, <3>1
  <2>2. \A g \in Files, l \in Kinds : ready'[g][l] > 0 => ready[g][l] > 0
      BY <1>2 DEF Types
  <2> QED
      BY <1>1, <1>2, <2>1, <2>2 DEF Types, ReadyKinds
<1>3. CASE f \in hung /\ hung' \in {hung, hung \ {f}} /\ UNCHANGED ready
    BY <1>1, <1>3 DEF Types, ReadyKinds
<1> QED
    BY <1>2, <1>3 DEF Take

\* A thread takes an event.
LEMMA TakeEventStep ==
    ASSUME CoreInv, NEW e \in events, TakeEvent(e)
    PROVE  CoreInv'
<1> USE DEF CoreInv, StateInv
<1>1. /\ event = None /\ event' = e /\ events' = events \ {e}
      /\ UNCHANGED <<objects, kernel, pool, op_queue_, result, target, mutex_>>
    BY DEF TakeEvent, ops
<1>2. e \in Events
    BY DEF Types, Collected
<1>3. Collected' = Collected
    BY <1>1, <1>2, EventIs DEF Collected
<1>4. UNCHANGED <<status, data, shared, registered, ready, hung, edge,
                  live_list_, free_list_, descriptor_, shutdown_>>
    BY <1>1 DEF objects, kernel, pool
<1>5. Types' /\ PoolInv' /\ StatusInv'
    BY <1>1, <1>3, <1>4 DEF Types, PoolInv, StatusInv, Used
<1>6. OpInv'
    BY <1>1, <1>4, OpsStay DEF StillOpen
<1>7. CoverInv'
    BY <1>1, <1>3, <1>4 DEF CoverInv, Wanted, Covered, ReadyKinds
<1> QED
    BY <1>5, <1>6, <1>7

\* The first operation of a queue completes.
LEMMA DoneOps ==
    ASSUME StateInv, OpInv, NEW p \in P, NEW k \in Kinds, op_queue_[p][k] # <<>>,
           op_queue_' = [op_queue_ EXCEPT ![p][k] = Tail(@)],
           result' = [result EXCEPT ![Head(op_queue_[p][k])] = "done"],
           UNCHANGED <<live_list_, descriptor_, status, target, mutex_>>
    PROVE  /\ OpInv'
           /\ op_queue_' \in [P -> [Kinds -> Seq(Ops)]]
           /\ result' \in [Ops -> Results]
           /\ \A q \in P : \A l \in Kinds : op_queue_'[q][l] # <<>> => op_queue_[q][l] # <<>>
<1> PICK s : s = op_queue_[p][k]
    OBVIOUS
<1>1. s \in Seq(Ops) /\ IsInjective(s) /\ s # <<>>
    BY DEF StateInv, Types, OpInv, QueueInv
<1> PICK o : o = Head(s)
    OBVIOUS
<1>2. /\ o \in Ops /\ o \in ToSet(s) /\ Tail(s) \in Seq(Ops) /\ IsInjective(Tail(s))
      /\ \A y : y \in ToSet(Tail(s)) <=> y \in ToSet(s) /\ y # o
    BY <1>1, HeadFacts
<1>3. /\ op_queue_'[p][k] = Tail(s)
      /\ \A q \in P : \A l \in Kinds :
            q # p \/ l # k => op_queue_'[q][l] = op_queue_[q][l]
      /\ op_queue_' \in [P -> [Kinds -> Seq(Ops)]]
  <2>1. [op_queue_[p] EXCEPT ![k] = Tail(s)] \in [Kinds -> Seq(Ops)]
      BY <1>2 DEF StateInv, Types
  <2>2. op_queue_' = [op_queue_ EXCEPT ![p] = [op_queue_[p] EXCEPT ![k] = Tail(s)]]
      BY DEF StateInv, Types
  <2> QED
      BY <2>1, <2>2 DEF StateInv, Types
<1>4. /\ result'[o] = "done" /\ \A u \in Ops : u # o => result'[u] = result[u]
      /\ result' \in [Ops -> Results]
    BY <1>2 DEF StateInv, Types, Results
<1>5. \A q, u, l : OpenFor(q, u, l)' <=> OpenFor(q, u, l)
    BY DEF OpenFor
<1>6. \A q \in P : \A l \in Kinds : ToSet(op_queue_[q][l]) \subseteq Ops
    BY DEF StateInv, Types, ToSet
<1>7. ASSUME NEW q \in P, NEW l \in Kinds, q # p \/ l # k PROVE o \notin ToSet(op_queue_[q][l])
  <2>1. ASSUME o \in ToSet(op_queue_[q][l]) PROVE FALSE
    <3>1. OpenFor(p, o, k) /\ OpenFor(q, o, l)
        BY <1>2, <2>1 DEF OpInv, QueueInv
    <3>2. l = k /\ p \in live_list_ /\ q \in live_list_ /\ descriptor_[p] = descriptor_[q]
        BY <3>1 DEF OpenFor
    <3> QED
        BY <1>7, <3>2 DEF StateInv, PoolInv
  <2> QED
      BY <2>1
<1>8. ASSUME NEW q \in P, NEW l \in Kinds
      PROVE  /\ IsInjective(op_queue_'[q][l])
             /\ \A u : u \in ToSet(op_queue_'[q][l]) <=> u \in ToSet(op_queue_[q][l]) /\ u # o
  <2>1. CASE q = p /\ l = k
      BY <1>2, <1>3, <2>1
  <2>2. CASE q # p \/ l # k
      BY <1>3, <1>7, <2>2 DEF OpInv, QueueInv
  <2> QED
      BY <2>1, <2>2
<1>9. QueueInv'
  <2>1. ASSUME NEW q \in P, NEW l \in Kinds, NEW u \in ToSet(op_queue_'[q][l])
        PROVE  result'[u] = "queued" /\ OpenFor(q, u, l)'
    <3>1. u \in ToSet(op_queue_[q][l]) /\ u # o
        BY <1>8, Zenon
    <3>2. u \in Ops /\ result[u] = "queued" /\ OpenFor(q, u, l)
        BY <1>6, <3>1, Zenon DEF OpInv, QueueInv
    <3> QED
        BY <1>4, <1>5, <3>1, <3>2, Zenon
  <2>2. ASSUME NEW u \in Ops, result'[u] = "queued"
        PROVE  \E q \in live_list_' : \E l \in Kinds : u \in ToSet(op_queue_'[q][l])
    <3>1. u # o /\ result[u] = "queued"
        BY <1>4, <2>2
    <3>2. PICK q \in live_list_ : \E l \in Kinds : u \in ToSet(op_queue_[q][l])
        BY <3>1 DEF OpInv, QueueInv
    <3>3. q \in P
        BY DEF StateInv, Types
    <3> QED
        BY <1>8, <3>1, <3>2, <3>3
  <2> QED
      BY <1>8, <2>1, <2>2 DEF QueueInv
<1>10. StartInv'
  <2>1. result[o] = "queued"
      BY <1>2 DEF OpInv, QueueInv
  <2>2. \A u \in Ops : result'[u] = "starting" <=> result[u] = "starting"
      BY <1>4, <2>1
  <2>3. \A q \in P : mutex_[q] # None => mutex_[q] \in Ops
      BY DEF StateInv, Types
  <2>4. ASSUME NEW q \in P, mutex_'[q] # None
        PROVE  /\ result'[mutex_'[q]] = "starting"
               /\ \E l \in Kinds : OpenFor(q, mutex_[q], l)'
      BY <1>5, <2>2, <2>3, <2>4 DEF OpInv, StartInv
  <2> QED
      BY <2>2, <2>4 DEF OpInv, StartInv, OpenFor
<1>11. \A q \in P : \A l \in Kinds : op_queue_'[q][l] # <<>> => op_queue_[q][l] # <<>>
    BY <1>1, <1>3
<1> QED
    BY <1>3, <1>4, <1>9, <1>10, <1>11 DEF OpInv

\* An attempt of run, on an event e in hand, at the kind k of a state p.
LEMMA HandleStep ==
    ASSUME CoreInv, EventInv, HungInv, HandleEvent
    PROVE  CoreInv'
<1> USE DEF CoreInv, StateInv
<1> PICK e : e = event
    OBVIOUS
<1> PICK p : p = e.ptr
    OBVIOUS
<1> PICK f : f = descriptor_[p]
    OBVIOUS
<1> PICK k : k = Turn(e.flags)
    OBVIOUS
<1>1. /\ e # None /\ e \in Collected /\ e \in Events /\ p \in P
      /\ e.flags \in SUBSET Kinds /\ k \in e.flags /\ k \in Kinds
      /\ mutex_[p] = None
  <2>1. e # None /\ e \in Collected
      BY DEF HandleEvent, Collected
  <2>2. e \in Events /\ e.flags # {}
      BY <2>1 DEF Types
  <2>3. p \in P /\ e.flags \in SUBSET Kinds
      BY <2>2, EventIs
  <2> QED
      BY <2>1, <2>2, <2>3, TurnIs DEF EventInv
<1> DEFINE NextKind == event' = IF e.flags = {k} THEN None ELSE [e EXCEPT !.flags = @ \ {k}]
<1>2. UNCHANGED <<objects, pool, target, mutex_, events>>
    BY DEF HandleEvent
<1>3. UNCHANGED <<status, data, shared, live_list_, free_list_, descriptor_, shutdown_>>
    BY <1>2 DEF objects, pool
<1>4. ASSUME op_queue_[p][k] # <<>>
      PROVE  /\ f \in Files /\ data[f] = p
             /\ \A g \in Files : data[g] = p => g = f
  <2>1. Wanted(p, k)
      BY <1>4 DEF Wanted
  <2> HIDE DEF CoreInv, StateInv
  <2>2. StateInv /\ OpInv
      BY DEF CoreInv
  <2>3. /\ descriptor_[p] \in Files /\ data[descriptor_[p]] = p
        /\ \A g \in Files : data[g] = p => g = descriptor_[p]
    <3>1. p \in P /\ k \in Kinds
        BY <1>1
    <3> QED
        BY <2>1, <2>2, <3>1, WantedIsOpen, Zenon
  <2> QED
      BY <2>3
<1>5. ASSUME NextKind
      PROVE  /\ \A x \in Collected' : x \in Events /\ x.flags # {}
             /\ \A x \in Collected : \A l \in x.flags : x # e \/ l # k =>
                   \E y \in Collected' : y.ptr = x.ptr /\ l \in y.flags
  <2>1. Collected = events \cup {e} /\ Collected' = events \cup ({event'} \ {None})
      BY <1>1, <1>2 DEF Collected
  <2>2. ASSUME e.flags # {k}
        PROVE  /\ event' \in Events /\ event' \in Collected'
               /\ event'.flags = e.flags \ {k} /\ event'.ptr = e.ptr /\ event'.flags # {}
    <3>1. event' = [e EXCEPT !.flags = @ \ {k}]
        BY <1>5, <2>2
    <3>2. event' \in Events /\ event'.flags = e.flags \ {k} /\ event'.ptr = e.ptr
        BY <1>1, <3>1 DEF Events
    <3>3. event'.flags # {}
        BY <1>1, <2>2, <3>2
    <3> QED
        BY <2>1, <3>2, <3>3, EventIs
  <2>3. ASSUME NEW x \in Collected' PROVE x \in Events /\ x.flags # {}
    <3>1. CASE x \in events
        BY <2>1, <3>1 DEF Types
    <3>2. CASE x = event' /\ x # None
        BY <1>5, <2>2, <3>2
    <3> QED
        BY <2>1, <3>1, <3>2
  <2>4. ASSUME NEW x \in Collected, NEW l \in x.flags, x # e \/ l # k
        PROVE  \E y \in Collected' : y.ptr = x.ptr /\ l \in y.flags
    <3>1. CASE x \in events
        BY <2>1, <3>1
    <3>2. CASE x = e
      <4>1. l # k /\ e.flags # {k}
          BY <2>4, <3>2
      <4> QED
          BY <2>2, <3>2, <4>1
    <3> QED
        BY <2>1, <3>1, <3>2
  <2> QED
      BY <2>3, <2>4
<1> HIDE DEF NextKind
<1>6. CASE /\ op_queue_[p][k] # <<>> /\ event' = event
           /\ IF Head(op_queue_[p][k]) \in Waits THEN UNCHANGED kernel ELSE Take(f, k)
           /\ op_queue_' = [op_queue_ EXCEPT ![p][k] = Tail(@)]
           /\ result' = [result EXCEPT ![Head(op_queue_[p][k])] = "done"]
  <2>1. /\ ready' \in [Files -> [Kinds -> 0..MaxReady]] /\ hung' \subseteq hung
        /\ UNCHANGED <<registered, edge>>
        /\ \A g \in Files : ReadyKinds(g)' \subseteq ReadyKinds(g)
      BY <1>1, <1>4, <1>6, TakeFacts DEF kernel, Types, ReadyKinds
  <2>2. /\ OpInv'
        /\ op_queue_' \in [P -> [Kinds -> Seq(Ops)]] /\ result' \in [Ops -> Results]
        /\ \A q \in P : \A l \in Kinds : op_queue_'[q][l] # <<>> => op_queue_[q][l] # <<>>
      BY <1>1, <1>2, <1>3, <1>6, DoneOps
  <2>3. Collected' = Collected
      BY <1>2, <1>6 DEF Collected
  <2>4. Types' /\ PoolInv' /\ StatusInv'
      BY <1>2, <1>3, <2>1, <2>2, <2>3 DEF Types, PoolInv, StatusInv, Used
  <2>5. ASSUME NEW g \in Files, NEW l \in Kinds,
               l \in ReadyKinds(g)', data[g] \in P, Wanted(data[g], l)'
        PROVE  Covered(g, l)'
    <3>1. l \in ReadyKinds(g) /\ Wanted(data[g], l)
        BY <1>2, <1>3, <2>1, <2>2, <2>5 DEF Wanted
    <3>2. Covered(g, l)
        BY <2>5, <3>1 DEF CoverInv
    <3> QED
        BY <1>3, <2>1, <2>3, <3>2 DEF Covered
  <2>6. CoverInv'
      BY <1>3, <2>5 DEF CoverInv, Wanted, Covered
  <2> QED
      BY <2>2, <2>4, <2>6
<1>7. ASSUME NextKind, UNCHANGED <<registered, edge, hung, op_queue_, result>>,
             ready' \in [Files -> [Kinds -> 0..MaxReady]],
             \A g \in Files : ReadyKinds(g)' \subseteq ReadyKinds(g),
             op_queue_[p][k] # <<>> => k \notin ReadyKinds(f)'
      PROVE  CoreInv'
  <2>1. Types' /\ PoolInv' /\ StatusInv'
      BY <1>2, <1>3, <1>5, <1>7 DEF Types, PoolInv, StatusInv, Used
  <2>2. OpInv'
      BY <1>2, <1>3, <1>7, OpsStay DEF StillOpen
  <2>3. ASSUME NEW g \in Files, NEW l \in Kinds,
               l \in ReadyKinds(g)', data[g] \in P, Wanted(data[g], l)
        PROVE  Covered(g, l)'
    <3>1. Covered(g, l)
        BY <1>7, <2>3 DEF CoverInv
    <3>2. CASE g \in edge /\ registered[g] = data[g]
        BY <1>3, <1>7, <3>2 DEF Covered
    <3>3. ASSUME NEW x \in Collected, x.ptr = data[g], l \in x.flags PROVE Covered(g, l)'
      <4>1. x # e \/ l # k
        <5>1. ASSUME x = e, l = k PROVE FALSE
          <6>1. op_queue_[p][k] # <<>>
              BY <1>1, <2>3, <3>3, <5>1 DEF Wanted
          <6>2. g = f
              BY <1>4, <3>3, <5>1, <6>1
          <6> QED
              BY <1>7, <2>3, <5>1, <6>1, <6>2
        <5> QED
            BY <5>1
      <4> QED
          BY <1>3, <1>5, <1>7, <3>3, <4>1 DEF Covered
    <3> QED
        BY <3>1, <3>2, <3>3 DEF Covered
  <2>4. CoverInv'
      BY <1>2, <1>3, <1>7, <2>3 DEF CoverInv, Wanted, Covered
  <2> QED
      BY <2>1, <2>2, <2>4
<1>8. CASE /\ op_queue_[p][k] # <<>> => k \notin ReadyKinds(f)
           /\ NextKind /\ UNCHANGED <<kernel, op_queue_, result>>
  <2>1. /\ UNCHANGED <<registered, edge, hung, ready, op_queue_, result>>
        /\ ready \in [Files -> [Kinds -> 0..MaxReady]]
        /\ \A g : ReadyKinds(g)' = ReadyKinds(g)
      BY <1>8 DEF kernel, ReadyKinds, Types
  <2> QED
      BY <1>7, <1>8, <2>1
<1>9. CASE /\ op_queue_[p][k] # <<>> /\ Head(op_queue_[p][k]) \in Internal /\ NextKind
           /\ ready' = [ready EXCEPT ![f][k] = 0]
           /\ UNCHANGED <<registered, hung, edge, op_queue_, result>>
  <2>1. f \in Files /\ 0 \in 0..MaxReady
      BY <1>4, <1>9
  <2>2. /\ ready' \in [Files -> [Kinds -> 0..MaxReady]] /\ ready'[f][k] = 0
        /\ \A g \in Files, l \in Kinds : ready'[g][l] > 0 => ready[g][l] > 0
      BY <1>1, <1>9, <2>1 DEF Types
  <2>3. f \notin hung
    <3>1. op_queue_[p][k] \in Seq(Ops)
        BY <1>1 DEF Types
    <3>2. Head(op_queue_[p][k]) \in ToSet(op_queue_[p][k])
      <4>1. Head(op_queue_[p][k]) = op_queue_[p][k][1] /\ 1 \in DOMAIN op_queue_[p][k]
          BY <1>9, <3>1
      <4> QED
          BY <4>1 DEF ToSet
    <3>3. PICK o : o = Head(op_queue_[p][k])
        OBVIOUS
    <3>4. OpenFor(p, o, k)
        BY <1>1, <3>2, <3>3, Zenon DEF OpInv, QueueInv
    <3>5. target[o] \in {f} \X Kinds
        BY <1>1, <3>4 DEF OpenFor
    <3>6. result[o] \in Waiting
        BY <1>1, <3>2, <3>3 DEF OpInv, QueueInv, Waiting
    <3> QED
        BY <1>9, <3>3, <3>5, <3>6, Zenon DEF HungInv
  <2>4. /\ \A g \in Files : ReadyKinds(g)' \subseteq ReadyKinds(g)
        /\ k \notin ReadyKinds(f)'
      BY <1>9, <2>1, <2>2, <2>3 DEF ReadyKinds
  <2> QED
      BY <1>7, <1>9, <2>2, <2>4
<1> QED
    BY <1>6, <1>8, <1>9 DEF HandleEvent, NextKind

-----------------------------------------------------------------------------
(* The kernel's and the program's steps beside the reactor.                *)

\* Files are ready for more, and epoll is told.
LEMMA NotifyStep ==
    ASSUME CoreInv, NEW f \in Files, Notify(f),
           ready' \in [Files -> [Kinds -> 0..MaxReady]], hung' \subseteq Files,
           \A g \in Files : g # f => ReadyKinds(g)' = ReadyKinds(g),
           UNCHANGED <<objects, registered, pool, op_queue_, result, target, mutex_, events, event>>
    PROVE  CoreInv'
<1> USE DEF CoreInv, StateInv
<1>1. /\ edge' = IF registered[f] = None THEN edge ELSE edge \cup {f}
      /\ UNCHANGED <<status, data, shared, live_list_, free_list_, descriptor_, shutdown_>>
    BY DEF Notify, objects, pool
<1>2. Collected' = Collected
    BY DEF Collected
<1>3. Types' /\ PoolInv' /\ StatusInv'
  <2>1. Types'
      BY <1>1, <1>2 DEF Types
  <2>2. PoolInv'
      BY <1>1 DEF PoolInv, Used
  <2>3. StatusInv'
      BY <1>1 DEF StatusInv
  <2> QED
      BY <2>1, <2>2, <2>3
<1>4. OpInv'
    BY <1>1, OpsStay DEF StillOpen
<1>5. ASSUME NEW g \in Files, NEW l \in Kinds,
             l \in ReadyKinds(g)', data[g] \in P, Wanted(data[g], l)
      PROVE  Covered(g, l)'
  <2>1. CASE g = f
    <3>1. registered[f] = data[f] /\ registered[f] # None
      <4>1. /\ registered[descriptor_[data[f]]] = data[f] /\ data[f] \in P
            /\ \A h \in Files : data[h] = data[f] => h = descriptor_[data[f]]
          BY <1>5, <2>1, WantedIsOpen, Zenon
      <4>2. f = descriptor_[data[f]]
          BY <4>1, Zenon
      <4> QED
          BY <4>1, <4>2, NoneIsNothing
    <3> QED
        BY <1>1, <2>1, <3>1 DEF Covered
  <2>2. CASE g # f
    <3>1. l \in ReadyKinds(g)
        BY <1>5, <2>2, Zenon
    <3>2. Covered(g, l)
        BY <1>5, <3>1 DEF CoverInv
    <3> QED
        BY <1>1, <1>2, <3>2 DEF Covered
  <2> QED
      BY <2>1, <2>2
<1>6. CoverInv'
    BY <1>1, <1>5 DEF CoverInv, Wanted, Covered
<1> QED
    BY <1>3, <1>4, <1>6

LEMMA ArriveStep ==
    ASSUME CoreInv, NEW f \in Files, NEW k \in Kinds, Arrive(f, k)
    PROVE  CoreInv'
<1> USE DEF CoreInv, StateInv
<1>1. /\ ready' = [ready EXCEPT ![f][k] = @ + 1] /\ ready[f][k] < MaxReady /\ UNCHANGED hung
      /\ Notify(f)
      /\ UNCHANGED <<objects, registered, pool, op_queue_, result, target, mutex_, events, event>>
    BY DEF Arrive, ops
<1>2. ready[f][k] + 1 \in 0..MaxReady
  <2>1. ready \in [Files -> [Kinds -> 0..MaxReady]]
      BY Zenon DEF Types
  <2>2. ready[f][k] \in 0..MaxReady
      BY <2>1
  <2> QED
      BY <1>1, <2>2
<1>3. ready' \in [Files -> [Kinds -> 0..MaxReady]] /\ hung' \subseteq Files
    BY <1>1, <1>2 DEF Types
<1>4. \A g \in Files : g # f => ReadyKinds(g)' = ReadyKinds(g)
    BY <1>1 DEF ReadyKinds, Types
<1> QED
    BY <1>1, <1>3, <1>4, NotifyStep

LEMMA HangUpStep ==
    ASSUME CoreInv, NEW f \in Files, HangUp(f)
    PROVE  CoreInv'
<1> USE DEF CoreInv, StateInv
<1>1. /\ UNCHANGED ready /\ hung' = hung \cup {f} /\ Notify(f)
      /\ UNCHANGED <<objects, registered, pool, op_queue_, result, target, mutex_, events, event>>
    BY DEF HangUp, ops
<1>2. ready' \in [Files -> [Kinds -> 0..MaxReady]] /\ hung' \subseteq Files
    BY <1>1 DEF Types
<1>3. \A g \in Files : g # f => ReadyKinds(g)' = ReadyKinds(g)
    BY <1>1 DEF ReadyKinds
<1> QED
    BY <1>1, <1>2, <1>3, NotifyStep

LEMMA ConsumeStep ==
    ASSUME CoreInv, NEW f \in Files, NEW k \in Kinds, Consume(f, k)
    PROVE  CoreInv'
<1> USE DEF CoreInv, StateInv
<1>1. /\ Take(f, k)
      /\ UNCHANGED <<status, data, shared, mutex_, events, event>>
      /\ UNCHANGED <<live_list_, free_list_, descriptor_, shutdown_>>
      /\ UNCHANGED <<op_queue_, result, target>>
    BY DEF Consume, objects, pool, ops
<1>2. /\ ready' \in [Files -> [Kinds -> 0..MaxReady]] /\ hung' \subseteq hung
      /\ UNCHANGED <<registered, edge>>
      /\ \A g \in Files : ReadyKinds(g)' \subseteq ReadyKinds(g)
    BY <1>1, TakeFacts
<1>3. Collected' = Collected
    BY <1>1 DEF Collected
<1>4. Types' /\ PoolInv' /\ StatusInv'
    BY <1>1, <1>2, <1>3 DEF Types, PoolInv, StatusInv, Used
<1>5. OpInv'
    BY <1>1, OpsStay DEF StillOpen
<1>6. CoverInv'
    BY <1>1, <1>2, <1>3 DEF CoverInv, Wanted, Covered
<1> QED
    BY <1>4, <1>5, <1>6

\* epoll_wait moves reports from epoll's list to the array.
LEMMA WaitStep ==
    ASSUME CoreInv, NEW F \in SUBSET Files, EpollWait(F)
    PROVE  CoreInv'
<1> USE DEF CoreInv, StateInv
<1> DEFINE R == {f \in edge : ReadyKinds(f) # {}}
<1>1. /\ F \subseteq R /\ events' = {Event(f) : f \in F} /\ edge' = R \ F /\ events = {} /\ event = None
      /\ UNCHANGED <<status, data, shared, registered, ready, hung, mutex_, event>>
      /\ UNCHANGED <<live_list_, free_list_, descriptor_, shutdown_>>
      /\ UNCHANGED <<op_queue_, result, target>>
    BY DEF EpollWait, Reported, objects, pool, ops
<1>2. ASSUME NEW e \in events' PROVE e \in Events /\ e.flags # {}
  <2>1. PICK f \in F : e = Event(f)
      BY <1>1
  <2>2. registered[f] \in P /\ f \in Files
      BY <1>1 DEF StatusInv, Types
  <2> QED
      BY <1>1, <2>1, <2>2 DEF Event, Events, ReadyKinds, P
<1>3. edge' \subseteq edge /\ Collected' = events' /\ Collected = {}
    BY <1>1 DEF Collected
<1>4. Types'
    BY <1>1, <1>2, <1>3 DEF Types
<1>5. PoolInv' /\ StatusInv'
    BY <1>1, <1>3 DEF PoolInv, StatusInv, Used
<1>6. OpInv'
    BY <1>1, OpsStay DEF StillOpen, ops
<1>7. ASSUME NEW g \in Files, NEW l \in Kinds,
             l \in ReadyKinds(g), data[g] \in P, Wanted(data[g], l)
      PROVE  Covered(g, l)'
  <2>1. g \in R /\ registered[g] = data[g]
    <3>1. Covered(g, l)
        BY <1>7 DEF CoverInv
    <3>2. l \in ReadyKinds(g)
        BY <1>7 DEF ReadyKinds
    <3> QED
        BY <1>1, <3>1, <3>2 DEF Covered, Collected, ReadyKinds
  <2>2. CASE g \in F
    <3>1. Event(g) \in events' /\ Event(g).ptr = data[g] /\ l \in Event(g).flags
        BY <1>1, <1>7, <2>1, <2>2 DEF Event, ReadyKinds
    <3> QED
        BY <1>1, <3>1 DEF Covered, Collected, ReadyKinds
  <2>3. CASE g \notin F
      BY <1>1, <2>1, <2>3 DEF Covered, Collected, ReadyKinds
  <2> QED
      BY <2>2, <2>3
<1>8. CoverInv'
    BY <1>1, <1>7 DEF CoverInv, Wanted, Covered, Collected, ReadyKinds
<1> QED
    BY <1>4, <1>5, <1>6, <1>8

-----------------------------------------------------------------------------
(* fork and close.                                                         *)

\* Files that are not open may be withdrawn from epoll.
LEMMA WithdrawStep ==
    ASSUME CoreInv, NEW F \in SUBSET Files, Withdraw(F),
           ready' \in [Files -> [Kinds -> 0..MaxReady]], hung' \subseteq hung,
           \A f \in Files \ F : ReadyKinds(f)' = ReadyKinds(f),
           \A f \in F : status[f] # "open",
           \A f \in Files : status[f] # "open" /\ status'[f] # status[f]
                               => status'[f] = "closed",
           \A f \in Files : status[f] = "open" => status'[f] = "open",
           status' \in [Files -> {"new", "open", "closing", "closed", "failed"}],
           shared' \subseteq Files,
           UNCHANGED <<data, pool, ops, mutex_, events, event>>
    PROVE  CoreInv'
<1> USE DEF CoreInv, StateInv
<1>1. /\ registered' = [f \in Files |-> IF f \in F THEN None ELSE registered[f]]
      /\ edge' = edge \ F
      /\ UNCHANGED <<live_list_, free_list_, descriptor_, shutdown_>>
      /\ UNCHANGED <<op_queue_, result, target>> /\ Collected' = Collected
    BY DEF Withdraw, pool, ops, Collected
<1>2. Types'
    BY <1>1 DEF Types
<1>3. PoolInv'
    BY <1>1 DEF PoolInv, Used
<1>4. StatusInv'
  <2>1. ASSUME NEW f \in Files, status'[f] \in {"new", "open"} PROVE status'[f] = status[f]
      BY <2>1 DEF Types
  <2>2. ASSUME NEW f \in Files, status'[f] = "open" PROVE registered'[f] = registered[f]
      BY <1>1, <2>1, <2>2
  <2>3. ASSUME NEW f \in edge' PROVE f \in edge /\ registered'[f] = registered[f]
      BY <1>1, <2>3 DEF Types
  <2> QED
      BY <1>1, <2>1, <2>2, <2>3 DEF StatusInv
<1>5. OpInv'
  <2>1. \A p \in live_list_ : StillOpen(p)
      BY <1>1 DEF StillOpen, PoolInv
  <2> QED
      BY <1>1, <2>1, OpsStay
<1>6. ASSUME NEW g \in Files, NEW l \in Kinds,
             l \in ReadyKinds(g)', data[g] \in P, Wanted(data[g], l)
      PROVE  Covered(g, l)'
  <2>1. status[g] = "open"
    <3>1. /\ status[descriptor_[data[g]]] = "open"
          /\ \A f \in Files : data[f] = data[g] => f = descriptor_[data[g]]
        BY <1>6, WantedIsOpen, Zenon
    <3>2. g = descriptor_[data[g]]
        BY <3>1, Zenon
    <3> QED
        BY <3>1, <3>2, Zenon
  <2>2. g \notin F
      BY <2>1
  <2>3. Covered(g, l)
      BY <1>6, <2>2 DEF CoverInv
  <2> QED
      BY <1>1, <2>1, <2>2, <2>3 DEF Covered
<1>7. CoverInv'
    BY <1>1, <1>6 DEF CoverInv, Wanted, Covered
<1> QED
    BY <1>2, <1>3, <1>5, <1>4, <1>7

LEMMA VanishFacts ==
    ASSUME Types, NEW F \in SUBSET Files, Vanish(F)
    PROVE  /\ Withdraw(F) /\ ready' \in [Files -> [Kinds -> 0..MaxReady]] /\ hung' \subseteq hung
           /\ \A f \in Files \ F : ReadyKinds(f)' = ReadyKinds(f)
<1>1. /\ ready' = [f \in Files |-> IF f \in F THEN [k \in Kinds |-> 0] ELSE ready[f]]
      /\ hung' = hung \ F /\ Withdraw(F)
    BY DEF Vanish
<1>2. [k \in Kinds |-> 0] \in [Kinds -> 0..MaxReady]
    OBVIOUS
<1>3. ready' \in [Files -> [Kinds -> 0..MaxReady]]
    BY <1>1, <1>2 DEF Types
<1>4. \A f \in Files \ F : ReadyKinds(f)' = ReadyKinds(f)
    BY <1>1 DEF ReadyKinds
<1> QED
    BY <1>1, <1>3, <1>4

LEMMA CloseStep ==
    ASSUME CoreInv, NEW f \in Files, CloseDescriptor(f)
    PROVE  CoreInv'
<1>1. /\ status[f] = "closing" /\ status' = [status EXCEPT ![f] = "closed"]
      /\ UNCHANGED <<data, shared, pool, ops, mutex_, events, event>>
    BY DEF CloseDescriptor
<1>2. /\ status \in [Files -> {"new", "open", "closing", "closed", "failed"}]
      /\ shared \subseteq Files /\ edge \subseteq Files
      /\ registered \in [Files -> P \cup {None}] /\ Types
      /\ ready \in [Files -> [Kinds -> 0..MaxReady]]
    BY DEF CoreInv, StateInv, Types
<1>3. /\ \A g \in Files : status[g] # "open" /\ status'[g] # status[g] => status'[g] = "closed"
      /\ \A g \in Files : status[g] = "open" => status'[g] = "open"
      /\ status' \in [Files -> {"new", "open", "closing", "closed", "failed"}]
    BY <1>1, <1>2
<1>4. CASE f \in shared
  <2>1. /\ Withdraw({}) /\ ready' \in [Files -> [Kinds -> 0..MaxReady]] /\ hung' \subseteq hung
        /\ \A g \in Files \ {} : ReadyKinds(g)' = ReadyKinds(g)
      BY <1>2, <1>4 DEF CloseDescriptor, Withdraw, kernel, ReadyKinds
  <2> QED
      BY <1>1, <1>2, <1>3, <2>1, WithdrawStep
<1>5. CASE f \notin shared
  <2>1. /\ Withdraw({f}) /\ ready' \in [Files -> [Kinds -> 0..MaxReady]] /\ hung' \subseteq hung
        /\ \A g \in Files \ {f} : ReadyKinds(g)' = ReadyKinds(g)
      BY <1>2, <1>5, VanishFacts DEF CloseDescriptor
  <2> QED
      BY <1>1, <1>2, <1>3, <2>1, WithdrawStep
<1> QED
    BY <1>4, <1>5

LEMMA ChildClosesStep ==
    ASSUME CoreInv, ChildCloses
    PROVE  CoreInv'
<1>1. /\ Vanish({f \in Files : status[f] = "closed"}) /\ shared' = {}
      /\ UNCHANGED <<status, data, pool, ops, mutex_, events, event>>
    BY DEF ChildCloses
<1>2. status \in [Files -> {"new", "open", "closing", "closed", "failed"}]
    BY DEF CoreInv, StateInv, Types
<1> DEFINE F == {f \in Files : status[f] = "closed"}
<1>3. /\ Withdraw(F) /\ ready' \in [Files -> [Kinds -> 0..MaxReady]] /\ hung' \subseteq hung
      /\ \A f \in Files \ F : ReadyKinds(f)' = ReadyKinds(f)
    BY <1>1, VanishFacts DEF CoreInv, StateInv
<1> QED
    BY <1>1, <1>2, <1>3, WithdrawStep

LEMMA ForkStep ==
    ASSUME CoreInv, ForkParent \/ ForkChild
    PROVE  CoreInv'
<1> USE DEF CoreInv, StateInv
<1>1. /\ shared' \subseteq Files /\ events = {} /\ event = None
      /\ UNCHANGED <<status, data, ready, hung, mutex_, events, event>>
      /\ UNCHANGED <<live_list_, free_list_, descriptor_, shutdown_>>
      /\ UNCHANGED <<op_queue_, result, target>>
    BY DEF ForkParent, ForkChild, NoThreads, OpenFiles, kernel, pool, ops, Types
<1>2. OpInv'
    BY <1>1, OpsStay DEF StillOpen, ops
<1>3. PoolInv'
    BY <1>1 DEF PoolInv, Used
<1>4. CASE ForkParent
  <2>1. UNCHANGED <<registered, edge>>
      BY <1>4 DEF ForkParent, kernel
  <2> QED
      BY <1>1, <1>2, <1>3, <2>1 DEF Types, StatusInv, CoverInv, Wanted, Covered, Collected, ReadyKinds
<1>5. CASE ForkChild
  <2>1. /\ registered' = [f \in Files |-> IF f \in OpenFiles THEN data[f] ELSE None]
        /\ edge' = {f \in OpenFiles : ReadyKinds(f) # {}}
      BY <1>5 DEF ForkChild, Renewed
  <2>2. \A f \in OpenFiles : f \in Files /\ status[f] = "open" /\ data[f] \in P
      BY DEF OpenFiles, StatusInv
  <2>3. Types'
      BY <1>1, <2>1, <2>2 DEF Types, Collected
  <2>4. StatusInv'
      BY <1>1, <2>1, <2>2, NoneIsNothing DEF StatusInv, OpenFiles
  <2>5. ASSUME NEW g \in Files, NEW l \in Kinds,
               l \in ReadyKinds(g), data[g] \in P, Wanted(data[g], l)
        PROVE  Covered(g, l)'
    <3>1. g \in OpenFiles
        BY <2>5, WantedIsOpen DEF OpenFiles
    <3>2. ReadyKinds(g) # {}
        BY <2>5 DEF ReadyKinds
    <3> QED
        BY <1>1, <2>1, <3>1, <3>2 DEF Covered, Collected, ReadyKinds
  <2>6. CoverInv'
      BY <1>1, <2>5 DEF CoverInv, Wanted, Covered, Collected, ReadyKinds
  <2> QED
      BY <1>2, <1>3, <2>3, <2>4, <2>6
<1> QED
    BY <1>4, <1>5

LEMMA ShutdownStep ==
    ASSUME CoreInv, Shutdown
    PROVE  CoreInv'
<1> USE DEF CoreInv, StateInv
<1>1. /\ live_list_' = {} /\ free_list_' = SetToSeq(live_list_) \o free_list_
      /\ shutdown_' = [p \in P |-> TRUE] /\ op_queue_' = [p \in P |-> NoOps]
      /\ result' = [o \in Ops |-> IF result[o] = "queued" THEN "destroyed" ELSE result[o]]
      /\ UNCHANGED <<status, data, shared, registered, ready, hung, edge>>
      /\ UNCHANGED <<descriptor_, mutex_, events, event>>
      /\ target' = [o \in Ops |-> IF o \in {u \in Ops : result[u] = "queued"} THEN None
                                  ELSE target[o]]
      /\ \A p \in P : mutex_[p] = None
    BY DEF Shutdown, NoThreads, objects, kernel, Forget
<1>2. NoOps \in [Kinds -> Seq(Ops)] /\ \A k \in Kinds : NoOps[k] = <<>>
    BY DEF NoOps
<1>3. free_list_' \in Seq(P) /\ IsInjective(free_list_')
  <2>1. /\ SetToSeq(live_list_) \in Seq(P) /\ IsInjective(SetToSeq(live_list_))
        /\ ToSet(SetToSeq(live_list_)) \subseteq live_list_
      BY StatesListed DEF Types
  <2>2. free_list_ \in Seq(P) /\ IsInjective(free_list_)
      BY DEF Types, PoolInv
  <2>3. ToSet(SetToSeq(live_list_)) \cap ToSet(free_list_) = {}
      BY <2>1 DEF PoolInv, Types
  <2> QED
      BY <1>1, <2>1, <2>2, <2>3, ConcatFacts
<1>4. Types'
  <2>1. /\ op_queue_' \in [P -> [Kinds -> Seq(Ops)]] /\ result' \in [Ops -> Results]
        /\ target' \in [Ops -> (Files \X Kinds) \cup {None}]
      BY <1>1, <1>2 DEF Types, Results
  <2>2. Collected' = Collected
      BY <1>1 DEF Collected
  <2> QED
      BY <1>1, <1>3, <2>1, <2>2 DEF Types
<1>5. PoolInv' /\ StatusInv'
    BY <1>1, <1>3 DEF PoolInv, StatusInv, Used
<1>6. \A o \in Ops : result'[o] # "queued" /\ result'[o] # "starting"
  <2>1. \A o \in Ops : result[o] # "starting"
      BY <1>1, NoneIsNothing DEF OpInv, StartInv, Types
  <2> QED
      BY <1>1, <2>1
<1>7. OpInv'
    BY <1>1, <1>2, <1>6, EmptyFacts DEF OpInv, QueueInv, StartInv
<1>8. CoverInv'
    BY <1>1, <1>2 DEF CoverInv, Wanted
<1> QED
    BY <1>4, <1>5, <1>7, <1>8

-----------------------------------------------------------------------------
(* Registration, cancelling and deregistration.                            *)

LEMMA AllocFacts ==
    ASSUME CoreInv, NEW f \in Files, Alloc(f)
    PROVE  LET p == Head(free_list_)
           IN  /\ p \in P /\ p \notin live_list_ /\ mutex_[p] = None
               /\ \A k \in Kinds : op_queue_[p][k] = <<>>
               /\ status[f] = "new" /\ data[f] = None
               /\ \A g \in Files : data[g] # p
               /\ \A q \in live_list_ : q # p /\ q \in P /\ descriptor_[q] # f
               /\ data' = [data EXCEPT ![f] = p]
               /\ descriptor_' = [descriptor_ EXCEPT ![p] = f]
               /\ live_list_' = live_list_ \cup {p}
               /\ PoolInv'
               /\ data' \in [Files -> P \cup {None}]
               /\ live_list_' \subseteq P /\ free_list_' \in Seq(P)
               /\ descriptor_' \in [P -> Files \cup {None}] /\ shutdown_' \in [P -> BOOLEAN]
<1> DEFINE p == Head(free_list_)
<1> USE DEF CoreInv, StateInv
<1>1. /\ status[f] = "new" /\ free_list_ # <<>>
      /\ \A g \in Files : data[g] # None => ~shutdown_[data[g]]
      /\ free_list_' = Tail(free_list_) /\ live_list_' = live_list_ \cup {p}
      /\ descriptor_' = [descriptor_ EXCEPT ![p] = f]
      /\ shutdown_' = [shutdown_ EXCEPT ![p] = FALSE]
      /\ data' = [data EXCEPT ![f] = p]
    BY DEF Alloc
<1>2. /\ p \in P /\ p \in ToSet(free_list_)
      /\ Tail(free_list_) \in Seq(P) /\ IsInjective(Tail(free_list_))
      /\ \A y : y \in ToSet(Tail(free_list_)) <=> y \in ToSet(free_list_) /\ y # p
  <2>1. free_list_ \in Seq(P) /\ IsInjective(free_list_)
      BY DEF Types, PoolInv
  <2> QED
      BY <1>1, <2>1, HeadFacts
<1> HIDE DEF p
<1>3. p \notin live_list_
    BY <1>2 DEF PoolInv
<1>4. data[f] = None
    BY <1>1 DEF StatusInv
<1>5. mutex_[p] = None /\ \A k \in Kinds : op_queue_[p][k] = <<>>
    BY <1>2, <1>3, UnusedIsEmpty
<1>6. ASSUME NEW g \in Files PROVE data[g] # p
    BY <1>1, <1>2, <1>3, NoneIsNothing DEF PoolInv, Used
<1>7. ASSUME NEW q \in live_list_ PROVE q # p /\ q \in P /\ descriptor_[q] # f
    BY <1>3, <1>4, NoneIsNothing DEF PoolInv, Types
<1>8. /\ data' \in [Files -> P \cup {None}]
      /\ live_list_' \subseteq P /\ free_list_' \in Seq(P)
      /\ descriptor_' \in [P -> Files \cup {None}] /\ shutdown_' \in [P -> BOOLEAN]
    BY <1>1, <1>2 DEF Types
<1>9. PoolInv'
  <2>1. IsInjective(free_list_')
      BY <1>1, <1>2
  <2>2. ASSUME NEW q \in P, q \in live_list_' PROVE q \notin ToSet(free_list_')
      BY <1>1, <1>2, <2>2 DEF PoolInv
  <2>3. ASSUME NEW q \in P PROVE q \in live_list_' <=> Used(q)'
      BY <1>1, <1>2 DEF PoolInv, Used, Types
  <2>4. ASSUME NEW q \in live_list_'
        PROVE  descriptor_'[q] \in Files /\ data'[descriptor_'[q]] = q
      BY <1>1, <1>2, <1>7 DEF PoolInv, Types
  <2>5. ASSUME NEW g \in Files, data'[g] \in live_list_' PROVE descriptor_'[data'[g]] = g
      BY <1>1, <1>2, <1>6, <2>5 DEF PoolInv, Types
  <2> QED
      BY <2>1, <2>2, <2>3, <2>4, <2>5 DEF PoolInv
<1> QED
    BY <1>1, <1>2, <1>3, <1>4, <1>5, <1>6, <1>7, <1>8, <1>9 DEF p

\* The new state's file is given to epoll, or not.
LEMMA RegisterState ==
    ASSUME CoreInv, NEW f \in Files, Alloc(f), NEW s \in {"open", "failed"},
           status' = [status EXCEPT ![f] = s],
           s = "open" => Watch(f, data'[f]),
           s = "failed" => UNCHANGED <<registered, edge>>,
           UNCHANGED <<shared, ready, hung, mutex_, events, event>>,
           op_queue_' \in [P -> [Kinds -> Seq(Ops)]], result' \in [Ops -> Results],
           target' \in [Ops -> (Files \X Kinds) \cup {None}]
    PROVE  StateInv' /\ \A q \in live_list_ : StillOpen(q)
<1> DEFINE p == Head(free_list_)
<1> USE DEF CoreInv, StateInv
<1>1. /\ p \in P /\ p \notin live_list_
      /\ status[f] = "new"
      /\ \A q \in live_list_ : q # p /\ q \in P /\ descriptor_[q] # f
      /\ data' = [data EXCEPT ![f] = p]
      /\ descriptor_' = [descriptor_ EXCEPT ![p] = f]
      /\ live_list_' = live_list_ \cup {p}
      /\ PoolInv'
      /\ data' \in [Files -> P \cup {None}]
      /\ live_list_' \subseteq P /\ free_list_' \in Seq(P)
      /\ descriptor_' \in [P -> Files \cup {None}] /\ shutdown_' \in [P -> BOOLEAN]
    BY AllocFacts
<1> HIDE DEF p
<1>2. data'[f] = p /\ \A g \in Files : g # f => data'[g] = data[g]
    BY <1>1 DEF Types
<1>3. /\ registered' \in [Files -> P \cup {None}] /\ edge' \subseteq Files
      /\ \A g \in Files : g # f => registered'[g] = registered[g] /\ (g \in edge' => g \in edge)
      /\ s = "open" => registered'[f] = p
      /\ s = "failed" => UNCHANGED <<registered, edge>>
  <2>1. CASE s = "open"
    <3>1. /\ registered' = [registered EXCEPT ![f] = p]
          /\ edge' = edge \/ edge' = edge \cup {f}
        BY <1>2, <2>1 DEF Watch
    <3>2. /\ registered' \in [Files -> P \cup {None}] /\ registered'[f] = p
          /\ \A g \in Files : g # f => registered'[g] = registered[g]
        BY <1>1, <3>1 DEF Types
    <3>3. edge' \subseteq Files /\ \A g \in Files : g # f => (g \in edge' => g \in edge)
        BY <3>1 DEF Types
    <3> QED
        BY <2>1, <3>2, <3>3
  <2>2. CASE s = "failed"
      BY <2>2 DEF Types
  <2> QED
      BY <2>1, <2>2
<1>4. Types'
    BY <1>1, <1>3 DEF Types, Collected
<1>5. ASSUME NEW g \in Files
      PROVE  /\ status'[g] = "new" => data'[g] = None
             /\ status'[g] = "open" => data'[g] \in P
             /\ status'[g] = "open" /\ data'[g] \in live_list_' => registered'[g] = data'[g]
             /\ g \in edge' => registered'[g] # None
  <2>1. CASE g = f
    <3>1. status'[f] = s
        BY DEF Types
    <3>2. CASE s = "open"
        BY <1>1, <1>2, <1>3, <2>1, <3>1, <3>2, NoneIsNothing
    <3>3. CASE s = "failed"
        BY <1>3, <2>1, <3>1, <3>3 DEF StatusInv
    <3> QED
        BY <3>2, <3>3
  <2>2. CASE g # f
    <3>1. status'[g] = status[g] /\ data'[g] = data[g] /\ registered'[g] = registered[g]
        BY <1>2, <1>3, <2>2 DEF Types
    <3>2. data[g] \in live_list_' => data[g] \in live_list_
        BY <1>1, <2>2, AllocFacts DEF p
    <3> QED
        BY <1>3, <2>2, <3>1, <3>2 DEF StatusInv
  <2> QED
      BY <2>1, <2>2
<1>6. \A q \in live_list_ : StillOpen(q)
    BY <1>1 DEF StillOpen, Types, PoolInv
<1> QED
    BY <1>1, <1>4, <1>5, <1>6 DEF StatusInv

\* Nothing is wanted of it that is not reported.
LEMMA RegisterCovers ==
    ASSUME CoreInv, NEW f \in Files, Alloc(f), UNCHANGED <<ready, hung, mutex_, events, event>>,
           \/ Watch(f, data'[f])
           \/ UNCHANGED <<registered, edge>> /\ \A k \in Kinds : ~Wanted(data[f], k)',
           \A q \in P : q # Head(free_list_) => op_queue_'[q] = op_queue_[q],
           \A o \in Ops : result[o] = "starting" => target'[o] = target[o]
    PROVE  CoverInv'
<1> DEFINE p == Head(free_list_)
<1> USE DEF CoreInv, StateInv
<1>1. /\ p \in P /\ p \notin live_list_
      /\ \A g \in Files : data[g] # p
      /\ data' = [data EXCEPT ![f] = p]
      /\ descriptor_' = [descriptor_ EXCEPT ![p] = f]
    BY AllocFacts
<1> HIDE DEF p
<1>2. data'[f] = p /\ \A g \in Files : g # f => data'[g] = data[g]
    BY <1>1 DEF Types
<1>3. ASSUME NEW g \in Files, NEW l \in Kinds,
             l \in ReadyKinds(g), data'[g] \in P, Wanted(data[g], l)'
      PROVE  Covered(g, l)'
  <2>1. CASE g = f
    <3>1. Watch(f, p)
        BY <1>2, <1>3, <2>1
    <3>2. l \in ReadyKinds(f)
        BY <1>3, <2>1 DEF ReadyKinds
    <3>3. f \in edge' /\ registered'[f] = p
        BY <3>1, <3>2 DEF Watch, Types
    <3> QED
        BY <1>2, <2>1, <3>3 DEF Covered, Collected, ReadyKinds
  <2>2. CASE g # f
    <3>1. data'[g] = data[g] /\ data[g] # p
        BY <1>1, <1>2, <2>2
    <3>2. /\ op_queue_'[data[g]] = op_queue_[data[g]]
          /\ descriptor_'[data[g]] = descriptor_[data[g]]
          /\ mutex_'[data[g]] = mutex_[data[g]]
        BY <1>1, <1>3, <3>1 DEF Types, p
    <3>3. mutex_[data[g]] # None => target'[mutex_[data[g]]] = target[mutex_[data[g]]]
      <4>1. data[g] \in P
          BY <1>3, <3>1
      <4>2. mutex_[data[g]] # None => mutex_[data[g]] \in Ops
          BY <4>1 DEF Types
      <4> QED
          BY <4>1, <4>2 DEF OpInv, StartInv
    <3>4. Covered(g, l)
        BY <1>3, <3>1, <3>2, <3>3 DEF CoverInv, Wanted
    <3>5. registered'[g] = registered[g] /\ (g \in edge => g \in edge')
        BY <2>2 DEF Watch, Types
    <3> QED
        BY <3>1, <3>4, <3>5 DEF Covered, Collected, ReadyKinds
  <2> QED
      BY <2>1, <2>2
<1> QED
    BY <1>3 DEF CoverInv, Wanted, Covered, Collected, ReadyKinds

LEMMA RegisterStep ==
    ASSUME CoreInv, NEW f \in Files,
           \/ RegisterDescriptor(f) \/ RegisterFails(f)
           \/ \E o \in Ops : RegisterInternal(f, o)
    PROVE  CoreInv'
<1>1. CASE RegisterDescriptor(f)
  <2>1. /\ Alloc(f) /\ status' = [status EXCEPT ![f] = "open"] /\ Watch(f, data'[f])
        /\ UNCHANGED <<shared, ready, hung, mutex_, events, event>> /\ UNCHANGED <<op_queue_, result, target>>
      BY <1>1 DEF RegisterDescriptor, ops
  <2>2. /\ op_queue_ \in [P -> [Kinds -> Seq(Ops)]] /\ result \in [Ops -> Results]
        /\ target \in [Ops -> (Files \X Kinds) \cup {None}]
      BY DEF CoreInv, StateInv, Types
  <2>3. StateInv' /\ \A q \in live_list_ : StillOpen(q)
    <3>1. /\ "open" \in {"open", "failed"}
          /\ "open" = "failed" => UNCHANGED <<registered, edge>>
        OBVIOUS
    <3> QED
        BY <2>1, <2>2, <3>1, RegisterState
  <2>4. OpInv'
      BY <2>1, <2>3, OpsStay DEF CoreInv, ops
  <2>5. CoverInv'
      BY <2>1, RegisterCovers
  <2> QED
      BY <2>3, <2>4, <2>5 DEF CoreInv
<1>2. CASE RegisterFails(f)
  <2>1. /\ Alloc(f) /\ status' = [status EXCEPT ![f] = "failed"]
        /\ UNCHANGED <<registered, ready, hung, edge>>
        /\ UNCHANGED <<shared, ready, hung, mutex_, events, event>> /\ UNCHANGED <<op_queue_, result, target>>
      BY <1>2 DEF RegisterFails, kernel, ops
  <2>2. /\ op_queue_ \in [P -> [Kinds -> Seq(Ops)]] /\ result \in [Ops -> Results]
        /\ target \in [Ops -> (Files \X Kinds) \cup {None}]
      BY DEF CoreInv, StateInv, Types
  <2>3. StateInv' /\ \A q \in live_list_ : StillOpen(q)
    <3>1. /\ "failed" \in {"open", "failed"}
          /\ "failed" = "open" => Watch(f, data'[f])
        OBVIOUS
    <3> QED
        BY <2>1, <2>2, <3>1, RegisterState
  <2>4. OpInv'
      BY <2>1, <2>3, OpsStay DEF CoreInv, ops
  <2>5. ASSUME NEW k \in Kinds PROVE ~Wanted(data[f], k)'
    <3>0. PICK p : p = Head(free_list_)
        OBVIOUS
    <3>1. /\ p \in P /\ mutex_[p] = None /\ op_queue_[p][k] = <<>>
          /\ data' = [data EXCEPT ![f] = p]
        BY <2>1, <3>0, AllocFacts
    <3>2. data'[f] = p
        BY <3>1 DEF CoreInv, StateInv, Types
    <3> QED
        BY <2>1, <3>1, <3>2 DEF Wanted
  <2>6. CoverInv'
      BY <2>1, <2>5, RegisterCovers
  <2> QED
      BY <2>3, <2>4, <2>6 DEF CoreInv
<1>3. ASSUME NEW o \in Ops, RegisterInternal(f, o) PROVE CoreInv'
  <2>1. /\ o \in Internal /\ result[o] = "new" /\ Alloc(f)
        /\ status' = [status EXCEPT ![f] = "open"]
        /\ op_queue_' = [op_queue_ EXCEPT ![data'[f]][0] = Append(@, o)]
        /\ result' = [result EXCEPT ![o] = "queued"]
        /\ target' = [target EXCEPT ![o] = <<f, 0>>]
        /\ Watch(f, data'[f])
        /\ UNCHANGED <<shared, ready, hung, mutex_, events, event>>
      BY <1>3 DEF RegisterInternal, Started
  <2>2. 0 \in Kinds
      BY <2>1
  <2>0. PICK n : n = Head(free_list_)
      OBVIOUS
  <2>3. /\ n \in P /\ n \notin live_list_ /\ mutex_[n] = None
        /\ op_queue_[n][0] = <<>>
        /\ data' = [data EXCEPT ![f] = n]
        /\ descriptor_' = [descriptor_ EXCEPT ![n] = f]
        /\ live_list_' = live_list_ \cup {n}
      BY <2>0, <2>1, <2>2, AllocFacts
  <2>4. data'[f] = n
      BY <2>3 DEF CoreInv, StateInv, Types
  <2>5. /\ op_queue_' = [op_queue_ EXCEPT ![n][0] = Append(@, o)]
        /\ op_queue_ \in [P -> [Kinds -> Seq(Ops)]] /\ result \in [Ops -> Results]
      BY <2>1, <2>4 DEF CoreInv, StateInv, Types
  <2>6. /\ op_queue_' \in [P -> [Kinds -> Seq(Ops)]] /\ result' \in [Ops -> Results]
        /\ \A q \in P : q # n => op_queue_'[q] = op_queue_[q]
        /\ target' \in [Ops -> (Files \X Kinds) \cup {None}]
    <3>1. Append(op_queue_[n][0], o) \in Seq(Ops)
        BY <2>2, <2>3, <2>5, AppendFacts
    <3>2. [op_queue_[n] EXCEPT ![0] = Append(@, o)] \in [Kinds -> Seq(Ops)]
        BY <2>2, <2>3, <2>5, <3>1
    <3>3. op_queue_' = [op_queue_ EXCEPT ![n] = [op_queue_[n] EXCEPT ![0] = Append(@, o)]]
        BY <2>3, <2>5
    <3>4. /\ op_queue_' \in [P -> [Kinds -> Seq(Ops)]]
          /\ \A q \in P : q # n => op_queue_'[q] = op_queue_[q]
        BY <2>3, <2>5, <3>2, <3>3
    <3>5. result' \in [Ops -> Results]
        BY <2>1, <2>5 DEF Results
    <3>6. target' \in [Ops -> (Files \X Kinds) \cup {None}]
        BY <2>1, <2>2 DEF CoreInv, StateInv, Types
    <3> QED
        BY <3>4, <3>5, <3>6
  <2>7. StateInv' /\ \A q \in live_list_ : StillOpen(q)
    <3>1. /\ "open" \in {"open", "failed"}
          /\ "open" = "failed" => UNCHANGED <<registered, edge>>
        OBVIOUS
    <3> QED
        BY <2>1, <2>6, <3>1, RegisterState
  <2>8. OpInv'
    <3>1. Push(o, n, 0)
        BY <2>1, <2>5 DEF Push
    <3>2. OpenFor(n, o, 0)'
      <4>1. descriptor_'[n] = f /\ n \in live_list_'
          BY <2>3 DEF CoreInv, StateInv, Types
      <4>3. status'[f] = "open"
          BY <2>1 DEF CoreInv, StateInv, Types
      <4>2. target'[o] = <<f, 0>>
          BY <2>1 DEF CoreInv, StateInv, Types
      <4> QED
          BY <4>1, <4>2, <4>3 DEF OpenFor
    <3>3. \A u \in Ops : u # o => target'[u] = target[u]
        BY <2>1 DEF CoreInv, StateInv, Types
    <3>4. \A q \in P : mutex_'[q] = IF mutex_[q] = o THEN None ELSE mutex_[q]
        BY <2>1, NoneIsNothing DEF CoreInv, OpInv, StartInv
    <3> QED
        BY <2>1, <2>2, <2>3, <2>7, <3>1, <3>2, <3>3, <3>4, PushOps DEF CoreInv
  <2>9. CoverInv'
    <3>1. \A u \in Ops : result[u] = "starting" => target'[u] = target[u]
        BY <2>1 DEF CoreInv, StateInv, Types
    <3> QED
        BY <2>1, <2>6, <3>1, <2>0, RegisterCovers
  <2> QED
      BY <2>7, <2>8, <2>9 DEF CoreInv
<1> QED
    BY <1>1, <1>2, <1>3

LEMMA CancelStep ==
    ASSUME CoreInv, NEW f \in Files, CancelOps(f)
    PROVE  CoreInv'
<1> USE DEF CoreInv, StateInv
<1>0. PICK p : p = data[f]
    OBVIOUS
<1>1. /\ status[f] = "open" /\ mutex_[p] = None /\ End(p, "aborted") /\ p \in P
      /\ UNCHANGED <<status, data, shared, registered, ready, hung, edge, mutex_, events, event>>
      /\ UNCHANGED <<live_list_, free_list_, descriptor_, shutdown_>>
    BY <1>0 DEF CancelOps, Open, Unlocked, StatusInv, objects, kernel, pool
<1>2. /\ op_queue_' \in [P -> [Kinds -> Seq(Ops)]] /\ result' \in [Ops -> Results]
      /\ \A k \in Kinds : op_queue_'[p][k] = <<>>
      /\ \A q \in P : q # p => op_queue_'[q] = op_queue_[q]
      /\ \A o \in Ops : o \notin QueuedAt(p) => target'[o] = target[o]
      /\ target' \in [Ops -> (Files \X Kinds) \cup {None}]
    BY <1>1, EndFacts DEF Results
<1>3. Types' /\ PoolInv' /\ StatusInv'
    BY <1>1, <1>2 DEF Types, PoolInv, StatusInv, Used, Collected
<1>4. OpInv'
  <2>1. \A q \in live_list_ : StillOpen(q)
      BY <1>1 DEF StillOpen
  <2>2. "aborted" \in Results \ {"queued", "starting"}
      BY DEF Results
  <2> QED
      BY <1>1, <2>1, <2>2, EndOps
<1>5. CoverInv'
  <2>1. \A q \in P : mutex_[q] # None => target'[mutex_[q]] = target[mutex_[q]]
      BY <1>1, HoldersStay
  <2>2. ASSUME NEW g \in Files, NEW l \in Kinds,
               l \in ReadyKinds(g), data[g] \in P, Wanted(data[g], l)'
        PROVE  Covered(g, l)'
    <3>1. Wanted(data[g], l)
        BY <1>1, <1>2, <2>1, <2>2 DEF Wanted
    <3>2. Covered(g, l)
        BY <2>2, <3>1 DEF CoverInv
    <3> QED
        BY <1>1, <3>2 DEF Covered, Collected, ReadyKinds
  <2> QED
      BY <1>1, <2>2 DEF CoverInv, Wanted, Covered, Collected, ReadyKinds
<1> QED
    BY <1>3, <1>4, <1>5

\* The state goes back to the pool.
LEMMA FreeFacts ==
    ASSUME StateInv, NEW f \in Files, NEW p \in live_list_, data[f] = p, Free(f)
    PROVE  /\ PoolInv' /\ \A q \in live_list_ : q # p => q \in live_list_' /\ descriptor_[q] # f
           /\ data' = [data EXCEPT ![f] = None] /\ descriptor_' = [descriptor_ EXCEPT ![p] = None]
           /\ live_list_' = live_list_ \ {p}
           /\ data' \in [Files -> P \cup {None}]
           /\ live_list_' \subseteq P /\ free_list_' \in Seq(P)
           /\ descriptor_' \in [P -> Files \cup {None}] /\ shutdown_' \in [P -> BOOLEAN]
<1> USE DEF StateInv
<1>1. /\ live_list_' = live_list_ \ {p} /\ free_list_' = <<p>> \o free_list_
      /\ descriptor_' = [descriptor_ EXCEPT ![p] = None]
      /\ shutdown_' = [shutdown_ EXCEPT ![p] = TRUE]
      /\ data' = [data EXCEPT ![f] = None]
    BY DEF Free
<1>2. p \in P /\ descriptor_[p] = f /\ p \notin ToSet(free_list_)
    BY DEF PoolInv, Types
<1>3. /\ free_list_' \in Seq(P) /\ IsInjective(free_list_')
      /\ \A y : y \in ToSet(free_list_') <=> y = p \/ y \in ToSet(free_list_)
  <2>1. /\ <<p>> \in Seq(P) /\ DOMAIN <<p>> = {1} /\ <<p>>[1] = p
      BY <1>2
  <2>2. IsInjective(<<p>>) /\ ToSet(<<p>>) = {p}
      BY <2>1 DEF IsInjective, ToSet
  <2>3. ToSet(<<p>>) \cap ToSet(free_list_) = {}
      BY <1>2, <2>2
  <2>4. free_list_ \in Seq(P) /\ IsInjective(free_list_)
      BY DEF Types, PoolInv
  <2> QED
      BY <1>1, <2>1, <2>2, <2>3, <2>4, ConcatFacts
<1>4. /\ data' \in [Files -> P \cup {None}]
      /\ live_list_' \subseteq P
      /\ descriptor_' \in [P -> Files \cup {None}] /\ shutdown_' \in [P -> BOOLEAN]
    BY <1>1, <1>2 DEF Types
<1>5. ASSUME NEW q \in live_list_, q # p PROVE q \in live_list_' /\ descriptor_[q] # f
    BY <1>1, <1>5 DEF PoolInv
<1>6. PoolInv'
  <2>1. ASSUME NEW q \in P, q \in live_list_' PROVE q \notin ToSet(free_list_')
      BY <1>1, <1>3, <2>1 DEF PoolInv
  <2>2. ASSUME NEW q \in P PROVE q \in live_list_' <=> Used(q)'
      BY <1>1, <1>2 DEF PoolInv, Used, Types
  <2>3. ASSUME NEW q \in live_list_'
        PROVE  descriptor_'[q] \in Files /\ data'[descriptor_'[q]] = q
    <3>1. q \in live_list_ /\ q # p /\ q \in P
        BY <1>1 DEF Types
    <3> QED
        BY <1>1, <1>2, <1>5, <3>1 DEF PoolInv, Types
  <2>4. ASSUME NEW g \in Files, data'[g] \in live_list_' PROVE descriptor_'[data'[g]] = g
    <3>1. g # f
        BY <1>1, <2>4, NoneIsNothing DEF Types
    <3>2. data'[g] = data[g]
        BY <1>1, <3>1 DEF Types
    <3>3. data[g] # p /\ data[g] \in live_list_ /\ data[g] \in P
        BY <1>1, <2>4, <3>2 DEF Types
    <3> QED
        BY <1>1, <3>2, <3>3 DEF PoolInv, Types
  <2> QED
      BY <1>3, <2>1, <2>2, <2>3, <2>4 DEF PoolInv
<1> QED
    BY <1>1, <1>3, <1>4, <1>5, <1>6

LEMMA DeregisterStep ==
    ASSUME CoreInv, NEW f \in Files, NEW closing \in BOOLEAN, Deregister(f, closing)
    PROVE  CoreInv'
<1> USE DEF CoreInv, StateInv
<1>0. PICK p : p = data[f]
    OBVIOUS
<1> DEFINE internal == QueuedAt(p) \cap Internal # {}
<1>1. /\ status[f] = "open" /\ mutex_[p] = None /\ p \in P
      /\ status' = [status EXCEPT ![f] = "closing"]
      /\ UNCHANGED <<shared, ready, hung, mutex_, events, event>>
      /\ Used(p) => End(p, IF internal THEN "destroyed" ELSE "aborted") /\ Free(f)
      /\ ~Used(p) => UNCHANGED <<data, live_list_, free_list_, descriptor_, shutdown_,
                                op_queue_, result, target>>
      /\ (registered' = registered /\ edge' = edge) \/ Withdraw({f})
    BY <1>0 DEF Deregister, Open, Unlocked, StatusInv, pool, ops
<1>2. /\ registered' \in [Files -> P \cup {None}] /\ edge' \subseteq Files
      /\ \A g \in Files : g # f => registered'[g] = registered[g] /\ (g \in edge' <=> g \in edge)
      /\ f \in edge' => f \in edge /\ registered'[f] = registered[f]
  <2>1. CASE registered' = registered /\ edge' = edge
      BY <2>1 DEF Types
  <2>2. CASE Withdraw({f})
      BY <2>2 DEF Withdraw, Types
  <2> QED
      BY <1>1, <2>1, <2>2
<1>3. /\ status' \in [Files -> {"new", "open", "closing", "closed", "failed"}]
      /\ status'[f] = "closing" /\ \A g \in Files : g # f => status'[g] = status[g]
    BY <1>1 DEF Types
<1>4. CASE Used(p)
  <2>1. p \in live_list_
      BY <1>1, <1>4 DEF PoolInv
  <2>2. PICK how \in {"destroyed", "aborted"} : End(p, how)
      BY <1>1, <1>4
  <2>3. /\ op_queue_' \in [P -> [Kinds -> Seq(Ops)]] /\ result' \in [Ops -> Results]
        /\ \A q \in P : q # p => op_queue_'[q] = op_queue_[q]
        /\ \A o \in Ops : o \notin QueuedAt(p) => target'[o] = target[o]
        /\ target' \in [Ops -> (Files \X Kinds) \cup {None}]
      BY <1>1, <2>2, EndFacts DEF Results
  <2>4. /\ PoolInv' /\ \A q \in live_list_ : q # p => q \in live_list_' /\ descriptor_[q] # f
        /\ data' = [data EXCEPT ![f] = None] /\ descriptor_' = [descriptor_ EXCEPT ![p] = None]
        /\ live_list_' = live_list_ \ {p}
        /\ data' \in [Files -> P \cup {None}]
        /\ live_list_' \subseteq P /\ free_list_' \in Seq(P)
        /\ descriptor_' \in [P -> Files \cup {None}] /\ shutdown_' \in [P -> BOOLEAN]
      BY <1>0, <1>1, <1>4, <2>1, FreeFacts
  <2>5. Types'
    <3>1. /\ data' \in [Files -> P \cup {None}]
          /\ live_list_' \subseteq P /\ free_list_' \in Seq(P)
          /\ descriptor_' \in [P -> Files \cup {None}] /\ shutdown_' \in [P -> BOOLEAN]
        BY <2>4
    <3>2. UNCHANGED <<shared, ready, hung, mutex_, events, event>>
        BY <1>1
    <3>3. status' \in [Files -> {"new", "open", "closing", "closed", "failed"}]
        BY <1>3
    <3>4. registered' \in [Files -> P \cup {None}] /\ edge' \subseteq Files
        BY <1>2
    <3> QED
        BY <2>3, <3>1, <3>2, <3>3, <3>4 DEF Types, Collected
  <2>6. data'[f] = None /\ \A g \in Files : g # f => data'[g] = data[g]
      BY <2>4 DEF Types
  <2>7. StatusInv'
    <3>1. live_list_' \subseteq live_list_
        BY <2>4
    <3>2. ASSUME NEW g \in Files, g # f
          PROVE  /\ status'[g] = "new" => data'[g] = None
                 /\ status'[g] = "open" => data'[g] \in P
                 /\ status'[g] = "open" /\ data'[g] \in live_list_' => registered'[g] = data'[g]
                 /\ g \in edge' => registered'[g] # None
      <4>1. /\ status'[g] = status[g] /\ data'[g] = data[g]
            /\ registered'[g] = registered[g] /\ (g \in edge' <=> g \in edge)
          BY <1>2, <1>3, <2>6, <3>2
      <4> QED
          BY <3>1, <4>1 DEF StatusInv
    <3>3. status'[f] = "closing" /\ (f \in edge' => registered'[f] # None)
        BY <1>2, <1>3 DEF StatusInv
    <3> QED
        BY <3>2, <3>3 DEF StatusInv
  <2>8. OpInv'
    <3>1. ASSUME NEW q \in live_list_, q # p PROVE StillOpen(q)
      <4>1. q \in live_list_' /\ descriptor_'[q] = descriptor_[q]
          BY <2>4, <3>1 DEF Types
      <4>2. status'[descriptor_[q]] = status[descriptor_[q]]
          BY <1>3, <2>4, <3>1 DEF PoolInv
      <4> QED
          BY <4>1, <4>2 DEF StillOpen
    <3>2. how \in Results \ {"queued", "starting"}
        BY DEF Results
    <3> QED
        BY <1>1, <2>2, <3>1, <3>2, EndOps
  <2>9. ASSUME NEW g \in Files, NEW l \in Kinds,
               l \in ReadyKinds(g), data'[g] \in P, Wanted(data[g], l)'
        PROVE  Covered(g, l)'
    <3>1. g # f /\ data'[g] = data[g]
        BY <2>6, <2>9, NoneIsNothing
    <3>2. data[g] # p
        BY <1>0, <2>1, <3>1 DEF PoolInv
    <3>3. Wanted(data[g], l)
      <4>1. mutex_[data[g]] # None => target'[mutex_[data[g]]] = target[mutex_[data[g]]]
          BY <1>1, <2>2, <2>9, <3>1, HoldersStay
      <4> QED
          BY <1>1, <2>3, <2>4, <2>9, <3>1, <3>2, <4>1 DEF Wanted, Types
    <3>4. Covered(g, l)
        BY <2>9, <3>1, <3>3 DEF CoverInv
    <3> QED
        BY <1>1, <1>2, <3>1, <3>4 DEF Covered, Collected, ReadyKinds
  <2>10. CoverInv'
      BY <1>1, <2>9 DEF CoverInv, Wanted, Covered, Collected, ReadyKinds
  <2> QED
      BY <2>4, <2>5, <2>7, <2>8, <2>10
<1>5. CASE ~Used(p)
  <2>1. /\ UNCHANGED <<data, live_list_, free_list_, descriptor_, shutdown_>>
        /\ UNCHANGED <<op_queue_, result, target>> /\ p \notin live_list_
      BY <1>1, <1>5 DEF PoolInv
  <2>2. Types' /\ PoolInv'
      BY <1>1, <1>2, <1>3, <2>1 DEF Types, PoolInv, Used, Collected
  <2>3. StatusInv'
      BY <1>2, <1>3, <2>1 DEF StatusInv
  <2>4. ASSUME NEW q \in live_list_ PROVE StillOpen(q)
    <3>1. descriptor_[q] # f /\ descriptor_[q] \in Files
        BY <1>0, <2>1 DEF PoolInv
    <3> QED
        BY <1>3, <2>1, <3>1 DEF StillOpen
  <2>5. OpInv'
      BY <1>1, <2>1, <2>4, OpsStay DEF ops
  <2>6. ASSUME NEW g \in Files, NEW l \in Kinds,
               l \in ReadyKinds(g), data[g] \in P, Wanted(data[g], l)
        PROVE  Covered(g, l)'
    <3>1. g # f
        BY <1>0, <2>1, <2>6, WantedIsOpen
    <3>2. Covered(g, l)
        BY <2>6 DEF CoverInv
    <3> QED
        BY <1>1, <1>2, <2>1, <3>1, <3>2 DEF Covered, Collected, ReadyKinds
  <2>7. CoverInv'
      BY <1>1, <2>1, <2>6 DEF CoverInv, Wanted, Covered, Collected, ReadyKinds
  <2> QED
      BY <2>2, <2>3, <2>5, <2>7
<1> QED
    BY <1>4, <1>5

-----------------------------------------------------------------------------
(* start_op.                                                               *)

\* A report that there was is still there, and what becomes wanted is not ready
\* or is put on epoll's list.
LEMMA StartCovers ==
    ASSUME CoreInv, UNCHANGED <<data, registered, events, event>>, edge \subseteq edge',
           \A g \in Files : \A l \in Kinds :
              l \in ReadyKinds(g)' /\ data[g] \in P /\ Wanted(data[g], l)' =>
                 \/ l \in ReadyKinds(g) /\ Wanted(data[g], l)
                 \/ g \in edge' /\ registered[g] = data[g]
    PROVE  CoverInv'
<1>1. ASSUME NEW g \in Files, NEW l \in Kinds,
             l \in ReadyKinds(g)', data[g] \in P, Wanted(data[g], l)'
      PROVE  Covered(g, l)'
  <2>1. CASE l \in ReadyKinds(g) /\ Wanted(data[g], l)
    <3>1. Covered(g, l)
        BY <1>1, <2>1 DEF CoreInv, CoverInv
    <3> QED
        BY <3>1 DEF Covered, Collected
  <2>2. CASE g \in edge' /\ registered[g] = data[g]
      BY <2>2 DEF Covered
  <2> QED
      BY <1>1, <2>1, <2>2
<1> QED
    BY <1>1 DEF CoverInv, Wanted, Covered

LEMMA StartClosedStep ==
    ASSUME CoreInv, NEW f \in Files, NEW o \in Ops, StartClosed(f, o)
    PROVE  CoreInv'
<1> USE DEF CoreInv, StateInv
<1>1. /\ result[o] = "new"
      /\ result' = [result EXCEPT ![o] = "aborted"]
      /\ UNCHANGED <<status, data, shared, registered, ready, hung, edge>>
      /\ UNCHANGED <<op_queue_, target, mutex_, events, event>>
      /\ UNCHANGED <<live_list_, free_list_, descriptor_, shutdown_>>
    BY DEF StartClosed, objects, kernel, pool
<1>2. "aborted" \in Results \ {"queued", "starting"}
    BY DEF Results
<1>3. Types' /\ PoolInv' /\ StatusInv'
  <2>1. result' \in [Ops -> Results] /\ Collected' = Collected
      BY <1>1, <1>2 DEF Types, Collected
  <2> QED
      BY <1>1, <2>1 DEF Types, PoolInv, StatusInv, Used
<1>4. OpInv'
    BY <1>1, <1>2, RefuseOps
<1>5. CoverInv'
    BY <1>1 DEF CoverInv, Wanted, Covered, Collected, ReadyKinds
<1> QED
    BY <1>3, <1>4, <1>5

LEMMA StartOpStep ==
    ASSUME CoreInv, NEW f \in Files, NEW k \in Kinds, NEW o \in Ops, StartOp(f, k, o)
    PROVE  CoreInv'
<1> USE DEF CoreInv, StateInv
<1>0. PICK p : p = data[f]
    OBVIOUS
<1>1. /\ status[f] = "open" /\ mutex_[p] = None /\ p \in P /\ result[o] = "new"
      /\ UNCHANGED <<status, data, shared, registered, events, event>>
      /\ UNCHANGED <<live_list_, free_list_, descriptor_, shutdown_>>
  <2>1. Open(f) /\ result[o] = "new" /\ UNCHANGED <<objects, pool, events, event>>
      BY DEF StartOp
  <2>2. UNCHANGED registered
      BY DEF StartOp, kernel, Take
  <2> QED
      BY <1>0, <2>1, <2>2 DEF Open, Unlocked, StatusInv, objects, pool
<1>12. \/ target' = target
      \/ target' = [target EXCEPT ![o] = <<f, k>>]
    BY DEF StartOp, Started
<1>13. ~shutdown_[p] => target' = [target EXCEPT ![o] = <<f, k>>]
    BY <1>0 DEF StartOp, Started
<1>2. /\ target' \in [Ops -> (Files \X Kinds) \cup {None}]
      /\ ~shutdown_[p] => target'[o] = <<f, k>>
      /\ \A u \in Ops : u # o => target'[u] = target[u]
  <2>1. target \in [Ops -> (Files \X Kinds) \cup {None}]
      BY Zenon DEF Types
  <2>2. ASSUME target' = [target EXCEPT ![o] = <<f, k>>]
        PROVE  /\ target' \in [Ops -> (Files \X Kinds) \cup {None}]
               /\ target'[o] = <<f, k>>
               /\ \A u \in Ops : u # o => target'[u] = target[u]
    <3>1. <<f, k>> \in (Files \X Kinds) \cup {None}
        OBVIOUS
    <3> QED
        BY <2>1, <2>2, <3>1, Zenon
  <2> QED
      BY <1>12, <1>13, <2>1, <2>2
<1>3. \A q \in P : mutex_[q] # None => mutex_[q] \in Ops /\ mutex_[q] # o
    BY <1>1 DEF Types, OpInv, StartInv
<1>4. \A q \in live_list_ : StillOpen(q)
    BY <1>1 DEF StillOpen
<1>5. ASSUME ~shutdown_[p]
      PROVE  /\ p \in live_list_ /\ descriptor_[p] = f /\ registered[f] = p
             /\ OpenFor(p, o, k)'
             /\ \A g \in Files : data[g] = p => g = f
  <2>1. p \in live_list_
      BY <1>1, <1>5 DEF PoolInv, Used
  <2>2. descriptor_[p] = f /\ registered[f] = p
      BY <1>0, <1>1, <2>1 DEF PoolInv, StatusInv
  <2>3. \A g \in Files : data[g] = p => g = f
      BY <2>1, <2>2 DEF PoolInv
  <2> QED
      BY <1>1, <1>2, <1>5, <2>1, <2>2, <2>3 DEF OpenFor
<1>6. ASSUME NEW how \in Results, result' = [result EXCEPT ![o] = how]
      PROVE  result' \in [Ops -> Results]
    BY <1>6 DEF Types
<1>7. ASSUME ready' \in [Files -> [Kinds -> 0..MaxReady]], hung' \subseteq Files,
              edge' \subseteq Files,
              op_queue_' \in [P -> [Kinds -> Seq(Ops)]], result' \in [Ops -> Results],
              mutex_' \in [P -> Ops \cup {None}]
       PROVE  Types' /\ PoolInv'
  <2>1. /\ UNCHANGED <<status, data, shared, registered, events, event>>
        /\ UNCHANGED <<live_list_, free_list_, descriptor_, shutdown_>>
        /\ target' \in [Ops -> (Files \X Kinds) \cup {None}]
      BY <1>1, <1>2
  <2> QED
      BY <1>7, <2>1 DEF Types, PoolInv, Used, Collected
<1>8. CASE /\ shutdown_[p] /\ result' = [result EXCEPT ![o] = "destroyed"]
           /\ UNCHANGED <<ready, hung, edge, op_queue_, mutex_>>
  <2>1. "destroyed" \in Results \ {"queued", "starting"}
      BY DEF Results
  <2>2. Types' /\ PoolInv' /\ StatusInv'
    <3>1. result' \in [Ops -> Results]
        BY <1>6, <1>8, <2>1
    <3>2. UNCHANGED <<status, data, registered, live_list_, edge>>
        BY <1>1, <1>8
    <3>3. Types' /\ PoolInv'
        BY <1>8, <1>7, <3>1 DEF Types
    <3> QED
        BY <3>2, <3>3 DEF StatusInv
  <2>3. OpInv'
      BY <1>1, <1>2, <1>8, <2>1, RefuseOps
  <2>4. ASSUME NEW g \in Files, NEW l \in Kinds, data[g] \in P, Wanted(data[g], l)'
        PROVE  Wanted(data[g], l)
      BY <1>1, <1>2, <1>3, <1>8, <2>4 DEF Wanted
  <2>5. CoverInv'
    <3>1. edge \subseteq edge' /\ \A g : ReadyKinds(g)' = ReadyKinds(g)
        BY <1>8 DEF ReadyKinds
    <3> QED
        BY <1>1, <2>4, <3>1, StartCovers
  <2> QED
      BY <2>2, <2>3, <2>5
<1>9. CASE /\ ~shutdown_[p] /\ Take(f, k)
           /\ result' = [result EXCEPT ![o] = "done"]
           /\ UNCHANGED <<op_queue_, mutex_>>
  <2>1. "done" \in Results \ {"queued", "starting"}
      BY DEF Results
  <2>2. /\ ready' \in [Files -> [Kinds -> 0..MaxReady]] /\ hung' \subseteq hung
        /\ UNCHANGED <<registered, edge>>
        /\ \A g \in Files : ReadyKinds(g)' \subseteq ReadyKinds(g)
      BY <1>9, TakeFacts
  <2>3. Types' /\ PoolInv' /\ StatusInv'
    <3>1. result' \in [Ops -> Results]
        BY <1>6, <1>9, <2>1
    <3>2. UNCHANGED <<status, data, registered, live_list_, edge>>
        BY <1>1, <2>2
    <3>3. Types' /\ PoolInv'
        BY <1>9, <1>7, <2>2, <3>1 DEF Types
    <3> QED
        BY <3>2, <3>3 DEF StatusInv
  <2>4. OpInv'
      BY <1>1, <1>2, <1>9, <2>1, RefuseOps
  <2>5. ASSUME NEW g \in Files, NEW l \in Kinds, data[g] \in P, Wanted(data[g], l)'
        PROVE  Wanted(data[g], l)
      BY <1>1, <1>2, <1>3, <1>9, <2>5 DEF Wanted
  <2>6. CoverInv'
    <3>1. edge \subseteq edge'
        BY <2>2
    <3> QED
        BY <1>1, <2>2, <2>5, <3>1, StartCovers
  <2> QED
      BY <2>3, <2>4, <2>6
<1>10. CASE /\ ~shutdown_[p] /\ k \notin ReadyKinds(f) /\ Hold(o, p)
           /\ result' = [result EXCEPT ![o] = "starting"]
           /\ UNCHANGED <<ready, hung, edge, op_queue_>>
  <2>1. "starting" \in Results
      BY DEF Results
  <2>2. /\ mutex_' \in [P -> Ops \cup {None}] /\ mutex_'[p] = o
        /\ \A q \in P : q # p => mutex_'[q] = mutex_[q]
      BY <1>1, <1>10 DEF Hold, Types
  <2>3. Types' /\ PoolInv' /\ StatusInv'
    <3>1. result' \in [Ops -> Results]
        BY <1>6, <1>10, <2>1
    <3>2. UNCHANGED <<status, data, registered, live_list_, edge>>
        BY <1>1, <1>10
    <3>3. Types' /\ PoolInv'
        BY <1>10, <1>7, <2>2, <3>1 DEF Types
    <3> QED
        BY <3>2, <3>3 DEF StatusInv
  <2>4. OpInv'
    <3>1. StateInv /\ OpInv
        OBVIOUS
    <3>2. /\ result[o] = "new" /\ mutex_[p] = None /\ Hold(o, p) /\ OpenFor(p, o, k)'
          /\ result' = [result EXCEPT ![o] = "starting"]
          /\ \A u \in Ops : u # o => target'[u] = target[u]
          /\ UNCHANGED <<op_queue_, live_list_, descriptor_, status>>
        BY <1>1, <1>2, <1>5, <1>10
    <3> HIDE DEF CoreInv, StateInv
    <3> QED
        BY <1>1, <3>1, <3>2, HoldOps
  <2>5. ASSUME NEW g \in Files, NEW l \in Kinds,
               l \in ReadyKinds(g), data[g] \in P, Wanted(data[g], l)'
        PROVE  Wanted(data[g], l)
    <3>1. CASE data[g] = p
      <4>1. g = f /\ descriptor_[p] = f
          BY <1>5, <1>10, <3>1
      <4>2. l # k
          BY <1>10, <2>5, <4>1
      <4>3. target'[mutex_'[p]] # <<descriptor_[p], l>>
          BY <1>2, <1>10, <2>2, <4>2
      <4> QED
          BY <1>1, <1>10, <2>5, <3>1, <4>3 DEF Wanted
    <3>2. CASE data[g] # p
        BY <1>1, <1>2, <1>3, <1>10, <2>2, <2>5, <3>2 DEF Wanted
    <3> QED
        BY <3>1, <3>2
  <2>6. CoverInv'
    <3>1. edge \subseteq edge' /\ \A g : ReadyKinds(g)' = ReadyKinds(g)
        BY <1>10 DEF ReadyKinds
    <3> QED
        BY <1>1, <2>5, <3>1, StartCovers
  <2> QED
      BY <2>3, <2>4, <2>6
<1>11. CASE /\ ~shutdown_[p] /\ Push(o, p, k) /\ UNCHANGED <<ready, hung, mutex_>>
            /\ IF op_queue_[p][k] = <<>> THEN Modify(f) ELSE edge' = edge
  <2>1. /\ op_queue_[p] \in [Kinds -> Seq(Ops)] /\ op_queue_[p][k] \in Seq(Ops)
        /\ op_queue_ \in [P -> [Kinds -> Seq(Ops)]]
      BY <1>1 DEF Types
  <2>2. Append(op_queue_[p][k], o) \in Seq(Ops)
      BY <2>1, AppendFacts
  <2>3. [op_queue_[p] EXCEPT ![k] = Append(@, o)] \in [Kinds -> Seq(Ops)]
      BY <2>1, <2>2
  <2>4. op_queue_' = [op_queue_ EXCEPT ![p] = [op_queue_[p] EXCEPT ![k] = Append(@, o)]]
      BY <1>1, <1>11, <2>1 DEF Push
  <2>5. /\ op_queue_' \in [P -> [Kinds -> Seq(Ops)]]
        /\ \A q \in P : \A l \in Kinds :
              q # p \/ l # k => op_queue_'[q][l] = op_queue_[q][l]
      BY <1>1, <2>1, <2>3, <2>4
  <2>6. result' \in [Ops -> Results]
    <3>1. "queued" \in Results
        BY DEF Results
    <3> QED
        BY <1>6, <1>11, <3>1 DEF Push
  <2>7. /\ edge \subseteq edge' /\ edge' \subseteq edge \cup {f}
        /\ op_queue_[p][k] = <<>> /\ k \in ReadyKinds(f) => f \in edge'
      BY <1>11 DEF Modify
  <2>8. Types' /\ PoolInv'
      BY <1>11, <1>7, <2>5, <2>6, <2>7 DEF Types
  <2>9. StatusInv'
    <3>1. registered[f] # None
        BY <1>1, <1>5, <1>11, NoneIsNothing
    <3> QED
        BY <1>1, <2>7, <3>1 DEF StatusInv
  <2>10. OpInv'
    <3>1. \A q \in P : mutex_'[q] = IF mutex_[q] = o THEN None ELSE mutex_[q]
        BY <1>3, <1>11, NoneIsNothing
    <3> QED
        BY <1>1, <1>2, <1>4, <1>5, <1>11, <3>1, PushOps
  <2>11. ASSUME NEW g \in Files, NEW l \in Kinds,
                l \in ReadyKinds(g), data[g] \in P, Wanted(data[g], l)'
         PROVE  Wanted(data[g], l) \/ (g \in edge' /\ registered[g] = data[g])
    <3>1. CASE data[g] = p /\ l = k
      <4>1. g = f /\ registered[f] = p
          BY <1>5, <1>11, <3>1
      <4>2. CASE op_queue_[p][k] = <<>>
          BY <2>7, <2>11, <3>1, <4>1, <4>2
      <4>3. CASE op_queue_[p][k] # <<>>
          BY <3>1, <4>3 DEF Wanted
      <4> QED
          BY <4>2, <4>3
    <3>2. CASE ~(data[g] = p /\ l = k)
      <4>1. /\ op_queue_'[data[g]][l] = op_queue_[data[g]][l]
            /\ data' = data /\ mutex_' = mutex_ /\ descriptor_' = descriptor_
          BY <1>1, <1>11, <2>5, <2>11, <3>2
      <4>2. mutex_[data[g]] # None => target'[mutex_[data[g]]] = target[mutex_[data[g]]]
          BY <1>2, <1>3, <2>11
      <4> QED
          BY <2>11, <4>1, <4>2 DEF Wanted
    <3> QED
        BY <3>1, <3>2
  <2>12. CoverInv'
    <3>1. \A g : ReadyKinds(g)' = ReadyKinds(g)
        BY <1>11 DEF ReadyKinds
    <3> QED
        BY <1>1, <2>7, <2>11, <3>1, StartCovers
  <2> QED
      BY <2>8, <2>9, <2>10, <2>12
<1> QED
    BY <1>0, <1>8, <1>9, <1>10, <1>11 DEF StartOp, kernel, Started

LEMMA StartPushStep ==
    ASSUME CoreInv, NEW o \in Ops, StartPush(o)
    PROVE  CoreInv'
<1> USE DEF CoreInv, StateInv
<1>1. PICK p \in live_list_ : mutex_[p] = o
    BY DEF StartPush, OpInv, StartInv
<1>2. p \in P /\ o # None
    BY <1>1, NoneIsNothing DEF Types
<1>3. PICK k \in Kinds : OpenFor(p, o, k)
    BY <1>1, <1>2 DEF OpInv, StartInv
<1>4. data[target[o][1]] = p /\ target[o][2] = k
    BY <1>1, <1>3 DEF OpenFor, PoolInv
<1>5. /\ result[o] = "starting" /\ Push(o, p, k)
      /\ mutex_' = [mutex_ EXCEPT ![p] = None]
      /\ UNCHANGED <<status, data, shared, registered, ready, hung, edge, target, events, event>>
      /\ UNCHANGED <<live_list_, free_list_, descriptor_, shutdown_>>
    BY <1>4 DEF StartPush, objects, kernel, pool
<1>6. ASSUME NEW q \in P, mutex_[q] = o PROVE q = p
  <2>1. q \in live_list_ /\ descriptor_[q] = target[o][1]
    <3>1. PICK l \in Kinds : OpenFor(q, o, l)
        BY <1>2, <1>6 DEF OpInv, StartInv
    <3> QED
        BY <3>1 DEF OpenFor
  <2> QED
      BY <1>1, <1>3, <2>1 DEF OpenFor, PoolInv
<1>7. \A q \in P : mutex_'[q] = IF mutex_[q] = o THEN None ELSE mutex_[q]
    BY <1>1, <1>2, <1>5, <1>6 DEF Types
<1>8. Types' /\ PoolInv' /\ StatusInv'
  <2>1. /\ op_queue_[p] \in [Kinds -> Seq(Ops)] /\ op_queue_[p][k] \in Seq(Ops)
        /\ op_queue_ \in [P -> [Kinds -> Seq(Ops)]]
      BY <1>2 DEF Types
  <2>2. Append(op_queue_[p][k], o) \in Seq(Ops)
      BY <2>1, AppendFacts
  <2>3. [op_queue_[p] EXCEPT ![k] = Append(@, o)] \in [Kinds -> Seq(Ops)]
      BY <2>1, <2>2
  <2>4. op_queue_' = [op_queue_ EXCEPT ![p] = [op_queue_[p] EXCEPT ![k] = Append(@, o)]]
      BY <1>2, <1>5, <2>1 DEF Push
  <2>5. op_queue_' \in [P -> [Kinds -> Seq(Ops)]]
      BY <1>2, <2>1, <2>3, <2>4
  <2>6. result' \in [Ops -> Results]
      BY <1>5 DEF Push, Types, Results
  <2>7. mutex_' \in [P -> Ops \cup {None}]
      BY <1>5 DEF Types
  <2> QED
      BY <1>5, <2>5, <2>6, <2>7 DEF Types, PoolInv, StatusInv, Used, Collected
<1>9. OpInv'
  <2>1. \A q \in live_list_ : StillOpen(q)
      BY <1>5 DEF StillOpen
  <2>2. OpenFor(p, o, k)'
      BY <1>3, <1>5 DEF OpenFor
  <2> QED
      BY <1>2, <1>5, <1>7, <2>1, <2>2, PushOps
<1>10. CoverInv'
  <2>1. \A q \in P : \A l \in Kinds :
           q # p \/ l # k => op_queue_'[q][l] = op_queue_[q][l]
      BY <1>5 DEF Push, Types
  <2>2. Wanted(p, k)
      BY <1>1, <1>2, <1>3 DEF Wanted, OpenFor
  <2>3. ASSUME NEW g \in Files, NEW l \in Kinds, data[g] \in P, Wanted(data[g], l)'
        PROVE  Wanted(data[g], l)
    <3>1. CASE data[g] = p /\ l = k
        BY <2>2, <3>1
    <3>2. CASE ~(data[g] = p /\ l = k)
        BY <1>5, <1>7, <2>1, <2>3, <3>2 DEF Wanted
    <3> QED
        BY <3>1, <3>2
  <2>4. edge \subseteq edge' /\ \A g : ReadyKinds(g)' = ReadyKinds(g)
      BY <1>5 DEF ReadyKinds
  <2> QED
      BY <1>5, <2>3, <2>4, StartCovers
<1> QED
    BY <1>8, <1>9, <1>10

-----------------------------------------------------------------------------
(* The theorems.                                                           *)

LEMMA InvInit == Init => CoreInv
<1> SUFFICES ASSUME Init PROVE CoreInv
    OBVIOUS
<1> USE DEF Init
<1>1. NoOps \in [Kinds -> Seq(Ops)] /\ \A k \in Kinds : NoOps[k] = <<>>
    BY DEF NoOps
<1>2. Types
  <2>1. States \in Seq(P)
      BY DEF P
  <2>2. op_queue_ \in [P -> [Kinds -> Seq(Ops)]]
      BY <1>1
  <2>3. \A f \in Files : [k \in Kinds |-> 0] \in [Kinds -> 0..MaxReady]
      OBVIOUS
  <2>4. ready \in [Files -> [Kinds -> 0..MaxReady]]
      BY <2>3
  <2>5. result \in [Ops -> Results]
      BY DEF Results
  <2> QED
      BY <2>1, <2>2, <2>4, <2>5 DEF Types, Collected
<1>3. PoolInv /\ StatusInv
    BY NoneIsNothing DEF PoolInv, StatusInv, Used
<1>4. OpInv
    BY <1>1, EmptyFacts DEF OpInv, QueueInv, StartInv
<1>5. CoverInv
    BY DEF CoverInv, ReadyKinds
<1> QED
    BY <1>2, <1>3, <1>4, <1>5 DEF CoreInv, StateInv

LEMMA InvStep == CoreInv /\ EventInv /\ HungInv /\ [Next]_vars => CoreInv'
<1> SUFFICES ASSUME CoreInv, EventInv, HungInv, [Next]_vars PROVE CoreInv'
    OBVIOUS
<1>1. ASSUME NEW f \in Files,
             RegisterDescriptor(f) \/ RegisterFails(f) \/ \E o \in Ops : RegisterInternal(f, o)
      PROVE  CoreInv'
    BY <1>1, RegisterStep
<1>2. ASSUME NEW f \in Files, CancelOps(f) PROVE CoreInv'
    BY <1>2, CancelStep
<1>3. ASSUME NEW f \in Files, CloseDescriptor(f) PROVE CoreInv'
    BY <1>3, CloseStep
<1>4. ASSUME NEW f \in Files, NEW closing \in BOOLEAN, Deregister(f, closing) PROVE CoreInv'
    BY <1>4, DeregisterStep
<1>5. ASSUME NEW f \in Files, NEW k \in Kinds, Arrive(f, k) \/ Consume(f, k)
      PROVE  CoreInv'
    BY <1>5, ArriveStep, ConsumeStep
<1>13. ASSUME NEW f \in Files, HangUp(f) PROVE CoreInv'
    BY <1>13, HangUpStep
<1>14. ASSUME HandleEvent PROVE CoreInv'
    BY <1>14, HandleStep
<1>15. ASSUME NEW f \in Files, NEW o \in Ops, StartClosed(f, o) PROVE CoreInv'
    BY <1>15, StartClosedStep
<1>6. ASSUME NEW f \in Files, NEW k \in Kinds, NEW o \in Ops, StartOp(f, k, o)
      PROVE  CoreInv'
    BY <1>6, StartOpStep
<1>7. ASSUME NEW o \in Ops, StartPush(o) PROVE CoreInv'
    BY <1>7, StartPushStep
<1>8. ASSUME NEW F \in SUBSET Files, EpollWait(F) PROVE CoreInv'
    BY <1>8, WaitStep
<1>9. ASSUME NEW e \in events, TakeEvent(e) PROVE CoreInv'
    BY <1>9, TakeEventStep
<1>10. ASSUME ForkParent \/ ChildCloses \/ ForkChild \/ Shutdown PROVE CoreInv'
    BY <1>10, ForkStep, ChildClosesStep, ShutdownStep
<1>11. CASE UNCHANGED vars
  <2>1. /\ UNCHANGED <<status, data, shared, registered, ready, hung, edge, mutex_, events, event>>
        /\ UNCHANGED <<live_list_, free_list_, descriptor_, shutdown_>>
        /\ UNCHANGED <<op_queue_, result, target>>
      BY <1>11 DEF vars, objects, kernel, pool, ops
  <2>2. StateInv'
      BY <2>1 DEF CoreInv, StateInv, Types, PoolInv, StatusInv, Used, Collected
  <2>3. OpInv'
      BY <2>1, OpsStay DEF CoreInv, StillOpen, ops
  <2>4. CoverInv'
      BY <2>1 DEF CoreInv, CoverInv, Wanted, Covered, Collected, ReadyKinds
  <2> QED
      BY <2>2, <2>3, <2>4 DEF CoreInv
<1>12. CASE Next
    BY <1>1, <1>2, <1>3, <1>4, <1>5, <1>6, <1>7, <1>8, <1>9, <1>10, <1>12, <1>13, <1>14,
       <1>15 DEF Next
<1> QED
    BY <1>11, <1>12

-----------------------------------------------------------------------------
(* Orders.                                                                 *)

LEMMA EventStep == CoreInv /\ EventInv /\ [Next]_vars => EventInv'
<1> SUFFICES ASSUME CoreInv, EventInv, [Next]_vars PROVE EventInv'
    OBVIOUS
<1>1. ASSUME UNCHANGED <<mutex_, event>> PROVE EventInv'
    BY <1>1 DEF EventInv
<1>2. mutex_ \in [P -> Ops \cup {None}] /\ (event # None => event.ptr \in P)
  <2>1. event # None => event \in Events
      BY DEF CoreInv, StateInv, Types, Collected
  <2> QED
      BY <2>1, EventIs DEF CoreInv, StateInv, Types
<1>3. ASSUME NEW f \in Files, NEW k \in Kinds, NEW o \in Ops, StartOp(f, k, o)
      PROVE  EventInv'
  <2>1. event' = event /\ (event # None => event.ptr # data[f])
      BY <1>3 DEF StartOp, Open, Unlocked
  <2>2. mutex_' = mutex_ \/ mutex_' = [mutex_ EXCEPT ![data[f]] = o]
      BY <1>3 DEF StartOp, Hold
  <2> QED
      BY <1>2, <2>1, <2>2 DEF EventInv
<1>4. ASSUME NEW o \in Ops, StartPush(o) PROVE EventInv'
    BY <1>2, <1>4 DEF StartPush, EventInv
<1>5. ASSUME NEW e \in events, TakeEvent(e) PROVE EventInv'
    BY <1>5 DEF TakeEvent, EventInv
<1>6. ASSUME HandleEvent PROVE EventInv'
  <2>1. event # None /\ mutex_' = mutex_ /\ event \in Events
      BY <1>6 DEF HandleEvent, CoreInv, StateInv, Types, Collected
  <2>2. event' # None => event'.ptr = event.ptr
    <3>1. ASSUME NEW k, event' = [event EXCEPT !.flags = @ \ {k}]
          PROVE  event'.ptr = event.ptr
        BY <2>1, <3>1 DEF Events
    <3>2. \/ event' = event \/ event' = None
          \/ \E k : event' = [event EXCEPT !.flags = @ \ {k}]
        BY <1>6, Zenon DEF HandleEvent
    <3> QED
        BY <3>1, <3>2
  <2> QED
      BY <2>1, <2>2 DEF EventInv
<1>7. ASSUME NEW f \in Files,
             \/ RegisterDescriptor(f) \/ RegisterFails(f) \/ CancelOps(f) \/ CloseDescriptor(f)
             \/ HangUp(f)
             \/ \E closing \in BOOLEAN : Deregister(f, closing)
             \/ \E o \in Ops : RegisterInternal(f, o)
             \/ \E o \in Ops : StartClosed(f, o)
             \/ \E k \in Kinds : Arrive(f, k) \/ Consume(f, k)
      PROVE  UNCHANGED <<mutex_, event>>
    BY <1>7 DEF RegisterDescriptor, RegisterFails, CancelOps, CloseDescriptor, HangUp,
                Deregister, RegisterInternal, StartClosed, Arrive, Consume
<1>8. ASSUME \/ \E F \in SUBSET Files : EpollWait(F)
             \/ ForkParent \/ ChildCloses \/ ForkChild \/ Shutdown \/ UNCHANGED vars
      PROVE  UNCHANGED <<mutex_, event>>
    BY <1>8 DEF EpollWait, ForkParent, ChildCloses, ForkChild, Shutdown, vars
<1> QED
    BY <1>1, <1>3, <1>4, <1>5, <1>6, <1>7, <1>8 DEF Next

\* Operations end without completing, or nothing happens to them.
Endings ==
    /\ \A p \in P : \A k \in Kinds :
          op_queue_'[p][k] = op_queue_[p][k] \/ op_queue_'[p][k] = <<>>
    /\ \A o \in Ops :
          \/ result'[o] = result[o] /\ target'[o] = target[o] /\ ahead'[o] = ahead[o]
          \/ result'[o] \in {"aborted", "destroyed"} /\ ahead'[o] \subseteq ahead[o]
    /\ ahead' \in [Ops -> SUBSET Ops]
    /\ mutex_' = mutex_

LEMMA EndingsOrMore ==
    ASSUME CoreInv, OrderInv, [Next]_vars
    PROVE  \/ Endings \/ HandleEvent
           \/ \E f \in Files, o \in Ops : RegisterInternal(f, o)
           \/ \E f \in Files, k \in Kinds, o \in Ops : StartOp(f, k, o)
           \/ \E o \in Ops : StartPush(o)
<1>1. ahead \in [Ops -> SUBSET Ops] /\ Types
    BY DEF OrderInv, CoreInv, StateInv
<1>2. ASSUME UNCHANGED <<op_queue_, result, target, ahead, mutex_>> PROVE Endings
    BY <1>1, <1>2 DEF Endings
<1>3. ASSUME NEW O \in SUBSET Ops, NEW how \in {"aborted", "destroyed"}, Forget(O),
             \A o \in Ops : result'[o] = IF o \in O THEN how ELSE result[o],
             \A p \in P : \A k \in Kinds :
                op_queue_'[p][k] = op_queue_[p][k] \/ op_queue_'[p][k] = <<>>,
             mutex_' = mutex_
      PROVE  Endings
    BY <1>1, <1>3 DEF Forget, Endings
<1>4. ASSUME NEW p \in P, NEW how \in {"aborted", "destroyed"}, End(p, how), mutex_' = mutex_
      PROVE  Endings
  <2>1. QueuedAt(p) \in SUBSET Ops
      BY <1>1 DEF QueuedAt, ToSet, Types
  <2>2. /\ \A k \in Kinds : op_queue_'[p][k] = <<>>
        /\ \A q \in P : q # p => op_queue_'[q] = op_queue_[q]
        /\ \A o \in Ops : result'[o] = IF o \in QueuedAt(p) THEN how ELSE result[o]
      BY <1>1, <1>4, EndFacts
  <2>3. Forget(QueuedAt(p))
      BY <1>4 DEF End
  <2> QED
      BY <1>3, <1>4, <2>1, <2>2, <2>3
<1>5. ASSUME NEW f \in Files, CancelOps(f) PROVE Endings
  <2>1. data[f] \in P /\ End(data[f], "aborted") /\ mutex_' = mutex_
      BY <1>5 DEF CancelOps, Open, CoreInv, StateInv, StatusInv
  <2> QED
      BY <1>4, <2>1
<1>6. ASSUME NEW f \in Files, NEW closing \in BOOLEAN, Deregister(f, closing) PROVE Endings
  <2>1. /\ data[f] \in P /\ mutex_' = mutex_
        /\ \/ \E how \in {"aborted", "destroyed"} : End(data[f], how)
           \/ UNCHANGED <<op_queue_, result, target, ahead>>
      BY <1>6 DEF Deregister, Open, CoreInv, StateInv, StatusInv, ops
  <2> QED
      BY <1>2, <1>4, <2>1
<1>7. ASSUME Shutdown PROVE Endings
  <2>1. /\ op_queue_' = [p \in P |-> NoOps] /\ mutex_' = mutex_
        /\ result' = [o \in Ops |-> IF result[o] = "queued" THEN "destroyed" ELSE result[o]]
        /\ Forget({o \in Ops : result[o] = "queued"})
      BY <1>7 DEF Shutdown
  <2>2. \A p \in P : \A k \in Kinds : op_queue_'[p][k] = <<>>
      BY <2>1 DEF NoOps
  <2>3. \A o \in Ops :
           result'[o] = IF o \in {u \in Ops : result[u] = "queued"} THEN "destroyed" ELSE result[o]
      BY <2>1
  <2> QED
      BY <1>3, <2>1, <2>2, <2>3
<1>8. ASSUME NEW f \in Files, NEW o \in Ops, StartClosed(f, o) PROVE Endings
  <2>1. /\ UNCHANGED <<op_queue_, target, ahead, mutex_>>
        /\ result' = [result EXCEPT ![o] = "aborted"]
      BY <1>8 DEF StartClosed
  <2>2. result'[o] = "aborted" /\ \A u \in Ops : u # o => result'[u] = result[u]
      BY <1>1, <2>1 DEF Types
  <2> QED
      BY <1>1, <2>1, <2>2 DEF Endings
<1>9. ASSUME NEW f \in Files,
             \/ RegisterDescriptor(f) \/ RegisterFails(f) \/ CloseDescriptor(f) \/ HangUp(f)
             \/ \E k \in Kinds : Arrive(f, k) \/ Consume(f, k)
      PROVE  UNCHANGED <<op_queue_, result, target, ahead, mutex_>>
    BY <1>9 DEF RegisterDescriptor, RegisterFails, CloseDescriptor, HangUp, Arrive, Consume, ops
<1>10. ASSUME \/ \E F \in SUBSET Files : EpollWait(F)
              \/ \E e \in events : TakeEvent(e)
              \/ ForkParent \/ ChildCloses \/ ForkChild \/ UNCHANGED vars
       PROVE  UNCHANGED <<op_queue_, result, target, ahead, mutex_>>
    BY <1>10 DEF EpollWait, TakeEvent, ForkParent, ChildCloses, ForkChild, vars, ops
<1> QED
    BY <1>2, <1>5, <1>6, <1>7, <1>8, <1>9, <1>10, Zenon DEF Next

\* What happens to files and children.
LEMMA FileFacts ==
    ASSUME CoreInv, [Next]_vars, NEW f \in Files
    PROVE  /\ status'[f] = "new" => status[f] = "new"
           /\ f \in shared' => f \in shared \/ status[f] = "open"
           /\ f \in hung' => f \in hung \/ HangUp(f)
<1>1. Types
    BY DEF CoreInv, StateInv
<1> DEFINE Goal == /\ status'[f] = "new" => status[f] = "new"
                   /\ f \in shared' => f \in shared \/ status[f] = "open"
                   /\ f \in hung' => f \in hung \/ HangUp(f)
<1>2. ASSUME UNCHANGED <<status, shared, hung>> PROVE Goal
    BY <1>2
<1>3. ASSUME NEW g \in Files, NEW k \in Kinds, Take(g, k) PROVE hung' \subseteq hung
    BY <1>3 DEF Take
<1>4. ASSUME NEW g \in Files, NEW s \in {"open", "closing", "closed", "failed"},
             status' = [status EXCEPT ![g] = s], shared' = shared, hung' \subseteq hung
      PROVE  Goal
    BY <1>1, <1>4 DEF Types
<1>5. ASSUME status' = status, hung' \subseteq hung, shared' \subseteq shared \cup OpenFiles
      PROVE  Goal
    BY <1>5 DEF OpenFiles
<1> HIDE DEF Goal
<1>6. ASSUME NEW g \in Files,
             \/ RegisterDescriptor(g) \/ RegisterFails(g) \/ CloseDescriptor(g)
             \/ \E closing \in BOOLEAN : Deregister(g, closing)
             \/ \E o \in Ops : RegisterInternal(g, o)
      PROVE  Goal
  <2>1. /\ \E s \in {"open", "closing", "closed", "failed"} : status' = [status EXCEPT ![g] = s]
        /\ shared' = shared /\ hung' \subseteq hung
      BY <1>6 DEF RegisterDescriptor, RegisterFails, CloseDescriptor, Deregister,
                  RegisterInternal, kernel, Vanish
  <2> QED
      BY <1>4, <2>1
<1>7. ASSUME HangUp(f) PROVE Goal
    BY <1>7 DEF HangUp, objects, Goal
<1>8. ASSUME NEW g \in Files, g # f, HangUp(g) PROVE Goal
    BY <1>8 DEF HangUp, objects, Goal
<1>9. ASSUME NEW g \in Files,
             \/ CancelOps(g) \/ \E o \in Ops : StartClosed(g, o)
             \/ \E k \in Kinds : Arrive(g, k)
             \/ \E F \in SUBSET Files : EpollWait(F)
             \/ \E o \in Ops : StartPush(o)
      PROVE  UNCHANGED <<status, shared, hung>>
    BY <1>9 DEF CancelOps, StartClosed, Arrive, EpollWait, StartPush, objects, kernel
<1>10. ASSUME \/ \E F \in SUBSET Files : EpollWait(F)
              \/ \E o \in Ops : StartPush(o)
              \/ \E e \in events : TakeEvent(e)
              \/ Shutdown \/ UNCHANGED vars
       PROVE  UNCHANGED <<status, shared, hung>>
    BY <1>10 DEF EpollWait, StartPush, TakeEvent, Shutdown, vars, objects, kernel
<1>11. ASSUME NEW g \in Files, NEW k \in Kinds, NEW o \in Ops, StartOp(g, k, o) PROVE Goal
  <2>1. UNCHANGED <<status, shared>>
      BY <1>11 DEF StartOp, objects
  <2>2. hung' = hung \/ Take(g, k)
      BY <1>11 DEF StartOp, kernel
  <2> QED
      BY <1>3, <1>5, <2>1, <2>2
<1>12. ASSUME NEW g \in Files, NEW k \in Kinds, Consume(g, k) PROVE Goal
  <2>1. UNCHANGED <<status, shared>> /\ Take(g, k)
      BY <1>12 DEF Consume, objects
  <2> QED
      BY <1>3, <1>5, <2>1
<1>13. ASSUME HandleEvent PROVE Goal
  <2>1. UNCHANGED <<status, shared>>
      BY <1>13 DEF HandleEvent, objects
  <2>2. hung' \subseteq hung
      BY <1>13 DEF HandleEvent, Take, kernel
  <2> QED
      BY <1>5, <2>1, <2>2
<1>14. ASSUME ForkParent \/ ChildCloses \/ ForkChild PROVE Goal
  <2>1. status' = status /\ hung' \subseteq hung /\ shared' \subseteq shared \cup OpenFiles
      BY <1>14 DEF ForkParent, ChildCloses, ForkChild, Vanish, kernel
  <2> QED
      BY <1>5, <2>1
<1>15. Goal
    BY <1>2, <1>6, <1>7, <1>8, <1>9, <1>10, <1>11, <1>12, <1>13, <1>14, Zenon DEF Next
<1> QED
    BY <1>15 DEF Goal

\* Internal operations wait from their registration on.
LEMMA InternalFacts ==
    ASSUME CoreInv, OrderInv, [Next]_vars, NEW o \in Internal, result'[o] \in Waiting
    PROVE  \/ result[o] \in Waiting /\ target'[o] = target[o]
           \/ \E g \in Files : status[g] = "new" /\ target'[o] = <<g, 0>>
<1>1. Types /\ o \in Ops
    BY DEF CoreInv, StateInv
<1>2. CASE Endings
    BY <1>1, <1>2 DEF Endings, Waiting
<1>3. CASE HandleEvent
  <2>1. /\ target' = target
        /\ result' = result \/ \E u : result' = [result EXCEPT ![u] = "done"]
      BY <1>3 DEF HandleEvent
  <2> QED
      BY <1>1, <2>1 DEF Types, Waiting
<1>4. ASSUME NEW g \in Files, NEW u \in Ops, RegisterInternal(g, u)
      PROVE  \/ result[o] \in Waiting /\ target'[o] = target[o]
             \/ status[g] = "new" /\ target'[o] = <<g, 0>>
    BY <1>1, <1>4 DEF RegisterInternal, Started, Alloc, Types
<1>5. ASSUME NEW g \in Files, NEW k \in Kinds, NEW u \in Ops, StartOp(g, k, u)
      PROVE  result[o] \in Waiting /\ target'[o] = target[o]
  <2>1. /\ u # o
        /\ \E how : result' = [result EXCEPT ![u] = how]
        /\ target' = target \/ target' = [target EXCEPT ![u] = <<g, k>>]
      BY <1>5 DEF StartOp, Started, Push
  <2> QED
      BY <1>1, <2>1 DEF Types
<1>6. ASSUME NEW u \in Ops, StartPush(u)
      PROVE  result[o] \in Waiting /\ target'[o] = target[o]
    BY <1>1, <1>6 DEF StartPush, Push, Types, Waiting
<1> QED
    BY <1>2, <1>3, <1>4, <1>5, <1>6, EndingsOrMore

LEMMA HungStep == CoreInv /\ EventInv /\ HungInv /\ OrderInv /\ [Next]_vars => HungInv'
<1> SUFFICES ASSUME CoreInv, EventInv, HungInv, OrderInv, [Next]_vars PROVE HungInv'
    OBVIOUS
<1>1. hung' \subseteq Files /\ shared' \subseteq Files
    BY InvStep DEF CoreInv, StateInv, Types
<1>2. ASSUME NEW f \in hung', NEW o \in Internal, result'[o] \in Waiting
      PROVE  target'[o] \notin {f} \X Kinds
  <2>1. CASE HangUp(f)
      BY <2>1 DEF HangUp, ops
  <2>2. CASE f \in hung
    <3>1. CASE result[o] \in Waiting /\ target'[o] = target[o]
        BY <2>2, <3>1 DEF HungInv
    <3>2. ASSUME NEW g \in Files, status[g] = "new", target'[o] = <<g, 0>>
          PROVE  target'[o] \notin {f} \X Kinds
        BY <2>2, <3>2 DEF HungInv
    <3> QED
        BY <1>2, <3>1, <3>2, InternalFacts
  <2> QED
      BY <1>1, <2>1, <2>2, FileFacts
<1>3. ASSUME NEW f \in hung' \cup shared' PROVE status'[f] # "new"
  <2>1. f \in Files
      BY <1>1
  <2>2. status[f] = "new" => ~HangUp(f) /\ f \notin hung /\ f \notin shared
      BY DEF HungInv, HangUp, Exists
  <2> QED
      BY <2>1, <2>2, FileFacts
<1> QED
    BY <1>2, <1>3 DEF HungInv

\* The orders of the queues when some become shorter.
LEMMA OrderShrinks ==
    ASSUME CoreInv, OrderInv, ahead' \in [Ops -> SUBSET Ops],
           \A o \in Ops : ahead'[o] \subseteq ahead[o],
           \A o \in Ops : result[o] # "new" => result'[o] # "new",
           \A p \in P : \A k \in Kinds :
              \/ op_queue_'[p][k] = op_queue_[p][k] \/ op_queue_'[p][k] = <<>>
              \/ op_queue_[p][k] # <<>> /\ op_queue_'[p][k] = Tail(op_queue_[p][k]),
           \A p \in P : mutex_'[p] = mutex_[p]
    PROVE  OrderInv'
<1>1. \A x \in Ops : \A o \in ahead'[x] : result'[o] # "new"
    BY DEF OrderInv
<1>2. ASSUME NEW p \in P, NEW k \in Kinds
      PROVE  /\ InTurn(op_queue_'[p][k], ahead')
             /\ \A x \in ToSet(op_queue_'[p][k]) : x \in ToSet(op_queue_[p][k])
  <2> PICK s : s = op_queue_[p][k]
      OBVIOUS
  <2>1. s \in Seq(Ops) /\ IsInjective(s) /\ InTurn(s, ahead)
      BY DEF CoreInv, StateInv, OpInv, Types, QueueInv, OrderInv
  <2>2. DOMAIN s = 1..Len(s) /\ Len(s) \in Nat /\ \A i \in DOMAIN s : s[i] \in Ops
      BY <2>1
  <2>3. InTurn(s, ahead')
      BY <2>1, <2>2 DEF InTurn
  <2>4. CASE op_queue_'[p][k] = <<>>
      BY <2>4, EmptyFacts DEF InTurn
  <2>5. CASE s # <<>> /\ op_queue_'[p][k] = Tail(s)
    <3> PICK r : r = Tail(s)
        OBVIOUS
    <3>1. /\ DOMAIN r = 1..(Len(s) - 1)
          /\ \A i \in 1..(Len(s) - 1) : i \in Int /\ r[i] = s[i + 1] /\ i + 1 \in DOMAIN s
        BY <2>1, <2>2, <2>5
    <3>2. ASSUME NEW i \in DOMAIN r, NEW j \in DOMAIN r, i < j PROVE r[j] \notin ahead'[r[i]]
      <4>1. i + 1 < j + 1
          BY <3>1, <3>2
      <4> QED
          BY <2>3, <3>1, <4>1 DEF InTurn
    <3>3. \A y : y \in ToSet(r) <=> y \in ToSet(s) /\ y # Head(s)
        BY <2>1, <2>5, HeadFacts
    <3> QED
        BY <2>5, <3>2, <3>3 DEF InTurn
  <2> QED
      BY <2>3, <2>4, <2>5
<1>3. ASSUME NEW p \in P, NEW k \in Kinds, mutex_'[p] # None, NEW x \in ToSet(op_queue_'[p][k])
      PROVE  mutex_'[p] \notin ahead'[x]
  <2>1. x \in ToSet(op_queue_[p][k])
      BY <1>2, Zenon
  <2>2. x \in Ops
    <3>1. op_queue_[p][k] \in Seq(Ops)
        BY DEF CoreInv, StateInv, Types
    <3> QED
        BY <2>1, <3>1 DEF ToSet
  <2> QED
      BY <1>3, <2>1, <2>2 DEF OrderInv
<1> QED
    BY <1>1, <1>2, <1>3 DEF OrderInv

\* An operation starts, and is not queued.
LEMMA OrderStarts ==
    ASSUME CoreInv, OrderInv, NEW o \in Ops, result[o] = "new", ahead' \in [Ops -> SUBSET Ops],
           \A x \in Ops : x # o => ahead'[x] = ahead[x],
           \A y \in ahead'[o] : result[y] # "new",
           \A x \in Ops : result[x] # "new" => result'[x] # "new",
           op_queue_' = op_queue_,
           \A p \in P : mutex_'[p] \in {mutex_[p], o}
    PROVE  OrderInv'
<1>1. \A x \in Ops : \A y \in ahead'[x] : result'[y] # "new"
    BY DEF OrderInv
<1>2. ASSUME NEW p \in P, NEW k \in Kinds
      PROVE  /\ op_queue_[p][k] \in Seq(Ops)
             /\ \A x \in ToSet(op_queue_[p][k]) :
                   x \in Ops /\ ahead'[x] = ahead[x] /\ o \notin ahead[x]
  <2>1. op_queue_[p][k] \in Seq(Ops)
      BY DEF CoreInv, StateInv, Types
  <2>2. ASSUME NEW x \in ToSet(op_queue_[p][k])
        PROVE  x \in Ops /\ ahead'[x] = ahead[x] /\ o \notin ahead[x]
    <3>1. x \in Ops
        BY <2>1 DEF ToSet
    <3>2. result[x] = "queued"
        BY DEF CoreInv, OpInv, QueueInv
    <3> QED
        BY <3>1, <3>2 DEF OrderInv
  <2> QED
      BY <2>1, <2>2
<1>3. ASSUME NEW p \in P, NEW k \in Kinds PROVE InTurn(op_queue_[p][k], ahead')
  <2> PICK s : s = op_queue_[p][k]
      OBVIOUS
  <2>1. \A i \in DOMAIN s : s[i] \in ToSet(s)
      BY DEF ToSet
  <2>2. \A i \in DOMAIN s : ahead'[s[i]] = ahead[s[i]]
    <3>1. \A x \in ToSet(s) : ahead'[x] = ahead[x]
        BY <1>2
    <3> QED
        BY <2>1, <3>1, Zenon
  <2>3. InTurn(s, ahead)
      BY Zenon DEF OrderInv
  <2> QED
      BY <2>2, <2>3 DEF InTurn
<1>4. ASSUME NEW p \in P, NEW k \in Kinds, mutex_'[p] # None, NEW x \in ToSet(op_queue_[p][k])
      PROVE  mutex_'[p] \notin ahead'[x]
  <2>1. ahead'[x] = ahead[x] /\ o \notin ahead[x]
      BY <1>2
  <2> QED
      BY <1>4, <2>1 DEF OrderInv
<1> QED
    BY <1>1, <1>3, <1>4 DEF OrderInv

\* An operation that none of the queue has ahead is pushed.
LEMMA OrderPushes ==
    ASSUME CoreInv, OrderInv, NEW o \in Ops, NEW p \in P, NEW k \in Kinds,
           result[o] # "queued", Push(o, p, k), ahead' \in [Ops -> SUBSET Ops],
           \A x \in Ops : x # o => ahead'[x] = ahead[x],
           \A y \in ahead'[o] : result[y] # "new",
           \A x \in ToSet(op_queue_[p][k]) : o \notin ahead[x],
           mutex_'[p] = None, \A q \in P : q # p => mutex_'[q] = mutex_[q]
    PROVE  OrderInv'
<1>1. \A x \in Ops : \A y \in ahead'[x] : result'[y] # "new"
  <2>1. \A y \in Ops : result[y] # "new" => result'[y] # "new"
      BY DEF Push, CoreInv, StateInv, Types
  <2> QED
      BY <2>1 DEF OrderInv
<1>2. ASSUME NEW q \in P, NEW l \in Kinds
      PROVE  /\ op_queue_[q][l] \in Seq(Ops)
             /\ \A x \in ToSet(op_queue_[q][l]) : x \in Ops /\ x # o /\ ahead'[x] = ahead[x]
             /\ InTurn(op_queue_[q][l], ahead')
  <2>1. op_queue_[q][l] \in Seq(Ops)
      BY DEF CoreInv, StateInv, Types
  <2>2. ASSUME NEW x \in ToSet(op_queue_[q][l]) PROVE x \in Ops /\ x # o
    <3>1. result[x] = "queued"
        BY DEF CoreInv, OpInv, QueueInv
    <3> QED
        BY <2>1, <3>1 DEF ToSet
  <2>3. \A i \in DOMAIN op_queue_[q][l] : op_queue_[q][l][i] \in ToSet(op_queue_[q][l])
      BY DEF ToSet
  <2>4. InTurn(op_queue_[q][l], ahead)
      BY DEF OrderInv
  <2>5. ASSUME NEW i \in DOMAIN op_queue_[q][l], NEW j \in DOMAIN op_queue_[q][l], i < j
        PROVE  op_queue_[q][l][j] \notin ahead'[op_queue_[q][l][i]]
    <3>1. ahead'[op_queue_[q][l][i]] = ahead[op_queue_[q][l][i]]
        BY <2>2, <2>3
    <3> QED
        BY <2>4, <2>5, <3>1, Zenon DEF InTurn
  <2>6. InTurn(op_queue_[q][l], ahead')
      BY <2>5, Zenon DEF InTurn
  <2> QED
      BY <2>1, <2>2, <2>6
<1>3. /\ op_queue_'[p][k] = Append(op_queue_[p][k], o)
      /\ \A q \in P : \A l \in Kinds : q # p \/ l # k => op_queue_'[q][l] = op_queue_[q][l]
  <2>1. op_queue_ \in [P -> [Kinds -> Seq(Ops)]]
      BY DEF CoreInv, StateInv, Types
  <2> QED
      BY <2>1 DEF Push
<1>4. InTurn(op_queue_'[p][k], ahead')
  <2> PICK s : s = op_queue_[p][k]
      OBVIOUS
  <2> PICK r : r = Append(s, o)
      OBVIOUS
  <2>1. /\ s \in Seq(Ops) /\ InTurn(s, ahead')
        /\ \A x \in ToSet(s) : x # o /\ ahead'[x] = ahead[x] /\ o \notin ahead[x]
      BY <1>2
  <2>2. /\ DOMAIN r = 1..(Len(s) + 1) /\ DOMAIN s = 1..Len(s) /\ Len(s) \in Nat
        /\ \A i \in 1..Len(s) : r[i] = s[i]
        /\ r[Len(s) + 1] = o
      BY <2>1
  <2>3. ASSUME NEW i \in DOMAIN r, NEW j \in DOMAIN r, i < j PROVE r[j] \notin ahead'[r[i]]
    <3>1. i \in DOMAIN s /\ r[i] = s[i]
        BY <2>2, <2>3
    <3>2. CASE j = Len(s) + 1
      <4>1. s[i] \in ToSet(s)
          BY <3>1 DEF ToSet
      <4>2. ahead'[s[i]] = ahead[s[i]] /\ o \notin ahead[s[i]]
          BY <2>1, <4>1, Zenon
      <4>3. r[j] = o
          BY <2>2, <3>2, Zenon
      <4>4. o \notin ahead'[r[i]]
          BY <3>1, <4>2
      <4> QED
          BY <4>3, <4>4
    <3>3. CASE j # Len(s) + 1
      <4>1. j \in DOMAIN s /\ r[j] = s[j]
          BY <2>2, <3>3
      <4> QED
          BY <2>1, <2>3, <3>1, <4>1 DEF InTurn
    <3> QED
        BY <3>2, <3>3
  <2> QED
      BY <1>3, <2>3 DEF InTurn
<1>5. ASSUME NEW q \in P, NEW l \in Kinds, mutex_'[q] # None, NEW x \in ToSet(op_queue_'[q][l])
      PROVE  mutex_'[q] \notin ahead'[x]
  <2>1. q # p /\ mutex_'[q] = mutex_[q] /\ op_queue_'[q][l] = op_queue_[q][l]
      BY <1>3, <1>5
  <2>2. ahead'[x] = ahead[x]
      BY <1>2, <2>1
  <2> QED
      BY <1>5, <2>1, <2>2 DEF OrderInv
<1>6. ASSUME NEW q \in P, NEW l \in Kinds PROVE InTurn(op_queue_'[q][l], ahead')
  <2>1. CASE q = p /\ l = k
      BY <1>4, <2>1, Zenon
  <2>2. CASE q # p \/ l # k
    <3>1. op_queue_'[q][l] = op_queue_[q][l] /\ InTurn(op_queue_[q][l], ahead')
        BY <1>2, <1>3, <2>2, Zenon
    <3> QED
        BY <3>1, Zenon
  <2> QED
      BY <2>1, <2>2, Zenon
<1> QED
    BY <1>1, <1>5, <1>6 DEF OrderInv

LEMMA OrderStep == CoreInv /\ EventInv /\ OrderInv /\ [Next]_vars => OrderInv'
<1> SUFFICES ASSUME CoreInv, EventInv, OrderInv, [Next]_vars PROVE OrderInv'
    OBVIOUS
<1>1. /\ Types /\ ahead \in [Ops -> SUBSET Ops]
      /\ \A x \in Ops : \A o \in ahead[x] : result[o] # "new"
    BY DEF CoreInv, StateInv, OrderInv
<1>2. CASE Endings
  <2>1. \A o \in Ops : ahead'[o] \subseteq ahead[o]
      BY <1>2 DEF Endings
  <2>2. \A o \in Ops : result[o] # "new" => result'[o] # "new"
      BY <1>2 DEF Endings
  <2> QED
      BY <1>2, <2>1, <2>2, OrderShrinks DEF Endings
<1>3. CASE HandleEvent
  <2>1. /\ ahead' = ahead /\ mutex_' = mutex_
        /\ \/ UNCHANGED <<op_queue_, result>>
           \/ \E p, k : /\ op_queue_[p][k] # <<>>
                        /\ op_queue_' = [op_queue_ EXCEPT ![p][k] = Tail(@)]
                        /\ result' = [result EXCEPT ![Head(op_queue_[p][k])] = "done"]
      BY <1>3, Zenon DEF HandleEvent
  <2>2. ASSUME NEW p, NEW k, op_queue_[p][k] # <<>>,
               op_queue_' = [op_queue_ EXCEPT ![p][k] = Tail(@)],
               result' = [result EXCEPT ![Head(op_queue_[p][k])] = "done"]
        PROVE  /\ \A o \in Ops : result[o] # "new" => result'[o] # "new"
               /\ \A q \in P : \A l \in Kinds :
                     \/ op_queue_'[q][l] = op_queue_[q][l]
                     \/ op_queue_[q][l] # <<>> /\ op_queue_'[q][l] = Tail(op_queue_[q][l])
      BY <1>1, <2>2 DEF Types
  <2> QED
      BY <1>1, <2>1, <2>2, OrderShrinks
<1>4. ASSUME NEW f \in Files, NEW o \in Ops, RegisterInternal(f, o) PROVE OrderInv'
  <2>1. /\ result[o] = "new" /\ Alloc(f) /\ 0 \in Kinds
        /\ op_queue_' = [op_queue_ EXCEPT ![data'[f]][0] = Append(@, o)]
        /\ result' = [result EXCEPT ![o] = "queued"]
        /\ Started(o, f, 0) /\ mutex_' = mutex_
      BY <1>4 DEF RegisterInternal
  <2> PICK n : n = Head(free_list_)
      OBVIOUS
  <2>2. /\ n \in P /\ mutex_[n] = None /\ op_queue_[n][0] = <<>>
        /\ data' = [data EXCEPT ![f] = n]
      BY <2>1, AllocFacts
  <2>3. data'[f] = n
      BY <1>1, <2>2 DEF Types
  <2>4. Push(o, n, 0)
      BY <2>1, <2>3 DEF Push
  <2>5. /\ ahead' \in [Ops -> SUBSET Ops] /\ \A x \in Ops : x # o => ahead'[x] = ahead[x]
        /\ \A y \in ahead'[o] : result[y] # "new"
      BY <1>1, <2>1 DEF Started, Waiting
  <2> QED
      BY <2>1, <2>2, <2>4, <2>5, EmptyFacts, OrderPushes
<1>5. ASSUME NEW f \in Files, NEW k \in Kinds, NEW o \in Ops, StartOp(f, k, o) PROVE OrderInv'
  <2> PICK p : p = data[f]
      OBVIOUS
  <2>1. p \in P /\ mutex_[p] = None /\ result[o] = "new"
      BY <1>5 DEF StartOp, Open, Unlocked, CoreInv, StateInv, StatusInv
  <2>2. ASSUME Started(o, f, k)
        PROVE  /\ ahead' \in [Ops -> SUBSET Ops] /\ \A x \in Ops : x # o => ahead'[x] = ahead[x]
               /\ \A y \in ahead'[o] : result[y] # "new"
      BY <1>1, <2>2 DEF Started, Waiting
  <2>3. ASSUME NEW how \in {"destroyed", "done", "starting"}, result' = [result EXCEPT ![o] = how]
        PROVE  \A x \in Ops : result[x] # "new" => result'[x] # "new"
      BY <1>1, <2>3 DEF Types
  <2>4. CASE UNCHANGED <<op_queue_, ahead, mutex_>> /\ result' = [result EXCEPT ![o] = "destroyed"]
      BY <1>1, <2>3, <2>4, OrderShrinks
  <2>5. CASE /\ Started(o, f, k) /\ op_queue_' = op_queue_
             /\ \E how \in {"done", "starting"} : result' = [result EXCEPT ![o] = how]
             /\ mutex_' = mutex_ \/ Hold(o, p)
    <3>1. \A q \in P : mutex_'[q] \in {mutex_[q], o}
        BY <1>1, <2>5 DEF Hold, Types
    <3>2. \A x \in Ops : result[x] # "new" => result'[x] # "new"
        BY <2>3, <2>5
    <3> QED
        BY <2>1, <2>2, <2>5, <3>1, <3>2, OrderStarts
  <2>6. CASE Started(o, f, k) /\ Push(o, p, k) /\ mutex_' = mutex_
    <3>1. \A x \in ToSet(op_queue_[p][k]) : o \notin ahead[x]
      <4>1. op_queue_[p][k] \in Seq(Ops)
          BY <1>1, <2>1 DEF Types
      <4>2. \A x \in ToSet(op_queue_[p][k]) : x \in Ops
          BY <4>1 DEF ToSet
      <4> QED
          BY <1>1, <2>1, <4>2
    <3> QED
        BY <2>1, <2>2, <2>6, <3>1, OrderPushes
  <2> QED
      BY <1>5, <2>4, <2>5, <2>6 DEF StartOp
<1>6. ASSUME NEW o \in Ops, StartPush(o) PROVE OrderInv'
  <2> PICK p : p = data[target[o][1]]
      OBVIOUS
  <2> PICK k : k = target[o][2]
      OBVIOUS
  <2>1. /\ result[o] = "starting" /\ Push(o, p, k) /\ ahead' = ahead
        /\ mutex_' = [mutex_ EXCEPT ![p] = None]
      BY <1>6 DEF StartPush, ops
  <2>2. p \in P /\ k \in Kinds /\ mutex_[p] = o
    <3>1. PICK q \in live_list_ : mutex_[q] = o
        BY <2>1 DEF CoreInv, OpInv, StartInv
    <3>2. q \in P
        BY <1>1 DEF Types
    <3>3. PICK l \in Kinds : OpenFor(q, o, l)
        BY <3>1, <3>2, NoneIsNothing DEF CoreInv, OpInv, StartInv
    <3>4. target[o] = <<descriptor_[q], l>> /\ data[descriptor_[q]] = q
        BY <3>3 DEF OpenFor, CoreInv, StateInv, PoolInv
    <3> QED
        BY <3>1, <3>2, <3>4
  <2>3. /\ mutex_'[p] = None /\ \A q \in P : q # p => mutex_'[q] = mutex_[q]
      BY <1>1, <2>1, <2>2 DEF Types
  <2>4. \A x \in ToSet(op_queue_[p][k]) : o \notin ahead[x]
    <3>1. mutex_[p] # None
        BY <2>2, NoneIsNothing
    <3>2. \A x \in ToSet(op_queue_[p][k]) : mutex_[p] \notin ahead[x]
        BY <2>2, <3>1, Zenon DEF OrderInv
    <3> QED
        BY <2>2, <3>2
  <2>5. \A y \in ahead'[o] : result[y] # "new"
      BY <1>1, <2>1
  <2> QED
      BY <1>1, <2>1, <2>2, <2>3, <2>4, <2>5, OrderPushes
<1> QED
    BY <1>2, <1>3, <1>4, <1>5, <1>6, EndingsOrMore

LEMMA IInvInit == Init => IInv
<1> SUFFICES ASSUME Init PROVE IInv
    OBVIOUS
<1>1. EventInv /\ HungInv
    BY DEF Init, EventInv, HungInv
<1>2. OrderInv
  <2>1. ahead \in [Ops -> SUBSET Ops] /\ \A x \in Ops : ahead[x] = {}
      BY DEF Init
  <2>2. \A p \in P : mutex_[p] = None /\ \A k \in Kinds : op_queue_[p][k] = <<>>
      BY DEF Init, NoOps
  <2>3. InTurn(<<>>, ahead)
      BY DEF InTurn
  <2> QED
      BY <2>1, <2>2, <2>3 DEF OrderInv
<1> QED
    BY <1>1, <1>2, InvInit DEF IInv

LEMMA IInvStep == IInv /\ [Next]_vars => IInv'
    BY InvStep, EventStep, HungStep, OrderStep DEF IInv

\* The descriptor_states are sound however they are recycled: the pool has each
\* in one list once and gives it to one I/O object, and a state's queues hold
\* operations of its own user only.
THEOREM StatesAreSound == Spec => []StatesSound
<1>1. IInv => StatesSound
    BY InvStates DEF IInv
<1> QED
    BY <1>1, IInvInit, IInvStep, PTL DEF Spec

\* While an operation waits for what its file is ready for, epoll's list or the
\* array of events has the report: none is lost between start_op's attempt and
\* its push, nor by an epoll_wait whose array is too short.
THEOREM EdgeIsNeverLost == Spec => []EdgeNotLost
<1>1. IInv => EdgeNotLost
    BY InvEdge DEF IInv
<1> QED
    BY <1>1, IInvInit, IInvStep, PTL DEF Spec

-----------------------------------------------------------------------------
(* Who completes.                                                          *)

\* The speculative attempt of start_op succeeds.
Tried(f, k, o) ==
    /\ Speculative(o, data[f], k) /\ mutex_[data[f]] = None /\ result[o] = "new"
    /\ Started(o, f, k) /\ result' = [result EXCEPT ![o] = "done"]

\* It is the turn of the first operation of the queue k of state p, and it
\* completes.
Served(p, k, o) ==
    /\ event # None /\ p = event.ptr /\ k = Turn(event.flags)
    /\ op_queue_[p][k] # <<>> /\ o = Head(op_queue_[p][k])
    /\ UNCHANGED <<target, ahead>> /\ result' = [result EXCEPT ![o] = "done"]

LEMMA CompletesWhen ==
    ASSUME IInv, [Next]_vars, NEW o \in Ops, Completes(o)
    PROVE  \/ \E f \in Files, k \in Kinds : Tried(f, k, o)
           \/ \E p \in P, k \in Kinds : Served(p, k, o)
<1>1. Types /\ result[o] # "done" /\ result'[o] = "done" /\ CoreInv /\ OrderInv
    BY DEF IInv, CoreInv, StateInv, Completes
<1>2. CASE Endings
    BY <1>1, <1>2 DEF Endings
<1>3. CASE HandleEvent
  <2> PICK p : p = event.ptr
      OBVIOUS
  <2> PICK k : k = Turn(event.flags)
      OBVIOUS
  <2>1. event # None /\ UNCHANGED <<target, ahead>>
      BY <1>3 DEF HandleEvent
  <2>2. /\ op_queue_[p][k] # <<>>
        /\ result' = [result EXCEPT ![Head(op_queue_[p][k])] = "done"]
      BY <1>1, <1>3 DEF HandleEvent
  <2>3. o = Head(op_queue_[p][k])
      BY <1>1, <2>2 DEF Types
  <2>4. p \in P /\ k \in Kinds
    <3>1. event \in Events /\ event.flags # {}
        BY <1>1, <2>1 DEF Types, Collected
    <3>2. p \in P /\ event.flags \in SUBSET Kinds
        BY <3>1, EventIs
    <3> QED
        BY <3>1, <3>2, TurnIs
  <2> QED
      BY <2>1, <2>2, <2>3, <2>4 DEF Served
<1>4. ASSUME NEW f \in Files, NEW u \in Ops, RegisterInternal(f, u) PROVE FALSE
    BY <1>1, <1>4 DEF RegisterInternal, Types
<1>5. ASSUME NEW f \in Files, NEW k \in Kinds, NEW u \in Ops, StartOp(f, k, u)
      PROVE  Tried(f, k, o)
  <2>1. Open(f) /\ result[u] = "new"
      BY <1>5 DEF StartOp
  <2>2. \/ /\ Speculative(u, data[f], k) /\ Started(u, f, k)
           /\ result' = [result EXCEPT ![u] = "done"]
        \/ \E how \in {"destroyed", "starting", "queued"} : result' = [result EXCEPT ![u] = how]
      BY <1>5 DEF StartOp, Push
  <2>3. /\ u = o /\ Speculative(u, data[f], k) /\ Started(u, f, k)
        /\ result' = [result EXCEPT ![u] = "done"]
      BY <1>1, <2>2 DEF Types
  <2> QED
      BY <2>1, <2>3 DEF Tried, Open, Unlocked
<1>6. ASSUME NEW u \in Ops, StartPush(u) PROVE FALSE
    BY <1>1, <1>6 DEF StartPush, Push, Types
<1> QED
    BY <1>1, <1>2, <1>3, <1>4, <1>5, <1>6, EndingsOrMore

\* Where those that wait for a file are.
LEMMA WaitingIs ==
    ASSUME IInv, NEW q \in Ops, NEW f, NEW k, target[q] = <<f, k>>
    PROVE  /\ result[q] = "queued" =>
                 /\ data[f] \in live_list_ /\ data[f] \in P /\ k \in Kinds /\ f \in Files
                 /\ descriptor_[data[f]] = f /\ q \in ToSet(op_queue_[data[f]][k])
           /\ result[q] = "starting" => data[f] \in P /\ mutex_[data[f]] = q
<1> USE DEF IInv, CoreInv, StateInv, OpInv
<1>1. ASSUME NEW p \in live_list_, NEW l \in Kinds, OpenFor(p, q, l)
      PROVE  p \in P /\ p = data[f] /\ l = k /\ descriptor_[p] = f /\ f \in Files
  <2>1. descriptor_[p] = f /\ l = k
      BY <1>1 DEF OpenFor
  <2> QED
      BY <2>1 DEF PoolInv, Types
<1>2. ASSUME result[q] = "queued"
      PROVE  /\ data[f] \in live_list_ /\ data[f] \in P /\ k \in Kinds /\ f \in Files
             /\ descriptor_[data[f]] = f /\ q \in ToSet(op_queue_[data[f]][k])
  <2>1. PICK p \in live_list_ : \E l \in Kinds : q \in ToSet(op_queue_[p][l])
      BY <1>2 DEF QueueInv
  <2>2. PICK l \in Kinds : q \in ToSet(op_queue_[p][l])
      BY <2>1
  <2>3. p \in P
      BY DEF Types
  <2>4. OpenFor(p, q, l)
      BY <2>2, <2>3 DEF QueueInv
  <2> QED
      BY <1>1, <2>2, <2>4
<1>3. ASSUME result[q] = "starting" PROVE data[f] \in P /\ mutex_[data[f]] = q
  <2>1. PICK p \in live_list_ : mutex_[p] = q
      BY <1>3 DEF StartInv
  <2>2. p \in P /\ q # None
      BY NoneIsNothing DEF Types
  <2>3. PICK l \in Kinds : OpenFor(p, q, l)
      BY <2>1, <2>2 DEF StartInv
  <2> QED
      BY <1>1, <2>1, <2>3
<1> QED
    BY <1>2, <1>3

\* The operation that is served is the first of its queue.
LEMMA ServedIs ==
    ASSUME IInv, NEW p \in P, NEW k \in Kinds, NEW o \in Ops, Served(p, k, o)
    PROVE  /\ result[o] = "queued" /\ target[o] = <<descriptor_[p], k>>
           /\ p \in live_list_ /\ data[descriptor_[p]] = p /\ mutex_[p] = None
           /\ \A q \in ToSet(op_queue_[p][k]) : q # o => q \notin ahead[o]
<1> USE DEF IInv, CoreInv, StateInv, OpInv
<1> PICK s : s = op_queue_[p][k]
    OBVIOUS
<1>1. s \in Seq(Ops) /\ s # <<>> /\ o = s[1] /\ InTurn(s, ahead)
    BY DEF Types, Served, OrderInv
<1>2. DOMAIN s = 1..Len(s) /\ Len(s) \in Nat /\ 1 \in DOMAIN s
    BY <1>1
<1>3. o \in ToSet(s)
    BY <1>1, <1>2 DEF ToSet
<1>4. result[o] = "queued" /\ OpenFor(p, o, k)
    BY <1>3 DEF QueueInv
<1>5. ASSUME NEW q \in ToSet(s), q # o PROVE q \notin ahead[o]
  <2>1. PICK j \in DOMAIN s : s[j] = q
      BY Members
  <2>2. 1 < j
      BY <1>1, <1>2, <1>5, <2>1
  <2> QED
      BY <1>1, <1>2, <2>1, <2>2 DEF InTurn
<1>6. mutex_[p] = None
    BY DEF EventInv, Served
<1> QED
    BY <1>4, <1>5, <1>6 DEF OpenFor, PoolInv

LEMMA InOrderStep == IInv /\ [Next]_vars => InOrder
<1> SUFFICES ASSUME IInv, [Next]_vars, NEW o \in Ops, NEW q \in Ops,
                    Completes(o), q \in ahead'[o], target[q] = target'[o],
                    result'[q] \in Waiting
             PROVE  FALSE
    BY DEF InOrder
<1>1. result \in [Ops -> Results] /\ target \in [Ops -> (Files \X Kinds) \cup {None}]
    BY DEF IInv, CoreInv, StateInv, Types
<1>2. ASSUME result' = [result EXCEPT ![o] = "done"]
      PROVE  q # o /\ (result[q] = "queued" \/ result[q] = "starting")
    BY <1>1, <1>2 DEF Waiting
<1>3. ASSUME NEW f \in Files, NEW k \in Kinds, Tried(f, k, o) PROVE FALSE
  <2>1. /\ target'[o] = <<f, k>> /\ op_queue_[data[f]][k] = <<>> /\ mutex_[data[f]] = None
        /\ result' = [result EXCEPT ![o] = "done"]
      BY <1>1, <1>3 DEF Tried, Started, Speculative
  <2>2. target[q] = <<f, k>> /\ q # None
      BY <2>1, NoneIsNothing
  <2> QED
      BY <1>2, <2>1, <2>2, WaitingIs, EmptyFacts
<1>4. ASSUME NEW p \in P, NEW k \in Kinds, Served(p, k, o) PROVE FALSE
  <2> PICK f : f = descriptor_[p]
      OBVIOUS
  <2>1. /\ target[o] = <<f, k>> /\ data[f] = p /\ mutex_[p] = None
        /\ \A u \in ToSet(op_queue_[p][k]) : u # o => u \notin ahead[o]
      BY <1>4, ServedIs
  <2>2. target[q] = <<f, k>> /\ q # None /\ q \in ahead[o]
      BY <1>4, <2>1, NoneIsNothing DEF Served
  <2>3. q # o /\ (result[q] = "queued" \/ result[q] = "starting")
      BY <1>2, <1>4 DEF Served
  <2> QED
      BY <2>1, <2>2, <2>3, WaitingIs
<1> QED
    BY <1>3, <1>4, CompletesWhen

LEMMA UrgentStep == IInv /\ [Next]_vars => UrgentFirst
<1> SUFFICES ASSUME IInv, [Next]_vars, NEW o \in Ops, NEW q \in Ops, NEW f \in Files,
                    Completes(o), target'[o] = <<f, 0>>,
                    result[q] = "queued", target[q] = <<f, 2>>
             PROVE  result[o] = "queued" /\ (2 \in ReadyKinds(f) => ToCome(f, 2))
    BY DEF UrgentFirst
<1>1. /\ data[f] \in live_list_ /\ data[f] \in P /\ 2 \in Kinds /\ descriptor_[data[f]] = f
      /\ q \in ToSet(op_queue_[data[f]][2])
    BY WaitingIs
<1>2. op_queue_[data[f]][2] # <<>>
    BY <1>1, EmptyFacts
<1>3. ASSUME NEW g \in Files, NEW k \in Kinds, Tried(g, k, o) PROVE FALSE
  <2>1. target'[o] = <<g, k>>
      BY <1>3 DEF Tried, Started, IInv, CoreInv, StateInv, Types
  <2>2. g = f /\ k = 0
      BY <2>1
  <2> QED
      BY <1>1, <1>2, <1>3, <2>2 DEF Tried, Speculative
<1>4. ASSUME NEW p \in P, NEW k \in Kinds, Served(p, k, o)
      PROVE  result[o] = "queued" /\ (2 \in ReadyKinds(f) => ToCome(f, 2))
  <2>1. /\ result[o] = "queued" /\ target[o] = <<descriptor_[p], k>>
        /\ data[descriptor_[p]] = p
      BY <1>4, ServedIs
  <2>2. descriptor_[p] = f /\ k = 0 /\ data[f] = p
    <3>1. target'[o] = target[o]
        BY <1>4, Zenon DEF Served
    <3>2. <<descriptor_[p], k>> = <<f, 0>>
        BY <2>1, <3>1, Zenon
    <3> QED
        BY <2>1, <3>2
  <2>3. ASSUME 2 \in ReadyKinds(f) PROVE ToCome(f, 2)
    <3>1. Covered(f, 2)
        BY <1>1, <1>2, <2>3 DEF IInv, CoreInv, CoverInv, Wanted
    <3>2. 2 \notin event.flags
      <4>1. event # None /\ Turn(event.flags) = 0
          BY <1>4, <2>2 DEF Served
      <4>2. event \in Events /\ event.flags # {}
          BY <4>1 DEF IInv, CoreInv, StateInv, Types, Collected
      <4>3. event.flags \in SUBSET Kinds
          BY <4>2, EventIs
      <4>4. \A l \in event.flags : Turn(event.flags) >= l
          BY <4>2, <4>3, TurnIs
      <4> QED
          BY <4>1, <4>4
    <3> QED
        BY <3>1, <3>2 DEF Covered, ToCome, Collected
  <2> QED
      BY <2>1, <2>3
<1> QED
    BY <1>3, <1>4, CompletesWhen

\* Nobody is overtaken: no operation completes while one that was started
\* before it, on the same file and for the same kind, still waits, whether it
\* completes in start_op or from a queue; and a read passes a waiting
\* out-of-band read only from its queue, when the report of the out-of-band
\* data is still on epoll's list or in the array behind the event in hand.
THEOREM NobodyOvertakes == Spec => NoOvertaking
<1>1. IInv /\ [Next]_vars => [InOrder /\ UrgentFirst]_vars
    BY InOrderStep, UrgentStep
<1> QED
    BY <1>1, IInvInit, IInvStep, PTL DEF Spec, NoOvertaking

=============================================================================
