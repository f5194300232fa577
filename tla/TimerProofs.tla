------------------------------ MODULE TimerProofs ------------------------------
(***************************************************************************)
(* Proofs about TimerHeap, TimerQueue and ReactorTimers, for any timers,   *)
(* times, services, operations and length of a millisecond.                *)
(*                                                                         *)
(* A queue means a function, DueOf: from its timers to the times they are  *)
(* due.  The lemmas about the operations of TimerHeap say what each does   *)
(* to that function, and that it leaves a heap whose timers know their     *)
(* places; nobody above them looks into the heap again.  Their loops are   *)
(* treated alike: the state of a loop stays in a set (everything is in     *)
(* order but at one entry), a turn that changes it makes a number smaller, *)
(* and a state that a turn does not change is in order (LoopRuns,          *)
(* LoopEnds).                                                              *)
(*                                                                         *)
(* Above them are one queue under any calls, which implements TimerBag,    *)
(* and the reactor with the timers of all services.  Its invariant, Core,  *)
(* adds to WaitsCovered that each queue is a heap, that no operation is    *)
(* queued twice and whose it is; NeverOversleeps is inductive with it.  A  *)
(* step matters to the sleeping reactor only in so far as it makes a queue *)
(* sooner (NoSooner), which just async_wait and the clock do.              *)
(*                                                                         *)
(* Never is a time, an index and a timeout, and no number: a leaf that     *)
(* must tell it from numbers needs NeverAssumption.                        *)
(***************************************************************************)
EXTENDS TimerQueue, ReactorTimers, TLAPS, FiniteSetTheorems

USE NeverAssumption

\* The entries of a heap of timers of T, and the places of a heap.
Entries(T) == [time_ : Nat, timer_ : T]
Places(q) == 0..Size(q) - 1

\* The queues of timers of T whose timers know their places.
Exact(q) ==
    /\ DOMAIN q.heap_index_ = q.timers_
    /\ \A t \in q.timers_ : q.heap_index_[t] # Never =>
          /\ q.heap_index_[t] \in Places(q)
          /\ At(q, q.heap_index_[t]).timer_ = t
    /\ \A i \in Places(q) : /\ At(q, i).timer_ \in q.timers_
                            /\ q.heap_index_[At(q, i).timer_] = i

Indexed(T) ==
    {q \in [heap_ : Seq(Entries(T)),
            heap_index_ : UNION {[D -> Nat \cup {Never}] : D \in SUBSET T},
            timers_ : SUBSET T] : Exact(q)}

\* Nobody is due before its parent.
Ordered(q) == \A j \in Places(q) : j > 0 => ~Before(q, j, Parent(j))

\* The time at which a queued timer is due: that of its entry.  DueOf is what a
\* queue means: which timers are in it, and when each is due.
DueAt(q, t) == IF q.heap_index_[t] = Never THEN Never ELSE At(q, q.heap_index_[t]).time_
DueOf(q) == [t \in q.timers_ |-> DueAt(q, t)]

-----------------------------------------------------------------------------
(* Loops.                                                                  *)

\* A set of numbers has a least one.
LEMMA LeastOf ==
    ASSUME NEW S \in SUBSET Nat, S # {}
    PROVE  \E i \in S : \A j \in S : i <= j
<1>1. PICK i \in S : \A j \in S : ~(<<j, i>> \in OpToRel(<, Nat))
  BY WFMin, NatLessThanWellFounded, Zenon
<1>2. \A j \in S : ~(j < i)
  BY <1>1, Zenon DEF OpToRel
<1> QED
  BY <1>2

\* f is what a loop goes through in its first N turns.
Run(S, step, z, N, f) ==
    f \in [0..N -> S] /\ f[0] = z /\ \A n \in 1..N : f[n] = step[f[n - 1]]

\* A loop whose turns are a function has a run of every length.
LEMMA LoopRuns ==
    ASSUME NEW S, NEW step \in [S -> S], NEW z \in S, NEW N \in Nat
    PROVE  \E f : Run(S, step, z, N, f)
<1> DEFINE Runs(k) == \E f : Run(S, step, z, k, f)
           Bad == {k \in Nat : ~Runs(k)}
<1>1. SUFFICES Bad = {}
  BY Zenon
<1>2. SUFFICES ASSUME Bad # {} PROVE FALSE
  OBVIOUS
<1>3. PICK k \in Bad : \A j \in Bad : k <= j
  <2>1. Bad \in SUBSET Nat
    OBVIOUS
  <2> HIDE DEF Bad
  <2> QED
    BY <1>2, <2>1, LeastOf
<1>4. k \in Nat /\ ~Runs(k)
  BY <1>3, Zenon
<1>5. k # 0
  <2>1. SUFFICES ASSUME k = 0 PROVE Runs(0)
    BY <1>4, Zenon
  <2>2. [n \in 0..0 |-> z] \in [0..0 -> S] /\ 1..0 = {} /\ [n \in 0..0 |-> z][0] = z
    OBVIOUS
  <2> QED
    BY <2>2, Zenon DEF Run
<1>6. k - 1 \in Nat /\ Runs(k - 1)
  <2>1. k - 1 \in Nat /\ ~(k <= k - 1)
    BY <1>4, <1>5
  <2> QED
    BY <1>3, <2>1, Zenon
<1> HIDE DEF Bad
<1>7. PICK f \in [0..k - 1 -> S] : f[0] = z /\ \A n \in 1..k - 1 : f[n] = step[f[n - 1]]
  BY <1>6, Zenon DEF Run
<1> HIDE DEF Runs
<1>8. PICK g : g = [n \in 0..k |-> IF n = 0 THEN z ELSE step[f[n - 1]]]
  OBVIOUS
<1>9. \A n \in 0..k - 1 : f[n] \in S /\ g[n] = f[n]
  BY <1>4, <1>5, <1>7, <1>8
<1>10. g \in [0..k -> S] /\ g[0] = z
  <2>1. \A n \in 0..k : n # 0 => n - 1 \in 0..k - 1
    BY <1>4
  <2>2. 0 \in 0..k
    BY <1>4
  <2>3. \A n \in 0..k : (IF n = 0 THEN z ELSE step[f[n - 1]]) \in S
    BY <1>9, <2>1
  <2> QED
    BY <1>8, <2>2, <2>3
<1>11. \A n \in 1..k : g[n] = step[g[n - 1]]
  <2>1. TAKE n \in 1..k
  <2>2. n \in 0..k /\ n # 0 /\ n - 1 \in 0..k - 1
    BY <1>4
  <2> QED
    BY <1>8, <1>9, <2>2
<1>12. Runs(k)
  BY <1>10, <1>11, Zenon DEF Run, Runs
<1> QED
  BY <1>4, <1>12

Ended(S, step, s) == s \in S /\ step[s] = s

\* A loop that stays in S and gets nearer to its end in each turn that changes
\* something has ended after as many turns as the measure says.
LEMMA LoopEnds ==
    ASSUME NEW S, NEW step \in [S -> S], NEW m \in [S -> Nat], NEW N \in Nat, NEW g,
           g[0] \in S, m[g[0]] <= N,
           \A n \in 1..N : g[n - 1] \in S => g[n] = step[g[n - 1]],
           \A s \in S : step[s] = s \/ m[step[s]] < m[s]
    PROVE  Ended(S, step, g[N])
<1> DEFINE Near(n) == g[n] \in S /\ (step[g[n]] = g[n] \/ m[g[n]] <= N - n)
           Bad == {n \in 0..N : ~Near(n)}
<1>1. Bad = {}
  <2>1. SUFFICES ASSUME Bad # {} PROVE FALSE
    OBVIOUS
  <2>2. PICK n \in Bad : \A j \in Bad : n <= j
    <3>1. Bad \in SUBSET Nat
      OBVIOUS
    <3> HIDE DEF Bad
    <3> QED
      BY <2>1, <3>1, LeastOf
  <2>3. n \in 0..N /\ ~Near(n)
    BY <2>2, Zenon
  <2>4. n # 0
    BY <2>3
  <2>5. n - 1 \in 0..N /\ n \in 1..N /\ ~(n <= n - 1)
    BY <2>3, <2>4
  <2>6. Near(n - 1)
    BY <2>2, <2>5, Zenon
  <2> HIDE DEF Bad
  <2>7. PICK s \in S : s = g[n - 1]
    BY <2>6
  <2>8. g[n] = step[s] /\ step[s] \in S
    BY <2>5, <2>7
  <2>9. step[s] = s \/ m[s] <= N - (n - 1)
    BY <2>6, <2>7
  <2>10. PICK r \in S : r = step[s]
    BY <2>8
  <2>11. step[s] = s \/ m[r] < m[s]
    BY <2>10
  <2>12. m[r] \in Nat /\ m[s] \in Nat
    OBVIOUS
  <2>13. step[r] = r \/ m[r] <= N - n
    <3>1. CASE step[s] = s
      BY <3>1, <2>10
    <3>2. CASE step[s] # s
      BY <3>2, <2>5, <2>9, <2>11, <2>12
    <3> QED
      BY <3>1, <3>2
  <2> QED
    BY <2>3, <2>8, <2>10, <2>13
<1>2. Near(N)
  <2>1. N \in 0..N
    OBVIOUS
  <2> QED
    BY <1>1, <2>1, Zenon
<1>3. PICK s \in S : s = g[N]
  BY <1>2
<1>4. step[s] = s \/ m[s] <= 0
  BY <1>2, <1>3
<1>5. m[s] \in Nat /\ (step[s] = s \/ (m[step[s]] < m[s] /\ m[step[s]] \in Nat))
  OBVIOUS
<1> QED
  BY <1>3, <1>4, <1>5 DEF Ended

-----------------------------------------------------------------------------
(* The heap: what one turn of up_heap and of down_heap does.               *)

\* The children of i are 2i + 1 and 2i + 2.
LEMMA ParentIs ==
    ASSUME NEW j \in Nat \ {0}
    PROVE  /\ Parent(j) \in Nat /\ Parent(j) < j
           /\ \A i \in Nat : Parent(j) = i <=> j = 2 * i + 1 \/ j = 2 * i + 2
BY DEF Parent

\* What is known of a queue whose timers know their places.
LEMMA IndexedIs ==
    ASSUME NEW T, NEW q \in Indexed(T)
    PROVE  /\ q = Queue(q.heap_, q.heap_index_, q.timers_)
           /\ q.heap_ \in Seq(Entries(T)) /\ Size(q) \in Nat
           /\ q.timers_ \subseteq T
           /\ q.heap_index_ \in [q.timers_ -> Nat \cup {Never}]
           /\ Exact(q)
           /\ \A i \in Places(q) : /\ At(q, i) \in Entries(T) /\ At(q, i).time_ \in Nat
                                   /\ At(q, i).timer_ \in q.timers_
                                   /\ At(q, i) = Entry(At(q, i).time_, At(q, i).timer_)
<1>1. /\ q = Queue(q.heap_, q.heap_index_, q.timers_)
      /\ q.heap_ \in Seq(Entries(T)) /\ q.timers_ \subseteq T /\ Exact(q)
  BY DEF Indexed, Queue
<1>2. q.heap_index_ \in [q.timers_ -> Nat \cup {Never}]
  <2>1. PICK D : q.heap_index_ \in [D -> Nat \cup {Never}]
    BY DEF Indexed
  <2>2. D = q.timers_
    BY <1>1, <2>1 DEF Exact
  <2> QED
    BY <2>1, <2>2
<1>3. Size(q) \in Nat
  BY <1>1 DEF Size
<1>4. ASSUME NEW i \in Places(q)
      PROVE  /\ At(q, i) \in Entries(T) /\ At(q, i).time_ \in Nat
             /\ At(q, i).timer_ \in q.timers_
             /\ At(q, i) = Entry(At(q, i).time_, At(q, i).timer_)
  <2>1. i + 1 \in 1..Len(q.heap_)
    BY <1>3, <1>4 DEF Places, Size
  <2>2. PICK e \in Entries(T) : e = q.heap_[i + 1]
    BY <1>1, <2>1
  <2> QED
    BY <1>1, <2>2 DEF At, Entries, Entry, Exact
<1> QED
  BY <1>1, <1>2, <1>3, <1>4

\* What puts a queue into Indexed.
LEMMA IsIndexed ==
    ASSUME NEW T, NEW h \in Seq(Entries(T)), NEW D \in SUBSET T,
           NEW x \in [D -> Nat \cup {Never}], Exact(Queue(h, x, D))
    PROVE  Queue(h, x, D) \in Indexed(T)
BY DEF Indexed, Queue

\* swap_heap exchanges two entries and changes nothing that a queue means.
Swapped(T, q, i, j, r) ==
    /\ r \in Indexed(T) /\ Size(r) = Size(q) /\ DueOf(r) = DueOf(q)
    /\ r.timers_ = q.timers_
    /\ At(r, i) = At(q, j) /\ At(r, j) = At(q, i)
    /\ \A k \in Places(q) \ {i, j} : At(r, k) = At(q, k)

\* swap_heap of two places of the vector.
LEMMA SwapIs ==
    ASSUME NEW T, NEW q \in Indexed(T), NEW i \in Places(q), NEW j \in Places(q), i # j
    PROVE  Swapped(T, q, i, j, SwapHeap(q, i, j))
<1> USE DEF Places
<1>0. PICK r : r = SwapHeap(q, i, j)
  OBVIOUS
<1>1. /\ q.heap_ \in Seq(Entries(T)) /\ Size(q) \in Nat
      /\ q.timers_ \subseteq T
      /\ q.heap_index_ \in [q.timers_ -> Nat \cup {Never}]
      /\ \A k \in Places(q) : At(q, k) \in Entries(T) /\ At(q, k).timer_ \in q.timers_
  BY IndexedIs
<1>2. PICK h : h = [q.heap_ EXCEPT ![i + 1] = At(q, j), ![j + 1] = At(q, i)]
  OBVIOUS
<1>3. PICK x : x = [q.heap_index_ EXCEPT ![At(q, j).timer_] = i, ![At(q, i).timer_] = j]
  OBVIOUS
<1>4. r = Queue(h, x, q.timers_)
  BY <1>0, <1>2, <1>3 DEF SwapHeap
<1>5. /\ h \in Seq(Entries(T)) /\ Len(h) = Len(q.heap_)
      /\ h[i + 1] = At(q, j) /\ h[j + 1] = At(q, i)
      /\ \A k \in 1..Len(q.heap_) : k # i + 1 /\ k # j + 1 => h[k] = q.heap_[k]
  <2>1. i + 1 \in 1..Len(q.heap_) /\ j + 1 \in 1..Len(q.heap_) /\ i + 1 # j + 1
    BY <1>1 DEF Size
  <2>2. At(q, i) \in Entries(T) /\ At(q, j) \in Entries(T)
    BY <1>1
  <2>3. PICK a \in Entries(T) : a = At(q, i)
    BY <2>2
  <2>4. PICK b \in Entries(T) : b = At(q, j)
    BY <2>2
  <2>5. h = [q.heap_ EXCEPT ![i + 1] = b, ![j + 1] = a]
    BY <1>2, <2>3, <2>4
  <2>6. PICK l \in Seq(Entries(T)) : l = q.heap_
    BY <1>1
  <2>7. h = [l EXCEPT ![i + 1] = b, ![j + 1] = a] /\ i + 1 \in DOMAIN l /\ j + 1 \in DOMAIN l
    BY <2>1, <2>5, <2>6
  <2>8. /\ h \in Seq(Entries(T)) /\ Len(h) = Len(l)
        /\ h[i + 1] = b /\ h[j + 1] = a
        /\ \A k \in 1..Len(l) : k # i + 1 /\ k # j + 1 => h[k] = l[k]
    BY <2>1, <2>7
  <2> QED
    BY <2>3, <2>4, <2>6, <2>8
<1>6. /\ Size(r) = Size(q) /\ r.timers_ = q.timers_ /\ r.heap_index_ = x
      /\ At(r, i) = At(q, j) /\ At(r, j) = At(q, i)
  BY <1>4, <1>5 DEF Size, At, Queue
<1>7. \A k \in Places(q) \ {i, j} : At(r, k) = At(q, k)
  <2>1. TAKE k \in Places(q) \ {i, j}
  <2>2. k + 1 \in 1..Len(q.heap_) /\ k + 1 # i + 1 /\ k + 1 # j + 1
    BY <1>1 DEF Size
  <2> QED
    BY <1>4, <1>5, <2>2 DEF At, Queue
<1>8. PICK a \in q.timers_ : a = At(q, i).timer_
  BY <1>1
<1>9. PICK b \in q.timers_ : b = At(q, j).timer_
  BY <1>1
<1>10. /\ \A k \in Places(q) : q.heap_index_[At(q, k).timer_] = k
       /\ \A t \in q.timers_ : q.heap_index_[t] # Never =>
             q.heap_index_[t] \in Places(q) /\ At(q, q.heap_index_[t]).timer_ = t
  BY IndexedIs DEF Exact
<1>11. a # b /\ q.heap_index_[a] = i /\ q.heap_index_[b] = j
  BY <1>8, <1>9, <1>10
<1>12. x = [q.heap_index_ EXCEPT ![b] = i, ![a] = j]
  BY <1>3, <1>8, <1>9
<1>13. /\ x \in [q.timers_ -> Nat \cup {Never}] /\ x[b] = i /\ x[a] = j
       /\ \A t \in q.timers_ \ {a, b} : x[t] = q.heap_index_[t]
  BY <1>1, <1>11, <1>12
<1>14. \A t \in q.timers_ \ {a, b} : q.heap_index_[t] # Never =>
          q.heap_index_[t] \in Places(q) \ {i, j}
  BY <1>8, <1>9, <1>10
<1>15. \A k \in Places(q) \ {i, j} : At(q, k).timer_ \in q.timers_ \ {a, b}
  BY <1>1, <1>10, <1>11
<1>16. Exact(r)
  <2>1. DOMAIN x = q.timers_
    BY <1>13
  <2>2. ASSUME NEW t \in q.timers_, x[t] # Never
        PROVE  x[t] \in Places(q) /\ At(r, x[t]).timer_ = t
    <3>1. CASE t = a
      BY <3>1, <1>6, <1>8, <1>13
    <3>2. CASE t = b
      BY <3>2, <1>6, <1>9, <1>13
    <3>3. CASE t \in q.timers_ \ {a, b}
      BY <3>3, <2>2, <1>7, <1>10, <1>13, <1>14
    <3> QED
      BY <3>1, <3>2, <3>3
  <2>3. ASSUME NEW k \in Places(q)
        PROVE  At(r, k).timer_ \in q.timers_ /\ x[At(r, k).timer_] = k
    <3>1. CASE k = i
      BY <3>1, <1>6, <1>9, <1>13
    <3>2. CASE k = j
      BY <3>2, <1>6, <1>8, <1>13
    <3>3. CASE k \in Places(q) \ {i, j}
      BY <3>3, <1>7, <1>10, <1>13, <1>15
    <3> QED
      BY <3>1, <3>2, <3>3
  <2> QED
    BY <1>6, <2>1, <2>2, <2>3 DEF Exact
<1>17. r \in Indexed(T)
  BY <1>1, <1>4, <1>5, <1>13, <1>16, IsIndexed
<1>18. DueOf(r) = DueOf(q)
  <2>1. ASSUME NEW t \in q.timers_ PROVE DueAt(r, t) = DueAt(q, t)
    <3>1. CASE t = a
      BY <3>1, <1>6, <1>11, <1>13 DEF DueAt
    <3>2. CASE t = b
      BY <3>2, <1>6, <1>11, <1>13 DEF DueAt
    <3>3. CASE t \in q.timers_ \ {a, b}
      BY <3>3, <1>6, <1>7, <1>13, <1>14 DEF DueAt
    <3> QED
      BY <3>1, <3>2, <3>3
  <2> QED
    BY <1>6, <2>1 DEF DueOf
<1> QED
  BY <1>0, <1>6, <1>7, <1>17, <1>18 DEF Swapped

\* Everything is in order but perhaps entry i and its parent.
OrderedButUp(q, i) ==
    \A j \in Places(q) : j > 0 =>
        /\ j # i => ~Before(q, j, Parent(j))
        /\ i > 0 /\ Parent(j) = i => ~Before(q, j, Parent(i))

\* The states of up_heap's loop, for a heap that stood for due.
UpStates(T, due, size, root) ==
    {s \in [q : Indexed(T), i : Nat] :
        /\ Size(s.q) = size /\ DueOf(s.q) = due
        /\ s.i \in Places(s.q)
        /\ OrderedButUp(s.q, s.i)
        /\ At(s.q, 0) = root \/ At(s.q, 0).time_ < root.time_}

\* A turn of up_heap's loop goes up, or has put the heap in order.
LEMMA UpStepIs ==
    ASSUME NEW T, NEW due, NEW size, NEW root \in Entries(T),
           NEW s \in UpStates(T, due, size, root)
    PROVE  /\ UpStep(s) \in UpStates(T, due, size, root)
           /\ UpStep(s) = s \/ UpStep(s).i < s.i
           /\ UpStep(s) = s => Ordered(s.q)
<1>1. PICK q \in Indexed(T), i \in Nat : s = [q |-> q, i |-> i]
  BY DEF UpStates
<1>2. /\ Size(q) = size /\ DueOf(q) = due /\ i \in Places(q)
      /\ \A j \in Places(q) : j > 0 =>
            /\ j # i => ~Before(q, j, Parent(j))
            /\ i > 0 /\ Parent(j) = i => ~Before(q, j, Parent(i))
  BY <1>1 DEF UpStates, OrderedButUp
<1>3. Size(q) \in Nat /\ \A j \in Places(q) : At(q, j).time_ \in Nat
  BY IndexedIs
<1>4. CASE ~(i > 0 /\ Before(q, i, Parent(i)))
  <2>1. UpStep(s) = s
    BY <1>1, <1>4 DEF UpStep
  <2>2. Ordered(q)
    BY <1>2, <1>4 DEF Ordered
  <2> QED
    BY <1>1, <2>1, <2>2
<1>5. CASE i > 0 /\ Before(q, i, Parent(i))
  <2>1. PICK p : p = Parent(i)
    OBVIOUS
  <2>2. p \in Places(q) /\ p < i /\ p \in Nat
    BY <1>2, <1>3, <1>5, <2>1, ParentIs DEF Places
  <2>3. PICK r : r = SwapHeap(q, i, p)
    OBVIOUS
  <2>4. /\ r \in Indexed(T) /\ Size(r) = size /\ DueOf(r) = due
        /\ At(r, i) = At(q, p) /\ At(r, p) = At(q, i)
        /\ \A k \in Places(q) \ {i, p} : At(r, k) = At(q, k)
    <3>1. Swapped(T, q, i, p, r)
      BY <1>2, <2>2, <2>3, SwapIs
    <3> QED
      BY <1>2, <3>1 DEF Swapped
  <2>5. UpStep(s) = [q |-> r, i |-> p]
    BY <1>1, <1>5, <2>1, <2>3 DEF UpStep
  <2>6. At(q, i).time_ < At(q, p).time_
    BY <1>5, <2>1 DEF Before
  <2>7. ASSUME NEW j \in Places(r), j > 0
        PROVE  /\ j # p => ~(At(r, j).time_ < At(r, Parent(j)).time_)
               /\ p > 0 /\ Parent(j) = p => ~(At(r, j).time_ < At(r, Parent(p)).time_)
    <3>1. j \in Places(q) /\ Parent(j) \in Places(q) /\ Parent(j) < j
      BY <2>4, <2>7, <1>2, <1>3, ParentIs DEF Places
    <3>2. j # i => ~(At(q, j).time_ < At(q, Parent(j)).time_)
      BY <1>2, <2>7, <3>1 DEF Before
    <3>3. Parent(j) = i => ~(At(q, j).time_ < At(q, p).time_)
      BY <1>2, <1>5, <2>1, <2>7, <3>1 DEF Before
    <3>4. p > 0 => /\ Parent(p) \in Places(q) \ {i, p}
                   /\ ~(At(q, p).time_ < At(q, Parent(p)).time_)
      BY <1>2, <1>3, <2>2, ParentIs DEF Places, Before
    <3>5. At(r, Parent(j)) = IF Parent(j) = i THEN At(q, p)
                             ELSE IF Parent(j) = p THEN At(q, i) ELSE At(q, Parent(j))
      BY <2>4, <3>1
    <3>6. At(r, j) = IF j = i THEN At(q, p)
                     ELSE IF j = p THEN At(q, i) ELSE At(q, j)
      BY <2>4, <3>1
    <3>7. p > 0 => At(r, Parent(p)) = At(q, Parent(p))
      BY <2>4, <3>4
    <3>8. PICK a \in Nat, b \in Nat, c \in Nat, d \in Nat :
            a = At(q, i).time_ /\ b = At(q, p).time_ /\ c = At(q, j).time_
            /\ d = At(q, Parent(j)).time_
      BY <1>2, <1>3, <2>2, <3>1
    <3>9. j # p => ~(At(r, j).time_ < At(r, Parent(j)).time_)
      <4>1. CASE j = i
        BY <4>1, <2>1, <2>2, <2>6, <3>5, <3>6, <3>8
      <4>2. CASE j # i /\ Parent(j) = i
        BY <4>2, <3>3, <3>5, <3>6
      <4>3. CASE j # i /\ Parent(j) = p
        BY <4>3, <2>2, <2>6, <3>2, <3>5, <3>6, <3>8
      <4>4. CASE j # i /\ Parent(j) # i /\ Parent(j) # p
        BY <4>4, <3>2, <3>5, <3>6
      <4> QED
        BY <4>1, <4>2, <4>3, <4>4
    <3>10. ASSUME p > 0, Parent(j) = p PROVE ~(At(r, j).time_ < At(r, Parent(p)).time_)
      <4>1. PICK e \in Nat : e = At(q, Parent(p)).time_
        BY <1>3, <3>4, <3>10
      <4>2. j # p
        BY <3>1, <3>10, <2>2
      <4> QED
        BY <4>1, <4>2, <3>2, <3>4, <3>6, <3>7, <3>8, <3>10
    <3> QED
      BY <3>9, <3>10
  <2>8. OrderedButUp(r, p)
    BY <2>7 DEF OrderedButUp, Before
  <2>9. At(r, 0) = root \/ At(r, 0).time_ < root.time_
    <3>1. At(q, 0) = root \/ At(q, 0).time_ < root.time_
      BY <1>1 DEF UpStates
    <3>2. CASE p = 0
      <4>1. At(q, i).time_ \in Nat /\ At(q, 0).time_ \in Nat /\ root.time_ \in Nat
        BY <1>2, <1>3, <2>2, <3>2 DEF Entries
      <4> QED
        BY <2>4, <2>6, <3>1, <3>2, <4>1
    <3>3. CASE p # 0
      <4>1. 0 \in Places(q) \ {i, p}
        BY <1>3, <2>2, <3>3 DEF Places
      <4> QED
        BY <2>4, <3>1, <4>1
    <3> QED
      BY <3>2, <3>3
  <2>10. [q |-> r, i |-> p] \in UpStates(T, due, size, root)
    BY <1>2, <2>2, <2>4, <2>8, <2>9 DEF UpStates, Places
  <2>11. UpStep(s).i < s.i /\ UpStep(s) # s
    BY <1>1, <2>2, <2>5, <1>2
  <2> QED
    BY <2>5, <2>10, <2>11
<1> QED
  BY <1>4, <1>5

\* up_heap puts an entry in order that only its parent was late for.
LEMMA UpHeapIs ==
    ASSUME NEW T, NEW q \in Indexed(T), NEW i \in Places(q), OrderedButUp(q, i)
    PROVE  /\ UpHeap(q, i) \in Indexed(T)
           /\ Size(UpHeap(q, i)) = Size(q)
           /\ DueOf(UpHeap(q, i)) = DueOf(q)
           /\ Ordered(UpHeap(q, i))
           /\ \/ At(UpHeap(q, i), 0) = At(q, 0)
              \/ At(UpHeap(q, i), 0).time_ < At(q, 0).time_
<1>1. PICK z : z = [q |-> q, i |-> i]
  OBVIOUS
<1>2. PICK S : S = UpStates(T, DueOf(q), Size(q), At(q, 0))
  OBVIOUS
<1>0. At(q, 0) \in Entries(T)
  BY IndexedIs DEF Places
<1>3. z \in S /\ i \in Nat /\ z.i = i
  BY <1>1, <1>2, IndexedIs DEF UpStates, Places
<1>4. PICK step : step = [s \in S |-> UpStep(s)]
  OBVIOUS
<1>5. /\ step \in [S -> S]
      /\ \A s \in S : step[s] = UpStep(s)
  BY <1>0, <1>2, <1>4, UpStepIs
<1>6. PICK f : Run(S, step, z, i, f)
  <2>1. step \in [S -> S]
    BY <1>5
  <2>2. z \in S
    BY <1>3
  <2>3. i \in Nat
    BY <1>3
  <2> QED
    BY <2>1, <2>2, <2>3, LoopRuns, Zenon
<1> DEFINE After(g) == g = [n \in 0..i |-> IF n = 0 THEN [q |-> q, i |-> i]
                                           ELSE UpStep(g[n - 1])]
<1>7. After(f)
  <2>1. ASSUME NEW n \in 0..i
        PROVE  f[n] = IF n = 0 THEN [q |-> q, i |-> i] ELSE UpStep(f[n - 1])
    <3>1. CASE n = 0
      BY <3>1, <1>1, <1>6 DEF Run
    <3>2. CASE n # 0
      <4>1. n \in 1..i /\ n - 1 \in 0..i
        BY <1>3, <3>2
      <4> QED
        BY <3>2, <4>1, <1>5, <1>6 DEF Run
    <3> QED
      BY <3>1, <3>2
  <2> QED
    BY <1>6, <2>1 DEF Run
<1>8. PICK g : g = CHOOSE h : After(h)
  OBVIOUS
<1>9. After(g)
  BY <1>7, <1>8, Zenon
<1>10. UpHeap(q, i) = g[i].q
  BY <1>8 DEF UpHeap
<1>11. g[0] = z /\ \A n \in 1..i : g[n] = UpStep(g[n - 1])
  BY <1>1, <1>3, <1>9
<1>12. PICK m : m = [s \in S |-> s.i]
  OBVIOUS
<1>13. m \in [S -> Nat] /\ \A s \in S : m[s] = s.i
  BY <1>2, <1>12 DEF UpStates
<1>14. \A s \in S : step[s] = s \/ m[step[s]] < m[s]
  <2>1. TAKE s \in S
  <2>2. step[s] \in S
    BY <1>5
  <2> QED
    BY <2>2, <1>0, <1>2, <1>5, <1>13, UpStepIs
<1>15. Ended(S, step, g[i])
  <2>1. \A n \in 1..i : g[n - 1] \in S => g[n] = step[g[n - 1]]
    BY <1>5, <1>11
  <2>2. g[0] \in S /\ m[g[0]] <= i
    BY <1>3, <1>11, <1>13
  <2>3. step \in [S -> S]
    BY <1>5
  <2>4. m \in [S -> Nat]
    BY <1>13
  <2>5. i \in Nat
    BY <1>3
  <2> HIDE DEF After
  <2> QED
    BY <1>14, <2>1, <2>2, <2>3, <2>4, <2>5, LoopEnds, Zenon
<1>16. PICK s \in S : s = g[i] /\ step[s] = s
  BY <1>15 DEF Ended
<1>17. Ordered(s.q)
  BY <1>0, <1>2, <1>5, <1>16, UpStepIs
<1>18. /\ s.q \in Indexed(T) /\ Size(s.q) = Size(q) /\ DueOf(s.q) = DueOf(q)
       /\ At(s.q, 0) = At(q, 0) \/ At(s.q, 0).time_ < At(q, 0).time_
  BY <1>2 DEF UpStates
<1> QED
  BY <1>10, <1>16, <1>17, <1>18

\* Everything is in order but perhaps entry i and its children.
OrderedButDown(q, i) ==
    \A j \in Places(q) : j > 0 =>
        /\ Parent(j) # i => ~Before(q, j, Parent(j))
        /\ i > 0 /\ Parent(j) = i => ~Before(q, j, Parent(i))

\* The states of down_heap's loop.
DownStates(T, due, size) ==
    {s \in [q : Indexed(T), i : Nat] :
        /\ Size(s.q) = size /\ DueOf(s.q) = due
        /\ s.i \in Places(s.q)
        /\ OrderedButDown(s.q, s.i)}

\* The child that down_heap compares with is the earlier one.
LEMMA MinChildIs ==
    ASSUME NEW T, NEW q \in Indexed(T), NEW i \in Places(q), 2 * i + 1 < Size(q)
    PROVE  /\ MinChild(q, i) \in Places(q) /\ MinChild(q, i) \in {2 * i + 1, 2 * i + 2}
           /\ \A j \in Places(q) : j = 2 * i + 1 \/ j = 2 * i + 2 =>
                 ~(At(q, j).time_ < At(q, MinChild(q, i)).time_)
<1>1. Size(q) \in Nat /\ \A j \in Places(q) : At(q, j).time_ \in Nat
  BY IndexedIs
<1>2. PICK c \in Nat : c = 2 * i + 1
  BY <1>1 DEF Places
<1>3. c \in Places(q) /\ (c + 1 \in Places(q) \/ c + 1 = Size(q))
  BY <1>1, <1>2 DEF Places
<1>4. MinChild(q, i) = IF c + 1 = Size(q) \/ At(q, c).time_ < At(q, c + 1).time_
                       THEN c ELSE c + 1
  BY <1>2 DEF MinChild, Before
<1>5. PICK a \in Nat : a = At(q, c).time_
  BY <1>1, <1>3
<1>6. CASE c + 1 = Size(q)
  <2>1. MinChild(q, i) = c /\ c + 1 \notin Places(q)
    BY <1>1, <1>4, <1>6 DEF Places
  <2>2. \A j \in Places(q) : j = 2 * i + 1 \/ j = 2 * i + 2 => j = c
    BY <1>2, <2>1 DEF Places
  <2>3. ~(a < a)
    OBVIOUS
  <2> QED
    BY <2>1, <2>2, <2>3, <1>2, <1>3, <1>5
<1>7. CASE c + 1 \in Places(q)
  <2>1. PICK b \in Nat : b = At(q, c + 1).time_
    BY <1>1, <1>7
  <2>2. c + 1 # Size(q)
    BY <1>1, <1>7 DEF Places
  <2>3. MinChild(q, i) = IF a < b THEN c ELSE c + 1
    BY <1>4, <1>5, <2>1, <2>2
  <2>4. 2 * i + 2 = c + 1
    BY <1>1, <1>2 DEF Places
  <2> QED
    BY <1>2, <1>3, <1>5, <1>7, <2>1, <2>3, <2>4
<1> QED
  BY <1>3, <1>6, <1>7

\* A turn of down_heap's loop goes down, or has put the heap in order.
LEMMA DownStepIs ==
    ASSUME NEW T, NEW due, NEW size, NEW s \in DownStates(T, due, size)
    PROVE  /\ DownStep(s) \in DownStates(T, due, size)
           /\ DownStep(s) = s \/ DownStep(s).i > s.i
           /\ DownStep(s) = s => Ordered(s.q)
<1>1. PICK q \in Indexed(T), i \in Nat : s = [q |-> q, i |-> i]
  BY DEF DownStates
<1>2. /\ Size(q) = size /\ DueOf(q) = due /\ i \in Places(q)
      /\ \A j \in Places(q) : j > 0 =>
            /\ Parent(j) # i => ~Before(q, j, Parent(j))
            /\ i > 0 /\ Parent(j) = i => ~Before(q, j, Parent(i))
  BY <1>1 DEF DownStates, OrderedButDown
<1>3. Size(q) \in Nat /\ \A j \in Places(q) : At(q, j).time_ \in Nat
  BY IndexedIs
<1>4. \A j \in Places(q) : j > 0 =>
         /\ Parent(j) \in Places(q) /\ Parent(j) < j
         /\ Parent(j) = i <=> j = 2 * i + 1 \/ j = 2 * i + 2
  <2>1. TAKE j \in Places(q)
  <2>2. HAVE j > 0
  <2>3. j \in Nat \ {0}
    BY <1>3, <2>2 DEF Places
  <2>4. /\ Parent(j) \in Nat /\ Parent(j) < j
        /\ Parent(j) = i <=> j = 2 * i + 1 \/ j = 2 * i + 2
    BY <1>1, <2>3, ParentIs
  <2> QED
    BY <1>3, <2>3, <2>4 DEF Places
<1>5. CASE 2 * i + 1 >= Size(q)
  <2>1. DownStep(s) = s
    BY <1>1, <1>5 DEF DownStep
  <2>2. \A j \in Places(q) : j > 0 => Parent(j) # i
    BY <1>1, <1>3, <1>4, <1>5 DEF Places
  <2>3. Ordered(q)
    BY <1>2, <2>2 DEF Ordered
  <2> QED
    BY <1>1, <2>1, <2>3
<1>6. CASE ~(2 * i + 1 >= Size(q))
  <2>1. PICK c : c = MinChild(q, i)
    OBVIOUS
  <2>2. 2 * i + 1 < Size(q)
    BY <1>1, <1>3, <1>6
  <2>3. /\ c \in Places(q) /\ c \in {2 * i + 1, 2 * i + 2}
        /\ \A j \in Places(q) : j = 2 * i + 1 \/ j = 2 * i + 2 =>
              ~(At(q, j).time_ < At(q, c).time_)
    BY <1>2, <2>1, <2>2, MinChildIs
  <2>4. c > i /\ c > 0 /\ c \in Nat
    BY <1>1, <2>3
  <2>5. Parent(c) = i
    BY <1>4, <2>3, <2>4
  <2>6. CASE At(q, i).time_ < At(q, c).time_
    <3>1. DownStep(s) = s
      BY <1>1, <2>1, <2>6 DEF DownStep, Before
    <3>2. ASSUME NEW j \in Places(q), j > 0, Parent(j) = i
          PROVE  ~(At(q, j).time_ < At(q, Parent(j)).time_)
      <4>1. ~(At(q, j).time_ < At(q, c).time_)
        BY <1>4, <2>3, <3>2
      <4>2. /\ At(q, j).time_ \in Nat /\ At(q, c).time_ \in Nat /\ At(q, i).time_ \in Nat
        BY <1>2, <1>3, <2>3
      <4> QED
        BY <2>6, <3>2, <4>1, <4>2
    <3>3. Ordered(q)
      BY <1>2, <3>2 DEF Ordered, Before
    <3> QED
      BY <1>1, <3>1, <3>3
  <2>7. CASE ~(At(q, i).time_ < At(q, c).time_)
    <3>1. PICK r : r = SwapHeap(q, i, c)
      OBVIOUS
    <3>2. /\ r \in Indexed(T) /\ Size(r) = size /\ DueOf(r) = due
          /\ At(r, i) = At(q, c) /\ At(r, c) = At(q, i)
          /\ \A k \in Places(q) \ {i, c} : At(r, k) = At(q, k)
      <4>1. i # c
        BY <1>1, <2>4
      <4>2. Swapped(T, q, i, c, r)
        BY <1>2, <2>3, <3>1, <4>1, SwapIs, Zenon
      <4> QED
        BY <1>2, <4>2 DEF Swapped
    <3>3. DownStep(s) = [q |-> r, i |-> c]
      BY <1>1, <1>6, <2>1, <2>7, <3>1 DEF DownStep, Before
    <3>4. ASSUME NEW j \in Places(r), j > 0
          PROVE  /\ Parent(j) # c => ~(At(r, j).time_ < At(r, Parent(j)).time_)
                 /\ Parent(j) = c => ~(At(r, j).time_ < At(r, Parent(c)).time_)
      <4>1. j \in Places(q) /\ Parent(j) \in Places(q) /\ Parent(j) < j /\ j \in Nat
            /\ Parent(j) \in Nat
        BY <1>2, <1>3, <1>4, <3>2, <3>4 DEF Places
      <4>2. Parent(j) # i => ~(At(q, j).time_ < At(q, Parent(j)).time_)
        BY <1>2, <3>4, <4>1 DEF Before
      <4>3. Parent(j) = i => ~(At(q, j).time_ < At(q, c).time_)
        BY <1>4, <2>3, <3>4, <4>1
      <4>4. /\ At(r, j) = IF j = i THEN At(q, c) ELSE IF j = c THEN At(q, i) ELSE At(q, j)
            /\ At(r, Parent(j)) = IF Parent(j) = i THEN At(q, c)
                                  ELSE IF Parent(j) = c THEN At(q, i) ELSE At(q, Parent(j))
        BY <3>2, <4>1
      <4>5. ASSUME Parent(j) # c PROVE ~(At(r, j).time_ < At(r, Parent(j)).time_)
        <5>1. CASE j = c
          BY <5>1, <2>4, <2>5, <2>7, <4>4
        <5>2. CASE j = i
          <6>1. ~(At(q, c).time_ < At(q, Parent(i)).time_)
            BY <1>2, <2>3, <2>4, <2>5, <3>4, <5>2 DEF Before
          <6>2. Parent(j) # i
            BY <4>1, <5>2
          <6> QED
            BY <4>4, <4>5, <5>2, <6>1, <6>2
        <5>3. CASE j # c /\ j # i /\ Parent(j) = i
          BY <5>3, <4>3, <4>4
        <5>4. CASE j # c /\ j # i /\ Parent(j) # i
          BY <5>4, <4>2, <4>4, <4>5
        <5> QED
          BY <5>1, <5>2, <5>3, <5>4
      <4>6. ASSUME Parent(j) = c PROVE ~(At(r, j).time_ < At(r, Parent(c)).time_)
        <5>1. j # c /\ j # i /\ c # i
          BY <1>1, <2>4, <4>1, <4>6
        <5>2. At(r, j) = At(q, j) /\ At(r, Parent(c)) = At(q, c)
          BY <2>5, <3>2, <4>4, <5>1
        <5> QED
          BY <4>2, <4>6, <5>1, <5>2
      <4> QED
        BY <4>5, <4>6
    <3>5. OrderedButDown(r, c)
      BY <3>4 DEF OrderedButDown, Before
    <3>6. [q |-> r, i |-> c] \in DownStates(T, due, size)
      BY <1>2, <2>3, <2>4, <3>2, <3>5 DEF DownStates, Places
    <3> QED
      BY <1>1, <2>4, <3>3, <3>6
  <2> QED
    BY <2>6, <2>7
<1> QED
  BY <1>5, <1>6

\* down_heap puts an entry in order that only its children were early for.
LEMMA DownHeapIs ==
    ASSUME NEW T, NEW q \in Indexed(T), NEW i \in Places(q), OrderedButDown(q, i)
    PROVE  /\ DownHeap(q, i) \in Indexed(T)
           /\ Size(DownHeap(q, i)) = Size(q)
           /\ DueOf(DownHeap(q, i)) = DueOf(q)
           /\ Ordered(DownHeap(q, i))
<1>1. PICK z : z = [q |-> q, i |-> i]
  OBVIOUS
<1>2. PICK S : S = DownStates(T, DueOf(q), Size(q))
  OBVIOUS
<1>0. PICK N \in Nat : N = Size(q)
  BY IndexedIs
<1>3. z \in S /\ i \in Nat /\ z.i = i
  BY <1>0, <1>1, <1>2, IndexedIs DEF DownStates, Places
<1>4. PICK step : step = [s \in S |-> DownStep(s)]
  OBVIOUS
<1>5. /\ step \in [S -> S]
      /\ \A s \in S : step[s] = DownStep(s)
  BY <1>2, <1>4, DownStepIs
<1>6. PICK f : Run(S, step, z, N, f)
  <2>1. step \in [S -> S]
    BY <1>5
  <2>2. z \in S
    BY <1>3
  <2> QED
    BY <2>1, <2>2, LoopRuns, Zenon
<1> DEFINE After(g) == g = [n \in 0..N |-> IF n = 0 THEN [q |-> q, i |-> i]
                                           ELSE DownStep(g[n - 1])]
<1>7. After(f)
  <2>1. ASSUME NEW n \in 0..N
        PROVE  f[n] = IF n = 0 THEN [q |-> q, i |-> i] ELSE DownStep(f[n - 1])
    <3>1. CASE n = 0
      BY <3>1, <1>1, <1>6 DEF Run
    <3>2. CASE n # 0
      <4>1. n \in 1..N /\ n - 1 \in 0..N
        BY <3>2
      <4> QED
        BY <3>2, <4>1, <1>5, <1>6 DEF Run
    <3> QED
      BY <3>1, <3>2
  <2> QED
    BY <1>6, <2>1 DEF Run
<1>8. PICK g : g = CHOOSE h : After(h)
  OBVIOUS
<1>9. After(g)
  BY <1>7, <1>8, Zenon
<1>10. DownHeap(q, i) = g[N].q
  BY <1>0, <1>8 DEF DownHeap
<1>11. g[0] = z /\ \A n \in 1..N : g[n] = DownStep(g[n - 1])
  BY <1>1, <1>3, <1>9
<1>12. PICK m : m = [s \in S |-> N - s.i]
  OBVIOUS
<1>13. m \in [S -> Nat] /\ \A s \in S : m[s] = N - s.i
  BY <1>0, <1>2, <1>12 DEF DownStates, Places
<1>14. \A s \in S : step[s] = s \/ m[step[s]] < m[s]
  <2>1. TAKE s \in S
  <2>2. step[s] \in S
    BY <1>5
  <2>3. s.i \in 0..N - 1 /\ DownStep(s).i \in 0..N - 1
    BY <2>2, <1>0, <1>2, <1>5 DEF DownStates, Places
  <2>4. DownStep(s) = s \/ DownStep(s).i > s.i
    BY <1>2, DownStepIs
  <2>5. step[s] = DownStep(s) /\ m[s] = N - s.i /\ m[DownStep(s)] = N - DownStep(s).i
    BY <2>2, <1>5, <1>13
  <2> QED
    BY <2>3, <2>4, <2>5
<1>15. Ended(S, step, g[N])
  <2>1. \A n \in 1..N : g[n - 1] \in S => g[n] = step[g[n - 1]]
    BY <1>5, <1>11
  <2>2. g[0] \in S /\ m[g[0]] <= N
    BY <1>3, <1>11, <1>13
  <2>3. step \in [S -> S]
    BY <1>5
  <2>4. m \in [S -> Nat]
    BY <1>13
  <2> HIDE DEF After
  <2> QED
    BY <1>14, <2>1, <2>2, <2>3, <2>4, LoopEnds, Zenon
<1>16. PICK s \in S : s = g[N] /\ step[s] = s
  BY <1>15 DEF Ended
<1>17. Ordered(s.q)
  BY <1>2, <1>5, <1>16, DownStepIs
<1>18. s.q \in Indexed(T) /\ Size(s.q) = Size(q) /\ DueOf(s.q) = DueOf(q)
  BY <1>2 DEF DownStates
<1> QED
  BY <1>10, <1>16, <1>17, <1>18

-----------------------------------------------------------------------------
(* The operations of a queue.                                              *)

\* The queues that the program has.
Heaps(T) == {q \in Indexed(T) : Ordered(q)}

\* By the order along the path to it, no entry is due before the first.
LEMMA RootIsFirst ==
    ASSUME NEW T, NEW q \in Heaps(T), NEW i \in Places(q)
    PROVE  At(q, 0).time_ <= At(q, i).time_
<1>1. /\ Size(q) \in Nat /\ q \in Indexed(T)
      /\ \A j \in Places(q) : At(q, j).time_ \in Nat
      /\ \A j \in Places(q) : j > 0 => ~(At(q, j).time_ < At(q, Parent(j)).time_)
  BY IndexedIs DEF Heaps, Ordered, Before
<1> DEFINE Bad == {j \in Places(q) : ~(At(q, 0).time_ <= At(q, j).time_)}
<1>2. SUFFICES ASSUME Bad # {} PROVE FALSE
  OBVIOUS
<1>3. PICK j \in Bad : \A k \in Bad : j <= k
  <2>1. Bad \in SUBSET Nat
    BY <1>1 DEF Places
  <2> HIDE DEF Bad
  <2> QED
    BY <1>2, <2>1, LeastOf
<1>4. j \in Places(q) /\ ~(At(q, 0).time_ <= At(q, j).time_) /\ 0 \in Places(q)
  BY <1>1, <1>3 DEF Places
<1>5. PICK a \in Nat, b \in Nat : a = At(q, 0).time_ /\ b = At(q, j).time_
  BY <1>1, <1>4
<1>6. j > 0 /\ j \in Nat \ {0}
  BY <1>1, <1>4, <1>5 DEF Places
<1>7. PICK p : p = Parent(j)
  OBVIOUS
<1>8. p \in Places(q) /\ p \in Nat /\ p < j
  BY <1>1, <1>4, <1>6, <1>7, ParentIs DEF Places
<1>9. PICK c \in Nat : c = At(q, p).time_
  BY <1>1, <1>8
<1>10. ~(b < c)
  BY <1>1, <1>4, <1>5, <1>6, <1>7, <1>9
<1>11. ~(a <= c)
  BY <1>4, <1>5, <1>10
<1>12. p \in Bad
  BY <1>5, <1>8, <1>9, <1>11
<1> QED
  BY <1>3, <1>6, <1>8, <1>12

\* The first entry of the heap is due before all, as DueOf says it.
LEMMA FirstDue ==
    ASSUME NEW T, NEW q \in Heaps(T)
    PROVE  /\ DOMAIN DueOf(q) = q.timers_
           /\ \A t \in q.timers_ : DueOf(q)[t] \in Nat \cup {Never}
           /\ \A t \in q.timers_ : DueOf(q)[t] = Never <=> q.heap_index_[t] = Never
           /\ Size(q) = 0 <=> \A t \in q.timers_ : DueOf(q)[t] = Never
           /\ Size(q) > 0 => /\ At(q, 0).timer_ \in q.timers_
                             /\ At(q, 0).time_ \in Nat
                             /\ DueOf(q)[At(q, 0).timer_] = At(q, 0).time_
                             /\ \A t \in q.timers_ : DueOf(q)[t] # Never =>
                                   At(q, 0).time_ <= DueOf(q)[t]
<1>1. /\ Size(q) \in Nat /\ q \in Indexed(T) /\ Exact(q)
      /\ q.heap_index_ \in [q.timers_ -> Nat \cup {Never}]
      /\ \A j \in Places(q) : /\ At(q, j).time_ \in Nat
                              /\ At(q, j).timer_ \in q.timers_
                              /\ q.heap_index_[At(q, j).timer_] = j
  BY IndexedIs DEF Heaps, Exact
<1>2. DOMAIN DueOf(q) = q.timers_ /\ \A t \in q.timers_ : DueOf(q)[t] = DueAt(q, t)
  BY DEF DueOf
<1>3. \A t \in q.timers_ : /\ q.heap_index_[t] = Never => DueOf(q)[t] = Never
                           /\ q.heap_index_[t] # Never =>
                                 /\ q.heap_index_[t] \in Places(q)
                                 /\ DueOf(q)[t] = At(q, q.heap_index_[t]).time_
                                 /\ DueOf(q)[t] \in Nat
  BY <1>1, <1>2 DEF Exact, DueAt
<1>4. \A j \in Places(q) : /\ DueOf(q)[At(q, j).timer_] = At(q, j).time_
                           /\ DueOf(q)[At(q, j).timer_] # Never
  <2>1. TAKE j \in Places(q)
  <2>2. j # Never
    BY <1>1 DEF Places
  <2> QED
    BY <1>1, <1>3, <2>2
<1>5. ASSUME Size(q) > 0
      PROVE  /\ At(q, 0).timer_ \in q.timers_
             /\ At(q, 0).time_ \in Nat
             /\ DueOf(q)[At(q, 0).timer_] = At(q, 0).time_
             /\ DueOf(q)[At(q, 0).timer_] # Never
             /\ \A t \in q.timers_ : DueOf(q)[t] # Never => At(q, 0).time_ <= DueOf(q)[t]
  <2>1. 0 \in Places(q)
    BY <1>1, <1>5 DEF Places
  <2> QED
    BY <1>1, <1>3, <1>4, <2>1, RootIsFirst
<1>6. ASSUME Size(q) = 0 PROVE \A t \in q.timers_ : DueOf(q)[t] = Never
  BY <1>1, <1>3, <1>6 DEF Places
<1> QED
  BY <1>1, <1>2, <1>3, <1>5, <1>6

\* enqueue_timer adds t and says whether it is due before all others.
Enqueued(T, q, t, time, r) ==
    /\ r \in Heaps(T)
    /\ DueOf(r) = [u \in q.timers_ \cup {t} |-> IF u = t THEN time ELSE DueOf(q)[u]]
    /\ r.heap_index_[t] = 0 <=>
          /\ time # Never
          /\ \A u \in q.timers_ : DueOf(q)[u] = Never \/ time < DueOf(q)[u]

\* Of a timer that is not queued, as async_wait does.
LEMMA EnqueueIs ==
    ASSUME NEW T, NEW q \in Heaps(T), NEW t \in T, NEW time \in Nat \cup {Never},
           t \notin q.timers_
    PROVE  Enqueued(T, q, t, time, EnqueueTimer(q, time, t))
<1> DEFINE D == q.timers_ \cup {t}
           i == IF time = Never THEN Never ELSE Size(q)
           h == IF time = Never THEN q.heap_ ELSE Append(q.heap_, Entry(time, t))
           x == [u \in D |-> IF u = t THEN i ELSE q.heap_index_[u]]
<1>1. PICK r : r = Queue(h, x, D)
  OBVIOUS
<1>2. EnqueueTimer(q, time, t) = IF time = Never THEN r ELSE UpHeap(r, i)
  BY <1>1 DEF EnqueueTimer
<1>3. /\ q \in Indexed(T) /\ Size(q) \in Nat /\ q.heap_ \in Seq(Entries(T))
      /\ q.timers_ \subseteq T
      /\ q.heap_index_ \in [q.timers_ -> Nat \cup {Never}]
      /\ Exact(q)
      /\ \A j \in Places(q) : At(q, j).timer_ \in q.timers_ /\ At(q, j).time_ \in Nat
      /\ \A j \in Places(q) : j > 0 => ~Before(q, j, Parent(j))
  BY IndexedIs DEF Heaps, Ordered
<1>4. /\ h \in Seq(Entries(T))
      /\ Len(h) = IF time = Never THEN Size(q) ELSE Size(q) + 1
      /\ \A j \in Places(q) : h[j + 1] = q.heap_[j + 1]
      /\ time # Never => h[Size(q) + 1] = Entry(time, t)
  <2>1. \A j \in Places(q) : j + 1 \in 1..Len(q.heap_)
    BY <1>3 DEF Places, Size
  <2>2. CASE time = Never
    BY <1>3, <2>2 DEF Size
  <2>3. CASE time # Never
    <3>1. PICK e \in Entries(T) : e = Entry(time, t)
      BY <2>3 DEF Entries, Entry
    <3>2. h = Append(q.heap_, e)
      BY <2>3, <3>1
    <3> QED
      BY <1>3, <2>1, <2>3, <3>1, <3>2 DEF Size
  <2> QED
    BY <2>2, <2>3
<1>5. /\ x \in [D -> Nat \cup {Never}] /\ x[t] = i
      /\ \A u \in q.timers_ : u # t /\ x[u] = q.heap_index_[u]
  BY <1>3
<1>6. D \in SUBSET T
  BY <1>3
<1> HIDE DEF h, x, D
<1>7. /\ r.heap_ = h /\ r.heap_index_ = x /\ r.timers_ = D
      /\ Size(r) = IF time = Never THEN Size(q) ELSE Size(q) + 1
      /\ \A j \in Places(q) : At(r, j) = At(q, j)
      /\ time # Never => At(r, Size(q)) = Entry(time, t)
  BY <1>1, <1>4 DEF Queue, Size, At
<1>8. /\ \A j \in Places(r) : j \in Places(q) \/ (time # Never /\ j = Size(q))
      /\ \A j \in Places(q) : j \in Places(r)
      /\ time # Never => Size(q) \in Places(r) /\ i = Size(q)
  BY <1>3, <1>7 DEF Places
<1>9. Exact(r)
  <2>1. DOMAIN x = D
    BY <1>5
  <2>2. ASSUME NEW u \in D, x[u] # Never
        PROVE  x[u] \in Places(r) /\ At(r, x[u]).timer_ = u
    <3>1. CASE u = t
      BY <2>2, <3>1, <1>5, <1>7, <1>8 DEF Entry
    <3>2. CASE u # t
      BY <2>2, <3>2, <1>3, <1>5, <1>7, <1>8 DEF Exact, D
    <3> QED
      BY <3>1, <3>2
  <2>3. ASSUME NEW j \in Places(r) PROVE At(r, j).timer_ \in D /\ x[At(r, j).timer_] = j
    <3>1. CASE j \in Places(q)
      BY <3>1, <1>3, <1>5, <1>7 DEF Exact, D
    <3>2. CASE time # Never /\ j = Size(q)
      BY <3>2, <1>5, <1>7, <1>8 DEF Entry, D
    <3> QED
      BY <1>8, <3>1, <3>2
  <2> QED
    BY <1>7, <2>1, <2>2, <2>3 DEF Exact
<1>10. r \in Indexed(T)
  BY <1>1, <1>4, <1>5, <1>6, <1>9, IsIndexed
<1>11. DueOf(r) = [u \in D |-> IF u = t THEN time ELSE DueOf(q)[u]]
  <2>1. DueAt(r, t) = time
    BY <1>3, <1>5, <1>7, <1>8 DEF DueAt, Entry
  <2>2. ASSUME NEW u \in q.timers_ PROVE DueAt(r, u) = DueOf(q)[u]
    BY <1>3, <1>5, <1>7 DEF DueAt, DueOf, Exact
  <2> QED
    BY <1>5, <1>7, <2>1, <2>2 DEF DueOf, D
<1>12. \A j \in Places(q) : j > 0 => ~Before(r, j, Parent(j))
  <2>1. TAKE j \in Places(q)
  <2>2. HAVE j > 0
  <2>3. Parent(j) \in Places(q)
    BY <1>3, <2>2, ParentIs DEF Places
  <2> QED
    BY <1>3, <1>7, <2>2, <2>3 DEF Before
<1>13. CASE time = Never
  <2>1. r \in Heaps(T)
    BY <1>8, <1>10, <1>12, <1>13 DEF Heaps, Ordered
  <2>2. x[t] # 0
    BY <1>5, <1>13
  <2> QED
    BY <1>2, <1>7, <1>11, <1>13, <2>1, <2>2 DEF D, Enqueued
<1>14. CASE time # Never
  <2>1. OrderedButUp(r, i)
    <3>1. ASSUME NEW j \in Places(r), j > 0
          PROVE  /\ j # i => ~Before(r, j, Parent(j))
                 /\ Parent(j) # i
      <4>1. j \in Nat \ {0} /\ j <= Size(q)
        BY <1>3, <1>7, <1>14, <3>1 DEF Places
      <4>2. Parent(j) < j /\ Parent(j) \in Nat
        BY <4>1, ParentIs
      <4> QED
        BY <1>3, <1>8, <1>12, <1>14, <3>1, <4>1, <4>2
    <3> QED
      BY <3>1 DEF OrderedButUp
  <2>2. PICK p : p = UpHeap(r, i)
    OBVIOUS
  <2>3. /\ p \in Indexed(T) /\ Size(p) = Size(r) /\ DueOf(p) = DueOf(r) /\ Ordered(p)
        /\ At(p, 0) = At(r, 0) \/ At(p, 0).time_ < At(r, 0).time_
    BY <1>8, <1>10, <1>14, <2>1, <2>2, UpHeapIs
  <2>4. p \in Heaps(T)
    BY <2>3 DEF Heaps
  <2>5. /\ p.timers_ = D /\ Size(p) > 0 /\ time \in Nat
        /\ DueOf(p)[t] = time /\ \A u \in q.timers_ : DueOf(p)[u] = DueOf(q)[u]
    <3>1. p.timers_ = DOMAIN DueOf(p) /\ DOMAIN DueOf(r) = D
      BY <1>11 DEF DueOf
    <3>2. DueOf(r)[t] = time /\ \A u \in q.timers_ : DueOf(r)[u] = DueOf(q)[u]
      BY <1>5, <1>11 DEF D
    <3> QED
      BY <1>3, <1>7, <1>14, <2>3, <3>1, <3>2
  <2>6. /\ At(p, 0).timer_ \in D /\ At(p, 0).time_ \in Nat
        /\ DueOf(p)[At(p, 0).timer_] = At(p, 0).time_
        /\ \A u \in D : DueOf(p)[u] # Never => At(p, 0).time_ <= DueOf(p)[u]
    BY <2>4, <2>5, FirstDue
  <2>7. p.heap_index_[t] = 0 <=> At(p, 0).timer_ = t
    <3>1. Exact(p) /\ 0 \in Places(p) /\ t \in p.timers_ /\ 0 # Never
      BY <2>3, <2>5, <1>3, <1>7, IndexedIs DEF Places, D
    <3> QED
      BY <3>1 DEF Exact
  <2>8. ASSUME At(p, 0).timer_ = t, NEW u \in q.timers_, DueOf(q)[u] # Never
        PROVE  time < DueOf(q)[u]
    <3>1. /\ DueOf(q)[u] \in Nat /\ Size(q) > 0 /\ At(q, 0).time_ <= DueOf(q)[u]
          /\ At(q, 0).timer_ \in q.timers_ /\ At(q, 0).time_ \in Nat
      BY <1>3, <2>8, FirstDue
    <3>2. At(r, 0) = At(q, 0)
      BY <1>3, <1>7, <3>1 DEF Places
    <3>3. At(p, 0).time_ < At(q, 0).time_
      BY <1>5, <2>3, <2>8, <3>1, <3>2
    <3>4. time = At(p, 0).time_
      BY <2>5, <2>6, <2>8
    <3> QED
      BY <2>5, <3>1, <3>3, <3>4
  <2>9. ASSUME \A u \in q.timers_ : DueOf(q)[u] = Never \/ time < DueOf(q)[u]
        PROVE  At(p, 0).timer_ = t
    <3>1. SUFFICES ASSUME At(p, 0).timer_ \in q.timers_ PROVE FALSE
      BY <2>6 DEF D
    <3>2. PICK u \in q.timers_ : u = At(p, 0).timer_
      BY <3>1
    <3>3. DueOf(q)[u] = At(p, 0).time_ /\ At(p, 0).time_ <= time
      BY <2>5, <2>6, <3>2 DEF D
    <3>4. DueOf(q)[u] # Never
      BY <2>6, <3>3
    <3> QED
      BY <2>5, <2>6, <2>9, <3>3, <3>4
  <2> QED
    BY <1>2, <1>11, <1>14, <2>2, <2>3, <2>4, <2>7, <2>8, <2>9 DEF D, Enqueued
<1> QED
  BY <1>13, <1>14

\* The queue without timer t, whose entry is the last of the heap.
Popped(q, t) ==
    Queue(Front(q.heap_), [u \in q.timers_ \ {t} |-> q.heap_index_[u]], q.timers_ \ {t})

\* pop_back, after the timer's entry went to the end.
LEMMA PoppedIs ==
    ASSUME NEW T, NEW q \in Indexed(T), NEW t \in q.timers_,
           q.heap_index_[t] = Size(q) - 1
    PROVE  /\ Popped(q, t) \in Indexed(T) /\ Size(Popped(q, t)) = Size(q) - 1
           /\ Popped(q, t).timers_ = q.timers_ \ {t}
           /\ DueOf(Popped(q, t)) = [u \in q.timers_ \ {t} |-> DueOf(q)[u]]
           /\ Places(Popped(q, t)) = Places(q) \ {Size(q) - 1}
           /\ \A j \in Places(q) \ {Size(q) - 1} : At(Popped(q, t), j) = At(q, j)
<1> DEFINE D == q.timers_ \ {t}
           last == Size(q) - 1
           x == [u \in D |-> q.heap_index_[u]]
           h == Front(q.heap_)
<1>1. /\ Size(q) \in Nat /\ q.heap_ \in Seq(Entries(T))
      /\ q.timers_ \subseteq T
      /\ q.heap_index_ \in [q.timers_ -> Nat \cup {Never}]
      /\ Exact(q)
      /\ \A j \in Places(q) : At(q, j).timer_ \in q.timers_ /\ At(q, j).time_ \in Nat
  BY IndexedIs
<1>2. last \in Places(q) /\ At(q, last).timer_ = t /\ Size(q) > 0
  <2>1. q.heap_index_[t] # Never
    BY <1>1
  <2>2. last \in Places(q) /\ At(q, last).timer_ = t
    BY <1>1, <2>1 DEF Exact
  <2> QED
    BY <1>1, <2>2 DEF Places
<1>3. /\ h \in Seq(Entries(T)) /\ Len(h) = last
      /\ \A j \in 1..last : h[j] = q.heap_[j]
  BY <1>1, <1>2 DEF Front, Size
<1>4. x \in [D -> Nat \cup {Never}] /\ \A u \in D : x[u] = q.heap_index_[u]
  BY <1>1
<1>5. D \in SUBSET T
  BY <1>1
<1>6. PICK r : r = Popped(q, t)
  OBVIOUS
<1>7. r = Queue(h, x, D)
  BY <1>6 DEF Popped
<1> HIDE DEF h, x
<1>8. /\ r.heap_index_ = x /\ r.timers_ = D /\ Size(r) = last
      /\ \A j \in Places(q) \ {last} : At(r, j) = At(q, j)
      /\ Places(r) = Places(q) \ {last}
  <2>1. r.heap_ = h /\ r.heap_index_ = x /\ r.timers_ = D
    BY <1>7 DEF Queue
  <2>2. Size(r) = last
    BY <1>3, <2>1 DEF Size
  <2>3. Places(r) = Places(q) \ {last}
    BY <1>1, <1>2, <2>2 DEF Places
  <2>4. \A j \in Places(q) \ {last} : j + 1 \in 1..last
    BY <1>1, <1>2 DEF Places
  <2> QED
    BY <1>3, <2>1, <2>2, <2>3, <2>4 DEF At
<1>9. \A u \in D : q.heap_index_[u] # Never =>
         /\ q.heap_index_[u] \in Places(q) \ {last}
         /\ At(q, q.heap_index_[u]).timer_ = u
  BY <1>1, <1>2 DEF Exact
<1>10. \A j \in Places(q) \ {last} :
          At(q, j).timer_ \in D /\ q.heap_index_[At(q, j).timer_] = j
  BY <1>1, <1>2 DEF Exact
<1>11. Exact(r)
  BY <1>4, <1>8, <1>9, <1>10 DEF Exact
<1>12. r \in Indexed(T)
  BY <1>3, <1>4, <1>5, <1>7, <1>11, IsIndexed
<1>13. DueOf(r) = [u \in D |-> DueOf(q)[u]]
  BY <1>4, <1>8, <1>9 DEF DueOf, DueAt
<1> QED
  BY <1>6, <1>8, <1>12, <1>13

\* remove_timer takes one timer out, from wherever it was in the heap.
LEMMA RemoveIs ==
    ASSUME NEW T, NEW q \in Heaps(T), NEW t \in q.timers_
    PROVE  /\ RemoveTimer(q, t) \in Heaps(T)
           /\ DueOf(RemoveTimer(q, t)) = [u \in q.timers_ \ {t} |-> DueOf(q)[u]]
           /\ q.heap_index_[t] # Never => Size(RemoveTimer(q, t)) < Size(q)
<1>1. /\ q \in Indexed(T) /\ Size(q) \in Nat /\ Exact(q) /\ q.timers_ \subseteq T
      /\ q.heap_ \in Seq(Entries(T))
      /\ q.heap_index_ \in [q.timers_ -> Nat \cup {Never}]
      /\ \A j \in Places(q) : At(q, j).timer_ \in q.timers_ /\ At(q, j).time_ \in Nat
      /\ \A j \in Places(q) : j > 0 => ~(At(q, j).time_ < At(q, Parent(j)).time_)
  BY IndexedIs DEF Heaps, Ordered, Before
<1>2. PICK i : i = q.heap_index_[t]
  OBVIOUS
<1>3. PICK last : last = Size(q) - 1
  OBVIOUS
<1>4. \A j \in Places(q) : j > 0 => Parent(j) \in Places(q) /\ Parent(j) < j
  <2>1. TAKE j \in Places(q)
  <2>2. HAVE j > 0
  <2> QED
    BY <1>1, <2>2, ParentIs DEF Places
<1>5. CASE i = Never
  <2> DEFINE D == q.timers_ \ {t}
             x == [u \in D |-> q.heap_index_[u]]
  <2>1. PICK r : r = Queue(q.heap_, x, D)
    OBVIOUS
  <2>2. RemoveTimer(q, t) = r
    BY <1>2, <1>5, <2>1, Zenon DEF RemoveTimer
  <2>3. /\ r.heap_index_ = x /\ r.timers_ = D /\ Size(r) = Size(q)
        /\ \A j \in Places(q) : At(r, j) = At(q, j)
        /\ Places(r) = Places(q)
    BY <2>1 DEF Queue, Size, Places, At
  <2>4. x \in [D -> Nat \cup {Never}] /\ \A u \in D : x[u] = q.heap_index_[u]
    BY <1>1
  <2>5. \A j \in Places(q) : At(q, j).timer_ \in D
    <3>1. TAKE j \in Places(q)
    <3>2. At(q, j).timer_ \in q.timers_ /\ q.heap_index_[At(q, j).timer_] = j /\ j # Never
      BY <1>1 DEF Exact, Places
    <3> QED
      BY <1>2, <1>5, <3>2
  <2>6. Exact(r)
    BY <1>1, <2>3, <2>4, <2>5 DEF Exact
  <2>7. r \in Indexed(T)
    <3>1. D \in SUBSET T
      BY <1>1
    <3> HIDE DEF D, x
    <3> QED
      BY <1>1, <2>1, <2>4, <2>6, <3>1, IsIndexed
  <2>8. DueOf(r) = [u \in D |-> DueOf(q)[u]]
    BY <1>1, <2>3, <2>4 DEF DueOf, DueAt, Exact
  <2>9. Ordered(r)
    BY <1>1, <1>4, <2>3 DEF Ordered, Before
  <2> QED
    BY <1>2, <1>5, <2>2, <2>7, <2>8, <2>9 DEF Heaps
<1>6. CASE i = last
  <2>1. RemoveTimer(q, t) = Popped(q, t)
    <3>1. i # Never
      BY <1>1, <1>3, <1>6
    <3> QED
      BY <1>2, <1>3, <1>6, <3>1, Zenon DEF RemoveTimer, Popped
  <2>2. PICK r : r = Popped(q, t)
    OBVIOUS
  <2>3. /\ r \in Indexed(T) /\ Size(r) = last
        /\ DueOf(r) = [u \in q.timers_ \ {t} |-> DueOf(q)[u]]
        /\ Places(r) = Places(q) \ {last}
        /\ \A j \in Places(q) \ {last} : At(r, j) = At(q, j)
    BY <1>1, <1>2, <1>3, <1>6, <2>2, PoppedIs
  <2>4. \A j \in Places(r) : j > 0 => Parent(j) \in Places(r)
    BY <1>1, <1>3, <1>4, <2>3 DEF Places
  <2>5. Ordered(r)
    BY <1>1, <2>3, <2>4 DEF Ordered, Before
  <2> QED
    BY <1>1, <1>3, <2>1, <2>2, <2>3, <2>5 DEF Heaps
<1>7. CASE i # Never /\ i # last
  <2>1. i \in Places(q) /\ At(q, i).timer_ = t /\ last \in Places(q) /\ i < last /\ last \in Nat
    BY <1>1, <1>2, <1>3, <1>7 DEF Exact, Places
  <2>2. PICK p : p = SwapHeap(q, i, last)
    OBVIOUS
  <2>3. /\ p \in Indexed(T) /\ Size(p) = Size(q) /\ DueOf(p) = DueOf(q)
        /\ p.timers_ = q.timers_
        /\ At(p, i) = At(q, last) /\ At(p, last) = At(q, i)
        /\ \A k \in Places(q) \ {i, last} : At(p, k) = At(q, k)
    <3>1. i # last
      BY <1>7
    <3>2. Swapped(T, q, i, last, p)
      BY <1>1, <2>1, <2>2, <3>1, SwapIs, Zenon
    <3> QED
      BY <3>2 DEF Swapped
  <2>4. p.heap_index_[t] = Size(p) - 1 /\ t \in p.timers_
    <3>1. Exact(p) /\ Places(p) = Places(q)
      BY <2>3, IndexedIs DEF Places
    <3>2. p.heap_index_[At(p, last).timer_] = last
      BY <2>1, <3>1 DEF Exact
    <3> QED
      BY <1>3, <2>1, <2>3, <3>2
  <2>5. PICK r : r = Popped(p, t)
    OBVIOUS
  <2>6. /\ r \in Indexed(T) /\ Size(r) = last
        /\ DueOf(r) = [u \in q.timers_ \ {t} |-> DueOf(q)[u]]
        /\ Places(r) = Places(q) \ {last}
        /\ \A j \in Places(q) \ {last} : At(r, j) = At(p, j)
    <3>1. Places(p) = Places(q)
      BY <2>3 DEF Places
    <3>2. /\ r \in Indexed(T) /\ Size(r) = Size(p) - 1
          /\ DueOf(r) = [u \in p.timers_ \ {t} |-> DueOf(p)[u]]
          /\ Places(r) = Places(p) \ {Size(p) - 1}
          /\ \A j \in Places(p) \ {Size(p) - 1} : At(r, j) = At(p, j)
      BY <2>3, <2>4, <2>5, PoppedIs
    <3> QED
      BY <1>3, <2>3, <3>1, <3>2
  <2>7. RemoveTimer(q, t) = Repair(r, i)
    BY <1>2, <1>3, <1>7, <2>2, <2>3, <2>5, Zenon DEF RemoveTimer, Popped
  <2>8. /\ i \in Places(r)
        /\ \A j \in Places(r) : /\ j # i => At(r, j) = At(q, j)
                                /\ j > 0 => Parent(j) \in Places(r) /\ Parent(j) < j
    BY <1>1, <1>3, <1>4, <2>1, <2>3, <2>6 DEF Places
  <2>9. ASSUME NEW j \in Places(r), j > 0
        PROVE  /\ j # i /\ Parent(j) # i => ~(At(r, j).time_ < At(r, Parent(j)).time_)
               /\ i > 0 /\ Parent(j) = i => ~(At(r, j).time_ < At(r, Parent(i)).time_)
    <3>1. j \in Places(q) /\ i \in Places(q) /\ Parent(j) < j /\ Parent(j) \in Places(q)
      BY <2>1, <2>6, <2>8, <2>9
    <3>2. ~(At(q, j).time_ < At(q, Parent(j)).time_)
      BY <1>1, <2>9, <3>1
    <3>3. j # i /\ Parent(j) # i => ~(At(r, j).time_ < At(r, Parent(j)).time_)
      BY <2>8, <2>9, <3>2
    <3>4. ASSUME i > 0, Parent(j) = i PROVE ~(At(r, j).time_ < At(r, Parent(i)).time_)
      <4>1. ~(At(q, i).time_ < At(q, Parent(i)).time_) /\ Parent(i) < i
            /\ Parent(i) \in Places(r) /\ Parent(i) \in Places(q)
        BY <1>1, <1>4, <2>1, <2>8, <3>4
      <4>2. At(r, Parent(i)) = At(q, Parent(i)) /\ At(r, j) = At(q, j)
        <5>1. j # i /\ Parent(i) # i
          BY <1>1, <3>1, <3>4, <4>1 DEF Places
        <5> QED
          BY <2>8, <2>9, <4>1, <5>1
      <4>3. /\ At(q, Parent(i)).time_ \in Nat /\ At(q, i).time_ \in Nat
            /\ At(q, j).time_ \in Nat
        BY <1>1, <3>1, <4>1
      <4> QED
        BY <3>2, <3>4, <4>1, <4>2, <4>3
    <3> QED
      BY <3>3, <3>4
  <2>10. PICK s : s = Repair(r, i)
    OBVIOUS
  <2>11. /\ s \in Indexed(T) /\ Size(s) = Size(r) /\ DueOf(s) = DueOf(r) /\ Ordered(s)
    <3>1. CASE i > 0 /\ Before(r, i, Parent(i))
      <4>1. ASSUME NEW j \in Places(r), j > 0, j # i
            PROVE  ~(At(r, j).time_ < At(r, Parent(j)).time_)
        <5>1. CASE Parent(j) # i
          BY <2>9, <4>1, <5>1
        <5>2. CASE Parent(j) = i
          <6>1. ~(At(r, j).time_ < At(r, Parent(i)).time_)
            BY <2>9, <3>1, <4>1, <5>2
          <6>2. /\ At(r, j).time_ \in Nat /\ At(r, i).time_ \in Nat
                /\ At(r, Parent(i)).time_ \in Nat
            BY <2>6, <2>8, <3>1, <4>1, IndexedIs
          <6> QED
            BY <3>1, <5>2, <6>1, <6>2 DEF Before
        <5> QED
          BY <5>1, <5>2
      <4>2. OrderedButUp(r, i)
        BY <2>9, <4>1 DEF OrderedButUp, Before
      <4> QED
        BY <2>6, <2>8, <2>10, <3>1, <4>2, UpHeapIs DEF Repair
    <3>2. CASE ~(i > 0 /\ Before(r, i, Parent(i)))
      <4>1. OrderedButDown(r, i)
        BY <2>9, <3>2 DEF OrderedButDown, Before
      <4> QED
        BY <2>6, <2>8, <2>10, <3>2, <4>1, DownHeapIs DEF Repair
    <3> QED
      BY <3>1, <3>2
  <2> QED
    BY <1>1, <1>3, <2>6, <2>7, <2>10, <2>11 DEF Heaps
<1> QED
  BY <1>5, <1>6, <1>7

\* The timers that are not yet due.
Left(q, time) == {t \in q.timers_ : DueOf(q)[t] = Never \/ time < DueOf(q)[t]}

\* The states of get_ready_timers' loop.
ReadyStates(T, q, time) ==
    {s \in Heaps(T) : /\ s.timers_ \subseteq q.timers_ /\ Left(q, time) \subseteq s.timers_
                      /\ DueOf(s) = [t \in s.timers_ |-> DueOf(q)[t]]}

\* A turn takes a due timer out, or there is none.
LEMMA ReadyStepIs ==
    ASSUME NEW T, NEW q \in Heaps(T), NEW time \in Nat, NEW s \in ReadyStates(T, q, time)
    PROVE  /\ ReadyStep(s, time) \in ReadyStates(T, q, time)
           /\ ReadyStep(s, time) = s \/ Size(ReadyStep(s, time)) < Size(s)
           /\ ReadyStep(s, time) = s => s.timers_ = Left(q, time)
<1>1. /\ s \in Heaps(T) /\ s \in Indexed(T)
      /\ s.timers_ \subseteq q.timers_ /\ Left(q, time) \subseteq s.timers_
      /\ DueOf(s) = [t \in s.timers_ |-> DueOf(q)[t]]
  BY DEF ReadyStates, Heaps
<1>2. Size(s) \in Nat
  BY <1>1, IndexedIs
<1>3. \A t \in s.timers_ : DueOf(s)[t] = DueOf(q)[t] /\ DueOf(s)[t] \in Nat \cup {Never}
  BY <1>1, FirstDue
<1>4. CASE Size(s) = 0
  <2>1. ReadyStep(s, time) = s
    BY <1>4 DEF ReadyStep
  <2>2. \A t \in s.timers_ : DueOf(s)[t] = Never
    BY <1>1, <1>4, FirstDue
  <2> QED
    BY <1>1, <1>3, <2>1, <2>2 DEF Left
<1>5. CASE Size(s) # 0
  <2>1. PICK t : t = At(s, 0).timer_
    OBVIOUS
  <2>2. PICK d : d = At(s, 0).time_
    OBVIOUS
  <2>3. Size(s) > 0
    BY <1>2, <1>5
  <2>4. /\ t \in s.timers_ /\ d \in Nat /\ DueOf(s)[t] = d
        /\ \A u \in s.timers_ : DueOf(s)[u] # Never => d <= DueOf(s)[u]
    BY <1>1, <2>1, <2>2, <2>3, FirstDue
  <2>5. CASE time < d
    <3>1. ReadyStep(s, time) = s
      BY <2>2, <2>5 DEF ReadyStep
    <3>2. \A u \in s.timers_ : DueOf(q)[u] = Never \/ time < DueOf(q)[u]
      BY <1>3, <2>4, <2>5
    <3> QED
      BY <1>1, <3>1, <3>2 DEF Left
  <2>6. CASE ~(time < d)
    <3>1. PICK r : r = RemoveTimer(s, t)
      OBVIOUS
    <3>2. ReadyStep(s, time) = r
      BY <1>5, <2>1, <2>2, <2>6, <3>1 DEF ReadyStep
    <3>3. s.heap_index_[t] # Never
      BY <1>1, <2>4, FirstDue
    <3>4. /\ r \in Heaps(T) /\ Size(r) < Size(s)
          /\ DueOf(r) = [u \in s.timers_ \ {t} |-> DueOf(s)[u]]
      <4>1. /\ RemoveTimer(s, t) \in Heaps(T)
            /\ DueOf(RemoveTimer(s, t)) = [u \in s.timers_ \ {t} |-> DueOf(s)[u]]
            /\ s.heap_index_[t] # Never => Size(RemoveTimer(s, t)) < Size(s)
        BY <1>1, <2>4, RemoveIs
      <4> QED
        BY <3>1, <3>3, <4>1
    <3>5. r.timers_ = s.timers_ \ {t}
      <4>1. r.timers_ = DOMAIN DueOf(r)
        BY DEF DueOf
      <4> QED
        BY <3>4, <4>1
    <3>6. t \notin Left(q, time)
      BY <1>3, <2>4, <2>6 DEF Left
    <3>7. DueOf(r) = [u \in r.timers_ |-> DueOf(q)[u]]
      BY <1>3, <3>4, <3>5
    <3>8. r \in ReadyStates(T, q, time)
      BY <1>1, <3>4, <3>5, <3>6, <3>7 DEF ReadyStates
    <3>9. r # s
      BY <1>2, <3>4
    <3> QED
      BY <3>2, <3>4, <3>8, <3>9
  <2> QED
    BY <2>5, <2>6
<1> QED
  BY <1>4, <1>5

\* get_ready_timers takes out the timers that are due and no other.
Readied(T, q, time, r) ==
    /\ r \in Heaps(T) /\ r.timers_ = Left(q, time)
    /\ DueOf(r) = [t \in Left(q, time) |-> DueOf(q)[t]]

\* By the loop: a turn that takes nothing out finds nothing due.
LEMMA AfterReadyIs ==
    ASSUME NEW T, NEW q \in Heaps(T), NEW time \in Nat
    PROVE  Readied(T, q, time, AfterReady(q, time))
<1>1. PICK S : S = ReadyStates(T, q, time)
  OBVIOUS
<1>2. PICK N \in Nat : N = Size(q)
  BY IndexedIs DEF Heaps
<1>3. q \in S
  BY <1>1 DEF ReadyStates, DueOf, Left
<1>4. PICK step : step = [s \in S |-> ReadyStep(s, time)]
  OBVIOUS
<1>5. /\ step \in [S -> S]
      /\ \A s \in S : step[s] = ReadyStep(s, time)
  BY <1>1, <1>4, ReadyStepIs
<1>6. PICK f : Run(S, step, q, N, f)
  <2>1. step \in [S -> S]
    BY <1>5
  <2> QED
    BY <1>3, <2>1, LoopRuns, Zenon
<1> DEFINE After(g) == g = [n \in 0..N |-> IF n = 0 THEN q ELSE ReadyStep(g[n - 1], time)]
<1>7. After(f)
  <2>1. ASSUME NEW n \in 0..N
        PROVE  f[n] = IF n = 0 THEN q ELSE ReadyStep(f[n - 1], time)
    <3>1. CASE n = 0
      BY <3>1, <1>6 DEF Run
    <3>2. CASE n # 0
      <4>1. n \in 1..N /\ n - 1 \in 0..N
        BY <3>2
      <4> QED
        BY <3>2, <4>1, <1>5, <1>6 DEF Run
    <3> QED
      BY <3>1, <3>2
  <2> QED
    BY <1>6, <2>1 DEF Run
<1>8. PICK g : g = CHOOSE h : After(h)
  OBVIOUS
<1>9. After(g)
  BY <1>7, <1>8, Zenon
<1>10. AfterReady(q, time) = g[N]
  BY <1>2, <1>8 DEF AfterReady
<1>11. g[0] = q /\ \A n \in 1..N : g[n] = ReadyStep(g[n - 1], time)
  BY <1>9
<1>12. PICK m : m = [s \in S |-> Size(s)]
  OBVIOUS
<1>13. m \in [S -> Nat] /\ \A s \in S : m[s] = Size(s)
  <2>1. \A s \in S : Size(s) \in Nat
    BY <1>1, IndexedIs DEF ReadyStates, Heaps
  <2> QED
    BY <1>12, <2>1
<1>14. \A s \in S : step[s] = s \/ m[step[s]] < m[s]
  <2>1. TAKE s \in S
  <2>2. step[s] \in S
    BY <1>5
  <2> QED
    BY <2>2, <1>1, <1>5, <1>13, ReadyStepIs
<1>15. Ended(S, step, g[N])
  <2>1. \A n \in 1..N : g[n - 1] \in S => g[n] = step[g[n - 1]]
    BY <1>5, <1>11
  <2>2. g[0] \in S /\ m[g[0]] <= N
    BY <1>2, <1>3, <1>11, <1>13
  <2>3. step \in [S -> S]
    BY <1>5
  <2>4. m \in [S -> Nat]
    BY <1>13
  <2> HIDE DEF After
  <2> QED
    BY <1>14, <2>1, <2>2, <2>3, <2>4, LoopEnds, Zenon
<1>16. PICK s \in S : s = g[N] /\ step[s] = s
  BY <1>15 DEF Ended
<1>17. s.timers_ = Left(q, time)
  BY <1>1, <1>5, <1>16, ReadyStepIs
<1>18. s \in Heaps(T) /\ DueOf(s) = [t \in s.timers_ |-> DueOf(q)[t]]
  BY <1>1 DEF ReadyStates
<1> QED
  BY <1>10, <1>16, <1>17, <1>18 DEF Readied

-----------------------------------------------------------------------------
(* TimerQueue: one queue under any sequence of calls.                      *)

\* get_all_timers leaves a queue of the program.
LEMMA EmptyIs == ASSUME NEW T PROVE EmptyQueue \in Heaps(T) /\ EmptyQueue.timers_ = {}
                                    /\ Size(EmptyQueue) = 0
<1>1. <<>> \in Seq(Entries(T)) /\ Len(<<>>) = 0
  OBVIOUS
<1>2. <<>> \in [{} -> Nat \cup {Never}]
  OBVIOUS
<1>3. PICK e : e = EmptyQueue
  OBVIOUS
<1>4. e.heap_ = <<>> /\ e.heap_index_ = <<>> /\ e.timers_ = {} /\ Size(e) = 0
  BY <1>1, <1>3 DEF EmptyQueue, Queue, Size
<1>5. Places(e) = {}
  BY <1>4 DEF Places
<1>6. Exact(e)
  BY <1>2, <1>4, <1>5 DEF Exact
<1>7. Queue(<<>>, <<>>, {}) \in Indexed(T)
  BY <1>1, <1>2, <1>3, <1>6, IsIndexed DEF EmptyQueue
<1>8. Ordered(e)
  BY <1>5 DEF Ordered
<1> QED
  BY <1>3, <1>4, <1>7, <1>8 DEF Heaps, EmptyQueue

HeapInv == heap \in Heaps(Timers)

\* Every call leaves a queue of the program.
LEMMA QueueStep == ASSUME QueueAssumption, HeapInv, [QueueNext]_queueVars PROVE HeapInv'
<1>1. CASE UNCHANGED queueVars
  BY <1>1 DEF HeapInv, queueVars
<1>2. ASSUME NEW t \in Timers, NEW time \in DueTimes \cup {Never}, Enqueue(t, time)
      PROVE  HeapInv'
  <2>1. CASE t \in heap.timers_
    BY <1>2, <2>1 DEF Enqueue, EnqueueTimer, HeapInv
  <2>2. CASE t \notin heap.timers_
    <3>1. time \in Nat \cup {Never}
      BY QueueAssumption DEF QueueAssumption
    <3>2. EnqueueTimer(heap, time, t) \in Heaps(Timers)
      BY <2>2, <3>1, EnqueueIs DEF HeapInv, Enqueued
    <3> QED
      BY <1>2, <3>2 DEF Enqueue, HeapInv
  <2> QED
    BY <2>1, <2>2
<1>3. ASSUME NEW t \in Timers, Withdraw(t) PROVE HeapInv'
  BY <1>3, RemoveIs DEF Withdraw, HeapInv
<1>4. ASSUME NEW time \in DueTimes, GetReady(time) PROVE HeapInv'
  <2>1. time \in Nat
    BY QueueAssumption DEF QueueAssumption
  <2> QED
    BY <1>4, <2>1, AfterReadyIs DEF GetReady, HeapInv, Readied
<1>5. CASE GetAll
  BY <1>5, EmptyIs DEF GetAll, HeapInv
<1> QED
  BY <1>1, <1>2, <1>3, <1>4, <1>5 DEF QueueNext

\* The queue is one of the program's, in every state.
LEMMA QueueInv == QueueAssumption => (QueueSpec => []HeapInv)
<1> SUFFICES ASSUME QueueAssumption PROVE QueueSpec => []HeapInv
  OBVIOUS
<1>1. QueueInit => HeapInv
  BY EmptyIs DEF QueueInit, HeapInv
<1>2. HeapInv /\ [QueueNext]_queueVars => HeapInv'
  BY QueueStep
<1> QED
  BY <1>1, <1>2, PTL DEF QueueSpec

\* Whatever is called in whatever order, the vector of timer_queue is a heap and
\* heap_index_ is the place of each timer in it.
THEOREM HeapIsSound == QueueSpec => []HeapSound
<1>1. HeapInv => HeapSound
  BY IndexedIs DEF HeapInv, HeapSound, HeapOrdered, IndicesExact, Heaps, Ordered, Exact,
                   Positions, Places
<1> QED
  BY <1>1, QueueAssumption, QueueInv, PTL

\* What TimerBag knows of a queue.
DueMap(q) == [t \in Timers |-> IF t \in q.timers_ THEN DueOf(q)[t] ELSE NotQueued]

EntryTime(q, t) ==
    LET E == {e \in ToSet(q.heap_) : e.timer_ = t}
    IN  IF E = {} THEN Never ELSE (CHOOSE e \in E : TRUE).time_

\* The entry that DueTime chooses is the only one of its timer.
LEMMA EntryTimeIs ==
    ASSUME NEW q \in Heaps(Timers), NEW t \in q.timers_
    PROVE  EntryTime(q, t) = DueOf(q)[t]
<1> DEFINE E == {e \in ToSet(q.heap_) : e.timer_ = t}
<1>1. /\ q.heap_ \in Seq(Entries(Timers)) /\ Size(q) \in Nat /\ Exact(q)
      /\ q.heap_index_ \in [q.timers_ -> Nat \cup {Never}]
  BY IndexedIs DEF Heaps
<1>2. ToSet(q.heap_) = {At(q, j) : j \in Places(q)}
  <2>1. \A k \in DOMAIN q.heap_ : k - 1 \in Places(q) /\ q.heap_[k] = At(q, k - 1)
    BY <1>1 DEF Places, Size, At
  <2>2. \A j \in Places(q) : j + 1 \in DOMAIN q.heap_ /\ q.heap_[j + 1] = At(q, j)
    BY <1>1 DEF Places, Size, At
  <2> QED
    BY <2>1, <2>2 DEF ToSet
<1>3. \A j \in Places(q) : At(q, j).timer_ = t <=> j = q.heap_index_[t]
  BY <1>1 DEF Exact, Places
<1>4. CASE q.heap_index_[t] = Never
  <2>1. \A j \in Places(q) : j # Never
    BY <1>1 DEF Places
  <2>2. E = {}
    BY <1>2, <1>3, <1>4, <2>1
  <2> QED
    BY <1>4, <2>2 DEF EntryTime, DueOf, DueAt
<1>5. CASE q.heap_index_[t] # Never
  <2>1. q.heap_index_[t] \in Places(q)
    BY <1>1, <1>5 DEF Exact
  <2>2. E = {At(q, q.heap_index_[t])}
    BY <1>2, <1>3, <2>1
  <2>3. (CHOOSE e \in E : TRUE) = At(q, q.heap_index_[t])
    BY <2>2
  <2> QED
    BY <1>5, <2>2, <2>3 DEF EntryTime, DueOf, DueAt
<1> QED
  BY <1>4, <1>5

\* So what TimerBag sees of a queue is what the queue means.
LEMMA DueTimesAre ==
    /\ HeapInv => [t \in Timers |-> DueTime(t)] = DueMap(heap)
    /\ HeapInv' => [t \in Timers |-> DueTime(t)]' = DueMap(heap')
<1>1. \A q \in Heaps(Timers) : \A t \in Timers :
         (IF t \notin q.timers_ THEN NotQueued ELSE EntryTime(q, t)) = DueMap(q)[t]
  BY EntryTimeIs DEF DueMap
<1>2. ASSUME NEW t
      PROVE  DueTime(t) = IF t \notin heap.timers_ THEN NotQueued ELSE EntryTime(heap, t)
  BY Zenon DEF DueTime, EntryTime
<1>3. ASSUME NEW t
      PROVE DueTime(t)' = IF t \notin heap'.timers_ THEN NotQueued ELSE EntryTime(heap', t)
  BY Zenon DEF DueTime, EntryTime
<1>4. \A q : DueMap(q) = [t \in Timers |-> DueMap(q)[t]]
  BY DEF DueMap
<1>5. HeapInv => \A t \in Timers : DueTime(t) = DueMap(heap)[t]
  BY <1>1, <1>2, Zenon DEF HeapInv
<1>6. HeapInv' => \A t \in Timers : DueTime(t)' = DueMap(heap')[t]
  BY <1>1, <1>3, Zenon DEF HeapInv
<1> QED
  BY <1>4, <1>5, <1>6

\* A call of a queue is an operation of TimerBag, or nothing to it.
LEMMA BagStep ==
    ASSUME QueueAssumption, HeapInv, HeapInv', [QueueNext]_queueVars
    PROVE  [Bag!Next]_<<[t \in Timers |-> DueTime(t)], earliest>>
<1>1. PICK d : d = DueMap(heap) /\ d = [t \in Timers |-> DueTime(t)]
  BY DueTimesAre
<1>2. PICK e : e = DueMap(heap') /\ e = [t \in Timers |-> DueTime(t)]'
  BY DueTimesAre
<1>3. /\ heap.timers_ \subseteq Timers /\ DOMAIN DueOf(heap) = heap.timers_
      /\ \A t \in heap.timers_ : DueOf(heap)[t] \in Nat \cup {Never}
  BY FirstDue, IndexedIs DEF HeapInv, Heaps
<1>4. \A t \in Timers : d[t] = IF t \in heap.timers_ THEN DueOf(heap)[t] ELSE NotQueued
  BY <1>1 DEF DueMap
<1>5. heap.timers_ = {t \in Timers : d[t] # NotQueued}
  BY <1>3, <1>4, QueueAssumption DEF QueueAssumption
<1>6. Bag!Queued = heap.timers_
  BY <1>1, <1>5, Zenon DEF Bag!Queued
<1>7. \A D \in SUBSET heap.timers_ :
         DueOf(heap') = [u \in heap.timers_ \ D |-> DueOf(heap)[u]]
         => e = [t \in Timers |-> IF t \in D THEN NotQueued ELSE d[t]]
  <2>1. TAKE D \in SUBSET heap.timers_
  <2>2. HAVE DueOf(heap') = [u \in heap.timers_ \ D |-> DueOf(heap)[u]]
  <2>3. heap'.timers_ = heap.timers_ \ D
    <3>1. heap'.timers_ = DOMAIN DueOf(heap')
      BY DEF DueOf
    <3> QED
      BY <2>2, <3>1
  <2> QED
    BY <1>2, <1>4, <2>2, <2>3 DEF DueMap
<1>8. CASE UNCHANGED queueVars
  <2>1. heap' = heap /\ earliest' = earliest
    BY <1>8 DEF queueVars
  <2>2. e = d
    BY <1>1, <1>2, <2>1
  <2> QED
    BY <1>1, <1>2, <2>1, <2>2
<1>9. ASSUME NEW t \in Timers, NEW time \in DueTimes \cup {Never}, Enqueue(t, time)
      PROVE  Bag!Next
  <2>1. heap' = EnqueueTimer(heap, time, t) /\ earliest' = Earliest(heap', t)
    BY <1>9 DEF Enqueue
  <2>2. CASE t \in heap.timers_
    <3>1. heap' = heap /\ earliest' = FALSE
      BY <2>1, <2>2 DEF EnqueueTimer, Earliest
    <3>2. e = d
      BY <1>1, <1>2, <3>1
    <3>3. Bag!Again(t)
      BY <1>1, <1>2, <1>6, <2>2, <3>1, <3>2 DEF Bag!Again
    <3> QED
      BY <3>3 DEF Bag!Next
  <2>3. CASE t \notin heap.timers_
    <3>1. time \in Nat \cup {Never}
      BY QueueAssumption DEF QueueAssumption
    <3>2. /\ DueOf(heap') = [u \in heap.timers_ \cup {t} |->
                                IF u = t THEN time ELSE DueOf(heap)[u]]
          /\ heap'.heap_index_[t] = 0 <=>
                /\ time # Never
                /\ \A u \in heap.timers_ : DueOf(heap)[u] = Never \/ time < DueOf(heap)[u]
      <4>1. Enqueued(Timers, heap, t, time, heap')
        BY <2>1, <2>3, <3>1, EnqueueIs DEF HeapInv
      <4> QED
        BY <4>1, Zenon DEF Enqueued
    <3>3. heap'.timers_ = heap.timers_ \cup {t}
      <4>1. heap'.timers_ = DOMAIN DueOf(heap')
        BY DEF DueOf
      <4> QED
        BY <3>2, <4>1
    <3>4. e = [d EXCEPT ![t] = time]
      <4>1. e = [u \in Timers |-> IF u = t THEN time ELSE d[u]]
        BY <1>2, <1>4, <3>2, <3>3 DEF DueMap
      <4>2. d = [u \in Timers |-> d[u]]
        BY <1>1 DEF DueMap
      <4> QED
        BY <4>1, <4>2
    <3>5. earliest' = (/\ time # Never
                       /\ \A u \in heap.timers_ : d[u] = Never \/ time < d[u])
      <4>1. \A u \in heap.timers_ : d[u] = DueOf(heap)[u]
        BY <1>3, <1>4
      <4>2. earliest' = (t \notin heap.timers_ /\ heap'.heap_index_[t] = 0)
        BY <2>1 DEF Earliest
      <4>3. (\A u \in heap.timers_ : DueOf(heap)[u] = Never \/ time < DueOf(heap)[u])
            <=> (\A u \in heap.timers_ : d[u] = Never \/ time < d[u])
        BY <4>1
      <4> QED
        BY <2>3, <3>2, <4>2, <4>3, Zenon
    <3>6. Bag!Add(t, time)
      BY <1>1, <1>2, <1>6, <2>3, <3>4, <3>5, Zenon DEF Bag!Add
    <3> QED
      BY <3>6 DEF Bag!Next
  <2> QED
    BY <2>2, <2>3
<1>10. ASSUME NEW t \in Timers, Withdraw(t) PROVE Bag!Next
  <2>1. t \in heap.timers_ /\ heap' = RemoveTimer(heap, t) /\ earliest' = earliest
    BY <1>10 DEF Withdraw
  <2>2. PICK D : D = {t} /\ D \in SUBSET heap.timers_
    BY <2>1
  <2>3. DueOf(heap') = [u \in heap.timers_ \ D |-> DueOf(heap)[u]]
    BY <2>1, <2>2, RemoveIs DEF HeapInv
  <2>4. e = [u \in Timers |-> IF u \in D THEN NotQueued ELSE d[u]]
    BY <1>7, <2>2, <2>3
  <2>5. Bag!Drop(t)
    BY <1>1, <1>2, <1>6, <2>1, <2>2, <2>4, Zenon DEF Bag!Drop, Bag!Remove
  <2> QED
    BY <2>5 DEF Bag!Next
<1>11. ASSUME NEW time \in DueTimes, GetReady(time) PROVE Bag!Next
  <2>1. heap' = AfterReady(heap, time) /\ earliest' = earliest /\ time \in Nat
    BY <1>11, QueueAssumption DEF GetReady, QueueAssumption
  <2>2. PICK D : D = {u \in heap.timers_ : d[u] # Never /\ d[u] <= time}
    OBVIOUS
  <2>3. Left(heap, time) = heap.timers_ \ D
    <3>1. \A u \in heap.timers_ : d[u] = DueOf(heap)[u] /\ d[u] \in Nat \cup {Never}
      BY <1>3, <1>4
    <3> QED
      BY <2>1, <2>2, <3>1 DEF Left
  <2>4. DueOf(heap') = [u \in heap.timers_ \ D |-> DueOf(heap)[u]]
    BY <2>1, <2>3, AfterReadyIs DEF HeapInv, Readied
  <2>5. e = [u \in Timers |-> IF u \in D THEN NotQueued ELSE d[u]]
    BY <1>7, <2>2, <2>4
  <2>6. Bag!Expire(time)
    BY <1>1, <1>2, <1>6, <2>1, <2>2, <2>5, Zenon DEF Bag!Expire, Bag!Remove
  <2> QED
    BY <2>6 DEF Bag!Next
<1>12. CASE GetAll
  <2>1. heap' = EmptyQueue /\ earliest' = earliest
    BY <1>12 DEF GetAll
  <2>2. heap'.timers_ = {}
    BY <2>1, EmptyIs
  <2>3. e = [u \in Timers |-> IF u \in Timers THEN NotQueued ELSE d[u]]
    BY <1>2, <2>2 DEF DueMap
  <2>4. Bag!Clear
    BY <1>1, <1>2, <2>1, <2>3, Zenon DEF Bag!Clear, Bag!Remove
  <2> QED
    BY <2>4 DEF Bag!Next
<1> QED
  BY <1>8, <1>9, <1>10, <1>11, <1>12 DEF QueueNext

\* timer_queue implements TimerBag, a table of due times: enqueue_timer adds one
\* timer and says if it is the first, remove_timer takes one out,
\* get_ready_timers takes out those that are due, and no other changes.
THEOREM QueueImplementsBag == QueueSpec => QueueIsBag
<1>1. QueueInit => Bag!Init
  <2>1. SUFFICES ASSUME QueueInit PROVE Bag!Init
    OBVIOUS
  <2>2. HeapInv /\ heap.timers_ = {}
    BY <2>1, EmptyIs DEF QueueInit, HeapInv
  <2>3. [t \in Timers |-> DueTime(t)] = [t \in Timers |-> NotQueued]
    BY <2>2, DueTimesAre DEF DueMap
  <2> QED
    BY <2>1, <2>3, Zenon DEF QueueInit, Bag!Init
<1>2. HeapInv /\ HeapInv' /\ [QueueNext]_queueVars
      => [Bag!Next]_<<[t \in Timers |-> DueTime(t)], earliest>>
  BY QueueAssumption, BagStep
<1>3. QueueSpec => []HeapInv
  BY QueueAssumption, QueueInv
<1> QED
  BY <1>1, <1>2, <1>3, PTL DEF QueueSpec, QueueIsBag, Bag!Spec

-----------------------------------------------------------------------------
(* ReactorTimers: the operations that wait for a timer.                    *)

\* The least of some numbers.
LEMMA MinIs ==
    ASSUME NEW S \in SUBSET Nat, S # {}
    PROVE  Min(S) \in S /\ \A y \in S : Min(S) <= y
<1>1. PICK x \in S : \A y \in S : x <= y
  BY LeastOf
<1> QED
  BY <1>1 DEF Min

\* No operation is queued twice.
Once(qs) == \A t, u \in Timers : \A i \in DOMAIN qs[t], j \in DOMAIN qs[u] :
               qs[t][i] = qs[u][j] => t = u /\ i = j

\* qs without the first n operations of t, or without those of some timers.
Cut(qs, t, n) == [qs EXCEPT ![t] = SubSeq(@, n + 1, Len(@))]
Cleared(qs, F) == [t \in Timers |-> IF t \in F THEN <<>> ELSE qs[t]]

\* What cancel_timer leaves of the operations when it aborts the n oldest of t.
CutFacts(qs, t, n) ==
    /\ Cut(qs, t, n) \in [Timers -> Seq(Ops)] /\ Once(Cut(qs, t, n))
    /\ \A u \in Timers \ {t} : Cut(qs, t, n)[u] = qs[u]
    /\ n = Len(qs[t]) => Cut(qs, t, n)[t] = <<>>
    /\ \A u \in Timers : ToSet(Cut(qs, t, n)[u]) \subseteq ToSet(qs[u])
    /\ \A u \in Timers : \A o \in ToSet(Cut(qs, t, n)[u]) :
          o \notin ToSet(SubSeq(qs[t], 1, n))

\* An operation is queued once, so what is cut off is not left.
LEMMA CutIs ==
    ASSUME NEW qs \in [Timers -> Seq(Ops)], Once(qs), NEW t \in Timers,
           NEW n \in Nat, n <= Len(qs[t])
    PROVE  CutFacts(qs, t, n)
<1>1. PICK s \in Seq(Ops) : s = qs[t]
  OBVIOUS
<1>2. PICK r : r = SubSeq(s, n + 1, Len(s))
  OBVIOUS
<1>3. PICK a : a = SubSeq(s, 1, n)
  OBVIOUS
<1>4. Len(s) \in Nat /\ n <= Len(s)
  BY <1>1
<1>5. r \in Seq(Ops) /\ Len(r) = Len(s) - n /\ \A i \in 1..Len(r) : r[i] = s[n + i]
  BY <1>2, <1>4
<1>6. a \in Seq(Ops) /\ Len(a) = n /\ \A i \in 1..n : a[i] = s[i]
  BY <1>3, <1>4
<1>7. PICK rs : rs = Cut(qs, t, n)
  OBVIOUS
<1>8. rs \in [Timers -> Seq(Ops)] /\ rs[t] = r /\ \A u \in Timers \ {t} : rs[u] = qs[u]
  BY <1>1, <1>2, <1>5, <1>7 DEF Cut
<1>9. \A i \in DOMAIN r : n + i \in DOMAIN s /\ r[i] = s[n + i] /\ i \in Nat \ {0}
  BY <1>4, <1>5
<1>10. \A i \in DOMAIN a : i \in DOMAIN s /\ a[i] = s[i] /\ i <= n /\ i \in Nat
  BY <1>4, <1>6
<1>11. Once(rs)
  <2>1. ASSUME NEW u \in Timers, NEW v \in Timers, NEW i \in DOMAIN rs[u],
               NEW j \in DOMAIN rs[v], rs[u][i] = rs[v][j]
        PROVE  u = v /\ i = j
    <3>1. CASE u = t /\ v = t
      <4>1. n + i \in DOMAIN qs[t] /\ n + j \in DOMAIN qs[t] /\ qs[t][n + i] = qs[t][n + j]
            /\ i \in Nat /\ j \in Nat
        BY <2>1, <3>1, <1>1, <1>8, <1>9
      <4>2. n + i = n + j
        BY <4>1, Zenon DEF Once
      <4>3. i = j
        BY <4>1, <4>2
      <4> QED
        BY <3>1, <4>3, Zenon
    <3>2. CASE u = t /\ v # t
      <4>1. n + i \in DOMAIN qs[t] /\ j \in DOMAIN qs[v] /\ qs[t][n + i] = qs[v][j]
        BY <2>1, <3>2, <1>1, <1>8, <1>9
      <4> QED
        BY <3>2, <4>1, Zenon DEF Once
    <3>3. CASE u # t /\ v = t
      <4>1. n + j \in DOMAIN qs[t] /\ i \in DOMAIN qs[u] /\ qs[t][n + j] = qs[u][i]
        BY <2>1, <3>3, <1>1, <1>8, <1>9
      <4> QED
        BY <3>3, <4>1, Zenon DEF Once
    <3>4. CASE u # t /\ v # t
      <4>1. i \in DOMAIN qs[u] /\ j \in DOMAIN qs[v] /\ qs[u][i] = qs[v][j]
        BY <2>1, <3>4, <1>8
      <4> QED
        BY <4>1 DEF Once
    <3> QED
      BY <3>1, <3>2, <3>3, <3>4
  <2> QED
    BY <2>1 DEF Once
<1>12. \A u \in Timers : ToSet(rs[u]) \subseteq ToSet(qs[u])
  <2>1. ToSet(r) \subseteq ToSet(s)
    BY <1>9 DEF ToSet
  <2>2. \A u \in Timers : u = t \/ u \in Timers \ {t}
    OBVIOUS
  <2> QED
    BY <1>1, <1>8, <2>1, <2>2, Zenon
<1>13. ASSUME NEW u \in Timers, NEW o \in ToSet(rs[u]), o \in ToSet(a) PROVE FALSE
  <2>1. PICK i \in DOMAIN rs[u] : o = rs[u][i]
    BY <1>13 DEF ToSet
  <2>2. PICK j \in DOMAIN a : o = a[j]
    BY <1>13 DEF ToSet
  <2>3. j \in DOMAIN qs[t] /\ qs[t][j] = o /\ j <= n /\ j \in Nat
    BY <2>2, <1>1, <1>10
  <2>4. CASE u = t
    <3>1. n + i \in DOMAIN qs[t] /\ qs[t][n + i] = o /\ i \in Nat \ {0}
      BY <2>1, <2>4, <1>1, <1>8, <1>9
    <3>2. PICK m \in DOMAIN qs[t] : m = n + i /\ qs[t][m] = o
      BY <3>1
    <3>3. m = j
      <4>1. m \in DOMAIN qs[t] /\ j \in DOMAIN qs[t] /\ qs[t][m] = qs[t][j]
        BY <2>3, <3>2, Zenon
      <4> QED
        BY <4>1 DEF Once
    <3> QED
      BY <2>3, <3>1, <3>2, <3>3
  <2>5. CASE u # t
    <3>1. i \in DOMAIN qs[u] /\ qs[u][i] = o
      BY <2>1, <2>5, <1>8
    <3> QED
      BY <2>3, <2>5, <3>1, Zenon DEF Once
  <2> QED
    BY <2>4, <2>5
<1>14. n = Len(s) => r = <<>>
  BY <1>4, <1>5
<1> QED
  BY <1>1, <1>3, <1>7, <1>8, <1>11, <1>12, <1>13, <1>14 DEF CutFacts

\* What get_ready_timers leaves of them.
LEMMA ClearedIs ==
    ASSUME NEW qs \in [Timers -> Seq(Ops)], Once(qs), NEW F
    PROVE  /\ Cleared(qs, F) \in [Timers -> Seq(Ops)] /\ Once(Cleared(qs, F))
           /\ \A t \in Timers : \A o \in ToSet(Cleared(qs, F)[t]) :
                 t \notin F /\ o \in ToSet(qs[t])
<1>1. /\ Cleared(qs, F) \in [Timers -> Seq(Ops)]
      /\ \A t \in Timers : Cleared(qs, F)[t] = IF t \in F THEN <<>> ELSE qs[t]
  BY DEF Cleared
<1>2. \A t \in Timers \cap F : DOMAIN Cleared(qs, F)[t] = {} /\ ToSet(Cleared(qs, F)[t]) = {}
  BY <1>1 DEF ToSet
<1>3. Once(Cleared(qs, F))
  BY <1>1, <1>2 DEF Once
<1> QED
  BY <1>1, <1>2, <1>3

\* What async_wait makes of them.
Added(qs, t, o, rs) ==
    /\ rs \in [Timers -> Seq(Ops)] /\ Once(rs) /\ rs[t] # <<>>
    /\ \A u \in Timers \ {t} : rs[u] = qs[u]
    /\ \A u \in Timers : \A p \in ToSet(rs[u]) : p = o \/ p \in ToSet(qs[u])

\* The operation is in no queue before.
LEMMA AddedIs ==
    ASSUME NEW qs \in [Timers -> Seq(Ops)], Once(qs), NEW t \in Timers, NEW o \in Ops,
           \A u \in Timers : o \notin ToSet(qs[u]),
           NEW rs, rs = [qs EXCEPT ![t] = Append(@, o)]
    PROVE  Added(qs, t, o, rs)
<1>1. PICK s \in Seq(Ops) : s = qs[t]
  OBVIOUS
<1>2. PICK r : r = Append(s, o)
  OBVIOUS
<1>3. /\ r \in Seq(Ops) /\ Len(r) = Len(s) + 1 /\ r # <<>> /\ r[Len(s) + 1] = o
      /\ \A i \in 1..Len(s) : r[i] = s[i]
  BY <1>2
<1>4. rs \in [Timers -> Seq(Ops)] /\ rs[t] = r /\ \A u \in Timers \ {t} : rs[u] = qs[u]
  BY <1>1, <1>2, <1>3
<1>5. \A i \in DOMAIN r : i = Len(s) + 1 \/ (i \in DOMAIN s /\ r[i] = s[i])
  <2>1. DOMAIN r = 1..Len(s) + 1 /\ DOMAIN s = 1..Len(s) /\ Len(s) \in Nat
    BY <1>3
  <2> QED
    BY <1>3, <2>1
<1>6. \A u \in Timers : \A i \in DOMAIN rs[u] :
         \/ u = t /\ i = Len(s) + 1 /\ rs[u][i] = o
         \/ i \in DOMAIN qs[u] /\ rs[u][i] = qs[u][i]
  BY <1>1, <1>3, <1>4, <1>5
<1>7. \A u \in Timers : \A i \in DOMAIN qs[u] : qs[u][i] # o
  BY DEF ToSet
<1>8. Once(rs)
  <2>1. ASSUME NEW u \in Timers, NEW v \in Timers, NEW i \in DOMAIN rs[u],
               NEW j \in DOMAIN rs[v], rs[u][i] = rs[v][j]
        PROVE  u = v /\ i = j
    BY <2>1, <1>6, <1>7 DEF Once
  <2> QED
    BY <2>1 DEF Once
<1>9. \A u \in Timers : \A p \in ToSet(rs[u]) : p = o \/ p \in ToSet(qs[u])
  BY <1>6 DEF ToSet
<1> QED
  BY <1>3, <1>4, <1>8, <1>9 DEF Added

-----------------------------------------------------------------------------
(* How long the reactor sleeps.                                            *)

\* wait_duration: no more than the greatest, none only if a timer is due, and
\* from one tick to the next shorter by a tick at the most.
LEMMA WaitDurationIs ==
    ASSUME NEW T, NEW q \in Heaps(T), NEW at \in Nat, NEW max \in Nat
    PROVE  /\ WaitDuration(q, at, max) \in Nat /\ WaitDuration(q, at, max) <= max
           /\ Size(q) = 0 => WaitDuration(q, at, max) = max
           /\ WaitDuration(q, at, max) = 0 => max = 0 \/ (Size(q) > 0 /\ At(q, 0).time_ <= at)
           /\ WaitDuration(q, at, max) <= WaitDuration(q, at + 1, max) + 1
<1>1. Size(q) \in Nat
  BY IndexedIs DEF Heaps
<1>2. CASE Size(q) = 0
  BY <1>2 DEF WaitDuration
<1>3. CASE Size(q) > 0
  <2>1. PICK d \in Nat : d = At(q, 0).time_
    BY <1>3, FirstDue
  <2>2. \A x \in Nat : WaitDuration(q, x, max) = IF d <= x THEN 0
                           ELSE IF d - x > max THEN max ELSE d - x
    BY <1>1, <1>3, <2>1 DEF WaitDuration
  <2> QED
    BY <1>3, <2>1, <2>2
<1> QED
  BY <1>1, <1>2, <1>3

\* p has no timer that is due before all of q.
NoSooner(p, q) ==
    \A t \in p.timers_ : DueOf(p)[t] # Never =>
        \E u \in q.timers_ : DueOf(q)[u] # Never /\ DueOf(q)[u] <= DueOf(p)[t]

\* Then p has no shorter wait.
LEMMA NoSoonerIs ==
    ASSUME NEW T, NEW p \in Heaps(T), NEW q \in Heaps(T), NoSooner(p, q),
           NEW at \in Nat, NEW max \in Nat
    PROVE  /\ WaitDuration(q, at, max) <= WaitDuration(p, at, max)
           /\ Size(p) > 0 => Size(q) > 0
<1>1. Size(p) \in Nat /\ Size(q) \in Nat
  BY IndexedIs DEF Heaps
<1>2. CASE Size(p) = 0
  BY <1>2, WaitDurationIs
<1>3. CASE Size(p) > 0
  <2>1. PICK d \in Nat : d = At(p, 0).time_
    BY <1>3, FirstDue
  <2>2. PICK t \in p.timers_ : DueOf(p)[t] = d
    BY <1>3, <2>1, FirstDue
  <2>3. PICK u \in q.timers_ : DueOf(q)[u] # Never /\ DueOf(q)[u] <= d
    BY <2>1, <2>2 DEF NoSooner
  <2>4. Size(q) > 0
    BY <1>1, <2>3, FirstDue
  <2>5. PICK e \in Nat : e = At(q, 0).time_
    BY <2>4, FirstDue
  <2>6. e <= d
    <3>1. DueOf(q)[u] \in Nat /\ e <= DueOf(q)[u]
      BY <2>3, <2>4, <2>5, FirstDue
    <3> QED
      BY <2>3, <3>1
  <2>7. /\ WaitDuration(p, at, max) = IF d <= at THEN 0
                           ELSE IF d - at > max THEN max ELSE d - at
        /\ WaitDuration(q, at, max) = IF e <= at THEN 0
                           ELSE IF e - at > max THEN max ELSE e - at
    BY <1>1, <1>3, <2>1, <2>4, <2>5 DEF WaitDuration
  <2> QED
    BY <2>4, <2>6, <2>7
<1> QED
  BY <1>1, <1>2, <1>3

\* What WaitTicks is in any state.
WaitOver(qs, K, at) == Min({WaitDuration(qs[k], at, Horizon) : k \in K} \cup {Horizon})

\* It is the least of the queues' waits, and five minutes at the most.
LEMMA WaitOverIs ==
    ASSUME TimerAssumption, NEW K \in SUBSET Queues, NEW qs \in [Queues -> Heaps(Timers)],
           NEW at \in Nat
    PROVE  /\ WaitOver(qs, K, at) \in Nat /\ WaitOver(qs, K, at) <= Horizon
           /\ \A k \in K : WaitOver(qs, K, at) <= WaitDuration(qs[k], at, Horizon)
           /\ \/ WaitOver(qs, K, at) = Horizon
              \/ \E k \in K : WaitOver(qs, K, at) = WaitDuration(qs[k], at, Horizon)
<1> DEFINE S == {WaitDuration(qs[k], at, Horizon) : k \in K} \cup {Horizon}
<1>1. Horizon \in Nat
  BY TimerAssumption DEF TimerAssumption
<1>2. \A k \in K : WaitDuration(qs[k], at, Horizon) \in Nat
  BY <1>1, WaitDurationIs
<1>3. S \in SUBSET Nat /\ Horizon \in S /\ \A k \in K : WaitDuration(qs[k], at, Horizon) \in S
  BY <1>1, <1>2
<1>4. \A x \in S : x = Horizon \/ \E k \in K : x = WaitDuration(qs[k], at, Horizon)
  OBVIOUS
<1>5. WaitOver(qs, K, at) = Min(S)
  BY DEF WaitOver
<1> HIDE DEF S
<1>6. Min(S) \in S /\ \A x \in S : Min(S) <= x
  BY <1>3, MinIs
<1> QED
  BY <1>3, <1>4, <1>5, <1>6

\* The timeout does not get shorter when no queue has a sooner timer.
LEMMA NoSoonerOver ==
    ASSUME TimerAssumption, NEW K \in SUBSET Queues, NEW L \in SUBSET Queues,
           NEW ps \in [Queues -> Heaps(Timers)], NEW qs \in [Queues -> Heaps(Timers)],
           NEW at \in Nat,
           \A k \in L : Size(ps[k]) = 0 \/ (k \in K /\ NoSooner(ps[k], qs[k]))
    PROVE  /\ WaitOver(qs, K, at) <= WaitOver(ps, L, at)
           /\ (\E k \in L : Size(ps[k]) > 0) => \E k \in K : Size(qs[k]) > 0
<1>1. PICK a \in Nat, b \in Nat : a = WaitOver(qs, K, at) /\ b = WaitOver(ps, L, at)
  BY WaitOverIs
<1>2. Horizon \in Nat
  BY TimerAssumption DEF TimerAssumption
<1>3. a <= Horizon /\ \A k \in K : a <= WaitDuration(qs[k], at, Horizon)
  BY <1>1, WaitOverIs
<1>4. b = Horizon \/ \E k \in L : b = WaitDuration(ps[k], at, Horizon)
  BY <1>1, WaitOverIs
<1>5. ASSUME NEW k \in L PROVE a <= WaitDuration(ps[k], at, Horizon)
  <2>1. WaitDuration(ps[k], at, Horizon) \in Nat
    BY <1>2, WaitDurationIs
  <2>2. CASE Size(ps[k]) = 0
    BY <1>2, <1>3, <2>2, WaitDurationIs
  <2>3. CASE k \in K /\ NoSooner(ps[k], qs[k])
    <3>1. /\ WaitDuration(qs[k], at, Horizon) \in Nat
          /\ a <= WaitDuration(qs[k], at, Horizon)
          /\ WaitDuration(qs[k], at, Horizon) <= WaitDuration(ps[k], at, Horizon)
      BY <1>2, <1>3, <2>3, WaitDurationIs, NoSoonerIs
    <3> QED
      BY <2>1, <3>1
  <2> QED
    BY <2>2, <2>3
<1>6. ASSUME NEW k \in L, Size(ps[k]) > 0 PROVE k \in K /\ Size(qs[k]) > 0
  BY <1>2, <1>6, NoSoonerIs
<1> QED
  BY <1>1, <1>2, <1>3, <1>4, <1>5, <1>6

\* A tick makes it shorter by a tick at the most.
LEMMA TickOver ==
    ASSUME TimerAssumption, NEW K \in SUBSET Queues, NEW qs \in [Queues -> Heaps(Timers)],
           NEW at \in Nat
    PROVE  WaitOver(qs, K, at) <= WaitOver(qs, K, at + 1) + 1
<1>1. PICK a \in Nat, b \in Nat : a = WaitOver(qs, K, at) /\ b = WaitOver(qs, K, at + 1)
  BY WaitOverIs
<1>2. Horizon \in Nat
  BY TimerAssumption DEF TimerAssumption
<1>3. a <= Horizon /\ \A k \in K : a <= WaitDuration(qs[k], at, Horizon)
  BY <1>1, WaitOverIs
<1>4. b = Horizon \/ \E k \in K : b = WaitDuration(qs[k], at + 1, Horizon)
  BY <1>1, WaitOverIs
<1>5. \A k \in K : /\ WaitDuration(qs[k], at, Horizon) \in Nat
                   /\ WaitDuration(qs[k], at + 1, Horizon) \in Nat
                   /\ WaitDuration(qs[k], at, Horizon) <= WaitDuration(qs[k], at + 1, Horizon) + 1
  BY <1>2, WaitDurationIs
<1> QED
  BY <1>1, <1>2, <1>3, <1>4, <1>5

\* Rounding to milliseconds.
LEMMA MsecTimeoutIs ==
    ASSUME TimerAssumption, NEW d \in Nat
    PROVE  MsecTimeout(d) \in Nat /\ MsecTimeout(d) < d + Msec /\ (MsecTimeout(d) = 0 => d = 0)
<1>1. Msec \in Nat /\ Msec > 0
  BY TimerAssumption DEF TimerAssumption
<1>2. CASE d < Msec
  BY <1>1, <1>2 DEF MsecTimeout
<1>3. CASE d >= Msec
  <2>1. (d \div Msec) * Msec \in Nat /\ (d \div Msec) * Msec <= d
    BY <1>1
  <2>2. (d \div Msec) * Msec # 0
    BY <1>1, <1>3
  <2>3. MsecTimeout(d) = (d \div Msec) * Msec
    BY <1>1, <1>3 DEF MsecTimeout
  <2> QED
    BY <1>1, <2>1, <2>2, <2>3
<1> QED
  BY <1>1, <1>2, <1>3

-----------------------------------------------------------------------------
(* The invariant: timers, queues and operations agree.                     *)

\* The queues in the set are heaps, those that are not are empty, and a timer
\* is in the queue of its service, with the time it is set to.
HeapsOk(qs, exp, K) ==
    /\ qs \in [Queues -> Heaps(Timers)]
    /\ \A k \in Queues : /\ k \notin K => qs[k].timers_ = {}
                         /\ \A t \in qs[k].timers_ : Home[t] = k /\ exp[t] # NotSet
                                                     /\ DueOf(qs[k])[t] = exp[t]

\* A timer is in its queue while operations wait for it.
OpsOk(ops, qs, res) ==
    /\ ops \in [Timers -> Seq(Ops)] /\ Once(ops)
    /\ \A t \in Timers : /\ t \in qs[Home[t]].timers_ <=> ops[t] # <<>>
                         /\ \A o \in ToSet(ops[t]) : res[o] = "waiting"

HeapsInv == HeapsOk(queue, expiry, timer_queues_)
OpsInv == OpsOk(op_queue_, queue, result)

\* Without a timerfd epoll_wait never sleeps for ever.
SleepInv == pc = "wait" /\ ~timer_fd_ => timeout # Never

Core == TypeOK /\ FlagCoversWaits /\ HeapsInv /\ OpsInv /\ SleepInv

\* A new io_service.
LEMMA CoreInit == ASSUME TimerAssumption, Init PROVE Core
<1> USE TimerAssumption DEF TimerAssumption
<1>1. \A k \in Queues : /\ queue[k] = EmptyQueue /\ queue[k].timers_ = {}
                        /\ queue[k] \in Heaps(Timers)
  BY EmptyIs DEF Init
<1>2. \A t \in Timers : /\ op_queue_[t] = <<>> /\ DOMAIN op_queue_[t] = {}
                        /\ ToSet(op_queue_[t]) = {}
  BY DEF Init, ToSet
<1>3. op_queue_ \in [Timers -> Seq(Ops)]
  BY DEF Init
<1>4. HeapsInv
  BY <1>1 DEF Init, HeapsInv, HeapsOk
<1>5. OpsInv
  BY <1>1, <1>2, <1>3 DEF OpsInv, OpsOk, Once
<1>6. TypeOK
  <2>1. /\ now \in Times /\ adjusted \in 0..MaxAdjust
        /\ timer_fd_ \in BOOLEAN /\ shutdown_ \in BOOLEAN /\ edge \in BOOLEAN
        /\ pc \in {"out", "wait", "check"} /\ timeout \in Ticks /\ armed \in Ticks
    <3>1. MaxTime \in Nat /\ MaxAdjust \in Nat
      OBVIOUS
    <3>2. now = 0 /\ adjusted = 0
      BY DEF Init
    <3>3. now \in Times /\ adjusted \in 0..MaxAdjust
      BY <3>1, <3>2 DEF Times
    <3>4. /\ timer_fd_ \in BOOLEAN /\ shutdown_ \in BOOLEAN /\ edge \in BOOLEAN
          /\ pc \in {"out", "wait", "check"} /\ timeout \in Ticks /\ armed \in Ticks
      BY Zenon DEF Init, Ticks
    <3> QED
      BY <3>3, <3>4
  <2>2. /\ alive \subseteq Timers /\ timer_queues_ \subseteq Queues
        /\ expiry \in [Timers -> Times \cup {Never, NotSet}]
        /\ might_have_pending_waits \in [Timers -> BOOLEAN]
        /\ result \in [Ops -> {"new", "waiting", "ok", "aborted", "destroyed"}]
    BY DEF Init
  <2>3. \A t \in Timers : \A o \in ToSet(op_queue_[t]) : result[o] = "waiting"
    BY <1>2
  <2> QED
    BY <1>3, <2>1, <2>2, <2>3 DEF TypeOK
<1>7. FlagCoversWaits
  BY <1>1 DEF FlagCoversWaits
<1> QED
  BY <1>4, <1>5, <1>6, <1>7 DEF Core, SleepInv, Init

\* The entry that the index leads to has the time the timer is set to.
LEMMA CoreCovers == Core => WaitsCovered
<1>1. SUFFICES ASSUME Core, NEW t \in Timers, NEW q, q = queue[Home[t]],
                      TimerAssumption
               PROVE  /\ t \in q.timers_ <=> op_queue_[t] # <<>>
                      /\ t \in q.timers_ =>
                            IF expiry[t] = Never THEN q.heap_index_[t] = Never
                            ELSE /\ q.heap_index_[t] # Never
                                 /\ At(q, q.heap_index_[t]) = Entry(expiry[t], t)
  BY TimerAssumption DEF Core, WaitsCovered, QueuedAtExpiry
<1>2. Home[t] \in Queues
  BY <1>1 DEF TimerAssumption
<1>3. q \in Heaps(Timers) /\ q \in Indexed(Timers)
  BY <1>1, <1>2 DEF Core, HeapsInv, HeapsOk, Heaps
<1>4. t \in q.timers_ => DueOf(q)[t] = expiry[t]
  BY <1>1, <1>2 DEF Core, HeapsInv, HeapsOk
<1>5. t \in q.timers_ <=> op_queue_[t] # <<>>
  BY <1>1 DEF Core, OpsInv, OpsOk
<1>6. ASSUME t \in q.timers_, expiry[t] # Never
      PROVE  /\ q.heap_index_[t] # Never
             /\ At(q, q.heap_index_[t]) = Entry(expiry[t], t)
  <2>1. q.heap_index_[t] # Never
    BY <1>3, <1>4, <1>6, FirstDue
  <2>2. PICK i \in Places(q) : i = q.heap_index_[t] /\ At(q, i).timer_ = t
    BY <1>3, <1>6, <2>1, IndexedIs DEF Exact
  <2>3. At(q, i).time_ = expiry[t]
    BY <1>4, <1>6, <2>1, <2>2 DEF DueOf, DueAt
  <2>4. At(q, i) = Entry(At(q, i).time_, At(q, i).timer_)
    BY <1>3, IndexedIs
  <2> QED
    BY <2>1, <2>2, <2>3, <2>4
<1>7. t \in q.timers_ /\ expiry[t] = Never => q.heap_index_[t] = Never
  BY <1>3, <1>4, FirstDue
<1> QED
  BY <1>5, <1>6, <1>7

\* A timer leaves its queue.
Dequeued(qs, rs, exp, K, t) ==
    /\ HeapsOk(rs, exp, K)
    /\ \A k \in Queues : rs[k].timers_ = qs[k].timers_ \ {t}
    /\ \A k \in Queues : NoSooner(rs[k], qs[k])

\* By remove_timer, and the other queues stay as they are.
LEMMA DequeueIs ==
    ASSUME TimerAssumption, NEW qs, NEW exp, NEW K, HeapsOk(qs, exp, K),
           NEW t \in Timers, t \in qs[Home[t]].timers_,
           NEW rs, rs = [qs EXCEPT ![Home[t]] = RemoveTimer(@, t)]
    PROVE  Dequeued(qs, rs, exp, K, t)
<1>1. PICK h \in Queues : h = Home[t]
  BY TimerAssumption DEF TimerAssumption
<1>2. PICK r : r = RemoveTimer(qs[h], t)
  OBVIOUS
<1>3. /\ qs \in [Queues -> Heaps(Timers)] /\ rs = [qs EXCEPT ![h] = r]
      /\ \A k \in Queues : \A u \in qs[k].timers_ : Home[u] = k
  BY <1>1, <1>2 DEF HeapsOk
<1>4. /\ r \in Heaps(Timers) /\ DueOf(r) = [u \in qs[h].timers_ \ {t} |-> DueOf(qs[h])[u]]
  <2>1. qs[h] \in Heaps(Timers) /\ t \in qs[h].timers_
    BY <1>1, <1>3
  <2>2. /\ RemoveTimer(qs[h], t) \in Heaps(Timers)
        /\ DueOf(RemoveTimer(qs[h], t)) = [u \in qs[h].timers_ \ {t} |-> DueOf(qs[h])[u]]
    BY <2>1, RemoveIs
  <2> QED
    BY <1>2, <2>2
<1>5. r.timers_ = qs[h].timers_ \ {t}
  <2>1. r.timers_ = DOMAIN DueOf(r)
    BY DEF DueOf
  <2> QED
    BY <1>4, <2>1
<1>6. /\ rs \in [Queues -> Heaps(Timers)] /\ rs[h] = r
      /\ \A k \in Queues \ {h} : rs[k] = qs[k]
  BY <1>3, <1>4
<1>7. \A k \in Queues : rs[k].timers_ = qs[k].timers_ \ {t}
  BY <1>1, <1>3, <1>5, <1>6
<1>8. \A k \in Queues : \A u \in rs[k].timers_ :
         u \in qs[k].timers_ /\ DueOf(rs[k])[u] = DueOf(qs[k])[u]
  BY <1>4, <1>5, <1>6
<1>9. HeapsOk(rs, exp, K)
  BY <1>6, <1>7, <1>8 DEF HeapsOk
<1>10. ASSUME NEW k \in Queues PROVE NoSooner(rs[k], qs[k])
  <2>1. \A u \in rs[k].timers_ : DueOf(rs[k])[u] \in Nat \cup {Never}
    BY <1>6, FirstDue
  <2>2. ASSUME NEW u \in rs[k].timers_, DueOf(rs[k])[u] # Never
        PROVE  /\ u \in qs[k].timers_ /\ DueOf(qs[k])[u] # Never
               /\ DueOf(qs[k])[u] <= DueOf(rs[k])[u]
    BY <1>8, <2>1, <2>2
  <2> QED
    BY <2>2 DEF NoSooner
<1> QED
  BY <1>7, <1>9, <1>10 DEF Dequeued

\* A queue is no sooner than itself.
LEMMA NoSoonerSelf ==
    ASSUME NEW T, NEW q \in Heaps(T)
    PROVE  NoSooner(q, q)
<1>1. \A t \in q.timers_ : DueOf(q)[t] # Never => DueOf(q)[t] <= DueOf(q)[t]
  BY FirstDue
<1> QED
  BY <1>1 DEF NoSooner

-----------------------------------------------------------------------------
(* Steps in which operations end and timers leave their queues.            *)

\* The results of an operation.
Results == {"new", "waiting", "ok", "aborted", "destroyed"}

\* Operations may have ended and timers may have left, and none has come: so no
\* queue has become sooner.
Leaves ==
    /\ HeapsOk(queue', expiry, timer_queues_)
    /\ OpsOk(op_queue_', queue', result')
    /\ result' \in [Ops -> Results]
    /\ \A k \in Queues : /\ queue'[k].timers_ \subseteq queue[k].timers_
                         /\ NoSooner(queue'[k], queue[k])

\* No wait has completed.
NoneDone == \A o \in Ops : result'[o] = "ok" => result[o] = "ok"

\* What the steps need of the invariant.
LEMMA CoreIs ==
    ASSUME Core
    PROVE  /\ HeapsOk(queue, expiry, timer_queues_) /\ OpsOk(op_queue_, queue, result)
           /\ result \in [Ops -> Results] /\ queue \in [Queues -> Heaps(Timers)]
           /\ op_queue_ \in [Timers -> Seq(Ops)] /\ Once(op_queue_)
           /\ \A t \in Timers : /\ ToSet(op_queue_[t]) \subseteq Ops
                                /\ \A o \in ToSet(op_queue_[t]) : result[o] = "waiting"
                                /\ t \in queue[Home[t]].timers_ <=> op_queue_[t] # <<>>
<1>1. HeapsOk(queue, expiry, timer_queues_) /\ OpsOk(op_queue_, queue, result)
  BY DEF Core, HeapsInv, OpsInv
<1>2. result \in [Ops -> Results]
  BY DEF Core, TypeOK, Results
<1>3. op_queue_ \in [Timers -> Seq(Ops)] /\ queue \in [Queues -> Heaps(Timers)]
  BY <1>1 DEF HeapsOk, OpsOk
<1>4. ASSUME NEW t \in Timers PROVE ToSet(op_queue_[t]) \subseteq Ops
  <2>1. op_queue_[t] \in Seq(Ops)
    BY <1>3
  <2> QED
    BY <2>1 DEF ToSet
<1> QED
  BY <1>1, <1>2, <1>3, <1>4 DEF OpsOk

\* Nothing happens to the waits.
LEMMA StayLeaves ==
    ASSUME Core, UNCHANGED waits
    PROVE  Leaves /\ NoneDone
<1>1. queue' = queue /\ op_queue_' = op_queue_ /\ result' = result
  BY DEF waits
<1>2. \A k \in Queues : NoSooner(queue[k], queue[k])
  BY CoreIs, NoSoonerSelf
<1>3. HeapsOk(queue', expiry, timer_queues_) /\ OpsOk(op_queue_', queue', result')
  BY <1>1, CoreIs
<1> QED
  BY <1>1, <1>2, <1>3, CoreIs DEF Leaves, NoneDone

\* cancel_timer: a timer without operations is out of its queue.
LEMMA CancelTimerIs ==
    ASSUME TimerAssumption, Core, NEW t \in Timers, NEW max \in Nat, CancelTimer(t, max)
    PROVE  /\ Leaves /\ NoneDone
           /\ max = Len(op_queue_[t]) => t \notin queue'[Home[t]].timers_
<1>1. PICK len \in Nat : len = Len(op_queue_[t])
  <2>1. op_queue_[t] \in Seq(Ops)
    BY CoreIs
  <2> QED
    BY <2>1
<1>2. PICK n \in Nat : /\ n = Min({max, Len(op_queue_[t])}) /\ n <= len
                       /\ max = len => n = len
  <2>1. {max, len} \in SUBSET Nat /\ {max, len} # {}
    OBVIOUS
  <2>2. Min({max, len}) \in {max, len} /\ Min({max, len}) <= len
    BY <2>1, MinIs
  <2> QED
    BY <1>1, <2>2
<1>3. PICK a : a = SubSeq(op_queue_[t], 1, n)
  OBVIOUS
<1>4. /\ op_queue_' = Cut(op_queue_, t, n)
      /\ result' = [o \in Ops |-> IF o \in ToSet(a) THEN "aborted" ELSE result[o]]
      /\ queue' = IF t \in queue[Home[t]].timers_ /\ op_queue_'[t] = <<>>
                  THEN [queue EXCEPT ![Home[t]] = RemoveTimer(@, t)] ELSE queue
  BY <1>2, <1>3, Zenon DEF CancelTimer, Cut
<1>5. /\ op_queue_' \in [Timers -> Seq(Ops)] /\ Once(op_queue_')
      /\ \A u \in Timers \ {t} : op_queue_'[u] = op_queue_[u]
      /\ n = len => op_queue_'[t] = <<>>
      /\ \A u \in Timers : ToSet(op_queue_'[u]) \subseteq ToSet(op_queue_[u])
      /\ \A u \in Timers : \A o \in ToSet(op_queue_'[u]) : o \notin ToSet(a)
  <2>1. CutFacts(op_queue_, t, n)
    BY <1>1, <1>2, CoreIs, CutIs
  <2> QED
    BY <1>1, <1>3, <1>4, <2>1 DEF CutFacts
<1>6. result' \in [Ops -> Results] /\ NoneDone
  BY <1>4, CoreIs DEF Results, NoneDone
<1>7. \A u \in Timers : \A o \in ToSet(op_queue_'[u]) : result'[o] = "waiting"
  BY <1>4, <1>5, CoreIs
<1>8. op_queue_[t] = <<>> => op_queue_'[t] = <<>>
  <2>1. op_queue_[t] = <<>> => len = 0
    BY <1>1
  <2> QED
    BY <1>2, <1>5, <2>1
<1>9. CASE t \in queue[Home[t]].timers_ /\ op_queue_'[t] = <<>>
  <2>1. /\ HeapsOk(queue', expiry, timer_queues_)
        /\ \A k \in Queues : queue'[k].timers_ = queue[k].timers_ \ {t}
        /\ \A k \in Queues : NoSooner(queue'[k], queue[k])
    <3>1. HeapsOk(queue, expiry, timer_queues_)
      BY CoreIs
    <3>2. queue' = [queue EXCEPT ![Home[t]] = RemoveTimer(@, t)]
      BY <1>4, <1>9
    <3>3. Dequeued(queue, queue', expiry, timer_queues_, t)
      BY <1>9, <3>1, <3>2, DequeueIs, Zenon
    <3> QED
      BY <3>3, Zenon DEF Dequeued
  <2>2. \A u \in Timers : /\ Home[u] \in Queues
                          /\ u \in queue'[Home[u]].timers_ <=> op_queue_'[u] # <<>>
    <3>1. \A u \in Timers : Home[u] \in Queues
      BY DEF TimerAssumption
    <3>2. ASSUME NEW u \in Timers, u # t
          PROVE  u \in queue'[Home[u]].timers_ <=> op_queue_'[u] # <<>>
      BY <3>1, <3>2, <2>1, <1>5, CoreIs
    <3>3. t \notin queue'[Home[t]].timers_
      BY <3>1, <2>1
    <3> QED
      BY <1>9, <3>1, <3>2, <3>3
  <2>3. OpsOk(op_queue_', queue', result')
    BY <1>5, <1>7, <2>2 DEF OpsOk
  <2>4. t \notin queue'[Home[t]].timers_
    BY <1>9, <2>2
  <2> QED
    BY <1>6, <2>1, <2>3, <2>4 DEF Leaves
<1>10. CASE ~(t \in queue[Home[t]].timers_ /\ op_queue_'[t] = <<>>)
  <2>1. queue' = queue
    BY <1>4, <1>10
  <2>2. \A u \in Timers : u \in queue'[Home[u]].timers_ <=> op_queue_'[u] # <<>>
    BY <1>5, <1>8, <1>10, <2>1, CoreIs
  <2>3. OpsOk(op_queue_', queue', result')
    BY <1>5, <1>7, <2>2 DEF OpsOk
  <2>4. \A k \in Queues : NoSooner(queue[k], queue[k])
    BY CoreIs, NoSoonerSelf
  <2>5. HeapsOk(queue', expiry, timer_queues_)
    BY <2>1, CoreIs
  <2>6. Leaves
    BY <1>6, <2>1, <2>3, <2>4, <2>5 DEF Leaves
  <2>7. max = Len(op_queue_[t]) => t \notin queue'[Home[t]].timers_
    BY <1>1, <1>2, <1>5, <2>2
  <2> QED
    BY <1>6, <2>6, <2>7
<1> QED
  BY <1>9, <1>10

\* cancel: also if the flag says that there is nothing to cancel.
LEMMA CancelAllIs ==
    ASSUME TimerAssumption, Core, NEW t \in Timers, CancelAll(t)
    PROVE  /\ Leaves /\ NoneDone
           /\ t \notin queue'[Home[t]].timers_
           /\ might_have_pending_waits' = [might_have_pending_waits EXCEPT ![t] = FALSE]
<1>1. CASE might_have_pending_waits[t]
  <2>1. CancelTimer(t, Len(op_queue_[t])) /\ Len(op_queue_[t]) \in Nat
    BY <1>1, CoreIs DEF CancelAll
  <2> QED
    BY <2>1, CancelTimerIs DEF CancelAll
<1>2. CASE ~might_have_pending_waits[t]
  <2>1. t \notin queue[Home[t]].timers_
    BY <1>2 DEF Core, FlagCoversWaits
  <2>2. UNCHANGED waits
    BY <1>2 DEF CancelAll
  <2>3. queue' = queue
    BY <2>2 DEF waits
  <2> QED
    BY <2>1, <2>2, <2>3, StayLeaves DEF CancelAll
<1> QED
  BY <1>1, <1>2

\* The reactor completes the waits of the timers that are due.
LEMMA CheckTimersIs ==
    ASSUME TimerAssumption, Core, CheckTimers
    PROVE  /\ Leaves
           /\ timer_fd_ => armed' = WaitOver(queue', timer_queues_, now)
           /\ \A t \in Timers : \A o \in ToSet(op_queue_[t]) :
                 result'[o] = "ok" => expiry[t] \in 0..now
<1> DEFINE q == [k \in Queues |-> IF k \in timer_queues_ THEN AfterReady(queue[k], now)
                                  ELSE queue[k]]
           fired == {t \in Timers : t \in queue[Home[t]].timers_ \ queue'[Home[t]].timers_}
<1>1. /\ queue' = q
      /\ op_queue_' = Cleared(op_queue_, fired)
      /\ result' = [o \in Ops |-> IF \E t \in fired : o \in ToSet(op_queue_[t])
                                  THEN "ok" ELSE result[o]]
      /\ timer_fd_ => armed' = WaitTicks(queue')
  BY Zenon DEF CheckTimers, Rearm, TimerfdValue, Cleared
<1>2. timer_fd_ => armed' = WaitOver(queue', timer_queues_, now)
  BY <1>1, Zenon DEF WaitTicks, WaitOver
<1>3. PICK F : F = fired
  OBVIOUS
<1>4. now \in Nat /\ \A t \in Timers : Home[t] \in Queues
  BY DEF TimerAssumption, Core, TypeOK, Times
<1>5. \A k \in Queues : queue'[k] = IF k \in timer_queues_ THEN AfterReady(queue[k], now)
                                    ELSE queue[k]
  BY <1>1
<1>6. \A t \in Timers : t \in F <=> /\ t \in queue[Home[t]].timers_
                                    /\ t \notin queue'[Home[t]].timers_
  BY <1>1, <1>3
<1>7. /\ op_queue_' = Cleared(op_queue_, F)
      /\ result' = [o \in Ops |-> IF \E t \in F : o \in ToSet(op_queue_[t])
                                  THEN "ok" ELSE result[o]]
  BY <1>1, <1>3, Zenon
<1> HIDE DEF q, fired
<1>8. ASSUME NEW k \in Queues
      PROVE  /\ queue'[k] \in Heaps(Timers)
             /\ queue'[k].timers_ \subseteq queue[k].timers_
             /\ \A t \in queue'[k].timers_ : DueOf(queue'[k])[t] = DueOf(queue[k])[t]
             /\ \A t \in queue[k].timers_ \ queue'[k].timers_ :
                   DueOf(queue[k])[t] \in 0..now
  <2>1. queue[k] \in Heaps(Timers)
    BY CoreIs
  <2>2. CASE k \in timer_queues_
    <3>1. /\ queue'[k] \in Heaps(Timers)
          /\ queue'[k].timers_ = Left(queue[k], now)
          /\ DueOf(queue'[k]) = [t \in Left(queue[k], now) |-> DueOf(queue[k])[t]]
      <4>1. PICK p \in Heaps(Timers) : p = queue[k]
        BY <2>1
      <4>2. PICK n \in Nat : n = now
        BY <1>4
      <4>3. Readied(Timers, p, n, AfterReady(p, n))
        BY AfterReadyIs
      <4>4. queue'[k] = AfterReady(p, n)
        BY <1>5, <2>2, <4>1, <4>2
      <4> QED
        BY <4>1, <4>2, <4>3, <4>4, Zenon DEF Readied
    <3>2. \A t \in queue[k].timers_ : DueOf(queue[k])[t] \in Nat \cup {Never}
      BY <2>1, FirstDue
    <3>3. /\ Left(queue[k], now) \subseteq queue[k].timers_
          /\ \A t \in queue[k].timers_ \ Left(queue[k], now) : DueOf(queue[k])[t] \in 0..now
      BY <1>4, <3>2 DEF Left
    <3> QED
      BY <3>1, <3>3
  <2>3. CASE k \notin timer_queues_
    BY <1>5, <2>1, <2>3
  <2> QED
    BY <2>2, <2>3
<1>9. queue' \in [Queues -> Heaps(Timers)]
  <2>1. queue' = [k \in Queues |-> queue'[k]]
    BY <1>1 DEF q
  <2> QED
    BY <1>8, <2>1
<1>10. HeapsOk(queue', expiry, timer_queues_)
  <2>1. \A k \in Queues : /\ k \notin timer_queues_ => queue[k].timers_ = {}
                          /\ \A t \in queue[k].timers_ :
                                /\ Home[t] = k /\ expiry[t] # NotSet
                                /\ DueOf(queue[k])[t] = expiry[t]
    BY CoreIs DEF HeapsOk
  <2>2. ASSUME NEW k \in Queues
        PROVE  /\ k \notin timer_queues_ => queue'[k].timers_ = {}
               /\ \A t \in queue'[k].timers_ : /\ Home[t] = k /\ expiry[t] # NotSet
                                              /\ DueOf(queue'[k])[t] = expiry[t]
    <3>1. k \notin timer_queues_ => queue'[k].timers_ = {}
      BY <1>8, <2>1
    <3>2. ASSUME NEW t \in queue'[k].timers_
          PROVE  /\ Home[t] = k /\ expiry[t] # NotSet /\ DueOf(queue'[k])[t] = expiry[t]
      <4>1. t \in queue[k].timers_ /\ DueOf(queue'[k])[t] = DueOf(queue[k])[t]
        BY <1>8
      <4>2. Home[t] = k /\ expiry[t] # NotSet /\ DueOf(queue[k])[t] = expiry[t]
        BY <2>1, <4>1
      <4> QED
        BY <4>1, <4>2
    <3> QED
      BY <3>1, <3>2
  <2> QED
    BY <1>9, <2>2, Zenon DEF HeapsOk
<1>11. ASSUME NEW k \in Queues PROVE NoSooner(queue'[k], queue[k])
  <2>1. queue'[k] \in Heaps(Timers) /\ queue[k] \in Heaps(Timers)
    BY <1>8, CoreIs
  <2>2. \A u \in queue'[k].timers_ : DueOf(queue'[k])[u] \in Nat \cup {Never}
    BY <2>1, FirstDue
  <2>3. ASSUME NEW u \in queue'[k].timers_, DueOf(queue'[k])[u] # Never
        PROVE  /\ u \in queue[k].timers_ /\ DueOf(queue[k])[u] # Never
               /\ DueOf(queue[k])[u] <= DueOf(queue'[k])[u]
    BY <1>8, <2>2, <2>3
  <2> QED
    BY <2>3 DEF NoSooner
<1>12. /\ op_queue_' \in [Timers -> Seq(Ops)] /\ Once(op_queue_')
       /\ \A t \in Timers : \A o \in ToSet(op_queue_'[t]) :
             t \notin F /\ o \in ToSet(op_queue_[t])
       /\ \A t \in Timers : op_queue_'[t] = IF t \in F THEN <<>> ELSE op_queue_[t]
  <2>1. op_queue_' = Cleared(op_queue_, F)
    BY <1>7
  <2>2. \A t \in Timers : Cleared(op_queue_, F)[t] = IF t \in F THEN <<>> ELSE op_queue_[t]
    BY DEF Cleared
  <2>3. op_queue_ \in [Timers -> Seq(Ops)] /\ Once(op_queue_)
    BY CoreIs
  <2> QED
    BY <2>1, <2>2, <2>3, ClearedIs
<1>13. ASSUME NEW t \in Timers, NEW o \in ToSet(op_queue_[t]), NEW u \in F,
              o \in ToSet(op_queue_[u])
       PROVE  t = u
  <2>1. PICK i \in DOMAIN op_queue_[t] : o = op_queue_[t][i]
    BY DEF ToSet
  <2>2. PICK j \in DOMAIN op_queue_[u] : o = op_queue_[u][j]
    BY <1>13 DEF ToSet
  <2>3. u \in Timers
    BY <1>3 DEF fired
  <2>4. Once(op_queue_)
    BY CoreIs
  <2> QED
    BY <2>1, <2>2, <2>3, <2>4, Zenon DEF Once
<1>14. \A t \in Timers : \A o \in ToSet(op_queue_'[t]) : result'[o] = "waiting"
  <2>1. ASSUME NEW t \in Timers, NEW o \in ToSet(op_queue_'[t])
        PROVE  result'[o] = "waiting"
    <3>1. t \notin F /\ o \in ToSet(op_queue_[t])
      BY <1>12
    <3>2. ~ \E u \in F : o \in ToSet(op_queue_[u])
      BY <1>13, <3>1
    <3>3. o \in Ops /\ result[o] = "waiting"
      BY <3>1, CoreIs
    <3> QED
      BY <1>7, <3>2, <3>3
  <2> QED
    BY <2>1
<1>15. \A t \in Timers : t \in queue'[Home[t]].timers_ <=> op_queue_'[t] # <<>>
  BY <1>4, <1>6, <1>8, <1>12, CoreIs
<1>16. OpsOk(op_queue_', queue', result')
  BY <1>12, <1>14, <1>15 DEF OpsOk
<1>17. result' \in [Ops -> Results]
  BY <1>7, CoreIs DEF Results
<1>18. ASSUME NEW t \in Timers, NEW o \in ToSet(op_queue_[t]), result'[o] = "ok"
       PROVE  expiry[t] \in 0..now
  <2>1. o \in Ops /\ result[o] = "waiting"
    BY CoreIs
  <2>2. \E u \in F : o \in ToSet(op_queue_[u])
    BY <1>7, <1>18, <2>1
  <2>3. t \in F
    BY <1>13, <2>2
  <2>4. DueOf(queue[Home[t]])[t] \in 0..now /\ t \in queue[Home[t]].timers_
    BY <1>4, <1>6, <1>8, <2>3
  <2>5. DueOf(queue[Home[t]])[t] = expiry[t]
    BY <1>4, <2>4, CoreIs DEF HeapsOk
  <2> QED
    BY <2>4, <2>5
<1>19. Leaves
  BY <1>8, <1>10, <1>11, <1>16, <1>17 DEF Leaves
<1> QED
  BY <1>2, <1>18, <1>19

\* The reactor is shut down: nobody waits any more.
LEMMA ShutdownIs ==
    ASSUME TimerAssumption, Core, Shutdown
    PROVE  Leaves /\ NoneDone
<1>1. /\ queue' = [k \in Queues |-> IF k \in timer_queues_ THEN EmptyQueue ELSE queue[k]]
      /\ op_queue_' = [t \in Timers |-> <<>>]
      /\ result' = [o \in Ops |-> IF result[o] = "waiting" THEN "destroyed" ELSE result[o]]
  BY DEF Shutdown
<1>2. \A k \in Queues : /\ queue'[k].timers_ = {} /\ queue'[k] \in Heaps(Timers)
  BY <1>1, CoreIs, EmptyIs DEF HeapsOk
<1>3. \A k \in Queues : NoSooner(queue'[k], queue[k])
  BY <1>2 DEF NoSooner
<1>4. queue' \in [Queues -> Heaps(Timers)]
  <2>1. queue' = [k \in Queues |-> queue'[k]]
    BY <1>1
  <2> QED
    BY <1>2, <2>1
<1>5. HeapsOk(queue', expiry, timer_queues_)
  BY <1>2, <1>4 DEF HeapsOk
<1>6. \A t \in Timers : /\ op_queue_'[t] = <<>> /\ DOMAIN op_queue_'[t] = {}
                        /\ ToSet(op_queue_'[t]) = {} /\ t \notin queue'[Home[t]].timers_
  BY <1>1, <1>2 DEF ToSet, TimerAssumption
<1>7. op_queue_' \in [Timers -> Seq(Ops)]
  BY <1>1
<1>8. OpsOk(op_queue_', queue', result')
  BY <1>6, <1>7 DEF OpsOk, Once
<1>9. result' \in [Ops -> Results] /\ NoneDone
  BY <1>1, CoreIs DEF Results, NoneDone
<1> QED
  BY <1>2, <1>3, <1>5, <1>8, <1>9 DEF Leaves

\* async_wait: the timer is queued, and the reactor is told unless it sleeps
\* short enough.
AsyncWaited(t) ==
    /\ HeapsOk(queue', expiry, timer_queues_)
    /\ OpsOk(op_queue_', queue', result')
    /\ result' \in [Ops -> Results] /\ NoneDone
    /\ \A u \in Timers : u \in queue'[Home[u]].timers_ => u = t \/ u \in queue[Home[u]].timers_
    /\ armed' \in Ticks /\ edge' \in BOOLEAN
    /\ \/ IF timer_fd_ THEN armed' = WaitOver(queue', timer_queues_, now) ELSE edge'
       \/ /\ armed' = armed /\ edge' = edge
          /\ \A k \in Queues : NoSooner(queue'[k], queue[k])

\* An update is left out only if some queue had a timer that is due as soon.
LEMMA AsyncWaitIs ==
    ASSUME TimerAssumption, Core, NEW t \in Timers, NEW o \in Ops, AsyncWait(t, o), ~shutdown_
    PROVE  AsyncWaited(t)
<1>1. PICK h \in Queues : h = Home[t]
  BY DEF TimerAssumption
<1>2. PICK p \in Heaps(Timers) : p = queue[h]
  BY CoreIs
<1>3. PICK time : time = expiry[t]
  OBVIOUS
<1>4. time \in Nat \cup {Never} /\ time # NotSet
  BY <1>3 DEF AsyncWait, Core, TypeOK, Times, TimerAssumption
<1>5. PICK r : r = EnqueueTimer(p, time, t)
  OBVIOUS
<1>6. PICK qs : qs = [queue EXCEPT ![h] = r]
  OBVIOUS
<1>7. /\ queue' = qs
      /\ op_queue_' = [op_queue_ EXCEPT ![t] = Append(@, o)]
      /\ result' = [result EXCEPT ![o] = "waiting"]
      /\ result[o] = "new" /\ h \in timer_queues_
      /\ IF First(qs[h], t) THEN UpdateTimeout(qs) ELSE UNCHANGED <<armed, edge>>
  BY <1>1, <1>2, <1>3, <1>5, <1>6, Zenon DEF AsyncWait, Usable
<1>8. /\ op_queue_' \in [Timers -> Seq(Ops)] /\ Once(op_queue_') /\ op_queue_'[t] # <<>>
      /\ \A u \in Timers \ {t} : op_queue_'[u] = op_queue_[u]
      /\ \A u \in Timers : \A x \in ToSet(op_queue_'[u]) : x = o \/ x \in ToSet(op_queue_[u])
  <2>1. \A u \in Timers : o \notin ToSet(op_queue_[u])
    BY <1>7, CoreIs
  <2>2. op_queue_ \in [Timers -> Seq(Ops)] /\ Once(op_queue_)
    BY CoreIs
  <2> QED
    <3>1. op_queue_' = [op_queue_ EXCEPT ![t] = Append(@, o)]
      BY <1>7
    <3>2. Added(op_queue_, t, o, op_queue_')
      BY <2>1, <2>2, <3>1, AddedIs, Zenon
    <3> QED
      BY <3>2, Zenon DEF Added
<1>9. result' \in [Ops -> Results] /\ NoneDone
  BY <1>7, CoreIs DEF Results, NoneDone
<1>10. \A u \in Timers : \A x \in ToSet(op_queue_'[u]) : result'[x] = "waiting"
  BY <1>7, <1>8, CoreIs
<1>11. armed' \in Ticks /\ edge' \in BOOLEAN
  <2>1. armed \in Ticks /\ edge \in BOOLEAN
    BY DEF Core, TypeOK
  <2>2. ASSUME UpdateTimeout(qs), qs \in [Queues -> Heaps(Timers)]
        PROVE  armed' \in Ticks /\ edge' \in BOOLEAN
    <3>1. timer_queues_ \in SUBSET Queues /\ now \in Nat
      BY DEF Core, TypeOK, TimerAssumption, Times
    <3>2. WaitOver(qs, timer_queues_, now) \in Nat
      BY <2>2, <3>1, WaitOverIs
    <3>3. armed' = WaitOver(qs, timer_queues_, now) \/ armed' = armed
      BY <2>2, Zenon DEF UpdateTimeout, TimerfdValue, WaitTicks, WaitOver
    <3>4. edge' = edge \/ edge' = TRUE
      BY <2>2, Zenon DEF UpdateTimeout
    <3> QED
      BY <2>1, <3>2, <3>3, <3>4 DEF Ticks
  <2>3. r \in Heaps(Timers)
    <3>1. CASE t \in p.timers_
      BY <1>5, <3>1 DEF EnqueueTimer
    <3>2. CASE t \notin p.timers_
      BY <1>4, <1>5, <3>2, EnqueueIs DEF Enqueued
    <3> QED
      BY <3>1, <3>2
  <2>4. qs \in [Queues -> Heaps(Timers)]
    BY <1>6, <2>3, CoreIs
  <2> QED
    BY <1>7, <2>1, <2>2, <2>4
<1>12. First(qs[h], t) =>
         IF timer_fd_ THEN armed' = WaitOver(queue', timer_queues_, now) ELSE edge'
  BY <1>7, Zenon DEF UpdateTimeout, TimerfdValue, WaitTicks, WaitOver
<1>13. CASE t \in p.timers_
  <2>1. queue' = queue
    BY <1>2, <1>5, <1>6, <1>7, <1>13, CoreIs DEF EnqueueTimer
  <2>2. op_queue_[t] # <<>>
    BY <1>1, <1>2, <1>13, CoreIs
  <2>3. \A u \in Timers : u \in queue'[Home[u]].timers_ <=> op_queue_'[u] # <<>>
    BY <1>8, <2>1, <2>2, CoreIs
  <2>4. OpsOk(op_queue_', queue', result')
    BY <1>8, <1>10, <2>3 DEF OpsOk
  <2>5. HeapsOk(queue', expiry, timer_queues_)
    BY <2>1, CoreIs
  <2>6. \A k \in Queues : NoSooner(queue'[k], queue[k])
    BY <2>1, CoreIs, NoSoonerSelf
  <2>7. armed' = armed /\ edge' = edge
    BY <1>7, <2>2 DEF First
  <2> QED
    BY <1>9, <1>11, <2>1, <2>4, <2>5, <2>6, <2>7 DEF AsyncWaited
<1>14. CASE t \notin p.timers_
  <2>1. /\ r \in Heaps(Timers)
        /\ DueOf(r) = [u \in p.timers_ \cup {t} |-> IF u = t THEN time ELSE DueOf(p)[u]]
        /\ r.heap_index_[t] = 0 <=>
              /\ time # Never
              /\ \A u \in p.timers_ : DueOf(p)[u] = Never \/ time < DueOf(p)[u]
    <3>1. Enqueued(Timers, p, t, time, r)
      BY <1>4, <1>5, <1>14, EnqueueIs, Zenon
    <3> QED
      BY <3>1, Zenon DEF Enqueued
  <2>2. /\ r.timers_ = p.timers_ \cup {t} /\ DueOf(r)[t] = time
        /\ \A u \in p.timers_ : DueOf(r)[u] = DueOf(p)[u]
    <3>1. r.timers_ = DOMAIN DueOf(r)
      BY DEF DueOf
    <3> QED
      BY <1>14, <2>1, <3>1
  <2>3. /\ queue' \in [Queues -> Heaps(Timers)] /\ queue'[h] = r
        /\ \A k \in Queues \ {h} : queue'[k] = queue[k]
    BY <1>6, <1>7, <2>1, CoreIs
  <2>4. \A k \in Queues : /\ k \notin timer_queues_ => queue[k].timers_ = {}
                          /\ \A u \in queue[k].timers_ :
                                /\ Home[u] = k /\ expiry[u] # NotSet
                                /\ DueOf(queue[k])[u] = expiry[u]
    BY CoreIs DEF HeapsOk
  <2>5. \A u \in queue'[h].timers_ : /\ Home[u] = h /\ expiry[u] # NotSet
                                     /\ DueOf(queue'[h])[u] = expiry[u]
    <3>1. \A u \in p.timers_ : /\ Home[u] = h /\ expiry[u] # NotSet
                               /\ DueOf(r)[u] = expiry[u]
      BY <1>2, <2>2, <2>4
    <3>2. Home[t] = h /\ expiry[t] # NotSet /\ DueOf(r)[t] = expiry[t]
      BY <1>1, <1>3, <1>4, <2>2
    <3> QED
      BY <2>2, <2>3, <3>1, <3>2
  <2>6. HeapsOk(queue', expiry, timer_queues_)
    <3>1. \A k \in Queues : k = h \/ k \in Queues \ {h}
      OBVIOUS
    <3>2. \A k \in Queues : /\ k \notin timer_queues_ => queue'[k].timers_ = {}
                            /\ \A u \in queue'[k].timers_ :
                                  /\ Home[u] = k /\ expiry[u] # NotSet
                                  /\ DueOf(queue'[k])[u] = expiry[u]
      BY <1>7, <2>3, <2>4, <2>5, <3>1
    <3> QED
      BY <2>3, <3>2, Zenon DEF HeapsOk
  <2>7. \A u \in Timers : Home[u] \in Queues
    BY DEF TimerAssumption
  <2>8. \A u \in Timers : u \in queue'[Home[u]].timers_ <=>
                             u = t \/ u \in queue[Home[u]].timers_
    BY <1>1, <1>2, <2>2, <2>3, <2>7
  <2>9. OpsOk(op_queue_', queue', result')
    <3>1. \A u \in Timers : u \in queue'[Home[u]].timers_ <=> op_queue_'[u] # <<>>
      BY <1>8, <2>8, CoreIs
    <3> QED
      BY <1>8, <1>10, <3>1 DEF OpsOk
  <2>10. ASSUME ~First(qs[h], t)
         PROVE  /\ armed' = armed /\ edge' = edge
                /\ \A k \in Queues : NoSooner(queue'[k], queue[k])
    <3>1. op_queue_[t] = <<>>
      BY <1>1, <1>2, <1>14, CoreIs
    <3>2. r.heap_index_[t] # 0
      BY <1>7, <2>3, <2>10, <3>1 DEF First
    <3>3. \A u \in p.timers_ : DueOf(p)[u] \in Nat \cup {Never}
      BY FirstDue
    <3>4. time # Never =>
            \E u \in p.timers_ : DueOf(p)[u] # Never /\ DueOf(p)[u] <= time
      BY <1>4, <2>1, <3>2, <3>3
    <3>5. \A u \in p.timers_ : DueOf(p)[u] # Never => DueOf(p)[u] <= DueOf(p)[u]
      BY <3>3
    <3>6. NoSooner(r, p)
      <4>1. \A u \in r.timers_ : u = t \/ u \in p.timers_
        BY <2>2
      <4> QED
        BY <2>2, <3>4, <3>5, <4>1, Zenon DEF NoSooner
    <3>7. ASSUME NEW k \in Queues PROVE NoSooner(queue'[k], queue[k])
      <4>1. queue[k] \in Heaps(Timers)
        BY CoreIs
      <4>2. CASE k = h
        BY <1>2, <2>3, <3>6, <4>2
      <4>3. CASE k # h
        BY <2>3, <4>1, <4>3, NoSoonerSelf
      <4> QED
        BY <4>2, <4>3
    <3> QED
      BY <1>7, <2>10, <3>7
  <2> QED
    BY <1>9, <1>11, <1>12, <2>6, <2>8, <2>9, <2>10 DEF AsyncWaited
<1> QED
  BY <1>13, <1>14

-----------------------------------------------------------------------------
(* The invariant, step by step.                                            *)

\* The type of the timers' own variables and of the reactor's.
TimersOk ==
    /\ alive \subseteq Timers /\ timer_queues_ \subseteq Queues
    /\ expiry \in [Timers -> Times \cup {Never, NotSet}]
    /\ might_have_pending_waits \in [Timers -> BOOLEAN]

ScalarsOk ==
    /\ timer_fd_ \in BOOLEAN /\ now \in Times /\ adjusted \in 0..MaxAdjust
    /\ pc \in {"out", "wait", "check"} /\ shutdown_ \in BOOLEAN /\ edge \in BOOLEAN
    /\ timeout \in Ticks /\ armed \in Ticks
    /\ SleepInv

\* The parts of Core that are about single variables.
LEMMA CoreParts == ASSUME Core PROVE TimersOk /\ ScalarsOk
BY DEF Core, TypeOK, TimersOk, ScalarsOk

\* The invariant, put together.
LEMMA CoreAgain ==
    ASSUME HeapsOk(queue', expiry', timer_queues_'), OpsOk(op_queue_', queue', result'),
           result' \in [Ops -> Results], TimersOk', ScalarsOk', FlagCoversWaits'
    PROVE  Core'
<1>1. HeapsInv' /\ OpsInv'
  BY DEF HeapsInv, OpsInv
<1>2. /\ op_queue_' \in [Timers -> Seq(Ops)]
      /\ \A t \in Timers : \A o \in ToSet(op_queue_'[t]) : result'[o] = "waiting"
  BY DEF OpsOk
<1>3. TypeOK'
  BY <1>2 DEF TypeOK, TimersOk, ScalarsOk, Results
<1> QED
  BY <1>1, <1>3 DEF Core, ScalarsOk

\* A step in which timers only leave keeps it, if it does not change those that
\* stay.
LEMMA CoreKept ==
    ASSUME TimerAssumption, Core, Leaves, timer_queues_' = timer_queues_,
           TimersOk', ScalarsOk',
           \A t \in Timers : t \in queue'[Home[t]].timers_ =>
              /\ expiry'[t] = expiry[t]
              /\ might_have_pending_waits'[t] = might_have_pending_waits[t]
              /\ t \in alive => t \in alive'
    PROVE  Core'
<1>1. /\ HeapsOk(queue', expiry, timer_queues_) /\ OpsOk(op_queue_', queue', result')
      /\ result' \in [Ops -> Results]
      /\ \A k \in Queues : queue'[k].timers_ \subseteq queue[k].timers_
  BY DEF Leaves
<1>2. \A k \in Queues : queue'[k].timers_ \subseteq Timers
  BY <1>1, IndexedIs DEF HeapsOk, Heaps
<1>3. HeapsOk(queue', expiry', timer_queues_')
  <2>1. ASSUME NEW k \in Queues, NEW t \in queue'[k].timers_
        PROVE  Home[t] = k /\ expiry'[t] # NotSet /\ DueOf(queue'[k])[t] = expiry'[t]
    <3>1. Home[t] = k /\ expiry[t] # NotSet /\ DueOf(queue'[k])[t] = expiry[t]
      BY <1>1 DEF HeapsOk
    <3>2. t \in Timers
      BY <1>2
    <3>3. expiry'[t] = expiry[t]
      BY <3>1, <3>2
    <3> QED
      BY <3>1, <3>3
  <2> QED
    BY <1>1, <2>1 DEF HeapsOk
<1>4. FlagCoversWaits'
  <2>1. \A t \in Timers : t \in queue'[Home[t]].timers_ =>
           /\ might_have_pending_waits[t] /\ t \in alive
    BY <1>1 DEF TimerAssumption, Core, FlagCoversWaits
  <2> QED
    BY <2>1 DEF FlagCoversWaits
<1> QED
  BY <1>1, <1>3, <1>4, CoreAgain

\* Steps that touch no timer and no wait.
LEMMA CoreIdle ==
    ASSUME TimerAssumption, Core, UNCHANGED <<timers, waits, timer_queues_>>, ScalarsOk'
    PROVE  Core'
<1>1. Leaves
  BY StayLeaves
<1>2. TimersOk'
  BY CoreParts DEF TimersOk, timers
<1> QED
  BY <1>1, <1>2, CoreKept DEF timers

\* A timeout that runs does not become endless.
LEMMA LessIs == ASSUME NEW x \in Ticks
                PROVE  Less(x) \in Ticks /\ (x # Never => Less(x) # Never)
BY NeverAssumption DEF Ticks, Less

\* The wait of a state is a number.
LEMMA WaitTicksIs ==
    ASSUME TimerAssumption, Core
    PROVE  /\ WaitTicks(queue) = WaitOver(queue, timer_queues_, now)
           /\ WaitTicks(queue) \in Nat /\ now \in Nat /\ timer_queues_ \in SUBSET Queues
<1>1. WaitTicks(queue) = WaitOver(queue, timer_queues_, now)
  BY Zenon DEF WaitTicks, WaitOver
<1>2. now \in Nat /\ timer_queues_ \in SUBSET Queues
  BY DEF TimerAssumption, Core, TypeOK, Times
<1>3. queue \in [Queues -> Heaps(Timers)]
  BY CoreIs, Zenon
<1>4. WaitOver(queue, timer_queues_, now) \in Nat
  BY <1>2, <1>3, WaitOverIs, Zenon
<1> QED
  BY <1>1, <1>2, <1>4

\* cancel, and what expires_at and the destructor do after it: the timer is in
\* no queue, so it may be set or destroyed.
LEMMA CancelKeeps ==
    ASSUME TimerAssumption, Core, NEW t \in Timers, Leaves,
           t \notin queue'[Home[t]].timers_,
           might_have_pending_waits' = [might_have_pending_waits EXCEPT ![t] = FALSE],
           alive' = alive \/ alive' = alive \ {t},
           expiry' = expiry \/ \E time \in Times \cup {Never} :
                                  expiry' = [expiry EXCEPT ![t] = time],
           UNCHANGED <<system, timer_queues_, shutdown_, reactor>>
    PROVE  Core'
<1>1. TimersOk /\ ScalarsOk
  BY CoreParts
<1>2. ScalarsOk'
  BY <1>1 DEF ScalarsOk, SleepInv, system, reactor
<1>3. TimersOk'
  BY <1>1 DEF TimersOk
<1>4. \A u \in Timers : u \in queue'[Home[u]].timers_ =>
         /\ expiry'[u] = expiry[u]
         /\ might_have_pending_waits'[u] = might_have_pending_waits[u]
         /\ u \in alive => u \in alive'
  BY <1>1 DEF TimersOk
<1> QED
  BY <1>2, <1>3, <1>4, CoreKept

\* Every step keeps the invariant.
LEMMA CoreStep == ASSUME TimerAssumption, Core, [Next]_vars PROVE Core'
<1>1. TimersOk /\ ScalarsOk
  BY CoreParts
<1>2. ASSUME Tick PROVE Core'
  <2>1. now' \in Times
    BY <1>1, <1>2 DEF Tick, ScalarsOk, Times, TimerAssumption
  <2>2. timeout' = Less(timeout) /\ armed' = Less(armed)
    BY <1>2 DEF Tick
  <2>3. ScalarsOk'
    BY <1>1, <1>2, <2>1, <2>2, LessIs DEF Tick, ScalarsOk, SleepInv
  <2> QED
    BY <1>2, <2>3, CoreIdle DEF Tick
<1>3. ASSUME AdjustClock PROVE Core'
  <2>1. adjusted' \in 0..MaxAdjust
    BY <1>1, <1>3 DEF AdjustClock, ScalarsOk, TimerAssumption
  <2>2. ScalarsOk'
    BY <1>1, <1>3, <2>1 DEF AdjustClock, ScalarsOk, SleepInv, reactor
  <2> QED
    BY <1>3, <2>2, CoreIdle DEF AdjustClock
<1>4. ASSUME Shutdown PROVE Core'
  <2>1. Leaves
    BY <1>4, ShutdownIs
  <2>2. ScalarsOk' /\ TimersOk'
    BY <1>1, <1>4 DEF Shutdown, ScalarsOk, SleepInv, TimersOk, timers, system, reactor
  <2> QED
    BY <1>4, <2>1, <2>2, CoreKept DEF Shutdown, timers
<1>5. ASSUME NEW block \in BOOLEAN, RunBegin(block) PROVE Core'
  <2>1. MsecTimeout(WaitTicks(queue)) \in Nat
    BY WaitTicksIs, MsecTimeoutIs
  <2>2. timeout' \in Ticks /\ (~timer_fd_ => timeout' # Never)
    BY <1>5, <2>1, NeverAssumption DEF RunBegin, Ticks
  <2>3. ScalarsOk'
    BY <1>1, <1>5, <2>2 DEF RunBegin, ScalarsOk, SleepInv, system
  <2> QED
    BY <1>5, <2>3, CoreIdle DEF RunBegin
<1>6. ASSUME EpollReturn \/ EpollOther PROVE Core'
  <2>1. ScalarsOk'
    BY <1>1, <1>6 DEF EpollReturn, EpollOther, ScalarsOk, SleepInv, Ticks, system
  <2> QED
    BY <1>6, <2>1, CoreIdle DEF EpollReturn, EpollOther
<1>7. ASSUME CheckTimers PROVE Core'
  <2>1. Leaves /\ (timer_fd_ => armed' = WaitOver(queue', timer_queues_, now))
    BY <1>7, CheckTimersIs
  <2>2. WaitOver(queue', timer_queues_, now) \in Nat
    <3>1. queue' \in [Queues -> Heaps(Timers)]
      BY <2>1 DEF Leaves, HeapsOk
    <3> QED
      BY <3>1, WaitTicksIs, WaitOverIs
  <2>3. armed' \in Ticks
    BY <1>1, <1>7, <2>1, <2>2 DEF CheckTimers, Rearm, Ticks, ScalarsOk
  <2>4. ScalarsOk' /\ TimersOk'
    BY <1>1, <1>7, <2>3 DEF CheckTimers, ScalarsOk, SleepInv, TimersOk, timers, system
  <2> QED
    BY <1>7, <2>1, <2>4, CoreKept DEF CheckTimers, timers
<1>8. ASSUME NEW k \in Queues, AddTimerQueue(k) \/ RemoveTimerQueue(k) PROVE Core'
  <2>1. /\ queue' = queue /\ op_queue_' = op_queue_ /\ result' = result
        /\ expiry' = expiry /\ alive' = alive
        /\ might_have_pending_waits' = might_have_pending_waits
        /\ timer_queues_' \subseteq Queues
        /\ \A h \in Queues : h \notin timer_queues_' => h \notin timer_queues_ \/ h = k
        /\ k \in timer_queues_' \/ \A t \in Timers : Home[t] = k => expiry[t] = NotSet
    BY <1>1, <1>8 DEF AddTimerQueue, RemoveTimerQueue, waits, timers, TimersOk
  <2>2. ScalarsOk' /\ TimersOk'
    <3>1. ScalarsOk'
      BY <1>1, <1>8 DEF AddTimerQueue, RemoveTimerQueue, ScalarsOk, SleepInv, system, reactor
    <3> QED
      BY <1>1, <2>1, <3>1 DEF TimersOk
  <2>3. \A h \in Queues : queue[h].timers_ \subseteq Timers
    BY CoreIs, IndexedIs DEF Heaps
  <2>4. HeapsOk(queue', expiry', timer_queues_')
    <3>1. HeapsOk(queue, expiry, timer_queues_)
      BY CoreIs
    <3>2. k \in timer_queues_' \/ queue[k].timers_ = {}
      BY <2>1, <2>3, <3>1 DEF HeapsOk
    <3> QED
      BY <2>1, <3>1, <3>2 DEF HeapsOk
  <2>5. FlagCoversWaits'
    BY <2>1 DEF Core, FlagCoversWaits
  <2> QED
    BY <2>1, <2>2, <2>4, <2>5, CoreIs, CoreAgain
<1>9. ASSUME NEW t \in Timers, Cancel(t) \/ Destroy(t) PROVE Core'
  <2>1. CancelAll(t)
    BY <1>9 DEF Cancel, Destroy
  <2> QED
    BY <1>9, <2>1, CancelAllIs, CancelKeeps DEF Cancel, Destroy
<1>10. ASSUME NEW t \in Timers, NEW time \in Expiries \cup {Never}, ExpiresAt(t, time) PROVE Core'
  <2>1. CancelAll(t)
    BY <1>10 DEF ExpiresAt
  <2>2. time \in Times \cup {Never}
    BY TimerAssumption DEF TimerAssumption, Times
  <2> QED
    BY <1>10, <2>1, <2>2, CancelAllIs, CancelKeeps DEF ExpiresAt
<1>11. ASSUME NEW t \in Timers, CancelOne(t) PROVE Core'
  <2>1. Leaves
    BY <1>11, CancelTimerIs DEF CancelOne
  <2>2. /\ might_have_pending_waits' =
              [might_have_pending_waits EXCEPT ![t] = op_queue_[t] # <<>>]
        /\ might_have_pending_waits[t]
    BY <1>11 DEF CancelOne, PendingAfterOne
  <2>3. ScalarsOk' /\ TimersOk'
    BY <1>1, <1>11, <2>2 DEF CancelOne, ScalarsOk, SleepInv, TimersOk, system, reactor
  <2>4. ASSUME t \in queue'[Home[t]].timers_ PROVE op_queue_[t] # <<>>
    BY <2>1, <2>4, CoreIs DEF Leaves, TimerAssumption
  <2>5. \A u \in Timers : u \in queue'[Home[u]].timers_ =>
           might_have_pending_waits'[u] = might_have_pending_waits[u]
    BY <1>1, <2>2, <2>4 DEF TimersOk
  <2> QED
    BY <1>11, <2>1, <2>3, <2>5, CoreKept DEF CancelOne
<1>12. ASSUME NEW t \in Timers, NEW o \in Ops, AsyncWait(t, o) PROVE Core'
  <2>1. /\ might_have_pending_waits' = [might_have_pending_waits EXCEPT ![t] = TRUE]
        /\ alive' = alive /\ expiry' = expiry /\ t \in alive
        /\ timer_queues_' = timer_queues_
    BY <1>12 DEF AsyncWait, Usable
  <2>2. TimersOk'
    BY <1>1, <2>1 DEF TimersOk
  <2>3. CASE shutdown_
    <3>1. /\ result' = [result EXCEPT ![o] = "destroyed"] /\ result[o] = "new"
          /\ op_queue_' = op_queue_ /\ queue' = queue /\ armed' = armed /\ edge' = edge
      BY <1>12, <2>3 DEF AsyncWait
    <3>2. ScalarsOk'
      BY <1>1, <1>12, <3>1 DEF AsyncWait, ScalarsOk, SleepInv, system
    <3>3. OpsOk(op_queue_', queue', result')
      <4>1. \A u \in Timers : \A x \in ToSet(op_queue_[u]) : result'[x] = "waiting"
        BY <3>1, CoreIs
      <4> QED
        BY <3>1, <4>1, CoreIs DEF OpsOk
    <3>4. result' \in [Ops -> Results]
      BY <3>1, CoreIs DEF Results
    <3>5. FlagCoversWaits'
      BY <1>1, <2>1, <3>1 DEF Core, FlagCoversWaits, TimersOk
    <3>6. HeapsOk(queue', expiry', timer_queues_')
      BY <2>1, <3>1, CoreIs
    <3> QED
      BY <2>2, <3>2, <3>3, <3>4, <3>5, <3>6, CoreAgain
  <2>4. CASE ~shutdown_
    <3>1. AsyncWaited(t)
      BY <1>12, <2>4, AsyncWaitIs
    <3>2. ScalarsOk'
      BY <1>1, <1>12, <3>1 DEF AsyncWait, AsyncWaited, ScalarsOk, SleepInv, system
    <3>3. FlagCoversWaits'
      <4>1. \A u \in Timers : u \in queue'[Home[u]].timers_ =>
               u = t \/ u \in queue[Home[u]].timers_
        BY <3>1 DEF AsyncWaited
      <4> QED
        BY <1>1, <2>1, <4>1 DEF Core, FlagCoversWaits, TimersOk
    <3>4. /\ HeapsOk(queue', expiry', timer_queues_')
          /\ OpsOk(op_queue_', queue', result') /\ result' \in [Ops -> Results]
      BY <2>1, <3>1 DEF AsyncWaited
    <3> QED
      BY <2>2, <3>2, <3>3, <3>4, CoreAgain
  <2> QED
    BY <2>3, <2>4
<1>13. ASSUME UNCHANGED vars PROVE Core'
  <2>1. UNCHANGED <<timers, waits, timer_queues_>> /\ ScalarsOk'
    BY <1>1, <1>13 DEF vars, ScalarsOk, SleepInv, system, reactor
  <2> QED
    BY <2>1, CoreIdle
<1> QED
  BY <1>2, <1>3, <1>4, <1>5, <1>6, <1>7, <1>8, <1>9, <1>10, <1>11, <1>12, <1>13 DEF Next

\* Core holds in every state.
LEMMA CoreInv == Spec => []Core
<1>1. Init => Core
  BY TimerAssumption, CoreInit
<1>2. Core /\ [Next]_vars => Core'
  BY TimerAssumption, CoreStep
<1> QED
  BY <1>1, <1>2, PTL DEF Spec

\* Timers and queues agree in every state, for any timers, services, lengths of
\* a tick and clocks: a timer with waits is in the heap of its service at the
\* time it is set to, and cancel and the destructor never miss one.
THEOREM WaitsAreCovered == Spec => []WaitsCovered
BY CoreInv, CoreCovers, PTL

-----------------------------------------------------------------------------
(* The reactor does not oversleep.                                         *)

\* Some timer in the set expires.
Pending(qs, K) == \E k \in K : Size(qs[k]) > 0

\* What NeverOversleeps says of a reactor that may sleep until a wait ends.
Rested(fd, at, ticks, kernel, signal, wait) ==
    IF fd THEN kernel # Never /\ kernel <= wait
          ELSE at = "wait" => signal \/ ticks < wait + Msec

\* How long it may sleep, if the clock was set a times.
Longest(a, wait) == IF a = 0 THEN wait ELSE Horizon

\* NeverOversleeps by its parts, in a state and in the next.
LEMMA OversleepsIs ==
    /\ NeverOversleeps <=>
          (~shutdown_ /\ Pending(queue, timer_queues_) =>
             Rested(timer_fd_, pc, timeout, armed, edge,
                    Longest(adjusted, WaitOver(queue, timer_queues_, now))))
    /\ NeverOversleeps' <=>
          (~shutdown_' /\ Pending(queue', timer_queues_') =>
             Rested(timer_fd_', pc', timeout', armed', edge',
                    Longest(adjusted', WaitOver(queue', timer_queues_', now'))))
BY Zenon DEF NeverOversleeps, Pending, Rested, WaitTicks, WaitOver, Longest

LEMMA LongestIs ==
    ASSUME TimerAssumption, NEW a, NEW w \in Nat, w <= Horizon
    PROVE  Longest(a, w) \in Nat /\ w <= Longest(a, w) /\ Longest(a, w) <= Horizon
BY DEF Longest, TimerAssumption

\* The types that the arithmetic needs.
LEMMA StateIs ==
    ASSUME TimerAssumption, Core
    PROVE  /\ queue \in [Queues -> Heaps(Timers)] /\ timer_queues_ \in SUBSET Queues
           /\ now \in Nat /\ adjusted \in Nat /\ armed \in Nat \cup {Never}
           /\ timeout \in Nat \cup {Never}
           /\ ~timer_fd_ /\ pc = "wait" => timeout \in Nat
           /\ WaitOver(queue, timer_queues_, now) \in Nat
           /\ WaitOver(queue, timer_queues_, now) <= Horizon
<1>1. /\ timer_queues_ \in SUBSET Queues /\ now \in Nat /\ adjusted \in Nat
      /\ armed \in Nat \cup {Never} /\ timeout \in Nat \cup {Never}
  BY DEF Core, TypeOK, Times, Ticks, TimerAssumption
<1>2. ~timer_fd_ /\ pc = "wait" => timeout \in Nat
  BY <1>1 DEF Core, SleepInv
<1>3. queue \in [Queues -> Heaps(Timers)]
  BY CoreIs
<1> QED
  BY <1>1, <1>2, <1>3, WaitOverIs

\* It goes on to hold when the wait gets longer.
LEMMA RestedLonger ==
    ASSUME NEW fd, NEW at, NEW ticks, NEW kernel \in Nat \cup {Never}, NEW signal,
           NEW v \in Nat, NEW w \in Nat, v <= w, Msec \in Nat,
           ~fd /\ at = "wait" => ticks \in Nat,
           Rested(fd, at, ticks, kernel, signal, v)
    PROVE  Rested(fd, at, ticks, kernel, signal, w)
<1>1. CASE fd
  BY <1>1 DEF Rested
<1>2. CASE ~fd /\ at = "wait" /\ ~signal
  BY <1>2 DEF Rested
<1>3. CASE ~fd /\ (at # "wait" \/ signal)
  BY <1>3, Zenon DEF Rested
<1> QED
  BY <1>1, <1>2, <1>3

\* The wait does not get shorter, and what ends it stays.
LEMMA RestKept ==
    ASSUME TimerAssumption, Core, NeverOversleeps,
           queue' \in [Queues -> Heaps(Timers)], timer_queues_' \in SUBSET Queues,
           UNCHANGED <<system, shutdown_, reactor>>,
           \A k \in timer_queues_' : \/ Size(queue'[k]) = 0
                                     \/ k \in timer_queues_ /\ NoSooner(queue'[k], queue[k])
    PROVE  NeverOversleeps'
<1>1. PICK x \in Nat : x = WaitOver(queue, timer_queues_, now)
  BY StateIs
<1>2. PICK y \in Nat : y = WaitOver(queue', timer_queues_', now) /\ y <= Horizon
  BY StateIs, WaitOverIs
<1>3. x <= y /\ (Pending(queue', timer_queues_') => Pending(queue, timer_queues_))
  BY <1>1, <1>2, StateIs, NoSoonerOver DEF Pending
<1>4. PICK v \in Nat : v = Longest(adjusted, x)
  BY <1>1, StateIs, LongestIs
<1>5. PICK w \in Nat : w = Longest(adjusted, y)
  BY <1>2, LongestIs
<1>6. v <= w
  BY <1>3, <1>4, <1>5, <1>1, StateIs DEF Longest
<1>7. /\ timer_fd_' = timer_fd_ /\ pc' = pc /\ timeout' = timeout /\ armed' = armed
      /\ edge' = edge /\ adjusted' = adjusted /\ shutdown_' = shutdown_ /\ now' = now
  BY DEF system, reactor
<1>8. SUFFICES ASSUME ~shutdown_', Pending(queue', timer_queues_')
               PROVE  Rested(timer_fd_', pc', timeout', armed', edge', w)
  BY <1>2, <1>5, <1>7, OversleepsIs, Zenon
<1>9. Rested(timer_fd_, pc, timeout, armed, edge, v)
  <2>1. ~shutdown_ /\ Pending(queue, timer_queues_)
    BY <1>3, <1>7, <1>8
  <2>2. v = Longest(adjusted, WaitOver(queue, timer_queues_, now))
    BY <1>1, <1>4
  <2> QED
    BY <2>1, <2>2, OversleepsIs, Zenon
<1>10. Rested(timer_fd_, pc, timeout, armed, edge, w)
  <2>1. Msec \in Nat
    BY DEF TimerAssumption
  <2> QED
    BY <1>6, <1>9, <2>1, StateIs, RestedLonger
<1> QED
  BY <1>7, <1>10, Zenon

\* So when timers only leave.
LEMMA LeavesRest ==
    ASSUME TimerAssumption, Core, NeverOversleeps, Leaves,
           UNCHANGED <<system, shutdown_, reactor, timer_queues_>>
    PROVE  NeverOversleeps'
<1>1. timer_queues_' = timer_queues_ /\ timer_queues_ \in SUBSET Queues
  BY StateIs
<1>2. /\ queue' \in [Queues -> Heaps(Timers)]
      /\ \A k \in Queues : NoSooner(queue'[k], queue[k])
  BY DEF Leaves, HeapsOk
<1> QED
  BY <1>1, <1>2, RestKept

\* Time goes on for the reactor's timeout as it does for the timers.
LEMMA TickRests == ASSUME TimerAssumption, Core, NeverOversleeps, Tick PROVE NeverOversleeps'
<1>1. PICK x \in Nat : x = WaitOver(queue, timer_queues_, now) /\ x <= Horizon
  BY StateIs
<1>2. /\ timer_fd_' = timer_fd_ /\ pc' = pc /\ edge' = edge /\ adjusted' = adjusted
      /\ shutdown_' = shutdown_ /\ queue' = queue /\ timer_queues_' = timer_queues_
      /\ timeout' = Less(timeout) /\ armed' = Less(armed)
  BY DEF Tick, waits
<1>3. now' = now \/ now' = now + 1
  BY DEF Tick
<1>4. PICK y \in Nat : y = WaitOver(queue, timer_queues_, now') /\ y <= Horizon
  BY <1>3, StateIs, WaitOverIs
<1>12. PICK v \in Nat : v = Longest(adjusted, x)
  BY <1>1, LongestIs
<1>13. PICK w \in Nat : w = Longest(adjusted, y)
  BY <1>4, LongestIs
<1>14. x <= y + 1
  <2>1. CASE now' = now
    BY <1>1, <1>4, <2>1
  <2>2. CASE now' = now + 1
    BY <1>1, <1>4, <2>2, StateIs, TickOver
  <2> QED
    BY <1>3, <2>1, <2>2
<1>5. v <= w + 1
  BY <1>12, <1>13, <1>14 DEF Longest
<1>6. SUFFICES ASSUME ~shutdown_', Pending(queue', timer_queues_')
               PROVE  Rested(timer_fd_', pc', timeout', armed', edge', w)
  BY <1>2, <1>4, <1>13, OversleepsIs, Zenon
<1>7. Rested(timer_fd_, pc, timeout, armed, edge, v)
  BY <1>1, <1>2, <1>6, <1>12, OversleepsIs, Zenon
<1>8. Msec \in Nat /\ Msec > 0
  BY DEF TimerAssumption
<1>9. CASE timer_fd_
  <2>1. armed \in Nat /\ armed <= v
    BY <1>7, <1>9, StateIs DEF Rested
  <2>2. Less(armed) \in Nat /\ Less(armed) <= w
    BY <1>5, <2>1, NeverAssumption DEF Less
  <2>3. Less(armed) # Never
    BY <2>2, NeverAssumption
  <2> QED
    BY <1>2, <1>9, <2>2, <2>3 DEF Rested
<1>10. CASE ~timer_fd_ /\ pc = "wait" /\ ~edge
  <2>1. timeout \in Nat /\ timeout < v + Msec
    BY <1>7, <1>10, StateIs DEF Rested
  <2>2. Less(timeout) < w + Msec
    BY <1>5, <1>8, <2>1, NeverAssumption DEF Less
  <2> QED
    BY <1>2, <1>10, <2>2 DEF Rested
<1>11. CASE ~timer_fd_ /\ (pc # "wait" \/ edge)
  BY <1>2, <1>11, Zenon DEF Rested
<1> QED
  BY <1>9, <1>10, <1>11

\* Every step: async_wait, which may make the wait shorter, wakes the reactor or
\* sets the timerfd, and the reactor measures before it sleeps.
LEMMA RestStep ==
    ASSUME TimerAssumption, Core, NeverOversleeps, [Next]_vars PROVE NeverOversleeps'
<1>1. ASSUME AdjustClock PROVE NeverOversleeps'
  <2>1. PICK x \in Nat : x = WaitOver(queue, timer_queues_, now) /\ x <= Horizon
    BY StateIs
  <2>2. PICK v \in Nat : v = Longest(adjusted, x) /\ v <= Horizon
    BY <2>1, LongestIs
  <2>3. /\ timer_fd_' = timer_fd_ /\ edge' = edge /\ armed' = armed /\ timeout' = timeout
        /\ shutdown_' = shutdown_ /\ queue' = queue /\ timer_queues_' = timer_queues_
        /\ pc' = pc /\ adjusted' # 0
    BY <1>1, StateIs DEF AdjustClock, waits, reactor
  <2>4. Horizon \in Nat /\ Msec \in Nat
    BY DEF TimerAssumption
  <2>5. Longest(adjusted', WaitOver(queue', timer_queues_', now')) = Horizon
    BY <2>3 DEF Longest
  <2>6. SUFFICES ASSUME ~shutdown_', Pending(queue', timer_queues_')
                 PROVE  Rested(timer_fd_', pc', timeout', armed', edge', Horizon)
    BY <2>5, OversleepsIs, Zenon
  <2>7. Rested(timer_fd_, pc, timeout, armed, edge, v)
    BY <2>1, <2>2, <2>3, <2>6, OversleepsIs, Zenon
  <2>8. Rested(timer_fd_, pc, timeout, armed, edge, Horizon)
    BY <2>2, <2>4, <2>7, StateIs, RestedLonger
  <2> QED
    BY <2>3, <2>8, Zenon
<1>2. ASSUME Shutdown PROVE NeverOversleeps'
  <2>1. shutdown_'
    BY <1>2 DEF Shutdown
  <2> QED
    BY <2>1, OversleepsIs, Zenon
<1>3. ASSUME NEW block \in BOOLEAN, RunBegin(block) PROVE NeverOversleeps'
  <2>0. PICK x \in Nat : x = WaitOver(queue, timer_queues_, now) /\ x <= Horizon
    BY StateIs
  <2>1. PICK w \in Nat : w = Longest(adjusted, x) /\ x <= w
    BY <2>0, LongestIs
  <2>2. /\ timer_fd_' = timer_fd_ /\ edge' = edge /\ armed' = armed /\ adjusted' = adjusted
        /\ shutdown_' = shutdown_ /\ queue' = queue /\ timer_queues_' = timer_queues_
        /\ now' = now
    BY <1>3 DEF RunBegin, system, waits
  <2>3. SUFFICES ASSUME ~shutdown_', Pending(queue', timer_queues_')
                 PROVE  Rested(timer_fd_', pc', timeout', armed', edge', w)
    BY <2>0, <2>1, <2>2, OversleepsIs, Zenon
  <2>4. Rested(timer_fd_, pc, timeout, armed, edge, w)
    BY <2>0, <2>1, <2>2, <2>3, OversleepsIs, Zenon
  <2>5. CASE timer_fd_
    BY <2>2, <2>4, <2>5 DEF Rested
  <2>6. CASE ~timer_fd_
    <3>1. Msec \in Nat /\ Msec > 0
      BY DEF TimerAssumption
    <3>2. WaitTicks(queue) = x
      BY <2>0, WaitTicksIs
    <3>3. timeout' = 0 \/ timeout' = MsecTimeout(x)
      BY <1>3, <2>6, <3>2 DEF RunBegin
    <3>4. MsecTimeout(x) \in Nat /\ MsecTimeout(x) < x + Msec
      BY <3>1, MsecTimeoutIs
    <3>5. timeout' < w + Msec
      BY <2>1, <3>1, <3>3, <3>4
    <3> QED
      BY <2>2, <2>6, <3>5 DEF Rested
  <2> QED
    BY <2>5, <2>6
<1>4. ASSUME EpollReturn \/ EpollOther PROVE NeverOversleeps'
  <2>1. /\ timer_fd_' = timer_fd_ /\ armed' = armed /\ adjusted' = adjusted
        /\ shutdown_' = shutdown_ /\ queue' = queue /\ timer_queues_' = timer_queues_
        /\ now' = now /\ pc' # "wait"
    BY <1>4 DEF EpollReturn, EpollOther, system, waits
  <2> QED
    BY <2>1, OversleepsIs DEF Rested
<1>5. ASSUME CheckTimers PROVE NeverOversleeps'
  <2>1. Leaves /\ (timer_fd_ => armed' = WaitOver(queue', timer_queues_, now))
    BY <1>5, CheckTimersIs
  <2>2. /\ timer_fd_' = timer_fd_ /\ timer_queues_' = timer_queues_ /\ now' = now
        /\ pc' = "out"
    BY <1>5 DEF CheckTimers, system
  <2>3. PICK x \in Nat : x = WaitOver(queue', timer_queues_, now) /\ x <= Horizon
    <3>1. queue' \in [Queues -> Heaps(Timers)]
      BY <2>1 DEF Leaves, HeapsOk
    <3> QED
      BY <3>1, StateIs, WaitOverIs
  <2>4. x # Never
    BY <2>3, NeverAssumption
  <2>6. PICK w \in Nat : w = Longest(adjusted', x) /\ x <= w
    BY <2>3, LongestIs
  <2>5. Rested(timer_fd_', pc', timeout', armed', edge', w)
    BY <2>1, <2>2, <2>3, <2>4, <2>6 DEF Rested
  <2> QED
    BY <2>2, <2>3, <2>5, <2>6, OversleepsIs, Zenon
<1>6. ASSUME NEW h \in Queues, AddTimerQueue(h) \/ RemoveTimerQueue(h) PROVE NeverOversleeps'
  <2>1. /\ queue' = queue /\ timer_queues_' \in SUBSET Queues
        /\ timer_queues_' \subseteq timer_queues_ \cup {h}
    BY <1>6, StateIs DEF AddTimerQueue, RemoveTimerQueue, waits
  <2>2. ASSUME NEW k \in timer_queues_'
        PROVE  Size(queue[k]) = 0 \/ (k \in timer_queues_ /\ NoSooner(queue[k], queue[k]))
    <3>1. k \in Queues /\ queue[k] \in Heaps(Timers)
      BY <2>1, StateIs
    <3>2. CASE k \in timer_queues_
      BY <3>1, <3>2, NoSoonerSelf
    <3>3. CASE k \notin timer_queues_
      <4>1. queue[k].timers_ = {}
        BY <3>1, <3>3, CoreIs DEF HeapsOk
      <4> QED
        BY <3>1, <4>1, FirstDue
    <3> QED
      BY <3>2, <3>3
  <2>3. UNCHANGED <<system, shutdown_, reactor>>
    BY <1>6 DEF AddTimerQueue, RemoveTimerQueue
  <2> QED
    BY <2>1, <2>2, <2>3, StateIs, RestKept
<1>7. ASSUME NEW t \in Timers,
             \/ Cancel(t) \/ CancelOne(t) \/ Destroy(t)
             \/ \E time \in Expiries \cup {Never} : ExpiresAt(t, time)
      PROVE  NeverOversleeps'
  <2>1. Leaves
    BY <1>7, CancelAllIs, CancelTimerIs DEF Cancel, CancelOne, Destroy, ExpiresAt
  <2>2. UNCHANGED <<system, shutdown_, reactor, timer_queues_>>
    BY <1>7 DEF Cancel, CancelOne, Destroy, ExpiresAt
  <2> QED
    BY <2>1, <2>2, LeavesRest
<1>8. ASSUME NEW t \in Timers, NEW o \in Ops, AsyncWait(t, o) PROVE NeverOversleeps'
  <2>1. /\ timer_fd_' = timer_fd_ /\ timer_queues_' = timer_queues_ /\ now' = now
        /\ pc' = pc /\ adjusted' = adjusted /\ shutdown_' = shutdown_ /\ timeout' = timeout
    BY <1>8 DEF AsyncWait, system
  <2>2. CASE shutdown_
    BY <2>1, <2>2, OversleepsIs, Zenon
  <2>3. CASE ~shutdown_
    <3>1. AsyncWaited(t)
      BY <1>8, <2>3, AsyncWaitIs
    <3>2. queue' \in [Queues -> Heaps(Timers)]
      BY <3>1 DEF AsyncWaited, HeapsOk
    <3>3. CASE IF timer_fd_ THEN armed' = WaitOver(queue', timer_queues_, now) ELSE edge'
      <4>1. PICK x \in Nat : x = WaitOver(queue', timer_queues_, now) /\ x <= Horizon
        BY <3>2, StateIs, WaitOverIs
      <4>2. x # Never
        BY <4>1, NeverAssumption
      <4>3. PICK w \in Nat : w = Longest(adjusted', x) /\ x <= w
        BY <4>1, LongestIs
      <4>4. Rested(timer_fd_', pc', timeout', armed', edge', w)
        BY <2>1, <3>3, <4>1, <4>2, <4>3 DEF Rested
      <4> QED
        BY <2>1, <4>1, <4>3, <4>4, OversleepsIs, Zenon
    <3>4. CASE /\ armed' = armed /\ edge' = edge
               /\ \A k \in Queues : NoSooner(queue'[k], queue[k])
      <4>1. UNCHANGED <<system, shutdown_, reactor>>
        BY <1>8, <2>1, <3>4 DEF AsyncWait, reactor
      <4> QED
        BY <2>1, <3>2, <3>4, <4>1, StateIs, RestKept
    <3> QED
      BY <3>1, <3>3, <3>4 DEF AsyncWaited
  <2> QED
    BY <2>2, <2>3
<1>9. ASSUME UNCHANGED vars PROVE NeverOversleeps'
  <2>1. Leaves
    BY <1>9, StayLeaves DEF vars
  <2> QED
    BY <1>9, <2>1, LeavesRest DEF vars
<1> QED
  BY <1>1, <1>2, <1>3, <1>4, <1>5, <1>6, <1>7, <1>8, <1>9, TickRests DEF Next

\* However async_wait, cancel and expires_at race the reactor, it does not sleep
\* past the first timer, nor past the five minutes if the clock is set.
THEOREM ReactorNeverOversleeps == Spec => []NeverOversleeps
<1>1. Init => Core /\ NeverOversleeps
  <2>1. ASSUME Init PROVE ~Pending(queue, timer_queues_)
    BY <2>1 DEF Init, Pending
  <2> QED
    BY <2>1, TimerAssumption, CoreInit, OversleepsIs, Zenon
<1>2. (Core /\ NeverOversleeps) /\ [Next]_vars => (Core /\ NeverOversleeps)'
  BY TimerAssumption, CoreStep, RestStep
<1> QED
  BY <1>1, <1>2, PTL DEF Spec

-----------------------------------------------------------------------------
(* What a step may never do.                                               *)

\* Only the reactor completes waits, and an operation is in one timer's queue.
LEMMA EarlyStep ==
    ASSUME TimerAssumption, Core, Next, NEW t \in Timers, NEW o \in ToSet(op_queue_[t]),
           result'[o] = "ok"
    PROVE  expiry[t] \in 0..now
<1>1. o \in Ops /\ result[o] = "waiting"
  BY CoreIs
<1>2. ~(result' = result) /\ ~NoneDone
  BY <1>1 DEF NoneDone
<1>3. CASE CheckTimers
  BY <1>3, CheckTimersIs
<1>4. CASE Shutdown
  BY <1>2, <1>4, ShutdownIs
<1>5. ASSUME NEW u \in Timers, Cancel(u) \/ Destroy(u) \/
                               \E time \in Expiries \cup {Never} : ExpiresAt(u, time)
      PROVE  FALSE
  BY <1>2, <1>5, CancelAllIs DEF Cancel, Destroy, ExpiresAt
<1>6. ASSUME NEW u \in Timers, CancelOne(u) PROVE FALSE
  BY <1>2, <1>6, CancelTimerIs DEF CancelOne
<1>7. ASSUME NEW u \in Timers, NEW p \in Ops, AsyncWait(u, p) PROVE FALSE
  <2>1. CASE shutdown_
    BY <1>1, <1>7, <2>1, CoreIs DEF AsyncWait
  <2>2. CASE ~shutdown_
    BY <1>2, <1>7, <2>2, AsyncWaitIs DEF AsyncWaited
  <2> QED
    BY <2>1, <2>2
<1>8. CASE \/ Tick \/ AdjustClock \/ EpollReturn \/ EpollOther
           \/ \E block \in BOOLEAN : RunBegin(block)
           \/ \E k \in Queues : AddTimerQueue(k) \/ RemoveTimerQueue(k)
  <2>1. result' = result
    BY <1>8 DEF Tick, AdjustClock, EpollReturn, EpollOther, RunBegin, AddTimerQueue,
                RemoveTimerQueue, waits
  <2> QED
    BY <1>2, <2>1
<1> QED
  BY <1>3, <1>4, <1>5, <1>6, <1>7, <1>8 DEF Next

\* No wait completes before the time its timer is set to, whatever queue or timer
\* it was in and however often the timer was set.
THEOREM WaitsAreNeverEarly == Spec => NeverEarly
<1>1. Core /\ [Next]_vars =>
         [\A t \in Timers : \A o \in ToSet(op_queue_[t]) :
             result'[o] = "ok" => expiry[t] \in 0..now]_vars
  BY TimerAssumption, EarlyStep
<1> QED
  BY <1>1, CoreInv, PTL DEF Spec, NeverEarly

\* Rounding to milliseconds gives no timeout only if the first timer is due.
LEMMA BusyStep ==
    ASSUME TimerAssumption, Core, RunBegin(TRUE), timeout' = 0
    PROVE  \E t \in Timers : t \in queue[Home[t]].timers_ /\ expiry[t] \in 0..now
<1>1. PICK w \in Nat : w = WaitOver(queue, timer_queues_, now)
  BY StateIs
<1>2. w = 0
  <2>1. Never # 0
    BY NeverAssumption
  <2>2. MsecTimeout(w) = 0
    BY <1>1, <2>1, WaitTicksIs DEF RunBegin
  <2> QED
    BY <2>2, MsecTimeoutIs
<1>3. Horizon \in Nat /\ Horizon # 0
  BY DEF TimerAssumption
<1>4. PICK k \in timer_queues_ : WaitDuration(queue[k], now, Horizon) = 0
  <2>1. \/ w = Horizon
        \/ \E k \in timer_queues_ : w = WaitDuration(queue[k], now, Horizon)
    BY <1>1, StateIs, WaitOverIs
  <2> QED
    BY <1>2, <1>3, <2>1
<1>5. k \in Queues /\ queue[k] \in Heaps(Timers) /\ now \in Nat
  BY StateIs
<1>6. Size(queue[k]) > 0 /\ At(queue[k], 0).time_ <= now
  BY <1>3, <1>4, <1>5, WaitDurationIs
<1>7. PICK t \in queue[k].timers_ : /\ DueOf(queue[k])[t] = At(queue[k], 0).time_
                                    /\ At(queue[k], 0).time_ \in Nat
  BY <1>5, <1>6, FirstDue
<1>8. t \in Timers /\ Home[t] = k /\ DueOf(queue[k])[t] = expiry[t]
  BY <1>5, CoreIs, IndexedIs DEF HeapsOk, Heaps
<1>9. expiry[t] \in 0..now
  BY <1>5, <1>6, <1>7, <1>8
<1> QED
  BY <1>8, <1>9

\* A reactor that may block does not poll unless a timer is due.
THEOREM ReactorIsNotBusy == Spec => NoBusyWait
<1>1. Core /\ [Next]_vars =>
         [RunBegin(TRUE) /\ timeout' = 0 =>
             \E t \in Timers : t \in queue[Home[t]].timers_ /\ expiry[t] \in 0..now]_vars
  BY TimerAssumption, BusyStep
<1> QED
  BY <1>1, CoreInv, PTL DEF Spec, NoBusyWait
=============================================================================
