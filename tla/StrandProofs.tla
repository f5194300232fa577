----------------------------- MODULE StrandProofs -----------------------------
(***************************************************************************)
(* Strands call no two handlers of an implementation at once, count them   *)
(* exactly and keep one token per implementation that has any, for any     *)
(* sets of threads, strand objects, implementations and handlers.          *)
(*                                                                         *)
(* The argument is the token's: whoever is calling a handler of an         *)
(* implementation holds its token, and there is only one.  It follows that *)
(* each implementation is a serial executor and that handlers are called   *)
(* in the order of strand.hpp by strand objects that share with nobody.    *)
(***************************************************************************)
EXTENDS Strand, SequenceTheorems, TLAPS

\* Frame k of thread t holds the token of i.
Up(i, t, k) ==
    k \in DOMAIN stack[t] /\ stack[t][k].impl = i /\ stack[t][k].how # "inline"

\* A handler counted by i, and no longer in its queue, is being called.
Busy(i) ==
    \E t \in Threads : \E k \in DOMAIN stack[t] :
        Up(i, t, k) /\ stack[t][k].op # NoHandler

\* The token of i is at place <<w, t, k>>.
At(i, w, t, k) ==
    \/ w = "posted" /\ t = NoThread /\ k \in DOMAIN posted /\ posted[k] = i
    \/ w = "todo" /\ t \in Threads /\ k = 0 /\ todo[t] = i
    \/ w = "called" /\ t \in Threads /\ Up(i, t, k)

Single(i) ==
    \A w, t, k, x, u, l : At(i, w, t, k) /\ At(i, x, u, l) => w = x /\ t = u /\ k = l
Some(i) == \E w, t, k : At(i, w, t, k)

HasOne(i) == Single(i) /\ (Some(i) <=> count_[i] # 0)
TokenInv == \A i \in Impls : HasOne(i)

CountIs(i) == count_[i] = Len(queue_[i]) + (IF Busy(i) THEN 1 ELSE 0)
CountInv == \A i \in Impls : CountIs(i)

\* dispatch calls a handler inline below a frame that holds the token.
NestInv ==
    \A t \in Threads : \A k \in DOMAIN stack[t] :
        stack[t][k].how = "inline" =>
            \E l \in DOMAIN stack[t] : /\ l < k /\ stack[t][l].how # "inline"
                                       /\ stack[t][l].impl = stack[t][k].impl

\* Nobody is inside when the service has been shut down.
ShutInv == shutdown_ => \A t \in Threads : stack[t] = <<>> /\ todo[t] = NoImpl

IInv ==
    /\ TypeOK
    /\ NestInv
    /\ ShutInv
    /\ ~shutdown_ => TokenInv /\ CountInv

-----------------------------------------------------------------------------
(* The stack of calls.                                                     *)

\* All but the last element.
LEMMA FrontElements ==
    ASSUME NEW T, NEW s \in Seq(T), s # <<>>
    PROVE  /\ Front(s) \in Seq(T)
           /\ DOMAIN Front(s) = DOMAIN s \ {Len(s)}
           /\ Len(Front(s)) = Len(s) - 1
           /\ \A k \in DOMAIN Front(s) : Front(s)[k] = s[k]
           /\ Len(s) \in DOMAIN s /\ Last(s) = s[Len(s)]
<1>1. Len(s) \in Nat /\ Len(s) >= 1
    OBVIOUS
<1>2. Front(s) \in Seq(T)
    BY <1>1 DEF Front
<1>3. DOMAIN Front(s) = 1..(Len(s) - 1)
    BY <1>1 DEF Front
<1>4. \A k \in 1..(Len(s) - 1) : Front(s)[k] = s[k]
    BY <1>1 DEF Front
<1>5. 1..(Len(s) - 1) = DOMAIN s \ {Len(s)}
  <2>1. DOMAIN s = 1..Len(s)
      OBVIOUS
  <2> QED
      BY <1>1, <2>1
<1>6. Len(s) \in DOMAIN s /\ Last(s) = s[Len(s)]
    BY <1>1 DEF Last
<1>7. Len(Front(s)) = Len(s) - 1
    BY <1>1, <1>2, <1>3, LenProperties
<1> QED
    BY <1>2, <1>3, <1>4, <1>5, <1>6, <1>7

\* A frame is put on the stack of t.
LEMMA PushFrames ==
    ASSUME TypeOK, NEW t \in Threads, NEW f \in Frames, Push(t, f)
    PROVE  /\ stack' \in [Threads -> Seq(Frames)]
           /\ \A u \in Threads : u # t => stack'[u] = stack[u]
           /\ DOMAIN stack'[t] = DOMAIN stack[t] \cup {Len(stack[t]) + 1}
           /\ Len(stack[t]) + 1 \notin DOMAIN stack[t]
           /\ stack'[t][Len(stack[t]) + 1] = f
           /\ \A k \in DOMAIN stack[t] : k < Len(stack[t]) + 1
                                         /\ stack'[t][k] = stack[t][k]
<1>1. stack[t] \in Seq(Frames) /\ stack'[t] = Append(stack[t], f)
    BY DEF TypeOK, Push
<1>2. stack' \in [Threads -> Seq(Frames)]
    BY <1>1 DEF TypeOK, Push
<1>3. \A u \in Threads : u # t => stack'[u] = stack[u]
    BY DEF TypeOK, Push
<1> DEFINE s == stack[t]
<1>4. /\ DOMAIN Append(s, f) = DOMAIN s \cup {Len(s) + 1}
      /\ Len(s) + 1 \notin DOMAIN s
      /\ Append(s, f)[Len(s) + 1] = f
      /\ \A k \in DOMAIN s : k < Len(s) + 1 /\ Append(s, f)[k] = s[k]
  <2> HIDE DEF s
  <2>1. s \in Seq(Frames)
      BY <1>1 DEF s
  <2>2. Len(s) \in Nat /\ DOMAIN s = 1..Len(s)
      BY <2>1
  <2>3. DOMAIN Append(s, f) = 1..(Len(s) + 1)
      BY <2>1
  <2>4. 1..(Len(s) + 1) = DOMAIN s \cup {Len(s) + 1}
      BY <2>2
  <2>5. Append(s, f)[Len(s) + 1] = f /\ \A k \in DOMAIN s : Append(s, f)[k] = s[k]
      BY <2>1, <2>2
  <2> QED
      BY <2>2, <2>3, <2>4, <2>5
<1> QED
    BY <1>1, <1>2, <1>3, <1>4

\* The last frame is taken off.
LEMMA PopFrames ==
    ASSUME TypeOK, NEW t \in Threads, stack[t] # <<>>, Pop(t)
    PROVE  /\ stack' \in [Threads -> Seq(Frames)]
           /\ \A u \in Threads : u # t => stack'[u] = stack[u]
           /\ DOMAIN stack'[t] = DOMAIN stack[t] \ {Len(stack[t])}
           /\ Len(stack[t]) \in DOMAIN stack[t]
           /\ Last(stack[t]) = stack[t][Len(stack[t])]
           /\ \A k \in DOMAIN stack'[t] : stack'[t][k] = stack[t][k]
<1>1. stack[t] \in Seq(Frames) /\ stack'[t] = Front(stack[t])
    BY DEF TypeOK, Pop
<1>2. Front(stack[t]) \in Seq(Frames)
    BY <1>1, FrontElements
<1>3. stack' \in [Threads -> Seq(Frames)]
    BY <1>1, <1>2 DEF TypeOK, Pop
<1>4. \A u \in Threads : u # t => stack'[u] = stack[u]
    BY DEF TypeOK, Pop
<1>5. /\ DOMAIN Front(stack[t]) = DOMAIN stack[t] \ {Len(stack[t])}
      /\ \A k \in DOMAIN Front(stack[t]) : Front(stack[t])[k] = stack[t][k]
      /\ Len(stack[t]) \in DOMAIN stack[t]
      /\ Last(stack[t]) = stack[t][Len(stack[t])]
    BY <1>1, FrontElements
<1> QED
    BY <1>1, <1>3, <1>4, <1>5

\* The last frame is replaced.
LEMMA ReplaceFrames ==
    ASSUME TypeOK, NEW t \in Threads, stack[t] # <<>>, NEW f \in Frames,
           stack' = [stack EXCEPT ![t] = Append(Front(@), f)]
    PROVE  /\ stack' \in [Threads -> Seq(Frames)]
           /\ \A u \in Threads : u # t => stack'[u] = stack[u]
           /\ DOMAIN stack'[t] = DOMAIN stack[t]
           /\ Len(stack[t]) \in DOMAIN stack[t]
           /\ Last(stack[t]) = stack[t][Len(stack[t])]
           /\ stack'[t][Len(stack[t])] = f
           /\ \A k \in DOMAIN stack[t] \ {Len(stack[t])} : stack'[t][k] = stack[t][k]
<1> DEFINE s == stack[t]
           r == Front(s)
<1>1. s \in Seq(Frames) /\ s # <<>> /\ stack'[t] = Append(r, f)
    BY DEF TypeOK
<1>2. /\ r \in Seq(Frames) /\ DOMAIN r = DOMAIN s \ {Len(s)}
      /\ Len(r) = Len(s) - 1
      /\ \A k \in DOMAIN r : r[k] = s[k]
      /\ Len(s) \in DOMAIN s /\ Last(s) = s[Len(s)]
    BY <1>1, FrontElements
<1>3. stack' \in [Threads -> Seq(Frames)]
  <2>1. Append(r, f) \in Seq(Frames)
      BY <1>2
  <2> QED
      BY <2>1 DEF TypeOK
<1>4. \A u \in Threads : u # t => stack'[u] = stack[u]
    BY DEF TypeOK
<1>5. /\ DOMAIN Append(r, f) = DOMAIN s
      /\ Append(r, f)[Len(s)] = f
      /\ \A k \in DOMAIN s \ {Len(s)} : Append(r, f)[k] = s[k]
  <2> HIDE DEF r, s
  <2> QED
      BY <1>1, <1>2
<1> QED
    BY <1>1, <1>2, <1>3, <1>4, <1>5

\* The innermost frame.
LEMMA TopFrame ==
    ASSUME TypeOK, NEW t \in Threads, stack[t] # <<>>
    PROVE  /\ Len(stack[t]) \in DOMAIN stack[t]
           /\ Last(stack[t]) = stack[t][Len(stack[t])]
           /\ Last(stack[t]) \in Frames
<1>1. stack[t] \in Seq(Frames)
    BY DEF TypeOK
<1>2. Len(stack[t]) \in DOMAIN stack[t] /\ Last(stack[t]) = stack[t][Len(stack[t])]
    BY <1>1, FrontElements
<1> QED
    BY <1>1, <1>2

\* What a frame that calls a handler of an implementation looks like.
LEMMA FrameFacts ==
    ASSUME NEW f \in Frames
    PROVE  /\ f.how \in {"complete", "dispatch", "inline"} => f.impl \in Impls
           /\ f.how = "plain" => f.impl = NoImpl
           /\ f.how \in {"dispatch", "inline"} => f.op \in Handlers /\ f.op # NoHandler
           /\ f.how \in {"plain", "complete", "dispatch", "inline"}
    BY StrandAssumption DEF Frames

\* Frames made by the actions.
LEMMA FramesMade ==
    /\ Frame("plain", NoImpl, NoImpl, NoImpl) \in Frames
    /\ \A i \in Impls : Frame("complete", i, NoHandler, NoHandler) \in Frames
    /\ \A i \in Impls, h \in Handlers, s \in Strands, how \in {"complete", "dispatch", "inline"} :
          Frame(how, i, h, s) \in Frames
    BY DEF Frames, Frame

-----------------------------------------------------------------------------
(* What the invariant says of a thread that holds a token.                 *)

\* The implementation of an upcall has handlers, and no other upcall.
LEMMA OnlyUpcall ==
    ASSUME TypeOK, TokenInv, NEW i \in Impls, NEW t \in Threads, NEW k, Up(i, t, k)
    PROVE  /\ count_[i] # 0
           /\ \A w, u, l : At(i, w, u, l) => w = "called" /\ u = t /\ l = k
           /\ \A u \in Threads : \A l : Up(i, u, l) => u = t /\ l = k
<1>1. At(i, "called", t, k)
    BY DEF At
<1>2. Some(i) /\ Single(i) /\ count_[i] # 0
    BY <1>1 DEF TokenInv, HasOne, Some
<1>3. ASSUME NEW w, NEW u, NEW l, At(i, w, u, l) PROVE w = "called" /\ u = t /\ l = k
    BY <1>1, <1>2, <1>3 DEF Single
<1>4. ASSUME NEW u \in Threads, NEW l, Up(i, u, l) PROVE u = t /\ l = k
  <2>1. At(i, "called", u, l)
      BY <1>4 DEF At
  <2> QED
      BY <2>1, <1>3
<1> QED
    BY <1>2, <1>3, <1>4

LEMMA HeadOfQueue ==
    ASSUME NEW T, NEW q \in Seq(T), Len(q) # 0
    PROVE  q # <<>> /\ Head(q) \in T /\ Tail(q) \in Seq(T) /\ Len(q) = Len(Tail(q)) + 1
    OBVIOUS

\* do_complete finds a handler in the queue.
LEMMA HandlerWaits ==
    ASSUME IInv, NEW t \in Threads, InPool(t),
           Last(stack[t]).how = "complete", Last(stack[t]).op = NoHandler
    PROVE  LET i == Last(stack[t]).impl IN
           /\ i \in Impls /\ queue_[i] # <<>> /\ ~Busy(i) /\ ~shutdown_
           /\ Up(i, t, Len(stack[t]))
           /\ queue_[i] \in Seq([op : Handlers, strand : Strands])
           /\ Head(queue_[i]) \in [op : Handlers, strand : Strands]
<1> DEFINE i == Last(stack[t]).impl
<1>1. TypeOK /\ stack[t] # <<>> /\ ~shutdown_ /\ TokenInv /\ CountInv
    BY DEF IInv, InPool, ShutInv
<1>2. /\ Len(stack[t]) \in DOMAIN stack[t]
      /\ Last(stack[t]) = stack[t][Len(stack[t])] /\ Last(stack[t]) \in Frames
    BY <1>1, TopFrame
<1>3. i \in Impls
    BY <1>2, FrameFacts
<1>4. Up(i, t, Len(stack[t]))
    BY <1>2 DEF Up
<1> HIDE DEF i
<1>5. count_[i] # 0 /\ \A u \in Threads : \A l : Up(i, u, l) => u = t /\ l = Len(stack[t])
    BY <1>1, <1>3, <1>4, OnlyUpcall
<1>6. ~Busy(i)
    BY <1>2, <1>5 DEF Busy
<1>7. queue_[i] \in Seq([op : Handlers, strand : Strands]) /\ count_[i] \in Nat
    BY <1>1, <1>3 DEF TypeOK
<1>8. Len(queue_[i]) # 0
  <2>1. count_[i] = Len(queue_[i]) + 0
      BY <1>1, <1>3, <1>6 DEF CountInv, CountIs
  <2> QED
      BY <2>1, <1>5, <1>7
<1>9. queue_[i] # <<>> /\ Head(queue_[i]) \in [op : Handlers, strand : Strands]
    BY <1>7, <1>8, HeadOfQueue
<1> QED
    BY <1>1, <1>3, <1>4, <1>6, <1>7, <1>9 DEF i

\* A handler that returns to do_complete or dispatch was counted.
LEMMA HandlerCounted ==
    ASSUME IInv, NEW t \in Threads, Running(t), InPool(t),
           Last(stack[t]).how \in {"complete", "dispatch"}
    PROVE  LET i == Last(stack[t]).impl IN
           /\ i \in Impls /\ count_[i] # 0 /\ Busy(i)
           /\ ~shutdown_ /\ todo[t] = NoImpl /\ stack[t] # <<>>
           /\ Up(i, t, Len(stack[t]))
           /\ \A u \in Threads : \A l : Up(i, u, l) => u = t /\ l = Len(stack[t])
<1> DEFINE i == Last(stack[t]).impl
<1>1. TypeOK /\ stack[t] # <<>> /\ ~shutdown_ /\ TokenInv /\ todo[t] = NoImpl
    BY DEF IInv, InPool, Running
<1>2. /\ Len(stack[t]) \in DOMAIN stack[t]
      /\ Last(stack[t]) = stack[t][Len(stack[t])] /\ Last(stack[t]) \in Frames
    BY <1>1, TopFrame
<1>3. i \in Impls
    BY <1>2, FrameFacts
<1>4. Up(i, t, Len(stack[t]))
    BY <1>2 DEF Up
<1>5. Busy(i)
    BY <1>2, <1>4 DEF Busy, Running, InPool
<1> HIDE DEF i
<1>6. count_[i] # 0 /\ \A u \in Threads : \A l : Up(i, u, l) => u = t /\ l = Len(stack[t])
    BY <1>1, <1>3, <1>4, OnlyUpcall
<1> QED
    BY <1>1, <1>3, <1>4, <1>5, <1>6 DEF i

\* Who may give a handler.
LEMMA GiverFacts ==
    ASSUME TypeOK, NEW t \in Threads, NEW s \in Strands, NEW h, MayGive(t, s, h)
    PROVE  impl_[s] \in Impls /\ ~shutdown_ /\ todo[t] = NoImpl
    BY DEF TypeOK, MayGive, Running

\* The queue and the count after a handler has been added.
LEMMA EnqueueFacts ==
    ASSUME TypeOK, NEW t \in Threads, NEW s \in Strands, NEW h \in Handlers,
           MayGive(t, s, h), Enqueue(t, s, h)
    PROVE  LET i == impl_[s] IN
           /\ count_' = [count_ EXCEPT ![i] = @ + 1]
           /\ count_' \in [Impls -> Nat]
           /\ queue_' = [queue_ EXCEPT ![i] = Append(@, [op |-> h, strand |-> s])]
           /\ queue_' \in [Impls -> Seq([op : Handlers, strand : Strands])]
           /\ Len(queue_'[i]) = Len(queue_[i]) + 1
           /\ count_'[i] = count_[i] + 1 /\ count_[i] \in Nat
           /\ \A j \in Impls : j # i => queue_'[j] = queue_[j] /\ count_'[j] = count_[j]
           /\ todo' \in [Threads -> Impls \cup {NoImpl}]
           /\ \A u \in Threads : u # t => todo'[u] = todo[u]
           /\ todo'[t] = IF count_[i] = 0 THEN i ELSE NoImpl
<1> DEFINE i == impl_[s]
           e == [op |-> h, strand |-> s]
<1>1. i \in Impls
    BY GiverFacts
<1>2. e \in [op : Handlers, strand : Strands]
    OBVIOUS
<1>3. /\ count_' = [count_ EXCEPT ![i] = @ + 1]
      /\ queue_' = [queue_ EXCEPT ![i] = Append(@, e)]
      /\ todo' = [todo EXCEPT ![t] = IF count_[i] = 0 THEN i ELSE NoImpl]
    BY DEF Enqueue
<1> HIDE DEF i, e
<1>4. /\ count_ \in [Impls -> Nat] /\ todo \in [Threads -> Impls \cup {NoImpl}]
      /\ queue_ \in [Impls -> Seq([op : Handlers, strand : Strands])]
    BY DEF TypeOK
<1>5. queue_[i] \in Seq([op : Handlers, strand : Strands])
    BY <1>1, <1>4
<1>6. /\ Append(queue_[i], e) \in Seq([op : Handlers, strand : Strands])
      /\ Len(Append(queue_[i], e)) = Len(queue_[i]) + 1
    BY <1>2, <1>5
<1>7. queue_'[i] = Append(queue_[i], e)
    BY <1>1, <1>3, <1>4
<1>8. queue_' \in [Impls -> Seq([op : Handlers, strand : Strands])]
    BY <1>1, <1>3, <1>4, <1>6
<1>9. count_' \in [Impls -> Nat] /\ todo' \in [Threads -> Impls \cup {NoImpl}]
    BY <1>1, <1>3, <1>4
<1>10. /\ \A j \in Impls : j # i => queue_'[j] = queue_[j] /\ count_'[j] = count_[j]
       /\ \A u \in Threads : u # t => todo'[u] = todo[u]
       /\ todo'[t] = IF count_[i] = 0 THEN i ELSE NoImpl
       /\ count_'[i] = count_[i] + 1 /\ count_[i] \in Nat
    BY <1>1, <1>3, <1>4
<1> QED
    BY <1>3, <1>6, <1>7, <1>8, <1>9, <1>10 DEF i, e

\* The frame of do_complete once it has taken a handler.
LEMMA CompletedFrame ==
    ASSUME IInv, NEW t \in Threads, DoComplete(t)
    PROVE  LET i == Last(stack[t]).impl
               next == Head(queue_[i])
               f == Frame("complete", i, next.op, next.strand)
           IN  /\ stack[t] # <<>> /\ stack' = [stack EXCEPT ![t] = Append(Front(@), f)]
               /\ f \in Frames /\ f.impl = Last(stack[t]).impl
               /\ f.how = Last(stack[t]).how /\ f.how # "inline" /\ f.op # NoHandler
<1> DEFINE i == Last(stack[t]).impl
           next == Head(queue_[i])
           f == Frame("complete", i, next.op, next.strand)
<1>1. i \in Impls /\ next \in [op : Handlers, strand : Strands]
    BY HandlerWaits DEF DoComplete
<1>2. /\ stack[t] # <<>> /\ stack' = [stack EXCEPT ![t] = Append(Front(@), f)]
      /\ Last(stack[t]).how = "complete"
    BY DEF DoComplete, InPool
<1>3. f \in Frames /\ f.impl = i /\ f.how = "complete" /\ f.op = next.op
  <2> HIDE DEF i, next
  <2> QED
      BY <1>1, FramesMade DEF Frame
<1>4. next.op # NoHandler
  <2> HIDE DEF next
  <2> QED
      BY <1>1, StrandAssumption
<1> QED
    BY <1>2, <1>3, <1>4

-----------------------------------------------------------------------------
(* Types.                                                                  *)

LEMMA TypeStep == IInv /\ [Next]_vars => TypeOK'
<1> SUFFICES ASSUME IInv, [Next]_vars PROVE TypeOK'
    OBVIOUS
<1> USE DEF strands, lanes, history
<1>0. TypeOK /\ ShutInv /\ (~shutdown_ => TokenInv /\ CountInv)
    BY DEF IInv
<1>1. ASSUME NEW t \in Threads, NEW s \in Strands, NEW h \in Handlers, Post(t, s, h)
      PROVE  TypeOK'
    BY <1>0, <1>1, EnqueueFacts DEF Post, TypeOK
<1>2. ASSUME NEW t \in Threads, NEW s \in Strands, NEW h \in Handlers, DispatchLater(t, s, h)
      PROVE  TypeOK'
    BY <1>0, <1>2, EnqueueFacts DEF DispatchLater, TypeOK
<1>3. ASSUME NEW t \in Threads, NEW s \in Strands, NEW h \in Handlers, DispatchInline(t, s, h)
      PROVE  TypeOK'
  <2>1. Frame("inline", impl_[s], h, s) \in Frames
      BY <1>0, <1>3, GiverFacts, FramesMade DEF DispatchInline
  <2>2. stack' \in [Threads -> Seq(Frames)]
      BY <1>0, <1>3, <2>1, PushFrames DEF DispatchInline
  <2> QED
      BY <1>0, <1>3, <2>2 DEF DispatchInline, TypeOK
<1>4. ASSUME NEW t \in Threads, NEW s \in Strands, NEW h \in Handlers, DispatchNow(t, s, h)
      PROVE  TypeOK'
  <2>1. impl_[s] \in Impls /\ Frame("dispatch", impl_[s], h, s) \in Frames
      BY <1>0, <1>4, GiverFacts, FramesMade DEF DispatchNow
  <2>2. stack' \in [Threads -> Seq(Frames)]
      BY <1>0, <1>4, <2>1, PushFrames DEF DispatchNow
  <2>3. /\ count_' = [count_ EXCEPT ![impl_[s]] = @ + 1]
        /\ UNCHANGED <<strands, queue_, posted, todo, shutdown_>>
      BY <1>4 DEF DispatchNow
  <2>4. count_' \in [Impls -> Nat]
      BY <1>0, <2>1, <2>3 DEF TypeOK
  <2> QED
      BY <1>0, <2>2, <2>3, <2>4 DEF TypeOK
<1>5. ASSUME NEW t \in Threads, NEW s \in Strands, Construct(t, s) \/ Destroy(t, s)
      PROVE  TypeOK'
    BY <1>0, <1>5 DEF Construct, Destroy, TypeOK
<1>6. ASSUME NEW t \in Threads, Schedule(t) PROVE TypeOK'
  <2>1. todo[t] \in Impls /\ posted \in Seq(Impls)
      BY <1>0, <1>6 DEF Schedule, TypeOK
  <2>2. Append(posted, todo[t]) \in Seq(Impls)
      BY <2>1
  <2> QED
      BY <1>0, <1>6, <2>2 DEF Schedule, TypeOK
<1>7. ASSUME NEW t \in Threads, Take(t) PROVE TypeOK'
  <2>1. Head(posted) \in Impls /\ Tail(posted) \in Seq(Impls)
      BY <1>0, <1>7 DEF Take, TypeOK
  <2>2. stack' \in [Threads -> Seq(Frames)]
      BY <1>0, <1>7, <2>1, FramesMade, PushFrames DEF Take
  <2> QED
      BY <1>0, <1>7, <2>1, <2>2 DEF Take, TypeOK
<1>8. ASSUME NEW t \in Threads, DoComplete(t) PROVE TypeOK'
  <2> DEFINE i == Last(stack[t]).impl
             next == Head(queue_[i])
             f == Frame("complete", i, next.op, next.strand)
  <2>1. i \in Impls /\ queue_[i] # <<>> /\ queue_[i] \in Seq([op : Handlers, strand : Strands])
      BY <1>8, HandlerWaits DEF DoComplete
  <2>2. stack[t] # <<>> /\ stack' = [stack EXCEPT ![t] = Append(Front(@), f)] /\ f \in Frames
      BY <1>8, CompletedFrame
  <2>3. /\ queue_' = [queue_ EXCEPT ![i] = Tail(@)]
        /\ UNCHANGED <<strands, count_, posted, todo, shutdown_>>
      BY <1>8 DEF DoComplete
  <2> HIDE DEF i, f
  <2>4. stack' \in [Threads -> Seq(Frames)]
      BY <1>0, <2>2, ReplaceFrames
  <2>5. queue_' \in [Impls -> Seq([op : Handlers, strand : Strands])]
    <3>1. Tail(queue_[i]) \in Seq([op : Handlers, strand : Strands])
        BY <2>1
    <3> QED
        BY <1>0, <2>1, <2>3, <3>1 DEF TypeOK
  <2> QED
      BY <1>0, <2>3, <2>4, <2>5 DEF TypeOK
<1>9. ASSUME NEW t \in Threads, RunPlain(t) PROVE TypeOK'
  <2>1. stack' \in [Threads -> Seq(Frames)]
      BY <1>0, <1>9, FramesMade, PushFrames DEF RunPlain
  <2> QED
      BY <1>0, <1>9, <2>1 DEF RunPlain, TypeOK
<1>10. ASSUME NEW t \in Threads, Return(t) PROVE TypeOK'
  <2>1. stack' \in [Threads -> Seq(Frames)]
      BY <1>0, <1>10, PopFrames DEF Return, InPool
  <2> QED
      BY <1>0, <1>10, <2>1 DEF Return, TypeOK
<1>11. ASSUME NEW t \in Threads, OnExit(t) PROVE TypeOK'
  <2> DEFINE i == Last(stack[t]).impl
  <2>1. i \in Impls /\ count_[i] # 0
      BY <1>11, HandlerCounted DEF OnExit
  <2>2. /\ count_' = [count_ EXCEPT ![i] = @ - 1]
        /\ todo' = [todo EXCEPT ![t] = IF count_[i] > 1 THEN i ELSE NoImpl]
        /\ UNCHANGED <<strands, queue_, posted, shutdown_>>
      BY <1>11 DEF OnExit
  <2>3. stack' \in [Threads -> Seq(Frames)]
      BY <1>0, <1>11, PopFrames DEF OnExit, InPool
  <2> HIDE DEF i
  <2>4. count_' \in [Impls -> Nat] /\ todo' \in [Threads -> Impls \cup {NoImpl}]
      BY <1>0, <2>1, <2>2 DEF TypeOK
  <2> QED
      BY <1>0, <2>2, <2>3, <2>4 DEF TypeOK
<1>12. ASSUME NEW t \in Threads, Shutdown(t) PROVE TypeOK'
    BY <1>0, <1>12 DEF Shutdown, TypeOK
<1>13. CASE UNCHANGED vars
    BY <1>0, <1>13 DEF TypeOK, vars
<1> QED
    BY <1>1, <1>2, <1>3, <1>4, <1>5, <1>6, <1>7, <1>8, <1>9, <1>10, <1>11, <1>12, <1>13
       DEF Next, Submit, Gone

-----------------------------------------------------------------------------
(* Shutdown leaves nobody inside.                                          *)

LEMMA StaysShut == [Next]_vars /\ shutdown_ => shutdown_'
<1> SUFFICES ASSUME [Next]_vars, shutdown_ PROVE shutdown_'
    OBVIOUS
<1>1. ASSUME NEW t \in Threads, NEW s \in Strands, NEW h \in Handlers,
             \/ Post(t, s, h) \/ DispatchInline(t, s, h)
             \/ DispatchNow(t, s, h) \/ DispatchLater(t, s, h)
      PROVE  shutdown_'
    BY <1>1 DEF Post, DispatchInline, DispatchNow, DispatchLater
<1>2. ASSUME NEW t \in Threads,
             \/ \E s \in Strands : Construct(t, s) \/ Destroy(t, s)
             \/ Schedule(t) \/ Take(t) \/ DoComplete(t) \/ RunPlain(t)
      PROVE  shutdown_'
    BY <1>2 DEF Construct, Destroy, Schedule, Take, DoComplete, RunPlain
<1>3. ASSUME NEW t \in Threads, Return(t) \/ OnExit(t) \/ Shutdown(t)
      PROVE  shutdown_'
    BY <1>3 DEF Return, OnExit, Shutdown
<1>4. CASE UNCHANGED vars
    BY <1>4 DEF vars
<1> QED
    BY <1>1, <1>2, <1>3, <1>4 DEF Next, Submit, Gone

LEMMA ShutStep == IInv /\ [Next]_vars => ShutInv'
<1> SUFFICES ASSUME IInv, [Next]_vars, shutdown_' PROVE ShutInv'
    BY DEF ShutInv
<1> USE DEF strands, lanes, history
<1>1. ASSUME NEW t \in Threads, Shutdown(t) PROVE ShutInv'
    BY <1>1 DEF Shutdown, ShutInv
<1>2. CASE shutdown_
  <2>1. \A t \in Threads : stack[t] = <<>> /\ todo[t] = NoImpl /\ ~Running(t)
      BY <1>2 DEF IInv, ShutInv, Running
  <2>2. CASE UNCHANGED vars
      BY <2>1, <2>2 DEF vars, ShutInv
  <2>3. ASSUME NEW t \in Threads, NEW s \in Strands, NEW h \in Handlers,
               \/ Post(t, s, h) \/ DispatchInline(t, s, h)
               \/ DispatchNow(t, s, h) \/ DispatchLater(t, s, h)
        PROVE  FALSE
      BY <2>1, <2>3 DEF Post, DispatchInline, DispatchNow, DispatchLater, MayGive
  <2>4. ASSUME NEW t \in Threads,
               \/ \E s \in Strands : Construct(t, s) \/ Destroy(t, s)
               \/ Return(t) \/ OnExit(t)
        PROVE  FALSE
      BY <2>1, <2>4 DEF Construct, Destroy, Return, OnExit
  <2>5. ASSUME NEW t \in Threads, Schedule(t) \/ Take(t) \/ DoComplete(t) \/ RunPlain(t)
        PROVE  FALSE
      BY <1>2, <2>1, <2>5 DEF Schedule, Take, DoComplete, RunPlain, InPool
  <2> QED
      BY <1>1, <2>2, <2>3, <2>4, <2>5 DEF Next, Submit, Gone
<1>3. CASE ~shutdown_
  <2>1. ASSUME NEW t \in Threads, NEW s \in Strands, NEW h \in Handlers,
               \/ Post(t, s, h) \/ DispatchInline(t, s, h)
               \/ DispatchNow(t, s, h) \/ DispatchLater(t, s, h)
        PROVE  FALSE
      BY <1>3, <2>1 DEF Post, DispatchInline, DispatchNow, DispatchLater
  <2>2. ASSUME NEW t \in Threads,
               \/ \E s \in Strands : Construct(t, s) \/ Destroy(t, s)
               \/ Schedule(t) \/ Take(t) \/ DoComplete(t) \/ RunPlain(t)
               \/ Return(t) \/ OnExit(t)
        PROVE  FALSE
      BY <1>3, <2>2 DEF Construct, Destroy, Schedule, Take, DoComplete, RunPlain, Return, OnExit
  <2>3. ~UNCHANGED vars
      BY <1>3 DEF vars
  <2> QED
      BY <1>1, <2>1, <2>2, <2>3 DEF Next, Submit, Gone
<1> QED
    BY <1>2, <1>3

-----------------------------------------------------------------------------
(* How the stack's changes move the upcalls.                               *)

\* A frame is pushed.
LEMMA PushUp ==
    ASSUME TypeOK, NEW t \in Threads, NEW f \in Frames, Push(t, f), NEW i
    PROVE  /\ \A u \in Threads : \A k :
                Up(i, u, k)' <=> \/ Up(i, u, k)
                                 \/ /\ u = t /\ k = Len(stack[t]) + 1
                                    /\ f.impl = i /\ f.how # "inline"
           /\ Busy(i)' <=> \/ Busy(i)
                           \/ f.impl = i /\ f.how # "inline" /\ f.op # NoHandler
<1> DEFINE n == Len(stack[t]) + 1
<1>1. /\ \A u \in Threads : u # t => stack'[u] = stack[u]
      /\ DOMAIN stack'[t] = DOMAIN stack[t] \cup {n}
      /\ n \notin DOMAIN stack[t] /\ stack'[t][n] = f
      /\ \A k \in DOMAIN stack[t] : stack'[t][k] = stack[t][k]
    BY PushFrames
<1> HIDE DEF n
<1>2. ASSUME NEW u \in Threads, NEW k
      PROVE  Up(i, u, k)' <=> \/ Up(i, u, k)
                              \/ u = t /\ k = n /\ f.impl = i /\ f.how # "inline"
    BY <1>1 DEF Up
<1>3. ASSUME Busy(i)'
      PROVE  Busy(i) \/ (f.impl = i /\ f.how # "inline" /\ f.op # NoHandler)
  <2>1. PICK u \in Threads :
          \E k \in DOMAIN stack'[u] : Up(i, u, k)' /\ stack'[u][k].op # NoHandler
      BY <1>3 DEF Busy
  <2> QED
      BY <1>1, <1>2, <2>1 DEF Busy, Up
<1>4. ASSUME Busy(i) PROVE Busy(i)'
  <2>1. PICK u \in Threads :
          \E k \in DOMAIN stack[u] : Up(i, u, k) /\ stack[u][k].op # NoHandler
      BY <1>4 DEF Busy
  <2> QED
      BY <1>1, <1>2, <2>1 DEF Busy
<1>5. ASSUME f.impl = i /\ f.how # "inline" /\ f.op # NoHandler PROVE Busy(i)'
    BY <1>1, <1>2, <1>5 DEF Busy
<1> QED
    BY <1>2, <1>3, <1>4, <1>5 DEF n

\* The last frame is popped.
LEMMA PopUp ==
    ASSUME TypeOK, NEW t \in Threads, stack[t] # <<>>, Pop(t), NEW i
    PROVE  /\ \A u \in Threads : \A k :
                Up(i, u, k)' <=> Up(i, u, k) /\ ~(u = t /\ k = Len(stack[t]))
           /\ Busy(i)' <=>
                \E u \in Threads : \E k \in DOMAIN stack[u] :
                    /\ Up(i, u, k) /\ stack[u][k].op # NoHandler
                    /\ ~(u = t /\ k = Len(stack[t]))
<1>1. /\ \A u \in Threads : u # t => stack'[u] = stack[u]
      /\ DOMAIN stack'[t] = DOMAIN stack[t] \ {Len(stack[t])}
      /\ \A k \in DOMAIN stack'[t] : stack'[t][k] = stack[t][k]
    BY PopFrames
<1>2. ASSUME NEW u \in Threads, NEW k
      PROVE  Up(i, u, k)' <=> Up(i, u, k) /\ ~(u = t /\ k = Len(stack[t]))
    BY <1>1 DEF Up
<1>3. ASSUME NEW u \in Threads, NEW k, Up(i, u, k)'
      PROVE  k \in DOMAIN stack[u] /\ k \in DOMAIN stack'[u] /\ stack'[u][k] = stack[u][k]
    BY <1>1, <1>3 DEF Up
<1> QED
    BY <1>2, <1>3 DEF Busy, Up

\* The last frame is replaced by one of the same call.
LEMMA ReplaceUp ==
    ASSUME TypeOK, NEW t \in Threads, stack[t] # <<>>, NEW f \in Frames,
           stack' = [stack EXCEPT ![t] = Append(Front(@), f)],
           f.impl = Last(stack[t]).impl, f.how = Last(stack[t]).how,
           f.how # "inline", NEW i
    PROVE  /\ \A u \in Threads : \A k : Up(i, u, k)' <=> Up(i, u, k)
           /\ i # f.impl => (Busy(i)' <=> Busy(i))
           /\ i = f.impl /\ f.op # NoHandler => Busy(i)'
<1> DEFINE n == Len(stack[t])
<1>1. /\ \A u \in Threads : u # t => stack'[u] = stack[u]
      /\ DOMAIN stack'[t] = DOMAIN stack[t]
      /\ n \in DOMAIN stack[t] /\ Last(stack[t]) = stack[t][n] /\ stack'[t][n] = f
      /\ \A k \in DOMAIN stack[t] \ {n} : stack'[t][k] = stack[t][k]
    BY ReplaceFrames
<1> HIDE DEF n
<1>2. ASSUME NEW u \in Threads, NEW k PROVE Up(i, u, k)' <=> Up(i, u, k)
  <2>1. CASE u = t /\ k = n
      BY <1>1, <2>1 DEF Up
  <2>2. CASE ~(u = t /\ k = n)
      BY <1>1, <2>2 DEF Up
  <2> QED
      BY <2>1, <2>2
<1>3. ASSUME i # f.impl, NEW u \in Threads, NEW k, Up(i, u, k)
      PROVE  k \in DOMAIN stack[u] /\ k \in DOMAIN stack'[u] /\ stack'[u][k] = stack[u][k]
    BY <1>1, <1>3 DEF Up
<1>4. i # f.impl => (Busy(i)' <=> Busy(i))
    BY <1>2, <1>3 DEF Busy, Up
<1>5. i = f.impl /\ f.op # NoHandler => Busy(i)'
    BY <1>1 DEF Busy, Up
<1> QED
    BY <1>2, <1>4, <1>5

\* The stack stays.
LEMMA StayUp ==
    ASSUME UNCHANGED stack, NEW i
    PROVE  (\A u, k : Up(i, u, k)' <=> Up(i, u, k)) /\ (Busy(i)' <=> Busy(i))
    BY DEF Up, Busy

-----------------------------------------------------------------------------
(* Inline calls are made below a frame that holds the token.               *)

\* A thread that is in the strand holds its token.
LEMMA OwnerHoldsToken ==
    ASSUME NestInv, NEW t \in Threads, NEW i, InStrand(t, i)
    PROVE  \E l \in DOMAIN stack[t] : Up(i, t, l)
<1>1. PICK k \in DOMAIN stack[t] : stack[t][k].impl = i
    BY DEF InStrand, Calls, ToSet
<1> QED
    BY <1>1 DEF NestInv, Up

LEMMA NestPush ==
    ASSUME TypeOK, NestInv, NEW t \in Threads, NEW f \in Frames, Push(t, f),
           f.how = "inline" => InStrand(t, f.impl)
    PROVE  NestInv'
<1> SUFFICES ASSUME NEW u \in Threads, NEW k \in DOMAIN stack'[u], stack'[u][k].how = "inline"
             PROVE  \E l \in DOMAIN stack'[u] : /\ l < k /\ stack'[u][l].how # "inline"
                                                 /\ stack'[u][l].impl = stack'[u][k].impl
    BY DEF NestInv
<1> DEFINE n == Len(stack[t]) + 1
<1>1. /\ \A v \in Threads : v # t => stack'[v] = stack[v]
      /\ DOMAIN stack'[t] = DOMAIN stack[t] \cup {n}
      /\ n \notin DOMAIN stack[t] /\ stack'[t][n] = f
      /\ \A j \in DOMAIN stack[t] : j < n /\ stack'[t][j] = stack[t][j]
    BY PushFrames
<1> HIDE DEF n
<1>2. CASE u = t /\ k = n
  <2>1. PICK l \in DOMAIN stack[t] : Up(f.impl, t, l)
      BY <1>1, <1>2, OwnerHoldsToken
  <2> QED
      BY <1>1, <1>2, <2>1 DEF Up
<1>3. CASE ~(u = t /\ k = n)
  <2>1. k \in DOMAIN stack[u] /\ stack'[u][k] = stack[u][k]
      BY <1>1, <1>3
  <2>2. PICK l \in DOMAIN stack[u] : /\ l < k /\ stack[u][l].how # "inline"
                                       /\ stack[u][l].impl = stack[u][k].impl
      BY <2>1 DEF NestInv
  <2>3. l \in DOMAIN stack'[u] /\ stack'[u][l] = stack[u][l]
      BY <1>1
  <2> QED
      BY <2>1, <2>2, <2>3
<1> QED
    BY <1>2, <1>3

LEMMA NestPop ==
    ASSUME TypeOK, NestInv, NEW t \in Threads, stack[t] # <<>>, Pop(t)
    PROVE  NestInv'
<1> SUFFICES ASSUME NEW u \in Threads, NEW k \in DOMAIN stack'[u], stack'[u][k].how = "inline"
             PROVE  \E l \in DOMAIN stack'[u] : /\ l < k /\ stack'[u][l].how # "inline"
                                                 /\ stack'[u][l].impl = stack'[u][k].impl
    BY DEF NestInv
<1>1. /\ \A v \in Threads : v # t => stack'[v] = stack[v]
      /\ DOMAIN stack'[t] = DOMAIN stack[t] \ {Len(stack[t])}
      /\ \A j \in DOMAIN stack'[t] : stack'[t][j] = stack[t][j]
    BY PopFrames
<1>2. k \in DOMAIN stack[u] /\ stack'[u][k] = stack[u][k]
    BY <1>1
<1>3. PICK l \in DOMAIN stack[u] : /\ l < k /\ stack[u][l].how # "inline"
                                       /\ stack[u][l].impl = stack[u][k].impl
    BY <1>2 DEF NestInv
<1>4. l \in DOMAIN stack'[u] /\ stack'[u][l] = stack[u][l]
  <2>1. stack[u] \in Seq(Frames) /\ DOMAIN stack[u] = 1..Len(stack[u]) /\ Len(stack[u]) \in Nat
      BY DEF TypeOK
  <2>2. l # Len(stack[u])
      BY <1>2, <1>3, <2>1
  <2> QED
      BY <1>1, <2>2
<1> QED
    BY <1>2, <1>3, <1>4

LEMMA NestReplace ==
    ASSUME TypeOK, NestInv, NEW t \in Threads, stack[t] # <<>>, NEW f \in Frames,
           stack' = [stack EXCEPT ![t] = Append(Front(@), f)],
           f.impl = Last(stack[t]).impl, f.how = Last(stack[t]).how, f.how # "inline"
    PROVE  NestInv'
<1> SUFFICES ASSUME NEW u \in Threads, NEW k \in DOMAIN stack'[u], stack'[u][k].how = "inline"
             PROVE  \E l \in DOMAIN stack'[u] : /\ l < k /\ stack'[u][l].how # "inline"
                                                 /\ stack'[u][l].impl = stack'[u][k].impl
    BY DEF NestInv
<1>1. /\ \A v \in Threads : v # t => stack'[v] = stack[v]
      /\ DOMAIN stack'[t] = DOMAIN stack[t]
      /\ Last(stack[t]) = stack[t][Len(stack[t])] /\ stack'[t][Len(stack[t])] = f
      /\ \A j \in DOMAIN stack[t] \ {Len(stack[t])} : stack'[t][j] = stack[t][j]
    BY ReplaceFrames
<1>2. ASSUME NEW j \in DOMAIN stack[u]
      PROVE  stack'[u][j].how = stack[u][j].how /\ stack'[u][j].impl = stack[u][j].impl
  <2>1. CASE u = t /\ j = Len(stack[t])
      BY <1>1, <2>1
  <2>2. CASE ~(u = t /\ j = Len(stack[t]))
      BY <1>1, <2>2
  <2> QED
      BY <2>1, <2>2
<1>3. DOMAIN stack'[u] = DOMAIN stack[u]
    BY <1>1
<1>4. k \in DOMAIN stack[u] /\ stack[u][k].how = "inline"
    BY <1>2, <1>3
<1>5. PICK l \in DOMAIN stack[u] : /\ l < k /\ stack[u][l].how # "inline"
                                   /\ stack[u][l].impl = stack[u][k].impl
    BY <1>4 DEF NestInv
<1> QED
    BY <1>2, <1>3, <1>4, <1>5

LEMMA NestStep == IInv /\ [Next]_vars => NestInv'
<1> SUFFICES ASSUME IInv, [Next]_vars PROVE NestInv'
    OBVIOUS
<1>0. TypeOK /\ NestInv
    BY DEF IInv
<1>1. ASSUME UNCHANGED stack PROVE NestInv'
    BY <1>0, <1>1 DEF NestInv
<1>2. ASSUME NEW t \in Threads, NEW s \in Strands, NEW h \in Handlers, DispatchInline(t, s, h)
      PROVE  NestInv'
  <2> DEFINE f == Frame("inline", impl_[s], h, s)
  <2>1. f \in Frames /\ f.impl = impl_[s]
      BY <1>0, <1>2, GiverFacts, FramesMade DEF DispatchInline, Frame
  <2>2. Push(t, f) /\ InStrand(t, f.impl)
      BY <1>2, <2>1 DEF DispatchInline
  <2> HIDE DEF f
  <2> QED
      BY <1>0, <2>1, <2>2, NestPush
<1>3. ASSUME NEW t \in Threads, NEW s \in Strands, NEW h \in Handlers, DispatchNow(t, s, h)
      PROVE  NestInv'
  <2> DEFINE f == Frame("dispatch", impl_[s], h, s)
  <2>1. f \in Frames /\ f.how # "inline"
      BY <1>0, <1>3, GiverFacts, FramesMade DEF DispatchNow, Frame
  <2>2. Push(t, f)
      BY <1>3 DEF DispatchNow
  <2> HIDE DEF f
  <2> QED
      BY <1>0, <2>1, <2>2, NestPush
<1>4. ASSUME NEW t \in Threads, Take(t) PROVE NestInv'
  <2> DEFINE f == Frame("complete", Head(posted), NoHandler, NoHandler)
  <2>1. f \in Frames /\ f.how # "inline"
      BY <1>0, <1>4, FramesMade DEF Take, TypeOK, Frame
  <2>2. Push(t, f)
      BY <1>4 DEF Take
  <2> HIDE DEF f
  <2> QED
      BY <1>0, <2>1, <2>2, NestPush
<1>5. ASSUME NEW t \in Threads, RunPlain(t) PROVE NestInv'
  <2> DEFINE f == Frame("plain", NoImpl, NoImpl, NoImpl)
  <2>1. f \in Frames /\ f.how # "inline"
      BY FramesMade DEF Frame
  <2>2. Push(t, f)
      BY <1>5 DEF RunPlain
  <2> HIDE DEF f
  <2> QED
      BY <1>0, <2>1, <2>2, NestPush
<1>6. ASSUME NEW t \in Threads, Return(t) \/ OnExit(t) PROVE NestInv'
    BY <1>0, <1>6, NestPop DEF Return, OnExit, InPool
<1>7. ASSUME NEW t \in Threads, DoComplete(t) PROVE NestInv'
  <2> DEFINE i == Last(stack[t]).impl
             next == Head(queue_[i])
             f == Frame("complete", i, next.op, next.strand)
  <2>1. /\ stack[t] # <<>> /\ stack' = [stack EXCEPT ![t] = Append(Front(@), f)]
        /\ f \in Frames /\ f.impl = Last(stack[t]).impl /\ f.how = Last(stack[t]).how
        /\ f.how # "inline"
      BY <1>7, CompletedFrame
  <2> HIDE DEF f
  <2> QED
      BY <1>0, <2>1, NestReplace
<1> QED
    BY <1>1, <1>2, <1>3, <1>4, <1>5, <1>6, <1>7
       DEF Next, Submit, Gone, Post, DispatchLater, Construct, Destroy, Schedule, Shutdown, vars

-----------------------------------------------------------------------------
(* One token per implementation.                                           *)

\* What a step does to an implementation's token: nothing, ...
LEMMA TokenStays ==
    ASSUME NEW i, HasOne(i), \A w, u, k : At(i, w, u, k)' <=> At(i, w, u, k),
           count_'[i] # 0 <=> count_[i] # 0
    PROVE  HasOne(i)'
    BY DEF HasOne, Single, Some

\* ... or it leaves the token at one place ...
LEMMA TokenSole ==
    ASSUME NEW i, NEW x, NEW v, NEW n,
           At(i, x, v, n)', \A w, u, k : At(i, w, u, k)' => w = x /\ u = v /\ k = n,
           count_'[i] # 0
    PROVE  HasOne(i)'
    BY DEF HasOne, Single, Some

\* ... or nowhere.
LEMMA TokenGone ==
    ASSUME NEW i, \A w, u, k : ~At(i, w, u, k)', count_'[i] = 0
    PROVE  HasOne(i)'
    BY DEF HasOne, Single, Some

\* An implementation without handlers has no token.
LEMMA NoToken ==
    ASSUME TokenInv, NEW i \in Impls, count_[i] = 0
    PROVE  \A w, u, k : ~At(i, w, u, k)
    BY DEF TokenInv, HasOne, Some

\* Wherever the token is, it is nowhere else.
LEMMA OnlyToken ==
    ASSUME TokenInv, NEW i \in Impls, NEW x, NEW v, NEW n, At(i, x, v, n)
    PROVE  count_[i] # 0 /\ \A w, u, k : At(i, w, u, k) => w = x /\ u = v /\ k = n
    BY DEF TokenInv, HasOne, Some, Single

LEMMA TokenEnqueue ==
    ASSUME TypeOK, TokenInv, NEW t \in Threads, NEW s \in Strands, NEW h \in Handlers,
           MayGive(t, s, h), Enqueue(t, s, h), UNCHANGED <<posted, stack>>
    PROVE  TokenInv'
<1> SUFFICES ASSUME NEW i \in Impls PROVE HasOne(i)'
    BY DEF TokenInv
<1> DEFINE j == impl_[s]
<1>0. j \in Impls /\ todo[t] = NoImpl
    BY GiverFacts
<1>1. /\ \A u \in Threads : u # t => todo'[u] = todo[u]
      /\ todo[t] = NoImpl /\ todo'[t] = IF count_[j] = 0 THEN j ELSE NoImpl
      /\ i # j => count_'[i] = count_[i]
  <2>1. /\ \A u \in Threads : u # t => todo'[u] = todo[u]
        /\ todo'[t] = IF count_[j] = 0 THEN j ELSE NoImpl
      BY EnqueueFacts
  <2>2. i # j => count_'[i] = count_[i]
      BY EnqueueFacts
  <2> QED
      BY <1>0, <2>1, <2>2
<1>2. j \in Impls /\ count_'[j] = count_[j] + 1 /\ count_[j] \in Nat
  <2>1. count_'[j] = count_[j] + 1 /\ count_[j] \in Nat
      BY EnqueueFacts
  <2> QED
      BY <1>0, <2>1
<1>3. \A u, k : Up(i, u, k)' <=> Up(i, u, k)
    BY StayUp
<1> HIDE DEF j
<1>4. CASE i = j /\ count_[j] = 0
  <2>1. \A w, u, k : ~At(i, w, u, k)
      BY <1>4, NoToken
  <2>2. ASSUME NEW w, NEW u, NEW k
        PROVE  At(i, w, u, k)' <=> w = "todo" /\ u = t /\ k = 0
      BY <1>1, <1>3, <1>4, <2>1 DEF At
  <2>3. At(i, "todo", t, 0)'
      BY <2>2
  <2> QED
      BY <1>2, <1>4, <2>2, <2>3, TokenSole
<1>5. CASE ~(i = j /\ count_[j] = 0)
  <2>1. ASSUME NEW w, NEW u, NEW k PROVE At(i, w, u, k)' <=> At(i, w, u, k)
      BY <1>1, <1>3, <1>5, StrandAssumption DEF At
  <2>2. count_'[i] # 0 <=> count_[i] # 0
      BY <1>1, <1>2, <1>5
  <2> QED
      BY <2>1, <2>2, TokenStays DEF TokenInv
<1> QED
    BY <1>4, <1>5

LEMMA TokenSchedule ==
    ASSUME TypeOK, TokenInv, NEW t \in Threads, Schedule(t)
    PROVE  TokenInv'
<1> SUFFICES ASSUME NEW i \in Impls PROVE HasOne(i)'
    BY DEF TokenInv
<1>0. PICK n : n = Len(posted) + 1
    OBVIOUS
<1>1. todo[t] \in Impls /\ posted \in Seq(Impls)
    BY DEF Schedule, TypeOK
<1>2. /\ posted' = Append(posted, todo[t]) /\ todo' = [todo EXCEPT ![t] = NoImpl]
      /\ count_' = count_ /\ UNCHANGED stack
    BY DEF Schedule, lanes
<1>3. /\ DOMAIN posted' = DOMAIN posted \cup {n} /\ n \notin DOMAIN posted
      /\ posted'[n] = todo[t] /\ \A k \in DOMAIN posted : posted'[k] = posted[k]
  <2>1. DOMAIN posted = 1..Len(posted) /\ Len(posted) \in Nat /\ DOMAIN posted' = 1..n
      BY <1>0, <1>1, <1>2
  <2>2. posted'[n] = todo[t] /\ \A k \in DOMAIN posted : posted'[k] = posted[k]
      BY <1>0, <1>1, <1>2
  <2> QED
      BY <1>0, <2>1, <2>2
<1>4. todo'[t] = NoImpl /\ \A u \in Threads : u # t => todo'[u] = todo[u]
    BY <1>2 DEF TypeOK
<1>5. \A u, k : Up(i, u, k)' <=> Up(i, u, k)
    BY <1>2, StayUp
<1>6. CASE i = todo[t]
  <2>1. At(i, "todo", t, 0)
      BY <1>6 DEF At
  <2>2. /\ count_[i] # 0
        /\ \A w, u, k : At(i, w, u, k) => w = "todo" /\ u = t /\ k = 0
      BY <2>1, OnlyToken
  <2>3. ASSUME NEW w, NEW u, NEW k
        PROVE  At(i, w, u, k)' <=> w = "posted" /\ u = NoThread /\ k = n
      BY <1>3, <1>4, <1>5, <1>6, <2>2, StrandAssumption DEF At
  <2>4. At(i, "posted", NoThread, n)'
      BY <2>3
  <2> QED
      BY <1>2, <2>2, <2>3, <2>4, TokenSole
<1>7. CASE i # todo[t]
  <2>1. ASSUME NEW w, NEW u, NEW k PROVE At(i, w, u, k)' <=> At(i, w, u, k)
      BY <1>3, <1>4, <1>5, <1>7, StrandAssumption DEF At
  <2> QED
      BY <1>2, <2>1, TokenStays DEF TokenInv
<1> QED
    BY <1>6, <1>7

LEMMA TokenTake ==
    ASSUME TypeOK, TokenInv, NEW t \in Threads, Take(t)
    PROVE  TokenInv'
<1> SUFFICES ASSUME NEW i \in Impls PROVE HasOne(i)'
    BY DEF TokenInv
<1> DEFINE f == Frame("complete", Head(posted), NoHandler, NoHandler)
<1>1. posted \in Seq(Impls) /\ posted # <<>> /\ Head(posted) \in Impls
    BY DEF Take, TypeOK
<1>2. /\ posted' = Tail(posted) /\ UNCHANGED <<todo, count_>>
      /\ stack[t] = <<>> /\ Push(t, f)
    BY DEF Take, lanes
<1>3. f \in Frames /\ f.impl = Head(posted) /\ f.how # "inline"
    BY <1>1, FramesMade DEF Frame
<1> HIDE DEF f
<1>4. \A u \in Threads : \A k :
          Up(i, u, k)' <=> Up(i, u, k) \/ (u = t /\ k = 1 /\ Head(posted) = i)
  <2>1. Len(stack[t]) + 1 = 1
      BY <1>2
  <2>2. ASSUME NEW u \in Threads, NEW k
        PROVE  Up(i, u, k)' <=> \/ Up(i, u, k)
                                \/ /\ u = t /\ k = Len(stack[t]) + 1
                                   /\ f.impl = i /\ f.how # "inline"
      BY <1>2, <1>3, PushUp
  <2> QED
      BY <1>3, <2>1, <2>2
<1>5. /\ \A k \in DOMAIN posted' : k # 0 /\ k + 1 \in DOMAIN posted /\ posted'[k] = posted[k + 1]
      /\ \A k \in DOMAIN posted : k = 1 \/ (k - 1 \in DOMAIN posted' /\ posted'[k - 1] = posted[k])
      /\ 1 \in DOMAIN posted /\ Head(posted) = posted[1]
      /\ DOMAIN posted' \subseteq Nat /\ DOMAIN posted \subseteq Nat
    BY <1>1, <1>2
<1>6. CASE i = Head(posted)
  <2>1. At(i, "posted", NoThread, 1)
      BY <1>5, <1>6 DEF At
  <2>2. /\ count_[i] # 0
        /\ \A w, u, k : At(i, w, u, k) => w = "posted" /\ u = NoThread /\ k = 1
      BY <2>1, OnlyToken
  <2>3. ASSUME NEW k \in DOMAIN posted' PROVE posted'[k] # i
    <3>1. CASE posted[k + 1] = i
      <4>1. At(i, "posted", NoThread, k + 1)
          BY <1>5, <3>1 DEF At
      <4>2. k + 1 = 1
          BY <2>2, <4>1
      <4> QED
          BY <1>5, <4>2
    <3> QED
        BY <1>5, <3>1
  <2>4. ASSUME NEW w, NEW u, NEW k
        PROVE  At(i, w, u, k)' <=> w = "called" /\ u = t /\ k = 1
    <3>1. ASSUME u \in Threads PROVE todo'[u] # i /\ ~Up(i, u, k)
      <4>1. ~At(i, "todo", u, 0) /\ ~At(i, "called", u, k)
          BY <2>2
      <4> QED
          BY <1>2, <3>1, <4>1 DEF At
    <3>2. u \in Threads => (Up(i, u, k)' <=> u = t /\ k = 1)
        BY <1>4, <1>6, <3>1
    <3> QED
        BY <2>3, <3>1, <3>2 DEF At
  <2>5. At(i, "called", t, 1)'
      BY <2>4
  <2> QED
      BY <1>2, <2>2, <2>4, <2>5, TokenSole
<1>7. CASE i # Head(posted)
  <2>1. ASSUME NEW w, NEW u, NEW k, w # "posted"
        PROVE  At(i, w, u, k)' <=> At(i, w, u, k)
      BY <1>2, <1>4, <1>7, <2>1 DEF At
  <2>2. ASSUME NEW u, NEW k, At(i, "posted", u, k)'
        PROVE  k \in Nat /\ At(i, "posted", u, k + 1)
      BY <1>5, <2>2 DEF At
  <2>3. ASSUME NEW u, NEW k, At(i, "posted", u, k)
        PROVE  At(i, "posted", u, k - 1)'
      BY <1>5, <1>7, <2>3 DEF At
  <2>4. ASSUME NEW w, NEW u, NEW k, NEW x, NEW v, NEW l, At(i, w, u, k)', At(i, x, v, l)'
        PROVE  w = x /\ u = v /\ k = l
    <3>0. Single(i)
        BY DEF TokenInv, HasOne
    <3>1. CASE w = "posted" /\ x = "posted"
      <4>1. k + 1 = l + 1 /\ u = v /\ k \in Nat /\ l \in Nat
          BY <2>2, <2>4, <3>0, <3>1 DEF Single
      <4> QED
          BY <3>1, <4>1
    <3>2. CASE w # "posted" /\ x # "posted"
        BY <2>1, <2>4, <3>0, <3>2 DEF Single
    <3>3. CASE w = "posted" /\ x # "posted"
      <4>1. At(i, "posted", u, k + 1) /\ At(i, x, v, l)
          BY <2>1, <2>2, <2>4, <3>3
      <4> QED
          BY <3>0, <3>3, <4>1 DEF Single
    <3>4. CASE w # "posted" /\ x = "posted"
      <4>1. At(i, "posted", v, l + 1) /\ At(i, w, u, k)
          BY <2>1, <2>2, <2>4, <3>4
      <4> QED
          BY <3>0, <3>4, <4>1 DEF Single
    <3> QED
        BY <3>1, <3>2, <3>3, <3>4
  <2>5. Some(i)' <=> Some(i)
      BY <2>1, <2>2, <2>3 DEF Some
  <2> QED
      BY <1>2, <2>4, <2>5 DEF TokenInv, HasOne, Single
<1> QED
    BY <1>6, <1>7

\* dispatch finds the implementation idle.
LEMMA TokenDispatch ==
    ASSUME TypeOK, TokenInv, NEW t \in Threads, NEW s \in Strands, NEW h \in Handlers,
           DispatchNow(t, s, h)
    PROVE  TokenInv'
<1> SUFFICES ASSUME NEW i \in Impls PROVE HasOne(i)'
    BY DEF TokenInv
<1> DEFINE j == impl_[s]
           f == Frame("dispatch", j, h, s)
<1>1. j \in Impls /\ f \in Frames /\ f.impl = j /\ f.how # "inline"
    BY GiverFacts, FramesMade DEF DispatchNow, Frame
<1>2. /\ count_[j] = 0 /\ count_' = [count_ EXCEPT ![j] = @ + 1]
      /\ Push(t, f) /\ UNCHANGED <<posted, todo>>
    BY DEF DispatchNow, Idle
<1> HIDE DEF j, f
<1>0. PICK n : n = Len(stack[t]) + 1
    OBVIOUS
<1>3. count_ \in [Impls -> Nat]
    BY DEF TypeOK
<1>4. \A u \in Threads : \A k :
          Up(i, u, k)' <=> Up(i, u, k) \/ (u = t /\ k = n /\ j = i)
  <2>1. /\ \A u \in Threads : \A k :
            Up(i, u, k)' <=> \/ Up(i, u, k)
                             \/ /\ u = t /\ k = Len(stack[t]) + 1
                                /\ f.impl = i /\ f.how # "inline"
        /\ Busy(i)' <=> \/ Busy(i)
                        \/ f.impl = i /\ f.how # "inline" /\ f.op # NoHandler
      BY ONLY TypeOK, t \in Threads, <1>1, <1>2, PushUp
  <2> QED
      BY ONLY <1>0, <1>1, <2>1
<1>5. CASE i = j
  <2>1. \A w, u, k : ~At(i, w, u, k)
      BY <1>2, <1>5, NoToken
  <2>2. ASSUME NEW w, NEW u, NEW k
        PROVE  At(i, w, u, k)' <=> w = "called" /\ u = t /\ k = n
      BY <1>2, <1>4, <1>5, <2>1 DEF At
  <2>3. count_'[i] # 0
      BY <1>1, <1>2, <1>3, <1>5
  <2>4. At(i, "called", t, n)'
      BY <2>2
  <2> QED
      BY <2>2, <2>3, <2>4, TokenSole
<1>6. CASE i # j
  <2>1. ASSUME NEW w, NEW u, NEW k PROVE At(i, w, u, k)' <=> At(i, w, u, k)
      BY <1>2, <1>4, <1>6 DEF At
  <2>2. count_'[i] = count_[i]
      BY <1>2, <1>3, <1>6
  <2> QED
      BY <2>1, <2>2, TokenStays DEF TokenInv
<1> QED
    BY <1>5, <1>6

LEMMA TokenExit ==
    ASSUME IInv, NEW t \in Threads, OnExit(t)
    PROVE  TokenInv'
<1> SUFFICES ASSUME NEW i \in Impls PROVE HasOne(i)'
    BY DEF TokenInv
<1> DEFINE j == Last(stack[t]).impl
           n == Len(stack[t])
<1>1. /\ j \in Impls /\ count_[j] # 0 /\ ~shutdown_ /\ todo[t] = NoImpl
      /\ stack[t] # <<>> /\ Up(j, t, n)
    BY HandlerCounted DEF OnExit
<1>2. /\ count_' = [count_ EXCEPT ![j] = @ - 1]
      /\ todo' = [todo EXCEPT ![t] = IF count_[j] > 1 THEN j ELSE NoImpl]
      /\ Pop(t) /\ posted' = posted
    BY DEF OnExit
<1>3. TypeOK /\ TokenInv
    BY <1>1 DEF IInv
<1> HIDE DEF j, n
<1>4. count_ \in [Impls -> Nat] /\ todo \in [Threads -> Impls \cup {NoImpl}]
    BY <1>3 DEF TypeOK
<1>5. \A u \in Threads : \A k : Up(i, u, k)' <=> Up(i, u, k) /\ ~(u = t /\ k = n)
    BY <1>1, <1>2, <1>3, PopUp DEF n
<1>6. CASE i = j
  <2>1. \A w, u, k : At(i, w, u, k) => w = "called" /\ u = t /\ k = n
      BY <1>1, <1>3, <1>6, OnlyUpcall
  <2>2. CASE count_[j] > 1
    <3>1. ASSUME NEW w, NEW u, NEW k
          PROVE  At(i, w, u, k)' <=> w = "todo" /\ u = t /\ k = 0
        BY <1>2, <1>4, <1>5, <1>6, <2>1, <2>2 DEF At
    <3>2. count_'[i] # 0
        BY <1>1, <1>2, <1>4, <1>6, <2>2
    <3>3. At(i, "todo", t, 0)'
        BY <3>1
    <3> QED
        BY <3>1, <3>2, <3>3, TokenSole
  <2>3. CASE ~(count_[j] > 1)
    <3>1. ASSUME NEW w, NEW u, NEW k PROVE ~At(i, w, u, k)'
        BY <1>1, <1>2, <1>4, <1>5, <1>6, <2>1, <2>3, StrandAssumption DEF At
    <3>2. count_'[i] = 0
        BY <1>1, <1>2, <1>4, <1>6, <2>3
    <3> QED
        BY <3>1, <3>2, TokenGone
  <2> QED
      BY <2>2, <2>3
<1>7. CASE i # j
  <2>1. ~Up(i, t, n)
      BY <1>1, <1>7 DEF Up
  <2>2. ASSUME NEW w, NEW u, NEW k PROVE At(i, w, u, k)' <=> At(i, w, u, k)
      BY <1>1, <1>2, <1>4, <1>5, <1>7, <2>1, StrandAssumption DEF At
  <2>3. count_'[i] = count_[i]
      BY <1>2, <1>4, <1>7
  <2> QED
      BY <1>3, <2>2, <2>3, TokenStays DEF TokenInv
<1> QED
    BY <1>6, <1>7

\* Steps that neither move a token nor call a handler of a queue.
LEMMA QuietStep ==
    ASSUME TypeOK, NEW i \in Impls, UNCHANGED <<lanes, posted, todo>>,
           \/ UNCHANGED stack
           \/ \E t \in Threads, f \in Frames :
                Push(t, f) /\ (f.how = "inline" \/ f.impl = NoImpl)
           \/ \E t \in Threads :
                Pop(t) /\ stack[t] # <<>> /\ Last(stack[t]).how \in {"plain", "inline"}
    PROVE  /\ Busy(i)' <=> Busy(i)
           /\ \A w, u, k : At(i, w, u, k)' <=> At(i, w, u, k)
<1>1. (Busy(i)' <=> Busy(i)) /\ (\A u \in Threads : \A k : Up(i, u, k)' <=> Up(i, u, k))
  <2>1. CASE UNCHANGED stack
      BY <2>1, StayUp
  <2>2. ASSUME NEW t \in Threads, NEW f \in Frames, Push(t, f),
               f.how = "inline" \/ f.impl = NoImpl
        PROVE  (Busy(i)' <=> Busy(i)) /\ (\A u \in Threads : \A k : Up(i, u, k)' <=> Up(i, u, k))
    <3>1. ~(f.impl = i /\ f.how # "inline")
        BY <2>2, StrandAssumption
    <3> QED
        BY <2>2, <3>1, PushUp
  <2>3. ASSUME NEW t \in Threads, Pop(t), stack[t] # <<>>,
               Last(stack[t]).how \in {"plain", "inline"}
        PROVE  (Busy(i)' <=> Busy(i)) /\ (\A u \in Threads : \A k : Up(i, u, k)' <=> Up(i, u, k))
    <3>0. PICK n : n = Len(stack[t])
        OBVIOUS
    <3>1. ~Up(i, t, n)
        BY <2>3, <3>0, TopFrame, FrameFacts, StrandAssumption DEF Up
    <3>2. /\ \A u \in Threads : \A k : Up(i, u, k)' <=> Up(i, u, k) /\ ~(u = t /\ k = n)
          /\ Busy(i)' <=> \E u \in Threads : \E k \in DOMAIN stack[u] :
                            /\ Up(i, u, k) /\ stack[u][k].op # NoHandler
                            /\ ~(u = t /\ k = n)
        BY <2>3, <3>0, PopUp
    <3> QED
        BY <3>1, <3>2 DEF Busy
  <2> QED
      BY <2>1, <2>2, <2>3
<1> QED
    BY <1>1 DEF At

\* They are most of the steps.
LEMMA QuietActions ==
    ASSUME TypeOK, NEW t \in Threads, NEW i \in Impls,
           \/ \E s \in Strands : Construct(t, s) \/ Destroy(t, s)
           \/ \E s \in Strands, h \in Handlers : DispatchInline(t, s, h)
           \/ RunPlain(t) \/ Return(t)
    PROVE  /\ UNCHANGED lanes
           /\ Busy(i)' <=> Busy(i)
           /\ \A w, u, k : At(i, w, u, k)' <=> At(i, w, u, k)
<1>1. CASE \E s \in Strands : Construct(t, s) \/ Destroy(t, s)
    BY <1>1, QuietStep DEF Construct, Destroy
<1>2. ASSUME NEW s \in Strands, NEW h \in Handlers, DispatchInline(t, s, h)
      PROVE  /\ UNCHANGED <<lanes, posted, todo>>
             /\ \E f \in Frames : Push(t, f) /\ f.how = "inline"
  <2> DEFINE f == Frame("inline", impl_[s], h, s)
  <2>1. f \in Frames /\ f.how = "inline"
      BY <1>2, GiverFacts, FramesMade DEF DispatchInline, Frame
  <2>2. Push(t, f) /\ UNCHANGED <<lanes, posted, todo>>
      BY <1>2 DEF DispatchInline
  <2> HIDE DEF f
  <2> QED
      BY <2>1, <2>2
<1>3. CASE RunPlain(t)
  <2> DEFINE f == Frame("plain", NoImpl, NoImpl, NoImpl)
  <2>1. f \in Frames /\ f.impl = NoImpl
      BY FramesMade DEF Frame
  <2>2. Push(t, f) /\ UNCHANGED <<lanes, posted, todo>>
      BY <1>3 DEF RunPlain
  <2> HIDE DEF f
  <2> QED
      BY <2>1, <2>2, QuietStep
<1>4. CASE Return(t)
    BY <1>4, QuietStep DEF Return, InPool
<1> QED
    BY <1>1, <1>2, <1>3, <1>4, QuietStep

\* do_complete keeps the token and calls a handler of the queue.
LEMMA CompleteStep ==
    ASSUME IInv, NEW t \in Threads, DoComplete(t), NEW i \in Impls
    PROVE  LET j == Last(stack[t]).impl IN
           /\ UNCHANGED <<count_, posted, todo>>
           /\ \A w, u, k : At(i, w, u, k)' <=> At(i, w, u, k)
           /\ i # j => (Busy(i)' <=> Busy(i)) /\ queue_'[i] = queue_[i]
           /\ i = j => /\ ~Busy(i) /\ Busy(i)' /\ queue_'[i] = Tail(queue_[i])
                       /\ Len(queue_[i]) = Len(queue_'[i]) + 1
<1> DEFINE j == Last(stack[t]).impl
           next == Head(queue_[j])
           f == Frame("complete", j, next.op, next.strand)
<1>0. TypeOK
    BY DEF IInv
<1>1. /\ stack[t] # <<>> /\ stack' = [stack EXCEPT ![t] = Append(Front(@), f)]
      /\ f \in Frames /\ f.impl = Last(stack[t]).impl
      /\ f.how = Last(stack[t]).how /\ f.how # "inline" /\ f.op # NoHandler
    BY CompletedFrame
<1>2. /\ queue_' = [queue_ EXCEPT ![j] = Tail(@)]
      /\ UNCHANGED <<count_, posted, todo>>
    BY DEF DoComplete
<1>3. /\ j \in Impls /\ queue_[j] # <<>> /\ ~Busy(j)
      /\ queue_[j] \in Seq([op : Handlers, strand : Strands])
    BY HandlerWaits DEF DoComplete
<1>4. f.impl = j
    BY <1>1
<1> HIDE DEF j, f
<1>5. \A u \in Threads : \A k : Up(i, u, k)' <=> Up(i, u, k)
    BY <1>0, <1>1, ReplaceUp
<1>6. (i # j => (Busy(i)' <=> Busy(i))) /\ (i = j => Busy(i)')
    BY <1>0, <1>1, <1>4, ReplaceUp
<1>7. /\ i # j => queue_'[i] = queue_[i]
      /\ i = j => queue_'[i] = Tail(queue_[i])
    BY <1>0, <1>2, <1>3 DEF TypeOK
<1>8. Len(queue_[j]) = Len(Tail(queue_[j])) + 1
    BY <1>3
<1>9. \A w, u, k : At(i, w, u, k)' <=> At(i, w, u, k)
    BY <1>2, <1>5 DEF At
<1> QED
    BY <1>2, <1>3, <1>6, <1>7, <1>8, <1>9 DEF j

LEMMA TokenStep == IInv /\ [Next]_vars /\ ~shutdown_' => TokenInv'
<1> SUFFICES ASSUME IInv, [Next]_vars, ~shutdown_' PROVE TokenInv'
    OBVIOUS
<1>1. TypeOK /\ (~shutdown_ => TokenInv)
    BY DEF IInv
<1>2. ~shutdown_
    BY StaysShut
<1>3. ASSUME NEW t \in Threads, NEW s \in Strands, NEW h \in Handlers,
             Post(t, s, h) \/ DispatchLater(t, s, h)
      PROVE  TokenInv'
    BY <1>1, <1>2, <1>3, TokenEnqueue DEF Post, DispatchLater
<1>4. ASSUME NEW t \in Threads, NEW s \in Strands, NEW h \in Handlers, DispatchNow(t, s, h)
      PROVE  TokenInv'
    BY <1>1, <1>2, <1>4, TokenDispatch
<1>5. ASSUME NEW t \in Threads,
             \/ \E s \in Strands : Construct(t, s) \/ Destroy(t, s)
             \/ \E s \in Strands, h \in Handlers : DispatchInline(t, s, h)
             \/ RunPlain(t) \/ Return(t)
      PROVE  TokenInv'
  <2> SUFFICES ASSUME NEW i \in Impls PROVE HasOne(i)'
      BY DEF TokenInv
  <2>1. UNCHANGED lanes /\ \A w, u, k : At(i, w, u, k)' <=> At(i, w, u, k)
      BY <1>1, <1>5, QuietActions
  <2> QED
      BY <1>1, <1>2, <2>1, TokenStays DEF TokenInv, lanes
<1>6. ASSUME NEW t \in Threads, Schedule(t) PROVE TokenInv'
    BY <1>1, <1>2, <1>6, TokenSchedule
<1>7. ASSUME NEW t \in Threads, Take(t) PROVE TokenInv'
    BY <1>1, <1>2, <1>7, TokenTake
<1>8. ASSUME NEW t \in Threads, DoComplete(t) PROVE TokenInv'
  <2> SUFFICES ASSUME NEW i \in Impls PROVE HasOne(i)'
      BY DEF TokenInv
  <2>1. UNCHANGED count_ /\ \A w, u, k : At(i, w, u, k)' <=> At(i, w, u, k)
      BY <1>8, CompleteStep
  <2> QED
      BY <1>1, <1>2, <2>1, TokenStays DEF TokenInv
<1>9. ASSUME NEW t \in Threads, OnExit(t) PROVE TokenInv'
    BY <1>9, TokenExit
<1>10. CASE UNCHANGED vars
  <2> SUFFICES ASSUME NEW i \in Impls PROVE HasOne(i)'
      BY DEF TokenInv
  <2>1. UNCHANGED <<lanes, posted, todo, stack>>
      BY <1>10 DEF vars
  <2>2. \A w, u, k : At(i, w, u, k)' <=> At(i, w, u, k)
      BY <1>1, <2>1, QuietStep
  <2> QED
      BY <1>1, <1>2, <2>1, <2>2, TokenStays DEF TokenInv, lanes
<1>11. ASSUME NEW t \in Threads, Shutdown(t) PROVE FALSE
    BY <1>11 DEF Shutdown
<1> QED
    BY <1>3, <1>4, <1>5, <1>6, <1>7, <1>8, <1>9, <1>10, <1>11 DEF Next, Submit, Gone

LEMMA CountStep == IInv /\ [Next]_vars /\ ~shutdown_' => CountInv'
<1> SUFFICES ASSUME IInv, [Next]_vars, ~shutdown_', NEW i \in Impls PROVE CountIs(i)'
    BY DEF CountInv
<1>1. TypeOK /\ (~shutdown_ => TokenInv /\ CountIs(i))
    BY DEF IInv, CountInv
<1>2. ~shutdown_
    BY StaysShut
<1>3. count_ \in [Impls -> Nat] /\ \A j \in Impls : Len(queue_[j]) \in Nat
    BY <1>1 DEF TypeOK
<1>4. ASSUME NEW t \in Threads, NEW s \in Strands, NEW h \in Handlers,
             Post(t, s, h) \/ DispatchLater(t, s, h)
      PROVE  CountIs(i)'
  <2>1. MayGive(t, s, h) /\ Enqueue(t, s, h) /\ UNCHANGED stack
      BY <1>4 DEF Post, DispatchLater
  <2>2. Busy(i)' <=> Busy(i)
      BY <2>1, StayUp
  <2>3. \/ count_'[i] = count_[i] /\ queue_'[i] = queue_[i]
        \/ count_'[i] = count_[i] + 1 /\ Len(queue_'[i]) = Len(queue_[i]) + 1
      BY <1>1, <2>1, EnqueueFacts
  <2>4. CASE Busy(i)
    <3>1. count_[i] = Len(queue_[i]) + 1
        BY <1>1, <1>2, <2>4 DEF CountIs
    <3>2. count_'[i] = Len(queue_'[i]) + 1
        BY <1>3, <2>3, <3>1
    <3> QED
        BY <2>2, <2>4, <3>2 DEF CountIs
  <2>5. CASE ~Busy(i)
    <3>1. count_[i] = Len(queue_[i]) + 0
        BY <1>1, <1>2, <2>5 DEF CountIs
    <3>2. count_'[i] = Len(queue_'[i]) + 0
        BY <1>3, <2>3, <3>1
    <3> QED
        BY <2>2, <2>5, <3>2 DEF CountIs
  <2> QED
      BY <2>4, <2>5
<1>5. ASSUME NEW t \in Threads, NEW s \in Strands, NEW h \in Handlers, DispatchNow(t, s, h)
      PROVE  CountIs(i)'
  <2> DEFINE j == impl_[s]
             f == Frame("dispatch", j, h, s)
  <2>1. /\ j \in Impls /\ f \in Frames /\ f.impl = j /\ f.how # "inline"
        /\ f.op # NoHandler
      BY <1>1, <1>5, GiverFacts, FramesMade, StrandAssumption DEF DispatchNow, Frame
  <2>2. /\ count_[j] = 0 /\ count_' = [count_ EXCEPT ![j] = @ + 1]
        /\ Push(t, f) /\ queue_' = queue_
      BY <1>5 DEF DispatchNow, Idle
  <2> HIDE DEF j, f
  <2>3. Busy(i)' <=> Busy(i) \/ i = j
      BY <1>1, <2>1, <2>2, PushUp
  <2>4. CASE i = j
    <3>1. Len(queue_[i]) = 0
      <4>1. count_[i] = Len(queue_[i]) + 0 \/ count_[i] = Len(queue_[i]) + 1
          BY <1>1, <1>2 DEF CountIs
      <4> QED
          BY <1>3, <2>2, <2>4, <4>1
    <3>2. count_'[i] = 1
        BY <1>3, <2>1, <2>2, <2>4
    <3> QED
        BY <2>2, <2>3, <2>4, <3>1, <3>2 DEF CountIs
  <2>5. CASE i # j
    <3>1. count_'[i] = count_[i]
        BY <1>3, <2>2, <2>5
    <3> QED
        BY <1>1, <1>2, <2>2, <2>3, <2>5, <3>1 DEF CountIs
  <2> QED
      BY <2>4, <2>5
<1>6. ASSUME NEW t \in Threads,
             \/ \E s \in Strands : Construct(t, s) \/ Destroy(t, s)
             \/ \E s \in Strands, h \in Handlers : DispatchInline(t, s, h)
             \/ RunPlain(t) \/ Return(t)
      PROVE  CountIs(i)'
  <2>1. UNCHANGED lanes /\ (Busy(i)' <=> Busy(i))
      BY <1>1, <1>6, QuietActions
  <2> QED
      BY <1>1, <1>2, <2>1 DEF CountIs, lanes
<1>7. ASSUME NEW t \in Threads, Schedule(t) PROVE CountIs(i)'
  <2>1. UNCHANGED lanes /\ UNCHANGED stack
      BY <1>7 DEF Schedule
  <2>2. Busy(i)' <=> Busy(i)
      BY <2>1, StayUp
  <2> QED
      BY <1>1, <1>2, <2>1, <2>2 DEF CountIs, lanes
<1>8. ASSUME NEW t \in Threads, Take(t) PROVE CountIs(i)'
  <2> DEFINE f == Frame("complete", Head(posted), NoHandler, NoHandler)
  <2>1. f \in Frames /\ f.op = NoHandler
      BY <1>1, <1>8, FramesMade DEF Take, TypeOK, Frame
  <2>2. Push(t, f) /\ UNCHANGED lanes
      BY <1>8 DEF Take
  <2> HIDE DEF f
  <2>3. Busy(i)' <=> Busy(i)
      BY <1>1, <2>1, <2>2, PushUp
  <2> QED
      BY <1>1, <1>2, <2>2, <2>3 DEF CountIs, lanes
<1>9. ASSUME NEW t \in Threads, DoComplete(t) PROVE CountIs(i)'
  <2>1. count_' = count_
      BY <1>9, CompleteStep
  <2>2. CASE i = Last(stack[t]).impl
    <3>1. /\ ~Busy(i) /\ Busy(i)' /\ Len(queue_[i]) = Len(queue_'[i]) + 1
        BY <1>9, <2>2, CompleteStep
    <3> QED
        BY <1>1, <1>2, <1>3, <2>1, <3>1 DEF CountIs
  <2>3. CASE i # Last(stack[t]).impl
    <3>1. (Busy(i)' <=> Busy(i)) /\ queue_'[i] = queue_[i]
        BY <1>9, <2>3, CompleteStep
    <3> QED
        BY <1>1, <1>2, <2>1, <3>1 DEF CountIs
  <2> QED
      BY <2>2, <2>3
<1>10. ASSUME NEW t \in Threads, OnExit(t) PROVE CountIs(i)'
  <2>1. PICK j \in Impls : j = Last(stack[t]).impl
      BY <1>10, HandlerCounted DEF OnExit
  <2>2. /\ count_[j] # 0 /\ Busy(j) /\ stack[t] # <<>> /\ Up(j, t, Len(stack[t]))
        /\ \A u \in Threads : \A l : Up(j, u, l) => u = t /\ l = Len(stack[t])
      BY <1>10, <2>1, HandlerCounted DEF OnExit
  <2>3. count_' = [count_ EXCEPT ![j] = @ - 1] /\ Pop(t) /\ queue_' = queue_
      BY <1>10, <2>1 DEF OnExit
  <2>4. Busy(i)' <=>
            \E u \in Threads : \E k \in DOMAIN stack[u] :
                /\ Up(i, u, k) /\ stack[u][k].op # NoHandler
                /\ ~(u = t /\ k = Len(stack[t]))
      BY <1>1, <2>2, <2>3, PopUp
  <2>5. CASE i = j
    <3>1. ~Busy(i)'
        BY <2>2, <2>4, <2>5
    <3>2. count_'[i] = count_[i] - 1
        BY <1>3, <2>3, <2>5
    <3>3. count_[i] = Len(queue_[i]) + 1
        BY <1>1, <1>2, <2>2, <2>5 DEF CountIs
    <3> QED
        BY <1>3, <2>3, <3>1, <3>2, <3>3 DEF CountIs
  <2>6. CASE i # j
    <3>1. ~Up(i, t, Len(stack[t]))
        BY <2>2, <2>6 DEF Up
    <3>2. Busy(i)' <=> Busy(i)
        BY <2>4, <3>1 DEF Busy
    <3>3. count_'[i] = count_[i]
        BY <1>3, <2>3, <2>6
    <3> QED
        BY <1>1, <1>2, <2>3, <3>2, <3>3 DEF CountIs
  <2> QED
      BY <2>5, <2>6
<1>11. CASE UNCHANGED vars
  <2>1. UNCHANGED lanes /\ UNCHANGED stack
      BY <1>11 DEF vars
  <2>2. Busy(i)' <=> Busy(i)
      BY <2>1, StayUp
  <2> QED
      BY <1>1, <1>2, <2>1, <2>2 DEF CountIs, lanes
<1>12. ASSUME NEW t \in Threads, Shutdown(t) PROVE FALSE
    BY <1>12 DEF Shutdown
<1> QED
    BY <1>4, <1>5, <1>6, <1>7, <1>8, <1>9, <1>10, <1>11, <1>12 DEF Next, Submit, Gone

-----------------------------------------------------------------------------
(* The invariant and what follows from it.                                 *)

LEMMA InitInv == Init => IInv
<1> SUFFICES ASSUME Init PROVE IInv
    OBVIOUS
<1>1. \A t \in Threads : stack[t] = <<>> /\ todo[t] = NoImpl
    BY DEF Init
<1>2. TypeOK
  <2>1. /\ <<>> \in Seq(Frames) /\ <<>> \in Seq(Impls)
        /\ <<>> \in Seq([op : Handlers, strand : Strands])
      OBVIOUS
  <2> QED
      BY <2>1 DEF Init, TypeOK
<1>3. NestInv /\ ShutInv
    BY <1>1 DEF NestInv, ShutInv
<1>4. ASSUME NEW i \in Impls PROVE HasOne(i) /\ CountIs(i)
  <2>1. \A t \in Threads : \A k : ~Up(i, t, k)
      BY <1>1 DEF Up
  <2>2. ~Busy(i)
      BY <2>1 DEF Busy
  <2>3. \A w, t, k : ~At(i, w, t, k)
      BY <1>1, <2>1, StrandAssumption DEF Init, At
  <2>4. HasOne(i)
      BY <2>3 DEF Init, HasOne, Single, Some
  <2>5. count_[i] = 0 /\ Len(queue_[i]) = 0
      BY DEF Init
  <2> QED
      BY <2>2, <2>4, <2>5 DEF CountIs
<1> QED
    BY <1>2, <1>3, <1>4 DEF IInv, TokenInv, CountInv

\* IInv holds in every state.
THEOREM StrandInvariant == Spec => []IInv
<1>1. IInv /\ [Next]_vars => IInv'
    BY TypeStep, NestStep, ShutStep, TokenStep, CountStep DEF IInv
<1> QED
    BY InitInv, <1>1, PTL DEF Spec

\* Tokens(i) is the set of the places of i's token.
LEMMA TokensAt ==
    ASSUME NEW i
    PROVE  /\ \A w, t, k : At(i, w, t, k) => <<w, t, k>> \in Tokens(i)
           /\ \A p \in Tokens(i) : \E w, t, k : p = <<w, t, k>> /\ At(i, w, t, k)
<1>1. ASSUME NEW w, NEW t, NEW k, At(i, w, t, k) PROVE <<w, t, k>> \in Tokens(i)
    BY <1>1 DEF At, Tokens, Up
<1>2. ASSUME NEW p \in Tokens(i) PROVE \E w, t, k : p = <<w, t, k>> /\ At(i, w, t, k)
  <2>1. CASE \E k \in DOMAIN posted : posted[k] = i /\ p = <<"posted", NoThread, k>>
      BY <2>1 DEF At
  <2>2. CASE \E t \in Threads : todo[t] = i /\ p = <<"todo", t, 0>>
      BY <2>2 DEF At
  <2>3. CASE \E t \in Threads : \E k \in DOMAIN stack[t] :
               /\ stack[t][k].impl = i /\ stack[t][k].how # "inline"
               /\ p = <<"called", t, k>>
      BY <2>3 DEF At, Up
  <2> QED
      BY <2>1, <2>2, <2>3 DEF Tokens
<1> QED
    BY <1>1, <1>2

\* A handler is being called if and only if some thread calls it.
LEMMA BusyCallers == \A i : Busy(i) <=> Callers(i) # {}
    BY DEF Busy, Callers, Calls, ToSet, Up

LEMMA IInvSound == IInv => ImplSound
<1> SUFFICES ASSUME IInv PROVE ImplSound
    OBVIOUS
<1>1. TypeOK /\ NestInv /\ ShutInv /\ (~shutdown_ => TokenInv /\ CountInv)
    BY DEF IInv
<1>2. NonConcurrent
  <2> SUFFICES ASSUME NEW i \in Impls, NEW t \in Owner(i), NEW u \in Owner(i) PROVE t = u
      BY DEF NonConcurrent
  <2>1. t \in Threads /\ InStrand(t, i) /\ u \in Threads /\ InStrand(u, i)
      BY DEF Owner
  <2>2. PICK k \in DOMAIN stack[t] : Up(i, t, k)
      BY <1>1, <2>1, OwnerHoldsToken
  <2>3. PICK l \in DOMAIN stack[u] : Up(i, u, l)
      BY <1>1, <2>1, OwnerHoldsToken
  <2>4. ~shutdown_
      BY <1>1, <2>1, <2>2 DEF ShutInv
  <2> QED
      BY <1>1, <2>1, <2>2, <2>3, <2>4, OnlyUpcall
<1>3. CountExact
  <2> SUFFICES ASSUME ~shutdown_, NEW i \in Impls
               PROVE  count_[i] = Len(queue_[i]) + (IF Callers(i) = {} THEN 0 ELSE 1)
      BY DEF CountExact
  <2>1. CASE Busy(i)
      BY <1>1, <2>1, BusyCallers DEF CountInv, CountIs
  <2>2. CASE ~Busy(i)
      BY <1>1, <2>2, BusyCallers DEF CountInv, CountIs
  <2> QED
      BY <2>1, <2>2
<1>4. OneToken
  <2> SUFFICES ASSUME ~shutdown_, NEW i \in Impls
               PROVE  IF count_[i] = 0 THEN Tokens(i) = {}
                      ELSE \E p \in Tokens(i) : Tokens(i) = {p}
      BY DEF OneToken
  <2>1. CASE count_[i] = 0
    <3>1. \A w, t, k : ~At(i, w, t, k)
        BY <1>1, <2>1, NoToken
    <3> QED
        BY <2>1, <3>1, TokensAt
  <2>2. CASE count_[i] # 0
    <3>1. PICK w, t, k : At(i, w, t, k)
        BY <1>1, <2>2 DEF TokenInv, HasOne, Some
    <3>2. \A x, u, l : At(i, x, u, l) => x = w /\ u = t /\ l = k
        BY <1>1, <3>1, OnlyToken
    <3>3. <<w, t, k>> \in Tokens(i)
        BY <3>1, TokensAt
    <3>4. \A p \in Tokens(i) : p = <<w, t, k>>
        BY <3>2, TokensAt
    <3> QED
        BY <2>2, <3>3, <3>4
  <2> QED
      BY <2>1, <2>2
<1> QED
    BY <1>1, <1>2, <1>3, <1>4 DEF ImplSound

\* Every strand_impl is sound: no two threads are in it at once, its count
\* is exact, and it has one token in the scheduler while it has handlers.
THEOREM StrandsAreSound == Spec => []ImplSound
    BY StrandInvariant, IInvSound, PTL

-----------------------------------------------------------------------------
(* Each implementation is a SerialExecutor.                                *)

\* The handlers of a queue.
OpsOf(q) == [k \in DOMAIN q |-> q[k].op]
Entries == [op : Handlers, strand : Strands]

LEMMA OpsOfSeq ==
    ASSUME NEW q \in Seq(Entries)
    PROVE  /\ OpsOf(q) \in [1..Len(q) -> Handlers]
           /\ OpsOf(q) \in Seq(Handlers) /\ Len(OpsOf(q)) = Len(q)
<1>1. Len(q) \in Nat /\ DOMAIN q = 1..Len(q)
    OBVIOUS
<1>2. \A k \in 1..Len(q) : q[k] \in Entries
    OBVIOUS
<1>3. \A e \in Entries : e.op \in Handlers
    BY DEF Entries
<1>4. OpsOf(q) \in [1..Len(q) -> Handlers]
    BY <1>1, <1>2, <1>3 DEF OpsOf
<1>5. OpsOf(q) \in Seq(Handlers)
    BY <1>1, <1>4
<1> QED
    BY <1>1, <1>4, <1>5, LenProperties

LEMMA OpsOfNone == OpsOf(<<>>) = <<>>
<1>1. <<>> \in Seq(Entries) /\ Len(<<>>) = 0
    OBVIOUS
<1>2. OpsOf(<<>>) \in Seq(Handlers) /\ Len(OpsOf(<<>>)) = 0
    BY <1>1, OpsOfSeq
<1> QED
    BY <1>2

LEMMA OpsOfAppend ==
    ASSUME NEW q \in Seq(Entries), NEW e \in Entries
    PROVE  OpsOf(Append(q, e)) = Append(OpsOf(q), e.op)
<1> DEFINE r == OpsOf(Append(q, e))
           w == Append(OpsOf(q), e.op)
<1>1. Len(q) \in Nat /\ DOMAIN q = 1..Len(q) /\ DOMAIN Append(q, e) = 1..(Len(q) + 1)
    OBVIOUS
<1>2. OpsOf(q) \in Seq(Handlers)
    BY OpsOfSeq
<1>3. Len(OpsOf(q)) = Len(q)
    BY OpsOfSeq
<1>4. e.op \in Handlers
    BY DEF Entries
<1>5. /\ w \in Seq(Handlers) /\ Len(w) = Len(q) + 1
      /\ \A k \in 1..Len(q) : w[k] = q[k].op
      /\ w[Len(q) + 1] = e.op
  <2>1. w \in Seq(Handlers) /\ Len(w) = Len(OpsOf(q)) + 1
      BY <1>2, <1>4
  <2>2. /\ \A k \in 1..Len(OpsOf(q)) : w[k] = OpsOf(q)[k]
        /\ w[Len(OpsOf(q)) + 1] = e.op
      BY <1>2, <1>4
  <2>3. \A k \in 1..Len(q) : OpsOf(q)[k] = q[k].op
      BY <1>1 DEF OpsOf
  <2> QED
      BY <1>3, <2>1, <2>2, <2>3
<1>6. /\ r \in [1..(Len(q) + 1) -> Handlers]
      /\ \A k \in 1..Len(q) : r[k] = q[k].op
      /\ r[Len(q) + 1] = e.op
  <2>1. /\ \A k \in 1..Len(q) : Append(q, e)[k] = q[k]
        /\ Append(q, e)[Len(q) + 1] = e
      OBVIOUS
  <2>2. Append(q, e) \in Seq(Entries) /\ Len(Append(q, e)) = Len(q) + 1
      OBVIOUS
  <2>3. r \in [1..(Len(q) + 1) -> Handlers]
      BY <2>2, OpsOfSeq
  <2> QED
      BY <1>1, <2>1, <2>3 DEF OpsOf
<1>7. w \in [1..(Len(q) + 1) -> Handlers]
    BY <1>5, LenProperties
<1> HIDE DEF r, w
<1>8. \A k \in 1..(Len(q) + 1) : r[k] = w[k]
    BY <1>1, <1>5, <1>6
<1>9. r = w
    BY <1>6, <1>7, <1>8
<1> QED
    BY <1>9 DEF r, w

LEMMA OpsOfTail ==
    ASSUME NEW q \in Seq(Entries), q # <<>>
    PROVE  OpsOf(q) # <<>> /\ OpsOf(Tail(q)) = Tail(OpsOf(q))
<1> DEFINE r == OpsOf(Tail(q))
           w == Tail(OpsOf(q))
<1>1. Len(q) \in Nat /\ Len(q) >= 1 /\ DOMAIN q = 1..Len(q)
    OBVIOUS
<1>2. OpsOf(q) \in Seq(Handlers)
    BY OpsOfSeq
<1>3. Len(OpsOf(q)) = Len(q)
    BY OpsOfSeq
<1>4. OpsOf(q) # <<>>
    BY <1>1, <1>3
<1>5. /\ w \in Seq(Handlers) /\ Len(w) = Len(q) - 1
      /\ \A k \in 1..(Len(q) - 1) : w[k] = q[k + 1].op
  <2>1. w \in Seq(Handlers) /\ Len(w) = Len(OpsOf(q)) - 1
      BY <1>2, <1>4
  <2>2. \A k \in 1..(Len(OpsOf(q)) - 1) : w[k] = OpsOf(q)[k + 1]
      BY <1>2, <1>4
  <2>3. \A k \in 1..Len(q) : OpsOf(q)[k] = q[k].op
      BY <1>1 DEF OpsOf
  <2>4. \A k \in 1..(Len(q) - 1) : k + 1 \in 1..Len(q)
      BY <1>1
  <2> QED
      BY <1>3, <2>1, <2>2, <2>3, <2>4
<1>6. /\ r \in [1..(Len(q) - 1) -> Handlers]
      /\ \A k \in 1..(Len(q) - 1) : r[k] = q[k + 1].op
  <2>1. /\ DOMAIN Tail(q) = 1..(Len(q) - 1)
        /\ \A k \in 1..(Len(q) - 1) : Tail(q)[k] = q[k + 1]
      OBVIOUS
  <2>2. Tail(q) \in Seq(Entries) /\ Len(Tail(q)) = Len(q) - 1
      OBVIOUS
  <2>3. r \in [1..(Len(q) - 1) -> Handlers]
      BY <2>2, OpsOfSeq
  <2> QED
      BY <2>1, <2>3 DEF OpsOf
<1>7. w \in [1..(Len(q) - 1) -> Handlers]
    BY <1>5, LenProperties
<1> HIDE DEF r, w
<1>8. r = w
    BY <1>5, <1>6, <1>7
<1> QED
    BY <1>4, <1>8 DEF r, w

\* The owner of a lane is the thread that holds the token, while it calls.
OwnerIs ==
    \A i \in Impls :
        /\ ~Busy(i) => Caller[i] = NoThread
        /\ Busy(i) => \A t \in Threads : \A k : Up(i, t, k) => Caller[i] = t

LEMMA OwnerFacts == IInv => OwnerIs
<1> SUFFICES ASSUME IInv, NEW i \in Impls
             PROVE  /\ ~Busy(i) => Caller[i] = NoThread
                    /\ Busy(i) => \A t \in Threads : \A k : Up(i, t, k) => Caller[i] = t
    BY DEF OwnerIs
<1>1. CASE ~Busy(i)
    BY <1>1, BusyCallers DEF Caller
<1>2. CASE Busy(i)
  <2> SUFFICES ASSUME NEW t \in Threads, NEW k, Up(i, t, k) PROVE Caller[i] = t
      BY <1>2
  <2>1. stack[t] # <<>>
      BY DEF Up
  <2>2. TypeOK /\ TokenInv
      BY <2>1 DEF IInv, ShutInv
  <2>3. ASSUME NEW u \in Callers(i) PROVE u = t
    <3>1. PICK l \in DOMAIN stack[u] : Up(i, u, l)
        BY <2>3 DEF Callers, Calls, ToSet, Up
    <3> QED
        BY <2>2, <2>3, <3>1, OnlyUpcall DEF Callers
  <2>4. Callers(i) # {}
      BY <1>2, BusyCallers
  <2>5. (CHOOSE u \in Callers(i) : TRUE) \in Callers(i)
      BY <2>4
  <2> QED
      BY <2>3, <2>4, <2>5 DEF Caller
<1> QED
    BY <1>1, <1>2

\* A thread that is in a strand before and after a step goes on owning it.
LEMMA OwnerStays ==
    ASSUME OwnerIs, OwnerIs', NEW i \in Impls, Busy(i)' <=> Busy(i),
           \/ ~Busy(i)
           \/ \A u \in Threads : \A k : Up(i, u, k)' <=> Up(i, u, k)
    PROVE  Caller'[i] = Caller[i]
<1>1. CASE ~Busy(i)
    BY <1>1 DEF OwnerIs
<1>2. CASE Busy(i)
  <2>1. PICK u \in Threads : \E k : Up(i, u, k)
      BY <1>2 DEF Busy
  <2>2. PICK k : Up(i, u, k)
      BY <2>1
  <2>3. Up(i, u, k)'
      BY <1>2, <2>2
  <2> QED
      BY <1>2, <2>2, <2>3 DEF OwnerIs
<1> QED
    BY <1>1, <1>2

\* Nobody is calling a handler of a strand that the thread has not entered.
LEMMA CallersStay ==
    ASSUME OwnerIs, OwnerIs',
           \A i \in Impls :
               /\ Busy(i)' <=> Busy(i)
               /\ ~Busy(i) \/ \A u \in Threads : \A k : Up(i, u, k)' <=> Up(i, u, k)
    PROVE  Caller' = Caller
<1>1. \A i \in Impls : Caller'[i] = Caller[i]
    BY OwnerStays
<1> QED
    BY <1>1 DEF Caller

\* One caller comes or goes.
LEMMA CallerChanges ==
    ASSUME OwnerIs, OwnerIs', NEW j \in Impls, NEW v, Caller'[j] = v,
           \A i \in Impls \ {j} :
               /\ Busy(i)' <=> Busy(i)
               /\ \A u \in Threads : \A k : Up(i, u, k)' <=> Up(i, u, k)
    PROVE  Caller' = [Caller EXCEPT ![j] = v]
<1>1. \A i \in Impls \ {j} : Caller'[i] = Caller[i]
    BY OwnerStays
<1>2. Caller = [i \in Impls |-> Caller[i]] /\ Caller' = [i \in Impls |-> Caller'[i]]
    BY DEF Caller
<1> QED
    BY <1>1, <1>2

LEMMA WaitingIs == Waiting = [i \in Impls |-> OpsOf(queue_[i])]
    BY DEF Waiting, OpsOf

\* post, and dispatch that is not called at once: a handler is given.
LEMMA EnqueueGives ==
    ASSUME TypeOK, OwnerIs, OwnerIs',
           NEW t \in Threads, NEW s \in Strands, NEW h \in Handlers,
           MayGive(t, s, h), Enqueue(t, s, h), UNCHANGED stack
    PROVE  Serial!Next
<1> DEFINE j == impl_[s]
           e == [op |-> h, strand |-> s]
<1>1. j \in Impls /\ queue_' = [queue_ EXCEPT ![j] = Append(@, e)]
    BY GiverFacts, EnqueueFacts
<1>2. e \in Entries /\ e.op = h
    BY DEF Entries
<1>3. queue_ \in [Impls -> Seq(Entries)]
    BY DEF TypeOK, Entries
<1> HIDE DEF j, e
<1>4. OpsOf(queue_'[j]) = Append(OpsOf(queue_[j]), h)
    BY <1>1, <1>2, <1>3, OpsOfAppend
<1>5. \A i \in Impls : i # j => queue_'[i] = queue_[i]
    BY <1>1, <1>3
<1>6. Waiting' = [Waiting EXCEPT ![j] = Append(@, h)]
  <2>1. Waiting' = [i \in Impls |-> OpsOf(queue_'[i])]
      BY DEF Waiting, OpsOf
  <2>2. \A i \in Impls :
            OpsOf(queue_'[i]) = IF i = j THEN Append(Waiting[j], h) ELSE Waiting[i]
    <3>1. \A i \in Impls : Waiting[i] = OpsOf(queue_[i])
        BY WaitingIs
    <3> QED
        BY <1>1, <1>4, <1>5, <3>1
  <2>3. Waiting = [i \in Impls |-> Waiting[i]]
      BY WaitingIs
  <2> QED
      BY <1>1, <2>1, <2>2, <2>3
<1>7. Caller' = Caller
    BY StayUp, CallersStay
<1>8. Serial!Give(j, h)
    BY <1>6, <1>7 DEF Serial!Give
<1> QED
    BY <1>1, <1>8 DEF Serial!Next

\* dispatch on an idle implementation: given and begun.
LEMMA DispatchBegins ==
    ASSUME TypeOK, TokenInv, CountInv, OwnerIs, OwnerIs',
           NEW t \in Threads, NEW s \in Strands, NEW h \in Handlers, DispatchNow(t, s, h)
    PROVE  Serial!Next
<1> DEFINE j == impl_[s]
           f == Frame("dispatch", j, h, s)
<1>1. /\ j \in Impls /\ f \in Frames /\ f.impl = j /\ f.how # "inline"
      /\ f.op # NoHandler
    BY GiverFacts, FramesMade, StrandAssumption DEF DispatchNow, Frame
<1>2. count_[j] = 0 /\ Push(t, f) /\ queue_' = queue_
    BY DEF DispatchNow, Idle
<1> HIDE DEF j, f
<1>0. PICK n : n = Len(stack[t]) + 1
    OBVIOUS
<1>3. queue_[j] \in Seq(Entries) /\ Len(queue_[j]) \in Nat
  <2>1. queue_ \in [Impls -> Seq(Entries)]
      BY DEF TypeOK, Entries
  <2> QED
      BY <1>1, <2>1
<1>4. ~Busy(j) /\ Len(queue_[j]) = 0
  <2>1. CASE Busy(j)
    <3>1. count_[j] = Len(queue_[j]) + 1
        BY <1>1, <2>1 DEF CountInv, CountIs
    <3> QED
        BY <1>2, <1>3, <3>1
  <2>2. CASE ~Busy(j)
    <3>1. count_[j] = Len(queue_[j]) + 0
        BY <1>1, <2>2 DEF CountInv, CountIs
    <3> QED
        BY <1>2, <1>3, <2>2, <3>1
  <2> QED
      BY <2>1, <2>2
<1>5. Waiting[j] = <<>>
  <2>1. OpsOf(queue_[j]) \in Seq(Handlers) /\ Len(OpsOf(queue_[j])) = 0
      BY <1>3, <1>4, OpsOfSeq
  <2>2. OpsOf(queue_[j]) = <<>>
      BY <2>1
  <2> QED
      BY <1>1, <2>2, WaitingIs
<1>6. Waiting' = Waiting
    BY <1>2 DEF Waiting
<1>7. Caller[j] = NoThread
    BY <1>1, <1>4 DEF OwnerIs
<1>8. ASSUME NEW i \in Impls, NEW u \in Threads, NEW k
      PROVE  Up(i, u, k)' <=> Up(i, u, k) \/ (u = t /\ k = n /\ i = j)
  <2>1. Up(i, u, k)' <=> \/ Up(i, u, k)
                         \/ /\ u = t /\ k = Len(stack[t]) + 1
                            /\ f.impl = i /\ f.how # "inline"
      BY <1>1, <1>2, PushUp
  <2> QED
      BY <1>0, <1>1, <2>1
<1>9. ASSUME NEW i \in Impls PROVE Busy(i)' <=> Busy(i) \/ i = j
    BY <1>1, <1>2, PushUp
<1>10. Caller'[j] = t
  <2>1. PICK i \in Impls : i = j
      BY <1>1
  <2>2. Up(i, t, n)' /\ Busy(i)'
      BY <1>8, <1>9, <2>1
  <2> QED
      BY <2>1, <2>2 DEF OwnerIs
<1>11. Caller' = [Caller EXCEPT ![j] = t]
    BY <1>1, <1>8, <1>9, <1>10, CallerChanges
<1>12. Serial!GiveAndBegin(j, t)
    BY <1>5, <1>6, <1>7, <1>11 DEF Serial!GiveAndBegin
<1> QED
    BY <1>1, <1>12 DEF Serial!Next

\* do_complete begins the oldest handler of a lane that has no owner.
LEMMA CompleteBegins ==
    ASSUME IInv, OwnerIs, OwnerIs', NEW t \in Threads, DoComplete(t)
    PROVE  Serial!Next
<1>0. TypeOK /\ queue_ \in [Impls -> Seq(Entries)]
    BY DEF IInv, TypeOK, Entries
<1>1. PICK j \in Impls : j = Last(stack[t]).impl
    BY HandlerWaits DEF DoComplete
<1>2. PICK n : n = Len(stack[t])
    OBVIOUS
<1>3. /\ queue_[j] # <<>> /\ ~Busy(j) /\ Up(j, t, n)
      /\ queue_' = [queue_ EXCEPT ![j] = Tail(@)]
    BY <1>1, <1>2, HandlerWaits DEF DoComplete
<1>4. ASSUME NEW i \in Impls
      PROVE  /\ \A w, u, k : At(i, w, u, k)' <=> At(i, w, u, k)
             /\ i # j => (Busy(i)' <=> Busy(i))
             /\ i = j => Busy(i)'
    BY <1>1, CompleteStep
<1>5. ASSUME NEW i \in Impls, NEW u \in Threads, NEW k
      PROVE  Up(i, u, k)' <=> Up(i, u, k)
  <2>1. At(i, "called", u, k)' <=> At(i, "called", u, k)
      BY <1>4
  <2> QED
      BY <2>1 DEF At
<1>6. OpsOf(queue_[j]) # <<>> /\ OpsOf(queue_'[j]) = Tail(OpsOf(queue_[j]))
    BY <1>0, <1>3, OpsOfTail
<1>7. Waiting' = [Waiting EXCEPT ![j] = Tail(@)] /\ Waiting[j] # <<>>
  <2>1. Waiting' = [i \in Impls |-> OpsOf(queue_'[i])]
      BY DEF Waiting, OpsOf
  <2>2. \A i \in Impls : i # j => queue_'[i] = queue_[i]
      BY <1>0, <1>3
  <2> QED
      BY <1>6, <2>1, <2>2, WaitingIs
<1>8. Caller[j] = NoThread
    BY <1>3 DEF OwnerIs
<1>9. Caller'[j] = t
  <2>1. Up(j, t, n)' /\ Busy(j)'
      BY <1>3, <1>4, <1>5
  <2> QED
      BY <2>1 DEF OwnerIs
<1>10. Caller' = [Caller EXCEPT ![j] = t]
    BY <1>4, <1>5, <1>9, CallerChanges
<1>11. Serial!Begin(j, t)
    BY <1>7, <1>8, <1>10 DEF Serial!Begin
<1> QED
    BY <1>11 DEF Serial!Next

\* The exit guards end the handler of the lane's owner.
LEMMA ExitEnds ==
    ASSUME IInv, OwnerIs, OwnerIs', NEW t \in Threads, OnExit(t)
    PROVE  Serial!Next
<1>0. TypeOK
    BY DEF IInv
<1>1. PICK j \in Impls : j = Last(stack[t]).impl
    BY HandlerCounted DEF OnExit
<1>2. PICK n : n = Len(stack[t])
    OBVIOUS
<1>3. /\ Busy(j) /\ stack[t] # <<>> /\ Up(j, t, n)
      /\ \A u \in Threads : \A l : Up(j, u, l) => u = t /\ l = n
    BY <1>1, <1>2, HandlerCounted DEF OnExit
<1>4. Pop(t) /\ queue_' = queue_
    BY DEF OnExit
<1>5. ASSUME NEW i \in Impls
      PROVE  /\ \A u \in Threads : \A k : Up(i, u, k)' <=> Up(i, u, k) /\ ~(u = t /\ k = n)
             /\ Busy(i)' <=> \E u \in Threads : \E k \in DOMAIN stack[u] :
                    /\ Up(i, u, k) /\ stack[u][k].op # NoHandler
                    /\ ~(u = t /\ k = n)
    BY <1>0, <1>2, <1>3, <1>4, PopUp
<1>6. ASSUME NEW i \in Impls \ {j}
      PROVE  /\ Busy(i)' <=> Busy(i)
             /\ \A u \in Threads : \A k : Up(i, u, k)' <=> Up(i, u, k)
  <2>1. ~Up(i, t, n)
      BY <1>3, <1>6 DEF Up
  <2> QED
      BY <1>5, <2>1 DEF Busy
<1>7. Caller[j] = t
    BY <1>3 DEF OwnerIs
<1>8. Caller'[j] = NoThread
  <2>1. ~Busy(j)'
      BY <1>3, <1>5
  <2> QED
      BY <2>1 DEF OwnerIs
<1>9. Caller' = [Caller EXCEPT ![j] = NoThread]
    BY <1>6, <1>8, CallerChanges
<1>10. Waiting' = Waiting
    BY <1>4 DEF Waiting
<1>11. Serial!End(j)
    BY <1>7, <1>9, <1>10, StrandAssumption DEF Serial!End
<1> QED
    BY <1>11 DEF Serial!Next

LEMMA SerialStep == IInv /\ OwnerIs /\ OwnerIs' /\ [Next]_vars => [Serial!Next]_(Serial!svars)
<1> SUFFICES ASSUME IInv, OwnerIs, OwnerIs', [Next]_vars
             PROVE  Serial!Next \/ UNCHANGED <<Waiting, Caller>>
    BY DEF Serial!svars
<1>1. TypeOK /\ ShutInv /\ (~shutdown_ => TokenInv /\ CountInv)
    BY DEF IInv
<1>2. ASSUME NEW t \in Threads, NEW s \in Strands, NEW h \in Handlers,
             Post(t, s, h) \/ DispatchLater(t, s, h)
      PROVE  Serial!Next
    BY <1>1, <1>2, EnqueueGives DEF Post, DispatchLater
<1>3. ASSUME NEW t \in Threads, NEW s \in Strands, NEW h \in Handlers, DispatchNow(t, s, h)
      PROVE  Serial!Next
  <2>1. ~shutdown_
      BY <1>3 DEF DispatchNow, MayGive, Running
  <2> QED
      BY <1>1, <1>3, <2>1, DispatchBegins
<1>4. ASSUME NEW t \in Threads,
             \/ \E s \in Strands : Construct(t, s) \/ Destroy(t, s)
             \/ \E s \in Strands, h \in Handlers : DispatchInline(t, s, h)
             \/ RunPlain(t) \/ Return(t)
      PROVE  UNCHANGED <<Waiting, Caller>>
  <2>1. ASSUME NEW i \in Impls
        PROVE  /\ UNCHANGED lanes
               /\ Busy(i)' <=> Busy(i)
               /\ \A w, u, k : At(i, w, u, k)' <=> At(i, w, u, k)
      BY <1>1, <1>4, QuietActions
  <2>2. Waiting' = Waiting
      BY <1>4 DEF Construct, Destroy, DispatchInline, RunPlain, Return, lanes, Waiting
  <2>3. ASSUME NEW i \in Impls, NEW u \in Threads, NEW k
        PROVE  Up(i, u, k)' <=> Up(i, u, k)
    <3>1. At(i, "called", u, k)' <=> At(i, "called", u, k)
        BY <2>1
    <3> QED
        BY <3>1 DEF At
  <2>4. Caller' = Caller
      BY <2>1, <2>3, CallersStay
  <2> QED
      BY <2>2, <2>4
<1>5. ASSUME UNCHANGED lanes, UNCHANGED stack PROVE UNCHANGED <<Waiting, Caller>>
  <2>1. Waiting' = Waiting
      BY <1>5 DEF lanes, Waiting
  <2>2. Caller' = Caller
      BY <1>5, StayUp, CallersStay
  <2> QED
      BY <2>1, <2>2
<1>6. ASSUME NEW t \in Threads, Take(t) PROVE UNCHANGED <<Waiting, Caller>>
  <2> DEFINE f == Frame("complete", Head(posted), NoHandler, NoHandler)
  <2>1. /\ posted \in Seq(Impls) /\ posted # <<>> /\ Head(posted) \in Impls
        /\ Push(t, f) /\ UNCHANGED lanes /\ ~shutdown_
      BY <1>1, <1>6 DEF Take, TypeOK
  <2>2. f \in Frames /\ f.op = NoHandler /\ f.impl = Head(posted)
      BY <2>1, FramesMade DEF Frame
  <2> HIDE DEF f
  <2>3. ASSUME NEW i \in Impls
        PROVE  /\ Busy(i)' <=> Busy(i)
               /\ ~Busy(i) \/ \A u \in Threads : \A k : Up(i, u, k)' <=> Up(i, u, k)
    <3>1. Busy(i)' <=> Busy(i)
        BY <1>1, <2>1, <2>2, PushUp
    <3>2. CASE i = Head(posted)
      <4>1. 1 \in DOMAIN posted /\ posted[1] = i
          BY <2>1, <3>2
      <4>2. At(i, "posted", NoThread, 1)
          BY <4>1 DEF At
      <4>3. ASSUME NEW u \in Threads, NEW k PROVE ~Up(i, u, k)
        <5>1. ~At(i, "called", u, k)
            BY <1>1, <2>1, <4>2, OnlyToken
        <5> QED
            BY <5>1 DEF At
      <4> QED
          BY <3>1, <4>3 DEF Busy
    <3>3. CASE i # Head(posted)
        BY <1>1, <2>1, <2>2, <3>1, <3>3, PushUp
    <3> QED
        BY <3>2, <3>3
  <2>4. Waiting' = Waiting
      BY <2>1 DEF lanes, Waiting
  <2> QED
      BY <2>3, <2>4, CallersStay
<1>7. ASSUME NEW t \in Threads, DoComplete(t) PROVE Serial!Next
    BY <1>7, CompleteBegins
<1>8. ASSUME NEW t \in Threads, OnExit(t) PROVE Serial!Next
    BY <1>8, ExitEnds
<1>9. ASSUME NEW t \in Threads, Shutdown(t) PROVE Serial!Next
  <2>1. UNCHANGED stack /\ (\A u \in Threads : stack[u] = <<>>) /\ queue_' = [i \in Impls |-> <<>>]
      BY <1>9 DEF Shutdown
  <2>2. Caller' = Caller
      BY <2>1, StayUp, CallersStay
  <2>3. \A i \in Impls : Caller[i] = NoThread
    <3>1. \A i \in Impls : ~Busy(i)
        BY <2>1 DEF Busy
    <3> QED
        BY <3>1 DEF OwnerIs
  <2>4. Waiting' = [i \in Impls |-> <<>>]
    <3>1. Waiting' = [i \in Impls |-> OpsOf(queue_'[i])]
        BY DEF Waiting, OpsOf
    <3> QED
        BY <2>1, <3>1, OpsOfNone
  <2>5. Serial!Drop
      BY <2>2, <2>3, <2>4 DEF Serial!Drop
  <2> QED
      BY <2>5 DEF Serial!Next
<1>10. CASE UNCHANGED vars
    BY <1>5, <1>10 DEF vars
<1>11. ASSUME NEW t \in Threads, Schedule(t) PROVE UNCHANGED <<Waiting, Caller>>
    BY <1>5, <1>11 DEF Schedule
<1> QED
    BY <1>2, <1>3, <1>4, <1>6, <1>7, <1>8, <1>9, <1>10, <1>11 DEF Next, Submit, Gone

\* A strand implements SerialExecutor: its handlers are called one at a time
\* in the order they were given, each by the thread that owns it then.
THEOREM StrandImplementsSerial == Spec => StrandIsSerial
<1>1. Init => Serial!Init
  <2> SUFFICES ASSUME Init PROVE Serial!Init
      OBVIOUS
  <2>1. Waiting = [i \in Impls |-> <<>>]
      BY WaitingIs, OpsOfNone DEF Init
  <2>2. \A i \in Impls : ~Busy(i)
      BY DEF Init, Busy
  <2>3. Caller = [i \in Impls |-> NoThread]
      BY <2>2, BusyCallers DEF Caller
  <2> QED
      BY <2>1, <2>3 DEF Serial!Init
<1> QED
    BY <1>1, StrandInvariant, OwnerFacts, SerialStep, PTL
       DEF Spec, Serial!Spec, StrandIsSerial

-----------------------------------------------------------------------------
(* Handlers are called in the order they were given.  What was given is     *)
(* called or waits in the implementation's queue, which has the order of   *)
(* the log; a handler called at once finds nobody waiting.                 *)

LogEntries ==
    [op : Handlers, strand : Strands, impl : Impls, by : Threads,
     how : {"post", "dispatch", "inline"}, outside : BOOLEAN]

\* A handler is given once, and called only if given.
LogInv ==
    /\ log \in Seq(LogEntries) /\ begun \in Seq(Handlers)
    /\ \A j, k \in DOMAIN log : log[j].op = log[k].op => j = k
    /\ \A m \in DOMAIN begun : \E j \in DOMAIN log : log[j].op = begun[m]

\* A strand object has one implementation for life.
BelongInv ==
    /\ \A k \in DOMAIN log :
          \/ impl_[log[k].strand] = log[k].impl
          \/ impl_[log[k].strand] = NoImpl /\ log[k].strand \in gone
    /\ \A j, k \in DOMAIN log : log[j].strand = log[k].strand => log[j].impl = log[k].impl

\* Entry j of the log is the one at place p of i's queue.
WaitsAt(j, i, p) ==
    p \in DOMAIN queue_[i] /\ log[j].impl = i /\ log[j].op = queue_[i][p].op

\* What waits was given, in this order; what was given is called or waits.
WaitInv ==
    /\ \A i \in Impls : \A p \in DOMAIN queue_[i] : \E j \in DOMAIN log :
          WaitsAt(j, i, p) /\ log[j].strand = queue_[i][p].strand
    /\ \A i \in Impls : \A p, q \in DOMAIN queue_[i] : \A j, k \in DOMAIN log :
          WaitsAt(j, i, p) /\ WaitsAt(k, i, q) /\ p < q => j < k
    /\ \A j \in DOMAIN log :
          log[j].how # "inline" /\ ~shutdown_ =>
              \/ Began(log[j].op)
              \/ \E p \in DOMAIN queue_[log[j].impl] : WaitsAt(j, log[j].impl, p)

\* A frame that calls a handler stands for an entry of the log, and one that
\* has taken none yet has nothing above it.
CallInv ==
    \A t \in Threads : \A k \in DOMAIN stack[t] :
        LET f == stack[t][k] IN
        /\ f.how # "plain" /\ f.op # NoHandler =>
              \E j \in DOMAIN log : log[j].impl = f.impl /\ log[j].strand = f.strand
        /\ f.how = "complete" /\ f.op = NoHandler => k = Len(stack[t])

\* dispatch outside the strand calls at once only inside another one.
InlineInv ==
    \A k \in DOMAIN log :
        log[k].how = "inline" /\ log[k].outside =>
            \E j \in DOMAIN log : /\ log[j].impl = log[k].impl
                                  /\ log[j].strand # log[k].strand

OrderInv == LogInv /\ BelongInv /\ WaitInv /\ CallInv /\ InlineInv /\ FifoOrder

\* One element more.
LEMMA Appended ==
    ASSUME NEW T, NEW s \in Seq(T), NEW e \in T, NEW n, n = Len(s) + 1
    PROVE  /\ Append(s, e) \in Seq(T)
           /\ n \in Nat /\ DOMAIN s \subseteq Nat
           /\ DOMAIN Append(s, e) = DOMAIN s \cup {n}
           /\ n \notin DOMAIN s
           /\ Append(s, e)[n] = e
           /\ \A k \in DOMAIN s : k < n /\ ~(n < k) /\ Append(s, e)[k] = s[k]
<1>1. Len(s) \in Nat /\ DOMAIN s = 1..Len(s)
    OBVIOUS
<1>2. Append(s, e) \in Seq(T) /\ DOMAIN Append(s, e) = 1..n
    OBVIOUS
<1>3. 1..n = DOMAIN s \cup {n}
    BY <1>1
<1>4. Append(s, e)[n] = e /\ \A k \in DOMAIN s : Append(s, e)[k] = s[k]
    BY <1>1
<1> QED
    BY <1>1, <1>2, <1>3, <1>4

\* One element less.
LEMMA Shortened ==
    ASSUME NEW T, NEW s \in Seq(T), s # <<>>
    PROVE  /\ 1 \in DOMAIN s /\ Head(s) = s[1] /\ DOMAIN s \subseteq Nat
           /\ \A p \in DOMAIN s : p # 1 => 1 < p /\ p - 1 \in DOMAIN Tail(s)
           /\ \A p \in DOMAIN Tail(s) : /\ p + 1 \in DOMAIN s /\ p \in Nat
                                        /\ Tail(s)[p] = s[p + 1]
<1>1. Len(s) \in Nat /\ Len(s) >= 1 /\ DOMAIN s = 1..Len(s)
    OBVIOUS
<1>2. DOMAIN Tail(s) = 1..(Len(s) - 1)
    OBVIOUS
<1>3. \A p \in 1..(Len(s) - 1) : Tail(s)[p] = s[p + 1]
    OBVIOUS
<1> QED
    BY <1>1, <1>2, <1>3

\* A call of post or dispatch is entered in the log.
LEMMA LogGrows ==
    ASSUME TypeOK, LogInv, NEW t \in Threads, NEW s \in Strands, NEW h \in Handlers,
           NEW how \in {"post", "dispatch", "inline"}, MayGive(t, s, h),
           log' = Append(log, Entry(t, s, h, how)), NEW n, n = Len(log) + 1
    PROVE  /\ log' \in Seq(LogEntries)
           /\ impl_[s] \in Impls /\ ~shutdown_
           /\ n \notin DOMAIN log /\ DOMAIN log' = DOMAIN log \cup {n}
           /\ \A k \in DOMAIN log : /\ k < n /\ ~(n < k) /\ log'[k] = log[k]
                                    /\ log[k] \in LogEntries /\ log[k].op # h
           /\ ~(n < n)
           /\ log'[n].op = h /\ log'[n].strand = s /\ log'[n].impl = impl_[s]
           /\ log'[n].how = how
           /\ log'[n].outside => \A f \in Calls(t) : f.strand # s
<1> DEFINE e == Entry(t, s, h, how)
<1>1. impl_[s] \in Impls /\ ~shutdown_
    BY GiverFacts
<1>2. /\ e \in LogEntries
      /\ e.op = h /\ e.strand = s /\ e.impl = impl_[s] /\ e.how = how
      /\ e.outside => \A f \in Calls(t) : f.strand # s
    BY <1>1 DEF Entry, LogEntries
<1>3. \A k \in DOMAIN log : log[k].op # h
    BY DEF MayGive, Given, ToSet
<1> HIDE DEF e
<1>4. log \in Seq(LogEntries) /\ log' = Append(log, e)
    BY DEF LogInv, e
<1>5. /\ log' \in Seq(LogEntries) /\ n \in Nat
      /\ n \notin DOMAIN log /\ DOMAIN log' = DOMAIN log \cup {n} /\ log'[n] = e
      /\ \A k \in DOMAIN log : k < n /\ ~(n < k) /\ log'[k] = log[k]
    BY <1>2, <1>4, Appended
<1>6. \A k \in DOMAIN log : log[k] \in LogEntries
    BY <1>4
<1>7. ~(n < n)
    BY <1>5
<1> QED
    BY <1>1, <1>2, <1>3, <1>5, <1>6, <1>7

\* A handler is called.
LEMMA BegunGrows ==
    ASSUME NEW h \in Handlers, begun \in Seq(Handlers), begun' = Append(begun, h)
    PROVE  /\ begun' \in Seq(Handlers)
           /\ \A g : Began(g)' <=> Began(g) \/ g = h
           /\ \A g, k : BeganBefore(g, k) => BeganBefore(g, k)'
           /\ \A g : Began(g) => BeganBefore(g, h)'
           /\ \A m \in DOMAIN begun' : begun'[m] = h \/ \E l \in DOMAIN begun : begun'[m] = begun[l]
<1> DEFINE n == Len(begun) + 1
<1>1. /\ begun' \in Seq(Handlers)
      /\ DOMAIN begun' = DOMAIN begun \cup {n} /\ begun'[n] = h
      /\ \A k \in DOMAIN begun : k < n /\ begun'[k] = begun[k]
    BY Appended
<1> HIDE DEF n
<1>2. \A g : Began(g)' <=> Began(g) \/ g = h
    BY <1>1 DEF Began
<1>3. \A g, k : BeganBefore(g, k) => BeganBefore(g, k)'
    BY <1>1 DEF BeganBefore
<1>4. \A g : Began(g) => BeganBefore(g, h)'
    BY <1>1 DEF Began, BeganBefore
<1> QED
    BY <1>1, <1>2, <1>3, <1>4

\* A handler is put at the end of the queue.
LEMMA QueueGrows ==
    ASSUME TypeOK, NEW t \in Threads, NEW s \in Strands, NEW h \in Handlers,
           MayGive(t, s, h), Enqueue(t, s, h)
    PROVE  LET i == impl_[s]
               m == Len(queue_[i]) + 1
           IN
           /\ i \in Impls
           /\ m \notin DOMAIN queue_[i] /\ DOMAIN queue_'[i] = DOMAIN queue_[i] \cup {m}
           /\ \A p \in DOMAIN queue_[i] : /\ p < m /\ ~(m < p)
                                          /\ queue_'[i][p] = queue_[i][p]
           /\ ~(m < m)
           /\ queue_'[i][m].op = h /\ queue_'[i][m].strand = s
           /\ \A j \in Impls : j # i => queue_'[j] = queue_[j]
<1> DEFINE e == [op |-> h, strand |-> s]
           i == impl_[s]
           m == Len(queue_[i]) + 1
<1>1. i \in Impls
    BY GiverFacts
<1>2. e \in [op : Handlers, strand : Strands] /\ e.op = h /\ e.strand = s
    OBVIOUS
<1>3. queue_' = [queue_ EXCEPT ![i] = Append(@, e)]
    BY DEF Enqueue
<1>m. m = Len(queue_[i]) + 1
    OBVIOUS
<1> HIDE DEF e, i, m
<1>4. queue_ \in [Impls -> Seq([op : Handlers, strand : Strands])]
    BY DEF TypeOK
<1>5. /\ queue_[i] \in Seq([op : Handlers, strand : Strands])
      /\ queue_'[i] = Append(queue_[i], e)
      /\ \A j \in Impls : j # i => queue_'[j] = queue_[j]
    BY <1>1, <1>3, <1>4
<1>6. /\ m \in Nat /\ m \notin DOMAIN queue_[i]
      /\ DOMAIN queue_'[i] = DOMAIN queue_[i] \cup {m} /\ queue_'[i][m] = e
      /\ \A p \in DOMAIN queue_[i] : p < m /\ ~(m < p) /\ queue_'[i][p] = queue_[i][p]
    BY <1>2, <1>5, <1>m, Appended
<1>7. ~(m < m)
    BY <1>6
<1> QED
    BY <1>1, <1>2, <1>5, <1>6, <1>7 DEF i, m

-----------------------------------------------------------------------------
(* One lemma for each kind of step.                                        *)

\* A handler is put in the queue.
LEMMA OrderEnqueue ==
    ASSUME IInv, OrderInv, NEW t \in Threads, NEW s \in Strands, NEW h \in Handlers,
           NEW how \in {"post", "dispatch"}, MayGive(t, s, h), Enqueue(t, s, h),
           log' = Append(log, Entry(t, s, h, how)),
           UNCHANGED <<impl_, gone, stack, shutdown_, begun>>
    PROVE  OrderInv'
<1>a. PICK i, n, m : i = impl_[s] /\ n = Len(log) + 1 /\ m = Len(queue_[i]) + 1
    OBVIOUS
<1>0. TypeOK /\ LogInv /\ BelongInv /\ WaitInv /\ CallInv /\ InlineInv /\ FifoOrder
    BY DEF IInv, OrderInv
<1>1. /\ log' \in Seq(LogEntries)
      /\ i \in Impls /\ ~shutdown_
      /\ n \notin DOMAIN log /\ DOMAIN log' = DOMAIN log \cup {n}
      /\ \A k \in DOMAIN log : /\ k < n /\ ~(n < k) /\ log'[k] = log[k]
                               /\ log[k] \in LogEntries /\ log[k].op # h
      /\ ~(n < n)
      /\ log'[n].op = h /\ log'[n].strand = s /\ log'[n].impl = i
      /\ log'[n].how = how
    BY <1>0, <1>a, LogGrows
<1>2. /\ m \notin DOMAIN queue_[i] /\ DOMAIN queue_'[i] = DOMAIN queue_[i] \cup {m}
      /\ \A p \in DOMAIN queue_[i] : /\ p < m /\ ~(m < p)
                                     /\ queue_'[i][p] = queue_[i][p]
      /\ ~(m < m)
      /\ queue_'[i][m].op = h /\ queue_'[i][m].strand = s
      /\ \A j \in Impls : j # i => queue_'[j] = queue_[j]
    BY <1>0, <1>a, QueueGrows
<1>4. ~Began(h)
    BY <1>0, <1>1 DEF Began, LogInv
<1>5. \A g, k : (Began(g)' <=> Began(g)) /\ (BeganBefore(g, k)' <=> BeganBefore(g, k))
    BY DEF Began, BeganBefore
<1>6. LogInv'
    BY <1>0, <1>1 DEF LogInv
<1>7. BelongInv'
    BY <1>0, <1>1, <1>a, StrandAssumption DEF BelongInv
<1>8. WaitInv'
  <2>1. \A j \in Impls : \A p \in DOMAIN queue_[j] :
            p \in DOMAIN queue_'[j] /\ queue_'[j][p] = queue_[j][p]
      BY <1>1, <1>2
  <2>2. \A j \in Impls : \A p \in DOMAIN queue_'[j] : p \in DOMAIN queue_[j] \/ (j = i /\ p = m)
      BY <1>1, <1>2
  <2>3. \A k \in DOMAIN log : \A j \in Impls : \A p \in DOMAIN queue_[j] :
            WaitsAt(k, j, p)' <=> WaitsAt(k, j, p)
      BY <1>1, <2>1 DEF WaitsAt
  <2>4. /\ WaitsAt(n, i, m)'
        /\ \A k \in DOMAIN log : ~WaitsAt(k, i, m)'
      BY <1>1, <1>2 DEF WaitsAt
  <2>5. \A j \in Impls : \A p \in DOMAIN queue_[j] : ~WaitsAt(n, j, p)'
      BY <1>0, <1>1, <2>1 DEF WaitsAt, WaitInv
  <2>6. ASSUME NEW j \in Impls, NEW p \in DOMAIN queue_'[j]
        PROVE  \E k \in DOMAIN log' :
                   WaitsAt(k, j, p)' /\ log'[k].strand = queue_'[j][p].strand
    <3>1. CASE p \in DOMAIN queue_[j]
      <4>1. PICK k \in DOMAIN log : WaitsAt(k, j, p) /\ log[k].strand = queue_[j][p].strand
          BY <1>0, <3>1 DEF WaitInv
      <4> QED
          BY <1>1, <2>1, <2>3, <3>1, <4>1
    <3>2. CASE j = i /\ p = m
        BY <1>1, <1>2, <2>4, <3>2
    <3> QED
        BY <2>2, <3>1, <3>2
  <2>7. ASSUME NEW j \in Impls, NEW p \in DOMAIN queue_'[j], NEW q \in DOMAIN queue_'[j],
               NEW k \in DOMAIN log', NEW l \in DOMAIN log',
               WaitsAt(k, j, p)', WaitsAt(l, j, q)', p < q
        PROVE  k < l
    <3>1. CASE q \in DOMAIN queue_[j]
      <4>1. p \in DOMAIN queue_[j]
          BY <1>2, <2>2, <2>7, <3>1
      <4>2. k \in DOMAIN log /\ l \in DOMAIN log
          BY <1>1, <2>5, <2>7, <3>1, <4>1
      <4>3. WaitsAt(k, j, p) /\ WaitsAt(l, j, q)
          BY <2>3, <2>7, <3>1, <4>1, <4>2
      <4> QED
          BY <1>0, <2>7, <3>1, <4>1, <4>2, <4>3 DEF WaitInv
    <3>2. CASE j = i /\ q = m
      <4>1. l = n
          BY <1>1, <2>4, <2>7, <3>2
      <4>2. p \in DOMAIN queue_[j]
          BY <1>2, <2>2, <2>7, <3>2
      <4>3. k # n
          BY <2>5, <2>7, <4>2
      <4> QED
          BY <1>1, <4>1, <4>3
    <3> QED
        BY <2>2, <3>1, <3>2
  <2>8. ASSUME NEW k \in DOMAIN log', log'[k].how # "inline"
        PROVE  (\/ Began(log[k].op)
                \/ \E p \in DOMAIN queue_[log[k].impl] : WaitsAt(k, log[k].impl, p))'
    <3>1. CASE k = n
        BY <1>1, <1>2, <2>4, <3>1
    <3>2. CASE k \in DOMAIN log
      <4>1. log'[k] = log[k] /\ log[k].impl \in Impls
          BY <1>1, <3>2 DEF LogEntries
      <4>2. Began(log[k].op) \/ \E p \in DOMAIN queue_[log[k].impl] : WaitsAt(k, log[k].impl, p)
          BY <1>0, <1>1, <2>8, <3>2, <4>1 DEF WaitInv
      <4> QED
          BY <1>5, <2>1, <2>3, <3>2, <4>1, <4>2
    <3> QED
        BY <1>1, <3>1, <3>2
  <2> QED
      BY <2>6, <2>7, <2>8 DEF WaitInv
<1>9. CallInv'
    BY <1>0, <1>1 DEF CallInv
<1>10. InlineInv'
    BY <1>0, <1>1 DEF InlineInv
<1>11. FifoOrder'
    BY <1>0, <1>1, <1>4, <1>5 DEF FifoOrder
<1> QED
    BY <1>6, <1>7, <1>8, <1>9, <1>10, <1>11 DEF OrderInv

\* A handler that has been taken off the queue, or none, is on top.
LEMMA UpperFrame ==
    ASSUME IInv, CallInv, NEW t \in Threads, Running(t), NEW k \in DOMAIN stack[t],
           stack[t][k].impl \in Impls
    PROVE  /\ stack[t][k].op # NoHandler
           /\ \E j \in DOMAIN log : /\ log[j].impl = stack[t][k].impl
                                    /\ log[j].strand = stack[t][k].strand
<1>1. TypeOK /\ stack[t] \in Seq(Frames) /\ stack[t] # <<>> /\ stack[t][k] \in Frames
  <2>1. TypeOK /\ stack[t] \in Seq(Frames)
      BY DEF IInv, TypeOK
  <2>2. stack[t] # <<>> /\ stack[t][k] \in Frames
      BY <2>1
  <2> QED
      BY <2>1, <2>2
<1>2. Last(stack[t]).op # NoHandler /\ Last(stack[t]) = stack[t][Len(stack[t])]
    BY <1>1, TopFrame DEF Running, InPool
<1>3. stack[t][k].how \in {"complete", "dispatch", "inline"}
    BY <1>1, FrameFacts, StrandAssumption
<1>4. stack[t][k].op # NoHandler
    BY <1>1, <1>2, <1>3, FrameFacts DEF CallInv
<1> QED
    BY <1>3, <1>4 DEF CallInv

\* A handler is called at once.
LEMMA OrderCall ==
    ASSUME IInv, OrderInv, NEW t \in Threads, NEW s \in Strands, NEW h \in Handlers,
           NEW how \in {"dispatch", "inline"}, MayGive(t, s, h),
           Push(t, Frame(how, impl_[s], h, s)),
           log' = Append(log, Entry(t, s, h, how)), begun' = Append(begun, h),
           UNCHANGED <<impl_, gone, queue_, shutdown_>>,
           how = "dispatch" => queue_[impl_[s]] = <<>>,
           how = "inline" => InStrand(t, impl_[s])
    PROVE  OrderInv'
<1>a. PICK i, n : i = impl_[s] /\ n = Len(log) + 1
    OBVIOUS
<1>0. TypeOK /\ LogInv /\ BelongInv /\ WaitInv /\ CallInv /\ InlineInv /\ FifoOrder
    BY DEF IInv, OrderInv
<1>1. /\ log' \in Seq(LogEntries)
      /\ i \in Impls /\ ~shutdown_
      /\ n \notin DOMAIN log /\ DOMAIN log' = DOMAIN log \cup {n}
      /\ \A k \in DOMAIN log : /\ k < n /\ ~(n < k) /\ log'[k] = log[k]
                               /\ log[k] \in LogEntries /\ log[k].op # h
      /\ ~(n < n)
      /\ log'[n].op = h /\ log'[n].strand = s /\ log'[n].impl = i
      /\ log'[n].how = how
      /\ log'[n].outside => \A f \in Calls(t) : f.strand # s
    BY <1>0, <1>a, LogGrows
<1>2. /\ begun' \in Seq(Handlers)
      /\ \A g : Began(g)' <=> Began(g) \/ g = h
      /\ \A g, k : BeganBefore(g, k) => BeganBefore(g, k)'
      /\ \A g : Began(g) => BeganBefore(g, h)'
      /\ \A m \in DOMAIN begun' : begun'[m] = h \/ \E l \in DOMAIN begun : begun'[m] = begun[l]
    BY <1>0, BegunGrows DEF LogInv
<1>3. Running(t)
    BY DEF MayGive
<1>4. LogInv'
  <2>1. \A j, k \in DOMAIN log' : log'[j].op = log'[k].op => j = k
      BY <1>0, <1>1 DEF LogInv
  <2>2. \A m \in DOMAIN begun' : \E j \in DOMAIN log' : log'[j].op = begun'[m]
    <3> SUFFICES ASSUME NEW m \in DOMAIN begun'
                 PROVE  \E j \in DOMAIN log' : log'[j].op = begun'[m]
        OBVIOUS
    <3>1. CASE begun'[m] = h
        BY <1>1, <3>1
    <3>2. CASE \E l \in DOMAIN begun : begun'[m] = begun[l]
      <4>1. PICK j \in DOMAIN log : log[j].op = begun'[m]
          BY <1>0, <3>2 DEF LogInv
      <4> QED
          BY <1>1, <4>1
    <3> QED
        BY <1>2, <3>1, <3>2
  <2> QED
      BY <1>1, <1>2, <2>1, <2>2 DEF LogInv
<1>5. BelongInv'
  <2>1. ASSUME NEW k \in DOMAIN log'
        PROVE  \/ impl_[log'[k].strand] = log'[k].impl
               \/ impl_[log'[k].strand] = NoImpl /\ log'[k].strand \in gone
    <3>1. CASE k = n
        BY <1>1, <1>a, <3>1
    <3>2. CASE k \in DOMAIN log
        BY <1>0, <1>1, <3>2 DEF BelongInv
    <3> QED
        BY <1>1, <3>1, <3>2
  <2>2. ASSUME NEW k \in DOMAIN log, log[k].strand = s PROVE log[k].impl = i
      BY <1>0, <1>1, <1>a, <2>2, StrandAssumption DEF BelongInv
  <2>3. ASSUME NEW j \in DOMAIN log', NEW k \in DOMAIN log', log'[j].strand = log'[k].strand
        PROVE  log'[j].impl = log'[k].impl
    <3>1. CASE j \in DOMAIN log /\ k \in DOMAIN log
        BY <1>0, <1>1, <2>3, <3>1 DEF BelongInv
    <3>2. CASE j = n \/ k = n
        BY <1>1, <2>2, <2>3, <3>2
    <3> QED
        BY <1>1, <3>1, <3>2
  <2> QED
      BY <2>1, <2>3 DEF BelongInv
<1>6. WaitInv'
  <2>1. \A k \in DOMAIN log : \A j \in Impls : \A p \in DOMAIN queue_[j] :
            WaitsAt(k, j, p)' <=> WaitsAt(k, j, p)
      BY <1>1 DEF WaitsAt
  <2>2. \A j \in Impls : \A p \in DOMAIN queue_[j] : ~WaitsAt(n, j, p)'
      BY <1>0, <1>1 DEF WaitsAt, WaitInv
  <2>3. ASSUME NEW j \in Impls, NEW p \in DOMAIN queue_'[j]
        PROVE  \E k \in DOMAIN log' :
                   WaitsAt(k, j, p)' /\ log'[k].strand = queue_'[j][p].strand
    <3>1. PICK k \in DOMAIN log : WaitsAt(k, j, p) /\ log[k].strand = queue_[j][p].strand
        BY <1>0 DEF WaitInv
    <3> QED
        BY <1>1, <2>1, <3>1
  <2>4. ASSUME NEW j \in Impls, NEW p \in DOMAIN queue_'[j], NEW q \in DOMAIN queue_'[j],
               NEW k \in DOMAIN log', NEW l \in DOMAIN log',
               WaitsAt(k, j, p)', WaitsAt(l, j, q)', p < q
        PROVE  k < l
    <3>1. k \in DOMAIN log /\ l \in DOMAIN log
        BY <1>1, <2>2, <2>4
    <3>2. WaitsAt(k, j, p) /\ WaitsAt(l, j, q)
        BY <2>1, <2>4, <3>1
    <3> QED
        BY <1>0, <2>4, <3>1, <3>2 DEF WaitInv
  <2>5. ASSUME NEW k \in DOMAIN log', log'[k].how # "inline"
        PROVE  (\/ Began(log[k].op)
                \/ \E p \in DOMAIN queue_[log[k].impl] : WaitsAt(k, log[k].impl, p))'
    <3>1. CASE k = n
        BY <1>1, <1>2, <3>1
    <3>2. CASE k \in DOMAIN log
      <4>1. log'[k] = log[k] /\ log[k].impl \in Impls
          BY <1>1, <3>2 DEF LogEntries
      <4>2. Began(log[k].op) \/ \E p \in DOMAIN queue_[log[k].impl] : WaitsAt(k, log[k].impl, p)
          BY <1>0, <1>1, <2>5, <3>2, <4>1 DEF WaitInv
      <4> QED
          BY <1>2, <2>1, <3>2, <4>1, <4>2
    <3> QED
        BY <1>1, <3>1, <3>2
  <2> QED
      BY <2>3, <2>4, <2>5 DEF WaitInv
<1>7. CallInv'
  <2> DEFINE f == Frame(how, i, h, s)
             m == Len(stack[t]) + 1
  <2>1. f \in Frames /\ f.how = how /\ f.op = h /\ f.impl = i /\ f.strand = s
      BY <1>1, FramesMade DEF Frame
  <2> HIDE DEF f
  <2>2. Push(t, f)
      BY <1>a DEF f
  <2>3. /\ \A u \in Threads : u # t => stack'[u] = stack[u]
        /\ DOMAIN stack'[t] = DOMAIN stack[t] \cup {m}
        /\ stack'[t][m] = f
        /\ \A k \in DOMAIN stack[t] : stack'[t][k] = stack[t][k]
      BY <1>0, <2>1, <2>2, PushFrames
  <2> HIDE DEF m
  <2>4. ASSUME NEW k \in DOMAIN stack[t]
        PROVE  ~(stack[t][k].how = "complete" /\ stack[t][k].op = NoHandler)
    <3>1. stack[t] \in Seq(Frames) /\ stack[t][k] \in Frames
        BY <1>0 DEF TypeOK
    <3> QED
        BY <1>0, <1>3, <3>1, UpperFrame, FrameFacts
  <2>5. ASSUME NEW u \in Threads, u # t
        PROVE  \A k \in DOMAIN stack'[u] :
                   /\ stack'[u][k].how # "plain" /\ stack'[u][k].op # NoHandler =>
                         \E j \in DOMAIN log' : /\ log'[j].impl = stack'[u][k].impl
                                                /\ log'[j].strand = stack'[u][k].strand
                   /\ stack'[u][k].how = "complete" /\ stack'[u][k].op = NoHandler =>
                         k = Len(stack'[u])
    <3>1. stack'[u] = stack[u]
        BY <2>3, <2>5
    <3>2. ASSUME NEW k \in DOMAIN stack[u]
          PROVE  /\ stack[u][k].how # "plain" /\ stack[u][k].op # NoHandler =>
                       \E j \in DOMAIN log : /\ log[j].impl = stack[u][k].impl
                                             /\ log[j].strand = stack[u][k].strand
                 /\ stack[u][k].how = "complete" /\ stack[u][k].op = NoHandler =>
                       k = Len(stack[u])
        BY <1>0, <3>2 DEF CallInv
    <3> QED
        BY <1>1, <3>1, <3>2
  <2>6. ASSUME NEW k \in DOMAIN stack'[t]
        PROVE  /\ stack'[t][k].how # "plain" /\ stack'[t][k].op # NoHandler =>
                     \E j \in DOMAIN log' : /\ log'[j].impl = stack'[t][k].impl
                                            /\ log'[j].strand = stack'[t][k].strand
               /\ ~(stack'[t][k].how = "complete" /\ stack'[t][k].op = NoHandler)
    <3>1. CASE k = m
        BY <1>1, <2>1, <2>3, <3>1
    <3>2. CASE k \in DOMAIN stack[t]
      <4>1. stack'[t][k] = stack[t][k]
          BY <2>3, <3>2
      <4>2. stack[t][k].how # "plain" /\ stack[t][k].op # NoHandler =>
                \E j \in DOMAIN log : /\ log[j].impl = stack[t][k].impl
                                      /\ log[j].strand = stack[t][k].strand
          BY <1>0, <3>2 DEF CallInv
      <4> QED
          BY <1>1, <2>4, <3>2, <4>1, <4>2
    <3> QED
        BY <2>3, <3>1, <3>2
  <2> QED
      BY <2>5, <2>6 DEF CallInv
<1>8. InlineInv'
  <2>1. ASSUME how = "inline", log'[n].outside
        PROVE  \E j \in DOMAIN log : log[j].impl = i /\ log[j].strand # s
    <3>1. PICK k \in DOMAIN stack[t] : stack[t][k].impl = i
        BY <1>a, <2>1 DEF InStrand, Calls, ToSet
    <3>2. stack[t][k].strand # s
        BY <1>1, <2>1 DEF Calls, ToSet
    <3>3. stack[t][k].impl \in Impls /\ Running(t)
        BY <1>1, <1>3, <3>1
    <3>4. PICK j \in DOMAIN log : /\ log[j].impl = stack[t][k].impl
                                   /\ log[j].strand = stack[t][k].strand
        BY <1>0, <3>3, UpperFrame, Zenon
    <3> QED
        BY <3>1, <3>2, <3>4, Zenon
  <2>2. ASSUME NEW k \in DOMAIN log', log'[k].how = "inline", log'[k].outside
        PROVE  \E j \in DOMAIN log' : /\ log'[j].impl = log'[k].impl
                                       /\ log'[j].strand # log'[k].strand
    <3>1. CASE k = n
      <4>1. PICK j \in DOMAIN log : log[j].impl = i /\ log[j].strand # s
          BY <1>1, <2>1, <2>2, <3>1
      <4> QED
          BY <1>1, <3>1, <4>1
    <3>2. CASE k \in DOMAIN log
      <4>1. PICK j \in DOMAIN log : log[j].impl = log[k].impl /\ log[j].strand # log[k].strand
          BY <1>0, <1>1, <2>2, <3>2 DEF InlineInv
      <4> QED
          BY <1>1, <3>2, <4>1
    <3> QED
        BY <1>1, <3>1, <3>2
  <2> QED
      BY <2>2 DEF InlineInv
<1>9. FifoOrder'
  <2>1. ASSUME how = "dispatch", NEW j \in DOMAIN log, log[j].impl = i, log[j].how # "inline"
        PROVE  BeganBefore(log[j].op, h)'
    <3>1. DOMAIN queue_[i] = {}
        BY <1>a, <2>1
    <3> QED
        BY <1>0, <1>1, <1>2, <2>1, <3>1 DEF WaitInv
  <2>2. ASSUME NEW j \in DOMAIN log', NEW k \in DOMAIN log', j < k,
               log'[j].impl = log'[k].impl,
               log'[j].how # "inline", log'[k].how # "inline", Began(log[k].op)'
        PROVE  BeganBefore(log[j].op, log[k].op)'
    <3>1. CASE k = n
      <4>1. j \in DOMAIN log
          BY <1>1, <2>2, <3>1
      <4> QED
          BY <1>1, <2>1, <2>2, <3>1, <4>1
    <3>2. CASE k \in DOMAIN log
      <4>1. j \in DOMAIN log
          BY <1>1, <2>2, <3>2
      <4>2. log'[j] = log[j] /\ log'[k] = log[k] /\ log[k].op # h
          BY <1>1, <3>2, <4>1
      <4>3. Began(log[k].op)
          BY <1>2, <2>2, <4>2
      <4>4. BeganBefore(log[j].op, log[k].op)
          BY <1>0, <2>2, <3>2, <4>1, <4>2, <4>3 DEF FifoOrder
      <4> QED
          BY <1>2, <4>2, <4>4
    <3> QED
        BY <1>1, <3>1, <3>2
  <2> QED
      BY <2>2 DEF FifoOrder
<1> QED
    BY <1>4, <1>5, <1>6, <1>7, <1>8, <1>9 DEF OrderInv

\* do_complete calls the handler that has waited longest.
LEMMA OrderComplete ==
    ASSUME IInv, OrderInv, NEW t \in Threads, DoComplete(t)
    PROVE  OrderInv'
<1>a. PICK i, h : i = Last(stack[t]).impl /\ h = Head(queue_[i]).op
    OBVIOUS
<1>0. TypeOK /\ LogInv /\ BelongInv /\ WaitInv /\ CallInv /\ InlineInv /\ FifoOrder
    BY DEF IInv, OrderInv
<1>1. /\ i \in Impls /\ queue_[i] # <<>> /\ h \in Handlers
      /\ queue_[i] \in Seq([op : Handlers, strand : Strands])
    BY <1>a, HandlerWaits DEF DoComplete
<1>2. /\ UNCHANGED <<impl_, gone, shutdown_, log>>
      /\ queue_'[i] = Tail(queue_[i])
      /\ \A j \in Impls : j # i => queue_'[j] = queue_[j]
      /\ begun' = Append(begun, h)
    BY <1>0, <1>1, <1>a DEF DoComplete, TypeOK, strands
<1>3. /\ 1 \in DOMAIN queue_[i] /\ queue_[i][1].op = h
      /\ Head(queue_[i]) = queue_[i][1]
      /\ \A p \in DOMAIN queue_[i] : p # 1 => 1 < p /\ p - 1 \in DOMAIN queue_'[i]
      /\ \A p \in DOMAIN queue_'[i] : /\ p + 1 \in DOMAIN queue_[i]
                                      /\ queue_'[i][p] = queue_[i][p + 1]
      /\ DOMAIN queue_[i] \subseteq Nat /\ DOMAIN queue_'[i] \subseteq Nat
  <2>1. /\ 1 \in DOMAIN queue_[i] /\ Head(queue_[i]) = queue_[i][1]
        /\ DOMAIN queue_[i] \subseteq Nat
        /\ \A p \in DOMAIN queue_[i] : p # 1 => 1 < p /\ p - 1 \in DOMAIN queue_'[i]
        /\ \A p \in DOMAIN queue_'[i] : /\ p + 1 \in DOMAIN queue_[i] /\ p \in Nat
                                        /\ queue_'[i][p] = queue_[i][p + 1]
      BY <1>1, <1>2, Shortened
  <2> QED
      BY <1>a, <2>1
<1>4. /\ begun' \in Seq(Handlers)
      /\ \A g : Began(g)' <=> Began(g) \/ g = h
      /\ \A g, k : BeganBefore(g, k) => BeganBefore(g, k)'
      /\ \A g : Began(g) => BeganBefore(g, h)'
      /\ \A m \in DOMAIN begun' : begun'[m] = h \/ \E l \in DOMAIN begun : begun'[m] = begun[l]
    BY <1>0, <1>1, <1>2, BegunGrows DEF LogInv
<1>5. PICK w \in DOMAIN log : WaitsAt(w, i, 1) /\ log[w].strand = queue_[i][1].strand
    BY <1>0, <1>1, <1>3 DEF WaitInv
<1>6. log[w].op = h /\ log[w].impl = i
    BY <1>3, <1>5 DEF WaitsAt
<1>7. LogInv'
  <2>1. ASSUME NEW m \in DOMAIN begun'
        PROVE  \E j \in DOMAIN log : log[j].op = begun'[m]
    <3>1. CASE begun'[m] = h
        BY <1>6, <3>1
    <3>2. CASE \E l \in DOMAIN begun : begun'[m] = begun[l]
        BY <1>0, <3>2 DEF LogInv
    <3> QED
        BY <1>4, <3>1, <3>2
  <2> QED
      BY <1>0, <1>2, <1>4, <2>1 DEF LogInv
<1>8. BelongInv'
    BY <1>0, <1>2 DEF BelongInv
<1>9. WaitInv'
  <2>1. \A k \in DOMAIN log : \A p \in DOMAIN queue_'[i] :
            WaitsAt(k, i, p)' <=> WaitsAt(k, i, p + 1)
      BY <1>2, <1>3 DEF WaitsAt
  <2>2. \A k \in DOMAIN log : \A j \in Impls \ {i} : \A p :
            WaitsAt(k, j, p)' <=> WaitsAt(k, j, p)
      BY <1>2 DEF WaitsAt
  <2>3. ASSUME NEW j \in Impls, NEW p \in DOMAIN queue_'[j]
        PROVE  \E k \in DOMAIN log' :
                   WaitsAt(k, j, p)' /\ log'[k].strand = queue_'[j][p].strand
    <3>1. CASE j = i
      <4>1. PICK k \in DOMAIN log : /\ WaitsAt(k, i, p + 1)
                                    /\ log[k].strand = queue_[i][p + 1].strand
          BY <1>0, <1>1, <1>3, <3>1 DEF WaitInv
      <4> QED
          BY <1>2, <1>3, <2>1, <3>1, <4>1
    <3>2. CASE j # i
      <4>1. PICK k \in DOMAIN log : WaitsAt(k, j, p) /\ log[k].strand = queue_[j][p].strand
          BY <1>0, <1>2, <3>2 DEF WaitInv
      <4> QED
          BY <1>2, <2>2, <3>2, <4>1
    <3> QED
        BY <3>1, <3>2
  <2>4. ASSUME NEW j \in Impls, NEW p \in DOMAIN queue_'[j], NEW q \in DOMAIN queue_'[j],
               NEW k \in DOMAIN log', NEW l \in DOMAIN log',
               WaitsAt(k, j, p)', WaitsAt(l, j, q)', p < q
        PROVE  k < l
    <3>1. CASE j = i
      <4>1. WaitsAt(k, i, p + 1) /\ WaitsAt(l, i, q + 1)
          BY <1>2, <2>1, <2>4, <3>1
      <4>2. p + 1 \in DOMAIN queue_[i] /\ q + 1 \in DOMAIN queue_[i] /\ p + 1 < q + 1
          BY <1>3, <2>4, <3>1
      <4> QED
          BY <1>0, <1>1, <1>2, <4>1, <4>2 DEF WaitInv
    <3>2. CASE j # i
      <4>1. WaitsAt(k, j, p) /\ WaitsAt(l, j, q)
          BY <1>2, <2>2, <2>4, <3>2
      <4> QED
          BY <1>0, <1>2, <2>4, <3>2, <4>1 DEF WaitInv
    <3> QED
        BY <3>1, <3>2
  <2>5. ASSUME NEW k \in DOMAIN log, log[k].how # "inline", ~shutdown_
        PROVE  (\/ Began(log[k].op)
                \/ \E p \in DOMAIN queue_[log[k].impl] : WaitsAt(k, log[k].impl, p))'
    <3>1. log[k].impl \in Impls /\ log'[k] = log[k]
      <4>1. log[k] \in LogEntries
          BY <1>0 DEF LogInv
      <4> QED
          BY <1>2, <4>1 DEF LogEntries
    <3>2. CASE Began(log[k].op)
        BY <1>4, <3>1, <3>2
    <3>3. ASSUME NEW p \in DOMAIN queue_[log[k].impl], WaitsAt(k, log[k].impl, p),
                 log[k].impl = i, p # 1
          PROVE  \E q \in DOMAIN queue_'[i] : WaitsAt(k, i, q)'
      <4>1. p - 1 \in DOMAIN queue_'[i] /\ p \in Nat /\ p = (p - 1) + 1
          BY <1>3, <3>3
      <4> QED
          BY <2>1, <3>3, <4>1
    <3>4. ASSUME NEW p \in DOMAIN queue_[log[k].impl], WaitsAt(k, log[k].impl, p),
                 log[k].impl = i, p = 1
          PROVE  log[k].op = h
        BY <1>3, <3>4 DEF WaitsAt
    <3>5. ASSUME NEW p \in DOMAIN queue_[log[k].impl], WaitsAt(k, log[k].impl, p),
                 log[k].impl # i
          PROVE  p \in DOMAIN queue_'[log[k].impl] /\ (WaitsAt(k, log[k].impl, p))'
        BY <1>2, <2>2, <3>1, <3>5
    <3>6. Began(log[k].op) \/ \E p \in DOMAIN queue_[log[k].impl] : WaitsAt(k, log[k].impl, p)
        BY <1>0, <2>5 DEF WaitInv
    <3> QED
        BY <1>4, <3>1, <3>2, <3>3, <3>4, <3>5, <3>6
  <2> QED
      BY <1>2, <2>3, <2>4, <2>5 DEF WaitInv
<1>10. CallInv'
  <2> DEFINE f == Frame("complete", i, h, Head(queue_[i]).strand)
             m == Len(stack[t])
  <2>1. /\ stack[t] # <<>> /\ stack' = [stack EXCEPT ![t] = Append(Front(@), f)]
        /\ f \in Frames
      BY <1>a, CompletedFrame
  <2>2. f.impl = i /\ f.op = h /\ f.strand = log[w].strand /\ h # NoHandler
      BY <1>1, <1>3, <1>5, StrandAssumption DEF Frame
  <2> HIDE DEF f
  <2>3. /\ \A u \in Threads : u # t => stack'[u] = stack[u]
        /\ DOMAIN stack'[t] = DOMAIN stack[t]
        /\ stack'[t][m] = f
        /\ \A k \in DOMAIN stack[t] \ {m} : stack'[t][k] = stack[t][k]
      BY <1>0, <2>1, ReplaceFrames
  <2> HIDE DEF m
  <2>4. ASSUME NEW u \in Threads, u # t
        PROVE  \A k \in DOMAIN stack'[u] :
                   /\ stack'[u][k].how # "plain" /\ stack'[u][k].op # NoHandler =>
                         \E j \in DOMAIN log' : /\ log'[j].impl = stack'[u][k].impl
                                                /\ log'[j].strand = stack'[u][k].strand
                   /\ stack'[u][k].how = "complete" /\ stack'[u][k].op = NoHandler =>
                         k = Len(stack'[u])
      BY <1>0, <1>2, <2>3, <2>4 DEF CallInv
  <2>5. ASSUME NEW k \in DOMAIN stack'[t]
        PROVE  /\ stack'[t][k].how # "plain" /\ stack'[t][k].op # NoHandler =>
                     \E j \in DOMAIN log' : /\ log'[j].impl = stack'[t][k].impl
                                            /\ log'[j].strand = stack'[t][k].strand
               /\ ~(stack'[t][k].how = "complete" /\ stack'[t][k].op = NoHandler)
    <3>1. CASE k = m
        BY <1>2, <1>5, <1>6, <2>2, <2>3, <3>1
    <3>2. CASE k # m
      <4>1. k \in DOMAIN stack[t] /\ stack'[t][k] = stack[t][k]
          BY <2>3, <3>2
      <4> QED
          BY <1>0, <1>2, <3>2, <4>1 DEF CallInv, m
    <3> QED
        BY <3>1, <3>2
  <2> QED
      BY <2>4, <2>5 DEF CallInv
<1>11. InlineInv'
    BY <1>0, <1>2 DEF InlineInv
<1>12. FifoOrder'
  <2>1. DOMAIN log \subseteq Nat
      BY <1>0 DEF LogInv
  <2>2. ASSUME NEW j \in DOMAIN log, NEW k \in DOMAIN log, j < k,
               log[j].impl = log[k].impl,
               log[j].how # "inline", log[k].how # "inline", Began(log[k].op)'
        PROVE  BeganBefore(log[j].op, log[k].op)'
    <3>1. CASE log[k].op = h
      <4>1. k = w
          BY <1>0, <1>6, <3>1 DEF LogInv
      <4>2. ~shutdown_
          BY HandlerWaits DEF DoComplete
      <4>3. ASSUME NEW p \in DOMAIN queue_[i], WaitsAt(j, i, p) PROVE FALSE
        <5>1. CASE p = 1
          <6>1. log[j].op = log[k].op
              BY <1>3, <3>1, <4>3, <5>1 DEF WaitsAt
          <6>2. j = k
              BY <1>0, <6>1 DEF LogInv
          <6> QED
              BY <2>2, <2>1, <6>2
        <5>2. CASE p # 1
          <6>1. 1 < p
              BY <1>3, <5>2
          <6>2. k < j
              BY <1>0, <1>1, <1>3, <1>5, <4>1, <4>3, <6>1 DEF WaitInv
          <6> QED
              BY <2>2, <2>1, <6>2
        <5> QED
            BY <5>1, <5>2
      <4>4. Began(log[j].op)
          BY <1>0, <1>6, <2>2, <4>1, <4>2, <4>3 DEF WaitInv
      <4> QED
          BY <1>2, <1>4, <3>1, <4>4
    <3>2. CASE log[k].op # h
      <4>1. BeganBefore(log[j].op, log[k].op)
          BY <1>0, <1>2, <1>4, <2>2, <3>2 DEF FifoOrder
      <4> QED
          BY <1>2, <1>4, <4>1
    <3> QED
        BY <3>1, <3>2
  <2> QED
      BY <1>2, <2>2 DEF FifoOrder
<1> QED
    BY <1>7, <1>8, <1>9, <1>10, <1>11, <1>12 DEF OrderInv

\* No handler is given or called.
LEMMA OrderQuiet ==
    ASSUME OrderInv, UNCHANGED history, BelongInv', CallInv',
           \/ UNCHANGED <<queue_, shutdown_>>
           \/ shutdown_' /\ \A i \in Impls : queue_'[i] = <<>>
    PROVE  OrderInv'
<1>0. LogInv /\ WaitInv /\ InlineInv /\ FifoOrder
    BY DEF OrderInv
<1>1. log' = log /\ begun' = begun
    BY DEF history
<1>2. LogInv' /\ InlineInv' /\ FifoOrder'
    BY <1>0, <1>1 DEF LogInv, InlineInv, FifoOrder, Began, BeganBefore
<1>3. CASE UNCHANGED <<queue_, shutdown_>>
  <2>1. WaitInv'
      BY <1>0, <1>1, <1>3 DEF WaitInv, WaitsAt, Began
  <2> QED
      BY <1>2, <2>1 DEF OrderInv
<1>4. CASE shutdown_' /\ \A i \in Impls : queue_'[i] = <<>>
  <2>1. \A i \in Impls : DOMAIN queue_'[i] = {}
      BY <1>4
  <2>2. WaitInv'
      BY <1>4, <2>1 DEF WaitInv
  <2> QED
      BY <1>2, <2>2 DEF OrderInv
<1> QED
    BY <1>3, <1>4

\* A thread with an empty stack begins a call.
LEMMA CallPush ==
    ASSUME TypeOK, CallInv, NEW t \in Threads, stack[t] = <<>>, UNCHANGED log,
           NEW f \in Frames, Push(t, f), f.how = "plain" \/ f.op = NoHandler
    PROVE  CallInv'
<1>1. /\ \A u \in Threads : u # t => stack'[u] = stack[u]
      /\ stack'[t] = <<f>>
    BY DEF TypeOK, Push
<1>2. /\ DOMAIN stack'[t] = {1} /\ stack'[t][1] = f /\ Len(stack'[t]) = 1
    BY <1>1
<1>3. ASSUME NEW u \in Threads, NEW k \in DOMAIN stack'[u]
      PROVE  LET g == stack'[u][k] IN
             /\ g.how # "plain" /\ g.op # NoHandler =>
                   \E j \in DOMAIN log' : log'[j].impl = g.impl /\ log'[j].strand = g.strand
             /\ g.how = "complete" /\ g.op = NoHandler => k = Len(stack'[u])
  <2>1. CASE u = t
      BY <1>2, <1>3, <2>1
  <2>2. CASE u # t
      BY <1>1, <1>3, <2>2 DEF CallInv
  <2> QED
      BY <2>1, <2>2
<1> QED
    BY <1>3 DEF CallInv

\* The innermost call returns.
LEMMA CallPop ==
    ASSUME TypeOK, CallInv, NEW t \in Threads, stack[t] # <<>>, UNCHANGED log, Pop(t)
    PROVE  CallInv'
<1>1. /\ \A u \in Threads : u # t => stack'[u] = stack[u]
      /\ DOMAIN stack'[t] = DOMAIN stack[t] \ {Len(stack[t])}
      /\ \A k \in DOMAIN stack'[t] : stack'[t][k] = stack[t][k]
    BY PopFrames
<1>2. ASSUME NEW u \in Threads, u # t, NEW k \in DOMAIN stack'[u]
      PROVE  LET f == stack'[u][k] IN
             /\ f.how # "plain" /\ f.op # NoHandler =>
                   \E j \in DOMAIN log' : log'[j].impl = f.impl /\ log'[j].strand = f.strand
             /\ f.how = "complete" /\ f.op = NoHandler => k = Len(stack'[u])
    BY <1>1, <1>2 DEF CallInv
<1>3. ASSUME NEW k \in DOMAIN stack'[t]
      PROVE  LET f == stack'[t][k] IN
             /\ f.how # "plain" /\ f.op # NoHandler =>
                   \E j \in DOMAIN log' : log'[j].impl = f.impl /\ log'[j].strand = f.strand
             /\ ~(f.how = "complete" /\ f.op = NoHandler)
  <2>1. k \in DOMAIN stack[t] /\ k # Len(stack[t]) /\ stack'[t][k] = stack[t][k]
      BY <1>1
  <2> QED
      BY <2>1 DEF CallInv
<1> QED
    BY <1>2, <1>3 DEF CallInv

LEMMA OrderStep == IInv /\ OrderInv /\ [Next]_vars => OrderInv'
<1> SUFFICES ASSUME IInv, OrderInv, [Next]_vars PROVE OrderInv'
    OBVIOUS
<1>0. TypeOK /\ LogInv /\ BelongInv /\ CallInv
    BY DEF IInv, OrderInv
<1>1. ASSUME NEW t \in Threads, NEW s \in Strands, NEW h \in Handlers, Post(t, s, h)
      PROVE  OrderInv'
    BY <1>1, OrderEnqueue DEF Post, strands
<1>2. ASSUME NEW t \in Threads, NEW s \in Strands, NEW h \in Handlers, DispatchLater(t, s, h)
      PROVE  OrderInv'
    BY <1>2, OrderEnqueue DEF DispatchLater, strands
<1>3. ASSUME NEW t \in Threads, NEW s \in Strands, NEW h \in Handlers, DispatchInline(t, s, h)
      PROVE  OrderInv'
    BY <1>3, OrderCall DEF DispatchInline, strands, lanes
<1>4. ASSUME NEW t \in Threads, NEW s \in Strands, NEW h \in Handlers, DispatchNow(t, s, h)
      PROVE  OrderInv'
  <2>1. impl_[s] \in Impls /\ ~shutdown_
      BY <1>0, <1>4, GiverFacts DEF DispatchNow
  <2>2. queue_[impl_[s]] = <<>>
    <3>1. count_[impl_[s]] = 0
        BY <1>4 DEF DispatchNow, Idle
    <3>2. CountIs(impl_[s])
        BY <2>1 DEF IInv, CountInv
    <3>3. queue_[impl_[s]] \in Seq([op : Handlers, strand : Strands])
        BY <1>0, <2>1 DEF TypeOK
    <3>4. Len(queue_[impl_[s]]) \in Nat
        BY <3>3
    <3>5. Len(queue_[impl_[s]]) = 0
      <4>1. \/ count_[impl_[s]] = Len(queue_[impl_[s]]) + 1
            \/ count_[impl_[s]] = Len(queue_[impl_[s]]) + 0
          BY <3>2 DEF CountIs
      <4> QED
          BY <3>1, <3>4, <4>1
    <3> QED
        BY <3>3, <3>5
  <2> QED
      BY <1>4, <2>2, OrderCall DEF DispatchNow, strands
<1>5. ASSUME NEW t \in Threads, DoComplete(t) PROVE OrderInv'
    BY <1>5, OrderComplete
<1>6. ASSUME NEW t \in Threads, NEW s \in Strands, Construct(t, s) PROVE OrderInv'
  <2>1. PICK i \in Impls : impl_' = [impl_ EXCEPT ![s] = i]
      BY <1>6 DEF Construct
  <2>2. /\ impl_[s] = NoImpl /\ s \notin gone
        /\ gone' = gone /\ UNCHANGED <<history, stack, queue_, shutdown_>>
      BY <1>6 DEF Construct, lanes
  <2>3. ASSUME NEW k \in DOMAIN log PROVE log[k].strand # s /\ log[k].strand \in Strands
    <3>1. log[k] \in LogEntries
        BY <1>0 DEF LogInv
    <3>2. log[k].impl # NoImpl /\ log[k].strand \in Strands
        BY <3>1, StrandAssumption DEF LogEntries
    <3> QED
        BY <1>0, <2>2, <3>2 DEF BelongInv
  <2>4. BelongInv'
      BY <1>0, <2>1, <2>2, <2>3 DEF BelongInv, TypeOK, history
  <2>5. CallInv'
      BY <1>0, <2>2 DEF CallInv, history
  <2> QED
      BY <2>2, <2>4, <2>5, OrderQuiet
<1>7. ASSUME NEW t \in Threads, NEW s \in Strands, Destroy(t, s) PROVE OrderInv'
  <2>1. /\ impl_' = [impl_ EXCEPT ![s] = NoImpl] /\ gone' = gone \cup {s}
        /\ UNCHANGED <<history, stack, queue_, shutdown_>>
      BY <1>7 DEF Destroy, lanes
  <2>2. \A k \in DOMAIN log : log[k] \in LogEntries
      BY <1>0 DEF LogInv
  <2>3. BelongInv'
      BY <1>0, <2>1, <2>2 DEF BelongInv, TypeOK, LogEntries, history
  <2>4. CallInv'
      BY <1>0, <2>1 DEF CallInv, history
  <2> QED
      BY <2>1, <2>3, <2>4, OrderQuiet
<1>8. ASSUME NEW t \in Threads, Schedule(t) PROVE OrderInv'
  <2>1. UNCHANGED <<impl_, gone, history, stack, queue_, shutdown_>>
      BY <1>8 DEF Schedule, strands, lanes
  <2>2. BelongInv' /\ CallInv'
      BY <1>0, <2>1 DEF BelongInv, CallInv, history
  <2> QED
      BY <2>1, <2>2, OrderQuiet
<1>9. ASSUME NEW t \in Threads, Take(t) \/ RunPlain(t) PROVE OrderInv'
  <2>1. /\ stack[t] = <<>>
        /\ UNCHANGED <<impl_, gone, history, queue_, shutdown_>>
      BY <1>9 DEF Take, RunPlain, strands, lanes
  <2>2. \E f \in Frames : Push(t, f) /\ (f.how = "plain" \/ f.op = NoHandler)
    <3>1. CASE Take(t)
      <4>1. Head(posted) \in Impls
          BY <1>0, <3>1 DEF Take, TypeOK
      <4> QED
          BY <3>1, <4>1, FramesMade DEF Take, Frame
    <3>2. CASE RunPlain(t)
        BY <3>2, FramesMade DEF RunPlain, Frame
    <3> QED
        BY <1>9, <3>1, <3>2
  <2>3. CallInv'
      BY <1>0, <2>1, <2>2, CallPush DEF history
  <2>4. BelongInv'
      BY <1>0, <2>1 DEF BelongInv, history
  <2> QED
      BY <2>1, <2>3, <2>4, OrderQuiet
<1>10. ASSUME NEW t \in Threads, Return(t) \/ OnExit(t) PROVE OrderInv'
  <2>1. /\ stack[t] # <<>> /\ Pop(t)
        /\ UNCHANGED <<impl_, gone, history, queue_, shutdown_>>
      BY <1>10 DEF Return, OnExit, InPool, strands, lanes
  <2>2. CallInv'
      BY <1>0, <2>1, CallPop DEF history
  <2>3. BelongInv'
      BY <1>0, <2>1 DEF BelongInv, history
  <2> QED
      BY <2>1, <2>2, <2>3, OrderQuiet
<1>11. ASSUME NEW t \in Threads, Shutdown(t) PROVE OrderInv'
  <2>1. /\ UNCHANGED <<impl_, gone, history, stack>>
        /\ shutdown_' /\ \A i \in Impls : queue_'[i] = <<>>
      BY <1>11 DEF Shutdown, strands
  <2>2. BelongInv' /\ CallInv'
      BY <1>0, <2>1 DEF BelongInv, CallInv, history
  <2> QED
      BY <2>1, <2>2, OrderQuiet
<1>12. CASE UNCHANGED vars
  <2>1. UNCHANGED <<impl_, gone, history, stack, queue_, shutdown_>>
      BY <1>12 DEF vars, strands, lanes
  <2>2. BelongInv' /\ CallInv'
      BY <1>0, <2>1 DEF BelongInv, CallInv, history
  <2> QED
      BY <2>1, <2>2, OrderQuiet
<1> QED
    BY <1>1, <1>2, <1>3, <1>4, <1>5, <1>6, <1>7, <1>8, <1>9, <1>10, <1>11, <1>12
       DEF Next, Submit, Gone

\* A strand object without company keeps the documented order: what it calls
\* at once it calls inside itself, and the rest goes through the mutex.
LEMMA OrderInvKeeps == OrderInv => OrderKept
<1> SUFFICES ASSUME OrderInv, NEW s \in Strands, OwnImpl(s),
                    NEW j \in DOMAIN log, NEW k \in DOMAIN log, j < k,
                    log[j].strand = s, log[k].strand = s, log[j].by = log[k].by,
                    Ordered(log[j]), Ordered(log[k]), Began(log[k].op)
             PROVE  BeganBefore(log[j].op, log[k].op)
    BY DEF OrderKept, OrderOfOwnImpl, InOrder, OrderInv
<1>0. LogInv /\ BelongInv /\ InlineInv /\ FifoOrder
    BY DEF OrderInv
<1>1. ASSUME NEW l \in DOMAIN log, log[l].strand = s, Ordered(log[l])
      PROVE  log[l].how # "inline"
    BY <1>0, <1>1 DEF Ordered, InlineInv, OwnImpl
<1>2. log[j].impl = log[k].impl
    BY <1>0 DEF BelongInv
<1> QED
    BY <1>0, <1>1, <1>2 DEF FifoOrder

\* Handlers given to a strand are called first in, first out, and in the
\* documented order if the strand object has its implementation to itself.
THEOREM StrandsKeepOrder == Spec => []OrderKept
<1>1. Init => OrderInv
  <2> SUFFICES ASSUME Init PROVE OrderInv
      OBVIOUS
  <2>1. log = <<>> /\ begun = <<>> /\ DOMAIN log = {} /\ DOMAIN begun = {}
      BY DEF Init
  <2>2. \A t \in Threads : DOMAIN stack[t] = {}
      BY DEF Init
  <2>3. \A i \in Impls : DOMAIN queue_[i] = {}
      BY DEF Init
  <2> QED
      BY <2>1, <2>2, <2>3
         DEF OrderInv, LogInv, BelongInv, WaitInv, CallInv, InlineInv, FifoOrder
<1> QED
    BY <1>1, StrandInvariant, OrderStep, OrderInvKeeps, PTL DEF Spec
=============================================================================
