-------------------------------- MODULE Strand --------------------------------
(***************************************************************************)
(* Strands, boost/asio/detail/strand_service.hpp, impl/strand_service.hpp  *)
(* and impl/strand_service.ipp.                                            *)
(*                                                                         *)
(* A strand_impl is an operation of the io_service with a counter and a    *)
(* queue of its own.  Whoever raises the counter from zero puts the        *)
(* strand_impl in the queue of the io_service; a thread of the pool that   *)
(* takes it calls one handler, lowers the counter and puts it back if it   *)
(* is not zero.  The strand objects of a program share a fixed number of   *)
(* strand_impls.  A region under a strand_impl's mutex is one action; the  *)
(* call of post_immediate_completion that follows it is another.           *)
(*                                                                         *)
(* The io_service is the queue of its posted operations and the threads    *)
(* that take from it (TaskIoService models it in full).                    *)
(***************************************************************************)
EXTENDS Integers, Sequences, SequencesExt

CONSTANTS
    Threads,    \* threads of the program
    Strands,    \* strand objects
    Impls,      \* the elements of implementations_ (193 in the code)
    Handlers,   \* each is given to a strand at most once
    NoThread, NoImpl, NoHandler

ASSUME StrandAssumption ==
    /\ NoThread \notin Threads
    /\ NoImpl \notin Impls
    /\ NoHandler \notin Handlers

VARIABLES
    impl_,      \* strand object -> its implementation
    gone,       \* the strand objects that have been destroyed
    count_,     \* per implementation, "count of handlers in the strand,
                \* including the upcall (if any)"
    queue_,     \* per implementation, the handlers waiting
    posted,     \* the implementations in the io_service's queue
    stack,      \* per thread, the calls of handlers it is in, innermost last
    todo,       \* per thread, the implementation it is about to post
    shutdown_,
    log,        \* history: the handlers given, in the order of the mutex
    begun       \* history: the handlers called, in order

strands == <<impl_, gone>>
lanes   == <<count_, queue_>>
history == <<log, begun>>
vars    == <<strands, lanes, posted, stack, todo, shutdown_, history>>

-----------------------------------------------------------------------------
(* The call stack.  A frame says how a handler is called: "plain" is a     *)
(* handler that went through no strand, "complete" one called by           *)
(* do_complete, "dispatch" one called by dispatch on an idle strand and    *)
(* "inline" one called by dispatch inside the strand.                      *)

Frame(how, i, h, s) == [how |-> how, impl |-> i, op |-> h, strand |-> s]

Frames ==
    [how : {"plain"}, impl : {NoImpl}, op : {NoImpl}, strand : {NoImpl}]
    \cup [how : {"complete"}, impl : Impls,
          op : Handlers \cup {NoHandler}, strand : Strands \cup {NoHandler}]
    \cup [how : {"dispatch", "inline"}, impl : Impls, op : Handlers, strand : Strands]

Calls(t) == ToSet(stack[t])
Push(t, f) == stack' = [stack EXCEPT ![t] = Append(@, f)]
Pop(t) == stack' = [stack EXCEPT ![t] = Front(@)]

\* call_stack<strand_impl>::contains
InStrand(t, i) == \E f \in Calls(t) : f.impl = i

\* call_stack<io_service_impl>::contains: only the pool has frames here
InPool(t) == stack[t] # <<>>

\* The thread's own code runs: it is outside the pool or in a handler's body.
Running(t) == /\ todo[t] = NoImpl
              /\ InPool(t) => Last(stack[t]).op # NoHandler
              /\ ~shutdown_

Given == {e.op : e \in ToSet(log)}

\* The thread may give the handler to the strand object.
MayGive(t, s, h) == Running(t) /\ impl_[s] # NoImpl /\ h \notin Given

-----------------------------------------------------------------------------
\* construct: the hash of the object's address and of a salt picks any
\* implementation, whether another strand has it or not.
Construct(t, s) ==
    /\ Running(t)
    /\ impl_[s] = NoImpl /\ s \notin gone
    /\ \E i \in Impls : impl_' = [impl_ EXCEPT ![s] = i]
    /\ UNCHANGED <<lanes, history, gone, posted, stack, todo, shutdown_>>

\* destroy: the handlers already given stay in the implementation.
Destroy(t, s) ==
    /\ Running(t)
    /\ impl_[s] # NoImpl
    /\ impl_' = [impl_ EXCEPT ![s] = NoImpl]
    /\ gone' = gone \cup {s}
    /\ UNCHANGED <<lanes, history, posted, stack, todo, shutdown_>>

\* The history entry of a call of post or dispatch.  "outside" says that no
\* handler of the same strand object is on the thread's stack.
Entry(t, s, h, how) ==
    [op |-> h, strand |-> s, impl |-> impl_[s], by |-> t, how |-> how,
     outside |-> \A f \in Calls(t) : f.strand # s]

\* Names that end in a letter after an underscore are variants: each is a
\* mistake that one of the properties below finds out.
Enqueue_C(t, s, h) ==   \* the newest handler goes first
    LET i == impl_[s] IN
    /\ count_' = [count_ EXCEPT ![i] = @ + 1]
    /\ queue_' = [queue_ EXCEPT ![i] = <<[op |-> h, strand |-> s]>> \o @]
    /\ todo' = [todo EXCEPT ![t] = IF count_[i] = 0 THEN i ELSE NoImpl]

\* Add to the queue under the implementation's mutex; the first handler is
\* responsible for scheduling the strand.
Enqueue(t, s, h) ==
    LET i == impl_[s] IN
    /\ count_' = [count_ EXCEPT ![i] = @ + 1]
    /\ queue_' = [queue_ EXCEPT ![i] = Append(@, [op |-> h, strand |-> s])]
    /\ todo' = [todo EXCEPT ![t] = IF count_[i] = 0 THEN i ELSE NoImpl]

Post(t, s, h) ==
    /\ MayGive(t, s, h)
    /\ Enqueue(t, s, h)
    /\ log' = Append(log, Entry(t, s, h, "post"))
    /\ UNCHANGED <<strands, posted, stack, shutdown_, begun>>

\* dispatch inside the strand: the handler is called at once.
DispatchInline(t, s, h) ==
    /\ MayGive(t, s, h)
    /\ InStrand(t, impl_[s])
    /\ Push(t, Frame("inline", impl_[s], h, s))
    /\ log' = Append(log, Entry(t, s, h, "inline"))
    /\ begun' = Append(begun, h)
    /\ UNCHANGED <<strands, lanes, posted, todo, shutdown_>>

Idle_A(i) == queue_[i] = <<>>  \* a handler that is being called is forgotten

\* (++impl->count_ == 1)
Idle(i) == count_[i] = 0

\* dispatch by a thread of the pool on an idle strand: called at once too.
DispatchNow(t, s, h) ==
    /\ MayGive(t, s, h)
    /\ ~InStrand(t, impl_[s])
    /\ InPool(t) /\ Idle(impl_[s])
    /\ count_' = [count_ EXCEPT ![impl_[s]] = @ + 1]
    /\ Push(t, Frame("dispatch", impl_[s], h, s))
    /\ log' = Append(log, Entry(t, s, h, "dispatch"))
    /\ begun' = Append(begun, h)
    /\ UNCHANGED <<strands, queue_, posted, todo, shutdown_>>

DispatchLater(t, s, h) ==
    /\ MayGive(t, s, h)
    /\ ~InStrand(t, impl_[s])
    /\ ~(InPool(t) /\ Idle(impl_[s]))
    /\ Enqueue(t, s, h)
    /\ log' = Append(log, Entry(t, s, h, "dispatch"))
    /\ UNCHANGED <<strands, posted, stack, shutdown_, begun>>

\* io_service_.post_immediate_completion(impl)
Schedule(t) ==
    /\ todo[t] # NoImpl
    /\ posted' = Append(posted, todo[t])
    /\ todo' = [todo EXCEPT ![t] = NoImpl]
    /\ UNCHANGED <<strands, lanes, history, stack, shutdown_>>

-----------------------------------------------------------------------------
(* The threads of the pool.                                                *)

\* A thread of the pool takes a strand_impl from the io_service's queue ...
Take(t) ==
    /\ stack[t] = <<>> /\ todo[t] = NoImpl /\ ~shutdown_
    /\ posted # <<>>
    /\ posted' = Tail(posted)
    /\ Push(t, Frame("complete", Head(posted), NoHandler, NoHandler))
    /\ UNCHANGED <<strands, lanes, history, todo, shutdown_>>

\* ... and do_complete takes the oldest handler and calls it.
DoComplete(t) ==
    /\ InPool(t) /\ todo[t] = NoImpl
    /\ LET i == Last(stack[t]).impl
           next == Head(queue_[i])
       IN  /\ Last(stack[t]).how = "complete" /\ Last(stack[t]).op = NoHandler
           /\ queue_' = [queue_ EXCEPT ![i] = Tail(@)]
           /\ stack' = [stack EXCEPT ![t] =
                          Append(Front(@), Frame("complete", i, next.op, next.strand))]
           /\ begun' = Append(begun, next.op)
    /\ UNCHANGED <<strands, count_, posted, todo, shutdown_, log>>

\* A thread of the pool calls a handler that went through no strand.
RunPlain(t) ==
    /\ stack[t] = <<>> /\ todo[t] = NoImpl /\ ~shutdown_
    /\ Push(t, Frame("plain", NoImpl, NoImpl, NoImpl))
    /\ UNCHANGED <<strands, lanes, history, posted, todo, shutdown_>>

\* A handler returns, or throws, to code that is not the strand's own.
Return(t) ==
    /\ Running(t) /\ InPool(t)
    /\ Last(stack[t]).how \in {"plain", "inline"}
    /\ Pop(t)
    /\ UNCHANGED <<strands, lanes, history, posted, todo, shutdown_>>

OnExit_A(t) ==  \* the strand is not scheduled again
    /\ Running(t) /\ InPool(t)
    /\ LET i == Last(stack[t]).impl IN
       /\ Last(stack[t]).how \in {"complete", "dispatch"}
       /\ count_' = [count_ EXCEPT ![i] = @ - 1]
    /\ Pop(t)
    /\ UNCHANGED <<strands, history, queue_, posted, todo, shutdown_>>

\* A handler returns, or throws, to do_complete or dispatch:
\* ~on_do_complete_exit and ~on_dispatch_exit.
OnExit(t) ==
    /\ Running(t) /\ InPool(t)
    /\ LET i == Last(stack[t]).impl IN
       /\ Last(stack[t]).how \in {"complete", "dispatch"}
       /\ count_' = [count_ EXCEPT ![i] = @ - 1]
       /\ todo' = [todo EXCEPT ![t] = IF count_[i] > 1 THEN i ELSE NoImpl]
    /\ Pop(t)
    /\ UNCHANGED <<strands, history, queue_, posted, shutdown_>>

\* shutdown_service of the strands, then of the io_service, with no thread
\* left inside: the handlers in the queues are destroyed.
Shutdown(t) ==
    /\ Running(t)
    /\ \A u \in Threads : stack[u] = <<>> /\ todo[u] = NoImpl
    /\ queue_' = [i \in Impls |-> <<>>]
    /\ posted' = <<>>
    /\ shutdown_' = TRUE
    /\ UNCHANGED <<strands, history, count_, stack, todo>>

-----------------------------------------------------------------------------
Init ==
    /\ impl_ = [s \in Strands |-> NoImpl]
    /\ gone = {}
    /\ count_ = [i \in Impls |-> 0]
    /\ queue_ = [i \in Impls |-> <<>>]
    /\ posted = <<>>
    /\ stack = [t \in Threads |-> <<>>]
    /\ todo = [t \in Threads |-> NoImpl]
    /\ shutdown_ = FALSE
    /\ log = <<>>
    /\ begun = <<>>

Submit(t) ==
    \E s \in Strands, h \in Handlers :
        \/ Post(t, s, h)
        \/ DispatchInline(t, s, h)
        \/ DispatchNow(t, s, h)
        \/ DispatchLater(t, s, h)

\* The service is destroyed: nothing is left to happen.
Gone == shutdown_ /\ UNCHANGED vars

Next ==
    \/ \E t \in Threads :
         \/ Submit(t)
         \/ \E s \in Strands : Construct(t, s) \/ Destroy(t, s)
         \/ Schedule(t) \/ Take(t) \/ DoComplete(t) \/ RunPlain(t)
         \/ Return(t) \/ OnExit(t)
         \/ Shutdown(t)
    \/ Gone

Spec == Init /\ [][Next]_vars

(* The pool goes on taking posted operations, and handlers return.         *)
FairSpec ==
    /\ Spec
    /\ \A t \in Threads :
         /\ WF_vars(Schedule(t))
         /\ SF_vars(Take(t))
         /\ WF_vars(DoComplete(t))
         /\ WF_vars(Return(t) \/ OnExit(t))

-----------------------------------------------------------------------------
(* Properties.                                                             *)

Owner(i) == {t \in Threads : InStrand(t, i)}

\* The threads that are calling a handler of the strand_impl's queue, or one
\* that dispatch found it idle for.
Callers(i) == {t \in Threads : \E f \in Calls(t) :
                 f.impl = i /\ f.how # "inline" /\ f.op # NoHandler}

(* Type invariant. *)
TypeOK ==
    /\ impl_ \in [Strands -> Impls \cup {NoImpl}]
    /\ gone \subseteq Strands
    /\ count_ \in [Impls -> Nat]
    /\ queue_ \in [Impls -> Seq([op : Handlers, strand : Strands])]
    /\ posted \in Seq(Impls)
    /\ stack \in [Threads -> Seq(Frames)]
    /\ todo \in [Threads -> Impls \cup {NoImpl}]
    /\ shutdown_ \in BOOLEAN

(* The promise of a strand: its handlers are never called concurrently.    *)
(* Frames of one implementation are on the stack of one thread at most.    *)
NonConcurrent == \A i \in Impls : \A t, u \in Owner(i) : t = u

(* count_ is the number of handlers in the strand, "including the upcall": *)
(* the queue and the handler that is being called.                         *)
CountExact ==
    ~shutdown_ =>
    \A i \in Impls :
        count_[i] = Len(queue_[i]) + (IF Callers(i) = {} THEN 0 ELSE 1)

(* A strand with handlers has one token: it is in the io_service's queue   *)
(* once, or about to be put there by one thread, or called by one thread.  *)
(* Never twice, for a strand_impl is a node of one intrusive list, and     *)
(* never nowhere, for then its handlers would be forgotten.                *)
Tokens(i) ==
    {<<"posted", NoThread, k>> : k \in {k \in DOMAIN posted : posted[k] = i}}
    \cup {<<"todo", t, 0>> : t \in {t \in Threads : todo[t] = i}}
    \cup UNION {{<<"called", t, k>> :
                   k \in {k \in DOMAIN stack[t] : /\ stack[t][k].impl = i
                                                 /\ stack[t][k].how # "inline"}} :
                t \in Threads}
OneToken ==
    ~shutdown_ =>
    \A i \in Impls :
        IF count_[i] = 0 THEN Tokens(i) = {}
        ELSE \E p \in Tokens(i) : Tokens(i) = {p}

Began(h) == \E k \in DOMAIN begun : begun[k] = h
BeganBefore(g, h) ==
    \E j, k \in DOMAIN begun : j < k /\ begun[j] = g /\ begun[k] = h

(* Handlers that go through an implementation's mutex are called in the    *)
(* order of the mutex.                                                     *)
FifoOrder ==
    \A j, k \in DOMAIN log :
        /\ j < k /\ log[j].impl = log[k].impl
        /\ log[j].how # "inline" /\ log[k].how # "inline"
        /\ Began(log[k].op)
        => BeganBefore(log[j].op, log[k].op)

(* A strand_impl is sound: one handler at a time, all of them counted      *)
(* exactly, with one token in the scheduler while there are any.           *)
ImplSound == TypeOK /\ NonConcurrent /\ CountExact /\ OneToken

(* The order strand.hpp documents, for calls made by one thread one after  *)
(* the other: post before post, post before a dispatch performed outside   *)
(* the strand, and the converse.                                           *)
Ordered(e) == e.how = "post" \/ e.outside
InOrder(s) ==
    \A j, k \in DOMAIN log :
        /\ j < k /\ log[j].strand = s /\ log[k].strand = s /\ log[j].by = log[k].by
        /\ Ordered(log[j]) /\ Ordered(log[k])
        /\ Began(log[k].op)
        => BeganBefore(log[j].op, log[k].op)

(* A strand keeps the documented order if no other strand object was given *)
(* a handler for the same implementation, now or before it was destroyed.  *)
OwnImpl(s) ==
    \A j, k \in DOMAIN log :
        log[j].strand = s /\ log[k].strand # s => log[j].impl # log[k].impl
OrderOfOwnImpl == \A s \in Strands : OwnImpl(s) => InOrder(s)

(* Handlers are called in the order of the mutex, and of the document for  *)
(* strand objects that share with nobody.                                  *)
OrderKept == FifoOrder /\ OrderOfOwnImpl

(* strand.hpp makes no such condition.                                     *)
DocumentedOrder == \A s \in Strands : InOrder(s)

(* A handler given to a strand is called, unless the service is destroyed; *)
(* a strand object that is destroyed takes nothing with it.                *)
GivenServed ==
    \A h \in Handlers : h \in Given ~> (Began(h) \/ shutdown_)

(* Each implementation is a SerialExecutor.  The owner of a lane is the    *)
(* thread that calls a handler of the implementation.                      *)
Waiting == [i \in Impls |-> [k \in DOMAIN queue_[i] |-> queue_[i][k].op]]
Caller ==
    [i \in Impls |->
       IF Callers(i) = {} THEN NoThread ELSE CHOOSE t \in Callers(i) : TRUE]

Serial == INSTANCE SerialExecutor WITH
    Lanes <- Impls, waiting <- Waiting, owner <- Caller

StrandIsSerial == Serial!Spec
=============================================================================
