----------------------------- MODULE EpollReactor -----------------------------
(***************************************************************************)
(* Descriptors in the epoll reactor, detail/epoll_reactor.hpp and          *)
(* impl/epoll_reactor.ipp, on the kernel's edge-triggered epoll: the       *)
(* mutex and the queues of each descriptor_state, the pool that recycles   *)
(* them (detail/object_pool.hpp), speculative operations, and the array of *)
(* events that a thread works through after epoll_wait has returned.       *)
(*                                                                         *)
(* One thread at a time is in run (TaskIoService).  A region under a       *)
(* descriptor_state's mutex is one action, but where operations are tried: *)
(* start_op tries one and then pushes it, run goes through the queues, and *)
(* each attempt of theirs is an action.  Timers are in ReactorTimers, the  *)
(* interrupter is in TaskIoService.                                        *)
(***************************************************************************)
EXTENDS Naturals, Sequences, FiniteSets, SequencesExt, FiniteSetsExt

CONSTANTS
    Files,      \* open file descriptions, each opened once, and with each the
                \* I/O object that has its descriptor
    States,     \* the descriptor_states, as the pool creates them
    Ops,
    Waits,      \* those that only wait: null_buffers and connect operations,
                \* whose do_perform returns true whatever the descriptor does
    Internal,   \* pipe_read_op: reads everything and never completes
    Kinds,      \* of op_types
    EventMax,   \* length of the array of events
    MayFail,    \* whether epoll_ctl may refuse a descriptor
    MayFork,    \* whether the program forks
    MayHang,    \* whether files hang up or have errors
    MaxReady,   \* bound: units of data (or room) in a file
    None

\* An event: the state that it points to, its file, and its kinds.
Events == [ptr : ToSet(States), file : Files, flags : SUBSET Kinds]

ASSUME ReactorAssumption ==
    /\ States \in Seq(ToSet(States)) /\ IsInjective(States)
    /\ None \notin ToSet(States) \cup Files \cup Ops /\ None \notin Events
    /\ Waits \subseteq Ops /\ Internal \subseteq Ops
    /\ Kinds \subseteq 0..2 /\ (Internal # {} => 0 \in Kinds)
    /\ EventMax \in Nat \ {0} /\ MaxReady \in Nat
    /\ MayFail \in BOOLEAN /\ MayFork \in BOOLEAN /\ MayHang \in BOOLEAN

read_op == 0
except_op == 2

VARIABLES
    status,     \* per file: new, open, closing, closed, failed
    data,       \* per file, the per_descriptor_data of its I/O object
    shared,     \* the files that a child process has open too
    registered, \* per file, epoll's data.ptr for it
    ready,      \* per file and kind, the units it has
    hung,       \* the files with EPOLLERR or EPOLLHUP
    edge,       \* the files on epoll's list of ready ones
    live_list_, free_list_,             \* of the pool
    descriptor_, shutdown_, op_queue_,  \* per descriptor_state
    mutex_,     \* per descriptor_state, the operation whose start holds it
    events,     \* collected by epoll_wait and not yet dispatched
    event,      \* the one being dispatched, with the kinds still to try; the
                \* thread holds the mutex of its state
    result,     \* per operation: new, starting, queued, done, aborted, destroyed
    target,     \* per operation that waits or is done, its file and kind
    ahead       \* history: and those that waited on its file when it was started

P == ToSet(States)
kernel == <<registered, ready, hung, edge>>
pool == <<live_list_, free_list_, descriptor_, shutdown_>>
ops == <<op_queue_, result, target, ahead>>
objects == <<status, data, shared>>
vars == <<objects, kernel, pool, ops, mutex_, events, event>>

NoOps == [k \in Kinds |-> <<>>]

Init ==
    /\ status = [f \in Files |-> "new"] /\ data = [f \in Files |-> None]
    /\ shared = {} /\ edge = {} /\ hung = {}
    /\ registered = [f \in Files |-> None]
    /\ ready = [f \in Files |-> [k \in Kinds |-> 0]]
    /\ live_list_ = {} /\ free_list_ = States
    /\ descriptor_ = [p \in P |-> None] /\ shutdown_ = [p \in P |-> TRUE]
    /\ op_queue_ = [p \in P |-> NoOps]
    /\ mutex_ = [p \in P |-> None]
    /\ events = {} /\ event = None
    /\ ahead = [o \in Ops |-> {}]
    /\ result = [o \in Ops |-> "new"] /\ target = [o \in Ops |-> None]

-----------------------------------------------------------------------------
(* The kernel.                                                             *)

\* The kinds that run tries for what epoll_wait says of a file: errors and
\* hang-ups are of every kind.
ReadyKinds(f) == {k \in Kinds : ready[f][k] > 0 \/ f \in hung}

Notify(f) == edge' = IF registered[f] = None THEN edge ELSE edge \cup {f}

Exists(f) == status[f] \in {"open", "closing"} \/ f \in shared

\* Bounds: units, and nothing arrives for a file while it hangs.
Arrive(f, k) ==
    /\ Exists(f) /\ ready[f][k] < MaxReady /\ f \notin hung
    /\ ready' = [ready EXCEPT ![f][k] = @ + 1]
    /\ Notify(f)
    /\ UNCHANGED <<objects, registered, hung, pool, ops, mutex_, events, event>>

\* The pipe that an internal operation reads has both its ends here.  Bound:
\* one file at a time.
HangUp(f) ==
    /\ MayHang /\ Exists(f) /\ hung = {}
    /\ \A o \in Internal : target[o] \notin {f} \X Kinds
    /\ hung' = hung \cup {f}
    /\ Notify(f)
    /\ UNCHANGED <<objects, registered, ready, pool, ops, mutex_, events, event>>

\* A system call on f for k that would not block: it takes a unit, or reports
\* the error, which may clear it.
Take(f, k) ==
    /\ k \in ReadyKinds(f)
    /\ \/ ready[f][k] > 0 /\ ready' = [ready EXCEPT ![f][k] = @ - 1] /\ UNCHANGED hung
       \/ f \in hung /\ hung' \in {hung, hung \ {f}} /\ UNCHANGED ready
    /\ UNCHANGED <<registered, edge>>

\* The program reads or writes without the reactor.
Consume(f, k) ==
    /\ status[f] = "open" /\ Take(f, k)
    /\ UNCHANGED <<objects, pool, ops, mutex_, events, event>>

\* epoll_ctl ADD and MOD look at once; closing the last descriptor of a file
\* and DEL take it out.
Watch(f, p) ==
    /\ registered' = [registered EXCEPT ![f] = p]
    /\ edge' = IF ReadyKinds(f) # {} THEN edge \cup {f} ELSE edge

\* Names that end in a letter after an underscore are variants: each is a
\* mistake that one of the properties below finds out.
Modify_A(f) == UNCHANGED edge

Modify(f) == edge' = IF ReadyKinds(f) # {} THEN edge \cup {f} ELSE edge

Withdraw(F) ==
    /\ registered' = [f \in Files |-> IF f \in F THEN None ELSE registered[f]]
    /\ edge' = edge \ F

\* Nobody has the files F open any more.
Vanish(F) ==
    /\ Withdraw(F)
    /\ ready' = [f \in Files |-> IF f \in F THEN [k \in Kinds |-> 0] ELSE ready[f]]
    /\ hung' = hung \ F

-----------------------------------------------------------------------------
(* Registration and the pool.                                              *)

\* register_descriptor before it calls epoll_ctl.  Bound: nothing is registered
\* once the reactor has been shut down.
Alloc(f) ==
    LET p == Head(free_list_) IN
    /\ status[f] = "new" /\ free_list_ # <<>>
    /\ \A g \in Files : data[g] # None => ~shutdown_[data[g]]
    /\ free_list_' = Tail(free_list_) /\ live_list_' = live_list_ \cup {p}
    /\ descriptor_' = [descriptor_ EXCEPT ![p] = f]
    /\ shutdown_' = [shutdown_ EXCEPT ![p] = FALSE]
    /\ data' = [data EXCEPT ![f] = p]

RegisterDescriptor(f) ==
    /\ Alloc(f)
    /\ status' = [status EXCEPT ![f] = "open"]
    /\ Watch(f, data'[f])
    /\ UNCHANGED <<shared, ready, hung, ops, mutex_, events, event>>

\* epoll_ctl fails and the I/O object is not opened.
RegisterFails(f) ==
    /\ MayFail /\ Alloc(f)
    /\ status' = [status EXCEPT ![f] = "failed"]
    /\ UNCHANGED <<shared, kernel, ops, mutex_, events, event>>

Waiting == {"starting", "queued"}

Started(o, f, k) ==
    /\ target' = [target EXCEPT ![o] = <<f, k>>]
    /\ ahead' = [ahead EXCEPT ![o] = 
                  {q \in Ops : result[q] \in Waiting /\ target[q][1] = f}]

\* The operation is pushed under the mutex of the pool, not the state's.
RegisterInternal(f, o) ==
    /\ o \in Internal /\ result[o] = "new" /\ Alloc(f)
    /\ status' = [status EXCEPT ![f] = "open"]
    /\ op_queue_' = [op_queue_ EXCEPT ![data'[f]][read_op] = Append(@, o)]
    /\ result' = [result EXCEPT ![o] = "queued"]
    /\ Started(o, f, read_op)
    /\ Watch(f, data'[f])
    /\ UNCHANGED <<shared, ready, hung, mutex_, events, event>>

QueuedAt(p) == UNION {ToSet(op_queue_[p][k]) : k \in Kinds}

Forget(O) ==
    /\ target' = [o \in Ops |-> IF o \in O THEN None ELSE target[o]]
    /\ ahead' = [o \in Ops |-> IF o \in O THEN {} ELSE ahead[o]]

End_A(p, how) ==    \* only operations of the first kind
    /\ op_queue_' = [op_queue_ EXCEPT ![p][read_op] = <<>>]
    /\ result' = [o \in Ops |-> IF o \in ToSet(op_queue_[p][read_op]) THEN how
                                ELSE result[o]]
    /\ Forget(ToSet(op_queue_[p][read_op]))

\* All operations of a state end in the same way.
End(p, how) ==
    /\ op_queue_' = [op_queue_ EXCEPT ![p] = NoOps]
    /\ result' = [o \in Ops |-> IF o \in QueuedAt(p) THEN how ELSE result[o]]
    /\ Forget(QueuedAt(p))

\* Nobody holds the mutex of p.
Unlocked(p) == mutex_[p] = None /\ (event # None => event.ptr # p)

Open(f) == status[f] = "open" /\ Unlocked(data[f])

CancelOps(f) ==
    /\ Open(f)
    /\ End(data[f], "aborted")
    /\ UNCHANGED <<objects, kernel, pool, mutex_, events, event>>

\* Free the state and forget it.
Free(f) ==
    /\ live_list_' = live_list_ \ {data[f]}
    /\ free_list_' = <<data[f]>> \o free_list_
    /\ descriptor_' = [descriptor_ EXCEPT ![data[f]] = None]
    /\ shutdown_' = [shutdown_ EXCEPT ![data[f]] = TRUE]
    /\ data' = [data EXCEPT ![f] = None]

Used(p) == ~shutdown_[p]

\* deregister_descriptor and deregister_internal_descriptor; the descriptor
\* is closed later.  With closing, epoll is left to notice that.
Deregister(f, closing) ==
    LET p == data[f]
        internal == QueuedAt(p) \cap Internal # {}
    IN  /\ Open(f) /\ (internal => ~closing)
        /\ status' = [status EXCEPT ![f] = "closing"]
        /\ IF Used(p) THEN End(p, IF internal THEN "destroyed" ELSE "aborted") /\ Free(f)
           ELSE UNCHANGED <<data, pool, ops>>
        /\ IF Used(p) /\ ~closing THEN Withdraw({f}) ELSE UNCHANGED <<registered, edge>>
        /\ UNCHANGED <<shared, ready, hung, mutex_, events, event>>

CloseDescriptor(f) ==
    /\ status[f] = "closing"
    /\ status' = [status EXCEPT ![f] = "closed"]
    /\ IF f \in shared THEN UNCHANGED kernel ELSE Vanish({f})
    /\ UNCHANGED <<data, shared, pool, ops, mutex_, events, event>>

-----------------------------------------------------------------------------
(* start_op.                                                               *)

\* Whether start_op tries the operation; receiving out-of-band data and waits
\* are not tried (allow_speculative).
Speculative(o, p, k) ==
    /\ o \notin Waits /\ k # except_op
    /\ op_queue_[p][k] = <<>>
    /\ k = read_op /\ except_op \in Kinds => op_queue_[p][except_op] = <<>>

Push(o, p, k) ==
    /\ op_queue_' = [op_queue_ EXCEPT ![p][k] = Append(@, o)]
    /\ result' = [result EXCEPT ![o] = "queued"]

Hold(o, p) == mutex_' = [mutex_ EXCEPT ![p] = o]

\* The I/O object has no descriptor.
StartClosed(f, o) ==
    /\ status[f] \in {"new", "closed"} /\ result[o] = "new" /\ o \notin Internal
    /\ result' = [result EXCEPT ![o] = "aborted"]
    /\ UNCHANGED <<objects, kernel, pool, op_queue_, target, ahead, mutex_, events, event>>

StartOp(f, k, o) ==
    LET p == data[f] IN
    /\ Open(f) /\ result[o] = "new" /\ o \notin Internal
    /\ \/ /\ shutdown_[p]
          /\ result' = [result EXCEPT ![o] = "destroyed"]
          /\ UNCHANGED <<kernel, op_queue_, target, ahead, mutex_>>
       \/ /\ ~shutdown_[p] /\ Speculative(o, p, k) /\ Take(f, k)
          /\ Started(o, f, k)
          /\ result' = [result EXCEPT ![o] = "done"]
          /\ UNCHANGED <<op_queue_, mutex_>>
       \/ /\ ~shutdown_[p] /\ Speculative(o, p, k) /\ k \notin ReadyKinds(f)
          /\ Started(o, f, k)
          /\ Hold(o, p)
          /\ result' = [result EXCEPT ![o] = "starting"]
          /\ UNCHANGED <<kernel, op_queue_>>
       \/ /\ ~shutdown_[p] /\ ~Speculative(o, p, k)
          /\ Started(o, f, k)
          /\ IF op_queue_[p][k] = <<>> THEN Modify(f) ELSE UNCHANGED edge
          /\ Push(o, p, k)
          /\ UNCHANGED <<registered, ready, hung, mutex_>>
    /\ UNCHANGED <<objects, pool, events, event>>

\* The attempt has failed: push, and release the mutex.
StartPush(o) ==
    LET p == data[target[o][1]] IN
    /\ result[o] = "starting"
    /\ Push(o, p, target[o][2])
    /\ mutex_' = [mutex_ EXCEPT ![p] = None]
    /\ UNCHANGED <<objects, kernel, pool, target, ahead, events, event>>

-----------------------------------------------------------------------------
(* run.                                                                    *)

Event(f) == [ptr |-> registered[f], file |-> f, flags |-> ReadyKinds(f)]

Reported_A(R, F) == edge' = {}     \* what finds no place in the array is dropped
Reported(R, F) == edge' = R \ F

\* epoll_wait reports files of its list, as many as the array holds, with what
\* they are ready for now; those that are not any more leave the list silently.
EpollWait(F) ==
    LET R == {f \in edge : ReadyKinds(f) # {}} IN
    /\ events = {} /\ event = None /\ F # {} /\ F \subseteq R
    /\ Cardinality(F) = Min({EventMax, Cardinality(R)})
    /\ events' = {Event(f) : f \in F}
    /\ Reported(R, F)
    /\ UNCHANGED <<objects, registered, ready, hung, pool, ops, mutex_, event>>

\* The thread takes an event, and the mutex of the state that it points to.
TakeEvent(e) ==
    /\ event = None /\ e \in events /\ mutex_[e.ptr] = None
    /\ event' = e /\ events' = events \ {e}
    /\ UNCHANGED <<objects, kernel, pool, ops, mutex_>>

Turn_A(flags) == Min(flags)     \* reads before out-of-band reads

\* The kinds are tried from max_ops - 1 down to 0.
Turn(flags) == Max(flags)

\* The operations of a kind are tried one by one until one finds nothing.  The
\* internal one reads all that there is and stays; a state that was freed
\* meanwhile has none.
HandleEvent ==
    LET p == event.ptr
        f == descriptor_[p]
        k == Turn(event.flags)
        q == op_queue_[p][k]
        NextKind == event' = IF event.flags = {k} THEN None
                             ELSE [event EXCEPT !.flags = @ \ {k}]
    IN  /\ event # None
        /\ \/ /\ q # <<>> /\ Head(q) \notin Internal
              /\ IF Head(q) \in Waits THEN UNCHANGED kernel ELSE Take(f, k)
              /\ op_queue_' = [op_queue_ EXCEPT ![p][k] = Tail(@)]
              /\ result' = [result EXCEPT ![Head(q)] = "done"]
              /\ UNCHANGED event
           \/ /\ q # <<>> => Head(q) \notin Waits \cup Internal /\ k \notin ReadyKinds(f)
              /\ NextKind
              /\ UNCHANGED <<kernel, op_queue_, result>>
           \/ /\ q # <<>> /\ Head(q) \in Internal
              /\ NextKind
              /\ ready' = [ready EXCEPT ![f][k] = 0]
              /\ UNCHANGED <<registered, hung, edge, op_queue_, result>>
        /\ UNCHANGED <<objects, pool, target, ahead, mutex_, events>>

-----------------------------------------------------------------------------
(* fork, with nobody in the io_service, and the end.                       *)

NoThreads == events = {} /\ event = None /\ \A p \in P : mutex_[p] = None
OpenFiles == {f \in Files : status[f] = "open"}

\* The parent goes on; the child has its files until it closes them.
ForkParent ==
    /\ MayFork /\ NoThreads /\ shared' = shared \cup OpenFiles
    /\ UNCHANGED <<status, data, kernel, pool, ops, mutex_, events, event>>

ChildCloses ==
    /\ shared' = {} /\ Vanish({f \in Files : status[f] = "closed"})
    /\ UNCHANGED <<status, data, pool, ops, mutex_, events, event>>

Renewed_A == [f \in Files |-> None]      \* a new epoll set without them
Renewed == [f \in Files |-> IF f \in OpenFiles THEN data[f] ELSE None]

\* The child goes on: a new epoll set, with the descriptors of all states of
\* the pool that are in use; it throws if one cannot be added.
ForkChild ==
    /\ MayFork /\ NoThreads /\ \A p \in live_list_ : status[descriptor_[p]] = "open"
    /\ \A f \in OpenFiles : Used(data[f])
    /\ shared' = shared \cup OpenFiles
    /\ registered' = Renewed
    /\ edge' = {f \in OpenFiles : ReadyKinds(f) # {}}
    /\ UNCHANGED <<status, data, ready, hung, pool, ops, mutex_, events, event>>

Shutdown ==
    /\ NoThreads /\ live_list_ # {}
    /\ \A f \in Files : status[f] # "closing"
    /\ live_list_' = {} /\ free_list_' = SetToSeq(live_list_) \o free_list_
    /\ shutdown_' = [p \in P |-> TRUE]
    /\ op_queue_' = [p \in P |-> NoOps]
    /\ result' = [o \in Ops |-> IF result[o] = "queued" THEN "destroyed" ELSE result[o]]
    /\ Forget({o \in Ops : result[o] = "queued"})
    /\ UNCHANGED <<objects, kernel, descriptor_, mutex_, events, event>>

-----------------------------------------------------------------------------
Next ==
    \/ \E f \in Files :
          \/ RegisterDescriptor(f) \/ RegisterFails(f) \/ CancelOps(f) \/ CloseDescriptor(f)
          \/ HangUp(f)
          \/ \E closing \in BOOLEAN : Deregister(f, closing)
          \/ \E o \in Ops : RegisterInternal(f, o)
          \/ \E o \in Ops : StartClosed(f, o)
          \/ \E k \in Kinds : \/ Arrive(f, k) \/ Consume(f, k)
                              \/ \E o \in Ops : StartOp(f, k, o)
    \/ \E o \in Ops : StartPush(o)
    \/ \E F \in SUBSET Files : EpollWait(F)
    \/ \E e \in events : TakeEvent(e)
    \/ HandleEvent
    \/ ForkParent \/ ChildCloses \/ ForkChild \/ Shutdown

Spec == Init /\ [][Next]_vars

\* Some thread of the pool runs the reactor and gets its mutexes, and epoll
\* reports the files of its list in turn.
LiveSpec ==
    /\ Spec
    /\ WF_vars(\E e \in events : TakeEvent(e)) /\ WF_vars(HandleEvent)
    /\ WF_vars(\E o \in Ops : StartPush(o))
    /\ \A f \in Files : SF_vars(\E F \in SUBSET Files : f \in F /\ EpollWait(F))

-----------------------------------------------------------------------------
Results == {"new", "starting", "queued", "done", "aborted", "destroyed"}

TypeOK ==
    /\ status \in [Files -> {"new", "open", "closing", "closed", "failed"}]
    /\ data \in [Files -> P \cup {None}] /\ registered \in [Files -> P \cup {None}]
    /\ ready \in [Files -> [Kinds -> 0..MaxReady]]
    /\ edge \subseteq Files /\ shared \subseteq Files /\ hung \subseteq Files
    /\ live_list_ \subseteq P /\ ToSet(free_list_) \subseteq P
    /\ result \in [Ops -> Results]
    /\ \A p \in P : (mutex_[p] # None) = \E o \in Ops :
          result[o] = "starting" /\ data[target[o][1]] = p

\* The pool never hands a state to two I/O objects, and has each in one list
\* once, also when sockets are closed after the reactor was shut down.
PoolSound ==
    /\ IsInjective(free_list_) /\ live_list_ \cap ToSet(free_list_) = {}
    /\ \A p \in live_list_ : \E f \in Files :
          data[f] = p /\ descriptor_[p] = f /\ \A g \in Files \ {f} : data[g] # p

\* A recycled state has no operations of its last user, and each operation is
\* queued once, where it was started.
OwnOps ==
    \A p \in P : \A k \in Kinds :
        /\ IsInjective(op_queue_[p][k])
        /\ \A o \in ToSet(op_queue_[p][k]) :
              /\ result[o] = "queued" /\ target[o][2] = k
              /\ p \in live_list_ /\ data[target[o][1]] = p

\* The descriptor states are sound, however they are recycled.
StatesSound == TypeOK /\ PoolSound /\ OwnOps

\* The reports that the thread in run has still to work through.
Collected == events \cup ({event} \ {None})

\* Edge-triggered epoll reports a file once: while operations wait for what a
\* file is ready for, the report is on epoll's list or in the array of events,
\* wherever the data came between the attempt of start_op and its push.
EdgeNotLost ==
    \A f \in Files : \A k \in ReadyKinds(f) :
        data[f] # None /\ op_queue_[data[f]][k] # <<>> =>
            \/ f \in edge /\ registered[f] = data[f]
            \/ \E e \in Collected : e.ptr = data[f] /\ k \in e.flags

\* The report that f is ready for k is on epoll's list, or in the array behind
\* the event that is being dispatched.
ToCome(f, k) ==
    \/ f \in edge /\ registered[f] = data[f]
    \/ \E e \in events : e.ptr = data[f] /\ k \in e.flags

Completes(o) == result[o] # "done" /\ result'[o] = "done"

\* An operation that completes has no operation of its file and kind behind it
\* that was started before it.
InOrder ==
    \A o, q \in Ops :
        Completes(o) /\ q \in ahead'[o] /\ target[q] = target'[o]
            => result'[q] \notin Waiting

\* A read that completes passes a waiting out-of-band read only when it was
\* queued itself, and only when the out-of-band data is so new that the thread
\* has still to learn of it.
UrgentFirst ==
    \A o, q \in Ops : \A f \in Files :
        /\ Completes(o) /\ target'[o] = <<f, read_op>>
        /\ result[q] = "queued" /\ target[q] = <<f, except_op>>
        => /\ result[o] = "queued"
           /\ except_op \in ReadyKinds(f) => ToCome(f, except_op)

\* Operations of a file and kind complete in the order in which their starts
\* took the mutex of its state, and normal data is not read before out-of-band
\* data that was reported with it or before.
NoOvertaking == [][InOrder /\ UrgentFirst]_vars

\* What a file is ready for is given to the operations that wait for it.
ReadyServed ==
    \A o \in Ops : \A f \in Files : \A k \in Kinds :
        (result[o] = "queued" /\ target[o] = <<f, k>> /\ k \in ReadyKinds(f))
            ~> (result[o] # "queued" \/ k \notin ReadyKinds(f))

\* "A null_buffers operation doesn't return until the I/O object is ready":
\* an operation that only waits completes on a report of its own file.
WaitsOnOwnEvents ==
    [][\A o \in Waits : result[o] = "queued" /\ result'[o] = "done" =>
          event # None /\ event.file = target[o][1]]_vars

\* "The descriptor will be automatically removed from the epoll set when it is
\* closed."
RemovedWhenClosed == \A f \in Files : status[f] = "closed" => registered[f] = None

\* "Exception operations must be processed first to ensure that any out-of-band
\* data is read before normal data."
UrgentBeforeNormal ==
    [][\A o, q \in Ops : \A f \in Files :
          /\ Completes(o) /\ target'[o] = <<f, read_op>>
          /\ result[q] = "queued" /\ target[q] = <<f, except_op>>
          => except_op \notin ReadyKinds(f)]_vars

\* "Keep track of all registered descriptors": the states in use are those of
\* open I/O objects, so that all of them can be registered again after a fork.
LiveIsOpen == \A p \in live_list_ : status[descriptor_[p]] = "open"

=============================================================================
