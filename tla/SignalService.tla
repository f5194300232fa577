----------------------------- MODULE SignalService -----------------------------
(***************************************************************************)
(* How a signal_set_service comes and goes: the double check of the        *)
(* service registry (impl/service_registry.ipp) around the constructor and *)
(* the destructor of impl/signal_set_service.ipp, which register the pipe  *)
(* with the epoll reactor (impl/epoll_reactor.ipp), while threads of the   *)
(* io_service run the reactor and count work (impl/task_io_service.ipp).   *)
(*                                                                         *)
(* Each thread that asks for the service may construct a candidate.  The   *)
(* mutexes are the registry's, the process-wide one of signal_state and    *)
(* one per descriptor_state; a region under a mutex is one action unless   *)
(* it waits for another mutex.                                             *)
(***************************************************************************)
EXTENDS Integers, FiniteSets

CONSTANTS
    Contexts,   \* io_services
    Users,      \* threads that construct a first signal_set
    Home,       \* per user, the io_service
    Nobody,
    MaxSignals  \* bound: numbers written to the pipe

ASSUME ServiceAssumption ==
    /\ Home \in [Users -> Contexts]
    /\ Nobody \notin Users \cup Contexts
    /\ MaxSignals \in Nat

VARIABLES
    pc,         \* per user, where it is in use_service
    got,        \* per user, the candidate it was given
    service_,   \* per io_service, the candidate in its registry
    listed,     \* the candidates in signal_state's service_list_
    registry_mutex, \* per io_service, the user that holds it
    state_mutex,    \* the user that holds signal_state's mutex
    op,         \* per candidate, its pipe_read_op: "none", "queued" in its
                \* descriptor_state, "posted" to the scheduler, "deleted"
    watched,    \* per io_service, the candidate whose descriptor_state epoll
                \* has for the pipe
    edge,       \* per io_service, epoll has an event for the pipe
    pipe,       \* how many numbers are in the pipe
    written,    \* history: how many were written
    reader,     \* per io_service, what the thread in the reactor does
    event,      \* per io_service, the candidate the event it handles is for
    work,       \* per io_service, outstanding_work_
    stopped     \* per io_service

users == <<pc, got>>
locks == <<registry_mutex, state_mutex>>
reactor == <<reader, event>>
scheduler == <<work, stopped>>
signals == <<pipe, written>>
vars == <<users, service_, listed, locks, op, watched, edge, signals, reactor, scheduler>>

\* Every io_service has a thread in run() and a work object that keeps it there.
Init ==
    /\ pc = [u \in Users |-> "search"]
    /\ got = [u \in Users |-> Nobody]
    /\ service_ = [c \in Contexts |-> Nobody]
    /\ listed = {}
    /\ registry_mutex = [c \in Contexts |-> Nobody] /\ state_mutex = Nobody
    /\ op = [u \in Users |-> "none"]
    /\ watched = [c \in Contexts |-> Nobody] /\ edge = [c \in Contexts |-> FALSE]
    /\ pipe = 0 /\ written = 0
    /\ reader = [c \in Contexts |-> "wait"]
    /\ event = [c \in Contexts |-> Nobody]
    /\ work = [c \in Contexts |-> 1]
    /\ stopped = [c \in Contexts |-> FALSE]

-----------------------------------------------------------------------------
Goto(u, l) == pc' = [pc EXCEPT ![u] = l]
Registered(u) == service_[Home[u]] # Nobody
Give(u, s) == /\ Goto(u, "done") /\ got' = [got EXCEPT ![u] = s]

\* A reactor thread performs the operation of candidate u with the mutex of
\* its descriptor_state locked.
DescriptorLocked(u) ==
    reader[Home[u]] \in {"perform", "deliver"} /\ event[Home[u]] = u

\* The first search of do_use_service.
Search(u) ==
    /\ pc[u] = "search" /\ registry_mutex[Home[u]] = Nobody
    /\ IF Registered(u) THEN Give(u, service_[Home[u]])
       ELSE Goto(u, "construct") /\ UNCHANGED got
    /\ UNCHANGED <<service_, listed, locks, op, watched, edge, signals, reactor, scheduler>>

\* Names that end in a letter after an underscore are variants: each is a
\* mistake that one of the properties below finds out.
Register_A(u) ==    \* only the service that opens the pipe registers it
    watched' = [watched EXCEPT ![Home[u]] = IF listed = {} THEN u ELSE @]

\* epoll_ctl ADD of the pipe fails if the epoll set has it; nobody looks.
Register(u) ==
    watched' = [watched EXCEPT ![Home[u]] = IF @ = Nobody THEN u ELSE @]

\* The constructor: add_service enters the list and registers the pipe.
Construct(u) ==
    /\ pc[u] = "construct" /\ state_mutex = Nobody
    /\ listed' = listed \cup {u}
    /\ op' = [op EXCEPT ![u] = "queued"]
    /\ Register(u)
    /\ edge' = [edge EXCEPT ![Home[u]] = @ \/ (watched[Home[u]] = Nobody /\ pipe > 0)]
    /\ Goto(u, "publish")
    /\ UNCHANGED <<got, service_, locks, signals, reactor, scheduler>>

\* The second search: the candidate is inserted, or it is to be destroyed
\* before the registry's mutex is released (new_service goes before lock).
Publish(u) ==
    /\ pc[u] = "publish" /\ registry_mutex[Home[u]] = Nobody
    /\ IF Registered(u)
       THEN /\ registry_mutex' = [registry_mutex EXCEPT ![Home[u]] = u]
            /\ Goto(u, "discard")
            /\ UNCHANGED <<got, service_>>
       ELSE /\ service_' = [service_ EXCEPT ![Home[u]] = u]
            /\ Give(u, u)
            /\ UNCHANGED registry_mutex
    /\ UNCHANGED <<listed, state_mutex, op, watched, edge, signals, reactor, scheduler>>

\* ~signal_set_service: remove_service locks signal_state.
Discard(u) ==
    /\ pc[u] = "discard" /\ state_mutex = Nobody
    /\ state_mutex' = u
    /\ Goto(u, "deregister")
    /\ UNCHANGED <<got, service_, listed, registry_mutex, op, watched, edge,
                   signals, reactor, scheduler>>

Unlist_A(u) == UNCHANGED listed     \* the candidate stays in the list
Unlist(u) == listed' = listed \ {u}

\* deregister_descriptor of candidate u: the pipe leaves the epoll set,
\* whichever descriptor_state it was registered with, and pipe_read_op is
\* posted as aborted, without work_started.
Deregister(u) ==
    /\ ~DescriptorLocked(u)
    /\ watched' = [watched EXCEPT ![Home[u]] = Nobody]
    /\ edge' = [edge EXCEPT ![Home[u]] = FALSE]
    /\ op' = [op EXCEPT ![u] = "posted"]
    /\ Unlist(u)
    /\ pipe' = IF listed' = {} THEN 0 ELSE pipe

\* The rest of the destructor; both mutexes are released.
Discarded(u) ==
    /\ pc[u] = "deregister"
    /\ Deregister(u)
    /\ state_mutex' = Nobody
    /\ registry_mutex' = [registry_mutex EXCEPT ![Home[u]] = Nobody]
    /\ Give(u, service_[Home[u]])
    /\ UNCHANGED <<service_, written, reactor, scheduler>>

-----------------------------------------------------------------------------
(* The threads of the io_service.                                          *)

\* asio_signal_handler writes; every epoll set that has the pipe notices.
Raise ==
    /\ listed # {} /\ written < MaxSignals
    /\ written' = written + 1 /\ pipe' = pipe + 1
    /\ edge' = [c \in Contexts |-> edge[c] \/ watched[c] # Nobody]
    /\ UNCHANGED <<users, service_, listed, locks, op, watched, reactor, scheduler>>

\* epoll_wait returns the event with the descriptor_state it is for.
Collect(c) ==
    /\ ~stopped[c] /\ reader[c] = "wait" /\ edge[c]
    /\ edge' = [edge EXCEPT ![c] = FALSE]
    /\ event' = [event EXCEPT ![c] = watched[c]]
    /\ reader' = [reader EXCEPT ![c] = "event"]
    /\ UNCHANGED <<users, service_, listed, locks, op, watched, signals, scheduler>>

\* It locks the descriptor_state and performs pipe_read_op, if it is there.
Perform(c) ==
    /\ reader[c] = "event"
    /\ reader' = [reader EXCEPT ![c] =
          IF op[event[c]] = "queued" THEN "perform" ELSE "wait"]
    /\ UNCHANGED <<users, service_, listed, locks, op, watched, edge, signals,
                   event, scheduler>>

\* pipe_read_op::do_perform reads until the pipe is empty.
Read(c) ==
    /\ reader[c] = "perform"
    /\ IF pipe > 0
       THEN /\ pipe' = pipe - 1
            /\ reader' = [reader EXCEPT ![c] = "deliver"]
       ELSE /\ reader' = [reader EXCEPT ![c] = "wait"]
            /\ UNCHANGED pipe
    /\ UNCHANGED <<users, service_, listed, locks, op, watched, edge, written,
                   event, scheduler>>

\* deliver_signal locks signal_state for what SignalSet models.
Deliver(c) ==
    /\ reader[c] = "deliver" /\ state_mutex = Nobody
    /\ reader' = [reader EXCEPT ![c] = "perform"]
    /\ UNCHANGED <<users, service_, listed, locks, op, watched, edge, signals,
                   event, scheduler>>

\* A thread of the pool calls a posted pipe_read_op, which deletes itself;
\* the work that nobody started is counted as finished.
RunPosted(u) ==
    /\ op[u] = "posted" /\ ~stopped[Home[u]] /\ service_[Home[u]] # Nobody
    /\ op' = [op EXCEPT ![u] = "deleted"]
    /\ work' = [work EXCEPT ![Home[u]] = @ - 1]
    /\ stopped' = [stopped EXCEPT ![Home[u]] = work'[Home[u]] = 0]
    /\ UNCHANGED <<users, service_, listed, locks, watched, edge, signals, reactor>>

\* The io_service is destroyed when its users and its pool have finished:
\* shutdown_service removes the service.
Shutdown(c) ==
    /\ service_[c] # Nobody /\ reader[c] = "wait" /\ state_mutex = Nobody
    /\ \A u \in Users : Home[u] = c => pc[u] = "done"
    /\ Deregister(service_[c])
    /\ service_' = [service_ EXCEPT ![c] = Nobody]
    /\ UNCHANGED <<users, locks, written, reactor, scheduler>>

-----------------------------------------------------------------------------
Call(u) == Search(u) \/ Construct(u) \/ Publish(u) \/ Discard(u) \/ Discarded(u)
React(c) == Collect(c) \/ Perform(c) \/ Read(c) \/ Deliver(c)

Next == \/ \E u \in Users : Call(u) \/ RunPosted(u)
        \/ \E c \in Contexts : React(c) \/ Shutdown(c)
        \/ Raise

Spec == Init /\ [][Next]_vars

\* Threads run on: the callers, and the one in the reactor.
LiveSpec == /\ Spec
            /\ \A u \in Users : WF_vars(Call(u))
            /\ \A c \in Contexts : WF_vars(React(c))

-----------------------------------------------------------------------------
\* Everybody is given the one object that stays in the registry.
SameService ==
    \A u \in Users : pc[u] = "done" /\ Registered(u) => got[u] = service_[Home[u]]

\* signal_state lists the services of the registries when nobody is between
\* constructing one and publishing or destroying it.
ListExact ==
    listed = ({service_[c] : c \in Contexts} \ {Nobody})
             \cup {u \in Users : pc[u] \in {"publish", "discard", "deregister"}}

Of(c) == {u \in Users : Home[u] = c}

\* Candidates of an io_service that were destroyed, and those whose operation
\* the pool has run since.
Destroyed(c) == {u \in Of(c) : op[u] \in {"posted", "deleted"}}
Deleted(c) == {u \in Of(c) : op[u] = "deleted"}

\* What epoll has for the pipe is the state of a candidate of that io_service
\* that waits for it, never one that was given back; and nothing but a
\* duplicate of its own that was destroyed takes the pipe from a service:
\* neither what other io_services do nor in which order candidates come.
PipeWatched ==
    \A c \in Contexts :
        /\ watched[c] # Nobody => watched[c] \in Of(c) /\ op[watched[c]] = "queued"
        /\ service_[c] # Nobody /\ watched[c] = Nobody => Destroyed(c) # {}

\* outstanding_work_ is the work object less one for each destroyed duplicate
\* whose operation was run, and run() ends for no other reason.
WorkCounted ==
    \A c \in Contexts : /\ work[c] = 1 - Cardinality(Deleted(c))
                        /\ stopped[c] => work[c] <= 0

\* The services are sound, with candidates coming and going: everybody has the
\* one that stays, and signal_state lists no other.
ServicesSound == SameService /\ ListExact

\* A service keeps its pipe watched and the work counted, whatever signals
\* arrive and other io_services do; only duplicates of its own cost it either,
\* and each costs no more than its registration and one unit of work.
ServiceAttended == PipeWatched /\ WorkCounted

\* use_service returns, whoever else constructs and whatever the reactor does.
UseReturns == \A u \in Users : pc[u] = "search" ~> pc[u] = "done"
=============================================================================
