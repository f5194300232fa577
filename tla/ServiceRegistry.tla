---------------------------- MODULE ServiceRegistry ----------------------------
(***************************************************************************)
(* The service registry of an io_service, detail/service_registry.hpp and  *)
(* impl/service_registry.ipp: a linked list of service objects, searched   *)
(* and extended under a mutex that is released while a constructor runs.   *)
(* The constructor may call the registry again, other threads may look for *)
(* the same service meanwhile, and a constructor may throw.                *)
(*                                                                         *)
(* A region under mutex_ is one action, except where it waits: the loser   *)
(* of a race destroys its object with mutex_ locked, and a destructor may  *)
(* post to the scheduler, which locks the scheduler's mutex.  That one is  *)
(* held across a use_service in task_io_service::init_task, which some     *)
(* constructors call.  keys_match is equality of services; has_service and *)
(* notify_fork read the list and change nothing.                           *)
(***************************************************************************)
EXTENDS Naturals, Sequences, SequencesExt

CONSTANTS
    Threads,
    Services,
    Uses,       \* per service, the services its constructor obtains
    LateUses,   \* services that destructors of handlers may obtain when the
                \* io_service shuts down
    Scheduler, Reactor, \* the services task_io_service and epoll_reactor
    Starters,   \* services whose constructor calls init_task and whose
                \* destructor posts to the scheduler (signal_set_service)
    NoThread    \* nobody: a service without an object

ASSUME RegistryAssumption ==
    /\ NoThread \notin Threads
    /\ Uses \in [Services -> SUBSET Services]
    /\ Reactor \in Services

VARIABLES
    first_service_, \* the objects from the head of the list: each is the
                    \* service it implements and the thread that made it
    calls,          \* per thread, the calls it is in, innermost last
    mutex_,         \* of the registry: the thread that holds it
    task_mutex,     \* of the scheduler: the thread in init_task that holds it
    task_,          \* the scheduler has its reactor
    got,            \* history: the objects whose reference was returned
    phase,          \* of the io_service: open, shutdown, destroy
    left,           \* the objects shutdown_service is still to be called of
    down            \* history: the objects it was called of

locks == <<mutex_, task_mutex, task_>>
closure == <<phase, left, down>>
vars == <<first_service_, calls, locks, got, closure>>

Object(s, t) == [svc |-> s, by |-> t]
Objects == [svc : Services, by : Threads]

\* A call of use_service or add_service: before the first search, in the
\* constructor, which is still to obtain the services in needs, there in
\* init_task or past it, or about to destroy a duplicate.
Call(how, s, at, needs) == [how |-> how, svc |-> s, at |-> at, needs |-> needs]
Places == {"search", "construct", "task", "made", "discard"}
CallSet == [how : {"use", "add"}, svc : Services, at : Places, needs : SUBSET Services]

TypeOK ==
    /\ first_service_ \in Seq(Objects) /\ left \in Seq(Objects)
    /\ calls \in [Threads -> Seq(CallSet)]
    /\ mutex_ \in Threads \cup {NoThread} /\ task_mutex \in Threads \cup {NoThread}
    /\ task_ \in BOOLEAN
    /\ got \subseteq Objects /\ down \subseteq Objects
    /\ phase \in {"open", "shutdown", "destroy"}
    /\ phase = "destroy" => left = <<>>

Init ==
    /\ first_service_ = <<>> /\ left = <<>>
    /\ calls = [t \in Threads |-> <<>>]
    /\ mutex_ = NoThread /\ task_mutex = NoThread /\ task_ = FALSE
    /\ got = {} /\ down = {}
    /\ phase = "open"

-----------------------------------------------------------------------------
Outside(t) == calls[t] = <<>>
Top(t) == calls[t][Len(calls[t])]
Inside(t, how, at) == ~Outside(t) /\ Top(t).how = how /\ Top(t).at = at

\* The constructor of the innermost call is about to return.
Constructed(t, how) ==
    /\ Inside(t, how, IF Top(t).svc \in Starters THEN "made" ELSE "construct")
    /\ Top(t).needs = {}

Found(s) == \E o \in ToSet(first_service_) : o.svc = s
TheObject(s) == CHOOSE o \in ToSet(first_service_) : o.svc = s

Push(t, c) == calls' = [calls EXCEPT ![t] = Append(@, c)]
SetTop(t, c) == calls' = [calls EXCEPT ![t] = Append(Front(@), c)]

\* A call of thread t ends; if it was made by a constructor, that one has what
\* it needed.
Return(t) ==
    LET outer == Front(calls[t])
    IN  calls' = [calls EXCEPT ![t] =
          IF outer = <<>> THEN <<>>
          ELSE Append(Front(outer),
                      [Last(outer) EXCEPT !.needs = @ \ {Top(t).svc}])]

\* Calls of the program; while it shuts down, of the destructors of handlers.
UseService(t, s) ==
    /\ Outside(t)
    /\ \/ phase = "open"
       \/ phase = "shutdown" /\ down # {} /\ s \in LateUses
          /\ \A u \in Threads : Outside(u)
    /\ Push(t, Call("use", s, "search", {}))
    /\ UNCHANGED <<first_service_, locks, got, closure>>

\* The program makes an object of its own for add_service.
NewService(t, s) ==
    /\ Outside(t) /\ phase = "open"
    /\ Push(t, Call("add", s, "construct", Uses[s]))
    /\ UNCHANGED <<first_service_, locks, got, closure>>

\* The constructor, or init_task, calls use_service.
Nest(t) ==
    /\ ~Outside(t) /\ Top(t).at \in {"construct", "task"}
    /\ \E d \in Top(t).needs : Push(t, Call("use", d, "search", {}))
    /\ UNCHANGED <<first_service_, locks, got, closure>>

\* The constructor throws: so does every call that waits for it, and init_task
\* with its scoped_lock.
Throw(t) ==
    /\ ~Outside(t) /\ Top(t).at \in {"construct", "made"}
    /\ calls' = [calls EXCEPT ![t] = <<>>]
    /\ task_mutex' = IF task_mutex = t THEN NoThread ELSE task_mutex
    /\ UNCHANGED <<first_service_, mutex_, task_, got, closure>>

\* do_use_service finds the object: at the first search, or (a duplicate has
\* just been made, and is destroyed) at the second.
ReturnFound(t) ==
    LET s == Top(t).svc IN
    /\ Found(s)
    /\ Return(t)
    /\ got' = got \cup {TheObject(s)}
    /\ UNCHANGED <<first_service_, closure>>

Insert(o) == first_service_' = <<o>> \o first_service_

\* The innermost call goes on at another place.
Advance(t, at, needs) ==
    /\ SetTop(t, [Top(t) EXCEPT !.at = at, !.needs = needs])
    /\ UNCHANGED <<first_service_, got, closure>>

\* Names that end in a letter after an underscore are variants: each is a
\* mistake that one of the properties below finds out.
Search_A(t) ==    \* the constructor does not run its own initialisers
    /\ Inside(t, "use", "search") /\ mutex_ = NoThread
    /\ \/ ReturnFound(t)
       \/ ~Found(Top(t).svc) /\ Advance(t, "construct", {})
    /\ UNCHANGED locks

Search(t) ==
    /\ Inside(t, "use", "search") /\ mutex_ = NoThread
    /\ \/ ReturnFound(t)
       \/ ~Found(Top(t).svc) /\ Advance(t, "construct", Uses[Top(t).svc])
    /\ UNCHANGED locks

-----------------------------------------------------------------------------
(* task_io_service::init_task, which the constructors of Starters call.    *)

ShutDown(s) == \E o \in down : o.svc = s

InitTask_A(t) ==  \* use_service also when task_ is set
    /\ ~Outside(t) /\ Top(t).svc \in Starters
    /\ Top(t).at = "construct" /\ Top(t).needs = {}
    /\ task_mutex = NoThread
    /\ task_mutex' = t
    /\ Advance(t, "task", {Reactor})
    /\ UNCHANGED <<mutex_, task_>>

\* If the scheduler has no reactor yet, it is obtained with the mutex locked.
InitTask(t) ==
    /\ ~Outside(t) /\ Top(t).svc \in Starters
    /\ Top(t).at = "construct" /\ Top(t).needs = {}
    /\ task_mutex = NoThread
    /\ IF task_ \/ ShutDown(Scheduler)
       THEN Advance(t, "made", {}) /\ UNCHANGED locks
       ELSE /\ task_mutex' = t
            /\ Advance(t, "task", {Reactor})
            /\ UNCHANGED <<mutex_, task_>>

\* use_service<reactor> has returned: the task is queued and a thread woken.
TaskStarted(t) ==
    /\ ~Outside(t) /\ Top(t).at = "task" /\ Top(t).needs = {}
    /\ task_' = TRUE /\ task_mutex' = NoThread
    /\ Advance(t, "made", {})
    /\ UNCHANGED mutex_

-----------------------------------------------------------------------------
(* The constructor has returned.                                           *)

Publish_B(t) ==   \* the caller gets its own object, also when it is a duplicate
    LET s == Top(t).svc IN
    /\ Constructed(t, "use") /\ mutex_ = NoThread
    /\ IF Found(s) THEN UNCHANGED first_service_ ELSE Insert(Object(s, t))
    /\ Return(t)
    /\ got' = got \cup {Object(s, t)}
    /\ UNCHANGED <<locks, closure>>

\* Search again, and insert at the head.  A duplicate goes before the mutex
\* is released (new_service is declared after lock).
Publish(t) ==
    LET s == Top(t).svc IN
    /\ Constructed(t, "use") /\ mutex_ = NoThread
    /\ \/ /\ Found(s)
          /\ mutex_' = t
          /\ Advance(t, "discard", {})
       \/ /\ ~Found(s)
          /\ Insert(Object(s, t))
          /\ Return(t)
          /\ got' = got \cup {Object(s, t)}
          /\ UNCHANGED <<mutex_, closure>>
    /\ UNCHANGED <<task_mutex, task_>>

\* The duplicate is destroyed, and the object that was found returned.
Discard(t) ==
    /\ Inside(t, "use", "discard")
    /\ Top(t).svc \in Starters => task_mutex = NoThread
    /\ mutex_' = NoThread
    /\ ReturnFound(t)
    /\ UNCHANGED <<task_mutex, task_>>

AddService_A(t) ==  \* the new object goes to the end of the list
    LET s == Top(t).svc IN
    /\ Constructed(t, "add") /\ mutex_ = NoThread
    /\ IF Found(s) THEN UNCHANGED first_service_
       ELSE first_service_' = Append(first_service_, Object(s, t))
    /\ Return(t)
    /\ UNCHANGED <<locks, got, closure>>

\* do_add_service: insert, or throw service_already_exists.
AddService(t) ==
    LET s == Top(t).svc IN
    /\ Constructed(t, "add") /\ mutex_ = NoThread
    /\ IF Found(s) THEN UNCHANGED first_service_ ELSE Insert(Object(s, t))
    /\ Return(t)
    /\ UNCHANGED <<locks, got, closure>>

-----------------------------------------------------------------------------
(* ~service_registry.  Nobody else may be in a call of the io_service.     *)

Idle == \A t \in Threads : Outside(t)

BeginShutdown ==
    /\ phase = "open" /\ Idle
    /\ phase' = "shutdown"
    /\ left' = first_service_
    /\ UNCHANGED <<first_service_, calls, locks, got, down>>

\* shutdown_service of the next object of the list.
ShutdownService ==
    /\ phase = "shutdown" /\ Idle /\ left # <<>>
    /\ down' = down \cup {Head(left)}
    /\ left' = Tail(left)
    /\ UNCHANGED <<first_service_, calls, locks, got, phase>>

\* Destroy the object at the head.
DestroyService ==
    /\ \/ phase = "shutdown" /\ left = <<>> /\ Idle
       \/ phase = "destroy"
    /\ first_service_ # <<>>
    /\ first_service_' = Tail(first_service_)
    /\ phase' = "destroy"
    /\ UNCHANGED <<calls, locks, got, left, down>>

-----------------------------------------------------------------------------
Step(t) == \/ Nest(t) \/ Search(t) \/ InitTask(t) \/ TaskStarted(t)
           \/ Publish(t) \/ Discard(t) \/ AddService(t)
Close == BeginShutdown \/ ShutdownService \/ DestroyService

Next == \/ \E t \in Threads : \/ \E s \in Services : UseService(t, s) \/ NewService(t, s)
                              \/ Step(t) \/ Throw(t)
        \/ Close

Spec == Init /\ [][Next]_vars

\* A thread in a call of the registry runs on; each mutex is held across states
\* only so often that nobody has to be lucky to get it.
LiveSpec == Spec /\ \A t \in Threads : WF_vars(Step(t) \/ Throw(t))

-----------------------------------------------------------------------------
\* "Check that nobody else created another service object of the same type
\* while the lock was released": no two objects implement one service.
OnePerService ==
    \A i, j \in DOMAIN first_service_ :
        first_service_[i].svc = first_service_[j].svc => i = j

\* "Once a service reference is obtained ... that reference remains usable as
\* long as the owning io_service object exists": every reference returned,
\* also to the threads that lost a race, is to an object of the list.
RefsUsable == phase # "destroy" => got \subseteq ToSet(first_service_)

\* The list is walked from the head to shut down and to destroy: the services
\* an object obtained in its constructor lie behind it.
UsersFirst ==
    \A i \in DOMAIN first_service_ : \A d \in Uses[first_service_[i].svc] :
        \E j \in DOMAIN first_service_ : i < j /\ first_service_[j].svc = d

\* "For each service object svc in the io_service set ... performs
\* svc->shutdown_service()" before any is deleted.
ShutDownFirst ==
    [][DestroyService => Head(first_service_) \in down]_vars

\* Every call returns, whatever races and throws: nobody waits for a mutex that
\* he holds himself (a constructor runs with mutex_ released, so that it may
\* call use_service), and no two wait for each other, although the loser of a
\* race takes the scheduler's mutex under the registry's, and init_task the
\* registry's under the scheduler's: who has made a duplicate that posts to
\* the scheduler has been through init_task, so that nobody obtains the reactor
\* in it any more.
CallsReturn == \A t \in Threads : ~Outside(t) ~> Outside(t)

MakerOf == [s \in Services |-> IF Found(s) THEN TheObject(s).by ELSE NoThread]
Directory == INSTANCE ServiceDirectory
    WITH Makers <- Threads, NoMaker <- NoThread, maker <- MakerOf,
         given <- {<<o.svc, o.by>> : o \in got}, closing <- (phase = "destroy")

\* The registry is a directory of services that is written once per service.
RegistryIsDirectory == Directory!Spec
=============================================================================
