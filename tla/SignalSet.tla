------------------------------- MODULE SignalSet -------------------------------
(***************************************************************************)
(* Signal sets, detail/signal_set_service.hpp and                          *)
(* impl/signal_set_service.ipp.                                            *)
(*                                                                         *)
(* The signal handler of the process writes the number of the signal to a  *)
(* pipe that all signal_set_services share.  The reactor of each watches   *)
(* the pipe, edge-triggered; whichever notices reads the numbers until the *)
(* pipe is empty and delivers each to all sets of all services.  A region  *)
(* under the mutex of the process-wide signal_state is one action.         *)
(*                                                                         *)
(* The handlers completed go to the io_service (TaskIoService); how a      *)
(* service is made and registered is ServiceRegistry and SignalService.    *)
(***************************************************************************)
EXTENDS Integers, Sequences, FiniteSets, SequencesExt

CONSTANTS
    Services,   \* the signal_set_services of the process
    Sets,       \* signal_set objects
    Home,       \* per set, its service
    Signals,    \* signal numbers
    Ops,        \* operations of async_wait, each started at most once
    PipeSize,   \* signals the pipe holds
    MaxRaised   \* bound: signals that occur

ASSUME SignalAssumption ==
    /\ Home \in [Sets -> Services]
    /\ Signals \subseteq Nat \ {0}
    /\ PipeSize \in Nat \ {0} /\ MaxRaised \in Nat

NoSignal == 0   \* what signal_op's constructor leaves in signal_number_

VARIABLES
    service_list_,          \* the services alive
    registration_count_,    \* per signal
    disposition,            \* per signal: "asio" or "default"
    signals_,               \* per set, its registrations, in the order of the list
    queue_,                 \* per set, the operations waiting
    result,                 \* per operation, how it completed
    pipe,                   \* the signal numbers written and not read
    edge,                   \* per service, its epoll has an edge of the pipe
    reading,                \* per service, whether its reactor is in the read
                            \* loop, and the number it has read
    watched,                \* the services whose reactor watches the pipe
    fork_prepared_,
    fork,                   \* where the process is in a fork
    raised                  \* history: how many signals have occurred

reactor == <<edge, reading>>
fork_state == <<fork_prepared_, fork>>
sets == <<registration_count_, disposition, signals_>>
waits == <<queue_, result>>
vars == <<service_list_, sets, waits, pipe, reactor, watched, fork_state, raised>>

Registration(n, u) == [signal_number_ |-> n, undelivered_ |-> u]
Registrations == [signal_number_ : Signals, undelivered_ : Nat]

\* "new", "queued", "aborted", "destroyed", or "done" with the number the
\* handler is given; due is the signal whose notification was used.
Result(how, n, due) == [how |-> how, signal_number |-> n, due |-> due]
Results == [how : {"new", "queued", "aborted", "destroyed", "done"},
            signal_number : Signals \cup {NoSignal}, due : Signals \cup {NoSignal}]
New == Result("new", NoSignal, NoSignal)
Queued == Result("queued", NoSignal, NoSignal)

\* The state of a read loop: out of it, about to read, or with a number.
Out == -1
Looping == 0

Init ==
    /\ service_list_ = {} /\ watched = {}
    /\ registration_count_ = [n \in Signals |-> 0]
    /\ disposition = [n \in Signals |-> "default"]
    /\ signals_ = [x \in Sets |-> <<>>]
    /\ queue_ = [x \in Sets |-> <<>>]
    /\ result = [o \in Ops |-> New]
    /\ pipe = <<>>
    /\ edge = [s \in Services |-> FALSE]
    /\ reading = [s \in Services |-> Out]
    /\ fork_prepared_ = FALSE /\ fork = "no"
    /\ raised = 0

-----------------------------------------------------------------------------
(* The list of registrations of a set.                                     *)

Numbers(x) == {r.signal_number_ : r \in ToSet(signals_[x])}

\* The sets of a service that is alive and that have registered n: the
\* registrations deliver_signal finds in the tables.
Listeners(n) == {x \in Sets : Home[x] \in service_list_ /\ n \in Numbers(x)}

\* The program may call member functions of the set.
Usable(x) == Home[x] \in service_list_ /\ fork = "no"

-----------------------------------------------------------------------------
(* Services and the pipe.                                                  *)

\* Names that end in a letter after an underscore are variants: each is a
\* mistake that one of the properties below finds out.
Watch_A(s) == /\ watched' = watched \cup {s}   \* only what comes later
              /\ UNCHANGED edge

\* Watching a pipe that has something in it gives an edge at once.
Watch(s) == /\ watched' = watched \cup {s}
            /\ edge' = [edge EXCEPT ![s] = pipe' # <<>>]

Unwatch(s) == /\ watched' = watched \ {s}
              /\ edge' = [edge EXCEPT ![s] = FALSE]

\* add_service: the first opens the pipe.
AddService(s) ==
    /\ s \notin service_list_ /\ fork = "no"
    /\ \A x \in Sets : Home[x] = s => signals_[x] = <<>> /\ queue_[x] = <<>>
    /\ service_list_' = service_list_ \cup {s}
    /\ pipe' = IF service_list_ = {} THEN <<>> ELSE pipe
    /\ Watch(s)
    /\ UNCHANGED <<sets, waits, reading, fork_state, raised>>

\* shutdown_service: leave the list (the last closes the pipe) and destroy
\* the operations of the sets that are in the table of registrations.
Shutdown(s) ==
    LET gone == {x \in Sets : Home[x] = s /\ signals_[x] # <<>>}
    IN  /\ s \in service_list_ /\ reading[s] = Out /\ fork = "no"
        /\ service_list_' = service_list_ \ {s}
        /\ Unwatch(s)
        /\ pipe' = IF service_list_' = {} THEN <<>> ELSE pipe
        /\ queue_' = [x \in Sets |-> IF x \in gone THEN <<>> ELSE queue_[x]]
        /\ result' = [o \in Ops |->
              IF \E x \in gone : o \in ToSet(queue_[x])
              THEN Result("destroyed", NoSignal, NoSignal) ELSE result[o]]
        /\ UNCHANGED <<sets, reading, fork_state, raised>>

\* asio_signal_handler: a write that fails is ignored.
Raise(n) ==
    /\ disposition[n] = "asio" /\ raised < MaxRaised
    /\ raised' = raised + 1
    /\ IF service_list_ # {} /\ Len(pipe) < PipeSize
       THEN /\ pipe' = Append(pipe, n)
            /\ edge' = [s \in Services |-> edge[s] \/ s \in watched]
       ELSE UNCHANGED <<pipe, edge>>
    /\ UNCHANGED <<service_list_, sets, waits, reading, watched, fork_state>>

\* The reactor of s notices the pipe and runs pipe_read_op::do_perform.
BeginRead(s) ==
    /\ edge[s] /\ reading[s] = Out /\ fork = "no"
    /\ edge' = [edge EXCEPT ![s] = FALSE]
    /\ reading' = [reading EXCEPT ![s] = Looping]
    /\ UNCHANGED <<service_list_, sets, waits, pipe, watched, fork_state, raised>>

Read(s) ==
    /\ reading[s] = Looping /\ pipe # <<>>
    /\ pipe' = Tail(pipe)
    /\ reading' = [reading EXCEPT ![s] = Head(pipe)]
    /\ UNCHANGED <<service_list_, sets, waits, edge, watched, fork_state, raised>>

\* read returns EAGAIN.
EndRead(s) ==
    /\ reading[s] = Looping /\ pipe = <<>>
    /\ reading' = [reading EXCEPT ![s] = Out]
    /\ UNCHANGED <<service_list_, sets, waits, pipe, edge, watched, fork_state, raised>>

AfterDelivery_A(s) == reading' = [reading EXCEPT ![s] = Out]  \* one per event
AfterDelivery(s) == reading' = [reading EXCEPT ![s] = Looping]

\* The registrations of set x when signal n is delivered to it: counted when
\* nobody waits.
Notify(x, n) ==
    [i \in DOMAIN signals_[x] |->
        IF signals_[x][i].signal_number_ = n /\ queue_[x] = <<>>
        THEN [signals_[x][i] EXCEPT !.undelivered_ = @ + 1] ELSE signals_[x][i]]

\* deliver_signal, all sets of all services: whoever waits gets the signal.
Deliver(s) ==
    LET n == reading[s] IN
    /\ n \in Signals
    /\ signals_' = [x \in Sets |-> IF x \in Listeners(n) THEN Notify(x, n)
                                   ELSE signals_[x]]
    /\ queue_' = [x \in Sets |-> IF x \in Listeners(n) THEN <<>> ELSE queue_[x]]
    /\ result' = [o \in Ops |->
          IF \E x \in Listeners(n) : o \in ToSet(queue_[x])
          THEN Result("done", n, n) ELSE result[o]]
    /\ AfterDelivery(s)
    /\ UNCHANGED <<service_list_, registration_count_, disposition, pipe, edge,
                   watched, fork_state, raised>>

-----------------------------------------------------------------------------
(* Operations of a set.                                                    *)

InsertionPoint_A(x, n) == 1 + Len(signals_[x])  \* the order of the calls

\* Where add inserts a registration: before the first that is not smaller, so
\* that the list is kept in ascending order.
InsertionPoint(x, n) ==
    LET smaller(i) == i \in DOMAIN signals_[x] /\ signals_[x][i].signal_number_ < n
    IN  CHOOSE i \in 1..Len(signals_[x]) + 1 :
            ~smaller(i) /\ \A j \in 1..i - 1 : smaller(j)

\* add: the first registration of a signal in the process installs the
\* handler.
Add(x, n) ==
    /\ Usable(x) /\ n \notin Numbers(x)
    /\ disposition' = [disposition EXCEPT ![n] =
          IF registration_count_[n] = 0 THEN "asio" ELSE @]
    /\ registration_count_' = [registration_count_ EXCEPT ![n] = @ + 1]
    /\ signals_' = [signals_ EXCEPT ![x] =
          InsertAt(@, InsertionPoint(x, n), Registration(n, 0))]
    /\ UNCHANGED <<service_list_, waits, pipe, reactor, watched, fork_state, raised>>

Forget_A(N) ==      \* the last of the set, not of the process, resets it
    /\ registration_count_' = [n \in Signals |->
          registration_count_[n] - (IF n \in N THEN 1 ELSE 0)]
    /\ disposition' = [n \in Signals |->
          IF n \in N THEN "default" ELSE disposition[n]]

\* A registration of each signal of N goes; the last of a signal in the
\* process resets its disposition.
Forget(N) ==
    /\ registration_count_' = [n \in Signals |->
          registration_count_[n] - (IF n \in N THEN 1 ELSE 0)]
    /\ disposition' = [n \in Signals |->
          IF n \in N /\ registration_count_[n] = 1 THEN "default"
          ELSE disposition[n]]

\* remove: the registration goes with what it has counted.
RemoveSignal(x, n) ==
    /\ Usable(x)
    /\ \E i \in DOMAIN signals_[x] :
          /\ signals_[x][i].signal_number_ = n
          /\ signals_' = [signals_ EXCEPT ![x] = RemoveAt(@, i)]
    /\ Forget({n})
    /\ UNCHANGED <<service_list_, waits, pipe, reactor, watched, fork_state, raised>>

\* clear takes the registrations from the list one by one.
RemoveAll(x) == Forget(Numbers(x)) /\ signals_' = [signals_ EXCEPT ![x] = <<>>]

Clear(x) ==
    /\ Usable(x)
    /\ RemoveAll(x)
    /\ UNCHANGED <<service_list_, waits, pipe, reactor, watched, fork_state, raised>>

\* The waiting operations complete with operation_aborted.
Abort(x) ==
    /\ queue_' = [queue_ EXCEPT ![x] = <<>>]
    /\ result' = [o \in Ops |-> IF o \in ToSet(queue_[x])
                               THEN Result("aborted", NoSignal, NoSignal) ELSE result[o]]

Cancel(x) ==
    /\ Usable(x)
    /\ Abort(x)
    /\ UNCHANGED <<service_list_, sets, pipe, reactor, watched, fork_state, raised>>

\* destroy: clear, then cancel; also of a set that outlived the shutdown.
Destroy(x) ==
    /\ fork = "no"
    /\ RemoveAll(x)
    /\ Abort(x)
    /\ UNCHANGED <<service_list_, pipe, reactor, watched, fork_state, raised>>

Noted_A(x) ==   \* only the first registration of the list is looked at
    {i \in DOMAIN signals_[x] : i = 1 /\ signals_[x][i].undelivered_ > 0}

\* The registrations of the set that have counted a signal.
Noted(x) == {i \in DOMAIN signals_[x] : signals_[x][i].undelivered_ > 0}

\* start_wait_op: use the first notification of the list, or wait.  The
\* operation's signal_number_ is set by deliver_signal only.
AsyncWait(x, o) ==
    /\ Usable(x) /\ result[o] = New
    /\ IF Noted(x) # {}
       THEN LET i == CHOOSE j \in Noted(x) : \A k \in Noted(x) : j <= k
                r == signals_[x][i]
            IN  /\ signals_' = [signals_ EXCEPT ![x][i].undelivered_ = @ - 1]
                /\ result' = [result EXCEPT ![o] =
                      Result("done", NoSignal, r.signal_number_)]
                /\ UNCHANGED queue_
       ELSE /\ queue_' = [queue_ EXCEPT ![x] = Append(@, o)]
            /\ result' = [result EXCEPT ![o] = Queued]
            /\ UNCHANGED signals_
    /\ UNCHANGED <<service_list_, registration_count_, disposition, pipe,
                   reactor, watched, fork_state, raised>>

-----------------------------------------------------------------------------
(* fork: every io_service is notified before and, in the parent or in the  *)
(* child that the model follows, after it; nothing else is called then.    *)

ForkPrepare(s) ==
    /\ s \in watched /\ fork \in {"no", "prepare"} /\ reading[s] = Out
    /\ fork' = "prepare" /\ fork_prepared_' = TRUE
    /\ Unwatch(s)
    /\ UNCHANGED <<service_list_, sets, waits, pipe, reading, raised>>

Fork ==
    /\ fork = "prepare" /\ watched = {}
    /\ fork' \in {"parent", "child"}
    /\ UNCHANGED <<service_list_, sets, waits, pipe, reactor, watched,
                   fork_prepared_, raised>>

\* The first service notified in the child opens a pipe of its own.
ForkDone(s) ==
    /\ fork \in {"parent", "child"} /\ s \in service_list_ \ watched
    /\ pipe' = IF fork = "child" /\ fork_prepared_ THEN <<>> ELSE pipe
    /\ fork_prepared_' = FALSE
    /\ Watch(s)
    /\ fork' = IF watched' = service_list_ THEN "no" ELSE fork
    /\ UNCHANGED <<service_list_, sets, waits, reading, raised>>

-----------------------------------------------------------------------------
ReadLoop(s) == Read(s) \/ EndRead(s) \/ Deliver(s)

Next == \/ \E s \in Services : \/ AddService(s) \/ Shutdown(s)
                               \/ BeginRead(s) \/ ReadLoop(s)
                               \/ ForkPrepare(s) \/ ForkDone(s)
        \/ \E n \in Signals : Raise(n)
        \/ \E x \in Sets : \/ \E n \in Signals : Add(x, n) \/ RemoveSignal(x, n)
                           \/ Clear(x) \/ Cancel(x) \/ Destroy(x)
                           \/ \E o \in Ops : AsyncWait(x, o)
        \/ Fork

Spec == Init /\ [][Next]_vars

\* The threads of every io_service come back to epoll_wait, and a read loop
\* runs on.
LiveSpec == Spec /\ \A s \in Services : WF_vars(BeginRead(s)) /\ WF_vars(ReadLoop(s))

-----------------------------------------------------------------------------
TypeOK ==
    /\ service_list_ \subseteq Services /\ watched \subseteq service_list_
    /\ registration_count_ \in [Signals -> Nat]
    /\ disposition \in [Signals -> {"asio", "default"}]
    /\ signals_ \in [Sets -> Seq(Registrations)]
    /\ queue_ \in [Sets -> Seq(Ops)]
    /\ result \in [Ops -> Results]
    /\ pipe \in Seq(Signals) /\ Len(pipe) <= PipeSize
    /\ edge \in [Services -> BOOLEAN]
    /\ reading \in [Services -> Signals \cup {Out, Looping}]
    /\ fork \in {"no", "prepare", "parent", "child"}
    /\ fork_prepared_ \in BOOLEAN

\* The process handles a signal exactly while some set of some service has
\* registered it: registration_count_ is what add, remove, clear and destroy
\* of all sets make of it.
DispositionExact ==
    \A n \in Signals :
        LET registered == {x \in Sets : n \in Numbers(x)}
        IN  /\ registration_count_[n] = Cardinality(registered)
            /\ disposition[n] = (IF registered = {} THEN "default" ELSE "asio")

\* A waiting operation is in one queue, once, and no other is in any.
WaitsOnce ==
    /\ \A o \in Ops : result[o] = Queued <=> \E x \in Sets : o \in ToSet(queue_[x])
    /\ \A x, y \in Sets : \A i \in DOMAIN queue_[x], j \in DOMAIN queue_[y] :
          queue_[x][i] = queue_[y][j] => x = y /\ i = j

\* The tables of registrations and of waits are sound, whichever services and
\* sets share a signal, come and go.
TablesSound == TypeOK /\ DispositionExact /\ WaitsOnce

\* "If a signal ... occurs when there are no waiting handlers, then the signal
\* notification is queued.  The next async_wait ... will dequeue": no handler
\* waits beside a notification, of whichever signal of the set.
NoWaitBesideNotification ==
    \A x \in Sets : queue_[x] # <<>> =>
        \A r \in ToSet(signals_[x]) : r.undelivered_ = 0

\* "Signal notifications are dequeued in order of ascending signal number":
\* no wait takes a notification while a smaller number is noted in the set.
AscendingOrder ==
    [][\A x \in Sets, o \in Ops : AsyncWait(x, o) =>
         \A r \in ToSet(signals_[x]) :
            r.undelivered_ > 0 => result'[o].due <= r.signal_number_]_vars

\* A service that watches the pipe has an edge pending, or reads, while the
\* pipe has something in it; forks, registrations and the readers of other
\* services do not lose the edge.
PipeAttended ==
    pipe # <<>> => \A s \in watched : edge[s] \/ reading[s] # Out

\* Every number in the pipe is read if one service stays and no fork is left
\* half done, whatever the others do.
SignalsRead == (\E s \in Services : <>[](s \in watched /\ fork = "no"))
                  => (pipe # <<>> ~> pipe = <<>>)

\* "void handler(..., int signal_number)": the handler is told the signal
\* whose notification it got.
SignalReported ==
    \A o \in Ops : result[o].how = "done" => result[o].signal_number = result[o].due

\* "When the signal occurs, one handler is called for each signal_set object."
OneHandlerPerSet ==
    [][\A s \in Services : Deliver(s) =>
         \A x \in Sets : Len(queue_[x]) <= Len(queue_'[x]) + 1]_vars

\* "Destroy all user-defined handler objects owned by the service."
ShutdownDestroys ==
    \A x \in Sets : Home[x] \notin service_list_ => queue_[x] = <<>>
=============================================================================
