# The execution core of Boost.Asio in TLA+

This directory specifies, model-checks and proves properties of the execution core of
Boost.Asio (`boost-trunk/boost/asio`, version of 2011) on Linux: the scheduler, strands,
the epoll reactor with its timers, the service registry and signal sets. It is the part of
this repository whose correctness rests on the interleaving of threads.

## The repository

The repository is a collection of four programs, each complete in its own directory:

| part | what it is | here |
|---|---|---|
| `boost-trunk` | Boost, a development snapshot of 2011: over a hundred libraries | Boost.Asio's core |
| `sqlite` | the SQLite amalgamation, its shell and configure scripts | not modelled |
| `llvm` | LLVM | not modelled |
| `cat_mother` | the Dead Justice game and its engine | not modelled |

Nothing connects the four. Of the four, Boost.Asio's core has most of what is
hard to test and within reach of a model checker: a small amount of code, used by
every thread of a program at once, with hand-written wake-ups, reference counts of
work, intrusive queues and an ordering contract.

## Inventory

| component | state | operations | what makes it correct |
|---|---|---|---|
| scheduler, `detail/task_io_service.hpp`, `detail/impl/task_io_service.{hpp,ipp}` | a mutex, `op_queue_` with the task's marker in it, `outstanding_work_`, `stopped_`, `task_interrupted_`, the list of idle threads | run, run_one, poll, poll_one, stop, reset, post, dispatch, deferred completions, init_task, work_started, work_finished, shutdown_service | nobody sleeps through work or a stop, the reactor has one place, work is counted exactly, a handler runs at most once and only inside the pool |
| events, `detail/posix_event.hpp` | a flag and a condition variable on the stack of a thread | signal, signal_and_unlock, clear, wait | no lost wake-up, no use of an event that has been destroyed |
| strands, `detail/strand_service.hpp`, `detail/impl/strand_service.{hpp,ipp}`, `strand.hpp` | 193 shared `strand_impl`s: mutex, count, queue | construct, destroy, post, dispatch, do_complete and the two exit guards, shutdown_service | no two handlers at once, the documented order, one token per strand in the scheduler's queue |
| epoll reactor, `detail/epoll_reactor.hpp`, `detail/impl/epoll_reactor.{hpp,ipp}` | a mutex and queues of operations per descriptor, the pool of descriptor states, the interrupter, timer queues | register, start_op, cancel_ops, deregister, run, interrupt, schedule_timer, cancel_timer, fork, shutdown | no edge lost, no operation completed twice or by a recycled state, no overtaking |
| timers, `detail/timer_queue.hpp`, `detail/timer_queue_set.hpp`, `detail/deadline_timer_service.hpp` | a heap with back indices, a list of active timers, a queue of operations per timer | enqueue, cancel, get_ready_timers, get_all_timers, expires_at, async_wait | heap order and indices after every removal, no wait early, late or for ever |
| service registry, `detail/impl/service_registry.{hpp,ipp}` | a list of services | use_service, add_service, has_service, fork, destruction in reverse order | one service per key although construction is unlocked, users destroyed first |
| signals, `detail/impl/signal_set_service.ipp` | process-wide registrations and a self-pipe | add, remove, clear, cancel, async_wait, deliver_signal, fork | every signal reaches each registered set, undelivered ones are counted, dispositions are exact |
| I/O objects, sockets, SSL, buffers | bytes and handles | typed wrappers over the reactor | data, out of scope |

How they interact. Every operation ends in the scheduler's `op_queue_`. I/O objects
and timers start operations on the reactor, which counts them as work in the
scheduler; `do_one` runs the reactor with the scheduler's mutex released and takes
its completed operations back under it; a cancel posts operations as a batch. A
`strand_impl` is itself an operation: it enters `op_queue_` and, called by
`do_one`, calls one of its own handlers. The scheduler reaches back into the reactor
through `interrupt()` only. Signal sets register an internal descriptor, the pipe, with
the reactor of each io_service. All of these are services, found and created through the
registry. Handlers call anything.

What is hard: a thread that decides to sleep while another decides whom to wake; the
reactor that moves between the queue and one thread; decisions on a count read outside
the mutex; state recycled while somebody still holds a pointer to it; an edge that is
reported once; constructors that run unlocked and may be duplicates; a clock that is set;
exceptions; forks. `PROJECT.json` lists each hazard at its line with the properties that
would catch it.

## Modules

| module | what it is |
|---|---|
| `TaskIoService`, `HandlerPool` | the scheduler in full; what an `io_service` promises about handlers |
| `PosixEvent` | the idle threads' events, with unlock and signal apart |
| `Strand`, `SerialExecutor` | strands over a pool of threads; what one implementation promises |
| `EpollReactor` | descriptors, their states and operations, on edge-triggered epoll |
| `TimerHeap`, `TimerQueue`, `TimerBag` | timer_queue's heap as operators on records; the queue under all its calls; what it promises |
| `ReactorTimers` | deadline timers on the reactor, the clock and the timeouts |
| `ServiceRegistry`, `ServiceDirectory` | the registry; what it promises |
| `SignalSet` | sets, registrations, the pipe and the delivery, of all services of a process |
| `SignalService` | how a signal_set_service is made, doubled and destroyed, across registry, reactor and scheduler |
| `MC...` | the instances for TLC |
| `TaskIoServiceProofs`, `PosixEventProofs`, `StrandProofs`, `ServiceRegistryProofs`, `EpollReactorProofs`, `TimerProofs`, `SignalSetProofs`, `SignalServiceProofs` | proofs |

Composition. `TimerHeap` is used by `TimerQueue` alone and by `ReactorTimers` in its place
in the reactor. `SignalService` composes the parts of four components that meet in it, at
the grain of their mutexes. Otherwise a module has the neighbouring component as its
interface shows it: `Strand` has the scheduler as a queue and a pool; `TaskIoService` has
the reactor as a set of pending operations whose events occur; `ReactorTimers` and
`EpollReactor` have one thread in `run`, which `QueuesSound` of `TaskIoService` establishes;
`PosixEvent` has the task queue as a count.

In every module variables with a trailing underscore are members of the C++ class under
their own names. Names that end in an underscore and a letter are variants of the
definition of that name, each a mistake that a property finds out.

### TaskIoService

The variables with a trailing underscore are the members of `task_io_service`, under
their names. `op_queue_` is a sequence of operations and of `TaskOp`, the marker
`task_operation_`. `first_idle_thread_`, a linked list of nodes on the stacks of
threads, is the sequence of those threads, head first; `signalled_` is the flag of
each thread's `wakeup_event`.

`pc` says where a thread is:

| pc | code |
|---|---|
| `out` | outside the service |
| `enter` | before `lock.lock()` of run, poll, run_one, poll_one |
| `loop` | in the while loop of `do_one`, with the mutex |
| `idle` | in `wakeup_event.wait` |
| `task_wait`, `task_poll` | in `task_->run`, blocking or not |
| `cleanup` | in `~task_cleanup`, before its lock |
| `handler` | in `o->complete`, the body of a handler |
| `posting` | in `post_deferred_completion(s)`, before its lock |
| `finish` | in `~work_finished_on_block_exit` |
| `stopping` | in `stop()`, called for lack of work, before its lock |

A region of code under `mutex_` is one action, since nothing it touches is read or
written outside the mutex except the atomic `outstanding_work_`. A round of `do_one`'s
loop ends by releasing the mutex or by the next round, and there is one action for each
way through it: `ReturnStopped`, `RunTask`, `PollDone`, `RunHandler`, `GoIdle`,
`PollEmpty`. The unlocked steps are actions of their own: the test of the work count in
`Enter`, the stop that follows it, `Post`'s `work_started` before its lock, the decrement
of `work_finished` and the stop that follows it.

The operators `WakeOneIdleThread`, `InterruptTask`, `WakeOneThread` and `StopAllThreads`
are the private functions of those names. `signal_and_unlock` signals after it unlocks;
as `wait` tests the flag under the mutex the order makes no difference to the scheduler.

The reactor is reduced to what the scheduler depends on: `pending`, the operations it
waits for, `ready`, those whose event has occurred, and `wakeup`, an edge of the
interrupter that epoll_wait has not consumed. The reactor's constructor leaves one such
edge. `TaskReturn` collects every ready operation in any order. `TaskSpurious` is
epoll_wait's return with EINTR.

The program calls anything the documentation allows from outside or from a handler: any
entry point in `Calls`, post, asynchronous operations, cancel, stop, work objects;
`reset()` only with no thread inside, as `io_service.hpp:71-75` demands; destruction
likewise. A handler returns or throws. `dispatch` inside the pool calls the handler on the
spot (`task_io_service.hpp:33-37`) and changes no state of the service; elsewhere it is
`post`.

Left out: calling run() again from inside a handler, exceptions out of the reactor,
`std::size_t` overflow of the handler count that run() returns, fork.

### Strand

`stack` is the calls of handlers each thread is in, innermost last. Its frames stand for
both call stacks of the code, the io_service's (only threads of the pool have frames) and
the strand_impls' (`InStrand`). `todo` is the implementation a thread is about to give to
`post_immediate_completion`; a thread in that window runs nothing else. The exit guards
are destroyed before the call_stack context, so a frame is on the code's stack for the
length of that post; no user code runs there, and the model pops it in `OnExit`.

The io_service is `posted`, a queue, and `Take`. `construct` hashes an address and a
racily incremented salt, so any implementation may be chosen; with fewer implementations
than strands they are shared.

`log` and `begun` are history variables: the handlers given, in the order of the
implementation's mutex, and the handlers called. Each handler is given once, which bounds
them.

### PosixEvent

`TaskIoService` treats an event as a flag that is set as its thread is unlinked.
`signal_and_unlock` (`posix_event.hpp:57-63`) sets the flag, unlocks, and signals
afterwards; between the last two other threads run. Here these are steps of their own:
`WakeOneAndUnlock`, in `Post` and `DoOneHandler`, sets the flag, unlinks the sleeper and
releases the mutex with its caller at `signal`; `Signal` is pthread_cond_signal. `Wake` is
the return of pthread_cond_wait, which for a thread in `Spurious` comes by itself, and
`Relock` the test of the while loop under the mutex. The sleeper leaves run_one, which
ends the life of its event, only afterwards (`Leave`). stop_all_threads signals under the
mutex (`posix_event.hpp:48-54`).

### EpollReactor

A file is an open file description with the I/O object that has its descriptor; `data` is
the object's `per_descriptor_data`, `registered` the pointer that epoll keeps for the
file. The pool is `live_list_` and `free_list_`: a state that is freed is the next one
allocated. `ready` and `edge` are the kernel: units of data (or room), and epoll's list;
`Arrive` and `Modify` put a file on it, `EpollWait` takes at most `EventMax` files off it
and stores what they are ready for in `events`, whose elements keep the *pointer* and are
taken one by one (`TakeEvent`, with the mutex of the state) while other threads start,
cancel and close. `hung` is the files with EPOLLERR or EPOLLHUP, for which run tries every
kind.

`start_op` is two steps: the speculative attempt with the state's mutex taken (`StartOp`,
state `starting`) and the push (`StartPush`). `Speculative` is its test of the other queue
(`epoll_reactor.ipp:219-236`). The loop over the kinds of an event
(`epoll_reactor.ipp:398-418`) is a step per operation: `Turn` is the kind whose turn it is,
from the last to the first, and `HandleEvent` tries the head of its queue, which completes
or ends the kind's turn; data may come between two steps. A null_buffers wait or a connect
(`Waits`) completes without a look at the file. `Deregister`
has its two ways, by closing and by EPOLL_CTL_DEL, and `CloseDescriptor` is the close that
follows. `RegisterFails` is EPERM, `ForkParent` and `ForkChild` the two halves of a fork,
with the child's files open too (`shared`).

Left out: the second descriptor to one file, move_descriptor (renames the owner), an I/O
object that opens again after epoll refused it, failures of epoll_create.

### TimerHeap, TimerQueue, TimerBag

A queue is a record of the members: the heap as a sequence of entries, `heap_index_` per
timer, the list `timers_`. `UpHeap`, `DownHeap`, `SwapHeap` and `RemoveTimer` are the
functions of the code on it. A loop is its turn (`UpStep`, `DownStep`, `ReadyStep`) applied
as often as it may be needed; a turn after the loop's end changes nothing. `RemoveTimer`
takes the timer out of the list before it repairs the heap, where the code unlinks it
last: the repair looks at the heap only, and this way the queue has no timer without its
entry in between. `TimerQueue` applies every
call in any order to six timers, the least with which an entry that fills a gap in the
middle has to go up. Its names (`heap`, `QueueNext`, `Withdraw` for cancel_timer) differ from
those of `ReactorTimers`, so that `TimerProofs` can be about both.

### ReactorTimers

The clock goes in ticks, `Msec` to a millisecond and `Horizon` to five minutes.
`timer_fd_` says whether the kernel has timerfds: both reactors are in every run. With one,
`armed` is what is left on it; without, `timeout` is the timeout of epoll_wait and `edge`
the interrupter that cuts it short. `WaitTicks` and `MsecTimeout` are the two
wait_duration functions, with their rounding; `TimerfdValue` is get_timeout, which never
writes zero, for zero disarms. `UpdateTimeout` is update_timeout. `CheckTimers` is the end
of run, get_ready_timers of all queues. `AsyncWait`, `Cancel`, `CancelOne`, `Destroy` and
`ExpiresAt` are those of deadline_timer_service, with `might_have_pending_waits`.
`AdjustClock` sets the system's clock; timeouts run on the monotonic one. `Expiries` are the
times that the program uses, some of them more than `Horizon` away.

### ServiceRegistry

`first_service_` is the list from its head; an object is its service and the thread that
made it, which tells duplicates apart. `calls` is the stack of calls each thread is in: a
constructor obtains the services of `Uses`, by use_service, and so nests. `Search` is the
first search, `Publish` the region after the constructor with the second search, `Throw` a
constructor that throws, which takes the frame off and lets the exception go on.
`AddService` throws if the service exists. The destructor is the two loops of
`service_registry.ipp:36-57`, one `ShutdownService` or `DestroyService` per object; a
handler's destructor may obtain a service of `LateUses` meanwhile.

A region under the registry's mutex is one action except where the code waits in it.
`new_service` is declared after `lock` (`service_registry.ipp:114, 129`), so the loser of a
race destroys its object with the mutex locked: `Publish` takes `mutex_` and `Discard`
releases it. The destructor of a service of `Starters`, signal_set_service, posts the
operation of its descriptor, which locks the scheduler's mutex. That mutex is `task_mutex`,
and `InitTask` to `TaskStarted` is `task_io_service::init_task`, which the same service's
constructor calls and which holds it across use_service (`task_io_service.ipp:103-112`).
The two mutexes are so taken in both orders.

### SignalSet

`registration_count_` and `disposition` are the process-wide part, `signals_` the
registrations of a set with their `undelivered_`, in the order of their list:
`InsertionPoint` is where the walk of add ends, and `RemoveSignal` and `RemoveAll` unlink
one registration or all. `Raise` is the
signal handler: it writes to the pipe if a service has it open and room is left. `BeginRead`, `Read`,
`Deliver`, `EndRead` are pipe_read_op of one reactor: read until EAGAIN, deliver each
number to all sets of all services. `ForkPrepare`, `Fork` and `ForkDone` are the three
notifications per service with the renewed pipe in the child. `AsyncWait` is start_wait_op:
a queued notification is dequeued or the operation waits. `Add` has no step for a sigaction
that fails (`signal_set_service.ipp:243-256`): it deletes the registration that it has not
recorded yet and leaves everything as it was.

### SignalService

`Search`, `Construct`, `Publish`, `Discard` and `Discarded` are use_service around the
constructor and, for a duplicate, the destructor of signal_set_service: they lock the
registry, signal_state and a descriptor_state. `Collect`, `Perform`, `Read`, `Deliver` are
a reactor thread with pipe_read_op, which holds the descriptor_state and locks
signal_state. `RunPosted` is the scheduler's side of an operation that deregister posted.

### The abstract specifications

`PoolKeepsPromises` says `TaskIoService` implements `HandlerPool`: the stage of each
operation is computed from where it is. A step of the scheduler is then Submit, Join,
Begin, End, Leave, Stop, Reset or Destroy, or nothing at all. So a handler is called at
most once, by a thread inside the pool, not after stop(), and is destroyed uncalled only
with the service.

`StrandIsSerial` says each implementation in `Strand` is a lane of `SerialExecutor`: one
owner at a time, oldest handler first, called on the spot only if the lane is empty.

`QueueIsBag` says `TimerQueue` implements `TimerBag`: a time per timer, with a heap and
its indices nowhere in sight; what `enqueue_timer` returns is whether the new time is
before all others, on which the reactor relies to renew its timeout.

`RegistryIsDirectory` says `ServiceRegistry` implements `ServiceDirectory`: an object per
service, registered after those it uses, every reference to it, gone after its users.

## Runs

| run | instance | states | shows |
|---|---|---|---|
| `pool` | 3 threads, 2 operations, run and run_one, one work object | 586,000 | no sleep through work or stop, sound queues, exact counts, HandlerPool |
| `live` | 2 threads, 2 operations, all four entry points, fairness | 296,000 | queued handlers are called, stop() and lack of work let every thread return |
| `poll_lost` | 2 threads in run and poll | - | a violation: see Findings |
| `strand` | 2 threads, 2 strands, 2 implementations, 2 handlers, fairness | 135,000 | sound implementations, the documented order, SerialExecutor, handlers are called |
| `registry` | 2 threads, asio's scheduler, reactor and signal sets, fairness | 32,500 | usable references, users first, ServiceDirectory, no wait for a mutex without end |
| `signals` | 2 services and sets, 2 signals, 2 waits, fairness | 742,000 | exact tables, no wait beside a notification, ascending order, every number read |
| `signal_service` | 2 io_services, users 2 and 1 | 15,500 | one service each, exact list; only duplicates of its own cost a service its pipe or a unit of work |
| `timer_queue` | 6 timers, 2 times | 53,000 | heap and indices, TimerBag |
| `timers` | 2 timers, 2 waits, both kinds of timeout, a time past the horizon, fairness | 307,000 | never early, no oversleep, no spin, every wait ends |
| `reactor` | 2 files that may hang up, 2 states, an operation and a wait, reading and out of band | 2,773,000 | sound states, no edge lost, no overtaking |
| `reactor_live` | a socket and an internal descriptor, forks, fairness | 231,000 | no edge lost in a fork, what is ready is served |
| `event` | 3 threads, 2 posters, one thread wakes by itself | 738,000 | exact idle list, no wake-up lost, the event outlives its signal |

The properties:

- `StopWakesAll`: once stopped, no thread is asleep unreached. `HandlerAttended`: with a
  handler queued and a thread asleep, some thread is on its way to the queue.
  `TaskAttended`: the same for the reactor, in pools that do not poll. `WorkCounted`: the
  count is the operations in flight, the handlers being accounted for and the work
  objects. `QueuesSound`: the reactor is in the queue once or run by one thread, an
  operation is in one queue or one call, the idle list is the threads asleep and not
  signalled. `WorkKeepsRunning`: while a work object lives nobody decides that work has run
  out. `QueuedServed`, `StopReturns`, `RunReturns`: what they say, under fairness.
  `EventServed` fails with polling threads, which is finding `poll_lost`.
- `ImplSound`: one thread at most inside an implementation (`NonConcurrent`), its count
  exact, and one token for it in the scheduler while it has handlers. `OrderKept`: first
  in first out, and the order that `strand.hpp` documents if no other strand object, a
  destroyed one included, was given handlers for the same implementation. `GivenServed`:
  every handler given is called.
- `RefsUsable`: every reference obtained is to an object that stays. `UsersFirst`: an
  object is destroyed before what its constructor obtained. `CallsReturn`: nobody waits for
  ever for the registry's mutex or the scheduler's, although both orders of the two occur.
  What keeps them from a deadlock is that whoever destroys a duplicate has been through
  init_task, so that `task_` is set and nobody calls use_service there any more; without the
  test of `task_` (the variant `InitTask_A`) TLC finds the deadlock.
- `TablesSound`: the process handles exactly the signals some set has registered, each
  waiting operation is in one queue once. `NoWaitBesideNotification`, `AscendingOrder`: a
  queued notification is dequeued before anybody waits, smallest number first.
  `PipeAttended`, `SignalsRead`: the edge of the shared pipe is not lost by forks, services
  that go and other readers, and every number is read.
- `ServicesSound`: every user of an io_service gets the same service and the process-wide
  list has exactly the services between construction and shutdown. `ServiceAttended`: what
  epoll has for the pipe is the state of a candidate that waits for it and was not given
  back, a service without the pipe has had a duplicate destroyed, and the count of work is
  exact but for one unit per duplicate whose operation was run. That duplicates do this is
  a defect, see "Known deviations"; the property says that nothing else does, and that each
  does no more.
- `HeapSound`: the heap is one and back indices lead to their entries.
- `WaitsCovered`: the queue has exactly the timers with waits, at the time they are set to,
  and cancel's shortcut misses none. `NeverOversleeps`: the reactor does not sleep longer
  than until the first timer, rounded up to a millisecond, nor than five minutes; after the
  clock was set the five minutes are what is left of it. `NeverEarly`. `NoBusyWait`:
  nobody spins while nothing is due. `WaitsEnd`: a wait that is not for ever ends, also
  when the clock is set.
- `StatesSound`: the pool has each state once, a recycled one has no operations of its last
  user, an operation is where it was started. `EdgeNotLost`: while operations wait for what
  a file is ready for, epoll or the array of events has the report. `NoOvertaking`:
  an operation that completes, tried by start_op or from a queue, leaves none waiting that
  was started before it on the same file and for the same kind (`InOrder`; `ahead` is the
  history of who waited at the start); and a read passes a waiting out-of-band read only
  from its queue, and only while the report of the out-of-band data is still to come
  (`UrgentFirst`). That exception is needed, see `MCEpollReactorUrgent`. `ReadyServed`.
- `IdleUntilSignalled`: the idle list is the sleepers not signalled, through spurious
  wake-ups. `WakeupNotLost`: a sleeper with its flag set is notified or about to be.
  `EventOutlivesSignal`: the event that is signalled after the unlock is still there.

### Bounds

Three threads are the least number with one in the reactor, one in a handler and one on the
idle list, or two on the list, so that whom a wake-up reaches matters; two operations are
the least with a non-empty rest of the queue after a pop. `MaxUserWork` bounds the work
objects alive. Operations are submitted once each, which bounds every queue; threads may
enter and leave, stop and reset for ever. The strand instance has two handlers, the least
with one waiting while another runs; two implementations are the least for strands that
share and strands that do not, and strands may be destroyed. `ImplSound` and `OrderKept`,
which are proved, also hold of the three handlers of `MCStrandShared.cfg`. Three services
in a chain are the least with a nested constructor inside another; two threads the least
that race. Two signals and a pipe of two numbers let services race for the next number;
`MaxRaised` bounds how many occur, so the pipe never refuses one in these runs (a refused
one changes nothing). Two files share two states, in turn, so that recycling happens; an
array of one event makes two ready files more than it holds, as 129 are in the code.
`MaxReady` is one unit of data per file. Two timers of one queue contend for the head of
the heap; six are in `timer_queue`. Two ticks to a millisecond are the least that rounding
can go wrong with. `Horizon` is two ticks and timers are set to 1 and to 3 (`Expiries`), so
the five minutes cut off the sleep for a timer that is further off, and the next sleep goes
on. The clock stops at `MaxTime`, and is set at most `MaxAdjust` times. `MaxQueue` in
`event` bounds handlers waiting at once. In `reactor` one file hangs at a time and nothing
arrives for it meanwhile; `MayHang` is false in `reactor_live`, where files need not hang for
operations to end.

Threads, operations and files are symmetric in `pool`, `reactor` and `event` (there but for
the thread that wakes by itself); the runs with liveness use no symmetry. Deadlock is
checked except where the system rightly stops: with a work object kept for ever (`pool`),
after everybody has gone (`registry`, `signal_service`), and when all files are closed and
all operations done (`reactor`, `reactor_live`).

### Fairness

`FairSpec` of the scheduler: strong fairness for each thread's steps inside the service,
for a step waits for a mutex that is free again and again, and a thread that always finds
it taken is not scheduled fairly; weak fairness for the end of a handler's body. Nothing
obliges the program to call the service, events to occur, or epoll_wait to be interrupted.
`FairSpec` of strands: strong fairness of `Take`, for threads of the pool share the queue,
and weak fairness for the rest. `LiveSpec` of the registry: weak fairness of each thread's
steps, whether its constructors return or throw; strong fairness is not needed, for a mutex
is held across states by init_task and by a duplicate's destruction only, each at most once
per call. Of signal sets: a thread of each io_service comes back
to the reactor while its epoll set has something; no fairness of the program or of forks,
so `SignalsRead` assumes that one service stays and no fork is left half done. Of timers:
time goes on, a thread of the pool comes back to the reactor (which `TaskAttended` is
about) and epoll_wait returns when it may. Of descriptors: events that were collected are
handled, and strong fairness for each file that epoll has ready, since the kernel rotates
its list and reports every file of it in turn.

## Findings

`poll_lost`: `do_one` in poll() or poll_one(), when it meets the task for the second time,
puts it back and returns (`task_io_service.ipp:260-265`) without waking a thread. A thread
of run() that found the queue empty while the polling thread ran the reactor is asleep on
its event, and stays asleep: the reactor is in the queue, an event is ready, and nobody runs
the reactor until some unrelated post. `TaskAttended` fails in the same state. The
documentation lets threads use run() and poll() side by side (`io_service.hpp:254-276`).

### Known deviations

Further places where the code does not do what a line of its documentation says. Each has
a configuration that ends in the counterexample; they are kept apart from the runs above,
whose properties are those that hold.

| configuration | property | what happens | documented |
|---|---|---|---|
| `MCStrandShared` | `DocumentedOrder` | two strand objects may share a strand_impl (`strand_service.ipp:63-76`); inside a handler of one, `dispatch` on the other calls its handler at once (`strand_service.hpp:62`), overtaking handlers posted to it before | `strand.hpp:54-55` |
| `MCServiceRegistryLate` | `ShutDownFirst` | a service obtained by the destructor of a handler during the shutdown is inserted behind the walk and deleted without shutdown_service (`service_registry.ipp:41-56`) | `io_service.hpp:223-225` |
| `MCSignalSetNumber` | `SignalReported` | a wait that takes a queued notification never has its `signal_number_` set (`signal_set_service.ipp:567`): the handler is told signal 0 | `basic_signal_set.hpp:45-47, 360` |
| `MCSignalSetEach` | `OneHandlerPerSet` | one signal completes every wait of a set (`signal_set_service.ipp:440`) | `basic_signal_set.hpp:79-80` |
| `MCSignalSetShutdown` | `ShutdownDestroys` | a wait on a set without registrations is in no table and survives shutdown_service (`signal_set_service.ipp:141`) | `signal_set_service.hpp:116` |
| `MCSignalServiceDeadlock` | `UseReturns` | the destructor of a duplicate service locks signal_state, then the descriptor_state; the reactor with pipe_read_op locks them in the other order | `io_service.hpp:71` |
| `MCEpollReactorStale` | `WaitsOnOwnEvents` | an event of a closed file reaches the new user of its recycled state and completes a null_buffers wait or a connect that has nothing to do with it (`epoll_reactor.ipp:395`) | `overview/reactor.qbk:13-15` |
| `MCEpollReactorFork` | `RemovedWhenClosed` | a descriptor closed by the parent after a fork stays in its epoll set, for the child has the file open, with a pointer to a freed state | comment at `epoll_reactor.ipp:283-284` |
| `MCEpollReactorFailed` | `LiveIsOpen` | a state whose descriptor epoll refused stays in the pool's live list (`epoll_reactor.ipp:163`), and a later fork throws on it | comment at `epoll_reactor.hpp:207` |
| `MCEpollReactorUrgent` | `UrgentBeforeNormal` | an event that says EPOLLIN only makes run read normal data while an out-of-band read waits whose data has come since (`epoll_reactor.ipp:403`) | comment at `epoll_reactor.ipp:398-399` |
| `MCPosixEventSpurious` | `EventNotDestroyed` | after a spurious wake-up the sleeper may find its flag set, return from run_one and destroy the condition variable before signal_and_unlock signals it (`posix_event.hpp:62`) | `io_service.hpp:71` |

Where two users of one io_service construct its signal_set_service at once, the duplicate's
destructor also takes the pipe out of the epoll set that the service which stays relies on,
and its posted pipe_read_op is counted as finished though no work was started for it
(`signal_set_service.ipp:491`, `epoll_reactor.ipp:313`). `ServiceAttended` says exactly how
far that goes.

A work object that is created between run()'s unlocked test of the count and the stop()
that follows it (`task_io_service.ipp:117-119`) does not keep that stop from coming;
`WorkKeepsRunning` is about the decision, and about work that lives when it is taken.

## Proofs

The proofs hold for every value of the constants that satisfies the named assumptions of
the modules, with no bound on threads, operations, timers, services or posters. Every
invariant and every action property of the runs has its theorem, and so has each of the
four refinements.

`TaskIoServiceProofs` (from `ConstantsAssumption`, the special values are not threads or
operations, and `FiniteAssumption`):

- `TypeCorrect`: `Spec => []TypeOK`. `TypeOK` is not inductive alone: that a handler's end
  adds an operation to `done` needs that a thread at `handler` has one in `cur`
  (`HandlerInv`). `TypeInv` is the two together.
- `StopWakesAllThreads`: `Spec => []StopWakesAll`. `WakeInv` is five facts, each needed
  for the next:
  - `MutexInv`: a thread in `do_one`'s loop holds the mutex and nobody else does, so a
    thread that is about to sleep and stop() cannot overlap;
  - `IdleListExact`: whoever sleeps on an event unsignalled is on the list, so the walk of
    stop_all_threads reaches it;
  - `TaskInv`: the marker is in the queue at most once, and then no thread is in the
    reactor, otherwise one at most;
  - `InterruptInv`: a thread that blocks in the reactor has left `task_interrupted_`
    false or an edge unconsumed. One thread's RunTask or cleanup writes the flag for all
    threads, and this is preserved only because by `TaskInv` there is no other in the
    reactor;
  - `StopInv`: after stop every thread asleep has been signalled or interrupted.

  Steps that leave `pc`, the list and the flags alone are dealt with once (`Quiet`).
- `IdleListIsExact`: `Spec => []IdleListExact`, a conjunct of the same invariant.
- `HandlersAreAttended`: `Spec => []HandlerAttended`, and `TaskIsAttended`:
  `Spec => []TaskAttended` for a program that never polls (`NoPolling`; with polling
  threads it fails, see Findings). `HandlerAttended` is not inductive: it counts a thread
  in the reactor as awake once an event is ready, and `CancelOps` takes events back.
  `PoolInv` is
  - `AttendInv`: while the queue holds work, a thread asleep implies a thread that stirs,
    where only signals and the interrupter count. A step that leaves work in the queue
    calls `WakeOneThread`, and `WakeOneThreadStirs` shows from `IdleListExact`, `TaskInv`
    and `InterruptInv` that then somebody stirs or nobody is asleep;
  - `CallInv`: a thread in do_one is in a call, so reset() finds nobody asleep;
  - `PollInv`: a polling thread does not sleep, and has the task at the end of the queue
    once it has run it, so it returns without a wake-up only when no handler is left.
- `QueuesAreSound`, `[]QueuesSound`; `WorkIsCounted`, `[]WorkCounted`; `WorkKeepsItRunning`,
  `WorkKeepsRunning`; and `SchedulerIsPool`, the refinement of `HandlerPool`. `IInv` adds
  to all of the above `KeepInv`:
  - `StackInv`: what a thread may have in `cur`, `local_ops` and `call` at each pc. A post
    or a cancel finds `local_ops` empty, so it overwrites nothing; a handler runs inside a
    call; no thread is in the service once it is shut down;
  - `PlaceInv`: an operation is in flight exactly if it is in the queue, in the reactor or
    with a thread, and it is in no two of these; `ListInv`: no list has it twice. They
    need each other: to pop the head removes the operation from the queue only if it is
    there once. The lists that come from a set are enumerations of it (`Enumerated`);
  - `TaskKept`: the marker is in the queue or a thread is in the reactor, which with
    `TaskInv` is `TaskUnique`;
  - `WorkCounted` itself: a submission adds an operation that was not in flight, a
    handler's return takes one away and adds a thread at `finish`. A thread that finds the
    count 0, or takes it there from 1, therefore has no work object beside it.

  `OnePlace` turns `PlaceInv` and `ListInv` into the count of `Places`. In the refinement
  post and start_op are `Submit`, the entry points `Join`, `RunHandler` is `Begin`, both ends
  of a handler are `End`, a return is `Leave`, stop() is `Stop` with or without the return
  that follows it, and the destructor is `Destroy`: with no thread inside, `StackInv`
  and `PlaceInv` leave what waits in the queue or in the reactor only.

`PosixEventProofs` (from `EventAssumption`): `EventTypeCorrect`, `IdleListIsExact`,
`NoWakeupIsLost` and `EventStaysUntilSignalled`, that is `[]TypeOK`,
`[]IdleUntilSignalled`, `[]WakeupNotLost` and `[]EventOutlivesSignal`. A thread is unlinked
by the step that sets its flag, under the mutex; a poster at `signal` keeps the only right
to signal its target (`ExactInv`), so a target that does not wake by itself is asleep until
then, and a target that is asleep with its flag set has a signal pending or on the way.

`StrandProofs` (from `StrandAssumption`): `StrandsAreSound`, `[]ImplSound`,
`StrandImplementsSerial`, the refinement of `SerialExecutor`, and `StrandsKeepOrder`,
`[]OrderKept`. The argument is the token's:
whoever calls a handler of an implementation holds its token, and there is only one.
`IInv` is
- `TokenInv`: the places of an implementation's token, in the scheduler's queue, with a
  thread about to post it, or a frame on a stack, are never two, and there is one exactly
  when the count is not zero. Who raises the count from zero makes the token, an exit that
  leaves the count above zero passes it on;
- `CountInv`: the count is the queue and the handler being called, so `do_complete`, which
  holds the token and is calling nothing yet, finds a handler in the queue;
- `NestInv`: an inline call is made above a frame of the same implementation that is not
  inline, so whoever is inside a strand holds its token, which gives `NonConcurrent`;
- `ShutInv`: nobody is inside once the service is shut down.

In the refinement a lane's owner is the thread that holds the token while it calls a
handler: post is `Give`, `do_complete` is `Begin`, `dispatch` on an idle implementation is
`GiveAndBegin`, the exit guards are `End`, shutdown is `Drop` and all else stutters.

For `OrderKept` the invariant is joined by `OrderInv`. What was given and not called inline
has been called or waits in its implementation's queue, which has the order of the log
(`WaitInv`), so whatever `do_complete` takes has nobody before it, and who calls at once
finds the queue empty, because the count is zero. A frame that calls a handler stands for
an entry of the log (`CallInv`), so an inline call from outside the strand object has an
entry of another strand object for the same implementation (`InlineInv`); a strand object
keeps its implementation for life (`BelongInv`). A strand object without such company
therefore calls inline only inside itself, where no order is documented.

`ServiceRegistryProofs` (from `RegistryAssumption`): `RegistryTypeCorrect`,
`OneObjectPerService`, `ReferencesStayUsable`, `UsersGoFirst` and
`RegistryImplementsDirectory`. The inductive invariant is `TypeOK`, `OnePerService`,
`UsersFirst` and `RefsUsable` with two facts that make them inductive: `NeedsMet`, a
constructor has obtained, for good, the services of `Uses` that its frame no longer lists,
so whoever publishes lies above them; and `Closed`, once the destructor has begun nobody is
in a call. Of the mutexes the safety properties need nothing, only that an object that
`Publish` found is still there when `Discard` returns it. The refinement maps each service
to the maker of its object; from the invariant the end of a construction is `Register` or a
`Lookup`, and the head of the list that `DestroyService` takes has no user left.

`EpollReactorProofs` (from `ReactorAssumption`): `StatesAreSound`, `EdgeIsNeverLost` and
`NobodyOvertakes`, that is `[]StatesSound`, `[]EdgeNotLost` and `NoOvertaking`. `EdgeNotLost`
is not inductive: between start_op's failed attempt and its push the data may come while no
operation is queued. `IInv` is
- `CoverInv`: `EdgeNotLost` for what is `Wanted`, which is also what the holder of a
  state's mutex is about to push. The attempt found nothing, so holding adds nothing that
  is ready; the push adds nothing that was not wanted; the turn of a kind ends only when
  nothing is left for it, or nobody waits for it; the kinds of the event in hand that are
  still to come count as collected; what has no place in the array stays on epoll's list;
- `PoolInv`, `StatusInv`: a state in use has one I/O object, and while that is open, epoll
  points to it, so that the next edge is seen; a freed one has no operations and is not
  wanted, so an event that still points to it may be dropped, or may be dispatched to the
  next user, which takes no more than its own file has;
- `QueueInv`, `StartInv`: an operation is queued, or holds a mutex, at one state, that of
  its own open file;
- `EventInv`: nobody is in start_op with the state of the event in hand, so the kinds still
  to try are what `EdgeNotLost` may count on until their turn; `HungInv`: what an internal
  operation reads does not hang;
- `OrderInv`: an operation in a queue has nobody behind it who is in its `ahead`, and
  whoever holds the mutex of the state is in nobody's.

`NoOvertaking` then has two cases. An operation that completes in start_op found its queue
empty and nobody else at the state, and a read also the queue of out-of-band reads. One
that completes from a queue is its head, so `OrderInv` leaves none before it; and when reads
have their turn, that of the out-of-band reads is over (`TurnIs`): if one still waits, it
was tried and there was nothing, or its kind was not reported, and either way data that
is there now has a report of its own to come.

The greatest element of a set, the kind whose turn it is, is had from well-foundedness
(`MaxIs`). Where the program has internal descriptors they read, which is part of
`ReactorAssumption`.

`TimerProofs` (from `NeverAssumption`, `QueueAssumption` and `TimerAssumption`):
`HeapIsSound`, `[]HeapSound`, and `QueueImplementsBag`, the refinement of `TimerBag`, for
`TimerQueue`; `WaitsAreCovered`, `[]WaitsCovered`, `ReactorNeverOversleeps`,
`[]NeverOversleeps`, `WaitsAreNeverEarly`, `NeverEarly`, and `ReactorIsNotBusy`,
`NoBusyWait`, for `ReactorTimers`. The argument has three levels.
- Loops. `LoopRuns` and `LoopEnds` say of any loop: if its states stay in a set, a turn that
  changes the state makes a number smaller, and the turns are at least that number, then it
  ends in a state that a turn does not change. Both are proved from the least element of a
  set of numbers, not by the library's induction. `UpStates` and `DownStates` are the sets:
  a heap in which one entry may be due before its parent, and one in which an entry may be
  due after its children; nothing else is out of order, and the neighbours above and below
  that entry are in order with each other. An entry that fills a gap needs one of the two,
  and `Repair` chooses (`RemoveIs`).
- Queues. `DueOf` is what a queue means: a function from its timers to the times they are
  due. `EnqueueIs`, `RemoveIs` and `AfterReadyIs` say what each call does to it and that it
  leaves one of `Heaps`; nobody above looks into the heap again. `RootIsFirst` goes along
  the path to a least counterexample: its parent would be due as early. `TimerBag` sees of
  a queue what `DueOf` says (`DueTimesAre`).
- The reactor. `Core` is `TypeOK` and `FlagCoversWaits` with `HeapsInv` (each queue is one of
  `Heaps`, those that the reactor does not know are empty, a timer is in the queue of its
  service at the time it is set to), `OpsInv` (an operation waits in one place, and a timer is
  queued while one does) and `SleepInv` (without a timerfd no sleep is for ever).
  `WaitsCovered` follows. `NeverOversleeps` is inductive with `Core`: it is about the least
  wait of all queues, and the steps that cancel or complete make no queue `NoSooner`, so
  that they need not wake the reactor; `async_wait` can, and then its timer is at the front
  of its queue (`AsyncWaitIs`), so that `First` is true. A tick takes no more from the wait
  than from the timeout (`WaitDurationIs`).

`SignalSetProofs` (from `SignalAssumption`): `PipeIsAttended`, `[]PipeAttended`, which is
inductive with the types of the four variables it speaks of; `TablesAreSound`,
`[]TablesSound`; `NoOperationWaitsBesideNotification`, `[]NoWaitBesideNotification`; and
`NotificationsInOrder`, `AscendingOrder`. The last three rest on `ListInv`: a set's list is
in strictly ascending order of signals. So add, which walks to the place, keeps it in order,
remove takes the only registration of a signal, and the first with a notification is the
smallest. `CountInv`: a signal's count is the number of sets registered for it, finitely
many, although the sets of the program need not be. That no operation waits beside a
notification is inductive: async_wait queues only when no registration has one, and a
delivery notes one only when nobody waits.

`SignalServiceProofs` (from `ServiceAssumption`): `ServicesAreSound`, `[]ServicesSound`, and
`ServiceIsAttended`, `[]ServiceAttended`. A candidate is with the user that constructed it or
in the registry, and `UserInv` and `RegistryInv` say so from both sides; `LockInv` puts the
mutexes where the users stand; `GoneInv`, that nobody publishes after a shutdown, keeps a
service from being replaced. `AttendedInv` is `ServiceAttended` with the operations of the
candidates: while one is queued, epoll has the pipe or a duplicate was destroyed, and the
candidates whose operation was run are finitely many, so that the count can follow them.

How the models were made fit for this. `SignalSet` and `SignalService` no longer speak of
the cardinality of sets of unknown size, or of lists filtered as a whole; `TimerHeap` has its
loops as functions. TLC checked the restated models, and the invariants on the instances of
the runs before they were proved inductive.

All proofs have also been checked with the SMT backend's encoding without types
(`tlapm --debug notypes`). The encoding it uses by default gives a name that is bounded by
a set such as `Nat \cup {Never}` the type of integers, which takes for granted that `Never`
is one; no proof here depends on that.

Only model-checked: the liveness properties, namely `QueuedServed`, `StopReturns`,
`RunReturns`, `GivenServed`, `CallsReturn`, `SignalsRead`, `WaitsEnd` and `ReadyServed`. They
rest on fairness, hence on ENABLED, which is out of the prover's reach.

## Plan

Done: the scheduler, its promise and the proofs of its wake-ups and of the promise; the
registry, its promise and proofs; events and their proofs; strands, their promise and
proofs; timers, the promise of their queue and proofs; descriptors and their proofs; signal
sets and services and their proofs.

Left, in this order: that the reactor handles one report at a time, which `EpollReactor`
takes from `QueuesSound`, as a refinement between the two modules; the promises of
`EpollReactor` and `ReactorTimers` towards the scheduler, of which `TaskIoService` has the
set of pending operations, as abstract specifications of their own. Larger
instances are limited by the product of `EpollReactor`'s kernel and pool. Modules that
would follow: the blocking half of the interrupter, the resolver's private scheduler with
its thread, and SharedMutex and Once of Boost.Thread.

## Not modelled

The other reactors (kqueue, /dev/poll, select, IOCP) are back ends for other systems: the
first three have the interface, the locking and the per-descriptor queues of the epoll
reactor. Sockets, SSL, buffers and resolvers are data around the reactor. The rest of
Boost, SQLite (one generated file of 126,000 lines), LLVM and cat_mother (a single-threaded
game) are separate programs; `PROJECT.json` lists them with the reasons.

Inside the modelled components: calling run() again from inside a handler, exceptions out
of the reactor, `std::size_t` overflow of counts, resource failures of system calls other
than epoll_ctl on a descriptor, the blocking `wait()` of a timer (it changes nothing),
registering descriptors after shutdown.

## How to run

    tlc -workers 2 -config MCTaskIoService.cfg MCTaskIoService.tla
    tlc -workers 2 -config MCEpollReactorLive.cfg MCEpollReactor.tla
    tlapm TaskIoServiceProofs.tla

A module `MCX.tla` serves every configuration whose name begins with `MCX`.
