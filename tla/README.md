# A verification of jasl

jasl is a small C++11 library for servers: a reactor on epoll with a timeout for
every socket, the sockets themselves, a thread pool, lock-free queues, a pool
allocator and some value classes. This directory holds TLA+ models of it, TLC
runs on small instances, and proofs that TLAPS checks for all instances.
Paths are relative to `src/`; `PROJECT.json` maps every definition to its lines.

## The system

| component | state | operations | who calls it |
|---|---|---|---|
| `poller/scheduler` | `m_events` (a multimap from time to descriptor) and `m_timeouts` (descriptor to iterator) | `add_event`, `get_next_event`, `delete_event`, `ms_to_next_event` | the poller, with `m_lock` held but for `ms_to_next_event` |
| `poller/socket_context` | the time and step of a socket's two timeouts | `update_timeout`, `update_timeout_step`, `get_nearest_timeout`, `get_timeout_type` | the poller |
| `poller/poller` | epoll, an eventfd, `m_active_sockets`, `m_scheduler`, `m_out_events`, `m_lock` | `update_socket`, `remove_socket`, `signal` (any thread), `poll`, `get_next_event` (the loop) | reactor, sockets, other threads |
| `socket/socket` | `m_info.state`, `m_poller`, neither with a lock | `close`, `attach_to_poller`, `remove_from_poller`, `update_poll_mask`, `accept`, the callbacks | reactors' loops, users' callbacks, any thread |
| `socket/tcp/server` | | `read` (the accept loop), `write` (throws) | the reactor |
| `poller/reactor` | `m_stop`, the event in dispatch; the worker of a `ReactorInThread` | `run`, `stop`, `signal`, `update_socket`; construction and destruction | one loop thread; any thread for the rest |
| `memory/spsc_queue`, `mpsc_queue` | a ring and two atomic indices, a condition variable for each side | `push`, `pop` | workers |
| `thread/worker`, `thread_pool` | a queue for each worker, `m_next_worker` | `add_task`, the worker's loop, the destructors | any thread |
| `memory/chunker`, `pool` | a list of free blocks threaded through them; deleters that hold the blocks | `get_shared`, the deleters | one thread |
| `common/file_descriptor`, `circular_buffer` | a descriptor; `m_head`, `m_tail`, `m_overlap` | the loops of `write` and `read`; `write`, `read` of the ring | sockets, users |
| `common/url`, `sub_string` | six parts of a string | `set`, `parse` | users |
| `common/bitset` | bytes; a `Bit` refers to its `BitSet` and an index | `bind`, `=`, `set_all`, `[]`, `to_string`; `=`, `flip`, conversion of a `Bit` | users |
| the rest of `socket/tcp/*`, value wrappers | | | users |

A round of the loop waits in `epoll_wait` for as long as the scheduler says
(without the lock), then takes `m_lock`, turns reports and due deadlines into
events, gives the lock back, and takes the events out one by one (again without
the lock) to call back the sockets. Other threads enter through `update_socket`,
`remove_socket` and `signal`; an eventfd wakes the loop up. A callback may enter
the poller again, close its own or another socket, or throw.

With several reactors a socket may be handed from one to another: the new poller
calls `attach_to_poller` with its lock held, and that calls `remove_socket` of
the old one, which takes another lock. A `ReactorInThread` has two tasks for its
worker, `run` and the worker's own stop, so its destructor joins a thread that
somebody has to get out of `run` first.

What is hard here, and hard to test: what happens between `epoll_wait` and the
lock, and when a signal handler interrupts the wait; two locks taken in the
order the sockets move; three tables that name the same socket and must be emptied together;
deadlines that are due together with activity; `close` asked for by a callback,
an exception and the event at once; a stop in the middle of all that; plain
memory that two atomic indices order; queues at their limit; lists and rings at
their ends. `PROJECT.json` lists the hazards at their lines with the properties
that watch them.

## The modules

| module | models | remarks |
|---|---|---|
| `DeadlineTable`, `Deadlines` | what a scheduler promises | one deadline per payload, handed out in order and not early |
| `Scheduler` | `Scheduler` | nodes of the multimap are freed and used again, so a dangling iterator shows |
| `SocketContext` | `SocketContext` | arithmetic modulo `TimeModulus` (2^64 in the code); operators only |
| `Poller` | `Poller`, with epoll and eventfd as far as it uses them | any thread may call what is public; the unlocked steps are steps of their own |
| `Socket` | the life cycle of `Socket` on a poller | `close` in the four steps between which other threads run |
| `Reactor` | `Reactor`, `TcpServer` under it, the user's callbacks, other threads | extends `Socket`, which extends `Poller` |
| `ReactorInThread` | `ReactorInThread` with its `Worker` and its owner | extends `Reactor`; fairness is stated here |
| `Pollers` | sockets handed over, moved and closed among several pollers | the locks and the unlocked reads of `m_poller` and the state; an event is just a socket here |
| `BoundedQueue` | what the queues promise | |
| `Queue` | `SPSCQueue`, its waiting form, `MPSCQueue` | an atomic access is a step |
| `ThreadPool` | `ThreadPool` and `Worker` | a worker's queue is what `BoundedQueue` says |
| `Allocator` | what the allocators promise | |
| `Chunker`, `Pool` | `Chunker`, and `Pool` on it | the stack of running constructors and destructors, weak_ptrs |
| `CircularBuffer`, `Stream` | `CircularBuffer`; `FileDescriptor` at both ends of a connection | a system call is a step |
| `Url` | `Url` and `SubString` | an iteration of `parse` is a step; a text is a sequence of characters put together from its parts |
| `BitArray` | what `BitSet` and `Bit` promise | arrays of bits with names for their bits |
| `BitSet` | `BitSet` and `Bit` | bytes are sets of bit numbers; undefined behaviour is an outcome |
| `*Proofs` | theorems about the module of that name | `ReactorProofs` is about `ReactorInThread` too and builds on `PollerProofs` |
| `DataProofs` | theorems about `Scheduler`, `BitSet` and `Url` | what one thread uses alone; their specifications are named apart (`SchedulerSpec`, `BitSetSpec`, `UrlSpec`) so that one module can extend them |
| `MC*` | instances for TLC | |

State keeps the names of the code's members; an action is the function it is
named after, or a part of it (`push_load`, `push_store`, `push_publish`), and a
comment says so where the two differ. Tables become functions from sockets, with
a value for "not there". `Poller` knows a socket by its identity: the number of
a closed descriptor is not used again in a run of the model.

A definition whose comment begins with "Mistake" is a slip of the kind a
programmer makes in the definition below it. No action uses it; it stands there
to show that a property notices.

### How the poller's state corresponds

`m_active_sockets` is `active` and `context`; the scheduler is the function
`deadline` (that the two containers are such a function is what the run
`scheduler` and `SchedulerImplementsDeadlines` show); `m_out_events` is `out`,
one event per socket because `PollerEvent` compares by socket; the interest list
of epoll is `epoll`, the eventfd a set of signals, `m_epoll_events` a `batch`.
`pollPc` is where the loop is in `poll`: computing the wait, waiting, processing
reports with the lock, processing deadlines. `failed` records an assertion that
failed, after which nothing happens. `lastSeen` is history: when each direction
was active last or got its timeout.

`Pollers` has the same tables for every poller and leaves out what concerns one
poller only: timeouts, masks, signals. In exchange a call is as many steps as it
reads or takes of what is shared: the look at the state and the marking in
`close`, the reading of `m_poller`, each lock, the reset of `m_poller`. Any
thread may make any call on any socket. Nothing but the fields themselves
protects a socket from that, so most of what one would like to say is false in
general; the history variable `shared` has the sockets of which a call was begun
by a thread other than that of the loop they belong to, or during a call of
another thread, and the properties speak of the others. Each exception is needed:
without it TLC finds a counterexample.

The clock is the wall clock in milliseconds and does not run backwards in the
model. Reading it twice in one function may give two values, up to `MaxDrift`
apart.

## The runs

| run | bounds | what it shows |
|---|---|---|
| `scheduler` | 2 payloads, 3 nodes, times 0..3 | the two containers agree, the sleep is exact, and they implement `Deadlines` |
| `poller` | 1 socket, 2 threads, masks one-shot read / level read-write, steps 0 and 1, clock 0..2 | the tables agree, nobody is timed out early, and the loop oversleeps only after a call that sends no signal, whoever calls what |
| `reactor_safety` | 2 sockets, listening or not, the loop and a client, clock 0..2, step 2 | the only assertion to fail is the one of `interrupted_wait`, a closed socket is forgotten, `on_close` runs once, timeouts stay armed, no wake-up and no report is lost |
| `reactor_liveness` | 1 socket, listening or not, the owner, the worker and a client, clock 0..2, step 2 | `stop` ends the loop, deadlines are served, the destructor returns once the loop has ended; every step is one that `Poller` allows |
| `interrupted_wait` | violation | `assert(false)` in `process_epoll_events` after an interrupted wait |
| `queue` | 2 producers (one for SPSC), 2 values | no data race, every sleeper is accounted for; the classes implement `BoundedQueue` |
| `thread_pool` | 2 workers with room for 2 tasks, 5 tasks, 2 clients | tasks are conserved and drained; the destructor returns unless a stop was dropped |
| `pool` | 3 blocks | the free list is exact; the pool implements `Allocator` |
| `stream` | a ring of 4, 9 bytes, a connection of 3 | bytes arrive in order and complete, and the end is told |
| `url` | 756 URLs, parsed on a new object and on a used one | a new object finds the parts; only a used one aborts |
| `pollers` | 2 pollers, whose threads are also the clients, 2 sockets, reports of one socket | a move leaves nothing behind, closing is for good, one loop calls a socket back, reports are fresh, and the only deadlocks are circular moves |
| `bitset` | 2 BitSets of up to 2 bytes of 2 bits, 2 Bits | they implement `BitArray`: packing, copies, and what is undefined |

Why the bounds are enough. The scheduler erases at most two nodes in a call, and
a third lets an erased one come back under another payload. The poller handles
sockets independently of each other but for `m_epoll_events` having an end
(`InitialRoom`) and the one lock, so one socket under every caller and two in the
reactor reach every pair of steps; the steps 0, 1 and 2 against a clock of 2 or 3
let a deadline lie before, at and behind the time of a poll. `TimeModulus` is
large against the clock, so that wrapping happens only where the code makes it
(`INVALID_TIME` + now). A worker's queue of two tasks is empty, half full and full,
a stop can stand behind a task in it, and five tasks are one too many. Three
blocks make a list that is empty, has one block, and is permuted. The ring wraps
twice within 9 bytes and its calls end at each of its offsets. A circular wait of
moves needs two pollers and two sockets; a report of one socket is stale or
fresh whatever else is in it, so `MaxReport` is 1. A byte of two bits has a first
and a last bit, and two bytes a boundary between them; `ByteBits` is 8 in the code.

`reactor_safety` uses the symmetry of the two sockets; it checks no liveness.
`thread_pool`, `stream` and `url` stop when all is done, so they do not check
deadlock, and `pollers` has real deadlocks, which `DeadlocksAreCircularMoves`
describes; the other runs check it.

### Findings

`interrupted_wait`: `get_epoll_events` loops around `epoll_wait` and starts
again after `EINTR`, with `nfds` at -1. If a deadline has come by then,
`ms_to_next_event` says 0, the loop ends, and the -1 is returned
(`poller/poller.cpp:137` and `:158`). `poll` passes it on as an unsigned number
of events; the first entry of `m_epoll_events`, which `memset` has cleared, is no
socket, and the loop runs into `assert(false)` at `:208` (without assertions, on
through the end of a table). It takes a signal handler and a deadline in the same
wait, and nothing else: `reactor_safety` shows that this is the one assertion a
reactor used as below can fail.

Met on the way and stated in the models, though no document says otherwise:

* `remove_socket` on another thread after `epoll_wait` has returned makes the
  report stale, and `process_epoll_events` asserts that there is none. The
  exception is in `NoStaleReport`.
* `update_socket` accepts the step `INVALID_TIME`; such a socket has no timeout,
  and its first hang-up fails the assertion of `get_nearest_timeout`.
* `EPOLLHUP` gives `PEER_SHUTDOWN` and `EPOLLRDHUP` gives `UNEXPECTED_SHUTDOWN`;
  the comments of the enum say the reverse.
* Two threads that move sockets between the same two pollers in opposite
  directions can wait for each other for ever (`DeadlocksAreCircularMoves`).
* A known socket that another thread gives a shorter timeout does not wake the
  loop up, and neither does a removal that the unlocked look at the scheduler runs
  into: the loop may sleep past a deadline (`OversleepsOnlyAfterQuietCall`).
* `ReactorInThread` does not stop its reactor: without `stop`, or an exception out
  of `on_close`, its destructor never returns (`JoinReturns`).
* An `on_close` that throws while the handler of `run` closes the socket ends the
  loop.
* `Worker::stop` may be dropped by a full queue, and then the destructor of the
  pool does not return (`DestructorReturns` has the exception written into it).
* The waiting queue notifies without the mutex and can lose a wake-up;
  `SleepersAreNotified` says when: between the look at the queue and the sleep.
* A `Url` that is set twice may abort (`AbortsOnlyOnReuse`). A new one knows a login
  only together with a password: `login@host` fails the assertion behind
  `fill_pass`, and where the password is empty the host begins at the login. The
  URLs of the model have both or neither.
* After a reset, `read` swallows the error and the next call says `eof`.
* `BitSet::operator []` lets the index behind the last bit through, and a BitSet
  assigned to itself reads freed memory (`ImplementsBitArray`).

### Fairness

* `ReactorInThread`: the owner, the worker and the loop run (weak fairness of
  their steps); `epoll_wait` returns once the eventfd is readable or the time is
  up, although signal handlers may interrupt it again and again, so it is strong
  fairness; `accept` returns -1 some time, which supposes that listeners are made
  with `NON_BLOCK` and that the backlog is empty some time (strong, since
  connections may come first); a callback returns or throws, although it may call
  the poller any number of times first (strong); a thread that holds the lock
  releases it; `stop` sends its signal; the clock goes on. Nothing has to become
  ready, nobody has to call anything, and the owner may keep the object for ever.
* `ThreadPool`: threads run and tasks return. Nobody has to submit a task or to
  destroy the pool.
* `Stream`: a program that reads goes on until it is told of the end, and takes
  the bytes out of the ring. Nobody has to write or to close.

### What Reactor assumes of its user

Other threads bring new sockets, send `UPDATE` and stop; sockets are closed and
known sockets updated on the loop thread, closed sockets are not handed over
again, `on_close` leaves the poller alone
but may throw, `STOP` comes from `stop` only, and timeouts are finite and longer than the drift
between two readings of the clock in one poll (`TimeoutStaysArmed` needs it: a
timeout of less is due before it is stored). `Poller` assumes none of that for one poller, and
`Pollers` for several only that closed sockets are not
handed over again. A `ReactorInThread` is destroyed by its owner,
when no other thread is in a call of it; a callback may still call `stop`.

## What is proved

| module | theorems | for every |
|---|---|---|
| `DataProofs` | `SchedulerTypeCorrect`, `ContainersStayConsistent`, `SleepStaysExact`, `SchedulerImplementsDeadlines` | set of payloads and nodes, horizon |
| | `BitSetTypeCorrect`, `BitSetImplementsBitArray` | number of bits in a byte, size, number of BitSets and Bits |
| | `UrlTypeCorrect`, `UrlFindsParts`, `UrlAbortsOnReuseOnly`, `UrlSearchesStayInside` | alphabet, names, ports and tails, of any length |
| `PollerProofs` | `PollerTypeCorrect`, `EventsAreOfActiveSockets`, `NoTimeoutWithActivity`, `ScheduleIsConsistent`, `TimeoutsFollowActivity`, `NobodyTimesOutEarly`, `OnlyQuietCallsOversleep` | set of sockets, threads, masks and steps |
| `ReactorProofs` | `ReactorTypeCorrect`, `ReactorImplementsPoller`, `ThreadImplementsReactor`, `ClosedOnceEach`, `ClosedSocketsAreForgotten`, `OnlyKnownSocketsReport`, `NoReportIsLost`, `OnlyInterruptsAbort`, `IdleSocketsStayArmed`, `NoDeadlineIsSleptThrough` | set of sockets, listeners and threads, masks and steps |
| `PollersProofs` | `PollersTypeCorrect`, `NothingLeftBehind`, `CloseIsFinal`, `OneLoopCallsBack`, `ReportsAreOfKnownSockets`, `OnlyMovesDeadlock` | number of pollers and sockets |
| `QueueProofs` | `QueueTypeCorrect`, `SlotsAreNeverShared`, `SleepersGetTheirNotify`, `QueueImplementsBoundedQueue` | size, number of producers, class |
| `ThreadPoolProofs` | `ThreadPoolTypeCorrect`, `NoTaskIsLostOrRepeated`, `NoWorkerIsSkipped`, `DestructorDrains` | number of workers, clients and tasks, size of the queues |
| `PoolProofs` | `PoolTypeCorrect`, `FreeListStaysExact`, `ChunksAreHeldByReferences`, `PoolImplementsAllocator` | number of blocks |
| `StreamProofs` | `StreamTypeCorrect`, `BytesArriveAsWritten`, `EofIsTheEnd` | size of the ring, of the connection and of what is sent |

Each theorem but the type corrections, `ThreadImplementsReactor`,
`OnlyKnownSocketsReport` and `UrlSearchesStayInside` states a property a run
checks. The last justifies that `Url` leaves out the branches of `parse` for a
search that finds nothing: none ever does, in a used object either.

### Assumptions

The named ASSUMEs of the modules, which TLC evaluates too, and five hypotheses
about the timeouts, each of which the instances of the runs satisfy. Of the
ASSUMEs only `PartsAssumption` narrows what the code is used for: a login comes
with a password, neither is empty, no name has a delimiter in it, and a port
consists of digits. Of a tail it asks its first slash and nothing else. The other
ASSUMEs give the constants their types and keep special values (no buffer, no
thread, the end of a container) apart from the ordinary ones.

| hypothesis | of | says |
|---|---|---|
| `INVALID_TIME \notin Steps` | `ScheduleIsConsistent` | nobody registers a socket without a timeout; it is false otherwise, since a STOP leaves deadlines behind |
| `NoOverflow` | the three timing theorems of the poller | the clock and a step together do not reach the end of uint64_t; a timeout that wraps to `INVALID_TIME` counts as none |
| `IntWaits` | `OnlyQuietCallsOversleep` | every step fits into the positive half of the int `epoll_wait` takes; with 25 days or more the loop does sleep for ever (`poller/poller.cpp:144`) |
| `FiniteTimeouts` | `OnlyInterruptsAbort`, `IdleSocketsStayArmed` | every call asks for reading or writing; every step is longer than a pass of `poll` takes and away from the end of uint64_t |
| `FiniteTimeouts`, `ShortWaits` | `NoDeadlineIsSleptThrough` | besides, what `IntWaits` says |

The code does not enforce them. It documents no range for a timeout either, and
its default is seconds; the sockets of the library pass a mask for what they
wait for. Without them the properties are false, and the hazards in
`PROJECT.json` say where.

### The arguments

Each is an inductive invariant stronger than the properties it gives. TLC
checked each of them on the instances of the runs before it was proved.

* `Scheduler`: the iterator of a payload is live and carries it, and a live node
  is the iterator of its payload. Either half alone does not survive
  `get_next_event`, which takes a node and clears the payload's entry. That the
  sleep is exact needs in addition that a multimap that is not empty has a first
  event, however large it is; the well-foundedness of the natural numbers gives it.
* `BitSet`: `Unpacked` reads a row of bytes as an array; index i is bit i mod 8 of
  byte i div 8, and no two indices are the same bit of the same byte, for any
  number of bits in a byte. So writing one bit changes one element of the array
  and leaves the others, also within the byte. A `Bit` maps to the name of its
  place, or to none. Each call is then the call of `BitArray` with the same
  outcome; the calls that read foreign memory are undefined in both.
* `Url`: the text is its pieces, each at an offset that the lengths of the pieces
  before it give (`Layout`), so that every character is known by where it
  stands. The invariant names the five stages of a first parse, what has been found at each and
  where the search goes on. The step that is easy to get wrong is the colon behind a login: what
  follows may be a number, so the digits must end at something that is no slash, and they
  do, at the latest at the "@" (`LoginIsNoPort`). Of a used object only
  `AnyParse` is known: the search has not passed the slash that follows the host and the port,
  because neither "://" nor a port can reach across it. No induction over
  strings is needed: a search is characterized by what it finds and by
  what stands before that, and the well-foundedness of the natural numbers says that there is a first.
* `Poller`: the events are those of active sockets, and while the loop is
  between the lock and the end of `process_scheduler` nobody else changes the
  tables; the types come first, because the arithmetic of the timeouts needs
  them. The consistency of the schedule needs that a context always has a
  timeout when it has a deadline. For the timing, `SilenceInv` says that a
  timeout that runs is the last activity plus the step modulo 2^64, and that a
  socket the poller does not know has none: that is what makes
  `update_timeout_step`, which adds one step and takes off another in unsigned
  arithmetic, come out right. `WaitInv` adds that no deadline is too far away for
  an int, and that the loop thread holds the lock only in its own calls or while
  it processes.
* `Reactor`: every step of it is a step of `Poller` or leaves the poller alone,
  which is why whatever is proved of `Poller` holds of the poller of a reactor; a
  `ReactorInThread` moves its reactor only as `ReactorNext` allows. The life
  cycle (`LifeInv`) says of each socket where it may be found: an open one is
  registered where its `m_poller` says; one that `remove_socket` has left is in
  no table; while the loop is in `poll` the events of the last round have all been
  taken; after a STOP the round is over. The last but one is why `insert` never
  drops a report. The time part (`TimeInv`) says that a known socket has a
  timeout in every direction it is interested in, and either its nearest one is in
  the scheduler or its event will close it. It needs that a step is longer than
  the drift between the two readings of the clock, and that only
  `process_scheduler` takes deadlines out.
* `Pollers`: the first part says what the fields of a call mean at each of its
  steps, who holds which lock, and that the socket of a move has no event yet
  where it goes to; that is enough for the deadlocks. The second part is about a
  socket that is not `shared`: one call at a time works on it, the caller is the
  thread of the poller that `m_poller` names, unless that one's loop has ended;
  only that poller, or in the middle of a move the one it comes from, watches it;
  `on_close` has run as often as a close has got that far. A report is fresh
  because only its own loop can remove the socket between `epoll_wait` and the lock.
* `Queue`: a producer between `push_load` and `push_publish` holds a copy of
  `m_head` that is still `m_head`, and the ring still has room for its value: it
  had when the producer looked, and only the consumer has moved since. At most
  one producer is inside, because of the lock or because it is the only one. The
  refinement maps a value in at `push_publish` and out at `pop_read`. For the
  sleepers a second invariant is needed: who has found the queue full, or empty,
  and is on the way to sleep was right, or will be notified, or has missed it.
* `ThreadPool`: an accepted task is at exactly one place, a position of one queue
  or the hands of one worker, until it has run. The loop of `add_task` has
  offered its task to the workers from the first one round to the next one, across
  the end of the array. Nothing stands behind the stop in a queue, so the queue of
  a worker that is done is empty, and the destructor returns when all are done.
* `Pool`: the links lead through the ghost sequence `freed`, which has no
  repetition and holds the free blocks. A list that only begins and ends right
  could visit a block twice. A block is on the stack of calls once.
* `Stream`: the invariant is about single cells. With r bytes received, the cells
  from the tail on hold the numbers behind r, up to the head or round the end of
  the ring; the cells a call of `read` has filled go on from there; the connection
  goes on behind those. A call is never for more than the ring has room for, which
  keeps the cells that are filled apart from the ones that are still to be read,
  and `m_overlap` tells which of two equal pointers is ahead.

Two statements turned out to be wrong for larger instances than the runs and were
corrected: `DeadlocksAreCircularMoves` now speaks of any circle of waiting
threads (with three pollers a third thread may wait for one of two that are
stuck), the threads in `poll` included, and `RegisteredWhereAttached` was made to
say of all sockets what it said of unshared ones only.

### Only model-checked

Liveness: `StopEndsRun`, `DeadlinesAreServed`, `JoinReturns`,
`DestructorReturns`, `StreamIsDelivered`. The prover has no rules for fairness
and ENABLED. Every safety property that a run expects to hold is a theorem.

## Not modelled

The creation of TCP sockets, `connect` and the socket options (single system calls
that keep nothing the rest looks at), block sizes and `bit_staff.hpp`, the backoff
of the spinlock, `bind_to`, tasks and callbacks that throw something other than a
`std::exception` (they end the process), addresses, hashing, `Any`, logging and
formatting. System calls fail only as far as the code looks at it (`EINTR`,
`EAGAIN`, `EEXIST` by omission). A descriptor is not reused while a model runs, and
the clock does not go back, though `high_resolution_clock` may. Memory is
sequentially consistent, which the default order of `std::atomic` gives for
programs without data races; that there are none in the queues is a theorem.
`m_stop` and the fields of `Socket` are plain memory that threads share; a read of
them is taken to give the old or the new value.

## Plan

Done: the poller, its parts, the reactor on it, alone and in its thread, and
several pollers; the queues and the pool of threads; the allocators; streams;
URLs; bitsets; proofs of the safety of all of these. What could follow: the
life of a descriptor whose number is used again, and a clock that is set back,
which would need the code to say what it promises then.

## Running

    tlc -workers 2 -config poller.cfg MCPoller.tla
    tlapm PollerProofs.tla
