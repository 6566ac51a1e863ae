# Verification of the C socket repository

TLA+ models of the concurrent and networked parts of this repository, model
checked with TLC on small instances, with TLAPS proofs of most safety properties
for every size. Paths below are relative to `src/`.

## 1. Inventory

| Component | Source | State | Operations | Hard behaviour |
|---|---|---|---|---|
| Dynamic thread pool | `Csocket/epoll_反应堆/threadpool.c` (identical copy in `线程池复杂版/`) | ring of tasks, three thread counters, `shutdown`, two mutexes, two condition variables | `threadpool_create`, `threadpool_add`, worker, adjust thread, `threadpool_destroy`/`_free`, two getters | wakeups, retirement racing with work, stale snapshots, freeing while in use |
| Simple thread pool | `Csocket/epoll_反应堆/threadpoolsimple.c` (annotated copy in `线程池简单版/`) | ring with two growing counters, `shutdown`, one mutex, two condition variables | `create_threadpool`, `addtask`, `thrRun`, `destroy_threadpool` | signal after unlock, one signal per task, unlocked `shutdown` |
| Connection pool | `Csocket/poolsocket.c` | stack of idle descriptors, their status, `terminated`, a mutex | `sckCltPool_init`, `getConnet`, `putConnet`, `destroy`, `send`, `rev` | descriptor reuse, failed reconnects, double put, uninitialised memory, destroy while lent |
| Socket library: framing | `Csocket/socketutil.c` | none between calls but the byte stream | `sckClient_send/rev`, `sckServer_send/rev`, `readn`, `writen`, `read_timeout`, `write_timeout` | short reads and writes, timeouts, failures between header and data |
| Socket library: setup | `Csocket/socketutil.c` | listening socket, blocking mode of a client socket | `sckServer_init`, `sckServer_accept`, `sckClient_connect`, close calls | handshake racing with a timeout, two threads accepting, failing `accept` |
| Epoll reactor | `Csocket/epoll_反应堆/epoll_loop.c` (identical copy in `反应堆复杂版/`) | table of connection slots, the epoll tree, `checkpos` | `eventset/add/del`, `acceptconn`, `recvdata`, `senddata`, loop of `main` | events handled after others of the same batch, slot and descriptor reuse, full table, idle timeout |
| First reactor | `reactor_1.c` (two identical copies) | table of places, the epoll tree | `eventadd/set/del`, `initAccept`, `readData`, `senddata`, loop of `main` | full table, blocking calls in a loop |
| Thread pool with epoll | `线程池加epoll/threadpoolsimple.c` | the simple pool and an edge-triggered epoll tree | `addtask` from an epoll loop, `taskRun` | two tasks for one descriptor, numbers reused under a task, an edge reported once |
| select and poll servers | `select_advance.c`, `poll.c` | client table, bounds on it, the set to watch | one loop each | table and set out of step, countdown of reports, uninitialised `revents`, numbers beyond `FD_SETSIZE` |
| epoll servers | `epoll.c`, `epoll_et.c` (two identical copies) | the epoll tree | one loop each | edge triggering, blocking `Write` |
| Thread per connection | `pthread_tcp_server.c` | none shared | accept and spawn | unnoticed failure to create a thread |
| Pipe example | `pipe_epoll.c` | none | read and print | none |
| Wrappers | `Csocket/wrap.c` | static buffer of `my_read` | `Accept`, `Read`, `Write`, `Close`, `Writen`; unused: `Readn`, `Readline`, `Connect` | retries, ending the process |
| Log | `Csocket/socketlog.c` | a file | append | none (I/O) |
| C++ classes | `C++socket/` | as the socket library, and the caller's length variable | `connectToHost`, `sendMsg`, `recvMsg`, `disConnect`, `setListen`, `acceptConn`, `closefd` | as the socket library; a call refused because the length is 0 |

How they interact: the connection pool calls `sckClient_connect`,
`sckClient_closeconn`, `sckClient_send` and `sckClient_rev` of the socket
library; client and server sides of the library meet through TCP; the pools are
called by any number of threads; the reactors and the small servers are programs
of their own whose clients are outside, and call `wrap.c`; one of them feeds the
simple thread pool from an epoll loop. The C++ classes speak the protocol of the
socket library. `PROJECT.json` lists what is hard to test in each, line by
line.

What makes each part correct:

* pools: a task is in one place, waits in FIFO order, runs at most once, and
  runs eventually; callers are not left sleeping beside free places; the
  counters that steer the pool are right;
* connection pool: a connection is idle or lent to one client; none disappears
  unaccounted; the stack stays inside its array;
* framing: messages arrive whole, in order, once; a failed call leaves the
  stream where it was;
* setup: success means an established connection in blocking mode, owned by one
  thread; calls with a time limit end;
* reactor: the table and the kernel's tree agree, an event is handled for the
  connection it was reported for, clients get their own data back in order,
  idle connections are closed;
* echo servers: what a server remembers is what is open, what it works off is
  still true, every client gets its data back in order and once, is disconnected
  only when it has ended, and nobody is forgotten.

## 2. Modules

| Module | What it is |
|---|---|
| `TaskQueue` | abstract: a bounded FIFO queue whose tasks are handed to one worker and run at most once |
| `ThreadPool` | `threadpool.c`; refines `TaskQueue` |
| `SimplePool` | `threadpoolsimple.c`; refines `TaskQueue` with `MayDiscard` |
| `ConnPool` | `poolsocket.c` over a process with reused descriptors |
| `MsgChannel` | abstract: an ordered channel of whole messages |
| `Framing` | send and rev of `socketutil.c`; refines `MsgChannel` |
| `SockSetup` | connect, init and accept of `socketutil.c` with the kernel's handshake |
| `TcpMsgs`, `TcpConn` | the C++ classes, as `Framing` and `SockSetup` and what differs |
| `EpollPool` | `线程池加epoll/threadpoolsimple.c`: composes `SimplePool` with an epoll tree, reused descriptors and clients |
| `EchoService` | abstract: what an echo server owes its clients |
| `EchoKernel` | what the small servers share: descriptors, `wrap.c`, clients |
| `SelectServer`, `PollServer`, `EpollServer`, `XEventServer`, `ThreadServer` | `select_advance.c`, `poll.c`, `epoll.c` and `epoll_et.c`, `reactor_1.c`, `pthread_tcp_server.c` |
| `EchoServers` | those servers side by side; refines `EchoService` |
| `Reactor` | `epoll_loop.c` with its clients, the epoll tree and the clock |
| `MC…` | the instance TLC checks (symmetry, message sets) |
| `ThreadPoolProofs`, `ThreadPoolCounters` | theorems about `ThreadPool` |
| `SimplePoolProofs`, `ConnPoolProofs`, `SockSetupProofs`, `ReactorProofs`, `EchoServersProofs`, `EpollPoolProofs` | theorems about the module they are named after (`SockSetupProofs`: about `TcpConn`, too; `EpollPoolProofs` takes over the theorems about `SimplePool`) |

Names follow the source. An action is a stretch of code that other threads
cannot see the inside of: one critical section, one system call, one callback.

**Faults.** A definition whose name is another's with a suffix
(`AddTestRoom_NoRetest`) is a plausible bug in the code that `AddTestRoom`
stands for; no specification uses it. Put in the place of the original it makes
the property it is listed with in `PROJECT.json` fail, which shows that the
property depends on that line.

### ThreadPool and SimplePool

Workers are the elements of `pool->threads`, tasks are numbered by the call that
submits them. `pc`, `apc`, `adj`, `dst` say where each thread is. A mutex is its
owner; `thread_counter` is only held around one assignment, so such a section is
one step. A thread waiting on a condition variable has pc `"blocked"`; a signal
moves some waiter, a broadcast all, to `"relock"`, and `Wakeup` is the spurious
return POSIX allows. `AdjustSnapshot` and `AdjustBusy` copy what the adjust
thread later decides from. `is_thread_alive` on an exited detached thread may
answer either way. `CreateMayFail` lets `pthread_create` fail unnoticed, as the
code does not look at its result. `threadpool_destroy` is five steps, the ones
that free memory included; once the pool is freed no step is defined and the
model stops. `pthread_mutex_lock(&thread_counter)` in `threadpool_free` is part of
`FreePool`.

In `SimplePool`, `job_push` and `job_pop` are C ints (`Incr` wraps at `IntMax`,
`Cell` takes the sign of its operand as `%` does); the run stays below the wrap,
where an index would leave the array. `addtask` signals in a step of its own,
after the unlock. The workers are detached, so the joins of
`destroy_threadpool` wait for nobody.

### ConnPool

`file` is the process's descriptor table: a number is closed, a connection of
the pool, or another file, and `socket`/`open` return the lowest free one. Every
operation keeps the mutex from beginning to end and is one action, except
`destroy`, whose single `close` calls other threads may interleave with.
`Garbage` is what `malloc` may leave in the arrays and in `terminated`
(`memset(hdl, 0, sizeof(hdl))` clears a pointer's worth). `sckClient_connect`
leaves its socket open when it fails (`leaked`). With `DoublePut` a client may
put the same connection back again; `misused` records that `putConnet` accepted
one, which its test catches only while the number is idle.

### Framing

One direction of one connection. A header has `HdrLen` digits in base `Base`
(4 and 256 in the code, 2 and 2 in the run, which already has lengths that use
both digits and data that look like headers). `read` and `write` move any
positive number of bytes that fits; an interrupted call is retried and changes
nothing. `sckClient_send` refuses empty data and `sckServer_send` does not:
`Roles`. A select that fails is reported by rev as a timeout, as in the code.

### SockSetup

Clients run `connect_timeout` step by step (non-blocking mode, `connect`,
`select`, `getsockopt`, restore) while the kernel completes or refuses the
handshake. Server threads share the listening socket, `select` and `accept` in
two steps. `accept` that fails gives back `Errno` as if it were a descriptor.

### Reactor

`g_events` without the listener's slot, which never changes after `Init`; the
listener's event has its own slot number. The tree is `epoll`, the descriptors
`conn`, of which the process may have `limit`, chosen once. `Scan` is the `for` loop over the next `ScanStep` slots, `EpollWait`
fixes a batch, and each event of it is handled in one step while clients and
clock go on. Events are taken in any order. Ages are distances from now, capped
at `Timeout`; data are numbered units. `rst` means that the client's side has
answered data with a reset: data queued before are still read, and a send gets
an error or, after the client's FIN, SIGPIPE.

### The C++ classes: TcpMsgs, TcpConn

The classes are a rewriting of `socketutil.c`, and their functions take the same
steps; `TcpMsgs` and `TcpConn` name those steps and add what differs. In
`TcpMsgs` this is `recvLen == NULL` in `recvMsg`: `recvLen` is an `int &`, so the
test is whether the caller's variable is 0. `recvLen` is that variable, which a
program is taken to use for all its calls; `recvMsgRefused` is the refusal, which
a variable set to 0, or a message of no bytes (only `sckServer_send` makes one),
leads to. In `TcpConn` it is `closefd`. An errno that passes for a descriptor in
the C library becomes the `m_socket` of a new `TcpSocket` here. One thread uses a
`TcpServer` (`TcpThreads`), because `m_addrCli` is shared without a lock.

### EpollPool

`Pool` is an instance of `SimplePool` whose only caller is `main`; a task carries
the descriptor's number (`fdOf`). A worker's `run` says where it is in `taskRun`:
`read`, `write`, `close` and the `epoll_ctl` are steps of their own, so that
another worker, `main` and clients come in between. The tree is edge triggered:
`edge` holds the registered descriptors with news since they were last reported.
`task->epfd` is never set, so `EPOLL_CTL_DEL` either hits the tree or nothing
(`MayHitTree`). Two history variables mark what the code does not guard against:
`shared` (two workers have had one descriptor at the same time) and `reused` (a
number was given to a new client while an event or a task from its earlier life
was about). `Exit` is as in the echo servers, and `Wakeup` as in the pool.

### The echo servers

`server` picks one of the six programs, `size` its table (`FD_SETSIZE`,
`OPEN_MAX - 1`, `_EVENT_SIZE_`), and `limit` the descriptors the process may still
open; all three are chosen once. `Read` and `Write` are two steps, since a client
may do anything in between, and a blocking `Write` waits until the client takes
everything. The wrappers try again when interrupted, which changes nothing; they
end the process where `perr_exit` does. `Exit` is also what SIGPIPE does: every
connection is closed and every client disconnected. A data
unit carries its client's name and a number, so `toupper` is left out.

* select: `FD_SET` with a number of `FD_SETSIZE` or more writes outside `allset`
  (`overrun`), into whatever lies there, or aborts in a fortified build. The
  server has no step after it (`Defined`), and no property claims anything then.
  The exit for "too many clients" is dead code: `client[]` has a place for each
  number in the set, the listening socket takes one of the numbers, so the set is
  exceeded first (`TableIsWatched` says so, lemma `NeverFull`); it has no step.
* poll: `Garbage` is the uninitialised `revents` of an entry that `poll` has not
  seen. An interrupted `poll` leaves every `revents` at 0 and nothing happens.
* epoll: after every `close` the kernel has already taken the descriptor out of
  the tree, so the `EPOLL_CTL_DEL` that follows fails and is left out.
* `reactor_1.c`: a free place has `fd` 0 in the code and `NoFd` here. With all
  places taken, `initAccept` uses the listener's (`overrun`): from then on an
  event of the listener calls `readData` for another connection (`XReadWaits`) or
  is skipped (`XSkip`).
* threads: a connection whose `pthread_create` failed stays open and unserved.

## 3. Runs

| Run | Checks | States | Shows |
|---|---|---|---|
| `tp_safe` | `TypeOK`, `CountersExact`, `BlockedAdderMeansFull`, `AcceptedIsKept`, `ImplementsTaskQueue` | 2.8 M | safety of the dynamic pool with growing, shrinking and destroy |
| `tp_live` | `NobodySleepsOnWork`, `QueuedTaskRuns`, `AddReturns` | 14 k | no lost wakeup in a pool of fixed size |
| `tp_retire` | `QueuedTaskRuns` | violated | a retiring worker uses up the signal for a task |
| `tp_free` | `StoppedBeforeFree` | violated | destroy frees what threads still use |
| `sp_pool` | `TypeOK`, `WorkersCoverTasks`, `CallersCoverRoom`, `ImplementsTaskQueue`, `QueuedTaskRuns`, `AddReturns` | 30 k | safety and liveness of the simple pool until shutdown |
| `ep_pool` | `EdgeNotLost`, `OwnConnection`, `EchoOrder` | 1.7 M | the simple pool fed by an edge-triggered epoll loop |
| `es_serv` | `TableIsWatched`, `ReportIsFresh`, `ImplementsEcho`, `Served` | 190 k | six echo servers keep their books, echo in order and forget nobody |
| `cp_pool` | `TypeOK`, `ExclusiveOwnership`, `Conservation`, `SocketsAccounted`, `StackWellFormed` | 3.6 M | ownership and bookkeeping of connections |
| `rx_safe` | `TypeOK`, `StatusIsInTree`, `BatchIsFresh`, `EchoInOrder` | 1.1 M | the reactor under short sends, resets, signals, timeouts |
| `rx_live` | `SilentIsClosed`, `Answered` | 122 k | idle clients are closed wherever their slot is, data answered, also of a client that waits for a descriptor |
| `fr_msgs` | `StreamInStep`, `ImplementsChannel`, `SentArrives`, `SendReturns` | 328 k | messages whole and in order through partial I/O, failures and refused calls, in C and C++ |
| `su_sock` | `ConnectedIsUsable`, `ServesOwn`, `ConnectEnds`, `AcceptEnds` | 305 k | connects and accepts, timeouts and failures included, in C and C++ |

To repeat one: `tlc -config tp_safe.cfg MCThreadPool`.

**Bounds, and why they are enough.**

* `tp_safe`: one to two workers, a ring of two, three tasks, two callers. The
  ring wraps, a caller finds it full while the other adds, the pool grows,
  shrinks and grows again into a slot whose worker exited, and `Vary` 2 leaves a
  retirement over. `tp_live` uses two workers and a ring of one, so that both
  condition variables have waiters at once. `tp_retire` needs a growing pool and
  a third task.
* `sp_pool`: two workers, two callers, a ring of two, four tasks: full and empty
  with two threads on either side.
* `cp_pool`: two connections, two clients, four descriptors (one beyond the
  standard input and the pool's own, so that other code can take a number).
* `rx_safe`: two slots tested one per pass, so that `checkpos` wraps and a
  connection waits for its turn; two descriptors for two clients, so that the
  number and the slot of the first serve the second when they are free again.
* `rx_live`: two slots tested one per pass, so that a scan that does not come
  round to the second would leave its client connected for ever. The first client
  may stop reading and never closes, the second may close (`Stoppers`,
  `Closers`). The third (`Late`) comes when both slots are taken: with two
  descriptors (`limit`) it waits in the backlog while `accept` fails, until one of
  the others is closed, and with three it may be stranded.
* `fr_msgs`: three calls, messages of zero to three bytes, a connection of two
  bytes, so that every frame is cut and a sender waits for the receiver.
* `su_sock`: a backlog of one for two clients and two threads.
* `ep_pool`: two workers, a queue of one, so that `main` waits for room; one
  descriptor for two clients, so that its number is always used again; four
  tasks, of which two are enough to be about one descriptor. One short write or
  reset (`MaxFaults`). Two connections are never open at once in this run; the
  theorems of `EpollPoolProofs` are about any number of them.
* `es_serv`: one and two descriptors, tables of one place, which fills up, and of
  three, in which select can have two connections (their numbers, 1 and 2, must
  stay below `FD_SETSIZE`). Two clients talk; the third (`Late`) comes when one of
  them is gone and the other still connected, so that a place and a number below
  or above one in use are taken again, which is what `maxi`, `maxfd` and the
  countdown of reports have to keep up with; it sends nothing, but is to be
  disconnected when it ends. To `reactor_1.c` it comes once the table has
  overflowed: it is what makes `reactor_1.c` use the listener's lost place. Two
  units read one at a time, so that a level-triggered server is woken twice and
  the edge-triggered one has to read on. The first client may be reset and may
  stop reading (`Resets`, `Stoppers`).

**Deadlock** is checked in the runs of `Reactor`, whose loop never stops. In
the others the bounded number of calls, a failed init or a destroyed pool end a
behaviour.

**Fairness.** Threads: strong fairness of each thread, because a mutex that is
free again and again is eventually obtained by a thread that asks for it; calls
are never forced. Reactor: weak fairness of the loop's three steps
(`epoll_wait` returns after a second at the latest) and of the clock. Framing:
calls go on while they can, the receiving program keeps calling rev, and select
does not fail for ever while bytes wait (strong fairness of `ReadTimeout`). No
fairness of closing, failing or of malloc. Setup: calls in progress and the
handshake go on; no failure has to happen; a thread that serves a connection
eventually closes it. Echo servers: weak fairness of the server's loop, and of
each thread of the thread-per-connection server; clients do as they like, no
signal has to come and no call to fail.

**What the properties leave out on purpose.** Each exception is a state the
program reaches and in which the property does not hold; where it is marked by a
history variable, the run goes on behind it.

* `AcceptedIsKept` and the liveness of the simple pool end at shutdown, after
  which the code drops tasks.
* `ExclusiveOwnership`, `Conservation` and `SocketsAccounted` end when the pool
  has accepted a connection from a client that did not hold it.
* `StreamInStep` and `ImplementsChannel` end at the first rev that has no memory
  for the data. `SentArrives` and `SendReturns` except a C++ receiver whose
  `recvLen` is 0.
* `ServesOwn` ends at the first failing accept: `accept_timeout` returns errno
  (`socketutil.c:629`, `TcpServer.cpp:120`), the caller takes the positive number
  for a descriptor, and may then serve and close another thread's connection,
  although the comment at `socketutil.c:593` promises -1.
* `AcceptEnds` excepts a thread that waits in `accept` itself, behind a `select`
  whose connection another thread has taken (`socketutil.c:624`): the time limit
  does not hold for it, although the comment at 622 says it will not block.
* `SilentIsClosed` and `Answered` except connections accepted into a full table
  (`epoll_loop.c:116`): no slot holds the descriptor, so it stays open and
  unserved, although the comment at 242 says that a silent client is closed.
* `OwnConnection` ends at `reused`, the order of `EchoOrder` at `shared` or
  `reused`: from then on clients do get each other's data, or their own in the
  wrong order. That a connection is closed only at its end is said while the
  process runs.
* `TableIsWatched`, `ReportIsFresh` and `Served` end at `overrun` and with the
  process. `Served` also excepts a client that does not read; everybody, while
  such a client blocks a server of one thread; a `poll` server that waits in a
  `Read` because of `Garbage`; and a connection without a thread.
* `ImplementsEcho` allows the edge-triggered server, whose `Write` does not wait,
  to leave out what a client does not take in time; every server, to stop
  (`Stop` of `EchoService`: an error that `wrap.c` does not forgive, "too many
  clients", or SIGPIPE), which disconnects everybody whether they had ended or
  not; and the select server, to do anything once `FD_SET` has written outside
  `allset` (`Break`).

A server that has ended is owed nothing: the properties of the reactors, of the
pool with epoll and of the echo servers speak of the process while it runs.

## 4. Disagreements between code and comments

1. *A retiring worker takes the signal meant for a task* (`threadpool.c:189`,
   run `tp_retire`). `adjust_thread` asks for `DEFAULT_THREAD_VARY` retirements
   even when fewer workers wait; the rest of the count is left over and hits the
   worker that `threadpool_add` wakes, contrary to the comments at 163 and 188.
2. *Destroy does not stop the pool* (`threadpool.c:328`, run `tp_free`). The
   joins are commented out; `pthreadpool.h:28` says it stops and destroys.

The exceptions listed above are further places where code and comment differ;
they are conditions of the properties and not runs of their own.

## 5. Proofs

The theorems hold for all values of the constants, under the named assumptions
of the modules they are about: sizes are naturals, those of tables, rings and
thread sets not 0, `MinThr <= MaxThr`, switches are Booleans, and there is a largest
limit on the descriptors of a process (`SizesAssumption` of `EchoKernel`). The others are
conventions of the models: callers are not workers (`AdderAssumption`, in
`SimplePool` also that there are finitely many of them; `MainAssumption` of
`EpollPool` says it of `main`), clients are not the value that stands for nobody
(`ClientsAssumption`), and `malloc` leaves ints in
the arrays of the connection pool, 0 among them (`GarbageAssumption`). TLC
evaluates all of them in the runs.

| Module | Theorem | States |
|---|---|---|
| `ThreadPoolProofs` | `Safety` | `Spec => []SafetyInv` |
| | `TypeCorrect` | `Spec => []TypeOK` |
| | `BlockedOnlyWhenFull` | `Spec => []BlockedAdderMeansFull` |
| | `Refinement` | `Spec => ImplementsTaskQueue` |
| | `NothingDropped` | `Spec => []AcceptedIsKept` |
| `ThreadPoolCounters` | `CountersAreExact` | `Spec => []CountersExact`, if `CreateMayFail = FALSE` |
| | `SignalNotWasted` | `Spec => []NobodySleepsOnWork`, if also `MinThr = MaxThr` |
| `SimplePoolProofs` | `SimpleSafe` | `Spec => []PoolInv` |
| | `SimpleTyped` | `Spec => []TypeOK` |
| | `WorkersWoken`, `CallersWoken` | `Spec => []WorkersCoverTasks`, `Spec => []CallersCoverRoom` |
| | `SimpleRefinement` | `Spec => ImplementsTaskQueue` |
| `ConnPoolProofs` | `PoolSafe` | `Spec => []PoolInv` |
| | `PoolTyped`, `PoolStack` | `Spec => []TypeOK`, `Spec => []StackWellFormed` |
| | `PoolOwns` | `Spec => []ExclusiveOwnership` |
| | `PoolConserves`, `PoolAccounts` | `Spec => []Conservation`, `Spec => []SocketsAccounted` |
| `SockSetupProofs` | `SetupSafe` | `TcpSpec => [](SetupInv /\ TypeOK)` |
| | `SetupConnects`, `SetupServes` | `TcpSpec => []ConnectedIsUsable`, `TcpSpec => []ServesOwn` |
| `ReactorProofs` | `ReactorSafe` | `Spec => []ReactorInv` |
| | `ReactorTyped` | `Spec => []TypeOK` |
| | `ReactorTree`, `ReactorFresh` | `Spec => []StatusIsInTree`, `Spec => []BatchIsFresh` |
| | `ReactorEchoes` | `Spec => []EchoInOrder` |
| `EchoServersProofs` | `EchoServersSafe` | `Spec => []EchoServersInv` |
| | `TablesWatched`, `ReportsFresh` | `Spec => []TableIsWatched`, `Spec => []ReportIsFresh` |
| | `ServersEcho` | `Spec => ImplementsEcho` |
| `EpollPoolProofs` | `EpollPoolSafe` | `Spec => []ServerInv` |
| | `EdgesKept`, `ConnectionsOwn` | `Spec => []EdgeNotLost`, `Spec => []OwnConnection` |
| | `EchoesOrdered` | `Spec => []EchoOrder` |

**The dynamic pool.** `TypeOK` is not inductive: that `queue_size` stays within
`0 .. QueueMax` needs the test made under the lock to hold still when it is acted
on (`RoomInv`), and that needs the lock to be owned by the thread inside
(`LockInv`). What is in the ring needs the rear index to be `queue_size` cells
after the front one and the cells between to hold tasks (`RingInv`), and what
threads put in and take out needs `HandInv`. `SafetyInv` is the conjunction,
proved one action at a time. The lemmas `RingPut` and `RingTake` are the
arithmetic of the ring, `PutPending` and `TakePending` what they mean for the
sequence of waiting tasks. The refinement also needs that a task is in one place
only (`OnePlace`) and that numbers are new when they are given out (`GivenOut`):
`TaskInv`, inductive relative to `SafetyInv`. Each action then maps to `Submit`,
`Start`, `Finish` or a stutter. `NothingDropped` follows from the same facts with
the history variable `accepted`. `ThreadPoolCounters` relates the counters to
cardinalities of sets of workers; that `live_thr_num` never exceeds `max_thr_num`
rests on the test of the loop in `adjust_thread` being made under the lock, not on
the snapshot. `SignalNotWasted` needs the exact counters (there is a worker) and
`StillEmpty` (a worker on its way to sleep saw an empty queue and still holds the
lock). Its hypothesis `MinThr = MaxThr` is necessary: in a pool that shrinks, the
worker that a signal wakes may retire, which is what the run `tp_retire` shows.

**The simple pool.** `PoolInv` has the same parts. `Counts` says what an int index
that is only ever incremented is worth after the wrap: with one cell it never
matters, with more the only negative index that is used is `INT_MIN`, and only if
`max_job_num` divides it. A step that would use any other is not in the model
(it is outside `tasks`), so the theorems speak of the pool up to that call. The two
covering invariants are counting arguments: each action moves at most one
thread in or out of the threads that are awake, or sending a signal, and
`CountMore` and `CountLess` follow that thread.

**The connection pool.** `PoolInv` adds to the checked properties where each call is
(`CallsInv`) and, while destroy closes one descriptor after the other and others
are opened in between, which entries are still to be closed (`ClosingInv`). Who owns
which descriptor (`Owned`) is claimed only until a client has put a connection back
twice (`misused`), as in the properties.

**Connection setup.** `ClientIs` says what `connect_timeout` knows of its socket at
each of its steps; in particular the blocking mode is restored on every path on
which it was changed. Proved of `TcpSpec`, of which the C functions are a part.

**The reactor.** `StatusIsInTree` and `BatchIsFresh` are inductive with three more
facts: a connection has one descriptor (`ConnInv`), the array of events is empty
while `main` looks for idle connections (`LoopInv`), and a node in the tree has a
descriptor (in `InTree`). The heart is `OneEvent`: two events of one node in the
array are the same event, so a callback that has re-armed or freed its node leaves
no stale event behind. The lemmas from `SetIs` to `CloseDelIs` compute what the
sequences of `eventdel`, `eventset`, `eventadd` and `close` in the callbacks do to the
table and the tree. `EchoInv` says that a buffer holds the last units read, and that
what came before them was sent or dropped; `RunAppend` and `RunSplit` are the facts
about sequences that `senddata` needs.

**The echo servers.** `KernelInv` is common to the six: an open connection has one
descriptor, only an open one is written to, nothing is read that was not sent. The
lemmas from `AcceptStep` to `LosesStep` say what each call of `wrap.c` does to it, once
for all servers. On top of it each server has its own invariant (`ServerInv`):

* select and poll: with the checked property, that the listener is looked at first,
  while everything reported is still open (`PassInv`). An `Accept` in the middle of a
  pass fills a free place, which may be one below `maxi` with a number that was not
  reported; `PassAccepts` shows that the countdown is then still right.
* epoll: nobody but the loop takes something to read away. epoll_et: the descriptor
  being read is not among the reports.
* `reactor_1`: `XInv`, which holds even after the table has overflowed, says that a
  descriptor has one place, with a callback that fits; `XTreeInv` that the tree is made
  of the places in use, and that no report is left for a place that is being served.

For `ServersEcho`, `Follows` says that what a server holds for a client (in the
buffer of a call, or in a place of `myevents`) are the units after the last one
the client got, up to the last one read: exactly those, unless units were lost
by a reset or by epoll_et. It is kept by every call (`PromiseTakes`, `PromiseGives`),
and makes a `Write` a step `Give` of `EchoService`. That takes care of a server that
runs on (`EchoGoesOn`); `Exit` is `Stop` (`EchoStops`), and an `FD_SET` outside `allset`
is `Break`. `Follows` holds for `reactor_1` behind an
overflow, too: it may then wait for the wrong client, but never answers one with
another's data.

**The pool with epoll.** The pool's part is not proved again: `SimplePoolProofs` is
instantiated with `main` as its only caller, `SameMain` and `SameWorker` show that
the server takes only steps of that pool, and its `PoolInv` carries over, joined
by what a single caller adds: the tasks are numbered in the order of the calls
(`Numbered`). `PoolView` is what the rest needs to know of it: which tasks wait,
which a worker has, and that these are numbers `main` has given a descriptor.
`ServerInv` ties the three sides together: a worker holds data only between `Read`
and `Write` (`RunInv`), an open connection has one descriptor and the tree only
open ones (`ConnInv`), nothing is read that was not sent (`PeerInv`). Each action
is shown to keep `ServerInv` and to have an effect with a name (`Accepts`,
`Reads`, `Writes`, `Closes`, ...); the rest is argued from these effects:

* `EdgeNotLost` is inductive over `ServerInv` in the form `Heard`. The step to look at
  is the end of a task after `EAGAIN`: the worker leaves only when nothing is
  readable, and what arrives later makes an edge of its own.
* `OwnConnection` needs `PlaceOwn`: what a worker has in `buf` was sent by the client
  that its descriptor stands for *now*, or the descriptor is closed; it closes only
  a client that is settled; behind `close` nobody has the number. `Accept` is the
  one action that could spoil this, and then sets `reused`. Two workers on one
  descriptor do not: they may race for `close`, which the proof allows.
* `EchoOrder` rests on `Once` (whatever was read is in the buffer of one worker or
  at a client, once; true without any proviso) and on `Ordered` (a worker that is
  about to write is the only one on its descriptor, and has what comes after all
  the client got). `StepKinds` reduces the steps to three: those that move no data
  (`Calm`), `Read` and `Write`.

Only model checked: all liveness properties (they need fairness);
`StreamInStep` and `ImplementsChannel` of `Framing`, which rest on folds over byte
strings and would need induction over sequences; and `StoppedBeforeFree`, which is
violated.

## 6. Not modelled

`pipe_epoll.c` (a parent prints what a child writes into a pipe; no state);
`Readn`, `my_read`/`Readline` and `Connect` of `wrap.c`, which no program of the
repository calls (`Readline` keeps its buffer in static variables, so two
descriptors or two threads would share it); `Socket`, `Bind`, `Listen` and
`tcp4bind`, which run before the servers' loops; `disConnect` does not forget
`m_socket`, and programs that use a `TcpSocket` after it are not modelled;
`socketlog.c` (I/O only); the demonstration `main`s of the pools; the getters of
the pools, which read one counter under its lock; argument checks for NULL
pointers; failure of `malloc` and of mutex initialisation during the creation of
a pool; failure of `fcntl`. In the reactor, `buf[len] = '\0'` writes one past the
buffer when a read fills it: the buffer's bytes are abstracted to units.

## 7. Plan

Done: the two thread pools and their abstract queue; the pool with epoll; the
connection pool; the socket library in two modules with the abstract channel,
and the C++ classes on top of them; both reactors; the small servers with the
abstract echo service; the safety proofs of both pools, of the connection pool, of
connection setup, of both reactors, of the small servers and of the pool with
epoll.

Next: a composition of `ConnPool` with `Framing` (a connection whose stream is
out of step and is put back as valid), and `Readline` once something calls it.

Every safety property the passing runs check is proved, but for those of
`Framing`.
