# OugeNetLib: specification, model checking and proofs

OugeNetLib is a small C++ network library built around the reactor pattern: one
event loop per thread, non-blocking sockets, callbacks, and closures handed
between threads. This directory holds TLA+ modules translated from its source,
the TLC configurations that check them on small instances, and proofs checked by
TLAPS.

Names in the modules are those of the code (`pendingFunctors_`, `makeSpace`,
`cancelInLoop`). `PROJECT.json` maps each definition to the lines it stands for.

## 1. The system

| Component | State | Operations | Interacts with |
|---|---|---|---|
| `EventLoop` | `looping_`, `quit_`, `callingPendingFunctors_`, `pendingFunctors_` (mutex), the eventfd | `loop`, `quit`, `runInLoop`, `queueInLoop` | everything: other threads queue functors, channels call back |
| `Buffer` | vector, `readerIndex_`, `writerIndex_` | `append`, `retrieve*`, `prepend`, `unwrite`, `shrink`, `ensureWritableBytes`, `readFd` | input and output of `TcpConnection` |
| `TimerQueue`, `Timer`, `TimerId` | two ordered sets of timers, the timerfd, the set of timers cancelled during callbacks | `addTimer`, `cancel`, `handleRead` | `EventLoop::runAt/runAfter/runEvery/cancel`; wall clock and monotonic clock |
| `Channel`, `EPollPoller` | interest, reported events, index, map of channels | `enable*/disable*`, `remove`, `handleEvent`, `poll` | one channel per socket, eventfd and timerfd |
| `TcpConnection` | `state_`, `reading_`, output and input buffer, its channel | `send`, `shutdown`, `forceClose`, `forceCloseWithDelay`, `startRead`, `stopRead`, `connectEstablished`, `connectDestroyed`, event handlers | io loop, other threads, its owner |
| `TcpServer`, `Acceptor` | map of connections, listening socket, reserve descriptor | `start`, `newConnection`, `removeConnection`, `Acceptor::handleRead`, destructors | base loop and io loops |
| `TcpClient`, `Connector` | the one connection, `connect_`, connector state, back-off | `connect`, `disconnect`, `stop`, retry, destructor | loop, timers |
| `EventLoopThread(Pool)` | thread, loop pointer (mutex, condition) | `startLoop`, `getNextLoop`, destructor | creates the io loops |
| `ThreadPool` | queue, two conditions, `running_` | `start`, `run`, `take`, `stop` | threads that call `run` |
| `CountDownLatch` | count, condition | `wait`, `countDown` | any threads |
| sockets, addresses, `Timestamp`, `StringPiece` | none of their own | wrappers | system calls |

What is hard to get right, and hardly reached by a test:

* a functor queued, or a quit requested, just as the loop thread goes to sleep;
* functors queued from functors, from callbacks, before `loop()`, after `quit()`;
* the boundary cases of `makeSpace` and of the two-part read in `readFd`;
* timers that are added and cancelled from timer callbacks, from their own
  callback, or from another thread, with addresses that are used again, while
  the wall clock is set;
* closing a connection: hang-up, end of file, `forceClose`, a delayed
  `forceClose`, `shutdown` from another thread and the destruction of the owner
  may all happen to the same connection, and its last reference is dropped two
  threads later;
* output that is partly written directly and partly buffered, and the FIN that
  has to wait for it;
* a client that is stopped, or started again, between two steps of an attempt:
  while its channel waits to be freed, while a retry timer is set, or while a
  closed connection is being replaced; and a client that is destroyed there;
* channels that handlers remove and destroy while `loop()` goes through the list
  of active ones, descriptors that pass from one channel to another, and more
  ready descriptors than `epoll_wait` has room for;
* a thread whose loop is published, asked to quit, and joined, in any order of
  these steps against the thread's own;
* a connection of a server with io threads: accepted in one loop, established in
  another, erased in the first, destroyed in the second;
* `accept` when descriptors run out, and the reserve descriptor that other
  threads may snatch meanwhile;
* `notify_one` for several sleepers on two conditions, tasks that run tasks, and
  `stop` in between.

`PROJECT.json` lists these as hazards, each at its line.

What makes each component correct:

* EventLoop: no lost wake-up, functors run once and in order, `quit` ends the loop;
* Buffer: a byte queue in bounded memory, indices inside the vector;
* TimerQueue: the two sets agree, each Timer has one owner, a waiting timer has
  an armed timerfd and does not wait for ever, a cancellation ends the timer it names
  and no other;
* TcpConnection: bytes in order, write interest exactly when bytes wait, FIN
  after the data, one "up" and one "down" report, no failed assert, no leak;
* Connector and TcpClient: one attempt or connection at a time, no socket lost,
  back-off within its limits, a `stop` that holds and comes to rest, a Connector
  that outlives its functors and is freed;
* Channel and EPollPoller: interest, index, map and kernel agree; no destroyed
  channel is reached; every ready channel is handled;
* EventLoopThread(Pool): `start` returns with loops that exist, the destructor
  with threads that are joined, loops are handed out in turn;
* TcpServer and Acceptor: each connection is established, erased, destroyed and
  freed once, no descriptor is lost, waiting clients are served;
* ThreadPool and CountDownLatch: no lost notification, tasks taken in order
  and begun once, `stop` and `wait` return.

## 2. Modules

| Module | What it is |
|---|---|
| `FunctorQueue` | abstract: a FIFO queue of functors, each submitted and called once |
| `EventLoop` | `net/EventLoop.cc`; implements `FunctorQueue` |
| `EventLoopProofs` | TLAPS proofs about `EventLoop` |
| `ByteQueue` | abstract: a sequence of bytes with operations at both ends |
| `Buffer` | `net/Buffer.h`, `net/Buffer.cc`; implements `ByteQueue` |
| `BufferProofs` | TLAPS proofs about `Buffer` |
| `TimerQueue` | `net/TimerQueue.cc`, `Timer`, `TimerId` |
| `TimerQueueProofs` | proofs about `TimerQueue` |
| `TcpConnection` | `net/TcpConnection.cc`, its `Channel`, its entry in `EPollPoller`, its `TcpServer` |
| `TcpConnectionProofs` | proofs about `TcpConnection`, the refinement of `ConnectionLifecycle` among them |
| `ConnectionLifecycle` | abstract: what a connection and its server promise one another; implemented by `TcpConnection` and, for each connection, by `TcpServer` |
| `Connector` | `net/Connector.cc` and `net/TcpClient.cc` |
| `ConnectorProofs` | proofs about `Connector` |
| `Poller` | `net/Channel.*`, `net/EPollPoller.cc` and the dispatch in `EventLoop::loop` |
| `PollerProofs` | proofs about `Poller` |
| `EventLoopThreadPool` | `net/EventLoopThread.cc`, `net/EventLoopThreadPool.cc` |
| `TcpServer` | `net/TcpServer.cc`, `net/Acceptor.cc`; extends `EventLoopThreadPool` |
| `TcpServerProofs` | proofs about `EventLoopThreadPool` and `TcpServer` |
| `TaskQueue` | abstract: tasks taken from a queue in order by workers that begin them later |
| `ThreadPool` | `base/ThreadPool.cc`; implements `TaskQueue` |
| `CountDownLatch` | `base/CountDownLatch.h` |
| `TaskBatch` | a `ThreadPool` whose tasks count a `CountDownLatch` down |
| `TaskBatchProofs` | proofs about `ThreadPool`, `CountDownLatch` and `TaskBatch` |
| `MCEventLoop`, `MCBuffer`, `MCTimerQueue`, `MCTcpConnection`, `MCConnector` | instances for TLC |

Some definitions stand just before the one they are a faulty variant of
(`MakeSpaceIgnoresPrepend`, `shutdownAtOnce`, ...). They are not used by the
specifications. Substituted for the original, each makes the property that
`PROJECT.json` pairs it with fail, which shows that the property can fail.

### EventLoop

The loop thread is sequential; `pc` is its place: outside `loop()` (`idle`), at
the loop's test (`check`), in `epoll_wait` (`poll`), going through the active
channels (`handle`), in a channel's callback, in `doPendingFunctors` (`pending`),
in a functor. User code runs at `idle`, `callback` and `functor`, where it may
call `queueInLoop`, `runInLoop` and `quit`. Another thread takes two steps per
call, since the mutex is released before `wakeup()` and `quit_` is set before it.

The eventfd's counter is abstracted to readable or not: `handleRead` resets it
and `epoll_wait` tells nothing more. All other channels are one channel that may
become readable at any time. A functor is submitted at most once, which only
names the submissions.

### Buffer

A method is an operator on buffer values, so that `append`, `shrink` and `readFd`
are built from the same pieces as in the code; an action applies it. Its guard is
the method's assert about its argument. The sizes `kCheapPrepend`, `kInitialSize`
and `sizeof extrabuf` are constants. Integers are appended, prepended and read as
byte strings of their width; `findCRLF` and `findEOL` change nothing.

### TimerQueue

Timers are addresses, used again after `delete`; a `TimerId` is an address and a
sequence number. `timers_` and `activeTimers_` are the two sets of the code.
`handleRead` is cut where user code runs. `PollReports` is the poll that finds the
timerfd readable; handlers of other channels may run before `HandleRead` (read the
timerfd, `getExpired`), and when they armed the timerfd again its read only fails,
with `EAGAIN`. Then come `RunTimer` and `CallbackReturns` for each expired timer, then
`Reset`. Other threads queue functors, which run in order: that is what
`LoopIsFifoExecutor` proves of `EventLoop`. A `TimerId` read from a deleted timer
may hold any number.

A unit of time is 100 microseconds, the least delay `howMuchTimeFromNow` allows.
`now` is the wall clock, which may be set (`ClockStep`); the timerfd counts down
by itself. Times saturate at `Limit`.

### TcpConnection

One connection of a `TcpServer` with a thread pool: the io loop, other threads
that hold a `TcpConnectionPtr`, the server in its base loop, and the peer.

* The io loop alternates between reported events and one batch of functors, as
  `EventLoop::loop` does. Handlers that end in a user callback set `running`;
  user code may then call any method. `handleClose` and `connectDestroyed` go on
  after their callback (`CloseCallback`, `DestroyedCallback`).
* `updateChannel` is `Channel::update` with `EPollPoller::updateChannel`, the
  addition to epoll of a `kDeleted` channel without interest included.
* epoll is level-triggered: `mustReport` is what it has to report, `mayReport`
  what it may. `EPOLLHUP` comes whether of interest or not. `HandleHup`, the
  three outcomes of `handleRead`, and `HandleWrite` follow the order of
  `Channel::handleEventWithGuard`.
* Each `forceCloseWithDelay` is a timer of its own with a weak pointer (`delayed`
  counts them, up to `MaxDelayed` at one time).
* `shutdown` and `forceClose` in another thread test `state_` (`CallerChecks`)
  and set it (`CallerCloses`) in two steps, because `state_` is a plain variable.
* References are counted: the server's map, calls under way to the server,
  threads, and functors other than `startRead` and `stopRead`, which are bound to
  `this`. `Destruct` runs when there is none, with the asserts of
  `~TcpConnection` and `~Channel`.
* A failed assert, or a use of a destroyed object, sets `failed` and stops the
  program.

Abstracted: message contents (two distinguishable bytes each), what is read
beyond data, end or error, names and logging, the growth of the buffer (see
`Buffer`). Taken as given: the memory behind a message sent from another thread
does not change until it is sent. The server's loop is another thread's; a server
without a thread pool calls `connectEstablished`, `removeConnectionInLoop` and
`connectDestroyed` (from its destructor) on the spot instead of queueing them.

### Connector

The `Connector` and its `TcpClient` in one loop, with user code in the loop thread
(`LoopOps`) and in another thread (`CallerOps`). The loop alternates between
reported events and one batch of functors. The methods that run in the loop thread
are operators on `state_`, `retryDelayMs_`, `channel_`, `fds` and `timers`, because
`startInLoop` is reached in four ways: from `connect`, as a functor, from the retry
timer and from `restart`. `channel_` is `removed` from `removeAndResetChannel`
until the functor `resetChannel` runs. `removeConnection` is cut between its test
and `restart` (`restarting`), where another thread may call `stop`. `fds` counts
the sockets the Connector answers for, from `connect` opening one to the `close` in
`retry` or in `handleWrite`, or to the TcpConnection that takes it over, each where
the code has it; `stopped` is a history variable.

`Destruct` is `~TcpClient` in the loop thread: with a connection it takes itself
out of the close callback, without one it stops the Connector and sets a timer of
one second that holds it (`keeper`). `NoAssertFails` includes what that hack is
for: when the last reference to the Connector goes, its channel is gone and no
functor with a raw pointer to it is queued. A client with a connection is
destroyed only when no such functor is queued (`DestroyBusy` = `FALSE`); with
`TRUE` the model shows `resetChannel` left behind on a freed Connector when the
client is destroyed in the iteration in which the attempt succeeded.

Abstracted: the errors of connect(2) are under way, retry, give up; an event is
success or failure; delays are 1, 2, 3 with the limit at 3. The two flags that
`stop` and `connect` set are set together. Taken as given: callbacks take less
than the 500 ms of the first delay, so a timer does not expire in the iteration
that sets it, nor in a next one that does not block, and two iterations take less
than the second of `removeConnector`.

### Poller

Several channels, addresses that are used again, in one loop. `LoopStep` is
`EventLoop::loop`: `PollReports` fills `activeChannels_` with as many ready
entries as `events_` has room for, in any choice `epoll_wait` may make, and
doubles `events_` when it was full; `HandleEvent` takes the next active channel
and runs its handler, where user code may create, update, remove, tie and destroy
channels (`UserStep`), as it may in a functor. `epoll` is the kernel's list,
`channels_` the map, `index_` and `addedToLoop_` the channel's own records. A new
channel may have any descriptor, also another one than the channel that had its
address before; whether it is tied only decides when it may be destroyed. The
asserts decide which of these calls are allowed: one whose assert fails sets
`failed` and stops the program. Taken as given: a descriptor is not closed while a
channel is registered for it. The handlers of one poll run in any order.

### ThreadPool, CountDownLatch and TaskBatch

A critical section is one step; waiting on a condition is going to the wait set
and coming back to the test, so that a notification, a spurious wake-up and a
notification that comes too early are all the same move. `notify_one` picks any
sleeper. `take` removes a task under the lock and `runInThread` begins it outside
(`Take`, `BeginTask`): between the two a worker may be overtaken by another, so the
pool promises the order of taking and that each task begins once, not the order of
beginning. `runInThread` reads `running_` outside the mutex, which is a step of its
own (`CheckRunning`). `TaskBatch` lets tasks count down as they return and lets
threads wait for all of them. Tasks may call `run` themselves, but not on a
bounded queue (`NestedSizes`): there all workers may sleep in `run` while only they
could make room, which the model shows when `NestedSizes` admits it. Nor does
`stop` wake callers that sleep in `run` on a full queue; `StopReturns` and
`NotifiesSuffice` say what still holds for them.

### EventLoopThreadPool

The owner's thread goes through `start` (`StartLoop`, `WaitForLoop`) and the
destructor (`QuitThread`, `WakeupThread`, `Join`) for one thread after the other;
each thread publishes its loop, enters `loop()`, which resets `quit_`, polls, runs
functors and leaves. `startLoop` begins with a call through the NULL `loop_`,
which either crashes or reads a thread id that differs; both are steps.

### TcpServer

The base loop and the io loops, each with the functors it has taken (`batch`) and
those still queued (`pending`). `functors` are those whose copies, and with them
their references to connections, live until the batch is done, so that a
connection is freed (`frees`) in the thread that drops its last reference.
`Accept`, and `AcceptFails`, `AcceptOnReserve`, `CloseClient` and `ReopenReserve`
for the way around `EMFILE`, work on a limited number of descriptors, which the
rest of the program also takes and closes between the steps. `started_` has no
initialiser (`net/TcpServer.h:61`): `exchanged` may hold 0 or 1 at first.
`net/TcpServer.cc:21` has a misspelled argument (`olllption`) and does not compile;
the option it stands for decides nothing in the model.

A connection is reduced to its life, which `TcpConnection` is shown to implement
(`ImplementsLifecycle`) and which every connection of the server follows
(`ConnectionsImplementLifecycle`). A half-closed connection is only in
`TcpConnection`. A server is not destroyed while `start` is under way, and one with
threads only when its connections are gone and the io loops rest (`MayDestroy`).
With `DestroyBusy` = `TRUE` the model reaches functors that run after their server
or are dropped with their loop (`failed` becomes `serverGone` or `destructor`).

## 3. Runs

| Run | Shows | Bounds |
|---|---|---|
| `event_loop` | `NoLostWakeup`, `CallbackFunctorsRunBeforeNextPoll`, `QuitEndsLoop`, `QueuedFunctorsRun`, `ImplementsFunctorQueue` | two threads, three functors: one running, one in the batch, one arriving |
| `buffer` | `MakeSpaceSound`, `CapacityBounded`, `MethodsDoTheirOperation`, `ImplementsByteQueue` | vector of 2 + 3 bytes, content up to 4, calls up to 2: both branches of `makeSpace`, reader index below, at and above `kCheapPrepend`, growth several times |
| `timer_queue` | `TimersConsistent`, `CancelExact` | two addresses, two timers (an address is used again), one other thread, one setting of the clock, times up to 2 |
| `timer_queue_live` | `TimerfdArmed`, `TimersExpire` | two timers, times up to 3 so that one delay is longer than another, one setting of the clock, no other thread |
| `tcp_connection` | `BytesInOrder`, `WriteInterest`, `NoAssertFails`, `ImplementsLifecycle`, `ShutdownSendsFin`, `ClosedIsDestroyed` | two messages of two bytes, three pending functors, two delayed closes at one time, closing only from the io loop, sends from another thread too |
| `tcp_connection_all` | `TypeOK`, `BytesInOrder` with every operation from every thread and a server that may be destroyed | two messages, one pending functor when user code queues one |
| `connector` | `NoAssertFails`, `AttemptsConsistent`, `StopHolds`, `StopQuiesces` | reconnection enabled; one `connect` and three other calls, two connections, `stop` and the destructor only in the loop thread |
| `poller` | `NoDanglingChannel`, `PollerConsistent`, `ReadyChannelsHandled` | two channels, two descriptors, room for one event, so that the list has to grow |
| `thread_pool` | `NotifiesSuffice`, `ImplementsTaskQueue`, `OnlyStopLeavesTasks`, `StopReturns`, `LatchOpens` | two workers, two producers, three tasks, queues of one, two and unbounded, two waiters: two sleepers on each condition |
| `tcp_server` | `ServerConsistent`, `RoundRobin`, `DescriptorsKept`, `ConnectionsImplementLifecycle`, `BacklogServed`, `ClosedConnectionsFreed`, `StartAndDestructorReturn` | no, one and two io threads, three clients, two descriptors and the reserve, one that other threads may hold: `next_` wraps, `EMFILE` happens with and without a race |
| `tcp_shutdown_race` | violation | one message, `shutdown` in another thread |
| `start_loop_null` | violation | up to two threads |

Properties with a name like `TimersConsistent`, `AttemptsConsistent`,
`PollerConsistent` or `ServerConsistent` are conjunctions of named parts, the
module's `TypeOK` first; each part has its own comment in the module.

`tcp_connection` and `tcp_connection_all` differ in `LoopOps`, `CallerOps` and
`OwnerDestroys`: what the program around the library does. The first is the
disciplined use, in which everything holds; the violations are what happens
outside it. Deadlock is not checked where a failed assert stops the program
(`tcp_connection_all`, the violation runs) or where everything may come to rest:
all tasks done and the pool stopped, a server destroyed, all channels gone.

The order of times matters to `TimerfdArmed` only with delays longer than the least
one, hence its run with `Limit` = 3; with another thread that bound is beyond TLC,
and `TimerfdIsArmed` proves it for any horizon. `CancelExact` does not depend on the
lengths of delays.

The bounds `MaxMsgs`, `MaxPending`, `MaxCloses`, `MaxDelayed`, `MaxTimers`, `Limit`,
`MaxClockSteps`, `MaxConnects`, `MaxCalls`, `MaxConns`, `MaxLen`, `MaxReadable`,
`MaxClients` and `MaxTaken` are guards of the actions that would exceed them.

### Fairness

* `EventLoop`: the loop thread is scheduled, callbacks return, a thread that
  queued a functor goes on to `wakeup()`. A poll timeout or input on another
  channel is not assumed, so `QuitEndsLoop` and `QueuedFunctorsRun` rest on
  `wakeup()` alone, not on the ten-second timeout.
* `TimerQueue`: time passes, a readable timerfd is polled and handled, callbacks return,
  queued functors run. The event loop handles every active channel and every
  functor of an iteration, and its liveness is checked in `event_loop`.
* `TcpConnection`: both loops run, an unreferenced object is destroyed at once,
  and - about the world outside - a peer that does not reset keeps reading, so
  that a socket polled for `EPOLLOUT` again and again is writable at some time
  (strong fairness). Without the last, `ShutdownSendsFin` is false of any program.

* `Connector`: the loop runs, and a retry timer expires after enough polls
  (strong fairness: polls come and go before it does). Nothing is assumed of the
  network, so `StopQuiesces` also covers an attempt that never gets an answer.
  The timer of `removeConnector` likewise.
* `Poller`: the loop thread runs and handlers end, and `epoll_wait` returns when
  there is something to report; which entries it prefers is left open.
  `ReadyChannelsHandled` speaks of channels that stay ready, and holds because
  `events_` grows until it holds all of them.
* `ThreadPool`, `TaskBatch`: threads are scheduled and tasks return. Nobody has to
  call `run` or `stop`, and no spurious wake-up is assumed.
* `TcpServer`: threads are scheduled; the base loop comes both to its ready
  channels and to its functors in every iteration, while other steps come in
  between (strong fairness of `BasePollReturns` and `ToAccept`); an io loop comes
  back from poll when it was woken. Nothing is assumed of clients.

### Disagreements found

1. `shutdown` from another thread against `handleClose`: a closed connection
   returns to `kDisconnecting`, and `assert(state_ == kDisconnected)` in the
   destructor fails. `forceClose` has the same race; its `FIXME` and the one at
   `net/TcpConnection.h:115` suspect it (`tcp_shutdown_race`).
2. `EventLoopThread::startLoop` begins with `loop_->assertInLoopThread()` while
   `loop_` is NULL (`net/EventLoopThread.cc:27`), although `net/TcpServer.h:52`
   promises a thread pool (`start_loop_null`).

The models reach these too, for which no run is kept:

* `addTimer` from another thread reads `timer->sequence()` after handing the timer
  over (`net/TimerQueue.cc:90`); the loop may have run and deleted it
  (`CallerReturns`). `net/TimerQueue.h:32` asks for thread safety.
* `stopRead`, then closing: `disableAll` on a channel that is already `kDeleted`
  adds it to epoll again (`net/EPollPoller.cc:70`); a hang-up before
  `connectDestroyed` calls `handleClose` on the closed connection. `startRead`, called
  in the callback that reports the connection down, has the same outcome.
* `Connector::stop` and `start` in another thread while an attempt is under way:
  `stopInLoop` and `startInLoop` run in one batch, `resetChannel` in the next, and
  `assert(!channel_)` fails. `net/Connector.h:30` allows the calls in any thread.
* `TcpClient::stop` in another thread between `removeConnection`'s test of
  `connect_` and `restart`: the Connector connects again.
* `TcpClient::connect` after the connection closed, without `enableRetry`, finds
  the Connector still `kConnected` and fails the assert in `startInLoop`.
* A client destroyed in the iteration in which its attempt succeeded leaves
  `resetChannel` queued for a freed Connector.
* A functor queued in the loop thread before `loop()` waits for the poll timeout,
  which the comment at `net/EventLoop.cc:146` rules out.
* `quit()` before `loop()` is undone by `quit_ = false`: a server destroyed before
  its io threads have entered `loop()` waits in `join` for ever. And a loop that
  returns from poll by itself between the two halves of `quit()` may be gone before
  `wakeup()` writes its eventfd (`deadLoop`). The first is kept out of `tcp_server`
  by `MayDestroy`; the second may happen there and ends the run of the program.
* `~TcpServer` while a connection is in `kDisconnecting` leaves its channel
  enabled, and `assert(isNoneEvent())` in `Channel::remove` fails; while a server
  with threads works, functors come after their loop or their server.
* `started_` of `TcpServer` is never initialised: `start` may do nothing.
* Tasks that call `run` on a bounded queue may put all workers to sleep; callers
  asleep in `run` are not woken by `stop`.

## 4. Proofs

Every invariant, every action property and every refinement that a passing run
checks is also a theorem. A theorem holds for every value of the constants that
satisfies the assumption of its module and the hypothesis it states; where there
is a hypothesis, the table says which use of the library it describes and what
the code does outside it.

| Property | Theorem | Hypothesis |
|---|---|---|
| `NoLostWakeup` | `EventLoopProofs!WakeupNeverLost` | |
| `CallbackFunctorsRunBeforeNextPoll` | `EventLoopProofs!CallbackFunctorsRun` | |
| `ImplementsFunctorQueue` | `EventLoopProofs!LoopIsFifoExecutor` | |
| `MakeSpaceSound`, `CapacityBounded` | `BufferProofs!MakeSpaceAlwaysSound`, `CapacityStaysBounded` | |
| `MethodsDoTheirOperation`, `ImplementsByteQueue` | `BufferProofs!MethodsCorrect`, `BufferIsByteQueue` | |
| `NoDanglingChannel`, `PollerConsistent` | `PollerProofs!ChannelsNeverDangle`, `PollerAgrees` | |
| `NotifiesSuffice` | `TaskBatchProofs!NotifyOneSuffices` | |
| `ImplementsTaskQueue` | `TaskBatchProofs!PoolImplementsTaskQueue` | |
| `TimersConsistent`, `CancelExact`, `TimerfdArmed` | `TimerQueueProofs!TimersStayConsistent`, `CancellationIsExact`, `TimerfdIsArmed` | |
| `AttemptsConsistent` | `ConnectorProofs!OneAttemptAtATime` | one `connect` |
| `StopHolds` | `ConnectorProofs!StopKeepsItsPromise` | `stop` in the loop thread |
| `NoAssertFails` (client) | `ConnectorProofs!AssertsHold` | both, and no busy destructor |
| `RoundRobin`, `DescriptorsKept` | `TcpServerProofs!SharesStayEven`, `DescriptorsNeverLost` | |
| `ServerConsistent`, `ConnectionsImplementLifecycle` | `TcpServerProofs!ServerStaysConsistent`, `ConnectionsLiveTheirLives` | no busy destructor |
| `TypeOK` (connection), `BytesInOrder` | `TcpConnectionProofs!TypesHold`, `BytesStayInOrder` | |
| `WriteInterest` | `TcpConnectionProofs!InterestFollowsBuffer` | no `shutdown` or `forceClose` in another thread |
| `NoAssertFails` (connection), `ImplementsLifecycle` | `TcpConnectionProofs!AssertsNeverFail`, `ConnectionLivesItsLife` | `Orderly` |

The runs use constants for which the hypotheses hold, so each of these theorems
speaks about the instance that TLC checks and about every other one.

The assumptions of the modules are those of the types, and that the workers and
callers of a `ThreadPool`, the tasks of a batch and the descriptors of a process
are finite sets. TLC evaluates them in the runs.

### How the proofs go

Each module proves one or a few inductive invariants, `Init => Inv` and
`Inv /\ [Next]_vars => Inv'`, with a lemma for each action or for each group of
actions that disturb the same conjuncts. Where a component has many actions and
many conjuncts (`TcpServer`, `TcpConnection`), the actions are first classified by
the few *moves* that they can make of the part of the state at hand (a functor is
queued, the batch is swapped, a connection turns from one state to the next); the
conjuncts are then shown to be kept by the moves.

`EventLoopProofs`, for any sets of threads and functors. `TypeCorrect` ties
`looping_` and `callingPendingFunctors_` to the place of the loop thread, because
the wake-up test in `queueInLoop` reads the flag. `NoLostWakeup` speaks of `poll`
only and is not inductive. The strengthening says, for each place of the loop
thread, which pending functors need a wake-up: from the swap on, and until the
next poll returns, every functor not queued at `idle` and every quit has the
eventfd readable or a thread about to write it; while channels are being handled
the functors need none, because the swap is still to come. The refinement maps the
abstract queue to `functors \o pendingFunctors_`.

`BufferProofs`, for any byte values and sizes. `BufInv` is the representation
invariant together with the bound on unread bytes, the bound on the vector and the
size of the vector's initial part (`makeSpace` never shrinks it, so its move branch
has room). Lemmas give, for each operator on buffer values, the unread bytes of
its result, by equality of sequences element by element; the methods are
compositions of them.

`PollerProofs`, for any channels, any finite set of descriptors and any first size
of the event list. `PollerConsistent` is not inductive: it does not say that two
registered channels never share a descriptor, without which `epoll_ctl` for one
would change the entry of the other, nor that the entries of epoll carry the
channel's interest. `Books` adds both. `NoDanglingChannel` needs that the active
channels `loop()` has not yet come to are registered: what protects them from
`~Channel` is its assert on `addedToLoop_` together with the assert of
`EventLoop::removeChannel`.

`TaskBatchProofs`. `NotifiesSuffice` compares the number of notified threads with
what the queue holds or has room for; its proof counts threads by place, one
`ThreadMoves` lemma doing the arithmetic of cardinalities. The refinement needs
that a task is in one place (`TasksDisjoint`: about to be queued, queued, taken by
one worker, or begun). `LatchNeverOpensEarly` is the safety half of `LatchOpens`.

`TimerQueueProofs`, for any addresses, timers, threads, settings of the clock and
horizon. `TimersInv` is `TimersConsistent` with the fact that the vector of expired
timers is empty outside `handleRead`. For `CancelExact`, `CancelInv` adds that
sequence numbers are unique among live timers - addresses are not unique over time,
and that is what `sequence_` is for -, and that of the running batch
`cancelingTimers_` holds those timers that were cancelled and no others. `ArmInv`
says when the timerfd need not be armed: while `handleRead` runs, because `reset`
will see to it, except for a timer of the invalid time 0, which `reset` does not
look at. The least element of a set of times comes from the well-foundedness of
inclusion of finite sets (`LeastNatural`), since induction itself is out of the
prover's reach.

`ConnectorProofs`, for any delays and numbers of calls and connections.

* `SocketInvariant` and `SocketsNeverLeak` have no hypothesis: the Connector holds
  a socket exactly while its Channel is registered, and `resetChannel` frees the
  Channel it was queued for, until an assert fails.
* `AttemptInvariant` counts tokens: a call of `connect` still to come, a queued
  `startInLoop`, a retry timer, an attempt, its connection, the decision to
  restart. Each step passes the one token on. It needs `MaxConnects <= 1`, a client
  that calls `connect` once (and reconnects by itself as often as it has to): each
  further call is a token of its own, and two calls in a row do start two
  attempts, the second of which fails the assert of `startInLoop` (section 3).
* `StopInvariant` needs `stop` to be called in the loop thread; from another
  thread it may come between `removeConnection`'s test and `restart` (section 3).
* `AssertInvariant` adds what makes the asserts hold: before each start the
  Channel of the attempt before is gone. For a retry and a restart that is a matter
  of order: `resetChannel` is queued when the attempt ends, so it is ahead in the
  queue of every `forceClose` of the new connection (`ResetFirst`), and it has run
  before the next poll reports an event or a timer (`ClearByNextPoll`). `Released`
  is what the one-second `keeper` of `~TcpClient` is for. It needs `~DestroyBusy`: a
  client destroyed in the iteration in which its attempt succeeded leaves
  `resetChannel` behind (section 3).

`TcpServerProofs`, for any numbers of threads, clients and descriptors.

* `PoolInvariant`: each thread's `loop_` is set from its publication to the thread's
  end, and no thread ends before it is told to quit; hence `LoopsAlwaysExist`.
* `ServerInvariant` adds the types and where `start`, the destructor and the
  acceptor may be at the same time.
* `SharesStayEven`: the loops before `next_` have had one connection more than the
  others (`Dealing`). `DescriptorsNeverLost` balances free, taken, live and reserve
  descriptors (`Balance`), at each place of the way around `EMFILE`.
* `LifeInvariant`: what each loop has to run is exactly what the states of the
  connections call for (`LoopFits`: `connectEstablished` while connecting,
  `removeConnectionInLoop` while down and in the map, `connectDestroyed` once
  erased), each once, and references are there as long as they are needed. The
  refinement of `ConnectionLifecycle` for each connection follows. Hypothesis
  `~DestroyBusy`: a server with threads is destroyed only when its connections are
  gone and its loops rest. `net/TcpServer.h` leaves that to the user, and section 3
  says what happens to a server destroyed earlier.

`TcpConnectionProofs`, for any numbers of other threads, messages and closes.

* `TypesHold` and `StreamInvariant` are for all uses, failed asserts and freed
  objects included. `BytesInOrder` is not inductive: that a direct write does not
  overtake buffered bytes depends on `EPOLLOUT` being asked for exactly while bytes
  wait (`InterestFits`), and after a failed write on nothing waiting any more
  (`Lost`).
* `InterestFollowsBuffer` speaks of `Open` states. Its hypothesis is that no other
  thread shuts down or closes: such a thread may move a closed connection
  back to `kDisconnecting` (the race of run `tcp_shutdown_race`), which then is
  "open" without interest.
* `LifeInvariant` has the hypothesis `Orderly`: other threads only send, nobody
  calls `startRead` or `stopRead`, and the server does not go before its
  connections. Each part keeps out one behaviour of section 3: the race of
  `shutdown`; a closed channel that `stopRead` or `startRead` brings back into epoll, and the
  functors of `startRead` and `stopRead` that hold no reference; and the destruction
  of a half-closed connection. The invariant relates `state_` to the channel's
  index and interest and to the reports to the user (`StateFits`), the functors
  under way to both (`QueueFits`), and the server's reference to the calls on their
  way to it (`OwnerFits`). `AssertsNeverFail` and `ConnectionLivesItsLife` follow.
  That `TcpConnection` and `TcpServer` implement the same `ConnectionLifecycle` is
  what allows `TcpServer` to reduce a connection to its life.

### Only model-checked

Liveness, which is out of the prover's reach: `QuitEndsLoop`, `QueuedFunctorsRun`,
`TimersExpire`, `ShutdownSendsFin`, `ClosedIsDestroyed`, `StopQuiesces`,
`ReadyChannelsHandled`, `OnlyStopLeavesTasks`, `StopReturns`, `LatchOpens`,
`BacklogServed`, `ClosedConnectionsFreed`, `StartAndDestructorReturn`.

## 5. Not modelled

* `BlockingQueue`, `BoundedBlockingQueue`: they do not compile when instantiated,
  and nothing instantiates them. `PollPoller` is named but not in the repository.
* Socket, address, endian and timestamp wrappers: no state of their own.
* Integer widths: lengths in `Buffer` are mathematical. `toStringPiece` narrows a
  `size_t` to `int`, which matters from 2 GiB on.
* `assertInLoopThread` only logs in this library; the modules make the calls in
  the threads the documents allow.

* Errors of `accept` other than `EMFILE`, `getLoopForHash`, `getAllLoops` and
  `findCRLF` change nothing.
* A task, a callback or a functor that throws ends the program.
* `~TcpClient` in a thread other than its loop's, which a `FIXME` there calls
  unsafe, and code that destroys a client from a callback of its own connection.

## 6. Plan

The modules of the plan are written, and the safety they state is proved. What is
left:

1. Weaker hypotheses. `ConnectorProofs!AssertsHold` with `connect` called again
   after `stopInLoop` has run; `TcpConnectionProofs!LifeInvariant` with `startRead`
   and `stopRead` in the loop thread for a connection that is up and reads when it
   is closed; without that restriction TLC finds the assert of `handleClose` failing.
2. Safety halves of the liveness properties as theorems, the way
   `LatchNeverOpensEarly` is one of `LatchOpens`: a loop that was told to quit does
   not block in poll for ever; a closed connection always has a step towards
   `connectDestroyed` under way.
3. Shorter proofs of `TcpServerProofs` and `TcpConnectionProofs`: both classify
   steps by moves; the lemmas on queues of functors are alike.
