# A verification project for protobase

protobase is a small C++ network library built on the reactor pattern: one event
loop per thread, non-blocking sockets watched by epoll, and functors that other
threads hand to a loop. This directory holds TLA+ modules translated from its
source, TLC configurations that check them on small instances, and theorems
that TLAPS checks for every instance. `PROJECT.json` is the index: which lines
each definition models, which properties each run checks, which hazards of the
code each property is for.

Paths below are relative to `src/src/`; line numbers are in `PROJECT.json`.

## 1. Inventory

| Component | State | Operations | Interacts by | Hard parts |
|---|---|---|---|---|
| `EventLoop` (`net/EventLoop.*`) | `m_quit`, `m_callingPendingFunctors`, `m_pendingFunctors` under a mutex, `m_activeChannels`, the eventfd, `m_timerChannels` | `loop`, `quit`, `runInLoop`, `queueInLoop`, `wakeup`, `doPendingFunctors`, `runAt`, `runAfter`, `runEvery`, `cancel` | other threads push functors and write the eventfd; channels call back | lost wakeups, `quit` racing `loop`, calls made by callbacks during a batch, cancelling a timer from its own callback or another thread |
| `Channel`, `EpollPoller` (`net/Channel.*`, `net/EpollPoller.*`) | `m_events`, `m_rEvents`, `m_status`, `m_tie`; the poller's map; the kernel's registration | `enableReading` ... `disableAll`, `remove`, `tie`, `handleEvent`; `updateChannel`, `removeChannel`, `poll` | `epoll_ctl`, `epoll_wait` | `m_status` and the kernel must agree after every order of calls; several events of one report |
| `Connection` (`net/Connection.*`) | `m_state`, `m_inputBuffer`, `m_outputBuffer`, the channel it is | `send`, `shutdown`, `forceClose`, `onRead`, `onWrite`, `onClose`, `onError`, `onConnectionEstablish`, `onConnectionDestroy` | functors to its loop, callbacks to the user, `m_closeCallback` to its owner | partial writes, lifetime, calls of other threads that test and store `m_state` unlocked, close racing removal |
| `TcpServer`, `Acceptor` (`net/TcpServer.*`, `net/Acceptor.*`) | `m_connections`, `m_nextConnId`, `m_listening`, `m_idleFd` | `start`, `newConnection`, `removeConnection`, `removeConnectionInLoop`, `~TcpServer`; `listen`, `onRead` | hops between the base loop and the I/O loops | removal hops racing disposal, running out of descriptors |
| `TcpClient`, `Connector` (`net/TcpClient.*`, `net/Connector.*`) | `m_state`, `m_connect`, `m_retryIntervalMillSeconds`, `m_connectionPtr` | `clientConnect`, `disConnect`, `clientStop`, `~TcpClient`; `start`, `restart`, `stop`, `connect`, `onWrite`, `onError`, `retry` | timers of the loop, its own channel, a `Connection` | a retry timer that outlives `stop` or the client, two attempts at once, a descriptor with two owners |
| `Thread`, `EventLoopThread`, `EventLoopThreadPool` | `m_eventLoop` (a pointer to the thread's stack), `m_started`, `m_joined`, `m_next` | `start`, `join`, `startLoop`, `threadFunc`, `getNextLoop`, destructors | mutex, condition variable, semaphore, `quit` | `quit` before `loop` resets `m_quit`; a loop that is destroyed while it is being told to quit |
| `TimerWheel` (`net/TimerWheel.*`) | four deques of slots, `m_tick` | `runAfter`, `runEvery`, `onTime`, the destructor of a node | a `runEvery(1000)` timer of the loop | slot indices at the borders, cascading, tasks that start timers in the middle of a tick |
| `Buffer` (`base/Buffer.*`) | `m_buffer`, `m_readIndex`, `m_writeIndex`, `m_capacity`, `m_refCount`, `m_ownMemory` | `append`, `skip`, `slice`, `slicePacket`, `readFd`, `writeFd`, `makeSpace`, `makeOwnBuffer`, copies and moves | memory shared by slices | growth, moving bytes to the front, memory that a slice still uses |
| `LengthFieldBasedFrameDecoder` (`codecs/`) | its parameters | `decode` | a `Buffer`, whose memory the packets share | frames that arrive in pieces, lengths at the limits |
| `Logger` (`base/Logger.*`) and the parts of the vendored spdlog it uses (`circular_q`, `mpmc_blocking_queue`, `thread_pool`, `async_logger`) | `mLogger`, `mLevel`; the pool's bounded queue, its worker, the registry | `LOG_*`, `flush`, `setLogLevel` and the setters that make a new logger, `~Logger` | every thread of the program queues messages, one worker writes them | callers blocked at the full queue, destruction while threads log |

`Socket`, `InetAddress`, `Timestamp`, `CurrentThread`, the rest of the vendored
spdlog and the test programs keep no state the properties depend on; they are not
modelled.

What makes each part correct, in the words of the properties below: the loop
loses no wakeup, no functor and no quit; the poller and the kernel agree on each
channel; a connection's output leaves in order and only for the wire, its end is
reported once, nothing refers to it when it is deleted, and it is deleted when its
peer is gone; every timer runs once, and on time, and its id names no other; a
server refuses what it cannot accept and gets every descriptor back; a buffer
shows its own bytes and a decoder cuts exactly the frames; and what was logged is
written before the log is gone.

## 2. Modules

```
FunctorQueue  <--implements--  EventLoop  <--EXTENDS--  EventLoopThread
      ^                            ^ (queue and fairness taken from it)
      | implements                 |
   Logger --EXTENDS--> CircularQ   |        TcpServer  Acceptor
                                   |            \--EXTENDS--/
Channel  <--INSTANCE--  Connection <--reduced in--  Server
   \------EXTENDS------  Connector  <--EXTENDS--  TcpClient
Timers    TimerWheel (driven by a runEvery timer)     Buffer  <--EXTENDS--  Decoder
```

**FunctorQueue** is the abstract specification of what `runInLoop` and
`queueInLoop` promise: functors are executed once each, in the order they were
queued. `EventLoop` implements it under the mapping `queue <- functors \o
m_pendingFunctors`, `done <- ran`.

**EventLoop** has `EventLoop.cpp` without its timers, and `EpollPoller::poll`.
`pc` is the place of the loop thread: `init`, `check` (the test of `m_quit`),
`poll`, `dispatch`, `callback`, `run` (at `doPendingFunctors`), `functor`,
`stopped`. `tpc[t]` is the place of another thread: `idle`, or `wakeup` between
the store of `queueInLoop` or `quit` and the write of the eventfd. `ready` is
the kernel's ready list, in order, so that a channel that is reported goes to
its end (level triggered, `MaxEvents` entries a call). `functors` is the local
vector that is swapped with `m_pendingFunctors`. Callbacks and functors may
queue, run and quit (`LoopQueueInLoop`, `LoopRunInLoop`, `LoopQuit`). `ran` and
`early` are history: the functors executed, and those the loop thread queued
before `loop()`, for which the code writes no wakeup.

**EventLoopThread** extends it with the thread that owns the loop: `opc` and
`lpc` are the places of the owner (`Thread::start`, `startLoop`,
`~EventLoopThread`) and of the thread (`threadFunc`). Each step between two
points where the threads can interfere (semaphore, mutex, condition variable,
store of `m_quit`, write of the eventfd) is an action. The undefined behaviour
of a use of a destroyed loop is a choice between no effect and the owner's
place `undefined`, where it stays. `appQuit` and `quitLost` are history.

**Timers** has the rest of `EventLoop.cpp`: a timer is its channel, its timerfd
(`clock` is `set`, `expired` or `off`) and its descriptor, whose number is the id
`cancel` takes and which the next timer may get again. `m_activeChannels` is what
the last poll reported, and a task may run any call of the user. Another thread's
call is two steps (`ThreadRegister`, `ThreadStore`), as in
`test/TcpClientTest.cpp:27` and `:33`; two threads inside the map at the same
instant are left out. `undefined` records the use of a deleted channel, after
which the behaviour ends, and `misuse` the two kinds of step that lead there.

**Channel** has the operators on a channel: its interest, `m_status` and the
kernel's registration as a record, each `enable...`, `disable...` and `remove`
as what `EpollPoller::updateChannel` and `removeChannel` do to it. An
`epoll_ctl` that would fail marks the record.

**Connection** has one connection: `pc` and `rev` are the progress of
`handleEventWithGuard` through the events of one report, `m_state`, the channel
`ch`, the output buffer as a sequence of bytes named by message and position,
the functors of its loop as a FIFO queue, `sock` with the peer's side, and the
owner's shared pointer (`owner`, `removals`). Another thread's `send`,
`shutdown` and `forceClose` are three steps: the test of `m_state`, its store,
and the functor; `ThreadsClose` says whether such threads call all three or only
`send`. `Disposal` switches on an owner that is destroyed first (`~TcpServer`): its
`runInLoop` queues `onConnectionDestroy` for a connection of another loop
(`OwnerDisposes`) and calls it at once, between two handlers, for one of the base
loop (`OwnerDisposesInLoop`). A report that still names the connection after that is
not modelled.

**TcpServer** composes connections with several loops. A connection is reduced
to where it meets its server (`m_state`, whether its loop watches it, how often it was
closed and destroyed); a loop is a FIFO queue of functors with handlers in between,
which `EventLoop` is shown to implement. `m_numThreads` is chosen when the server
starts. `forceClose`, by any thread, is two steps: the test of `m_state`
(`BeginForceClose`), and the store of `kDisconnecting` with the push of
`forceCloseInLoop`, whose functor does not own the connection. The store may come when
the connection has been closed: then it is closed a second time, and its channel, which
the first close took out of epoll, is registered again until it is destroyed
(`watched`). `forceClose` may be called for the connections in `Forced`, `MaxForced`
times each.

**Acceptor** has the descriptors of the process as a count, and the statements
of `onRead` after `EMFILE` as steps, because other threads may open descriptors
in between. Of the errors that `onRead` only logs, those that take the connection out
of the backlog (`ECONNABORTED`) are `onReadAborted`; the others change nothing.

**Server** composes the two. `Acceptor::onRead` calls `newConnection`, the thread of
the base loop handles nothing else while it is at a call of `onRead`, and a
descriptor comes back only when the last pointer to its `Connection` is gone: the
map's, that of a functor in a loop's queue, that of the handler being run, or that
of a thread in `forceClose` (`Delete`). `~TcpServer` ends with the join of the
pool's threads and with `~Acceptor`, in this order.

**Connector** has the operators on a `Connector` as a record, as `Channel` has
those on a channel; `connect` is the set of its outcomes, grouped as its
`switch` groups the errors. **TcpClient** extends it with the client: its own
`m_connect` (which is not the Connector's), `m_connectionPtr`, the functors of
its loop, the places of the loop thread inside callbacks of the user, and
another thread, whose calls are two stores and a functor. Retry timers fire at
any time. A `connect()` that is called while something of an earlier attempt is
left sets `overlapped`, and the behaviour ends there: `OneAttempt` says how
this can come about, the other properties hold until then. `wanted`,
`stopRaced`, `misused` and `closedTwice` are history. `removeChannel` ends an attempt
and queues `resetChannel`, with the Connector's address; `reset` says that this functor
is on its way, and `RunReset` runs it. `Destroy` is `~TcpClient`
on the loop thread, followed by what can still run: `onConnectionDestroy`, retry
timers and functors that hold the client's address (`UseAfterDestroy`), and the
`resetChannel` of an attempt under way, whose body is empty. `left` says which of the
former were there when the client went.

**TimerWheel** has the four deques as sequences of sets of nodes. A tick is several
steps (`second`, `coarse`), so that tasks which start timers run in the middle of
one. The number of seconds in a minute, an hour and a day are constants; the
arithmetic of `insertNode` is done modulo `UintRange`. A repeating timer whose node
is destroyed at once inserts itself without end, which ends the program
(`overflow`). `Destroy` destroys the wheels with their nodes, whose tasks run; a
node that would insert into the wheels by then makes the behaviour end
(`undefined`).

**Buffer** stands alone, as the class does: up to three objects, each with the
six fields of the class, and the memory and counters they point to. Bytes are
named by their place among all appended, since the class never looks at one.
Every call is one action: the operators `ensureWriteableBytes`, `makeSpace`,
`makeOwnBuffer`, `appended` and `readFd` return the memory and the fields after
the code of that name. A slice or a copy counts a reference and shares the
memory, but nothing stops the first buffer from rewinding, compacting or
deleting that memory, or a slice from writing to it, or `swap` from exchanging
it without its count. These four steps set `misuse`; after the last two kinds
the count is wrong and the behaviour ends. An object before its construction or
after its destruction is `NoObject`, one that was moved from has no memory either;
memory that was deleted is `Free`. A read that spills into `extraBuf` first fills
the memory it has, shared or not, and makes room only then: `misuse` records
both. `holds` is history: what the user
put into each object or was given with it.

**Decoder** extends Buffer with `LengthFieldBasedFrameDecoder::decode`. Since
Buffer names a byte by its place among all appended, a decoder is checked together
with the stream of frames it is to decode (a "case"): the stream gives the bytes
their values, and `decode` computes the length field from the buffer's memory.
That the sender framed the stream as the decoder expects is an assumption on the
cases (`CaseAssumption`, `WellFramed`), which TLC evaluates for those of the run.
`m_initialBytesToStrip` is stored and never used by the code. A field length that
is not 1, 2, 4 or 8, such as the 5 of `test/LengthFieldBasedFrameDecoderTest.cpp:10`,
yields `nullptr` always; no case has one.

**CircularQ** and **Logger** have the log. `pc[t]` and `item[t]` are the place of
a caller in `enqueue` (`post`, `wait`, `notify`) or in `~thread_pool` (`join`): the
caller that drops the last shared pointer to the pool, be it the main thread in
`spdlog::shutdown()` or another one on its way out of a `LOG_*` call, queues the
termination and joins the worker. Each wait on a condition variable is a place of
its own, entered and left under the mutex, with spurious wakeups for callers. A
logger is its level and that of its sinks, which `setLogLevel` does not reach, and
whether it is the fallback that `initLogger` makes when a file cannot be opened.
The setters are assumed not to run while another thread copies `mLogger`. The
pool's queue is shown to be the FIFO that `FunctorQueue` specifies.

Mutants (definitions whose comment begins with "Mutant") stand before the
definition they change. Each is a plausible slip in that code, used to see that
a property can fail; no specification uses them.

## 3. Runs

| Run | Instance | What it shows |
|---|---|---|
| `eventloop` | 2 functors, 2 threads, 2 channels, `MaxEvents` 2 | `NoLostWakeup`, `NoLostQuit`: the loop is never asleep in `epoll_wait` with something to do and no wakeup on its way; `ImplementsFunctorQueue`; and under fairness `FunctorsEventuallyRun`, `QuitStopsLoop`, `NoStarvation` |
| `eventloop_thread` | 2 functors, 1 channel | `ObjectOutlivesThread`, `JoinBlocksOnLostQuit`; `StartLoopReturns`, `DestructorReturns` |
| `timers` | 3 timers on 2 descriptors, a millisecond of 2 microseconds, `int` of 3 bits | `IdsNameTheirTimers`: ids, map and channels agree although numbers are given again; `TimersRun` |
| `connection_loop` | 2 messages of 2 bytes, room for 3 on the wire, high water mark 1, calls of the loop thread | `OutputInOrder`, `ChannelInSync`, `NothingDangles`, `ClosesOnce`; `PeerCloseDeletes`, `OutputDrains` |
| `connection_threads` | the same with one other thread and an owner that may be destroyed | `OutputInOrderWhileOpen` |
| `connection_write_error` | expected to fail | `OutputLeavesByWire`: see the findings |
| `server` | 0 to 2 I/O loops, 3 arrivals, 2 of them accepted, 2 closes each by handlers, `forceClose` of the first one, 3 descriptors | `MapTracksOpen`, `EstablishedFirst`, `NoUseAfterDisposal`, `SpareKept`, `NotDestroyedInHandler`; `BacklogServed`, `ClosedFreesDescriptor` |
| `tcpclient` | 2 descriptors, 3 calls, with and without retry | `OneAttempt`, `EverySocketOwned`, `StopIsFinal`, `OnlyResetIsLeft`; `KeepsTrying` |
| `buffer` | 3 buffers, 3 bytes, 2 at a time, `kPrependSize` 1, `extraBuf` 2; 6 decoders | `HoldsItsBytes`: no buffer's bytes change under it but by a step of `misuse`; `MemoryOwned`: memory and counts are exact, and indexes inside the memory; `DecodesFrames`: exactly the frames, as soon as they are there |
| `logger` | 2 messages, 3 threads, a queue of 1, 2 loggers | `ShutdownDrains`; `LogsInOrder` (a refinement of `FunctorQueue`); `LoggedIsWritten` |
| `timerwheel` | 2 timers, minute of 3, hour of 9, 12 ticks | `TimersConserved`, `NoneOverdue`, `RunsOnTime` |
| `timerwheel_maximum` | expected to fail | `MaximumIntervalServed`: see the findings |

The largest are `buffer` (650,000 states), `connection_loop` (550,000),
`timerwheel` (500,000) and `logger` (440,000); each run ends within two minutes or so
with two workers.

Why the bounds are enough. Each instance has the smallest number of every thing that
lets two of them meet: two functors can be reordered, two threads can both be
between their store and their wakeup, two ready channels and the eventfd exceed
`MaxEvents` = 2 as seventeen exceed 16, and a batch of two has a rest, a message of
two bytes can be written in part with the rest buffered behind another, a connection
can be reported twice, two I/O loops can be stopped one after the other while the
second still hands a removal to the base loop, three calls are a connect, a stop and
a connect again. The wheel with minute 3 and hour 9 has every border of the real one
(last slot of a wheel, exactly a minute, a remainder after a minute), and 12 ticks
carry it past a whole turn of the second and the minute wheels. Three buffers are an
owner and two that share with it or with each other, and three bytes fill, leave a
gap at the front and force a compaction or a replacement; `extraBuf` is used when
less than its size is free, so with 2 bytes a read can both fill the free byte and
spill. `Nameless` takes states that differ only in the names of allocations as one.
Three descriptors are the spare one and two connections, so that the third arrival
is refused or waits for a close; two connections can live in two loops or in one,
and one late store of `forceClose` is what brings a closed connection back. Three
timers on two descriptors force a number to be given twice; delays and waits cross
0, a fraction of a millisecond and the largest `int`. Two messages at a queue of one
place are one waiting and one queued, with a flush or the termination behind them.
Every passing run was seen to violate each of its properties under a mutant.

A functor is queued at most once, messages are sent at most once, and
`MaxCalls`, `MaxInput`, `MaxCloses`, `MaxForced`, `MaxArrivals`, `MaxTick`, `MaxTimers`,
`MaxLoggers`, `MaxLen` and `MaxBytes` cap what would
otherwise be unbounded; each is a guard of the action it bounds.
`CHECK_DEADLOCK FALSE` everywhere: a loop that has stopped, a deleted
connection, or a bounded environment that is used up, is an end state.

### Fairness

* `EventLoop`: weak fairness of the loop's own steps and of each thread's write
  of the eventfd. A thread that is inside `loop`, `queueInLoop` or `quit` is
  scheduled by the kernel, and holds the mutex for a push or a swap only.
  Callbacks and functors are assumed to return, and nothing is assumed of
  threads that call nothing.
* `EventLoopThread`: weak fairness of the owner's and of the thread's progress.
  Starting, calling and destroying are not fair: nobody has to.
* `Connection`: weak fairness of the dispatch, of the owner's removal and of a
  peer that reads; strong fairness of `Poll` and of the functors, because the
  loop alternates between the two and neither waits for the other;
  `FunctorsEventuallyRun` and `NoStarvation` of `EventLoop` are exactly this.
* `Server`: weak fairness of handlers that return, strong fairness of the
  functors of a loop that runs, for the same reason; strong fairness of the
  steps of `onRead`, since each poll reports the listening socket again and `accept`
  does not fail for ever with an error that leaves the connection waiting; weak fairness
  of a thread inside `forceClose`, which is scheduled; and weak
  fairness of `Delete`: the user keeps no pointer to a destroyed connection for
  ever. Other threads open descriptors between two calls of `onRead` only
  (`Others` is `FALSE`, see section 5), and may keep them.
* `Timers`: weak fairness of the loop's steps and of time, tasks return. Starting
  and cancelling are not fair, nor is a thread between its two steps.
* `Logger`: weak fairness of the worker, of each caller inside `enqueue` or the join,
  and of `~Logger` once begun. Logging and ending the program are not fair, and after
  `~Logger` nothing is: the Logger is a static object, so that the process is ending
  and may kill its threads at any step.
* `TcpClient`: weak fairness of the handlers, strong fairness of polling and of
  retry timers (as for `Connection`), and a server that is there at last: of
  infinitely many attempts one is not refused at once, succeeds, and is not
  reset before the loop has seen it. Without that there is nothing to promise.
* `TimerWheel` and `Buffer`: none, they have no liveness property; `NoneOverdue`
  says with respect to `m_tick` that no timer is late.

## 4. Proofs

Each module `XProofs` extends module `X` (`ServerProofs` covers `TcpServer` and
`Acceptor`, too, `EventLoopProofs` the `EventLoopThread` that extends `EventLoop`,
and `BufferProofs` the `Decoder`). The theorems hold for every value of the
constants that the named assumptions of `X` allow. Where a theorem assumes more, it
says so in an `ASSUME` of its own, and the reason is below.

* **EventLoopProofs**. `TypeCorrect`, `NoWakeupIsLost`, `NoQuitIsLost` and
  `BatchesComplete` follow from the inductive `LoopInv`: `WakeupOwed` (outside
  the dispatch of a poll, whenever a functor is pending that another thread or
  a running functor has queued, the eventfd is readable or a thread is about to
  write it), `CallingWhileRunning` (`m_callingPendingFunctors` is set exactly
  inside `doPendingFunctors`), `NoBatchOutside` (the swapped vector is empty
  elsewhere) and `NoLostQuit`. They are needed because `queueInLoop` writes no
  wakeup when the loop thread calls it outside a batch, which is right only
  because the swap is still to come. `RefinesFunctorQueue` maps each step to
  one of `FunctorQueue` or a stutter.
  Of `EventLoopThread`, in the same module, `ThreadImplementsLoop`: every step of the
  composition is a step of `EventLoop` or leaves it alone, so
  `ThreadLosesNoWakeup` needs no proof of its own. `OnlyALostQuitBlocks` and
  `OwnerIsSafe` follow from `ThreadInv`, which relates `opc`, `lpc`, `m_quit`
  and the histories, and `OwnerDecides`: while the application has not called
  `quit`, only the destructor has set `m_quit`.
* **ConnectionProofs**. `ConnectionChannelInSync`: no order of events, calls of
  any number of threads, removals and disposals makes `m_status` disagree with
  the kernel or an `epoll_ctl` fail. It rests on one lemma, `UpdateInSync`,
  about the operators of `Channel`, and one step per action. The other theorems
  follow from `ConnInv`, which adds `StartInv` (before `onConnectionEstablish`,
  the first functor, nothing happens), `OutputInv` (writing is enabled as long as
  output waits, so that no direct write of `sendInLoop` overtakes it; and what
  `epoll_wait` said about room in the socket is still true in `onWrite`),
  `CloseInv` and `RemovalInv` (in the queue, what is bound to the bare address
  stands before `onConnectionDestroy`). `OpenOutputInOrder` needs nothing else;
  `OutputStaysInOrder` and `ClosedOnce` assume `~OthersClose`, that other threads at most
  `send` (`SendersInv`: they never store the state), because their `shutdown` or
  `forceClose` can take a closed connection back to `kDisconnecting`, after which
  both are false (section 5); `RemovalLeavesNothing`
  assumes `~Disposal`, since `~TcpServer` gives connections up that are still used.
* **TcpClientProofs**. `OneAttemptAtATime`, `NoSocketLost`, `StopsAreFinal`,
  `OnlyResetSurvives` and `ClientTypes`, from `ClientInv`: at most one of an attempt,
  a retry that is due, a report and a connection exists (`AttemptInv`); the
  connector's channel is a function of its state (`KOK`), which is what makes a
  descriptor impossible to lose; a stop that nobody has undone has been stored and
  its functor is on the way (`StopInv`); what a destroyed client leaves to the loop
  (`GoneInv`): the poller has forgotten its channel, and the
  `resetChannel` that is left does nothing (`ResetEffect`). The theorems are about `Spec`;
  the run's `FairSpec` implies it.
* **ServerProofs**. `MapIsExact`, `DestroyedBetweenHandlers`,
  `EstablishedBeforeDestroyed` and `SafeAfterDisposal`, for any number of threads,
  connections and closes, from `ServerInv`. Its core is `QueuesOK`: which functors a
  loop's queue may hold in the state the connections are in, that each connection
  has at most one `onConnectionEstablish`, and that one stands before every
  `onConnectionDestroy` of a connection that is not established yet. Without the
  order none of it is inductive: what a functor finds depends on what was queued
  before it. `HandlersOK`, `MapOK` and `LoopsOK` relate handlers, map and threads
  to it. `SpareIsKept`, from `SpareInv`: at each statement of `onRead` after
  `EMFILE`, what the spare descriptor is, and that one is free whenever the next
  call needs one; `ComposedStep` shows that a step of `Server` does to the acceptor
  what a step of `Acceptor` may, so `ServerKeepsSpare` needs no second proof. Both
  assume `~Others`: with other threads opening descriptors the spare one can be
  lost (section 5).
* **LoggerProofs**. First `circular_q`: as long as it is neither popped empty nor
  pushed full, `PushBack` appends to `Contents` and `PopFront` takes its head off,
  wherever the indexes have wrapped (`PushAppends`, `PopTakesHead`). With them
  `LogInv` (what a caller holds in each place of `enqueue`, who has the pool, that
  no message is queued twice, and that nothing is pushed after the termination)
  gives `ShutdownLosesNothing`, and `RefinesLogQueue` maps each step to one of
  `FunctorQueue` or a stutter.
  `NoNotificationIsLost`, for finitely many threads, is the safety half of
  `LoggedIsWritten`: whoever sleeps at the queue has a notification to come. The worker
  does because each push owes one, but for the callers that is not inductive: one
  notification wakes one of several, and a slot can be free with only one of them on
  its way to it. `SleepersInv` counts instead: while a caller sleeps, there are no
  more free slots than callers about to push, plus the notification the worker owes.
* **TimersProofs**. `IdsAreTheirTimers`, from `TimerInv`: open timerfds have numbers
  of their own (`FdInv`, misuse or not); the map has exactly the live timers, but
  for one that another thread is storing (`MapInv`); and what the last poll
  reported is alive and named once (`ReportInv`): a second mention would be of a
  channel the first one's task deleted.
* **BufferProofs**. `EnsureWriteableMakesRoom`: each way of making room leaves
  enough of it and keeps the readable bytes' number (the doubled capacity plus
  the length suffices because the indexes start at `kPrependSize`).
  `IndexesStayInMemory`: whatever is called on however many buffers, shared or
  misused, the indexes stay between `kPrependSize` and the capacity (`BufInv`).
  `MemoryIsOwned` follows from `Owns`: every object's block is there with its
  capacity, objects have a block in common exactly when they have the counter in
  common, the counter counts them, and no other memory is taken; it also yields
  that a fresh block always exists (`FreshIsFree`, by the pigeonhole principle), so
  that `Allocations` bounds nothing. `BytesAreHeld` needs two facts more: among
  those who share memory at most one has `m_ownMemory`, and nobody has a byte
  behind its last (`OwnerLast`), so an append in place touches no byte another
  shows; and each object shows what it holds (`Showing`). Each step is split into
  what becomes of the others' bytes (`OthersKeep`), which `Harm` must have
  recorded otherwise (`HarmIs`), and of its own (`ReadKeeps` and the lemmas before
  it). The proof found a gap in the model: `readFd` of a slice that fills the free
  space of shared memory before it moves away was not recorded as "written".
  `FramesAreDecoded`: because the buffer shows the bytes it holds, what `decode`
  finds in the memory at the offset of the length field is what the sender wrote
  there (`InStepReads`), so both have the same value whatever that is, and the sum,
  wrapped or not, is the frame's length (`DecodesFrame`); a `Decode` is thus a
  `SlicePacket` (`DecoderStep`), and all four theorems are about `DecoderSpec`.
* **TimerWheelProofs**. `TimersAreConserved`, `NoneIsOverdue` and `TimersRunOnTime`, from
  `WheelInv`: a timer has a node if it waits (`ExistsInv`), only one (`UniqueInv`), and
  the place of that node, together with the seconds it has left, says at which tick it
  runs (`NodeTick`), which is the tick fixed when the timer was started (`RunTick`).
  A slot of the minute wheel counts from the last pop of that wheel (`Turn`), not from
  now; the definition of `Turn` has a case for the second phase of a full minute,
  where that pop is still to come, and `ahead` of a timer records a start in exactly
  that phase: this is where the whole minute of `RunsOnTime` comes from. The proof
  found a gap in the model: it went on after the overflow of the stack in `runEvery`.
  The divisibility of the sizes (an hour is whole minutes, a day whole hours) and
  that an hour is at most half of `UintRange` are assumed; 60, 3600, 86400 and
  2^32 are so.

`TypeOK` of `EventLoop` and of `TimerWheel`, `BatchCompletes`, `StartedLoopIsReady` and
`SleepersAreWoken` of `LoggerProofs` are proved and in no run.

Only model-checked: all liveness properties and everything that depends on
`ENABLED`, which the prover does not do. What a length field is worth (`Worth`, a fold
over its bytes) is never unfolded in a proof: that would need induction over data.

## 5. What the models show about the code

Findings (`PROJECT.json` quotes the lines):

1. `Connection::onWrite` keeps the result of `writeFd` in a `size_t`. A failed
   write is then a very large one: the whole output is dropped and reported as
   written. (`connection_write_error`)
2. `TimerWheel::onTime` reaches the hour and day wheels in `else` branches of
   the test for a full minute, which a full hour never fails: timers of an hour
   or more never run, though intervals of up to 30 days are accepted.
   (`timerwheel_maximum`)

Behaviour no text of the repository contradicts, which the models contain and
the properties have to exempt:

* `loop()` clears `m_quit`: a `quit()` before it is lost, and with it the join
  in `~EventLoopThread` (`quitLost`).
* A functor queued by the loop thread before `loop()` writes no wakeup and
  waits for another event (`early`).
* `quit()` writes the eventfd after its store, when the loop may have ended and
  been destroyed (`undefined` in `EventLoopThread`).
* A loop that the application itself ends can leave `startLoop` waiting, or let
  the `EventLoopThread` be destroyed under its thread (`appQuit`).
* `~TcpServer` called in a base loop that goes on, with I/O threads, leaves
  removals in the base loop's queue that hold its address; without them, a
  `forceCloseInLoop` is left there whose close callback does (`NoUseAfterDisposal`
  allows exactly this).
* With other threads opening descriptors, the acceptor can lose its spare one
  for good (`Others`; the runs and the theorem have it `FALSE`).
* Calls of `forceClose` and `shutdown` from other threads can take a connection
  back from `kDisconnected` to `kDisconnecting`; it is then closed and removed twice,
  which the server's properties survive.
* A connection that its peer resets calls `removeConnection` twice; a
  `TcpClient` with retry then restarts twice, and loses a socket that stays
  registered (`closedTwice`).
* `clientConnect` after `clientStop` while a retry timer is pending starts two
  attempts when the timer fires (`misused`); `restart()` can undo a
  `clientStop` of another thread (`stopRaced`).
* The retry interval that `Connector.cpp:187` logs in milliseconds is
  multiplied by 1000 in the next line, and the maximum
  `kMaxRetryIntervalMillSeconds` is 30.
* A packet cut by `slicePacket` (which the frame decoder returns) stays intact
  only until its buffer next has to make room: `makeSpace` then moves other
  bytes over it or deletes the memory, reference count or not (`misuse`). Each of
  the four kinds of step is needed: with any one of them left out of `misuse`,
  TLC finds a buffer that shows other bytes or has no memory.
* A timer cancelled by its own task, or by the task of another one that the same poll
  reported, is deleted and then used; one started from another thread can run and be
  deleted before `m_timerChannels` has it, and its id then leads to a deleted channel
  (`misuse` of `Timers`).
* A timer with a delay of 0 or less never runs (`timerfd_settime` disarms it or
  fails), and so does one by `runAt` for less than a millisecond ahead or whose
  wait in milliseconds becomes less than 1 as an `int`. `~EventLoop` leaves the
  channels and descriptors of its timers behind.
* `~TcpClient` leaves retry timers, and functors with the client's address, to a
  loop that goes on (`left`); of an attempt under way it leaves `resetChannel`
  (`Connector.cpp:199`), called on the destroyed Connector, without effect only because
  the body of that function is commented out. When the user has another pointer to the connection,
  it is not told to close, and ~Channel of the client closes the descriptor under it.
* A `TimerWheel` that is destroyed runs every task that is left, and with a repeating
  timer, or one that still has to change wheels, inserts into the wheels it is
  destroying.
* A frame longer than the decoder's maximum is never consumed: `decode` returns
  `nullptr` from then on.
* `~Logger` returns with messages in the queue if another thread is inside `LOG_*`,
  and the process may end before they are written; `setLogLevel` to a lower level
  lets messages through to sinks that drop them.
* `shutdownInLoop` shuts the write side down while output is pending, and does
  nothing when there is none; the output properties exempt a socket that was
  shut down.

## 6. Not modelled

* **Data and wording**: the contents of messages, names, addresses, logging. In
  particular `send(const std::string &)` from another thread, which passes a
  pointer to the caller's bytes, is not distinguished from the overload that
  shares a buffer.
* **Error paths of system calls** other than those of the socket and `accept`:
  failing `epoll_create`, `eventfd`, `bind`, `pthread_create` end the program
  or only log.
* The wrap of the sum `offset + length` in `Buffer::slice` (`Buffer.cpp:139`), for
  arguments near the largest `size_t`.
* `SIGPIPE` is assumed to be ignored by the application.
* A report of `epoll_wait` that names a connection which `~TcpServer`, called by a
  handler of the same report, has destroyed.
* A second call of `TcpServer::start`; `~TcpClient` on a thread other than the loop's;
  the destruction of a `TimerWheel` by one of its own tasks; the use of `mLogger`
  while a setter replaces it, or after `~Logger`.
* `Socket`, `InetAddress`, `Timestamp`, `CurrentThread`, `Types`, `Callbacks`: wrappers
  of system calls, a clock, a thread-local id and type aliases.
* **The rest of the vendored spdlog** (formatting, fmt, sinks, loggers and pools that
  `Logger` does not use). It is most of the repository's lines, which is why the
  share of all lines that the models cover is small although every component of
  protobase itself is modelled.

## 7. Plan

Done, in this order: `FunctorQueue`, `EventLoop` (everything else runs on it),
`Channel`, `Connection`, `TimerWheel`, `EventLoopThread`, `TcpServer`,
`Acceptor`, `Connector`, `TcpClient`, `Buffer`, `Timers`, `~TcpClient`, `Decoder`,
`Server`, `CircularQ` and `Logger`.

The proofs followed the same order: `EventLoop`, `EventLoopThread`, `Channel` and
`Connection`, `TcpServer` with `Acceptor`, `Logger`, `TcpClient`, `Buffer`, `Timers`,
`TimerWheel`, `Decoder`. Every safety property of the passing runs is now a theorem.

Next:

1. For the other liveness properties what `NoNotificationIsLost` is for
   `LoggedIsWritten`: the safety half, that whoever waits has been promised a step
   that ends its wait (a retry of `Connector`, the exit of the loops in `~TcpServer`).
2. Steps towards the liveness properties that need no `ENABLED`: what decreases with
   each step of a loop or of a retry, as action properties.
