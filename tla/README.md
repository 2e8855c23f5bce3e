# A TLA+ model of rct

rct is a C++ support library: an event loop, sockets and message connections,
child processes, thread pools, locks, file system watching, and the containers
and strings they are written with. This directory models the parts of it whose
correctness depends on the order in which things happen, checks them with TLC
on small instances, and proves the most important properties with TLAPS for
every value of the constants. All line numbers are those of `src/rct`; the
models follow the Linux build (epoll, inotify, fork).

`PROJECT.json` lists the components, the runs, the lines each definition
translates, the hazards of the code and the theorems. A run is
`tlc -config X.cfg M`, the proofs of a module are checked with `tlapm M.tla`.

## The system

| Component | State | Operations | Hard behaviour |
|---|---|---|---|
| EventLoop | queue of events, two timer containers, socket callbacks, `mStop`, `mTimeout`, a pipe to wake itself | post, quit, registerTimer, unregisterTimer, register/update/unregisterSocket, exec | calls from other threads and from callbacks between any two steps of exec; the wake-up; ids that wrap; errors reported for a descriptor that is gone |
| ThreadPool, Thread | queue of jobs, list of threads, busy count, state of each job | start, remove, clearBackLog, setConcurrentJobs, destructor, waitForState | one condition variable for all workers; the pool shrinks and is destroyed while workers sleep, run or look at the queue |
| ReadWriteLock | count, write flag | lock, tryLock, unlock | timed waits, spurious wake-ups, last reader wakes the writers |
| SocketClient | descriptor, state, read and write buffer, `mWriteWait` | connect, write, close, socketCallback | partial writes, re-entrance from signals, one-shot registration with the loop |
| Connection, Message, Buffers | pending read and write counts, buffered input | send, the slots of SocketClient's signals, timeouts | messages in pieces, failures in the middle of one, disconnection while reading |
| Process | pipes, pid, result; map of children of the reaper thread, statuses nobody has asked for yet | start, exec, kill, write, closeStdIn, the reaper, finish | a child that ends before it is registered; timeout against the child's own end; the reaper against destruction |
| SocketServer, FileSystemWatcher, MessageQueue, Timer | descriptors, watch maps, one thread | listen/accept, watch/unwatch, send/receive | batches of events, connections and watches that vanish in between |
| SignalSlot | map of slots | connect, disconnect, emission | slots that change while they are called |
| String, List, Map, Set, Path, Value, Config, Serializer, Log, ... | values | pure functions, formatting, file I/O | boundaries of parsing |

Interaction: everything that waits for something registers a descriptor or a
timer with the `EventLoop` of its thread and is called back by it; threads talk
to each other through `EventLoop::post` (`callLater`), `ThreadPool::start` and
locks. `Connection` is driven by the signals of a `SocketClient`, which is driven by
the loop; `Process` is driven by the loop (pipes) and by one reaper thread.

What makes each part correct: no wake-up is lost and none is needed; each
queue hands out what was put in, in its order, once; counters are what they
count; time-outs belong to the call they were started for; nothing waits for
ever on something that has happened; what is torn down is not called again.

## Modules

| Module | What it is |
|---|---|
| `SharedExclusive` | what a readers/writer lock promises |
| `ReadWriteLock` | `ReadWriteLock.cpp`; implements `SharedExclusive` |
| `ReadWriteLockProofs` | its theorems |
| `Mailbox` | what `EventLoop::post` promises: in order, each once |
| `EventLoop` | `EventLoop.cpp` with epoll; implements `Mailbox` |
| `MCEventLoop` | its symmetry and the sets of exec timeouts for TLC |
| `EventLoopProofs` | its theorems |
| `ThreadPool` | `ThreadPool.cpp`, with the `Thread::join` it uses |
| `MCThreadPool` | its symmetry and sets of priorities for TLC |
| `ThreadPoolProofs` | its theorems |
| `SocketClient` | `SocketClient.cpp` for stream sockets, with the kernel and the peer |
| `Connection` | `Connection.cpp` on top of it: the composition of both |
| `MCConnection` | what the peer sends, for TLC |
| `ConnectionProofs` | theorems about both |
| `SequenceLemmas` | what the operators on sequences that the models use return (`InsertAt`, `RemoveAt`, `FlattenSeq`, folds, pieces and concatenations), for the proofs |
| `Process` | `Process.cpp`: exec and start, their children, the reaper thread |
| `ProcessInput` | `Process.cpp`: the standard input of a child |
| `ProcessProofs` | theorems about both |
| `SocketServer` | `SocketServer.cpp`, with the kernel's queue of connections |
| `FileSystemWatcher` | `FileSystemWatcher*.cpp` with inotify, for one directory |
| `EmbeddedLinkedList` | `EmbeddedLinkedList.h`, against a sequence |
| `PartsProofs` | theorems about `SocketServer`, `FileSystemWatcher` and `EmbeddedLinkedList` |
| `Path` | `Path::canonicalize`, against what a path means |
| `PathProofs` | its theorem |
| `MCParts` | `ReadWriteLock`, `ProcessInput`, `SocketServer`, `FileSystemWatcher`, `EmbeddedLinkedList` and `Path` side by side, for TLC |

Definitions named `Bad...`, `Silent...`, `Lazy...`, `Hasty...` and the like, or marked `Mutant`, stand before the
definition that they vary: each is that operation with a plausible mistake,
and a property is worth its run only if such a mistake breaks it. They are used
by nothing else.

### ReadWriteLock

`mCount` and `mWrite` are the members; a locker's `pc` says whether it is at
rest, in `mCond.wait` ("asleep"), notified and after the mutex ("awake"), past
its `maxTime` ("expired"), holding the lock or done. Every locked section is one
step, because the only place that gives the mutex up is the wait. Each
locker takes the lock once, so the number of lockers bounds the run.

### EventLoop

State: the members, plus what the loop's thread has in its locals (`fired`,
`deadline`, `batch`, ...), plus the outside world: a clock, the bytes in the
pipe, what epoll has been told and has still to report about each descriptor.
`pc` is the place of the loop's thread in exec; callbacks are places too
("event", "timer", "socket"), in which the loop's own thread may make any
call, exec apart. `mMutex` is a variable because `wakeup` blocks in
`write` while holding it (line 316): a locked section that ends in a wake-up is
two steps, the change and the write, and nobody else enters a locked section in
between. All other locked sections are one step. The unlocked clearTimer
at the end of exec (line 1015) ignores `mMutex`, as the code does.

epoll is external: edge-triggered, one-shot and level-triggered registrations,
an edge that is lost when the descriptor is modified or deleted, events that have
been handed over in a batch already. `owed` is a history variable: a change
no callback has been told of.

Times are small integers; `Tick` may happen at any point, so every duration of a
callback is covered. `MaxTime` bounds the clock. `waitUntil` is a duration, counted from
`pollStart`, the last call of epoll_wait; `deadline` is a history variable, the time at which the wait
was to end when it was computed. Signals that have no handler of the loop's, such as the SIGCHLD of `Process`
(Process.cpp:103), interrupt epoll_wait, and eintrwrap calls it again with all of `waitUntil` (line 949,
`PollInterrupted`). That makes a timer late, by one wait for each signal, and concerns neither posts nor quits:
`NoLostWakeup` speaks of timers before the planned end, `TimersFire` and `ExecTimesOut` say that a late
one still fires.

### ThreadPool

A worker's `pc` is its place in `ThreadPoolThread::run`; `control` is the place
of each caller of `setConcurrentJobs` or of the destructor, which let go of `mMutex`
around stop and join. `std::sort` is modelled by what it promises: any
permutation in order of `jobLessThan`, equals in any order; the comparison is
unsigned as in the code, modulo `UintMod`. Assumptions on the callers: a `Job`
object is started again only when its last start has come to its end, nobody but a running
job calls the pool once its destructor has begun, and jobs do not resize
the pool they run in.

### SocketClient and Connection

One thread runs all of it, but the signals of a `SocketClient` call slots in the middle
of `writeTo` and `socketCallback`, and slots write and close again. So `stack` holds the
frames of the thread, innermost first, and a step ends at every system call and at
every signal; in between the kernel takes bytes, bytes arrive, the peer closes or resets.
`SocketClient` pushes a frame named after the signal; `Connection` says what its
slot does, and pushes frames for the slots of the user (`mNewMessage`, ...), where sends and
closes may happen. A byte is a pair of the message and the place in it, so that a byte
lost, doubled or out of place shows. A message is a length of `HeaderSize` bytes
and a body; the fields in front of the body, compression and the cache of `prepare` are
part of the body. `interest` and `queued` are what epoll knows of the descriptor: `queued`
is set by an edge, and by a registration of what is ready already.

Assumptions. Slots of error and disconnected do not send; slots of sendFinished
only when `SlotSends` says so. Writes to a peer that is gone fail with an error (the
program ignores SIGPIPE). Bytes that were read before a `Connection` was attached are
claimed before the next event of that socket (`Claimed`): the read loop would otherwise count from zero
and cut the buffer (line 647), a hazard that is listed and not run. `SocketError`
is never passed to `socketCallback`: after `EPOLLERR` or `EPOLLHUP` the loop erases the entry of
`mSockets` before `fireSocket` looks it up (EventLoop.cpp 777).

Properties between callbacks (`AtRest`) say what must hold whenever the loop waits;
those about a frame (`SendFinishedIsTrue`, `AssertsHold`) what a slot may rely on.
`quiet` marks closes that the program knows of: its own, a message that could not be read,
a buffer that grew too large, a connect that returned false. They are not signalled.

### Process and ProcessInput

`exec` runs on a thread of its own and waits in select; `start` belongs to an event loop. `pc`
is the place of each call. The reaper has the byte of SIGCHLD, then reaps until
waitpid finds nobody: it holds `sProcessMutex` all along ("reap"), except around
finish ("call"), where it holds nothing but a pointer. kill and the timeout of exec
take no lock and, on the thread of exec, are cut at every access to `mReturn` and `mPid`: the reaper may
call finish in between. kill is called at the timeout, and by the slots of readyReadStdOut, which run inside exec
("slot", for the calls in `SlotKills`). A started process has finish, kill and its callbacks all on the loop's thread, so its kill
is one step. Children exec or fail
to, write, and end at any point by themselves or of a signal, also before the
handshake is over; `sigchld` is one bit, since signals are not queued. A fork may
fail. `run` and `exit` are history: the child of the call, and how it really ended.
stdout stands for stderr, which takes the same way. handleOutput drops all that `mStdOutBuffer` holds when more
comes than 256 MB (848-852): `MaxSize` is that limit, `Buffered` what is left, and nobody takes output out meanwhile.

`FinishedIsTrue` says of a call that is over: the child has ended, all it wrote has been read, and it is
all in the buffer unless it is more than that holds. returnCode is how the child ended, or `ReturnKilled`, and that only for a call
whose slots kill and whose child wrote something (`ToldReturns`): finish may come between the test of kill and its
write (875), and a child that had ended by itself is then reported as killed.

Assumptions: a `Process` is used again only after `clear`, is not destroyed before
finish has run (see below), pids are not reused unless `ReusePids` says so, and no third thread kills the child of an exec.

`ProcessInput` is the queue of strings for the child, written in pieces by `write` and by
the loop's callback. Each `::write` is a step, the child reads in between, and
units are numbered so that one lost, doubled or out of place shows.

### SocketServer

The kernel's queue, the one event per arrival (the registration is edge-triggered),
the accept loop and the queue of `nextConnection`. The slot of newConnection is a place of
its own ("slot"), in which the program may take connections, close the server or listen
again; after a close the loop calls accept on -1, reports `AcceptError` and ends.

### FileSystemWatcher

A directory with files that are created, written, deleted and renamed while events
wait to be read. A batch is netted out under the lock and reported by the same
thread, so it is one step; removals wait for a timer when there is a delay. `listed`
is what a listener believes who adds what is added and drops what is removed.
Watches of earlier descriptors may still have events in the queue: they are ignored.

### EmbeddedLinkedList and Path

The list operations on `next`, `prev`, the ends and the count (`listCount`), next to the sequence they stand
for. `Path` is the loop of `canonicalize`, one round a step, with `i` allowed below 0 as
far as a `size_t` gets there; `Place` says where a path leads by walking its names. The empty path, which `Path()` is,
is read outside by the first test of the loop (`len - 1` with `len` 0, line 201, and again in line 229): it is one of the
initial states, and `SamePlace` leaves it out together with the root and paths that climb above their start.

## Runs

| Run | Instance | Checks |
|---|---|---|
| `eventloop_wakeup` | 2 threads beside the loop, 2 posts, a quit, a timer, 2 execs with or without timeout, a signal, an interrupted wait, 2 timer ids | `NoLostWakeup`, `TimersAgree`, `TimeoutIsFresh`, `TimeoutIsEarned`, `ImplementsMailbox` |
| `eventloop_sockets` | 2 descriptors in all modes, 3 socket calls by the loop or another thread, 3 events, epoll errors, inactivity timeout | `NoLostReadiness` |
| `eventloop_live` | 1 thread, 2 posts, a quit, a timer, an interrupted wait, fair | `QuitReturns`, `ExecTimesOut`, `PostsRun`, `TimersFire` |
| `eventloop_pipe_full` | a pipe of 2 bytes, 2 threads, 3 posts, fair | `ExecTimesOut` is violated |
| `threadpool_safety` | 3 workers, 3 jobs, 3 priorities, 2 resizes, destruction | `BusyIsRunning`, `NoStrandedJob`, `QueueOrdered`, `PoolSize` |
| `threadpool_live` | 2 workers, 2 jobs, 1 waiter, 1 resize, destruction, fair | `JobsLeaveQueue`, `ControlReturns`, `FinishIsSeen` |
| `connection_safety` | client or server side, 2 messages each way (one of them perhaps bad), kernel of 2 bytes, write buffer of 4, with and without timeout | `StreamIntact`, `NothingLost`, `WriteArmed`, `ReadArmed`, `MessagesIntact`, `NoHeldMessage`, `SendFinishedIsTrue`, `LossIsReported` |
| `connection_live` | 2 messages out, 1 in, fair | `SendsComplete`, `MessagesArrive` |
| `connection_slot_sends` | slots of sendFinished send, 2 messages | `AssertsHold` is violated |
| `process` | 1 exec with a timeout and slots that kill, 1 start, 2 children, 2 units of output in all for a buffer of 1, fair | `StatusNotLost`, `FinishedIsTrue`, `EndsAreSeen` |
| `parts` | 3 lockers, any type, timed or not, fair; 6 units of input for a pipe of 2; 4 connections, 2 listens, slots that close; 2 files, 4 changes, with and without delay; 4 nodes; all paths of up to 8 characters over "/", "." and a letter | `CountIsHolders`, `Exclusion`, `SleepersAreBlocked`, `WaitersReturn`, `ImplementsSharedExclusive`; `InputIntact`; `ConnectionsServed`; `ListenerIsRight`; `LinksAreOrder`; `SamePlace` |
| `process_timeout` | 1 exec with a timeout | `SyncCallerWaits` is violated |

Why the bounds are enough. A lost wake-up needs one call and one pass of the
loop; two threads let one call be in its write while another waits for the
lock, and two execs let the first leave something behind for the second. Two timer
ids with a timer of the user beside the quit timer make the ids wrap
and be reused at once. One interruption of epoll_wait makes a wait late, so that a call, a tick or another
timer falls between its planned and its real end; `MaxTime` lets a wait that has begun again end. Two descriptors let the callback of one change the other
within a batch. Three workers let one be stopped while one sleeps and one runs;
three jobs are the fewest for which start has to sort. A kernel of two bytes and messages
of three make every write partial, leave an offset in the buffer, and let the second send find the
buffer empty, waiting or too full; two messages of the peer come together or in pieces.
Two children of two calls are the fewest for which one signal stands for two ends, and for which
the status of one waits while the other is still starting or has failed to. Two units of output overflow a buffer of one,
or are those of two children. A pipe of two and strings of up to three
make writes partial and leave an index in the first string; four connections against a queue of two
come while others are accepted. Two files and four changes let one be renamed onto the name of
another that has gone, in the same batch or the next. Eight characters hold two ".." behind
names. The six parts of `parts` share nothing, and a behaviour moves only one of them: the states add up.
No run checks deadlock: a loop nobody calls, a pool without jobs and a closed connection may stop.
What must not stop is said by the liveness properties.

Fairness. `parts`: of the lock only; the mutex is granted to whoever keeps asking and holders unlock;
calls are not fair. `eventloop_live`: the loop's thread and a thread in wakeup run
on, callbacks return, and time passes. It is weak fairness throughout; the
liveness properties are about the code's own doing, and
calls never have to come. The pipe of `eventloop_live` holds more bytes than
the run can write, and its timers have at least one unit: what happens otherwise is
`eventloop_pipe_full`, and the next paragraph. `threadpool_live`: threads run on and jobs
end. `connection_live`: the loop delivers events, slots return, the peer reads what it is sent
and the kernel ends a connection attempt; nobody has to send, to attach or to close. `process`: the threads of
Process and its callers run on, signals are delivered, a forked child execs or fails; no child has to end and nobody has to start one.

More that the models, or the reading for them, show, and that has no run of its own:

- `SocketError` is not delivered (see above), though the callbacks of `SocketClient` and `Process` handle it.
- Process.cpp:115 tests `!pending`, the argument, which is never 0, where `!sPending` was meant: statuses of
  children whose start failed stay in `sPendingPids` until the next `addPid` that finds nobody starting. With
  `ReusePids = TRUE` TLC finds the assertion of line 228 failing (`PendingPidsAreFresh`). An entry that `removePid` left in
  `sProcesses` is met by a reused pid in the same way.
- The destructor of a `Process` whose child runs kills the child and leaves the pointer with the reaper (295), which
  posts finish on it to the loop. kill may see `mPid` become -1 between its test and `::kill(-1)` (875).
- closeStdOut closes its descriptor twice (701); a fork that fails leaves closed descriptors in the members (448),
  which the destructor closes again. The handler of SIGCHLD spins while the pipe is full (257), for ever if it
  interrupted the reaper. clear leaves `mStdOutBuffer` as it is (341).
- `tests/ProcessTestSuite.cpp:147` expects a process that was started without an event loop to become finished;
  line 212 never calls finish for one.
- FileSystemWatcher: a rename onto an existing file and the removal of that file in one batch cancel out
  (`Overwrites = TRUE` violates `ListenerIsRight`). A directory that was deleted stays in the maps, so watch returns false
  for it afterwards (78). unwatch does not add the slash that watch adds (96). Each change restarts the
  timer of removals (FileSystemWatcher.cpp:36), so that steady changes delay them for ever. `IN_Q_OVERFLOW` is ignored.
- SocketServer: nextConnection takes the mode from the path of now (207): connections accepted before a close, and all of
  `listenFD`, which the header marks as UNIX, are handed out as Tcp. Any error of accept closes the server, a
  shortage of descriptors too (236).
- Path: the empty path is read outside at once, "/" and what comes to it become empty, "/a/.." and "/." are read out of bounds; "b/../../a" becomes "b/a";
  after a cut near the beginning the loop ends, and "/a/../b/../c" becomes "/b/../c".
- MessageQueue: SIGUSR2 may come before msgrcv sleeps (58), and the join of the destructor then waits for ever.
  SignalSlot: a slot that is disconnected during an emission is still called (74).

A periodic timer of 0 ms
(or with callbacks longer than its interval) keeps the inner loop of exec (line 914) going,
so that `mStop` is never looked at; the live run needs intervals of at
least one. And exec does not return when no events are pending, as the comment at
`EventLoop.h:211` has it: it sleeps until quit, a timeout, a signal or an error.

### Findings

- `eventloop_pipe_full`: `wakeup` writes to a blocking pipe with `mMutex` held. When the
  pipe is full the writer sleeps as the owner of the mutex that the loop
  needs before it can drain the pipe, and neither moves again.
- `connection_slot_sends`: `writeTo` signals the bytes written before it updates buffer and
  offset. A slot of sendFinished that sends while the buffer is flushed makes `writeTo` write the whole buffer
  again; the peer gets the bytes twice and the assertion of `onDataWritten` fails.
- `process_timeout`: the reaper has erased the entry of a child and given up the mutex, and is about to call finish on the
  `Process`. An exec that times out at this point calls `removePid`, which finds nothing, and
  returns; the caller may destroy the object finish is called on. The comments at lines 213 and 626 say
  that this cannot happen.

## Proofs

All theorems are about every behaviour of `Spec`, for any value of
the constants that satisfies the named assumptions: a finite set of lockers or
workers, bounds that are natural numbers, ids of any width, priorities within
`-UintMod .. UintMod-1`. Some theorems, or groups of them, have a further hypothesis, each because the property is false of the
code without it. The first and the last have it inside their property, the others on a constant:

| Theorems | Hypothesis | Without it |
|---|---|---|
| `QueueAlwaysOrdered` | no priority is negative | `jobLessThan` compares them as unsigned |
| `TimeoutAlwaysEarned` | `MaxTimers + MaxExecs < IdMod` | ids wrap, a timer of the user gets that of a quit timer that has fired, and exec clears it: 2^32 registrations away |
| `ReadinessNeverLost` | `MaxSignals = 0` | the byte 'q' of the signal handler ends processSocketEvents, and the rest of its batch is dropped |
| all of `ConnectionProofs` | `SlotSends = FALSE` | the finding `connection_slot_sends` |
| `StatusNeverLost`, `FinishedAlwaysTrue` | `ReusePids = FALSE` | statuses left in `sPendingPids` are taken for those of a later child (see above) |
| `ListenerAlwaysRight` | `Overwrites = FALSE` | a rename onto an existing file and its removal in one batch cancel out (see above) |
| `CanonicalLeadsTheSame` | the path is not empty, not the root, and does not climb above its start | such paths come out empty, are read outside, or lead elsewhere (see above) |

**ReadWriteLock.** `IInv` is types, `CountIsHolders`, `Exclusion` and
`SleepersAreBlocked` together: the count is needed to know that the last one
out sees zero, exclusion to know that it may clear the flag, both to know
that nobody sleeps without a reason. `CountCorrect`, `MutualExclusion`, `NoLostWakeup`
and `AssertionsHold` follow; `Refinement` shows that each step is a step of
`SharedExclusive` or leaves it alone.

**EventLoop.** `NoLostWakeup` is not inductive: the loop's last looks at the
queue, at `mStop` and at the timers are three different steps. `IInv` says of each what is
watched from there on (`QueueWatched`, `StopWatched`, `TimerWatched`) and that a
round of timers that fired goes back to the queue (`RoundOpen`). The argument: a call
from another thread leaves a byte behind or is about to (lemma `CallWakes`),
and only the loop takes bytes away, after which it looks at everything again
(`WakeupStays`). `TimersAlwaysAgree` rests on the lemmas on `InsertAt` and
`RemoveAt`: the three operations on timers change both containers together,
and a timer is put behind the others of its time. `PostsAreAMailbox` needs that the queue
holds consecutive numbers. `TimeoutAlwaysFresh` and `QuitTimerNeverStale` have
small invariants of their own. `TimeoutAlwaysEarned` counts registrations: as long as
the next id has not come round, the quit timer's is nobody else's. `ReadinessNeverLost` rests on
`ReadyInv`: a change that is owed to a callback is with epoll, in the part of the batch that
is still to be looked at, or with the callback under way; a batch is at hand only while it is processed. It is
the register, update and unregister calls between two entries of a batch that make it hard: each either
leaves the entry alone or has epoll look at the descriptor again.

**ThreadPool.** `IInv` is types, `ControlOK` (nobody else touches `mThreads` while the
destructor walks it, which keeps its index in range), `BusyIsRunning`,
`NoStrandedJob` and `StoppedAreAwake`. The last one is what `NoStrandedJob`
needs: `notify_one` must not be spent on a worker that has been stopped, and
`stop` sees to it by waking everybody under the lock. The counting uses the
cardinality facts of the library. `QueueAlwaysOrdered` has the invariant
`OrderInv`: queued priorities are among `Priorities`, and when none is negative the
queue descends, because signed and unsigned order agree. `PoolSizeCorrect` has `SizeInv`: which threads a
resize under way has taken from the list and which it has still to stop (`ResizeShape`, `ResizeThreads`),
the same of the destructor (`DestroyThreads`), and that only a thread that was stopped leaves its loop
(`ExitsAreStopped`). Like `PoolSize` it is about one caller of `setConcurrentJobs` at a time.

**SocketClient and Connection.** `Inv` is a conjunction of nine parts. `Linked` says which frame may lie
on which: the stack is a chain of callers and callees, and every step replaces a few frames on its top
(lemmas on `Push`, `First`, `Second`), so that nothing has to be said about frames further down.
`OutTypes`, `InTypes`, `Fresh` and `Reports` are types and what holds before the first connect. The heart is `Books`:
`Pending` is what is left to be written, wherever it is now, namely the buffer from its offset on without what the flush loop
has written of it already, then what is left of the data of the writing frame, then the body that its send
has still to pass; and `accepted \o Pending = sent`. Each step moves bytes between these places and leaves the concatenation
as it is; the lemmas on `SubSeq` and `\o` do that part. `Counts` bounds offset and totals by the
lengths they index. `Armed` says for each place of the thread which registration epoll has and who
is going to renew it, and `Losses` who is still going to report a loss. `StreamIntact`, `NothingLost`,
`SendFinishedIsTrue`, `WriteArmed`, `ReadArmed` and `LossIsReported` follow from `Inv` in a few lines each.
The input has an invariant of its own on top of it, `InputInv`. `Cut` says that what has been cut off is the first
messages of the peer, and perhaps the header of the next, and that `mBuffers`, `mReadBuffer` and what is still
to be read are the rest of its stream: of two ways to cut the same bytes in two, the shorter first part begins the longer (`TwoCuts`),
so the length that is read and the body that is compared are those the peer wrote, wherever the reads ended. `Emptied` says who still has to
look at what was read: a frame that reads or parses, the timer of `checkData`, or nobody, and then nothing is in
`mReadBuffer` and less than a header, or than the message announced, in `mBuffers`. `MessagesIntact` is `Cut`;
`NoHeldMessage` compares lengths.

**Process.** `ProcInv` ties three pieces of state together: the children that exist, the calls that own them,
and the two maps under `sProcessMutex`. `Kept` says that a status the reaper got from waitpid is in `sPendingPids`, at its finish, or with its
call; `PendingCounts` that `sPending` is the number of calls between fork and addPid, so that the
reaper keeps statuses as long as somebody may ask for them; `CallIsTrue` and `LaterIsTrue` that what finish
and addPid report is how the child of this very call ended. **ProcessInput**: the strings queued, from the index into the first on,
are what was given to write and not yet written (`Queued`, `Position`, `Stream`), and a close that is put off
happens when the queue is empty (`Closing`).

**SocketServer.** The connections that were handed out, those waiting in the server, and those in the kernel's queue
are one sequence of consecutive numbers, `Known`: every step appends the next, forgets the
kernel's part when the descriptor is closed, or leaves it as it is (`KnownStep`).

**EmbeddedLinkedList.** `Listed` says that next, prev, the ends and the count are the links of a sequence
without repetition; one lemma says that inserting behind a node, and one that taking a node out,
keeps it.

**FileSystemWatcher.** `WatcherInv` says that the events not yet read lead, each as it may happen
(`Happens`: nothing is created that is there or deleted that is not), from `listed` without the pending removals
to the files of the directory (`Leads`). A batch is a fold over its events, and `FoldLeft` is opened up into one step per event
(`FoldExists`, `BatchIs`): after each, what is pending is the difference of `listed` and the files of that moment (`Nets`),
so at the end of the batch it is that of `listed` and the directory.

**Path.** `Place` is two folds: one over the characters, which gives the names, and one over the names, which walks them.
The proof reads a path by one fold instead (`Reads`): after each character a state holds where the finished names lead
and how much of the next name there is. A cut then leads nowhere when the states at its two ends lead to the same place
(`Alike`, which forgets how often an absolute path tried to climb above the root), since the same characters follow
(`RestLeads`, `CutLeads`). For `//` and `/./` that is at once so (`SlashLeads`). For `name/..` it is so only if `name` is a name
(`ThereAndBack`): not empty, not `.`, and not `..`. Hence the second half of `PathInv`, `CleanTo`: up to the cursor the path
has no `//`, no `/./`, and a `/..` only behind the name it starts with. That one case stays because the
code skips a parent with no slash in front of the name before it. A second `/..` behind it makes the code take out `../..`:
in an absolute path both lead to the root, and a relative one climbs above its start, which `Descends` excludes. `CleanStays` carries `CleanTo` over a cut, which moves the cursor back far enough, or below 0,
where the loop is over.

The library's induction theorems cannot be used (they take an operator as an argument), so facts that
go through a sequence place by place are proved from a least counterexample (`LeastNatural`, `InductionUpto` in
`SequenceLemmas`).

Every invariant and every action property that a run checks is stated by a theorem.
Only model-checked: the liveness properties, as fairness is out of the prover's
reach. The types (`TypeOK`) of the lock, the loop and the pool,
`AssertsHold` of the lock and `NoStaleQuitTimer` are proved and no longer part of a run.

## Not modelled

Allocation, memory reclamation and data races on unlocked fields (the one
at `ThreadPool.cpp:134` is modelled as a stale read); `EventLoop`'s init, cleanup and
processSocket; UDP and blocking sockets; the destructor of `Process` and the end of its reaper thread, `readAllStdOut`, and kill
from a third thread while an exec is under way; the kqueue and select
builds; Windows and macOS.

`MessageQueue` is left out because send queues the address of its data and not the data, which leaves nothing
for the receiving side to promise; `SignalSlot` and `Timer` because they add no step of their own to
the models of their users; `Semaphore` and `SharedMemory` because their state is the operating system's.
Vendored JSON (half of the lines of the repository), cryptography,
geometry, formatting, parsing, serialization and wrappers of standard containers are sequential code on values, which
unit tests reach. So the lines that the models cover are a small share of all lines, and most of those
that run concurrently. `PROJECT.json` names every component with its status.

## Plan

1. `ReadWriteLock`, `EventLoop`, `ThreadPool` with their proofs: done.
2. `SocketClient` and `Connection`: modelled, checked and proved.
3. `Process`, `ProcessInput`, `SocketServer`, `EmbeddedLinkedList`, `FileSystemWatcher`: modelled, checked and proved.
4. `Path`: modelled, checked and proved.
