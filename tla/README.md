# c_wrapper in TLA+

`c_wrapper` is a set of C++ wrappers around POSIX threads, condition variables,
timers and epoll for embedded programs, with a sample application.  These modules
model its concurrent parts, check them with TLC and prove their invariants with
TLAPS.  Module, action and variable names follow the source, and each
definition's lines are listed under `map` in `PROJECT.json`.

## The system

| Component | State | Operations | Hard behaviour |
|---|---|---|---|
| `WorkerThread` | `mState`, three flags, `mStateLock`, `mLifecycleLock`, two condition variables | `start`, `requestStop`, `stop`, `join`, `msleep`, the thread's entry and exit | callbacks outside locks, stop during start, join against callbacks in progress, self-stop |
| `Timer` | atomics `mState`, `mStopRequested`, `mExpiry`; configuration; `mControlLock`, `mWaitLock`, `mConfigLock` | `start`, `restart`, `stop`, destructor, setters; `tryBeginExecute`, `execute`, `requeue` from the loop | two sides that share atomics but no lock; destruction while the loop executes |
| `MainLoop` | timer list, function queue, command pipe, `mTerminated`, epoll set, watcher list | `loop`, `post`, `wakeup`, `terminate`, `addFdWatcher`, `removeFdWatcher`, `createTimer` | wakeups against sleeping, full pipe, full queue, events that are stale when they are handled |
| `SyncQueue` | `CircularQueue`, `mEOS`, `mCvFull`, `mCvEmpty` | `put`, `putForce`, `get`, `flush`, `setEOS` | signals to the right waiters, timeouts, broadcasts outside the lock |
| `CircularQueue` | buffer, size, front, rear | `put`, `get` | wrap-around |
| `RawObserverList` | slots with observer, call count, generation and two flags; a condition variable | `add`, `remove`, `removeAndWait`, `notify`, `contains` | removal and reuse of a slot during a notification, several waiters |
| `TimerThread` | start time, interval, repeat, handler; a `WorkerThread` | `start`, `restart`, `stop`, setters, `run` | handler called under a lock, clock arithmetic, calls while it sleeps |
| `AsyncThread` | task, lifecycle lock; a `WorkerThread` | `start`, `stop`, `run` | a task that is replaced while threads start and stop |
| `Pool`, `DataPool`, `ObjectPool` | bitmap, links, head of the free list, cells | `alloc`/`create`, `free`/`destroy`, `clear` | two structures that must agree, foreign addresses, double free |
| `ByteRingBuffer` | buffer, size, front, rear | `write`, `read`, `peek`, `drop`, numbers of both byte orders | copies in two pieces |
| `FixedFunction` | buffer, three function pointers | construction, moves, `reset`, call | a callable destroyed twice or never |
| `BitOps` | none | `mask`, `extract` | shifts at the width of the type |
| `Platform`, `Main.cpp` | installed signals, `sLoop`; the objects of `main()` | `init`, `deinit`, signal handler, `App::start`, `App::stop` | order of destruction against threads and signals, shutdown with a full queue |
| `Mutex`, `CondVar`, `Lock` | wrappers | | |
| `Log`, `SysTime` | output, clock | | |

They interact as follows.  `Timer` holds a reference to its `MainLoop`, puts
itself into the loop's list and writes the loop's command pipe; the loop calls
back into the timer, and the timer into its `ITimerHandler`.  `WorkerThread` runs
an `IWorker`; `TimerThread` and `AsyncThread` are `IWorker`s that own a
`WorkerThread`.  The sample service is an `AsyncThread` that reads a `SyncQueue`,
and the application a `WorkerThread` that writes it and a `Timer` whose handler
posts functions to the loop.  `Platform`'s signal handler calls
`MainLoop::terminate()`.

## Modules

| Module | Contents |
|---|---|
| `WorkerContract` | what an `IWorker` may rely on: the order of its callbacks |
| `WorkerThread` | `WorkerThread.cpp`, one action per section of a lock, system call or callback |
| `WorkerLife` | a `WorkerThread` as the classes built on it see it: its state, its `run()`, who holds `mLifecycleLock` |
| `WorkerThreadProofs` | its inductive invariant; that it implements `WorkerContract` and `WorkerLife` |
| `WorkerCalls` | threads that call `start()` and `stop()` of one `WorkerLife` |
| `TimerThread`, `AsyncThread` | the two classes that own a `WorkerThread`, on `WorkerCalls` |
| `App` | `Main.cpp` and `Platform.h`: the composition of loop, platform, worker, service and queue |
| `OwnersProofs` | the inductive invariants of `App`, `TimerThread` and `AsyncThread` |
| `TimerContract` | what a timer's owner and handler may rely on: the cycle of a timer |
| `Timers` | `Timer.cpp` and the timer half of `MainLoop.cpp` |
| `TimersProofs` | its inductive invariant; that it implements `TimerContract` |
| `MainLoop`, `MainLoopProofs` | the rest of `MainLoop.cpp`; its inductive invariant |
| `CircularQueue`, `CircularQueueProofs` | the ring buffer as operators on its fields; that it is a queue |
| `BoundedFifo` | what a `SyncQueue` promises: a bounded first-in first-out queue |
| `SyncQueue`, `SyncQueueProofs` | `SyncQueue.h`; its inductive invariant, and that it implements `BoundedFifo` |
| `ObserverContract` | what a `RawObserverList` promises to observers and to those who remove them |
| `ObserverList` | `ObserverList.h`, one action per section of its lock |
| `ObserverListProofs` | its inductive invariant; that it implements `ObserverContract` |
| `PoolContract`, `Pool` | what a pool promises; `Pool.h` |
| `ByteStream`, `ByteRingBuffer` | a bounded stream of bytes; `ByteRingBuffer.h` |
| `Bits` | `<<`, `>>` and `&` of C++ on unsigned numbers, as recursive functions |
| `FixedFunction`, `BitOps` | the headers of the same names |
| `Containers` | a pool, a ring and a few functions side by side, and `BitOps` on the numbers of the ring |
| `StorageProofs` | that `Pool` implements `PoolContract` and `ByteRingBuffer` implements `ByteStream`; that `BitOps` takes its numbers apart; that a callable has one owner |
| `MC*` | the same with small constants for TLC |

Operators that are commented "Mutant of X" are not used by the specifications: each
is X with a plausible mistake, and shows that a property notices it.

### How the code becomes actions

* A section between locking and unlocking is one action, unless it waits, calls
  user code or touches an atomic that somebody reads without the lock.  A lock
  that is held across such points is a variable with its owner (`lifecycle`,
  `control`, `functionLock`).
* `pthread_cond_wait()` is a wait set.  A thread that leaves it, by signal,
  broadcast, spuriously or on time, takes the lock again in a step of its own.
* An access to an atomic is a step of its own when another thread can tell.
  Memory is sequentially consistent: the code uses acquire and release on
  single variables, and where it stores one atomic and then loads another the
  two sides are also ordered by a lock or a pipe.
* A thread that executes user code (`IWorker::run()`, a handler, a posted function)
  may call what the interface allows it to; comments at `MayCall` and `Invoke`
  name the rules and where the source states them.
* `Mutex.h:41` reads `ABORT_IF(rc == 0)` after `pthread_mutex_init()`, so that
  as written every constructor of a `Mutex` aborts.  `RecursiveMutex` and `CondVar`
  abort on `rc != 0`.  The models start with objects that exist.

### WorkerThread

`mState`, the flags and the wait sets of the two condition variables are variables
of the same names.  `pc` holds where each caller and the worker is, and
`call` the operation it is in.  The worker's `run()` is the loop that
`WorkerThread.h:36` documents: it tests `shouldRun()`, sleeps, and may stop, join or
request a stop of its own thread.

### Timers

`mTimers` is the sorted list, `wake` says that the command pipe has a byte.  `pc[Loop]`
runs through `takeExpiredTimerLocked()`, `executeFromLoop()`, `requeueFromLoop()`
and `epoll_wait()`.  Controllers keep to the source's rules: a handler does not
control its own timer, and a timer is destroyed when no other thread uses it
(the loop may).  Two of these rules are in `Timer.h:36-46`, the last one is C++'s.

### MainLoop

`mFunctions` is a number: what the ring buffer does is proved in `CircularQueueProofs`.
`pipe` is the sequence of bytes in the command pipe.  `Timers` abstracts this
module's functions and watchers to `Disturbed`, and this module abstracts the timers
to "user code that runs, or not".  A signal handler is one more caller.

### SyncQueue

`cvFull` and `cvEmpty` are the wait sets of the condition variables.  `put()` and
`get()` come with an infinite, a zero or a finite timeout; a finite one may end
at any moment.  A thread whose wait times out has not consumed a signal.

### RawObserverList

`slot[t]` is the entry that thread `t` is calling or waiting for, `todo[t]` what is left
of its snapshot.  An observer is in a call from `acquireForNotify()` to
`releaseAfterNotify()`; a callback may add and remove, and `removeAndWait()` is for
threads outside of callbacks, as the comment above it demands.

* `mChanged.wait(lock, ...)` passes a `Lock` where `CondVar::wait()` takes a `Mutex`, so that
  `removeAndWait()` does not compile once it is instantiated.  It is modelled as if
  `mLock` were passed.
* `removeAndWait()` of an observer that somebody else has marked as removed returns
  `NotFound` although a callback may be in progress; the contract promises nothing there.
* `add()` of an observer that was removed and is still being called returns false.
* `releaseRemoved()` never finds anything: whoever returns last has freed the slot.

### Classes on a WorkerThread

`WorkerLife` is what is left of `WorkerThread` when flags, callbacks and condition variables
are forgotten.  That `WorkerThread` implements it is checked (`LifeSpec`) and proved
(`OwnersMayRely`), and the owners use its actions: `StopStep` is `stop()` in its three
sections, `StartStep` is `start()`, which may fail.

*TimerThread.*  `start()` and `restart()` stop the thread, set the times under `mLock` and start the
thread, in three sections that nothing holds together.  `due` is the earliest time at
which the next call may come according to the times that were in force since the timer was armed.
Things a user may not expect, which the model has:

* A `start()` that another one overtakes sets the times of a timer that is already running and starts nothing.
* `setInterval()` while the timer sleeps does not change the sleep, but the next start time moves by
  the new interval.
* A handler that calls `setRepeat(false)` and returns true is called once more, since
  `mRepeat` is read before it is called.
* An interval above `INT_MAX` becomes negative and the timer fires every millisecond; a sleep that
  is longer than `INT32_MAX` milliseconds ends there.

*AsyncThread.*  `start()` holds its own lock over stop, replacement and start.  `run()` is a callable that
returns when it likes.

*App.*  `alive` is the stack of `main()`'s objects, of which `App`'s members are destroyed last to first.
`App` declares `mThread` before the service that its `run()` uses, which `WorkerThread.h:44-46` warns
of; `~App()` calls `stop()` and so the order does no harm, which `UsedObjectsExist` is about.  A signal
interrupts any thread between any two steps, and its handler tests `sLoop`, stores
`mTerminated` and writes the command as three steps.  Signals outside of the time in which
the handler is installed end the process and are not modelled.

### Data structures

A chunk of the pool's bitmap is the set of its bits, an address is a number, and
`destroy()` is tried with every address from 0 to one behind the last cell.
`ByteRingBuffer` and `ByteStream` record the operation, what it returned and what it stored
for its caller, so that a step of the one is the same step of the other.  In `FixedFunction` an object is in
`mFnInvoker` when its three pointers are set, which the code always sets and clears together.

## Runs

| Run | Shows | Bounds |
|---|---|---|
| `worker_thread` | an accepted stop is not lost (`StopNotLost`); `pthread_join()` once per thread (`JoinIsSound`); nothing is left over when Idle (`IdleIsQuiescent`); what `stop()` guarantees (`StopLeavesIdle`); the callback contract (`ContractSpec`) and the life cycle that owners rely on (`LifeSpec`); whoever sleeps on a condition variable has somebody to wake it (`WaitersAreServed`); a requested worker ends (`RequestedWorkerExits`) and `mLifecycleLock` is released (`LifecycleReleased`) | two callers with every operation |
| `worker_stop_behind_join` | `stop()` behind a thread in `join()` does not request anything | the same |
| `timers` | the list and the states agree (`ListIsSound`); the loop does not sleep too long (`NoOversleep`); nobody who waits for the loop is waited for by it (`NoCircularWait`); an expired timer fires (`ExpiredTimerFires`) | two repeating timers, one controller, handlers that start and stop the other timer, two ticks |
| `timers_one` | a destroyed timer is gone (`DestroyedIsGone`); the contract | one timer, two controllers with every operation, handlers that reconfigure, intervals below and above `WaitTime` |
| `timers_hang` | a waiting `start()` may never return | one timer, one controller |
| `timers_destroy` | the loop may touch a destroyed timer | the same |
| `timers_stop` | a stop request may be lost | the same |
| `main_loop` | capacities; a function (`NoForgottenFunction`, `FunctionsRun`) and termination (`TerminationIsNoticed`, `TerminateEnds`) are noticed | one other caller besides user code in the loop, one watcher, a queue of two and a pipe of two bytes |
| `observers` | every slot is accounted for and comes back (`SlotsAccounted`); a waiter is told (`WaiterNoticed`) and `removeAndWait()` returns (`RemovalReturns`); who is called, and who is not (`ContractSpec`) | four threads, two observers, two slots, two `add()` |
| `storage` | bitmap, free list and ring are well-formed (`TypeOK`); the pool hands out each cell once (`PoolPromiseSpec`); the ring is a stream (`RingPromiseSpec`) whose numbers `BitOps` takes apart again (`ExtractedBytes`); no callable is lost or destroyed twice (`CallablesOwned`) | three cells in chunks of two bits, cells of two addresses; four cells of one bit each, numbers of one, two and four cells; three functions, two callables |
| `owners` | type invariant; the application uses no object that is gone (`UsedObjectsExist`), joins nobody who cannot end (`ShutdownGoesOn`) and returns after a signal (`MainReturns`); a `TimerThread` does not fire early, twice at a time or without its handler (`CallsOnTime`); the callable of an `AsyncThread` is not replaced under it (`TaskStable`) | two callers, which both start and stop the timer, two calls that change times, four ticks, `INT_MAX` 3 with intervals below, at and above; two tasks; a queue of two, two signals |
| `sync_queue` | type invariant; no consumer and no producer is forgotten; the end of the stream reaches everybody; the queue is first in, first out | three threads with every operation, two elements, capacity two |

The type invariants of `WorkerThread`, `Timers` and `ObserverList` are not among the properties of the
runs: they are proved (`TypeCorrect`, `TypesHold` and, as a part of its invariant, `ListInductive`).

Why these bounds: two callers are the least that race for a lifecycle lock or a
control lock, with the worker or the loop as the third party; more
only repeat the roles.  Two timers give a list with an order and handlers that have
somebody to control.  Two ticks let a repeating timer expire, be requeued and expire
again; one tick is enough for everything that happens to one timer, since every step
of the loop is possible at every time.  A pipe and a queue of two are full after two
writes, so that both limits are reached from every side.  In the queue,
three threads make two waiters of one kind and one that wakes them, and capacity
two lets the indices wrap around apart from each other.
Four threads over two slots give two notifications that overlap and two waiters for
different slots on the one condition variable; with two `add()` a slot is freed, reused
and met again by an older notification.  Three cells in two chunks make a bitmap with a boundary and
a free list that leaves its first order; four cells in the ring let every length start at every
place and wrap.  Two signals interrupt two threads at the same time, or a thread
that is already being terminated.

`storage` and `owners` put classes that share nothing side by side in one run:
each behaviour is about one of them (in `owners` the one that `subject` names), so that the
states add up instead of multiplying, and each class is checked under all of its behaviours.

`CHECK_DEADLOCK FALSE` is set for `Timers`, where the clock is bounded and every timer
may be destroyed, for `MainLoop`, which stops when the loop has ended, and for
`owners`, where `main()` returns and the application may wait for a signal for ever.

### Fairness

* Threads that can take a step do (weak fairness per thread).
* Locks are granted to a thread that competes for them again and again (strong
  fairness on taking `mLifecycleLock` and `mControlLock`): the schedulers that the
  code runs on do not starve a waiter of a mutex for ever.
* `run()`, handlers and posted functions return.  `run()` does so once `shouldRun()`
  is false, as `IWorker` demands.
* Nothing makes a controller call an operation, nothing makes a wait end
  spuriously, and `msleep()` is not assumed to be ended by its timeout: what is
  shown to wake up is woken.
* `TerminateEnds` and `FunctionsRun` hold if no posts and commands are begun after some time
  (`Quiet`): a function that posts itself keeps `while (runFunctions())` going.
  A post that has begun and hangs is no excuse.

* In `observers` callbacks return and a thread that is woken goes on.  In `owners` each thread of
  the application and each signal handler goes on; no signal has to arrive, and `msleep(1000)`
  ends.  `MainReturns` asks for a service that has a thread: if its thread could not be
  created, `App::start()` goes on without it and `App::stop()` may wait for ever for a worker that waits for
  room in the queue (`Main.cpp:98`).

### What the violations show

1. `worker_stop_behind_join`: `WorkerThread.h:93` describes `stop()` as
   "requestStop() + join()".  `stop()` takes `mLifecycleLock` first, so that behind a
   `join()` it does not request anything before the worker has ended by itself.
2. `timers_hang`: the loop changes `mState` and broadcasts without `mWaitLock`.  If
   both happen between the predicate and the wait in `stopAndWait()`, the wakeup is lost,
   and `start()` or the destructor waits for a timer that is already stopped.
3. `timers_destroy`: the destructor returns as soon as it reads `Stopped`.  The
   loop has yet to broadcast on the timer's condition variable.
4. `timers_stop`: `stop()` sets `mStopRequested` and returns.  `tryBeginExecuteFromLoop()`
   resets the flag after its compare-exchange, and `requeueFromLoop()` does not look at it
   after line 334; a request in either place is forgotten and the timer goes on.

## Proofs

All theorems hold for every value of the constants that the named assumptions allow:
any finite set of threads (`SyncQueue`, `ObserverList`), any set of callers and of timers, any
capacity from one, any pipe, any intervals and clock.

* **WorkerThread.**  `IInv` extends the checked invariants with who owns `mLifecycleLock`
  at which label, which labels go with which `mState`, how `requestStop()` calls in
  progress are counted, and when a life is open.  Without them a stop in the
  middle of `start()` cannot be excluded from losing its flag.  `Inductive`
  gives `TypeCorrect`, `StopRequestKept`, `JoinSound`, `IdleQuiescent`, `StopCompletes`
  and `CallbackContract`: every step is one step of `WorkerContract` or none.
  `NoWakeupLost` adds `WaitInv`: a thread in `mStateCv` is at one of three labels, and for each of
  them the predicate is still false and the thread that makes it true is on its way; since every
  step that changes a predicate also broadcasts, no waiter is left behind.
  `OwnersMayRely` shows the same for `WorkerLife`: on top of `IInv` it needs that only the
  holder of `mLifecycleLock` starts and reaps, and that the worker's label tells whether
  `run()` has been entered.
* **Timers.**  `TimersIInv` divides the timers among their users.  `Rights`: an operation holds its
  timer's `mControlLock`, except in the destructor, whose thread is alone with the timer.  `States`:
  between that thread and the loop `mState` decides, since `Executing` and `RequeuePending` are
  the loop's and each label of the loop goes with one of them.  A timer whose `mState` changes is
  therefore the one that the thread at that label has, and the list and the states can differ only
  where a thread is between its compare-exchange and `mTimerLock`.  This gives `ListStaysSound`,
  `NeverOversleeps` (every insertion wakes the loop, and the expiry it sleeps for is the least in a sorted
  list), `DestroyedStaysGone` (`Stopped` is what the destructor waited for, and nobody else can leave it)
  and `ContractKept`.  `NobodyWaitsInCircles` needs one invariant more, `HandlerElsewhere`: the
  operation that the loop is in, called by a handler, is on another timer than the one it executes.  So the
  holder of a control lock that the handler waits for does not wait for the handler, even when two handlers
  control each other's timers.  The three `violation` runs of this module are about what these theorems do not say.
* **MainLoop.**  `FunctionsAnnounced` and `TerminationAnnounced` extend the two checked
  invariants from `epoll_wait()` to all of the loop: only the drain empties the pipe, and
  after it the loop looks at the flag at once and at the queue before it waits again.
* **CircularQueue.**  `PutAppends` and `GetTakes`: on the sequence of the elements,
  `put()` is `Append` and `get()` is `Head` and `Tail`.  The argument is that an index
  wraps at most once, so that `%` is a subtraction, and that the rear differs from every
  slot in use.
* **SyncQueue.**  `IInv` is the checked invariants and the operations that may be at each
  label.  The no-lost-wakeup invariants are inductive because they count: an element more
  comes with one more consumer awake, and a consumer that is no longer awake has taken an
  element.  `ImplementsFifo` follows from the two theorems on the ring buffer.
* **ObserverList.**  `SlotsAccounted` counts the calls of an entry as the threads that are at its slot: a
  finite set that grows and shrinks by one thread.  It is inductive with `EntriesSound` (an observer
  is in one occupied slot, only a removed entry is waited for, no entry is younger than `mGeneration`),
  `ThreadsSound` (the same for a notification and its snapshot) and `WaiterNoticed`.  A slot is freed
  when its count is zero, so that whoever waits for it was told by the last of the callers.
  `ListKeepsPromises` maps the table to the set of registered observers: that a slot has been reused is
  noticed by its generation.
* **App.**  `AppIInv`: where `main()` is tells how many objects are on its stack (`Height`), whose threads
  may run (`Joining`: none before `App::start()`, none after the destructor has joined it) and
  that a signal handler which saw `sLoop` set interrupts a thread that `main()` has to wait for,
  or `main()` itself (`Handling`).  `NothingDangles` follows: each thread uses only what lies below the
  object that will join it.  `ShutdownNeverSticks` adds `Serving`: until the stream ends, a service that has a thread
  is Running and in its loop, so that the worker's `put()` finds room while `main()` joins it, and
  `main()` stops the service with the stream ended.
* **TimerThread.**  `TimerIInv`: the end of a wait is computed from the times that were in force, and `due`
  never lies behind it, whatever `setInterval()` and the `start()` of another thread do meanwhile (`OnTime`); `run()` is in the handler only with
  `mLock` and the handler that it read.  `FiresOnTime` follows.
* **AsyncThread.**  `AsyncIInv` says who owns both locks at which label; from it follows that a caller between
  its stop and its start finds the thread Idle, because starting it takes the lock that it holds.
  `CallableStable` follows: the one step that replaces the callable is taken there.
  `OwnersTyped` puts the three classes side by side as the run does.
* **Pool.**  `PoolIInv` has the free list as an injective sequence of all cells that the bitmap
  marks as free: `alloc()` drops its head, `free()` puts a cell in front, and their lemmas show it for any capacity
  and any width of a chunk (two cells have the same bit of the same chunk only if they are the same).
  `getIndex()` is the inverse of a cell's address and refuses every other number.  From this,
  `PoolStaysSound` and `PoolKeepsPromises`.
* **ByteRingBuffer.**  `PeekIsPart`, `WriteAppends` and `DropIsPart` show that the copies in at most two pieces
  are the subsequences and the concatenation that `ByteStream` speaks of, wherever the pieces
  are split.  `ValueIsNumber` shows that the loop of `_peekType()`, which adds shifted bytes in the
  order of the buffer, finds the number that they spell, for every radix and any count of them: the number of
  the first k digits, moved to its place, and the sum of the others' shifted bytes make up the whole.  The induction over k is
  `InductionUpTo` (a set of naturals has a least element), and `PrimitiveRecursion` shows that the
  recursive functions of both definitions exist.  With them `RingStaysSound` and `RingIsStream`.
  `NumbersComeApart` is the way back: `&` with a mask of n ones is the remainder by `2^n` (`AndMask`), a shift drops the
  digits below it, so that `extract_dynamic()` at the place of a byte finds that byte (`BytesAreExtracted`).
  `NumberRead` is its invariant: what the last read stored for its caller is the number of the bytes it
  looked at.  The theorem assumes `NumbersFit`: no number is wider than the type it is taken apart in, as
  with `read8()`, `read16()` and `read32()`.  `Bits` defines the operators by recursive functions, since the
  provers cannot use the recursive operators of the community's `Bitwise`.
* **FixedFunction.**  `OwnedByOne`: who can call holds a callable that exists, and no two hold the same.  This is
  what `CallablesOwned` counts.  `ContainersStaySound`, `CallablesStayOwned` and
  `ContainersKeepPromises` put the three containers side by side.

Model-checked only:

* the properties that need fairness, which is out of the prover's reach: `RequestedWorkerExits`, `LifecycleReleased`, `ExpiredTimerFires`,
  `FunctionsRun`, `TerminateEnds`, `RemovalReturns`, `MainReturns`.  The safety
  facts that they rest on are proved: `WaitersAreServed`, `NoCircularWait` and `NoOversleep`, `NoForgottenFunction`
  and `TerminationIsNoticed`, `WaiterNoticed`, `ShutdownGoesOn`.

## Not modelled

`Log` (output), the calendar part of `SysTime`, thread names and priorities, failures of
`pipe2()`, `epoll_create1()`, `epoll_ctl()`, `epoll_wait()` (except `EINTR`) and `read()` of the command pipe, memory
order weaker than sequential consistency, user code that breaks a rule which the source states
(`removeAndWait()` or `notify()` in a callback, an `AsyncThread` that stops itself, a `TimerThread` handler
that starts or stops its own timer), constructors, destructors and callables that use the pool
or function they live in, and in `App` its timer, which runs in the loop (see `Timers` and `MainLoop`).

## What is left

The components are modelled, and every invariant and action property that the runs check is proved, as far
as it does not need fairness.  What could be added: for `TimerThread`, that `due` is attained, i.e. an upper
bound on the wait as long as nobody changes the times; and for the hazards that no property covers, the
notes in `PROJECT.json` say what keeps them open.
