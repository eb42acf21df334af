-------------------------------- MODULE Timers --------------------------------
(***************************************************************************)
(* common/Timer.cpp together with the timer half of common/MainLoop.cpp:   *)
(* Timer objects controlled by any thread, and the thread in               *)
(* MainLoop::loop() that takes expired timers from the sorted list, runs   *)
(* their handlers and puts repeating timers back.                          *)
(*                                                                         *)
(* A section of mTimerLock or mConfigLock is one action, and so is every   *)
(* access to mState and mStopRequested that another thread can observe:    *)
(* both are atomics that the two sides use without a common lock.          *)
(***************************************************************************)
EXTENDS SequencesExt

CONSTANTS
  Timers,         \* the Timer objects
  Controllers,    \* threads that control timers from outside
  Loop,           \* the thread in MainLoop::loop()
  Nobody,         \* the owner of a free mControlLock
  Infinite,       \* Timer::Infinite
  Intervals,      \* the intervals that start() and setInterval() are given
  Repeats,        \* the repeat flags that start() and setRepeat() are given
  WaitTime,       \* MainLoop::WaitTimeMs
  MaxTime,        \* bound on the clock
  ControllerOps,  \* the operations that controllers use
  HandlerOps      \* the operations that a handler uses

Threads == Controllers \cup {Loop}

ControlOps == {"start", "restart", "stop", "destroy"}

ConfigOps == {"setHandler", "setInterval", "setRepeat"}

Ops == ControlOps \cup ConfigOps

ASSUME TimersAssumption ==
  /\ Loop \notin Controllers
  /\ Nobody \notin Threads
  /\ Timers # {}
  /\ Infinite \notin Nat
  /\ Intervals \subseteq Nat \cup {Infinite}
  /\ Repeats \subseteq BOOLEAN
  /\ WaitTime \in Nat \ {0}
  /\ MaxTime \in Nat
  /\ ControllerOps \subseteq Ops
  /\ HandlerOps \subseteq Ops

VARIABLES
  mState, mStopRequested, mExpiry,  \* the atomics of each timer
  mHandler,       \* whether mHandler is set
  mInterval, mRepeat,
  control,        \* owner of each mControlLock
  dead,           \* timers whose destructor has returned
  mTimers,        \* MainLoop's list
  wake,           \* a byte is waiting in the command pipe
  now,            \* SysTime::getTickCountMs()
  pc,             \* where each thread is
  call,           \* the operation each thread is in, with its arguments
  current,        \* expiredTimer of runTimers()
  keep,           \* what its handler returned
  deadline,       \* when the epoll_wait() in progress times out
  halted          \* history: timers that a stop() left since their last start()

atomics == <<mState, mStopRequested, mExpiry>>
config == <<mHandler, mInterval, mRepeat>>
list == <<mTimers, wake>>
loopLocals == <<current, keep, deadline>>
ghosts == <<dead, halted>>
vars == <<atomics, config, control, list, now, pc, call, loopLocals, ghosts>>

TimerStates == {"Stopped", "Queued", "Executing", "RequeuePending"}

SomeTimer == CHOOSE i \in Timers : TRUE

NoCall == [op |-> "stop", timer |-> SomeTimer,
           interval |-> Infinite, repeat |-> FALSE]

Init ==
  /\ mState = [i \in Timers |-> "Stopped"]
  /\ mStopRequested = [i \in Timers |-> FALSE]
  /\ mExpiry = [i \in Timers |-> 0]   \* (-1 in the code; not read before start())
  /\ mHandler = [i \in Timers |-> TRUE]   \* the owner has called setHandler()
  /\ mInterval = [i \in Timers |-> Infinite]
  /\ mRepeat = [i \in Timers |-> FALSE]
  /\ control = [i \in Timers |-> Nobody]
  /\ dead = {}
  /\ mTimers = <<>>
  /\ wake = FALSE
  /\ now = 0
  /\ pc = [t \in Threads |-> IF t = Loop THEN "take" ELSE "idle"]
  /\ call = [t \in Threads |-> NoCall]
  /\ current = SomeTimer
  /\ keep = FALSE
  /\ deadline = 0
  /\ halted = {}

-------------------------------------------------------------------------------
(* Helpers *)

Goto(t, l) == pc' = [pc EXCEPT ![t] = l]

\* The timer that thread t operates on.
Target(t) == call[t].timer

OpLabels == {"restart", "control", "load", "flag", "check", "block", "blocked",
             "schedule", "add", "remove", "wakeup"}

\* Thread t is inside an operation on timer i.
Using(t, i) == pc[t] \in OpLabels /\ Target(t) = i

Busy(i) == mState[i] \in {"Executing", "RequeuePending"}

\* Where a thread is once its call has returned.
Home(t) == IF t = Loop THEN "called" ELSE "idle"

Return(t) ==
  /\ Goto(t, Home(t))
  /\ call' = [call EXCEPT ![t] = NoCall]

\* The call returns and the Lock on mControlLock goes out of scope.
ReleaseAndReturn(t) ==
  /\ control' = [control EXCEPT ![Target(t)] = Nobody]
  /\ Return(t)

SetState(i, s) == mState' = [mState EXCEPT ![i] = s]

\* makeExpiry() for a finite interval.
makeExpiry(interval) == now + interval

\* MainLoop::insertTimerLocked(): a timer that is not listed yet goes before
\* the first one that expires later.
insertTimerLocked(i) ==
  LET later == {k \in DOMAIN mTimers : mExpiry[i] < mExpiry[mTimers[k]]}
      pos == IF later = {} THEN Len(mTimers) + 1 ELSE Min(later)
  IN IF Contains(mTimers, i) THEN mTimers ELSE InsertAt(mTimers, pos, i)

\* mStateChanged.broadcast() on timer i by thread t, which goes on to l: the
\* threads blocked on i test their predicate again.
Broadcast(i, t, l) ==
  pc' = [u \in Threads |->
           IF u = t THEN l
           ELSE IF pc[u] = "blocked" /\ Target(u) = i THEN "check"
           ELSE pc[u]]

-------------------------------------------------------------------------------
(* Calls: by a controller at any time, by a handler during its callback.   *)
(* Handlers keep to ITimerHandler: they control other timers only, and     *)
(* (a bound) make one call each.  The owner destroys a timer when nobody   *)
(* else uses it, though the loop may be executing it.                      *)

MayCall(t, o) ==
  \/ t # Loop /\ pc[t] = "idle" /\ o \in ControllerOps
  \/ t = Loop /\ pc[t] = "callback" /\ o \in HandlerOps

Alive(i) == i \notin dead /\ \A u \in Threads : ~(Using(u, i) /\ call[u].op = "destroy")

Invoke(t, o, i, interval, repeat) ==
  /\ o \in ControlOps /\ MayCall(t, o)
  /\ Alive(i)
  /\ t = Loop => i # current
  /\ o = "destroy" => \A u \in Threads : ~Using(u, i)
  /\ IF o = "start" THEN interval \in Intervals /\ repeat \in Repeats
                     ELSE interval = Infinite /\ repeat = FALSE
  /\ call' = [call EXCEPT ![t] = [op |-> o, timer |-> i,
                                  interval |-> interval, repeat |-> repeat]]
  /\ Goto(t, CASE o = "destroy" -> "load"
               [] o = "restart" -> "restart"
               [] OTHER -> "control")
  /\ UNCHANGED <<atomics, config, control, list, now, loopLocals, ghosts>>

Configure(t, o, i) ==
  /\ o \in ConfigOps /\ MayCall(t, o)
  /\ Alive(i)
  /\ \/ /\ o = "setHandler"
        /\ \E b \in BOOLEAN : mHandler' = [mHandler EXCEPT ![i] = b]
        /\ UNCHANGED <<mInterval, mRepeat>>
     \/ /\ o = "setInterval"
        /\ \E n \in Intervals : mInterval' = [mInterval EXCEPT ![i] = n]
        /\ UNCHANGED <<mHandler, mRepeat>>
     \/ /\ o = "setRepeat"
        /\ \E b \in Repeats : mRepeat' = [mRepeat EXCEPT ![i] = b]
        /\ UNCHANGED <<mHandler, mInterval>>
  /\ Goto(t, Home(t))
  /\ UNCHANGED <<atomics, control, list, now, call, loopLocals, ghosts>>

-------------------------------------------------------------------------------
(* restart(), start(), stop() and the destructor *)

\* restart() copies the configuration before it calls start().
Restart(t) ==
  /\ pc[t] = "restart"
  /\ call' = [call EXCEPT ![t].interval = mInterval[Target(t)],
                          ![t].repeat = mRepeat[Target(t)]]
  /\ Goto(t, "control")
  /\ UNCHANGED <<atomics, config, control, list, now, loopLocals, ghosts>>

ControlLock(t) ==
  /\ pc[t] = "control"
  /\ control[Target(t)] = Nobody
  /\ control' = [control EXCEPT ![Target(t)] = t]
  /\ Goto(t, "load")
  /\ UNCHANGED <<atomics, config, list, now, call, loopLocals, ghosts>>

\* What follows the end of stop() or stopAndWait().
Halted(t) ==
  LET i == Target(t)
  IN CASE call[t].op = "stop" ->
            /\ halted' = halted \cup {i}
            /\ ReleaseAndReturn(t)
            /\ UNCHANGED dead
       [] call[t].op = "destroy" ->
            /\ dead' = dead \cup {i}
            /\ Return(t)
            /\ UNCHANGED <<halted, control>>
       [] OTHER ->
            /\ Goto(t, "schedule")
            /\ UNCHANGED <<call, control, ghosts>>

LoadStopped(t) ==
  /\ pc[t] = "load"
  /\ mState[Target(t)] = "Stopped"
  /\ Halted(t)
  /\ UNCHANGED <<atomics, config, list, now, loopLocals>>

\* The load and the compare-exchange that confirms it, and the store of
\* mStopRequested, which nobody reads while the timer is Stopped.
CancelQueued(t) ==
  /\ pc[t] = "load"
  /\ mState[Target(t)] = "Queued"
  /\ SetState(Target(t), "Stopped")
  /\ mStopRequested' = [mStopRequested EXCEPT ![Target(t)] = TRUE]
  /\ Goto(t, "remove")
  /\ UNCHANGED <<mExpiry, config, control, list, now, call, loopLocals, ghosts>>

LoadBusy(t) ==
  /\ pc[t] = "load"
  /\ Busy(Target(t))
  /\ Goto(t, "flag")
  /\ UNCHANGED <<atomics, config, control, list, now, call, loopLocals, ghosts>>

\* MainLoop::removeTimer(), the broadcast and the end of stop() or
\* stopAndWait().  The broadcast finds no waiter: a thread that waits on this
\* timer holds its mControlLock, or is its owner destroying it.
RemoveTimer(t) ==
  /\ pc[t] = "remove"
  /\ mTimers' = RemoveFirst(mTimers, Target(t))
  /\ wake' = TRUE
  /\ Halted(t)
  /\ UNCHANGED <<atomics, config, now, loopLocals>>

\* Mutant of RequestStop: start() does not wait for the loop.
RequestStopWithoutWaiting(t) ==
  LET i == Target(t)
  IN /\ pc[t] = "flag"
     /\ mStopRequested' = [mStopRequested EXCEPT ![i] = TRUE]
     /\ Halted(t)
     /\ UNCHANGED <<mState, mExpiry, config, list, now, loopLocals>>

\* The loop owns the timer: stop() leaves it the request and returns, start()
\* and the destructor wait.
RequestStop(t) ==
  LET i == Target(t)
  IN /\ pc[t] = "flag"
     /\ mStopRequested' = [mStopRequested EXCEPT ![i] = TRUE]
     /\ IF call[t].op = "stop"
          THEN halted' = halted \cup {i} /\ ReleaseAndReturn(t)
          ELSE Goto(t, "check") /\ UNCHANGED <<halted, control, call>>
     /\ UNCHANGED <<mState, mExpiry, config, list, now, loopLocals, dead>>

\* mStateChanged.wait(): the predicate, under mWaitLock ...
Check(t) ==
  /\ pc[t] = "check"
  /\ Goto(t, IF Busy(Target(t)) THEN "block" ELSE "load")
  /\ UNCHANGED <<atomics, config, control, list, now, call, loopLocals, ghosts>>

\* ... and pthread_cond_wait(): from here on a broadcast reaches the thread.
Block(t) ==
  /\ pc[t] = "block"
  /\ Goto(t, "blocked")
  /\ UNCHANGED <<atomics, config, control, list, now, call, loopLocals, ghosts>>

\* pthread_cond_wait() may return without a broadcast.
SpuriousWakeup(t) ==
  /\ pc[t] = "blocked"
  /\ Goto(t, "check")
  /\ UNCHANGED <<atomics, config, control, list, now, call, loopLocals, ghosts>>

\* start() with a finite interval.  Until AddTimer nobody else can reach the
\* timer's state, so that the stores are one action.
Schedule(t) ==
  LET i == Target(t)
      interval == call[t].interval
  IN /\ pc[t] = "schedule"
     /\ interval # Infinite
     /\ mInterval' = [mInterval EXCEPT ![i] = interval]
     /\ mRepeat' = [mRepeat EXCEPT ![i] = call[t].repeat]
     /\ mExpiry' = [mExpiry EXCEPT ![i] = makeExpiry(interval)]
     /\ mStopRequested' = [mStopRequested EXCEPT ![i] = FALSE]
     /\ SetState(i, "Queued")
     /\ halted' = halted \ {i}
     /\ Goto(t, "add")
     /\ UNCHANGED <<mHandler, control, list, now, call, loopLocals, dead>>

\* start(Infinite), or restart() of a timer that was never started.
ScheduleIgnored(t) ==
  /\ pc[t] = "schedule"
  /\ call[t].interval = Infinite
  /\ ReleaseAndReturn(t)
  /\ UNCHANGED <<atomics, config, list, now, loopLocals, ghosts>>

\* MainLoop::addTimer()
AddTimer(t) ==
  /\ pc[t] = "add"
  /\ mTimers' = insertTimerLocked(Target(t))
  /\ Goto(t, "wakeup")
  /\ UNCHANGED <<atomics, config, control, wake, now, call, loopLocals, ghosts>>

\* Mutant of Wakeup: the loop is not told.
WakeupQuietly(t) ==
  /\ pc[t] = "wakeup"
  /\ ReleaseAndReturn(t)
  /\ UNCHANGED <<atomics, config, list, now, loopLocals, ghosts>>

\* ... and its wakeup(), after which start() returns.
Wakeup(t) ==
  /\ pc[t] = "wakeup"
  /\ wake' = TRUE
  /\ ReleaseAndReturn(t)
  /\ UNCHANGED <<atomics, config, mTimers, now, loopLocals, ghosts>>

-------------------------------------------------------------------------------
(* MainLoop::runTimers() and the epoll_wait() of loopOnce() *)

\* Where the loop is.
At(l) == pc[Loop] = l

Expired(i) == mExpiry[i] <= now

TakeNothing ==
  /\ At("take")
  /\ mTimers # <<>> => ~Expired(Head(mTimers))
  /\ Goto(Loop, "timeout")
  /\ UNCHANGED <<atomics, config, control, list, now, call, loopLocals, ghosts>>

\* tryBeginExecuteFromLoop(): the compare-exchange, then (Cleared) the store
\* of mStopRequested.  The timer is popped in between at the latest.
TakeExpired ==
  /\ At("take")
  /\ mTimers # <<>> /\ Expired(Head(mTimers))
  /\ mState[Head(mTimers)] = "Queued"
  /\ SetState(Head(mTimers), "Executing")
  /\ mTimers' = Tail(mTimers)
  /\ current' = Head(mTimers)
  /\ Goto(Loop, "clear")
  /\ UNCHANGED <<mStopRequested, mExpiry, config, control, wake, now, call,
                 keep, deadline, ghosts>>

\* A stop() that is about to remove the timer was faster.
TakeCancelled ==
  /\ At("take")
  /\ mTimers # <<>> /\ Expired(Head(mTimers))
  /\ mState[Head(mTimers)] # "Queued"
  /\ mTimers' = Tail(mTimers)
  /\ Goto(Loop, "timeout")
  /\ UNCHANGED <<atomics, config, control, wake, now, call, loopLocals, ghosts>>

Cleared ==
  /\ At("clear")
  /\ mStopRequested' = [mStopRequested EXCEPT ![current] = FALSE]
  /\ Goto(Loop, "execute")
  /\ UNCHANGED <<mState, mExpiry, config, control, list, now, call, loopLocals,
                 ghosts>>

Execute ==
  /\ At("execute")
  /\ keep' = FALSE
  /\ Goto(Loop, IF mHandler[current] THEN "callback" ELSE "decide")
  /\ UNCHANGED <<atomics, config, control, list, now, call, current, deadline,
                 ghosts>>

HandlerReturns ==
  /\ pc[Loop] \in {"callback", "called"}
  /\ keep' \in BOOLEAN
  /\ Goto(Loop, "decide")
  /\ UNCHANGED <<atomics, config, control, list, now, call, current, deadline,
                 ghosts>>

Keeps == keep /\ ~mStopRequested[current] /\ mRepeat[current]
           /\ mInterval[current] # Infinite /\ mHandler[current]

\* executeFromLoop() after the callback: the timer is kept, with an expiry
\* counted from now ...
DecideKeep ==
  /\ At("decide")
  /\ Keeps
  /\ mExpiry' = [mExpiry EXCEPT ![current] = makeExpiry(mInterval[current])]
  /\ Goto(Loop, "pend")
  /\ UNCHANGED <<mState, mStopRequested, config, control, list, now, call,
                 loopLocals, ghosts>>

\* Mutant of DecideStop: a timer that is not kept is left as it is.
DecideForgets ==
  /\ At("decide")
  /\ ~Keeps
  /\ Goto(Loop, "timeout")
  /\ UNCHANGED <<atomics, config, control, list, now, call, loopLocals, ghosts>>

\* ... or stopped.
DecideStop ==
  /\ At("decide")
  /\ ~Keeps
  /\ Goto(Loop, "stop_store")
  /\ UNCHANGED <<atomics, config, control, list, now, call, loopLocals, ghosts>>

\* A store of mState by the loop, from label l to label m.
LoopStores(l, s, m) ==
  /\ At(l)
  /\ SetState(current, s)
  /\ Goto(Loop, m)
  /\ UNCHANGED <<mStopRequested, mExpiry, config, control, list, now, call,
                 loopLocals, ghosts>>

\* Its broadcast, a step of its own and outside mWaitLock.
LoopBroadcasts(l, m) ==
  /\ At(l)
  /\ Broadcast(current, Loop, m)
  /\ UNCHANGED <<atomics, config, control, list, now, call, loopLocals, ghosts>>

StoreStopped == LoopStores("stop_store", "Stopped", "stop_cast")
CastStopped == LoopBroadcasts("stop_cast", "timeout")
\* Mutant of StorePending: Queued before the timer is back in the list.
StoreQueuedEarly == LoopStores("pend", "Queued", "pend_cast")
StorePending == LoopStores("pend", "RequeuePending", "pend_cast")
CastPending == LoopBroadcasts("pend_cast", "requeue")
StoreQueued == LoopStores("queue_store", "Queued", "queue_cast")
CastQueued == LoopBroadcasts("queue_cast", "timeout")

\* requeueFromLoop() up to addTimer().  Its test of mState never fails: only
\* the loop leaves RequeuePending.
Requeue ==
  /\ At("requeue")
  /\ ~mStopRequested[current]
  /\ mTimers' = insertTimerLocked(current)
  /\ wake' = TRUE
  /\ Goto(Loop, "recheck")
  /\ UNCHANGED <<atomics, config, control, now, call, loopLocals, ghosts>>

RequeueRefused ==
  /\ At("requeue")
  /\ mStopRequested[current]
  /\ Goto(Loop, "stop_store")
  /\ UNCHANGED <<atomics, config, control, list, now, call, loopLocals, ghosts>>

\* The second look at mStopRequested.
RecheckKeep ==
  /\ At("recheck")
  /\ ~mStopRequested[current]
  /\ Goto(Loop, "queue_store")
  /\ UNCHANGED <<atomics, config, control, list, now, call, loopLocals, ghosts>>

\* Mutant of RecheckWithdraw: the timer stays in the list.
RecheckForgets ==
  /\ At("recheck")
  /\ mStopRequested[current]
  /\ Goto(Loop, "stop_store")
  /\ UNCHANGED <<atomics, config, control, list, now, call, loopLocals, ghosts>>

RecheckWithdraw ==
  /\ At("recheck")
  /\ mStopRequested[current]
  /\ mTimers' = RemoveFirst(mTimers, current)
  /\ wake' = TRUE
  /\ Goto(Loop, "stop_store")
  /\ UNCHANGED <<atomics, config, control, now, call, loopLocals, ghosts>>

\* getNextTimerTimeout(), and epoll_wait() when it is not 0.  (The clock does
\* not move between the two: an abstraction.)
NextTimeout ==
  LET due == IF mTimers = <<>> THEN now + WaitTime ELSE mExpiry[Head(mTimers)]
  IN /\ At("timeout")
     /\ IF due <= now
          THEN Goto(Loop, "take") /\ UNCHANGED deadline
          ELSE /\ Goto(Loop, "wait")
               /\ deadline' = Min({due, now + WaitTime})
     /\ current' = SomeTimer /\ keep' = FALSE   \* out of scope
     /\ UNCHANGED <<atomics, config, control, list, now, call, ghosts>>

\* Mutant of Poll: epoll_wait() without a timeout.
PollPipe ==
  /\ At("wait")
  /\ wake
  /\ wake' = FALSE
  /\ deadline' = 0
  /\ Goto(Loop, "take")
  /\ UNCHANGED <<atomics, config, control, mTimers, now, call, current, keep,
                 ghosts>>

\* epoll_wait() returns: the pipe is drained, or the time is over.
Poll ==
  /\ At("wait")
  /\ wake \/ deadline <= now
  /\ wake' = FALSE
  /\ deadline' = 0
  /\ Goto(Loop, "take")
  /\ UNCHANGED <<atomics, config, control, mTimers, now, call, current, keep,
                 ghosts>>

\* epoll_wait() returns for a signal or another file descriptor.
Disturbed ==
  /\ At("wait")
  /\ deadline' = 0
  /\ Goto(Loop, "take")
  /\ UNCHANGED <<atomics, config, control, list, now, call, current, keep,
                 ghosts>>

Tick ==
  /\ now < MaxTime
  /\ now' = now + 1
  /\ UNCHANGED <<atomics, config, control, list, pc, call, loopLocals, ghosts>>

-------------------------------------------------------------------------------
(* Specification *)

\* A step of an operation that has begun.
CallStep(t) ==
  \/ Restart(t) \/ ControlLock(t)
  \/ LoadStopped(t) \/ CancelQueued(t) \/ LoadBusy(t) \/ RemoveTimer(t)
  \/ RequestStop(t) \/ Check(t) \/ Block(t)
  \/ Schedule(t) \/ ScheduleIgnored(t) \/ AddTimer(t) \/ Wakeup(t)

LoopStep ==
  \/ TakeNothing \/ TakeExpired \/ TakeCancelled
  \/ Cleared \/ Execute \/ HandlerReturns \/ DecideKeep \/ DecideStop
  \/ StoreStopped \/ CastStopped \/ StorePending \/ CastPending
  \/ Requeue \/ RequeueRefused \/ RecheckKeep \/ RecheckWithdraw
  \/ StoreQueued \/ CastQueued
  \/ NextTimeout \/ Poll

Next ==
  \/ \E t \in Threads : CallStep(t) \/ SpuriousWakeup(t)
  \/ \E t \in Threads, i \in Timers :
       \/ \E o \in ControlOps, n \in Intervals \cup {Infinite}, r \in BOOLEAN :
            Invoke(t, o, i, n, r)
       \/ \E o \in ConfigOps : Configure(t, o, i)
  \/ LoopStep
  \/ Disturbed
  \/ Tick

Spec == Init /\ [][Next]_vars

\* Threads that can take a step do, handlers return, and a thread that keeps
\* competing for an mControlLock gets it.  Nothing makes a controller call.
Fairness ==
  /\ \A t \in Threads : WF_vars(CallStep(t)) /\ SF_vars(ControlLock(t))
  /\ WF_vars(LoopStep)

FairSpec == Spec /\ Fairness

-------------------------------------------------------------------------------
(* Properties *)

Labels ==
  OpLabels \cup
  {"idle", "take", "clear", "execute", "callback", "called", "decide",
   "stop_store", "stop_cast", "pend", "pend_cast", "requeue", "recheck",
   "queue_store", "queue_cast", "timeout", "wait"}

\* The atomics, configurations, locks, list and program counters have their
\* types, and no epoll_wait() is longer than WaitTimeMs.
TypeOK ==
  /\ mState \in [Timers -> TimerStates]
  /\ mStopRequested \in [Timers -> BOOLEAN]
  /\ mExpiry \in [Timers -> Nat]
  /\ mHandler \in [Timers -> BOOLEAN]
  /\ mInterval \in [Timers -> Intervals \cup {Infinite}]
  /\ mRepeat \in [Timers -> BOOLEAN]
  /\ control \in [Timers -> Threads \cup {Nobody}]
  /\ dead \subseteq Timers
  /\ mTimers \in Seq(Timers)
  /\ wake \in BOOLEAN
  /\ now \in Nat
  /\ pc \in [Threads -> Labels]
  /\ call \in [Threads -> [op : Ops, timer : Timers,
                           interval : Intervals \cup {Infinite},
                           repeat : BOOLEAN]]
  /\ current \in Timers
  /\ keep \in BOOLEAN
  /\ deadline \in 0 .. now + WaitTime
  /\ halted \subseteq Timers

\* The loop is between taking timer i and its last store to i's mState.
Owns(i) ==
  /\ current = i
  /\ \/ pc[Loop] \in {"clear", "execute", "callback", "called", "decide",
                      "stop_store", "pend", "pend_cast", "requeue", "recheck",
                      "queue_store"}
     \/ pc[Loop] \in OpLabels

Listed(i) == Contains(mTimers, i)

\* MainLoop's list is sorted by expiry and free of duplicates, a queued timer
\* is in it (or its start() is about to put it there), and nothing else is but
\* a timer that is about to be queued or removed.
ListIsSound ==
  /\ \A k \in 1 .. Len(mTimers) - 1 : mExpiry[mTimers[k]] <= mExpiry[mTimers[k + 1]]
  /\ \A k, l \in DOMAIN mTimers : mTimers[k] = mTimers[l] => k = l
  /\ \A i \in Timers :
       /\ mState[i] = "Queued" =>
            Listed(i) \/ \E t \in Threads : pc[t] = "add" /\ Target(t) = i
       /\ Listed(i) =>
            \/ mState[i] = "Queued"
            \/ current = i /\ pc[Loop] \in {"recheck", "queue_store"}
            \/ \E t \in Threads : pc[t] = "remove" /\ Target(t) = i

\* The loop does not sleep beyond the earliest expiry: when it blocks in
\* epoll_wait() with nothing to read and nobody about to write, its timeout
\* ends no later than the first timer expires.
NoOversleep ==
  At("wait") /\ ~wake /\ mTimers # <<>>
    => \/ deadline <= mExpiry[Head(mTimers)]
       \/ \E t \in Threads : pc[t] = "wakeup"

\* Once a destructor has returned the timer is not in the list, no thread is
\* inside one of its operations, and the loop is through with it except for
\* the broadcast after its last store.
DestroyedIsGone ==
  \A i \in dead :
    /\ ~Listed(i)
    /\ ~Owns(i)
    /\ mState[i] = "Stopped"
    /\ \A t \in Threads : ~Using(t, i)

\* A start() or destructor that waits for the loop to give a timer up never
\* keeps the loop from doing so: it is not called by a handler, in the loop
\* itself, and the handler does not compete for the same mControlLock.  (That
\* the wakeup of the one who waits may be lost is WaiterReleased.)
NoCircularWait ==
  \A t \in Threads :
    pc[t] \in {"check", "block", "blocked"} /\ Busy(Target(t))
      => t # Loop /\ ~Using(Loop, Target(t))

\* The cycle of each timer, seen by its handler and its owner.
Phase(i) ==
  CASE mState[i] = "Stopped" -> "off"
    [] mState[i] = "Queued" -> "armed"
    [] mState[i] = "RequeuePending" -> "rearming"
    [] OTHER -> CASE pc[Loop] \in {"clear", "execute"} -> "fired"
                  [] pc[Loop] \in {"callback", "called"} \cup OpLabels -> "calling"
                  [] OTHER -> "called"

Contract == INSTANCE TimerContract WITH
  phase <- [i \in Timers |-> Phase(i)],
  due <- [i \in Timers |->
            IF mState[i] \in {"Queued", "RequeuePending"} THEN mExpiry[i] ELSE 0]

ContractSpec == Contract!Spec

\* An expired timer does not stay in the queue: the loop takes it, unless a
\* stop() does.  (Or a thread waits in stopAndWait(): it may wait forever, see
\* WaiterReleased, with an mControlLock that a handler needs.)
ExpiredTimerFires ==
  \A i \in Timers :
    mState[i] = "Queued" /\ mExpiry[i] <= now
      ~> mState[i] # "Queued" \/ \E t \in Threads : pc[t] = "blocked"

\* Timer.cpp:178 "Request stop and wait until MainLoop finishes using it."
\* A start() or destructor that waits for the loop is released.
WaiterReleased ==
  \A t \in Threads : pc[t] = "blocked" ~> pc[t] # "blocked"

\* Timer.h:160 "Used for waiting until MainLoop no longer touches this Timer."
\* The loop does not touch a timer whose destructor has returned.
NotTouchedAfterDestruction ==
  pc[Loop] \in {"stop_cast", "queue_cast"} => current \notin dead

\* A timer that stop() has left is not in the queue until it is started again,
\* once the loop is through with it.
HaltedIsNotQueued ==
  \A i \in halted : mState[i] # "Queued"
===============================================================================
