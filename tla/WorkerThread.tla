----------------------------- MODULE WorkerThread -----------------------------
(***************************************************************************)
(* common/WorkerThread.{h,cpp}: a restartable thread with a lifecycle lock *)
(* (start/stop/join and onCleanup), a state lock and two condition         *)
(* variables.                                                              *)
(*                                                                         *)
(* Every critical section of mStateLock is one action: apart from mState,  *)
(* an atomic that each section stores at most once, the fields are only    *)
(* touched inside it.  mLifecycleLock is held across actions and is a      *)
(* variable of its own, as are the sets of threads blocked in the two      *)
(* condition variables.                                                    *)
(***************************************************************************)
EXTENDS Naturals

CONSTANTS
  Callers,    \* threads that use the object from outside
  Worker,     \* the thread pthread_create() makes
  NoThread,   \* pthread_t{}, and the owner of a free lock
  CallerOps,  \* the operations that callers use
  RunOps      \* the operations that run() uses on its own WorkerThread

Threads == Callers \cup {Worker}

Ops == {"start", "stop", "join", "requestStop"}

ASSUME ThreadsAssumption ==
  /\ Worker \notin Callers
  /\ NoThread \notin Threads
  /\ CallerOps \subseteq Ops
  /\ RunOps \subseteq Ops

VARIABLES
  mState, mId, mWorker,
  mStopRequested, mThreadReady, mStartReleased, mWakeupRequested,
  mCallbacksInProgress,
  lifecycle,      \* owner of mLifecycleLock
  stateCv,        \* threads blocked in mStateCv
  sleepCv,        \* threads blocked in mSleepCv
  pc,             \* where each thread is
  op,             \* the operation each thread is executing
  openLives,      \* history: onPrepare() successes less onCleanup() calls
  notifications   \* history: onStopRequested() calls since onPrepare()

flags == <<mStopRequested, mThreadReady, mStartReleased, mWakeupRequested>>
state == <<mState, mId, mWorker, flags, mCallbacksInProgress>>
history == <<openLives, notifications>>
vars == <<state, lifecycle, stateCv, sleepCv, pc, op, history>>

States == {"Idle", "Starting", "Running", "Stopping", "Exited"}

Init ==
  /\ mState = "Idle"
  /\ mId = NoThread
  /\ mWorker = FALSE
  /\ mStopRequested = FALSE
  /\ mThreadReady = FALSE
  /\ mStartReleased = FALSE
  /\ mWakeupRequested = FALSE
  /\ mCallbacksInProgress = 0
  /\ lifecycle = NoThread
  /\ stateCv = {}
  /\ sleepCv = {}
  /\ pc = [t \in Threads |-> IF t = Worker THEN "none" ELSE "idle"]
  /\ op = [t \in Threads |-> "requestStop"]
  /\ openLives = 0
  /\ notifications = 0

-------------------------------------------------------------------------------
(* Helpers *)

\* isCurrentThread() asked by thread t.
IsCurrentThread(t) == mState \in {"Running", "Stopping"} /\ mId = t

shouldRun == mState = "Running"

\* Where a thread is once its call has returned: the worker is back at the
\* loop condition of run().
Home(t) == IF t = Worker THEN "loop" ELSE "idle"

Goto(t, l) == pc' = [pc EXCEPT ![t] = l]

Return(t) == Goto(t, Home(t))

\* The call returns and the Lock<Mutex> on mLifecycleLock goes out of scope.
ReleaseAndReturn(t) == lifecycle' = NoThread /\ Return(t)

\* Mutant of BroadcastBoth: mSleepCv is forgotten.
BroadcastStateCv == stateCv' = {} /\ UNCHANGED sleepCv

BroadcastBoth == stateCv' = {} /\ sleepCv' = {}

resetStateLocked ==
  /\ mWorker' = FALSE
  /\ mId' = NoThread
  /\ mStopRequested' = FALSE
  /\ mThreadReady' = FALSE
  /\ mStartReleased' = FALSE
  /\ mWakeupRequested' = FALSE
  /\ mCallbacksInProgress' = 0
  /\ mState' = "Idle"

resetToIdle == resetStateLocked /\ BroadcastBoth

\* onCleanup() runs: it ends the life that onPrepare() began.
onCleanup == openLives' = openLives - 1 /\ notifications' = 0

\* The state becomes Stopping and the calling thread t is about to enter
\* onStopRequested(), with the callback counted.  (The test of the worker for
\* nullptr is a guard here: by PhaseInv it never fails.)
BeginStopping(t) ==
  /\ mWorker
  /\ mState' = "Stopping"
  /\ mWakeupRequested' = TRUE
  /\ BroadcastBoth
  /\ mCallbacksInProgress' = mCallbacksInProgress + 1
  /\ notifications' = notifications + 1
  /\ Goto(t, "notify")
  /\ UNCHANGED openLives

-------------------------------------------------------------------------------
(* Calls *)

Invoke(t, o) ==
  /\ pc[t] = "idle" /\ o \in CallerOps
  /\ Goto(t, o)
  /\ op' = [op EXCEPT ![t] = o]
  /\ UNCHANGED <<state, lifecycle, stateCv, sleepCv, history>>

-------------------------------------------------------------------------------
(* start() *)

StartLock(t) ==
  /\ pc[t] = "start"
  /\ lifecycle = NoThread
  /\ lifecycle' = t
  /\ Goto(t, IF mState = "Exited" THEN "join_id" ELSE "claim")
  /\ UNCHANGED <<state, stateCv, sleepCv, op, history>>

AlreadyActive(t) ==
  /\ pc[t] = "claim"
  /\ mState # "Idle"
  /\ ReleaseAndReturn(t)
  /\ UNCHANGED <<state, stateCv, sleepCv, op, history>>

Claim(t) ==
  /\ pc[t] = "claim"
  /\ mState = "Idle"
  /\ mWorker' = TRUE
  /\ mId' = NoThread
  /\ mStopRequested' = FALSE
  /\ mThreadReady' = FALSE
  /\ mStartReleased' = FALSE
  /\ mWakeupRequested' = FALSE
  /\ mCallbacksInProgress' = 0
  /\ mState' = "Starting"
  /\ Goto(t, "prepare")
  /\ UNCHANGED <<lifecycle, stateCv, sleepCv, op, history>>

\* pthread_attr_init() fails, or onPrepare() returns false.
PrepareFails(t) ==
  /\ pc[t] = "prepare"
  /\ resetToIdle
  /\ ReleaseAndReturn(t)
  /\ UNCHANGED <<op, history>>

Prepared(t) ==
  /\ pc[t] = "prepare"
  /\ openLives' = openLives + 1
  /\ Goto(t, "create")
  /\ UNCHANGED <<state, lifecycle, stateCv, sleepCv, op, notifications>>

\* Mutant of CreateFails: onCleanup() is forgotten.
CreateFailsDirty(t) ==
  /\ pc[t] = "create"
  /\ resetToIdle
  /\ ReleaseAndReturn(t)
  /\ UNCHANGED <<op, history>>

CreateFails(t) ==
  /\ pc[t] = "create"
  /\ resetToIdle
  /\ Goto(t, "fail_cleanup")
  /\ UNCHANGED <<lifecycle, op, history>>

\* worker.onCleanup() after a failed pthread_create().
FailCleanup(t) ==
  /\ pc[t] = "fail_cleanup"
  /\ onCleanup
  /\ ReleaseAndReturn(t)
  /\ UNCHANGED <<state, stateCv, sleepCv, op>>

Created(t) ==
  /\ pc[t] = "create"
  /\ pc' = [pc EXCEPT ![t] = "await_ready", ![Worker] = "entry"]
  /\ UNCHANGED <<state, lifecycle, stateCv, sleepCv, op, history>>

\* mStateCv.wait(mThreadReady): not yet.
AwaitReady(t) ==
  /\ pc[t] = "await_ready"
  /\ t \notin stateCv
  /\ mId' = Worker
  /\ ~mThreadReady
  /\ stateCv' = stateCv \cup {t}
  /\ UNCHANGED <<mState, mWorker, flags, mCallbacksInProgress, lifecycle,
                 sleepCv, pc, op, history>>

\* Mutant of ReleaseRunning: mStopRequested is not looked at.
ReleaseRunningBlindly(t) ==
  /\ pc[t] = "await_ready"
  /\ t \notin stateCv
  /\ mId' = Worker
  /\ mThreadReady
  /\ mState' = "Running"
  /\ mStartReleased' = TRUE
  /\ stateCv' = {}
  /\ ReleaseAndReturn(t)
  /\ UNCHANGED <<mWorker, mStopRequested, mThreadReady, mWakeupRequested,
                 mCallbacksInProgress, sleepCv, op, history>>

\* The thread is ready and nobody asked for a stop meanwhile.
ReleaseRunning(t) ==
  /\ pc[t] = "await_ready"
  /\ t \notin stateCv
  /\ mId' = Worker
  /\ mThreadReady
  /\ ~mStopRequested
  /\ mState' = "Running"
  /\ mStartReleased' = TRUE
  /\ stateCv' = {}
  /\ ReleaseAndReturn(t)
  /\ UNCHANGED <<mWorker, mStopRequested, mThreadReady, mWakeupRequested,
                 mCallbacksInProgress, sleepCv, op, history>>

\* requestStop() came while the state was Starting: the starter stops the
\* worker and calls onStopRequested() itself.
ReleaseStopping(t) ==
  /\ pc[t] = "await_ready"
  /\ t \notin stateCv
  /\ mId' = Worker
  /\ mThreadReady
  /\ mStopRequested
  /\ mStartReleased' = TRUE
  /\ BeginStopping(t)
  /\ UNCHANGED <<mWorker, mStopRequested, mThreadReady, lifecycle, op>>

-------------------------------------------------------------------------------
(* requestStop() *)

AfterRequest(t) == Goto(t, IF op[t] = "stop" THEN "stop_join" ELSE Home(t))

RequestIgnored(t) ==
  /\ pc[t] = "requestStop"
  /\ mState \in {"Idle", "Exited"}
  /\ AfterRequest(t)
  /\ UNCHANGED <<state, lifecycle, stateCv, sleepCv, op, history>>

\* Running: this call makes the transition and notifies the worker.
RequestRunning(t) ==
  /\ pc[t] = "requestStop"
  /\ mState = "Running"
  /\ mStopRequested' = TRUE
  /\ BeginStopping(t)
  /\ UNCHANGED <<mId, mWorker, mThreadReady, mStartReleased, lifecycle, op>>

\* Starting: start() will see the flag.  Stopping: somebody was first.
RequestNoted(t) ==
  /\ pc[t] = "requestStop"
  /\ mState \in {"Starting", "Stopping"}
  /\ mStopRequested' = TRUE
  /\ mWakeupRequested' = TRUE
  /\ BroadcastBoth
  /\ AfterRequest(t)
  /\ UNCHANGED <<mState, mId, mWorker, mThreadReady, mStartReleased,
                 mCallbacksInProgress, lifecycle, op, history>>

\* Mutant of CallbackDone: the waiter in joinLocked() is not woken.
CallbackDoneQuietly ==
  /\ mCallbacksInProgress' =
       IF mCallbacksInProgress > 0 THEN mCallbacksInProgress - 1 ELSE 0
  /\ UNCHANGED stateCv

CallbackDone ==
  /\ mCallbacksInProgress' =
       IF mCallbacksInProgress > 0 THEN mCallbacksInProgress - 1 ELSE 0
  /\ stateCv' = {}

\* onStopRequested() has returned.
Notified(t) ==
  /\ pc[t] = "notify"
  /\ CallbackDone
  /\ IF op[t] = "start"
       THEN ReleaseAndReturn(t)
       ELSE AfterRequest(t) /\ UNCHANGED lifecycle
  /\ UNCHANGED <<mState, mId, mWorker, flags, sleepCv, op, history>>

-------------------------------------------------------------------------------
(* stop() and join() *)

\* The worker may not join itself: its stop() is a requestStop().
StopSelf(t) ==
  /\ pc[t] = "stop"
  /\ IsCurrentThread(t)
  /\ Goto(t, "requestStop")
  /\ op' = [op EXCEPT ![t] = "requestStop"]
  /\ UNCHANGED <<state, lifecycle, stateCv, sleepCv, history>>

StopLock(t) ==
  /\ pc[t] = "stop"
  /\ ~IsCurrentThread(t)
  /\ lifecycle = NoThread
  /\ lifecycle' = t
  /\ Goto(t, "requestStop")
  /\ UNCHANGED <<state, stateCv, sleepCv, op, history>>

\* Mutant of StopJoin: a thread that has exited already is not joined.
StopJoinActiveOnly(t) ==
  /\ pc[t] = "stop_join"
  /\ IF mState = "Stopping"
       THEN Goto(t, "join_id") /\ UNCHANGED lifecycle
       ELSE ReleaseAndReturn(t)
  /\ UNCHANGED <<state, stateCv, sleepCv, op, history>>

StopJoin(t) ==
  /\ pc[t] = "stop_join"
  /\ IF mState # "Idle"
       THEN Goto(t, "join_id") /\ UNCHANGED lifecycle
       ELSE ReleaseAndReturn(t)
  /\ UNCHANGED <<state, stateCv, sleepCv, op, history>>

JoinSelf(t) ==
  /\ pc[t] = "join"
  /\ IsCurrentThread(t)
  /\ Return(t)
  /\ UNCHANGED <<state, lifecycle, stateCv, sleepCv, op, history>>

\* Mutant of JoinLock: joinLocked() is called without the lock.
JoinUnlocked(t) ==
  /\ pc[t] = "join"
  /\ ~IsCurrentThread(t)
  /\ lifecycle = NoThread
  /\ Goto(t, IF mState = "Idle" THEN Home(t) ELSE "join_id")
  /\ UNCHANGED <<state, lifecycle, stateCv, sleepCv, op, history>>

JoinLock(t) ==
  /\ pc[t] = "join"
  /\ ~IsCurrentThread(t)
  /\ lifecycle = NoThread
  /\ IF mState = "Idle"
       THEN Return(t) /\ UNCHANGED lifecycle
       ELSE Goto(t, "join_id") /\ lifecycle' = t
  /\ UNCHANGED <<state, stateCv, sleepCv, op, history>>

-------------------------------------------------------------------------------
(* joinLocked() *)

JoinReturn(t) ==
  IF op[t] = "start"
    THEN Goto(t, "claim") /\ UNCHANGED lifecycle
    ELSE ReleaseAndReturn(t)

JoinId(t) ==
  /\ pc[t] = "join_id"
  /\ IF mState \in {"Idle", "Starting"}
       THEN JoinReturn(t)
       ELSE Goto(t, "join_thread") /\ UNCHANGED lifecycle
  /\ UNCHANGED <<state, stateCv, sleepCv, op, history>>

\* pthread_join(mId) returns once that thread has terminated.
JoinThread(t) ==
  /\ pc[t] = "join_thread"
  /\ mId = Worker
  /\ pc[Worker] = "done"
  /\ pc' = [pc EXCEPT ![t] = "drain", ![Worker] = "none"]
  /\ UNCHANGED <<state, lifecycle, stateCv, sleepCv, op, history>>

\* mStateCv.wait(mCallbacksInProgress == 0): not yet.
DrainWait(t) ==
  /\ pc[t] = "drain"
  /\ t \notin stateCv
  /\ mCallbacksInProgress # 0
  /\ stateCv' = stateCv \cup {t}
  /\ UNCHANGED <<state, lifecycle, sleepCv, pc, op, history>>

\* Mutant of Drained: the callbacks in progress are not waited for.
DrainedEarly(t) ==
  /\ pc[t] = "drain"
  /\ t \notin stateCv
  /\ mWorker' = FALSE
  /\ Goto(t, IF mWorker THEN "cleanup" ELSE "reset")
  /\ UNCHANGED <<mState, mId, flags, mCallbacksInProgress, lifecycle,
                 stateCv, sleepCv, op, history>>

Drained(t) ==
  /\ pc[t] = "drain"
  /\ t \notin stateCv
  /\ mCallbacksInProgress = 0
  /\ mWorker' = FALSE
  /\ Goto(t, IF mWorker THEN "cleanup" ELSE "reset")
  /\ UNCHANGED <<mState, mId, flags, mCallbacksInProgress, lifecycle,
                 stateCv, sleepCv, op, history>>

\* workerToCleanup->onCleanup().
Cleanup(t) ==
  /\ pc[t] = "cleanup"
  /\ onCleanup
  /\ Goto(t, "reset")
  /\ UNCHANGED <<state, lifecycle, stateCv, sleepCv, op>>

Reset(t) ==
  /\ pc[t] = "reset"
  /\ resetToIdle
  /\ JoinReturn(t)
  /\ UNCHANGED <<op, history>>

-------------------------------------------------------------------------------
(* taskEntry(), and a run() of the shape WorkerThread.h documents:         *)
(* while (shouldRun()) { ... }, whose body may call this object or msleep  *)

TaskEntry ==
  /\ pc[Worker] = "entry"
  /\ mThreadReady' = TRUE
  /\ stateCv' = IF mStartReleased THEN {} ELSE {Worker}
  /\ Goto(Worker, "held")
  /\ UNCHANGED <<mState, mId, mWorker, mStopRequested, mStartReleased,
                 mWakeupRequested, mCallbacksInProgress, lifecycle, sleepCv,
                 op, history>>

HeldAgain ==
  /\ pc[Worker] = "held"
  /\ Worker \notin stateCv
  /\ ~mStartReleased
  /\ stateCv' = stateCv \cup {Worker}
  /\ UNCHANGED <<state, lifecycle, sleepCv, pc, op, history>>

Released ==
  /\ pc[Worker] = "held"
  /\ Worker \notin stateCv
  /\ mStartReleased
  /\ Goto(Worker, IF mWorker THEN "loop" ELSE "exit")
  /\ UNCHANGED <<state, lifecycle, stateCv, sleepCv, op, history>>

LoopTest ==
  /\ pc[Worker] = "loop"
  /\ Goto(Worker, IF shouldRun THEN "body" ELSE "exit")
  /\ UNCHANGED <<state, lifecycle, stateCv, sleepCv, op, history>>

BodyEnds ==
  /\ pc[Worker] = "body"
  /\ Goto(Worker, "loop")
  /\ UNCHANGED <<state, lifecycle, stateCv, sleepCv, op, history>>

\* run() may also return on its own, whatever the state.
RunReturns ==
  /\ pc[Worker] = "body"
  /\ Goto(Worker, "exit")
  /\ UNCHANGED <<state, lifecycle, stateCv, sleepCv, op, history>>

RunInvokes(o) ==
  /\ pc[Worker] = "body"
  /\ o \in RunOps
  /\ Goto(Worker, o)
  /\ op' = [op EXCEPT ![Worker] = o]
  /\ UNCHANGED <<state, lifecycle, stateCv, sleepCv, history>>

\* The predicate of msleep(), and what follows the wait whatever ended it.
Woken == mState # "Running" \/ mWakeupRequested

SleepEnds ==
  /\ mWakeupRequested' = FALSE
  /\ Goto(Worker, "loop")
  /\ UNCHANGED <<mState, mId, mWorker, mStopRequested, mThreadReady,
                 mStartReleased, mCallbacksInProgress, lifecycle, stateCv,
                 op, history>>

\* msleep() from run() goes to sleep, or back to sleep after a wakeup that
\* was not meant for it.  One that returns at once is a BodyEnds: the state
\* is Stopping then, and nothing is written.
Sleep ==
  /\ \/ pc[Worker] = "body" /\ IsCurrentThread(Worker)
     \/ pc[Worker] = "sleep" /\ Worker \notin sleepCv
  /\ ~Woken
  /\ sleepCv' = sleepCv \cup {Worker}
  /\ Goto(Worker, "sleep")
  /\ UNCHANGED <<state, lifecycle, stateCv, op, history>>

SleepWoken ==
  /\ pc[Worker] = "sleep"
  /\ Worker \notin sleepCv
  /\ Woken
  /\ SleepEnds
  /\ UNCHANGED sleepCv

SleepTimesOut ==
  /\ pc[Worker] = "sleep"
  /\ sleepCv' = sleepCv \ {Worker}
  /\ SleepEnds

Exit ==
  /\ pc[Worker] = "exit"
  /\ mState' = "Exited"
  /\ BroadcastBoth
  /\ Goto(Worker, "done")
  /\ UNCHANGED <<mId, mWorker, flags, mCallbacksInProgress, lifecycle, op,
                 history>>

\* pthread_cond_wait() may return without a signal.
SpuriousWakeup(t) ==
  /\ t \in stateCv \cup sleepCv
  /\ stateCv' = stateCv \ {t}
  /\ sleepCv' = sleepCv \ {t}
  /\ UNCHANGED <<state, lifecycle, pc, op, history>>

-------------------------------------------------------------------------------

StartStep(t) ==
  \/ StartLock(t) \/ AlreadyActive(t) \/ Claim(t)
  \/ PrepareFails(t) \/ Prepared(t)
  \/ CreateFails(t) \/ FailCleanup(t) \/ Created(t)
  \/ AwaitReady(t) \/ ReleaseRunning(t) \/ ReleaseStopping(t)

StopStep(t) ==
  \/ RequestIgnored(t) \/ RequestRunning(t) \/ RequestNoted(t) \/ Notified(t)
  \/ StopSelf(t) \/ StopLock(t) \/ StopJoin(t)

JoinStep(t) ==
  \/ JoinSelf(t) \/ JoinLock(t) \/ JoinId(t) \/ JoinThread(t)
  \/ DrainWait(t) \/ Drained(t) \/ Cleanup(t) \/ Reset(t)

CallStep(t) == StartStep(t) \/ StopStep(t) \/ JoinStep(t)

\* The steps of the worker thread that do not depend on a choice of run().
RunStep ==
  \/ TaskEntry \/ HeldAgain \/ Released \/ LoopTest \/ BodyEnds
  \/ SleepWoken \/ Exit

RunChoice ==
  \/ RunReturns \/ Sleep \/ SleepTimesOut
  \/ \E o \in Ops : RunInvokes(o)

Next ==
  \/ \E t \in Threads : CallStep(t) \/ SpuriousWakeup(t)
  \/ \E t \in Callers, o \in Ops : Invoke(t, o)
  \/ RunStep
  \/ RunChoice

Spec == Init /\ [][Next]_vars

\* Every thread that can take a step eventually does, a thread that keeps
\* competing for mLifecycleLock eventually gets it, and an iteration of
\* run() ends.  Nothing makes a caller call, run() return on its own, or a
\* sleep time out.
Fairness ==
  /\ \A t \in Threads : WF_vars(CallStep(t))
  /\ \A t \in Threads : SF_vars(StartLock(t) \/ StopLock(t) \/ JoinLock(t))
  /\ WF_vars(RunStep)

FairSpec == Spec /\ Fairness

-------------------------------------------------------------------------------
(* Properties *)

Labels ==
  Ops \cup {"idle", "claim", "prepare", "create", "fail_cleanup",
            "await_ready", "notify", "stop_join", "join_id", "join_thread",
            "drain", "cleanup", "reset", "none", "entry", "held", "loop",
            "body", "sleep", "exit", "done"}

\* The fields, locks, wait sets and program counters have their types.
TypeOK ==
  /\ mState \in States
  /\ mId \in {NoThread, Worker}
  /\ mWorker \in BOOLEAN
  /\ mStopRequested \in BOOLEAN
  /\ mThreadReady \in BOOLEAN
  /\ mStartReleased \in BOOLEAN
  /\ mWakeupRequested \in BOOLEAN
  /\ mCallbacksInProgress \in 0..1
  /\ lifecycle \in Threads \cup {NoThread}
  /\ stateCv \subseteq Threads
  /\ sleepCv \subseteq {Worker}
  /\ pc \in [Threads -> Labels]
  /\ op \in [Threads -> Ops]
  /\ openLives \in 0..1
  /\ notifications \in 0..1

InCallback(t) == pc[t] = "notify"

\* Where the lock's owner is; "idle" when it has none.
HolderPc == IF lifecycle = NoThread THEN "idle" ELSE pc[lifecycle]

\* A stop request accepted while the thread was still starting is not
\* forgotten when start() completes: a worker that was asked to stop is never
\* (again) told that it should run.
StopNotLost == mStopRequested => mState # "Running"

\* pthread_join() is only ever called on the thread of the current life, which
\* nobody has joined before, and joinLocked() never meets the "incomplete
\* start" that it logs as an error.
JoinIsSound ==
  \A t \in Threads :
    /\ pc[t] = "join_id" => mState \in {"Running", "Stopping", "Exited"}
    /\ pc[t] = "join_thread" => mId = Worker /\ pc[Worker] # "none"

\* An Idle object, which start() may claim again, has no thread and no
\* onStopRequested() call left over from an earlier life, however late the
\* thread that made that call is.
IdleIsQuiescent ==
  mState = "Idle" => pc[Worker] = "none" /\ \A t \in Threads : ~InCallback(t)

\* When a stop() called from outside returns, the thread has been joined,
\* onCleanup() has run and the object is Idle (requestStop() raced by other
\* requests, by run() returning and by the restart of an exited thread).
StopLeavesIdle ==
  [][\A t \in Callers :
       op[t] = "stop" /\ lifecycle = t /\ lifecycle' # t
         => mState' = "Idle" /\ pc'[Worker] = "none" /\ openLives' = 0]_vars

\* Whoever is blocked in a condition variable waits for what has not happened
\* yet and another thread is still going to do: no wakeup is lost between a
\* predicate and its wait, and start(), taskEntry(), joinLocked() and msleep()
\* never wait for each other in a circle.
WaitersAreServed ==
  /\ Worker \in sleepCv => pc[Worker] = "sleep" /\ ~Woken
  /\ \A t \in stateCv :
       \/ pc[t] = "await_ready" /\ ~mThreadReady /\ pc[Worker] = "entry"
       \/ pc[t] = "held" /\ ~mStartReleased /\ HolderPc = "await_ready"
       \/ pc[t] = "drain" /\ \E u \in Threads \ {t} : InCallback(u)

\* The callbacks reach the IWorker in the order WorkerThread.h promises.
Body ==
  IF pc[Worker] \in {"none", "entry", "held"}
    THEN IF \E t \in Threads : pc[t] \in {"drain", "cleanup"}
           THEN "returned" ELSE "none"
    ELSE IF pc[Worker] \in {"exit", "done"} THEN "returned" ELSE "running"

Contract == INSTANCE WorkerContract WITH
  body <- Body,
  stopCalls <- notifications,
  stopActive <- \E t \in Threads : InCallback(t)

ContractSpec == Contract!Spec

\* The classes that own a WorkerThread may rely on WorkerLife: run() executes
\* only in Running and Stopping, once in a life, and whoever holds
\* mLifecycleLock is alone in starting and reaping.
LifeBody ==
  IF mState = "Exited" \/ pc[Worker] = "exit" THEN "returned"
  ELSE IF pc[Worker] \in {"none", "entry", "held"} THEN "none"
  ELSE "running"

Life == INSTANCE WorkerLife WITH body <- LifeBody

LifeSpec == Life!Spec

\* A worker that was asked to stop leaves run() and exits, even when it was
\* asked before it ran or while it slept: no wakeup is lost.
RequestedWorkerExits == mStopRequested ~> mState \in {"Exited", "Idle"}

\* start() and stop() give mLifecycleLock back once they have it.
LifecycleReleased ==
  \A t \in Callers :
    lifecycle = t /\ op[t] \in {"start", "stop"} ~> lifecycle # t

\* WorkerThread.h:93 presents stop() as "requestStop() + join()": calling it
\* makes a running worker stop.
StopRequestsStop ==
  \A t \in Callers : pc[t] = "stop" /\ mState = "Running" ~> mState # "Running"

-------------------------------------------------------------------------------
(* The inductive invariant behind the theorems of WorkerThreadProofs *)

\* The program counters of a thread that is inside run(), calls included.
RunLabels == {"loop", "body", "sleep", "notify", "claim"} \cup Ops

WorkerOnly == {"none", "entry", "held", "loop", "body", "sleep", "exit", "done"}

JoinLabels == {"join_id", "join_thread", "drain", "cleanup", "reset"}

StartingLabels == {"prepare", "create", "await_ready"}

\* Thread t is between acquiring and releasing mLifecycleLock.
Holds(t) ==
  \/ pc[t] \in {"claim", "fail_cleanup", "stop_join"} \cup StartingLabels
               \cup JoinLabels
  \/ pc[t] = "requestStop" /\ op[t] = "stop"
  \/ pc[t] = "notify" /\ op[t] \in {"start", "stop"}

\* Exactly the owner of the lock is between acquire and release.
LockInv ==
  /\ \A t \in Threads : Holds(t) => lifecycle = t
  /\ lifecycle # NoThread => Holds(lifecycle)

\* Each program counter belongs to the operations that can be there, and
\* the worker thread never gets past the early returns made for it.
LabelInv ==
  /\ \A t \in Callers : pc[t] \notin WorkerOnly
  /\ pc[Worker] \in RunLabels \cup WorkerOnly
  /\ pc[Worker] \in {"requestStop", "notify"} => op[Worker] = "requestStop"
  /\ \A t \in Threads :
       /\ pc[t] \in Ops \ {"requestStop"} => op[t] = pc[t]
       /\ pc[t] \in {"claim", "fail_cleanup"} \cup StartingLabels
            => op[t] = "start"
       /\ pc[t] = "requestStop" => op[t] \in {"stop", "requestStop"}
       /\ pc[t] = "notify" => op[t] \in {"start", "stop", "requestStop"}
       /\ pc[t] = "stop_join" => op[t] = "stop"
       /\ pc[t] \in JoinLabels => op[t] \in {"start", "stop", "join"}

\* How the state, the worker thread and the lock's owner go together.
PhaseInv ==
  /\ mState = "Idle" =>
       /\ pc[Worker] = "none"
       /\ ~mWorker /\ ~mStopRequested
       /\ HolderPc \notin StartingLabels \cup JoinLabels
  /\ mState = "Starting" =>
       /\ HolderPc \in StartingLabels
       /\ pc[Worker] = "none" <=> HolderPc # "await_ready"
       /\ pc[Worker] \in {"none", "entry", "held"}
       /\ mWorker /\ ~mStartReleased
       /\ mThreadReady => pc[Worker] = "held"
  /\ mState \in {"Running", "Stopping"} =>
       /\ pc[Worker] \in RunLabels \cup {"held", "exit"}
       /\ mWorker /\ mStartReleased /\ mId = Worker
       /\ HolderPc \notin StartingLabels
            \cup {"fail_cleanup", "drain", "cleanup", "reset"}
  /\ mState = "Exited" =>
       /\ mId = Worker
       /\ \/ /\ pc[Worker] = "done"
             /\ mWorker
             /\ HolderPc \notin StartingLabels
                  \cup {"fail_cleanup", "drain", "cleanup", "reset"}
          \/ /\ pc[Worker] = "none"
             /\ HolderPc \in {"drain", "cleanup", "reset"}
             /\ mWorker <=> HolderPc = "drain"

\* One onStopRequested() call at most, counted by mCallbacksInProgress, and
\* only once the state has become Stopping.
CallbackInv ==
  /\ \A t \in Threads : InCallback(t) => mCallbacksInProgress = 1
  /\ \A t, u \in Threads : InCallback(t) /\ InCallback(u) => t = u
  /\ mCallbacksInProgress = 1 => \E t \in Threads : InCallback(t)
  /\ mCallbacksInProgress = 1 => notifications = 1
  /\ mState \in {"Idle", "Starting", "Running"} => notifications = 0
  /\ HolderPc \in {"cleanup", "reset"} => mCallbacksInProgress = 0

\* A life is open from onPrepare() to onCleanup().
LifeInv ==
  /\ openLives = 1 <=>
       \/ pc[Worker] # "none"
       \/ HolderPc \in {"create", "fail_cleanup", "await_ready", "drain",
                        "cleanup"}
  /\ openLives = 0 => notifications = 0

\* A thread that waits to be released has said that it is ready.
WaitInv ==
  /\ WaitersAreServed
  /\ pc[Worker] = "held" => mThreadReady

IInv ==
  /\ TypeOK
  /\ LockInv
  /\ LabelInv
  /\ PhaseInv
  /\ CallbackInv
  /\ LifeInv
  /\ StopNotLost
===============================================================================
