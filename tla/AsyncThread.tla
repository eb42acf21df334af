------------------------------ MODULE AsyncThread ------------------------------
(***************************************************************************)
(* common/AsyncThread.h: a WorkerThread whose run() is a callable that     *)
(* start() stores in mWorkerTask.  (A callable that starts or stops its    *)
(* own AsyncThread fails an assertion and is not there.)                   *)
(***************************************************************************)
EXTENDS WorkerCalls

CONSTANTS Tasks, NoTask

VARIABLES
  asyncLock,   \* the owner of AsyncThread::mLifecycleLock
  mWorkerTask

asyncVars == <<asyncLock, mWorkerTask>>

AsyncInit ==
  /\ CallInit
  /\ asyncLock = NoThread
  /\ mWorkerTask = NoTask

-------------------------------------------------------------------------------
(* start() and stop() *)

InvokeAsync(t) ==
  /\ \/ \E f \in Tasks : Invoke(t, [name |-> "start", task |-> f], "lock")
     \/ Invoke(t, [name |-> "stop"], "lock")
  /\ UNCHANGED <<lifeVars, asyncVars>>

\* Mutant of LockAsync: the lock is not taken.
LockNothing(t) ==
  /\ pc[t] = "lock"
  /\ IF op[t].name = "start" /\ shouldRun
       THEN Return(t)
       ELSE Goto(t, "stop") /\ UNCHANGED op
  /\ UNCHANGED <<lifeVars, asyncVars>>

LockAsync(t) ==
  /\ pc[t] = "lock"
  /\ asyncLock = NoThread
  /\ IF op[t].name = "start" /\ shouldRun
       THEN Return(t) /\ UNCHANGED asyncLock
       ELSE /\ asyncLock' = t
            /\ Goto(t, "stop")
            /\ UNCHANGED op
  /\ UNCHANGED <<lifeVars, mWorkerTask>>

StopEngine(t) ==
  /\ StopStep(t, IF op[t].name = "start" THEN "replace" ELSE "unlock")
  /\ UNCHANGED asyncVars

\* The old callable is destroyed and the new one is moved into its place.
ReplaceTask(t) ==
  /\ pc[t] = "replace"
  /\ mWorkerTask' = op[t].task
  /\ Goto(t, "start")
  /\ UNCHANGED <<lifeVars, op, asyncLock>>

StartEngine(t) == StartStep(t, "unlock") /\ UNCHANGED asyncVars

UnlockAsync(t) ==
  /\ pc[t] = "unlock"
  /\ asyncLock' = NoThread
  /\ Return(t)
  /\ UNCHANGED <<lifeVars, mWorkerTask>>

-------------------------------------------------------------------------------
(* run() *)

\* mWorkerTask() is called, and may call shouldRun() and msleep() of its
\* Context for as long as it likes, whatever they say.
RunTask ==
  /\ RunBegins
  /\ UNCHANGED <<pc, op, asyncVars>>

TaskReturns ==
  /\ RunReturns
  /\ UNCHANGED <<pc, op, asyncVars>>

TaskThreadExits ==
  /\ Exit
  /\ UNCHANGED <<pc, op, asyncVars>>

AsyncNext ==
  \/ \E t \in Callers :
       \/ InvokeAsync(t) \/ LockAsync(t) \/ StopEngine(t)
       \/ ReplaceTask(t) \/ StartEngine(t) \/ UnlockAsync(t)
  \/ RunTask \/ TaskReturns \/ TaskThreadExits

AsyncSpec == AsyncInit /\ [][AsyncNext]_<<callVars, asyncVars>>

-------------------------------------------------------------------------------
(* Properties *)

AsyncTypeOK ==
  /\ CallTypeOK
  /\ asyncLock \in Callers \cup {NoThread}
  /\ mWorkerTask \in Tasks \cup {NoTask}

\* A callable is never destroyed or replaced from the moment its thread is
\* created until that thread has exited, and the thread that start() creates
\* executes the callable that this start() was given, however many threads
\* start and stop the object at a time.
TaskStable ==
  [][/\ mState \in {"Running", "Stopping"} \/ body = "running"
          => mWorkerTask' = mWorkerTask
     /\ \A t \in Callers :
          pc[t] = "create" /\ "task" \in DOMAIN op[t] => mWorkerTask = op[t].task
    ]_<<callVars, asyncVars>>
===============================================================================
