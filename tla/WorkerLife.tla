------------------------------ MODULE WorkerLife ------------------------------
(***************************************************************************)
(* A WorkerThread as the classes built on it see it: the states that       *)
(* shouldRun() and start() tell apart, the run() of the current life, and  *)
(* who is inside start(), stop() or join().                                *)
(***************************************************************************)
CONSTANTS Threads, NoThread

VARIABLES
  mState,
  body,      \* run(): "none", "running" or "returned"
  lifecycle  \* the owner of mLifecycleLock

lifeVars == <<mState, body, lifecycle>>

Init ==
  /\ mState = "Idle"
  /\ body = "none"
  /\ lifecycle = NoThread

shouldRun == mState = "Running"

Acquire(t) ==
  /\ lifecycle = NoThread
  /\ lifecycle' = t
  /\ UNCHANGED <<mState, body>>

Free(t) ==
  /\ lifecycle = t
  /\ lifecycle' = NoThread
  /\ UNCHANGED <<mState, body>>

Claim(t) ==
  /\ lifecycle = t
  /\ mState = "Idle"
  /\ mState' = "Starting"
  /\ UNCHANGED <<body, lifecycle>>

\* onPrepare() or pthread_create() failed.
Fail(t) ==
  /\ lifecycle = t
  /\ mState = "Starting"
  /\ mState' = "Idle"
  /\ lifecycle' \in {t, NoThread}
  /\ UNCHANGED body

Begin(t) ==
  /\ lifecycle = t
  /\ mState = "Starting"
  /\ mState' = "Running"
  /\ lifecycle' = NoThread
  /\ UNCHANGED body

\* A requestStop() came while the thread was being created.
BeginStopping(t) ==
  /\ lifecycle = t
  /\ mState = "Starting"
  /\ mState' = "Stopping"
  /\ UNCHANGED <<body, lifecycle>>

RequestStop ==
  /\ mState = "Running"
  /\ mState' = "Stopping"
  /\ UNCHANGED <<body, lifecycle>>

RunBegins ==
  /\ mState \in {"Running", "Stopping"}
  /\ body = "none"
  /\ body' = "running"
  /\ UNCHANGED <<mState, lifecycle>>

RunReturns ==
  /\ body = "running"
  /\ body' = "returned"
  /\ UNCHANGED <<mState, lifecycle>>

Exit ==
  /\ mState \in {"Running", "Stopping"}
  /\ body = "returned"
  /\ mState' = "Exited"
  /\ UNCHANGED <<body, lifecycle>>

\* Only a thread that has exited is reaped, and only by the owner of the lock.
Reap(t) ==
  /\ lifecycle = t
  /\ mState = "Exited"
  /\ mState' = "Idle"
  /\ body' = "none"
  /\ lifecycle' \in {t, NoThread}

Next ==
  \/ \E t \in Threads :
       \/ Acquire(t) \/ Free(t) \/ Claim(t) \/ Fail(t)
       \/ Begin(t) \/ BeginStopping(t) \/ Reap(t)
  \/ RequestStop
  \/ RunBegins \/ RunReturns \/ Exit

Spec == Init /\ [][Next]_lifeVars
===============================================================================
