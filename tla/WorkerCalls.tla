------------------------------ MODULE WorkerCalls ------------------------------
(***************************************************************************)
(* Threads that call start() and stop() of one WorkerThread, and the       *)
(* thread it runs: what TimerThread and AsyncThread are built on.          *)
(***************************************************************************)
EXTENDS WorkerLife

CONSTANTS
  Callers,  \* threads that use the owner of the WorkerThread
  Worker    \* the thread that calls run()

ASSUME CallersAssumption ==
  /\ Worker \notin Callers
  /\ Threads = Callers \cup {Worker}
  /\ NoThread \notin Threads

VARIABLES
  pc,  \* where each thread is
  op   \* the operation of the owner that each caller executes

callVars == <<lifeVars, pc, op>>

NoOp == [name |-> "none"]

CallInit ==
  /\ Init
  /\ pc = [t \in Threads |-> IF t = Worker THEN "none" ELSE "idle"]
  /\ op = [t \in Callers |-> NoOp]

Goto(t, l) == pc' = [pc EXCEPT ![t] = l]

\* The operation of the owner begins with the step l, or returns.
Invoke(t, operation, l) ==
  /\ pc[t] = "idle"
  /\ op' = [op EXCEPT ![t] = operation]
  /\ Goto(t, l)

Return(t) ==
  /\ op' = [op EXCEPT ![t] = NoOp]
  /\ Goto(t, "idle")

\* mThread.stop(), called by t, after which it goes on at next.
StopStep(t, next) ==
  /\ \/ /\ pc[t] = "stop"
        /\ Acquire(t)
        /\ Goto(t, "request")
     \/ /\ pc[t] = "request"
        /\ RequestStop \/ (~shouldRun /\ UNCHANGED lifeVars)
        /\ Goto(t, "join")
     \/ /\ pc[t] = "join"
        /\ Reap(t) \/ (mState = "Idle" /\ Free(t))
        /\ lifecycle' = NoThread
        /\ Goto(t, next)
  /\ UNCHANGED op

\* mThread.start(*this), which may fail: t goes on at next in any case.
StartStep(t, next) ==
  /\ \/ /\ pc[t] = "start"
        /\ Acquire(t)
        /\ Goto(t, "claim")
     \/ /\ pc[t] = "claim"
        /\ mState \in {"Running", "Stopping"}
        /\ Free(t)
        /\ Goto(t, next)
     \/ /\ pc[t] = "claim"
        /\ Reap(t)
        /\ lifecycle' = t
        /\ UNCHANGED pc
     \/ /\ pc[t] = "claim"
        /\ Claim(t)
        /\ Goto(t, "create")
     \/ /\ pc[t] = "create"
        /\ Begin(t) \/ Fail(t)
        /\ lifecycle' = NoThread
        /\ Goto(t, next)
  /\ UNCHANGED op

CallTypeOK ==
  /\ mState \in {"Idle", "Starting", "Running", "Stopping", "Exited"}
  /\ body \in {"none", "running", "returned"}
  /\ lifecycle \in Callers \cup {NoThread}
  /\ DOMAIN pc = Threads /\ DOMAIN op = Callers
================================================================================
