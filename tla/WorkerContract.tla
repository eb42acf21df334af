---------------------------- MODULE WorkerContract ----------------------------
(***************************************************************************)
(* What a WorkerThread promises the IWorker it drives: the order in which  *)
(* the callbacks declared in WorkerThread.h (IWorker) may be entered and   *)
(* left.  One life of the worker goes from an onPrepare() that returned    *)
(* true to the matching onCleanup().                                       *)
(***************************************************************************)
EXTENDS Naturals

VARIABLES
  openLives,  \* onPrepare() calls that returned true, less onCleanup() calls
  body,       \* run() of this life: "none", "running" or "returned"
  stopCalls,  \* onStopRequested() calls made in this life
  stopActive  \* a thread is inside onStopRequested()

vars == <<openLives, body, stopCalls, stopActive>>

Init ==
  /\ openLives = 0
  /\ body = "none"
  /\ stopCalls = 0
  /\ stopActive = FALSE

\* onPrepare() returns true: a life starts, with nothing left of the last one.
Prepare ==
  /\ openLives = 0
  /\ openLives' = 1
  /\ UNCHANGED <<body, stopCalls, stopActive>>

RunBegins ==
  /\ openLives = 1
  /\ body = "none"
  /\ body' = "running"
  /\ UNCHANGED <<openLives, stopCalls, stopActive>>

RunReturns ==
  /\ body = "running"
  /\ body' = "returned"
  /\ UNCHANGED <<openLives, stopCalls, stopActive>>

\* onStopRequested() is entered at most once in a life.
StopRequestedBegins ==
  /\ openLives = 1
  /\ stopCalls = 0
  /\ stopCalls' = 1
  /\ stopActive' = TRUE
  /\ UNCHANGED <<openLives, body>>

StopRequestedReturns ==
  /\ stopActive
  /\ stopActive' = FALSE
  /\ UNCHANGED <<openLives, body, stopCalls>>

\* onCleanup() ends the life, and only when no other callback is in progress.
Cleanup ==
  /\ openLives = 1
  /\ body # "running"
  /\ ~stopActive
  /\ openLives' = 0
  /\ body' = "none"
  /\ stopCalls' = 0
  /\ UNCHANGED stopActive

Next ==
  \/ Prepare
  \/ RunBegins
  \/ RunReturns
  \/ StopRequestedBegins
  \/ StopRequestedReturns
  \/ Cleanup

Spec == Init /\ [][Next]_vars
===============================================================================
