------------------------------- MODULE MCOwners -------------------------------
(***************************************************************************)
(* The classes built on WorkerThread, for TLC.  They do not know of each   *)
(* other, so that each behaviour is about one of them.                     *)
(***************************************************************************)
EXTENDS TimerThread, AsyncThread, App

VARIABLE subject  \* the class that the behaviour is about

ownerVars == <<subject, callVars, timerVars, asyncVars, appVars>>

OwnersInit ==
  /\ subject \in {"TimerThread", "AsyncThread", "App"}
  /\ TimerInit /\ AsyncInit /\ AppInit

OwnersNext ==
  /\ UNCHANGED subject
  /\ \/ /\ subject = "TimerThread"
        /\ TimerNext
        /\ UNCHANGED <<asyncVars, appVars>>
     \/ /\ subject = "AsyncThread"
        /\ AsyncNext
        /\ UNCHANGED <<timerVars, appVars>>
     \/ /\ subject = "App"
        /\ AppNext
        /\ UNCHANGED <<callVars, timerVars, asyncVars>>

OwnersSpec ==
  /\ OwnersInit /\ [][OwnersNext]_ownerVars
  /\ subject = "App" => AppFairness

TypeOK == TimerTypeOK /\ AsyncTypeOK /\ AppTypeOK
===============================================================================
