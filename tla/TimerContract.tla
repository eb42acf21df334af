---------------------------- MODULE TimerContract ----------------------------
(***************************************************************************)
(* What a MainLoop promises about its timers, whichever threads control    *)
(* them: a handler is called at most once for each time its timer was      *)
(* armed, never before the expiry, never after the timer was taken back,   *)
(* and one handler at a time; start() arms a timer only once the loop has  *)
(* finished with it.                                                       *)
(***************************************************************************)
EXTENDS Naturals

CONSTANT Timers

VARIABLES
  phase,  \* where each timer is in its cycle
  due,    \* the expiry of each timer that is armed or about to be
  now     \* the clock

vars == <<phase, due, now>>

\* The phases in which the loop is working on the timer.
Taken == {"fired", "calling", "called", "rearming"}

Init ==
  /\ phase = [i \in Timers |-> "off"]
  /\ due \in [Timers -> Nat]
  /\ now = 0

Advance == now' = now + 1 /\ UNCHANGED <<phase, due>>

Move(i, from, to) == phase[i] = from /\ phase' = [phase EXCEPT ![i] = to]

\* due' may change for timer i only, and to any time.
NewDue(i) ==
  /\ due' \in [Timers -> Nat]
  /\ \A j \in Timers \ {i} : due'[j] = due[j]

Start(i) == Move(i, "off", "armed") /\ NewDue(i) /\ UNCHANGED now

Cancel(i) == Move(i, "armed", "off") /\ NewDue(i) /\ UNCHANGED now

Fire(i) ==
  /\ due[i] <= now
  /\ \A j \in Timers : phase[j] \notin Taken
  /\ Move(i, "armed", "fired")
  /\ NewDue(i)
  /\ UNCHANGED now

CallHandler(i) == Move(i, "fired", "calling") /\ UNCHANGED <<due, now>>

HandlerReturns(i) == Move(i, "calling", "called") /\ UNCHANGED <<due, now>>

\* No handler was set.
NoHandler(i) == Move(i, "fired", "called") /\ UNCHANGED <<due, now>>

Finish(i) == Move(i, "called", "off") /\ UNCHANGED <<due, now>>

Keep(i) == Move(i, "called", "rearming") /\ NewDue(i) /\ UNCHANGED now

Rearm(i) == Move(i, "rearming", "armed") /\ UNCHANGED <<due, now>>

GiveUp(i) == Move(i, "rearming", "off") /\ NewDue(i) /\ UNCHANGED now

Next ==
  \/ Advance
  \/ \E i \in Timers :
       \/ Start(i) \/ Cancel(i) \/ Fire(i) \/ CallHandler(i)
       \/ HandlerReturns(i) \/ NoHandler(i) \/ Finish(i)
       \/ Keep(i) \/ Rearm(i) \/ GiveUp(i)

Spec == Init /\ [][Next]_vars
===============================================================================
