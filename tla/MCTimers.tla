------------------------------- MODULE MCTimers -------------------------------
(***************************************************************************)
(* Timers with a few timers and threads for TLC.                           *)
(***************************************************************************)
EXTENDS Timers

\* One tick.
JustOne == {1}

\* Intervals that start() takes, one of them beyond WaitTime.
OneOrTwo == {1, 2}
===============================================================================
