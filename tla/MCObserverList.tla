---------------------------- MODULE MCObserverList ----------------------------
(***************************************************************************)
(* ObserverList with a small table and a few threads for TLC.              *)
(***************************************************************************)
EXTENDS ObserverList
===============================================================================
