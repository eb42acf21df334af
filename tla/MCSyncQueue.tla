------------------------------ MODULE MCSyncQueue ------------------------------
(***************************************************************************)
(* SyncQueue with a few threads for TLC.                                   *)
(***************************************************************************)
EXTENDS SyncQueue

EveryOp == AllOps
================================================================================
