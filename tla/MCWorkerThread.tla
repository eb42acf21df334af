--------------------------- MODULE MCWorkerThread ---------------------------
(***************************************************************************)
(* WorkerThread with a few threads for TLC.                                *)
(***************************************************************************)
EXTENDS WorkerThread

\* What the callers do, and what a run() that keeps to the interface does to
\* its own WorkerThread.
AllOps == Ops
OwnOps == {"stop", "join", "requestStop"}
==============================================================================
