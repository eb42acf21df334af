------------------------------- MODULE MCMainLoop -------------------------------
(***************************************************************************)
(* MainLoop with a few threads and watchers for TLC.                       *)
(***************************************************************************)
EXTENDS MainLoop
===============================================================================
