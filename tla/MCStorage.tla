------------------------------- MODULE MCStorage -------------------------------
(***************************************************************************)
(* The containers for TLC.                                                 *)
(***************************************************************************)
EXTENDS Containers
===============================================================================
