----------------------------- MODULE PoolContract -----------------------------
(***************************************************************************)
(* What DataPool and ObjectPool promise: a cell holds at most one object,  *)
(* create() succeeds as long as a cell is free, and every object is        *)
(* destroyed once, by destroy() or by clear().                             *)
(***************************************************************************)
CONSTANTS
  Places,  \* the addresses of the cells
  Null

VARIABLES
  objects,  \* the addresses of the objects that exist
  created   \* what the last create() returned

vars == <<objects, created>>

Init == objects = {} /\ created = Null

Create ==
  \E a \in Places \ objects :
    /\ objects' = objects \cup {a}
    /\ created' = a

Exhausted ==
  /\ objects = Places
  /\ created' = Null
  /\ UNCHANGED objects

Destroy ==
  \E a \in objects :
    /\ objects' = objects \ {a}
    /\ UNCHANGED created

Clear == objects' = {} /\ UNCHANGED created

Next == Create \/ Exhausted \/ Destroy \/ Clear

Spec == Init /\ [][Next]_vars
===============================================================================
