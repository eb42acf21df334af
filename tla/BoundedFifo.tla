------------------------------ MODULE BoundedFifo ------------------------------
(***************************************************************************)
(* What SyncQueue promises: a first-in first-out queue of bounded length,  *)
(* from which every element is taken exactly once and which accepts        *)
(* nothing while the end of the stream is set.                             *)
(***************************************************************************)
EXTENDS Naturals, Sequences

CONSTANTS T, Capacity

VARIABLES
  items,  \* the elements in the queue, oldest first
  eos,    \* the end of the stream is set
  taken   \* the last element taken out

vars == <<items, eos, taken>>

Init ==
  /\ items = <<>>
  /\ eos = FALSE
  /\ taken \in T

Put(x) ==
  /\ ~eos
  /\ Len(items) < Capacity
  /\ items' = Append(items, x)
  /\ UNCHANGED <<eos, taken>>

\* A full queue gives its oldest element up.
PutForced(x) ==
  /\ ~eos
  /\ Len(items) = Capacity
  /\ items' = Append(Tail(items), x)
  /\ taken' = Head(items)
  /\ UNCHANGED eos

Take ==
  /\ items # <<>>
  /\ items' = Tail(items)
  /\ taken' = Head(items)
  /\ UNCHANGED eos

SetEOS ==
  /\ eos' \in BOOLEAN
  /\ UNCHANGED <<items, taken>>

Next ==
  \/ \E x \in T : Put(x) \/ PutForced(x)
  \/ Take
  \/ SetEOS

Spec == Init /\ [][Next]_vars
===============================================================================
