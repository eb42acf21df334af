--------------------------- MODULE ObserverContract ---------------------------
(***************************************************************************)
(* What a RawObserverList promises: a notification calls every observer    *)
(* that was there when it began and has not been removed since, once, and  *)
(* nobody else; an observer that was awaited is in no call, and stays out  *)
(* of every call until it is added again.                                  *)
(***************************************************************************)
CONSTANTS Threads, Observers, NoObserver

VARIABLES
  registered,  \* the observers in the list
  notifying,   \* the threads that are in notify()
  due,         \* the observers that each of them has yet to call
  called,      \* the observer that each of them is calling
  awaited      \* the observer that each thread in removeAndWait() waits for

vars == <<registered, notifying, due, called, awaited>>

Init ==
  /\ registered = {}
  /\ notifying = {}
  /\ due = [t \in Threads |-> {}]
  /\ called = [t \in Threads |-> NoObserver]
  /\ awaited = [t \in Threads |-> NoObserver]

\* An observer comes back only after its last calls have returned.
Add(x) ==
  /\ x \notin registered
  /\ \A t \in Threads : called[t] # x /\ awaited[t] # x
  /\ registered' = registered \cup {x}
  /\ UNCHANGED <<notifying, due, called, awaited>>

Unregister(x) ==
  /\ x \in registered
  /\ registered' = registered \ {x}
  /\ due' = [t \in Threads |-> due[t] \ {x}]
  /\ UNCHANGED <<notifying, called>>

Remove(x) == Unregister(x) /\ UNCHANGED awaited

RemoveAndWait(t, x) ==
  /\ awaited[t] = NoObserver
  /\ Unregister(x)
  /\ awaited' = [awaited EXCEPT ![t] = x]

WaitEnds(t) ==
  /\ awaited[t] # NoObserver
  /\ \A u \in Threads : called[u] # awaited[t]
  /\ awaited' = [awaited EXCEPT ![t] = NoObserver]
  /\ UNCHANGED <<registered, notifying, due, called>>

NotifyBegins(t) ==
  /\ t \notin notifying
  /\ notifying' = notifying \cup {t}
  /\ due' = [due EXCEPT ![t] = registered]
  /\ UNCHANGED <<registered, called, awaited>>

Call(t, x) ==
  /\ called[t] = NoObserver
  /\ x \in due[t]
  /\ due' = [due EXCEPT ![t] = @ \ {x}]
  /\ called' = [called EXCEPT ![t] = x]
  /\ UNCHANGED <<registered, notifying, awaited>>

CallReturns(t) ==
  /\ called[t] # NoObserver
  /\ called' = [called EXCEPT ![t] = NoObserver]
  /\ UNCHANGED <<registered, notifying, due, awaited>>

NotifyEnds(t) ==
  /\ t \in notifying
  /\ due[t] = {}
  /\ called[t] = NoObserver
  /\ notifying' = notifying \ {t}
  /\ UNCHANGED <<registered, due, called, awaited>>

Next ==
  \/ \E x \in Observers : Add(x) \/ Remove(x)
  \/ \E t \in Threads :
       \/ WaitEnds(t) \/ NotifyBegins(t) \/ CallReturns(t) \/ NotifyEnds(t)
       \/ \E x \in Observers : RemoveAndWait(t, x) \/ Call(t, x)

Spec == Init /\ [][Next]_vars
===============================================================================
