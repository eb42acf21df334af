----------------------------- MODULE ObserverList -----------------------------
(***************************************************************************)
(* common/ObserverList.h: RawObserverList, a table of observers that       *)
(* threads change while others call its entries.  Every section of mLock   *)
(* is one action; the callbacks run outside it.                            *)
(***************************************************************************)
EXTENDS Naturals, FiniteSets

CONSTANTS
  Threads,
  Observers,
  NoObserver,      \* nullptr
  MaxObservers,    \* slots in the table
  MaxGeneration    \* bound on mGeneration: the add() calls that succeed

ASSUME MaxObserversAssumption == MaxObservers \in Nat \ {0}

ASSUME ObserversAssumption == NoObserver \notin Observers

ASSUME ThreadsAssumption == IsFiniteSet(Threads)

ASSUME GenerationAssumption == MaxGeneration \in Nat

Slots == 0 .. MaxObservers - 1

Generations == 0 .. MaxGeneration

VARIABLES
  mEntries,
  mOccupied,    \* mOccupiedBits: the slots in use
  mGeneration,
  mChanged,     \* threads blocked in mChanged
  pc,           \* where each thread is
  slot,         \* the entry that a thread is calling or waiting for
  todo,         \* the slots of a notify()'s snapshot that are still to come
  startGeneration

locals == <<pc, slot, todo, startGeneration>>
vars == <<mEntries, mOccupied, mGeneration, mChanged, locals>>

Empty == [observer |-> NoObserver, activeCalls |-> 0, generation |-> 0,
          removed |-> FALSE, waitingRemoval |-> FALSE]

Init ==
  /\ mEntries = [i \in Slots |-> Empty]
  /\ mOccupied = {}
  /\ mGeneration = 0
  /\ mChanged = {}
  /\ pc = [t \in Threads |-> "idle"]
  /\ slot = [t \in Threads |-> 0]
  /\ todo = [t \in Threads |-> {}]
  /\ startGeneration = [t \in Threads |-> 0]

-------------------------------------------------------------------------------
(* Helpers *)

Goto(t, l) == pc' = [pc EXCEPT ![t] = l]

IsFirst(i, S) == i \in S /\ \A j \in S : i <= j

\* add() and remove() may also be called from a callback.
SomebodyMayCall == \E t \in Threads : pc[t] \in {"idle", "calling"}

\* contains(): the observer is in the list and not marked as removed.
Active(i, x) ==
  i \in mOccupied /\ mEntries[i].observer = x /\ ~mEntries[i].removed

contains(x) == \E i \in Slots : Active(i, x)

\* resetEntryLocked() for all slots of S.
Reset(S) ==
  /\ mEntries' = [i \in Slots |-> IF i \in S THEN Empty ELSE mEntries[i]]
  /\ mOccupied' = mOccupied \ S

-------------------------------------------------------------------------------
(* add(), remove() *)

\* An observer that was removed stays in the table while it is being called,
\* and cannot be added again until then.
Add(x) ==
  /\ SomebodyMayCall
  /\ \A i \in mOccupied : mEntries[i].observer # x
  /\ mGeneration < MaxGeneration
  /\ mGeneration' = mGeneration + 1
  /\ \E i \in Slots :
       /\ IsFirst(i, Slots \ mOccupied)
       /\ mEntries' = [mEntries EXCEPT ![i] =
            [Empty EXCEPT !.observer = x, !.generation = mGeneration + 1]]
       /\ mOccupied' = mOccupied \cup {i}
  /\ UNCHANGED <<mChanged, locals>>

Remove(x) ==
  /\ SomebodyMayCall
  /\ \E i \in Slots :
       /\ Active(i, x)
       /\ IF mEntries[i].activeCalls = 0 /\ ~mEntries[i].waitingRemoval
            THEN Reset({i})
            ELSE /\ mEntries' = [mEntries EXCEPT ![i].removed = TRUE]
                 /\ UNCHANGED mOccupied
  /\ UNCHANGED <<mGeneration, mChanged, locals>>

-------------------------------------------------------------------------------
(* removeAndWait(), which is not for callbacks *)

\* Nobody is calling the observer (otherwise see RemoveBlocks).
RemoveWithoutWait(t, x) ==
  /\ pc[t] = "idle"
  /\ \E i \in Slots :
       Active(i, x) /\ mEntries[i].activeCalls = 0 /\ Reset({i})
  /\ UNCHANGED <<mGeneration, mChanged, locals>>

RemoveBlocks(t, x) ==
  /\ pc[t] = "idle"
  /\ \E i \in Slots :
       /\ Active(i, x) /\ mEntries[i].activeCalls > 0
       /\ mEntries' = [mEntries EXCEPT ![i].removed = TRUE,
                                       ![i].waitingRemoval = TRUE]
       /\ slot' = [slot EXCEPT ![t] = i]
  /\ mChanged' = mChanged \cup {t}
  /\ Goto(t, "wait")
  /\ UNCHANGED <<mOccupied, mGeneration, todo, startGeneration>>

SpuriousWakeup(t) ==
  /\ pc[t] = "wait"
  /\ mChanged' = mChanged \ {t}
  /\ Goto(t, "relock")
  /\ UNCHANGED <<mEntries, mOccupied, mGeneration, slot, todo, startGeneration>>

WaitAgain(t) ==
  /\ pc[t] = "relock"
  /\ mEntries[slot[t]].activeCalls > 0
  /\ mChanged' = mChanged \cup {t}
  /\ Goto(t, "wait")
  /\ UNCHANGED <<mEntries, mOccupied, mGeneration, slot, todo, startGeneration>>

WaitEnds(t) ==
  /\ pc[t] = "relock"
  /\ mEntries[slot[t]].activeCalls = 0
  /\ Reset({slot[t]})
  /\ slot' = [slot EXCEPT ![t] = 0]
  /\ Goto(t, "idle")
  /\ UNCHANGED <<mGeneration, mChanged, todo, startGeneration>>

-------------------------------------------------------------------------------
(* notify() *)

NotifyBegins(t) ==
  /\ pc[t] = "idle"
  /\ startGeneration' = [startGeneration EXCEPT ![t] = mGeneration]
  /\ todo' = [todo EXCEPT ![t] = mOccupied]
  /\ Goto(t, "next")
  /\ UNCHANGED <<mEntries, mOccupied, mGeneration, mChanged, slot>>

\* Mutant of MayCall: the generation is not compared.
MayCallAnybody(i, generation) == i \in mOccupied /\ ~mEntries[i].removed

\* The entry is still, or again, one that a notification which began at this
\* generation calls.
MayCall(i, generation) ==
  /\ i \in mOccupied
  /\ ~mEntries[i].removed
  /\ mEntries[i].generation <= generation

\* acquireForNotify(): the next slot of the snapshot.
Acquire(t) ==
  /\ pc[t] = "next"
  /\ \E i \in todo[t] :
       /\ IsFirst(i, todo[t])
       /\ todo' = [todo EXCEPT ![t] = @ \ {i}]
       /\ IF MayCall(i, startGeneration[t])
            THEN /\ mEntries' = [mEntries EXCEPT ![i].activeCalls = @ + 1]
                 /\ slot' = [slot EXCEPT ![t] = i]
                 /\ Goto(t, "calling")
            ELSE UNCHANGED <<mEntries, slot, pc>>
  /\ UNCHANGED <<mOccupied, mGeneration, mChanged, startGeneration>>

\* Mutant of Release: a removed entry keeps its slot.
ReleaseKeepsSlot(t) ==
  /\ pc[t] = "calling"
  /\ mEntries' = [mEntries EXCEPT ![slot[t]].activeCalls = @ - 1]
  /\ slot' = [slot EXCEPT ![t] = 0]
  /\ Goto(t, IF /\ mEntries[slot[t]].activeCalls = 1
                /\ mEntries[slot[t]].waitingRemoval THEN "cast" ELSE "next")
  /\ UNCHANGED <<mOccupied, mGeneration, mChanged, todo, startGeneration>>

\* Mutant of Release: the thread that waits is not told.
ReleaseQuietly(t) ==
  /\ pc[t] = "calling"
  /\ mEntries' = [mEntries EXCEPT ![slot[t]].activeCalls = @ - 1]
  /\ slot' = [slot EXCEPT ![t] = 0]
  /\ Goto(t, "next")
  /\ UNCHANGED <<mOccupied, mGeneration, mChanged, todo, startGeneration>>

\* The callback returns: releaseAfterNotify().
Release(t) ==
  LET i == slot[t]
      e == mEntries[i]
      last == e.activeCalls <= 1
  IN
  /\ pc[t] = "calling"
  /\ IF i \in mOccupied /\ last /\ e.removed /\ ~e.waitingRemoval
       THEN Reset({i})
       ELSE /\ mEntries' = IF i \in mOccupied /\ e.activeCalls > 0
                             THEN [mEntries EXCEPT ![i].activeCalls = @ - 1]
                             ELSE mEntries
            /\ UNCHANGED mOccupied
  /\ Goto(t, IF i \in mOccupied /\ last /\ e.waitingRemoval THEN "cast" ELSE "next")
  /\ slot' = [slot EXCEPT ![t] = 0]
  /\ UNCHANGED <<mGeneration, mChanged, todo, startGeneration>>

\* Mutant of Broadcast: one waiter is woken.
SignalOne(t) ==
  /\ pc[t] = "cast"
  /\ IF mChanged = {}
       THEN UNCHANGED mChanged /\ Goto(t, "next")
       ELSE \E u \in mChanged :
              /\ mChanged' = mChanged \ {u}
              /\ pc' = [pc EXCEPT ![t] = "next", ![u] = "relock"]
  /\ UNCHANGED <<mEntries, mOccupied, mGeneration, slot, todo, startGeneration>>

\* The broadcast that follows, outside mLock.
Broadcast(t) ==
  /\ pc[t] = "cast"
  /\ mChanged' = {}
  /\ pc' = [u \in Threads |->
              IF u = t THEN "next" ELSE IF u \in mChanged THEN "relock" ELSE pc[u]]
  /\ UNCHANGED <<mEntries, mOccupied, mGeneration, slot, todo, startGeneration>>

\* releaseRemoved(), and notify() returns.
NotifyEnds(t) ==
  /\ pc[t] = "next"
  /\ todo[t] = {}
  /\ Reset({i \in mOccupied : /\ mEntries[i].removed
                              /\ ~mEntries[i].waitingRemoval
                              /\ mEntries[i].activeCalls = 0})
  /\ startGeneration' = [startGeneration EXCEPT ![t] = 0]
  /\ Goto(t, "idle")
  /\ UNCHANGED <<mGeneration, mChanged, slot, todo>>

-------------------------------------------------------------------------------
(* Specification *)

\* The steps of a thread that is in an operation.
Step(t) ==
  \/ WaitAgain(t) \/ WaitEnds(t)
  \/ Acquire(t) \/ Release(t) \/ Broadcast(t) \/ NotifyEnds(t)

Next ==
  \/ \E x \in Observers : Add(x) \/ Remove(x)
  \/ \E t \in Threads :
       \/ Step(t) \/ SpuriousWakeup(t) \/ NotifyBegins(t)
       \/ \E x \in Observers : RemoveWithoutWait(t, x) \/ RemoveBlocks(t, x)

Spec == Init /\ [][Next]_vars

\* Threads go on with what they do, and callbacks return.
FairSpec == Spec /\ \A t \in Threads : WF_vars(Step(t))

-------------------------------------------------------------------------------
(* Properties *)

Calling(i) == {t \in Threads : pc[t] = "calling" /\ slot[t] = i}

Waiting(i) == {t \in Threads : pc[t] \in {"wait", "relock"} /\ slot[t] = i}

Entries == [observer : Observers \cup {NoObserver}, activeCalls : Nat,
            generation : Generations, removed : BOOLEAN, waitingRemoval : BOOLEAN]

\* The variables have their types, and the threads that wait are in the wait
\* set.
TypeOK ==
  /\ mEntries \in [Slots -> Entries]
  /\ mOccupied \subseteq Slots
  /\ mGeneration \in Generations
  /\ mChanged = {t \in Threads : pc[t] = "wait"}
  /\ pc \in [Threads -> {"idle", "wait", "relock", "next", "calling", "cast"}]
  /\ slot \in [Threads -> Slots]
  /\ todo \in [Threads -> SUBSET Slots]
  /\ startGeneration \in [Threads -> Generations]

EntryAccounted(i) ==
  /\ mEntries[i].activeCalls = Cardinality(Calling(i))
  /\ Cardinality(Waiting(i)) = IF mEntries[i].waitingRemoval THEN 1 ELSE 0
  /\ i \notin mOccupied => mEntries[i] = Empty
  /\ mEntries[i].removed => Calling(i) \cup Waiting(i) # {}

\* The types, and every entry is accounted for: its calls are the threads that
\* are in its callback, it waits for removal when one thread waits for it, and
\* once it is marked as removed somebody is left who will free its slot.  A free
\* slot is in nobody's hands (acquireForNotify(), releaseAfterNotify()).
SlotsAccounted == TypeOK /\ \A i \in Slots : EntryAccounted(i)

\* A thread in removeAndWait() that sleeps although nobody calls its observer
\* any more is about to be told, although the broadcast is outside the lock.
WaiterNoticed ==
  \A t \in Threads :
    pc[t] = "wait" /\ mEntries[slot[t]].activeCalls = 0
      => \E u \in Threads : pc[u] = "cast"

\* removeAndWait() returns if the callbacks do.
RemovalReturns ==
  \A t \in Threads : pc[t] = "wait" ~> pc[t] = "idle"

\* The list keeps the promises of ObserverContract, with an observer's calls
\* counted from acquireForNotify() to releaseAfterNotify().
Contract == INSTANCE ObserverContract WITH
  registered <- {x \in Observers : contains(x)},
  notifying <- {t \in Threads : pc[t] \in {"next", "calling", "cast"}},
  due <- [t \in Threads |->
            {mEntries[i].observer :
               i \in {j \in todo[t] : MayCall(j, startGeneration[t])}}],
  called <- [t \in Threads |->
               IF pc[t] = "calling" THEN mEntries[slot[t]].observer ELSE NoObserver],
  awaited <- [t \in Threads |->
                IF pc[t] \in {"wait", "relock"}
                  THEN mEntries[slot[t]].observer ELSE NoObserver]

ContractSpec == Contract!Spec
===============================================================================
