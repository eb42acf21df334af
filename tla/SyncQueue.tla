------------------------------- MODULE SyncQueue -------------------------------
(***************************************************************************)
(* common/SyncQueue.h: a CircularQueue shared by threads, with blocking    *)
(* and timed put() and get(), a forced put, flush and an end-of-stream     *)
(* mark.  Every section of mLock is one action.  A thread that leaves a    *)
(* condition variable has to take the lock again before it looks at the    *)
(* queue, which is a step of its own; signal() wakes one waiter, whichever.*)
(***************************************************************************)
EXTENDS CircularQueue, FiniteSets

CONSTANTS
  Threads,
  Ops       \* the operations that threads use

Blocking == {"put", "get"}

AllOps == Blocking \cup {"putForce", "flush", "setEOS"}

\* timeoutMs: INFINITE, 0, or a finite time to wait.
Timeouts == {"infinite", "zero", "finite"}

ASSUME OpsAssumption == Ops \subseteq AllOps

ASSUME ThreadsAssumption == IsFiniteSet(Threads)

ASSUME ElementsAssumption == T # {}

VARIABLES
  mQueue, mEOS,
  cvFull,   \* threads blocked in mCvFull
  cvEmpty,  \* threads blocked in mCvEmpty
  pc,       \* where each thread is
  call,     \* the operation each thread is in, with its argument
  taken     \* the last element taken out: *t of get(), oldData of putForce()
            \* or oldValue of flush()

cvs == <<cvFull, cvEmpty>>
vars == <<mQueue, mEOS, cvs, pc, call, taken>>

\* The element in a slot before the first put().
Any == CHOOSE x \in T : TRUE

NoCall == [op |-> "get", timeout |-> "zero", elem |-> Any, eos |-> FALSE]

Init ==
  /\ mQueue = [mBuffer |-> [s \in Slots |-> Any],
               mSize |-> 0, mFront |-> 0, mRear |-> 0]
  /\ mEOS = FALSE
  /\ cvFull = {}
  /\ cvEmpty = {}
  /\ pc = [t \in Threads |-> "idle"]
  /\ call = [t \in Threads |-> NoCall]
  /\ taken = Any

-------------------------------------------------------------------------------
(* Helpers *)

Goto(t, l) == pc' = [pc EXCEPT ![t] = l]

\* Thread t is in operation o and about to take mLock: at its start, or after
\* a wait.
Entering(t, o) == pc[t] \in {"lock", "relock"} /\ call[t].op = o

Return(t) ==
  /\ Goto(t, "idle")
  /\ call' = [call EXCEPT ![t] = NoCall]

\* cv.signal() by thread t, which then returns: one of the waiters, if there
\* are any, leaves.
SignalAndReturn(cv, t) ==
  /\ IF cv = {}
       THEN UNCHANGED cv /\ Goto(t, "idle")
       ELSE \E u \in cv :
              /\ cv' = cv \ {u}
              /\ pc' = [pc EXCEPT ![t] = "idle", ![u] = "relock"]
  /\ call' = [call EXCEPT ![t] = NoCall]

\* cv.broadcast() by thread t, which goes on to l.
Broadcast(cv, t, l) ==
  /\ cv' = {}
  /\ call' = IF l = "idle" THEN [call EXCEPT ![t] = NoCall] ELSE call
  /\ pc' = [u \in Threads |->
              IF u = t THEN l ELSE IF u \in cv THEN "relock" ELSE pc[u]]

\* cv.wait() by thread t: it waits, or has no time to.
WaitOn(cv, t) ==
  IF call[t].timeout = "zero"
    THEN Return(t) /\ UNCHANGED cv
    ELSE Goto(t, "wait") /\ cv' = cv \cup {t} /\ UNCHANGED call

-------------------------------------------------------------------------------
(* Operations *)

Invoke(t, o, timeout, x, eos) ==
  /\ pc[t] = "idle" /\ o \in Ops
  /\ o \notin Blocking => timeout = "zero"
  /\ o \notin {"put", "putForce"} => x = Any
  /\ o # "setEOS" => eos = FALSE
  /\ call' = [call EXCEPT ![t] = [op |-> o, timeout |-> timeout, elem |-> x,
                                  eos |-> eos]]
  /\ Goto(t, "lock")
  /\ UNCHANGED <<mQueue, mEOS, cvs, taken>>

PutBlocks(t) ==
  /\ Entering(t, "put")
  /\ isFull(mQueue) /\ ~mEOS
  /\ WaitOn(cvFull, t)
  /\ UNCHANGED <<mQueue, mEOS, cvEmpty, taken>>

PutRefused(t) ==
  /\ Entering(t, "put")
  /\ mEOS
  /\ Return(t)
  /\ UNCHANGED <<mQueue, mEOS, cvs, taken>>

\* Mutant of Put: no signal.
PutQuietly(t) ==
  /\ Entering(t, "put")
  /\ ~isFull(mQueue) /\ ~mEOS
  /\ mQueue' = put(mQueue, call[t].elem)
  /\ Return(t)
  /\ UNCHANGED <<mEOS, cvs, taken>>

Put(t) ==
  /\ Entering(t, "put")
  /\ ~isFull(mQueue) /\ ~mEOS
  /\ mQueue' = put(mQueue, call[t].elem)
  /\ SignalAndReturn(cvEmpty, t)
  /\ UNCHANGED <<mEOS, cvFull, taken>>

PutForceRefused(t) ==
  /\ Entering(t, "putForce")
  /\ mEOS
  /\ Return(t)
  /\ UNCHANGED <<mQueue, mEOS, cvs, taken>>

\* (putForce() ends without a return statement: what it returns here is
\* undefined, and is left out.)
PutForce(t) ==
  /\ Entering(t, "putForce")
  /\ ~mEOS
  /\ IF isFull(mQueue)
       THEN /\ taken' = front(mQueue)
            /\ mQueue' = put(get(mQueue), call[t].elem)
       ELSE /\ mQueue' = put(mQueue, call[t].elem)
            /\ UNCHANGED taken
  /\ SignalAndReturn(cvEmpty, t)
  /\ UNCHANGED <<mEOS, cvFull>>

GetBlocks(t) ==
  /\ Entering(t, "get")
  /\ isEmpty(mQueue) /\ ~mEOS
  /\ WaitOn(cvEmpty, t)
  /\ UNCHANGED <<mQueue, mEOS, cvFull, taken>>

\* At the end of the stream get() leaves what is still in the queue.
GetRefused(t) ==
  /\ Entering(t, "get")
  /\ mEOS
  /\ Return(t)
  /\ UNCHANGED <<mQueue, mEOS, cvs, taken>>

Get(t) ==
  /\ Entering(t, "get")
  /\ ~isEmpty(mQueue) /\ ~mEOS
  /\ taken' = front(mQueue)
  /\ mQueue' = get(mQueue)
  /\ SignalAndReturn(cvFull, t)
  /\ UNCHANGED <<mEOS, cvEmpty>>

\* flush() empties the queue one section at a time and broadcasts at the end.
FlushOne(t) ==
  /\ Entering(t, "flush")
  /\ ~isEmpty(mQueue)
  /\ taken' = front(mQueue)
  /\ mQueue' = get(mQueue)
  /\ UNCHANGED <<mEOS, cvs, pc, call>>

\* Mutant of FlushDone: no broadcast follows.
FlushDoneQuietly(t) ==
  /\ Entering(t, "flush")
  /\ isEmpty(mQueue)
  /\ Return(t)
  /\ UNCHANGED <<mQueue, mEOS, cvs, taken>>

FlushDone(t) ==
  /\ Entering(t, "flush")
  /\ isEmpty(mQueue)
  /\ Goto(t, "cast_full")
  /\ UNCHANGED <<mQueue, mEOS, cvs, call, taken>>

SetEOS(t) ==
  /\ Entering(t, "setEOS")
  /\ mEOS' = call[t].eos
  /\ Goto(t, "cast_full")
  /\ UNCHANGED <<mQueue, cvs, call, taken>>

\* The broadcasts that follow, outside mLock.
BroadcastFull(t) ==
  /\ pc[t] = "cast_full"
  /\ Broadcast(cvFull, t, IF call[t].op = "flush" THEN "idle" ELSE "cast_empty")
  /\ UNCHANGED <<mQueue, mEOS, cvEmpty, taken>>

\* Mutant of BroadcastEmpty: a signal instead.
SignalEmpty(t) ==
  /\ pc[t] = "cast_empty"
  /\ SignalAndReturn(cvEmpty, t)
  /\ UNCHANGED <<mQueue, mEOS, cvFull, taken>>

BroadcastEmpty(t) ==
  /\ pc[t] = "cast_empty"
  /\ Broadcast(cvEmpty, t, "idle")
  /\ UNCHANGED <<mQueue, mEOS, cvFull, taken>>

-------------------------------------------------------------------------------
(* Leaving a condition variable without a signal *)

LeaveCv(t) == cvFull' = cvFull \ {t} /\ cvEmpty' = cvEmpty \ {t}

SpuriousWakeup(t) ==
  /\ pc[t] = "wait"
  /\ LeaveCv(t)
  /\ Goto(t, "relock")
  /\ UNCHANGED <<mQueue, mEOS, call, taken>>

\* pthread_cond_timedwait() times out: the operation fails without another
\* look at the queue.  (It has not consumed a signal: an assumption.)
TimesOut(t) ==
  /\ pc[t] = "wait" /\ call[t].timeout = "finite"
  /\ LeaveCv(t)
  /\ Return(t)
  /\ UNCHANGED <<mQueue, mEOS, taken>>

-------------------------------------------------------------------------------
(* Specification *)

Step(t) ==
  \/ PutBlocks(t) \/ PutRefused(t) \/ Put(t)
  \/ PutForceRefused(t) \/ PutForce(t)
  \/ GetBlocks(t) \/ GetRefused(t) \/ Get(t)
  \/ FlushOne(t) \/ FlushDone(t)
  \/ SetEOS(t) \/ BroadcastFull(t) \/ BroadcastEmpty(t)

Next ==
  \E t \in Threads :
    \/ Step(t) \/ SpuriousWakeup(t) \/ TimesOut(t)
    \/ \E o \in AllOps, timeout \in Timeouts, x \in T, eos \in BOOLEAN :
         Invoke(t, o, timeout, x, eos)

Spec == Init /\ [][Next]_vars

-------------------------------------------------------------------------------
(* Properties *)

Waiting(o) == {t \in Threads : pc[t] = "wait" /\ call[t].op = o}

\* Waiters that a signal or broadcast (or nothing) has woken.
Awake(o) == {t \in Threads : pc[t] = "relock" /\ call[t].op = o}

\* A setEOS() has yet to broadcast to the consumers what it did.
EmptyBroadcastDue ==
  \E t \in Threads : pc[t] \in {"cast_full", "cast_empty"} /\ call[t].op = "setEOS"

\* Likewise to the producers; or a flush(), which takes elements out before its
\* only broadcast.
FullBroadcastDue ==
  \E t \in Threads :
    \/ pc[t] = "cast_full"
    \/ pc[t] = "lock" /\ call[t].op = "flush"

\* The fields have their types, the ring buffer's fields fit together, and
\* the wait sets hold the threads that wait.
TypeOK ==
  /\ WellFormed(mQueue)
  /\ mEOS \in BOOLEAN
  /\ cvFull = Waiting("put")
  /\ cvEmpty = Waiting("get")
  /\ pc \in [Threads -> {"idle", "lock", "relock", "wait", "cast_full",
                         "cast_empty"}]
  /\ call \in [Threads -> [op : AllOps, timeout : Timeouts, elem : T,
                           eos : BOOLEAN]]
  /\ taken \in T

\* No wakeup of a consumer is lost: when consumers wait although there are
\* elements, at least as many others have been woken to take them.
NoConsumerForgotten ==
  cvEmpty # {} /\ ~mEOS /\ ~EmptyBroadcastDue
    => mQueue.mSize <= Cardinality(Awake("get"))

\* Likewise for producers and free slots.
NoProducerForgotten ==
  cvFull # {} /\ ~mEOS /\ ~FullBroadcastDue
    => capacity - mQueue.mSize <= Cardinality(Awake("put"))

\* The queue is first in, first out, whoever uses it.
Contract == INSTANCE BoundedFifo WITH
  Capacity <- capacity,
  items <- Items(mQueue),
  eos <- mEOS

ContractSpec == Contract!Spec

\* The end of the stream releases everybody who waits: whoever still does is
\* about to be reached by a broadcast.
EndOfStreamReleases ==
  mEOS =>
    /\ cvFull # {} => \E t \in Threads : pc[t] = "cast_full" /\ call[t].op = "setEOS"
    /\ cvEmpty # {} => EmptyBroadcastDue

-------------------------------------------------------------------------------
(* The inductive invariant behind the theorems of SyncQueueProofs *)

\* The operations that can be at each program counter.
LabelInv ==
  \A t \in Threads :
    /\ pc[t] \in {"wait", "relock"} => call[t].op \in Blocking
    /\ pc[t] = "cast_full" => call[t].op \in {"flush", "setEOS"}
    /\ pc[t] = "cast_empty" => call[t].op = "setEOS"

IInv ==
  /\ TypeOK
  /\ LabelInv
  /\ EndOfStreamReleases
  /\ NoConsumerForgotten
  /\ NoProducerForgotten
===============================================================================
