---------------------------- MODULE SyncQueueProofs ----------------------------
(***************************************************************************)
(* SyncQueue for every capacity, set of elements and finite set of         *)
(* threads: IInv is inductive, and the queue implements BoundedFifo.       *)
(***************************************************************************)
EXTENDS SyncQueue, CircularQueueProofs, FiniteSetTheorems

\* The steps of one thread.
Invoking(t) ==
  \E o \in AllOps, timeout \in Timeouts, x \in T, eos \in BOOLEAN :
    Invoke(t, o, timeout, x, eos)

Move(t) == Step(t) \/ SpuriousWakeup(t) \/ TimesOut(t) \/ Invoking(t)

\* Next, one thread at a time.
LEMMA NextIsMove == Next <=> \E t \in Threads : Move(t)
  BY DEF Next, Move, Invoking

\* Any is an element.
LEMMA AnyTyped == Any \in T
  BY ElementsAssumption DEF Any

\* There is room for at least one element.
LEMMA FullIsNotEmpty ==
  ASSUME isFull(mQueue), WellFormed(mQueue)
  PROVE  ~isEmpty(mQueue)
  BY CapacityAssumption DEF isFull, isEmpty, WellFormed, Queues

\* How the number of awake threads follows from who stays awake.
LEMMA CountAwake ==
  ASSUME NEW A \in SUBSET Threads, NEW B \in SUBSET Threads
  PROVE  /\ Cardinality(A) \in Nat /\ Cardinality(B) \in Nat
         /\ A \subseteq B => Cardinality(A) <= Cardinality(B)
         /\ \A u \in Threads \ A :
              A \cup {u} \subseteq B => Cardinality(A) + 1 <= Cardinality(B)
         /\ \A t \in Threads :
              A \ {t} \subseteq B => Cardinality(A) <= Cardinality(B) + 1
  <1>1. IsFiniteSet(A) /\ IsFiniteSet(B)
    BY ThreadsAssumption, FS_Subset
  <1>2. Cardinality(A) \in Nat /\ Cardinality(B) \in Nat
    BY <1>1, FS_CardinalityType
  <1>3. A \subseteq B => Cardinality(A) <= Cardinality(B)
    BY <1>1, FS_Subset
  <1>4. ASSUME NEW u \in Threads \ A, A \cup {u} \subseteq B
        PROVE  Cardinality(A) + 1 <= Cardinality(B)
    <2>1. Cardinality(A \cup {u}) = Cardinality(A) + 1
      BY <1>1, FS_AddElement
    <2> QED BY <1>1, <1>4, <2>1, FS_Subset
  <1>5. ASSUME NEW t \in Threads, A \ {t} \subseteq B
        PROVE  Cardinality(A) <= Cardinality(B) + 1
    <2>1. Cardinality(A \ {t}) = IF t \in A THEN Cardinality(A) - 1 ELSE Cardinality(A)
      BY <1>1, FS_RemoveElement
    <2>2. Cardinality(A \ {t}) <= Cardinality(B)
      BY <1>1, <1>5, FS_Subset
    <2> QED BY <1>2, <2>1, <2>2
  <1> QED BY <1>2, <1>3, <1>4, <1>5

\* The control state keeps its type.
LEMMA ControlTyped ==
  ASSUME TypeOK, LabelInv,
         NEW t \in Threads, Move(t)
  PROVE  /\ mEOS' \in BOOLEAN
         /\ pc' \in [Threads -> {"idle", "lock", "relock", "wait", "cast_full",
                                 "cast_empty"}]
         /\ call' \in [Threads -> [op : AllOps, timeout : Timeouts, elem : T,
                                   eos : BOOLEAN]]
  <1>1. NoCall \in [op : AllOps, timeout : Timeouts, elem : T, eos : BOOLEAN]
    BY AnyTyped DEF NoCall, AllOps, Timeouts, Blocking
  <1>10. CASE PutBlocks(t)
    BY <1>1, <1>10
    DEF PutBlocks, Entering, WaitOn, Return, Goto, NoCall, TypeOK,
       Blocking
  <1>11. CASE PutRefused(t)
    BY <1>1, <1>11
    DEF PutRefused, Entering, Return, Goto, NoCall, cvs, TypeOK,
       Blocking
  <1>12. CASE Put(t)
    BY <1>1, <1>12
    DEF Put, Entering, SignalAndReturn, Goto, NoCall, TypeOK, Blocking
  <1>13. CASE PutForceRefused(t)
    BY <1>1, <1>13
    DEF PutForceRefused, Entering, Return, Goto, NoCall, cvs, TypeOK,
       Blocking
  <1>14. CASE PutForce(t)
    BY <1>1, <1>14
    DEF PutForce, Entering, SignalAndReturn, Goto, NoCall, TypeOK,
       Blocking
  <1>15. CASE GetBlocks(t)
    BY <1>1, <1>15
    DEF GetBlocks, Entering, WaitOn, Return, Goto, NoCall, TypeOK,
       Blocking
  <1>16. CASE GetRefused(t)
    BY <1>1, <1>16
    DEF GetRefused, Entering, Return, Goto, NoCall, cvs, TypeOK,
       Blocking
  <1>17. CASE Get(t)
    BY <1>1, <1>17
    DEF Get, Entering, SignalAndReturn, Goto, NoCall, TypeOK, Blocking
  <1>18. CASE FlushOne(t)
    BY <1>1, <1>18
    DEF FlushOne, Entering, cvs, TypeOK, Blocking
  <1>19. CASE FlushDone(t)
    BY <1>1, <1>19
    DEF FlushDone, Entering, Goto, cvs, TypeOK, Blocking
  <1>20. CASE SetEOS(t)
    BY <1>1, <1>20
    DEF SetEOS, Entering, Goto, cvs, TypeOK, Blocking
  <1>21. CASE BroadcastFull(t)
    BY <1>1, <1>21
    DEF BroadcastFull, Broadcast, NoCall, TypeOK, Blocking
  <1>22. CASE BroadcastEmpty(t)
    BY <1>1, <1>22
    DEF BroadcastEmpty, Broadcast, NoCall, TypeOK, Blocking
  <1>23. CASE SpuriousWakeup(t)
    BY <1>1, <1>23
    DEF SpuriousWakeup, LeaveCv, Goto, TypeOK, Blocking
  <1>24. CASE TimesOut(t)
    BY <1>1, <1>24
    DEF TimesOut, LeaveCv, Return, Goto, NoCall, TypeOK, Blocking
  <1>25. CASE Invoking(t)
    BY <1>1, <1>25
    DEF Invoking, Invoke, Goto, cvs, TypeOK, Blocking, AllOps
  <1> QED
    BY <1>10, <1>11, <1>12, <1>13, <1>14, <1>15, <1>16, <1>17,
       <1>18, <1>19, <1>20, <1>21, <1>22, <1>23, <1>24, <1>25
    DEF Move, Step

\* The ring buffer stays well formed, and what leaves it is an element.
LEMMA QueueTyped ==
  ASSUME TypeOK,
         NEW t \in Threads, Move(t)
  PROVE  WellFormed(mQueue)' /\ taken' \in T
  <1>1. ~isEmpty(mQueue) => front(mQueue) \in T
    BY CapacityAssumption DEF TypeOK, WellFormed, Queues, Slots, front
  <1>10. CASE PutBlocks(t)
    BY <1>10 DEF PutBlocks, TypeOK
  <1>11. CASE PutRefused(t)
    BY <1>11 DEF PutRefused, TypeOK
  <1>12. CASE Put(t)
    <2>1. call[t].elem \in T
      BY DEF TypeOK
    <2> QED BY <1>12, <2>1, PutAppends DEF Put, TypeOK
  <1>13. CASE PutForceRefused(t)
    BY <1>13 DEF PutForceRefused, TypeOK
  <1>14. CASE PutForce(t)
    <2>1. call[t].elem \in T
      BY DEF TypeOK
    <2>2. CASE isFull(mQueue)
      <3>1. WellFormed(get(mQueue)) /\ front(mQueue) \in T
        BY <1>1, <2>2, FullIsNotEmpty, GetTakes DEF TypeOK
      <3>2. ~isFull(get(mQueue))
        BY <1>1, CapacityAssumption DEF TypeOK, WellFormed, Queues, isFull, get
      <3> QED BY <1>14, <2>1, <2>2, <3>1, <3>2, PutAppends DEF PutForce
    <2>3. CASE ~isFull(mQueue)
      BY <1>14, <2>1, <2>3, PutAppends DEF PutForce, TypeOK
    <2> QED BY <2>2, <2>3
  <1>15. CASE GetBlocks(t)
    BY <1>15 DEF GetBlocks, TypeOK
  <1>16. CASE GetRefused(t)
    BY <1>16 DEF GetRefused, TypeOK
  <1>17. CASE Get(t)
    BY <1>1, <1>17, GetTakes DEF Get, TypeOK
  <1>18. CASE FlushOne(t)
    BY <1>1, <1>18, GetTakes DEF FlushOne, TypeOK
  <1>19. CASE FlushDone(t)
    BY <1>19 DEF FlushDone, TypeOK
  <1>20. CASE SetEOS(t)
    BY <1>20 DEF SetEOS, TypeOK
  <1>21. CASE BroadcastFull(t)
    BY <1>21 DEF BroadcastFull, TypeOK
  <1>22. CASE BroadcastEmpty(t)
    BY <1>22 DEF BroadcastEmpty, TypeOK
  <1>23. CASE SpuriousWakeup(t)
    BY <1>23 DEF SpuriousWakeup, TypeOK
  <1>24. CASE TimesOut(t)
    BY <1>24 DEF TimesOut, TypeOK
  <1>25. CASE Invoking(t)
    BY <1>25 DEF Invoking, TypeOK, Invoke
  <1> QED
    BY <1>10, <1>11, <1>12, <1>13, <1>14, <1>15, <1>16, <1>17,
       <1>18, <1>19, <1>20, <1>21, <1>22, <1>23, <1>24, <1>25
    DEF Move, Step

\* The wait sets hold the threads that wait.
LEMMA WaitSets ==
  ASSUME TypeOK, LabelInv,
         NEW t \in Threads, Move(t)
  PROVE  cvFull' = Waiting("put")' /\ cvEmpty' = Waiting("get")'
  <1>10. CASE PutBlocks(t)
    BY <1>10
    DEF PutBlocks, Entering, WaitOn, Return, Goto, NoCall, TypeOK,
       LabelInv, Waiting, Blocking
  <1>11. CASE PutRefused(t)
    BY <1>11
    DEF PutRefused, Entering, Return, Goto, NoCall, cvs, TypeOK,
       LabelInv, Waiting, Blocking
  <1>12. CASE Put(t)
    BY <1>12
    DEF Put, Entering, SignalAndReturn, Goto, NoCall, TypeOK, LabelInv,
       Waiting, Blocking
  <1>13. CASE PutForceRefused(t)
    BY <1>13
    DEF PutForceRefused, Entering, Return, Goto, NoCall, cvs, TypeOK,
       LabelInv, Waiting, Blocking
  <1>14. CASE PutForce(t)
    BY <1>14
    DEF PutForce, Entering, SignalAndReturn, Goto, NoCall, TypeOK,
       LabelInv, Waiting, Blocking
  <1>15. CASE GetBlocks(t)
    BY <1>15
    DEF GetBlocks, Entering, WaitOn, Return, Goto, NoCall, TypeOK,
       LabelInv, Waiting, Blocking
  <1>16. CASE GetRefused(t)
    BY <1>16
    DEF GetRefused, Entering, Return, Goto, NoCall, cvs, TypeOK,
       LabelInv, Waiting, Blocking
  <1>17. CASE Get(t)
    BY <1>17
    DEF Get, Entering, SignalAndReturn, Goto, NoCall, TypeOK, LabelInv,
       Waiting, Blocking
  <1>18. CASE FlushOne(t)
    BY <1>18
    DEF FlushOne, Entering, cvs, TypeOK, LabelInv, Waiting, Blocking
  <1>19. CASE FlushDone(t)
    BY <1>19
    DEF FlushDone, Entering, Goto, cvs, TypeOK, LabelInv, Waiting,
       Blocking
  <1>20. CASE SetEOS(t)
    BY <1>20
    DEF SetEOS, Entering, Goto, cvs, TypeOK, LabelInv, Waiting, Blocking
  <1>21. CASE BroadcastFull(t)
    BY <1>21
    DEF BroadcastFull, Broadcast, NoCall, TypeOK, LabelInv, Waiting,
       Blocking
  <1>22. CASE BroadcastEmpty(t)
    BY <1>22
    DEF BroadcastEmpty, Broadcast, NoCall, TypeOK, LabelInv, Waiting,
       Blocking
  <1>23. CASE SpuriousWakeup(t)
    BY <1>23
    DEF SpuriousWakeup, LeaveCv, Goto, TypeOK, LabelInv, Waiting,
       Blocking
  <1>24. CASE TimesOut(t)
    BY <1>24
    DEF TimesOut, LeaveCv, Return, Goto, NoCall, TypeOK, LabelInv,
       Waiting, Blocking
  <1>25. CASE Invoking(t)
    BY <1>25
    DEF Invoking, Invoke, Goto, cvs, TypeOK, LabelInv, Waiting, Blocking
  <1> QED
    BY <1>10, <1>11, <1>12, <1>13, <1>14, <1>15, <1>16, <1>17,
       <1>18, <1>19, <1>20, <1>21, <1>22, <1>23, <1>24, <1>25
    DEF Move, Step

\* LabelInv is preserved.
LEMMA Labels ==
  ASSUME TypeOK, LabelInv,
         NEW t \in Threads, Move(t)
  PROVE  LabelInv'
  <1>10. CASE PutBlocks(t)
    BY <1>10
    DEF PutBlocks, Entering, WaitOn, Return, Goto, NoCall, TypeOK,
       LabelInv, Waiting, Blocking
  <1>11. CASE PutRefused(t)
    BY <1>11
    DEF PutRefused, Entering, Return, Goto, NoCall, cvs, TypeOK,
       LabelInv, Waiting, Blocking
  <1>12. CASE Put(t)
    BY <1>12
    DEF Put, Entering, SignalAndReturn, Goto, NoCall, TypeOK, LabelInv,
       Waiting, Blocking
  <1>13. CASE PutForceRefused(t)
    BY <1>13
    DEF PutForceRefused, Entering, Return, Goto, NoCall, cvs, TypeOK,
       LabelInv, Waiting, Blocking
  <1>14. CASE PutForce(t)
    BY <1>14
    DEF PutForce, Entering, SignalAndReturn, Goto, NoCall, TypeOK,
       LabelInv, Waiting, Blocking
  <1>15. CASE GetBlocks(t)
    BY <1>15
    DEF GetBlocks, Entering, WaitOn, Return, Goto, NoCall, TypeOK,
       LabelInv, Waiting, Blocking
  <1>16. CASE GetRefused(t)
    BY <1>16
    DEF GetRefused, Entering, Return, Goto, NoCall, cvs, TypeOK,
       LabelInv, Waiting, Blocking
  <1>17. CASE Get(t)
    BY <1>17
    DEF Get, Entering, SignalAndReturn, Goto, NoCall, TypeOK, LabelInv,
       Waiting, Blocking
  <1>18. CASE FlushOne(t)
    BY <1>18
    DEF FlushOne, Entering, cvs, TypeOK, LabelInv, Waiting, Blocking
  <1>19. CASE FlushDone(t)
    BY <1>19
    DEF FlushDone, Entering, Goto, cvs, TypeOK, LabelInv, Waiting,
       Blocking
  <1>20. CASE SetEOS(t)
    BY <1>20
    DEF SetEOS, Entering, Goto, cvs, TypeOK, LabelInv, Waiting, Blocking
  <1>21. CASE BroadcastFull(t)
    BY <1>21
    DEF BroadcastFull, Broadcast, NoCall, TypeOK, LabelInv, Waiting,
       Blocking
  <1>22. CASE BroadcastEmpty(t)
    BY <1>22
    DEF BroadcastEmpty, Broadcast, NoCall, TypeOK, LabelInv, Waiting,
       Blocking
  <1>23. CASE SpuriousWakeup(t)
    BY <1>23
    DEF SpuriousWakeup, LeaveCv, Goto, TypeOK, LabelInv, Waiting,
       Blocking
  <1>24. CASE TimesOut(t)
    BY <1>24
    DEF TimesOut, LeaveCv, Return, Goto, NoCall, TypeOK, LabelInv,
       Waiting, Blocking
  <1>25. CASE Invoking(t)
    BY <1>25
    DEF Invoking, Invoke, Goto, cvs, TypeOK, LabelInv, Waiting, Blocking
  <1> QED
    BY <1>10, <1>11, <1>12, <1>13, <1>14, <1>15, <1>16, <1>17,
       <1>18, <1>19, <1>20, <1>21, <1>22, <1>23, <1>24, <1>25
    DEF Move, Step

\* EndOfStreamReleases is preserved.
LEMMA Releases ==
  ASSUME TypeOK, LabelInv, EndOfStreamReleases,
         NEW t \in Threads, Move(t)
  PROVE  EndOfStreamReleases'
  <1>10. CASE PutBlocks(t)
    BY <1>10
    DEF PutBlocks, Entering, WaitOn, Return, Goto, NoCall, TypeOK,
       LabelInv, Waiting, Blocking, EndOfStreamReleases, EmptyBroadcastDue
  <1>11. CASE PutRefused(t)
    BY <1>11
    DEF PutRefused, Entering, Return, Goto, NoCall, cvs, TypeOK,
       LabelInv, Waiting, Blocking, EndOfStreamReleases, EmptyBroadcastDue
  <1>12. CASE Put(t)
    BY <1>12
    DEF Put, Entering, SignalAndReturn, Goto, NoCall, TypeOK, LabelInv,
       Waiting, Blocking, EndOfStreamReleases, EmptyBroadcastDue
  <1>13. CASE PutForceRefused(t)
    BY <1>13
    DEF PutForceRefused, Entering, Return, Goto, NoCall, cvs, TypeOK,
       LabelInv, Waiting, Blocking, EndOfStreamReleases, EmptyBroadcastDue
  <1>14. CASE PutForce(t)
    BY <1>14
    DEF PutForce, Entering, SignalAndReturn, Goto, NoCall, TypeOK,
       LabelInv, Waiting, Blocking, EndOfStreamReleases, EmptyBroadcastDue
  <1>15. CASE GetBlocks(t)
    BY <1>15
    DEF GetBlocks, Entering, WaitOn, Return, Goto, NoCall, TypeOK,
       LabelInv, Waiting, Blocking, EndOfStreamReleases, EmptyBroadcastDue
  <1>16. CASE GetRefused(t)
    BY <1>16
    DEF GetRefused, Entering, Return, Goto, NoCall, cvs, TypeOK,
       LabelInv, Waiting, Blocking, EndOfStreamReleases, EmptyBroadcastDue
  <1>17. CASE Get(t)
    BY <1>17
    DEF Get, Entering, SignalAndReturn, Goto, NoCall, TypeOK, LabelInv,
       Waiting, Blocking, EndOfStreamReleases, EmptyBroadcastDue
  <1>18. CASE FlushOne(t)
    BY <1>18
    DEF FlushOne, Entering, cvs, TypeOK, LabelInv, Waiting, Blocking,
       EndOfStreamReleases, EmptyBroadcastDue
  <1>19. CASE FlushDone(t)
    BY <1>19
    DEF FlushDone, Entering, Goto, cvs, TypeOK, LabelInv, Waiting,
       Blocking, EndOfStreamReleases, EmptyBroadcastDue
  <1>20. CASE SetEOS(t)
    BY <1>20
    DEF SetEOS, Entering, Goto, cvs, TypeOK, LabelInv, Waiting,
       Blocking, EndOfStreamReleases, EmptyBroadcastDue
  <1>21. CASE BroadcastFull(t)
    BY <1>21
    DEF BroadcastFull, Broadcast, NoCall, TypeOK, LabelInv, Waiting,
       Blocking, EndOfStreamReleases, EmptyBroadcastDue
  <1>22. CASE BroadcastEmpty(t)
    BY <1>22
    DEF BroadcastEmpty, Broadcast, NoCall, TypeOK, LabelInv, Waiting,
       Blocking, EndOfStreamReleases, EmptyBroadcastDue
  <1>23. CASE SpuriousWakeup(t)
    BY <1>23
    DEF SpuriousWakeup, LeaveCv, Goto, TypeOK, LabelInv, Waiting,
       Blocking, EndOfStreamReleases, EmptyBroadcastDue
  <1>24. CASE TimesOut(t)
    BY <1>24
    DEF TimesOut, LeaveCv, Return, Goto, NoCall, TypeOK, LabelInv,
       Waiting, Blocking, EndOfStreamReleases, EmptyBroadcastDue
  <1>25. CASE Invoking(t)
    BY <1>25
    DEF Invoking, Invoke, Goto, cvs, TypeOK, LabelInv, Waiting,
       Blocking, EndOfStreamReleases, EmptyBroadcastDue
  <1> QED
    BY <1>10, <1>11, <1>12, <1>13, <1>14, <1>15, <1>16, <1>17,
       <1>18, <1>19, <1>20, <1>21, <1>22, <1>23, <1>24, <1>25
    DEF Move, Step

\* NoConsumerForgotten is preserved: an element more comes with a consumer
\* woken, and a consumer that no longer is awake took an element.
LEMMA Consumers ==
  ASSUME TypeOK, TypeOK', LabelInv, NoConsumerForgotten,
         NEW t \in Threads, Move(t)
  PROVE  NoConsumerForgotten'
  <1>1. mQueue.mSize \in Nat /\ mQueue'.mSize \in Nat
    BY CapacityAssumption DEF TypeOK, WellFormed, Queues
  <1>2. /\ Awake("get") \in SUBSET Threads /\ Cardinality(Awake("get")) \in Nat
        /\ Awake("get")' \in SUBSET Threads /\ Cardinality(Awake("get")') \in Nat
    BY CountAwake DEF Awake
  <1>10. CASE PutBlocks(t)
    <2>1. Awake("get") \subseteq Awake("get")'
      BY <1>10
      DEF PutBlocks, Entering, WaitOn, Return, Goto, NoCall, TypeOK,
         LabelInv, Awake, Waiting, Blocking
    <2>2. mQueue'.mSize <= mQueue.mSize
      BY <1>1, <1>10 DEF PutBlocks
    <2>3. /\ mEOS' = mEOS
          /\ cvEmpty' # {} => cvEmpty # {}
          /\ EmptyBroadcastDue => EmptyBroadcastDue'
      BY <1>10
      DEF PutBlocks, Entering, WaitOn, Return, Goto, NoCall, TypeOK,
         LabelInv, Waiting, Blocking, EmptyBroadcastDue
    <2>4. Cardinality(Awake("get")) <= Cardinality(Awake("get")')
      BY <1>2, <2>1, CountAwake
    <2> QED BY <1>1, <1>2, <2>2, <2>3, <2>4 DEF NoConsumerForgotten
  <1>11. CASE PutRefused(t)
    <2>1. Awake("get") \subseteq Awake("get")'
      BY <1>11
      DEF PutRefused, Entering, Return, Goto, NoCall, cvs, TypeOK,
         LabelInv, Awake, Waiting, Blocking
    <2>2. mQueue'.mSize <= mQueue.mSize
      BY <1>1, <1>11 DEF PutRefused
    <2>3. /\ mEOS' = mEOS
          /\ cvEmpty' # {} => cvEmpty # {}
          /\ EmptyBroadcastDue => EmptyBroadcastDue'
      BY <1>11
      DEF PutRefused, Entering, Return, Goto, NoCall, cvs, TypeOK,
         LabelInv, Waiting, Blocking, EmptyBroadcastDue
    <2>4. Cardinality(Awake("get")) <= Cardinality(Awake("get")')
      BY <1>2, <2>1, CountAwake
    <2> QED BY <1>1, <1>2, <2>2, <2>3, <2>4 DEF NoConsumerForgotten
  <1>12. CASE Put(t)
    <2>1. cvEmpty' # {} => \E u \in Threads \ Awake("get") : Awake("get") \cup {u} \subseteq Awake("get")'
      BY <1>12
      DEF Put, Entering, SignalAndReturn, Goto, NoCall, TypeOK,
         LabelInv, Awake, Waiting, Blocking
    <2>2. mQueue'.mSize <= mQueue.mSize + 1
      BY <1>1, <1>12 DEF Put, put, get
    <2>3. /\ mEOS' = mEOS
          /\ cvEmpty' # {} => cvEmpty # {}
          /\ EmptyBroadcastDue => EmptyBroadcastDue'
      BY <1>12
      DEF Put, Entering, SignalAndReturn, Goto, NoCall, TypeOK,
         LabelInv, Waiting, Blocking, EmptyBroadcastDue
    <2>4. cvEmpty' # {} => Cardinality(Awake("get")) + 1 <= Cardinality(Awake("get")')
      BY <1>2, <2>1, CountAwake
    <2> QED BY <1>1, <1>2, <2>2, <2>3, <2>4 DEF NoConsumerForgotten
  <1>13. CASE PutForceRefused(t)
    <2>1. Awake("get") \subseteq Awake("get")'
      BY <1>13
      DEF PutForceRefused, Entering, Return, Goto, NoCall, cvs, TypeOK,
         LabelInv, Awake, Waiting, Blocking
    <2>2. mQueue'.mSize <= mQueue.mSize
      BY <1>1, <1>13 DEF PutForceRefused
    <2>3. /\ mEOS' = mEOS
          /\ cvEmpty' # {} => cvEmpty # {}
          /\ EmptyBroadcastDue => EmptyBroadcastDue'
      BY <1>13
      DEF PutForceRefused, Entering, Return, Goto, NoCall, cvs, TypeOK,
         LabelInv, Waiting, Blocking, EmptyBroadcastDue
    <2>4. Cardinality(Awake("get")) <= Cardinality(Awake("get")')
      BY <1>2, <2>1, CountAwake
    <2> QED BY <1>1, <1>2, <2>2, <2>3, <2>4 DEF NoConsumerForgotten
  <1>14. CASE PutForce(t)
    <2>1. cvEmpty' # {} => \E u \in Threads \ Awake("get") : Awake("get") \cup {u} \subseteq Awake("get")'
      BY <1>14
      DEF PutForce, Entering, SignalAndReturn, Goto, NoCall, TypeOK,
         LabelInv, Awake, Waiting, Blocking
    <2>2. mQueue'.mSize <= mQueue.mSize + 1
      BY <1>1, <1>14 DEF PutForce, put, get
    <2>3. /\ mEOS' = mEOS
          /\ cvEmpty' # {} => cvEmpty # {}
          /\ EmptyBroadcastDue => EmptyBroadcastDue'
      BY <1>14
      DEF PutForce, Entering, SignalAndReturn, Goto, NoCall, TypeOK,
         LabelInv, Waiting, Blocking, EmptyBroadcastDue
    <2>4. cvEmpty' # {} => Cardinality(Awake("get")) + 1 <= Cardinality(Awake("get")')
      BY <1>2, <2>1, CountAwake
    <2> QED BY <1>1, <1>2, <2>2, <2>3, <2>4 DEF NoConsumerForgotten
  <1>15. CASE GetBlocks(t)
    <2>1. mQueue'.mSize = 0
      BY <1>1, <1>15 DEF GetBlocks, isEmpty
    <2> QED BY <1>2, <2>1 DEF NoConsumerForgotten
  <1>16. CASE GetRefused(t)
    BY <1>16 DEF GetRefused, NoConsumerForgotten
  <1>17. CASE Get(t)
    <2>1. Awake("get") \ {t} \subseteq Awake("get")'
      BY <1>17
      DEF Get, Entering, SignalAndReturn, Goto, NoCall, TypeOK,
         LabelInv, Awake, Waiting, Blocking
    <2>2. mQueue'.mSize + 1 <= mQueue.mSize
      BY <1>1, <1>17 DEF Get, put, get
    <2>3. /\ mEOS' = mEOS
          /\ cvEmpty' # {} => cvEmpty # {}
          /\ EmptyBroadcastDue => EmptyBroadcastDue'
      BY <1>17
      DEF Get, Entering, SignalAndReturn, Goto, NoCall, TypeOK,
         LabelInv, Waiting, Blocking, EmptyBroadcastDue
    <2>4. Cardinality(Awake("get")) <= Cardinality(Awake("get")') + 1
      BY <1>2, <2>1, CountAwake
    <2> QED BY <1>1, <1>2, <2>2, <2>3, <2>4 DEF NoConsumerForgotten
  <1>18. CASE FlushOne(t)
    <2>1. Awake("get") \subseteq Awake("get")'
      BY <1>18
      DEF FlushOne, Entering, cvs, TypeOK, LabelInv, Awake, Waiting,
         Blocking
    <2>2. mQueue'.mSize <= mQueue.mSize
      BY <1>1, <1>18 DEF FlushOne, put, get
    <2>3. /\ mEOS' = mEOS
          /\ cvEmpty' # {} => cvEmpty # {}
          /\ EmptyBroadcastDue => EmptyBroadcastDue'
      BY <1>18
      DEF FlushOne, Entering, cvs, TypeOK, LabelInv, Waiting, Blocking,
         EmptyBroadcastDue
    <2>4. Cardinality(Awake("get")) <= Cardinality(Awake("get")')
      BY <1>2, <2>1, CountAwake
    <2> QED BY <1>1, <1>2, <2>2, <2>3, <2>4 DEF NoConsumerForgotten
  <1>19. CASE FlushDone(t)
    <2>1. Awake("get") \subseteq Awake("get")'
      BY <1>19
      DEF FlushDone, Entering, Goto, cvs, TypeOK, LabelInv, Awake,
         Waiting, Blocking
    <2>2. mQueue'.mSize <= mQueue.mSize
      BY <1>1, <1>19 DEF FlushDone
    <2>3. /\ mEOS' = mEOS
          /\ cvEmpty' # {} => cvEmpty # {}
          /\ EmptyBroadcastDue => EmptyBroadcastDue'
      BY <1>19
      DEF FlushDone, Entering, Goto, cvs, TypeOK, LabelInv, Waiting,
         Blocking, EmptyBroadcastDue
    <2>4. Cardinality(Awake("get")) <= Cardinality(Awake("get")')
      BY <1>2, <2>1, CountAwake
    <2> QED BY <1>1, <1>2, <2>2, <2>3, <2>4 DEF NoConsumerForgotten
  <1>20. CASE SetEOS(t)
    BY <1>20
    DEF SetEOS, Entering, Goto, cvs, NoConsumerForgotten,
       EmptyBroadcastDue, TypeOK
  <1>21. CASE BroadcastFull(t)
    <2>1. Awake("get") \subseteq Awake("get")'
      BY <1>21
      DEF BroadcastFull, Broadcast, NoCall, TypeOK, LabelInv, Awake,
         Waiting, Blocking
    <2>2. mQueue'.mSize <= mQueue.mSize
      BY <1>1, <1>21 DEF BroadcastFull
    <2>3. /\ mEOS' = mEOS
          /\ cvEmpty' # {} => cvEmpty # {}
          /\ EmptyBroadcastDue => EmptyBroadcastDue'
      BY <1>21
      DEF BroadcastFull, Broadcast, NoCall, TypeOK, LabelInv, Waiting,
         Blocking, EmptyBroadcastDue
    <2>4. Cardinality(Awake("get")) <= Cardinality(Awake("get")')
      BY <1>2, <2>1, CountAwake
    <2> QED BY <1>1, <1>2, <2>2, <2>3, <2>4 DEF NoConsumerForgotten
  <1>22. CASE BroadcastEmpty(t)
    BY <1>22 DEF BroadcastEmpty, Broadcast, NoConsumerForgotten
  <1>23. CASE SpuriousWakeup(t)
    <2>1. Awake("get") \subseteq Awake("get")'
      BY <1>23
      DEF SpuriousWakeup, LeaveCv, Goto, TypeOK, LabelInv, Awake,
         Waiting, Blocking
    <2>2. mQueue'.mSize <= mQueue.mSize
      BY <1>1, <1>23 DEF SpuriousWakeup
    <2>3. /\ mEOS' = mEOS
          /\ cvEmpty' # {} => cvEmpty # {}
          /\ EmptyBroadcastDue => EmptyBroadcastDue'
      BY <1>23
      DEF SpuriousWakeup, LeaveCv, Goto, TypeOK, LabelInv, Waiting,
         Blocking, EmptyBroadcastDue
    <2>4. Cardinality(Awake("get")) <= Cardinality(Awake("get")')
      BY <1>2, <2>1, CountAwake
    <2> QED BY <1>1, <1>2, <2>2, <2>3, <2>4 DEF NoConsumerForgotten
  <1>24. CASE TimesOut(t)
    <2>1. Awake("get") \subseteq Awake("get")'
      BY <1>24
      DEF TimesOut, LeaveCv, Return, Goto, NoCall, TypeOK, LabelInv,
         Awake, Waiting, Blocking
    <2>2. mQueue'.mSize <= mQueue.mSize
      BY <1>1, <1>24 DEF TimesOut
    <2>3. /\ mEOS' = mEOS
          /\ cvEmpty' # {} => cvEmpty # {}
          /\ EmptyBroadcastDue => EmptyBroadcastDue'
      BY <1>24
      DEF TimesOut, LeaveCv, Return, Goto, NoCall, TypeOK, LabelInv,
         Waiting, Blocking, EmptyBroadcastDue
    <2>4. Cardinality(Awake("get")) <= Cardinality(Awake("get")')
      BY <1>2, <2>1, CountAwake
    <2> QED BY <1>1, <1>2, <2>2, <2>3, <2>4 DEF NoConsumerForgotten
  <1>25. CASE Invoking(t)
    <2>1. Awake("get") \subseteq Awake("get")'
      BY <1>25
      DEF Invoking, Invoke, Goto, cvs, TypeOK, LabelInv, Awake, Waiting,
         Blocking
    <2>2. mQueue'.mSize <= mQueue.mSize
      BY <1>1, <1>25 DEF Invoking, Invoke
    <2>3. /\ mEOS' = mEOS
          /\ cvEmpty' # {} => cvEmpty # {}
          /\ EmptyBroadcastDue => EmptyBroadcastDue'
      BY <1>25
      DEF Invoking, Invoke, Goto, cvs, TypeOK, LabelInv, Waiting,
         Blocking, EmptyBroadcastDue
    <2>4. Cardinality(Awake("get")) <= Cardinality(Awake("get")')
      BY <1>2, <2>1, CountAwake
    <2> QED BY <1>1, <1>2, <2>2, <2>3, <2>4 DEF NoConsumerForgotten
  <1> QED
    BY <1>10, <1>11, <1>12, <1>13, <1>14, <1>15, <1>16, <1>17,
       <1>18, <1>19, <1>20, <1>21, <1>22, <1>23, <1>24, <1>25
    DEF Move, Step

\* NoProducerForgotten is preserved, likewise.
LEMMA Producers ==
  ASSUME TypeOK, TypeOK', LabelInv, NoProducerForgotten,
         NEW t \in Threads, Move(t)
  PROVE  NoProducerForgotten'
  <1>1. /\ mQueue.mSize \in Nat /\ mQueue'.mSize \in Nat /\ capacity \in Nat
        /\ mQueue.mSize <= capacity
    BY CapacityAssumption DEF TypeOK, WellFormed, Queues
  <1>2. /\ Awake("put") \in SUBSET Threads /\ Cardinality(Awake("put")) \in Nat
        /\ Awake("put")' \in SUBSET Threads /\ Cardinality(Awake("put")') \in Nat
    BY CountAwake DEF Awake
  <1>10. CASE PutBlocks(t)
    <2>1. capacity - mQueue'.mSize = 0
      BY <1>1, <1>10 DEF PutBlocks, isFull
    <2> QED BY <1>2, <2>1 DEF NoProducerForgotten
  <1>11. CASE PutRefused(t)
    BY <1>11 DEF PutRefused, NoProducerForgotten
  <1>12. CASE Put(t)
    <2>1. Awake("put") \ {t} \subseteq Awake("put")'
      BY <1>12
      DEF Put, Entering, SignalAndReturn, Goto, NoCall, TypeOK,
         LabelInv, Awake, Waiting, Blocking
    <2>2. capacity - mQueue'.mSize + 1 <= capacity - mQueue.mSize
      BY <1>1, <1>12 DEF Put, put, get
    <2>3. /\ mEOS' = mEOS
          /\ cvFull' # {} => cvFull # {}
          /\ FullBroadcastDue => FullBroadcastDue'
      BY <1>12
      DEF Put, Entering, SignalAndReturn, Goto, NoCall, TypeOK,
         LabelInv, Waiting, Blocking, FullBroadcastDue
    <2>4. Cardinality(Awake("put")) <= Cardinality(Awake("put")') + 1
      BY <1>2, <2>1, CountAwake
    <2> QED BY <1>1, <1>2, <2>2, <2>3, <2>4 DEF NoProducerForgotten
  <1>13. CASE PutForceRefused(t)
    <2>1. Awake("put") \subseteq Awake("put")'
      BY <1>13
      DEF PutForceRefused, Entering, Return, Goto, NoCall, cvs, TypeOK,
         LabelInv, Awake, Waiting, Blocking
    <2>2. capacity - mQueue'.mSize <= capacity - mQueue.mSize
      BY <1>1, <1>13 DEF PutForceRefused
    <2>3. /\ mEOS' = mEOS
          /\ cvFull' # {} => cvFull # {}
          /\ FullBroadcastDue => FullBroadcastDue'
      BY <1>13
      DEF PutForceRefused, Entering, Return, Goto, NoCall, cvs, TypeOK,
         LabelInv, Waiting, Blocking, FullBroadcastDue
    <2>4. Cardinality(Awake("put")) <= Cardinality(Awake("put")')
      BY <1>2, <2>1, CountAwake
    <2> QED BY <1>1, <1>2, <2>2, <2>3, <2>4 DEF NoProducerForgotten
  <1>14. CASE PutForce(t)
    <2>1. Awake("put") \subseteq Awake("put")'
      BY <1>14
      DEF PutForce, Entering, SignalAndReturn, Goto, NoCall, TypeOK,
         LabelInv, Awake, Waiting, Blocking
    <2>2. capacity - mQueue'.mSize <= capacity - mQueue.mSize
      BY <1>1, <1>14 DEF PutForce, put, get
    <2>3. /\ mEOS' = mEOS
          /\ cvFull' # {} => cvFull # {}
          /\ FullBroadcastDue => FullBroadcastDue'
      BY <1>14
      DEF PutForce, Entering, SignalAndReturn, Goto, NoCall, TypeOK,
         LabelInv, Waiting, Blocking, FullBroadcastDue
    <2>4. Cardinality(Awake("put")) <= Cardinality(Awake("put")')
      BY <1>2, <2>1, CountAwake
    <2> QED BY <1>1, <1>2, <2>2, <2>3, <2>4 DEF NoProducerForgotten
  <1>15. CASE GetBlocks(t)
    <2>1. Awake("put") \subseteq Awake("put")'
      BY <1>15
      DEF GetBlocks, Entering, WaitOn, Return, Goto, NoCall, TypeOK,
         LabelInv, Awake, Waiting, Blocking
    <2>2. capacity - mQueue'.mSize <= capacity - mQueue.mSize
      BY <1>1, <1>15 DEF GetBlocks
    <2>3. /\ mEOS' = mEOS
          /\ cvFull' # {} => cvFull # {}
          /\ FullBroadcastDue => FullBroadcastDue'
      BY <1>15
      DEF GetBlocks, Entering, WaitOn, Return, Goto, NoCall, TypeOK,
         LabelInv, Waiting, Blocking, FullBroadcastDue
    <2>4. Cardinality(Awake("put")) <= Cardinality(Awake("put")')
      BY <1>2, <2>1, CountAwake
    <2> QED BY <1>1, <1>2, <2>2, <2>3, <2>4 DEF NoProducerForgotten
  <1>16. CASE GetRefused(t)
    <2>1. Awake("put") \subseteq Awake("put")'
      BY <1>16
      DEF GetRefused, Entering, Return, Goto, NoCall, cvs, TypeOK,
         LabelInv, Awake, Waiting, Blocking
    <2>2. capacity - mQueue'.mSize <= capacity - mQueue.mSize
      BY <1>1, <1>16 DEF GetRefused
    <2>3. /\ mEOS' = mEOS
          /\ cvFull' # {} => cvFull # {}
          /\ FullBroadcastDue => FullBroadcastDue'
      BY <1>16
      DEF GetRefused, Entering, Return, Goto, NoCall, cvs, TypeOK,
         LabelInv, Waiting, Blocking, FullBroadcastDue
    <2>4. Cardinality(Awake("put")) <= Cardinality(Awake("put")')
      BY <1>2, <2>1, CountAwake
    <2> QED BY <1>1, <1>2, <2>2, <2>3, <2>4 DEF NoProducerForgotten
  <1>17. CASE Get(t)
    <2>1. cvFull' # {} => \E u \in Threads \ Awake("put") : Awake("put") \cup {u} \subseteq Awake("put")'
      BY <1>17
      DEF Get, Entering, SignalAndReturn, Goto, NoCall, TypeOK,
         LabelInv, Awake, Waiting, Blocking
    <2>2. capacity - mQueue'.mSize <= capacity - mQueue.mSize + 1
      BY <1>1, <1>17 DEF Get, put, get
    <2>3. /\ mEOS' = mEOS
          /\ cvFull' # {} => cvFull # {}
          /\ FullBroadcastDue => FullBroadcastDue'
      BY <1>17
      DEF Get, Entering, SignalAndReturn, Goto, NoCall, TypeOK,
         LabelInv, Waiting, Blocking, FullBroadcastDue
    <2>4. cvFull' # {} => Cardinality(Awake("put")) + 1 <= Cardinality(Awake("put")')
      BY <1>2, <2>1, CountAwake
    <2> QED BY <1>1, <1>2, <2>2, <2>3, <2>4 DEF NoProducerForgotten
  <1>18. CASE FlushOne(t)
    BY <1>18
    DEF FlushOne, Entering, cvs, NoProducerForgotten, FullBroadcastDue,
       TypeOK, LabelInv, Blocking
  <1>19. CASE FlushDone(t)
    BY <1>19
    DEF FlushDone, Entering, Goto, cvs, NoProducerForgotten,
       FullBroadcastDue, TypeOK, LabelInv, Blocking
  <1>20. CASE SetEOS(t)
    BY <1>20
    DEF SetEOS, Entering, Goto, cvs, NoProducerForgotten,
       FullBroadcastDue, TypeOK
  <1>21. CASE BroadcastFull(t)
    BY <1>21 DEF BroadcastFull, Broadcast, NoProducerForgotten
  <1>22. CASE BroadcastEmpty(t)
    <2>1. Awake("put") \subseteq Awake("put")'
      BY <1>22
      DEF BroadcastEmpty, Broadcast, NoCall, TypeOK, LabelInv, Awake,
         Waiting, Blocking
    <2>2. capacity - mQueue'.mSize <= capacity - mQueue.mSize
      BY <1>1, <1>22 DEF BroadcastEmpty
    <2>3. /\ mEOS' = mEOS
          /\ cvFull' # {} => cvFull # {}
          /\ FullBroadcastDue => FullBroadcastDue'
      BY <1>22
      DEF BroadcastEmpty, Broadcast, NoCall, TypeOK, LabelInv, Waiting,
         Blocking, FullBroadcastDue
    <2>4. Cardinality(Awake("put")) <= Cardinality(Awake("put")')
      BY <1>2, <2>1, CountAwake
    <2> QED BY <1>1, <1>2, <2>2, <2>3, <2>4 DEF NoProducerForgotten
  <1>23. CASE SpuriousWakeup(t)
    <2>1. Awake("put") \subseteq Awake("put")'
      BY <1>23
      DEF SpuriousWakeup, LeaveCv, Goto, TypeOK, LabelInv, Awake,
         Waiting, Blocking
    <2>2. capacity - mQueue'.mSize <= capacity - mQueue.mSize
      BY <1>1, <1>23 DEF SpuriousWakeup
    <2>3. /\ mEOS' = mEOS
          /\ cvFull' # {} => cvFull # {}
          /\ FullBroadcastDue => FullBroadcastDue'
      BY <1>23
      DEF SpuriousWakeup, LeaveCv, Goto, TypeOK, LabelInv, Waiting,
         Blocking, FullBroadcastDue
    <2>4. Cardinality(Awake("put")) <= Cardinality(Awake("put")')
      BY <1>2, <2>1, CountAwake
    <2> QED BY <1>1, <1>2, <2>2, <2>3, <2>4 DEF NoProducerForgotten
  <1>24. CASE TimesOut(t)
    <2>1. Awake("put") \subseteq Awake("put")'
      BY <1>24
      DEF TimesOut, LeaveCv, Return, Goto, NoCall, TypeOK, LabelInv,
         Awake, Waiting, Blocking
    <2>2. capacity - mQueue'.mSize <= capacity - mQueue.mSize
      BY <1>1, <1>24 DEF TimesOut
    <2>3. /\ mEOS' = mEOS
          /\ cvFull' # {} => cvFull # {}
          /\ FullBroadcastDue => FullBroadcastDue'
      BY <1>24
      DEF TimesOut, LeaveCv, Return, Goto, NoCall, TypeOK, LabelInv,
         Waiting, Blocking, FullBroadcastDue
    <2>4. Cardinality(Awake("put")) <= Cardinality(Awake("put")')
      BY <1>2, <2>1, CountAwake
    <2> QED BY <1>1, <1>2, <2>2, <2>3, <2>4 DEF NoProducerForgotten
  <1>25. CASE Invoking(t)
    <2>1. Awake("put") \subseteq Awake("put")'
      BY <1>25
      DEF Invoking, Invoke, Goto, cvs, TypeOK, LabelInv, Awake, Waiting,
         Blocking
    <2>2. capacity - mQueue'.mSize <= capacity - mQueue.mSize
      BY <1>1, <1>25 DEF Invoking, Invoke
    <2>3. /\ mEOS' = mEOS
          /\ cvFull' # {} => cvFull # {}
          /\ FullBroadcastDue => FullBroadcastDue'
      BY <1>25
      DEF Invoking, Invoke, Goto, cvs, TypeOK, LabelInv, Waiting,
         Blocking, FullBroadcastDue
    <2>4. Cardinality(Awake("put")) <= Cardinality(Awake("put")')
      BY <1>2, <2>1, CountAwake
    <2> QED BY <1>1, <1>2, <2>2, <2>3, <2>4 DEF NoProducerForgotten
  <1> QED
    BY <1>10, <1>11, <1>12, <1>13, <1>14, <1>15, <1>16, <1>17,
       <1>18, <1>19, <1>20, <1>21, <1>22, <1>23, <1>24, <1>25
    DEF Move, Step

-------------------------------------------------------------------------------
(* The theorems *)

\* The constructor establishes IInv: an empty queue, nobody waiting.
LEMMA InitIInv == Init => IInv
  <1> SUFFICES ASSUME Init PROVE IInv
    OBVIOUS
  <1>1. WellFormed(mQueue)
    <2>1. 0 \in Slots /\ 0 \in 0 .. capacity /\ 0 % capacity = 0
      BY CapacityAssumption DEF Slots
    <2> QED BY <2>1, AnyTyped DEF Init, WellFormed, Queues
  <1>2. NoCall \in [op : AllOps, timeout : Timeouts, elem : T, eos : BOOLEAN]
    BY AnyTyped DEF NoCall, AllOps, Timeouts, Blocking
  <1>3. TypeOK
    BY <1>1, <1>2, AnyTyped DEF Init, TypeOK, Waiting
  <1>4. LabelInv /\ EndOfStreamReleases
    BY DEF Init, LabelInv, EndOfStreamReleases
  <1>5. NoConsumerForgotten /\ NoProducerForgotten
    BY DEF Init, NoConsumerForgotten, NoProducerForgotten
  <1> QED BY <1>3, <1>4, <1>5 DEF IInv

\* Every step of every thread preserves IInv.
LEMMA NextIInv == IInv /\ [Next]_vars => IInv'
  <1> SUFFICES ASSUME IInv, [Next]_vars PROVE IInv'
    OBVIOUS
  <1>1. ASSUME NEW t \in Threads, Move(t) PROVE IInv'
    <2>1. TypeOK'
      BY <1>1, ControlTyped, QueueTyped, WaitSets DEF IInv, TypeOK
    <2>2. LabelInv' /\ EndOfStreamReleases'
      BY <1>1, Labels, Releases DEF IInv
    <2>3. NoConsumerForgotten' /\ NoProducerForgotten'
      BY <1>1, <2>1, Consumers, Producers DEF IInv
    <2> QED BY <2>1, <2>2, <2>3 DEF IInv
  <1>2. CASE UNCHANGED vars
    BY <1>2 DEF vars, cvs, IInv, TypeOK, WellFormed, Waiting, Awake, LabelInv,
       EndOfStreamReleases, NoConsumerForgotten, NoProducerForgotten,
       EmptyBroadcastDue, FullBroadcastDue
  <1> QED BY <1>1, <1>2, NextIsMove

\* The inductive invariant holds in every state of SyncQueue.
THEOREM Inductive == Spec => []IInv
  BY InitIInv, NextIInv, PTL DEF Spec

\* The ring buffer stays well formed through every operation and the wait sets
\* of the two condition variables hold the threads that wait there.
THEOREM TypeCorrect == Spec => []TypeOK
  <1>1. IInv => TypeOK
    BY DEF IInv
  <1> QED BY <1>1, Inductive, PTL

\* The signal in put() and putForce() is enough: no consumer sleeps next to an
\* element that nobody has been woken to take.
THEOREM ConsumersServed == Spec => []NoConsumerForgotten
  <1>1. IInv => NoConsumerForgotten
    BY DEF IInv
  <1> QED BY <1>1, Inductive, PTL

\* The signal in get() and the broadcast of flush() are enough for producers.
THEOREM ProducersServed == Spec => []NoProducerForgotten
  <1>1. IInv => NoProducerForgotten
    BY DEF IInv
  <1> QED BY <1>1, Inductive, PTL

\* setEOS(true) reaches every thread that waits, also one that began to wait
\* while its broadcasts were under way.
THEOREM StreamEnds == Spec => []EndOfStreamReleases
  <1>1. IInv => EndOfStreamReleases
    BY DEF IInv
  <1> QED BY <1>1, Inductive, PTL

\* An empty ring buffer is an empty first-in first-out queue.
LEMMA InitContract == Init => Contract!Init
  BY AnyTyped DEF Init, Contract!Init, Items

\* Every section of mLock is one operation of the contract, or none.
LEMMA NextContract == IInv /\ [Next]_vars => [Contract!Next]_Contract!vars
  <1> SUFFICES ASSUME IInv, [Next]_vars PROVE [Contract!Next]_Contract!vars
    OBVIOUS
  <1>0. /\ WellFormed(mQueue) /\ mQueue \in Queues
        /\ mQueue.mSize \in Nat /\ mQueue.mSize <= capacity
        /\ Len(Items(mQueue)) = mQueue.mSize
    BY CapacityAssumption, ItemsTyped DEF IInv, TypeOK, WellFormed, Queues
  <1>1. ASSUME NEW t \in Threads, Put(t)
        PROVE  Contract!Put(call[t].elem) /\ call[t].elem \in T
    <2>1. call[t].elem \in T
      BY DEF IInv, TypeOK
    <2>2. Items(mQueue') = Append(Items(mQueue), call[t].elem)
      BY <1>0, <1>1, <2>1, PutAppends DEF Put
    <2>3. Len(Items(mQueue)) < capacity
      BY <1>0, <1>1, CapacityAssumption DEF Put, isFull
    <2> QED BY <1>1, <2>1, <2>2, <2>3 DEF Put, Contract!Put
  <1>2. ASSUME NEW t \in Threads, PutForce(t)
        PROVE  Contract!Put(call[t].elem) \/ Contract!PutForced(call[t].elem)
    <2>1. call[t].elem \in T
      BY DEF IInv, TypeOK
    <2>2. CASE isFull(mQueue)
      <3>1. /\ WellFormed(get(mQueue))
            /\ front(mQueue) = Head(Items(mQueue))
            /\ Items(get(mQueue)) = Tail(Items(mQueue))
        BY <1>0, <2>2, FullIsNotEmpty, GetTakes
      <3>2. ~isFull(get(mQueue))
        BY <1>0, CapacityAssumption DEF isFull, get
      <3>3. Items(mQueue') = Append(Tail(Items(mQueue)), call[t].elem)
        BY <1>2, <2>1, <2>2, <3>1, <3>2, PutAppends DEF PutForce
      <3>4. Len(Items(mQueue)) = capacity
        BY <1>0, <2>2, CapacityAssumption DEF isFull
      <3> QED BY <1>2, <2>2, <3>1, <3>3, <3>4 DEF PutForce, Contract!PutForced
    <2>3. CASE ~isFull(mQueue)
      <3>1. Items(mQueue') = Append(Items(mQueue), call[t].elem)
        BY <1>0, <1>2, <2>1, <2>3, PutAppends DEF PutForce
      <3>2. Len(Items(mQueue)) < capacity
        BY <1>0, <2>3, CapacityAssumption DEF isFull
      <3> QED BY <1>2, <2>3, <3>1, <3>2 DEF PutForce, Contract!Put
    <2> QED BY <2>2, <2>3
  <1>3. ASSUME NEW t \in Threads, Get(t) \/ FlushOne(t)
        PROVE  Contract!Take
    <2>1. ~isEmpty(mQueue) /\ mQueue' = get(mQueue) /\ taken' = front(mQueue)
          /\ mEOS' = mEOS
      BY <1>3 DEF Get, FlushOne
    <2>2. /\ front(mQueue) = Head(Items(mQueue))
          /\ Items(mQueue') = Tail(Items(mQueue))
      BY <1>0, <2>1, GetTakes
    <2>3. Items(mQueue) # <<>>
      BY <1>0, <2>1 DEF isEmpty
    <2> QED BY <2>1, <2>2, <2>3 DEF Contract!Take
  <1>4. ASSUME NEW t \in Threads, SetEOS(t)
        PROVE  Contract!SetEOS
    BY <1>4 DEF SetEOS, IInv, TypeOK, Contract!SetEOS
  <1>5. ASSUME NEW t \in Threads, Move(t),
               ~Put(t), ~PutForce(t), ~Get(t), ~FlushOne(t), ~SetEOS(t)
        PROVE  UNCHANGED Contract!vars
    <2>1. UNCHANGED <<mQueue, mEOS, taken>>
      BY <1>5 DEF Move, Step, PutBlocks, PutRefused, PutForceRefused, GetBlocks,
         GetRefused, FlushDone, BroadcastFull, BroadcastEmpty, SpuriousWakeup,
         TimesOut, Invoking, Invoke
    <2> QED BY <2>1 DEF Contract!vars
  <1>6. CASE UNCHANGED vars
    BY <1>6 DEF vars, Contract!vars
  <1>7. ASSUME NEW t \in Threads, Move(t) PROVE [Contract!Next]_Contract!vars
    <2>1. call[t].elem \in T
      BY DEF IInv, TypeOK
    <2> QED BY <1>1, <1>2, <1>3, <1>4, <1>5, <1>7, <2>1 DEF Contract!Next
  <1> QED BY <1>6, <1>7, NextIsMove

\* SyncQueue implements a bounded first-in first-out queue: whatever the
\* interleaving of the threads' operations, every element leaves once, in the
\* order of the puts, and none enters behind the end of the stream.
THEOREM ImplementsFifo == Spec => ContractSpec
  BY Inductive, InitContract, NextContract, PTL DEF Spec, ContractSpec, Contract!Spec
===============================================================================
