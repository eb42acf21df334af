-------------------------- MODULE CircularQueueProofs --------------------------
(***************************************************************************)
(* The ring buffer of any capacity: put() appends to the sequence of its   *)
(* elements, get() takes that sequence's head, and the indices stay where  *)
(* the next operation needs them, wherever the buffer wraps around.        *)
(***************************************************************************)
EXTENDS CircularQueue, SequenceTheorems, TLAPS

\* An index that has passed the end at most once wraps by a subtraction.
LEMMA WrapSmall ==
  ASSUME NEW n \in Nat, n < 2 * capacity
  PROVE n % capacity = IF n < capacity THEN n ELSE n - capacity
  BY CapacityAssumption

\* A wrapped index is a slot.
LEMMA WrapInSlots ==
  ASSUME NEW n \in Nat
  PROVE n % capacity \in Slots
  BY CapacityAssumption DEF Slots

\* Items is a sequence of mSize elements.
LEMMA ItemsTyped ==
  ASSUME NEW q \in Queues
  PROVE  Items(q) \in Seq(T) /\ Len(Items(q)) = q.mSize
  <1>1. /\ q.mFront \in Nat /\ q.mSize \in Nat
        /\ q.mBuffer \in [Slots -> T]
    BY CapacityAssumption DEF Queues, Slots
  <1>2. \A k \in 1 .. q.mSize : q.mBuffer[(q.mFront + k - 1) % capacity] \in T
    BY <1>1, WrapInSlots
  <1> QED BY <1>1, <1>2 DEF Items

\* put() of a queue that is not full appends the element (CircularQueue::put).
THEOREM PutAppends ==
  ASSUME NEW q, WellFormed(q), ~isFull(q), NEW t \in T
  PROVE  /\ WellFormed(put(q, t))
         /\ Items(put(q, t)) = Append(Items(q), t)
  <1> DEFINE r == put(q, t)
  <1>1. /\ q.mFront \in Nat /\ q.mFront < capacity
        /\ q.mRear \in Nat /\ q.mRear < capacity
        /\ q.mSize \in Nat /\ q.mSize < capacity
        /\ q.mBuffer \in [Slots -> T]
        /\ q.mRear = (q.mFront + q.mSize) % capacity
    BY CapacityAssumption DEF WellFormed, Queues, Slots, isFull
  <1>2. q.mRear = IF q.mFront + q.mSize < capacity THEN q.mFront + q.mSize
                  ELSE q.mFront + q.mSize - capacity
    BY <1>1, WrapSmall, CapacityAssumption
  <1>3. r.mRear = (r.mFront + r.mSize) % capacity
    <2>1. r.mRear = IF q.mRear + 1 < capacity THEN q.mRear + 1 ELSE q.mRear + 1 - capacity
      BY <1>1, WrapSmall, CapacityAssumption DEF put
    <2>2. (r.mFront + r.mSize) % capacity =
             IF q.mFront + q.mSize + 1 < capacity THEN q.mFront + q.mSize + 1
             ELSE q.mFront + q.mSize + 1 - capacity
      BY <1>1, WrapSmall, CapacityAssumption DEF put
    <2> QED BY <1>1, <1>2, <2>1, <2>2, CapacityAssumption
  <1>4. r \in Queues
    <2>1. r.mRear \in Slots
      BY <1>1, WrapInSlots DEF put
    <2>2. r.mBuffer \in [Slots -> T]
      BY <1>1 DEF put
    <2>3. r.mSize \in 0 .. capacity
      BY <1>1, CapacityAssumption DEF put
    <2>4. r.mFront \in Slots
      BY <1>1, CapacityAssumption DEF put, Slots
    <2>5. r = [mBuffer |-> r.mBuffer, mSize |-> r.mSize,
               mFront |-> r.mFront, mRear |-> r.mRear]
      BY DEF put
    <2> HIDE DEF r
    <2> QED BY <2>1, <2>2, <2>3, <2>4, <2>5 DEF Queues
  <1>5. \A k \in 1 .. q.mSize :
          r.mBuffer[(q.mFront + k - 1) % capacity] = q.mBuffer[(q.mFront + k - 1) % capacity]
    <2> SUFFICES ASSUME NEW k \in 1 .. q.mSize
                 PROVE  r.mBuffer[(q.mFront + k - 1) % capacity]
                          = q.mBuffer[(q.mFront + k - 1) % capacity]
      OBVIOUS
    <2> DEFINE m == q.mFront + k - 1
    <2>1. m \in Nat /\ m < 2 * capacity /\ q.mFront <= m /\ m < q.mFront + q.mSize
      BY <1>1, CapacityAssumption
    <2> HIDE DEF m
    <2>2. m % capacity = IF m < capacity THEN m ELSE m - capacity
      BY <2>1, WrapSmall
    <2>3. m % capacity # q.mRear
      BY <1>1, <1>2, <2>1, <2>2, CapacityAssumption
    <2>4. m % capacity \in Slots
      BY <2>1, WrapInSlots
    <2>5. r.mBuffer[m % capacity] = q.mBuffer[m % capacity]
      BY <1>1, <2>3, <2>4 DEF put
    <2> QED BY <2>5 DEF m
  <1>6. r.mBuffer[(q.mFront + q.mSize) % capacity] = t
    BY <1>1, WrapInSlots DEF put
  <1>7. Items(r) = Append(Items(q), t)
    <2>1. Items(q) \in Seq(T)
      BY <1>1, WrapInSlots DEF Items
    <2> QED BY <1>1, <1>5, <1>6, <2>1 DEF put, Items
  <1> QED BY <1>3, <1>4, <1>7 DEF WellFormed

\* get() of a queue that is not empty takes the oldest element
\* (CircularQueue::get).
THEOREM GetTakes ==
  ASSUME NEW q, WellFormed(q), ~isEmpty(q)
  PROVE  /\ WellFormed(get(q))
         /\ front(q) = Head(Items(q))
         /\ Items(get(q)) = Tail(Items(q))
  <1> DEFINE r == get(q)
  <1>1. /\ q.mFront \in Nat /\ q.mFront < capacity
        /\ q.mRear \in Slots
        /\ q.mSize \in Nat /\ 0 < q.mSize /\ q.mSize <= capacity
        /\ q.mBuffer \in [Slots -> T]
        /\ q.mRear = (q.mFront + q.mSize) % capacity
    BY CapacityAssumption DEF WellFormed, Queues, Slots, isEmpty
  <1>2. r.mFront = IF q.mFront + 1 < capacity THEN q.mFront + 1 ELSE q.mFront + 1 - capacity
    BY <1>1, WrapSmall, CapacityAssumption DEF get
  <1>3. \A k \in 1 .. q.mSize : (r.mFront + k - 1) % capacity = (q.mFront + k) % capacity
    <2> SUFFICES ASSUME NEW k \in 1 .. q.mSize
                 PROVE  (r.mFront + k - 1) % capacity = (q.mFront + k) % capacity
      OBVIOUS
    <2> DEFINE m == q.mFront + k
               n == r.mFront + k - 1
    <2>1. m \in Nat /\ m < 2 * capacity
      BY <1>1, CapacityAssumption
    <2>2. n \in Nat /\ n < 2 * capacity
      BY <1>1, <1>2, CapacityAssumption
    <2>3. n = m \/ n = m - capacity
      BY <1>1, <1>2, CapacityAssumption
    <2> HIDE DEF m, n
    <2>4. m % capacity = IF m < capacity THEN m ELSE m - capacity
      BY <2>1, WrapSmall
    <2>5. n % capacity = IF n < capacity THEN n ELSE n - capacity
      BY <2>2, WrapSmall
    <2>6. m % capacity = n % capacity
      BY <2>1, <2>2, <2>3, <2>4, <2>5, CapacityAssumption
    <2> QED BY <2>6 DEF m, n
  <1>4. r.mRear = (r.mFront + r.mSize) % capacity
    BY <1>1, <1>3 DEF get
  <1>5. r \in Queues
    <2>1. r.mFront \in Slots
      BY <1>1, WrapInSlots DEF get
    <2>2. r.mSize \in 0 .. capacity
      BY <1>1, CapacityAssumption DEF get
    <2>3. r.mBuffer \in [Slots -> T] /\ r.mRear \in Slots
      BY <1>1 DEF get
    <2>4. r = [mBuffer |-> r.mBuffer, mSize |-> r.mSize,
               mFront |-> r.mFront, mRear |-> r.mRear]
      BY DEF get
    <2> HIDE DEF r
    <2> QED BY <2>1, <2>2, <2>3, <2>4 DEF Queues
  <1>6. Items(q) \in Seq(T) /\ Items(q) # <<>> /\ Len(Items(q)) = q.mSize
    <2>1. Items(q) \in Seq(T) /\ Len(Items(q)) = q.mSize
      BY ItemsTyped DEF WellFormed
    <2> QED BY <1>1, <2>1
  <1>7. front(q) = Head(Items(q))
    <2>1. Head(Items(q)) = q.mBuffer[(q.mFront + 1 - 1) % capacity]
      BY <1>1, <1>6 DEF Items
    <2>2. q.mFront % capacity = q.mFront
      BY <1>1, WrapSmall, CapacityAssumption
    <2>3. q.mFront + 1 - 1 = q.mFront
      BY <1>1
    <2> QED BY <2>1, <2>2, <2>3 DEF front
  <1>8. Items(r) = Tail(Items(q))
    <2>1. /\ Tail(Items(q)) \in Seq(T)
          /\ Len(Tail(Items(q))) = q.mSize - 1
          /\ \A k \in 1 .. q.mSize - 1 : Tail(Items(q))[k] = Items(q)[k + 1]
      BY <1>6, HeadTailProperties
    <2>2. /\ Items(r) = [k \in 1 .. q.mSize - 1
                          |-> q.mBuffer[(r.mFront + k - 1) % capacity]]
          /\ q.mSize - 1 \in Nat
      BY <1>1 DEF get, Items
    <2>3. \A k \in 1 .. q.mSize - 1 : Items(r)[k] = Items(q)[k + 1]
      <3> SUFFICES ASSUME NEW k \in 1 .. q.mSize - 1
                   PROVE  Items(r)[k] = Items(q)[k + 1]
        OBVIOUS
      <3>1. k \in 1 .. q.mSize /\ k + 1 \in 1 .. q.mSize
        BY <1>1
      <3>2. Items(q)[k + 1] = q.mBuffer[(q.mFront + (k + 1) - 1) % capacity]
        BY <3>1 DEF Items
      <3>3. q.mFront + (k + 1) - 1 = q.mFront + k
        BY <1>1, <3>1
      <3> QED BY <1>3, <2>2, <3>1, <3>2, <3>3
    <2>4. Items(r) \in Seq(T)
      BY <1>5, ItemsTyped
    <2>5. Len(Items(r)) = q.mSize - 1
      BY <2>2
    <2> HIDE DEF r
    <2> QED BY <2>1, <2>3, <2>4, <2>5, SeqEqual
  <1> QED BY <1>4, <1>5, <1>7, <1>8 DEF WellFormed
===============================================================================
