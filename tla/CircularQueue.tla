----------------------------- MODULE CircularQueue -----------------------------
(***************************************************************************)
(* common/CircularQueue.h: the ring buffer under SyncQueue and under       *)
(* MainLoop's functions, as operators on its four fields.                  *)
(***************************************************************************)
EXTENDS Naturals, Sequences

CONSTANTS
  T,         \* the elements
  capacity

ASSUME CapacityAssumption == capacity \in Nat \ {0}

Slots == 0 .. capacity - 1

Queues == [mBuffer : [Slots -> T], mSize : 0 .. capacity,
           mFront : Slots, mRear : Slots]

isFull(q) == q.mSize >= capacity

isEmpty(q) == q.mSize = 0

\* Mutant of put: the rear index wraps one slot early.
PutOffByOne(q, t) ==
  [mBuffer |-> [q.mBuffer EXCEPT ![q.mRear] = t],
   mSize |-> q.mSize + 1,
   mFront |-> q.mFront,
   mRear |-> IF q.mRear + 2 >= capacity THEN 0 ELSE q.mRear + 1]

\* put() of a queue that is not full; it refuses an element otherwise.
put(q, t) ==
  [mBuffer |-> [q.mBuffer EXCEPT ![q.mRear] = t],
   mSize |-> q.mSize + 1,
   mFront |-> q.mFront,
   mRear |-> (q.mRear + 1) % capacity]

\* Mutant of front: the slot of the next put().
FrontAtRear(q) == q.mBuffer[q.mRear]

\* The element that get() of a queue that is not empty returns ...
front(q) == q.mBuffer[q.mFront]

\* ... and the queue it leaves.
get(q) ==
  [mBuffer |-> q.mBuffer,
   mSize |-> q.mSize - 1,
   mFront |-> (q.mFront + 1) % capacity,
   mRear |-> q.mRear]

\* The elements in the queue, oldest first.
Items(q) == [k \in 1 .. q.mSize |-> q.mBuffer[(q.mFront + k - 1) % capacity]]

\* The fields fit together: the rear is where the elements end.
WellFormed(q) ==
  /\ q \in Queues
  /\ q.mRear = (q.mFront + q.mSize) % capacity
===============================================================================
