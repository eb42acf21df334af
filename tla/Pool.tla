--------------------------------- MODULE Pool ---------------------------------
(***************************************************************************)
(* common/Pool.h: the cells of a Pool, with its bitmap and its free list,  *)
(* and the operations of DataPool and ObjectPool, which hold mLock from    *)
(* beginning to end.  An address is a number.                              *)
(***************************************************************************)
EXTENDS Naturals, FiniteSets

CONSTANTS
  Capacity,      \* cells
  BITS_PER_CHUNK,
  SizeOfT,       \* sizeof(T)
  Storage        \* the address of mStorage

ASSUME PoolAssumption ==
  /\ Capacity \in Nat \ {0}
  /\ BITS_PER_CHUNK \in Nat \ {0}
  /\ SizeOfT \in Nat \ {0}
  /\ Storage \in Nat \ {0}

VARIABLES
  mPool,    \* its bitmap, its links and the head of its free list
  objects,  \* the addresses where an object has been constructed
  created   \* what the last alloc() or create() returned

poolVars == <<mPool, objects, created>>

nullptr == 0

Indices == 0 .. Capacity - 1

INVALID_INDEX == Capacity

Chunks == 0 .. (Capacity - 1) \div BITS_PER_CHUNK

\* Every cell is free: the constructor, and reset().
Fresh ==
  [mUsedMap |-> [c \in Chunks |-> {}],
   mNext |-> [i \in Indices |-> IF i + 1 < Capacity THEN i + 1 ELSE INVALID_INDEX],
   mFreeHead |-> 0]

-------------------------------------------------------------------------------
(* The bitmap: a chunk is the set of its bits that are 1 *)

isUsed(p, i) == i % BITS_PER_CHUNK \in p.mUsedMap[i \div BITS_PER_CHUNK]

setUsed(p, i) ==
  [p EXCEPT !.mUsedMap[i \div BITS_PER_CHUNK] = @ \cup {i % BITS_PER_CHUNK}]

\* Mutant of setFree: the whole chunk is cleared.
ClearChunk(p, i) == [p EXCEPT !.mUsedMap[i \div BITS_PER_CHUNK] = {}]

setFree(p, i) ==
  [p EXCEPT !.mUsedMap[i \div BITS_PER_CHUNK] = @ \ {i % BITS_PER_CHUNK}]

-------------------------------------------------------------------------------
(* Cells and their addresses *)

addressOf(i) == Storage + i * SizeOfT

\* Mutant of getIndex: any address in a cell stands for the cell.
RoundedIndex(ptr) ==
  IF ptr >= Storage /\ ptr - Storage < Capacity * SizeOfT
    THEN (ptr - Storage) \div SizeOfT
    ELSE INVALID_INDEX

\* nullptr is below Storage.
getIndex(ptr) ==
  IF /\ ptr >= Storage
     /\ ptr - Storage < Capacity * SizeOfT
     /\ (ptr - Storage) % SizeOfT = 0
    THEN (ptr - Storage) \div SizeOfT
    ELSE INVALID_INDEX

isAllocated(p, ptr) == getIndex(ptr) # INVALID_INDEX /\ isUsed(p, getIndex(ptr))

\* Pool::alloc() of a pool that is not exhausted.
alloc(p) ==
  [setUsed(p, p.mFreeHead) EXCEPT !.mFreeHead = p.mNext[p.mFreeHead]]

\* Pool::free() of an address that passed its tests.
free(p, i) ==
  [setFree(p, i) EXCEPT !.mNext[i] = p.mFreeHead, !.mFreeHead = i]

-------------------------------------------------------------------------------
(* DataPool and ObjectPool *)

PoolInit ==
  /\ mPool = Fresh
  /\ objects = {}
  /\ created = nullptr

Create ==
  /\ mPool.mFreeHead # INVALID_INDEX
  /\ mPool' = alloc(mPool)
  /\ created' = addressOf(mPool.mFreeHead)
  /\ objects' = objects \cup {created'}

Exhausted ==
  /\ mPool.mFreeHead = INVALID_INDEX
  /\ created' = nullptr
  /\ UNCHANGED <<mPool, objects>>

\* Any other address is refused: nullptr, an address outside of the pool or
\* inside of a cell, a cell that is free.
Destroy(ptr) ==
  /\ isAllocated(mPool, ptr)
  /\ objects' = objects \ {ptr}
  /\ mPool' = free(mPool, getIndex(ptr))
  /\ UNCHANGED created

\* clear() destroys the objects in all the cells in use and resets the pool.
Clear ==
  /\ objects' = objects \ {addressOf(i) : i \in {j \in Indices : isUsed(mPool, j)}}
  /\ mPool' = Fresh
  /\ UNCHANGED created

\* The addresses that destroy() is called with: in, between, before and after
\* the cells.
Addresses == 0 .. Storage + Capacity * SizeOfT

PoolNext == Create \/ Exhausted \/ (\E ptr \in Addresses : Destroy(ptr)) \/ Clear

PoolSpec == PoolInit /\ [][PoolNext]_poolVars

-------------------------------------------------------------------------------
(* Properties *)

unused == {i \in Indices : ~isUsed(mPool, i)}

\* The free list passes the cells of list, one after the other, and ends.
IsFreeList(p, list, n) ==
  /\ p.mFreeHead = IF n = 0 THEN INVALID_INDEX ELSE list[1]
  /\ \A k \in 1 .. n :
       p.mNext[list[k]] = IF k = n THEN INVALID_INDEX ELSE list[k + 1]

\* The bitmap marks the cells with an object, and the free list passes all the
\* other cells, each once (alloc(), free() and reset() keep them in step).
PoolSound ==
  /\ mPool \in [mUsedMap : [Chunks -> SUBSET (0 .. BITS_PER_CHUNK - 1)],
                mNext : [Indices -> Indices \cup {INVALID_INDEX}],
                mFreeHead : Indices \cup {INVALID_INDEX}]
  /\ objects = {addressOf(i) : i \in Indices \ unused}
  /\ LET n == Cardinality(unused) IN
     \E list \in [1 .. n -> unused] :
       /\ \A i \in unused : \E k \in 1 .. n : list[k] = i
       /\ IsFreeList(mPool, list, n)
  /\ created \in {nullptr} \cup {addressOf(i) : i \in Indices}

\* The pools keep the promises of PoolContract.
PoolPromise == INSTANCE PoolContract WITH
  Places <- {addressOf(i) : i \in Indices},
  Null <- nullptr

PoolPromiseSpec == PoolPromise!Spec
===============================================================================
