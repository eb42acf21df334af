---------------------------- MODULE ByteRingBuffer ----------------------------
(***************************************************************************)
(* common/ByteRingBuffer.h: a ring of bytes that is written and read in    *)
(* blocks of at most two pieces, and read as numbers of both byte orders.  *)
(* Every operation holds mLock from beginning to end.                      *)
(***************************************************************************)
EXTENDS Bits, Sequences

CONSTANTS
  RingCapacity,
  ByteBits,  \* 8
  Widths     \* sizeof(T) of the numbers: 1, 2 and 4

ASSUME RingAssumption ==
  /\ RingCapacity \in Nat \ {0}
  /\ ByteBits \in Nat \ {0}
  /\ Widths \subseteq Nat \ {0}

VARIABLES
  ring,    \* mData, mSize, mFront and mRear
  call,    \* the last operation and its arguments
  count,   \* what it returned, 1 for true
  output   \* what it stored in its caller's buffer or variable

ringVars == <<ring, call, count, output>>

Radix == PowerOf2(ByteBits)

Bytes == 0 .. Radix - 1

Cells == 0 .. RingCapacity - 1

NoOutput == [bytes |-> <<>>, value |-> 0]

RingInit ==
  /\ ring = [mData |-> [i \in Cells |-> 0], mSize |-> 0, mFront |-> 0, mRear |-> 0]
  /\ call = <<"none">>
  /\ count = 0
  /\ output = NoOutput

-------------------------------------------------------------------------------
(* Helpers on the fields b of a ring *)

LesserOf(m, n) == IF m <= n THEN m ELSE n

\* Mutant of copyIn: the second piece begins at the front of the buffer again.
CopyInTwice(b, buf, n) ==
  LET firstPart == LesserOf(n, RingCapacity - b.mRear) IN
  [i \in Cells |->
     IF i \in b.mRear .. b.mRear + firstPart - 1 THEN buf[i - b.mRear + 1]
     ELSE IF i < n - firstPart THEN buf[i + 1]
     ELSE b.mData[i]]

\* mData after the two memcpy() of write() with n bytes of buf.
copyIn(b, buf, n) ==
  LET firstPart == LesserOf(n, RingCapacity - b.mRear) IN
  [i \in Cells |->
     IF i \in b.mRear .. b.mRear + firstPart - 1 THEN buf[i - b.mRear + 1]
     ELSE IF i < n - firstPart THEN buf[firstPart + i + 1]
     ELSE b.mData[i]]

\* _peek(): at most len bytes, in one or two pieces.
_peek(b, offset, len) ==
  IF offset >= b.mSize THEN <<>>
  ELSE LET canRead == LesserOf(len, b.mSize - offset)
           start == (b.mFront + offset) % RingCapacity
           firstPart == LesserOf(canRead, RingCapacity - start)
       IN [k \in 1 .. canRead |->
             IF k <= firstPart THEN b.mData[start + k - 1]
                               ELSE b.mData[k - firstPart - 1]]

\* _drop() of at most mSize bytes.
_drop(b, n) == [b EXCEPT !.mFront = (@ + n) % RingCapacity, !.mSize = @ - n]

\* The loop of _peekType(), value[i] after i rounds: the bits that its << puts
\* in place for |= do not overlap.
valueOf(temp, order) ==
  LET n == Len(temp)
      shift[k \in 0 .. n] == IF k = 0 THEN 1 ELSE Radix * shift[k - 1]
      value[i \in 0 .. n] ==
        IF i = 0 THEN 0
        ELSE value[i - 1] + temp[i] * shift[IF order = "big" THEN n - i ELSE i - 1]
  IN value[n]

Returned(n) == count' = n /\ output' = NoOutput

Copied(bytes) == count' = Len(bytes) /\ output' = [bytes |-> bytes, value |-> 0]

\* _peekType() once it has its bytes
Converted(temp, order) ==
  count' = 1 /\ output' = [bytes |-> temp, value |-> valueOf(temp, order)]

-------------------------------------------------------------------------------
(* Operations *)

write(buf) ==
  LET canWrite == LesserOf(Len(buf), RingCapacity - ring.mSize) IN
  /\ call' = <<"write", buf>>
  /\ ring' = [mData |-> copyIn(ring, buf, canWrite),
              mSize |-> ring.mSize + canWrite,
              mFront |-> ring.mFront,
              mRear |-> (ring.mRear + canWrite) % RingCapacity]
  /\ Returned(canWrite)

peek(len) ==
  /\ call' = <<"peek", len>>
  /\ Copied(_peek(ring, 0, len))
  /\ UNCHANGED ring

read(len) ==
  LET bytes == _peek(ring, 0, len) IN
  /\ call' = <<"read", len>>
  /\ Copied(bytes)
  /\ ring' = _drop(ring, Len(bytes))

drop(size) ==
  /\ call' = <<"drop", size>>
  /\ IF ring.mSize < size
       THEN Returned(0) /\ UNCHANGED ring
       ELSE Returned(1) /\ ring' = _drop(ring, size)

\* peek8(), peek16(), peek32()
peekType(offset, width, order) ==
  LET temp == _peek(ring, offset, width) IN
  /\ call' = <<"peekType", offset, width, order>>
  /\ IF Len(temp) = width THEN Converted(temp, order) ELSE Returned(0)
  /\ UNCHANGED ring

\* read8(), read16(), read32()
readType(width, order) ==
  LET temp == _peek(ring, 0, width) IN
  /\ call' = <<"readType", width, order>>
  /\ IF Len(temp) = width
       THEN Converted(temp, order) /\ ring' = _drop(ring, width)
       ELSE Returned(0) /\ UNCHANGED ring

\* Lengths and offsets that do not fit are there too.
Lengths == 0 .. RingCapacity + 1

RingNext ==
  \/ \E n \in Lengths :
       \/ \E buf \in [1 .. n -> Bytes] : write(buf)
       \/ peek(n) \/ read(n) \/ drop(n)
  \/ \E width \in Widths, order \in {"big", "little"} :
       \/ readType(width, order)
       \/ \E offset \in Lengths : peekType(offset, width, order)

RingSpec == RingInit /\ [][RingNext]_ringVars

-------------------------------------------------------------------------------
(* Properties *)

\* The fields have their types and fit together.
RingWellFormed ==
  /\ ring \in [mData : [Cells -> Bytes], mSize : 0 .. RingCapacity,
               mFront : Cells, mRear : Cells]
  /\ ring.mRear = (ring.mFront + ring.mSize) % RingCapacity

\* The ring is the stream of bytes that ByteStream describes.
RingPromise == INSTANCE ByteStream WITH
  Capacity <- RingCapacity,
  stream <- [k \in 1 .. ring.mSize |->
               ring.mData[(ring.mFront + k - 1) % RingCapacity]]

RingPromiseSpec == RingPromise!Spec
===============================================================================
