------------------------------ MODULE ByteStream ------------------------------
(***************************************************************************)
(* What ByteRingBuffer promises: a bounded stream of bytes.  A write takes *)
(* as much as there is room for, reads return the oldest bytes, and a      *)
(* number is read whole or not at all.                                     *)
(***************************************************************************)
EXTENDS Naturals, Sequences

CONSTANTS Bytes, Radix, Capacity, Widths

VARIABLES
  stream,  \* the bytes, oldest first
  call,    \* the last operation and its arguments
  count,   \* what it returned: a number of bytes, or 0 and 1 for false and true
  output   \* what it stored for its caller

vars == <<stream, call, count, output>>

NoOutput == [bytes |-> <<>>, value |-> 0]

Init ==
  /\ stream = <<>>
  /\ call = <<"none">>
  /\ count = 0
  /\ output = NoOutput

\* At most n bytes of s from the one that follows offset others.
Part(s, offset, n) ==
  SubSeq(s, offset + 1, IF offset + n <= Len(s) THEN offset + n ELSE Len(s))

\* The number that the bytes of s spell, read from its highest digit on.
Number(s, order) ==
  LET n == Len(s)
      number[k \in 0 .. n] ==
        IF k = 0 THEN 0
        ELSE number[k - 1] * Radix + s[IF order = "big" THEN k ELSE n - k + 1]
  IN number[n]

Returns(n) == count' = n /\ output' = NoOutput

Reads(s) == count' = Len(s) /\ output' = [bytes |-> s, value |-> 0]

ReadsNumber(s, order) ==
  count' = 1 /\ output' = [bytes |-> s, value |-> Number(s, order)]

Write(buf) ==
  LET accepted == Part(buf, 0, Capacity - Len(stream)) IN
  /\ call' = <<"write", buf>>
  /\ stream' = stream \o accepted
  /\ Returns(Len(accepted))

Peek(n) ==
  /\ call' = <<"peek", n>>
  /\ Reads(Part(stream, 0, n))
  /\ UNCHANGED stream

Read(n) ==
  /\ call' = <<"read", n>>
  /\ Reads(Part(stream, 0, n))
  /\ stream' = Part(stream, n, Len(stream))

Drop(n) ==
  /\ call' = <<"drop", n>>
  /\ IF n <= Len(stream)
       THEN Returns(1) /\ stream' = Part(stream, n, Len(stream))
       ELSE Returns(0) /\ UNCHANGED stream

PeekNumber(offset, width, order) ==
  /\ call' = <<"peekType", offset, width, order>>
  /\ IF offset + width <= Len(stream)
       THEN ReadsNumber(Part(stream, offset, width), order)
       ELSE Returns(0)
  /\ UNCHANGED stream

ReadNumber(width, order) ==
  /\ call' = <<"readType", width, order>>
  /\ IF width <= Len(stream)
       THEN /\ ReadsNumber(Part(stream, 0, width), order)
            /\ stream' = Part(stream, width, Len(stream))
       ELSE Returns(0) /\ UNCHANGED stream

\* Lengths that are longer than the stream do what the longest of them does.
Lengths == 0 .. Capacity + 1

Next ==
  \/ \E n \in Lengths :
       \/ \E buf \in [1 .. n -> Bytes] : Write(buf)
       \/ Peek(n) \/ Read(n) \/ Drop(n)
  \/ \E width \in Widths, order \in {"big", "little"} :
       \/ ReadNumber(width, order)
       \/ \E offset \in Lengths : PeekNumber(offset, width, order)

Spec == Init /\ [][Next]_vars
===============================================================================
