------------------------------ MODULE Containers ------------------------------
(***************************************************************************)
(* The classes that hold data for others: a pool, a ring of bytes and a    *)
(* few functions.  They share nothing, so that each behaviour uses one of  *)
(* them only.  A number that was read from the ring can be taken apart by  *)
(* BitOps.                                                                 *)
(***************************************************************************)
EXTENDS Pool, ByteRingBuffer, FixedFunction, BitOps

\* The numbers of the ring are numbers of the type that BitOps takes apart.
ASSUME NumbersFit == \A width \in Widths : width * ByteBits <= TypeBits

Init == PoolInit /\ RingInit /\ FunctionInit

Next ==
  \/ /\ RingInit /\ FunctionInit
     /\ PoolNext
     /\ UNCHANGED <<ringVars, functionVars>>
  \/ /\ PoolInit /\ FunctionInit
     /\ RingNext
     /\ UNCHANGED <<poolVars, functionVars>>
  \/ /\ PoolInit /\ RingInit
     /\ FunctionNext
     /\ UNCHANGED <<poolVars, ringVars>>

vars == <<poolVars, ringVars, functionVars>>

Spec == Init /\ [][Next]_vars

\* The three data structures are well-formed.
TypeOK == PoolSound /\ RingWellFormed

\* The bytes of a number that was read can be taken out of it again: the byte
\* orders of ByteRingBuffer::_peekType() agree with the bit order of
\* BitOps::extract_dynamic().
ExtractedBytes ==
  call[1] \in {"peekType", "readType"} /\ count = 1 =>
    LET bytes == output.bytes
        n == Len(bytes)
        bigEndian == call[Len(call)] = "big"
    IN
    \A i \in 1 .. n :
      bytes[IF bigEndian THEN n - i + 1 ELSE i]
        = extract_dynamic(output.value, (i - 1) * ByteBits, ByteBits)
===============================================================================
