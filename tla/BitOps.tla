-------------------------------- MODULE BitOps --------------------------------
(***************************************************************************)
(* utils/BitOps.h: bit fields of an unsigned type of TypeBits bits.        *)
(***************************************************************************)
EXTENDS Bits

CONSTANT TypeBits

ASSUME TypeBitsAssumption == TypeBits \in Nat \ {0}

\* mask(), mask_dynamic(): the lowest bits, and all of them for a width that
\* the type does not have.
mask_dynamic(width) ==
  IF width >= TypeBits THEN PowerOf2(TypeBits) - 1 ELSE PowerOf2(width) - 1

\* Mutant of extract_dynamic: the mask is applied before the shift.
ExtractMaskedFirst(data, offset, width) ==
  IF offset >= TypeBits THEN 0
  ELSE And(TypeBits, data, mask_dynamic(width)) \div PowerOf2(offset)

\* extract(), extract_dynamic()
extract_dynamic(data, offset, width) ==
  IF offset >= TypeBits THEN 0
  ELSE And(TypeBits, data \div PowerOf2(offset), mask_dynamic(width))
===============================================================================
