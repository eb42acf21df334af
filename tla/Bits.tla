--------------------------------- MODULE Bits ---------------------------------
(***************************************************************************)
(* The shifts and the & of C++ on unsigned numbers, as ByteRingBuffer and  *)
(* BitOps use them.                                                        *)
(***************************************************************************)
EXTENDS Naturals

\* 1 << n
PowerOf2(n) ==
  LET power[k \in 0 .. n] == IF k = 0 THEN 1 ELSE 2 * power[k - 1]
  IN power[n]

\* Bit k of x.
Bit(x, k) == (x \div PowerOf2(k)) % 2

\* x & y for numbers of n bits: the sum of the bits that both have.
And(n, x, y) ==
  LET sum[k \in 0 .. n] ==
        IF k = 0 THEN 0
        ELSE sum[k - 1] + Bit(x, k - 1) * Bit(y, k - 1) * PowerOf2(k - 1)
  IN sum[n]
===============================================================================
