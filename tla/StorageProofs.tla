----------------------------- MODULE StorageProofs -----------------------------
(***************************************************************************)
(* Pool, ByteRingBuffer and FixedFunction for every size: the pool's       *)
(* bitmap, free list and objects stay in step and the pool keeps the       *)
(* promises of PoolContract, the ring is a stream of bytes however it      *)
(* wraps, and a callable has one owner.                                    *)
(***************************************************************************)
EXTENDS Containers, Integers, NaturalsInduction, WellFoundedInduction, SequenceTheorems,
        FiniteSetTheorems, TLAPS

-------------------------------------------------------------------------------
(* Quotients and remainders *)

\* The quotient and the remainder of a are the only ones.
LEMMA Quotient ==
  ASSUME NEW a \in Nat, NEW b \in Nat \ {0}, NEW q \in Nat, NEW r \in 0 .. b - 1,
         a = q * b + r
  PROVE  a \div b = q /\ a % b = r
  OBVIOUS

\* The provers find the following three facts only one at a time.
LEMMA QuotientBelow ==
  ASSUME NEW a \in Nat, NEW b \in Nat \ {0}
  PROVE  (a \div b) * b <= a
  OBVIOUS

LEMMA QuotientAbove ==
  ASSUME NEW a \in Nat, NEW b \in Nat \ {0}
  PROVE  a < (a \div b) * b + b
  OBVIOUS

LEMMA QuotientType ==
  ASSUME NEW a \in Nat, NEW b \in Nat \ {0}
  PROVE  a \div b \in Nat
  OBVIOUS

\* The same from a: it has a quotient and a remainder.
LEMMA Division ==
  ASSUME NEW a \in Nat, NEW b \in Nat \ {0}
  PROVE  \E q \in Nat, r \in 0 .. b - 1 : a = q * b + r /\ q = a \div b /\ r = a % b
  <1> DEFINE q == a \div b
             r == a - q * b
  <1>1. q \in Nat /\ q * b <= a /\ a < q * b + b
    BY QuotientBelow, QuotientAbove, QuotientType
  <1>2. q * b \in Int
    BY <1>1
  <1>3. r \in 0 .. b - 1 /\ a = q * b + r
    <2> HIDE DEF q
    <2> QED
      BY <1>1, <1>2
  <1> HIDE DEF r, q
  <1>4. a \div b = q /\ a % b = r
    BY <1>1, <1>3, Quotient
  <1> QED
    BY <1>1, <1>3, <1>4

\* What is added after the remainder is taken.
LEMMA RemainderOfSum ==
  ASSUME NEW a \in Nat, NEW c \in Nat, NEW b \in Nat \ {0}
  PROVE  ((a % b) + c) % b = (a + c) % b
  <1>1. PICK q \in Nat, r \in 0 .. b - 1 : a = q * b + r /\ r = a % b
    BY Division
  <1>2. r + c \in Nat /\ a + c = q * b + (r + c)
    BY <1>1
  <1>3. PICK p \in Nat, s \in 0 .. b - 1 : r + c = p * b + s /\ s = (r + c) % b
    BY <1>1, <1>2, Division
  <1>4. a + c = (q + p) * b + s /\ q + p \in Nat /\ a + c \in Nat
    BY <1>2, <1>3
  <1>5. PICK k \in Nat, e \in Nat : k = q + p /\ e = a + c
    BY <1>4
  <1>6. e = k * b + s
    BY <1>4, <1>5
  <1>7. e % b = s
    BY <1>6, Quotient
  <1> QED
    BY <1>1, <1>3, <1>5, <1>7

\* Where a remainder lies.
LEMMA RemainderRange ==
  ASSUME NEW a \in Nat, NEW b \in Nat \ {0}
  PROVE  a % b \in 0 .. b - 1 /\ (a < b => a % b = a)
  OBVIOUS

\* Two numbers with the same quotient and the same remainder are the same.
LEMMA SamePlace ==
  ASSUME NEW b \in Nat \ {0}, NEW i \in Nat, NEW j \in Nat,
         i \div b = j \div b, i % b = j % b
  PROVE  i = j
  <1>1. PICK q \in Nat, r \in 0 .. b - 1 : i = q * b + r /\ q = i \div b /\ r = i % b
    BY Division
  <1>2. PICK p \in Nat, s \in 0 .. b - 1 : j = p * b + s /\ p = j \div b /\ s = j % b
    BY Division
  <1> QED
    BY <1>1, <1>2

\* A greater number has no smaller quotient.
LEMMA QuotientMonotone ==
  ASSUME NEW b \in Nat \ {0}, NEW i \in Nat, NEW j \in Nat, i <= j
  PROVE  i \div b <= j \div b
  <1>1. PICK q \in Nat, r \in 0 .. b - 1 : i = q * b + r /\ q = i \div b /\ r = i % b
    BY Division
  <1>2. PICK p \in Nat, s \in 0 .. b - 1 : j = p * b + s /\ p = j \div b /\ s = j % b
    BY Division
  <1>3. ASSUME p < q PROVE FALSE
    <2>1. PICK d \in Nat : q = p + 1 + d
      BY <1>3
    <2>2. q * b = p * b + b + d * b /\ d * b \in Nat
      BY <2>1
    <2> QED
      BY <1>1, <1>2, <2>2
  <1> QED
    BY <1>1, <1>2, <1>3

\* A number that is less than 2b, modulo b.
LEMMA WrapOnce ==
  ASSUME NEW b \in Nat \ {0}, NEW a \in Nat, a < b + b
  PROVE  a % b = IF a < b THEN a ELSE a - b
  <1>1. CASE a < b
    BY <1>1
  <1>2. CASE a >= b
    <2>1. PICK r \in 0 .. b - 1 : a = 1 * b + r
      <3>1. a - b \in 0 .. b - 1 /\ a = 1 * b + (a - b)
        BY <1>2
      <3> QED
        BY <3>1
    <2>2. a % b = r
      BY <2>1, Quotient
    <2> QED
      BY <1>2, <2>1, <2>2
  <1> QED
    BY <1>1, <1>2

\* The front moves by n of m bytes: the rear stays where it is.
LEMMA FrontMoves ==
  ASSUME NEW b \in Nat \ {0}, NEW f \in Nat, NEW m \in Nat, NEW n \in 0 .. m
  PROVE  /\ (f + n) % b \in 0 .. b - 1
         /\ (((f + n) % b) + (m - n)) % b = (f + m) % b
  <1>1. PICK d \in Nat, e \in Nat : d = m - n /\ e = f + n
    OBVIOUS
  <1>2. ((e % b) + d) % b = (e + d) % b /\ e % b \in 0 .. b - 1
    BY RemainderOfSum, RemainderRange
  <1>3. e + d = f + m
    BY <1>1
  <1> QED
    BY <1>1, <1>2, <1>3

\* The rear moves by n bytes.
LEMMA RearMoves ==
  ASSUME NEW b \in Nat \ {0}, NEW f \in Nat, NEW m \in Nat, NEW n \in Nat
  PROVE  /\ (((f + m) % b) + n) % b = (f + (m + n)) % b
         /\ (((f + m) % b) + n) % b \in 0 .. b - 1
  <1>1. PICK e \in Nat : e = f + m
    OBVIOUS
  <1>2. ((e % b) + n) % b = (e + n) % b
    BY RemainderOfSum
  <1>3. PICK d \in Nat : d = e + n
    BY <1>1
  <1>4. d % b \in 0 .. b - 1 /\ d = f + (m + n)
    BY <1>1, <1>3, RemainderRange
  <1> QED
    BY <1>1, <1>2, <1>3, <1>4

-------------------------------------------------------------------------------
(* Induction and recursion up to a bound *)

\* A set of naturals with an element has a least one.
LEMMA LeastElement ==
  ASSUME NEW S \in SUBSET Nat, S # {}
  PROVE  \E m \in S : \A k \in S : m <= k
  <1>1. PICK m \in S : \A k \in S : ~(<<k, m>> \in OpToRel(<, Nat))
    BY NatLessThanWellFounded, WFMin
  <1>2. \A k, l \in Nat : k < l => <<k, l>> \in OpToRel(<, Nat)
    BY ZenonT(20) DEF OpToRel
  <1>3. \A k \in S : ~(k < m)
    BY <1>1, <1>2, Zenon
  <1>4. \A k \in S : m <= k
    BY <1>3
  <1> QED
    BY <1>4

\* Induction up to n: what holds of 0 and of every successor.
LEMMA InductionUpTo ==
  ASSUME NEW n \in Nat, NEW S, 0 \in S, \A k \in 0 .. n - 1 : k \in S => k + 1 \in S
  PROVE  0 .. n \subseteq S
  <1> SUFFICES ASSUME (0 .. n) \ S # {} PROVE FALSE
    OBVIOUS
  <1>1. (0 .. n) \ S \in SUBSET Nat
    OBVIOUS
  <1>2. PICK m \in (0 .. n) \ S : \A k \in (0 .. n) \ S : m <= k
    BY <1>1, LeastElement, Zenon
  <1>3. m - 1 \in 0 .. n - 1 /\ m - 1 \notin (0 .. n) \ S /\ (m - 1) + 1 = m
    BY <1>2
  <1> QED
    BY <1>2, <1>3

\* A function that is defined by a base and a step for each argument exists.
LEMMA PrimitiveRecursion ==
  \A n, base \in Nat : \A step \in [1 .. n -> [Nat -> Nat]] :
    \E f \in [0 .. n -> Nat] :
      f[0] = base /\ \A i \in 1 .. n : f[i] = step[i][f[i - 1]]
  <1> TAKE n, base \in Nat
  <1> TAKE step \in [1 .. n -> [Nat -> Nat]]
  <1> DEFINE Upto(m, f) == /\ f \in [0 .. m -> Nat]
                           /\ f[0] = base
                           /\ \A i \in 1 .. m : f[i] = step[i][f[i - 1]]
             S == {m \in 0 .. n : \E f : Upto(m, f)}
  <1>1. 0 \in S
    <2>1. Upto(0, [i \in 0 .. 0 |-> base]) /\ 0 \in 0 .. n
      OBVIOUS
    <2> HIDE DEF Upto
    <2> QED
      BY <2>1
  <1>2. ASSUME NEW m \in 0 .. n - 1, m \in S
        PROVE  m + 1 \in S
    <2>1. PICK f \in [0 .. m -> Nat] : Upto(m, f)
      BY <1>2
    <2>2. m \in Nat /\ m + 1 \in 1 .. n
      OBVIOUS
    <2> HIDE DEF S
    <2>3. PICK next \in Nat : next = step[m + 1][f[m]]
      <3>1. f[m] \in Nat /\ step[m + 1] \in [Nat -> Nat]
        BY <2>2
      <3> QED
        BY <3>1
    <2>4. PICK g : g = [i \in 0 .. m + 1 |-> IF i = m + 1 THEN next ELSE f[i]]
      OBVIOUS
    <2>5. /\ g \in [0 .. m + 1 -> Nat]
          /\ g[m + 1] = next
          /\ \A i \in 0 .. m : g[i] = f[i]
      <3>1. m \in Nat
        BY <2>2
      <3> HIDE DEF Upto
      <3>2. g[m + 1] = next /\ \A i \in 0 .. m : g[i] = f[i]
        BY <2>4, <3>1
      <3>3. \A i \in 0 .. m + 1 : g[i] \in Nat
        <4>1. \A i \in 0 .. m : f[i] \in Nat
          OBVIOUS
        <4>2. \A i \in 0 .. m + 1 : i = m + 1 \/ i \in 0 .. m
          BY <3>1
        <4> QED
          BY <3>2, <4>1, <4>2
      <3> QED
        BY <2>4, <3>2, <3>3
    <2>6. ASSUME NEW i \in 1 .. m + 1 PROVE g[i] = step[i][g[i - 1]]
      <3>1. CASE i = m + 1
        <4>1. i - 1 = m /\ m \in 0 .. m
          BY <2>2, <3>1
        <4> QED
          BY <2>3, <2>5, <3>1, <4>1
      <3>2. CASE i # m + 1
        <4>1. i \in 1 .. m /\ i \in 0 .. m /\ i - 1 \in 0 .. m
          BY <2>2, <3>2
        <4>2. f[i] = step[i][f[i - 1]]
          BY <2>1, <4>1
        <4> QED
          BY <2>5, <4>1, <4>2
      <3> QED
        BY <3>1, <3>2
    <2>7. g[0] = base
      <3>1. 0 \in 0 .. m
        BY <2>2
      <3> QED
        BY <2>1, <2>5, <3>1
    <2>8. Upto(m + 1, g)
      BY <2>5, <2>6, <2>7, Zenon
    <2>9. m + 1 \in 0 .. n
      BY <2>2
    <2> HIDE DEF Upto
    <2> QED
      BY <2>8, <2>9 DEF S
  <1>3. 0 .. n \subseteq S
    <2> HIDE DEF S
    <2> QED
      BY <1>1, <1>2, InductionUpTo
  <1>4. n \in S
    <2> HIDE DEF S
    <2> QED
      BY <1>3
  <1> QED
    BY <1>4

-------------------------------------------------------------------------------
(* Powers of two *)

\* Products of naturals, named so that the provers need no arithmetic on them.
LEMMA ProductType ==
  \A a, b \in Nat : a * b \in Nat /\ a + b \in Nat
  OBVIOUS

\* What PowerOf2 computes on the way to n.
LEMMA PowersUpTo ==
  ASSUME NEW n \in Nat
  PROVE  \E power \in [0 .. n -> Nat] :
           /\ power[0] = 1
           /\ \A k \in 1 .. n : power[k] = 2 * power[k - 1]
           /\ PowerOf2(n) = power[n]
  <1> DEFINE Po(f) == [k \in 0 .. n |-> IF k = 0 THEN 1 ELSE 2 * f[k - 1]]
             power == CHOOSE f : f = Po(f)
             step == [k \in 1 .. n |-> [v \in Nat |-> 2 * v]]
  <1>1. PowerOf2(n) = power[n]
    BY DEF PowerOf2
  <1>2. step \in [1 .. n -> [Nat -> Nat]]
    OBVIOUS
  <1>3. PICK f \in [0 .. n -> Nat] : f[0] = 1 /\ \A k \in 1 .. n : f[k] = step[k][f[k - 1]]
    <2> HIDE DEF step
    <2>1. 1 \in Nat
      OBVIOUS
    <2> QED
      BY <1>2, <2>1, PrimitiveRecursion, Zenon
  <1>4. ASSUME NEW k \in 1 .. n PROVE f[k] = 2 * f[k - 1]
    <2> HIDE DEF step
    <2>1. f[k] = step[k][f[k - 1]] /\ f[k - 1] \in Nat
      BY <1>3
    <2> QED
      BY <2>1 DEF step
  <1> HIDE DEF step
  <1>5. f = Po(f)
    BY <1>3, <1>4
  <1>6. power = Po(power)
    <2> HIDE DEF Po
    <2> QED
      BY <1>5, Zenon
  <1> HIDE DEF power
  <1>7. power[0] = 1 /\ \A k \in 1 .. n : power[k] = 2 * power[k - 1]
    BY <1>6
  <1>8. \A k \in 0 .. n : power[k] \in Nat
    <2> DEFINE T == {k \in 0 .. n : power[k] \in Nat}
    <2>1. 0 \in T
      BY <1>7
    <2>2. ASSUME NEW k \in 0 .. n - 1, k \in T PROVE k + 1 \in T
      <3>1. k + 1 \in 1 .. n /\ (k + 1) - 1 = k
        OBVIOUS
      <3>2. power[k + 1] = 2 * power[k]
        BY <1>7, <3>1
      <3> QED
        BY <2>2, <3>1, <3>2
    <2>3. 0 .. n \subseteq T
      <3> HIDE DEF T
      <3> QED
        BY <2>1, <2>2, InductionUpTo
    <2> QED
      BY <2>3
  <1> HIDE DEF Po
  <1> QED
    BY <1>1, <1>6, <1>7, <1>8 DEF Po

\* PowerOf2 doubles from 1 on.
LEMMA PowerDoubles ==
  PowerOf2(0) = 1 /\ \A n \in Nat : PowerOf2(n) \in Nat /\ PowerOf2(n + 1) = 2 * PowerOf2(n)
  <1>1. PowerOf2(0) = 1
    BY PowersUpTo
  <1>2. ASSUME NEW n \in Nat
        PROVE  PowerOf2(n) \in Nat /\ PowerOf2(n + 1) = 2 * PowerOf2(n)
    <2>1. PICK p \in [0 .. n -> Nat] :
            p[0] = 1 /\ (\A k \in 1 .. n : p[k] = 2 * p[k - 1]) /\ PowerOf2(n) = p[n]
      BY PowersUpTo
    <2>2. n + 1 \in Nat
      OBVIOUS
    <2>3. PICK q \in [0 .. n + 1 -> Nat] :
            q[0] = 1 /\ (\A k \in 1 .. n + 1 : q[k] = 2 * q[k - 1]) /\ PowerOf2(n + 1) = q[n + 1]
      BY <2>2, PowersUpTo
    <2> DEFINE T == {k \in 0 .. n : p[k] = q[k]}
    <2>4. 0 \in T
      BY <2>1, <2>3
    <2>5. ASSUME NEW k \in 0 .. n - 1, k \in T PROVE k + 1 \in T
      <3>1. k + 1 \in 1 .. n /\ k + 1 \in 1 .. n + 1 /\ (k + 1) - 1 = k
        OBVIOUS
      <3>2. p[k + 1] = 2 * p[k] /\ q[k + 1] = 2 * q[k]
        BY <2>1, <2>3, <3>1
      <3> QED
        BY <2>5, <3>1, <3>2
    <2>6. 0 .. n \subseteq T
      <3> HIDE DEF T
      <3> QED
        BY <2>4, <2>5, InductionUpTo
    <2>7. p[n] = q[n]
      BY <2>6
    <2>8. n + 1 \in 1 .. n + 1 /\ (n + 1) - 1 = n
      OBVIOUS
    <2>9. q[n + 1] = 2 * q[n]
      BY <2>3, <2>8
    <2> QED
      BY <2>1, <2>3, <2>7, <2>9
  <1> QED
    BY <1>1, <1>2

\* Powers are positive, and the sum of exponents is the product of powers.
LEMMA PowerOfSum ==
  ASSUME NEW a \in Nat, NEW b \in Nat
  PROVE  PowerOf2(a + b) = PowerOf2(a) * PowerOf2(b) /\ PowerOf2(b) \in Nat \ {0}
  <1> DEFINE T == {k \in 0 .. b : /\ PowerOf2(a + k) = PowerOf2(a) * PowerOf2(k)
                                  /\ PowerOf2(k) \in Nat \ {0}}
  <1>0. PowerOf2(a) \in Nat
    BY PowerDoubles
  <1>1. 0 \in T
    <2>1. a + 0 = a /\ PowerOf2(a) = PowerOf2(a) * 1
      BY <1>0
    <2> QED
      BY <2>1, PowerDoubles
  <1>2. ASSUME NEW k \in 0 .. b - 1, k \in T PROVE k + 1 \in T
    <2>1. k \in Nat /\ a + k \in Nat /\ a + (k + 1) = (a + k) + 1 /\ k + 1 \in 0 .. b
      OBVIOUS
    <2>2. PowerOf2(k + 1) = 2 * PowerOf2(k) /\ PowerOf2(a + (k + 1)) = 2 * PowerOf2(a + k)
      BY <2>1, PowerDoubles
    <2>3. PICK p \in Nat, q \in Nat \ {0} : p = PowerOf2(a) /\ q = PowerOf2(k)
      BY <1>0, <1>2
    <2>4. 2 * (p * q) = p * (2 * q) /\ 2 * q \in Nat \ {0}
      OBVIOUS
    <2>5. PowerOf2(a + k) = p * q
      BY <1>2, <2>3
    <2> QED
      BY <2>1, <2>2, <2>3, <2>4, <2>5
  <1>3. 0 .. b \subseteq T
    <2> HIDE DEF T
    <2> QED
      BY <1>1, <1>2, InductionUpTo
  <1> QED
    BY <1>3


-------------------------------------------------------------------------------
(* Bits *)

\* Bit k is what a remainder gains from one place more.
LEMMA LowBits ==
  ASSUME NEW x \in Nat, NEW k \in Nat
  PROVE  /\ Bit(x, k) \in {0, 1}
         /\ x % PowerOf2(k + 1) = (x % PowerOf2(k)) + Bit(x, k) * PowerOf2(k)
         /\ x % PowerOf2(k) \in Nat
  <1>1. PICK p \in Nat \ {0} : p = PowerOf2(k)
    BY PowerOfSum
  <1>2. PICK q \in Nat, r \in 0 .. p - 1 : x = q * p + r /\ q = x \div p /\ r = x % p
    BY Division
  <1>3. PICK h \in Nat, b \in 0 .. 2 - 1 : q = h * 2 + b /\ b = q % 2
    <2>1. 2 \in Nat \ {0}
      OBVIOUS
    <2> QED
      BY <2>1, Division
  <1>4. PICK d \in Nat \ {0} : d = 2 * p
    OBVIOUS
  <1>5. b * p + r \in 0 .. d - 1 /\ x = h * d + (b * p + r)
    <2>1. b * p \in Nat /\ b * p + r < 2 * p
      <3>1. CASE b = 0
        BY <3>1
      <3>2. CASE b = 1
        BY <3>2
      <3> QED
        BY <3>1, <3>2
    <2>2. (h * 2 + b) * p = h * (2 * p) + b * p
      OBVIOUS
    <2>3. b * p + r <= d - 1 /\ b * p + r \in Nat
      <3>1. CASE b = 0
        BY <1>4, <3>1
      <3>2. CASE b = 1
        BY <1>4, <3>2
      <3> QED
        BY <3>1, <3>2
    <2>4. x = h * d + b * p + r
      BY <1>2, <1>3, <1>4, <2>2
    <2>5. PICK m \in Nat, g \in Nat : m = b * p /\ g = h * d
      BY ProductType
    <2>6. g + m + r = g + (m + r)
      OBVIOUS
    <2> QED
      BY <2>3, <2>4, <2>5, <2>6
  <1>6. x % d = b * p + r
    <2>1. PICK s \in 0 .. d - 1 : s = b * p + r
      BY <1>5
    <2>2. x = h * d + s
      BY <1>5, <2>1
    <2>3. x % d = s
      BY <2>2, Quotient
    <2> QED
      BY <2>1, <2>3
  <1>7. Bit(x, k) = b
    BY <1>1, <1>2, <1>3 DEF Bit
  <1>8. PowerOf2(k + 1) = d
    BY <1>1, <1>4, PowerDoubles
  <1>9. b * p + r = r + b * p
    <2>1. PICK m \in Nat : m = b * p
      BY ProductType
    <2> QED
      BY <2>1
  <1>10. b \in {0, 1}
    OBVIOUS
  <1>11. x % PowerOf2(k + 1) = (x % PowerOf2(k)) + Bit(x, k) * PowerOf2(k)
    <2>1. x % PowerOf2(k + 1) = r + b * p
      BY <1>6, <1>8, <1>9, Zenon
    <2> QED
      BY <1>1, <1>2, <1>7, <2>1, Zenon
  <1>12. x % PowerOf2(k) \in Nat
    BY <1>1, <1>2
  <1>13. Bit(x, k) \in {0, 1}
    BY <1>7, <1>10
  <1> QED
    BY <1>11, <1>12, <1>13, Zenon

\* A mask of w bits has the lowest w.
LEMMA MaskBit ==
  ASSUME NEW w \in Nat, NEW k \in Nat
  PROVE  /\ PowerOf2(w) - 1 \in Nat
         /\ Bit(PowerOf2(w) - 1, k) = IF k < w THEN 1 ELSE 0
  <1>1. PICK p \in Nat \ {0} : p = PowerOf2(k)
    BY PowerOfSum
  <1>2. PICK m \in Nat : m = PowerOf2(w) - 1
    BY PowerOfSum
  <1>3. CASE k < w
    <2>1. PICK d \in Nat : d = w - k - 1
      BY <1>3
    <2>2. w = k + (d + 1) /\ d + 1 \in Nat
      BY <1>3, <2>1
    <2>3. PICK h \in Nat \ {0} : h = PowerOf2(d)
      BY PowerOfSum
    <2>4. PowerOf2(d + 1) = 2 * h
      BY <2>3, PowerDoubles
    <2>5. PowerOf2(w) = p * (2 * h)
      BY <1>1, <2>2, <2>4, PowerOfSum
    <2>6. m = (2 * h - 1) * p + (p - 1)
      <3>1. (2 * h - 1) * p + (p - 1) = p * (2 * h) - 1
        OBVIOUS
      <3> QED
        BY <1>2, <2>5, <3>1
    <2>7. m \div p = 2 * h - 1
      <3>1. PICK q \in Nat, r \in 0 .. p - 1 : q = 2 * h - 1 /\ r = p - 1
        OBVIOUS
      <3>2. m = q * p + r
        BY <2>6, <3>1
      <3> QED
        BY <3>1, <3>2, Quotient
    <2>8. (2 * h - 1) % 2 = 1
      <3>1. PICK q \in Nat, a \in Nat : q = h - 1 /\ a = 2 * h - 1 /\ a = q * 2 + 1
        OBVIOUS
      <3>2. 2 \in Nat \ {0} /\ 1 \in 0 .. 2 - 1
        OBVIOUS
      <3>3. a % 2 = 1
        BY <3>1, <3>2, Quotient
      <3> QED
        BY <3>1, <3>3
    <2> QED
      BY <1>1, <1>2, <1>3, <2>7, <2>8 DEF Bit
  <1>4. CASE k >= w
    <2>1. PICK d \in Nat : k = w + d
      <3>1. k - w \in Nat /\ k = w + (k - w)
        BY <1>4
      <3> QED
        BY <3>1
    <2>2. PICK g \in Nat \ {0}, h \in Nat \ {0} : g = PowerOf2(w) /\ h = PowerOf2(d)
      BY PowerOfSum
    <2>3. p = g * h
      BY <1>1, <2>1, <2>2, PowerOfSum
    <2>4. g <= p
      <3>1. PICK e \in Nat : h = 1 + e
        <4>1. h - 1 \in Nat /\ h = 1 + (h - 1)
          OBVIOUS
        <4> QED
          BY <4>1
      <3>2. g * h = g + g * e /\ g * e \in Nat
        BY <3>1
      <3> QED
        BY <2>3, <3>2
    <2>5. m \in 0 .. p - 1
      BY <1>2, <2>2, <2>4
    <2>6. m \div p = 0
      <3>1. m = 0 * p + m
        BY <2>5
      <3>2. 0 \in Nat
        OBVIOUS
      <3> QED
        BY <2>5, <3>1, <3>2, Quotient
    <2> QED
      BY <1>1, <1>2, <1>4, <2>6 DEF Bit
  <1> QED
    BY <1>2, <1>3, <1>4

\* What And computes on the way to n bits.
LEMMA SumOfBits ==
  ASSUME NEW n \in Nat, NEW x \in Nat, NEW y \in Nat
  PROVE  \E sum \in [0 .. n -> Nat] :
           /\ sum[0] = 0
           /\ \A k \in 1 .. n :
                sum[k] = sum[k - 1] + Bit(x, k - 1) * Bit(y, k - 1) * PowerOf2(k - 1)
           /\ And(n, x, y) = sum[n]
  <1> DEFINE term(k) == Bit(x, k - 1) * Bit(y, k - 1) * PowerOf2(k - 1)
             Su(f) == [k \in 0 .. n |-> IF k = 0 THEN 0 ELSE f[k - 1] + term(k)]
             sum == CHOOSE f : f = Su(f)
             step == [k \in 1 .. n |-> [v \in Nat |-> v + term(k)]]
  <1>1. And(n, x, y) = sum[n]
    BY DEF And
  <1> HIDE DEF sum
  <1>2. ASSUME NEW k \in 1 .. n PROVE term(k) \in Nat
    <2>1. PICK i \in Nat : i = k - 1
      OBVIOUS
    <2>2. PICK a \in Nat, b \in Nat, p \in Nat :
            a = Bit(x, i) /\ b = Bit(y, i) /\ p = PowerOf2(i)
      BY LowBits, PowerDoubles
    <2>3. a * b * p \in Nat
      <3>1. PICK c \in Nat : c = a * b
        BY ProductType
      <3> QED
        BY <3>1, ProductType
    <2> QED
      BY <2>1, <2>2, <2>3
  <1>3. step \in [1 .. n -> [Nat -> Nat]]
    <2> HIDE DEF term
    <2> QED
      BY <1>2
  <1>4. PICK f \in [0 .. n -> Nat] : f[0] = 0 /\ \A k \in 1 .. n : f[k] = step[k][f[k - 1]]
    <2> HIDE DEF step
    <2>1. 0 \in Nat
      OBVIOUS
    <2> QED
      BY <1>3, <2>1, PrimitiveRecursion, Zenon
  <1>5. ASSUME NEW k \in 1 .. n PROVE f[k] = f[k - 1] + term(k)
    <2> HIDE DEF term, step
    <2>1. f[k] = step[k][f[k - 1]] /\ f[k - 1] \in Nat
      BY <1>4
    <2> QED
      BY <2>1 DEF step
  <1> HIDE DEF step
  <1> HIDE DEF term
  <1>6. f = Su(f)
    BY <1>4, <1>5
  <1>7. sum = Su(sum)
    <2> HIDE DEF Su
    <2> QED
      BY <1>6, Zenon DEF sum
  <1>8. sum[0] = 0 /\ \A k \in 1 .. n : sum[k] = sum[k - 1] + term(k)
    BY <1>7
  <1>9. \A k \in 0 .. n : sum[k] \in Nat
    <2> HIDE DEF term
    <2> DEFINE T == {k \in 0 .. n : sum[k] \in Nat}
    <2>1. 0 \in T
      BY <1>8
    <2>2. ASSUME NEW k \in 0 .. n - 1, k \in T PROVE k + 1 \in T
      <3>1. k + 1 \in 1 .. n /\ (k + 1) - 1 = k
        OBVIOUS
      <3>2. sum[k + 1] = sum[k] + term(k + 1)
        BY <1>8, <3>1
      <3> QED
        BY <1>2, <2>2, <3>1, <3>2
    <2>3. 0 .. n \subseteq T
      <3> HIDE DEF T
      <3> QED
        BY <2>1, <2>2, InductionUpTo
    <2> QED
      BY <2>3
  <1>10. sum \in [0 .. n -> Nat]
    BY <1>7, <1>9
  <1> HIDE DEF Su
  <1> QED
    BY <1>1, <1>8, <1>10 DEF term

\* A mask keeps the low bits.
LEMMA AndMask ==
  ASSUME NEW n \in Nat, NEW w \in 0 .. n, NEW x \in Nat
  PROVE  And(n, x, PowerOf2(w) - 1) = x % PowerOf2(w)
  <1> DEFINE y == PowerOf2(w) - 1
  <1>1. w \in Nat /\ y \in Nat
    BY MaskBit
  <1>2. PICK sum \in [0 .. n -> Nat] :
          /\ sum[0] = 0
          /\ \A k \in 1 .. n :
               sum[k] = sum[k - 1] + Bit(x, k - 1) * Bit(y, k - 1) * PowerOf2(k - 1)
          /\ And(n, x, y) = sum[n]
    BY <1>1, SumOfBits, Zenon
  <1> DEFINE low(k) == IF k < w THEN k ELSE w
             T == {k \in 0 .. n : sum[k] = x % PowerOf2(low(k))}
  <1>3. 0 \in T
    <2>1. low(0) = 0
      BY <1>1
    <2>2. x % 1 = 0
      OBVIOUS
    <2>3. x % PowerOf2(low(0)) = 0
      BY <2>1, <2>2, PowerDoubles
    <2> HIDE DEF low
    <2> QED
      BY <1>2, <2>3
  <1>4. ASSUME NEW k \in 0 .. n - 1, k \in T PROVE k + 1 \in T
    <2>1. k \in Nat /\ k + 1 \in 1 .. n /\ (k + 1) - 1 = k /\ k + 1 \in 0 .. n
      OBVIOUS
    <2>2. sum[k + 1] = sum[k] + Bit(x, k) * Bit(y, k) * PowerOf2(k)
      BY <1>2, <2>1
    <2>3. sum[k] = x % PowerOf2(low(k))
      BY <1>4
    <2>4. PICK b \in Nat, p \in Nat, s \in Nat : b = Bit(x, k) /\ p = PowerOf2(k) /\ s = sum[k]
      <3>1. Bit(x, k) \in {0, 1}
        BY <2>1, LowBits, Zenon
      <3>2. PowerOf2(k) \in Nat
        BY <2>1, PowerDoubles, Zenon
      <3>3. k \in 0 .. n
        BY <2>1
      <3>4. sum[k] \in Nat
        BY <3>3, Zenon
      <3> QED
        BY <3>1, <3>2, <3>4
    <2> HIDE DEF T
    <2>5. CASE k < w
      <3>1. low(k) = k /\ low(k + 1) = k + 1
        BY <1>1, <2>5
      <3>2. Bit(y, k) = 1
        BY <1>1, <2>1, <2>5, MaskBit
      <3>3. b * 1 * p = b * p
        OBVIOUS
      <3>4. x % PowerOf2(k + 1) = (x % PowerOf2(k)) + b * p
        BY <2>1, <2>4, LowBits
      <3>5. sum[k + 1] = x % PowerOf2(k + 1)
        BY <2>2, <2>3, <2>4, <3>1, <3>2, <3>3, <3>4
      <3> QED
        BY <2>1, <3>1, <3>5 DEF T
    <2>6. CASE ~(k < w)
      <3>1. low(k) = w /\ low(k + 1) = w
        BY <1>1, <2>1, <2>6
      <3>2. Bit(y, k) = 0
        BY <1>1, <2>1, <2>6, MaskBit
      <3>3. s + b * 0 * p = s
        OBVIOUS
      <3>4. sum[k + 1] = s
        BY <2>2, <2>4, <3>2, <3>3
      <3> QED
        BY <2>1, <2>3, <2>4, <3>1, <3>4 DEF T
    <2> QED
      BY <2>5, <2>6
  <1>5. 0 .. n \subseteq T
    <2> HIDE DEF T
    <2> QED
      BY <1>3, <1>4, InductionUpTo
  <1>6. low(n) = w
    OBVIOUS
  <1>7. sum[n] = x % PowerOf2(w)
    <2>1. n \in T
      <3> HIDE DEF T
      <3> QED
        BY <1>5
    <2> QED
      BY <1>6, <2>1
  <1> QED
    BY <1>2, <1>7

-------------------------------------------------------------------------------
(* Cells and addresses *)

\* The address of a cell is that of no other, and getIndex() finds the cell.
LEMMA AddressOfCell ==
  ASSUME NEW i \in Indices
  PROVE  /\ addressOf(i) \in Nat \ {nullptr}
         /\ getIndex(addressOf(i)) = i
         /\ i # INVALID_INDEX
  <1> USE PoolAssumption DEF Indices
  <1>1. PICK a \in Nat : a = i * SizeOfT
    OBVIOUS
  <1>2. a < Capacity * SizeOfT
    BY <1>1
  <1>3. a \div SizeOfT = i /\ a % SizeOfT = 0
    BY <1>1, Quotient
  <1>4. Storage + a \in Nat \ {0} /\ Storage + a >= Storage /\ (Storage + a) - Storage = a
    OBVIOUS
  <1> QED
    BY <1>1, <1>2, <1>3, <1>4 DEF addressOf, getIndex, nullptr, INVALID_INDEX

\* What getIndex() does not refuse is the address of a cell.
LEMMA CellOfAddress ==
  ASSUME NEW ptr \in Nat, getIndex(ptr) # INVALID_INDEX
  PROVE  getIndex(ptr) \in Indices /\ ptr = addressOf(getIndex(ptr))
  <1> USE PoolAssumption
  <1>1. /\ ptr >= Storage
        /\ ptr - Storage < Capacity * SizeOfT
        /\ (ptr - Storage) % SizeOfT = 0
        /\ getIndex(ptr) = (ptr - Storage) \div SizeOfT
    BY DEF getIndex
  <1>2. PICK a \in Nat : a = ptr - Storage
    BY <1>1
  <1>3. PICK q \in Nat, r \in 0 .. SizeOfT - 1 :
          a = q * SizeOfT + r /\ q = a \div SizeOfT /\ r = a % SizeOfT
    BY Division
  <1>4. r = 0 /\ a = q * SizeOfT
    BY <1>1, <1>2, <1>3
  <1>5. q < Capacity
    <2>1. SUFFICES ASSUME q >= Capacity PROVE FALSE
      BY <1>3
    <2>2. PICK d \in Nat : q = Capacity + d
      BY <2>1
    <2>3. q * SizeOfT = Capacity * SizeOfT + d * SizeOfT /\ d * SizeOfT \in Nat
      BY <2>2
    <2> QED
      BY <1>1, <1>2, <1>4, <2>3
  <1>6. getIndex(ptr) = q /\ q \in Indices
    BY <1>1, <1>2, <1>3, <1>5 DEF Indices
  <1> QED
    BY <1>1, <1>2, <1>4, <1>6 DEF addressOf

-------------------------------------------------------------------------------
(* The bitmap *)

\* The bits of a chunk.
ChunkBits == 0 .. BITS_PER_CHUNK - 1

\* The fields of a Pool.
PoolRecords ==
  [mUsedMap : [Chunks -> SUBSET (0 .. BITS_PER_CHUNK - 1)],
   mNext : [Indices -> Indices \cup {INVALID_INDEX}],
   mFreeHead : Indices \cup {INVALID_INDEX}]

\* Every cell has a bit in the bitmap,
LEMMA BitOfCell ==
  ASSUME NEW i \in Indices
  PROVE  i \div BITS_PER_CHUNK \in Chunks /\ i % BITS_PER_CHUNK \in ChunkBits
  <1> USE PoolAssumption
  <1>1. PICK q \in Nat, r \in 0 .. BITS_PER_CHUNK - 1 :
          q = i \div BITS_PER_CHUNK /\ r = i % BITS_PER_CHUNK
    BY Division DEF Indices
  <1>2. PICK p \in Nat : p = (Capacity - 1) \div BITS_PER_CHUNK
    <2>1. Capacity - 1 \in Nat
      OBVIOUS
    <2> QED
      BY <2>1, Division
  <1>3. i \div BITS_PER_CHUNK <= (Capacity - 1) \div BITS_PER_CHUNK
    BY QuotientMonotone DEF Indices
  <1> QED
    BY <1>1, <1>2, <1>3 DEF Chunks, ChunkBits

\* and shares it with no other cell.
LEMMA OneBit ==
  ASSUME NEW i \in Indices, NEW j \in Indices,
         i \div BITS_PER_CHUNK = j \div BITS_PER_CHUNK,
         i % BITS_PER_CHUNK = j % BITS_PER_CHUNK
  PROVE  i = j
  <1>1. i \in Nat /\ j \in Nat /\ BITS_PER_CHUNK \in Nat \ {0}
    BY PoolAssumption DEF Indices
  <1> QED
    BY <1>1, SamePlace, Zenon

\* setUsed() sets the bit of its cell and no other.
LEMMA setUsedMarks ==
  ASSUME NEW p \in PoolRecords, NEW i \in Indices
  PROVE  /\ setUsed(p, i) \in PoolRecords
         /\ setUsed(p, i).mNext = p.mNext
         /\ setUsed(p, i).mFreeHead = p.mFreeHead
         /\ \A j \in Indices : isUsed(setUsed(p, i), j) <=> j = i \/ isUsed(p, j)
  <1>1. i \div BITS_PER_CHUNK \in Chunks /\ i % BITS_PER_CHUNK \in ChunkBits
    BY BitOfCell
  <1>2. ASSUME NEW j \in Indices
        PROVE  isUsed(setUsed(p, i), j) <=> j = i \/ isUsed(p, j)
    <2>1. j \div BITS_PER_CHUNK \in Chunks
      BY BitOfCell
    <2> QED
      BY <1>1, <2>1, OneBit DEF isUsed, setUsed, PoolRecords
  <1> QED
    BY <1>1, <1>2 DEF setUsed, PoolRecords, ChunkBits

\* setFree() clears the bit of its cell and no other.
LEMMA setFreeUnmarks ==
  ASSUME NEW p \in PoolRecords, NEW i \in Indices
  PROVE  /\ setFree(p, i) \in PoolRecords
         /\ setFree(p, i).mNext = p.mNext
         /\ setFree(p, i).mFreeHead = p.mFreeHead
         /\ \A j \in Indices : isUsed(setFree(p, i), j) <=> j # i /\ isUsed(p, j)
  <1>1. i \div BITS_PER_CHUNK \in Chunks /\ i % BITS_PER_CHUNK \in ChunkBits
    BY BitOfCell
  <1>2. ASSUME NEW j \in Indices
        PROVE  isUsed(setFree(p, i), j) <=> j # i /\ isUsed(p, j)
    <2>1. j \div BITS_PER_CHUNK \in Chunks
      BY BitOfCell
    <2> QED
      BY <1>1, <2>1, OneBit DEF isUsed, setFree, PoolRecords
  <1> QED
    BY <1>1, <1>2 DEF setFree, PoolRecords, ChunkBits

-------------------------------------------------------------------------------
(* The free list *)

\* The cells that the bitmap marks as free.
Free(p) == {i \in Indices : ~isUsed(p, i)}

\* The free list of p passes the cells of list: all that are free, each once.
Passes(p, list, n) ==
  /\ list \in [1 .. n -> Free(p)]
  /\ \A i \in Free(p) : \E k \in 1 .. n : list[k] = i
  /\ \A k, l \in 1 .. n : list[k] = list[l] => k = l
  /\ IsFreeList(p, list, n)

\* Some list of all the free cells is what the links pass.
FreeListSound(p) == \E list : Passes(p, list, Cardinality(Free(p)))

\* Cells can be counted.
LEMMA FreeIsFinite ==
  ASSUME NEW p
  PROVE  IsFiniteSet(Free(p)) /\ Cardinality(Free(p)) \in Nat
  <1>1. IsFiniteSet(Indices)
    BY PoolAssumption, FS_Interval DEF Indices
  <1>2. Free(p) \in SUBSET Indices
    BY DEF Free
  <1> QED
    BY <1>1, <1>2, FS_Subset, FS_CardinalityType

\* The free list of a new pool passes all cells.
LEMMA FreshIsSound ==
  Fresh \in PoolRecords /\ Free(Fresh) = Indices /\ FreeListSound(Fresh)
  <1> USE PoolAssumption
  <1>1. Fresh \in PoolRecords
    BY DEF Fresh, PoolRecords, Indices, INVALID_INDEX
  <1>2. Free(Fresh) = Indices
    BY BitOfCell DEF Free, isUsed, Fresh
  <1>3. Cardinality(Indices) = Capacity
    BY FS_Interval DEF Indices
  <1> DEFINE list == [k \in 1 .. Capacity |-> k - 1]
  <1>4. Passes(Fresh, list, Capacity)
    <2>1. list \in [1 .. Capacity -> Indices]
      BY DEF Indices
    <2>2. ASSUME NEW i \in Indices PROVE \E k \in 1 .. Capacity : list[k] = i
      <3>1. i + 1 \in 1 .. Capacity /\ list[i + 1] = i
        BY DEF Indices
      <3> QED
        BY <3>1
    <2>3. \A k, l \in 1 .. Capacity : list[k] = list[l] => k = l
      OBVIOUS
    <2>4. IsFreeList(Fresh, list, Capacity)
      BY DEF IsFreeList, Fresh, Indices, INVALID_INDEX
    <2> QED
      BY <1>2, <2>1, <2>2, <2>3, <2>4 DEF Passes
  <1> QED
    BY <1>1, <1>2, <1>3, <1>4 DEF FreeListSound

\* alloc() takes the first cell of the free list.
LEMMA allocIsSound ==
  ASSUME NEW p \in PoolRecords, FreeListSound(p), p.mFreeHead # INVALID_INDEX
  PROVE  /\ alloc(p) \in PoolRecords
         /\ p.mFreeHead \in Free(p)
         /\ Free(alloc(p)) = Free(p) \ {p.mFreeHead}
         /\ FreeListSound(alloc(p))
  <1> DEFINE h == p.mFreeHead
             n == Cardinality(Free(p))
             q == alloc(p)
  <1>1. PICK list : Passes(p, list, n)
    BY DEF FreeListSound
  <1>2. h \in Indices
    BY DEF PoolRecords
  <1>3. /\ q \in PoolRecords
        /\ q.mNext = p.mNext
        /\ q.mFreeHead = p.mNext[h]
        /\ \A j \in Indices : isUsed(q, j) <=> j = h \/ isUsed(p, j)
    <2> DEFINE s == setUsed(p, h)
    <2>1. /\ s \in PoolRecords
          /\ s.mNext = p.mNext
          /\ s.mFreeHead = p.mFreeHead
          /\ \A j \in Indices : isUsed(s, j) <=> j = h \/ isUsed(p, j)
      BY <1>2, setUsedMarks
    <2>2. q = [s EXCEPT !.mFreeHead = p.mNext[h]]
      BY DEF alloc
    <2>3. p.mNext[h] \in Indices \cup {INVALID_INDEX}
      BY <1>2 DEF PoolRecords
    <2> HIDE DEF s, q
    <2> QED
      BY <2>1, <2>2, <2>3 DEF PoolRecords, isUsed
  <1>4. n \in Nat \ {0} /\ h = list[1]
    BY <1>1, FreeIsFinite DEF Passes, IsFreeList
  <1>5. h \in Free(p) /\ Free(q) = Free(p) \ {h}
    BY <1>1, <1>2, <1>3, <1>4 DEF Passes, Free
  <1>6. Cardinality(Free(q)) = n - 1
    BY <1>5, FreeIsFinite, FS_RemoveElement
  <1> HIDE DEF q, h, n
  <1> DEFINE rest == [k \in 1 .. n - 1 |-> list[k + 1]]
  <1>7. Passes(q, rest, n - 1)
    <2>1. rest \in [1 .. n - 1 -> Free(q)]
      BY <1>1, <1>4, <1>5 DEF Passes
    <2>2. ASSUME NEW i \in Free(q) PROVE \E k \in 1 .. n - 1 : rest[k] = i
      <3>1. PICK k \in 1 .. n : list[k] = i
        BY <1>1, <1>5 DEF Passes
      <3>2. k - 1 \in 1 .. n - 1 /\ rest[k - 1] = i
        BY <1>4, <1>5, <3>1
      <3> QED
        BY <3>2
    <2>3. ASSUME NEW k \in 1 .. n - 1, NEW l \in 1 .. n - 1, rest[k] = rest[l]
          PROVE  k = l
      <3>1. k + 1 \in 1 .. n /\ l + 1 \in 1 .. n /\ list[k + 1] = list[l + 1]
        BY <1>4, <2>3
      <3>2. k + 1 = l + 1
        BY <1>1, <3>1 DEF Passes
      <3> QED
        BY <3>2
    <2>4. IsFreeList(q, rest, n - 1)
      BY <1>1, <1>3, <1>4 DEF Passes, IsFreeList
    <2> QED
      BY <2>1, <2>2, <2>3, <2>4 DEF Passes
  <1> QED
    BY <1>3, <1>5, <1>6, <1>7 DEF FreeListSound, q, h

\* free() puts a cell that was in use in front of the free list.
LEMMA freeIsSound ==
  ASSUME NEW p \in PoolRecords, FreeListSound(p), NEW i \in Indices, isUsed(p, i)
  PROVE  /\ free(p, i) \in PoolRecords
         /\ Free(free(p, i)) = Free(p) \cup {i}
         /\ FreeListSound(free(p, i))
  <1> DEFINE n == Cardinality(Free(p))
             q == free(p, i)
  <1>1. PICK list : Passes(p, list, n)
    BY DEF FreeListSound
  <1>2. /\ q \in PoolRecords
        /\ q.mNext = [p.mNext EXCEPT ![i] = p.mFreeHead]
        /\ q.mFreeHead = i
        /\ \A j \in Indices : isUsed(q, j) <=> j # i /\ isUsed(p, j)
    <2> DEFINE s == setFree(p, i)
    <2>1. /\ s \in PoolRecords
          /\ s.mNext = p.mNext
          /\ s.mFreeHead = p.mFreeHead
          /\ \A j \in Indices : isUsed(s, j) <=> j # i /\ isUsed(p, j)
      BY setFreeUnmarks
    <2>2. q = [s EXCEPT !.mNext[i] = p.mFreeHead, !.mFreeHead = i]
      BY DEF free
    <2>3. p.mFreeHead \in Indices \cup {INVALID_INDEX}
      BY DEF PoolRecords
    <2> HIDE DEF s, q
    <2> QED
      BY <2>1, <2>2, <2>3 DEF PoolRecords, isUsed
  <1>3. i \notin Free(p) /\ Free(q) = Free(p) \cup {i}
    BY <1>2 DEF Free
  <1>4. Cardinality(Free(q)) = n + 1 /\ n \in Nat
    BY <1>3, FreeIsFinite, FS_AddElement
  <1> HIDE DEF q, n
  <1> DEFINE longer == [k \in 1 .. n + 1 |-> IF k = 1 THEN i ELSE list[k - 1]]
  <1>5. Passes(q, longer, n + 1)
    <2>1. longer \in [1 .. n + 1 -> Free(q)]
      BY <1>1, <1>3, <1>4 DEF Passes
    <2>2. ASSUME NEW j \in Free(q) PROVE \E k \in 1 .. n + 1 : longer[k] = j
      <3>1. CASE j = i
        BY <1>4, <3>1
      <3>2. CASE j # i
        <4>1. PICK k \in 1 .. n : list[k] = j
          BY <1>1, <1>3, <3>2 DEF Passes
        <4>2. k + 1 \in 1 .. n + 1 /\ longer[k + 1] = j
          BY <1>4, <4>1
        <4> QED
          BY <4>2
      <3> QED
        BY <3>1, <3>2
    <2>3. ASSUME NEW k \in 1 .. n + 1, NEW l \in 1 .. n + 1, longer[k] = longer[l]
          PROVE  k = l
      <3>1. \A m \in 1 .. n : list[m] # i
        BY <1>1, <1>3 DEF Passes
      <3>2. CASE k = 1 \/ l = 1
        BY <1>4, <2>3, <3>1, <3>2
      <3>3. CASE k # 1 /\ l # 1
        <4>1. k - 1 \in 1 .. n /\ l - 1 \in 1 .. n /\ list[k - 1] = list[l - 1]
          BY <1>4, <2>3, <3>3
        <4>2. k - 1 = l - 1
          BY <1>1, <4>1 DEF Passes
        <4> QED
          BY <4>2
      <3> QED
        BY <3>2, <3>3
    <2>4. IsFreeList(q, longer, n + 1)
      <3>1. longer[1] = i
        BY <1>4
      <3>2. q.mNext[i] = IF n = 0 THEN INVALID_INDEX ELSE list[1]
        BY <1>1, <1>2 DEF Passes, IsFreeList, PoolRecords
      <3>3. ASSUME NEW k \in 2 .. n + 1
            PROVE  q.mNext[longer[k]]
                     = IF k = n + 1 THEN INVALID_INDEX ELSE longer[k + 1]
        <4>1. PICK m \in 1 .. n : m = k - 1
          BY <1>4
        <4>2. longer[k] = list[m] /\ list[m] # i /\ list[m] \in Indices
          BY <1>1, <1>3, <1>4, <4>1 DEF Passes, Free
        <4>3. q.mNext[list[m]] = IF m = n THEN INVALID_INDEX ELSE list[m + 1]
          BY <1>1, <1>2, <4>2 DEF Passes, IsFreeList, PoolRecords
        <4>4. m # n => longer[k + 1] = list[m + 1]
          BY <1>4, <4>1
        <4> QED
          BY <1>4, <4>1, <4>2, <4>3, <4>4
      <3>4. n # 0 => longer[2] = list[1]
        BY <1>4
      <3> HIDE DEF longer
      <3>5. ASSUME NEW k \in 1 .. n + 1
            PROVE  q.mNext[longer[k]]
                     = IF k = n + 1 THEN INVALID_INDEX ELSE longer[k + 1]
        <4>1. CASE k = 1
          BY <1>4, <3>1, <3>2, <3>4, <4>1
        <4>2. CASE k # 1
          BY <1>4, <3>3, <4>2
        <4> QED
          BY <4>1, <4>2
      <3> QED
        BY <1>2, <1>4, <3>1, <3>5 DEF IsFreeList
    <2> QED
      BY <2>1, <2>2, <2>3, <2>4 DEF Passes
  <1> QED
    BY <1>2, <1>3, <1>4, <1>5 DEF FreeListSound, q

-------------------------------------------------------------------------------
(* The pool *)

\* What the operations preserve: the free list is complete and has no cell twice,
\* and the objects are in the cells that the bitmap marks.
PoolIInv ==
  /\ mPool \in PoolRecords
  /\ FreeListSound(mPool)
  /\ objects = {addressOf(i) : i \in Indices \ Free(mPool)}
  /\ created \in {nullptr} \cup {addressOf(i) : i \in Indices}

\* The invariant says what PoolSound says.
LEMMA PoolIInvImplies == PoolIInv => PoolSound
  <1> SUFFICES ASSUME PoolIInv PROVE PoolSound
    OBVIOUS
  <1>1. unused = Free(mPool)
    BY DEF unused, Free
  <1>2. PICK list : Passes(mPool, list, Cardinality(unused))
    BY <1>1 DEF PoolIInv, FreeListSound
  <1> QED
    BY <1>1, <1>2 DEF PoolIInv, PoolRecords, Passes, PoolSound

\* A pool that nobody has used.
LEMMA PoolIInvInit == PoolInit => PoolIInv
  BY FreshIsSound DEF PoolInit, PoolIInv

\* Every operation of the pool preserves it.
LEMMA PoolIInvStep == PoolIInv /\ [PoolNext]_poolVars => PoolIInv'
  <1> SUFFICES ASSUME PoolIInv, [PoolNext]_poolVars PROVE PoolIInv'
    OBVIOUS
  <1> USE DEF PoolIInv
  <1>1. CASE Create
    <2>1. /\ mPool' \in PoolRecords /\ FreeListSound(mPool')
          /\ mPool.mFreeHead \in Free(mPool)
          /\ Free(mPool') = Free(mPool) \ {mPool.mFreeHead}
      BY <1>1, allocIsSound DEF Create
    <2>2. mPool.mFreeHead \in Indices
      BY <2>1 DEF Free
    <2>3. objects' = objects \cup {addressOf(mPool.mFreeHead)}
          /\ created' = addressOf(mPool.mFreeHead)
      BY <1>1 DEF Create
    <2> QED
      BY <2>1, <2>2, <2>3
  <1>2. CASE Exhausted
    BY <1>2 DEF Exhausted
  <1>3. ASSUME NEW ptr \in Addresses, Destroy(ptr)
        PROVE  PoolIInv'
    <2>1. PICK i \in Indices : i = getIndex(ptr) /\ ptr = addressOf(i)
      <3>1. ptr \in Nat
        BY PoolAssumption DEF Addresses
      <3> QED
        BY <1>3, <3>1, CellOfAddress DEF Destroy, isAllocated
    <2>2. isUsed(mPool, i) /\ mPool' = free(mPool, i)
      BY <1>3, <2>1 DEF Destroy, isAllocated
    <2>3. /\ mPool' \in PoolRecords /\ FreeListSound(mPool')
          /\ Free(mPool') = Free(mPool) \cup {i}
      BY <2>2, freeIsSound
    <2>4. objects' = objects \ {addressOf(i)} /\ created' = created
      BY <1>3, <2>1 DEF Destroy
    <2>5. \A j \in Indices : addressOf(j) = addressOf(i) => j = i
      BY AddressOfCell
    <2> QED
      BY <2>1, <2>3, <2>4, <2>5
  <1>4. CASE Clear
    BY <1>4, FreshIsSound DEF Clear, Free
  <1>5. CASE UNCHANGED poolVars
    BY <1>5 DEF poolVars
  <1> QED
    BY <1>1, <1>2, <1>3, <1>4, <1>5 DEF PoolNext

\* What an operation does to the objects and returns is a step of PoolContract:
\* a cell that create() takes held no object, and it fails only if all do.
LEMMA PoolStepsAsPromised ==
  PoolIInv /\ [PoolNext]_poolVars => [PoolPromise!Next]_PoolPromise!vars
  <1> SUFFICES ASSUME PoolIInv, [PoolNext]_poolVars
               PROVE  [PoolPromise!Next]_PoolPromise!vars
    OBVIOUS
  <1> USE DEF PoolIInv
  <1>0. \A i, j \in Indices : addressOf(i) = addressOf(j) => i = j
    BY AddressOfCell
  <1>1. CASE Create
    <2>1. mPool.mFreeHead \in Free(mPool)
      BY <1>1, allocIsSound DEF Create
    <2>2. mPool.mFreeHead \in Indices
      BY <2>1 DEF Free
    <2>3. addressOf(mPool.mFreeHead) \in {addressOf(i) : i \in Indices} \ objects
      BY <1>0, <2>1, <2>2
    <2>4. PoolPromise!Create
      BY <1>1, <2>3 DEF Create, PoolPromise!Create
    <2> QED
      BY <2>4 DEF PoolPromise!Next
  <1>2. CASE Exhausted
    <2>1. PICK list : Passes(mPool, list, Cardinality(Free(mPool)))
      BY DEF FreeListSound
    <2>2. Cardinality(Free(mPool)) \in Nat
      BY FreeIsFinite
    <2>3. Cardinality(Free(mPool)) = 0
      <3>1. SUFFICES ASSUME Cardinality(Free(mPool)) # 0 PROVE FALSE
        OBVIOUS
      <3>2. list[1] \in Indices /\ list[1] = INVALID_INDEX
        BY <1>2, <2>1, <2>2, <3>1 DEF Exhausted, Passes, IsFreeList, Free
      <3> QED
        BY <3>2, AddressOfCell
    <2>4. Free(mPool) = {}
      BY <2>1, <2>3 DEF Passes
    <2>5. PoolPromise!Exhausted
      BY <1>2, <2>4 DEF Exhausted, PoolPromise!Exhausted
    <2> QED
      BY <2>5 DEF PoolPromise!Next
  <1>3. ASSUME NEW ptr \in Addresses, Destroy(ptr)
        PROVE  PoolPromise!Next
    <2>1. ptr \in objects
      <3>1. ptr \in Nat
        BY PoolAssumption DEF Addresses
      <3>2. getIndex(ptr) \in Indices /\ ptr = addressOf(getIndex(ptr))
        BY <1>3, <3>1, CellOfAddress DEF Destroy, isAllocated
      <3>3. isUsed(mPool, getIndex(ptr))
        BY <1>3 DEF Destroy, isAllocated
      <3> QED
        BY <3>2, <3>3 DEF Free
    <2>2. PoolPromise!Destroy
      BY <1>3, <2>1 DEF Destroy, PoolPromise!Destroy
    <2> QED
      BY <2>2 DEF PoolPromise!Next
  <1>4. CASE Clear
    <2>1. PoolPromise!Clear
      BY <1>4 DEF Clear, Free, PoolPromise!Clear
    <2> QED
      BY <2>1 DEF PoolPromise!Next
  <1>5. CASE UNCHANGED poolVars
    BY <1>5 DEF poolVars, PoolPromise!vars
  <1> QED
    BY <1>1, <1>2, <1>3, <1>4, <1>5 DEF PoolNext

\* The bitmap marks the cells with an object and the free list passes all the
\* others, under every sequence of create(), destroy() and clear().
THEOREM PoolStaysSound == PoolSpec => []PoolSound
  BY PoolIInvInit, PoolIInvStep, PoolIInvImplies, PTL DEF PoolSpec

\* A pool gives a cell to one owner at a time, fails only when all are in use,
\* and destroys every object once.
THEOREM PoolKeepsPromises == PoolSpec => PoolPromiseSpec
  <1>1. PoolInit => PoolPromise!Init
    BY DEF PoolInit, PoolPromise!Init
  <1> QED
    BY <1>1, PoolIInvInit, PoolIInvStep, PoolStepsAsPromised, PTL
    DEF PoolSpec, PoolPromiseSpec, PoolPromise!Spec

-------------------------------------------------------------------------------
(* The numbers of ByteRingBuffer *)

\* There is a digit, 0.
LEMMA RadixType == Radix \in Nat \ {0} /\ 0 \in Bytes
  <1>1. ByteBits \in Nat
    BY RingAssumption
  <1>2. Radix \in Nat \ {0}
    BY <1>1, PowerOfSum DEF Radix
  <1> QED
    BY <1>2 DEF Bytes

Orders == {"big", "little"}

\* A digit more, or one place less for those before it: the same number.
LEMMA Distribution ==
  \A a, b, r, w \in Nat : a * (r * w) + b * w = (a * r + b) * w
  OBVIOUS

\* The loop of _peekType(): the weights of the bytes and the sums of the first i.
LEMMA ValueOfBytes ==
  ASSUME NEW p \in Seq(Bytes), NEW order
  PROVE  \E shift \in [0 .. Len(p) -> Nat], value \in [0 .. Len(p) -> Nat] :
           /\ shift[0] = 1
           /\ \A k \in 1 .. Len(p) : shift[k] = Radix * shift[k - 1]
           /\ value[0] = 0
           /\ \A i \in 1 .. Len(p) :
                value[i] = value[i - 1]
                             + p[i] * shift[IF order = "big" THEN Len(p) - i ELSE i - 1]
           /\ valueOf(p, order) = value[Len(p)]
  <1> DEFINE n == Len(p)
             Sh(f) == [k \in 0 .. n |-> IF k = 0 THEN 1 ELSE Radix * f[k - 1]]
             shift == CHOOSE f : f = Sh(f)
             at(i) == IF order = "big" THEN n - i ELSE i - 1
             Va(f) == [i \in 0 .. n |-> IF i = 0 THEN 0
                 ELSE f[i - 1] + p[i] * shift[IF order = "big" THEN n - i ELSE i - 1]]
             value == CHOOSE f : f = Va(f)
  <1>1. n \in Nat /\ \A i \in 1 .. n : p[i] \in Nat
    BY RadixType DEF Bytes
  <1>2. valueOf(p, order) = value[n]
    BY DEF valueOf
  <1> HIDE DEF n
  <1>3. shift \in [0 .. n -> Nat] /\ shift[0] = 1
          /\ \A k \in 1 .. n : shift[k] = Radix * shift[k - 1]
    <2> DEFINE step == [k \in 1 .. n |-> [v \in Nat |-> Radix * v]]
    <2>1. step \in [1 .. n -> [Nat -> Nat]]
      BY RadixType
    <2>2. PICK f \in [0 .. n -> Nat] : f[0] = 1 /\ \A k \in 1 .. n : f[k] = step[k][f[k - 1]]
      <3> HIDE DEF step
      <3>1. 1 \in Nat
        OBVIOUS
      <3> QED
        BY <1>1, <2>1, <3>1, PrimitiveRecursion, Zenon
    <2>3. ASSUME NEW k \in 1 .. n PROVE f[k] = Radix * f[k - 1]
      <3> HIDE DEF step
      <3>1. f[k] = step[k][f[k - 1]] /\ f[k - 1] \in Nat
        BY <1>1, <2>2
      <3> QED
        BY <3>1 DEF step
    <2> HIDE DEF step
    <2>4. f = Sh(f)
      BY <1>1, <2>2, <2>3
    <2>5. shift = Sh(shift)
      <3> HIDE DEF Sh
      <3> QED
        BY <2>4, Zenon
    <2> HIDE DEF shift
    <2>6. shift[0] = 1 /\ \A k \in 1 .. n : shift[k] = Radix * shift[k - 1]
      BY <1>1, <2>5
    <2>7. \A k \in 0 .. n : shift[k] \in Nat
      <3> DEFINE T == {k \in 0 .. n : shift[k] \in Nat}
      <3>1. 0 \in T
        BY <1>1, <2>6
      <3>2. ASSUME NEW k \in 0 .. n - 1, k \in T PROVE k + 1 \in T
        <4>1. k + 1 \in 1 .. n /\ (k + 1) - 1 = k
          BY <1>1
        <4>2. shift[k + 1] = Radix * shift[k]
          BY <2>6, <4>1
        <4> QED
          BY <3>2, <4>1, <4>2, RadixType
      <3>3. 0 .. n \subseteq T
        <4> HIDE DEF T
        <4> QED
          BY <1>1, <3>1, <3>2, InductionUpTo
      <3> QED
        BY <3>3
    <2> QED
      BY <2>5, <2>6, <2>7
  <1> HIDE DEF shift
  <1>4. value \in [0 .. n -> Nat] /\ value[0] = 0
          /\ \A i \in 1 .. n : value[i] = value[i - 1] + p[i] * shift[at(i)]
    <2> DEFINE term == [i \in 1 .. n |-> p[i] * shift[at(i)]]
               step == [i \in 1 .. n |-> [v \in Nat |-> v + term[i]]]
    <2>0. \A i \in 1 .. n : term[i] \in Nat
      <3> SUFFICES ASSUME NEW i \in 1 .. n PROVE p[i] * shift[at(i)] \in Nat
        OBVIOUS
      <3>1. at(i) \in 0 .. n
        BY <1>1
      <3> HIDE DEF at
      <3>2. shift[at(i)] \in Nat /\ p[i] \in Nat
        BY <1>1, <1>3, <3>1
      <3> QED
        BY <3>2
    <2> HIDE DEF term
    <2>1. step \in [1 .. n -> [Nat -> Nat]]
      BY <2>0
    <2>2. PICK f \in [0 .. n -> Nat] : f[0] = 0 /\ \A i \in 1 .. n : f[i] = step[i][f[i - 1]]
      <3> HIDE DEF step
      <3>1. 0 \in Nat
        OBVIOUS
      <3> QED
        BY <1>1, <2>1, <3>1, PrimitiveRecursion, Zenon
    <2>3. ASSUME NEW i \in 1 .. n PROVE f[i] = f[i - 1] + p[i] * shift[at(i)]
      <3> HIDE DEF step
      <3>1. f[i] = step[i][f[i - 1]] /\ f[i - 1] \in Nat
        BY <1>1, <2>2
      <3>2. f[i] = f[i - 1] + term[i]
        BY <3>1 DEF step
      <3> QED
        BY <3>2 DEF term
    <2> HIDE DEF step
    <2>4. f = Va(f)
      BY <1>1, <2>2, <2>3
    <2>5. value = Va(value)
      <3> HIDE DEF Va
      <3> QED
        BY <2>4, Zenon
    <2> HIDE DEF value
    <2>6. value[0] = 0 /\ \A i \in 1 .. n : value[i] = value[i - 1] + p[i] * shift[at(i)]
      BY <1>1, <2>5
    <2>7. \A i \in 0 .. n : value[i] \in Nat
      <3> DEFINE T == {i \in 0 .. n : value[i] \in Nat}
      <3>1. 0 \in T
        BY <1>1, <2>6
      <3>2. ASSUME NEW i \in 0 .. n - 1, i \in T PROVE i + 1 \in T
        <4>1. i + 1 \in 1 .. n /\ (i + 1) - 1 = i
          BY <1>1
        <4>2. value[i + 1] = value[i] + term[i + 1]
          BY <2>6, <4>1 DEF term
        <4> QED
          BY <2>0, <3>2, <4>1, <4>2
      <3>3. 0 .. n \subseteq T
        <4> HIDE DEF T
        <4> QED
          BY <1>1, <3>1, <3>2, InductionUpTo
      <3> QED
        BY <3>3
    <2> QED
      BY <2>5, <2>6, <2>7
  <1> HIDE DEF value
  <1> QED
    BY <1>2, <1>3, <1>4 DEF n

\* The number of a stream: what its first k digits spell.
LEMMA NumberOfBytes ==
  ASSUME NEW p \in Seq(Bytes), NEW order
  PROVE  \E number \in [0 .. Len(p) -> Nat] :
           /\ number[0] = 0
           /\ \A k \in 1 .. Len(p) :
                number[k] = number[k - 1] * Radix
                              + p[IF order = "big" THEN k ELSE Len(p) - k + 1]
           /\ RingPromise!Number(p, order) = number[Len(p)]
  <1> DEFINE n == Len(p)
             digit(k) == p[IF order = "big" THEN k ELSE n - k + 1]
             Nu(f) == [k \in 0 .. n |-> IF k = 0 THEN 0
                 ELSE f[k - 1] * Radix + p[IF order = "big" THEN k ELSE n - k + 1]]
             number == CHOOSE f : f = Nu(f)
             step == [k \in 1 .. n |-> [v \in Nat |-> v * Radix + digit(k)]]
  <1>1. n \in Nat /\ \A k \in 1 .. n : digit(k) \in Nat
    BY RadixType DEF Bytes
  <1>2. RingPromise!Number(p, order) = number[n]
    BY DEF RingPromise!Number
  <1> HIDE DEF n
  <1>3. step \in [1 .. n -> [Nat -> Nat]]
    <2> HIDE DEF digit
    <2> QED
      BY <1>1, RadixType
  <1>4. PICK f \in [0 .. n -> Nat] : f[0] = 0 /\ \A k \in 1 .. n : f[k] = step[k][f[k - 1]]
    <2> HIDE DEF step
    <2>1. 0 \in Nat
      OBVIOUS
    <2> QED
      BY <1>1, <1>3, <2>1, PrimitiveRecursion, Zenon
  <1>5. ASSUME NEW k \in 1 .. n PROVE f[k] = f[k - 1] * Radix + digit(k)
    <2> HIDE DEF digit, step
    <2>1. f[k] = step[k][f[k - 1]] /\ f[k - 1] \in Nat
      BY <1>1, <1>4
    <2> QED
      BY <2>1 DEF step
  <1> HIDE DEF step
  <1>6. f = Nu(f)
    BY <1>1, <1>4, <1>5
  <1>7. number = Nu(number)
    <2> HIDE DEF Nu
    <2> QED
      BY <1>6, Zenon
  <1> HIDE DEF number
  <1>8. number[0] = 0 /\ \A k \in 1 .. n : number[k] = number[k - 1] * Radix + digit(k)
    BY <1>1, <1>7
  <1>9. \A k \in 0 .. n : number[k] \in Nat
    <2> HIDE DEF digit
    <2> DEFINE T == {k \in 0 .. n : number[k] \in Nat}
    <2>1. 0 \in T
      BY <1>1, <1>8
    <2>2. ASSUME NEW k \in 0 .. n - 1, k \in T PROVE k + 1 \in T
      <3>1. k + 1 \in 1 .. n /\ (k + 1) - 1 = k
        BY <1>1
      <3>2. number[k + 1] = number[k] * Radix + digit(k + 1)
        BY <1>8, <3>1
      <3>3. number[k] \in Nat /\ digit(k + 1) \in Nat
        BY <1>1, <2>2, <3>1
      <3>4. number[k] * Radix + digit(k + 1) \in Nat
        BY <3>3, RadixType
      <3>5. k + 1 \in 0 .. n
        BY <1>1, <3>1
      <3> QED
        BY <3>2, <3>4, <3>5
    <2>3. 0 .. n \subseteq T
      <3> HIDE DEF T
      <3> QED
        BY <1>1, <2>1, <2>2, InductionUpTo
    <2> QED
      BY <2>3
  <1>10. number \in [0 .. n -> Nat]
    BY <1>7, <1>9
  <1> HIDE DEF Nu
  <1> QED
    BY <1>2, <1>8, <1>10 DEF n

\* The loop of _peekType() finds the number that the bytes spell, however many
\* they are: the loop adds them first to last, and the number begins at the highest.
LEMMA ValueIsNumber ==
  ASSUME NEW p \in Seq(Bytes), NEW order \in Orders
  PROVE  valueOf(p, order) = RingPromise!Number(p, order)
  <1> DEFINE n == Len(p)
             at(i) == IF order = "big" THEN n - i ELSE i - 1
             digit(k) == p[IF order = "big" THEN k ELSE n - k + 1]
  <1>1. n \in Nat /\ \A i \in 1 .. n : p[i] \in Nat
    BY RadixType DEF Bytes
  <1>2. PICK shift \in [0 .. n -> Nat], value \in [0 .. n -> Nat] :
          /\ shift[0] = 1
          /\ \A k \in 1 .. n : shift[k] = Radix * shift[k - 1]
          /\ value[0] = 0
          /\ \A i \in 1 .. n : value[i] = value[i - 1] + p[i] * shift[at(i)]
          /\ valueOf(p, order) = value[n]
    BY ValueOfBytes, Zenon
  <1>3. PICK number \in [0 .. n -> Nat] :
          /\ number[0] = 0
          /\ \A k \in 1 .. n : number[k] = number[k - 1] * Radix + digit(k)
          /\ RingPromise!Number(p, order) = number[n]
    BY NumberOfBytes, Zenon
  <1> HIDE DEF n
  <1>4. CASE order = "big"
    <2> DEFINE T == {k \in 0 .. n : value[k] = number[k] * shift[n - k]}
    <2>1. 0 \in T
      BY <1>1, <1>2, <1>3
    <2>2. ASSUME NEW k \in 0 .. n - 1, k \in T PROVE k + 1 \in T
      <3>1. /\ k \in 0 .. n /\ k + 1 \in 1 .. n /\ (k + 1) - 1 = k
            /\ n - k \in 1 .. n /\ (n - k) - 1 \in 0 .. n /\ (n - k) - 1 = n - (k + 1)
        BY <1>1
      <3>2. value[k + 1] = value[k] + p[k + 1] * shift[n - (k + 1)]
        BY <1>2, <1>4, <3>1
      <3>3. shift[n - k] = Radix * shift[n - (k + 1)]
        BY <1>2, <3>1
      <3>4. number[k + 1] = number[k] * Radix + p[k + 1]
        BY <1>3, <1>4, <3>1
      <3>5. number[k] \in Nat /\ p[k + 1] \in Nat /\ shift[n - (k + 1)] \in Nat
        BY <1>1, <1>2, <1>3, <3>1
      <3>6. value[k] = number[k] * (Radix * shift[n - (k + 1)])
        BY <2>2, <3>3
      <3>7. value[k + 1] = number[k + 1] * shift[n - (k + 1)]
        <4>1. number[k] * (Radix * shift[n - (k + 1)]) + p[k + 1] * shift[n - (k + 1)]
                = (number[k] * Radix + p[k + 1]) * shift[n - (k + 1)]
          <5> DEFINE a == number[k]
                     b == p[k + 1]
                     w == shift[n - (k + 1)]
          <5>1. a \in Nat /\ b \in Nat /\ w \in Nat /\ Radix \in Nat
            BY <3>5, RadixType
          <5> HIDE DEF a, b, w
          <5>2. a * (Radix * w) + b * w = (a * Radix + b) * w
            BY <5>1, Distribution
          <5> QED
            BY <5>2 DEF a, b, w
        <4> QED
          BY <3>2, <3>4, <3>6, <4>1, Zenon
      <3> QED
        BY <3>1, <3>7
    <2>3. n \in T
      <3> HIDE DEF T
      <3>1. 0 .. n \subseteq T
        BY <1>1, <2>1, <2>2, InductionUpTo
      <3> QED
        BY <1>1, <3>1
    <2>4. value[n] = number[n] * 1
      BY <1>1, <1>2, <2>3
    <2> QED
      BY <1>1, <1>2, <1>3, <2>4
  <1>5. CASE order = "little"
    <2> DEFINE T == {k \in 0 .. n : number[k] * shift[n - k] + value[n - k] = value[n]}
    <2>1. 0 \in T
      BY <1>1, <1>2, <1>3
    <2>2. ASSUME NEW k \in 0 .. n - 1, k \in T PROVE k + 1 \in T
      <3>1. /\ k \in 0 .. n /\ k + 1 \in 1 .. n /\ (k + 1) - 1 = k
            /\ n - k \in 1 .. n /\ (n - k) - 1 \in 0 .. n /\ (n - k) - 1 = n - (k + 1)
            /\ n - (k + 1) + 1 = n - k
        BY <1>1
      <3>2. value[n - k] = value[n - (k + 1)] + p[n - k] * shift[n - (k + 1)]
        BY <1>2, <1>5, <3>1
      <3>3. shift[n - k] = Radix * shift[n - (k + 1)]
        BY <1>2, <3>1
      <3>4. number[k + 1] = number[k] * Radix + p[n - k]
        <4>1. digit(k + 1) = p[n - k]
          <5>1. digit(k + 1) = p[n - (k + 1) + 1]
            BY <1>5
          <5> HIDE DEF digit
          <5> QED
            BY <3>1, <5>1, Zenon
        <4>2. number[k + 1] = number[(k + 1) - 1] * Radix + digit(k + 1)
          <5> HIDE DEF digit
          <5> QED
            BY <1>3, <3>1
        <4> QED
          BY <3>1, <4>1, <4>2
      <3>5. /\ number[k] \in Nat /\ p[n - k] \in Nat /\ shift[n - (k + 1)] \in Nat
            /\ value[n - (k + 1)] \in Nat
        BY <1>1, <1>2, <1>3, <3>1
      <3>6. number[k] * (Radix * shift[n - (k + 1)]) + value[n - k] = value[n]
        BY <2>2, <3>3
      <3>7. number[k + 1] * shift[n - (k + 1)]
              = number[k] * (Radix * shift[n - (k + 1)]) + p[n - k] * shift[n - (k + 1)]
        <4>1. number[k] * (Radix * shift[n - (k + 1)]) + p[n - k] * shift[n - (k + 1)]
                = (number[k] * Radix + p[n - k]) * shift[n - (k + 1)]
          <5> DEFINE a == number[k]
                     b == p[n - k]
                     w == shift[n - (k + 1)]
          <5>1. a \in Nat /\ b \in Nat /\ w \in Nat /\ Radix \in Nat
            BY <3>5, RadixType
          <5> HIDE DEF a, b, w
          <5>2. a * (Radix * w) + b * w = (a * Radix + b) * w
            BY <5>1, Distribution
          <5> QED
            BY <5>2 DEF a, b, w
        <4> QED
          BY <3>4, <4>1, Zenon
      <3>8. number[k + 1] * shift[n - (k + 1)] + value[n - (k + 1)] = value[n]
        <4> DEFINE a == number[k] * (Radix * shift[n - (k + 1)])
                   b == p[n - k] * shift[n - (k + 1)]
                   c == number[k + 1] * shift[n - (k + 1)]
                   v == value[n - (k + 1)]
        <4>0. \A x, y \in Nat : x * y \in Nat
          OBVIOUS
        <4>1. a \in Nat /\ b \in Nat /\ v \in Nat
          BY <3>5, <4>0, RadixType
        <4>2. c = a + b /\ value[n - k] = v + b /\ a + value[n - k] = value[n]
          BY <3>2, <3>6, <3>7
        <4> HIDE DEF a, b, c, v
        <4>3. c + v = value[n]
          BY <4>1, <4>2
        <4> QED
          BY <4>3 DEF c, v
      <3> QED
        BY <3>1, <3>8
    <2>3. n \in T
      <3> HIDE DEF T
      <3>1. 0 .. n \subseteq T
        BY <1>1, <2>1, <2>2, InductionUpTo
      <3> QED
        BY <1>1, <3>1
    <2>4. number[n] * 1 + 0 = value[n]
      BY <1>1, <1>2, <2>3
    <2> QED
      BY <1>1, <1>2, <1>3, <2>4
  <1> QED
    BY <1>4, <1>5 DEF Orders

-------------------------------------------------------------------------------
(* The bytes of a number *)

\* extract_dynamic() of a field that the type has: shift, then take the low bits.
LEMMA ExtractShifts ==
  ASSUME NEW data \in Nat, NEW offset \in Nat, NEW width \in Nat,
         offset < TypeBits, width <= TypeBits
  PROVE  extract_dynamic(data, offset, width)
           = (data \div PowerOf2(offset)) % PowerOf2(width)
  <1>1. mask_dynamic(width) = PowerOf2(width) - 1
    <2>1. width >= TypeBits => width = TypeBits
      BY TypeBitsAssumption
    <2> QED
      BY <2>1, Zenon DEF mask_dynamic
  <1>2. PICK x \in Nat : x = data \div PowerOf2(offset)
    <2>1. PowerOf2(offset) \in Nat \ {0}
      BY PowerOfSum
    <2> QED
      BY <2>1, QuotientType
  <1>3. TypeBits \in Nat /\ width \in 0 .. TypeBits
    BY TypeBitsAssumption
  <1>4. And(TypeBits, x, PowerOf2(width) - 1) = x % PowerOf2(width)
    BY <1>3, AndMask
  <1>5. ~(offset >= TypeBits)
    BY <1>3
  <1> QED
    BY <1>1, <1>2, <1>4, <1>5, Zenon DEF extract_dynamic

\* What has more digits by one is greater by less than one of the first's units.
LEMMA NextDigit ==
  ASSUME NEW w \in Nat \ {0}, NEW r \in Nat \ {0}, NEW h \in Nat,
         NEW rest \in 0 .. w - 1, NEW d \in 0 .. r - 1
  PROVE  /\ (h * w + rest) * r + d = h * (w * r) + (rest * r + d)
         /\ rest * r + d \in 0 .. (w * r) - 1
  <1>1. (h * w + rest) * r + d = h * (w * r) + (rest * r + d)
    OBVIOUS
  <1>2. PICK e \in Nat : w = rest + 1 + e
    <2>1. w - rest - 1 \in Nat /\ w = rest + 1 + (w - rest - 1)
      OBVIOUS
    <2> QED
      BY <2>1
  <1>3. w * r = rest * r + r + e * r /\ e * r \in Nat /\ rest * r \in Nat
    BY <1>2
  <1>4. PICK a \in Nat, b \in Nat, c \in Nat : a = rest * r /\ b = e * r /\ c = w * r
    BY <1>3, ProductType
  <1>5. a + d \in 0 .. c - 1
    BY <1>3, <1>4
  <1> QED
    BY <1>1, <1>4, <1>5

\* Byte i of a number, counted from the low end, is the digit with weight i - 1.
LEMMA DigitOfNumber ==
  ASSUME NEW p \in Seq(Bytes), NEW order, NEW i \in 1 .. Len(p)
  PROVE  /\ RingPromise!Number(p, order) \in Nat
         /\ (RingPromise!Number(p, order) \div PowerOf2((i - 1) * ByteBits)) % Radix
              = p[IF order = "big" THEN Len(p) - i + 1 ELSE i]
  <1> DEFINE n == Len(p)
             digit(k) == p[IF order = "big" THEN k ELSE n - k + 1]
             m == n - i + 1
             W(j) == PowerOf2(j * ByteBits)
  <1>1. n \in Nat /\ \A k \in 1 .. n : digit(k) \in 0 .. Radix - 1
    <2>1. n \in Nat
      OBVIOUS
    <2>2. ASSUME NEW k \in 1 .. n PROVE digit(k) \in 0 .. Radix - 1
      <3>1. PICK l \in 1 .. n : l = IF order = "big" THEN k ELSE n - k + 1
        BY <2>1
      <3>2. p[l] \in Bytes
        OBVIOUS
      <3> QED
        BY <3>1, <3>2 DEF Bytes
    <2> QED
      BY <2>1, <2>2
  <1>2. PICK number \in [0 .. n -> Nat] :
          /\ \A k \in 1 .. n : number[k] = number[k - 1] * Radix + digit(k)
          /\ RingPromise!Number(p, order) = number[n]
    BY NumberOfBytes, Zenon
  <1>3. digit(m) = p[IF order = "big" THEN n - i + 1 ELSE i]
    BY <1>1
  <1> HIDE DEF n, digit
  <1>4. /\ m \in 1 .. n /\ m - 1 \in 0 .. n /\ m \in 0 .. n /\ n - m = i - 1
        /\ i - 1 \in Nat /\ m + (i - 1) = n /\ m \in Nat
    BY <1>1 DEF n
  <1> HIDE DEF m
  <1>5. \A j \in Nat : W(j) \in Nat \ {0} /\ W(j + 1) = W(j) * Radix
    <2> TAKE j \in Nat
    <2>1. PICK b \in Nat, a \in Nat : b = ByteBits /\ a = j * b
      BY RingAssumption, ProductType
    <2>2. (j + 1) * b = a + b
      BY <2>1
    <2>3. PowerOf2(a + b) = PowerOf2(a) * PowerOf2(b) /\ PowerOf2(a) \in Nat \ {0}
      BY PowerOfSum
    <2> QED
      BY <2>1, <2>2, <2>3 DEF Radix
  <1>6. W(0) = 1
    <2>1. 0 * ByteBits = 0
      BY RingAssumption
    <2> QED
      BY <2>1, PowerDoubles
  <1> HIDE DEF W
  <1> DEFINE T == {j \in 0 .. i - 1 :
                     \E rest \in 0 .. W(j) - 1 : number[m + j] = number[m] * W(j) + rest}
  <1>7. 0 \in T
    <2>1. number[m] \in Nat /\ m + 0 = m
      BY <1>4
    <2>2. number[m] = number[m] * 1 + 0
      BY <2>1
    <2> QED
      BY <1>4, <1>6, <2>1, <2>2
  <1>8. ASSUME NEW j \in 0 .. (i - 1) - 1, j \in T PROVE j + 1 \in T
    <2>1. PICK rest \in 0 .. W(j) - 1 : number[m + j] = number[m] * W(j) + rest
      BY <1>8
    <2>2. /\ j \in Nat /\ j + 1 \in 0 .. i - 1 /\ m + (j + 1) \in 1 .. n
          /\ (m + (j + 1)) - 1 = m + j
      BY <1>1, <1>4
    <2> HIDE DEF T
    <2>3. number[m + (j + 1)] = number[m + j] * Radix + digit(m + (j + 1))
      BY <1>2, <2>2
    <2>4. PICK h \in Nat, w \in Nat \ {0}, r \in Nat \ {0}, d \in 0 .. Radix - 1 :
            h = number[m] /\ w = W(j) /\ r = Radix /\ d = digit(m + (j + 1))
      BY <1>1, <1>4, <1>5, <2>2, RadixType
    <2>5. number[m + (j + 1)] = (h * w + rest) * r + d
      BY <2>1, <2>3, <2>4
    <2>6. /\ (h * w + rest) * r + d = h * (w * r) + (rest * r + d)
          /\ rest * r + d \in 0 .. (w * r) - 1
      <3>1. rest \in 0 .. w - 1 /\ d \in 0 .. r - 1
        BY <2>4
      <3> QED
        BY ONLY <3>1, h \in Nat, w \in Nat \ {0}, r \in Nat \ {0}, NextDigit
    <2>7. W(j + 1) = w * r
      BY <1>5, <2>2, <2>4
    <2>8. number[m + (j + 1)] = number[m] * W(j + 1) + (rest * r + d)
      BY <2>4, <2>5, <2>6, <2>7, Zenon
    <2> QED
      BY <2>2, <2>6, <2>7, <2>8, Zenon DEF T
  <1>9. i - 1 \in T
    <2> HIDE DEF T
    <2>1. 0 .. i - 1 \subseteq T
      BY <1>4, <1>7, <1>8, InductionUpTo
    <2> QED
      BY <1>4, <2>1
  <1>10. PICK rest \in 0 .. W(i - 1) - 1 : number[n] = number[m] * W(i - 1) + rest
    BY <1>4, <1>9
  <1> HIDE DEF T
  <1>11. number[n] \div W(i - 1) = number[m]
    <2>1. PICK q \in Nat, w \in Nat \ {0}, a \in Nat :
            q = number[m] /\ w = W(i - 1) /\ a = number[n]
      <3>1. W(i - 1) \in Nat \ {0}
        BY <1>4, <1>5, Zenon
      <3>2. n \in 0 .. n
        BY <1>1
      <3>3. number[m] \in Nat /\ number[n] \in Nat
        BY <1>4, <3>2, Zenon
      <3> QED
        BY <3>1, <3>3
    <2>2. a = q * w + rest /\ rest \in 0 .. w - 1
      BY <1>10, <2>1
    <2>3. a \div w = q
      BY <2>2, Quotient, Zenon
    <2> QED
      BY <2>1, <2>3
  <1>12. number[m] % Radix = digit(m)
    <2>1. PICK q \in Nat, a \in Nat, d \in 0 .. Radix - 1 :
            q = number[m - 1] /\ a = number[m] /\ d = digit(m)
      BY <1>1, <1>4
    <2>2. a = q * Radix + d
      BY <1>2, <1>4, <2>1
    <2>3. a % Radix = d
      BY <2>2, Quotient, RadixType
    <2> QED
      BY <2>1, <2>3
  <1>13. number[n] \in Nat
    BY <1>1
  <1> QED
    BY <1>2, <1>3, <1>11, <1>12, <1>13, Zenon DEF W, n

-------------------------------------------------------------------------------
(* ByteRingBuffer *)

USE RingAssumption

LEMMA RingInitTyped == RingInit => RingWellFormed
  BY RadixType, RemainderRange DEF RingInit, RingWellFormed, Cells

\* _drop() of bytes that are there.
LEMMA DropKeeps ==
  ASSUME RingWellFormed, NEW n \in 0 .. ring.mSize, ring' = _drop(ring, n)
  PROVE  RingWellFormed'
  <1>1. PICK m \in Nat, f \in Nat : m = ring.mSize /\ f = ring.mFront
    BY DEF RingWellFormed, Cells
  <1>2. (f + n) % RingCapacity \in Cells
        /\ (((f + n) % RingCapacity) + (m - n)) % RingCapacity = (f + m) % RingCapacity
    <2>1. RingCapacity \in Nat \ {0} /\ n \in 0 .. m
      BY <1>1
    <2> HIDE RingAssumption
    <2>2. /\ (f + n) % RingCapacity \in 0 .. RingCapacity - 1
          /\ (((f + n) % RingCapacity) + (m - n)) % RingCapacity = (f + m) % RingCapacity
      BY <2>1, FrontMoves, Zenon
    <2> QED
      BY <2>2, Zenon DEF Cells
  <1>3. ring' = [ring EXCEPT !.mFront = (f + n) % RingCapacity, !.mSize = m - n]
    BY <1>1 DEF _drop, RingWellFormed
  <1>4. m - n \in 0 .. RingCapacity
    BY <1>1 DEF RingWellFormed
  <1> QED
    BY <1>1, <1>2, <1>3, <1>4 DEF RingWellFormed

\* _peek() returns as many bytes as there are, at most n.
LEMMA PeekLength ==
  ASSUME RingWellFormed, NEW offset \in Nat, NEW n \in Nat
  PROVE  Len(_peek(ring, offset, n))
           = IF offset >= ring.mSize THEN 0 ELSE LesserOf(n, ring.mSize - offset)
  BY DEF RingWellFormed, _peek, LesserOf

\* write(): both copies stay in the buffer.
LEMMA WriteKeeps ==
  ASSUME RingWellFormed, NEW n \in Nat, NEW buf \in [1 .. n -> Bytes], write(buf)
  PROVE  RingWellFormed'
  <1> DEFINE k == LesserOf(Len(buf), RingCapacity - ring.mSize)
  <1>1. Len(buf) = n
    OBVIOUS
  <1>2. k \in 0 .. n /\ ring.mSize + k \in 0 .. RingCapacity
    BY <1>1 DEF LesserOf, RingWellFormed
  <1>3. copyIn(ring, buf, k) \in [Cells -> Bytes]
    <2> DEFINE first == LesserOf(k, RingCapacity - ring.mRear)
    <2> HIDE DEF k
    <2>1. first \in 0 .. k
      <3>1. RingCapacity - ring.mRear \in Nat /\ k \in Nat
        BY <1>2 DEF RingWellFormed, Cells
      <3> QED
        BY <3>1 DEF LesserOf
    <2> HIDE DEF first
    <2>2. ASSUME NEW i \in Cells, i \in ring.mRear .. ring.mRear + first - 1
          PROVE  buf[i - ring.mRear + 1] \in Bytes
      <3>1. PICK r \in Nat : r = ring.mRear
        BY DEF RingWellFormed, Cells
      <3>2. i - r + 1 \in 1 .. n
        BY <1>2, <2>1, <2>2, <3>1 DEF Cells
      <3> QED
        BY <3>1, <3>2
    <2>3. ASSUME NEW i \in Cells, i < k - first
          PROVE  buf[first + i + 1] \in Bytes
      BY <1>2, <2>1, <2>3 DEF Cells
    <2>4. \A i \in Cells : ring.mData[i] \in Bytes
      BY DEF RingWellFormed
    <2> QED
      BY <2>2, <2>3, <2>4 DEF copyIn, first
  <1> HIDE DEF k
  <1>4. PICK m \in Nat, f \in Nat : m = ring.mSize /\ f = ring.mFront
    BY DEF RingWellFormed, Cells
  <1>5. (((f + m) % RingCapacity) + k) % RingCapacity = (f + (m + k)) % RingCapacity
        /\ (((f + m) % RingCapacity) + k) % RingCapacity \in Cells
    <2>1. PICK j \in Nat : j = k
      BY <1>2
    <2>2. RingCapacity \in Nat \ {0}
      OBVIOUS
    <2> HIDE RingAssumption
    <2>3. /\ (((f + m) % RingCapacity) + j) % RingCapacity = (f + (m + j)) % RingCapacity
          /\ (((f + m) % RingCapacity) + j) % RingCapacity \in 0 .. RingCapacity - 1
      BY <2>2, RearMoves, Zenon
    <2> QED
      BY <2>1, <2>3 DEF Cells
  <1>7. ring' = [mData |-> copyIn(ring, buf, k), mSize |-> ring.mSize + k,
                 mFront |-> ring.mFront, mRear |-> (ring.mRear + k) % RingCapacity]
    BY DEF write, k
  <1> QED
    BY <1>2, <1>3, <1>4, <1>5, <1>7 DEF RingWellFormed

\* Every operation of the ring preserves its shape.
LEMMA RingStep == RingWellFormed /\ [RingNext]_ringVars => RingWellFormed'
  <1> SUFFICES ASSUME RingWellFormed, [RingNext]_ringVars
               PROVE  RingWellFormed'
    OBVIOUS
  <1>1. ASSUME NEW n \in Lengths, NEW buf \in [1 .. n -> Bytes], write(buf)
        PROVE  RingWellFormed'
    BY <1>1, WriteKeeps DEF Lengths
  <1>2. ASSUME NEW n \in Lengths, peek(n)
        PROVE  RingWellFormed'
    BY <1>2 DEF peek, RingWellFormed
  <1>3. ASSUME NEW n \in Lengths, read(n)
        PROVE  RingWellFormed'
    <2>1. Len(_peek(ring, 0, n)) \in 0 .. ring.mSize
      BY PeekLength DEF Lengths, LesserOf, RingWellFormed
    <2> QED
      BY <1>3, <2>1, DropKeeps DEF read
  <1>4. ASSUME NEW n \in Lengths, drop(n)
        PROVE  RingWellFormed'
    <2>1. CASE ring.mSize < n
      BY <1>4, <2>1 DEF drop, RingWellFormed
    <2>2. CASE ~(ring.mSize < n)
      <3>1. n \in 0 .. ring.mSize
        BY <2>2 DEF Lengths, RingWellFormed
      <3> QED
        BY <1>4, <2>2, <3>1, DropKeeps DEF drop
    <2> QED
      BY <2>1, <2>2
  <1>5. ASSUME NEW width \in Widths, NEW order, readType(width, order)
        PROVE  RingWellFormed'
    <2>1. CASE Len(_peek(ring, 0, width)) = width
      <3>1. width \in 0 .. ring.mSize
        BY <2>1, PeekLength DEF LesserOf, RingWellFormed
      <3> QED
        BY <1>5, <2>1, <3>1, DropKeeps DEF readType
    <2>2. CASE Len(_peek(ring, 0, width)) # width
      BY <1>5, <2>2 DEF readType, RingWellFormed
    <2> QED
      BY <2>1, <2>2
  <1>6. ASSUME NEW width, NEW order, NEW offset, peekType(offset, width, order)
        PROVE  RingWellFormed'
    BY <1>6 DEF peekType, RingWellFormed
  <1>7. CASE UNCHANGED ringVars
    BY <1>7 DEF ringVars, RingWellFormed
  <1> QED
    BY <1>1, <1>2, <1>3, <1>4, <1>5, <1>6, <1>7 DEF RingNext
-------------------------------------------------------------------------------
(* The stream *)

\* The bytes of the ring, oldest first.
Stream == [k \in 1 .. ring.mSize |-> ring.mData[(ring.mFront + k - 1) % RingCapacity]]

LEMMA StreamType ==
  ASSUME RingWellFormed
  PROVE  /\ Stream \in Seq(Bytes)
         /\ Len(Stream) = ring.mSize
         /\ DOMAIN Stream = 1 .. ring.mSize
  <1>1. ASSUME NEW k \in 1 .. ring.mSize
        PROVE  ring.mData[(ring.mFront + k - 1) % RingCapacity] \in Bytes
    <2>1. PICK i \in Nat : i = ring.mFront + k - 1
      BY DEF RingWellFormed, Cells
    <2>2. i % RingCapacity \in Cells
      BY RemainderRange DEF Cells
    <2> QED
      BY <2>1, <2>2 DEF RingWellFormed
  <1>2. ring.mSize \in Nat
    BY DEF RingWellFormed
  <1> QED
    BY <1>1, <1>2 DEF Stream

\* _peek() of an offset that is not past the end.
LEMMA PeekInside ==
  ASSUME RingWellFormed, NEW offset \in Nat, NEW n, offset < ring.mSize
  PROVE  LET c == LesserOf(n, ring.mSize - offset)
             start == (ring.mFront + offset) % RingCapacity
             first == LesserOf(c, RingCapacity - start)
         IN _peek(ring, offset, n)
              = [k \in 1 .. c |-> IF k <= first THEN ring.mData[start + k - 1]
                                              ELSE ring.mData[k - first - 1]]
  <1>1. ~(offset >= ring.mSize)
    BY DEF RingWellFormed
  <1> QED
    BY <1>1, Zenon DEF _peek

\* _peek() finds the bytes of the stream, whether it wraps or not.
LEMMA PeekedByte ==
  ASSUME RingWellFormed, NEW offset \in Nat, NEW n \in Nat, offset < ring.mSize,
         NEW k \in 1 .. LesserOf(n, ring.mSize - offset)
  PROVE  _peek(ring, offset, n)[k] = Stream[offset + k]
  <1>1. PICK f \in Nat, m \in Nat, c \in Nat, b \in Nat \ {0} :
          /\ f = ring.mFront /\ m = ring.mSize /\ b = RingCapacity
          /\ c = LesserOf(n, ring.mSize - offset)
    BY DEF RingWellFormed, Cells, LesserOf
  <1>2. f < b /\ m <= b /\ offset + c <= m /\ k \in 1 .. c /\ offset < m
    <2>1. f < b /\ m <= b
      BY <1>1 DEF RingWellFormed, Cells
    <2>2. c = IF n <= m - offset THEN n ELSE m - offset
      BY <1>1 DEF LesserOf
    <2>3. offset < m /\ k \in 1 .. c
      BY <1>1
    <2> QED
      BY <2>1, <2>2, <2>3
  <1>3. PICK e \in Nat : e = f + offset
    OBVIOUS
  <1>4. PICK s \in 0 .. b - 1 : s = e % b
    BY RemainderRange
  <1>5. (f + (offset + k) - 1) % b = IF s + k - 1 < b THEN s + k - 1 ELSE s + k - 1 - b
    <2>1. PICK j \in Nat : j = k - 1
      BY <1>2
    <2>2. ((e % b) + j) % b = (e + j) % b
      BY RemainderOfSum, ZenonT(30)
    <2>3. PICK a \in Nat : a = s + j
      OBVIOUS
    <2>4. a % b = IF a < b THEN a ELSE a - b
      <3>1. a < b + b
        BY <1>2, <1>4, <2>1, <2>3
      <3> QED
        BY <3>1, WrapOnce
    <2>5. e + j = f + (offset + k) - 1 /\ s + j = s + k - 1
      BY <1>2, <1>3, <2>1
    <2> QED
      BY <1>4, <2>1, <2>2, <2>3, <2>4, <2>5
  <1>6. Stream[offset + k] = ring.mData[(f + (offset + k) - 1) % b]
    BY <1>1, <1>2 DEF Stream
  <1> DEFINE first == LesserOf(c, b - s)
  <1>7. _peek(ring, offset, n)[k]
          = IF k <= first THEN ring.mData[s + k - 1] ELSE ring.mData[k - first - 1]
    <2> DEFINE d == LesserOf(n, ring.mSize - offset)
               start == (ring.mFront + offset) % RingCapacity
               g == LesserOf(d, RingCapacity - start)
    <2>1. _peek(ring, offset, n)
            = [i \in 1 .. d |-> IF i <= g THEN ring.mData[start + i - 1]
                                        ELSE ring.mData[i - g - 1]]
      BY PeekInside, Zenon
    <2>2. d = c /\ start = s /\ g = first
      BY <1>1, <1>3, <1>4
    <2> HIDE DEF d, start, g, first
    <2> QED
      BY <1>2, <2>1, <2>2
  <1>8. (k <= first <=> s + k - 1 < b) /\ (~(k <= first) => k - first - 1 = s + k - 1 - b)
    BY <1>2, <1>4 DEF LesserOf
  <1> QED
    BY <1>5, <1>6, <1>7, <1>8

\* _peek() returns a part of the stream.
LEMMA PeekIsPart ==
  ASSUME RingWellFormed, NEW offset \in Nat, NEW n \in Nat
  PROVE  /\ _peek(ring, offset, n) = RingPromise!Part(Stream, offset, n)
         /\ _peek(ring, offset, n) \in Seq(Bytes)
  <1> DEFINE m == ring.mSize
             s == Stream
             p == _peek(ring, offset, n)
             last == IF offset + n <= Len(s) THEN offset + n ELSE Len(s)
  <1>1. m \in Nat /\ s \in Seq(Bytes) /\ Len(s) = m /\ \A k \in 1 .. m : s[k] \in Bytes
    BY StreamType DEF RingWellFormed
  <1>2. RingPromise!Part(s, offset, n) = SubSeq(s, offset + 1, last)
    BY DEF RingPromise!Part
  <1>3. CASE offset >= m
    <2>1. p = <<>>
      BY <1>3 DEF _peek
    <2>2. SubSeq(s, offset + 1, last) = <<>>
      <3>1. last \in Nat /\ last < offset + 1
        BY <1>1, <1>3
      <3> HIDE DEF last, s
      <3> QED
        BY <1>1, <3>1
    <2>3. p \in Seq(Bytes)
      BY <2>1
    <2> QED
      BY <1>2, <2>1, <2>2, <2>3, Zenon
  <1>4. CASE offset < m
    <2> DEFINE c == LesserOf(n, m - offset)
    <2>1. c \in Nat /\ last = offset + c /\ offset + c <= m
      <3> HIDE DEF s, m
      <3> QED
        BY <1>1, <1>4 DEF LesserOf
    <2>2. \A k \in 1 .. c : p[k] = s[offset + k]
      BY <1>4, PeekedByte
    <2>3. p = [k \in 1 .. c |-> s[offset + k]]
      <3>1. p = [k \in 1 .. c |-> p[k]]
        <4> DEFINE start == (ring.mFront + offset) % RingCapacity
                   first == LesserOf(c, RingCapacity - start)
        <4>1. p = [k \in 1 .. c |-> IF k <= first THEN ring.mData[start + k - 1]
                                                ELSE ring.mData[k - first - 1]]
          BY <1>4, PeekInside, Zenon
        <4> HIDE DEF p, c, start, first
        <4> QED
          BY <4>1
      <3> HIDE DEF p, c, s
      <3> QED
        BY <2>2, <3>1
    <2> HIDE DEF p, c, s, last, m
    <2>4. SubSeq(s, offset + 1, last) = [k \in 1 .. c |-> s[offset + k]]
      BY <1>1, <2>1
    <2>5. p \in Seq(Bytes)
      BY <1>1, <2>1, <2>3
    <2> QED
      BY <1>2, <2>3, <2>4, <2>5 DEF p, s
  <1> QED
    BY <1>1, <1>3, <1>4
\* The byte that is j places behind the front after n bytes of buf were copied.
LEMMA WrittenByte ==
  ASSUME RingWellFormed, NEW buf, NEW n \in Nat, ring.mSize + n <= RingCapacity,
         NEW j \in 0 .. RingCapacity - 1
  PROVE  copyIn(ring, buf, n)[(ring.mFront + j) % RingCapacity]
           = IF j \in ring.mSize .. ring.mSize + n - 1 THEN buf[j - ring.mSize + 1]
             ELSE ring.mData[(ring.mFront + j) % RingCapacity]
  <1>1. PICK f \in Nat, m \in Nat, r \in Nat, b \in Nat \ {0} :
          /\ f = ring.mFront /\ m = ring.mSize /\ b = RingCapacity /\ r = ring.mRear
    BY DEF RingWellFormed, Cells
  <1>2. f < b /\ m + n <= b /\ j \in 0 .. b - 1 /\ r < b
    <2>1. f \in Cells /\ r \in Cells
      BY <1>1 DEF RingWellFormed
    <2>2. f < b /\ r < b
      BY <1>1, <2>1 DEF Cells
    <2> QED
      BY <1>1, <2>2
  <1>3. r = IF f + m < b THEN f + m ELSE f + m - b
    <2>1. PICK a \in Nat : a = f + m
      OBVIOUS
    <2>2. r = a % b /\ a < b + b
      BY <1>1, <1>2, <2>1 DEF RingWellFormed
    <2>3. a % b = IF a < b THEN a ELSE a - b
      BY <2>2, WrapOnce
    <2> QED
      BY <2>1, <2>2, <2>3
  <1>4. PICK pos \in 0 .. b - 1 : /\ pos = (f + j) % b
                                  /\ pos = IF f + j < b THEN f + j ELSE f + j - b
    <2>1. PICK a \in Nat : a = f + j
      BY <1>2
    <2>2. a < b + b
      BY <1>2, <2>1
    <2>3. a % b = IF a < b THEN a ELSE a - b
      BY <2>2, WrapOnce
    <2> QED
      BY <1>2, <2>1, <2>2, <2>3
  <1>5. PICK first \in Nat : first = LesserOf(n, RingCapacity - ring.mRear)
                             /\ first = IF n <= b - r THEN n ELSE b - r
    BY <1>1, <1>2 DEF LesserOf
  <1>6. copyIn(ring, buf, n)[pos] = IF pos \in r .. r + first - 1 THEN buf[pos - r + 1]
                                    ELSE IF pos < n - first THEN buf[first + pos + 1]
                                    ELSE ring.mData[pos]
    BY <1>1, <1>4, <1>5 DEF copyIn, Cells
  <1>7. CASE pos \in r .. r + first - 1
    <2>1. pos - r = j - m /\ j >= m
      <3>1. CASE f + m < b
        BY <1>2, <1>3, <1>4, <1>5, <1>7, <3>1
      <3>2. CASE f + m >= b
        BY <1>2, <1>3, <1>4, <1>5, <1>7, <3>2
      <3> QED
        BY <3>1, <3>2
    <2>2. pos - r <= n - 1
      BY <1>2, <1>4, <1>5, <1>7
    <2>3. j \in m .. m + n - 1 /\ pos - r + 1 = j - m + 1
      BY <1>2, <2>1, <2>2
    <2> QED
      BY <1>1, <1>4, <1>6, <1>7, <2>3
  <1>8. CASE pos \notin r .. r + first - 1 /\ pos < n - first
    <2>1. j \in m .. m + n - 1 /\ first + pos + 1 = j - m + 1
      BY <1>2, <1>3, <1>4, <1>5, <1>8
    <2> QED
      BY <1>1, <1>4, <1>6, <1>8, <2>1
  <1>9. CASE pos \notin r .. r + first - 1 /\ ~(pos < n - first)
    <2>1. j \notin m .. m + n - 1
      BY <1>2, <1>3, <1>4, <1>5, <1>9
    <2> QED
      BY <1>1, <1>4, <1>6, <1>9, <2>1
  <1> QED
    BY <1>7, <1>8, <1>9

\* write() appends what there is room for.
LEMMA WriteAppends ==
  ASSUME RingWellFormed, NEW n \in Nat, NEW buf \in [1 .. n -> Bytes], write(buf)
  PROVE  RingPromise!Write(buf)
  <1> DEFINE m == ring.mSize
             k == LesserOf(Len(buf), RingCapacity - ring.mSize)
             s == Stream
             accepted == RingPromise!Part(buf, 0, RingCapacity - Len(Stream))
  <1>1. buf \in Seq(Bytes) /\ Len(buf) = n
    OBVIOUS
  <1>2. m \in Nat /\ m <= RingCapacity /\ s \in Seq(Bytes) /\ Len(s) = m
    BY StreamType DEF RingWellFormed
  <1>3. k \in 0 .. n /\ m + k <= RingCapacity
    BY <1>1, <1>2 DEF LesserOf
  <1>4. accepted = SubSeq(buf, 1, k)
    <2>1. accepted = SubSeq(buf, 0 + 1, IF 0 + (RingCapacity - m) <= Len(buf)
                                        THEN 0 + (RingCapacity - m) ELSE Len(buf))
      BY <1>2 DEF RingPromise!Part
    <2>2. k = IF 0 + (RingCapacity - m) <= Len(buf)
              THEN 0 + (RingCapacity - m) ELSE Len(buf)
      BY <1>1, <1>2 DEF LesserOf
    <2> QED
      BY <2>1, <2>2
  <1> HIDE DEF accepted, k
  <1>5. accepted \in Seq(Bytes) /\ Len(accepted) = k
        /\ \A i \in 1 .. k : accepted[i] = buf[i]
    BY <1>1, <1>3, <1>4
  <1>6. /\ s \o accepted \in Seq(Bytes) /\ Len(s \o accepted) = m + k
        /\ \A i \in 1 .. m + k :
             (s \o accepted)[i] = IF i <= m THEN s[i] ELSE accepted[i - m]
    <2> HIDE DEF s, m
    <2>1. /\ s \o accepted \in Seq(Bytes) /\ Len(s \o accepted) = Len(s) + Len(accepted)
          /\ \A i \in 1 .. Len(s) + Len(accepted) :
               (s \o accepted)[i]
                 = IF i <= Len(s) THEN s[i] ELSE accepted[i - Len(s)]
      BY <1>2, <1>5, ConcatProperties, Zenon
    <2> QED
      BY <1>2, <1>5, <2>1, Zenon
  <1>7. /\ ring'.mSize = m + k /\ ring'.mFront = ring.mFront
        /\ ring'.mData = copyIn(ring, buf, k)
        /\ call' = <<"write", buf>> /\ Returned(k)
    BY DEF write, k
  <1>8. Stream' = s \o accepted
    <2>1. Stream' = [i \in 1 .. m + k |->
                       copyIn(ring, buf, k)[(ring.mFront + i - 1) % RingCapacity]]
      BY <1>7 DEF Stream
    <2>2. ASSUME NEW i \in 1 .. m + k
          PROVE  Stream'[i] = (s \o accepted)[i]
      <3>1. PICK j \in 0 .. RingCapacity - 1 : j = i - 1
        BY <1>2, <1>3
      <3>2. ring.mFront + i - 1 = ring.mFront + j
        BY <3>1 DEF RingWellFormed, Cells
      <3>3. Stream'[i] = IF j \in m .. m + k - 1 THEN buf[j - m + 1]
                         ELSE ring.mData[(ring.mFront + j) % RingCapacity]
        <4>1. copyIn(ring, buf, k)[(ring.mFront + j) % RingCapacity]
                = IF j \in m .. m + k - 1 THEN buf[j - m + 1]
                  ELSE ring.mData[(ring.mFront + j) % RingCapacity]
          BY <1>3, WrittenByte
        <4> HIDE DEF m, Stream
        <4> QED
          BY <2>1, <3>2, <4>1
      <3>4. CASE i <= m
        <4>1. (s \o accepted)[i] = s[i]
          BY <1>2, <1>3, <1>6, <3>4
        <4>2. s[i] = ring.mData[(ring.mFront + j) % RingCapacity]
          BY <1>2, <3>2, <3>4 DEF Stream
        <4> HIDE DEF s
        <4> QED
          BY <1>2, <1>3, <3>1, <3>3, <3>4, <4>1, <4>2
      <3>5. CASE i > m
        <4> HIDE DEF s
        <4>1. (s \o accepted)[i] = accepted[i - m]
          BY <1>2, <1>3, <1>6, <3>5
        <4>2. accepted[i - m] = buf[i - m]
          BY <1>2, <1>3, <1>5, <3>5
        <4>3. j \in m .. m + k - 1 /\ j - m + 1 = i - m
          BY <1>2, <1>3, <3>1, <3>5
        <4>4. Stream'[i] = buf[i - m]
          BY <3>3, <4>3, Zenon
        <4> QED
          BY <4>1, <4>2, <4>4, Zenon
      <3>6. i <= m \/ i > m
        BY <1>2, <1>3
      <3> QED
        BY <3>4, <3>5, <3>6, Zenon
    <2> HIDE DEF s, m
    <2>3. s \o accepted = [i \in 1 .. m + k |-> (s \o accepted)[i]]
      <3>1. PICK t \in Seq(Bytes) : t = s \o accepted
        BY <1>6
      <3>2. t \in [1 .. m + k -> Bytes]
        <4>1. Len(t) = m + k
          BY <1>6, <3>1
        <4> QED
          BY <4>1, LenProperties
      <3> QED
        BY <3>1, <3>2
    <2>4. Stream' = [i \in 1 .. m + k |-> Stream'[i]]
      BY <2>1
    <2> QED
      BY <2>2, <2>3, <2>4
  <1> QED
    BY <1>5, <1>7, <1>8
    DEF RingPromise!Write, RingPromise!Returns, Returned, NoOutput, RingPromise!NoOutput,
        accepted, Stream

\* _drop() takes the oldest bytes away.
LEMMA DropIsPart ==
  ASSUME RingWellFormed, NEW n \in 0 .. ring.mSize, ring' = _drop(ring, n)
  PROVE  Stream' = RingPromise!Part(Stream, n, Len(Stream))
  <1> DEFINE m == ring.mSize
             s == Stream
  <1>1. m \in Nat /\ s \in Seq(Bytes) /\ Len(s) = m /\ n \in Nat /\ n <= m
    BY StreamType DEF RingWellFormed
  <1>2. RingPromise!Part(s, n, Len(s)) = SubSeq(s, n + 1, m)
    <2>1. (IF n + m <= m THEN n + m ELSE m) = m
      BY <1>1
    <2> QED
      BY <1>1, <2>1 DEF RingPromise!Part
  <1>3. PICK f \in Nat, b \in Nat \ {0} : f = ring.mFront /\ b = RingCapacity
    BY DEF RingWellFormed, Cells
  <1>4. /\ ring'.mSize = m - n /\ ring'.mFront = (f + n) % b /\ ring'.mData = ring.mData
    BY <1>3 DEF _drop, RingWellFormed
  <1>5. Stream' = [i \in 1 .. m - n |-> ring.mData[(((f + n) % b) + i - 1) % b]]
    BY <1>3, <1>4 DEF Stream
  <1>6. ASSUME NEW i \in 1 .. m - n
        PROVE  Stream'[i] = s[n + i]
    <2>1. PICK j \in Nat, e \in Nat : j = i - 1 /\ e = f + n
      BY <1>1
    <2>2. ((e % b) + j) % b = (e + j) % b
      BY RemainderOfSum
    <2>3. PICK d \in 0 .. b - 1 : d = e % b
      BY RemainderRange
    <2>4. d + i - 1 = d + j /\ e + j = f + (n + i) - 1
      BY <1>1, <2>1
    <2>5. n + i \in 1 .. m
      BY <1>1
    <2>6. Stream'[i] = ring.mData[(d + i - 1) % b]
      BY <1>5, <2>1, <2>3
    <2>7. s[n + i] = ring.mData[(f + (n + i) - 1) % b]
      BY <1>3, <2>5 DEF Stream
    <2> QED
      BY <2>2, <2>3, <2>4, <2>6, <2>7
  <1>7. Stream' = [i \in 1 .. m - n |-> s[n + i]]
    <2>1. Stream' = [i \in 1 .. m - n |-> Stream'[i]]
      BY <1>5
    <2> HIDE DEF s, m
    <2> QED
      BY <1>6, <2>1
  <1> HIDE DEF s, m
  <1>8. SubSeq(s, n + 1, m) = [i \in 1 .. m - n |-> s[n + i]]
    BY <1>1
  <1> QED
    BY <1>2, <1>7, <1>8 DEF s

LEMMA PeekTypeAsPromised ==
  ASSUME RingWellFormed, NEW offset \in Nat, NEW width \in Widths,
         NEW order \in Orders, peekType(offset, width, order)
  PROVE  RingPromise!PeekNumber(offset, width, order)
  <1> DEFINE p == _peek(ring, offset, width)
  <1>1. width \in Nat \ {0} /\ ring.mSize \in Nat
    BY DEF RingWellFormed
  <1>2. p = RingPromise!Part(Stream, offset, width) /\ p \in Seq(Bytes)
    BY <1>1, PeekIsPart
  <1>3. Len(p) = width <=> offset + width <= Len(Stream)
    BY <1>1, PeekLength, StreamType DEF LesserOf
  <1>4. /\ call' = <<"peekType", offset, width, order>>
        /\ IF Len(p) = width THEN Converted(p, order) ELSE Returned(0)
        /\ UNCHANGED ring
    BY DEF peekType
  <1>5. Stream' = Stream
    BY <1>4 DEF Stream
  <1>6. valueOf(p, order) = RingPromise!Number(p, order)
    BY <1>2, ValueIsNumber
  <1> HIDE DEF p
  <1>7. /\ call' = <<"peekType", offset, width, order>>
        /\ IF offset + width <= Len(Stream)
             THEN RingPromise!ReadsNumber(RingPromise!Part(Stream, offset, width), order)
             ELSE RingPromise!Returns(0)
    BY <1>2, <1>3, <1>4, <1>6
    DEF RingPromise!ReadsNumber, RingPromise!Returns, Converted, Returned, NoOutput,
        RingPromise!NoOutput
  <1> QED
    BY <1>5, <1>7 DEF RingPromise!PeekNumber, Stream

LEMMA ReadTypeAsPromised ==
  ASSUME RingWellFormed, NEW width \in Widths,
         NEW order \in Orders, readType(width, order)
  PROVE  RingPromise!ReadNumber(width, order)
  <1> DEFINE p == _peek(ring, 0, width)
  <1>1. width \in Nat \ {0} /\ ring.mSize \in Nat
    BY DEF RingWellFormed
  <1>2. p = RingPromise!Part(Stream, 0, width) /\ p \in Seq(Bytes)
    BY <1>1, PeekIsPart
  <1>3. (Len(p) = width <=> width <= Len(Stream)) /\ Len(Stream) = ring.mSize
    BY <1>1, PeekLength, StreamType DEF LesserOf
  <1>4. call' = <<"readType", width, order>>
    BY DEF readType
  <1>5. valueOf(p, order) = RingPromise!Number(p, order)
    BY <1>2, ValueIsNumber
  <1>6. CASE Len(p) = width
    <2>1. Converted(p, order) /\ ring' = _drop(ring, width)
      BY <1>6 DEF readType
    <2>2. Stream' = RingPromise!Part(Stream, width, Len(Stream))
      BY <1>1, <1>3, <1>6, <2>1, DropIsPart
    <2>3. RingPromise!ReadsNumber(RingPromise!Part(Stream, 0, width), order)
      <3> HIDE DEF p
      <3> QED
        BY <1>2, <1>5, <1>6, <2>1 DEF RingPromise!ReadsNumber, Converted
    <2> QED
      BY <1>3, <1>4, <1>6, <2>2, <2>3 DEF RingPromise!ReadNumber, Stream
  <1>7. CASE Len(p) # width
    <2>1. Returned(0) /\ UNCHANGED ring
      BY <1>7 DEF readType
    <2>2. Stream' = Stream
      BY <2>1 DEF Stream
    <2>3. RingPromise!Returns(0)
      BY <2>1 DEF RingPromise!Returns, Returned, NoOutput, RingPromise!NoOutput
    <2> QED
      BY <1>3, <1>4, <1>7, <2>2, <2>3 DEF RingPromise!ReadNumber, Stream
  <1> QED
    BY <1>6, <1>7

\* Every operation does to the stream what ByteStream says.
LEMMA RingStepsAsPromised ==
  RingWellFormed /\ [RingNext]_ringVars => [RingPromise!Next]_RingPromise!vars
  <1> SUFFICES ASSUME RingWellFormed, [RingNext]_ringVars
               PROVE  [RingPromise!Next]_RingPromise!vars
    OBVIOUS
  <1>0. RingPromise!Lengths = Lengths /\ Lengths \subseteq Nat
    BY DEF Lengths, RingPromise!Lengths
  <1>1. ASSUME NEW n \in Lengths, NEW buf \in [1 .. n -> Bytes], write(buf)
        PROVE  RingPromise!Next
    <2>1. RingPromise!Write(buf)
      BY <1>0, <1>1, WriteAppends
    <2> QED
      BY <1>0, <2>1 DEF RingPromise!Next
  <1>2. ASSUME NEW n \in Lengths, peek(n)
        PROVE  RingPromise!Next
    <2>1. _peek(ring, 0, n) = RingPromise!Part(Stream, 0, n)
      BY <1>0, PeekIsPart
    <2>2. Copied(_peek(ring, 0, n)) /\ call' = <<"peek", n>> /\ Stream' = Stream
      BY <1>2 DEF peek, Stream
    <2>3. RingPromise!Reads(RingPromise!Part(Stream, 0, n))
      BY <2>1, <2>2 DEF Copied, RingPromise!Reads
    <2>4. RingPromise!Peek(n)
      BY <2>2, <2>3 DEF RingPromise!Peek, Stream
    <2> QED
      BY <1>0, <2>4 DEF RingPromise!Next
  <1>3. ASSUME NEW n \in Lengths, read(n)
        PROVE  RingPromise!Next
    <2> DEFINE p == _peek(ring, 0, n)
    <2>1. p = RingPromise!Part(Stream, 0, n)
      BY <1>0, PeekIsPart
    <2>2. Copied(p) /\ call' = <<"read", n>> /\ ring' = _drop(ring, Len(p))
      BY <1>3 DEF read
    <2>3. RingPromise!Reads(RingPromise!Part(Stream, 0, n))
      BY <2>1, <2>2 DEF Copied, RingPromise!Reads
    <2>4. Stream' = RingPromise!Part(Stream, n, Len(Stream))
      <3>1. /\ Len(Stream) = ring.mSize /\ ring.mSize \in Nat /\ n \in Nat
            /\ Stream \in Seq(Bytes)
        BY <1>0, StreamType DEF RingWellFormed
      <3>2. Len(p) = LesserOf(n, ring.mSize)
        BY <3>1, PeekLength DEF LesserOf
      <3>3. CASE n <= ring.mSize
        BY <2>2, <3>1, <3>2, <3>3, DropIsPart DEF LesserOf
      <3>4. CASE n > ring.mSize
        <4>1. Len(p) = ring.mSize
          BY <3>1, <3>2, <3>4 DEF LesserOf
        <4>2. Stream' = RingPromise!Part(Stream, ring.mSize, Len(Stream))
          BY <2>2, <3>1, <4>1, DropIsPart
        <4>3. ASSUME NEW i \in Nat, i >= ring.mSize
              PROVE  RingPromise!Part(Stream, i, Len(Stream)) = <<>>
          <5>1. PICK last \in Nat :
                  /\ last = IF i + Len(Stream) <= Len(Stream)
                              THEN i + Len(Stream) ELSE Len(Stream)
                  /\ last < i + 1
            BY <3>1, <4>3
          <5>2. RingPromise!Part(Stream, i, Len(Stream)) = SubSeq(Stream, i + 1, last)
            BY <5>1 DEF RingPromise!Part
          <5>3. i + 1 \in Int /\ last \in Int
            OBVIOUS
          <5> QED
            BY <5>1, <5>2, <5>3, SubSeqEmpty
        <4> QED
          BY <3>1, <3>4, <4>2, <4>3
      <3> QED
        BY <3>1, <3>3, <3>4
    <2>5. RingPromise!Read(n)
      BY <2>2, <2>3, <2>4 DEF RingPromise!Read, Stream
    <2> QED
      BY <1>0, <2>5 DEF RingPromise!Next
  <1>4. ASSUME NEW n \in Lengths, drop(n)
        PROVE  RingPromise!Next
    <2>1. RingPromise!Drop(n)
      <3>1. Len(Stream) = ring.mSize /\ ring.mSize \in Nat /\ n \in Nat
        BY <1>0, StreamType DEF RingWellFormed
      <3>2. CASE ring.mSize < n
        <4>1. Returned(0) /\ call' = <<"drop", n>> /\ Stream' = Stream
          BY <1>4, <3>2 DEF drop, Stream
        <4>2. RingPromise!Returns(0) /\ ~(n <= Len(Stream))
          BY <3>1, <3>2, <4>1
          DEF RingPromise!Returns, Returned, NoOutput, RingPromise!NoOutput
        <4> QED
          BY <4>1, <4>2 DEF RingPromise!Drop, Stream
      <3>3. CASE ~(ring.mSize < n)
        <4>1. Returned(1) /\ call' = <<"drop", n>> /\ ring' = _drop(ring, n)
          BY <1>4, <3>3 DEF drop
        <4>2. Stream' = RingPromise!Part(Stream, n, Len(Stream))
          BY <3>1, <3>3, <4>1, DropIsPart
        <4>3. RingPromise!Returns(1) /\ n <= Len(Stream)
          BY <3>1, <3>3, <4>1
          DEF RingPromise!Returns, Returned, NoOutput, RingPromise!NoOutput
        <4> QED
          BY <4>1, <4>2, <4>3 DEF RingPromise!Drop, Stream
      <3> QED
        BY <3>2, <3>3
    <2> QED
      BY <1>0, <2>1 DEF RingPromise!Next
  <1>5. ASSUME NEW width \in Widths, NEW order \in Orders, readType(width, order)
        PROVE  RingPromise!Next
    <2>1. RingPromise!ReadNumber(width, order)
      BY <1>5, ReadTypeAsPromised
    <2> QED
      BY <2>1 DEF RingPromise!Next, Orders
  <1>6. ASSUME NEW width \in Widths, NEW order \in Orders, NEW offset \in Lengths,
               peekType(offset, width, order)
        PROVE  RingPromise!Next
    <2>1. RingPromise!PeekNumber(offset, width, order)
      BY <1>0, <1>6, PeekTypeAsPromised
    <2> QED
      BY <1>0, <2>1 DEF RingPromise!Next, Orders
  <1>7. CASE UNCHANGED ringVars
    BY <1>7 DEF ringVars, RingPromise!vars
  <1> QED
    BY <1>1, <1>2, <1>3, <1>4, <1>5, <1>6, <1>7 DEF RingNext, Orders

\* The fields of the ring stay in range and mRear stays mSize bytes behind mFront.
THEOREM RingStaysSound == RingSpec => []RingWellFormed
  BY RingInitTyped, RingStep, PTL DEF RingSpec

\* The ring is a bounded stream of bytes wherever it wraps: write() appends what
\* fits, peek() and read() return the oldest bytes in one or two pieces, and a
\* number is read whole or not at all.
THEOREM RingIsStream == RingSpec => RingPromiseSpec
  <1>1. RingInit => RingPromise!Init
    BY DEF RingInit, RingPromise!Init, NoOutput, RingPromise!NoOutput
  <1>2. RingWellFormed /\ [RingNext]_ringVars => [RingPromise!Next]_RingPromise!vars
    BY RingStepsAsPromised
  <1> QED
    BY <1>1, <1>2, RingInitTyped, RingStep, PTL
    DEF RingSpec, RingPromiseSpec, RingPromise!Spec

-------------------------------------------------------------------------------
(* FixedFunction *)

\* Who can call holds a callable that exists, and nobody else holds it.
OwnedByOne ==
  /\ functions \subseteq FixedFunctions
  /\ mFnInvoker \subseteq functions
  /\ callables \subseteq Callables
  /\ mStorage \in [FixedFunctions -> Callables \cup {Nothing}]
  /\ \A f \in FixedFunctions :
       IF f \in mFnInvoker THEN mStorage[f] \in callables ELSE mStorage[f] = Nothing
  /\ \A c \in callables : \E f \in mFnInvoker : mStorage[f] = c
  /\ \A f, g \in mFnInvoker : mStorage[f] = mStorage[g] => f = g

LEMMA OwnedByOneInit == FunctionInit => OwnedByOne
  BY DEF FunctionInit, OwnedByOne

\* One owner, counted.
LEMMA OwnedByOneImplies == OwnedByOne => CallablesOwned
  <1> SUFFICES ASSUME OwnedByOne PROVE CallablesOwned
    OBVIOUS
  <1>1. ASSUME NEW c \in callables
        PROVE  Cardinality({f \in mFnInvoker : mStorage[f] = c}) = 1
    <2>1. PICK f \in mFnInvoker : mStorage[f] = c
      BY DEF OwnedByOne
    <2>2. {g \in mFnInvoker : mStorage[g] = c} = {f}
      BY <2>1 DEF OwnedByOne
    <2> QED
      BY <2>2, FS_Singleton
  <1> QED
    BY <1>1 DEF OwnedByOne, CallablesOwned

\* Every constructor, assignment and destructor preserves it.
LEMMA OwnedByOneStep == OwnedByOne /\ [FunctionNext]_functionVars => OwnedByOne'
  <1> SUFFICES ASSUME OwnedByOne, [FunctionNext]_functionVars PROVE OwnedByOne'
    OBVIOUS
  <1> USE CallablesAssumption DEF OwnedByOne
  <1>1. ASSUME NEW f \in FixedFunctions, NEW c \in Callables, Construct(f, c)
        PROVE  OwnedByOne'
    BY <1>1 DEF Construct
  <1>2. ASSUME NEW f \in FixedFunctions, NEW g \in FixedFunctions, MoveConstruct(f, g)
        PROVE  OwnedByOne'
    <2>1. CASE g \in mFnInvoker
      BY <1>2, <2>1 DEF MoveConstruct, move_from
    <2>2. CASE g \notin mFnInvoker
      BY <1>2, <2>2 DEF MoveConstruct, move_from
    <2> QED
      BY <2>1, <2>2
  <1>3. ASSUME NEW f \in FixedFunctions, NEW g \in FixedFunctions, MoveAssign(f, g)
        PROVE  OwnedByOne'
    <2>1. CASE g \in mFnInvoker
      BY <1>3, <2>1 DEF MoveAssign, move_from, Destroyed
    <2>2. CASE g \notin mFnInvoker
      BY <1>3, <2>2 DEF MoveAssign, move_from, Destroyed
    <2> QED
      BY <2>1, <2>2
  <1>4. ASSUME NEW f \in FixedFunctions, ConstructEmpty(f)
        PROVE  OwnedByOne'
    BY <1>4 DEF ConstructEmpty
  <1>5. ASSUME NEW f \in FixedFunctions, ResetFunction(f) \/ Destruct(f)
        PROVE  OwnedByOne'
    BY <1>5 DEF ResetFunction, Destruct, Reset, Destroyed
  <1>6. CASE UNCHANGED functionVars
    BY <1>6 DEF functionVars
  <1> QED
    BY <1>1, <1>2, <1>3, <1>4, <1>5, <1>6 DEF FunctionNext

\* No callable is leaked, destroyed twice or called after it was moved away.
THEOREM CallablesHaveOneOwner == FunctionSpec => []CallablesOwned
  BY OwnedByOneInit, OwnedByOneImplies, OwnedByOneStep, PTL DEF FunctionSpec

-------------------------------------------------------------------------------
(* The containers side by side *)

LEMMA ContainersStep ==
  PoolIInv /\ RingWellFormed /\ OwnedByOne /\ [Next]_vars
    => [PoolNext]_poolVars /\ [RingNext]_ringVars /\ [FunctionNext]_functionVars
  BY Zenon DEF Next, vars

\* In every behaviour of the containers their data structures are well-formed,
THEOREM ContainersStaySound == Spec => []TypeOK
  <1>1. Init => PoolIInv /\ RingWellFormed /\ OwnedByOne
    BY PoolIInvInit, RingInitTyped, OwnedByOneInit DEF Init
  <1>2. PoolIInv /\ RingWellFormed /\ OwnedByOne /\ [Next]_vars
          => (PoolIInv /\ RingWellFormed /\ OwnedByOne)'
    BY ContainersStep, PoolIInvStep, RingStep, OwnedByOneStep
  <1>3. PoolIInv /\ RingWellFormed /\ OwnedByOne => TypeOK
    BY PoolIInvImplies DEF TypeOK
  <1> QED
    BY <1>1, <1>2, <1>3, PTL DEF Spec

\* callables have one owner,
THEOREM CallablesStayOwned == Spec => []CallablesOwned
  <1>1. [Next]_vars => [FunctionNext]_functionVars
    BY Zenon DEF Next, vars
  <1> QED
    BY <1>1, CallablesHaveOneOwner, PTL DEF Spec, Init, FunctionSpec

\* and pool and ring keep their promises.
THEOREM ContainersKeepPromises == Spec => PoolPromiseSpec /\ RingPromiseSpec
  <1>1. [Next]_vars => [PoolNext]_poolVars /\ [RingNext]_ringVars
    BY Zenon DEF Next, vars
  <1> QED
    BY <1>1, PoolKeepsPromises, RingIsStream, PTL
    DEF Spec, Init, PoolSpec, RingSpec

\* A number that was read is the value of the bytes that were read.
NumberRead ==
  call[1] \in {"peekType", "readType"} /\ count = 1 =>
    /\ output.bytes \in Seq(Bytes)
    /\ Len(output.bytes) \in Widths
    /\ call[Len(call)] \in Orders
    /\ output.value = valueOf(output.bytes, call[Len(call)])

\* Each operation of the ring leaves such a number, or none.
LEMMA NumberReadStep ==
  RingWellFormed /\ NumberRead /\ [RingNext]_ringVars => NumberRead'
  <1> SUFFICES ASSUME RingWellFormed, NumberRead, [RingNext]_ringVars
               PROVE  NumberRead'
    OBVIOUS
  <1>1. ASSUME NEW n \in Lengths, NEW buf \in [1 .. n -> Bytes], write(buf)
        PROVE  NumberRead'
    <2>1. call' = <<"write", buf>>
      BY <1>1 DEF write
    <2> QED
      BY <2>1 DEF NumberRead
  <1>2. ASSUME NEW n \in Lengths, peek(n) \/ read(n) \/ drop(n)
        PROVE  NumberRead'
    <2>1. call' = <<"peek", n>> \/ call' = <<"read", n>> \/ call' = <<"drop", n>>
      BY <1>2 DEF peek, read, drop
    <2> QED
      BY <2>1 DEF NumberRead
  <1>3. ASSUME NEW width \in Widths, NEW order \in Orders, NEW offset \in Nat,
               NEW temp, temp = _peek(ring, offset, width),
               IF Len(temp) = width THEN Converted(temp, order) ELSE Returned(0),
               call'[1] \in {"peekType", "readType"} => call'[Len(call')] = order
        PROVE  NumberRead'
    <2>1. temp \in Seq(Bytes)
      BY <1>3, PeekIsPart
    <2>2. CASE Len(temp) = width
      <3>1. output' = [bytes |-> temp, value |-> valueOf(temp, order)]
        BY <1>3, <2>2 DEF Converted
      <3>2. output'.bytes = temp /\ output'.value = valueOf(temp, order)
        BY <3>1
      <3> QED
        BY <1>3, <2>1, <2>2, <3>2 DEF NumberRead
    <2>3. CASE Len(temp) # width
      <3>1. count' = 0
        BY <1>3, <2>3 DEF Returned
      <3> QED
        BY <3>1 DEF NumberRead
    <2> QED
      BY <2>2, <2>3
  <1>4. ASSUME NEW width \in Widths, NEW order \in Orders, readType(width, order)
        PROVE  NumberRead'
    <2>1. call' = <<"readType", width, order>>
      BY <1>4 DEF readType
    <2>2. call'[Len(call')] = order
      BY <2>1
    <2>3. IF Len(_peek(ring, 0, width)) = width
            THEN Converted(_peek(ring, 0, width), order) ELSE Returned(0)
      BY <1>4 DEF readType
    <2>4. 0 \in Nat
      OBVIOUS
    <2> QED
      BY <1>3, <2>2, <2>3, <2>4
  <1>5. ASSUME NEW width \in Widths, NEW order \in Orders, NEW offset \in Lengths,
               peekType(offset, width, order)
        PROVE  NumberRead'
    <2>1. call' = <<"peekType", offset, width, order>>
      BY <1>5 DEF peekType
    <2>2. call'[Len(call')] = order
      BY <2>1
    <2>3. IF Len(_peek(ring, offset, width)) = width
            THEN Converted(_peek(ring, offset, width), order) ELSE Returned(0)
      BY <1>5 DEF peekType
    <2>4. offset \in Nat
      BY DEF Lengths
    <2> QED
      BY <1>3, <2>2, <2>3, <2>4
  <1>6. CASE UNCHANGED ringVars
    BY <1>6 DEF ringVars, NumberRead
  <1> QED
    BY <1>1, <1>2, <1>4, <1>5, <1>6 DEF RingNext, Orders

\* BitOps finds the bytes of a number where _peekType() put them.
LEMMA BytesAreExtracted == NumberRead => ExtractedBytes
  <1> SUFFICES ASSUME NumberRead, call[1] \in {"peekType", "readType"}, count = 1,
                      NEW i \in 1 .. Len(output.bytes)
               PROVE  output.bytes[IF call[Len(call)] = "big"
                                     THEN Len(output.bytes) - i + 1 ELSE i]
                        = extract_dynamic(output.value, (i - 1) * ByteBits, ByteBits)
    BY DEF ExtractedBytes
  <1> DEFINE p == output.bytes
             order == call[Len(call)]
             x == output.value
  <1>1. p \in Seq(Bytes) /\ Len(p) \in Widths /\ order \in Orders /\ x = valueOf(p, order)
    BY DEF NumberRead
  <1> HIDE DEF p, order, x
  <1>2. i \in 1 .. Len(p) /\ Len(p) \in Nat
    BY <1>1 DEF p
  <1>3. x = RingPromise!Number(p, order)
    BY <1>1, ValueIsNumber
  <1>4. /\ x \in Nat
        /\ (x \div PowerOf2((i - 1) * ByteBits)) % Radix
             = p[IF order = "big" THEN Len(p) - i + 1 ELSE i]
    BY <1>1, <1>2, <1>3, DigitOfNumber
  <1>5. PICK offset \in Nat : offset = (i - 1) * ByteBits
    <2>1. i - 1 \in Nat /\ ByteBits \in Nat
      BY <1>2
    <2> QED
      BY <2>1, ProductType
  <1>6. offset < TypeBits /\ ByteBits <= TypeBits
    <2>1. PICK n \in Nat, b \in Nat \ {0}, j \in Nat, e \in Nat :
            n = Len(p) /\ b = ByteBits /\ j = i - 1 /\ e = n - 1 - j
      BY <1>2
    <2>2. n * b <= TypeBits
      BY <1>1, <2>1, NumbersFit
    <2>3. n = j + 1 + e
      BY <2>1
    <2>4. n * b = j * b + b + e * b /\ j * b \in Nat /\ e * b \in Nat
      BY <2>3
    <2> QED
      BY <1>5, <2>1, <2>2, <2>4, TypeBitsAssumption
  <1>7. extract_dynamic(x, offset, ByteBits) = (x \div PowerOf2(offset)) % Radix
    BY <1>4, <1>6, ExtractShifts DEF Radix
  <1> QED
    BY <1>4, <1>5, <1>7, Zenon DEF p, order, x

\* Whatever is read as a number, of either byte order: BitOps takes the bytes out
\* of it again, each at its place.
THEOREM NumbersComeApart == Spec => []ExtractedBytes
  <1>1. Init => RingWellFormed /\ NumberRead
    <2>1. RingInit => NumberRead
      BY DEF RingInit, NumberRead
    <2> QED
      BY <2>1, RingInitTyped DEF Init
  <1>2. RingWellFormed /\ NumberRead /\ [Next]_vars => (RingWellFormed /\ NumberRead)'
    <2>1. [Next]_vars => [RingNext]_ringVars
      BY Zenon DEF Next, vars
    <2> QED
      BY <2>1, RingStep, NumberReadStep
  <1> QED
    BY <1>1, <1>2, BytesAreExtracted, PTL DEF Spec
===============================================================================
