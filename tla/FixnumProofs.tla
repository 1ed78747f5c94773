---------------------------- MODULE FixnumProofs ----------------------------
(***************************************************************************)
(* Proofs about Fixnum for words and fixnums of any length: a primitive of *)
(* fixnums returns its exact result or signals that it is no fixnum.       *)
(*                                                                         *)
(* The provers know nothing of 2^k with a variable exponent.  The powers   *)
(* of two are here the numbers of subsets of intervals, whose cardinality  *)
(* the library gives, and induction on Nat is the existence of the least   *)
(* element of a set.  From the sizes of half words, longs and fixnums it   *)
(* follows that what the primitives compute in a long does not wrap, that  *)
(* Mul refuses only products that are no fixnum (or the smallest one), and *)
(* that quotient and remainder are those of truncating division.           *)
(***************************************************************************)
EXTENDS Fixnum, FiniteSetTheorems, NaturalsInduction, TLAPS

-----------------------------------------------------------------------------
(* Powers of two.                                                          *)

\* A nonempty set of natural numbers has a least one.
LEMMA LeastNatural ==
  ASSUME NEW T, T \subseteq Nat, T # {}
  PROVE  \E x \in T : \A y \in T : x <= y
<1> DEFINE R == {ss \in Nat \X Nat : ss[1] < ss[2]}
<1>1. IsWellFoundedOn(R, Nat)
  BY NatLessThanWellFounded DEF OpToRel
<1> HIDE DEF R
<1>2. PICK x \in T : \A y \in T : ~ (<<y, x>> \in R)
  BY <1>1, WFMin
<1>3. ASSUME NEW y \in T, ~(x <= y) PROVE FALSE
  <2> DEFINE ss == <<y, x>>
  <2>1. y < x /\ ss \in Nat \X Nat /\ ss[1] = y /\ ss[2] = x
    BY <1>3
  <2>2. ss \in R
    BY <2>1 DEF R
  <2>3. QED
    BY <1>2, <2>2
<1>4. QED
  BY <1>3

\* A set that holds 0 and every successor holds every natural number.
LEMMA SetInduction ==
  ASSUME NEW S, 0 \in S, \A k \in Nat : k \in S => k + 1 \in S
  PROVE  Nat \subseteq S
<1> SUFFICES ASSUME Nat \ S # {} PROVE FALSE
  OBVIOUS
<1>1. PICK x \in Nat \ S : \A y \in Nat \ S : x <= y
  BY LeastNatural
<1>2. x # 0 /\ x - 1 \in Nat /\ x = (x - 1) + 1
  BY <1>1
<1>3. x - 1 \in S
  BY <1>1, <1>2
<1>4. QED
  BY <1>1, <1>2, <1>3

\* The empty set has one subset.
LEMMA PowerOfZero == 2^0 = 1
<1>1. 2^Cardinality({}) = Cardinality(SUBSET {})
  BY FS_EmptySet, FS_SUBSET
<1>2. Cardinality({}) = 0 
  BY FS_EmptySet
<1>3. SUBSET {} = {{}} /\ Cardinality({{}}) = 1
  BY FS_Singleton
<1>4. QED
  BY <1>1, <1>2, <1>3

\* SUBSET (S \cup {x}) are the subsets of S, without and with x.
LEMMA PowerOfNext ==
  ASSUME NEW k \in Nat
  PROVE  2^k \in Nat /\ 2^(k + 1) = 2 * 2^k
<1>1. PICK A : A = SUBSET (1 .. k)
  OBVIOUS
<1>2. PICK B : B = SUBSET (1 .. k + 1)
  OBVIOUS
<1>3. PICK C : C = B \ A
  OBVIOUS
<1>4. IsFiniteSet(A) /\ Cardinality(A) = 2^k /\ 2^k \in Nat
  <2>1. IsFiniteSet(1 .. k) /\ Cardinality(1 .. k) = k
    BY FS_Interval
  <2>2. IsFiniteSet(A) /\ Cardinality(A) = 2^Cardinality(1 .. k)
    BY <1>1, <2>1, FS_SUBSET
  <2>3. QED
    BY <2>1, <2>2, FS_CardinalityType
<1>5. IsFiniteSet(B) /\ Cardinality(B) = 2^(k + 1)
  <2>1. IsFiniteSet(1 .. k + 1) /\ Cardinality(1 .. k + 1) = k + 1
    BY FS_Interval
  <2>2. IsFiniteSet(B) /\ Cardinality(B) = 2^Cardinality(1 .. k + 1)
    BY <1>2, <2>1, FS_SUBSET
  <2>3. QED
    BY <2>1, <2>2
<1>6. ExistsBijection(A, C)
  <2> DEFINE f == [a \in A |-> a \cup {k + 1}]
  <2>1. \A i \in 1 .. k : i \in 1 .. k + 1 /\ i # k + 1
    OBVIOUS
  <2>2. k + 1 \in 1 .. k + 1 /\ \A i \in 1 .. k + 1 : i # k + 1 => i \in 1 .. k
    OBVIOUS
  <2>3. ASSUME NEW a \in A PROVE f[a] \in C
    BY <1>1, <1>2, <1>3, <2>1, <2>2
  <2>4. ASSUME NEW a \in A, NEW b \in A, f[a] = f[b] PROVE a = b
    BY <1>1, <2>1, <2>4
  <2>5. ASSUME NEW c \in C PROVE \E a \in A : f[a] = c
    <3>1. k + 1 \in c /\ c \subseteq 1 .. k + 1
      BY <1>1, <1>2, <1>3, <2>2
    <3>2. c \ {k + 1} \in A
      BY <1>1, <2>2, <3>1
    <3>3. f[c \ {k + 1}] = c
      BY <3>1, <3>2
    <3>4. QED
      BY <3>2, <3>3
  <2>6. f \in [A -> C]
    BY <2>3
  <2>7. \A a, b \in A : f[a] = f[b] => a = b
    BY <2>4
  <2>8. \A c \in C : \E a \in A : f[a] = c
    BY <2>5
  <2> HIDE DEF f
  <2>9. f \in Injection(A, C)
    BY <2>6, <2>7 DEF Injection, IsInjective
  <2>10. f \in Surjection(A, C)
    BY <2>6, <2>8 DEF Surjection
  <2>11. f \in Bijection(A, C)
    BY <2>9, <2>10 DEF Bijection
  <2>12. QED
    BY <2>11 DEF ExistsBijection
<1>7. IsFiniteSet(C) /\ Cardinality(C) = 2^k
  BY <1>4, <1>6, FS_Bijection
<1>8. B = A \cup C /\ A \cap C = {}
  <2>1. A \subseteq B
    BY <1>1, <1>2
  <2>2. QED
    BY <1>3, <2>1
<1>9. Cardinality(B) = Cardinality(A) + Cardinality(C) - Cardinality(A \cap C)
  BY <1>4, <1>7, <1>8, FS_Union
<1>10. Cardinality(A \cap C) = 0
  BY <1>8, FS_EmptySet
<1>11. QED
  BY <1>4, <1>5, <1>7, <1>9, <1>10

\* Powers of two are positive and multiply by adding exponents.
LEMMA PowerOfSum ==
  ASSUME NEW i \in Nat, NEW j \in Nat
  PROVE  /\ 2^i \in Nat \ {0} /\ 2^(i + j) = 2^i * 2^j /\ 2^(i + j) >= 2^i
<1> DEFINE S == {k \in Nat : 2^k # 0 /\ 2^(i + k) = 2^i * 2^k}
           T == {k \in Nat : 2^k # 0}
<1>1. \A k \in Nat : 2^k \in Nat /\ 2^(k + 1) = 2 * 2^k
  BY PowerOfNext
<1>2. 0 \in T
  BY PowerOfZero
<1>3. \A k \in Nat : k \in T => k + 1 \in T
  BY <1>1
<1>4. Nat \subseteq T
  BY <1>2, <1>3, SetInduction
<1>5. 0 \in S
  <2>1. i + 0 = i /\ 2^i \in Nat /\ 2^i * 1 = 2^i
    BY <1>1
  <2>2. QED
    BY <2>1, PowerOfZero
<1>6. ASSUME NEW k \in Nat, k \in S PROVE k + 1 \in S
  <2>1. i + (k + 1) = (i + k) + 1
    OBVIOUS
  <2>2. 2^(i + (k + 1)) = 2 * (2^i * 2^k)
    BY <1>1, <1>6, <2>1
  <2>3. 2^k \in Nat /\ 2^i \in Nat /\ 2^(k + 1) = 2 * 2^k
    BY <1>1
  <2>4. 2 * (2^i * 2^k) = 2^i * (2 * 2^k)
    BY <2>3
  <2>5. QED
    BY <1>3, <1>4, <2>2, <2>3, <2>4
<1>7. Nat \subseteq S
  BY <1>5, <1>6, SetInduction
<1>8. 2^i \in Nat /\ 2^i # 0 /\ 2^j \in Nat /\ 2^j # 0 /\ 2^(i + j) = 2^i * 2^j
  BY <1>1, <1>4, <1>7
<1>9. \A a, b \in Nat : b # 0 => a * b >= a
  OBVIOUS
<1>10. QED
  BY <1>8, <1>9

-----------------------------------------------------------------------------
(* Words and fixnums.                                                      *)

\* Division with remainder.
LEMMA DivMod ==
  ASSUME NEW a \in Nat, NEW d \in Nat \ {0}
  PROVE  /\ a \div d \in Nat /\ a % d \in 0 .. d - 1
         /\ a = d * (a \div d) + (a % d)
         /\ a < d => a % d = a
         /\ a >= d /\ a < 2 * d => a % d = a - d
<1>1. a \div d \in Nat /\ a % d \in 0 .. d - 1 /\ a = d * (a \div d) + (a % d)
  OBVIOUS
<1>2. ASSUME a < d PROVE a % d = a
  BY <1>2
<1>3. ASSUME a >= d, a < 2 * d PROVE a % d = a - d
  BY <1>3
<1>4. QED
  BY <1>1, <1>2, <1>3

SignBit == 2^(WordLength - 1)

\* A half word squared is a word, and four fixnums are less than a long.
LEMMA Sizes ==
  /\ FixnumSignBit \in Nat \ {0} /\ HalfWord \in Nat \ {0} /\ Middle \in Nat \ {0}
  /\ SignBit \in Nat \ {0}
  /\ 4 * FixnumSignBit <= SignBit /\ 2^WordLength = 2 * SignBit
  /\ HalfWord * HalfWord = 2 * SignBit /\ Middle * HalfWord = FixnumSignBit
<1>1. /\ HalfLength \in Nat \ {0} /\ FixnumLength \in Nat /\ WordLength = 2 * HalfLength + 2
      /\ 2 * FixnumLength >= WordLength /\ FixnumLength < 2 * HalfLength
  BY HalfLengthAssumption, FixnumLengthAssumption DEF WordLength, DigitLength
<1>2. WordLength \div 2 = HalfLength + 1
  BY <1>1
<1>3. PICK g, b \in Nat : /\ FixnumLength = g + (HalfLength + 1)
                          /\ WordLength - 1 = FixnumLength + (b + 2)
  <2>1. /\ FixnumLength - (HalfLength + 1) \in Nat /\ WordLength - 1 - FixnumLength - 2 \in Nat
    BY <1>1
  <2>2. /\ FixnumLength = (FixnumLength - (HalfLength + 1)) + (HalfLength + 1)
        /\ WordLength - 1 = FixnumLength + ((WordLength - 1 - FixnumLength - 2) + 2)
    BY <1>1
  <2>3. QED
    BY <2>1, <2>2
<1>4. FixnumLength - WordLength \div 2 = g
  BY <1>1, <1>2, <1>3
<1>5. /\ FixnumSignBit \in Nat \ {0} /\ HalfWord \in Nat \ {0} /\ Middle \in Nat \ {0}
      /\ SignBit \in Nat \ {0}
  <2>1. /\ WordLength - 1 \in Nat /\ g \in Nat /\ HalfLength + 1 \in Nat /\ 0 \in Nat
    BY <1>1
  <2>2. QED
    BY <1>1, <1>2, <1>4, <2>1, PowerOfSum DEF FixnumSignBit, HalfWord, Middle, SignBit
<1>6. Middle * HalfWord = FixnumSignBit
  BY <1>1, <1>2, <1>3, <1>4, PowerOfSum DEF FixnumSignBit, HalfWord, Middle
<1>7. HalfWord * HalfWord = 2^WordLength
  <2>1. WordLength = (HalfLength + 1) + (HalfLength + 1) /\ HalfLength + 1 \in Nat
    BY <1>1
  <2>2. QED
    BY <1>2, <2>1, PowerOfSum DEF HalfWord
<1>8. 2^WordLength = 2 * SignBit
  <2>1. WordLength = (WordLength - 1) + 1 /\ WordLength - 1 \in Nat
    BY <1>1
  <2>2. QED
    BY <2>1, PowerOfNext DEF SignBit
<1>9. 4 * FixnumSignBit <= SignBit
  <2>1. 2^(b + 2) >= 4
    <3>1. 2^b \in Nat \ {0}
      BY PowerOfSum
    <3>2. 2^(b + 1) = 2 * 2^b /\ 2^((b + 1) + 1) = 2 * 2^(b + 1)
      BY PowerOfNext
    <3>3. (b + 1) + 1 = b + 2
      OBVIOUS
    <3>4. QED
      BY <3>1, <3>2, <3>3
  <2>2. SignBit = FixnumSignBit * 2^(b + 2)
    <3>1. 2^(FixnumLength + (b + 2)) = 2^FixnumLength * 2^(b + 2)
      <4>1. b + 2 \in Nat
        OBVIOUS
      <4>2. QED
        BY <1>1, <4>1, PowerOfSum
    <3>2. QED
      BY <1>3, <3>1 DEF SignBit, FixnumSignBit
  <2>3. 2^(b + 2) \in Nat
    BY PowerOfNext
  <2>4. \A x, y \in Nat : y >= 4 => x * y >= 4 * x
    OBVIOUS
  <2>5. QED
    BY <1>5, <2>1, <2>2, <2>3, <2>4
<1>10. QED
  BY <1>5, <1>6, <1>7, <1>8, <1>9

\* A long holds what fits in it.
LEMMA LongFits ==
  ASSUME NEW k \in Int, -SignBit <= k, k < SignBit
  PROVE  Long(k) = k
<1>1. SignBit \in Nat \ {0} /\ 2^WordLength = 2 * SignBit
  BY Sizes
<1>2. k + SignBit \in Nat /\ k + SignBit < 2 * SignBit /\ 2 * SignBit \in Nat \ {0}
  BY <1>1
<1>3. (k + SignBit) % (2 * SignBit) = k + SignBit
  BY <1>2, DivMod
<1>4. QED
  BY <1>1, <1>3 DEF Long, SignBit

\* A fixnum holds what fits in it, and the datum of c above the sign bit is negative.
LEMMA FixnumFits ==
  ASSUME NEW k \in Int
  PROVE  /\ LONG_TO_FIXNUM_P(k) => LONG_TO_FIXNUM(k) = FixnumOf(k)
         /\ 0 < k /\ k < FixnumSignBit => LONG_TO_FIXNUM(2 * FixnumSignBit - k) = FixnumOf(-k)
<1>1. FixnumSignBit \in Nat \ {0} /\ 2 * FixnumSignBit \in Nat \ {0}
  BY Sizes
<1>2. ASSUME LONG_TO_FIXNUM_P(k) PROVE LONG_TO_FIXNUM(k) = FixnumOf(k)
  <2>1. k + FixnumSignBit \in Nat /\ k + FixnumSignBit < 2 * FixnumSignBit
    BY <1>1, <1>2 DEF LONG_TO_FIXNUM_P
  <2>2. (k + FixnumSignBit) % (2 * FixnumSignBit) = k + FixnumSignBit
    BY <1>1, <2>1, DivMod
  <2>3. (k + FixnumSignBit) - FixnumSignBit = k
    BY <1>1
  <2>4. QED
    BY <1>2, <2>2, <2>3 DEF LONG_TO_FIXNUM, FixnumOf
<1>3. ASSUME 0 < k, k < FixnumSignBit
      PROVE  LONG_TO_FIXNUM(2 * FixnumSignBit - k) = FixnumOf(-k)
  <2>1. PICK a : a = (2 * FixnumSignBit - k) + FixnumSignBit
    OBVIOUS
  <2>2. /\ a \in Nat /\ a >= 2 * FixnumSignBit /\ a < 2 * (2 * FixnumSignBit)
        /\ a - 2 * FixnumSignBit = FixnumSignBit - k
    BY <1>1, <1>3, <2>1
  <2>3. a % (2 * FixnumSignBit) = FixnumSignBit - k
    BY <1>1, <2>2, DivMod
  <2>4. (FixnumSignBit - k) - FixnumSignBit = -k /\ LONG_TO_FIXNUM_P(-k)
    BY <1>1, <1>3 DEF LONG_TO_FIXNUM_P
  <2>5. QED
    BY <2>1, <2>3, <2>4 DEF LONG_TO_FIXNUM, FixnumOf
<1>4. QED
  BY <1>2, <1>3

\* FIXNUM_RESULT of what fits in a long.
LEMMA ResultExact ==
  ASSUME NEW k \in Int, -2 * FixnumSignBit <= k, k <= 2 * FixnumSignBit
  PROVE  FIXNUM_RESULT(k) = FixnumOf(k)
<1>1. FixnumSignBit \in Nat \ {0} /\ 4 * FixnumSignBit <= SignBit /\ SignBit \in Nat
  BY Sizes
<1>2. Long(k) = k
  BY <1>1, LongFits
<1>3. QED
  BY <1>2, FixnumFits DEF FIXNUM_RESULT, FixnumOf

-----------------------------------------------------------------------------
(* Multiplication.                                                         *)

\* The product of two numbers of two half words, the product of the high ones aside.
LEMMA HalfProduct ==
  ASSUME NEW h \in Nat \ {0}, NEW al \in Nat, NEW ah \in Nat, NEW bl \in Nat, NEW bh \in Nat,
         NEW a \in Nat, NEW b \in Nat, a = h * ah + al, b = h * bh + bl
  PROVE  /\ ah > 0 /\ bh > 0 => a * b >= h * h
         /\ ah = 0 \/ bh = 0 => a * b = al * bl + (al * bh + ah * bl) * h
<1>1. \A i, j \in Nat : i * j \in Nat /\ (j > 0 => i * j >= i)
  OBVIOUS
<1>3. ASSUME ah > 0, bh > 0 PROVE a * b >= h * h
  <2>1. h * ah >= h /\ h * bh >= h /\ h * ah \in Nat /\ h * bh \in Nat
    BY <1>1, <1>3
  <2>2. a >= h /\ b >= h
    BY <2>1
  <2>3. PICK i, j \in Nat : a = h + i /\ b = h + j
    <3>1. a - h \in Nat /\ b - h \in Nat /\ a = h + (a - h) /\ b = h + (b - h)
      BY <2>2
    <3>2. QED
      BY <3>1
  <2>4. (h + i) * (h + j) = h * h + h * j + i * h + i * j
    OBVIOUS
  <2>5. h * h \in Nat /\ h * j \in Nat /\ i * h \in Nat /\ i * j \in Nat
    BY <1>1
  <2>6. QED
    BY <2>3, <2>4, <2>5
<1>4. ASSUME ah = 0 PROVE a * b = al * bl + (al * bh + ah * bl) * h
  <2>1. a = al
    BY <1>4
  <2>2. al * (h * bh + bl) = al * bl + (al * bh) * h
    OBVIOUS
  <2>3. ah * bl = 0 /\ al * bh \in Nat
    BY <1>1, <1>4
  <2>4. QED
    BY <2>1, <2>2, <2>3
<1>5. ASSUME bh = 0 PROVE a * b = al * bl + (al * bh + ah * bl) * h
  <2>1. b = bl
    BY <1>5
  <2>2. (h * ah + al) * bl = al * bl + (ah * bl) * h
    OBVIOUS
  <2>3. al * bh = 0 /\ ah * bl \in Nat
    BY <1>1, <1>5
  <2>4. QED
    BY <2>1, <2>2, <2>3
<1>6. QED
  BY <1>3, <1>4, <1>5

\* A product of at least the sign bit is no fixnum, or the smallest one.
LEMMA Refused ==
  ASSUME NEW ab \in Nat, ab >= FixnumSignBit, NEW p \in Int, p = ab \/ p = -ab
  PROVE  FixnumOf(p) = SHARP_F \/ p = -FixnumSignBit
<1>1. FixnumSignBit \in Nat \ {0}
  BY Sizes
<1>2. p # -FixnumSignBit => ~LONG_TO_FIXNUM_P(p)
  BY <1>1 DEF LONG_TO_FIXNUM_P
<1>3. QED
  BY <1>2 DEF FixnumOf

\* The absolute values determine the product up to its sign.
LEMMA AbsProduct ==
  ASSUME NEW x \in Int, NEW y \in Int
  PROVE  /\ Abs(x) \in Nat /\ Abs(y) \in Nat /\ x * y \in Int /\ Abs(x) * Abs(y) \in Nat
         /\ x * y = IF (x < 0) = (y < 0) THEN Abs(x) * Abs(y) ELSE -(Abs(x) * Abs(y))
<1>1. Abs(x) \in Nat /\ Abs(y) \in Nat
  BY DEF Abs
<1>2. x * y \in Int /\ Abs(x) * Abs(y) \in Nat
  <2>1. \A i, j \in Nat : i * j \in Nat
    OBVIOUS
  <2>2. QED
    BY <1>1, <2>1
<1>3. CASE x < 0 /\ y < 0
  <2>1. Abs(x) = -x /\ Abs(y) = -y /\ (-x) * (-y) = x * y
    BY <1>3 DEF Abs
  <2>2. QED
    BY <1>1, <1>2, <1>3, <2>1
<1>4. CASE x < 0 /\ ~(y < 0)
  <2>1. Abs(x) = -x /\ Abs(y) = y /\ -((-x) * y) = x * y
    BY <1>4 DEF Abs
  <2>2. QED
    BY <1>1, <1>2, <1>4, <2>1
<1>5. CASE ~(x < 0) /\ y < 0
  <2>1. Abs(x) = x /\ Abs(y) = -y /\ -(x * (-y)) = x * y
    BY <1>5 DEF Abs
  <2>2. QED
    BY <1>1, <1>2, <1>5, <2>1
<1>6. CASE ~(x < 0) /\ ~(y < 0)
  BY <1>1, <1>2, <1>6 DEF Abs
<1>7. QED
  BY <1>3, <1>4, <1>5, <1>6

\* Mul returns the product, or refuses it because it is no fixnum or the smallest one.
LEMMA MulExact ==
  ASSUME NEW x \in Fixnums, NEW y \in Fixnums
  PROVE  \/ Mul(x, y) = FixnumOf(x.long * y.long)
         \/ x.long * y.long = -FixnumSignBit /\ Mul(x, y) = SHARP_F
<1>1. /\ FixnumSignBit \in Nat \ {0} /\ HalfWord \in Nat \ {0} /\ Middle \in Nat \ {0}
      /\ SignBit \in Nat \ {0} /\ 4 * FixnumSignBit <= SignBit
      /\ HalfWord * HalfWord = 2 * SignBit /\ Middle * HalfWord = FixnumSignBit
  BY Sizes
<1>2. x.long \in Int /\ y.long \in Int
  BY <1>1 DEF Fixnums
<1>3. PICK a, b \in Nat : a = Abs(x.long) /\ b = Abs(y.long)
  BY <1>2, AbsProduct
<1>4. PICK al, ah, bl, bh \in Nat :
        /\ al = a % HalfWord /\ ah = a \div HalfWord /\ bl = b % HalfWord /\ bh = b \div HalfWord
        /\ a = HalfWord * ah + al /\ b = HalfWord * bh + bl
  <2>1. /\ a % HalfWord \in Nat /\ a \div HalfWord \in Nat
        /\ a = HalfWord * (a \div HalfWord) + (a % HalfWord)
    BY <1>1, DivMod
  <2>2. /\ b % HalfWord \in Nat /\ b \div HalfWord \in Nat
        /\ b = HalfWord * (b \div HalfWord) + (b % HalfWord)
    BY <1>1, DivMod
  <2>3. QED
    BY <2>1, <2>2
<1>5. PICK lo, middle \in Nat : lo = al * bl /\ middle = al * bh + ah * bl
  <2>1. \A i, j \in Nat : i * j \in Nat /\ i + j \in Nat
    OBVIOUS
  <2>2. QED
    BY <2>1
<1>6. PICK ab \in Nat : ab = a * b
  <2>1. \A i, j \in Nat : i * j \in Nat
    OBVIOUS
  <2>2. QED
    BY <2>1
<1>7. /\ ah > 0 /\ bh > 0 => ab >= 2 * SignBit
      /\ ah = 0 \/ bh = 0 => ab = lo + middle * HalfWord
  <2>1. /\ ah > 0 /\ bh > 0 => a * b >= HalfWord * HalfWord
        /\ ah = 0 \/ bh = 0 => a * b = al * bl + (al * bh + ah * bl) * HalfWord
    <3>1. PICK h \in Nat \ {0} : h = HalfWord
      BY <1>1
    <3>2. a = h * ah + al /\ b = h * bh + bl
      BY <1>4, <3>1
    <3> HIDE <1>4, <1>5
    <3>3. /\ ah > 0 /\ bh > 0 => a * b >= h * h
          /\ ah = 0 \/ bh = 0 => a * b = al * bl + (al * bh + ah * bl) * h
      BY <3>2, HalfProduct
    <3>4. QED
      BY <3>1, <3>3
  <2>2. HalfWord * HalfWord = 2 * SignBit
    BY <1>1
  <2>3. al * bl = lo /\ al * bh + ah * bl = middle
    BY <1>5
  <2>4. QED
    BY <1>6, <2>1, <2>2, <2>3
<1>8. PICK p \in Int : /\ p = x.long * y.long
                       /\ p = IF (x.long < 0) = (y.long < 0) THEN ab ELSE -ab
  BY <1>2, <1>3, <1>6, AbsProduct
<1>9. PICK c : c = Long(lo + middle * HalfWord)
  OBVIOUS
<1>10. Mul(x, y) =
         IF \/ (ah > 0 /\ bh > 0) \/ lo >= FixnumSignBit \/ middle >= Middle \/ ~LONG_TO_FIXNUM_P(c)
         THEN SHARP_F
         ELSE LONG_TO_FIXNUM(IF (x.long < 0) = (y.long < 0) \/ c = 0 THEN c
                             ELSE 2 * FixnumSignBit - c)
  BY <1>3, <1>4, <1>5, <1>9 DEF Mul, Middle
<1>11. middle * HalfWord \in Nat /\ (middle >= Middle => middle * HalfWord >= FixnumSignBit)
       /\ (middle < Middle => middle * HalfWord < FixnumSignBit)
  <2>1. \A i, j, h \in Nat : i * h \in Nat /\ (i >= j => i * h >= j * h)
    OBVIOUS
  <2>2. \A i, j, h \in Nat : i < j /\ h # 0 => i * h < j * h
    OBVIOUS
  <2>3. QED
    BY <1>1, <2>1, <2>2
<1>12. CASE ab >= FixnumSignBit
  <2>1. FixnumOf(p) = SHARP_F \/ p = -FixnumSignBit
    BY <1>8, <1>12, Refused
  <2>2. Mul(x, y) = SHARP_F
    <3>1. SUFFICES ASSUME ~(ah > 0 /\ bh > 0), lo < FixnumSignBit, middle < Middle
                   PROVE  ~LONG_TO_FIXNUM_P(c)
      BY <1>1, <1>10
    <3>2. ab = lo + middle * HalfWord
      BY <1>7, <3>1
    <3>3. ab < SignBit
      BY <1>1, <1>11, <3>1, <3>2
    <3>4. c = ab
      BY <1>1, <1>9, <3>2, <3>3, LongFits
    <3>5. QED
      BY <1>1, <1>12, <3>4 DEF LONG_TO_FIXNUM_P
  <2>3. QED
    BY <1>8, <2>1, <2>2
<1>13. CASE ab < FixnumSignBit
  <2>1. ~(ah > 0 /\ bh > 0) /\ ab = lo + middle * HalfWord
    BY <1>1, <1>7, <1>13
  <2>2. lo < FixnumSignBit /\ middle < Middle
    BY <1>1, <1>11, <1>13, <2>1
  <2>3. c = ab
    BY <1>1, <1>9, <1>13, <2>1, LongFits
  <2>4. LONG_TO_FIXNUM_P(c)
    BY <1>1, <1>13, <2>3 DEF LONG_TO_FIXNUM_P
  <2>5. Mul(x, y) = LONG_TO_FIXNUM(IF (x.long < 0) = (y.long < 0) \/ ab = 0 THEN ab
                                   ELSE 2 * FixnumSignBit - ab)
    BY <1>1, <1>10, <2>1, <2>2, <2>3, <2>4
  <2>6. CASE (x.long < 0) = (y.long < 0) \/ ab = 0
    <3>1. p = ab
      BY <1>8, <2>6
    <3>2. LONG_TO_FIXNUM(ab) = FixnumOf(ab)
      BY <2>3, <2>4, FixnumFits
    <3>3. QED
      BY <1>8, <2>5, <2>6, <3>1, <3>2
  <2>7. CASE ~((x.long < 0) = (y.long < 0) \/ ab = 0)
    <3>1. p = -ab
      BY <1>8, <2>7
    <3>2. LONG_TO_FIXNUM(2 * FixnumSignBit - ab) = FixnumOf(-ab)
      BY <1>13, <2>7, FixnumFits
    <3>3. QED
      BY <1>8, <2>5, <2>7, <3>1, <3>2
  <2>8. QED
    BY <2>6, <2>7
<1>14. QED
  BY <1>1, <1>12, <1>13

-----------------------------------------------------------------------------
(* Division, and the primitives.                                           *)

\* The quotient and remainder of longs are those of a division that truncates.
LEMMA LongDivision ==
  ASSUME NEW x \in Int, NEW y \in Int, y # 0
  PROVE  /\ LongQuotient(x, y) \in Int /\ LongRemainder(x, y) \in Int
         /\ -Abs(x) <= LongQuotient(x, y) /\ LongQuotient(x, y) <= Abs(x)
         /\ LongRemainder(x, y) = x - LongQuotient(x, y) * y
         /\ Divides(x, y, LongQuotient(x, y), LongRemainder(x, y))
<1>1. PICK a \in Nat, b \in Nat \ {0} : a = Abs(x) /\ b = Abs(y)
  <2>1. Abs(x) \in Nat /\ Abs(y) \in Nat \ {0}
    BY DEF Abs
  <2>2. QED
    BY <2>1
<1>2. PICK d, e \in Nat : d = a \div b /\ e = a % b
  <2>1. a \div b \in Nat /\ a % b \in Nat
    BY DivMod
  <2>2. QED
    BY <2>1
<1>3. a = b * d + e /\ e < b
  BY <1>2, DivMod
<1>4. d <= a
  <2>1. \A i, j \in Nat : j # 0 => j * i >= i /\ j * i \in Nat
    OBVIOUS
  <2>2. QED
    BY <1>3, <2>1
<1>5. PICK q, r \in Int : q = LongQuotient(x, y) /\ r = LongRemainder(x, y)
  <2>1. LongQuotient(x, y) = IF (x < 0) = (y < 0) THEN d ELSE -d
    BY <1>1, <1>2 DEF LongQuotient
  <2>2. LongRemainder(x, y) = IF x < 0 THEN -e ELSE e
    <3>1. ~(x < 0) => x = a
      BY <1>1 DEF Abs
    <3>2. QED
      BY <1>1, <1>2, <3>1 DEF LongRemainder
  <2>3. QED
    BY <2>1, <2>2
<1>6. q = IF (x < 0) = (y < 0) THEN d ELSE -d
  BY <1>1, <1>2, <1>5 DEF LongQuotient
<1>7. r = IF x < 0 THEN -e ELSE e
  <2>1. ~(x < 0) => x = a
    BY <1>1 DEF Abs
  <2>2. QED
    BY <1>1, <1>2, <1>5, <2>1 DEF LongRemainder
<1>8. q * y \in Int /\ x = q * y + r
  <2>1. CASE x < 0 /\ y < 0
    <3>1. x = -a /\ y = -b /\ q = d /\ r = -e
      BY <1>1, <1>6, <1>7, <2>1 DEF Abs
    <3>2. d * (-b) = -(b * d)
      OBVIOUS
    <3>3. QED
      BY <1>3, <3>1, <3>2
  <2>2. CASE x < 0 /\ ~(y < 0)
    <3>1. x = -a /\ y = b /\ q = -d /\ r = -e
      BY <1>1, <1>6, <1>7, <2>2 DEF Abs
    <3>2. (-d) * b = -(b * d)
      OBVIOUS
    <3>3. QED
      BY <1>3, <3>1, <3>2
  <2>3. CASE ~(x < 0) /\ y < 0
    <3>1. x = a /\ y = -b /\ q = -d /\ r = e
      BY <1>1, <1>6, <1>7, <2>3 DEF Abs
    <3>2. (-d) * (-b) = b * d
      OBVIOUS
    <3>3. QED
      BY <1>3, <3>1, <3>2
  <2>4. CASE ~(x < 0) /\ ~(y < 0)
    <3>1. x = a /\ y = b /\ q = d /\ r = e
      BY <1>1, <1>6, <1>7, <2>4 DEF Abs
    <3>2. QED
      BY <1>3, <3>1
  <2>5. QED
    BY <2>1, <2>2, <2>3, <2>4
<1>9. Abs(r) < Abs(y)
  BY <1>1, <1>3, <1>7 DEF Abs
<1>10. -a <= q /\ q <= a
  BY <1>4, <1>6
<1>11. r # 0 => (r < 0 <=> x < 0)
  BY <1>7
<1>12. r = x - q * y
  BY <1>8
<1>13. Divides(x, y, q, r)
  BY <1>8, <1>9, <1>11 DEF Divides
<1>14. QED
  BY <1>1, <1>5, <1>10, <1>12, <1>13

\* What the primitives that divide return.
LEMMA DivisionResult ==
  ASSUME NEW x \in Fixnums, NEW y \in Fixnums, y.long # 0,
         NEW q, q = LongQuotient(x.long, y.long), NEW r, r = x.long - q * y.long
  PROVE  /\ q \in -FixnumSignBit .. FixnumSignBit
         /\ Divides(x.long, y.long, q, r)
         /\ FixnumPrimitive("FIXNUM-QUOTIENT", x, y) = FixnumOf(q)
         /\ FixnumPrimitive("FIXNUM-REMAINDER", x, y) = FixnumOf(r)
         /\ DIVIDE_FIXNUM(x, y) = IF LONG_TO_FIXNUM_P(q) THEN <<FixnumOf(q), FixnumOf(r)>>
                                  ELSE <<SHARP_F>>
<1>1. FixnumSignBit \in Nat \ {0}
  BY Sizes
<1>2. /\ x.long \in Int /\ -FixnumSignBit <= x.long /\ x.long < FixnumSignBit
      /\ y.long \in Int /\ -FixnumSignBit <= y.long /\ y.long < FixnumSignBit
  BY <1>1 DEF Fixnums
<1>3. /\ q \in Int /\ r = LongRemainder(x.long, y.long) /\ r \in Int
      /\ -Abs(x.long) <= q /\ q <= Abs(x.long) /\ Divides(x.long, y.long, q, r)
  BY <1>2, LongDivision
<1>4. -FixnumSignBit <= q /\ q <= FixnumSignBit
  BY <1>1, <1>2, <1>3 DEF Abs
<1>5. LONG_TO_FIXNUM_P(r)
  BY <1>1, <1>2, <1>3 DEF Abs, Divides, LONG_TO_FIXNUM_P
<1>6. -FixnumSignBit <= r /\ r < FixnumSignBit
  BY <1>5 DEF LONG_TO_FIXNUM_P
<1>7. FIXNUM_RESULT(q) = FixnumOf(q) /\ FIXNUM_RESULT(r) = FixnumOf(r)
  BY <1>1, <1>3, <1>4, <1>6, ResultExact
<1>8. /\ FixnumPrimitive("FIXNUM-QUOTIENT", x, y) = FIXNUM_RESULT(q)
      /\ FixnumPrimitive("FIXNUM-REMAINDER", x, y) = FIXNUM_RESULT(r)
  BY <1>3 DEF FixnumPrimitive
<1>9. LONG_TO_FIXNUM(r) = FixnumOf(r) /\ (LONG_TO_FIXNUM_P(q) => LONG_TO_FIXNUM(q) = FixnumOf(q))
  BY <1>3, <1>5, FixnumFits
<1>10. DIVIDE_FIXNUM(x, y) = IF LONG_TO_FIXNUM_P(q) THEN <<FixnumOf(q), FixnumOf(r)>>
                             ELSE <<SHARP_F>>
  BY <1>3, <1>9 DEF DIVIDE_FIXNUM
<1>11. QED
  BY <1>1, <1>3, <1>4, <1>7, <1>8, <1>10

\* What the other primitives return.
LEMMA SumResult ==
  ASSUME NEW x \in Fixnums, NEW y \in Fixnums
  PROVE  /\ FixnumPrimitive("PLUS-FIXNUM", x, y) = FixnumOf(x.long + y.long)
         /\ FixnumPrimitive("MINUS-FIXNUM", x, y) = FixnumOf(x.long - y.long)
         /\ FixnumPrimitive("FIXNUM-NEGATE", x, y) = FixnumOf(-x.long)
         /\ FixnumPrimitive("ONE-PLUS-FIXNUM", x, y) = FixnumOf(x.long + 1)
         /\ FixnumPrimitive("MINUS-ONE-PLUS-FIXNUM", x, y) = FixnumOf(x.long - 1)
         /\ FixnumPrimitive("MULTIPLY-FIXNUM", x, y) = Mul(x, y)
<1>1. FixnumSignBit \in Nat \ {0}
  BY Sizes
<1>2. /\ x.long \in Int /\ -FixnumSignBit <= x.long /\ x.long < FixnumSignBit
      /\ y.long \in Int /\ -FixnumSignBit <= y.long /\ y.long < FixnumSignBit
  BY <1>1 DEF Fixnums
<1>3. \A k \in Int : -2 * FixnumSignBit <= k /\ k <= 2 * FixnumSignBit
                       => FIXNUM_RESULT(k) = FixnumOf(k)
  BY ResultExact
<1>4. FIXNUM_RESULT(x.long + y.long) = FixnumOf(x.long + y.long)
  BY <1>1, <1>2, <1>3
<1>5. FIXNUM_RESULT(x.long - y.long) = FixnumOf(x.long - y.long)
  BY <1>1, <1>2, <1>3
<1>6. FIXNUM_RESULT(-x.long) = FixnumOf(-x.long)
  BY <1>1, <1>2, <1>3
<1>7. FIXNUM_RESULT(x.long + 1) = FixnumOf(x.long + 1)
  BY <1>1, <1>2, <1>3
<1>8. FIXNUM_RESULT(x.long - 1) = FixnumOf(x.long - 1)
  BY <1>1, <1>2, <1>3
<1>9. QED
  BY <1>4, <1>5, <1>6, <1>7, <1>8 DEF FixnumPrimitive

\* A primitive of fixnums is exact whenever it is called.
LEMMA FixnumStep ==
  ASSUME n \in Fixnums, m \in Fixnums, Fixnum
  PROVE  FixnumExact'
<1>1. n' = n /\ m' = m
  BY DEF Fixnum, Returns
<1>2. CASE \E op \in FixnumOps : Returns(op, 0, <<FixnumPrimitive(op, n, m)>>)
  <2>1. PICK op \in FixnumOps : /\ call' = [op |-> op, k |-> 0]
                                /\ result' = <<FixnumPrimitive(op, n, m)>>
    BY <1>2 DEF Returns
  <2>2. call'.op = op /\ op # "DIVIDE-FIXNUM"
    BY <2>1 DEF FixnumOps
  <2>3. /\ op = "PLUS-FIXNUM" => result' = <<FixnumOf(n.long + m.long)>>
        /\ op = "MINUS-FIXNUM" => result' = <<FixnumOf(n.long - m.long)>>
        /\ op = "FIXNUM-NEGATE" => result' = <<FixnumOf(-n.long)>>
        /\ op = "ONE-PLUS-FIXNUM" => result' = <<FixnumOf(n.long + 1)>>
        /\ op = "MINUS-ONE-PLUS-FIXNUM" => result' = <<FixnumOf(n.long - 1)>>
    BY <2>1, SumResult
  <2>4. op = "MULTIPLY-FIXNUM" =>
          \/ result' = <<FixnumOf(n.long * m.long)>>
          \/ n.long * m.long = -FixnumSignBit /\ result' = <<SHARP_F>>
    BY <2>1, SumResult, MulExact
  <2>5. ASSUME op \in {"FIXNUM-QUOTIENT", "FIXNUM-REMAINDER"}, m.long = 0
        PROVE  result' = <<SHARP_F>>
    BY <2>1, <2>5 DEF FixnumPrimitive
  <2>6. ASSUME op \in {"FIXNUM-QUOTIENT", "FIXNUM-REMAINDER"}, m.long # 0
        PROVE  \E q \in -FixnumSignBit .. FixnumSignBit :
                 LET r == n.long - q * m.long
                 IN /\ Divides(n.long, m.long, q, r)
                    /\ result' = CASE op = "FIXNUM-QUOTIENT" -> <<FixnumOf(q)>>
                                   [] op = "FIXNUM-REMAINDER" -> <<FixnumOf(r)>>
                                   [] OTHER -> IF LONG_TO_FIXNUM_P(q)
                                               THEN <<FixnumOf(q), FixnumOf(r)>> ELSE <<SHARP_F>>
    <3>1. PICK q : q = LongQuotient(n.long, m.long)
      OBVIOUS
    <3>2. PICK r : r = n.long - q * m.long
      OBVIOUS
    <3>3. /\ q \in -FixnumSignBit .. FixnumSignBit /\ Divides(n.long, m.long, q, r)
          /\ FixnumPrimitive("FIXNUM-QUOTIENT", n, m) = FixnumOf(q)
          /\ FixnumPrimitive("FIXNUM-REMAINDER", n, m) = FixnumOf(r)
      BY <2>6, <3>1, <3>2, DivisionResult
    <3>4. QED
      BY <2>1, <2>6, <3>2, <3>3
  <2>7. QED
    BY <1>1, <2>2, <2>3, <2>4, <2>5, <2>6 DEF FixnumExact
<1>3. CASE Returns("DIVIDE-FIXNUM", 0, DIVIDE_FIXNUM(n, m))
  <2>1. call'.op = "DIVIDE-FIXNUM" /\ result' = DIVIDE_FIXNUM(n, m)
    BY <1>3 DEF Returns
  <2>2. m.long = 0 => result' = <<SHARP_F>>
    BY <2>1 DEF DIVIDE_FIXNUM
  <2>3. ASSUME m.long # 0
        PROVE  \E q \in -FixnumSignBit .. FixnumSignBit :
                 LET r == n.long - q * m.long
                 IN /\ Divides(n.long, m.long, q, r)
                    /\ result' = IF LONG_TO_FIXNUM_P(q)
                                 THEN <<FixnumOf(q), FixnumOf(r)>> ELSE <<SHARP_F>>
    <3>1. PICK q : q = LongQuotient(n.long, m.long)
      OBVIOUS
    <3>2. PICK r : r = n.long - q * m.long
      OBVIOUS
    <3>3. /\ q \in -FixnumSignBit .. FixnumSignBit /\ Divides(n.long, m.long, q, r)
          /\ DIVIDE_FIXNUM(n, m) = IF LONG_TO_FIXNUM_P(q) THEN <<FixnumOf(q), FixnumOf(r)>>
                                   ELSE <<SHARP_F>>
      BY <2>3, <3>1, <3>2, DivisionResult
    <3>4. QED
      BY <2>1, <3>2, <3>3
  <2>4. QED
    BY <1>1, <2>1, <2>2, <2>3 DEF FixnumExact
<1>4. QED
  BY <1>2, <1>3 DEF Fixnum

\* Sums, differences, products and quotients of fixnums are exact or signalled, for words
\* of any even length and any fixnums of less than a digit (fixnum.c, mul.c: Mul).
THEOREM FixnumsAreExact == FixnumSpec => []FixnumExact
<1> DEFINE FixnumInv == n \in Fixnums /\ m \in Fixnums /\ FixnumExact
<1>1. FixnumInit => FixnumInv
  <2> SUFFICES ASSUME FixnumInit PROVE FixnumInv
    OBVIOUS
  <2>1. call.op = "none" /\ n \in Fixnums /\ m \in Fixnums
    BY DEF FixnumInit
  <2>2. QED
    BY <2>1 DEF FixnumExact
<1>2. FixnumInv /\ [Fixnum]_vars => FixnumInv'
  <2> SUFFICES ASSUME FixnumInv, [Fixnum]_vars PROVE FixnumInv'
    OBVIOUS
  <2>1. CASE Fixnum
    <3>1. n' = n /\ m' = m
      BY <2>1 DEF Fixnum, Returns
    <3>2. QED
      BY <2>1, <3>1, FixnumStep
  <2>2. CASE UNCHANGED vars
    BY <2>2 DEF vars, FixnumExact
  <2>3. QED
    BY <2>1, <2>2
<1>3. FixnumInv => FixnumExact
  OBVIOUS
<1>4. QED
  BY <1>1, <1>2, <1>3, PTL DEF FixnumSpec
=============================================================================
