------------------------------- MODULE Bignum -------------------------------
(***************************************************************************)
(* Arbitrary-precision integers (bignum.c, bignmint.h): sign and magnitude *)
(* with the digits in a vector, least significant first.  The loops of the *)
(* code are folds over digit indices that carry the same state.            *)
(***************************************************************************)
EXTENDS MachineWord, Sequences, SequencesExt, FiniteSetsExt, Bitwise

Root == 2^HalfLength
Radix == 2^DigitLength

HD_LOW(digit) == digit % Root
HD_HIGH(digit) == digit \div Root
HD_CONS(high, low) == high * Root + low
BITS_TO_DIGITS(n) == (n + DigitLength - 1) \div DigitLength

Up(n) == [i \in 1..n |-> i]
Down(n) == [i \in 1..n |-> n + 1 - i]

\* A word of a magnitude.  The word after the last digit of a bignum that was
\* trimmed by one word is #f, whose bits are zero.
At(mag, i) == IF i \in 1..Len(mag) THEN mag[i] ELSE 0

Big(neg, mag) == [type |-> "bignum", neg |-> neg, mag |-> mag]
BIGNUM_ZERO == Big(FALSE, <<>>)
BIGNUM_ONE(neg) == Big(neg, <<1>>)
ZERO_P(x) == x.mag = <<>>
POSITIVE_P(x) == ~ZERO_P(x) /\ ~x.neg
Zeros(n) == [i \in 1..n |-> 0]

\* bignum_trim: drop the high zero digits; only then is the sign looked at.
bignum_trim(x) ==
  LET kept == Max({0} \cup {i \in DOMAIN x.mag : x.mag[i] # 0}) IN
  IF kept < Len(x.mag) THEN Big(kept # 0 /\ x.neg, SubSeq(x.mag, 1, kept)) ELSE x

bignum_new_sign(x, neg) == Big(neg, x.mag)
bignum_digit_to_bignum(digit, neg) == IF digit = 0 THEN BIGNUM_ZERO ELSE Big(neg, <<digit>>)

\* ulong_length_in_bits, ulong_bit_count
length_in_bits(n) == CHOOSE k \in 0..WordLength : n < 2^k /\ (k > 0 => n >= 2^(k - 1))
bit_count(n) == Cardinality({i \in 0..(WordLength - 1) : (n \div 2^i) % 2 = 1})

-----------------------------------------------------------------------------
(* Comparison, addition, subtraction.                                      *)

bignum_compare_unsigned(x, y) ==
  LET differ == {i \in DOMAIN x.mag : x.mag[i] # y.mag[i]} IN
  IF Len(x.mag) # Len(y.mag) THEN IF Len(x.mag) < Len(y.mag) THEN "less" ELSE "greater"
  ELSE IF differ = {} THEN "equal"
  ELSE IF x.mag[Max(differ)] < y.mag[Max(differ)] THEN "less" ELSE "greater"

bignum_equal_p(x, y) ==
  IF ZERO_P(x) THEN ZERO_P(y) ELSE ~ZERO_P(y) /\ x.neg = y.neg /\ x.mag = y.mag

bignum_compare(x, y) ==
  CASE ZERO_P(x) /\ ZERO_P(y) -> "equal"
    [] ZERO_P(x) /\ ~ZERO_P(y) -> IF y.neg THEN "greater" ELSE "less"
    [] ~ZERO_P(x) /\ (ZERO_P(y) \/ x.neg # y.neg) -> IF x.neg THEN "less" ELSE "greater"
    [] OTHER -> IF x.neg THEN bignum_compare_unsigned(y, x) ELSE bignum_compare_unsigned(x, y)

\* The sum of two magnitudes, the first not the shorter, from carry c.
AddDigits(xs, ys) ==
  FoldLeft(LAMBDA a, i :
      LET sum == Long(xs[i] + At(ys, i) + a.carry) IN
      IF sum < Radix THEN [mag |-> Append(a.mag, sum), carry |-> 0]
      ELSE [mag |-> Append(a.mag, sum - Radix), carry |-> 1],
    [mag |-> <<>>, carry |-> 0], Up(Len(xs)))

\* Mutant: the last carry is lost.
bignum_add_unsigned_short(x, y, neg) ==
  Big(neg, IF Len(y.mag) > Len(x.mag) THEN AddDigits(y.mag, x.mag).mag ELSE AddDigits(x.mag, y.mag).mag)

bignum_add_unsigned(x, y, neg) ==
  LET r == IF Len(y.mag) > Len(x.mag) THEN AddDigits(y.mag, x.mag) ELSE AddDigits(x.mag, y.mag) IN
  Big(neg, IF r.carry # 0 THEN Append(r.mag, 1) ELSE r.mag)

SubtractDigits(xs, ys) ==
  FoldLeft(LAMBDA a, i :
      LET difference == xs[i] - At(ys, i) - a.borrow IN
      IF difference < 0 THEN [mag |-> Append(a.mag, difference + Radix), borrow |-> 1]
      ELSE [mag |-> Append(a.mag, difference), borrow |-> 0],
    [mag |-> <<>>, borrow |-> 0], Up(Len(xs)))

bignum_subtract_unsigned(x, y) ==
  CASE bignum_compare_unsigned(x, y) = "equal" -> BIGNUM_ZERO
    [] bignum_compare_unsigned(x, y) = "less" -> bignum_trim(Big(TRUE, SubtractDigits(y.mag, x.mag).mag))
    [] OTHER -> bignum_trim(Big(FALSE, SubtractDigits(x.mag, y.mag).mag))

bignum_add(x, y) ==
  CASE ZERO_P(x) -> y
    [] ~ZERO_P(x) /\ ZERO_P(y) -> x
    [] OTHER -> IF x.neg = y.neg THEN bignum_add_unsigned(x, y, x.neg)
                ELSE IF x.neg THEN bignum_subtract_unsigned(y, x)
                ELSE bignum_subtract_unsigned(x, y)

bignum_negate(x) == IF ZERO_P(x) THEN x ELSE bignum_new_sign(x, ~x.neg)

bignum_subtract(x, y) ==
  CASE ZERO_P(x) -> bignum_negate(y)
    [] ~ZERO_P(x) /\ ZERO_P(y) -> x
    [] OTHER -> IF x.neg # y.neg THEN bignum_add_unsigned(x, y, x.neg)
                ELSE IF x.neg THEN bignum_subtract_unsigned(y, x)
                ELSE bignum_subtract_unsigned(x, y)

-----------------------------------------------------------------------------
(* Multiplication, by half digits.                                         *)

\* One step of the inner loops: a * b + addend + carry as two digits.
MultiplyStep(a, b, addend, carry) ==
  LET low == Long(addend + HD_LOW(a) * HD_LOW(b) + HD_LOW(carry))
      high == Long(HD_HIGH(a) * HD_LOW(b) + HD_LOW(a) * HD_HIGH(b) + HD_HIGH(low) + HD_HIGH(carry)) IN
  [digit |-> HD_CONS(HD_LOW(high), HD_LOW(low)), carry |-> Long(HD_HIGH(a) * HD_HIGH(b) + HD_HIGH(high))]

bignum_multiply_unsigned(x, y, neg) ==
  LET xs == IF Len(y.mag) > Len(x.mag) THEN y.mag ELSE x.mag
      ys == IF Len(y.mag) > Len(x.mag) THEN x.mag ELSE y.mag
      column(r, i) ==
        LET a == FoldLeft(LAMBDA s, j :
                   LET p == MultiplyStep(xs[i], ys[j], s.r[i + j - 1], s.carry) IN
                   [r |-> [s.r EXCEPT ![i + j - 1] = p.digit], carry |-> p.carry],
                 [r |-> r, carry |-> 0], Up(Len(ys))) IN
        [a.r EXCEPT ![i + Len(ys)] = Long(@ + a.carry)] IN
  bignum_trim(Big(neg, FoldLeft(column, Zeros(Len(xs) + Len(ys)), Up(Len(xs)))))

\* A carry out of the last digit is lost: the callers leave room for it.
bignum_destructive_scale_up(mag, factor) ==
  FoldLeft(LAMBDA s, i :
      LET p == MultiplyStep(mag[i], factor, 0, s.carry) IN
      [mag |-> Append(s.mag, p.digit), carry |-> p.carry],
    [mag |-> <<>>, carry |-> 0], Up(Len(mag))).mag

bignum_multiply_unsigned_small_factor(x, digit, neg) ==
  bignum_trim(Big(neg, bignum_destructive_scale_up(Append(x.mag, 0), digit)))

bignum_multiply(x, y) ==
  LET neg == x.neg # y.neg
      single(z, p(_)) == Len(z.mag) = 1 /\ p(z.mag[1])
      one(d) == d = 1
      small(d) == d < Root IN
  CASE ZERO_P(x) -> x
    [] ~ZERO_P(x) /\ ZERO_P(y) -> y
    [] OTHER ->
         IF single(x, one) THEN bignum_new_sign(y, neg)
         ELSE IF single(x, small) THEN bignum_multiply_unsigned_small_factor(y, x.mag[1], neg)
         ELSE IF single(y, one) THEN bignum_new_sign(x, neg)
         ELSE IF single(y, small) THEN bignum_multiply_unsigned_small_factor(x, y.mag[1], neg)
         ELSE bignum_multiply_unsigned(x, y, neg)

-----------------------------------------------------------------------------
(* Division.  Both the division of a bignum by a normalized bignum and the *)
(* division of two digits by a normalized digit, in half digits, are the   *)
(* same schoolbook algorithm: a guess from the two leading digits, lowered *)
(* while the third digit shows that it is too large, multiplied by the     *)
(* denominator and subtracted; when that borrows, the denominator is added *)
(* back once.  The two differ in the base, in the product of two digits    *)
(* and in the division that makes the guess.                               *)

\* Mutant: the guess is never lowered.
LowerGuessNever(radix, guess, high, low, v1, v2) == guess

\* The guess loop: guess * v2 against the comparand high * radix + low.
LowerGuess(radix, guess, high, low, v1, v2) ==
  LET enough(k) == \/ (guess - k) * v2 <= (high + k * v1) * radix + low
                   \/ k > 0 /\ high + k * v1 >= radix IN
  guess - Min({k \in 0..guess : enough(k)})

HalfTimes(a, b, carry) ==
  LET product == a * b + carry IN [digit |-> HD_LOW(product), carry |-> HD_HIGH(product)]
DigitTimes(a, b, carry) == MultiplyStep(a, b, 0, carry)
Product(radix, a, b, carry) == IF radix = Root THEN HalfTimes(a, b, carry) ELSE DigitTimes(a, b, carry)

\* bignum_divide_subtract, bignum_digit_divide_subtract: u[at + 1 ..] minus
\* guess * v, in the digits below the top one ...
MultiplySubtract(radix, v, guess, u, at) ==
  FoldLeft(LAMBDA s, i :
             LET p == Product(radix, v[i], guess, s.carry)
                 diff == u[at + i] - p.digit IN
             [u |-> [s.u EXCEPT ![at + i] = IF diff < 0 THEN diff + radix ELSE diff],
              carry |-> p.carry + (IF diff < 0 THEN 1 ELSE 0)],
           [u |-> u, carry |-> 0], Up(Len(v)))

\* ... v added back to them ...
AddBack(radix, v, u, at) ==
  FoldLeft(LAMBDA s, i :
             LET sum == v[i] + u[at + i] + s.carry IN
             [u |-> [s.u EXCEPT ![at + i] = IF sum < radix THEN sum ELSE sum - radix],
              carry |-> IF sum < radix THEN 0 ELSE 1],
           [u |-> u, carry |-> 0], Up(Len(v)))

\* ... and the top digit, which tells whether the guess was one too large.
Settle(s, radix, v, guess, at) ==
  LET top == at + Len(v) + 1
      diff == s.u[top] - s.carry
      back == AddBack(radix, v, s.u, at) IN
  IF s.carry = 0 THEN [u |-> s.u, q |-> guess]
  ELSE IF diff >= 0 THEN [u |-> [s.u EXCEPT ![top] = diff], q |-> guess]
  ELSE [u |-> [back.u EXCEPT ![top] = (diff + radix + back.carry) % radix], q |-> guess - 1]
DivideSubtract(radix, v, guess, u, at) ==
  Settle(MultiplySubtract(radix, v, guess, u, at), radix, v, guess, at)

\* One digit of the quotient, in front of those found before: d is the
\* quotient and remainder of u[j], u[j - 1] by the high digit of v.
WithDigit(e, q) == [u |-> e.u, q |-> <<e.q>> \o q]
DivideStep(radix, v, s, j, d) ==
  LET n == Len(v)
      first == IF s.u[j] # v[n] THEN d ELSE [q |-> radix - 1, r |-> s.u[j - 1] + v[n]]
      guess == LowerGuess(radix, first.q, first.r, s.u[j - 2], v[n], v[n - 1]) IN
  WithDigit(DivideSubtract(radix, v, guess, s.u, j - n - 1), s.q)

HalfDivide(high, low, v1) == [q |-> HD_CONS(high, low) \div v1, r |-> HD_CONS(high, low) % v1]

HalfStep(v, s, j) ==
  DivideStep(Root, <<HD_LOW(v), HD_HIGH(v)>>, s, j, HalfDivide(s.u[j], s.u[j - 1], HD_HIGH(v)))
FromHalves(d) == [q |-> HD_CONS(d.q[2], d.q[1]), r |-> HD_CONS(d.u[2], d.u[1])]
bignum_digit_divide(uh, ul, v) ==
  LET u == <<HD_LOW(ul), HD_HIGH(ul), HD_LOW(uh), HD_HIGH(uh)>> IN
  CASE uh = 0 /\ ul < v -> [q |-> 0, r |-> ul]
    [] uh = 0 /\ ul = v -> [q |-> 1, r |-> 0]
    [] OTHER -> FromHalves(HalfStep(v, HalfStep(v, [u |-> u, q |-> <<>>], 4), 3))

bignum_divide_unsigned_normalized(u, v) ==
  LET step(s, j) == DivideStep(Radix, v, s, j, bignum_digit_divide(s.u[j], s.u[j - 1], v[Len(v)])) IN
  FoldLeft(step, [u |-> u, q |-> <<>>], [i \in 1..(Len(u) - Len(v)) |-> Len(u) + 1 - i])

\* The left shift that makes the high digit at least half the radix.
NormalizingShift(digit) == CHOOSE k \in 0..(DigitLength - 1) : Radix \div 2 <= digit * 2^k /\ digit * 2^k < Radix

\* The source shifted left into a target of length digits.
bignum_destructive_normalization(source, length, shift) ==
  [i \in 1..length |-> ((At(source, i) * 2^shift) % Radix) + (At(source, i - 1) \div 2^(DigitLength - shift))]

bignum_destructive_unnormalization(mag, shift) ==
  [i \in DOMAIN mag |-> (mag[i] \div 2^shift) + ((At(mag, i + 1) * 2^(DigitLength - shift)) % Radix)]

bignum_divide_unsigned_large_denominator(n, d, q_neg, r_neg) ==
  LET shift == NormalizingShift(Last(d.mag))
      u == IF shift = 0 THEN Append(n.mag, 0)
           ELSE bignum_destructive_normalization(n.mag, Len(n.mag) + 1, shift)
      v == IF shift = 0 THEN d.mag ELSE bignum_destructive_normalization(d.mag, Len(d.mag), shift)
      e == bignum_divide_unsigned_normalized(u, v)
      r == IF shift = 0 THEN e.u ELSE bignum_destructive_unnormalization(e.u, shift) IN
  [q |-> bignum_trim(Big(q_neg, e.q)), r |-> bignum_trim(Big(r_neg, r))]

bignum_divide_unsigned_medium_denominator(n, digit, q_neg, r_neg) ==
  LET shift == NormalizingShift(digit)
      mag == IF shift = 0 THEN n.mag ELSE bignum_destructive_normalization(n.mag, Len(n.mag) + 1, shift)
      e == FoldLeft(LAMBDA s, i :
             LET d == bignum_digit_divide(s.r, mag[i], digit * 2^shift) IN [mag |-> <<d.q>> \o s.mag, r |-> d.r],
           [mag |-> <<>>, r |-> 0], Down(Len(mag))) IN
  [q |-> bignum_trim(Big(q_neg, e.mag)), r |-> bignum_digit_to_bignum(e.r \div 2^shift, r_neg)]

bignum_destructive_scale_down(mag, denominator) ==
  FoldLeft(LAMBDA s, i :
      LET high == HD_CONS(s.r, HD_HIGH(mag[i]))
          low == HD_CONS(high % denominator, HD_LOW(mag[i])) IN
      [mag |-> <<HD_CONS(high \div denominator, low \div denominator)>> \o s.mag, r |-> low % denominator],
    [mag |-> <<>>, r |-> 0], Down(Len(mag)))

bignum_divide_unsigned_small_denominator(n, digit, q_neg, r_neg) ==
  LET e == bignum_destructive_scale_down(n.mag, digit) IN
  [q |-> bignum_trim(Big(q_neg, e.mag)), r |-> bignum_digit_to_bignum(e.r, r_neg)]

bignum_remainder_unsigned_small_denominator(n, d, neg) ==
  bignum_digit_to_bignum(
    FoldLeft(LAMBDA r, i : HD_CONS(HD_CONS(r, HD_HIGH(n.mag[i])) % d, HD_LOW(n.mag[i])) % d,
             0, Down(Len(n.mag))), neg)

DivideUnsigned(n, d, q_neg, r_neg) ==
  CASE Len(d.mag) = 1 /\ d.mag[1] < Root -> bignum_divide_unsigned_small_denominator(n, d.mag[1], q_neg, r_neg)
    [] Len(d.mag) = 1 /\ d.mag[1] >= Root -> bignum_divide_unsigned_medium_denominator(n, d.mag[1], q_neg, r_neg)
    [] OTHER -> bignum_divide_unsigned_large_denominator(n, d, q_neg, r_neg)

\* bignum_divide, and bignum_quotient; SHARP_F when the denominator is zero.
bignum_divide(n, d) ==
  LET q_neg == n.neg # d.neg
      order == bignum_compare_unsigned(n, d) IN
  CASE ZERO_P(d) -> [q |-> SHARP_F, r |-> SHARP_F]
    [] ~ZERO_P(d) /\ ZERO_P(n) -> [q |-> n, r |-> n]
    [] OTHER -> IF order = "equal" THEN [q |-> BIGNUM_ONE(q_neg), r |-> BIGNUM_ZERO]
                ELSE IF order = "less" THEN [q |-> BIGNUM_ZERO, r |-> n]
                ELSE IF d.mag = <<1>> THEN [q |-> bignum_new_sign(n, q_neg), r |-> BIGNUM_ZERO]
                ELSE DivideUnsigned(n, d, q_neg, n.neg)

bignum_quotient(n, d) == bignum_divide(n, d).q

\* bignum_remainder: a denominator that is a power of two within one digit is
\* a mask of the low digit, and a small one keeps no quotient.
bignum_remainder(n, d) ==
  LET digit == d.mag[1]
      order == bignum_compare_unsigned(n, d) IN
  CASE ZERO_P(d) -> SHARP_F
    [] ~ZERO_P(d) /\ ZERO_P(n) -> n
    [] OTHER -> IF order = "equal" THEN BIGNUM_ZERO
                ELSE IF order = "less" THEN n
                ELSE IF Len(d.mag) = 1 /\ digit & (digit - 1) = 0
                     THEN bignum_digit_to_bignum((digit - 1) & n.mag[1], n.neg)
                ELSE IF Len(d.mag) = 1 /\ digit < Root
                     THEN bignum_remainder_unsigned_small_denominator(n, digit, n.neg)
                ELSE DivideUnsigned(n, d, FALSE, n.neg).r

-----------------------------------------------------------------------------
(* Conversion from and to machine words.                                   *)

\* The digits of an unsigned word, by masking and shifting.
WordDigits(n) == [i \in 1..BITS_TO_DIGITS(length_in_bits(n)) |-> (n \div Radix^(i - 1)) % Radix]

long_to_bignum(n) == Big(n < 0, WordDigits((IF n < 0 THEN -n ELSE n) % 2^WordLength))
ulong_to_bignum(n) == Big(FALSE, WordDigits(n))

Accumulate(mag) == FoldLeft(LAMBDA a, i : (a * Radix + mag[i]) % 2^WordLength, 0, Down(Len(mag)))
bignum_to_ulong(x) == Accumulate(x.mag)
bignum_to_long(x) == LET n == Long(Accumulate(x.mag)) IN IF x.neg THEN Long(-n) ELSE n

\* The test of the last digit lets a negative number whose high bit is the
\* sign bit pass whatever its low digits.
bignum_fits_in_word_p(x, word_length, twos_complement_p) ==
  LET n_bits == IF twos_complement_p THEN word_length - 1 ELSE word_length
      max_digits == BITS_TO_DIGITS(n_bits)
      max == 2^(n_bits - (Len(x.mag) - 1) * DigitLength) IN
  /\ ~twos_complement_p => ~x.neg
  /\ \/ Len(x.mag) < max_digits
     \/ /\ Len(x.mag) = max_digits
        /\ \/ Last(x.mag) < max
           \/ twos_complement_p /\ Last(x.mag) = max /\ x.neg

-----------------------------------------------------------------------------
(* Bitwise operations: integers as infinite two's-complement bit strings,  *)
(* over digits that hold the magnitude.  A negative number is replaced by  *)
(* its complement, which is not negative, and the operation by another.    *)

bignum_bitwise_not(x) == bignum_subtract(BIGNUM_ONE(TRUE), x)

BitwiseDigit(op, x, y) ==
  CASE op \in {"and", "nand"} -> x & y
    [] op = "andc2" -> x - (x & y)
    [] op = "andc1" -> y - (x & y)
    [] op \in {"xor", "eqv"} -> x ^^ y
    [] op \in {"ior", "nor"} -> x | y

\* What each operation becomes for the signs of its operands, and its value
\* when y (x0) or x (y0) is zero.
BitwiseTable ==
  [and   |-> [x0 |-> "zero", y0 |-> "zero", pp |-> "and",   pn |-> "andc2", np |-> "andc1", nn |-> "nor"],
   andc2 |-> [x0 |-> "x",    y0 |-> "zero", pp |-> "andc2", pn |-> "and",   np |-> "nor",   nn |-> "andc1"],
   andc1 |-> [x0 |-> "zero", y0 |-> "y",    pp |-> "andc1", pn |-> "nor",   np |-> "and",   nn |-> "andc2"],
   xor   |-> [x0 |-> "x",    y0 |-> "y",    pp |-> "xor",   pn |-> "eqv",   np |-> "eqv",   nn |-> "xor"],
   ior   |-> [x0 |-> "x",    y0 |-> "y",    pp |-> "ior",   pn |-> "orc2",  np |-> "orc1",  nn |-> "nand"],
   nor   |-> [x0 |-> "notx", y0 |-> "noty", pp |-> "nor",   pn |-> "andc1", np |-> "andc2", nn |-> "and"],
   eqv   |-> [x0 |-> "notx", y0 |-> "noty", pp |-> "eqv",   pn |-> "xor",   np |-> "xor",   nn |-> "eqv"],
   orc2  |-> [x0 |-> "ones", y0 |-> "noty", pp |-> "orc2",  pn |-> "ior",   np |-> "nand",  nn |-> "orc1"],
   orc1  |-> [x0 |-> "notx", y0 |-> "ones", pp |-> "orc1",  pn |-> "nand",  np |-> "ior",   nn |-> "orc2"],
   nand  |-> [x0 |-> "ones", y0 |-> "ones", pp |-> "nand",  pn |-> "orc1",  np |-> "orc2",  nn |-> "ior"]]

BitwiseDefault(what, x, y) ==
  CASE what = "zero" -> BIGNUM_ZERO
    [] what = "ones" -> BIGNUM_ONE(TRUE)
    [] what = "x" -> x
    [] what = "y" -> y
    [] what = "notx" -> bignum_bitwise_not(x)
    [] what = "noty" -> bignum_bitwise_not(y)

\* The operations on magnitudes; orc1 and orc2 are complements of the signed
\* andc2 and andc1 of the same operands.
BitwiseUnsigned(op, x, y) ==
  LET base == IF op = "orc1" THEN "andc2" ELSE IF op = "orc2" THEN "andc1" ELSE op
      length == Max({Len(x.mag), Len(y.mag)})
      r == bignum_trim(Big(FALSE, [i \in 1..length |-> BitwiseDigit(base, At(x.mag, i), At(y.mag, i))])) IN
  IF op \in {"nor", "eqv", "nand", "orc1", "orc2"} THEN bignum_bitwise_not(r) ELSE r

\* Mutant: negative operands are not complemented.
bignum_bitwise_magnitudes(op, x, y) ==
  LET row == BitwiseTable[op] IN
  IF ZERO_P(x) THEN BitwiseDefault(row.y0, x, y)
  ELSE IF ZERO_P(y) THEN BitwiseDefault(row.x0, x, y)
  ELSE BitwiseUnsigned(IF x.neg THEN IF y.neg THEN row.nn ELSE row.np
                       ELSE IF y.neg THEN row.pn ELSE row.pp, x, y)

bignum_bitwise(op, x, y) ==
  LET row == BitwiseTable[op]
      nx == IF x.neg THEN bignum_bitwise_not(x) ELSE x
      ny == IF y.neg THEN bignum_bitwise_not(y) ELSE y IN
  IF ZERO_P(x) THEN BitwiseDefault(row.y0, x, y)
  ELSE IF ZERO_P(y) THEN BitwiseDefault(row.x0, x, y)
  ELSE BitwiseUnsigned(IF x.neg THEN IF y.neg THEN row.nn ELSE row.np
                       ELSE IF y.neg THEN row.pn ELSE row.pp, nx, ny)

-----------------------------------------------------------------------------
(* Lengths, counts and shifts.                                             *)

bignum_length_in_bits(x) ==
  IF ZERO_P(x) THEN 0 ELSE length_in_bits(Last(x.mag)) + DigitLength * (Len(x.mag) - 1)

\* Two's-complement length: one less for the negative of a power of two.
bignum_integer_length(x) ==
  LET n == bignum_length_in_bits(x) IN
  IF ZERO_P(x) \/ ~x.neg \/ (\E i \in 1..(Len(x.mag) - 1) : x.mag[i] # 0) THEN n
  ELSE IF Last(x.mag) & (Last(x.mag) - 1) = 0 THEN n - 1 ELSE n

bignum_first_set_bit(x) ==
  LET i == Min({j \in DOMAIN x.mag : x.mag[j] # 0}) IN
  IF ZERO_P(x) THEN -1 ELSE bit_count((x.mag[i] ^^ (x.mag[i] - 1)) \div 2) + (i - 1) * DigitLength

bignum_bit_count_unsigned(x) == FoldLeft(LAMBDA c, i : c + bit_count(x.mag[i]), 0, Up(Len(x.mag)))
bignum_bit_count(x) == bignum_bit_count_unsigned(IF x.neg THEN bignum_bitwise_not(x) ELSE x)

bignum_positive_hamming_distance(x, y) ==
  FoldLeft(LAMBDA c, i : c + bit_count(At(x.mag, i) ^^ At(y.mag, i)), 0, Up(Max({Len(x.mag), Len(y.mag)})))

bignum_hamming_distance(x, y) ==
  IF ZERO_P(x) \/ ZERO_P(y)
  THEN IF x.neg \/ y.neg THEN -1 ELSE bignum_bit_count_unsigned(IF ZERO_P(x) THEN y ELSE x)
  ELSE IF x.neg # y.neg THEN -1
  ELSE IF x.neg THEN bignum_positive_hamming_distance(bignum_bitwise_not(x), bignum_bitwise_not(y))
  ELSE bignum_positive_hamming_distance(x, y)

\* Words of a new bignum of length digits, of which written were stored.
Allocated(neg, length, written) == Big(neg, [i \in 1..length |-> written[i]])

\* Shift of a magnitude right: the length of the result is reckoned from the
\* high digit before the digits are written.
bignum_shift_right_unsigned(n, digits, bits) ==
  LET length == Len(n.mag)
      r_length == length - digits - (IF length > 0 /\ n.mag[length] \div 2^bits = 0 THEN 1 ELSE 0)
      extra == At(n.mag, Max({length, digits + 1})) \div 2^bits
      low == [i \in 1..Max({0, length - digits - 1}) |->
               ((n.mag[digits + i + 1] * 2^(DigitLength - bits)) % Radix) + (n.mag[digits + i] \div 2^bits)]
      written == IF bits = 0 THEN SubSeq(n.mag, digits + 1, length)
                 ELSE IF extra # 0 THEN Append(low, extra) ELSE low IN
  Allocated(FALSE, r_length, written)

\* Mutant: the magnitude is shifted whatever the sign.
bignum_shift_right_magnitude(n, m) ==
  LET digits == m \div DigitLength IN
  IF digits >= Len(n.mag) THEN IF n.neg THEN BIGNUM_ONE(TRUE) ELSE BIGNUM_ZERO
  ELSE Big(n.neg, bignum_shift_right_unsigned(n, digits, m % DigitLength).mag)

bignum_shift_right(n, m) ==
  LET digits == m \div DigitLength
      bits == m % DigitLength IN
  IF digits >= Len(n.mag) THEN IF n.neg THEN BIGNUM_ONE(TRUE) ELSE BIGNUM_ZERO
  ELSE IF n.neg THEN bignum_bitwise_not(bignum_shift_right_unsigned(bignum_bitwise_not(n), digits, bits))
  ELSE bignum_shift_right_unsigned(n, digits, bits)

bignum_shift_left(n, m) ==
  LET ln == Len(n.mag)
      delta == length_in_bits(Last(n.mag))
      shift == m % DigitLength
      temp == Last(n.mag) \div 2^(DigitLength - shift)
      shifted == [i \in 1..ln |-> ((n.mag[i] * 2^shift) % Radix) + (At(n.mag, i - 1) \div 2^(DigitLength - shift))] IN
  IF m = 0 \/ ZERO_P(n) THEN n
  ELSE Allocated(n.neg, ln - 1 + BITS_TO_DIGITS(delta + m),
         Zeros(m \div DigitLength) \o (IF shift = 0 THEN n.mag
                                       ELSE IF temp # 0 THEN Append(shifted, temp) ELSE shifted))

unsigned_long_to_shifted_bignum(n, m, neg) ==
  LET shift == m % DigitLength IN
  IF n = 0 THEN BIGNUM_ZERO
  ELSE Allocated(neg, BITS_TO_DIGITS(length_in_bits(n) + m),
         Zeros(m \div DigitLength) \o <<(n * 2^shift) % Radix>>
           \o WordDigits(n \div 2^(DigitLength - shift)))

bignum_nonnegative_one_bits(size, position) ==
  bignum_shift_left(bignum_bitwise_not(bignum_shift_left(BIGNUM_ONE(TRUE), size)), position)
bignum_negative_zero_bits(n, m) == bignum_bitwise_not(bignum_nonnegative_one_bits(n, m))

-----------------------------------------------------------------------------
(* Streams of digits in another radix, most significant digit first on     *)
(* input and least significant first on output.                            *)

bignum_destructive_add(mag, n) ==
  FoldLeft(LAMBDA s, i :
      LET digit == mag[i] + s.carry IN
      IF digit < Radix THEN [mag |-> Append(s.mag, digit), carry |-> 0]
      ELSE [mag |-> Append(s.mag, digit - Radix), carry |-> 1],
    [mag |-> <<>>, carry |-> n], Up(Len(mag))).mag

\* Mutant: room for one digit less.
digit_stream_to_bignum_short(digits, radix, neg) ==
  LET n == Len(digits)
      length == BITS_TO_DIGITS((n - 1) * length_in_bits(radix)) IN
  CASE n = 0 -> BIGNUM_ZERO
    [] n = 1 -> long_to_bignum(IF neg THEN -digits[1] ELSE digits[1])
    [] OTHER -> bignum_trim(Big(neg,
         FoldLeft(LAMBDA mag, i : bignum_destructive_add(bignum_destructive_scale_up(mag, radix), digits[i]),
                  Zeros(length), Up(n))))

digit_stream_to_bignum(digits, radix, neg) ==
  LET n == Len(digits)
      length == BITS_TO_DIGITS(n * length_in_bits(radix)) IN
  CASE n = 0 -> BIGNUM_ZERO
    [] n = 1 -> long_to_bignum(IF neg THEN -digits[1] ELSE digits[1])
    [] OTHER -> bignum_trim(Big(neg,
         FoldLeft(LAMBDA mag, i : bignum_destructive_add(bignum_destructive_scale_up(mag, radix), digits[i]),
                  Zeros(length), Up(n))))

RECURSIVE DigitStream(_, _)
DigitStream(mag, radix) ==
  LET e == bignum_destructive_scale_down(mag, radix) IN
  IF \A i \in DOMAIN mag : mag[i] = 0 THEN <<>> ELSE <<e.r>> \o DigitStream(e.mag, radix)

bignum_to_digit_stream(x, radix) == DigitStream(x.mag, radix)
=============================================================================
