--------------------------- MODULE GenericInteger ---------------------------
(***************************************************************************)
(* The integer primitives (artutl.c, intprm.c, fixnum.c, mul.c): an exact  *)
(* integer is a fixnum when it fits in the datum of a word and a bignum    *)
(* otherwise.  Every primitive dispatches on the two representations of    *)
(* its arguments, works in machine words or on bignums, and must return    *)
(* the one representation its value has.  A behaviour is one primitive     *)
(* called on operands n and m.                                             *)
(***************************************************************************)
EXTENDS Bignum, Fixnum

CONSTANTS
  Operands,       \* the integers n ranges over
  Seconds,        \* the integers m ranges over
  Shifts,         \* shift amounts and field sizes
  Bases           \* radices of the digit streams

-----------------------------------------------------------------------------
(* Objects and their conversions.                                          *)

FIXNUM_TO_BIGNUM(x) == long_to_bignum(x.long)
AsBignum(x) == IF FIXNUM_P(x) THEN FIXNUM_TO_BIGNUM(x) ELSE x

BIGNUM_TO_FIXNUM_P(x) == bignum_fits_in_word_p(x, FixnumLength + 1, TRUE)
bignum_to_integer(x) == IF BIGNUM_TO_FIXNUM_P(x) THEN LONG_TO_FIXNUM(bignum_to_long(x)) ELSE x
long_to_integer(k) == IF LONG_TO_FIXNUM_P(k) THEN LONG_TO_FIXNUM(k) ELSE long_to_bignum(k)
ulong_to_integer(k) == IF Long(k) >= 0 THEN long_to_integer(Long(k)) ELSE ulong_to_bignum(k)

integer_to_long_p(x) == FIXNUM_P(x) \/ bignum_fits_in_word_p(x, WordLength, TRUE)
integer_to_long(x) == IF FIXNUM_P(x) THEN x.long ELSE bignum_to_long(x)
integer_to_ulong_p(x) == IF FIXNUM_P(x) THEN x.long >= 0 ELSE bignum_fits_in_word_p(x, WordLength, FALSE)
integer_to_ulong(x) == IF FIXNUM_P(x) THEN x.long % 2^WordLength ELSE bignum_to_ulong(x)

-----------------------------------------------------------------------------
(* Comparison and arithmetic.                                              *)

Sign(x) == IF FIXNUM_P(x) THEN x.long ELSE IF ZERO_P(x) THEN 0 ELSE IF x.neg THEN -1 ELSE 1
integer_zero_p(x) == Sign(x) = 0
integer_negative_p(x) == Sign(x) < 0
integer_positive_p(x) == Sign(x) > 0

integer_equal_p(x, y) ==
  IF BothFixnum(x, y) THEN x.long = y.long ELSE bignum_equal_p(AsBignum(x), AsBignum(y))
integer_less_p(x, y) ==
  IF BothFixnum(x, y) THEN x.long < y.long ELSE bignum_compare(AsBignum(x), AsBignum(y)) = "less"

integer_negate(x) == IF FIXNUM_P(x) THEN long_to_integer(-x.long) ELSE bignum_to_integer(bignum_negate(x))

integer_add(x, y) ==
  IF BothFixnum(x, y) THEN long_to_integer(x.long + y.long)
  ELSE bignum_to_integer(bignum_add(AsBignum(x), AsBignum(y)))

integer_subtract(x, y) ==
  IF BothFixnum(x, y) THEN long_to_integer(x.long - y.long)
  ELSE bignum_to_integer(bignum_subtract(AsBignum(x), AsBignum(y)))

integer_add_1(x) ==
  IF FIXNUM_P(x) THEN long_to_integer(x.long + 1) ELSE bignum_to_integer(bignum_add(x, long_to_bignum(1)))
integer_subtract_1(x) ==
  IF FIXNUM_P(x) THEN long_to_integer(x.long - 1) ELSE bignum_to_integer(bignum_subtract(x, long_to_bignum(1)))

integer_multiply(x, y) ==
  IF BothFixnum(x, y) /\ Mul(x, y) # SHARP_F THEN Mul(x, y)
  ELSE bignum_to_integer(bignum_multiply(AsBignum(x), AsBignum(y)))

Normal(x) == IF x = SHARP_F THEN SHARP_F ELSE bignum_to_integer(x)

integer_divide(x, y) ==
  LET d == bignum_divide(AsBignum(x), AsBignum(y)) IN
  IF BothFixnum(x, y)
  THEN IF y.long = 0 THEN [q |-> SHARP_F, r |-> SHARP_F]
       ELSE [q |-> long_to_integer(LongQuotient(x.long, y.long)),
             r |-> LONG_TO_FIXNUM(LongRemainder(x.long, y.long))]
  ELSE [q |-> Normal(d.q), r |-> Normal(d.r)]

integer_quotient(x, y) ==
  IF BothFixnum(x, y)
  THEN IF y.long = 0 THEN SHARP_F ELSE long_to_integer(LongQuotient(x.long, y.long))
  ELSE Normal(bignum_quotient(AsBignum(x), AsBignum(y)))

integer_remainder(x, y) ==
  IF BothFixnum(x, y)
  THEN IF y.long = 0 THEN SHARP_F ELSE long_to_integer(LongRemainder(x.long, y.long))
  ELSE Normal(bignum_remainder(AsBignum(x), AsBignum(y)))

-----------------------------------------------------------------------------
(* Lengths, counts, bitwise operations and shifts.                         *)

\* ~k, and the bits of a long as an unsigned word.
Complement(k) == -k - 1
ULong(k) == k % 2^WordLength

integer_length_in_bits(x) ==
  IF FIXNUM_P(x) THEN LONG_TO_FIXNUM(length_in_bits(Abs(x.long))) ELSE ulong_to_integer(bignum_length_in_bits(x))
integer_length(x) ==
  IF FIXNUM_P(x) THEN LONG_TO_FIXNUM(length_in_bits(IF x.long < 0 THEN Complement(x.long) ELSE x.long))
  ELSE ulong_to_integer(bignum_integer_length(x))
integer_bit_count(x) ==
  IF FIXNUM_P(x) THEN LONG_TO_FIXNUM(bit_count(IF x.long < 0 THEN Complement(x.long) ELSE x.long))
  ELSE ulong_to_integer(bignum_bit_count(x))
\* ulong_first_set_bit is -1 for zero.
integer_first_set_bit(x) ==
  IF FIXNUM_P(x)
  THEN LONG_TO_FIXNUM(IF x.long = 0 THEN -1 ELSE Min({i \in 0..(WordLength - 1) : (ULong(x.long) \div 2^i) % 2 = 1}))
  ELSE long_to_integer(bignum_first_set_bit(x))

WordBits(op, a, b) ==
  CASE op \in {"and", "andc2", "andc1", "xor", "ior"} -> BitwiseDigit(op, a, b)
    [] op \in {"nor", "eqv", "nand"} -> 2^WordLength - 1 - BitwiseDigit(op, a, b)
    [] op = "orc2" -> 2^WordLength - 1 - BitwiseDigit("andc1", a, b)
    [] op = "orc1" -> 2^WordLength - 1 - BitwiseDigit("andc2", a, b)

integer_hamming_distance(x, y) ==
  LET w == ULong(x.long) ^^ ULong(y.long) IN
  IF BothFixnum(x, y) THEN LONG_TO_FIXNUM(IF Long(w) < 0 THEN -1 ELSE bit_count(w))
  ELSE long_to_integer(bignum_hamming_distance(AsBignum(x), AsBignum(y)))

\* The complement of a bignum is returned as it is.
integer_bitwise_not(x) ==
  IF FIXNUM_P(x) THEN LONG_TO_FIXNUM(Complement(x.long)) ELSE bignum_bitwise_not(x)

integer_bitwise(op, x, y) ==
  IF BothFixnum(x, y) THEN LONG_TO_FIXNUM(Long(WordBits(op, ULong(x.long), ULong(y.long))))
  ELSE bignum_to_integer(bignum_bitwise(op, AsBignum(x), AsBignum(y)))

integer_nonnegative_one_bits(size, position) ==
  CASE size = 0 -> LONG_TO_FIXNUM(0)
    [] size # 0 /\ size + position <= FixnumLength -> LONG_TO_FIXNUM((2^size - 1) * 2^position)
    [] OTHER -> bignum_nonnegative_one_bits(size, position)

integer_negative_zero_bits(size, position) ==
  CASE size = 0 -> LONG_TO_FIXNUM(-1)
    [] size # 0 /\ size + position <= FixnumLength -> LONG_TO_FIXNUM(Complement((2^size - 1) * 2^position))
    [] OTHER -> bignum_negative_zero_bits(size, position)

integer_shift_left(x, k) ==
  IF k = 0 THEN x
  ELSE IF ~FIXNUM_P(x) THEN bignum_shift_left(x, k)
  ELSE IF x.long < 0
       THEN IF k + length_in_bits(Complement(x.long)) <= FixnumLength THEN LONG_TO_FIXNUM(-((-x.long) * 2^k))
            ELSE bignum_negate(unsigned_long_to_shifted_bignum(-x.long, k, FALSE))
  ELSE IF x.long = 0 THEN LONG_TO_FIXNUM(0)
  ELSE IF k + length_in_bits(x.long) <= FixnumLength THEN LONG_TO_FIXNUM(x.long * 2^k)
  ELSE unsigned_long_to_shifted_bignum(x.long, k, FALSE)

integer_shift_right(x, k) ==
  IF k = 0 THEN x
  ELSE IF ~FIXNUM_P(x) THEN bignum_to_integer(bignum_shift_right(x, k))
  ELSE IF k >= WordLength THEN LONG_TO_FIXNUM(IF x.long < 0 THEN -1 ELSE 0)
  ELSE LONG_TO_FIXNUM(IF x.long < 0 THEN Complement(Complement(x.long) \div 2^k) ELSE x.long \div 2^k)

-----------------------------------------------------------------------------
(* Calls.  A behaviour starts with two operands in their canonical form    *)
(* and calls one primitive.                                                *)

SHARP_T == [type |-> "true"]
BOOLEAN_TO_OBJECT(b) == IF b THEN SHARP_T ELSE SHARP_F
Word(k) == [type |-> "word", long |-> k]

\* The canonical object of an integer: a fixnum if it fits, else a bignum
\* without a zero high digit.
ObjectOf(k) ==
  LET length == CHOOSE i \in 1..8 : Abs(k) < Radix^i /\ (i > 1 => Abs(k) >= Radix^(i - 1)) IN
  IF LONG_TO_FIXNUM_P(k) THEN LONG_TO_FIXNUM(k)
  ELSE Big(k < 0, [i \in 1..length |-> (Abs(k) \div Radix^(i - 1)) % Radix])

ValueOf(x) ==
  LET magnitude == FoldLeft(LAMBDA a, i : a * Radix + x.mag[i], 0, Down(Len(x.mag))) IN
  IF FIXNUM_P(x) THEN x.long ELSE IF x.neg THEN -magnitude ELSE magnitude

Init ==
  /\ n \in {ObjectOf(k) : k \in Operands}
  /\ m \in {ObjectOf(k) : k \in Seconds}
  /\ call = [op |-> "none", k |-> 0]
  /\ result = <<>>

Compare ==
  \/ Returns("INTEGER-EQUAL?", 0, <<BOOLEAN_TO_OBJECT(integer_equal_p(n, m))>>)
  \/ Returns("INTEGER-LESS?", 0, <<BOOLEAN_TO_OBJECT(integer_less_p(n, m))>>)
  \/ Returns("INTEGER-GREATER?", 0, <<BOOLEAN_TO_OBJECT(integer_less_p(m, n))>>)

Arithmetic ==
  \/ Returns("INTEGER-ADD", 0, <<integer_add(n, m)>>)
  \/ Returns("INTEGER-SUBTRACT", 0, <<integer_subtract(n, m)>>)
  \/ Returns("INTEGER-MULTIPLY", 0, <<integer_multiply(n, m)>>)

\* error_bad_range_arg (2) when the denominator is zero.
Divide ==
  \/ LET d == integer_divide(n, m) IN Returns("INTEGER-DIVIDE", 0, <<d.q, d.r>>)
  \/ Returns("INTEGER-QUOTIENT", 0, <<integer_quotient(n, m)>>)
  \/ Returns("INTEGER-REMAINDER", 0, <<integer_remainder(n, m)>>)

BitOps == DOMAIN BitwiseTable

BitwiseCall ==
  \/ \E op \in BitOps : Returns(op, 0, <<integer_bitwise(op, n, m)>>)
  \/ Returns("INTEGER-HAMMING-DISTANCE", 0, <<integer_hamming_distance(n, m)>>)

\* The primitives of one integer are called with m = 0 only, to call them once.
Unary ==
  /\ m = LONG_TO_FIXNUM(0)
  /\ \/ Returns("INTEGER-NEGATE", 0, <<integer_negate(n)>>)
     \/ Returns("INTEGER-ADD-1", 0, <<integer_add_1(n)>>)
     \/ Returns("INTEGER-SUBTRACT-1", 0, <<integer_subtract_1(n)>>)
     \/ Returns("INTEGER-BITWISE-NOT", 0, <<integer_bitwise_not(n)>>)
     \/ Returns("INTEGER-ZERO?", 0, <<BOOLEAN_TO_OBJECT(integer_zero_p(n))>>)
     \/ Returns("INTEGER-NEGATIVE?", 0, <<BOOLEAN_TO_OBJECT(integer_negative_p(n))>>)
     \/ Returns("INTEGER-POSITIVE?", 0, <<BOOLEAN_TO_OBJECT(integer_positive_p(n))>>)
     \/ Returns("INTEGER-LENGTH-IN-BITS", 0, <<integer_length_in_bits(n)>>)
     \/ Returns("INTEGER-LENGTH", 0, <<integer_length(n)>>)
     \/ Returns("INTEGER-FIRST-SET-BIT", 0, <<integer_first_set_bit(n)>>)
     \/ Returns("INTEGER-BIT-COUNT", 0, <<integer_bit_count(n)>>)

Shift ==
  /\ m = LONG_TO_FIXNUM(0)
  /\ \E k \in Shifts :
       \/ Returns("INTEGER-SHIFT-LEFT", k, <<integer_shift_left(n, k)>>)
       \/ Returns("INTEGER-SHIFT-RIGHT", k, <<integer_shift_right(n, k)>>)
       \/ /\ FIXNUM_P(n) /\ n.long >= 0
          /\ \/ Returns("INTEGER-NONNEGATIVE-ONE-BITS", k, <<integer_nonnegative_one_bits(n.long, k)>>)
             \/ Returns("INTEGER-NEGATIVE-ZERO-BITS", k, <<integer_negative_zero_bits(n.long, k)>>)

\* An argument as a word, guarded by its predicate; otherwise an error.
arg_integer ==
  Returns("integer_to_long", 0, IF integer_to_long_p(n) THEN <<Word(integer_to_long(n))>> ELSE <<>>)
arg_ulong_integer ==
  Returns("integer_to_ulong", 0, IF integer_to_ulong_p(n) THEN <<Word(integer_to_ulong(n))>> ELSE <<>>)

\* A word that was an argument is also returned.
Convert ==
  /\ m = LONG_TO_FIXNUM(0)
  /\ \/ arg_integer
     \/ arg_ulong_integer
     \/ /\ integer_to_ulong_p(n)
        /\ Returns("ulong_to_integer", 0, <<ulong_to_integer(integer_to_ulong(n))>>)

\* LISTIFY-BIGNUM, and LIST->INTEGER of the list it returns.
listify_bignum(x, radix) == IF ZERO_P(x) THEN <<0>> ELSE Reverse(bignum_to_digit_stream(x, radix))
list_to_integer(digits, radix, neg) == bignum_to_integer(digit_stream_to_bignum(digits, radix, neg))

Streams ==
  /\ m = LONG_TO_FIXNUM(0)
  /\ \E radix \in Bases :
       LET digits == listify_bignum(AsBignum(n), radix) IN
       Returns("LIST->INTEGER", radix,
         <<[type |-> "list", digits |-> digits], list_to_integer(digits, radix, AsBignum(n).neg)>>)

Next == Compare \/ Arithmetic \/ Divide \/ BitwiseCall \/ Unary \/ Shift \/ Convert \/ Streams \/ Fixnum

Spec == Init /\ [][Next]_vars

-----------------------------------------------------------------------------
(* Properties: what each primitive returns, as arithmetic on integers.     *)

N == ValueOf(n)
M == ValueOf(m)

Truncated(a, b) == IF (a < 0) = (b < 0) THEN Abs(a) \div Abs(b) ELSE -(Abs(a) \div Abs(b))

\* Comparison, addition, subtraction, negation and multiplication are exact
\* for every mix of fixnums and bignums, also where a fixnum overflows into a
\* bignum and where a bignum result shrinks back into a fixnum.
ArithmeticExact ==
  LET is(op, k) == call.op = op => result = <<ObjectOf(k)>>
      says(op, b) == call.op = op => result = <<BOOLEAN_TO_OBJECT(b)>> IN
  /\ is("INTEGER-ADD", N + M) /\ is("INTEGER-SUBTRACT", N - M) /\ is("INTEGER-MULTIPLY", N * M)
  /\ is("INTEGER-NEGATE", -N) /\ is("INTEGER-ADD-1", N + 1) /\ is("INTEGER-SUBTRACT-1", N - 1)
  /\ says("INTEGER-EQUAL?", N = M) /\ says("INTEGER-LESS?", N < M) /\ says("INTEGER-GREATER?", N > M)
  /\ says("INTEGER-ZERO?", N = 0) /\ says("INTEGER-NEGATIVE?", N < 0) /\ says("INTEGER-POSITIVE?", N > 0)

\* Division truncates toward zero, the remainder has the sign of the
\* numerator, and integer_divide, integer_quotient and integer_remainder agree
\* whichever of the small, medium, large and power-of-two algorithms they take;
\* a zero denominator is an error.
DivisionExact ==
  LET q == IF M = 0 THEN SHARP_F ELSE ObjectOf(Truncated(N, M))
      r == IF M = 0 THEN SHARP_F ELSE ObjectOf(N - M * Truncated(N, M)) IN
  /\ call.op = "INTEGER-DIVIDE" => result = <<q, r>>
  /\ call.op = "INTEGER-QUOTIENT" => result = <<q>>
  /\ call.op = "INTEGER-REMAINDER" => result = <<r>>

Bit(k, i) == (k \div 2^i) % 2
BitLimit == 24   \* more bits than any operand or result here

TruthTable ==
  [and   |-> <<1, 0, 0, 0>>, andc2 |-> <<0, 1, 0, 0>>, andc1 |-> <<0, 0, 1, 0>>, xor  |-> <<0, 1, 1, 0>>,
   ior   |-> <<1, 1, 1, 0>>, nor   |-> <<0, 0, 0, 1>>, eqv   |-> <<1, 0, 0, 1>>, orc2 |-> <<1, 1, 0, 1>>,
   orc1  |-> <<1, 0, 1, 1>>, nand  |-> <<0, 1, 1, 1>>]

\* The bitwise primitives compute their truth table on every bit of the
\* infinite two's-complement representations, though bignums hold signs and
\* magnitudes; the Hamming distance counts the bits that differ.
BitwiseExact ==
  /\ call.op \in BitOps =>
       LET r == ValueOf(result[1]) IN
       \A i \in 0..BitLimit : Bit(r, i) = TruthTable[call.op][4 - 2 * Bit(N, i) - Bit(M, i)]
  /\ call.op = "INTEGER-HAMMING-DISTANCE" =>
       result = <<ObjectOf(IF (N < 0) # (M < 0) THEN -1
                           ELSE Cardinality({i \in 0..BitLimit : Bit(N, i) # Bit(M, i)}))>>
  /\ call.op = "INTEGER-BITWISE-NOT" => result = <<ObjectOf(-N - 1)>>

\* A shift is a multiplication or a Euclidean division by a power of two, for
\* negative integers too; masks, lengths and bit counts are those of the
\* two's-complement representation.
ShiftExact ==
  LET k == call.k
      is(op, v) == call.op = op => result = <<ObjectOf(v)>>
      c == IF N < 0 THEN -N - 1 ELSE N
      length(v) == Cardinality({i \in 0..BitLimit : v >= 2^i}) IN
  /\ is("INTEGER-SHIFT-LEFT", N * 2^k) /\ is("INTEGER-SHIFT-RIGHT", N \div 2^k)
  /\ call.op = "INTEGER-NONNEGATIVE-ONE-BITS" => result = <<ObjectOf((2^N - 1) * 2^k)>>
  /\ call.op = "INTEGER-NEGATIVE-ZERO-BITS" => result = <<ObjectOf(-((2^N - 1) * 2^k) - 1)>>
  /\ is("INTEGER-LENGTH-IN-BITS", length(Abs(N))) /\ is("INTEGER-LENGTH", length(c))
  /\ is("INTEGER-BIT-COUNT", Cardinality({i \in 0..BitLimit : Bit(c, i) = 1}))
  /\ is("INTEGER-FIRST-SET-BIT", IF N = 0 THEN -1 ELSE Min({i \in 0..BitLimit : Bit(N, i) = 1}))

\* Signs and magnitudes behave like infinite two's-complement representations: the
\* bitwise primitives, the shifts, and the lengths and counts of bits (bignum.c,
\* artutl.c).
BitsExact == BitwiseExact /\ ShiftExact

\* The negative numbers that bignum_fits_in_word_p takes for longs although
\* they are below the smallest one: equal high digits, low digits not zero.
Overlooked(k) == -(2^(WordLength - 1)) - Radix < k /\ k < -(2^(WordLength - 1))

\* A predicate admits exactly the integers its word type holds and the word is
\* the integer (the numbers the predicate overlooks aside); a digit list reads
\* back as the integer.
ConversionExact ==
  /\ call.op = "integer_to_long" /\ ~Overlooked(N) =>
       result = IF N \in -(2^(WordLength - 1))..(2^(WordLength - 1) - 1) THEN <<Word(N)>> ELSE <<>>
  /\ call.op = "integer_to_ulong" => result = IF N \in 0..(2^WordLength - 1) THEN <<Word(N)>> ELSE <<>>
  /\ call.op = "ulong_to_integer" => result = <<n>>
  /\ call.op = "LIST->INTEGER" => /\ Range(result[1].digits) \subseteq 0..(call.k - 1)
                                  /\ result[2] = n
=============================================================================
