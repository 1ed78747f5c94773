----------------------------- MODULE MachineWord -----------------------------
(***************************************************************************)
(* The machine words in which the microcode computes (bignmint.h,          *)
(* object.h): a digit of a bignum has an even number of bits, and a C long *)
(* is two bits longer than a digit.  The lengths are parameters, so that   *)
(* the boundaries of digits, half digits and words are reached with small  *)
(* numbers.                                                                *)
(***************************************************************************)
EXTENDS Integers

CONSTANT HalfLength   \* BIGNUM_HALF_DIGIT_LENGTH

ASSUME HalfLengthAssumption == HalfLength \in Nat \ {0}

DigitLength == 2 * HalfLength
WordLength == DigitLength + 2

\* Arithmetic of a long (bignum_digit_type).
Long(n) == ((n + 2^(WordLength - 1)) % 2^WordLength) - 2^(WordLength - 1)
Abs(k) == IF k < 0 THEN -k ELSE k

SHARP_F == [type |-> "false"]
=============================================================================
