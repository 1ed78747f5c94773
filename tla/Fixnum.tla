------------------------------- MODULE Fixnum -------------------------------
(***************************************************************************)
(* The fixnum primitives (fixnum.c, fixnum.h, mul.c): an integer that fits *)
(* in the datum of a word.  They compute in a long and return a fixnum or  *)
(* signal an error.  A behaviour is one primitive called on the operands n *)
(* and m; GenericInteger adds the primitives of all integers.              *)
(***************************************************************************)
EXTENDS MachineWord

CONSTANT FixnumLength   \* FIXNUM_LENGTH: the bits of a fixnum, without its sign

\* One radix digit holds a fixnum, and Mul needs more bits than a half word.
ASSUME FixnumLengthAssumption ==
  /\ FixnumLength \in Nat
  /\ 2 * FixnumLength >= WordLength /\ FixnumLength < DigitLength

VARIABLES n, m, call, result

vars == <<n, m, call, result>>

FixnumSignBit == 2^FixnumLength
LONG_TO_FIXNUM_P(k) == -FixnumSignBit <= k /\ k < FixnumSignBit

\* LONG_TO_FIXNUM keeps the datum bits.
LONG_TO_FIXNUM(k) ==
  [type |-> "fixnum", long |-> ((k + FixnumSignBit) % (2 * FixnumSignBit)) - FixnumSignBit]

FIXNUM_P(x) == x.type = "fixnum"
BothFixnum(x, y) == FIXNUM_P(x) /\ FIXNUM_P(y)

\* The portable Mul: a product of half words that reports an overflow.  Neither lo nor,
\* once one high half is zero, middle overflows an unsigned long.
HalfWord == 2^(WordLength \div 2)
Middle == 2^(FixnumLength - WordLength \div 2)   \* MAX_MIDDLE

\* Mutant: the middle product is not compared with its limit.
MulUnchecked(x, y) ==
  LET a == Abs(x.long)
      b == Abs(y.long)
      lo == (a % HalfWord) * (b % HalfWord)
      middle == (a % HalfWord) * (b \div HalfWord) + (a \div HalfWord) * (b % HalfWord)
      c == Long(lo + middle * HalfWord) IN
  IF (a \div HalfWord > 0 /\ b \div HalfWord > 0) \/ lo >= FixnumSignBit \/ ~LONG_TO_FIXNUM_P(c)
  THEN SHARP_F
  ELSE LONG_TO_FIXNUM(IF (x.long < 0) = (y.long < 0) \/ c = 0 THEN c ELSE 2 * FixnumSignBit - c)

Mul(x, y) ==
  LET a == Abs(x.long)
      b == Abs(y.long)
      lo == (a % HalfWord) * (b % HalfWord)
      middle == (a % HalfWord) * (b \div HalfWord) + (a \div HalfWord) * (b % HalfWord)
      c == Long(lo + middle * HalfWord) IN
  IF \/ a \div HalfWord > 0 /\ b \div HalfWord > 0
     \/ lo >= FixnumSignBit
     \/ middle >= Middle
     \/ ~LONG_TO_FIXNUM_P(c)
  THEN SHARP_F
  ELSE LONG_TO_FIXNUM(IF (x.long < 0) = (y.long < 0) \/ c = 0 THEN c ELSE 2 * FixnumSignBit - c)

\* Quotient and remainder of longs: of the absolute values, then signed.
LongQuotient(lx, ly) ==
  IF (lx < 0) = (ly < 0) THEN Abs(lx) \div Abs(ly) ELSE -(Abs(lx) \div Abs(ly))
LongRemainder(lx, ly) == IF lx < 0 THEN -(Abs(lx) % Abs(ly)) ELSE lx % Abs(ly)

-----------------------------------------------------------------------------
(* The primitives: an error (SHARP_F) when the result is no fixnum.        *)

FIXNUM_RESULT(k) == IF LONG_TO_FIXNUM_P(Long(k)) THEN LONG_TO_FIXNUM(Long(k)) ELSE SHARP_F

FixnumPrimitive(op, x, y) ==
  CASE op = "PLUS-FIXNUM" -> FIXNUM_RESULT(x.long + y.long)
    [] op = "MINUS-FIXNUM" -> FIXNUM_RESULT(x.long - y.long)
    [] op = "MULTIPLY-FIXNUM" -> Mul(x, y)
    [] op = "FIXNUM-NEGATE" -> FIXNUM_RESULT(-x.long)
    [] op = "ONE-PLUS-FIXNUM" -> FIXNUM_RESULT(x.long + 1)
    [] op = "MINUS-ONE-PLUS-FIXNUM" -> FIXNUM_RESULT(x.long - 1)
    [] op = "FIXNUM-QUOTIENT" ->
         IF y.long = 0 THEN SHARP_F ELSE FIXNUM_RESULT(LongQuotient(x.long, y.long))
    [] op = "FIXNUM-REMAINDER" ->
         IF y.long = 0 THEN SHARP_F ELSE FIXNUM_RESULT(LongRemainder(x.long, y.long))
FixnumOps == {"PLUS-FIXNUM", "MINUS-FIXNUM", "MULTIPLY-FIXNUM", "FIXNUM-NEGATE", "ONE-PLUS-FIXNUM",
              "MINUS-ONE-PLUS-FIXNUM", "FIXNUM-QUOTIENT", "FIXNUM-REMAINDER"}

\* DIVIDE-FIXNUM returns a pair, or signals that the quotient is no fixnum.
DIVIDE_FIXNUM(x, y) ==
  IF y.long = 0 \/ ~LONG_TO_FIXNUM_P(LongQuotient(x.long, y.long)) THEN <<SHARP_F>>
  ELSE <<LONG_TO_FIXNUM(LongQuotient(x.long, y.long)), LONG_TO_FIXNUM(LongRemainder(x.long, y.long))>>

\* A primitive is called with argument k, if it has one, and returns values.
Returns(op, k, values) ==
  /\ call.op = "none"
  /\ call' = [op |-> op, k |-> k]
  /\ result' = values
  /\ UNCHANGED <<n, m>>

Fixnum ==
  /\ BothFixnum(n, m)
  /\ \/ \E op \in FixnumOps : Returns(op, 0, <<FixnumPrimitive(op, n, m)>>)
     \/ Returns("DIVIDE-FIXNUM", 0, DIVIDE_FIXNUM(n, m))

\* Any two fixnums.
Fixnums == [type : {"fixnum"}, long : -FixnumSignBit .. FixnumSignBit - 1]

FixnumInit ==
  /\ n \in Fixnums /\ m \in Fixnums
  /\ call = [op |-> "none", k |-> 0]
  /\ result = <<>>

FixnumSpec == FixnumInit /\ [][Fixnum]_vars

-----------------------------------------------------------------------------

\* q and r are the quotient of x by y, truncated toward zero, and the remainder.
Divides(x, y, q, r) == x = q * y + r /\ Abs(r) < Abs(y) /\ (r # 0 => (r < 0 <=> x < 0))

FixnumOf(k) == IF LONG_TO_FIXNUM_P(k) THEN [type |-> "fixnum", long |-> k] ELSE SHARP_F

\* A fixnum primitive returns exactly what arithmetic on integers says, or signals that
\* this is no fixnum or that the denominator is zero; no intermediate result overflows a
\* long.  Mul may also refuse the smallest fixnum (fixnum.c: FIXNUM_RESULT; mul.c: Mul).
FixnumExact ==
  LET is(op, k) == call.op = op => result = <<FixnumOf(k)>> IN
  /\ is("PLUS-FIXNUM", n.long + m.long) /\ is("MINUS-FIXNUM", n.long - m.long)
  /\ is("FIXNUM-NEGATE", -n.long)
  /\ is("ONE-PLUS-FIXNUM", n.long + 1) /\ is("MINUS-ONE-PLUS-FIXNUM", n.long - 1)
  /\ call.op = "MULTIPLY-FIXNUM" =>
       \/ result = <<FixnumOf(n.long * m.long)>>
       \/ n.long * m.long = -FixnumSignBit /\ result = <<SHARP_F>>
  /\ call.op \in {"FIXNUM-QUOTIENT", "FIXNUM-REMAINDER", "DIVIDE-FIXNUM"} =>
       IF m.long = 0 THEN result = <<SHARP_F>>
       ELSE \E q \in -FixnumSignBit .. FixnumSignBit :
              LET r == n.long - q * m.long
              IN /\ Divides(n.long, m.long, q, r)
                 /\ result = CASE call.op = "FIXNUM-QUOTIENT" -> <<FixnumOf(q)>>
                               [] call.op = "FIXNUM-REMAINDER" -> <<FixnumOf(r)>>
                               [] OTHER -> IF LONG_TO_FIXNUM_P(q) THEN <<FixnumOf(q), FixnumOf(r)>>
                                           ELSE <<SHARP_F>>
=============================================================================
