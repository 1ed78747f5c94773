-------------------------- MODULE MCGenericInteger --------------------------
(***************************************************************************)
(* Digits of four bits (radix 16, half digits of two bits), six-bit words  *)
(* and fixnums from -8 to 7.  Operands have up to three digits, drawn from *)
(* the digits at which carries, borrows, guesses and normalisation change. *)
(***************************************************************************)
EXTENDS GenericInteger

MCDigits == {0, 1, 3, 8, 15}

Signed(S) == S \cup {-k : k \in S}

MCOperands ==
  Signed((0..20) \cup {31, 32, 33, 47, 48, 63, 64, 65}
         \cup {a * 256 + b * 16 + c : a \in {1, 8, 15}, b \in MCDigits, c \in {0, 1, 15}})

MCSeconds ==
  Signed({0, 1, 2, 3, 4, 5, 7, 8, 9, 12, 15}
         \cup {a * 16 + b : a \in {1, 8, 15}, b \in {0, 1, 8, 15}} \cup {256, 2049, 4095})

MCShifts == 0..9
=============================================================================
