SPECIFICATION Spec
CONSTANTS
  HalfLength = 2
  FixnumLength = 3
  Operands <- MCOperands
  Seconds <- MCSeconds
  Shifts <- MCShifts
  Bases = {2, 3}
INVARIANTS ArithmeticExact DivisionExact BitsExact ConversionExact FixnumExact
CHECK_DEADLOCK FALSE
