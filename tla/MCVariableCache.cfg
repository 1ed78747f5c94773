SPECIFICATION Spec
CONSTANTS
  Frames = {"F", "P"}
  Symbols = {"x", "y"}
  Programs <- MCPrograms
  Params <- MCParams
  Values = {v1, v2}
  Refs <- MCRefs
  Ids = {1, 2, 3, 4, 5}
SYMMETRY MCSymmetry
INVARIANTS LookupCoherent AssignmentCoherent OperatorCoherent
CHECK_DEADLOCK FALSE
