SPECIFICATION Spec
CONSTANTS
  Members = {m1, m2}
  MaxRev = 2
  Expires = FALSE
  Keywords = {k1}
  Outside = Outside
  CutsChanges = FALSE
  OpensWithStates = TRUE
SYMMETRY ItemSymmetry
INVARIANTS
  KnownAsOfState
CHECK_DEADLOCK FALSE
