SPECIFICATION FairSpec
CONSTANTS
  Members = {m1, m2}
  MaxRev = 3
  Expires = TRUE
  Keywords = {k1}
  Outside = Outside
  CutsChanges = TRUE
  OpensWithStates = TRUE
INVARIANTS
  KnownIsCurrent
PROPERTIES
  ReportsWhatMoves
  PictureCatchesUp
\* The watch ends once asked to.
CHECK_DEADLOCK FALSE
