SPECIFICATION Spec
CONSTANTS
  Parts <- Bodies
  Members = {h1, h2}
  MaxRev = 4
  Refuses = FALSE
  CutsDelta = TRUE
  CutsEnum = FALSE
  Expires = TRUE
  Mixed = TRUE
  Alarms = FALSE
SYMMETRY HrefSymmetry
INVARIANTS
  KnownAsOfToken
CHECK_DEADLOCK FALSE
