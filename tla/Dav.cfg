SPECIFICATION FairSpec
CONSTANTS
  Parts <- Bodies
  Members = {h1, h2}
  MaxRev = 4
  Refuses = TRUE
  CutsDelta = TRUE
  CutsEnum = TRUE
  Expires = TRUE
  Mixed = TRUE
  Alarms = TRUE
INVARIANTS
  TypeOK
  KnownIsCurrent
  BookIsCurrent
PROPERTIES
  EventsAreTrue
  PictureCatchesUp
\* The watch ends once asked to.
CHECK_DEADLOCK FALSE
