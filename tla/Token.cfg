SPECIFICATION FairSpec
CONSTANTS
  Members = {m1, m2}
  MaxRev = 3
  Expires = TRUE
  Feeds = {"token", "delta", "contacts", "listing"}
INVARIANTS
  KnownIsCurrent
PROPERTIES
  EventsAreNews
  PictureCatchesUp
\* The watch ends once asked to.
CHECK_DEADLOCK FALSE
