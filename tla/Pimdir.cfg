SPECIFICATION FairSpec
CONSTANTS
  Parts <- Bodies
  MaxItem = 2
  Others = {"mail", "cards"}
  PAGE = 2
  MaxCommits = 3
  MaxResets = 1
INVARIANTS
  TypeOK
  BookIsCurrent
  KindIsChecked
PROPERTIES
  BookCatchesUp
\* The watch ends once asked to.
CHECK_DEADLOCK FALSE
