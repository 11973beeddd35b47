SPECIFICATION FairSpec
CONSTANTS
  Items = {i1}
  Instants = {1, 4}
  HORIZON = 4
  GRACE = 1
  MaxNow = 4
  Jumps = {1, 3}
  MaxSetBacks = 1
  None = None
INVARIANTS
  TypeOK
  NeverTwice
  NothingBeforeStart
  SleepsPastNoFiring
PROPERTIES
  KeepsPromise
  StopsUnaided
  HeldFiringFires
\* Ctrl+C ends the thread, and the clock ends at MaxNow.
CHECK_DEADLOCK FALSE
