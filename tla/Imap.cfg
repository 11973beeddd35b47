SPECIFICATION Spec
CONSTANTS
  Uids = {u1, u2}
  Flags <- MCFlags
  HookSets <- MCHookSets
  Filters <- MCFilters
  MaxDeltas = 2
  None = None
INVARIANTS
  EveryChangeRunsItsHook
  OldSessionCostsNothing
PROPERTIES
  CtrlCEndsTheWatch
\* A session ends.
CHECK_DEADLOCK FALSE
