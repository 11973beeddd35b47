SPECIFICATION FairSpec
CONSTANTS
  Accounts = {a1, a2}
  AlarmAccounts = {a1, a2}
  INITIAL_BACKOFF = 2
  MAX_BACKOFF = 3
INVARIANTS
  TypeOK
  NoMissedRing
  NoThreadLeft
  OneAlarmThread
PROPERTIES
  
  ShutdownEnds
  Reopens
\* The command exits once every account has ended.
CHECK_DEADLOCK FALSE
