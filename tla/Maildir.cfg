SPECIFICATION MaildirFairSpec
CONSTANTS
  Messages = {m1, m2}
  Flags = {f1, f2}
  Missing = Missing
  MaxMoves = 3
INVARIANTS
  ToldIsListed
PROPERTIES
  MailboxIsTold
\* The watch ends once asked to.
CHECK_DEADLOCK FALSE
