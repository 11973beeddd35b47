SPECIFICATION FairSpec
CONSTANTS
  Messages = {m1}
  Labels = {"INBOX", "UNREAD", "STARRED"}
  LABEL = "INBOX"
  Away = Away
  MaxHistory = 3
INVARIANTS
  ToldIsCurrent
PROPERTIES
  ToldOnce
  ReadsToTheEnd
\* The watch ends once asked to.
CHECK_DEADLOCK FALSE
