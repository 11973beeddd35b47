--------------------------- MODULE MCPimdirFollow ---------------------------
(***************************************************************************)
(* The small instance of PimdirFollow: pages of two rows, one commit more  *)
(* than fills one, and two other collections, one more than shares a page  *)
(* with the calendar.                                                      *)
(***************************************************************************)
EXTENDS PimdirFollow

Part(kind, alarms) == [kind |-> kind, uid |-> "u", alarms |-> alarms]

\* An event with an alarm; a body that does not parse; a task with an alarm beside
\* a journal entry; then an event whose alarm is gone.
Bodies == << <<Part("event", 1)>>, <<>>, <<Part("other", 1), Part("task", 1)>>,
             <<Part("event", 0)>> >>

=============================================================================
