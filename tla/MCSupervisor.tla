---------------------------- MODULE MCSupervisor ----------------------------
(***************************************************************************)
(* The small instance of Supervisor: two accounts with alarms, either of   *)
(* whose threads may fail to start, a backoff that its first doubling      *)
(* takes to the ceiling, sessions lost before, while and after their alarm *)
(* thread starts, calls that never return, and rings that fail.            *)
(***************************************************************************)
EXTENDS Supervisor

=============================================================================
