--------------------------- MODULE MCAlarmThread ----------------------------
(***************************************************************************)
(* The small instance of AlarmThread: one item, whose triggers lie within  *)
(* the first horizon and past it, and a clock whose jumps are no longer    *)
(* than GRACE and longer, set back once.  Any of its rings may fail.       *)
(***************************************************************************)
EXTENDS AlarmThread

=============================================================================
