------------------------------- MODULE Firings -------------------------------
(***************************************************************************)
(* What the alarms of a calendar promise, whatever thread, queue, lock,    *)
(* ring or horizon it takes (src/src/alarm.rs): a firing held is got ahead *)
(* of, comes due once the clock reaches it and fires, or is named as       *)
(* dropped for being late, or goes because the calendar dropped it.  None  *)
(* goes unaccounted for, and none has two fates, but as often as the clock *)
(* is set back.                                                            *)
(***************************************************************************)
EXTENDS Integers

CONSTANTS
  Firing,     \* what may fire, each at its trigger
  GRACE       \* how late a firing may be got to and still fire

VARIABLES
  now,        \* the wall clock
  held,       \* what the calendar holds
  ahead,      \* what is waited for
  due,        \* what is about to fire
  fires,      \* how often each firing fired
  dropped,    \* what was named as dropped
  setBacks,   \* how often the clock was set back
  behind      \* it was since what is ahead was last read from the calendar

vars == <<now, held, ahead, due, fires, dropped, setBacks, behind>>

\* How often a firing met its end, and whether it may once more.
Ends(f)  == fires[f] + (IF f \in dropped THEN 1 ELSE 0)
Owing(f) == Ends(f) <= setBacks

-----------------------------------------------------------------------------
Init ==
  /\ held = {} /\ ahead = {} /\ due = {} /\ dropped = {}
  /\ fires = [f \in Firing |-> 0]
  /\ setBacks = 0 /\ behind = FALSE

\* The calendar changes.
Change ==
  /\ held' \in SUBSET Firing
  /\ UNCHANGED <<now, ahead, due, fires, dropped, setBacks, behind>>

\* The clock moves.
Advance ==
  /\ now' > now
  /\ UNCHANGED <<held, ahead, due, fires, dropped, setBacks, behind>>

Retreat ==
  /\ now' < now
  /\ setBacks' = setBacks + 1 /\ behind' = TRUE
  /\ UNCHANGED <<held, ahead, due, fires, dropped>>

\* What is ahead is gone through again, everything due before having fired.  Only
\* what was ahead is dropped as late; one that is news comes due in time or never.
Sort ==
  /\ due = {}
  /\ ahead' \cup due' \subseteq ahead \cup held
  /\ ahead' \cap due' = {}
  /\ dropped \subseteq dropped' /\ dropped' \ dropped \subseteq ahead \ due'
  /\ \A f \in ahead' \cup due' \cup (dropped' \ dropped) : Owing(f)
  /\ ~behind => /\ \A f \in due' : f.trigger <= now
                /\ \A f \in dropped' \ dropped : f.trigger < now - GRACE
                /\ ahead \cap held \subseteq ahead' \cup due' \cup dropped'
  /\ behind' \in {FALSE, behind}
  /\ UNCHANGED <<now, held, fires, setBacks>>

\* One of those due fires.
Fire ==
  /\ \E f \in due :
       /\ due' = due \ {f}
       /\ fires' = [fires EXCEPT ![f] = @ + 1]
  /\ UNCHANGED <<now, held, ahead, dropped, setBacks, behind>>

Next == Change \/ Advance \/ Retreat \/ Sort \/ Fire

Spec == Init /\ [][Next]_vars

=============================================================================
