----------------------------- MODULE MCDavWatch -----------------------------
(***************************************************************************)
(* The small instances of DavWatch: two members, and revisions enough to   *)
(* change one of them between any two requests of a round that drains.     *)
(***************************************************************************)
EXTENDS DavWatch, TLC

HrefSymmetry == Permutations(Members)

Part(kind, alarms) == [kind |-> kind, uid |-> "u", alarms |-> alarms]

\* An event with an alarm; a body that does not parse; a task with an alarm beside
\* a journal entry; then an event whose alarm is gone.
Bodies == << <<Part("event", 1)>>, <<>>, <<Part("other", 1), Part("task", 1)>>,
             <<Part("event", 0)>> >>

=============================================================================
