---------------------------- MODULE MCJmapWatch -----------------------------
(***************************************************************************)
(* The small instances of JmapWatch: two items changing twice, pushed or   *)
(* polled, mail or not.                                                    *)
(***************************************************************************)
EXTENDS JmapWatch, TLC

ItemSymmetry == Permutations(Members) \cup Permutations(Keywords)

=============================================================================
