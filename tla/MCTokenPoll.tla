---------------------------- MODULE MCTokenPoll -----------------------------
(***************************************************************************)
(* The small instance of TokenPoll: two members changing twice under each  *)
(* of the four feeds.                                                      *)
(***************************************************************************)
EXTENDS TokenPoll

=============================================================================
