--------------------------- MODULE MCMaildirPoll ----------------------------
(***************************************************************************)
(* The small instance of MaildirPoll: two messages renamed under two       *)
(* listings and between them.                                              *)
(***************************************************************************)
EXTENDS MaildirPoll

=============================================================================
