--------------------------- MODULE MCGmailHistory ---------------------------
(***************************************************************************)
(* The small instance of GmailHistory: one message whose three labels move *)
(* together, in as many records as make pages of one and of two.           *)
(***************************************************************************)
EXTENDS GmailHistory

=============================================================================
