----------------------------- MODULE MCImapWatch -----------------------------
(***************************************************************************)
(* The small instance of ImapWatch: two messages, a system flag and a      *)
(* keyword, every hook or all but those of arrivals, and no filter or one. *)
(***************************************************************************)
EXTENDS ImapWatch

Seen == [mark |-> "\\", word |-> "Seen"]
Junk == [mark |-> "$", word |-> "Junk"]

MCFlags    == {Seen, Junk}
MCHookSets == {MailHooks, MailHooks \ {<<"message", "added">>}}
MCFilters  == {{}, {[mark |-> "", word |-> "Seen"]}}

=============================================================================
