------------------------------ MODULE Selection ------------------------------
(***************************************************************************)
(* Which blocks of an account a command uses (src/src/backend.rs): a watch *)
(* looks at them in a fixed order and opens a session over one             *)
(* (watch_session, src/src/watch.rs), a check opens every one the selector *)
(* allows (src/src/check.rs).                                              *)
(*                                                                         *)
(* The two walk the blocks in code of their own, and nothing but their     *)
(* agreement makes a check say what a watch will do.                       *)
(***************************************************************************)
EXTENDS Naturals, Sequences

\* The order the blocks are written in, in either command.
Priority ==
  <<"imap", "jmap", "maildir", "caldav", "carddav", "msgraph", "gmail", "gcal",
    "gpeople", "pimdir">>

Blocks    == {Priority[n] : n \in 1 .. 10}
Selectors == {"auto"} \cup Blocks

\* allows_imap and its siblings.
Allows(selector, block) == selector \in {"auto", block}

-----------------------------------------------------------------------------
(* watch_session *)

\* The branch of a block returns with a session, or bails when the selector names
\* a block the account does not declare.
Returns(declared, selector, n) ==
  /\ Allows(selector, Priority[n])
  /\ Priority[n] \in declared \/ selector = Priority[n]

\* The branches before it fell through.
Reaches(declared, selector, n) ==
  \A k \in 1 .. n - 1 : ~Returns(declared, selector, k)

Watches(declared, selector, block) ==
  \E n \in 1 .. 10 :
    /\ Priority[n] = block
    /\ Reaches(declared, selector, n) /\ Returns(declared, selector, n)
    /\ block \in declared

\* No session: a block named and not declared, or the end of the function.
NothingToWatch(declared, selector) ==
  \/ \E n \in 1 .. 10 :
       /\ Reaches(declared, selector, n) /\ Returns(declared, selector, n)
       /\ Priority[n] \notin declared
  \/ Reaches(declared, selector, 11)

-----------------------------------------------------------------------------
(* CheckCommand::execute *)

\* The blocks a check opens, one line of its report each, and when it bails.
Checks(declared, selector) == {b \in declared \cap Blocks : Allows(selector, b)}

NothingToCheck(declared, selector) == Checks(declared, selector) = {}

\* A block whose line stands before that of another.
Before(a, b) == \E m, n \in 1 .. 10 : Priority[m] = a /\ Priority[n] = b /\ m < n

=============================================================================
