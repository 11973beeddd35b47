------------------------------- MODULE Picture -------------------------------
(***************************************************************************)
(* What a REST change feed is reconciled against (src/src/picture.rs): the *)
(* picture of a collection, and the events of the three ways it moves.     *)
(*                                                                         *)
(* A picture is a function from the ids it holds to items.  Events of one  *)
(* call are a set: the hooks of two of them never depend on their order.   *)
(* `mail` says whether the domain a call is given is WatchDomain::Message. *)
(***************************************************************************)

CONSTANTS
  Ids,        \* the ids an item may have
  Flags,      \* the flags a message may carry
  Versions,   \* the versions a source may stamp an item with
  NoVersion   \* the version of an item the source does not stamp

ASSUME PictureAssumption == NoVersion \notin Versions

Item == [flags : SUBSET Flags, version : Versions \cup {NoVersion}]

ItemAdded(id)         == [kind |-> "item-added", id |-> id]
ItemChanged(id)       == [kind |-> "item-changed", id |-> id]
ItemRemoved(id)       == [kind |-> "item-removed", id |-> id]
FlagAdded(id, flag)   == [kind |-> "flag-added", id |-> id, flag |-> flag]
FlagRemoved(id, flag) == [kind |-> "flag-removed", id |-> id, flag |-> flag]

-----------------------------------------------------------------------------
(* moved *)

Flagged(id, before, after) ==
  {FlagAdded(id, flag) : flag \in after.flags \ before.flags}
    \cup {FlagRemoved(id, flag) : flag \in before.flags \ after.flags}

\* A mistake: an edit told of a message whose flags moved.
MailEditedAnyway(before, after) ==
  after.version # NoVersion /\ before.version # after.version

\* A message is edited where its version moved and none of its flags did.
MailEdited(before, after) ==
  /\ before.flags = after.flags
  /\ after.version # NoVersion /\ before.version # after.version

\* Mistakes: taking an item named for one that moved, and the reverse.
OtherEditedNamed(before, after, touched) ==
  after.version = NoVersion \/ before.version # after.version
OtherEditedTouched(before, after, touched) ==
  touched /\ (after.version = NoVersion \/ before.version # after.version)

\* Anything else, where its version moved or a feed named it without one.
OtherEdited(before, after, touched) ==
  (touched /\ after.version = NoVersion) \/ before.version # after.version

MovedEvents(mail, id, before, after, touched) ==
  IF mail
    THEN Flagged(id, before, after)
           \cup {ItemChanged(i) : i \in {j \in {id} : MailEdited(before, after)}}
    ELSE {ItemChanged(i) : i \in {j \in {id} : OtherEdited(before, after, touched)}}

-----------------------------------------------------------------------------
(* touch, remove and rebase: what becomes of the picture, and the events *)

Touched(known, id, item) ==
  [i \in DOMAIN known \cup {id} |-> IF i = id THEN item ELSE known[i]]

TouchEvents(mail, known, id, item) ==
  IF id \in DOMAIN known
    THEN MovedEvents(mail, id, known[id], item, TRUE)
    ELSE {ItemAdded(id)}

Forgotten(known, id) == [i \in DOMAIN known \ {id} |-> known[i]]

RemoveEvents(known, id) == {ItemRemoved(i) : i \in DOMAIN known \cap {id}}

\* The picture becomes `fresh`, and what differs is reported.
RebaseEvents(mail, known, fresh) ==
  {ItemRemoved(id) : id \in DOMAIN known \ DOMAIN fresh}
    \cup {ItemAdded(id) : id \in DOMAIN fresh \ DOMAIN known}
    \cup UNION {MovedEvents(mail, id, known[id], fresh[id], FALSE) :
                  id \in DOMAIN known \cap DOMAIN fresh}

=============================================================================
