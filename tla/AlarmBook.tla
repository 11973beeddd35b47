------------------------------ MODULE AlarmBook ------------------------------
(***************************************************************************)
(* The alarm book of a watched calendar (AlarmBook, src/src/alarm.rs): for *)
(* each item, the body its alarms were read from, or nothing when that     *)
(* body holds no alarm that may fire.                                      *)
(*                                                                         *)
(* A body is known by the version of the item it belongs to, and by the    *)
(* components it parses to.  What an alarm says, and when a recurring one  *)
(* fires, is left to the crate that resolves them.                         *)
(***************************************************************************)
EXTENDS Naturals, Sequences

CONSTANTS
  Parts       \* the components of each body, in order; none when it is not
              \* UTF-8, or not iCalendar

Component == [kind : {"event", "task", "other"}, uid : STRING, alarms : Nat]

ASSUME PartsAssumption == \A b \in DOMAIN Parts : Parts[b] \in Seq(Component)

NoUid   == ""
Nothing == 0    \* no body, of an item the book does not hold

-----------------------------------------------------------------------------
(* kind_of: the components an alarm fires of *)
Kinds == {"event", "task"}

Components(body) == {Parts[body][n] : n \in DOMAIN Parts[body]}

\* The UIDs of a body, and the components of one of them.
Uids(body)      == {c.uid : c \in {d \in Components(body) : d.kind \in Kinds}} \ {NoUid}
Ours(body, uid) == {c \in Components(body) : c.kind \in Kinds /\ c.uid = uid}

\* AlarmSeries::of_uid: a series is the alarms of one UID, overrides included.
Series(body) == {uid \in Uids(body) : \E c \in Ours(body, uid) : c.alarms > 0}

\* A mistake: what the item held before kept when its new body says nothing.
EntryKept(book, key, body) == IF Series(body) = {} THEN book[key] ELSE body

\* read: what the book holds at `key` once `body` was read.
Entry(book, key, body) == IF Series(body) = {} THEN Nothing ELSE body

\* new, and the body each key has in a book.
EmptyBook(keys) == [k \in keys |-> Nothing]

-----------------------------------------------------------------------------
(* What a body comes to: an event or a task of it has a UID and an alarm *)
Rings(body) ==
  \E n \in DOMAIN Parts[body] :
    LET c == Parts[body][n] IN c.kind # "other" /\ c.uid # NoUid /\ c.alarms > 0

\* The body the book is to hold of an item that has this one.
Wanted(body) == IF body # Nothing /\ Rings(body) THEN body ELSE Nothing

=============================================================================
