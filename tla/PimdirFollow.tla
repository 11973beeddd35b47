---------------------------- MODULE PimdirFollow ----------------------------
(***************************************************************************)
(* The watch of one calendar of a local pimdir store (src/src/pimdir.rs):  *)
(* the cursor it read the store at, the pages of the two readings that     *)
(* move it, and the alarm book they keep current.                          *)
(*                                                                         *)
(* The store's owner is another process, and commits between any two reads *)
(* of the watch: an item written, deleted, or written before its body is   *)
(* local; a deleted row purged; the calendar or another collection moved;  *)
(* the whole store reset.  Every commit stamps what it moved with the next *)
(* stamp of the store.                                                     *)
(*                                                                         *)
(* An item is known by one number, the public id its alarms are keyed by   *)
(* and the link a listing is ordered by.  The rows of other collections,   *)
(* which share the pages of changes, only make them hold fewer of its own, *)
(* and are left out; every commit of an item stamps its row alone.         *)
(***************************************************************************)
EXTENDS Integers, FiniteSets, AlarmBook

CONSTANTS
  MaxItem,    \* the items the calendar may hold are 1 .. MaxItem
  Others,     \* the other collections of the store
  PAGE,       \* how many rows a page holds
  MaxCommits, \* bound: how many commits stamp what they move
  MaxResets   \* bound: how often the store is reset

\* The body a commit writes is known by the number of the commit, and each has its
\* parts.
ASSUME PimdirAssumption ==
  /\ {MaxItem, PAGE, MaxCommits} \subseteq Nat \ {0}
  /\ MaxResets \in Nat
  /\ IsFiniteSet(Others)
  /\ 1 .. MaxCommits \subseteq DOMAIN Parts

Items == 1 .. MaxItem

Absent == 0     \* no row, or a deleted one that was purged
Gone   == -1    \* a deleted or retained row
NoBody == -2    \* a row whose body is not local yet
Unsaid == -3    \* an item no page has named
Failed == -4    \* an item whose body could not be read

Calendar    == "calendar"
Collections == Others \cup {Calendar}

VARIABLES
  changed,    \* store: the last stamp
  purges,     \* store: how many purges it has counted
  resets,     \* store: its incarnation
  row,        \* store: the object of each item
  stamp,      \* store: the stamp of each item's row
  moved,      \* store: the stamp of each collection
  isCalendar, \* store: the collection watched still holds calendars
  commits,    \* history: how many commits there were, resets aside
  shutdown,   \* the flag Ctrl+C sets
  pc,         \* what the watch has to read next
  cursor,     \* the cursor the book is current as of
  now,        \* the cursor read at the start of the reading under way
  after,      \* the item, or the stamp, the next page is above
  full,       \* the last page was full, so that another follows
  page,       \* the items of a page of changes still to be read
  read,       \* what the reading under way found of each item
  book,       \* AlarmBook: the body of each item
  failed,     \* history: the items whose body the last reading to name them
              \* could not read
  hidden      \* history: the calendar moved, on a page not looked at

store   == <<changed, purges, resets, row, stamp, moved, isCalendar, commits>>
reading == <<now, after, full, page, read>>
vars    == <<store, shutdown, pc, cursor, reading, book, failed, hidden>>

-----------------------------------------------------------------------------
(* What the store answers, each answer a read of its own *)

NoCursor     == [changed |-> 0, purges |-> 0, resets |-> -1]
ChangeCursor == [changed |-> changed, purges |-> purges, resets |-> resets]

Live == {i \in Items : row[i] \notin {Absent, Gone}}

\* The first PAGE members of S, ordered by `key`.
First(S, key) == {x \in S : Cardinality({y \in S : key[y] < key[x]}) < PAGE}

\* Where the page after S begins.
Past(S, key) == CHOOSE k \in {key[x] : x \in S} : \A x \in S : key[x] <= k

Link == [i \in Items |-> i]

ListPage    == First({i \in Live : i > after}, Link)
ChangesPage == First({i \in Items : row[i] # Absent /\ stamp[i] > after}, stamp)

\* The body of an item, if it has one that is local.
LocalBody(i) == IF row[i] \in {Absent, Gone, NoBody} THEN Absent ELSE row[i]

\* body: an item whose body is not local is gone; so is, for the book, one
\* whose body cannot be read, as any of them may.
Found(i, failing) ==
  IF LocalBody(i) = Absent THEN Gone ELSE IF i \in failing THEN Failed ELSE row[i]

NothingFound == [i \in Items |-> Unsaid]

\* The locals of a reading, once it is over.
ReadingOver ==
  now' = NoCursor /\ after' = 0 /\ full' = FALSE /\ page' = {} /\ read' = NothingFound

-----------------------------------------------------------------------------
(* load: the whole calendar *)

Open ==
  /\ pc = "down" /\ ~shutdown
  /\ pc' = "load"
  /\ UNCHANGED <<store, shutdown, cursor, reading, book, failed, hidden>>

\* The cursor first, so that a change landing meanwhile is read again.
LoadBegins ==
  /\ pc = "load"
  /\ now' = ChangeCursor
  /\ pc' = "check"
  /\ after' = 0 /\ read' = NothingFound
  /\ UNCHANGED <<store, shutdown, cursor, full, page, book, failed, hidden>>

\* check_calendar.
Check ==
  /\ pc = "check"
  /\ IF isCalendar
       THEN pc' = "list" /\ hidden' = FALSE /\ UNCHANGED reading
       ELSE pc' = "down" /\ UNCHANGED hidden /\ ReadingOver
  /\ UNCHANGED <<store, shutdown, cursor, book, failed>>

ReadPage(failing) ==
  [i \in Items |-> IF i \in ListPage THEN Found(i, failing) ELSE read[i]]

\* A mistake: an item gone kept as such.
NotedGone(b, i, found) ==
  CASE found = Unsaid -> b[i]
    [] found = Failed -> Nothing
    [] OTHER -> IF found = Gone THEN Gone ELSE Entry(b, i, found)

\* What the book holds of an item after a reading that found this of it.
Noted(b, i, found) ==
  CASE found = Unsaid -> b[i]
    [] found \in {Gone, Failed} -> Nothing
    [] OTHER -> Entry(b, i, found)

\* A book read anew.
Loaded(found) ==
  /\ book' = [i \in Items |-> Noted(EmptyBook(Items), i, found[i])]
  /\ failed' = {i \in Items : found[i] = Failed}

\* A page, short of the last.
List ==
  /\ pc = "list" /\ Cardinality(ListPage) = PAGE
  /\ \E failing \in SUBSET ListPage : read' = ReadPage(failing)
  /\ after' = Past(ListPage, Link)
  /\ UNCHANGED <<store, shutdown, pc, cursor, now, full, page, book, failed, hidden>>

\* The last page: the book is replaced.
LoadEnds ==
  /\ pc = "list" /\ Cardinality(ListPage) < PAGE
  /\ \E failing \in SUBSET ListPage : Loaded(ReadPage(failing))
  /\ cursor' = now
  /\ pc' = "idle"
  /\ ReadingOver
  /\ UNCHANGED <<store, shutdown, hidden>>

-----------------------------------------------------------------------------
(* follow: what moved since the cursor *)

\* A mistake: a purge is no reason to read the calendar again.
ResetSincePurgesAside(c) ==
  c.resets # cursor.resets \/ c.changed < cursor.changed

ResetSince(c) ==
  \/ c.resets # cursor.resets
  \/ c.purges # cursor.purges
  \/ c.changed < cursor.changed

\* A mistake: only the stamp of the cursor looked at.
FollowBeginsOnStamp ==
  /\ pc = "idle" /\ ~shutdown /\ changed # cursor.changed
  /\ now' = ChangeCursor
  /\ pc' = IF ResetSince(now') THEN "load" ELSE "renamed"
  /\ after' = cursor.changed
  /\ UNCHANGED <<store, shutdown, cursor, full, page, read, book, failed, hidden>>

\* The interval is over, and the cursor has moved.
FollowBegins ==
  /\ pc = "idle" /\ ~shutdown /\ ChangeCursor # cursor
  /\ now' = ChangeCursor
  /\ pc' = IF ResetSince(now') THEN "load" ELSE "renamed"
  /\ after' = cursor.changed
  /\ UNCHANGED <<store, shutdown, cursor, full, page, read, book, failed, hidden>>

\* A mistake: only another collection's move looked at.
RenamedOthers == First({c \in Others : moved[c] > cursor.changed}, moved)

\* The collections that moved, one page of them.
Renamed == First({c \in Collections : moved[c] > cursor.changed}, moved)

\* A page of other collections moved before the calendar did.
Crowded ==
  Cardinality({c \in Others : moved[c] \in cursor.changed + 1 .. moved[Calendar] - 1}) >= PAGE

FollowRenamed ==
  /\ pc = "renamed"
  /\ pc' = IF Calendar \in Renamed THEN "load" ELSE "changes"
  /\ hidden' = (hidden \/ Crowded)
  /\ UNCHANGED <<store, shutdown, cursor, reading, book, failed>>

\* A page of changes: a deleted row is gone, any other is to be read.
Changes ==
  /\ pc = "changes"
  /\ LET gone == {i \in ChangesPage : row[i] = Gone}
     IN  /\ read' = [i \in Items |-> IF i \in gone THEN Gone ELSE read[i]]
         /\ page' = ChangesPage \ gone
  /\ after' = IF ChangesPage = {} THEN after ELSE Past(ChangesPage, stamp)
  /\ full' = (Cardinality(ChangesPage) = PAGE)
  /\ pc' = "items"
  /\ UNCHANGED <<store, shutdown, cursor, now, book, failed, hidden>>

\* get_item, and its body: as the item stands by now.
GetItem ==
  /\ pc = "items"
  /\ \E i \in page : \E failing \in SUBSET {i} :
       /\ read' = [read EXCEPT ![i] = Found(i, failing)]
       /\ page' = page \ {i}
  /\ UNCHANGED <<store, shutdown, pc, cursor, now, after, full, book, failed, hidden>>

NextChanges ==
  /\ pc = "items" /\ page = {} /\ full
  /\ pc' = "changes"
  /\ UNCHANGED <<store, shutdown, cursor, reading, book, failed, hidden>>

\* The book is updated with everything read.
FollowEnds ==
  /\ pc = "items" /\ page = {} /\ ~full
  /\ book' = [i \in Items |-> Noted(book, i, read[i])]
  /\ failed' = {i \in Items : read[i] = Failed \/ (i \in failed /\ read[i] = Unsaid)}
  /\ cursor' = now
  /\ pc' = "idle"
  /\ ReadingOver
  /\ UNCHANGED <<store, shutdown, hidden>>

\* A read of the store fails: the session ends, the book standing.
SessionEnds ==
  /\ pc \notin {"down", "idle", "ended"}
  /\ pc' = "down"
  /\ ReadingOver
  /\ UNCHANGED <<store, shutdown, cursor, book, failed, hidden>>

RequestShutdown ==
  /\ ~shutdown /\ shutdown' = TRUE
  /\ UNCHANGED <<store, pc, cursor, reading, book, failed, hidden>>

\* Only the sleep between polls, and the account's loop, read the flag.
Stop ==
  /\ shutdown /\ pc \in {"idle", "down"}
  /\ pc' = "ended"
  /\ UNCHANGED <<store, shutdown, cursor, reading, book, failed, hidden>>

-----------------------------------------------------------------------------
(* The store's owner *)

Watch == <<shutdown, pc, cursor, reading, book, failed, hidden>>

\* What is moved is stamped with the next stamp.
Commit ==
  commits < MaxCommits /\ commits' = commits + 1 /\ changed' = changed + 1

\* An object no commit wrote before.
Object == commits + 1

Stamped(i, object) ==
  /\ Commit
  /\ row' = [row EXCEPT ![i] = object]
  /\ stamp' = [stamp EXCEPT ![i] = changed + 1]
  /\ UNCHANGED <<purges, resets, moved, isCalendar, Watch>>

Write  == \E i \in Items : \E object \in {Object, NoBody} : Stamped(i, object)
Delete == \E i \in Live : Stamped(i, Gone)

Purge ==
  /\ \E i \in Items : row[i] = Gone /\ row' = [row EXCEPT ![i] = Absent]
  /\ purges' = purges + 1
  /\ UNCHANGED <<changed, resets, stamp, moved, isCalendar, commits, Watch>>

MoveCollection ==
  /\ Commit
  /\ \E c \in Collections :
       /\ moved' = [moved EXCEPT ![c] = changed + 1]
       /\ isCalendar' \in IF c = Calendar THEN BOOLEAN ELSE {isCalendar}
  /\ UNCHANGED <<purges, resets, row, stamp, Watch>>

\* Another store in its place, empty, whatever stamp it has reached.
Reset ==
  /\ resets < MaxResets
  /\ resets' = resets + 1
  /\ changed' \in 0 .. changed
  /\ purges' = 0 /\ isCalendar' = TRUE
  /\ row' = [i \in Items |-> Absent] /\ stamp' = [i \in Items |-> 0]
  /\ moved' = [c \in Collections |-> 0]
  /\ UNCHANGED <<commits, Watch>>

-----------------------------------------------------------------------------
Init ==
  /\ commits = 0 /\ changed = 0 /\ purges = 0 /\ resets = 0 /\ isCalendar = TRUE
  /\ row = [i \in Items |-> Absent] /\ stamp = [i \in Items |-> 0]
  /\ moved = [c \in Collections |-> 0]
  /\ shutdown = FALSE /\ pc = "down" /\ cursor = NoCursor
  /\ now = NoCursor /\ after = 0 /\ full = FALSE /\ page = {}
  /\ read = NothingFound
  /\ book = EmptyBook(Items) /\ failed = {} /\ hidden = FALSE

Reads ==
  \/ Open \/ LoadBegins \/ Check \/ List \/ LoadEnds
  \/ FollowBegins \/ FollowRenamed \/ Changes \/ GetItem \/ NextChanges \/ FollowEnds

Owner == Write \/ Delete \/ Purge \/ MoveCollection \/ Reset

Next == Reads \/ SessionEnds \/ RequestShutdown \/ Stop \/ Owner

Spec == Init /\ [][Next]_vars

\* The watch runs, and a store left alone can be read: from some point on, no
\* read of it fails.
Answers == <>[][~SessionEnds]_vars

FairSpec == Spec /\ Answers /\ WF_vars(Reads) /\ WF_vars(Stop)

-----------------------------------------------------------------------------
(* What the book promises *)

Cursors == [changed : 0 .. commits, purges : 0 .. commits, resets : -1 .. MaxResets]

TypeOK ==
  /\ commits \in 0 .. MaxCommits /\ changed \in 0 .. commits /\ purges \in 0 .. commits
  /\ resets \in 0 .. MaxResets /\ isCalendar \in BOOLEAN
  /\ row \in [Items -> {Absent, Gone, NoBody} \cup 1 .. commits]
  /\ stamp \in [Items -> 0 .. changed] /\ moved \in [Collections -> 0 .. changed]
  /\ shutdown \in BOOLEAN /\ full \in BOOLEAN
  /\ pc \in {"down", "load", "check", "list", "idle", "renamed", "changes", "items",
             "ended"}
  /\ cursor \in Cursors /\ now \in Cursors
  /\ page \subseteq Items /\ failed \subseteq Items /\ hidden \in BOOLEAN
  /\ read \in [Items -> Int] /\ book \in [Items -> Nat]

SameStore == cursor.resets = resets /\ cursor.purges = purges

\* The items a reading from the cursor would not name: it would read the same
\* store, unpurged, and they have not moved since.
Unmoved == {i \in Items : SameStore /\ stamp[i] <= cursor.changed}

\* The book holds the body of every item as it stands and nothing of one that
\* moved away or was deleted, purged or reset, unless a reading from the cursor
\* still says so: a commit landing between any two reads is "folded again rather
\* than skipped" (load), and a session that fails leaves the book with its
\* cursor.  An item whose body could not be read has no alarm until it moves.
BookIsCurrent ==
  \A i \in Unmoved : book[i] = IF i \in failed THEN Nothing ELSE Wanted(LocalBody(i))

\* The calendar moving "reads the calendar whole again" (follow), which refuses
\* it once it holds calendars no more (check_calendar), however its move falls
\* among other commits, unless a page of other collections moved before it.
KindIsChecked ==
  pc = "idle" /\ SameStore /\ moved[Calendar] <= cursor.changed => isCalendar \/ hidden

\* A store that stands still is followed to where it is, whatever was purged or
\* reset on the way.
Still ==
  /\ commits = MaxCommits /\ resets = MaxResets /\ isCalendar
  /\ \A i \in Items : row[i] # Gone

BookCatchesUp ==
  Still ~> (\A i \in Items \ failed : book[i] = Wanted(LocalBody(i))) \/ shutdown

=============================================================================
