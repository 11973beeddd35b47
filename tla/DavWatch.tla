------------------------------ MODULE DavWatch ------------------------------
(***************************************************************************)
(* The watch of one WebDAV collection (src/src/dav.rs): the picture it     *)
(* holds, the sync token the picture was taken at, the rounds that move    *)
(* both, and the alarm book it keeps beside them.                          *)
(*                                                                         *)
(* The server is another process: members are created, edited and deleted  *)
(* between any two requests, a report may be truncated, a token may        *)
(* expire, and any request may fail (module Collection).                   *)
(*                                                                         *)
(* What a member holds (an event, a task, a card) is left out: a mixed     *)
(* calendar shows as the content types it has to ask for.                  *)
(***************************************************************************)
EXTENDS Collection, AlarmBook

CONSTANTS
  Refuses,      \* the server may have no `sync-collection`
  CutsDelta,    \* the server truncates a report read from a token
  CutsEnum,     \* the server truncates an enumeration
  Mixed,        \* Domains::Mixed, the content type of a new member being asked
  Alarms        \* the account has an alarm hook

ASSUME DavAssumption ==
  /\ {Refuses, CutsDelta, CutsEnum, Mixed, Alarms} \subseteq BOOLEAN
  /\ 1 .. MaxRev \subseteq DOMAIN Parts

VARIABLES
  shutdown,   \* the flag Ctrl+C sets
  pc,         \* which request the watch has to make next
  stage,      \* what for: the baseline ("arm") or a round
  attempt,    \* which run of the round, the second on a fresh connection
  known,      \* Watched: the etag of each member of the picture
  token,      \* Watched: the token the next report reads from
  listing,    \* Watched: every round lists the collection
  cursor,     \* Snapshot: the token of the enumeration under way
  seen,       \* Snapshot: the etags listed of each member, in order
  complete,   \* Snapshot: nothing was left out
  cut,        \* history: the enumeration under way took several reports
  torn,       \* history: the picture rests on such an enumeration
  unread,     \* history: the members passed over, their content type unread
  ahead,      \* history: a round failed between an enumeration and its rebase
  moved,      \* what the round's events ask of the alarm book
  book,       \* AlarmBook: the etag each body was read at
  out         \* the events the step reported

snap == <<cursor, seen, complete, cut>>
past == <<torn, unread, ahead>>
vars == <<srv, shutdown, pc, stage, attempt, known, token, listing, snap, past,
          moved, book, out>>

Event == [kind : {"added", "changed", "removed"}, id : Members]

-----------------------------------------------------------------------------
(* What the server answers *)

\* A report may name unchanged members again.
Again(from) == SUBSET {h \in Held : lastmod[h] \in 1 .. from}

\* How far a report from a token may reach: the last revision, or short of it,
\* behind a token the server still answers from.
Reaches(from, to, cuts) ==
  to = rev \/ (cuts /\ to \in from + 1 .. rev - 1 /\ to >= floor)

-----------------------------------------------------------------------------
(* Reading a report against the picture *)

Added(S)   == [kind : {"added"}, id : S]
Edited(S)  == [kind : {"changed"}, id : S]
Removed(S) == [kind : {"removed"}, id : S]

InPicture == {h \in Members : known[h] # Absent}

\* The events of a round, as the watch keeps them for the alarm book.
Asked(m, events) ==
  [h \in Members |-> IF \E e \in events : e.id = h
                     THEN IF \E e \in events : e.id = h /\ e.kind # "removed"
                            THEN "read" ELSE "forget"
                     ELSE m[h]]

Report(events) ==
  /\ out' = events
  /\ moved' = IF Alarms THEN Asked(moved, events) ELSE moved

Silent == out' = {} /\ UNCHANGED moved

\* A mistake: keeping the newest token there is, whatever the report reached.
ReconcileAhead(to, changed, skipped) ==
  LET gone == Vanished(token, to) \cap InPicture
      read == changed \ skipped
  IN  /\ known' = [h \in Members |-> CASE h \in gone -> Absent
                                     [] h \in read -> server[h]
                                     [] OTHER -> known[h]]
      /\ token' = rev
      /\ Report(Removed(gone) \cup Added(read \ InPicture)
                \cup Edited({h \in read \cap InPicture : known[h] # server[h]}))

\* reconcile: the report from `token` up to `to`.  A new member whose content
\* type could not be read is `skipped`.
Reconcile(to, changed, skipped) ==
  LET gone == Vanished(token, to) \cap InPicture
      read == changed \ skipped
  IN  /\ known' = [h \in Members |-> CASE h \in gone -> Absent
                                     [] h \in read -> server[h]
                                     [] OTHER -> known[h]]
      /\ token' = to
      /\ Report(Removed(gone) \cup Added(read \ InPicture)
                \cup Edited({h \in read \cap InPicture : known[h] # server[h]}))

Listed == {h \in Members : seen[h] # <<>>}
Fresh(h) == seen[h][Len(seen[h])]

\* A mistake: what a truncated listing leaves out read as removed.
RebaseEventsTruncated ==
  Edited({h \in Listed \cap InPicture : known[h] # Head(seen[h])})
    \cup Added({h \in Listed : h \notin InPicture \/ Len(seen[h]) > 1})
    \cup Removed(InPicture \ Listed)

\* rebase: the enumeration replaces the picture.  The first listing of a member
\* takes it out of the picture, so a second one reads as an arrival.
RebaseEvents ==
  LET missing == InPicture \ Listed
  IN  Edited({h \in Listed \cap InPicture : known[h] # Head(seen[h])})
        \cup Added({h \in Listed : h \notin InPicture \/ Len(seen[h]) > 1})
        \cup (IF complete THEN Removed(missing) ELSE {})

Rebased ==
  [h \in Members |-> IF h \in Listed THEN Fresh(h)
                   ELSE IF complete THEN Absent ELSE known[h]]

-----------------------------------------------------------------------------
(* The watch: a session, its baseline, then a round per poll *)

FirstRequest == IF listing THEN "list" ELSE "sync"

NothingSeen == [h \in Members |-> <<>>]
NothingMoved == [h \in Members |-> "no"]

NewSnapshot ==
  cursor' = NoToken /\ seen' = NothingSeen /\ complete' = TRUE /\ cut' = FALSE

\* The watch sleeps until the next round, or has bodies to read before.
RoundOver ==
  /\ pc' = IF Alarms /\ \E h \in Members : moved'[h] # "no" THEN "refresh" ELSE "idle"
  /\ attempt' = 1

\* open, locate, Domains::resolve, and Watched::arm about to enumerate.
Open ==
  /\ pc = "down" /\ ~shutdown
  /\ pc' = "enum"
  /\ Silent
  /\ UNCHANGED <<srv, shutdown, stage, attempt, known, token, listing, snap, past, book>>

\* snapshot: one report of the enumeration.  What it says vanished is not read.
EnumPage ==
  /\ pc = "enum" /\ ~Rejected(cursor)
  /\ \E to \in 1 .. MaxRev :
       /\ Reaches(cursor, to, CutsEnum)
       /\ seen' = [h \in Members |-> IF h \in Changed(cursor, to)
                                     THEN Append(seen[h], server[h]) ELSE seen[h]]
       /\ IF to < rev /\ ~shutdown
            THEN cursor' = to /\ cut' = TRUE /\ UNCHANGED <<token, complete, pc>>
            ELSE /\ cursor' = NoToken /\ token' = to /\ cut' = cut
                 /\ complete' = (to = rev) /\ pc' = "rebase"
  /\ Silent
  /\ UNCHANGED <<srv, shutdown, stage, attempt, known, listing, past, book>>

\* snapshot: the server has no such report, and is listed from now on.
EnumRefused ==
  /\ pc = "enum" /\ Refuses /\ cursor = NoToken
  /\ pc' = "list" /\ listing' = TRUE /\ token' = NoToken
  /\ Silent
  /\ UNCHANGED <<srv, shutdown, stage, attempt, known, snap, past, book>>

\* snapshot on a server listing: one PROPFIND, which may be truncated.
List ==
  /\ pc = "list"
  /\ \E shown \in SUBSET Held :
       /\ complete' \in {b \in BOOLEAN : b => \A h \in Members \ shown : server[h] = Absent}
       /\ seen' = [h \in Members |-> IF h \in shown THEN <<server[h]>> ELSE <<>>]
  /\ pc' = "rebase"
  /\ Silent
  /\ UNCHANGED <<srv, shutdown, stage, attempt, known, token, listing, cursor, cut, past, book>>

\* Watched::rebase, the content types read where it wants them.
Rebase ==
  /\ pc = "rebase"
  /\ known' = Rebased
  /\ NewSnapshot /\ torn' = cut /\ ahead' = FALSE
  /\ unread' = unread \ Listed
  /\ stage' = "round"
  /\ IF stage = "arm"
       THEN Silent /\ pc' = (IF Alarms THEN "alarms" ELSE "idle") /\ UNCHANGED attempt
       ELSE Report(RebaseEvents) /\ RoundOver
  /\ UNCHANGED <<srv, shutdown, token, listing, book>>

\* What a book holds of a member once its body was asked for.
BodyOf(b, h) == IF server[h] = Absent THEN Nothing ELSE Entry(b, h, server[h])

\* read_alarms, after the baseline: every body as it stands.
ReadAlarms ==
  /\ pc = "alarms"
  /\ pc' = "idle"
  /\ book' = [h \in Members |-> BodyOf(EmptyBook(Members), h)]
  /\ Silent
  /\ UNCHANGED <<srv, shutdown, stage, attempt, known, token, listing, snap, past>>

\* The interval is over: a round.
Poll ==
  /\ pc = "idle" /\ ~shutdown
  /\ pc' = FirstRequest
  /\ Silent
  /\ UNCHANGED <<srv, shutdown, stage, attempt, known, token, listing, snap, past, book>>

\* One report of a round, drained while truncated.
Sync ==
  /\ pc = "sync" /\ ~Rejected(token)
  /\ \E to \in 1 .. MaxRev :
       /\ Reaches(token, to, CutsDelta)
       /\ \E again \in Again(token) :
            LET changed == Changed(token, to) \cup again
            IN  \E skipped \in SUBSET (changed \ InPicture) :
                  /\ skipped # {} => Mixed
                  /\ Reconcile(to, changed, skipped)
                  /\ unread' = (unread \ changed) \cup skipped
       /\ IF to < rev /\ ~shutdown THEN UNCHANGED <<pc, attempt>> ELSE RoundOver
  /\ UNCHANGED <<srv, shutdown, stage, listing, snap, torn, ahead, book>>

\* A mistake: a refused token tried again at the next interval.
SyncRejectedRetried ==
  /\ pc = "sync" /\ Rejected(token)
  /\ Silent /\ RoundOver
  /\ UNCHANGED <<srv, shutdown, stage, known, token, listing, snap, past, book>>

\* The token is refused: the collection is enumerated again.
SyncRejected ==
  /\ pc = "sync" /\ Rejected(token)
  /\ pc' = "enum"
  /\ NewSnapshot
  /\ Silent
  /\ UNCHANGED <<srv, shutdown, stage, attempt, known, token, listing, past, book>>

\* refresh_alarms: the bodies of what moved, as they stand now.
Refresh ==
  /\ pc = "refresh"
  /\ pc' = "idle"
  /\ book' = [h \in Members |-> CASE moved[h] = "read" -> BodyOf(book, h)
                                [] moved[h] = "forget" -> Nothing
                                [] OTHER -> book[h]]
  /\ moved' = NothingMoved /\ out' = {}
  /\ UNCHANGED <<srv, shutdown, stage, attempt, known, token, listing, snap, past>>

-----------------------------------------------------------------------------
(* Failures and shutdown *)

\* The rebase of a mixed calendar reads content types when a member is new.
AsksTypes == Mixed /\ Listed \ InPicture # {}

Asking == pc \in {"enum", "list", "sync"} \/ (pc = "rebase" /\ AsksTypes)
InRound == stage = "round" /\ Asking

\* The token an enumeration ended on is kept, whatever became of its listing.
Forgone == ahead' = (ahead \/ pc = "rebase")

\* A mistake: a failing round run again however often it fails.
RunAgainForEver ==
  /\ InRound /\ ~shutdown
  /\ attempt' = attempt + 1 /\ pc' = FirstRequest
  /\ NewSnapshot /\ Forgone
  /\ Silent
  /\ UNCHANGED <<srv, shutdown, stage, known, token, listing, torn, unread, book>>

\* A mistake: the second run of the round forgets what the first one moved.
RunAgainAfresh ==
  /\ InRound /\ ~shutdown /\ attempt = 1
  /\ attempt' = 2 /\ pc' = FirstRequest
  /\ NewSnapshot /\ Forgone
  /\ out' = {} /\ moved' = NothingMoved
  /\ UNCHANGED <<srv, shutdown, stage, known, token, listing, torn, unread, book>>

\* A round failing is run again, on a fresh connection...
RunAgain ==
  /\ InRound /\ ~shutdown /\ attempt = 1
  /\ attempt' = 2 /\ pc' = FirstRequest
  /\ NewSnapshot /\ Forgone
  /\ Silent
  /\ UNCHANGED <<srv, shutdown, stage, known, token, listing, torn, unread, book>>

\* ...unless that one cannot be opened, or the run was the second.  Any other
\* request failing ends the session, and all of it but the alarm book is dropped.
SessionEnds ==
  /\ Asking \/ pc \in {"alarms", "refresh"}
  /\ pc' = "down" /\ stage' = "arm" /\ attempt' = 1
  /\ known' = [h \in Members |-> Absent] /\ token' = NoToken /\ listing' = FALSE
  /\ NewSnapshot /\ torn' = FALSE /\ unread' = {} /\ ahead' = FALSE
  /\ moved' = NothingMoved /\ out' = {}
  /\ UNCHANGED <<srv, shutdown, book>>

RequestShutdown ==
  /\ ~shutdown /\ shutdown' = TRUE
  /\ Silent
  /\ UNCHANGED <<srv, pc, stage, attempt, known, token, listing, snap, past, book>>

\* The sleep between two rounds, and the account's loop, read the flag.
Stop ==
  /\ shutdown /\ pc \in {"idle", "down"}
  /\ pc' = "ended"
  /\ Silent
  /\ UNCHANGED <<srv, shutdown, stage, attempt, known, token, listing, snap, past, book>>

-----------------------------------------------------------------------------
(* The server *)

\* Others write to the collection between any two requests.
Others ==
  /\ Put \/ Delete \/ Expire
  /\ Silent
  /\ UNCHANGED <<shutdown, pc, stage, attempt, known, token, listing, snap, past, book>>

-----------------------------------------------------------------------------
Init ==
  /\ CollectionInit
  /\ shutdown = FALSE /\ pc = "down" /\ stage = "arm" /\ attempt = 1
  /\ known = [h \in Members |-> Absent] /\ token = NoToken /\ listing = FALSE
  /\ cursor = NoToken /\ seen = NothingSeen /\ complete = TRUE
  /\ cut = FALSE /\ torn = FALSE /\ unread = {} /\ ahead = FALSE
  /\ moved = NothingMoved /\ book = EmptyBook(Members) /\ out = {}

Answered ==
  \/ Open \/ EnumPage \/ EnumRefused \/ List \/ Rebase \/ ReadAlarms
  \/ Sync \/ SyncRejected \/ Refresh

Next ==
  \/ Answered \/ Poll \/ Stop \/ RunAgain \/ SessionEnds
  \/ RequestShutdown \/ Others

Spec == Init /\ [][Next]_vars

-----------------------------------------------------------------------------
(* What the picture promises *)

TypeOK ==
  /\ CollectionTypeOK
  /\ shutdown \in BOOLEAN /\ listing \in BOOLEAN /\ complete \in BOOLEAN
  /\ cut \in BOOLEAN /\ torn \in BOOLEAN
  /\ unread \subseteq Members /\ ahead \in BOOLEAN
  /\ pc \in {"down", "enum", "list", "rebase", "alarms", "idle", "sync", "refresh",
             "ended"}
  /\ stage \in {"arm", "round"} /\ attempt \in {1, 2}
  /\ known \in [Members -> 0 .. rev] /\ book \in [Members -> 0 .. rev]
  /\ token \in 0 .. rev /\ cursor \in 0 .. rev
  /\ seen \in [Members -> Seq(1 .. rev)]
  /\ moved \in [Members -> {"no", "read", "forget"}]
  /\ out \subseteq Event

\* Between two reports.
Settled == pc \in {"idle", "sync", "refresh", "alarms"} /\ ~shutdown /\ token # NoToken

\* "What the collection holds, as of `token`": each member is in the picture as
\* the collection holds it, or in neither, unless a report from the token still
\* names it: no arrival, edit or removal is lost.  An enumeration in several
\* reports may only keep a member that is gone: what vanishes between two of
\* them stays (snapshot reads `changed` alone).  A member of a mixed calendar
\* whose content type could not be read is left out, never told wrong.
KnownAsOfToken ==
  Settled => \A h \in Members :
    lastmod[h] <= token =>
      \/ known[h] = server[h]
      \/ torn /\ h \notin Held
      \/ h \in unread /\ known[h] = Absent

\* So it is, unless a round failed between an enumeration and its rebase.
KnownIsCurrent == ~ahead => KnownAsOfToken

\* The alarm book holds the body of every member of the picture as of the token
\* or later, and nothing of one whose body holds no alarm by then or cannot be
\* parsed, through failed rounds, expired tokens and edits made while bodies are
\* read.
BookIsCurrent ==
  Settled /\ pc = "idle" /\ Alarms /\ ~torn /\ ~ahead =>
    \A h \in InPicture : lastmod[h] <= token => book[h] = Wanted(server[h])

\* What is reported happened: an arrival was not in the picture, an edit was and
\* its etag moved, and a removal was and is no longer what the collection holds
\* (rebase, reconcile: a truncated listing says nothing of what it left out).  A
\* member listed twice by an enumeration in several reports reads as an arrival.
EventsAreTrue ==
  [][~(pc = "rebase" /\ cut) => \A e \in out' :
       CASE e.kind = "added"   -> known[e.id] = Absent /\ known'[e.id] # Absent
         [] e.kind = "changed" -> known[e.id] # Absent /\ known'[e.id] # known[e.id]
         [] OTHER -> known[e.id] # Absent /\ server[e.id] # known[e.id]]_vars

\* The watch runs, its interval ends and its requests return; from some point
\* on they do not fail but for a token refused, and a listing is whole.
Answers ==
  <>[][/\ RunAgain \/ SessionEnds => Rejected(cursor)
       /\ List => complete']_vars

Fairness ==
  /\ WF_vars(Answered) /\ WF_vars(Poll) /\ WF_vars(Stop)
  /\ WF_vars(Rejected(cursor) /\ (RunAgain \/ SessionEnds))
  /\ Answers

FairSpec == Spec /\ Fairness

\* A collection that stands still is pictured in the end as it is, whatever
\* failed, was refused or expired before.
PictureCatchesUp ==
  rev = MaxRev ~> \/ \A h \in Members \ unread : known[h] = server[h]
                  \/ torn \/ ahead \/ shutdown

=============================================================================
