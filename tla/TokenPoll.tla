------------------------------ MODULE TokenPoll ------------------------------
(***************************************************************************)
(* A collection watched by polling a vendor's change feed: Google Calendar *)
(* (src/src/gcal.rs), Google People (src/src/gpeople.rs), and the mail,    *)
(* contacts and calendars of Microsoft Graph (src/src/msgraph.rs).         *)
(*                                                                         *)
(* The three poll alike: a listing, paged, is the baseline; a round reads  *)
(* what changed since the token, paged as well, and applies it once every  *)
(* page has answered; an expired token is a listing again.  What differs   *)
(* is what the pages say of a collection changing under them:              *)
(*   "token"    Google: a page is read as of itself, and the token is the  *)
(*              one of when the listing began;                             *)
(*   "delta"    Graph mail: later pages carry what changed since, removals *)
(*              included, up to the link at the end;                       *)
(*   "contacts" Graph contacts: a delta whose rows carry no version;       *)
(*   "listing"  Graph calendars: a listing each round, and no token.       *)
(*                                                                         *)
(* A member a Google feed calls cancelled or deleted, or a person who left *)
(* the group, is one the collection holds no more.                         *)
(***************************************************************************)
EXTENDS Collection, Sequences

CONSTANT Feeds  \* the feeds watched

ASSUME TokenPollAssumption == 
  Feeds \subseteq {"token", "delta", "contacts", "listing"}

VARIABLES
  feed,       \* what the vendor's feed is, which never changes
  shutdown,   \* the flag Ctrl+C sets
  pc,         \* "down", "list" or "round" reading pages, "idle", "ended"
  stage,      \* what for: the baseline ("arm") or a round
  attempt,    \* which run of the round, the second on a fresh connection
  known,      \* Watched: the version of each member of the picture
  token,      \* Watched: the token or link the next round reads from
  began,      \* the revision the reading under way began at
  rows,       \* the versions its pages gave of each member, in order
  readAt,     \* the revision each member was last on a page at
  ghosts,     \* history: the members a listing kept though a later page of it
              \* took them back
  out         \* the kinds of event the step reported of each member

reading == <<began, rows, readAt>>
vars    == <<srv, feed, shutdown, pc, stage, attempt, known, token, ghosts,
             reading, out>>

-----------------------------------------------------------------------------
(* Reading rows against the picture (picture.rs, module Picture) *)

InPicture == {m \in Members : known[m] # Absent}

\* A feed whose later pages carry what changed under the earlier ones.
IsDelta == feed \in {"delta", "contacts"}

Unversioned == -1  \* the version of a member whose rows carry none

\* What the picture keeps of a member held at a version, and of one that is not.
Kept(version) ==
  IF feed = "contacts" /\ version # Absent THEN Unversioned ELSE version

\* A mistake: a member named again is an edit.
StoryNamed(before, after, touched) ==
  CASE before = Absent /\ after # Absent -> {"added"}
    [] before # Absent /\ after = Absent -> {"removed"}
    [] before # Absent /\ after # Absent -> {"changed"}
    [] OTHER -> {}

\* What one reading after another reports: picture::touch and ::remove of the row
\* that touched the member, picture::rebase of a listing.  The flags a message
\* moves by count as an edit here (module Picture tells them apart), and a member
\* without a version is edited whenever a row touches it, and by nothing else.
Story(before, after, touched) ==
  CASE before = Absent /\ after # Absent -> {"added"}
    [] before # Absent /\ after = Absent -> {"removed"}
    [] before # Absent /\ after # Absent
         /\ (before # after \/ (touched /\ after = Unversioned)) -> {"changed"}
    [] OTHER -> {}

\* The readings of one member: the picture's, then its rows.
Readings(m) == <<known[m]>> \o rows[m]

Last(s) == s[Len(s)]

Applied == [m \in Members |-> Last(Readings(m))]

AppliedOut ==
  [m \in Members |-> UNION {Story(Readings(m)[i], Readings(m)[i + 1], TRUE) : i \in 1 .. Len(rows[m])}]

\* The rows that stand: those of removals are filtered out of a listing.
Standing(m) == {i \in 1 .. Len(rows[m]) : rows[m][i] # Absent}

\* A full listing, collected by id.
Fresh ==
  [m \in Members |->
     IF Standing(m) = {} THEN Absent
     ELSE rows[m][CHOOSE i \in Standing(m) : \A j \in Standing(m) : j <= i]]

\* The members a listing keeps though a later page of it took them back.
TakenBack ==
  {m \in Members : /\ rows[m] # <<>> /\ Last(rows[m]) = Absent
                   /\ Fresh[m] # Absent}

Silent == out' = [m \in Members |-> {}]

-----------------------------------------------------------------------------
(* Reading pages *)

NoRows == [m \in Members |-> <<>>]
NothingRead == [m \in Members |-> 0]

\* A reading about to begin.
Afresh == began' = 0 /\ rows' = NoRows /\ readAt' = NothingRead

From == IF pc = "list" THEN NoToken ELSE token

\* The members a page may name: of a listing, those that stand, and on a delta
\* feed those it named before; of a round, those that changed since the token,
\* and any other that stands, named again.
Nameable ==
  Held \cup {m \in Members : IF pc = "list" THEN IsDelta /\ rows[m] # <<>>
                             ELSE lastmod[m] > token}

\* The members a reading up to `to` has still to name.
Owed(to) ==
  {m \in Members :
     /\ lastmod[m] \in From + 1 .. to
     /\ readAt[m] < lastmod[m]
     /\ pc = "list" => m \in Held \/ (IsDelta /\ rows[m] # <<>>)}

\* How far the reading has to reach: where it began, or where a delta ends.
Reach == IF IsDelta THEN rev ELSE IF began = 0 THEN rev ELSE began

\* One page answers, and is not the last; bound: it names what is owed.
Page ==
  /\ pc \in {"list", "round"} /\ ~Rejected(From)
  /\ \E S \in SUBSET Nameable :
       /\ S \cap Owed(rev) # {}
       /\ rows' = [m \in Members |-> IF m \in S THEN Append(rows[m], Kept(server[m]))
                                               ELSE rows[m]]
       /\ readAt' = [m \in Members |-> IF m \in S THEN rev ELSE readAt[m]]
  /\ began' = IF began = 0 THEN rev ELSE began
  /\ Silent
  /\ UNCHANGED <<srv, feed, shutdown, pc, stage, attempt, known, token, ghosts>>

\* A mistake: keeping the token of the end where the feed gives the beginning's.
TokenOfEnd(to) == IF feed = "listing" THEN NoToken ELSE rev

\* The token a reading up to `to` hands back, a listed calendar having none.
TokenAt(to) == IF feed = "listing" THEN NoToken ELSE to

\* The last page of the baseline: arm.
Armed ==
  /\ pc = "list" /\ stage = "arm" /\ Owed(Reach) = {}
  /\ known' = Fresh /\ token' = TokenAt(Reach) /\ ghosts' = TakenBack
  /\ pc' = "idle" /\ stage' = "round" /\ Silent /\ Afresh
  /\ UNCHANGED <<srv, feed, shutdown, attempt>>

\* The last page of a listing made again: picture::rebase.
Relisted ==
  /\ pc = "list" /\ stage = "round" /\ Owed(Reach) = {}
  /\ known' = Fresh /\ token' = TokenAt(Reach) /\ ghosts' = TakenBack
  /\ out' = [m \in Members |-> Story(known[m], Fresh[m], FALSE)]
  /\ pc' = "idle" /\ attempt' = 1 /\ Afresh
  /\ UNCHANGED <<srv, feed, shutdown, stage>>

\* The last page of a round: its rows are applied, one after another.
Applies ==
  /\ pc = "round" /\ ~Rejected(token) /\ Owed(Reach) = {}
  /\ known' = Applied /\ token' = TokenAt(Reach)
  /\ ghosts' = {m \in ghosts : rows[m] = <<>>}
  /\ out' = AppliedOut
  /\ pc' = "idle" /\ attempt' = 1 /\ Afresh
  /\ UNCHANGED <<srv, feed, shutdown, stage>>

\* A mistake: an expired token ending the round.
TokenExpiredForgiven ==
  /\ pc = "round" /\ Rejected(token)
  /\ pc' = "idle" /\ attempt' = 1 /\ Silent /\ Afresh
  /\ UNCHANGED <<srv, feed, shutdown, stage, known, token, ghosts>>

\* The token has expired: the collection is listed again.
TokenExpired ==
  /\ pc = "round" /\ Rejected(token)
  /\ pc' = "list" /\ Silent /\ Afresh
  /\ UNCHANGED <<srv, feed, shutdown, stage, attempt, known, token, ghosts>>

-----------------------------------------------------------------------------
(* The watch: a session, its baseline, then a round per poll *)

Open ==
  /\ pc = "down" /\ ~shutdown
  /\ pc' = "list"
  /\ Silent /\ Afresh
  /\ UNCHANGED <<srv, feed, shutdown, stage, attempt, known, token, ghosts>>

FirstPage == IF token = NoToken THEN "list" ELSE "round"

Poll ==
  /\ pc = "idle" /\ ~shutdown
  /\ pc' = FirstPage
  /\ Silent /\ Afresh
  /\ UNCHANGED <<srv, feed, shutdown, stage, attempt, known, token, ghosts>>

\* A round failing is run again, on a fresh connection...
RunAgain ==
  /\ pc \in {"list", "round"} /\ stage = "round" /\ attempt = 1
  /\ attempt' = 2 /\ pc' = FirstPage
  /\ Silent /\ Afresh
  /\ UNCHANGED <<srv, feed, shutdown, stage, known, token, ghosts>>

\* ...unless that one cannot be opened, or the run was the second: the session
\* and all it held is dropped.
SessionEnds ==
  /\ pc \in {"list", "round"}
  /\ pc' = "down" /\ stage' = "arm" /\ attempt' = 1
  /\ known' = [m \in Members |-> Absent] /\ token' = NoToken /\ ghosts' = {}
  /\ Silent /\ Afresh
  /\ UNCHANGED <<srv, feed, shutdown>>

RequestShutdown ==
  /\ ~shutdown /\ shutdown' = TRUE
  /\ Silent
  /\ UNCHANGED <<srv, feed, pc, stage, attempt, known, token, ghosts, reading>>

\* Only the sleep between rounds, and the account's loop, read the flag.
Stop ==
  /\ shutdown /\ pc \in {"idle", "down"}
  /\ pc' = "ended"
  /\ Silent
  /\ UNCHANGED <<srv, feed, shutdown, stage, attempt, known, token, ghosts, reading>>

Others ==
  /\ Put \/ Delete \/ Expire
  /\ Silent
  /\ UNCHANGED <<feed, shutdown, pc, stage, attempt, known, token, ghosts, reading>>

-----------------------------------------------------------------------------
Init ==
  /\ CollectionInit
  /\ feed \in Feeds /\ ghosts = {}
  /\ shutdown = FALSE /\ pc = "down" /\ stage = "arm" /\ attempt = 1
  /\ known = [m \in Members |-> Absent] /\ token = NoToken
  /\ began = 0 /\ rows = NoRows /\ readAt = NothingRead
  /\ out = [m \in Members |-> {}]

Answered == Page \/ Armed \/ Relisted \/ Applies \/ TokenExpired

Next ==
  \/ Open \/ Poll \/ Stop \/ Answered \/ RunAgain \/ SessionEnds
  \/ RequestShutdown \/ Others

Spec == Init /\ [][Next]_vars

\* The watch runs, and requests are answered, from some point on without fail:
\* a reading of several pages gets nowhere if each is cut short.
Answers == <>[][~RunAgain /\ ~SessionEnds]_vars

FairSpec ==
  /\ Spec /\ Answers
  /\ WF_vars(Open) /\ WF_vars(Poll) /\ WF_vars(Stop) /\ WF_vars(Answered)

-----------------------------------------------------------------------------
(* What the picture promises *)

Settled == pc = "idle" /\ token # NoToken

\* "What the collection holds, as of the last round" (Watched): each member is in
\* the picture as the collection holds it, or in neither, unless a round from the
\* token still names it, whatever changed while pages were read and whichever
\* page, run or listing failed.  Only a listing of a delta feed keeps a member
\* that is gone, one it took back (removals filtered out).  Of a contact nothing is
\* kept but that it is there.
KnownIsCurrent ==
  Settled => \A m \in Members :
    lastmod[m] <= token => known[m] = Kept(server[m]) \/ (m \in ghosts /\ m \notin Held)

\* A contact a round names is told as edited, whether it was or not.
Named == IF feed = "contacts" /\ pc = "round" THEN {"changed"} ELSE {}

\* What is reported of a member happened since the token the picture was taken
\* at: an expired token "reports only what actually differs".  Only a contact a
\* round names, which no version tells from what it was, may be told as edited for
\* being named; it is told neither as added nor as removed, and a listing made
\* again tells nothing of it (touch and rebase).
EventsAreNews ==
  [][\A m \in Members \ ghosts :
       token # NoToken /\ lastmod[m] <= token => out'[m] \subseteq Named]_vars

\* A collection that stands still is pictured in the end as it is.
PictureCatchesUp ==
  rev = MaxRev ~> (\A m \in Members \ ghosts : known[m] = Kept(server[m])) \/ shutdown

=============================================================================
