----------------------------- MODULE MaildirPoll -----------------------------
(***************************************************************************)
(* The watch of one Maildir (src/src/maildir.rs): the listing it holds,    *)
(* and the polls that list the mailbox again and report what differs.      *)
(*                                                                         *)
(* Deliveries and mail programs rename files under a listing, which reads  *)
(* one entry after another: each message is read as it is at an instant of *)
(* the listing, and one whose file is renamed meanwhile may be read before *)
(* or after, twice (its last reading standing) or not at all.              *)
(***************************************************************************)
EXTENDS Integers

CONSTANTS
  Messages,   \* the ids the mailbox may hold
  Flags,      \* the flags a message may carry, by their shared names
  Missing,    \* the flags of a message the mailbox does not hold
  MaxMoves    \* bound: how often the mailbox moves

ASSUME MaildirAssumption ==
  MaxMoves \in Nat /\ \A flags \in SUBSET Flags : Missing # flags

VARIABLES
  mailbox,    \* the flags of each message
  moves,      \* how often it moved
  renamed,    \* the messages whose file was renamed since the listing began
  interrupted, \* the flag Ctrl+C sets
  doing,      \* "down", "list" reading entries, "idle" or "ended"
  stage,      \* what for: the baseline ("arm") or a poll
  unread,     \* list: the entries still to be read
  current,    \* list: the flags read of each message
  seen,       \* watch: the last listing
  told,       \* history: what the events tell of each message
  out         \* the events the step reported of each message

listing == <<unread, current>>
maildirVars ==
  <<mailbox, moves, renamed, interrupted, doing, stage, listing, seen, told, out>>

Views == {Missing} \cup SUBSET Flags

\* A message is never edited where it stands.
Event == {<<"item-added">>, <<"item-removed">>} \cup {"flag-added", "flag-removed"} \X Flags

-----------------------------------------------------------------------------
(* diff *)

\* One event per flag, "so a hook knows which flag it fired for".
Diff(before, after) ==
  CASE before = after -> {}
    [] before # after /\ after = Missing  -> {<<"item-removed">>}
    [] before # after /\ before = Missing -> {<<"item-added">>}
    [] OTHER -> {<<"flag-added", f>> : f \in after \ before}
                  \cup {<<"flag-removed", f>> : f \in before \ after}

\* A hook reads an arrival as it was listed, and follows the flags after.
Heard(view, events, listed) ==
  CASE <<"item-removed">> \in events -> Missing
    [] <<"item-added">> \in events   -> listed
    [] OTHER -> IF view = Missing
                  THEN Missing
                  ELSE (view \cup {f \in Flags : <<"flag-added", f>> \in events})
                         \ {f \in Flags : <<"flag-removed", f>> \in events}

NoneRead == [m \in Messages |-> Missing]
Silent   == out' = [m \in Messages |-> {}] /\ UNCHANGED told

-----------------------------------------------------------------------------
(* The watch *)

ListBegins ==
  /\ doing' = "list"
  /\ unread' = Messages /\ current' = NoneRead /\ renamed' = {}

Open ==
  /\ doing = "down" /\ ~interrupted
  /\ stage' = "arm" /\ ListBegins
  /\ Silent
  /\ UNCHANGED <<mailbox, moves, interrupted, seen>>

Poll ==
  /\ doing = "idle" /\ ~interrupted
  /\ stage' = "poll" /\ ListBegins
  /\ Silent
  /\ UNCHANGED <<mailbox, moves, interrupted, seen>>

\* One entry is read, or missed for having been renamed meanwhile.
ReadEntry ==
  /\ doing = "list"
  /\ \E m \in unread :
       /\ unread' = unread \ {m}
       /\ \E read \in {mailbox[m]} \cup {Missing : r \in {m} \cap renamed} :
            current' = [current EXCEPT ![m] = read]
  /\ Silent
  /\ UNCHANGED <<mailbox, moves, renamed, interrupted, doing, stage, seen>>

\* The baseline "reports nothing, a message already there not being news".
Armed ==
  /\ doing = "list" /\ stage = "arm" /\ unread = {}
  /\ seen' = current /\ doing' = "idle"
  /\ told' = current /\ out' = [m \in Messages |-> {}]
  /\ UNCHANGED <<mailbox, moves, renamed, interrupted, stage, listing>>

\* What differs is reported, and the listing kept.
Reports ==
  /\ doing = "list" /\ stage = "poll" /\ unread = {}
  /\ out' = [m \in Messages |-> Diff(seen[m], current[m])]
  /\ told' = [m \in Messages |-> Heard(told[m], out'[m], current[m])]
  /\ seen' = current /\ doing' = "idle"
  /\ UNCHANGED <<mailbox, moves, renamed, interrupted, stage, listing>>

\* A mistake: a listing failing leaves what it has read behind.
ListFailsPartly ==
  /\ doing = "list"
  /\ doing' = IF stage = "arm" THEN "down" ELSE "idle"
  /\ seen' = current
  /\ Silent
  /\ UNCHANGED <<mailbox, moves, renamed, interrupted, stage, listing>>

\* A mistake: a listing failing is the end of the watch.
ListFailsForGood ==
  /\ doing = "list"
  /\ doing' = IF stage = "arm" THEN "down" ELSE "ended"
  /\ Silent
  /\ UNCHANGED <<mailbox, moves, renamed, interrupted, stage, listing, seen>>

\* A listing failing is not the end of the watch, "the next poll re-reading the
\* whole mailbox anyway", unless it was the baseline.
ListFails ==
  /\ doing = "list"
  /\ doing' = IF stage = "arm" THEN "down" ELSE "idle"
  /\ Silent
  /\ UNCHANGED <<mailbox, moves, renamed, interrupted, stage, listing, seen>>

RequestShutdown ==
  /\ ~interrupted /\ interrupted' = TRUE
  /\ Silent
  /\ UNCHANGED <<mailbox, moves, renamed, doing, stage, listing, seen>>

Stop ==
  /\ interrupted /\ doing \in {"idle", "down"}
  /\ doing' = "ended"
  /\ Silent
  /\ UNCHANGED <<mailbox, moves, renamed, interrupted, stage, listing, seen>>

-----------------------------------------------------------------------------
(* The mailbox *)

\* A message delivered, removed, or renamed for its flags.
Others ==
  /\ moves < MaxMoves
  /\ moves' = moves + 1
  /\ \E m \in Messages : \E view \in Views \ {mailbox[m]} :
       /\ mailbox' = [mailbox EXCEPT ![m] = view]
       /\ renamed' = renamed \cup {m}
  /\ Silent
  /\ UNCHANGED <<interrupted, doing, stage, listing, seen>>

-----------------------------------------------------------------------------
MaildirInit ==
  /\ mailbox \in [Messages -> {Missing, {}}] /\ moves = 0 /\ renamed = {}
  /\ interrupted = FALSE /\ doing = "down" /\ stage = "arm"
  /\ unread = {} /\ current = NoneRead /\ seen = NoneRead
  /\ told = NoneRead /\ out = [m \in Messages |-> {}]

Watch == Open \/ Poll \/ ReadEntry \/ Armed \/ Reports \/ Stop

MaildirNext == Watch \/ ListFails \/ RequestShutdown \/ Others

MaildirSpec == MaildirInit /\ [][MaildirNext]_maildirVars

\* The watch runs, and from some point on the directories can be read: a step
\* that looks like a failure is a listing that found nothing new.
MaildirFairSpec ==
  MaildirSpec /\ <>[][ListFails => Reports]_maildirVars /\ WF_maildirVars(Watch)

-----------------------------------------------------------------------------
(* What the watch tells *)

\* What the events tell is what the last whole listing read, whichever listings
\* failed in between: nothing is told of a listing that did not end, and nothing
\* it read is lost.
ToldIsListed == doing = "idle" \/ (doing = "list" /\ stage = "poll") => told = seen

\* A mailbox that stands still is told as it is in the end, whatever files were
\* renamed under earlier listings.
MailboxIsTold == moves = MaxMoves ~> told = mailbox \/ interrupted

=============================================================================
