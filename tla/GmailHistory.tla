---------------------------- MODULE GmailHistory ----------------------------
(***************************************************************************)
(* The watch of one Gmail label (src/src/gmail.rs): a cursor in the        *)
(* mailbox's history, and rounds that read the records since, page after   *)
(* page, and report the events each stands for.                            *)
(*                                                                         *)
(* The watch keeps no picture: what it tells of the label is what hooks    *)
(* can make of it, the mirror `told`, starting where the watch starts.     *)
(*                                                                         *)
(* The mailbox moves between any two requests, each move one record.       *)
(* Asked for a label, history.list answers the records of the messages     *)
(* that carry it before or after, the oldest first, and forgets the oldest *)
(* of them.                                                                *)
(***************************************************************************)
EXTENDS Integers, Sequences

CONSTANTS
  Messages,   \* the messages the mailbox may hold
  Labels,     \* the labels they may carry
  LABEL,      \* the one watched
  Away,       \* the labels of a message the mailbox does not hold
  MaxHistory  \* bound: the records of the mailbox

ASSUME GmailAssumption ==
  /\ LABEL \in Labels /\ MaxHistory \in Nat
  /\ \A labels \in SUBSET Labels : Away # labels

VARIABLES
  mailbox,    \* the labels of each message
  log,        \* the records of its history
  forgotten,  \* how many of them the mailbox answers no more
  shutdown,   \* the flag Ctrl+C sets
  pc,         \* "down", "arm", "idle", "page" or "ended"
  attempt,    \* which run of the round, the second on a fresh connection
  history,    \* Watched: the cursor the next round reads from
  page,       \* how far the pages of the round have read
  told,       \* history: what the events tell of each message
  out         \* the records the step reported

server  == <<mailbox, log, forgotten>>
vars    == <<server, shutdown, pc, attempt, history, page, told, out>>

-----------------------------------------------------------------------------
(* What the label holds *)

Labelled(labels) == labels # Away /\ LABEL \in labels

\* The flags of a message, under the names every backend shares.
FlagsOf(labels) ==
  (IF "UNREAD" \in labels THEN {} ELSE {"Seen"})
    \cup (IF "STARRED" \in labels THEN {"Flagged"} ELSE {})

\* A message the label does not hold, and the one it holds.
View(labels) == IF Labelled(labels) THEN <<FlagsOf(labels)>> ELSE <<>>

Record == [id : Messages, from : {Away} \cup SUBSET Labels, to : {Away} \cup SUBSET Labels]

-----------------------------------------------------------------------------
(* Watched::events *)

FlagEvent(set) == IF set THEN "flag-added" ELSE "flag-removed"

\* A mistake: a message taken out of the label goes unsaid.
LabelEventOneWay(label, set) ==
  IF label = LABEL THEN {<<"added">> : b \in {set} \cap {TRUE}}
  ELSE CASE label = "UNREAD"  -> {<<FlagEvent(~set), "Seen">>}
         [] label = "STARRED" -> {<<FlagEvent(set), "Flagged">>}
         [] OTHER -> {}

\* What a label set on or taken off a message stands for: the one watched comes
\* first, were it UNREAD or STARRED itself.
LabelEvent(label, set) ==
  IF label = LABEL THEN {IF set THEN <<"added">> ELSE <<"removed">>}
  ELSE CASE label = "UNREAD"  -> {<<FlagEvent(~set), "Seen">>}
         [] label = "STARRED" -> {<<FlagEvent(set), "Flagged">>}
         [] OTHER -> {}

\* A message the mailbox receives may lie outside the label; one it deletes was
\* in it, or its record would not be answered.
Events(r) ==
  IF r.from = Away THEN {<<"added">> : l \in {LABEL} \cap r.to}
  ELSE IF r.to = Away THEN {<<"removed">>}
  ELSE (UNION {LabelEvent(l, TRUE) : l \in r.to \ r.from})
         \cup (UNION {LabelEvent(l, FALSE) : l \in r.from \ r.to})

\* The records since the cursor, as far as the pages have read.
Answered(to) ==
  LET answered[i \in history .. to] ==
        IF i = history THEN <<>>
        ELSE IF Labelled(log[i].from) \/ Labelled(log[i].to)
        THEN Append(answered[i - 1], log[i])
        ELSE answered[i - 1]
  IN  answered[to]

\* A hook reads an arrival as its record left it, and follows the flags after.
Heard(view, r) ==
  CASE <<"added">> \in Events(r)   -> <<FlagsOf(r.to)>>
    [] <<"removed">> \in Events(r) -> <<>>
    [] OTHER -> IF view = <<>>
         THEN <<>>
         ELSE <<(view[1] \cup {f \in {"Seen", "Flagged"} : <<"flag-added", f>> \in Events(r)})
                  \ {f \in {"Seen", "Flagged"} : <<"flag-removed", f>> \in Events(r)}>>

\* What is told of each message after each of the records.
Tells(records) ==
  LET after[i \in 0 .. Len(records)] ==
        IF i = 0 THEN told
        ELSE [after[i - 1] EXCEPT ![records[i].id] = Heard(@, records[i])]
  IN  after

Silent == out' = <<>> /\ UNCHANGED told

\* A gap: hooks are told nothing of it, and start from the mailbox as it is.
Resumed ==
  /\ history' = Len(log) /\ page' = Len(log)
  /\ told' = [m \in Messages |-> View(mailbox[m])]
  /\ out' = <<>>

-----------------------------------------------------------------------------
(* The watch *)

Open ==
  /\ pc = "down" /\ ~shutdown
  /\ pc' = "arm"
  /\ Silent
  /\ UNCHANGED <<server, shutdown, attempt, history, page>>

\* Watched::arm: the label, then the cursor as it stands.
Arm ==
  /\ pc = "arm"
  /\ pc' = "idle"
  /\ Resumed
  /\ UNCHANGED <<server, shutdown, attempt>>

\* The interval is over: a round.
Poll ==
  /\ pc = "idle" /\ ~shutdown
  /\ pc' = "page" /\ attempt' = 1 /\ page' = history
  /\ Silent
  /\ UNCHANGED <<server, shutdown, history>>

Rejected == history < forgotten

\* A page with another one after it.
Page ==
  /\ pc = "page" /\ ~Rejected
  /\ page' \in page + 1 .. Len(log) - 1
  /\ Silent
  /\ UNCHANGED <<server, shutdown, pc, attempt, history>>

\* A mistake: the cursor of the first page kept, that of the last one dropped.
RoundFirstPage ==
  /\ pc = "page" /\ ~Rejected
  /\ out' = Answered(Len(log))
  /\ told' = Tells(out')[Len(out')]
  /\ history' = IF page = history THEN Len(log) ELSE page
  /\ page' = Len(log) /\ pc' = "idle"
  /\ UNCHANGED <<server, shutdown, attempt>>

\* The last page answers: every record is reported, and the cursor advances to
\* the one this page gives.  Gmail gives one with every answer; the code would keep
\* the old one without (unwrap_or_else), and that is left out here.
Round ==
  /\ pc = "page" /\ ~Rejected
  /\ out' = Answered(Len(log))
  /\ told' = Tells(out')[Len(out')]
  /\ history' = Len(log)
  /\ page' = Len(log) /\ pc' = "idle"
  /\ UNCHANGED <<server, shutdown, attempt>>

\* A mistake: an expired cursor tried again at the next interval.
ExpiredRetried ==
  /\ pc = "page" /\ Rejected
  /\ pc' = "idle"
  /\ Silent
  /\ UNCHANGED <<server, shutdown, attempt, history, page>>

\* The cursor is older than the mailbox remembers: "resuming from now".
Expired ==
  /\ pc = "page" /\ Rejected
  /\ pc' = "idle"
  /\ Resumed
  /\ UNCHANGED <<server, shutdown, attempt>>

\* A round failing is run again, on a fresh connection...
RunAgain ==
  /\ pc = "page" /\ attempt = 1
  /\ attempt' = 2 /\ page' = history
  /\ Silent
  /\ UNCHANGED <<server, shutdown, pc, history>>

\* ...unless that one cannot be opened, or the run was the second.
SessionEnds ==
  /\ pc \in {"arm", "page"}
  /\ pc' = "down" /\ page' = history
  /\ Silent
  /\ UNCHANGED <<server, shutdown, attempt, history>>

RequestShutdown ==
  /\ ~shutdown /\ shutdown' = TRUE
  /\ Silent
  /\ UNCHANGED <<server, pc, attempt, history, page>>

\* Only the sleep between rounds, and the account's loop, read the flag.
Stop ==
  /\ shutdown /\ pc \in {"idle", "down"}
  /\ pc' = "ended"
  /\ Silent
  /\ UNCHANGED <<server, shutdown, attempt, history, page>>

-----------------------------------------------------------------------------
(* The mailbox *)

\* A message received, deleted, or its labels modified.
Others ==
  /\ Len(log) < MaxHistory
  /\ \E r \in Record :
       /\ r.from = mailbox[r.id] /\ r.to # r.from
       /\ log' = Append(log, r)
       /\ mailbox' = [mailbox EXCEPT ![r.id] = r.to]
  /\ Silent
  /\ UNCHANGED <<forgotten, shutdown, pc, attempt, history, page>>

Forget ==
  /\ forgotten < Len(log)
  /\ forgotten' = Len(log)
  /\ Silent
  /\ UNCHANGED <<mailbox, log, shutdown, pc, attempt, history, page>>

-----------------------------------------------------------------------------
Init ==
  /\ mailbox \in [Messages -> {Away, {LABEL}}] /\ log = <<>> /\ forgotten = 0
  /\ shutdown = FALSE /\ pc = "down" /\ attempt = 1
  /\ history = 0 /\ page = 0
  /\ told = [m \in Messages |-> <<>>] /\ out = <<>>

Watch == Open \/ Arm \/ Poll \/ Page \/ Round \/ Expired \/ Stop

Next == Watch \/ RunAgain \/ SessionEnds \/ RequestShutdown \/ Others \/ Forget

Spec == Init /\ [][Next]_vars

\* The watch runs, and from some point on requests are answered.
Answers == <>[][~RunAgain /\ ~SessionEnds]_vars

FairSpec == Spec /\ Answers /\ WF_vars(Watch)

-----------------------------------------------------------------------------
(* What the watch tells *)

MovedSince(m) == \E i \in history + 1 .. Len(log) : log[i].id = m

\* The events tell which messages the label holds and with which flags, unless
\* a record since the cursor has still to say: whichever page or run failed,
\* whatever was labelled meanwhile, and only a cursor forgotten leaves a gap.
ToldIsCurrent ==
  pc \in {"idle", "page"} => \A m \in Messages : MovedSince(m) \/ told[m] = View(mailbox[m])

\* Nothing is told twice: a message arrives that was not there, leaves that was,
\* and gains and loses the flags it lacked and had ("a round failing part way
\* leaves the cursor where it was, and can simply be run again").
ToldOnce ==
  [][\A i \in 1 .. Len(out') :
       LET r == out'[i] before == Tells(out')[i - 1][r.id]
       IN  IF <<"added">> \in Events(r) THEN before = <<>>
           ELSE /\ before # <<>>
                /\ \A f \in before[1] : <<"flag-added", f>> \notin Events(r)
                /\ \A f \in {"Seen", "Flagged"} \ before[1] :
                     <<"flag-removed", f>> \notin Events(r)]_vars

\* A mailbox that stands still is read to its end, forgotten records included.
ReadsToTheEnd == Len(log) = MaxHistory ~> history = MaxHistory \/ shutdown

=============================================================================
