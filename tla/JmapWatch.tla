------------------------------ MODULE JmapWatch ------------------------------
(***************************************************************************)
(* The watch of one JMAP collection (src/src/jmap.rs), polled or pushed:   *)
(* the picture it holds, the state the picture was read at, the rounds     *)
(* that move both, and the event stream that wakes them.                   *)
(*                                                                         *)
(* A state is one of the account's type rather than of the collection, so  *)
(* a change names the members outside of it as well (module Collection,    *)
(* a state being a revision).  /changes and /get are two requests, and     *)
(* others write between them.                                              *)
(*                                                                         *)
(* An account watching several collections gives each its picture, its     *)
(* state and its second attempt; they share a connection only.             *)
(***************************************************************************)
EXTENDS Collection

CONSTANTS
  Keywords,         \* the keywords a message may carry
  Outside,          \* what the collection holds of an item it does not hold
  CutsChanges,      \* the server answers /changes in parts (hasMoreChanges)
  OpensWithStates   \* the server pushes the states as a stream opens

ASSUME JmapAssumption == {CutsChanges, OpensWithStates} \subseteq BOOLEAN

VARIABLES
  mail,       \* the domain is WatchDomain::Message, which never changes
  push,       \* the watch holds an event stream, which never changes
  content,    \* server: the keywords of each item in the collection, or Outside
  shutdown,   \* the flag Ctrl+C sets
  pc,         \* which request the watch has to make next
  attempt,    \* which run of the round, the second on a fresh connection
  known,      \* Watched: the keywords of each item of the picture, or Outside
  state,      \* Watched: the state the next /changes reads from
  target,     \* round: the state the changes under way reach
  destroyed,  \* round: the items they name destroyed
  touched,    \* round: the items they name created or updated
  pushed,     \* the last state the stream pushed, NoToken before
  missed,     \* history: the items written between the two requests of the
              \* baseline, and not read since
  out         \* the events the step reported of each item

changes == <<target, destroyed, touched>>
config  == <<mail, push>>
vars    == <<srv, config, content, shutdown, pc, attempt, known, state, missed,
             changes, pushed, out>>

\* What the collection holds of an item: its keywords, none beyond mail.
Contents == {Outside} \cup (IF mail THEN SUBSET Keywords ELSE {{}})

-----------------------------------------------------------------------------
(* Reading items against the picture *)

Known == {m \in Members : known[m] # Outside}

\* What reconcile reports of an item read as `now`.
Reconciled(before, now) ==
  CASE before = Outside /\ now = Outside -> {}
    [] before # Outside /\ now = Outside -> {<<"item-removed">>}
    [] before = Outside /\ now # Outside -> {<<"item-added">>}
    [] OTHER -> IF mail
                  THEN {<<"flag-added", k>> : k \in now \ before}
                         \cup {<<"flag-removed", k>> : k \in before \ now}
                  ELSE {<<"item-changed">>}

Nothing == [m \in Members |-> {}]
Silent  == out' = Nothing

NoChanges == target' = NoToken /\ destroyed' = {} /\ touched' = {}

\* The round moves the picture and the state, and reports, at once: `gone` was
\* destroyed, `read` is what /get found.
Applies(to, gone, read) ==
  /\ known' = [m \in Members |-> CASE m \in gone -> Outside
                                 [] m \in read -> content[m]
                                 [] OTHER -> known[m]]
  /\ out' = [m \in Members |-> CASE m \in gone -> Reconciled(known[m], Outside)
                               [] m \in read -> Reconciled(known[m], content[m])
                               [] OTHER -> {}]
  /\ state' = to /\ missed' = missed \ (gone \cup read)

-----------------------------------------------------------------------------
(* The session and its baseline *)

Open ==
  /\ pc = "down" /\ ~shutdown
  /\ pc' = "baseline"
  /\ Silent
  /\ UNCHANGED <<srv, config, content, shutdown, attempt, known, state, missed, changes, pushed>>

\* Watched::arm: what the collection holds...
Baseline ==
  /\ pc = "baseline"
  /\ known' = content /\ missed' = {}
  /\ pc' = "state"
  /\ Silent
  /\ UNCHANGED <<srv, config, content, shutdown, attempt, state, changes, pushed>>

\* ...and then, by a request of its own, the state.
ReadState ==
  /\ pc = "state"
  /\ state' = rev
  /\ pc' = "idle"
  /\ Silent
  /\ UNCHANGED <<srv, config, content, shutdown, attempt, known, missed, changes, pushed>>

-----------------------------------------------------------------------------
(* What wakes a round: the interval, or the stream *)

Poll ==
  /\ ~push /\ pc = "idle" /\ ~shutdown
  /\ pc' = "changes"
  /\ Silent
  /\ UNCHANGED <<srv, config, content, shutdown, attempt, known, state, missed, changes, pushed>>

\* A mistake: what a stream opens with taken for a keep-alive.
SubscribeBlind ==
  /\ push /\ pc = "idle" /\ ~shutdown
  /\ pc' = "stream"
  /\ pushed' = NoToken
  /\ Silent
  /\ UNCHANGED <<srv, config, content, shutdown, attempt, known, state, missed, changes>>

\* subscribe: a stream opens, on a connection of its own.
Subscribe ==
  /\ push /\ pc = "idle" /\ ~shutdown
  /\ pc' = "stream"
  /\ pushed' = IF OpensWithStates THEN rev ELSE NoToken
  /\ Silent
  /\ UNCHANGED <<srv, config, content, shutdown, attempt, known, state, missed, changes>>

\* A state the watch does not hold: the stream is dropped for a round.
News ==
  /\ pc = "stream" /\ pushed \notin {NoToken, state}
  /\ pc' = "changes"
  /\ pushed' = NoToken
  /\ Silent
  /\ UNCHANGED <<srv, config, content, shutdown, attempt, known, state, missed, changes>>

\* The server ends the stream: another one, without a round.
StreamEnds ==
  /\ pc = "stream"
  /\ pc' = "idle" /\ pushed' = NoToken
  /\ Silent
  /\ UNCHANGED <<srv, config, content, shutdown, attempt, known, state, missed, changes>>

\* A read returning, or timing out, looks at the flag.
StreamStops ==
  /\ pc = "stream" /\ shutdown
  /\ pc' = "idle" /\ pushed' = NoToken
  /\ Silent
  /\ UNCHANGED <<srv, config, content, shutdown, attempt, known, state, missed, changes>>

-----------------------------------------------------------------------------
(* Watched::round *)

RoundOver == pc' = "idle" /\ attempt' = 1

\* How far /changes may reach.
Reaches(to) == to = rev \/ (CutsChanges /\ to \in state + 1 .. rev - 1)

Unmoved ==
  /\ pc = "changes" /\ ~Rejected(state) /\ rev = state
  /\ RoundOver
  /\ Silent
  /\ UNCHANGED <<srv, config, content, shutdown, known, state, missed, changes, pushed>>

\* A mistake: removals told before the round's other request has answered.
ChangesTold ==
  /\ pc = "changes" /\ ~Rejected(state) /\ rev # state
  /\ \E to \in state + 1 .. rev :
       /\ Reaches(to) /\ Changed(state, to) # {}
       /\ target' = to
       /\ destroyed' = Vanished(state, to) /\ touched' = Changed(state, to)
  /\ pc' = "fetch"
  /\ out' = [m \in Members |-> IF m \in destroyed' \cap Known THEN {<<"item-removed">>} ELSE {}]
  /\ UNCHANGED <<srv, config, content, shutdown, attempt, known, state, missed, pushed>>

\* /changes names items to read...
Changes ==
  /\ pc = "changes" /\ ~Rejected(state) /\ rev # state
  /\ \E to \in state + 1 .. rev :
       /\ Reaches(to) /\ Changed(state, to) # {}
       /\ target' = to
       /\ destroyed' = Vanished(state, to) /\ touched' = Changed(state, to)
  /\ pc' = "fetch"
  /\ Silent
  /\ UNCHANGED <<srv, config, content, shutdown, attempt, known, state, missed, pushed>>

\* ...or none, and the round is over.
ChangesAlone ==
  /\ pc = "changes" /\ ~Rejected(state) /\ rev # state
  /\ \E to \in state + 1 .. rev :
       /\ Reaches(to) /\ Changed(state, to) = {}
       /\ Applies(to, Vanished(state, to), {})
  /\ RoundOver
  /\ UNCHANGED <<srv, config, content, shutdown, changes, pushed>>

\* A mistake: the state /get answers with kept, rather than the changes'.
FetchAhead ==
  /\ pc = "fetch"
  /\ Applies(rev, destroyed, touched \cap Held)
  /\ RoundOver /\ NoChanges
  /\ UNCHANGED <<srv, config, content, shutdown, pushed>>

\* fetch: the items named, those that still are, as they stand by now.
Fetch ==
  /\ pc = "fetch"
  /\ Applies(target, destroyed, touched \cap Held)
  /\ RoundOver /\ NoChanges
  /\ UNCHANGED <<srv, config, content, shutdown, pushed>>

-----------------------------------------------------------------------------
(* Failures and shutdown *)

InRound == pc \in {"changes", "fetch"}

\* A round failing is run again, on a fresh connection...
RunAgain ==
  /\ InRound /\ attempt = 1
  /\ attempt' = 2 /\ pc' = "changes"
  /\ Silent /\ NoChanges
  /\ UNCHANGED <<srv, config, content, shutdown, known, state, missed, pushed>>

\* ...unless that one cannot be opened, or the run was the second.  Any other
\* request failing ends the session, and all it held is dropped.
Dropped ==
  /\ pc' = "down" /\ attempt' = 1
  /\ known' = [m \in Members |-> Outside] /\ state' = NoToken /\ missed' = {}
  /\ pushed' = NoToken /\ NoChanges

SessionEnds ==
  /\ InRound \/ pc \in {"baseline", "state", "stream"}
  /\ Dropped /\ Silent
  /\ UNCHANGED <<srv, config, content, shutdown>>

\* A state the server cannot calculate changes from fails both runs, and the
\* next session reads the collection again.
Refused ==
  /\ pc = "changes" /\ Rejected(state)
  /\ \/ /\ attempt = 1
        /\ attempt' = 2
        /\ UNCHANGED <<pc, known, state, missed, changes, pushed>>
     \/ attempt = 2 /\ Dropped
  /\ Silent
  /\ UNCHANGED <<srv, config, content, shutdown>>

RequestShutdown ==
  /\ ~shutdown /\ shutdown' = TRUE
  /\ Silent
  /\ UNCHANGED <<srv, config, content, pc, attempt, known, state, missed, changes, pushed>>

\* The loop head, the sleep and the account's loop read the flag.
Stop ==
  /\ shutdown /\ pc \in {"idle", "down"}
  /\ pc' = "ended"
  /\ Silent
  /\ UNCHANGED <<srv, config, content, shutdown, attempt, known, state, missed, changes, pushed>>

-----------------------------------------------------------------------------
(* The server *)

\* Others write, move an item in or out, or destroy it; an open stream is pushed
\* the state.
Others ==
  /\ \/ Expire /\ UNCHANGED <<content, pushed, missed>>
     \/ /\ \E m \in Members :
             \/ /\ Write(m, rev + 1)
                /\ \E c \in Contents :
                     content' = [content EXCEPT ![m] = c]
             \/ /\ m \in Held /\ Write(m, Absent)
                /\ content' = [content EXCEPT ![m] = Outside]
        /\ pushed' = IF pc = "stream" THEN rev' ELSE pushed
        /\ missed' = missed \cup {m \in Members : pc = "state" /\ server'[m] # server[m]}
  /\ Silent
  /\ UNCHANGED <<config, shutdown, pc, attempt, known, state, changes>>

-----------------------------------------------------------------------------
Init ==
  /\ CollectionInit
  /\ mail \in BOOLEAN /\ push \in BOOLEAN /\ missed = {}
  /\ content \in [Members -> Contents]
  /\ \A m \in Members \ Held : content[m] = Outside
  /\ shutdown = FALSE /\ pc = "down" /\ attempt = 1
  /\ known = [m \in Members |-> Outside] /\ state = NoToken
  /\ target = NoToken /\ destroyed = {} /\ touched = {}
  /\ pushed = NoToken /\ out = Nothing

Answered ==
  \/ Open \/ Baseline \/ ReadState \/ Poll \/ Subscribe \/ News \/ StreamStops
  \/ Unmoved \/ Changes \/ ChangesAlone \/ Fetch \/ Refused \/ Stop

Next ==
  Answered \/ StreamEnds \/ RunAgain \/ SessionEnds \/ RequestShutdown \/ Others

Spec == Init /\ [][Next]_vars

\* The watch runs, and from some point on the server answers what it can: the only
\* requests to fail are those for changes it cannot calculate.
Answers == <>[][RunAgain \/ SessionEnds \/ StreamEnds => Refused]_vars

FairSpec == Spec /\ Answers /\ WF_vars(Answered)

-----------------------------------------------------------------------------
(* What the picture promises *)

Settled == pc \in {"idle", "stream", "changes", "fetch"}

\* The picture is what the collection holds, as of the state or later, of every
\* item, unless a change since the state still names it, whatever was written
\* between /changes and /get, and whichever request failed.  Only what is written
\* between the two requests of a baseline may be missed (arm).
KnownIsCurrent ==
  Settled => \A m \in Members \ missed : lastmod[m] <= state => known[m] = content[m]

\* "Running it twice reports nothing twice": mail hooks hear of an item exactly
\* when the picture of it moves, and a round that fails moves nothing.
ReportsWhatMoves ==
  [][mail /\ pc # "baseline" /\ pc' # "down" =>
       \A m \in Members : out'[m] # {} <=> known'[m] # known[m]]_vars

\* An account that stands still is pictured in the end as it is: no change waits
\* for ever for another one to wake the watch.
PictureCatchesUp ==
  rev = MaxRev ~> (\A m \in Members \ missed : known[m] = content[m]) \/ shutdown

-----------------------------------------------------------------------------
(* What a comment says and the code does not do *)

\* "What the collection holds, as of `state`": of every item, unless a change
\* since the state still names it (Watched).
KnownAsOfState ==
  Settled => \A m \in Members : lastmod[m] <= state => known[m] = content[m]

=============================================================================
