----------------------------- MODULE Supervisor -----------------------------
(***************************************************************************)
(* `carillon watch` (src/src/watch.rs): one thread per account reopening   *)
(* its session with a capped backoff, one alarm thread beside the account  *)
(* that asks for alarms, the Ctrl+C handler, and the main thread joining   *)
(* them all once it could start them all.                                  *)
(*                                                                         *)
(* A session is opaque here: it runs until it fails, or until it notices   *)
(* the shutdown.  That it does wherever it waits with a deadline, and not  *)
(* in a call that has none: a connection being opened, handshake included, *)
(* and the command of a hook or of a credential.  So is a pass of an alarm *)
(* thread (module AlarmThread), its hooks included: what matters is when   *)
(* it reads the flag and when it blocks.                                   *)
(***************************************************************************)
EXTENDS Integers

CONSTANTS
  Accounts,         \* the accounts watched
  AlarmAccounts,    \* those with an alarm hook
  INITIAL_BACKOFF,  \* the floor of the backoff, in steps of BACKOFF_STEP
  MAX_BACKOFF       \* its ceiling

ASSUME SupervisorAssumption ==
  /\ AlarmAccounts \subseteq Accounts
  /\ INITIAL_BACKOFF \in Nat \ {0}
  /\ MAX_BACKOFF \in Nat
  /\ INITIAL_BACKOFF <= MAX_BACKOFF

VARIABLES
  shutdown,   \* the flag every thread reads
  handler,    \* where the Ctrl+C handler is
  main,       \* where the main thread is: starting and joining, or returned
  pc,         \* where each account thread is
  backoff,    \* what its next backoff sleeps
  left,       \* what is left of the one under way
  wakers,     \* AlarmWakers: the accounts whose waker was left
  unrung,     \* history: those whose ring the handler failed to leave
  latch,      \* the waker of each alarm thread, rung and not consumed yet
  alarm,      \* where each alarm thread is
  spawned     \* history: how many alarm threads each account has started

account == <<pc, backoff, left>>
command == <<shutdown, handler, main, unrung>>
vars    == <<command, account, wakers, latch, alarm, spawned>>

Lesser(a, b) == IF a <= b THEN a ELSE b

-----------------------------------------------------------------------------
(* watch_account *)

Goto(a, to) == pc' = [pc EXCEPT ![a] = to]

\* The loop head: a session, or the end.
Loop(a) ==
  /\ pc[a] = "loop"
  /\ Goto(a, IF shutdown THEN "join" ELSE "ensure")
  /\ UNCHANGED <<command, backoff, left, wakers, latch, alarm, spawned>>

\* AlarmRunner::ensure, on a session that wants no alarm or finds the thread
\* of an earlier one.
EnsureNothing(a) ==
  /\ pc[a] = "ensure"
  /\ a \notin AlarmAccounts \/ alarm[a] # "none"
  /\ Goto(a, "call")
  /\ UNCHANGED <<command, backoff, left, wakers, latch, alarm, spawned>>

\* A mistake: a thread whose waker the handler never gets.
EnsureWakerLost(a) ==
  /\ pc[a] = "ensure" /\ a \in AlarmAccounts /\ alarm[a] = "none"
  /\ Goto(a, "spawn")
  /\ latch' = [latch EXCEPT ![a] = FALSE]
  /\ UNCHANGED <<command, backoff, left, wakers, alarm, spawned>>

\* A mistake: an alarm thread for every session.
EnsureWakerAnew(a) ==
  /\ pc[a] = "ensure" /\ a \in AlarmAccounts
  /\ Goto(a, "spawn")
  /\ wakers' = wakers \cup {a}
  /\ latch' = [latch EXCEPT ![a] = FALSE]
  /\ UNCHANGED <<command, backoff, left, alarm, spawned>>

\* Its timer opened, the waker is left under the lock...
EnsureWaker(a) ==
  /\ pc[a] = "ensure" /\ a \in AlarmAccounts /\ alarm[a] = "none"
  /\ Goto(a, "spawn")
  /\ wakers' = wakers \cup {a}
  /\ latch' = [latch EXCEPT ![a] = FALSE]
  /\ UNCHANGED <<command, backoff, left, alarm, spawned>>

\* ...and only then is the thread started.
EnsureSpawn(a) ==
  /\ pc[a] = "spawn"
  /\ Goto(a, "call")
  /\ alarm' = [alarm EXCEPT ![a] = "head"]
  /\ spawned' = [spawned EXCEPT ![a] = @ + 1]
  /\ UNCHANGED <<command, backoff, left, wakers, latch>>

InSession(a) == pc[a] \in {"ensure", "spawn", "call", "session"}

\* The connection is opened and is given its deadline, or the hook has ended.
CallReturns(a) ==
  /\ pc[a] = "call"
  /\ Goto(a, "session")
  /\ UNCHANGED <<command, backoff, left, wakers, latch, alarm, spawned>>

\* A hook is run, or a connection opened again or beside the first one.
SessionCalls(a) ==
  /\ pc[a] = "session"
  /\ Goto(a, "call")
  /\ UNCHANGED <<command, backoff, left, wakers, latch, alarm, spawned>>

\* The session ends while shutting down: it has noticed, or fails on the way out.
SessionStops(a) ==
  /\ InSession(a) /\ shutdown
  /\ Goto(a, "join")
  /\ UNCHANGED <<command, backoff, left, wakers, latch, alarm, spawned>>

\* A mistake: resetting the backoff of a session that failed at once.
SessionEndsReset(a) ==
  /\ InSession(a) /\ ~shutdown
  /\ LET slept == INITIAL_BACKOFF
     IN  /\ backoff' = [backoff EXCEPT ![a] = slept]
         /\ left' = [left EXCEPT ![a] = slept]
  /\ Goto(a, "backoff")
  /\ UNCHANGED <<command, wakers, latch, alarm, spawned>>

\* The session is lost, or could not be opened: a timer or a thread that
\* cannot be had fails it too.  One that lasted resets the backoff, the time it
\* took to open included.
SessionEnds(a) ==
  /\ InSession(a) /\ ~shutdown
  /\ \E healthy \in BOOLEAN :
       /\ healthy => pc[a] \in {"call", "session"}
       /\ LET slept == IF healthy THEN INITIAL_BACKOFF ELSE backoff[a]
          IN  /\ backoff' = [backoff EXCEPT ![a] = slept]
              /\ left' = [left EXCEPT ![a] = slept]
  /\ Goto(a, "backoff")
  /\ UNCHANGED <<command, wakers, latch, alarm, spawned>>

\* sleep_backoff: one step of the sleep, the flag read before it.
BackoffStep(a) ==
  /\ pc[a] = "backoff" /\ left[a] > 0 /\ ~shutdown
  /\ left' = [left EXCEPT ![a] = @ - 1]
  /\ UNCHANGED <<command, pc, backoff, wakers, latch, alarm, spawned>>

BackoffStops(a) ==
  /\ pc[a] = "backoff" /\ left[a] > 0 /\ shutdown
  /\ Goto(a, "join")
  /\ UNCHANGED <<command, backoff, left, wakers, latch, alarm, spawned>>

\* A mistake: a backoff without a ceiling.
BackoffEndsUncapped(a) ==
  /\ pc[a] = "backoff" /\ left[a] = 0
  /\ backoff' = [backoff EXCEPT ![a] = 2 * @]
  /\ Goto(a, IF shutdown THEN "join" ELSE "loop")
  /\ UNCHANGED <<command, left, wakers, latch, alarm, spawned>>

\* A mistake: giving up at the ceiling.
BackoffEndsForGood(a) ==
  /\ pc[a] = "backoff" /\ left[a] = 0
  /\ backoff' = [backoff EXCEPT ![a] = Lesser(2 * @, MAX_BACKOFF)]
  /\ Goto(a, IF shutdown \/ backoff[a] = MAX_BACKOFF THEN "join" ELSE "loop")
  /\ UNCHANGED <<command, left, wakers, latch, alarm, spawned>>

\* The sleep is over: the next one is twice as long, up to the ceiling.
BackoffEnds(a) ==
  /\ pc[a] = "backoff" /\ left[a] = 0
  /\ backoff' = [backoff EXCEPT ![a] = Lesser(2 * @, MAX_BACKOFF)]
  /\ Goto(a, IF shutdown THEN "join" ELSE "loop")
  /\ UNCHANGED <<command, left, wakers, latch, alarm, spawned>>

\* A mistake: leaving the alarm thread behind.
JoinNobody(a) ==
  /\ pc[a] = "join"
  /\ Goto(a, "ended")
  /\ UNCHANGED <<command, backoff, left, wakers, latch, alarm, spawned>>

\* A mistake: waiting for a thread that was never started.
JoinEvery(a) ==
  /\ pc[a] = "join" /\ alarm[a] = "done"
  /\ Goto(a, "ended")
  /\ UNCHANGED <<command, backoff, left, wakers, latch, alarm, spawned>>

\* AlarmRunner::join.
Join(a) ==
  /\ pc[a] = "join" /\ alarm[a] \in {"none", "done"}
  /\ Goto(a, "ended")
  /\ UNCHANGED <<command, backoff, left, wakers, latch, alarm, spawned>>

-----------------------------------------------------------------------------
(* The alarm threads *)

\* The loop head of alarm::run: the flag, then a pass and its hooks.
AlarmHead(a) ==
  /\ alarm[a] = "head"
  /\ alarm' = [alarm EXCEPT ![a] = IF shutdown THEN "done" ELSE "pass"]
  /\ UNCHANGED <<command, account, wakers, latch, spawned>>

AlarmBlocks(a) ==
  /\ alarm[a] = "pass"
  /\ alarm' = [alarm EXCEPT ![a] = "wait"]
  /\ UNCHANGED <<command, account, wakers, latch, spawned>>

AlarmWoken(a) ==
  /\ alarm[a] = "wait" /\ latch[a]
  /\ alarm' = [alarm EXCEPT ![a] = "head"]
  /\ latch' = [latch EXCEPT ![a] = FALSE]
  /\ UNCHANGED <<command, account, wakers, spawned>>

\* A deadline reached, or a wait that fails, neither of which need happen.
AlarmReturns(a) ==
  /\ alarm[a] = "wait"
  /\ alarm' = [alarm EXCEPT ![a] = "head"]
  /\ UNCHANGED <<command, account, wakers, latch, spawned>>

\* The session moves the alarms, and rings.
AlarmRung(a) ==
  /\ pc[a] = "session" /\ alarm[a] # "none"
  /\ latch' = [latch EXCEPT ![a] = TRUE]
  /\ UNCHANGED <<command, account, wakers, alarm, spawned>>

-----------------------------------------------------------------------------
(* WatchCommand::execute *)

\* A thread per account, while the handler is already in place.
MainSpawns(a) ==
  /\ main = "running" /\ pc[a] = "unstarted"
  /\ Goto(a, "loop")
  /\ UNCHANGED <<command, backoff, left, wakers, latch, alarm, spawned>>

\* One that cannot be had is the end of the command, which returns the error with
\* the threads it has started running.  They go on until the process is gone.
SpawnFails ==
  /\ main = "running" /\ \E a \in Accounts : pc[a] = "unstarted"
  /\ main' = "failed"
  /\ UNCHANGED <<shutdown, handler, unrung, account, wakers, latch, alarm, spawned>>

HandlerSets ==
  /\ handler = "idle"
  /\ handler' = "set" /\ shutdown' = TRUE
  /\ UNCHANGED <<main, unrung, account, wakers, latch, alarm, spawned>>

\* Every waker left is rung; a ring that fails is only logged.
HandlerRings ==
  /\ handler = "set"
  /\ handler' = "rung"
  /\ unrung' \in SUBSET wakers
  /\ latch' = [a \in Accounts |-> latch[a] \/ a \in wakers \ unrung']
  /\ UNCHANGED <<shutdown, main, account, wakers, alarm, spawned>>

\* Every handle is joined, in whatever order the threads end.
MainJoins ==
  /\ main = "running" /\ \A a \in Accounts : pc[a] = "ended"
  /\ main' = "exited"
  /\ UNCHANGED <<shutdown, handler, unrung, account, wakers, latch, alarm, spawned>>

-----------------------------------------------------------------------------
Init ==
  /\ shutdown = FALSE /\ handler = "idle" /\ main = "running"
  /\ pc = [a \in Accounts |-> "unstarted"]
  /\ backoff = [a \in Accounts |-> INITIAL_BACKOFF]
  /\ left = [a \in Accounts |-> 0]
  /\ wakers = {} /\ unrung = {}
  /\ latch = [a \in Accounts |-> FALSE]
  /\ alarm = [a \in Accounts |-> "none"]
  /\ spawned = [a \in Accounts |-> 0]

\* The steps an account thread takes unless it is stuck.
AccountRuns(a) ==
  \/ Loop(a) \/ EnsureNothing(a) \/ EnsureWaker(a) \/ EnsureSpawn(a)
  \/ BackoffStep(a) \/ BackoffStops(a) \/ BackoffEnds(a) \/ Join(a)

\* A session that waits with a deadline reads the flag when it comes.
SessionNotices(a) == pc[a] = "session" /\ SessionStops(a)

AlarmRuns(a) == AlarmHead(a) \/ AlarmWoken(a)

\* What comes from elsewhere: servers, hooks, the calendar, the clock.
Happens(a) ==
  \/ CallReturns(a) \/ SessionCalls(a) \/ SessionStops(a) \/ SessionEnds(a)
  \/ AlarmBlocks(a) \/ AlarmReturns(a) \/ AlarmRung(a)

MainRuns == (\E a \in Accounts : MainSpawns(a)) \/ SpawnFails \/ MainJoins

Next ==
  \/ \E a \in Accounts : AccountRuns(a) \/ AlarmRuns(a) \/ Happens(a)
  \/ HandlerSets \/ HandlerRings \/ MainRuns

Spec == Init /\ [][Next]_vars

\* Every thread runs, and a session back from its calls over and over reads the
\* flag between two of them, for a round has only so many.  No call need return,
\* no session need fail and no deadline of an alarm need come.
Fairness ==
  /\ \A a \in Accounts : /\ WF_vars(AccountRuns(a)) /\ WF_vars(AlarmRuns(a))
                         /\ SF_vars(SessionNotices(a))
  /\ WF_vars(HandlerRings) /\ WF_vars(MainRuns)

FairSpec == Spec /\ Fairness

-----------------------------------------------------------------------------
(* What the supervisor promises *)

TypeOK ==
  /\ shutdown \in BOOLEAN
  /\ handler \in {"idle", "set", "rung"} /\ main \in {"running", "exited", "failed"}
  /\ pc \in [Accounts -> {"unstarted", "loop", "ensure", "spawn", "call",
                          "session", "backoff", "join", "ended"}]
  /\ backoff \in [Accounts -> INITIAL_BACKOFF .. MAX_BACKOFF]
  /\ left \in [Accounts -> 0 .. MAX_BACKOFF]
  /\ wakers \subseteq Accounts /\ unrung \subseteq Accounts
  /\ latch \in [Accounts -> BOOLEAN]
  /\ alarm \in [Accounts -> {"none", "head", "pass", "wait", "done"}]
  /\ spawned \in [Accounts -> Nat]

\* Once the handler has rung, no alarm thread blocks without a ring to wake it,
\* whenever it was started: the waker is left before the thread first reads the
\* flag, and rung after the flag is set (ensure, execute).  Only a ring that
\* failed, which the handler logs, leaves one to its deadline.
NoMissedRing ==
  handler = "rung" => \A a \in Accounts \ unrung : alarm[a] = "wait" => latch[a]

\* The command that ends well leaves no thread behind, neither of an account nor
\* of its alarms, which may be running a hook (AlarmRunner::join, the joins of
\* execute).  One that fails to start a thread joins none, and leaves them all to
\* the end of the process.
NoThreadLeft ==
  main = "exited" =>
    \A a \in Accounts : pc[a] = "ended" /\ alarm[a] \in {"none", "done"}

\* An account has one alarm thread through all its sessions, lost timers and
\* failed starts included, or the same alarm would fire from two of them.
OneAlarmThread == \A a \in Accounts : spawned[a] <= 1

\* The backoff shrinks only after a session that got as far as its server: one
\* that lasted, if only in opening, and none whose alarm thread could not be
\* had (watch_account).
BacksOff ==
  [][\A a \in Accounts :
       backoff'[a] < backoff[a] => pc[a] \in {"call", "session"}]_vars

\* The calls that have no deadline return all the same: connections are opened
\* or refused, and the hooks and the credential commands end.
CallsReturn ==
  \A a \in Accounts : []<>(pc[a] # "call") /\ []<>(alarm[a] # "pass")

\* Ctrl+C ends the command though no session ends of its own, no alarm comes due
\* and no clock moves: every wait but a call without a deadline is one the flag
\* or a ring ends, as long as no ring fails.
ShutdownEnds ==
  CallsReturn /\ [](unrung = {}) => (shutdown ~> main # "running")

\* A lost session is opened again, whatever becomes of the other accounts and
\* wherever they are stuck.
Reopens ==
  \A a \in Accounts :
    pc[a] = "backoff" ~> pc[a] = "ensure" \/ shutdown \/ main = "failed"

=============================================================================
