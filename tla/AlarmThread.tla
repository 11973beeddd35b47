----------------------------- MODULE AlarmThread -----------------------------
(***************************************************************************)
(* The alarms of one watched calendar (src/src/alarm.rs): the book of      *)
(* firings the watch shares with the alarm thread, the queue the thread    *)
(* keeps of them, the latched waker between the two, the wall clock, and   *)
(* the Ctrl+C handler that stops the thread.                               *)
(*                                                                         *)
(* Three processes interleave: the alarm thread (`run`), the watch, which  *)
(* changes the book and then rings (`replace`, `update`), and the Ctrl+C   *)
(* handler, which sets the flag and then rings.  The clock moves between   *)
(* any two of their steps, by any amount: a suspend is a long move.  It may *)
(* be set back as well, and "a clock change is followed": the queue and    *)
(* its prunings go by the clock, whichever way it moved.                   *)
(*                                                                         *)
(* A firing is an item and a trigger, the part of `AlarmFiring::key` that  *)
(* the queue reads; what a hook says of it is left out.                    *)
(***************************************************************************)
EXTENDS Integers

CONSTANTS
  Items,      \* the calendar items, by the backend's key
  Instants,   \* the triggers an alarm may have, in units of the wall clock
  HORIZON,    \* how far ahead firings are resolved
  GRACE,      \* how late a firing may be reached and still fire
  MaxNow,     \* bound: the last instant of the wall clock
  Jumps,      \* bound: the amounts the wall clock moves by at once
  MaxSetBacks, \* bound: how often the wall clock is set back
  None        \* `built_at` before the first build

ASSUME ConstantsAssumption ==
  /\ Instants \subseteq Nat
  /\ Jumps \subseteq Nat \ {0}
  /\ HORIZON \in Nat \ {0}
  /\ GRACE \in Nat
  /\ MaxNow \in Nat /\ MaxSetBacks \in Nat
  /\ None \notin Int

VARIABLES
  now,        \* the wall clock
  book,       \* AlarmBook: the firings its items resolve to, under the mutex
  ringing,    \* the watch has changed the book and not rung yet
  unheard,    \* history: its ring failed, and the queue is not built again yet
  latch,      \* the waker of the timer, rung and not consumed yet
  shutdown,   \* the flag Ctrl+C sets
  handler,    \* where the Ctrl+C handler is
  pc,         \* where the alarm thread is
  started,    \* AlarmQueue: when the watch started
  at,         \* the clock as the thread read it before locking the book
  moved,      \* whether the last wait ended on a ring or an error
  queue,      \* AlarmQueue: the firings still to come
  fired,      \* AlarmQueue: the firings sorted out, kept over a rebuild
  builtAt,    \* AlarmQueue: when the queue was built, None before
  due,        \* AlarmPass: the firings this pass has still to fire
  wake,       \* AlarmPass: when the next pass is wanted
  fires,      \* history: how many times the hook ran for each firing
  late,       \* history: the firings an info line named as dropped
  overslept,  \* history: the clock once moved as a machine awake never lets it
  setBacks,   \* history: how often the clock was set back...
  readIn,     \* history: ...before `at` was read,
  builtIn     \* history: and before the `at` the queue was built at

thread  == <<pc, started, at, moved, queue, fired, builtAt, due, wake>>
setting == <<setBacks, readIn, builtIn>>
history == <<fires, late, overslept, setting>>
bell    == <<ringing, unheard>>
vars    == <<now, book, bell, latch, shutdown, handler, thread, history>>

Firing == [item : Items, trigger : Instants]

-----------------------------------------------------------------------------
(* The queue's arithmetic *)

Later(a, b) == IF a >= b THEN a ELSE b

\* A mistake the checks must see: the window opening at the grace window alone.
FromGraceAlone(t) == t - GRACE

\* Where the window of a rebuild at t starts.
From(t) == Later(started, t - GRACE)

\* AlarmBook::firings: what the book holds over [from, until).
Firings(from, until) == {f \in book : from <= f.trigger /\ f.trigger < until}

\* A mistake: firing ahead of the trigger, by the grace window.
DueOfAhead(q, t) == {f \in q : f.trigger <= t + GRACE}

\* What sort_due moves out of a queue, and what it leaves.
DueOf(q, t)  == {f \in q : f.trigger <= t}
RestOf(q, t) == {f \in q : f.trigger > t}

InGrace(q, t) == {f \in q : t - f.trigger <= GRACE}

\* A mistake: waking a horizon ahead of the first firing.
WantedAhead(q, built) == {f.trigger - HORIZON : f \in q} \cup {built}

\* The instants the next pass may be wanted at: a firing's, or the rebuild's.
Wanted(q, built) == {f.trigger : f \in q} \cup {built + HORIZON \div 2}

\* The pass asks for the earliest of them.
AskWake(wanted) == \E w \in wanted : (\A t \in wanted : w <= t) /\ wake' = w

Stale == builtAt # None => at - builtAt >= HORIZON \div 2

\* What sort_due does to the pass and to `fired`, for the firings found due.
Sorted(found) ==
  /\ due'  = InGrace(found, at)
  /\ late' = late \cup (found \ InGrace(found, at))

-----------------------------------------------------------------------------
(* The alarm thread *)

Start ==
  /\ pc = "new"
  /\ pc' = "check"
  /\ started' = now
  /\ UNCHANGED <<now, book, bell, latch, shutdown, handler, at, moved, queue,
                 fired, builtAt, due, wake, history>>

\* The loop head: the flag, then the clock, before the lock is taken.
Check ==
  /\ pc = "check"
  /\ IF shutdown
       THEN pc' = "done" /\ UNCHANGED <<at, readIn>>
       ELSE pc' = "pass" /\ at' = now /\ readIn' = setBacks
  /\ UNCHANGED <<now, book, bell, latch, shutdown, handler, started, moved,
                 queue, fired, builtAt, due, wake, fires, late, overslept,
                 setBacks, builtIn>>

\* A pass that keeps the queue: only what came due leaves it.
PassKeep ==
  /\ pc = "pass" /\ ~moved /\ ~Stale
  /\ Sorted(DueOf(queue, at))
  /\ queue' = RestOf(queue, at)
  /\ fired' = fired \cup DueOf(queue, at)
  /\ builtAt' = builtAt
  /\ AskWake(Wanted(queue', builtAt'))
  /\ pc' = "fire"
  /\ UNCHANGED <<now, book, bell, latch, shutdown, handler, started, at,
                 moved, fires, overslept, setting>>

\* Mistakes: rebuilding without sorting the old queue, and forgetting at a
\* rebuild the firings at the very start of the window.
OldDueSkipped  == {}
RetainedStrict == {f \in fired \cup DueOf(queue, at) : f.trigger > From(at)}

\* What a rebuild sorts of the old queue, keeps of the firings fired, and queues.
OldDue   == DueOf(queue, at)
Retained == {f \in fired \cup OldDue : f.trigger >= From(at)}
Rebuilt  == Firings(From(at), at + HORIZON) \ Retained

\* A pass that builds the queue again: the old queue is sorted first, then
\* the new one.
PassRebuild ==
  /\ pc = "pass" /\ (moved \/ Stale)
  /\ Sorted(OldDue \cup DueOf(Rebuilt, at))
  /\ queue' = RestOf(Rebuilt, at)
  /\ fired' = Retained \cup DueOf(Rebuilt, at)
  /\ builtAt' = at /\ builtIn' = readIn
  /\ unheard' = FALSE
  /\ AskWake(Wanted(queue', builtAt'))
  /\ pc' = "fire"
  /\ UNCHANGED <<now, book, ringing, latch, shutdown, handler, started, at,
                 moved, fires, overslept, setBacks, readIn>>

\* The hook of one firing due, run to its end outside the lock.
Fire ==
  /\ pc = "fire"
  /\ \E f \in due :
       /\ due' = due \ {f}
       /\ fires' = [fires EXCEPT ![f] = @ + 1]
  /\ UNCHANGED <<now, book, bell, latch, shutdown, handler, pc, started, at,
                 moved, queue, fired, builtAt, wake, late, overslept, setting>>

\* Every hook has run: wait for `wake`.
Sleep ==
  /\ pc = "fire" /\ due = {}
  /\ pc' = "wait"
  /\ UNCHANGED <<now, book, bell, latch, shutdown, handler, started, at,
                 moved, queue, fired, builtAt, due, wake, history>>

\* The ways wait_until returns (ceichas): the deadline, a ring, an error.
Reached ==
  /\ pc = "wait" /\ now >= wake
  /\ pc' = "check" /\ moved' = FALSE
  /\ UNCHANGED <<now, book, bell, latch, shutdown, handler, started, at,
                 queue, fired, builtAt, due, wake, history>>

\* A mistake: a ring read as the deadline.
WokenUnmoved ==
  /\ pc = "wait" /\ latch
  /\ latch' = FALSE
  /\ pc' = "check" /\ moved' = FALSE
  /\ UNCHANGED <<now, book, bell, shutdown, handler, started, at, queue,
                 fired, builtAt, due, wake, history>>

Woken ==
  /\ pc = "wait" /\ latch
  /\ latch' = FALSE
  /\ pc' = "check" /\ moved' = TRUE
  /\ UNCHANGED <<now, book, bell, shutdown, handler, started, at, queue,
                 fired, builtAt, due, wake, history>>

WaitFails ==
  /\ pc = "wait"
  /\ pc' = "check" /\ moved' = TRUE
  /\ UNCHANGED <<now, book, bell, latch, shutdown, handler, started, at,
                 queue, fired, builtAt, due, wake, history>>

-----------------------------------------------------------------------------
(* The watch, the Ctrl+C handler and the clock *)

\* AlarmShared::replace and ::update: the book moves under the mutex...
Change ==
  /\ ~ringing
  /\ \E b \in SUBSET Firing : b # book /\ book' = b
  /\ ringing' = TRUE /\ unheard' = FALSE
  /\ UNCHANGED <<now, latch, shutdown, handler, thread, history>>

\* ...and only then is the thread rung.  A ring may fail, and is only logged.
Ring ==
  /\ ringing
  /\ ringing' = FALSE
  /\ latch' \in {latch, TRUE}
  /\ unheard' = ~latch'
  /\ UNCHANGED <<now, book, shutdown, handler, thread, history>>

RequestShutdown ==
  /\ handler = "idle"
  /\ handler' = "set"
  /\ shutdown' = TRUE
  /\ UNCHANGED <<now, book, bell, latch, thread, history>>

\* A mistake: a ring nobody waiting for is lost.
RingShutdownUnlatched ==
  /\ handler = "set"
  /\ handler' = "rung"
  /\ latch' = (latch \/ pc = "wait")
  /\ UNCHANGED <<now, book, bell, shutdown, thread, history>>

\* This ring may fail as well, and be only logged.
RingShutdown ==
  /\ handler = "set"
  /\ handler' \in {"rung", "failed"}
  /\ latch' = (latch \/ handler' = "rung")
  /\ UNCHANGED <<now, book, bell, shutdown, thread, history>>

\* A machine neither suspended nor overloaded: the clock moves while the
\* thread and the watch wait, and no further past the deadline than GRACE.
Awake(t) ==
  /\ pc = "wait" /\ now < wake /\ ~latch /\ ~ringing /\ handler # "set"
  /\ t <= wake + GRACE

Tick ==
  /\ \E d \in Jumps :
       /\ now + d <= MaxNow
       /\ now' = now + d
       /\ overslept' = (overslept \/ ~Awake(now + d))
  /\ UNCHANGED <<book, bell, latch, shutdown, handler, thread, fires, late,
                 setting>>

\* The clock set back, by hand or by a time server, to no time before the epoch.
SetBack ==
  /\ setBacks < MaxSetBacks
  /\ \E d \in Jumps : d <= now /\ now' = now - d
  /\ setBacks' = setBacks + 1 /\ overslept' = TRUE
  /\ UNCHANGED <<book, bell, latch, shutdown, handler, thread, fires, late,
                 readIn, builtIn>>

-----------------------------------------------------------------------------
Init ==
  /\ now = 0
  /\ book = {} /\ ringing = FALSE /\ unheard = FALSE /\ latch = FALSE
  /\ shutdown = FALSE /\ handler = "idle"
  /\ pc = "new" /\ started = 0 /\ at = 0 /\ moved = TRUE
  /\ queue = {} /\ fired = {} /\ builtAt = None /\ due = {} /\ wake = 0
  /\ fires = [f \in Firing |-> 0] /\ late = {} /\ overslept = FALSE
  /\ setBacks = 0 /\ readIn = 0 /\ builtIn = 0

\* What the thread does of its own: every step but a failing wait.
Thread ==
  \/ Start \/ Check \/ PassKeep \/ PassRebuild \/ Fire \/ Sleep
  \/ Reached \/ Woken

Others ==
  \/ WaitFails \/ Change \/ Ring \/ RequestShutdown \/ RingShutdown

Next == Thread \/ Others \/ Tick \/ SetBack

\* Processes run and hooks end; nobody is bound to change the calendar, to
\* press Ctrl+C, to fail a wait, and the clock may stand.
Fairness == WF_vars(Thread) /\ WF_vars(Ring) /\ WF_vars(RingShutdown)

Spec == Init /\ [][Next]_vars

\* Time passes, however many changes and failing waits crowd an instant, unless
\* the bound or a shutdown ends it.
TimePasses == []<><<Tick>>_vars \/ <>[](now = MaxNow \/ shutdown)

\* Nothing the thread does of its own needs the clock to move.
FairSpec == Spec /\ Fairness /\ TimePasses

-----------------------------------------------------------------------------
(* What the alarms promise *)

TypeOK ==
  /\ now \in Nat /\ started \in Nat /\ at \in Nat /\ wake \in Nat
  /\ book \subseteq Firing /\ queue \subseteq Firing /\ fired \subseteq Firing
  /\ due \subseteq Firing /\ late \subseteq Firing
  /\ builtAt \in Nat \cup {None}
  /\ ringing \in BOOLEAN /\ unheard \in BOOLEAN /\ latch \in BOOLEAN
  /\ shutdown \in BOOLEAN /\ moved \in BOOLEAN
  /\ handler \in {"idle", "set", "rung", "failed"}
  /\ pc \in {"new", "check", "pass", "fire", "wait", "done"}
  /\ fires \in [Firing -> Nat] /\ overslept \in BOOLEAN
  /\ setBacks \in Nat /\ readIn \in 0 .. setBacks /\ builtIn \in 0 .. readIn

\* How often a firing was sorted out to its end.
Fates(f) == fires[f] + (IF f \in late THEN 1 ELSE 0)

\* No firing fires twice, nor fires once dropped as late, whatever the calendar
\* does and however often the queue is built again (the `fired` map of
\* AlarmQueue::pass, pruned at each rebuild by the wall clock): each time that
\* clock is set back, and no oftener, one may come again.
NeverTwice == \A f \in Firing : Fates(f) <= 1 + setBacks

\* A watch fires nothing, and names nothing as dropped, that was to fire before
\* it started (`started.max(..)` in AlarmQueue::pass).
NothingBeforeStart ==
  \A f \in Firing : fires[f] > 0 \/ f \in late => f.trigger >= started

\* The clock was set back since the queue was built.
OutOfStep == builtIn # setBacks

\* Asleep with no ring on its way, nor one that failed since the queue was built,
\* the thread sleeps past no firing of the book as it stands: one still to come is
\* waited for, and one that came within the grace window of the last pass was
\* sorted out (AlarmQueue::pass, the latch and the order in which AlarmShared
\* changes and rings).  A queue built before the clock was set back holds only
\* what was ahead then.
SleepsPastNoFiring ==
  pc = "wait" /\ ~latch /\ ~ringing /\ ~unheard /\ ~OutOfStep =>
    \A f \in book :
      f.trigger >= From(at) => (f.trigger > at /\ wake <= f.trigger) \/ Fates(f) > 0

\* What the alarms promise, with no thread: the queue is what is ahead, and what
\* the queue was built from may be behind the clock.
Promise == INSTANCE Firings
             WITH held <- book, ahead <- queue, dropped <- late, behind <- OutOfStep

\* The thread keeps that promise at every step, however its passes, rebuilds and
\* waits interleave with the watch, Ctrl+C and the clock: a firing leaves the queue
\* due, named as dropped for being late, or because the calendar dropped it, and
\* never vanishes in a rebuild (AlarmQueue::pass, `run`).
KeepsPromise == Promise!Spec

\* Shutdown ends the thread though the clock stands still and whatever deadline
\* it sleeps to, unless the ring fails: the handler rings after it sets the flag
\* (WatchCommand::execute and the loop head of `run`).
StopsUnaided == shutdown ~> pc = "done" \/ handler = "failed"

\* On a machine that is awake, an alarm held ahead of its trigger fires, unless
\* the calendar drops it first, the watch stops or a ring fails: no ring is lost
\* on its way, no rebuild comes too late, no deadline is too far (`run`).
HeldFiringFires ==
  \A f \in Firing :
    f \in book /\ f.trigger \in now + 1 .. MaxNow
      ~> fires[f] > 0 \/ f \notin book \/ shutdown \/ overslept \/ unheard

=============================================================================
