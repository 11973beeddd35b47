-------------------------- MODULE Supervisor_proofs --------------------------
(***************************************************************************)
(* Proofs of the safety properties of Supervisor, for any number of        *)
(* accounts and any bounds of the backoff, and of the plainest of the      *)
(* watches it starts, MaildirPoll.                                         *)
(*                                                                         *)
(* The argument is about one thread at a time.  A thread that exists has   *)
(* its waker left; one past its loop head has read the flag unset, hence   *)
(* before the handler rang; so the ring comes after both and reaches it,   *)
(* unless it fails.                                                        *)
(***************************************************************************)
EXTENDS Supervisor, MaildirPoll, TLAPS

-----------------------------------------------------------------------------
(* The inductive invariant *)

Flagged == shutdown <=> handler # "idle"

\* The waker is left before the thread starts, and stays.
WakerLeft ==
  \A a \in Accounts : pc[a] = "spawn" \/ alarm[a] # "none" => a \in wakers

\* A thread is started once, while there is none.
StartedOnce ==
  \A a \in Accounts : /\ alarm[a] = "none" => spawned[a] = 0
                      /\ alarm[a] # "none" => spawned[a] = 1
                      /\ pc[a] = "spawn" => alarm[a] = "none"

\* Past its loop head, a thread has the ring to come or in its latch, unless it
\* failed.
RingReaches ==
  handler = "rung" =>
    \A a \in Accounts \ unrung : alarm[a] \in {"pass", "wait"} => latch[a]

Joined ==
  /\ \A a \in Accounts : pc[a] = "ended" => alarm[a] \in {"none", "done"}
  /\ main = "exited" => \A a \in Accounts : pc[a] = "ended"

IInv == TypeOK /\ Flagged /\ WakerLeft /\ StartedOnce /\ RingReaches /\ Joined

-----------------------------------------------------------------------------
(* The bounds of the backoff *)

\* Doubling toward the ceiling stays within the bounds, and never shrinks.
LEMMA DoubledBounds ==
  ASSUME NEW b \in INITIAL_BACKOFF .. MAX_BACKOFF
  PROVE  /\ Lesser(2 * b, MAX_BACKOFF) \in INITIAL_BACKOFF .. MAX_BACKOFF
         /\ Lesser(2 * b, MAX_BACKOFF) >= b
  BY SupervisorAssumption DEF Lesser

LEMMA InitHolds == Init => IInv
  <1> SUFFICES ASSUME Init PROVE IInv
    OBVIOUS
  <1>1. TypeOK
    <2>1. INITIAL_BACKOFF \in INITIAL_BACKOFF .. MAX_BACKOFF /\ 0 \in 0 .. MAX_BACKOFF
      BY SupervisorAssumption
    <2>2. /\ backoff \in [Accounts -> INITIAL_BACKOFF .. MAX_BACKOFF]
          /\ left \in [Accounts -> 0 .. MAX_BACKOFF]
      BY <2>1, Zenon DEF Init
    <2>3. spawned \in [Accounts -> Nat]
      BY DEF Init
    <2>4. /\ latch \in [Accounts -> BOOLEAN]
          /\ wakers \subseteq Accounts /\ unrung \subseteq Accounts
      BY Zenon DEF Init
    <2>5. /\ pc \in [Accounts -> {"unstarted", "loop", "ensure", "spawn", "call",
                                  "session", "backoff", "join", "ended"}]
          /\ alarm \in [Accounts -> {"none", "head", "pass", "wait", "done"}]
      BY DEF Init
    <2>6. /\ shutdown \in BOOLEAN
          /\ handler \in {"idle", "set", "rung"} /\ main \in {"running", "exited", "failed"}
      BY DEF Init
    <2> QED
      BY <2>2, <2>3, <2>4, <2>5, <2>6 DEF TypeOK
  <1>2. Flagged /\ WakerLeft /\ StartedOnce /\ RingReaches /\ Joined
    BY DEF Init, Flagged, WakerLeft, StartedOnce, RingReaches, Joined
  <1> QED
    BY <1>1, <1>2 DEF IInv

-----------------------------------------------------------------------------
(* Each step keeps it *)

\* The account threads.
LEMMA AccountKeeps ==
  ASSUME IInv, NEW a \in Accounts,
         AccountRuns(a) \/ CallReturns(a) \/ SessionCalls(a) \/ SessionStops(a)
           \/ SessionEnds(a)
  PROVE  IInv'
  <1> USE DEF Goto, InSession, command
  <1>1. CASE Loop(a) \/ EnsureNothing(a) \/ BackoffStops(a)
    <2>1. TypeOK'
      BY <1>1 DEF IInv, TypeOK, Loop, EnsureNothing, BackoffStops
    <2> QED
      BY <1>1, <2>1
      DEF IInv, TypeOK, Flagged, WakerLeft, StartedOnce, RingReaches, Joined,
          Loop, EnsureNothing, BackoffStops
  <1>2. CASE EnsureWaker(a)
    <2>1. TypeOK'
      BY <1>2 DEF IInv, TypeOK, EnsureWaker
    <2> QED
      BY <1>2, <2>1
      DEF IInv, TypeOK, Flagged, WakerLeft, StartedOnce, RingReaches, Joined,
          EnsureWaker
  <1>3. CASE EnsureSpawn(a)
    <2>1. TypeOK'
      BY <1>3 DEF IInv, TypeOK, EnsureSpawn
    <2> QED
      BY <1>3, <2>1
      DEF IInv, TypeOK, Flagged, WakerLeft, StartedOnce, RingReaches, Joined,
          EnsureSpawn
  <1>4. CASE BackoffStep(a)
    <2>1. TypeOK'
      BY <1>4, SupervisorAssumption DEF IInv, TypeOK, BackoffStep
    <2> QED
      BY <1>4, <2>1
      DEF IInv, TypeOK, Flagged, WakerLeft, StartedOnce, RingReaches, Joined,
          BackoffStep
  <1>5. CASE BackoffEnds(a)
    <2>1. TypeOK'
      BY <1>5, DoubledBounds DEF IInv, TypeOK, BackoffEnds
    <2> QED
      BY <1>5, <2>1
      DEF IInv, TypeOK, Flagged, WakerLeft, StartedOnce, RingReaches, Joined,
          BackoffEnds
  <1>6. CASE Join(a)
    <2>1. TypeOK'
      BY <1>6 DEF IInv, TypeOK, Join
    <2> QED
      BY <1>6, <2>1
      DEF IInv, TypeOK, Flagged, WakerLeft, StartedOnce, RingReaches, Joined, Join
  <1>7. CASE SessionEnds(a)
    <2>1. TypeOK'
      BY <1>7, SupervisorAssumption DEF IInv, TypeOK, SessionEnds
    <2> QED
      BY <1>7, <2>1
      DEF IInv, TypeOK, Flagged, WakerLeft, StartedOnce, RingReaches, Joined,
          SessionEnds
  <1>8. CASE CallReturns(a) \/ SessionCalls(a) \/ SessionStops(a)
    <2>1. TypeOK'
      BY <1>8 DEF IInv, TypeOK, CallReturns, SessionCalls, SessionStops
    <2> QED
      BY <1>8, <2>1
      DEF IInv, TypeOK, Flagged, WakerLeft, StartedOnce, RingReaches, Joined,
          CallReturns, SessionCalls, SessionStops
  <1> QED
    BY <1>1, <1>2, <1>3, <1>4, <1>5, <1>6, <1>7, <1>8 DEF AccountRuns

\* The alarm threads, and what rings them.
LEMMA AlarmKeeps ==
  ASSUME IInv, NEW a \in Accounts,
         AlarmRuns(a) \/ AlarmBlocks(a) \/ AlarmReturns(a) \/ AlarmRung(a)
  PROVE  IInv'
  <1> USE DEF command
  <1>1. CASE AlarmHead(a)
    <2>1. TypeOK'
      BY <1>1 DEF IInv, TypeOK, AlarmHead, account
    <2>2. RingReaches'
      BY <1>1 DEF IInv, TypeOK, Flagged, RingReaches, AlarmHead, account
    <2> QED
      BY <1>1, <2>1, <2>2
      DEF IInv, TypeOK, Flagged, WakerLeft, StartedOnce, Joined, AlarmHead, account
  <1>2. CASE AlarmBlocks(a) \/ AlarmWoken(a) \/ AlarmReturns(a)
    <2>1. TypeOK'
      BY <1>2 DEF IInv, TypeOK, AlarmBlocks, AlarmWoken, AlarmReturns, account
    <2> QED
      BY <1>2, <2>1
      DEF IInv, TypeOK, Flagged, WakerLeft, StartedOnce, RingReaches, Joined,
          AlarmBlocks, AlarmWoken, AlarmReturns, account
  <1>3. CASE AlarmRung(a)
    <2>1. TypeOK'
      BY <1>3 DEF IInv, TypeOK, AlarmRung, account
    <2> QED
      BY <1>3, <2>1
      DEF IInv, TypeOK, Flagged, WakerLeft, StartedOnce, RingReaches, Joined,
          AlarmRung, account
  <1> QED
    BY <1>1, <1>2, <1>3 DEF AlarmRuns

\* The main thread, starting the accounts and joining them.
LEMMA MainKeeps ==
  ASSUME IInv, MainRuns
  PROVE  IInv'
  <1>1. CASE SpawnFails \/ MainJoins
    <2>1. TypeOK'
      BY <1>1 DEF IInv, TypeOK, SpawnFails, MainJoins, account
    <2> QED
      BY <1>1, <2>1
      DEF IInv, TypeOK, Flagged, WakerLeft, StartedOnce, RingReaches, Joined,
          SpawnFails, MainJoins, account
  <1>2. ASSUME NEW a \in Accounts, MainSpawns(a)
        PROVE  IInv'
    <2>1. TypeOK'
      BY <1>2 DEF IInv, TypeOK, MainSpawns, Goto, command
    <2> QED
      BY <1>2, <2>1
      DEF IInv, TypeOK, Flagged, WakerLeft, StartedOnce, RingReaches, Joined,
          MainSpawns, Goto, command
  <1> QED
    BY <1>1, <1>2 DEF MainRuns

\* The handler.
LEMMA HandlerKeeps ==
  ASSUME IInv, HandlerSets \/ HandlerRings
  PROVE  IInv'
  <1>1. CASE HandlerSets
    <2>1. TypeOK'
      BY <1>1 DEF IInv, TypeOK, HandlerSets, account
    <2> QED
      BY <1>1, <2>1
      DEF IInv, TypeOK, Flagged, WakerLeft, StartedOnce, RingReaches, Joined,
          HandlerSets, account
  <1>2. CASE HandlerRings
    <2>1. TypeOK'
      <3>1. latch' \in [Accounts -> BOOLEAN]
        BY <1>2 DEF IInv, TypeOK, HandlerRings
      <3> QED
        BY <1>2, <3>1 DEF IInv, TypeOK, HandlerRings, account
    <2>2. RingReaches'
      BY <1>2 DEF IInv, TypeOK, WakerLeft, RingReaches, HandlerRings, account
    <2> QED
      BY <1>2, <2>1, <2>2
      DEF IInv, TypeOK, Flagged, WakerLeft, StartedOnce, Joined, HandlerRings, account
  <1> QED
    BY <1>1, <1>2

LEMMA StutterKeeps == IInv /\ UNCHANGED vars => IInv'
  BY DEF IInv, TypeOK, Flagged, WakerLeft, StartedOnce, RingReaches, Joined,
         vars, account, command

-----------------------------------------------------------------------------
(* The theorems *)

\* Every state of the supervisor satisfies the inductive invariant.
THEOREM Invariant == Spec => []IInv
<1>1. Init => IInv
  BY InitHolds
<1>2. IInv /\ [Next]_vars => IInv'
  BY AccountKeeps, AlarmKeeps, MainKeeps, HandlerKeeps, StutterKeeps
  DEF Next, Happens
<1> QED
  BY <1>1, <1>2, PTL DEF Spec

\* Every variable keeps its type; the backoff keeps its bounds.
THEOREM TypeCorrect == Spec => []TypeOK
<1>1. IInv => TypeOK
  BY DEF IInv
<1> QED
  BY <1>1, Invariant, PTL

\* However a shutdown races the start of an alarm thread, the thread has a
\* ring to wake it, unless that ring failed (the comment in AlarmRunner::ensure).
THEOREM RingIsNeverMissed == Spec => []NoMissedRing
<1>1. IInv => NoMissedRing
  BY DEF IInv, RingReaches, NoMissedRing
<1> QED
  BY <1>1, Invariant, PTL

\* The command that ends well has joined every account, and leaves no alarm
\* thread behind, whichever accounts Ctrl+C met before they were started.
THEOREM EveryThreadIsJoined == Spec => []NoThreadLeft
<1>1. IInv => NoThreadLeft
  BY DEF IInv, Joined, NoThreadLeft
<1> QED
  BY <1>1, Invariant, PTL

\* Through any number of sessions, an account starts one alarm thread.
THEOREM StartsOneAlarmThread == Spec => []OneAlarmThread
<1>1. IInv => OneAlarmThread
  <2> SUFFICES ASSUME IInv, NEW a \in Accounts
               PROVE  spawned[a] <= 1
    BY Zenon DEF OneAlarmThread
  <2>1. spawned[a] = 0 \/ spawned[a] = 1
    BY Zenon DEF IInv, StartedOnce
  <2> QED
    BY <2>1
<1> QED
  BY <1>1, Invariant, PTL

\* Only a session that got as far as its server lets the backoff shrink.
THEOREM BackoffOnlyGrows == Spec => BacksOff
<1>1. IInv /\ [Next]_vars =>
        [\A a \in Accounts :
           backoff'[a] < backoff[a] => pc[a] \in {"call", "session"}]_vars
  <2> SUFFICES ASSUME IInv, Next, NEW a \in Accounts, backoff'[a] < backoff[a]
               PROVE  pc[a] \in {"call", "session"}
    OBVIOUS
  <2>1. backoff[a] \in INITIAL_BACKOFF .. MAX_BACKOFF /\ backoff \in [Accounts -> Int]
    BY SupervisorAssumption DEF IInv, TypeOK
  <2>2. backoff' # backoff
    BY <2>1, SupervisorAssumption
  <2>3. PICK b \in Accounts : SessionEnds(b) \/ BackoffEnds(b)
    BY <2>2
    DEF Next, AccountRuns, AlarmRuns, MainRuns, Happens, Loop, EnsureNothing,
        EnsureWaker, EnsureSpawn, CallReturns, SessionCalls, SessionStops,
        BackoffStep, BackoffStops, Join, AlarmHead, AlarmBlocks, AlarmWoken,
        AlarmReturns, AlarmRung, MainSpawns, SpawnFails, MainJoins, HandlerSets,
        HandlerRings, account
  <2>4. CASE BackoffEnds(b)
    BY <2>1, <2>4, DoubledBounds, SupervisorAssumption DEF BackoffEnds
  <2>5. CASE SessionEnds(b)
    BY <2>1, <2>5, SupervisorAssumption DEF SessionEnds
  <2> QED
    BY <2>3, <2>4, <2>5
<1> QED
  BY <1>1, Invariant, PTL DEF Spec, BacksOff

-----------------------------------------------------------------------------
(* The Maildir watch, whose picture is the last listing: what its events   *)
(* tell is what that listing read, for every mailbox, every flag and every *)
(* way files are renamed under the listings.                               *)

MailListings == [Messages -> Views]

ListingTyped ==
  /\ mailbox \in MailListings /\ current \in MailListings
  /\ seen \in MailListings /\ told \in MailListings
  /\ unread \subseteq Messages
  /\ stage \in {"arm", "poll"}

ListingInv == ListingTyped /\ ToldIsListed

\* A hook that held the flags of the listing before, and follows the events of a
\* poll, holds those of the listing they were found in (diff).
LEMMA EventsTellTheListing ==
  ASSUME NEW before \in Views, NEW after \in Views
  PROVE  Heard(before, Diff(before, after), after) = after
<1> DEFINE news == Diff(before, after)
<1>1. CASE before = after
  <2>1. news = {}
    BY <1>1 DEF Diff
  <2>2. CASE before = Missing
    BY <1>1, <2>1, <2>2 DEF Heard
  <2>3. CASE before # Missing
    <3>1. before \subseteq Flags
      BY <2>3 DEF Views
    <3>2. Heard(before, {}, after)
            = (before \cup {f \in Flags : <<"flag-added", f>> \in {}})
                \ {f \in Flags : <<"flag-removed", f>> \in {}}
      BY <2>3 DEF Heard
    <3> QED
      BY <1>1, <2>1, <3>1, <3>2
  <2> QED
    BY <2>2, <2>3
<1>2. CASE before # after /\ after = Missing
  <2>1. news = {<<"item-removed">>}
    BY <1>2 DEF Diff
  <2> QED
    BY <1>2, <2>1 DEF Heard
<1>3. CASE before # after /\ after # Missing /\ before = Missing
  <2>1. news = {<<"item-added">>}
    BY <1>3 DEF Diff
  <2>2. <<"item-removed">> \notin news
    BY <2>1
  <2> QED
    BY <1>3, <2>1, <2>2 DEF Heard
<1>4. CASE before # after /\ after # Missing /\ before # Missing
  <2>1. before \subseteq Flags /\ after \subseteq Flags
    BY <1>4 DEF Views
  <2>2. news = {<<"flag-added", f>> : f \in after \ before}
                   \cup {<<"flag-removed", f>> : f \in before \ after}
    BY <1>4 DEF Diff
  <2>3. <<"item-removed">> \notin news /\ <<"item-added">> \notin news
    BY <2>2
  <2>4. Heard(before, news, after)
          = (before \cup {f \in Flags : <<"flag-added", f>> \in news})
              \ {f \in Flags : <<"flag-removed", f>> \in news}
    BY <1>4, <2>3 DEF Heard
  <2>5. \A f \in Flags : <<"flag-added", f>> \in news <=> f \in after \ before
    BY <2>2
  <2>6. \A f \in Flags : <<"flag-removed", f>> \in news <=> f \in before \ after
    BY <2>2
  <2> QED
    BY <2>1, <2>4, <2>5, <2>6
<1> QED
  BY <1>1, <1>2, <1>3, <1>4

LEMMA ListingBegins == MaildirInit => ListingInv
BY DEF MaildirInit, ListingInv, ListingTyped, MailListings, Views, NoneRead, ToldIsListed

LEMMA ListingKeeps == ListingInv /\ [MaildirNext]_maildirVars => ListingInv'
<1> SUFFICES ASSUME ListingInv, [MaildirNext]_maildirVars PROVE ListingInv'
  OBVIOUS
<1> USE DEF ListingInv, ListingTyped, MailListings, listing, Silent
<1>1. CASE Open
  BY <1>1 DEF Open, ListBegins, NoneRead, Views, ToldIsListed
<1>2. CASE Poll
  BY <1>2 DEF Poll, ListBegins, NoneRead, Views, ToldIsListed
<1>3. CASE ReadEntry
  <2>1. PICK m \in unread, read \in {Missing} \cup {mailbox[x] : x \in Messages} :
          unread' = unread \ {m} /\ current' = [current EXCEPT ![m] = read]
    BY <1>3 DEF ReadEntry
  <2>2. read \in Views
    BY <2>1 DEF Views
  <2> QED
    BY <1>3, <2>1, <2>2 DEF ReadEntry, ToldIsListed
<1>4. CASE Armed
  BY <1>4 DEF Armed, ToldIsListed
<1>5. CASE Reports
  <2>1. told = seen
    BY <1>5 DEF Reports, ToldIsListed
  <2>2. \A m \in Messages : told'[m] = current[m]
    BY <1>5, <2>1, EventsTellTheListing DEF Reports
  <2>3. told' = current
    BY <1>5, <2>2 DEF Reports
  <2> QED
    BY <1>5, <2>3 DEF Reports, ToldIsListed
<1>6. CASE ListFails
  BY <1>6 DEF ListFails, ToldIsListed
<1>7. CASE RequestShutdown
  BY <1>7 DEF RequestShutdown, ToldIsListed
<1>8. CASE Stop
  BY <1>8 DEF Stop, ToldIsListed
<1>9. CASE Others
  BY <1>9 DEF Others, ToldIsListed
<1>10. CASE UNCHANGED maildirVars
  BY <1>10 DEF maildirVars, ToldIsListed
<1> QED
  BY <1>1, <1>2, <1>3, <1>4, <1>5, <1>6, <1>7, <1>8, <1>9, <1>10 DEF MaildirNext, Watch

\* A listing that fails, or reads past a message being renamed, neither loses nor
\* repeats news: hooks know the last whole listing and nothing else (poll, diff).
THEOREM TellsWhatItListed == MaildirSpec => []ToldIsListed
BY ListingBegins, ListingKeeps, PTL DEF MaildirSpec, ListingInv

=============================================================================
