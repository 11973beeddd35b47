-------------------------- MODULE AlarmThread_proofs --------------------------
(***************************************************************************)
(* Proofs of the safety properties of AlarmThread, and that it implements  *)
(* Firings, for every calendar, horizon, grace window and bound.           *)
(*                                                                         *)
(* The argument turns on one instant, From(builtAt), where the window of   *)
(* the last rebuild started.  It goes back only when the clock does.       *)
(* Nothing queued is before it, and everything sorted out is either still  *)
(* in `fired`, or before it, or was sorted out before the clock was last   *)
(* set back.  So nothing is sorted out once more than the clock went back. *)
(***************************************************************************)
EXTENDS AlarmThread, TLAPS

USE DEF bell

-----------------------------------------------------------------------------
(* The inductive invariant *)

\* How often a firing was sorted out of a queue, in whatever pass.
Sortings(f) == Fates(f) + (IF f \in due THEN 1 ELSE 0)

\* An instant is compared with another one only when the clock was not set back
\* between the two.
Clocks ==
  /\ readIn = setBacks => at <= now
  /\ pc = "new" => builtAt = None
  /\ pc \in {"fire", "wait"} => builtAt # None
  /\ builtAt # None /\ builtIn = readIn => builtAt <= at

Unbuilt == builtAt = None => queue = {} /\ fired = {} /\ \A f \in Firing : Sortings(f) = 0

\* Kept in `fired`, or out of the window of the last rebuild.
Over(f) == f \in fired \/ f.trigger < From(builtAt)

\* What is sorted out is over, until the clock is set back.
Remembered ==
  builtAt # None =>
    /\ \A f \in Firing : Sortings(f) <= builtIn + (IF Over(f) THEN 1 ELSE 0)
    /\ \A f \in fired : Sortings(f) > 0
    /\ \A f \in queue : /\ f \notin fired
                        /\ From(builtAt) <= f.trigger
                        /\ f.trigger < builtAt + HORIZON

\* Nothing is sorted out that was to fire before the start, and nothing is left
\* to fire once the thread waits.
OneFate ==
  /\ \A f \in Firing : Sortings(f) > 0 => f.trigger >= started
  /\ pc # "fire" => due = {}

\* What the thread waits for, after a pass.
Waiting ==
  pc \in {"fire", "wait"} =>
    /\ at = builtAt \/ at < builtAt + HORIZON \div 2
    /\ wake <= builtAt + HORIZON \div 2
    /\ \A f \in queue : at < f.trigger /\ wake <= f.trigger

\* With no change of the book on its way to the thread, or lost with a ring that
\* failed, the queue and the firings sorted out hold what the book holds over
\* the window.
InSync ==
  builtAt # None /\ ~ringing /\ ~unheard /\ ~latch /\ ~(pc \in {"check", "pass", "done"} /\ moved) =>
    \A f \in book : From(builtAt) <= f.trigger /\ f.trigger < builtAt + HORIZON
                      => f \in queue \/ f \in fired

IInv == /\ TypeOK /\ Clocks /\ Unbuilt /\ Remembered /\ OneFate
        /\ Waiting /\ InSync

-----------------------------------------------------------------------------
(* Lemmas on the window *)

\* The window of a rebuild starts neither before the watch nor more than the
\* grace window ago.
LEMMA FromBounds ==
  ASSUME TypeOK, NEW t \in Int
  PROVE  From(t) \in Int /\ From(t) >= started /\ From(t) >= t - GRACE
  BY ConstantsAssumption DEF From, Later, TypeOK

\* It moves with the clock.
LEMMA FromMonotone ==
  ASSUME TypeOK, NEW t \in Int, NEW u \in Int, t <= u
  PROVE  From(t) <= From(u)
  BY ConstantsAssumption DEF From, Later, TypeOK

\* A firing's trigger is an instant of the clock.
LEMMA TriggerNat == \A f \in Firing : f.trigger \in Nat
  BY ConstantsAssumption DEF Firing

\* How often a firing was sorted out is a number.
LEMMA CountsNat ==
  ASSUME TypeOK, NEW f \in Firing
  PROVE  fires[f] \in Nat /\ Fates(f) \in Nat /\ Sortings(f) \in Nat
  BY DEF TypeOK, Fates, Sortings

-----------------------------------------------------------------------------
(* Type correctness *)

LEMMA TypeStep == TypeOK /\ [Next]_vars => TypeOK'
<1> SUFFICES ASSUME TypeOK, [Next]_vars
             PROVE  TypeOK'
  OBVIOUS
<1> USE DEF TypeOK, setting
<1>1. CASE Start
  BY <1>1 DEF Start, history
<1>2. CASE Check
  BY <1>2 DEF Check
<1>3. ASSUME NEW q \in SUBSET Firing, NEW b \in Nat, AskWake(Wanted(q, b))
      PROVE  wake' \in Nat
  BY <1>3, TriggerNat, ConstantsAssumption DEF AskWake, Wanted
<1>4. CASE PassKeep
  <2>1. builtAt' \in Nat
    BY <1>4 DEF PassKeep, Stale
  <2>2. queue' \in SUBSET Firing
    BY <1>4 DEF PassKeep, RestOf
  <2>3. wake' \in Nat
    BY <1>3, <1>4, <2>1, <2>2 DEF PassKeep
  <2> QED
    BY <1>4, <2>1, <2>2, <2>3 DEF PassKeep, Sorted, DueOf, InGrace
<1>5. CASE PassRebuild
  <2>1. queue' \in SUBSET Firing
    BY <1>5 DEF PassRebuild, RestOf, Rebuilt, Firings
  <2>2. wake' \in Nat
    BY <1>3, <1>5, <2>1 DEF PassRebuild
  <2>3. fired' \in SUBSET Firing /\ due' \in SUBSET Firing /\ late' \in SUBSET Firing
    BY <1>5 DEF PassRebuild, Sorted, DueOf, OldDue, InGrace, Rebuilt, Retained, Firings
  <2>4. builtAt' \in Nat /\ builtIn' \in 0 .. readIn'
    BY <1>5 DEF PassRebuild
  <2> QED
    BY <1>5, <2>1, <2>2, <2>3, <2>4 DEF PassRebuild
<1>6. CASE Fire
  BY <1>6 DEF Fire
<1>7. CASE Sleep \/ Reached \/ Woken \/ WaitFails
  BY <1>7 DEF Sleep, Reached, Woken, WaitFails, history
<1>8. CASE Change \/ Ring \/ RequestShutdown \/ RingShutdown
  BY <1>8 DEF Change, Ring, RequestShutdown, RingShutdown, thread, history
<1>9. CASE Tick \/ SetBack
  <2>0. overslept' \in BOOLEAN
    BY <1>9, Zenon DEF Tick, SetBack
  <2>1. now' \in Nat
    BY <1>9, ConstantsAssumption DEF Tick, SetBack
  <2>2. setBacks' \in Nat /\ readIn' \in 0 .. setBacks' /\ builtIn' \in 0 .. readIn'
    BY <1>9 DEF Tick, SetBack
  <2> QED
    BY <1>9, <2>0, <2>1, <2>2 DEF Tick, SetBack, thread
<1>10. CASE UNCHANGED vars
  BY <1>10 DEF vars, thread, history
<1> QED
  BY <1>1, <1>2, <1>4, <1>5, <1>6, <1>7, <1>8, <1>9, <1>10
  DEF Next, Thread, Others

LEMMA InitTyped == Init => TypeOK
<1> SUFFICES ASSUME Init PROVE TypeOK
  OBVIOUS
<1>1. fires \in [Firing -> Nat]
  BY DEF Init
<1>2. setBacks \in Nat /\ readIn \in 0 .. setBacks /\ builtIn \in 0 .. readIn
  BY DEF Init
<1> QED
  BY <1>1, <1>2 DEF Init, TypeOK

\* Every variable keeps its type, whatever the constants.
THEOREM TypeCorrect == Spec => []TypeOK
  BY InitTyped, TypeStep, PTL DEF Spec

-----------------------------------------------------------------------------
(* The invariant is inductive *)

\* The steps that leave the queue, the book and what was sorted out alone.
LEMMA QuietStep ==
  ASSUME IInv, Start \/ Check \/ Sleep \/ Reached \/ Woken \/ WaitFails
  PROVE  Clocks' /\ Unbuilt' /\ Remembered' /\ OneFate' /\ Waiting' /\ InSync'
<1> USE DEF IInv
<1>1. \A f \in Firing : Sortings(f)' = Sortings(f)
  BY DEF Start, Check, Sleep, Reached, Woken, WaitFails, history, Sortings, Fates
<1>2. CASE Start
  BY <1>1, <1>2
  DEF Start, history, setting, TypeOK, Clocks, Unbuilt, Remembered, OneFate,
      Waiting, InSync
<1>3. CASE Check
  <2> USE <1>3 DEF Check
  <2>1. From(builtAt)' = From(builtAt) /\ \A f : Over(f)' = Over(f)
    BY DEF From, Later, Over
  <2>2. Clocks'
    BY DEF TypeOK, Clocks
  <2>3. Remembered'
    BY <1>1, <2>1 DEF TypeOK, Remembered
  <2>4. Unbuilt' /\ OneFate' /\ Waiting' /\ InSync'
    BY <1>1, <2>1 DEF TypeOK, Unbuilt, OneFate, Waiting, InSync
  <2> QED
    BY <2>2, <2>3, <2>4
<1>4. CASE Sleep \/ Reached \/ Woken \/ WaitFails
  <2> USE <1>4 DEF Sleep, Reached, Woken, WaitFails, history, setting
  <2>1. From(builtAt)' = From(builtAt) /\ \A f : Over(f)' = Over(f)
    BY DEF From, Later, Over
  <2>2. Clocks' /\ Waiting'
    BY DEF TypeOK, Clocks, Waiting
  <2>3. Unbuilt' /\ Remembered' /\ OneFate'
    BY <1>1, <2>1 DEF TypeOK, Unbuilt, Remembered, OneFate
  <2>4. InSync'
    BY <2>1 DEF InSync
  <2> QED
    BY <2>2, <2>3, <2>4
<1> QED
  BY <1>2, <1>3, <1>4

\* The steps of the watch, of the Ctrl+C handler and of the clock.
LEMMA OtherStep ==
  ASSUME IInv, Change \/ Ring \/ RequestShutdown \/ RingShutdown \/ Tick
               \/ SetBack \/ UNCHANGED vars
  PROVE  Clocks' /\ Unbuilt' /\ Remembered' /\ OneFate' /\ Waiting' /\ InSync'
<1> USE DEF IInv
<1>1. UNCHANGED <<thread, fires, late, readIn, builtIn>>
  BY DEF Change, Ring, RequestShutdown, RingShutdown, Tick, SetBack, vars,
         history, setting
<1>2. /\ now' \in Nat
      /\ (now <= now' /\ setBacks' = setBacks) \/ setBacks' = setBacks + 1
  <2>1. CASE Tick \/ SetBack
    BY <2>1, ConstantsAssumption DEF Tick, SetBack, setting, TypeOK
  <2>2. CASE ~(Tick \/ SetBack)
    <3>1. now' = now /\ setBacks' = setBacks
      BY <2>2, Zenon
      DEF Change, Ring, RequestShutdown, RingShutdown, vars, history, setting
    <3> QED
      BY <3>1 DEF TypeOK
  <2> QED
    BY <2>1, <2>2
<1>3. /\ From(builtAt)' = From(builtAt) /\ \A f : Over(f)' = Over(f)
      /\ \A f \in Firing : Sortings(f)' = Sortings(f)
  BY <1>1 DEF From, Later, Over, Sortings, Fates, thread
<1>4. Clocks'
  BY <1>1, <1>2 DEF TypeOK, Clocks, thread
<1>5. Unbuilt' /\ Remembered' /\ OneFate' /\ Waiting'
  BY <1>1, <1>3 DEF TypeOK, Unbuilt, Remembered, OneFate, Waiting, thread
<1>6. InSync'
  BY <1>1, <1>3
  DEF InSync, Change, Ring, RequestShutdown, RingShutdown, Tick, SetBack, vars,
      thread
<1> QED
  BY <1>4, <1>5, <1>6

\* A hook that ran counts for its firing what being due did.
LEMMA FireStep ==
  ASSUME IInv, Fire
  PROVE  Clocks' /\ Unbuilt' /\ Remembered' /\ OneFate' /\ Waiting' /\ InSync'
<1> USE DEF IInv
<1>1. PICK f \in due : due' = due \ {f} /\ fires' = [fires EXCEPT ![f] = @ + 1]
  BY DEF Fire
<1>2. \A g \in Firing : Sortings(g)' = Sortings(g)
  <2> TAKE g \in Firing
  <2>1. f \in Firing /\ fires'[g] = (IF g = f THEN fires[g] + 1 ELSE fires[g])
    BY <1>1 DEF TypeOK
  <2>2. (g \in due') = (g \in due /\ g # f) /\ late' = late
    BY <1>1 DEF Fire
  <2> QED
    BY <1>1, <2>1, <2>2, CountsNat DEF Sortings, Fates
<1>3. From(builtAt)' = From(builtAt) /\ \A g : Over(g)' = Over(g)
  BY DEF Fire, From, Later, Over
<1>4. Clocks' /\ Waiting' /\ InSync'
  BY <1>3 DEF Fire, setting, Clocks, Waiting, InSync
<1>5. Unbuilt' /\ Remembered'
  BY <1>2, <1>3 DEF Fire, setting, Unbuilt, Remembered, TypeOK
<1>6. OneFate'
  BY <1>2 DEF Fire, OneFate
<1> QED
  BY <1>4, <1>5, <1>6

\* A queued firing is neither in `fired` nor before the window: it was sorted out
\* no oftener than the clock had been set back when the queue was built.
LEMMA QueuedIsFresh ==
  ASSUME IInv, NEW f \in queue
  PROVE  /\ f \in Firing /\ f.trigger \in Nat /\ f.trigger >= started
         /\ Sortings(f) <= builtIn
         /\ builtAt \in Nat /\ builtAt # None
<1>1. f \in Firing /\ f.trigger \in Nat
  BY TriggerNat DEF IInv, TypeOK
<1>2. builtAt # None /\ builtAt \in Nat
  BY DEF IInv, Unbuilt, TypeOK
<1>3. From(builtAt) \in Int /\ From(builtAt) >= started
  BY <1>2, FromBounds DEF IInv
<1>4. f.trigger >= started /\ ~Over(f)
  BY <1>1, <1>2, <1>3 DEF IInv, Remembered, Over, TypeOK
<1> QED
  BY <1>1, <1>2, <1>4, CountsNat DEF IInv, Remembered, TypeOK

\* What a pass sorts out, `found`, counts once more, and nothing else does.
LEMMA SortedCounts ==
  ASSUME TypeOK, due = {}, NEW found \in SUBSET Firing, Sorted(found),
         UNCHANGED fires
  PROVE  /\ \A f \in Firing \ found : Sortings(f)' = Sortings(f)
         /\ \A f \in found : Sortings(f)' > 0 /\ Sortings(f)' <= Sortings(f) + 1
<1>1. /\ due' \subseteq found /\ found \subseteq due' \cup late'
      /\ late' \subseteq late \cup found /\ late \subseteq late'
      /\ due' \cap late' \subseteq late
  BY DEF Sorted, InGrace
<1>2. ASSUME NEW f \in Firing \ found
      PROVE  Sortings(f)' = Sortings(f)
  BY <1>1, <1>2 DEF Sortings, Fates
<1>3. ASSUME NEW f \in found
      PROVE  Sortings(f)' > 0 /\ Sortings(f)' <= Sortings(f) + 1
  BY <1>1, <1>3, CountsNat DEF Sortings, Fates
<1> QED
  BY <1>2, <1>3

LEMMA PassKeepStep ==
  ASSUME IInv, PassKeep
  PROVE  Clocks' /\ Unbuilt' /\ Remembered' /\ OneFate' /\ Waiting' /\ InSync'
<1> DEFINE found == DueOf(queue, at)
<1> USE DEF IInv
<1>1. /\ builtAt \in Nat /\ builtAt # None /\ builtAt' = builtAt
      /\ at - builtAt < HORIZON \div 2 /\ at' = at /\ at \in Nat
      /\ builtIn' = builtIn /\ builtIn \in Nat /\ started' = started
  BY ConstantsAssumption DEF PassKeep, Stale, TypeOK, setting
<1>2. /\ found \subseteq Firing /\ found \subseteq queue
      /\ \A f \in found : Sortings(f) <= builtIn /\ f.trigger >= started
  BY QueuedIsFresh DEF DueOf
<1>3. From(builtAt)' = From(builtAt) /\ From(builtAt) \in Int
  BY <1>1, FromBounds DEF From, Later
<1>4. /\ \A f \in Firing \ found : Sortings(f)' = Sortings(f)
      /\ \A f \in found : Sortings(f)' > 0 /\ Sortings(f)' <= Sortings(f) + 1
  <2>1. due = {} /\ Sorted(found) /\ UNCHANGED fires /\ TypeOK
    BY DEF PassKeep, OneFate
  <2> HIDE DEF found
  <2> QED
    BY <1>2, <2>1, SortedCounts
<1>5. \A f \in Firing : Sortings(f) \in Nat /\ Sortings(f)' \in Nat
  <2>1. TypeOK'
    BY TypeStep DEF Next, Thread
  <2> QED
    BY <2>1, CountsNat DEF TypeOK, Sortings, Fates
<1>6. Clocks'
  BY <1>1 DEF PassKeep, Clocks, TypeOK, setting
<1>7. Unbuilt'
  BY <1>1 DEF Unbuilt
<1>8. Remembered'
  <2>1. ASSUME NEW f \in Firing
        PROVE  Sortings(f)' <= builtIn + (IF Over(f)' THEN 1 ELSE 0)
    <3>1. CASE f \in found
      BY <1>1, <1>2, <1>4, <1>5, <3>1 DEF PassKeep, Over
    <3>2. CASE f \notin found
      <4>1. Over(f) => Over(f)'
        BY <1>3 DEF PassKeep, Over
      <4> QED
        BY <1>1, <1>4, <1>5, <3>2, <4>1 DEF Remembered
    <3> QED
      BY <3>1, <3>2
  <2>2. \A f \in fired' : Sortings(f)' > 0
    BY <1>1, <1>4 DEF Remembered, PassKeep, TypeOK
  <2>3. \A f \in queue' : f \in queue /\ f \notin found
    BY <1>1, <1>2, TriggerNat DEF PassKeep, RestOf, DueOf, TypeOK
  <2>4. \A f \in queue' : f \notin fired'
    BY <1>1, <2>3 DEF PassKeep, Remembered
  <2> QED
    BY <1>1, <1>3, <2>1, <2>2, <2>3, <2>4 DEF Remembered
<1>9. OneFate'
  BY <1>1, <1>2, <1>4 DEF OneFate, PassKeep
<1>10. Waiting'
  <2>1. \A w \in Wanted(queue', builtAt) : wake' <= w
    BY <1>1 DEF PassKeep, AskWake
  <2>2. wake' <= builtAt + HORIZON \div 2 /\ \A f \in queue' : wake' <= f.trigger
    BY <2>1 DEF Wanted
  <2>3. \A f \in queue' : at < f.trigger
    BY TriggerNat DEF PassKeep, RestOf, TypeOK
  <2>4. at < builtAt + HORIZON \div 2
    BY <1>1, ConstantsAssumption
  <2> QED
    BY <1>1, <2>2, <2>3, <2>4 DEF Waiting
<1>11. InSync'
  <2>1. queue' \cup fired' = queue \cup fired
    BY <1>1, <1>2, TriggerNat DEF PassKeep, RestOf, DueOf, TypeOK
  <2> QED
    BY <1>1, <1>3, <2>1 DEF InSync, PassKeep
<1> QED
  BY <1>6, <1>7, <1>8, <1>9, <1>10, <1>11

\* What a rebuild queues may be sorted out again: had it been once more than the
\* clock had been set back, it would be retained, or before the previous window,
\* and so before this one when the clock was not set back in between.
LEMMA RebuiltIsFresh ==
  ASSUME IInv, pc = "pass", NEW f \in Rebuilt
  PROVE  /\ f \in Firing /\ f \in book /\ f \notin Retained
         /\ Sortings(f) <= readIn
         /\ f.trigger \in Nat /\ f.trigger >= started
         /\ From(at) <= f.trigger /\ f.trigger < at + HORIZON
<1> USE DEF IInv
<1>1. f \in Firing /\ f \in book /\ f.trigger \in Nat
      /\ From(at) <= f.trigger /\ f.trigger < at + HORIZON /\ f \notin Retained
  BY TriggerNat DEF Rebuilt, Firings, TypeOK
<1>2. From(at) \in Int /\ From(at) >= started /\ started \in Nat
  BY FromBounds DEF TypeOK
<1>3. Sortings(f) <= readIn
  <2>1. Sortings(f) \in Nat /\ readIn \in Nat /\ builtIn \in Nat /\ builtIn <= readIn
    BY <1>1, CountsNat DEF TypeOK
  <2>2. CASE builtAt = None
    BY <1>1, <2>1, <2>2 DEF Unbuilt
  <2>3. CASE builtAt # None /\ builtIn # readIn
    BY <1>1, <2>1, <2>3 DEF Remembered
  <2>4. CASE builtAt # None /\ builtIn = readIn
    <3>1. From(builtAt) \in Int /\ From(builtAt) <= From(at)
      BY <2>4, FromBounds, FromMonotone DEF Clocks, TypeOK
    <3>2. ~Over(f)
      BY <1>1, <1>2, <3>1 DEF Retained, Over
    <3> QED
      BY <1>1, <2>1, <2>4, <3>2 DEF Remembered
  <2> QED
    BY <2>2, <2>3, <2>4
<1> QED
  BY <1>1, <1>2, <1>3

\* What a rebuild finds due, of the old queue and of the new one.
LEMMA FoundIsFresh ==
  ASSUME IInv, PassRebuild, NEW f \in OldDue \cup DueOf(Rebuilt, at)
  PROVE  /\ f \in Firing /\ Sortings(f) <= readIn
         /\ f.trigger \in Nat /\ f.trigger >= started
<1>1. Rebuilt \subseteq Firing
  BY DEF Rebuilt, Firings, IInv, TypeOK
<1>2. CASE f \in OldDue
  BY <1>2, QueuedIsFresh, CountsNat DEF OldDue, DueOf, IInv, TypeOK
<1>3. CASE f \in DueOf(Rebuilt, at)
  BY <1>3, RebuiltIsFresh DEF DueOf, PassRebuild
<1> QED
  BY <1>2, <1>3

LEMMA PassRebuildStep ==
  ASSUME IInv, PassRebuild
  PROVE  Clocks' /\ Unbuilt' /\ Remembered' /\ OneFate' /\ Waiting' /\ InSync'
<1> DEFINE found == OldDue \cup DueOf(Rebuilt, at)
<1> USE DEF IInv
<1>1. /\ builtAt' = at /\ at' = at /\ at \in Nat /\ at # None
      /\ builtIn' = readIn /\ readIn \in Nat /\ builtIn \in Nat /\ builtIn <= readIn
      /\ started \in Nat /\ started' = started
  BY ConstantsAssumption DEF PassRebuild, TypeOK
<1>2. /\ found \subseteq Firing
      /\ \A f \in found : Sortings(f) <= readIn /\ f.trigger >= started
  BY FoundIsFresh
<1>3. From(builtAt)' = From(at) /\ From(at) \in Int
  BY <1>1, FromBounds DEF From, Later
<1>4. /\ \A f \in Firing \ found : Sortings(f)' = Sortings(f)
      /\ \A f \in found : Sortings(f)' > 0 /\ Sortings(f)' <= Sortings(f) + 1
  <2>1. due = {} /\ Sorted(found) /\ UNCHANGED fires /\ TypeOK
    BY DEF PassRebuild, OneFate
  <2> HIDE DEF found
  <2> QED
    BY <1>2, <2>1, SortedCounts
<1>5. \A f \in Firing : Sortings(f) \in Nat /\ Sortings(f)' \in Nat
  <2>1. TypeOK'
    BY TypeStep DEF Next, Thread
  <2> QED
    BY <2>1, CountsNat DEF TypeOK, Sortings, Fates
<1>6. Clocks'
  BY <1>1 DEF PassRebuild, Clocks, TypeOK
<1>7. Unbuilt'
  BY <1>1 DEF Unbuilt
<1>8. Remembered'
  <2>1. ASSUME NEW f \in Firing
        PROVE  Sortings(f)' <= readIn + (IF Over(f)' THEN 1 ELSE 0)
    <3>1. f.trigger \in Nat
      BY TriggerNat
    <3>2. CASE f \in found
      <4>1. Over(f)'
        <5>1. f \in Retained \/ f.trigger < From(at) \/ f \in DueOf(Rebuilt, at)
          BY <1>3, <3>1, <3>2 DEF Retained
        <5> QED
          BY <1>3, <5>1 DEF PassRebuild, Over
      <4> QED
        BY <1>1, <1>2, <1>4, <1>5, <3>2, <4>1
    <3>3. CASE f \notin found /\ builtAt = None
      BY <1>1, <1>4, <3>3 DEF Unbuilt
    <3>4. CASE f \notin found /\ builtAt # None /\ builtIn # readIn
      <4>1. Sortings(f) <= builtIn + 1
        BY <1>1, <1>5, <3>4 DEF Remembered
      <4> QED
        BY <1>1, <1>4, <1>5, <3>4, <4>1
    <3>5. CASE f \notin found /\ builtAt # None /\ builtIn = readIn
      <4>1. From(builtAt) \in Int /\ From(builtAt) <= From(at)
        BY <3>5, FromBounds, FromMonotone DEF Clocks, TypeOK
      <4>2. Over(f) => Over(f)'
        BY <1>3, <3>1, <4>1 DEF PassRebuild, Retained, Over
      <4> QED
        BY <1>1, <1>4, <1>5, <3>5, <4>2 DEF Remembered
    <3> QED
      BY <3>2, <3>3, <3>4, <3>5
  <2>2. ASSUME NEW f \in fired'
        PROVE  Sortings(f)' > 0
    <3>1. f \in fired \/ f \in found
      BY <2>2 DEF PassRebuild, Retained
    <3>2. f \in fired => f \in Firing /\ Sortings(f) > 0
      BY DEF Remembered, Unbuilt, TypeOK
    <3> QED
      BY <1>4, <3>1, <3>2
  <2>3. ASSUME NEW f \in queue'
        PROVE  f \notin fired' /\ From(at) <= f.trigger /\ f.trigger < at + HORIZON
    <3>1. f \in Rebuilt /\ f.trigger > at
      BY <2>3 DEF PassRebuild, RestOf
    <3>2. f \notin Retained
      BY <3>1 DEF Rebuilt
    <3>3. f \notin DueOf(Rebuilt, at)
      BY <3>1, RebuiltIsFresh, <1>1 DEF DueOf, PassRebuild
    <3> QED
      BY <3>1, <3>2, <3>3, RebuiltIsFresh DEF PassRebuild
  <2> QED
    BY <1>1, <1>3, <2>1, <2>2, <2>3 DEF Remembered
<1>9. OneFate'
  BY <1>1, <1>2, <1>4 DEF OneFate, PassRebuild
<1>10. Waiting'
  <2>1. \A w \in Wanted(queue', at) : wake' <= w
    BY <1>1 DEF PassRebuild, AskWake
  <2>2. wake' <= at + HORIZON \div 2 /\ \A f \in queue' : wake' <= f.trigger
    BY <2>1 DEF Wanted
  <2>3. \A f \in queue' : at < f.trigger
    BY <1>1, RebuiltIsFresh DEF PassRebuild, RestOf
  <2> QED
    BY <1>1, <2>2, <2>3 DEF Waiting
<1>11. InSync'
  <2>1. ASSUME NEW f \in book, From(at) <= f.trigger, f.trigger < at + HORIZON
        PROVE  f \in queue' \/ f \in fired'
    <3>1. f \in Firing /\ f.trigger \in Nat
      BY TriggerNat DEF TypeOK
    <3>2. f \in Retained \/ f \in Rebuilt
      BY <2>1 DEF Rebuilt, Firings
    <3> QED
      BY <1>1, <3>1, <3>2 DEF PassRebuild, RestOf, DueOf
  <2> QED
    BY <1>1, <1>3, <2>1 DEF InSync, PassRebuild
<1> QED
  BY <1>6, <1>7, <1>8, <1>9, <1>10, <1>11

LEMMA InvariantStep == IInv /\ [Next]_vars => IInv'
<1> SUFFICES ASSUME IInv, [Next]_vars
             PROVE  IInv'
  OBVIOUS
<1>1. TypeOK'
  BY TypeStep DEF IInv
<1> QED
  BY <1>1, QuietStep, OtherStep, FireStep, PassKeepStep, PassRebuildStep
  DEF IInv, Next, Thread, Others

THEOREM Invariant == Spec => []IInv
<1>1. Init => IInv
  <2> SUFFICES ASSUME Init PROVE IInv
    OBVIOUS
  <2>1. fires \in [Firing -> Nat] /\ \A f \in Firing : fires[f] = 0
    BY DEF Init
  <2>2. TypeOK
    BY InitTyped
  <2>3. \A f \in Firing : Sortings(f) = 0
    BY <2>1 DEF Init, Sortings, Fates
  <2>4. Clocks /\ Unbuilt /\ Remembered /\ OneFate /\ Waiting /\ InSync
    BY <2>3 DEF Init, Clocks, Unbuilt, Remembered, OneFate, Waiting, InSync
  <2> QED
    BY <2>2, <2>4 DEF IInv
<1> QED
  BY <1>1, InvariantStep, PTL DEF Spec

-----------------------------------------------------------------------------
(* The properties *)

\* No firing is sorted out once more than the clock was set back: `fired` outlives
\* every rebuild that could queue the firing again.
THEOREM FiresAtMostOnce == Spec => []NeverTwice
<1>1. IInv => NeverTwice
  <2> SUFFICES ASSUME IInv, NEW f \in Firing PROVE Fates(f) <= 1 + setBacks
    BY DEF NeverTwice
  <2>1. Fates(f) <= Sortings(f) /\ Fates(f) \in Nat /\ Sortings(f) \in Nat
    BY CountsNat DEF IInv, Sortings
  <2>2. Sortings(f) <= builtIn + 1
    BY <2>1 DEF IInv, Unbuilt, Remembered, TypeOK
  <2> QED
    BY <2>1, <2>2 DEF IInv, TypeOK
<1> QED
  BY <1>1, Invariant, PTL

\* Nothing older than the watch fires or is named as dropped.
THEOREM FiresNothingBeforeStart == Spec => []NothingBeforeStart
<1>1. IInv => NothingBeforeStart
  <2> SUFFICES ASSUME IInv, NEW f \in Firing, fires[f] > 0 \/ f \in late
               PROVE  f.trigger >= started
    BY DEF NothingBeforeStart
  <2>1. Sortings(f) > 0
    BY CountsNat DEF IInv, Sortings, Fates
  <2> QED
    BY <2>1 DEF IInv, OneFate
<1> QED
  BY <1>1, Invariant, PTL

\* The thread never sleeps past a firing the book holds, unless a ring is on its
\* way, or one failed or the clock was set back since the last rebuild.
THEOREM NeverSleepsPast == Spec => []SleepsPastNoFiring
<1>1. IInv => SleepsPastNoFiring
  <2> SUFFICES ASSUME IInv, pc = "wait", ~latch, ~ringing, ~unheard, builtIn = setBacks,
                      NEW f \in book, f.trigger >= From(at)
               PROVE  (f.trigger > at /\ wake <= f.trigger) \/ Fates(f) > 0
    BY DEF SleepsPastNoFiring, OutOfStep
  <2> USE DEF IInv
  <2>1. /\ f \in Firing /\ f.trigger \in Nat /\ at \in Nat /\ wake \in Nat
        /\ builtAt \in Nat /\ builtAt # None /\ builtAt <= at
    BY TriggerNat DEF TypeOK, Clocks
  <2>2. /\ From(builtAt) \in Int /\ From(at) \in Int /\ From(builtAt) <= From(at)
    BY <2>1, FromBounds, FromMonotone
  <2>3. HORIZON \in Nat /\ HORIZON \div 2 \in Nat /\ HORIZON \div 2 < HORIZON
    BY ConstantsAssumption
  <2>4. /\ at = builtAt \/ at < builtAt + HORIZON \div 2
        /\ wake <= builtAt + HORIZON \div 2
        /\ \A g \in queue : at < g.trigger /\ wake <= g.trigger
    BY DEF Waiting
  <2>5. f.trigger < builtAt + HORIZON => f \in queue \/ f \in fired
    BY <2>1, <2>2 DEF InSync
  <2>6. f \in fired => Fates(f) > 0
    BY <2>1 DEF Remembered, OneFate, Sortings, TypeOK, Fates
  <2> QED
    BY <2>1, <2>3, <2>4, <2>5, <2>6
<1> QED
  BY <1>1, Invariant, PTL

\* What a rebuild leaves out of the old queue came due or left the book, unless
\* the clock was set back since that queue was built.
LEMMA RebuildKeeps ==
  ASSUME IInv, PassRebuild, ~OutOfStep, NEW f \in queue, f \in book
  PROVE  f \in queue' \/ f \in due' \/ f \in late'
<1> USE DEF IInv
<1>1. f \in OldDue => f \in due' \/ f \in late'
  BY DEF PassRebuild, Sorted, InGrace
<1>2. CASE f \notin OldDue
  <2>1. /\ f.trigger \in Nat /\ at \in Nat /\ f.trigger > at
        /\ builtAt \in Nat /\ builtAt # None /\ f.trigger >= started
    BY <1>2, QueuedIsFresh DEF OldDue, DueOf, TypeOK
  <2>2. builtAt <= at /\ f \notin fired /\ f.trigger < builtAt + HORIZON
    BY <2>1 DEF Clocks, Remembered, OutOfStep, TypeOK
  <2>3. From(at) <= f.trigger
    BY <2>1, ConstantsAssumption DEF From, Later, TypeOK
  <2>4. f \in Rebuilt
    BY <1>2, <2>1, <2>2, <2>3, ConstantsAssumption
    DEF Rebuilt, Firings, Retained
  <2> QED
    BY <2>1, <2>4 DEF PassRebuild, RestOf
<1> QED
  BY <1>1, <1>2

-----------------------------------------------------------------------------
(* The thread implements Firings *)

\* A pass that keeps the queue goes through it as Firings allows.
LEMMA KeepSorts ==
  ASSUME IInv, PassKeep
  PROVE  Promise!Sort
<1> USE DEF IInv
<1>1. \A f \in queue : /\ f \in Firing /\ f.trigger \in Nat
                       /\ Sortings(f) <= builtIn
  BY QueuedIsFresh
<1>2. at \in Nat /\ now \in Nat /\ builtIn \in Nat /\ readIn \in Nat
      /\ setBacks \in Nat /\ builtIn <= readIn /\ readIn <= setBacks
  BY DEF TypeOK
<1>3. due = {} /\ UNCHANGED <<now, book, fires, setBacks, builtIn>>
  BY DEF PassKeep, OneFate, setting
<1>4. ~OutOfStep => at <= now
  BY <1>2 DEF OutOfStep, Clocks
<1>5. queue' \cup due' \cup (late' \ late) \subseteq queue
  BY DEF PassKeep, Sorted, RestOf, InGrace, DueOf
<1>6. queue \subseteq queue' \cup due' \cup late' /\ late \subseteq late'
  BY <1>1, <1>2 DEF PassKeep, Sorted, RestOf, InGrace, DueOf
<1>7. /\ queue' \cap due' = {} /\ (late' \ late) \cap due' = {}
      /\ \A f \in due' : f.trigger <= at
      /\ \A f \in late' \ late : f.trigger < at - GRACE
  BY <1>1, <1>2, ConstantsAssumption DEF PassKeep, Sorted, RestOf, InGrace, DueOf
<1>8. \A f \in queue : Promise!Owing(f)
  BY <1>1, <1>2, <1>3, CountsNat DEF Promise!Owing, Promise!Ends, Fates, Sortings
<1>9. ~OutOfStep => /\ \A f \in due' : f.trigger <= now
                    /\ \A f \in late' \ late : f.trigger < now - GRACE
  <2> SUFFICES ASSUME ~OutOfStep PROVE /\ \A f \in due' : f.trigger <= now
                                       /\ \A f \in late' \ late : f.trigger < now - GRACE
    OBVIOUS
  <2>1. at <= now /\ GRACE \in Nat
    BY <1>4, ConstantsAssumption
  <2>2. \A f \in due' : f.trigger \in Nat /\ f.trigger <= at
    BY <1>1, <1>5, <1>7
  <2>3. ASSUME NEW f \in late' \ late
        PROVE  f.trigger \in Nat /\ f.trigger < at - GRACE
    <3>1. f \in queue
      BY <1>5
    <3>2. f.trigger < at - GRACE
      BY <1>7, Zenon
    <3> QED
      BY <1>1, <3>1, <3>2
  <2>4. \A f \in due' : f.trigger <= now
    BY <1>2, <2>1, <2>2
  <2>5. \A f \in late' \ late : f.trigger < now - GRACE
    BY <1>2, <2>1, <2>3
  <2> QED
    BY <2>4, <2>5
<1>10. OutOfStep' \in {FALSE, OutOfStep}
  BY <1>3 DEF OutOfStep
<1> QED
  BY <1>3, <1>5, <1>6, <1>7, <1>8, <1>9, <1>10 DEF Promise!Sort

\* So does a rebuild.
LEMMA RebuildSorts ==
  ASSUME IInv, PassRebuild
  PROVE  Promise!Sort
<1> DEFINE found == OldDue \cup DueOf(Rebuilt, at)
<1> USE DEF IInv
<1>1. at \in Nat /\ now \in Nat /\ builtIn \in Nat /\ readIn \in Nat
      /\ setBacks \in Nat /\ builtIn <= readIn /\ readIn <= setBacks
      /\ GRACE \in Nat
  BY ConstantsAssumption DEF TypeOK
<1>2. /\ due = {} /\ builtIn' = readIn
      /\ UNCHANGED <<now, book, fires, setBacks, readIn>>
  BY DEF PassRebuild, OneFate
<1>3. \A f \in Rebuilt : /\ f \in Firing /\ f.trigger \in Nat /\ f \in book
                         /\ Sortings(f) <= readIn /\ f.trigger >= at - GRACE
  <2>1. From(at) \in Int /\ From(at) >= at - GRACE
    BY <1>1, FromBounds
  <2> QED
    BY <1>1, <2>1, RebuiltIsFresh DEF PassRebuild
<1>4. \A f \in found : f \in Firing /\ f.trigger \in Nat /\ Sortings(f) <= readIn
  BY FoundIsFresh
<1>5. /\ queue' \subseteq Rebuilt /\ \A f \in queue' : f.trigger > at
      /\ due' \subseteq found /\ late \subseteq late'
  BY DEF PassRebuild, Sorted, RestOf, InGrace
<1>6. \A f \in found : f.trigger <= at
  BY DEF OldDue, DueOf
<1>7. late' \ late \subseteq queue \ due' /\ \A f \in late' \ late : f.trigger < at - GRACE
  <2>1. \A f \in late' \ late : f \in found /\ f \notin due' /\ ~(at - f.trigger <= GRACE)
    BY DEF PassRebuild, Sorted, InGrace
  <2>2. \A f \in late' \ late : f.trigger < at - GRACE
    BY <1>1, <1>4, <2>1
  <2>3. \A f \in DueOf(Rebuilt, at) : ~(f.trigger < at - GRACE)
    BY <1>1, <1>3 DEF DueOf
  <2> QED
    BY <2>1, <2>2, <2>3 DEF OldDue, DueOf
<1>8. queue' \cup due' \subseteq queue \cup book /\ queue' \cap due' = {}
  <2>1. found \subseteq queue \cup book
    BY <1>3 DEF OldDue, DueOf
  <2>2. \A f \in queue' : f \notin found
    BY <1>1, <1>3, <1>5, <1>6
  <2> QED
    BY <1>3, <1>5, <2>1, <2>2
<1>9. \A f \in queue' \cup due' \cup (late' \ late) : Promise!Owing(f)
  <2> SUFFICES ASSUME NEW f \in queue' \cup due' \cup (late' \ late)
               PROVE  Promise!Owing(f)
    OBVIOUS
  <2>1. f \in Firing /\ Sortings(f) <= readIn
    <3>1. f \in Rebuilt \/ f \in found \/ f \in queue
      BY <1>5, <1>7
    <3>2. f \in queue => f \in Firing /\ Sortings(f) <= readIn
      BY <1>1, QueuedIsFresh, CountsNat
    <3> QED
      BY <1>3, <1>4, <3>1, <3>2
  <2>2. Fates(f) <= readIn
    BY <1>1, <2>1, CountsNat DEF Sortings
  <2> QED
    BY <1>1, <2>1, <2>2, CountsNat DEF Promise!Owing, Promise!Ends, Fates
<1>10. ASSUME ~OutOfStep
       PROVE  /\ \A f \in due' : f.trigger <= now
              /\ \A f \in late' \ late : f.trigger < now - GRACE
              /\ queue \cap book \subseteq queue' \cup due' \cup late'
  <2>1. at <= now
    BY <1>1, <1>10 DEF OutOfStep, Clocks
  <2>2. \A f \in due' : f.trigger <= at /\ f.trigger \in Nat
    BY <1>4, <1>5, <1>6
  <2>3. \A f \in late' \ late : f.trigger \in Nat /\ f.trigger < at - GRACE
    BY <1>7, QueuedIsFresh
  <2>4. \A f \in due' : f.trigger <= now
    BY <1>1, <2>1, <2>2
  <2>5. \A f \in late' \ late : f.trigger < now - GRACE
    BY <1>1, <2>1, <2>3
  <2>6. queue \cap book \subseteq queue' \cup due' \cup late'
    BY <1>10, RebuildKeeps
  <2> QED
    BY <2>4, <2>5, <2>6
<1>11. OutOfStep' \in {FALSE, OutOfStep}
  <2>1. builtIn = setBacks => readIn = setBacks
    BY <1>1
  <2>2. OutOfStep' <=> readIn # setBacks
    BY <1>2 DEF OutOfStep
  <2>3. OutOfStep <=> builtIn # setBacks
    BY DEF OutOfStep
  <2>4. OutOfStep' \in BOOLEAN /\ OutOfStep \in BOOLEAN
    BY DEF OutOfStep
  <2> QED
    BY <2>1, <2>2, <2>3, <2>4
<1> QED
  BY <1>2, <1>5, <1>7, <1>8, <1>9, <1>10, <1>11 DEF Promise!Sort

\* Every step of the thread, of the watch, of Ctrl+C and of the clock is a step of
\* what the alarms promise, or changes nothing of it.
LEMMA StepKeepsPromise ==
  ASSUME IInv, [Next]_vars
  PROVE  [Promise!Next]_(Promise!vars)
<1> USE DEF Promise!vars, OutOfStep
<1>1. CASE PassKeep
  BY <1>1, KeepSorts DEF Promise!Next
<1>2. CASE PassRebuild
  BY <1>2, RebuildSorts DEF Promise!Next
<1>3. CASE Fire
  <2>1. Promise!Fire
    BY <1>3 DEF Fire, Promise!Fire, setting
  <2> QED
    BY <2>1 DEF Promise!Next
<1>4. CASE Change
  <2>1. Promise!Change
    BY <1>4 DEF Change, Promise!Change, thread, history, setting
  <2> QED
    BY <2>1 DEF Promise!Next
<1>5. CASE Tick
  <2>1. now' > now
    BY <1>5, ConstantsAssumption DEF Tick, IInv, TypeOK
  <2>2. Promise!Advance
    BY <1>5, <2>1 DEF Tick, Promise!Advance, thread, setting
  <2> QED
    BY <2>2 DEF Promise!Next
<1>6. CASE SetBack
  <2>1. now' < now /\ OutOfStep' = TRUE
    BY <1>6, ConstantsAssumption DEF SetBack, IInv, TypeOK
  <2>2. Promise!Retreat
    BY <1>6, <2>1 DEF SetBack, Promise!Retreat, thread
  <2> QED
    BY <2>2 DEF Promise!Next
<1>7. CASE Start \/ Check \/ Sleep \/ Reached \/ Woken \/ WaitFails
  BY <1>7 DEF Start, Check, Sleep, Reached, Woken, WaitFails, history, setting
<1>8. CASE Ring \/ RequestShutdown \/ RingShutdown \/ UNCHANGED vars
  BY <1>8 DEF Ring, RequestShutdown, RingShutdown, vars, thread, history, setting
<1> QED
  BY <1>1, <1>2, <1>3, <1>4, <1>5, <1>6, <1>7, <1>8 DEF Next, Thread, Others

\* The alarm thread keeps what the alarms promise.
THEOREM KeepsThePromise == Spec => KeepsPromise
<1>1. Init => Promise!Init
  BY DEF Init, Promise!Init, OutOfStep
<1> QED
  BY <1>1, Invariant, StepKeepsPromise, PTL DEF Spec, KeepsPromise, Promise!Spec

=============================================================================
