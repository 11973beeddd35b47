--------------------------- MODULE JmapWatch_proofs ---------------------------
(***************************************************************************)
(* The picture a JMAP watch holds follows its collection, for every        *)
(* collection and every keyword: whichever request fails, and whatever is  *)
(* written between the two requests of a round.                            *)
(***************************************************************************)
EXTENDS JmapWatch, TLAPS

RevOK ==
  /\ rev \in Nat /\ rev >= 1
  /\ server \in [Members -> Nat] /\ lastmod \in [Members -> Nat]
  /\ \A m \in Members : server[m] <= rev /\ lastmod[m] <= rev

ViewOK ==
  /\ mail \in BOOLEAN
  /\ content \in [Members -> Contents] /\ known \in [Members -> Contents]
  /\ \A m \in Members \ Held : content[m] = Outside

\* The baseline has read every item that nobody wrote since.
BaselineRead == pc = "state" => \A m \in Members \ missed : known[m] = content[m]

\* The state names no write to come, and the round under way goes past it.
Behind ==
  /\ Settled => state \in Nat /\ state <= rev
  /\ pc = "fetch" => target \in Nat /\ state < target /\ target <= rev

\* An item the changes name was written since the state; one written up to the
\* target, and not since, is named as it still stands.
Named ==
  pc = "fetch" =>
    /\ destroyed \cap touched = {}
    /\ destroyed \cup touched \subseteq Members
    /\ \A m \in destroyed \cup touched : lastmod[m] > state
    /\ \A m \in destroyed : lastmod[m] <= target => m \notin Held
    /\ \A m \in Members : state < lastmod[m] /\ lastmod[m] <= target =>
         m \in (IF m \in Held THEN touched ELSE destroyed)

Inv == RevOK /\ ViewOK /\ BaselineRead /\ Behind /\ Named /\ KnownIsCurrent

LEMMA Initially == Init => Inv
<1> SUFFICES ASSUME Init PROVE Inv
  OBVIOUS
<1>1. RevOK
  BY DEF Init, CollectionInit, RevOK, Absent
<1>2. ViewOK
  BY DEF Init, ViewOK, Contents, Nothing
<1>3. pc = "down" /\ ~Settled
  BY DEF Init, Settled
<1> QED
  BY <1>1, <1>2, <1>3 DEF Inv, BaselineRead, Behind, Named, KnownIsCurrent

\* A round that ends holds, of every item not written since, what it is: the items
\* the changes leave out stand as they stood, and the others were read.
LEMMA RoundKeepsThePicture ==
  ASSUME Inv, Settled, NEW to \in Nat, NEW gone, NEW read,
         state < to, to <= rev,
         gone \subseteq Members, read \subseteq Held, gone \cap read = {},
         \A m \in gone \cup read : lastmod[m] > state,
         \A m \in gone : lastmod[m] <= to => m \notin Held,
         \A m \in Members : state < lastmod[m] /\ lastmod[m] <= to =>
           m \in (IF m \in Held THEN read ELSE gone),
         Applies(to, gone, read), pc' = "idle",
         UNCHANGED <<srv, config, content>>
  PROVE  Inv'
<1>1. RevOK'
  BY DEF Inv, RevOK, srv
<1>2. Held' = Held /\ Contents' = Contents
  BY DEF srv, config, Held, Contents
<1>3. ViewOK'
  <2>1. known' \in [Members -> Contents]
    BY DEF Inv, ViewOK, Applies, Contents
  <2> QED
    BY <1>2, <2>1 DEF Inv, ViewOK, config
<1>4. KnownIsCurrent'
  <2> SUFFICES ASSUME NEW m \in Members, m \notin missed', lastmod[m] <= to
               PROVE  known'[m] = content[m]
    BY DEF KnownIsCurrent, Applies, srv
  <2>1. CASE m \in gone
    <3>1. known'[m] = Outside
      BY <2>1 DEF Applies
    <3>2. content[m] = Outside
      BY <2>1 DEF Inv, ViewOK
    <3> QED
      BY <3>1, <3>2
  <2>2. CASE m \in read
    <3>1. m \notin gone
      BY <2>2
    <3> QED
      BY <2>2, <3>1 DEF Applies
  <2>3. CASE m \notin gone \cup read
    <3>1. known'[m] = known[m] /\ m \notin missed
      BY <2>3 DEF Applies
    <3>2. ~(state < lastmod[m])
      BY <2>3
    <3>3. lastmod[m] <= state
      BY <3>2 DEF Inv, RevOK, Behind
    <3> QED
      BY <3>1, <3>3 DEF Inv, KnownIsCurrent
  <2> QED
    BY <2>1, <2>2, <2>3
<1>5. state' = to /\ rev' = rev
  BY DEF Applies, srv
<1> QED
  BY <1>1, <1>3, <1>4, <1>5 DEF Inv, BaselineRead, Behind, Named, Settled

\* A step that leaves the picture and the collection alone leaves what relates
\* them, wherever the watch goes next but into a round's second request.
LEMMA NothingMoves ==
  ASSUME Inv, UNCHANGED <<srv, config, content, known, missed>>,
         \/ pc' \in {"down", "baseline", "ended"}
         \/ Settled /\ pc' \in {"idle", "stream", "changes"} /\ state' = state
         \/ UNCHANGED <<pc, state, changes>>
  PROVE  Inv'
<1>1. /\ Held' = Held /\ Contents' = Contents
      /\ rev' = rev /\ server' = server /\ lastmod' = lastmod
  BY DEF srv, config, Held, Contents
<1>2. RevOK' /\ ViewOK'
  BY <1>1 DEF Inv, RevOK, ViewOK, config
<1>3. CASE pc' \in {"down", "baseline", "ended"}
  BY <1>2, <1>3 DEF Inv, BaselineRead, Behind, Named, KnownIsCurrent, Settled
<1>4. CASE Settled /\ pc' \in {"idle", "stream", "changes"} /\ state' = state
  BY <1>1, <1>2, <1>4 DEF Inv, BaselineRead, Behind, Named, KnownIsCurrent, Settled
<1>5. CASE UNCHANGED <<pc, state, changes>>
  BY <1>1, <1>2, <1>5
     DEF Inv, BaselineRead, Behind, Named, KnownIsCurrent, Settled, changes
<1> QED
  BY <1>3, <1>4, <1>5

\* A session that ends drops what it held.
LEMMA DroppedHoldsNothing ==
  ASSUME Inv, Dropped, UNCHANGED <<srv, config, content>>
  PROVE  Inv'
<1>1. Held' = Held /\ Contents' = Contents
  BY DEF srv, config, Held, Contents
<1>2. RevOK'
  BY DEF Inv, RevOK, srv
<1>3. ViewOK'
  BY <1>1 DEF Inv, ViewOK, Dropped, Contents, config
<1> QED
  BY <1>2, <1>3 DEF Inv, Dropped, BaselineRead, Behind, Named, KnownIsCurrent, Settled

\* Others write: the item they wrote is past every state and every target, and is
\* missed when the baseline has read it already.
LEMMA OthersKeep ==
  ASSUME Inv, Others
  PROVE  Inv'
<1> USE DEF config, changes, srv
<1>1. CASE Expire /\ UNCHANGED <<content, pushed, missed>>
  <2>1. Held' = Held /\ Contents' = Contents
    BY <1>1 DEF Others, Expire, Held, Contents
  <2> QED
    BY <1>1, <2>1
       DEF Others, Expire, Inv, RevOK, ViewOK, BaselineRead, Behind, Named,
           KnownIsCurrent, Settled
<1>2. ASSUME NEW m \in Members, NEW version \in Nat, NEW c \in Contents,
             Write(m, version), version = rev + 1 \/ (m \in Held /\ version = Absent),
             content' = [content EXCEPT ![m] = c],
             version = Absent => c = Outside,
             missed' = missed \cup {n \in Members : pc = "state" /\ server'[n] # server[n]}
      PROVE  Inv'
  <2>1. rev \in Nat /\ rev' = rev + 1 /\ Contents' = Contents
    BY <1>2 DEF Others, Write, Contents, Inv, RevOK
  <2>2. /\ server' = [server EXCEPT ![m] = version]
        /\ lastmod' = [lastmod EXCEPT ![m] = rev + 1]
    BY <1>2 DEF Write
  <2>3. server \in [Members -> Nat] /\ lastmod \in [Members -> Nat]
    BY DEF Inv, RevOK
  <2>4. /\ server'[m] = version /\ lastmod'[m] = rev + 1
        /\ version # server[m]
    <3>1. server[m] <= rev /\ server[m] \in Nat
      BY <2>3 DEF Inv, RevOK
    <3>2. m \in Held => server[m] # Absent
      BY DEF Held
    <3> QED
      BY <1>2, <2>1, <2>2, <2>3, <3>1, <3>2
  <2>5. \A n \in Members \ {m} :
          server'[n] = server[n] /\ lastmod'[n] = lastmod[n] /\ content'[n] = content[n]
    BY <1>2, <2>2, <2>3 DEF Inv, ViewOK
  <2>6. \A n \in Members \ {m} : n \in Held' <=> n \in Held
    BY <2>5 DEF Held
  <2>7. RevOK'
    BY <1>2, <2>1, <2>2, <2>3, <2>4, <2>5 DEF Inv, RevOK, Absent
  <2>8. ViewOK'
    <3>1. content' \in [Members -> Contents]
      BY <1>2 DEF Inv, ViewOK
    <3>2. content'[m] = c /\ (m \notin Held' => version = Absent)
      BY <1>2, <2>4 DEF Inv, ViewOK, Held
    <3>3. \A n \in Members \ Held' : content'[n] = Outside
      BY <1>2, <2>5, <2>6, <3>2 DEF Inv, ViewOK
    <3> QED
      BY <2>1, <3>1, <3>3 DEF Inv, ViewOK, Others
  <2>9. BaselineRead'
    <3>1. pc' = "state" => m \in missed'
      BY <1>2, <2>4 DEF Others
    <3> QED
      BY <1>2, <2>5, <3>1 DEF Inv, BaselineRead, Others
  <2>10. Behind'
    BY <2>1 DEF Inv, Behind, Settled, Others
  <2>11. Named'
    BY <2>1, <2>3, <2>4, <2>5, <2>6, <2>10 DEF Inv, Named, Behind, Settled, Others
  <2>12. KnownIsCurrent'
    BY <1>2, <2>1, <2>3, <2>4, <2>5, <2>10 DEF Inv, KnownIsCurrent, Behind, Settled, Others
  <2> QED
    BY <2>7, <2>8, <2>9, <2>10, <2>11, <2>12 DEF Inv
<1>3. Outside \in Contents /\ Absent \in Nat /\ rev + 1 \in Nat /\ rev + 1 # Absent
  BY DEF Contents, Absent, Inv, RevOK
<1>4. Held \subseteq Members
  BY DEF Held
<1> QED
  BY <1>1, <1>2, <1>3, <1>4 DEF Others

LEMMA Inductive == Inv /\ [Next]_vars => Inv'
<1> SUFFICES ASSUME Inv, [Next]_vars PROVE Inv'
  OBVIOUS
<1>1. CASE Open
  BY <1>1, NothingMoves DEF Open
<1>2. CASE Baseline
  <2>1. Held' = Held /\ Contents' = Contents
    BY <1>2 DEF Baseline, srv, config, Held, Contents
  <2> QED
    BY <1>2, <2>1
       DEF Baseline, srv, config, Inv, RevOK, ViewOK, BaselineRead, Behind, Named,
           KnownIsCurrent, Settled
<1>3. CASE ReadState
  <2>1. Held' = Held /\ Contents' = Contents
    BY <1>3 DEF ReadState, srv, config, Held, Contents
  <2> QED
    BY <1>3, <2>1
       DEF ReadState, srv, config, Inv, RevOK, ViewOK, BaselineRead, Behind, Named,
           KnownIsCurrent, Settled
<1>4. CASE Poll \/ Subscribe \/ News \/ StreamEnds \/ StreamStops
  BY <1>4, NothingMoves
     DEF Poll, Subscribe, News, StreamEnds, StreamStops, Settled
<1>5. CASE Unmoved \/ RunAgain
  BY <1>5, NothingMoves DEF Unmoved, RunAgain, InRound, RoundOver, Settled
<1>6. CASE Changes
  <2>1. PICK to \in state + 1 .. rev :
          /\ target' = to
          /\ destroyed' = Vanished(state, to) /\ touched' = Changed(state, to)
    BY <1>6 DEF Changes
  <2>2. /\ Held' = Held /\ Contents' = Contents
        /\ rev' = rev /\ server' = server /\ lastmod' = lastmod
    BY <1>6 DEF Changes, srv, config, Held, Contents
  <2>3. state \in Nat /\ rev \in Nat /\ lastmod \in [Members -> Nat]
    BY <1>6 DEF Changes, Inv, Behind, Settled, RevOK
  <2>4. pc = "changes" /\ pc' = "fetch" /\ UNCHANGED <<known, content, state, missed, mail>>
    BY <1>6 DEF Changes, config
  <2>5. Named'
    <3>1. \A m \in destroyed' :
            m \in Members /\ m \notin Held /\ lastmod[m] > state /\ lastmod[m] <= to
      BY <2>1, <2>3 DEF Vanished
    <3>2. \A m \in touched' :
            m \in Members /\ m \in Held /\ lastmod[m] > state /\ lastmod[m] <= to
      BY <2>1, <2>3 DEF Changed, Held
    <3>3. \A m \in Members : state < lastmod[m] /\ lastmod[m] <= to =>
            m \in (IF m \in Held THEN touched' ELSE destroyed')
      BY <2>1, <2>3 DEF Changed, Vanished
    <3> QED
      BY <2>1, <2>2, <2>4, <3>1, <3>2, <3>3 DEF Named
  <2> QED
    BY <2>1, <2>2, <2>3, <2>4, <2>5
       DEF Inv, RevOK, ViewOK, BaselineRead, Behind, KnownIsCurrent, Settled
<1>7. CASE ChangesAlone
  <2>1. PICK to \in state + 1 .. rev :
          Changed(state, to) = {} /\ Applies(to, Vanished(state, to), {})
    BY <1>7 DEF ChangesAlone
  <2>2. state \in Nat /\ rev \in Nat /\ lastmod \in [Members -> Nat] /\ Settled
    BY <1>7 DEF ChangesAlone, Inv, Behind, Settled, RevOK
  <2>3. to \in Nat /\ state < to /\ to <= rev
    BY <2>2
  <2>4. /\ Vanished(state, to) \subseteq Members
        /\ \A m \in Vanished(state, to) : lastmod[m] > state /\ m \notin Held
    BY <2>2 DEF Vanished
  <2>5. \A m \in Members : state < lastmod[m] /\ lastmod[m] <= to =>
          m \in (IF m \in Held THEN {} ELSE Vanished(state, to))
    BY <2>1, <2>2, <2>3 DEF Changed, Vanished
  <2>6. pc' = "idle" /\ UNCHANGED <<srv, config, content>>
    BY <1>7 DEF ChangesAlone, RoundOver
  <2> QED
    BY <2>1, <2>2, <2>3, <2>4, <2>5, <2>6, RoundKeepsThePicture
<1>8. CASE Fetch
  <2>1. /\ pc = "fetch" /\ pc' = "idle" /\ Settled
        /\ Applies(target, destroyed, touched \cap Held)
        /\ UNCHANGED <<srv, config, content>>
    BY <1>8 DEF Fetch, RoundOver, Settled
  <2>2. target \in Nat /\ state < target /\ target <= rev
    BY <2>1 DEF Inv, Behind
  <2>3. /\ destroyed \subseteq Members /\ destroyed \cap (touched \cap Held) = {}
        /\ \A m \in destroyed \cup (touched \cap Held) : lastmod[m] > state
        /\ \A m \in destroyed : lastmod[m] <= target => m \notin Held
        /\ \A m \in Members : state < lastmod[m] /\ lastmod[m] <= target =>
             m \in (IF m \in Held THEN touched \cap Held ELSE destroyed)
    BY <2>1 DEF Inv, Named
  <2> QED
    BY <2>1, <2>2, <2>3, RoundKeepsThePicture
<1>9. CASE Refused
  BY <1>9, NothingMoves, DroppedHoldsNothing DEF Refused
<1>10. CASE SessionEnds
  BY <1>10, DroppedHoldsNothing DEF SessionEnds
<1>11. CASE RequestShutdown
  BY <1>11, NothingMoves DEF RequestShutdown
<1>12. CASE Stop
  BY <1>12, NothingMoves DEF Stop
<1>13. CASE Others
  BY <1>13, OthersKeep
<1>14. CASE UNCHANGED vars
  BY <1>14, NothingMoves DEF vars
<1> QED
  BY <1>1, <1>2, <1>3, <1>4, <1>5, <1>6, <1>7, <1>8, <1>9, <1>10, <1>11, <1>12,
     <1>13, <1>14 DEF Next, Answered

THEOREM Invariant == Spec => []Inv
BY Initially, Inductive, PTL DEF Spec

\* The picture is what the collection holds of every item not written since the
\* state, but for those a baseline missed (reconcile, fetch, arm).
THEOREM PictureIsCurrent == Spec => []KnownIsCurrent
BY Invariant, PTL DEF Inv

\* Mail hooks hear of an item exactly when the picture of it moves, so a round run
\* again after a failure reports nothing twice (round, reconcile).
THEOREM ReportsTheMoves == Spec => ReportsWhatMoves
<1> DEFINE Moves == mail /\ pc # "baseline" /\ pc' # "down" =>
                      \A m \in Members : out'[m] # {} <=> known'[m] # known[m]
<1>1. ASSUME Inv, mail, NEW before \in Contents, NEW now \in Contents
      PROVE  Reconciled(before, now) # {} <=> now # before
  <2>1. CASE before = Outside \/ now = Outside
    BY <2>1 DEF Reconciled
  <2>2. CASE before # Outside /\ now # Outside
    <3>1. before \subseteq Keywords /\ now \subseteq Keywords
      BY <1>1, <2>2 DEF Contents
    <3>2. Reconciled(before, now) = {<<"flag-added", k>> : k \in now \ before}
                                      \cup {<<"flag-removed", k>> : k \in before \ now}
      BY <1>1, <2>2 DEF Reconciled
    <3>3. now # before <=> (\E k : k \in now \ before) \/ (\E k : k \in before \ now)
      BY <3>1
    <3> QED
      BY <3>2, <3>3
  <2> QED
    BY <2>1, <2>2
<1>2. ASSUME Inv, NEW to, NEW gone, NEW read, gone \cap read = {}, Applies(to, gone, read)
      PROVE  Moves
  <2> SUFFICES ASSUME mail, NEW m \in Members
               PROVE  out'[m] # {} <=> known'[m] # known[m]
    OBVIOUS
  <2>1. known[m] \in Contents /\ content[m] \in Contents /\ Outside \in Contents
    BY <1>2 DEF Inv, ViewOK, Contents
  <2>2. CASE m \in gone
    <3>1. known'[m] = Outside /\ out'[m] = Reconciled(known[m], Outside)
      BY <1>2, <2>2 DEF Applies
    <3> QED
      BY <1>1, <1>2, <2>1, <3>1
  <2>3. CASE m \in read
    <3>1. known'[m] = content[m] /\ out'[m] = Reconciled(known[m], content[m])
      BY <1>2, <2>3 DEF Applies
    <3> QED
      BY <1>1, <1>2, <2>1, <3>1
  <2>4. CASE m \notin gone \cup read
    BY <1>2, <2>4 DEF Applies
  <2> QED
    BY <2>2, <2>3, <2>4
<1>3. ASSUME Silent, UNCHANGED known PROVE Moves
  BY <1>3 DEF Silent, Nothing
<1>4. Inv /\ [Next]_vars => [Moves]_vars
  <2> SUFFICES ASSUME Inv, Next PROVE Moves
    OBVIOUS
  <2>1. CASE Open \/ ReadState \/ Poll \/ Subscribe \/ News \/ StreamEnds \/ StreamStops
    BY <1>3, <2>1 DEF Open, ReadState, Poll, Subscribe, News, StreamEnds, StreamStops
  <2>2. CASE Unmoved \/ Changes \/ RunAgain \/ RequestShutdown \/ Stop \/ Others
    BY <1>3, <2>2 DEF Unmoved, Changes, RunAgain, RequestShutdown, Stop, Others
  <2>3. CASE Baseline
    BY <2>3 DEF Baseline
  <2>4. CASE ChangesAlone
    BY <1>2, <2>4 DEF ChangesAlone
  <2>5. CASE Fetch
    <3>1. destroyed \cap (touched \cap Held) = {}
      BY <2>5 DEF Fetch, Inv, Named
    <3> QED
      BY <1>2, <2>5, <3>1 DEF Fetch
  <2>6. CASE Refused
    BY <1>3, <2>6 DEF Refused, Dropped
  <2>7. CASE SessionEnds
    BY <2>7 DEF SessionEnds, Dropped
  <2> QED
    BY <2>1, <2>2, <2>3, <2>4, <2>5, <2>6, <2>7 DEF Next, Answered
<1> QED
  BY <1>4, Invariant, PTL DEF Spec, ReportsWhatMoves

=============================================================================
