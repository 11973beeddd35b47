--------------------------- MODULE DavWatch_proofs ---------------------------
(***************************************************************************)
(* The picture and the alarm book of a WebDAV watch follow its collection, *)
(* and its events are true, for any members and any bodies: however the    *)
(* server truncates, expires and refuses, whichever request fails, and     *)
(* whatever is written between two of them.                                *)
(***************************************************************************)
EXTENDS DavWatch, SequenceTheorems, TLAPS

\* A member stands as its last change left it.
Stamped == \A h \in Held : lastmod[h] = server[h]

\* Where a session is, and what it holds by then.
Phases ==
  /\ pc = "list" => listing
  /\ listing => token = NoToken /\ pc \notin {"enum", "sync", "down"}
  /\ (stage = "round" \/ pc = "rebase") /\ ~listing => token # NoToken
  /\ pc \in {"idle", "sync", "refresh", "alarms"} => stage = "round"
  /\ pc = "down" => stage = "arm"
  /\ stage = "arm" => known = [h \in Members |-> Absent]
  /\ stage = "arm" /\ pc # "rebase" => token = NoToken

\* The last listing of a member of the collection is what it is now.
ReadUpTo(to) ==
  \A h \in Held : lastmod[h] <= to => seen[h] # <<>> /\ Fresh(h) = server[h]

\* An enumeration under way read what it is past.
Enumerated ==
  /\ pc # "enum" => cursor = NoToken
  /\ pc = "down" => ~cut
  /\ pc \in {"down", "enum"} /\ ~cut => cursor = NoToken /\ seen = NothingSeen
  /\ pc = "enum" => ReadUpTo(cursor)

\* An enumeration that ended read everything up to its token, and a whole one
\* leaves out nothing of the picture that still stands.
Ended ==
  pc = "rebase" =>
    /\ ~shutdown /\ token # NoToken =>
         /\ complete /\ ReadUpTo(token)
         /\ \A h \in Members \ Held : lastmod[h] <= token => cut \/ seen[h] = <<>>
    /\ ~cut => \A h \in Members :
         /\ Len(seen[h]) <= 1
         /\ complete /\ seen[h] = <<>> /\ known[h] # Absent => server[h] # known[h]

\* KnownAsOfToken, wherever the token is the picture's.
AsOfToken ==
  pc # "rebase" /\ ~shutdown /\ token # NoToken /\ ~ahead =>
    \A h \in Members : lastmod[h] <= token =>
      \/ known[h] = server[h]
      \/ torn /\ h \notin Held
      \/ h \in unread /\ known[h] = Absent

\* What the picture holds as it stands is in the book, or asked for.
Asks ==
  Alarms =>
    /\ pc \in {"idle", "alarms"} \/ stage = "arm" => moved = NothingMoved
    /\ \A h \in InPicture : moved[h] # "forget"
    /\ stage = "round" /\ pc # "alarms" =>
         \A h \in InPicture : known[h] = server[h] =>
           moved[h] = "read" \/ book[h] = Wanted(server[h])

Inv == TypeOK /\ Stamped /\ Phases /\ Enumerated /\ Ended /\ AsOfToken /\ Asks

-----------------------------------------------------------------------------
(* Facts of the data *)

LEMMA SeqOfMore ==
  ASSUME NEW m \in Nat, NEW n \in Nat, m <= n
  PROVE  Seq(1 .. m) \subseteq Seq(1 .. n)
<1>1. 1 .. m \subseteq 1 .. n
  OBVIOUS
<1> QED
  BY <1>1, SeqMonotonic

LEMMA NothingSeenType ==
  ASSUME NEW S
  PROVE  NothingSeen \in [Members -> Seq(S)]
BY EmptySeq DEF NothingSeen

\* What one more listing makes of a member's.
LEMMA OneMore ==
  ASSUME NEW S, NEW s \in Seq(S), NEW v \in S
  PROVE  /\ Append(s, v) \in Seq(S)
         /\ Append(s, v) # <<>>
         /\ Append(s, v)[Len(Append(s, v))] = v
         /\ s = <<>> => Len(Append(s, v)) = 1
<1>1. /\ Append(s, v) \in Seq(S)
      /\ Len(Append(s, v)) = Len(s) + 1
      /\ Append(s, v)[Len(s) + 1] = v
  BY AppendProperties
<1>2. Len(s) \in Nat /\ Len(<<>>) = 0
  BY LenProperties, EmptySeq
<1> QED
  BY <1>1, <1>2

\* A body enters the book exactly when it rings.
LEMMA EntryIsWanted ==
  ASSUME NEW b, NEW h, NEW v \in 1 .. MaxRev
  PROVE  Entry(b, h, v) = Wanted(v)
<1>1. v \in DOMAIN Parts /\ Parts[v] \in Seq(Component) /\ v # Nothing
  BY DavAssumption, PartsAssumption, CollectionAssumption DEF Nothing
<1>2. \A c \in Components(v) : c \in Component
  BY <1>1 DEF Components
<1>3. \A uid : uid \in Series(v) <=>
        \E c \in Components(v) : c.kind \in Kinds /\ c.uid = uid /\ uid # NoUid /\ c.alarms > 0
  BY DEF Series, Uids, Ours
<1>4. \A c \in Components(v) : c.kind \in Kinds <=> c.kind # "other"
  BY <1>2 DEF Component, Kinds
<1>5. Series(v) # {} <=> Rings(v)
  BY <1>3, <1>4 DEF Rings, Components
<1> QED
  BY <1>1, <1>5 DEF Entry, Wanted

LEMMA BodyIsWanted ==
  ASSUME TypeOK, NEW b, NEW h \in Held
  PROVE  BodyOf(b, h) = Wanted(server[h])
<1>1. server[h] \in 1 .. MaxRev
  BY CollectionAssumption DEF TypeOK, CollectionTypeOK, Held, Absent
<1> QED
  BY <1>1, EntryIsWanted DEF BodyOf, Held

LEMMA BodyInBounds ==
  ASSUME TypeOK, NEW b, NEW h \in Members
  PROVE  BodyOf(b, h) \in 0 .. rev
BY CollectionAssumption DEF TypeOK, CollectionTypeOK, BodyOf, Entry, Nothing, Absent

-----------------------------------------------------------------------------
(* Types *)

\* What a round asks of the book.
LEMMA ReportType ==
  ASSUME TypeOK, NEW events \in SUBSET Event, Report(events)
  PROVE  out' \subseteq Event /\ moved' \in [Members -> {"no", "read", "forget"}]
BY DEF TypeOK, Report, Asked

LEMMA SilentType ==
  ASSUME TypeOK, Silent
  PROVE  out' \subseteq Event /\ moved' \in [Members -> {"no", "read", "forget"}]
BY DEF TypeOK, Silent

LEMMA NewSnapshotType ==
  ASSUME TypeOK, NewSnapshot
  PROVE  /\ seen' \in [Members -> Seq(1 .. rev)]
         /\ cursor' \in 0 .. rev /\ complete' \in BOOLEAN /\ cut' \in BOOLEAN
<1>1. seen' \in [Members -> Seq(1 .. rev)]
  BY NothingSeenType DEF NewSnapshot
<1>2. cursor' \in 0 .. rev
  BY DEF NewSnapshot, TypeOK, CollectionTypeOK, NoToken
<1>3. complete' \in BOOLEAN /\ cut' \in BOOLEAN
  BY DEF NewSnapshot
<1> QED
  BY <1>1, <1>2, <1>3

LEMMA FreshType ==
  ASSUME TypeOK, NEW h \in Listed
  PROVE  /\ Fresh(h) \in 1 .. rev /\ Head(seen[h]) \in 1 .. rev
         /\ Len(seen[h]) >= 1 /\ (Len(seen[h]) > 1 \/ Len(seen[h]) = 1)
         /\ Len(seen[h]) <= 1 => Len(seen[h]) = 1
<1>1. seen[h] \in Seq(1 .. rev) /\ seen[h] # <<>>
  BY DEF TypeOK, Listed
<1>2. Len(seen[h]) \in Nat \ {0}
  BY <1>1, EmptySeq
<1>3. seen[h][Len(seen[h])] \in 1 .. rev
  <2>1. Len(seen[h]) \in 1 .. Len(seen[h])
    BY <1>2
  <2> QED
    BY <1>1, <2>1, ElementOfSeq
<1>4. Head(seen[h]) \in 1 .. rev
  BY <1>1, HeadTailProperties
<1>5. \A n \in Nat \ {0} : n >= 1 /\ (n > 1 \/ n = 1) /\ (n <= 1 => n = 1)
  OBVIOUS
<1> QED
  BY <1>2, <1>3, <1>4, <1>5 DEF Fresh

LEMMA InitInv == Init => Inv
<1> SUFFICES ASSUME Init PROVE Inv
  OBVIOUS
<1>1. TypeOK
  <2>1. CollectionTypeOK
    BY CollectionAssumption DEF Init, CollectionInit, CollectionTypeOK, Absent
  <2>2. seen \in [Members -> Seq(1 .. rev)]
    BY NothingSeenType DEF Init
  <2>3. /\ known \in [Members -> 0 .. rev] /\ book \in [Members -> 0 .. rev]
        /\ token \in 0 .. rev /\ cursor \in 0 .. rev
    BY <2>1 DEF Init, CollectionTypeOK, EmptyBook, Absent, NoToken, Nothing
  <2>4. /\ shutdown \in BOOLEAN /\ listing \in BOOLEAN /\ complete \in BOOLEAN
        /\ cut \in BOOLEAN /\ torn \in BOOLEAN /\ ahead \in BOOLEAN
    BY DEF Init
  <2>5. /\ unread \subseteq Members /\ out \subseteq Event
        /\ moved \in [Members -> {"no", "read", "forget"}]
    BY DEF Init, NothingMoved
  <2>6. pc = "down" /\ stage = "arm" /\ attempt = 1
    BY DEF Init
  <2> QED
    BY <2>1, <2>2, <2>3, <2>4, <2>5, <2>6 DEF TypeOK
<1>2. Stamped
  BY DEF Init, CollectionInit, Stamped
<1>3. Phases /\ Enumerated /\ Ended /\ AsOfToken
  BY DEF Init, Phases, Enumerated, Ended, AsOfToken
<1>4. Asks
  BY DEF Init, Asks, InPicture
<1> QED
  BY <1>1, <1>2, <1>3, <1>4 DEF Inv

\* A page adds a listing to the members it names.
LEMMA PageType ==
  ASSUME TypeOK, NEW S \in SUBSET Held,
         seen' = [h \in Members |-> IF h \in S THEN Append(seen[h], server[h]) ELSE seen[h]]
  PROVE  seen' \in [Members -> Seq(1 .. rev)]
<1> SUFFICES ASSUME NEW h \in Members
             PROVE  (IF h \in S THEN Append(seen[h], server[h]) ELSE seen[h]) \in Seq(1 .. rev)
  OBVIOUS
<1>1. seen[h] \in Seq(1 .. rev)
  BY DEF TypeOK
<1>2. h \in S => server[h] \in 1 .. rev
  BY DEF TypeOK, CollectionTypeOK, Held, Absent
<1>3. h \in S => Append(seen[h], server[h]) \in Seq(1 .. rev)
  BY <1>1, <1>2, OneMore
<1> QED
  BY <1>1, <1>3

\* A report of a round, whichever members it names again.
Synced(to, changed, skipped) ==
  /\ token <= to
  /\ Changed(token, to) \subseteq changed /\ skipped \subseteq changed \ InPicture
  /\ Reconcile(to, changed, skipped)
  /\ unread' = (unread \ changed) \cup skipped

LEMMA SyncReads ==
  ASSUME TypeOK, Sync
  PROVE  \E to \in 1 .. rev, changed \in SUBSET Held, skipped \in SUBSET Held :
           Synced(to, changed, skipped)
<1>1. PICK to \in 1 .. MaxRev :
        /\ Reaches(token, to, CutsDelta)
        /\ \E again \in Again(token) :
             \E skipped \in SUBSET ((Changed(token, to) \cup again) \ InPicture) :
               /\ Reconcile(to, Changed(token, to) \cup again, skipped)
               /\ unread' = (unread \ (Changed(token, to) \cup again)) \cup skipped
  BY DEF Sync
<1>2. PICK again \in Again(token) :
        \E skipped \in SUBSET ((Changed(token, to) \cup again) \ InPicture) :
          /\ Reconcile(to, Changed(token, to) \cup again, skipped)
          /\ unread' = (unread \ (Changed(token, to) \cup again)) \cup skipped
  BY <1>1
<1> DEFINE changed == Changed(token, to) \cup again
<1>3. PICK skipped \in SUBSET (changed \ InPicture) :
          /\ Reconcile(to, changed, skipped)
          /\ unread' = (unread \ changed) \cup skipped
  BY <1>2
<1>4. to \in 1 .. rev /\ token <= to
  BY <1>1, CollectionAssumption DEF Reaches, TypeOK, CollectionTypeOK
<1>5. changed \in SUBSET Held /\ skipped \in SUBSET Held
  BY DEF Changed, Again
<1>6. Synced(to, changed, skipped)
  BY <1>3, <1>4 DEF Synced
<1> QED
  BY <1>4, <1>5, <1>6

LEMMA TypeStep == TypeOK /\ [Next]_vars => TypeOK'
<1> SUFFICES ASSUME TypeOK, [Next]_vars PROVE TypeOK'
  OBVIOUS
<1> USE DEF TypeOK, Absent, NoToken
<1>1. CASE Open
  BY <1>1, SilentType DEF Open, snap, past, srv, CollectionTypeOK
<1>2. CASE EnumPage
  <2>1. PICK to \in 1 .. MaxRev :
          /\ Reaches(cursor, to, CutsEnum)
          /\ seen' = [h \in Members |-> IF h \in Changed(cursor, to)
                                        THEN Append(seen[h], server[h]) ELSE seen[h]]
          /\ IF to < rev /\ ~shutdown
               THEN cursor' = to /\ cut' = TRUE /\ UNCHANGED <<token, complete, pc>>
               ELSE /\ cursor' = NoToken /\ token' = to /\ cut' = cut
                    /\ complete' = (to = rev) /\ pc' = "rebase"
    BY <1>2 DEF EnumPage
  <2>2. seen' \in [Members -> Seq(1 .. rev)]
    BY <2>1, PageType DEF Changed
  <2>3. to \in 1 .. rev
    BY <2>1, CollectionAssumption DEF Reaches, CollectionTypeOK
  <2>4. /\ cursor' \in 0 .. rev /\ token' \in 0 .. rev
        /\ cut' \in BOOLEAN /\ complete' \in BOOLEAN /\ pc' \in {"enum", "rebase"}
    <3>1. CASE to < rev /\ ~shutdown
      <4>1. cursor' \in 0 .. rev /\ token' \in 0 .. rev /\ pc' = "enum"
        BY <1>2, <2>1, <2>3, <3>1 DEF EnumPage, CollectionTypeOK
      <4>2. cut' \in BOOLEAN /\ complete' \in BOOLEAN
        BY <2>1, <3>1
      <4> QED
        BY <4>1, <4>2
    <3>2. CASE ~(to < rev /\ ~shutdown)
      <4>1. cursor' \in 0 .. rev /\ token' \in 0 .. rev /\ pc' = "rebase"
        BY <2>1, <2>3, <3>2 DEF CollectionTypeOK
      <4>2. cut' \in BOOLEAN /\ complete' \in BOOLEAN
        BY <2>1, <3>2
      <4> QED
        BY <4>1, <4>2
    <3> QED
      BY <3>1, <3>2
  <2> QED
    BY <1>2, <2>2, <2>4, SilentType DEF EnumPage, past, srv, CollectionTypeOK
<1>3. CASE EnumRefused
  BY <1>3, SilentType DEF EnumRefused, snap, past, srv, CollectionTypeOK
<1>4. CASE List
  <2>1. PICK shown \in SUBSET Held :
          seen' = [h \in Members |-> IF h \in shown THEN <<server[h]>> ELSE <<>>]
    BY <1>4 DEF List
  <2>2. seen' \in [Members -> Seq(1 .. rev)]
    <3>1. \A h \in shown : server[h] \in 1 .. rev
      BY DEF CollectionTypeOK, Held
    <3>2. \A v \in 1 .. rev : <<v>> \in Seq(1 .. rev)
      OBVIOUS
    <3>3. <<>> \in Seq(1 .. rev)
      BY EmptySeq
    <3> QED
      BY <2>1, <3>1, <3>2, <3>3
  <2>3. complete' \in BOOLEAN
    BY <1>4 DEF List
  <2> QED
    BY <1>4, <2>2, <2>3, SilentType DEF List, past, srv, CollectionTypeOK
<1>5. CASE Rebase
  <2>1. known' \in [Members -> 0 .. rev]
    BY <1>5, FreshType DEF Rebase, Rebased, Listed, CollectionTypeOK
  <2>2. RebaseEvents \in SUBSET Event
    BY DEF RebaseEvents, Event, Edited, Added, Removed, InPicture, Listed
  <2>3. out' \subseteq Event /\ moved' \in [Members -> {"no", "read", "forget"}]
    BY <1>5, <2>2, ReportType, SilentType DEF Rebase
  <2> QED
    BY <1>5, <2>1, <2>3, NewSnapshotType DEF Rebase, RoundOver, srv,
       CollectionTypeOK, Listed
<1>6. CASE ReadAlarms
  <2>1. book' \in [Members -> 0 .. rev]
    BY <1>6, BodyInBounds DEF ReadAlarms
  <2> QED
    BY <1>6, <2>1, SilentType DEF ReadAlarms, snap, past, srv, CollectionTypeOK
<1>7. CASE Sync
  <2>1. PICK to \in 1 .. rev, changed \in SUBSET Held, skipped \in SUBSET Held :
          Synced(to, changed, skipped)
    BY <1>7, SyncReads
  <2> DEFINE gone == Vanished(token, to) \cap InPicture
             read == changed \ skipped
  <2>4. known' \in [Members -> 0 .. rev]
    BY <2>1 DEF Synced, Reconcile, CollectionTypeOK
  <2>5. out' \subseteq Event /\ moved' \in [Members -> {"no", "read", "forget"}]
    <3> DEFINE events == Removed(gone) \cup Added(read \ InPicture)
                           \cup Edited({h \in read \cap InPicture : known[h] # server[h]})
    <3>1. events \in SUBSET Event
      BY DEF Event, Edited, Added, Removed, Held, Vanished
    <3>2. Report(events)
      BY <2>1 DEF Synced, Reconcile
    <3> HIDE DEF events
    <3> QED
      BY <3>1, <3>2, ReportType
  <2>6. token' \in 0 .. rev /\ unread' \subseteq Members
    BY <2>1 DEF Synced, Reconcile, Held, CollectionTypeOK
  <2>7. pc' \in {"idle", "sync", "refresh"} /\ attempt' \in {1, 2}
    BY <1>7 DEF RoundOver, Sync
  <2> QED
    BY <1>7, <2>4, <2>5, <2>6, <2>7 DEF Sync, snap, srv, CollectionTypeOK
<1>8. CASE SyncRejected
  BY <1>8, SilentType, NewSnapshotType DEF SyncRejected, past, srv,
     CollectionTypeOK
<1>9. CASE Refresh
  <2>1. book' \in [Members -> 0 .. rev]
    BY <1>9, BodyInBounds DEF Refresh, CollectionTypeOK, Nothing
  <2> QED
    BY <1>9, <2>1 DEF Refresh, NothingMoved, snap, past, srv, CollectionTypeOK
<1>10. CASE Poll
  BY <1>10, SilentType DEF Poll, FirstRequest, snap, past, srv, CollectionTypeOK
<1>11. CASE Stop
  BY <1>11, SilentType DEF Stop, snap, past, srv, CollectionTypeOK
<1>12. CASE RunAgain
  BY <1>12, SilentType, NewSnapshotType DEF RunAgain, FirstRequest, Forgone,
     srv, CollectionTypeOK
<1>13. CASE SessionEnds
  <2>1. known' \in [Members -> 0 .. rev] /\ token' \in 0 .. rev
    BY <1>13 DEF SessionEnds, CollectionTypeOK
  <2>2. moved' \in [Members -> {"no", "read", "forget"}] /\ unread' \subseteq Members
    BY <1>13 DEF SessionEnds, NothingMoved
  <2>3. listing' \in BOOLEAN /\ torn' \in BOOLEAN /\ ahead' \in BOOLEAN
    BY <1>13 DEF SessionEnds
  <2> QED
    BY <1>13, <2>1, <2>2, <2>3, NewSnapshotType DEF SessionEnds, srv, CollectionTypeOK
<1>14. CASE RequestShutdown
  BY <1>14, SilentType DEF RequestShutdown, snap, past, srv, CollectionTypeOK
<1>15. CASE Others
  <2>1. rev' \in 1 .. MaxRev /\ rev <= rev'
    BY <1>15, CollectionAssumption DEF Others, Put, Delete, Write, Expire, CollectionTypeOK
  <2>2. CollectionTypeOK'
    <3>1. CASE Expire
      BY <3>1 DEF Expire, CollectionTypeOK
    <3>2. ASSUME NEW m \in Members, NEW v \in 0 .. rev + 1, Write(m, v) PROVE CollectionTypeOK'
      BY <2>1, <3>2 DEF Write, CollectionTypeOK
    <3> QED
      BY <1>15, <3>1, <3>2 DEF Others, Put, Delete, Held, CollectionTypeOK
  <2>3. seen' \in [Members -> Seq(1 .. rev')]
    BY <1>15, <2>1, SeqOfMore DEF Others, snap, CollectionTypeOK
  <2>4. /\ known' \in [Members -> 0 .. rev'] /\ book' \in [Members -> 0 .. rev']
        /\ token' \in 0 .. rev' /\ cursor' \in 0 .. rev'
    BY <1>15, <2>1 DEF Others, snap, CollectionTypeOK
  <2> QED
    BY <1>15, <2>2, <2>3, <2>4, SilentType DEF Others, snap, past
<1>16. CASE UNCHANGED vars
  BY <1>16 DEF vars, snap, past, srv, CollectionTypeOK
<1> QED
  BY <1>1, <1>2, <1>3, <1>4, <1>5, <1>6, <1>7, <1>8, <1>9, <1>10, <1>11, <1>12, <1>13,
     <1>14, <1>15, <1>16 DEF Next, Answered

-----------------------------------------------------------------------------
(* What a step keeps, one conjunct of the invariant at a time *)

\* Others change one member at a time, past every token there is.
LEMMA OthersWrite ==
  ASSUME TypeOK, Stamped, Others
  PROVE  /\ \A h \in Members :
              \/ server'[h] = server[h] /\ lastmod'[h] = lastmod[h]
              \/ lastmod'[h] = rev + 1 /\ server'[h] \in {Absent, rev + 1}
         /\ Stamped'
<1>1. CASE Expire
  BY <1>1 DEF Expire, Stamped, Held
<1>2. ASSUME NEW m \in Members, NEW v \in {Absent, rev + 1}, Write(m, v)
      PROVE  /\ \A h \in Members :
                  \/ server'[h] = server[h] /\ lastmod'[h] = lastmod[h]
                  \/ lastmod'[h] = rev + 1 /\ server'[h] \in {Absent, rev + 1}
             /\ Stamped'
  BY <1>2 DEF Write, Stamped, Held, TypeOK, CollectionTypeOK
<1> QED
  BY <1>1, <1>2 DEF Others, Put, Delete, Held

LEMMA StampedStep == Inv /\ [Next]_vars => Stamped'
<1> SUFFICES ASSUME Inv, [Next]_vars PROVE Stamped'
  OBVIOUS
<1>1. CASE Others
  BY <1>1, OthersWrite DEF Inv
<1>2. CASE ~Others
  <2>1. UNCHANGED srv
    BY <1>2 DEF Next, Answered, vars, Open, EnumPage, EnumRefused, List, Rebase, ReadAlarms,
       Sync, SyncRejected, Refresh, Poll, Stop, RunAgain, SessionEnds, RequestShutdown
  <2> QED
    BY <2>1 DEF Inv, Stamped, Held, srv
<1> QED
  BY <1>1, <1>2

LEMMA PhasesStep == Inv /\ [Next]_vars => Phases'
<1> SUFFICES ASSUME Inv, [Next]_vars PROVE Phases'
  OBVIOUS
<1> USE DEF Inv, TypeOK, Phases, NoToken, Absent
<1>1. CASE Open \/ EnumRefused \/ List \/ ReadAlarms \/ Refresh \/ Stop
  BY <1>1 DEF Open, EnumRefused, List, ReadAlarms, Refresh, Stop
<1>2. CASE EnumPage
  <2>1. PICK to \in 1 .. MaxRev :
          IF to < rev /\ ~shutdown
            THEN cursor' = to /\ cut' = TRUE /\ UNCHANGED <<token, complete, pc>>
            ELSE /\ cursor' = NoToken /\ token' = to /\ cut' = cut
                 /\ complete' = (to = rev) /\ pc' = "rebase"
    BY <1>2 DEF EnumPage
  <2>2. \/ pc' = "enum" /\ token' = token
        \/ pc' = "rebase" /\ token' = to
    <3>0. pc = "enum"
      BY <1>2 DEF EnumPage
    <3>1. CASE to < rev /\ ~shutdown
      BY <2>1, <3>0, <3>1
    <3>2. CASE ~(to < rev /\ ~shutdown)
      BY <2>1, <3>2
    <3> QED
      BY <3>1, <3>2
  <2>3. to # 0 /\ ~listing
    BY <1>2, CollectionAssumption DEF EnumPage
  <2> QED
    BY <1>2, <2>2, <2>3 DEF EnumPage
<1>3. CASE Rebase
  BY <1>3 DEF Rebase, RoundOver
<1>4. CASE Sync
  <2>1. ~listing /\ stage = "round" /\ token # NoToken
    BY <1>4 DEF Sync
  <2>2. token' # NoToken
    <3>1. PICK to \in 1 .. rev, changed \in SUBSET Held, skipped \in SUBSET Held :
            Synced(to, changed, skipped)
      BY <1>4, SyncReads
    <3> QED
      BY <3>1 DEF Synced, Reconcile
  <2>3. pc' \in {"sync", "idle", "refresh"}
    BY <1>4 DEF Sync, RoundOver
  <2> QED
    BY <1>4, <2>1, <2>2, <2>3 DEF Sync
<1>5. CASE SyncRejected
  BY <1>5 DEF SyncRejected
<1>6. CASE Poll
  BY <1>6 DEF Poll, FirstRequest
<1>7. CASE RunAgain
  BY <1>7 DEF RunAgain, InRound, FirstRequest
<1>8. CASE SessionEnds
  BY <1>8 DEF SessionEnds
<1>9. CASE RequestShutdown \/ Others \/ UNCHANGED vars
  BY <1>9 DEF RequestShutdown, Others, vars
<1> QED
  BY <1>1, <1>2, <1>3, <1>4, <1>5, <1>6, <1>7, <1>8, <1>9 DEF Next, Answered

\* What stands in the collection up to a revision it has passed stood there before
\* others wrote.
LEMMA OthersComeAfter ==
  ASSUME TypeOK, Stamped, Others, NEW to \in 0 .. rev, NEW h \in Members,
         lastmod'[h] <= to
  PROVE  lastmod[h] <= to /\ server'[h] = server[h] /\ (h \in Held' <=> h \in Held)
BY OthersWrite DEF TypeOK, CollectionTypeOK, Held

\* A report of an enumeration reads every member it reaches that nobody wrote since.
LEMMA PageReads ==
  ASSUME TypeOK, ReadUpTo(cursor), UNCHANGED srv, NEW to \in 1 .. MaxRev,
         seen' = [h \in Members |-> IF h \in Changed(cursor, to)
                                   THEN Append(seen[h], server[h]) ELSE seen[h]]
  PROVE  ReadUpTo(to)'
<1> SUFFICES ASSUME NEW h \in Held, lastmod[h] <= to
             PROVE  seen'[h] # <<>> /\ seen'[h][Len(seen'[h])] = server[h]
  BY DEF ReadUpTo, Fresh, srv, Held
<1>1. CASE lastmod[h] <= cursor
  <2>1. seen'[h] = seen[h]
    BY <1>1 DEF Changed, Held, TypeOK, CollectionTypeOK
  <2> QED
    BY <1>1, <2>1 DEF ReadUpTo, Fresh
<1>2. CASE ~(lastmod[h] <= cursor)
  <2>1. seen'[h] = Append(seen[h], server[h])
    BY <1>2 DEF Changed, Held, TypeOK, CollectionTypeOK
  <2>2. seen[h] \in Seq(1 .. rev) /\ server[h] \in 1 .. rev
    BY DEF TypeOK, CollectionTypeOK, Held, Absent
  <2> QED
    BY <2>1, <2>2, OneMore
<1> QED
  BY <1>1, <1>2

LEMMA EnumeratedStep == Inv /\ [Next]_vars => Enumerated'
<1> SUFFICES ASSUME Inv, [Next]_vars PROVE Enumerated'
  OBVIOUS
<1> USE DEF Inv, Enumerated
<1>0. \A h \in Held : ~(lastmod[h] <= 0)
  BY DEF TypeOK, CollectionTypeOK, Stamped, Held, Absent
<1>1. CASE NewSnapshot /\ UNCHANGED srv /\ pc' # "down"
  <2>1. ReadUpTo(NoToken)'
    BY <1>0, <1>1 DEF ReadUpTo, srv, Held, NoToken
  <2> QED
    BY <1>1, <2>1 DEF NewSnapshot
<1>2. CASE SessionEnds
  BY <1>2 DEF SessionEnds, NewSnapshot
<1>3. CASE Open
  <2>1. ReadUpTo(NoToken)'
    BY <1>0, <1>3 DEF Open, ReadUpTo, srv, Held, NoToken
  <2> QED
    BY <1>3, <2>1 DEF Open, snap
<1>4. CASE EnumPage
  <2>1. PICK to \in 1 .. MaxRev :
          /\ Reaches(cursor, to, CutsEnum)
          /\ seen' = [h \in Members |-> IF h \in Changed(cursor, to)
                                        THEN Append(seen[h], server[h]) ELSE seen[h]]
          /\ IF to < rev /\ ~shutdown
               THEN cursor' = to /\ cut' = TRUE /\ UNCHANGED <<token, complete, pc>>
               ELSE /\ cursor' = NoToken /\ token' = to /\ cut' = cut
                    /\ complete' = (to = rev) /\ pc' = "rebase"
    BY <1>4 DEF EnumPage
  <2>2. ReadUpTo(to)'
    BY <1>4, <2>1, PageReads DEF EnumPage
  <2> QED
    BY <1>4, <2>1, <2>2 DEF EnumPage
<1>5. CASE EnumRefused \/ List \/ ReadAlarms \/ Refresh \/ Stop \/ RequestShutdown
  BY <1>5 DEF EnumRefused, List, ReadAlarms, Refresh, Stop, RequestShutdown, snap, srv,
     ReadUpTo, Fresh, Held
<1>6. CASE Poll \/ Sync
  BY <1>6 DEF Poll, FirstRequest, Sync, RoundOver, snap
<1>7. CASE Others
  <2>1. ReadUpTo(cursor) => ReadUpTo(cursor)'
    BY <1>7, OthersComeAfter DEF Others, ReadUpTo, Fresh, snap, TypeOK, Held
  <2> QED
    BY <1>7, <2>1 DEF Others, snap
<1>8. CASE UNCHANGED vars
  BY <1>8 DEF vars, snap, srv, ReadUpTo, Fresh, Held
<1> QED
  BY <1>1, <1>2, <1>3, <1>4, <1>5, <1>6, <1>7, <1>8 DEF Next, Answered, Rebase, RoundOver,
     SyncRejected, RunAgain, FirstRequest

LEMMA EndedStep == Inv /\ [Next]_vars => Ended'
<1> SUFFICES ASSUME Inv, [Next]_vars, pc' = "rebase" PROVE Ended'
  BY DEF Ended
<1> USE DEF Inv
<1>1. CASE EnumPage
  <2>1. PICK to \in 1 .. MaxRev :
          /\ Reaches(cursor, to, CutsEnum)
          /\ seen' = [h \in Members |-> IF h \in Changed(cursor, to)
                                        THEN Append(seen[h], server[h]) ELSE seen[h]]
          /\ IF to < rev /\ ~shutdown
               THEN cursor' = to /\ cut' = TRUE /\ UNCHANGED <<token, complete, pc>>
               ELSE /\ cursor' = NoToken /\ token' = to /\ cut' = cut
                    /\ complete' = (to = rev) /\ pc' = "rebase"
    BY <1>1 DEF EnumPage
  <2>2. pc = "enum" /\ UNCHANGED <<srv, shutdown, known>>
    BY <1>1 DEF EnumPage
  <2>3. /\ ~(to < rev /\ ~shutdown)
        /\ token' = to /\ cut' = cut /\ complete' = (to = rev)
    BY <2>1, <2>2
  <2>4. ReadUpTo(to)'
    BY <2>1, <2>2, PageReads DEF Enumerated
  <2>5. to \in 1 .. rev
    BY <2>1, CollectionAssumption DEF Reaches, TypeOK, CollectionTypeOK
  <2>6. ~shutdown => complete'
    <3>1. ~shutdown => to = rev
      BY <2>3, <2>5 DEF TypeOK, CollectionTypeOK
    <3> QED
      BY <2>3, <3>1
  <2>7. CASE cut
    BY <2>2, <2>3, <2>4, <2>6, <2>7 DEF Ended
  <2>8. CASE ~cut
    <3>1. /\ cursor = 0
          /\ seen' = [h \in Members |-> IF h \in Changed(0, to)
                                        THEN Append(<<>>, server[h]) ELSE <<>>]
      BY <2>1, <2>2, <2>8 DEF Enumerated, NothingSeen, NoToken
    <3>2. \A h \in Held : server[h] \in 1 .. rev
      BY DEF TypeOK, CollectionTypeOK, Held, Absent
    <3>3. \A h \in Members : Len(seen'[h]) <= 1
      BY <3>1, <3>2, OneMore, EmptySeq DEF Changed
    <3>4. \A h \in Members \ Held : seen'[h] = <<>>
      BY <3>1 DEF Changed
    <3>5. to = rev => \A h \in Held : seen'[h] # <<>>
      <4> SUFFICES ASSUME to = rev, NEW h \in Held PROVE seen'[h] # <<>>
        OBVIOUS
      <4>1. h \in Changed(0, to)
        BY <3>2 DEF Changed, Stamped, Held
      <4>2. seen'[h] = Append(<<>>, server[h])
        BY <3>1, <4>1 DEF Held
      <4> QED
        BY <3>2, <4>2, OneMore, EmptySeq
    <3>6. Members \ Held' = Members \ Held /\ known' = known /\ server' = server
      BY <2>2 DEF srv, Held
    <3> QED
      BY <2>2, <2>3, <2>4, <2>6, <3>3, <3>4, <3>5, <3>6 DEF Ended, Held
  <2> QED
    BY <2>7, <2>8
<1>2. CASE List
  <2>1. token' = NoToken
    BY <1>2 DEF List, Phases
  <2>2. PICK shown \in SUBSET Held :
          /\ complete' => \A h \in Members \ shown : server[h] = Absent
          /\ seen' = [h \in Members |-> IF h \in shown THEN <<server[h]>> ELSE <<>>]
    BY <1>2 DEF List
  <2>3. \A h \in Members : Len(seen'[h]) <= 1 /\ (seen'[h] = <<>> => h \notin shown)
    BY <2>2
  <2> QED
    BY <1>2, <2>1, <2>2, <2>3 DEF List, Ended, srv
<1>3. CASE RequestShutdown
  BY <1>3 DEF RequestShutdown, Ended, snap, srv, Held
<1>4. CASE Others
  <2>1. pc = "rebase" /\ UNCHANGED <<shutdown, token, snap, known>>
    BY <1>4 DEF Others
  <2>2. token \in 0 .. rev
    BY DEF TypeOK
  <2>3. ReadUpTo(token) => ReadUpTo(token)'
    BY <1>4, <2>1, <2>2, OthersComeAfter DEF ReadUpTo, Fresh, snap, Held
  <2>4. \A h \in Members \ Held' : lastmod'[h] <= token => lastmod[h] <= token /\ h \notin Held
    BY <1>4, <2>2, OthersComeAfter
  <2>5. \A h \in Members : known[h] # Absent /\ server[h] # known[h] => server'[h] # known[h]
    BY <1>4, OthersWrite DEF TypeOK, CollectionTypeOK
  <2> QED
    BY <2>1, <2>3, <2>4, <2>5 DEF Ended, snap
<1>5. CASE UNCHANGED vars
  BY <1>5 DEF vars, Ended, ReadUpTo, Fresh, snap, srv, Held
<1> QED
  BY <1>1, <1>2, <1>3, <1>4, <1>5 DEF Next, Answered, Open, EnumRefused, Rebase, RoundOver,
     ReadAlarms, Sync, SyncRejected, Refresh, Poll, FirstRequest, Stop, RunAgain, SessionEnds

\* A rebase makes of the picture what the enumeration read.
LEMMA RebaseIsAsOfToken ==
  ASSUME Inv, Rebase
  PROVE  AsOfToken'
<1> SUFFICES ASSUME ~shutdown, token # NoToken, NEW h \in Members, lastmod[h] <= token
             PROVE  known'[h] = server[h] \/ (torn' /\ h \notin Held)
  BY DEF AsOfToken, Rebase, srv, Held
<1>1. complete /\ ReadUpTo(token) /\ (h \notin Held => cut \/ seen[h] = <<>>)
  BY DEF Inv, Ended, Rebase
<1>2. known'[h] = IF h \in Listed THEN Fresh(h) ELSE Absent
  BY <1>1 DEF Rebase, Rebased
<1>3. CASE h \in Held
  <2>1. seen[h] # <<>> /\ Fresh(h) = server[h]
    BY <1>1, <1>3 DEF ReadUpTo
  <2>2. h \in Listed
    BY <2>1 DEF Listed
  <2> QED
    BY <1>2, <2>1, <2>2
<1>4. CASE h \notin Held
  BY <1>1, <1>2, <1>4 DEF Listed, Held, Rebase
<1> QED
  BY <1>3, <1>4

\* A report moves the picture to where it reaches.
LEMMA SyncIsAsOfToken ==
  ASSUME Inv, Sync
  PROVE  AsOfToken'
<1>1. TypeOK /\ token # NoToken /\ pc = "sync"
  BY DEF Inv, Sync, Phases
<1>2. PICK to \in 1 .. rev, changed \in SUBSET Held, skipped \in SUBSET Held :
        Synced(to, changed, skipped)
  BY <1>1, SyncReads
<1> SUFFICES ASSUME ~shutdown, ~ahead, NEW h \in Members, lastmod[h] <= to
             PROVE  \/ known'[h] = server[h]
                    \/ torn /\ h \notin Held
                    \/ h \in unread' /\ known'[h] = Absent
  BY <1>2 DEF AsOfToken, Sync, Synced, Reconcile, srv, Held
<1> DEFINE gone == Vanished(token, to) \cap InPicture
<1>3. known'[h] = CASE h \in gone -> Absent
                    [] h \in changed \ skipped -> server[h]
                    [] OTHER -> known[h]
  BY <1>2 DEF Synced, Reconcile
<1>4. gone \cap Held = {}
  BY DEF Vanished
<1>5. CASE h \in gone
  BY <1>3, <1>4, <1>5 DEF Held
<1>6. CASE h \in changed \ skipped
  BY <1>3, <1>4, <1>6
<1>7. CASE h \in skipped
  BY <1>2, <1>3, <1>4, <1>7 DEF Synced, InPicture
<1>8. CASE h \notin gone /\ h \notin changed
  <2>1. known'[h] = known[h] /\ (h \in unread => h \in unread')
    BY <1>2, <1>3, <1>8 DEF Synced
  <2>2. CASE lastmod[h] <= token
    BY <1>1, <2>1, <2>2 DEF Inv, AsOfToken
  <2>3. CASE ~(lastmod[h] <= token)
    <3>1. lastmod[h] \in token + 1 .. to
      BY <1>1, <2>3 DEF TypeOK, CollectionTypeOK
    <3>2. h \notin Held /\ h \notin InPicture
      BY <1>2, <1>8, <3>1 DEF Synced, Changed, Vanished
    <3> QED
      BY <2>1, <3>2 DEF Held, InPicture
  <2> QED
    BY <2>2, <2>3
<1> QED
  BY <1>5, <1>6, <1>7, <1>8

LEMMA AsOfTokenStep == Inv /\ [Next]_vars => AsOfToken'
<1> SUFFICES ASSUME Inv, [Next]_vars PROVE AsOfToken'
  OBVIOUS
<1> USE DEF Inv, AsOfToken
<1>1. CASE Rebase
  BY <1>1, RebaseIsAsOfToken
<1>2. CASE Sync
  BY <1>2, SyncIsAsOfToken
<1>3. CASE EnumPage
  BY <1>3 DEF EnumPage, past, srv, Held
<1>4. CASE RunAgain
  BY <1>4 DEF RunAgain, Forgone, srv, Held
<1>5. CASE EnumRefused \/ SessionEnds \/ RequestShutdown
  BY <1>5 DEF EnumRefused, SessionEnds, RequestShutdown
<1>6. CASE Others
  <2>1. \A h \in Members : lastmod'[h] <= token =>
          lastmod[h] <= token /\ server'[h] = server[h] /\ (h \in Held' <=> h \in Held)
    BY <1>6, OthersComeAfter DEF TypeOK
  <2> QED
    BY <1>6, <2>1 DEF Others, past
<1>7. CASE Open \/ List \/ ReadAlarms \/ SyncRejected \/ Refresh \/ Poll \/ Stop
           \/ UNCHANGED vars
  BY <1>7 DEF Open, List, ReadAlarms, SyncRejected, Refresh, Poll, Stop, vars, past, srv, Held
<1> QED
  BY <1>1, <1>2, <1>3, <1>4, <1>5, <1>6, <1>7 DEF Next, Answered

\* What the events of a report make of the book's orders.
LEMMA ReportAsks ==
  ASSUME TypeOK, Alarms, NEW gone, NEW new, NEW edits, NEW h \in Members,
         Report(Removed(gone) \cup Added(new) \cup Edited(edits))
  PROVE  moved'[h] = IF h \in new \cup edits THEN "read"
                     ELSE IF h \in gone THEN "forget" ELSE moved[h]
<1> DEFINE events == Removed(gone) \cup Added(new) \cup Edited(edits)
<1>1. \A e \in events :
        /\ e.kind # "removed" => e.id \in new \cup edits
        /\ e.id \in gone \cup new \cup edits
  BY DEF Removed, Added, Edited
<1>2. h \in new => \E e \in events : e.id = h /\ e.kind # "removed"
  <2>1. h \in new => [kind |-> "added", id |-> h] \in events
    BY DEF Added
  <2> QED
    BY <2>1
<1>3. h \in edits => \E e \in events : e.id = h /\ e.kind # "removed"
  <2>1. h \in edits => [kind |-> "changed", id |-> h] \in events
    BY DEF Edited
  <2> QED
    BY <2>1
<1>4. h \in gone => \E e \in events : e.id = h
  <2>1. h \in gone => [kind |-> "removed", id |-> h] \in events
    BY DEF Removed
  <2> QED
    BY <2>1
<1>5. moved'[h] = IF \E e \in events : e.id = h
                    THEN IF \E e \in events : e.id = h /\ e.kind # "removed"
                           THEN "read" ELSE "forget"
                    ELSE moved[h]
  BY DEF Report, Asked
<1> HIDE DEF events
<1> QED
  BY <1>1, <1>2, <1>3, <1>4, <1>5

\* A report of a round asks of the book what the picture moves by.
LEMMA SyncAsks ==
  ASSUME Inv, Sync, Alarms, NEW h \in Members
  PROVE  /\ moved'[h] = "forget" => known'[h] = Absent
         /\ known'[h] # Absent /\ known'[h] = server[h] =>
              moved'[h] = "read" \/ (known[h] = known'[h] /\ moved'[h] = moved[h])
<1>1. TypeOK
  BY DEF Inv
<1>2. PICK to \in 1 .. rev, changed \in SUBSET Held, skipped \in SUBSET Held :
        Synced(to, changed, skipped)
  BY <1>1, SyncReads
<1> DEFINE gone == Vanished(token, to) \cap InPicture
           read == changed \ skipped
           new == read \ InPicture
           edits == {i \in read \cap InPicture : known[i] # server[i]}
<1>3. known'[h] = CASE h \in gone -> Absent
                    [] h \in read -> server[h]
                    [] OTHER -> known[h]
  BY <1>2 DEF Synced, Reconcile
<1>4. Report(Removed(gone) \cup Added(new) \cup Edited(edits))
  BY <1>2 DEF Synced, Reconcile
<1>5. h \in gone => h \notin read
  BY DEF Vanished
<1>6. h \in new \cup edits <=> (h \in read /\ (h \notin InPicture \/ known[h] # server[h]))
  OBVIOUS
<1>8. moved'[h] = IF h \in new \cup edits THEN "read"
                  ELSE IF h \in gone THEN "forget" ELSE moved[h]
  <2> HIDE DEF new, edits, gone, read
  <2> QED
    BY <1>1, <1>4, ReportAsks
<1>9. moved[h] = "forget" => known[h] = Absent
  BY DEF Inv, Asks, InPicture
<1>11. h \in InPicture <=> known[h] # Absent
  BY DEF InPicture
<1> HIDE DEF new, edits, gone, read
<1>10. h \in gone => known'[h] = Absent
  BY <1>3, <1>5
<1>12. CASE h \in gone
  BY <1>10, <1>12
<1>13. CASE h \in read
  BY <1>3, <1>5, <1>6, <1>8, <1>9, <1>11, <1>13
<1>14. CASE h \notin gone /\ h \notin read
  BY <1>3, <1>6, <1>8, <1>9, <1>14
<1> QED
  BY <1>12, <1>13, <1>14

\* So does a rebase.
LEMMA RebaseAsks ==
  ASSUME Inv, Rebase, stage = "round", Alarms, NEW h \in Members
  PROVE  /\ moved'[h] = "forget" => known'[h] = Absent
         /\ known'[h] # Absent /\ known'[h] = server[h] =>
              moved'[h] = "read" \/ (known[h] = known'[h] /\ moved'[h] = moved[h])
<1> DEFINE gone == IF complete THEN InPicture \ Listed ELSE {}
           new == {i \in Listed : i \notin InPicture \/ Len(seen[i]) > 1}
           edits == {i \in Listed \cap InPicture : known[i] # Head(seen[i])}
<1>1. TypeOK /\ Report(RebaseEvents)
  BY DEF Inv, Rebase
<1>2. RebaseEvents = Removed(gone) \cup Added(new) \cup Edited(edits)
  BY DEF RebaseEvents, Removed
<1>3. h \in new \cup edits <=>
        (h \in Listed /\ (h \notin InPicture \/ Len(seen[h]) > 1 \/ known[h] # Head(seen[h])))
  OBVIOUS
<1>4. moved'[h] = IF h \in new \cup edits THEN "read"
                  ELSE IF h \in gone THEN "forget" ELSE moved[h]
  <2> HIDE DEF gone, new, edits
  <2> QED
    BY <1>1, <1>2, ReportAsks
<1>5. known'[h] = IF h \in Listed THEN Fresh(h)
                  ELSE IF complete THEN Absent ELSE known[h]
  BY DEF Rebase, Rebased
<1>6. moved[h] = "forget" => h \notin InPicture
  BY DEF Inv, Asks
<1>7. CASE h \in Listed
  <2>1. h \notin new \cup edits => Fresh(h) = known[h] /\ h \in InPicture
    <3>2. h \notin new \cup edits =>
            Len(seen[h]) = 1 /\ h \in InPicture /\ known[h] = Head(seen[h])
      <4> HIDE DEF new, edits
      <4>1. h \notin new \cup edits =>
              ~(Len(seen[h]) > 1) /\ h \in InPicture /\ known[h] = Head(seen[h])
        BY <1>3, <1>7, Zenon
      <4>2. ~(Len(seen[h]) > 1) => Len(seen[h]) = 1
        BY <1>1, <1>7, FreshType
      <4> QED
        BY <4>1, <4>2
    <3> QED
      BY <3>2 DEF Fresh
  <2>2. h \notin gone
    BY <1>7
  <2> HIDE DEF gone, new, edits
  <2>3. Fresh(h) # Absent
    BY <1>1, <1>7, FreshType DEF Absent
  <2> QED
    BY <1>4, <1>5, <1>6, <1>7, <2>1, <2>2
<1>8. CASE h \notin Listed
  <2>1. h \notin new \cup edits
    BY <1>3, <1>8
  <2>2. complete => known'[h] = Absent
    BY <1>5, <1>8
  <2>3. ~complete => known'[h] = known[h] /\ h \notin gone
    BY <1>5, <1>8
  <2>4. h \notin InPicture => known[h] = Absent
    BY DEF InPicture
  <2> HIDE DEF gone, new, edits
  <2> QED
    BY <1>4, <1>6, <2>1, <2>2, <2>3, <2>4
<1> QED
  BY <1>7, <1>8

\* A round that ends with nothing asked leaves no order.
LEMMA NothingAsked ==
  ASSUME TypeOK', Alarms, RoundOver, pc' = "idle"
  PROVE  moved' = NothingMoved
BY DEF RoundOver, TypeOK, NothingMoved

LEMMA AsksStep == Inv /\ [Next]_vars => Asks'
<1> SUFFICES ASSUME Inv, [Next]_vars, Alarms PROVE Asks'
  BY DEF Asks
<1>0. TypeOK /\ TypeOK'
  BY TypeStep DEF Inv
<1>1. CASE Rebase /\ stage = "arm"
  BY <1>1 DEF Inv, Asks, Rebase, Silent, NothingMoved, InPicture
<1>2. CASE (Rebase /\ stage = "round") \/ Sync
  <2>1. \A h \in Members :
          /\ moved'[h] = "forget" => known'[h] = Absent
          /\ known'[h] # Absent /\ known'[h] = server[h] =>
               moved'[h] = "read" \/ (known[h] = known'[h] /\ moved'[h] = moved[h])
    BY <1>2, RebaseAsks, SyncAsks
  <2>2. stage = "round" /\ pc # "alarms" /\ stage' = "round"
    BY <1>2 DEF Inv, Phases, Rebase, Sync
  <2>3. pc' \in {"idle", "alarms"} => moved' = NothingMoved
    BY <1>0, <1>2, NothingAsked DEF Rebase, Sync, RoundOver
  <2>4. UNCHANGED <<server, book>>
    BY <1>2 DEF Rebase, Sync, srv
  <2>5. \A h \in InPicture' : known'[h] = server[h] =>
          moved'[h] = "read" \/ book[h] = Wanted(server[h])
    BY <2>1, <2>2 DEF Inv, Asks, InPicture
  <2> QED
    BY <2>1, <2>2, <2>3, <2>4, <2>5 DEF Asks, InPicture, Wanted
<1>3. CASE ReadAlarms
  <2>1. moved' = NothingMoved /\ UNCHANGED <<server, known>>
    BY <1>3 DEF Inv, Asks, ReadAlarms, Silent, srv
  <2>2. \A h \in InPicture : known[h] = server[h] => book'[h] = Wanted(server[h])
    BY <1>0, <1>3, BodyIsWanted DEF ReadAlarms, InPicture, Held
  <2> QED
    BY <2>1, <2>2 DEF Asks, InPicture, NothingMoved, Wanted
<1>4. CASE Refresh
  <2>1. moved' = NothingMoved /\ UNCHANGED <<server, known>>
    BY <1>4 DEF Refresh, srv
  <2>2. ASSUME NEW h \in InPicture, known[h] = server[h]
        PROVE  book'[h] = Wanted(server[h])
    <3>1. h \in Held /\ moved[h] # "forget"
      BY <2>2 DEF Inv, Asks, InPicture, Held
    <3>2. book'[h] = IF moved[h] = "read" THEN BodyOf(book, h) ELSE book[h]
      BY <1>4, <3>1 DEF Refresh, Held
    <3>3. moved[h] = "read" \/ book[h] = Wanted(server[h])
      BY <1>4, <2>2 DEF Inv, Asks, Phases, Refresh
    <3> QED
      BY <1>0, <3>1, <3>2, <3>3, BodyIsWanted
  <2> QED
    BY <2>1, <2>2 DEF Asks, InPicture, NothingMoved, Wanted
<1>5. CASE SessionEnds
  BY <1>5 DEF SessionEnds, Asks, InPicture
<1>6. CASE Others
  <2>1. UNCHANGED <<pc, stage, known, moved, book>>
    BY <1>6 DEF Others, Silent
  <2>2. \A h \in InPicture : known[h] = server'[h] => known[h] = server[h]
    BY <1>0, <1>6, OthersWrite DEF Inv, InPicture, TypeOK, CollectionTypeOK
  <2> QED
    BY <2>1, <2>2 DEF Inv, Asks, InPicture, Wanted
<1>7. CASE \/ Open \/ EnumPage \/ EnumRefused \/ List \/ SyncRejected \/ Poll \/ Stop
           \/ RunAgain \/ RequestShutdown \/ UNCHANGED vars
  <2>1. UNCHANGED <<server, stage, known, moved, book>>
    BY <1>7 DEF Open, EnumPage, EnumRefused, List, SyncRejected, Poll, Stop, RunAgain,
       RequestShutdown, vars, srv, Silent
  <2>2. pc' = pc \/ (pc' \notin {"idle", "alarms"} /\ pc # "alarms")
    BY <1>7 DEF Open, EnumPage, EnumRefused, List, SyncRejected, Poll, FirstRequest, Stop,
       RunAgain, InRound, Asking, RequestShutdown, vars
  <2> QED
    BY <2>1, <2>2 DEF Inv, Asks, InPicture, Wanted
<1> QED
  BY <1>0, <1>1, <1>2, <1>3, <1>4, <1>5, <1>6, <1>7 DEF Next, Answered, TypeOK

-----------------------------------------------------------------------------
(* The theorems *)

\* The inductive invariant: an enumeration has read what it is past, the picture is
\* the collection's as of the token wherever no request failed in between, and the
\* book holds or is asked for whatever in the picture still stands.
THEOREM Invariant == Spec => []Inv
<1>1. Inv /\ [Next]_vars => Inv'
  BY TypeStep, StampedStep, PhasesStep, EnumeratedStep, EndedStep, AsOfTokenStep, AsksStep
     DEF Inv
<1> QED
  BY InitInv, <1>1, PTL DEF Spec

\* The watch keeps its types.
THEOREM Types == Spec => []TypeOK
<1>1. Inv => TypeOK
  BY DEF Inv
<1> QED
  BY Invariant, <1>1, PTL

\* The picture is the collection's as of its token, for any members and revisions
\* (rebase, reconcile): no arrival, edit or removal is lost, but where a round
\* failed between an enumeration and its rebase.
THEOREM PictureIsCurrent == Spec => []KnownIsCurrent
<1>1. Inv => KnownIsCurrent
  BY DEF Inv, KnownIsCurrent, KnownAsOfToken, AsOfToken, Settled
<1> QED
  BY Invariant, <1>1, PTL

LEMMA BookFromInv == Inv => BookIsCurrent
<1> SUFFICES ASSUME Inv, Settled, pc = "idle", Alarms, ~torn, ~ahead,
                    NEW h \in InPicture, lastmod[h] <= token
             PROVE  book[h] = Wanted(server[h])
  BY DEF BookIsCurrent
<1>1. known[h] = server[h]
  BY DEF Inv, AsOfToken, Settled, InPicture
<1>2. moved[h] = "no" /\ stage = "round"
  BY DEF Inv, Asks, Phases, NothingMoved, InPicture
<1> QED
  BY <1>1, <1>2 DEF Inv, Asks

\* The alarm book holds the body of whatever the picture holds as it stands, for any
\* bodies: none is kept that no longer rings, and none is missed (read_alarms,
\* refresh_alarms).
THEOREM BookFollowsThePicture == Spec => []BookIsCurrent
BY Invariant, BookFromInv, PTL

\* A report of a round names what its server moved.
LEMMA SyncIsTrue ==
  ASSUME Inv, Sync, NEW e \in out'
  PROVE  CASE e.kind = "added"   -> known[e.id] = Absent /\ known'[e.id] # Absent
           [] e.kind = "changed" -> known[e.id] # Absent /\ known'[e.id] # known[e.id]
           [] OTHER -> known[e.id] # Absent /\ server[e.id] # known[e.id]
<1>1. TypeOK
  BY DEF Inv
<1>2. PICK to \in 1 .. rev, changed \in SUBSET Held, skipped \in SUBSET Held :
        Synced(to, changed, skipped)
  BY <1>1, SyncReads
<1> DEFINE gone == Vanished(token, to) \cap InPicture
           read == changed \ skipped
           new == read \ InPicture
           edits == {i \in read \cap InPicture : known[i] # server[i]}
<1>3. e \in Removed(gone) \cup Added(new) \cup Edited(edits)
  BY <1>2 DEF Synced, Reconcile, Report
<1>4. \A h \in read : known'[h] = server[h] /\ server[h] # Absent
  BY <1>2 DEF Synced, Reconcile, Vanished, Held
<1>5. CASE e \in Removed(gone)
  <2>1. e.kind = "removed" /\ e.id \in gone
    BY <1>5 DEF Removed
  <2>2. \A h \in gone : known[h] # Absent /\ server[h] = Absent
    BY DEF Vanished, InPicture, Held
  <2> HIDE DEF gone
  <2> QED
    BY <2>1, <2>2
<1>6. CASE e \in Added(new)
  <2>1. e.kind = "added" /\ e.id \in new
    BY <1>6 DEF Added
  <2>2. \A h \in new : known[h] = Absent /\ known'[h] # Absent
    BY <1>4 DEF InPicture, Held
  <2> HIDE DEF new
  <2> QED
    BY <2>1, <2>2
<1>7. CASE e \in Edited(edits)
  <2>1. e.kind = "changed" /\ e.id \in edits
    BY <1>7 DEF Edited
  <2>2. \A h \in edits : known[h] # Absent /\ known'[h] # known[h]
    BY <1>4 DEF InPicture
  <2> HIDE DEF edits
  <2> QED
    BY <2>1, <2>2
<1> QED
  BY <1>3, <1>5, <1>6, <1>7

\* So does a rebase on an enumeration in one report.
LEMMA RebaseIsTrue ==
  ASSUME Inv, Rebase, ~cut, NEW e \in out'
  PROVE  CASE e.kind = "added"   -> known[e.id] = Absent /\ known'[e.id] # Absent
           [] e.kind = "changed" -> known[e.id] # Absent /\ known'[e.id] # known[e.id]
           [] OTHER -> known[e.id] # Absent /\ server[e.id] # known[e.id]
<1>1. TypeOK /\ e \in RebaseEvents
  BY DEF Inv, Rebase, Report, Silent
<1>2. \A h \in Members :
        /\ Len(seen[h]) <= 1
        /\ complete /\ seen[h] = <<>> /\ known[h] # Absent => server[h] # known[h]
  BY DEF Inv, Ended, Rebase
<1>3. \A h \in Listed : known'[h] = Fresh(h) /\ Fresh(h) # Absent /\ Fresh(h) = Head(seen[h])
  <2> SUFFICES ASSUME NEW h \in Listed
               PROVE  known'[h] = Fresh(h) /\ Fresh(h) # Absent /\ Fresh(h) = Head(seen[h])
    OBVIOUS
  <2>1. known'[h] = Fresh(h)
    BY DEF Rebase, Rebased, Listed
  <2>2. Fresh(h) # Absent
    BY <1>1, FreshType DEF Absent
  <2>3. Len(seen[h]) = 1
    BY <1>1, <1>2, FreshType DEF Listed
  <2> QED
    BY <2>1, <2>2, <2>3 DEF Fresh
<1> DEFINE new == {h \in Listed : h \notin InPicture \/ Len(seen[h]) > 1}
           edits == {h \in Listed \cap InPicture : known[h] # Head(seen[h])}
<1>4. CASE e \in Edited(edits)
  <2>1. e.kind = "changed" /\ e.id \in edits
    BY <1>4 DEF Edited
  <2>2. \A h \in edits : known[h] # Absent /\ known'[h] # known[h]
    BY <1>3 DEF InPicture
  <2> HIDE DEF edits
  <2> QED
    BY <2>1, <2>2
<1>5. CASE e \in Added(new)
  <2>1. e.kind = "added" /\ e.id \in new
    BY <1>5 DEF Added
  <2>2. \A h \in new : known[h] = Absent /\ known'[h] # Absent
    <3>1. \A h \in Listed : ~(Len(seen[h]) > 1)
      BY <1>1, <1>2, LenProperties DEF TypeOK, Listed
    <3> QED
      BY <1>3, <3>1 DEF InPicture, Listed
  <2> HIDE DEF new
  <2> QED
    BY <2>1, <2>2
<1>6. CASE complete /\ e \in Removed(InPicture \ Listed)
  <2>1. e.kind = "removed" /\ e.id \in InPicture \ Listed
    BY <1>6 DEF Removed
  <2>2. \A h \in InPicture \ Listed : known[h] # Absent /\ server[h] # known[h]
    BY <1>2, <1>6 DEF InPicture, Listed
  <2> QED
    BY <2>1, <2>2
<1> QED
  BY <1>1, <1>4, <1>5, <1>6 DEF RebaseEvents

\* What is reported happened, for any members and however the server cuts its
\* reports: a truncated listing never reads as removals (rebase, reconcile).
THEOREM EventsHappened == Spec => EventsAreTrue
<1>1. ASSUME Inv, [Next]_vars, ~(pc = "rebase" /\ cut), NEW e \in out', ~(UNCHANGED vars)
      PROVE  CASE e.kind = "added"   -> known[e.id] = Absent /\ known'[e.id] # Absent
               [] e.kind = "changed" -> known[e.id] # Absent /\ known'[e.id] # known[e.id]
               [] OTHER -> known[e.id] # Absent /\ server[e.id] # known[e.id]
  <2>1. CASE Rebase
    BY <1>1, <2>1, RebaseIsTrue DEF Rebase
  <2>2. CASE Sync
    BY <1>1, <2>2, SyncIsTrue
  <2>3. CASE ~Rebase /\ ~Sync
    BY <1>1, <2>3 DEF Next, Answered, Open, EnumPage, EnumRefused, List, ReadAlarms,
       SyncRejected, Refresh, Poll, Stop, RunAgain, SessionEnds, RequestShutdown, Others, Silent
  <2> QED
    BY <2>1, <2>2, <2>3
<1>2. Inv /\ [Next]_vars =>
        [~(pc = "rebase" /\ cut) => \A e \in out' :
           CASE e.kind = "added"   -> known[e.id] = Absent /\ known'[e.id] # Absent
             [] e.kind = "changed" -> known[e.id] # Absent /\ known'[e.id] # known[e.id]
             [] OTHER -> known[e.id] # Absent /\ server[e.id] # known[e.id]]_vars
  BY <1>1
<1> QED
  BY Invariant, <1>2, PTL DEF Spec, EventsAreTrue

=============================================================================
