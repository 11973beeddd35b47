--------------------------- MODULE TokenPoll_proofs ---------------------------
(***************************************************************************)
(* The picture a Google or a Graph watch holds follows its collection, for *)
(* every collection and every way the pages of a reading are cut, named    *)
(* again and overtaken: by writes, by failures, by tokens that expire.     *)
(***************************************************************************)
EXTENDS TokenPoll, SequenceTheorems, TLAPS

USE DEF Kept, Unversioned, IsDelta

TypeOK ==
  /\ rev \in Nat /\ rev >= 1
  /\ server \in [Members -> Nat] /\ lastmod \in [Members -> Nat]
  /\ \A m \in Members : lastmod[m] <= rev
  /\ \A m \in Held : lastmod[m] >= 1
  /\ token \in Nat /\ token <= rev
  /\ feed \in {"token", "delta", "contacts", "listing"}
  /\ rows \in [Members -> Seq(Int)] /\ readAt \in [Members -> Nat] /\ began \in Nat

\* What the pages read so far say: each row was read since the reading began,
\* which is since the token; the last row of a member not written since stands,
\* and so does every row of one not written since the reading began.
Read ==
  /\ pc = "round" => token # NoToken
  /\ began <= rev
  /\ began # 0 => token <= began
  /\ \A m \in Members :
       /\ readAt[m] <= rev
       /\ rows[m] = <<>> <=> readAt[m] = 0
       /\ rows[m] # <<>> => /\ began # 0 /\ began <= readAt[m]
                            /\ lastmod[m] <= readAt[m] => Last(rows[m]) = Kept(server[m])
       /\ lastmod[m] <= began => \A i \in 1 .. Len(rows[m]) : rows[m][i] = Kept(server[m])

\* What KnownIsCurrent says, as long as the token is held.
Current ==
  token # NoToken => \A m \in Members :
    lastmod[m] <= token => known[m] = Kept(server[m]) \/ (m \in ghosts /\ m \notin Held)

Inv == TypeOK /\ Read /\ Current

\* What the picture keeps of a member tells one held from one that is not.
LEMMA KeptIsHeld ==
  ASSUME TypeOK, NEW m \in Members
  PROVE  /\ Kept(server[m]) \in Int
         /\ Kept(server[m]) = Absent <=> m \notin Held
BY DEF TypeOK, Absent, Held

LEMMA Initially == Init => Inv
<1> SUFFICES ASSUME Init PROVE Inv
  OBVIOUS
<1>1. TypeOK
  BY TokenPollAssumption
     DEF Init, CollectionInit, TypeOK, Absent, NoToken, Held, NoRows, NothingRead
<1>2. Read
  BY DEF Init, CollectionInit, Read, NoRows, NothingRead
<1>3. Current
  BY DEF Init, Current
<1> QED
  BY <1>1, <1>2, <1>3 DEF Inv

-----------------------------------------------------------------------------
(* What a listing holds *)

\* Of a member whose last row stands, that row; of one no row of which stands,
\* nothing (the filter and collect of baseline and relist).
LEMMA FreshIsTheLast ==
  ASSUME rows \in [Members -> Seq(Int)], NEW m \in Members
  PROVE  /\ rows[m] # <<>> /\ Last(rows[m]) # Absent => Fresh[m] = Last(rows[m])
         /\ (\A i \in 1 .. Len(rows[m]) : rows[m][i] = Absent) => Fresh[m] = Absent
<1>1. rows[m] \in Seq(Int) /\ Len(rows[m]) \in Nat
  OBVIOUS
<1>2. ASSUME rows[m] # <<>>, Last(rows[m]) # Absent
      PROVE  Fresh[m] = Last(rows[m])
  <2>1. Len(rows[m]) \in Standing(m)
    BY <1>1, <1>2 DEF Standing, Last
  <2>2. \A i \in Standing(m) : i \in Nat /\ i <= Len(rows[m])
    BY <1>1 DEF Standing
  <2>3. (CHOOSE i \in Standing(m) : \A j \in Standing(m) : j <= i) = Len(rows[m])
    <3>1. \A i \in Standing(m) :
            (\A j \in Standing(m) : j <= i) <=> i = Len(rows[m])
      BY <1>1, <2>1, <2>2
    <3> QED
      BY <2>1, <3>1
  <2>4. Standing(m) # {}
    BY <2>1
  <2> QED
    BY <2>3, <2>4 DEF Fresh, Last
<1>3. ASSUME \A i \in 1 .. Len(rows[m]) : rows[m][i] = Absent
      PROVE  Fresh[m] = Absent
  <2>1. Standing(m) = {}
    BY <1>3 DEF Standing
  <2> QED
    BY <2>1 DEF Fresh
<1> QED
  BY <1>2, <1>3

\* The picture's reading of a member, then one per row.
LEMMA ReadingsAreRows ==
  ASSUME rows \in [Members -> Seq(Int)], NEW m \in Members
  PROVE  /\ Len(Readings(m)) = Len(rows[m]) + 1
         /\ Readings(m)[1] = known[m]
         /\ \A i \in 1 .. Len(rows[m]) : Readings(m)[i + 1] = rows[m][i]
         /\ Last(Readings(m)) = IF rows[m] = <<>> THEN known[m] ELSE Last(rows[m])
<1> DEFINE S == Int \cup {known[m]}
<1>1. rows[m] \in Seq(S)
  BY SeqMonotonic, Int \subseteq S
<1>2. <<known[m]>> \in Seq(S) /\ Len(<<known[m]>>) = 1 /\ <<known[m]>>[1] = known[m]
  OBVIOUS
<1> HIDE DEF S
<1>3. /\ Len(Readings(m)) = 1 + Len(rows[m])
      /\ \A i \in 1 .. 1 + Len(rows[m]) :
           Readings(m)[i] = IF i <= 1 THEN <<known[m]>>[i] ELSE rows[m][i - 1]
  BY <1>1, <1>2, ConcatProperties DEF Readings
<1>4. Len(rows[m]) \in Nat /\ (rows[m] = <<>> <=> Len(rows[m]) = 0)
  BY <1>1, EmptySeq
<1>5. Len(Readings(m)) = Len(rows[m]) + 1 /\ Readings(m)[1] = known[m]
  BY <1>2, <1>3, <1>4
<1>6. ASSUME NEW i \in 1 .. Len(rows[m])
      PROVE  Readings(m)[i + 1] = rows[m][i]
  <2>1. i + 1 \in 1 .. 1 + Len(rows[m]) /\ ~(i + 1 <= 1) /\ (i + 1) - 1 = i
    BY <1>4
  <2> QED
    BY <1>3, <2>1
<1>7. Last(Readings(m)) = IF rows[m] = <<>> THEN known[m] ELSE Last(rows[m])
  <2>1. CASE rows[m] = <<>>
    BY <1>4, <1>5, <2>1 DEF Last
  <2>2. CASE rows[m] # <<>>
    BY <1>4, <1>5, <1>6, <2>2 DEF Last
  <2> QED
    BY <2>1, <2>2
<1> QED
  BY <1>5, <1>6, <1>7

-----------------------------------------------------------------------------
(* What the last page of a reading makes of the picture *)

\* A reading that owes nothing reaches where it says it does.
LEMMA ReachIsRead ==
  ASSUME Inv
  PROVE  Reach \in Nat /\ Reach <= rev /\ (~IsDelta /\ began # 0 => Reach = began)
         /\ Reach # 0 /\ (began # 0 => began <= Reach) /\ token <= Reach
BY DEF Inv, TypeOK, Read, Reach

\* A listing: of every member not written since, what the collection holds, but
\* for what it keeps of a member a later page took back.
LEMMA ListingIsCurrent ==
  ASSUME Inv, pc = "list", Owed(Reach) = {}, feed # "listing",
         NEW m \in Members, lastmod[m] <= Reach
  PROVE  Fresh[m] = Kept(server[m]) \/ (m \in TakenBack /\ m \notin Held)
<1> USE DEF Inv, TypeOK, NoToken
<1>1. rows \in [Members -> Seq(Int)] /\ lastmod[m] \in Nat /\ readAt[m] \in Nat
  OBVIOUS
<1>2. Reach \in Nat /\ From = 0
  BY ReachIsRead DEF From
<1>3. lastmod[m] >= 1 => \/ lastmod[m] <= readAt[m]
                         \/ m \notin Held /\ ~(IsDelta /\ rows[m] # <<>>)
  BY <1>1, <1>2 DEF Owed
<1>4. CASE m \in Held
  <2>1. Kept(server[m]) # Absent /\ lastmod[m] >= 1
    BY <1>4, KeptIsHeld
  <2>2. lastmod[m] <= readAt[m] /\ readAt[m] # 0
    BY <1>1, <1>3, <1>4, <2>1
  <2>3. rows[m] # <<>> /\ Last(rows[m]) = Kept(server[m])
    BY <2>2 DEF Read
  <2> HIDE DEF Kept
  <2> QED
    BY <1>1, <2>1, <2>3, FreshIsTheLast
<1>5. CASE m \notin Held
  <2>1. Kept(server[m]) = Absent
    BY <1>5, KeptIsHeld
  <2>2. CASE rows[m] = <<>>
    <3>1. \A i \in 1 .. Len(rows[m]) : rows[m][i] = Absent
      BY <2>2
    <3> QED
      BY <1>1, <2>1, <3>1, FreshIsTheLast
  <2>3. CASE rows[m] # <<>>
    <3>1. lastmod[m] <= readAt[m]
      <4>1. CASE IsDelta
        BY <1>1, <1>3, <2>3, <4>1
      <4>2. CASE feed = "token"
        <5>1. began # 0 /\ began <= readAt[m]
          BY <2>3 DEF Read
        <5>2. Reach = began
          BY <4>2, <5>1, ReachIsRead
        <5> QED
          BY <1>1, <5>1, <5>2
      <4> QED
        BY <4>1, <4>2
    <3>2. Last(rows[m]) = Absent
      BY <2>1, <2>3, <3>1 DEF Read
    <3>3. Fresh[m] # Absent => m \in TakenBack
      BY <2>3, <3>2 DEF TakenBack
    <3> QED
      BY <1>5, <2>1, <3>3
  <2> QED
    BY <2>2, <2>3
<1> QED
  BY <1>4, <1>5

\* A round: of every member not written since, what the collection holds, but for
\* a member a listing kept that no page has named since.
LEMMA RoundIsCurrent ==
  ASSUME Inv, pc = "round", token # NoToken, Owed(Reach) = {},
         NEW m \in Members, lastmod[m] <= Reach
  PROVE  Applied[m] = Kept(server[m]) \/ (m \in ghosts /\ rows[m] = <<>> /\ m \notin Held)
<1> USE DEF Inv, TypeOK, NoToken
<1>1. rows \in [Members -> Seq(Int)] /\ lastmod[m] \in Nat /\ readAt[m] \in Nat
  OBVIOUS
<1>2. Reach \in Nat /\ From = token
  BY ReachIsRead DEF From
<1>3. Applied[m] = IF rows[m] = <<>> THEN known[m] ELSE Last(rows[m])
  BY <1>1, ReadingsAreRows DEF Applied
<1>4. lastmod[m] > token => lastmod[m] <= readAt[m]
  BY <1>1, <1>2 DEF Owed
<1>5. CASE rows[m] = <<>>
  <2>1. lastmod[m] <= token
    <3>1. readAt[m] = 0
      BY <1>5 DEF Read
    <3> QED
      BY <1>1, <1>4, <3>1
  <2> QED
    BY <1>3, <1>5, <2>1 DEF Current
<1>6. CASE rows[m] # <<>>
  <2>1. token <= began /\ began <= readAt[m]
    BY <1>6 DEF Read
  <2>2. lastmod[m] <= readAt[m]
    BY <1>1, <1>4, <2>1 DEF Read
  <2> QED
    BY <1>3, <1>6, <2>2 DEF Read
<1> QED
  BY <1>5, <1>6

-----------------------------------------------------------------------------
(* The steps *)

\* A step that leaves the picture and the collection alone, and keeps what it has
\* read or drops it.
LEMMA NothingMoves ==
  ASSUME Inv, UNCHANGED <<srv, feed, known, token, ghosts>>,
         pc' = "round" => token # NoToken,
         Afresh \/ UNCHANGED reading
  PROVE  Inv'
<1>1. Held' = Held
  BY DEF srv, Held
<1>2. TypeOK'
  <2>1. /\ rows' \in [Members -> Seq(Int)] /\ readAt' \in [Members -> Nat]
        /\ began' \in Nat
    <3>1. CASE Afresh
      BY <3>1, EmptySeq DEF Afresh, NoRows, NothingRead
    <3>2. CASE UNCHANGED reading
      BY <3>2 DEF Inv, TypeOK, reading
    <3> QED
      BY <3>1, <3>2
  <2> QED
    BY <1>1, <2>1 DEF Inv, TypeOK, srv
<1>3. Current'
  BY <1>1 DEF Inv, Current, srv
<1>4. Read'
  <2>1. CASE Afresh
    BY <2>1 DEF Inv, TypeOK, Read, srv, Afresh, NoRows, NothingRead
  <2>2. CASE UNCHANGED reading
    BY <2>2 DEF Inv, Read, srv, reading, Last
  <2> QED
    BY <2>1, <2>2
<1> QED
  BY <1>2, <1>3, <1>4 DEF Inv

\* A reading that ends with a picture current as of the token it hands back.
LEMMA ReadingEnds ==
  ASSUME Inv, UNCHANGED <<srv, feed>>, Afresh, pc' = "idle",
         token' = TokenAt(Reach),
         feed # "listing" => \A m \in Members : lastmod[m] <= Reach =>
           known'[m] = Kept(server[m]) \/ (m \in ghosts' /\ m \notin Held)
  PROVE  Inv'
<1>1. Held' = Held
  BY DEF srv, Held
<1>2. token' \in Nat /\ token' <= rev /\ (token' # 0 => feed # "listing" /\ token' = Reach)
  BY ReachIsRead DEF TokenAt, NoToken, Inv, TypeOK
<1>3. TypeOK'
  BY <1>1, <1>2, EmptySeq DEF Inv, TypeOK, srv, Afresh, NoRows, NothingRead
<1>4. Read'
  BY DEF Inv, TypeOK, Read, srv, Afresh, NoRows, NothingRead
<1>5. Current'
  BY <1>1, <1>2 DEF Current, srv, NoToken
<1> QED
  BY <1>3, <1>4, <1>5 DEF Inv

\* One more row.
LEMMA RowAppended ==
  ASSUME NEW s \in Seq(Int), NEW v \in Int
  PROVE  /\ Append(s, v) # <<>> /\ Len(Append(s, v)) = Len(s) + 1
         /\ \A i \in 1 .. Len(s) : Append(s, v)[i] = s[i]
         /\ Append(s, v)[Len(s) + 1] = v
BY AppendProperties

\* A page reads its members as the collection holds them.
LEMMA PageKeeps ==
  ASSUME Inv, Page
  PROVE  Inv'
<1> USE DEF Inv, TypeOK
<1>1. PICK S \in SUBSET Nameable :
        /\ rows' = [m \in Members |-> IF m \in S THEN Append(rows[m], Kept(server[m])) ELSE rows[m]]
        /\ readAt' = [m \in Members |-> IF m \in S THEN rev ELSE readAt[m]]
  BY DEF Page
<1>2. /\ UNCHANGED <<rev, server, lastmod, feed, known, token, ghosts>>
      /\ Held' = Held
  BY DEF Page, srv, Held
<1>3. /\ began' \in Nat /\ began' # 0 /\ began' <= rev /\ token <= began'
      /\ began # 0 => began' = began
  BY DEF Page, Read
<1>4. TypeOK'
  <2>1. rows' \in [Members -> Seq(Int)] /\ readAt' \in [Members -> Nat]
    BY <1>1
  <2> QED
    BY <1>2, <1>3, <2>1
<1>5. Read'
  <2> SUFFICES ASSUME NEW m \in Members
      PROVE  /\ readAt'[m] <= rev
             /\ rows'[m] = <<>> <=> readAt'[m] = 0
             /\ rows'[m] # <<>> =>
                  /\ began' <= readAt'[m]
                  /\ lastmod[m] <= readAt'[m] => Last(rows'[m]) = Kept(server[m])
             /\ lastmod[m] <= began' => \A i \in 1 .. Len(rows'[m]) : rows'[m][i] = Kept(server[m])
    BY <1>2, <1>3 DEF Read, Last, Page
  <2>1. rows[m] \in Seq(Int) /\ Kept(server[m]) \in Int
    BY KeptIsHeld
  <2>2. CASE m \in S
    <3>1. rows'[m] = Append(rows[m], Kept(server[m])) /\ readAt'[m] = rev
      BY <1>1, <2>2
    <3>2. /\ Len(rows'[m]) = Len(rows[m]) + 1 /\ rows'[m] # <<>>
          /\ \A i \in 1 .. Len(rows[m]) : rows'[m][i] = rows[m][i]
          /\ rows'[m][Len(rows[m]) + 1] = Kept(server[m])
      <4> HIDE DEF Kept
      <4>1. /\ Append(rows[m], Kept(server[m])) # <<>>
            /\ Len(Append(rows[m], Kept(server[m]))) = Len(rows[m]) + 1
            /\ \A i \in 1 .. Len(rows[m]) : Append(rows[m], Kept(server[m]))[i] = rows[m][i]
            /\ Append(rows[m], Kept(server[m]))[Len(rows[m]) + 1] = Kept(server[m])
        BY <2>1, RowAppended
      <4> QED
        BY <3>1, <4>1
    <3>3. Last(rows'[m]) = Kept(server[m])
      BY <3>2 DEF Last
    <3>4. lastmod[m] <= began' => \A i \in 1 .. Len(rows[m]) : rows[m][i] = Kept(server[m])
      <4>1. CASE began = 0
        <5>1. rows[m] = <<>>
          BY <4>1 DEF Read
        <5> QED
          BY <5>1
      <4>2. CASE began # 0
        BY <1>3, <4>2 DEF Read
      <4> QED
        BY <4>1, <4>2
    <3>5. lastmod[m] <= began' => \A i \in 1 .. Len(rows'[m]) : rows'[m][i] = Kept(server[m])
      <4>1. \A i \in 1 .. Len(rows'[m]) :
              i \in 1 .. Len(rows[m]) \/ i = Len(rows[m]) + 1
        BY <2>1, <3>2
      <4> QED
        BY <3>2, <3>4, <4>1
    <3>6. readAt'[m] <= rev /\ readAt'[m] # 0 /\ began' <= readAt'[m]
      BY <1>3, <3>1
    <3>7. rows'[m] # <<>>
      BY <3>2
    <3> HIDE DEF Inv, TypeOK
    <3> QED
      BY <3>3, <3>5, <3>6, <3>7
  <2>3. CASE m \notin S
    <3>1. rows'[m] = rows[m] /\ readAt'[m] = readAt[m]
      BY <1>1, <2>3
    <3>2. CASE rows[m] = <<>>
      BY <3>1, <3>2 DEF Read
    <3>3. CASE rows[m] # <<>>
      BY <1>3, <3>1, <3>3 DEF Read
    <3> QED
      BY <3>2, <3>3
  <2> QED
    BY <2>2, <2>3
<1>6. Current'
  BY <1>2 DEF Current
<1> QED
  BY <1>4, <1>5, <1>6

\* What others write is past the token, past every page, and past where the
\* reading under way began.
LEMMA OthersKeep ==
  ASSUME Inv, Others
  PROVE  Inv'
<1> USE DEF Inv, TypeOK
<1>1. UNCHANGED <<feed, pc, known, token, ghosts, began, rows, readAt>>
  BY DEF Others, reading
<1>2. CASE Expire
  <2>1. UNCHANGED <<rev, server, lastmod>> /\ Held' = Held
    BY <1>2 DEF Expire, Held
  <2> QED
    BY <1>1, <2>1 DEF Read, Current, Last
<1>3. ASSUME NEW m \in Members, NEW version \in Nat, Write(m, version)
      PROVE  Inv'
  <2>1. /\ rev' = rev + 1
        /\ server' = [server EXCEPT ![m] = version]
        /\ lastmod' = [lastmod EXCEPT ![m] = rev + 1]
    BY <1>3 DEF Write
  <2>2. lastmod'[m] = rev + 1
    BY <2>1
  <2>3. \A n \in Members \ {m} :
          server'[n] = server[n] /\ lastmod'[n] = lastmod[n] /\ (n \in Held' <=> n \in Held)
    BY <2>1 DEF Held
  <2>4. TypeOK'
    <3>1. server' \in [Members -> Nat] /\ lastmod' \in [Members -> Nat]
      BY <1>3, <2>1
    <3>2. \A n \in Members : lastmod'[n] <= rev'
      BY <2>1, <2>2, <2>3
    <3>3. \A n \in Held' : n \in Members /\ lastmod'[n] >= 1
      <4>1. \A n \in Held' : n \in Members
        BY DEF Held
      <4>2. \A n \in Held' \ {m} : lastmod'[n] >= 1
        BY <2>3, <4>1
      <4>3. lastmod'[m] >= 1
        BY <2>2
      <4> QED
        BY <4>1, <4>2, <4>3
    <3> QED
      BY <1>1, <2>1, <3>1, <3>2, <3>3
  <2>5. Read'
    <3> SUFFICES ASSUME NEW n \in Members
        PROVE  /\ lastmod'[n] <= readAt[n] => (rows[n] # <<>> => Last(rows[n]) = Kept(server'[n]))
               /\ lastmod'[n] <= began => \A i \in 1 .. Len(rows[n]) : rows[n][i] = Kept(server'[n])
      BY <1>1, <2>1 DEF Read, Last, Others
    <3>1. CASE n = m
      <4>1. readAt[m] <= rev /\ began <= rev
        BY DEF Read
      <4> QED
        BY <2>2, <3>1, <4>1
    <3>2. CASE n # m
      BY <2>3, <3>2 DEF Read
    <3> QED
      BY <3>1, <3>2
  <2>6. Current'
    BY <1>1, <2>1, <2>2, <2>3 DEF Current
  <2> QED
    BY <2>4, <2>5, <2>6
<1>4. rev + 1 \in Nat /\ Absent \in Nat /\ Held \subseteq Members
  BY DEF Absent, Held
<1> QED
  BY <1>2, <1>3, <1>4 DEF Others, Put, Delete

LEMMA Inductive == Inv /\ [Next]_vars => Inv'
<1> SUFFICES ASSUME Inv, [Next]_vars PROVE Inv'
  OBVIOUS
<1>1. CASE Open \/ Poll \/ RunAgain \/ TokenExpired
  BY <1>1, NothingMoves DEF Open, Poll, RunAgain, TokenExpired, FirstPage
<1>2. CASE Stop \/ RequestShutdown
  BY <1>2, NothingMoves DEF Stop, RequestShutdown, Inv, Read
<1>3. CASE Page
  BY <1>3, PageKeeps
<1>4. CASE Armed \/ Relisted
  <2>1. /\ pc = "list" /\ pc' = "idle" /\ Owed(Reach) = {} /\ Afresh /\ UNCHANGED <<srv, feed>>
        /\ known' = Fresh /\ token' = TokenAt(Reach) /\ ghosts' = TakenBack
    BY <1>4 DEF Armed, Relisted
  <2> QED
    BY <2>1, ListingIsCurrent, ReadingEnds
<1>5. CASE Applies
  <2>1. /\ pc = "round" /\ pc' = "idle" /\ Owed(Reach) = {} /\ Afresh /\ UNCHANGED <<srv, feed>>
        /\ known' = Applied /\ token' = TokenAt(Reach)
        /\ ghosts' = {m \in ghosts : rows[m] = <<>>}
    BY <1>5 DEF Applies
  <2>2. token # NoToken
    BY <2>1 DEF Inv, Read
  <2> QED
    BY <2>1, <2>2, RoundIsCurrent, ReadingEnds
<1>6. CASE SessionEnds
  <2>1. Held' = Held
    BY <1>6 DEF SessionEnds, srv, Held
  <2> QED
    BY <1>6, <2>1, EmptySeq
       DEF SessionEnds, Inv, TypeOK, Read, Current, srv, Afresh, NoRows, NothingRead, NoToken
<1>7. CASE Others
  BY <1>7, OthersKeep
<1>8. CASE UNCHANGED vars
  BY <1>8, NothingMoves DEF vars, Inv, Read
<1> QED
  BY <1>1, <1>2, <1>3, <1>4, <1>5, <1>6, <1>7, <1>8 DEF Next, Answered

THEOREM Invariant == Spec => []Inv
BY Initially, Inductive, PTL DEF Spec

-----------------------------------------------------------------------------
(* What is proved of the picture *)

\* The picture is what the collection holds as of the token, whichever page it
\* was cut at and whatever was written meanwhile, but for the members a listing
\* of a delta feed keeps after it took them back (reconcile, relist).
THEOREM PictureIsCurrent == Spec => []KnownIsCurrent
<1>1. Inv => KnownIsCurrent
  BY DEF Inv, Current, KnownIsCurrent, Settled
<1> QED
  BY <1>1, Invariant, PTL

\* What a member not written since the token is read as: what it was then.
LEMMA ReadAsItWas ==
  ASSUME Inv, NEW m \in Members \ ghosts, token # NoToken, lastmod[m] <= token
  PROVE  known[m] = Kept(server[m]) /\ \A i \in 1 .. Len(rows[m]) : rows[m][i] = Kept(server[m])
<1>1. known[m] = Kept(server[m])
  BY DEF Inv, Current
<1>2. CASE began = 0
  <2>1. rows[m] = <<>>
    BY <1>2 DEF Inv, Read
  <2> QED
    BY <1>1, <2>1
<1>3. CASE began # 0
  <2>1. lastmod[m] <= began
    BY <1>3 DEF Inv, TypeOK, Read
  <2> QED
    BY <1>1, <2>1 DEF Inv, Read
<1> QED
  BY <1>2, <1>3

\* A round, and a listing after a token expired, report of a member only what
\* happened since the token, however often its pages name it (rebase, reconcile).
THEOREM ReportsAreNews == Spec => EventsAreNews
<1> DEFINE News == \A m \in Members \ ghosts :
                     token # NoToken /\ lastmod[m] <= token => out'[m] \subseteq Named
<1>1. \A v : /\ Story(v, v, FALSE) = {}
             /\ Story(v, v, TRUE) \subseteq {"changed"}
             /\ v # Unversioned => Story(v, v, TRUE) = {}
  BY DEF Story
<1>2. ASSUME Inv, NEW m \in Members \ ghosts, token # NoToken, lastmod[m] <= token,
             Relisted
      PROVE  out'[m] = {}
  <2>1. /\ known[m] = Kept(server[m])
        /\ \A i \in 1 .. Len(rows[m]) : rows[m][i] = Kept(server[m])
    BY <1>2, ReadAsItWas
  <2>2. rows \in [Members -> Seq(Int)]
    BY <1>2 DEF Inv, TypeOK
  <2>3. Fresh[m] = Kept(server[m])
    <3>1. CASE m \notin Held
      <4>1. Kept(server[m]) = Absent
        BY <1>2, <3>1, KeptIsHeld DEF Inv
      <4> HIDE DEF Kept
      <4> QED
        BY <2>1, <2>2, <4>1, FreshIsTheLast
    <3>2. CASE m \in Held
      <4>1. lastmod[m] \in 1 .. Reach
        BY <1>2, <3>2, ReachIsRead DEF Inv, TypeOK
      <4>2. lastmod[m] <= readAt[m]
        <5>1. From = 0 /\ lastmod[m] \in Nat /\ readAt[m] \in Nat
          BY <1>2 DEF Relisted, From, NoToken, Inv, TypeOK
        <5>2. m \notin Owed(Reach)
          BY <1>2 DEF Relisted
        <5> QED
          BY <1>2, <3>2, <4>1, <5>1, <5>2 DEF Owed
      <4>3. rows[m] # <<>> /\ Last(rows[m]) = Kept(server[m])
        BY <1>2, <4>1, <4>2, ReachIsRead DEF Inv, TypeOK, Read
      <4>4. Kept(server[m]) # Absent
        BY <1>2, <3>2, KeptIsHeld DEF Inv
      <4> HIDE DEF Kept
      <4> QED
        BY <2>2, <4>3, <4>4, FreshIsTheLast
    <3> QED
      BY <3>1, <3>2
  <2>4. out'[m] = Story(known[m], Fresh[m], FALSE)
    BY <1>2 DEF Relisted
  <2> QED
    BY <1>1, <2>1, <2>3, <2>4
<1>3. ASSUME Inv, NEW m \in Members \ ghosts, token # NoToken, lastmod[m] <= token,
             Applies
      PROVE  out'[m] \subseteq Named
  <2>1. /\ known[m] = Kept(server[m])
        /\ \A i \in 1 .. Len(rows[m]) : rows[m][i] = Kept(server[m])
    BY <1>3, ReadAsItWas
  <2>2. rows \in [Members -> Seq(Int)] /\ Len(rows[m]) \in Nat
    BY <1>3 DEF Inv, TypeOK
  <2>3. \A i \in 1 .. Len(rows[m]) + 1 : Readings(m)[i] = Kept(server[m])
    <3>1. /\ Readings(m)[1] = known[m]
          /\ \A i \in 1 .. Len(rows[m]) : Readings(m)[i + 1] = rows[m][i]
      BY <2>2, ReadingsAreRows
    <3>2. \A i \in 1 .. Len(rows[m]) + 1 : i = 1 \/ (i - 1 \in 1 .. Len(rows[m]) /\ i = (i - 1) + 1)
      BY <2>2
    <3> QED
      BY <2>1, <3>1, <3>2
  <2>4. \A i \in 1 .. Len(rows[m]) : Readings(m)[i] = Kept(server[m]) /\ Readings(m)[i + 1] = Kept(server[m])
    BY <2>2, <2>3
  <2>5. \A i \in 1 .. Len(rows[m]) :
          Story(Readings(m)[i], Readings(m)[i + 1], TRUE) \subseteq Named
    <3>1. \A i \in 1 .. Len(rows[m]) :
            Story(Readings(m)[i], Readings(m)[i + 1], TRUE)
              = Story(Kept(server[m]), Kept(server[m]), TRUE)
      BY <2>4
    <3>2. Story(Kept(server[m]), Kept(server[m]), TRUE) \subseteq Named
      <4>1. CASE feed = "contacts"
        BY <1>1, <1>3, <4>1 DEF Named, Applies
      <4>2. CASE feed # "contacts"
        <5>1. Kept(server[m]) # Unversioned
          BY <1>3, <4>2 DEF Inv, TypeOK
        <5> QED
          BY <1>1, <5>1
      <4> QED
        BY <4>1, <4>2
    <3> QED
      BY <3>1, <3>2
  <2>6. out'[m] = UNION {Story(Readings(m)[i], Readings(m)[i + 1], TRUE) : i \in 1 .. Len(rows[m])}
    BY <1>3 DEF Applies, AppliedOut
  <2> QED
    BY <2>5, <2>6
<1>4. ASSUME Silent PROVE News
  BY <1>4 DEF Silent
<1>5. Inv /\ [Next]_vars => [News]_vars
  <2> SUFFICES ASSUME Inv, Next PROVE News
    OBVIOUS
  <2>1. CASE Relisted \/ Applies
    <3>1. \A m \in Members : lastmod[m] \in Nat /\ token \in Nat
      BY DEF Inv, TypeOK
    <3> QED
      BY <1>2, <1>3, <2>1, <3>1
  <2>2. CASE Page \/ Armed \/ TokenExpired \/ Open \/ Poll \/ Stop
    BY <1>4, <2>2 DEF Page, Armed, TokenExpired, Open, Poll, Stop
  <2>3. CASE RunAgain \/ SessionEnds \/ RequestShutdown \/ Others
    BY <1>4, <2>3 DEF RunAgain, SessionEnds, RequestShutdown, Others
  <2> QED
    BY <2>1, <2>2, <2>3 DEF Next, Answered
<1> QED
  BY <1>5, Invariant, PTL DEF Spec, EventsAreNews

=============================================================================
