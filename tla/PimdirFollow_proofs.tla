------------------------ MODULE PimdirFollow_proofs ------------------------
(***************************************************************************)
(* Proofs about the follower of a pimdir store, for any number of items,   *)
(* collections and commits and any size of a page.                         *)
(*                                                                         *)
(* The book is current as of the cursor because a reading keeps two        *)
(* promises up to the page it has reached: what it read of an item that    *)
(* has not moved since the reading began is what the item is, and it named *)
(* every item that moved since the cursor, and no other.                   *)
(*                                                                         *)
(* What needs an induction over numbers, as the last key of a page does,   *)
(* has it from the least number of a set.                                  *)
(***************************************************************************)
EXTENDS PimdirFollow, SequenceTheorems, FiniteSetTheorems, WellFoundedInduction, TLAPS

Counts ==
  /\ after \in Nat
  /\ read \in [Items -> {Unsaid, Failed, Gone} \cup 1 .. commits]

\* The rows purged or deleted are fewer than the commits.
Buried == {i \in Items : row[i] = Gone}

\* A commit stamps one row, and every purge is of a row that was deleted.
StoreInv ==
  /\ \A i, j \in Items : stamp[i] = stamp[j] /\ stamp[i] # 0 => i = j
  /\ purges + Cardinality(Buried) <= commits

\* The store a cursor was read at, unpurged since, and an item that has not moved since.
Same(c)      == c.resets = resets /\ c.purges = purges
Stands(c, i) == Same(c) /\ stamp[i] <= c.changed

\* The store never goes back, but for a reset.
Behind(c) ==
  /\ c.resets <= resets
  /\ c.resets = resets => c.changed <= changed /\ c.purges <= purges

\* An item that moved since is there to be named.
Listed(c) == Same(c) => \A i \in Items : stamp[i] > c.changed => row[i] # Absent

KindKnown(c) == Same(c) /\ moved[Calendar] <= c.changed => isCalendar \/ hidden

\* The reading under way, told from the one that is over.
InList   == pc = "list"
InFollow == pc \in {"changes", "items"}

\* What is read of an item that has not moved is what it is.
ReadAsItIs ==
  \A i \in Items : Stands(now, i) => read[i] \in {Unsaid, Failed, Found(i, {})}

\* load names every item up to the page it has reached.
ListReads ==
  \A i \in Live : Stands(now, i) /\ i <= after => read[i] # Unsaid

\* follow names every item that moved since the cursor, up to the page it has
\* reached, and no other.
Named(i) == read[i] # Unsaid \/ i \in page

FollowReads ==
  /\ after >= cursor.changed
  /\ \A i \in Items : Stands(now, i) =>
       /\ stamp[i] <= cursor.changed => ~Named(i)
       /\ stamp[i] > cursor.changed /\ (stamp[i] <= after \/ (pc = "items" /\ ~full)) => Named(i)

\* What the watch knows at each step of a reading.
Reading ==
  /\ pc \notin {"list", "changes", "items"} => read = NothingFound
  /\ pc = "check" => after = 0
  /\ pc # "items" => page = {}
  /\ pc \in {"renamed", "changes", "items"} =>
       /\ now.resets = cursor.resets /\ now.purges = cursor.purges
       /\ cursor.changed <= now.changed
  /\ pc = "renamed" => after = cursor.changed
  /\ InList \/ InFollow => ReadAsItIs /\ KindKnown(now)
  /\ InList => ListReads
  /\ InFollow => FollowReads

Inv ==
  /\ TypeOK /\ Counts
  /\ StoreInv /\ Behind(cursor) /\ Behind(now) /\ Listed(cursor) /\ Listed(now)
  /\ BookIsCurrent /\ KindKnown(cursor) /\ Reading

-----------------------------------------------------------------------------
(* Pages *)

\* Any set of numbers has a least one.
LEMMA LeastNumber ==
  ASSUME NEW S \in SUBSET Nat, S # {}
  PROVE  \E n \in S : \A m \in S : n <= m
<1> DEFINE R == OpToRel(<, Nat)
<1>1. IsWellFoundedOn(R, Nat)
  BY NatLessThanWellFounded
<1>2. \A x, y \in Nat : <<x, y>> \in R <=> x < y
  BY DEF OpToRel
<1> HIDE DEF R
<1>3. \E x \in S : \A y \in S : <<y, x>> \notin R
  <2>1. S \subseteq Nat
    OBVIOUS
  <2> QED
    BY <1>1, <2>1, WFMin, Zenon
<1>4. PICK x \in S : \A y \in S : <<y, x>> \notin R
  BY <1>3
<1>5. \A y \in S : ~(y < x)
  BY <1>2, <1>4, Zenon
<1> QED
  BY <1>5

\* A set of numbers with a bound has a greatest one.
LEMMA GreatestNumber ==
  ASSUME NEW S \in SUBSET Nat, S # {}, NEW bound \in Nat, \A n \in S : n <= bound
  PROVE  \E n \in S : \A m \in S : m <= n
<1> DEFINE Above == {n \in Nat : \A m \in S : m <= n}
<1>1. PICK n \in Above : \A m \in Above : n <= m
  <2>1. Above \in SUBSET Nat /\ Above # {}
    OBVIOUS
  <2> HIDE DEF Above
  <2> QED
    BY <2>1, LeastNumber
<1>2. n \in S
  <2> SUFFICES ASSUME n \notin S PROVE FALSE
    OBVIOUS
  <2>1. \A m \in S : m < n
    BY <1>1
  <2>2. n > 0
    <3>1. PICK m \in S : m \in Nat
      OBVIOUS
    <3> QED
      BY <2>1, <3>1
  <2>3. n - 1 \in Above
    BY <2>1, <2>2
  <2> QED
    BY <1>1, <2>3
<1> QED
  BY <1>1, <1>2

\* What holds of a number, and of the next whenever it holds of one, holds of all
\* the numbers up to a bound.
LEMMA Climb ==
  ASSUME NEW S, NEW low \in Nat, NEW high \in Nat,
         low \in S, \A n \in low .. high - 1 : n \in S => n + 1 \in S
  PROVE  \A n \in low .. high : n \in S
<1> DEFINE Out == {n \in Nat : low <= n /\ n <= high /\ n \notin S}
<1> SUFFICES ASSUME Out # {} PROVE FALSE
  OBVIOUS
<1>1. PICK n \in Out : \A m \in Out : n <= m
  <2>1. Out \in SUBSET Nat
    OBVIOUS
  <2> HIDE DEF Out
  <2> QED
    BY <2>1, LeastNumber
<1>2. n \in Nat /\ low < n /\ n <= high /\ n \notin S
  BY <1>1
<1>3. n - 1 \in S
  BY <1>1, <1>2
<1> QED
  BY <1>2, <1>3

\* Rows ordered by a key that stays under a bound.
Ordered(S, key, bound) ==
  IsFiniteSet(S) /\ bound \in Nat /\ \A x \in S : key[x] \in 0 .. bound

\* A page is finite, and past it is its last key.
LEMMA PastPage ==
  ASSUME NEW S, NEW key, NEW bound, Ordered(S, key, bound), S # {}
  PROVE  /\ \E x \in S : Past(S, key) = key[x]
         /\ \A x \in S : key[x] <= Past(S, key)
<1> DEFINE keys == {key[x] : x \in S}
<1>1. keys \in SUBSET Nat /\ keys # {} /\ \A n \in keys : n <= bound
  BY DEF Ordered
<1>2. \E n \in keys : \A m \in keys : m <= n
  <2> HIDE DEF keys
  <2> QED
    BY <1>1, GreatestNumber DEF Ordered
<1>3. \E k \in {key[x] : x \in S} : \A x \in S : key[x] <= k
  BY <1>2
<1> QED
  BY <1>3 DEF Past

\* A page leaves no row out before one it holds.
LEMMA PageIsClosed ==
  ASSUME NEW S, NEW key, NEW bound, Ordered(S, key, bound),
         NEW x \in First(S, key), NEW y \in S, key[y] <= key[x]
  PROVE  y \in First(S, key)
<1> DEFINE below(z) == {w \in S : key[w] < key[z]}
<1>1. IsFiniteSet(below(x)) /\ below(y) \subseteq below(x)
  BY FS_Subset DEF Ordered, First
<1>2. Cardinality(below(x)) < PAGE
  BY DEF First
<1>3. Cardinality(below(y)) <= Cardinality(below(x))
  BY <1>1, FS_Subset
<1>4. Cardinality(below(x)) \in Nat /\ Cardinality(below(y)) \in Nat
  BY <1>1, FS_Subset, FS_CardinalityType
<1> QED
  BY <1>2, <1>3, <1>4, PimdirAssumption DEF First

\* A page that is not full is the last.
LEMMA ShortPageIsLast ==
  ASSUME NEW S, NEW key, NEW bound, Ordered(S, key, bound),
         Cardinality(First(S, key)) < PAGE
  PROVE  First(S, key) = S
<1> SUFFICES ASSUME S \ First(S, key) # {} PROVE FALSE
  BY DEF First
<1> DEFINE keys == {key[x] : x \in S \ First(S, key)}
<1>1. keys \in SUBSET Nat /\ keys # {}
  BY DEF Ordered
<1>2. PICK n \in keys : \A m \in keys : n <= m
  <2> HIDE DEF keys
  <2> QED
    BY <1>1, LeastNumber
<1>3. PICK x \in S \ First(S, key) : n = key[x]
  BY <1>2
<1> DEFINE below == {w \in S : key[w] < key[x]}
<1>4. below \subseteq First(S, key)
  BY <1>2, <1>3 DEF Ordered
<1>5. IsFiniteSet(First(S, key))
  BY FS_Subset DEF Ordered, First
<1>6. Cardinality(below) <= Cardinality(First(S, key)) /\ IsFiniteSet(below)
  BY <1>4, <1>5, FS_Subset
<1>7. Cardinality(below) \in Nat /\ Cardinality(First(S, key)) \in Nat
  BY <1>5, <1>6, FS_CardinalityType
<1>8. Cardinality(below) < PAGE
  BY <1>6, <1>7, PimdirAssumption
<1> QED
  BY <1>3, <1>8 DEF First

\* No page holds more than it may, of rows no two of which have one key.
LEMMA PageIsBounded ==
  ASSUME NEW S, NEW key, NEW bound, Ordered(S, key, bound),
         \A x, y \in S : key[x] = key[y] => x = y
  PROVE  IsFiniteSet(First(S, key)) /\ Cardinality(First(S, key)) <= PAGE
<1>1. First(S, key) \subseteq S /\ IsFiniteSet(First(S, key))
  BY FS_Subset DEF First, Ordered
<1>2. CASE First(S, key) = {}
  BY <1>1, <1>2, FS_EmptySet, PimdirAssumption
<1>3. CASE First(S, key) # {}
  <2>1. Ordered(First(S, key), key, bound)
    BY <1>1 DEF Ordered
  <2>2. PICK x \in First(S, key) : \A y \in First(S, key) : key[y] <= key[x]
    BY <1>3, <2>1, PastPage
  <2> DEFINE below == {w \in S : key[w] < key[x]}
  <2>3. First(S, key) \subseteq below \cup {x}
    BY <1>1, <2>2 DEF Ordered
  <2>4. IsFiniteSet(below) /\ Cardinality(below) < PAGE
    BY <2>2, FS_Subset DEF Ordered, First
  <2> HIDE DEF below
  <2>5. /\ IsFiniteSet(below \cup {x}) /\ Cardinality(below \cup {x}) <= Cardinality(below) + 1
        /\ Cardinality(below) \in Nat
    BY <2>4, FS_AddElement, FS_CardinalityType
  <2>6. Cardinality(First(S, key)) <= Cardinality(below \cup {x})
    BY <2>3, <2>5, FS_Subset
  <2>7. Cardinality(First(S, key)) \in Nat /\ Cardinality(below \cup {x}) \in Nat
    BY <1>1, <2>5, FS_CardinalityType
  <2> QED
    BY <1>1, <2>4, <2>5, <2>6, <2>7, PimdirAssumption
<1> QED
  BY <1>2, <1>3

-----------------------------------------------------------------------------
(* The book *)

\* A body enters the book exactly when it rings.
LEMMA EntryIsWanted ==
  ASSUME NEW b, NEW i, NEW body \in 1 .. MaxCommits
  PROVE  Entry(b, i, body) = Wanted(body)
<1>1. body \in DOMAIN Parts /\ Parts[body] \in Seq(Component) /\ body # Nothing
  BY PimdirAssumption, PartsAssumption DEF Nothing
<1>2. \A c \in Components(body) : c \in Component
  BY <1>1 DEF Components
<1>3. \A uid : uid \in Series(body) <=>
        \E c \in Components(body) :
          c.kind \in Kinds /\ c.uid = uid /\ uid # NoUid /\ c.alarms > 0
  BY DEF Series, Uids, Ours
<1>4. \A c \in Components(body) : c.kind \in Kinds <=> c.kind # "other"
  BY <1>2 DEF Component, Kinds
<1>5. Series(body) # {} <=> Rings(body)
  BY <1>3, <1>4 DEF Rings, Components
<1> QED
  BY <1>1, <1>5 DEF Entry, Wanted

Objects == {Absent, Gone, NoBody} \cup 1 .. MaxCommits

\* What a reading notes of an item it read as it is: the alarm its body calls for,
\* unless it could not be read.
LEMMA NotedIsWanted ==
  ASSUME NEW b, NEW i \in Items, row[i] \in Objects, NEW found \in {Failed, Found(i, {})}
  PROVE  /\ found # Unsaid
         /\ Noted(b, i, found) = IF found = Failed THEN Nothing ELSE Wanted(LocalBody(i))
<1> USE DEF Absent, Gone, NoBody, Unsaid, Failed
<1>1. CASE LocalBody(i) = Absent
  <2>1. Wanted(LocalBody(i)) = Nothing
    BY <1>1 DEF Wanted, Nothing
  <2>2. Found(i, {}) = Gone
    BY <1>1 DEF Found
  <2> QED
    BY <2>1, <2>2 DEF Noted
<1>2. CASE LocalBody(i) # Absent
  <2>1. LocalBody(i) = row[i] /\ row[i] \in 1 .. MaxCommits
    BY <1>2 DEF LocalBody, Objects
  <2>2. Found(i, {}) = row[i]
    BY <1>2 DEF Found
  <2>3. Entry(b, i, row[i]) = Wanted(row[i])
    BY <2>1, EntryIsWanted
  <2> QED
    BY <2>1, <2>2, <2>3 DEF Noted
<1> QED
  BY <1>1, <1>2

Says == {Unsaid, Failed, Gone} \cup 1 .. commits

LEMMA FoundTyped ==
  ASSUME TypeOK, NEW i \in Items, NEW failing
  PROVE  Found(i, failing) \in Says
BY DEF TypeOK, Found, LocalBody, Says, Absent, Gone, NoBody, Failed

LEMMA NotedTyped ==
  ASSUME NEW b, NEW i, b[i] \in Nat, NEW found \in Says, commits \in Nat
  PROVE  Noted(b, i, found) \in Nat
BY DEF Noted, Says, Entry, Nothing, Unsaid, Failed, Gone

LEMMA CursorTyped ==
  ASSUME TypeOK
  PROVE  NoCursor \in Cursors /\ ChangeCursor \in Cursors
BY PimdirAssumption DEF TypeOK, Cursors, NoCursor, ChangeCursor

-----------------------------------------------------------------------------
(* The store's owner *)

\* The rows deleted are no more than the items, and those purged no more than the
\* commits that deleted them.
LEMMA BuriedRows ==
  ASSUME TypeOK
  PROVE  IsFiniteSet(Items) /\ IsFiniteSet(Buried) /\ Cardinality(Buried) \in Nat
<1>1. IsFiniteSet(Items)
  BY PimdirAssumption, FS_Interval DEF Items
<1> QED
  BY <1>1, FS_Subset, FS_CardinalityType DEF Buried

LEMMA OwnerTyped ==
  ASSUME TypeOK, Counts, StoreInv, Owner
  PROVE  TypeOK' /\ Counts' /\ StoreInv'
<1>1. IsFiniteSet(Items) /\ IsFiniteSet(Buried) /\ Cardinality(Buried) \in Nat
  BY BuriedRows
<1>2. commits' \in Nat /\ commits \in Nat /\ changed \in Nat /\ purges \in Nat
  BY DEF TypeOK, Owner, Write, Delete, Purge, MoveCollection, Reset, Stamped, Commit
<1>3. UNCHANGED Watch
  BY DEF Owner, Write, Delete, Purge, MoveCollection, Reset, Stamped
<1>4. ASSUME NEW i \in Items, NEW object \in {Object, NoBody, Gone}, Stamped(i, object)
      PROVE  TypeOK' /\ Counts' /\ StoreInv'
  <2>1. /\ commits < MaxCommits /\ commits' = commits + 1 /\ changed' = changed + 1
        /\ row' = [row EXCEPT ![i] = object] /\ stamp' = [stamp EXCEPT ![i] = changed + 1]
        /\ UNCHANGED <<purges, resets, moved, isCalendar>>
    BY <1>4 DEF Stamped, Commit
  <2>2. object \in {Absent, Gone, NoBody} \cup 1 .. commits'
    BY <1>2, <2>1 DEF Object
  <2>3. row' \in [Items -> {Absent, Gone, NoBody} \cup 1 .. commits']
    BY <1>2, <2>1, <2>2 DEF TypeOK
  <2>4. stamp' \in [Items -> 0 .. changed'] /\ moved' \in [Collections -> 0 .. changed']
    BY <1>2, <2>1 DEF TypeOK
  <2>5. \A j, k \in Items : stamp'[j] = stamp'[k] /\ stamp'[j] # 0 => j = k
    BY <1>2, <2>1 DEF StoreInv, TypeOK
  <2>6. Buried' \subseteq Buried \cup {i}
    BY <2>1 DEF Buried, TypeOK
  <2>7. IsFiniteSet(Buried \cup {i}) /\ Cardinality(Buried \cup {i}) <= Cardinality(Buried) + 1
    BY <1>1, FS_AddElement
  <2>8. Cardinality(Buried') <= Cardinality(Buried \cup {i}) /\ IsFiniteSet(Buried')
    BY <2>6, <2>7, FS_Subset
  <2>9. Cardinality(Buried') \in Nat /\ Cardinality(Buried \cup {i}) \in Nat
    BY <2>7, <2>8, FS_CardinalityType
  <2>10. purges' + Cardinality(Buried') <= commits'
    BY <1>1, <1>2, <2>1, <2>7, <2>8, <2>9 DEF StoreInv
  <2> QED
    BY <1>2, <1>3, <2>1, <2>3, <2>4, <2>5, <2>10, PimdirAssumption
    DEF TypeOK, Counts, StoreInv, Watch, reading, Cursors
<1>5. CASE Write
  BY <1>4, <1>5 DEF Write
<1>6. CASE Delete
  BY <1>4, <1>6 DEF Delete, Live
<1>7. CASE Purge
  <2>1. PICK i \in Items : row[i] = Gone /\ row' = [row EXCEPT ![i] = Absent]
    BY <1>7 DEF Purge
  <2>2. purges' = purges + 1
        /\ UNCHANGED <<changed, resets, stamp, moved, isCalendar, commits>>
    BY <1>7 DEF Purge
  <2>3. Buried' = Buried \ {i} /\ i \in Buried
    BY <2>1 DEF Buried, TypeOK, Gone, Absent
  <2>4. Cardinality(Buried') = Cardinality(Buried) - 1
    BY <1>1, <2>3, FS_RemoveElement
  <2>5. IsFiniteSet(Buried') /\ Cardinality(Buried') \in Nat
    BY <1>1, <2>3, FS_RemoveElement, FS_CardinalityType
  <2>6. purges' + Cardinality(Buried') <= commits'
    BY <1>1, <1>2, <2>2, <2>4 DEF StoreInv
  <2>7. purges' \in 0 .. commits'
    BY <1>2, <2>2, <2>5, <2>6
  <2>8. row' \in [Items -> {Absent, Gone, NoBody} \cup 1 .. commits']
    BY <2>1, <2>2 DEF TypeOK
  <2> QED
    BY <1>3, <2>2, <2>6, <2>7, <2>8 DEF TypeOK, Counts, StoreInv, Watch, reading, Cursors
<1>8. CASE MoveCollection
  <2>1. /\ commits < MaxCommits /\ commits' = commits + 1 /\ changed' = changed + 1
        /\ UNCHANGED <<purges, resets, row, stamp>>
    BY <1>8 DEF MoveCollection, Commit
  <2>2. PICK c \in Collections :
          /\ moved' = [moved EXCEPT ![c] = changed + 1]
          /\ isCalendar' \in IF c = Calendar THEN BOOLEAN ELSE {isCalendar}
    BY <1>8 DEF MoveCollection
  <2>3. isCalendar' \in BOOLEAN
    BY <2>2 DEF TypeOK
  <2>4. moved' \in [Collections -> 0 .. changed']
    BY <1>2, <2>1, <2>2 DEF TypeOK
  <2>5. /\ row' \in [Items -> {Absent, Gone, NoBody} \cup 1 .. commits']
        /\ stamp' \in [Items -> 0 .. changed']
    BY <1>2, <2>1 DEF TypeOK
  <2>6. Buried' = Buried
    BY <2>1 DEF Buried
  <2>7. StoreInv'
    <3>1. purges' + Cardinality(Buried') <= commits'
      BY <1>1, <1>2, <2>1, <2>6 DEF StoreInv
    <3> QED
      BY <2>1, <3>1 DEF StoreInv
  <2> QED
    BY <1>2, <1>3, <2>1, <2>3, <2>4, <2>5, <2>7, PimdirAssumption
    DEF TypeOK, Counts, Watch, reading, Cursors
<1>9. CASE Reset
  <2>1. /\ resets' = resets + 1 /\ resets < MaxResets /\ changed' \in 0 .. changed
        /\ purges' = 0 /\ isCalendar' = TRUE /\ commits' = commits
        /\ row' = [i \in Items |-> Absent] /\ stamp' = [i \in Items |-> 0]
        /\ moved' = [c \in Collections |-> 0]
    BY <1>9 DEF Reset
  <2>2. Buried' = {}
    BY <2>1 DEF Buried, Gone, Absent
  <2>3. StoreInv'
    <3>1. Cardinality(Buried') = 0
      BY <2>2, FS_EmptySet
    <3>2. purges' + Cardinality(Buried') <= commits'
      BY <1>2, <2>1, <3>1
    <3>3. \A i \in Items : stamp'[i] = 0
      BY <2>1
    <3> QED
      BY <3>2, <3>3 DEF StoreInv
  <2> QED
    BY <1>2, <1>3, <2>1, <2>3, PimdirAssumption DEF TypeOK, Counts, Watch, reading, Cursors
<1> QED
  BY <1>5, <1>6, <1>7, <1>8, <1>9 DEF Owner

\* What the owner commits leaves a cursor behind it, and is stamped above it: an
\* item still said to stand at the cursor has not moved.
LEMMA OwnerAhead ==
  ASSUME TypeOK, Owner, NEW c \in Cursors, Behind(c)
  PROVE  /\ Behind(c)'
         /\ Same(c)' => Same(c)
         /\ \A i \in Items : Stands(c, i)' => Stands(c, i) /\ row'[i] = row[i] /\ stamp'[i] = stamp[i]
         /\ Listed(c) => Listed(c)'
         /\ KindKnown(c) => KindKnown(c)'
<1>1. /\ commits \in Nat /\ changed \in Nat /\ purges \in Nat /\ resets \in Nat
      /\ c.changed \in Nat /\ c.purges \in Nat /\ c.resets \in Int
  BY DEF TypeOK, Cursors
<1> USE DEF Behind, Same
<1>2. CASE Write \/ Delete
  <2>1. PICK i \in Items, object \in {Object, NoBody, Gone} : Stamped(i, object)
    BY <1>2 DEF Write, Delete, Live
  <2>2. /\ changed' = changed + 1 /\ row' = [row EXCEPT ![i] = object]
        /\ stamp' = [stamp EXCEPT ![i] = changed + 1]
        /\ UNCHANGED <<purges, resets, moved, isCalendar, hidden>> /\ object # Absent
    BY <1>1, <2>1 DEF Stamped, Commit, Watch, Object, NoBody, Gone, Absent
  <2>3. \A j \in Items : j # i => stamp'[j] = stamp[j] /\ row'[j] = row[j]
    BY <2>2 DEF TypeOK
  <2>4. stamp'[i] = changed + 1 /\ row'[i] # Absent
    BY <2>2 DEF TypeOK
  <2> QED
    BY <1>1, <2>2, <2>3, <2>4 DEF Stands, Listed, KindKnown
<1>3. CASE Purge
  <2>1. /\ purges' = purges + 1 /\ UNCHANGED <<changed, resets, stamp, moved, isCalendar, hidden>>
    BY <1>3 DEF Purge, Watch
  <2>2. ~Same(c)' /\ Behind(c)'
    BY <1>1, <2>1
  <2> QED
    BY <2>2 DEF Stands, Listed, KindKnown
<1>4. CASE MoveCollection
  <2>1. PICK d \in Collections :
          /\ moved' = [moved EXCEPT ![d] = changed + 1]
          /\ isCalendar' \in IF d = Calendar THEN BOOLEAN ELSE {isCalendar}
    BY <1>4 DEF MoveCollection
  <2>2. changed' = changed + 1 /\ UNCHANGED <<purges, resets, row, stamp, hidden>>
    BY <1>4 DEF MoveCollection, Commit, Watch
  <2>3. Calendar \in Collections
    BY DEF Collections
  <2>4. moved'[Calendar] = changed + 1
        \/ (moved'[Calendar] = moved[Calendar] /\ isCalendar' = isCalendar)
    BY <2>1, <2>3 DEF TypeOK
  <2>5. KindKnown(c) => KindKnown(c)'
    BY <1>1, <2>2, <2>4 DEF KindKnown
  <2> QED
    BY <1>1, <2>2, <2>5 DEF Stands, Listed
<1>5. CASE Reset
  <2>1. resets' = resets + 1
    BY <1>5 DEF Reset
  <2>2. ~Same(c)' /\ Behind(c)'
    BY <1>1, <2>1
  <2> QED
    BY <2>2 DEF Stands, Listed, KindKnown
<1> QED
  BY <1>2, <1>3, <1>4, <1>5 DEF Owner

LEMMA OwnerKeeps ==
  ASSUME Inv, Owner
  PROVE  Inv'
<1> USE DEF Inv
<1>1. UNCHANGED <<shutdown, pc, cursor, now, after, full, page, read, book, failed, hidden>>
  BY DEF Owner, Write, Delete, Purge, MoveCollection, Reset, Stamped, Watch, reading
<1>2. TypeOK' /\ Counts' /\ StoreInv'
  BY OwnerTyped
<1>3. cursor \in Cursors /\ now \in Cursors
  BY DEF TypeOK
<1>4. /\ Behind(cursor)' /\ Listed(cursor)' /\ KindKnown(cursor)'
      /\ \A i \in Items : Stands(cursor, i)' => Stands(cursor, i) /\ row'[i] = row[i]
  BY <1>1, <1>3, OwnerAhead DEF Behind, Same, Stands, Listed, KindKnown
<1>5. /\ Behind(now)' /\ Listed(now)' /\ (KindKnown(now) => KindKnown(now)')
      /\ \A i \in Items : Stands(now, i)' =>
           Stands(now, i) /\ row'[i] = row[i] /\ stamp'[i] = stamp[i]
  BY <1>1, <1>3, OwnerAhead DEF Behind, Same, Stands, Listed, KindKnown
<1>6. BookIsCurrent'
  BY <1>1, <1>4 DEF BookIsCurrent, Unmoved, SameStore, Stands, Same, LocalBody
<1>7. ReadAsItIs => ReadAsItIs'
  BY <1>1, <1>5 DEF ReadAsItIs, Found, LocalBody
<1>8. ListReads => ListReads'
  BY <1>1, <1>5 DEF ListReads, Live
<1>9. FollowReads => FollowReads'
  BY <1>1, <1>5 DEF FollowReads, Named
<1>10. Reading'
  BY <1>1, <1>5, <1>7, <1>8, <1>9 DEF Reading, InList, InFollow
<1> QED
  BY <1>2, <1>4, <1>5, <1>6, <1>10

-----------------------------------------------------------------------------
(* The reads of the watch *)

LEMMA ListPages ==
  ASSUME TypeOK, Counts
  PROVE  /\ ListPage \subseteq Live
         /\ ListPage # {} => /\ Past(ListPage, Link) \in Nat
                            /\ \A i \in Live : i > after /\ i <= Past(ListPage, Link) => i \in ListPage
         /\ Cardinality(ListPage) = PAGE => ListPage # {}
         /\ Cardinality(ListPage) < PAGE => \A i \in Live : i > after => i \in ListPage
<1> DEFINE S == {i \in Live : i > after}
<1>1. Ordered(S, Link, MaxItem)
  <2>1. IsFiniteSet(S)
    BY BuriedRows, FS_Subset DEF Live
  <2> QED
    BY <2>1, PimdirAssumption DEF Ordered, Live, Items, Link
<1>2. ListPage = First(S, Link) /\ ListPage \subseteq S
  BY DEF ListPage, First
<1> HIDE DEF S
<1>3. Ordered(ListPage, Link, MaxItem)
  BY <1>1, <1>2, FS_Subset DEF Ordered
<1>4. ASSUME ListPage # {}
      PROVE  /\ Past(ListPage, Link) \in Nat
             /\ \A i \in S : i <= Past(ListPage, Link) => i \in ListPage
  <2>1. PICK x \in ListPage : Past(ListPage, Link) = Link[x]
    BY <1>3, <1>4, PastPage
  <2>2. \A i \in S : Link[i] = i
    BY DEF S, Link, Live
  <2>3. Link[x] \in Nat
    BY <1>3 DEF Ordered
  <2>4. \A i \in S : Link[i] <= Link[x] => i \in First(S, Link)
    BY <1>1, <1>2, PageIsClosed
  <2> QED
    BY <1>2, <2>1, <2>2, <2>3, <2>4
<1>5. Cardinality(ListPage) = PAGE => ListPage # {}
  BY FS_EmptySet, PimdirAssumption
<1>6. Cardinality(ListPage) < PAGE => ListPage = S
  BY <1>1, <1>2, ShortPageIsLast
<1> QED
  BY <1>2, <1>4, <1>5, <1>6 DEF S

LEMMA ChangesPages ==
  ASSUME TypeOK, Counts, StoreInv
  PROVE  /\ \A i \in ChangesPage : i \in Items /\ row[i] # Absent /\ stamp[i] > after
         /\ ChangesPage # {} =>
              /\ Past(ChangesPage, stamp) \in Nat /\ Past(ChangesPage, stamp) > after
              /\ \A i \in Items :
                   row[i] # Absent /\ stamp[i] > after /\ stamp[i] <= Past(ChangesPage, stamp)
                     => i \in ChangesPage
         /\ Cardinality(ChangesPage) # PAGE =>
              \A i \in Items : row[i] # Absent /\ stamp[i] > after => i \in ChangesPage
<1> DEFINE S == {i \in Items : row[i] # Absent /\ stamp[i] > after}
<1>1. Ordered(S, stamp, changed)
  <2>1. IsFiniteSet(S)
    BY BuriedRows, FS_Subset
  <2> QED
    BY <2>1 DEF Ordered, TypeOK
<1>2. ChangesPage = First(S, stamp) /\ ChangesPage \subseteq S
  BY DEF ChangesPage, First
<1>3. \A i, j \in S : stamp[i] = stamp[j] => i = j
  BY DEF StoreInv, Counts
<1>4. \A i \in S : i \in Items /\ stamp[i] \in Nat /\ stamp[i] > after
  BY DEF TypeOK
<1> HIDE DEF S
<1>5. Ordered(ChangesPage, stamp, changed)
  BY <1>1, <1>2, FS_Subset DEF Ordered
<1>6. ASSUME ChangesPage # {}
      PROVE  /\ Past(ChangesPage, stamp) \in Nat /\ Past(ChangesPage, stamp) > after
             /\ \A i \in S : stamp[i] <= Past(ChangesPage, stamp) => i \in ChangesPage
  <2>1. PICK x \in ChangesPage : Past(ChangesPage, stamp) = stamp[x]
    BY <1>5, <1>6, PastPage
  <2>2. \A i \in S : stamp[i] <= stamp[x] => i \in First(S, stamp)
    BY <1>1, <1>2, PageIsClosed
  <2> QED
    BY <1>2, <1>4, <2>1, <2>2
<1>7. ASSUME Cardinality(ChangesPage) # PAGE PROVE ChangesPage = S
  <2>1. IsFiniteSet(ChangesPage) /\ Cardinality(ChangesPage) <= PAGE
    BY <1>1, <1>2, <1>3, PageIsBounded
  <2>2. Cardinality(ChangesPage) < PAGE
    BY <1>7, <2>1, FS_CardinalityType, PimdirAssumption
  <2> QED
    BY <1>1, <1>2, <2>2, ShortPageIsLast
<1> QED
  BY <1>2, <1>4, <1>6, <1>7 DEF S

\* The steps of the watch leave the store alone, and a cursor where it was.
LEMMA StoreStays ==
  ASSUME UNCHANGED store, NEW c
  PROVE  /\ Same(c)' = Same(c) /\ Behind(c)' = Behind(c) /\ Listed(c)' = Listed(c)
         /\ \A i \in Items : Stands(c, i)' = Stands(c, i)
         /\ Live' = Live
         /\ \A i \in Items : LocalBody(i)' = LocalBody(i)
         /\ StoreInv' = StoreInv
BY DEF store, Same, Behind, Listed, Stands, Live, LocalBody, StoreInv, Buried

LEMMA WatchLeavesStore ==
  ASSUME Reads \/ SessionEnds \/ RequestShutdown \/ Stop \/ UNCHANGED vars
  PROVE  UNCHANGED store
BY DEF Reads, SessionEnds, RequestShutdown, Stop, vars, Open, LoadBegins, Check, List,
       LoadEnds, FollowBegins, FollowRenamed, Changes, GetItem, NextChanges, FollowEnds

\* A reading that is over leaves nothing behind.
LEMMA OverTyped ==
  ASSUME TypeOK, UNCHANGED store, ReadingOver
  PROVE  /\ now' \in Cursors /\ full' \in BOOLEAN /\ page' \subseteq Items
         /\ read' \in [Items -> Int] /\ Counts'
<1>1. now' \in Cursors
  BY CursorTyped DEF ReadingOver
<1>2. full' \in BOOLEAN /\ page' \subseteq Items /\ after' \in Nat
  BY DEF ReadingOver
<1>3. read' = [i \in Items |-> Unsaid]
  BY DEF ReadingOver, NothingFound
<1>4. read' \in [Items -> Int]
  BY <1>3 DEF Unsaid
<1>5. read' \in [Items -> {Unsaid, Failed, Gone} \cup 1 .. commits']
  BY <1>3
<1> QED
  BY <1>1, <1>2, <1>4, <1>5 DEF Counts

LEMMA WatchTyped ==
  ASSUME TypeOK, Counts, StoreInv,
         Reads \/ SessionEnds \/ RequestShutdown \/ Stop \/ UNCHANGED vars
  PROVE  TypeOK' /\ Counts'
<1>1. UNCHANGED store
  BY WatchLeavesStore
<1>2. /\ UNCHANGED <<changed, purges, resets, row, stamp, moved, isCalendar, commits>>
      /\ Cursors' = Cursors /\ commits \in Nat
  BY <1>1 DEF store, Cursors, TypeOK
<1>3. \A i \in Items : Says \subseteq Int /\ read[i] \in Says
  BY <1>2 DEF Counts, Says, Unsaid, Failed, Gone
<1> USE DEF TypeOK, Counts
<1>4. CASE Open
  BY <1>2, <1>4 DEF Open, reading
<1>5. CASE LoadBegins
  BY <1>2, <1>5, CursorTyped DEF LoadBegins, NothingFound, Unsaid
<1>6. CASE Check
  BY <1>1, <1>2, <1>6, OverTyped DEF Check, reading
<1>7. CASE List
  <2>1. PICK failing \in SUBSET ListPage : read' = ReadPage(failing)
    BY <1>7 DEF List
  <2>2. read' \in [Items -> Says]
    BY <1>3, <2>1, FoundTyped DEF ReadPage
  <2>3. after' \in Nat
    BY <1>7, ListPages DEF List
  <2>4. UNCHANGED <<shutdown, pc, cursor, now, full, page, book, failed, hidden>>
    BY <1>7 DEF List
  <2>5. read' \in [Items -> Int]
    BY <1>3, <2>2
  <2> QED
    BY <1>2, <2>2, <2>3, <2>4, <2>5 DEF Says
<1>8. CASE LoadEnds
  <2>1. PICK failing \in SUBSET ListPage : Loaded(ReadPage(failing))
    BY <1>8 DEF LoadEnds
  <2>2. \A i \in Items : ReadPage(failing)[i] \in Says
    BY <1>3, FoundTyped DEF ReadPage
  <2>3. \A i \in Items : EmptyBook(Items)[i] \in Nat
    BY DEF EmptyBook, Nothing
  <2>4. book' \in [Items -> Nat] /\ failed' \subseteq Items
    BY <1>2, <2>1, <2>2, <2>3, NotedTyped DEF Loaded
  <2>5. ReadingOver /\ cursor' = now /\ pc' = "idle" /\ UNCHANGED <<shutdown, hidden>>
    BY <1>8 DEF LoadEnds
  <2> QED
    BY <1>1, <1>2, <2>4, <2>5, OverTyped
<1>9. CASE FollowBegins
  BY <1>2, <1>9, CursorTyped DEF FollowBegins, Cursors
<1>10. CASE FollowRenamed
  BY <1>2, <1>10 DEF FollowRenamed, reading
<1>11. CASE Changes
  <2>1. after' \in Nat
    BY <1>11, ChangesPages DEF Changes
  <2>2. \A i \in Items : read'[i] \in {Gone, read[i]}
    BY <1>11 DEF Changes
  <2>3. read' \in [Items -> Says] /\ read' \in [Items -> Int]
    <3>1. Gone \in Says
      BY DEF Says
    <3>2. read' = [i \in Items |-> read'[i]]
      BY <1>11 DEF Changes
    <3> QED
      BY <1>3, <2>2, <3>1, <3>2
  <2>4. /\ page' \subseteq ChangesPage /\ full' \in BOOLEAN /\ pc' = "items"
        /\ UNCHANGED <<shutdown, cursor, now, book, failed, hidden>>
    BY <1>11 DEF Changes
  <2>5. page' \subseteq Items
    BY <2>4, ChangesPages
  <2> QED
    BY <1>2, <2>1, <2>3, <2>4, <2>5 DEF Says
<1>12. CASE GetItem
  <2>1. PICK i \in page, failing \in SUBSET page :
          read' = [read EXCEPT ![i] = Found(i, failing)] /\ page' = page \ {i}
    BY <1>12 DEF GetItem
  <2>2. Found(i, failing) \in Says
    BY <2>1, FoundTyped
  <2>3. read' \in [Items -> Says] /\ read' \in [Items -> Int]
    BY <1>3, <2>1, <2>2 DEF Says
  <2>4. UNCHANGED <<shutdown, pc, cursor, now, after, full, book, failed, hidden>>
    BY <1>12 DEF GetItem
  <2> QED
    BY <1>2, <2>1, <2>3, <2>4 DEF Says
<1>13. CASE NextChanges
  BY <1>2, <1>13 DEF NextChanges, reading
<1>14. CASE FollowEnds
  <2>1. book' \in [Items -> Nat] /\ failed' \subseteq Items
    BY <1>2, <1>3, <1>14, NotedTyped DEF FollowEnds
  <2>2. ReadingOver /\ cursor' = now /\ pc' = "idle" /\ UNCHANGED <<shutdown, hidden>>
    BY <1>14 DEF FollowEnds
  <2> QED
    BY <1>1, <1>2, <2>1, <2>2, OverTyped
<1>15. CASE SessionEnds
  BY <1>1, <1>2, <1>15, OverTyped DEF SessionEnds
<1>16. CASE RequestShutdown
  BY <1>2, <1>16 DEF RequestShutdown, reading
<1>17. CASE Stop
  BY <1>2, <1>17 DEF Stop, reading
<1>18. CASE UNCHANGED vars
  BY <1>2, <1>18 DEF vars, reading
<1> QED
  BY <1>4, <1>5, <1>6, <1>7, <1>8, <1>9, <1>10, <1>11, <1>12, <1>13, <1>14, <1>15, <1>16,
     <1>17, <1>18 DEF Reads

-----------------------------------------------------------------------------
(* The readings *)

\* What the book and the cursor promise of each other.
BookInv ==
  /\ Behind(cursor) /\ Behind(now) /\ Listed(cursor) /\ Listed(now)
  /\ BookIsCurrent /\ KindKnown(cursor)

\* A cursor read now, and none at all.
LEMMA CursorRead ==
  ASSUME TypeOK
  PROVE  /\ Behind(ChangeCursor) /\ Listed(ChangeCursor)
         /\ Behind(NoCursor) /\ Listed(NoCursor) /\ ~Same(NoCursor)
BY DEF TypeOK, ChangeCursor, NoCursor, Behind, Listed, Same

LEMMA ReadAtAll ==
  ASSUME NEW i \in Items, NEW failing
  PROVE  Found(i, failing) \in {Failed, Found(i, {})}
BY DEF Found

\* A step that moves neither the book nor what it is held against.
LEMMA BookStays ==
  ASSUME Inv, UNCHANGED store, UNCHANGED <<cursor, book, failed>>, hidden => hidden',
         Behind(now)' /\ Listed(now)'
  PROVE  BookInv'
<1> USE DEF Inv
<1>1. Behind(cursor)' /\ Listed(cursor)' /\ KindKnown(cursor)'
  BY DEF store, Behind, Listed, KindKnown, Same
<1>2. BookIsCurrent'
  BY DEF store, BookIsCurrent, Unmoved, SameStore, LocalBody
<1> QED
  BY <1>1, <1>2 DEF BookInv

LEMMA NowStays ==
  ASSUME Inv, UNCHANGED store, UNCHANGED now
  PROVE  Behind(now)' /\ Listed(now)'
BY DEF Inv, store, Behind, Listed, Same

LEMMA NowGone ==
  ASSUME TypeOK, UNCHANGED store, now' = NoCursor
  PROVE  Behind(now)' /\ Listed(now)'
<1>1. Behind(NoCursor) /\ Listed(NoCursor)
  BY CursorRead
<1> QED
  BY <1>1 DEF store, Behind, Listed, Same

\* A book read whole is current as of the cursor the reading began at.
LEMMA LoadEndsCurrent ==
  ASSUME Inv, LoadEnds
  PROVE  BookInv' /\ Reading'
<1> USE DEF Inv
<1>1. UNCHANGED store /\ UNCHANGED hidden /\ cursor' = now /\ pc = "list" /\ pc' = "idle" /\ ReadingOver
      /\ Cardinality(ListPage) < PAGE
  BY DEF LoadEnds
<1>2. PICK failing \in SUBSET ListPage : Loaded(ReadPage(failing))
  BY DEF LoadEnds
<1>3. Behind(now)' /\ Listed(now)'
  BY <1>1, NowGone DEF ReadingOver
<1>4. Behind(cursor)' /\ Listed(cursor)' /\ KindKnown(cursor)'
  <2>1. KindKnown(now)
    BY <1>1 DEF Reading, InList
  <2> QED
    BY <1>1, <2>1 DEF store, Behind, Listed, KindKnown, Same
<1>5. ASSUME NEW i \in Items, Stands(now, i)
      PROVE  book'[i] = IF i \in failed' THEN Nothing ELSE Wanted(LocalBody(i))
  <2> DEFINE found == ReadPage(failing)[i]
  <2>1. book'[i] = Noted(EmptyBook(Items), i, found) /\ (i \in failed' <=> found = Failed)
    BY <1>2 DEF Loaded
  <2>2. found \in {Unsaid, Failed, Found(i, {})}
    <3>1. i \in ListPage => found \in {Failed, Found(i, {})}
      BY ReadAtAll DEF ReadPage
    <3>2. i \notin ListPage => found \in {Unsaid, Failed, Found(i, {})}
      BY <1>1, <1>5 DEF ReadPage, Reading, InList, ReadAsItIs
    <3> QED
      BY <3>1, <3>2
  <2>3. row[i] \in Objects
    BY PimdirAssumption DEF TypeOK, Objects
  <2>4. CASE found # Unsaid
    BY <2>1, <2>2, <2>3, <2>4, NotedIsWanted
  <2>5. CASE found = Unsaid
    <3>1. i \notin Live
      <4>1. i \notin ListPage
        BY <2>3, <2>5, ReadAtAll, NotedIsWanted DEF ReadPage
      <4>2. found = read[i]
        BY <4>1 DEF ReadPage
      <4>3. i \in Live => i > after
        BY <1>1, <1>5, <2>5, <4>2, BuriedRows DEF Reading, InList, ListReads, Items, Counts
      <4> QED
        BY <1>1, <4>1, <4>3, ListPages
    <3>2. Wanted(LocalBody(i)) = Nothing
      BY <3>1 DEF Live, LocalBody, Wanted, Nothing, Absent
    <3>3. book'[i] = Nothing
      BY <2>1, <2>5 DEF Noted, EmptyBook
    <3> QED
      BY <3>2, <3>3
  <2> QED
    BY <2>4, <2>5
<1>6. BookIsCurrent'
  BY <1>1, <1>5 DEF BookIsCurrent, Unmoved, SameStore, store, Stands, Same, LocalBody
<1>7. Reading'
  BY <1>1 DEF Reading, ReadingOver, NothingFound, InList, InFollow
<1> QED
  BY <1>3, <1>4, <1>6, <1>7 DEF BookInv

\* A book updated with what moved is current as of the cursor that reading began at.
LEMMA FollowEndsCurrent ==
  ASSUME Inv, FollowEnds
  PROVE  BookInv' /\ Reading'
<1> USE DEF Inv
<1>1. UNCHANGED store /\ UNCHANGED hidden /\ cursor' = now /\ pc = "items" /\ pc' = "idle"
      /\ ReadingOver /\ page = {} /\ ~full
  BY DEF FollowEnds
<1>2. /\ book' = [i \in Items |-> Noted(book, i, read[i])]
      /\ failed' = {i \in Items : read[i] = Failed \/ (i \in failed /\ read[i] = Unsaid)}
  BY DEF FollowEnds
<1>3. Behind(now)' /\ Listed(now)'
  BY <1>1, NowGone DEF ReadingOver
<1>4. Behind(cursor)' /\ Listed(cursor)' /\ KindKnown(cursor)'
  <2>1. KindKnown(now)
    BY <1>1 DEF Reading, InFollow
  <2> QED
    BY <1>1, <2>1 DEF store, Behind, Listed, KindKnown, Same
<1>5. ASSUME NEW i \in Items, Stands(now, i)
      PROVE  book'[i] = IF i \in failed' THEN Nothing ELSE Wanted(LocalBody(i))
  <2>1. book'[i] = Noted(book, i, read[i])
        /\ (i \in failed' <=> read[i] = Failed \/ (i \in failed /\ read[i] = Unsaid))
    BY <1>2
  <2>2. read[i] \in {Unsaid, Failed, Found(i, {})}
    BY <1>1, <1>5 DEF Reading, InFollow, ReadAsItIs
  <2>3. row[i] \in Objects
    BY PimdirAssumption DEF TypeOK, Objects
  <2>4. CASE read[i] # Unsaid
    BY <2>1, <2>2, <2>3, <2>4, NotedIsWanted
  <2>5. CASE read[i] = Unsaid
    <3>1. ~(stamp[i] > cursor.changed)
      BY <1>1, <1>5, <2>5 DEF Reading, InFollow, FollowReads, Named
    <3>2. i \in Unmoved
      BY <1>1, <1>5, <3>1 DEF Reading, Unmoved, SameStore, Stands, Same, TypeOK, Cursors
    <3>3. book[i] = IF i \in failed THEN Nothing ELSE Wanted(LocalBody(i))
      BY <3>2 DEF BookIsCurrent
    <3>4. book'[i] = book[i] /\ (i \in failed' <=> i \in failed)
      <4>1. book'[i] = book[i]
        BY <2>1, <2>5 DEF Noted, Unsaid, Failed, Gone
      <4>2. Failed # Unsaid
        BY DEF Failed, Unsaid
      <4> QED
        BY <2>1, <2>5, <4>1, <4>2
    <3> QED
      BY <3>3, <3>4
  <2> QED
    BY <2>4, <2>5
<1>6. BookIsCurrent'
  BY <1>1, <1>5 DEF BookIsCurrent, Unmoved, SameStore, store, Stands, Same, LocalBody
<1>7. Reading'
  BY <1>1 DEF Reading, ReadingOver, NothingFound, InList, InFollow
<1> QED
  BY <1>3, <1>4, <1>6, <1>7 DEF BookInv

\* The other steps of a reading.
LEMMA ListKeeps ==
  ASSUME Inv, List
  PROVE  Reading'
<1> USE DEF Inv
<1>1. UNCHANGED store /\ UNCHANGED <<pc, cursor, now, page, hidden>> /\ pc = "list"
      /\ Cardinality(ListPage) = PAGE /\ after' = Past(ListPage, Link)
  BY DEF List
<1>2. PICK failing \in SUBSET ListPage : read' = ReadPage(failing)
  BY DEF List
<1>3. ReadAsItIs'
  <2> SUFFICES ASSUME NEW i \in Items, Stands(now, i)
               PROVE  read'[i] \in {Unsaid, Failed, Found(i, {})}
    BY <1>1 DEF ReadAsItIs, Stands, Same, store, Found, LocalBody
  <2> QED
    BY <1>1, <1>2, ReadAtAll DEF ReadPage, Reading, InList, ReadAsItIs
<1>4. ListReads'
  <2> SUFFICES ASSUME NEW i \in Live, Stands(now, i), i <= after' PROVE read'[i] # Unsaid
    BY <1>1 DEF ListReads, Stands, Same, store, Live
  <2>1. i \in Items /\ row[i] \in Objects
    BY PimdirAssumption DEF Live, TypeOK, Objects
  <2>2. CASE i \in ListPage
    <3>1. read'[i] \in {Failed, Found(i, {})}
      BY <1>2, <2>1, <2>2, ReadAtAll DEF ReadPage
    <3> QED
      BY <2>1, <3>1, NotedIsWanted
  <2>3. CASE i \notin ListPage
    <3>1. ~(i > after)
      BY <1>1, <2>3, ListPages
    <3>2. i <= after
      BY <2>1, <3>1 DEF Counts, Items
    <3>3. read[i] # Unsaid
      BY <1>1, <3>2 DEF Reading, InList, ListReads
    <3> QED
      BY <1>2, <2>1, <2>3, <3>3 DEF ReadPage
  <2> QED
    BY <2>2, <2>3
<1>5. KindKnown(now)'
  BY <1>1 DEF Reading, InList, KindKnown, Same, store
<1> QED
  BY <1>1, <1>3, <1>4, <1>5 DEF Reading, InList, InFollow

LEMMA ChangesKeeps ==
  ASSUME Inv, Changes
  PROVE  Reading'
<1> USE DEF Inv
<1> DEFINE gone == {i \in ChangesPage : row[i] = Gone}
<1>1. UNCHANGED store /\ UNCHANGED <<cursor, now, hidden>> /\ pc = "changes" /\ pc' = "items"
      /\ read' = [i \in Items |-> IF i \in gone THEN Gone ELSE read[i]]
      /\ page' = ChangesPage \ gone
      /\ after' = (IF ChangesPage = {} THEN after ELSE Past(ChangesPage, stamp))
      /\ full' = (Cardinality(ChangesPage) = PAGE)
  BY DEF Changes
<1>2. \A i \in ChangesPage : i \in Items /\ row[i] # Absent /\ stamp[i] > after
  BY ChangesPages
<1>3. after' \in Nat /\ after' >= after /\ after \in Nat /\ cursor.changed \in Nat
  BY <1>1, ChangesPages DEF Counts, TypeOK, Cursors
<1>4. \A i \in Items : row[i] # Absent /\ stamp[i] > after /\ (stamp[i] <= after' \/ ~full')
        => i \in ChangesPage
  <2>1. CASE ChangesPage = {}
    <3>1. \A i \in Items : ~(row[i] # Absent /\ stamp[i] > after)
      BY <2>1, ChangesPages, FS_EmptySet, PimdirAssumption
    <3> QED
      BY <3>1
  <2>2. CASE ChangesPage # {}
    BY <1>1, <2>2, ChangesPages
  <2> QED
    BY <2>1, <2>2
<1>5. ReadAsItIs /\ KindKnown(now) /\ FollowReads /\ page = {}
      /\ now.resets = cursor.resets /\ now.purges = cursor.purges
      /\ cursor.changed <= now.changed
  BY <1>1 DEF Reading, InFollow
<1>6. ReadAsItIs'
  <2> SUFFICES ASSUME NEW i \in Items, Stands(now, i)
               PROVE  read'[i] \in {Unsaid, Failed, Found(i, {})}
    BY <1>1 DEF ReadAsItIs, Stands, Same, store, Found, LocalBody
  <2>1. i \in gone => Found(i, {}) = Gone
    BY DEF Found, LocalBody
  <2> QED
    BY <1>1, <1>5, <2>1 DEF ReadAsItIs
<1>7. FollowReads'
  <2>1. after' >= cursor.changed
    BY <1>3, <1>5 DEF FollowReads
  <2>2. ASSUME NEW i \in Items, Stands(now, i), stamp[i] <= cursor.changed
        PROVE  read'[i] = Unsaid /\ i \notin page'
    <3>1. i \notin ChangesPage
      BY <1>2, <1>3, <1>5, <2>2 DEF FollowReads, TypeOK
    <3>2. read[i] = Unsaid
      BY <1>5, <2>2 DEF FollowReads, Named
    <3> QED
      BY <1>1, <3>1, <3>2
  <2>3. ASSUME NEW i \in Items, Stands(now, i), stamp[i] > cursor.changed,
               stamp[i] <= after' \/ ~full'
        PROVE  read'[i] # Unsaid \/ i \in page'
    <3>1. CASE stamp[i] <= after
      <4>1. read[i] # Unsaid
        BY <1>5, <2>3, <3>1 DEF FollowReads, Named
      <4> QED
        BY <1>1, <4>1 DEF Gone, Unsaid
    <3>2. CASE stamp[i] > after
      <4>1. row[i] # Absent
        BY <1>5, <2>3 DEF Stands, Same, Listed
      <4>2. i \in ChangesPage
        BY <1>4, <2>3, <3>2, <4>1
      <4> QED
        BY <1>1, <4>2 DEF Gone, Unsaid
    <3> QED
      BY <1>3, <3>1, <3>2 DEF TypeOK
  <2> QED
    BY <1>1, <2>1, <2>2, <2>3 DEF FollowReads, Stands, Same, store, Named
<1>8. KindKnown(now)'
  BY <1>1, <1>5 DEF KindKnown, Same, store
<1> QED
  BY <1>1, <1>5, <1>6, <1>7, <1>8 DEF Reading, InList, InFollow

LEMMA GetItemKeeps ==
  ASSUME Inv, GetItem
  PROVE  Reading'
<1> USE DEF Inv
<1>1. UNCHANGED store /\ UNCHANGED <<pc, cursor, now, after, full, hidden>> /\ pc = "items"
  BY DEF GetItem
<1>2. PICK i \in page, failing \in SUBSET page :
        read' = [read EXCEPT ![i] = Found(i, failing)] /\ page' = page \ {i}
  BY DEF GetItem
<1>3. i \in Items /\ Found(i, failing) \in {Failed, Found(i, {})} /\ row[i] \in Objects
  BY ReadAtAll, PimdirAssumption DEF TypeOK, Objects
<1>4. Found(i, failing) # Unsaid
  BY <1>3, NotedIsWanted
<1>5. \A j \in Items : read'[j] = IF j = i THEN Found(i, failing) ELSE read[j]
  BY <1>2 DEF TypeOK
<1>6. ReadAsItIs /\ KindKnown(now) /\ FollowReads
      /\ now.resets = cursor.resets /\ now.purges = cursor.purges
      /\ cursor.changed <= now.changed
  BY <1>1 DEF Reading, InFollow
<1>7. ReadAsItIs'
  <2> SUFFICES ASSUME NEW j \in Items, Stands(now, j)
               PROVE  read'[j] \in {Unsaid, Failed, Found(j, {})}
    BY <1>1 DEF ReadAsItIs, Stands, Same, store, Found, LocalBody
  <2> QED
    BY <1>3, <1>5, <1>6 DEF ReadAsItIs
<1>8. FollowReads'
  <2>1. ASSUME NEW j \in Items PROVE (read'[j] # Unsaid \/ j \in page') <=> Named(j)
    BY <1>2, <1>4, <1>5 DEF Named
  <2> QED
    BY <1>1, <1>6, <2>1 DEF FollowReads, Stands, Same, store, Named
<1>9. KindKnown(now)'
  BY <1>1, <1>6 DEF KindKnown, Same, store
<1> QED
  BY <1>1, <1>6, <1>7, <1>8, <1>9 DEF Reading, InList, InFollow

\* The calendar moving is on the page of collections looked at, unless it is crowded
\* off it.
LEMMA RenamedKeeps ==
  ASSUME Inv, FollowRenamed
  PROVE  Reading' /\ (hidden => hidden')
<1> USE DEF Inv
<1>1. UNCHANGED store /\ UNCHANGED <<cursor, now, after, page, full, read>> /\ pc = "renamed"
      /\ pc' = (IF Calendar \in Renamed THEN "load" ELSE "changes")
      /\ hidden' = (hidden \/ Crowded)
  BY DEF FollowRenamed, reading
<1>2. read = NothingFound /\ page = {} /\ after = cursor.changed
      /\ now.resets = cursor.resets /\ now.purges = cursor.purges
      /\ cursor.changed <= now.changed
  BY <1>1 DEF Reading
<1>3. CASE Calendar \in Renamed
  BY <1>1, <1>2, <1>3 DEF Reading, InList, InFollow, NothingFound
<1>4. CASE Calendar \notin Renamed
  <2>1. \A i \in Items : read'[i] = Unsaid /\ i \notin page'
    BY <1>1, <1>2 DEF NothingFound
  <2>2. ReadAsItIs' /\ FollowReads'
    <3>1. ReadAsItIs'
      BY <2>1 DEF ReadAsItIs
    <3>2. pc' = "changes" /\ after' = cursor.changed /\ cursor' = cursor /\ stamp' = stamp
          /\ cursor.changed \in Nat /\ stamp \in [Items -> Nat]
      BY <1>1, <1>2, <1>4 DEF TypeOK, Cursors, store
    <3> QED
      BY <2>1, <3>1, <3>2 DEF FollowReads, Named
  <2>3. KindKnown(now)'
    <3>1. CASE moved[Calendar] <= cursor.changed
      BY <1>1, <1>2, <3>1 DEF KindKnown, Same, store
    <3>2. CASE moved[Calendar] > cursor.changed
      <4> DEFINE S == {c \in Collections : moved[c] > cursor.changed}
                 before == {c \in S : moved[c] < moved[Calendar]}
      <4>1. Calendar \in S /\ moved \in [Collections -> Nat] /\ cursor.changed \in Nat
        BY <3>2 DEF Collections, TypeOK, Cursors
      <4>2. before = {c \in Others :
                        moved[c] \in cursor.changed + 1 .. moved[Calendar] - 1}
        BY <4>1 DEF Collections
      <4>3. ~(Cardinality(before) < PAGE)
        BY <1>4, <4>1 DEF Renamed, First
      <4>4. IsFiniteSet(before)
        BY <4>2, FS_Subset, PimdirAssumption
      <4>5. Cardinality(before) >= PAGE
        BY <4>3, <4>4, FS_CardinalityType, PimdirAssumption
      <4>6. hidden'
        BY <1>1, <4>2, <4>5 DEF Crowded
      <4> QED
        BY <4>6 DEF KindKnown
    <3> QED
      BY <3>1, <3>2 DEF TypeOK, Cursors, Collections
  <2> QED
    BY <1>1, <1>2, <1>4, <2>2, <2>3 DEF Reading, InList, InFollow
<1> QED
  BY <1>3, <1>4

\* Every step of the watch, and its readings together.
LEMMA WatchKeeps ==
  ASSUME Inv, Reads \/ SessionEnds \/ RequestShutdown \/ Stop \/ UNCHANGED vars
  PROVE  BookInv' /\ Reading'
<1> USE DEF Inv
<1>1. UNCHANGED store
  BY WatchLeavesStore
<1>2. CASE LoadEnds
  BY <1>2, LoadEndsCurrent
<1>3. CASE FollowEnds
  BY <1>3, FollowEndsCurrent
<1>4. CASE LoadBegins \/ FollowBegins
  <2>1. now' = ChangeCursor /\ UNCHANGED <<cursor, page, book, failed, hidden>>
    BY <1>4 DEF LoadBegins, FollowBegins
  <2>2. Behind(now)' /\ Listed(now)'
    BY <1>1, <2>1, CursorRead DEF store, Behind, Listed, Same, ChangeCursor
  <2>3. BookInv'
    BY <1>1, <2>1, <2>2, BookStays
  <2>4. CASE LoadBegins
    <3>1. pc = "load" /\ pc' = "check" /\ after' = 0 /\ read' = NothingFound
      BY <2>4 DEF LoadBegins
    <3>2. page' = {}
      BY <2>1, <3>1 DEF Reading
    <3> QED
      BY <2>3, <3>1, <3>2 DEF Reading, InList, InFollow, NothingFound
  <2>5. CASE FollowBegins
    <3>1. pc = "idle" /\ pc' \in {"load", "renamed"} /\ after' = cursor.changed /\ read' = read
      BY <2>5 DEF FollowBegins
    <3>2. pc' = "renamed" => ~ResetSince(ChangeCursor)
      BY <2>1, <2>5 DEF FollowBegins
    <3>3. pc' = "renamed" => /\ now'.resets = cursor.resets /\ now'.purges = cursor.purges
                             /\ cursor.changed <= now'.changed
      BY <2>1, <3>2 DEF ResetSince, ChangeCursor, TypeOK, Cursors
    <3>4. read' = NothingFound /\ page' = {} /\ cursor' = cursor
      BY <2>1, <3>1 DEF Reading
    <3> QED
      BY <2>3, <3>1, <3>3, <3>4 DEF Reading, InList, InFollow, NothingFound
  <2> QED
    BY <1>4, <2>3, <2>4, <2>5
<1>5. CASE Check
  <2>1. CASE isCalendar
    <3>1. pc = "check" /\ pc' = "list" /\ hidden' = FALSE /\ UNCHANGED reading
          /\ UNCHANGED <<cursor, book, failed>>
      BY <1>5, <2>1 DEF Check
    <3>2. UNCHANGED <<now, after, full, page, read, row, stamp, isCalendar>>
      BY <1>1, <3>1 DEF reading, store
    <3>3. Behind(cursor)' /\ Listed(cursor)' /\ Behind(now)' /\ Listed(now)'
      BY <1>1, <3>1, <3>2 DEF store, Behind, Listed, Same
    <3>4. KindKnown(cursor)' /\ KindKnown(now)'
      BY <2>1, <3>2 DEF KindKnown
    <3>5. BookIsCurrent'
      BY <1>1, <3>1 DEF store, BookIsCurrent, Unmoved, SameStore, LocalBody
    <3>6. read' = NothingFound /\ after' = 0 /\ page' = {}
      BY <3>1, <3>2 DEF Reading
    <3>7. ReadAsItIs' /\ ListReads'
      BY <3>6 DEF ReadAsItIs, ListReads, NothingFound, Live, Items
    <3> QED
      BY <3>1, <3>3, <3>4, <3>5, <3>6, <3>7 DEF BookInv, Reading, InList, InFollow
  <2>2. CASE ~isCalendar
    <3>1. pc' = "down" /\ ReadingOver /\ UNCHANGED <<cursor, book, failed, hidden>>
      BY <1>5, <2>2 DEF Check
    <3>2. Behind(now)' /\ Listed(now)'
      BY <1>1, <3>1, NowGone DEF ReadingOver
    <3>3. BookInv'
      BY <1>1, <3>1, <3>2, BookStays
    <3> QED
      BY <3>1, <3>3 DEF Reading, ReadingOver, InList, InFollow, NothingFound
  <2> QED
    BY <2>1, <2>2
<1>6. CASE List
  <2>1. UNCHANGED <<cursor, now, book, failed, hidden>>
    BY <1>6 DEF List
  <2> QED
    BY <1>1, <1>6, <2>1, NowStays, BookStays, ListKeeps
<1>7. CASE FollowRenamed
  <2>1. UNCHANGED <<cursor, now, book, failed>>
    BY <1>7 DEF FollowRenamed, reading
  <2> QED
    BY <1>1, <1>7, <2>1, NowStays, BookStays, RenamedKeeps
<1>8. CASE Changes
  <2>1. UNCHANGED <<cursor, now, book, failed, hidden>>
    BY <1>8 DEF Changes
  <2> QED
    BY <1>1, <1>8, <2>1, NowStays, BookStays, ChangesKeeps
<1>9. CASE GetItem
  <2>1. UNCHANGED <<cursor, now, book, failed, hidden>>
    BY <1>9 DEF GetItem
  <2> QED
    BY <1>1, <1>9, <2>1, NowStays, BookStays, GetItemKeeps
<1>10. CASE SessionEnds
  <2>1. pc' = "down" /\ ReadingOver /\ UNCHANGED <<cursor, book, failed, hidden>>
    BY <1>10 DEF SessionEnds
  <2>2. Behind(now)' /\ Listed(now)'
    BY <1>1, <2>1, NowGone DEF ReadingOver
  <2>3. BookInv'
    BY <1>1, <2>1, <2>2, BookStays
  <2> QED
    BY <2>1, <2>3 DEF Reading, ReadingOver, InList, InFollow, NothingFound
<1>11. CASE Open \/ NextChanges \/ RequestShutdown \/ Stop \/ UNCHANGED vars
  <2>1. UNCHANGED <<cursor, now, after, full, page, read, book, failed, hidden>>
    BY <1>11 DEF Open, NextChanges, RequestShutdown, Stop, vars, reading
  <2>2. BookInv'
    BY <1>1, <2>1, NowStays, BookStays
  <2>3. /\ ReadAsItIs' = ReadAsItIs /\ ListReads' = ListReads
        /\ KindKnown(now)' = KindKnown(now)
    BY <1>1, <2>1 DEF ReadAsItIs, ListReads, KindKnown, Stands, Same, store, Found, LocalBody,
                      Live
  <2>4. CASE Open \/ Stop
    <3>1. pc \in {"down", "idle"} /\ pc' \in {"load", "ended"}
      BY <2>4 DEF Open, Stop
    <3>2. read' = NothingFound /\ page' = {}
      BY <2>1, <3>1 DEF Reading
    <3> QED
      BY <2>2, <3>1, <3>2 DEF Reading, InList, InFollow, NothingFound
  <2>5. CASE NextChanges
    <3>1. pc = "items" /\ pc' = "changes" /\ page = {}
      BY <2>5 DEF NextChanges
    <3>2. FollowReads'
      BY <1>1, <2>1, <3>1 DEF Reading, InFollow, FollowReads, Named, Stands, Same, store
    <3>3. ReadAsItIs' /\ KindKnown(now)' /\ page' = {}
          /\ now'.resets = cursor'.resets /\ now'.purges = cursor'.purges
          /\ cursor'.changed <= now'.changed
      BY <2>1, <2>3, <3>1 DEF Reading, InFollow
    <3> QED
      BY <2>2, <3>1, <3>2, <3>3 DEF Reading, InList, InFollow
  <2>6. CASE RequestShutdown \/ UNCHANGED vars
    <3>1. pc' = pc
      BY <2>6 DEF RequestShutdown, vars
    <3>2. FollowReads' = FollowReads
      BY <1>1, <2>1, <3>1 DEF FollowReads, Named, Stands, Same, store
    <3>3. InList' = InList /\ InFollow' = InFollow
      BY <3>1 DEF InList, InFollow
    <3> QED
      BY <2>1, <2>2, <2>3, <3>1, <3>2, <3>3 DEF Reading, NothingFound
  <2> QED
    BY <1>11, <2>2, <2>4, <2>5, <2>6
<1> QED
  BY <1>2, <1>3, <1>4, <1>5, <1>6, <1>7, <1>8, <1>9, <1>10, <1>11 DEF Reads

LEMMA Initially == Init => Inv
<1> SUFFICES ASSUME Init PROVE Inv
  OBVIOUS
<1> USE DEF Init
<1>1. TypeOK /\ Counts
  <2>1. NoCursor \in Cursors /\ read \in [Items -> Int] /\ book \in [Items -> Nat]
    BY PimdirAssumption DEF Cursors, NoCursor, NothingFound, Unsaid, EmptyBook, Nothing
  <2>2. read \in [Items -> {Unsaid, Failed, Gone} \cup 1 .. commits]
    BY DEF NothingFound
  <2>3. /\ MaxCommits \in Nat /\ MaxResets \in Nat /\ NothingFound = read
        /\ stamp \in [Items -> 0 .. changed] /\ moved \in [Collections -> 0 .. changed]
        /\ row \in [Items -> {Absent, Gone, NoBody} \cup 1 .. commits]
    BY PimdirAssumption
  <2>4. /\ commits \in 0 .. MaxCommits /\ changed \in 0 .. commits /\ purges \in 0 .. commits
        /\ resets \in 0 .. MaxResets /\ after \in Nat
    BY <2>3
  <2>5. {shutdown, full, isCalendar, hidden} \subseteq BOOLEAN
    OBVIOUS
  <2>6. cursor \in Cursors /\ now \in Cursors
    BY <2>1
  <2> QED
    BY <2>1, <2>2, <2>3, <2>4, <2>5, <2>6 DEF TypeOK, Counts
<1>2. StoreInv
  <2>1. Buried = {}
    BY DEF Buried, Gone, Absent
  <2> QED
    BY <2>1, FS_EmptySet DEF StoreInv
<1>3. ~Same(NoCursor) /\ Behind(NoCursor) /\ Listed(NoCursor)
  BY <1>1, CursorRead
<1>4. KindKnown(NoCursor) /\ BookIsCurrent
  BY <1>3 DEF KindKnown, BookIsCurrent, Unmoved, SameStore, Same
<1> QED
  BY <1>1, <1>2, <1>3, <1>4 DEF Inv, Reading, InList, InFollow

LEMMA Inductive == Inv /\ [Next]_vars => Inv'
<1> SUFFICES ASSUME Inv, [Next]_vars PROVE Inv'
  OBVIOUS
<1>1. CASE Owner
  BY <1>1, OwnerKeeps
<1>2. CASE Reads \/ SessionEnds \/ RequestShutdown \/ Stop \/ UNCHANGED vars
  <2>1. TypeOK' /\ Counts'
    BY <1>2, WatchTyped DEF Inv
  <2>2. StoreInv'
    BY <1>2, WatchLeavesStore, StoreStays DEF Inv
  <2>3. BookInv' /\ Reading'
    BY <1>2, WatchKeeps
  <2> QED
    BY <2>1, <2>2, <2>3 DEF Inv, BookInv
<1> QED
  BY <1>1, <1>2 DEF Next

\* Every row, stamp and cursor is of a commit there was, and a purge counts a row
\* that was deleted, so that the count a cursor is compared by never outgrows the
\* commits, however the owner mixes them.
THEOREM PimdirTyped == Spec => []TypeOK
<1>1. Inv => TypeOK
  BY DEF Inv
<1> QED
  BY <1>1, Initially, Inductive, PTL DEF Spec

\* Whatever the owner commits between two reads, the book a reading leaves is the
\* store's as of the cursor it leaves with it (load, follow, fold): however many
\* pages the reading took, and whichever bodies it could not read.
THEOREM FollowedBookIsCurrent == Spec => []BookIsCurrent
<1>1. Inv => BookIsCurrent
  BY DEF Inv
<1> QED
  BY <1>1, Initially, Inductive, PTL DEF Spec

\* A calendar that moved is looked at before the cursor passes its move, so that no
\* book is kept of one that holds calendars no more, unless the page of collections
\* was crowded (follow, check_calendar).
THEOREM CalendarIsChecked == Spec => []KindIsChecked
<1>1. Inv => KindIsChecked
  BY DEF Inv, KindKnown, KindIsChecked, SameStore, Same
<1> QED
  BY <1>1, Initially, Inductive, PTL DEF Spec

=============================================================================
