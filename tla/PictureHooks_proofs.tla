------------------------- MODULE PictureHooks_proofs -------------------------
(***************************************************************************)
(* Proofs about a picture and what its events tell (src/src/picture.rs),   *)
(* for every set of ids, flags and versions, of mail or of anything else;  *)
(* and about the watch that keeps no picture, that of a Gmail label, for   *)
(* any number of messages, labels and records.                             *)
(*                                                                         *)
(* What hooks are told of the label is the mailbox as it was at the        *)
(* cursor: the records make the mailboxes of the past one of another, and  *)
(* a round follows them record by record.  The induction over the records  *)
(* comes from the least number of a set.                                   *)
(***************************************************************************)
EXTENDS PictureHooks, GmailHistory, SequenceTheorems, WellFoundedInduction, TLAPS

\* The events of a kind about an id.
Of(E, id, kind) == {e \in E : e.id = id /\ e.kind = kind}
FlagsIn(E) == {e.flag : e \in E}

\* What the events tell of one item that stands before and after a call.
TellsItem(m, E, id, before, after) ==
  /\ Of(E, id, "item-added") = {} /\ Of(E, id, "item-removed") = {}
  /\ m => /\ FlagsIn(Of(E, id, "flag-added")) = after.flags \ before.flags
          /\ FlagsIn(Of(E, id, "flag-removed")) = before.flags \ after.flags
  /\ ~m => \/ Of(E, id, "item-changed") # {}
           \/ after.version = before.version

\* One id has one event, or several flags.
OneStoryOf(E) ==
  \A d \in E, e \in E :
    d.id = e.id /\ d # e => {d.kind, e.kind} \subseteq {"flag-added", "flag-removed"}

\* What the events tell of a picture.
TellsPicture(m, E, p, q) ==
  /\ \A id \in DOMAIN p \ DOMAIN q : Of(E, id, "item-removed") # {}
                                     /\ Of(E, id, "item-added") = {}
  /\ \A id \in DOMAIN q \ DOMAIN p : Of(E, id, "item-added") # {}
  /\ \A id \in Ids \ (DOMAIN p \cup DOMAIN q) : Of(E, id, "item-added") = {}
  /\ \A id \in DOMAIN p \cap DOMAIN q : TellsItem(m, E, id, p[id], q[id])

-----------------------------------------------------------------------------
(* What `moved` reports of one item *)

\* Every event of `moved` is about its item, and is a flag or an edit.
LEMMA MovedIsAbout ==
  ASSUME NEW m \in BOOLEAN, NEW id, NEW before \in Item, NEW after \in Item,
         NEW t \in BOOLEAN, NEW e \in MovedEvents(m, id, before, after, t)
  PROVE  /\ e.id = id
         /\ e.kind \in {"flag-added", "flag-removed", "item-changed"}
  BY DEF MovedEvents, Flagged, FlagAdded, FlagRemoved, ItemChanged

\* The flag events of a message name the flags that came and those that went.
LEMMA FlaggedTells ==
  ASSUME NEW id, NEW before \in Item, NEW after \in Item, NEW E,
         Of(E, id, "flag-added") = Of(Flagged(id, before, after), id, "flag-added"),
         Of(E, id, "flag-removed") = Of(Flagged(id, before, after), id, "flag-removed")
  PROVE  /\ FlagsIn(Of(E, id, "flag-added")) = after.flags \ before.flags
         /\ FlagsIn(Of(E, id, "flag-removed")) = before.flags \ after.flags
  <1> DEFINE A == {FlagAdded(id, f) : f \in after.flags \ before.flags}
             R == {FlagRemoved(id, f) : f \in before.flags \ after.flags}
  <1>1. \A e \in A : e.id = id /\ e.kind = "flag-added" /\ e.flag \in after.flags \ before.flags
    BY DEF FlagAdded
  <1>2. \A e \in R : e.id = id /\ e.kind = "flag-removed" /\ e.flag \in before.flags \ after.flags
    BY DEF FlagRemoved
  <1>3. \A f \in after.flags \ before.flags : FlagAdded(id, f) \in A /\ FlagAdded(id, f).flag = f
    BY DEF FlagAdded
  <1>4. \A f \in before.flags \ after.flags : FlagRemoved(id, f) \in R /\ FlagRemoved(id, f).flag = f
    BY DEF FlagRemoved
  <1>5. Flagged(id, before, after) = A \cup R
    BY DEF Flagged
  <1> HIDE DEF A, R
  <1>6. Of(E, id, "flag-added") = A
    BY <1>1, <1>2, <1>5 DEF Of
  <1>7. Of(E, id, "flag-removed") = R
    BY <1>1, <1>2, <1>5 DEF Of
  <1>8. {e.flag : e \in A} = after.flags \ before.flags
    BY <1>1, <1>3
  <1>9. {e.flag : e \in R} = before.flags \ after.flags
    BY <1>2, <1>4
  <1> QED
    BY <1>6, <1>7, <1>8, <1>9 DEF FlagsIn

\* What `moved` reports is what a mirror of the item needs.
LEMMA MovedTells ==
  ASSUME NEW m \in BOOLEAN, NEW id, NEW before \in Item, NEW after \in Item,
         NEW t \in BOOLEAN, NEW E,
         \A e \in E : e.id = id => e \in MovedEvents(m, id, before, after, t),
         MovedEvents(m, id, before, after, t) \subseteq E
  PROVE  TellsItem(m, E, id, before, after)
  <1> DEFINE M == MovedEvents(m, id, before, after, t)
  <1>1. \A e \in M : e.id = id /\ e.kind \in {"flag-added", "flag-removed", "item-changed"}
    BY MovedIsAbout
  <1>2. Of(E, id, "item-added") = {} /\ Of(E, id, "item-removed") = {}
    BY <1>1 DEF Of
  <1>3. ASSUME m
        PROVE  /\ FlagsIn(Of(E, id, "flag-added")) = after.flags \ before.flags
               /\ FlagsIn(Of(E, id, "flag-removed")) = before.flags \ after.flags
    <2>1. \A e \in M : e.kind # "item-changed" => e \in Flagged(id, before, after)
      BY <1>3 DEF MovedEvents, ItemChanged
    <2>2. Flagged(id, before, after) \subseteq M
      BY <1>3 DEF MovedEvents
    <2> HIDE DEF M
    <2>3. \A k \in {"flag-added", "flag-removed"} :
            Of(E, id, k) = Of(Flagged(id, before, after), id, k)
      BY <2>1, <2>2 DEF Of, M
    <2> QED
      BY <2>3, FlaggedTells
  <1>4. ASSUME ~m, after.version # before.version
        PROVE  Of(E, id, "item-changed") # {}
    <2>1. ItemChanged(id) \in M
      BY <1>4 DEF MovedEvents, OtherEdited
    <2> QED
      BY <2>1 DEF Of, ItemChanged
  <1> QED
    BY <1>2, <1>3, <1>4 DEF TellsItem

\* One item has one event of `moved`, or several flags: a message is edited only
\* where no flag of it moved.
LEMMA MovedIsOneStory ==
  ASSUME NEW m \in BOOLEAN, NEW id, NEW before \in Item, NEW after \in Item,
         NEW t \in BOOLEAN
  PROVE  OneStoryOf(MovedEvents(m, id, before, after, t))
  <1>1. CASE m /\ before.flags = after.flags
    <2>1. Flagged(id, before, after) = {}
      BY <1>1 DEF Flagged
    <2>2. MovedEvents(m, id, before, after, t) \subseteq {ItemChanged(id)}
      BY <1>1, <2>1 DEF MovedEvents
    <2> QED
      BY <2>2 DEF OneStoryOf
  <1>2. CASE m /\ before.flags # after.flags
    <2>1. MovedEvents(m, id, before, after, t) = Flagged(id, before, after)
      BY <1>2 DEF MovedEvents, MailEdited
    <2>2. \A e \in Flagged(id, before, after) : e.kind \in {"flag-added", "flag-removed"}
      BY DEF Flagged, FlagAdded, FlagRemoved
    <2> QED
      BY <2>1, <2>2 DEF OneStoryOf
  <1>3. CASE ~m
    <2>1. MovedEvents(m, id, before, after, t) \subseteq {ItemChanged(id)}
      BY <1>3 DEF MovedEvents
    <2> QED
      BY <2>1 DEF OneStoryOf
  <1> QED
    BY <1>1, <1>2, <1>3

\* An item read the same twice in two listings moved in nothing.
LEMMA SameIsQuiet ==
  ASSUME NEW m \in BOOLEAN, NEW id, NEW item \in Item
  PROVE  MovedEvents(m, id, item, item, FALSE) = {}
  BY DEF MovedEvents, Flagged, MailEdited, OtherEdited

-----------------------------------------------------------------------------
(* What the three calls report *)

\* A touch reports the arrival of a new item, or what moved of a known one.
LEMMA TouchTells ==
  ASSUME NEW m \in BOOLEAN, NEW p, NEW id \in Ids, NEW item \in Item,
         \A i \in DOMAIN p : p[i] \in Item
  PROVE  LET E == TouchEvents(m, p, id, item)
         IN  TellsPicture(m, E, p, Touched(p, id, item)) /\ OneStoryOf(E)
  <1> DEFINE E == TouchEvents(m, p, id, item)
             q == Touched(p, id, item)
  <1>1. /\ DOMAIN q = DOMAIN p \cup {id}
        /\ q[id] = item
        /\ \A i \in DOMAIN p \ {id} : q[i] = p[i]
    BY DEF Touched
  <1>2. CASE id \in DOMAIN p
    <2>1. E = MovedEvents(m, id, p[id], item, TRUE)
      BY <1>2 DEF TouchEvents
    <2>2. \A e \in E : e.id = id /\ e.kind # "item-added"
      <3>1. p[id] \in Item
        BY <1>2
      <3>2. \A e \in MovedEvents(m, id, p[id], item, TRUE) :
              e.id = id /\ e.kind \in {"flag-added", "flag-removed", "item-changed"}
        BY <3>1, MovedIsAbout
      <3> HIDE DEF E
      <3> QED
        BY <2>1, <3>2
    <2>3. TellsItem(m, E, id, p[id], q[id])
      BY <1>1, <1>2, <2>1, MovedTells
    <2>4. \A i \in DOMAIN p \ {id} : TellsItem(m, E, i, p[i], q[i])
      <3> SUFFICES ASSUME NEW i \in DOMAIN p \ {id}
                   PROVE  TellsItem(m, E, i, p[i], q[i])
        OBVIOUS
      <3>1. \A k : Of(E, i, k) = {}
        BY <2>2 DEF Of
      <3>2. q[i] = p[i]
        BY <1>1
      <3> QED
        BY <3>1, <3>2 DEF TellsItem, FlagsIn
    <2>5. OneStoryOf(E)
      BY <1>2, <2>1, MovedIsOneStory
    <2>6. \A i \in Ids \ DOMAIN p : Of(E, i, "item-added") = {}
      BY <2>2 DEF Of
    <2> QED
      BY <1>1, <1>2, <2>3, <2>4, <2>5, <2>6 DEF TellsPicture
  <1>3. CASE id \notin DOMAIN p
    <2>1. E = {ItemAdded(id)}
      BY <1>3 DEF TouchEvents
    <2>2. Of(E, id, "item-added") # {}
      <3>1. ItemAdded(id) \in Of(E, id, "item-added")
        BY <2>1 DEF Of, ItemAdded
      <3> QED
        BY <3>1
    <2>3. \A i : i # id => \A k : Of(E, i, k) = {}
      BY <2>1 DEF Of, ItemAdded
    <2>4. \A i \in DOMAIN p : TellsItem(m, E, i, p[i], q[i])
      BY <1>1, <1>3, <2>3 DEF TellsItem, FlagsIn
    <2>5. OneStoryOf(E)
      BY <2>1 DEF OneStoryOf
    <2> QED
      BY <1>1, <1>3, <2>2, <2>3, <2>4, <2>5 DEF TellsPicture
  <1> QED
    BY <1>2, <1>3

\* A removal reports the item it takes out, once.
LEMMA RemoveTells ==
  ASSUME NEW m \in BOOLEAN, NEW p, NEW id \in Ids
  PROVE  LET E == RemoveEvents(p, id)
         IN  TellsPicture(m, E, p, Forgotten(p, id)) /\ OneStoryOf(E)
  <1> DEFINE E == RemoveEvents(p, id)
             q == Forgotten(p, id)
  <1>1. /\ DOMAIN q = DOMAIN p \ {id}
        /\ \A i \in DOMAIN p \ {id} : q[i] = p[i]
    BY DEF Forgotten
  <1>2. /\ \A e \in E : e = ItemRemoved(id)
        /\ id \in DOMAIN p => ItemRemoved(id) \in E
    BY DEF RemoveEvents
  <1> HIDE DEF E, q
  <1>3. id \in DOMAIN p => Of(E, id, "item-removed") # {}
    BY <1>2 DEF Of, ItemRemoved
  <1>4. \A i : i # id => \A k : Of(E, i, k) = {}
    BY <1>2 DEF Of, ItemRemoved
  <1>5. \A i : Of(E, i, "item-added") = {}
    BY <1>2 DEF Of, ItemRemoved
  <1>6. \A i \in DOMAIN p \cap DOMAIN q : TellsItem(m, E, i, p[i], q[i])
    BY <1>1, <1>4 DEF TellsItem, FlagsIn
  <1>7. OneStoryOf(E)
    BY <1>2 DEF OneStoryOf
  <1>8. TellsPicture(m, E, p, q)
    BY <1>1, <1>3, <1>5, <1>6 DEF TellsPicture
  <1> QED
    BY <1>7, <1>8 DEF E, q

\* A rebase reports what it leaves out, what is new, and what moved of the rest.
LEMMA RebaseTells ==
  ASSUME NEW m \in BOOLEAN, NEW p, NEW q,
         \A i \in DOMAIN p : p[i] \in Item, \A i \in DOMAIN q : q[i] \in Item
  PROVE  LET E == RebaseEvents(m, p, q) IN TellsPicture(m, E, p, q) /\ OneStoryOf(E)
  <1> DEFINE E == RebaseEvents(m, p, q)
             Moved(i) == MovedEvents(m, i, p[i], q[i], FALSE)
             Both == DOMAIN p \cap DOMAIN q
  <1>1. \A e \in E : \/ \E i \in DOMAIN p \ DOMAIN q : e = ItemRemoved(i)
                     \/ \E i \in DOMAIN q \ DOMAIN p : e = ItemAdded(i)
                     \/ \E i \in Both : e \in Moved(i)
    BY DEF RebaseEvents
  <1>2. /\ \A i \in DOMAIN p \ DOMAIN q : ItemRemoved(i) \in E
        /\ \A i \in DOMAIN q \ DOMAIN p : ItemAdded(i) \in E
        /\ \A i \in Both : Moved(i) \subseteq E
    BY DEF RebaseEvents
  <1>3. \A i \in Both : \A e \in Moved(i) :
          e.id = i /\ e.kind \in {"flag-added", "flag-removed", "item-changed"}
    BY MovedIsAbout
  <1>4. \A i \in Both : OneStoryOf(Moved(i))
    BY MovedIsOneStory
  <1> HIDE DEF E, Moved
  <1>5. \A e \in E : \/ e.id \in DOMAIN p \ DOMAIN q /\ e = ItemRemoved(e.id)
                     \/ e.id \in DOMAIN q \ DOMAIN p /\ e = ItemAdded(e.id)
                     \/ e.id \in Both /\ e \in Moved(e.id)
    BY <1>1, <1>3 DEF ItemAdded, ItemRemoved
  <1>6. \A i \in Both : TellsItem(m, E, i, p[i], q[i])
    <2> SUFFICES ASSUME NEW i \in Both
                 PROVE  TellsItem(m, E, i, p[i], q[i])
      OBVIOUS
    <2>1. \A e \in E : e.id = i => e \in MovedEvents(m, i, p[i], q[i], FALSE)
      BY <1>5 DEF Moved
    <2>2. MovedEvents(m, i, p[i], q[i], FALSE) \subseteq E
      BY <1>2 DEF Moved
    <2> QED
      BY <2>1, <2>2, MovedTells
  <1>7. /\ \A i \in DOMAIN p \ DOMAIN q : Of(E, i, "item-removed") # {}
        /\ \A i \in DOMAIN q \ DOMAIN p : Of(E, i, "item-added") # {}
    <2>1. \A i \in DOMAIN p \ DOMAIN q : ItemRemoved(i) \in Of(E, i, "item-removed")
      BY <1>2 DEF Of, ItemRemoved
    <2>2. \A i \in DOMAIN q \ DOMAIN p : ItemAdded(i) \in Of(E, i, "item-added")
      BY <1>2 DEF Of, ItemAdded
    <2> QED
      BY <2>1, <2>2
  <1>8. \A i : i \notin DOMAIN q \ DOMAIN p => Of(E, i, "item-added") = {}
    BY <1>3, <1>5 DEF Of, ItemRemoved
  <1>9. OneStoryOf(E)
    <2> SUFFICES ASSUME NEW d \in E, NEW e \in E, d.id = e.id, d # e
                 PROVE  {d.kind, e.kind} \subseteq {"flag-added", "flag-removed"}
      BY DEF OneStoryOf
    <2>1. d.id \in Both /\ d \in Moved(d.id) /\ e \in Moved(d.id)
      BY <1>5
    <2> QED
      BY <1>4, <2>1 DEF OneStoryOf
  <1>10. TellsPicture(m, E, p, q)
    BY <1>6, <1>7, <1>8 DEF TellsPicture
  <1> QED
    BY <1>9, <1>10 DEF E

\* A rebase on the listing a picture already is reports nothing.
LEMMA SameListingIsQuiet ==
  ASSUME NEW m \in BOOLEAN, NEW p, \A i \in DOMAIN p : p[i] \in Item
  PROVE  RebaseEvents(m, p, p) = {}
  <1>1. \A i \in DOMAIN p : MovedEvents(m, i, p[i], p[i], FALSE) = {}
    BY SameIsQuiet
  <1> QED
    BY <1>1 DEF RebaseEvents

-----------------------------------------------------------------------------
(* The invariant: the mirror stands on the events alone *)

\* The picture holds what a source reads, and the mirror what the picture holds.
IInv ==
  /\ mail \in BOOLEAN
  /\ known \in Listings
  /\ \A id \in DOMAIN mirror : DOMAIN mirror[id] = {"flags", "version"}
  /\ MirrorFollows
  /\ OneStory

\* A picture of listings holds items at ids.
LEMMA ListingsHoldItems ==
  ASSUME NEW p \in Listings
  PROVE  DOMAIN p \subseteq Ids /\ \A i \in DOMAIN p : p[i] \in Item
  BY DEF Listings, Readings

\* A mirror that follows a call by its events alone still follows the picture.
LEMMA MirrorStep ==
  ASSUME IInv, mail' = mail, known' \in Listings, Mirrored,
         TellsPicture(mail, events', known, known')
  PROVE  /\ MirrorFollows'
         /\ \A id \in DOMAIN mirror' : DOMAIN mirror'[id] = {"flags", "version"}
  <1> DEFINE heard == {id \in Ids : \/ About(id, "item-added") # {}
                                    \/ id \in DOMAIN mirror
                                        /\ About(id, "item-removed") = {}}
             read(id) == About(id, "item-added") # {} \/ About(id, "item-changed") # {}
             flags(id) == (mirror[id].flags \ FlagsIn(About(id, "flag-removed")))
                            \cup FlagsIn(About(id, "flag-added"))
             seen(id) == IF read(id) /\ id \in DOMAIN known' THEN known'[id]
                         ELSE [mirror[id] EXCEPT !.flags = flags(id)]
  <1>1. mirror' = [id \in heard |-> seen(id)]
    BY DEF Mirrored, FlagsIn
  <1>2. /\ DOMAIN known \subseteq Ids /\ DOMAIN known' \subseteq Ids
        /\ \A i \in DOMAIN known : known[i] \in Item
        /\ \A i \in DOMAIN known' : known'[i] \in Item
    BY ListingsHoldItems DEF IInv
  <1>3. DOMAIN mirror = DOMAIN known
    BY DEF IInv, MirrorFollows
  <1>4. \A id, k : About(id, k) = Of(events', id, k)
    BY DEF About, Of
  <1>5. heard = DOMAIN known'
    <2>1. \A id \in DOMAIN known \cap DOMAIN known' :
            About(id, "item-removed") = {}
      BY <1>4 DEF TellsPicture, TellsItem
    <2>2. \A id \in DOMAIN known' \ DOMAIN known : About(id, "item-added") # {}
      BY <1>4 DEF TellsPicture
    <2>3. \A id \in DOMAIN known \ DOMAIN known' :
            About(id, "item-removed") # {} /\ About(id, "item-added") = {}
      BY <1>4 DEF TellsPicture
    <2>4. \A id \in Ids \ (DOMAIN known \cup DOMAIN known') :
            About(id, "item-added") = {}
      BY <1>4 DEF TellsPicture
    <2> QED
      BY <1>2, <1>3, <2>1, <2>2, <2>3, <2>4
  <1>6. DOMAIN mirror' = DOMAIN known' /\ \A id \in DOMAIN known' : mirror'[id] = seen(id)
    BY <1>1, <1>5
  <1>7. ASSUME NEW id \in DOMAIN known', ~read(id)
        PROVE  /\ id \in DOMAIN known
               /\ TellsItem(mail, events', id, known[id], known'[id])
               /\ seen(id) = [mirror[id] EXCEPT !.flags = flags(id)]
    BY <1>4, <1>7 DEF TellsPicture
  <1> HIDE DEF read, flags, heard
  <1>8. ASSUME NEW id \in DOMAIN known', ~read(id)
        PROVE  /\ DOMAIN seen(id) = {"flags", "version"}
               /\ seen(id).flags = flags(id)
               /\ seen(id).version = mirror[id].version
    <2>1. DOMAIN mirror[id] = {"flags", "version"}
      BY <1>3, <1>7, <1>8 DEF IInv
    <2> QED
      BY <1>7, <1>8, <2>1
  <1>9. ASSUME NEW id \in DOMAIN known', read(id)
        PROVE  seen(id) = known'[id] /\ DOMAIN seen(id) = {"flags", "version"}
    BY <1>2, <1>9 DEF Item
  <1>10. ASSUME mail, NEW id \in DOMAIN known'
         PROVE  mirror'[id].flags = known'[id].flags
    <2>1. CASE ~read(id)
      <3>1. mirror[id].flags = known[id].flags
        BY <1>7, <1>10, <2>1 DEF IInv, MirrorFollows
      <3>2. /\ FlagsIn(About(id, "flag-added")) = known'[id].flags \ known[id].flags
            /\ FlagsIn(About(id, "flag-removed")) = known[id].flags \ known'[id].flags
        BY <1>4, <1>7, <1>10, <2>1 DEF TellsItem
      <3>3. flags(id) = (known[id].flags \ (known[id].flags \ known'[id].flags))
                          \cup (known'[id].flags \ known[id].flags)
        BY <3>1, <3>2 DEF flags
      <3>4. flags(id) = known'[id].flags
        BY <3>3, Zenon
      <3> QED
        BY <1>6, <1>8, <2>1, <3>4
    <2>2. CASE read(id)
      BY <1>6, <1>9, <2>2
    <2> QED
      BY <2>1, <2>2
  <1>11. ASSUME ~mail, NEW id \in DOMAIN known'
         PROVE  mirror'[id].version = known'[id].version
    <2>1. CASE ~read(id)
      <3>1. About(id, "item-changed") = {}
        BY <2>1 DEF read
      <3>2. known'[id].version = known[id].version
        BY <1>4, <1>7, <1>11, <2>1, <3>1 DEF TellsItem
      <3>3. mirror[id].version = known[id].version
        BY <1>7, <1>11, <2>1 DEF IInv, MirrorFollows
      <3> QED
        BY <1>6, <1>8, <2>1, <3>2, <3>3
    <2>2. CASE read(id)
      BY <1>6, <1>9, <2>2
    <2> QED
      BY <2>1, <2>2
  <1>12. \A id \in DOMAIN mirror' : DOMAIN mirror'[id] = {"flags", "version"}
    BY <1>6, <1>8, <1>9
  <1> HIDE DEF seen
  <1> QED
    BY <1>6, <1>10, <1>11, <1>12 DEF MirrorFollows

-----------------------------------------------------------------------------
(* The theorems *)

\* The invariant holds of every behaviour, whatever the calls of the backends.
THEOREM Invariant == PictureSpec => []IInv
  <1>1. PictureInit => IInv
    <2> SUFFICES ASSUME PictureInit
                 PROVE  IInv
      OBVIOUS
    <2>1. \A id \in DOMAIN mirror : DOMAIN mirror[id] = {"flags", "version"}
      BY ListingsHoldItems DEF PictureInit, Item
    <2> QED
      BY <2>1 DEF PictureInit, IInv, MirrorFollows, OneStory
  <1>2. IInv /\ [PictureNext]_pictureVars => IInv'
    <2> SUFFICES ASSUME IInv, [PictureNext]_pictureVars
                 PROVE  IInv'
      OBVIOUS
    <2>1. /\ DOMAIN known \subseteq Ids
          /\ \A i \in DOMAIN known : known[i] \in Item /\ known[i] \in Readings
      BY ListingsHoldItems DEF IInv, Listings
    <2>2. ASSUME mail' = mail, known' \in Listings, Mirrored,
                 TellsPicture(mail, events', known, known'), OneStoryOf(events')
          PROVE  IInv'
      <3>1. Listings' = Listings
        BY <2>2 DEF Listings, Readings
      <3>2. OneStory'
        BY <2>2 DEF OneStory, OneStoryOf
      <3> QED
        BY <2>2, <3>1, <3>2, MirrorStep DEF IInv
    <2>3. CASE Touch
      <3>1. PICK id \in Ids, item \in Readings :
              /\ known' = Touched(known, id, item)
              /\ events' = TouchEvents(mail, known, id, item)
              /\ Mirrored /\ mail' = mail
        BY <2>3 DEF Touch
      <3>2. known' \in Listings
        BY <2>1, <3>1 DEF Touched, Listings
      <3>3. item \in Item
        BY DEF Readings
      <3>4. TellsPicture(mail, events', known, known') /\ OneStoryOf(events')
        BY <2>1, <3>1, <3>3, TouchTells DEF IInv
      <3> QED
        BY <2>2, <3>1, <3>2, <3>4
    <2>4. CASE Remove
      <3>1. PICK id \in Ids : /\ known' = Forgotten(known, id)
                              /\ events' = RemoveEvents(known, id)
                              /\ Mirrored /\ mail' = mail
        BY <2>4 DEF Remove
      <3>2. known' \in Listings
        BY <2>1, <3>1 DEF Forgotten, Listings
      <3>3. TellsPicture(mail, events', known, known') /\ OneStoryOf(events')
        BY <3>1, RemoveTells DEF IInv
      <3> QED
        BY <2>2, <3>1, <3>2, <3>3
    <2>5. CASE Rebase
      <3>1. PICK fresh \in Listings : /\ known' = fresh
                                      /\ events' = RebaseEvents(mail, known, fresh)
                                      /\ Mirrored /\ mail' = mail
        BY <2>5 DEF Rebase
      <3>2. \A i \in DOMAIN fresh : fresh[i] \in Item
        BY ListingsHoldItems
      <3>3. TellsPicture(mail, events', known, known') /\ OneStoryOf(events')
        BY <2>1, <3>1, <3>2, RebaseTells DEF IInv
      <3> QED
        BY <2>2, <3>1, <3>3
    <2>6. CASE UNCHANGED pictureVars
      <3>1. UNCHANGED <<mail, known, mirror, events>>
        BY <2>6 DEF pictureVars
      <3>2. Listings' = Listings
        BY <3>1 DEF Listings, Readings
      <3>3. MirrorFollows' /\ OneStory'
        BY <3>1 DEF IInv, MirrorFollows, OneStory
      <3> QED
        BY <3>1, <3>2, <3>3 DEF IInv
    <2> QED
      BY <2>3, <2>4, <2>5, <2>6 DEF PictureNext
  <1> QED
    BY <1>1, <1>2, PTL DEF PictureSpec

\* The events alone tell which items stand, with which flags or at which version.
THEOREM EventsTellThePicture == PictureSpec => []MirrorFollows
  <1>1. IInv => MirrorFollows
    BY DEF IInv
  <1> QED
    BY <1>1, Invariant, PTL

\* One call reports one thing of an item, unless it is several flags.
THEOREM ItemsHaveOneStory == PictureSpec => []OneStory
  <1>1. IInv => OneStory
    BY DEF IInv
  <1> QED
    BY <1>1, Invariant, PTL

\* A rebase on a listing that differs in nothing reports nothing.
THEOREM SameListingReportsNothing == PictureSpec => RebaseIsQuiet
  <1>1. IInv /\ [PictureNext]_pictureVars => [call' = "rebase" /\ known' = known => events' = {}]_pictureVars
    <2> SUFFICES ASSUME IInv, PictureNext, call' = "rebase", known' = known
                 PROVE  events' = {}
      OBVIOUS
    <2>1. events' = RebaseEvents(mail, known, known)
      BY DEF PictureNext, Touch, Remove, Rebase
    <2> QED
      BY <2>1, ListingsHoldItems, SameListingIsQuiet DEF IInv
  <1> QED
    BY <1>1, Invariant, PTL DEF PictureSpec, RebaseIsQuiet

-----------------------------------------------------------------------------
(* Numbers *)

\* Any set of numbers has a least one.
LEMMA LeastNumber ==
  ASSUME NEW S \in SUBSET Nat, S # {}
  PROVE  \E n \in S : \A m \in S : n <= m
<1> DEFINE R == OpToRel(<, Nat)
<1>1. IsWellFoundedOn(R, Nat)
  BY NatLessThanWellFounded
<1>2. \A x, y \in Nat : <<x, y>> \in R <=> x < y
  BY DEF OpToRel
<1> HIDE DEF R
<1>3. \E x \in S : \A y \in S : <<y, x>> \notin R
  <2>1. S \subseteq Nat
    OBVIOUS
  <2> QED
    BY <1>1, <2>1, WFMin, Zenon
<1>4. PICK x \in S : \A y \in S : <<y, x>> \notin R
  BY <1>3
<1>5. \A y \in S : ~(y < x)
  BY <1>2, <1>4, Zenon
<1> QED
  BY <1>5

\* What holds of a number, and of the next whenever it holds of one, holds of all
\* the numbers up to a bound.
LEMMA Climb ==
  ASSUME NEW S, NEW low \in Nat, NEW high \in Nat,
         low \in S, \A n \in low .. high - 1 : n \in S => n + 1 \in S
  PROVE  \A n \in low .. high : n \in S
<1> DEFINE Out == {n \in Nat : low <= n /\ n <= high /\ n \notin S}
<1> SUFFICES ASSUME Out # {} PROVE FALSE
  OBVIOUS
<1>1. PICK n \in Out : \A m \in Out : n <= m
  <2>1. Out \in SUBSET Nat
    OBVIOUS
  <2> HIDE DEF Out
  <2> QED
    BY <2>1, LeastNumber
<1>2. n \in Nat /\ low < n /\ n <= high /\ n \notin S
  BY <1>1
<1>3. n - 1 \in S
  BY <1>1, <1>2
<1> QED
  BY <1>2, <1>3

-----------------------------------------------------------------------------
(* The Gmail watch *)

(* What the records of the mailbox say *)

MailStates == {Away} \cup SUBSET Labels

\* A message there before and after: the events of the labels set on and taken off.
LEMMA LabelsMoved ==
  ASSUME NEW r, r.from # Away, r.to # Away, NEW e
  PROVE  e \in Events(r) <=> \/ \E l \in r.to \ r.from : e \in LabelEvent(l, TRUE)
                             \/ \E l \in r.from \ r.to : e \in LabelEvent(l, FALSE)
  BY DEF Events

\* The events of a record of the label: it arrives, leaves, or its flags move.
LEMMA EventsSay ==
  ASSUME NEW r \in Record, r.from # r.to,
         Labelled(r.from) \/ Labelled(r.to)
  PROVE  /\ <<"added">> \in Events(r) <=> ~Labelled(r.from)
         /\ <<"removed">> \in Events(r) <=> ~Labelled(r.to)
         /\ Labelled(r.from) /\ Labelled(r.to) =>
              \A f \in {"Seen", "Flagged"} :
                /\ <<"flag-added", f>> \in Events(r)
                     <=> f \in FlagsOf(r.to) /\ f \notin FlagsOf(r.from)
                /\ <<"flag-removed", f>> \in Events(r)
                     <=> f \in FlagsOf(r.from) /\ f \notin FlagsOf(r.to)
         /\ Labelled(r.from) =>
              \A f \in {"Seen", "Flagged"} :
                /\ <<"flag-added", f>> \in Events(r) => f \notin FlagsOf(r.from)
                /\ <<"flag-removed", f>> \in Events(r) => f \in FlagsOf(r.from)
<1>0. /\ r.from = Away \/ r.from \in SUBSET Labels
      /\ r.to = Away \/ r.to \in SUBSET Labels
      /\ LABEL \in Labels
  BY GmailAssumption DEF Record
<1>1. CASE r.from = Away
  <2>1. Labelled(r.to) /\ ~Labelled(r.from) /\ LABEL \in r.to
    BY <1>1 DEF Labelled
  <2>2. Events(r) = {<<"added">>}
    BY <1>1, <2>1 DEF Events
  <2> QED
    BY <2>1, <2>2
<1>2. CASE r.from # Away /\ r.to = Away
  <2>1. Labelled(r.from) /\ ~Labelled(r.to)
    BY <1>2 DEF Labelled
  <2>2. Events(r) = {<<"removed">>}
    BY <1>2 DEF Events
  <2>3. ASSUME NEW f PROVE <<"flag-added", f>> \notin Events(r) /\ <<"flag-removed", f>> \notin Events(r)
    BY <2>2
  <2> QED
    BY <2>1, <2>2, <2>3
<1>3. CASE r.from # Away /\ r.to # Away
  <2> DEFINE On  == r.to \ r.from
             Off == r.from \ r.to
             Added     == <<"added">>
             Removed   == <<"removed">>
             Seen      == <<"flag-added", "Seen">>
             Unseen    == <<"flag-removed", "Seen">>
             Starred   == <<"flag-added", "Flagged">>
             Unstarred == <<"flag-removed", "Flagged">>
  <2>0. /\ r.from \in SUBSET Labels /\ r.to \in SUBSET Labels
        /\ Labelled(r.from) <=> LABEL \in r.from
        /\ Labelled(r.to) <=> LABEL \in r.to
    BY <1>0, <1>3 DEF Labelled
  <2>1. ASSUME NEW e
        PROVE  e \in Events(r) <=> \/ \E l \in On : e \in LabelEvent(l, TRUE)
                                   \/ \E l \in Off : e \in LabelEvent(l, FALSE)
    BY <1>3, LabelsMoved
  <2>2. ASSUME NEW l
        PROVE  /\ Added \in LabelEvent(l, TRUE) <=> l = LABEL
               /\ Added \notin LabelEvent(l, FALSE)
               /\ Removed \in LabelEvent(l, FALSE) <=> l = LABEL
               /\ Removed \notin LabelEvent(l, TRUE)
    BY DEF LabelEvent, FlagEvent
  <2>3. ASSUME NEW l
        PROVE  /\ Seen \in LabelEvent(l, FALSE) <=> l # LABEL /\ l = "UNREAD"
               /\ Seen \notin LabelEvent(l, TRUE)
               /\ Unseen \in LabelEvent(l, TRUE) <=> l # LABEL /\ l = "UNREAD"
               /\ Unseen \notin LabelEvent(l, FALSE)
    BY DEF LabelEvent, FlagEvent
  <2>4. ASSUME NEW l
        PROVE  /\ Starred \in LabelEvent(l, TRUE) <=> l # LABEL /\ l = "STARRED"
               /\ Starred \notin LabelEvent(l, FALSE)
               /\ Unstarred \in LabelEvent(l, FALSE) <=> l # LABEL /\ l = "STARRED"
               /\ Unstarred \notin LabelEvent(l, TRUE)
    BY DEF LabelEvent, FlagEvent
  <2> HIDE DEF Added, Removed, Seen, Unseen, Starred, Unstarred
  <2>5. /\ Added \in Events(r) <=> LABEL \in On
        /\ Removed \in Events(r) <=> LABEL \in Off
    BY <2>1, <2>2, Zenon
  <2>6. /\ Seen \in Events(r) <=> "UNREAD" \in Off /\ "UNREAD" # LABEL
        /\ Unseen \in Events(r) <=> "UNREAD" \in On /\ "UNREAD" # LABEL
    BY <2>1, <2>3, Zenon
  <2>8. /\ Starred \in Events(r) <=> "STARRED" \in On /\ "STARRED" # LABEL
        /\ Unstarred \in Events(r) <=> "STARRED" \in Off /\ "STARRED" # LABEL
    BY <2>1, <2>4, Zenon
  <2>7. ASSUME NEW s PROVE /\ "Seen" \in FlagsOf(s) <=> "UNREAD" \notin s
                           /\ "Flagged" \in FlagsOf(s) <=> "STARRED" \in s
    BY DEF FlagsOf
  <2> QED
    BY <2>0, <2>5, <2>6, <2>7, <2>8 DEF Added, Removed, Seen, Unseen, Starred, Unstarred, On, Off
<1> QED
  BY <1>1, <1>2, <1>3

\* The flags of a message are of two.
LEMMA FlagsKnown ==
  ASSUME NEW labels
  PROVE  FlagsOf(labels) \subseteq {"Seen", "Flagged"}
  BY DEF FlagsOf

\* A hook that holds what the message was before a record of the label holds what
\* it is after.
LEMMA HeardIsView ==
  ASSUME NEW r \in Record, r.from # r.to,
         Labelled(r.from) \/ Labelled(r.to)
  PROVE  Heard(View(r.from), r) = View(r.to)
<1>1. CASE ~Labelled(r.from)
  <2>1. /\ <<"added">> \in Events(r) /\ <<"removed">> \notin Events(r)
        /\ View(r.to) = <<FlagsOf(r.to)>>
    BY <1>1, EventsSay DEF View
  <2> QED
    BY <2>1 DEF Heard
<1>2. CASE Labelled(r.from) /\ ~Labelled(r.to)
  <2>1. <<"added">> \notin Events(r) /\ <<"removed">> \in Events(r) /\ View(r.to) = <<>>
    BY <1>2, EventsSay DEF View
  <2> QED
    BY <2>1 DEF Heard
<1>3. CASE Labelled(r.from) /\ Labelled(r.to)
  <2> DEFINE F == FlagsOf(r.from)
             T == FlagsOf(r.to)
             Up == {f \in {"Seen", "Flagged"} : <<"flag-added", f>> \in Events(r)}
             Down == {f \in {"Seen", "Flagged"} : <<"flag-removed", f>> \in Events(r)}
  <2>1. <<"added">> \notin Events(r) /\ <<"removed">> \notin Events(r)
    BY <1>3, EventsSay
  <2>2. \A f \in {"Seen", "Flagged"} :
          /\ <<"flag-added", f>> \in Events(r) <=> f \in T /\ f \notin F
          /\ <<"flag-removed", f>> \in Events(r) <=> f \in F /\ f \notin T
    BY <1>3, EventsSay
  <2>3. F \subseteq {"Seen", "Flagged"} /\ T \subseteq {"Seen", "Flagged"}
    BY FlagsKnown
  <2>4. View(r.from) = <<F>> /\ View(r.to) = <<T>>
    BY <1>3 DEF View
  <2>5. Heard(<<F>>, r) = <<(F \cup Up) \ Down>>
    BY <2>1 DEF Heard
  <2> HIDE DEF F, T
  <2>6. (F \cup Up) \ Down = T
    BY <2>2, <2>3
  <2> QED
    BY <2>4, <2>5, <2>6
<1> QED
  BY <1>1, <1>2, <1>3

-----------------------------------------------------------------------------
(* What a round makes of its records *)

\* The records answered up to each of the records since the cursor.
ReadsOn(a, to) ==
  a = [i \in history .. to |->
        IF i = history THEN <<>>
        ELSE IF Labelled(log[i].from) \/ Labelled(log[i].to)
        THEN Append(a[i - 1], log[i])
        ELSE a[i - 1]]

\* What is told after each of the records answered.
Follows(t, records) ==
  t = [i \in 0 .. Len(records) |->
        IF i = 0 THEN told
        ELSE [t[i - 1] EXCEPT ![records[i].id] = Heard(@, records[i])]]

LEMMA SomeReads ==
  ASSUME NEW to \in Nat, history \in 0 .. to
  PROVE  \E a : ReadsOn(a, to)
<1> DEFINE Read == {n \in Nat : \E a : ReadsOn(a, n)}
<1>1. history \in Read
  <2>1. ReadsOn([i \in history .. history |-> <<>>], history)
    BY DEF ReadsOn
  <2> QED
    BY <2>1
<1>2. ASSUME NEW n \in history .. to - 1, n \in Read PROVE n + 1 \in Read
  <2>1. PICK a : ReadsOn(a, n)
    BY <1>2
  <2> DEFINE k == n + 1
             b == [i \in history .. k |->
                    IF i < k THEN a[i]
                    ELSE IF Labelled(log[k].from) \/ Labelled(log[k].to)
                    THEN Append(a[n], log[k])
                    ELSE a[n]]
  <2>2. ASSUME NEW i \in history .. k
        PROVE  b[i] = IF i = history THEN <<>>
                      ELSE IF Labelled(log[i].from) \/ Labelled(log[i].to)
                      THEN Append(b[i - 1], log[i])
                      ELSE b[i - 1]
    <3>1. CASE i < k
      <4>1. i \in history .. n /\ (i # history => i - 1 \in history .. k /\ i - 1 < k)
        BY <3>1
      <4>2. a[i] = IF i = history THEN <<>>
                   ELSE IF Labelled(log[i].from) \/ Labelled(log[i].to)
                   THEN Append(a[i - 1], log[i])
                   ELSE a[i - 1]
        BY <2>1, <4>1 DEF ReadsOn
      <4>3. b[i] = a[i] /\ (i # history => b[i - 1] = a[i - 1])
        BY <3>1, <4>1
      <4> QED
        BY <4>2, <4>3
    <3>2. CASE i = k
      <4>1. i # history /\ i - 1 = n /\ n \in history .. k /\ n < k
        BY <3>2
      <4> QED
        BY <3>2, <4>1
    <3> QED
      BY <3>1, <3>2
  <2>3. b = [i \in history .. k |-> b[i]]
    OBVIOUS
  <2> HIDE DEF b
  <2>4. ReadsOn(b, k)
    BY <2>2, <2>3 DEF ReadsOn
  <2> QED
    BY <2>4
<1> HIDE DEF Read
<1>3. \A n \in history .. to : n \in Read
  BY <1>1, <1>2, Climb
<1> QED
  BY <1>3 DEF Read

LEMMA SomeFollows ==
  ASSUME NEW records, Len(records) \in Nat
  PROVE  \E t : Follows(t, records)
<1> DEFINE Upto(t, n) ==
             t = [i \in 0 .. n |->
                   IF i = 0 THEN told
                   ELSE [t[i - 1] EXCEPT ![records[i].id] = Heard(@, records[i])]]
           Told == {n \in Nat : \E t : Upto(t, n)}
<1>1. 0 \in Told
  <2>1. Upto([i \in 0 .. 0 |-> told], 0)
    OBVIOUS
  <2> QED
    BY <2>1
<1>2. ASSUME NEW n \in 0 .. Len(records) - 1, n \in Told PROVE n + 1 \in Told
  <2>1. PICK t : Upto(t, n)
    BY <1>2
  <2> DEFINE k    == n + 1
             next == [t[n] EXCEPT ![records[k].id] = Heard(@, records[k])]
             u    == [i \in 0 .. k |-> IF i < k THEN t[i] ELSE next]
  <2>2. ASSUME NEW i \in 0 .. k
        PROVE  u[i] = IF i = 0 THEN told
                      ELSE [u[i - 1] EXCEPT ![records[i].id] = Heard(@, records[i])]
    <3>1. CASE i < k
      <4>1. i \in 0 .. n /\ (i # 0 => i - 1 \in 0 .. k /\ i - 1 < k)
        BY <3>1
      <4>2. t[i] = IF i = 0 THEN told
                   ELSE [t[i - 1] EXCEPT ![records[i].id] = Heard(@, records[i])]
        BY <2>1, <4>1
      <4>3. u[i] = t[i] /\ (i # 0 => u[i - 1] = t[i - 1])
        BY <3>1, <4>1
      <4> QED
        BY <4>2, <4>3
    <3>2. CASE i = k
      <4>1. i # 0 /\ i - 1 = n /\ n \in 0 .. k /\ n < k
        BY <3>2
      <4>2. u[i - 1] = t[n] /\ u[i] = next
        BY <3>2, <4>1
      <4> QED
        BY <3>2, <4>1, <4>2
    <3> QED
      BY <3>1, <3>2
  <2>3. u = [i \in 0 .. k |-> u[i]]
    OBVIOUS
  <2> HIDE DEF u
  <2>4. Upto(u, k)
    BY <2>2, <2>3
  <2> QED
    BY <2>4
<1> HIDE DEF Told
<1>3. \A n \in 0 .. Len(records) : n \in Told
  BY <1>1, <1>2, Climb
<1>4. Len(records) \in Told
  BY <1>3
<1>5. \E t : Upto(t, Len(records))
  BY <1>4, Zenon DEF Told
<1> QED
  BY <1>5 DEF Follows

LEMMA AnsweredReads ==
  ASSUME NEW to \in Nat, history \in 0 .. to
  PROVE  \E a : ReadsOn(a, to) /\ Answered(to) = a[to]
  BY SomeReads DEF Answered, ReadsOn

LEMMA TellsFollows ==
  ASSUME NEW records, Len(records) \in Nat
  PROVE  Follows(Tells(records), records)
  BY SomeFollows DEF Tells, Follows

-----------------------------------------------------------------------------
(* The mailbox as it was, and what a round tells of it *)

\* The mailbox before each of its records.
Recorded(p) ==
  /\ p \in [0 .. Len(log) -> [Messages -> MailStates]]
  /\ p[Len(log)] = mailbox
  /\ \A i \in 1 .. Len(log) :
       /\ log[i] \in Record /\ log[i].from # log[i].to
       /\ p[i - 1][log[i].id] = log[i].from
       /\ p[i] = [p[i - 1] EXCEPT ![log[i].id] = log[i].to]

Shown(states) == [m \in Messages |-> View(states[m])]

\* What is told is the mailbox at the cursor.
ToldAsOf(p) == pc \in {"idle", "page"} => told = Shown(p[history])

MailTyped ==
  /\ history \in 0 .. Len(log)
  /\ log \in Seq(Record)

MailInv == MailTyped /\ \E p : Recorded(p) /\ ToldAsOf(p)

\* A record of the label is what moves its message, any other moves nothing shown.
LEMMA RecordShown ==
  ASSUME MailTyped, NEW p, Recorded(p), NEW i \in 1 .. Len(log)
  PROVE  Shown(p[i]) = IF Labelled(log[i].from) \/ Labelled(log[i].to)
                       THEN [Shown(p[i - 1]) EXCEPT ![log[i].id] = Heard(@, log[i])]
                       ELSE Shown(p[i - 1])
<1> DEFINE r == log[i]
<1>1. /\ r \in Record /\ r.from # r.to /\ r.id \in Messages
      /\ p[i - 1][r.id] = r.from
      /\ p[i] = [p[i - 1] EXCEPT ![r.id] = r.to]
  BY DEF Recorded, Record
<1>2. p[i - 1] \in [Messages -> MailStates]
  BY DEF Recorded, MailTyped
<1> HIDE DEF r
<1>3. ASSUME NEW m \in Messages
      PROVE  p[i][m] = IF m = r.id THEN r.to ELSE p[i - 1][m]
  BY <1>1, <1>2
<1>4. CASE Labelled(r.from) \/ Labelled(r.to)
  <2>1. Heard(View(r.from), r) = View(r.to)
    BY <1>1, <1>4, HeardIsView
  <2>2. Shown(p[i - 1])[r.id] = View(r.from)
    BY <1>1 DEF Shown
  <2>3. [Shown(p[i - 1]) EXCEPT ![r.id] = Heard(@, r)]
          = [m \in Messages |-> IF m = r.id THEN View(r.to) ELSE View(p[i - 1][m])]
    BY <2>1, <2>2 DEF Shown
  <2>4. Shown(p[i]) = [m \in Messages |-> IF m = r.id THEN View(r.to) ELSE View(p[i - 1][m])]
    BY <1>3 DEF Shown
  <2> QED
    BY <1>4, <2>3, <2>4 DEF r
<1>5. CASE ~(Labelled(r.from) \/ Labelled(r.to))
  <2>1. View(r.from) = <<>> /\ View(r.to) = <<>>
    BY <1>5 DEF View
  <2>2. \A m \in Messages : View(p[i][m]) = View(p[i - 1][m])
    BY <1>1, <1>3, <2>1
  <2> QED
    BY <1>5, <2>2 DEF Shown, r
<1> QED
  BY <1>4, <1>5

\* The records answered are a prefix of the records answered later.
LEMMA ReadsGrow ==
  ASSUME MailTyped, NEW a, ReadsOn(a, Len(log))
  PROVE  /\ \A i \in history .. Len(log) : a[i] \in Seq(Record)
         /\ \A i \in history + 1 .. Len(log) :
              /\ Len(a[i]) = Len(a[i - 1]) + (IF Labelled(log[i].from) \/ Labelled(log[i].to) THEN 1 ELSE 0)
              /\ \A j \in 1 .. Len(a[i - 1]) : a[i][j] = a[i - 1][j]
              /\ Labelled(log[i].from) \/ Labelled(log[i].to) => a[i][Len(a[i])] = log[i]
         /\ a[history] = <<>>
<1>1. ASSUME NEW i \in history .. Len(log)
      PROVE  a[i] = IF i = history THEN <<>>
                    ELSE IF Labelled(log[i].from) \/ Labelled(log[i].to)
                    THEN Append(a[i - 1], log[i])
                    ELSE a[i - 1]
  BY DEF ReadsOn
<1>2. history \in Nat /\ Len(log) \in Nat /\ history <= Len(log)
  BY DEF MailTyped
<1> DEFINE S == {i \in Nat : a[i] \in Seq(Record)}
<1>3. \A i \in history .. Len(log) : i \in S
  <2>1. history \in S
    <3>1. a[history] = <<>>
      BY <1>1, <1>2
    <3> QED
      BY <1>2, <3>1, EmptySeq
  <2>2. ASSUME NEW n \in history .. Len(log) - 1, n \in S PROVE n + 1 \in S
    <3>1. n + 1 \in history .. Len(log) /\ n + 1 # history /\ n + 1 \in 1 .. Len(log) /\ (n + 1) - 1 = n
      BY <1>2
    <3>2. log[n + 1] \in Record
      BY <3>1, ElementOfSeq DEF MailTyped
    <3>3. a[n + 1] = Append(a[n], log[n + 1]) \/ a[n + 1] = a[n]
      BY <1>1, <3>1
    <3>4. a[n + 1] \in Seq(Record)
      BY <2>2, <3>2, <3>3, AppendProperties
    <3> QED
      BY <3>1, <3>4
  <2> HIDE DEF S
  <2> QED
    BY <1>2, <2>1, <2>2, Climb
<1>4. \A i \in history .. Len(log) : a[i] \in Seq(Record)
  BY <1>3
<1>5. ASSUME NEW i \in history + 1 .. Len(log)
      PROVE  /\ Len(a[i]) = Len(a[i - 1]) + (IF Labelled(log[i].from) \/ Labelled(log[i].to) THEN 1 ELSE 0)
             /\ \A j \in 1 .. Len(a[i - 1]) : a[i][j] = a[i - 1][j]
             /\ Labelled(log[i].from) \/ Labelled(log[i].to) => a[i][Len(a[i])] = log[i]
  <2>1. /\ i - 1 \in history .. Len(log) /\ i \in history .. Len(log) /\ i # history
        /\ i \in 1 .. Len(log)
    BY <1>2
  <2>2. a[i - 1] \in Seq(Record) /\ Len(a[i - 1]) \in Nat
    BY <1>4, <2>1
  <2>3. log[i] \in Record
    BY <2>1, ElementOfSeq DEF MailTyped
  <2>4. CASE Labelled(log[i].from) \/ Labelled(log[i].to)
    <3>1. a[i] = Append(a[i - 1], log[i])
      BY <1>1, <2>1, <2>4
    <3>2. /\ Len(a[i]) = Len(a[i - 1]) + 1
          /\ \A j \in 1 .. Len(a[i - 1]) : a[i][j] = a[i - 1][j]
          /\ a[i][Len(a[i - 1]) + 1] = log[i]
      BY <2>2, <2>3, <3>1, AppendProperties
    <3> QED
      BY <2>2, <2>4, <3>2
  <2>5. CASE ~(Labelled(log[i].from) \/ Labelled(log[i].to))
    <3>1. a[i] = a[i - 1]
      BY <1>1, <2>1, <2>5
    <3> QED
      BY <2>2, <2>5, <3>1
  <2> QED
    BY <2>4, <2>5
<1>6. a[history] = <<>>
  BY <1>1, <1>2
<1> QED
  BY <1>4, <1>5, <1>6

\* A round, read record by record: each answered one is told where the mailbox
\* stood before it, and after the last of them what is told is the mailbox.
LEMMA RoundTells ==
  ASSUME MailTyped, NEW p, Recorded(p), told = Shown(p[history]),
         NEW records, records = Answered(Len(log))
  PROVE  /\ records \in Seq(Record)
         /\ Tells(records)[Len(records)] = Shown(mailbox)
         /\ \A j \in 1 .. Len(records) : \E i \in 1 .. Len(log) :
              /\ records[j] = log[i] /\ (Labelled(log[i].from) \/ Labelled(log[i].to))
              /\ Tells(records)[j - 1] = Shown(p[i - 1])
<1> DEFINE OfLabel(i) == Labelled(log[i].from) \/ Labelled(log[i].to)
<1>0. history \in Nat /\ Len(log) \in Nat /\ history <= Len(log)
  BY DEF MailTyped
<1>1. PICK a : ReadsOn(a, Len(log)) /\ records = a[Len(log)]
  BY <1>0, AnsweredReads
<1> DEFINE k(i) == Len(a[i])
           t == Tells(records)
<1>2. /\ \A i \in history .. Len(log) : a[i] \in Seq(Record) /\ k(i) \in Nat
      /\ \A i \in history + 1 .. Len(log) :
           /\ k(i) = k(i - 1) + (IF OfLabel(i) THEN 1 ELSE 0)
           /\ \A j \in 1 .. k(i - 1) : a[i][j] = a[i - 1][j]
           /\ OfLabel(i) => a[i][k(i)] = log[i]
      /\ k(history) = 0
  <2>1. /\ \A i \in history .. Len(log) : a[i] \in Seq(Record)
        /\ \A i \in history + 1 .. Len(log) :
             /\ Len(a[i]) = Len(a[i - 1]) + (IF OfLabel(i) THEN 1 ELSE 0)
             /\ \A j \in 1 .. Len(a[i - 1]) : a[i][j] = a[i - 1][j]
             /\ OfLabel(i) => a[i][Len(a[i])] = log[i]
        /\ a[history] = <<>>
    BY <1>1, ReadsGrow, Zenon
  <2>2. \A i \in history .. Len(log) : Len(a[i]) \in Nat
    BY <2>1, LenProperties
  <2>3. Len(a[history]) = 0
    BY <2>1
  <2> QED
    BY <2>1, <2>2, <2>3, Zenon
<1>3. records \in Seq(Record) /\ Len(records) \in Nat /\ Len(records) = k(Len(log))
  BY <1>0, <1>1, <1>2
<1>4. Follows(t, records)
  BY <1>3, TellsFollows
<1> HIDE DEF OfLabel, k, t
\* What is answered up to a record stays answered.
<1>5. ASSUME NEW i \in history .. Len(log)
      PROVE  /\ k(i) <= Len(records)
             /\ \A j \in 1 .. k(i) : records[j] = a[i][j]
  <2> DEFINE S == {n \in Nat : k(i) <= k(n) /\ \A j \in 1 .. k(i) : a[n][j] = a[i][j]}
  <2>1. i \in Nat /\ i \in S
    BY <1>0, <1>2
  <2>2. ASSUME NEW n \in i .. Len(log) - 1, n \in S PROVE n + 1 \in S
    <3>1. n + 1 \in history + 1 .. Len(log) /\ (n + 1) - 1 = n /\ n \in history .. Len(log)
      BY <1>0
    <3>2. k(i) <= k(n) /\ \A j \in 1 .. k(i) : a[n][j] = a[i][j]
      BY <2>2
    <3>3. k(i) \in Nat /\ k(n) \in Nat /\ k(n + 1) \in Nat
      BY <1>0, <1>2, <3>1
    <3>4. k(n) <= k(n + 1) /\ \A j \in 1 .. k(n) : a[n + 1][j] = a[n][j]
      BY <1>2, <3>1, <3>3
    <3>5. k(i) <= k(n + 1) /\ \A j \in 1 .. k(i) : a[n + 1][j] = a[i][j]
      BY <3>2, <3>3, <3>4
    <3>6. n + 1 \in Nat
      BY <1>0, <3>1
    <3> QED
      BY <3>5, <3>6, Zenon
  <2>3. Len(log) \in i .. Len(log)
    BY <1>0, <2>1
  <2> HIDE DEF S
  <2>4. Len(log) \in S
    BY <1>0, <2>1, <2>2, <2>3, Climb
  <2> QED
    BY <1>1, <1>3, <2>4 DEF S
<1>6. ASSUME NEW i \in history + 1 .. Len(log), OfLabel(i)
      PROVE  /\ k(i) \in 1 .. Len(records) /\ k(i) - 1 = k(i - 1)
             /\ records[k(i)] = log[i]
  <2>1. i \in history .. Len(log) /\ i - 1 \in history .. Len(log)
    BY <1>0
  <2>2. k(i) = k(i - 1) + 1 /\ k(i - 1) \in Nat /\ k(i) \in Nat
    BY <1>2, <1>6, <2>1
  <2>3. k(i) \in 1 .. k(i) /\ k(i) - 1 = k(i - 1) /\ 1 <= k(i)
    BY <2>2
  <2>4. k(i) <= Len(records) /\ records[k(i)] = a[i][k(i)]
    BY <1>5, <2>1, <2>3
  <2>5. a[i][k(i)] = log[i]
    BY <1>2, <1>6
  <2> QED
    BY <1>3, <2>2, <2>3, <2>4, <2>5
\* What is told up to a record is what the mailbox was after it.
<1>7. ASSUME NEW i \in history .. Len(log) PROVE t[k(i)] = Shown(p[i])
  <2> DEFINE S == {n \in Nat : t[k(n)] = Shown(p[n])}
  <2>1. history \in S
    <3>1. t[0] = told
      BY <1>3, <1>4 DEF Follows
    <3> QED
      BY <1>0, <1>2, <3>1
  <2>2. ASSUME NEW n \in history .. Len(log) - 1, n \in S PROVE n + 1 \in S
    <3> DEFINE m == n + 1
    <3>1. /\ m \in history + 1 .. Len(log) /\ m \in history .. Len(log)
          /\ m \in 1 .. Len(log) /\ m - 1 = n /\ m \in Nat
      BY <1>0
    <3>2. t[k(n)] = Shown(p[n])
      BY <2>2
    <3> HIDE DEF m
    <3>3. CASE OfLabel(m)
      <4>1. Shown(p[m]) = [Shown(p[n]) EXCEPT ![log[m].id] = Heard(@, log[m])]
        BY <3>1, <3>3, RecordShown DEF OfLabel
      <4>2. k(m) \in 1 .. Len(records) /\ k(m) - 1 = k(n) /\ records[k(m)] = log[m]
        BY <1>6, <3>1, <3>3
      <4>3. t[k(m)] = [t[k(m) - 1] EXCEPT ![records[k(m)].id] = Heard(@, records[k(m)])]
        <5>1. k(m) \in 0 .. Len(records) /\ k(m) # 0
          BY <1>3, <4>2
        <5> QED
          BY <1>4, <5>1 DEF Follows
      <4>4. t[k(m)] = Shown(p[m])
        BY <3>2, <4>1, <4>2, <4>3
      <4> QED
        BY <3>1, <4>4 DEF m
    <3>4. CASE ~OfLabel(m)
      <4>1. Shown(p[m]) = Shown(p[n])
        BY <3>1, <3>4, RecordShown DEF OfLabel
      <4>2. k(m) = k(n)
        <5>1. k(m) = k(n) + 0 /\ k(n) \in Nat
          BY <1>0, <1>2, <3>1, <3>4
        <5> QED
          BY <5>1
      <4> QED
        BY <3>1, <3>2, <4>1, <4>2 DEF m
    <3> QED
      BY <3>3, <3>4
  <2> HIDE DEF S
  <2>3. i \in S
    BY <1>0, <2>1, <2>2, Climb
  <2> QED
    BY <2>3 DEF S
<1>8. t[Len(records)] = Shown(mailbox)
  <2>1. Len(log) \in history .. Len(log) /\ p[Len(log)] = mailbox
    BY <1>0 DEF Recorded
  <2> QED
    BY <1>3, <1>7, <2>1
\* Each of the records answered is the first to make them that many.
<1>9. ASSUME NEW j \in 1 .. Len(records)
      PROVE  \E i \in history + 1 .. Len(log) : OfLabel(i) /\ k(i) = j
  <2> DEFINE Many == {i \in Nat : history <= i /\ i <= Len(log) /\ k(i) >= j}
  <2>1. Many \in SUBSET Nat /\ Len(log) \in Many
    BY <1>0, <1>3
  <2>2. PICK i \in Many : \A n \in Many : i <= n
    <3> HIDE DEF Many
    <3> QED
      BY <2>1, LeastNumber
  <2>3. i \in history .. Len(log) /\ k(i) >= j /\ k(i) \in Nat /\ i \in Nat
    BY <1>2, <2>2
  <2>4. i # history
    BY <1>2, <2>3
  <2>5. i \in history + 1 .. Len(log) /\ i - 1 \in history .. Len(log)
    BY <1>0, <2>3, <2>4
  <2>6. k(i - 1) \in Nat /\ k(i - 1) < j
    <3>1. i - 1 \notin Many
      <4> HIDE DEF Many
      <4> QED
        BY <2>2, <2>3
    <3> QED
      BY <1>0, <1>2, <2>5, <3>1
  <2>7. OfLabel(i) /\ k(i) = j
    <3>1. k(i) = k(i - 1) + (IF OfLabel(i) THEN 1 ELSE 0)
      BY <1>2, <2>5
    <3> QED
      BY <2>3, <2>6, <3>1
  <2> QED
    BY <2>5, <2>7
<1>10. ASSUME NEW j \in 1 .. Len(records)
       PROVE  \E i \in 1 .. Len(log) :
                /\ records[j] = log[i] /\ OfLabel(i)
                /\ t[j - 1] = Shown(p[i - 1])
  <2>1. PICK i \in history + 1 .. Len(log) : OfLabel(i) /\ k(i) = j
    BY <1>9
  <2>2. i \in 1 .. Len(log) /\ i - 1 \in history .. Len(log)
    BY <1>0
  <2>3. records[j] = log[i] /\ j - 1 = k(i - 1)
    BY <1>6, <2>1
  <2>4. t[j - 1] = Shown(p[i - 1])
    BY <1>7, <2>2, <2>3
  <2> QED
    BY <2>1, <2>2, <2>3, <2>4
<1> QED
  BY <1>3, <1>8, <1>10 DEF OfLabel, t

-----------------------------------------------------------------------------
(* The steps *)

\* The mailbox and its records stay, and so does what they were.
LEMMA StillRecorded ==
  ASSUME UNCHANGED <<mailbox, log>>, NEW p, Recorded(p)
  PROVE  Recorded(p)'
  BY DEF Recorded, Record

LEMMA GmailInitially ==
  ASSUME Init
  PROVE  MailInv
<1>1. log = <<>> /\ history = 0 /\ Len(log) = 0 /\ pc = "down"
  BY DEF Init
<1>2. MailTyped
  BY <1>1, EmptySeq DEF MailTyped
<1>3. mailbox \in [Messages -> MailStates]
  BY GmailAssumption DEF Init, MailStates
<1> DEFINE p == [i \in 0 .. 0 |-> mailbox]
<1>4. Recorded(p) /\ ToldAsOf(p)
  BY <1>1, <1>3 DEF Recorded, ToldAsOf
<1> QED
  BY <1>2, <1>4 DEF MailInv

\* A watch that starts over holds what the mailbox shows.
LEMMA ResumedMirrors ==
  ASSUME MailTyped, NEW p, Recorded(p), Resumed, UNCHANGED <<mailbox, log>>
  PROVE  MailTyped' /\ ToldAsOf(p)'
<1>1. history' = Len(log) /\ Len(log) \in Nat /\ log' = log
  BY DEF Resumed, MailTyped
<1>2. told' = Shown(p[Len(log)])
  BY DEF Resumed, Shown, Recorded
<1> QED
  BY <1>1, <1>2 DEF MailTyped, ToldAsOf, Shown, View, Record

LEMMA GmailKeeps ==
  ASSUME MailInv, [Next]_vars
  PROVE  MailInv'
<1>0. PICK p : Recorded(p) /\ ToldAsOf(p)
  BY DEF MailInv
<1> USE DEF MailInv
<1>1. ASSUME UNCHANGED <<mailbox, log, history, told>>,
             pc' \in {"idle", "page"} => pc \in {"idle", "page"}
      PROVE  MailInv'
  <2>1. Recorded(p)' /\ MailTyped'
    BY <1>0, <1>1, StillRecorded DEF MailTyped, Record
  <2>2. ToldAsOf(p)'
    BY <1>0, <1>1 DEF ToldAsOf, Shown, View
  <2> QED
    BY <2>1, <2>2
<1>2. ASSUME Resumed, UNCHANGED <<mailbox, log>> PROVE MailInv'
  BY <1>0, <1>2, StillRecorded, ResumedMirrors
<1>3. CASE Round
  <2>1. /\ UNCHANGED <<mailbox, log>> /\ history' = Len(log) /\ pc = "page"
        /\ out' = Answered(Len(log)) /\ told' = Tells(out')[Len(out')]
    BY <1>3 DEF Round, server
  <2>2. told = Shown(p[history])
    BY <1>0, <2>1 DEF ToldAsOf
  <2>3. told' = Shown(mailbox)
    BY <1>0, <2>1, <2>2, RoundTells
  <2>4. told' = Shown(p[history'])
    BY <1>0, <2>1, <2>3 DEF Recorded
  <2>5. ToldAsOf(p)'
    BY <2>4 DEF ToldAsOf, Shown, View
  <2>6. MailTyped'
    BY <2>1 DEF MailTyped, Record
  <2> QED
    BY <1>0, <2>1, <2>5, <2>6, StillRecorded
<1>4. CASE Others
  <2>1. /\ UNCHANGED <<pc, history, told>>
    BY <1>4 DEF Others, Silent
  <2>2. PICK r \in Record :
          /\ r.from = mailbox[r.id] /\ r.to # r.from
          /\ log' = Append(log, r)
          /\ mailbox' = [mailbox EXCEPT ![r.id] = r.to]
    BY <1>4 DEF Others
  <2> DEFINE n == Len(log)
  <2> PICK q : q = [i \in 0 .. n + 1 |-> IF i <= n THEN p[i] ELSE mailbox']
    OBVIOUS
  <2>3. log \in Seq(Record) /\ n \in Nat /\ history \in 0 .. n
    BY DEF MailTyped
  <2>4. /\ log' \in Seq(Record) /\ Len(log') = n + 1 /\ log'[n + 1] = r
        /\ \A i \in 1 .. n : log'[i] = log[i]
    BY <2>2, <2>3, AppendProperties
  <2>5. /\ r.id \in Messages /\ r.to \in MailStates
    BY DEF Record, MailStates
  <2>6. /\ mailbox \in [Messages -> MailStates] /\ p[n] = mailbox
        /\ \A i \in 0 .. n : p[i] \in [Messages -> MailStates]
    <3>1. p \in [0 .. n -> [Messages -> MailStates]] /\ p[n] = mailbox
      BY <1>0 DEF Recorded
    <3>2. n \in 0 .. n
      BY <2>3
    <3> QED
      BY <3>1, <3>2
  <2>7. mailbox' \in [Messages -> MailStates]
    BY <2>2, <2>5, <2>6
  <2>8. /\ q \in [0 .. n + 1 -> [Messages -> MailStates]]
        /\ q[n + 1] = mailbox' /\ q[n] = mailbox
        /\ \A i \in 0 .. n : q[i] = p[i]
    BY <2>3, <2>6, <2>7
  <2>9. ASSUME NEW i \in 1 .. n + 1
        PROVE  /\ log'[i] \in Record /\ log'[i].from # log'[i].to
               /\ q[i - 1][log'[i].id] = log'[i].from
               /\ q[i] = [q[i - 1] EXCEPT ![log'[i].id] = log'[i].to]
    <3>1. CASE i = n + 1
      <4>1. i - 1 = n /\ log'[i] = r
        BY <2>3, <2>4, <3>1
      <4> QED
        BY <2>2, <2>8, <3>1, <4>1
    <3>2. CASE i \in 1 .. n
      <4>1. i \in 0 .. n /\ i - 1 \in 0 .. n /\ log'[i] = log[i]
        BY <2>3, <2>4, <3>2
      <4>2. /\ log[i] \in Record /\ log[i].from # log[i].to
            /\ p[i - 1][log[i].id] = log[i].from
            /\ p[i] = [p[i - 1] EXCEPT ![log[i].id] = log[i].to]
        BY <1>0, <3>2 DEF Recorded
      <4> QED
        BY <2>8, <4>1, <4>2
    <3> QED
      BY <2>3, <3>1, <3>2
  <2>10. Recorded(q)'
    BY <2>4, <2>8, <2>9 DEF Recorded, Record
  <2>11. ToldAsOf(q)'
    <3>1. history \in 0 .. n /\ q[history] = p[history]
      BY <2>3, <2>8
    <3> QED
      BY <1>0, <2>1, <3>1 DEF ToldAsOf, Shown, View
  <2>12. MailTyped'
    BY <2>1, <2>3, <2>4 DEF MailTyped, Record
  <2> QED
    BY <2>10, <2>11, <2>12
<1>5. CASE Open
  BY <1>1, <1>5 DEF Open, Silent, server
<1>6. CASE Arm
  BY <1>2, <1>6 DEF Arm, server
<1>7. CASE Poll
  BY <1>1, <1>7 DEF Poll, Silent, server
<1>8. CASE Page
  BY <1>1, <1>8 DEF Page, Silent, server
<1>9. CASE Expired
  BY <1>2, <1>9 DEF Expired, server
<1>10. CASE Stop
  BY <1>1, <1>10 DEF Stop, Silent, server
<1>11. CASE RunAgain
  BY <1>1, <1>11 DEF RunAgain, Silent, server
<1>12. CASE SessionEnds
  BY <1>1, <1>12 DEF SessionEnds, Silent, server
<1>13. CASE RequestShutdown
  BY <1>1, <1>13 DEF RequestShutdown, Silent, server
<1>14. CASE Forget
  BY <1>1, <1>14 DEF Forget, Silent
<1>15. CASE UNCHANGED vars
  BY <1>1, <1>15 DEF vars, server
<1> QED
  BY <1>3, <1>4, <1>5, <1>6, <1>7, <1>8, <1>9, <1>10, <1>11, <1>12, <1>13, <1>14, <1>15
     DEF Next, Watch

\* A message no record has moved since the cursor is as it was at the cursor.
LEMMA NotMoved ==
  ASSUME MailTyped, NEW p, Recorded(p), NEW m \in Messages, ~MovedSince(m)
  PROVE  p[history][m] = mailbox[m]
<1>0. history \in Nat /\ Len(log) \in Nat /\ history <= Len(log)
  BY DEF MailTyped
<1> DEFINE S == {i \in Nat : p[i][m] = p[history][m]}
<1>1. history \in S
  BY <1>0
<1>2. ASSUME NEW n \in history .. Len(log) - 1, n \in S PROVE n + 1 \in S
  <2>1. /\ n + 1 \in Nat /\ n + 1 \in 1 .. Len(log) /\ n \in 0 .. Len(log) /\ (n + 1) - 1 = n
        /\ n + 1 \in history + 1 .. Len(log)
    BY <1>0
  <2>2. p[n + 1] = [p[n] EXCEPT ![log[n + 1].id] = log[n + 1].to] /\ p[n] \in [Messages -> MailStates]
    BY <2>1 DEF Recorded
  <2>3. log[n + 1].id # m
    BY <2>1 DEF MovedSince
  <2>4. p[n + 1][m] = p[n][m]
    BY <2>2, <2>3
  <2> QED
    BY <1>2, <2>1, <2>4
<1> HIDE DEF S
<1>3. \A n \in history .. Len(log) : n \in S
  BY <1>0, <1>1, <1>2, Climb
<1>4. Len(log) \in S
  BY <1>0, <1>3
<1> QED
  BY <1>4 DEF S, Recorded

LEMMA MirrorIsCurrent ==
  ASSUME MailInv
  PROVE  ToldIsCurrent
<1>1. PICK p : Recorded(p) /\ ToldAsOf(p)
  BY DEF MailInv
<1>2. ASSUME pc \in {"idle", "page"}, NEW m \in Messages, ~MovedSince(m)
      PROVE  told[m] = View(mailbox[m])
  <2>1. told[m] = View(p[history][m])
    BY <1>1, <1>2 DEF ToldAsOf, Shown
  <2>2. p[history][m] = mailbox[m]
    BY <1>1, <1>2, NotMoved DEF MailInv
  <2> QED
    BY <2>1, <2>2
<1> QED
  BY <1>2 DEF ToldIsCurrent

\* Whichever page or run of a round failed and whatever was labelled meanwhile, a
\* hook that follows the events holds the messages and flags of the label, but for
\* those a record since the cursor has still to tell (Watched::round).
THEOREM GmailMirrorIsCurrent == Spec => []ToldIsCurrent
<1>1. Init => MailInv
  BY GmailInitially
<1>2. MailInv /\ [Next]_vars => MailInv'
  BY GmailKeeps
<1>3. MailInv => ToldIsCurrent
  BY MirrorIsCurrent
<1> QED
  BY <1>1, <1>2, <1>3, PTL DEF Spec

\* What an answered record tells is news to a hook that holds what the mailbox was.
LEMMA RecordTellsNews ==
  ASSUME NEW r \in Record, r.from # r.to,
         Labelled(r.from) \/ Labelled(r.to), NEW before, before = View(r.from)
  PROVE  IF <<"added">> \in Events(r) THEN before = <<>>
         ELSE /\ before # <<>>
              /\ \A f \in before[1] : <<"flag-added", f>> \notin Events(r)
              /\ \A f \in {"Seen", "Flagged"} \ before[1] :
                   <<"flag-removed", f>> \notin Events(r)
<1>1. CASE ~Labelled(r.from)
  BY <1>1, EventsSay DEF View
<1>2. CASE Labelled(r.from)
  <2>1. before = <<FlagsOf(r.from)>> /\ before # <<>> /\ before[1] = FlagsOf(r.from)
    BY <1>2 DEF View
  <2>2. <<"added">> \notin Events(r)
    BY <1>2, EventsSay
  <2>3. FlagsOf(r.from) \subseteq {"Seen", "Flagged"}
    BY FlagsKnown
  <2>4. \A f \in {"Seen", "Flagged"} :
          /\ <<"flag-added", f>> \in Events(r) => f \notin FlagsOf(r.from)
          /\ <<"flag-removed", f>> \in Events(r) => f \in FlagsOf(r.from)
    BY <1>2, EventsSay
  <2> QED
    BY <2>1, <2>2, <2>3, <2>4
<1> QED
  BY <1>1, <1>2

\* The body of ToldOnce.
News(records, tells) ==
  \A i \in 1 .. Len(records) :
    LET r == records[i] before == tells[i - 1][r.id]
    IN  IF <<"added">> \in Events(r) THEN before = <<>>
        ELSE /\ before # <<>>
             /\ \A f \in before[1] : <<"flag-added", f>> \notin Events(r)
             /\ \A f \in {"Seen", "Flagged"} \ before[1] :
                  <<"flag-removed", f>> \notin Events(r)

LEMMA StepTellsNews ==
  ASSUME MailInv, [Next]_vars, ~UNCHANGED vars
  PROVE  News(out', Tells(out'))
<1>1. CASE out' = <<>>
  BY <1>1 DEF News
<1>2. CASE Round
  <2>1. pc = "page" /\ out' = Answered(Len(log))
    BY <1>2 DEF Round
  <2>2. PICK p : Recorded(p) /\ told = Shown(p[history])
    BY <2>1 DEF MailInv, ToldAsOf
  <2>3. MailTyped /\ Len(log) \in Nat
    BY DEF MailInv, MailTyped
  <2>5. PICK records : records = out'
    OBVIOUS
  <2>6. \A j \in 1 .. Len(records) : \E i \in 1 .. Len(log) :
          /\ records[j] = log[i] /\ (Labelled(log[i].from) \/ Labelled(log[i].to))
          /\ Tells(records)[j - 1] = Shown(p[i - 1])
    <3>1. records = Answered(Len(log))
      BY <2>1, <2>5
    <3> QED
      BY <2>2, <2>3, <3>1, RoundTells
  <2>4. ASSUME NEW j \in 1 .. Len(out')
        PROVE  LET r == out'[j] before == Tells(out')[j - 1][r.id]
               IN  IF <<"added">> \in Events(r) THEN before = <<>>
                   ELSE /\ before # <<>>
                        /\ \A f \in before[1] : <<"flag-added", f>> \notin Events(r)
                        /\ \A f \in {"Seen", "Flagged"} \ before[1] :
                             <<"flag-removed", f>> \notin Events(r)
    <3>1. PICK i \in 1 .. Len(log) :
            /\ out'[j] = log[i] /\ (Labelled(log[i].from) \/ Labelled(log[i].to))
            /\ Tells(out')[j - 1] = Shown(p[i - 1])
      BY <2>5, <2>6
    <3>2. /\ log[i] \in Record /\ log[i].from # log[i].to
          /\ p[i - 1][log[i].id] = log[i].from
      BY <2>2 DEF Recorded
    <3>3. log[i].id \in Messages
      BY <3>2 DEF Record
    <3>4. Shown(p[i - 1])[log[i].id] = View(log[i].from)
      BY <3>2, <3>3 DEF Shown
    <3>5. IF <<"added">> \in Events(log[i]) THEN Shown(p[i - 1])[log[i].id] = <<>>
          ELSE /\ Shown(p[i - 1])[log[i].id] # <<>>
               /\ \A f \in Shown(p[i - 1])[log[i].id][1] : <<"flag-added", f>> \notin Events(log[i])
               /\ \A f \in {"Seen", "Flagged"} \ Shown(p[i - 1])[log[i].id][1] :
                    <<"flag-removed", f>> \notin Events(log[i])
      BY <3>1, <3>2, <3>4, RecordTellsNews
    <3> QED
      BY <3>1, <3>5
  <2> QED
    BY <2>4 DEF News
<1> QED
  BY <1>1, <1>2
     DEF Next, Watch, Open, Arm, Poll, Page, Expired, Stop, RunAgain,
         SessionEnds, RequestShutdown, Others, Forget, Resumed, Silent

\* Every event is news to a hook that follows them: no record is read twice, however
\* often its round is run again, and none is told as it was before an earlier one
\* (Watched::history, Watched::events).
THEOREM GmailToldOnce == Spec => ToldOnce
<1>1. Init => MailInv
  BY GmailInitially
<1>2. MailInv /\ [Next]_vars => MailInv'
  BY GmailKeeps
<1>3. MailInv /\ [Next]_vars => [News(out', Tells(out'))]_vars
  BY StepTellsNews
<1> QED
  BY <1>1, <1>2, <1>3, PTL DEF Spec, ToldOnce, News

=============================================================================
