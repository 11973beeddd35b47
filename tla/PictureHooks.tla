---------------------------- MODULE PictureHooks ----------------------------
(***************************************************************************)
(* A picture (src/src/picture.rs) and what its hooks were told: a mirror   *)
(* kept from the events alone, by a hook reading an item again when it     *)
(* arrives or changes, as the hooks of a notifier or a mirror do.          *)
(***************************************************************************)
EXTENDS Picture

VARIABLES
  mail,       \* what is watched is mail, which never changes
  known,      \* the picture
  mirror,     \* what the events tell of it
  call,       \* the last call
  events      \* and its events

pictureVars == <<mail, known, mirror, call, events>>

About(id, kind) == {e \in events' : e.id = id /\ e.kind = kind}

\* The mirror's ids follow arrivals and removals, an item is read again when it
\* arrives or changes, and its flags follow the flag events.
Mirrored ==
  LET told == {id \in Ids : \/ About(id, "item-added") # {}
                            \/ id \in DOMAIN mirror /\ About(id, "item-removed") = {}}
      read(id) == About(id, "item-added") # {} \/ About(id, "item-changed") # {}
      flags(id) == (mirror[id].flags \ {e.flag : e \in About(id, "flag-removed")})
                     \cup {e.flag : e \in About(id, "flag-added")}
  IN  mirror' = [id \in told |->
                   IF read(id) /\ id \in DOMAIN known' THEN known'[id]
                   ELSE [mirror[id] EXCEPT !.flags = flags(id)]]

\* What a source reads of an item: flags are mail's alone.
Readings == {item \in Item : mail \/ item.flags = {}}
Listings == UNION {[held -> Readings] : held \in SUBSET Ids}

Touch ==
  \E id \in Ids, item \in Readings :
    /\ known' = Touched(known, id, item)
    /\ events' = TouchEvents(mail, known, id, item)
    /\ call' = "touch"
    /\ Mirrored
    /\ UNCHANGED mail

Remove ==
  \E id \in Ids :
    /\ known' = Forgotten(known, id)
    /\ events' = RemoveEvents(known, id)
    /\ call' = "remove"
    /\ Mirrored
    /\ UNCHANGED mail

Rebase ==
  \E fresh \in Listings :
    /\ known' = fresh
    /\ events' = RebaseEvents(mail, known, fresh)
    /\ call' = "rebase"
    /\ Mirrored
    /\ UNCHANGED mail

\* The baseline, which reports nothing, is where both start.
PictureInit ==
  /\ mail \in BOOLEAN
  /\ known \in Listings /\ mirror = known
  /\ call = "arm" /\ events = {}

PictureNext == Touch \/ Remove \/ Rebase

PictureSpec == PictureInit /\ [][PictureNext]_pictureVars

-----------------------------------------------------------------------------
(* What the events say *)

\* The events tell which items stand, a message with which flags and anything
\* else at which version, however calls follow one another: nothing arrives or
\* leaves twice or is forgotten, and no move of a flag, or beyond mail of a
\* version, goes unreported.
MirrorFollows ==
  /\ DOMAIN mirror = DOMAIN known
  /\ \A id \in DOMAIN known :
       IF mail THEN mirror[id].flags = known[id].flags
               ELSE mirror[id].version = known[id].version

\* A rebase on a listing that differs in nothing reports nothing: "the gap never
\* reads as a wave of removals", nor of arrivals or edits.
RebaseIsQuiet ==
  [][call' = "rebase" /\ known' = known => events' = {}]_pictureVars

\* One call reports one thing of an item, unless it is several flags.
OneStory ==
  \A d \in events, e \in events :
    d.id = e.id /\ d # e => {d.kind, e.kind} \subseteq {"flag-added", "flag-removed"}

=============================================================================
