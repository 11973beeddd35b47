----------------------------- MODULE HookTables -----------------------------
(***************************************************************************)
(* The hooks an account may configure (src/src/config.rs), what loading    *)
(* the configuration refuses, which hook an event a session reports calls  *)
(* (the `get` of each table, the closures of watch_session), and what that *)
(* hook is given to name (src/src/hook.rs).                                *)
(*                                                                         *)
(* The tables, the checks of the loader and the reports of the backends    *)
(* are written in different files, and nothing but their agreement keeps a *)
(* hook from staying quiet for ever or from naming what is never filled.   *)
(*                                                                         *)
(* An event is a domain and a change; a hook is named after the event it   *)
(* is for.  A configuration c is a record: its backend, the domains it has *)
(* a collection for, its hooks, and the names the notification of each     *)
(* expands.  The eight names of an envelope count as one, and so do the    *)
(* ten of an alarm.                                                        *)
(***************************************************************************)

ItemChanges == {"added", "removed", "changed"}
FlagChanges == {"flagAdded", "flagRemoved"}
MailChanges == {"added", "removed"} \cup FlagChanges

Components == {"event", "task"}

Alarm == <<"alarm", "trigger">>

-----------------------------------------------------------------------------
(* The tables *)

MailBackends == {"imap", "maildir", "gmail"}

\* The backends whose one block has a collection per domain.
SeveralDomains == {"jmap", "msgraph"}

Backends ==
  MailBackends \cup SeveralDomains
    \cup {"caldav", "carddav", "gcal", "gpeople", "pimdir"}

MailHooks    == {"message"} \X MailChanges
CardHooks    == {"card"} \X ItemChanges
EventHooks   == {"event"} \X ItemChanges
CaldavHooks  == (Components \X ItemChanges) \cup {Alarm}
DomainsHooks ==
  MailHooks \cup {<<"message", "changed">>} \cup CardHooks \cup EventHooks

\* The hooks the file of a backend may hold.
Table(b) ==
  CASE b \in MailBackends          -> MailHooks
    [] b \in SeveralDomains        -> DomainsHooks
    [] b = "caldav"                -> CaldavHooks
    [] b \in {"carddav", "gpeople"} -> CardHooks
    [] b = "gcal"                  -> EventHooks
    [] b = "pimdir"                -> {Alarm}

\* The `get` of a table: the domain of the event is looked at by the tables that
\* have several alone.
Calls(b, e, h) ==
  /\ h \in Table(b)
  /\ h[2] = e[2]
  /\ b \in SeveralDomains \cup {"caldav"} => h[1] = e[1]

\* WatchDomain::collection_name, which is also the variable naming it.
CollectionName(d) ==
  IF d = "message" THEN "mailbox" ELSE IF d = "card" THEN "addressbook" ELSE "calendar"

\* The collection an event is about, which its hook does not run without.
HasCollection(c, d) == c.backend \in SeveralDomains => d \in c.collections

-----------------------------------------------------------------------------
(* What a notification may name *)

\* What every hook may name, and what an arrival and a flag may name beside.
Item(word)         == {"id", "collection", word}
Envelope(resolved) == {name \in {"envelope"} : resolved}
Flag(change)       == {name \in {"flag"} : change \in FlagChanges}

\* The vocabulary the loader holds a notification to.
Vocabulary(b, h) ==
  IF h = Alarm
    THEN Item("calendar") \cup {"firing"}
    ELSE Item(CollectionName(h[1])) \cup Flag(h[2])
           \cup Envelope(h = <<"message", "added">> /\ b # "maildir")

\* What loading a configuration refuses, and when it does not.
RefuseUnwatched(c) ==
  c.backend \in SeveralDomains =>
    /\ c.collections # {}
    /\ \A h \in c.hooks : h[1] \in c.collections

Accepted(c) ==
  /\ c.hooks \subseteq Table(c.backend)
  /\ c.backend = "jmap" => <<"message", "changed">> \notin c.hooks
  /\ RefuseUnwatched(c)
  /\ c.backend = "pimdir" => Alarm \in c.hooks
  /\ \A h \in c.hooks : c.names[h] \subseteq Vocabulary(c.backend, h)

-----------------------------------------------------------------------------
(* What a session reports *)

\* CaldavHookConfig::domains
Wanted(c) == {d \in Components : \E h \in c.hooks : h[1] = d}

\* What a calendar holds: the components its server answers with, none standing
\* for a server that does not say.
Held(c, answered) == IF answered = {} THEN Wanted(c) ELSE answered

\* A session refuses hooks on a component its calendar does not hold.
Opens(c, answered) == c.backend = "caldav" => Wanted(c) \subseteq Held(c, answered)

\* A member whose content type names no component is taken for one of these.
Fallback(c) == IF \E d \in Components : Wanted(c) = {d} THEN Wanted(c) ELSE {"event"}

\* The domains of the members of a calendar, named by their content type or not.
MemberDomains(c, answered, named) ==
  IF \E d \in Components : Held(c, answered) = {d}
    THEN Held(c, answered)
    ELSE IF named THEN Components ELSE Fallback(c)

\* The domains a session reports on.
Watched(c, answered, named) ==
  CASE c.backend \in MailBackends            -> {"message"}
    [] c.backend \in SeveralDomains          -> c.collections
    [] c.backend = "caldav"                  -> MemberDomains(c, answered, named)
    [] c.backend \in {"carddav", "gpeople"}  -> {"card"}
    [] c.backend = "gcal"                    -> {"event"}
    [] c.backend = "pimdir"                  -> {}

\* What a backend makes of what moves: mail moves its flags, and but for a Graph
\* draft is never edited.
Changes(b, d) ==
  IF d # "message"
    THEN ItemChanges
    ELSE MailChanges \cup {x \in {"changed"} : b = "msgraph"}

Reports(c, answered, named, e) ==
  /\ e \in Watched(c, answered, named) \X (ItemChanges \cup FlagChanges)
  /\ e[2] \in Changes(c.backend, e[1])

-----------------------------------------------------------------------------
(* What a hook is run with *)

\* The events a session hands an envelope over with.
Summarised(b, e) ==
  e = <<"message", "added">> /\ b \in {"imap", "jmap", "msgraph", "gmail"}

\* The variables a run gives a value: item_vars and run_flag_hook.
Filled(b, e) ==
  Item(CollectionName(e[1])) \cup Flag(e[2]) \cup Envelope(Summarised(b, e))

\* A flag is a word behind a mark: the backslash of a system flag, the dollar of
\* a keyword, or none.
Bare(flag) == [mark |-> "", word |-> flag.word]

\* matches_filter: the name of a filter is the flag, or the flag without its mark.
Matches(filter, flag) == {flag, Bare(flag)} \cap filter # {}

\* run_flag_hook: a filter naming nothing lets every flag through.
LetsThrough(filter, flag) == filter = {} \/ Matches(filter, flag)

\* What the backends that are not IMAP make of an IMAP flag: a system flag loses
\* its mark, and a message forwarded is `Passed`.
Rendered(b, flag) ==
  IF b # "imap" /\ flag.mark = "\\"
    THEN Bare(flag)
    ELSE IF b \in {"jmap", "maildir"} /\ flag = [mark |-> "$", word |-> "Forwarded"]
           THEN [mark |-> "", word |-> "Passed"]
           ELSE flag

=============================================================================
