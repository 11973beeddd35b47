-------------------------- MODULE HookTables_proofs --------------------------
(***************************************************************************)
(* What the parts of the program agree on without sharing code: the        *)
(* tables, the loader and the reports of the backends, for every           *)
(* configuration the loader accepts; a check and a watch on the block      *)
(* used; the wizard, the loader and the sessions on the account the wizard *)
(* generates; configure and the loader on the file it goes to; and the     *)
(* IMAP watch on the hooks its deltas are to run.                          *)
(***************************************************************************)
EXTENDS Wizard, ImapWatch, SequenceTheorems, TLAPS

\* A configuration: of a backend, over the domains that have a key.
IsConfig(c) ==
  /\ c.backend \in Backends
  /\ c.collections \subseteq {"message", "card", "event"}

\* An event a session reports has the collection its hook is run with, so that no
\* closure of watch_session drops it for want of one.
THEOREM ReportsHaveACollection ==
  ASSUME NEW c, IsConfig(c), NEW answered, NEW named, NEW e,
         Reports(c, answered, named, e)
  PROVE  HasCollection(c, e[1])
BY DEF Reports, HasCollection, Watched, IsConfig, Backends, MailBackends,
       SeveralDomains

\* What a calendar session reports on, once it opened: every component a hook
\* names, unless the hooks name both and the server names none (Domains::resolve
\* and Domains::read).
LEMMA WantedIsReported ==
  ASSUME NEW c, NEW answered \in SUBSET Components, NEW named \in BOOLEAN,
         Wanted(c) \subseteq Held(c, answered),
         named \/ Wanted(c) # Components,
         NEW d \in Wanted(c)
  PROVE  d \in MemberDomains(c, answered, named)
<1>1. d \in Components /\ Wanted(c) \subseteq Components
  BY DEF Wanted
<1>2. CASE \E k \in Components : Held(c, answered) = {k}
  BY <1>1, <1>2 DEF MemberDomains
<1>3. CASE ~(\E k \in Components : Held(c, answered) = {k}) /\ named
  BY <1>1, <1>3 DEF MemberDomains
<1>4. CASE ~(\E k \in Components : Held(c, answered) = {k}) /\ ~named
  <2>1. Wanted(c) = {d}
    BY <1>1, <1>4 DEF Components
  <2>2. Fallback(c) = {d}
    BY <1>1, <2>1 DEF Fallback
  <2> QED
    BY <1>4, <2>2 DEF MemberDomains
<1> QED
  BY <1>2, <1>3, <1>4

\* The event a hook is named after.
LEMMA HookIsAnEvent ==
  ASSUME NEW b \in Backends, NEW h \in Table(b), h # Alarm
  PROVE  /\ h = <<h[1], h[2]>>
         /\ h[2] \in ItemChanges \cup FlagChanges
         /\ b \in MailBackends => h \in MailHooks
         /\ b \in SeveralDomains => h \in DomainsHooks
         /\ b = "caldav" => h \in Components \X ItemChanges
         /\ b \in {"carddav", "gpeople"} => h \in CardHooks
         /\ b = "gcal" => h \in EventHooks
         /\ b # "pimdir"
BY DEF Table, Backends, MailBackends, SeveralDomains, MailHooks, CardHooks,
       EventHooks, CaldavHooks, DomainsHooks, ItemChanges, FlagChanges,
       MailChanges, Components, Alarm

\* A hook of an accepted configuration is called by an event its session may
\* report, once the session opened: "a hook it cannot fire is refused when the
\* file is read rather than staying quiet forever" (config.rs, and the refusal
\* of Domains::resolve).  A calendar whose server names no component leaves the
\* hooks of tasks quiet when there are hooks on events too.
THEOREM NoHookStaysQuiet ==
  ASSUME NEW c, IsConfig(c), Accepted(c),
         NEW answered \in SUBSET Components, NEW named \in BOOLEAN,
         Opens(c, answered),
         named \/ Wanted(c) # Components,
         NEW h \in c.hooks, h # Alarm
  PROVE  /\ Reports(c, answered, named, h)
         /\ Calls(c.backend, h, h)
<1> DEFINE b == c.backend
<1>1. b \in Backends /\ h \in Table(b)
  BY DEF IsConfig, Accepted
<1>2. Calls(b, h, h)
  BY <1>1 DEF Calls
<1>3. h = <<h[1], h[2]>> /\ h[2] \in ItemChanges \cup FlagChanges
  BY <1>1, HookIsAnEvent
<1>4. SUFFICES h[1] \in Watched(c, answered, named) /\ h[2] \in Changes(b, h[1])
  BY <1>2, <1>3 DEF Reports
<1>5. CASE b \in MailBackends
  <2>1. h \in MailHooks
    BY <1>1, <1>5, HookIsAnEvent
  <2> QED
    BY <1>5, <2>1 DEF MailHooks, Watched, Changes, MailBackends, SeveralDomains
<1>6. CASE b \in SeveralDomains
  <2>1. h \in DomainsHooks /\ h[1] \in c.collections
    BY <1>1, <1>6, HookIsAnEvent DEF Accepted, RefuseUnwatched
  <2>2. h[1] \in Watched(c, answered, named)
    BY <1>6, <2>1 DEF Watched, SeveralDomains, MailBackends
  <2>3. h[2] \in Changes(b, h[1])
    BY <1>6, <2>1 DEF Accepted, DomainsHooks, MailHooks, CardHooks, EventHooks,
                      Changes, SeveralDomains, MailChanges, FlagChanges, ItemChanges
  <2> QED
    BY <2>2, <2>3
<1>7. CASE b = "caldav"
  <2>1. h \in Components \X ItemChanges
    BY <1>1, <1>7, HookIsAnEvent
  <2>2. h[1] \in Wanted(c)
    BY <2>1 DEF Wanted
  <2>3. h[1] \in MemberDomains(c, answered, named)
    BY <1>7, <2>2, WantedIsReported DEF Opens
  <2>4. h[2] \in Changes(b, h[1])
    BY <2>1 DEF Changes, Components
  <2> QED
    BY <1>7, <2>3, <2>4 DEF Watched, MailBackends, SeveralDomains
<1>8. CASE b \in {"carddav", "gpeople"}
  <2>1. h \in CardHooks
    BY <1>1, <1>8, HookIsAnEvent
  <2> QED
    BY <1>8, <2>1 DEF CardHooks, Watched, Changes, MailBackends, SeveralDomains
<1>9. CASE b = "gcal"
  <2>1. h \in EventHooks
    BY <1>1, <1>9, HookIsAnEvent
  <2> QED
    BY <1>9, <2>1 DEF EventHooks, Watched, Changes, MailBackends, SeveralDomains
<1> QED
  BY <1>1, <1>5, <1>6, <1>7, <1>8, <1>9, HookIsAnEvent DEF Backends

\* Whatever a notification of an accepted configuration names, the event that
\* calls its hook fills: an envelope is asked for where a session hands one over,
\* a flag where one moved, a collection under its own word (`validate` of every
\* table against item_vars and run_flag_hook).
THEOREM NamesAreFilled ==
  ASSUME NEW c, IsConfig(c), Accepted(c),
         NEW answered \in SUBSET Components, NEW named \in BOOLEAN,
         NEW e, Reports(c, answered, named, e),
         NEW h \in c.hooks, Calls(c.backend, e, h)
  PROVE  c.names[h] \subseteq Filled(c.backend, e)
<1> DEFINE b == c.backend
<1>1. b \in Backends /\ h \in Table(b) /\ h[2] = e[2]
  BY DEF IsConfig, Calls
<1>2. e = <<e[1], e[2]>> /\ e[2] \in ItemChanges \cup FlagChanges
  BY DEF Reports
<1>3. h # Alarm
  BY <1>1, <1>2 DEF Alarm, ItemChanges, FlagChanges
<1>4. h[1] = e[1]
  <2>1. CASE b \in SeveralDomains \cup {"caldav"}
    BY <2>1 DEF Calls
  <2>2. CASE b \in MailBackends
    <3>1. h \in MailHooks
      BY <1>1, <1>3, <2>2, HookIsAnEvent
    <3>2. Watched(c, answered, named) = {"message"}
      BY <2>2 DEF Watched, MailBackends, SeveralDomains
    <3> QED
      BY <3>1, <3>2 DEF Reports, MailHooks
  <2>3. CASE b \in {"carddav", "gpeople"}
    BY <1>1, <1>3, <2>3, HookIsAnEvent
    DEF Reports, Watched, CardHooks, MailBackends, SeveralDomains
  <2>4. CASE b = "gcal"
    BY <1>1, <1>3, <2>4, HookIsAnEvent
    DEF Reports, Watched, EventHooks, MailBackends, SeveralDomains
  <2> QED
    BY <1>1, <1>3, <2>1, <2>2, <2>3, <2>4, HookIsAnEvent DEF Backends
<1>5. h = e
  BY <1>1, <1>2, <1>3, <1>4, HookIsAnEvent
<1>6. h = <<"message", "added">> /\ b # "maildir" => Summarised(b, e)
  <2>1. b \in {"caldav", "carddav", "gcal", "gpeople"} => h[1] # "message"
    BY <1>1, <1>3, HookIsAnEvent DEF Components, CardHooks, EventHooks
  <2> QED
    BY <1>1, <1>3, <1>5, <2>1, HookIsAnEvent
    DEF Summarised, Backends, MailBackends, SeveralDomains
<1>7. Vocabulary(b, h) \subseteq Filled(b, e)
  BY <1>3, <1>5, <1>6 DEF Vocabulary, Filled, Envelope
<1> QED
  BY <1>7 DEF Accepted

\* A filter naming a system flag by its bare name lets it through whatever backend
\* reports it: "one filter fires on every backend" (maildir.rs, render_flags and
\* render_keywords against matches_filter).
THEOREM BareNameFiresEverywhere ==
  ASSUME NEW word, NEW b \in Backends,
         NEW chosen, [mark |-> "", word |-> word] \in chosen
  PROVE  LetsThrough(chosen, Rendered(b, [mark |-> "\\", word |-> word]))
<1> DEFINE flag == [mark |-> "\\", word |-> word]
           bare == [mark |-> "", word |-> word]
<1>1. Bare(flag) = bare /\ Bare(bare) = bare
  BY DEF Bare
<1>2. Rendered(b, flag) \in {flag, bare}
  BY <1>1 DEF Rendered
<1>3. bare \in {Rendered(b, flag), Bare(Rendered(b, flag))}
  BY <1>1, <1>2
<1> QED
  BY <1>3 DEF LetsThrough, Matches


-----------------------------------------------------------------------------
(* Which block is used *)

\* The ten blocks, each in one place of the order.
LEMMA EachBlockOnce ==
  /\ \A b \in Blocks : \E n \in 1 .. 10 : Priority[n] = b
  /\ \A m, n \in 1 .. 10 : Priority[m] = Priority[n] => m = n
<1>1. \A m, n \in 1 .. 10 : Priority[m] = Priority[n] => m = n
  BY DEF Priority
<1> QED
  BY <1>1 DEF Blocks

\* Some branch returns when any does, and one of them is the first.
LEMMA FirstReturns ==
  ASSUME NEW declared, NEW selector, NEW n \in 1 .. 10,
         Returns(declared, selector, n)
  PROVE  \E k \in 1 .. n : Returns(declared, selector, k) /\ Reaches(declared, selector, k)
<1> DEFINE R(k) == Returns(declared, selector, k)
<1>1. \A k \in 1 .. 10 : Reaches(declared, selector, k) <=> \A j \in 1 .. k - 1 : ~R(j)
  BY DEF Reaches
<1>2. R(n)
  OBVIOUS
<1> HIDE DEF R
<1>3. \E k \in 1 .. n : R(k) /\ \A j \in 1 .. k - 1 : ~R(j)
  <2>1. \/ n = 1 \/ n = 2 \/ n = 3 \/ n = 4 \/ n = 5
        \/ n = 6 \/ n = 7 \/ n = 8 \/ n = 9 \/ n = 10
    OBVIOUS
  <2> QED
    BY <1>2, <2>1, SMTT(60)
<1> QED
  BY <1>1, <1>3 DEF R

\* The block a watch opens is the first a check reports on, whatever the account
\* declares and whichever selector is given, and the one bails exactly when the
\* other does (watch_session against CheckCommand::execute): a check that passes
\* speaks of the session a watch would open.
THEOREM CheckSpeaksOfTheWatch ==
  ASSUME NEW declared \in SUBSET Blocks, NEW selector \in Selectors
  PROVE  /\ NothingToWatch(declared, selector) <=> NothingToCheck(declared, selector)
         /\ NothingToWatch(declared, selector) \/ \E b \in Blocks : Watches(declared, selector, b)
         /\ \A b : Watches(declared, selector, b) =>
              /\ b \in Checks(declared, selector)
              /\ \A a \in Checks(declared, selector) : a = b \/ Before(b, a)
<1> DEFINE R(n) == Returns(declared, selector, n)
           First(n) == Reaches(declared, selector, n)
           Opened == Checks(declared, selector)
<1>1. ASSUME NEW b, Watches(declared, selector, b)
      PROVE  b \in Opened /\ \A a \in Opened : a = b \/ Before(b, a)
  <2>1. PICK n \in 1 .. 10 : Priority[n] = b /\ First(n) /\ R(n) /\ b \in declared
    BY <1>1 DEF Watches
  <2>2. b \in Opened
    BY <2>1 DEF Returns, Checks
  <2>3. ASSUME NEW a \in Opened PROVE a = b \/ Before(b, a)
    <3>1. PICK m \in 1 .. 10 : Priority[m] = a
      BY EachBlockOnce DEF Checks
    <3>2. R(m)
      BY <3>1 DEF Returns, Checks
    <3>3. m >= n
      BY <2>1, <3>2 DEF Reaches
    <3>4. m = n \/ n < m
      BY <3>3
    <3> QED
      BY <2>1, <3>1, <3>4 DEF Before
  <2> QED
    BY <2>2, <2>3
<1>2. ASSUME NEW a \in Opened PROVE \E b \in Blocks : Watches(declared, selector, b)
  <2>1. PICK m \in 1 .. 10 : Priority[m] = a
    BY EachBlockOnce DEF Checks
  <2>2. R(m)
    BY <2>1 DEF Returns, Checks
  <2>3. PICK n \in 1 .. m : R(n) /\ First(n)
    BY <2>2, FirstReturns
  <2>4. n \in 1 .. 10
    BY <2>3
  <2>5. Priority[n] \in declared
    <3>1. CASE Priority[n] \in declared
      BY <3>1
    <3>2. CASE selector = Priority[n]
      <4>1. selector # "auto"
        BY <2>4, <3>2 DEF Priority
      <4>2. a = selector
        BY <4>1 DEF Checks, Allows
      <4> QED
        BY <3>2, <4>2 DEF Checks
    <3> QED
      BY <2>3, <3>1, <3>2 DEF Returns
  <2>6. Priority[n] \in Blocks
    BY <2>4 DEF Blocks
  <2> QED
    BY <2>3, <2>4, <2>5, <2>6 DEF Watches
<1>3. ASSUME NothingToWatch(declared, selector) PROVE Opened = {}
  <2> SUFFICES ASSUME NEW a \in Opened PROVE FALSE
    OBVIOUS
  <2>1. PICK m \in 1 .. 10 : Priority[m] = a
    BY EachBlockOnce DEF Checks
  <2>2. R(m) /\ a \in declared
    BY <2>1 DEF Returns, Checks
  <2>3. CASE First(11)
    BY <2>2, <2>3 DEF Reaches
  <2>4. CASE \E n \in 1 .. 10 : First(n) /\ R(n) /\ Priority[n] \notin declared
    <3>1. PICK n \in 1 .. 10 : First(n) /\ R(n) /\ Priority[n] \notin declared
      BY <2>4
    <3>2. selector = Priority[n]
      BY <3>1 DEF Returns
    <3>3. selector # "auto"
      BY <3>2 DEF Priority
    <3>4. a = selector
      BY <3>3 DEF Checks, Allows
    <3> QED
      BY <2>2, <3>1, <3>2, <3>4
  <2> QED
    BY <1>3, <2>3, <2>4 DEF NothingToWatch
<1>4. ASSUME Opened = {} PROVE NothingToWatch(declared, selector)
  <2>1. CASE \E n \in 1 .. 10 : R(n)
    <3>1. PICK m \in 1 .. 10 : R(m)
      BY <2>1
    <3>2. PICK n \in 1 .. m : R(n) /\ First(n)
      BY <3>1, FirstReturns
    <3>3. n \in 1 .. 10 /\ Priority[n] \in Blocks
      BY <3>2 DEF Blocks
    <3>4. Priority[n] \notin declared
      BY <1>4, <3>2, <3>3 DEF Returns, Checks
    <3> QED
      BY <3>2, <3>3, <3>4 DEF NothingToWatch
  <2>2. CASE \A n \in 1 .. 10 : ~R(n)
    BY <2>2 DEF NothingToWatch, Reaches
  <2> QED
    BY <2>1, <2>2
<1>5. NothingToWatch(declared, selector) <=> Opened = {}
  BY <1>3, <1>4
<1>6. NothingToWatch(declared, selector) \/ \E b \in Blocks : Watches(declared, selector, b)
  BY <1>2, <1>5
<1> QED
  BY <1>1, <1>5, <1>6 DEF NothingToCheck

-----------------------------------------------------------------------------
(* The services found *)

\* The list puts "a provider's own API first", then the services in the order a
\* selector would pick their blocks ("then the order the backend selector picks a
\* configured block in").
THEOREM ListFollowsPriority ==
  ASSUME NEW a \in TcpServices \cup HttpServices, NEW b \in TcpServices \cup HttpServices
  PROVE  /\ Rank[a] < Rank[b] <=> Before(a, b)
         /\ \A provider : \A api \in Apis(provider) : Rank[api] < Rank[a]
<1> DEFINE place == [imap |-> 1, jmap |-> 2, caldav |-> 4, carddav |-> 5]
<1>1. Priority[place[a]] = a /\ Priority[place[b]] = b
  BY DEF TcpServices, HttpServices, Priority
<1>2. place[a] \in 1 .. 10 /\ place[b] \in 1 .. 10
  BY DEF TcpServices, HttpServices
<1>3. Rank[a] < Rank[b] <=> place[a] < place[b]
  BY DEF TcpServices, HttpServices, Rank
<1>4. Before(a, b) <=> place[a] < place[b]
  <2> HIDE DEF place
  <2>1. ASSUME NEW m \in 1 .. 10, NEW n \in 1 .. 10, Priority[m] = a, Priority[n] = b
        PROVE  m = place[a] /\ n = place[b]
    BY <1>1, <1>2, <2>1, EachBlockOnce
  <2> QED
    BY <1>1, <1>2, <2>1 DEF Before
<1>5. ASSUME NEW provider, NEW api \in Apis(provider) PROVE Rank[api] < Rank[a]
  <2>1. api \in {"msgraph", "gmail", "gcal", "gpeople"}
    BY <1>5 DEF Apis
  <2>2. Rank[api] <= 2
    BY <2>1 DEF Rank
  <2>3. Rank[a] \in 3 .. 6
    BY DEF Rank, TcpServices, HttpServices
  <2>4. Rank[api] \in Nat
    BY <2>1 DEF Rank
  <2> QED
    BY <2>2, <2>3, <2>4
<1> QED
  BY <1>3, <1>4, <1>5

\* An `imaps` URL finds IMAP whenever some endpoint speaks TLS from the start: the
\* one endpoint the search keeps is then such a one (best_tcp before
\* retain_scheme, which drops the others).
THEOREM ImapsIsFound ==
  ASSUME NEW found, NEW kept, TcpEntry(kept, found),
         \A d \in found : d.service = "imap" => d.security \in {"tls", "starttls", "plain"},
         NEW d \in found, d.service = "imap", d.security = "tls",
         NEW entry, entry.kind = "imap", entry.security = kept.security
  PROVE  Retained(entry, "imaps")
<1>1. kept.service = "imap" /\ kept.security \in {"tls", "starttls", "plain"}
  BY DEF TcpEntry, TcpServices
<1>2. Security["tls"] <= Security[kept.security]
  BY <1>1 DEF TcpEntry
<1>3. kept.security = "tls"
  BY <1>1, <1>2 DEF Security
<1> QED
  BY <1>3 DEF Retained

\* Two mechanisms naming one endpoint are one entry, which offers what either
\* advertised: folding them loses no way to log in, nor the brokers of a grant.
THEOREM FoldingLosesNoMethod ==
  ASSUME NEW found, NEW c \in found, c.service \in HttpServices,
         NEW entry \in HttpEntries(found),
         entry.kind = c.service, entry.endpoint = c.endpoint
  PROVE  /\ "password" \in c.auth => "Basic" \in Schemes(entry.auth)
         /\ c.auth \ {"password"} # {} => "Bearer" \in Schemes(entry.auth)
         /\ c.auth \ {"password", "bearer"} # {} => Brokers(entry.auth)
<1>1. CapsOf(c.auth) \subseteq entry.auth
  BY DEF HttpEntries
<1>2. "password" \in c.auth => "basic" \in entry.auth
  BY <1>1 DEF CapsOf
<1>3. c.auth \ {"password"} # {} => entry.auth \cap {"bearer", "oauth"} # {}
  BY <1>1 DEF CapsOf
<1>4. c.auth \ {"password", "bearer"} # {} => "oauth" \in entry.auth
  BY <1>1 DEF CapsOf
<1> QED
  BY <1>2, <1>3, <1>4 DEF Schemes, Token, Brokers

-----------------------------------------------------------------------------
(* The account the wizard generates *)

\* The kinds of account the wizard generates, and what a calendar may advertise.
Generates  == Kinds \cup {"maildir"}
Advertises == Components \cup {"journal"}

LEMMA GeneratesBackends ==
  Generates = {"imap", "jmap", "maildir", "caldav", "carddav", "msgraph", "gmail",
               "gcal", "gpeople"}
BY DEF Generates, Kinds, Rank

\* The account the wizard writes is one the loader accepts and whose session
\* opens: its hook is one the backend has, on a collection the account names and
\* a component the calendar holds, and its notification names only what that hook
\* may name (the `hook` of each wizard file against `validate` and
\* Domains::resolve).
THEOREM GeneratedAccountLoads ==
  ASSUME NEW kind \in Generates, NEW components \in SUBSET Advertises
  PROVE  LET c == Generated(kind, components)
         IN  IsConfig(c) /\ Accepted(c) /\ Opens(c, Advertised(components))
<1> DEFINE c == Generated(kind, components)
           H == ArrivalHooks(kind, components)
<1>1. c.backend = kind /\ c.hooks = H /\ c.collections = {d \in {"message"} : kind \in SeveralDomains}
  BY DEF Generated
<1>2. \A h \in H : c.names[h] = Names(kind)
  BY DEF Generated
<1>3. IsConfig(c)
  BY <1>1, GeneratesBackends DEF IsConfig, Backends, MailBackends, SeveralDomains
<1>4. H \subseteq Table(kind)
  BY GeneratesBackends
  DEF ArrivalHooks, Table, MailBackends, SeveralDomains, MailHooks, DomainsHooks,
      CaldavHooks, CardHooks, EventHooks, MailChanges, ItemChanges, Components
<1>5. kind = "jmap" => <<"message", "changed">> \notin H
  BY DEF ArrivalHooks, SeveralDomains
<1>6. RefuseUnwatched(c)
  <2>1. CASE kind \in SeveralDomains
    <3>1. H = {<<"message", "added">>}
      BY <2>1 DEF ArrivalHooks, MailBackends, SeveralDomains
    <3> QED
      BY <1>1, <2>1, <3>1 DEF RefuseUnwatched
  <2>2. CASE kind \notin SeveralDomains
    BY <1>1, <2>2 DEF RefuseUnwatched
  <2> QED
    BY <2>1, <2>2
<1>7. kind # "pimdir"
  BY GeneratesBackends
<1>8. ASSUME NEW h \in H PROVE Names(kind) \subseteq Vocabulary(kind, h)
  <2>1. CASE kind \in MailBackends \cup SeveralDomains
    <3>1. h = <<"message", "added">>
      BY <1>8, <2>1 DEF ArrivalHooks, MailBackends, SeveralDomains
    <3>2. h # Alarm /\ h[1] = "message" /\ h[2] = "added"
      BY <3>1 DEF Alarm
    <3>3. kind = "maildir" => Names(kind) = {"mailbox", "id"}
      BY DEF Names
    <3>4. kind # "maildir" => Names(kind) = {"mailbox", "envelope"}
      BY <2>1 DEF Names, MailBackends, SeveralDomains
    <3> QED
      BY <3>1, <3>2, <3>3, <3>4 DEF Vocabulary, Item, Envelope, CollectionName
  <2>2. CASE kind = "caldav"
    <3>1. h \in {<<"event", "added">>, <<"task", "added">>}
      BY <1>8, <2>2 DEF ArrivalHooks, Components, MailBackends, SeveralDomains
    <3>2. h # Alarm /\ CollectionName(h[1]) = "calendar"
      BY <3>1 DEF Alarm, CollectionName
    <3>3. Names(kind) = {"calendar", "id"}
      BY <2>2 DEF Names, MailBackends, SeveralDomains
    <3> QED
      BY <3>2, <3>3 DEF Vocabulary, Item
  <2>3. CASE kind = "gcal"
    <3>1. h = <<"event", "added">>
      BY <1>8, <2>3 DEF ArrivalHooks, MailBackends, SeveralDomains
    <3>2. h # Alarm /\ CollectionName(h[1]) = "calendar"
      BY <3>1 DEF Alarm, CollectionName
    <3>3. Names(kind) = {"calendar", "id"}
      BY <2>3 DEF Names, MailBackends, SeveralDomains
    <3> QED
      BY <3>2, <3>3 DEF Vocabulary, Item
  <2>4. CASE kind \in {"carddav", "gpeople"}
    <3>1. h = <<"card", "added">>
      BY <1>8, <2>4 DEF ArrivalHooks, MailBackends, SeveralDomains
    <3>2. h # Alarm /\ CollectionName(h[1]) = "addressbook"
      BY <3>1 DEF Alarm, CollectionName
    <3>3. Names(kind) = {"addressbook", "id"}
      BY <2>4 DEF Names, MailBackends, SeveralDomains
    <3> QED
      BY <3>2, <3>3 DEF Vocabulary, Item
  <2> QED
    BY <2>1, <2>2, <2>3, <2>4, GeneratesBackends DEF MailBackends, SeveralDomains
<1>9. Accepted(c)
  BY <1>1, <1>2, <1>4, <1>5, <1>6, <1>7, <1>8 DEF Accepted
<1>10. Opens(c, Advertised(components))
  <2> SUFFICES ASSUME kind = "caldav", Advertised(components) # {},
                      NEW d \in Wanted(c)
               PROVE  d \in Advertised(components)
    BY <1>1 DEF Opens, Held
  <2>1. PICK h \in H : h[1] = d /\ d \in Components
    BY <1>1 DEF Wanted
  <2>2. Holds(components, d)
    BY <2>1 DEF ArrivalHooks, MailBackends, SeveralDomains
  <2>3. components # {}
    BY DEF Advertised
  <2> QED
    BY <2>1, <2>2, <2>3 DEF Holds, Advertised
<1> QED
  BY <1>3, <1>9, <1>10

\* Its hooks are called once it is watched, by what its session reports, and what
\* they name is filled, unless the members of a calendar it notifies events and
\* tasks of name no component.
THEOREM GeneratedHooksFire ==
  ASSUME NEW kind \in Generates, NEW components \in SUBSET Advertises,
         NEW named \in BOOLEAN,
         named \/ Wanted(Generated(kind, components)) # Components,
         NEW h \in ArrivalHooks(kind, components)
  PROVE  LET c == Generated(kind, components)
         IN  /\ Reports(c, Advertised(components), named, h)
             /\ Calls(kind, h, h)
             /\ c.names[h] \subseteq Filled(kind, h)
<1> DEFINE c == Generated(kind, components)
           answered == Advertised(components)
<1>1. IsConfig(c) /\ Accepted(c) /\ Opens(c, answered)
  BY GeneratedAccountLoads
<1>2. c.backend = kind /\ h \in c.hooks
  BY DEF Generated
<1>3. answered \in SUBSET Components
  BY DEF Advertised
<1>4. h # Alarm
  BY GeneratesBackends DEF ArrivalHooks, Alarm, Components, MailBackends, SeveralDomains
<1> HIDE DEF c, answered
<1>5. Reports(c, answered, named, h) /\ Calls(c.backend, h, h)
  BY <1>1, <1>2, <1>3, <1>4, NoHookStaysQuiet DEF c
<1>6. c.names[h] \subseteq Filled(c.backend, h)
  BY <1>1, <1>2, <1>3, <1>5, NamesAreFilled
<1> QED
  BY <1>2, <1>5, <1>6 DEF c, answered

\* A bare `carillon watch` opens the block the wizard wrote, the only one of its
\* account.
THEOREM GeneratedIsWatched ==
  ASSUME NEW kind \in Generates
  PROVE  Watches({kind}, "auto", kind)
<1>1. kind \in Blocks
  BY GeneratesBackends DEF Blocks, Priority
<1>2. PICK n \in 1 .. 10 : Priority[n] = kind
  BY <1>1 DEF Blocks
<1>3. \A k \in 1 .. 10 : Priority[k] # "auto"
  BY DEF Priority
<1>4. \A k \in 1 .. n - 1 : Priority[k] # kind
  BY <1>2, EachBlockOnce
<1>5. Reaches({kind}, "auto", n)
  BY <1>3, <1>4 DEF Reaches, Returns
<1> QED
  BY <1>2, <1>5 DEF Watches, Returns, Allows

\* Whatever a service advertised, and whether or not its server could be probed,
\* there is a way to log in to choose, and it is one the configuration can write
\* down ("never leaves the user without a choice").
THEOREM ThereIsAWayIn ==
  ASSUME NEW caps \in SUBSET {"basic", "bearer", "oauth"}, NEW probed
  PROVE  /\ Schemes(caps) # {}
         /\ Mechanisms(caps, probed) # {}
         /\ Mechanisms(caps, probed) \subseteq Expressible
<1>1. caps = {} \/ "basic" \in caps \/ Token(caps)
  BY DEF Token
<1>2. Schemes(caps) # {}
  BY <1>1 DEF Schemes
<1>3. Guessed(caps) # {} /\ Guessed(caps) \subseteq Guessed({})
  BY <1>1 DEF Guessed
<1> QED
  BY <1>2, <1>3 DEF Mechanisms, Expressible

-----------------------------------------------------------------------------
(* Where the account goes: the configuration file *)

\* It shares the names pc and held with the IMAP watch, and nothing else: every
\* statement below is of the one or of the other.
CONSTANTS Shells, Bases, Named(_, _)

VARIABLES state, defaults, invalid, command, options, lookedUp, existing, name, stale, saved

C == INSTANCE Configure

FileOK ==
  /\ defaults \subseteq held /\ invalid \subseteq held
  /\ state \in {"missing", "broken", "parses"}
  /\ state # "parses" => held = {}

ShellsOK ==
  /\ \E S : pc \in [Shells -> S]
  /\ \E S : existing \in [Shells -> S]
  /\ \E S : name \in [Shells -> S]
  /\ saved \subseteq Shells
  /\ \A s \in saved : pc[s] \in {"load", "shell"}

\* What configure read stands, until somebody else writes; the name it generated
\* is not among those it read.
StillAsRead ==
  \A s \in Shells :
    /\ pc[s] \in {"prompt", "ask"} /\ s \notin stale => state # "broken" /\ existing[s] = C!Reading
    /\ pc[s] = "ask" => name[s] \notin existing[s].names

FInv == FileOK /\ ShellsOK /\ StillAsRead /\ C!OfferLeadsOn

LEMMA FileInitially == C!Init => FInv
<1> SUFFICES ASSUME C!Init PROVE FInv
  OBVIOUS
<1>1. FileOK
  BY DEF C!Init, FileOK
<1>2. ShellsOK
  <2>1. pc \in [Shells -> {"shell"}] /\ existing \in [Shells -> {C!NoConfig}]
    BY DEF C!Init
  <2>2. name \in [Shells -> {Named(b, 1) : b \in Bases}] /\ saved = {}
    BY DEF C!Init
  <2> QED
    BY <2>1, <2>2 DEF ShellsOK
<1>3. StillAsRead /\ C!OfferLeadsOn
  BY DEF C!Init, StillAsRead, C!OfferLeadsOn
<1> QED
  BY <1>1, <1>2, <1>3 DEF FInv

\* Moving one shell moves no other.
LEMMA OneGoes ==
  ASSUME FInv, NEW s \in Shells, NEW to, C!Goes(s, to)
  PROVE  /\ \E S : pc' \in [Shells -> S]
         /\ pc'[s] = to /\ \A t \in Shells \ {s} : pc'[t] = pc[t]
<1>1. PICK S : pc \in [Shells -> S]
  BY DEF FInv, ShellsOK
<1>2. pc' \in [Shells -> S \cup {to}]
  BY <1>1 DEF C!Goes
<1> QED
  BY <1>1, <1>2 DEF C!Goes

\* A step of one shell that leaves the file alone: it goes where nothing is
\* expected of it, or somewhere what it read stands.
LEMMA FileStands ==
  ASSUME FInv, NEW s \in Shells, NEW to, C!Goes(s, to), UNCHANGED C!file,
         stale' = stale \/ (stale' = stale \ {s} /\ existing' = [existing EXCEPT ![s] = C!Reading]
                             /\ state # "broken"),
         saved' = saved \/ saved' = saved \ {s},
         \/ UNCHANGED <<existing, name>>
         \/ existing' = [existing EXCEPT ![s] = C!Reading] /\ UNCHANGED name
         \/ UNCHANGED existing /\ \E n : name' = [name EXCEPT ![s] = n],
         to \in {"prompt", "ask"} /\ s \notin stale' => state # "broken" /\ existing'[s] = C!Reading,
         to = "ask" => name'[s] \notin existing'[s].names,
         to # "shell" => s \notin saved'
  PROVE  FInv'
<1>1. /\ \E S : pc' \in [Shells -> S]
      /\ pc'[s] = to /\ \A t \in Shells \ {s} : pc'[t] = pc[t]
  BY OneGoes
<1>2. /\ \E S : existing' \in [Shells -> S]
      /\ \A t \in Shells \ {s} : existing'[t] = existing[t]
  <2>1. PICK S : existing \in [Shells -> S]
    BY DEF FInv, ShellsOK
  <2>2. existing' \in [Shells -> S \cup {C!Reading}]
    BY <2>1
  <2> QED
    BY <2>1, <2>2
<1>3. /\ \E S : name' \in [Shells -> S]
      /\ \A t \in Shells \ {s} : name'[t] = name[t]
  <2>1. PICK S : name \in [Shells -> S]
    BY DEF FInv, ShellsOK
  <2>2. CASE UNCHANGED name
    BY <2>1, <2>2
  <2>3. ASSUME NEW n, name' = [name EXCEPT ![s] = n]
        PROVE  /\ \E T : name' \in [Shells -> T]
               /\ \A t \in Shells \ {s} : name'[t] = name[t]
    <3>1. name' \in [Shells -> S \cup {n}]
      BY <2>1, <2>3
    <3> QED
      BY <2>1, <2>3, <3>1
  <2> QED
    BY <2>2, <2>3
<1>4. FileOK' /\ ShellsOK'
  BY <1>1, <1>2, <1>3 DEF FInv, FileOK, ShellsOK, C!file
<1>5. C!Reading' = C!Reading /\ C!Loads' = C!Loads
  BY DEF C!Reading, C!Loads, C!file
<1>6. StillAsRead'
  <2> SUFFICES ASSUME NEW t \in Shells
      PROVE  /\ pc'[t] \in {"prompt", "ask"} /\ t \notin stale' => state' # "broken" /\ existing'[t] = C!Reading
             /\ pc'[t] = "ask" => name'[t] \notin existing'[t].names
    BY <1>5 DEF StillAsRead
  <2>1. CASE t = s
    BY <1>1, <2>1 DEF C!file
  <2>2. CASE t # s
    BY <1>1, <1>2, <1>3, <2>2 DEF FInv, StillAsRead, C!file
  <2> QED
    BY <2>1, <2>2
<1>7. C!OfferLeadsOn'
  <2> SUFFICES ASSUME NEW t \in saved' \ stale', pc'[t] = "load", ~existing'[t].there
      PROVE  C!Loads /\ name'[t] \in defaults
    BY <1>5 DEF C!OfferLeadsOn, C!file
  <2>1. t # s /\ t \in Shells /\ t \in saved \ stale
    BY <1>1 DEF FInv, ShellsOK
  <2> QED
    BY <1>1, <1>2, <1>3, <2>1 DEF FInv, C!OfferLeadsOn
<1> QED
  BY <1>4, <1>6, <1>7 DEF FInv

\* The account of a file that did not exist claims the default.
LEMMA ClaimsOfNoFile ==
  ASSUME FInv, NEW s \in Shells \ stale, pc[s] = "ask", ~existing[s].there
  PROVE  C!Claims(s) = {name[s]}
<1>1. existing[s] = C!Reading
  BY DEF FInv, StillAsRead
<1>2. state # "missing" => C!Reading.there
  BY DEF C!Reading
<1>3. ~existing[s].hasDefault
  BY <1>1, <1>2 DEF C!Reading, C!NoConfig
<1> QED
  BY <1>3 DEF C!Claims

\* A step of one shell that writes the file: the others' readings are overtaken.
LEMMA FileMoves ==
  ASSUME FInv, NEW s \in Shells, NEW to, C!Goes(s, to), to \in {"load", "shell"},
         C!Overtakes(s), FileOK',
         saved' \subseteq saved \cup {s}, UNCHANGED <<existing, name>>,
         to = "load" /\ s \notin stale /\ ~existing[s].there => C!Loads' /\ name[s] \in defaults'
  PROVE  FInv'
<1>1. /\ \E S : pc' \in [Shells -> S]
      /\ pc'[s] = to /\ \A t \in Shells \ {s} : pc'[t] = pc[t]
  BY OneGoes
<1>2. ShellsOK'
  BY <1>1 DEF FInv, ShellsOK
<1>3. stale' = stale \cup (Shells \ {s})
  BY DEF C!Overtakes
<1>4. StillAsRead'
  BY <1>1, <1>3 DEF FInv, StillAsRead
<1>5. C!OfferLeadsOn'
  BY <1>1, <1>2, <1>3 DEF C!OfferLeadsOn, ShellsOK
<1> QED
  BY <1>2, <1>4, <1>5 DEF FInv

LEMMA FileInductive == FInv /\ [C!Next]_C!vars => FInv'
<1> SUFFICES ASSUME FInv, [C!Next]_C!vars PROVE FInv'
  OBVIOUS
<1>1. ASSUME NEW s \in Shells, C!Step(s) PROVE FInv'
  <2> DEFINE after == IF command[s] = "account" THEN "load" ELSE "shell"
  <2>1. CASE C!Types(s)
    <3>1. \E to \in {"load", "read"} : C!Goes(s, to)
      BY <2>1 DEF C!Types
    <3> QED
      BY <2>1, <3>1, FileStands DEF C!Types
  <2>2. CASE C!LoadsAccounts(s)
    <3>1. \E to \in {"runs", "offer", "load", "shell"} : C!Goes(s, to)
      BY <2>2 DEF C!LoadsAccounts
    <3> QED
      BY <2>2, <3>1, FileStands DEF C!LoadsAccounts
  <2>3. CASE C!BareInvocation(s)
    <3>1. \E to \in {"offer", "shell"} : C!Goes(s, to)
      BY <2>3 DEF C!BareInvocation
    <3> QED
      BY <2>3, <3>1, FileStands DEF C!BareInvocation
  <2>4. CASE C!Ends(s)
    BY <2>4, FileStands DEF C!Ends
  <2>5. CASE C!Reads(s)
    <3>1. CASE C!Goes(s, "shell") /\ UNCHANGED <<existing, stale>>
      BY <2>5, <3>1, FileStands DEF C!Reads
    <3>2. CASE /\ C!Goes(s, "prompt") /\ state # "broken" /\ stale' = stale \ {s}
               /\ existing' = [existing EXCEPT ![s] = C!Reading]
      <4>1. existing'[s] = C!Reading
        BY <3>2 DEF FInv, ShellsOK
      <4>2. s \notin saved /\ UNCHANGED <<C!file, name, saved>>
        BY <2>5 DEF C!Reads, FInv, ShellsOK
      <4> QED
        BY <3>2, <4>1, <4>2, FileStands
    <3> QED
      BY <2>5, <3>1, <3>2 DEF C!Reads
  <2>6. CASE C!Prompts(s)
    <3>1. CASE C!Goes(s, "shell") /\ UNCHANGED name
      BY <2>6, <3>1, FileStands DEF C!Prompts
    <3>2. CASE C!Goes(s, "ask") /\ \E n : n \notin existing[s].names
                                     /\ name' = [name EXCEPT ![s] = n]
      <4>1. name'[s] \notin existing'[s].names
        BY <2>6, <3>2 DEF C!Prompts, FInv, ShellsOK
      <4>2. s \notin stale => state # "broken" /\ existing[s] = C!Reading
        BY <2>6 DEF C!Prompts, FInv, StillAsRead
      <4>3. s \notin saved /\ UNCHANGED <<C!file, existing, stale, saved>>
        BY <2>6 DEF C!Prompts, FInv, ShellsOK
      <4> QED
        BY <3>2, <4>1, <4>2, <4>3, FileStands
    <3> QED
      BY <2>6, <3>1, <3>2 DEF C!Prompts, C!FirstFree
  <2>7. CASE C!Saves(s)
    <3>1. FileOK' /\ C!Loads'
      BY <2>7 DEF C!Saves, C!Claims, FileOK, C!Loads
    <3>3. s \notin stale => name[s] \in defaults'
      BY <2>7, ClaimsOfNoFile DEF C!Saves, C!Asks
    <3>2. C!Goes(s, after) /\ after \in {"load", "shell"}
      BY <2>7 DEF C!Saves, C!Over
    <3> QED
      BY <2>7, <3>1, <3>2, <3>3, FileMoves DEF C!Saves
  <2>8. CASE C!Appends(s)
    <3>1. FileOK'
      BY <2>8 DEF C!Appends, C!Claims, FInv, FileOK
    <3>2. C!Goes(s, after) /\ after \in {"load", "shell"}
      BY <2>8 DEF C!Appends, C!Over
    <3> QED
      BY <2>8, <3>1, <3>2, FileMoves DEF C!Appends
  <2>9. CASE C!WriteFails(s)
    <3>1. CASE UNCHANGED <<C!file, stale>>
      BY <2>9, <3>1, FileStands DEF C!WriteFails
    <3>2. CASE /\ state' = "broken" /\ held' = {} /\ defaults' = {} /\ invalid' = {}
               /\ C!Overtakes(s)
      <4>1. FileOK'
        BY <3>2 DEF FileOK
      <4> QED
        BY <2>9, <3>2, <4>1, FileMoves DEF C!WriteFails
    <3> QED
      BY <2>9, <3>1, <3>2 DEF C!WriteFails
  <2>10. ASSUME C!Over(s), s \notin saved, UNCHANGED <<C!file, existing, name, stale, saved>>
         PROVE  FInv'
    <3>1. C!Goes(s, after) /\ after \in {"load", "shell"}
      BY <2>10 DEF C!Over
    <3> QED
      BY <2>10, <3>1, FileStands
  <2>11. CASE C!Answers(s)
    <3>1. s \notin saved
      BY <2>11 DEF C!Answers, FInv, ShellsOK
    <3>2. CASE C!Goes(s, "read")
      BY <2>11, <3>1, <3>2, FileStands DEF C!Answers
    <3> QED
      BY <2>10, <2>11, <3>1, <3>2 DEF C!Answers
  <2>12. CASE C!Prints(s)
    <3>1. s \notin saved
      BY <2>12 DEF C!Prints, FInv, ShellsOK
    <3> QED
      BY <2>10, <2>12, <3>1 DEF C!Prints
  <2> QED
    BY <1>1, <2>1, <2>2, <2>3, <2>4, <2>5, <2>6, <2>7, <2>8, <2>9, <2>11, <2>12 DEF C!Step
<1>2. CASE C!Edits
  <2>1. FileOK'
    BY <1>2 DEF C!Edits, FileOK
  <2>2. ShellsOK' /\ StillAsRead' /\ C!OfferLeadsOn'
    BY <1>2 DEF C!Edits, FInv, ShellsOK, StillAsRead, C!OfferLeadsOn
  <2> QED
    BY <2>1, <2>2 DEF FInv
<1>3. CASE UNCHANGED C!vars
  BY <1>3 DEF C!vars, C!file, FInv, FileOK, ShellsOK, StillAsRead, C!OfferLeadsOn, C!Reading, C!Loads
<1> QED
  BY <1>1, <1>2, <1>3 DEF C!Next

THEOREM FileInvariant == C!Spec => []FInv
BY FileInitially, FileInductive, PTL DEF C!Spec

\* The wizard adds an account, and takes nothing from a file nobody wrote since it
\* was read: not the accounts that used to work, nor its parsing (account_name,
\* ExistingConfig::read, save_or_print, append_or_print).
THEOREM WizardAddsAnAccount == C!Spec => C!WritesAddAnAccount
<1> DEFINE Adds == \A s \in Shells \ stale : C!Written(s) =>
                     /\ state' = "parses"
                     /\ held' = held \cup {name[s]} /\ name[s] \notin held
                     /\ invalid' = invalid
<1>1. FInv => Adds
  <2> SUFFICES ASSUME FInv, NEW s \in Shells \ stale, C!Written(s)
      PROVE  /\ state' = "parses"
             /\ held' = held \cup {name[s]} /\ name[s] \notin held
             /\ invalid' = invalid
    OBVIOUS
  <2>1. /\ state # "broken" /\ existing[s] = C!Reading
        /\ name[s] \notin existing[s].names
    BY DEF C!Written, C!Saves, C!Appends, C!Asks, FInv, StillAsRead
  <2>2. CASE state = "missing"
    <3>1. held = {} /\ invalid = {}
      BY <2>2 DEF FInv, FileOK
    <3>2. ~existing[s].there
      BY <2>1, <2>2 DEF C!Reading, C!NoConfig
    <3> QED
      BY <3>1, <3>2 DEF C!Written, C!Saves, C!Appends
  <2>3. CASE state # "missing"
    <3>1. existing[s].there /\ name[s] \notin held
      BY <2>1, <2>3 DEF C!Reading
    <3>2. state = "parses"
      BY <2>1, <2>3, <3>1 DEF FInv, FileOK
    <3> QED
      BY <3>1, <3>2 DEF C!Written, C!Saves, C!Appends
  <2> QED
    BY <2>2, <2>3
<1>2. FInv /\ [C!Next]_C!vars => [Adds]_C!vars
  BY <1>1
<1> QED
  BY <1>2, FileInvariant, PTL DEF C!Spec, C!WritesAddAnAccount

\* The account every command picks by itself is one, whenever the owner did not
\* claim two, and there is one: no command picks by map ordering
\* (take_default_account).
THEOREM WizardKeepsOneDefault == C!Spec => C!WritesKeepOneDefault
<1> DEFINE Keeps == \A s \in Shells \ stale :
                      C!Written(s) /\ C!OneDefaultAtMost(defaults) =>
                        defaults' # {} /\ C!OneDefaultAtMost(defaults')
<1>1. FInv => Keeps
  <2> SUFFICES ASSUME FInv, NEW s \in Shells \ stale, C!Written(s), C!OneDefaultAtMost(defaults)
      PROVE  defaults' # {} /\ C!OneDefaultAtMost(defaults')
    OBVIOUS
  <2>1. /\ state # "broken" /\ existing[s] = C!Reading
        /\ name[s] \notin existing[s].names
    BY DEF C!Written, C!Saves, C!Appends, C!Asks, FInv, StillAsRead
  <2>2. CASE C!Saves(s)
    BY <2>2, ClaimsOfNoFile DEF C!Saves, C!Asks, C!OneDefaultAtMost
  <2>3. CASE C!Appends(s)
    <3>1. /\ state # "missing" /\ name[s] \notin held
          /\ existing[s].hasDefault = (defaults # {})
      BY <2>1, <2>3 DEF C!Appends, C!Reading
    <3>2. state = "parses"
      BY <2>1, <3>1 DEF FInv, FileOK
    <3>3. defaults' = defaults \cup {n \in {name[s]} : ~existing[s].hasDefault}
      BY <2>3, <3>1, <3>2 DEF C!Appends, C!Claims
    <3>4. CASE defaults = {}
      BY <3>1, <3>3, <3>4 DEF C!OneDefaultAtMost
    <3>5. CASE defaults # {}
      BY <3>1, <3>3, <3>5 DEF C!OneDefaultAtMost
    <3> QED
      BY <3>4, <3>5
  <2> QED
    BY <2>2, <2>3 DEF C!Written
<1>2. FInv /\ [C!Next]_C!vars => [Keeps]_C!vars
  BY <1>1
<1> QED
  BY <1>2, FileInvariant, PTL DEF C!Spec, C!WritesKeepOneDefault

\* Who accepts the offer, and lets the account be saved, has the command that
\* raised it run on that account (load_config).
THEOREM OfferIsWorthAccepting == C!Spec => []C!OfferLeadsOn
BY FileInvariant, PTL DEF FInv

-----------------------------------------------------------------------------
(* The IMAP watch *)

Run == [nth : Nat, event : Event]

Steps == {"head", "receive", "closing", "over", "events", "fetch", "open", "read", "hook"}

\* The steps of an event whose hook is to run.
Called == pc \in {"fetch", "open", "read", "hook"}

SessionTyped ==
  /\ held \subseteq Uids
  /\ chan \in Seq(Delta \cup {None}) /\ taken \in Seq(Delta) /\ ran \in Seq(Run)
  /\ todo \subseteq Event
  /\ pc \in Steps /\ worker \in {"watching", "gone"}
  /\ conn \in {"none", "live", "lost"}
  /\ Called => event \in Event

\* A second try is over a connection opened for it, and a hook is called without
\* an envelope only then.
Retried ==
  /\ pc = "fetch" /\ again => fresh \/ conn = "none"
  /\ pc = "read" /\ again => fresh
  /\ OldSessionCostsNothing

\* What the thread of io-imap says last is said when it is gone, and a drain that
\* ends of its own has heard it all.
Drained ==
  /\ \A i \in DOMAIN chan : chan[i] \notin Delta => i = Len(chan) /\ worker = "gone"
  /\ pc \in {"closing", "over"} /\ ~shutdown => chan = <<>> /\ worker = "gone"

\* The events whose hook ran for a delta, and those it is to run for.
RanOf(runs, n) ==
  {r.event : r \in {runs[i] : i \in {k \in DOMAIN runs : runs[k].nth = n}}}
Meant(d) == {e \in Event : Tells(d, e) /\ Hooked(e)}

\* Every hook of the deltas before the one in hand ran...
Settled ==
  /\ \A i, j \in DOMAIN ran : i < j => ran[i].nth <= ran[j].nth /\ ran[i] # ran[j]
  /\ \A i \in DOMAIN ran : ran[i].nth <= Len(taken)
  /\ \A n \in DOMAIN taken : n < Len(taken) \/ ~InHand => RanOf(ran, n) = Meant(taken[n])

\* ... and those of that one, but for the event in hand and the events to come.
InHandSettled ==
  InHand =>
    /\ Len(taken) > 0
    /\ Meant(taken[Len(taken)])
         = RanOf(ran, Len(taken)) \cup {e \in todo : Hooked(e)} \cup {e \in {event} : Called}
    /\ RanOf(ran, Len(taken)) \cap todo = {}
    /\ Called => event \notin RanOf(ran, Len(taken)) \cup todo

RunsInv == Retried /\ Drained /\ Settled /\ InHandSettled
SessionInv == SessionTyped /\ RunsInv

-----------------------------------------------------------------------------
\* A delta becomes the events that tell it.
LEMMA TranslateTells ==
  ASSUME NEW d \in Delta
  PROVE  Translate(d) = {e \in Event : Tells(d, e)}
<1>1. Translate(d) \subseteq Event
  BY DEF Translate, Delta, Event
<1>2. ASSUME NEW e \in Event PROVE e \in Translate(d) <=> Tells(d, e)
  BY <1>2 DEF Translate, Tells, Delta, Event
<1> QED
  BY <1>1, <1>2

LEMMA InitSessionTyped == Init => SessionTyped
<1>1. <<>> \in Seq(Delta \cup {None}) /\ <<>> \in Seq(Delta) /\ <<>> \in Seq(Run)
  BY EmptySeq
<1> QED
  BY <1>1 DEF Init, SessionTyped, Steps, Called

\* What the server says of a change is a delta.
LEMMA Said ==
  /\ \A u \in Uids : [change |-> "added", uid |-> u, flags |-> {}] \in Delta
  /\ \A u \in Uids : [change |-> "removed", uid |-> u, flags |-> {}] \in Delta
  /\ \A u \in Uids, moved \in SUBSET Flags :
       /\ [change |-> "flagAdded", uid |-> u, flags |-> moved] \in Delta
       /\ [change |-> "flagRemoved", uid |-> u, flags |-> moved] \in Delta
BY DEF Delta, MailChanges, FlagChanges

\* The server moves the mailbox by deltas, the steps of the watch leave it alone.
Moves == \E d \in Delta : Sends(d)

LEMMA MovesSay ==
  ASSUME SessionTyped, Arrive \/ Expunge \/ MoveFlags
  PROVE  held' \subseteq Uids /\ (Moves \/ UNCHANGED stream)
<1> USE DEF SessionTyped
<1>1. CASE Arrive
  BY <1>1, Said DEF Arrive, Moves
<1>2. CASE Expunge
  BY <1>2, Said DEF Expunge, Moves
<1>3. CASE MoveFlags
  BY <1>3, Said DEF MoveFlags, Moves
<1> QED
  BY <1>1, <1>2, <1>3

LEMMA SendsTyped ==
  ASSUME SessionTyped, Moves \/ UNCHANGED stream
  PROVE  chan' \in Seq(Delta \cup {None}) /\ worker' = worker
<1>1. CASE Moves
  <2>1. PICK d \in Delta : Sends(d)
    BY <1>1 DEF Moves
  <2> QED
    BY <2>1, AppendProperties DEF SessionTyped, Sends
<1>2. CASE UNCHANGED stream
  BY <1>2 DEF SessionTyped, stream
<1> QED
  BY <1>1, <1>2

LEMMA NextSessionTyped == SessionTyped /\ [Next]_vars => SessionTyped'
<1> SUFFICES ASSUME SessionTyped, [Next]_vars PROVE SessionTyped'
  OBVIOUS
<1> USE DEF SessionTyped, Steps, Called, mailbox, stream, second, config, history
<1>1. CASE Drain
  BY <1>1 DEF Drain
<1>2. CASE Receive
  <2>1. Head(chan) \in Delta /\ Tail(chan) \in Seq(Delta \cup {None})
    BY <1>2, HeadTailProperties DEF Receive
  <2>2. Append(taken, Head(chan)) \in Seq(Delta)
    BY <2>1, AppendProperties
  <2>3. Translate(Head(chan)) \subseteq Event
    BY <2>1, TranslateTells
  <2> QED
    BY <1>2, <2>1, <2>2, <2>3 DEF Receive
<1>3. CASE ReceiveError
  <2>1. Tail(chan) \in Seq(Delta \cup {None})
    BY <1>3, HeadTailProperties DEF ReceiveError
  <2> QED
    BY <1>3, <2>1 DEF ReceiveError
<1>4. CASE TimeOut
  BY <1>4 DEF TimeOut
<1>5. CASE Disconnected
  BY <1>5 DEF Disconnected
<1>6. CASE Close
  BY <1>6 DEF Close
<1>7. CASE EventsDone
  BY <1>7 DEF EventsDone
<1>8. CASE Dispatch
  BY <1>8 DEF Dispatch
<1>9. CASE RunHook
  <2>1. Len(taken) \in Nat
    BY LenProperties
  <2>2. [nth |-> Len(taken), event |-> event] \in Run
    BY <1>9, <2>1 DEF RunHook, Run
  <2> QED
    BY <1>9, <2>2, AppendProperties DEF RunHook
<1>10. CASE Fetch
  BY <1>10 DEF Fetch
<1>11. CASE Open
  BY <1>11 DEF Open
<1>12. CASE Answered
  BY <1>12 DEF Answered
<1>13. CASE NotFound
  BY <1>13 DEF NotFound, FetchFails
<1>14. CASE Broken
  BY <1>14 DEF Broken, FetchFails
<1>15. CASE Interrupted
  BY <1>15 DEF Interrupted, FetchFails
<1>16. CASE OpenFails
  BY <1>16 DEF OpenFails
<1>17. CASE Arrive \/ Expunge \/ MoveFlags
  <2>1. UNCHANGED <<pc, todo, event, conn, taken, ran>>
    BY <1>17 DEF Arrive, Expunge, MoveFlags
  <2> QED
    BY <1>17, <2>1, MovesSay, SendsTyped
<1>18. CASE WorkerEnds
  BY <1>18, AppendProperties DEF WorkerEnds
<1>19. CASE LoseSecond
  BY <1>19 DEF LoseSecond
<1>20. CASE FallSilent
  BY <1>20 DEF FallSilent
<1>21. CASE RequestShutdown
  BY <1>21 DEF RequestShutdown
<1>22. CASE UNCHANGED vars
  BY <1>22 DEF vars
<1> QED
  BY <1>1, <1>2, <1>3, <1>4, <1>5, <1>6, <1>7, <1>8, <1>9, <1>10, <1>11, <1>12,
     <1>13, <1>14, <1>15, <1>16, <1>17, <1>18, <1>19, <1>20, <1>21, <1>22
  DEF Next, Watch, Others

-----------------------------------------------------------------------------
LEMMA InitRuns == Init => RunsInv
BY DEF Init, RunsInv, Retried, OldSessionCostsNothing, Called, Drained, Settled,
       InHandSettled, InHand

\* An arrival goes without its envelope only over a connection opened for it.
LEMMA NextRetried ==
  ASSUME SessionTyped, Retried, [Next]_vars
  PROVE  Retried'
<1> USE DEF Retried, OldSessionCostsNothing, second
<1>1. CASE Dispatch
  BY <1>1 DEF Dispatch
<1>2. CASE Fetch
  BY <1>2 DEF Fetch
<1>3. CASE Open
  BY <1>3 DEF Open
<1>4. CASE OpenFails
  BY <1>4 DEF OpenFails
<1>5. CASE Answered
  <2>1. event.uid # None
    BY <1>5, ConstantsAssumption DEF Answered, SessionTyped
  <2> QED
    BY <1>5, <2>1 DEF Answered
<1>6. CASE NotFound \/ Broken \/ Interrupted
  <2>1. pc = "read" /\ FetchFails /\ UNCHANGED <<shutdown, event>>
    BY <1>6 DEF NotFound, Broken, Interrupted
  <2> QED
    BY <2>1 DEF FetchFails
<1>7. CASE LoseSecond
  BY <1>7 DEF LoseSecond
<1>8. CASE RequestShutdown
  BY <1>8 DEF RequestShutdown
<1>9. CASE \/ Drain \/ Receive \/ ReceiveError \/ TimeOut \/ Disconnected \/ Close
           \/ EventsDone \/ RunHook
  <2>1. pc' \notin {"fetch", "read", "hook"}
    BY <1>9 DEF Drain, Receive, ReceiveError, TimeOut, Disconnected, Close, EventsDone,
                RunHook
  <2> QED
    BY <2>1
<1>10. CASE Arrive \/ Expunge \/ MoveFlags \/ WorkerEnds \/ FallSilent \/ UNCHANGED vars
  <2>1. UNCHANGED <<shutdown, pc, event, conn, again, fresh, envelope>>
    BY <1>10 DEF Arrive, Expunge, MoveFlags, WorkerEnds, FallSilent, vars
  <2> QED
    BY <2>1
<1> QED
  BY <1>1, <1>2, <1>3, <1>4, <1>5, <1>6, <1>7, <1>8, <1>9, <1>10 DEF Next, Watch, Others

\* Nothing said before the end of the drain is left unheard.
LEMMA NextDrained == SessionTyped /\ Drained /\ [Next]_vars => Drained'
<1> SUFFICES ASSUME SessionTyped, Drained, [Next]_vars PROVE Drained'
  OBVIOUS
<1> USE DEF Drained
<1>1. CASE Receive \/ ReceiveError
  <2>1. chan \in Seq(Delta \cup {None}) /\ chan # <<>> /\ chan' = Tail(chan)
    BY <1>1 DEF SessionTyped, Receive, ReceiveError
  <2>2. /\ Len(chan) \in Nat \ {0} /\ DOMAIN chan = 1 .. Len(chan)
        /\ Len(chan') = Len(chan) - 1 /\ DOMAIN chan' = 1 .. Len(chan')
        /\ \A i \in 1 .. Len(chan) - 1 : chan'[i] = chan[i + 1]
        /\ Head(chan) = chan[1]
    BY <2>1, LenProperties, HeadTailProperties, EmptySeq
  <2>3. \A i \in DOMAIN chan' : chan'[i] \notin Delta => i = Len(chan') /\ worker = "gone"
    BY <2>2
  <2>4. CASE Receive
    BY <2>3, <2>4 DEF Receive
  <2>5. CASE ReceiveError
    <3>1. Len(chan) = 1 /\ worker = "gone"
      BY <2>2, <2>5 DEF ReceiveError
    <3>2. chan' = <<>>
      BY <2>1, <2>2, <3>1, HeadTailProperties, EmptySeq, LenProperties
    <3> QED
      BY <2>3, <2>5, <3>1, <3>2 DEF ReceiveError
  <2> QED
    BY <1>1, <2>4, <2>5
<1>2. CASE Drain
  BY <1>2 DEF Drain, stream
<1>3. CASE Disconnected
  BY <1>3 DEF Disconnected, stream
<1>4. CASE Close
  BY <1>4 DEF Close
<1>5. CASE Arrive \/ Expunge \/ MoveFlags
  <2>1. UNCHANGED <<pc, shutdown>>
    BY <1>5 DEF Arrive, Expunge, MoveFlags
  <2>2. CASE Moves
    <3>1. PICK d \in Delta : Sends(d)
      BY <2>2 DEF Moves
    <3>2. /\ worker = "watching" /\ worker' = worker
          /\ chan' = Append(chan, d)
      BY <3>1 DEF Sends
    <3>3. /\ DOMAIN chan' = 1 .. Len(chan) + 1 /\ chan'[Len(chan) + 1] = d
          /\ DOMAIN chan = 1 .. Len(chan)
          /\ \A i \in 1 .. Len(chan) : chan'[i] = chan[i]
      BY <3>2, AppendProperties, LenProperties DEF SessionTyped
    <3> QED
      BY <2>1, <3>2, <3>3
  <2> QED
    BY <1>5, <2>1, <2>2, MovesSay DEF stream
<1>6. CASE WorkerEnds
  <2>1. CASE chan' = chan
    BY <1>6, <2>1 DEF WorkerEnds
  <2>2. CASE chan' = Append(chan, None)
    <3>1. /\ DOMAIN chan' = 1 .. Len(chan) + 1 /\ Len(chan') = Len(chan) + 1
          /\ DOMAIN chan = 1 .. Len(chan)
          /\ \A i \in 1 .. Len(chan) : chan'[i] = chan[i]
      BY <2>2, AppendProperties, LenProperties DEF SessionTyped
    <3> QED
      BY <1>6, <3>1 DEF WorkerEnds
  <2> QED
    BY <1>6, <2>1, <2>2 DEF WorkerEnds
<1>7. CASE \/ TimeOut \/ EventsDone \/ Dispatch \/ RunHook \/ Fetch \/ Open \/ Answered
           \/ NotFound \/ Broken \/ Interrupted \/ OpenFails
  <2>1. UNCHANGED stream
    BY <1>7 DEF TimeOut, EventsDone, Dispatch, RunHook, Fetch, Open, Answered, NotFound,
                Broken, Interrupted, OpenFails
  <2>2. pc' \notin {"closing", "over"}
    BY <1>7 DEF TimeOut, EventsDone, Dispatch, RunHook, Fetch, Open, Answered, NotFound,
                Broken, Interrupted, OpenFails, FetchFails
  <2> QED
    BY <2>1, <2>2 DEF stream
<1>8. CASE LoseSecond \/ FallSilent \/ RequestShutdown \/ UNCHANGED vars
  <2>1. UNCHANGED <<pc, stream>> /\ (~shutdown' => ~shutdown)
    BY <1>8 DEF LoseSecond, FallSilent, RequestShutdown, vars
  <2> QED
    BY <2>1 DEF stream
<1> QED
  BY <1>1, <1>2, <1>3, <1>4, <1>5, <1>6, <1>7, <1>8 DEF Next, Watch, Others

-----------------------------------------------------------------------------
LEMMA RanOfRuns ==
  ASSUME NEW runs, NEW n, NEW e
  PROVE  e \in RanOf(runs, n) <=>
           \E k \in DOMAIN runs : runs[k].nth = n /\ runs[k].event = e
BY DEF RanOf

\* What a delta calls for does not move under a session.
LEMMA MeantStays ==
  ASSUME [Next]_vars
  PROVE  \A e : Hooked(e)' <=> Hooked(e)
<1>1. UNCHANGED config
  BY DEF Next, Watch, Others, vars, Drain, Receive, ReceiveError, TimeOut, Disconnected,
         Close, EventsDone, Dispatch, RunHook, Fetch, Open, Answered, NotFound, Broken,
         Interrupted, OpenFails, Arrive, Expunge, MoveFlags, WorkerEnds, LoseSecond,
         FallSilent, RequestShutdown
<1> QED
  BY <1>1 DEF config, Hooked

\* The steps that leave the events of the delta in hand where they are.
Elsewhere ==
  /\ UNCHANGED <<todo, event, history>>
  /\ InHand' = InHand /\ Called' = Called

LEMMA ElsewhereSteps ==
  ASSUME [Next]_vars, ~Receive, ~EventsDone, ~Dispatch, ~RunHook
  PROVE  Elsewhere
<1> USE DEF Elsewhere, InHand, Called
<1>1. CASE Drain \/ ReceiveError \/ TimeOut \/ Disconnected \/ Close
  BY <1>1 DEF Drain, ReceiveError, TimeOut, Disconnected, Close
<1>2. CASE Fetch \/ Open \/ Answered \/ OpenFails
  BY <1>2 DEF Fetch, Open, Answered, OpenFails
<1>3. CASE NotFound \/ Broken \/ Interrupted
  BY <1>3 DEF NotFound, Broken, Interrupted, FetchFails
<1>4. CASE \/ Arrive \/ Expunge \/ MoveFlags \/ WorkerEnds \/ LoseSecond \/ FallSilent
           \/ RequestShutdown
  BY <1>4 DEF Arrive, Expunge, MoveFlags, WorkerEnds, LoseSecond, FallSilent,
              RequestShutdown
<1>5. CASE UNCHANGED vars
  BY <1>5 DEF vars
<1> QED
  BY <1>1, <1>2, <1>3, <1>4, <1>5 DEF Next, Watch, Others

\* The hooks of every delta run, and once.
LEMMA NextSettled ==
  SessionTyped /\ Settled /\ InHandSettled /\ [Next]_vars => Settled' /\ InHandSettled'
<1> SUFFICES ASSUME SessionTyped, Settled, InHandSettled, [Next]_vars
             PROVE  Settled' /\ InHandSettled'
  OBVIOUS
<1>a. \A e : Hooked(e)' <=> Hooked(e)
  BY MeantStays
<1>b. /\ Len(taken) \in Nat /\ DOMAIN taken = 1 .. Len(taken)
      /\ Len(ran) \in Nat /\ DOMAIN ran = 1 .. Len(ran)
      /\ \A k \in DOMAIN ran : ran[k].nth \in Nat
  <2>1. /\ Len(taken) \in Nat /\ DOMAIN taken = 1 .. Len(taken)
        /\ Len(ran) \in Nat /\ DOMAIN ran = 1 .. Len(ran)
    BY LenProperties DEF SessionTyped
  <2>2. \A k \in DOMAIN ran : ran[k] \in Run
    BY <2>1, ElementOfSeq DEF SessionTyped
  <2> QED
    BY <2>1, <2>2 DEF Run
<1>1. CASE Receive
  <2> DEFINE d == Head(chan)
  <2>1. /\ d \in Delta /\ taken' = Append(taken, d) /\ todo' = Translate(d) /\ ran' = ran
        /\ pc = "receive" /\ pc' = "events"
    BY <1>1 DEF Receive
  <2> HIDE DEF d
  <2>2. /\ Len(taken') = Len(taken) + 1 /\ DOMAIN taken' = 1 .. Len(taken) + 1
        /\ \A n \in 1 .. Len(taken) : taken'[n] = taken[n]
        /\ taken'[Len(taken')] = d
    BY <2>1, AppendProperties DEF SessionTyped
  <2>3. RanOf(ran', Len(taken')) = {}
    <3>1. ASSUME NEW k \in DOMAIN ran PROVE ran[k].nth # Len(taken')
      <4>1. ran[k].nth <= Len(taken)
        BY DEF Settled
      <4> QED
        BY <4>1, <2>2, <1>b
    <3> QED
      BY <2>1, <3>1 DEF RanOf
  <2>4. Settled'
    <3>1. \A i \in DOMAIN ran : ran[i].nth <= Len(taken')
      BY <1>b, <2>2 DEF Settled
    <3>2. ASSUME NEW n \in DOMAIN taken', n < Len(taken') \/ ~InHand'
          PROVE  RanOf(ran', n) = Meant(taken[n])'
      <4>1. n \in DOMAIN taken /\ taken'[n] = taken[n]
        BY <3>2, <2>1, <2>2, <1>b DEF InHand
      <4>2. RanOf(ran, n) = Meant(taken[n])
        BY <4>1, <2>1 DEF Settled, InHand
      <4> QED
        BY <4>1, <4>2, <2>1, <1>a DEF Meant
    <3> QED
      BY <3>1, <3>2, <2>1 DEF Settled
  <2>5. InHandSettled'
    <3>1. Meant(taken[Len(taken)])' = {e \in Event : Tells(d, e) /\ Hooked(e)}
      BY <2>2, <1>a DEF Meant
    <3>2. {e \in todo : Hooked(e)}' = {e \in Translate(d) : Hooked(e)}
      BY <1>a, <2>1
    <3>3. Translate(d) = {e \in Event : Tells(d, e)}
      BY <2>1, TranslateTells
    <3>4. Meant(taken[Len(taken)])' = {e \in todo : Hooked(e)}'
      BY <3>1, <3>2, <3>3
    <3>5. ~Called' /\ Len(taken') > 0
      BY <2>1, <2>2, <1>b DEF Called
    <3> QED
      BY <2>3, <3>4, <3>5 DEF InHandSettled
  <2> QED
    BY <2>4, <2>5
<1>2. CASE EventsDone
  <2>1. InHand /\ ~InHand' /\ ~Called /\ todo = {} /\ UNCHANGED <<taken, ran>>
    BY <1>2 DEF EventsDone, InHand, Called, history
  <2>2. Meant(taken[Len(taken)]) = RanOf(ran, Len(taken)) /\ Len(taken) > 0
    BY <2>1 DEF InHandSettled
  <2>3. ASSUME NEW n \in DOMAIN taken PROVE RanOf(ran', n) = Meant(taken[n])'
    <3>1. RanOf(ran, n) = Meant(taken[n])
      BY <2>2, <1>b DEF Settled
    <3> QED
      BY <3>1, <2>1, <1>a DEF Meant
  <2>4. Settled'
    BY <2>1, <2>3 DEF Settled
  <2> QED
    BY <2>1, <2>4 DEF InHandSettled
<1>3. CASE Dispatch
  <2>1. PICK e \in todo :
          /\ todo' = todo \ {e} /\ event' = e
          /\ pc' = IF ~Hooked(e) THEN "events"
                   ELSE IF e.change = "added" THEN "fetch" ELSE "hook"
    BY <1>3 DEF Dispatch
  <2>2. /\ InHand /\ InHand' /\ ~Called /\ (Called' <=> Hooked(e))
        /\ UNCHANGED <<taken, ran>>
    BY <1>3, <2>1 DEF Dispatch, InHand, Called, history
  <2>3. Settled'
    BY <2>2, <1>a DEF Settled, Meant
  <2>4. /\ Len(taken) > 0
        /\ Meant(taken[Len(taken)]) = RanOf(ran, Len(taken)) \cup {x \in todo : Hooked(x)}
        /\ RanOf(ran, Len(taken)) \cap todo = {}
    BY <2>2 DEF InHandSettled
  <2>5. {x \in todo : Hooked(x)} = ({x \in todo : Hooked(x)} \cup {x \in {event} : Called})'
    BY <2>1, <2>2, <1>a
  <2>6. Meant(taken[Len(taken)])' = Meant(taken[Len(taken)])
    BY <1>a, <2>2 DEF Meant
  <2>7. InHandSettled'
    BY <2>1, <2>2, <2>4, <2>5, <2>6 DEF InHandSettled
  <2> QED
    BY <2>3, <2>7
<1>4. CASE RunHook
  <2> DEFINE r == [nth |-> Len(taken), event |-> event]
  <2>1. /\ ran' = Append(ran, r) /\ UNCHANGED <<taken, todo, event>>
        /\ Called /\ ~Called' /\ InHand /\ InHand'
    BY <1>4 DEF RunHook, Called, InHand
  <2>2. r.nth = Len(taken) /\ r.event = event
    OBVIOUS
  <2>3. r \in Run
    BY <1>b, <2>1 DEF Run, SessionTyped
  <2> HIDE DEF r
  <2>4. /\ Len(ran') = Len(ran) + 1 /\ DOMAIN ran' = 1 .. Len(ran) + 1
        /\ \A k \in 1 .. Len(ran) : ran'[k] = ran[k]
        /\ ran'[Len(ran) + 1] = r
    BY <2>1, <2>3, AppendProperties DEF SessionTyped
  <2>5. /\ Len(taken) > 0
        /\ Meant(taken[Len(taken)])
             = RanOf(ran, Len(taken)) \cup {x \in todo : Hooked(x)} \cup {event}
        /\ RanOf(ran, Len(taken)) \cap todo = {}
        /\ event \notin RanOf(ran, Len(taken)) \cup todo
    BY <2>1 DEF InHandSettled
  <2>6. ASSUME NEW n
        PROVE  RanOf(ran', n) = RanOf(ran, n) \cup {x \in {event} : n = Len(taken)}
    <3>1. DOMAIN ran' = DOMAIN ran \cup {Len(ran) + 1}
      BY <2>4, <1>b
    <3>2. ASSUME NEW x
          PROVE  x \in RanOf(ran', n) <=> x \in RanOf(ran, n) \/ (n = Len(taken) /\ x = event)
      BY <3>1, <2>4, <2>2, <1>b, RanOfRuns
    <3> QED
      BY <3>2
  <2>7. Settled'
    <3>1. ASSUME NEW i \in DOMAIN ran', NEW j \in DOMAIN ran', i < j
          PROVE  ran'[i].nth <= ran'[j].nth /\ ran'[i] # ran'[j]
      <4>1. i \in DOMAIN ran /\ ran'[i] = ran[i]
        BY <3>1, <2>4, <1>b
      <4>2. CASE j \in DOMAIN ran
        BY <3>1, <4>1, <4>2, <2>4, <1>b DEF Settled
      <4>3. CASE j = Len(ran) + 1
        <5>1. ran'[j] = r
          BY <4>3, <2>4
        <5>2. ran[i].nth <= Len(taken)
          BY <4>1 DEF Settled
        <5>3. ran[i].nth = Len(taken) => ran[i].event \in RanOf(ran, Len(taken))
          BY <4>1, RanOfRuns
        <5> QED
          BY <4>1, <5>1, <5>2, <5>3, <2>2, <2>5
      <4> QED
        BY <4>2, <4>3, <2>4, <1>b
    <3>2. \A i \in DOMAIN ran' : ran'[i].nth <= Len(taken)
      BY <2>2, <2>4, <1>b DEF Settled
    <3>3. ASSUME NEW n \in DOMAIN taken, n < Len(taken)
          PROVE  RanOf(ran', n) = Meant(taken[n])'
      <4>1. RanOf(ran, n) = Meant(taken[n])
        BY <3>3 DEF Settled
      <4>2. RanOf(ran', n) = RanOf(ran, n)
        <5>1. n # Len(taken)
          BY <3>3, <1>b
        <5> QED
          BY <5>1, <2>6
      <4> QED
        BY <4>1, <4>2, <2>1, <1>a DEF Meant
    <3> QED
      BY <3>1, <3>2, <3>3, <2>1 DEF Settled
  <2>8. InHandSettled'
    <3>1. RanOf(ran', Len(taken')) = RanOf(ran, Len(taken)) \cup {event}
      BY <2>1, <2>6
    <3>2. {x \in todo : Hooked(x)}' = {x \in todo : Hooked(x)}
      BY <2>1, <1>a
    <3>3. Meant(taken[Len(taken)])' = Meant(taken[Len(taken)])
      BY <1>a, <2>1 DEF Meant
    <3> QED
      BY <3>1, <3>2, <3>3, <2>1, <2>5 DEF InHandSettled
  <2> QED
    BY <2>7, <2>8
<1>5. CASE ~Receive /\ ~EventsDone /\ ~Dispatch /\ ~RunHook
  <2>1. /\ UNCHANGED <<todo, event, taken, ran>>
        /\ InHand' = InHand /\ Called' = Called
    BY <1>5, ElsewhereSteps DEF Elsewhere, history
  <2>2. \A n \in DOMAIN taken : Meant(taken[n])' = Meant(taken[n])
    BY <2>1, <1>a DEF Meant
  <2>3. Settled'
    BY <2>1, <2>2 DEF Settled
  <2>4. {x \in todo : Hooked(x)}' = {x \in todo : Hooked(x)}
    BY <2>1, <1>a
  <2>5. Meant(taken[Len(taken)])' = Meant(taken[Len(taken)])
    BY <2>1, <1>a DEF Meant
  <2>6. InHandSettled'
    BY <2>1, <2>4, <2>5 DEF InHandSettled
  <2> QED
    BY <2>3, <2>6
<1> QED
  BY <1>1, <1>2, <1>3, <1>4, <1>5

LEMMA SessionBegins == Init => SessionInv
BY InitSessionTyped, InitRuns DEF SessionInv

LEMMA SessionKeeps == SessionInv /\ [Next]_vars => SessionInv'
BY NextSessionTyped, NextRetried, NextDrained, NextSettled DEF SessionInv, RunsInv

\* A message that is there costs a hook no envelope because the second connection
\* had gone: it is opened once more before the watch gives the envelope up
\* (Resolver::fetch).
THEOREM OldSessionIsOpenedAgain == Spec => []OldSessionCostsNothing
<1>1. SessionInv => OldSessionCostsNothing
  BY DEF SessionInv, RunsInv, Retried
<1> QED
  BY <1>1, SessionBegins, SessionKeeps, PTL DEF Spec

\* Whatever the second connection and the server do, every event of every delta
\* that was taken runs its hook once, the deltas in their order, and a drain that
\* ends without Ctrl+C has taken them all (drain, Hooks::run).
THEOREM HooksRunOnce == Spec => []EveryChangeRunsItsHook
<1>1. SessionInv => EveryChangeRunsItsHook
  BY DEF SessionInv, RunsInv, Drained, Settled, EveryChangeRunsItsHook, Meant, RanOf
<1> QED
  BY <1>1, SessionBegins, SessionKeeps, PTL DEF Spec

=============================================================================
