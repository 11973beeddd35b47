------------------------------- MODULE Wizard --------------------------------
(***************************************************************************)
(* What the wizard offers for an email address, a server URL or a folder   *)
(* (src/src/wizard): the services it finds, the ways to log in to one, and *)
(* the account it generates, with the hook it writes there.                *)
(*                                                                         *)
(* A generated account is a configuration of module HookTables, written by *)
(* one file per backend and read by the loader and the sessions, which     *)
(* know nothing of the wizard.  Discovery and the prompts are external: a  *)
(* service found is a record, and a choice any member of what is offered.  *)
(***************************************************************************)
EXTENDS HookTables, Selection

-----------------------------------------------------------------------------
(* search: the services found *)

TcpServices  == {"imap"}
HttpServices == {"jmap", "caldav", "carddav"}

\* How an endpoint is secured, the higher the better.
Security == [tls |-> 2, starttls |-> 1, plain |-> 0]

\* caps_of: what the methods a service advertises come to, a grant of any kind
\* being one a broker can use.
CapsOf(methods) ==
  {c \in {"basic"}  : "password" \in methods}
    \cup {c \in {"bearer"} : "bearer" \in methods}
    \cup {c \in {"oauth"}  : methods \ {"password", "bearer"} # {}}

\* One entry per endpoint over HTTP, the methods of its mechanisms folded...
HttpEntries(found) ==
  {[kind |-> c.service, endpoint |-> c.endpoint, security |-> c.security,
    auth |-> UNION {CapsOf(d.auth) : d \in {d \in found : /\ d.service = c.service
                                                          /\ d.endpoint = c.endpoint}}] :
     c \in {c \in found : c.service \in HttpServices}}

\* ...and the most secure endpoint over TCP, best_tcp.
TcpEntry(c, found) ==
  /\ c.service \in TcpServices /\ c \in found
  /\ \A d \in found : d.service = c.service => Security[d.security] <= Security[c.security]

\* The APIs of the provider the address is one of, first in the list and taking a
\* token of a broker alone.
Apis(provider) ==
  CASE provider = "microsoft" -> {"msgraph"}
    [] provider = "google"    -> {"gmail", "gcal", "gpeople"}
    [] OTHER                  -> {}

\* The order of the list.
Rank ==
  [msgraph |-> 0, gmail |-> 0, gcal |-> 1, gpeople |-> 2, imap |-> 3, jmap |-> 4,
   caldav |-> 5, carddav |-> 6]

Kinds == DOMAIN Rank

\* retain_scheme: what the scheme of a server URL leaves of the list.
Retained(entry, scheme) ==
  CASE scheme = "imaps" -> entry.kind = "imap" /\ entry.security = "tls"
    [] scheme = "imap"  -> entry.kind = "imap"
    [] OTHER            -> entry.kind # "imap"

-----------------------------------------------------------------------------
(* Logging in *)

Token(caps) == caps \cap {"bearer", "oauth"} # {}

\* prompt_auth: the schemes offered over HTTP, every one when none was advertised.
Schemes(caps) ==
  {s \in {"Basic"}    : "basic" \in caps \/ caps = {}}
    \cup {s \in {"Bearer"} : Token(caps) \/ caps = {}}

\* discovered_mechanisms, the guess behind `offered`.
Guessed(caps) ==
  {m \in {"SCRAM-SHA-256", "PLAIN", "ANONYMOUS", "LOGIN"} : "basic" \in caps \/ caps = {}}
    \cup {m \in {"OAUTHBEARER", "XOAUTH2"} : Token(caps) \/ caps = {}}

\* is_expressible: the mechanisms the configuration has a table for.
Expressible == Guessed({})

\* The mechanisms offered over IMAP: what the server was probed for and can be
\* written down, none standing for a probe that failed.
Mechanisms(caps, probed) ==
  IF probed \cap Expressible # {} THEN probed \cap Expressible ELSE Guessed(caps)

\* The mechanisms a token is prompted for, with the brokers of a grant.
Brokers(caps) == "oauth" \in caps \/ caps = {}

-----------------------------------------------------------------------------
(* The account generated *)

\* The components a calendar advertises and a hook may be on.
Advertised(components) == components \cap Components

\* caldav_hook: a component is held when the calendar names it, or names none.
Holds(components, d) == components = {} \/ d \in components

\* The hooks the file of each backend writes: a notification of what arrives.
ArrivalHooks(kind, components) ==
  CASE kind \in MailBackends \cup SeveralDomains -> {<<"message", "added">>}
    [] kind = "caldav" -> {<<d, "added">> : d \in {d \in Components : Holds(components, d)}}
    [] kind = "gcal"   -> {<<"event", "added">>}
    [] kind \in {"carddav", "gpeople"} -> {<<"card", "added">>}

\* What such a notification names: the collection, and the sender and subject of
\* a message a backend reads the envelope of, else the item.
Names(kind) ==
  CASE kind = "maildir" -> {"mailbox", "id"}
    [] kind \in (MailBackends \cup SeveralDomains) \ {"maildir"} -> {"mailbox", "envelope"}
    [] kind \in {"caldav", "gcal"} -> {"calendar", "id"}
    [] kind \in {"carddav", "gpeople"} -> {"addressbook", "id"}

\* dispatch and configure_local: a fresh account with one block.
Generated(kind, components) ==
  [backend     |-> kind,
   collections |-> {d \in {"message"} : kind \in SeveralDomains},
   hooks       |-> ArrivalHooks(kind, components),
   names       |-> [h \in ArrivalHooks(kind, components) |-> Names(kind)]]

=============================================================================
