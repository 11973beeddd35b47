----------------------------- MODULE Collection -----------------------------
(***************************************************************************)
(* A collection on a server, as the polling backends use one: members are  *)
(* created, edited and deleted by others at any time, every change takes   *)
(* the next revision, and a change feed answers what changed since a       *)
(* revision, as long as the server's history reaches that far.  A revision *)
(* is both the version (etag, changeKey) of the member it wrote and the    *)
(* token of an answer that reaches it.                                     *)
(***************************************************************************)
EXTENDS Integers

CONSTANTS
  Members,    \* the members the collection may hold
  MaxRev,     \* bound: the last revision of the collection
  Expires     \* the server forgets its history

ASSUME CollectionAssumption == MaxRev \in Nat \ {0} /\ Expires \in BOOLEAN

VARIABLES
  rev,        \* the revision of the last change
  server,     \* the version of each member
  lastmod,    \* the revision each member last changed at
  floor       \* the oldest token the server still answers from

srv == <<rev, server, lastmod, floor>>

Absent  == 0    \* the version of a member the collection does not hold
NoToken == 0    \* the token before any answer

Held == {m \in Members : server[m] # Absent}

Changed(from, to)  == {m \in Held : lastmod[m] \in from + 1 .. to}
Vanished(from, to) == {m \in Members \ Held : lastmod[m] \in from + 1 .. to}

Rejected(t) == t # NoToken /\ t < floor

CollectionInit ==
  /\ rev = 1 /\ floor = 0
  /\ server \in [Members -> {Absent, 1}] /\ lastmod = server

Write(m, version) ==
  /\ rev < MaxRev
  /\ rev' = rev + 1
  /\ server' = [server EXCEPT ![m] = version]
  /\ lastmod' = [lastmod EXCEPT ![m] = rev + 1]
  /\ UNCHANGED floor

Put    == \E m \in Members : Write(m, rev + 1)
Delete == \E m \in Held : Write(m, Absent)

Expire ==
  /\ Expires /\ floor < rev
  /\ floor' = rev
  /\ UNCHANGED <<rev, server, lastmod>>

CollectionTypeOK ==
  /\ rev \in 1 .. MaxRev /\ floor \in 0 .. rev
  /\ server \in [Members -> 0 .. rev] /\ lastmod \in [Members -> 0 .. rev]

=============================================================================
