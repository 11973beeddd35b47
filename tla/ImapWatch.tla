------------------------------ MODULE ImapWatch ------------------------------
(***************************************************************************)
(* The watch of an IMAP mailbox (src/src/imap.rs, the IMAP closure of      *)
(* watch_session in src/src/watch.rs, the runner of src/src/hook.rs).      *)
(*                                                                         *)
(* io-imap holds IDLE on a thread of its own and hands over deltas through *)
(* a channel, then an error or nothing when its connection ends.  The      *)
(* watch drains the channel one delta at a time: a delta becomes events,   *)
(* and an event whose hook is configured runs it, an arrival once its      *)
(* envelope was read over a second connection, opened on the first need    *)
(* and opened again once when a read over it fails.                        *)
(*                                                                         *)
(* The mailbox moves, either connection is lost, the server falls silent   *)
(* and Ctrl+C is pressed between any two of these steps.  EXAMINE and      *)
(* FETCH are one exchange here, and the order of the flags of a delta,     *)
(* which is that of their names, is any order.                             *)
(***************************************************************************)
EXTENDS HookTables, Naturals, Sequences

CONSTANTS
  Uids,       \* the messages, by UID, which IMAP never gives twice
  Flags,      \* the flags they may carry
  HookSets,   \* the hooks the account may have configured
  Filters,    \* the filters of its flag hooks
  MaxDeltas,  \* bound: the deltas of a session
  None        \* no flag, no envelope

ASSUME ConstantsAssumption ==
  /\ \A hooks \in HookSets : hooks \subseteq MailHooks
  /\ MaxDeltas \in Nat
  /\ None \notin Uids /\ None \notin Flags

VARIABLES
  shutdown,   \* the flag Ctrl+C sets
  hooks,      \* the hooks of the account
  filter,     \* the filter of its flag hooks
  held,       \* the mailbox: the messages it holds
  flags,      \* the mailbox: the flags each has, or had
  worker,     \* the thread of io-imap: "watching" or "gone"
  chan,       \* the channel between the two
  count,      \* bound: the deltas sent
  pc,         \* where the watch is
  todo,       \* the events of the delta in hand still to run
  event,      \* the event in hand
  conn,       \* Resolver::client: "none", "live" or "lost"
  again,      \* whether the envelope is asked for the second time
  fresh,      \* whether a connection was opened, or tried, for the event in hand
  envelope,   \* the message whose envelope was read for it, or None
  silent,     \* whether the server still answers the second connection
  taken,      \* history: the deltas taken from the channel
  ran         \* history: the hooks run, each with the delta it is of

mailbox == <<held, flags>>
stream  == <<worker, chan, count>>
second  == <<conn, again, fresh, envelope>>
config  == <<hooks, filter>>
history == <<taken, ran>>
vars == <<shutdown, config, mailbox, stream, pc, todo, event, second, silent, history>>

Delta == [change : MailChanges, uid : Uids, flags : SUBSET Flags]
Event == [change : MailChanges, uid : Uids, flag : Flags \cup {None}]

-----------------------------------------------------------------------------
(* From a delta to the hooks it runs *)

\* A mistake: one event for a delta, whatever flags moved.
TranslateOnce(d) ==
  {[change |-> d.change, uid |-> d.uid,
    flag |-> IF d.flags = {} THEN None ELSE CHOOSE flag \in d.flags : TRUE]}

\* A delta of several flags is one event for each.
Translate(d) ==
  IF d.change \in FlagChanges
    THEN {[change |-> d.change, uid |-> d.uid, flag |-> flag] : flag \in d.flags}
    ELSE {[change |-> d.change, uid |-> d.uid, flag |-> None]}

\* The hook of an event is configured, and its filter lets the flag through.
Hooked(e) ==
  /\ \E h \in hooks : Calls("imap", <<"message", e.change>>, h)
  /\ e.change \in FlagChanges => LetsThrough(filter, e.flag)

-----------------------------------------------------------------------------
(* The drain *)

\* The loop head looks at the flag before every receive.
Drain ==
  /\ pc = "head"
  /\ pc' = IF shutdown THEN "closing" ELSE "receive"
  /\ UNCHANGED <<shutdown, config, mailbox, stream, todo, event, second, silent,
                 history>>

Receive ==
  /\ pc = "receive" /\ chan # <<>> /\ Head(chan) \in Delta
  /\ chan' = Tail(chan)
  /\ todo' = Translate(Head(chan))
  /\ taken' = Append(taken, Head(chan))
  /\ pc' = "events"
  /\ UNCHANGED <<shutdown, config, mailbox, worker, count, event, second, silent,
                 ran>>

\* The error the session ends on.
ReceiveError ==
  /\ pc = "receive" /\ chan # <<>> /\ Head(chan) \notin Delta
  /\ chan' = Tail(chan)
  /\ pc' = "closing"
  /\ UNCHANGED <<shutdown, config, mailbox, worker, count, todo, event, second,
                 silent, history>>

TimeOut ==
  /\ pc = "receive" /\ chan = <<>> /\ worker = "watching"
  /\ pc' = "head"
  /\ UNCHANGED <<shutdown, config, mailbox, stream, todo, event, second, silent,
                 history>>

Disconnected ==
  /\ pc = "receive" /\ chan = <<>> /\ worker = "gone"
  /\ pc' = "closing"
  /\ UNCHANGED <<shutdown, config, mailbox, stream, todo, event, second, silent,
                 history>>

\* Closing the stream waits for its thread.
Close ==
  /\ pc = "closing"
  /\ pc' = "over"
  /\ worker' = "gone"
  /\ UNCHANGED <<shutdown, config, mailbox, chan, count, todo, event, second,
                 silent, history>>

-----------------------------------------------------------------------------
(* The events of a delta *)

EventsDone ==
  /\ pc = "events" /\ todo = {}
  /\ pc' = "head"
  /\ UNCHANGED <<shutdown, config, mailbox, stream, todo, event, second, silent,
                 history>>

\* The closure of watch_session, and run_flag_hook's filter: an arrival is
\* resolved, and only where a hook wants it.
Dispatch ==
  /\ pc = "events"
  /\ \E e \in todo :
       /\ todo' = todo \ {e}
       /\ event' = e
       /\ pc' = IF ~Hooked(e) THEN "events"
                ELSE IF e.change = "added" THEN "fetch"
                ELSE "hook"
  /\ again' = FALSE /\ fresh' = FALSE /\ envelope' = None
  /\ UNCHANGED <<shutdown, config, mailbox, stream, conn, silent, history>>

\* The notification of the hook and then its command, either of which may fail
\* and neither of which stops the other or the watch.
RunHook ==
  /\ pc = "hook"
  /\ ran' = Append(ran, [nth |-> Len(taken), event |-> event])
  /\ pc' = "events"
  /\ UNCHANGED <<shutdown, config, mailbox, stream, todo, event, second, silent,
                 taken>>

-----------------------------------------------------------------------------
(* The envelope of an arrival: Resolver::summary, ::fetch and pump *)

\* The first thing a fetch does: a connection, unless there is one.
Fetch ==
  /\ pc = "fetch"
  /\ pc' = IF conn = "none" THEN "open" ELSE "read"
  /\ UNCHANGED <<shutdown, config, mailbox, stream, todo, event, second, silent,
                 history>>

\* A mistake: a second try over the connection that failed.
FetchFailsKept ==
  /\ IF shutdown \/ again
       THEN pc' = "hook" /\ again' = again
       ELSE pc' = "fetch" /\ again' = TRUE
  /\ UNCHANGED <<conn, fresh, envelope>>

\* What a fetch that failed leads to: another over a new connection, or a hook run
\* without an envelope.
FetchFails ==
  /\ IF shutdown \/ again
       THEN pc' = "hook" /\ UNCHANGED <<again, conn>>
       ELSE pc' = "fetch" /\ again' = TRUE /\ conn' = "none"
  /\ UNCHANGED <<fresh, envelope>>

Open ==
  /\ pc = "open" /\ ~silent
  /\ pc' = "read"
  /\ conn' = "live" /\ fresh' = TRUE
  /\ UNCHANGED <<shutdown, config, mailbox, stream, todo, event, again, envelope,
                 silent, history>>

\* A server that cannot be reached, at either try.
OpenFails ==
  /\ pc = "open"
  /\ IF shutdown \/ again
       THEN pc' = "hook" /\ again' = again
       ELSE pc' = "fetch" /\ again' = TRUE
  /\ fresh' = TRUE
  /\ UNCHANGED <<shutdown, config, mailbox, stream, todo, event, conn, envelope,
                 silent, history>>

Answered ==
  /\ pc = "read" /\ conn = "live" /\ ~silent /\ event.uid \in held
  /\ pc' = "hook"
  /\ envelope' = event.uid
  /\ UNCHANGED <<shutdown, config, mailbox, stream, todo, event, conn, again, fresh,
                 silent, history>>

\* Nothing is answered for a message gone from the mailbox.
NotFound ==
  /\ pc = "read" /\ conn = "live" /\ ~silent /\ event.uid \notin held
  /\ FetchFails
  /\ UNCHANGED <<shutdown, config, mailbox, stream, todo, event, silent, history>>

Broken ==
  /\ pc = "read" /\ conn = "lost"
  /\ FetchFails
  /\ UNCHANGED <<shutdown, config, mailbox, stream, todo, event, silent, history>>

\* A mistake: a read waiting for its answer whatever the flag says.
InterruptedNever == FALSE /\ UNCHANGED vars

\* The deadline of a read is another look at the flag.
Interrupted ==
  /\ pc = "read" /\ shutdown
  /\ FetchFails
  /\ UNCHANGED <<shutdown, config, mailbox, stream, todo, event, silent, history>>

-----------------------------------------------------------------------------
(* The server, io-imap and the user *)

Sends(d) ==
  /\ worker = "watching" /\ count < MaxDeltas
  /\ chan' = Append(chan, d)
  /\ count' = count + 1
  /\ worker' = worker

Arrive ==
  /\ \E u \in Uids \ held, fs \in {{}, Flags} :
       /\ flags[u] = None
       /\ held' = held \cup {u}
       /\ flags' = [flags EXCEPT ![u] = fs]
       /\ Sends([change |-> "added", uid |-> u, flags |-> {}])
  /\ UNCHANGED <<shutdown, config, pc, todo, event, second, silent, history>>

Expunge ==
  /\ \E u \in held :
       /\ held' = held \ {u}
       /\ \/ Sends([change |-> "removed", uid |-> u, flags |-> {}])
          \/ worker = "gone" /\ UNCHANGED stream
  /\ UNCHANGED <<shutdown, config, flags, pc, todo, event, second, silent, history>>

\* Flags set or cleared at once, a delta naming each of them.
MoveFlags ==
  /\ \E u \in held, moved \in SUBSET Flags \ {{}} :
       \/ /\ moved \cap flags[u] = {}
          /\ flags' = [flags EXCEPT ![u] = @ \cup moved]
          /\ Sends([change |-> "flagAdded", uid |-> u, flags |-> moved])
       \/ /\ moved \subseteq flags[u]
          /\ flags' = [flags EXCEPT ![u] = @ \ moved]
          /\ Sends([change |-> "flagRemoved", uid |-> u, flags |-> moved])
  /\ UNCHANGED <<shutdown, config, held, pc, todo, event, second, silent, history>>

\* The watch connection ends, with an error or without a word.
WorkerEnds ==
  /\ worker = "watching"
  /\ worker' = "gone"
  /\ chan' \in {chan, Append(chan, None)}
  /\ UNCHANGED <<shutdown, config, mailbox, count, pc, todo, event, second, silent,
                 history>>

LoseSecond ==
  /\ conn = "live"
  /\ conn' = "lost"
  /\ UNCHANGED <<shutdown, config, mailbox, stream, pc, todo, event, again, fresh,
                 envelope, silent, history>>

FallSilent ==
  /\ ~silent
  /\ silent' = TRUE
  /\ UNCHANGED <<shutdown, config, mailbox, stream, pc, todo, event, second, history>>

RequestShutdown ==
  /\ ~shutdown
  /\ shutdown' = TRUE
  /\ UNCHANGED <<config, mailbox, stream, pc, todo, event, second, silent, history>>

-----------------------------------------------------------------------------
\* The configuration as the loader accepted it, the arrivals of its hooks naming
\* envelopes.
Loaded ==
  [backend |-> "imap", collections |-> {}, hooks |-> hooks,
   names |-> [h \in hooks |->
                IF h = <<"message", "added">> THEN {"id", "envelope"} ELSE {"id"}]]

Init ==
  /\ shutdown = FALSE
  /\ hooks \in HookSets /\ filter \in Filters
  /\ Accepted(Loaded)
  /\ held \in SUBSET Uids
  /\ flags = [u \in Uids |-> IF u \in held THEN {} ELSE None]
  /\ worker = "watching" /\ chan = <<>> /\ count = 0
  /\ pc = "head" /\ todo = {} /\ event = None
  /\ conn = "none" /\ again = FALSE /\ fresh = FALSE /\ envelope = None
  /\ silent = FALSE
  /\ taken = <<>> /\ ran = <<>>

\* What the watch does of its own.
Watch ==
  \/ Drain \/ Receive \/ ReceiveError \/ TimeOut \/ Disconnected \/ Close
  \/ EventsDone \/ Dispatch \/ RunHook
  \/ Fetch \/ Open \/ Answered \/ NotFound \/ Broken \/ Interrupted

Others ==
  \/ OpenFails \/ Arrive \/ Expunge \/ MoveFlags \/ WorkerEnds \/ LoseSecond
  \/ FallSilent \/ RequestShutdown

Next == Watch \/ Others

\* The watch runs, a hook ends, and a server that is not silent answers.  Nothing
\* says how long a connection is opened for to a server that is.
Fairness == WF_vars(Watch)

Spec == Init /\ [][Next]_vars /\ Fairness

-----------------------------------------------------------------------------
(* What the watch promises *)

\* The delta in hand, and the events of it already dealt with.
InHand == pc \notin {"head", "receive", "closing", "over"}

\* What a delta says of one event: that its message, or one of its flags, moved so.
Tells(d, e) ==
  /\ e.uid = d.uid /\ e.change = d.change
  /\ IF e.change \in FlagChanges THEN e.flag \in d.flags ELSE e.flag = None

\* Every hook the changes of a session call for runs, once, delta by delta in the
\* order the server told them: whatever became of the envelope, of the
\* notification, of the connection the envelope is read over, and of Ctrl+C while
\* it was; and a session that ends of its own leaves no change unread (drain,
\* translate, Resolver::summary, fire_with).
EveryChangeRunsItsHook ==
  /\ \A i, j \in DOMAIN ran : i < j => /\ ran[i].nth <= ran[j].nth
                                       /\ ran[i] # ran[j]
  /\ \A n \in DOMAIN taken :
       n < Len(taken) \/ ~InHand =>
         {r.event : r \in {ran[i] : i \in {k \in DOMAIN ran : ran[k].nth = n}}}
           = {e \in Event : Tells(taken[n], e) /\ Hooked(e)}
  /\ pc = "over" /\ ~shutdown => chan = <<>>

\* A connection that was open before the arrival never costs it its envelope: an
\* arrival goes without one only after a connection opened for it failed as well,
\* or because the watch stops ("reconnecting once when the session turns out to be
\* dead", Resolver::summary).
OldSessionCostsNothing ==
  pc = "hook" /\ event.change = "added" /\ envelope = None => fresh \/ shutdown

\* Ctrl+C ends the watch, silent server or not, unless it is opening a connection
\* to one: "so a silent server cannot hold a Ctrl+C" (Resolver, pump, drain).
CtrlCEndsTheWatch ==
  []~shutdown \/ <>[](pc = "over" \/ (pc = "open" /\ silent))

=============================================================================
