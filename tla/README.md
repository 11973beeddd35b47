# Carillon in TLA+

Specifications of [carillon](../src/README.md), a daemon that watches mailboxes,
address books and calendars and runs hooks on what changes. They model the parts
of it that are hard to test (threads and their shutdown, a wall clock, servers
that move between two requests, rounds that fail half way), check them with TLC
on small instances, and prove the central ones with TLAPS for every value of
their constants.

Paths below are relative to the repository (`src/alarm.rs` is
[`../src/src/alarm.rs`](../src/src/alarm.rs)). `PROJECT.json` maps each
definition to the lines it stands for, and lists the runs, the mistakes each
property was seen to catch, the hazards and the theorems.

## 1. The system

`carillon watch` starts one thread per account (`src/watch.rs`). Each opens a
session with its backend and stays in it: a **baseline** of the collection, which
reports nothing, then a **round** whenever the interval is over or the server
pushes something. A round reports events (item added, changed, removed, flag
added, removed) to the account's hooks, which run on that thread, one after
another. A session that is lost is reopened after a capped backoff. An account
with alarms has an alarm thread beside it, which fires the `VALARM`s of its
calendar at their time. Ctrl+C sets one flag every thread reads, and rings the
alarm threads, which may be sleeping until a deadline hours away.

### Components

| Component | State | Operations | Hard behaviours | What makes it correct |
|---|---|---|---|---|
| Supervisor, `watch.rs` | shutdown flag, wakers left by the alarm threads, a backoff per account, join handles | start the accounts, open a session, ensure an alarm thread, lose a session, back off, join, handle Ctrl+C | Ctrl+C racing the start of an alarm thread; a session failing between leaving a waker and starting its thread; an account that cannot be started; calls without a deadline; rings that fail | Ctrl+C ends the command once calls return; no ring that is left is missed, no thread doubled, none left by a command that ends well; a refusing server is asked ever less often |
| Alarm thread, `alarm.rs` | the book under a mutex, the queue, the firings fired, a latched waker, the wall clock | build or keep the queue, fire, wait, change the book, ring | changes and rings between a pass and its wait; rings that fail; suspends; a clock set back; rebuilds that must neither repeat nor forget | each firing once, but as often as the clock was set back; none before the start, none slept past, none lost at a rebuild |
| Alarm book, `alarm.rs` | for each item, the alarms its body holds | read a body, forget an item | bodies that do not parse, or hold an alarm no more; bodies read later than the change that names them | what the watch last read of each item and nothing older |
| WebDAV watch, `dav.rs` | picture (etag per member), sync token, listing mode, what moved, alarm book | enumerate, list, sync, rebase, retry, read and refresh bodies | the collection moving between requests; truncation; a refused token; failures part way; bodies read later than the reports naming them | picture and book are the collection's as of the token; an event reports what happened |
| Picture, `picture.rs` | an item (flags, version) per id | touch, remove, rebase | the same change heard twice, a version moving with or without flags | the events alone tell the picture |
| Google Calendar, Google People, Microsoft Graph, `gcal.rs`, `gpeople.rs`, `msgraph.rs` | picture, token or delta link | list, apply a feed, list again on expiry, retry | pages read while the feed moves; expiry in the middle of a round | no change lost, no ghost kept, a gap never told as a wave of news |
| JMAP watch, `jmap.rs` | picture and state per collection, an event stream | baseline, /changes, /get, subscribe, retry | two requests per round and per baseline; changes while no stream is open | the picture is the collection as of the state; a failed round reports nothing |
| Gmail watch, `gmail.rs` | a history cursor, no picture | read history records page by page, resume when forgotten | pages cut short, a forgotten cursor, several labels moving in one record | each record told once, and what is told is what the label holds |
| Maildir watch, `maildir.rs` | the last listing | list, diff | files renamed under a listing; a listing that fails | what is told is what the last whole listing read |
| pimdir follower, `pimdir.rs` | a change cursor, an alarm book | load, follow in pages | the store's owner committing, purging, moving and resetting between two reads | the book is what the store says as of the cursor |
| IMAP watch, `imap.rs` | the channel of deltas io-imap fills, a second connection for envelopes | drain, translate a delta, fetch an envelope | the second connection dead or silent since an earlier arrival; the watch connection lost with deltas still unread | every change runs its hooks once and in order; a dead connection costs no envelope; Ctrl+C ends the watch |
| Hook tables, `config.rs`, `event.rs` | the hooks configured, the collections watched | find the hook of an event, refuse what cannot fire | tables, loader and sessions are written apart and must agree | no hook that loads stays quiet; what it names is filled |
| Hook dispatch, `hook.rs` | none | filter a flag, fill variables, notify, run a command | a slow hook holds up what follows; flags spelt as each backend spells them | one filter fires on every backend |
| Command line, check, `cli.rs`, `check.rs`, `backend.rs` | none that outlives a command | pick the blocks a command uses, load the file, raise the offer | a watch and a check pick blocks in code of their own | a check speaks of what a watch will do |
| Wizard, `wizard/` | the configuration file, and what was read of it | search services, offer mechanisms, generate an account, save or append it | the file written by others while `configure` prompts; an account generated by one file must suit what three others accept | an account is only ever added, loads, and its hooks fire |

They meet in few places: an account thread calls its backend and the backend
calls hooks back through `on_event`; `dav.rs` and `pimdir.rs` change the alarm
book through `AlarmShared`, whose ring wakes the alarm thread; every loop reads
the shutdown flag, at its head or inside `poll::sleep`.

The hazards, each with its line and the properties that would catch it going
wrong, are listed under `hazards` in `PROJECT.json`.

## 2. Modules

| Module | Models | Composition |
|---|---|---|
| `Firings` | what the alarms of a calendar promise, whatever thread and queue it takes | implemented by `AlarmThread` |
| `AlarmThread` | the alarm thread, its book, its waker, the clock, the Ctrl+C handler | three processes and the clock, interleaved; instantiates `Firings` as its `Promise` |
| `AlarmBook` | what the book holds of an item once its body was read | extended by `DavWatch`, `PimdirFollow` |
| `Supervisor` | account threads, alarm threads, handler, main thread | a session and an alarm pass are opaque |
| `Collection` | a collection on a server: revisions, change feed, history that expires | extended by `DavWatch`, `TokenPoll`, `JmapWatch` |
| `DavWatch` | the WebDAV watch and its alarm book | extends `Collection`, `AlarmBook` |
| `Picture` | `touch`, `remove`, `rebase` and their events, as pure operators | extended by `PictureHooks` |
| `PictureHooks` | a picture under any sequence of calls, and a mirror kept from the events alone | extends `Picture` |
| `TokenPoll` | the four vendor feeds | extends `Collection` |
| `PimdirFollow` | the pimdir follower and the store's owner | extends `AlarmBook` |
| `JmapWatch` | the JMAP watch, polled and pushed | extends `Collection` |
| `GmailHistory` | the Gmail watch, and what hooks make of it | stands alone |
| `MaildirPoll` | the Maildir watch, and what hooks make of it | stands alone |
| `HookTables` | which hooks load, which event calls which, what a hook is given to name, as pure operators | extended by `ImapWatch`, `Wizard` |
| `ImapWatch` | the IMAP watch: the drain, the events of a delta, the hooks they run, the envelopes read over a second connection | extends `HookTables` |
| `Selection` | which blocks of an account a watch and a check use, as pure operators | extended by `Wizard` |
| `Wizard` | what the wizard lists, offers and generates, as pure operators | extends `HookTables`, `Selection` |
| `Configure` | the configuration file, `load_config`, the offer, `configure`, in several shells at once | stands alone |
| `MC*` | the instances TLC checks, one per module | extend the module |
| `*_proofs` | the theorems | extend the modules they are about and `TLAPS`: `HookTables_proofs` `ImapWatch`, `Wizard` and so `HookTables` and `Selection`, with `Configure` as its instance `C`; `PictureHooks_proofs` `PictureHooks` and `GmailHistory`; `Supervisor_proofs` `Supervisor` and `MaildirPoll`; each of the others its own |

Each module names its actions for the function or the step of it they stand for.
Wherever the code makes a request or takes a lock, an action ends: anything
another thread or a server may do in between is another process's action.
Everything one function does between two such points is one action. A variable
marked *history* in its comment is read by properties only, never by a guard.
Definitions under a comment beginning "A mistake" are wrong on purpose: none is
used by a specification; each stands for a plausible bug, and TLC finds some
property violated when it takes the place of the definition it resembles. The
specifications of `PictureHooks` and `MaildirPoll` are called `PictureSpec` and
`MaildirSpec`, and `pc` and `shutdown` are `doing` and `interrupted` in the latter,
so that one module of proofs can extend either beside another module.

### How states and actions correspond to the code

* **AlarmThread.** `queue`, `fired`, `builtAt` and `started` are the fields of
  `AlarmQueue`; `due` and `wake` are those of the `AlarmPass` in hand; `latch` is
  the waker of the ceichas timer, which keeps a ring nobody has waited for yet.
  Either ring may fail, which the code logs: `unheard` says that the one of a change
  did and that no pass has rebuilt the queue since.
  `Check` reads the flag and then the clock, as `run` does before it locks the
  book, so `at` may be stale by the time of the pass. `PassKeep` and
  `PassRebuild` are the two branches of `AlarmQueue::pass`, sorting included.
  `Change` and `Ring` are the two steps of `AlarmShared::replace` and `update`;
  `RequestShutdown` and `RingShutdown` those of the handler. A firing is an item
  and a trigger; an item of the model may be several alarms of one event.
  `SetBack` is a user or a time daemon setting the clock back; `setBacks`, `readIn`
  and `builtIn` only count how often, for the properties.
* **Firings.** `Change` and the clock are the environment's; `Sort` is a pass, the
  branch it takes left open, and `Fire` one hook. `AlarmThread` maps `held` to its
  book, `ahead` to its queue and `dropped` to the firings its log names, and
  `behind` says that the queue was last built before the clock was set back.
* **AlarmBook.** `Entry` is `AlarmBook::read`: the entry goes first, and comes back
  only when some UID of the body has an alarm. A body is the version of the item it
  belongs to; the instances give four, one of which does not parse and one of which
  holds no alarm, and `Wanted` says beside the code what each should come to.
* **Supervisor.** `MainSpawns` starts one account thread, while those before it run
  and the handler is in place already; `SpawnFails` is the `?` of `execute` behind it,
  which leaves whatever was started. `EnsureWaker` and `EnsureSpawn` are the two steps
  of `AlarmRunner::ensure`, and the session may fail at either. A session is then in
  a call without a deadline (`call`: a connection being opened, its handshake
  included, a hook or a credential command) or waits with one (`session`), by turns.
  `HandlerRings` rings the wakers left by then; any ring may fail, and `unrung` are
  those that did. `left` counts steps of `sleep_backoff`.
* **Collection.** A revision is at once the etag or changeKey of the member it
  wrote and the token of an answer that reaches it. `Expire` moves `floor`, below
  which a token is refused.
* **DavWatch.** One action per report or listing (`EnumPage`, `List`, `Sync`),
  then `Rebase`, which applies the enumeration, `ReadAlarms` and `Refresh`, which
  read bodies as they stand by then. `moved` lives across the second run of a
  round as the closure's `moved` does. `skipped` are the new members of a mixed
  calendar whose content type could not be read.
* **TokenPoll.** `Page` reads one page and `Armed`, `Relisted` and `Applies` the
  last one, with what the code then does to the picture. The three vendors differ
  only by `feed`, chosen in the initial state, and the comment of the module says
  what each of its four values means: Graph has three, as its contacts carry no
  version (`Kept`). Which members a page names beside those it owes is the server's.
* **JmapWatch.** `Baseline` and `ReadState`, `Changes` and `Fetch` are two
  requests each. `mail` and `push` are chosen in the initial state: what a
  collection holds and whether the account is pushed do not change.
* **PimdirFollow.** Each read of the store is an action, as the follower takes no
  lock; `Write`, `Delete`, `Purge`, `MoveCollection` and `Reset` are the owner's.
  `Noted` is what `replace` or `update` leaves in the book for an item.
* **GmailHistory** and **MaildirPoll** keep no picture or compare listings; `told`
  is what a hook knows from the events it heard.
* **HookTables.** A configuration is a record: its backend, the domains it has a
  collection for, its hooks, and the names each hook's notification expands.
  `Accepted` is what `AccountConfig::validate` lets through; `Calls` is the `get`
  of the tables; `Reports` is what the sessions of `watch_session` hand to it. The
  eight names of an envelope count as one, and so do the ten of an alarm.
* **ImapWatch.** `chan` is the channel io-imap's thread (`worker`) fills and `drain`
  empties, `todo` the events `translate` makes of the delta in hand. `Dispatch` is
  the closure of `watch_session`, `RunHook` is `hook::run`, and `Fetch` to
  `Interrupted` are `Resolver::summary` and the reads of `pump`. EXAMINE and FETCH
  are one exchange. The server, io-imap and the mailbox are the other process.
* **Selection.** A branch of `watch_session` either `Returns` or falls through to
  the next; `Watches` is the branch that opened a session. `Checks` is the blocks a
  check opens.
* **Wizard.** A service found is a record and a choice is any member of what is
  offered; `Generated` is a configuration of `HookTables`, so that `Accepted`,
  `Opens`, `Reports` and `Calls` apply to it as they do to one written by hand.
* **Configure.** One shell runs one command at a time; `command` and `options` say
  which, and how its terminal stands. A step ends at each read of the file, prompt
  and write. `existing` is `ExistingConfig` as it was read; `stale` are the shells
  whose reading somebody else's write has overtaken. The file is one path, and an
  account of it a name, whether it claims the default, and whether the loader takes
  it.

## 3. What is checked

`tlc -config X.cfg MCmodule` for each run. A failing request, a lost session, a
write by others and Ctrl+C may come at any point, in every run that has them.

| Run | Instance | Shows |
|---|---|---|
| `Alarm` | one item, triggers 1 and 4, horizon 4, grace 1, clock to 4 by 1 or 3, set back once | types; a firing meets its end once, or once more for each time the clock was set back; none before the start; none slept past; the thread implements `Firings`; Ctrl+C ends the thread with the clock standing still, unless its ring fails; on a machine that stays awake an alarm the calendar keeps fires |
| `Supervisor` | two accounts with alarms, backoff 2 to 3 steps | types; no ring missed that was left; no thread doubled, and none left where every account could be started; backoff shrinks only after a session that got to its server; Ctrl+C ends the command as long as calls return and rings do not fail; a lost session is reopened |
| `Dav` | two members of a mixed calendar, four revisions, bodies with an alarm, without one and unreadable | types; picture and book are what the token says; events are true; the picture catches up |
| `Picture` | two items, two flags, two versions, mail or not | the mirror follows; one item has one story; the same listing is silent |
| `Token` | two members, three revisions, the four feeds | picture is what the token says; only news is told, but of contacts a round names; the picture catches up |
| `Pimdir` | two items, three collections, pages of two, three commits, one reset | types; the book is what the cursor says; a moved calendar is read again; the book catches up |
| `Jmap` | two items, one keyword, three revisions, mail or not, polled or pushed | picture is what the state says; mail hooks hear of what moves; the picture catches up |
| `Gmail` | one message, three labels, three records | what is told is what the label holds; nothing twice; the history is read to its end |
| `Maildir` | two messages, two flags, three moves | what is told is the last whole listing; the mailbox is told in the end |
| `Imap` | two messages, two flags, two deltas, all hooks or all but those of arrivals, no filter or one | every change runs the hooks it calls for, once and in order; a connection gone dead costs no arrival its envelope; Ctrl+C ends the watch |
| `DavTokenAhead` | two members of a mixed calendar, four revisions | *violated*: see section 6 |
| `JmapArmGap` | two items, two revisions | *violated*: see section 6 |

### Bounds, and why they are enough

Every bound is a constant declared as such, in the guard of the action that would
cross it. Two members are the fewest that tell "this one moved" from "another one
did", and that let one page or report name the one and not the other. The
revisions leave a change for the baseline, one between two requests of a round
and, for WebDAV, whose rounds drain truncated reports, one more. In `Alarm` one
trigger lies inside the first horizon and one just past it; the long jump of the
clock is longer than grace, so that firings come due, late, and too late, the
horizon halved is short enough for a queue to be rebuilt with no ring and long
enough for a ring that is missed to cost a firing, and the one setting back may
take the clock behind a firing already fired, kept or pruned. In `Supervisor` the
ceiling is one doubling away, so that the backoff is capped, and two accounts are
what a join can wait for one of, and the fewest of which one starts and the other
cannot.
In `Pimdir` a page holds two rows and both items fill it, so that a full page is
followed by an empty one; three commits suffice to write, delete and move behind
a page, or to move the two other collections ahead of the calendar. `Gmail`'s three
records make rounds of one page and of several. `Imap`'s two deltas are the fewest
by which an arrival finds the connection an earlier one opened, and two flags make a
delta of several events. Each of
the 40 properties was also run against a definition changed the way a bug would
change it, and found violated within the same bounds: none holds because its
case never arises.

Symmetry is used in `Picture` and the two violated runs only, which check no
liveness.

Deadlock is not checked where the modelled command stops: after Ctrl+C every
thread ends.

### Fairness, and why the code justifies it

* Threads run: weak fairness on the thread's own steps, since nothing they do
  between two waits blocks but on a mutex held for a few instructions, on a
  request (which answers, fails or times out) or on a hook.
* What has no deadline has no fairness in `Supervisor`: a connection being opened, a
  hook, a credential command, a pass of the alarm thread. `ShutdownEnds` assumes,
  as `CallsReturn`, that no account and no alarm thread is stuck in one for ever, and
  section 6 says where that parts from the repository's own specification. Noticing
  the flag at a deadline (`SessionNotices`) is strongly fair, since a session may go
  from call to call and wait between them: each wait ends within a second and reads
  the flag, and a round has only so many hooks. That a ring does not fail is the
  other assumption of `ShutdownEnds`.
* Nothing makes others write, sessions fail, users press Ctrl+C, tokens expire,
  or servers fall silent: these have no fairness. In `Alarm` time passes, as
  `TimePasses`, until a shutdown: from then on the clock may stand, and Ctrl+C
  must end the thread all the same. `HeldFiringFires` excuses, by `overslept`, a
  machine suspended or overloaded past the grace window.
* `Imap` is fair to the watch, which includes a read over the second connection:
  each ends at a deadline and looks at the flag again. Opening that connection to
  a silent server has no fairness, since how long `ImapClientStd::connect` may
  block is not decided in this repository.
* The catch-up properties assume, as `Answers`, that from some point on requests
  stop failing: a reading of several pages that is always cut short gets nowhere,
  in the code as in the model. A refused token is no such failure, and the
  properties hold with refusals at any point. `Dav` adds that listings are whole
  from then on, `Jmap` that streams stay open.
* A session opened again is a fair step of `Supervisor`: `Reopens` is about the
  backoff, whatever the other accounts do and whatever call they are stuck in, until
  the command ends.

## 4. What is proved

For every value of the constants that meets the named `ASSUME`s of the module:

| Module | Theorem | Of |
|---|---|---|
| `AlarmThread_proofs` | `TypeCorrect` | `TypeOK` |
| | `FiresAtMostOnce` | `NeverTwice` |
| | `FiresNothingBeforeStart` | `NothingBeforeStart` |
| | `NeverSleepsPast` | `SleepsPastNoFiring` |
| | `KeepsThePromise` | `KeepsPromise`, the refinement of `Firings` |
| `Supervisor_proofs` | `TypeCorrect` | `TypeOK` |
| | `RingIsNeverMissed` | `NoMissedRing` |
| | `EveryThreadIsJoined` | `NoThreadLeft` |
| | `StartsOneAlarmThread` | `OneAlarmThread` |
| | `BackoffOnlyGrows` | `BacksOff` |
| | `TellsWhatItListed` | `ToldIsListed` of `MaildirPoll` |
| `PictureHooks_proofs` | `EventsTellThePicture` | `MirrorFollows` |
| | `ItemsHaveOneStory` | `OneStory` |
| | `SameListingReportsNothing` | `RebaseIsQuiet` |
| | `GmailMirrorIsCurrent` | `ToldIsCurrent` of `GmailHistory` |
| | `GmailToldOnce` | `ToldOnce` of `GmailHistory` |
| `HookTables_proofs` | `NoHookStaysQuiet` | *(no run: pure)* |
| | `NamesAreFilled` | |
| | `BareNameFiresEverywhere` | |
| | `CheckSpeaksOfTheWatch`, `ListFollowsPriority`, `ImapsIsFound`, `FoldingLosesNoMethod`, `ThereIsAWayIn`, `GeneratedAccountLoads`, `GeneratedHooksFire`, `GeneratedIsWatched` | |
| | `WizardAddsAnAccount`, `WizardKeepsOneDefault`, `OfferIsWorthAccepting` | *(of `Configure`, no run)* |
| | `OldSessionIsOpenedAgain` | `OldSessionCostsNothing` of `ImapWatch` |
| | `HooksRunOnce` | `EveryChangeRunsItsHook` of `ImapWatch` |
| `TokenPoll_proofs` | `PictureIsCurrent` | `KnownIsCurrent` |
| | `ReportsAreNews` | `EventsAreNews` |
| `JmapWatch_proofs` | `PictureIsCurrent` | `KnownIsCurrent` |
| | `ReportsTheMoves` | `ReportsWhatMoves` |
| `DavWatch_proofs` | `Types` | `TypeOK` |
| | `PictureIsCurrent` | `KnownIsCurrent` |
| | `BookFollowsThePicture` | `BookIsCurrent` |
| | `EventsHappened` | `EventsAreTrue` |
| `PimdirFollow_proofs` | `PimdirTyped` | `TypeOK` |
| | `FollowedBookIsCurrent` | `BookIsCurrent` |
| | `CalendarIsChecked` | `KindIsChecked` |

**The alarm thread.** That no firing fires twice is not inductive: it needs to be
known that what is queued has not fired, and that what fired is in `fired` or too
old for any window to come. A clock set back undoes the second part, as firings are
pruned by the wall clock. So the invariant (`IInv`) counts: a firing was sorted out
of a queue no oftener than the clock had been set back when the queue was built, and
once more if it is still remembered or out of the window. Two instants are compared
only when the clock was not set back between them, which `readIn` and `builtIn`
tell. `SleepsPastNoFiring` adds that with no ring pending the queue is what the book
gave, up to what was sorted out. `KeepsThePromise` then takes each step to one of
`Firings`: a pass to `Sort`, whose conditions are what the invariant says of the
queue, and every other step to `Change`, `Advance`, `Retreat`, `Fire` or none. The
assumptions are that instants are naturals and the horizon is positive.

**The supervisor.** That the handler's ring is missed by nobody rests on an order
the code keeps in two places: the flag is set before the wakers are rung, and a
waker is left before its thread first reads the flag. The invariant relates where
each alarm thread is to the handler's place: a thread past its loop head when the
handler has rung holds a latched ring, or the ring failed. That no thread
is left rests on `main`: it is past the joins only once every account thread was
started and has ended, each with its alarm thread joined; a command that could not
start them all is `failed`, and promises nothing. The backoff bounds need the floor
to be positive and no higher than the ceiling.

**The picture.** One lemma per call says what its events tell of each id; then one
step, common to the three, shows that a mirror applying those events holds the
same ids, the same flags of mail and the same versions of the rest. The invariant
is that agreement together with the types the lemmas need. No finiteness of ids
or flags is assumed.

**The hook tables.** No state, but three files that must agree. `NoHookStaysQuiet`
takes any configuration the loader accepts and any answer of a calendar server
that lets the session open, and shows for each hook an event the session reports
and the `get` of its table answers with it; `NamesAreFilled` that each name of a
notification that loads is filled by whatever event calls its hook;
`BareNameFiresEverywhere` that a filter naming a system flag without its backslash
lets it through as each backend spells it. They assume that collections are of
the domains the configuration has keys for (`IsConfig`), and the first one that a
calendar with hooks on both events and tasks names the components of its members:
section 6 says why.

**The vendor feeds.** `KnownIsCurrent` speaks of a picture between two readings; a
reading takes several pages, each answered at another revision. The invariant
(`Read`) says what the pages read so far amount to: every row was read since the
reading began, the last row of a member not written since it was read stands, and
every row of one not written since the reading began is the member as it is. It is
enough that `began` is no earlier than the token. What is compared is what the
picture keeps of a member (`Kept`), which of a contact is only that it is there; that
it tells a member held from one that is not (`KeptIsHeld`) is all the proof needs of
it. One lemma says so of
a listing and one of a round: each leaves the picture what the collection holds as
of the token handed back. The members a delta baseline keeps after a
later page took them back are the history variable `ghosts`.

**JMAP.** Between `/changes` and `/get` the invariant (`Named`) says what is named:
everything written since the state and up to the target, each as read or destroyed
according to whether it still stands, nothing written before. The answer of `/get`
is then read at whatever revision it comes, as an item written since is not of the
revisions `KnownIsCurrent` speaks of. `ReportsTheMoves` follows from what
`Reconciled` says of two contents: it is empty exactly when they are equal.

**Maildir.** One lemma: a hook that held the flags of one listing, and follows the
events of the difference, holds those of the next.

**The wizard and the commands.** `CheckSpeaksOfTheWatch` takes any set of blocks and
any selector: the watch opens the first block the check reports, and bails exactly
when the check does. The theorems on what is generated quantify over every kind of
account and every answer of a calendar server; `GeneratedHooksFire` has the proviso
of `NoHookStaysQuiet`. Those on `Configure` rest on one invariant (`FInv`): what a
shell read of the file is what the file holds, until somebody else writes it, and
the name it generated is not among the names it read. They hold for any number of
shells, any names, and any edits of the owner, and promise nothing to a shell whose
reading was overtaken: appending a name taken meanwhile makes the file unreadable,
and saving to a file created meanwhile writes over it. `Configure` was also run
through TLC on two shells, two names and any edits, outside the runs listed here.

**WebDAV.** `KnownIsCurrent` says nothing of an enumeration under way, which may take
several reports while members move and whose token replaces the picture's before its
listing does. The invariant follows it: while it goes on, the last listing of every
member it is past is what that member is (`Enumerated`); once it ended, the same up
to the new token, and a whole one leaves out nothing of the picture that still
stands (`Ended`). That last part is what makes removals true. Elsewhere `AsOfToken`
is `KnownAsOfToken` at every request of a round, unless one failed before its rebase,
and one lemma each says that a rebase and a report keep it. For the alarm book the
invariant (`Asks`) is that whatever the picture holds as it stands is in the book
already or asked for, and that nothing in the picture is to be forgotten: it needs
neither the token nor the excuses, and `BookIsCurrent` follows with `AsOfToken`. It
assumes that every revision has a body, which may be any.

**pimdir.** Nothing the follower reads is read under a lock, and rows move behind
the page it has reached. The invariant (`Inv`) therefore speaks of a reading at each
of its pages, and only of the items that have not moved since it began (`Stands`), as
the next reading hears of the others: what was read of one is what it is
(`ReadAsItIs`); up to the key of the last page, `load` has read every item
(`ListReads`), and `follow` has named every item that moved since the cursor, and no
other (`FollowReads`). A page shorter than asked for is the last one, which is what
makes the end of a reading the whole store. Beside it stands what the owner keeps
(`StoreInv`): no two rows share a stamp, and the purges and the rows still to purge
are together no more than the commits, which bounds the counts of `PimdirTyped`. The
assumptions are that the other collections are finite, that pages and commits have
room for one row, and that the body of every commit is given its parts (`Parts`).

**Gmail.** `told` cannot be compared to the mailbox while a round is owed, so the
invariant (`MailInv`) says that some sequence of mailboxes is the past the records
tell of (`Recorded`): one record takes each to the next and the last is the mailbox
as it is. What is told is then the label in the mailbox at the cursor. A round is
followed record by record: a record answered tells what the next mailbox shows
(`HeardIsView`), and one left out changes nothing the label shows. `ToldIsCurrent`
follows as a message with no record since the cursor has not moved (`NotMoved`), and
`ToldOnce` as each record starts from what is told by then. It is assumed of the
constants that the label watched is a label, be it `UNREAD` or `STARRED`, and that
`Away` is no set of labels.

**IMAP.** The hooks that ran are those of the deltas taken, those of the delta in
hand but for what is still to do (`InHandSettled`), and each of the others once and
in order (`Settled`); that a drain ending on its own has taken every delta is
`Drained`, as the last word of io-imap's thread is the last in the channel. For
`OldSessionCostsNothing` the invariant (`Retried`) says of each step of an envelope
whether the connection in use was opened for it. No bound on the deltas is used.

**Induction.** The library's induction takes an operator, which the provers cannot
instantiate. Where a proof goes up numbers (pages, records), the property is a set
of numbers: one that holds some number and the next one of each it holds has all up
to a bound (`Climb`), since otherwise the least number outside it (`LeastNumber`,
from the well-foundedness of `<` on `Nat`) would have a predecessor outside it. That
the recursive functions of `GmailHistory` exist, and satisfy their equations, is
proved that way too.

### Only model-checked

Liveness, as fairness and `ENABLED` are beyond the prover: `StopsUnaided`,
`HeldFiringFires`, `ShutdownEnds`, `Reopens`, the three `PictureCatchesUp`,
`BookCatchesUp`, `ReadsToTheEnd`, `MailboxIsTold`, `CtrlCEndsTheWatch`. Every
invariant and every action property of the passing runs has its theorem. That the
naming loop of `configure` ends is not proved either: `Prompts` takes a free suffix
where there is one.

## 5. What is not modelled

* **io-imap**: which deltas a mailbox yields, IDLE and its renewals, are decided in
  a library; `ImapWatch` takes one delta per change, in order. The options of a
  session and the fields of an envelope are left out.
* **Templates and processes** (`hook.rs`): rendering and spawning. That hooks run
  one after another on the thread that reports is in `AlarmThread` (the clock moves
  between two) and `ImapWatch`.
* **Resolving alarms** (recurrences, overrides, time zones): the `ical` crate's. The
  book of `AlarmThread` moves at will, which is more than any watch does.
* **Configuration** beyond its hooks (`config.rs`): deserialization, proxies, TLS,
  logins, intervals.
* **Command line** (`main.rs`, `json_schema.rs`): parsing, logging, manuals, schema.
  **Check**: what opening each block answers. **Wizard**: discovery itself, prompts,
  secrets and brokers, the text of the TOML, and which of several configuration
  paths is read: `Configure` has one.
* **Several collections on one JMAP connection**: each has its own picture, state
  and second attempt, and shares the connection only.
* **Durations**: intervals, timeouts and the backoff's seconds are steps.
* **Answers Gmail does not give**: a last page of history without a `historyId`, for
  which the code would keep its cursor and tell the same records again
  (`src/gmail.rs:203`).

## 6. Where code and comments part, and what the properties leave out

Two runs find a comment violated by what the code does:

* `DavTokenAhead`. `snapshot` keeps the new token before `rebase` has asked a
  mixed calendar for content types. If those requests fail, the second run reads
  on from a token ahead of the picture, and what moved before it is never heard
  of; `src/dav.rs:419` says such a round leaves both "at the last report it
  completed".
* `JmapArmGap`. The baseline and its state are two requests. A change between
  them is in neither the picture nor a later `/changes`, though the picture is
  "what the collection holds, as of `state`" (`src/jmap.rs:246`).

The other properties hold of what the code does, and say by a history variable or
a constant where it stops promising. Each excuse below was met as a
counterexample to the unexcused form:

* *A torn enumeration* (`torn`, `cut` in `DavWatch`): an initial `sync-collection`
  answered in several reports reads what changed and not what vanished, so a
  member deleted between two of them stays, and one listed twice is told as an
  arrival (`src/dav.rs:511`, `:591`).
* *Unread content types* (`unread` in `DavWatch`): a new member of a mixed calendar
  whose content type cannot be read is behind the token and stays out of the
  picture until it moves again (`src/dav.rs:749`).
* *A round failing between an enumeration and its rebase* (`ahead` in `DavWatch`):
  what `DavTokenAhead` shows; `KnownIsCurrent` and `BookIsCurrent` hold otherwise.
* *Bodies of members no picture holds*: one created after the baseline and
  deleted after the bodies were read stays in the alarm book (`src/dav.rs:199`);
  `BookIsCurrent` speaks of the picture's members.
* *Ghosts* (`ghosts` in `TokenPoll`): a delta baseline drops the rows of removals
  before it keeps the rest, so a member removed on a later page stays
  (`src/msgraph.rs:294`).
* *Items missed by a baseline* (`missed` in `JmapWatch`): the gap above.
* *A stream that opens silent* (`OpensWithStates`): a change made while no stream
  is open is read only when a later one is pushed, unless the server pushes its
  states as a stream opens (`src/jmap.rs:181`).
* *A page of moved collections* (`hidden` in `PimdirFollow`): `follow` looks at the
  first page of them only (`src/pimdir.rs:169`), so a calendar that changed its kind
  behind a page of others is followed still; `KindIsChecked` holds otherwise.
* *Rows that share a stamp* (`src/pimdir.rs:189`): a page is cut after a stamp. A
  commit of the model stamps one row; whether the store may stamp several is not
  decided under `src/`.
* *Bodies that cannot be read* (`failed` in `PimdirFollow`): no alarm until the
  item moves again (`src/pimdir.rs:248`).
* *A clock set back* (`setBacks` in `AlarmThread`): firings fired are pruned by the
  wall clock (`src/alarm.rs:510`), so one may be resolved again and fire once more
  for each time the clock was set back, and no oftener. Until the queue is built
  anew (`OutOfStep`) nothing is said of what is slept past.
* *Rings that fail* (`unheard`, `handler = "failed"` in `AlarmThread`, `unrung` in
  `Supervisor`): a waker that cannot be rung is only logged (`src/alarm.rs:580`,
  `src/watch.rs:126`). An alarm changed then may be slept past until the next pass
  that rebuilds, and a thread not rung ends at its next deadline.
* *An account that cannot be started* (`main = "failed"` in `Supervisor`): `execute`
  returns the error of the thread it could not spawn (`src/watch.rs:139`) without
  joining those it did, which the end of the process then cuts short, a hook
  included. `NoThreadLeft` speaks of a command that ends well.
* *Contacts of Graph* (`Named` in `TokenPoll`): a row of a contact carries no version
  (`src/msgraph.rs:448`), so a contact is told as edited each time a round names it,
  moved or not (`src/picture.rs:117`), and one edited while the link was expired is
  not told at all, the listing being compared by version. Nothing else is told of it
  wrongly: `EventsAreNews` holds of arrivals and removals, and of every other feed.
* *Late news*: a firing that reaches the book past the grace window is neither
  fired nor logged, and one the book dropped fires if the pass that learns of it
  comes at or after its trigger (`src/alarm.rs:502`, `:507`). `Firings` promises
  something of what was ahead alone.
* *Flag filters* (`BareNameFiresEverywhere`): JMAP and Maildir drop the backslash
  of a system flag and spell `$Forwarded` as `Passed`, so a filter written for IMAP
  as `\Seen` or `$Forwarded` does not fire there, where `src/jmap.rs:814` and
  `src/maildir.rs:164` say that one written for IMAP fires; a bare name does.
* *Quiet task hooks* (`NoHookStaysQuiet`): members of a mixed calendar whose content
  type names no component are taken for events when hooks are on both
  (`src/dav.rs:683`), so those on tasks may never be called.
* *Envelopes* (`ImapWatch`): a message expunged before its envelope was read runs
  its hook without one, after a second connection was opened in vain.

Disagreements met while modelling that no run shows:

* `src/cairn/spec/daemon.md:125` wants Ctrl+C honoured on every path and "No path
  SHALL wait on a server that has stopped answering". A connection gets its read
  deadline once it is open, so connecting and the TLS handshake have none
  (`src/dav.rs:138` to `:159`, and the other backends alike); a hook's or a
  credential's command is waited for to its end (`src/hook.rs:425`). `ShutdownEnds`
  holds as long as those return (`CallsReturn`); without that assumption TLC finds a
  session that is being opened for ever.
* `src/watch.rs:236` resets the backoff for "a session that stayed up"; what is
  measured begins before the session is opened (`:210`), so one whose server took
  that long to refuse it resets the backoff too. `BacksOff` counts it as a session
  that got as far as its server.
* `src/cli.rs:109` says that a broken file counts as a configuration, so that the
  offer never writes over one. A bare invocation does raise the offer for a file
  that does not parse (`:117`); `configure` then refuses to read it, so that nothing
  is written over all the same.
* `save_or_print` writes over a file created since `configure` looked
  (`src/wizard/configure.rs:226`).
* A calendar of journal entries alone names no component the watch knows, so hooks
  on it are taken as on a calendar that names none (`src/dav.rs:815`, `:658`).
* The wizard picks a Google calendar by its display name, the first of several that
  share one (`src/wizard/gcal.rs:54`).

## 7. Plan

Done: the core (`AlarmThread`, `Supervisor`) with its proofs, the clock set back and
the refinement of `Firings` included; the backends' reconciliation (`DavWatch`,
`Picture`, `TokenPoll`, `PimdirFollow`, `JmapWatch`, `GmailHistory`, `MaildirPoll`)
with the alarm book; the IMAP watch; the hook tables, the selection of blocks, the
wizard and `configure`; the proofs of the safety of all of them.

Next, in order:

1. An abstract `Follower` (a picture that is the collection's at some earlier
   revision and moves forward only), implemented by `DavWatch`, `TokenPoll` and
   `JmapWatch` over whole enumerations.
2. A composition of `AlarmThread` with a watch's events, so that the alarm thread's
   `Change` is what a watch really does.
3. Several collections on one JMAP connection.
