------------------------------ MODULE Configure ------------------------------
(***************************************************************************)
(* The configuration file, and the commands that read and write it: the    *)
(* loader a watch and a check run against, the offer they and a bare       *)
(* invocation raise (src/src/cli.rs), and `configure`, which reads the     *)
(* file, prompts for minutes, and writes (src/src/wizard/configure.rs).    *)
(*                                                                         *)
(* Shells run commands at once over one file, which its owner edits too.   *)
(* What the wizard generates is module Wizard's; it loads, and is one      *)
(* account of one name.                                                    *)
(***************************************************************************)
EXTENDS Integers

CONSTANTS
  Shells,       \* the shells that run commands
  Bases,        \* the names discovery proposes
  Named(_, _)   \* the name `base` with its suffix, the first having none

VARIABLES
  state,      \* the file: "missing", "broken" where it does not parse, or "parses"
  held,       \* the names of the accounts it holds
  defaults,   \* those that claim the default
  invalid,    \* those the loader refuses
  pc,         \* which step each shell makes next
  command,    \* what it runs: "account" for a watch or a check, "bare", "configure"
  options,    \* how: on a "terminal", in "json", with its output "redirected"
  lookedUp,   \* load_config: the file was missing when it first looked
  existing,   \* ExistingConfig: the file as configure read it
  name,       \* configure: the name of the account it generated
  stale,      \* history: the shells whose reading of the file was overtaken
  saved       \* history: the shells that wrote, until they load what they wrote

file == <<state, held, defaults, invalid>>
run  == <<command, options>>
vars == <<file, pc, run, lookedUp, existing, name, stale, saved>>

NoConfig == [there |-> FALSE, names |-> {}, hasDefault |-> FALSE]

Goes(s, to) == pc' = [pc EXCEPT ![s] = to]

\* Whoever read the file before reads it no more.
Overtakes(s) == stale' = stale \cup (Shells \ {s})

Loads == state = "parses" /\ invalid = {}

\* Nobody answers a prompt in a script.
Talks(s) == "terminal" \in options[s] /\ "json" \notin options[s]

-----------------------------------------------------------------------------
(* The commands *)

Types(s) ==
  /\ pc[s] = "shell"
  /\ \E c \in {"account", "bare", "configure"} :
       /\ command' = [command EXCEPT ![s] = c]
       /\ Goes(s, IF c = "configure" THEN "read" ELSE "load")
  /\ \E o \in SUBSET {"terminal", "json", "redirected"} :
       options' = [options EXCEPT ![s] = o]
  /\ lookedUp' = [lookedUp EXCEPT ![s] = FALSE]
  /\ saved' = saved \ {s}
  /\ UNCHANGED <<file, existing, name, stale>>

\* load_config: a command needing an account runs, fails on what it found, or
\* looks again where it found nothing, having raised the offer before if it may.
LoadsAccounts(s) ==
  /\ pc[s] = "load" /\ command[s] = "account"
  /\ LET again == state = "missing" /\ ~lookedUp[s]
     IN  /\ Goes(s, IF Loads THEN "runs" ELSE IF ~again THEN "shell"
                    ELSE IF Talks(s) THEN "offer" ELSE "load")
         /\ lookedUp' = [lookedUp EXCEPT ![s] = @ \/ again]
  /\ saved' = saved \ {s}
  /\ UNCHANGED <<file, run, existing, name, stale>>

\* A bare invocation offers whatever it could not read, and prints the help.
BareInvocation(s) ==
  /\ pc[s] = "load" /\ command[s] = "bare"
  /\ Goes(s, IF state # "parses" /\ Talks(s) THEN "offer" ELSE "shell")
  /\ saved' = saved \ {s}
  /\ UNCHANGED <<file, run, lookedUp, existing, name, stale>>

\* The offer, or configure, is over: a command that raised it looks the file up
\* again, "the wizard also printing the account instead of writing it".
Over(s) == Goes(s, IF command[s] = "account" THEN "load" ELSE "shell")

\* offer_configuration: accepted, or declined.
Answers(s) ==
  /\ pc[s] = "offer"
  /\ Goes(s, "read") \/ Over(s)
  /\ UNCHANGED <<file, run, lookedUp, existing, name, stale, saved>>

\* A watch or a check that has its accounts ends by itself.
Ends(s) ==
  /\ pc[s] = "runs" /\ Goes(s, "shell")
  /\ UNCHANGED <<file, run, lookedUp, existing, name, stale, saved>>

-----------------------------------------------------------------------------
(* configure *)

\* ExistingConfig::read: the names it takes, and whether one claims the default.
Reading == IF state = "missing" THEN NoConfig
           ELSE [there |-> TRUE, names |-> held, hasDefault |-> defaults # {}]

\* A terminal to prompt on, and a file that parses, or none.
Reads(s) ==
  /\ pc[s] = "read"
  /\ \/ /\ "terminal" \notin options[s] \/ state = "broken"
        /\ Goes(s, "shell") /\ UNCHANGED <<existing, stale>>
     \/ /\ "terminal" \in options[s] /\ state # "broken"
        /\ Goes(s, "prompt")
        /\ existing' = [existing EXCEPT ![s] = Reading]
        /\ stale' = stale \ {s}
  /\ UNCHANGED <<file, run, lookedUp, name, saved>>

\* account_name: the name discovery proposes, or its first free suffix.
FirstFree(taken, base, k) ==
  Named(base, k) \notin taken /\ \A j \in 1 .. k - 1 : Named(base, j) \in taken

\* Discovery and its prompts: an account, or an error that ends the command.
Prompts(s) ==
  /\ pc[s] = "prompt"
  /\ \/ Goes(s, "shell") /\ UNCHANGED name
     \/ /\ \E base \in Bases, k \in Nat \ {0} :
             /\ FirstFree(existing[s].names, base, k)
             /\ name' = [name EXCEPT ![s] = Named(base, k)]
        /\ Goes(s, "ask")
  /\ UNCHANGED <<file, run, lookedUp, existing, stale, saved>>

\* A document on stdout, where it is redirected or the owner would rather.
Prints(s) ==
  /\ pc[s] = "ask" /\ Over(s)
  /\ UNCHANGED <<file, run, lookedUp, existing, name, stale, saved>>

\* "The generated one claims it only when no other account does."
Claims(s) == {n \in {name[s]} : ~existing[s].hasDefault}

Asks(s) == pc[s] = "ask" /\ options[s] = {"terminal"}

\* save_or_print: whatever stands at the path by now is written over.
Saves(s) ==
  /\ Asks(s) /\ ~existing[s].there
  /\ state' = "parses" /\ held' = {name[s]} /\ defaults' = Claims(s) /\ invalid' = {}
  /\ saved' = saved \cup {s} /\ Overtakes(s) /\ Over(s)
  /\ UNCHANGED <<run, lookedUp, existing, name>>

\* append_or_print: "a second table makes the whole document fail to parse".
Appends(s) ==
  /\ Asks(s) /\ existing[s].there /\ state # "missing"
  /\ IF state = "parses" /\ name[s] \notin held
       THEN /\ held' = held \cup {name[s]}
            /\ defaults' = defaults \cup Claims(s)
            /\ UNCHANGED <<state, invalid>>
       ELSE state' = "broken" /\ held' = {} /\ defaults' = {} /\ invalid' = {}
  /\ saved' = saved \cup {s} /\ Overtakes(s) /\ Over(s)
  /\ UNCHANGED <<run, lookedUp, existing, name>>

\* Neither is atomic: a file that cannot be opened stays, one half written is
\* left as it is.
WriteFails(s) ==
  /\ Asks(s) /\ Goes(s, "shell")
  /\ \/ UNCHANGED <<file, stale>>
     \/ /\ state' = "broken" /\ held' = {} /\ defaults' = {} /\ invalid' = {}
        /\ Overtakes(s)
  /\ UNCHANGED <<run, lookedUp, existing, name, saved>>

-----------------------------------------------------------------------------
(* Its owner *)

\* Any file: the accounts of one that does not parse are nobody's.
Edits ==
  /\ state' \in {"missing", "broken", "parses"}
  /\ held' \in SUBSET {Named(b, k) : b \in Bases, k \in Nat \ {0}}
  /\ state' # "parses" => held' = {}
  /\ defaults' \in SUBSET held' /\ invalid' \in SUBSET held'
  /\ stale' = Shells
  /\ UNCHANGED <<pc, run, lookedUp, existing, name, saved>>

-----------------------------------------------------------------------------
Init ==
  /\ state = "missing" /\ held = {} /\ defaults = {} /\ invalid = {}
  /\ pc = [s \in Shells |-> "shell"] /\ command = [s \in Shells |-> "bare"]
  /\ options = [s \in Shells |-> {}] /\ lookedUp = [s \in Shells |-> FALSE]
  /\ existing = [s \in Shells |-> NoConfig]
  /\ name \in [Shells -> {Named(b, 1) : b \in Bases}]
  /\ stale = {} /\ saved = {}

Step(s) ==
  \/ Types(s) \/ LoadsAccounts(s) \/ BareInvocation(s) \/ Answers(s) \/ Ends(s)
  \/ Reads(s) \/ Prompts(s) \/ Prints(s) \/ Saves(s) \/ Appends(s) \/ WriteFails(s)

Next == Edits \/ \E s \in Shells : Step(s)

Spec == Init /\ [][Next]_vars

-----------------------------------------------------------------------------
(* What a write keeps *)

Written(s) == Saves(s) \/ Appends(s)

\* An account is only ever added: as long as nobody else wrote since it was read,
\* the file parses still, holds every account it held, and one more of a new name.
WritesAddAnAccount ==
  [][\A s \in Shells \ stale : Written(s) =>
       /\ state' = "parses"
       /\ held' = held \cup {name[s]} /\ name[s] \notin held
       /\ invalid' = invalid]_vars

\* "A second default would make the account every command picks depend on map
\* ordering": of a file read after the last write, one account at most claims it,
\* if one at most did.
OneDefaultAtMost(claims) == \A m, n \in claims : m = n

WritesKeepOneDefault ==
  [][\A s \in Shells \ stale :
       Written(s) /\ OneDefaultAtMost(defaults) =>
         defaults' # {} /\ OneDefaultAtMost(defaults')]_vars

\* A command that raised the offer runs after it, on the file its wizard created,
\* unless others wrote it meanwhile: the file loads, and its account is the default
\* one, so neither command has to name it.
OfferLeadsOn ==
  \A s \in saved \ stale :
    pc[s] = "load" /\ ~existing[s].there => Loads /\ name[s] \in defaults

=============================================================================
