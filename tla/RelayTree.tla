------------------------------ MODULE RelayTree ------------------------------
(* How a relay ends the processes an agent leaves behind (priv/agent_relay.py):   *)
(* all of them when its provider is gone, and at the end of a turn those that      *)
(* are not in the provider's own session.  Orphans come to the relay, their        *)
(* subreaper.  Which processes there are is read from /proc, the children of one    *)
(* process at a time, while they fork, change session and exit.                   *)
(*                                                                              *)
(* A dead process has no children and is neither kept nor signalled, so whether     *)
(* it was reaped makes no difference.  A number is not used again within a round.   *)
EXTENDS Naturals

CONSTANTS
  Processes,            \* all processes there may be
  Relay, Provider,      \* the first two
  Tool,                 \* a command the provider runs in a session of its own
  Rounds                \* how many times it looks: 100 in the code

(* What the constants have to satisfy. *)
TreeAssumption ==
  /\ {Relay, Provider, Tool} \subseteq Processes
  /\ Relay # Provider /\ Tool \notin {Relay, Provider}
  /\ Rounds \in Nat

VARIABLES
  alive, parent, session,
  unborn,
  spare,         \* the provider is to live: the end of a turn
  pc, todo,      \* where kill_descendants is, and what it has yet to read or to kill
  found, kept,
  round,
  moved          \* processes that were born or adopted since the last listing began

kernel == <<alive, parent, session, unborn>>
relay == <<pc, todo, found, kept, round>>
vars == <<kernel, spare, relay, moved>>

Init ==
  /\ spare \in BOOLEAN
  /\ alive = {Relay, Tool} \cup (IF spare THEN {Provider} ELSE {})
  /\ parent = [p \in Processes |-> IF p = Tool /\ spare THEN Provider ELSE Relay]
  /\ session = [p \in Processes |-> p]
  /\ unborn = Processes \ {Relay, Provider, Tool}
  /\ pc = "start" /\ todo = {} /\ found = {} /\ kept = {} /\ round = 1 /\ moved = {}

Children(p) == {c \in alive \ {Relay} : parent[c] = p}

(* ---- Plausible slips in the code below, each of which TLC must catch. ---- *)

(* What is to be kept is read before the rest. *)
KeepFirst == IF spare THEN <<"keep", "list", "choose">> ELSE <<"list", "choose">>

(* ---- The processes ---- *)

Running == pc \notin {"returned", "gave up"}

Fork(p, c) ==
  /\ Running /\ p \in alive \ {Relay} /\ c \in unborn
  /\ alive' = alive \cup {c} /\ unborn' = unborn \ {c}
  /\ parent' = [parent EXCEPT ![c] = p]
  /\ session' = [session EXCEPT ![c] = session[p]]
  /\ moved' = moved \cup {c}
  /\ UNCHANGED <<spare, relay>>

Setsid(p) ==
  /\ Running /\ p \in alive /\ session[p] # p
  /\ session' = [session EXCEPT ![p] = p]
  /\ UNCHANGED <<alive, parent, unborn, spare, relay, moved>>

(* The children of a process that ends come to the relay. *)
Ends(p) ==
  /\ alive' = alive \ {p}
  /\ parent' = [c \in Processes |-> IF parent[c] = p THEN Relay ELSE parent[c]]
  /\ moved' = moved \cup Children(p)
  /\ UNCHANGED <<session, unborn>>

Exit(p) ==
  /\ Running /\ p \in alive \ {Relay}
  /\ Ends(p) /\ UNCHANGED <<spare, relay>>

(* ---- The relay: kill_descendants ---- *)

(* descendants: the children found are looked at in their turn. *)
Deeper(p) == Children(p)

List(p) ==
  /\ pc = "list" /\ p \in todo
  /\ found' = found \cup Children(p)
  /\ todo' = (todo \ {p}) \cup Deeper(p)
  /\ UNCHANGED <<kernel, spare, pc, kept, round, moved>>

(* provider_session comes after the listing, so that a child the provider forks    *)
(* meanwhile is kept.                                                            *)
Stages == IF spare THEN <<"list", "keep", "choose">> ELSE <<"list", "choose">>

Begin(stage) ==
  /\ pc' = stage
  /\ todo' = CASE stage = "list" -> {Relay} [] stage = "keep" -> {Provider} [] OTHER -> {}

Start ==
  /\ pc = "start" /\ Begin(Stages[1]) /\ moved' = {}
  /\ UNCHANGED <<kernel, spare, found, kept, round>>

Read ==
  /\ pc \in {"list", "keep"} /\ todo = {}
  /\ \E i \in DOMAIN Stages : Stages[i] = pc /\ Begin(Stages[i + 1])
  /\ UNCHANGED <<kernel, spare, found, kept, round, moved>>

Keep(p) ==
  /\ pc = "keep" /\ p \in todo
  /\ kept' = kept \cup Children(p)
  /\ todo' = (todo \ {p}) \cup Children(p)
  /\ UNCHANGED <<kernel, spare, pc, found, round, moved>>

Spared == IF spare THEN {Provider} \cup {p \in kept : session[p] = Provider} ELSE {}

Choose ==
  /\ pc = "choose"
  /\ LET targets == (found \ Spared) \cap alive IN
     IF targets = {} THEN pc' = "returned" /\ UNCHANGED todo ELSE pc' = "kill" /\ todo' = targets
  /\ UNCHANGED <<kernel, spare, found, kept, round, moved>>

Kill(p) ==
  /\ pc = "kill" /\ p \in todo
  /\ todo' = todo \ {p}
  /\ IF p \in alive THEN Ends(p) ELSE UNCHANGED <<kernel, moved>>
  /\ UNCHANGED <<spare, pc, found, kept, round>>

Again ==
  /\ pc = "kill" /\ todo = {}
  /\ found' = {} /\ kept' = {}
  /\ IF round < Rounds
     THEN Begin(Stages[1]) /\ round' = round + 1 /\ moved' = {}
     ELSE pc' = "gave up" /\ UNCHANGED <<todo, round, moved>>
  /\ UNCHANGED <<kernel, spare>>

Next ==
  \/ \E p \in Processes : Setsid(p) \/ Exit(p) \/ List(p) \/ Keep(p) \/ Kill(p)
  \/ \E p, c \in Processes : Fork(p, c)
  \/ Start \/ Read \/ Choose \/ Again

Spec == Init /\ [][Next]_vars

-----------------------------------------------------------------------------
(* The provider and what is below it in its session. *)
Below[p \in Processes] == p = Provider \/ (parent[p] # Relay /\ Below[parent[p]])
OfProvider == {p \in alive \ {Relay} : Below[p] /\ session[p] = Provider}

(* Those that were born or adopted while the relay was looking, and what is below *)
(* them.                                                                         *)
Late[p \in Processes] == p \in moved \/ (parent[p] # Relay /\ Late[parent[p]])

(* Whatever is left when it returns is of the provider's session, or was born or     *)
(* adopted, or is below one that was, while the relay was looking.                 *)
NothingSeenIsLeft ==
  pc = "returned" => \A p \in alive \ {Relay} : (spare /\ session[p] = Provider) \/ Late[p]

(* The end of a turn kills nothing of the provider's session. *)
SparesTheProvider ==
  spare => \A p \in OfProvider : p \in alive' \/ ~(pc = "kill" /\ p \in todo \ todo')
=============================================================================
