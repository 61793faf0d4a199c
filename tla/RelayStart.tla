----------------------------- MODULE RelayStart -----------------------------
(* Where relays keep their files, and who removes them (priv/agent_relay.py,     *)
(* relay_port.ex).  Each relay has a directory of its own under one root.  Nobody  *)
(* removes it when the relay ends; each new relay, before it starts, sweeps the    *)
(* root of those that are a day old and whose relay no longer runs, which it        *)
(* learns from a process number that may since be another's.                      *)
EXTENDS Naturals

CONSTANTS
  Relays,              \* launches; each has its directory
  Numbers,             \* process numbers
  Day,                 \* in ticks
  MaxTime, None

Manifests == [time : Nat, number : Numbers]
Directories == [time : Nat, manifest : Manifests \cup {None}]

(* What the constants have to satisfy. *)
StartAssumption ==
  /\ {Day, MaxTime} \subseteq Nat /\ Day > 0
  /\ None \notin Relays /\ None \notin Numbers
  /\ None \notin Manifests /\ None \notin Directories

VARIABLES
  stage,      \* of each launch: "new", "made", "sweep", "forked", "serving" or "dead"
  number,     \* the process number of a relay
  dir,        \* the directory: its time, and the manifest's number and time, or None
  todo,       \* the directories a sweep has yet to see
  doomed,     \* the one it is about to remove, or None
  clock

vars == <<stage, number, dir, todo, doomed, clock>>

Init ==
  /\ stage = [r \in Relays |-> "new"] /\ number = [r \in Relays |-> None]
  /\ dir = [r \in Relays |-> None]
  /\ todo = [r \in Relays |-> {}] /\ doomed = [r \in Relays |-> None]
  /\ clock = 0

Running == {r \in Relays : stage[r] \in {"forked", "serving"}}
Old(time) == time + Day < clock

(* ---- The daemons and time ---- *)

Tick ==
  /\ clock < MaxTime /\ clock' = clock + 1
  /\ \A r \in Relays : stage[r] \in {"new", "serving", "dead"}
  /\ UNCHANGED <<stage, number, dir, todo, doomed>>

(* launch: the directory and the specification are there before the relay is. *)
Launch(r) ==
  /\ stage[r] = "new"
  /\ stage' = [stage EXCEPT ![r] = "made"]
  /\ dir' = [dir EXCEPT ![r] = [time |-> clock, manifest |-> None]]
  /\ UNCHANGED <<number, todo, doomed, clock>>

(* The relay ends, or the daemon or the launch does before it; the files stay. *)
End(r) ==
  /\ stage[r] \notin {"new", "dead"}
  /\ stage' = [stage EXCEPT ![r] = "dead"]
  /\ todo' = [todo EXCEPT ![r] = {}] /\ doomed' = [doomed EXCEPT ![r] = None]
  /\ UNCHANGED <<number, dir, clock>>

(* ---- main ---- *)

Sweep(r) ==
  /\ stage[r] = "made"
  /\ stage' = [stage EXCEPT ![r] = "sweep"]
  /\ todo' = [todo EXCEPT ![r] = {d \in Relays : dir[d] # None}]
  /\ UNCHANGED <<number, dir, doomed, clock>>

(* The process with this number is a relay. *)
InUse(n) == \E r \in Running : number[r] = n

(* A directory without a manifest goes by its own time. *)
Dead(d) ==
  /\ dir[d] # None
  /\ IF dir[d].manifest = None
     THEN Old(dir[d].time)
     ELSE Old(dir[d].manifest.time) /\ ~InUse(dir[d].manifest.number)

(* sweep_dead_relays looks at one directory after another, and skips one it cannot   *)
(* read.                                                                         *)
Look(r, d) ==
  /\ stage[r] = "sweep" /\ doomed[r] = None /\ d \in todo[r]
  /\ todo' = [todo EXCEPT ![r] = @ \ {d}]
  /\ \/ Dead(d) /\ doomed' = [doomed EXCEPT ![r] = d]
     \/ UNCHANGED doomed
  /\ UNCHANGED <<stage, number, dir, clock>>

(* It may not be removed whole: what is left has no manifest and a new time. *)
Remove(r) ==
  /\ doomed[r] # None
  /\ doomed' = [doomed EXCEPT ![r] = None]
  /\ \/ dir' = [dir EXCEPT ![doomed[r]] = None]
     \/ dir[doomed[r]] # None /\ dir' = [dir EXCEPT ![doomed[r]] = [time |-> clock, manifest |-> None]]
  /\ UNCHANGED <<stage, number, todo, clock>>

(* The relay leaves its parents behind, under a number that is free. *)
ForkRelay(r) ==
  /\ stage[r] = "sweep" /\ todo[r] = {} /\ doomed[r] = None
  /\ dir[r] = None \/ dir[r].manifest = None
  /\ \E n \in {k \in Numbers : ~InUse(k)} : number' = [number EXCEPT ![r] = n]
  /\ stage' = [stage EXCEPT ![r] = "forked"]
  /\ dir' = [dir EXCEPT ![r] = [time |-> clock, manifest |-> None]]
  /\ UNCHANGED <<todo, doomed, clock>>

(* The manifest is written once the provider runs. *)
ServeRelay(r) ==
  /\ stage[r] = "forked"
  /\ stage' = [stage EXCEPT ![r] = "serving"]
  /\ dir' = [dir EXCEPT ![r].manifest = [time |-> clock, number |-> number[r]]]
  /\ UNCHANGED <<number, todo, doomed, clock>>

Next ==
  \/ Tick
  \/ \E r \in Relays : Launch(r) \/ End(r) \/ Sweep(r) \/ Remove(r) \/ ForkRelay(r) \/ ServeRelay(r)
  \/ \E r, d \in Relays : Look(r, d)

Spec == Init /\ [][Next]_vars

-----------------------------------------------------------------------------
(* A relay that runs, however long, has its directory, and its manifest once it has  *)
(* written one, whoever sweeps and whatever numbers are used again.                *)
RunningKeepsFiles ==
  \A r \in Running : dir[r] # None /\ (stage[r] = "serving" => dir[r].manifest # None)
=============================================================================
