------------------------------ MODULE PidfdReap ------------------------------
(* The helper that ends a provider whose process was registered earlier        *)
(* (src/src/priv/pidfd_reap.py), against a kernel that reuses the numbers of   *)
(* processes that have ended.  A process is known by its birth (start time and *)
(* session in the code); a pidfd refers to a birth, whatever its number becomes. *)
(* Everything the helper reads from /proc it reads one process at a time, and   *)
(* forks, exits and unrelated processes happen in between.                     *)
EXTENDS Naturals, FiniteSets

CONSTANTS
  Pids,        \* process numbers
  Root,        \* the number the provider was registered with: it leads a group
  Child,       \* the number of a process in its group
  None,        \* a number nobody has
  MaxBirths    \* bound: processes ever born

(* What is known of a process: its birth, its group and its parent's number. *)
Registrations == [born : Nat, group : Pids, parent : Pids \cup {0}]

(* What the constants have to satisfy. *)
ReapAssumption ==
  Root \in Pids /\ Child \in Pids \ {Root} /\ None \notin Registrations /\ MaxBirths \in Nat

VARIABLES
  mode,        \* what is to be ended: the "group", the "tree" or the "process"
  live,        \* the process behind each number: birth, group and parent's number
  births,      \* processes born so far
  kin,         \* the births that were ever in the provider's own group
  pc,          \* where the helper is
  todo,        \* numbers it has yet to read or to open
  table,       \* what it read of each
  fd,          \* the pidfd just opened, with its number: not yet checked
  fds,         \* the pidfds it keeps
  signalled    \* births a signal was sent to

vars == <<mode, live, births, kin, pc, todo, table, fd, fds, signalled>>
helper == <<mode, pc, todo, table, fd, fds, signalled>>
kernel == <<live, births, kin>>

Provider == 1                   \* the birth that was registered

Process(born, group, parent) == [born |-> born, group |-> group, parent |-> parent]

Init ==
  /\ mode \in {"group", "tree", "process"}
  /\ live = [p \in Pids |-> CASE p = Root -> Process(Provider, Root, 0)
                              [] p = Child -> Process(2, Root, Root)
                              [] OTHER -> None]
  /\ births = 2 /\ kin = {Provider, 2}
  /\ pc = "open root" /\ todo = {} /\ fds = {} /\ signalled = {}
  /\ table = [p \in Pids |-> None] /\ fd = None

Used(p) == live[p] # None
Alive(b) == \E p \in Pids : Used(p) /\ live[p].born = b

(* A number is free again when no process has it and no group is named by it. *)
Free(p) == ~Used(p) /\ \A q \in Pids : Used(q) => live[q].group # p

(* ---- The kernel and the other processes ---- *)

Fork(p, q) ==
  /\ Used(p) /\ Free(q) /\ births < MaxBirths
  /\ births' = births + 1
  /\ live' = [live EXCEPT ![q] = Process(births', live[p].group, p)]
  /\ kin' = IF live[p].born \in kin /\ live[p].group = Root THEN kin \cup {births'} ELSE kin
  /\ UNCHANGED helper

(* An unrelated process, in a group of its own. *)
Spawn(q) ==
  /\ Free(q) /\ births < MaxBirths
  /\ births' = births + 1
  /\ live' = [live EXCEPT ![q] = Process(births', q, 0)]
  /\ UNCHANGED <<kin, helper>>

(* A process ends; its children are adopted by init. *)
Exit(p) ==
  /\ Used(p)
  /\ live' = [q \in Pids |-> CASE q = p -> None
                              [] q # p /\ Used(q) /\ live[q].parent = p -> [live[q] EXCEPT !.parent = 0]
                              [] OTHER -> live[q]]
  /\ UNCHANGED <<births, kin, helper>>

(* ---- The helper ---- *)

Identified(p) == Used(p) /\ live[p].born = Provider

(* checked_pidfd opens the number first and reads whose it is afterwards. *)
OpenRoot ==
  /\ pc = "open root"
  /\ fd' = IF Used(Root) THEN [pid |-> Root, born |-> live[Root].born] ELSE None
  /\ pc' = IF Used(Root) THEN "check root" ELSE "refused"
  /\ UNCHANGED <<mode, todo, table, fds, signalled, kernel>>

CheckRoot ==
  /\ pc = "check root"
  /\ IF Identified(Root) /\ Alive(fd.born)
       THEN fds' = {fd.born} /\ todo' = Pids
            /\ pc' = IF mode = "process" THEN "last check" ELSE "list"
       ELSE pc' = "refused" /\ UNCHANGED <<fds, todo>>
  /\ UNCHANGED <<mode, table, fd, signalled, kernel>>

ReadProcess(p) ==
  /\ pc = "list" /\ p \in todo
  /\ table' = [table EXCEPT ![p] = live[p]]
  /\ todo' = todo \ {p}
  /\ UNCHANGED <<mode, pc, fd, fds, signalled, kernel>>

Listed == {p \in Pids : table[p] # None}
GroupMembers == {p \in Listed : table[p].group = Root}

(* tree_members: everything reachable from the root over the parents it read. *)
TreeMembers ==
  LET below[n \in Nat] ==
        IF n = 0 THEN {Root} ELSE below[n - 1] \cup {p \in Listed : table[p].parent \in below[n - 1]}
  IN below[Cardinality(Pids)]

ChooseMembers ==
  /\ pc = "list" /\ todo = {}
  /\ todo' = (IF mode = "group" THEN GroupMembers ELSE TreeMembers) \ {Root}
  /\ pc' = "open"
  /\ UNCHANGED <<mode, table, fd, fds, signalled, kernel>>

OpenMember(p) ==
  /\ pc = "open" /\ p \in todo
  /\ IF Used(p) THEN fd' = [pid |-> p, born |-> live[p].born] /\ pc' = "check" /\ UNCHANGED todo
                ELSE todo' = todo \ {p} /\ UNCHANGED <<fd, pc>>
  /\ UNCHANGED <<mode, table, fds, signalled, kernel>>

(* Only in group mode is there something to compare a member with. *)
Belongs(p) == Used(p) /\ (mode = "group" => live[p].group = Root)

CheckMember ==
  /\ pc = "check"
  /\ fds' = IF Belongs(fd.pid) /\ Alive(fd.born) THEN fds \cup {fd.born} ELSE fds
  /\ todo' = todo \ {fd.pid}
  /\ pc' = "open"
  /\ UNCHANGED <<mode, table, fd, signalled, kernel>>

Opened ==
  /\ pc = "open" /\ todo = {}
  /\ pc' = "last check"
  /\ UNCHANGED <<mode, todo, table, fd, fds, signalled, kernel>>

(* If the provider has ended meanwhile, its group and its tree are not its own  *)
(* any more.                                                                   *)
LastCheck ==
  /\ pc = "last check"
  /\ pc' = IF Identified(Root) THEN "signal" ELSE "refused"
  /\ UNCHANGED <<mode, todo, table, fd, fds, signalled, kernel>>

(* TERM for the root first: if that fails, nobody else is signalled. *)
SignalRoot ==
  /\ pc = "signal"
  /\ pc' = IF Alive(Provider) THEN "term" ELSE "refused"
  /\ signalled' = IF Alive(Provider) THEN signalled \cup {Provider} ELSE signalled
  /\ UNCHANGED <<mode, todo, table, fd, fds, kernel>>

(* TERM for all of them; those that can take none are let go. *)
SignalAll ==
  /\ pc = "term"
  /\ fds' = {b \in fds : Alive(b)}
  /\ signalled' = signalled \cup fds'
  /\ pc' = "wait"
  /\ UNCHANGED <<mode, todo, table, fd, kernel>>

(* After the grace KILL ends whoever is left. *)
Kill ==
  /\ pc = "wait"
  /\ live' = [p \in Pids |-> IF Used(p) /\ live[p].born \in fds THEN None ELSE live[p]]
  /\ pc' = "done"
  /\ UNCHANGED <<mode, todo, table, fd, fds, signalled, births, kin>>

Next ==
  \/ \E p, q \in Pids : Fork(p, q)
  \/ \E p \in Pids : Spawn(p) \/ Exit(p) \/ ReadProcess(p) \/ OpenMember(p)
  \/ OpenRoot \/ CheckRoot \/ ChooseMembers \/ CheckMember \/ Opened
  \/ LastCheck \/ SignalRoot \/ SignalAll \/ Kill

Spec == Init /\ [][Next]_vars

-----------------------------------------------------------------------------
(* Whatever numbers were reused while the helper worked, a process that never   *)
(* was in the provider's group gets no signal when the group is ended, and      *)
(* nobody but the provider itself when the process is.  (The members of a tree  *)
(* are opened by number alone, so in that mode a reused number can be hit.)     *)
SignalsStayInside ==
  /\ mode = "group" => signalled \subseteq kin
  /\ mode = "process" => signalled \subseteq {Provider}
=============================================================================
