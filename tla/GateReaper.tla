------------------------------ MODULE GateReaper ------------------------------
(* The files that builds leave in the directory of the build gate, and the two *)
(* readers that clean up among them: the reaper of abandoned publications      *)
(* (src/src/priv/build_gate_reaper.py), which every waiting build runs now and *)
(* then, and the scan of the locks (build_gate_holder_lib/files.py).           *)
(*                                                                             *)
(* A build queues, takes a slot's lock, publishes itself as the slot's owner   *)
(* through a candidate file, makes the files of its handshake with its holder, *)
(* starts the holder, and publishes once more.  What the holder then does is   *)
(* in BuildGate.  Wrapper and holder may be killed at any time.  A reaper in    *)
(* another process namespace sees none of the build's processes.  The lock that  *)
(* paces phases, a last candidate of the scan, is left out.                    *)
EXTENDS Naturals, FiniteSets, FiniteSetsExt

CONSTANTS
  Builds,
  Slots,            \* 1 .. capacity
  Visible,          \* for each namespace a reaper may run in, the builds it sees
  Grace,            \* GRACE_SECONDS
  CandidateLimit,   \* SCAN_CANDIDATE_LIMIT
  DetailLimit,      \* SCAN_DETAIL_LIMIT
  None,
  MaxTime           \* bound on the clock

(* The record of a slot's owner. *)
Owners == [build : Builds, acquired : Nat]

(* What the constants have to satisfy. *)
ReaperAssumption ==
  /\ IsFiniteSet(Slots) /\ Slots = 1 .. Cardinality(Slots) /\ None \notin Slots /\ None \notin Owners
  /\ Grace \in Nat \ {0} /\ CandidateLimit \in Nat /\ DetailLimit \in Nat /\ MaxTime \in Nat
  /\ \A space \in DOMAIN Visible : Visible[space] \subseteq Builds

VARIABLES
  clock,
  files,      \* candidates and handshakes: [build, kind, at], at the modification time
  owner,      \* slot-<n>.owner: the record of each slot, or None
  lock,       \* who holds each slot's lock: wrapper and holder share one
  queue,      \* the builds with a file in the queue directory, alive or not
  phase,      \* where each build's wrapper is
  holder,     \* the builds whose holder is alive
  slot,       \* the slot each build took
  reaper,     \* the one reaper at work: [pc, sees, now, listed, slots, open, alive, starts]
  report      \* what the last scan printed

vars == <<clock, files, owner, lock, queue, phase, holder, slot, reaper, report>>
gate == <<owner, lock, queue, phase, holder, slot>>

Idle == [pc |-> "idle"]

Init ==
  /\ clock = 0 /\ files = {} /\ queue = {} /\ holder = {}
  /\ owner = [s \in Slots |-> None]
  /\ lock = [s \in Slots |-> {}]
  /\ phase = [b \in Builds |-> "new"]
  /\ slot = [b \in Builds |-> None]
  /\ reaper = Idle /\ report = None

Gone == {"new", "over"}
Wrapped(b) == phase[b] \notin Gone \cup {"orphan"}

(* A handshake is still read or written by the holder, or by the wrapper that   *)
(* has yet to hear from it.                                                    *)
Needed(f) == f.kind = "handshake" /\ (f.build \in holder \/ phase[f.build] = "created")

(* ---- Plausible slips in the code below, each of which TLC must catch. ---- *)

(* Every publication stamps the acquisition anew. *)
LastPublished(b, prior) == clock

(* ---- Builds ---- *)

(* flock: the descriptor of the wrapper, and the one its holder inherits. *)
Share(b, process) == [build |-> b, process |-> process]

(* Time passes; a report is read at once. *)
Tick ==
  /\ clock < MaxTime /\ clock' = clock + 1
  /\ report' = None
  /\ UNCHANGED <<files, gate, reaper>>

Move(b, to) == phase' = [phase EXCEPT ![b] = to]

Enqueue(b) ==
  /\ phase[b] = "new"
  /\ queue' = queue \cup {b} /\ Move(b, "queued")
  /\ UNCHANGED <<clock, files, owner, lock, holder, slot, reaper, report>>

Acquire(b, s) ==
  /\ phase[b] = "queued" /\ lock[s] = {}
  /\ lock' = [lock EXCEPT ![s] = {Share(b, "wrapper")}]
  /\ slot' = [slot EXCEPT ![b] = s]
  /\ Move(b, "locked")
  /\ UNCHANGED <<clock, files, owner, queue, holder, reaper, report>>

(* mktemp and printf of the owner's record. *)
Candidate(b) == [build |-> b, kind |-> "owner", at |-> clock]
Draft(b) ==
  /\ phase[b] \in {"locked", "held"}
  /\ files' = files \cup {Candidate(b)}
  /\ Move(b, IF phase[b] = "locked" THEN "drafted" ELSE "redrafted")
  /\ UNCHANGED <<clock, owner, lock, queue, holder, slot, reaper, report>>

(* The record keeps the time of this build's first publication. *)
Acquired(b, prior) == IF prior # None /\ prior.build = b THEN prior.acquired ELSE clock

(* Moved over the slot's owner; without the candidate there is nothing to move  *)
(* and the build gives up its slot.                                            *)
Publish(b) ==
  LET mine == {f \in files : f.build = b /\ f.kind = "owner"}
      s == slot[b]
  IN
  /\ phase[b] \in {"drafted", "redrafted"} /\ mine # {}
  /\ files' = files \ mine
  /\ owner' = [owner EXCEPT ![s] = [build |-> b, acquired |-> Acquired(b, owner[s])]]
  /\ queue' = queue \ {b}
  /\ Move(b, IF phase[b] = "drafted" THEN "owned" ELSE "running")
  /\ lock' = IF phase[b] = "redrafted" THEN [lock EXCEPT ![s] = {Share(b, "holder")}] ELSE lock
  /\ UNCHANGED <<clock, holder, slot, reaper, report>>

(* The six files of the handshake are made together. *)
Create(b) ==
  /\ phase[b] = "owned"
  /\ files' = files \cup {[build |-> b, kind |-> "handshake", at |-> clock]}
  /\ Move(b, "created")
  /\ UNCHANGED <<clock, owner, lock, queue, holder, slot, reaper, report>>

(* The holder inherits the lock and names the files in its arguments. *)
StartHolder(b) ==
  /\ phase[b] = "created"
  /\ holder' = holder \cup {b}
  /\ lock' = [lock EXCEPT ![slot[b]] = @ \cup {Share(b, "holder")}]
  /\ Move(b, "held")
  /\ UNCHANGED <<clock, files, owner, queue, slot, reaper, report>>

Release(b) ==
  /\ holder' = holder \ {b}
  /\ lock' = [s \in Slots |-> IF s = slot[b] THEN lock[s] \ {Share(b, "wrapper"), Share(b, "holder")} ELSE lock[s]]

(* The build ends, fails or times out with its wrapper alive: it removes what   *)
(* it made.                                                                    *)
Finish(b) ==
  /\ Wrapped(b)
  /\ Release(b)
  /\ files' = {f \in files : f.build # b}
  /\ owner' = [s \in Slots |-> IF s = slot[b] THEN None ELSE owner[s]]
  /\ queue' = queue \ {b}
  /\ Move(b, "over")
  /\ UNCHANGED <<clock, slot, reaper, report>>

(* The wrapper is killed: its files stay, and so does the lock while a holder   *)
(* has it.                                                                     *)
KillWrapper(b) ==
  /\ Wrapped(b)
  /\ lock' = [s \in Slots |-> lock[s] \ {Share(b, "wrapper")}]
  /\ Move(b, IF b \in holder THEN "orphan" ELSE "over")
  /\ UNCHANGED <<clock, files, owner, queue, holder, slot, reaper, report>>

HolderEnds(b) ==
  /\ phase[b] = "orphan"
  /\ Release(b) /\ Move(b, "over")
  /\ UNCHANGED <<clock, files, owner, queue, slot, reaper, report>>

(* ---- The reaper ---- *)

Old(f, now) == now - f.at >= Grace

(* One listing gives the candidates old enough and the slots with an owner. *)
List(space) ==
  LET old == {f \in files : Old(f, clock)} IN
  /\ reaper = Idle /\ old # {}
  /\ reaper' = [pc |-> "processes", sees |-> Visible[space], now |-> clock, listed |-> old,
                slots |-> {s \in Slots : owner[s] # None}, open |-> {}, alive |-> {}, starts |-> {}]
  /\ UNCHANGED <<clock, files, gate, report>>

(* The processes of its own namespace: the files their arguments name and who   *)
(* of them is alive.                                                           *)
Processes ==
  /\ reaper.pc = "processes"
  /\ reaper' = [reaper EXCEPT !.pc = "locks",
                  !.open = {f \in files : f.build \in holder \cap reaper.sees},
                  !.alive = {b \in reaper.sees : Wrapped(b) \/ b \in holder}]
  /\ UNCHANGED <<clock, files, gate, report>>

(* /proc cannot be read in three attempts: nothing is reaped. *)
Blind ==
  /\ reaper.pc = "processes"
  /\ reaper' = Idle
  /\ UNCHANGED <<clock, files, gate, report>>

(* A slot whose lock is held dates its owner's acquisition; one that is free is *)
(* left alone.                                                                 *)
Starts(s) ==
  /\ reaper.pc = "locks" /\ s \in reaper.slots
  /\ reaper' = [reaper EXCEPT !.slots = @ \ {s},
                  !.starts = IF lock[s] # {} /\ owner[s] # None THEN @ \cup {owner[s].acquired} ELSE @]
  /\ UNCHANGED <<clock, files, gate, report>>

Located ==
  /\ reaper.pc = "locks" /\ reaper.slots = {}
  /\ reaper' = [reaper EXCEPT !.pc = "judge"]
  /\ UNCHANGED <<clock, files, gate, report>>

(* candidate_is_dead *)
Dead(f) ==
  /\ f \in files /\ f \notin reaper.open /\ Old(f, reaper.now)
  /\ f.kind = "owner" => f.build \notin reaper.alive
  /\ f.kind = "handshake" => \A start \in reaper.starts : f.at < start

Judge(f) ==
  /\ reaper.pc = "judge" /\ f \in reaper.listed
  /\ files' = IF Dead(f) THEN files \ {f} ELSE files
  /\ reaper' = IF reaper.listed = {f} THEN Idle ELSE [reaper EXCEPT !.listed = @ \ {f}]
  /\ UNCHANGED <<clock, gate, report>>

(* ---- The scan ---- *)

(* What the scan leaves out of its report degrades it. *)
Exceeded(scanned, found) ==
  \/ scanned < Cardinality(Slots) + Cardinality(queue)
  \/ found > DetailLimit

(* Slots first, then the queue in any order, up to the limit.  A lock nobody    *)
(* holds is taken for a moment and the record behind it removed.               *)
Scan ==
  LET first == {s \in Slots : s <= CandidateLimit}
      room == Min({CandidateLimit - Cardinality(first), Cardinality(queue)})
      active == {s \in first : lock[s] # {}}
  IN \E waiting \in kSubset(room, queue) :
  LET alive == {b \in waiting : Wrapped(b)}
      found == Cardinality(active) + Cardinality(alive)
  IN
  /\ report = None
  /\ report' = [active |-> Cardinality(active), queued |-> Cardinality(alive),
                degraded |-> Exceeded(Cardinality(first) + room, found)]
  /\ owner' = [s \in Slots |-> IF s \in first \ active THEN None ELSE owner[s]]
  /\ queue' = queue \ (waiting \ alive)
  /\ UNCHANGED <<clock, files, lock, phase, holder, slot, reaper>>

Next ==
  \/ Tick \/ Scan \/ Processes \/ Blind \/ Located
  \/ \E b \in Builds :
       \/ Enqueue(b) \/ (\E s \in Slots : Acquire(b, s)) \/ Draft(b) \/ Publish(b) \/ Create(b)
       \/ StartHolder(b) \/ Finish(b) \/ KillWrapper(b) \/ HolderEnds(b)
  \/ \E space \in DOMAIN Visible : List(space)
  \/ \E s \in Slots : Starts(s)
  \/ \E f \in files \cup (IF reaper = Idle THEN {} ELSE reaper.listed) : Judge(f)

Spec == Init /\ [][Next]_vars

-----------------------------------------------------------------------------
(* Whatever namespace a reaper runs in, and however long a build takes, the     *)
(* files of a handshake that is still in use are never unlinked under it.      *)
KeepsHandshakes ==
  reaper # Idle /\ reaper.pc = "judge" /\ reaper' # reaper
    => \A f \in files \ files' : ~Needed(f)

(* A scan that does not call itself degraded has counted every slot in use and  *)
(* every build that waits.                                                     *)
CountsAll ==
  report = None /\ report' # None /\ ~report'.degraded =>
    /\ report'.active = Cardinality({s \in Slots : lock[s] # {}})
    /\ report'.queued = Cardinality({b \in queue : Wrapped(b)})
=============================================================================
