------------------------- MODULE WorkspaceOwnership -------------------------
(***************************************************************************)
(* The ownership of one ticket's workspace on one daemon                   *)
(* (lib/aiur/workspace/ownership.ex and ownership/).                       *)
(*                                                                         *)
(* A runner claims the workspace and gets a generation; a guardian process *)
(* holds the registry entry and persists a receipt through a store.  The   *)
(* runner announces a provider (the coding agent's OS processes) before it *)
(* starts one and reports its identity afterwards.  The runner may be      *)
(* killed, the daemon may stop and the host may reboot at any point; the   *)
(* guardian, or the one restored from the receipt at the next boot, gives  *)
(* the workspace away only once it believes the provider gone.             *)
(*                                                                         *)
(* A call to the guardian is one step: the caller is blocked meanwhile.  A *)
(* call that is answered with an error may have been executed or not.      *)
(***************************************************************************)
EXTENDS Naturals

CONSTANTS
    Runners,     \* runner processes of the ticket, one after the other or at once
    NoReceipt,
    MaxGen,      \* bound: generations claimed
    MaxBoots,    \* bound: boots of the daemon
    MaxFaults,   \* bound: failed or timed-out writes, audits, probes and kills
    Fallback,    \* the generations whose backend declares a fallback_backend
    Orphans      \* a provider missing from the receipt outlives its daemon

Phases == {"provisioning", "active", "reaping"}
Kinds == {"none", "group", "snapshot", "remote"}
Cleanups == {"not_started", "unresolved", "failed", "succeeded"}
Scopes == {"unknown", "local", "remote"}

\* What the guardian knows and persists.  `provider` tells the first provider
\* started under a generation from the fallback's, `boot` is the kernel boot
\* and `lock` the boot of the daemon that holds the host lock; 0 is nil.
Receipts ==
    [gen : Nat, phase : Phases, expected : BOOLEAN, provider : 0..2, kind : Kinds,
     cleanup : Cleanups, scope : Scopes, boot : Nat, lock : Nat]

Holdings == Receipts \cup {NoReceipt}

ASSUME BoundsAssumption ==
    /\ MaxGen \in Nat /\ MaxBoots \in Nat \ {0} /\ MaxFaults \in Nat
    /\ Fallback \subseteq Nat /\ Orphans \in BOOLEAN
    /\ NoReceipt \notin Receipts

VARIABLES
    up,         \* the daemon runs
    vm,         \* number of its boots: stands for its OS pid
    kernel,     \* the kernel boot id
    store,      \* Store: its memory and the file behind it
    guardian,   \* the registered guardian's receipt, NoReceipt when there is none
    flags,      \* the rest of its state
    pending,    \* its mailbox, and "reaper" while a reaper process runs
    nextGen,
    pc, lease,  \* each runner: where it is, and the generation it holds
    seen,       \* the receipt a claim has read
    live,       \* providers with a process alive on the host: <<gen, provider>>
    faults

host == <<up, vm, kernel>>
guarded == <<store, guardian, flags, pending>>
vars == <<host, guarded, nextGen, pc, lease, seen, live, faults>>

NoFlags == [ownerDead |-> FALSE, requested |-> FALSE, reaping |-> FALSE]

\* The runner holds the workspace and may start or use a provider in it.
Working == {"claimed", "locked", "active", "expecting", "spawned", "tracked",
            "falling_back", "stopping"}

Init ==
    /\ up = TRUE /\ vm = 1 /\ kernel = 1
    /\ store = [mem |-> NoReceipt, file |-> NoReceipt]
    /\ guardian = NoReceipt /\ flags = NoFlags /\ pending = {}
    /\ nextGen = 1
    /\ pc = [r \in Runners |-> "idle"]
    /\ lease = [r \in Runners |-> 0]
    /\ seen = [r \in Runners |-> NoReceipt]
    /\ live = {}
    /\ faults = 0

-----------------------------------------------------------------------------
\* The store.

Fault == faults < MaxFaults /\ faults' = faults + 1
NoFault == UNCHANGED faults

\* After a write that succeeded, and after one that returned an error: nothing
\* written, the file written and its sync failed, or the call timed out first.
Stored(v) == [mem |-> v, file |-> v]
Unstored(s, v) == {s, [s EXCEPT !.file = v], Stored(v)}

\* Receipt.update_phase/2 ignores the result of its write.
PersistIgnored(v) ==
    \/ store' = Stored(v) /\ NoFault
    \/ store' \in Unstored(store, v) /\ Fault

\* A delete of what is not in memory does not touch the file.
Deleted == IF store.mem = NoReceipt THEN store ELSE Stored(NoReceipt)
Undeleted == IF store.mem = NoReceipt THEN {store} ELSE Unstored(store, NoReceipt)

-----------------------------------------------------------------------------
\* What is known of a provider.

Alive(rec) == <<rec.gen, rec.provider>> \in live

\* The provider was local and the kernel, or the daemon that held the host
\* lock, is another one now.
ExitProof(rec) ==
    /\ rec.scope = "local"
    /\ (rec.boot # 0 /\ rec.boot # kernel) \/ (rec.lock # 0 /\ rec.lock # vm)

\* A root and its recorded descendants prove nothing about later children.
Unprovable(rec, fl) == rec.kind = "snapshot" /\ (fl.ownerDead \/ rec.cleanup = "failed")

-----------------------------------------------------------------------------
\* Plausible slips in the code below, each of which TLC must catch.

\* A provider that was never reported is taken for none.
ForgetsExpectation(rec, fl) ==
    IF rec.cleanup = "succeeded" \/ rec.provider = 0 THEN "release"
    ELSE IF fl.reaping THEN "stay"
    ELSE IF rec.kind = "remote" THEN (IF fl.requested THEN "release" ELSE "hold")
    ELSE IF Alive(rec) THEN "reap" ELSE "hold"

\* A retry that was due is not scheduled.
NeverRetries(d) == IF d = "reap" THEN {"reaper"} ELSE {}

\* The runner goes on although its receipt was not written.
IgnoresRefusal(r, from, to, refused, rec) ==
    /\ guardian' = rec
    /\ up /\ pc[r] = from /\ pc' = [pc EXCEPT ![r] = to]
    /\ \/ store' = Stored(rec) /\ NoFault
       \/ store' \in Unstored(store, rec) /\ Fault
    /\ UNCHANGED <<host, flags, pending, nextGen, lease, seen>>

-----------------------------------------------------------------------------
\* Reaper: what to do with a lease whose owner asks to release it or is dead.

Decision(rec, fl) ==
    CASE rec.cleanup = "succeeded" -> "release"
      [] rec.cleanup # "succeeded" /\ rec.provider = 0 ->
            IF rec.expected => ExitProof(rec) THEN "release" ELSE "hold"
      [] rec.cleanup # "succeeded" /\ rec.provider # 0 /\ fl.reaping -> "stay"
      [] rec.cleanup # "succeeded" /\ rec.kind = "remote" /\ ~fl.reaping ->
            IF fl.requested THEN "release" ELSE "hold"
      [] OTHER -> IF Alive(rec) THEN "reap" ELSE IF Unprovable(rec, fl) THEN "hold" ELSE "release"

\* The decision when the audit record cannot be written or a probe of the
\* recorded processes fails.
InDoubt(rec, fl) ==
    IF rec.provider = 0 THEN "hold" ELSE IF Unprovable(rec, fl) THEN "hold" ELSE "retry"

Doubtful(rec, fl) ==
    /\ rec.cleanup # "succeeded"
    /\ IF rec.provider = 0 THEN rec.expected /\ ExitProof(rec)
       ELSE ~fl.reaping /\ rec.kind # "remote"

DecisionAfterReap(rec, fl) ==
    CASE rec.kind \notin {"group", "snapshot"} -> "stay"
      [] rec.kind \in {"group", "snapshot"} /\ Alive(rec) ->
            IF Unprovable(rec, fl) THEN "reap" ELSE "retry"
      [] OTHER -> IF Unprovable(rec, fl) THEN "hold" ELSE "release"

Sent(d) == IF d = "reap" THEN {"reaper"} ELSE IF d = "retry" THEN {"retry"} ELSE {}

\* Guardian.release_guardian/1; a delete that fails is retried.
Release(rec, fl, mail) ==
    LET kept == [rec EXCEPT !.phase = "reaping"]
    IN  \/ /\ store' = Deleted
           /\ guardian' = NoReceipt /\ flags' = NoFlags /\ pending' = {}
           /\ NoFault
        \/ /\ \E s \in Undeleted : store' \in Unstored(s, kept) \cup {Stored(kept)}
           /\ guardian' = kept
           /\ flags' = [fl EXCEPT !.reaping = TRUE]
           /\ pending' = mail \cup {"retry"}
           /\ Fault

Keep(d, rec, fl, mail) ==
    /\ guardian' = IF d \in {"hold", "reap"} THEN [rec EXCEPT !.phase = "reaping"] ELSE rec
    /\ flags' = [fl EXCEPT !.reaping = @ \/ d \in {"reap", "retry"}]
    /\ pending' = mail \cup Sent(d)

Apply(d, rec, fl, mail) ==
    \/ d = "release" /\ Release(rec, fl, mail)
    \/ d \in {"hold", "reap"} /\ Keep(d, rec, fl, mail) /\ PersistIgnored(guardian')
    \/ d \in {"stay", "retry"} /\ Keep(d, rec, fl, mail) /\ UNCHANGED store /\ NoFault

ApplyInDoubt(rec, fl, mail) ==
    /\ Keep(InDoubt(rec, fl), rec, fl, mail)
    /\ store' = IF InDoubt(rec, fl) = "hold" THEN Stored(guardian') ELSE store
    /\ Fault

Settle(rec, fl, mail) ==
    \/ Apply(Decision(rec, fl), rec, fl, mail)
    \/ Doubtful(rec, fl) /\ ApplyInDoubt(rec, fl, mail)

-----------------------------------------------------------------------------
\* Claiming: the registry, then the receipt, then a guardian.

Step(r, from, to) == up /\ pc[r] = from /\ pc' = [pc EXCEPT ![r] = to]

CheckRegistry(r) ==
    /\ guardian = NoReceipt
    /\ Step(r, "idle", "checking")
    /\ UNCHANGED <<host, guarded, nextGen, lease, seen, live, faults>>

ReadReceipt(r) ==
    /\ Step(r, "checking", IF store.mem = NoReceipt THEN "starting" ELSE "restoring")
    /\ seen' = [seen EXCEPT ![r] = store.mem]
    /\ UNCHANGED <<host, guarded, nextGen, lease, live, faults>>

NewReceipt ==
    [gen |-> nextGen, phase |-> "provisioning", expected |-> FALSE, provider |-> 0,
     kind |-> "none", cleanup |-> "not_started", scope |-> "unknown", boot |-> 0, lock |-> 0]

StartGuardian(r) ==
    /\ guardian = NoReceipt
    /\ nextGen <= MaxGen
    /\ nextGen' = nextGen + 1
    /\ \/ /\ Step(r, "starting", "claimed")
          /\ guardian' = NewReceipt
          /\ store' = Stored(NewReceipt)
          /\ lease' = [lease EXCEPT ![r] = nextGen]
          /\ NoFault
       \/ /\ Step(r, "starting", "idle")
          /\ store' \in Unstored(store, NewReceipt)
          /\ Fault
          /\ UNCHANGED <<guardian, lease>>
    /\ UNCHANGED <<host, flags, pending, seen, live>>

RestoredFlags == [NoFlags EXCEPT !.ownerDead = TRUE]

Restored(receipt) == [receipt EXCEPT !.phase = "reaping"]

\* The claim is refused, and the guardian of the receipt's generation is back.
RestoreGuardian(r) ==
    /\ guardian = NoReceipt
    /\ Step(r, "restoring", "idle")
    /\ seen' = [seen EXCEPT ![r] = NoReceipt]
    /\ Settle(Restored(seen[r]), RestoredFlags, {})
    /\ UNCHANGED <<host, nextGen, lease, live>>

\* Another claim has registered its guardian in the meantime.
Refused(r) ==
    /\ guardian # NoReceipt
    /\ \E from \in {"starting", "restoring"} : Step(r, from, "idle")
    /\ seen' = [seen EXCEPT ![r] = NoReceipt]
    /\ UNCHANGED <<host, guarded, nextGen, lease, live, faults>>

Claim(r) == CheckRegistry(r) \/ ReadReceipt(r) \/ StartGuardian(r) \/ RestoreGuardian(r) \/ Refused(r)

-----------------------------------------------------------------------------
\* The runner's calls to its guardian.

\* A call that persists: the runner goes on, or to `refused` when the write
\* fails.  The guardian's own state advances in both cases.
Persist(r, from, to, refused, rec) ==
    /\ guardian' = rec
    /\ \/ Step(r, from, to) /\ store' = Stored(rec) /\ NoFault
       \/ Step(r, from, refused) /\ store' \in Unstored(store, rec) /\ Fault
    /\ UNCHANGED <<host, flags, pending, nextGen, lease, seen>>

Held(r) == guardian # NoReceipt /\ guardian.gen = lease[r]
Usable(r) == Held(r) /\ guardian.phase \in {"provisioning", "active"}

\* A remote worker's workspace has no lock on this host.
TrackHostLock(r) ==
    /\ Usable(r)
    /\ \/ Persist(r, "claimed", "locked", "ending", [guardian EXCEPT !.lock = vm])
       \/ Step(r, "claimed", "locked") /\ UNCHANGED <<host, guarded, nextGen, lease, seen, faults>>
    /\ UNCHANGED live

Activate(r) ==
    /\ Held(r)
    /\ Persist(r, "locked", "active", "ending", [guardian EXCEPT !.phase = "active"])
    /\ UNCHANGED live

\* The boot id of a local provider may be unreadable.
ExpectProvider(r) ==
    /\ Usable(r)
    /\ \E scope \in IF guardian.lock = 0 THEN {"remote"} ELSE {"local", "unknown"} :
         Persist(r, "active", "expecting", "ending",
                 [guardian EXCEPT !.expected = TRUE, !.cleanup = "unresolved", !.scope = scope,
                                  !.boot = IF scope = "local" THEN kernel ELSE 0])
    /\ UNCHANGED live

\* The start fails with a reason that proves nothing was spawned.
CancelExpectation(r) ==
    /\ Held(r) /\ guardian.provider = 0
    /\ Persist(r, "expecting", "ending", "ending",
               [guardian EXCEPT !.expected = FALSE, !.cleanup = "not_started",
                                !.scope = "unknown", !.boot = 0])
    /\ UNCHANGED live

\* The start fails with any other reason.
SpawnFails(r) ==
    /\ \E from \in {"expecting", "falling_back"} : Step(r, from, "ending")
    /\ UNCHANGED <<host, guarded, nextGen, lease, seen, live, faults>>

\* A remote provider has no process on this host.
Spawn(r) ==
    /\ \E n \in {1, 2} :
         /\ Step(r, IF n = 1 THEN "expecting" ELSE "falling_back", "spawned")
         /\ live' = IF guardian.scope = "remote" THEN live ELSE live \cup {<<lease[r], n>>}
    /\ UNCHANGED <<host, guarded, nextGen, lease, seen, faults>>

TrackProvider(r) ==
    /\ Usable(r)
    /\ \E kind \in IF guardian.scope = "remote" THEN {"remote"} ELSE {"group", "snapshot"} :
         Persist(r, "spawned", "tracked", "stopping",
                 [guardian EXCEPT !.expected = TRUE, !.kind = kind,
                                  !.provider = IF @ = 0 THEN 1 ELSE 2])
    /\ UNCHANGED live

ProviderOf(r) == {p \in live : p[1] = lease[r]}

\* Both marks; a cleanup that has succeeded is not marked unknown afterwards.
Marked(outcome) ==
    [guardian EXCEPT !.cleanup = IF @ = "succeeded" THEN @ ELSE outcome]

\* Stopping the session proves the provider gone, or proves nothing.
StopSession(r, then) ==
    \E from \in {"tracked", "stopping"} :
        \/ /\ guardian.kind # "remote"
           /\ live' = live \ ProviderOf(r)
           /\ Persist(r, from, then, then, Marked("succeeded"))
        \/ /\ live' \in {live, live \ ProviderOf(r)}
           /\ Persist(r, from, "ending", "ending", Marked("failed"))

\* The session ends, or its start fails after the spawn and nothing is marked.
EndSession(r) ==
    /\ Usable(r)
    /\ \/ StopSession(r, "ending")
       \/ /\ \E from \in {"tracked", "stopping"} : Step(r, from, "ending")
          /\ live' \in {live, live \ ProviderOf(r)}
          /\ UNCHANGED <<host, guarded, nextGen, lease, seen, faults>>

\* The REPL's pane is not ready and is torn down: the fallback backend is
\* started under the same expectation.
FallBack(r) ==
    /\ lease[r] \in Fallback /\ Usable(r) /\ guardian.provider = 1
    /\ StopSession(r, "falling_back")

\* release_and_wait, then the end of the runner, which the guardian monitors.
ReleaseAndWait(r) ==
    /\ Held(r)
    /\ Step(r, "ending", "idle")
    /\ lease' = [lease EXCEPT ![r] = 0]
    /\ Settle(guardian, [flags EXCEPT !.requested = TRUE], pending \cup {"down"})
    /\ UNCHANGED <<host, nextGen, seen, live>>

RunnerKilled(r) ==
    /\ \E from \in Working \cup {"ending"} : Step(r, from, "idle")
    /\ lease' = [lease EXCEPT ![r] = 0]
    /\ pending' = IF Held(r) THEN pending \cup {"down"} ELSE pending
    /\ UNCHANGED <<host, store, guardian, flags, nextGen, seen, live, faults>>

\* A new runner that finds the workspace being reaped asks for its release.
ReleaseReaping(r) ==
    /\ up /\ pc[r] = "idle"
    /\ guardian # NoReceipt /\ guardian.phase = "reaping"
    /\ store.mem # NoReceipt /\ store.mem.gen = guardian.gen
    /\ store.mem.kind \in {"group", "snapshot"}
    /\ Settle(guardian, [flags EXCEPT !.requested = TRUE], pending)
    /\ UNCHANGED <<host, nextGen, pc, lease, seen, live>>

Runner(r) ==
    \/ Claim(r)
    \/ TrackHostLock(r) \/ Activate(r) \/ ExpectProvider(r) \/ CancelExpectation(r)
    \/ SpawnFails(r) \/ Spawn(r) \/ TrackProvider(r) \/ EndSession(r) \/ FallBack(r)
    \/ ReleaseAndWait(r) \/ RunnerKilled(r) \/ ReleaseReaping(r)

-----------------------------------------------------------------------------
\* The guardian's other messages, the operator, the host.

Unmoved == UNCHANGED <<host, nextGen, pc, lease, seen>>

OwnerDown ==
    /\ up /\ "down" \in pending
    /\ Settle(guardian, [flags EXCEPT !.ownerDead = TRUE], pending \ {"down"})
    /\ Unmoved /\ UNCHANGED live

\* The reaper process signals the recorded processes; the signal may fail.
ReaperRuns ==
    /\ up /\ "reaper" \in pending
    /\ pending' = (pending \ {"reaper"}) \cup {"reaped"}
    /\ \/ live' = live \ {<<guardian.gen, guardian.provider>>} /\ NoFault
       \/ UNCHANGED live /\ Fault
    /\ Unmoved /\ UNCHANGED <<store, guardian, flags>>

Reaped ==
    /\ up /\ "reaped" \in pending
    /\ LET mail == pending \ {"reaped"}
       IN  \/ Apply(DecisionAfterReap(guardian, flags), guardian, flags, mail)
           \/ guardian.kind \in {"group", "snapshot"} /\ ApplyInDoubt(guardian, flags, mail)
    /\ Unmoved /\ UNCHANGED live

RetryReap ==
    /\ up /\ "retry" \in pending
    /\ Settle(guardian, [flags EXCEPT !.reaping = FALSE], pending \ {"retry"})
    /\ Unmoved /\ UNCHANGED live

\* release_if_held_with_exit_proof, after an audit that failed before.
OperatorReleases ==
    /\ up /\ guardian # NoReceipt /\ guardian.phase = "reaping"
    /\ guardian.provider = 0 /\ guardian.expected /\ ExitProof(guardian)
    /\ Settle([guardian EXCEPT !.cleanup = "succeeded"], [flags EXCEPT !.requested = TRUE], pending)
    /\ Unmoved /\ UNCHANGED live

ProviderExits ==
    /\ \E p \in live : live' = live \ {p}
    /\ Unmoved /\ UNCHANGED <<guarded, faults>>

\* Providers the receipt on disk names.
Recorded == {p \in live : store.file # NoReceipt /\ p = <<store.file.gen, store.file.provider>>}

\* The daemon stops, or the host reboots.  The store's memory becomes what
\* the next boot loads.
DaemonStops ==
    /\ up /\ up' = FALSE
    /\ vm < MaxBoots /\ vm' = vm + 1
    /\ \/ live' = (IF Orphans THEN live ELSE Recorded) /\ UNCHANGED kernel
       \/ live' = {} /\ kernel' = kernel + 1
    /\ store' = Stored(store.file)
    /\ guardian' = NoReceipt /\ flags' = NoFlags /\ pending' = {}
    /\ pc' = [r \in Runners |-> "idle"]
    /\ lease' = [r \in Runners |-> 0]
    /\ seen' = [r \in Runners |-> NoReceipt]
    /\ UNCHANGED <<nextGen, faults>>

\* Store.init and Reconciler.init: every receipt gets a guardian again.
Boot ==
    /\ ~up /\ up' = TRUE
    /\ IF store.mem = NoReceipt
       THEN UNCHANGED <<guarded, faults>>
       ELSE Settle(Restored(store.mem), RestoredFlags, {})
    /\ UNCHANGED <<vm, kernel, nextGen, pc, lease, seen, live>>

Guardian == OwnerDown \/ ReaperRuns \/ Reaped \/ RetryReap

Next ==
    \/ \E r \in Runners : Runner(r)
    \/ Guardian \/ OperatorReleases \/ ProviderExits \/ DaemonStops \/ Boot

Spec == Init /\ [][Next]_vars

\* A guardian serves its mailbox, its reaper processes end and its timers fire.
Fairness == WF_vars(Guardian)

FairSpec == Spec /\ Fairness

-----------------------------------------------------------------------------
\* Properties.

\* Every variable has its type, and at most one generation is registered at
\* a time whose number has been given out.
TypeOK ==
    /\ up \in BOOLEAN /\ vm \in 1..MaxBoots /\ kernel \in 1..MaxBoots
    /\ store \in [mem : Holdings, file : Holdings]
    /\ guardian \in Holdings
    /\ flags \in [ownerDead : BOOLEAN, requested : BOOLEAN, reaping : BOOLEAN]
    /\ pending \subseteq {"down", "reaper", "reaped", "retry"}
    /\ nextGen \in 1..MaxGen + 1
    /\ pc \in [Runners -> Working \cup {"idle", "checking", "starting", "restoring", "ending"}]
    /\ lease \in [Runners -> 0..MaxGen]
    /\ seen \in [Runners -> Holdings]
    /\ live \subseteq (1..MaxGen) \X {1, 2}
    /\ faults \in 0..MaxFaults

\* Two claims that interleave never both get the workspace
\* (ownership.ex:57, guardian.ex:36).
OneOwner ==
    \A r, s \in Runners : pc[r] \in Working /\ pc[s] \in Working => r = s

\* Whoever holds the workspace shares it with no process of another
\* generation, whatever was killed, timed out or restarted in between: the
\* guardian never gives a workspace away under a live provider
\* (guardian/reaper.ex:11, agent_runner/session_lifecycle.ex:133).  Not so of
\* an earlier generation with a fallback backend, which may have inherited the
\* proven cleanup of the provider before it.
FreshWorkspace ==
    \A r \in Runners : pc[r] \in Working =>
        \A p \in live : p[1] = lease[r] \/ (p[1] < lease[r] /\ p[1] \in Fallback)

\* While a provider's process is alive the file holds a receipt of its
\* generation that expects a provider, so no crash can lose sight of it
\* (guardian/receipt.ex:8, session_lifecycle.ex:146), but for the same case.
ReceiptFirst ==
    \A p \in live : p[1] \notin Fallback =>
        store.file # NoReceipt /\ store.file.gen = p[1] /\ store.file.expected

\* The generation that uses the workspace, through its runner or a process.
User ==
    IF \E r \in Runners : pc[r] \in Working
    THEN lease[CHOOSE r \in Runners : pc[r] \in Working]
    ELSE IF live # {} THEN (CHOOSE p \in live : TRUE)[1] ELSE 0

\* The workspace is an exclusive resource: a generation starts to use it only
\* after the one before has stopped.
Lock == INSTANCE InstanceLock WITH Instances <- 1..MaxGen, NoInstance <- 0, runner <- User
RefinesLock == Lock!Spec

\* A workspace whose provider is contained by a process group and that is
\* being reaped becomes free, or the daemon stops: no message, timer or reaper
\* is lost (guardian.ex:195-203).
GroupReleased ==
    (guardian # NoReceipt /\ guardian.phase = "reaping" /\ guardian.kind = "group")
        ~> (guardian = NoReceipt \/ ~up)
=============================================================================
