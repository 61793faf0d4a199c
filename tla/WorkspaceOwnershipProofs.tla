----------------------- MODULE WorkspaceOwnershipProofs -----------------------
(***************************************************************************)
(* What TLAPS proves of WorkspaceOwnership for every set of runners and    *)
(* every bound: a workspace has one owner whatever fails, and, without     *)
(* orphaned providers, no owner ever shares it with a process of another   *)
(* generation, but for an earlier one that may have fallen back.           *)
(***************************************************************************)
EXTENDS WorkspaceOwnership, TLAPS

Flags == [ownerDead : BOOLEAN, requested : BOOLEAN, reaping : BOOLEAN]
Mail == {"down", "reaper", "reaped", "retry"}

\* A runner that has the workspace, or is giving it back
Holding == Working \cup {"ending"}

\* What a runner that holds the workspace can rely on: its guardian is the
\* registered one, has been told nothing yet and gives nothing away.
Relies(r) ==
    /\ up
    /\ lease[r] # 0
    /\ Held(r)
    /\ guardian.phase # "reaping"
    /\ pending = {}

\* The inductive invariant behind OneOwner
OwnerInv ==
    /\ TypeOK
    /\ kernel <= vm
    /\ guardian = NoReceipt => pending = {}
    /\ ~up => guardian = NoReceipt
    /\ \A r \in Runners : pc[r] = "restoring" => seen[r] # NoReceipt
    /\ \A r \in Runners : pc[r] \in Holding => Relies(r)
    /\ \A r, s \in Runners : pc[r] \in Holding /\ pc[s] \in Holding => r = s

\* Whatever a guardian decides of its lease
Settles(rec, fl, mail) ==
    (\E d : Apply(d, rec, fl, mail)) \/ ApplyInDoubt(rec, fl, mail)

-----------------------------------------------------------------------------
(* Settling a lease keeps the guardian's state typed, and its generation.  *)
LEMMA SettleTyped ==
    ASSUME NEW rec \in Receipts, NEW fl \in Flags, NEW mail \in SUBSET Mail,
           store \in [mem : Holdings, file : Holdings], faults \in 0..MaxFaults,
           Settles(rec, fl, mail)
    PROVE  /\ store' \in [mem : Holdings, file : Holdings]
           /\ guardian' \in Holdings
           /\ guardian' # NoReceipt => guardian'.gen = rec.gen
           /\ guardian' = NoReceipt => pending' = {}
           /\ flags' \in Flags
           /\ pending' \in SUBSET Mail
           /\ faults' \in 0..MaxFaults
<1> USE BoundsAssumption DEF Holdings, Flags, Mail
<1> DEFINE kept == [rec EXCEPT !.phase = "reaping"]
<1>1. kept \in Receipts /\ kept.gen = rec.gen
  BY DEF Receipts, Phases
<1>2. \A v \in Holdings : Stored(v) \in [mem : Holdings, file : Holdings]
  BY DEF Stored
<1>3. \A s \in [mem : Holdings, file : Holdings], v \in Holdings :
        Unstored(s, v) \subseteq [mem : Holdings, file : Holdings]
  BY DEF Unstored, Stored
<1>4. Fault \/ NoFault => faults' \in 0..MaxFaults
  BY DEF Fault, NoFault
<1>5. CASE Release(rec, fl, mail)
  <2>1. Deleted \in [mem : Holdings, file : Holdings]
    BY <1>2 DEF Deleted
  <2>2. Undeleted \subseteq [mem : Holdings, file : Holdings]
    BY <1>3 DEF Undeleted
  <2>3. NoFlags \in Flags
    BY DEF NoFlags
  <2>4. CASE store' = Deleted /\ guardian' = NoReceipt /\ flags' = NoFlags /\ pending' = {} /\ NoFault
    BY <2>1, <2>3, <2>4, <1>4
  <2>5. CASE /\ \E s \in Undeleted : store' \in Unstored(s, kept) \cup {Stored(kept)}
             /\ guardian' = kept
             /\ flags' = [fl EXCEPT !.reaping = TRUE]
             /\ pending' = mail \cup {"retry"}
             /\ Fault
    <3>1. store' \in [mem : Holdings, file : Holdings]
      BY <2>2, <2>5, <1>1, <1>2, <1>3
    <3>2. guardian' # NoReceipt
      BY <2>5, <1>1
    <3> QED BY <2>5, <3>1, <3>2, <1>1, <1>4
  <2> QED BY <1>5, <2>4, <2>5 DEF Release
<1>6. ASSUME NEW d, Keep(d, rec, fl, mail)
      PROVE  /\ guardian' \in Receipts /\ guardian'.gen = rec.gen
             /\ flags' \in Flags /\ pending' \in SUBSET Mail
  <2>1. guardian' \in Receipts /\ guardian'.gen = rec.gen
    BY <1>1, <1>6 DEF Keep
  <2>2. (fl.reaping \/ d \in {"reap", "retry"}) \in BOOLEAN
    OBVIOUS
  <2>3. flags' \in Flags
    BY <1>6, <2>2 DEF Keep
  <2>4. pending' \in SUBSET Mail
    BY <1>6 DEF Keep, Sent
  <2> QED BY <2>1, <2>3, <2>4
<1>7. ASSUME NEW d, Apply(d, rec, fl, mail), ~Release(rec, fl, mail)
      PROVE  Keep(d, rec, fl, mail) /\ store' \in [mem : Holdings, file : Holdings]
             /\ faults' \in 0..MaxFaults
  <2>1. Keep(d, rec, fl, mail)
    BY <1>7 DEF Apply
  <2>2. guardian' \in Holdings
    BY <1>6, <2>1
  <2>3. PersistIgnored(guardian') => store' \in [mem : Holdings, file : Holdings]
                                     /\ faults' \in 0..MaxFaults
    BY <1>2, <1>3, <1>4, <2>2 DEF PersistIgnored
  <2> QED BY <1>4, <1>7, <2>1, <2>3 DEF Apply
<1>8. ASSUME ApplyInDoubt(rec, fl, mail)
      PROVE  Keep(InDoubt(rec, fl), rec, fl, mail) /\ store' \in [mem : Holdings, file : Holdings]
             /\ faults' \in 0..MaxFaults
  <2>1. guardian' \in Holdings
    BY <1>6, <1>8 DEF ApplyInDoubt
  <2> QED BY <1>2, <1>4, <1>8, <2>1 DEF ApplyInDoubt
<1> QED
  BY <1>5, <1>6, <1>7, <1>8 DEF Settles

(* Settling is told: it decides the guardian's phase and lease in one of the*)
(* ways Settle lists, and leaves the runners alone.                        *)
LEMMA SettleSettles ==
    ASSUME NEW rec, NEW fl, NEW mail, Settle(rec, fl, mail)
    PROVE  Settles(rec, fl, mail)
BY DEF Settle, Settles

(* A runner's call that persists a receipt keeps the types.                *)
LEMMA PersistTyped ==
    ASSUME TypeOK, NEW r \in Runners, NEW from, NEW to, NEW refused,
           NEW rec \in Receipts, Persist(r, from, to, refused, rec)
    PROVE  /\ store' \in [mem : Holdings, file : Holdings]
           /\ guardian' = rec
           /\ faults' \in 0..MaxFaults
           /\ up /\ pc[r] = from
           /\ pc' = [pc EXCEPT ![r] = to] \/ pc' = [pc EXCEPT ![r] = refused]
           /\ UNCHANGED <<host, flags, pending, nextGen, lease, seen>>
<1> USE BoundsAssumption DEF TypeOK, Holdings
<1>1. Stored(rec) \in [mem : Holdings, file : Holdings]
  BY DEF Stored
<1>2. Unstored(store, rec) \subseteq [mem : Holdings, file : Holdings]
  BY DEF Unstored, Stored
<1> QED BY <1>1, <1>2 DEF Persist, Step, Fault, NoFault

PCs == Working \cup {"idle", "checking", "starting", "restoring", "ending"}

(* What a step of a runner, a message or the host leaves to show.          *)
LEMMA TypeRest ==
    ASSUME TypeOK, UNCHANGED host,
           store' \in [mem : Holdings, file : Holdings], guardian' \in Holdings,
           flags' \in Flags, pending' \in SUBSET Mail, faults' \in 0..MaxFaults,
           nextGen' \in 1..MaxGen + 1, pc' \in [Runners -> PCs],
           lease' \in [Runners -> 0..MaxGen], seen' \in [Runners -> Holdings],
           live' \subseteq (1..MaxGen) \X {1, 2}
    PROVE  TypeOK'
BY DEF TypeOK, host, Flags, Mail, PCs

(* The same of a runner's step that ends in a settled lease.               *)
LEMMA CallTyped ==
    ASSUME TypeOK, NEW r \in Runners, Held(r), NEW from, NEW to \in PCs, NEW refused \in PCs,
           NEW rec \in Receipts, Persist(r, from, to, refused, rec),
           live' \subseteq (1..MaxGen) \X {1, 2}
    PROVE  TypeOK'
<1>1. /\ store' \in [mem : Holdings, file : Holdings]
      /\ guardian' = rec
      /\ faults' \in 0..MaxFaults
      /\ pc' = [pc EXCEPT ![r] = to] \/ pc' = [pc EXCEPT ![r] = refused]
      /\ UNCHANGED <<host, flags, pending, nextGen, lease, seen>>
  BY PersistTyped
<1>2. pc' \in [Runners -> PCs]
  BY <1>1 DEF TypeOK, PCs
<1> QED BY <1>1, <1>2, TypeRest DEF TypeOK, Holdings, Flags, Mail, PCs

-----------------------------------------------------------------------------
(* A runner's step keeps the types.                                        *)
LEMMA RunnerTyped ==
    ASSUME OwnerInv, NEW r \in Runners, Runner(r)
    PROVE  TypeOK'
<1> USE BoundsAssumption
<1>1. /\ TypeOK
      /\ store \in [mem : Holdings, file : Holdings] /\ guardian \in Holdings
      /\ flags \in Flags /\ pending \in SUBSET Mail /\ faults \in 0..MaxFaults
      /\ nextGen \in 1..MaxGen + 1 /\ pc \in [Runners -> PCs]
      /\ lease \in [Runners -> 0..MaxGen] /\ seen \in [Runners -> Holdings]
      /\ live \subseteq (1..MaxGen) \X {1, 2}
      /\ vm \in Nat /\ kernel \in Nat
  BY DEF OwnerInv, TypeOK, Flags, Mail, PCs
<1>2. guardian # NoReceipt => guardian \in Receipts
  BY <1>1 DEF Holdings
<1>3. pc[r] \in Holding => Held(r) /\ lease[r] \in 1..MaxGen
  BY <1>1 DEF OwnerInv, Relies
<1>4. Working \cup {"ending", "idle"} \subseteq PCs
  BY DEF PCs
<1>5. CASE Claim(r)
  <2>1. CASE CheckRegistry(r)
    BY <1>1, <2>1, TypeRest DEF CheckRegistry, Step, PCs, guarded
  <2>2. CASE ReadReceipt(r)
    <3>1. store.mem \in Holdings
      BY <1>1
    <3> QED BY <1>1, <2>2, <3>1, TypeRest DEF ReadReceipt, Step, PCs, guarded
  <2>3. CASE StartGuardian(r)
    <3>1. NewReceipt \in Receipts /\ NewReceipt \in Holdings
      BY <1>1 DEF NewReceipt, Receipts, Phases, Kinds, Cleanups, Scopes, Holdings
    <3>2. Stored(NewReceipt) \in [mem : Holdings, file : Holdings]
      BY <3>1 DEF Stored
    <3>3. Unstored(store, NewReceipt) \subseteq [mem : Holdings, file : Holdings]
      BY <1>1, <3>1, <3>2 DEF Unstored
    <3>4. nextGen' \in 1..MaxGen + 1 /\ nextGen \in 0..MaxGen
      BY <1>1, <2>3 DEF StartGuardian
    <3>5. store' \in [mem : Holdings, file : Holdings] /\ guardian' \in Holdings
      BY <1>1, <2>3, <3>1, <3>2, <3>3 DEF StartGuardian
    <3>6. pc' \in [Runners -> PCs] /\ lease' \in [Runners -> 0..MaxGen] /\ faults' \in 0..MaxFaults
      BY <1>1, <2>3, <3>4 DEF StartGuardian, Step, PCs, Working, Fault, NoFault
    <3> QED BY <1>1, <2>3, <3>4, <3>5, <3>6, TypeRest DEF StartGuardian
  <2>4. CASE RestoreGuardian(r)
    <3>1. seen[r] \in Receipts
      BY <1>1, <2>4 DEF OwnerInv, RestoreGuardian, Step, Holdings
    <3>2. Restored(seen[r]) \in Receipts
      BY <3>1 DEF Restored, Receipts, Phases
    <3>3. RestoredFlags \in Flags /\ {} \in SUBSET Mail
      BY DEF RestoredFlags, NoFlags, Flags
    <3>4. Settles(Restored(seen[r]), RestoredFlags, {})
      BY <2>4 DEF RestoreGuardian, Settle, Settles
    <3>5. pc' \in [Runners -> PCs] /\ seen' \in [Runners -> Holdings]
      BY <1>1, <2>4 DEF RestoreGuardian, Step, PCs, Holdings
    <3> HIDE DEF RestoreGuardian
    <3>6. UNCHANGED <<host, nextGen, lease, live>>
      BY <2>4 DEF RestoreGuardian
    <3> QED BY <1>1, <3>2, <3>3, <3>4, <3>5, <3>6, SettleTyped, TypeRest
  <2>5. CASE Refused(r)
    <3>1. pc' \in [Runners -> PCs] /\ seen' \in [Runners -> Holdings]
      BY <1>1, <2>5 DEF Refused, Step, PCs, Holdings
    <3> QED BY <1>1, <2>5, <3>1, TypeRest DEF Refused, guarded
  <2> QED BY <1>5, <2>1, <2>2, <2>3, <2>4, <2>5 DEF Claim
<1>6. CASE TrackHostLock(r)
  <2>1. CASE Persist(r, "claimed", "locked", "ending", [guardian EXCEPT !.lock = vm])
    <3>1. [guardian EXCEPT !.lock = vm] \in Receipts
      BY <1>1, <1>2, <1>6 DEF TrackHostLock, Usable, Held, Receipts
    <3> QED BY <1>1, <1>4, <1>6, <2>1, <3>1, CallTyped DEF TrackHostLock, Usable, Working
  <2>2. CASE Step(r, "claimed", "locked") /\ UNCHANGED <<host, guarded, nextGen, lease, seen, faults>>
    BY <1>1, <1>6, <2>2, TypeRest DEF TrackHostLock, Step, guarded, PCs, Working
  <2> QED BY <1>6, <2>1, <2>2 DEF TrackHostLock
<1>7. CASE Activate(r)
  <2>1. [guardian EXCEPT !.phase = "active"] \in Receipts
    BY <1>2, <1>7 DEF Activate, Held, Receipts, Phases
  <2> QED BY <1>1, <1>4, <1>7, <2>1, CallTyped DEF Activate, Working
<1>8. CASE ExpectProvider(r)
  <2>1. PICK scope \in {"remote", "local", "unknown"} :
          Persist(r, "active", "expecting", "ending",
                  [guardian EXCEPT !.expected = TRUE, !.cleanup = "unresolved", !.scope = scope,
                                   !.boot = IF scope = "local" THEN kernel ELSE 0])
    BY <1>8 DEF ExpectProvider
  <2>2. [guardian EXCEPT !.expected = TRUE, !.cleanup = "unresolved", !.scope = scope,
                         !.boot = IF scope = "local" THEN kernel ELSE 0] \in Receipts
    BY <1>1, <1>2, <1>8 DEF ExpectProvider, Usable, Held, Receipts, Cleanups, Scopes
  <2> QED BY <1>1, <1>4, <1>8, <2>1, <2>2, CallTyped DEF ExpectProvider, Usable, Working
<1>9. CASE CancelExpectation(r)
  <2>1. [guardian EXCEPT !.expected = FALSE, !.cleanup = "not_started",
                         !.scope = "unknown", !.boot = 0] \in Receipts
    BY <1>2, <1>9 DEF CancelExpectation, Held, Receipts, Cleanups, Scopes
  <2> QED BY <1>1, <1>4, <1>9, <2>1, CallTyped DEF CancelExpectation
<1>10. CASE SpawnFails(r)
  BY <1>1, <1>10, TypeRest DEF SpawnFails, Step, guarded, PCs
<1>11. CASE Spawn(r)
  <2>1. PICK n \in {1, 2} :
          /\ Step(r, IF n = 1 THEN "expecting" ELSE "falling_back", "spawned")
          /\ live' = IF guardian.scope = "remote" THEN live ELSE live \cup {<<lease[r], n>>}
    BY <1>11 DEF Spawn
  <2>2. pc[r] \in Holding
    BY <2>1 DEF Step, Holding, Working
  <2>3. live' \subseteq (1..MaxGen) \X {1, 2}
    BY <1>1, <1>3, <2>1, <2>2
  <2>4. pc' \in [Runners -> PCs]
    BY <1>1, <2>1 DEF Step, PCs, Working
  <2> QED BY <1>1, <1>11, <2>3, <2>4, TypeRest DEF Spawn, guarded
<1>12. CASE TrackProvider(r)
  <2>1. PICK kind \in Kinds :
          Persist(r, "spawned", "tracked", "stopping",
                  [guardian EXCEPT !.expected = TRUE, !.kind = kind,
                                   !.provider = IF @ = 0 THEN 1 ELSE 2])
    BY <1>12 DEF TrackProvider, Kinds
  <2>2. [guardian EXCEPT !.expected = TRUE, !.kind = kind,
                         !.provider = IF @ = 0 THEN 1 ELSE 2] \in Receipts
    <3>1. guardian \in Receipts /\ kind \in Kinds
      BY <1>2, <1>12 DEF TrackProvider, Usable, Held
    <3>2. (IF guardian.provider = 0 THEN 1 ELSE 2) \in 0..2
      OBVIOUS
    <3> QED BY <3>1, <3>2 DEF Receipts
  <2> QED BY <1>1, <1>4, <1>12, <2>1, <2>2, CallTyped DEF TrackProvider, Usable, Working
<1>13. ASSUME NEW then \in {"ending", "falling_back"}, Usable(r), StopSession(r, then)
       PROVE  TypeOK'
  <2>1. PICK from \in {"tracked", "stopping"}, to \in {"ending", "falling_back"},
             outcome \in {"succeeded", "failed"} :
          Persist(r, from, to, to, Marked(outcome)) /\ live' \subseteq live
    BY <1>13 DEF StopSession
  <2>2. Marked(outcome) \in Receipts
    BY <1>2, <1>13 DEF Usable, Held, Marked, Receipts, Cleanups
  <2>3. to \in PCs
    BY DEF PCs, Working
  <2> QED BY <1>1, <1>13, <2>1, <2>2, <2>3, CallTyped DEF Usable
<1>14. CASE EndSession(r)
  <2>1. CASE StopSession(r, "ending")
    BY <1>13, <1>14, <2>1 DEF EndSession
  <2>2. CASE /\ \E from \in {"tracked", "stopping"} : Step(r, from, "ending")
             /\ live' \in {live, live \ ProviderOf(r)}
             /\ UNCHANGED <<host, guarded, nextGen, lease, seen, faults>>
    <3>1. pc' \in [Runners -> PCs]
      BY <1>1, <2>2 DEF Step, PCs
    <3>2. live' \subseteq (1..MaxGen) \X {1, 2}
      BY <1>1, <2>2
    <3> QED BY <1>1, <2>2, <3>1, <3>2, TypeRest DEF guarded
  <2> QED BY <1>14, <2>1, <2>2 DEF EndSession
<1>15. CASE FallBack(r)
  BY <1>13, <1>15 DEF FallBack
<1>16. CASE ReleaseAndWait(r)
  <2>1. guardian \in Receipts
    BY <1>2, <1>16 DEF ReleaseAndWait, Held
  <2>2. [flags EXCEPT !.requested = TRUE] \in Flags /\ pending \cup {"down"} \in SUBSET Mail
    BY <1>1 DEF Flags, Mail
  <2>3. Settles(guardian, [flags EXCEPT !.requested = TRUE], pending \cup {"down"})
    BY <1>16 DEF ReleaseAndWait, Settle, Settles
  <2>4. pc' \in [Runners -> PCs] /\ lease' \in [Runners -> 0..MaxGen]
    BY <1>1, <1>16 DEF ReleaseAndWait, Step, PCs
  <2>5. UNCHANGED <<host, nextGen, seen, live>>
    BY <1>16 DEF ReleaseAndWait
  <2> QED BY <1>1, <2>1, <2>2, <2>3, <2>4, <2>5, SettleTyped, TypeRest
<1>17. CASE RunnerKilled(r)
  <2>1. pc' \in [Runners -> PCs] /\ lease' \in [Runners -> 0..MaxGen]
    BY <1>1, <1>17 DEF RunnerKilled, Step, PCs
  <2>2. pending' \in SUBSET Mail
    BY <1>1, <1>17 DEF RunnerKilled, Mail
  <2> QED BY <1>1, <1>17, <2>1, <2>2, TypeRest DEF RunnerKilled
<1>18. CASE ReleaseReaping(r)
  <2>1. guardian \in Receipts
    BY <1>2, <1>18 DEF ReleaseReaping
  <2>2. [flags EXCEPT !.requested = TRUE] \in Flags
    BY <1>1 DEF Flags
  <2>3. Settles(guardian, [flags EXCEPT !.requested = TRUE], pending)
    BY <1>18 DEF ReleaseReaping, Settle, Settles
  <2>4. UNCHANGED <<host, nextGen, pc, lease, seen, live>>
    BY <1>18 DEF ReleaseReaping
  <2> QED BY <1>1, <2>1, <2>2, <2>3, <2>4, SettleTyped, TypeRest
<1> QED
  BY <1>5, <1>6, <1>7, <1>8, <1>9, <1>10, <1>11, <1>12, <1>14, <1>15, <1>16, <1>17, <1>18
  DEF Runner

(* A message to the guardian, the operator and the host keep the types.    *)
LEMMA OtherTyped ==
    ASSUME OwnerInv, Guardian \/ OperatorReleases \/ ProviderExits \/ DaemonStops \/ Boot
    PROVE  TypeOK'
<1> USE BoundsAssumption
<1>1. /\ TypeOK
      /\ store \in [mem : Holdings, file : Holdings] /\ guardian \in Holdings
      /\ flags \in Flags /\ pending \in SUBSET Mail /\ faults \in 0..MaxFaults
      /\ nextGen \in 1..MaxGen + 1 /\ pc \in [Runners -> PCs]
      /\ lease \in [Runners -> 0..MaxGen] /\ seen \in [Runners -> Holdings]
      /\ live \subseteq (1..MaxGen) \X {1, 2}
      /\ vm \in 1..MaxBoots /\ kernel \in 1..MaxBoots /\ kernel <= vm
  BY DEF OwnerInv, TypeOK, Flags, Mail, PCs
<1>2. guardian # NoReceipt => guardian \in Receipts
  BY <1>1 DEF Holdings
<1>3. pending # {} => guardian \in Receipts
  BY <1>2 DEF OwnerInv
<1>4. ASSUME Unmoved, UNCHANGED live, NEW rec \in Receipts, NEW fl \in Flags,
             NEW mail \in SUBSET Mail, Settles(rec, fl, mail)
      PROVE  TypeOK'
  BY <1>1, <1>4, SettleTyped, TypeRest DEF Unmoved
<1>5. CASE OwnerDown
  <2>1. guardian \in Receipts /\ [flags EXCEPT !.ownerDead = TRUE] \in Flags
        /\ pending \ {"down"} \in SUBSET Mail
    BY <1>1, <1>3, <1>5 DEF OwnerDown, Flags
  <2> QED BY <1>4, <1>5, <2>1, SettleSettles DEF OwnerDown
<1>6. CASE ReaperRuns
  <2>1. pending' \in SUBSET Mail /\ live' \subseteq live /\ faults' \in 0..MaxFaults
    BY <1>1, <1>6 DEF ReaperRuns, Mail, Fault, NoFault
  <2> QED BY <1>1, <1>6, <2>1, TypeRest DEF ReaperRuns, Unmoved
<1>7. CASE Reaped
  <2>1. guardian \in Receipts /\ pending \ {"reaped"} \in SUBSET Mail
    BY <1>1, <1>3, <1>7 DEF Reaped
  <2>2. Settles(guardian, flags, pending \ {"reaped"})
    BY <1>7 DEF Reaped, Settles
  <2> QED BY <1>1, <1>4, <1>7, <2>1, <2>2 DEF Reaped
<1>8. CASE RetryReap
  <2>1. guardian \in Receipts /\ [flags EXCEPT !.reaping = FALSE] \in Flags
        /\ pending \ {"retry"} \in SUBSET Mail
    BY <1>1, <1>3, <1>8 DEF RetryReap, Flags
  <2> QED BY <1>4, <1>8, <2>1, SettleSettles DEF RetryReap
<1>9. CASE OperatorReleases
  <2>1. [guardian EXCEPT !.cleanup = "succeeded"] \in Receipts
    BY <1>2, <1>9 DEF OperatorReleases, Receipts, Cleanups
  <2>2. [flags EXCEPT !.requested = TRUE] \in Flags
    BY <1>1 DEF Flags
  <2> QED BY <1>1, <1>4, <1>9, <2>1, <2>2, SettleSettles DEF OperatorReleases
<1>10. CASE ProviderExits
  BY <1>1, <1>10, TypeRest DEF ProviderExits, Unmoved, guarded
<1>11. CASE DaemonStops
  <2>1. vm' \in 1..MaxBoots /\ kernel' \in 1..MaxBoots
    BY <1>1, <1>11 DEF DaemonStops
  <2>2. live' \subseteq (1..MaxGen) \X {1, 2}
    BY <1>1, <1>11 DEF DaemonStops, Recorded
  <2>3. store' \in [mem : Holdings, file : Holdings] /\ guardian' \in Holdings
    BY <1>1, <1>11 DEF DaemonStops, Stored, Holdings
  <2>4. flags' \in Flags /\ pending' \in SUBSET Mail
    BY <1>11 DEF DaemonStops, Flags, NoFlags
  <2>5. pc' \in [Runners -> PCs] /\ lease' \in [Runners -> 0..MaxGen]
        /\ seen' \in [Runners -> Holdings]
    BY <1>1, <1>11 DEF DaemonStops, PCs, Holdings
  <2>6. up' \in BOOLEAN /\ nextGen' = nextGen /\ faults' = faults
    BY <1>11 DEF DaemonStops
  <2> QED BY <1>1, <2>1, <2>2, <2>3, <2>4, <2>5, <2>6 DEF TypeOK, Flags, Mail, PCs
<1>12. CASE Boot
  <2>1. /\ store' \in [mem : Holdings, file : Holdings]
        /\ guardian' \in Holdings /\ flags' \in Flags
        /\ pending' \in SUBSET Mail /\ faults' \in 0..MaxFaults
    <3>1. CASE store.mem = NoReceipt
      BY <1>1, <1>12, <3>1 DEF Boot, guarded
    <3>2. CASE store.mem # NoReceipt
      <4>1. Restored(store.mem) \in Receipts /\ RestoredFlags \in Flags /\ {} \in SUBSET Mail
        BY <1>1, <3>2 DEF Restored, RestoredFlags, NoFlags, Flags, Holdings, Receipts, Phases
      <4>2. Settles(Restored(store.mem), RestoredFlags, {})
        BY <1>12, <3>2, SettleSettles DEF Boot
      <4> QED BY <1>1, <4>1, <4>2, SettleTyped
    <3> QED BY <3>1, <3>2
  <2>2. up' \in BOOLEAN /\ UNCHANGED <<vm, kernel, nextGen, pc, lease, seen, live>>
    BY <1>12 DEF Boot
  <2> QED BY <1>1, <2>1, <2>2 DEF TypeOK, Flags, Mail, PCs
<1> QED
  <2>1. ASSUME Guardian PROVE TypeOK'
    BY <1>5, <1>6, <1>7, <1>8, <2>1 DEF Guardian
  <2> QED BY <1>9, <1>10, <1>11, <1>12, <2>1

-----------------------------------------------------------------------------
(* A step changes the guardian's state only when no runner holds the       *)
(* workspace, or is the holder's own; hence OwnerInv is inductive.         *)
LEMMA TypeStep == OwnerInv /\ [Next]_vars => TypeOK'
<1> SUFFICES ASSUME OwnerInv, [Next]_vars PROVE TypeOK'
  OBVIOUS
<1>1. CASE UNCHANGED vars
  BY <1>1 DEF OwnerInv, TypeOK, vars, host, guarded
<1> QED
  BY <1>1, RunnerTyped, OtherTyped DEF Next

(* No holder is new, and what each relies on is left alone.                *)
LEMMA HoldersUndisturbed ==
    ASSUME OwnerInv, TypeOK', kernel' <= vm',
           guardian' = NoReceipt => pending' = {},
           ~up' => guardian' = NoReceipt,
           \A q \in Runners : pc'[q] = "restoring" => seen'[q] # NoReceipt,
           \A q \in Runners : pc'[q] \in Holding =>
               /\ pc[q] \in Holding /\ lease'[q] = lease[q] /\ up'
               /\ guardian' # NoReceipt /\ guardian'.gen = guardian.gen
               /\ guardian'.phase # "reaping"
               /\ pending' = {}
    PROVE  OwnerInv'
BY DEF OwnerInv, Relies, Held

(* A guardian settles a lease only when no runner holds the workspace, or  *)
(* when the holder has just left.                                          *)
LEMMA SettleUndisturbing ==
    ASSUME OwnerInv, TypeOK', UNCHANGED host, up,
           NEW rec \in Receipts, NEW fl \in Flags, NEW mail \in SUBSET Mail,
           Settles(rec, fl, mail),
           \A q \in Runners : pc'[q] = "restoring" => seen'[q] # NoReceipt,
           \A q \in Runners : pc'[q] \notin Holding
    PROVE  OwnerInv'
<1>1. store \in [mem : Holdings, file : Holdings] /\ faults \in 0..MaxFaults
  BY DEF OwnerInv, TypeOK
<1>2. guardian' = NoReceipt => pending' = {}
  BY <1>1, SettleTyped
<1>3. kernel' <= vm' /\ up'
  BY DEF OwnerInv, host
<1> QED BY <1>2, <1>3, HoldersUndisturbed

(* A runner's step keeps OwnerInv: the registry turns away a second holder,*)
(* and a holder's own calls keep what it relies on.                        *)
LEMMA RunnerOwner ==
    ASSUME OwnerInv, TypeOK', NEW r \in Runners, Runner(r)
    PROVE  OwnerInv'
<1> USE DEF Working, Holding
<1>1. /\ kernel <= vm
      /\ guardian = NoReceipt => pending = {}
      /\ ~up => guardian = NoReceipt
      /\ \A q \in Runners : pc[q] = "restoring" => seen[q] # NoReceipt
      /\ \A q \in Runners : pc[q] \in Holding => Relies(q)
      /\ \A q, s \in Runners : pc[q] \in Holding /\ pc[s] \in Holding => q = s
      /\ pc \in [Runners -> PCs] /\ seen \in [Runners -> Holdings]
      /\ lease \in [Runners -> 0..MaxGen] /\ nextGen \in 1..MaxGen + 1
      /\ flags \in Flags /\ pending \in SUBSET Mail /\ guardian \in Holdings
  BY DEF OwnerInv, TypeOK, PCs, Flags, Mail
<1>2. ASSUME NEW from, NEW to, Step(r, from, to), from \in Holding, to \in {"idle"} \cup Holding,
             UNCHANGED <<host, guardian, pending, lease, seen>>
      PROVE  OwnerInv'
  <2>1. \A q \in Runners : pc'[q] = "restoring" => seen'[q] # NoReceipt
    BY <1>1, <1>2 DEF Step
  <2>2. \A q \in Runners : pc'[q] \in Holding => pc[q] \in Holding
    BY <1>1, <1>2 DEF Step
  <2> QED BY <1>1, <1>2, <2>1, <2>2, HoldersUndisturbed DEF Relies, Held, host
<1>3. ASSUME NEW from \in Holding, NEW to \in Holding, NEW refused \in Holding, NEW rec \in Receipts,
             Held(r), Persist(r, from, to, refused, rec),
             rec.gen = guardian.gen, rec.phase # "reaping"
      PROVE  OwnerInv'
  <2>1. PICK next \in Holding : Step(r, from, next)
    BY <1>3 DEF Persist
  <2>2. UNCHANGED <<host, flags, pending, nextGen, lease, seen>> /\ guardian' = rec
    BY <1>3 DEF Persist
  <2>3. \A q \in Runners : pc'[q] = "restoring" => seen'[q] # NoReceipt
    BY <1>1, <2>1, <2>2 DEF Step
  <2>4. \A q \in Runners : pc'[q] \in Holding => pc[q] \in Holding
    BY <1>1, <1>3, <2>1 DEF Step
  <2>5. rec # NoReceipt
    BY BoundsAssumption
  <2>6. up /\ pc[r] \in Holding
    BY <1>3, <2>1 DEF Step
  <2> QED BY <1>1, <1>3, <2>2, <2>3, <2>4, <2>5, <2>6, HoldersUndisturbed DEF Relies, Held, host
<1>4. pc[r] \in Holding => guardian \in Receipts /\ Held(r) /\ guardian.phase # "reaping"
  BY <1>1 DEF Relies, Held, Holdings
<1>5. CASE CheckRegistry(r) \/ ReadReceipt(r) \/ Refused(r)
  <2>1. \A q \in Runners : pc'[q] = "restoring" => seen'[q] # NoReceipt
    BY <1>1, <1>5 DEF CheckRegistry, ReadReceipt, Refused, Step
  <2>2. \A q \in Runners : pc'[q] \in Holding => pc[q] \in Holding
    BY <1>1, <1>5 DEF CheckRegistry, ReadReceipt, Refused, Step
  <2>3. UNCHANGED <<host, guarded, lease>>
    BY <1>5 DEF CheckRegistry, ReadReceipt, Refused
  <2> QED BY <1>1, <2>1, <2>2, <2>3, HoldersUndisturbed DEF Relies, Held, host, guarded
<1>6. CASE StartGuardian(r)
  <2>1. \A q \in Runners : pc[q] \notin Holding
    BY <1>1, <1>6 DEF StartGuardian, Relies, Held
  <2>2. UNCHANGED <<host, pending, seen>> /\ pending = {} /\ up
    BY <1>1, <1>6 DEF StartGuardian, Step
  <2>3. \A q \in Runners : pc'[q] = "restoring" => seen'[q] # NoReceipt
    BY <1>1, <1>6 DEF StartGuardian, Step
  <2>4. CASE Step(r, "starting", "claimed") /\ guardian' = NewReceipt
             /\ lease' = [lease EXCEPT ![r] = nextGen]
    <3>1. guardian' # NoReceipt /\ guardian'.gen = nextGen /\ guardian'.phase # "reaping"
      <4>1. NewReceipt \in Receipts
        BY <1>1 DEF NewReceipt, Receipts, Phases, Kinds, Cleanups, Scopes
      <4> QED BY <2>4, <4>1, BoundsAssumption DEF NewReceipt
    <3>2. \A q \in Runners : pc'[q] \in Holding => q = r
      BY <1>1, <2>1, <2>4 DEF Step
    <3>3. lease'[r] = nextGen /\ nextGen # 0
      BY <1>1, <2>4
    <3>4. kernel' <= vm' /\ up' /\ pending' = {}
      BY <1>1, <2>2 DEF host
    <3> QED BY <2>3, <3>1, <3>2, <3>3, <3>4 DEF OwnerInv, Relies, Held
  <2>5. CASE Step(r, "starting", "idle") /\ UNCHANGED <<guardian, lease>>
    <3>1. \A q \in Runners : pc'[q] \notin Holding
      BY <1>1, <2>1, <2>5 DEF Step
    <3>2. kernel' <= vm' /\ up' /\ pending' = {}
      BY <1>1, <2>2 DEF host
    <3> QED BY <2>3, <3>1, <3>2, HoldersUndisturbed
  <2> QED BY <1>6, <2>4, <2>5 DEF StartGuardian
<1>7. CASE RestoreGuardian(r)
  <2>1. Restored(seen[r]) \in Receipts /\ RestoredFlags \in Flags /\ {} \in SUBSET Mail
    <3>1. seen[r] \in Receipts
      BY <1>1, <1>7 DEF RestoreGuardian, Step, Holdings
    <3> QED BY <3>1 DEF Restored, RestoredFlags, NoFlags, Flags, Receipts, Phases
  <2>2. \A q \in Runners : pc'[q] = "restoring" => seen'[q] # NoReceipt
    BY <1>1, <1>7 DEF RestoreGuardian, Step
  <2>3. \A q \in Runners : pc'[q] \notin Holding
    BY <1>1, <1>7 DEF RestoreGuardian, Step, Relies, Held
  <2>4. Settles(Restored(seen[r]), RestoredFlags, {}) /\ UNCHANGED host /\ up
    BY <1>7, SettleSettles DEF RestoreGuardian, Step
  <2> QED BY <2>1, <2>2, <2>3, <2>4, SettleUndisturbing
<1>8. CASE TrackHostLock(r)
  <2>1. CASE Persist(r, "claimed", "locked", "ending", [guardian EXCEPT !.lock = vm])
    <3>1. guardian \in Receipts /\ vm \in Nat
      BY <1>1, <1>8 DEF TrackHostLock, Usable, Held, Holdings, OwnerInv, TypeOK
    <3>2. [guardian EXCEPT !.lock = vm] \in Receipts
      BY <3>1 DEF Receipts
    <3> QED BY <1>3, <1>8, <2>1, <3>1, <3>2 DEF TrackHostLock, Usable, Receipts
  <2>2. CASE Step(r, "claimed", "locked") /\ UNCHANGED <<host, guarded, nextGen, lease, seen, faults>>
    BY <1>2, <2>2 DEF guarded
  <2> QED BY <1>8, <2>1, <2>2 DEF TrackHostLock
<1>9. CASE Activate(r)
  <2>1. [guardian EXCEPT !.phase = "active"] \in Receipts
        /\ [guardian EXCEPT !.phase = "active"].gen = guardian.gen
        /\ [guardian EXCEPT !.phase = "active"].phase # "reaping"
    BY <1>1, <1>9 DEF Activate, Held, Holdings, Receipts, Phases
  <2> QED BY <1>3, <1>9, <2>1 DEF Activate
<1>10. CASE ExpectProvider(r)
  <2>1. PICK scope \in Scopes :
          Persist(r, "active", "expecting", "ending",
                  [guardian EXCEPT !.expected = TRUE, !.cleanup = "unresolved", !.scope = scope,
                                   !.boot = IF scope = "local" THEN kernel ELSE 0])
    BY <1>10 DEF ExpectProvider, Scopes
  <2> DEFINE rec == [guardian EXCEPT !.expected = TRUE, !.cleanup = "unresolved", !.scope = scope,
                                     !.boot = IF scope = "local" THEN kernel ELSE 0]
  <2>2. guardian \in Receipts /\ guardian.phase # "reaping" /\ kernel \in Nat /\ scope \in Scopes
    BY <1>1, <1>10 DEF ExpectProvider, Usable, Held, Holdings, OwnerInv, TypeOK
  <2>3. rec \in Receipts /\ rec.gen = guardian.gen /\ rec.phase # "reaping"
    BY <2>2 DEF Receipts, Cleanups, Scopes
  <2> QED BY <1>3, <1>10, <2>1, <2>3 DEF ExpectProvider, Usable
<1>11. CASE CancelExpectation(r)
  <2> DEFINE rec == [guardian EXCEPT !.expected = FALSE, !.cleanup = "not_started",
                                     !.scope = "unknown", !.boot = 0]
  <2>1. pc[r] = "expecting"
    BY <1>11 DEF CancelExpectation, Persist, Step
  <2>2. guardian \in Receipts /\ guardian.phase # "reaping"
    BY <1>4, <2>1
  <2>3. rec \in Receipts /\ rec.gen = guardian.gen /\ rec.phase # "reaping"
    BY <2>2 DEF Receipts, Cleanups, Scopes
  <2> QED BY <1>3, <1>11, <2>3 DEF CancelExpectation
<1>12. CASE SpawnFails(r)
  BY <1>2, <1>12 DEF SpawnFails, guarded
<1>13. CASE Spawn(r)
  BY <1>2, <1>13 DEF Spawn, guarded
<1>14. CASE TrackProvider(r)
  <2>1. PICK kind \in Kinds :
          Persist(r, "spawned", "tracked", "stopping",
                  [guardian EXCEPT !.expected = TRUE, !.kind = kind,
                                   !.provider = IF @ = 0 THEN 1 ELSE 2])
    BY <1>14 DEF TrackProvider, Kinds
  <2> DEFINE rec == [guardian EXCEPT !.expected = TRUE, !.kind = kind,
                                     !.provider = IF @ = 0 THEN 1 ELSE 2]
  <2>2. guardian \in Receipts /\ guardian.phase # "reaping"
    BY <1>1, <1>14 DEF TrackProvider, Usable, Held, Holdings
  <2>3. (IF guardian.provider = 0 THEN 1 ELSE 2) \in 0..2 /\ kind \in Kinds
    BY <2>1
  <2>4. rec \in Receipts /\ rec.gen = guardian.gen /\ rec.phase # "reaping"
    BY <2>2, <2>3 DEF Receipts
  <2> QED BY <1>3, <1>14, <2>1, <2>4 DEF TrackProvider, Usable
<1>15. ASSUME NEW then \in {"ending", "falling_back"}, Usable(r), StopSession(r, then)
       PROVE  OwnerInv'
  <2>1. PICK from \in {"tracked", "stopping"}, to \in {"ending", "falling_back"},
             outcome \in {"succeeded", "failed"} :
          Persist(r, from, to, to, Marked(outcome))
    BY <1>15 DEF StopSession
  <2>2. guardian \in Receipts /\ guardian.phase # "reaping"
    BY <1>1, <1>15 DEF Usable, Held, Holdings
  <2>3. Marked(outcome) \in Receipts /\ Marked(outcome).gen = guardian.gen
        /\ Marked(outcome).phase # "reaping"
    BY <2>2 DEF Marked, Receipts, Cleanups
  <2> QED BY <1>3, <1>15, <2>1, <2>3 DEF Usable
<1>16. CASE EndSession(r)
  <2>1. CASE StopSession(r, "ending")
    BY <1>15, <1>16, <2>1 DEF EndSession
  <2>2. CASE /\ \E from \in {"tracked", "stopping"} : Step(r, from, "ending")
             /\ live' \in {live, live \ ProviderOf(r)}
             /\ UNCHANGED <<host, guarded, nextGen, lease, seen, faults>>
    BY <1>2, <2>2 DEF guarded
  <2> QED BY <1>16, <2>1, <2>2 DEF EndSession
<1>17. CASE FallBack(r)
  BY <1>15, <1>17 DEF FallBack
<1>18. CASE ReleaseAndWait(r)
  <2>1. guardian \in Receipts /\ [flags EXCEPT !.requested = TRUE] \in Flags
        /\ pending \cup {"down"} \in SUBSET Mail
    BY <1>1, <1>18 DEF ReleaseAndWait, Held, Holdings, Flags, Mail
  <2>2. \A q \in Runners : pc'[q] = "restoring" => seen'[q] # NoReceipt
    BY <1>1, <1>18 DEF ReleaseAndWait, Step
  <2>3. \A q \in Runners : pc'[q] \notin Holding
    BY <1>1, <1>18 DEF ReleaseAndWait, Step
  <2>4. Settles(guardian, [flags EXCEPT !.requested = TRUE], pending \cup {"down"})
        /\ UNCHANGED host /\ up
    BY <1>18, SettleSettles DEF ReleaseAndWait, Step
  <2> QED BY <2>1, <2>2, <2>3, <2>4, SettleUndisturbing
<1>19. CASE RunnerKilled(r)
  <2>1. \A q \in Runners : pc'[q] = "restoring" => seen'[q] # NoReceipt
    BY <1>1, <1>19 DEF RunnerKilled, Step
  <2>2. pc[r] \in Holding /\ up
    BY <1>19 DEF RunnerKilled, Step
  <2>3. \A q \in Runners : pc'[q] \notin Holding
    BY <1>1, <1>19, <2>2 DEF RunnerKilled, Step
  <2>4. guardian' # NoReceipt /\ up' /\ kernel' <= vm'
    BY <1>1, <1>4, <1>19, <2>2 DEF RunnerKilled, host, Held
  <2> QED BY <2>1, <2>3, <2>4, HoldersUndisturbed
<1>20. CASE ReleaseReaping(r)
  <2>1. guardian \in Receipts /\ [flags EXCEPT !.requested = TRUE] \in Flags
    BY <1>1, <1>20 DEF ReleaseReaping, Holdings, Flags
  <2>2. \A q \in Runners : pc'[q] = "restoring" => seen'[q] # NoReceipt
    BY <1>1, <1>20 DEF ReleaseReaping
  <2>3. \A q \in Runners : pc'[q] \notin Holding
    BY <1>1, <1>20 DEF ReleaseReaping, Relies
  <2>4. Settles(guardian, [flags EXCEPT !.requested = TRUE], pending) /\ UNCHANGED host /\ up
    BY <1>20, SettleSettles DEF ReleaseReaping
  <2> QED BY <1>1, <2>1, <2>2, <2>3, <2>4, SettleUndisturbing
<1> QED
  BY <1>5, <1>6, <1>7, <1>8, <1>9, <1>10, <1>11, <1>12, <1>13, <1>14, <1>16, <1>17, <1>18,
     <1>19, <1>20
  DEF Runner, Claim

(* Messages, the operator and the host keep OwnerInv: none of them ends a  *)
(* lease whose holder is alive, but a stop of the daemon, which ends both. *)
LEMMA OtherOwner ==
    ASSUME OwnerInv, TypeOK',
           Guardian \/ OperatorReleases \/ ProviderExits \/ DaemonStops \/ Boot
    PROVE  OwnerInv'
<1> USE DEF Working, Holding
<1>1. /\ kernel <= vm /\ vm \in Nat /\ kernel \in Nat
      /\ guardian = NoReceipt => pending = {}
      /\ ~up => guardian = NoReceipt
      /\ \A q \in Runners : pc[q] = "restoring" => seen[q] # NoReceipt
      /\ \A q \in Runners : pc[q] \in Holding => Relies(q)
      /\ guardian \in Holdings /\ store.mem \in Holdings
      /\ flags \in Flags /\ pending \in SUBSET Mail
      /\ store \in [mem : Holdings, file : Holdings] /\ faults \in 0..MaxFaults
  BY DEF OwnerInv, TypeOK, Flags, Mail, Holdings
<1>0. pending # {} => guardian \in Receipts
  BY <1>1 DEF Holdings
<1>2. ASSUME Unmoved, up, \A q \in Runners : pc[q] \notin Holding,
             NEW rec \in Receipts, NEW fl \in Flags, NEW mail \in SUBSET Mail,
             Settles(rec, fl, mail)
      PROVE  OwnerInv'
  BY <1>1, <1>2, SettleUndisturbing DEF Unmoved
<1>3. pending # {} => \A q \in Runners : pc[q] \notin Holding
  BY <1>1 DEF Relies
<1>4. CASE OwnerDown
  <2>1. guardian \in Receipts /\ [flags EXCEPT !.ownerDead = TRUE] \in Flags
        /\ pending \ {"down"} \in SUBSET Mail
    BY <1>0, <1>1, <1>4 DEF OwnerDown, Flags
  <2> QED BY <1>2, <1>3, <1>4, <2>1, SettleSettles DEF OwnerDown
<1>5. CASE ReaperRuns
  <2>1. \A q \in Runners : pc'[q] \notin Holding
    BY <1>3, <1>5 DEF ReaperRuns, Unmoved
  <2>2. guardian' # NoReceipt
    BY <1>1, <1>5 DEF ReaperRuns
  <2>3. kernel' <= vm' /\ \A q \in Runners : pc'[q] = "restoring" => seen'[q] # NoReceipt
    BY <1>1, <1>5 DEF ReaperRuns, Unmoved, host
  <2>4. up'
    BY <1>5 DEF ReaperRuns, Unmoved, host
  <2> QED BY <2>1, <2>2, <2>3, <2>4, HoldersUndisturbed
<1>6. CASE Reaped
  <2>1. guardian \in Receipts /\ pending \ {"reaped"} \in SUBSET Mail
    BY <1>0, <1>1, <1>6 DEF Reaped
  <2>2. Settles(guardian, flags, pending \ {"reaped"})
    BY <1>6 DEF Reaped, Settles
  <2> QED BY <1>1, <1>2, <1>3, <1>6, <2>1, <2>2 DEF Reaped
<1>7. CASE RetryReap
  <2>1. guardian \in Receipts /\ [flags EXCEPT !.reaping = FALSE] \in Flags
        /\ pending \ {"retry"} \in SUBSET Mail
    BY <1>0, <1>1, <1>7 DEF RetryReap, Flags
  <2> QED BY <1>2, <1>3, <1>7, <2>1, SettleSettles DEF RetryReap
<1>8. CASE OperatorReleases
  <2>1. [guardian EXCEPT !.cleanup = "succeeded"] \in Receipts
        /\ [flags EXCEPT !.requested = TRUE] \in Flags
    BY <1>1, <1>8 DEF OperatorReleases, Holdings, Receipts, Cleanups, Flags
  <2>2. \A q \in Runners : pc[q] \notin Holding
    BY <1>1, <1>8 DEF OperatorReleases, Relies
  <2> QED BY <1>1, <1>2, <1>8, <2>1, <2>2, SettleSettles DEF OperatorReleases
<1>9. CASE ProviderExits
  <2>1. UNCHANGED <<host, guarded, pc, lease, seen>>
    BY <1>9 DEF ProviderExits, Unmoved
  <2> QED BY <1>1, <2>1, HoldersUndisturbed DEF Relies, Held, host, guarded
<1>10. CASE DaemonStops
  <2>1. guardian' = NoReceipt /\ pending' = {}
    BY <1>10 DEF DaemonStops
  <2>2. \A q \in Runners : pc'[q] = "idle"
    BY <1>10 DEF DaemonStops
  <2>3. kernel' <= vm'
    BY <1>1, <1>10 DEF DaemonStops
  <2> QED BY <2>1, <2>2, <2>3, HoldersUndisturbed
<1>11. CASE Boot
  <2>1. \A q \in Runners : pc'[q] \notin Holding
    BY <1>1, <1>11 DEF Boot, Relies
  <2>2. kernel' <= vm' /\ up' /\ \A q \in Runners : pc'[q] = "restoring" => seen'[q] # NoReceipt
    BY <1>1, <1>11 DEF Boot
  <2>3. guardian' = NoReceipt => pending' = {}
    <3>1. CASE store.mem = NoReceipt
      BY <1>1, <1>11, <3>1 DEF Boot, guarded
    <3>2. CASE store.mem # NoReceipt
      <4>1. Restored(store.mem) \in Receipts /\ RestoredFlags \in Flags /\ {} \in SUBSET Mail
        BY <1>1, <3>2 DEF Restored, RestoredFlags, NoFlags, Flags, Holdings, Receipts, Phases
      <4>2. Settles(Restored(store.mem), RestoredFlags, {})
        BY <1>11, <3>2, SettleSettles DEF Boot
      <4> QED BY <1>1, <4>1, <4>2, SettleTyped
    <3> QED BY <3>1, <3>2
  <2> QED BY <2>1, <2>2, <2>3, HoldersUndisturbed
<1> QED
  <2>1. ASSUME Guardian PROVE OwnerInv'
    BY <1>4, <1>5, <1>6, <1>7, <2>1 DEF Guardian
  <2> QED BY <1>8, <1>9, <1>10, <1>11, <2>1

(* OwnerInv is inductive.                                                  *)
LEMMA OwnerStep == OwnerInv /\ [Next]_vars => OwnerInv'
<1> SUFFICES ASSUME OwnerInv, [Next]_vars PROVE OwnerInv'
  OBVIOUS
<1>1. TypeOK'
  BY TypeStep
<1>2. CASE UNCHANGED vars
  BY <1>1, <1>2 DEF OwnerInv, Relies, Held, vars, host, guarded
<1> QED
  BY <1>1, <1>2, RunnerOwner, OtherOwner DEF Next

(* A host without receipts satisfies OwnerInv.                             *)
LEMMA OwnerInit == Init => OwnerInv
<1> SUFFICES ASSUME Init PROVE OwnerInv
  OBVIOUS
<1>1. TypeOK
  BY BoundsAssumption DEF Init, TypeOK, NoFlags, Holdings
<1> QED BY <1>1 DEF Init, OwnerInv, Holding, Working

-----------------------------------------------------------------------------
(* The model's variables keep their types, in every run of the daemon.     *)
THEOREM WorkspaceTypes == Spec => []TypeOK
<1>1. OwnerInv => TypeOK
  BY DEF OwnerInv
<1> QED BY <1>1, OwnerInit, OwnerStep, PTL DEF Spec

(* Two claims of one workspace never both succeed, however they interleave *)
(* with each other, with failed writes, kills, restarts and reboots.       *)
THEOREM WorkspaceHasOneOwner == Spec => []OneOwner
<1>1. OwnerInv => OneOwner
  BY DEF OwnerInv, OneOwner, Holding
<1> QED BY <1>1, OwnerInit, OwnerStep, PTL DEF Spec

-----------------------------------------------------------------------------
(* A generation without a fallback backend starts one provider, and        *)
(* without orphans a stopped daemon leaves only those its receipts name.   *)

\* The processes of such generations
Plain == {p \in live : p[1] \notin Fallback}

\* A receipt names its second provider only where there is a fallback.
Consistent(rec) ==
    rec # NoReceipt =>
        /\ rec.provider = 2 => rec.gen \in Fallback
        /\ rec.kind = "none" <=> rec.provider = 0
        /\ rec.kind = "remote" => rec.scope = "remote"

\* The receipt accounts for every process of Plain, and proves none of them gone.
Sees(rec) ==
    /\ rec # NoReceipt
    /\ \A p \in Plain : p = <<rec.gen, 1>>
    /\ rec.expected
    /\ rec.cleanup # "succeeded"
    /\ rec.scope # "remote"
    /\ rec.provider = 0 => rec.lock \in {0, vm} /\ rec.boot \in {0, kernel}

\* The runner has not told of a provider yet.
Starting(r) ==
    \/ pc[r] \in {"claimed", "locked", "active", "expecting"}
    \/ pc[r] = "spawned" /\ lease[r] \notin Fallback

\* No provider is known to the guardian, and its receipt is of this boot.
Unstarted(r) ==
    /\ guardian.provider = 0
    /\ guardian.lock \in {0, vm} /\ guardian.boot \in {0, kernel}
    /\ pc[r] # "spawned" => Plain = {}
    /\ pc[r] = "expecting" =>
          /\ store.file = guardian
          /\ guardian.expected
          /\ guardian.cleanup = "unresolved"

\* A runner starts its first provider under a receipt that expects it, and a
\* second one only as a fallback.
Prepared(r) ==
    /\ Starting(r) => Unstarted(r)
    /\ pc[r] = "falling_back" => lease[r] \in Fallback

\* The inductive invariant behind FreshWorkspace and ReceiptFirst
LiveInv ==
    /\ Consistent(store.mem) /\ Consistent(store.file) /\ Consistent(guardian)
    /\ \A r \in Runners : Consistent(seen[r])
    /\ ~up => store.mem = store.file
    /\ Plain # {} => (up => Sees(guardian)) /\ Sees(store.file)
    /\ \A r \in Runners : Prepared(r)

\* A guardian gives the lease away only when no provider is alive.
Spares(rec, fl, mail) ==
    \/ \E d : Apply(d, rec, fl, mail) /\ (d = "release" => Plain = {})
    \/ ApplyInDoubt(rec, fl, mail)

(* What ends or stays does so in Plain.                                    *)
LEMMA PlainShrinks ==
    /\ live' \subseteq live => Plain' \subseteq Plain
    /\ UNCHANGED live => UNCHANGED Plain
BY DEF Plain

(* No decision releases a lease whose receipt sees a live provider.        *)
LEMMA NoRelease ==
    ASSUME NEW rec \in Receipts, NEW fl, NEW mail,
           Consistent(rec), Plain # {} => Sees(rec),
           \/ Settle(rec, fl, mail)
           \/ Apply(DecisionAfterReap(rec, fl), rec, fl, mail)
           \/ ApplyInDoubt(rec, fl, mail)
    PROVE  Spares(rec, fl, mail)
<1> USE BoundsAssumption
<1>1. Plain # {} => ~ExitProof(rec) \/ rec.provider # 0
  BY DEF Sees, ExitProof
<1>2. Plain # {} => rec.provider = 0 \/ Alive(rec)
  BY DEF Sees, Alive, Consistent, Receipts, Plain
<1>3. rec.kind \in Kinds /\ rec.provider \in 0..2
  BY DEF Receipts
<1>4. Plain # {} => Decision(rec, fl) # "release"
  BY <1>1, <1>2, <1>3 DEF Decision, Sees, Consistent
<1>5. Plain # {} => DecisionAfterReap(rec, fl) # "release"
  BY <1>2, <1>3 DEF DecisionAfterReap, Consistent
<1> QED BY <1>4, <1>5 DEF Spares, Settle

(* What the store holds after a write comes from what it held or is given. *)
LEMMA StoreKeeps ==
    ASSUME NEW s \in [mem : Holdings, file : Holdings], NEW v \in Holdings,
           NEW t \in Unstored(s, v) \cup {Stored(v)}
    PROVE  t.mem \in {s.mem, v} /\ t.file \in {s.file, v}
BY DEF Unstored, Stored

(* Settling a lease keeps the receipts consistent and sees what is alive.  *)
LEMMA SparesSees ==
    ASSUME store \in [mem : Holdings, file : Holdings],
           NEW rec \in Receipts, NEW fl, NEW mail,
           Consistent(rec), Consistent(store.mem), Consistent(store.file),
           Plain # {} => Sees(rec) /\ Sees(store.file),
           UNCHANGED <<vm, kernel, live>>,
           Spares(rec, fl, mail)
    PROVE  /\ Consistent(store'.mem) /\ Consistent(store'.file) /\ Consistent(guardian')
           /\ Plain' # {} => Sees(guardian)' /\ Sees(store.file)'
<1> USE BoundsAssumption
<1> DEFINE kept == [rec EXCEPT !.phase = "reaping"]
<1>0. Plain' = Plain
  BY PlainShrinks
<1>1. /\ kept \in Receipts /\ kept # NoReceipt /\ Consistent(kept)
      /\ rec # NoReceipt
      /\ Plain # {} => Sees(kept)
  BY DEF Receipts, Phases, Consistent, Sees
<1>2. Consistent(NoReceipt)
  BY DEF Consistent
<1>3. rec \in Holdings /\ kept \in Holdings /\ NoReceipt \in Holdings
  BY <1>1 DEF Holdings
<1>4. CASE Release(rec, fl, mail) /\ Plain = {}
  <2>1. ASSUME NEW s \in Undeleted \cup {Deleted}
        PROVE  s \in [mem : Holdings, file : Holdings]
               /\ s.mem \in {store.mem, NoReceipt} /\ s.file \in {store.file, NoReceipt}
    BY <1>3, <2>1 DEF Undeleted, Deleted, Unstored, Stored
  <2>2. guardian' \in {kept, NoReceipt}
    BY <1>4 DEF Release
  <2>3. store'.mem \in {store.mem, NoReceipt, kept} /\ store'.file \in {store.file, NoReceipt, kept}
    BY <1>3, <1>4, <2>1, StoreKeeps DEF Release
  <2> QED BY <1>0, <1>1, <1>2, <1>4, <2>2, <2>3
<1>5. ASSUME guardian' \in {rec, kept},
             store' \in Unstored(store, guardian') \cup {store, Stored(guardian')}
      PROVE  /\ Consistent(store'.mem) /\ Consistent(store'.file) /\ Consistent(guardian')
             /\ Plain' # {} => Sees(guardian)' /\ Sees(store.file)'
  <2>1. guardian' \in Holdings
    BY <1>3, <1>5
  <2>2. store'.mem \in {store.mem, guardian'} /\ store'.file \in {store.file, guardian'}
    BY <1>5, <2>1, StoreKeeps
  <2>3. Consistent(guardian') /\ (Plain # {} => Sees(guardian)')
    BY <1>0, <1>1, <1>5 DEF Sees
  <2>4. Plain # {} => Sees(store.file)'
    BY <1>0, <1>1, <1>5, <2>2 DEF Sees
  <2> QED BY <1>0, <2>2, <2>3, <2>4
<1>6. ASSUME NEW d, Keep(d, rec, fl, mail)
      PROVE  guardian' \in {rec, kept}
  BY <1>6 DEF Keep
<1>7. ASSUME NEW d, Apply(d, rec, fl, mail), ~Release(rec, fl, mail)
      PROVE  /\ guardian' \in {rec, kept}
             /\ store' \in Unstored(store, guardian') \cup {store, Stored(guardian')}
  BY <1>6, <1>7 DEF Apply, PersistIgnored
<1>8. ASSUME ApplyInDoubt(rec, fl, mail)
      PROVE  /\ guardian' \in {rec, kept}
             /\ store' \in Unstored(store, guardian') \cup {store, Stored(guardian')}
  BY <1>6, <1>8 DEF ApplyInDoubt
<1>9. CASE Release(rec, fl, mail) /\ Plain # {}
  <2>1. CASE ApplyInDoubt(rec, fl, mail)
    BY <1>5, <1>8, <2>1
  <2>2. ASSUME NEW d, Apply(d, rec, fl, mail), d # "release"
        PROVE  /\ guardian' \in {rec, kept}
               /\ store' \in Unstored(store, guardian') \cup {store, Stored(guardian')}
    BY <1>6, <2>2 DEF Apply, PersistIgnored
  <2> QED BY <1>5, <1>9, <2>1, <2>2 DEF Spares
<1> QED
  BY <1>4, <1>5, <1>7, <1>8, <1>9 DEF Spares

(* A call of the holder that persists a receipt.                           *)
LEMMA PersistSees ==
    ASSUME OwnerInv, LiveInv, NEW r \in Runners, NEW from, NEW to, NEW refused,
           NEW rec \in Receipts, Persist(r, from, to, refused, rec),
           Consistent(rec), live' \subseteq live, Plain' # {} => Sees(rec)
    PROVE  /\ Consistent(store'.mem) /\ Consistent(store'.file) /\ Consistent(guardian')
           /\ \A q \in Runners : Consistent(seen'[q])
           /\ up'
           /\ Plain' # {} => Sees(guardian)' /\ Sees(store.file)'
<1>1. store' \in Unstored(store, rec) \cup {Stored(rec)} /\ guardian' = rec /\ up
      /\ UNCHANGED <<up, vm, kernel, seen>>
  BY DEF Persist, Step, host
<1>2. store \in [mem : Holdings, file : Holdings] /\ rec \in Holdings
  BY DEF OwnerInv, TypeOK, Holdings
<1>3. store'.mem \in {store.mem, rec} /\ store'.file \in {store.file, rec}
  BY <1>1, <1>2, StoreKeeps
<1>4. Plain' \subseteq Plain /\ (Plain' # {} => Sees(store.file))
  BY PlainShrinks DEF LiveInv
<1>5. Plain' # {} => Sees(guardian)' /\ Sees(store.file)'
  BY <1>1, <1>3, <1>4 DEF Sees
<1> QED BY <1>1, <1>3, <1>5 DEF LiveInv

(* What is left to show of a step.                                         *)
LEMMA LiveRest ==
    ASSUME Consistent(store'.mem), Consistent(store'.file), Consistent(guardian'),
           \A q \in Runners : Consistent(seen'[q]),
           up',
           Plain' # {} => Sees(guardian)' /\ Sees(store.file)',
           \A q \in Runners : pc'[q] \in Holding => Prepared(q)'
    PROVE  LiveInv'
BY DEF LiveInv, Prepared, Starting, Holding, Working

(* A runner's step keeps LiveInv: a process is started only under a receipt*)
(* that expects it, and is told of before it is reported ended.            *)
LEMMA RunnerLive ==
    ASSUME OwnerInv, OwnerInv', LiveInv, NEW r \in Runners, Runner(r)
    PROVE  LiveInv'
<1> USE BoundsAssumption DEF Working, Holding
<1>1. /\ Consistent(store.mem) /\ Consistent(store.file) /\ Consistent(guardian)
      /\ \A q \in Runners : Consistent(seen[q])
      /\ Plain # {} => (up => Sees(guardian)) /\ Sees(store.file)
      /\ \A q \in Runners : Prepared(q)
  BY DEF LiveInv
<1>2. /\ pc \in [Runners -> PCs] /\ seen \in [Runners -> Holdings]
      /\ lease \in [Runners -> 0..MaxGen] /\ guardian \in Holdings
      /\ store \in [mem : Holdings, file : Holdings] /\ vm \in Nat /\ kernel \in Nat
  BY DEF OwnerInv, TypeOK, PCs
<1>3. /\ \A q \in Runners : pc[q] \in Holding => Relies(q)
      /\ \A q, s \in Runners : pc[q] \in Holding /\ pc[s] \in Holding => q = s
  BY DEF OwnerInv
<1>4. pc[r] \in Holding => up /\ Held(r) /\ guardian \in Receipts
  BY <1>2, <1>3 DEF Relies, Held, Holdings
<1>5. ASSUME NEW from \in Holding, NEW to \in Holding \cup {"idle"}, Step(r, from, to)
      PROVE  /\ up /\ pc[r] = from /\ pc'[r] = to
             /\ \A q \in Runners : pc'[q] \in Holding => q = r
  BY <1>2, <1>3, <1>5 DEF Step
<1>6. ASSUME NEW from \in Holding, NEW to \in Holding, Step(r, from, to),
             UNCHANGED <<host, guarded, seen>>, live' \subseteq live, Prepared(r)'
      PROVE  LiveInv'
  <2>1. Plain' # {} => Sees(guardian)' /\ Sees(store.file)'
    BY <1>1, <1>5, <1>6, PlainShrinks DEF Sees, host, guarded
  <2> QED BY <1>1, <1>5, <1>6, <2>1, LiveRest DEF host, guarded
<1>7. ASSUME NEW from \in Holding, NEW to \in Holding, NEW refused \in {"ending", "stopping"},
             NEW rec \in Receipts, Persist(r, from, to, refused, rec),
             Consistent(rec), live' \subseteq live, Plain' # {} => Sees(rec),
             Step(r, from, to) /\ store' = Stored(rec) => Prepared(r)'
      PROVE  LiveInv'
  <2>1. Prepared(r)' /\ \A q \in Runners : pc'[q] \in Holding => q = r
    <3>1. CASE Step(r, from, to) /\ store' = Stored(rec)
      BY <1>5, <1>7, <3>1
    <3>2. CASE Step(r, from, refused)
      BY <1>5, <1>7, <3>2 DEF Prepared, Starting
    <3> QED BY <1>7, <3>1, <3>2 DEF Persist
  <2>2. /\ Consistent(store'.mem) /\ Consistent(store'.file) /\ Consistent(guardian')
        /\ \A q \in Runners : Consistent(seen'[q])
        /\ up'
        /\ Plain' # {} => Sees(guardian)' /\ Sees(store.file)'
    BY <1>7, PersistSees
  <2> QED BY <2>1, <2>2, LiveRest
<1>8. pc[r] \in Holding /\ lease[r] \in Fallback => Plain = {}
  BY <1>1, <1>4 DEF Plain, Sees, Held
<1>9. CASE CheckRegistry(r) \/ ReadReceipt(r) \/ Refused(r)
  <2>1. UNCHANGED <<host, guarded, lease, live>> /\ up
    BY <1>9 DEF CheckRegistry, ReadReceipt, Refused, Step
  <2>2. \A q \in Runners : Consistent(seen'[q])
    BY <1>1, <1>2, <1>9 DEF CheckRegistry, ReadReceipt, Refused, Consistent
  <2>3. \A q \in Runners : pc'[q] = pc[q] \/ pc'[q] \in {"idle", "checking", "starting", "restoring"}
    BY <1>2, <1>9 DEF CheckRegistry, ReadReceipt, Refused, Step
  <2>4. \A q \in Runners : Prepared(q)'
    BY <1>1, <2>1, <2>3, PlainShrinks DEF Prepared, Starting, Unstarted, host, guarded
  <2>5. Plain' # {} => Sees(guardian)' /\ Sees(store.file)'
    BY <1>1, <2>1, PlainShrinks DEF Sees, host, guarded
  <2> QED BY <1>1, <2>1, <2>2, <2>4, <2>5, LiveRest DEF host, guarded
<1>10. CASE StartGuardian(r)
  <2>1. Plain' = {} /\ up' /\ \A q \in Runners : pc[q] \notin Holding
    BY <1>1, <1>3, <1>10, PlainShrinks DEF StartGuardian, Step, Sees, Relies, Held, host
  <2>2. NewReceipt \in Holdings /\ Consistent(NewReceipt)
    <3>1. nextGen \in Nat
      BY DEF OwnerInv, TypeOK
    <3> QED BY <3>1 DEF NewReceipt, Holdings, Receipts, Phases, Kinds, Cleanups, Scopes, Consistent
  <2>3. store' \in Unstored(store, NewReceipt) \cup {Stored(NewReceipt)}
    BY <1>10 DEF StartGuardian
  <2>4. Consistent(store'.mem) /\ Consistent(store'.file)
    BY <1>1, <1>2, <2>2, <2>3, StoreKeeps
  <2>5. Consistent(guardian') /\ \A q \in Runners : Consistent(seen'[q])
    BY <1>1, <1>10, <2>2 DEF StartGuardian
  <2>6. \A q \in Runners : pc'[q] \in Holding => pc'[q] = "claimed" /\ guardian' = NewReceipt
    BY <1>2, <1>10, <2>1 DEF StartGuardian, Step
  <2>7. \A q \in Runners : pc'[q] \in Holding => Prepared(q)'
    BY <2>1, <2>6 DEF Prepared, Unstarted, NewReceipt
  <2> QED BY <2>1, <2>4, <2>5, <2>7, LiveRest
<1>11. ASSUME NEW rec \in Receipts, NEW fl, NEW mail, Settle(rec, fl, mail), up,
              Consistent(rec), Plain # {} => Sees(rec),
              UNCHANGED <<host, live>>, \A q \in Runners : Consistent(seen'[q]),
              \A q \in Runners : pc'[q] \notin Holding
       PROVE  LiveInv'
  <2>1. Spares(rec, fl, mail)
    BY <1>11, NoRelease
  <2>2. UNCHANGED <<vm, kernel, live>> /\ up'
    BY <1>11 DEF host
  <2>3. /\ Consistent(store'.mem) /\ Consistent(store'.file) /\ Consistent(guardian')
        /\ Plain' # {} => Sees(guardian)' /\ Sees(store.file)'
    BY <1>1, <1>2, <1>11, <2>1, <2>2, SparesSees
  <2> QED BY <1>11, <2>2, <2>3, LiveRest
<1>12. CASE RestoreGuardian(r)
  <2>1. Plain = {} /\ up
    BY <1>1, <1>12 DEF RestoreGuardian, Step, Sees
  <2>2. seen[r] \in Receipts
    BY <1>2, <1>12 DEF OwnerInv, RestoreGuardian, Step, Holdings
  <2>3. Restored(seen[r]) \in Receipts
    BY <2>2 DEF Restored, Receipts, Phases
  <2>4. Consistent(Restored(seen[r]))
    <3>1. Consistent(seen[r])
      BY <1>1
    <3> QED BY <2>2, <3>1 DEF Restored, Receipts, Consistent
  <2>5. \A q \in Runners : Consistent(seen'[q])
    BY <1>1, <1>2, <1>12 DEF RestoreGuardian, Consistent
  <2>6. \A q \in Runners : pc'[q] \notin Holding
    BY <1>2, <1>3, <1>12 DEF RestoreGuardian, Step, Relies, Held
  <2> QED BY <1>11, <1>12, <2>1, <2>3, <2>4, <2>5, <2>6 DEF RestoreGuardian
<1>13. ASSUME pc[r] \in {"claimed", "locked", "active", "expecting"}
       PROVE  Unstarted(r) /\ Plain = {} /\ guardian \in Receipts
  BY <1>1, <1>4, <1>13 DEF Prepared, Starting, Unstarted
<1>14. CASE TrackHostLock(r)
  <2>1. pc[r] = "claimed" /\ live' = live
    BY <1>14 DEF TrackHostLock, Persist, Step
  <2>2. Unstarted(r) /\ Plain = {} /\ Plain' = {} /\ guardian \in Receipts
    BY <1>13, <2>1, PlainShrinks
  <2>3. CASE Persist(r, "claimed", "locked", "ending", [guardian EXCEPT !.lock = vm])
    <3> DEFINE rec == [guardian EXCEPT !.lock = vm]
    <3>1. rec \in Receipts /\ Consistent(rec) /\ rec.provider = 0 /\ rec.lock = vm
          /\ rec.boot = guardian.boot
      BY <1>1, <1>2, <2>2 DEF Receipts, Consistent, Unstarted
    <3>2. guardian' = rec /\ UNCHANGED host
      BY <2>3 DEF Persist
    <3>3. Step(r, "claimed", "locked") => Prepared(r)'
      BY <1>5, <2>2, <3>1, <3>2 DEF Prepared, Unstarted, host
    <3> QED BY <1>7, <2>1, <2>2, <2>3, <3>1, <3>3
  <2>4. CASE Step(r, "claimed", "locked") /\ UNCHANGED <<host, guarded, nextGen, lease, seen, faults>>
    <3>1. Prepared(r)'
      BY <1>5, <2>2, <2>4 DEF Prepared, Unstarted, host, guarded
    <3> QED BY <1>6, <2>1, <2>4, <3>1
  <2> QED BY <1>14, <2>3, <2>4 DEF TrackHostLock
<1>15. CASE Activate(r)
  <2>1. pc[r] = "locked" /\ live' = live
    BY <1>15 DEF Activate, Persist, Step
  <2>2. Unstarted(r) /\ Plain = {} /\ Plain' = {} /\ guardian \in Receipts
    BY <1>13, <2>1, PlainShrinks
  <2> DEFINE rec == [guardian EXCEPT !.phase = "active"]
  <2>3. rec \in Receipts /\ Consistent(rec) /\ rec.provider = 0 /\ rec.lock = guardian.lock
        /\ rec.boot = guardian.boot
    BY <1>1, <2>2 DEF Receipts, Phases, Consistent, Unstarted
  <2>4. guardian' = rec /\ UNCHANGED host
    BY <1>15 DEF Activate, Persist
  <2>5. Step(r, "locked", "active") => Prepared(r)'
    BY <1>5, <2>2, <2>3, <2>4 DEF Prepared, Unstarted, host
  <2> QED BY <1>7, <1>15, <2>1, <2>2, <2>3, <2>5 DEF Activate
<1>16. CASE ExpectProvider(r)
  <2>1. PICK scope \in Scopes :
          Persist(r, "active", "expecting", "ending",
                  [guardian EXCEPT !.expected = TRUE, !.cleanup = "unresolved", !.scope = scope,
                                   !.boot = IF scope = "local" THEN kernel ELSE 0])
    BY <1>16 DEF ExpectProvider, Scopes
  <2> DEFINE rec == [guardian EXCEPT !.expected = TRUE, !.cleanup = "unresolved", !.scope = scope,
                                     !.boot = IF scope = "local" THEN kernel ELSE 0]
  <2>2. pc[r] = "active" /\ live' = live
    BY <1>16, <2>1 DEF ExpectProvider, Persist, Step
  <2>3. Unstarted(r) /\ Plain = {} /\ Plain' = {} /\ guardian \in Receipts
    BY <1>13, <2>2, PlainShrinks
  <2>4. rec \in Receipts
    BY <1>2, <2>1, <2>3 DEF Receipts, Cleanups
  <2>5. rec.provider = 0 /\ rec.kind = "none" /\ rec.lock = guardian.lock /\ rec.boot \in {0, kernel}
        /\ rec.expected /\ rec.cleanup = "unresolved"
    BY <1>1, <2>3 DEF Receipts, Consistent, Unstarted
  <2>6. Consistent(rec)
    BY <2>5 DEF Consistent
  <2>7. guardian' = rec /\ UNCHANGED host
    BY <2>1 DEF Persist
  <2>8. Step(r, "active", "expecting") /\ store' = Stored(rec) => Prepared(r)'
    <3>1. store' = Stored(rec) => store'.file = guardian'
      BY <2>7 DEF Stored
    <3>2. Step(r, "active", "expecting") => pc'[r] = "expecting"
      BY <1>5
    <3> HIDE DEF rec
    <3> QED BY <2>3, <2>5, <2>7, <3>1, <3>2 DEF Prepared, Unstarted, host
  <2> HIDE DEF rec
  <2> QED BY <1>7, <2>1, <2>2, <2>3, <2>4, <2>6, <2>8 DEF rec
<1>17. CASE CancelExpectation(r)
  <2> DEFINE rec == [guardian EXCEPT !.expected = FALSE, !.cleanup = "not_started",
                                     !.scope = "unknown", !.boot = 0]
  <2>1. Persist(r, "expecting", "ending", "ending", rec) /\ pc[r] = "expecting" /\ live' = live
    BY <1>17 DEF CancelExpectation, Persist, Step
  <2>2. Unstarted(r) /\ Plain' = {} /\ guardian \in Receipts
    BY <1>13, <2>1, PlainShrinks
  <2>3. rec \in Receipts /\ Consistent(rec)
    BY <1>1, <2>2 DEF Receipts, Cleanups, Scopes, Consistent, Unstarted
  <2>4. Step(r, "expecting", "ending") => Prepared(r)'
    BY <1>5 DEF Prepared, Starting
  <2> HIDE DEF rec
  <2> QED BY <1>7, <2>1, <2>2, <2>3, <2>4
<1>18. CASE SpawnFails(r)
  <2>1. PICK from \in {"expecting", "falling_back"} : Step(r, from, "ending")
    BY <1>18 DEF SpawnFails
  <2>2. Prepared(r)'
    BY <1>5, <2>1 DEF Prepared, Starting
  <2> QED BY <1>6, <1>18, <2>1, <2>2 DEF SpawnFails
<1>19. CASE Spawn(r)
  <2>1. PICK n \in {1, 2} :
          /\ Step(r, IF n = 1 THEN "expecting" ELSE "falling_back", "spawned")
          /\ live' = IF guardian.scope = "remote" THEN live ELSE live \cup {<<lease[r], n>>}
    BY <1>19 DEF Spawn
  <2>2. UNCHANGED <<host, guarded, lease, seen>> /\ up /\ pc[r] \in Holding
    BY <1>19, <2>1 DEF Spawn, Step
  <2>3. pc'[r] = "spawned" /\ \A q \in Runners : pc'[q] \in Holding => q = r
    BY <1>5, <2>1
  <2>4. CASE lease[r] \in Fallback
    <3>1. Plain' = {}
      BY <1>8, <2>1, <2>2, <2>4 DEF Plain
    <3>2. Prepared(r)'
      BY <2>2, <2>3, <2>4 DEF Prepared, Starting
    <3> QED BY <1>1, <2>2, <2>3, <3>1, <3>2, LiveRest DEF host, guarded
  <2>5. CASE lease[r] \notin Fallback
    <3>1. n = 1 /\ pc[r] = "expecting"
      BY <1>1, <2>1, <2>5 DEF Prepared, Step
    <3>2. /\ Held(r) /\ Unstarted(r) /\ Plain = {} /\ store.file = guardian
          /\ guardian.expected /\ guardian.cleanup = "unresolved"
      BY <1>4, <1>13, <2>2, <3>1 DEF Unstarted
    <3>3. Plain' # {} => Plain' = {<<guardian.gen, 1>>} /\ guardian.scope # "remote"
      BY <2>1, <3>1, <3>2 DEF Held, Plain
    <3>4. Plain' # {} => Sees(guardian)' /\ Sees(store.file)'
      BY <2>2, <3>2, <3>3 DEF Sees, Unstarted, Held, host, guarded
    <3>5. Prepared(r)'
      BY <2>2, <2>3, <3>2 DEF Prepared, Unstarted, host, guarded
    <3> QED BY <1>1, <2>2, <2>3, <3>4, <3>5, LiveRest DEF host, guarded
  <2> QED BY <2>4, <2>5
<1>20. CASE TrackProvider(r)
  <2>1. PICK kind \in Kinds :
          /\ Persist(r, "spawned", "tracked", "stopping",
                     [guardian EXCEPT !.expected = TRUE, !.kind = kind,
                                      !.provider = IF @ = 0 THEN 1 ELSE 2])
          /\ kind # "none"
          /\ kind = "remote" => guardian.scope = "remote"
    BY <1>20 DEF TrackProvider, Kinds
  <2> DEFINE rec == [guardian EXCEPT !.expected = TRUE, !.kind = kind,
                                     !.provider = IF @ = 0 THEN 1 ELSE 2]
  <2>2. pc[r] = "spawned" /\ up /\ live' = live /\ Plain' = Plain
    BY <1>20, <2>1, PlainShrinks DEF TrackProvider, Persist, Step
  <2>3. guardian \in Receipts /\ guardian.gen = lease[r] /\ guardian.gen \in Nat
    BY <1>4, <2>2 DEF Held, Receipts
  <2>4. rec.provider \in {1, 2} /\ rec.kind = kind /\ rec.scope = guardian.scope
        /\ rec.gen = guardian.gen /\ rec.expected /\ rec.cleanup = guardian.cleanup
        /\ (guardian.provider = 0 => rec.provider = 1)
    BY <2>3 DEF Receipts
  <2>5. rec \in Receipts
    <3>1. (IF guardian.provider = 0 THEN 1 ELSE 2) \in 0..2 /\ kind \in Kinds
      BY <2>1
    <3> QED BY <2>3, <3>1 DEF Receipts
  <2>6. lease[r] \notin Fallback => guardian.provider = 0
    BY <1>1, <2>2 DEF Prepared, Starting, Unstarted
  <2>7. Consistent(rec)
    BY <2>1, <2>3, <2>4, <2>6 DEF Consistent
  <2>8. Plain' # {} => Sees(rec)
    BY <1>1, <2>2, <2>4, <2>5 DEF Sees
  <2>9. Step(r, "spawned", "tracked") => Prepared(r)'
    BY <1>5 DEF Prepared, Starting
  <2> HIDE DEF rec
  <2> QED BY <1>7, <2>1, <2>2, <2>5, <2>7, <2>8, <2>9 DEF rec
<1>21. ASSUME NEW then \in {"ending", "falling_back"}, StopSession(r, then),
              then = "falling_back" => lease[r] \in Fallback
       PROVE  LiveInv'
  <2>1. PICK from \in {"tracked", "stopping"}, to \in {then, "ending"}, outcome \in {"succeeded", "failed"} :
          /\ Persist(r, from, to, to, Marked(outcome))
          /\ live' \subseteq live
          /\ outcome = "succeeded" => live' = live \ ProviderOf(r)
    BY <1>21 DEF StopSession
  <2>2. guardian \in Receipts /\ up /\ Held(r) /\ UNCHANGED lease
    BY <1>4, <2>1 DEF Persist, Step
  <2>3. Marked(outcome) \in Receipts /\ Consistent(Marked(outcome))
    BY <1>1, <2>2 DEF Marked, Receipts, Cleanups, Consistent
  <2>4. outcome = "succeeded" => Plain' = {}
    <3>1. \A p \in Plain : p[1] = guardian.gen
      BY <1>1, <2>2 DEF Sees
    <3> QED BY <2>1, <2>2, <3>1 DEF Held, ProviderOf, Plain
  <2>5. Plain' # {} => Sees(Marked(outcome))
    BY <1>1, <2>1, <2>2, <2>3, <2>4, PlainShrinks DEF Marked, Sees, Receipts
  <2>6. Step(r, from, to)
    BY <2>1 DEF Persist
  <2>7. Prepared(r)' /\ \A q \in Runners : pc'[q] \in Holding => q = r
    BY <1>5, <1>21, <2>2, <2>6 DEF Prepared, Starting
  <2>8. /\ Consistent(store'.mem) /\ Consistent(store'.file) /\ Consistent(guardian')
        /\ \A q \in Runners : Consistent(seen'[q])
        /\ up'
        /\ Plain' # {} => Sees(guardian)' /\ Sees(store.file)'
    BY <2>1, <2>3, <2>5, PersistSees
  <2> QED BY <2>7, <2>8, LiveRest
<1>22. CASE EndSession(r)
  <2>1. CASE /\ \E from \in {"tracked", "stopping"} : Step(r, from, "ending")
             /\ live' \in {live, live \ ProviderOf(r)}
             /\ UNCHANGED <<host, guarded, nextGen, lease, seen, faults>>
    <3>1. PICK from \in {"tracked", "stopping"} : Step(r, from, "ending")
      BY <2>1
    <3>2. Prepared(r)' /\ live' \subseteq live
      BY <1>5, <2>1, <3>1 DEF Prepared, Starting
    <3> QED BY <1>6, <2>1, <3>1, <3>2
  <2> QED BY <1>21, <1>22, <2>1 DEF EndSession
<1>23. CASE FallBack(r)
  BY <1>21, <1>23 DEF FallBack
<1>24. CASE ReleaseAndWait(r)
  <2>1. guardian \in Receipts /\ up
    BY <1>2, <1>24 DEF ReleaseAndWait, Held, Holdings, Step
  <2>2. \A q \in Runners : pc'[q] \notin Holding
    BY <1>2, <1>3, <1>24 DEF ReleaseAndWait, Step
  <2>3. UNCHANGED <<host, seen, live>>
        /\ Settle(guardian, [flags EXCEPT !.requested = TRUE], pending \cup {"down"})
    BY <1>24 DEF ReleaseAndWait
  <2> QED BY <1>1, <1>11, <2>1, <2>2, <2>3
<1>25. CASE RunnerKilled(r)
  <2>1. PICK from \in Holding : Step(r, from, "idle")
    BY <1>25 DEF RunnerKilled
  <2>2. \A q \in Runners : pc'[q] \notin Holding
    BY <1>5, <2>1
  <2>3. UNCHANGED <<host, store, guardian, seen, live>> /\ up
    BY <1>25, <2>1 DEF RunnerKilled, Step
  <2>4. Plain' # {} => Sees(guardian)' /\ Sees(store.file)'
    BY <1>1, <2>3, PlainShrinks DEF Sees, host
  <2> QED BY <1>1, <2>2, <2>3, <2>4, LiveRest DEF host
<1>26. CASE ReleaseReaping(r)
  <2>1. guardian \in Receipts /\ up
    BY <1>2, <1>26 DEF ReleaseReaping, Holdings
  <2>2. \A q \in Runners : pc'[q] \notin Holding
    BY <1>3, <1>26 DEF ReleaseReaping, Relies
  <2>3. UNCHANGED <<host, seen, live>>
        /\ Settle(guardian, [flags EXCEPT !.requested = TRUE], pending)
    BY <1>26 DEF ReleaseReaping
  <2> QED BY <1>1, <1>11, <2>1, <2>2, <2>3
<1> QED
  BY <1>9, <1>10, <1>12, <1>14, <1>15, <1>16, <1>17, <1>18, <1>19, <1>20, <1>22, <1>23,
     <1>24, <1>25, <1>26
  DEF Runner, Claim

(* Messages, the operator and the host keep LiveInv: what decides without a*)
(* proof of exit keeps the receipt, and a boot starts from the receipt.    *)
LEMMA OtherLive ==
    ASSUME Orphans = FALSE, OwnerInv, OwnerInv', LiveInv,
           Guardian \/ OperatorReleases \/ ProviderExits \/ DaemonStops \/ Boot
    PROVE  LiveInv'
<1> USE BoundsAssumption DEF Working, Holding
<1>1. /\ Consistent(store.mem) /\ Consistent(store.file) /\ Consistent(guardian)
      /\ \A q \in Runners : Consistent(seen[q])
      /\ Plain # {} => (up => Sees(guardian)) /\ Sees(store.file)
      /\ \A q \in Runners : Prepared(q)
      /\ ~up => store.mem = store.file
  BY DEF LiveInv
<1>2. /\ guardian \in Holdings /\ store \in [mem : Holdings, file : Holdings]
      /\ guardian = NoReceipt => pending = {}
      /\ \A q \in Runners : pc[q] \in Holding => Relies(q)
      /\ ~up => guardian = NoReceipt
  BY DEF OwnerInv, TypeOK
<1>3. /\ pending # {} => guardian \in Receipts
      /\ pending # {} => \A q \in Runners : pc[q] \notin Holding
  BY <1>2 DEF Holdings, Relies
<1>4. ASSUME NEW rec \in Receipts, NEW fl, NEW mail,
             Settle(rec, fl, mail) \/ Apply(DecisionAfterReap(rec, fl), rec, fl, mail)
               \/ ApplyInDoubt(rec, fl, mail),
             up', Consistent(rec), Plain # {} => Sees(rec) /\ Sees(store.file),
             UNCHANGED <<vm, kernel, live, seen, pc>>, \A q \in Runners : pc[q] \notin Holding
      PROVE  LiveInv'
  <2>1. Spares(rec, fl, mail)
    BY <1>4, NoRelease
  <2>2. /\ Consistent(store'.mem) /\ Consistent(store'.file) /\ Consistent(guardian')
        /\ Plain' # {} => Sees(guardian)' /\ Sees(store.file)'
    BY <1>1, <1>2, <1>4, <2>1, SparesSees
  <2> QED BY <1>1, <1>4, <2>2, LiveRest
<1>5. CASE OwnerDown
  BY <1>1, <1>3, <1>4, <1>5 DEF OwnerDown, Unmoved, host
<1>6. CASE ReaperRuns
  <2>1. live' \subseteq live /\ up /\ UNCHANGED <<host, store, guardian, pc, seen>>
    BY <1>6 DEF ReaperRuns, Unmoved
  <2>2. Plain' # {} => Sees(guardian)' /\ Sees(store.file)'
    BY <1>1, <2>1, PlainShrinks DEF Sees, host
  <2>3. \A q \in Runners : pc'[q] \notin Holding
    BY <1>3, <1>6, <2>1 DEF ReaperRuns
  <2> QED BY <1>1, <2>1, <2>2, <2>3, LiveRest DEF host
<1>7. CASE Reaped
  <2>1. /\ guardian \in Receipts /\ up /\ UNCHANGED <<vm, kernel, live, seen, pc>> /\ up'
        /\ \A q \in Runners : pc[q] \notin Holding
    BY <1>3, <1>7 DEF Reaped, Unmoved, host
  <2>2. \/ Apply(DecisionAfterReap(guardian, flags), guardian, flags, pending \ {"reaped"})
        \/ ApplyInDoubt(guardian, flags, pending \ {"reaped"})
    BY <1>7 DEF Reaped
  <2> QED BY <1>1, <1>4, <2>1, <2>2
<1>8. CASE RetryReap
  BY <1>1, <1>3, <1>4, <1>8 DEF RetryReap, Unmoved, host
<1>9. CASE OperatorReleases
  <2> DEFINE rec == [guardian EXCEPT !.cleanup = "succeeded"]
  <2>1. guardian \in Receipts /\ up /\ Plain = {}
    BY <1>1, <1>2, <1>9 DEF OperatorReleases, Holdings, Sees, ExitProof
  <2>2. rec \in Receipts /\ Consistent(rec)
    BY <1>1, <2>1 DEF Receipts, Cleanups, Consistent
  <2>3. \A q \in Runners : pc[q] \notin Holding
    BY <1>2, <1>9 DEF OperatorReleases, Relies
  <2>4. Settle(rec, [flags EXCEPT !.requested = TRUE], pending)
    BY <1>9 DEF OperatorReleases
  <2>5. UNCHANGED <<vm, kernel, live, seen, pc>> /\ up'
    BY <1>9 DEF OperatorReleases, Unmoved, host
  <2> HIDE DEF rec
  <2> QED BY <1>4, <2>1, <2>2, <2>3, <2>4, <2>5
<1>10. CASE ProviderExits
  <2>1. live' \subseteq live /\ UNCHANGED <<host, guarded, lease, pc, seen>>
    BY <1>10 DEF ProviderExits, Unmoved
  <2>2. Plain' # {} => (up' => Sees(guardian)') /\ Sees(store.file)'
    BY <1>1, <2>1, PlainShrinks DEF Sees, host, guarded
  <2>3. \A q \in Runners : Prepared(q)'
    BY <1>1, <2>1, PlainShrinks DEF Prepared, Starting, Unstarted, host, guarded
  <2> QED BY <1>1, <2>1, <2>2, <2>3 DEF LiveInv, host, guarded
<1>11. CASE DaemonStops
  <2>1. /\ ~up' /\ guardian' = NoReceipt /\ store' = Stored(store.file)
        /\ \A q \in Runners : pc'[q] = "idle" /\ seen'[q] = NoReceipt
    BY <1>11 DEF DaemonStops
  <2>2. store'.mem = store.file /\ store'.file = store.file
    BY <2>1 DEF Stored
  <2>3. live' = Recorded \/ live' = {}
    BY <1>11 DEF DaemonStops
  <2>4. Plain' # {} => Sees(store.file) /\ store.file.provider = 1 /\ Plain' \subseteq Plain
    BY <1>1, <2>3 DEF Recorded, Sees, Plain
  <2>5. Plain' # {} => Sees(store.file)'
    BY <2>2, <2>4 DEF Sees
  <2>6. \A q \in Runners : Prepared(q)'
    BY <2>1 DEF Prepared, Starting
  <2> QED BY <1>1, <2>1, <2>2, <2>5, <2>6 DEF LiveInv, Consistent
<1>12. CASE Boot
  <2>1. ~up /\ up' /\ UNCHANGED <<vm, kernel, live, seen, pc>>
    BY <1>12 DEF Boot
  <2>2. \A q \in Runners : pc[q] \notin Holding
    BY <1>2, <2>1 DEF Relies
  <2>3. CASE store.mem = NoReceipt
    <3>1. Plain' = {} /\ UNCHANGED guarded
      BY <1>1, <1>12, <2>1, <2>3, PlainShrinks DEF Boot, Sees
    <3> QED BY <1>1, <2>1, <2>2, <3>1, LiveRest DEF guarded
  <2>4. CASE store.mem # NoReceipt
    <3>1. store.mem \in Receipts
      BY <1>2, <2>4 DEF Holdings
    <3>2. Restored(store.mem) \in Receipts /\ Consistent(Restored(store.mem))
      BY <1>1, <3>1 DEF Restored, Receipts, Phases, Consistent
    <3>3. Plain # {} => Sees(Restored(store.mem)) /\ Sees(store.file)
      BY <1>1, <2>1, <3>1, <3>2 DEF Restored, Receipts, Sees
    <3>4. Settle(Restored(store.mem), RestoredFlags, {})
      BY <1>12, <2>4 DEF Boot
    <3> QED BY <1>4, <2>1, <2>2, <3>2, <3>3, <3>4
  <2> QED BY <2>3, <2>4
<1> QED
  <2>1. ASSUME Guardian PROVE LiveInv'
    BY <1>5, <1>6, <1>7, <1>8, <2>1 DEF Guardian
  <2> QED BY <1>9, <1>10, <1>11, <1>12, <2>1

(* LiveInv is inductive, given OwnerInv and that no orphan occurs.         *)
LEMMA LiveStep ==
    ASSUME Orphans = FALSE
    PROVE  OwnerInv /\ OwnerInv' /\ LiveInv /\ [Next]_vars => LiveInv'
<1> SUFFICES ASSUME OwnerInv, OwnerInv', LiveInv, [Next]_vars PROVE LiveInv'
  OBVIOUS
<1>1. CASE UNCHANGED vars
  BY <1>1 DEF LiveInv, Consistent, Sees, Plain, Prepared, Starting, Unstarted, vars, host, guarded
<1> QED
  BY <1>1, RunnerLive, OtherLive DEF Next

(* A host without receipts satisfies LiveInv.                              *)
LEMMA LiveInit == Init => LiveInv
BY DEF Init, LiveInv, Consistent, Plain, Prepared, Starting

-----------------------------------------------------------------------------
(* Generations are used in the order in which they are claimed.            *)

\* A holder has the last generation, and no process is of a later one.
GenInv ==
    /\ \A r \in Runners : pc[r] \in Holding => lease[r] + 1 = nextGen
    /\ \A p \in live : p[1] < nextGen

(* GenInv is inductive, given OwnerInv.                                    *)
LEMMA GenStep == OwnerInv /\ OwnerInv' /\ GenInv /\ [Next]_vars => GenInv'
<1> SUFFICES ASSUME OwnerInv, OwnerInv', GenInv, [Next]_vars PROVE GenInv'
  OBVIOUS
<1> USE BoundsAssumption DEF Working, Holding
<1>1. /\ pc \in [Runners -> PCs] /\ lease \in [Runners -> 0..MaxGen] /\ nextGen \in 1..MaxGen + 1
      /\ \A q \in Runners : pc[q] \in Holding => Relies(q) /\ lease[q] + 1 = nextGen
      /\ live \subseteq (1..MaxGen) \X {1, 2}
      /\ \A p \in live : p[1] < nextGen
  BY DEF OwnerInv, GenInv, TypeOK, PCs
<1>2. ASSUME UNCHANGED nextGen, live' \subseteq live,
             \A q \in Runners : pc'[q] \in Holding => pc[q] \in Holding /\ lease'[q] = lease[q]
      PROVE  GenInv'
  BY <1>1, <1>2 DEF GenInv
<1>3. ASSUME NEW r \in Runners, NEW from \in Holding, NEW to, Step(r, from, to),
             UNCHANGED <<lease, nextGen>>,
             \A p \in live' : p \in live \/ p[1] = lease[r]
      PROVE  GenInv'
  <2>1. pc[r] \in Holding /\ \A q \in Runners : pc'[q] \in Holding => pc[q] \in Holding
    BY <1>1, <1>3 DEF Step
  <2> QED BY <1>1, <1>3, <2>1 DEF GenInv
<1>4. ASSUME NEW r \in Runners, Runner(r)
      PROVE  GenInv'
  <2>1. CASE CheckRegistry(r) \/ ReadReceipt(r) \/ RestoreGuardian(r) \/ Refused(r)
    <3>1. UNCHANGED <<lease, nextGen, live>>
      BY <2>1 DEF CheckRegistry, ReadReceipt, RestoreGuardian, Refused
    <3>2. \A q \in Runners : pc'[q] \in Holding => pc[q] \in Holding
      BY <1>1, <2>1 DEF CheckRegistry, ReadReceipt, RestoreGuardian, Refused, Step
    <3> QED BY <1>2, <3>1, <3>2
  <2>2. CASE StartGuardian(r)
    <3>1. \A q \in Runners : pc[q] \notin Holding
      BY <1>1, <2>2 DEF StartGuardian, Relies, Held
    <3>2. nextGen' = nextGen + 1 /\ live' = live
      BY <2>2 DEF StartGuardian
    <3>3. \A q \in Runners : pc'[q] \in Holding => lease'[q] = nextGen
      BY <1>1, <2>2, <3>1 DEF StartGuardian, Step
    <3> QED BY <1>1, <3>2, <3>3 DEF GenInv
  <2>3. CASE TrackHostLock(r) \/ Activate(r) \/ ExpectProvider(r) \/ CancelExpectation(r)
             \/ SpawnFails(r) \/ TrackProvider(r)
    <3>1. PICK from \in Holding : \E to : Step(r, from, to)
      BY <2>3 DEF TrackHostLock, Activate, ExpectProvider, CancelExpectation, SpawnFails,
                  TrackProvider, Persist
    <3>2. UNCHANGED <<lease, nextGen, live>>
      BY <2>3 DEF TrackHostLock, Activate, ExpectProvider, CancelExpectation, SpawnFails,
                  TrackProvider, Persist
    <3> QED BY <1>3, <3>1, <3>2
  <2>4. CASE Spawn(r)
    <3>1. PICK from \in Holding : Step(r, from, "spawned")
      BY <2>4 DEF Spawn
    <3>2. UNCHANGED <<lease, nextGen>> /\ \A p \in live' : p \in live \/ p[1] = lease[r]
      BY <2>4 DEF Spawn
    <3> QED BY <1>3, <3>1, <3>2
  <2>5. CASE EndSession(r) \/ FallBack(r)
    <3>1. PICK from \in Holding : \E to : Step(r, from, to)
      BY <2>5 DEF EndSession, FallBack, StopSession, Persist
    <3>2. UNCHANGED <<lease, nextGen>> /\ live' \subseteq live
      BY <2>5 DEF EndSession, FallBack, StopSession, Persist
    <3> QED BY <1>3, <3>1, <3>2
  <2>6. CASE ReleaseAndWait(r) \/ RunnerKilled(r)
    <3>1. PICK from \in Holding : Step(r, from, "idle")
      BY <2>6 DEF ReleaseAndWait, RunnerKilled
    <3>2. lease' = [lease EXCEPT ![r] = 0] /\ live' = live /\ nextGen' = nextGen
      BY <2>6 DEF ReleaseAndWait, RunnerKilled
    <3> QED BY <1>1, <1>2, <3>1, <3>2 DEF Step
  <2>7. CASE ReleaseReaping(r)
    BY <1>2, <2>7 DEF ReleaseReaping
  <2> QED
    BY <1>4, <2>1, <2>2, <2>3, <2>4, <2>5, <2>6, <2>7 DEF Runner, Claim
<1>5. CASE Guardian \/ OperatorReleases \/ ProviderExits
  <2>1. UNCHANGED <<nextGen, pc, lease>> /\ live' \subseteq live
    BY <1>5 DEF Guardian, OwnerDown, ReaperRuns, Reaped, RetryReap, OperatorReleases,
                ProviderExits, Unmoved
  <2> QED BY <1>2, <2>1
<1>6. CASE DaemonStops
  <2>1. live' \subseteq live /\ nextGen' = nextGen /\ \A q \in Runners : pc'[q] = "idle"
    BY <1>6 DEF DaemonStops, Recorded
  <2> QED BY <1>2, <2>1
<1>7. CASE Boot \/ UNCHANGED vars
  BY <1>2, <1>7 DEF Boot, vars
<1> QED BY <1>4, <1>5, <1>6, <1>7 DEF Next

(* Before the first claim there is nothing to order.                       *)
LEMMA GenInit == Init => GenInv
BY DEF Init, GenInv, Holding, Working

-----------------------------------------------------------------------------
(* Without orphans nobody works beside a process of another generation,    *)
(* whatever fails, dies or restarts, but for one that a fallback started.  *)
THEOREM WorkspaceIsFresh ==
    ASSUME Orphans = FALSE
    PROVE  Spec => []FreshWorkspace
<1>1. OwnerInv /\ LiveInv /\ GenInv => FreshWorkspace
  <2> SUFFICES ASSUME OwnerInv, LiveInv, GenInv, NEW r \in Runners, pc[r] \in Working,
                      NEW p \in live
               PROVE  p[1] = lease[r] \/ (p[1] < lease[r] /\ p[1] \in Fallback)
    BY DEF FreshWorkspace
  <2>1. up /\ Held(r) /\ lease[r] \in Nat /\ p[1] \in Nat
    BY BoundsAssumption DEF OwnerInv, TypeOK, Relies, Holding
  <2>2. lease[r] + 1 = nextGen /\ p[1] < nextGen
    BY DEF GenInv, Holding
  <2>3. p[1] \notin Fallback => p[1] = lease[r]
    BY <2>1 DEF LiveInv, Plain, Sees, Held
  <2> QED BY <2>1, <2>2, <2>3
<1> QED
  BY <1>1, OwnerInit, OwnerStep, LiveInit, LiveStep, GenInit, GenStep, PTL DEF Spec

(* Without orphans the file always names the generation of a live          *)
(* provider, before, during and after a restart, unless it may fall back.  *)
THEOREM ReceiptComesFirst ==
    ASSUME Orphans = FALSE
    PROVE  Spec => []ReceiptFirst
<1>1. LiveInv => ReceiptFirst
  BY DEF LiveInv, ReceiptFirst, Sees, Plain
<1> QED BY <1>1, OwnerInit, OwnerStep, LiveInit, LiveStep, PTL DEF Spec

-----------------------------------------------------------------------------
(* Without fallbacks every process is one of Plain.                        *)
LEMMA PlainIsLive == Fallback = {} => Plain = live
BY DEF Plain

(* A step makes nobody a worker but out of a worker or in a free           *)
(* workspace, and no process but for a worker.                             *)
LEMMA UsersAreContinued ==
    ASSUME Fallback = {}, Orphans = FALSE, OwnerInv, LiveInv, [Next]_vars
    PROVE  /\ \A q \in Runners : pc'[q] \in Working =>
                \/ pc[q] \in Working /\ lease'[q] = lease[q]
                \/ live = {} /\ \A r \in Runners : pc[r] \notin Working
           /\ \A p \in live' : p \in live
                \/ \E r \in Runners : pc[r] \in Working /\ p[1] = lease[r]
<1> USE DEF Working
<1>1. /\ pc \in [Runners -> PCs] /\ lease \in [Runners -> 0..MaxGen]
      /\ guardian = NoReceipt /\ up => live = {} /\ \A r \in Runners : pc[r] \notin Working
      /\ \A q \in Runners : pc[q] # "falling_back"
  BY PlainIsLive DEF OwnerInv, LiveInv, TypeOK, PCs, Relies, Held, Sees, Prepared, Holding
<1>2. ASSUME NEW r \in Runners, NEW from \in Working \cup {"ending"}, NEW to, Step(r, from, to),
             UNCHANGED lease, to \in Working => from \in Working
      PROVE  \A q \in Runners : pc'[q] \in Working => pc[q] \in Working /\ lease'[q] = lease[q]
  BY <1>1, <1>2 DEF Step
<1>3. ASSUME NEW r \in Runners, Runner(r)
      PROVE  /\ \A q \in Runners : pc'[q] \in Working =>
                  \/ pc[q] \in Working /\ lease'[q] = lease[q]
                  \/ live = {} /\ \A s \in Runners : pc[s] \notin Working
             /\ \A p \in live' : p \in live
                  \/ \E s \in Runners : pc[s] \in Working /\ p[1] = lease[s]
  <2>1. CASE CheckRegistry(r) \/ ReadReceipt(r) \/ RestoreGuardian(r) \/ Refused(r)
    <3>1. UNCHANGED <<lease, live>>
      BY <2>1 DEF CheckRegistry, ReadReceipt, RestoreGuardian, Refused
    <3>2. \A q \in Runners : pc'[q] \in Working => pc[q] \in Working
      BY <1>1, <2>1 DEF CheckRegistry, ReadReceipt, RestoreGuardian, Refused, Step
    <3> QED BY <3>1, <3>2
  <2>2. CASE StartGuardian(r)
    BY <1>1, <2>2 DEF StartGuardian, Step
  <2>3. CASE TrackHostLock(r) \/ Activate(r) \/ ExpectProvider(r) \/ CancelExpectation(r)
             \/ SpawnFails(r) \/ TrackProvider(r)
    <3>1. PICK from \in Working : \E to : Step(r, from, to)
      BY <2>3 DEF TrackHostLock, Activate, ExpectProvider, CancelExpectation, SpawnFails,
                  TrackProvider, Persist
    <3>2. UNCHANGED <<lease, live>>
      BY <2>3 DEF TrackHostLock, Activate, ExpectProvider, CancelExpectation, SpawnFails,
                  TrackProvider, Persist
    <3> QED BY <1>2, <3>1, <3>2
  <2>4. CASE Spawn(r)
    <3>1. PICK from \in Working : Step(r, from, "spawned")
      BY <2>4 DEF Spawn
    <3>2. UNCHANGED lease /\ \A p \in live' : p \in live \/ p[1] = lease[r]
      BY <2>4 DEF Spawn
    <3>3. pc[r] \in Working
      BY <3>1 DEF Step
    <3> QED BY <1>2, <3>1, <3>2, <3>3
  <2>5. CASE EndSession(r)
    <3>1. PICK from \in Working : \E to : Step(r, from, to)
      BY <2>5 DEF EndSession, StopSession, Persist
    <3>2. UNCHANGED lease /\ live' \subseteq live
      BY <2>5 DEF EndSession, StopSession, Persist
    <3> QED BY <1>2, <3>1, <3>2
  <2>6. CASE FallBack(r)
    BY <2>6 DEF FallBack
  <2>7. CASE ReleaseAndWait(r) \/ RunnerKilled(r)
    <3>1. PICK from \in Working \cup {"ending"} : Step(r, from, "idle")
      BY <2>7 DEF ReleaseAndWait, RunnerKilled
    <3>2. lease' = [lease EXCEPT ![r] = 0] /\ live' = live
      BY <2>7 DEF ReleaseAndWait, RunnerKilled
    <3> QED BY <1>1, <3>1, <3>2 DEF Step
  <2>8. CASE ReleaseReaping(r)
    BY <2>8 DEF ReleaseReaping
  <2> QED
    BY <1>3, <2>1, <2>2, <2>3, <2>4, <2>5, <2>6, <2>7, <2>8 DEF Runner, Claim
<1>4. CASE Guardian \/ OperatorReleases \/ ProviderExits
  BY <1>4 DEF Guardian, OwnerDown, ReaperRuns, Reaped, RetryReap, OperatorReleases,
              ProviderExits, Unmoved
<1>5. CASE DaemonStops
  <2>1. live' \subseteq live
    BY <1>5 DEF DaemonStops, Recorded
  <2>2. \A q \in Runners : pc'[q] = "idle"
    BY <1>5 DEF DaemonStops
  <2> QED BY <2>1, <2>2
<1>6. CASE Boot
  BY <1>6 DEF Boot
<1>7. CASE UNCHANGED vars
  BY <1>7 DEF vars
<1> QED BY <1>3, <1>4, <1>5, <1>6, <1>7 DEF Next

(* Whose the workspace is: a worker's generation, else a live provider's.  *)
UserIs ==
    /\ \A r \in Runners : pc[r] \in Working => User = lease[r]
    /\ \A p \in live : User = p[1]
    /\ User # 0 => (\E r \in Runners : pc[r] \in Working) \/ live # {}
    /\ User \in 0..MaxGen

(* The abstract lock's holder is the runner that works, or the provider it left.*)
LEMMA UserIsOne ==
    ASSUME Fallback = {}
    PROVE  OwnerInv /\ LiveInv => UserIs
<1> SUFFICES ASSUME OwnerInv, LiveInv PROVE UserIs
  OBVIOUS
<1> USE DEF Working, Holding
<1>1. /\ lease \in [Runners -> 0..MaxGen] /\ live \subseteq (1..MaxGen) \X {1, 2}
      /\ \A r, s \in Runners : pc[r] \in Working /\ pc[s] \in Working => r = s
      /\ \A r \in Runners : pc[r] \in Working => Relies(r)
      /\ \A p, q \in live : p = q
  BY PlainIsLive DEF OwnerInv, LiveInv, TypeOK, Sees
<1>2. \A r \in Runners : pc[r] \in Working => \A p \in live : p[1] = lease[r]
  BY <1>1, PlainIsLive DEF LiveInv, Sees, Relies, Held
<1>3. ASSUME NEW r \in Runners, pc[r] \in Working
      PROVE  User = lease[r]
  <2>1. \E s \in Runners : pc[s] \in Working
    BY <1>3
  <2>2. (CHOOSE s \in Runners : pc[s] \in Working) = r
    BY <1>1, <1>3
  <2> QED BY <2>1, <2>2 DEF User
<1>4. ASSUME ~\E r \in Runners : pc[r] \in Working, NEW p \in live
      PROVE  User = p[1]
  <2>1. (CHOOSE q \in live : TRUE) = p
    BY <1>1, <1>4
  <2> QED BY <1>4, <2>1 DEF User
<1>5. ASSUME ~\E r \in Runners : pc[r] \in Working, live = {}
      PROVE  User = 0
  BY <1>5 DEF User
<1>6. MaxGen \in Nat
  BY BoundsAssumption
<1>7. CASE \E r \in Runners : pc[r] \in Working
  BY <1>1, <1>2, <1>3, <1>7 DEF UserIs
<1>8. CASE ~(\E r \in Runners : pc[r] \in Working) /\ live # {}
  BY <1>1, <1>4, <1>8 DEF UserIs
<1> QED BY <1>5, <1>6, <1>7, <1>8 DEF UserIs

(* The workspace passes from one generation to the next only when the      *)
(* first has neither a worker nor a process in it any more.                *)
THEOREM WorkspaceImplementsLock ==
    ASSUME Fallback = {}, Orphans = FALSE
    PROVE  Spec => RefinesLock
<1>1. Init => Lock!Init
  BY DEF Init, Lock!Init, User, Working
<1>2. OwnerInv /\ LiveInv /\ UserIs /\ UserIs' /\ [Next]_vars => [Lock!Next]_User
  <2> SUFFICES ASSUME OwnerInv, LiveInv, UserIs, UserIs', [Next]_vars
               PROVE  [Lock!Next]_User
    OBVIOUS
  <2>0. User' # 0 => User' \in 1..MaxGen
    BY BoundsAssumption DEF UserIs
  <2> SUFFICES ASSUME User # 0, User' # 0
               PROVE  User' = User
    <3>1. CASE User # 0 /\ User' = 0
      BY <3>1 DEF Lock!Next, Lock!Stop
    <3>2. CASE User = 0 /\ User' # 0
      BY <2>0, <3>2 DEF Lock!Next, Lock!Start
    <3> QED BY <3>1, <3>2
  <2>1. CASE \E q \in Runners : pc'[q] \in Working
    <3>1. PICK q \in Runners : pc'[q] \in Working
      BY <2>1
    <3>2. User' = lease'[q]
      BY <3>1 DEF UserIs
    <3>3. pc[q] \in Working /\ lease'[q] = lease[q]
      BY <3>1, UsersAreContinued DEF UserIs
    <3> QED BY <3>2, <3>3 DEF UserIs
  <2>2. CASE live' # {}
    <3>1. PICK p \in live' : TRUE
      BY <2>2
    <3>2. User' = p[1]
      BY <3>1 DEF UserIs
    <3>3. p \in live \/ \E r \in Runners : pc[r] \in Working /\ p[1] = lease[r]
      BY <3>1, UsersAreContinued
    <3> QED BY <3>2, <3>3 DEF UserIs
  <2> QED BY <2>1, <2>2 DEF UserIs
<1> QED
  BY <1>1, <1>2, OwnerInit, OwnerStep, LiveInit, LiveStep, UserIsOne, PTL
  DEF Spec, RefinesLock, Lock!Spec
=============================================================================
