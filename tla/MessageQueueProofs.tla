------------------------- MODULE MessageQueueProofs -------------------------
(***************************************************************************)
(* What TLAPS proves of MessageQueue for every set of messages and answers *)
(* and every bound: the invariants and action properties of its passing    *)
(* run.  The store's part of the inductive invariant is proved once for    *)
(* each way the code changes the queue; each action cites the one it uses. *)
(***************************************************************************)
EXTENDS MessageQueue, WellFoundedInduction, TLAPS

StoreType ==
    /\ status \in [Ids -> Statuses]
    /\ key \in [Ids -> Keys \cup {NoKey}]
    /\ byKey \in [Keys -> 0..MaxItems]
    /\ next \in 1..(MaxItems + 1)
    /\ durable \subseteq Ids /\ acked \subseteq Ids /\ pending \subseteq Ids
    /\ file \subseteq Ids

\* No item has an id that is still to be given out.
Fresh == \A i \in Ids : i >= next => status[i] = "none"

\* A retry of a plain message finds the item it is about.
Indexed ==
    \A i \in Ids : status[i] # "none" /\ key[i] \in Messages => byKey[key[i]] = i

\* The queue's part of the inductive invariant
StoreInv == StoreType /\ Fresh /\ Indexed /\ PendingIndexed /\ RestartSafe

\* No step of the queue brings a consumed item back.
Final == \A i \in Ids : status[i] = "consumed" => status'[i] \in {"consumed", "none"}

WorkerType ==
    /\ fence \subseteq Ids /\ expired \subseteq Ids /\ seen \subseteq Ids
    /\ entry \in {"none", "running", "parked"}
    /\ runner \in {"none", "turn", "starting", "draining", "waiting", "closing"}
    /\ holding \in 0..MaxItems
    /\ faults \in 0..MaxFaults /\ stops \in 0..MaxStops

\* A runner belongs to an entry, and what it holds is its own claim.
Held ==
    /\ holding # 0 =>
          status[holding] = "delivered" /\ runner \in {"starting", "turn"}
    /\ runner # "none" => entry = "running"

\* A fenced claim that no provider has is the one the runner holds, or is
\* left to AgentDown by a runner that is gone.
FencedIsOwed ==
    faults = 0 =>
        \A i \in fence :
            status[i] = "delivered" /\ i \notin seen =>
                holding = i \/ (runner = "none" /\ entry = "running")

\* The worker's and the fence's part of the inductive invariant
WorkerInv == WorkerType /\ Held /\ FenceCanOpen /\ FencedIsOwed

Inv == StoreInv /\ WorkerInv

-----------------------------------------------------------------------------
(* The largest member of a set of numbers exists.                          *)

\* What Max returns for a set of numbers that has a bound.
LEMMA MaxExists ==
    ASSUME NEW N \in Nat, NEW S \in SUBSET (0..N), S # {}
    PROVE  Max(S) \in S /\ \A y \in S : Max(S) >= y
PROOF
<1> DEFINE T == {N - x : x \in S}
           R == {ss \in Nat \X Nat : ss[1] < ss[2]}
<1>1. IsWellFoundedOn(R, Nat)
    BY NatLessThanWellFounded, Zenon DEF OpToRel
<1>2. T \subseteq Nat /\ T # {}
    <2>1. \A x \in S : x \in 0..N /\ N - x \in Nat
        BY SMT
    <2> QED BY <2>1
<1>3. \E t \in T : \A u \in T : <<u, t>> \notin R
    <2> HIDE DEF R, T
    <2> QED BY <1>1, <1>2, WFMin
<1>4. PICK t \in T : \A u \in T : <<u, t>> \notin R
    BY <1>3
<1>5. \A u \in T : ~(u < t)
    <2> SUFFICES ASSUME NEW u \in T, u < t PROVE FALSE
        OBVIOUS
    <2>1. u \in Nat /\ t \in Nat
        BY <1>2
    <2>2. <<u, t>> \in R
        BY <2>1
    <2> QED BY <2>2, <1>4
<1>6. PICK x \in S : t = N - x
    BY SMT
<1>7. \A y \in S : x >= y
    <2> SUFFICES ASSUME NEW y \in S PROVE x >= y
        OBVIOUS
    <2>1. N - y \in T
        OBVIOUS
    <2>2. ~(N - y < N - x)
        BY <2>1, <1>5, <1>6
    <2>3. x \in Int /\ y \in Int
        BY SMT
    <2> HIDE DEF T, R
    <2> QED BY <2>2, <2>3, SMT
<1> HIDE DEF T, R
<1> QED BY <1>7, Zenon DEF Max
\* The largest of some ids, with 0 for none
LEMMA LargestId ==
    ASSUME NEW F \in SUBSET Ids
    PROVE  /\ Max({0} \cup F) \in 0..MaxItems
           /\ \A i \in F : i <= Max({0} \cup F)
           /\ F # {} => Max({0} \cup F) \in F
PROOF
<1> DEFINE S == {0} \cup F
<1>1. MaxItems \in Nat
    BY BoundsAssumption
<1>2. \A i \in F : i \in 1..MaxItems
    BY DEF Ids
<1>3. S \in SUBSET (0..MaxItems) /\ S # {}
    BY <1>1, <1>2
<1>4. Max(S) \in S /\ \A y \in S : Max(S) >= y
    <2> HIDE DEF S
    <2> QED BY <1>1, <1>3, MaxExists
<1>5. Max(S) \in 0..MaxItems
    BY <1>3, <1>4
<1>6. \A i \in F : i <= Max(S)
    BY <1>1, <1>2, <1>4, <1>5
<1>7. F # {} => Max(S) \in F
    <2> SUFFICES ASSUME NEW i \in F PROVE Max(S) \in F
        OBVIOUS
    <2>1. Max(S) # 0
        BY <1>2, <1>5, <1>6
    <2> QED BY <1>4, <2>1
<1> QED BY <1>5, <1>6, <1>7

-----------------------------------------------------------------------------
(* The ways the code changes the queue.                                    *)

\* A change of status that goes through the store and its file.
LEMMA SavedKeeps ==
    ASSUME StoreInv,
           NEW ids \in SUBSET Ids, NEW s \in Statuses \ {"none"}, NEW ak \in SUBSET Ids,
           \A i \in ids : status[i] \notin {"none", "consumed"},
           \A i \in Ids \ ids : i \in ak <=> i \in acked,
           Saved(ids, s, ak),
           pending' \in SUBSET Ids,
           \A i \in pending : i \notin ids => i \in pending',
           s = "pending" => ids \subseteq pending'
    PROVE  StoreInv' /\ Final
PROOF
<1> USE DEF StoreInv
<1>1. /\ status' = [i \in Ids |-> IF i \in ids THEN s ELSE status[i]]
      /\ acked' = ak
      /\ key' = key /\ durable' = durable /\ byKey' = byKey /\ next' = next
    BY DEF Saved, With
<1>2. StoreType'
    BY <1>1 DEF StoreType, Saved, Live, Statuses
<1>3. Fresh' /\ Indexed' /\ PendingIndexed' /\ Final
    BY <1>1 DEF StoreType, Fresh, Indexed, PendingIndexed, Final, Ids
<1>4. RestartSafe'
    <2>1. CASE ids \cap durable = {}
        <3>1. file' = file
            BY <2>1 DEF Saved
        <3>2. \A i \in durable : status'[i] = status[i] /\ (i \in acked' <=> i \in acked)
            BY <1>1, <2>1 DEF StoreType
        <3> QED BY <1>1, <3>1, <3>2 DEF RestartSafe, Live, StoreType
    <2>2. CASE ids \cap durable # {}
        BY <2>2, <1>1 DEF Saved, RestartSafe, Live, StoreType
    <2> QED BY <2>1, <2>2
<1> QED BY <1>2, <1>3, <1>4

\* The requeue of unconfirmed claims, which is not saved.
LEMMA RecoverKeeps ==
    ASSUME StoreInv, NEW ids \in SUBSET Ids, Recover(ids)
    PROVE  StoreInv' /\ Final
PROOF
<1> USE DEF StoreInv
<1>1. /\ status' = [i \in Ids |-> IF i \in Unconfirmed(ids) THEN "pending" ELSE status[i]]
      /\ pending' = pending \cup Unconfirmed(ids)
      /\ UNCHANGED <<key, durable, acked, byKey, next, file>>
    BY DEF Recover, With
<1>2. \A i \in Unconfirmed(ids) :
          i \in Ids /\ i \notin acked /\ status[i] \in {"delivered", "failed"}
    BY DEF Unconfirmed
<1>3. StoreType'
    BY <1>1, <1>2 DEF StoreType, Statuses
<1>4. Fresh' /\ Indexed' /\ PendingIndexed' /\ Final
    BY <1>1, <1>2 DEF StoreType, Fresh, Indexed, PendingIndexed, Final, Ids
<1>5. RestartSafe'
    BY <1>1, <1>2 DEF StoreType, RestartSafe, Live
<1> QED BY <1>3, <1>4, <1>5

\* A new item, in memory or also on disk.
LEMMA AppendKeeps ==
    ASSUME StoreInv, NEW k \in Keys, NEW du \in BOOLEAN, NEW ix \in BOOLEAN,
           Append(k, du, ix),
           k \in Messages => ix /\ IsNew(k),
           \/ file' = Live(status', acked', durable')
           \/ ~du /\ file' = file
    PROVE  StoreInv' /\ Final
PROOF
<1> USE DEF StoreInv
<1>1. /\ next \in Ids /\ next' = next + 1
      /\ status' = [status EXCEPT ![next] = "pending"]
      /\ key' = [key EXCEPT ![next] = k]
      /\ durable' = IF du THEN durable \cup {next} ELSE durable \ {next}
      /\ acked' = acked \ {next}
      /\ pending' = pending \cup {next}
      /\ byKey' = IF ix THEN [byKey EXCEPT ![k] = next] ELSE byKey
    BY DEF Append
<1>2. status[next] = "none"
    BY <1>1 DEF StoreType, Fresh, Ids
<1>3. durable' \subseteq Ids
    BY <1>1 DEF StoreType
<1>4. StoreType'
    <2>1. status' \in [Ids -> Statuses] /\ key' \in [Ids -> Keys \cup {NoKey}]
        BY <1>1 DEF StoreType, Statuses
    <2>2. byKey' \in [Keys -> 0..MaxItems] /\ next' \in 1..(MaxItems + 1)
        BY <1>1, BoundsAssumption DEF StoreType, Ids
    <2>3. file' \subseteq Ids
        BY <1>3 DEF StoreType, Live
    <2> QED BY <1>1, <1>3, <2>1, <2>2, <2>3 DEF StoreType
<1>5. Fresh' /\ PendingIndexed' /\ Final
    BY <1>1, <1>2 DEF StoreType, Fresh, PendingIndexed, Final, Ids
<1>6. Indexed'
    <2> SUFFICES ASSUME NEW i \in Ids, status'[i] # "none", key'[i] \in Messages
                 PROVE  byKey'[key'[i]] = i
        BY DEF Indexed
    <2>1. CASE i = next
        BY <1>1, <2>1 DEF StoreType, Keys
    <2>2. CASE i # next
        <3>1. key'[i] = key[i] /\ status'[i] = status[i]
            BY <1>1, <2>2 DEF StoreType
        <3>2. byKey[key[i]] = i /\ key[i] \in Keys
            BY <3>1 DEF Indexed, Keys
        <3>3. ~ix \/ key[i] # k
            BY <3>1, <3>2 DEF IsNew, Ids
        <3> QED BY <1>1, <3>1, <3>2, <3>3 DEF StoreType
    <2> QED BY <2>1, <2>2
<1>7. RestartSafe'
    <2>1. CASE file' = Live(status', acked', durable')
        BY <2>1, <1>3 DEF RestartSafe, Live
    <2>2. CASE ~du /\ file' = file
        BY <2>2, <1>1, <1>2 DEF StoreType, RestartSafe, Live
    <2> QED BY <2>1, <2>2
<1> QED BY <1>4, <1>5, <1>6, <1>7

\* A failed answer is sent again, which is not saved.
LEMMA RetryKeeps ==
    ASSUME StoreInv, NEW i \in Ids, status[i] = "failed",
           status' = With({i}, "pending"), acked' = acked \ {i},
           pending' = pending \cup {i},
           UNCHANGED <<key, durable, byKey, next, file>>
    PROVE  StoreInv' /\ Final
PROOF
<1> USE DEF StoreInv
<1>1. status' = [j \in Ids |-> IF j = i THEN "pending" ELSE status[j]]
    BY DEF With
<1>2. StoreType'
    BY <1>1 DEF StoreType, Statuses
<1>3. Fresh' /\ Indexed' /\ PendingIndexed' /\ Final
    BY <1>1 DEF StoreType, Fresh, Indexed, PendingIndexed, Final, Ids
<1>4. RestartSafe'
    BY <1>1 DEF StoreType, RestartSafe, Live
<1> QED BY <1>2, <1>3, <1>4

\* A step that leaves the queue alone.
LEMMA UnchangedKeeps ==
    ASSUME StoreInv, UNCHANGED store
    PROVE  StoreInv' /\ Final
PROOF
BY DEF StoreInv, StoreType, Fresh, Indexed, PendingIndexed, RestartSafe, Live, Final, store

\* A restart: what the file names, and nothing else.
LEMMA RestartKeeps ==
    ASSUME StoreInv, DaemonRestart
    PROVE  StoreInv' /\ Final
PROOF
<1> USE DEF StoreInv
<1>1. /\ status' = [i \in Ids |-> IF i \in file THEN "pending" ELSE "none"]
      /\ key' = [i \in Ids |-> IF i \in file THEN key[i] ELSE NoKey]
      /\ durable' = file /\ pending' = file /\ acked' = {} /\ file' = file
      /\ byKey' = [k \in Keys |-> Reindexed(k)]
      /\ next' = NextId
    BY DEF DaemonRestart
<1>2. MaxItems \in Nat /\ file \subseteq 1..MaxItems
    BY BoundsAssumption DEF StoreType, Ids
<1>3. NextId \in 1..(MaxItems + 1) /\ \A i \in file : i < NextId
    <2> DEFINE M == Max({0} \cup file)
    <2>1. M \in 0..MaxItems /\ \A i \in file : i <= M
        BY LargestId DEF StoreType
    <2>2. NextId = M + 1
        BY DEF NextId
    <2> HIDE DEF M
    <2> QED BY <1>2, <2>1, <2>2
<1>4. \A k \in Keys : /\ Reindexed(k) \in 0..MaxItems
                       /\ \A i \in file : key[i] = k =>
                             /\ Reindexed(k) \in file
                             /\ key[Reindexed(k)] = k
    <2> SUFFICES ASSUME NEW k \in Keys
                 PROVE  /\ Reindexed(k) \in 0..MaxItems
                        /\ \A i \in file : key[i] = k =>
                             /\ Reindexed(k) \in file
                             /\ key[Reindexed(k)] = k
        OBVIOUS
    <2> DEFINE F == {i \in file : key[i] = k}
    <2>1. Reindexed(k) = Max({0} \cup F)
        BY DEF Reindexed
    <2>2. F \in SUBSET Ids
        BY DEF StoreType
    <2>3. /\ Reindexed(k) \in 0..MaxItems
          /\ \A i \in F : i <= Reindexed(k)
          /\ F # {} => Reindexed(k) \in F
        <3> HIDE DEF F
        <3> QED BY <2>1, <2>2, LargestId
    <2> QED BY <2>3
<1>5. StoreType'
    BY <1>1, <1>2, <1>3, <1>4 DEF StoreType, Statuses
<1>6. Fresh' /\ PendingIndexed'
    BY <1>1, <1>2, <1>3 DEF Fresh, PendingIndexed, Ids
<1>7. Indexed'
    <2> SUFFICES ASSUME NEW i \in Ids, status'[i] # "none", key'[i] \in Messages
                 PROVE  byKey'[key'[i]] = i
        BY DEF Indexed
    <2>1. i \in file /\ key'[i] = key[i] /\ key[i] \in Keys
        BY <1>1 DEF Keys
    <2>2. byKey'[key[i]] = Reindexed(key[i])
        BY <1>1, <2>1
    <2>3. \A j \in file : j \in Ids /\ status[j] # "none"
        BY DEF RestartSafe, Live, StoreType
    <2>4. Reindexed(key[i]) \in file /\ key[Reindexed(key[i])] = key[i]
        BY <1>4, <2>1
    <2> QED BY <2>1, <2>2, <2>3, <2>4 DEF Indexed
<1>8. RestartSafe'
    BY <1>1, <1>2 DEF RestartSafe, Live, Ids
<1>9. Final
    BY <1>1 DEF Final, RestartSafe, Live
<1> QED BY <1>5, <1>6, <1>7, <1>8, <1>9

-----------------------------------------------------------------------------
(* The runner's steps.                                                     *)

\* A fenced message is settled as consumed only when a provider has it.
Gentle ==
    \A i \in fence :
        faults = 0 /\ status[i] # "consumed" /\ status'[i] = "consumed" => i \in seen

\* The three ways to settle the items ids, with a save that works or not, and
\* what each leaves of them.
LEMMA SettledKeeps ==
    ASSUME StoreInv, faults \in 0..MaxFaults,
           NEW ids \in SUBSET Ids, \A i \in ids : status[i] = "delivered",
           \/ BestEffort(ids, Restored(ids))
           \/ BestEffort(ids, Failed(ids))
           \/ BestEffort(ids, Consumed(ids))
    PROVE  /\ StoreInv' /\ Final
           /\ faults' \in 0..MaxFaults
           /\ \/ faults' # 0
              \/ /\ faults' = faults
                 /\ \A i \in ids : status'[i] # "delivered"
           /\ \A i \in Ids : /\ i \notin ids => status'[i] = status[i]
                             /\ i \in acked' => i \in acked
PROOF
<1>1. CASE SaveFails(ids)
    BY <1>1, UnchangedKeeps, BoundsAssumption DEF SaveFails, Fault, store
<1>2. CASE Restored(ids) /\ UNCHANGED faults
    <2>1. StoreInv' /\ Final
        <3>1. /\ Saved(ids, "pending", acked \ ids)
              /\ pending' = pending \cup ids
              /\ acked \ ids \in SUBSET Ids /\ pending' \in SUBSET Ids
            BY <1>2 DEF Restored, StoreInv, StoreType
        <3> QED BY <3>1, SavedKeeps DEF Statuses
    <2> QED BY <1>2, <2>1 DEF Restored, Saved, With
<1>3. CASE Failed(ids) /\ UNCHANGED faults
    <2>1. StoreInv' /\ Final
        BY <1>3, SavedKeeps DEF Failed, Statuses, StoreInv, StoreType
    <2> QED BY <1>3, <2>1 DEF Failed, Saved, With
<1>4. CASE Consumed(ids) /\ UNCHANGED faults
    <2>1. StoreInv' /\ Final
        BY <1>4, SavedKeeps DEF Consumed, Statuses, StoreInv, StoreType
    <2> QED BY <1>4, <2>1 DEF Consumed, Saved, With
<1> QED BY <1>1, <1>2, <1>3, <1>4 DEF BestEffort

\* A step in which everything delivered is settled, after which the runner
\* holds nothing.
LEMMA SettlesAll ==
    ASSUME Inv,
           \/ BestEffort(Delivered, Restored(Delivered))
           \/ BestEffort(Delivered, Failed(Delivered))
           \/ BestEffort(Delivered, Consumed(Delivered)) /\ runner = "turn" /\ holding = 0,
           runner # "none",
           NEW p \in {"none", "draining", "waiting", "closing"}, Phase(p, 0),
           UNCHANGED <<ticket, seen, stops>>
    PROVE  Inv' /\ Final /\ Gentle
PROOF
<1> USE DEF Inv
<1>1. Delivered \in SUBSET Ids /\ \A i \in Delivered : status[i] = "delivered"
    BY DEF Delivered
<1>2. /\ StoreInv' /\ Final
      /\ faults' \in 0..MaxFaults
      /\ \/ faults' # 0
         \/ /\ faults' = faults
            /\ \A i \in Delivered : status'[i] # "delivered"
      /\ \A i \in Ids : /\ i \notin Delivered => status'[i] = status[i]
                        /\ i \in acked' => i \in acked
    <2>1. faults \in 0..MaxFaults
        BY DEF WorkerInv, WorkerType
    <2> QED BY <1>1, <2>1, SettledKeeps
<1>3. /\ runner' = p /\ holding' = 0 /\ entry' = entry /\ fence' = fence
      /\ expired' = expired /\ seen' = seen /\ stops' = stops
    BY DEF Phase, ticket
<1>4. WorkerType'
    <2>1. faults' \in 0..MaxFaults
        BY <1>2
    <2>2. WorkerType
        BY DEF WorkerInv
    <2> QED BY <1>3, <2>1, <2>2, BoundsAssumption DEF WorkerType
<1>5. Held' /\ FenceCanOpen'
    BY <1>2, <1>3 DEF WorkerInv, WorkerType, Held, FenceCanOpen
<1>6. FencedIsOwed'
    BY <1>2, <1>3 DEF WorkerInv, WorkerType, FencedIsOwed, Delivered
<1>7. Gentle
    <2>1. CASE BestEffort(Delivered, Restored(Delivered)) \/ BestEffort(Delivered, Failed(Delivered))
        BY <2>1 DEF Gentle, BestEffort, Restored, Failed, SaveFails, Saved, With, store,
                    WorkerInv, WorkerType
    <2>2. CASE runner = "turn" /\ holding = 0
        BY <1>2, <2>2 DEF Gentle, WorkerInv, WorkerType, FencedIsOwed, Delivered, Ids
    <2> QED BY <2>1, <2>2
<1> QED BY <1>2, <1>4, <1>5, <1>6, <1>7 DEF WorkerInv

\* A step of the runner that leaves the queue alone and holds what it held.
LEMMA KeepsClaim ==
    ASSUME Inv, UNCHANGED <<store, ticket, faults>>, stops' \in 0..MaxStops,
           seen \subseteq seen' /\ seen' \subseteq Ids,
           \/ runner' = runner /\ holding' = holding
           \/ /\ runner # "none" /\ holding = 0 /\ holding' = 0
              /\ runner' \in {"none", "turn", "closing"}
    PROVE  Inv' /\ Final /\ Gentle
PROOF
<1> USE DEF Inv
<1>1. StoreInv' /\ Final
    BY UnchangedKeeps
<1>2. UNCHANGED <<status, acked, entry, fence, expired, faults>>
    BY DEF store, ticket
<1>3. WorkerType' /\ Held' /\ FenceCanOpen' /\ FencedIsOwed' /\ Gentle
    BY <1>2 DEF WorkerInv, WorkerType, Held, FenceCanOpen, FencedIsOwed, Gentle, Ids
<1> QED BY <1>1, <1>3 DEF WorkerInv

\* Each step of the runner keeps the invariant.
LEMMA RunnerKeeps ==
    ASSUME Inv, Runner
    PROVE  Inv' /\ Final /\ Gentle
PROOF
<1> USE DEF Inv
<1>1. ASSUME NEW i \in Ids, NEW p \in {"starting", "turn"}, Claim(i, p),
             runner # "none", holding = 0
      PROVE  Inv' /\ Final /\ Gentle
    <2>1. /\ Saved({i}, "delivered", acked) /\ pending' = pending \ {i}
          /\ status[i] = "pending"
          /\ runner' = p /\ holding' = i
          /\ UNCHANGED <<ticket, seen, faults, stops>>
        BY <1>1 DEF Claim, Phase
    <2>2. StoreInv' /\ Final
        <3>1. acked \in SUBSET Ids /\ pending' \in SUBSET Ids
            BY <2>1 DEF StoreInv, StoreType
        <3> QED BY <2>1, <3>1, SavedKeeps DEF Statuses
    <2>3. /\ status' = [j \in Ids |-> IF j = i THEN "delivered" ELSE status[j]]
          /\ acked' = acked
        BY <2>1 DEF Saved, With
    <2>4. i \in pending /\ i \in Ids /\ i # 0
        BY <1>1 DEF Claim, Ids
    <2>5. /\ WorkerType /\ Held /\ FenceCanOpen /\ FencedIsOwed
          /\ UNCHANGED <<entry, fence, expired, seen, faults, stops>>
        BY <2>1 DEF WorkerInv, ticket
    <2>6. WorkerType'
        BY <2>1, <2>4, <2>5 DEF WorkerType, Ids
    <2>7. Held'
        BY <1>1, <2>1, <2>3, <2>4, <2>5 DEF Held
    <2>8. FenceCanOpen' /\ Gentle
        BY <2>3, <2>5 DEF WorkerType, FenceCanOpen, Gentle
    <2>9. FencedIsOwed'
        BY <1>1, <2>1, <2>3, <2>5 DEF WorkerType, FencedIsOwed, Ids
    <2> QED BY <2>2, <2>6, <2>7, <2>8, <2>9 DEF WorkerInv
<1>2. ASSUME NEW i \in Ids, ClaimNext(i) \/ ClaimMidTurn(i)
      PROVE  Inv' /\ Final /\ Gentle
    BY <1>1, <1>2 DEF ClaimNext, ClaimMidTurn, WorkerInv, Held
<1>3. CASE DrainEnds \/ StartTurn \/ RunnerEnds
    <2>1. holding = 0 /\ runner # "none"
        BY <1>3 DEF DrainEnds, StartTurn, RunnerEnds, WorkerInv, Held
    <2>2. /\ UNCHANGED <<store, ticket, faults>> /\ stops' \in 0..MaxStops
          /\ seen' = seen /\ seen \subseteq Ids
          /\ holding' = 0 /\ runner' \in {"none", "turn", "closing"}
        BY <1>3 DEF DrainEnds, StartTurn, RunnerEnds, Phase, WorkerInv, WorkerType
    <2> QED BY <2>1, <2>2, KeepsClaim
<1>4. CASE ProviderTakes
    <2>1. /\ UNCHANGED <<store, ticket, faults>> /\ stops' \in 0..MaxStops
          /\ seen \subseteq seen' /\ seen' \subseteq Ids
          /\ runner' = runner /\ holding' = holding
        BY <1>4 DEF ProviderTakes, WorkerInv, WorkerType, Ids
    <2> QED BY <2>1, KeepsClaim
<1>5. CASE Acknowledge
    <2>1. /\ WorkerType /\ Held /\ FenceCanOpen /\ FencedIsOwed
          /\ holding \in Ids /\ holding # 0 /\ holding \in seen
          /\ status[holding] = "delivered"
          /\ runner # "none" /\ entry = "running"
        BY <1>5 DEF Acknowledge, WorkerInv, WorkerType, Held, Ids
    <2>2. /\ runner' = "turn" /\ holding' = 0 /\ seen' = seen /\ stops' = stops
          /\ entry' = entry /\ expired' = expired
        BY <1>5 DEF Acknowledge, Phase
    <2>3. \/ SaveFails({holding}) /\ UNCHANGED fence
          \/ /\ Saved({holding}, "delivered", acked \cup {holding})
             /\ fence' = Unfence
             /\ UNCHANGED <<pending, faults>>
        BY <1>5, <2>1 DEF Acknowledge
    <2>4. CASE SaveFails({holding}) /\ UNCHANGED fence
        <3>1. UNCHANGED store /\ fence' = fence /\ faults' \in 1..MaxFaults
            BY <2>1, <2>4, BoundsAssumption DEF SaveFails, Fault, WorkerType
        <3>2. StoreInv' /\ Final
            BY <3>1, UnchangedKeeps
        <3>3. UNCHANGED <<status, acked>>
            BY <3>1 DEF store
        <3>4. WorkerType'
            BY <2>1, <2>2, <3>1, BoundsAssumption DEF WorkerType
        <3>5. Held' /\ FenceCanOpen' /\ FencedIsOwed' /\ Gentle
            BY <2>1, <2>2, <3>1, <3>3 DEF Held, FenceCanOpen, FencedIsOwed, Gentle
        <3> QED BY <3>2, <3>4, <3>5 DEF WorkerInv
    <2>5. CASE /\ Saved({holding}, "delivered", acked \cup {holding})
               /\ fence' = Unfence
               /\ UNCHANGED <<pending, faults>>
        <3>1. StoreInv' /\ Final
            <4>1. /\ acked \cup {holding} \in SUBSET Ids
                  /\ pending' \in SUBSET Ids /\ pending' = pending
                BY <2>1, <2>5 DEF StoreInv, StoreType
            <4>2. /\ \A i \in {holding} : status[i] \notin {"none", "consumed"}
                  /\ \A i \in Ids \ {holding} : i \in acked \cup {holding} <=> i \in acked
                  /\ {holding} \in SUBSET Ids
                BY <2>1
            <4> QED BY <2>5, <4>1, <4>2, SavedKeeps DEF Statuses
        <3>2. /\ status' = [j \in Ids |-> IF j = holding THEN "delivered" ELSE status[j]]
              /\ acked' = acked \cup {holding} /\ faults' = faults
            BY <2>5 DEF Saved, With
        <3>3. fence' = fence \ {holding}
            BY <2>1, <2>5, <3>2 DEF Unfence, FenceCanOpen
        <3>4. WorkerType'
            BY <2>1, <2>2, <3>2, <3>3, BoundsAssumption DEF WorkerType
        <3>5. Held' /\ FenceCanOpen' /\ Gentle
            BY <2>1, <2>2, <3>2, <3>3 DEF Held, FenceCanOpen, Gentle, WorkerType
        <3>6. FencedIsOwed'
            BY <2>1, <2>2, <3>2, <3>3 DEF FencedIsOwed, WorkerType
        <3> QED BY <3>1, <3>4, <3>5, <3>6 DEF WorkerInv
    <2> QED BY <2>3, <2>4, <2>5
<1>6. CASE Settle
    <2>1. /\ holding \in Ids /\ status[holding] = "delivered"
          /\ entry = "running" /\ runner # "none"
        BY <1>6 DEF Settle, WorkerInv, WorkerType, Held, Ids
    <2>2. /\ runner' \in {"closing", "turn"} /\ holding' = 0
          /\ seen' = seen /\ stops' = stops
          /\ entry' = entry /\ fence' = fence /\ expired' = expired
        BY <1>6 DEF Settle, Phase, ticket
    <2>3. BestEffort({holding}, Restored({holding})) \/ BestEffort({holding}, Failed({holding}))
        BY <1>6 DEF Settle
    <2>4. /\ StoreInv' /\ Final
          /\ faults' \in 0..MaxFaults
          /\ \/ faults' # 0
             \/ /\ faults' = faults
                /\ \A i \in {holding} : status'[i] # "delivered"
          /\ \A i \in Ids : /\ i \notin {holding} => status'[i] = status[i]
                            /\ i \in acked' => i \in acked
        <3>1. {holding} \in SUBSET Ids /\ \A i \in {holding} : status[i] = "delivered"
            BY <2>1
        <3>2. faults \in 0..MaxFaults
            BY DEF WorkerInv, WorkerType
        <3> QED BY <2>3, <3>1, <3>2, SettledKeeps
    <2>5. WorkerType' /\ Held' /\ FenceCanOpen' /\ FencedIsOwed'
        <3>1. WorkerType /\ FenceCanOpen /\ FencedIsOwed /\ faults' \in 0..MaxFaults
            BY <2>4 DEF WorkerInv
        <3>2. WorkerType'
            BY <2>2, <3>1, BoundsAssumption DEF WorkerType
        <3>3. Held' /\ FenceCanOpen'
            BY <2>1, <2>2, <2>4, <3>1 DEF Held, FenceCanOpen, WorkerType
        <3>4. FencedIsOwed'
            BY <2>1, <2>2, <2>4, <3>1 DEF FencedIsOwed, WorkerType
        <3> QED BY <3>2, <3>3, <3>4
    <2>6. Gentle
        BY <2>3 DEF Gentle, BestEffort, Restored, Failed, SaveFails, Saved, With, store,
                    WorkerInv, WorkerType
    <2> QED BY <2>4, <2>5, <2>6 DEF WorkerInv
<1>7. CASE StartFails
    <2>1. BestEffort(Delivered, Restored(Delivered))
        BY <1>7 DEF StartFails, BestEffort
    <2>2. PICK p \in {"none", "closing"} : Phase(p, 0)
        BY <1>7 DEF StartFails
    <2>3. runner # "none" /\ UNCHANGED <<ticket, seen, stops>>
        BY <1>7 DEF StartFails
    <2> QED BY <2>1, <2>2, <2>3, SettlesAll
<1>8. CASE TurnCompletes
    BY <1>8, SettlesAll DEF TurnCompletes
<1>9. CASE TurnPauses
    BY <1>9, SettlesAll DEF TurnPauses
<1>10. CASE TurnAborts \/ TurnFails
    BY <1>10, SettlesAll DEF TurnAborts, TurnFails
<1> QED BY <1>2, <1>3, <1>4, <1>5, <1>6, <1>7, <1>8, <1>9, <1>10 DEF Runner

-----------------------------------------------------------------------------
(* The other steps.                                                        *)

\* A new runner and a new entry, whose fence holds nothing or what it inherits.
LEMMA NewRunnerIsSound ==
    ASSUME WorkerType, NewRunner, fence' \subseteq Ids, expired' \subseteq Ids,
           faults' \in 0..MaxFaults, stops' \in 0..MaxStops,
           fence' \cap acked' = {},
           \A i \in fence' : status'[i] # "delivered"
    PROVE  WorkerInv'
PROOF
<1>1. /\ entry' = "running" /\ runner' = "turn" /\ holding' = 0 /\ seen' = seen
    BY DEF NewRunner, Phase
<1> QED BY <1>1, BoundsAssumption
        DEF WorkerInv, WorkerType, Held, FenceCanOpen, FencedIsOwed

\* A pending item joins the fence, of this entry or of a new one.
LEMMA FencedIsSound ==
    ASSUME WorkerInv, NEW i \in Ids, Fenced(i),
           faults' = faults /\ stops' = stops,
           status'[i] # "delivered", acked' = acked \ {i},
           \A j \in Ids : j # i => status'[j] = status[j],
           status[i] # "delivered"
    PROVE  WorkerInv'
PROOF
<1>1. WorkerType /\ Held /\ FenceCanOpen /\ FencedIsOwed
    BY DEF WorkerInv
<1>2. CASE /\ entry # "none" /\ fence' = fence \cup {i}
           /\ UNCHANGED <<entry, expired, worker>>
    <2>1. UNCHANGED <<runner, holding, seen>>
        BY <1>2 DEF worker
    <2>2. WorkerType'
        BY <1>1, <1>2, <2>1 DEF WorkerType
    <2>3. Held' /\ FenceCanOpen'
        BY <1>1, <1>2, <2>1 DEF Held, FenceCanOpen, WorkerType, Ids
    <2>4. FencedIsOwed'
        BY <1>1, <1>2, <2>1 DEF FencedIsOwed, WorkerType
    <2> QED BY <2>2, <2>3, <2>4 DEF WorkerInv
<1>3. CASE NewRunner /\ fence' = {i} /\ expired' = {}
    <2>1. /\ fence' \subseteq Ids /\ expired' \subseteq Ids
          /\ faults' \in 0..MaxFaults /\ stops' \in 0..MaxStops
          /\ fence' \cap acked' = {}
          /\ \A j \in fence' : status'[j] # "delivered"
        BY <1>1, <1>3 DEF WorkerType
    <2> QED BY <1>1, <1>3, <2>1, NewRunnerIsSound
<1> QED BY <1>2, <1>3 DEF Fenced

\* Each way to send keeps the invariant.
LEMMA SendKeeps ==
    ASSUME Inv, NEW k \in Keys, Send(k)
    PROVE  Inv' /\ Final /\ Gentle
PROOF
<1> USE DEF Inv
<1>1. ASSUME SendToIdle(k), IsNew(k) \/ k \in Answers
      PROVE  Inv' /\ Final /\ Gentle
    <2>1. UNCHANGED <<ticket, worker, stops>> /\ entry = "none"
        BY <1>1 DEF SendToIdle
    <2>2. WorkerType /\ Held /\ FenceCanOpen /\ FencedIsOwed /\ fence = {}
        BY <2>1 DEF WorkerInv, FenceCanOpen
    <2>3. CASE Append(k, TRUE, k \in Messages) /\ file' = Live(status', acked', durable')
               /\ UNCHANGED faults
        <3>1. k \in Messages => IsNew(k)
            BY <1>1, KeysAssumption
        <3>2. StoreInv' /\ Final
            <4>1. CASE k \in Messages
                <5>1. Append(k, TRUE, TRUE)
                    BY <2>3, <4>1 DEF Append
                <5> QED BY <2>3, <3>1, <5>1, AppendKeeps
            <4>2. CASE k \notin Messages
                <5>1. Append(k, TRUE, FALSE)
                    BY <2>3, <4>2 DEF Append
                <5> QED BY <2>3, <4>2, <5>1, AppendKeeps
            <4> QED BY <4>1, <4>2
        <3>3. /\ holding = 0
              /\ UNCHANGED <<entry, fence, expired, runner, holding, seen, faults, stops>>
            BY <2>1, <2>2, <2>3 DEF Held, ticket, worker
        <3>4. WorkerType'
            BY <2>2, <3>3 DEF WorkerType
        <3>5. Held' /\ FenceCanOpen' /\ FencedIsOwed' /\ Gentle
            BY <2>1, <2>2, <3>3 DEF Held, FenceCanOpen, FencedIsOwed, Gentle
        <3> QED BY <3>2, <3>4, <3>5 DEF WorkerInv
    <2>4. CASE Fault /\ UNCHANGED store
        <3>1. StoreInv' /\ Final
            BY <2>4, UnchangedKeeps
        <3>2. faults' \in 0..MaxFaults
            BY <2>2, <2>4, BoundsAssumption DEF Fault, WorkerType
        <3>3. WorkerType' /\ Held' /\ FenceCanOpen' /\ FencedIsOwed' /\ Gentle
            BY <2>1, <2>2, <3>2
               DEF WorkerType, Held, FenceCanOpen, FencedIsOwed, Gentle, ticket, worker
        <3> QED BY <3>1, <3>3 DEF WorkerInv
    <2> QED BY <1>1, <2>3, <2>4 DEF SendToIdle
<1>2. ASSUME IsNew(k), SendToEntry(k)
      PROVE  Inv' /\ Final /\ Gentle
    <2>1. /\ Append(k, FALSE, TRUE) /\ Fenced(next)
          /\ UNCHANGED <<file, faults, stops>>
        BY <1>2 DEF SendToEntry
    <2>2. StoreInv' /\ Final
        BY <1>2, <2>1, AppendKeeps
    <2>3. /\ next \in Ids /\ status' = [status EXCEPT ![next] = "pending"]
          /\ acked' = acked \ {next}
        BY <2>1 DEF Append
    <2>4. status[next] = "none"
        BY <2>3 DEF StoreInv, StoreType, Fresh, Ids
    <2>5. /\ status'[next] # "delivered"
          /\ \A j \in Ids : j # next => status'[j] = status[j]
        BY <2>3 DEF StoreInv, StoreType
    <2>6. WorkerInv'
        BY <2>1, <2>3, <2>4, <2>5, FencedIsSound
    <2>7. Gentle
        BY <2>3, <2>5 DEF Gentle, WorkerInv, WorkerType, StoreInv, StoreType
    <2> QED BY <2>2, <2>6, <2>7
<1>3. ASSUME ~IsNew(k), RetryFailed(k)
      PROVE  Inv' /\ Final /\ Gentle
    <2> DEFINE i == byKey[k]
    <2>1. /\ i \in Ids /\ status[i] = "failed"
          /\ status' = With({i}, "pending") /\ acked' = acked \ {i}
          /\ pending' = pending \cup {i}
          /\ Fenced(i)
          /\ UNCHANGED <<key, durable, byKey, next, file>>
          /\ faults' = faults /\ stops' = stops
        BY <1>3 DEF RetryFailed, IsNew, StoreInv, StoreType, Ids
    <2> HIDE DEF i
    <2>2. StoreInv' /\ Final
        BY <2>1, RetryKeeps
    <2>3. /\ status'[i] = "pending" /\ status[i] # "delivered"
          /\ \A j \in Ids : j # i => status'[j] = status[j]
        BY <2>1 DEF With
    <2>4. WorkerInv'
        BY <2>1, <2>3, FencedIsSound
    <2>5. Gentle
        BY <2>3 DEF Gentle, WorkerInv, WorkerType
    <2> QED BY <2>2, <2>4, <2>5
<1> QED BY <1>1, <1>2, <1>3 DEF Send

\* What a requeue of unconfirmed claims leaves of a fence.
LEMMA RecoverSettles ==
    ASSUME Inv, NEW ids \in SUBSET Ids, Recover(ids)
    PROVE  /\ StoreInv' /\ Final /\ Gentle /\ acked' = acked
           /\ \A i \in ids \cap fence : status'[i] # "delivered"
PROOF
<1> USE DEF Inv
<1>1. StoreInv' /\ Final
    BY RecoverKeeps
<1>2. /\ status' = [i \in Ids |-> IF i \in Unconfirmed(ids) THEN "pending" ELSE status[i]]
      /\ acked' = acked
    BY DEF Recover, With
<1>3. Gentle
    BY <1>2 DEF Gentle, WorkerInv, WorkerType
<1>4. \A i \in ids \cap fence : status'[i] # "delivered"
    BY <1>2 DEF Unconfirmed, WorkerInv, FenceCanOpen
<1> QED BY <1>1, <1>2, <1>3, <1>4

\* Each step of the orchestrator keeps the invariant.
LEMMA OrchestratorKeeps ==
    ASSUME Inv, Orchestrator
    PROVE  Inv' /\ Final /\ Gentle
PROOF
<1> USE DEF Inv
<1>0. /\ WorkerType /\ Held /\ FenceCanOpen /\ FencedIsOwed
      /\ fence \in SUBSET Ids /\ fence \cup expired \in SUBSET Ids
    BY DEF WorkerInv, WorkerType
<1>1. CASE Dispatch
    <2>1. StoreInv' /\ Final /\ UNCHANGED <<status, acked>>
        BY <1>1, UnchangedKeeps DEF Dispatch, store
    <2>2. /\ NewRunner /\ fence' = {} /\ expired' = {}
          /\ faults' = faults /\ stops' = stops
        BY <1>1 DEF Dispatch
    <2>3. faults' \in 0..MaxFaults /\ stops' \in 0..MaxStops
        BY <1>0, <2>2 DEF WorkerType
    <2>4. WorkerInv'
        BY <1>0, <2>2, <2>3, NewRunnerIsSound
    <2>5. Gentle
        BY <2>1 DEF Gentle
    <2> QED BY <2>1, <2>4, <2>5
<1>2. CASE Replace
    <2>1. /\ Recover(fence \cup expired)
          /\ NewRunner /\ fence' \in {{}, fence} /\ expired' = {}
          /\ faults' = faults /\ stops' = stops
        BY <1>2 DEF Replace
    <2>2. /\ StoreInv' /\ Final /\ Gentle /\ acked' = acked
          /\ \A i \in fence : status'[i] # "delivered"
        BY <1>0, <2>1, RecoverSettles
    <2>3. /\ faults' \in 0..MaxFaults /\ stops' \in 0..MaxStops
          /\ fence' \subseteq Ids /\ expired' \subseteq Ids
          /\ fence' \cap acked' = {}
          /\ \A i \in fence' : status'[i] # "delivered"
        BY <1>0, <2>1, <2>2 DEF WorkerType, FenceCanOpen
    <2> QED BY <1>0, <2>1, <2>2, <2>3, NewRunnerIsSound
<1>3. CASE AgentDown \/ Teardown
    <2>1. /\ Recover(fence \cup expired)
          /\ \/ entry' = "none" /\ fence' = {}
             \/ entry' = "parked" /\ fence' = fence
          /\ expired' \in {{}, expired}
          /\ runner' = "none" /\ seen' = seen
          /\ faults' = faults /\ stops' = stops
        BY <1>3 DEF AgentDown, Teardown, worker, Phase
    <2>2. holding' = 0
        BY <1>0, <1>3 DEF AgentDown, Teardown, worker, Phase, Held
    <2>3. /\ StoreInv' /\ Final /\ Gentle /\ acked' = acked
          /\ \A i \in fence : status'[i] # "delivered"
        BY <1>0, <2>1, RecoverSettles
    <2>4. WorkerType'
        BY <1>0, <2>1, <2>2, BoundsAssumption DEF WorkerType
    <2>5. Held' /\ FenceCanOpen' /\ FencedIsOwed'
        BY <1>0, <2>1, <2>2, <2>3 DEF Held, FenceCanOpen, FencedIsOwed
    <2> QED BY <2>3, <2>4, <2>5 DEF WorkerInv
<1>4. CASE FenceExpires
    <2>1. /\ Recover(fence) /\ fence' = {} /\ expired' = expired \cup fence
          /\ UNCHANGED <<entry, runner, holding, seen, faults, stops>>
          /\ runner = "none"
        BY <1>4 DEF FenceExpires, worker
    <2>2. StoreInv' /\ Final /\ Gentle
        BY <1>0, <2>1, RecoverSettles
    <2>3. holding' = 0
        BY <1>0, <2>1 DEF Held
    <2>4. WorkerType'
        BY <1>0, <2>1 DEF WorkerType
    <2>5. Held' /\ FenceCanOpen' /\ FencedIsOwed'
        BY <1>0, <2>1, <2>3 DEF Held, FenceCanOpen, FencedIsOwed
    <2> QED BY <2>2, <2>4, <2>5 DEF WorkerInv
<1> QED BY <1>1, <1>2, <1>3, <1>4 DEF Orchestrator

\* A killed runner, whose claims stay as they are.
LEMMA KillKeeps ==
    ASSUME Inv, RunnerKilled
    PROVE  Inv' /\ Final /\ Gentle
PROOF
<1> USE DEF Inv
<1>1. /\ runner # "none" /\ runner' = "none" /\ holding' = 0
      /\ UNCHANGED store /\ UNCHANGED ticket
      /\ seen' = seen /\ faults' = faults
      /\ stops < MaxStops /\ stops' = stops + 1
    BY DEF RunnerKilled, Phase, Stop
<1>2. WorkerType /\ Held /\ FenceCanOpen /\ FencedIsOwed /\ entry = "running"
    BY <1>1 DEF WorkerInv, Held
<1>3. StoreInv' /\ Final
    BY <1>1, UnchangedKeeps
<1>4. UNCHANGED <<status, acked, entry, fence, expired>>
    BY <1>1 DEF store, ticket
<1>5. WorkerType'
    BY <1>1, <1>2, <1>4, BoundsAssumption DEF WorkerType
<1>6. Held' /\ FenceCanOpen' /\ FencedIsOwed' /\ Gentle
    BY <1>1, <1>2, <1>4 DEF Held, FenceCanOpen, FencedIsOwed, Gentle
<1> QED BY <1>3, <1>5, <1>6 DEF WorkerInv

\* A restart of the daemon, which starts without an entry.
LEMMA DaemonKeeps ==
    ASSUME Inv, DaemonRestart
    PROVE  Inv' /\ Final /\ Gentle
PROOF
<1> USE DEF Inv
<1>1. StoreInv' /\ Final
    BY RestartKeeps
<1>2. /\ entry' = "none" /\ fence' = {} /\ expired' = {}
      /\ runner' = "none" /\ holding' = 0 /\ seen' = seen \cap file
      /\ faults' = faults /\ stops < MaxStops /\ stops' = stops + 1
      /\ \A i \in Ids : status'[i] \in {"pending", "none"}
    BY DEF DaemonRestart, Phase, Stop
<1>3. WorkerType'
    BY <1>2, BoundsAssumption DEF WorkerInv, WorkerType
<1>4. Held' /\ FenceCanOpen' /\ FencedIsOwed'
    BY <1>2 DEF Held, FenceCanOpen, FencedIsOwed
<1>5. Gentle
    BY <1>2 DEF Gentle, WorkerInv, WorkerType
<1> QED BY <1>1, <1>3, <1>4, <1>5 DEF WorkerInv

LEMMA StepKeeps ==
    ASSUME Inv, Next
    PROVE  Inv' /\ Final /\ Gentle
PROOF
BY SendKeeps, RunnerKeeps, KillKeeps, OrchestratorKeeps, DaemonKeeps DEF Next

LEMMA StutterKeeps ==
    ASSUME Inv, UNCHANGED vars
    PROVE  Inv' /\ Final /\ Gentle
PROOF
<1> USE DEF Inv
<1>1. UNCHANGED <<store, ticket, worker, faults, stops>>
    BY DEF vars
<1>2. StoreInv' /\ Final
    BY <1>1, UnchangedKeeps
<1>3. WorkerInv' /\ Gentle
    BY <1>1 DEF store, ticket, worker, WorkerInv, WorkerType, Held, FenceCanOpen,
                FencedIsOwed, Gentle
<1> QED BY <1>2, <1>3

LEMMA InitInv ==
    ASSUME Init
    PROVE  Inv
PROOF
<1>1. StoreInv
    BY BoundsAssumption
       DEF Init, StoreInv, StoreType, Fresh, Indexed, PendingIndexed, RestartSafe, Live,
           Ids, Statuses
<1>2. WorkerInv
    BY BoundsAssumption
       DEF Init, WorkerInv, WorkerType, Held, FenceCanOpen, FencedIsOwed
<1> QED BY <1>1, <1>2 DEF Inv

-----------------------------------------------------------------------------
(* The theorems.                                                           *)

\* The inductive invariant holds in every reachable state.
THEOREM QueueInv == Spec => []Inv
PROOF
<1>1. Init => Inv
    BY InitInv
<1>2. Inv /\ [Next]_vars => Inv'
    BY StepKeeps, StutterKeeps
<1> QED BY <1>1, <1>2, PTL DEF Spec

\* Every reachable state is well-typed; in particular the ids that a restart
\* gives out are new (agent_queue_store.ex:232).
THEOREM QueueTypes == Spec => []TypeOK
PROOF
<1>1. Inv => TypeOK
    BY DEF Inv, StoreInv, StoreType, WorkerInv, WorkerType, TypeOK
<1> QED BY <1>1, QueueInv, PTL

\* Every pending message is one that a claim can find (target_index.ex:34).
THEOREM PendingIsFound == Spec => []PendingIndexed
PROOF
<1>1. Inv => PendingIndexed
    BY DEF Inv, StoreInv
<1> QED BY <1>1, QueueInv, PTL

\* The file holds what a restart must bring back, and nothing that was settled
\* (pending_store.ex:145).
THEOREM FileIsRight == Spec => []RestartSafe
PROOF
<1>1. Inv => RestartSafe
    BY DEF Inv, StoreInv
<1> QED BY <1>1, QueueInv, PTL

\* A message sent twice is one item, whatever restarts lie between
\* (agent_queue_store.ex:97).
THEOREM SentOnce == Spec => []OneItemPerMessage
PROOF
<1>1. Inv => OneItemPerMessage
    BY DEF Inv, StoreInv, Indexed, OneItemPerMessage
<1> QED BY <1>1, QueueInv, PTL

\* A fence names only messages whose acknowledgement is still to come, and
\* goes with its entry (lifecycle_fence.ex:43).
THEOREM FenceOpens == Spec => []FenceCanOpen
PROOF
<1>1. Inv => FenceCanOpen
    BY DEF Inv, WorkerInv
<1> QED BY <1>1, QueueInv, PTL

\* While every save succeeds, no fenced message is settled as consumed unseen
\* (lifecycle_fence.ex:3).
THEOREM FencedReachesProvider == Spec => FencedIsSeen
PROOF
<1>1. Inv /\ [Next]_vars =>
        [\A i \in fence :
            faults = 0 /\ status[i] # "consumed" /\ status'[i] = "consumed" => i \in seen]_vars
    BY StepKeeps, StutterKeeps DEF Gentle
<1> QED BY <1>1, QueueInv, PTL DEF Spec, FencedIsSeen

\* No requeue, retry or save brings a consumed message back
\* (lifecycle_fence_expiry.ex:65).
THEOREM ConsumedIsFinal == Spec => ConsumedStays
PROOF
<1>1. Inv /\ [Next]_vars =>
        [\A i \in Ids : status[i] = "consumed" => status'[i] \in {"consumed", "none"}]_vars
    BY StepKeeps, StutterKeeps DEF Final
<1> QED BY <1>1, QueueInv, PTL DEF Spec, ConsumedStays

=============================================================================
