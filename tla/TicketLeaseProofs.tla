-------------------------- MODULE TicketLeaseProofs --------------------------
(***************************************************************************)
(* What TLAPS proves of TicketLease for every set of instances and every   *)
(* value of the timing constants.                                          *)
(***************************************************************************)
EXTENDS TicketLease, TLAPS

-----------------------------------------------------------------------------
(* Every step keeps the variables in their ranges; `left` stays between    *)
(* -Grace and Ttl whichever statement writes the row.                      *)
LEMMA TypeStep == TypeOK /\ [Next]_vars => TypeOK'
<1> SUFFICES ASSUME TypeOK, [Next]_vars PROVE TypeOK'
  OBVIOUS
<1> USE ConstantsAssumption DEF TypeOK, WorkerState, CallState
<1>1. ASSUME NEW i \in Instances, Dispatch(i) PROVE TypeOK'
  <2>1. CASE ClaimAcquired(i)
    BY <2>1 DEF ClaimAcquired, ClaimRow
  <2>2. CASE ClaimReplyLost(i)
    <3>1. leases' = leases \/ leases' = [leases EXCEPT ![i] = TRUE]
      BY <2>2 DEF ClaimReplyLost
    <3>2. leases' \in [Instances -> BOOLEAN]
      BY <3>1
    <3> QED
      BY <2>2, <3>2 DEF ClaimReplyLost, ClaimRow, renewal
  <2>3. CASE Spawn(i)
    BY <2>3 DEF Spawn, row, renewal
  <2>4. CASE Unstarted(i)
    <3>1. ReleaseRow(i) \/ UNCHANGED row
      BY <2>4 DEF Unstarted, row
    <3>2. owner' \in Instances \cup {NoInstance} /\ left' \in (-Grace)..Ttl
      BY <3>1 DEF ReleaseRow, row
    <3>3. leases' = leases \/ leases' = [leases EXCEPT ![i] = FALSE]
      BY <2>4 DEF Unstarted
    <3>4. leases' \in [Instances -> BOOLEAN]
      BY <3>3
    <3> QED
      BY <2>4, <3>2, <3>4 DEF Unstarted, renewal
  <2>5. CASE LaunchFailed(i)
    BY <2>5 DEF LaunchFailed, row, renewal
  <2>6. CASE Watch(i)
    BY <2>6 DEF Watch, row
  <2> QED
    BY <1>1, <2>1, <2>2, <2>3, <2>4, <2>5, <2>6 DEF Dispatch
<1>2. ASSUME NEW i \in Instances, StopWorker(i) PROVE TypeOK'
  BY <1>2 DEF StopWorker, row
<1>3. ASSUME NEW i \in Instances, Renew(i) PROVE TypeOK'
  <2>1. CASE RenewSend(i)
    BY <2>1 DEF RenewSend, row
  <2>2. CASE RenewExecuted(i)
    BY <2>2 DEF RenewExecuted, RenewRow
  <2>3. CASE StoreFails(i)
    BY <2>3 DEF StoreFails, row
  <2>4. CASE RenewOk(i)
    BY <2>4 DEF RenewOk, row
  <2>5. CASE Fence(i)
    BY <2>5, <1>2 DEF Fence
  <2>6. CASE RenewFailed(i)
    BY <2>6 DEF RenewFailed, row
  <2> QED
    BY <1>3, <2>1, <2>2, <2>3, <2>4, <2>5, <2>6 DEF Renew
<1>4. ASSUME NEW i \in Instances, LateRenew(i) PROVE TypeOK'
  BY <1>4 DEF LateRenew, RenewRow, row, renewal
<1>5. ASSUME NEW i \in Instances, StoreRestart(i) PROVE TypeOK'
  BY <1>5 DEF StoreRestart, row
<1>6. ASSUME NEW i \in Instances, Crash(i) \/ Boot(i) PROVE TypeOK'
  BY <1>6 DEF Crash, Boot, row, renewal
<1>7. CASE Tick
  BY <1>7 DEF Tick
<1>8. CASE UNCHANGED vars
  BY <1>8 DEF vars
<1> QED
  BY <1>1, <1>2, <1>3, <1>4, <1>5, <1>6, <1>7, <1>8 DEF Next, WorkerExit

(* The state of the lease protocol is always well formed.                  *)
THEOREM TypeCorrect == Spec => []TypeOK
<1>1. Init => TypeOK
  BY ConstantsAssumption DEF Init, TypeOK, WorkerState, CallState
<1> QED
  BY <1>1, TypeStep, PTL DEF Spec

-----------------------------------------------------------------------------
(* The lease invariant, one instance at a time.                            *)
At(i) ==
    /\ Launching(i) => /\ owner = i /\ since[i] <= StartMax
                       /\ Ttl - left <= since[i]
    /\ worker[i] = "running" =>
         /\ owner = i /\ goodAge[i] <= Deadline + Lag
         /\ \/ Ttl - left <= goodAge[i] + StartMax
            \/ Ttl - left <= goodAge[i] + CallMax
    /\ call[i] # "none" =>
         /\ worker[i] = "running" /\ since[i] <= CallMax
         /\ call[i] = "applied" => Ttl - left <= since[i]

\* The steps of one instance
Step(i) == Dispatch(i) \/ Renew(i) \/ WorkerExit(i) \/ LateRenew(i)
             \/ StoreRestart(i) \/ Crash(i) \/ Boot(i)

(* The invariant of the module is At for every instance.                   *)
LEMMA LeaseInvAt == LeaseInv <=> \A i \in Instances : At(i)
  BY DEF LeaseInv, LaunchCovered, RunCovered, CallCovered, At, Running

(* An instance with a dispatch or a worker in hand holds a row that nobody *)
(* else can take yet: the arithmetic that the grace has to satisfy.        *)
LEMMA Held ==
  ASSUME StartIsPrompt, CallsArePrompt, TypeOK,
         NEW i \in Instances, At(i), worker[i] # "idle"
  PROVE  owner = i /\ left > -Grace
<1>1. CASE Launching(i)
  BY <1>1, ConstantsAssumption DEF At, StartIsPrompt, TypeOK
<1>2. CASE worker[i] = "running"
  <2>1. goodAge[i] <= Ttl - Margin + Lag
    BY <1>2 DEF At, Deadline
  <2>2. Ttl - left <= goodAge[i] + StartMax \/ Ttl - left <= goodAge[i] + CallMax
    BY <1>2 DEF At
  <2>3. left > -Grace
    BY <2>1, <2>2, ConstantsAssumption DEF StartIsPrompt, CallsArePrompt, TypeOK
  <2> QED
    BY <1>2, <2>3 DEF At
<1> QED
  BY <1>1, <1>2 DEF TypeOK, WorkerState, Launching

(* A step of one instance changes nothing that the invariant says of       *)
(* another: its claim fails while the other holds the row, and its renew   *)
(* and release do not match the other's row.                               *)
LEMMA OthersUntouched ==
  ASSUME StartIsPrompt, CallsArePrompt, TypeOK,
         NEW i \in Instances, NEW j \in Instances, i # j, At(i), Step(j)
  PROVE  At(i)'
<1>1. /\ worker'[i] = worker[i] /\ call'[i] = call[i]
      /\ since'[i] = since[i] /\ goodAge'[i] = goodAge[i]
  <2>1. CASE Dispatch(j)
    BY <2>1 DEF Dispatch, ClaimAcquired, ClaimReplyLost, Spawn, Unstarted,
                LaunchFailed, Watch, renewal, TypeOK
  <2>2. CASE Renew(j) \/ WorkerExit(j)
    BY <2>2 DEF Renew, WorkerExit, RenewSend, RenewExecuted, StoreFails,
                RenewOk, RenewFailed, Fence, StopWorker,
                TypeOK
  <2>3. CASE LateRenew(j) \/ StoreRestart(j) \/ Crash(j) \/ Boot(j)
    BY <2>3 DEF LateRenew, StoreRestart, Crash, Boot, renewal, TypeOK
  <2> QED
    BY <2>1, <2>2, <2>3 DEF Step
<1>2. ASSUME worker[i] # "idle" PROVE UNCHANGED <<owner, left>>
  <2>1. owner = i /\ left > -Grace
    BY <1>2, Held
  <2>2. CASE Dispatch(j)
    BY <2>1, <2>2, ConstantsAssumption
       DEF Dispatch, ClaimAcquired, ClaimReplyLost, ClaimMatches, Spawn, row,
           Unstarted, ReleaseRow, LaunchFailed, Watch, TypeOK
  <2>3. CASE Renew(j) \/ WorkerExit(j)
    BY <2>1, <2>3 DEF Renew, WorkerExit, RenewSend, RenewExecuted, RenewRow,
       StoreFails, RenewOk, RenewFailed, Fence, StopWorker,
       row
  <2>4. CASE LateRenew(j) \/ StoreRestart(j) \/ Crash(j) \/ Boot(j)
    BY <2>1, <2>4 DEF LateRenew, RenewRow, StoreRestart, Crash, Boot, row
  <2> QED
    BY <2>2, <2>3, <2>4 DEF Step
<1> QED
  BY <1>1, <1>2 DEF At, Launching

(* A step of the instance itself keeps what the invariant says of it.  The *)
(* interesting steps are those that write the row (`left` becomes Ttl) and *)
(* those that restart an age: the watch and the answer to a renewal.       *)
LEMMA OwnStep ==
  ASSUME StartIsPrompt, CallsArePrompt, TypeOK,
         NEW i \in Instances, At(i), Step(i)
  PROVE  At(i)'
<1> USE ConstantsAssumption DEF TypeOK
<1>1. CASE Dispatch(i)
  <2>1. worker[i] # "running" /\ call[i] = "none"
    BY <1>1 DEF Dispatch, ClaimAcquired, ClaimReplyLost, Spawn, Unstarted,
                LaunchFailed, Watch, At
  <2>2. CASE ClaimAcquired(i)
    BY <2>1, <2>2 DEF ClaimAcquired, ClaimRow, At, Launching
  <2>3. CASE ClaimReplyLost(i) \/ Unstarted(i) \/ LaunchFailed(i)
    <3>1. worker'[i] = "idle" /\ call'[i] = "none"
      BY <2>1, <2>3 DEF ClaimReplyLost, Unstarted, LaunchFailed, renewal
    <3> QED
      BY <3>1 DEF At, Launching
  <2>4. CASE Spawn(i)
    BY <2>1, <2>4 DEF Spawn, row, renewal, At, Launching
  <2>5. CASE Watch(i)
    <3>1. owner = i /\ Ttl - left <= StartMax
      BY <2>5 DEF Watch, At, Launching
    <3>2. owner' = i /\ left' = left /\ goodAge'[i] = 0 /\ call'[i] = "none"
      BY <2>1, <2>5, <3>1 DEF Watch, row
    <3>3. worker'[i] = "running" \/ worker'[i] = "idle"
      BY <2>5 DEF Watch
    <3> QED
      BY <3>1, <3>2, <3>3 DEF At, Launching, Deadline
  <2> QED
    BY <1>1, <2>2, <2>3, <2>4, <2>5 DEF Dispatch
<1>2. ASSUME StopWorker(i) PROVE At(i)'
  BY <1>2 DEF StopWorker, At, Launching
<1>3. CASE Renew(i)
  <2>1. CASE RenewSend(i)
    BY <2>1 DEF RenewSend, row, At, Launching
  <2>2. CASE RenewExecuted(i)
    <3>1. owner = i /\ owner' = i /\ left' = Ttl
      BY <2>2 DEF RenewExecuted, RenewRow, At
    <3> QED
      BY <2>2, <3>1 DEF RenewExecuted, At, Launching
  <2>3. CASE StoreFails(i)
    BY <2>3 DEF StoreFails, row, At, Launching
  <2>4. CASE RenewOk(i)
    <3>1. worker[i] = "running" /\ owner = i /\ Ttl - left <= CallMax
      BY <2>4 DEF RenewOk, At
    <3> QED
      BY <2>4, <3>1 DEF RenewOk, row, At, Launching, Deadline
  <2>5. CASE Fence(i)
    BY <2>5, <1>2 DEF Fence
  <2>6. CASE RenewFailed(i)
    BY <2>6 DEF RenewFailed, row, At, Launching
  <2> QED
    BY <1>3, <2>1, <2>2, <2>3, <2>4, <2>5, <2>6 DEF Renew
<1>4. CASE LateRenew(i)
  BY <1>4 DEF LateRenew, RenewRow, row, renewal, At, Launching
<1>5. CASE StoreRestart(i)
  BY <1>5 DEF StoreRestart, row, At, Launching
<1>6. CASE Crash(i) \/ Boot(i)
  BY <1>6 DEF Crash, Boot, row, renewal, At, Launching
<1> QED
  BY <1>1, <1>2, <1>3, <1>4, <1>5, <1>6 DEF Step, WorkerExit

(* The clock takes one unit from the row and adds one to every age.        *)
LEMMA TickStep ==
  ASSUME TypeOK, NEW i \in Instances, At(i), Tick
  PROVE  At(i)'
<1> USE ConstantsAssumption DEF TypeOK
<1>1. left' >= left - 1 /\ left' \in Int /\ left \in Int
  BY DEF Tick
<1>2. worker' = worker /\ call' = call /\ owner' = owner
  BY DEF Tick
<1>3. CASE Launching(i)
  <2>1. since[i] < StartMax /\ since'[i] = since[i] + 1
    BY <1>3 DEF Tick, MayWait, Launching
  <2> QED
    BY <1>1, <1>2, <1>3, <2>1 DEF At, Launching
<1>4. CASE worker[i] = "running"
  <2>1. /\ goodAge[i] < Deadline + Lag /\ goodAge'[i] = goodAge[i] + 1
        /\ call[i] # "none" => since[i] < CallMax
        /\ since'[i] = since[i] + 1
    BY <1>4 DEF Tick, MayWait
  <2>2. goodAge'[i] <= Deadline + Lag /\ (call[i] # "none" => since'[i] <= CallMax)
    BY <2>1 DEF Deadline
  <2>3. \/ Ttl - left' <= goodAge'[i] + StartMax
        \/ Ttl - left' <= goodAge'[i] + CallMax
    BY <1>1, <1>4, <2>1 DEF At
  <2>4. call[i] = "applied" => Ttl - left' <= since'[i]
    BY <1>1, <1>4, <2>1 DEF At
  <2> QED
    BY <1>2, <1>4, <2>2, <2>3, <2>4 DEF At, Launching, Deadline
<1>5. CASE ~Launching(i) /\ worker[i] # "running"
  BY <1>2, <1>5 DEF At, Launching
<1> QED
  BY <1>3, <1>4, <1>5

(* The lease invariant is inductive.                                       *)
LEMMA LeaseStep ==
  ASSUME StartIsPrompt, CallsArePrompt
  PROVE  TypeOK /\ LeaseInv /\ [Next]_vars => LeaseInv'
<1> SUFFICES ASSUME TypeOK, LeaseInv, [Next]_vars, NEW i \in Instances
             PROVE  At(i)'
  BY LeaseInvAt DEF LeaseInv, LaunchCovered, RunCovered, CallCovered, At, Running
<1>1. At(i)
  BY LeaseInvAt
<1>2. ASSUME NEW j \in Instances, Step(j) PROVE At(i)'
  BY <1>1, <1>2, OthersUntouched, OwnStep
<1>3. CASE Tick
  BY <1>1, <1>3, TickStep
<1>4. CASE UNCHANGED vars
  BY <1>1, <1>4 DEF vars, At, Launching
<1> QED
  BY <1>2, <1>3, <1>4 DEF Next, Step

(* The lease invariant holds of every behaviour: the row covers every      *)
(* launch, every worker and every renewal that has been applied.           *)
THEOREM LeaseCorrect ==
  ASSUME StartIsPrompt, CallsArePrompt
  PROVE  Spec => [](TypeOK /\ LeaseInv)
<1>1. Init => TypeOK /\ LeaseInv
  BY ConstantsAssumption DEF Init, TypeOK, WorkerState, CallState, LeaseInv,
     LaunchCovered, RunCovered, CallCovered, Launching, Running
<1>2. TypeOK /\ LeaseInv /\ [Next]_vars => (TypeOK /\ LeaseInv)'
  BY TypeStep, LeaseStep
<1> QED
  BY <1>1, <1>2, PTL DEF Spec

(* A running worker's row belongs to its instance and cannot be taken.     *)
THEOREM LeaseOutlives ==
  ASSUME StartIsPrompt, CallsArePrompt
  PROVE  Spec => []LeaseOutlivesWorker
<1>1. TypeOK /\ LeaseInv => LeaseOutlivesWorker
  <2> SUFFICES ASSUME TypeOK, LeaseInv, NEW i \in Instances,
                      worker[i] = "running"
               PROVE  owner = i /\ left > -Grace
    BY DEF LeaseOutlivesWorker, Running
  <2> QED
    BY LeaseInvAt, Held
<1> QED
  BY <1>1, LeaseCorrect, PTL

(* Mutual exclusion: two instances never run the ticket together, provided *)
(* starts and calls are prompt with respect to the margin and the grace.   *)
THEOREM MutualExclusion ==
  ASSUME StartIsPrompt, CallsArePrompt
  PROVE  Spec => []OneWorkerPerTicket
<1>1. LeaseOutlivesWorker => OneWorkerPerTicket
  BY DEF LeaseOutlivesWorker, OneWorkerPerTicket
<1> QED
  BY <1>1, LeaseOutlives, PTL

-----------------------------------------------------------------------------
(* A renewal is outstanding only while the worker runs; no assumption on   *)
(* the timing constants is needed for this or for the ages.                *)
CallInv == \A i \in Instances : call[i] # "none" => worker[i] = "running"

AgeAt(i) ==
    worker[i] = "running" /\ ~failed[i] =>
        IF call[i] = "none"
          THEN goodAge[i] <= since[i] /\ since[i] <= Interval + Lag
          ELSE goodAge[i] <= Interval + Lag + since[i] /\ since[i] <= CallMax

(* The age of a worker whose renewals succeed is that of one wait and one  *)
(* call.                                                                   *)
LEMMA AgeStep ==
  ASSUME TypeOK, CallInv, AgeCovered, [Next]_vars
  PROVE  CallInv' /\ AgeCovered'
<1> SUFFICES ASSUME NEW i \in Instances
             PROVE  (call[i] # "none" => worker[i] = "running")' /\ AgeAt(i)'
  BY DEF CallInv, AgeCovered, AgeAt, Running
<1> USE ConstantsAssumption DEF TypeOK
<1>1. (call[i] # "none" => worker[i] = "running") /\ AgeAt(i)
  BY DEF CallInv, AgeCovered, AgeAt, Running
<1>2. ASSUME NEW j \in Instances, Dispatch(j)
      PROVE  (call[i] # "none" => worker[i] = "running")' /\ AgeAt(i)'
  <2>1. call' = call /\ worker[j] \in {"idle", "dispatching", "launching"}
    BY <1>2 DEF Dispatch, ClaimAcquired, ClaimReplyLost, Spawn, Unstarted,
                LaunchFailed, Watch, renewal
  <2>2. CASE Watch(j)
    <3>1. CASE i = j
      BY <1>1, <2>1, <2>2, <3>1 DEF Watch, AgeAt
    <3>2. CASE i # j
      BY <1>1, <2>1, <2>2, <3>2 DEF Watch, AgeAt
    <3> QED
      BY <3>1, <3>2
  <2>3. CASE ~Watch(j)
    <3>1. /\ \E w \in {"idle", "dispatching", "launching"} :
                worker' \in {worker, [worker EXCEPT ![j] = w]}
          /\ since' \in {since, [since EXCEPT ![j] = 0]}
          /\ goodAge' = goodAge /\ failed' = failed
      BY <1>2, <2>3 DEF Dispatch, ClaimAcquired, ClaimReplyLost, Spawn,
         Unstarted, LaunchFailed, renewal
    <3>2. worker'[i] = "running" <=> worker[i] = "running"
      BY <2>1, <3>1
    <3>3. worker[i] = "running" => since'[i] = since[i]
      BY <1>2, <2>1, <2>3 DEF Dispatch, ClaimAcquired, ClaimReplyLost, Spawn,
         Unstarted, LaunchFailed, renewal
    <3> QED
      BY <1>1, <2>1, <3>1, <3>2, <3>3 DEF AgeAt
  <2> QED
    BY <2>2, <2>3
<1>3. ASSUME NEW j \in Instances, StopWorker(j)
      PROVE  (call[i] # "none" => worker[i] = "running")' /\ AgeAt(i)'
  BY <1>1, <1>3 DEF StopWorker, AgeAt
<1>4. ASSUME NEW j \in Instances, Renew(j)
      PROVE  (call[i] # "none" => worker[i] = "running")' /\ AgeAt(i)'
  <2>1. CASE RenewSend(j)
    BY <1>1, <2>1 DEF RenewSend, AgeAt
  <2>2. CASE RenewExecuted(j)
    BY <1>1, <2>2 DEF RenewExecuted, AgeAt
  <2>3. CASE StoreFails(j)
    BY <1>1, <2>3 DEF StoreFails, AgeAt
  <2>4. CASE RenewOk(j)
    BY <1>1, <2>4 DEF RenewOk, AgeAt
  <2>5. CASE Fence(j)
    BY <2>5, <1>3 DEF Fence
  <2>6. CASE RenewFailed(j)
    BY <1>1, <2>6 DEF RenewFailed, AgeAt
  <2> QED
    BY <1>4, <2>1, <2>2, <2>3, <2>4, <2>5, <2>6 DEF Renew
<1>5. ASSUME NEW j \in Instances, StoreRestart(j)
      PROVE  (call[i] # "none" => worker[i] = "running")' /\ AgeAt(i)'
  BY <1>1, <1>5 DEF StoreRestart, AgeAt
<1>6. ASSUME NEW j \in Instances, LateRenew(j) \/ Crash(j) \/ Boot(j)
      PROVE  (call[i] # "none" => worker[i] = "running")' /\ AgeAt(i)'
  BY <1>1, <1>6 DEF LateRenew, Crash, Boot, renewal, AgeAt
<1>7. CASE Tick
  BY <1>1, <1>7 DEF Tick, MayWait, AgeAt
<1>8. CASE UNCHANGED vars
  BY <1>1, <1>8 DEF vars, AgeAt
<1> QED
  BY <1>2, <1>3, <1>4, <1>5, <1>6, <1>7, <1>8 DEF Next, WorkerExit

(* The deadline fences a worker only after a renewal failed, provided the  *)
(* renewals of one interval fit before the deadline.                       *)
THEOREM HealthyStoreKeepsWorker ==
  ASSUME RenewalsFit
  PROVE  Spec => []FenceOnlyAfterFailure
<1>1. Init => CallInv /\ AgeCovered
  BY DEF Init, CallInv, AgeCovered, Running
<1>2. TypeOK /\ AgeCovered => FenceOnlyAfterFailure
  BY ConstantsAssumption
     DEF TypeOK, AgeCovered, FenceOnlyAfterFailure, RenewalsFit, Deadline, Running
<1>3. TypeOK /\ CallInv /\ AgeCovered /\ [Next]_vars => (CallInv /\ AgeCovered)'
  BY AgeStep
<1> QED
  BY <1>1, <1>2, <1>3, TypeCorrect, PTL DEF Spec

-----------------------------------------------------------------------------
(* Every step moves the worker of at most one instance.                    *)
LEMMA OneMoves ==
  ASSUME TypeOK, [Next]_vars
  PROVE  \E j \in Instances \cup {NoInstance} :
           \A k \in Instances \ {j} : worker'[k] = worker[k]
<1>1. ASSUME NEW j \in Instances, Step(j)
      PROVE  \A k \in Instances \ {j} : worker'[k] = worker[k]
  <2>1. worker' = worker \/ \E w \in WorkerState : worker' = [worker EXCEPT ![j] = w]
    <3>1. CASE Dispatch(j)
      BY <3>1 DEF Dispatch, ClaimAcquired, ClaimReplyLost, Spawn, Unstarted,
                  LaunchFailed, Watch, WorkerState
    <3>2. CASE Renew(j) \/ WorkerExit(j)
      BY <3>2 DEF Renew, WorkerExit, RenewSend, RenewExecuted, StoreFails,
                  RenewOk, RenewFailed, Fence, StopWorker,
                  WorkerState
    <3>3. CASE LateRenew(j) \/ StoreRestart(j) \/ Crash(j) \/ Boot(j)
      BY <3>3 DEF LateRenew, StoreRestart, Crash, Boot, WorkerState
    <3> QED
      BY <1>1, <3>1, <3>2, <3>3 DEF Step
  <2> QED
    BY <2>1 DEF TypeOK
<1>2. ASSUME Tick \/ UNCHANGED vars PROVE worker' = worker
  BY <1>2 DEF Tick, vars
<1> QED
  BY <1>1, <1>2 DEF Next, Step

(* The abstract runner is the instance whose worker runs.                  *)
LEMMA RunnerIs ==
  ASSUME OneWorkerPerTicket, NEW i \in Instances, worker[i] = "running"
  PROVE  runner = i
  BY DEF runner, Running, OneWorkerPerTicket

(* The lease implements the lock: a worker starts only when none runs.     *)
THEOREM LeaseImplementsLock ==
  ASSUME StartIsPrompt, CallsArePrompt
  PROVE  Spec => RefinesLock
<1>1. Init => Lock!Init
  BY DEF Init, Lock!Init, runner, Running
<1>2. TypeOK /\ OneWorkerPerTicket /\ OneWorkerPerTicket' /\ [Next]_vars
        => [Lock!Next]_runner
  <2> SUFFICES ASSUME TypeOK, OneWorkerPerTicket, OneWorkerPerTicket', [Next]_vars
               PROVE  Lock!Next \/ runner' = runner
    OBVIOUS
  <2>1. PICK j \in Instances \cup {NoInstance} :
               \A k \in Instances \ {j} : worker'[k] = worker[k]
    BY OneMoves
  <2>2. (\A i \in Instances : worker[i] # "running") => runner = NoInstance
    BY DEF runner, Running
  <2>3. (\A i \in Instances : worker'[i] # "running") => runner' = NoInstance
    BY DEF runner, Running
  <2>4. ASSUME NEW i \in Instances, worker'[i] = "running" PROVE runner' = i
    BY <2>4 DEF runner, Running, OneWorkerPerTicket
  <2>5. CASE \E i \in Instances : worker[i] = "running"
    <3>1. PICK i \in Instances : worker[i] = "running"
      BY <2>5
    <3>2. runner = i /\ runner # NoInstance
      BY <3>1, RunnerIs, ConstantsAssumption
    <3>3. CASE worker'[i] = "running"
      BY <3>2, <3>3, <2>4
    <3>4. CASE worker'[i] # "running"
      <4>1. \A k \in Instances : worker'[k] # "running"
        BY <2>1, <3>1, <3>4 DEF OneWorkerPerTicket, Running
      <4> QED
        BY <2>3, <3>2, <4>1 DEF Lock!Next, Lock!Stop
    <3> QED
      BY <3>3, <3>4
  <2>6. CASE \A i \in Instances : worker[i] # "running"
    BY <2>2, <2>3, <2>4, <2>6 DEF Lock!Next, Lock!Start
  <2> QED
    BY <2>5, <2>6
<1> QED
  BY <1>1, <1>2, TypeCorrect, MutualExclusion, PTL DEF Spec, Lock!Spec, RefinesLock
=============================================================================
