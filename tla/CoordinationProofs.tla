-------------------------- MODULE CoordinationProofs --------------------------
(***************************************************************************)
(* What TLAPS proves of a daemon's part in the coordination of instances:  *)
(* of the LeaseStore's connection for any set of pools (StoreConnection),  *)
(* and of the repository's leader for every set of instances and every     *)
(* value of the timing constants (RepositoryLeader).                       *)
(***************************************************************************)
EXTENDS StoreConnection, RepositoryLeader, TLAPS

-----------------------------------------------------------------------------
(* The connection.                                                         *)

(* The parts lean on each other: a pending :connect is alone because there *)
(* is no connection, and a lost connection raises the alert because the    *)
(* flag was clear while it lasted.                                         *)
ConnInv ==
    /\ ConnTypeOK /\ ConnectedIsQuiet /\ PoolsAccounted
    /\ OutageShown /\ OutageAlerted /\ NextLossIsReported
    /\ ExitsAreDead

(* Losing the connection arms one timer and leaves the alert up.           *)
LEMMA Loss ==
    ASSUME ConnInv, ScheduleReconnect(IF conn = NoConn THEN pending - 1 ELSE pending),
           ReportUnavailable, conn # NoConn \/ pending = 1
    PROVE  /\ timer' = TRUE /\ outage' = TRUE /\ alert' = TRUE
           /\ pending' \in {0, 1}
<1> USE DEF ConnInv
<1>1. timer' = TRUE
  BY DEF ScheduleReconnect, ConnTypeOK
<1>2. outage' = TRUE /\ alert' = TRUE
  BY DEF ReportUnavailable, OutageAlerted, ConnTypeOK
<1>3. pending' \in {0, 1}
  BY DEF ScheduleReconnect, ConnTypeOK, ConnectedIsQuiet
<1> QED BY <1>1, <1>2, <1>3

(* One step of the LeaseStore, of a pool or of the database keeps it.      *)
LEMMA ConnStep == ConnInv /\ [ConnNext]_connVars => ConnInv'
<1> SUFFICES ASSUME ConnInv, [ConnNext]_connVars PROVE ConnInv'
  OBVIOUS
<1> USE ConnAssumption
        DEF ConnInv, ConnTypeOK, ConnectedIsQuiet, PoolsAccounted, OutageShown,
            OutageAlerted, NextLossIsReported, Booting, ExitsAreDead
<1>1. ASSUME NEW c \in Conns, ConnectOk(c) PROVE ConnInv'
  <2>1. outage' = FALSE /\ alert' \in BOOLEAN
    BY <1>1 DEF ConnectOk, ReportRecovered
  <2>2. conn' = c /\ timer' = FALSE /\ pending' = 0
    BY <1>1 DEF ConnectOk
  <2>3. conn = NoConn /\ pools \subseteq dropped
    BY <1>1 DEF ConnectOk
  <2> QED BY <1>1, <2>1, <2>2, <2>3 DEF ConnectOk
<1>2. CASE ConnectFails
  <2>1. conn = NoConn /\ pending = 1
    BY <1>2 DEF ConnectFails
  <2>2. timer' = TRUE /\ outage' = TRUE /\ alert' = TRUE /\ pending' \in {0, 1}
    BY <1>2, <2>1, Loss DEF ConnectFails
  <2> QED BY <1>2, <2>1, <2>2 DEF ConnectFails
<1>3. CASE QueryFails
  <2>1. timer' = TRUE /\ outage' = TRUE /\ alert' = TRUE /\ pending' \in {0, 1}
    BY <1>3, Loss DEF QueryFails
  <2> QED BY <1>3, <2>1 DEF QueryFails
<1>4. CASE SharedStateFails
  <2>1. timer' = TRUE /\ outage' = TRUE /\ alert' = TRUE /\ pending' \in {0, 1}
    BY <1>4, Loss DEF SharedStateFails
  <2> QED BY <1>4, <2>1 DEF SharedStateFails
<1>5. ASSUME NEW c \in Conns, HandleExit(c) PROVE ConnInv'
  <2>1. CASE ExitOfConn(c)
    <3>1. timer' = TRUE /\ outage' = TRUE /\ alert' = TRUE /\ pending' \in {0, 1}
      BY <1>5, <2>1, Loss DEF HandleExit, ExitOfConn
    <3>2. /\ conn' = NoConn /\ exits' \subseteq Conns
          /\ UNCHANGED <<pools, dropped, dbUp>> /\ pools \subseteq dropped
          /\ exits' \cap pools' = {}
      BY <1>5, <2>1 DEF HandleExit, ExitOfConn
    <3> QED BY <2>1, <3>1, <3>2 DEF ExitOfConn
  <2>2. CASE ~ExitOfConn(c)
    BY <1>5, <2>2 DEF HandleExit, store
  <2> QED BY <2>1, <2>2
<1>6. ASSUME NEW c \in Conns, PoolDies(c) PROVE ConnInv'
  BY <1>6 DEF PoolDies, store
<1>7. CASE Restart
  BY <1>7 DEF Restart
<1>8. CASE DbChanges
  BY <1>8 DEF DbChanges, store
<1>9. CASE UNCHANGED connVars
  BY <1>9 DEF connVars
<1> HIDE DEF ConnInv
<1> QED
  BY <1>1, <1>2, <1>3, <1>4, <1>5, <1>6, <1>7, <1>8, <1>9 DEF ConnNext, Connect

(* Every reachable state satisfies all parts of the invariant.             *)
THEOREM ConnCorrect == ConnSpec => []ConnInv
<1>1. ConnInit => ConnInv
  BY ConnAssumption
     DEF ConnInit, Fresh, ConnInv, ConnTypeOK, ConnectedIsQuiet, PoolsAccounted,
         OutageShown, OutageAlerted, NextLossIsReported, Booting, ExitsAreDead
<1> QED BY <1>1, ConnStep, PTL DEF ConnSpec

(* No second pool over a live one, whatever fails and in whatever order.   *)
THEOREM NoSecondConnect == ConnSpec => []ConnectedIsQuiet
<1>1. ConnInv => ConnectedIsQuiet
  BY DEF ConnInv
<1> QED BY <1>1, ConnCorrect, PTL

(* Only the shared-state error path leaves a live pool behind.             *)
THEOREM NoOtherLeak == ConnSpec => []PoolsAccounted
<1>1. ConnInv => PoolsAccounted
  BY DEF ConnInv
<1> QED BY <1>1, ConnCorrect, PTL

(* The operator's alert is up during every outage, and each loss of the    *)
(* connection raises it anew.                                              *)
THEOREM OutageIsReported == ConnSpec => []OutageShown /\ []NextLossIsReported
<1>1. ConnInv => OutageShown /\ NextLossIsReported
  BY DEF ConnInv
<1> QED BY <1>1, ConnCorrect, PTL

-----------------------------------------------------------------------------
(* The leader.                                                             *)

\* The steps of one instance
Step(i) == Election(i) \/ LateRequest(i) \/ LeaderRestart(i) \/ Crash(i) \/ Boot(i)

\* The variables of one instance do not change
Untouched(i) ==
    /\ up'[i] = up[i] /\ owns'[i] = owns[i] /\ serving'[i] = serving[i]
    /\ call'[i] = call[i] /\ answer'[i] = answer[i] /\ since'[i] = since[i]

-----------------------------------------------------------------------------
(* Every step keeps the variables in their ranges.                         *)
LEMMA TypeStep == TypeOK /\ [Next]_vars => TypeOK'
<1> SUFFICES ASSUME TypeOK, [Next]_vars PROVE TypeOK'
  OBVIOUS
<1> USE ConstantsAssumption DEF TypeOK, Request
<1>1. ASSUME NEW i \in Instances, NEW r \in Request,
             ServeRequest(i, r) \/ UNCHANGED row
      PROVE  owner' \in Instances \cup {NoInstance} /\ left' \in 0..Ttl
  BY <1>1 DEF ServeRequest, row
<1>2. ASSUME NEW i \in Instances, Election(i) PROVE TypeOK'
  <2>1. CASE Elect(i)
    <3>1. call' \in [Instances -> Request \cup {"none"}]
      BY <2>1 DEF Elect, Send
    <3> QED BY <2>1, <3>1 DEF Elect, Send, row
  <2>2. CASE Served(i)
    <3>1. owner' \in Instances \cup {NoInstance} /\ left' \in 0..Ttl
      BY <1>1, <2>2 DEF Served
    <3>2. answer' \in [Instances -> {"none", "yes", "no"}]
      BY <2>2 DEF Served, RowAnswer
    <3> QED BY <2>2, <3>1, <3>2 DEF Served
  <2>3. CASE StoreFails(i)
    BY <2>3 DEF StoreFails, row
  <2>4. CASE RenewOk(i)
    BY <2>4 DEF RenewOk, EndElection, row
  <2>5. CASE RenewRefused(i)
    BY <2>5 DEF RenewRefused, StopServices, Send, Abandon, row
  <2>6. CASE ClaimAcquired(i)
    <3>1. serving' \in [Instances -> BOOLEAN] /\ owns' \in [Instances -> BOOLEAN]
      BY <2>6 DEF ClaimAcquired, StopServices
    <3> QED BY <2>6, <3>1 DEF ClaimAcquired, EndElection, row
  <2>7. CASE ClaimRefused(i)
    BY <2>7 DEF ClaimRefused, StopServices, EndElection, Abandon, row
  <2> QED
    BY <1>2, <2>1, <2>2, <2>3, <2>4, <2>5, <2>6, <2>7 DEF Election
<1>3. ASSUME NEW i \in Instances, LateRequest(i) PROVE TypeOK'
  <2>1. PICK r \in late[i] :
          /\ late' = [late EXCEPT ![i] = @ \ {r}]
          /\ ServeRequest(i, r) \/ UNCHANGED row
          /\ UNCHANGED <<up, owns, serving, election>>
    BY <1>3 DEF LateRequest
  <2>2. owner' \in Instances \cup {NoInstance} /\ left' \in 0..Ttl
    BY <1>1, <2>1
  <2> QED BY <2>1, <2>2 DEF election
<1>4. ASSUME NEW i \in Instances, LeaderRestart(i) PROVE TypeOK'
  <2>1. since' \in [Instances -> Nat]
    BY <1>4 DEF LeaderRestart
  <2>2. late' \in [Instances -> SUBSET Request]
    BY <1>4 DEF LeaderRestart, Abandon
  <2> QED BY <1>4, <2>1, <2>2 DEF LeaderRestart, row
<1>5. ASSUME NEW i \in Instances, Crash(i) \/ Boot(i) PROVE TypeOK'
  <2>1. CASE Crash(i)
    <3>1. late' \in [Instances -> SUBSET Request] /\ since' \in [Instances -> Nat]
      BY <2>1 DEF Crash
    <3> QED BY <2>1, <3>1 DEF Crash, StopServices, row
  <2>2. CASE Boot(i)
    BY <2>2 DEF Boot, row, election
  <2> QED BY <1>5, <2>1, <2>2
<1>6. CASE Tick
  BY <1>6 DEF Tick
<1>7. CASE UNCHANGED vars
  BY <1>7 DEF vars
<1> QED
  BY <1>2, <1>3, <1>4, <1>5, <1>6, <1>7 DEF Next

(* The state of the election is always well formed.                        *)
THEOREM TypeCorrect == Spec => []TypeOK
<1>1. Init => TypeOK
  BY ConstantsAssumption DEF Init, TypeOK, Request
<1> QED
  BY <1>1, TypeStep, PTL DEF Spec

-----------------------------------------------------------------------------
(* The invariant, one instance at a time.                                  *)
At(i) ==
    /\ serving[i] => up[i] /\ owner = i /\ Ttl - left <= Slack(i) + since[i]
    /\ call[i] = "none" => answer[i] = "none" /\ since[i] <= Interval + Lag
    /\ call[i] # "none" => up[i] /\ since[i] <= CallMax
    /\ call[i] = "renew" => owns[i]
    /\ call[i] = "claim" => ~owns[i]
    /\ owns[i] => serving[i]
    /\ answer[i] = "yes" => owner = i /\ Ttl - left <= since[i]

(* The invariant of the module is At for every instance.                   *)
LEMMA LeaderInvAt == LeaderInv <=> \A i \in Instances : At(i)
  BY DEF LeaderInv, ServingCovered, CallCovered, At, Serving

(* Whoever serves, or is about to, holds a row that has not expired: the   *)
(* arithmetic that the elections have to satisfy.                          *)
LEMMA Held ==
  ASSUME ElectionsArePrompt, TypeOK,
         NEW i \in Instances, At(i), serving[i] \/ answer[i] = "yes"
  PROVE  owner = i /\ left > 0
<1> USE ConstantsAssumption DEF TypeOK
<1>1. CASE answer[i] = "yes"
  <2>1. since[i] <= CallMax /\ Ttl - left <= since[i] /\ owner = i
    BY <1>1 DEF At
  <2> QED BY <2>1 DEF ElectionsArePrompt
<1>2. CASE answer[i] # "yes"
  <2>1. Ttl - left <= Slack(i) + since[i] /\ owner = i
    BY <1>2 DEF At
  <2>2. CASE call[i] = "none"
    <3>1. since[i] <= Interval + Lag /\ Slack(i) <= 2 * CallMax + Lag
      BY <1>2, <2>2 DEF At, Slack
    <3>2. Slack(i) \in Int
      BY <1>2, <2>2 DEF Slack
    <3> QED BY <2>1, <3>1, <3>2 DEF ElectionsArePrompt
  <2>3. CASE call[i] # "none"
    <3>1. since[i] <= CallMax /\ Slack(i) <= 2 * CallMax + Interval + 2 * Lag
      BY <1>2, <2>3 DEF At, Slack
    <3>2. Slack(i) \in Int
      BY <1>2, <2>3 DEF Slack
    <3> QED BY <2>1, <3>1, <3>2 DEF ElectionsArePrompt
  <2> QED BY <2>2, <2>3
<1> QED BY <1>1, <1>2

(* A step of another instance leaves this one's variables alone and, while *)
(* this one serves or has been told yes, the row as well.                  *)
LEMMA OthersUntouched ==
  ASSUME ElectionsArePrompt, TypeOK,
         NEW i \in Instances, NEW j \in Instances, i # j, At(i), Step(j)
  PROVE  At(i)'
<1>1. Untouched(i)
  <2>1. CASE Election(j)
    BY <2>1 DEF Election, Elect, Served, StoreFails, RenewOk, RenewRefused,
       ClaimAcquired, ClaimRefused, Send, EndElection, StopServices, TypeOK, Untouched
  <2>2. CASE LateRequest(j) \/ LeaderRestart(j) \/ Crash(j) \/ Boot(j)
    BY <2>2 DEF LateRequest, LeaderRestart, Crash, Boot, StopServices,
       election, TypeOK, Untouched
  <2> QED BY <2>1, <2>2 DEF Step
<1>2. ASSUME serving[i] \/ answer[i] = "yes" PROVE UNCHANGED <<owner, left>>
  <2>1. owner = i /\ left > 0
    BY <1>2, Held
  <2>2. \A r : ServeRequest(j, r) => UNCHANGED <<owner, left>>
    BY <2>1 DEF ServeRequest, RowMatches, row, TypeOK
  <2>3. CASE Election(j)
    BY <2>2, <2>3 DEF Election, Elect, Served, StoreFails, RenewOk,
       RenewRefused, ClaimAcquired, ClaimRefused, row
  <2>4. CASE LateRequest(j) \/ LeaderRestart(j) \/ Crash(j) \/ Boot(j)
    BY <2>2, <2>4 DEF LateRequest, LeaderRestart, Crash, Boot, row
  <2> QED BY <2>3, <2>4 DEF Step
<1> QED BY <1>1, <1>2 DEF At, Slack, Untouched

(* A step of the instance itself keeps what the invariant says of it.  The *)
(* slack grows with each wait and call and is reset when the row is        *)
(* written and the answer arrives.                                         *)
LEMMA OwnStep ==
  ASSUME TypeOK, NEW i \in Instances, At(i), Step(i)
  PROVE  At(i)'
<1> USE ConstantsAssumption DEF TypeOK, At, Slack
<1>1. CASE Elect(i)
  BY <1>1 DEF Elect, Send, row
<1>2. CASE Served(i)
  <2>1. CASE RowMatches(i, call[i])
    BY <1>2, <2>1 DEF Served, ServeRequest, RowAnswer
  <2>2. CASE ~RowMatches(i, call[i])
    BY <1>2, <2>2 DEF Served, ServeRequest, RowAnswer, row
  <2> QED BY <2>1, <2>2
<1>3. CASE StoreFails(i)
  BY <1>3 DEF StoreFails, row
<1>4. CASE RenewOk(i)
  BY <1>4 DEF RenewOk, EndElection, row
<1>5. CASE RenewRefused(i)
  BY <1>5 DEF RenewRefused, Refused, StopServices, Send, row
<1>6. CASE ClaimAcquired(i)
  BY <1>6 DEF ClaimAcquired, EndElection, StopServices, row
<1>7. CASE ClaimRefused(i)
  BY <1>7 DEF ClaimRefused, EndElection, StopServices, row
<1>8. CASE LateRequest(i)
  <2>1. PICK r \in late[i] :
          /\ ServeRequest(i, r) \/ UNCHANGED row
          /\ UNCHANGED <<up, owns, serving, election>>
    BY <1>8 DEF LateRequest
  <2>2. (owner' = i /\ left' = Ttl) \/ UNCHANGED <<owner, left>>
    BY <2>1 DEF ServeRequest, row
  <2> QED BY <2>1, <2>2 DEF election
<1>9. CASE LeaderRestart(i)
  BY <1>9 DEF LeaderRestart, row
<1>10. CASE Crash(i)
  BY <1>10 DEF Crash, StopServices, row
<1>11. CASE Boot(i)
  BY <1>11 DEF Boot, row, election
<1> QED
  BY <1>1, <1>2, <1>3, <1>4, <1>5, <1>6, <1>7, <1>8, <1>9, <1>10, <1>11
     DEF Step, Election

(* The clock takes one unit from the row and adds one to every wait.       *)
LEMMA TickStep ==
  ASSUME TypeOK, NEW i \in Instances, At(i), Tick
  PROVE  At(i)'
<1> USE ConstantsAssumption DEF TypeOK
<1>1. left' >= left - 1 /\ left' \in Int /\ left \in Int
  BY DEF Tick
<1>2. Slack(i)' = Slack(i) /\ Slack(i) \in Int
  BY DEF Slack, Tick
<1>3. up[i] => since'[i] = since[i] + 1 /\
               since[i] < IF call[i] = "none" THEN Interval + Lag ELSE CallMax
  BY DEF Tick, MayWait
<1>4. ~up[i] => since'[i] = since[i]
  BY DEF Tick
<1> QED
  BY <1>1, <1>2, <1>3, <1>4 DEF At, Tick

(* The invariant is inductive.                                             *)
LEMMA LeaderStep ==
  ASSUME ElectionsArePrompt
  PROVE  TypeOK /\ LeaderInv /\ [Next]_vars => LeaderInv'
<1> SUFFICES ASSUME TypeOK, LeaderInv, [Next]_vars, NEW i \in Instances
             PROVE  At(i)'
  BY LeaderInvAt DEF LeaderInv, ServingCovered, CallCovered, At, Serving
<1>1. At(i)
  BY LeaderInvAt
<1>2. ASSUME NEW j \in Instances, Step(j) PROVE At(i)'
  BY <1>1, <1>2, OthersUntouched, OwnStep
<1>3. CASE Tick
  BY <1>1, <1>3, TickStep
<1>4. CASE UNCHANGED vars
  BY <1>1, <1>4 DEF vars, At, Slack
<1> QED
  BY <1>2, <1>3, <1>4 DEF Next, Step

(* In every behaviour the row covers the services and every answered call. *)
THEOREM LeaderCorrect ==
  ASSUME ElectionsArePrompt
  PROVE  Spec => [](TypeOK /\ LeaderInv)
<1>1. Init => TypeOK /\ LeaderInv
  BY ConstantsAssumption
     DEF Init, TypeOK, Request, LeaderInv, ServingCovered, CallCovered, Serving
<1>2. TypeOK /\ LeaderInv /\ [Next]_vars => (TypeOK /\ LeaderInv)'
  BY TypeStep, LeaderStep
<1> QED
  BY <1>1, <1>2, PTL DEF Spec

(* Services run only where an unexpired row says so.                       *)
THEOREM LeaseCoversServices ==
  ASSUME ElectionsArePrompt
  PROVE  Spec => []LeaderHoldsRow
<1>1. TypeOK /\ LeaderInv => LeaderHoldsRow
  BY LeaderInvAt, Held DEF LeaderHoldsRow, Serving
<1> QED
  BY <1>1, LeaderCorrect, PTL

(* One leader at a time, provided the elections are prompt with respect to *)
(* the lease.                                                              *)
THEOREM MutualExclusion ==
  ASSUME ElectionsArePrompt
  PROVE  Spec => []OneLeader
<1>1. LeaderHoldsRow => OneLeader
  BY DEF LeaderHoldsRow, OneLeader
<1> QED
  BY <1>1, LeaseCoversServices, PTL

-----------------------------------------------------------------------------
(* Every step starts or stops the services of at most one instance.        *)
LEMMA OneMoves ==
  ASSUME TypeOK, [Next]_vars
  PROVE  \E j \in Instances \cup {NoInstance} :
           \A k \in Instances \ {j} : serving'[k] = serving[k]
<1>1. ASSUME NEW j \in Instances, Step(j)
      PROVE  \A k \in Instances \ {j} : serving'[k] = serving[k]
  <2>1. CASE Election(j)
    BY <2>1 DEF Election, Elect, Served, StoreFails, RenewOk, RenewRefused,
       ClaimAcquired, ClaimRefused, StopServices, TypeOK
  <2>2. CASE LateRequest(j) \/ LeaderRestart(j) \/ Crash(j) \/ Boot(j)
    BY <2>2 DEF LateRequest, LeaderRestart, Crash, Boot, StopServices, TypeOK
  <2> QED
    BY <1>1, <2>1, <2>2 DEF Step
<1>2. ASSUME Tick \/ UNCHANGED vars PROVE serving' = serving
  BY <1>2 DEF Tick, vars
<1> QED
  BY <1>1, <1>2 DEF Next, Step

(* The election implements the lock: an instance starts the services only  *)
(* when they run nowhere.                                                  *)
THEOREM LeaderImplementsLock ==
  ASSUME ElectionsArePrompt
  PROVE  Spec => RefinesLock
<1>1. Init => Lock!Init
  BY DEF Init, Lock!Init, leader, Serving
<1>2. TypeOK /\ OneLeader /\ OneLeader' /\ [Next]_vars => [Lock!Next]_leader
  <2> SUFFICES ASSUME TypeOK, OneLeader, OneLeader', [Next]_vars
               PROVE  Lock!Next \/ leader' = leader
    OBVIOUS
  <2>1. PICK j \in Instances \cup {NoInstance} :
               \A k \in Instances \ {j} : serving'[k] = serving[k]
    BY OneMoves
  <2>2. /\ (\A i \in Instances : ~serving[i]) => leader = NoInstance
        /\ (\A i \in Instances : ~serving'[i]) => leader' = NoInstance
    BY DEF leader, Serving
  <2>3. ASSUME NEW i \in Instances, serving[i] PROVE leader = i
    BY <2>3 DEF leader, Serving, OneLeader
  <2>4. ASSUME NEW i \in Instances, serving'[i] PROVE leader' = i
    BY <2>4 DEF leader, Serving, OneLeader
  <2>5. CASE \A i \in Instances : ~serving[i]
    BY <2>2, <2>4, <2>5 DEF Lock!Next, Lock!Start
  <2>6. CASE \E i \in Instances : serving[i]
    <3>1. PICK i \in Instances : serving[i]
      BY <2>6
    <3>2. leader = i /\ leader # NoInstance
      BY <2>3, <3>1, ConstantsAssumption
    <3>3. CASE serving'[i]
      BY <2>4, <3>2, <3>3
    <3>4. CASE ~serving'[i]
      <4>1. \A k \in Instances : ~serving'[k]
        BY <2>1, <3>1, <3>4 DEF OneLeader, Serving
      <4> QED
        BY <2>2, <3>2, <4>1 DEF Lock!Next, Lock!Stop
    <3> QED
      BY <3>3, <3>4
  <2> QED
    BY <2>5, <2>6
<1> QED
  BY <1>1, <1>2, TypeCorrect, MutualExclusion, PTL DEF Spec, Lock!Spec, RefinesLock
=============================================================================
