-------------------------- MODULE RepositoryLeader --------------------------
(***************************************************************************)
(* Aiur.Instance.RepositoryLeader: one of the instances that share a       *)
(* coordination database supervises the repository-wide services (landing, *)
(* quarantine, merge queue, main watch).  It holds the repository's row of *)
(* aiur_repository_leases (RepositoryLease.claim_leader, renew_leader) and *)
(* elects itself again every Interval.                                     *)
(*                                                                         *)
(* The instances modelled are those with the role `primary` and a          *)
(* configured store.  Time is as in TicketLease: `left` is what remains of *)
(* the row and `since` a time that has passed.  Unlike the ticket lease,   *)
(* the leader has no deadline of its own: its services run until an        *)
(* election says no, and the row may be taken the moment it expires.       *)
(***************************************************************************)
EXTENDS Integers

CONSTANTS
    Instances,     \* the daemons that share the coordination database
    NoInstance,    \* the holder when there is no row for the repository
    Ttl,           \* @ttl_ms
    Interval,      \* @renew_interval_ms
    CallMax,       \* claim_for_store: the call for the id, then the request
    Lag            \* how late the runtime may serve a timer that is due

ASSUME ConstantsAssumption ==
    /\ NoInstance \notin Instances
    /\ {Ttl, Interval, CallMax, Lag} \subseteq Nat
    /\ 0 < Ttl

(* An election that began an interval after the last one, its renewal, and *)
(* the claim of a restarted RepositoryLeader all fit in the row's life.    *)
ElectionsArePrompt == 3 * CallMax + Interval + 2 * Lag < Ttl

VARIABLES
    owner,         \* instance_id of the row
    left,          \* expires_at - clock_timestamp(), 0 once it has expired
    up,            \* is the daemon running?
    owns,          \* state.owns? of the instance's RepositoryLeader
    serving,       \* do its services run under GlobalServices?
    call,          \* the request the election waits for
    answer,        \* what the LeaseStore has answered
    since,         \* time since the election ended, or since the call
    late           \* requests left in the LeaseStore by a caller that gave up

row == <<owner, left>>
election == <<call, answer, since>>
vars == <<owner, left, up, owns, serving, call, answer, since, late>>

Request == {"renew", "claim"}

TypeOK ==
    /\ owner \in Instances \cup {NoInstance}
    /\ left \in 0..Ttl
    /\ up \in [Instances -> BOOLEAN]
    /\ owns \in [Instances -> BOOLEAN]
    /\ serving \in [Instances -> BOOLEAN]
    /\ call \in [Instances -> Request \cup {"none"}]
    /\ answer \in [Instances -> {"none", "yes", "no"}]
    /\ since \in [Instances -> Nat]
    /\ late \in [Instances -> SUBSET Request]

\* init/1 sends itself :elect
Init ==
    /\ owner = NoInstance /\ left = 0
    /\ up = [i \in Instances |-> TRUE]
    /\ owns = [i \in Instances |-> FALSE]
    /\ serving = [i \in Instances |-> FALSE]
    /\ call = [i \in Instances |-> "none"]
    /\ answer = [i \in Instances |-> "none"]
    /\ since = [i \in Instances |-> Interval]
    /\ late = [i \in Instances |-> {}]

-----------------------------------------------------------------------------
(* Plausible slips in the code below, each of which TLC must catch.        *)

\* renew forgets `instance_id = $2`
RenewsAnyRow(i, r) == IF r = "renew" THEN left > 0 ELSE owner = i \/ left = 0
\* claim inserts, but never takes over
NeverTaken(i, r) ==
    IF r = "renew" THEN owner = i /\ left > 0 ELSE owner \in {i, NoInstance}
\* expires_at + ttl instead of now + ttl
ExtendsExpiry(i, r) ==
    IF owner = i \/ left = 0 THEN owner' = i /\ left' = left + Ttl ELSE UNCHANGED row
\* a renewal that fails is tried again at the next election
RenewErrorIgnored(i) ==
    /\ call[i] = "renew" /\ (answer[i] = "no" \/ since[i] = CallMax)
    /\ call' = [call EXCEPT ![i] = "none"]
    /\ answer' = [answer EXCEPT ![i] = "none"]
    /\ since' = [since EXCEPT ![i] = 0]
    /\ UNCHANGED <<row, up, owns, serving, late>>

-----------------------------------------------------------------------------
(* The two statements on the row, for request r of instance i.             *)

RowMatches(i, r) ==
    IF r = "renew" THEN owner = i /\ left > 0 ELSE owner = i \/ left = 0

RowAnswer(i, r) == IF RowMatches(i, r) THEN "yes" ELSE "no"

ServeRequest(i, r) ==
    IF RowMatches(i, r) THEN owner' = i /\ left' = Ttl ELSE UNCHANGED row

-----------------------------------------------------------------------------
(* The election.                                                           *)

Send(i, r) ==
    /\ call' = [call EXCEPT ![i] = r]
    /\ answer' = [answer EXCEPT ![i] = "none"]
    /\ since' = [since EXCEPT ![i] = 0]

\* Process.send_after(self(), :elect, interval_ms)
EndElection(i) ==
    /\ call' = [call EXCEPT ![i] = "none"]
    /\ answer' = [answer EXCEPT ![i] = "none"]
    /\ since' = [since EXCEPT ![i] = 0]

StopServices(i) ==
    /\ serving' = [serving EXCEPT ![i] = FALSE]
    /\ owns' = [owns EXCEPT ![i] = FALSE]

\* The request of a caller that gives up stays in the LeaseStore's mailbox
Abandon(i) ==
    late' = [late EXCEPT ![i] =
               IF call[i] # "none" /\ answer[i] = "none" THEN @ \cup {call[i]} ELSE @]

\* handle_info(:elect)
Elect(i) ==
    /\ up[i] /\ call[i] = "none" /\ since[i] >= Interval
    /\ Send(i, IF owns[i] THEN "renew" ELSE "claim")
    /\ UNCHANGED <<row, up, owns, serving, late>>

\* The LeaseStore runs the statement
Served(i) ==
    /\ call[i] # "none" /\ answer[i] = "none"
    /\ ServeRequest(i, call[i])
    /\ answer' = [answer EXCEPT ![i] = RowAnswer(i, call[i])]
    /\ UNCHANGED <<up, owns, serving, call, since, late>>

\* No connection, or the query fails before or after it took effect
StoreFails(i) ==
    /\ call[i] # "none" /\ answer[i] # "no"
    /\ answer' = [answer EXCEPT ![i] = "no"]
    /\ UNCHANGED <<row, up, owns, serving, call, since, late>>

RenewOk(i) ==
    /\ call[i] = "renew" /\ answer[i] = "yes"
    /\ EndElection(i)
    /\ UNCHANGED <<row, up, owns, serving, late>>

\* The answer is an error, or none came before the call timed out
Refused(i, r) ==
    call[i] = r /\ (answer[i] = "no" \/ since[i] = CallMax)

\* Anything but :ok stops the services, and only then asks for the row again
RenewRefused(i) ==
    /\ Refused(i, "renew")
    /\ StopServices(i)
    /\ Send(i, "claim")
    /\ Abandon(i)
    /\ UNCHANGED <<row, up>>

\* start_services: all of them start, or those that did are stopped again
ClaimAcquired(i) ==
    /\ call[i] = "claim" /\ answer[i] = "yes"
    /\ EndElection(i)
    /\ \/ /\ serving' = [serving EXCEPT ![i] = TRUE]
          /\ owns' = [owns EXCEPT ![i] = TRUE]
       \/ StopServices(i)
    /\ UNCHANGED <<row, up, late>>

ClaimRefused(i) ==
    /\ Refused(i, "claim")
    /\ StopServices(i)
    /\ EndElection(i)
    /\ Abandon(i)
    /\ UNCHANGED <<row, up>>

\* The LeaseStore serves, or fails, a request whose caller is gone
LateRequest(i) ==
    \E r \in late[i] :
        /\ late' = [late EXCEPT ![i] = @ \ {r}]
        /\ ServeRequest(i, r) \/ UNCHANGED row
        /\ UNCHANGED <<up, owns, serving, election>>

-----------------------------------------------------------------------------
(* Crashes and time.                                                       *)

\* The RepositoryLeader is restarted: it forgets that it owns the lease, but
\* the services run on under GlobalServices.  It sends itself :elect at once.
\* Bound: one restart between two successful elections, the `owns` guard.
LeaderRestart(i) ==
    /\ up[i] /\ owns[i]
    /\ owns' = [owns EXCEPT ![i] = FALSE]
    /\ call' = [call EXCEPT ![i] = "none"]
    /\ answer' = [answer EXCEPT ![i] = "none"]
    /\ since' = [since EXCEPT ![i] = Interval]
    /\ Abandon(i)
    /\ UNCHANGED <<row, up, serving>>

Crash(i) ==
    /\ up[i]
    /\ up' = [up EXCEPT ![i] = FALSE]
    /\ StopServices(i)
    /\ call' = [call EXCEPT ![i] = "none"]
    /\ answer' = [answer EXCEPT ![i] = "none"]
    /\ since' = [since EXCEPT ![i] = Interval]
    /\ late' = [late EXCEPT ![i] = {}]
    /\ UNCHANGED row

Boot(i) ==
    /\ ~up[i]
    /\ up' = [up EXCEPT ![i] = TRUE]
    /\ UNCHANGED <<row, owns, serving, election, late>>

\* Nothing that is due is overtaken by the clock
MayWait(i) ==
    up[i] => since[i] < IF call[i] = "none" THEN Interval + Lag ELSE CallMax

Tick ==
    /\ \A i \in Instances : MayWait(i)
    /\ left' = IF left > 0 THEN left - 1 ELSE left
    /\ since' = [i \in Instances |-> IF up[i] THEN since[i] + 1 ELSE since[i]]
    /\ UNCHANGED <<owner, up, owns, serving, call, answer, late>>

-----------------------------------------------------------------------------
Election(i) == Elect(i) \/ Served(i) \/ StoreFails(i) \/ RenewOk(i)
                 \/ RenewRefused(i) \/ ClaimAcquired(i) \/ ClaimRefused(i)

Next ==
    \/ \E i \in Instances :
         Election(i) \/ LateRequest(i) \/ LeaderRestart(i) \/ Crash(i) \/ Boot(i)
    \/ Tick

Spec == Init /\ [][Next]_vars

(* Time passes and elections go on; a store that can serve a claim again   *)
(* and again serves one, and the services then start.                      *)
Fairness ==
    /\ WF_vars(Tick)
    /\ \A i \in Instances :
         /\ WF_vars(Election(i))
         /\ SF_vars(call[i] = "claim" /\ RowMatches(i, "claim") /\ Served(i))
         /\ SF_vars(ClaimAcquired(i) /\ serving'[i])

FairSpec == Spec /\ Fairness

-----------------------------------------------------------------------------
Serving == {i \in Instances : serving[i]}

(* The services of the repository run on one instance at a time, the       *)
(* reason for RepositoryLeader.                                            *)
OneLeader == \A i, j \in Serving : i = j

(* While they run, the row is their instance's and has not expired.        *)
LeaderHoldsRow == \A i \in Serving : owner = i /\ left > 0

(* If the leader dies for good, an instance that is up again and again     *)
(* takes over.                                                             *)
DeadLeaderReplaced ==
    \A i \in Instances :
        (<>[](~up[i]) /\ \A j \in Instances \ {i} : <>[]up[j])
            => []<>(\E j \in Instances \ {i} : serving[j])

leader == IF Serving = {} THEN NoInstance ELSE CHOOSE i \in Instances : serving[i]

Lock == INSTANCE InstanceLock WITH runner <- leader

(* RepositoryLeader implements InstanceLock.                               *)
RefinesLock == Lock!Spec

-----------------------------------------------------------------------------
(* Why it holds.  Slack bounds what may have run off the row before the    *)
(* current wait or call began.                                             *)
Slack(i) ==
    IF answer[i] = "yes" THEN 0
    ELSE IF owns[i]
           THEN CallMax + IF call[i] = "none" THEN 0 ELSE Interval + Lag
           ELSE 2 * CallMax + Lag + IF call[i] = "none" THEN 0 ELSE Interval + Lag

ServingCovered ==
    \A i \in Serving :
        /\ up[i] /\ owner = i
        /\ Ttl - left <= Slack(i) + since[i]

CallCovered ==
    \A i \in Instances :
        /\ call[i] = "none" =>
             answer[i] = "none" /\ since[i] <= Interval + Lag
        /\ call[i] # "none" => up[i] /\ since[i] <= CallMax
        /\ call[i] = "renew" => owns[i]
        /\ call[i] = "claim" => ~owns[i]
        /\ owns[i] => serving[i]
        /\ answer[i] = "yes" => owner = i /\ Ttl - left <= since[i]

LeaderInv == ServingCovered /\ CallCovered
=============================================================================
