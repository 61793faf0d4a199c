----------------------------- MODULE TicketLease -----------------------------
(***************************************************************************)
(* The lease that keeps two Aiur instances from working one ticket:        *)
(* Aiur.Instance.LeaseStore (claim, watch, renew, release over a row of    *)
(* aiur_ticket_leases), the Renewal process that fences a worker,          *)
(* DispatchClaim and SharedLeaseDispatch, which gate a dispatch on the     *)
(* claim, and AgentRunner.run/3, which starts the watch.                   *)
(*                                                                         *)
(* One ticket key is modelled: every handler touches only the row and the  *)
(* set member of its own key.  Time is discrete and shared: PostgreSQL's   *)
(* clock_timestamp() and the monotonic clocks of the instances advance at  *)
(* one rate.  Instead of absolute times the state keeps what is left of    *)
(* the row (expires_at - now, saturating once anyone may take the row) and *)
(* the time since an event, so the model needs no bound on time.           *)
(***************************************************************************)
EXTENDS Integers

CONSTANTS
    Instances,     \* the daemons that share the coordination database
    NoInstance,    \* the holder when the table has no row for the key
    Ttl,           \* @default_ttl_ms
    Margin,        \* @default_renew_margin_ms
    Interval,      \* @default_renew_interval_ms
    Grace,         \* @claim_grace_ms
    CallMax,       \* GenServer.call timeout of a renewal
    StartMax,      \* longest time from a claim's query to the worker's watch
    Lag            \* how late the runtime may serve a timer that is due

ASSUME ConstantsAssumption ==
    /\ NoInstance \notin Instances
    /\ {Ttl, Margin, Interval, Grace, CallMax, StartMax, Lag} \subseteq Nat
    /\ Margin < Ttl /\ 0 < Interval

(* The two promptness conditions under which the lease excludes a second   *)
(* worker, and the one under which a healthy store never fences a worker.  *)
CallsArePrompt == CallMax + Lag < Margin + Grace
StartIsPrompt == StartMax + Lag < Margin + Grace
RenewalsFit == Interval + Lag + CallMax < Ttl - Margin

VARIABLES
    owner,     \* instance_id of the row, NoInstance when there is none
    left,      \* expires_at - clock_timestamp(), never below -Grace
    up,        \* is the daemon of the instance running?
    leases,    \* is the key in the `leases` set of the instance's LeaseStore?
    worker,    \* the instance's dispatch of the ticket
    call,      \* the renewal request of the worker's Renewal process
    since,     \* time since the claim, since the loop began or since the call
    goodAge,   \* now - last_good_ms of the Renewal process
    failed,    \* has a renewal failed since last_good_ms?
    late       \* a renew whose caller is gone waits in the LeaseStore's mailbox

row == <<owner, left>>
renewal == <<call, since, goodAge, failed>>
vars == <<owner, left, up, leases, worker, call, since, goodAge, failed, late>>

WorkerState == {"idle", "dispatching", "launching", "running"}
CallState == {"none", "sent", "applied", "lost", "error"}

TypeOK ==
    /\ owner \in Instances \cup {NoInstance}
    /\ left \in (-Grace)..Ttl
    /\ up \in [Instances -> BOOLEAN]
    /\ leases \in [Instances -> BOOLEAN]
    /\ worker \in [Instances -> WorkerState]
    /\ call \in [Instances -> CallState]
    /\ since \in [Instances -> Nat]
    /\ goodAge \in [Instances -> Nat]
    /\ failed \in [Instances -> BOOLEAN]
    /\ late \in [Instances -> BOOLEAN]

Init ==
    /\ owner = NoInstance /\ left = -Grace
    /\ up = [i \in Instances |-> TRUE]
    /\ leases = [i \in Instances |-> FALSE]
    /\ worker = [i \in Instances |-> "idle"]
    /\ call = [i \in Instances |-> "none"]
    /\ since = [i \in Instances |-> 0]
    /\ goodAge = [i \in Instances |-> 0]
    /\ failed = [i \in Instances |-> FALSE]
    /\ late = [i \in Instances |-> FALSE]

Deadline == Ttl - Margin

-----------------------------------------------------------------------------
(* Plausible slips in the code below, each of which TLC must catch.        *)

TakenAtExpiry(i) == owner = i \/ left <= 0        \* claim forgets the grace
TakenWhenever(i) == TRUE                          \* claim forgets its WHERE
NeverTaken(i) == owner \in {i, NoInstance}        \* no takeover of a dead holder
RenewsAnyRow(i) == owner' = i /\ left' = Ttl      \* UPDATE ignores instance_id
ExtendsExpiry(i) ==                               \* expires_at + ttl, not now + ttl
    owner' = owner /\ left' = IF owner = i THEN left + Ttl ELSE left

\* the loop goes round without the new last_good_ms
OkKeepsLastGood(i) ==
    /\ call[i] = "applied"
    /\ call' = [call EXCEPT ![i] = "none"]
    /\ since' = [since EXCEPT ![i] = 0]
    /\ failed' = [failed EXCEPT ![i] = FALSE]
    /\ UNCHANGED <<row, up, leases, worker, goodAge, late>>

-----------------------------------------------------------------------------
(* The three statements on the row.                                        *)

\* INSERT ... ON CONFLICT DO UPDATE ... WHERE expired past the grace OR own
ClaimMatches(i) == owner = i \/ left <= -Grace
ClaimRow(i) == owner' = i /\ left' = Ttl

\* UPDATE ... WHERE instance_id = i: an expired row that nobody took is renewed
RenewRow(i) == owner' = owner /\ left' = IF owner = i THEN Ttl ELSE left

\* DELETE ... WHERE instance_id = i
ReleaseRow(i) == IF owner = i THEN owner' = NoInstance /\ left' = -Grace
                              ELSE UNCHANGED row

-----------------------------------------------------------------------------
(* Dispatch.  A claim that is :held or unavailable changes nothing.        *)

ClaimAcquired(i) ==
    /\ up[i] /\ worker[i] = "idle" /\ ClaimMatches(i)
    /\ ClaimRow(i)
    /\ leases' = [leases EXCEPT ![i] = TRUE]
    /\ worker' = [worker EXCEPT ![i] = "dispatching"]
    /\ since' = [since EXCEPT ![i] = 0]
    /\ UNCHANGED <<up, call, goodAge, failed, late>>

\* The query takes effect but the dispatcher sees an error: the query itself
\* failed after the commit (the key is not added) or the caller had given up.
ClaimReplyLost(i) ==
    /\ up[i] /\ worker[i] = "idle" /\ ClaimMatches(i)
    /\ ClaimRow(i)
    /\ leases' \in {leases, [leases EXCEPT ![i] = TRUE]}
    /\ UNCHANGED <<up, worker, renewal, late>>

\* dispatch_fun spawns the worker's task and adds the issue to `claimed`
Spawn(i) ==
    /\ worker[i] = "dispatching"
    /\ worker' = [worker EXCEPT ![i] = "launching"]
    /\ UNCHANGED <<row, up, leases, renewal, late>>

\* release_if_unstarted; the release may fail before or after its DELETE
Unstarted(i) ==
    /\ worker[i] = "dispatching"
    /\ worker' = [worker EXCEPT ![i] = "idle"]
    /\ \/ ReleaseRow(i) /\ leases' = [leases EXCEPT ![i] = FALSE]
       \/ ReleaseRow(i) /\ UNCHANGED leases
       \/ UNCHANGED <<row, leases>>
    /\ UNCHANGED <<up, renewal, late>>

\* The task dies, or is stopped, before AgentRunner.run/3 reaches the watch
LaunchFailed(i) ==
    /\ worker[i] = "launching"
    /\ worker' = [worker EXCEPT ![i] = "idle"]
    /\ UNCHANGED <<row, up, leases, renewal, late>>

\* watch asks the LeaseStore's memory, not the database; last_good_ms := now
Watch(i) ==
    /\ worker[i] = "launching"
    /\ worker' = [worker EXCEPT ![i] = IF leases[i] THEN "running" ELSE "idle"]
    /\ since' = [since EXCEPT ![i] = 0]
    /\ goodAge' = [goodAge EXCEPT ![i] = 0]
    /\ failed' = [failed EXCEPT ![i] = FALSE]
    /\ UNCHANGED <<row, up, leases, call, late>>

-----------------------------------------------------------------------------
(* The Renewal process of a running worker.                                *)

\* The worker is gone and its Renewal with it; a request that the LeaseStore
\* has not served yet stays in its mailbox.  The row is not released.
StopWorker(i) ==
    /\ worker' = [worker EXCEPT ![i] = "idle"]
    /\ call' = [call EXCEPT ![i] = "none"]
    /\ late' = [late EXCEPT ![i] = @ \/ call[i] = "sent"]
    /\ UNCHANGED <<row, up, leases, since, goodAge, failed>>

\* The loop wakes after min(interval, remaining) before the deadline
RenewSend(i) ==
    /\ worker[i] = "running" /\ call[i] = "none"
    /\ since[i] >= Interval /\ goodAge[i] < Deadline
    /\ call' = [call EXCEPT ![i] = "sent"]
    /\ since' = [since EXCEPT ![i] = 0]
    /\ UNCHANGED <<row, up, leases, worker, goodAge, failed, late>>

RenewExecuted(i) ==
    /\ call[i] = "sent"
    /\ RenewRow(i)
    /\ call' = [call EXCEPT ![i] = IF owner = i THEN "applied" ELSE "lost"]
    /\ UNCHANGED <<up, leases, worker, since, goodAge, failed, late>>

\* No connection, or the query fails before or after it took effect
StoreFails(i) ==
    /\ call[i] \in {"sent", "applied", "lost"}
    /\ call' = [call EXCEPT ![i] = "error"]
    /\ UNCHANGED <<row, up, leases, worker, since, goodAge, failed, late>>

\* last_good_ms is read when the answer arrives, not when the row was renewed
RenewOk(i) ==
    /\ call[i] = "applied"
    /\ call' = [call EXCEPT ![i] = "none"]
    /\ since' = [since EXCEPT ![i] = 0]
    /\ goodAge' = [goodAge EXCEPT ![i] = 0]
    /\ failed' = [failed EXCEPT ![i] = FALSE]
    /\ UNCHANGED <<row, up, leases, worker, late>>

\* retry_or_fence: an error answer, or the GenServer.call timed out
RenewFailed(i) ==
    /\ call[i] = "error" \/ (call[i] # "none" /\ since[i] = CallMax)
    /\ goodAge[i] < Deadline
    /\ call' = [call EXCEPT ![i] = "none"]
    /\ since' = [since EXCEPT ![i] = 0]
    /\ failed' = [failed EXCEPT ![i] = TRUE]
    /\ late' = [late EXCEPT ![i] = @ \/ call[i] = "sent"]
    /\ UNCHANGED <<row, up, leases, worker, goodAge>>

\* fence(:lease_lost) on the answer, or fence(:deadline) while waiting or with
\* a renewal still unanswered
Fence(i) ==
    /\ \/ call[i] = "lost"
       \/ worker[i] = "running" /\ goodAge[i] >= Deadline
    /\ StopWorker(i)

WorkerExit(i) == worker[i] = "running" /\ StopWorker(i)

\* The LeaseStore serves, or fails, a renew whose caller has gone
LateRenew(i) ==
    /\ late[i]
    /\ late' = [late EXCEPT ![i] = FALSE]
    /\ RenewRow(i) \/ UNCHANGED row
    /\ UNCHANGED <<up, leases, worker, renewal>>

-----------------------------------------------------------------------------
(* Crashes and time.                                                       *)

\* The LeaseStore is restarted by its supervisor with an empty `leases`
StoreRestart(i) ==
    /\ up[i]
    /\ leases' = [leases EXCEPT ![i] = FALSE]
    /\ late' = [late EXCEPT ![i] = FALSE]
    /\ call' = [call EXCEPT ![i] = IF @ = "none" THEN @ ELSE "error"]
    /\ UNCHANGED <<row, up, worker, since, goodAge, failed>>

Crash(i) ==
    /\ up[i]
    /\ up' = [up EXCEPT ![i] = FALSE]
    /\ leases' = [leases EXCEPT ![i] = FALSE]
    /\ worker' = [worker EXCEPT ![i] = "idle"]
    /\ call' = [call EXCEPT ![i] = "none"]
    /\ late' = [late EXCEPT ![i] = FALSE]
    /\ UNCHANGED <<row, since, goodAge, failed>>

\* The daemon comes back under the same instance id (Identity.current/0)
Boot(i) ==
    /\ ~up[i]
    /\ up' = [up EXCEPT ![i] = TRUE]
    /\ UNCHANGED <<row, leases, worker, renewal, late>>

\* Nothing that is due is overtaken by the clock
MayWait(i) ==
    /\ worker[i] \in {"dispatching", "launching"} => since[i] < StartMax
    /\ worker[i] = "running" =>
         /\ goodAge[i] < Deadline + Lag
         /\ since[i] < IF call[i] = "none" THEN Interval + Lag ELSE CallMax

Tick ==
    /\ \A i \in Instances : MayWait(i)
    /\ left' = IF left > -Grace THEN left - 1 ELSE left
    /\ since' = [i \in Instances |->
                   IF worker[i] = "idle" THEN 0 ELSE since[i] + 1]
    /\ goodAge' = [i \in Instances |->
                     IF worker[i] = "running" THEN goodAge[i] + 1 ELSE 0]
    /\ UNCHANGED <<owner, up, leases, worker, call, failed, late>>

-----------------------------------------------------------------------------
Dispatch(i) == ClaimAcquired(i) \/ ClaimReplyLost(i) \/ Spawn(i)
                 \/ Unstarted(i) \/ LaunchFailed(i) \/ Watch(i)

Renew(i) == RenewSend(i) \/ RenewExecuted(i) \/ StoreFails(i) \/ RenewOk(i)
              \/ RenewFailed(i) \/ Fence(i)

Next ==
    \/ \E i \in Instances :
         \/ Dispatch(i) \/ Renew(i) \/ WorkerExit(i) \/ LateRenew(i)
         \/ StoreRestart(i) \/ Crash(i) \/ Boot(i)
    \/ Tick

Spec == Init /\ [][Next]_vars

(* Time passes; what is due happens; and a claim, a spawn or a watch that  *)
(* is possible again and again is made, because the orchestrator polls and *)
(* offers a ready ticket for dispatch on every cycle, and a LeaseStore     *)
(* restart does not hit every single launch.                               *)
Fairness ==
    /\ WF_vars(Tick)
    /\ \A i \in Instances :
         /\ WF_vars(Renew(i))
         /\ WF_vars(Spawn(i) \/ Unstarted(i) \/ LaunchFailed(i) \/ Watch(i))
         /\ SF_vars(ClaimAcquired(i))
         /\ SF_vars(leases[i] /\ Spawn(i))
         /\ SF_vars(leases[i] /\ Watch(i))

FairSpec == Spec /\ Fairness

-----------------------------------------------------------------------------
Running == {i \in Instances : worker[i] = "running"}

(* No two instances run a worker for the ticket at one time: the reason    *)
(* for the claim in DispatchClaim.call/3 and for the Renewal's fence.      *)
OneWorkerPerTicket == \A i, j \in Running : i = j

(* While a worker runs, the row is its instance's and nobody else can take *)
(* it: the grace of `claim` outlasts every delay between the renewal of    *)
(* the row and the deadline that the Renewal keeps on its own clock.       *)
LeaseOutlivesWorker == \A i \in Running : owner = i /\ left > -Grace

(* The deadline stops a worker only after a renewal failed: an instance    *)
(* whose store answers every renewal keeps its worker.                     *)
FenceOnlyAfterFailure ==
    \A i \in Running : goodAge[i] >= Deadline => failed[i]

(* The ticket of an instance that is gone for good is picked up by one of  *)
(* the others, provided these are up again and again: a lapsed lease never *)
(* strands a ticket.                                                       *)
DeadHolderReplaced ==
    \A i \in Instances :
        (<>[](~up[i]) /\ \A j \in Instances \ {i} : []<>up[j])
            => []<>(\E j \in Instances \ {i} : worker[j] = "running")

(* TicketLease implements InstanceLock: a worker starts on an instance only  *)
(* when none runs anywhere.                                                *)
runner == IF Running = {} THEN NoInstance
                          ELSE CHOOSE i \in Instances : worker[i] = "running"

Lock == INSTANCE InstanceLock

RefinesLock == Lock!Spec

-----------------------------------------------------------------------------
(* Why it holds.  `left` bounds from below what the row still has: the     *)
(* time since the row was last written is at most the age that the worker  *)
(* knows of plus the delay of the answer (or of the launch) it started at. *)
Launching(i) == worker[i] \in {"dispatching", "launching"}

LaunchCovered ==
    \A i \in Instances : Launching(i) =>
        /\ owner = i /\ since[i] <= StartMax
        /\ Ttl - left <= since[i]

RunCovered ==
    \A i \in Running :
        /\ owner = i /\ goodAge[i] <= Deadline + Lag
        /\ \/ Ttl - left <= goodAge[i] + StartMax
           \/ Ttl - left <= goodAge[i] + CallMax

CallCovered ==
    \A i \in Instances : call[i] # "none" =>
        /\ worker[i] = "running" /\ since[i] <= CallMax
        /\ call[i] = "applied" => Ttl - left <= since[i]

LeaseInv == LaunchCovered /\ RunCovered /\ CallCovered

(* For FenceOnlyAfterFailure: without a failure the age is that of the     *)
(* current wait, or of the wait before the current call and of the call.   *)
AgeCovered ==
    \A i \in Running : ~failed[i] =>
        IF call[i] = "none"
          THEN goodAge[i] <= since[i] /\ since[i] <= Interval + Lag
          ELSE goodAge[i] <= Interval + Lag + since[i] /\ since[i] <= CallMax
=============================================================================
