----------------------------- MODULE GithubBudget -----------------------------
(***************************************************************************)
(* The admission ledger of the GitHub request broker (priv/github_budget)  *)
(* for one credential.  Every daemon and every agent's shell wrapper opens *)
(* the same SQLite file; what is said between them is what the rows say.   *)
(*                                                                         *)
(* A one-shot broker reads the clock BEFORE it waits for the write lock,   *)
(* so a command commits with a time `now` that may lie in the past of rows *)
(* that are already there: every action takes its `now` from Recent.  The  *)
(* transaction itself is atomic.  Which ledger a credential uses, and how  *)
(* the resident broker batches its commands, is BudgetSession.             *)
(***************************************************************************)
EXTENDS Integers, FiniteSets

CONSTANTS
    Consumers,      \* actors: the daemon, an agent's workspace
    Resources,      \* GitHub's pools: core, graphql, search
    Unknown,        \* a request the guard could not classify
    Families,       \* endpoint families
    Keys,           \* cache keys of reads that may be shared
    NoKey,
    Requests,       \* the requests that are made, records of Request
    MaxInflight, FamilyInflight, Rpm, Stagger,  \* each consumer's policy
    Ceiling,        \* Ceiling[c][r]: its requests per hour, 0 for no ceiling
    Minute, Hour, PolicyWindow,
    Ttl, ClaimTtl,  \* lifetime of a lease, of a cache claim
    Delays,         \* lengths of a hold
    MaxWait,        \* how long a command may wait for the write lock
    MaxClock, MaxIssued, MaxExtras   \* bounds

Request ==
    [who: Consumers, res: Resources \cup {Unknown}, family: Families, priority: {0, 1},
     ignoreCooldown: BOOLEAN, key: Keys \cup {NoKey}, ignoreClaim: BOOLEAN, billable: BOOLEAN]

ASSUME BudgetAssumption ==
    /\ Requests \subseteq Request
    /\ "core" \in Resources /\ IsFiniteSet(Resources)
    /\ Unknown \notin Resources /\ NoKey \notin Keys
    /\ Rpm \in [Consumers -> Nat \ {0}]
    /\ Ceiling \in [Consumers -> [Resources -> Nat]]
    /\ Ttl \in Nat /\ ClaimTtl \in Nat /\ Delays \subseteq Nat

\* A waiting command is younger than every window that it is judged by: the
\* lock is waited for 5 seconds, and the shortest window is a minute.
ASSUME WaitAssumption ==
    /\ Minute \in Nat /\ Hour \in Nat /\ PolicyWindow \in Nat /\ MaxWait \in Nat
    /\ MaxWait < Minute /\ Minute + MaxWait < PolicyWindow /\ PolicyWindow <= Hour
    /\ Minute + 2 * MaxWait <= Hour

VARIABLES
    clock,
    leases,         \* rows [id, family, until]
    admissions,     \* rows [id, who, res, at, billable]
    policies,       \* rows [who, at]: when a consumer was last seen
    holds,          \* until when each resource is held
    extras,         \* hold and renew commands so far, which a bound limits
    cooldown,       \* until when the token is held
    nextAdmission,  \* the stagger: no admission before it
    claims,         \* rows [key, id, until]: who fetches a shared read
    issued,         \* lease ids handed out
    calling         \* leases not yet released; a caller that was killed never is

vars == <<clock, leases, admissions, policies, holds, cooldown, nextAdmission, claims,
          issued, calling, extras>>

TypeOK ==
    /\ clock \in Nat
    /\ leases \subseteq [id: 1..issued, family: Families, until: Int]
    /\ admissions \subseteq
         [id: 1..issued, who: Consumers, res: Resources \cup {Unknown}, at: Int, billable: BOOLEAN]
    /\ policies \subseteq [who: Consumers, at: Int]
    /\ holds \in [Resources -> Int] /\ cooldown \in Int /\ nextAdmission \in Int
    /\ claims \subseteq [key: Keys, id: 1..issued, until: Int]
    /\ extras \in Nat /\ issued \in Nat /\ calling \subseteq 1..issued

Init ==
    /\ clock = 0
    /\ leases = {} /\ admissions = {} /\ policies = {} /\ claims = {}
    /\ holds = [r \in Resources |-> 0] /\ cooldown = 0 /\ nextAdmission = 0
    /\ extras = 0 /\ issued = 0 /\ calling = {}

-----------------------------------------------------------------------------
MinOf(S) == CHOOSE x \in S : \A y \in S : x <= y
MaxOf(S) == CHOOSE x \in S : \A y \in S : y <= x

-----------------------------------------------------------------------------
(* Plausible slips in the code below, each of which TLC must catch.        *)

\* only the caller's own policy counts
OwnPolicy(who, now) == {who}
\* one response above the ceiling
AtCeiling(used, limit) == used <= limit
\* the release does not ask whose claim it is
ReleasesAll(id) == {}
\* a request of no known pool finds no hold under its name
HoldByName(res, now) == IF res \in Resources /\ holds[res] > now THEN holds[res] ELSE 0

-----------------------------------------------------------------------------
(* Time.                                                                   *)

\* The clock as read by a command that commits now.
Recent == {t \in clock - MaxWait .. clock : t >= 0}

Tick == clock < MaxClock /\ clock' = clock + 1
        /\ UNCHANGED <<leases, admissions, policies, holds, cooldown, nextAdmission, claims, issued, calling, extras>>

-----------------------------------------------------------------------------
(* cleanup: what is left of the tables at `now`.                           *)

LiveLeases(now) == {l \in leases : l.until > now}
KeptAdmissions(now) == {a \in admissions : a.at >= now - Hour}
KeptPolicies(now) == {p \in policies : p.at >= now - Hour}
KeptHolds(now) == [r \in Resources |-> IF holds[r] > now THEN holds[r] ELSE 0]
LiveClaims(now) == {c \in claims : c.until > now}

\* the consumer's policy row is written before any decision, granted or not
Observed(who, now) == {p \in KeptPolicies(now) : p.who # who} \cup {[who |-> who, at |-> now]}

-----------------------------------------------------------------------------
(* acquire: the reasons to refuse.                                         *)

\* the consumers whose limits bind everybody: those seen lately
RecentConsumers(who, now) == {p.who : p \in {q \in Observed(who, now) : q.at > now - PolicyWindow}}

Strictest(limit, who, now) == MinOf({limit[c] : c \in RecentConsumers(who, now)})

\* A resource hold, or the token's cooldown, is in force.
ResourceHold(res, now) ==
    IF res = Unknown THEN MaxOf({KeptHolds(now)[r] : r \in Resources}) ELSE KeptHolds(now)[res]
Held(req, now) ==
    \/ ResourceHold(req.res, now) > now
    \/ ~req.ignoreCooldown /\ cooldown > now

\* The billable responses of an actor in the rolling hour.
Pool(res) == IF res \in Resources \ {"core"} THEN {res} ELSE {"core", Unknown}
Usage(rows, who, res, now) ==
    {a \in rows : a.who = who /\ a.billable /\ a.at > now - Hour /\ a.res \in Pool(res)}

UnderCeiling(used, limit) == used < limit
Limit(who, res) == IF res = Unknown THEN Ceiling[who]["core"] ELSE Ceiling[who][res]

\* The (used - limit + 1)-th oldest response must age out; those stamped
\* alike are told apart by their id.
AgesOut(rows, limit, now) ==
    LET older(a) == {b \in rows : b.at < a.at \/ (b.at = a.at /\ b.id < a.id)}
        last == CHOOSE a \in rows : Cardinality(older(a)) = Cardinality(rows) - limit
    IN MaxOf({last.at + Hour - now, 1})

ActorHold(who, res, limit, now) ==
    LET rows == Usage(KeptAdmissions(now), who, res, now)
    IN IF limit = 0 \/ UnderCeiling(Cardinality(rows), limit) THEN 0 ELSE AgesOut(rows, limit, now)

\* Another caller fetches the same read.
Followed(req, now) ==
    req.key # NoKey /\ ~req.ignoreClaim /\ \E c \in LiveClaims(now) : c.key = req.key

AtCap(now, req) ==
    Cardinality(LiveLeases(now)) >= Strictest(MaxInflight, req.who, now) + req.priority
AtFamilyCap(now, req) ==
    Cardinality({l \in LiveLeases(now) : l.family = req.family})
      >= Strictest(FamilyInflight, req.who, now) + req.priority

LastMinute(now) == {a \in admissions : a.at > now - Minute}
AtRate(now, req) == Cardinality(LastMinute(now)) >= Strictest(Rpm, req.who, now)

Refused(req, now) ==
    \/ Held(req, now)
    \/ ActorHold(req.who, req.res, Limit(req.who, req.res), now) > 0
    \/ Followed(req, now)
    \/ AtCap(now, req) \/ AtFamilyCap(now, req)
    \/ AtRate(now, req)
    \/ nextAdmission > now

\* Every answer commits the cleanup and the policy row.
Refuse(req, now) ==
    /\ Refused(req, now)
    /\ leases' = LiveLeases(now) /\ admissions' = KeptAdmissions(now)
    /\ policies' = Observed(req.who, now)
    /\ holds' = KeptHolds(now) /\ claims' = LiveClaims(now)
    /\ UNCHANGED <<clock, cooldown, nextAdmission, issued, calling, extras>>

MaxStagger(who, now) == MaxOf({Stagger[c] : c \in RecentConsumers(who, now)})

Claimed(req, now, id) ==
    IF req.key = NoKey THEN LiveClaims(now)
    ELSE {c \in LiveClaims(now) : c.key # req.key}
           \cup {[key |-> req.key, id |-> id, until |-> now + ClaimTtl]}

Grant(req, now) ==
    /\ ~Refused(req, now)
    /\ issued < MaxIssued
    /\ issued' = issued + 1
    /\ calling' = calling \cup {issued'}
    /\ leases' = LiveLeases(now)
                   \cup {[id |-> issued', family |-> req.family, until |-> now + Ttl]}
    /\ admissions' = KeptAdmissions(now)
         \cup {[id |-> issued', who |-> req.who, res |-> req.res, at |-> now, billable |-> req.billable]}
    /\ policies' = Observed(req.who, now)
    /\ claims' = Claimed(req, now, issued')
    /\ \E s \in (IF MaxStagger(req.who, now) = 0 THEN {0} ELSE 1..MaxStagger(req.who, now)) :
         nextAdmission' = now + s
    /\ holds' = KeptHolds(now)
    /\ UNCHANGED <<clock, cooldown, extras>>

-----------------------------------------------------------------------------
(* The other commands.                                                     *)

ClaimsAfter(id) == {c \in claims : c.id # id}

Release(id) ==
    /\ id \in calling
    /\ calling' = calling \ {id}
    /\ leases' = {l \in leases : l.id # id}
    /\ claims' = ClaimsAfter(id)
    /\ UNCHANGED <<clock, admissions, policies, holds, cooldown, nextAdmission, issued, extras>>

Extra == extras < MaxExtras /\ extras' = extras + 1

\* A lease that was cleaned away is not brought back.
Renew(id, now) ==
    /\ id \in calling /\ Extra
    /\ leases' = {IF l.id = id THEN [l EXCEPT !.until = now + Ttl] ELSE l : l \in leases}
    /\ UNCHANGED <<clock, admissions, policies, holds, cooldown, nextAdmission, claims, issued, calling>>

\* GitHub answered 304: the admission costs nothing
Reconcile(id) ==
    /\ id \in calling
    /\ admissions' = {IF a.id = id THEN [a EXCEPT !.billable = FALSE] ELSE a : a \in admissions}
    /\ UNCHANGED <<clock, leases, policies, holds, cooldown, nextAdmission, claims, issued, calling, extras>>

\* snapshot, usage and meter only report, but what is past is cleaned away by
\* them too.
Report(now) ==
    /\ leases' = LiveLeases(now) /\ admissions' = KeptAdmissions(now)
    /\ policies' = KeptPolicies(now)
    /\ holds' = KeptHolds(now) /\ claims' = LiveClaims(now)
    /\ UNCHANGED <<clock, cooldown, nextAdmission, issued, calling, extras>>

\* usage_figure: when an actor's hour is said to begin to age out, or, if it has
\* used more than its limit, when it may go on
ResetAt(who, res, limit, now) ==
    LET rows == Usage(KeptAdmissions(now), who, res, now)
    IN IF limit > 0 /\ Cardinality(rows) > limit THEN now + AgesOut(rows, limit, now)
       ELSE MinOf({a.at : a \in rows}) + Hour

Extended(old, until) == MaxOf({old, until})

Hold(now, delay) ==
    /\ Extra
    /\ \/ /\ cooldown' = Extended(cooldown, now + delay)
          /\ UNCHANGED holds
       \/ /\ \E r \in Resources : holds' = [holds EXCEPT ![r] = Extended(@, now + delay)]
          /\ UNCHANGED cooldown
    /\ UNCHANGED <<clock, leases, admissions, policies, nextAdmission, claims, issued, calling>>

Next ==
    \/ Tick
    \/ \E now \in Recent :
         \/ \E req \in Requests : Refuse(req, now) \/ Grant(req, now)
         \/ \E id \in calling : Renew(id, now)
         \/ \E delay \in Delays : Hold(now, delay)
         \/ Report(now)
    \/ \E id \in calling : Release(id) \/ Reconcile(id)

Spec == Init /\ [][Next]_vars

-----------------------------------------------------------------------------
(* Properties.                                                             *)

\* No minute that ends with an admission holds more admissions than the
\* strictest policy among the consumers admitted in it allows, though commands
\* commit late and other consumers have wider policies.
MinuteBefore(b) == {a \in admissions : b.at - Minute < a.at /\ a.at <= b.at}
RateHeld ==
    \A b \in admissions : \A a \in MinuteBefore(b) : Cardinality(MinuteBefore(b)) <= Rpm[a.who]

\* No rolling hour of an actor holds more billable responses than its ceiling
\* for that pool, whatever was forgiven, cleaned up or stamped late.  The wait
\* that an exhausted actor is told is exact, whatever ceiling it asks with: it is
\* still over it one unit before, and under it at the end, which is the moment
\* that a report gives too.
CeilingHeld ==
    /\ \A who \in Consumers, res \in Resources :
         Ceiling[who][res] > 0 =>
           \A a \in Usage(admissions, who, res, clock) :
             Cardinality({b \in Usage(admissions, who, res, a.at) : b.at <= a.at}) <= Ceiling[who][res]
    /\ \A who \in Consumers, res \in Resources, limit \in 1..MaxIssued :
         LET wait == ActorHold(who, res, limit, clock)
             used(t) == Cardinality(Usage(admissions, who, res, t))
         IN wait > 0 => /\ used(clock + wait - 1) >= limit
                        /\ used(clock + wait) < limit
                        /\ ResetAt(who, res, limit, clock) = clock + wait

\* No request is admitted to a resource that is held by the clock on the
\* wall, though the command that admits it read the clock earlier; and a hold
\* only ends when its time has come.
HoldRespected ==
    [][ /\ \A a \in admissions' \ admissions : \A r \in Resources :
             (a.id = issued' /\ issued' > issued /\ a.res \in {r, Unknown}) => holds[r] <= clock
        /\ \A r \in Resources : holds'[r] < holds[r] => holds[r] <= clock ]_vars

\* The claim of the caller that fetches a shared read is lost only by its own
\* release, by its own deadline, or to a follower that gave up waiting.
ClaimHeld ==
    [][ \A c \in claims \ claims' :
          \/ c.until <= clock
          \/ c.id \in calling \ calling'
          \/ \E req \in Requests : req.ignoreClaim /\ req.key = c.key /\ issued' = issued + 1 ]_vars
=============================================================================
