--------------------------------- MODULE CiRun ---------------------------------
(***************************************************************************)
(* One CI run of a commit (scripts/: ci-soak.py, run-ci-affected-tests.py, *)
(* check-test-time-bombs.py, run-quarantined-tests.py, ci-flake-retry.py,  *)
(* record-coverage-flakes.py, check-pr-body.py, check-pr-body-check-run.py,*)
(* check-ci-gate.py, rerun-failed-ci-gate.py).  The jobs end, the gate     *)
(* judges them and the check of the pull request's text; that check is     *)
(* another workflow, restarted by every edit of the text, and re-runs a    *)
(* gate that came too early.  A failed coverage partition may be forgiven  *)
(* once, when all that failed in it is known to be flaky.                  *)
(*                                                                         *)
(* The jobs share nothing but their results, so they are taken in order.   *)
(***************************************************************************)
EXTENDS Integers, Sequences, FiniteSets, Functions

CONSTANTS
    None, Events,
    Classifications,    \* what the commit may be: [full, dialyzer, browser]
    Tests,              \* [test -> [module, name, path]]; paths are numbers
    Changed,            \* the paths that the commit changes
    KnownFlaky, BaseQuarantine, Quarantine, \* the base's lists, and the commit's own quarantine
    BaseRuns,           \* runs of the base branch: [age in hours, conclusion, failed]
    PartitionRuns,      \* [status, failed, unreadable, setup]
    Dated, FixedDates,  \* test files with a date, and those exempt
    Registrations,      \* the browser suites that run a changed spec: [spec, seconds]
    Bodies,             \* texts: [kind, declared, closes, tested, lint]
    CreatedAt, Activated, HeadSha, Parents, Contribution,
    FullRuns, ReducedRuns, FullLimit, MaxFiles,     \* of a soak
    MaxModules, Budget, MaxPolls, GateTicks,
    MaxAttempts, MaxEdits   \* bounds

\* A gate runs for two minutes at most, a helper waits for three.
CiAssumption ==
  /\ GateTicks \in Nat /\ MaxPolls \in Nat /\ GateTicks < MaxPolls
  /\ None \notin {"success", "failure", "skipped"}

VARIABLES
    event,          \* what the run is for: a pull request or a merge group
    outputs,        \* of the job that classifies the commit
    results,        \* [job -> its result, None while it runs]
    soak,           \* [runs still to do, time taken]
    partition,      \* the coverage partition: [status, log, plan, again]
    attempt,
    records, flakes,    \* the artifacts of the earlier attempts
    gate,           \* [status, result, ticks]
    body, check,    \* the text, and its newest check [id, result]
    helper,         \* the job that re-runs the gate: [state, polls]
    edits

jobs == <<outputs, results, soak, partition, records, flakes>>
text == <<event, body, check, helper, edits>>
vars == <<jobs, attempt, gate, text>>

Ids == DOMAIN Tests
PathsOf(ids) == {Tests[t].path : t \in ids}
Files == PathsOf(Ids)

-----------------------------------------------------------------------------
(* check-ci-gate.py, and which jobs GitHub starts.                         *)

PullRequest == event = "pull_request"
RequiredJobs(full, dialyzer, browser) ==
    {"changes", "workflow-security", "pre-handoff", "lint"}
    \cup (IF PullRequest THEN {"soak"} ELSE {})
    \cup (IF full THEN {"build", "coverage-partition", "test", "dialyzer", "layout-release", "analytics", "streamdeck"}
          ELSE {"affected-tests"})
    \cup (IF ~full /\ PullRequest /\ dialyzer THEN {"dialyzer"} ELSE {})
    \cup (IF browser \/ (full /\ ~PullRequest) THEN {"browser"} ELSE {})
    \cup (IF full /\ event = "merge_group" THEN {"affected-tests"} ELSE {})

Modelled == <<"changes", "lint", "soak", "affected-tests", "coverage-partition", "the others">>

-----------------------------------------------------------------------------
(* ci-flake-retry.py.  A log: the failed tests that can be read from it,   *)
(* the counts of its last summary (None if it has none), and whether a     *)
(* setup failed.                                                           *)

CompleteTestFailure(log, status) ==
    /\ status = 2 /\ log.failed # {} /\ ~log.setup /\ log.summary # None
    /\ log.summary = [failures |-> Cardinality(log.failed), invalid |-> 0]

Quarantined(list, t) == \E q \in list : q.module = Tests[t].module /\ q.name \in {"*", Tests[t].name}
Excusable(t) == t \in KnownFlaky \/ Quarantined(BaseQuarantine, t)
RetryCandidates(log, status) ==
    IF PullRequest /\ CompleteTestFailure(log, status) /\ PathsOf(log.failed) \cap Changed = {}
    THEN {t \in log.failed : ~Excusable(t)} ELSE {}

\* the runs of the base that could be read in time
RecentBaseFailures(targets, readable) ==
    IF targets = {} THEN {}
    ELSE UNION {r.failed : r \in {b \in readable : b.age \in 0..24 /\ b.conclusion = "failure"}}

-----------------------------------------------------------------------------
(* Plausible slips in the code below, each of which TLC must catch.        *)

\* a gate that runs is taken to read the check later
LaterReader(status) == status # "completed"

-----------------------------------------------------------------------------
RetryPlan(log, status, baseFailures) ==
    IF ~CompleteTestFailure(log, status) \/ ~PullRequest \/ PathsOf(log.failed) \cap Changed # {} THEN {}
    ELSE IF \A t \in log.failed : Excusable(t) \/ t \in baseFailures THEN log.failed ELSE {}

(* record-coverage-flakes.py: the failures of earlier attempts that this   *)
(* attempt clears.                                                         *)
Attempt(p) ==
    [attempt |-> attempt, outcome |-> IF p.status = 0 THEN "success" ELSE "failure",
     passed |-> p.status = 0, failures |-> p.log.failed, retried |-> p.plan]
Cleared(current, previous) ==
    LET open(prior) == ~\E r \in previous : r.passed /\ r.attempt > prior.attempt
    IN UNION {{[test |-> t, failed |-> prior.attempt, passed |-> current.attempt] : t \in prior.failures} :
                prior \in {r \in previous : current.passed /\ r.attempt < current.attempt
                                              /\ r.outcome = "failure" /\ open(r)}}
Retried(current) == {[test |-> t, failed |-> current.attempt, passed |-> current.attempt] : t \in current.retried}

-----------------------------------------------------------------------------
(* ci-soak.py, check-test-time-bombs.py, run-quarantined-tests.py.         *)

Repeats(count) == IF count = 0 \/ count > MaxFiles THEN 0 ELSE IF count <= FullLimit THEN FullRuns ELSE ReducedRuns
ChangedTests == Changed \cap Files
\* one command for each repetition of the tests, then the browser's, the shortest suite first
SoakPlan ==
    LET n == Repeats(Cardinality({r.spec : r \in Registrations}))
    IN [tests |-> Repeats(Cardinality(ChangedTests)), suites |-> IF n = 0 THEN {} ELSE Registrations,
        n |-> n, commands |-> 0, time |-> 0]
Shortest(suites) == CHOOSE r \in suites : \A other \in suites : r.seconds <= other.seconds

TimeBombs(requested) == (requested \cap Dated) \ FixedDates

Named(q) == {t \in Ids : Tests[t].name = q.name}
OfModule(q) == {t \in Ids : Tests[t].module = q.module}
QuarantineProblems ==
    {q \in Quarantine :
       \/ q.days > 14 /\ q \notin BaseQuarantine
       \/ IF q.name = "*" THEN OfModule(q) = {}
          ELSE Cardinality(Named(q)) # 1 \/ Named(q) \cap OfModule(q) = {}}

-----------------------------------------------------------------------------
(* check-pr-body.py.                                                       *)

Ancestors[c \in DOMAIN Parents] == {c} \cup UNION {Ancestors[p] : p \in Range(Parents[c])}
OnlyMergesAfter(tested) ==
    LET path == {c \in Ancestors[HeadSha] \ {tested} : tested \in Ancestors[c]}
    IN path # {} /\ \A c \in path : Len(Parents[c]) = 2
IdenticalContribution(tested) ==
    tested \in DOMAIN Parents /\ tested \in Ancestors[HeadSha] /\ OnlyMergesAfter(tested)
        /\ Contribution[tested] = Contribution[HeadSha]
EvidenceHead(b) == IF b.tested \notin {None, HeadSha} /\ IdenticalContribution(b.tested) THEN b.tested ELSE HeadSha
ClosingReferences(b) == b.kind \in {"part of", "refs"} => b.declared \notin b.closes
CheckEvidence(b) ==
    \/ Activated = None \/ CreatedAt <= Activated
    \/ ClosingReferences(b) /\ b.lint /\ b.tested = EvidenceHead(b)

-----------------------------------------------------------------------------
Waiting == [status |-> "absent", result |-> None, ticks |-> 0]
Idle == [state |-> "idle", polls |-> 0]
NoLog == [failed |-> {}, setup |-> FALSE, summary |-> None]
NoPartition == [status |-> None, log |-> NoLog, plan |-> {}, again |-> {}]

Init ==
    /\ event \in Events /\ outputs = None /\ results = [j \in Range(Modelled) |-> None]
    /\ soak = SoakPlan /\ partition = NoPartition /\ attempt = 1
    /\ records = {} /\ flakes = {} /\ gate = Waiting
    /\ body \in Bodies /\ check = [id |-> 1, result |-> None] /\ helper = Idle /\ edits = 0

\* a job runs while its result is missing, and its counters are its own
Turn(job) ==
    /\ results[job] = None
    /\ \A i, j \in DOMAIN Modelled : Modelled[j] = job /\ i < j => results[Modelled[i]] # None
End(job, ok) == results' = [results EXCEPT ![job] = IF ok THEN "success" ELSE "failure"]
Skipped(job) == results' = [results EXCEPT ![job] = "skipped"]
Full == outputs # None /\ outputs.full

Classify ==
    /\ Turn("changes")
    /\ \E o \in {None} \cup Classifications :
         /\ o # None => o.full \/ PullRequest
         /\ outputs' = o /\ End("changes", o # None)
    /\ UNCHANGED <<soak, partition, records, flakes, attempt, gate, text>>
Lint ==
    /\ Turn("lint") /\ End("lint", QuarantineProblems = {})
    /\ UNCHANGED <<outputs, soak, partition, records, flakes, attempt, gate, text>>

\* The soak: until something fails, all is done or the budget is used up.
NoSoak ==
    /\ Turn("soak") /\ (~PullRequest \/ outputs = None) /\ Skipped("soak")
    /\ UNCHANGED <<outputs, soak, partition, records, flakes, attempt, gate, text>>
Soaking == Turn("soak") /\ PullRequest /\ outputs # None
SoakTests(outcome, time) ==
    /\ Soaking /\ soak.tests > 0
    /\ IF soak.time >= Budget THEN soak' = [soak EXCEPT !.tests = 0, !.time = 0] /\ UNCHANGED results
       ELSE IF outcome # "passed" THEN End("soak", FALSE) /\ soak' = SoakPlan
       ELSE /\ soak' = IF soak.tests = 1 THEN [soak EXCEPT !.tests = 0, !.time = 0]
                       ELSE [soak EXCEPT !.tests = @ - 1, !.time = @ + time]
            /\ UNCHANGED results
    /\ UNCHANGED <<outputs, partition, records, flakes, attempt, gate, text>>
\* listed is None when the suite's tests could not be listed; too many are sampled
ListSuite(listed) ==
    /\ Soaking /\ soak.tests = 0 /\ soak.commands = 0 /\ soak.suites # {} /\ soak.time < Budget
    /\ LET skip == listed = 0 \/ (listed = 1 /\ Shortest(soak.suites).seconds * soak.n > Budget - soak.time)
       IN soak' = IF skip THEN [soak EXCEPT !.suites = @ \ {Shortest(@)}]
                  ELSE [soak EXCEPT !.commands = IF listed = 2 THEN soak.n ELSE 1]
    /\ UNCHANGED <<outputs, results, partition, records, flakes, attempt, gate, text>>
\* a suite that takes too long ends the soak, and is no failure
SoakSuite(outcome, time) ==
    /\ Soaking /\ soak.tests = 0 /\ soak.commands > 0 /\ soak.suites # {} /\ soak.time < Budget
    /\ IF outcome = "failed" THEN End("soak", FALSE) /\ soak' = SoakPlan
       ELSE IF outcome = "late" THEN soak' = [soak EXCEPT !.suites = {}] /\ UNCHANGED results
       ELSE /\ soak' = [soak EXCEPT !.commands = @ - 1, !.time = @ + time,
                          !.suites = IF soak.commands = 1 THEN @ \ {Shortest(@)} ELSE @]
            /\ UNCHANGED results
    /\ UNCHANGED <<outputs, partition, records, flakes, attempt, gate, text>>
SoakEnds ==
    /\ Soaking /\ soak.tests = 0 /\ (soak.suites = {} \/ soak.time >= Budget) /\ End("soak", TRUE)
    /\ soak' = SoakPlan /\ UNCHANGED <<outputs, partition, records, flakes, attempt, gate, text>>

\* The first changed modules alone, then the selected files, then those with
\* their dates moved.  A selection that is unsafe or too large is left to the
\* merge group; a merge group runs the changed files with moved dates only.
AffectedTests(kind, selected, failed, bombs, late) ==
    /\ Turn("affected-tests")
    /\ IF outputs = None \/ (Full /\ event # "merge_group") THEN Skipped("affected-tests")
       ELSE LET alone == {m \in ChangedTests : Cardinality({k \in ChangedTests : k < m}) < MaxModules}
            IN End("affected-tests",
                   /\ alone \cap failed = {}
                   /\ \/ kind = "none" \/ (kind = "deferred" /\ PullRequest)
                      \/ event = "merge_group" /\ (late \/ TimeBombs(ChangedTests) \cap bombs = {})
                      \/ PullRequest /\ ~late /\ selected \cap failed = {} /\ TimeBombs(selected) \cap bombs = {})
    /\ UNCHANGED <<outputs, soak, partition, records, flakes, attempt, gate, text>>

\* The partition leaves a log; quarantined tests do not run.
NoPartitionJob ==
    /\ Turn("coverage-partition") /\ ~Full /\ Skipped("coverage-partition")
    /\ UNCHANGED <<outputs, soak, partition, records, flakes, attempt, gate, text>>
RunPartition(run) ==
    /\ Turn("coverage-partition") /\ Full /\ partition.status = None
    /\ \A t \in run.failed : ~Quarantined(Quarantine, t)
    /\ partition' = [partition EXCEPT !.status = run.status,
         !.log = [failed |-> run.failed \ run.unreadable, setup |-> run.setup,
                  summary |-> IF run.status = 124 THEN None
                              ELSE [failures |-> Cardinality(run.failed), invalid |-> IF run.setup THEN 1 ELSE 0]]]
    /\ UNCHANGED <<outputs, results, soak, records, flakes, attempt, gate, text>>
PartitionEnds(readable, again, kept) ==
    /\ Turn("coverage-partition") /\ partition.status # None
    /\ LET uncovered == RetryCandidates(partition.log, partition.status)
           plan == IF partition.status = 0 THEN {}
                   ELSE RetryPlan(partition.log, partition.status, RecentBaseFailures(uncovered, readable))
           p == [partition EXCEPT !.plan = plan, !.again = again]
           current == Attempt(p)
       IN /\ again \subseteq plan
          /\ partition' = p
          /\ End("coverage-partition", p.status = 0 \/ (plan # {} /\ again = {}))
          /\ records' = records \cup {current}
          /\ flakes' = flakes \cup Retried(current) \cup (IF kept THEN Cleared(current, records) ELSE {})
    /\ UNCHANGED <<outputs, soak, attempt, gate, text>>
OtherJobs(ok) ==
    /\ Turn("the others") /\ End("the others", ok)
    /\ UNCHANGED <<outputs, soak, partition, records, flakes, attempt, gate, text>>

-----------------------------------------------------------------------------
(* The gate: the text's check first, then the jobs.                        *)

ResultOf(job) == IF job \in DOMAIN results THEN results[job] ELSE results["the others"]
JobsPassed ==
    outputs # None /\ \A j \in RequiredJobs(outputs.full, outputs.dialyzer, outputs.browser) : ResultOf(j) = "success"
Ended(ok) == gate' = [gate EXCEPT !.status = "completed", !.result = IF ok THEN "success" ELSE "failure"]

GateQueued ==
    /\ gate.status = "absent" /\ \A j \in DOMAIN results : results[j] # None
    /\ gate' = [gate EXCEPT !.status = "queued"] /\ UNCHANGED <<jobs, attempt, text>>
GateStarts ==
    /\ gate.status = "queued" /\ gate' = [Waiting EXCEPT !.status = "reading"]
    /\ UNCHANGED <<jobs, attempt, text>>
GateReads ==
    /\ gate.status = "reading"
    /\ IF PullRequest /\ check.result # "success" THEN gate' = [gate EXCEPT !.status = "failing"]
       ELSE gate' = [gate EXCEPT !.status = "judging"]
    /\ UNCHANGED <<jobs, attempt, text>>
GateEnds ==
    /\ gate.status \in {"judging", "failing"} /\ Ended(gate.status = "judging" /\ JobsPassed)
    /\ UNCHANGED <<jobs, attempt, text>>

\* someone re-runs the failed jobs, and with them the gate
RerunFailed ==
    /\ gate.status = "completed" /\ gate.result = "failure" /\ attempt < MaxAttempts
    /\ attempt' = attempt + 1 /\ gate' = Waiting
    /\ results' = [j \in DOMAIN results |-> IF results[j] = "failure" THEN None ELSE results[j]]
    /\ partition' = IF results["coverage-partition"] = "failure" THEN NoPartition ELSE partition
    /\ UNCHANGED <<outputs, soak, records, flakes, text>>

-----------------------------------------------------------------------------
(* The text, its check, and the re-run of a gate that was too early.       *)

EditBody(b) ==
    /\ PullRequest /\ edits < MaxEdits /\ b # body /\ edits' = edits + 1
    /\ body' = b /\ check' = [id |-> check.id + 1, result |-> None] /\ helper' = Idle
    /\ UNCHANGED <<jobs, attempt, gate, event>>
BodyChecked ==
    /\ PullRequest /\ check.result = None
    /\ check' = [check EXCEPT !.result = IF CheckEvidence(body) THEN "success" ELSE "failure"]
    /\ helper' = IF CheckEvidence(body) THEN [state |-> "polling", polls |-> 0] ELSE Idle
    /\ UNCHANGED <<jobs, attempt, gate, event, body, edits>>

ReadsLater(status) == status \in {"absent", "queued"}
Running(status) == status \in {"reading", "judging", "failing"}
HelperPolls ==
    /\ helper.state = "polling"
    /\ IF ReadsLater(gate.status) THEN helper' = Idle /\ UNCHANGED gate
       ELSE IF Running(gate.status)
       THEN /\ gate.ticks < GateTicks /\ gate' = [gate EXCEPT !.ticks = @ + 1]
            /\ helper' = IF helper.polls + 1 = MaxPolls THEN Idle ELSE [helper EXCEPT !.polls = @ + 1]
       ELSE helper' = (IF gate.result = "failure" THEN [helper EXCEPT !.state = "rerun"] ELSE Idle) /\ UNCHANGED gate
    /\ UNCHANGED <<jobs, attempt, event, body, check, edits>>
\* GitHub refuses to re-run a job of a run that is under way again
HelperReruns ==
    /\ helper.state = "rerun" /\ helper' = Idle
    /\ gate' = IF gate.status = "completed" THEN [Waiting EXCEPT !.status = "queued"] ELSE gate
    /\ UNCHANGED <<jobs, attempt, event, body, check, edits>>

Next ==
    \/ Classify \/ Lint \/ NoSoak \/ SoakEnds \/ NoPartitionJob
    \/ \E outcome \in {"passed", "failed", "late"}, time \in 1..2 : SoakTests(outcome, time) \/ SoakSuite(outcome, time)
    \/ \E listed \in {None, 0, 1, 2} : ListSuite(listed)
    \/ \E kind \in {"none", "deferred", "run"}, selected, failed \in SUBSET Files, bombs \in SUBSET Dated, late \in BOOLEAN :
         AffectedTests(kind, selected, failed, bombs, late)
    \/ \E run \in PartitionRuns : RunPartition(run)
    \/ \E readable \in SUBSET BaseRuns, again \in SUBSET Ids, kept \in BOOLEAN : PartitionEnds(readable, again, kept)
    \/ \E ok \in BOOLEAN : OtherJobs(ok)
    \/ GateQueued \/ GateStarts \/ GateReads \/ GateEnds \/ RerunFailed
    \/ BodyChecked \/ HelperPolls \/ HelperReruns
    \/ \E b \in Bodies : EditBody(b)

Spec == Init /\ [][Next]_vars

-----------------------------------------------------------------------------
(* Properties.                                                             *)

\* A gate that has passed was earned, whatever was re-run: the commit's text had
\* a check that succeeded, and if the coverage partition counts, every test that
\* failed in it was run again and passed, was flaky before this commit, by the
\* base's own lists and runs, and is in no file that the commit changes; nothing
\* else went wrong in that partition; and a merge group has no such excuse.
GreenIsEarned ==
    gate.result = "success" /\ Full =>
      /\ PullRequest => check.result = "success" \/ edits > 0
      /\ partition.status # 0 =>
           /\ PullRequest /\ partition.status = 2 /\ ~partition.log.setup
           /\ partition.log.failed = partition.plan /\ partition.again = {}
           /\ partition.log.summary.failures = Cardinality(partition.plan)
           /\ \A t \in partition.plan :
                /\ Tests[t].path \notin Changed
                /\ \/ t \in KnownFlaky \/ Quarantined(BaseQuarantine, t)
                   \/ \E r \in BaseRuns : r.conclusion = "failure" /\ t \in r.failed

\* A pull request is never left behind with a failed gate: once the check of its
\* text has succeeded, the last gate has ended and no helper is on its way, a
\* failed gate means that one of its jobs failed.  It holds although the gate may
\* have read the check just before it succeeded, and the text is edited meanwhile.
NeverStuck ==
    PullRequest /\ gate.status = "completed" /\ gate.result = "failure"
      /\ check.result = "success" /\ helper.state = "idle" => ~JobsPassed
=============================================================================
