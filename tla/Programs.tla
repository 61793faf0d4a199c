------------------------------ MODULE Programs ------------------------------
(***************************************************************************)
(* Fourteen of the programs around the daemon that do not meet each other:  *)
(* the budget broker's ledger, its batches and its write-ahead log, what    *)
(* ends an agent's processes, what starts a relay and sweeps up after it,   *)
(* the build gate's reaper and scan, a commit's CI run, the collector of    *)
(* progress estimates, the validator of a build order's amendment, and the  *)
(* newsletter's daily run, its snapshot and two kinds of its figures.       *)
(* A behaviour is one of a single program, `tool`.                          *)
(***************************************************************************)
EXTENDS Naturals

CONSTANTS
  None,
  Brokers, Resident, Version, Columns, Created, Absent, MaxRows,
  Commands, Identities, Tokens, Ident, Token, NoLedger, MaxBatch, MaxCrashes, MaxFailures,
  FrameLimit, Stale, Retry, MaxBatches, MaxDeaths, MaxAge,
  Pids, Root, Child, MaxBirths,
  AgentProcesses, Relay, AgentProvider, Tool, Rounds,
  Relays, Numbers, Day, MaxUptime,
  GateBuilds, Slots, Visible, Grace, CandidateLimit, DetailLimit, MaxGateTime,
  Runs, Hand, West, DayTicks, MaxTime,
  Events, Classifications, Tests, Changed, KnownFlaky, BaseQuarantine, Quarantine, BaseRuns, PartitionRuns, Dated,
  FixedDates, Suites, Bodies, CreatedAt, Activated, HeadSha, Parents, Contribution,
  FullRuns, ReducedRuns, FullLimit, MaxFiles, MaxModules, Budget, MaxPolls, GateTicks, MaxAttempts, MaxEdits,
  Collectors, Nobody, Estimators, Estimates, OldOutput, MaxEstimates, MaxKills,
  Members, Epic, Skill, ExpectedLanes, Individuals, Baseline, Policy, PolicyAuthority, PolicyDocument, TrustedRef,
  Published, Candidates, GithubEdits, MaxGithubEdits,
  Configured, PhaseLabels, Planned, ClassOf, PullRequests, ClosedBy, Cursors, Lives, RequestCeiling, PointBudget,
  IssueBatch, FreshFor, LaneOf, MobileTickets,
  Merges, MergeCloses, Unstamped, Deployed, Features

VARIABLES
  tool,
  columns, stamp, trigger, broker_rows, writer, broker_pc, broker_seen, read, prepared, draft,
  bind, session_rows, session_work, key, asked, inbox, batch, pos, session_phase, late, replies, session_told,
  crashes, failures,
  frames, copied, others, wal_queue, active, worker, wal_told, observed, success, wal_attempt, main, batches,
  wal_moved, quiet, deaths, wal_clock,
  mode, live, births, kin, reap_pc, reap_todo, table, fd, fds, signalled,
  alive, parent, session, unborn, spare, tree_pc, tree_todo, found, kept, round, tree_moved,
  start_stage, number, dir, start_todo, doomed, start_clock,
  gate_clock, files, owner, gate_lock, gate_queue, gate_phase, holder, slot, reaper, gate_report,
  daily_clock, out, latest, marked, daily_lock, daily_pc, now, dry, daily_report, wakes, cut, alone,
  event, outputs, results, soak, partition, ci_attempt, records, flakes, gate, body, check, helper, ci_edits,
  transcripts, publications, output, progress_lock, progress_pc, left, unread, samples, outcomes, progress_told,
  appended, kills,
  candidate, issues, subissues, blockers, comments, amendment_pc, first_read, second_read, errors, between,
  amendment_edits,
  collect_stage, collect_todo, collect_seen, daemons, units, class_counts, calls, used, cost, cost_known, spent,
  daemon_listed,
  today, yesterday,
  merges, merges_old, merges_gone, deployed_build, ancestry, unanswering, completed_tickets, verified

-----------------------------------------------------------------------------
(* The budget's broker: the ledger it opens, its batches, its log.          *)

Broker == INSTANCE BrokerLedger WITH rows <- broker_rows, pc <- broker_pc, seen <- broker_seen

Session == INSTANCE BudgetSession WITH
  rows <- session_rows, work <- session_work, phase <- session_phase, told <- session_told,
  Requests <- Commands, Ids <- Identities

Wal == INSTANCE WalCheckpoint WITH
  queue <- wal_queue, told <- wal_told, attempt <- wal_attempt, moved <- wal_moved, clock <- wal_clock,
  MaxTime <- MaxAge

(* What ends processes, and what sweeps up after them.                      *)

Reap == INSTANCE PidfdReap WITH pc <- reap_pc, todo <- reap_todo

Tree == INSTANCE RelayTree WITH
  pc <- tree_pc, todo <- tree_todo, moved <- tree_moved,
  Processes <- AgentProcesses, Provider <- AgentProvider

Start == INSTANCE RelayStart WITH
  stage <- start_stage, todo <- start_todo, clock <- start_clock, MaxTime <- MaxUptime

Gate == INSTANCE GateReaper WITH
  clock <- gate_clock, lock <- gate_lock, queue <- gate_queue, phase <- gate_phase, report <- gate_report,
  Builds <- GateBuilds, MaxTime <- MaxGateTime

(* The newsletter's run.                                                    *)

Daily == INSTANCE NewsletterRun WITH
  clock <- daily_clock, lock <- daily_lock, pc <- daily_pc, report <- daily_report

(* A commit's CI run.                                                       *)

Ci == INSTANCE CiRun WITH attempt <- ci_attempt, edits <- ci_edits, Registrations <- Suites

(* Progress of agents.                                                      *)

Progress == INSTANCE ProgressCapture WITH
  lock <- progress_lock, pc <- progress_pc, told <- progress_told,
  Tickets <- Estimators, Rows <- Estimates, MaxRows <- MaxEstimates

(* The amendment of a build order.                                          *)

Amendment == INSTANCE ExecutionAmendment WITH
  pc <- amendment_pc, first <- first_read, second <- second_read, edits <- amendment_edits,
  Root <- Epic, Edits <- GithubEdits, MaxEdits <- MaxGithubEdits

(* The newsletter's snapshot, and the figures that are computed from it.     *)

Collect == INSTANCE NewsletterCollect WITH
  stage <- collect_stage, todo <- collect_todo, seen <- collect_seen, counts <- class_counts, whole <- cost_known,
  listed <- daemon_listed,
  Daemons <- Configured, Labels <- PhaseLabels, Tickets <- Planned, Class <- ClassOf, Prs <- PullRequests,
  Issue <- ClosedBy, Batch <- IssueBatch, MaxAge <- FreshFor

Program == INSTANCE NewsletterProgram WITH
  ticket <- today, Tickets <- Planned, Lane <- LaneOf, Mobile <- MobileTickets

Live == INSTANCE NewsletterLive WITH
  merged <- merges, old <- merges_old, gone <- merges_gone, build <- deployed_build, away <- unanswering,
  completed <- completed_tickets, Issue <- MergeCloses, Daemons <- Deployed

(* The constants are as each program needs them.                            *)
ASSUME ProgramsAssumption ==
  /\ Broker!LedgerAssumption /\ Session!SessionAssumption /\ Wal!CheckpointAssumption
  /\ Reap!ReapAssumption /\ Tree!TreeAssumption /\ Start!StartAssumption /\ Gate!ReaperAssumption
  /\ Daily!RunAssumption /\ Ci!CiAssumption /\ Progress!ProgressAssumption
  /\ Amendment!AmendmentAssumption /\ Collect!CollectAssumption /\ Program!ProgramAssumption /\ Live!LiveAssumption

-----------------------------------------------------------------------------
Kinds ==
  {"broker", "session", "wal", "reap", "tree", "start", "gate", "daily", "ci", "progress", "amendment", "collect",
   "program", "live"}

(* The state of a program that does not run is None.                        *)
Started ==
  /\ IF tool = "broker" THEN Broker!Init
     ELSE columns = None /\ stamp = None /\ trigger = None /\ broker_rows = None /\ writer = None
          /\ broker_pc = None /\ broker_seen = None /\ read = None /\ prepared = None /\ draft = None
  /\ IF tool = "session" THEN Session!Init
     ELSE bind = None /\ session_rows = None /\ session_work = None /\ key = None /\ asked = None
          /\ inbox = None /\ batch = None /\ pos = None /\ session_phase = None /\ late = None
          /\ replies = None /\ session_told = None /\ crashes = None /\ failures = None
  /\ IF tool = "wal" THEN Wal!Init
     ELSE frames = None /\ copied = None /\ others = None /\ wal_queue = None /\ active = None
          /\ worker = None /\ wal_told = None /\ observed = None /\ success = None /\ wal_attempt = None
          /\ main = None /\ batches = None /\ wal_moved = None /\ quiet = None /\ deaths = None
          /\ wal_clock = None
  /\ IF tool = "reap" THEN Reap!Init
     ELSE mode = None /\ live = None /\ births = None /\ kin = None /\ reap_pc = None /\ reap_todo = None
          /\ table = None /\ fd = None /\ fds = None /\ signalled = None
  /\ IF tool = "tree" THEN Tree!Init
     ELSE alive = None /\ parent = None /\ session = None /\ unborn = None /\ spare = None /\ tree_pc = None
          /\ tree_todo = None /\ found = None /\ kept = None /\ round = None /\ tree_moved = None
  /\ IF tool = "start" THEN Start!Init
     ELSE start_stage = None /\ number = None /\ dir = None /\ start_todo = None /\ doomed = None
          /\ start_clock = None
  /\ IF tool = "gate" THEN Gate!Init
     ELSE gate_clock = None /\ files = None /\ owner = None /\ gate_lock = None /\ gate_queue = None
          /\ gate_phase = None /\ holder = None /\ slot = None /\ reaper = None /\ gate_report = None
  /\ IF tool = "daily" THEN Daily!Init
     ELSE daily_clock = None /\ out = None /\ latest = None /\ marked = None /\ daily_lock = None
          /\ daily_pc = None /\ now = None /\ dry = None /\ daily_report = None /\ wakes = None /\ cut = None
          /\ alone = None
  /\ IF tool = "ci" THEN Ci!Init
     ELSE event = None /\ outputs = None /\ results = None /\ soak = None /\ partition = None
          /\ ci_attempt = None /\ records = None /\ flakes = None /\ gate = None /\ body = None
          /\ check = None /\ helper = None /\ ci_edits = None
  /\ IF tool = "progress" THEN Progress!Init
     ELSE transcripts = None /\ publications = None /\ output = None /\ progress_lock = None
          /\ progress_pc = None /\ left = None /\ unread = None /\ samples = None /\ outcomes = None
          /\ progress_told = None /\ appended = None /\ kills = None
  /\ IF tool = "amendment" THEN Amendment!Init
     ELSE candidate = None /\ issues = None /\ subissues = None /\ blockers = None /\ comments = None
          /\ amendment_pc = None /\ first_read = None /\ second_read = None /\ errors = None /\ between = None
          /\ amendment_edits = None
  /\ IF tool = "collect" THEN Collect!Init
     ELSE collect_stage = None /\ collect_todo = None /\ collect_seen = None /\ daemons = None /\ units = None
          /\ class_counts = None /\ calls = None /\ used = None /\ cost = None /\ cost_known = None /\ spent = None
          /\ daemon_listed = None
  /\ IF tool = "program" THEN Program!Init
     ELSE today = None /\ yesterday = None
  /\ IF tool = "live" THEN Live!Init
     ELSE merges = None /\ merges_old = None /\ merges_gone = None /\ deployed_build = None /\ ancestry = None
          /\ unanswering = None /\ completed_tickets = None /\ verified = None

Init == tool \in Kinds /\ Started

broker_vars ==
    <<columns, stamp, trigger, broker_rows, writer, broker_pc, broker_seen, read, prepared, draft>>
session_vars ==
    <<bind, session_rows, session_work, key, asked, inbox, batch, pos, session_phase, late, replies, session_told,
      crashes, failures>>
wal_vars ==
    <<frames, copied, others, wal_queue, active, worker, wal_told, observed, success, wal_attempt, main, batches,
      wal_moved, quiet, deaths, wal_clock>>
reap_vars ==
    <<mode, live, births, kin, reap_pc, reap_todo, table, fd, fds, signalled>>
tree_vars ==
    <<alive, parent, session, unborn, spare, tree_pc, tree_todo, found, kept, round, tree_moved>>
start_vars ==
    <<start_stage, number, dir, start_todo, doomed, start_clock>>
gate_vars ==
    <<gate_clock, files, owner, gate_lock, gate_queue, gate_phase, holder, slot, reaper, gate_report>>
daily_vars ==
    <<daily_clock, out, latest, marked, daily_lock, daily_pc, now, dry, daily_report, wakes, cut, alone>>
ci_vars ==
    <<event, outputs, results, soak, partition, ci_attempt, records, flakes, gate, body, check, helper, ci_edits>>
progress_vars ==
    <<transcripts, publications, output, progress_lock, progress_pc, left, unread, samples, outcomes, progress_told,
      appended, kills>>
amendment_vars ==
    <<candidate, issues, subissues, blockers, comments, amendment_pc, first_read, second_read, errors, between,
      amendment_edits>>
collect_vars ==
    <<collect_stage, collect_todo, collect_seen, daemons, units, class_counts, calls, used, cost, cost_known, spent,
      daemon_listed>>
program_vars ==
    <<today, yesterday>>
live_vars ==
    <<merges, merges_old, merges_gone, deployed_build, ancestry, unanswering, completed_tickets, verified>>
vars ==
  <<tool, broker_vars, session_vars, wal_vars, reap_vars, tree_vars, start_vars, gate_vars, daily_vars, ci_vars,
    progress_vars, amendment_vars, collect_vars, program_vars, live_vars>>

Only(t) == tool = t /\ tool' = t

Step ==
  \/ Only("broker") /\ Broker!Next
  \/ Only("session") /\ Session!Next
  \/ Only("wal") /\ Wal!Next
  \/ Only("reap") /\ Reap!Next
  \/ Only("tree") /\ Tree!Next
  \/ Only("start") /\ Start!Next
  \/ Only("gate") /\ Gate!Next
  \/ Only("daily") /\ Daily!Next
  \/ Only("ci") /\ Ci!Next
  \/ Only("progress") /\ Progress!Next
  \/ Only("amendment") /\ Amendment!Next
  \/ Only("collect") /\ Collect!Next
  \/ Only("program") /\ Program!Next
  \/ Only("live") /\ Live!Next

OthersStay ==
  /\ IF tool = "broker" THEN TRUE ELSE UNCHANGED broker_vars
  /\ IF tool = "session" THEN TRUE ELSE UNCHANGED session_vars
  /\ IF tool = "wal" THEN TRUE ELSE UNCHANGED wal_vars
  /\ IF tool = "reap" THEN TRUE ELSE UNCHANGED reap_vars
  /\ IF tool = "tree" THEN TRUE ELSE UNCHANGED tree_vars
  /\ IF tool = "start" THEN TRUE ELSE UNCHANGED start_vars
  /\ IF tool = "gate" THEN TRUE ELSE UNCHANGED gate_vars
  /\ IF tool = "daily" THEN TRUE ELSE UNCHANGED daily_vars
  /\ IF tool = "ci" THEN TRUE ELSE UNCHANGED ci_vars
  /\ IF tool = "progress" THEN TRUE ELSE UNCHANGED progress_vars
  /\ IF tool = "amendment" THEN TRUE ELSE UNCHANGED amendment_vars
  /\ IF tool = "collect" THEN TRUE ELSE UNCHANGED collect_vars
  /\ IF tool = "program" THEN TRUE ELSE UNCHANGED program_vars
  /\ IF tool = "live" THEN TRUE ELSE UNCHANGED live_vars

Next == Step /\ OthersStay

Spec == Init /\ [][Next]_vars

-----------------------------------------------------------------------------
(* What each program promises; its own module says it in full.              *)

\* A fleet of brokers opens a cold ledger (00_schema.py), and no row is written
\* before the ledger refuses the brokers that could not honour it, nor by a
\* resident one after a newer one stamped it.
LedgerStaysUsable ==
  /\ [](tool = "broker" => Broker!ColdStartOpens /\ Broker!WritersPrepare)
  /\ [][tool = "broker" => Broker!ResidentsDefer]_vars

\* What a broker answers about a command in a batch (run_transaction) is what
\* the database says, and in the ledger of the credential's own.
AnswersAreTrue == tool = "session" => Session!AnswersAreTrue

\* The write-ahead log is copied back (recover_checkpoint_if_needed) whenever
\* the thread for it dies.
LogIsCopied == tool = "wal" => Wal!LogIsCopied

\* Neither of the two programs that end an agent's processes (pidfd_reap.py,
\* kill_descendants) ends one that it was not to end, and the second leaves
\* nothing that it could see; and a relay that runs keeps its directory and its
\* manifest (sweep_dead_relays).
TheLivingAreSpared ==
  /\ [](tool = "reap" => Reap!SignalsStayInside)
  /\ [](tool = "tree" => Tree!NothingSeenIsLeft)
  /\ [][tool = "tree" => Tree!SparesTheProvider]_vars
  /\ [](tool = "start" => Start!RunningKeepsFiles)

\* The gate's reaper (build_gate_reaper.py) unlinks no handshake in use, and a
\* scan (files.py) that is not called degraded has counted everybody.
GateFilesAreRight == [][tool = "gate" => Gate!KeepsHandshakes /\ Gate!CountsAll]_vars

\* The Executor is woken once for a newsletter's date (daily.py), with the files
\* of one build.
OneWakePerDate ==
  [](tool = "daily" => Daily!WokenOnce) /\ [][tool = "daily" => Daily!NamesOneBuild]_vars

\* A gate that has passed (ci-flake-retry.py, ci-gate scripts) was earned, and
\* one that failed does not stay when nothing speaks against the commit.
GateIsRight == tool = "ci" => Ci!GreenIsEarned /\ Ci!NeverStuck

\* Progress that was collected (capture_progress_estimates.py) stays in the
\* output.
NothingForgotten == tool = "progress" => Progress!NothingForgotten

\* An amendment that is accepted (execution_amendment_live.py) was in force, as
\* a whole, while it was read.
AcceptedWasInForce == tool = "amendment" => Amendment!AcceptedWasInForce

\* The newsletter's snapshot (collect.py, github.py) stays within its budget and
\* counts a daemon's tickets when its answer was whole; and the figures that are
\* computed from it are the ones of their evidence, or are not given: the state
\* and scope of the program (metric_program.py), live and verified merges
\* (metric_evidence.py).
NewsletterIsTrue ==
  /\ tool = "collect" => Collect!PointsHeld /\ Collect!LifecyclesAreWhole /\ Collect!AllOrNoCounts
  /\ tool = "program" => Program!StatesAddUp /\ Program!ScopeAccounts /\ Program!FinishedIsNew
  /\ tool = "live" => Live!LiveIsProven /\ Live!VerifiedIsProven
=============================================================================
