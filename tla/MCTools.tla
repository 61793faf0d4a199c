------------------------------- MODULE MCTools -------------------------------
(***************************************************************************)
(* The programs around the daemon that do not meet each other, each in a    *)
(* small instance: what the analytics, the budget's broker, the relay's     *)
(* helpers, the build gate's reaper, the build order's and the CI's scripts *)
(* and the newsletter do.  A behaviour is one of a single program, `tool`.  *)
(***************************************************************************)
EXTENDS Programs, Sequences, SequencesExt, FiniteSets, TLC

CONSTANTS c1, c2

VARIABLES
  streams, written, timeline, cursor, disk, ledger_history, ledger_work, checkpoint, upsets,
  stream, report_boot, seq, ms, open, carried, report_history, report_rolls,
  agents_clock, up, agents_boot, heard, agents_log, turn, by, agents_told, agents_rolls, worked, idle,
  supply_clock, supply_log

-----------------------------------------------------------------------------
(* The ticket ledger: one dispatch that waits for another ticket's merge,   *)
(* the repository's context before and after a change of version, and a     *)
(* line that cannot be read.                                                *)

Blank == [id |-> 0, wellFormed |-> TRUE, dated |-> TRUE, identified |-> TRUE, valid |-> TRUE,
  kind |-> "lifecycle", boot |-> 1, ms |-> 0, ticket |-> None, event |-> None, key |-> <<>>, attempt |-> 1,
  boundary |-> "point", from |-> None, to |-> None, outcome |-> None, blockers |-> {}, retry |-> 0, facts |-> <<>>,
  repo |-> None, vsn |-> "v1"]
Lines ==
  { [Blank EXCEPT !.id = 1, !.kind = "run_context", !.repo = "own", !.ms = 1],
    [Blank EXCEPT !.id = 2, !.kind = "run_context", !.repo = "own", !.ms = 3, !.vsn = "v2"],
    [Blank EXCEPT !.id = 3, !.ticket = "t", !.event = "dispatch", !.ms = 4, !.blockers = {"b"}],
    [Blank EXCEPT !.id = 4, !.ticket = "b", !.event = "pr_merged", !.ms = 5],
    [Blank EXCEPT !.id = 5, !.wellFormed = FALSE] }
Facts == [id \in {"t", "b"} |-> [Blank EXCEPT !.id = 10, !.boot = 2, !.ticket = id, !.event = "pr_facts",
                                  !.ms = 9, !.facts = [merged_at |-> 6, merge_commit_sha |-> "sha"]]]

Ledger == INSTANCE TicketLedger WITH
  history <- ledger_history, work <- ledger_work,
  Tickets <- {"t", "b"}, Boots <- {1, 2}, Repo <- "own", Since <- 2, PrefixLines <- 1, Shas <- {"sha"},
  MaxText <- 3, MaxUpsets <- 1

(* The run report: one ticket's work, its dispatches, a process and a       *)
(* feature-supply interval, and a merge that GitHub tells.                  *)

Written == [kind |-> "lifecycle", ticket |-> 1, event |-> None, boundary |-> "point", attempt |-> 1,
  op |-> None, source |-> None, origin |-> None, outcome |-> None, cont |-> None, complexity |-> 0,
  backend |-> None, host |-> None, trigger |-> None, blockers |-> {}, evidence |-> None, nonff |-> None,
  head |-> None, actor |-> None, availability |-> None, cpu |-> None, fleet |-> None, build |-> None,
  from |-> 0, to |-> 0, rate |-> 0, key |-> <<>>]
Templates ==
  { [Written EXCEPT !.event = "implement", !.boundary = "start"],
    [Written EXCEPT !.event = "implement", !.boundary = "end"],
    [Written EXCEPT !.event = "dispatch", !.source = "dispatch", !.complexity = 3, !.backend = "codex"],
    [Written EXCEPT !.event = "optimistic_start", !.source = "optimistic_start", !.trigger = "pr", !.blockers = {2}],
    [Written EXCEPT !.event = "optimistic_outcome", !.source = "optimistic_outcome", !.outcome = "merged", !.head = 4],
    [Written EXCEPT !.kind = "resource", !.event = "daemon_restart", !.boundary = None, !.attempt = None,
                    !.actor = "agent-1", !.availability = "measured", !.cpu = 50],
    [Written EXCEPT !.kind = "feature_supply", !.ticket = None, !.event = "interval", !.boundary = None,
                    !.attempt = None, !.from = 1, !.to = 3, !.rate = 2] }

GithubEvents ==
  <<[event |-> "pr.merged", ms |-> 2, ticket |-> 1, id |-> "g1"], [event |-> "review", ms |-> None, ticket |-> 2, id |-> "g2"]>>

Report == INSTANCE RunReport WITH
  boot <- report_boot, history <- report_history, rolls <- report_rolls,
  Boots <- {1, 2}, Github <- 0, Members <- <<1, 2>>, Grace <- 2, Now <- 6, GapMs <- 1, SampleMs <- 2, DayMs <- 2,
  MaxRecords <- 4, MaxRolls <- 1

-----------------------------------------------------------------------------
(* An amendment that adds a lane's edge: as it should be, and with one      *)
(* thing wrong at a time.                                                   *)

Authority == [commit |-> "policy", document |-> "text"]
AmendmentPolicies == [policy |-> "text", other |-> "text2"]
AmendmentRef == <<"receipt", "policy", "amendment">>
AmendmentLanes == [l1 |-> <<1, 2>>]
AmendmentBaseline == [members |-> 1 .. 4, edges |-> {<<2, 1>>}]
Entry(s, r) == [title |-> "t", body |-> "b", labels |-> {<<"lane", "l1">>}, state |-> s, reason |-> r, locked |-> FALSE]
AmendmentIssues == [i \in 0 .. 5 |-> IF i = 4 THEN Entry("CLOSED", "completed") ELSE Entry("OPEN", None)]

Text == INSTANCE ExecutionAmendment WITH
  pc <- amendment_pc, first <- first_read, second <- second_read, edits <- amendment_edits,
  Root <- Epic, Candidates <- {}, Edits <- {}, MaxEdits <- 0

(* What a decision and the comments that publish it say. *)
Bare == [order |-> 0, plan |-> 1, receipt |-> "receipt", authority |-> Authority,
  baseline |-> AmendmentBaseline, policy |-> "develop", lanes |-> AmendmentLanes, affected |-> <<1, 2, 3>>,
  completed |-> <<4>>, authors |-> <<7>>, decision |-> None]
Decided(a) ==
  LET b == [a EXCEPT !.decision = Text!Decision(a)]
      comment(id, on) == [issue |-> id, comment |-> 100 + id, body |-> Text!Rendered(b, on), author |-> 7]
  IN b @@ [authorization |-> comment(0, 0), comments |-> [id \in ToSet(b.affected) |-> comment(id, id)]]
Good == [amendment |-> Decided(Bare), manifest |-> [i \in 1 .. 4 |-> [id |-> i, depends |-> IF i = 2 THEN <<1>> ELSE <<>>]],
  commit |-> "amendment", file |-> "as committed", policyFile |-> "as committed", publicationErrors |-> {}, live |-> TRUE]
AmendmentCandidates ==
  { Good, [Good EXCEPT !.live = FALSE], [Good EXCEPT !.file = "changed"],
    [Good EXCEPT !.amendment = Decided([Bare EXCEPT !.lanes = [l1 |-> <<1, 2>>, l2 |-> <<3>>]])],
    [Good EXCEPT !.amendment = Decided([Bare EXCEPT !.affected = <<1, 2, 3, 4>>, !.completed = <<>>])],
    [Good EXCEPT !.amendment.comments[2].author = 8], [Good EXCEPT !.amendment.authority.commit = "other"] }
Edit(issue, field, value) == [issue |-> issue, field |-> field, value |-> value]
AmendmentEdits ==
  { Edit(1, "state", "CLOSED"), Edit(1, "state", "OPEN"), Edit(4, "state", "OPEN"), Edit(4, "state", "CLOSED"),
    Edit(3, "comment", <<"owns", 2>>), Edit(2, "blocker", 1), Edit(2, "member", 1),
    Edit(3, "labels", {<<"agent", "todo">>, <<"lane", "l1">>}) }

(* Two collectors of progress; two tickets' transcripts. *)

Args(n, p) == [name |-> n, percent |-> p]
Row(t, at, id, args, ev, pub) == [ticket |-> t, time |-> at, call |-> id, args |-> args, event |-> ev, id |-> pub]
Sample == <<"call", 1, "z">>

ProgressRows ==
  { Row(1, 2, "a", <<Args("other", 5), Args("progress", 30)>>, None, None),
    Row(2, 3, None, <<Args("progress.checkin", 50)>>, None, None),
    Row(1, 4, "a", <<>>, "event_publication_completed", 9),
    Row(1, 5, "a", <<>>, "event_publication_failed", None) }
ProgressOutput ==
  Sample :> [id |-> Sample, version |-> 1, ticket |-> 1, time |-> 1, event |-> 4, call |-> "z", percent |-> 10,
             status |-> "emitted"]

(* The CI of one commit: 1 is the base, 2 main, 3 the branch's tested       *)
(* commit, 4 the merge of main into it.                                     *)

Closing(kind, closes) == [kind |-> kind, declared |-> 7, closes |-> closes, tested |-> 3, lint |-> TRUE]
Ran(status, failed, unreadable, setup) == [status |-> status, failed |-> failed, unreadable |-> unreadable, setup |-> setup]

CiTests == [t \in 1 .. 4 |-> [module |-> IF t = 3 THEN "B" ELSE "A", path |-> IF t = 3 THEN 11 ELSE 10,
                            name |-> <<"one", "two", "three", "four">>[t]]]
CiQuarantine == {[module |-> "A", name |-> "two", days |-> 20]}
CiBaseRuns ==
  { [age |-> 3, conclusion |-> "failure", failed |-> {1}], [age |-> 30, conclusion |-> "failure", failed |-> {3}] }
CiPartitionRuns == {Ran(0, {}, {}, FALSE), Ran(2, {3, 4}, {}, FALSE), Ran(2, {1, 4}, {4}, FALSE), Ran(2, {4}, {}, TRUE)}
CiClassifications ==
  { [full |-> TRUE, dialyzer |-> FALSE, browser |-> FALSE], [full |-> FALSE, dialyzer |-> TRUE, browser |-> TRUE] }
CiSuites == {[spec |-> 1, seconds |-> 1], [spec |-> 2, seconds |-> 3]}
CiBodies == {Closing("refs", {7}), Closing("closes", {7})}
CiParents == <<<<>>, <<1>>, <<1>>, <<3, 2>>>>
CiContribution == <<{}, {}, {"x"}, {"x"}>>

-----------------------------------------------------------------------------
(* The newsletter: the snapshot, and each of its figures.                   *)

NewsletterClasses == <<"feature", "tooling">>
NewsletterClosedBy == [p \in PullRequests |-> 1]
NewsletterLanes == <<"lane", "lane">>
NewsletterCloses == <<1, 2, None>>
NewsletterFeatures == [f \in {"feature"} |-> {1, 2}]

Agents == INSTANCE NewsletterTurns WITH
  clock <- agents_clock, boot <- agents_boot, log <- agents_log, told <- agents_told, rolls <- agents_rolls,
  Turns <- {"t"}, Class <- [t \in {"t"} |-> "feature"], Day <- 1, Week <- 2, Lookback <- 4, MaxTurn <- 2,
  MaxAge <- 0, MaxBoots <- 2, MaxRolls <- 1, MaxChanges <- 1, MaxTime <- 4

Supply == INSTANCE NewsletterSupply WITH
  clock <- supply_clock, log <- supply_log, Day <- 3, MaxGap <- 1, MaxAge <- 1, MaxValue <- 1, MaxRows <- 2, MaxTime <- 4

(* The constants above are as each program needs them.                      *)
ASSUME
  Agents!TurnsAssumption /\ Supply!SupplyAssumption

(* The functions of the fourteen programs of Programs in this instance: the   *)
(* version of each broker's code, the credential and the token of each      *)
(* request (two credentials present the same token and one of them again    *)
(* after it was rotated), and what each name space sees of the builds.      *)
Versions == [b \in Brokers |-> IF b = "new" THEN 2 ELSE 1]
Idents == [r \in Commands |-> IF r = "second" THEN "user" ELSE "app"]
Presented == [r \in Commands |-> IF r = "rotated" THEN "new" ELSE "old"]
Seen == [space \in {"host", "container"} |-> IF space = "host" THEN GateBuilds ELSE {}]

-----------------------------------------------------------------------------
Tools == Kinds \cup
  {"ledger", "report", "agents", "supply"}

(* The state of a program that does not run is None. *)
ToolsInit ==
  /\ tool \in Tools /\ Started
  /\ IF tool = "ledger" THEN Ledger!Init
     ELSE streams = None /\ written = None /\ timeline = None /\ cursor = None /\ disk = None
          /\ ledger_history = None /\ ledger_work = None /\ checkpoint = None /\ upsets = None
  /\ IF tool = "report" THEN Report!Init
     ELSE stream = None /\ report_boot = None /\ seq = None /\ ms = None /\ open = None /\ carried = None
          /\ report_history = None /\ report_rolls = None
  /\ IF tool = "agents" THEN Agents!Init
     ELSE agents_clock = None /\ up = None /\ agents_boot = None /\ heard = None /\ agents_log = None
          /\ turn = None /\ by = None /\ agents_told = None /\ agents_rolls = None /\ worked = None
          /\ idle = None
  /\ IF tool = "supply" THEN Supply!Init
     ELSE supply_clock = None /\ supply_log = None

ledger_vars ==
    <<streams, written, timeline, cursor, disk, ledger_history, ledger_work, checkpoint, upsets>>
report_vars ==
    <<stream, report_boot, seq, ms, open, carried, report_history, report_rolls>>
agents_vars ==
    <<agents_clock, up, agents_boot, heard, agents_log, turn, by, agents_told, agents_rolls, worked, idle>>
supply_vars ==
    <<supply_clock, supply_log>>

RunsOne ==
  \/ Only("ledger") /\ Ledger!Next
  \/ Only("report") /\ Report!Next
  \/ Only("agents") /\ Agents!Next
  \/ Only("supply") /\ Supply!Next

ToolsNext ==
  /\ Step \/ RunsOne
  /\ OthersStay
  /\ IF tool = "ledger" THEN TRUE ELSE UNCHANGED ledger_vars
  /\ IF tool = "report" THEN TRUE ELSE UNCHANGED report_vars
  /\ IF tool = "agents" THEN TRUE ELSE UNCHANGED agents_vars
  /\ IF tool = "supply" THEN TRUE ELSE UNCHANGED supply_vars

tools_vars ==
  <<vars, ledger_vars, report_vars, agents_vars, supply_vars>>

ToolsSpec == ToolsInit /\ [][ToolsNext]_tools_vars

-----------------------------------------------------------------------------
(* What each of these promises; its own module says it in full.             *)

\* The ticket ledger (ledger_store.py) loses no line of evidence to retention,
\* and between runs every ticket's record is what a rebuild would write.
LedgerKeepsUp == tool = "ledger" => Ledger!EvidenceKept /\ Ledger!RecordsAreCurrent

\* Rolling the telemetry stream (retention.ex) does not show in a run's report
\* (reduce.py), a boot's report has nothing of another boot in it, and a build's
\* adds up those of its members' runs; and the newsletter's hours of turns and of
\* feature supply (allocation_sources.py) are the ones that were worked, or are
\* not given.
ReportsAreTrue ==
  /\ tool = "report" => Report!RollsAreInvisible /\ Report!SummariesAreOwn /\ Report!RowsAddUp
  /\ tool = "agents" => Agents!NoWorkMissed /\ Agents!NoWorkInvented
  /\ tool = "supply" => Supply!GapsAreSeen
=============================================================================
