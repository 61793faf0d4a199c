\* Safety of the programs around the daemon, one at a time
CONSTANTS
    None = None
    c1 = c1
    c2 = c2

    Brokers = {"old", "new", "daemon"}
    Resident = {"daemon"}
    Version <- Versions
    Columns = {"lease_id", "billable_reason"}
    Created = {"lease_id"}
    Absent = Absent
    MaxRows = 2

    Commands = {"first", "second", "rotated"}
    Identities = {"app", "user"}
    Tokens = {"old", "new"}
    Ident <- Idents
    Token <- Presented
    NoLedger = none
    MaxBatch = 2
    MaxCrashes = 1
    MaxFailures = 1

    FrameLimit = 1
    Stale = 1
    Retry = 1
    MaxBatches = 3
    MaxDeaths = 1
    MaxAge = 3

    Pids = {1, 2, 3}
    Root = 1
    Child = 2
    MaxBirths = 3

    AgentProcesses = {"relay", "provider", "tool", "child"}
    Relay = "relay"
    AgentProvider = "provider"
    Tool = "tool"
    Rounds = 2

    Relays = {"a", "b"}
    Numbers = {1, 2}
    Day = 1
    MaxUptime = 3

    GateBuilds = {"a", "b"}
    Slots = {1}
    Visible <- Seen
    Grace = 1
    CandidateLimit = 2
    DetailLimit = 1
    MaxGateTime = 1

    Runs = {"a", "b"}
    Hand = {"h"}
    West = 1
    DayTicks = 2
    MaxTime = 1

    Events = {"pull_request", "merge_group"}
    Classifications <- CiClassifications
    Tests <- CiTests
    Changed = {11}
    KnownFlaky = {4}
    BaseQuarantine <- CiQuarantine
    Quarantine <- CiQuarantine
    BaseRuns <- CiBaseRuns
    PartitionRuns <- CiPartitionRuns
    Dated = {10}
    FixedDates = {}
    Suites <- CiSuites
    Bodies <- CiBodies
    CreatedAt = 2
    Activated = 1
    HeadSha = 4
    Parents <- CiParents
    Contribution <- CiContribution
    FullRuns = 2
    ReducedRuns = 1
    FullLimit = 1
    MaxFiles = 4
    MaxModules = 1
    Budget = 2
    MaxPolls = 3
    GateTicks = 2
    MaxAttempts = 2
    MaxEdits = 1

    Collectors = {c1, c2}
    Nobody = Nobody
    Estimators = {1, 2}
    Estimates <- ProgressRows
    OldOutput <- ProgressOutput
    MaxEstimates = 3
    MaxKills = 1

    Members = {1, 2, 3, 4}
    Epic = 0
    Skill = 5
    ExpectedLanes <- AmendmentLanes
    Individuals = {3}
    Baseline <- AmendmentBaseline
    Policy = "develop"
    PolicyAuthority <- Authority
    PolicyDocument <- AmendmentPolicies
    TrustedRef <- AmendmentRef
    Published <- AmendmentIssues
    Candidates <- AmendmentCandidates
    GithubEdits <- AmendmentEdits
    MaxGithubEdits = 2

    Configured = 2
    PhaseLabels = {"phase:1"}
    Planned = {1, 2}
    ClassOf <- NewsletterClasses
    PullRequests = {"p"}
    ClosedBy <- NewsletterClosedBy
    Cursors = {"c"}
    Lives = {"running", "queued"}
    RequestCeiling = 3
    PointBudget = 4
    IssueBatch = 1
    FreshFor = 1
    LaneOf <- NewsletterLanes
    MobileTickets = {2}
    Merges = 3
    MergeCloses <- NewsletterCloses
    Unstamped = {3}
    Deployed = {"local", "other"}
    Features <- NewsletterFeatures
SPECIFICATION ToolsSpec
INVARIANTS
    LedgerKeepsUp
    
    AcceptedWasInForce
    NothingForgotten
    
    
    LogIsCopied
    
PROPERTIES
    LedgerStaysUsable
    
    
    OneWakePerDate
\* Each program may come to its end.
CHECK_DEADLOCK FALSE
