\* The parts beside the run loop, each on its own.
SPECIFICATION Spec
CONSTANTS
    Parts = {"writer", "git", "resources", "lane", "replay", "takeover", "group", "execution", "quiescence", "frontier"}
    NoValue = NoValue
    Attempts = {"a1", "a2", "a3"}
    Versions = {"v1", "v2"}
    MaxSlices = 2
    MaxCheckpoints = 1
    Resources = {"r1", "r2"}
    Descends <- Pairs
    Unchanged = {"r1"}
    Writers = {"r1"}
    Staged = {"r2"}
    MaxGitEdits = 1
    MaxLandings = 1
    MaxGitTakeovers = 1
    MaxSelfTests = 1
    Members <- MemberOrder
    LandingAttempts = {"t1", "t2"}
    EvidenceClasses = {"c1"}
    MaxLandingEvents = 9
    MaxRemote = 1
    ReplayNodes = {"n1", "n2"}
    MaxReplayEvents = 3
    MaxEpochs = 2
    MaxStartups = 2
    MaxMishaps = 1
    Roots = {"root-1", "root-2", "root-3"}
    GenesisRoot = "root-1"
    MaxAuthorizations = 2
    MaxClock = 1
    MaxPackages = 2
    MaxRootEvents = 4
    GroupMembers <- GroupOrder
    MaxCandidates = 2
    MaxCommits = 3
    Executions = {"e1", "e2"}
    Stages = {"implementation", "documentation", "documentation-no-change"}
    OtherCommits = {"c1"}
    MaxReads = 0
    MaxCalls = 2
    MaxTrace = 2
    TargetIssues = {"i1", "i2"}
    MaxNodeEpochs = 2
    FrontierWork <- Graphs
    FirstPassed = {0, 4}
    PlanSlices = 2
    DispatchIds = {1, 2}
    MaxDrifts = 1
CONSTRAINT Bounds
INVARIANTS PrefixIsOrdered CandidateNotLost LeaseOutlivesResource SlotFreedWhenGone AnswersAreReplays RecordsUnderAuthority GreenInOrder ResultsStand DispatchedApart
PROPERTIES QueueSpec CandidateIsComplete WorkIsKept BreakerHolds TerminalizesQuiescent
CHECK_DEADLOCK FALSE
