\* The run ends with every dispatch settled, when no base moves and no issue
\* leaves the scope.
SPECIFICATION FairSpec
CONSTANTS
    n1 = n1  n2 = n2  r1 = r1
    Nodes = {n1, n2}
    Repositories = {r1}
    RepositoryOf <- OneRepository
    Capacity = 1
    Final = 3
    StageOwner <- TerminalizeLayout
    DeliverStages = {}
    FrozenStage = 1
    Rebindable = {1}
    MaxDispatches = 8
    MaxBase = 0
    ScopeKinds = {"changes", "outside"}
    MaxScope = 1
    MaxFaults = 1
INVARIANTS EndsQuiescent
PROPERTIES RunEnds
CHECK_DEADLOCK FALSE
