\* A crash between the node event of a result and its settlement, then a base move.
SPECIFICATION Spec
CONSTANTS
    n1 = n1  n2 = n2  r1 = r1
    Nodes = {n1}
    Repositories = {r1}
    RepositoryOf <- OneRepository
    Capacity = 2
    Final = 4
    StageOwner <- DeliverLayout
    DeliverStages = {2}
    FrozenStage = 1
    Rebindable = {1}
    MaxDispatches = 3
    MaxBase = 1
    ScopeKinds = {}
    MaxScope = 0
    MaxFaults = 1
INVARIANTS ExcludedChangesNothing
CHECK_DEADLOCK FALSE
