\* One node delivers its group; nothing else happens.
SPECIFICATION FairSpec
CONSTANTS
    n1 = n1  n2 = n2  r1 = r1
    Nodes = {n1}
    Repositories = {r1}
    RepositoryOf <- OneRepository
    Capacity = 2
    Final = 4
    StageOwner <- DeliverLayout
    DeliverStages = {2}
    FrozenStage = 1
    Rebindable = {1}
    MaxDispatches = 3
    MaxBase = 0
    ScopeKinds = {}
    MaxScope = 0
    MaxFaults = 0
PROPERTIES DeliveredCloses
CHECK_DEADLOCK FALSE
