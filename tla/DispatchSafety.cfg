\* Base moves, scope changes, delivery, a machine stage, failing actors and
\* crashes: two nodes of one repository, two slots.
SPECIFICATION Spec
CONSTANTS
    n1 = n1  n2 = n2  r1 = r1
    Nodes = {n1, n2}
    Repositories = {r1}
    RepositoryOf <- OneRepository
    Capacity = 2
    Final = 4
    StageOwner <- DeliverLayout
    DeliverStages = {2}
    FrozenStage = 1
    Rebindable = {1}
    MaxDispatches = 3
    MaxBase = 2
    ScopeKinds = {"changes", "leaves", "returns", "outside"}
    MaxScope = 2
    MaxFaults = 1
INVARIANTS MemoryAgrees LinearHistory BaseAgreement ExcludedForCause
PROPERTIES LeaseSpec ForwardOnly
SYMMETRY NodeSymmetry
CHECK_DEADLOCK FALSE
