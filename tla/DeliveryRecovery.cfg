\* Pushes and closes under interruptions, takeovers and other people.
SPECIFICATION FairSpec
CONSTANTS
    Groups = {1, 2}
    Nodes = {1, 2, 3}
    Repositories = {1, 2, 3}
    GroupOf <- TwoGroups
    RepositoryOf <- ThreeRepositories
    MaxFaults = 2
    MaxTakeovers = 1
    MaxForeign = 1
INVARIANTS PushedOnceOnBase PushesStayFrozen ClosedWithEvidence
PROPERTIES DeliverySpec DeliveryCompletes
CHECK_DEADLOCK FALSE
