\* An adapter fails between a push and the record of it.
SPECIFICATION FairSpec
CONSTANTS
    Groups = {1, 2}
    Nodes = {1, 2, 3}
    Repositories = {1, 2, 3}
    GroupOf <- TwoGroups
    RepositoryOf <- ThreeRepositories
    MaxFaults = 1
    MaxTakeovers = 0
    MaxForeign = 0
PROPERTIES PushesAreRecorded
CHECK_DEADLOCK FALSE
