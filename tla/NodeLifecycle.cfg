CONSTANTS
    f1 = f1
    f2 = f2
    None = None
    NoValue = None
    Failures <- MCFailures
    UiClasses <- MCClasses
    MaxFaults = 3
    MaxBase = 1
SPECIFICATION FairSpec
INVARIANTS EvidenceOfCurrentBase CountersAgree
PROPERTIES LifeSpec EndedForever NodeEnds
CHECK_DEADLOCK FALSE
