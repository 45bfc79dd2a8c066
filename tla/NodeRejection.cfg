\* A rejection whose failure is not the one recorded first.
CONSTANTS
    f1 = f1
    f2 = f2
    None = None
    NoValue = None
    Failures <- MCFailures
    UiClasses <- MCPlain
    MaxFaults = 2
    MaxBase = 0
SPECIFICATION FairSpec
PROPERTIES RejectionCounted
CHECK_DEADLOCK FALSE
