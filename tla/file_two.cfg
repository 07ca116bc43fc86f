\* The daemon's cycle and `certpilot-agent install' on the same files.
SPECIFICATION FairSpec
CONSTANTS
    p1 = p1
    p2 = p2
    Proc <- TwoProcs
    NFiles = 2
    MaxRelease = 3
    MaxFaults = 1
    Deterministic = TRUE
    HasCheck = FALSE
    HasReload = FALSE
    CanCrash = TRUE
    CanEdit = TRUE
PROPERTIES
    EventuallyRepaired
