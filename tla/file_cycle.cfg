\* One installer: failing calls, SIGTERM, forced installs and crashes.
SPECIFICATION FairSpec
CONSTANTS
    p1 = p1
    p2 = p2
    Proc <- OneProc
    NFiles = 3
    MaxRelease = 3
    MaxFaults = 4
    Deterministic = TRUE
    HasCheck = TRUE
    HasReload = TRUE
    CanCrash = TRUE
    CanEdit = FALSE
INVARIANTS
    TypeOK
    WholeAtRest
    ServedWasVetted
    InstalledMeansServed
PROPERTIES
    RolledBackMeansRestored
    EventuallyServed
    DestinationSpec
