\* Renewals and forced deployments; failing calls, stops and crashes.
SPECIFICATION FairSpec
CONSTANTS
    MaxCert = 4
    MaxFaults = 3
    HasReload = TRUE
    HasVerify = TRUE
    Binds = {TRUE, FALSE}
    BindMayTake = TRUE
INVARIANTS
    TypeOK
    NamedWasBound
    LeftBehindPerFailure
PROPERTIES
    OthersAreLeftAlone
    BoundSurvives
    RolledBackMeansRebound
    EventuallyInstalled
