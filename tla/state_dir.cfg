\* A host that enrols, requests, renews, and enrols again under a running daemon.
SPECIFICATION FairSpecAll
CONSTANTS
    host = host
    Proc <- OneProc
    Chainless = {2}
    MaxDemand = 3
    MaxFaults = 2
    MaxAttempts = 2
    MaxFailures = 1
    MaxDuration = 15
INVARIANTS
    TypeOKAll
    LoadableIsOne
    OrphansPerFailure
    WrittenInOrder
    ReadTogether
    InUsePerDemand
PROPERTIES
    ToldMeansLoadable
    EventuallyItself
    EventuallyRenewedAll
