\* One job, edits of the spec, renewals, lost calls, crashes, revocation.
SPECIFICATION FairSpec
CONSTANTS
    web = web
    mail = mail
    db = db
    site = site
    store = store
    Dest <- ThreeDests
    CertOf <- SomeCerts
    Job = {j1}
    MaxChanges = 2
    MaxFaults = 2
    CanRevoke = TRUE
INVARIANTS
    TypeOK
PROPERTIES
    SuccessIsInstalled
    JobsAreAnswered
    CoreSeesTheHost
    RevokedStops
