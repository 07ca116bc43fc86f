\* The spec file is deleted and the one report of it is lost.
SPECIFICATION FairSpec
CONSTANTS
    web = web
    mail = mail
    db = db
    site = site
    store = store
    Dest <- OneDest
    CertOf <- OneCert
    Job = {}
    MaxChanges = 2
    MaxFaults = 1
    CanRevoke = FALSE
PROPERTIES
    RemovalIsShown
