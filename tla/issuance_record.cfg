\* A renewal whose save is interrupted while it writes the record.
SPECIFICATION FairSpec
CONSTANTS
    daemon = daemon
    Proc <- OneProc
    Chainless = {2}
    MaxDemand = 2
    MaxFaults = 1
PROPERTIES
    RenewalsAreRetried
