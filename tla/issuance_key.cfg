\* A renewal whose save is interrupted after the key.
SPECIFICATION Spec
CONSTANTS
    daemon = daemon
    Proc <- OneProc
    Chainless = {2}
    MaxDemand = 2
    MaxFaults = 1
INVARIANTS
    NewKeyIsInert
