\* A PKCS12 keystore: every encoding of the same release has other bytes.
SPECIFICATION Spec
CONSTANTS
    p1 = p1
    p2 = p2
    Proc <- OneProc
    NFiles = 1
    MaxRelease = 2
    MaxFaults = 0
    Deterministic = FALSE
    HasCheck = TRUE
    HasReload = TRUE
    CanCrash = FALSE
    CanEdit = FALSE
PROPERTIES
    QuietUnlessDifferent
