\* Somebody presses deploy for the certificate the service is bound to.
SPECIFICATION Spec
CONSTANTS
    MaxCert = 2
    MaxFaults = 1
    HasReload = TRUE
    HasVerify = TRUE
    Binds = {TRUE}
    BindMayTake = FALSE
PROPERTIES
    BoundIsNeverRemoved
