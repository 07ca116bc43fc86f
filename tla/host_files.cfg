\* Specs of one and two destinations, over cycles with failures and edits.
SPECIFICATION FairSpec
CONSTANTS
    Walk <- MCWalk
    MaxFiles = 7
    MaxReported = 4
    Scenes <- MCScenes
    Options <- MCOptions
    Listing <- MCListing
    Wildcard <- MCWildcard
INVARIANTS
    TypeOK
    NothingIgnored
    EachIsServed
    InUseIsHeld
    AlarmsAreReal
PROPERTIES
    KeyNeverExposed
    EveryCertificateIsReported
    InstallsLookWell
    EventuallyAsDeclared
    EventuallyKnown
