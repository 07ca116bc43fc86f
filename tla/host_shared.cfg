\* Two services of one certificate, each with the profile of its own.
SPECIFICATION Spec
CONSTANTS
    Walk <- MCWalk
    MaxFiles = 7
    MaxReported = 4
    Scenes <- MailScenes
    Options <- MCOptions
    Listing <- MCListing
    Wildcard <- MCWildcard
INVARIANTS
    SharedIsServed
