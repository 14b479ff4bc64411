SPECIFICATION FairSpec
CONSTANTS
    Nil = Nil
    Period = 4
    Hashes <- MCHashes
    EnableAutoRecreate = TRUE
    Names <- MCNames
    Specs <- MCPlainOrSuspended
    UserJobs = {}
    Propagations = {"Foreground"}
    CacheKeepsUp = FALSE
    FirstTime = 1
    MaxTime = 1
    MaxEdits = 2
    MaxFaults = 0
    MaxBacklog = 2
CHECK_DEADLOCK FALSE
INVARIANTS
    NothingForgotten
PROPERTIES
    Converges
