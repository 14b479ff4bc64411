SPECIFICATION FairSpec
CONSTANTS
    Nil = Nil
    Period = 4
    Hashes <- MCHashes
    EnableAutoRecreate = TRUE
    Names <- MCSmallNames
    Specs <- MCSingleShort
    UserJobs <- MCUserJobs
    Propagations = {"Foreground"}
    CacheKeepsUp = FALSE
    FirstTime = 0
    MaxTime = 2
    MaxEdits = 1
    MaxFaults = 1
    MaxBacklog = 2
CHECK_DEADLOCK FALSE
INVARIANTS
    NothingForgotten
PROPERTIES
    Converges
    ExpiredJobsGo
