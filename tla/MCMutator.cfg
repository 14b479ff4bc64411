SPECIFICATION FairSpec
CONSTANTS
    Nil = Nil
    Period = 4
    Hashes <- MCHashes
    EnableAutoRecreate = TRUE
    Names <- MCSmallNames
    Specs <- MCMutated
    UserJobs = {}
    Propagations = {"Foreground"}
    CacheKeepsUp = FALSE
    FirstTime = 1
    MaxTime = 1
    MaxEdits = 0
    MaxFaults = 2
    MaxBacklog = 2
CHECK_DEADLOCK FALSE
PROPERTIES
    JobExistsDuringSchedule
