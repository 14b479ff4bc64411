SPECIFICATION Spec
CONSTANTS
    Nil = Nil
    Period = 4
    Hashes <- MCHashes
    EnableAutoRecreate = TRUE
    Names <- MCNames
    Specs <- MCPlain
    UserJobs <- MCUserJobs
    Propagations = {"Foreground"}
    CacheKeepsUp = FALSE
    FirstTime = 0
    MaxTime = 1
    MaxEdits = 2
    MaxFaults = 0
    MaxBacklog = 2
CHECK_DEADLOCK FALSE
INVARIANTS
    ExclusiveJobs
