SPECIFICATION Spec
CONSTANTS
    Nil = Nil
    Period = 4
    Hashes <- MCHashes
    EnableAutoRecreate = TRUE
    Names <- MCLateNames
    Specs <- MCSinglePlain
    UserJobs <- MCLateUserJobs
    Propagations = {"Foreground"}
    CacheKeepsUp = TRUE
    FirstTime = 1
    MaxTime = 1
    MaxEdits = 2
    MaxFaults = 0
    MaxBacklog = 2
CHECK_DEADLOCK FALSE
PROPERTIES
    NewestManualJobIsAdopted
