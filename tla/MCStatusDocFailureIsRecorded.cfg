SPECIFICATION Spec
CONSTANTS
    Nil = Nil
    Period = 4
    Hashes <- MCHashes
    EnableAutoRecreate = TRUE
    Names <- MCNames
    Specs <- MCSpecs
    UserJobs <- MCUserJobs
    HistoryEntriesToKeep = 2
    FirstTime = 2
    MaxTime = 5
    MaxEdits = 2
    MaxFaults = 0
CHECK_DEADLOCK FALSE
PROPERTY
    DocFailureIsRecorded
