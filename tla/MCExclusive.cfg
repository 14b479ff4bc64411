SPECIFICATION Spec
CONSTANTS
    Nil = Nil
    Period = 4
    Hashes <- MCHashes
    EnableAutoRecreate = TRUE
    Names <- MCNames
    Specs <- MCPlainOrMutated
    UserJobs <- MCUserJobs
    Propagations = {"Foreground", "Background"}
    CacheKeepsUp = TRUE
    FirstTime = 0
    MaxTime = 1
    MaxEdits = 2
    MaxFaults = 1
    MaxBacklog = 2
CHECK_DEADLOCK FALSE
INVARIANTS
    TypeOK
    ExclusiveJobs
    ExclusiveInv
    OncePerPeriodInv
PROPERTIES
    StoppedJobStaysStopped
    FinishedRunIsNotRestarted
    NewestManualJobIsAdopted
    RunsFollowLifecycle
