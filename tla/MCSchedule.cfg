SPECIFICATION Spec
CONSTANTS
    Nil = Nil
    Period = 4
    MaxTime = 13
    Schedules <- MCSchedules
    Offsets <- MCOffsets
INVARIANTS
    StartIsTheTransition
    StoppedNamesNoPastPeriod
    LastStopIsRemembered
PROPERTIES
    NoTransitionBeforeWakeUp
