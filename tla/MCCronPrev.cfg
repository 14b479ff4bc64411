SPECIFICATION FairSpec
CONSTANTS
    Days <- MCDays
    Week = 2
    Hours = 4
    Minutes = 2
    Seconds = 2
    Years = 1
    Zones <- MCZones
    Schedules <- MCSchedules
    Instants <- MCInstants
CHECK_DEADLOCK FALSE
INVARIANTS
    ResultIsPrev
PROPERTIES
    Terminates
    WalkRunsOut
