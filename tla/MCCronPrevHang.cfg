SPECIFICATION FairSpec
CONSTANTS
    Days <- MCDays
    Week = 2
    Hours = 4
    Minutes = 2
    Seconds = 2
    Years = 1
    Zones <- MCEastInAutumn
    Schedules <- MCDaily
    Instants <- MCInstants
CHECK_DEADLOCK FALSE
PROPERTIES
    Terminates
