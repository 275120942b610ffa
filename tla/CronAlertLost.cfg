SPECIFICATION Spec
CONSTANTS
    Id = {1, 2}
    NoJob = NoJob
    RetryDelay = 1
    DayLength = 4
    MaxTime = 6
    MaxSleep = 2
    Schedules <- MCSchedules
    SaveMayFail = FALSE
PROPERTIES
    FailureReachesChannel
