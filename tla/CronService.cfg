SPECIFICATION FairSpec
CONSTANTS
    Id = {1, 2}
    NoJob = NoJob
    RetryDelay = 1
    DayLength = 4
    MaxTime = 5
    MaxSleep = 2
    Schedules <- MCSchedules
    SaveMayFail = FALSE
INVARIANTS
    DueJobsAreCurrent
PROPERTY DueJobRuns
