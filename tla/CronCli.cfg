SPECIFICATION CliSpec
CONSTANTS
    Id = {1}
    NoJob = NoJob
    RetryDelay = 1
    DayLength = 3
    MaxTime = 6
    MaxSleep = 2
    Schedules <- MCSchedules
    SaveMayFail = FALSE
PROPERTIES
    OncePerSlotAndBoot
