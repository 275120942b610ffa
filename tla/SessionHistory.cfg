SPECIFICATION Spec
CONSTANTS
    Requests = {1, 2}
    NoFile = NoFile
    Expiry = 1
    FlushEvery = 10
    MaxTime = 2
    MaxMessages = 7
INVARIANT HistoryWellFormed
