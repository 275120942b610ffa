SPECIFICATION Spec
CONSTANTS
    Turns = {chat1, cron}
    Background = {cron}
    Keys = {k1, k2}
    None = None
INVARIANT InterruptedToolsAreRecorded
