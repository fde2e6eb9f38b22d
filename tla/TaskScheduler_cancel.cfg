SPECIFICATION SchedSpec
CONSTANTS
    Task = {t1}
    Cron = {t1}
    Entry = {}
    MaxCrashes = 0
    NoTask = NoTask
PROPERTIES
    CancelIsFinal
CHECK_DEADLOCK FALSE
