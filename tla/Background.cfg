SPECIFICATION BackgroundSpec
CONSTANTS
    SubRun = {r1, r2}
    Root = {a}
    MaxConcurrent = 1
    MaxActive = 2
    MaxChildren = 1
    MaxDepth = 2
    MaxWorkers = 2
    MaxIterations = 2
    MaxRestarts = 1
    NoRun = NoRun
    Killable = {r2}
    Task = {t1, t2}
    Cron = {t1}
    Entry = {e1}
    MaxCrashes = 1
    NoTask = NoTask
INVARIANTS
    BackgroundTypeOK
    RunningIsHeld
    CompletedIsAccountedFor
    KillsAndRowsAgree
PROPERTIES
    RunsAreOwed
    RevivalsHaveCause
    WorkIsDone
    FinalIsFinal
CHECK_DEADLOCK FALSE
