SPECIFICATION LifecycleSpec
CONSTANTS
    NoSlot = NoSlot
    NoTask = NoTask
    NoMsg = NoMsg
    Key = {c1}
    Chat = c1
    Slot = {s1}
    CleanupAbove = 1
    MaxPending = 2
    Task = {m1, m2, j}
    Msg = {m1, m2}
    MaxRounds = 2
    InjectionSettings = {TRUE, FALSE}
    TimeoutsHappen = TRUE
    ResetsHappen = TRUE
PROPERTIES
    NoLostUpdate
CHECK_DEADLOCK FALSE
