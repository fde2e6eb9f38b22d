SPECIFICATION LifecycleSpec
CONSTANTS
    NoSlot = NoSlot
    NoTask = NoTask
    NoMsg = NoMsg
    Key = {c1}
    Chat = c1
    Slot = {s1}
    CleanupAbove = 1
    MaxPending = 2
    Task = {m1, m2}
    Msg = {m1, m2}
    MaxRounds = 1
    InjectionSettings = {TRUE}
    TimeoutsHappen = FALSE
    ResetsHappen = FALSE
INVARIANTS
    NoneStranded
CHECK_DEADLOCK FALSE
