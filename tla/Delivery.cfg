SPECIFICATION DeliverySpec
CONSTANTS
    NoSlot = NoSlot
    NoTask = NoTask
    NoMsg = NoMsg
    Key = {c1}
    Chat = c1
    Slot = {s1}
    CleanupAbove = 1
    MaxPending = 2
    Task = {m1, m2, j}
    Msg = {m1, m2}
    MaxRounds = 1
    InjectionSettings = {FALSE}
    TimeoutsHappen = TRUE
    ResetsHappen = FALSE
    Ended = {e1, e2}
    Relay = {relay}
    BatchLimit = 1
    MaxAttempts = 2
    MaxRelayStarts = 1
INVARIANTS
    DeliveriesAreRight
PROPERTIES
    FinishedIsAnnounced
    TasksFinish
    QueuedIsDrained
CHECK_DEADLOCK FALSE
