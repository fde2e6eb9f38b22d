SPECIFICATION FairSpec
CONSTANTS
    Key = {k1, k2}
    Task = {t1, t2}
    Msg = {m1, m2, m3}
    Slot = {s1, s2}
    NoSlot = NoSlot
    NoTask = NoTask
    NoMsg = NoMsg
    MaxPending = 2
    CleanupAbove = 2
    TimeoutsHappen = TRUE
INVARIANTS
    LockInv
    OneTurnPerChat
    QueuedIsReachable
PROPERTIES
    ImplementsSerializer
    AcquireReturns
