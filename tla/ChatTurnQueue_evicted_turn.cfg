SPECIFICATION Spec
CONSTANTS
    Key = {k1, k2}
    Task = {t1, t2}
    Msg = {m1, m2}
    Slot = {s1, s2, s3}
    NoSlot = NoSlot
    NoTask = NoTask
    NoMsg = NoMsg
    MaxPending = 1
    CleanupAbove = 1
    TimeoutsHappen = FALSE
INVARIANTS
    OneTurnPerChat
