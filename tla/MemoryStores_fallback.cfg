SPECIFICATION MemorySpec
CONSTANTS
    Chat = {c1, c2}
    Fact = {f1}
    TopicOf <- MCTopicOf
    External = TRUE
    MaxRows = 2
    MaxMessages = 0
    MaxItems = 1
    MaxBusy = 1
    Cap = 0
    PauseAfter = 2
    FirstLook = 2
    Batch = 1
PROPERTIES
    OwnRowsOnly
CHECK_DEADLOCK FALSE
