SPECIFICATION WebSpec
CONSTANTS
    WebKey = {w1, w2}
    MaxWebCalls = 3
    MaxClock = 9
    NoWebKey = NoWebKey
PROPERTIES
    ForksContinue
CHECK_DEADLOCK FALSE
