SPECIFICATION Spec
CONSTANTS
    Jobs = {j1}
    Handlers = {h1, h2}
    WithCallback = {j1}
    MAX_ATTEMPTS = 1
    CrashPoints <- Anywhere
    Budget <- OneCrash
INVARIANT NothingLost
CHECK_DEADLOCK FALSE
