SPECIFICATION FairSpec
CONSTANTS
    Jobs = {j1}
    Handlers = {h1, h2}
    WithCallback = {j1}
    MAX_ATTEMPTS = 2
    CrashPoints <- NotAtAck
    Budget <- CrashOnly
PROPERTIES FollowsContract JobResolves
CHECK_DEADLOCK FALSE
