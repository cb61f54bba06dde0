SPECIFICATION Spec
CONSTANTS
    Jobs = {j1}
    Handlers = {h1, h2, h3}
    WithCallback = {j1}
    MAX_ATTEMPTS = 1
    CrashPoints <- Anywhere
    Budget <- AnyFault
SYMMETRY HandlerSymmetry
INVARIANTS TypeOK AttemptsExclusive SuccessIsCommitted WaitingJobHasMessage
CHECK_DEADLOCK FALSE
