SPECIFICATION Spec
CONSTANTS
    Requests <- FourRequests
    Keys = {"k1", "k2"}
    KeyOf <- TwoEach
    BodyOf <- EachBody
    Async = {"j1", "j2"}
    MaxDeaths = 0
INVARIANT CleanReattempt
CHECK_DEADLOCK FALSE
