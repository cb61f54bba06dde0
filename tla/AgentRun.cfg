SPECIFICATION Spec
CONSTANTS
    Manifest <- DemoManifest
    Hallucinated = {"no_such_tool"}
    Ids = {"e1", "e2"}
    Chunks = {"doc", "bad"}
    PublicChunks = {"faq"}
    Poisoned = {"bad"}
    Requests <- DemoRequests
    MaxCalls = 1
    MaxPieces = 1
    RecursionLimit = 12
INVARIANTS TypeOK OnlyAuthorizedCalls CacheIsImpersonal AnsweredIsRecorded GuardrailsRan
CHECK_DEADLOCK FALSE
