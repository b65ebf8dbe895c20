\* Two deliveries at a time, failures, a restart and three instants of time. The callers stop after MaxRequests.
SPECIFICATION Spec
CONSTANTS
    Handlers = {h1, h2}
    Clients = {"acme", "globex"}
    Tickets = {"T1", "T2"}
    Keys = {"key1", "key2", "none"}
    ApiKeys <- MCApiKeys
    MaxCalls = 1
    Window = 2
    MayRaise = TRUE
    MaxTime = 2
    MaxRequests = 3
    MaxRestarts = 1
INVARIANTS
    TypeOK
    StoredAnswersOwnRun
    RepliesOwnRun
    RetryAfterAnswerReplays
PROPERTIES
    RefusedOnlyWhenFull
    KeepsBudgets
SYMMETRY HandlerSymmetry
CHECK_DEADLOCK FALSE
