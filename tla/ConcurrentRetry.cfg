\* A retry that arrives before the first delivery is answered.
SPECIFICATION Spec
CONSTANTS
    Handlers = {h1, h2}
    Clients = {"acme"}
    Tickets = {"T1"}
    Keys = {"key1"}
    ApiKeys <- OneKey
    MaxCalls = 5
    Window = 2
    MayRaise = FALSE
    MaxTime = 1
    MaxRequests = 3
    MaxRestarts = 0
INVARIANTS
    DispatchedOnce
SYMMETRY HandlerSymmetry
CHECK_DEADLOCK FALSE
