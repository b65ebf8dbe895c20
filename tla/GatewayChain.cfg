\* Two threads on fallback chains. The threads stop after MaxRequests calls.
SPECIFICATION FairSpec
CONSTANTS
    Threads = {t1, t2}
    Providers = {"mystery", "nim", "ollama"}
    Roles = {"planner", "critic", "intake"}
    RoleProviders <- MCRoleProviders
    MaxCalls <- MCMaxCalls
    Clientless = {"mystery"}
    Window = 1
    FailureThreshold = 2
    Cooldown = 2
    MaxTime = 1
    MaxRequests = 3
INVARIANTS
    TypeOK
PROPERTIES
    CallEnds
CHECK_DEADLOCK FALSE
