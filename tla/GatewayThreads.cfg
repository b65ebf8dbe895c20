\* Three threads on one provider. The threads stop after MaxRequests calls.
SPECIFICATION Spec
CONSTANTS
    Threads = {t1, t2, t3}
    Providers = {"nim"}
    Roles = {"planner"}
    RoleProviders <- OneProvider
    MaxCalls <- TwoCalls
    Clientless = {}
    Window = 2
    FailureThreshold = 2
    Cooldown = 2
    MaxTime = 3
    MaxRequests = 4
INVARIANTS
    BreakerExact
    NoAdmissionWhileOpen
PROPERTIES
    KeepsBudgets
CHECK_DEADLOCK FALSE
SYMMETRY ThreadSymmetry
