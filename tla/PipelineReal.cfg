\* The Stripe and Zendesk backends, and a memory store whose writes may fail.
SPECIFICATION FairSpec
CONSTANTS
    Customers <- MCCustomers
    Orders <- MCOrders
    OtherIds <- MCOtherIds
    Failures = {}
    Adapter = "real"
    MAX_ITERATIONS = 3
    UseLLM = FALSE
    Tickets <- RealTickets
    LLMPlans <- NoPlans
    LLMVerdicts <- NoVerdicts
    StoreMayFail = TRUE
INVARIANTS
    TypeOK
    RefundsNamedOrder
    NoRedispatchAfterUsable
    ReplanCountAgrees
PROPERTIES
    Termination
    HandlesTicket
