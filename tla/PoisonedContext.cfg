\* A lookup that answers for another order.
SPECIFICATION Spec
CONSTANTS
    Customers <- MCCustomers
    Orders <- MCOrders
    OtherIds <- MCOtherIds
    Failures = {"wrong_result"}
    Adapter = "simulated"
    MAX_ITERATIONS = 3
    UseLLM = FALSE
    Tickets <- NamedOrderTickets
    LLMPlans <- NoPlans
    LLMVerdicts <- NoVerdicts
    StoreMayFail = FALSE
INVARIANTS
    ActsOnUsableDataOnly
