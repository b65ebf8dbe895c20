\* Planner and critic models answer anything; any call may fail.
SPECIFICATION Spec
CONSTANTS
    Customers <- MCCustomers
    Orders <- MCOrders
    OtherIds <- MCOtherIds
    Failures = {"timeout", "ambiguous_data", "wrong_result"}
    Adapter = "simulated"
    MAX_ITERATIONS = 2
    UseLLM = TRUE
    Tickets <- MCTickets
    LLMPlans <- MCLLMPlans
    LLMVerdicts <- MCLLMVerdicts
    StoreMayFail = FALSE
INVARIANTS
    NoExpectedToolLost
    RefundGated
    RefundAmountMatchesOrder
PROPERTIES
    HandlesTicket
