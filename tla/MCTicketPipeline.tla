-------------------------- MODULE MCTicketPipeline --------------------------
(* Instances of the ticket pipeline for TLC.                                *)
EXTENDS TicketPipeline

MCCustomers == <<"c1", "c2">>
MCOrders == <<"o1", "o2">>
MCOtherIds == {"x9"}

T(intent, customer, order, email, amount) ==
    [intent |-> intent, customer_id |-> customer, order_id |-> order, email |-> email,
     amount |-> amount, message |-> TRUE]
Blank(intent) ==
    [intent |-> intent, customer_id |-> "c1", order_id |-> None, email |-> None,
     amount |-> None, message |-> FALSE]

(* One ticket per way the intake can end: several intents, an order in the     *)
(* table, one outside it, none at all, an amount typed or not, a customer   *)
(* known by id, by e-mail or not at all.                                    *)
MCTickets ==
    {T("refund_request", "c1", "o2", None, "message"), T("refund_request", "c1", None, None, None),
     T("refund_request", None, "x9", "c2", None), T("account_issue", "x9", None, None, None),
     T("order_status", "c2", "o1", None, None), Blank("other")}

RealTickets ==
    {T("billing_dispute", "c1", "o2", None, "message"), T("refund_request", None, "o1", "c2", None),
     T("refund_request", None, None, None, "message"), T("account_issue", "c1", None, None, None)}

(* Answers of the planner model: a plan that lists a refund before and      *)
(* twice after its lookup and forgets the customer, one without the lookup, *)
(* an empty one.  The deterministic plan is a good one.                     *)
Answers == {<< <<"refund">>, <<"order_lookup", "refund", "refund">> >>,
            << <<"crm", "refund">> >>}
MCLLMPlans == {filtered_to(plan, allowed) : plan \in Answers, allowed \in SUBSET ToolNames}
MCLLMVerdicts == {{}, {"refund", UnknownTool}}

NoPlans == {}
NoVerdicts == {}

-----------------------------------------------------------------------------
(* What a docstring says and the code does not do.                          *)

NamedOrderTickets == {T("refund_request", "c1", "o2", None, None)}

(* is_usable says which calls "produced data the pipeline can act on":      *)
(* an order is looked up or refunded only if the ticket names it or a       *)
(* usable lookup returned it (executor._run updates the context first).     *)
ActsOnUsableDataOnly ==
    \A i \in DOMAIN tool_calls_made : tool_calls_made[i].tool \in {"order_lookup", "refund"} =>
        LET id == tool_calls_made[i].params.id
        IN  \/ id = ticket.order_id
            \/ \E j \in 1..(i-1) : /\ tool_calls_made[j].tool = "order_lookup"
                                   /\ usable(tool_calls_made[j])
                                   /\ tool_calls_made[j].result.id = id
=============================================================================
