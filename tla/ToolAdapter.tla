---------------------------- MODULE ToolAdapter -----------------------------
(***************************************************************************)
(* What one tool call may return, and what the pipeline reads off it.      *)
(*                                                                         *)
(* A payload is reduced to the fields the program inspects:                *)
(*   id        the customer_id / order_id the payload carries (None = none), *)
(*   status    its "status" field (None = absent),                           *)
(*   complete  crm: tier and lifetime_value known; refund: refund_id set;  *)
(*             kb_search: result_count set,                                *)
(*   flagged   kb_search: a "message" key; order_lookup: a "note" key,     *)
(*   amount    order_lookup: the order whose total it reports (None = none   *)
(*             that float() accepts).                                      *)
(* An e-mail address is named by the customer it belongs to, and an amount *)
(* by the order it is the total of, or "message" for one the customer typed.*)
(***************************************************************************)
EXTENDS ExecutionDAG

(* An absent field, an empty string or a None: the code tests all three by   *)
(* truth value.                                                              *)
None == "none"

CONSTANTS
    Customers,  \* keys of _CUSTOMERS, in the order of the table
    Orders,     \* keys of _ORDERS, in the order of the table
    OtherIds,   \* identifiers that neither table holds
    Failures,   \* the failures roll_failure may draw ({} when failure_rate is 0)
    Adapter     \* which ToolAdapter build_pipeline was given

ASSUME TablesAssumption ==
    /\ Customers \in Seq(STRING) /\ Len(Customers) >= 2 /\ Customers[1] # Customers[2]
    /\ Orders \in Seq(STRING) /\ Len(Orders) >= 2 /\ Orders[1] # Orders[2]
ASSUME IdsAssumption ==
    /\ None \notin Elements(Customers) \cup Elements(Orders)
    /\ OtherIds \cap (Elements(Customers) \cup Elements(Orders)) = {}
    /\ "message" \notin Elements(Orders) \cup OtherIds
ASSUME FailuresAssumption == Failures \subseteq {"timeout", "ambiguous_data", "wrong_result"}
ASSUME AdapterAssumption == Adapter \in {"simulated", "real"}

CustomerIds == Elements(Customers)
OrderIds == Elements(Orders)
Ids == CustomerIds \cup OrderIds \cup OtherIds \cup {None, "ORD-9999", "ORD-8888"}
Amounts == Ids \cup {"message"}

Statuses == {None, "not_found", "UNKNOWN", "shipped", "succeeded",
             "approved", "pending_review", "failed"}
Texts == {None, "text"}

Params == [id : Ids, email : Ids, amount : Amounts, query : Texts]
Results == [success : BOOLEAN, id : Ids, status : Statuses, complete : BOOLEAN,
            flagged : BOOLEAN, amount : Amounts]
Contexts == [customer_id : Ids, order_id : Ids, email : Ids, amount : Amounts,
             customer_message : Texts]

Failed == [success |-> FALSE, id |-> None, status |-> None, complete |-> FALSE,
           flagged |-> FALSE, amount |-> None]
Payload(id, status, complete, flagged, amount) ==
    [success |-> TRUE, id |-> id, status |-> status, complete |-> complete,
     flagged |-> flagged, amount |-> amount]

FirstOther(table, id) == IF table[1] # id THEN table[1] ELSE table[2]

-----------------------------------------------------------------------------
(* The simulated handlers.                                                  *)
resolve_customer(p) ==
    IF p.id # None THEN (IF p.id \in CustomerIds THEN p.id ELSE None)
    ELSE IF p.email \in CustomerIds THEN p.email ELSE None

get_customer(p, failure) ==
    CASE failure = "timeout" -> Failed
      [] failure = "ambiguous_data" -> Payload(p.id, None, FALSE, TRUE, None)
      [] failure = "wrong_result" ->
            Payload(FirstOther(Customers, resolve_customer(p)), None, TRUE, FALSE, None)
      [] OTHER -> IF resolve_customer(p) = None
                  THEN Payload(p.id, "not_found", FALSE, TRUE, None)
                  ELSE Payload(resolve_customer(p), None, TRUE, FALSE, None)

lookup_order(p, failure) ==
    CASE failure = "timeout" -> Failed
      [] failure = "ambiguous_data" -> Payload(p.id, "UNKNOWN", TRUE, TRUE, None)
      [] failure = "wrong_result" ->
            LET other == FirstOther(Orders, p.id)
            IN  Payload(other, "shipped", TRUE, FALSE, other)
      [] OTHER -> IF p.id \in OrderIds
                  THEN Payload(p.id, "shipped", TRUE, FALSE, p.id)
                  ELSE Payload(p.id, "not_found", TRUE, FALSE, None)

issue_refund(p, failure) ==
    CASE failure = "timeout" -> Failed
      [] failure = "ambiguous_data" -> Payload(p.id, "pending_review", FALSE, TRUE, None)
      [] failure = "wrong_result" ->
            Payload(IF p.id # "ORD-9999" THEN "ORD-9999" ELSE "ORD-8888",
                    "approved", TRUE, TRUE, None)
      [] OTHER -> Payload(p.id, "approved", TRUE, TRUE, None)

search_kb(p, failure) ==
    CASE failure = "timeout" -> Failed
      [] failure = "ambiguous_data" -> Payload(None, None, FALSE, TRUE, None)
      [] failure = "wrong_result" -> Payload(None, None, TRUE, TRUE, None)
      [] OTHER -> Payload(None, None, TRUE, FALSE, None)

(* SimulatedToolAdapter.dispatch                                            *)
simulated_dispatch(tool, p, failure) ==
    CASE tool = "crm" -> get_customer(p, failure)
      [] tool = "order_lookup" -> lookup_order(p, failure)
      [] tool = "refund" -> issue_refund(p, failure)
      [] tool = "kb_search" -> search_kb(p, failure)
      [] OTHER -> Failed

-----------------------------------------------------------------------------
(* The Stripe and Zendesk backends: every answer the vendor may give.  Each *)
(* can fail (no credentials, a vendor error), and fails on a missing        *)
(* argument.                                                                *)
CrmBackend(p) ==
    IF p.id = None /\ p.email = None THEN {}
    ELSE LET id == IF p.id # None THEN p.id ELSE p.email
         IN  {Payload(id, None, complete, FALSE, None) : complete \in BOOLEAN}
             \cup IF p.id = None THEN {Payload(None, "not_found", FALSE, TRUE, None)} ELSE {}

(* Mutant: the first PaymentIntent of the account instead of the one asked for. *)
OrderBackend_First(p) ==
    IF p.id = None THEN {} ELSE {Payload(Orders[1], "succeeded", TRUE, FALSE, Orders[1])}

OrderBackend(p) == IF p.id = None THEN {} ELSE {Payload(p.id, "succeeded", TRUE, FALSE, p.id)}

RefundBackend(p) ==
    IF p.id = None THEN {}
    ELSE {Payload(p.id, status, TRUE, TRUE, None) :
              status \in {"approved", "pending_review", "failed"}}

KbSearchBackend(p) == IF p.query = None THEN {} ELSE {Payload(None, None, TRUE, FALSE, None)}

real_dispatch(tool, p) ==
    {Failed} \cup
    (CASE tool = "crm" -> CrmBackend(p)
       [] tool = "order_lookup" -> OrderBackend(p)
       [] tool = "refund" -> RefundBackend(p)
       [] tool = "kb_search" -> KbSearchBackend(p)
       [] OTHER -> {})

(* _customer_to_payload applies float() to Customer metadata, and the       *)
(* Zendesk answer is decoded, outside the backends' try blocks.             *)
may_raise(tool, p) ==
    /\ Adapter = "real"
    /\ \/ tool = "crm" /\ (p.id # None \/ p.email # None)
       \/ tool = "kb_search" /\ p.query # None

(* dispatch(tool, params): the results a call may return.                   *)
dispatch(tool, p) ==
    IF Adapter = "real" THEN real_dispatch(tool, p)
    ELSE {simulated_dispatch(tool, p, f) : f \in Failures \cup {None}}

-----------------------------------------------------------------------------
(* ToolCallRecord.is_usable, for a call to tool with params p.              *)
is_usable(tool, p, r) ==
    /\ r.success
    /\ CASE tool = "crm" ->
              /\ r.id # None /\ r.status \notin {"not_found", "UNKNOWN"}
              /\ r.complete
              /\ p.id # None => r.id = p.id
         [] tool = "order_lookup" ->
              /\ r.id # None /\ r.status \notin {"not_found", "UNKNOWN"}
              /\ p.id # None => r.id = p.id
         [] tool = "refund" ->
              /\ r.status = "approved" /\ r.complete
              /\ p.id # None => r.id = p.id
         [] tool = "kb_search" -> r.complete /\ ~r.flagged
         [] OTHER -> TRUE

(* _prepare_params                                                          *)
prepare_params(tool, ctx) ==
    CASE tool = "crm" ->
            [id |-> ctx.customer_id, email |-> ctx.email, amount |-> None, query |-> None]
      [] tool = "order_lookup" ->
            [id |-> ctx.order_id, email |-> None, amount |-> None, query |-> None]
      [] tool = "refund" ->
            [id |-> ctx.order_id, email |-> None, amount |-> ctx.amount, query |-> None]
      [] tool = "kb_search" ->
            [id |-> None, email |-> None, amount |-> None, query |-> ctx.customer_message]
      [] OTHER -> [id |-> None, email |-> None, amount |-> None, query |-> None]

(* Mutant: an amount that is already known is kept when the order changes.   *)
update_context_KeepsAmount(tool, r, ctx) ==
    CASE /\ tool = "crm" /\ r.success
         /\ r.id # None /\ r.status \notin {"not_found", "UNKNOWN"} ->
            [ctx EXCEPT !.customer_id = r.id]
      [] tool = "order_lookup" /\ r.success /\ r.id # None ->
            [ctx EXCEPT !.order_id = r.id, !.amount = IF @ = None THEN r.amount ELSE @]
      [] OTHER -> ctx

(* context.update(_update_context(tool, result)).  The e-mail that comes    *)
(* with a customer is not kept: once customer_id is set nothing reads it.   *)
update_context(tool, r, ctx) ==
    CASE /\ tool = "crm" /\ r.success
         /\ r.id # None /\ r.status \notin {"not_found", "UNKNOWN"} ->
            [ctx EXCEPT !.customer_id = r.id]
      [] tool = "order_lookup" /\ r.success /\ r.id # None ->
            [ctx EXCEPT !.order_id = r.id,
                        !.amount = IF r.amount # None THEN r.amount ELSE @]
      [] OTHER -> ctx

(* _classify_failure: the category predicted from success/data alone.       *)
classify_failure(tool, r) ==
    CASE ~r.success -> "timeout"
      [] r.status = "UNKNOWN" \/ (tool = "order_lookup" /\ r.flagged) -> "ambiguous_data"
      [] OTHER -> "wrong_result"
=============================================================================
