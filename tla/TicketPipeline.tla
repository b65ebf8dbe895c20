--------------------------- MODULE TicketPipeline ---------------------------
(***************************************************************************)
(* The LangGraph pipeline of src/graph/pipeline.py, for one ticket:        *)
(*                                                                         *)
(*   intake -> planner -> executor -> critic -+-> response -+-> escalation *)
(*                ^                           |             |       |      *)
(*                +---------- replan ---------+             +-> write_memory*)
(*                                                                         *)
(* One action per node, except the executor, whose loop takes one step per *)
(* listed tool so that a call that raises, or one that poisons the shared  *)
(* context, has its place between two dispatches.  What the language models*)
(* answer is chosen nondeterministically; a failed or unparsable answer    *)
(* takes the same path as no language model.                               *)
(***************************************************************************)
EXTENDS ToolAdapter

CONSTANTS
    MAX_ITERATIONS,  \* plan/execute/judge rounds before the ticket is given up
    UseLLM,          \* settings.use_llm
    Tickets,         \* the tickets that may be submitted
    LLMPlans,        \* plans the planner model may answer, once filtered
    LLMVerdicts,     \* sets of tools the critic model may name as failed
    StoreMayFail     \* whether a write to the memory store may raise

ASSUME IterationsAssumption == MAX_ITERATIONS \in Nat \ {0}
ASSUME LLMAssumption == /\ UseLLM \in BOOLEAN
                        /\ StoreMayFail \in BOOLEAN
                        /\ LLMPlans \subseteq PlansOver(ToolNames)
                        /\ LLMVerdicts \subseteq SUBSET ToolNames

Categories == {"timeout", "ambiguous_data", "wrong_result"}

(* INTENT_TOOLS.get(intent, ["kb_search"])                                  *)
INTENT_TOOLS(intent) ==
    CASE intent = "refund_request" -> {"crm", "order_lookup", "refund"}
      [] intent = "order_status" -> {"crm", "order_lookup"}
      [] intent = "billing_dispute" -> {"crm", "order_lookup", "kb_search", "refund"}
      [] intent = "account_issue" -> {"crm", "kb_search"}
      [] intent = "complaint_escalation" -> {"crm", "order_lookup", "kb_search"}
      [] OTHER -> {"kb_search"}

(* A ticket: what the intake regexes find in the message, and whether there *)
(* is a message at all.                                                     *)
TicketType == [intent : STRING, customer_id : Ids, order_id : Ids, email : Ids,
               amount : {None, "message"}, message : BOOLEAN]

ASSUME TicketsAssumption ==
    /\ Tickets \subseteq TicketType
    /\ \A t \in Tickets :
          ~t.message => t.order_id = None /\ t.email = None /\ t.amount = None

VARIABLES
    node,                \* the node about to run, "END", or "raised"
    ticket,              \* the submission run_ticket was called with
    context,             \* PipelineState["context"] / the executor's copy of it
    expected_tools, pending_tools,
    dag,                 \* the plan of this iteration
    todo,                \* what the executor has still to walk of it
    tool_calls_made,     \* every call of every iteration, in order
    iteration, replanning_count, predicted_category,
    resolved, escalate,
    memory               \* the entries this ticket left in the client's store

vars == <<node, ticket, context, expected_tools, pending_tools, dag, todo,
          tool_calls_made, iteration, replanning_count, predicted_category,
          resolved, escalate, memory>>

Calls == [tool : ToolNames, params : Params, result : Results, iteration : 1..MAX_ITERATIONS]

usable(call) == is_usable(call.tool, call.params, call.result)

(* The tools with a usable call: the executor's `succeeded`, which starts   *)
(* from the usable calls of earlier iterations.                             *)
UsableTools(calls) == {calls[i].tool : i \in {j \in DOMAIN calls : usable(calls[j])}}
Succeeded == UsableTools(tool_calls_made)

Init ==
    /\ node = "intake"
    /\ ticket \in Tickets
    /\ context = [customer_id |-> None, order_id |-> None, email |-> None, amount |-> None,
                  customer_message |-> None]
    /\ expected_tools = {} /\ pending_tools = {}
    /\ dag = <<>> /\ todo = <<>> /\ tool_calls_made = <<>>
    /\ iteration = 0 /\ replanning_count = 0 /\ predicted_category = None
    /\ resolved = FALSE /\ escalate = FALSE
    /\ memory = {}

-----------------------------------------------------------------------------
(* intake_node: the context gets the identifiers found in the message, and  *)
(* never the message itself.                                                *)
Intake ==
    /\ node = "intake"
    /\ node' = "planner"
    /\ context' = [customer_id |-> ticket.customer_id, order_id |-> ticket.order_id,
                   email |-> ticket.email, amount |-> ticket.amount,
                   customer_message |-> None]
    /\ expected_tools' = INTENT_TOOLS(ticket.intent)
    /\ pending_tools' = INTENT_TOOLS(ticket.intent)
    /\ iteration' = 0 /\ replanning_count' = 0
    /\ tool_calls_made' = <<>>
    /\ escalate' = FALSE
    /\ UNCHANGED <<ticket, dag, todo, predicted_category, resolved, memory>>

StartIteration(plan) ==
    /\ node = "planner"
    /\ node' = "executor"
    /\ dag' = plan /\ todo' = plan
    /\ iteration' = iteration + 1
    /\ UNCHANGED <<ticket, context, expected_tools, pending_tools, tool_calls_made,
                   replanning_count, predicted_category, resolved, escalate, memory>>

(* planner_node without a language model, with an empty message, or after   *)
(* the call failed or its answer did not parse.                             *)
PlanFallback == StartIteration(from_pending_tools(pending_tools))

(* planner_node with a parsed answer.  The answer is filtered to the        *)
(* pending tools and otherwise taken as it is: layers may be empty, a tool  *)
(* may be missing or listed twice, dependencies may come late.              *)
LLMAnswers(pending) == {plan \in LLMPlans : all_tools(plan) \subseteq pending}

PlanLLM ==
    /\ UseLLM /\ ticket.message
    /\ \E plan \in LLMAnswers(pending_tools) : StartIteration(plan)

-----------------------------------------------------------------------------
(* executor_node                                                            *)
NextTool == Head(Head(todo))
RestOfPlan == <<Tail(Head(todo))>> \o Tail(todo)

AtTool == node = "executor" /\ todo # <<>> /\ Head(todo) # <<>>

(* Mutant: a dependency counts as met once it was called, whatever came back. *)
DependenciesMet_Called(tool) ==
    TOOL_DEPENDENCIES[tool] \subseteq {tool_calls_made[i].tool : i \in DOMAIN tool_calls_made}

DependenciesMet(tool) == TOOL_DEPENDENCIES[tool] \subseteq Succeeded

(* The dependency gate: a tool whose dependency has no usable call is       *)
(* passed over, without a record.                                           *)
SkipTool ==
    /\ AtTool
    /\ ~DependenciesMet(NextTool)
    /\ todo' = RestOfPlan
    /\ UNCHANGED <<node, ticket, context, expected_tools, pending_tools, dag,
                   tool_calls_made, iteration, replanning_count, predicted_category,
                   resolved, escalate, memory>>

(* One dispatch.  The context takes over what the result says whether or    *)
(* not the call is usable.                                                  *)
Dispatch ==
    /\ AtTool
    /\ DependenciesMet(NextTool)
    /\ LET params == prepare_params(NextTool, context)
       IN  \E result \in dispatch(NextTool, params) :
             /\ tool_calls_made' = Append(tool_calls_made,
                    [tool |-> NextTool, params |-> params, result |-> result,
                     iteration |-> iteration])
             /\ context' = update_context(NextTool, result, context)
    /\ todo' = RestOfPlan
    /\ UNCHANGED <<node, ticket, expected_tools, pending_tools, dag, iteration,
                   replanning_count, predicted_category, resolved, escalate, memory>>

(* A backend raises: app.invoke propagates, and nothing is written.         *)
DispatchRaises ==
    /\ AtTool
    /\ DependenciesMet(NextTool)
    /\ may_raise(NextTool, prepare_params(NextTool, context))
    /\ node' = "raised"
    /\ UNCHANGED <<ticket, context, expected_tools, pending_tools, dag, todo,
                   tool_calls_made, iteration, replanning_count, predicted_category,
                   resolved, escalate, memory>>

NextLayer ==
    /\ node = "executor" /\ todo # <<>> /\ Head(todo) = <<>>
    /\ todo' = Tail(todo)
    /\ UNCHANGED <<node, ticket, context, expected_tools, pending_tools, dag,
                   tool_calls_made, iteration, replanning_count, predicted_category,
                   resolved, escalate, memory>>

ExecutorDone ==
    /\ node = "executor" /\ todo = <<>>
    /\ node' = "critic"
    /\ UNCHANGED <<ticket, context, expected_tools, pending_tools, dag, todo,
                   tool_calls_made, iteration, replanning_count, predicted_category,
                   resolved, escalate, memory>>

-----------------------------------------------------------------------------
(* critic_node: the critic sees only the calls of this iteration.           *)
ThisIteration == {i \in DOMAIN tool_calls_made : tool_calls_made[i].iteration = iteration}
SucceededNow == {tool_calls_made[i].tool : i \in {j \in ThisIteration : usable(tool_calls_made[j])}}
QuickFailed == {tool_calls_made[i].tool : i \in {j \in ThisIteration : ~usable(tool_calls_made[j])}}

(* The category of the first entry of the alphabetically first failed tool. *)
FailedTool == LET rank(t) == CHOOSE k \in DOMAIN SortedToolNames : SortedToolNames[k] = t
              IN  CHOOSE t \in QuickFailed : \A u \in QuickFailed : rank(t) <= rank(u)
FailedEntry == CHOOSE i \in ThisIteration :
                   /\ tool_calls_made[i].tool = FailedTool
                   /\ \A j \in ThisIteration : tool_calls_made[j].tool = FailedTool => i <= j
PredictedCategory ==
    classify_failure(FailedTool, tool_calls_made[FailedEntry].result)

(* Mutant: only the tools that failed are tried again, not the skipped ones. *)
Remaining_ForgetsSkipped(verdict_resolved, failed_tools) ==
    IF verdict_resolved THEN pending_tools \ SucceededNow ELSE failed_tools

(* Mutant: the tools that succeeded in a failed round stay pending.          *)
Remaining_KeepsSucceeded(verdict_resolved, failed_tools) ==
    IF verdict_resolved THEN pending_tools \ SucceededNow
    ELSE failed_tools \cup pending_tools

(* Mutant: one round too many.                                               *)
GivesUp_LateStop(pending) == pending = {} \/ iteration > MAX_ITERATIONS

(* What the pipeline makes of the critic's output, and _route_after_critic. *)
Remaining(verdict_resolved, failed_tools) ==
    IF verdict_resolved THEN pending_tools \ SucceededNow
    ELSE failed_tools \cup (pending_tools \ SucceededNow)

GivesUp(pending) == pending = {} \/ iteration >= MAX_ITERATIONS

Judge(verdict_resolved, failed_tools, category) ==
    /\ node = "critic"
    /\ pending_tools' = Remaining(verdict_resolved, failed_tools)
    /\ replanning_count' = IF verdict_resolved THEN replanning_count ELSE replanning_count + 1
    /\ predicted_category' = IF category # None THEN category ELSE predicted_category
    /\ node' = IF GivesUp(Remaining(verdict_resolved, failed_tools))
               THEN "response" ELSE "planner"
    /\ UNCHANGED <<ticket, context, expected_tools, dag, todo, tool_calls_made,
                   iteration, resolved, escalate, memory>>

(* Mutant: a clean round counts as a replan.                                 *)
CriticConfirms_CountsReplan == QuickFailed = {} /\ Judge(FALSE, {}, None)

CriticConfirms == QuickFailed = {} /\ Judge(TRUE, {}, None)

(* No language model, or its answer failed.  A ToolFailureMemory hit would  *)
(* give the same verdict, and no stored entry matches the failure_type      *)
(* filter of the lookup: ChromaStore.write keeps no such metadata.          *)
CriticGate == QuickFailed # {} /\ Judge(FALSE, QuickFailed, PredictedCategory)

(* The model's own verdict: an empty list of failed tools means the gate's. *)
CriticLLM ==
    /\ UseLLM /\ QuickFailed # {}
    /\ \E verdict_resolved \in BOOLEAN, named \in LLMVerdicts, category \in Categories :
          Judge(verdict_resolved, IF named = {} THEN QuickFailed ELSE named, category)

-----------------------------------------------------------------------------
(* response_node and _route_after_response                                  *)
(* Mutant: only the answers of the last round count.                         *)
check_resolved_ThisRound == \A tool \in expected_tools : tool \in SucceededNow

check_resolved == \A tool \in expected_tools : tool \in Succeeded

Respond ==
    /\ node = "response"
    /\ resolved' = check_resolved
    /\ node' = IF check_resolved THEN "write_memory" ELSE "escalation"
    /\ UNCHANGED <<ticket, context, expected_tools, pending_tools, dag, todo,
                   tool_calls_made, iteration, replanning_count, predicted_category,
                   escalate, memory>>

(* Mutant: the edge out of escalation leads back to response.                *)
Escalate_BackToResponse ==
    /\ node = "escalation"
    /\ escalate' = ~resolved
    /\ node' = "response"
    /\ UNCHANGED <<ticket, context, expected_tools, pending_tools, dag, todo,
                   tool_calls_made, iteration, replanning_count, predicted_category,
                   resolved, memory>>

(* escalation_node *)
Escalate ==
    /\ node = "escalation"
    /\ escalate' = ~resolved
    /\ node' = "write_memory"
    /\ UNCHANGED <<ticket, context, expected_tools, pending_tools, dag, todo,
                   tool_calls_made, iteration, replanning_count, predicted_category,
                   resolved, memory>>

(* write_memory_node.  write_plan_success takes the plan of the last        *)
(* iteration and drops one that is not dependency ordered; every unusable   *)
(* call of an unresolved ticket is filed under the last predicted category. *)
EpisodicEntry == [store |-> "episodic", plan |-> dag,
                  outcome |-> IF resolved THEN "success" ELSE "failure"]
PlanSuccessEntries ==
    IF resolved /\ is_dependency_ordered(dag)
    THEN {[store |-> "plan_success", plan |-> dag]} ELSE {}
ToolFailureEntries ==
    IF resolved THEN {}
    ELSE {[store |-> "tool_failure", tool |-> tool_calls_made[i].tool,
           failure_type |-> IF predicted_category = None THEN "unknown" ELSE predicted_category] :
              i \in {j \in DOMAIN tool_calls_made : ~usable(tool_calls_made[j])}}

EntriesToWrite == {EpisodicEntry} \cup PlanSuccessEntries \cup ToolFailureEntries

(* Each write swallows its own exception, so any of them may be missing.    *)
WriteMemory ==
    /\ node = "write_memory"
    /\ \E lost \in IF StoreMayFail THEN SUBSET EntriesToWrite ELSE {{}} :
          memory' = memory \cup (EntriesToWrite \ lost)
    /\ node' = "END"
    /\ UNCHANGED <<ticket, context, expected_tools, pending_tools, dag, todo,
                   tool_calls_made, iteration, replanning_count, predicted_category,
                   resolved, escalate>>

-----------------------------------------------------------------------------
Finished == node \in {"END", "raised"}

Step == Intake \/ PlanFallback \/ PlanLLM
          \/ SkipTool \/ Dispatch \/ DispatchRaises \/ NextLayer \/ ExecutorDone
          \/ CriticConfirms \/ CriticGate \/ CriticLLM
          \/ Respond \/ Escalate \/ WriteMemory

(* run_ticket has returned or raised; the state is what the caller sees.    *)
Returned == Finished /\ UNCHANGED vars

Next == Step \/ Returned

Spec == Init /\ [][Next]_vars

(* app.invoke runs the nodes one after the other in the calling thread, and *)
(* every tool and model call returns or raises (each client has a timeout). *)
FairSpec == Spec /\ WF_vars(Step)
-----------------------------------------------------------------------------
Nodes == {"intake", "planner", "executor", "critic", "response", "escalation",
          "write_memory", "END", "raised"}
Stores == {"episodic", "plan_success", "tool_failure"}

(* Every variable has its type, and no ticket is planned more than          *)
(* MAX_ITERATIONS times (_route_after_critic).                              *)
TypeOK ==
    /\ node \in Nodes
    /\ ticket \in Tickets
    /\ context \in Contexts
    /\ expected_tools \subseteq Tools /\ pending_tools \subseteq ToolNames
    /\ dag \in PlansOver(ToolNames) /\ todo \in PlansOver(ToolNames)
    /\ tool_calls_made \in Seq(Calls)
    /\ iteration \in 0..MAX_ITERATIONS
    /\ replanning_count \in 0..iteration
    /\ predicted_category \in Categories \cup {None}
    /\ resolved \in BOOLEAN /\ escalate \in BOOLEAN
    /\ \A e \in memory : e.store \in Stores

(* Whatever the planner leaves out, the executor skips or the critic model  *)
(* claims, an expected tool stays pending until it has a usable call        *)
(* (critic_node's update of pending_tools).                                 *)
NoExpectedToolLost ==
    node # "intake" => expected_tools \subseteq pending_tools \cup Succeeded

(* A ticket is handed to a human only after every planning round was used:  *)
(* stopping early because nothing is pending always means it resolved       *)
(* (_route_after_critic against _check_resolved).                           *)
EscalatesOnlyWhenExhausted ==
    node = "escalation" \/ escalate => ~resolved /\ iteration = MAX_ITERATIONS

(* A refund is dispatched only after an order lookup that came back usable, *)
(* in this iteration or an earlier one (the executor's dependency gate).    *)
RefundGated ==
    \A i \in DOMAIN tool_calls_made : tool_calls_made[i].tool = "refund" =>
        \E j \in 1..(i-1) : tool_calls_made[j].tool = "order_lookup" /\ usable(tool_calls_made[j])

(* The amount a refund is dispatched with is the total of the order it is   *)
(* dispatched for, never the figure the customer typed nor the total of an  *)
(* order looked up before (_update_context keeps the pair together).        *)
RefundAmountMatchesOrder ==
    \A i \in DOMAIN tool_calls_made : tool_calls_made[i].tool = "refund" =>
        LET p == tool_calls_made[i].params IN p.id # None /\ p.amount = p.id

(* Without a language model no tool is dispatched again once it has a       *)
(* usable call: a refund that went through is not issued twice by replanning.*)
NoRedispatchAfterUsable ==
    \A i, j \in DOMAIN tool_calls_made :
        i < j /\ tool_calls_made[i].tool = tool_calls_made[j].tool
            => ~usable(tool_calls_made[i])

(* Without a language model replanning_count is the number of rounds whose  *)
(* results were not accepted: all of them for a ticket given up, all but    *)
(* the last for one whose tools all answered.                               *)
ReplanCountAgrees ==
    node \in {"response", "escalation", "write_memory", "END"} =>
        replanning_count = IF pending_tools = {} THEN iteration - 1 ELSE iteration

(* Every refund is for the order the ticket names.  The Stripe backends     *)
(* give this (a PaymentIntent answers under the id it was asked for).       *)
RefundsNamedOrder ==
    \A i \in DOMAIN tool_calls_made : tool_calls_made[i].tool = "refund" =>
        tool_calls_made[i].params.id = ticket.order_id

(* Every ticket comes to an end: resolved, escalated, or with the exception *)
(* that the API turns into a 502.                                           *)
Termination == <>Finished

(* The verdict a caller reads off the final state.                          *)
Verdict ==
    CASE node = "intake" -> "new"
      [] node = "raised" -> "raised"
      [] node = "END" -> IF resolved THEN (IF escalate THEN "both" ELSE "resolved")
                         ELSE IF escalate THEN "escalated" ELSE "neither"
      [] OTHER -> "open"

(* The pipeline implements the handling of a ticket: the verdict it returns *)
(* is never both nor neither, and is the one its tool calls and rounds      *)
(* justify, whatever the models answered in between.                        *)
Handling == INSTANCE TicketHandling WITH
    AllTools <- ToolNames, Requires <- TOOL_DEPENDENCIES, Rounds <- MAX_ITERATIONS,
    Careful <- ~UseLLM, phase <- Verdict, needed <- expected_tools, answered <- Succeeded,
    round <- iteration
HandlesTicket == Handling!Spec

(* Why it ends: no step goes back.  Every one begins a round, of which there *)
(* are MAX_ITERATIONS, or goes on within the round, or walks the plan on.   *)
Place == [n \in Nodes |->
    CASE n = "intake" -> 0 [] n = "executor" -> 1 [] n = "critic" -> 2 [] n = "planner" -> 3
      [] n = "response" -> 4 [] n = "escalation" -> 5 [] n = "write_memory" -> 6 [] OTHER -> 7]
GoesOn ==
    \/ Place[node'] > Place[node]
    \/ /\ node = "executor" /\ node' = node /\ todo # <<>>
       /\ \/ Len(todo') < Len(todo)
          \/ Len(todo') = Len(todo) /\ Len(Head(todo')) < Len(Head(todo))
StepsForward ==
    \/ iteration' = iteration + 1 /\ iteration < MAX_ITERATIONS
    \/ iteration' = iteration /\ GoesOn
NoStepBack == [][StepsForward]_vars

(* Without a language model the plan of a resolved ticket passes the gate of *)
(* PlanSuccessMemory: a resolution is always memorised (write_plan_success). *)
ResolvedPlanMemorised ==
    node = "write_memory" /\ resolved => PlanSuccessEntries # {}

(* Once a lookup has been usable, the context holds a looked-up order       *)
(* together with that order's total, whatever later lookups return.         *)
ContextHoldsLookedUpOrder ==
    "order_lookup" \in Succeeded => context.order_id # None /\ context.amount = context.order_id

(* Where the counters stand at each node, which bounds them.                *)
CountersByNode ==
    /\ node \in {"executor", "critic"} => replanning_count < iteration
    /\ node = "planner" => iteration < MAX_ITERATIONS

(* The graph leaves the loop only with nothing pending or no round left, and*)
(* takes the edge to escalation only for a ticket that is not resolved.     *)
RoutingByNode ==
    /\ node \in {"response", "escalation"} => pending_tools = {} \/ iteration = MAX_ITERATIONS
    /\ escalate => node \in {"write_memory", "END"}
=============================================================================
