------------------------ MODULE TicketPipelineProofs ------------------------
(***************************************************************************)
(* Proofs about the ticket pipeline, for every set of tickets, tool table, *)
(* failure mix, number of iterations and model answer.                     *)
(***************************************************************************)
EXTENDS TicketPipeline, TLAPS

-----------------------------------------------------------------------------
(* What the operators of ToolAdapter and ExecutionDAG return.               *)

(* The deterministic plan is a plan over the registered and unknown names.  *)
LEMMA PickType == ASSUME NEW pending, NEW k, NEW t \in ToolNames
                  PROVE  Pick(t, pending, k) \in Seq(ToolNames)
  BY DEF Pick

LEMMA NamesType == /\ "crm" \in ToolNames /\ "kb_search" \in ToolNames
                   /\ "order_lookup" \in ToolNames /\ "refund" \in ToolNames
                   /\ UnknownTool \in ToolNames
  BY DEF ToolNames, Tools

LEMMA LayerType == ASSUME NEW pending, NEW k
                   PROVE  IfPopulated(LayerOf(pending, k)) \in PlansOver(ToolNames)
  <1>1. LayerOf(pending, k) \in Seq(ToolNames)
    <2>1. /\ Pick("crm", pending, k) \in Seq(ToolNames)
          /\ Pick("kb_search", pending, k) \in Seq(ToolNames)
          /\ Pick("order_lookup", pending, k) \in Seq(ToolNames)
          /\ Pick("refund", pending, k) \in Seq(ToolNames)
          /\ Pick(UnknownTool, pending, k) \in Seq(ToolNames)
      BY PickType, NamesType
    <2> QED BY <2>1 DEF LayerOf
  <1> QED BY <1>1 DEF IfPopulated, PlansOver

LEMMA FallbackPlanType == ASSUME NEW pending
                          PROVE  from_pending_tools(pending) \in PlansOver(ToolNames)
  <1>1. \A k \in {0, 1, 2, 99} : IfPopulated(LayerOf(pending, k)) \in Seq(Seq(ToolNames))
    BY LayerType DEF PlansOver
  <1> QED BY <1>1 DEF from_pending_tools, PlansOver

(* Parameters, results and the updated context have their types.            *)
LEMMA ParamsType == ASSUME NEW tool \in ToolNames, NEW ctx \in Contexts
                    PROVE  prepare_params(tool, ctx) \in Params
  BY DEF prepare_params, Params, Contexts, Ids, Amounts, Texts

LEMMA FirstOtherType ==
  ASSUME NEW id
  PROVE  /\ FirstOther(Customers, id) \in CustomerIds
         /\ FirstOther(Orders, id) \in OrderIds
  <1>1. 1 \in DOMAIN Customers /\ 2 \in DOMAIN Customers
        /\ 1 \in DOMAIN Orders /\ 2 \in DOMAIN Orders
    BY TablesAssumption
  <1> QED BY <1>1 DEF FirstOther, CustomerIds, OrderIds, Elements

LEMMA PayloadType ==
  ASSUME NEW id \in Ids, NEW status \in Statuses, NEW complete \in BOOLEAN,
         NEW flagged \in BOOLEAN, NEW amount \in Amounts
  PROVE  Payload(id, status, complete, flagged, amount) \in Results
  BY DEF Payload, Results

LEMMA FailedType == Failed \in Results
  BY DEF Failed, Results, Ids, Amounts, Statuses

LEMMA SimulatedType ==
  ASSUME NEW tool \in ToolNames, NEW p \in Params, NEW f
  PROVE  simulated_dispatch(tool, p, f) \in Results
  <1> /\ p.id \in Ids /\ None \in Ids /\ None \in Amounts /\ "ORD-9999" \in Ids /\ "ORD-8888" \in Ids
      /\ CustomerIds \subseteq Ids /\ OrderIds \subseteq Ids /\ Ids \subseteq Amounts
    BY DEF Params, Ids, Amounts
  <1>1. get_customer(p, f) \in Results
    <2>1. resolve_customer(p) \in Ids
      BY DEF resolve_customer
    <2> QED BY <2>1, FirstOtherType, PayloadType, FailedType DEF get_customer, Statuses
  <1>2. lookup_order(p, f) \in Results
    BY FirstOtherType, PayloadType, FailedType DEF lookup_order, Statuses
  <1>3. issue_refund(p, f) \in Results
    BY PayloadType, FailedType DEF issue_refund, Statuses
  <1>4. search_kb(p, f) \in Results
    BY PayloadType, FailedType DEF search_kb, Statuses
  <1> QED BY <1>1, <1>2, <1>3, <1>4, FailedType DEF simulated_dispatch

LEMMA RealType ==
  ASSUME NEW tool \in ToolNames, NEW p \in Params, NEW r \in real_dispatch(tool, p)
  PROVE  r \in Results
  <1> /\ p.id \in Ids /\ p.email \in Ids /\ None \in Ids /\ None \in Amounts /\ Ids \subseteq Amounts
    BY DEF Params, Ids, Amounts
  <1>1. CrmBackend(p) \subseteq Results
    BY ZenonT(30), PayloadType DEF CrmBackend, Statuses
  <1>2. OrderBackend(p) \subseteq Results
    BY PayloadType DEF OrderBackend, Statuses
  <1>3. RefundBackend(p) \subseteq Results
    BY PayloadType DEF RefundBackend, Statuses
  <1>4. KbSearchBackend(p) \subseteq Results
    BY PayloadType DEF KbSearchBackend, Statuses
  <1> QED BY <1>1, <1>2, <1>3, <1>4, FailedType DEF real_dispatch

LEMMA DispatchType ==
  ASSUME NEW tool \in ToolNames, NEW p \in Params, NEW r \in dispatch(tool, p)
  PROVE  r \in Results
  BY SimulatedType, RealType DEF dispatch

LEMMA UpdateType ==
  ASSUME NEW tool \in ToolNames, NEW r \in Results, NEW ctx \in Contexts
  PROVE  update_context(tool, r, ctx) \in Contexts
  BY DEF update_context, Results, Contexts

(* The category the critic predicts is one of three.                        *)
LEMMA CategoryType == \A tool, r : classify_failure(tool, r) \in Categories
  BY DEF classify_failure, Categories

(* A call adds its tool to the usable ones exactly when it is usable.       *)
LEMMA UsableToolsAppend ==
  ASSUME NEW calls \in Seq(Calls), NEW c \in Calls
  PROVE  UsableTools(Append(calls, c)) = UsableTools(calls) \cup (IF usable(c) THEN {c.tool} ELSE {})
  <1> DEFINE new == Append(calls, c)
  <1>1. /\ DOMAIN new = 1..(Len(calls) + 1) /\ new[Len(calls) + 1] = c
        /\ \A i \in 1..Len(calls) : new[i] = calls[i]
    OBVIOUS
  <1>2. DOMAIN calls = 1..Len(calls) /\ Len(calls) \in Nat
    OBVIOUS
  <1> HIDE DEF new
  <1>3. UsableTools(new) \subseteq UsableTools(calls) \cup (IF usable(c) THEN {c.tool} ELSE {})
    <2>1. SUFFICES ASSUME NEW i \in DOMAIN new, usable(new[i])
                   PROVE  new[i].tool \in UsableTools(calls) \cup (IF usable(c) THEN {c.tool} ELSE {})
      BY DEF UsableTools
    <2>2. CASE i \in 1..Len(calls)
      BY <2>1, <2>2, <1>1, <1>2 DEF UsableTools
    <2>3. CASE i = Len(calls) + 1
      BY <2>1, <2>3, <1>1
    <2> QED BY <2>2, <2>3, <1>1, <1>2
  <1>4. UsableTools(calls) \subseteq UsableTools(new)
    BY <1>1, <1>2 DEF UsableTools
  <1>5. usable(c) => c.tool \in UsableTools(new)
    BY <1>1, <1>2 DEF UsableTools
  <1> QED BY <1>3, <1>4, <1>5 DEF new

-----------------------------------------------------------------------------
(* Types and counters.                                                      *)

TypeInv == TypeOK /\ CountersByNode

LEMMA TicketFields ==
  ASSUME NEW t \in Tickets
  PROVE  /\ t.customer_id \in Ids /\ t.order_id \in Ids /\ t.email \in Ids
         /\ t.amount \in Amounts
  BY TicketsAssumption DEF TicketType, Amounts, Ids

LEMMA IntentToolsType == \A intent : INTENT_TOOLS(intent) \subseteq Tools
  BY DEF INTENT_TOOLS, Tools

LEMMA PlanHead ==
  ASSUME NEW plan \in PlansOver(ToolNames), plan # <<>>
  PROVE  /\ Head(plan) \in Seq(ToolNames) /\ Tail(plan) \in PlansOver(ToolNames)
         /\ Head(plan) # <<>> => /\ Head(Head(plan)) \in ToolNames
                                 /\ <<Tail(Head(plan))>> \o Tail(plan) \in PlansOver(ToolNames)
  <1>1. Head(plan) \in Seq(ToolNames) /\ Tail(plan) \in Seq(Seq(ToolNames))
    BY DEF PlansOver
  <1>2. ASSUME Head(plan) # <<>>
        PROVE  Head(Head(plan)) \in ToolNames /\ Tail(Head(plan)) \in Seq(ToolNames)
    BY <1>1, <1>2
  <1>3. ASSUME Tail(Head(plan)) \in Seq(ToolNames)
        PROVE  <<Tail(Head(plan))>> \o Tail(plan) \in Seq(Seq(ToolNames))
    BY <1>1, <1>3
  <1> QED BY <1>1, <1>2, <1>3 DEF PlansOver

LEMMA TypeInit == Init => TypeInv
  <1> SUFFICES ASSUME Init PROVE TypeInv
    OBVIOUS
  <1>1. context \in Contexts
    BY DEF Init, Contexts, Ids, Amounts, Texts
  <1>2. dag \in PlansOver(ToolNames) /\ todo \in PlansOver(ToolNames) /\ tool_calls_made \in Seq(Calls)
    BY DEF Init, PlansOver
  <1>3. iteration \in 0..MAX_ITERATIONS /\ replanning_count \in 0..iteration
    BY IterationsAssumption DEF Init
  <1> QED BY <1>1, <1>2, <1>3 DEF Init, TypeInv, TypeOK, CountersByNode, Nodes

LEMMA DispatchTypes ==
  ASSUME TypeInv, Dispatch
  PROVE  TypeInv'
  <1>0. /\ node = "executor" /\ todo # <<>> /\ Head(todo) # <<>>
        /\ UNCHANGED <<node, ticket, expected_tools, pending_tools, dag, iteration,
                       replanning_count, predicted_category, resolved, escalate, memory>>
        /\ todo' = RestOfPlan
    BY DEF Dispatch, AtTool
  <1>1. NextTool \in ToolNames /\ RestOfPlan \in PlansOver(ToolNames)
    BY <1>0, PlanHead DEF NextTool, RestOfPlan, TypeInv, TypeOK
  <1> DEFINE params == prepare_params(NextTool, context)
  <1>2. params \in Params
    BY <1>1, ParamsType DEF TypeInv, TypeOK
  <1>3. PICK result \in dispatch(NextTool, params) :
          /\ tool_calls_made' = Append(tool_calls_made,
                 [tool |-> NextTool, params |-> params, result |-> result,
                  iteration |-> iteration])
          /\ context' = update_context(NextTool, result, context)
    BY DEF Dispatch
  <1> HIDE DEF params
  <1>4. result \in Results
    BY <1>1, <1>2, DispatchType
  <1>5. context' \in Contexts
    BY <1>1, <1>3, <1>4, UpdateType DEF TypeInv, TypeOK
  <1>6. iteration \in 1..MAX_ITERATIONS
    BY <1>0, IterationsAssumption DEF TypeInv, TypeOK, CountersByNode
  <1>7. [tool |-> NextTool, params |-> params, result |-> result, iteration |-> iteration] \in Calls
    BY <1>1, <1>2, <1>4, <1>6 DEF Calls
  <1>8. tool_calls_made' \in Seq(Calls)
    <2>1. tool_calls_made \in Seq(Calls)
      BY DEF TypeInv, TypeOK
    <2> QED BY <2>1, <1>3, <1>7
  <1> QED BY <1>0, <1>1, <1>5, <1>8 DEF TypeInv, TypeOK, CountersByNode

LEMMA JudgeTypes ==
  ASSUME TypeInv, NEW vr \in BOOLEAN, NEW failed \in SUBSET ToolNames,
         NEW category \in Categories \cup {None}, Judge(vr, failed, category)
  PROVE  TypeInv'
  <1>1. pending_tools' \subseteq ToolNames
    BY DEF Judge, Remaining, TypeInv, TypeOK
  <1>2. replanning_count' \in 0..iteration' /\ iteration' \in 0..MAX_ITERATIONS
    BY IterationsAssumption DEF Judge, TypeInv, TypeOK, CountersByNode
  <1>3. node' \in {"response", "planner"} /\ (node' = "planner" => iteration' < MAX_ITERATIONS)
    BY IterationsAssumption DEF Judge, GivesUp, TypeInv, TypeOK
  <1>4. predicted_category' \in Categories \cup {None}
    BY DEF Judge, TypeInv, TypeOK
  <1> QED BY <1>1, <1>2, <1>3, <1>4 DEF Judge, TypeInv, TypeOK, CountersByNode, Nodes

(* The tools a failed round names are among those called.                   *)
LEMMA CalledTools == TypeInv => /\ QuickFailed \subseteq ToolNames /\ SucceededNow \subseteq Succeeded
                                /\ Succeeded \subseteq ToolNames
  <1> SUFFICES ASSUME TypeInv
               PROVE  /\ QuickFailed \subseteq ToolNames /\ SucceededNow \subseteq Succeeded
                      /\ Succeeded \subseteq ToolNames
    OBVIOUS
  <1>1. \A i \in DOMAIN tool_calls_made : tool_calls_made[i].tool \in ToolNames
    <2>1. \A i \in DOMAIN tool_calls_made : tool_calls_made[i] \in Calls
      <3>1. tool_calls_made \in Seq(Calls)
        BY DEF TypeInv, TypeOK
      <3> QED BY <3>1
    <2> QED BY <2>1 DEF Calls
  <1> QED BY <1>1 DEF QuickFailed, SucceededNow, Succeeded, UsableTools, ThisIteration

LEMMA PlanTypes ==
  ASSUME TypeInv, NEW plan \in PlansOver(ToolNames), StartIteration(plan)
  PROVE  TypeInv'
  BY IterationsAssumption DEF StartIteration, TypeInv, TypeOK, CountersByNode, Nodes

LEMMA MemoryTypes == \A e \in EntriesToWrite : e.store \in Stores
  BY DEF EntriesToWrite, EpisodicEntry, PlanSuccessEntries, ToolFailureEntries, Stores

LEMMA TypeNext == TypeInv /\ [Next]_vars => TypeInv'
  <1> SUFFICES ASSUME TypeInv, [Next]_vars PROVE TypeInv'
    OBVIOUS
  <1>1. CASE Intake
    <2>1. context' \in Contexts
      BY <1>1, TicketFields DEF Intake, TypeInv, TypeOK, Contexts, Texts
    <2>2. expected_tools' \subseteq Tools /\ pending_tools' \subseteq ToolNames
      BY <1>1, IntentToolsType DEF Intake, ToolNames
    <2>3. /\ iteration' = 0 /\ replanning_count' = 0 /\ 0 < MAX_ITERATIONS
          /\ tool_calls_made' \in Seq(Calls) /\ node' = "planner" /\ escalate' = FALSE
      BY <1>1, IterationsAssumption DEF Intake
    <2>4. UNCHANGED <<ticket, dag, todo, predicted_category, resolved, memory>>
      BY <1>1 DEF Intake
    <2>5. iteration' \in 0..MAX_ITERATIONS /\ replanning_count' \in 0..iteration' /\ CountersByNode'
      BY <2>3, IterationsAssumption DEF CountersByNode
    <2> QED BY <2>1, <2>2, <2>3, <2>4, <2>5 DEF TypeInv, TypeOK, Nodes
  <1>2. CASE PlanFallback
    BY <1>2, FallbackPlanType, PlanTypes DEF PlanFallback
  <1>3. CASE PlanLLM
    BY <1>3, LLMAssumption, PlanTypes DEF PlanLLM, LLMAnswers
  <1>4. CASE SkipTool
    <2>1. RestOfPlan \in PlansOver(ToolNames)
      BY <1>4, PlanHead DEF SkipTool, AtTool, RestOfPlan, TypeInv, TypeOK
    <2> QED BY <1>4, <2>1 DEF SkipTool, TypeInv, TypeOK, CountersByNode
  <1>5. CASE Dispatch
    BY <1>5, DispatchTypes
  <1>6. CASE DispatchRaises
    BY <1>6 DEF DispatchRaises, TypeInv, TypeOK, CountersByNode, Nodes
  <1>7. CASE NextLayer
    <2>1. Tail(todo) \in PlansOver(ToolNames)
      BY <1>7, PlanHead DEF NextLayer, TypeInv, TypeOK
    <2> QED BY <1>7, <2>1 DEF NextLayer, TypeInv, TypeOK, CountersByNode
  <1>8. CASE ExecutorDone
    BY <1>8 DEF ExecutorDone, TypeInv, TypeOK, CountersByNode, Nodes
  <1>9. CASE CriticConfirms
    BY <1>9, JudgeTypes DEF CriticConfirms
  <1>10. CASE CriticGate
    BY <1>10, JudgeTypes, CalledTools, CategoryType DEF CriticGate, PredictedCategory
  <1>11. CASE CriticLLM
    <2>1. PICK vr \in BOOLEAN, named \in LLMVerdicts, category \in Categories :
             Judge(vr, IF named = {} THEN QuickFailed ELSE named, category)
      BY <1>11 DEF CriticLLM
    <2>2. (IF named = {} THEN QuickFailed ELSE named) \in SUBSET ToolNames
      BY CalledTools, LLMAssumption
    <2> QED BY <2>1, <2>2, JudgeTypes
  <1>12. CASE Respond
    BY <1>12 DEF Respond, check_resolved, TypeInv, TypeOK, CountersByNode, Nodes
  <1>13. CASE Escalate
    BY <1>13 DEF Escalate, TypeInv, TypeOK, CountersByNode, Nodes
  <1>14. CASE WriteMemory
    <2>1. PICK lost : memory' = memory \cup (EntriesToWrite \ lost)
      BY <1>14 DEF WriteMemory
    <2>2. \A e \in memory' : e.store \in Stores
      BY <2>1, MemoryTypes DEF TypeInv, TypeOK
    <2> QED BY <1>14, <2>2 DEF WriteMemory, TypeInv, TypeOK, CountersByNode, Nodes
  <1>15. CASE UNCHANGED vars
    BY <1>15 DEF vars, TypeInv, TypeOK, CountersByNode
  <1> QED BY <1>1, <1>2, <1>3, <1>4, <1>5, <1>6, <1>7, <1>8, <1>9, <1>10, <1>11, <1>12,
             <1>13, <1>14, <1>15 DEF Next, Step, Returned

(* Every reachable state of every instance is well typed, and the loop runs *)
(* at most MAX_ITERATIONS times.                                            *)
THEOREM TypeCorrect == Spec => []TypeOK
  <1>1. Spec => []TypeInv
    BY TypeInit, TypeNext, PTL DEF Spec
  <1>2. TypeInv => TypeOK
    BY DEF TypeInv
  <1> QED BY <1>1, <1>2, PTL

-----------------------------------------------------------------------------
(* How a step moves the calls, the context and the pending tools.           *)

LEMMA DispatchedCall ==
  ASSUME TypeInv, Dispatch
  PROVE  \E c \in Calls :
            /\ tool_calls_made' = Append(tool_calls_made, c)
            /\ c.params = prepare_params(c.tool, context)
            /\ c.result \in dispatch(c.tool, c.params)
            /\ context' = update_context(c.tool, c.result, context)
            /\ DependenciesMet(c.tool)
            /\ c.tool = NextTool /\ c.iteration = iteration
  <1>0. node = "executor" /\ todo # <<>> /\ Head(todo) # <<>> /\ DependenciesMet(NextTool)
    BY DEF Dispatch, AtTool
  <1>1. NextTool \in ToolNames
    BY <1>0, PlanHead DEF NextTool, TypeInv, TypeOK
  <1> DEFINE params == prepare_params(NextTool, context)
  <1>2. params \in Params
    BY <1>1, ParamsType DEF TypeInv, TypeOK
  <1>3. PICK result \in dispatch(NextTool, params) :
          /\ tool_calls_made' = Append(tool_calls_made,
                 [tool |-> NextTool, params |-> params, result |-> result,
                  iteration |-> iteration])
          /\ context' = update_context(NextTool, result, context)
    BY DEF Dispatch
  <1> HIDE DEF params
  <1> DEFINE c == [tool |-> NextTool, params |-> params, result |-> result,
                   iteration |-> iteration]
  <1>4. result \in Results
    BY <1>1, <1>2, DispatchType
  <1>5. iteration \in 1..MAX_ITERATIONS
    BY <1>0, IterationsAssumption DEF TypeInv, TypeOK, CountersByNode
  <1>6. c \in Calls
    BY <1>1, <1>2, <1>4, <1>5 DEF Calls
  <1>7. c.tool = NextTool /\ c.params = params /\ c.result = result /\ c.iteration = iteration
    OBVIOUS
  <1>8. params = prepare_params(NextTool, context)
    BY DEF params
  <1> HIDE DEF c
  <1>9. tool_calls_made' = Append(tool_calls_made, c)
    BY <1>3 DEF c
  <1> QED BY <1>0, <1>3, <1>6, <1>7, <1>8, <1>9

Judges == \E vr \in BOOLEAN, failed \in SUBSET ToolNames, category \in Categories \cup {None} :
              Judge(vr, failed, category)

LEMMA CriticSteps ==
  ASSUME TypeInv, CriticConfirms \/ CriticGate \/ CriticLLM
  PROVE  Judges
  <1>1. CASE CriticConfirms
    BY <1>1 DEF CriticConfirms, Judges
  <1>2. CASE CriticGate
    BY <1>2, CalledTools, CategoryType DEF CriticGate, PredictedCategory, Judges
  <1>3. CASE CriticLLM
    <2>1. PICK vr \in BOOLEAN, named \in LLMVerdicts, category \in Categories :
             Judge(vr, IF named = {} THEN QuickFailed ELSE named, category)
      BY <1>3 DEF CriticLLM
    <2>2. (IF named = {} THEN QuickFailed ELSE named) \in SUBSET ToolNames
      BY CalledTools, LLMAssumption
    <2> QED BY <2>1, <2>2 DEF Judges
  <1> QED BY <1>1, <1>2, <1>3

(* Only the intake, a dispatch and the critic touch them.                   *)
LEMMA StepFrame ==
  ASSUME TypeInv, [Next]_vars
  PROVE  \/ Intake \/ Dispatch \/ Judges
         \/ /\ UNCHANGED <<tool_calls_made, context, expected_tools, pending_tools, ticket>>
            /\ node = "intake" => node' = "intake"
  <1> DEFINE Frame == /\ UNCHANGED <<tool_calls_made, context, expected_tools, pending_tools, ticket>>
                      /\ node = "intake" => node' = "intake"
  <1>1. CASE PlanFallback \/ PlanLLM
    BY <1>1 DEF PlanFallback, PlanLLM, StartIteration
  <1>2. CASE SkipTool \/ DispatchRaises \/ NextLayer \/ ExecutorDone
    BY <1>2 DEF SkipTool, DispatchRaises, NextLayer, ExecutorDone, AtTool
  <1>3. CASE Respond \/ Escalate \/ WriteMemory
    BY <1>3 DEF Respond, Escalate, WriteMemory
  <1>4. CASE UNCHANGED vars
    BY <1>4 DEF vars
  <1> QED BY <1>1, <1>2, <1>3, <1>4, CriticSteps DEF Next, Step, Returned

-----------------------------------------------------------------------------
(* No expected tool is lost.                                                *)

LEMMA NoToolLostNext ==
  ASSUME TypeInv, NoExpectedToolLost, [Next]_vars
  PROVE  NoExpectedToolLost'
  <1>1. CASE Intake
    BY <1>1 DEF Intake, NoExpectedToolLost
  <1>2. CASE Dispatch
    <2>1. Succeeded \subseteq Succeeded'
      BY <1>2, DispatchedCall, UsableToolsAppend DEF Succeeded, TypeInv, TypeOK
    <2> QED BY <1>2, <2>1 DEF Dispatch, AtTool, NoExpectedToolLost
  <1>3. CASE Judges
    <2>1. PICK vr \in BOOLEAN, failed \in SUBSET ToolNames, category \in Categories \cup {None} :
             Judge(vr, failed, category)
      BY <1>3 DEF Judges
    <2>2. pending_tools \ SucceededNow \subseteq pending_tools'
      BY <2>1 DEF Judge, Remaining
    <2>3. Succeeded' = Succeeded /\ expected_tools' = expected_tools /\ node # "intake"
      BY <2>1 DEF Judge, Succeeded
    <2> QED BY <2>2, <2>3, CalledTools DEF NoExpectedToolLost
  <1>4. CASE /\ UNCHANGED <<tool_calls_made, context, expected_tools, pending_tools, ticket>>
             /\ node = "intake" => node' = "intake"
    BY <1>4 DEF NoExpectedToolLost, Succeeded
  <1> QED BY <1>1, <1>2, <1>3, <1>4, StepFrame

(* No reachable state has dropped an expected tool that has no usable call, *)
(* whatever the models answer.                                              *)
THEOREM NoToolLost == Spec => []NoExpectedToolLost
  <1>1. Init => TypeInv /\ NoExpectedToolLost
    BY TypeInit DEF Init, NoExpectedToolLost
  <1>2. TypeInv /\ NoExpectedToolLost /\ [Next]_vars => (TypeInv /\ NoExpectedToolLost)'
    BY TypeNext, NoToolLostNext
  <1> QED BY <1>1, <1>2, PTL DEF Spec

-----------------------------------------------------------------------------
(* Escalation means the rounds are used up.                                 *)

RoutingInv == RoutingByNode /\ EscalatesOnlyWhenExhausted

LEMMA RoutingNext ==
  ASSUME TypeInv, NoExpectedToolLost, RoutingInv, [Next]_vars
  PROVE  RoutingInv'
  <1> USE DEF RoutingInv, RoutingByNode, EscalatesOnlyWhenExhausted
  <1>1. CASE Intake
    BY <1>1 DEF Intake
  <1>2. CASE PlanFallback \/ PlanLLM
    BY <1>2 DEF PlanFallback, PlanLLM, StartIteration
  <1>3. CASE SkipTool \/ Dispatch \/ DispatchRaises \/ NextLayer \/ ExecutorDone
    BY <1>3 DEF SkipTool, Dispatch, DispatchRaises, NextLayer, ExecutorDone, AtTool
  <1>4. CASE CriticConfirms \/ CriticGate \/ CriticLLM
    <2>1. PICK vr \in BOOLEAN, failed \in SUBSET ToolNames, category \in Categories \cup {None} :
             Judge(vr, failed, category)
      BY <1>4, CriticSteps DEF Judges
    <2>2. node' = "response" => pending_tools' = {} \/ iteration = MAX_ITERATIONS
      BY <2>1, IterationsAssumption DEF Judge, GivesUp, TypeInv, TypeOK
    <2>3. node = "critic" /\ node' \in {"response", "planner"} /\ escalate' = escalate /\ iteration' = iteration
      BY <2>1 DEF Judge
    <2> QED BY <2>2, <2>3
  <1>5. CASE Respond
    <2>1. pending_tools = {} => check_resolved
      BY <1>5 DEF Respond, check_resolved, NoExpectedToolLost
    <2> QED BY <1>5, <2>1 DEF Respond
  <1>6. CASE Escalate
    BY <1>6 DEF Escalate
  <1>7. CASE WriteMemory
    BY <1>7 DEF WriteMemory
  <1>8. CASE UNCHANGED vars
    BY <1>8 DEF vars
  <1> QED BY <1>1, <1>2, <1>3, <1>4, <1>5, <1>6, <1>7, <1>8 DEF Next, Step, Returned

(* A ticket reaches a human only unresolved and after MAX_ITERATIONS rounds.*)
THEOREM EscalationSound == Spec => []EscalatesOnlyWhenExhausted
  <1> DEFINE Inv == TypeInv /\ NoExpectedToolLost /\ RoutingInv
  <1>1. Init => Inv
    BY TypeInit
       DEF Init, NoExpectedToolLost, RoutingInv, RoutingByNode, EscalatesOnlyWhenExhausted
  <1>2. Inv /\ [Next]_vars => Inv'
    BY TypeNext, NoToolLostNext, RoutingNext
  <1>3. Inv => EscalatesOnlyWhenExhausted
    BY DEF RoutingInv
  <1> QED BY <1>1, <1>2, <1>3, PTL DEF Spec

-----------------------------------------------------------------------------
(* Refunds: gated by a usable lookup, for the order and amount it reported. *)

(* What any adapter's order lookup can report: the total of the order it    *)
(* answers for, or no total and the order it was asked about; and a usable  *)
(* answer always carries an order and its total.                            *)
LEMMA LookupResult ==
  ASSUME NEW p \in Params, NEW r \in dispatch("order_lookup", p), r.success
  PROVE  /\ r.amount = r.id \/ (r.amount = None /\ r.id = p.id)
         /\ is_usable("order_lookup", p, r) => r.id # None /\ r.amount = r.id
  <1>1. CASE Adapter = "real"
    <2>1. r \in {Failed} \cup OrderBackend(p)
      BY <1>1 DEF dispatch, real_dispatch
    <2> QED BY <2>1 DEF OrderBackend, Failed, Payload, is_usable
  <1>2. CASE Adapter # "real"
    <2>1. PICK f : r = lookup_order(p, f)
      BY <1>2 DEF dispatch, simulated_dispatch
    <2> QED BY <2>1 DEF lookup_order, Failed, Payload, is_usable
  <1> QED BY <1>1, <1>2

RefundInv == RefundGated /\ ContextHoldsLookedUpOrder /\ RefundAmountMatchesOrder

LEMMA RefundNext ==
  ASSUME TypeInv, RefundInv, [Next]_vars
  PROVE  RefundInv'
  <1>1. CASE Intake
    <2>1. tool_calls_made' = <<>>
      BY <1>1 DEF Intake
    <2> QED BY <2>1 DEF RefundInv, RefundGated, ContextHoldsLookedUpOrder,
                        RefundAmountMatchesOrder, Succeeded, UsableTools
  <1>2. CASE Dispatch
    <2>1. PICK c \in Calls :
            /\ tool_calls_made' = Append(tool_calls_made, c)
            /\ c.params = prepare_params(c.tool, context)
            /\ c.result \in dispatch(c.tool, c.params)
            /\ context' = update_context(c.tool, c.result, context)
            /\ DependenciesMet(c.tool)
      BY <1>2, DispatchedCall
    <2> DEFINE n == Len(tool_calls_made)
    <2>2. tool_calls_made \in Seq(Calls) /\ n \in Nat /\ context \in Contexts
      BY DEF TypeInv, TypeOK
    <2>3. /\ DOMAIN tool_calls_made = 1..n /\ DOMAIN tool_calls_made' = 1..(n+1)
          /\ tool_calls_made'[n+1] = c
          /\ \A i \in 1..n : tool_calls_made'[i] = tool_calls_made[i]
      BY <2>1, <2>2
    <2>4. Succeeded' = Succeeded \cup (IF usable(c) THEN {c.tool} ELSE {})
      BY <2>1, <2>2, UsableToolsAppend DEF Succeeded
    <2>5. c.tool = "refund" => "order_lookup" \in Succeeded
      BY <2>1, NamesType DEF DependenciesMet, TOOL_DEPENDENCIES
    <2> HIDE DEF n
    <2>6. RefundGated'
      <3>1. SUFFICES ASSUME NEW i \in 1..(n+1), tool_calls_made'[i].tool = "refund"
                     PROVE  \E j \in 1..(i-1) : /\ tool_calls_made'[j].tool = "order_lookup"
                                                /\ usable(tool_calls_made'[j])
        BY <2>3 DEF RefundGated, usable
      <3>2. CASE i \in 1..n
        <4>1. PICK j \in 1..(i-1) : /\ tool_calls_made[j].tool = "order_lookup"
                                    /\ usable(tool_calls_made[j])
          BY <3>1, <3>2, <2>3 DEF RefundInv, RefundGated
        <4>2. tool_calls_made'[j] = tool_calls_made[j]
          BY <3>2, <2>2, <2>3
        <4> QED BY <4>1, <4>2
      <3>3. CASE i = n + 1
        <4>1. PICK j \in 1..n : tool_calls_made[j].tool = "order_lookup" /\ usable(tool_calls_made[j])
          BY <3>1, <3>3, <2>3, <2>5 DEF Succeeded, UsableTools
        <4> QED BY <4>1, <3>3, <2>2, <2>3
      <3> QED BY <3>2, <3>3, <2>2
    <2>7. RefundAmountMatchesOrder'
      <3>1. SUFFICES ASSUME NEW i \in 1..(n+1), tool_calls_made'[i].tool = "refund"
                     PROVE  /\ tool_calls_made'[i].params.id # None
                            /\ tool_calls_made'[i].params.amount = tool_calls_made'[i].params.id
        BY <2>3 DEF RefundAmountMatchesOrder
      <3>2. CASE i \in 1..n
        BY <3>1, <3>2, <2>3 DEF RefundInv, RefundAmountMatchesOrder
      <3>3. CASE i = n + 1
        BY <3>1, <3>3, <2>1, <2>3, <2>5 DEF RefundInv, ContextHoldsLookedUpOrder, prepare_params
      <3> QED BY <3>2, <3>3, <2>2
    <2>8. ContextHoldsLookedUpOrder'
      <3>1. SUFFICES ASSUME "order_lookup" \in Succeeded'
                     PROVE  context'.order_id # None /\ context'.amount = context'.order_id
        BY DEF ContextHoldsLookedUpOrder
      <3>2. CASE c.tool = "order_lookup"
        <4>1. c.params \in Params /\ c.params.id = context.order_id
          BY <3>2, <2>1 DEF Calls, prepare_params
        <4>2. c.result.success =>
                /\ c.result.amount = c.result.id \/ (c.result.amount = None /\ c.result.id = context.order_id)
                /\ usable(c) => c.result.id # None /\ c.result.amount = c.result.id
          BY <3>2, <2>1, <4>1, LookupResult DEF usable
        <4>3. usable(c) => c.result.success
          BY DEF usable, is_usable
        <4>4. usable(c) \/ "order_lookup" \in Succeeded
          BY <3>1, <2>4
        <4>5. context' = IF c.result.success /\ c.result.id # None
                         THEN [context EXCEPT !.order_id = c.result.id,
                                 !.amount = IF c.result.amount # None THEN c.result.amount ELSE @]
                         ELSE context
          BY <3>2, <2>1 DEF update_context
        <4> QED BY <4>2, <4>3, <4>4, <4>5, <2>2 DEF RefundInv, ContextHoldsLookedUpOrder, Contexts
      <3>3. CASE c.tool # "order_lookup"
        <4>1. context'.order_id = context.order_id /\ context'.amount = context.amount
          BY <3>3, <2>1, <2>2 DEF update_context, Contexts
        <4> QED BY <3>1, <3>3, <4>1, <2>4 DEF RefundInv, ContextHoldsLookedUpOrder
      <3> QED BY <3>2, <3>3
    <2> QED BY <2>6, <2>7, <2>8 DEF RefundInv
  <1>3. CASE UNCHANGED <<tool_calls_made, context>>
    BY <1>3 DEF RefundInv, RefundGated, ContextHoldsLookedUpOrder,
                RefundAmountMatchesOrder, Succeeded, usable
  <1>4. Judges => UNCHANGED <<tool_calls_made, context>>
    BY DEF Judges, Judge
  <1> QED BY <1>1, <1>2, <1>3, <1>4, StepFrame

LEMMA RefundAlways == Spec => []RefundInv
  <1>1. Init => TypeInv /\ RefundInv
    BY TypeInit DEF Init, RefundInv, RefundGated, ContextHoldsLookedUpOrder,
                    RefundAmountMatchesOrder, Succeeded, UsableTools
  <1>2. TypeInv /\ RefundInv /\ [Next]_vars => (TypeInv /\ RefundInv)'
    BY TypeNext, RefundNext
  <1> QED BY <1>1, <1>2, PTL DEF Spec

(* No refund is dispatched before an order lookup that came back usable.    *)
THEOREM RefundsGated == Spec => []RefundGated
  <1>1. RefundInv => RefundGated
    BY DEF RefundInv
  <1> QED BY <1>1, RefundAlways, PTL

(* Every refund is dispatched for a looked-up order and for its total.      *)
THEOREM RefundAmounts == Spec => []RefundAmountMatchesOrder
  <1>1. RefundInv => RefundAmountMatchesOrder
    BY DEF RefundInv
  <1> QED BY <1>1, RefundAlways, PTL

(* Once a lookup has been usable, the context holds a looked-up order with  *)
(* that order's total, whatever later lookups return (_update_context).     *)
THEOREM LookedUpOrderHeld == Spec => []ContextHoldsLookedUpOrder
  <1>1. RefundInv => ContextHoldsLookedUpOrder
    BY DEF RefundInv
  <1> QED BY <1>1, RefundAlways, PTL

-----------------------------------------------------------------------------
(* Against the real backends the context never leaves the order the ticket  *)
(* names: a PaymentIntent answers under the id it was asked for.            *)
OrderKept == node # "intake" => context.order_id = ticket.order_id
NamedInv == OrderKept /\ RefundsNamedOrder

LEMMA RealOrderKept ==
  ASSUME Adapter = "real", NEW tool \in ToolNames, NEW ctx \in Contexts,
         NEW r \in dispatch(tool, prepare_params(tool, ctx))
  PROVE  update_context(tool, r, ctx).order_id = ctx.order_id
  <1>1. CASE tool = "order_lookup"
    <2>1. r \in {Failed} \cup OrderBackend(prepare_params(tool, ctx))
      BY <1>1 DEF dispatch, real_dispatch
    <2>2. prepare_params(tool, ctx).id = ctx.order_id
      BY <1>1 DEF prepare_params
    <2>3. r.success => r.id = ctx.order_id
      BY <2>1, <2>2 DEF OrderBackend, Payload, Failed
    <2> QED BY <1>1, <2>3 DEF update_context, Contexts
  <1>2. CASE tool # "order_lookup"
    BY <1>2 DEF update_context, Contexts
  <1> QED BY <1>1, <1>2

LEMMA NamedNext ==
  ASSUME Adapter = "real", TypeInv, NamedInv, [Next]_vars
  PROVE  NamedInv'
  <1>1. CASE Intake
    <2>1. tool_calls_made' = <<>> /\ context'.order_id = ticket.order_id /\ ticket' = ticket
      BY <1>1 DEF Intake
    <2> QED BY <2>1 DEF NamedInv, OrderKept, RefundsNamedOrder
  <1>2. CASE Dispatch
    <2>1. PICK c \in Calls :
            /\ tool_calls_made' = Append(tool_calls_made, c)
            /\ c.params = prepare_params(c.tool, context)
            /\ c.result \in dispatch(c.tool, c.params)
            /\ context' = update_context(c.tool, c.result, context)
            /\ DependenciesMet(c.tool)
      BY <1>2, DispatchedCall
    <2>2. tool_calls_made \in Seq(Calls) /\ context \in Contexts /\ c.tool \in ToolNames
      BY <2>1 DEF TypeInv, TypeOK, Calls
    <2>3. node = "executor" /\ ticket' = ticket /\ node' = node
      BY <1>2 DEF Dispatch, AtTool
    <2>4. context.order_id = ticket.order_id
      BY <2>3 DEF NamedInv, OrderKept
    <2>5. context'.order_id = ticket'.order_id
      BY <2>1, <2>2, <2>3, <2>4, RealOrderKept
    <2>6. c.tool = "refund" => c.params.id = ticket.order_id
      BY <2>1, <2>4 DEF prepare_params
    <2>7. RefundsNamedOrder'
      BY <2>1, <2>2, <2>3, <2>6 DEF NamedInv, RefundsNamedOrder
    <2> QED BY <2>5, <2>7 DEF NamedInv, OrderKept
  <1>3. CASE Judges
    <2>1. node = "critic" /\ UNCHANGED <<tool_calls_made, context, ticket>>
      BY <1>3 DEF Judges, Judge
    <2> QED BY <2>1 DEF NamedInv, OrderKept, RefundsNamedOrder
  <1>4. CASE /\ UNCHANGED <<tool_calls_made, context, expected_tools, pending_tools, ticket>>
             /\ node = "intake" => node' = "intake"
    BY <1>4 DEF NamedInv, OrderKept, RefundsNamedOrder
  <1> QED BY <1>1, <1>2, <1>3, <1>4, StepFrame

(* With the real backends every refund is for the order the ticket names.   *)
THEOREM RefundsNamed == ASSUME Adapter = "real" PROVE Spec => []RefundsNamedOrder
  <1>1. Init => TypeInv /\ NamedInv
    BY TypeInit DEF Init, NamedInv, OrderKept, RefundsNamedOrder
  <1>2. TypeInv /\ NamedInv /\ [Next]_vars => (TypeInv /\ NamedInv)'
    BY TypeNext, NamedNext
  <1>3. NamedInv => RefundsNamedOrder
    BY DEF NamedInv
  <1> QED BY <1>1, <1>2, <1>3, PTL DEF Spec

-----------------------------------------------------------------------------
(* Without a language model.  The deterministic plan lists its tools in the *)
(* order of their names, each once, a dependency before what needs it.      *)
Rank == [t \in ToolNames |-> CASE t = "crm" -> 1 [] t = "kb_search" -> 2
                               [] t = "order_lookup" -> 3 [] t = "refund" -> 4 [] OTHER -> 5]
Below(S, T) == \A t \in S, u \in T : Rank[t] < Rank[u]
LayerUp(layer) == \A i, j \in DOMAIN layer : i < j => Rank[layer[i]] < Rank[layer[j]]
PlanUp(plan) == /\ \A a \in DOMAIN plan : LayerUp(plan[a])
                /\ \A a, b \in DOMAIN plan : a < b => Below(Elements(plan[a]), Elements(plan[b]))

LEMMA Ranks == /\ \A t \in ToolNames : Rank[t] \in 1..5
               /\ \A t, u \in ToolNames : TOOL_LAYERS[t] < TOOL_LAYERS[u] => Rank[t] < Rank[u]
               /\ Rank["crm"] = 1 /\ Rank["kb_search"] = 2 /\ Rank["order_lookup"] = 3
               /\ Rank["refund"] = 4 /\ Rank[UnknownTool] = 5
  BY DEF Rank, ToolNames, Tools, UnknownTool, TOOL_LAYERS

LEMMA Shift ==
  ASSUME NEW a \in Nat, NEW b \in Nat
  PROVE  /\ \A i \in 1..(a + b) : i \in 1..a \/ (i > a /\ i - a \in 1..b)
         /\ \A k \in 1..b : a + k \in 1..(a + b) /\ a + k > a /\ (a + k) - a = k
  OBVIOUS

LEMMA LayerJoin ==
  ASSUME NEW l \in Seq(ToolNames), NEW m \in Seq(ToolNames), LayerUp(l), LayerUp(m),
         Below(Elements(l), Elements(m))
  PROVE  /\ l \o m \in Seq(ToolNames) /\ LayerUp(l \o m)
         /\ Elements(l \o m) = Elements(l) \cup Elements(m)
  <1> DEFINE lm == l \o m
  <1>1. /\ lm \in Seq(ToolNames) /\ DOMAIN lm = 1..(Len(l) + Len(m))
        /\ DOMAIN l = 1..Len(l) /\ DOMAIN m = 1..Len(m) /\ Len(l) \in Nat /\ Len(m) \in Nat
        /\ \A i \in 1..Len(l) : lm[i] = l[i]
        /\ \A i \in 1..(Len(l) + Len(m)) : i > Len(l) => lm[i] = m[i - Len(l)]
    OBVIOUS
  <1> HIDE DEF lm
  <1>2. \A i \in DOMAIN lm : \/ i \in DOMAIN l /\ lm[i] = l[i]
                             \/ i > Len(l) /\ i - Len(l) \in DOMAIN m /\ lm[i] = m[i - Len(l)]
    <2> SUFFICES ASSUME NEW i \in DOMAIN lm
                 PROVE  \/ i \in DOMAIN l /\ lm[i] = l[i]
                        \/ i > Len(l) /\ i - Len(l) \in DOMAIN m /\ lm[i] = m[i - Len(l)]
      OBVIOUS
    <2>0. i \in 1..(Len(l) + Len(m))
      BY <1>1
    <2>1. i \in 1..Len(l) \/ (i > Len(l) /\ i - Len(l) \in 1..Len(m))
      BY <1>1, <2>0, Shift
    <2> QED BY <1>1, <2>0, <2>1
  <1>3. \A k \in DOMAIN m : Len(l) + k \in DOMAIN lm /\ lm[Len(l) + k] = m[k]
    <2> SUFFICES ASSUME NEW k \in 1..Len(m)
                 PROVE  Len(l) + k \in 1..(Len(l) + Len(m)) /\ lm[Len(l) + k] = m[k]
      BY <1>1
    <2>1. /\ Len(l) + k \in 1..(Len(l) + Len(m)) /\ Len(l) + k > Len(l)
          /\ (Len(l) + k) - Len(l) = k
      BY <1>1, Shift
    <2>2. lm[Len(l) + k] = m[(Len(l) + k) - Len(l)]
      BY <1>1, <2>1
    <2> QED BY <2>1, <2>2
  <1>4. LayerUp(lm)
    <2> SUFFICES ASSUME NEW i \in DOMAIN lm, NEW j \in DOMAIN lm, i < j
                 PROVE  Rank[lm[i]] < Rank[lm[j]]
      BY DEF LayerUp
    <2>1. i \in Nat /\ j \in Nat
      BY <1>1
    <2>2. CASE j \in DOMAIN l
      <3>1. i \in DOMAIN l
        BY <1>1, <2>1, <2>2
      <3> QED BY <1>1, <2>2, <3>1 DEF LayerUp
    <2>3. CASE j \notin DOMAIN l /\ i \in DOMAIN l
      <3>1. lm[i] \in Elements(l) /\ lm[j] \in Elements(m)
        BY <1>2, <1>1, <2>3 DEF Elements
      <3> QED BY <3>1 DEF Below
    <2>4. CASE j \notin DOMAIN l /\ i \notin DOMAIN l
      <3>1. /\ i - Len(l) \in DOMAIN m /\ j - Len(l) \in DOMAIN m /\ i - Len(l) < j - Len(l)
            /\ lm[i] = m[i - Len(l)] /\ lm[j] = m[j - Len(l)]
        BY <1>1, <1>2, <2>1, <2>4
      <3> QED BY <3>1 DEF LayerUp
    <2> QED BY <2>2, <2>3, <2>4
  <1>5. Elements(lm) = Elements(l) \cup Elements(m)
    <2>1. Elements(lm) \subseteq Elements(l) \cup Elements(m)
      BY <1>2 DEF Elements
    <2>2. Elements(l) \subseteq Elements(lm)
      BY <1>1 DEF Elements
    <2>3. Elements(m) \subseteq Elements(lm)
      BY <1>3 DEF Elements
    <2> QED BY <2>1, <2>2, <2>3
  <1> QED BY <1>1, <1>4, <1>5 DEF lm

LEMMA PlanJoin ==
  ASSUME NEW p \in PlansOver(ToolNames), NEW q \in PlansOver(ToolNames), PlanUp(p), PlanUp(q),
         Below(all_tools(p), all_tools(q))
  PROVE  /\ p \o q \in PlansOver(ToolNames) /\ PlanUp(p \o q)
         /\ all_tools(p \o q) = all_tools(p) \cup all_tools(q)
  <1> DEFINE pq == p \o q
  <1>0. p \in Seq(Seq(ToolNames)) /\ q \in Seq(Seq(ToolNames))
    BY DEF PlansOver
  <1>1. /\ pq \in Seq(Seq(ToolNames)) /\ DOMAIN pq = 1..(Len(p) + Len(q))
        /\ DOMAIN p = 1..Len(p) /\ DOMAIN q = 1..Len(q) /\ Len(p) \in Nat /\ Len(q) \in Nat
        /\ \A i \in 1..Len(p) : pq[i] = p[i]
        /\ \A i \in 1..(Len(p) + Len(q)) : i > Len(p) => pq[i] = q[i - Len(p)]
    BY <1>0
  <1> HIDE DEF pq
  <1>2. \A i \in DOMAIN pq : \/ i \in DOMAIN p /\ pq[i] = p[i]
                             \/ i > Len(p) /\ i - Len(p) \in DOMAIN q /\ pq[i] = q[i - Len(p)]
    <2> SUFFICES ASSUME NEW i \in DOMAIN pq
                 PROVE  \/ i \in DOMAIN p /\ pq[i] = p[i]
                        \/ i > Len(p) /\ i - Len(p) \in DOMAIN q /\ pq[i] = q[i - Len(p)]
      OBVIOUS
    <2>0. i \in 1..(Len(p) + Len(q))
      BY <1>1
    <2>1. i \in 1..Len(p) \/ (i > Len(p) /\ i - Len(p) \in 1..Len(q))
      BY <1>1, <2>0, Shift
    <2> QED BY <1>1, <2>0, <2>1
  <1>3. \A k \in DOMAIN q : Len(p) + k \in DOMAIN pq /\ pq[Len(p) + k] = q[k]
    <2> SUFFICES ASSUME NEW k \in 1..Len(q)
                 PROVE  Len(p) + k \in 1..(Len(p) + Len(q)) /\ pq[Len(p) + k] = q[k]
      BY <1>1
    <2>1. /\ Len(p) + k \in 1..(Len(p) + Len(q)) /\ Len(p) + k > Len(p)
          /\ (Len(p) + k) - Len(p) = k
      BY <1>1, Shift
    <2>2. pq[Len(p) + k] = q[(Len(p) + k) - Len(p)]
      BY <1>1, <2>1
    <2> QED BY <2>1, <2>2
  <1>4. \A i \in DOMAIN pq : LayerUp(pq[i])
    BY <1>2 DEF PlanUp
  <1>5. ASSUME NEW i \in DOMAIN pq, NEW j \in DOMAIN pq, i < j
        PROVE  Below(Elements(pq[i]), Elements(pq[j]))
    <2>1. i \in Nat /\ j \in Nat
      BY <1>1
    <2>2. CASE j \in DOMAIN p
      <3>1. i \in DOMAIN p
        BY <1>1, <1>5, <2>1, <2>2
      <3> QED BY <1>1, <1>5, <2>2, <3>1 DEF PlanUp
    <2>3. CASE j \notin DOMAIN p /\ i \in DOMAIN p
      <3>1. Elements(pq[i]) \subseteq all_tools(p) /\ Elements(pq[j]) \subseteq all_tools(q)
        BY <1>2, <1>1, <2>3 DEF all_tools
      <3> QED BY <3>1 DEF Below
    <2>4. CASE j \notin DOMAIN p /\ i \notin DOMAIN p
      <3>1. /\ i - Len(p) \in DOMAIN q /\ j - Len(p) \in DOMAIN q /\ i - Len(p) < j - Len(p)
            /\ pq[i] = q[i - Len(p)] /\ pq[j] = q[j - Len(p)]
        BY <1>1, <1>2, <1>5, <2>1, <2>4
      <3> QED BY <3>1 DEF PlanUp
    <2> QED BY <2>2, <2>3, <2>4
  <1>6. all_tools(pq) = all_tools(p) \cup all_tools(q)
    <2>1. all_tools(pq) \subseteq all_tools(p) \cup all_tools(q)
      BY <1>2 DEF all_tools
    <2>2. all_tools(p) \subseteq all_tools(pq)
      BY <1>1 DEF all_tools
    <2>3. all_tools(q) \subseteq all_tools(pq)
      BY <1>3 DEF all_tools
    <2> QED BY <2>1, <2>2, <2>3
  <1>7. PlanUp(pq)
    BY <1>4, <1>5 DEF PlanUp
  <1> QED BY <1>1, <1>6, <1>7 DEF pq, PlansOver

LEMMA PickUp ==
  ASSUME NEW pending, NEW k, NEW t \in ToolNames
  PROVE  /\ Pick(t, pending, k) \in Seq(ToolNames) /\ LayerUp(Pick(t, pending, k))
         /\ Elements(Pick(t, pending, k)) = IF t \in pending /\ TOOL_LAYERS[t] = k THEN {t} ELSE {}
  <1>1. CASE t \in pending /\ TOOL_LAYERS[t] = k
    <2>1. Pick(t, pending, k) = <<t>>
      BY <1>1 DEF Pick
    <2> QED BY <1>1, <2>1 DEF LayerUp, Elements
  <1>2. CASE ~(t \in pending /\ TOOL_LAYERS[t] = k)
    <2>1. Pick(t, pending, k) = <<>>
      BY <1>2 DEF Pick
    <2> QED BY <1>2, <2>1 DEF LayerUp, Elements
  <1> QED BY <1>1, <1>2

LEMMA LayerOfUp ==
  ASSUME NEW pending, NEW k
  PROVE  /\ LayerOf(pending, k) \in Seq(ToolNames) /\ LayerUp(LayerOf(pending, k))
         /\ Elements(LayerOf(pending, k)) = {t \in ToolNames : t \in pending /\ TOOL_LAYERS[t] = k}
  <1> DEFINE P(t) == Pick(t, pending, k)
             S(t) == IF t \in pending /\ TOOL_LAYERS[t] = k THEN {t} ELSE {}
             l2 == P("crm") \o P("kb_search")
             l3 == l2 \o P("order_lookup")
             l4 == l3 \o P("refund")
             l5 == l4 \o P(UnknownTool)
  <1>1. \A t \in ToolNames : P(t) \in Seq(ToolNames) /\ LayerUp(P(t)) /\ Elements(P(t)) = S(t)
    BY PickUp
  <1>2. LayerOf(pending, k) = l5
    BY DEF LayerOf
  <1>3. \A t, u \in ToolNames : Rank[t] < Rank[u] => Below(S(t), S(u))
    BY DEF Below
  <1>4. \A t \in ToolNames : S(t) \subseteq {t}
    OBVIOUS
  <1> HIDE DEF P, S
  <1>5. l2 \in Seq(ToolNames) /\ LayerUp(l2) /\ Elements(l2) = S("crm") \cup S("kb_search")
    BY <1>1, <1>3, NamesType, Ranks, LayerJoin
  <1> HIDE DEF l2
  <1>6. l3 \in Seq(ToolNames) /\ LayerUp(l3) /\ Elements(l3) = S("crm") \cup S("kb_search") \cup S("order_lookup")
    <2>1. Below(Elements(l2), S("order_lookup"))
      BY <1>4, <1>5, NamesType, Ranks DEF Below
    <2> QED BY ZenonT(30), <1>1, <1>5, <2>1, NamesType, LayerJoin
  <1> HIDE DEF l3
  <1>7. /\ l4 \in Seq(ToolNames) /\ LayerUp(l4)
        /\ Elements(l4) = S("crm") \cup S("kb_search") \cup S("order_lookup") \cup S("refund")
    <2>1. Below(Elements(l3), S("refund"))
      BY <1>4, <1>6, NamesType, Ranks DEF Below
    <2> QED BY ZenonT(30), <1>1, <1>6, <2>1, NamesType, LayerJoin
  <1> HIDE DEF l4
  <1>8. /\ l5 \in Seq(ToolNames) /\ LayerUp(l5)
        /\ Elements(l5) = S("crm") \cup S("kb_search") \cup S("order_lookup") \cup S("refund") \cup S(UnknownTool)
    <2>1. Below(Elements(l4), S(UnknownTool))
      BY <1>4, <1>7, NamesType, Ranks DEF Below
    <2> QED BY ZenonT(30), <1>1, <1>7, <2>1, NamesType, LayerJoin
  <1> HIDE DEF l5
  <1>9. Elements(l5) = {t \in ToolNames : t \in pending /\ TOOL_LAYERS[t] = k}
    BY <1>8 DEF S, ToolNames, Tools
  <1> QED BY <1>2, <1>8, <1>9

LEMMA PopulatedUp ==
  ASSUME NEW layer \in Seq(ToolNames), LayerUp(layer)
  PROVE  /\ IfPopulated(layer) \in PlansOver(ToolNames) /\ PlanUp(IfPopulated(layer))
         /\ all_tools(IfPopulated(layer)) = Elements(layer)
  <1>1. CASE layer = <<>>
    <2>1. IfPopulated(layer) = <<>> /\ Elements(layer) = {}
      BY <1>1 DEF IfPopulated, Elements
    <2> QED BY <2>1 DEF PlansOver, PlanUp, all_tools
  <1>2. CASE layer # <<>>
    <2>1. IfPopulated(layer) = <<layer>>
      BY <1>2 DEF IfPopulated
    <2>2. <<layer>> \in Seq(Seq(ToolNames)) /\ DOMAIN <<layer>> = {1} /\ <<layer>>[1] = layer
      OBVIOUS
    <2> QED BY <2>1, <2>2 DEF PlansOver, PlanUp, all_tools
  <1> QED BY <1>1, <1>2

(* Each pending tool is in the deterministic plan, once, in that order.     *)
LEMMA FallbackUp ==
  ASSUME NEW pending \in SUBSET ToolNames
  PROVE  PlanUp(from_pending_tools(pending)) /\ all_tools(from_pending_tools(pending)) = pending
  <1> DEFINE L(k) == IfPopulated(LayerOf(pending, k))
             E(k) == {t \in ToolNames : t \in pending /\ TOOL_LAYERS[t] = k}
             q1 == L(0) \o L(1)
             q2 == q1 \o L(2)
             q3 == q2 \o L(99)
  <1>1. \A k \in {0, 1, 2, 99} : /\ L(k) \in PlansOver(ToolNames) /\ PlanUp(L(k))
                                 /\ all_tools(L(k)) = E(k)
    BY LayerOfUp, PopulatedUp
  <1>2. from_pending_tools(pending) = q3
    BY DEF from_pending_tools
  <1>3. /\ Below(E(0), E(1)) /\ Below(E(0) \cup E(1), E(2)) /\ Below(E(0) \cup E(1) \cup E(2), E(99))
    BY Ranks DEF Below
  <1>4. E(0) \cup E(1) \cup E(2) \cup E(99) = pending
    BY DEF TOOL_LAYERS, ToolNames, Tools, UnknownTool
  <1> HIDE DEF L, E
  <1>5. q1 \in PlansOver(ToolNames) /\ PlanUp(q1) /\ all_tools(q1) = E(0) \cup E(1)
    BY <1>1, <1>3, PlanJoin
  <1> HIDE DEF q1
  <1>6. q2 \in PlansOver(ToolNames) /\ PlanUp(q2) /\ all_tools(q2) = E(0) \cup E(1) \cup E(2)
    BY <1>1, <1>3, <1>5, PlanJoin
  <1> HIDE DEF q2
  <1>7. q3 \in PlansOver(ToolNames) /\ PlanUp(q3) /\ all_tools(q3) = E(0) \cup E(1) \cup E(2) \cup E(99)
    <2>1. L(99) \in PlansOver(ToolNames) /\ PlanUp(L(99)) /\ all_tools(L(99)) = E(99)
      BY <1>1
    <2>2. Below(all_tools(q2), all_tools(L(99)))
      BY <1>3, <1>6, <2>1
    <2>3. q3 \in PlansOver(ToolNames) /\ PlanUp(q3) /\ all_tools(q3) = all_tools(q2) \cup all_tools(L(99))
      BY <1>6, <2>1, <2>2, PlanJoin
    <2> QED BY <1>6, <2>1, <2>3
  <1> QED BY <1>2, <1>4, <1>7

(* Walking such a plan, what comes next ranks below all that follows.       *)
LEMMA WalkPlan ==
  ASSUME NEW plan \in PlansOver(ToolNames), plan # <<>>, PlanUp(plan)
  PROVE  /\ Head(plan) = <<>> => PlanUp(Tail(plan)) /\ all_tools(Tail(plan)) = all_tools(plan)
         /\ Head(plan) # <<>> =>
              LET next == Head(Head(plan))  rest == <<Tail(Head(plan))>> \o Tail(plan) IN
              /\ PlanUp(rest) /\ all_tools(plan) = {next} \cup all_tools(rest)
              /\ Below({next}, all_tools(rest))
  <1> DEFINE h == Head(plan)
             tl == Tail(plan)
  <1>1. /\ plan \in Seq(Seq(ToolNames)) /\ Len(plan) \in Nat /\ Len(plan) >= 1 /\ DOMAIN plan = 1..Len(plan)
        /\ h = plan[1] /\ h \in Seq(ToolNames) /\ 1 \in DOMAIN plan
        /\ tl \in Seq(Seq(ToolNames)) /\ DOMAIN tl = 1..(Len(plan) - 1)
        /\ \A a \in DOMAIN tl : tl[a] = plan[a + 1] /\ a + 1 \in DOMAIN plan
    BY DEF PlansOver
  <1> HIDE DEF h, tl
  <1>2. PlanUp(tl)
    <2>1. \A a \in DOMAIN tl : LayerUp(tl[a])
      BY <1>1 DEF PlanUp
    <2>2. \A a, b \in DOMAIN tl : a < b => Below(Elements(tl[a]), Elements(tl[b]))
      <3> SUFFICES ASSUME NEW a \in DOMAIN tl, NEW b \in DOMAIN tl, a < b
                   PROVE  Below(Elements(tl[a]), Elements(tl[b]))
        OBVIOUS
      <3>1. a + 1 < b + 1 /\ a + 1 \in DOMAIN plan /\ b + 1 \in DOMAIN plan
        BY <1>1
      <3> QED BY <1>1, <3>1 DEF PlanUp
    <2> QED BY <2>1, <2>2 DEF PlanUp
  <1>3. all_tools(plan) = Elements(h) \cup all_tools(tl)
    <2>1. \A a \in DOMAIN plan : a = 1 \/ (a - 1 \in DOMAIN tl /\ plan[a] = tl[a - 1])
      BY SMTT(30), <1>1
    <2>2. all_tools(plan) \subseteq Elements(h) \cup all_tools(tl)
      BY ZenonT(30), <1>1, <2>1 DEF all_tools
    <2>3. Elements(h) \subseteq all_tools(plan) /\ all_tools(tl) \subseteq all_tools(plan)
      BY <1>1 DEF all_tools
    <2> QED BY <2>2, <2>3
  <1>4. Below(Elements(h), all_tools(tl))
    <2> SUFFICES ASSUME NEW a \in DOMAIN tl PROVE Below(Elements(h), Elements(tl[a]))
      BY DEF Below, all_tools
    <2>1. 1 < a + 1 /\ a + 1 \in DOMAIN plan
      BY <1>1
    <2> QED BY <1>1, <2>1 DEF PlanUp
  <1>5. h = <<>> => Elements(h) = {}
    BY DEF Elements
  <1>6. ASSUME h # <<>>
        PROVE  LET next == Head(h)  rest == <<Tail(h)>> \o tl IN
               /\ PlanUp(rest) /\ all_tools(plan) = {next} \cup all_tools(rest)
               /\ Below({next}, all_tools(rest))
    <2> DEFINE n == Head(h)
               r == Tail(h)
    <2>1. /\ Len(h) \in Nat /\ Len(h) >= 1 /\ DOMAIN h = 1..Len(h) /\ n = h[1]
          /\ r \in Seq(ToolNames) /\ DOMAIN r = 1..(Len(h) - 1)
          /\ \A i \in DOMAIN r : r[i] = h[i + 1] /\ i + 1 \in DOMAIN h
      BY <1>1, <1>6
    <2> HIDE DEF n, r
    <2>2. LayerUp(h)
      BY <1>1 DEF PlanUp
    <2>3. LayerUp(r)
      <3> SUFFICES ASSUME NEW i \in DOMAIN r, NEW j \in DOMAIN r, i < j PROVE Rank[r[i]] < Rank[r[j]]
        BY DEF LayerUp
      <3>1. i + 1 < j + 1 /\ i + 1 \in DOMAIN h /\ j + 1 \in DOMAIN h
        BY <2>1
      <3> QED BY <2>1, <2>2, <3>1 DEF LayerUp
    <2>4. Elements(h) = {n} \cup Elements(r)
      <3>1. \A i \in DOMAIN h : i = 1 \/ (i - 1 \in DOMAIN r /\ h[i] = r[i - 1])
        BY <2>1
      <3>2. Elements(h) \subseteq {n} \cup Elements(r)
        BY <2>1, <3>1 DEF Elements
      <3>3. n \in Elements(h) /\ Elements(r) \subseteq Elements(h)
        BY <2>1 DEF Elements
      <3> QED BY <3>2, <3>3
    <2>5. Below({n}, Elements(r))
      <3> SUFFICES ASSUME NEW i \in DOMAIN r PROVE Rank[n] < Rank[r[i]]
        BY DEF Below, Elements
      <3>1. 1 < i + 1 /\ i + 1 \in DOMAIN h /\ 1 \in DOMAIN h
        BY <2>1
      <3> QED BY <2>1, <2>2, <3>1 DEF LayerUp
    <2>6. <<r>> \in PlansOver(ToolNames) /\ DOMAIN <<r>> = {1} /\ <<r>>[1] = r
      BY <2>1 DEF PlansOver
    <2>7. PlanUp(<<r>>) /\ all_tools(<<r>>) = Elements(r)
      BY <2>3, <2>6 DEF PlanUp, all_tools
    <2>8. Below(all_tools(<<r>>), all_tools(tl)) /\ tl \in PlansOver(ToolNames)
      BY <1>1, <1>4, <2>4, <2>7 DEF Below, PlansOver
    <2>9. PlanUp(<<r>> \o tl) /\ all_tools(<<r>> \o tl) = Elements(r) \cup all_tools(tl)
      BY <1>2, <2>6, <2>7, <2>8, PlanJoin
    <2> QED BY <1>3, <1>4, <2>4, <2>5, <2>9 DEF n, r, Below
  <1> QED BY <1>2, <1>3, <1>5, <1>6 DEF h, tl

(* The rounds.  A pending tool has no usable call from an earlier round; in *)
(* a round it is still to come, has been called once, or is the refund of an*)
(* order that is not looked up.                                             *)
RoundTools == {tool_calls_made[i].tool : i \in ThisIteration}
Behind == pending_tools \ all_tools(todo)
Once == \A i, j \in ThisIteration : tool_calls_made[i].tool = tool_calls_made[j].tool => i = j
Walk == /\ PlanUp(todo) /\ all_tools(todo) \subseteq pending_tools
        /\ RoundTools \subseteq Behind /\ Below(Behind, all_tools(todo))
        /\ \A t \in Behind : t \in RoundTools \/ (t = "refund" /\ "order_lookup" \notin Succeeded)
        /\ Once
        /\ pending_tools \cap Succeeded \subseteq SucceededNow
        /\ replanning_count = iteration - 1
RoundInv ==
    /\ pending_tools \subseteq expected_tools
    /\ "refund" \in expected_tools => "order_lookup" \in expected_tools
    /\ \A i \in DOMAIN tool_calls_made : tool_calls_made[i].iteration <= iteration
    /\ node = "planner" => pending_tools \cap Succeeded = {} /\ replanning_count = iteration
    /\ node \in {"executor", "critic"} => Walk
    /\ node = "critic" => todo = <<>>
LoopInv == RoundInv /\ NoRedispatchAfterUsable /\ ReplanCountAgrees

LEMMA CallAt ==
  TypeInv => /\ tool_calls_made \in Seq(Calls) /\ Len(tool_calls_made) \in Nat
             /\ DOMAIN tool_calls_made = 1..Len(tool_calls_made)
             /\ \A i \in DOMAIN tool_calls_made :
                  /\ i \in Nat /\ tool_calls_made[i] \in Calls
                  /\ tool_calls_made[i].tool \in ToolNames /\ tool_calls_made[i].iteration \in Nat
             /\ iteration \in Nat /\ replanning_count \in Nat
  <1> SUFFICES ASSUME TypeInv
               PROVE  /\ tool_calls_made \in Seq(Calls) /\ Len(tool_calls_made) \in Nat
                      /\ DOMAIN tool_calls_made = 1..Len(tool_calls_made)
                      /\ \A i \in DOMAIN tool_calls_made :
                           /\ i \in Nat /\ tool_calls_made[i] \in Calls
                           /\ tool_calls_made[i].tool \in ToolNames /\ tool_calls_made[i].iteration \in Nat
                      /\ iteration \in Nat /\ replanning_count \in Nat
    OBVIOUS
  <1>1. tool_calls_made \in Seq(Calls)
    BY DEF TypeInv, TypeOK
  <1>2. iteration \in Nat /\ replanning_count \in Nat
    BY IterationsAssumption DEF TypeInv, TypeOK
  <1>3. \A c \in Calls : c.tool \in ToolNames /\ c.iteration \in Nat
    BY IterationsAssumption DEF Calls
  <1> QED BY <1>1, <1>2, <1>3

(* A dispatch of a round.                                                   *)
LEMMA WalkDispatch ==
  ASSUME TypeInv, RoundInv, NoRedispatchAfterUsable, Dispatch
  PROVE  RoundInv' /\ NoRedispatchAfterUsable'
  <1>1. PICK c \in Calls :
          /\ tool_calls_made' = Append(tool_calls_made, c) /\ DependenciesMet(c.tool)
          /\ c.tool = NextTool /\ c.iteration = iteration
    BY DispatchedCall
  <1>2. /\ node = "executor" /\ todo # <<>> /\ Head(todo) # <<>> /\ todo' = RestOfPlan
        /\ UNCHANGED <<node, expected_tools, pending_tools, iteration, replanning_count>>
    BY DEF Dispatch, AtTool
  <1>3. Walk
    BY <1>2 DEF RoundInv
  <1> DEFINE n == Len(tool_calls_made) + 1
  <1>4. /\ DOMAIN tool_calls_made' = DOMAIN tool_calls_made \cup {n} /\ n \notin DOMAIN tool_calls_made
        /\ tool_calls_made'[n] = c /\ n \in Nat
        /\ \A i \in DOMAIN tool_calls_made : tool_calls_made'[i] = tool_calls_made[i] /\ i < n /\ i \in Nat
    <2>1. /\ tool_calls_made \in Seq(Calls) /\ Len(tool_calls_made) \in Nat
          /\ DOMAIN tool_calls_made = 1..Len(tool_calls_made)
      BY CallAt
    <2> QED BY <1>1, <2>1
  <1>5. /\ PlanUp(todo') /\ all_tools(todo) = {c.tool} \cup all_tools(todo')
        /\ Below({c.tool}, all_tools(todo'))
    BY <1>1, <1>2, <1>3, WalkPlan DEF Walk, TypeInv, TypeOK, NextTool, RestOfPlan
  <1>6. c.tool \in ToolNames /\ Rank[c.tool] \in 1..5
    BY Ranks DEF Calls
  <1>7. c.tool \notin all_tools(todo') /\ all_tools(todo') \subseteq all_tools(todo)
    BY <1>5, <1>6 DEF Below
  <1> HIDE DEF n
  <1>8. ThisIteration' = ThisIteration \cup {n} /\ n \notin ThisIteration /\ ThisIteration \subseteq DOMAIN tool_calls_made
    BY <1>1, <1>2, <1>4 DEF ThisIteration
  <1>9. RoundTools' = RoundTools \cup {c.tool} /\ Behind' = Behind \cup {c.tool} /\ c.tool \notin RoundTools
    <2>1. RoundTools' = RoundTools \cup {c.tool}
      BY <1>4, <1>8 DEF RoundTools
    <2>2. c.tool \in all_tools(todo) /\ c.tool \in pending_tools
      BY <1>3, <1>5 DEF Walk
    <2>3. Behind' = Behind \cup {c.tool}
      BY <1>2, <1>5, <1>7, <2>2 DEF Behind
    <2> QED BY <1>3, <2>1, <2>2, <2>3 DEF Walk, Behind
  <1>10. c.tool \notin Succeeded
    <2>1. SucceededNow \subseteq RoundTools
      BY DEF SucceededNow, RoundTools
    <2>2. c.tool \in pending_tools
      BY <1>3, <1>5 DEF Walk
    <2> QED BY <1>3, <1>9, <2>1, <2>2 DEF Walk
  <1>11. Succeeded' = Succeeded \cup (IF usable(c) THEN {c.tool} ELSE {})
    BY <1>1, CallAt, UsableToolsAppend DEF Succeeded
  <1>12. SucceededNow \cup (IF usable(c) THEN {c.tool} ELSE {}) \subseteq SucceededNow'
    <2>1. SucceededNow \subseteq SucceededNow'
      BY <1>4, <1>8 DEF SucceededNow
    <2>2. usable(c) => c.tool \in SucceededNow'
      BY <1>4, <1>8 DEF SucceededNow
    <2> QED BY <2>1, <2>2
  <1>13. NoRedispatchAfterUsable'
    <2> SUFFICES ASSUME NEW i \in DOMAIN tool_calls_made', NEW j \in DOMAIN tool_calls_made', i < j,
                        tool_calls_made'[i].tool = tool_calls_made'[j].tool
                 PROVE  ~usable(tool_calls_made'[i])
      BY DEF NoRedispatchAfterUsable, usable
    <2>1. i \in DOMAIN tool_calls_made
      BY <1>4
    <2>2. CASE j \in DOMAIN tool_calls_made
      BY <1>4, <2>1, <2>2 DEF NoRedispatchAfterUsable
    <2>3. CASE j = n
      BY <1>4, <1>10, <2>1, <2>3 DEF Succeeded, UsableTools
    <2> QED BY <1>4, <2>2, <2>3
  <1>14. Walk'
    <2>1. PlanUp(todo)' /\ all_tools(todo') \subseteq pending_tools' /\ (RoundTools \subseteq Behind)'
      BY <1>2, <1>3, <1>5, <1>7, <1>9 DEF Walk
    <2>2. Below(Behind', all_tools(todo'))
      BY <1>3, <1>5, <1>7, <1>9 DEF Walk, Below
    <2>3. \A t \in Behind' : t \in RoundTools' \/ (t = "refund" /\ "order_lookup" \notin Succeeded')
      <3> SUFFICES ASSUME NEW t \in Behind, t \notin RoundTools
                   PROVE  t = "refund" /\ "order_lookup" \notin Succeeded'
        BY <1>9
      <3>1. t = "refund" /\ "order_lookup" \notin Succeeded
        BY <1>3 DEF Walk
      <3>2. c.tool # "order_lookup"
        <4>1. Rank[t] < Rank[c.tool]
          BY <1>3, <1>5 DEF Walk, Below
        <4>2. Rank["refund"] = 4 /\ Rank["order_lookup"] = 3
          BY Ranks
        <4> QED BY <3>1, <4>1, <4>2
      <3> QED BY <1>11, <3>1, <3>2
    <2>4. Once'
      <3> SUFFICES ASSUME NEW i \in ThisIteration', NEW j \in ThisIteration',
                          tool_calls_made'[i].tool = tool_calls_made'[j].tool
                   PROVE  i = j
        BY DEF Once
      <3>1. ASSUME NEW k \in ThisIteration PROVE tool_calls_made'[k].tool # c.tool
        BY <1>4, <1>8, <1>9, <3>1 DEF RoundTools
      <3>2. CASE i \in ThisIteration /\ j \in ThisIteration
        BY <1>3, <1>4, <1>8, <3>2 DEF Walk, Once
      <3>3. CASE i = n \/ j = n
        BY <1>4, <1>8, <3>1, <3>3
      <3> QED BY <1>8, <3>2, <3>3
    <2>5. pending_tools' \cap Succeeded' \subseteq SucceededNow'
      BY <1>2, <1>3, <1>11, <1>12 DEF Walk
    <2>6. replanning_count' = iteration' - 1
      BY <1>2, <1>3 DEF Walk
    <2> QED BY <2>1, <2>2, <2>3, <2>4, <2>5, <2>6 DEF Walk
  <1>15. \A i \in DOMAIN tool_calls_made' : tool_calls_made'[i].iteration <= iteration'
    <2>1. \A i \in DOMAIN tool_calls_made : tool_calls_made[i].iteration <= iteration
      BY DEF RoundInv
    <2>2. iteration <= iteration
      BY CallAt
    <2> QED BY <1>1, <1>2, <1>4, <2>1, <2>2
  <1> QED BY <1>2, <1>13, <1>14, <1>15 DEF RoundInv

(* The other steps.  The critic sees every pending tool: without a failure  *)
(* in the round all of them have been called.                               *)
LEMMA RoundSeen ==
  ASSUME TypeInv, RoundInv, NoExpectedToolLost, node = "critic"
  PROVE  /\ QuickFailed \subseteq pending_tools /\ QuickFailed \cap Succeeded = {}
         /\ QuickFailed = {} => pending_tools \subseteq SucceededNow
  <1>1. Walk /\ todo = <<>>
    BY DEF RoundInv
  <1>2. Behind = pending_tools /\ RoundTools \subseteq pending_tools
    <2>1. all_tools(todo) = {}
      BY <1>1 DEF all_tools
    <2> QED BY <1>1, <2>1 DEF Behind, Walk
  <1>3. RoundTools = QuickFailed \cup SucceededNow
    BY DEF RoundTools, QuickFailed, SucceededNow
  <1>4. QuickFailed \cap SucceededNow = {}
    BY <1>1 DEF Walk, Once, QuickFailed, SucceededNow
  <1>5. QuickFailed \cap Succeeded = {}
    BY <1>1, <1>2, <1>3, <1>4 DEF Walk
  <1>6. ASSUME QuickFailed = {} PROVE pending_tools \subseteq SucceededNow
    <2>1. \A t \in pending_tools : t \in SucceededNow \/ (t = "refund" /\ "order_lookup" \notin Succeeded)
      BY <1>1, <1>2, <1>3, <1>6 DEF Walk
    <2>2. "refund" \in pending_tools => "order_lookup" \in pending_tools \cup Succeeded
      BY DEF RoundInv, NoExpectedToolLost
    <2>3. SucceededNow \subseteq Succeeded
      BY CalledTools
    <2> QED BY <2>1, <2>2, <2>3
  <1> QED BY <1>2, <1>3, <1>5, <1>6

LEMMA PlanRound ==
  ASSUME TypeInv, LoopInv, PlanFallback
  PROVE  LoopInv'
  <1>1. /\ node = "planner" /\ node' = "executor" /\ iteration' = iteration + 1
        /\ todo' = from_pending_tools(pending_tools)
        /\ UNCHANGED <<expected_tools, pending_tools, tool_calls_made, replanning_count>>
    BY DEF PlanFallback, StartIteration
  <1>2. /\ \A i \in DOMAIN tool_calls_made : tool_calls_made[i].iteration <= iteration
        /\ pending_tools \cap Succeeded = {} /\ replanning_count = iteration
    BY <1>1 DEF LoopInv, RoundInv
  <1>3. PlanUp(todo)' /\ all_tools(todo') = pending_tools
    BY <1>1, FallbackUp DEF TypeInv, TypeOK
  <1>4. /\ ThisIteration' = {}
        /\ \A i \in DOMAIN tool_calls_made : tool_calls_made[i].iteration <= iteration'
    <2>1. \A i \in DOMAIN tool_calls_made : tool_calls_made[i].iteration # iteration + 1
      BY <1>2, CallAt
    <2>2. \A i \in DOMAIN tool_calls_made : tool_calls_made[i].iteration <= iteration + 1
      BY <1>2, CallAt
    <2> QED BY <1>1, <2>1, <2>2 DEF ThisIteration
  <1>5. RoundTools' = {} /\ Behind' = {} /\ Succeeded' = Succeeded /\ Once'
    BY <1>1, <1>3, <1>4 DEF RoundTools, Behind, Succeeded, Once
  <1>6. replanning_count' = iteration' - 1
    BY <1>1, <1>2, CallAt
  <1>7. Walk'
    BY <1>1, <1>2, <1>3, <1>5, <1>6 DEF Walk, Below
  <1> QED BY <1>1, <1>4, <1>7 DEF LoopInv, RoundInv, NoRedispatchAfterUsable, usable, ReplanCountAgrees

LEMMA WalkOn ==
  ASSUME TypeInv, LoopInv, SkipTool \/ NextLayer \/ ExecutorDone
  PROVE  LoopInv'
  <1>1. /\ node = "executor" /\ node' \in {"executor", "critic"}
        /\ UNCHANGED <<expected_tools, pending_tools, tool_calls_made, iteration, replanning_count>>
    BY DEF SkipTool, NextLayer, ExecutorDone, AtTool
  <1>2. Walk
    BY <1>1 DEF LoopInv, RoundInv
  <1>3. RoundTools' = RoundTools /\ Succeeded' = Succeeded /\ SucceededNow' = SucceededNow /\ Once' = Once
    BY <1>1 DEF RoundTools, Succeeded, SucceededNow, Once, ThisIteration, usable
  <1>4. Walk' /\ (node' = "critic" => todo' = <<>>)
    <2>1. CASE SkipTool
      <3>1. /\ todo # <<>> /\ Head(todo) # <<>> /\ todo' = RestOfPlan /\ ~DependenciesMet(NextTool)
            /\ node' = "executor"
        BY <2>1, <1>1 DEF SkipTool, AtTool
      <3>2. /\ PlanUp(todo') /\ all_tools(todo) = {NextTool} \cup all_tools(todo')
            /\ Below({NextTool}, all_tools(todo')) /\ NextTool \in ToolNames
        BY <1>2, <3>1, WalkPlan, PlanHead DEF Walk, TypeInv, TypeOK, NextTool, RestOfPlan
      <3>3. NextTool = "refund" /\ "order_lookup" \notin Succeeded
        BY <3>1, <3>2 DEF DependenciesMet, TOOL_DEPENDENCIES
      <3>4. NextTool \notin all_tools(todo')
        BY <3>2, Ranks DEF Below
      <3>5. Behind' = Behind \cup {NextTool}
        BY <1>1, <1>2, <3>2, <3>4 DEF Behind, Walk
      <3>6. Below(Behind', all_tools(todo'))
        BY <1>2, <3>2, <3>5 DEF Walk, Below
      <3>7. \A t \in Behind' : t \in RoundTools \/ (t = "refund" /\ "order_lookup" \notin Succeeded)
        BY <1>2, <3>3, <3>5 DEF Walk
      <3>8. all_tools(todo') \subseteq pending_tools /\ RoundTools \subseteq Behind'
        BY <1>2, <3>2, <3>5 DEF Walk
      <3> QED BY <1>1, <1>2, <1>3, <3>1, <3>2, <3>6, <3>7, <3>8 DEF Walk
    <2>2. CASE NextLayer
      <3>1. todo # <<>> /\ Head(todo) = <<>> /\ todo' = Tail(todo) /\ node' = "executor"
        BY <2>2 DEF NextLayer
      <3>2. PlanUp(todo') /\ all_tools(todo') = all_tools(todo)
        BY <1>2, <3>1, WalkPlan DEF Walk, TypeInv, TypeOK
      <3>3. Behind' = Behind
        BY <1>1, <3>2 DEF Behind
      <3> QED BY <1>1, <1>2, <1>3, <3>1, <3>2, <3>3 DEF Walk
    <2>3. CASE ExecutorDone
      <3>1. todo = <<>> /\ todo' = todo
        BY <2>3 DEF ExecutorDone
      <3>2. Behind' = Behind
        BY <1>1, <3>1 DEF Behind
      <3> QED BY <1>1, <1>2, <1>3, <3>1, <3>2 DEF Walk
    <2> QED BY <2>1, <2>2, <2>3
  <1> QED BY <1>1, <1>4 DEF LoopInv, RoundInv, NoRedispatchAfterUsable, usable, ReplanCountAgrees

LEMMA JudgeRound ==
  ASSUME TypeInv, LoopInv, NoExpectedToolLost, CriticConfirms \/ CriticGate
  PROVE  LoopInv'
  <1>1. /\ node = "critic" /\ node' \in {"response", "planner"}
        /\ UNCHANGED <<expected_tools, tool_calls_made, iteration>>
    BY DEF CriticConfirms, CriticGate, Judge
  <1>2. /\ QuickFailed \subseteq pending_tools /\ QuickFailed \cap Succeeded = {}
        /\ QuickFailed = {} => pending_tools \subseteq SucceededNow
    BY <1>1, RoundSeen DEF LoopInv
  <1>3. /\ pending_tools \cap Succeeded \subseteq SucceededNow /\ replanning_count = iteration - 1
        /\ pending_tools \subseteq expected_tools /\ Succeeded' = Succeeded
    BY <1>1 DEF LoopInv, RoundInv, Walk, Succeeded
  <1>4. CASE CriticConfirms
    <2>1. /\ QuickFailed = {} /\ pending_tools' = pending_tools \ SucceededNow
          /\ replanning_count' = replanning_count
          /\ node' = IF GivesUp(pending_tools') THEN "response" ELSE "planner"
      BY <1>4 DEF CriticConfirms, Judge, Remaining
    <2>2. pending_tools' = {} /\ node' = "response"
      BY <1>2, <2>1 DEF GivesUp
    <2> QED BY <1>1, <1>3, <2>1, <2>2 DEF LoopInv, RoundInv, NoRedispatchAfterUsable, usable, ReplanCountAgrees
  <1>5. CASE CriticGate
    <2>1. /\ QuickFailed # {} /\ pending_tools' = QuickFailed \cup (pending_tools \ SucceededNow)
          /\ replanning_count' = replanning_count + 1
      BY <1>5 DEF CriticGate, Judge, Remaining
    <2>2. /\ pending_tools' # {} /\ pending_tools' \subseteq expected_tools
          /\ pending_tools' \cap Succeeded = {}
      BY <1>2, <1>3, <2>1
    <2>3. replanning_count' = iteration
      BY <1>3, <2>1, CallAt
    <2> QED BY <1>1, <1>3, <2>2, <2>3 DEF LoopInv, RoundInv, NoRedispatchAfterUsable, usable, ReplanCountAgrees
  <1> QED BY <1>4, <1>5

LEMMA LoopNext ==
  ASSUME UseLLM = FALSE, TypeInv, NoExpectedToolLost, LoopInv, [Next]_vars
  PROVE  LoopInv'
  <1>1. CASE Intake
    <2>1. /\ node' = "planner" /\ expected_tools' = INTENT_TOOLS(ticket.intent)
          /\ pending_tools' = expected_tools' /\ iteration' = 0 /\ replanning_count' = 0
          /\ tool_calls_made' = <<>>
      BY <1>1 DEF Intake
    <2>2. "refund" \in expected_tools' => "order_lookup" \in expected_tools'
      BY <2>1 DEF INTENT_TOOLS
    <2>3. DOMAIN tool_calls_made' = {} /\ Succeeded' = {}
      BY <2>1 DEF Succeeded, UsableTools
    <2> QED BY <2>1, <2>2, <2>3 DEF LoopInv, RoundInv, NoRedispatchAfterUsable, ReplanCountAgrees
  <1>2. CASE PlanFallback
    BY <1>2, PlanRound
  <1>3. CASE SkipTool \/ NextLayer \/ ExecutorDone
    BY <1>3, WalkOn
  <1>4. CASE Dispatch
    <2>1. RoundInv' /\ NoRedispatchAfterUsable'
      BY <1>4, WalkDispatch DEF LoopInv
    <2>2. node' = "executor"
      BY <1>4 DEF Dispatch, AtTool
    <2> QED BY <2>1, <2>2 DEF LoopInv, ReplanCountAgrees
  <1>5. CASE CriticConfirms \/ CriticGate
    BY <1>5, JudgeRound
  <1>6. ~PlanLLM /\ ~CriticLLM
    BY DEF PlanLLM, CriticLLM
  <1>7. CASE Respond \/ Escalate \/ WriteMemory \/ DispatchRaises
    <2>1. /\ node' \in {"escalation", "write_memory", "END", "raised"}
          /\ node \in {"response", "escalation", "write_memory"} \/ node' = "raised"
          /\ UNCHANGED <<expected_tools, pending_tools, tool_calls_made, iteration, replanning_count>>
      BY <1>7 DEF Respond, Escalate, WriteMemory, DispatchRaises
    <2> QED BY <2>1 DEF LoopInv, RoundInv, NoRedispatchAfterUsable, usable, ReplanCountAgrees
  <1>8. CASE UNCHANGED vars
    <2>1. /\ node' = node /\ todo' = todo /\ expected_tools' = expected_tools
          /\ pending_tools' = pending_tools /\ tool_calls_made' = tool_calls_made
          /\ iteration' = iteration /\ replanning_count' = replanning_count
      BY <1>8 DEF vars
    <2>2. Walk' = Walk /\ Succeeded' = Succeeded
      BY <2>1 DEF Walk, RoundTools, Behind, Once, Succeeded, SucceededNow, ThisIteration, usable
    <2> QED BY <2>1, <2>2 DEF LoopInv, RoundInv, NoRedispatchAfterUsable, usable, ReplanCountAgrees
  <1> QED BY <1>1, <1>2, <1>3, <1>4, <1>5, <1>6, <1>7, <1>8 DEF Next, Step, Returned

LEMMA LoopAlways == ASSUME UseLLM = FALSE PROVE Spec => []LoopInv
  <1>1. Init => TypeInv /\ NoExpectedToolLost /\ LoopInv
    <2>1. Init => NoExpectedToolLost
      BY DEF Init, NoExpectedToolLost
    <2>2. Init => LoopInv
      BY DEF Init, LoopInv, RoundInv, NoRedispatchAfterUsable, ReplanCountAgrees
    <2> QED BY <2>1, <2>2, TypeInit
  <1>2. TypeInv /\ NoExpectedToolLost /\ LoopInv /\ [Next]_vars => (TypeInv /\ NoExpectedToolLost /\ LoopInv)'
    BY TypeNext, NoToolLostNext, LoopNext
  <1> QED BY <1>1, <1>2, PTL DEF Spec

(* Without a language model no tool is dispatched again once it has a usable*)
(* call, in whatever round (the deterministic plan and the critic's gate).  *)
THEOREM NoRedispatch == ASSUME UseLLM = FALSE PROVE Spec => []NoRedispatchAfterUsable
  <1>1. LoopInv => NoRedispatchAfterUsable
    BY DEF LoopInv
  <1> QED BY <1>1, LoopAlways, PTL

(* Without a language model replanning_count is the number of rounds whose  *)
(* results were not accepted (critic_node's count against the loop's).      *)
THEOREM ReplanCount == ASSUME UseLLM = FALSE PROVE Spec => []ReplanCountAgrees
  <1>1. LoopInv => ReplanCountAgrees
    BY DEF LoopInv
  <1> QED BY <1>1, LoopAlways, PTL

-----------------------------------------------------------------------------
(* The verdict: where resolved, escalate and the usable calls stand at each *)
(* node.                                                                    *)
Outcome ==
    /\ node = "intake" => expected_tools = {} /\ tool_calls_made = <<>> /\ iteration = 0
    /\ node = "planner" => pending_tools # {}
    /\ node \in {"executor", "critic"} => iteration > 0
    /\ node = "escalation" => ~resolved
    /\ node \in {"escalation", "write_memory"} => (resolved <=> expected_tools \subseteq Succeeded)
    /\ node = "write_memory" => (escalate <=> ~resolved)

LEMMA OutcomeInit == Init => Outcome
  BY DEF Init, Outcome

LEMMA OutcomeNext ==
  ASSUME TypeInv, RoutingInv, Outcome, [Next]_vars
  PROVE  Outcome'
  <1>1. CASE Intake
    <2>1. node' = "planner" /\ pending_tools' = INTENT_TOOLS(ticket.intent)
      BY <1>1 DEF Intake
    <2>2. INTENT_TOOLS(ticket.intent) # {}
      BY DEF INTENT_TOOLS
    <2> QED BY <2>1, <2>2 DEF Outcome
  <1>2. CASE PlanFallback \/ PlanLLM
    <2>1. node' = "executor" /\ iteration' = iteration + 1
      BY <1>2 DEF PlanFallback, PlanLLM, StartIteration
    <2>2. iteration' > 0
      BY <2>1, CallAt
    <2> QED BY <2>1, <2>2 DEF Outcome
  <1>3. CASE SkipTool \/ Dispatch \/ DispatchRaises \/ NextLayer \/ ExecutorDone
    <2>1. node = "executor" /\ node' \in {"executor", "critic", "raised"} /\ iteration' = iteration
      BY <1>3 DEF SkipTool, Dispatch, DispatchRaises, NextLayer, ExecutorDone, AtTool
    <2> QED BY <2>1 DEF Outcome
  <1>4. CASE CriticConfirms \/ CriticGate \/ CriticLLM
    <2>1. PICK vr \in BOOLEAN, failed \in SUBSET ToolNames, category \in Categories \cup {None} :
             Judge(vr, failed, category)
      BY <1>4, CriticSteps DEF Judges
    <2>2. node' = "response" \/ (node' = "planner" /\ pending_tools' # {})
      BY <2>1 DEF Judge, GivesUp
    <2> QED BY <2>2 DEF Outcome
  <1>5. CASE Respond
    <2>1. /\ node = "response" /\ resolved' = check_resolved /\ escalate' = escalate
          /\ node' = IF check_resolved THEN "write_memory" ELSE "escalation"
          /\ UNCHANGED <<expected_tools, tool_calls_made>>
      BY <1>5 DEF Respond
    <2>2. Succeeded' = Succeeded /\ (check_resolved <=> expected_tools \subseteq Succeeded)
      BY <2>1 DEF Succeeded, check_resolved
    <2>3. ~escalate
      BY <2>1 DEF RoutingInv, RoutingByNode
    <2> QED BY <2>1, <2>2, <2>3 DEF Outcome
  <1>6. CASE Escalate
    <2>1. /\ node = "escalation" /\ node' = "write_memory" /\ escalate' = ~resolved
          /\ UNCHANGED <<expected_tools, tool_calls_made, resolved>>
      BY <1>6 DEF Escalate
    <2>2. Succeeded' = Succeeded
      BY <2>1 DEF Succeeded
    <2> QED BY <2>1, <2>2 DEF Outcome
  <1>7. CASE WriteMemory
    BY <1>7 DEF WriteMemory, Outcome
  <1>8. CASE UNCHANGED vars
    <2>1. UNCHANGED <<node, expected_tools, tool_calls_made, iteration, pending_tools, resolved, escalate>>
      BY <1>8 DEF vars
    <2>2. Succeeded' = Succeeded
      BY <2>1 DEF Succeeded
    <2> QED BY <2>1, <2>2 DEF Outcome
  <1> QED BY <1>1, <1>2, <1>3, <1>4, <1>5, <1>6, <1>7, <1>8 DEF Next, Step, Returned

(* What the refinement rests on; without a language model also on the round. *)
HandlingInv == /\ TypeInv /\ NoExpectedToolLost /\ RoutingInv /\ Outcome
               /\ ~UseLLM => LoopInv

LEMMA HandlingInit == Init => HandlingInv
  <1>1. Init => NoExpectedToolLost /\ RoutingInv
    BY DEF Init, NoExpectedToolLost, RoutingInv, RoutingByNode, EscalatesOnlyWhenExhausted
  <1>2. Init => LoopInv
    BY DEF Init, LoopInv, RoundInv, NoRedispatchAfterUsable, ReplanCountAgrees
  <1> QED BY <1>1, <1>2, TypeInit, OutcomeInit DEF HandlingInv

LEMMA HandlingNext == HandlingInv /\ [Next]_vars => HandlingInv'
  <1> SUFFICES ASSUME HandlingInv, [Next]_vars PROVE HandlingInv'
    OBVIOUS
  <1>1. TypeInv' /\ NoExpectedToolLost' /\ RoutingInv' /\ Outcome'
    BY TypeNext, NoToolLostNext, RoutingNext, OutcomeNext DEF HandlingInv
  <1>2. ~UseLLM => LoopInv'
    BY LLMAssumption, LoopNext DEF HandlingInv
  <1> QED BY <1>1, <1>2 DEF HandlingInv

(* Without a language model the tool about to be called is one the ticket   *)
(* needs.                                                                   *)
LEMMA AskedIsNeeded ==
  ASSUME TypeInv, RoundInv, AtTool
  PROVE  NextTool \in expected_tools
  <1>1. node = "executor" /\ todo # <<>> /\ Head(todo) # <<>> /\ Walk
    BY DEF AtTool, RoundInv
  <1>2. NextTool \in all_tools(todo)
    BY <1>1, WalkPlan DEF Walk, TypeInv, TypeOK, NextTool
  <1> QED BY <1>1, <1>2 DEF Walk, RoundInv

HandlingVars == <<Verdict, expected_tools, Succeeded, iteration>>

LEMMA DispatchAnswers ==
  ASSUME HandlingInv, Dispatch
  PROVE  Handling!Next \/ UNCHANGED HandlingVars
  <1>1. PICK c \in Calls :
          /\ tool_calls_made' = Append(tool_calls_made, c) /\ DependenciesMet(c.tool)
          /\ c.tool = NextTool
    BY DispatchedCall DEF HandlingInv
  <1>2. /\ AtTool /\ node = "executor" /\ node' = "executor"
        /\ expected_tools' = expected_tools /\ iteration' = iteration
    BY DEF Dispatch, AtTool
  <1>3. Verdict = "open" /\ Verdict' = "open"
    BY <1>2 DEF Verdict
  <1>4. Succeeded' = Succeeded \cup (IF usable(c) THEN {c.tool} ELSE {})
    BY <1>1, UsableToolsAppend DEF Succeeded, HandlingInv, TypeInv, TypeOK
  <1>5. CASE usable(c)
    <2>1. c.tool \in ToolNames
      BY DEF Calls
    <2>2. iteration > 0
      BY <1>2 DEF HandlingInv, Outcome
    <2>3. TOOL_DEPENDENCIES[c.tool] \subseteq Succeeded
      BY <1>1 DEF DependenciesMet
    <2>4. ~UseLLM => c.tool \in expected_tools
      BY <1>1, <1>2, AskedIsNeeded DEF HandlingInv, LoopInv
    <2>5. Succeeded' = Succeeded \cup {c.tool}
      BY <1>4, <1>5
    <2>6. Handling!Answer(c.tool)
      BY <1>2, <1>3, <2>2, <2>3, <2>4, <2>5 DEF Handling!Answer
    <2> QED BY <2>1, <2>6 DEF Handling!Next
  <1>6. CASE ~usable(c)
    BY <1>2, <1>3, <1>4, <1>6 DEF HandlingVars
  <1> QED BY <1>5, <1>6

(* Every step of the pipeline is one of the handling, or none.              *)
LEMMA HandlingStep ==
  ASSUME HandlingInv, [Next]_vars
  PROVE  Handling!Next \/ UNCHANGED HandlingVars
  <1>0. TypeInv /\ NoExpectedToolLost /\ RoutingInv /\ Outcome
    BY DEF HandlingInv
  <1>1. CASE Intake
    <2>1. /\ node = "intake" /\ node' = "planner" /\ iteration' = 0 /\ tool_calls_made' = <<>>
          /\ expected_tools' = INTENT_TOOLS(ticket.intent)
      BY <1>1 DEF Intake
    <2>2. iteration = 0 /\ tool_calls_made = <<>>
      BY <1>0, <2>1 DEF Outcome
    <2>3. Verdict = "new" /\ Verdict' = "open" /\ Succeeded' = Succeeded
      BY <2>1, <2>2 DEF Verdict, Succeeded
    <2>4. INTENT_TOOLS(ticket.intent) \in (SUBSET ToolNames) \ {{}}
      <3>1. INTENT_TOOLS(ticket.intent) # {}
        BY DEF INTENT_TOOLS
      <3>2. INTENT_TOOLS(ticket.intent) \subseteq ToolNames
        BY IntentToolsType DEF ToolNames
      <3> QED BY <3>1, <3>2
    <2> QED BY <2>1, <2>2, <2>3, <2>4 DEF Handling!Next, Handling!Accept
  <1>2. CASE PlanFallback \/ PlanLLM
    <2>1. /\ node = "planner" /\ node' = "executor" /\ iteration' = iteration + 1
          /\ UNCHANGED <<expected_tools, tool_calls_made>>
      BY <1>2 DEF PlanFallback, PlanLLM, StartIteration
    <2>2. iteration < MAX_ITERATIONS /\ pending_tools # {}
      BY <1>0, <2>1 DEF TypeInv, CountersByNode, Outcome
    <2>3. ~UseLLM => expected_tools \ Succeeded # {}
      BY <2>1, <2>2 DEF HandlingInv, LoopInv, RoundInv
    <2>4. Verdict = "open" /\ Verdict' = "open" /\ Succeeded' = Succeeded
      BY <2>1 DEF Verdict, Succeeded
    <2> QED BY <2>1, <2>2, <2>3, <2>4 DEF Handling!Next, Handling!Plan, Handling!Missing
  <1>3. CASE Dispatch
    BY <1>3, DispatchAnswers
  <1>4. CASE SkipTool \/ NextLayer \/ ExecutorDone
    <2>1. /\ node = "executor" /\ node' \in {"executor", "critic"}
          /\ UNCHANGED <<expected_tools, tool_calls_made, iteration>>
      BY <1>4 DEF SkipTool, NextLayer, ExecutorDone, AtTool
    <2> QED BY <2>1 DEF HandlingVars, Verdict, Succeeded
  <1>5. CASE DispatchRaises
    <2>1. /\ node = "executor" /\ node' = "raised"
          /\ UNCHANGED <<expected_tools, tool_calls_made, iteration>>
      BY <1>5 DEF DispatchRaises, AtTool
    <2>2. Verdict = "open" /\ Verdict' = "raised" /\ Succeeded' = Succeeded /\ iteration > 0
      BY <1>0, <2>1 DEF Verdict, Succeeded, Outcome
    <2> QED BY <2>1, <2>2 DEF Handling!Next, Handling!Raise
  <1>6. CASE CriticConfirms \/ CriticGate \/ CriticLLM
    <2>1. PICK vr \in BOOLEAN, failed \in SUBSET ToolNames, category \in Categories \cup {None} :
             Judge(vr, failed, category)
      BY <1>0, <1>6, CriticSteps DEF Judges
    <2>2. /\ node = "critic" /\ node' \in {"response", "planner"}
          /\ UNCHANGED <<expected_tools, tool_calls_made, iteration>>
      BY <2>1 DEF Judge
    <2> QED BY <2>2 DEF HandlingVars, Verdict, Succeeded
  <1>7. CASE Respond \/ Escalate
    <2>1. /\ node \in {"response", "escalation"} /\ node' \in {"escalation", "write_memory"}
          /\ UNCHANGED <<expected_tools, tool_calls_made, iteration>>
      BY <1>7 DEF Respond, Escalate
    <2> QED BY <2>1 DEF HandlingVars, Verdict, Succeeded
  <1>8. CASE WriteMemory
    <2>1. /\ node = "write_memory" /\ node' = "END"
          /\ UNCHANGED <<expected_tools, tool_calls_made, iteration, resolved, escalate>>
      BY <1>8 DEF WriteMemory
    <2>2. Verdict = "open" /\ Succeeded' = Succeeded
      BY <2>1 DEF Verdict, Succeeded
    <2>3. /\ resolved <=> expected_tools \subseteq Succeeded
          /\ escalate <=> ~resolved
      BY <1>0, <2>1 DEF Outcome
    <2>4. CASE resolved
      <3>1. Verdict' = "resolved"
        BY <2>1, <2>3, <2>4 DEF Verdict
      <3>2. Handling!Resolve
        BY <2>1, <2>2, <2>3, <2>4, <3>1 DEF Handling!Resolve, Handling!Missing
      <3> QED BY <3>2 DEF Handling!Next
    <2>5. CASE ~resolved
      <3>1. Verdict' = "escalated"
        BY <2>1, <2>3, <2>5 DEF Verdict
      <3>2. iteration = MAX_ITERATIONS
        BY <1>0, <2>3, <2>5 DEF RoutingInv, EscalatesOnlyWhenExhausted
      <3>3. Handling!Escalate
        BY <2>1, <2>2, <2>3, <2>5, <3>1, <3>2 DEF Handling!Escalate, Handling!Missing
      <3> QED BY <3>3 DEF Handling!Next
    <2> QED BY <2>4, <2>5
  <1>9. CASE UNCHANGED vars
    BY <1>9 DEF vars, HandlingVars, Verdict, Succeeded
  <1> QED BY <1>1, <1>2, <1>3, <1>4, <1>5, <1>6, <1>7, <1>8, <1>9 DEF Next, Step, Returned

(* The pipeline implements TicketHandling: whatever the models answer, the  *)
(* verdict is one, it is the one the usable calls and the rounds justify,   *)
(* and without a language model no round begins with nothing missing and no *)
(* answer is one the ticket did not need.                                   *)
THEOREM TicketsAreHandled == Spec => HandlesTicket
  <1>1. Init => Handling!Init
    <2> SUFFICES ASSUME Init PROVE Handling!Init
      OBVIOUS
    <2>1. Verdict = "new"
      BY DEF Init, Verdict
    <2>2. Succeeded = {}
      BY DEF Init, Succeeded, UsableTools
    <2> QED BY <2>1, <2>2 DEF Init, Handling!Init
  <1>2. HandlingInv /\ [Next]_vars => [Handling!Next]_<<Verdict, expected_tools, Succeeded, iteration>>
    BY HandlingStep DEF HandlingVars
  <1>3. Spec => []HandlingInv
    BY HandlingInit, HandlingNext, PTL DEF Spec
  <1> QED BY <1>1, <1>2, <1>3, PTL DEF Spec, HandlesTicket, Handling!Spec

-----------------------------------------------------------------------------
(* Every step goes forward.                                                 *)

LEMMA Places ==
  /\ Place["intake"] = 0 /\ Place["executor"] = 1 /\ Place["critic"] = 2 /\ Place["planner"] = 3
  /\ Place["response"] = 4 /\ Place["escalation"] = 5 /\ Place["write_memory"] = 6
  /\ Place["END"] = 7 /\ Place["raised"] = 7
  BY DEF Place, Nodes

(* What is left of a plan after a tool, and after a layer, is shorter.      *)
LEMMA PlanShortens ==
  ASSUME NEW plan \in PlansOver(ToolNames), plan # <<>>
  PROVE  /\ Len(Tail(plan)) < Len(plan)
         /\ Head(plan) # <<>> =>
              LET rest == <<Tail(Head(plan))>> \o Tail(plan) IN
              Len(rest) = Len(plan) /\ Len(Head(rest)) < Len(Head(plan))
  <1> DEFINE h == Head(plan)
             tl == Tail(plan)
             rest == <<Tail(h)>> \o tl
  <1>1. /\ h \in Seq(ToolNames) /\ tl \in Seq(Seq(ToolNames))
        /\ Len(plan) \in Nat /\ Len(tl) = Len(plan) - 1
    BY DEF PlansOver
  <1> HIDE DEF h, tl
  <1>2. ASSUME h # <<>> PROVE Len(rest) = Len(plan) /\ Len(Head(rest)) < Len(h)
    <2>1. Tail(h) \in Seq(ToolNames) /\ Len(h) \in Nat /\ Len(Tail(h)) = Len(h) - 1
      BY <1>1, <1>2
    <2>2. <<Tail(h)>> \in Seq(Seq(ToolNames)) /\ Len(<<Tail(h)>>) = 1 /\ <<Tail(h)>>[1] = Tail(h)
      BY <2>1
    <2>3. Len(rest) = 1 + Len(tl) /\ rest[1] = Tail(h) /\ rest \in Seq(Seq(ToolNames))
      BY <1>1, <2>2
    <2>4. Head(rest) = rest[1]
      BY <1>1, <2>3
    <2> QED BY <1>1, <2>1, <2>3, <2>4
  <1> QED BY <1>1, <1>2 DEF h, tl

LEMMA ForwardStep ==
  ASSUME TypeInv, Outcome, Step
  PROVE  StepsForward
  <1>0. iteration \in Nat /\ todo \in PlansOver(ToolNames)
    BY CallAt DEF TypeInv, TypeOK
  <1>1. CASE Intake
    <2>1. node = "intake" /\ node' = "planner" /\ iteration' = 0 /\ iteration = 0
      BY <1>1 DEF Intake, Outcome
    <2> QED BY <2>1, Places DEF StepsForward, GoesOn
  <1>2. CASE PlanFallback \/ PlanLLM
    <2>1. node = "planner" /\ iteration' = iteration + 1
      BY <1>2 DEF PlanFallback, PlanLLM, StartIteration
    <2> QED BY <2>1 DEF StepsForward, TypeInv, CountersByNode
  <1>3. CASE SkipTool \/ Dispatch
    <2>1. /\ node = "executor" /\ node' = node /\ iteration' = iteration
          /\ todo # <<>> /\ Head(todo) # <<>> /\ todo' = RestOfPlan
      BY <1>3 DEF SkipTool, Dispatch, AtTool
    <2>2. Len(todo') = Len(todo) /\ Len(Head(todo')) < Len(Head(todo))
      BY <1>0, <2>1, PlanShortens DEF RestOfPlan
    <2> QED BY <2>1, <2>2 DEF StepsForward, GoesOn
  <1>4. CASE NextLayer
    <2>1. node = "executor" /\ node' = node /\ iteration' = iteration /\ todo # <<>> /\ todo' = Tail(todo)
      BY <1>4 DEF NextLayer
    <2>2. Len(todo') < Len(todo)
      BY <1>0, <2>1, PlanShortens
    <2> QED BY <2>1, <2>2 DEF StepsForward, GoesOn
  <1>5. CASE DispatchRaises \/ ExecutorDone
    <2>1. node = "executor" /\ node' \in {"raised", "critic"} /\ iteration' = iteration
      BY <1>5 DEF DispatchRaises, ExecutorDone, AtTool
    <2> QED BY <2>1, Places DEF StepsForward, GoesOn
  <1>6. CASE CriticConfirms \/ CriticGate \/ CriticLLM
    <2>1. PICK vr \in BOOLEAN, failed \in SUBSET ToolNames, category \in Categories \cup {None} :
             Judge(vr, failed, category)
      BY <1>6, CriticSteps DEF Judges
    <2>2. node = "critic" /\ node' \in {"planner", "response"} /\ iteration' = iteration
      BY <2>1 DEF Judge
    <2> QED BY <2>2, Places DEF StepsForward, GoesOn
  <1>7. CASE Respond
    <2>1. node = "response" /\ node' \in {"escalation", "write_memory"} /\ iteration' = iteration
      BY <1>7 DEF Respond
    <2> QED BY <2>1, Places DEF StepsForward, GoesOn
  <1>8. CASE Escalate
    <2>1. node = "escalation" /\ node' = "write_memory" /\ iteration' = iteration
      BY <1>8 DEF Escalate
    <2> QED BY <2>1, Places DEF StepsForward, GoesOn
  <1>9. CASE WriteMemory
    <2>1. node = "write_memory" /\ node' = "END" /\ iteration' = iteration
      BY <1>9 DEF WriteMemory
    <2> QED BY <2>1, Places DEF StepsForward, GoesOn
  <1> QED BY <1>1, <1>2, <1>3, <1>4, <1>5, <1>6, <1>7, <1>8, <1>9 DEF Step

(* No step of the graph goes back: each begins one of the MAX_ITERATIONS    *)
(* rounds, moves on within its round or walks the plan on, so a run of the  *)
(* pipeline has no cycle to be caught in (the edges of build_graph).        *)
THEOREM NoStepGoesBack == Spec => NoStepBack
  <1>1. HandlingInv /\ [Next]_vars => [StepsForward]_vars
    <2>1. HandlingInv /\ Step => StepsForward
      BY ForwardStep DEF HandlingInv
    <2>2. Returned => UNCHANGED vars
      BY DEF Returned
    <2> QED BY <2>1, <2>2 DEF Next
  <1>2. Spec => []HandlingInv
    BY HandlingInit, HandlingNext, PTL DEF Spec
  <1> QED BY <1>1, <1>2, PTL DEF Spec, NoStepBack

-----------------------------------------------------------------------------
(* The deterministic plan passes the gate of PlanSuccessMemory.             *)

(* No layer is empty, and the tools of one are of one number of TOOL_LAYERS.*)
ByLayer(plan) ==
    \A a \in DOMAIN plan :
        plan[a] # <<>> /\ \A t, u \in Elements(plan[a]) : TOOL_LAYERS[t] = TOOL_LAYERS[u]

LEMMA ByLayerJoin ==
  ASSUME NEW p \in PlansOver(ToolNames), NEW q \in PlansOver(ToolNames), ByLayer(p), ByLayer(q)
  PROVE  p \o q \in PlansOver(ToolNames) /\ ByLayer(p \o q)
  <1> DEFINE pq == p \o q
  <1>0. p \in Seq(Seq(ToolNames)) /\ q \in Seq(Seq(ToolNames))
    BY DEF PlansOver
  <1>1. /\ pq \in Seq(Seq(ToolNames)) /\ DOMAIN pq = 1..(Len(p) + Len(q))
        /\ DOMAIN p = 1..Len(p) /\ DOMAIN q = 1..Len(q) /\ Len(p) \in Nat /\ Len(q) \in Nat
        /\ \A i \in 1..Len(p) : pq[i] = p[i]
        /\ \A i \in 1..(Len(p) + Len(q)) : i > Len(p) => pq[i] = q[i - Len(p)]
    BY <1>0
  <1> HIDE DEF pq
  <1>2. ASSUME NEW i \in DOMAIN pq
        PROVE  (\E a \in DOMAIN p : pq[i] = p[a]) \/ (\E b \in DOMAIN q : pq[i] = q[b])
    <2>1. i \in 1..Len(p) \/ (i > Len(p) /\ i - Len(p) \in 1..Len(q))
      BY <1>1, <1>2, Shift
    <2> QED BY <1>1, <1>2, <2>1
  <1>3. ByLayer(pq)
    BY <1>2 DEF ByLayer
  <1> QED BY <1>1, <1>3 DEF pq, PlansOver

LEMMA FallbackByLayer ==
  ASSUME NEW pending
  PROVE  ByLayer(from_pending_tools(pending))
  <1> DEFINE L(k) == IfPopulated(LayerOf(pending, k))
  <1>1. \A k \in {0, 1, 2, 99} : L(k) \in PlansOver(ToolNames)
    BY LayerType
  <1>2. ASSUME NEW k \in {0, 1, 2, 99} PROVE ByLayer(L(k))
    <2>1. CASE LayerOf(pending, k) = <<>>
      BY <2>1 DEF IfPopulated, ByLayer
    <2>2. CASE LayerOf(pending, k) # <<>>
      <3>1. L(k) = <<LayerOf(pending, k)>>
        BY <2>2 DEF IfPopulated
      <3>2. \A t \in Elements(LayerOf(pending, k)) : TOOL_LAYERS[t] = k
        BY LayerOfUp
      <3> HIDE DEF L
      <3> QED BY <2>2, <3>1, <3>2 DEF ByLayer
    <2> QED BY <2>1, <2>2
  <1>3. from_pending_tools(pending) = ((L(0) \o L(1)) \o L(2)) \o L(99)
    BY DEF from_pending_tools
  <1> HIDE DEF L
  <1>4. L(0) \o L(1) \in PlansOver(ToolNames) /\ ByLayer(L(0) \o L(1))
    BY <1>1, <1>2, ByLayerJoin
  <1>5. (L(0) \o L(1)) \o L(2) \in PlansOver(ToolNames) /\ ByLayer((L(0) \o L(1)) \o L(2))
    BY <1>1, <1>2, <1>4, ByLayerJoin
  <1>6. ByLayer(((L(0) \o L(1)) \o L(2)) \o L(99))
    BY <1>1, <1>2, <1>5, ByLayerJoin
  <1> QED BY <1>3, <1>6

(* Each tool of such a plan is in one layer, the one tool_layer finds.      *)
LEMMA ToolLayer ==
  ASSUME NEW plan \in PlansOver(ToolNames), PlanUp(plan), NEW t \in all_tools(plan)
  PROVE  tool_layer(plan, t) \in DOMAIN plan /\ t \in Elements(plan[tool_layer(plan, t)])
  <1>1. PICK i \in DOMAIN plan : t \in Elements(plan[i])
    BY DEF all_tools
  <1>2. plan \in Seq(Seq(ToolNames)) /\ \A j \in DOMAIN plan : j \in Nat /\ plan[j] \in Seq(ToolNames)
    BY DEF PlansOver
  <1>3. t \in ToolNames
    BY <1>1, <1>2 DEF Elements
  <1>4. \A j \in DOMAIN plan : t \in Elements(plan[j]) => j = i
    <2> SUFFICES ASSUME NEW j \in DOMAIN plan, t \in Elements(plan[j]), j # i PROVE FALSE
      OBVIOUS
    <2>1. j < i \/ i < j
      BY <1>2
    <2>2. Rank[t] < Rank[t]
      BY <1>1, <2>1 DEF PlanUp, Below
    <2> QED BY <1>3, <2>2, Ranks
  <1>5. \A j \in DOMAIN plan : t \in Elements(plan[j]) => j <= i
    BY <1>2, <1>4
  <1>6. tool_layer(plan, t) = i
    BY <1>1, <1>2, <1>4, <1>5 DEF tool_layer
  <1> QED BY <1>1, <1>6

(* The deterministic plan names the pending tools and no other, and puts    *)
(* every dependency in an earlier layer (ExecutionDAG.from_pending_tools    *)
(* against is_dependency_ordered).                                          *)
THEOREM FallbackOrdered ==
  ASSUME NEW pending \in SUBSET ToolNames
  PROVE  /\ all_tools(from_pending_tools(pending)) = pending
         /\ pending # {} => is_dependency_ordered(from_pending_tools(pending))
  <1> DEFINE plan == from_pending_tools(pending)
  <1>1. plan \in PlansOver(ToolNames) /\ PlanUp(plan) /\ all_tools(plan) = pending /\ ByLayer(plan)
    BY FallbackPlanType, FallbackUp, FallbackByLayer
  <1> HIDE DEF plan
  <1>2. ASSUME pending # {} PROVE is_dependency_ordered(plan)
    <2>1. plan \in Seq(Seq(ToolNames)) /\ DOMAIN plan = 1..Len(plan) /\ Len(plan) \in Nat
      BY <1>1 DEF PlansOver
    <2>2. Populated(plan) = DOMAIN plan /\ DOMAIN plan # {}
      BY <1>1, <1>2 DEF Populated, ByLayer, all_tools
    <2>3. \A i \in Populated(plan) : \A j \in 1..i : j \in Populated(plan)
      BY <2>1, <2>2
    <2>4. ASSUME NEW t \in all_tools(plan), NEW d \in TOOL_DEPENDENCIES[t] \cap all_tools(plan)
          PROVE  tool_layer(plan, d) < tool_layer(plan, t)
      <3>1. t \in ToolNames /\ d \in ToolNames
        BY <1>1
      <3>2. t = "refund" /\ d = "order_lookup"
        BY <3>1 DEF TOOL_DEPENDENCIES
      <3>3. PICK i \in DOMAIN plan : i = tool_layer(plan, d) /\ d \in Elements(plan[i])
        BY <1>1, ToolLayer
      <3>4. PICK j \in DOMAIN plan : j = tool_layer(plan, t) /\ t \in Elements(plan[j])
        BY <1>1, ToolLayer
      <3>5. i # j
        <4>1. TOOL_LAYERS[t] # TOOL_LAYERS[d]
          BY <3>1, <3>2 DEF TOOL_LAYERS
        <4> QED BY <1>1, <3>3, <3>4, <4>1 DEF ByLayer
      <3>6. ~(j < i)
        <4>1. ~(Rank[t] < Rank[d])
          BY <3>2, Ranks
        <4> QED BY <1>1, <3>3, <3>4, <4>1 DEF PlanUp, Below
      <3> QED BY <2>1, <3>3, <3>4, <3>5, <3>6
    <2> QED BY <2>2, <2>3, <2>4 DEF is_dependency_ordered
  <1> QED BY <1>1, <1>2 DEF plan

OrderedDag == node \notin {"intake", "planner"} => is_dependency_ordered(dag)

LEMMA OrderedDagNext ==
  ASSUME UseLLM = FALSE, HandlingInv, OrderedDag, [Next]_vars
  PROVE  OrderedDag'
  <1>0. TypeInv
    BY DEF HandlingInv
  <1>1. CASE Intake
    BY <1>1 DEF Intake, OrderedDag
  <1>2. CASE PlanFallback
    <2>1. node = "planner" /\ dag' = from_pending_tools(pending_tools)
      BY <1>2 DEF PlanFallback, StartIteration
    <2>2. pending_tools # {} /\ pending_tools \subseteq ToolNames
      BY <2>1 DEF HandlingInv, Outcome, TypeInv, TypeOK
    <2>3. is_dependency_ordered(dag')
      BY <2>1, <2>2, FallbackOrdered
    <2> QED BY <2>3 DEF OrderedDag
  <1>3. CASE SkipTool \/ Dispatch \/ DispatchRaises \/ NextLayer \/ ExecutorDone
    <2>1. node = "executor" /\ dag' = dag
      BY <1>3 DEF SkipTool, Dispatch, DispatchRaises, NextLayer, ExecutorDone, AtTool
    <2> QED BY <2>1 DEF OrderedDag
  <1>4. CASE CriticConfirms \/ CriticGate
    <2>1. node = "critic" /\ dag' = dag
      BY <1>4 DEF CriticConfirms, CriticGate, Judge
    <2> QED BY <2>1 DEF OrderedDag
  <1>5. ~PlanLLM /\ ~CriticLLM
    BY DEF PlanLLM, CriticLLM
  <1>6. CASE Respond \/ Escalate \/ WriteMemory
    <2>1. node \in {"response", "escalation", "write_memory"} /\ dag' = dag
      BY <1>6 DEF Respond, Escalate, WriteMemory
    <2> QED BY <2>1 DEF OrderedDag
  <1>7. CASE UNCHANGED vars
    BY <1>7 DEF vars, OrderedDag
  <1> QED BY <1>1, <1>2, <1>3, <1>4, <1>5, <1>6, <1>7 DEF Next, Step, Returned

(* Without a language model every resolved ticket leaves a plan in          *)
(* PlanSuccessMemory: the gate of write_plan_success turns none away.       *)
THEOREM ResolutionsMemorised == ASSUME UseLLM = FALSE PROVE Spec => []ResolvedPlanMemorised
  <1>1. Init => HandlingInv /\ OrderedDag
    BY HandlingInit DEF Init, OrderedDag
  <1>2. HandlingInv /\ OrderedDag /\ [Next]_vars => (HandlingInv /\ OrderedDag)'
    BY HandlingNext, OrderedDagNext
  <1>3. OrderedDag => ResolvedPlanMemorised
    BY DEF OrderedDag, ResolvedPlanMemorised, PlanSuccessEntries
  <1> QED BY <1>1, <1>2, <1>3, PTL DEF Spec
=============================================================================
