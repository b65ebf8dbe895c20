---------------------------- MODULE ExecutionDAG ----------------------------
(***************************************************************************)
(* The Planner -> Executor contract: a plan is an ordered list of layers,  *)
(* each layer a list of tool names.  The executor walks the layers in      *)
(* order and the tools of a layer in the order they are listed.            *)
(***************************************************************************)
EXTENDS Integers, Sequences

(* The tools the adapters know.  Any other name (a critic's answer may hold  *)
(* one) behaves like every other unregistered name, so one stands for all. *)
Tools == {"crm", "kb_search", "order_lookup", "refund"}
UnknownTool == "unknown_tool"
ToolNames == Tools \cup {UnknownTool}

(* Python's sorted() on the names above.                                    *)
SortedToolNames == <<"crm", "kb_search", "order_lookup", "refund", UnknownTool>>

(* TOOL_LAYERS.get(t, 99)                                                   *)
TOOL_LAYERS == [t \in ToolNames |->
    CASE t = "crm" -> 0
      [] t = "order_lookup" -> 1
      [] t = "kb_search" -> 1
      [] t = "refund" -> 2
      [] OTHER -> 99]

(* TOOL_DEPENDENCIES.get(t, set())                                          *)
TOOL_DEPENDENCIES == [t \in ToolNames |->
    IF t = "refund" THEN {"order_lookup"} ELSE {}]

Elements(layer) == {layer[i] : i \in DOMAIN layer}

all_tools(dag) == UNION {Elements(dag[i]) : i \in DOMAIN dag}

(* Every plan the type `list[list[str]]` admits over a set of tools.        *)
PlansOver(tools) == Seq(Seq(tools))

-----------------------------------------------------------------------------
(* The deterministic plan: pending tools grouped by layer number, sorted    *)
(* inside a layer, layers without a tool left out.                          *)
Pick(t, pending, k) ==
    IF t \in pending /\ TOOL_LAYERS[t] = k THEN <<t>> ELSE <<>>

LayerOf(pending, k) ==
    Pick("crm", pending, k) \o Pick("kb_search", pending, k)
      \o Pick("order_lookup", pending, k) \o Pick("refund", pending, k)
      \o Pick(UnknownTool, pending, k)

IfPopulated(layer) == IF layer = <<>> THEN <<>> ELSE <<layer>>

from_pending_tools(pending) ==
    IfPopulated(LayerOf(pending, 0)) \o IfPopulated(LayerOf(pending, 1))
      \o IfPopulated(LayerOf(pending, 2)) \o IfPopulated(LayerOf(pending, 99))

(* Layers that lose every tool stay in the plan as empty lists.             *)
filtered_to(dag, allowed) ==
    [i \in DOMAIN dag |-> SelectSeq(dag[i], LAMBDA t : t \in allowed)]

(* The gate in front of PlanSuccessMemory.  tool_layer keeps the last layer *)
(* a tool is listed in, and a dependency the plan does not list is ignored. *)
tool_layer(dag, t) ==
    CHOOSE i \in DOMAIN dag :
        t \in Elements(dag[i]) /\ \A j \in DOMAIN dag : t \in Elements(dag[j]) => j <= i

Populated(dag) == {i \in DOMAIN dag : dag[i] # <<>>}

is_dependency_ordered(dag) ==
    /\ Populated(dag) # {}
    /\ \A i \in Populated(dag) : \A j \in 1..i : j \in Populated(dag)
    /\ \A t \in all_tools(dag) :
          \A d \in TOOL_DEPENDENCIES[t] \cap all_tools(dag) :
              tool_layer(dag, d) < tool_layer(dag, t)
=============================================================================
