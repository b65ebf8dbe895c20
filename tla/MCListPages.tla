----------------------------- MODULE MCListPages ----------------------------
(* Every page, query, control and sortable column of the catalog, each with a  *)
(* few gestures.                                                               *)
EXTENDS ListPages, TLC

ASSUME HandlersFitRecords

Main(p) == CHOOSE q \in DOMAIN Catalog[p].queries :
             ~Catalog[p].queries[q].waits /\ Catalog[p].queries[q].meant # {}
AnyControl(p) == CHOOSE c \in Catalog[p].controls : Cardinality(c) = 1
Watch(p, q, fields, column, n) ==
  [page |-> p, query |-> q, fields |-> fields, column |-> column, gestures |-> n]
ByControl == UNION {{Watch(p, q, c, Catalog[p].sort, 1) :
                       c \in Catalog[p].controls,
                       q \in {r \in DOMAIN Catalog[p].queries :
                                Catalog[p].queries[r].meant # {}}} : p \in Pages}
ByColumn == UNION {{Watch(p, Main(p), {}, c, 1) : c \in Catalog[p].columns} : p \in Pages}
ByQuery == UNION {{Watch(p, q, AnyControl(p), Catalog[p].sort, 1) :
                     q \in DOMAIN Catalog[p].queries} : p \in Pages}
Hidden == {Watch("memory", "list", {"usageMin", "usageMax"}, "timestamp", 1)}
\* The interleavings: each kind of page with more gestures in a row.
Deep == {Watch("audit", "list", {"status"}, "timestamp", 2),
         Watch("audit", "list", {}, "timestamp", 3),
         Watch("conversations", "list", {"status"}, "customer_name", 2),
         Watch("tools", "detail", {"status"}, "tool_name", 2),
         Watch("analytics", "tables", Dates, "none", 2),
         Watch("experiments", "ablation", {"arms", "ablationRate"}, "none", 3),
         Watch("help", "help", {"category"}, "none", 3)}
MCScenarios == ByControl \cup ByColumn \cup ByQuery \cup Hidden \cup Deep

MCOnePage == {Watch("audit", "list", {"status"}, "actor", 1)}

\* A lower bound keeps the larger records, any other filter the smaller ones.
MCKeeps(f, i) == IF f \in {"dateFrom", "usageMin", "retentionMin", "simMin", "latencyMin"}
                 THEN i > 1 ELSE i < 3
MCMatches(t, i) == IF t = "a" THEN i # 2 ELSE i = 3
=============================================================================
