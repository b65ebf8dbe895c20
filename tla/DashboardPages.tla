--------------------------- MODULE DashboardPages ---------------------------
(* The pages of src/dashboard that keep their view in the URL, as data: for   *)
(* each file, what it contributes to the page.  A control is the set of URL   *)
(* fields one gesture patches; a handler maps each field it narrows by to the *)
(* attribute of the record it compares.  ListPages gives these records their  *)
(* behaviour, so a field one file forgets shows up there as a wrong view.     *)
(* Option lists, labels, widths and cell rendering are left out.              *)
EXTENDS FiniteSets
LOCAL INSTANCE Functions

Alone(fields) == {{f} : f \in fields}
Dates == {"dateFrom", "dateTo"}

(* types/mocked.ts: the attributes of a listed record. *)
AuditLogEntry == {"id", "timestamp", "actor", "actor_email", "client_id", "client_name",
                  "action", "category", "resource", "status", "severity", "ip_address",
                  "request_id"}
ClientRecord == {"client_id", "name", "plan", "status", "api_key_last4", "active_users",
                 "monthly_ticket_usage", "monthly_ticket_limit", "memory_retention_days",
                 "rate_limit_per_minute", "created_at"}
ConversationSummary == {"ticket_id", "customer_id", "customer_name", "customer_message",
                        "status", "intent_label", "created_at", "resolved_at",
                        "replanning_count", "memory_hit", "latency_ms"}
ConversationDetail == ConversationSummary \cup
                      {"response_message", "tool_calls_made", "escalation_summary"}
MemoryEntryBase == {"id", "memory_type", "client_id", "timestamp", "last_retrieved_at",
                    "similarity_score", "retrieved", "usage_count", "confidence", "status",
                    "tags", "summary", "source", "related_ticket_id", "explanation", "raw"}
ToolHealth == {"tool_name", "description", "purpose", "status", "availability",
               "avg_latency_ms", "p95_latency_ms", "p99_latency_ms", "success_rate",
               "failure_rate", "retry_rate", "retry_count_24h", "circuit_breaker_state",
               "last_used_at", "last_error"}
FaqEntry == {"id", "category", "question", "answer"}
ExperimentArmResult == {"arm", "failure_rate", "resolution_rate"}

-----------------------------------------------------------------------------
(* How a hook asks: the filters in its query key, the filters its records are *)
(* meant to obey, whether the previous answer stays on screen meanwhile       *)
(* (keepPreviousData), whether it waits for a selected row, and the endpoint  *)
(* and handler that serve it.                                                 *)
Query(keys, meant, held, waits, sent, handler) ==
  [keys |-> keys, meant |-> meant, held |-> held, waits |-> waits, sent |-> sent,
   handler |-> handler]
List(schema, sent, handler) == Query(schema, schema, TRUE, FALSE, sent, handler)
Whole == [f \in {} |-> f]                    \* a handler that narrows by nothing
Detail == Query({}, {}, FALSE, TRUE, {}, Whole)  \* GET /v1/<resource>/:id
Stats(held) == Query({}, {}, held, FALSE, {}, Whole)

-----------------------------------------------------------------------------
(* features/audit-logs and its endpoint and handler. *)
AUDIT_SORT_FIELDS == {"timestamp", "actor", "client_name", "action", "category", "status",
                      "severity"}
auditSearchSchema == {"category", "actor", "client", "status", "severity"} \cup Dates
parseAuditSearchParams == {"category", "actor", "client", "status", "severity"} \cup Dates
buildAuditSearchParams == {"category", "actor", "client", "status", "severity"} \cup Dates
AuditToolbar == Alone({"category", "actor", "client", "status", "severity"})
AuditFilters == Alone(Dates)
buildAuditColumns == {"timestamp", "actor", "client_name", "action", "category", "status"}
listAuditLogs == {"category", "actor", "client", "status", "severity"} \cup Dates
auditHandlers ==
  [category |-> "category", actor |-> "actor_email", client |-> "client_id",
   status |-> "status", severity |-> "severity",
   dateFrom |-> "timestamp", dateTo |-> "timestamp"]
useAuditLogsList == List(auditSearchSchema, listAuditLogs, auditHandlers)
AuditInspector == Detail
AuditStats == Stats(FALSE)
AuditLogsPage ==
  [schema |-> auditSearchSchema, parsed |-> parseAuditSearchParams,
   built |-> buildAuditSearchParams, sorts |-> AUDIT_SORT_FIELDS, sort |-> "timestamp",
   dir |-> "desc", controls |-> AuditToolbar \cup AuditFilters,
   active |-> {"category", "actor", "client", "status", "severity", "dateFrom", "dateTo"},
   reset |-> "empty", searches |-> TRUE, paged |-> TRUE,
   columns |-> buildAuditColumns, record |-> AuditLogEntry,
   queries |-> [list |-> useAuditLogsList, detail |-> AuditInspector, stats |-> AuditStats]]

-----------------------------------------------------------------------------
(* features/clients. *)
CLIENT_SORT_FIELDS == {"name", "client_id", "plan", "status", "active_users",
                       "monthly_ticket_usage", "memory_retention_days",
                       "rate_limit_per_minute", "created_at"}
clientsSearchSchema ==
  {"plan", "status", "usageMin", "usageMax", "retentionMin", "retentionMax"} \cup Dates
parseClientsSearchParams ==
  {"plan", "status", "usageMin", "usageMax", "retentionMin", "retentionMax"} \cup Dates
buildClientsSearchParams ==
  {"plan", "status", "usageMin", "usageMax", "retentionMin", "retentionMax"} \cup Dates
ClientToolbar == Alone({"plan", "status"})
ClientFilters == {{"usageMin", "usageMax"}, {"retentionMin", "retentionMax"}} \cup Alone(Dates)
buildClientColumns == {"name", "client_id", "plan", "status", "active_users",
                       "monthly_ticket_usage", "memory_retention_days",
                       "rate_limit_per_minute", "created_at"}
listClients ==
  {"plan", "status", "usageMin", "usageMax", "retentionMin", "retentionMax"} \cup Dates
clientsHandlers ==
  [plan |-> "plan", status |-> "status", usageMin |-> "monthly_ticket_usage",
   usageMax |-> "monthly_ticket_usage", retentionMin |-> "memory_retention_days",
   retentionMax |-> "memory_retention_days", dateFrom |-> "created_at",
   dateTo |-> "created_at"]
useClientsList == List(clientsSearchSchema, listClients, clientsHandlers)
ClientDetailPanel == Detail
ClientStats == Stats(FALSE)
ClientManagementPage ==
  [schema |-> clientsSearchSchema, parsed |-> parseClientsSearchParams,
   built |-> buildClientsSearchParams, sorts |-> CLIENT_SORT_FIELDS, sort |-> "created_at",
   dir |-> "desc", controls |-> ClientToolbar \cup ClientFilters,
   active |-> {"plan", "status", "usageMin", "usageMax", "retentionMin", "retentionMax",
               "dateFrom", "dateTo"},
   reset |-> "empty", searches |-> TRUE, paged |-> TRUE,
   columns |-> buildClientColumns, record |-> ClientRecord,
   queries |-> [list |-> useClientsList, detail |-> ClientDetailPanel, stats |-> ClientStats]]

-----------------------------------------------------------------------------
(* features/conversations: two of the sortable columns are not in the schema's *)
(* enumeration, and Reset is three patches of the same stale parameters.       *)
\* Mutant: one more sortable column is missing from the enumeration.
CONVERSATION_SORT_FIELDS_NoStatus == {"created_at", "ticket_id", "replanning_count"}
CONVERSATION_SORT_FIELDS == {"created_at", "ticket_id", "status", "replanning_count"}
conversationsSearchSchema == {"status", "intent"}
parseConversationsSearchParams == {"status", "intent"}
buildConversationsSearchParams == {"status", "intent"}
ConversationsToolbar == Alone({"status", "intent"})
buildConversationColumns == {"ticket_id", "customer_name", "intent_label", "status",
                             "replanning_count", "created_at"}
listConversations == {"status", "intent"}
conversationsHandlers == [status |-> "status", intent |-> "intent_label"]
useConversations ==
  List(conversationsSearchSchema, listConversations, conversationsHandlers)
ConversationsPage ==
  [schema |-> conversationsSearchSchema, parsed |-> parseConversationsSearchParams,
   built |-> buildConversationsSearchParams, sorts |-> CONVERSATION_SORT_FIELDS,
   sort |-> "created_at", dir |-> "desc", controls |-> ConversationsToolbar,
   active |-> {"status", "intent"}, reset |-> "patches", searches |-> TRUE, paged |-> TRUE,
   columns |-> buildConversationColumns, record |-> ConversationSummary,
   queries |-> [list |-> useConversations]]

-----------------------------------------------------------------------------
(* features/memory-explorer: usageMax is in the schema, the query and the      *)
(* handler, but no control sets it.                                            *)
MEMORY_SORT_FIELDS == {"id", "memory_type", "timestamp", "similarity_score", "confidence",
                       "usage_count", "last_retrieved_at", "status"}
memorySearchSchema == {"types", "status", "simMin", "simMax", "usageMin", "usageMax"} \cup Dates
parseMemorySearchParams ==
  {"types", "status", "simMin", "simMax", "usageMin", "usageMax"} \cup Dates
buildMemorySearchParams ==
  {"types", "status", "simMin", "simMax", "usageMin", "usageMax"} \cup Dates
MemoryToolbar == {{"status"}}
MemoryFilters == {{"types"}, {"simMin", "simMax"}, {"usageMin"}} \cup Alone(Dates)
MemoryTypeNav == {{"types"}}
buildMemoryColumns == {"id", "memory_type", "similarity_score", "confidence", "usage_count",
                       "timestamp", "last_retrieved_at", "status"}
\* Mutant: the endpoint forgets the usage range.
listMemory_NoUsage == {"types", "status", "simMin", "simMax"} \cup Dates
listMemory == {"types", "status", "simMin", "simMax", "usageMin", "usageMax"} \cup Dates
memoryHandlers ==
  [types |-> "memory_type", status |-> "status", simMin |-> "similarity_score",
   simMax |-> "similarity_score", usageMin |-> "usage_count", usageMax |-> "usage_count",
   dateFrom |-> "timestamp", dateTo |-> "timestamp"]
useMemoryList == List(memorySearchSchema, listMemory, memoryHandlers)
MemoryInspector == Detail
MemoryStats == Stats(TRUE)
MemoryExplorerPage ==
  [schema |-> memorySearchSchema, parsed |-> parseMemorySearchParams,
   built |-> buildMemorySearchParams, sorts |-> MEMORY_SORT_FIELDS, sort |-> "timestamp",
   dir |-> "desc", controls |-> MemoryToolbar \cup MemoryFilters \cup MemoryTypeNav,
   active |-> {"types", "status", "simMin", "simMax", "usageMin", "usageMax", "dateFrom",
               "dateTo"},
   reset |-> "empty", searches |-> TRUE, paged |-> TRUE,
   columns |-> buildMemoryColumns, record |-> MemoryEntryBase,
   queries |-> [list |-> useMemoryList, detail |-> MemoryInspector, stats |-> MemoryStats]]

-----------------------------------------------------------------------------
(* features/tool-monitoring: the navigation lists every tool through a second  *)
(* use of the list query with the default parameters.                          *)
TOOL_SORT_FIELDS == {"tool_name", "status", "availability", "avg_latency_ms", "success_rate",
                     "failure_rate", "retry_count_24h", "last_used_at"}
toolSearchSchema == {"status", "latencyMin", "latencyMax", "successMin", "failureMax"} \cup Dates
parseToolSearchParams ==
  {"status", "latencyMin", "latencyMax", "successMin", "failureMax"} \cup Dates
\* Mutant: the failure rate is not written back into the URL.
buildToolSearchParams_NoFailure == {"status", "latencyMin", "latencyMax", "successMin"} \cup Dates
buildToolSearchParams ==
  {"status", "latencyMin", "latencyMax", "successMin", "failureMax"} \cup Dates
ToolToolbar == {{"status"}}
ToolFilters == {{"latencyMin", "latencyMax"}, {"successMin"}, {"failureMax"}} \cup Alone(Dates)
buildToolColumns == {"tool_name", "status", "availability", "avg_latency_ms", "success_rate",
                     "failure_rate", "retry_count_24h", "last_used_at"}
listTools == {"status", "latencyMin", "latencyMax", "successMin", "failureMax"} \cup Dates
toolsHandlers ==
  [status |-> "status", latencyMin |-> "avg_latency_ms", latencyMax |-> "avg_latency_ms",
   successMin |-> "success_rate", failureMax |-> "failure_rate",
   dateFrom |-> "last_used_at", dateTo |-> "last_used_at"]
useToolsList == List(toolSearchSchema, listTools, toolsHandlers)
ToolNavigation == Stats(TRUE)
ToolInspector == Detail
ToolStats == Stats(FALSE)
ToolMonitoringPage ==
  [schema |-> toolSearchSchema, parsed |-> parseToolSearchParams,
   built |-> buildToolSearchParams, sorts |-> TOOL_SORT_FIELDS, sort |-> "tool_name",
   dir |-> "asc", controls |-> ToolToolbar \cup ToolFilters,
   active |-> {"status", "latencyMin", "latencyMax", "successMin", "failureMax", "dateFrom",
               "dateTo"},
   reset |-> "empty", searches |-> TRUE, paged |-> TRUE,
   columns |-> buildToolColumns, record |-> ToolHealth,
   queries |-> [list |-> useToolsList, detail |-> ToolInspector, all |-> ToolNavigation,
                stats |-> ToolStats]]
-----------------------------------------------------------------------------
(* features/analytics: no search box, no paging; the tables sort their ten    *)
(* rows in the browser.  A ticket has no memory type and a memory entry only  *)
(* its type and date, so the summary is not meant to obey memoryType.         *)
analyticsFilterSchema ==
  {"intent", "status", "tool", "memoryType", "resolution", "client"} \cup Dates
parseAnalyticsSearchParams ==
  {"intent", "status", "tool", "memoryType", "resolution", "client"} \cup Dates
buildAnalyticsSearchParams ==
  {"intent", "status", "tool", "memoryType", "resolution", "client"} \cup Dates
\* Mutant: the tool facet does not count as an active filter.
hasActiveAnalyticsFilters_NoTool ==
  {"dateFrom", "dateTo", "intent", "status", "memoryType", "resolution", "client"}
hasActiveAnalyticsFilters ==
  {"dateFrom", "dateTo", "intent", "status", "tool", "memoryType", "resolution", "client"}
AnalyticsToolbar == {Dates}
AnalyticsFilters ==
  Alone({"intent", "status", "tool", "memoryType", "resolution", "client"} \cup Dates)
buildQuery == {"intent", "status", "tool", "memoryType", "resolution", "client"} \cup Dates
filterByRange ==
  [dateFrom |-> "created_at", dateTo |-> "created_at", intent |-> "intent_label",
   status |-> "status", resolution |-> "status", tool |-> "tool_calls_made",
   client |-> "ticket_id"]
filterMemoryEntries ==
  [memoryType |-> "memory_type", dateFrom |-> "timestamp", dateTo |-> "timestamp"]
ofTicketsAndMemories ==
  [f \in DOMAIN filterByRange \cup DOMAIN filterMemoryEntries |->
     IF f \in DOMAIN filterByRange THEN filterByRange[f] ELSE filterMemoryEntries[f]]
useAnalyticsSummary == Query(analyticsFilterSchema, analyticsFilterSchema \ {"memoryType"},
                             TRUE, FALSE, buildQuery, filterByRange)
useAnalyticsCharts == List(analyticsFilterSchema, buildQuery, ofTicketsAndMemories)
useAnalyticsTables == List(analyticsFilterSchema, buildQuery, ofTicketsAndMemories)
AnalyticsPage ==
  [schema |-> analyticsFilterSchema, parsed |-> parseAnalyticsSearchParams,
   built |-> buildAnalyticsSearchParams, sorts |-> {}, sort |-> "none", dir |-> "desc",
   controls |-> AnalyticsToolbar \cup AnalyticsFilters,
   active |-> hasActiveAnalyticsFilters, reset |-> "empty", searches |-> FALSE,
   paged |-> FALSE, columns |-> {},
   record |-> ConversationDetail \cup MemoryEntryBase,
   queries |-> [summary |-> useAnalyticsSummary, charts |-> useAnalyticsCharts,
                tables |-> useAnalyticsTables]]

-----------------------------------------------------------------------------
(* features/experiments: each selection is a set that never empties; the      *)
(* ablation ladder asks the compare endpoint about one rate of its own.       *)
experimentSearchSchema == {"arms", "failureRates", "ablationRate"}
parseExperimentSearchParams == {"arms", "failureRates", "ablationRate"}
buildExperimentSearchParams == {"arms", "failureRates", "ablationRate"}
FailureRateSelector == Alone({"failureRates", "ablationRate"})
ExperimentCard == {{"arms"}}
compareExperiments == {"arms", "failureRates"}
experimentsHandlers == [arms |-> "arm", failureRates |-> "failure_rate"]
useExperimentCompare ==
  Query({"arms", "failureRates"}, {"arms", "failureRates"}, TRUE, FALSE, compareExperiments,
        experimentsHandlers)
useExperimentCharts == useExperimentCompare
AblationCards == Query({"ablationRate"}, {"ablationRate"}, TRUE, FALSE, {"ablationRate"},
                       [ablationRate |-> "failure_rate"])
useExperimentsList == Stats(FALSE)
ExperimentDashboardPage ==
  [schema |-> experimentSearchSchema, parsed |-> parseExperimentSearchParams,
   built |-> buildExperimentSearchParams, sorts |-> {}, sort |-> "none", dir |-> "desc",
   controls |-> FailureRateSelector \cup ExperimentCard, active |-> {}, reset |-> "none",
   searches |-> FALSE, paged |-> FALSE, columns |-> {}, record |-> ExperimentArmResult,
   queries |-> [list |-> useExperimentsList, compare |-> useExperimentCompare,
                charts |-> useExperimentCharts, ablation |-> AblationCards]]

-----------------------------------------------------------------------------
(* features/help: one answer holds everything; search and category narrow it  *)
(* in the browser, at every render.                                           *)
helpSearchSchema == {"category"}
parseHelpSearchParams == {"category"}
buildHelpSearchParams == {"category"}
HelpCategories == {{"category"}}
filterHelpContent == [category |-> "category"]
useHelp == Query({}, {"category"}, FALSE, FALSE, {}, Whole)
HelpPage ==
  [schema |-> helpSearchSchema, parsed |-> parseHelpSearchParams,
   built |-> buildHelpSearchParams, sorts |-> {}, sort |-> "none", dir |-> "desc",
   controls |-> HelpCategories, active |-> {}, reset |-> "none", searches |-> TRUE,
   paged |-> FALSE, columns |-> {}, record |-> FaqEntry, queries |-> [help |-> useHelp]]

-----------------------------------------------------------------------------
Catalog ==
  [audit |-> AuditLogsPage, clients |-> ClientManagementPage,
   conversations |-> ConversationsPage, memory |-> MemoryExplorerPage,
   tools |-> ToolMonitoringPage, analytics |-> AnalyticsPage,
   experiments |-> ExperimentDashboardPage, help |-> HelpPage]
Pages == DOMAIN Catalog

(* What a page narrows in the browser instead of in a request. *)
InBrowser(p) == IF p = "help" THEN DOMAIN filterHelpContent ELSE {}
(* Every attribute a handler compares, and every column a header sorts, is    *)
(* one the listed record has.                                                 *)
HandlersFitRecords ==
  \A p \in Pages : /\ Catalog[p].columns \subseteq Catalog[p].record
                   /\ \A q \in DOMAIN Catalog[p].queries :
                        Range(Catalog[p].queries[q].handler) \subseteq Catalog[p].record
=============================================================================
