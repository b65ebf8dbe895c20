# TLA+ models of the customer-support service

This directory specifies the production track of the repository (`src/src/`) - the
ticket API, the agent pipeline behind it, the tools the pipeline calls, the gateway
through which it reaches language models, the memory with its retention job - and the
dashboard (`src/dashboard/src/`): its list pages, its forms, and the page that submits
tickets. TLC checks the modules on small instances; TLAPS proves the main safety results
for every value of the constants.

## The system and its parts

    caller --POST /v1/tickets--> handler threads (src/api)
                                   |  idempotency cache, client budgets (locks, in memory)
                                   v
                                 run_ticket (src/graph/pipeline.py), in the handler's thread
       intake -> planner -> executor -> critic -> response [-> escalation] -> write_memory
                    |          |           |                                     |
                    |          v           |                                     v
                    |     tools/adapters   |                          Chroma stores per client
                    |  (simulated, Stripe, |                          (pruned by jobs/retention)
                    |   Zendesk)           |
                    +-----> LLM gateway <--+
                        (src/core/llm_client.py: fallback chain, breaker and
                         rate limiter per provider, shared by all threads)

    browser tabs (dashboard/src)
      New Ticket page --POST /v1/tickets--> the API above; the key is in localStorage, all tabs' own
      list pages      --GET, one query key per view--> handlers of the mock service
      form cards      --GET the record, PUT one section--> handlers of the mock service

| part | state | operations | what is hard | what makes it correct |
|---|---|---|---|---|
| Ticket API (`api/`) | answers by client and ticket, grant times by client | `submit_ticket`: authenticate, get, allow, run, put | retries that overlap, runs that raise, restarts, the window's edge | answers belong to the caller's own ticket; an answered ticket is replayed; budgets are kept |
| Pipeline (`graph/`, `agents/`) | one `PipelineState` per ticket | one function per node, conditional edges | replanning, models that answer anything, tools that fail or answer for something else, shared context | it ends; no expected tool is lost; refunds are gated and carry the right amount; no repeat of a tool that answered |
| Plan (`core/dag.py`) | none | `from_pending_tools`, `filtered_to`, `is_dependency_ordered` | missing, repeated, late tools | dependencies come first |
| Tools (`tools/`) | read-only tables | `dispatch` per tool | unusable successes, exceptions that escape | see pipeline |
| LLM gateway (`core/llm_client.py`) | breaker and limiter per provider | `call` | check, wait and report are separate steps of many threads; sleeping with a lock | window bound, exact breaker, no admission while open, every call ends |
| Memory (`memory/`, `agents/memory_manager.py`) | Chroma collections per client | retrieve, write, prune | writes that fail one by one, filters on metadata | pruning takes old entries and nothing younger, whatever is written meanwhile |
| Retention (`jobs/retention.py`) | none | prune per client, from another process | a get and a delete with writers between; one client's failure; time zones | a completed run leaves nothing old; old entries go in the end |
| Configuration, PII, logging, telemetry | settings | none that change state | - | not modelled |
| Research track (`experiments/`, `memory/`, `scripts/`) | policy collection, result files | runs of the ablations | single-threaded; append and rerun | not modelled |
| List pages (`features/*`, `hooks/`, `components/data-table/`) | URL, last commit, search box and debounce, query cache | controls, sort, paging, Reset, answers | two effects that feed each other; callbacks that close over the last commit; a filter copied by hand through seven places | rows are what the controls say; untouched fields stay; only answers to what is asked appear |
| Settings and profile forms | record on the server, in the cache, in each card | edit, type, cancel, reset, save, refetch, navigate | saves and refetches in any order; renders that land apart | saves stand alone; edits survive; a quiet page shows the server |
| Ticket page and session | ticket id, mutation, key in localStorage | sign in and out, submit, retry, submit another | retries with one id; tabs that share the session | the outcome shown is that of the ticket shown; no second run without cause |
| Other dashboard pages, shell, UI primitives, web | React state | display | - | not modelled |

`PROJECT.json` lists the hazards of this code, each at its line, with the properties
that watch it.

## Modules

**ExecutionDAG** - `core/dag.py` as operators: a plan is a sequence of layers, a layer a
sequence of tool names. Besides the four tools there is one `UnknownTool`, which stands
for any other name a model may answer.

**ToolAdapter** - what a tool call may return, as a set of results: `simulated_dispatch` for
the in-process handlers (with the synthetic failures they can inject), `real_dispatch` for the Stripe and Zendesk
backends, `may_raise` for the calls whose exception escapes; and the three functions the
executor applies around a call: `prepare_params`, `update_context`, `is_usable`. An
amount is represented by the order whose total it is, by `"message"` if the customer
typed it, or by `None`, so "the refund has the right amount" is an equality of names.

**TicketPipeline** - `run_ticket` for one ticket. One action per node; the executor takes
one step per listed tool (`SkipTool`, `Dispatch`, `DispatchRaises`, `NextLayer`,
`ExecutorDone`), since what one call puts in the context is what the next one reads.
`PlanLLM` and `CriticLLM` take any answer of the constants `LLMPlans`, `LLMVerdicts`; a
failed or unparsable answer takes the same path as no model at all. `WriteMemory` writes
the entries of the ticket, any of which may be lost.

**TicketHandling** - the abstract specification of a ticket's way: accepted with the answers it
needs, planned a bounded number of times, answered tool by tool in dependency order,
and ended by one verdict. TicketPipeline implements it (`HandlesTicket`): `phase` is read off
`node`, `resolved` and `escalate`, `answered` is the set of tools with a usable call. Its
`Careful` clauses - no round without a missing answer, no answer the ticket did not need -
hold without language models.

**SlidingWindow** - `prune`, the list comprehension both rate limiters start with.

**WindowBudget** - the abstract specification of a limiter: a grant to an owner needs room
among the grants inside the window that ends with it; a restart forgets. Both limiters
implement it (`KeepsBudgets`), the API's with clients and the gateway's with providers as
owners, though neither looks at more than a pruned list, and the gateway's grants after a sleep.

**LLMGateway** - `LLMProviderGateway.call` for a set of threads. A thread's `pc` is the place
in the code between two critical sections: `check` (before `is_open`), `acquire` (before
the limiter's lock), `sleeping` (inside it, lock held), `calling` (the vendor request),
`returned`/`raised`. Time is a counter in units of the 0.05 s the limiter adds to its
sleep. A window of `Window` units ends strictly: a time exactly that old is dropped.

**TicketApi** - `submit_ticket` for a set of handler threads, with `authenticate`, `get`,
`allow`, `run`, `put` as the places between the two locks. The pipeline is reduced to
what a retry can tell of it: whether a tool has been called, and whether it returned or
raised. `Restart` loses everything in memory. A body that does not validate (422) and
`/health` never reach this state.

**MemoryStore** - the entries of all collections, threads that make an entry and store it later
(or lose it, if Chroma raises), and the retention job: `StartJob` takes the cutoff, then
`Get` and `Delete` on one collection after the other, four per configured client;
`JobFails` is an exception, which ends the run. `timestamp_epoch` is what becomes of a naive
UTC timestamp on a host `UtcOffset` ahead of UTC.

**DashboardPages** - the eight pages whose view is a URL, as records: for each page the fields
of its schema, those its parse and build functions carry, the groups its controls set,
its sortable columns, the fields that count as active filters, and for each of its queries
what is in the query key, what the endpoint sends, what the handler compares, and what
the controls mean by it. One definition per function of the code, so each can be held
against its lines.

**ListPages** - one page of the catalog in use. `url` and `rendered` are two variables: a
`setSearchParams` changes the URL at once, the page re-renders in a transition, and every
callback in between still closes over the rendered parameters. `Mount`, `Type`, `Fire` and
`Rerender` are `useSearchToolbar` with `useDebounce`; `Set`, `handleSortingChange`, `Turn`,
`Resize`, `resetAllFilters`, `resetFilters`, `Select`, `Refetch` are the controls; `Answer` and
`Fail` end a fetch. `Searching`, `Filtering`, `Sorting`, `Turning` and `Resizing` are the patches the callbacks
hand to `updateParams`. The records are numbers, a filter keeps some of them (`Keeps`), a text
matches some (`Matches`); `Rows` goes through parse, key, request, handler, sort and page. A page is opened
at any view its controls can have written (`Loads`): any search, filters, sortable column, direction, size
and page. `wanted` is a ghost beside the URL: the bookmark, then every patch as the control meant it, never built
into a URL or parsed. Comparing the rows with it covers the whole way from control to handler.

**QueryView** - the abstract specification of a view of asynchronous data: what is on screen
is an answer to what the controls asked when it appeared. ListPages implements it with
`wanted <- Asked, got <- last` (`ShowsAskedAnswers`).

**FormSections** - the cards of Settings and Profile as records: their fields, the fields the
schema accepts and the request carries, and the fields of a section no card sends (which
the handler must carry over).

**SectionForms** - one record edited by several cards: `useSettingsSectionForm`
(`startEditing`, `Type`, `handleCancel`, `handleReset`, `onSubmit`, `Saved`, `Follow`), the PUTs
(`Apply` on the server, then `Answered` or `Failed`), the GET (`refetch`, `getSettings`, `Fetched`,
`FetchFailed`), the render that brings the cached record to the cards (`Commit`), and
navigation. What the schema makes of a text is the constant `Clean`.

**TicketDesk** - `NewTicketPage` and `AuthProvider` in the tabs of one browser, with the key in
`localStorage`, against a service that runs a ticket, replays it, refuses it, raises, or
restarts. An id is the clock in milliseconds, as `generateTicketId` draws it.

**MCTicketPipeline, MCLLMGateway, MCTicketApi, MCMemoryStore, MCListPages, MCSectionForms,
MCTicketDesk** - instances, and statements of the docs and comments that the code does not
keep. **TicketPipelineProofs, SlidingWindowProofs, LLMGatewayProofs, TicketApiProofs,
MemoryStoreProofs, ListPagesProofs, SectionFormsProofs, TicketDeskProofs** - the proofs.

History variables (`checked_at`, `grants`, `outcomes` in LLMGateway; `runs`, `grants`,
`arrived_stored` in TicketApi; `present` and `completed` in MemoryStore; `wanted`, `touched` and
`crossed` in ListPages; `acked`, `current` and the `alone`, `only` of a request in SectionForms; `made` and
a page's `sent` in TicketDesk) record the past for the properties. No guard reads them,
except that a run's entry in `runs` also says whether its pipeline has called a tool, and
that `made` bounds how many ids are drawn.

## What the runs check

| run | instance | shows |
|---|---|---|
| `pipeline_llm` | 6 tickets, simulated tools with every failure, planner and critic models that omit, repeat, misorder, contradict or fail; 2 rounds | no expected tool is lost; refunds gated and with the order's total; `HandlesTicket`, the refinement of TicketHandling |
| `pipeline_real` | 4 tickets, Stripe/Zendesk backends, calls that raise, lost memory writes; 3 rounds | `Termination`; `HandlesTicket` with its careful clauses; no repeat after a usable call; replans counted; refunds for the order the ticket names |
| `gateway_threads` | 3 threads, 1 provider, 2 calls a window, threshold 2 | `KeepsBudgets`, the refinement of WindowBudget; `BreakerExact`, `NoAdmissionWhileOpen` |
| `gateway_chain` | 2 threads, chains of two with an unknown provider and one of 0 calls, an empty chain | `TypeOK`, and `CallEnds` under fairness |
| `api` | 2 handlers, 2 tenants, 2 tickets, a bad key, 1 call a window of 2, 3 requests, failures, 1 restart | own answers only, replay after an answer; `KeepsBudgets`; nobody refused without cause |
| `memory` | 1 writer, 2 configured clients and 1 former one, 2 entries, 2 failing calls, a host ahead of UTC | a completed run leaves nothing old, nothing younger is removed, old entries go in the end |
| `list_pages` | every page, query, control and sortable column, opened at every search, filter set, sort, direction, size and page 1 or 2 of them; 1 gesture, 2 or 3 on six pages | `SettledViewMatches`, `ResetOffered`, `UntouchedKeepLoaded`; `ShowsAskedAnswers` (the refinement of QueryView) and `SearchSettles` under fairness |
| `section_forms` | Settings with a shared-hook card and Security, Profile with two cards; 4 texts of which one is trimmed and one refused; 2 saves, 1 refetch | `QuietShowsServer`, `SavesStandAlone`, `EditsKept`, and `SaveSettles` under fairness |
| `ticket_desk` | 2 tabs, 2 workspaces, 3 contents of which one is refused, 2 clock readings, 2 pages, 2 submissions, 2 sign-ins or reloads, 1 restart | `OutcomeIsOwn`, `SecondRunHasCause`, and `SubmitEnds` under fairness |
| `poisoned_context`, `concurrent_retry`, `refresh_keeps_page` | small instances of the above | a counterexample each, see below |

Bounds. Three rounds are the code's own `MAX_ITERATIONS`; with the language models' free choices
TLC gets through two (a third multiplies some million states by thirty), so what needs
a third round (a ticket escalated after two that failed in different ways) is checked without them, and proved with them. Two customers and two orders, plus
an identifier in neither table, are enough for a result that names another entity than
the request. The gateway needs a third thread so that one can sleep, one queue and one
fail; four calls exceed twice the window's two; the clock passes the window and the
cooldown at every offset. The API needs two overlapping deliveries and one later one;
three requests exceed a budget of one, within a window and after it. The retention job meets two
entries at any of its eight collections, before, at and after the cutoff, stored before it,
behind it, or between its get and its delete. A list page's three records at a page size of 1 or 2
give a first, a middle and a last page, and each filter and text a proper, different
subset, and ascending and descending by the default column and by another one are four orders; three gestures in a row are a change, a change on a stale closure, and one that would
repair it. Two saves and a refetch overlap in every order. Two tabs suffice for one id
drawn twice and for a session changed under a tab; two submissions for a retry. `CHECK_DEADLOCK FALSE`
appears where callers or threads stop at their bound.

`WindowBound`, `ClientWindowBound` and `EscalatesOnlyWhenExhausted` follow from the refinements, so
no run lists them; `ContextHoldsLookedUpOrder`, `ResolvedPlanMemorised` and `NoStepBack` serve
the proofs. They can be added to the configurations, where they hold.

Symmetry over threads or handlers is used in safety runs only.

Fairness. The pipeline is one thread whose calls all return or raise (every client has a
timeout): weak fairness of its step. For the gateway: weak fairness of each thread and
of the clock, and strong fairness for the steps that take a limiter's lock, that is, a
waiting thread gets a lock that is free again and again. `threading.Lock` promises no order,
but the operating system wakes waiters in practice; with weak fairness alone one thread could be passed over forever.
The retention job is started again and again by an external scheduler, as its docstring asks, and
its storage calls return or raise: weak fairness of the clock, of `StartJob` and of
`Get \/ Delete`. `OldEntriesGo` needs that only finitely many calls raise; a
store that always raises is never pruned.
The browser runs its timers and commits its transitions: weak fairness of `Mount`, `Fire` and
`Rerender`, of `Commit`, and none for the user, who may stop anywhere. It settles the fetches it
sent: weak fairness of a save's end and, in TicketDesk, of the service and of `Settle`, which
needs that the connection was answered or dropped.
The bound on requests is not what makes `CallEnds` hold:
it only bounds the state space.

Each property of a passing run has a mutant in the module it is about (comments start
with "Mutant"), the plausible bug that the run would report.

## Where the code and its documentation differ

Three statements are checked by runs that must find a counterexample; `PROJECT.json` "findings"
quotes the lines.

- `ActsOnUsableDataOnly`: an order lookup judged unusable still replaces the order id in the
  context, and the next round looks up and refunds that other order (`executor.py:103`).
- `DispatchedOnce`: a retry that overlaps the first delivery runs the pipeline again; so does
  a retry after a 502 (set `MayRaise` to TRUE with one handler). What does hold is `RetryAfterAnswerReplays`.
- `RefreshKeepsView`: the search toolbar's mount effect patches the URL, and every patch goes
  to page 1, so a bookmark of page 2 opens page 1 (`use-search-toolbar.ts:20-23`,
  `audit-logs-page.tsx:40`). What does hold is `UntouchedKeepLoaded`, of the other fields.

Known divergences without a run of their own, met while modelling:

- The Customer and Intent headers of the conversations write a sort into the URL
  (`conversations/columns.tsx:57`, 68; `conversations-page.tsx:41-51`) that the schema does not name
  (`conversations/search-params.ts:3-8`, 16), so the page sorts by `created_at` instead, against
  `DEMO_SCRIPT.md:125`; and when such a URL is opened, the mount effect removes the sort from it, untouched by the user
  (`use-search-toolbar.ts:20-23`). `list_pages` goes through these views: `SettledViewMatches` states that their rows
  are in the default order (`Granted`), so it would also report a repaired schema, and `UntouchedKeepLoaded` lets
  only these two columns (`Unnamed`) become the default one; any other lost column violates both.
- No node puts the customer's message in the context, so `kb_search` is always asked nothing
  (`executor.py:40`; `executor.py:27` says it mirrors a function that passes it).
- The plan memorised for a success is the last, perhaps partial one (`dag.py:86` skips a dependency
  the plan does not list; `dag.py:63-66`).
- After the cooldown all threads are let through, not one (`llm_client.py:124` against 107-108).
- Failures a replan recovers from are not filed (`pipeline.py:261` against `ARCHITECTURE.md:193`).
- A keystroke between the URL's change and its commit is overwritten by the resync
  (`use-search-toolbar.ts:25`, against its comment, 6-7); the same text typed again within the
  debounce after Reset is never applied (`SearchSettles` leaves both out, through `crossed`
  and `"reset"`); a click in that interval writes old parameters back for the other fields (`crossed`).
- Reset on the conversations page is three patches from the same stale parameters; only
  the last stands, and the status filter stays (`conversations-toolbar.tsx:51-56`).
- While the answer before is on screen its total bounds the pager, so a page beyond the end
  can be asked for (`data-table-pagination.tsx:30`).
- A background refetch that fails replaces the cards, and edits in progress are lost
  (`settings-page.tsx:46`, `profile-page.tsx:17`, against `use-settings-section-form.ts:34-35`); so are edits
  typed while a save is in flight (line 50) and those of a section one leaves.
- PUT answers that arrive in the other order than they were served leave the older record in the
  cache (`settings/hooks.ts:24-26`), which is why `QuietShowsServer` asks that the last one overlapped no other.
- After a submission whose answer was lost, an edited message sent under the same id gets the
  outcome of the first one; two tabs that open the page in the same millisecond share an id
  (`new-ticket-page.tsx:18-20`). `OutcomeIsOwn` states what holds outside these two cases.

## What is proved

TLAPS checks the following for every value of the constants that satisfies the modules'
named assumptions (any number of threads, handlers, clients, tickets, providers, any
thresholds and windows, any model answers).

- **TicketPipelineProofs.** `TypeCorrect` goes with `CountersByNode`, which says how far the
  counters are at each node (without it the planner's increment could leave the range).
  `NoToolLost` is inductive relative to types. `EscalationSound` needs
  it together with `RoutingByNode`: the loop is left with nothing pending or no round
  left, and nothing pending means every expected tool has a usable call, that is,
  resolved. `RefundsGated` follows from the gate and the append-only list of calls.
  `RefundAmounts` rests on `ContextHoldsLookedUpOrder`: a usable lookup puts order id and
  total in the context together, and no later result separates them.
  It is a theorem of its own (`LookedUpOrderHeld`). `RefundsNamed` assumes the real
  backends, whose lookup answers under the id it was asked for, which is the ticket's.
  `NoRedispatch` and `ReplanCount` assume `UseLLM = FALSE`. Their invariant is a round's walk
  over the plan: the deterministic plan lists each pending tool once, in the order of the DAG, and a
  pending tool is either still ahead, or was called once this round, or is the refund of an order that
  was not looked up. At the end of a round the critic has then seen every pending tool.
  `TicketsAreHandled` is the refinement of TicketHandling, for any model answers. Beside the invariants above it needs
  `Outcome`, which says where `resolved`, `escalate` and the usable calls stand from the response on: one verdict,
  and the one they justify. Its careful clauses come from the walk: the tool about to be called is one the
  ticket needs. `NoStepGoesBack` is the safety half of termination: every step begins one of the rounds,
  moves to a later node of its round, or shortens what is left of the plan.
  `FallbackOrdered` is about `from_pending_tools` alone: it names the pending tools, and every dependency is in an
  earlier layer (each layer holds tools of one number, in the order of the numbers). With it
  `ResolutionsMemorised`: without a language model the gate of `write_plan_success` turns no resolved ticket away.
- **SlidingWindowProofs.** `FirstFresh` is a `CHOOSE`; that it exists is the least-number principle
  (`LeastNatural`, from the well-foundedness of `<`). The invariant of a limiter is `Kept`
  - its list is the end of the grants, has at most M entries, and every older grant has
  left the window - with `Spaced`, the bound itself. `GrantKeeps`, `PruneTail`,
  `TailAppend`, `SpacedAppend` say that each operation keeps them. `OthersCount` and `RoomInWindow` turn that
  into a count: a pruned list shorter than the limit leaves room in the window that ends now.
- **LLMGatewayProofs.** `WindowIsBounded` strengthens `Kept` for the sleeper: while a thread holds
  the lock the list has M - 1 entries, the dropped one is M back and leaves the
  window before `wake_at`. `BreakerIsExact` relates `failures` and `opened_at` to the
  reports: the count is the length of the current run of failures. `NoneAdmittedWhileOpen`
  needs that `opened_at` never lies in the future and a check never passes an open circuit.
  `BudgetsAreKept` is the refinement of WindowBudget: a grant at once has room by the pruned list, one after a sleep
  because the grant it waited for has left the window by then.
- **TicketApiProofs.** `StoredAnswersSound` and `RepliesSound` from: a handler in `run` or `put` waits
  for a run of its own client and ticket, no two handlers share one, and finished runs never change.
  `RetriesReplay` from: a stored answer stays stored until a restart, which also ends every
  handler. `ClientWindowIsBounded` from the `SlidingWindow` lemmas. `RefusalsHaveCause` adds that grants are
  in order of time and not in the future: the list kept is then fresh from its first entry to its last, and
  its length counts grants within the window. `BudgetsAreKept` is the refinement of WindowBudget, `Restart`
  being its `Forget`.
- **MemoryStoreProofs.** The invariant is `IdInv`, an id names one entry wherever it is (so a
  delete by id removes what the get found and nothing that came between), with `JobInv`: no
  entry the run found in place and too old is left at a position behind the job, and
  what it has in hand is all of it at the present position.
  `CompletedRunsAreThorough` and `PruningIsSafe` follow. The latter's bound, the retention time
  less `UtcOffset`, is what the code gives: on a host ahead of UTC an entry goes up to that
  offset early, on one behind it, late.

- **ListPagesProofs.** `TypeCorrect` carries, besides the types, that what is on screen was
  answered and that pages start at 1 (`PageCount` is positive). `UntouchedKeepLoadedTheorem` states
  the invariant of `url` and of `rendered`, the parameters every closure starts from: a patch changes
  only the fields its gesture has put in `touched`, and build and parse drop no field of the schema
  (the facts about the catalog, page by page) but a sort outside the enumeration. `Columns` compares each page's
  sortable columns with its enumeration, and `GrantedTwice` concludes that parsing is `Granted`: only the two
  columns of `Unnamed` fall back. The bookmark is any element of `Loads`. `ShowsAskedAnswersTheorem` is the refinement: `Answer` maps to
  `Arrive`, every step that changes `Asked` to `Want`, all others stutter.
  `SettledViewMatchesTheorem` rests on `Faithful`: for each page and query, the fields its controls mean are those
  that reach the handler, through schema, parse, query key and request (`QueriesFaithful`, proved page by page).
  With `ViewInv` - a URL holds nothing of a control the page does not have, no text without a search box, no
  direction without sortable columns - the rows are then those the last commit describes (`RowsDescribed`). The way
  before the commit is the invariant `Meant`: while no callback has crossed a navigation, `url` and `wanted` are
  the same but for the name of an unnamed sort. It holds because a callback that did not cross started from
  parameters equal to the parsed URL, and every patch keeps two such parameters the same (`SamePatched`).
  `ResetOfferedTheorem` adds that the fields counted as active filters are all that can narrow a view. Where
  nothing narrows, and where one record is left, sorting and slicing are computed (`NarrowNothing`, `ViewOne`).
- **SectionFormsProofs.** `SavesStandAloneTheorem` strengthens the property for saves in flight: a save that
  was the only one of its section, once served, is what the server holds there.
  `QuietShowsServerTheorem` does the same for the cache: an `alone` request that has been
  answered carries the server's record, since nothing is served beside it; and a card not being edited whose
  last render is the cached value has a clean form. `EditsKeptTheorem` goes through the steps:
  each but typing and Reset leaves the form alone, or the card's edit mode.
- **TicketDeskProofs.** The invariant joins `PageInv` (a page waits for one request, its own), `ServiceInv`
  (a request is run once at most and answered with a finished run) and `IdInv`: an id drawn
  once belongs to one page, whose requests go one after the other, a new one only when the one
  before was refused or given up. `OutcomeIsOwnTheorem` and `SecondRunHasCauseTheorem` follow.

Only model-checked: the liveness properties (`Termination`, `CallEnds`, `OldEntriesGo`, `SearchSettles`,
`SaveSettles`, `SubmitEnds`), which are beyond the prover. Every safety property a passing run
checks is also a theorem.

## What is not modelled

Not modelled, and why:

- configuration parsing, PII redaction, logging, telemetry, prompts, wording: no decision of the system
  reads what they produce, or it is a constant of the modules;
- the memory manager's reads: a retrieval is an input of a prompt, whose answer is free here anyway, and
  the critic's lookup filters on metadata that is never stored;
- the vendor's side of a call whose answer was lost (a refund created twice without an
  idempotency key): ToolAdapter has only what comes back;
- the research track and its scripts: single-threaded ancestors of the pipeline and statistics;
- the dashboard's overview, execution and conversation-detail pages, which show the answer of one
  query without controls; its shell and UI primitives; the fixtures' data; the landing page.

Merged: `Answered` of SectionForms sets the cache and ends the edit in one step, which in the browser are promise
continuations of one answer (the render that brings the cached record to the cards is a step of its own,
`Commit`, before or after other steps); `Reload` of TicketDesk stands for a reload and for a link out of the page, which
differ only in whether the session is read again, and a session that is read again unchanged is the latter.

Open: the composition of TicketDesk with TicketApi's threads in place of its one-step service.
