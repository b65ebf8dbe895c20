------------------------------ MODULE TicketApi ------------------------------
(***************************************************************************)
(* src/api: POST /v1/tickets.  A handler thread resolves the client from   *)
(* the key, looks the ticket up in the idempotency cache, asks the client's*)
(* limiter, runs the pipeline and stores the answer.  Cache and limiter    *)
(* each have a lock, held for one of these steps and not from one to the   *)
(* next, so the handlers of two deliveries of a ticket interleave.  The    *)
(* pipeline is modelled by what a retry can tell of it: whether it has     *)
(* called a tool, and whether it returned or raised.                       *)
(*                                                                         *)
(* runs, grants and arrived_stored are history.                            *)
(***************************************************************************)
EXTENDS SlidingWindow, FiniteSets

CONSTANTS
    Handlers,      \* threads of the server's pool
    Clients, Tickets,
    Keys,          \* what callers put in X-API-Key, or leave out
    ApiKeys,       \* settings.api_keys: key -> client
    MaxCalls,      \* api_rate_limit_per_minute
    Window,        \* window_seconds
    MayRaise,      \* BOOLEAN: run_ticket may raise
    MaxTime,       \* bound: clock ticks
    MaxRequests,   \* bound: requests the callers send
    MaxRestarts    \* bound: restarts of the process

ASSUME ApiAssumption ==
    /\ DOMAIN ApiKeys \subseteq Keys /\ ApiKeys \in [DOMAIN ApiKeys -> Clients]
    /\ MaxCalls \in Nat /\ Window \in Nat \ {0} /\ MayRaise \in BOOLEAN
    /\ Keys # {} /\ Tickets # {}
    /\ MaxTime \in Nat /\ MaxRequests \in Nat /\ MaxRestarts \in Nat

NoRun == 0
Nobody == "nobody"
ASSUME NobodyAssumption == Nobody \notin Clients

VARIABLES
    now,
    pc,              \* handler -> where it is in submit_ticket
    key, client, ticket,
    run,             \* handler -> the run it waits for, an index of runs
    reply,           \* handler -> the reply it sent last
    store,           \* IdempotencyCache._store: <<client, ticket>> -> run whose answer it holds
    timestamps,      \* ClientRateLimiter._timestamps
    sent, restarts,
    runs,            \* every run_ticket there was, in the order they began
    grants,          \* client -> when the limiter let it through, since the restart
    arrived_stored   \* handler -> the answer was stored when the request arrived

requestVars == <<key, client, ticket, arrived_stored>>
vars == <<now, pc, requestVars, run, reply, store, timestamps, sent, restarts, runs, grants>>

Reply(code, r, replayed) == [code |-> code, run |-> r, replayed |-> replayed]
NoReply == Reply(0, NoRun, FALSE)
Replies == [code : {0, 200, 401, 429, 502}, run : Nat, replayed : BOOLEAN]

Answer(h, code, r, replayed) ==
    /\ reply' = [reply EXCEPT ![h] = Reply(code, r, replayed)]
    /\ pc' = [pc EXCEPT ![h] = "idle"]

(* What a new process starts with.                                          *)
AllIdle == [h \in Handlers |-> "idle"]
NoRuns == [h \in Handlers |-> NoRun]
EmptyStore == [ct \in Clients \X Tickets |-> NoRun]
NoTimes == [c \in Clients |-> <<>>]

Init ==
    /\ pc = AllIdle /\ run = NoRuns /\ store = EmptyStore
    /\ timestamps = NoTimes /\ grants = NoTimes
    /\ now = 0 /\ sent = 0 /\ restarts = 0
    /\ key = [h \in Handlers |-> CHOOSE k \in Keys : TRUE]
    /\ ticket = [h \in Handlers |-> CHOOSE t \in Tickets : TRUE]
    /\ client = [h \in Handlers |-> Nobody]
    /\ reply = [h \in Handlers |-> NoReply]
    /\ runs = <<>>
    /\ arrived_stored = [h \in Handlers |-> FALSE]

-----------------------------------------------------------------------------
Stored(c, t) == c \in Clients /\ store[<<c, t>>] # NoRun

ClientOf(k) == IF k \in DOMAIN ApiKeys THEN ApiKeys[k] ELSE Nobody

(* A caller sends a ticket, the first time or again.                        *)
Receive(h) ==
    /\ pc[h] = "idle" /\ sent < MaxRequests
    /\ sent' = sent + 1
    /\ \E k \in Keys, t \in Tickets :
          /\ key' = [key EXCEPT ![h] = k]
          /\ ticket' = [ticket EXCEPT ![h] = t]
          /\ arrived_stored' = [arrived_stored EXCEPT ![h] = Stored(ClientOf(k), t)]
    /\ client' = [client EXCEPT ![h] = Nobody]
    /\ reply' = [reply EXCEPT ![h] = NoReply]
    /\ pc' = [pc EXCEPT ![h] = "authenticate"]
    /\ UNCHANGED <<now, run, store, timestamps, restarts, runs, grants>>

(* Mutant: a key that is not configured is let through.                     *)
Authenticate_AnyKey(h) ==
    /\ pc[h] = "authenticate"
    /\ client' = [client EXCEPT ![h] = ClientOf(key[h])]
    /\ pc' = [pc EXCEPT ![h] = "get"]
    /\ UNCHANGED <<now, key, ticket, arrived_stored, run, reply, store, timestamps, sent, restarts, runs, grants>>

(* resolve_client_id: no key, or one that is not configured, is a 401.      *)
Authenticate(h) ==
    /\ pc[h] = "authenticate"
    /\ IF key[h] \in DOMAIN ApiKeys
       THEN /\ client' = [client EXCEPT ![h] = ApiKeys[key[h]]]
            /\ pc' = [pc EXCEPT ![h] = "get"]
            /\ UNCHANGED reply
       ELSE /\ Answer(h, 401, NoRun, FALSE)
            /\ UNCHANGED client
    /\ UNCHANGED <<now, key, ticket, arrived_stored, run, store, timestamps, sent, restarts, runs, grants>>

(* Mutant: the cache is keyed by the ticket alone.                          *)
cached_ByTicket(c, t) ==
    IF \E d \in Clients : store[<<d, t>>] # NoRun
    THEN store[<<CHOOSE d \in Clients : store[<<d, t>>] # NoRun, t>>]
    ELSE NoRun

(* IdempotencyCache.get, under its lock.                                    *)
cached(c, t) == store[<<c, t>>]

Get(h) ==
    LET r == cached(client[h], ticket[h]) IN
    /\ pc[h] = "get"
    /\ IF r # NoRun THEN Answer(h, 200, r, TRUE)
       ELSE pc' = [pc EXCEPT ![h] = "allow"] /\ UNCHANGED reply
    /\ UNCHANGED <<now, requestVars, run, store, timestamps, sent, restarts, runs, grants>>

(* Mutants: the times are never dropped; one call too many.                 *)
fresh_NeverDropped(c) == timestamps[c]
has_budget_OneMore(c) == Len(prune(timestamps[c], now - Window)) <= MaxCalls

(* ClientRateLimiter.allow, under its lock.                                 *)
fresh(c) == prune(timestamps[c], now - Window)
has_budget(c) == Len(fresh(c)) < MaxCalls

RateLimited(h) ==
    LET c == client[h] IN
    /\ pc[h] = "allow" /\ ~has_budget(c)
    /\ timestamps' = [timestamps EXCEPT ![c] = fresh(c)]
    /\ Answer(h, 429, NoRun, FALSE)
    /\ UNCHANGED <<now, requestVars, run, store, sent, restarts, runs, grants>>

(* The request is let through and run_ticket begins.                        *)
Allowed(h) ==
    LET c == client[h] IN
    /\ pc[h] = "allow" /\ has_budget(c)
    /\ timestamps' = [timestamps EXCEPT ![c] = Append(fresh(c), now)]
    /\ grants' = [grants EXCEPT ![c] = Append(@, now)]
    /\ runs' = Append(runs, [client |-> c, ticket |-> ticket[h], dispatched |-> FALSE, status |-> "running"])
    /\ run' = [run EXCEPT ![h] = Len(runs) + 1]
    /\ pc' = [pc EXCEPT ![h] = "run"]
    /\ UNCHANGED <<now, requestVars, reply, store, sent, restarts>>

(* The pipeline calls its first tool.                                       *)
Dispatch(h) ==
    /\ pc[h] = "run" /\ ~runs[run[h]].dispatched
    /\ runs' = [runs EXCEPT ![run[h]].dispatched = TRUE]
    /\ UNCHANGED <<now, pc, requestVars, run, reply, store, timestamps, sent, restarts, grants>>

(* run_ticket returns.                                                      *)
RunReturns(h) ==
    /\ pc[h] = "run"
    /\ runs' = [runs EXCEPT ![run[h]].status = "done"]
    /\ pc' = [pc EXCEPT ![h] = "put"]
    /\ UNCHANGED <<now, requestVars, run, reply, store, timestamps, sent, restarts, grants>>

(* Mutant: a failed run is answered from the cache next time.               *)
RunRaises_Stored(h) ==
    /\ pc[h] = "run" /\ MayRaise
    /\ runs' = [runs EXCEPT ![run[h]].status = "raised"]
    /\ store' = [store EXCEPT ![<<client[h], ticket[h]>>] = run[h]]
    /\ Answer(h, 502, NoRun, FALSE)
    /\ run' = [run EXCEPT ![h] = NoRun]
    /\ UNCHANGED <<now, requestVars, timestamps, sent, restarts, grants>>

(* run_ticket raises, before or after it called a tool: 502, nothing stored.*)
RunRaises(h) ==
    /\ pc[h] = "run" /\ MayRaise
    /\ runs' = [runs EXCEPT ![run[h]].status = "raised"]
    /\ Answer(h, 502, NoRun, FALSE)
    /\ run' = [run EXCEPT ![h] = NoRun]
    /\ UNCHANGED <<now, requestVars, store, timestamps, sent, restarts, grants>>

(* Mutant: the cache keeps one answer.                                      *)
Put_KeepsOne(h) ==
    /\ pc[h] = "put"
    /\ store' = [ct \in Clients \X Tickets |-> IF ct = <<client[h], ticket[h]>> THEN run[h] ELSE NoRun]
    /\ Answer(h, 200, run[h], FALSE)
    /\ run' = [run EXCEPT ![h] = NoRun]
    /\ UNCHANGED <<now, requestVars, timestamps, sent, restarts, runs, grants>>

(* IdempotencyCache.put, under its lock, and the answer to the caller.      *)
Put(h) ==
    /\ pc[h] = "put"
    /\ store' = [store EXCEPT ![<<client[h], ticket[h]>>] = run[h]]
    /\ Answer(h, 200, run[h], FALSE)
    /\ run' = [run EXCEPT ![h] = NoRun]
    /\ UNCHANGED <<now, requestVars, timestamps, sent, restarts, runs, grants>>

(* The process stops and starts anew: cache and limiter are in memory.      *)
Restart ==
    /\ restarts < MaxRestarts
    /\ restarts' = restarts + 1
    /\ pc' = AllIdle /\ run' = NoRuns /\ store' = EmptyStore
    /\ timestamps' = NoTimes /\ grants' = NoTimes
    /\ runs' = [r \in DOMAIN runs |->
                  [runs[r] EXCEPT !.status = IF @ = "running" THEN "lost" ELSE @]]
    /\ UNCHANGED <<now, requestVars, reply, sent>>

Tick ==
    /\ now < MaxTime
    /\ now' = now + 1
    /\ UNCHANGED <<pc, requestVars, run, reply, store, timestamps, sent, restarts, runs, grants>>

Next ==
    \/ Tick \/ Restart
    \/ \E h \in Handlers :
          \/ Receive(h) \/ Authenticate(h) \/ Get(h) \/ RateLimited(h) \/ Allowed(h)
          \/ Dispatch(h) \/ RunReturns(h) \/ RunRaises(h) \/ Put(h)

Spec == Init /\ [][Next]_vars

-----------------------------------------------------------------------------
Runs == [client : Clients, ticket : Tickets, dispatched : BOOLEAN,
         status : {"running", "done", "raised", "lost"}]

(* Every variable has its type.                                             *)
TypeOK ==
    /\ now \in Nat /\ sent \in Nat /\ restarts \in Nat
    /\ pc \in [Handlers -> {"idle", "authenticate", "get", "allow", "run", "put"}]
    /\ key \in [Handlers -> Keys] /\ ticket \in [Handlers -> Tickets]
    /\ client \in [Handlers -> Clients \cup {Nobody}]
    /\ \A h \in Handlers : pc[h] \in {"get", "allow", "run", "put"} => client[h] \in Clients
    /\ run \in [Handlers -> Nat] /\ reply \in [Handlers -> Replies]
    /\ store \in [Clients \X Tickets -> Nat]
    /\ timestamps \in [Clients -> Seq(Nat)] /\ grants \in [Clients -> Seq(Nat)]
    /\ runs \in Seq(Runs)
    /\ arrived_stored \in [Handlers -> BOOLEAN]

(* IdempotencyCache and submit_ticket: whatever handlers overlap, a stored  *)
(* answer is the answer of a finished run of that very client and ticket.   *)
StoredAnswersOwnRun ==
    \A c \in Clients, t \in Tickets : Stored(c, t) =>
        LET r == store[<<c, t>>] IN
        r \in DOMAIN runs /\ runs[r].client = c /\ runs[r].ticket = t /\ runs[r].status = "done"

(* resolve_client_id and submit_ticket: a caller is only ever given the     *)
(* outcome of a run for the ticket it sent and the client its key names,    *)
(* replayed or not.                                                         *)
RepliesOwnRun ==
    \A h \in Handlers : pc[h] = "idle" /\ reply[h].code = 200 =>
        LET r == reply[h].run IN
        /\ r \in DOMAIN runs /\ runs[r].ticket = ticket[h]
        /\ runs[r].client = ClientOf(key[h]) /\ runs[r].status = "done"

(* submit_ticket: a request that arrives once the answer is stored is       *)
(* replayed: it neither spends the client's budget nor runs the pipeline.   *)
RetryAfterAnswerReplays ==
    \A h \in Handlers : arrived_stored[h] => pc[h] \notin {"allow", "run", "put"}

(* ClientRateLimiter: at most max_calls of a client's requests are let      *)
(* through in any window, on whichever threads they are handled.            *)
ClientWindowBound ==
    \A c \in Clients : \A i \in 1 .. Len(grants[c]) - MaxCalls :
        grants[c][i + MaxCalls] - grants[c][i] >= Window

(* ClientRateLimiter: the pruned lists in memory, behind a lock the handlers *)
(* take in any order, implement a budget per client, forgotten at a restart.*)
Budget == INSTANCE WindowBudget WITH
    Owners <- Clients, Limit <- [c \in Clients |-> MaxCalls], granted <- grants
KeepsBudgets == Budget!Spec

(* ClientRateLimiter: a client is refused only if its own requests filled   *)
(* the window, never for those of another client or for old ones.           *)
RefusedOnlyWhenFull ==
    [][\A h \in Handlers : reply'[h].code = 429 /\ reply[h].code # 429 =>
          Cardinality({i \in DOMAIN grants[client[h]] : grants[client[h]][i] > now - Window})
             >= MaxCalls]_vars
=============================================================================
