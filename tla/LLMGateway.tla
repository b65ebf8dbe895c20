----------------------------- MODULE LLMGateway -----------------------------
(***************************************************************************)
(* src/core/llm_client.py: the provider gateway every worker thread of the *)
(* API process shares.  A call walks the fallback chain of its role; each  *)
(* provider has a circuit breaker and a sliding-window limiter, both with a*)
(* lock of their own, so threads interleave between the breaker's check,   *)
(* the limiter's grant and the outcome of the call.  The limiter keeps its *)
(* lock while it sleeps.                                                   *)
(*                                                                         *)
(* Time is counted in units of the 0.05 s the limiter adds to its sleep.   *)
(* checked_at, grants and outcomes are history: when the breaker let a     *)
(* thread through, what the limiter granted and what the breaker was told. *)
(***************************************************************************)
EXTENDS SlidingWindow

CONSTANTS
    Threads,         \* worker threads of the API process
    Providers,
    Roles,
    RoleProviders,   \* role -> fallback chain
    MaxCalls,        \* provider -> requests per window (its rpm setting)
    Clientless,      \* providers _build_client does not know
    Window,          \* window_seconds
    FailureThreshold, Cooldown,
    MaxTime,         \* bound: the clock runs on by itself up to here
    MaxRequests      \* bound: gateway calls of all threads

ASSUME GatewayAssumption ==
    /\ RoleProviders \in [Roles -> Seq(Providers)]
    /\ MaxCalls \in [Providers -> Nat]
    /\ Clientless \subseteq Providers
    /\ Window \in Nat \ {0} /\ Cooldown \in Nat \ {0} /\ FailureThreshold \in Nat \ {0}
    /\ MaxTime \in Nat /\ MaxRequests \in Nat

Never == -1
Nobody == "nobody"
ASSUME ThreadsAssumption == Nobody \notin Threads

VARIABLES
    now,
    pc,          \* thread -> where it is in LLMProviderGateway.call
    role, idx,   \* thread -> the role it calls for, its position in the chain
    wake_at,     \* thread -> when the limiter's sleep ends
    requests,    \* calls made so far
    failures,    \* provider -> _consecutive_failures
    opened_at,   \* provider -> _opened_at
    timestamps,  \* provider -> the limiter's _timestamps
    lock,        \* provider -> the thread holding the limiter's lock
    checked_at, grants, outcomes

breakerVars == <<failures, opened_at, outcomes>>
limiterVars == <<timestamps, lock, grants>>
vars == <<now, pc, role, idx, wake_at, requests, checked_at, breakerVars, limiterVars>>

chain(t) == RoleProviders[role[t]]
provider(t) == chain(t)[idx[t]]

(* _CircuitBreaker.is_open                                                  *)
is_open(p) == opened_at[p] # Never /\ now - opened_at[p] < Cooldown

Init ==
    /\ now = 0
    /\ pc = [t \in Threads |-> "idle"]
    /\ role \in [Threads -> Roles] /\ idx = [t \in Threads |-> 1]
    /\ wake_at = [t \in Threads |-> Never]
    /\ requests = 0
    /\ checked_at = [t \in Threads |-> Never]
    /\ failures = [p \in Providers |-> 0]
    /\ opened_at = [p \in Providers |-> Never]
    /\ outcomes = [p \in Providers |-> <<>>]
    /\ timestamps = [p \in Providers |-> <<>>]
    /\ lock = [p \in Providers |-> Nobody]
    /\ grants = [p \in Providers |-> <<>>]

(* Mutant: one position too many.                                           *)
TryFrom_OnePastEnd(t, i) ==
    /\ idx' = [idx EXCEPT ![t] = i]
    /\ pc' = [pc EXCEPT ![t] = IF i <= Len(chain(t)) + 1 THEN "check" ELSE "raised"]

(* The loop over the chain: the next provider, or RuntimeError.             *)
TryFrom(t, i) ==
    /\ idx' = [idx EXCEPT ![t] = i]
    /\ pc' = [pc EXCEPT ![t] = IF i <= Len(chain(t)) THEN "check" ELSE "raised"]

-----------------------------------------------------------------------------
(* call(role, messages); a role without providers raises ValueError.        *)
Call(t) ==
    /\ pc[t] = "idle" /\ requests < MaxRequests
    /\ requests' = requests + 1
    /\ TryFrom(t, 1)
    /\ UNCHANGED <<checked_at, now, role, wake_at, breakerVars, limiterVars>>

(* Mutant: the last provider is tried even with its circuit open.           *)
CheckBreaker_LastResort(t) ==
    /\ pc[t] = "check"
    /\ IF is_open(provider(t)) /\ idx[t] < Len(chain(t))
       THEN /\ TryFrom(t, idx[t] + 1)
            /\ UNCHANGED checked_at
       ELSE /\ pc' = [pc EXCEPT ![t] = "acquire"]
            /\ checked_at' = [checked_at EXCEPT ![t] = now]
            /\ UNCHANGED idx
    /\ UNCHANGED <<now, role, wake_at, requests, breakerVars, limiterVars>>

(* breaker.is_open(): the answer is not looked at again before the call.    *)
CheckBreaker(t) ==
    /\ pc[t] = "check"
    /\ IF is_open(provider(t))
       THEN /\ TryFrom(t, idx[t] + 1)
            /\ UNCHANGED checked_at
       ELSE /\ pc' = [pc EXCEPT ![t] = "acquire"]
            /\ checked_at' = [checked_at EXCEPT ![t] = now]
            /\ UNCHANGED idx
    /\ UNCHANGED <<now, role, wake_at, requests, breakerVars, limiterVars>>

Fresh(ts) == prune(ts, now - Window)

record_failure(p) ==
    /\ failures' = [failures EXCEPT ![p] = @ + 1]
    /\ opened_at' = [opened_at EXCEPT ![p] =
                        IF failures[p] + 1 >= FailureThreshold THEN now ELSE @]
    /\ outcomes' = [outcomes EXCEPT ![p] = Append(@, [ok |-> FALSE, at |-> now])]

(* Mutant: the count is reset and the circuit left open.                    *)
record_success_KeepsOpened(p) ==
    /\ failures' = [failures EXCEPT ![p] = 0]
    /\ outcomes' = [outcomes EXCEPT ![p] = Append(@, [ok |-> TRUE, at |-> now])]
    /\ UNCHANGED opened_at

record_success(p) ==
    /\ failures' = [failures EXCEPT ![p] = 0]
    /\ opened_at' = [opened_at EXCEPT ![p] = Never]
    /\ outcomes' = [outcomes EXCEPT ![p] = Append(@, [ok |-> TRUE, at |-> now])]

(* _get_client raises for a provider it does not know, and a limiter of no  *)
(* calls raises from pop(0); the breaker is told of either.                 *)
CannotCall(t) ==
    /\ pc[t] = "acquire"
    /\ \/ provider(t) \in Clientless
       \/ MaxCalls[provider(t)] = 0 /\ lock[provider(t)] = Nobody
    /\ record_failure(provider(t))
    /\ TryFrom(t, idx[t] + 1)
    /\ UNCHANGED <<checked_at, now, role, wake_at, requests, limiterVars>>

Grant(p) == grants' = [grants EXCEPT ![p] = Append(@, now)]

(* acquire() with room in the window.                                       *)
Acquire(t) ==
    LET p == provider(t) IN
    /\ pc[t] = "acquire" /\ p \notin Clientless /\ lock[p] = Nobody
    /\ Len(Fresh(timestamps[p])) < MaxCalls[p]
    /\ timestamps' = [timestamps EXCEPT ![p] = Append(Fresh(@), now)]
    /\ Grant(p)
    /\ pc' = [pc EXCEPT ![t] = "calling"]
    /\ UNCHANGED <<checked_at, now, role, idx, wake_at, requests, breakerVars, lock>>

(* Mutant: the lock is let go before the sleep.                             *)
Throttle_Unlocked(t) ==
    LET p == provider(t)
        fresh == Fresh(timestamps[p]) IN
    /\ pc[t] = "acquire" /\ p \notin Clientless /\ lock[p] = Nobody
    /\ MaxCalls[p] > 0 /\ Len(fresh) >= MaxCalls[p]
    /\ timestamps' = [timestamps EXCEPT ![p] = Tail(fresh)]
    /\ wake_at' = [wake_at EXCEPT ![t] = Head(fresh) + Window + 1]
    /\ pc' = [pc EXCEPT ![t] = "sleeping"]
    /\ UNCHANGED <<checked_at, now, role, idx, requests, breakerVars, lock, grants>>

(* acquire() with the window full: the oldest timestamp is dropped and the  *)
(* thread sleeps until it leaves the window, with the lock held.            *)
Throttle(t) ==
    LET p == provider(t)
        fresh == Fresh(timestamps[p]) IN
    /\ pc[t] = "acquire" /\ p \notin Clientless /\ lock[p] = Nobody
    /\ MaxCalls[p] > 0 /\ Len(fresh) >= MaxCalls[p]
    /\ timestamps' = [timestamps EXCEPT ![p] = Tail(fresh)]
    /\ wake_at' = [wake_at EXCEPT ![t] = Head(fresh) + Window + 1]
    /\ lock' = [lock EXCEPT ![p] = t]
    /\ pc' = [pc EXCEPT ![t] = "sleeping"]
    /\ UNCHANGED <<checked_at, now, role, idx, requests, breakerVars, grants>>

(* Mutant: the lock is not released after the sleep.                        *)
Wake_KeepsLock(t) ==
    LET p == provider(t) IN
    /\ pc[t] = "sleeping" /\ now >= wake_at[t]
    /\ timestamps' = [timestamps EXCEPT ![p] = Append(@, now)]
    /\ Grant(p)
    /\ wake_at' = [wake_at EXCEPT ![t] = Never]
    /\ pc' = [pc EXCEPT ![t] = "calling"]
    /\ UNCHANGED <<checked_at, now, role, idx, requests, breakerVars, lock>>

Wake(t) ==
    LET p == provider(t) IN
    /\ pc[t] = "sleeping" /\ now >= wake_at[t]
    /\ timestamps' = [timestamps EXCEPT ![p] = Append(@, now)]
    /\ Grant(p)
    /\ wake_at' = [wake_at EXCEPT ![t] = Never]
    /\ lock' = [lock EXCEPT ![p] = Nobody]
    /\ pc' = [pc EXCEPT ![t] = "calling"]
    /\ UNCHANGED <<checked_at, now, role, idx, requests, breakerVars>>

(* The vendor answers.                                                      *)
CallSucceeds(t) ==
    /\ pc[t] = "calling"
    /\ record_success(provider(t))
    /\ pc' = [pc EXCEPT ![t] = "returned"]
    /\ UNCHANGED <<checked_at, now, role, idx, wake_at, requests, limiterVars>>

(* The vendor errs or times out.                                            *)
CallFails(t) ==
    /\ pc[t] = "calling"
    /\ record_failure(provider(t))
    /\ TryFrom(t, idx[t] + 1)
    /\ UNCHANGED <<checked_at, now, role, wake_at, requests, limiterVars>>

(* The thread goes on to its next planner or critic call; the locals of     *)
(* this one are gone.                                                       *)
Leave(t) ==
    /\ pc[t] \in {"returned", "raised"}
    /\ pc' = [pc EXCEPT ![t] = "idle"]
    /\ \E r \in Roles : role' = [role EXCEPT ![t] = r]
    /\ idx' = [idx EXCEPT ![t] = 1]
    /\ checked_at' = [checked_at EXCEPT ![t] = Never]
    /\ UNCHANGED <<now, wake_at, requests, breakerVars, limiterVars>>

(* Past MaxTime the clock only runs for a sleeper.                          *)
Tick ==
    /\ now < MaxTime \/ \E t \in Threads : pc[t] = "sleeping" /\ now < wake_at[t]
    /\ now' = now + 1
    /\ UNCHANGED <<checked_at, pc, role, idx, wake_at, requests, breakerVars, limiterVars>>

ThreadStep(t) ==
    \/ Call(t) \/ CheckBreaker(t) \/ CannotCall(t) \/ Acquire(t) \/ Throttle(t) \/ Wake(t)
    \/ CallSucceeds(t) \/ CallFails(t) \/ Leave(t)

Next == Tick \/ \E t \in Threads : ThreadStep(t)

Spec == Init /\ [][Next]_vars

(* Every runnable thread is scheduled, the clock advances, and every vendor *)
(* call returns or times out (llm_call_timeout).                            *)
(* A thread that waits for a limiter's lock gets it in the end.             *)
FairSpec ==
    /\ Spec /\ WF_vars(Tick)
    /\ \A t \in Threads :
          WF_vars(ThreadStep(t)) /\ SF_vars(CannotCall(t) \/ Acquire(t) \/ Throttle(t))

-----------------------------------------------------------------------------
InFlight(t) == pc[t] \in {"acquire", "sleeping", "calling"}

(* Every variable has its type; a thread in the loop stands at a provider.  *)
TypeOK ==
    /\ now \in Nat
    /\ pc \in [Threads -> {"idle", "check", "acquire", "sleeping", "calling", "returned", "raised"}]
    /\ role \in [Threads -> Roles] /\ idx \in [Threads -> Nat \ {0}]
    /\ wake_at \in [Threads -> Int] /\ checked_at \in [Threads -> Int]
    /\ requests \in Nat
    /\ failures \in [Providers -> Nat] /\ opened_at \in [Providers -> Nat \cup {Never}]
    /\ timestamps \in [Providers -> Seq(Nat)] /\ grants \in [Providers -> Seq(Nat)]
    /\ lock \in [Providers -> Threads \cup {Nobody}]
    /\ outcomes \in [Providers -> Seq([ok : BOOLEAN, at : Nat])]
    /\ \A t \in Threads : InFlight(t) \/ pc[t] = "check" => idx[t] <= Len(chain(t))

(* _SlidingWindowRateLimiter.acquire: whatever the threads do, no max_calls *)
(* + 1 grants fall into one window, the ones given after a sleep included.  *)
WindowBound ==
    \A p \in Providers : \A i \in 1 .. Len(grants[p]) - MaxCalls[p] :
        grants[p][i + MaxCalls[p]] - grants[p][i] >= Window

(* _SlidingWindowRateLimiter: lists that are pruned, cut short for a sleeper *)
(* and grown when it wakes implement a budget per provider.                 *)
Budget == INSTANCE WindowBudget WITH
    Owners <- Providers, Limit <- MaxCalls, granted <- grants
KeepsBudgets == Budget!Spec

(* _CircuitBreaker: the circuit is open exactly when the last               *)
(* failure_threshold reports, from whichever threads, were failures and the *)
(* last of them is younger than the cooldown.                               *)
BreakerExact ==
    \A p \in Providers :
        LET n == Len(outcomes[p]) IN
        is_open(p) <=>
            /\ n >= FailureThreshold
            /\ \A k \in n - FailureThreshold + 1 .. n : ~outcomes[p][k].ok
            /\ now - outcomes[p][n].at < Cooldown

(* LLMProviderGateway.call: while a circuit is open, the calls still on     *)
(* their way to that provider are ones the breaker let through no later     *)
(* than the failure that opened it.                                         *)
NoAdmissionWhileOpen ==
    \A t \in Threads :
        InFlight(t) /\ is_open(provider(t)) => checked_at[t] <= opened_at[provider(t)]

(* LLMProviderGateway.call ends, with an answer or an exception, whatever   *)
(* the vendors answer and however long the limiters' queues are.            *)
CallEnds == \A t \in Threads : pc[t] = "check" ~> pc[t] \in {"returned", "raised"}

=============================================================================
