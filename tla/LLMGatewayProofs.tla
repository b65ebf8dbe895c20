-------------------------- MODULE LLMGatewayProofs --------------------------
(***************************************************************************)
(* Proofs about the provider gateway, for every number of threads, chain,  *)
(* rate, window, threshold and cooldown.                                   *)
(***************************************************************************)
EXTENDS LLMGateway, SlidingWindowProofs

-----------------------------------------------------------------------------
(* Type correctness.                                                        *)

LEMMA ProviderType ==
  ASSUME TypeOK, NEW t \in Threads, InFlight(t) \/ pc[t] = "check"
  PROVE  provider(t) \in Providers
  <1>1. chain(t) \in Seq(Providers)
    BY GatewayAssumption DEF TypeOK, chain
  <1>2. idx[t] \in 1 .. Len(chain(t))
    BY <1>1 DEF TypeOK
  <1> QED BY <1>1, <1>2 DEF provider

(* Pruning keeps the list of grants a list of times.                        *)
LEMMA FreshType ==
  ASSUME TypeOK, NEW p \in Providers
  PROVE  Fresh(timestamps[p]) \in Seq(Nat)
  <1>1. timestamps[p] \in Seq(Nat) /\ now - Window \in Int
    BY GatewayAssumption DEF TypeOK
  <1> QED BY <1>1, PruneFacts DEF Fresh

(* The loop over the chain leaves the thread at a provider or done.         *)
LEMMA TryFromType ==
  ASSUME TypeOK, NEW t \in Threads, NEW i \in Nat \ {0}, TryFrom(t, i), role' = role
  PROVE  /\ idx' \in [Threads -> Nat \ {0}]
         /\ pc' \in [Threads -> {"idle", "check", "acquire", "sleeping", "calling", "returned", "raised"}]
         /\ \A u \in Threads : InFlight(u)' \/ pc'[u] = "check" => idx'[u] <= Len(chain(u)')
  BY DEF TypeOK, TryFrom, InFlight, chain

LEMMA RecordType ==
  ASSUME TypeOK, NEW p \in Providers, record_failure(p) \/ record_success(p)
  PROVE  /\ failures' \in [Providers -> Nat]
         /\ opened_at' \in [Providers -> Nat \cup {Never}]
         /\ outcomes' \in [Providers -> Seq([ok : BOOLEAN, at : Nat])]
  <1>1. \A b \in BOOLEAN : [ok |-> b, at |-> now] \in [ok : BOOLEAN, at : Nat]
    BY DEF TypeOK
  <1>2. outcomes[p] \in Seq([ok : BOOLEAN, at : Nat])
    BY DEF TypeOK
  <1>3. \A b \in BOOLEAN : Append(outcomes[p], [ok |-> b, at |-> now]) \in Seq([ok : BOOLEAN, at : Nat])
    BY <1>1, <1>2
  <1>4. outcomes' \in [Providers -> Seq([ok : BOOLEAN, at : Nat])]
    BY <1>3 DEF TypeOK, record_failure, record_success
  <1>5. failures' \in [Providers -> Nat]
    <2>1. PICK v \in Nat : failures' = [failures EXCEPT ![p] = v]
      <3>1. failures[p] + 1 \in Nat  BY DEF TypeOK
      <3>2. CASE record_failure(p)  BY <3>1, <3>2 DEF record_failure
      <3>3. CASE record_success(p)  BY <3>3 DEF record_success
      <3> QED BY <3>2, <3>3
    <2> QED BY <2>1 DEF TypeOK
  <1>6. opened_at' \in [Providers -> Nat \cup {Never}]
    <2>1. PICK v \in Nat \cup {Never} : opened_at' = [opened_at EXCEPT ![p] = v]
      BY DEF TypeOK, record_failure, record_success
    <2> QED BY <2>1 DEF TypeOK
  <1> QED BY <1>4, <1>5, <1>6

LEMMA TypeStep == TypeOK /\ [Next]_vars => TypeOK'
  <1> SUFFICES ASSUME TypeOK, [Next]_vars PROVE TypeOK'
    OBVIOUS
  <1> USE DEF breakerVars, limiterVars
  <1>1. CASE UNCHANGED vars
    BY <1>1 DEF vars, TypeOK, InFlight, chain
  <1>2. CASE Tick
    BY <1>2 DEF Tick, TypeOK, InFlight, chain
  <1>3. ASSUME NEW t \in Threads, Call(t) PROVE TypeOK'
    <2>1. TryFrom(t, 1) /\ role' = role  BY <1>3 DEF Call
    <2> QED BY SMTT(30), <1>3, <2>1, TryFromType DEF Call, TypeOK
  <1>4. ASSUME NEW t \in Threads, CheckBreaker(t) PROVE TypeOK'
    <2>1. CASE is_open(provider(t))
      <3>1. TryFrom(t, idx[t] + 1) /\ role' = role /\ idx[t] + 1 \in Nat \ {0}
        BY <1>4, <2>1 DEF CheckBreaker, TypeOK
      <3> QED BY <1>4, <2>1, <3>1, TryFromType DEF CheckBreaker, TypeOK
    <2>2. CASE ~is_open(provider(t))
      <3>1. /\ pc' = [pc EXCEPT ![t] = "acquire"]
            /\ checked_at' = [checked_at EXCEPT ![t] = now]
            /\ UNCHANGED <<idx, now, role, wake_at, requests, breakerVars, limiterVars>>
            /\ pc[t] = "check"
        BY <1>4, <2>2 DEF CheckBreaker
      <3> QED BY <3>1 DEF TypeOK, InFlight, chain
    <2> QED BY <2>1, <2>2
  <1>5. ASSUME NEW t \in Threads, CannotCall(t) \/ CallFails(t) PROVE TypeOK'
    <2>1. provider(t) \in Providers  BY <1>5, ProviderType DEF CannotCall, CallFails, InFlight
    <2>2. /\ TryFrom(t, idx[t] + 1) /\ role' = role /\ idx[t] + 1 \in Nat \ {0}
          /\ record_failure(provider(t))
      BY <1>5 DEF CannotCall, CallFails, TypeOK
    <2> QED BY <1>5, <2>1, <2>2, TryFromType, RecordType DEF CannotCall, CallFails, TypeOK
  <1>6. ASSUME NEW t \in Threads, Acquire(t) PROVE TypeOK'
    <2>1. provider(t) \in Providers  BY <1>6, ProviderType DEF Acquire, InFlight
    <2>2. Append(Fresh(timestamps[provider(t)]), now) \in Seq(Nat)
      BY <2>1, FreshType DEF TypeOK
    <2> QED BY SMTT(30), <1>6, <2>1, <2>2 DEF Acquire, Grant, TypeOK, InFlight, chain
  <1>7. ASSUME NEW t \in Threads, Throttle(t) PROVE TypeOK'
    <2> DEFINE fresh == Fresh(timestamps[provider(t)])
    <2>1. provider(t) \in Providers  BY <1>7, ProviderType DEF Throttle, InFlight
    <2>2. fresh \in Seq(Nat)  BY <2>1, FreshType
    <2>3. Len(fresh) >= 1
      BY <1>7, <2>1, <2>2, GatewayAssumption DEF Throttle
    <2>4. Tail(fresh) \in Seq(Nat) /\ Head(fresh) + Window + 1 \in Int
      BY <2>2, <2>3, GatewayAssumption
    <2> QED BY <1>7, <2>1, <2>4 DEF Throttle, TypeOK, InFlight, chain
  <1>8. ASSUME NEW t \in Threads, Wake(t) PROVE TypeOK'
    <2>1. provider(t) \in Providers  BY <1>8, ProviderType DEF Wake, InFlight
    <2> QED BY SMTT(30), <1>8, <2>1 DEF Wake, Grant, Never, TypeOK, InFlight, chain
  <1>9. ASSUME NEW t \in Threads, CallSucceeds(t) PROVE TypeOK'
    <2>1. provider(t) \in Providers  BY <1>9, ProviderType DEF CallSucceeds, InFlight
    <2> QED BY <1>9, <2>1, RecordType DEF CallSucceeds, TypeOK, InFlight, chain
  <1>10. ASSUME NEW t \in Threads, Leave(t) PROVE TypeOK'
    BY <1>10 DEF Leave, Never, TypeOK, InFlight, chain
  <1> QED BY <1>1, <1>2, <1>3, <1>4, <1>5, <1>6, <1>7, <1>8, <1>9, <1>10 DEF Next, ThreadStep

(* LLMProviderGateway.call never stands past the end of its chain, and      *)
(* every other variable keeps its type.                                     *)
THEOREM GatewayTypeCorrect == Spec => []TypeOK
  <1>1. Init => TypeOK
    BY DEF Init, TypeOK, Never, InFlight, chain
  <1> QED BY <1>1, TypeStep, PTL DEF Spec

-----------------------------------------------------------------------------
(* The circuit breaker.                                                     *)

(* _consecutive_failures is the length of the run of failures the reports   *)
(* end in, and _opened_at the time of the last one once the run is long     *)
(* enough.                                                                  *)
Tripped(p) == failures[p] >= FailureThreshold
BreakerCounts(p) ==
    /\ failures[p] <= Len(outcomes[p])
    /\ \A k \in Len(outcomes[p]) - failures[p] + 1 .. Len(outcomes[p]) : ~outcomes[p][k].ok
    /\ failures[p] < Len(outcomes[p]) => outcomes[p][Len(outcomes[p]) - failures[p]].ok
    /\ Tripped(p) => opened_at[p] = outcomes[p][Len(outcomes[p])].at
    /\ ~Tripped(p) => opened_at[p] = Never
BreakerInv == \A p \in Providers : BreakerCounts(p)

(* Only the three reports touch a breaker, each the one of its provider.    *)
LEMMA Reports ==
  ASSUME TypeOK, [Next]_vars
  PROVE  \/ UNCHANGED <<failures, opened_at, outcomes>>
         \/ \E q \in Providers : record_failure(q) \/ record_success(q)
  <1>1. ASSUME NEW t \in Threads, CannotCall(t) \/ CallFails(t) \/ CallSucceeds(t)
        PROVE  \E q \in Providers : record_failure(q) \/ record_success(q)
    <2>1. provider(t) \in Providers
      BY <1>1, ProviderType DEF CannotCall, CallFails, CallSucceeds, InFlight
    <2>2. record_failure(provider(t)) \/ record_success(provider(t))
      BY <1>1 DEF CannotCall, CallFails, CallSucceeds
    <2> QED BY <2>1, <2>2
  <1>2. ASSUME NEW t \in Threads,
               \/ Call(t) \/ CheckBreaker(t) \/ Acquire(t) \/ Throttle(t) \/ Wake(t) \/ Leave(t)
        PROVE  UNCHANGED <<failures, opened_at, outcomes>>
    BY <1>2 DEF Call, CheckBreaker, Acquire, Throttle, Wake, Leave, breakerVars
  <1>3. Tick \/ UNCHANGED vars => UNCHANGED <<failures, opened_at, outcomes>>
    BY DEF Tick, vars, breakerVars
  <1> QED BY <1>1, <1>2, <1>3 DEF Next, ThreadStep

LEMMA FailureCounts ==
  ASSUME TypeOK, NEW p \in Providers, BreakerCounts(p), record_failure(p)
  PROVE  BreakerCounts(p)'
  <1> DEFINE n == Len(outcomes[p])
             f == failures[p]
             report == [ok |-> FALSE, at |-> now]
  <1>1. n \in Nat /\ f \in Nat /\ outcomes[p] \in Seq([ok : BOOLEAN, at : Nat])
    BY DEF TypeOK
  <1>2. outcomes'[p] = Append(outcomes[p], report) /\ failures'[p] = f + 1
    BY DEF TypeOK, record_failure
  <1>3. /\ Len(outcomes'[p]) = n + 1
        /\ ~outcomes'[p][n + 1].ok /\ outcomes'[p][n + 1].at = now
        /\ \A k \in 1 .. n : outcomes'[p][k] = outcomes[p][k]
    BY <1>1, <1>2
  <1>4. f <= n /\ (\A k \in n - f + 1 .. n : ~outcomes[p][k].ok) /\ (f < n => outcomes[p][n - f].ok)
    BY DEF BreakerCounts
  <1>5. opened_at'[p] = IF f + 1 >= FailureThreshold THEN now ELSE opened_at[p]
    BY DEF TypeOK, record_failure
  <1>6. f + 1 < FailureThreshold => opened_at[p] = Never
    BY <1>1, GatewayAssumption DEF BreakerCounts, Tripped
  <1> HIDE DEF n, f
  <1>7. \A k \in (n + 1) - (f + 1) + 1 .. n + 1 : ~outcomes'[p][k].ok
    <2> TAKE k \in (n + 1) - (f + 1) + 1 .. n + 1
    <2>1. CASE k = n + 1  BY <1>3, <2>1
    <2>2. CASE k # n + 1
      <3>1. k \in n - f + 1 .. n /\ k \in 1 .. n  BY <1>1, <1>4, <2>2
      <3> QED BY <1>3, <1>4, <3>1
    <2> QED BY <2>1, <2>2
  <1>8. f + 1 < n + 1 => outcomes'[p][(n + 1) - (f + 1)].ok
    <2> HAVE f + 1 < n + 1
    <2>1. n - f \in 1 .. n /\ (n + 1) - (f + 1) = n - f /\ f < n  BY <1>1, <1>4
    <2> QED BY <1>3, <1>4, <2>1
  <1>9. /\ f + 1 >= FailureThreshold => opened_at'[p] = outcomes'[p][n + 1].at
        /\ ~(f + 1 >= FailureThreshold) => opened_at'[p] = Never
    BY <1>1, <1>3, <1>5, <1>6, GatewayAssumption
  <1>10. failures'[p] <= Len(outcomes'[p])
    BY <1>1, <1>2, <1>3, <1>4
  <1> QED BY <1>2, <1>3, <1>7, <1>8, <1>9, <1>10 DEF BreakerCounts, Tripped

LEMMA SuccessCounts ==
  ASSUME TypeOK, NEW p \in Providers, BreakerCounts(p), record_success(p)
  PROVE  BreakerCounts(p)'
  <1> DEFINE n == Len(outcomes[p])
             report == [ok |-> TRUE, at |-> now]
  <1>1. n \in Nat /\ outcomes[p] \in Seq([ok : BOOLEAN, at : Nat])
    BY DEF TypeOK
  <1>2. /\ outcomes'[p] = Append(outcomes[p], report)
        /\ failures'[p] = 0 /\ opened_at'[p] = Never
    BY DEF TypeOK, record_success
  <1>3. Len(outcomes'[p]) = n + 1 /\ outcomes'[p][n + 1] = report
    BY <1>1, <1>2
  <1> QED BY <1>1, <1>2, <1>3, GatewayAssumption DEF BreakerCounts, Tripped

LEMMA BreakerStep == TypeOK /\ BreakerInv /\ [Next]_vars => BreakerInv'
  <1> SUFFICES ASSUME TypeOK, BreakerInv, [Next]_vars, NEW p \in Providers
               PROVE  BreakerCounts(p)'
    BY DEF BreakerInv
  <1>1. BreakerCounts(p)  BY DEF BreakerInv
  <1>2. CASE UNCHANGED <<failures, opened_at, outcomes>>
    BY <1>1, <1>2 DEF BreakerCounts, Tripped
  <1>3. ASSUME NEW q \in Providers, record_failure(q) \/ record_success(q)
        PROVE  BreakerCounts(p)'
    <2>1. CASE p = q  BY <1>1, <1>3, <2>1, FailureCounts, SuccessCounts
    <2>2. CASE p # q
      <3>1. /\ failures'[p] = failures[p] /\ opened_at'[p] = opened_at[p]
            /\ outcomes'[p] = outcomes[p]
        BY <1>3, <2>2 DEF TypeOK, record_failure, record_success
      <3> QED BY <1>1, <3>1 DEF BreakerCounts, Tripped
    <2> QED BY <2>1, <2>2
  <1> QED BY <1>2, <1>3, Reports

LEMMA CountsGiveExact == TypeOK /\ BreakerInv => BreakerExact
  <1> SUFFICES ASSUME TypeOK, BreakerInv, NEW p \in Providers
               PROVE  LET n == Len(outcomes[p]) IN
                      is_open(p) <=>
                        /\ n >= FailureThreshold
                        /\ \A k \in n - FailureThreshold + 1 .. n : ~outcomes[p][k].ok
                        /\ now - outcomes[p][n].at < Cooldown
    BY DEF BreakerExact
  <1> DEFINE n == Len(outcomes[p])
             f == failures[p]
  <1>1. /\ f <= n /\ (\A k \in n - f + 1 .. n : ~outcomes[p][k].ok)
        /\ f < n => outcomes[p][n - f].ok
        /\ f >= FailureThreshold => opened_at[p] = outcomes[p][n].at
        /\ f < FailureThreshold => opened_at[p] = Never
        /\ n \in Nat /\ f \in Nat /\ FailureThreshold \in Nat \ {0}
    BY GatewayAssumption DEF BreakerInv, BreakerCounts, Tripped, TypeOK
  <1>2. ASSUME f >= FailureThreshold
        PROVE  /\ n >= FailureThreshold
               /\ \A k \in n - FailureThreshold + 1 .. n : ~outcomes[p][k].ok
               /\ opened_at[p] = outcomes[p][n].at /\ opened_at[p] # Never
    <2>1. outcomes[p][n].at \in Nat
      <3>1. n \in 1 .. Len(outcomes[p]) /\ outcomes[p] \in Seq([ok : BOOLEAN, at : Nat])
        BY <1>1, <1>2 DEF TypeOK
      <3>2. outcomes[p][n] \in [ok : BOOLEAN, at : Nat]  BY <3>1, ElementType
      <3> QED BY <3>2
    <2> QED BY <1>1, <1>2, <2>1 DEF Never
  <1>3. ASSUME f < FailureThreshold, n >= FailureThreshold,
               \A k \in n - FailureThreshold + 1 .. n : ~outcomes[p][k].ok
        PROVE  FALSE
    <2>1. n - f \in n - FailureThreshold + 1 .. n /\ f < n  BY <1>1, <1>3
    <2> QED BY <1>1, <1>3, <2>1
  <1>4. CASE f >= FailureThreshold  BY <1>2, <1>4 DEF is_open
  <1>5. CASE f < FailureThreshold  BY <1>1, <1>3, <1>5 DEF is_open
  <1> QED BY SMTT(30), <1>1, <1>4, <1>5

(* _CircuitBreaker, whatever the threads report and when: open exactly when *)
(* the last failure_threshold reports failed and the cooldown is not over.  *)
THEOREM BreakerIsExact == Spec => []BreakerExact
  <1>1. Init => BreakerInv
    BY GatewayAssumption DEF Init, BreakerInv, BreakerCounts, Tripped
  <1>2. TypeOK /\ BreakerInv /\ [Next]_vars => BreakerInv'
    BY BreakerStep
  <1>3. TypeOK /\ BreakerInv => BreakerExact
    BY CountsGiveExact
  <1> QED BY <1>1, <1>2, <1>3, GatewayTypeCorrect, PTL DEF Spec

-----------------------------------------------------------------------------
(* Calls on their way to a provider.                                        *)

(* A call was let through before the circuit opened or after its cooldown.  *)
Admitted(t) ==
    InFlight(t) =>
      /\ checked_at[t] <= now
      /\ \/ opened_at[provider(t)] = Never
         \/ checked_at[t] <= opened_at[provider(t)]
         \/ checked_at[t] >= opened_at[provider(t)] + Cooldown
AdmissionInv == \A t \in Threads : Admitted(t)

(* A circuit that changes opens now or closes.                              *)
LEMMA OpenedNow ==
  ASSUME TypeOK, [Next]_vars, NEW p \in Providers
  PROVE  opened_at'[p] \in {opened_at[p], now, Never}
  BY Reports DEF TypeOK, record_failure, record_success

(* What a step does to a thread: it is not on its way to a provider after   *)
(* it, or the breaker just let it through, or it goes on as it was.         *)
LEMMA ThreadMoves ==
  ASSUME TypeOK, [Next]_vars, NEW t \in Threads
  PROVE  \/ ~InFlight(t)'
         \/ /\ ~is_open(provider(t)) /\ pc[t] = "check" /\ checked_at'[t] = now
            /\ provider(t)' = provider(t) /\ now' = now /\ UNCHANGED opened_at
         \/ /\ InFlight(t) /\ provider(t)' = provider(t) /\ UNCHANGED checked_at[t]
  <1> DEFINE Goal == \/ ~InFlight(t)'
                     \/ /\ ~is_open(provider(t)) /\ pc[t] = "check" /\ checked_at'[t] = now
                        /\ provider(t)' = provider(t) /\ now' = now /\ UNCHANGED opened_at
                     \/ /\ InFlight(t) /\ provider(t)' = provider(t) /\ UNCHANGED checked_at[t]
  <1>1. CASE Tick \/ UNCHANGED vars
    BY <1>1 DEF Tick, vars, InFlight, provider, chain
  <1>2. ASSUME NEW u \in Threads, ThreadStep(u), u # t PROVE Goal
    <2>1. UNCHANGED <<pc[t], role[t], idx[t], checked_at[t]>>
      BY <1>2 DEF ThreadStep, Call, CheckBreaker, CannotCall, Acquire, Throttle, Wake,
                  CallSucceeds, CallFails, Leave, TryFrom, TypeOK
    <2> QED BY <2>1 DEF InFlight, provider, chain
  <1>3. CASE Call(t) \/ CannotCall(t) \/ CallFails(t) \/ CallSucceeds(t) \/ Leave(t)
    <2>1. ~InFlight(t)'
      BY <1>3 DEF Call, CannotCall, CallFails, CallSucceeds, Leave, TryFrom, TypeOK, InFlight
    <2> QED BY <2>1
  <1>4. CASE Acquire(t) \/ Throttle(t) \/ Wake(t)
    <2>1. /\ InFlight(t)
          /\ UNCHANGED <<role, idx, checked_at>>
      BY <1>4 DEF Acquire, Throttle, Wake, InFlight
    <2> QED BY <2>1 DEF provider, chain
  <1>5. CASE CheckBreaker(t)
    <2>1. CASE is_open(provider(t))
      BY <1>5, <2>1 DEF CheckBreaker, TryFrom, TypeOK, InFlight
    <2>2. CASE ~is_open(provider(t))
      BY <1>5, <2>2 DEF CheckBreaker, TypeOK, provider, chain, breakerVars
    <2> QED BY <2>1, <2>2
  <1> QED BY <1>1, <1>2, <1>3, <1>4, <1>5 DEF Next, ThreadStep

LEMMA ClockRuns == TypeOK /\ [Next]_vars => now' >= now /\ now' \in Nat
  <1> SUFFICES ASSUME TypeOK, [Next]_vars PROVE now' >= now /\ now' \in Nat
    OBVIOUS
  <1>1. now' = now \/ now' = now + 1
    BY DEF Next, ThreadStep, Tick, Call, CheckBreaker, CannotCall, Acquire, Throttle, Wake,
           CallSucceeds, CallFails, Leave, vars
  <1> QED BY <1>1 DEF TypeOK

LEMMA AdmissionStep == TypeOK /\ AdmissionInv /\ [Next]_vars => AdmissionInv'
  <1> SUFFICES ASSUME TypeOK, AdmissionInv, [Next]_vars, NEW t \in Threads, InFlight(t)'
               PROVE  Admitted(t)'
    BY DEF AdmissionInv, Admitted
  <1> DEFINE p == provider(t)
  <1>1. now' >= now /\ now' \in Nat /\ now \in Nat /\ Cooldown \in Nat \ {0}
    BY ClockRuns, GatewayAssumption DEF TypeOK
  <1>2. CASE /\ ~is_open(p) /\ pc[t] = "check" /\ checked_at'[t] = now
             /\ p' = p /\ now' = now /\ UNCHANGED opened_at
    <2>1. p \in Providers  BY <1>2, ProviderType
    <2>2. opened_at[p] \in Nat \cup {Never}  BY <2>1 DEF TypeOK
    <2>3. opened_at[p] = Never \/ now >= opened_at[p] + Cooldown
      BY <1>1, <1>2, <2>2 DEF is_open, Never
    <2> QED BY <1>1, <1>2, <2>3 DEF Admitted
  <1>3. CASE InFlight(t) /\ p' = p /\ UNCHANGED checked_at[t]
    <2>1. p \in Providers  BY <1>3, ProviderType
    <2>2. opened_at[p] \in Nat \cup {Never} /\ checked_at[t] \in Int  BY <2>1 DEF TypeOK
    <2>3. opened_at'[p] \in {opened_at[p], now, Never}  BY <2>1, OpenedNow
    <2>4. /\ checked_at[t] <= now
          /\ \/ opened_at[p] = Never
             \/ checked_at[t] <= opened_at[p]
             \/ checked_at[t] >= opened_at[p] + Cooldown
      BY <1>3 DEF AdmissionInv, Admitted
    <2>5. \/ opened_at'[p] = Never
          \/ checked_at[t] <= opened_at'[p]
          \/ checked_at[t] >= opened_at'[p] + Cooldown
      BY <2>3, <2>4
    <2>6. checked_at'[t] <= now'
      BY <1>1, <1>3, <2>2, <2>4
    <2> QED BY <1>3, <2>5, <2>6 DEF Admitted
  <1> QED BY <1>2, <1>3, ThreadMoves

(* LLMProviderGateway.call: the calls still under way to a provider whose   *)
(* circuit is open were all let through before it opened.                   *)
THEOREM NoneAdmittedWhileOpen == Spec => []NoAdmissionWhileOpen
  <1>1. Init => AdmissionInv
    BY DEF Init, AdmissionInv, Admitted, InFlight
  <1>2. TypeOK /\ AdmissionInv => NoAdmissionWhileOpen
    <2> SUFFICES ASSUME TypeOK, AdmissionInv, NEW t \in Threads, InFlight(t), is_open(provider(t))
                 PROVE  checked_at[t] <= opened_at[provider(t)]
      BY DEF NoAdmissionWhileOpen
    <2>1. provider(t) \in Providers  BY ProviderType
    <2>2. /\ opened_at[provider(t)] \in Nat /\ now \in Nat /\ checked_at[t] \in Int
          /\ now - opened_at[provider(t)] < Cooldown /\ Cooldown \in Nat
      BY <2>1, GatewayAssumption DEF TypeOK, is_open
    <2> QED BY <2>2 DEF AdmissionInv, Admitted, Never
  <1> QED BY <1>1, <1>2, AdmissionStep, GatewayTypeCorrect, PTL DEF Spec

-----------------------------------------------------------------------------
(* The sliding window.                                                      *)

(* The limiter's lock is held by the thread that sleeps on that provider.   *)
LockInv ==
    /\ \A p \in Providers, t \in Threads : lock[p] = t => pc[t] = "sleeping" /\ provider(t) = p
    /\ \A t \in Threads : pc[t] = "sleeping" => lock[provider(t)] = t

(* The provider's list holds its last grants; while a thread sleeps there   *)
(* is room for one more, and the grants before the list will have left the  *)
(* window when it wakes.                                                    *)
WindowCounts(p) ==
    /\ IsTail(timestamps[p], grants[p])
    /\ Spaced(grants[p], MaxCalls[p], Window)
    /\ lock[p] = Nobody => Kept(timestamps[p], grants[p], MaxCalls[p], Window, now)
    /\ lock[p] # Nobody =>
          /\ Len(timestamps[p]) + 1 = MaxCalls[p]
          /\ \A i \in 1 .. Len(grants[p]) - Len(timestamps[p]) :
                grants[p][i] + Window + 1 <= wake_at[lock[p]]
WindowInv == \A p \in Providers : WindowCounts(p)

LEMMA LockStep == TypeOK /\ LockInv /\ [Next]_vars => LockInv'
  <1> SUFFICES ASSUME TypeOK, LockInv, [Next]_vars PROVE LockInv'
    OBVIOUS
  <1>1. CASE Tick \/ UNCHANGED vars
    BY <1>1 DEF Tick, vars, limiterVars, LockInv, provider, chain
  <1>2. ASSUME NEW u \in Threads,
               \/ Call(u) \/ CheckBreaker(u) \/ CannotCall(u) \/ Acquire(u)
               \/ CallSucceeds(u) \/ CallFails(u) \/ Leave(u)
        PROVE  LockInv'
    <2>1. /\ UNCHANGED lock /\ pc[u] # "sleeping" /\ pc'[u] # "sleeping"
          /\ \A t \in Threads \ {u} : UNCHANGED <<pc[t], role[t], idx[t]>>
      BY <1>2 DEF Call, CheckBreaker, CannotCall, Acquire, CallSucceeds, CallFails, Leave,
                  TryFrom, TypeOK, limiterVars
    <2> QED BY <2>1 DEF LockInv, provider, chain
  <1>3. ASSUME NEW u \in Threads, Throttle(u) PROVE LockInv'
    <2>1. provider(u) \in Providers  BY <1>3, ProviderType DEF Throttle, InFlight
    <2>2. /\ lock[provider(u)] = Nobody /\ lock' = [lock EXCEPT ![provider(u)] = u]
          /\ pc' = [pc EXCEPT ![u] = "sleeping"] /\ pc[u] = "acquire"
          /\ UNCHANGED <<role, idx>>
      BY <1>3 DEF Throttle
    <2>3. \A t \in Threads : provider(t)' = provider(t)
      BY <2>2 DEF provider, chain
    <2>4. \A t \in Threads \ {u} : pc[t] = "sleeping" => provider(t) # provider(u)
      BY <2>2, ThreadsAssumption DEF LockInv
    <2>5. \A t \in Threads \ {u} : pc[t] = "sleeping" => provider(t) \in Providers
      BY ProviderType DEF InFlight
    <2> QED BY SMTT(30), <2>1, <2>2, <2>3, <2>4, <2>5 DEF LockInv, TypeOK
  <1>4. ASSUME NEW u \in Threads, Wake(u) PROVE LockInv'
    <2>1. provider(u) \in Providers  BY <1>4, ProviderType DEF Wake, InFlight
    <2>2. /\ pc[u] = "sleeping" /\ lock' = [lock EXCEPT ![provider(u)] = Nobody]
          /\ pc' = [pc EXCEPT ![u] = "calling"]
          /\ UNCHANGED <<role, idx>>
      BY <1>4 DEF Wake
    <2>3. \A t \in Threads : provider(t)' = provider(t)
      BY <2>2 DEF provider, chain
    <2>4. \A t \in Threads \ {u} : pc[t] = "sleeping" => provider(t) # provider(u)
      BY <2>2 DEF LockInv
    <2>5. \A t \in Threads \ {u} : pc[t] = "sleeping" => provider(t) \in Providers
      BY ProviderType DEF InFlight
    <2> QED BY SMTT(30), <2>1, <2>2, <2>3, <2>4, <2>5, ThreadsAssumption DEF LockInv, TypeOK
  <1> QED BY <1>1, <1>2, <1>3, <1>4 DEF Next, ThreadStep

(* A provider whose limiter a step does not touch.                          *)
LEMMA WindowUntouched ==
  ASSUME TypeOK, NEW p \in Providers, WindowCounts(p), now' >= now, now' \in Nat,
         UNCHANGED <<timestamps[p], grants[p], lock[p]>>,
         lock[p] # Nobody => wake_at'[lock[p]] = wake_at[lock[p]]
  PROVE  WindowCounts(p)'
  <1>1. \A i \in 1 .. Len(grants[p]) : grants[p][i] \in Nat
    BY DEF TypeOK
  <1>2. timestamps[p] \in Seq(Nat) /\ grants[p] \in Seq(Nat) /\ now \in Nat /\ Window \in Nat
    BY GatewayAssumption DEF TypeOK
  <1>3. ASSUME lock[p] = Nobody,
               NEW i \in 1 .. Len(grants[p]) - Len(timestamps[p])
        PROVE  grants[p][i] + Window <= now'
    <2>1. grants[p][i] + Window <= now  BY <1>3 DEF WindowCounts, Kept
    <2>2. i \in 1 .. Len(grants[p])  BY <1>2
    <2> QED BY <1>1, <1>2, <2>1, <2>2
  <1> QED BY <1>3 DEF WindowCounts, IsTail, Spaced, Kept

(* The counts after a step, from the lists the step leaves.                *)
LEMMA WindowCountsNext ==
  ASSUME NEW p \in Providers, NEW ts, NEW g, timestamps'[p] = ts, grants'[p] = g,
         IsTail(ts, g), Spaced(g, MaxCalls[p], Window),
         lock'[p] = Nobody => Kept(ts, g, MaxCalls[p], Window, now'),
         lock'[p] # Nobody =>
            /\ Len(ts) + 1 = MaxCalls[p]
            /\ \A i \in 1 .. Len(g) - Len(ts) : g[i] + Window + 1 <= wake_at'[lock'[p]]
  PROVE  WindowCounts(p)'
  BY DEF WindowCounts, IsTail, Spaced, Kept

(* Each of the limiter's three steps keeps its counts.                      *)
LEMMA AcquireWindow ==
  ASSUME TypeOK, NEW t \in Threads, Acquire(t),
         NEW p \in Providers, p = provider(t), WindowCounts(p)
  PROVE  WindowCounts(p)'
  <1> DEFINE ts == timestamps[p]
             fresh == prune(ts, now - Window)
             g == grants[p]
             M == MaxCalls[p]
  <1>1. /\ lock[p] = Nobody /\ Len(fresh) < M /\ UNCHANGED <<lock, now>>
        /\ timestamps' = [timestamps EXCEPT ![p] = Append(Fresh(@), now)]
        /\ grants' = [grants EXCEPT ![p] = Append(@, now)]
    BY DEF Acquire, Grant, Fresh
  <1>2. timestamps'[p] = Append(fresh, now) /\ grants'[p] = Append(g, now) /\ lock'[p] = Nobody
    BY <1>1 DEF TypeOK, Fresh
  <1>3. /\ ts \in Seq(Nat) /\ g \in Seq(Nat) /\ M \in Nat /\ Window \in Nat /\ now \in Nat
        /\ Spaced(g, M, Window) /\ Kept(ts, g, M, Window, now)
    BY <1>1, GatewayAssumption DEF TypeOK, WindowCounts
  <1> HIDE DEF ts, g, M
  <1>4. /\ Kept(Append(fresh, now), Append(g, now), M, Window, now)
        /\ Spaced(Append(g, now), M, Window)
    BY <1>1, <1>3, GrantKeeps
  <1>5. IsTail(Append(fresh, now), Append(g, now))
    BY <1>4 DEF Kept
  <1> QED BY <1>1, <1>2, <1>4, <1>5, WindowCountsNext DEF M

LEMMA ThrottleWindow ==
  ASSUME TypeOK, NEW t \in Threads, Throttle(t),
         NEW p \in Providers, p = provider(t), WindowCounts(p)
  PROVE  WindowCounts(p)'
  <1> DEFINE fresh == prune(timestamps[p], now - Window)
             g == grants[p]
             rest == Tail(fresh)
             until == fresh[1] + Window + 1
  <1>1. /\ lock[p] = Nobody /\ Len(fresh) >= MaxCalls[p] /\ MaxCalls[p] > 0
        /\ UNCHANGED <<grants, now>>
        /\ timestamps' = [timestamps EXCEPT ![p] = rest]
        /\ wake_at' = [wake_at EXCEPT ![t] = until]
        /\ lock' = [lock EXCEPT ![p] = t]
    BY DEF Throttle, Fresh
  <1>2. /\ fresh \in Seq(Nat) /\ IsTail(fresh, g) /\ Len(fresh) <= MaxCalls[p]
        /\ \A i \in 1 .. Len(g) - Len(fresh) : g[i] + Window <= now
        /\ Len(fresh) > 0 => fresh[1] + Window > now
    <2>1. /\ timestamps[p] \in Seq(Nat) /\ g \in Seq(Nat) /\ now \in Nat /\ Window \in Nat
          /\ MaxCalls[p] \in Nat /\ Kept(timestamps[p], g, MaxCalls[p], Window, now)
      BY <1>1, GatewayAssumption DEF TypeOK, WindowCounts
    <2>2. /\ fresh \in Seq(Nat) /\ Kept(fresh, g, MaxCalls[p], Window, now)
          /\ Len(fresh) > 0 => fresh[1] + Window > now
      BY <2>1, PruneTail
    <2> QED BY <2>2 DEF Kept
  <1>3. /\ timestamps'[p] = rest /\ grants'[p] = g /\ lock'[p] = t /\ wake_at'[lock'[p]] = until
    BY <1>1 DEF TypeOK
  <1>4. g \in Seq(Nat) /\ MaxCalls[p] \in Nat /\ Window \in Nat /\ now \in Nat /\ Spaced(g, MaxCalls[p], Window)
    BY GatewayAssumption DEF TypeOK, WindowCounts
  <1> HIDE DEF fresh, g
  <1>5. /\ Len(fresh) = MaxCalls[p] /\ Len(fresh) > 0 /\ Len(g) \in Nat /\ Len(fresh) <= Len(g)
        /\ fresh[1] \in Nat /\ Len(fresh) \in Nat
    BY SMTT(30), <1>1, <1>2, <1>4 DEF IsTail
  <1>6. /\ Len(rest) = Len(fresh) - 1
        /\ \A i \in 1 .. Len(fresh) - 1 : rest[i] = fresh[i + 1]
    BY <1>2, <1>5
  <1> HIDE DEF rest
  <1> DEFINE F == Len(fresh)
             L == Len(g)
  <1> HIDE DEF F, L
  <1>7. F \in Nat /\ L \in Nat /\ F <= L /\ F > 0 /\ Len(rest) = F - 1
    BY <1>5, <1>6 DEF F, L
  <1>8. \A i \in 1 .. F : fresh[i] = g[(L - F) + i]
    BY <1>2 DEF IsTail, F, L
  <1>9. IsTail(rest, g)
    <2>1. ASSUME NEW i \in 1 .. F - 1 PROVE rest[i] = g[(L - (F - 1)) + i]
      <3>1. i + 1 \in 1 .. F /\ (L - F) + (i + 1) = (L - (F - 1)) + i  BY <1>7
      <3>2. fresh[i + 1] = g[(L - F) + (i + 1)]  BY <1>8, <3>1
      <3>3. rest[i] = fresh[i + 1]  BY <1>6 DEF F
      <3> QED BY <3>1, <3>2, <3>3
    <2>2. F - 1 <= L  BY <1>7
    <2> QED BY <1>7, <2>1, <2>2 DEF IsTail, L
  <1>10. ASSUME NEW i \in 1 .. L - (F - 1) PROVE g[i] + Window + 1 <= until
    <2>1. i \in 1 .. L /\ g[i] \in Nat  BY <1>4, <1>7, ElementType DEF L
    <2>2. CASE i = (L - F) + 1
      <3>1. g[i] = fresh[1]  BY <1>7, <1>8, <2>2
      <3> QED BY <1>4, <1>5, <3>1
    <2>3. CASE i # (L - F) + 1
      <3>1. i \in 1 .. L - F  BY <1>7, <2>3
      <3>2. g[i] + Window <= now  BY <1>2, <3>1 DEF F, L
      <3>3. fresh[1] + Window > now  BY <1>2, <1>5
      <3> QED BY SMTT(30), <1>4, <1>5, <2>1, <3>2, <3>3
    <2> QED BY <2>2, <2>3
  <1>11. t # Nobody  BY ThreadsAssumption
  <1>12. Len(rest) + 1 = MaxCalls[p]  BY <1>5, <1>6
  <1>13. \A i \in 1 .. Len(g) - Len(rest) : g[i] + Window + 1 <= until
    BY <1>10, <1>7 DEF L
  <1> HIDE DEF until
  <1> QED BY ZenonT(30), <1>1, <1>3, <1>4, <1>5, <1>9, <1>11, <1>12, <1>13, WindowCountsNext

LEMMA WakeWindow ==
  ASSUME TypeOK, LockInv, NEW t \in Threads, Wake(t),
         NEW p \in Providers, p = provider(t), WindowCounts(p)
  PROVE  WindowCounts(p)'
  <1> DEFINE ts == timestamps[p]
             g == grants[p]
             d == Len(g) - Len(ts)
  <1>1. /\ pc[t] = "sleeping" /\ now >= wake_at[t] /\ UNCHANGED now
        /\ timestamps' = [timestamps EXCEPT ![p] = Append(@, now)]
        /\ grants' = [grants EXCEPT ![p] = Append(@, now)]
        /\ lock' = [lock EXCEPT ![p] = Nobody]
    BY DEF Wake, Grant
  <1>2. lock[p] = t /\ t # Nobody  BY <1>1, ThreadsAssumption DEF LockInv
  <1>3. /\ IsTail(ts, g) /\ Len(ts) + 1 = MaxCalls[p] /\ Spaced(g, MaxCalls[p], Window)
        /\ \A i \in 1 .. d : g[i] + Window + 1 <= wake_at[t]
    BY <1>2 DEF WindowCounts
  <1>4. /\ timestamps'[p] = Append(ts, now) /\ grants'[p] = Append(g, now) /\ lock'[p] = Nobody
    BY <1>1 DEF TypeOK
  <1>5. /\ g \in Seq(Nat) /\ ts \in Seq(Nat) /\ MaxCalls[p] \in Nat /\ Window \in Nat
        /\ now \in Nat /\ wake_at[t] \in Int
    BY GatewayAssumption DEF TypeOK
  <1> HIDE DEF ts, g
  <1>6. /\ d \in Nat /\ d <= Len(g) /\ Len(g) - d < MaxCalls[p] /\ MaxCalls[p] \in Nat \ {0}
        /\ Len(ts) \in Nat
    BY <1>3, <1>5 DEF IsTail
  <1>7. ASSUME NEW i \in 1 .. d PROVE g[i] + Window <= now
    <2>1. g[i] \in Nat  BY <1>5, <1>6, ElementType
    <2>2. g[i] + Window + 1 <= wake_at[t]  BY <1>3
    <2> QED BY SMTT(30), <1>1, <1>5, <2>1, <2>2
  <1>8. Spaced(Append(g, now), MaxCalls[p], Window)
    BY <1>3, <1>5, <1>6, <1>7, SpacedAppend
  <1>9. IsTail(Append(ts, now), Append(g, now))
    BY <1>3, <1>5, TailAppend
  <1>10. /\ Len(Append(ts, now)) = Len(ts) + 1 /\ Len(Append(g, now)) = Len(g) + 1
         /\ \A i \in 1 .. d : Append(g, now)[i] = g[i]
    BY <1>5, <1>6
  <1>11. \A i \in 1 .. (Len(g) + 1) - (Len(ts) + 1) : Append(g, now)[i] + Window <= now
    <2>1. (Len(g) + 1) - (Len(ts) + 1) = d  BY <1>5, <1>6
    <2> QED BY <1>7, <1>10, <2>1
  <1>12. Len(ts) + 1 <= MaxCalls[p]
    BY <1>3, <1>5, <1>6
  <1>13. Kept(Append(ts, now), Append(g, now), MaxCalls[p], Window, now)
    BY <1>9, <1>10, <1>11, <1>12 DEF Kept
  <1> QED BY <1>1, <1>4, <1>8, <1>9, <1>13, WindowCountsNext

LEMMA WindowStep == TypeOK /\ LockInv /\ WindowInv /\ [Next]_vars => WindowInv'
  <1> SUFFICES ASSUME TypeOK, LockInv, WindowInv, [Next]_vars, NEW p \in Providers
               PROVE  WindowCounts(p)'
    BY DEF WindowInv
  <1>1. WindowCounts(p) /\ now' >= now /\ now' \in Nat
    BY ClockRuns DEF WindowInv
  <1>2. CASE UNCHANGED <<limiterVars, wake_at>>
    BY <1>1, <1>2, WindowUntouched DEF limiterVars
  <1>3. ASSUME NEW t \in Threads, Acquire(t) \/ Throttle(t) \/ Wake(t) PROVE WindowCounts(p)'
    <2>1. CASE provider(t) = p
      BY <1>1, <1>3, <2>1, AcquireWindow, ThrottleWindow, WakeWindow
    <2>2. CASE provider(t) # p
      <3>1. UNCHANGED <<timestamps[p], grants[p], lock[p]>>
        BY <1>3, <2>2 DEF Acquire, Throttle, Wake, Grant, TypeOK
      <3>2. lock[p] # t  BY <2>2 DEF LockInv
      <3>3. lock[p] # Nobody => wake_at'[lock[p]] = wake_at[lock[p]]
        BY <1>3, <3>2 DEF Acquire, Throttle, Wake, TypeOK
      <3> QED BY <1>1, <3>1, <3>3, WindowUntouched
    <2> QED BY <2>1, <2>2
  <1>4. \/ UNCHANGED <<limiterVars, wake_at>>
        \/ \E t \in Threads : Acquire(t) \/ Throttle(t) \/ Wake(t)
    BY DEF Next, ThreadStep, Tick, Call, CheckBreaker, CannotCall, CallSucceeds, CallFails,
           Leave, vars
  <1> QED BY <1>2, <1>3, <1>4

LEMMA WindowStart == Init => LockInv /\ WindowInv
  <1> SUFFICES ASSUME Init PROVE LockInv /\ WindowInv
    OBVIOUS
  <1>1. LockInv  BY ThreadsAssumption DEF Init, LockInv
  <1>2. \A p \in Providers : WindowCounts(p)
    <2> TAKE p \in Providers
    <2>1. timestamps[p] = <<>> /\ grants[p] = <<>> /\ lock[p] = Nobody /\ MaxCalls[p] \in Nat
      BY GatewayAssumption DEF Init
    <2> QED BY <2>1 DEF WindowCounts, IsTail, Spaced, Kept
  <1> QED BY <1>1, <1>2 DEF WindowInv

(* _SlidingWindowRateLimiter.acquire: at most max_calls grants in any       *)
(* window, for every number of threads, rate and window.                    *)
THEOREM WindowIsBounded == Spec => []WindowBound
  <1>1. WindowInv => WindowBound
    BY DEF WindowInv, WindowCounts, Spaced, WindowBound
  <1> QED BY <1>1, WindowStart, LockStep, WindowStep, GatewayTypeCorrect, PTL DEF Spec

-----------------------------------------------------------------------------
(* The refinement of WindowBudget.                                          *)

(* A grant at once: the pruned list has room.                               *)
LEMMA AcquireSpends ==
  ASSUME TypeOK, WindowInv, NEW t \in Threads, Acquire(t)
  PROVE  \E p \in Providers : Budget!Grant(p)
  <1> DEFINE p == provider(t)
             ts == timestamps[p]
             g == grants[p]
  <1>1. p \in Providers
    BY ProviderType DEF Acquire, InFlight
  <1>2. /\ lock[p] = Nobody /\ Len(prune(ts, now - Window)) < MaxCalls[p]
        /\ grants' = [grants EXCEPT ![p] = Append(@, now)] /\ UNCHANGED now
    BY DEF Acquire, Grant, Fresh
  <1>3. /\ ts \in Seq(Nat) /\ g \in Seq(Nat) /\ now \in Nat /\ Window \in Nat /\ MaxCalls[p] \in Nat
        /\ Kept(ts, g, MaxCalls[p], Window, now)
    BY <1>1, <1>2, GatewayAssumption DEF TypeOK, WindowInv, WindowCounts
  <1>4. Cardinality(InWindow(g, now, Window)) < MaxCalls[p]
    <2> HIDE DEF p, ts, g
    <2> QED BY <1>2, <1>3, RoomInWindow
  <1>5. Budget!Spent(p) = Cardinality(InWindow(g, now, Window))
    BY DEF Budget!Spent, Budget!InWindow, InWindow, Budget!Cardinality, Cardinality
  <1> QED BY <1>1, <1>2, <1>4, <1>5 DEF Budget!Grant

(* A grant after the sleep: the grant the sleeper dropped from the list has *)
(* left the window, and so have those before it.                            *)
LEMMA WakeSpends ==
  ASSUME TypeOK, LockInv, WindowInv, NEW t \in Threads, Wake(t)
  PROVE  \E p \in Providers : Budget!Grant(p)
  <1> DEFINE p == provider(t)
             ts == timestamps[p]
             g == grants[p]
             d == Len(g) - Len(ts)
             n == Cardinality(InWindow(g, now, Window))
  <1>1. p \in Providers
    BY ProviderType DEF Wake, InFlight
  <1>2. /\ lock[p] = t /\ t # Nobody /\ now >= wake_at[t]
        /\ grants' = [grants EXCEPT ![p] = Append(@, now)] /\ UNCHANGED now
    BY ThreadsAssumption DEF Wake, Grant, LockInv
  <1>3. /\ IsTail(ts, g) /\ Len(ts) + 1 = MaxCalls[p]
        /\ \A i \in 1 .. d : g[i] + Window + 1 <= wake_at[t]
    BY <1>1, <1>2 DEF WindowInv, WindowCounts
  <1>4. /\ g \in Seq(Nat) /\ ts \in Seq(Nat) /\ MaxCalls[p] \in Nat /\ Window \in Nat
        /\ now \in Nat /\ wake_at[t] \in Int
    BY <1>1, GatewayAssumption DEF TypeOK
  <1> HIDE DEF p, ts, g
  <1>5. d \in Nat /\ d <= Len(g) /\ Len(ts) \in Nat /\ Len(g) \in Nat
    BY <1>3, <1>4 DEF IsTail
  <1>6. ASSUME NEW i \in 1 .. d PROVE g[i] + Window <= now
    <2>1. g[i] \in Nat  BY <1>4, <1>5, ElementType
    <2>2. g[i] + Window + 1 <= wake_at[t]  BY <1>3
    <2> QED BY SMTT(30), <1>2, <1>4, <2>1, <2>2
  <1>7. n \in Nat /\ n <= Len(g) - d
    <2> HIDE DEF d
    <2> QED BY <1>4, <1>5, <1>6, OthersCount
  <1> HIDE DEF n
  <1>8. n < MaxCalls[p]
    BY <1>3, <1>4, <1>5, <1>7
  <1>9. Budget!Spent(p) = n
    BY DEF n, g, Budget!Spent, Budget!InWindow, InWindow, Budget!Cardinality, Cardinality
  <1> QED BY <1>1, <1>2, <1>8, <1>9 DEF Budget!Grant

LEMMA BudgetStep ==
  TypeOK /\ LockInv /\ WindowInv /\ [Next]_vars => [Budget!Next]_<<now, grants>>
  <1> SUFFICES ASSUME TypeOK, LockInv, WindowInv, [Next]_vars
               PROVE  [Budget!Next]_<<now, grants>>
    OBVIOUS
  <1>1. CASE Tick
    BY <1>1 DEF Tick, limiterVars, Budget!Next, Budget!Advance
  <1>2. ASSUME NEW t \in Threads, Acquire(t) \/ Wake(t) PROVE Budget!Next
    BY <1>2, AcquireSpends, WakeSpends DEF Budget!Next
  <1>3. UNCHANGED <<now, grants>> \/ Tick \/ \E t \in Threads : Acquire(t) \/ Wake(t)
    BY ZenonT(30) DEF Next, ThreadStep, vars, limiterVars, Call, CheckBreaker, CannotCall, Throttle,
                      CallSucceeds, CallFails, Leave
  <1> QED BY <1>1, <1>2, <1>3

(* _SlidingWindowRateLimiter implements the budget: no thread is let        *)
(* through with the limit spent, not even the one that slept for its turn.  *)
THEOREM BudgetsAreKept == Spec => KeepsBudgets
  <1>1. Init => Budget!Init
    BY DEF Init, Budget!Init, Budget!None
  <1> QED BY <1>1, WindowStart, LockStep, WindowStep, BudgetStep, GatewayTypeCorrect, PTL
          DEF Spec, KeepsBudgets, Budget!Spec
=============================================================================
