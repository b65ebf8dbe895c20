-------------------------- MODULE TicketApiProofs --------------------------
(***************************************************************************)
(* Proofs about ticket submission, for every number of handler threads,    *)
(* tenants, keys, tickets, failures and restarts.                          *)
(***************************************************************************)
EXTENDS TicketApi, SlidingWindowProofs, FiniteSetTheorems

-----------------------------------------------------------------------------
(* Type correctness.                                                        *)

LEMMA FreshTimes ==
  ASSUME TypeOK, NEW c \in Clients
  PROVE  fresh(c) \in Seq(Nat)
  <1>1. timestamps[c] \in Seq(Nat) /\ now - Window \in Int
    BY ApiAssumption DEF TypeOK
  <1> QED BY <1>1, PruneFacts DEF fresh

(* A handler that waits for a run waits for one that has begun.             *)
RunsKnown == \A h \in Handlers : pc[h] \in {"run", "put"} => run[h] \in DOMAIN runs

(* A run marked dispatched or finished is still a run.                      *)
LEMMA RunsType ==
  ASSUME TypeOK, NEW r \in DOMAIN runs
  PROVE  /\ [runs EXCEPT ![r].dispatched = TRUE] \in Seq(Runs)
         /\ \A st \in {"running", "done", "raised", "lost"} :
               [runs EXCEPT ![r].status = st] \in Seq(Runs)
  <1>1. runs \in Seq(Runs) /\ runs[r] \in Runs
    BY ElementType DEF TypeOK
  <1>2. /\ [runs[r] EXCEPT !.dispatched = TRUE] \in Runs
        /\ \A st \in {"running", "done", "raised", "lost"} : [runs[r] EXCEPT !.status = st] \in Runs
    BY <1>1 DEF Runs
  <1>3. \A x \in Runs : [runs EXCEPT ![r] = x] \in Seq(Runs)
    BY <1>1
  <1> QED BY <1>2, <1>3

LEMMA RestartRuns ==
  ASSUME TypeOK
  PROVE  [r \in DOMAIN runs |-> [runs[r] EXCEPT !.status = IF @ = "running" THEN "lost" ELSE @]]
            \in Seq(Runs)
  <1> DEFINE lost(r) == [runs[r] EXCEPT !.status = IF @ = "running" THEN "lost" ELSE @]
  <1>1. \A r \in DOMAIN runs : lost(r) \in Runs
    <2> TAKE r \in DOMAIN runs
    <2>1. runs[r] \in Runs  BY ElementType DEF TypeOK
    <2> QED BY <2>1 DEF Runs
  <1>2. DOMAIN runs = 1 .. Len(runs) /\ Len(runs) \in Nat
    BY DEF TypeOK
  <1> HIDE DEF lost
  <1>3. [r \in 1 .. Len(runs) |-> lost(r)] \in Seq(Runs)
    BY <1>1, <1>2
  <1> QED BY <1>2, <1>3 DEF lost

LEMMA TypeStep == TypeOK /\ RunsKnown /\ [Next]_vars => TypeOK'
  <1> SUFFICES ASSUME TypeOK, RunsKnown, [Next]_vars PROVE TypeOK'
    OBVIOUS
  <1> USE DEF requestVars
  <1>1. CASE UNCHANGED vars
    BY <1>1 DEF vars, TypeOK
  <1>2. CASE Tick
    BY <1>2 DEF Tick, TypeOK
  <1>3. CASE Restart
    <2>1. runs' \in Seq(Runs)
      BY <1>3, RestartRuns DEF Restart
    <2>2. restarts' \in Nat
      BY <1>3 DEF Restart, TypeOK
    <2> QED BY <1>3, <2>1, <2>2 DEF Restart, TypeOK, AllIdle, NoRuns, EmptyStore, NoTimes, NoRun
  <1>4. ASSUME NEW h \in Handlers, Receive(h) PROVE TypeOK'
    <2>1. reply' \in [Handlers -> Replies]
      BY <1>4 DEF Receive, TypeOK, NoReply, Reply, Replies, NoRun
    <2>2. arrived_stored' \in [Handlers -> BOOLEAN] /\ key' \in [Handlers -> Keys] /\ ticket' \in [Handlers -> Tickets]
      <3>1. \A c, t : Stored(c, t) \in BOOLEAN  BY DEF Stored
      <3> QED BY <1>4, <3>1 DEF Receive, TypeOK
    <2> QED BY <1>4, <2>1, <2>2 DEF Receive, TypeOK
  <1>5. ASSUME NEW h \in Handlers, Authenticate(h) PROVE TypeOK'
    <2>1. CASE key[h] \in DOMAIN ApiKeys
      <3>1. ApiKeys[key[h]] \in Clients  BY <2>1, ApiAssumption
      <3>2. client' = [client EXCEPT ![h] = ApiKeys[key[h]]] /\ pc' = [pc EXCEPT ![h] = "get"]
            /\ UNCHANGED <<now, key, ticket, arrived_stored, run, reply, store, timestamps, sent, restarts, runs, grants>>
        BY <1>5, <2>1 DEF Authenticate
      <3> QED BY <3>1, <3>2 DEF TypeOK
    <2>2. CASE key[h] \notin DOMAIN ApiKeys
      <3>1. reply' \in [Handlers -> Replies] /\ pc' = [pc EXCEPT ![h] = "idle"]
        <4>1. Answer(h, 401, NoRun, FALSE)  BY <1>5, <2>2 DEF Authenticate
        <4> QED BY <4>1 DEF Answer, Reply, Replies, NoRun, TypeOK
      <3> QED BY <1>5, <2>2, <3>1 DEF Authenticate, TypeOK
    <2> QED BY <2>1, <2>2
  <1>6. ASSUME NEW h \in Handlers, Get(h) PROVE TypeOK'
    <2> DEFINE r == cached(client[h], ticket[h])
    <2>1. r \in Nat
      BY <1>6 DEF Get, cached, TypeOK
    <2>2. CASE r # NoRun
      <3>1. reply' \in [Handlers -> Replies] /\ pc' = [pc EXCEPT ![h] = "idle"]
        <4>1. Answer(h, 200, r, TRUE)  BY <1>6, <2>2 DEF Get
        <4> HIDE DEF r
        <4> QED BY <2>1, <4>1 DEF Answer, Reply, Replies, TypeOK
      <3> QED BY <1>6, <3>1 DEF Get, TypeOK
    <2>3. CASE r = NoRun
      BY <1>6, <2>3 DEF Get, TypeOK
    <2> QED BY <2>2, <2>3
  <1>7. ASSUME NEW h \in Handlers, RateLimited(h) PROVE TypeOK'
    <2>1. client[h] \in Clients  BY <1>7 DEF RateLimited, TypeOK
    <2>2. reply' \in [Handlers -> Replies] /\ pc' = [pc EXCEPT ![h] = "idle"]
      <3>1. Answer(h, 429, NoRun, FALSE)  BY <1>7 DEF RateLimited
      <3> QED BY <3>1 DEF Answer, Reply, Replies, NoRun, TypeOK
    <2> QED BY <1>7, <2>1, <2>2, FreshTimes DEF RateLimited, TypeOK
  <1>8. ASSUME NEW h \in Handlers, Allowed(h) PROVE TypeOK'
    <2> DEFINE new == [client |-> client[h], ticket |-> ticket[h], dispatched |-> FALSE, status |-> "running"]
    <2>1. client[h] \in Clients  BY <1>8 DEF Allowed, TypeOK
    <2>2. new \in Runs  BY <2>1 DEF Runs, TypeOK
    <2>3. runs' \in Seq(Runs)
      <3>1. runs' = Append(runs, new)  BY <1>8 DEF Allowed
      <3> HIDE DEF new
      <3> QED BY <2>2, <3>1 DEF TypeOK
    <2>4. Append(fresh(client[h]), now) \in Seq(Nat) /\ Append(grants[client[h]], now) \in Seq(Nat)
      BY <2>1, FreshTimes DEF TypeOK
    <2>5. timestamps' \in [Clients -> Seq(Nat)] /\ grants' \in [Clients -> Seq(Nat)]
      BY <1>8, <2>1, <2>4 DEF Allowed, TypeOK
    <2>6. run' \in [Handlers -> Nat]
      <3>1. Len(runs) + 1 \in Nat  BY DEF TypeOK
      <3> QED BY <1>8, <3>1 DEF Allowed, TypeOK
    <2>7. /\ pc' = [pc EXCEPT ![h] = "run"] /\ pc[h] = "allow"
          /\ UNCHANGED <<now, key, client, ticket, arrived_stored, reply, store, sent, restarts>>
      BY <1>8 DEF Allowed
    <2> HIDE DEF new
    <2> QED BY <2>1, <2>3, <2>5, <2>6, <2>7 DEF TypeOK
  <1>9. ASSUME NEW h \in Handlers, Dispatch(h) PROVE TypeOK'
    <2>1. runs' \in Seq(Runs)
      BY <1>9, RunsType DEF Dispatch, RunsKnown
    <2> QED BY <1>9, <2>1 DEF Dispatch, TypeOK
  <1>10. ASSUME NEW h \in Handlers, RunReturns(h) PROVE TypeOK'
    <2>1. runs' \in Seq(Runs)
      BY <1>10, RunsType DEF RunReturns, RunsKnown
    <2> QED BY <1>10, <2>1 DEF RunReturns, TypeOK
  <1>11. ASSUME NEW h \in Handlers, RunRaises(h) PROVE TypeOK'
    <2>1. runs' \in Seq(Runs)
      BY <1>11, RunsType DEF RunRaises, RunsKnown
    <2>2. reply' \in [Handlers -> Replies] /\ pc' = [pc EXCEPT ![h] = "idle"]
      <3>1. Answer(h, 502, NoRun, FALSE)  BY <1>11 DEF RunRaises
      <3> QED BY <3>1 DEF Answer, Reply, Replies, NoRun, TypeOK
    <2> QED BY <1>11, <2>1, <2>2 DEF RunRaises, TypeOK, NoRun
  <1>12. ASSUME NEW h \in Handlers, Put(h) PROVE TypeOK'
    <2>1. client[h] \in Clients /\ ticket[h] \in Tickets /\ run[h] \in Nat
      BY <1>12 DEF Put, TypeOK
    <2>2. reply' \in [Handlers -> Replies] /\ pc' = [pc EXCEPT ![h] = "idle"]
      <3>1. Answer(h, 200, run[h], FALSE)  BY <1>12 DEF Put
      <3> QED BY <2>1, <3>1 DEF Answer, Reply, Replies, TypeOK
    <2>3. store' \in [Clients \X Tickets -> Nat]
      BY <1>12, <2>1 DEF Put, TypeOK
    <2> QED BY <1>12, <2>1, <2>2, <2>3 DEF Put, TypeOK, NoRun
  <1> QED BY <1>1, <1>2, <1>3, <1>4, <1>5, <1>6, <1>7, <1>8, <1>9, <1>10, <1>11, <1>12 DEF Next

-----------------------------------------------------------------------------
(* Handlers and their runs.                                                 *)

Step(h) ==
    \/ Receive(h) \/ Authenticate(h) \/ Get(h) \/ RateLimited(h) \/ Allowed(h)
    \/ Dispatch(h) \/ RunReturns(h) \/ RunRaises(h) \/ Put(h)

(* A handler's step leaves the requests of the others alone.                *)
LEMMA OthersStay ==
  ASSUME TypeOK, NEW h \in Handlers, Step(h), NEW g \in Handlers \ {h}
  PROVE  UNCHANGED <<pc[g], key[g], client[g], ticket[g], arrived_stored[g], run[g], reply[g]>>
  <1> USE DEF TypeOK, requestVars
  <1>1. CASE Receive(h)  BY <1>1 DEF Receive
  <1>2. CASE Authenticate(h)  BY ZenonT(30), <1>2 DEF Authenticate, Answer
  <1>3. CASE Get(h)  BY <1>3 DEF Get, Answer
  <1>4. CASE RateLimited(h)  BY <1>4 DEF RateLimited, Answer
  <1>5. CASE Allowed(h)  BY <1>5 DEF Allowed
  <1>6. CASE Dispatch(h)  BY <1>6 DEF Dispatch
  <1>7. CASE RunReturns(h)  BY <1>7 DEF RunReturns
  <1>8. CASE RunRaises(h)  BY <1>8 DEF RunRaises, Answer
  <1>9. CASE Put(h)  BY <1>9 DEF Put, Answer
  <1> QED BY <1>1, <1>2, <1>3, <1>4, <1>5, <1>6, <1>7, <1>8, <1>9 DEF Step

Working(h) == pc[h] \in {"get", "allow", "run", "put"}
ClientInv == \A h \in Handlers : Working(h) => client[h] = ClientOf(key[h])

IsRunIn(rs, r, c, t, st) ==
    /\ r \in DOMAIN rs
    /\ rs[r].client = c /\ rs[r].ticket = t /\ rs[r].status = st

(* A handler has a run of its own that works on its ticket and ends when    *)
(* the handler leaves it.                                                   *)
RunInv ==
    /\ \A h \in Handlers : pc[h] = "run" => IsRunIn(runs, run[h], client[h], ticket[h], "running")
    /\ \A h \in Handlers : pc[h] = "put" => IsRunIn(runs, run[h], client[h], ticket[h], "done")
    /\ \A h, k \in Handlers : pc[h] = "run" /\ pc[k] = "run" /\ run[h] = run[k] => h = k

LEMMA RunInvKnown == RunInv => RunsKnown
  BY DEF RunInv, RunsKnown, IsRunIn

LEMMA ClientStep == TypeOK /\ ClientInv /\ [Next]_vars => ClientInv'
  <1> SUFFICES ASSUME TypeOK, ClientInv, [Next]_vars, NEW h \in Handlers, Working(h)'
               PROVE  client'[h] = ClientOf(key'[h])
    BY DEF ClientInv, ClientOf
  <1>1. CASE UNCHANGED vars \/ Tick
    BY <1>1 DEF vars, Tick, requestVars, ClientInv, Working, ClientOf
  <1>2. CASE Restart
    BY <1>2 DEF Restart, AllIdle, Working
  <1>3. ASSUME NEW k \in Handlers, Receive(k) PROVE client'[h] = ClientOf(key'[h])
    BY <1>3 DEF Receive, TypeOK, ClientInv, Working, ClientOf
  <1>4. ASSUME NEW k \in Handlers, Authenticate(k) PROVE client'[h] = ClientOf(key'[h])
    <2>1. CASE key[k] \in DOMAIN ApiKeys
      <3>1. client' = [client EXCEPT ![k] = ApiKeys[key[k]]] /\ pc' = [pc EXCEPT ![k] = "get"] /\ UNCHANGED key
        BY <1>4, <2>1 DEF Authenticate
      <3> QED BY <2>1, <3>1 DEF TypeOK, ClientInv, Working, ClientOf
    <2>2. CASE key[k] \notin DOMAIN ApiKeys
      <3>1. pc' = [pc EXCEPT ![k] = "idle"] /\ UNCHANGED <<client, key>>
        BY <1>4, <2>2 DEF Authenticate, Answer
      <3> QED BY <3>1 DEF TypeOK, ClientInv, Working, ClientOf
    <2> QED BY <2>1, <2>2
  <1>5. ASSUME NEW k \in Handlers,
               \/ Get(k) \/ RateLimited(k) \/ Allowed(k) \/ Dispatch(k)
               \/ RunReturns(k) \/ RunRaises(k) \/ Put(k)
        PROVE  client'[h] = ClientOf(key'[h])
    <2>1. UNCHANGED <<client, key>> /\ (Working(h)' => Working(h))
      BY <1>5 DEF Get, RateLimited, Allowed, Dispatch, RunReturns, RunRaises, Put, Answer,
                  requestVars, TypeOK, Working
    <2> QED BY <2>1 DEF ClientInv, ClientOf
  <1> QED BY <1>1, <1>2, <1>3, <1>4, <1>5 DEF Next

(* A run that has ended stays as it is, and no run changes hands.           *)
LEMMA RunsStay ==
  ASSUME TypeOK, RunInv, [Next]_vars, NEW r \in DOMAIN runs
  PROVE  /\ r \in DOMAIN runs'
         /\ runs'[r].client = runs[r].client /\ runs'[r].ticket = runs[r].ticket
         /\ runs[r].status # "running" => runs'[r].status = runs[r].status
  <1> DEFINE Goal == /\ r \in DOMAIN runs'
                     /\ runs'[r].client = runs[r].client /\ runs'[r].ticket = runs[r].ticket
                     /\ runs[r].status # "running" => runs'[r].status = runs[r].status
  <1>1. runs[r] \in Runs /\ runs \in Seq(Runs)
    BY ElementType DEF TypeOK
  <1>2. CASE UNCHANGED runs
    BY <1>2
  <1>3. CASE Restart
    BY <1>1, <1>3 DEF Restart, Runs
  <1>4. ASSUME NEW h \in Handlers, Allowed(h) PROVE Goal
    <2>1. PICK x : runs' = Append(runs, x)  BY <1>4 DEF Allowed
    <2>2. r \in DOMAIN runs' /\ runs'[r] = runs[r]  BY <1>1, <2>1
    <2> QED BY <2>2
  <1>5. ASSUME NEW h \in Handlers, Dispatch(h) PROVE Goal
    BY <1>1, <1>5 DEF Dispatch, Runs
  <1>6. ASSUME NEW h \in Handlers, RunReturns(h) \/ RunRaises(h) PROVE Goal
    <2>1. run[h] \in DOMAIN runs /\ runs[run[h]].status = "running"
      BY <1>6 DEF RunReturns, RunRaises, RunInv, IsRunIn
    <2>2. PICK st \in {"done", "raised"} : runs' = [runs EXCEPT ![run[h]].status = st]
      BY <1>6 DEF RunReturns, RunRaises
    <2> QED BY <1>1, <2>1, <2>2 DEF Runs
  <1>7. \/ UNCHANGED runs \/ Restart
        \/ \E h \in Handlers : Allowed(h) \/ Dispatch(h) \/ RunReturns(h) \/ RunRaises(h)
    BY DEF Next, vars, Tick, Receive, Authenticate, Get, RateLimited, Put
  <1> QED BY <1>2, <1>3, <1>4, <1>5, <1>6, <1>7

LEMMA RunStep == TypeOK /\ RunInv /\ [Next]_vars => RunInv'
  <1> SUFFICES ASSUME TypeOK, RunInv, [Next]_vars PROVE RunInv'
    OBVIOUS
  <1> USE DEF requestVars
  <1>1. CASE UNCHANGED vars \/ Tick
    BY <1>1 DEF vars, Tick, RunInv, IsRunIn
  <1>2. CASE Restart
    BY <1>2 DEF Restart, AllIdle, RunInv
  <1>3. ASSUME NEW h \in Handlers,
               Receive(h) \/ Authenticate(h) \/ Get(h) \/ RateLimited(h) \/ Put(h)
        PROVE  RunInv'
    <2>1. /\ UNCHANGED runs /\ pc'[h] \notin {"run", "put"}
          /\ \A k \in Handlers \ {h} : UNCHANGED <<pc[k], run[k], client[k], ticket[k]>>
      <3>1. \A k \in Handlers \ {h} : UNCHANGED <<pc[k], run[k], client[k], ticket[k]>>
        BY <1>3, OthersStay DEF Step
      <3>2. pc \in [Handlers -> {"idle", "authenticate", "get", "allow", "run", "put"}]
        BY DEF TypeOK
      <3>3. UNCHANGED runs /\ pc'[h] \notin {"run", "put"}
        <4>1. CASE Receive(h)  BY <3>2, <4>1 DEF Receive
        <4>2. CASE Authenticate(h)  BY ZenonT(30), <3>2, <4>2 DEF Authenticate, Answer
        <4>3. CASE Get(h)  BY <3>2, <4>3 DEF Get, Answer
        <4>4. CASE RateLimited(h)  BY <3>2, <4>4 DEF RateLimited, Answer
        <4>5. CASE Put(h)  BY <3>2, <4>5 DEF Put, Answer
        <4> QED BY <1>3, <4>1, <4>2, <4>3, <4>4, <4>5
      <3> QED BY <3>1, <3>3
    <2> QED BY <2>1 DEF RunInv, IsRunIn
  <1>4. ASSUME NEW h \in Handlers, Allowed(h) PROVE RunInv'
    <2>0. PICK n, x : /\ n = Len(runs) + 1
                      /\ x = [client |-> client[h], ticket |-> ticket[h],
                              dispatched |-> FALSE, status |-> "running"]
      OBVIOUS
    <2>1. /\ runs' = Append(runs, x) /\ run' = [run EXCEPT ![h] = n]
          /\ pc' = [pc EXCEPT ![h] = "run"] /\ UNCHANGED <<client, ticket>>
      BY <1>4, <2>0 DEF Allowed
    <2>2. n \in DOMAIN runs' /\ runs'[n] = x /\ \A r \in DOMAIN runs : r \in DOMAIN runs' /\ runs'[r] = runs[r]
      BY <2>0, <2>1 DEF TypeOK
    <2>3. \A k \in Handlers : pc[k] \in {"run", "put"} => run[k] # n /\ run[k] \in DOMAIN runs
      BY <2>0 DEF RunInv, IsRunIn, TypeOK
    <2>4. IsRunIn(runs', n, client[h], ticket[h], "running")
      BY <2>0, <2>1, <2>2 DEF IsRunIn
    <2>5. /\ pc'[h] = "run" /\ run'[h] = n
          /\ \A k \in Handlers \ {h} : UNCHANGED <<pc[k], run[k]>>
      BY <2>1 DEF TypeOK
    <2> QED BY <2>1, <2>2, <2>3, <2>4, <2>5 DEF RunInv, IsRunIn
  <1>5. ASSUME NEW h \in Handlers, Dispatch(h) PROVE RunInv'
    <2>1. /\ UNCHANGED <<pc, run, client, ticket>> /\ run[h] \in DOMAIN runs
          /\ runs' = [runs EXCEPT ![run[h]].dispatched = TRUE]
      BY <1>5 DEF Dispatch, RunInv, IsRunIn
    <2>2. \A r \in DOMAIN runs : runs[r] \in Runs
      BY ElementType DEF TypeOK
    <2>3. /\ DOMAIN runs' = DOMAIN runs
          /\ \A r \in DOMAIN runs : /\ runs'[r].client = runs[r].client
                                    /\ runs'[r].ticket = runs[r].ticket
                                    /\ runs'[r].status = runs[r].status
      BY <2>1, <2>2 DEF Runs
    <2> QED BY <2>1, <2>3 DEF RunInv, IsRunIn
  <1>6. ASSUME NEW h \in Handlers, NEW st \in {"done", "raised"}, NEW at \in {"put", "idle"},
               st = "raised" => at = "idle",
               pc[h] = "run", runs' = [runs EXCEPT ![run[h]].status = st],
               pc' = [pc EXCEPT ![h] = at], UNCHANGED <<client, ticket>>,
               \A k \in Handlers \ {h} : run'[k] = run[k],
               at = "put" => run'[h] = run[h]
        PROVE  RunInv'
    <2>1. run[h] \in DOMAIN runs /\ IsRunIn(runs, run[h], client[h], ticket[h], "running")
      BY <1>6 DEF RunInv, IsRunIn
    <2>2. \A r \in DOMAIN runs : runs[r] \in Runs
      BY ElementType DEF TypeOK
    <2>3. /\ DOMAIN runs' = DOMAIN runs
          /\ \A r \in DOMAIN runs : /\ runs'[r].client = runs[r].client
                                    /\ runs'[r].ticket = runs[r].ticket
                                    /\ r # run[h] => runs'[r].status = runs[r].status
          /\ runs'[run[h]].status = st
      BY <1>6, <2>1, <2>2 DEF Runs
    <2>4. \A k \in Handlers \ {h} : pc[k] \in {"run", "put"} => run[k] # run[h]
      BY <1>6, <2>1 DEF RunInv, IsRunIn
    <2>5. pc'[h] = at /\ \A k \in Handlers \ {h} : pc'[k] = pc[k]
      BY <1>6 DEF TypeOK
    <2> QED BY <1>6, <2>1, <2>3, <2>4, <2>5 DEF RunInv, IsRunIn
  <1>7. ASSUME NEW h \in Handlers, RunReturns(h) PROVE RunInv'
    BY <1>6, <1>7 DEF RunReturns
  <1>8. ASSUME NEW h \in Handlers, RunRaises(h) PROVE RunInv'
    <2>1. \A k \in Handlers \ {h} : run'[k] = run[k]
      BY <1>8 DEF RunRaises, TypeOK
    <2> QED BY <1>6, <1>8, <2>1 DEF RunRaises, Answer
  <1> QED BY <1>1, <1>2, <1>3, <1>4, <1>5, <1>7, <1>8 DEF Next

(* A request that is being handled has not been answered.                   *)
UnansweredInv == \A h \in Handlers : pc[h] # "idle" => reply[h].code # 200

LEMMA UnansweredStep == TypeOK /\ UnansweredInv /\ [Next]_vars => UnansweredInv'
  <1> SUFFICES ASSUME TypeOK, UnansweredInv, [Next]_vars, NEW h \in Handlers, pc'[h] # "idle"
               PROVE  reply'[h].code # 200
    BY DEF UnansweredInv
  <1>1. CASE UNCHANGED vars \/ Tick
    BY <1>1 DEF vars, Tick, UnansweredInv
  <1>2. CASE Restart
    BY <1>2 DEF Restart, AllIdle
  <1>3. ASSUME NEW k \in Handlers, Receive(k) PROVE reply'[h].code # 200
    <2>1. NoReply.code # 200  BY DEF NoReply, Reply
    <2> QED BY <1>3, <2>1 DEF Receive, TypeOK, UnansweredInv
  <1>4. ASSUME NEW k \in Handlers,
               \/ Authenticate(k) \/ Get(k) \/ RateLimited(k) \/ Allowed(k)
               \/ Dispatch(k) \/ RunReturns(k) \/ RunRaises(k) \/ Put(k)
        PROVE  reply'[h].code # 200
    <2>1. \A g \in Handlers \ {k} : UNCHANGED <<pc[g], reply[g]>>
      BY <1>4, OthersStay DEF Step
    <2>2. CASE h # k
      BY <2>1, <2>2 DEF UnansweredInv
    <2>3. CASE h = k /\ (RateLimited(h) \/ RunRaises(h) \/ Put(h))
      <3>1. pc' = [pc EXCEPT ![h] = "idle"]
        BY <2>3 DEF RateLimited, RunRaises, Put, Answer
      <3> QED BY <3>1 DEF TypeOK
    <2>4. CASE h = k /\ (Allowed(h) \/ Dispatch(h) \/ RunReturns(h))
      BY <2>4 DEF Allowed, Dispatch, RunReturns, TypeOK, UnansweredInv
    <2>5. CASE h = k /\ (Authenticate(h) \/ Get(h))
      <3>1. UNCHANGED reply /\ pc[h] # "idle"
        BY <2>5 DEF Authenticate, Get, Answer, TypeOK
      <3> QED BY <3>1 DEF UnansweredInv
    <2> QED BY <1>4, <2>2, <2>3, <2>4, <2>5
  <1> QED BY <1>1, <1>2, <1>3, <1>4 DEF Next

ApiInv == TypeOK /\ ClientInv /\ RunInv /\ UnansweredInv

LEMMA ApiInvHolds == Spec => []ApiInv
  <1>1. Init => ApiInv
    <2> SUFFICES ASSUME Init PROVE ApiInv
      OBVIOUS
    <2>1. TypeOK
      BY ApiAssumption DEF Init, TypeOK, AllIdle, NoRuns, EmptyStore, NoTimes, NoRun, NoReply, Reply, Replies
    <2>2. ClientInv /\ RunInv /\ UnansweredInv
      BY DEF Init, AllIdle, ClientInv, RunInv, Working, UnansweredInv
    <2> QED BY <2>1, <2>2 DEF ApiInv
  <1>2. ApiInv /\ [Next]_vars => ApiInv'
    BY TypeStep, ClientStep, RunStep, UnansweredStep, RunInvKnown DEF ApiInv
  <1> QED BY <1>1, <1>2, PTL DEF Spec

(* Every variable of the submission endpoint keeps its type.                *)
THEOREM ApiTypeCorrect == Spec => []TypeOK
  <1>1. ApiInv => TypeOK
    BY DEF ApiInv
  <1> QED BY <1>1, ApiInvHolds, PTL

-----------------------------------------------------------------------------
(* Stored answers and replies.                                              *)

LEMMA DoneStays ==
  ASSUME ApiInv, [Next]_vars, NEW r, NEW c, NEW t, IsRunIn(runs, r, c, t, "done")
  PROVE  IsRunIn(runs', r, c, t, "done")
  BY RunsStay DEF ApiInv, IsRunIn

LEMMA StoredStep == ApiInv /\ StoredAnswersOwnRun /\ [Next]_vars => StoredAnswersOwnRun'
  <1> SUFFICES ASSUME ApiInv, StoredAnswersOwnRun, [Next]_vars,
                      NEW c \in Clients, NEW t \in Tickets, store'[<<c, t>>] # NoRun
               PROVE  IsRunIn(runs', store'[<<c, t>>], c, t, "done")
    BY DEF StoredAnswersOwnRun, Stored, IsRunIn
  <1>1. CASE store'[<<c, t>>] = store[<<c, t>>]
    <2>1. PICK r : r = store[<<c, t>>]  OBVIOUS
    <2>2. IsRunIn(runs, r, c, t, "done")
      BY <1>1, <2>1 DEF StoredAnswersOwnRun, Stored, IsRunIn
    <2>3. IsRunIn(runs', r, c, t, "done")
      BY <2>2, DoneStays
    <2> QED BY <1>1, <2>1, <2>3 DEF IsRunIn
  <1>2. ASSUME NEW h \in Handlers, Put(h) PROVE IsRunIn(runs', store'[<<c, t>>], c, t, "done")
    <2>1. PICK r : r = run[h]  OBVIOUS
    <2>2. /\ store' = [store EXCEPT ![<<client[h], ticket[h]>>] = r] /\ UNCHANGED runs
          /\ IsRunIn(runs, r, client[h], ticket[h], "done")
      BY <1>2, <2>1 DEF Put, ApiInv, RunInv
    <2>3. CASE <<c, t>> = <<client[h], ticket[h]>>
      <3>1. store'[<<c, t>>] = r /\ c = client[h] /\ t = ticket[h]
        BY <2>2, <2>3 DEF ApiInv, TypeOK
      <3> QED BY <2>2, <3>1 DEF IsRunIn
    <2>4. CASE <<c, t>> # <<client[h], ticket[h]>>
      BY <1>1, <2>2, <2>4 DEF ApiInv, TypeOK
    <2> QED BY <2>3, <2>4
  <1>3. CASE Restart
    BY <1>3 DEF Restart, EmptyStore
  <1>4. \/ UNCHANGED store \/ Restart \/ \E h \in Handlers : Put(h)
    BY DEF Next, vars, Tick, Receive, Authenticate, Get, RateLimited, Allowed, Dispatch,
           RunReturns, RunRaises
  <1> QED BY <1>1, <1>2, <1>3, <1>4

(* IdempotencyCache: a stored answer is the answer of a finished run of its *)
(* own client and ticket, however deliveries, failures and restarts mix.    *)
THEOREM StoredAnswersSound == Spec => []StoredAnswersOwnRun
  <1>1. Init => StoredAnswersOwnRun
    BY DEF Init, EmptyStore, StoredAnswersOwnRun, Stored
  <1> QED BY <1>1, StoredStep, ApiInvHolds, PTL DEF Spec

LEMMA RepliesStep ==
  ApiInv /\ StoredAnswersOwnRun /\ RepliesOwnRun /\ [Next]_vars => RepliesOwnRun'
  <1> SUFFICES ASSUME ApiInv, StoredAnswersOwnRun, RepliesOwnRun, [Next]_vars,
                      NEW h \in Handlers, pc'[h] = "idle", reply'[h].code = 200
               PROVE  IsRunIn(runs', reply'[h].run, ClientOf(key'[h]), ticket'[h], "done")
    BY DEF RepliesOwnRun, IsRunIn, ClientOf
  <1> DEFINE Goal == IsRunIn(runs', reply'[h].run, ClientOf(key'[h]), ticket'[h], "done")
  <1> USE DEF requestVars
  <1>1. CASE pc[h] = "idle" /\ UNCHANGED <<reply[h], key[h], ticket[h]>>
    <2>1. PICK r, c, t : r = reply[h].run /\ c = ClientOf(key[h]) /\ t = ticket[h]  OBVIOUS
    <2>2. IsRunIn(runs, r, c, t, "done")
      BY <1>1, <2>1 DEF RepliesOwnRun, IsRunIn
    <2>3. IsRunIn(runs', r, c, t, "done")
      BY <2>2, DoneStays
    <2> QED BY <1>1, <2>1, <2>3 DEF IsRunIn, ClientOf
  <1>2. CASE Get(h)
    <2>1. PICK r : r = store[<<client[h], ticket[h]>>]  OBVIOUS
    <2>2. r # NoRun
      <3>1. CASE r = NoRun
        BY <1>2, <2>1, <3>1 DEF Get, cached, ApiInv, TypeOK
      <3> QED BY <3>1
    <2>3. reply'[h].run = r /\ UNCHANGED <<key, ticket, runs>>
      BY <1>2, <2>1, <2>2 DEF Get, cached, Answer, Reply, ApiInv, TypeOK
    <2>4. client[h] \in Clients /\ ticket[h] \in Tickets /\ client[h] = ClientOf(key[h])
      BY <1>2 DEF Get, ApiInv, TypeOK, ClientInv, Working
    <2>5. IsRunIn(runs, r, client[h], ticket[h], "done")
      BY <2>1, <2>2, <2>4 DEF StoredAnswersOwnRun, Stored, IsRunIn
    <2> QED BY <2>3, <2>4, <2>5 DEF IsRunIn, ClientOf
  <1>3. CASE Put(h)
    <2>1. reply'[h].run = run[h] /\ UNCHANGED <<key, ticket, runs>>
      BY <1>3 DEF Put, Answer, Reply, ApiInv, TypeOK
    <2>2. client[h] = ClientOf(key[h]) /\ IsRunIn(runs, run[h], client[h], ticket[h], "done")
      BY <1>3 DEF Put, ApiInv, ClientInv, Working, RunInv
    <2> QED BY <2>1, <2>2 DEF IsRunIn, ClientOf
  <1>4. CASE Authenticate(h)
    <2>1. pc'[h] # "idle" \/ reply'[h].code = 401
      BY <1>4 DEF Authenticate, Answer, Reply, ApiInv, TypeOK
    <2> QED BY <2>1
  <1>5. CASE RateLimited(h) \/ RunRaises(h)
    <2>1. reply'[h].code \in {429, 502}
      BY <1>5 DEF RateLimited, RunRaises, Answer, Reply, ApiInv, TypeOK
    <2> QED BY <2>1
  <1>6. CASE Receive(h) \/ Allowed(h) \/ Dispatch(h) \/ RunReturns(h)
    <2>1. pc'[h] # "idle"
      BY <1>6 DEF Receive, Allowed, Dispatch, RunReturns, ApiInv, TypeOK
    <2> QED BY <2>1
  <1>7. ASSUME NEW k \in Handlers, k # h,
               \/ Receive(k) \/ Authenticate(k) \/ Get(k) \/ RateLimited(k) \/ Allowed(k)
               \/ Dispatch(k) \/ RunReturns(k) \/ RunRaises(k) \/ Put(k)
        PROVE  Goal
    <2>1. UNCHANGED <<pc[h], reply[h], key[h], ticket[h]>>
      BY <1>7, OthersStay DEF ApiInv, Step
    <2> QED BY <1>1, <2>1
  <1>8. CASE UNCHANGED vars \/ Tick
    BY <1>1, <1>8 DEF vars, Tick
  <1>9. CASE Restart
    <2>1. CASE pc[h] = "idle"
      BY <1>1, <1>9, <2>1 DEF Restart
    <2>2. CASE pc[h] # "idle"
      BY <1>9, <2>2 DEF Restart, ApiInv, UnansweredInv
    <2> QED BY <2>1, <2>2
  <1> QED BY <1>2, <1>3, <1>4, <1>5, <1>6, <1>7, <1>8, <1>9 DEF Next

(* submit_ticket: every 200 a caller gets, fresh or replayed, is the outcome*)
(* of a finished run for its own client and the ticket it sent.             *)
THEOREM RepliesSound == Spec => []RepliesOwnRun
  <1>1. Init => RepliesOwnRun
    BY DEF Init, NoReply, Reply, RepliesOwnRun
  <1> QED BY <1>1, RepliesStep, StoredAnswersSound, ApiInvHolds, PTL DEF Spec

-----------------------------------------------------------------------------
(* Retries.                                                                 *)

(* A request that found its answer stored on arrival still finds it there.  *)
RetryInv ==
    \A h \in Handlers : arrived_stored[h] =>
        /\ pc[h] \in {"authenticate", "get"} => Stored(ClientOf(key[h]), ticket[h])
        /\ pc[h] \notin {"allow", "run", "put"}

(* Answers are not taken out of the cache while the process lives.          *)
LEMMA StoreGrows ==
  ASSUME ApiInv, [Next]_vars, ~Restart, NEW c, NEW t \in Tickets, Stored(c, t)
  PROVE  Stored(c, t)'
  <1>1. CASE UNCHANGED store
    BY <1>1 DEF Stored
  <1>2. ASSUME NEW h \in Handlers, Put(h) PROVE Stored(c, t)'
    <2>1. run[h] # NoRun
      BY <1>2 DEF Put, ApiInv, RunInv, IsRunIn, TypeOK, NoRun
    <2> QED BY <1>2, <2>1 DEF Put, Stored, ApiInv, TypeOK
  <1>3. UNCHANGED store \/ \E h \in Handlers : Put(h)
    BY DEF Next, vars, Tick, Receive, Authenticate, Get, RateLimited, Allowed, Dispatch,
           RunReturns, RunRaises
  <1> QED BY <1>1, <1>2, <1>3

LEMMA RetryStep == ApiInv /\ RetryInv /\ [Next]_vars => RetryInv'
  <1> SUFFICES ASSUME ApiInv, RetryInv, [Next]_vars, NEW h \in Handlers, arrived_stored'[h]
               PROVE  /\ pc'[h] \in {"authenticate", "get"} => Stored(ClientOf(key[h]), ticket[h])'
                      /\ pc'[h] \notin {"allow", "run", "put"}
    BY DEF RetryInv, ClientOf
  <1> DEFINE Goal == /\ pc'[h] \in {"authenticate", "get"} => Stored(ClientOf(key[h]), ticket[h])'
                     /\ pc'[h] \notin {"allow", "run", "put"}
  <1> USE DEF requestVars
  <1>1. CASE Restart
    BY <1>1 DEF Restart, AllIdle
  <1>2. ASSUME ~Restart, UNCHANGED <<arrived_stored[h], key[h], ticket[h]>>,
               pc'[h] \in {"authenticate", "get"} => pc[h] \in {"authenticate", "get"},
               pc'[h] \in {"allow", "run", "put"} => pc[h] \in {"allow", "run", "put"}
        PROVE  Goal
    <2>1. PICK c, t : c = ClientOf(key[h]) /\ t = ticket[h] /\ t \in Tickets
      BY DEF ApiInv, TypeOK
    <2>2. Stored(c, t) => Stored(c, t)'
      BY <1>2, <2>1, StoreGrows
    <2> QED BY <1>2, <2>1, <2>2 DEF RetryInv, Stored, ClientOf
  <1>3. CASE ~Restart /\ (UNCHANGED vars \/ Tick)
    BY <1>2, <1>3 DEF vars, Tick
  <1>4. ASSUME NEW k \in Handlers, ~Restart,
               \/ Receive(k) \/ Authenticate(k) \/ Get(k) \/ RateLimited(k) \/ Allowed(k)
               \/ Dispatch(k) \/ RunReturns(k) \/ RunRaises(k) \/ Put(k)
        PROVE  Goal
    <2>1. CASE k # h
      <3>1. UNCHANGED <<pc[h], arrived_stored[h], key[h], ticket[h]>>
        BY <1>4, <2>1, OthersStay DEF ApiInv, Step
      <3> QED BY <1>2, <1>4, <3>1
    <2>2. CASE Receive(h)
      <3>1. PICK c, t : /\ key'[h] = c /\ ticket'[h] = t
                        /\ arrived_stored'[h] = Stored(ClientOf(c), t) /\ UNCHANGED store
                        /\ pc'[h] = "authenticate"
        BY <2>2 DEF Receive, ApiInv, TypeOK
      <3> QED BY <3>1 DEF Stored, ClientOf
    <2>3. CASE Authenticate(h)
      <3>1. /\ pc[h] = "authenticate" /\ pc'[h] \in {"get", "idle"}
            /\ UNCHANGED <<arrived_stored, key, ticket>>
        BY <2>3 DEF Authenticate, Answer, ApiInv, TypeOK
      <3> QED BY <1>2, <1>4, <3>1
    <2>4. CASE Get(h)
      <3>1. arrived_stored[h] /\ UNCHANGED <<arrived_stored, key, ticket>>
        BY <2>4 DEF Get
      <3>2. client[h] = ClientOf(key[h]) /\ Stored(ClientOf(key[h]), ticket[h])
        BY <2>4, <3>1 DEF Get, ApiInv, ClientInv, Working, RetryInv
      <3>3. pc'[h] = "idle"
        BY <2>4, <3>2 DEF Get, cached, Stored, Answer, ApiInv, TypeOK
      <3> QED BY <3>3
    <2>5. CASE RateLimited(h) \/ Allowed(h) \/ Dispatch(h) \/ RunReturns(h) \/ RunRaises(h) \/ Put(h)
      <3>1. pc[h] \in {"allow", "run", "put"} /\ UNCHANGED arrived_stored
        BY <2>5 DEF RateLimited, Allowed, Dispatch, RunReturns, RunRaises, Put
      <3> QED BY <3>1 DEF RetryInv
    <2> QED BY <1>4, <2>1, <2>2, <2>3, <2>4, <2>5
  <1> QED BY <1>1, <1>3, <1>4 DEF Next

(* submit_ticket: a request that arrives once its ticket is answered is     *)
(* replayed; it never reaches the limiter or the pipeline.                  *)
THEOREM RetriesReplay == Spec => []RetryAfterAnswerReplays
  <1>1. Init => RetryInv
    BY DEF Init, RetryInv
  <1>2. RetryInv => RetryAfterAnswerReplays
    BY DEF RetryInv, RetryAfterAnswerReplays
  <1> QED BY <1>1, <1>2, RetryStep, ApiInvHolds, PTL DEF Spec

-----------------------------------------------------------------------------
(* The clients' budgets.                                                    *)

WindowInv ==
    \A c \in Clients :
        /\ Kept(timestamps[c], grants[c], MaxCalls, Window, now)
        /\ Spaced(grants[c], MaxCalls, Window)

LEMMA WindowStep == ApiInv /\ WindowInv /\ [Next]_vars => WindowInv'
  <1> SUFFICES ASSUME ApiInv, WindowInv, [Next]_vars, NEW c \in Clients
               PROVE  /\ Kept(timestamps'[c], grants'[c], MaxCalls, Window, now')
                      /\ Spaced(grants'[c], MaxCalls, Window)
    BY DEF WindowInv, Kept, IsTail, Spaced
  <1> DEFINE ts == timestamps[c]
             g == grants[c]
             Goal == /\ Kept(timestamps'[c], grants'[c], MaxCalls, Window, now')
                     /\ Spaced(grants'[c], MaxCalls, Window)
  <1>1. /\ ts \in Seq(Nat) /\ g \in Seq(Nat) /\ now \in Nat /\ Window \in Nat /\ MaxCalls \in Nat
        /\ Kept(ts, g, MaxCalls, Window, now) /\ Spaced(g, MaxCalls, Window)
    BY ApiAssumption DEF ApiInv, TypeOK, WindowInv
  <1>2. CASE UNCHANGED <<timestamps[c], grants[c], now>>
    BY <1>1, <1>2
  <1>3. CASE Tick
    <2>1. UNCHANGED <<timestamps, grants>> /\ now' = now + 1
      BY <1>3 DEF Tick
    <2>2. \A i \in 1 .. Len(g) - Len(ts) : g[i] + Window <= now + 1
      <3> TAKE i \in 1 .. Len(g) - Len(ts)
      <3>1. g[i] + Window <= now  BY <1>1 DEF Kept
      <3>2. Len(g) \in Nat /\ Len(ts) \in Nat  BY <1>1
      <3>3. i \in 1 .. Len(g)
        <4> HIDE DEF ts, g
        <4> QED BY <3>2
      <3>4. g[i] \in Nat  BY <1>1, <3>3, ElementType
      <3> QED BY <1>1, <3>1, <3>4
    <2> QED BY <1>1, <2>1, <2>2 DEF Kept
  <1>4. CASE Restart
    <2>1. timestamps'[c] = <<>> /\ grants'[c] = <<>> /\ UNCHANGED now
      BY <1>4 DEF Restart, NoTimes
    <2> QED BY <1>1, <2>1 DEF Kept, IsTail, Spaced
  <1>5. ASSUME NEW h \in Handlers, client[h] = c, Allowed(h) PROVE Goal
    <2>1. /\ timestamps'[c] = Append(prune(ts, now - Window), now) /\ grants'[c] = Append(g, now)
          /\ UNCHANGED now /\ Len(prune(ts, now - Window)) < MaxCalls
      BY <1>5 DEF Allowed, has_budget, fresh, ApiInv, TypeOK
    <2> HIDE DEF ts, g
    <2> QED BY <1>1, <2>1, GrantKeeps
  <1>6. ASSUME NEW h \in Handlers, client[h] = c, RateLimited(h) PROVE Goal
    <2>1. timestamps'[c] = prune(ts, now - Window) /\ grants'[c] = g /\ UNCHANGED now
      BY <1>6 DEF RateLimited, fresh, ApiInv, TypeOK
    <2> HIDE DEF ts, g
    <2> QED BY <1>1, <2>1, PruneTail
  <1>7. ASSUME NEW h \in Handlers, client[h] # c, Allowed(h) \/ RateLimited(h) PROVE Goal
    <2>1. UNCHANGED <<timestamps[c], grants[c], now>>
      BY <1>7 DEF Allowed, RateLimited, ApiInv, TypeOK
    <2> QED BY <1>2, <2>1
  <1>8. \/ UNCHANGED <<timestamps, grants, now>> \/ Tick \/ Restart
        \/ \E h \in Handlers : Allowed(h) \/ RateLimited(h)
    BY ZenonT(30) DEF Next, vars, Receive, Authenticate, Get, Dispatch, RunReturns, RunRaises, Put
  <1> QED BY <1>2, <1>3, <1>4, <1>5, <1>6, <1>7, <1>8

LEMMA WindowStart == Init => WindowInv
  <1> SUFFICES ASSUME Init, NEW c \in Clients
               PROVE  /\ Kept(timestamps[c], grants[c], MaxCalls, Window, now)
                      /\ Spaced(grants[c], MaxCalls, Window)
    BY DEF WindowInv
  <1>1. timestamps[c] = <<>> /\ grants[c] = <<>> /\ MaxCalls \in Nat
    BY ApiAssumption DEF Init, NoTimes
  <1> QED BY <1>1 DEF Kept, IsTail, Spaced

(* ClientRateLimiter: at most max_calls of a client's requests are let      *)
(* through in any window, on any number of threads.                         *)
THEOREM ClientWindowIsBounded == Spec => []ClientWindowBound
  <1>1. WindowInv => ClientWindowBound
    BY DEF WindowInv, ClientWindowBound, Spaced
  <1> QED BY <1>1, WindowStart, WindowStep, ApiInvHolds, PTL DEF Spec

-----------------------------------------------------------------------------
(* Refusals.                                                                *)

(* The limiter's lock is held while the clock is read: times go up, and     *)
(* none is in the future.                                                   *)
InOrder(g, t) ==
    /\ \A i \in 1 .. Len(g) : g[i] <= t
    /\ \A i, j \in 1 .. Len(g) : i <= j => g[i] <= g[j]

OrderInv == \A c \in Clients : InOrder(grants[c], now)

LEMMA OrderAppend ==
  ASSUME NEW g \in Seq(Nat), NEW t \in Nat, InOrder(g, t)
  PROVE  InOrder(Append(g, t), t)
  <1> DEFINE h == Append(g, t)
  <1>1. /\ Len(g) \in Nat /\ Len(h) = Len(g) + 1 /\ h[Len(g) + 1] = t
        /\ \A i \in 1 .. Len(g) : h[i] = g[i]
    OBVIOUS
  <1> HIDE DEF h
  <1>2. \A i \in 1 .. Len(h) : h[i] <= t
    <2> TAKE i \in 1 .. Len(h)
    <2>1. CASE i = Len(g) + 1  BY <1>1, <2>1
    <2>2. CASE i \in 1 .. Len(g)  BY <1>1, <2>2 DEF InOrder
    <2> QED BY <1>1, <2>1, <2>2
  <1>3. \A i, j \in 1 .. Len(h) : i <= j => h[i] <= h[j]
    <2> SUFFICES ASSUME NEW i \in 1 .. Len(h), NEW j \in 1 .. Len(h), i <= j
                 PROVE  h[i] <= h[j]
      OBVIOUS
    <2>1. CASE j = Len(g) + 1  BY <1>1, <1>2, <2>1
    <2>2. CASE j \in 1 .. Len(g)
      <3>1. i \in 1 .. Len(g)  BY <1>1, <2>2
      <3> QED BY <1>1, <2>2, <3>1 DEF InOrder
    <2> QED BY <1>1, <2>1, <2>2
  <1>4. InOrder(h, t)  BY <1>2, <1>3 DEF InOrder
  <1> QED BY <1>4 DEF h

LEMMA OrderLater ==
  ASSUME NEW g \in Seq(Nat), NEW t \in Nat, InOrder(g, t)
  PROVE  InOrder(g, t + 1)
  <1>1. ASSUME NEW i \in 1 .. Len(g) PROVE g[i] <= t + 1
    <2>1. g[i] \in Nat /\ g[i] <= t  BY ElementType DEF InOrder
    <2> QED BY <2>1
  <1> QED BY <1>1 DEF InOrder

LEMMA OrderStep == ApiInv /\ OrderInv /\ [Next]_vars => OrderInv'
  <1> SUFFICES ASSUME ApiInv, OrderInv, [Next]_vars, NEW c \in Clients
               PROVE  InOrder(grants'[c], now')
    BY DEF OrderInv, InOrder
  <1>1. grants[c] \in Seq(Nat) /\ now \in Nat /\ InOrder(grants[c], now)
    BY DEF ApiInv, TypeOK, OrderInv
  <1>2. CASE UNCHANGED <<grants[c], now>>  BY <1>1, <1>2
  <1>3. CASE Tick
    <2>1. UNCHANGED grants /\ now' = now + 1  BY <1>3 DEF Tick
    <2> QED BY <1>1, <2>1, OrderLater
  <1>4. CASE Restart
    <2>1. grants'[c] = <<>>  BY <1>4 DEF Restart, NoTimes
    <2> QED BY <2>1 DEF InOrder
  <1>5. ASSUME NEW h \in Handlers, Allowed(h), client[h] = c PROVE InOrder(grants'[c], now')
    <2>1. grants'[c] = Append(grants[c], now) /\ UNCHANGED now
      BY <1>5 DEF Allowed, ApiInv, TypeOK
    <2> QED BY <1>1, <2>1, OrderAppend
  <1>6. ASSUME NEW h \in Handlers, Allowed(h), client[h] # c PROVE InOrder(grants'[c], now')
    <2>1. UNCHANGED <<grants[c], now>>
      BY <1>6 DEF Allowed, ApiInv, TypeOK
    <2> QED BY <1>1, <2>1
  <1>7. \/ UNCHANGED <<grants, now>> \/ Tick \/ Restart
        \/ \E h \in Handlers : Allowed(h)
    BY ZenonT(30) DEF Next, vars, Receive, Authenticate, Get, RateLimited, Dispatch, RunReturns, RunRaises, Put
  <1> QED BY <1>2, <1>3, <1>4, <1>5, <1>6, <1>7

(* The times of the list are fresh to the last once its first one is, and   *)
(* the list is the end of the grants.                                       *)
LEMMA FreshGrants ==
  ASSUME NEW ts \in Seq(Nat), NEW g \in Seq(Nat), NEW t \in Nat, NEW W \in Nat,
         IsTail(ts, g), Len(ts) > 0 => ts[1] + W > t, InOrder(g, t)
  PROVE  Cardinality({i \in DOMAIN g : g[i] > t - W}) >= Len(ts)
  <1> DEFINE a == Len(g) - Len(ts) + 1
             F == {i \in DOMAIN g : g[i] > t - W}
  <1>1. /\ Len(g) \in Nat /\ Len(ts) \in Nat /\ DOMAIN g = 1 .. Len(g)
        /\ Len(ts) <= Len(g) /\ a \in 1 .. Len(g) + 1
    BY DEF IsTail
  <1>2. a .. Len(g) \subseteq F
    <2> SUFFICES ASSUME NEW i \in a .. Len(g) PROVE i \in F
      OBVIOUS
    <2>1. i \in 1 .. Len(g) /\ a \in 1 .. Len(g) /\ a <= i /\ Len(ts) > 0
      BY <1>1
    <2>2. ts[1] = g[a]
      <3>1. 1 \in 1 .. Len(ts)  BY <1>1, <2>1
      <3>2. ts[1] = g[(Len(g) - Len(ts)) + 1]  BY <3>1 DEF IsTail
      <3> QED BY <3>2
    <2> HIDE DEF a
    <2>3. g[a] \in Nat /\ g[i] \in Nat /\ g[a] <= g[i] /\ g[a] + W > t
      BY <2>1, <2>2, ElementType DEF InOrder
    <2> QED BY <1>1, <2>1, <2>3
  <1>3. IsFiniteSet(F) /\ Cardinality(F) \in Nat
    <2>1. IsFiniteSet(1 .. Len(g))  BY <1>1, FS_Interval
    <2>2. F \in SUBSET (1 .. Len(g))  BY <1>1
    <2>3. IsFiniteSet(F)  BY <2>1, <2>2, FS_Subset
    <2> QED BY <2>3, FS_CardinalityType
  <1>4. Cardinality(a .. Len(g)) = Len(ts)
    <2>1. a \in Int /\ Len(g) \in Int  BY <1>1
    <2>2. Cardinality(a .. Len(g)) = IF a > Len(g) THEN 0 ELSE Len(g) - a + 1
      <3> HIDE DEF a
      <3> QED BY <2>1, FS_Interval
    <2> QED BY <1>1, <2>2
  <1>5. Cardinality(a .. Len(g)) <= Cardinality(F)
    <2> HIDE DEF F, a
    <2>1. a .. Len(g) \in SUBSET F  BY <1>2
    <2> QED BY <2>1, <1>3, FS_Subset
  <1> QED BY <1>1, <1>3, <1>4, <1>5

(* A list that, pruned, is not short of M grants counts M in the window.    *)
LEMMA FullList ==
  ASSUME NEW ts \in Seq(Nat), NEW g \in Seq(Nat), NEW t \in Nat, NEW W \in Nat, NEW M \in Nat,
         Kept(ts, g, M, W, t), InOrder(g, t), ~ (Len(prune(ts, t - W)) < M)
  PROVE  Cardinality(InWindow(g, t, W)) >= M
  <1> DEFINE f == prune(ts, t - W)
             F == {i \in DOMAIN g : g[i] > t - W}
  <1>1. /\ f \in Seq(Nat) /\ Kept(f, g, M, W, t)
        /\ Len(f) > 0 => f[1] + W > t
    BY PruneTail
  <1>2. ~ (Len(f) < M)
    OBVIOUS
  <1> HIDE DEF f
  <1>3. IsTail(f, g)
    BY <1>1 DEF Kept
  <1>4. Cardinality(F) >= Len(f)
    BY <1>1, <1>3, FreshGrants
  <1>5. Cardinality(F) \in Nat
    <2>1. IsFiniteSet(1 .. Len(g))  BY FS_Interval
    <2>2. F \in SUBSET (1 .. Len(g))  OBVIOUS
    <2> QED BY <2>1, <2>2, FS_Subset, FS_CardinalityType
  <1> HIDE DEF F
  <1>6. Cardinality(F) >= M
    BY <1>1, <1>2, <1>4, <1>5
  <1> QED BY <1>6 DEF F, InWindow

LEMMA RefusalStep ==
  ASSUME ApiInv, WindowInv, OrderInv, [Next]_vars,
         NEW h \in Handlers, reply'[h].code = 429, reply[h].code # 429
  PROVE  Cardinality({i \in DOMAIN grants[client[h]] : grants[client[h]][i] > now - Window}) >= MaxCalls
  <1>1. RateLimited(h)
    <2> USE DEF ApiInv, TypeOK, requestVars
    <2>1. ~ (reply'[h] = reply[h])  OBVIOUS
    <2>2. ~ (Tick \/ Restart \/ UNCHANGED vars)
      BY <2>1 DEF Tick, Restart, vars
    <2>3. PICK j \in Handlers : Step(j)
      BY <2>2 DEF Next, Step
    <2>4. j = h
      BY <2>1, <2>3, OthersStay
    <2>5. ~ Receive(h)  BY DEF Receive, NoReply, Reply
    <2>6. ~ Authenticate(h)  BY DEF Authenticate, Answer, Reply
    <2>7. ~ Get(h)  BY DEF Get, Answer, Reply
    <2>8. ~ (Allowed(h) \/ Dispatch(h) \/ RunReturns(h))  BY <2>1 DEF Allowed, Dispatch, RunReturns
    <2>9. ~ (RunRaises(h) \/ Put(h))  BY DEF RunRaises, Put, Answer, Reply
    <2> QED BY <2>3, <2>4, <2>5, <2>6, <2>7, <2>8, <2>9 DEF Step
  <1> DEFINE c == client[h]
             ts == timestamps[c]
             g == grants[c]
  <1>2. c \in Clients /\ ~ (Len(prune(ts, now - Window)) < MaxCalls)
    BY <1>1 DEF RateLimited, has_budget, fresh, ApiInv, TypeOK
  <1>3. /\ ts \in Seq(Nat) /\ g \in Seq(Nat) /\ now \in Nat /\ Window \in Nat /\ MaxCalls \in Nat
        /\ Kept(ts, g, MaxCalls, Window, now) /\ InOrder(g, now)
    BY <1>2, ApiAssumption DEF ApiInv, TypeOK, WindowInv, OrderInv
  <1> HIDE DEF ts, g
  <1>4. Cardinality(InWindow(g, now, Window)) >= MaxCalls
    <2>1. ~ (Len(prune(ts, now - Window)) < MaxCalls)
      BY <1>2
    <2> QED BY <2>1, <1>3, FullList
  <1> QED BY <1>4 DEF g, c, InWindow

(* ClientRateLimiter: a client is refused only if its own requests filled   *)
(* the window; not for the requests of others, and not for old ones.        *)
THEOREM RefusalsHaveCause == Spec => RefusedOnlyWhenFull
  <1>1. Init => OrderInv
    BY DEF Init, NoTimes, OrderInv, InOrder
  <1>2. Init => WindowInv
    BY WindowStart
  <1>3. ApiInv /\ WindowInv /\ OrderInv /\ [Next]_vars =>
        [\A h \in Handlers : reply'[h].code = 429 /\ reply[h].code # 429 =>
            Cardinality({i \in DOMAIN grants[client[h]] : grants[client[h]][i] > now - Window})
               >= MaxCalls]_vars
    BY RefusalStep
  <1> QED BY <1>1, <1>2, <1>3, WindowStep, OrderStep, ApiInvHolds, PTL DEF Spec, RefusedOnlyWhenFull

-----------------------------------------------------------------------------
(* The refinement of WindowBudget.                                          *)

LEMMA BudgetStep == ApiInv /\ WindowInv /\ [Next]_vars => [Budget!Next]_<<now, grants>>
  <1> SUFFICES ASSUME ApiInv, WindowInv, [Next]_vars PROVE [Budget!Next]_<<now, grants>>
    OBVIOUS
  <1>1. CASE Tick
    BY <1>1 DEF Tick, Budget!Next, Budget!Advance
  <1>2. CASE Restart
    BY <1>2 DEF Restart, NoTimes, Budget!Next, Budget!Forget, Budget!None
  <1>3. ASSUME NEW h \in Handlers, Allowed(h) PROVE \E c \in Clients : Budget!Grant(c)
    <2> DEFINE c == client[h]
               ts == timestamps[c]
               g == grants[c]
    <2>1. /\ c \in Clients /\ Len(prune(ts, now - Window)) < MaxCalls
          /\ grants' = [grants EXCEPT ![c] = Append(@, now)] /\ UNCHANGED now
      BY <1>3 DEF Allowed, has_budget, fresh, ApiInv, TypeOK
    <2>2. /\ ts \in Seq(Nat) /\ g \in Seq(Nat) /\ now \in Nat /\ Window \in Nat /\ MaxCalls \in Nat
          /\ Kept(ts, g, MaxCalls, Window, now)
      BY <2>1, ApiAssumption DEF ApiInv, TypeOK, WindowInv
    <2>3. Cardinality(InWindow(g, now, Window)) < MaxCalls
      <3> HIDE DEF ts, g
      <3> QED BY <2>1, <2>2, RoomInWindow
    <2>4. Budget!Spent(c) = Cardinality(InWindow(g, now, Window))
      BY DEF Budget!Spent, Budget!InWindow, InWindow, Budget!Cardinality, Cardinality
    <2>5. [d \in Clients |-> MaxCalls][c] = MaxCalls
      BY <2>1
    <2> QED BY <2>1, <2>3, <2>4, <2>5 DEF Budget!Grant
  <1>4. \/ UNCHANGED <<now, grants>> \/ Tick \/ Restart \/ \E h \in Handlers : Allowed(h)
    BY ZenonT(30) DEF Next, vars, Receive, Authenticate, Get, RateLimited, Dispatch, RunReturns, RunRaises, Put
  <1> QED BY <1>1, <1>2, <1>3, <1>4 DEF Budget!Next

(* ClientRateLimiter implements the budget: a client is let through only    *)
(* with less than its limit spent in the window, on any number of threads.  *)
THEOREM BudgetsAreKept == Spec => KeepsBudgets
  <1>1. Init => Budget!Init
    BY DEF Init, NoTimes, Budget!Init, Budget!None
  <1> QED BY <1>1, WindowStart, WindowStep, BudgetStep, ApiInvHolds, PTL
          DEF Spec, KeepsBudgets, Budget!Spec
=============================================================================
