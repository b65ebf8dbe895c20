--------------------------- MODULE TicketDeskProofs --------------------------
(* What the New Ticket page promises, for any number of tabs, keys, contents,  *)
(* clock readings, submissions and restarts: the outcome shown is that of the  *)
(* ticket shown, and a ticket runs twice only for a cause.                     *)
EXTENDS TicketDesk, FiniteSetTheorems, TLAPS

Typed ==
  /\ clock \in Ids /\ storage \in Keys \cup {None}
  /\ session \in [Tabs -> BOOLEAN]
  /\ desk \in [Tabs -> PageStates \cup {None}]
  /\ requests \in Seq(Requests) /\ Len(requests) <= MaxRequests
  /\ runs \in Seq(Runs)
  /\ stored \in [Clients \X Ids -> Nat \cup {None}]
  /\ made \in [Ids -> Nat] /\ moves \in Nat /\ restarts \in Nat

-----------------------------------------------------------------------------
(* Sequences and pages.                                                        *)
LEMMA Patched ==
  ASSUME NEW S, NEW s \in Seq(S), NEW i \in DOMAIN s, NEW q \in S
  PROVE  LET v == [s EXCEPT ![i] = q] IN
         /\ v \in Seq(S) /\ Len(v) = Len(s) /\ DOMAIN v = DOMAIN s /\ v[i] = q
         /\ \A k \in DOMAIN s : k # i => v[k] = s[k]
  OBVIOUS

LEMMA At == Typed =>
  /\ \A i \in DOMAIN requests : requests[i] \in Requests /\ i \in 1..MaxRequests /\ i \in Nat
  /\ \A r \in DOMAIN runs : runs[r] \in Runs /\ r \in Nat
  /\ DOMAIN requests = 1..Len(requests) /\ DOMAIN runs = 1..Len(runs)
  /\ Len(requests) \in Nat /\ Len(runs) \in Nat
  BY BoundsNat DEF Typed

LEMMA Pages == Typed => /\ \A t \in Tabs : desk[t] # None => desk[t] \in PageStates
                        /\ \A p \in PageStates : p # None
                        /\ \A i \in Nat : i # None
  BY NoneType DEF Typed

LEMMA PageType == ASSUME NEW id \in Ids
                  PROVE  /\ Page(id) \in PageStates /\ Page(id) # None
                         /\ Page(id).id = id /\ Page(id).waits = None
                         /\ Page(id).result = None /\ Page(id).sent = {}
  <1>1. Page(id) \in PageStates
    <2>1. {} \in SUBSET (Messages \ Refused) /\ FALSE \in BOOLEAN
      OBVIOUS
    <2> QED BY <2>1 DEF Page, PageStates
  <1> QED BY <1>1, NoneType DEF Page

(* What a step may leave alone: who asked what, how it ended for the page, how *)
(* far the service is.                                                         *)
SameAsks == /\ DOMAIN requests' = DOMAIN requests
            /\ \A k \in DOMAIN requests :
                 /\ requests'[k].tab = requests[k].tab /\ requests'[k].key = requests[k].key
                 /\ requests'[k].ticket = requests[k].ticket
                 /\ requests'[k].message = requests[k].message
SameEnds == \A k \in DOMAIN requests : requests'[k].outcome = requests[k].outcome
SameStages == \A k \in DOMAIN requests : /\ requests'[k].stage = requests[k].stage
                                         /\ requests'[k].run = requests[k].run
SeqOfRequests == requests' \in Seq(Requests) /\ Len(requests') <= MaxRequests
StageNames == {"sent", "running", "answered", "refused", "dropped"}

LEMMA RepliedAt ==
  ASSUME Typed, NEW i \in DOMAIN requests, NEW stage \in StageNames, NEW r \in Nat \cup {None},
         requests' = Replied(i, stage, r)
  PROVE  /\ SeqOfRequests /\ SameAsks /\ SameEnds
         /\ requests'[i].stage = stage /\ requests'[i].run = r
         /\ \A k \in DOMAIN requests : k # i => requests'[k] = requests[k]
  <1> DEFINE q == [requests[i] EXCEPT !.stage = stage, !.run = r]
  <1>1. requests[i] \in Requests
    BY At
  <1>2. /\ q \in Requests /\ q.stage = stage /\ q.run = r
        /\ q.tab = requests[i].tab /\ q.key = requests[i].key /\ q.ticket = requests[i].ticket
        /\ q.message = requests[i].message /\ q.outcome = requests[i].outcome
    BY <1>1 DEF Requests, StageNames
  <1>3. requests' = [requests EXCEPT ![i] = q]
    BY DEF Replied, Typed
  <1> HIDE DEF q
  <1>4. /\ requests' \in Seq(Requests) /\ Len(requests') = Len(requests)
        /\ DOMAIN requests' = DOMAIN requests /\ requests'[i] = q
        /\ \A k \in DOMAIN requests : k # i => requests'[k] = requests[k]
    BY <1>2, <1>3, Patched DEF Typed
  <1> QED BY <1>2, <1>4 DEF SeqOfRequests, SameAsks, SameEnds, Typed

Ended(i, o) == [requests EXCEPT ![i].outcome = o]
LEMMA EndedAt ==
  ASSUME Typed, NEW i \in DOMAIN requests, NEW o \in {"heard", "unheard"},
         requests' = Ended(i, o)
  PROVE  /\ SeqOfRequests /\ SameAsks /\ SameStages
         /\ requests'[i].outcome = o
         /\ \A k \in DOMAIN requests : k # i => requests'[k] = requests[k]
  <1> DEFINE q == [requests[i] EXCEPT !.outcome = o]
  <1>1. requests[i] \in Requests
    BY At
  <1>2. /\ q \in Requests /\ q.outcome = o
        /\ q.tab = requests[i].tab /\ q.key = requests[i].key /\ q.ticket = requests[i].ticket
        /\ q.message = requests[i].message /\ q.stage = requests[i].stage /\ q.run = requests[i].run
    BY <1>1 DEF Requests
  <1>3. requests' = [requests EXCEPT ![i] = q]
    BY DEF Ended
  <1> HIDE DEF q
  <1>4. /\ requests' \in Seq(Requests) /\ Len(requests') = Len(requests)
        /\ DOMAIN requests' = DOMAIN requests /\ requests'[i] = q
        /\ \A k \in DOMAIN requests : k # i => requests'[k] = requests[k]
    BY <1>2, <1>3, Patched DEF Typed
  <1> QED BY <1>2, <1>4 DEF SeqOfRequests, SameAsks, SameStages, Typed

LEMMA AbandonedAt ==
  ASSUME Typed, NEW t \in Tabs, requests' = Abandon(t)
  PROVE  /\ SeqOfRequests /\ SameAsks /\ SameStages
         /\ \A k \in DOMAIN requests :
              requests'[k].outcome = IF requests[k].tab = t /\ requests[k].outcome = None
                                     THEN "unheard" ELSE requests[k].outcome
  <1> DEFINE q(k) == IF requests[k].tab = t /\ requests[k].outcome = None
                     THEN [requests[k] EXCEPT !.outcome = "unheard"] ELSE requests[k]
  <1>1. \A k \in DOMAIN requests :
          /\ q(k) \in Requests
          /\ q(k).tab = requests[k].tab /\ q(k).key = requests[k].key
          /\ q(k).ticket = requests[k].ticket /\ q(k).message = requests[k].message
          /\ q(k).stage = requests[k].stage /\ q(k).run = requests[k].run
          /\ q(k).outcome = IF requests[k].tab = t /\ requests[k].outcome = None
                            THEN "unheard" ELSE requests[k].outcome
    BY At DEF Requests
  <1>2. requests' = [k \in DOMAIN requests |-> q(k)]
    BY DEF Abandon
  <1> HIDE DEF q
  <1>3. requests' \in Seq(Requests) /\ Len(requests') = Len(requests) /\ DOMAIN requests' = DOMAIN requests
    BY SMTT(30), <1>1, <1>2 DEF Typed
  <1> QED BY <1>1, <1>2, <1>3 DEF SeqOfRequests, SameAsks, SameStages, Typed

LEMMA SubmittedAt ==
  ASSUME Typed, NEW q \in Requests, Len(requests) < MaxRequests, requests' = Append(requests, q)
  PROVE  /\ SeqOfRequests
         /\ DOMAIN requests' = DOMAIN requests \cup {Len(requests) + 1}
         /\ Len(requests) + 1 \notin DOMAIN requests
         /\ requests'[Len(requests) + 1] = q
         /\ \A k \in DOMAIN requests : requests'[k] = requests[k]
  <1>1. Len(requests) \in Nat /\ MaxRequests \in Nat /\ requests \in Seq(Requests)
    BY BoundsNat DEF Typed
  <1> QED BY <1>1 DEF SeqOfRequests

-----------------------------------------------------------------------------
(* The invariant.  A page waits for one request of its own, under its own id;  *)
(* one that shows an outcome waits for none.                                   *)
Waits == \A i \in DOMAIN requests : requests[i].outcome = None =>
           /\ desk[requests[i].tab] # None
           /\ desk[requests[i].tab].waits = i
           /\ desk[requests[i].tab].id = requests[i].ticket
Idle == \A t \in Tabs : desk[t] # None /\ desk[t].result # None => desk[t].waits = None
Shows == \A t \in Tabs : desk[t] # None /\ desk[t].result # None =>
           /\ desk[t].result \in DOMAIN requests
           /\ requests[desk[t].result].tab = t
           /\ requests[desk[t].result].stage = "answered"
           /\ requests[desk[t].result].ticket = desk[t].id
Final == \A i \in DOMAIN requests :
           requests[i].outcome = "heard" => requests[i].stage \in {"answered", "refused"}
PageInv == Waits /\ Idle /\ Shows /\ Final

(* The service runs a request at most once, and answers with a finished run of *)
(* that client and ticket.                                                     *)
Replies == \A i \in DOMAIN requests : requests[i].stage \in {"running", "answered"} =>
             /\ requests[i].run \in DOMAIN runs
             /\ requests[i].key \in DOMAIN ApiKeys
             /\ runs[requests[i].run].client = ApiKeys[requests[i].key]
             /\ runs[requests[i].run].ticket = requests[i].ticket
             /\ requests[i].stage = "running" => /\ runs[requests[i].run].request = i
                                                 /\ runs[requests[i].run].status = "running"
             /\ requests[i].stage = "answered" => runs[requests[i].run].status = "done"
Stores == \A c \in Clients, d \in Ids : stored[<<c, d>>] # None =>
            /\ stored[<<c, d>>] \in DOMAIN runs
            /\ runs[stored[<<c, d>>]].status = "done"
            /\ runs[stored[<<c, d>>]].client = c /\ runs[stored[<<c, d>>]].ticket = d
Asked == \A r \in DOMAIN runs :
           /\ runs[r].request \in DOMAIN requests
           /\ requests[runs[r].request].ticket = runs[r].ticket
           /\ requests[runs[r].request].message = runs[r].message
           /\ requests[runs[r].request].stage # "sent"
           /\ requests[runs[r].request].stage = "running" => requests[runs[r].request].run = r
           /\ requests[runs[r].request].stage = "refused" => runs[r].status = "raised"
OneEach == \A r, s \in DOMAIN runs : runs[r].request = runs[s].request => r = s
ServiceInv == Replies /\ Stores /\ Asked /\ OneEach

(* An id drawn once belongs to one page while that page is there: it has sent  *)
(* everything that carries it, one request after the other, and a new one only *)
(* when the one before was refused or given up.                                *)
Fresh == \A d \in Ids : made[d] = 0 =>
           /\ \A t \in Tabs : desk[t] # None => desk[t].id # d
           /\ \A i \in DOMAIN requests : requests[i].ticket # d
Single == \A t \in Tabs : desk[t] # None /\ made[desk[t].id] = 1 =>
            /\ \A u \in Tabs : desk[u] # None /\ desk[u].id = desk[t].id => u = t
            /\ \A i \in DOMAIN requests : requests[i].ticket = desk[t].id =>
                 requests[i].tab = t /\ requests[i].message \in desk[t].sent
InTurn == \A i, j \in DOMAIN requests :
            i < j /\ requests[i].ticket = requests[j].ticket /\ made[requests[i].ticket] = 1 =>
              /\ requests[i].outcome # None
              /\ requests[i].outcome = "heard" => requests[i].stage = "refused"
Accepted == \A i \in DOMAIN requests :
              /\ requests[i].outcome = "heard" /\ requests[i].stage = "answered"
              /\ made[requests[i].ticket] = 1
              => \A t \in Tabs : desk[t] # None /\ desk[t].id = requests[i].ticket =>
                                   desk[t].result # None
IdInv == Fresh /\ Single /\ InTurn /\ Accepted

DeskInv == Typed /\ PageInv /\ ServiceInv /\ IdInv

-----------------------------------------------------------------------------
(* What the steps do.                                                          *)
SameIds == requests' = requests /\ desk' = desk /\ made' = made
Still == SameIds /\ runs' = runs /\ stored' = stored
Closed(t) == /\ desk' = [desk EXCEPT ![t] = None] /\ requests' = Abandon(t)
             /\ runs' = runs /\ stored' = stored /\ made' = made
Opened(t) == /\ desk[t] = None \/ desk[t].result # None
             /\ desk' = [desk EXCEPT ![t] = Page(clock)]
             /\ made' = [made EXCEPT ![clock] = @ + 1]
             /\ requests' = requests /\ runs' = runs /\ stored' = stored
Serves == \E i \in 1..MaxRequests : Receive(i) \/ RunReturns(i) \/ RunRaises(i)

LEMMA Steps ==
  ASSUME [Next]_vars
  PROVE  \/ Still
         \/ \E t \in Tabs : Closed(t) \/ Opened(t)
         \/ \E t \in Tabs, m \in Messages : onSubmit(t, m)
         \/ \E i \in DOMAIN requests : Answered(i) \/ Unreachable(i)
         \/ Serves \/ Restart
  <1>1. CASE \E t \in Tabs, k \in Keys : SignIn(t, k)
    BY <1>1 DEF SignIn, Still, SameIds
  <1>2. CASE \E t \in Tabs : SignOut(t) \/ Reload(t)
    BY <1>2 DEF SignOut, Reload, Closed
  <1>3. CASE \E t \in Tabs : NewTicketPage(t) \/ handleSubmitAnother(t)
    BY <1>3 DEF NewTicketPage, handleSubmitAnother, Draw, generateTicketId, Renewed, Opened
  <1>4. CASE \E i \in 1..MaxRequests : Network(i)
    BY <1>4 DEF Network, Answered, Unreachable
  <1>5. CASE \E i \in 1..MaxRequests : Service(i)
    BY <1>5 DEF Service, Serves
  <1>6. CASE Tick \/ UNCHANGED vars
    BY <1>6 DEF Tick, vars, Still, SameIds
  <1> QED BY <1>1, <1>2, <1>3, <1>4, <1>5, <1>6 DEF Next, User

LEMMA SubmitAt ==
  ASSUME Typed, NEW t \in Tabs, NEW m \in Messages, onSubmit(t, m)
  PROVE  LET n == Len(requests) + 1 IN
         /\ SeqOfRequests /\ DOMAIN requests' = DOMAIN requests \cup {n} /\ n \notin DOMAIN requests
         /\ requests'[n].tab = t /\ requests'[n].ticket = desk[t].id
         /\ requests'[n].message = m /\ requests'[n].stage = "sent" /\ requests'[n].outcome = None
         /\ \A k \in DOMAIN requests : requests'[k] = requests[k]
         /\ desk' \in [Tabs -> PageStates \cup {None}] /\ desk'[t] # None
         /\ desk'[t].id = desk[t].id /\ desk'[t].waits = n
         /\ desk'[t].result = desk[t].result /\ desk'[t].sent = desk[t].sent \cup {m}
         /\ \A u \in Tabs : u # t => desk'[u] = desk[u]
         /\ desk[t] # None /\ desk[t].result = None /\ desk[t].waits = None
         /\ runs' = runs /\ stored' = stored /\ made' = made
  <1> DEFINE n == Len(requests) + 1
             q == [tab |-> t, key |-> storage, ticket |-> desk[t].id, message |-> m,
                   stage |-> "sent", run |-> None, outcome |-> None]
             p == [desk[t] EXCEPT !.waits = n, !.isError = FALSE, !.sent = @ \cup {m}]
  <1>1. /\ desk[t] # None /\ desk[t].result = None /\ desk[t].waits = None
        /\ m \notin Refused /\ Len(requests) < MaxRequests
        /\ runs' = runs /\ stored' = stored /\ made' = made
    BY DEF onSubmit, Showing, MaySubmit, isSubmitting
  <1>2. desk[t] \in PageStates /\ desk[t].id \in Ids
    BY <1>1, Pages DEF PageStates
  <1>3. n \in 1..MaxRequests
    BY <1>1, BoundsNat DEF Typed
  <1>4. q \in Requests
    BY <1>2 DEF Requests, Typed
  <1>5. requests' = Append(requests, q)
    BY DEF onSubmit
  <1>6. /\ p \in PageStates /\ p.id = desk[t].id /\ p.waits = n /\ p.result = desk[t].result
        /\ p.sent = desk[t].sent \cup {m}
    <2>1. desk[t].sent \cup {m} \in SUBSET (Messages \ Refused)
      BY <1>1, <1>2 DEF PageStates
    <2> HIDE DEF n
    <2> QED BY <1>2, <1>3, <2>1 DEF PageStates
  <1>7. desk' = [desk EXCEPT ![t] = p]
    BY DEF onSubmit, Typed
  <1>8. q.tab = t /\ q.ticket = desk[t].id /\ q.message = m /\ q.stage = "sent" /\ q.outcome = None
    OBVIOUS
  <1> HIDE DEF p, q
  <1>9. /\ SeqOfRequests /\ DOMAIN requests' = DOMAIN requests \cup {n} /\ n \notin DOMAIN requests
        /\ requests'[n] = q /\ \A k \in DOMAIN requests : requests'[k] = requests[k]
    BY <1>1, <1>4, <1>5, SubmittedAt
  <1>10. /\ desk' \in [Tabs -> PageStates \cup {None}] /\ desk'[t] = p
         /\ \A u \in Tabs : u # t => desk'[u] = desk[u]
    BY <1>6, <1>7 DEF Typed
  <1>11. p # None
    BY <1>6, Pages
  <1> HIDE DEF n
  <1> QED BY <1>1, <1>6, <1>8, <1>9, <1>10, <1>11 DEF n

LEMMA HeardAt ==
  ASSUME Typed, PageInv, NEW i \in DOMAIN requests, Answered(i) \/ Unreachable(i)
  PROVE  LET u == requests[i].tab IN
         /\ requests[i].outcome = None /\ SeqOfRequests /\ SameAsks /\ SameStages
         /\ \A k \in DOMAIN requests : k # i => requests'[k] = requests[k]
         /\ requests'[i].outcome \in {"heard", "unheard"}
         /\ requests'[i].outcome = "heard" => requests[i].stage \in {"answered", "refused"}
         /\ desk' \in [Tabs -> PageStates \cup {None}] /\ desk[u] # None /\ desk'[u] # None
         /\ desk'[u].id = desk[u].id /\ desk'[u].sent = desk[u].sent /\ desk'[u].waits = None
         /\ desk'[u].result = IF requests'[i].outcome = "heard" /\ requests[i].stage = "answered"
                              THEN i ELSE desk[u].result
         /\ \A v \in Tabs : v # u => desk'[v] = desk[v]
         /\ u \in Tabs /\ runs' = runs /\ stored' = stored /\ made' = made
  <1> DEFINE u == requests[i].tab
  <1>1. requests[i].outcome = None /\ u \in Tabs /\ i \in 1..MaxRequests
    <2>1. requests[i].outcome = None
      BY DEF Answered, Unreachable, Heard
    <2> QED BY <2>1, At DEF Requests
  <1>2. desk[u] # None /\ desk[u] \in PageStates
    BY <1>1, Pages DEF PageInv, Waits
  <1> HIDE DEF u
  <1>3. PICK p \in PageStates, o \in {"heard", "unheard"} :
          /\ desk' = [desk EXCEPT ![u] = p] /\ requests' = Ended(i, o)
          /\ p.id = desk[u].id /\ p.sent = desk[u].sent /\ p.waits = None
          /\ p.result = IF o = "heard" /\ requests[i].stage = "answered" THEN i ELSE desk[u].result
          /\ o = "heard" => requests[i].stage \in {"answered", "refused"}
    <2> DEFINE a == [desk[u] EXCEPT !.waits = None, !.result = i]
               f == Failed(desk[u])
    <2>1. /\ a \in PageStates /\ a.id = desk[u].id /\ a.sent = desk[u].sent /\ a.waits = None
          /\ a.result = i
      BY <1>1, <1>2 DEF PageStates
    <2>2. /\ f \in PageStates /\ f.id = desk[u].id /\ f.sent = desk[u].sent /\ f.waits = None
          /\ f.result = desk[u].result
      BY <1>2 DEF PageStates, Failed
    <2>3. CASE Answered(i) /\ requests[i].stage = "answered"
      <3>1. desk' = [desk EXCEPT ![u] = a] /\ requests' = Ended(i, "heard")
        BY <2>3 DEF Answered, Heard, Ended, u
      <3> QED BY <2>1, <2>3, <3>1
    <2>4. CASE Answered(i) /\ requests[i].stage # "answered"
      <3>1. /\ desk' = [desk EXCEPT ![u] = f] /\ requests' = Ended(i, "heard")
            /\ requests[i].stage = "refused"
        BY <2>4 DEF Answered, Heard, Ended, u
      <3> QED BY <2>2, <2>4, <3>1
    <2>5. CASE Unreachable(i)
      <3>1. desk' = [desk EXCEPT ![u] = f] /\ requests' = Ended(i, "unheard")
        BY <2>5 DEF Unreachable, Heard, Ended, u
      <3> QED BY <2>2, <3>1
    <2> QED BY <2>3, <2>4, <2>5
  <1>4. /\ SeqOfRequests /\ SameAsks /\ SameStages /\ requests'[i].outcome = o
        /\ \A k \in DOMAIN requests : k # i => requests'[k] = requests[k]
    BY <1>3, EndedAt
  <1>5. /\ desk' \in [Tabs -> PageStates \cup {None}] /\ desk'[u] = p /\ p # None
        /\ \A v \in Tabs : v # u => desk'[v] = desk[v]
    BY <1>1, <1>3, Pages DEF Typed
  <1>6. runs' = runs /\ stored' = stored /\ made' = made
    BY DEF Answered, Unreachable, Heard
  <1> QED BY <1>1, <1>2, <1>3, <1>4, <1>5, <1>6 DEF u

-----------------------------------------------------------------------------
(* The service keeps its own invariant, whatever the pages do meanwhile.       *)
Seen(k) == requests[k].stage \in {"answered", "refused"}
SeenStays == \A k \in DOMAIN requests : Seen(k) => /\ requests'[k].stage = requests[k].stage
                                                   /\ requests'[k].run = requests[k].run
SeqOfRuns == runs' \in Seq(Runs)
Served == /\ SeqOfRequests /\ SameAsks /\ SameEnds /\ SeenStays /\ SeqOfRuns
          /\ stored' \in [Clients \X Ids -> Nat \cup {None}]
          /\ desk' = desk /\ made' = made
SameRuns == /\ DOMAIN runs' = DOMAIN runs
            /\ \A r \in DOMAIN runs :
                 /\ runs'[r].client = runs[r].client /\ runs'[r].ticket = runs[r].ticket
                 /\ runs'[r].message = runs[r].message /\ runs'[r].request = runs[r].request

\* Runs are not undone, and one that failed has failed; a request begins one at most.
RunsGoOn == \A r \in DOMAIN runs :
              /\ r \in DOMAIN runs'
              /\ runs'[r].client = runs[r].client /\ runs'[r].ticket = runs[r].ticket
              /\ runs'[r].request = runs[r].request
              /\ runs[r].status \in {"raised", "lost"} => runs'[r].status = runs[r].status
Begins(i) == /\ requests[i].stage = "sent"
             /\ DOMAIN runs' = DOMAIN runs \cup {Len(runs) + 1}
             /\ runs'[Len(runs) + 1].request = i

LEMMA ServiceKept ==
  ASSUME ServiceInv, runs' = runs, stored' = stored, SameStages,
         DOMAIN requests \subseteq DOMAIN requests',
         \A k \in DOMAIN requests' \ DOMAIN requests : requests'[k].stage = "sent",
         \A k \in DOMAIN requests : /\ requests'[k].key = requests[k].key
                                    /\ requests'[k].ticket = requests[k].ticket
                                    /\ requests'[k].message = requests[k].message
  PROVE  ServiceInv'
  <1>1. Replies'
    BY DEF ServiceInv, Replies, SameStages
  <1>2. Stores' /\ OneEach'
    BY DEF ServiceInv, Stores, OneEach
  <1>3. Asked'
    BY DEF ServiceInv, Asked, SameStages
  <1> QED BY <1>1, <1>2, <1>3 DEF ServiceInv

Turned(r, st) == [runs EXCEPT ![r].status = st]
LEMMA StatusAt ==
  ASSUME Typed, NEW r \in DOMAIN runs, NEW st \in {"running", "done", "raised", "lost"},
         runs' = Turned(r, st)
  PROVE  /\ SeqOfRuns /\ SameRuns /\ runs'[r].status = st
         /\ \A k \in DOMAIN runs : k # r => runs'[k] = runs[k]
  <1> DEFINE q == [runs[r] EXCEPT !.status = st]
  <1>1. runs[r] \in Runs
    BY At
  <1>2. /\ q \in Runs /\ q.status = st /\ q.client = runs[r].client /\ q.ticket = runs[r].ticket
        /\ q.message = runs[r].message /\ q.request = runs[r].request
    BY <1>1 DEF Runs
  <1>3. runs' = [runs EXCEPT ![r] = q]
    BY DEF Turned
  <1> HIDE DEF q
  <1>4. /\ runs' \in Seq(Runs) /\ DOMAIN runs' = DOMAIN runs /\ runs'[r] = q
        /\ \A k \in DOMAIN runs : k # r => runs'[k] = runs[k]
    BY <1>2, <1>3, Patched DEF Typed
  <1> QED BY <1>2, <1>4 DEF SeqOfRuns, SameRuns

LEMMA StoredType ==
  Typed => \A k \in DOMAIN ApiKeys, d \in Ids : /\ ApiKeys[k] \in Clients
                                                /\ stored[<<ApiKeys[k], d>>] \in Nat \cup {None}
  BY DEF Typed, Clients

LEMMA RepliedFrame ==
  ASSUME Typed, NEW i \in DOMAIN requests, ~Seen(i), NEW stage \in StageNames, NEW r \in Nat \cup {None},
         requests' = Replied(i, stage, r), SeqOfRuns,
         stored' \in [Clients \X Ids -> Nat \cup {None}], desk' = desk, made' = made
  PROVE  Served
  BY RepliedAt DEF Served, SeenStays, Seen

LEMMA Refuses ==
  ASSUME Typed, ServiceInv, NEW i \in DOMAIN requests, requests[i].stage = "sent",
         requests' = Replied(i, "refused", None), runs' = runs, stored' = stored
  PROVE  ServiceInv'
  <1>1. /\ SameAsks /\ requests'[i].stage = "refused"
        /\ \A k \in DOMAIN requests : k # i => requests'[k] = requests[k]
    BY RepliedAt DEF StageNames
  <1>2. Replies'
    BY <1>1 DEF ServiceInv, Replies, SameAsks
  <1>3. Stores' /\ OneEach'
    BY DEF ServiceInv, Stores, OneEach
  <1>4. Asked'
    BY <1>1 DEF ServiceInv, Asked, SameAsks
  <1> QED BY <1>2, <1>3, <1>4 DEF ServiceInv

LEMMA Replays ==
  ASSUME Typed, ServiceInv, NEW i \in DOMAIN requests, requests[i].stage = "sent",
         requests[i].key \in DOMAIN ApiKeys,
         NEW n \in Nat, n = stored[<<ApiKeys[requests[i].key], requests[i].ticket>>], n # None,
         requests' = Replied(i, "answered", n), runs' = runs, stored' = stored
  PROVE  ServiceInv'
  <1>1. /\ SameAsks /\ requests'[i].stage = "answered" /\ requests'[i].run = n
        /\ \A k \in DOMAIN requests : k # i => requests'[k] = requests[k]
    BY ZenonT(30), RepliedAt DEF StageNames
  <1>2. /\ requests[i].ticket \in Ids /\ ApiKeys[requests[i].key] \in Clients
    BY At, StoredType DEF Requests
  <1>3. /\ n \in DOMAIN runs /\ runs[n].status = "done"
        /\ runs[n].client = ApiKeys[requests[i].key] /\ runs[n].ticket = requests[i].ticket
    BY <1>2 DEF ServiceInv, Stores
  <1>4. Replies'
    BY SMTT(30), <1>1, <1>3 DEF ServiceInv, Replies, SameAsks
  <1>5. Stores' /\ OneEach'
    BY DEF ServiceInv, Stores, OneEach
  <1>6. Asked'
    BY <1>1 DEF ServiceInv, Asked, SameAsks
  <1> QED BY <1>4, <1>5, <1>6 DEF ServiceInv

LEMMA Starts ==
  ASSUME Typed, ServiceInv, NEW i \in DOMAIN requests, requests[i].stage = "sent",
         requests[i].key \in DOMAIN ApiKeys,
         requests' = Replied(i, "running", Len(runs) + 1),
         runs' = Append(runs, [client |-> ApiKeys[requests[i].key], ticket |-> requests[i].ticket,
                               message |-> requests[i].message, request |-> i,
                               status |-> "running"]),
         stored' = stored
  PROVE  /\ ServiceInv' /\ SeqOfRuns
         /\ DOMAIN runs' = DOMAIN runs \cup {Len(runs) + 1} /\ runs'[Len(runs) + 1].request = i
         /\ \A r \in DOMAIN runs : runs'[r] = runs[r]
  <1> DEFINE n == Len(runs) + 1
             q == [client |-> ApiKeys[requests[i].key], ticket |-> requests[i].ticket,
                   message |-> requests[i].message, request |-> i, status |-> "running"]
  <1>1. n \in Nat /\ Len(runs) \in Nat /\ DOMAIN runs = 1..Len(runs) /\ runs \in Seq(Runs)
    BY At DEF Typed
  <1>2. q \in Runs
    BY At, StoredType DEF Runs, Requests
  <1>3. /\ q.client = ApiKeys[requests[i].key] /\ q.ticket = requests[i].ticket
        /\ q.message = requests[i].message /\ q.request = i /\ q.status = "running"
    OBVIOUS
  <1> HIDE DEF q
  <1>4. /\ SeqOfRuns /\ DOMAIN runs' = DOMAIN runs \cup {n} /\ n \notin DOMAIN runs /\ runs'[n] = q
        /\ \A r \in DOMAIN runs : runs'[r] = runs[r]
    BY <1>1, <1>2 DEF q, SeqOfRuns
  <1>5. /\ SameAsks /\ requests'[i].stage = "running" /\ requests'[i].run = n
        /\ \A k \in DOMAIN requests : k # i => requests'[k] = requests[k]
    BY <1>1, RepliedAt DEF StageNames
  <1> HIDE DEF n
  <1>6. Replies'
    BY <1>3, <1>4, <1>5 DEF ServiceInv, Replies, SameAsks
  <1>7. Stores'
    BY <1>4 DEF ServiceInv, Stores
  <1>8. OneEach'
    BY <1>3, <1>4 DEF ServiceInv, OneEach, Asked
  <1>9. Asked'
    BY <1>3, <1>4, <1>5 DEF ServiceInv, Asked, SameAsks
  <1> QED BY <1>3, <1>4, <1>6, <1>7, <1>8, <1>9 DEF ServiceInv, n

LEMMA RunAt ==
  ASSUME Typed, ServiceInv, NEW i \in DOMAIN requests, requests[i].stage = "running"
  PROVE  /\ requests[i].run \in DOMAIN runs /\ requests[i].run \in Nat
         /\ runs[requests[i].run].request = i /\ runs[requests[i].run].status = "running"
         /\ \A s \in DOMAIN runs : s # requests[i].run => runs[s].request # i
         /\ \A k \in DOMAIN requests : k # i /\ requests[k].stage \in {"running", "answered"} =>
              requests[k].run # requests[i].run
  BY At DEF ServiceInv, Replies, OneEach

LEMMA Returns ==
  ASSUME Typed, ServiceInv, NEW i \in DOMAIN requests, RunReturns(i)
  PROVE  ServiceInv' /\ Served /\ DOMAIN runs' = DOMAIN runs /\ RunsGoOn
  <1> DEFINE r == requests[i].run
             key == <<runs[r].client, runs[r].ticket>>
  <1>1. requests[i].stage = "running"
    BY DEF RunReturns
  <1>2. /\ r \in DOMAIN runs /\ r \in Nat /\ runs[r].request = i /\ runs[r].status = "running"
        /\ \A s \in DOMAIN runs : s # r => runs[s].request # i
        /\ \A k \in DOMAIN requests : k # i /\ requests[k].stage \in {"running", "answered"} =>
             requests[k].run # r
    BY <1>1, RunAt
  <1>3. /\ runs' = Turned(r, "done") /\ requests' = Replied(i, "answered", r)
        /\ stored' = [stored EXCEPT ![key] = r] /\ desk' = desk /\ made' = made
    BY DEF RunReturns, Turned
  <1>4. runs[r].client \in Clients /\ runs[r].ticket \in Ids
    BY <1>2, At DEF Runs
  <1> HIDE DEF r
  <1>5. /\ SeqOfRuns /\ SameRuns /\ runs'[r].status = "done"
        /\ \A k \in DOMAIN runs : k # r => runs'[k] = runs[k]
    BY <1>2, <1>3, StatusAt
  <1>6. /\ SameAsks /\ requests'[i].stage = "answered" /\ requests'[i].run = r
        /\ \A k \in DOMAIN requests : k # i => requests'[k] = requests[k]
    BY <1>2, <1>3, RepliedAt DEF StageNames
  <1>7. /\ stored' \in [Clients \X Ids -> Nat \cup {None}]
        /\ \A c \in Clients, d \in Ids : stored'[<<c, d>>] =
             IF c = runs[r].client /\ d = runs[r].ticket THEN r ELSE stored[<<c, d>>]
    BY <1>2, <1>3, <1>4 DEF Typed
  <1>8. Served
    BY <1>1, <1>2, <1>3, <1>5, <1>7, RepliedFrame DEF StageNames, Seen
  <1>9. Replies'
    <2>1. /\ requests[i].key \in DOMAIN ApiKeys /\ runs[r].client = ApiKeys[requests[i].key]
          /\ runs[r].ticket = requests[i].ticket
      BY <1>1 DEF ServiceInv, Replies, r
    <2> QED BY <1>2, <1>5, <1>6, <2>1 DEF ServiceInv, Replies, SameAsks, SameRuns
  <1>10. Stores'
    BY <1>2, <1>5, <1>7 DEF ServiceInv, Stores, SameRuns
  <1>11. OneEach'
    BY <1>5 DEF ServiceInv, OneEach, SameRuns
  <1>12. Asked'
    BY <1>2, <1>5, <1>6 DEF ServiceInv, Asked, SameAsks, SameRuns
  <1>13. RunsGoOn
    BY <1>2, <1>5 DEF RunsGoOn, SameRuns
  <1> QED BY <1>5, <1>8, <1>9, <1>10, <1>11, <1>12, <1>13 DEF ServiceInv, SameRuns

LEMMA Raises ==
  ASSUME Typed, ServiceInv, NEW i \in DOMAIN requests, RunRaises(i)
  PROVE  ServiceInv' /\ Served /\ DOMAIN runs' = DOMAIN runs /\ RunsGoOn
  <1> DEFINE r == requests[i].run
  <1>1. requests[i].stage = "running"
    BY DEF RunRaises
  <1>2. /\ r \in DOMAIN runs /\ r \in Nat /\ runs[r].request = i /\ runs[r].status = "running"
        /\ \A s \in DOMAIN runs : s # r => runs[s].request # i
        /\ \A k \in DOMAIN requests : k # i /\ requests[k].stage \in {"running", "answered"} =>
             requests[k].run # r
    BY <1>1, RunAt
  <1>3. /\ runs' = Turned(r, "raised") /\ requests' = Replied(i, "refused", None)
        /\ stored' = stored /\ desk' = desk /\ made' = made
    BY DEF RunRaises, Turned
  <1> HIDE DEF r
  <1>4. /\ SeqOfRuns /\ SameRuns /\ runs'[r].status = "raised"
        /\ \A k \in DOMAIN runs : k # r => runs'[k] = runs[k]
    BY <1>2, <1>3, StatusAt
  <1>5. /\ SameAsks /\ requests'[i].stage = "refused"
        /\ \A k \in DOMAIN requests : k # i => requests'[k] = requests[k]
    BY <1>3, RepliedAt DEF StageNames
  <1>6. Served
    BY <1>1, <1>3, <1>4, RepliedFrame DEF StageNames, Seen, Typed
  <1>7. Replies'
    <2> SUFFICES ASSUME NEW k \in DOMAIN requests, k # i, requests[k].stage \in {"running", "answered"}
                 PROVE  /\ runs'[requests[k].run] = runs[requests[k].run]
                        /\ requests'[k] = requests[k]
      BY <1>4, <1>5 DEF ServiceInv, Replies, SameAsks, SameRuns
    <2> QED BY <1>2, <1>4, <1>5 DEF ServiceInv, Replies
  <1>8. Stores'
    BY <1>2, <1>3, <1>4 DEF ServiceInv, Stores, SameRuns
  <1>9. OneEach'
    BY <1>4 DEF ServiceInv, OneEach, SameRuns
  <1>10. Asked'
    BY <1>2, <1>4, <1>5 DEF ServiceInv, Asked, SameAsks, SameRuns
  <1>11. RunsGoOn
    BY <1>2, <1>4 DEF RunsGoOn, SameRuns
  <1> QED BY <1>4, <1>6, <1>7, <1>8, <1>9, <1>10, <1>11 DEF ServiceInv, SameRuns

LEMMA Receives ==
  ASSUME Typed, ServiceInv, NEW i \in DOMAIN requests, Receive(i)
  PROVE  ServiceInv' /\ Served /\ RunsGoOn /\ (DOMAIN runs' = DOMAIN runs \/ Begins(i))
  <1> DEFINE c == ClientOf(requests[i].key)
             n == stored[<<c, requests[i].ticket>>]
  <1>1. requests[i].stage = "sent" /\ stored' = stored /\ desk' = desk /\ made' = made
    BY DEF Receive
  <1>2. c # None => requests[i].key \in DOMAIN ApiKeys /\ c = ApiKeys[requests[i].key]
    BY DEF ClientOf
  <1>3. c # None => n \in Nat \cup {None}
    BY <1>2, At, StoredType DEF Requests
  <1>4. \/ requests' = Replied(i, "refused", None) /\ runs' = runs
        \/ c # None /\ n # None /\ requests' = Replied(i, "answered", n) /\ runs' = runs
        \/ /\ c # None /\ requests' = Replied(i, "running", Len(runs) + 1)
           /\ runs' = Append(runs, [client |-> c, ticket |-> requests[i].ticket,
                                    message |-> requests[i].message, request |-> i,
                                    status |-> "running"])
    BY DEF Receive
  <1>5. stored' \in [Clients \X Ids -> Nat \cup {None}] /\ ~Seen(i)
    BY <1>1 DEF Typed, Seen
  <1> HIDE DEF c
  <1>6. CASE requests' = Replied(i, "refused", None) /\ runs' = runs
    <2>1. ServiceInv'
      BY <1>1, <1>6, Refuses
    <2>2. SeqOfRuns
      BY <1>6 DEF SeqOfRuns, Typed
    <2> QED BY <1>1, <1>5, <1>6, <2>1, <2>2, RepliedFrame DEF StageNames, RunsGoOn
  <1>7. CASE c # None /\ n # None /\ requests' = Replied(i, "answered", n) /\ runs' = runs
    <2>1. n \in Nat /\ n = stored[<<ApiKeys[requests[i].key], requests[i].ticket>>]
      BY <1>2, <1>3, <1>7
    <2> HIDE DEF n
    <2>2. ServiceInv'
      BY <1>1, <1>2, <1>7, <2>1, Replays
    <2>3. SeqOfRuns
      BY <1>7 DEF SeqOfRuns, Typed
    <2>4. Served
      BY <1>1, <1>5, <1>7, <2>1, <2>3, RepliedFrame DEF StageNames
    <2> QED BY <1>7, <2>2, <2>4 DEF RunsGoOn
  <1>8. CASE /\ c # None /\ requests' = Replied(i, "running", Len(runs) + 1)
             /\ runs' = Append(runs, [client |-> c, ticket |-> requests[i].ticket,
                                      message |-> requests[i].message, request |-> i,
                                      status |-> "running"])
    <2>1. /\ ServiceInv' /\ SeqOfRuns
          /\ DOMAIN runs' = DOMAIN runs \cup {Len(runs) + 1} /\ runs'[Len(runs) + 1].request = i
          /\ \A r \in DOMAIN runs : runs'[r] = runs[r]
      BY <1>1, <1>2, <1>8, Starts
    <2>2. Len(runs) + 1 \in Nat
      BY At
    <2>3. Served
      BY <1>1, <1>5, <1>8, <2>1, <2>2, RepliedFrame DEF StageNames
    <2>4. RunsGoOn /\ Begins(i)
      BY <1>1, <2>1 DEF RunsGoOn, Begins
    <2> QED BY <2>1, <2>3, <2>4
  <1> QED BY <1>4, <1>6, <1>7, <1>8

LEMMA Restarts ==
  ASSUME Typed, ServiceInv, Restart
  PROVE  ServiceInv' /\ Served /\ DOMAIN runs' = DOMAIN runs /\ RunsGoOn
  <1> DEFINE q(k) == [requests[k] EXCEPT !.stage = IF @ \in {"sent", "running"} THEN "dropped" ELSE @]
             w(r) == [runs[r] EXCEPT !.status = IF @ = "running" THEN "lost" ELSE @]
  <1>1. \A k \in DOMAIN requests :
          /\ q(k) \in Requests
          /\ q(k).tab = requests[k].tab /\ q(k).key = requests[k].key
          /\ q(k).ticket = requests[k].ticket /\ q(k).message = requests[k].message
          /\ q(k).run = requests[k].run /\ q(k).outcome = requests[k].outcome
          /\ q(k).stage = IF requests[k].stage \in {"sent", "running"} THEN "dropped" ELSE requests[k].stage
    BY At DEF Requests
  <1>2. \A r \in DOMAIN runs :
          /\ w(r) \in Runs
          /\ w(r).client = runs[r].client /\ w(r).ticket = runs[r].ticket
          /\ w(r).message = runs[r].message /\ w(r).request = runs[r].request
          /\ w(r).status = IF runs[r].status = "running" THEN "lost" ELSE runs[r].status
    BY At DEF Runs
  <1>3. /\ requests' = [k \in DOMAIN requests |-> q(k)] /\ runs' = [r \in DOMAIN runs |-> w(r)]
        /\ stored' = [ct \in DOMAIN stored |-> None] /\ desk' = desk /\ made' = made
    BY DEF Restart
  <1> HIDE DEF q, w
  <1>4. /\ requests' \in Seq(Requests) /\ Len(requests') = Len(requests)
        /\ DOMAIN requests' = DOMAIN requests /\ \A k \in DOMAIN requests : requests'[k] = q(k)
    <2>1. requests \in Seq(Requests) /\ (\A k \in DOMAIN requests : q(k) \in Requests)
      BY <1>1 DEF Typed
    <2>2. requests' = [k \in DOMAIN requests |-> q(k)]
      BY <1>3
    <2> QED BY <2>1, <2>2
  <1>5. /\ runs' \in Seq(Runs) /\ DOMAIN runs' = DOMAIN runs
        /\ \A r \in DOMAIN runs : runs'[r] = w(r)
    <2>1. runs \in Seq(Runs) /\ (\A r \in DOMAIN runs : w(r) \in Runs)
      BY <1>2 DEF Typed
    <2>2. runs' = [r \in DOMAIN runs |-> w(r)]
      BY <1>3
    <2> QED BY <2>1, <2>2
  <1>6. SameAsks /\ SameEnds /\ SeenStays /\ SeqOfRequests
    BY <1>1, <1>4 DEF SameAsks, SameEnds, SeenStays, Seen, SeqOfRequests, Typed
  <1>7. SameRuns /\ SeqOfRuns
    BY <1>2, <1>5 DEF SameRuns, SeqOfRuns
  <1>8. /\ stored' \in [Clients \X Ids -> Nat \cup {None}]
        /\ \A c \in Clients, d \in Ids : stored'[<<c, d>>] = None
    BY <1>3 DEF Typed
  <1>9. Replies'
    BY <1>1, <1>2, <1>4, <1>5 DEF ServiceInv, Replies
  <1>10. Stores'
    BY <1>8 DEF Stores
  <1>11. OneEach'
    BY <1>7 DEF ServiceInv, OneEach, SameRuns
  <1>12. Asked'
    BY <1>1, <1>2, <1>4, <1>5 DEF ServiceInv, Asked
  <1>13. RunsGoOn
    BY <1>2, <1>5 DEF RunsGoOn
  <1> QED BY <1>3, <1>5, <1>6, <1>7, <1>8, <1>9, <1>10, <1>11, <1>12, <1>13 DEF ServiceInv, Served

-----------------------------------------------------------------------------
(* The pages keep theirs.  What the service does changes nothing they rely on: *)
(* an answer stands.                                                           *)
LEMMA PagesUnmoved ==
  ASSUME PageInv, IdInv, SameAsks, SameEnds, SeenStays, desk' = desk, made' = made
  PROVE  PageInv' /\ IdInv'
  <1>1. Waits' /\ Idle'
    BY DEF PageInv, Waits, Idle, SameAsks, SameEnds
  <1>2. Shows' /\ Final'
    BY DEF PageInv, Shows, Final, SameAsks, SameEnds, SeenStays, Seen
  <1>3. Fresh'
    BY DEF IdInv, Fresh, SameAsks
  <1>4. Single'
    BY DEF IdInv, Single, SameAsks
  <1>5. InTurn'
    BY DEF IdInv, InTurn, SameAsks, SameEnds, SeenStays, Seen
  <1>6. Accepted'
    BY DEF PageInv, Final, IdInv, Accepted, SameAsks, SameEnds, SeenStays, Seen
  <1> QED BY <1>1, <1>2, <1>3, <1>4, <1>5, <1>6 DEF PageInv, IdInv

LEMMA Closes ==
  ASSUME Typed, PageInv, IdInv, NEW t \in Tabs, Closed(t)
  PROVE  PageInv' /\ IdInv'
  <1>1. /\ SameAsks /\ SameStages
        /\ \A k \in DOMAIN requests :
             requests'[k].outcome = IF requests[k].tab = t /\ requests[k].outcome = None
                                    THEN "unheard" ELSE requests[k].outcome
    BY AbandonedAt DEF Closed
  <1>2. /\ desk'[t] = None /\ made' = made
        /\ \A u \in Tabs : u # t => desk'[u] = desk[u]
    BY DEF Closed, Typed
  <1>3. \A k \in DOMAIN requests : requests[k].tab \in Tabs
    BY At DEF Requests
  <1>4. "unheard" # None /\ "heard" # None
    BY NoneType
  <1>5. Waits'
    BY <1>1, <1>2, <1>3, <1>4 DEF PageInv, Waits, SameAsks
  <1>6. Idle'
    BY <1>2 DEF PageInv, Idle
  <1>7. Shows'
    BY <1>1, <1>2 DEF PageInv, Shows, SameAsks, SameStages
  <1>8. Final'
    BY <1>1 DEF PageInv, Final, SameAsks, SameStages
  <1>9. Fresh'
    BY <1>1, <1>2 DEF IdInv, Fresh, SameAsks
  <1>10. Single'
    BY <1>1, <1>2 DEF IdInv, Single, SameAsks
  <1>11. InTurn'
    BY <1>1, <1>2, <1>4 DEF IdInv, InTurn, SameAsks, SameStages
  <1>12. Accepted'
    BY <1>1, <1>2 DEF IdInv, Accepted, SameAsks, SameStages
  <1> QED BY <1>5, <1>6, <1>7, <1>8, <1>9, <1>10, <1>11, <1>12 DEF PageInv, IdInv

LEMMA Opens ==
  ASSUME Typed, PageInv, IdInv, NEW t \in Tabs, Opened(t)
  PROVE  PageInv' /\ IdInv'
  <1> DEFINE p == Page(clock)
  <1>1. /\ clock \in Ids /\ p \in PageStates /\ p # None /\ p.id = clock
        /\ p.waits = None /\ p.result = None
    BY PageType DEF Typed
  <1>2. /\ desk[t] = None \/ desk[t].result # None
        /\ desk' = [desk EXCEPT ![t] = p] /\ made' = [made EXCEPT ![clock] = @ + 1]
        /\ requests' = requests
    BY DEF Opened
  <1> HIDE DEF p
  <1>3. /\ desk'[t] = p /\ \A u \in Tabs : u # t => desk'[u] = desk[u]
    BY <1>2 DEF Typed
  <1>4. /\ \A d \in Ids : d # clock => made'[d] = made[d]
        /\ made'[clock] # 0
        /\ made'[clock] = 1 => made[clock] = 0
    BY <1>1, <1>2 DEF Typed
  <1>5. \A k \in DOMAIN requests : /\ requests[k].tab \in Tabs /\ requests[k].ticket \in Ids /\ k # None
                                   /\ requests[k].outcome = None => requests[k].tab # t
    BY <1>2, At, Pages DEF Requests, PageInv, Waits, Idle
  <1>6. \A u \in Tabs : desk[u] # None => desk[u].id \in Ids
    BY Pages DEF PageStates
  <1>7. made'[clock] = 1 => /\ \A u \in Tabs : desk[u] # None => desk[u].id # clock
                            /\ \A k \in DOMAIN requests : requests[k].ticket # clock
    BY <1>1, <1>4 DEF IdInv, Fresh
  <1>8. Waits'
    BY <1>2, <1>3, <1>5 DEF PageInv, Waits
  <1>9. Idle'
    BY <1>1, <1>3 DEF PageInv, Idle
  <1>10. Shows'
    BY <1>1, <1>2, <1>3 DEF PageInv, Shows
  <1>11. Final'
    BY <1>2 DEF PageInv, Final
  <1>12. Fresh'
    <2> SUFFICES ASSUME NEW d \in Ids, made'[d] = 0
                 PROVE  /\ \A u \in Tabs : desk'[u] # None => desk'[u].id # d
                        /\ \A k \in DOMAIN requests : requests[k].ticket # d
      BY <1>2 DEF Fresh
    <2>1. d # clock /\ made[d] = 0
      BY <1>4
    <2>2. /\ \A u \in Tabs : desk[u] # None => desk[u].id # d
          /\ \A k \in DOMAIN requests : requests[k].ticket # d
      BY <2>1 DEF IdInv, Fresh
    <2> QED BY <1>1, <1>3, <2>1, <2>2
  <1>13. Single'
    <2> SUFFICES ASSUME NEW u \in Tabs, desk'[u] # None, made'[desk'[u].id] = 1
                 PROVE  /\ \A v \in Tabs : desk'[v] # None /\ desk'[v].id = desk'[u].id => v = u
                        /\ \A k \in DOMAIN requests : requests[k].ticket = desk'[u].id =>
                             requests[k].tab = u /\ requests[k].message \in desk'[u].sent
      BY <1>2 DEF Single
    <2>1. CASE u = t
      BY <1>1, <1>3, <1>7, <2>1
    <2>2. CASE u # t
      <3>1. desk'[u] = desk[u] /\ desk[u].id # clock
        BY <1>3, <1>7, <2>2
      <3>2. desk[u] # None /\ made[desk[u].id] = 1
        BY <1>4, <1>6, <3>1
      <3> QED BY <1>1, <1>3, <3>1, <3>2 DEF IdInv, Single
    <2> QED BY <2>1, <2>2
  <1>14. InTurn'
    BY <1>2, <1>4, <1>5, <1>7 DEF IdInv, InTurn
  <1>15. Accepted'
    BY <1>1, <1>2, <1>3, <1>4, <1>5, <1>7 DEF IdInv, Accepted
  <1> QED BY <1>8, <1>9, <1>10, <1>11, <1>12, <1>13, <1>14, <1>15 DEF PageInv, IdInv

LEMMA Submits ==
  ASSUME Typed, PageInv, IdInv, NEW t \in Tabs, NEW m \in Messages, onSubmit(t, m)
  PROVE  PageInv' /\ IdInv'
  <1> DEFINE n == Len(requests) + 1
  <1>1. /\ DOMAIN requests' = DOMAIN requests \cup {n} /\ n \notin DOMAIN requests
        /\ requests'[n].tab = t /\ requests'[n].ticket = desk[t].id
        /\ requests'[n].message = m /\ requests'[n].stage = "sent" /\ requests'[n].outcome = None
        /\ \A k \in DOMAIN requests : requests'[k] = requests[k]
    BY SubmitAt
  <1>2. /\ desk'[t] # None /\ desk'[t].id = desk[t].id /\ desk'[t].waits = n
        /\ desk'[t].result = desk[t].result /\ desk'[t].sent = desk[t].sent \cup {m}
        /\ \A u \in Tabs : u # t => desk'[u] = desk[u]
        /\ desk[t] # None /\ desk[t].result = None /\ desk[t].waits = None
        /\ made' = made
    BY SubmitAt
  <1>3. \A k \in DOMAIN requests : /\ requests[k].tab \in Tabs /\ k # None
                                   /\ requests[k].outcome = None => requests[k].tab # t
                                   /\ k < n /\ ~(n < k)
    BY <1>2, At, Pages DEF Requests, PageInv, Waits
  <1>4. "heard" # None /\ ~(n < n)
    BY NoneType, At
  <1> HIDE DEF n
  <1>5. Waits'
    BY <1>1, <1>2, <1>3 DEF PageInv, Waits
  <1>6. Idle'
    BY <1>2 DEF PageInv, Idle
  <1>7. Shows'
    BY <1>1, <1>2 DEF PageInv, Shows
  <1>8. Final'
    BY <1>1, <1>4 DEF PageInv, Final
  <1>9. Fresh'
    BY <1>1, <1>2 DEF IdInv, Fresh
  <1>10. Single'
    <2> SUFFICES ASSUME NEW u \in Tabs, desk'[u] # None, made[desk'[u].id] = 1
                 PROVE  /\ \A v \in Tabs : desk'[v] # None /\ desk'[v].id = desk'[u].id => v = u
                        /\ \A k \in DOMAIN requests' : requests'[k].ticket = desk'[u].id =>
                             requests'[k].tab = u /\ requests'[k].message \in desk'[u].sent
      BY <1>2 DEF Single
    <2>1. \A v \in Tabs : /\ desk'[v] # None <=> desk[v] # None
                          /\ desk[v] # None => desk'[v].id = desk[v].id /\ desk[v].sent \subseteq desk'[v].sent
      BY <1>2
    <2>2. /\ \A v \in Tabs : desk[v] # None /\ desk[v].id = desk[u].id => v = u
          /\ \A k \in DOMAIN requests : requests[k].ticket = desk[u].id =>
               requests[k].tab = u /\ requests[k].message \in desk[u].sent
      BY <2>1 DEF IdInv, Single
    <2>3. desk[t].id = desk[u].id => u = t
      BY <1>2, <2>2
    <2> QED BY <1>1, <1>2, <2>1, <2>2, <2>3
  <1>11. InTurn'
    <2>1. \A k \in DOMAIN requests : requests[k].ticket = desk[t].id /\ made[desk[t].id] = 1 =>
            /\ requests[k].outcome # None
            /\ requests[k].outcome = "heard" => requests[k].stage = "refused"
      BY <1>2, <1>3 DEF PageInv, Final, IdInv, Single, Accepted
    <2> QED BY <1>1, <1>2, <1>3, <1>4, <2>1 DEF IdInv, InTurn
  <1>12. Accepted'
    BY <1>1, <1>2, <1>4 DEF IdInv, Accepted
  <1> QED BY <1>5, <1>6, <1>7, <1>8, <1>9, <1>10, <1>11, <1>12 DEF PageInv, IdInv

LEMMA Hears ==
  ASSUME Typed, PageInv, IdInv, NEW i \in DOMAIN requests, Answered(i) \/ Unreachable(i)
  PROVE  PageInv' /\ IdInv'
  <1> DEFINE u == requests[i].tab
  <1>1. /\ requests[i].outcome = None /\ SameAsks /\ SameStages
        /\ \A k \in DOMAIN requests : k # i => requests'[k] = requests[k]
        /\ requests'[i].outcome \in {"heard", "unheard"}
        /\ requests'[i].outcome = "heard" => requests[i].stage \in {"answered", "refused"}
    BY HeardAt
  <1>2. /\ desk[u] # None /\ desk'[u] # None
        /\ desk'[u].id = desk[u].id /\ desk'[u].sent = desk[u].sent /\ desk'[u].waits = None
        /\ desk'[u].result = IF requests'[i].outcome = "heard" /\ requests[i].stage = "answered"
                             THEN i ELSE desk[u].result
        /\ \A v \in Tabs : v # u => desk'[v] = desk[v]
        /\ u \in Tabs /\ made' = made
    BY HeardAt
  <1>3. /\ desk[u].waits = i /\ desk[u].id = requests[i].ticket /\ desk[u].result = None
        /\ i # None /\ requests'[i].outcome # None
        /\ \A k \in DOMAIN requests : requests[k].tab \in Tabs
    <2>1. i # None /\ \A k \in DOMAIN requests : requests[k].tab \in Tabs
      BY At, Pages DEF Requests
    <2>2. requests'[i].outcome # None
      BY <1>1, NoneType
    <2>3. desk[u].waits = i /\ desk[u].id = requests[i].ticket
      BY <1>1 DEF PageInv, Waits
    <2> QED BY <1>2, <2>1, <2>2, <2>3 DEF PageInv, Idle
  <1>4. \A k \in DOMAIN requests : /\ requests'[k].tab = requests[k].tab /\ requests'[k].ticket = requests[k].ticket
                                   /\ requests'[k].message = requests[k].message
                                   /\ requests'[k].stage = requests[k].stage
    BY <1>1 DEF SameAsks, SameStages
  <1>5. DOMAIN requests' = DOMAIN requests
    BY <1>1 DEF SameAsks
  <1>6. \A v \in Tabs : /\ desk'[v] # None <=> desk[v] # None
                        /\ desk[v] # None => desk'[v].id = desk[v].id /\ desk[v].sent = desk'[v].sent
    BY <1>2
  <1>7. \A v \in Tabs : desk[v] # None /\ desk[v].result # None => desk'[v].result = desk[v].result
    BY <1>2, <1>3
  <1>8. u = requests[i].tab
    OBVIOUS
  <1> HIDE DEF u
  <1>9. Waits'
    BY <1>1, <1>2, <1>3, <1>4, <1>5 DEF PageInv, Waits
  <1>10. Idle'
    BY <1>2 DEF PageInv, Idle
  <1>11. Shows'
    <2> SUFFICES ASSUME NEW v \in Tabs, desk'[v] # None, desk'[v].result # None
                 PROVE  /\ desk'[v].result \in DOMAIN requests
                        /\ requests[desk'[v].result].tab = v
                        /\ requests[desk'[v].result].stage = "answered"
                        /\ requests[desk'[v].result].ticket = desk'[v].id
      BY <1>4, <1>5 DEF Shows
    <2>1. CASE v = u
      BY <1>2, <1>3, <1>8, <2>1
    <2>2. CASE v # u
      BY <1>2, <2>2 DEF PageInv, Shows
    <2> QED BY <2>1, <2>2
  <1>12. Final'
    BY <1>1, <1>4, <1>5 DEF PageInv, Final
  <1>13. Fresh'
    BY <1>2, <1>4, <1>5, <1>6 DEF IdInv, Fresh
  <1>14. Single'
    BY <1>2, <1>4, <1>5, <1>6 DEF IdInv, Single
  <1>15. InTurn'
    BY <1>1, <1>2, <1>3, <1>4, <1>5 DEF IdInv, InTurn
  <1>16. Accepted'
    <2> SUFFICES ASSUME NEW k \in DOMAIN requests, requests'[k].outcome = "heard",
                        requests[k].stage = "answered", made[requests[k].ticket] = 1,
                        NEW v \in Tabs, desk'[v] # None, desk'[v].id = requests[k].ticket
                 PROVE  desk'[v].result # None
      BY <1>2, <1>4, <1>5 DEF Accepted
    <2>1. desk[v] # None /\ desk[v].id = requests[k].ticket
      BY <1>6
    <2>2. CASE k = i
      <3>1. v = u
        BY <1>2, <1>3, <2>1, <2>2 DEF IdInv, Single
      <3> QED BY <1>2, <1>3, <2>2, <3>1
    <2>3. CASE k # i
      BY <1>1, <1>7, <2>1, <2>3 DEF IdInv, Accepted
    <2> QED BY <2>2, <2>3
  <1> QED BY <1>9, <1>10, <1>11, <1>12, <1>13, <1>14, <1>15, <1>16 DEF PageInv, IdInv

-----------------------------------------------------------------------------
(* The induction.                                                              *)
LEMMA RestTyped ==
  ASSUME Typed, [Next]_vars
  PROVE  /\ clock' \in Ids /\ storage' \in Keys \cup {None} /\ session' \in [Tabs -> BOOLEAN]
         /\ moves' \in Nat /\ restarts' \in Nat
  <1>1. ASSUME NEW t \in Tabs, NEW k \in Keys, SignIn(t, k)
        PROVE  /\ clock' = clock /\ restarts' = restarts /\ storage' = k /\ moves' = moves + 1
               /\ session' = [session EXCEPT ![t] = TRUE]
    BY <1>1 DEF SignIn, Move
  <1>2. ASSUME NEW t \in Tabs, SignOut(t)
        PROVE  /\ clock' = clock /\ restarts' = restarts /\ storage' = None /\ moves' = moves + 1
               /\ session' = [session EXCEPT ![t] = FALSE]
    BY <1>2 DEF SignOut, Move
  <1>3. ASSUME NEW t \in Tabs, Reload(t)
        PROVE  /\ clock' = clock /\ restarts' = restarts /\ storage' = storage /\ moves' = moves + 1
               /\ session' \in [Tabs -> BOOLEAN]
    <2>1. /\ clock' = clock /\ restarts' = restarts /\ storage' = storage /\ moves' = moves + 1
          /\ session' = [session EXCEPT ![t] = storage # None]
      BY <1>3 DEF Reload, Move
    <2>2. session \in [Tabs -> BOOLEAN] /\ (storage # None) \in BOOLEAN
      BY DEF Typed
    <2> QED BY <2>1, <2>2, Zenon
  <1>4. CASE \/ \E t \in Tabs : NewTicketPage(t) \/ handleSubmitAnother(t)
             \/ \E t \in Tabs, m \in Messages : onSubmit(t, m)
    BY <1>4 DEF NewTicketPage, handleSubmitAnother, onSubmit, Typed
  <1>5. CASE \E i \in 1..MaxRequests : Network(i)
    BY <1>5 DEF Network, Answered, Unreachable, Heard, Typed
  <1>6. CASE \E i \in 1..MaxRequests : Service(i)
    BY <1>6 DEF Service, Receive, RunReturns, RunRaises, Typed
  <1>7. CASE Restart
    BY <1>7 DEF Restart, Typed
  <1>8. CASE Tick
    BY <1>8, BoundsNat DEF Tick, Typed, Ids
  <1>9. CASE UNCHANGED vars
    BY <1>9 DEF vars, Typed
  <1>10. CASE \E t \in Tabs : (\E k \in Keys : SignIn(t, k)) \/ SignOut(t) \/ Reload(t)
    <2>1. /\ clock \in Ids /\ storage \in Keys \cup {None} /\ session \in [Tabs -> BOOLEAN]
          /\ moves \in Nat /\ restarts \in Nat
      BY DEF Typed
    <2>2. CASE \E t \in Tabs, k \in Keys : SignIn(t, k)
      <3>1. PICK t \in Tabs, k \in Keys : SignIn(t, k)
        BY <2>2
      <3>2. clock' = clock /\ restarts' = restarts /\ storage' = k /\ moves' = moves + 1
        BY <1>1, <3>1
      <3>3. session' \in [Tabs -> BOOLEAN]
        BY <1>1, <2>1, <3>1, Zenon
      <3>4. moves + 1 \in Nat
        BY <2>1
      <3> QED BY <2>1, <3>1, <3>2, <3>3, <3>4
    <2>3. CASE \E t \in Tabs : SignOut(t)
      <3>1. PICK t \in Tabs : SignOut(t)
        BY <2>3
      <3>2. clock' = clock /\ restarts' = restarts /\ storage' = None /\ moves' = moves + 1
        BY <1>2, <3>1
      <3>3. session' \in [Tabs -> BOOLEAN]
        BY <1>2, <2>1, <3>1, Zenon
      <3>4. moves + 1 \in Nat
        BY <2>1
      <3> QED BY <2>1, <3>2, <3>3, <3>4
    <2>4. CASE \E t \in Tabs : Reload(t)
      <3>1. PICK t \in Tabs : Reload(t)
        BY <2>4
      <3>2. clock' = clock /\ restarts' = restarts /\ storage' = storage /\ moves' = moves + 1
        BY <1>3, <3>1
      <3>3. session' \in [Tabs -> BOOLEAN]
        BY <1>3, <3>1, Zenon
      <3>4. moves + 1 \in Nat
        BY <2>1
      <3> QED BY <2>1, <3>2, <3>3, <3>4
    <2> QED BY <1>10, <2>2, <2>3, <2>4
  <1> QED BY <1>4, <1>5, <1>6, <1>7, <1>8, <1>9, <1>10 DEF Next, User

Placed == /\ desk' \in [Tabs -> PageStates \cup {None}] /\ SeqOfRequests /\ SeqOfRuns
          /\ stored' \in [Clients \X Ids -> Nat \cup {None}] /\ made' \in [Ids -> Nat]

LEMMA StillNext == ASSUME DeskInv, Still
                   PROVE  Placed /\ PageInv' /\ ServiceInv' /\ IdInv'
  <1>1. /\ requests' = requests /\ desk' = desk /\ made' = made /\ runs' = runs /\ stored' = stored
    BY DEF Still, SameIds
  <1>2. Placed
    BY <1>1 DEF Placed, DeskInv, Typed, SeqOfRequests, SeqOfRuns
  <1>3. SameAsks /\ SameEnds /\ SeenStays /\ SameStages
    BY <1>1 DEF SameAsks, SameEnds, SeenStays, SameStages
  <1> QED BY <1>1, <1>2, <1>3, PagesUnmoved, ServiceKept DEF DeskInv

LEMMA ClosedNext == ASSUME DeskInv, NEW t \in Tabs, Closed(t)
                    PROVE  Placed /\ PageInv' /\ ServiceInv' /\ IdInv'
  <1>1. Typed /\ PageInv /\ ServiceInv /\ IdInv
    BY DEF DeskInv
  <1>2. /\ desk' = [desk EXCEPT ![t] = None] /\ requests' = Abandon(t)
        /\ runs' = runs /\ stored' = stored /\ made' = made
    BY DEF Closed
  <1>3. SeqOfRequests /\ SameAsks /\ SameStages
    BY <1>1, <1>2, AbandonedAt
  <1>4. Placed
    BY <1>1, <1>2, <1>3 DEF Placed, Typed, SeqOfRuns
  <1>5. ServiceInv'
    BY <1>1, <1>2, <1>3, ServiceKept DEF SameAsks
  <1> QED BY <1>1, <1>4, <1>5, Closes

LEMMA OpenedNext == ASSUME DeskInv, NEW t \in Tabs, Opened(t)
                    PROVE  Placed /\ PageInv' /\ ServiceInv' /\ IdInv'
  <1>1. Typed /\ PageInv /\ ServiceInv /\ IdInv
    BY DEF DeskInv
  <1>2. /\ desk' = [desk EXCEPT ![t] = Page(clock)] /\ made' = [made EXCEPT ![clock] = @ + 1]
        /\ requests' = requests /\ runs' = runs /\ stored' = stored
    BY DEF Opened
  <1>3. Page(clock) \in PageStates
    BY <1>1, PageType DEF Typed
  <1>4. made' \in [Ids -> Nat] /\ desk' \in [Tabs -> PageStates \cup {None}]
    BY <1>1, <1>2, <1>3 DEF Typed
  <1>5. Placed
    BY <1>1, <1>2, <1>4 DEF Placed, Typed, SeqOfRequests, SeqOfRuns
  <1>6. ServiceInv'
    BY <1>1, <1>2, ServiceKept DEF SameStages
  <1> QED BY <1>1, <1>5, <1>6, Opens

LEMMA SubmitNext == ASSUME DeskInv, NEW t \in Tabs, NEW m \in Messages, onSubmit(t, m)
                    PROVE  Placed /\ PageInv' /\ ServiceInv' /\ IdInv'
  <1>1. Typed /\ PageInv /\ ServiceInv /\ IdInv
    BY DEF DeskInv
  <1> DEFINE n == Len(requests) + 1
  <1>2. /\ SeqOfRequests /\ DOMAIN requests' = DOMAIN requests \cup {n}
        /\ requests'[n].stage = "sent"
        /\ \A k \in DOMAIN requests : requests'[k] = requests[k]
        /\ desk' \in [Tabs -> PageStates \cup {None}]
        /\ runs' = runs /\ stored' = stored /\ made' = made
    BY <1>1, SubmitAt
  <1> HIDE DEF n
  <1>3. Placed
    BY <1>1, <1>2 DEF Placed, Typed, SeqOfRuns
  <1>4. SameStages
    BY <1>2 DEF SameStages
  <1>5. ServiceInv'
    BY <1>1, <1>2, <1>4, ServiceKept
  <1> QED BY <1>1, <1>3, <1>5, Submits

LEMMA HearNext == ASSUME DeskInv, NEW i \in DOMAIN requests, Answered(i) \/ Unreachable(i)
                  PROVE  Placed /\ PageInv' /\ ServiceInv' /\ IdInv'
  <1>1. Typed /\ PageInv /\ ServiceInv /\ IdInv
    BY DEF DeskInv
  <1>2. /\ SeqOfRequests /\ SameAsks /\ SameStages /\ desk' \in [Tabs -> PageStates \cup {None}]
        /\ runs' = runs /\ stored' = stored /\ made' = made
    BY <1>1, HeardAt
  <1>3. Placed
    BY <1>1, <1>2 DEF Placed, Typed, SeqOfRuns
  <1>4. ServiceInv'
    BY <1>1, <1>2, ServiceKept DEF SameAsks
  <1> QED BY <1>1, <1>3, <1>4, Hears

LEMMA ServedNext == ASSUME DeskInv, Serves \/ Restart
                    PROVE  /\ Placed /\ PageInv' /\ ServiceInv' /\ IdInv'
                           /\ Served /\ RunsGoOn
                           /\ DOMAIN runs' = DOMAIN runs \/ \E i \in DOMAIN requests : Begins(i)
  <1>1. Typed /\ PageInv /\ ServiceInv /\ IdInv
    BY DEF DeskInv
  <1>2. /\ ServiceInv' /\ Served /\ RunsGoOn
        /\ DOMAIN runs' = DOMAIN runs \/ \E i \in DOMAIN requests : Begins(i)
    <2>1. CASE Restart
      BY <1>1, <2>1, Restarts
    <2>2. CASE Serves
      <3>1. PICK i \in 1..MaxRequests : Receive(i) \/ RunReturns(i) \/ RunRaises(i)
        BY <2>2 DEF Serves
      <3>2. i \in DOMAIN requests
        BY <3>1 DEF Receive, RunReturns, RunRaises
      <3>3. CASE Receive(i)
        BY <1>1, <3>2, <3>3, Receives
      <3>4. CASE RunReturns(i)
        BY <1>1, <3>2, <3>4, Returns
      <3>5. CASE RunRaises(i)
        BY <1>1, <3>2, <3>5, Raises
      <3> QED BY <3>1, <3>3, <3>4, <3>5
    <2> QED BY <2>1, <2>2
  <1>3. Placed
    BY <1>1, <1>2 DEF Placed, Served, Typed
  <1>4. PageInv' /\ IdInv'
    BY <1>1, <1>2, PagesUnmoved DEF Served
  <1> QED BY <1>2, <1>3, <1>4

LEMMA DeskInit == Init => DeskInv
  <1> SUFFICES ASSUME Init PROVE DeskInv
    OBVIOUS
  <1>1. /\ clock = 0 /\ storage = FirstKey /\ moves = 0 /\ restarts = 0
        /\ session = [t \in Tabs |-> TRUE] /\ desk = [t \in Tabs |-> None]
        /\ requests = <<>> /\ runs = <<>>
        /\ stored = [ct \in Clients \X Ids |-> None] /\ made = [d \in Ids |-> 0]
    BY DEF Init
  <1>2. /\ \A t \in Tabs : desk[t] = None
        /\ DOMAIN requests = {} /\ DOMAIN runs = {}
        /\ \A c \in Clients, d \in Ids : stored[<<c, d>>] = None
    BY <1>1
  <1>3. Typed
    <2>1. clock \in Ids
      BY <1>1, BoundsNat DEF Ids
    <2>2. session \in [Tabs -> BOOLEAN]
      BY <1>1, Zenon
    <2>3. requests \in Seq(Requests) /\ Len(requests) <= MaxRequests /\ runs \in Seq(Runs)
      BY <1>1, BoundsNat
    <2>4. desk \in [Tabs -> PageStates \cup {None}] /\ stored \in [Clients \X Ids -> Nat \cup {None}]
      BY <1>1
    <2> QED BY <1>1, <2>1, <2>2, <2>3, <2>4, KeysType DEF Typed
  <1>4. PageInv
    BY <1>2 DEF PageInv, Waits, Idle, Shows, Final
  <1>5. ServiceInv
    BY <1>2 DEF ServiceInv, Replies, Stores, Asked, OneEach
  <1>6. IdInv
    BY <1>2 DEF IdInv, Fresh, Single, InTurn, Accepted
  <1> QED BY <1>3, <1>4, <1>5, <1>6 DEF DeskInv

LEMMA DeskNext == DeskInv /\ [Next]_vars => DeskInv'
  <1> SUFFICES ASSUME DeskInv, [Next]_vars PROVE DeskInv'
    OBVIOUS
  <1>1. Placed /\ PageInv' /\ ServiceInv' /\ IdInv'
    BY Steps, StillNext, ClosedNext, OpenedNext, SubmitNext, HearNext, ServedNext
  <1>2. Typed'
    BY <1>1, RestTyped DEF DeskInv, Placed, SeqOfRequests, SeqOfRuns, Typed
  <1> QED BY <1>1, <1>2 DEF DeskInv

LEMMA DeskAlways == Spec => []DeskInv
  BY DeskInit, DeskNext, PTL DEF Spec

-----------------------------------------------------------------------------
(* Every variable has its type, a page waits for a request of its own that has *)
(* not been heard, and the service runs a request once at most.                *)
THEOREM TypeCorrect == Spec => []TypeOK
  <1>1. DeskInv => TypeOK
    <2> SUFFICES ASSUME DeskInv PROVE TypeOK
      OBVIOUS
    <2>1. Typed /\ Waits /\ Asked /\ OneEach
      BY DEF DeskInv, PageInv, ServiceInv
    <2>2. /\ DOMAIN requests = 1..Len(requests) /\ DOMAIN runs = 1..Len(runs)
          /\ Len(requests) \in Nat /\ Len(runs) \in Nat
      BY <2>1, At
    <2>3. Len(runs) <= Len(requests)
      <3> DEFINE f == [r \in 1..Len(runs) |-> runs[r].request]
      <3>1. f \in Injection(1..Len(runs), 1..Len(requests))
        BY <2>1, <2>2 DEF Asked, OneEach, Injection, IsInjective
      <3> HIDE DEF f
      <3>2. /\ IsFiniteSet(1..Len(requests)) /\ Cardinality(1..Len(requests)) = Len(requests)
            /\ Cardinality(1..Len(runs)) = Len(runs)
        <4>1. ASSUME NEW n \in Nat PROVE IsFiniteSet(1..n) /\ Cardinality(1..n) = n
          <5>1. IsFiniteSet(1..n) /\ Cardinality(1..n) = IF 1 > n THEN 0 ELSE n - 1 + 1
            BY FS_Interval
          <5> QED BY <5>1
        <4> QED BY <2>2, <4>1
      <3> QED BY <3>1, <3>2, FS_Injection
    <2> QED BY <2>1, <2>3 DEF Typed, Waits, TypeOK
  <1> QED BY <1>1, DeskAlways, PTL

(* The outcome a page shows is that of a finished run for its own ticket and    *)
(* key, and of its own content unless an id was drawn twice or a failed         *)
(* submission edited (new-ticket-page.tsx:58-77, 100-101).                      *)
THEOREM OutcomeIsOwnTheorem == Spec => []OutcomeIsOwn
  <1>1. DeskInv => OutcomeIsOwn
    <2> SUFFICES ASSUME DeskInv, NEW t \in Tabs, desk[t] # None, desk[t].result # None
                 PROVE  LET p == desk[t]  q == requests[p.result]  r == runs[q.run] IN
                        /\ q.tab = t /\ r.status = "done"
                        /\ r.ticket = p.id /\ r.client = ApiKeys[q.key]
                        /\ made[p.id] = 1 => r.message \in p.sent
      BY DEF OutcomeIsOwn
    <2> DEFINE i == desk[t].result
    <2>1. i \in DOMAIN requests /\ requests[i].tab = t /\ requests[i].stage = "answered" /\ requests[i].ticket = desk[t].id
      BY DEF DeskInv, PageInv, Shows
    <2>2. /\ requests[i].run \in DOMAIN runs /\ runs[requests[i].run].status = "done"
          /\ runs[requests[i].run].ticket = desk[t].id
          /\ runs[requests[i].run].client = ApiKeys[requests[i].key]
      BY <2>1 DEF DeskInv, ServiceInv, Replies
    <2>3. made[desk[t].id] = 1 => runs[requests[i].run].message \in desk[t].sent
      BY <2>2 DEF DeskInv, ServiceInv, Asked, IdInv, Single
    <2> QED BY <2>1, <2>2, <2>3
  <1> QED BY <1>1, DeskAlways, PTL

LEMMA CauseNext == DeskInv /\ SecondRunHasCause /\ [Next]_vars => SecondRunHasCause'
  <1> SUFFICES ASSUME DeskInv, SecondRunHasCause, [Next]_vars,
                      NEW r \in DOMAIN runs', NEW s \in DOMAIN runs', r < s,
                      runs'[r].client = runs'[s].client, runs'[r].ticket = runs'[s].ticket,
                      made'[runs'[r].ticket] = 1
               PROVE  \/ runs'[r].status \in {"raised", "lost"}
                      \/ \E n \in {r, s} : requests'[runs'[n].request].outcome = "unheard"
    BY DEF SecondRunHasCause
  <1>1. /\ \A n \in DOMAIN runs : /\ runs[n].request \in DOMAIN requests /\ runs[n].ticket \in Ids
                                  /\ requests[runs[n].request].ticket = runs[n].ticket
                                  /\ requests[runs[n].request].stage # "sent"
                                  /\ requests[runs[n].request].stage = "refused" => runs[n].status = "raised"
    BY At DEF DeskInv, ServiceInv, Asked, Runs
  <1>2. ASSUME runs' = runs, made'[runs[r].ticket] = 1 => made[runs[r].ticket] = 1,
               \A k \in DOMAIN requests : requests[k].outcome = "unheard" => requests'[k].outcome = "unheard"
        PROVE  \/ runs'[r].status \in {"raised", "lost"}
               \/ \E n \in {r, s} : requests'[runs'[n].request].outcome = "unheard"
    BY <1>1, <1>2 DEF SecondRunHasCause
  <1>3. CASE Still
    BY <1>2, <1>3 DEF Still, SameIds
  <1>4. CASE \E t \in Tabs : Closed(t)
    <2>1. PICK t \in Tabs : Closed(t)
      BY <1>4
    <2>2. \A k \in DOMAIN requests : requests[k].outcome = "unheard" => requests'[k].outcome = "unheard"
      BY <2>1, AbandonedAt, NoneType DEF Closed, DeskInv
    <2> QED BY <1>2, <2>1, <2>2 DEF Closed
  <1>5. CASE \E t \in Tabs : Opened(t)
    <2>1. /\ runs' = runs /\ requests' = requests /\ made' = [made EXCEPT ![clock] = @ + 1]
      BY <1>5 DEF Opened
    <2>2. made'[runs[r].ticket] = 1 => made[runs[r].ticket] = 1
      <3>1. made \in [Ids -> Nat] /\ clock \in Ids /\ runs[r].ticket \in Ids
        BY <1>1, <2>1 DEF DeskInv, Typed
      <3>2. made[runs[r].ticket] # 0
        BY <1>1, <2>1, <3>1 DEF DeskInv, IdInv, Fresh
      <3> QED BY <2>1, <3>1, <3>2
    <2> QED BY <1>2, <2>1, <2>2
  <1>6. CASE \E t \in Tabs, m \in Messages : onSubmit(t, m)
    <2>1. /\ runs' = runs /\ made' = made
          /\ \A k \in DOMAIN requests : requests'[k] = requests[k]
      BY <1>6, SubmitAt DEF DeskInv
    <2> QED BY <1>2, <2>1
  <1>7. CASE \E i \in DOMAIN requests : Answered(i) \/ Unreachable(i)
    <2>1. PICK i \in DOMAIN requests : Answered(i) \/ Unreachable(i)
      BY <1>7
    <2>2. /\ requests[i].outcome = None /\ runs' = runs /\ made' = made
          /\ \A k \in DOMAIN requests : k # i => requests'[k] = requests[k]
      BY <2>1, HeardAt DEF DeskInv
    <2> QED BY <1>2, <2>2, NoneType
  <1>8. CASE Serves \/ Restart
    <2>1. /\ ServiceInv' /\ SameAsks /\ SameEnds /\ RunsGoOn /\ made' = made
          /\ DOMAIN runs' = DOMAIN runs \/ \E i \in DOMAIN requests : Begins(i)
      BY <1>8, ServedNext DEF Served
    <2>2. ASSUME r \in DOMAIN runs, s \in DOMAIN runs
          PROVE  \/ runs'[r].status \in {"raised", "lost"}
                 \/ \E n \in {r, s} : requests'[runs'[n].request].outcome = "unheard"
      <3>1. \/ runs[r].status \in {"raised", "lost"}
            \/ \E n \in {r, s} : requests[runs[n].request].outcome = "unheard"
        BY <2>1, <2>2 DEF RunsGoOn, SecondRunHasCause
      <3> QED BY <1>1, <2>1, <2>2, <3>1 DEF RunsGoOn, SameEnds
    <2>3. ASSUME NEW i \in DOMAIN requests, Begins(i), s = Len(runs) + 1, r \in DOMAIN runs
          PROVE  \/ runs'[r].status \in {"raised", "lost"}
                 \/ \E n \in {r, s} : requests'[runs'[n].request].outcome = "unheard"
      <3> DEFINE j == runs[r].request
      <3>1. /\ requests[i].stage = "sent" /\ runs'[s].request = i
            /\ runs'[r].request = j /\ runs'[r].ticket = runs[r].ticket
            /\ runs[r].status = "raised" => runs'[r].status = "raised"
        BY <2>1, <2>3 DEF Begins, RunsGoOn
      <3>2. runs'[s].ticket = requests[i].ticket
        BY <2>1, <3>1 DEF ServiceInv, Asked, SameAsks
      <3>3. /\ j \in DOMAIN requests /\ j # i /\ requests[j].ticket = requests[i].ticket
            /\ requests[j].stage = "refused" => runs[r].status = "raised"
            /\ made[requests[i].ticket] = 1
        BY <1>1, <2>1, <2>3, <3>1, <3>2
      <3>4. i \in Nat /\ j \in Nat /\ requests[i] \in Requests /\ requests[j] \in Requests
        BY <3>3, At DEF DeskInv
      <3>5. /\ requests'[i].outcome = requests[i].outcome /\ requests'[j].outcome = requests[j].outcome
            /\ requests[i].outcome \in {"heard", "unheard", None}
            /\ requests[j].outcome \in {"heard", "unheard", None}
        BY <2>1, <3>3, <3>4 DEF SameEnds, Requests
      <3> HIDE DEF j
      <3>6. CASE i < j
        <4>1. requests[i].outcome = "unheard"
          BY <3>1, <3>3, <3>5, <3>6 DEF DeskInv, IdInv, InTurn
        <4> QED BY <3>1, <3>5, <4>1
      <3>7. CASE j < i
        <4>1. requests[j].outcome = "unheard" \/ requests[j].stage = "refused"
          BY <3>3, <3>5, <3>7 DEF DeskInv, IdInv, InTurn
        <4> QED BY <3>1, <3>3, <3>5, <4>1
      <3> QED BY <3>3, <3>4, <3>6, <3>7
    <2>4. \/ r \in DOMAIN runs /\ s \in DOMAIN runs
          \/ \E i \in DOMAIN requests : Begins(i) /\ s = Len(runs) + 1 /\ r \in DOMAIN runs
      <3>1. DOMAIN runs = 1..Len(runs) /\ Len(runs) \in Nat
        BY At DEF DeskInv
      <3>2. CASE DOMAIN runs' = DOMAIN runs
        BY <3>2
      <3>3. CASE \E i \in DOMAIN requests : Begins(i)
        <4>1. PICK i \in DOMAIN requests : Begins(i)
          BY <3>3
        <4>2. r \in DOMAIN runs \cup {Len(runs) + 1} /\ s \in DOMAIN runs \cup {Len(runs) + 1}
          BY <4>1 DEF Begins
        <4>3. r \in DOMAIN runs
          BY <3>1, <4>2
        <4> QED BY <4>1, <4>2, <4>3
      <3> QED BY <2>1, <3>2, <3>3
    <2> QED BY <2>2, <2>3, <2>4
  <1> QED BY <1>3, <1>4, <1>5, <1>6, <1>7, <1>8, Steps

(* A ticket id that one page drew runs twice for a client only when the earlier *)
(* run failed, or the page gave up one of the two submissions unheard           *)
(* (new-ticket-page.tsx:171-174, 242).                                          *)
THEOREM SecondRunHasCauseTheorem == Spec => []SecondRunHasCause
  <1>1. Init => SecondRunHasCause
    BY DEF Init, SecondRunHasCause
  <1> QED BY <1>1, CauseNext, DeskAlways, PTL DEF Spec
=============================================================================
