----------------------------- MODULE TicketDesk -----------------------------
(* The New Ticket page in the tabs of one browser, with the session they share *)
(* through localStorage, against POST /v1/tickets.                             *)
(*                                                                             *)
(* A page keeps its ticket id, the idempotency key, while submissions fail,    *)
(* and takes a new one for the next ticket.  An id is the clock in             *)
(* milliseconds, so two tabs may draw the same one.  The service is TicketApi  *)
(* with one step per request where only the order of runs and answers matters: *)
(* a client that stops waiting does not stop the run.                          *)
EXTENDS Naturals, Sequences, FiniteSets
LOCAL INSTANCE Functions

CONSTANTS Tabs,
          Messages, Refused,  \* contents of the form; those ticketFormSchema refuses
          Keys, ApiKeys,      \* keys one may sign in with; settings.api_keys: key -> client
          FirstKey,
          None,
          MaxClock, MaxPages, MaxRequests, MaxMoves, MaxRestarts  \* bounds

ASSUME FormsType == Refused \subseteq Messages
ASSUME KeysType == DOMAIN ApiKeys \subseteq Keys /\ None \notin Keys /\ FirstKey \in Keys
ASSUME BoundsNat == {MaxClock, MaxPages, MaxRequests, MaxMoves, MaxRestarts} \subseteq Nat

VARIABLES clock,
          storage,          \* localStorage: the key of the last sign-in
          session,          \* AuthProvider of each tab: is it authenticated
          desk,             \* the mounted NewTicketPage of each tab
          requests,         \* every submission, in the order they were sent
          runs, stored,     \* pipeline runs; the idempotency cache
          made,             \* ghost: how often each id was drawn
          moves, restarts   \* counts, for the bounds
vars == <<clock, storage, session, desk, requests, runs, stored, made, moves, restarts>>

Ids == 0..MaxClock
Clients == {ApiKeys[k] : k \in DOMAIN ApiKeys}
PageStates == [id : Ids, waits : (1..MaxRequests) \cup {None},
               isError : BOOLEAN, result : (1..MaxRequests) \cup {None},
               sent : SUBSET (Messages \ Refused)]
Requests == [tab : Tabs, key : Keys \cup {None}, ticket : Ids, message : Messages,
             stage : {"sent", "running", "answered", "refused", "dropped"}, run : Nat \cup {None},
             outcome : {"heard", "unheard", None}]
Runs == [client : Clients, ticket : Ids, message : Messages, request : Nat,
         status : {"running", "done", "raised", "lost"}]
ASSUME NoneType == None \notin Nat \cup {"heard", "unheard"} \cup PageStates
-----------------------------------------------------------------------------
(* A mounted page: useState(generateTicketId), no mutation, no result.  What is *)
(* typed matters once it is submitted: onSubmit takes any content.  sent is a   *)
(* ghost: the contents submitted for the ticket in hand. *)
Page(id) == [id |-> id, waits |-> None, isError |-> FALSE, result |-> None,
             sent |-> {}]
generateTicketId == clock
isSubmitting(p) == p.waits # None

\* A new id is drawn; the ids drawn are bounded.
Draw == /\ FoldFunction(+, 0, made) < MaxPages
        /\ made' = [made EXCEPT ![generateTicketId] = @ + 1]

\* A page that unmounts leaves its request to the service.
Abandon(t) == [i \in DOMAIN requests |->
                 IF requests[i].tab = t /\ requests[i].outcome = None
                 THEN [requests[i] EXCEPT !.outcome = "unheard"] ELSE requests[i]]

\* Signing in or out and loading the tab anew are bounded.
Move == moves < MaxMoves /\ moves' = moves + 1

SignIn(t, k) ==
  /\ ~session[t] /\ Move
  /\ storage' = k /\ session' = [session EXCEPT ![t] = TRUE]
  /\ UNCHANGED <<clock, desk, requests, runs, stored, made, restarts>>

\* ProtectedRoute unmounts the page; the other tabs keep their session.
SignOut(t) ==
  /\ session[t] /\ Move
  /\ storage' = None /\ session' = [session EXCEPT ![t] = FALSE]
  /\ desk' = [desk EXCEPT ![t] = None] /\ requests' = Abandon(t)
  /\ UNCHANGED <<clock, runs, stored, made, restarts>>

\* Leaving the page; a new load of the tab takes the session from loadInitialSession.
Reload(t) ==
  /\ session' = [session EXCEPT ![t] = storage # None]
  /\ desk' = [desk EXCEPT ![t] = None] /\ requests' = Abandon(t)
  /\ session' # session \/ desk' # desk
  /\ Move
  /\ UNCHANGED <<clock, storage, runs, stored, made, restarts>>

NewTicketPage(t) ==
  /\ session[t] /\ desk[t] = None /\ Draw
  /\ desk' = [desk EXCEPT ![t] = Page(generateTicketId)]
  /\ UNCHANGED <<clock, storage, session, requests, runs, stored, moves, restarts>>

Showing(t) == desk[t] # None /\ desk[t].result = None
MaySubmit_Twice(t, m) == m \notin Refused   \* mutant: the button stays enabled
MaySubmit(t, m) == m \notin Refused /\ ~isSubmitting(desk[t])

(* onSubmit: the request carries the key apiRequest finds in localStorage now, *)
(* whichever the tab signed in with; a new mutation clears the last error.     *)
onSubmit(t, m) ==
  /\ Showing(t) /\ MaySubmit(t, m) /\ Len(requests) < MaxRequests
  /\ requests' = Append(requests, [tab |-> t, key |-> storage, ticket |-> desk[t].id,
                                   message |-> m, stage |-> "sent",
                                   run |-> None, outcome |-> None])
  /\ desk' = [desk EXCEPT ![t].waits = Len(requests) + 1, ![t].isError = FALSE,
                          ![t].sent = @ \cup {m}]
  /\ UNCHANGED <<clock, storage, session, runs, stored, made, moves, restarts>>

Renewed_SameId(p) == [Page(p.id) EXCEPT !.sent = {}]   \* mutant: setTicketId is forgotten
Renewed(p) == Page(generateTicketId)
handleSubmitAnother(t) ==
  /\ desk[t] # None /\ desk[t].result # None
  /\ desk[t].id < clock                           \* the answer took its time
  /\ Draw
  /\ desk' = [desk EXCEPT ![t] = Renewed(@)]
  /\ UNCHANGED <<clock, storage, session, requests, runs, stored, moves, restarts>>

-----------------------------------------------------------------------------
(* The page hears how its request ended. *)
Heard(i, page) ==
  LET q == requests[i] IN
  /\ q.outcome = None
  /\ desk' = [desk EXCEPT ![q.tab] = page]
  /\ UNCHANGED <<clock, storage, session, runs, stored, made, moves, restarts>>

Failed_Waits(p) == [p EXCEPT !.isError = TRUE]   \* mutant: the button stays disabled
Failed(p) == [p EXCEPT !.waits = None, !.isError = TRUE]
Answered(i) ==
  LET p == desk[requests[i].tab] IN
  /\ i \in DOMAIN requests
  /\ \/ requests[i].stage = "answered" /\ Heard(i, [p EXCEPT !.waits = None, !.result = i])
     \/ requests[i].stage = "refused" /\ Heard(i, Failed(p))
  /\ requests' = [requests EXCEPT ![i].outcome = "heard"]

\* fetch rejects: refused connection, dropped before or after the answer was made.
Unreachable(i) ==
  /\ i \in DOMAIN requests
  /\ Heard(i, Failed(desk[requests[i].tab]))
  /\ requests' = [requests EXCEPT ![i].outcome = "unheard"]

-----------------------------------------------------------------------------
(* submit_ticket, in one step up to the run, and one from its end. *)
ClientOf(k) == IF k \in DOMAIN ApiKeys THEN ApiKeys[k] ELSE None
Replied(i, stage, r) == [requests EXCEPT ![i].stage = stage, ![i].run = r]
Receive(i) ==
  LET q == requests[i]  c == ClientOf(requests[i].key) IN
  /\ i \in DOMAIN requests /\ q.stage = "sent"
  /\ \/ c = None /\ requests' = Replied(i, "refused", None) /\ UNCHANGED runs        \* 401
     \/ /\ c # None /\ stored[<<c, q.ticket>>] # None
        /\ requests' = Replied(i, "answered", stored[<<c, q.ticket>>]) /\ UNCHANGED runs
     \/ /\ c # None /\ stored[<<c, q.ticket>>] = None                               \* 429
        /\ requests' = Replied(i, "refused", None) /\ UNCHANGED runs
     \/ /\ c # None /\ stored[<<c, q.ticket>>] = None
        /\ runs' = Append(runs, [client |-> c, ticket |-> q.ticket, message |-> q.message,
                                 request |-> i, status |-> "running"])
        /\ requests' = Replied(i, "running", Len(runs) + 1)
  /\ UNCHANGED <<clock, storage, session, desk, stored, made, moves, restarts>>

RunReturns(i) ==
  LET r == requests[i].run IN
  /\ i \in DOMAIN requests /\ requests[i].stage = "running"
  /\ runs' = [runs EXCEPT ![r].status = "done"]
  /\ stored' = [stored EXCEPT ![<<runs[r].client, runs[r].ticket>>] = r]
  /\ requests' = Replied(i, "answered", r)
  /\ UNCHANGED <<clock, storage, session, desk, made, moves, restarts>>

RunRaises(i) ==                                                                     \* 502
  /\ i \in DOMAIN requests /\ requests[i].stage = "running"
  /\ runs' = [runs EXCEPT ![requests[i].run].status = "raised"]
  /\ requests' = Replied(i, "refused", None)
  /\ UNCHANGED <<clock, storage, session, desk, stored, made, moves, restarts>>

\* The API process starts anew, with an empty cache; what it had not answered is dropped.
Restart ==
  /\ restarts < MaxRestarts /\ restarts' = restarts + 1
  /\ stored' = [ct \in DOMAIN stored |-> None]
  /\ runs' = [r \in DOMAIN runs |-> [runs[r] EXCEPT !.status = IF @ = "running" THEN "lost" ELSE @]]
  /\ requests' = [i \in DOMAIN requests |->
                    [requests[i] EXCEPT !.stage = IF @ \in {"sent", "running"} THEN "dropped" ELSE @]]
  /\ UNCHANGED <<clock, storage, session, desk, made, moves>>

Tick == /\ clock < MaxClock /\ clock' = clock + 1
        /\ UNCHANGED <<storage, session, desk, requests, runs, stored, made, moves, restarts>>

-----------------------------------------------------------------------------
\* The tabs as the first sign-in left them.
Init ==
  /\ clock = 0 /\ storage = FirstKey /\ moves = 0 /\ restarts = 0
  /\ session = [t \in Tabs |-> TRUE] /\ desk = [t \in Tabs |-> None]
  /\ requests = <<>> /\ runs = <<>>
  /\ stored = [ct \in Clients \X Ids |-> None]
  /\ made = [d \in Ids |-> 0]

User(t) == \/ \E k \in Keys : SignIn(t, k)
           \/ SignOut(t) \/ Reload(t) \/ NewTicketPage(t)
           \/ \E m \in Messages : onSubmit(t, m)
           \/ handleSubmitAnother(t)
Service(i) == Receive(i) \/ RunReturns(i) \/ RunRaises(i)
Network(i) == Answered(i) \/ Unreachable(i)
Settle(i) == /\ i \in DOMAIN requests /\ requests[i].stage \in {"answered", "refused", "dropped"}
             /\ Network(i)
Next == \/ \E t \in Tabs : User(t)
        \/ \E i \in 1..MaxRequests : Service(i) \/ Network(i)
        \/ Restart \/ Tick

(* The service handles what it received, a run ends (PipelineReal), and the    *)
(* browser settles a fetch whose connection was answered or dropped. *)
Spec == /\ Init /\ [][Next]_vars
        /\ \A i \in 1..MaxRequests :
             /\ WF_vars(Service(i))
             /\ WF_vars(Settle(i))
-----------------------------------------------------------------------------
(* Every variable has its type; a page waits for a request of its own that has  *)
(* not been heard. *)
TypeOK ==
  /\ clock \in Ids /\ storage \in Keys \cup {None}
  /\ session \in [Tabs -> BOOLEAN]
  /\ desk \in [Tabs -> PageStates \cup {None}]
  /\ requests \in Seq(Requests) /\ Len(requests) <= MaxRequests
  /\ runs \in Seq(Runs) /\ Len(runs) <= Len(requests)
  /\ stored \in [Clients \X Ids -> Nat \cup {None}]
  /\ made \in [Ids -> Nat] /\ moves \in Nat /\ restarts \in Nat
  /\ \A i \in DOMAIN requests :
       requests[i].outcome = None =>
         desk[requests[i].tab] # None /\ desk[requests[i].tab].waits = i

(* The outcome a page shows is that of a finished run, for the ticket id it     *)
(* shows and the client of the key it sent.  When no other page drew that id    *)
(* and the page submitted the ticket with one content only, it is the outcome   *)
(* of that content, replayed or not (new-ticket-page.tsx:58-77, 100-101).       *)
OutcomeIsOwn ==
  \A t \in Tabs :
    desk[t] # None /\ desk[t].result # None =>
      LET p == desk[t]  q == requests[p.result]  r == runs[q.run] IN
      /\ q.tab = t /\ r.status = "done"
      /\ r.ticket = p.id /\ r.client = ApiKeys[q.key]
      /\ made[p.id] = 1 /\ Cardinality(p.sent) = 1 => r.message \in p.sent

(* A ticket id that one page drew is processed twice for a client only when the *)
(* earlier run failed, or the page gave up one of the two submissions unheard:  *)
(* a heard answer is final, and nothing on the page sends a ticket twice at     *)
(* once (new-ticket-page.tsx:171-174, 242), whatever the service forgets.       *)
SecondRunHasCause ==
  \A r, s \in DOMAIN runs :
    /\ r < s /\ runs[r].client = runs[s].client /\ runs[r].ticket = runs[s].ticket
    /\ made[runs[r].ticket] = 1
    => \/ runs[r].status \in {"raised", "lost"}
       \/ \E n \in {r, s} : requests[runs[n].request].outcome = "unheard"

(* Every submission ends: its page shows an outcome or an error, or is gone. *)
SubmitEnds ==
  \A t \in Tabs : (desk[t] # None /\ desk[t].waits # None) ~>
                    (desk[t] = None \/ desk[t].waits = None)
=============================================================================
