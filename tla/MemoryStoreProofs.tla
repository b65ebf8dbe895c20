-------------------------- MODULE MemoryStoreProofs --------------------------
(***************************************************************************)
(* Retention, for any writers, clients, entries, failures and clock offset.*)
(***************************************************************************)
EXTENDS MemoryStore, TLAPS

(* The four collections of a client.                                        *)
LEMMA StoresFacts ==
    /\ DOMAIN Stores = 1 .. 4 /\ Len(Stores) = 4
    /\ \A s \in Written : \E k \in 1 .. 4 : Stores[k] = s
  <1>1. DOMAIN Stores = 1 .. 4 /\ Len(Stores) = 4
    BY DEF Stores
  <1>2. Stores[1] = "episodic" /\ Stores[2] = "tool_failure" /\ Stores[3] = "plan_success"
    BY DEF Stores
  <1> QED BY <1>1, <1>2 DEF Written

(* The position the job goes to after a collection.                         *)
LEMMA NextCollectionFacts ==
  ASSUME TypeOK, job # "idle", NextCollection
  PROVE  /\ job' \in {"idle", "get"} /\ store_at' \in DOMAIN Stores
         /\ client_at' \in DOMAIN Targets /\ completed' \in BOOLEAN
  <1>1. /\ Targets \in Seq(Clients) /\ DOMAIN Targets = 1 .. Len(Targets) /\ Len(Targets) \in Nat
        /\ client_at \in DOMAIN Targets /\ store_at \in 1 .. 4
    BY StoreAssumption, StoresFacts DEF TypeOK
  <1> HIDE DEF Stores
  <1>2. CASE store_at < Len(Stores) /\ store_at' = store_at + 1 /\ job' = "get"
             /\ UNCHANGED <<client_at, completed>>
    BY <1>1, <1>2, StoresFacts DEF TypeOK
  <1>3. CASE store_at = Len(Stores) /\ client_at < Len(Targets)
             /\ client_at' = client_at + 1 /\ store_at' = 1 /\ job' = "get" /\ UNCHANGED completed
    BY <1>1, <1>3, StoresFacts DEF TypeOK
  <1>4. CASE store_at = Len(Stores) /\ client_at = Len(Targets)
             /\ job' = "idle" /\ completed' = TRUE /\ UNCHANGED <<client_at, store_at>>
    BY <1>1, <1>4, StoresFacts DEF TypeOK
  <1> QED BY <1>2, <1>3, <1>4 DEF NextCollection

LEMMA TypeStep == TypeOK /\ [Next]_vars => TypeOK'
  <1> SUFFICES ASSUME TypeOK, [Next]_vars PROVE TypeOK'
    OBVIOUS
  <1> USE DEF TypeOK
  <1>1. CASE UNCHANGED vars
    BY <1>1 DEF vars, jobVars
  <1>2. CASE Tick
    BY <1>2 DEF Tick, jobVars
  <1>3. CASE StartJob
    <2>1. Targets # <<>> => 1 \in DOMAIN Targets
      BY StoreAssumption
    <2>2. 1 \in DOMAIN Stores
      BY StoresFacts
    <2>3. cutoff' \in Int
      BY <1>3, StoreAssumption DEF StartJob
    <2> QED BY <1>3, <2>1, <2>2, <2>3 DEF StartJob
  <1>4. CASE Get
    <2>1. old \subseteq Entries
      BY DEF old
    <2>2. CASE old = {}
      <3>1. NextCollection /\ job # "idle"
        BY <1>4, <2>2 DEF Get
      <3>2. /\ job' \in {"idle", "get"} /\ store_at' \in DOMAIN Stores
            /\ client_at' \in DOMAIN Targets /\ completed' \in BOOLEAN
        BY <3>1, NextCollectionFacts
      <3> QED BY <1>4, <2>1, <3>2 DEF Get
    <2>3. CASE old # {}
      BY <1>4, <2>1, <2>3 DEF Get
    <2> QED BY <2>2, <2>3
  <1>5. CASE Delete
    <2>1. NextCollection /\ job # "idle"
      BY <1>5 DEF Delete
    <2>2. /\ job' \in {"idle", "get"} /\ store_at' \in DOMAIN Stores
          /\ client_at' \in DOMAIN Targets /\ completed' \in BOOLEAN
      BY <2>1, NextCollectionFacts
    <2> QED BY <1>5, <2>2 DEF Delete
  <1>6. CASE JobFails
    BY <1>6 DEF JobFails, ChromaRaises
  <1>7. ASSUME NEW w \in Writers, Make(w) PROVE TypeOK'
    <2>1. PICK c \in Clients, s \in Written :
             writing' = [writing EXCEPT ![w] = [id |-> made + 1, client |-> c, store |-> s, at |-> now]]
      BY <1>7 DEF Make
    <2>2. [id |-> made + 1, client |-> c, store |-> s, at |-> now] \in Entries
      BY DEF Entries
    <2> QED BY <1>7, <2>1, <2>2 DEF Make, jobVars
  <1>8. ASSUME NEW w \in Writers, Write(w) PROVE TypeOK'
    <2>1. writing[w] \in Entries
      BY <1>8 DEF Write
    <2> QED BY <1>8, <2>1 DEF Write, jobVars
  <1>9. ASSUME NEW w \in Writers, WriteFails(w) PROVE TypeOK'
    BY <1>9 DEF WriteFails, ChromaRaises, jobVars
  <1> HIDE DEF TypeOK
  <1> QED BY <1>1, <1>2, <1>3, <1>4, <1>5, <1>6, <1>7, <1>8, <1>9 DEF Next

LEMMA InitType == Init => TypeOK
  <1> SUFFICES ASSUME Init PROVE TypeOK
    OBVIOUS
  <1>1. /\ now \in Nat /\ made \in Nat /\ failures \in Nat /\ cutoff \in Int
        /\ client_at = 1 /\ job = "idle"
    BY DEF Init
  <1>5. completed \in BOOLEAN
    BY Zenon DEF Init
  <1>2. entries \subseteq Entries /\ present \subseteq Entries /\ found \subseteq Entries
    BY DEF Init
  <1>3. writing \in [Writers -> Entries \cup {NoEntry}]
    BY DEF Init
  <1>4. store_at \in DOMAIN Stores
    BY StoresFacts DEF Init
  <1> QED BY <1>1, <1>2, <1>3, <1>4, <1>5 DEF TypeOK

(* Every variable keeps its type.                                           *)
THEOREM MemoryTypeCorrect == Spec => []TypeOK
  <1> QED BY InitType, TypeStep, PTL DEF Spec

-----------------------------------------------------------------------------
(* An id names one entry, also among those still to be stored and those     *)
(* the job has in hand.                                                     *)

Known == entries \cup present \cup found

IdInv ==
    /\ \A e \in Known : e.id \in 1 .. made
    /\ \A d, e \in Known : d.id = e.id => d = e
    /\ \A w \in Writers : writing[w] # NoEntry =>
          /\ writing[w].id \in 1 .. made
          /\ \A e \in Known : e.id # writing[w].id
          /\ \A v \in Writers : v # w /\ writing[v] # NoEntry => writing[v].id # writing[w].id

LEMMA IdStep == TypeOK /\ IdInv /\ [Next]_vars => IdInv'
  <1> SUFFICES ASSUME TypeOK, IdInv, [Next]_vars PROVE IdInv'
    OBVIOUS
  <1>1. CASE Known' \subseteq Known /\ UNCHANGED <<made, writing>>
    BY <1>1 DEF IdInv
  <1>2. ASSUME NEW w \in Writers, Make(w) PROVE IdInv'
    <2>1. PICK c \in Clients, s \in Written :
             writing' = [writing EXCEPT ![w] = [id |-> made + 1, client |-> c, store |-> s, at |-> now]]
      BY <1>2 DEF Make
    <2>2. Known' = Known /\ made' = made + 1 /\ made \in Nat
      BY <1>2 DEF Make, jobVars, Known, TypeOK
    <2>3. /\ writing'[w].id = made + 1
          /\ \A v \in Writers : v # w => writing'[v] = writing[v]
      BY <2>1 DEF TypeOK
    <2>4. /\ \A e \in Known : e.id \in 1 .. made /\ e.id \in 1 .. made + 1 /\ e.id # made + 1
          /\ \A v \in Writers : writing[v] # NoEntry =>
                writing[v].id \in 1 .. made + 1 /\ writing[v].id # made + 1
      BY <2>2 DEF IdInv
    <2>5. \A v \in Writers : writing'[v] # NoEntry =>
             /\ writing'[v].id \in 1 .. made + 1
             /\ \A e \in Known : e.id # writing'[v].id
             /\ \A u \in Writers : u # v /\ writing'[u] # NoEntry => writing'[u].id # writing'[v].id
      <3> TAKE v \in Writers
      <3>1. CASE v = w
        BY <2>2, <2>3, <2>4, <3>1
      <3>2. CASE v # w
        BY <2>3, <2>4, <3>2 DEF IdInv
      <3> QED BY <3>1, <3>2
    <2>6. \A d, e \in Known : d.id = e.id => d = e
      BY DEF IdInv
    <2> QED BY <2>2, <2>4, <2>5, <2>6 DEF IdInv
  <1>3. ASSUME NEW w \in Writers, Write(w) PROVE IdInv'
    <2>1. /\ writing[w] # NoEntry /\ entries' = entries \cup {writing[w]}
          /\ UNCHANGED <<made, present, found>>
          /\ writing'[w] = NoEntry /\ \A v \in Writers : v # w => writing'[v] = writing[v]
      BY <1>3 DEF Write, jobVars, TypeOK
    <2>2. Known' = Known \cup {writing[w]}
      BY <2>1 DEF Known
    <2>3. /\ writing[w].id \in 1 .. made
          /\ \A e \in Known : e.id # writing[w].id
          /\ \A v \in Writers : v # w /\ writing[v] # NoEntry => writing[v].id # writing[w].id
      BY <2>1 DEF IdInv
    <2>4. \A e \in Known' : e.id \in 1 .. made
      BY <2>2, <2>3 DEF IdInv
    <2>5. \A d, e \in Known' : d.id = e.id => d = e
      BY <2>2, <2>3 DEF IdInv
    <2>6. \A v \in Writers : writing'[v] # NoEntry =>
             /\ writing'[v].id \in 1 .. made
             /\ \A e \in Known' : e.id # writing'[v].id
             /\ \A u \in Writers : u # v /\ writing'[u] # NoEntry => writing'[u].id # writing'[v].id
      BY <2>1, <2>2, <2>3 DEF IdInv
    <2> QED BY <2>1, <2>4, <2>5, <2>6 DEF IdInv
  <1>4. ASSUME NEW w \in Writers, WriteFails(w) PROVE IdInv'
    <2>1. /\ Known' = Known /\ made' = made
          /\ writing'[w] = NoEntry /\ \A v \in Writers : v # w => writing'[v] = writing[v]
      BY <1>4 DEF WriteFails, jobVars, Known, TypeOK
    <2> QED BY <2>1 DEF IdInv
  <1>5. CASE UNCHANGED vars \/ Tick
    BY <1>1, <1>5 DEF vars, Tick, jobVars, Known
  <1>6. CASE StartJob \/ Get \/ Delete \/ JobFails
    BY <1>1, <1>6 DEF StartJob, Get, Delete, JobFails, Known, old
  <1> QED BY <1>2, <1>3, <1>4, <1>5, <1>6 DEF Next

-----------------------------------------------------------------------------
(* What the job has in hand, and what it has behind it.                     *)

Old(e) == timestamp_epoch(e) < cutoff
Here(e) == e.client = Targets[client_at] /\ e.store = Stores[store_at]
Behind(e) == \E i \in DOMAIN Targets, k \in DOMAIN Stores :
                /\ Targets[i] = e.client /\ Stores[k] = e.store
                /\ i < client_at \/ (i = client_at /\ k < store_at)

JobInv ==
    /\ job # "idle" => ~completed /\ cutoff <= now - MaxAge
    /\ job = "delete" =>
          /\ \A e \in found : Here(e) /\ Old(e)
          /\ \A e \in present \cap entries : Here(e) /\ Old(e) => e \in found
    /\ job # "idle" => \A e \in present : Old(e) /\ Behind(e) => e \notin entries
    /\ completed => \A e \in present : e.client \in Targeted /\ Old(e) => e \notin entries

MemoryInv == TypeOK /\ IdInv /\ JobInv

(* A cutoff that was in the past stays there.                               *)
LEMMA CutoffStaysBehind ==
  ASSUME NEW c \in Int, NEW n \in Nat, NEW m \in Nat, NEW a \in Nat, m >= n, c <= n - a
  PROVE  c <= m - a
  OBVIOUS

(* The writers and the clock do not undo what the job has done: what a      *)
(* writer stores was not there when the run began.                          *)
LEMMA OthersKeepJobInv ==
  ASSUME MemoryInv, UNCHANGED jobVars, now' >= now, now' \in Nat, present \cap entries' \subseteq entries
  PROVE  JobInv'
  <1> USE DEF jobVars
  <1>1. job' # "idle" => ~completed' /\ cutoff' <= now' - MaxAge
    <2>1. job # "idle" => ~completed /\ cutoff <= now - MaxAge
      BY DEF MemoryInv, JobInv
    <2>2. cutoff \in Int /\ now \in Nat /\ MaxAge \in Nat
      BY StoreAssumption DEF MemoryInv, TypeOK
    <2>3. cutoff <= now - MaxAge => cutoff <= now' - MaxAge
      BY <2>2, CutoffStaysBehind
    <2>4. job' = job /\ completed' = completed /\ cutoff' = cutoff
      OBVIOUS
    <2> QED BY <2>1, <2>3, <2>4
  <1>2. \A e : (Here(e)' <=> Here(e)) /\ (Old(e)' <=> Old(e)) /\ (Behind(e)' <=> Behind(e))
    BY DEF Here, Old, Behind
  <1>3. /\ job' = job /\ found' = found /\ present' = present /\ completed' = completed
        /\ client_at' = client_at /\ store_at' = store_at
    OBVIOUS
  <1>4. job' = "delete" =>
          /\ \A e \in found' : Here(e)' /\ Old(e)'
          /\ \A e \in present' \cap entries' : Here(e)' /\ Old(e)' => e \in found'
    BY <1>2, <1>3 DEF MemoryInv, JobInv
  <1>5. job' # "idle" => \A e \in present' : Old(e)' /\ Behind(e)' => e \notin entries'
    BY <1>2, <1>3 DEF MemoryInv, JobInv
  <1>6. completed' => \A e \in present' : e.client \in Targeted /\ Old(e)' => e \notin entries'
    BY <1>2, <1>3 DEF MemoryInv, JobInv
  <1> QED BY <1>1, <1>4, <1>5, <1>6 DEF JobInv

(* A collection with nothing old left is behind the job, and after the last *)
(* one the run is over.                                                     *)
LEMMA CollectionDone ==
  ASSUME MemoryInv, job # "idle", NextCollection, UNCHANGED <<now, cutoff, present>>,
         entries' \subseteq entries,
         \A e \in present \cap entries' : ~(Here(e) /\ Old(e))
  PROVE  JobInv'
  <1>1. /\ Targets \in Seq(Clients) /\ DOMAIN Targets = 1 .. Len(Targets) /\ Len(Targets) \in Nat
        /\ client_at \in 1 .. Len(Targets) /\ store_at \in 1 .. 4
        /\ DOMAIN Stores = 1 .. 4 /\ Len(Stores) = 4
    BY StoreAssumption, StoresFacts DEF MemoryInv, TypeOK
  <1>2. \A e \in present : Old(e) /\ (Behind(e) \/ Here(e)) => e \notin entries'
    BY DEF MemoryInv, JobInv
  <1>3. \A e : Old(e)' <=> Old(e)
    BY DEF Old
  <1>4. ~completed /\ cutoff <= now - MaxAge
    BY DEF MemoryInv, JobInv
  <1>5. CASE store_at < Len(Stores) /\ store_at' = store_at + 1 /\ job' = "get"
             /\ UNCHANGED <<client_at, completed>>
    <2>1. \A e : Behind(e)' => Behind(e) \/ Here(e)
      <3> HIDE DEF Stores
      <3> SUFFICES ASSUME NEW e, NEW i \in DOMAIN Targets, NEW k \in DOMAIN Stores,
                          Targets[i] = e.client, Stores[k] = e.store,
                          i < client_at \/ (i = client_at /\ k < store_at + 1)
                   PROVE  Behind(e) \/ Here(e)
        BY <1>5 DEF Behind
      <3>1. i < client_at \/ (i = client_at /\ k < store_at) \/ (i = client_at /\ k = store_at)
        BY <1>1
      <3> QED BY <3>1 DEF Behind, Here
    <2> QED BY <1>2, <1>3, <1>4, <1>5, <2>1 DEF JobInv
  <1>6. CASE store_at = Len(Stores) /\ client_at < Len(Targets)
             /\ client_at' = client_at + 1 /\ store_at' = 1 /\ job' = "get" /\ UNCHANGED completed
    <2>1. \A e : Behind(e)' => Behind(e) \/ Here(e)
      <3> HIDE DEF Stores
      <3> SUFFICES ASSUME NEW e, NEW i \in DOMAIN Targets, NEW k \in DOMAIN Stores,
                          Targets[i] = e.client, Stores[k] = e.store,
                          i < client_at + 1 \/ (i = client_at + 1 /\ k < 1)
                   PROVE  Behind(e) \/ Here(e)
        BY <1>6 DEF Behind
      <3>1. i < client_at \/ (i = client_at /\ k < store_at) \/ (i = client_at /\ k = store_at)
        BY <1>1, <1>6
      <3> QED BY <3>1 DEF Behind, Here
    <2> QED BY <1>2, <1>3, <1>4, <1>6, <2>1 DEF JobInv
  <1>7. CASE store_at = Len(Stores) /\ client_at = Len(Targets)
             /\ job' = "idle" /\ completed' = TRUE /\ UNCHANGED <<client_at, store_at>>
    <2>1. \A e \in present : e.client \in Targeted => Behind(e) \/ Here(e)
      <3> TAKE e \in present
      <3> HAVE e.client \in Targeted
      <3>1. PICK i \in DOMAIN Targets : Targets[i] = e.client
        BY DEF Targeted
      <3>2. e.store \in Written
        BY DEF MemoryInv, TypeOK, Entries
      <3>3. PICK k \in 1 .. 4 : Stores[k] = e.store
        BY <3>2, StoresFacts
      <3> HIDE DEF Stores
      <3>4. i < client_at \/ (i = client_at /\ k < store_at) \/ (i = client_at /\ k = store_at)
        BY <1>1, <1>7
      <3> QED BY <1>1, <3>1, <3>3, <3>4 DEF Behind, Here
    <2> QED BY <1>2, <1>3, <1>7, <2>1 DEF JobInv
  <1> QED BY <1>5, <1>6, <1>7 DEF NextCollection

LEMMA JobStep == MemoryInv /\ [Next]_vars => JobInv'
  <1> SUFFICES ASSUME MemoryInv, [Next]_vars PROVE JobInv'
    OBVIOUS
  <1>1. CASE UNCHANGED vars \/ Tick
    <2>1. /\ UNCHANGED jobVars /\ now' >= now /\ now' \in Nat /\ entries' = entries
      BY <1>1 DEF vars, Tick, MemoryInv, TypeOK
    <2> QED BY <2>1, OthersKeepJobInv
  <1>2. ASSUME NEW w \in Writers, Make(w) \/ WriteFails(w) PROVE JobInv'
    <2>1. /\ UNCHANGED jobVars /\ now' >= now /\ now' \in Nat /\ entries' = entries
      BY <1>2 DEF Make, WriteFails, MemoryInv, TypeOK
    <2> QED BY <2>1, OthersKeepJobInv
  <1>3. ASSUME NEW w \in Writers, Write(w) PROVE JobInv'
    <2>1. /\ UNCHANGED jobVars /\ now' >= now /\ now' \in Nat
          /\ writing[w] # NoEntry /\ entries' = entries \cup {writing[w]}
      BY <1>3 DEF Write, MemoryInv, TypeOK
    <2>2. writing[w] \notin present
      BY <2>1 DEF MemoryInv, IdInv, Known
    <2> QED BY <2>1, <2>2, OthersKeepJobInv
  <1>4. CASE StartJob
    <2>1. now \in Nat /\ MaxAge \in Nat
      BY StoreAssumption DEF MemoryInv, TypeOK
    <2>2. /\ cutoff' = now - MaxAge /\ now' = now /\ entries' = entries
          /\ client_at' = 1 /\ store_at' = 1
          /\ job' \in {"idle", "get"} /\ (job' # "idle" => ~completed')
          /\ completed' => Targets = <<>>
      BY <1>4 DEF StartJob
    <2>3. \A e : ~Behind(e)'
      <3>1. \A i \in DOMAIN Targets : i \in Nat /\ i >= 1
        BY StoreAssumption
      <3>2. \A k \in DOMAIN Stores : k \in Nat /\ k >= 1
        BY StoresFacts
      <3> HIDE DEF Stores
      <3> QED BY <2>2, <3>1, <3>2 DEF Behind
    <2>4. completed' => Targeted = {}
      BY <2>2 DEF Targeted
    <2> QED BY <2>1, <2>2, <2>3, <2>4 DEF JobInv
  <1>5. CASE Get
    <2>1. CASE old = {}
      BY <1>5, <2>1, CollectionDone DEF Get, old, Here, Old
    <2>2. CASE old # {}
      <3>1. /\ job = "get" /\ job' = "delete" /\ found' = old
            /\ UNCHANGED <<now, entries, cutoff, present, client_at, store_at, completed>>
        BY <1>5, <2>2 DEF Get
      <3>2. \A e : (Here(e)' <=> Here(e)) /\ (Old(e)' <=> Old(e)) /\ (Behind(e)' <=> Behind(e))
        BY <3>1 DEF Here, Old, Behind
      <3>3. \A e : e \in old <=> e \in entries /\ Here(e) /\ Old(e)
        BY DEF old, Here, Old
      <3> QED BY <3>1, <3>2, <3>3 DEF MemoryInv, JobInv
    <2> QED BY <2>1, <2>2
  <1>6. CASE Delete
    <2>1. /\ job = "delete" /\ NextCollection /\ UNCHANGED <<now, cutoff, present>>
          /\ entries' = {e \in entries : \A d \in found : e.id # d.id}
      BY <1>6 DEF Delete
    <2>2. \A e \in present \cap entries' : ~(Here(e) /\ Old(e))
      BY <2>1 DEF MemoryInv, JobInv
    <2> QED BY <2>1, <2>2, CollectionDone
  <1>7. CASE JobFails
    <2>1. /\ job # "idle" /\ job' = "idle"
          /\ UNCHANGED <<now, entries, cutoff, client_at, store_at, found, completed, present>>
      BY <1>7 DEF JobFails
    <2>2. ~completed'
      BY <2>1 DEF MemoryInv, JobInv
    <2> QED BY <2>1, <2>2 DEF JobInv
  <1> QED BY <1>1, <1>2, <1>3, <1>4, <1>5, <1>6, <1>7 DEF Next

LEMMA MemoryInvHolds == Spec => []MemoryInv
  <1>2. Init => IdInv
    BY DEF Init, IdInv, Known
  <1>3. Init => JobInv
    BY DEF Init, JobInv
  <1>4. MemoryInv /\ [Next]_vars => MemoryInv'
    BY TypeStep, IdStep, JobStep DEF MemoryInv
  <1>5. Init => MemoryInv
    BY InitType, <1>2, <1>3 DEF MemoryInv
  <1> QED BY <1>4, <1>5, PTL DEF Spec

(* run_retention: a run that ends without an exception has removed all that *)
(* was too old when it began, whatever the threads wrote meanwhile.         *)
THEOREM CompletedRunsAreThorough == Spec => []CompletedRunLeavesNothingOld
  <1>1. MemoryInv => CompletedRunLeavesNothingOld
    BY DEF MemoryInv, JobInv, Old, CompletedRunLeavesNothingOld
  <1> QED BY <1>1, MemoryInvHolds, PTL

(* ChromaStore.prune: nothing else is ever removed.                         *)
THEOREM PruningIsSafe == Spec => OnlyOldPruned
  <1> DEFINE Safe == \A e \in entries \ entries' : e.client \in Targeted /\ now - e.at > MaxAge - UtcOffset
  <1>1. MemoryInv /\ [Next]_vars => [Safe]_vars
    <2> SUFFICES ASSUME MemoryInv, Next, NEW e \in entries \ entries'
                 PROVE  e.client \in Targeted /\ now - e.at > MaxAge - UtcOffset
      OBVIOUS
    <2>1. Delete
      BY DEF Next, Tick, StartJob, Get, JobFails, Make, Write, WriteFails
    <2>2. job = "delete" /\ entries' = {d \in entries : \A f \in found : d.id # f.id}
      BY <2>1 DEF Delete
    <2>3. PICK f \in found : e.id = f.id
      BY <2>2
    <2>4. e = f
      BY <2>3 DEF MemoryInv, IdInv, Known
    <2>5. Here(e) /\ Old(e) /\ cutoff <= now - MaxAge
      BY <2>2, <2>4 DEF MemoryInv, JobInv
    <2>6. client_at \in DOMAIN Targets /\ e.at \in Nat /\ cutoff \in Int /\ now \in Nat
      BY <2>2 DEF MemoryInv, TypeOK, Entries
    <2>7. e.client \in Targeted
      BY <2>5, <2>6 DEF Here, Targeted
    <2>8. e.at - UtcOffset < cutoff
      BY <2>5 DEF Old, timestamp_epoch
    <2>9. now - e.at > MaxAge - UtcOffset
      BY <2>5, <2>6, <2>8, StoreAssumption
    <2> QED BY <2>7, <2>9
  <1> QED BY <1>1, MemoryInvHolds, PTL DEF Spec, OnlyOldPruned
=============================================================================
