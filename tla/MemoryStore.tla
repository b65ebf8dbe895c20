----------------------------- MODULE MemoryStore -----------------------------
(***************************************************************************)
(* The clients' memory: src/memory/client_store.py, the writes of          *)
(* src/agents/memory_manager.py and the retention job of                   *)
(* src/jobs/retention.py.  The API's handler threads write entries, one    *)
(* collection per client and kind; the job is another process on the same  *)
(* directory and removes what is too old, one collection after the other,  *)
(* each by a get and a delete, while the threads go on writing.            *)
(*                                                                         *)
(* An entry is stamped when it is made and stored later.  BaseMemoryEntry  *)
(* stamps a naive utcnow(), whose timestamp() takes it for local time.     *)
(* What entries say is left out: retention never reads it.                 *)
(*                                                                         *)
(* present is history: the entries there when the job's run began.         *)
(***************************************************************************)
EXTENDS Integers, Sequences

CONSTANTS
    Writers,         \* handler threads
    Clients,
    Targets,         \* sorted(set(settings.api_keys.values()))
    MaxAge,          \* settings.memory_retention_days
    UtcOffset,       \* how far the host's clock is ahead of UTC
    MaxFailures,     \* bound: Chroma calls that raise
    MaxTime,         \* bound: clock ticks
    MaxEntries       \* bound: entries written

ASSUME StoreAssumption ==
    /\ Targets \in Seq(Clients)
    /\ MaxAge \in Nat /\ UtcOffset \in Int /\ MaxFailures \in Nat
    /\ MaxTime \in Nat /\ MaxEntries \in Nat

(* The collections of a client, in the order prune visits them.  Nothing    *)
(* calls write_escalation yet.                                              *)
Stores == <<"episodic", "tool_failure", "plan_success", "escalation">>
Written == {"episodic", "tool_failure", "plan_success"}

VARIABLES
    now,
    entries,             \* what the collections hold
    failures,            \* Chroma calls that raised so far
    made,                \* entries made so far; the next one's id
    writing,             \* writer -> the entry it is about to store, if any
    job,                 \* "idle", or what the job does next: "get", "delete"
    cutoff,              \* before, of the job's last run
    client_at, store_at, \* the collection the job is at
    found,               \* the ids its get returned
    completed,           \* its last run ended without an exception
    present

jobVars == <<job, cutoff, client_at, store_at, found, completed, present>>
vars == <<now, failures, entries, made, writing, jobVars>>

NoEntry == [id |-> 0, client |-> "none", store |-> "none", at |-> 0]
Targeted == {Targets[i] : i \in DOMAIN Targets}

(* entry.timestamp.timestamp()                                              *)
timestamp_epoch(e) == e.at - UtcOffset

Init ==
    /\ now = 0 /\ failures = 0 /\ entries = {} /\ made = 0
    /\ writing = [w \in Writers |-> NoEntry]
    /\ job = "idle" /\ cutoff = 0 /\ client_at = 1 /\ store_at = 1
    /\ found = {} /\ completed = FALSE /\ present = {}

-----------------------------------------------------------------------------
(* A writer makes an entry, stamped with the time.                          *)
Make(w) ==
    /\ writing[w] = NoEntry /\ made < MaxEntries
    /\ made' = made + 1
    /\ \E c \in Clients, s \in Written :
          writing' = [writing EXCEPT ![w] = [id |-> made + 1, client |-> c, store |-> s, at |-> now]]
    /\ UNCHANGED <<now, failures, entries, jobVars>>

(* ChromaStore.write.                                                       *)
Write(w) ==
    /\ writing[w] # NoEntry
    /\ entries' = entries \cup {writing[w]}
    /\ writing' = [writing EXCEPT ![w] = NoEntry]
    /\ UNCHANGED <<now, failures, made, jobVars>>

ChromaRaises == failures < MaxFailures /\ failures' = failures + 1

(* Chroma raises: the memory manager logs it, and the entry is lost.        *)
WriteFails(w) ==
    /\ writing[w] # NoEntry
    /\ ChromaRaises
    /\ writing' = [writing EXCEPT ![w] = NoEntry]
    /\ UNCHANGED <<now, entries, made, jobVars>>

-----------------------------------------------------------------------------
(* run_retention: the cutoff is taken once, for all clients.                *)
StartJob ==
    /\ job = "idle"
    /\ cutoff' = now - MaxAge
    /\ client_at' = 1 /\ store_at' = 1 /\ found' = {}
    /\ completed' = (Targets = <<>>)
    /\ job' = IF Targets = <<>> THEN "idle" ELSE "get"
    /\ present' = entries
    /\ UNCHANGED <<now, failures, entries, made, writing>>

(* Mutant: a client whose first collection has nothing old is done.         *)
NextCollection_SkipsClient ==
    \/ /\ store_at < Len(Stores) /\ found' # {}
       /\ store_at' = store_at + 1 /\ job' = "get"
       /\ UNCHANGED <<client_at, completed>>
    \/ /\ store_at = Len(Stores) \/ found' = {}
       /\ client_at < Len(Targets)
       /\ client_at' = client_at + 1 /\ store_at' = 1 /\ job' = "get"
       /\ UNCHANGED completed
    \/ /\ store_at = Len(Stores) \/ found' = {}
       /\ client_at = Len(Targets)
       /\ job' = "idle" /\ completed' = TRUE
       /\ UNCHANGED <<client_at, store_at>>

(* Where prune and run_retention go after a collection.                     *)
NextCollection ==
    \/ /\ store_at < Len(Stores)
       /\ store_at' = store_at + 1 /\ job' = "get"
       /\ UNCHANGED <<client_at, completed>>
    \/ /\ store_at = Len(Stores) /\ client_at < Len(Targets)
       /\ client_at' = client_at + 1 /\ store_at' = 1 /\ job' = "get"
       /\ UNCHANGED completed
    \/ /\ store_at = Len(Stores) /\ client_at = Len(Targets)
       /\ job' = "idle" /\ completed' = TRUE
       /\ UNCHANGED <<client_at, store_at>>

(* Mutant: an entry exactly as old as the retention time goes.              *)
old_Inclusive == {e \in entries : /\ e.client = Targets[client_at] /\ e.store = Stores[store_at]
                                  /\ timestamp_epoch(e) <= cutoff}

(* The entries the where clause of ChromaStore.prune matches.               *)
old == {e \in entries : /\ e.client = Targets[client_at] /\ e.store = Stores[store_at]
                        /\ timestamp_epoch(e) < cutoff}

(* ChromaStore.prune: the get; without ids there is no delete.              *)
Get ==
    /\ job = "get"
    /\ found' = old
    /\ IF old = {} THEN NextCollection
       ELSE job' = "delete" /\ UNCHANGED <<client_at, store_at, completed>>
    /\ UNCHANGED <<now, failures, entries, made, writing, cutoff, present>>

(* ChromaStore.prune: the delete, by id.                                    *)
Delete ==
    /\ job = "delete"
    /\ entries' = {e \in entries : \A d \in found : e.id # d.id}
    /\ UNCHANGED <<now, failures, made, writing, cutoff, found, present>>
    /\ NextCollection

(* Mutant: the job stops for good at the first error.                       *)
JobFails_ForGood ==
    /\ job \in {"get", "delete"}
    /\ ChromaRaises
    /\ job' = "stopped"
    /\ UNCHANGED <<now, entries, made, writing, cutoff, client_at, store_at, found, completed, present>>

(* Chroma raises: prune does not catch it, and the collections that are     *)
(* left wait for the job's next run.                                        *)
JobFails ==
    /\ job \in {"get", "delete"}
    /\ ChromaRaises
    /\ job' = "idle"
    /\ UNCHANGED <<now, entries, made, writing, cutoff, client_at, store_at, found, completed, present>>

Tick ==
    /\ now < MaxTime
    /\ now' = now + 1
    /\ UNCHANGED <<failures, entries, made, writing, jobVars>>

Next ==
    \/ Tick \/ StartJob \/ Get \/ Delete \/ JobFails
    \/ \E w \in Writers : Make(w) \/ Write(w) \/ WriteFails(w)

Spec == Init /\ [][Next]_vars

(* The scheduler runs the job again and again, and a storage call returns or*)
(* raises.                                                                  *)
FairSpec == Spec /\ WF_vars(Tick) /\ WF_vars(StartJob) /\ WF_vars(Get \/ Delete)

-----------------------------------------------------------------------------
Entries == [id : Nat, client : Clients, store : Written, at : Nat]

(* Every variable has its type.                                             *)
TypeOK ==
    /\ now \in Nat /\ made \in Nat /\ failures \in Nat
    /\ entries \subseteq Entries /\ present \subseteq Entries /\ found \subseteq Entries
    /\ writing \in [Writers -> Entries \cup {NoEntry}]
    /\ job \in {"idle", "get", "delete"} /\ completed \in BOOLEAN
    /\ cutoff \in Int
    /\ store_at \in DOMAIN Stores
    /\ client_at = 1 \/ client_at \in DOMAIN Targets
    /\ job # "idle" => client_at \in DOMAIN Targets

(* ChromaStore.prune between its get and its delete, with writers at work:  *)
(* what is removed belongs to a configured client and is older than the     *)
(* retention time, but for the hours that the naive timestamp is off.       *)
OnlyOldPruned ==
    [][\A e \in entries \ entries' :
          e.client \in Targeted /\ now - e.at > MaxAge - UtcOffset]_vars

(* run_retention: when a run ends without an exception, nothing is left of  *)
(* what it found too old when it began, in any collection of any configured *)
(* client, whatever was written meanwhile.                                  *)
CompletedRunLeavesNothingOld ==
    completed => \A e \in present :
        e.client \in Targeted /\ timestamp_epoch(e) < cutoff => e \notin entries

(* run_retention: an entry of a configured client that can grow old in the  *)
(* time the clock runs is removed in the end, through failed runs.          *)
OldEntriesGo ==
    \A i \in 1 .. MaxEntries :
        (\E e \in entries : e.id = i /\ e.client \in Targeted /\ timestamp_epoch(e) < MaxTime - MaxAge)
            ~> ~ \E e \in entries : e.id = i
=============================================================================
