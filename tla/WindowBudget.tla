---------------------------- MODULE WindowBudget ----------------------------
(***************************************************************************)
(* What a rate limiter promises, however it keeps its books and whoever    *)
(* asks it: an owner is granted only what its grants of the last window    *)
(* leave of its limit.                                                     *)
(***************************************************************************)
EXTENDS Integers, Sequences, FiniteSets

CONSTANTS Owners, Limit, Window      \* Limit: owner -> grants per window
VARIABLES now, granted               \* owner -> the times of its grants

None == [o \in Owners |-> <<>>]
Init == now = 0 /\ granted = None

(* What an owner has spent of its limit.                                    *)
InWindow(g, t, W) == {i \in DOMAIN g : g[i] > t - W}
Spent(o) == Cardinality(InWindow(granted[o], now, Window))

Grant(o) ==
    /\ Spent(o) < Limit[o]
    /\ granted' = [granted EXCEPT ![o] = Append(@, now)]
    /\ UNCHANGED now

Advance == now' = now + 1 /\ UNCHANGED granted

(* Budgets live in memory: a new process starts with none spent.            *)
Forget == granted' = None /\ UNCHANGED now

Next == Advance \/ Forget \/ \E o \in Owners : Grant(o)

Spec == Init /\ [][Next]_<<now, granted>>
=============================================================================
