---------------------------- MODULE MCTicketApi ----------------------------
(***************************************************************************)
(* Instances of TicketApi, and the statement of idempotency.py's docstring *)
(* the code does not keep.                                                 *)
(***************************************************************************)
EXTENDS TicketApi, TLC

(* Two tenants and a caller whose key is missing or wrong.                  *)
MCApiKeys == [key1 |-> "acme", key2 |-> "globex"]
OneKey == [key1 |-> "acme"]

HandlerSymmetry == Permutations(Handlers)
-----------------------------------------------------------------------------
(* idempotency.py:1-2 "a crash mid-DAG or a client retry after a dropped    *)
(* response must not re-dispatch tools": in the life of one process, the    *)
(* tools of a ticket are dispatched by one run.                             *)
DispatchedOnce ==
    \A r, s \in DOMAIN runs :
        /\ runs[r].dispatched /\ runs[s].dispatched
        /\ runs[r].client = runs[s].client /\ runs[r].ticket = runs[s].ticket
        => r = s
=============================================================================
