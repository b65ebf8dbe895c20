---------------------------- MODULE MCLLMGateway ----------------------------
(***************************************************************************)
(* Instances of LLMGateway.                                                *)
(***************************************************************************)
EXTENDS LLMGateway, TLC, SequencesExt

(* Chains of two providers, as in default_role_providers; one of them holds *)
(* a provider the gateway has no client for, the other one whose rpm        *)
(* setting is 0 (config.py does not reject it), and a role has no provider. *)
MCRoleProviders == [planner |-> <<"mystery", "nim">>, critic |-> <<"nim", "ollama">>, intake |-> <<>>]
MCMaxCalls == [mystery |-> 60, nim |-> 1, ollama |-> 0]

OneProvider == [planner |-> <<"nim">>]
TwoCalls == [nim |-> 2]

(* The list both limiters keep is in clock order, and there prune is the    *)
(* filter the code writes.                                                  *)
InClockOrder == {ts \in SeqOf(0 .. 4, 4) : \A i \in 2 .. Len(ts) : ts[i - 1] <= ts[i]}
ASSUME PruneIsTheFilter ==
    \A ts \in InClockOrder, cutoff \in -1 .. 4 :
        prune(ts, cutoff) = SelectSeq(ts, LAMBDA x : x > cutoff)

ThreadSymmetry == Permutations(Threads)
=============================================================================
