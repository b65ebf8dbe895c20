----------------------------- MODULE QueryView ------------------------------
(* What a page promises about an asynchronous answer, whatever the fetching   *)
(* does: what is on screen was asked for by the controls that were on screen  *)
(* when it appeared, and only a new question or its own answer replaces it.   *)
CONSTANTS Questions, Nothing
VARIABLES wanted, got

Init == wanted \in Questions /\ got = Nothing
\* The controls ask another question; its answer may be at hand already.
Want == wanted' \in Questions /\ got' \in {got, wanted'}
\* The answer to what the controls ask arrives.
Arrive == got' = wanted /\ UNCHANGED wanted
Next == Want \/ Arrive
Spec == Init /\ [][Next]_<<wanted, got>>
=============================================================================
