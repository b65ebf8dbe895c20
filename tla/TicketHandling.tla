--------------------------- MODULE TicketHandling ---------------------------
(***************************************************************************)
(* What the pipeline promises for a ticket, whatever it plans, calls and   *)
(* judges: tools answer in the order their dependencies allow, planning    *)
(* rounds are counted, and the ticket ends resolved with every answer it   *)
(* needed or, all rounds used, with a human.  A careful pipeline (one      *)
(* without models) moreover plans only while an answer is missing, and     *)
(* gets none that the ticket does not need.                                *)
(***************************************************************************)
EXTENDS Integers

CONSTANTS AllTools, Requires,   \* Requires: tool -> tools that must have answered before
          Rounds, Careful
VARIABLES phase,                \* "new", "open", "resolved", "escalated", "raised"
          needed, answered, round

Init == phase = "new" /\ needed = {} /\ answered = {} /\ round = 0

Missing == needed \ answered

Accept ==
    /\ phase = "new" /\ phase' = "open"
    /\ needed' \in (SUBSET AllTools) \ {{}}
    /\ UNCHANGED <<answered, round>>

Plan ==
    /\ phase = "open" /\ round < Rounds /\ (Careful => Missing # {})
    /\ round' = round + 1
    /\ UNCHANGED <<phase, needed, answered>>

Answer(t) ==
    /\ phase = "open" /\ round > 0 /\ Requires[t] \subseteq answered
    /\ Careful => t \in needed
    /\ answered' = answered \cup {t}
    /\ UNCHANGED <<phase, needed, round>>

Resolve ==
    /\ phase = "open" /\ Missing = {} /\ phase' = "resolved"
    /\ UNCHANGED <<needed, answered, round>>

Escalate ==
    /\ phase = "open" /\ Missing # {} /\ round = Rounds /\ phase' = "escalated"
    /\ UNCHANGED <<needed, answered, round>>

(* A tool's exception ends the ticket for the caller.                       *)
Raise ==
    /\ phase = "open" /\ round > 0 /\ phase' = "raised"
    /\ UNCHANGED <<needed, answered, round>>

Next == Accept \/ Plan \/ (\E t \in AllTools : Answer(t)) \/ Resolve \/ Escalate \/ Raise

Spec == Init /\ [][Next]_<<phase, needed, answered, round>>
=============================================================================
