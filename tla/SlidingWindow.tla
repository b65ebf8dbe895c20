--------------------------- MODULE SlidingWindow ---------------------------
(***************************************************************************)
(* The list of grant times that _SlidingWindowRateLimiter.acquire          *)
(* (src/core/llm_client.py) and ClientRateLimiter.allow                    *)
(* (src/api/rate_limit.py) keep: both drop the times that left the window  *)
(* before they count.                                                      *)
(***************************************************************************)
EXTENDS Integers, Sequences

(* The first time that is still in the window; one past the end if none is. *)
FirstFresh(ts, cutoff) ==
    CHOOSE k \in 1 .. Len(ts) + 1 :
        /\ k <= Len(ts) => ts[k] > cutoff
        /\ \A i \in 1 .. k - 1 : ts[i] <= cutoff

(* [t for t in timestamps if t > cutoff].  Times are appended under the     *)
(* lock as the clock shows them, so the fresh ones are the end of the list. *)
prune(ts, cutoff) == SubSeq(ts, FirstFresh(ts, cutoff), Len(ts))
=============================================================================
