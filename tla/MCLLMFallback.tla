--------------------------- MODULE MCLLMFallback ----------------------------
(***************************************************************************)
(* Small instances of LLMFallback for TLC: two extractions for one vendor, *)
(* an event type of another; calls that cost less than the estimate, and   *)
(* calls that cost more than what is left of the budget.                   *)
(***************************************************************************)
EXTENDS LLMFallback, TLC

CONSTANTS v1, v2, p1, p2

MCSymmetry == Permutations(Workers)

Extract(v, p) == [kind |-> "extract", vendor |-> v, payload |-> p]
EventType(v, p) == [kind |-> "event_type", vendor |-> v, payload |-> p]

MixedRequests == {Extract(v1, p1), Extract(v1, p2), EventType(v2, p1)}

OneRequest == {Extract(v1, p1)}

MCCosts == {3, 8}

=============================================================================
