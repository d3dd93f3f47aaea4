---------------------------- MODULE LLMFallback -----------------------------
(***************************************************************************)
(* The calls to the language model (llm/fallback.py): classify_extract and *)
(* classify_event_type of several workers at once, over the shared tables  *)
(* llm_cache and llm_audit. Every statement is its own transaction, so     *)
(* everything a call read may have changed when it writes.                 *)
(*                                                                         *)
(* A request stands for its cache key, which hashes the vendor and the     *)
(* payload (or the raw event type); equal payloads of two events are one   *)
(* request. Of llm_audit the aggregates are kept: today's sums, which the  *)
(* budget guard reads, and the number of 'llm' rows. Money is counted in   *)
(* units of 0.0002 USD. The provider is external: it answers validly,      *)
(* invalidly, or not at all. That it is paid for every call, also for one  *)
(* whose answer nobody uses, is why the calls themselves are counted.      *)
(***************************************************************************)
EXTENDS Integers, FiniteSets

CONSTANTS
    Workers,       \* the attempts that may call at the same time
    Vendors,       \* vendor hints
    Payloads,      \* payloads, and raw event types
    Requests,      \* the requests the vendors give rise to
    Answers,       \* valid answers
    Costs,         \* what an answered call may cost
    MaxCost,       \* and at most
    Budget,        \* llm_global_daily_budget_usd
    VendorBudget,  \* llm_per_vendor_daily_budget_usd
    MayCrash,      \* whether workers may die in a call
    MaxLost,       \* bounds the calls for a request that come to nothing
    None

Request == [kind : {"extract", "event_type"}, vendor : Vendors, payload : Payloads]

ASSUME WorkersAssumption == IsFiniteSet(Workers)

ASSUME RequestsAssumption == Requests \subseteq Request

ASSUME CostsAssumption == MaxCost \in Nat /\ Costs \subseteq 0..MaxCost

ASSUME BudgetAssumption == Budget \in Nat /\ VendorBudget \in Nat

ASSUME MaxLostAssumption == MaxLost \in Nat

ASSUME NoneAssumption == None \notin Answers \cup Requests

VARIABLES
    llm_cache,     \* request -> its cached answer, None without a row
    audited,       \* request -> its llm_audit rows with source 'llm'
    today_total,   \* cost of today's 'llm' rows
    today_vendor,  \* vendor -> cost of its 'llm' rows of today
    pc,            \* the next step of each worker
    request,       \* what it was asked
    answer,        \* the answer it holds
    cost,          \* what that answer cost
    calls,         \* the provider calls of this attempt that were answered
    asked,         \* history: request -> the calls sent to the provider for it
    lost           \* history: those of them whose answer was never cached

ledger == <<audited, today_total, today_vendor>>
history == <<asked, lost>>
vars == <<llm_cache, ledger, pc, request, answer, cost, calls, history>>

TypeOK ==
    /\ llm_cache \in [Requests -> Answers \cup {None}]
    /\ audited \in [Requests -> Nat]
    /\ today_total \in Nat
    /\ today_vendor \in [Vendors -> Nat]
    /\ pc \in [Workers -> {"idle", "lookup", "budget", "complete", "retry", "cache_set", "audit"}]
    /\ request \in [Workers -> Requests \cup {None}]
    /\ answer \in [Workers -> Answers \cup {None}]
    /\ cost \in [Workers -> 0..MaxCost]
    /\ calls \in [Workers -> 0..2]
    /\ asked \in [Requests -> Nat]
    /\ lost \in [Requests -> Nat]
    /\ \A w \in Workers : pc[w] # "idle" => request[w] \in Requests

Init ==
    /\ llm_cache = [r \in Requests |-> None]
    /\ audited = [r \in Requests |-> 0]
    /\ today_total = 0
    /\ today_vendor = [v \in Vendors |-> 0]
    /\ pc = [w \in Workers |-> "idle"]
    /\ request = [w \in Workers |-> None]
    /\ answer = [w \in Workers |-> None]
    /\ cost = [w \in Workers |-> 0]
    /\ calls = [w \in Workers |-> 0]
    /\ asked = [r \in Requests |-> 0]
    /\ lost = [r \in Requests |-> 0]

GoTo(w, next) == pc' = [pc EXCEPT ![w] = next]

\* The call returns to the pipeline or raises; its local variables are gone.
Leave(w) ==
    /\ GoTo(w, "idle")
    /\ request' = [request EXCEPT ![w] = None]
    /\ answer' = [answer EXCEPT ![w] = None]
    /\ cost' = [cost EXCEPT ![w] = 0]
    /\ calls' = [calls EXCEPT ![w] = 0]

\* A call is sent to the provider.
Ask(r) == asked' = [asked EXCEPT ![r] = @ + 1]

\* A call for r has come to nothing.
Lose(r) ==
    /\ lost[r] < MaxLost
    /\ lost' = [lost EXCEPT ![r] = @ + 1]

\* A call of the worker is under way, or its answer is not yet cached.
Pending(w) == pc[w] \in {"complete", "retry", "cache_set"}

Estimate(kind) == IF kind = "extract" THEN 5 ELSE 1

-----------------------------------------------------------------------------
Call(w, r) ==
    /\ pc[w] = "idle"
    /\ GoTo(w, "lookup")
    /\ request' = [request EXCEPT ![w] = r]
    /\ UNCHANGED <<llm_cache, ledger, answer, cost, calls, history>>

\* A hit: an extraction is audited as 'llm_cache', an event type is not.
CacheHit(w) ==
    /\ pc[w] = "lookup"
    /\ llm_cache[request[w]] # None
    /\ Leave(w)
    /\ UNCHANGED <<llm_cache, ledger, history>>

CacheMiss(w) ==
    /\ pc[w] = "lookup"
    /\ llm_cache[request[w]] = None
    /\ GoTo(w, "budget")
    /\ UNCHANGED <<llm_cache, ledger, request, answer, cost, calls, history>>

\* A bug to be caught: the per-vendor cap forgotten.
WithinBudget_GlobalOnly(r) == today_total + Estimate(r.kind) <= Budget

WithinBudget(r) ==
    /\ today_total + Estimate(r.kind) <= Budget
    /\ today_vendor[r.vendor] + Estimate(r.kind) <= VendorBudget

\* The guard lets the call through, and it is sent.
BudgetAllows(w) ==
    /\ pc[w] = "budget"
    /\ WithinBudget(request[w])
    /\ GoTo(w, "complete")
    /\ Ask(request[w])
    /\ UNCHANGED <<llm_cache, ledger, request, answer, cost, calls, lost>>

\* BudgetExceeded (the event becomes pending_llm), or None.
BudgetRefuses(w) ==
    /\ pc[w] = "budget"
    /\ ~WithinBudget(request[w])
    /\ Leave(w)
    /\ UNCHANGED <<llm_cache, ledger, history>>

-----------------------------------------------------------------------------
(* provider.complete, and what is made of its answer. *)

CompleteValid(w, a, c) ==
    /\ pc[w] \in {"complete", "retry"}
    /\ GoTo(w, "cache_set")
    /\ answer' = [answer EXCEPT ![w] = a]
    /\ cost' = [cost EXCEPT ![w] = c]
    /\ calls' = [calls EXCEPT ![w] = @ + 1]
    /\ UNCHANGED <<llm_cache, ledger, request, history>>

\* A bug to be caught: retried for as long as the answer is invalid.
FirstAnswerInvalid_Loop(w) ==
    /\ pc[w] \in {"complete", "retry"}
    /\ request[w].kind = "extract"
    /\ GoTo(w, "retry")
    /\ calls' = [calls EXCEPT ![w] = @ + 1]
    /\ Lose(request[w])
    /\ Ask(request[w])
    /\ UNCHANGED <<llm_cache, ledger, request, answer, cost>>

\* An extraction that fails the JSON schema is asked for once more.
FirstAnswerInvalid(w) ==
    /\ pc[w] = "complete"
    /\ request[w].kind = "extract"
    /\ GoTo(w, "retry")
    /\ calls' = [calls EXCEPT ![w] = @ + 1]
    /\ Lose(request[w])
    /\ Ask(request[w])
    /\ UNCHANGED <<llm_cache, ledger, request, answer, cost>>

\* LLMValidationError after the retry, or an event type answer that does
\* not parse (None): the answer is dropped.
AnswerDropped(w) ==
    /\ \/ pc[w] = "retry"
       \/ pc[w] = "complete" /\ request[w].kind = "event_type"
    /\ Leave(w)
    /\ Lose(request[w])
    /\ UNCHANGED <<llm_cache, ledger, asked>>

\* A bug to be caught: an answer that is not cached.
CacheSet_Skipped(w) ==
    /\ pc[w] = "cache_set"
    /\ IF request[w].kind = "extract"
       THEN GoTo(w, "audit") /\ UNCHANGED <<request, answer, cost, calls>>
       ELSE Leave(w)
    /\ UNCHANGED <<llm_cache, ledger, history>>

\* INSERT INTO llm_cache ... ON CONFLICT (cache_key) DO NOTHING. An event
\* type call ends here, without an audit row.
CacheSet(w) ==
    /\ pc[w] = "cache_set"
    /\ llm_cache' = [llm_cache EXCEPT ![request[w]] = IF @ = None THEN answer[w] ELSE @]
    /\ IF request[w].kind = "extract"
       THEN GoTo(w, "audit") /\ UNCHANGED <<request, answer, cost, calls>>
       ELSE Leave(w)
    /\ UNCHANGED <<ledger, history>>

\* INSERT INTO llm_audit with source 'llm' and the vendor as decision.
Audit(w) ==
    LET r == request[w] IN
    /\ pc[w] = "audit"
    /\ audited' = [audited EXCEPT ![r] = @ + 1]
    /\ today_total' = today_total + cost[w]
    /\ today_vendor' = [today_vendor EXCEPT ![r.vendor] = @ + cost[w]]
    /\ Leave(w)
    /\ UNCHANGED <<llm_cache, history>>

\* A provider call or a statement fails and raises out of the call (for an
\* event type it is caught: None), or the job is cancelled, or the worker
\* dies. An answer it was waiting for, or held, is lost.
CallRaises(w) ==
    /\ pc[w] # "idle"
    /\ MayCrash
    /\ Leave(w)
    /\ \/ Pending(w) /\ Lose(request[w])
       \/ ~Pending(w) /\ UNCHANGED lost
    /\ UNCHANGED <<llm_cache, ledger, asked>>

\* Midnight UTC. Answers that are under way are audited in the new day.
NewDay ==
    /\ today_total > 0
    /\ today_total' = 0
    /\ today_vendor' = [v \in Vendors |-> 0]
    /\ UNCHANGED <<llm_cache, audited, pc, request, answer, cost, calls, history>>

-----------------------------------------------------------------------------
Step(w) ==
    \/ \E r \in Requests : Call(w, r)
    \/ CacheHit(w)
    \/ CacheMiss(w)
    \/ BudgetAllows(w)
    \/ BudgetRefuses(w)
    \/ \E a \in Answers, c \in Costs : CompleteValid(w, a, c)
    \/ FirstAnswerInvalid(w)
    \/ AnswerDropped(w)
    \/ CacheSet(w)
    \/ Audit(w)
    \/ CallRaises(w)

Next == (\E w \in Workers : Step(w)) \/ NewDay

Spec == Init /\ [][Next]_vars

-----------------------------------------------------------------------------
\* The calls for vendors V that the budget guard has let through and that
\* will be audited.
InFlight(V) ==
    {w \in Workers : /\ pc[w] \in {"complete", "retry", "cache_set", "audit"}
                     /\ request[w].kind = "extract" /\ request[w].vendor \in V}

\* n calls in flight, and what today's rows sum up to, keep to the budget but
\* for one call of each worker.
Covered(total, n, budget) ==
    total > 0 \/ n > 0 =>
        total + n * MaxCost + Estimate("extract") <= budget + Cardinality(Workers) * MaxCost

\* The budget guard reads llm_audit before a call and the row of the call is
\* written after it, so calls that overlap do not see each other's cost. How
\* far the audited cost of a day can pass the caps is bounded all the same,
\* by one call of each worker, whatever the interleaving, also for calls
\* that straddle midnight.
OvershootBounded ==
    /\ Covered(today_total, 0, Budget)
    /\ \A v \in Vendors : Covered(today_vendor[v], 0, VendorBudget)

\* Why: a call in flight has its cost reserved already.
Reserved ==
    /\ Covered(today_total, Cardinality(InFlight(Vendors)), Budget)
    /\ \A v \in Vendors : Covered(today_vendor[v], Cardinality(InFlight({v})), VendorBudget)

\* The provider is paid by the call. However often a payload, or a raw event
\* type, is delivered, replayed or interrupted, it is asked about at most once
\* by each worker, namely by those that missed the cache before anyone had
\* filled it; every call beyond these is one whose answer was rejected, or was
\* lost with its attempt before it was cached.
AskedBounded ==
    \A r \in Requests : asked[r] <= Cardinality(Workers) + lost[r]

\* The workers that wait for an answer to r or have yet to cache it, and those
\* that have missed the cache and not asked yet.
Asking(r) == {w \in Workers : Pending(w) /\ request[w] = r}
Missed(r) == {w \in Workers : pc[w] = "budget" /\ request[w] = r}

\* Why: until an answer is cached, every call is lost or still pending; after
\* that nobody misses.
Accounted(r) ==
    /\ llm_cache[r] = None => asked[r] = lost[r] + Cardinality(Asking(r))
    /\ asked[r] + Cardinality(Missed(r)) <= Cardinality(Workers) + lost[r]

CallsAccounted == \A r \in Requests : Accounted(r)

\* Only extractions are retried and audited, and retried once; only a valid
\* answer is cached.
AttemptInv ==
    \A w \in Workers :
        /\ pc[w] \in {"retry", "audit"} => request[w].kind = "extract"
        /\ pc[w] \in {"idle", "lookup", "budget", "complete"} => calls[w] = 0
        /\ pc[w] = "retry" => calls[w] = 1
        /\ pc[w] = "cache_set" => answer[w] \in Answers

LedgerInv == TypeOK /\ AttemptInv /\ Reserved /\ CallsAccounted

\* fallback.py:15: "Every call (including cache hits) writes one audit row
\* keyed by event_id". An attempt that ends normally has written as many rows
\* as the provider gave answers. Neither an invalid first answer nor any
\* event type call is audited, so this does not hold.
EveryCallAudited ==
    [][\A w \in Workers :
          calls[w] > 0 /\ pc'[w] = "idle" =>
             audited' = [audited EXCEPT ![request[w]] = @ + calls[w]]]_vars

=============================================================================
