------------------------- MODULE LLMFallback_proofs -------------------------
(***************************************************************************)
(* LLMFallback, for any number of workers, vendors and payloads, any costs *)
(* and budgets: LedgerInv is inductive, so the overshoot of the budget and *)
(* the calls that bring the same answer are bounded by the number of       *)
(* workers.                                                                *)
(***************************************************************************)
EXTENDS LLMFallback, FiniteSetTheorems, TLAPS

\* Sets of workers are finite, and smaller sets have no more elements.
LEMMA WorkerSets ==
    ASSUME NEW S \in SUBSET Workers
    PROVE  /\ IsFiniteSet(S)
           /\ Cardinality(S) \in Nat
           /\ Cardinality(S) <= Cardinality(Workers)
           /\ \A T \in SUBSET S : Cardinality(T) <= Cardinality(S)
           /\ \A w \in S : Cardinality(S \ {w}) = Cardinality(S) - 1 /\ Cardinality(S) > 0
<1>1. IsFiniteSet(S)
    BY WorkersAssumption, FS_Subset
<1>2. Cardinality(S) \in Nat /\ Cardinality(Workers) \in Nat
    BY <1>1, WorkersAssumption, FS_CardinalityType
<1>3. Cardinality(S) <= Cardinality(Workers)
    BY WorkersAssumption, FS_Subset
<1>4. \A T \in SUBSET S : Cardinality(T) <= Cardinality(S)
    BY <1>1, FS_Subset
<1>5. \A w \in S : Cardinality(S \ {w}) = Cardinality(S) - 1
    BY <1>1, FS_RemoveElement
<1>6. \A w \in S : Cardinality(S) > 0
    BY <1>1, <1>2, FS_EmptySet
<1>7. QED
    BY <1>1, <1>2, <1>3, <1>4, <1>5, <1>6

\* How multiples of the highest cost compare.
LEMMA Multiples ==
    ASSUME NEW m \in Nat, NEW n \in Nat
    PROVE  /\ n * MaxCost \in Nat
           /\ m <= n => m * MaxCost <= n * MaxCost
           /\ n > 0 => (n - 1) * MaxCost + MaxCost = n * MaxCost
           /\ 0 * MaxCost = 0
<1>1. MaxCost \in Nat
    BY CostsAssumption
<1>2. QED
    BY <1>1, SMT

\* A step that neither adds cost nor lets a call through.
LEMMA CoveredShrinks ==
    ASSUME NEW t \in Nat, NEW u \in Nat, u <= t, NEW n \in Nat, NEW m \in Nat, m <= n,
           NEW b \in Nat, Covered(t, n, b)
    PROVE  Covered(u, m, b)
<1>1. m * MaxCost <= n * MaxCost /\ m * MaxCost \in Nat /\ n * MaxCost \in Nat
    BY Multiples
<1> DEFINE top == b + Cardinality(Workers) * MaxCost
           mm == m * MaxCost
           nn == n * MaxCost
<1>2. top \in Nat
    <2>1. Cardinality(Workers) \in Nat
        BY WorkersAssumption, FS_CardinalityType
    <2>2. Cardinality(Workers) * MaxCost \in Nat
        BY <2>1, Multiples
    <2>3. QED
        BY <2>2
<1>3. t > 0 \/ n > 0 => t + nn + Estimate("extract") <= top
    BY DEF Covered
<1>4. u > 0 \/ m > 0 => u + mm + Estimate("extract") <= top
    <2> HIDE DEF top, mm, nn
    <2>1. mm <= nn /\ mm \in Nat /\ nn \in Nat
        BY <1>1 DEF mm, nn
    <2>2. QED
        BY <1>2, <1>3, <2>1 DEF Estimate
<1>5. QED
    BY <1>4 DEF Covered

\* A call that is audited gives up what was reserved for it.
LEMMA CoveredAudit ==
    ASSUME NEW t \in Nat, NEW n \in Nat, n > 0, NEW c \in 0..MaxCost, NEW b \in Nat,
           Covered(t, n, b)
    PROVE  Covered(t + c, n - 1, b)
<1> DEFINE top == b + Cardinality(Workers) * MaxCost
           mm == (n - 1) * MaxCost
           nn == n * MaxCost
<1>1. mm + MaxCost = nn /\ mm \in Nat /\ nn \in Nat
    BY Multiples
<1>2. top \in Nat
    <2>1. Cardinality(Workers) \in Nat
        BY WorkersAssumption, FS_CardinalityType
    <2>2. Cardinality(Workers) * MaxCost \in Nat
        BY <2>1, Multiples
    <2>3. QED
        BY <2>2
<1>3. t + nn + Estimate("extract") <= top
    BY DEF Covered
<1>4. t + c + mm + Estimate("extract") <= top
    <2> HIDE DEF top, mm, nn
    <2>1. QED
        BY <1>1, <1>2, <1>3, CostsAssumption DEF Estimate
<1>5. QED
    BY <1>4 DEF Covered

\* A call let through: at most all workers are in flight.
LEMMA CoveredEnter ==
    ASSUME NEW t \in Nat, NEW b \in Nat, t + Estimate("extract") <= b,
           NEW n \in Nat, n <= Cardinality(Workers)
    PROVE  Covered(t, n, b)
<1> DEFINE all == Cardinality(Workers) * MaxCost
           nn == n * MaxCost
<1>1. Cardinality(Workers) \in Nat
    BY WorkersAssumption, FS_CardinalityType
<1>2. nn <= all /\ nn \in Nat /\ all \in Nat
    BY <1>1, Multiples
<1>3. t + nn + Estimate("extract") <= b + all
    <2> HIDE DEF all, nn
    <2>1. QED
        BY <1>2 DEF Estimate
<1>4. QED
    BY <1>3 DEF Covered

-----------------------------------------------------------------------------
\* Every action keeps the types.
LEMMA TypeStep ==
    ASSUME TypeOK, AttemptInv, [Next]_vars
    PROVE  TypeOK'
<1> USE CostsAssumption DEF TypeOK, history, Ask, Lose
<1>1. ASSUME NEW w \in Workers, NEW r \in Requests, Call(w, r) PROVE TypeOK'
    BY <1>1 DEF Call, GoTo, ledger
<1>2. ASSUME NEW w \in Workers, CacheHit(w) PROVE TypeOK'
    BY <1>2 DEF CacheHit, Leave, GoTo, ledger
<1>3. ASSUME NEW w \in Workers, CacheMiss(w) PROVE TypeOK'
    BY <1>3 DEF CacheMiss, GoTo, ledger
<1>4. ASSUME NEW w \in Workers, BudgetAllows(w) PROVE TypeOK'
    BY <1>4 DEF BudgetAllows, GoTo, ledger
<1>5. ASSUME NEW w \in Workers, BudgetRefuses(w) PROVE TypeOK'
    BY <1>5 DEF BudgetRefuses, Leave, GoTo, ledger
<1>6. ASSUME NEW w \in Workers, NEW a \in Answers, NEW c \in Costs, CompleteValid(w, a, c)
      PROVE  TypeOK'
    BY <1>6 DEF CompleteValid, GoTo, ledger, AttemptInv
<1>7. ASSUME NEW w \in Workers, FirstAnswerInvalid(w) PROVE TypeOK'
    BY <1>7 DEF FirstAnswerInvalid, GoTo, ledger, AttemptInv
<1>8. ASSUME NEW w \in Workers, AnswerDropped(w) PROVE TypeOK'
    BY <1>8 DEF AnswerDropped, Leave, GoTo, ledger
<1>9. ASSUME NEW w \in Workers, CacheSet(w) PROVE TypeOK'
    BY <1>9 DEF CacheSet, Leave, GoTo, ledger
<1>10. ASSUME NEW w \in Workers, Audit(w) PROVE TypeOK'
    BY <1>10, RequestsAssumption DEF Audit, Leave, GoTo, Request
<1>11. ASSUME NEW w \in Workers, CallRaises(w) PROVE TypeOK'
    BY <1>11 DEF CallRaises, Leave, GoTo, ledger
<1>12. CASE NewDay
    BY <1>12 DEF NewDay
<1>13. CASE UNCHANGED vars
    BY <1>13 DEF vars, ledger
<1>14. QED
    BY <1>1, <1>2, <1>3, <1>4, <1>5, <1>6, <1>7, <1>8, <1>9, <1>10, <1>11, <1>12, <1>13
    DEF Next, Step

\* Every action keeps the shape of the attempts.
LEMMA AttemptStep ==
    ASSUME TypeOK, AttemptInv, [Next]_vars
    PROVE  AttemptInv'
<1> USE DEF TypeOK, AttemptInv
<1>1. ASSUME NEW w \in Workers, NEW r \in Requests, Call(w, r) PROVE AttemptInv'
    BY <1>1 DEF Call, GoTo
<1>2. ASSUME NEW w \in Workers, Leave(w) PROVE AttemptInv'
    BY <1>2 DEF Leave, GoTo
<1>3. ASSUME NEW w \in Workers, CacheMiss(w) \/ BudgetAllows(w) PROVE AttemptInv'
    BY <1>3 DEF CacheMiss, BudgetAllows, GoTo
<1>4. ASSUME NEW w \in Workers, NEW a \in Answers, NEW c \in Costs, CompleteValid(w, a, c)
      PROVE  AttemptInv'
    BY <1>4 DEF CompleteValid, GoTo
<1>5. ASSUME NEW w \in Workers, FirstAnswerInvalid(w) PROVE AttemptInv'
    BY <1>5 DEF FirstAnswerInvalid, GoTo
<1>6. ASSUME NEW w \in Workers, CacheSet(w) PROVE AttemptInv'
    BY <1>6, <1>2 DEF CacheSet, GoTo
<1>7. CASE NewDay
    BY <1>7 DEF NewDay
<1>8. CASE UNCHANGED vars
    BY <1>8 DEF vars
<1>9. QED
    BY <1>1, <1>2, <1>3, <1>4, <1>5, <1>6, <1>7, <1>8
    DEF Next, Step, CacheHit, BudgetRefuses, AnswerDropped, Audit, CallRaises

-----------------------------------------------------------------------------
\* An action of one worker that lets no call through and adds no cost.
LEMMA ReservedShrinks ==
    ASSUME TypeOK, TypeOK', Reserved, UNCHANGED <<today_total, today_vendor>>,
           \A V \in SUBSET Vendors : InFlight(V)' \subseteq InFlight(V)
    PROVE  Reserved'
<1>1. ASSUME NEW V \in SUBSET Vendors
      PROVE  /\ Cardinality(InFlight(V)') <= Cardinality(InFlight(V))
             /\ Cardinality(InFlight(V)) \in Nat
             /\ Cardinality(InFlight(V)') \in Nat
    <2>1. InFlight(V) \in SUBSET Workers /\ InFlight(V)' \in SUBSET InFlight(V)
        BY DEF InFlight
    <2>2. QED
        BY <2>1, WorkerSets
<1>2. Covered(today_total', Cardinality(InFlight(Vendors)'), Budget)
    BY <1>1, CoveredShrinks, BudgetAssumption DEF Reserved, TypeOK
<1>3. ASSUME NEW v \in Vendors
      PROVE  Covered(today_vendor'[v], Cardinality(InFlight({v})'), VendorBudget)
    <2>1. {v} \in SUBSET Vendors
        OBVIOUS
    <2>2. /\ Cardinality(InFlight({v})') <= Cardinality(InFlight({v}))
          /\ Cardinality(InFlight({v})) \in Nat
          /\ Cardinality(InFlight({v})') \in Nat
        BY <1>1, <2>1
    <2>3. /\ today_vendor'[v] = today_vendor[v] /\ today_vendor[v] \in Nat
          /\ Covered(today_vendor[v], Cardinality(InFlight({v})), VendorBudget)
        BY DEF Reserved, TypeOK
    <2>4. QED
        BY <2>2, <2>3, CoveredShrinks, BudgetAssumption
<1>4. QED
    BY <1>2, <1>3 DEF Reserved, Covered

\* The budget guard reserves what it allows.
LEMMA ReservedAllows ==
    ASSUME TypeOK, TypeOK', Reserved, NEW w \in Workers, BudgetAllows(w)
    PROVE  Reserved'
<1> DEFINE r == request[w]
<1>1. r \in Requests /\ r.vendor \in Vendors
    BY RequestsAssumption DEF BudgetAllows, TypeOK, Request
<1>2. CASE r.kind # "extract"
    <2>1. \A V \in SUBSET Vendors : InFlight(V)' \subseteq InFlight(V)
        BY <1>1, <1>2 DEF BudgetAllows, GoTo, InFlight, TypeOK
    <2>2. QED
        BY <2>1, ReservedShrinks DEF BudgetAllows, ledger
<1>3. CASE r.kind = "extract"
    <2>1. \A V \in SUBSET Vendors : Cardinality(InFlight(V)') \in Nat
                                   /\ Cardinality(InFlight(V)') <= Cardinality(Workers)
        <3>1. \A V \in SUBSET Vendors : InFlight(V)' \in SUBSET Workers
            BY DEF InFlight
        <3>2. QED
            BY <3>1, WorkerSets
    <2>2. /\ today_total + Estimate("extract") <= Budget
          /\ today_vendor[r.vendor] + Estimate("extract") <= VendorBudget
        BY <1>3 DEF BudgetAllows, WithinBudget
    <2>3. Covered(today_total', Cardinality(InFlight(Vendors)'), Budget)
        BY <2>1, <2>2, CoveredEnter, BudgetAssumption DEF TypeOK, BudgetAllows, ledger
    <2>4. ASSUME NEW v \in Vendors
          PROVE  Covered(today_vendor'[v], Cardinality(InFlight({v})'), VendorBudget)
        <3>1. CASE v = r.vendor
            BY <1>1, <2>1, <2>2, <3>1, CoveredEnter, BudgetAssumption
            DEF TypeOK, BudgetAllows, ledger
        <3>2. CASE v # r.vendor
            <4>1. InFlight({v})' = InFlight({v})
                BY <1>1, <3>2 DEF BudgetAllows, GoTo, InFlight, TypeOK
            <4>2. QED
                BY <4>1 DEF Reserved, BudgetAllows, ledger
        <3>3. QED
            BY <3>1, <3>2
    <2>5. QED
        BY <2>3, <2>4 DEF Reserved, Covered
<1>4. QED
    BY <1>2, <1>3

\* The audit row of a call costs no more than was reserved for it.
LEMMA ReservedAudit ==
    ASSUME TypeOK, TypeOK', AttemptInv, Reserved, NEW w \in Workers, Audit(w)
    PROVE  Reserved'
<1> DEFINE r == request[w]
<1>1. r \in Requests /\ r.vendor \in Vendors /\ r.kind = "extract"
    BY RequestsAssumption DEF Audit, TypeOK, Request, AttemptInv
<1>2. ASSUME NEW V \in SUBSET Vendors, r.vendor \in V
      PROVE  /\ Cardinality(InFlight(V)') = Cardinality(InFlight(V)) - 1
             /\ Cardinality(InFlight(V)) \in Nat /\ Cardinality(InFlight(V)) > 0
    <2>1. w \in InFlight(V) /\ InFlight(V) \in SUBSET Workers
        BY <1>1, <1>2 DEF InFlight, Audit
    <2>2. InFlight(V)' = InFlight(V) \ {w}
        BY <1>1 DEF InFlight, Audit, Leave, GoTo, TypeOK
    <2>3. QED
        BY <2>1, <2>2, WorkerSets
<1>3. cost[w] \in 0..MaxCost
    BY DEF TypeOK
<1>4. Covered(today_total', Cardinality(InFlight(Vendors)'), Budget)
    <2>1. /\ Cardinality(InFlight(Vendors)') = Cardinality(InFlight(Vendors)) - 1
          /\ Cardinality(InFlight(Vendors)) \in Nat /\ Cardinality(InFlight(Vendors)) > 0
        BY <1>1, <1>2
    <2>2. /\ today_total' = today_total + cost[w] /\ today_total \in Nat
          /\ Covered(today_total, Cardinality(InFlight(Vendors)), Budget)
        BY DEF Audit, TypeOK, Reserved
    <2>3. Covered(today_total + cost[w], Cardinality(InFlight(Vendors)) - 1, Budget)
        BY <1>3, <2>1, <2>2, CoveredAudit, BudgetAssumption
    <2>4. QED
        BY <2>1, <2>2, <2>3
<1>5. ASSUME NEW v \in Vendors
      PROVE  Covered(today_vendor'[v], Cardinality(InFlight({v})'), VendorBudget)
    <2>1. CASE v = r.vendor
        <3>1. today_vendor'[v] = today_vendor[v] + cost[w]
            BY <1>1, <2>1 DEF Audit, TypeOK
        <3>2. Covered(today_vendor[v], Cardinality(InFlight({v})), VendorBudget)
            BY DEF Reserved
        <3>3. /\ Cardinality(InFlight({v})') = Cardinality(InFlight({v})) - 1
              /\ Cardinality(InFlight({v})) \in Nat /\ Cardinality(InFlight({v})) > 0
            BY <1>2, <2>1
        <3>4. today_vendor[v] \in Nat
            BY DEF TypeOK
        <3>5. Covered(today_vendor[v] + cost[w], Cardinality(InFlight({v})) - 1, VendorBudget)
            BY <1>3, <3>2, <3>3, <3>4, CoveredAudit, BudgetAssumption
        <3>6. QED
            BY <3>1, <3>3, <3>5
    <2>2. CASE v # r.vendor
        <3>1. InFlight({v})' = InFlight({v})
            BY <1>1, <2>2 DEF InFlight, Audit, Leave, GoTo, TypeOK
        <3>2. today_vendor'[v] = today_vendor[v]
            BY <2>2 DEF Audit, TypeOK
        <3>3. QED
            BY <3>1, <3>2 DEF Reserved
    <2>3. QED
        BY <2>1, <2>2
<1>6. QED
    BY <1>4, <1>5 DEF Reserved, Covered

\* At midnight the sums are zero, and what is in flight stays reserved.
LEMMA ReservedNewDay ==
    ASSUME TypeOK, Reserved, NewDay
    PROVE  Reserved'
<1>1. ASSUME NEW V \in SUBSET Vendors
      PROVE  InFlight(V)' = InFlight(V) /\ Cardinality(InFlight(V)) \in Nat
    <2>1. InFlight(V) \in SUBSET Workers
        BY DEF InFlight
    <2>2. QED
        BY <2>1, WorkerSets DEF InFlight, NewDay
<1>2. Covered(0, Cardinality(InFlight(Vendors)), Budget)
    <2>1. Covered(today_total, Cardinality(InFlight(Vendors)), Budget) /\ today_total \in Nat
        BY DEF Reserved, TypeOK
    <2>2. QED
        BY <1>1, <2>1, CoveredShrinks, BudgetAssumption
<1>3. ASSUME NEW v \in Vendors
      PROVE  Covered(today_vendor'[v], Cardinality(InFlight({v})'), VendorBudget)
    <2>1. Covered(today_vendor[v], Cardinality(InFlight({v})), VendorBudget)
          /\ today_vendor[v] \in Nat /\ today_vendor'[v] = 0
        BY DEF Reserved, TypeOK, NewDay
    <2>2. {v} \in SUBSET Vendors
        OBVIOUS
    <2>3. Cardinality(InFlight({v})) \in Nat /\ InFlight({v})' = InFlight({v})
        BY <1>1, <2>2
    <2>4. Covered(0, Cardinality(InFlight({v})), VendorBudget)
        BY <2>1, <2>3, CoveredShrinks, BudgetAssumption
    <2>5. QED
        BY <2>1, <2>3, <2>4
<1>4. today_total' = 0 /\ InFlight(Vendors)' = InFlight(Vendors)
    BY <1>1 DEF NewDay
<1>5. QED
    BY <1>2, <1>3, <1>4 DEF Reserved, Covered

\* Every action keeps what is reserved.
LEMMA ReservedStep ==
    ASSUME TypeOK, TypeOK', AttemptInv, Reserved, [Next]_vars
    PROVE  Reserved'
<1>1. ASSUME NEW w \in Workers, BudgetAllows(w) PROVE Reserved'
    BY <1>1, ReservedAllows
<1>2. ASSUME NEW w \in Workers, Audit(w) PROVE Reserved'
    BY <1>2, ReservedAudit
<1>3. CASE NewDay
    BY <1>3, ReservedNewDay
<1>4. ASSUME NEW w \in Workers, Leave(w), UNCHANGED <<today_total, today_vendor>>
      PROVE  Reserved'
    <2>1. \A V \in SUBSET Vendors : InFlight(V)' \subseteq InFlight(V)
        BY <1>4 DEF InFlight, Leave, GoTo, TypeOK
    <2>2. QED
        BY <1>4, <2>1, ReservedShrinks
<1>5. ASSUME NEW w \in Workers,
             \/ \E r \in Requests : Call(w, r)
             \/ CacheMiss(w)
             \/ \E a \in Answers, c \in Costs : CompleteValid(w, a, c)
             \/ FirstAnswerInvalid(w)
             \/ CacheSet(w) /\ ~Leave(w)
      PROVE  Reserved'
    <2>1. UNCHANGED <<today_total, today_vendor>>
        BY <1>5 DEF Call, CacheMiss, CompleteValid, FirstAnswerInvalid, CacheSet, ledger
    <2>2. \A V \in SUBSET Vendors : InFlight(V)' \subseteq InFlight(V)
        BY <1>5 DEF Call, CacheMiss, CompleteValid, FirstAnswerInvalid, CacheSet, GoTo,
            InFlight, TypeOK
    <2>3. QED
        BY <2>1, <2>2, ReservedShrinks
<1>6. CASE UNCHANGED vars
    <2>1. UNCHANGED <<today_total, today_vendor>> /\ pc' = pc /\ request' = request
        BY <1>6 DEF vars, ledger
    <2>2. \A V \in SUBSET Vendors : InFlight(V)' \subseteq InFlight(V)
        BY <2>1 DEF InFlight
    <2>3. QED
        BY <2>1, <2>2, ReservedShrinks
<1>7. ASSUME NEW w \in Workers, Step(w) PROVE Reserved'
    BY <1>1, <1>2, <1>4, <1>5, <1>7
    DEF Step, CacheHit, BudgetRefuses, AnswerDropped, CacheSet, CallRaises, ledger
<1>8. QED
    BY <1>3, <1>6, <1>7 DEF Next

-----------------------------------------------------------------------------
\* Workers that wait for an answer and workers that have missed are different.
LEMMA DisjointWorkers ==
    ASSUME NEW A \in SUBSET Workers, NEW M \in SUBSET Workers, A \cap M = {}
    PROVE  /\ Cardinality(A) \in Nat /\ Cardinality(M) \in Nat /\ Cardinality(Workers) \in Nat
           /\ Cardinality(A) + Cardinality(M) <= Cardinality(Workers)
<1>1. IsFiniteSet(A) /\ IsFiniteSet(M) /\ Cardinality(A) \in Nat /\ Cardinality(M) \in Nat
    BY WorkerSets
<1>2. Cardinality(A \cup M) = Cardinality(A) + Cardinality(M)
    <2>1. Cardinality(A \cap M) = 0
        BY FS_EmptySet
    <2>2. Cardinality(A \cup M) = Cardinality(A) + Cardinality(M) - Cardinality(A \cap M)
        BY <1>1, FS_Union
    <2>3. QED
        BY <1>1, <2>1, <2>2
<1>3. Cardinality(A \cup M) <= Cardinality(Workers)
    <2>1. A \cup M \in SUBSET Workers
        OBVIOUS
    <2>2. QED
        BY <2>1, WorkerSets
<1>4. Cardinality(Workers) \in Nat
    BY WorkersAssumption, FS_CardinalityType
<1>5. QED
    BY <1>1, <1>2, <1>3, <1>4

\* The workers that a request occupies, before and after a step.
LEMMA AskingAndMissed ==
    ASSUME NEW r \in Requests
    PROVE  /\ Asking(r) \in SUBSET Workers /\ Missed(r) \in SUBSET Workers
           /\ Asking(r)' \in SUBSET Workers /\ Missed(r)' \in SUBSET Workers
           /\ Asking(r) \cap Missed(r) = {} /\ Asking(r)' \cap Missed(r)' = {}
BY DEF Asking, Missed, Pending

\* A step that changes nothing of a request but that a worker which has missed
\* may give up.
LEMMA AccountedKept ==
    ASSUME TypeOK, NEW r \in Requests, Accounted(r),
           llm_cache'[r] = llm_cache[r], asked'[r] = asked[r], lost'[r] = lost[r],
           Asking(r)' = Asking(r), Missed(r)' \subseteq Missed(r)
    PROVE  Accounted(r)'
<1>1. /\ Cardinality(Missed(r)') <= Cardinality(Missed(r))
      /\ Cardinality(Missed(r)) \in Nat /\ Cardinality(Missed(r)') \in Nat
      /\ Cardinality(Workers) \in Nat
    BY AskingAndMissed, WorkerSets, DisjointWorkers
<1>2. asked[r] \in Nat /\ lost[r] \in Nat
    BY DEF TypeOK
<1>3. asked[r] + Cardinality(Missed(r)) <= Cardinality(Workers) + lost[r]
    BY DEF Accounted
<1>4. asked'[r] + Cardinality(Missed(r)') <= Cardinality(Workers) + lost'[r]
    BY <1>1, <1>2, <1>3
<1>5. QED
    BY <1>4 DEF Accounted

\* A step by which a call of a worker comes to nothing.
LEMMA AccountedLoses ==
    ASSUME TypeOK, NEW r \in Requests, Accounted(r), NEW w \in Asking(r),
           llm_cache'[r] = llm_cache[r], asked'[r] = asked[r], lost'[r] = lost[r] + 1,
           Asking(r)' = Asking(r) \ {w}, Missed(r)' = Missed(r)
    PROVE  Accounted(r)'
<1>1. /\ Cardinality(Asking(r)') = Cardinality(Asking(r)) - 1
      /\ Cardinality(Asking(r)) \in Nat /\ Cardinality(Missed(r)) \in Nat
      /\ Cardinality(Workers) \in Nat
    BY AskingAndMissed, WorkerSets, DisjointWorkers
<1>2. asked[r] \in Nat /\ lost[r] \in Nat
    BY DEF TypeOK
<1>3. asked[r] + Cardinality(Missed(r)) <= Cardinality(Workers) + lost[r]
    BY DEF Accounted
<1>4. asked'[r] + Cardinality(Missed(r)') <= Cardinality(Workers) + lost'[r]
    BY <1>1, <1>2, <1>3
<1>5. llm_cache[r] = None => asked'[r] = lost'[r] + Cardinality(Asking(r)')
    <2>1. llm_cache[r] = None => asked[r] = lost[r] + Cardinality(Asking(r))
        BY DEF Accounted
    <2>2. QED
        BY <1>1, <1>2, <2>1
<1>6. QED
    BY <1>4, <1>5 DEF Accounted

\* A worker misses the cache: until then every call was lost or is pending.
LEMMA AccountedMisses ==
    ASSUME TypeOK, NEW w \in Workers, CacheMiss(w), NEW r \in Requests, r = request[w],
           Accounted(r)
    PROVE  Accounted(r)'
<1>1. llm_cache[r] = None
    BY DEF CacheMiss
<1>2. asked[r] = lost[r] + Cardinality(Asking(r))
    BY <1>1 DEF Accounted
<1>3. UNCHANGED <<llm_cache, asked, lost>> /\ Asking(r)' = Asking(r)
    BY DEF CacheMiss, GoTo, history, Asking, Pending, TypeOK
<1>4. /\ Cardinality(Asking(r)') \in Nat /\ Cardinality(Missed(r)') \in Nat
      /\ Cardinality(Workers) \in Nat
      /\ Cardinality(Asking(r)') + Cardinality(Missed(r)') <= Cardinality(Workers)
    BY AskingAndMissed, DisjointWorkers
<1>5. asked[r] \in Nat /\ lost[r] \in Nat
    BY DEF TypeOK
<1>6. asked'[r] + Cardinality(Missed(r)') <= Cardinality(Workers) + lost'[r]
    BY <1>2, <1>3, <1>4, <1>5
<1>7. QED
    BY <1>2, <1>3, <1>6 DEF Accounted

\* A worker that had missed asks.
LEMMA AccountedAsks ==
    ASSUME TypeOK, NEW w \in Workers, BudgetAllows(w), NEW r \in Requests, r = request[w],
           Accounted(r)
    PROVE  Accounted(r)'
<1>1. UNCHANGED <<llm_cache, lost>> /\ asked'[r] = asked[r] + 1
    BY DEF BudgetAllows, Ask, TypeOK
<1>2. w \in Asking(r)' /\ Asking(r)' \ {w} = Asking(r)
    BY DEF BudgetAllows, GoTo, Asking, Pending, TypeOK
<1>3. w \in Missed(r) /\ Missed(r) \ {w} = Missed(r)'
    BY DEF BudgetAllows, GoTo, Missed, TypeOK
<1>4. /\ Cardinality(Asking(r)) = Cardinality(Asking(r)') - 1
      /\ Cardinality(Missed(r)') = Cardinality(Missed(r)) - 1
      /\ Cardinality(Asking(r)') \in Nat /\ Cardinality(Missed(r)) \in Nat
    <2>1. Asking(r)' \in SUBSET Workers /\ Missed(r) \in SUBSET Workers
        BY AskingAndMissed
    <2>2. QED
        BY <1>2, <1>3, <2>1, WorkerSets
<1>5. asked[r] \in Nat /\ lost[r] \in Nat /\ Cardinality(Workers) \in Nat
    BY WorkersAssumption, FS_CardinalityType DEF TypeOK
<1>6. asked'[r] + Cardinality(Missed(r)') <= Cardinality(Workers) + lost'[r]
    <2>1. asked[r] + Cardinality(Missed(r)) <= Cardinality(Workers) + lost[r]
        BY DEF Accounted
    <2>2. QED
        BY <1>1, <1>4, <1>5, <2>1
<1>7. llm_cache[r] = None => asked'[r] = lost'[r] + Cardinality(Asking(r)')
    <2>1. llm_cache[r] = None => asked[r] = lost[r] + Cardinality(Asking(r))
        BY DEF Accounted
    <2>2. QED
        BY <1>1, <1>4, <1>5, <2>1
<1>8. QED
    BY <1>1, <1>6, <1>7 DEF Accounted

\* An answer is rejected and the model asked once more.
LEMMA AccountedRetries ==
    ASSUME TypeOK, NEW w \in Workers, FirstAnswerInvalid(w), NEW r \in Requests,
           r = request[w], Accounted(r)
    PROVE  Accounted(r)'
<1>1. UNCHANGED llm_cache /\ asked'[r] = asked[r] + 1 /\ lost'[r] = lost[r] + 1
    BY DEF FirstAnswerInvalid, Ask, Lose, TypeOK
<1>2. Asking(r)' = Asking(r) /\ Missed(r)' = Missed(r)
    BY DEF FirstAnswerInvalid, GoTo, Asking, Missed, Pending, TypeOK
<1>3. /\ asked[r] \in Nat /\ lost[r] \in Nat /\ Cardinality(Workers) \in Nat
      /\ Cardinality(Asking(r)) \in Nat /\ Cardinality(Missed(r)) \in Nat
    BY AskingAndMissed, DisjointWorkers DEF TypeOK
<1>4. asked'[r] + Cardinality(Missed(r)') <= Cardinality(Workers) + lost'[r]
    <2>1. asked[r] + Cardinality(Missed(r)) <= Cardinality(Workers) + lost[r]
        BY DEF Accounted
    <2>2. QED
        BY <1>1, <1>2, <1>3, <2>1
<1>5. llm_cache[r] = None => asked'[r] = lost'[r] + Cardinality(Asking(r)')
    <2>1. llm_cache[r] = None => asked[r] = lost[r] + Cardinality(Asking(r))
        BY DEF Accounted
    <2>2. QED
        BY <1>1, <1>2, <1>3, <2>1
<1>6. QED
    BY <1>1, <1>4, <1>5 DEF Accounted

\* The answer is cached: from now on nobody misses.
LEMMA AccountedCaches ==
    ASSUME TypeOK, AttemptInv, NEW w \in Workers, CacheSet(w), NEW r \in Requests,
           r = request[w], Accounted(r)
    PROVE  Accounted(r)'
<1>1. llm_cache'[r] # None /\ UNCHANGED <<asked, lost>>
    BY NoneAssumption DEF CacheSet, AttemptInv, TypeOK, history
<1>2. Missed(r)' = Missed(r)
    BY DEF CacheSet, Leave, GoTo, Missed, TypeOK
<1>3. QED
    BY <1>1, <1>2 DEF Accounted

\* Every action keeps the account of the calls.
LEMMA CallsStep ==
    ASSUME TypeOK, AttemptInv, CallsAccounted, [Next]_vars
    PROVE  CallsAccounted'
<1> SUFFICES ASSUME NEW r \in Requests PROVE Accounted(r)'
    BY DEF CallsAccounted
<1>1. Accounted(r)
    BY DEF CallsAccounted
<1>2. ASSUME NEW w \in Workers, request[w] # r, Step(w),
             \A q \in Requests : ~Call(w, q)
      PROVE  Accounted(r)'
    <2>1. request'[w] # r /\ \A v \in Workers \ {w} : pc'[v] = pc[v] /\ request'[v] = request[v]
        BY <1>2, NoneAssumption DEF Step, CacheHit, CacheMiss, BudgetAllows, BudgetRefuses,
           CompleteValid, FirstAnswerInvalid, AnswerDropped, CacheSet, Audit, CallRaises, Leave,
           GoTo, TypeOK
    <2>2. llm_cache'[r] = llm_cache[r] /\ asked'[r] = asked[r] /\ lost'[r] = lost[r]
        BY <1>2 DEF Step, CacheHit, CacheMiss, BudgetAllows, BudgetRefuses,
           CompleteValid, FirstAnswerInvalid, AnswerDropped, CacheSet, Audit, CallRaises,
           Ask, Lose, history, TypeOK
    <2>3. Asking(r)' = Asking(r) /\ Missed(r)' = Missed(r)
        BY <1>2, <2>1 DEF Asking, Missed, Pending
    <2>4. QED
        BY <1>1, <2>2, <2>3, AccountedKept
<1>3. ASSUME NEW w \in Workers, NEW q \in Requests, Call(w, q) PROVE Accounted(r)'
    <2>1. UNCHANGED <<llm_cache, asked, lost>>
        BY <1>3 DEF Call, history
    <2>2. Asking(r)' = Asking(r) /\ Missed(r)' = Missed(r)
        BY <1>3 DEF Call, GoTo, Asking, Missed, Pending, TypeOK
    <2>3. QED
        BY <1>1, <2>1, <2>2, AccountedKept
<1>4. ASSUME NEW w \in Workers, ~Pending(w), Leave(w), UNCHANGED <<llm_cache, asked, lost>>
      PROVE  Accounted(r)'
    <2>1. Asking(r)' = Asking(r) /\ Missed(r)' \subseteq Missed(r)
        BY <1>4, NoneAssumption DEF Leave, GoTo, Asking, Missed, Pending, TypeOK
    <2>2. QED
        BY <1>1, <1>4, <2>1, AccountedKept
<1>5. ASSUME NEW w \in Workers, request[w] = r, Pending(w), Leave(w), Lose(r),
             UNCHANGED <<llm_cache, asked>>
      PROVE  Accounted(r)'
    <2>1. w \in Asking(r) /\ Asking(r)' = Asking(r) \ {w} /\ Missed(r)' = Missed(r)
        BY <1>5, NoneAssumption DEF Leave, GoTo, Asking, Missed, Pending, TypeOK
    <2>2. lost'[r] = lost[r] + 1
        BY <1>5 DEF Lose, TypeOK
    <2>3. QED
        BY <1>1, <1>5, <2>1, <2>2, AccountedLoses
<1>6. ASSUME NEW w \in Workers, NEW a \in Answers, NEW c \in Costs, CompleteValid(w, a, c)
      PROVE  Accounted(r)'
    <2>1. UNCHANGED <<llm_cache, asked, lost>>
        BY <1>6 DEF CompleteValid, history
    <2>2. Asking(r)' = Asking(r) /\ Missed(r)' = Missed(r)
        BY <1>6 DEF CompleteValid, GoTo, Asking, Missed, Pending, TypeOK
    <2>3. QED
        BY <1>1, <2>1, <2>2, AccountedKept
<1>7. ASSUME NEW w \in Workers, CacheHit(w) \/ BudgetRefuses(w) \/ Audit(w)
      PROVE  Accounted(r)'
    <2>1. ~Pending(w) /\ Leave(w) /\ UNCHANGED <<llm_cache, asked, lost>>
        BY <1>7 DEF CacheHit, BudgetRefuses, Audit, Pending, history
    <2>2. QED
        BY <1>4, <2>1
<1>8. ASSUME NEW w \in Workers, request[w] = r, AnswerDropped(w) PROVE Accounted(r)'
    <2>1. Pending(w) /\ Leave(w) /\ Lose(r) /\ UNCHANGED <<llm_cache, asked>>
        BY <1>8 DEF AnswerDropped, Pending
    <2>2. QED
        BY <1>5, <1>8, <2>1
<1>9. ASSUME NEW w \in Workers, request[w] = r, CallRaises(w) PROVE Accounted(r)'
    <2>1. Leave(w) /\ UNCHANGED <<llm_cache, asked>>
        BY <1>9 DEF CallRaises
    <2>2. (Pending(w) /\ Lose(request[w])) \/ (~Pending(w) /\ UNCHANGED lost)
        BY <1>9 DEF CallRaises
    <2>3. Lose(request[w]) => Lose(r)
        BY <1>9
    <2>4. QED
        BY <1>4, <1>5, <1>9, <2>1, <2>2, <2>3
<1>10. CASE NewDay \/ UNCHANGED vars
    <2>1. UNCHANGED <<llm_cache, asked, lost, pc, request>>
        BY <1>10 DEF NewDay, vars, history
    <2>2. Asking(r)' = Asking(r) /\ Missed(r)' = Missed(r)
        BY <2>1 DEF Asking, Missed, Pending
    <2>3. QED
        BY <1>1, <2>1, <2>2, AccountedKept
<1>11. ASSUME NEW w \in Workers, request[w] = r, Step(w) PROVE Accounted(r)'
    BY <1>1, <1>3, <1>6, <1>7, <1>8, <1>9, <1>11,
       AccountedMisses, AccountedAsks, AccountedRetries, AccountedCaches DEF Step
<1>12. QED
    BY <1>2, <1>3, <1>10, <1>11 DEF Next

-----------------------------------------------------------------------------
\* It holds at the start.
LEMMA LedgerInit == Init => LedgerInv
<1> SUFFICES ASSUME Init PROVE LedgerInv
    OBVIOUS
<1>1. TypeOK
    BY CostsAssumption DEF Init, TypeOK
<1>2. AttemptInv
    BY DEF Init, AttemptInv
<1>3. \A V \in SUBSET Vendors : InFlight(V) = {}
    BY DEF Init, InFlight
<1>4. InFlight(Vendors) = {} /\ \A v \in Vendors : InFlight({v}) = {}
    <2>1. \A v \in Vendors : {v} \in SUBSET Vendors
        OBVIOUS
    <2>2. QED
        BY <1>3, <2>1
<1>5. Cardinality({}) = 0
    BY FS_EmptySet
<1>6. Reserved
    <2>1. \A b : Covered(0, 0, b)
        BY DEF Covered
    <2>2. Covered(today_total, Cardinality(InFlight(Vendors)), Budget)
        BY <1>4, <1>5, <2>1 DEF Init
    <2>3. ASSUME NEW v \in Vendors
          PROVE  Covered(today_vendor[v], Cardinality(InFlight({v})), VendorBudget)
        <3>1. today_vendor[v] = 0 /\ Cardinality(InFlight({v})) = 0
            BY <1>4, <1>5 DEF Init
        <3>2. QED
            BY <2>1, <3>1
    <2>4. QED
        BY <2>2, <2>3 DEF Reserved
<1>7. CallsAccounted
    <2> SUFFICES ASSUME NEW r \in Requests PROVE Accounted(r)
        BY DEF CallsAccounted
    <2>1. Asking(r) = {} /\ Missed(r) = {}
        BY DEF Init, Asking, Missed, Pending
    <2>2. Cardinality(Asking(r)) = 0 /\ Cardinality(Missed(r)) = 0
        BY <1>5, <2>1
    <2>3. Cardinality(Workers) \in Nat
        BY WorkersAssumption, FS_CardinalityType
    <2>4. asked[r] = 0 /\ lost[r] = 0
        BY DEF Init
    <2>5. QED
        BY <2>2, <2>3, <2>4 DEF Accounted
<1>8. QED
    BY <1>1, <1>2, <1>6, <1>7 DEF LedgerInv

\* What holds of every state of every run: the types, the reservations and
\* the account of the calls.
THEOREM LedgerInvariant == Spec => []LedgerInv
<1>1. LedgerInv /\ [Next]_vars => LedgerInv'
    BY TypeStep, AttemptStep, ReservedStep, CallsStep DEF LedgerInv
<1>2. QED
    BY LedgerInit, <1>1, PTL DEF Spec

\* The types of fallback.py's rows and variables.
THEOREM LLMTypes == Spec => []TypeOK
<1>1. LedgerInv => TypeOK
    BY DEF LedgerInv
<1>2. QED
    BY LedgerInvariant, <1>1, PTL

\* However many workers share it, the budget guard of BudgetGuard.allow is
\* passed by one call of each of them at most.
THEOREM BudgetHolds == Spec => []OvershootBounded
<1>1. LedgerInv => OvershootBounded
    <2> SUFFICES ASSUME LedgerInv PROVE OvershootBounded
        OBVIOUS
    <2>1. ASSUME NEW V \in SUBSET Vendors PROVE Cardinality(InFlight(V)) \in Nat
        <3>1. InFlight(V) \in SUBSET Workers
            BY DEF InFlight
        <3>2. QED
            BY <3>1, WorkerSets
    <2>2. Covered(today_total, 0, Budget)
        <3>1. today_total \in Nat /\ Covered(today_total, Cardinality(InFlight(Vendors)), Budget)
            BY DEF LedgerInv, TypeOK, Reserved
        <3>2. QED
            BY <2>1, <3>1, CoveredShrinks, BudgetAssumption
    <2>3. ASSUME NEW v \in Vendors PROVE Covered(today_vendor[v], 0, VendorBudget)
        <3>1. {v} \in SUBSET Vendors
            OBVIOUS
        <3>2. Cardinality(InFlight({v})) \in Nat
            BY <2>1, <3>1
        <3>3. today_vendor[v] \in Nat
              /\ Covered(today_vendor[v], Cardinality(InFlight({v})), VendorBudget)
            BY DEF LedgerInv, TypeOK, Reserved
        <3>4. QED
            BY <3>2, <3>3, CoveredShrinks, BudgetAssumption
    <2>4. QED
        BY <2>2, <2>3 DEF OvershootBounded
<1>2. QED
    BY LedgerInvariant, <1>1, PTL

\* The provider is asked about a payload, or a raw event type, at most once by
\* each worker, but for calls whose answer is rejected or lost before
\* _cache_set: however often the request is repeated, also by attempts that
\* die between provider.complete and _cache_set.
THEOREM CallsBounded == Spec => []AskedBounded
<1>1. LedgerInv => AskedBounded
    <2> SUFFICES ASSUME LedgerInv, NEW r \in Requests
                 PROVE  asked[r] <= Cardinality(Workers) + lost[r]
        BY DEF AskedBounded
    <2>1. Cardinality(Missed(r)) \in Nat /\ Cardinality(Workers) \in Nat
        BY AskingAndMissed, DisjointWorkers
    <2>2. /\ asked[r] \in Nat /\ lost[r] \in Nat
          /\ asked[r] + Cardinality(Missed(r)) <= Cardinality(Workers) + lost[r]
        BY DEF LedgerInv, TypeOK, CallsAccounted, Accounted
    <2>3. QED
        BY <2>1, <2>2
<1>2. QED
    BY LedgerInvariant, <1>1, PTL

=============================================================================
