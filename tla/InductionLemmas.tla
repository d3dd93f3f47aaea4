--------------------------- MODULE InductionLemmas ---------------------------
(***************************************************************************)
(* Induction over natural numbers and over sequences, with sets in the     *)
(* place of predicates, and what the iteration within FoldLeft computes,   *)
(* with a function in the place of the operator: first-order statements,   *)
(* which the proofs about folds instantiate.                               *)
(***************************************************************************)
EXTENDS Integers, SequencesExt, SequenceTheorems, WellFoundedInduction, TLAPS

\* Every set of natural numbers has a least one.
LEMMA LeastNatural ==
    ASSUME NEW T, T \subseteq Nat, T # {}
    PROVE  \E n \in T : \A m \in T : n <= m
<1>1. PICK n \in T : \A m \in T : <<m, n>> \notin OpToRel(<, Nat)
  BY NatLessThanWellFounded, WFMin, Zenon
<1>2. \A m \in T : ~(m < n)
  BY <1>1 DEF OpToRel
<1> QED  BY <1>2

\* Induction over the natural numbers.
LEMMA NatSetInduction ==
    ASSUME NEW T, 0 \in T, \A n \in Nat : n \in T => n + 1 \in T
    PROVE  Nat \subseteq T
<1> DEFINE U == Nat \ T
<1>1. SUFFICES ASSUME U # {} PROVE FALSE
  OBVIOUS
<1>2. PICK n \in U : \A m \in U : n <= m
  BY <1>1, LeastNatural
<1>3. n \in Nat /\ n # 0 /\ n - 1 \in Nat /\ n - 1 \notin U
  BY <1>2
<1> QED  BY <1>2, <1>3

\* Induction over sequences, by their last elements.
LEMMA SeqSetInduction ==
    ASSUME NEW S, NEW T, <<>> \in T,
           \A s \in Seq(S) : \A x \in S : s \in T => Append(s, x) \in T
    PROVE  Seq(S) \subseteq T
<1> DEFINE N == {n \in Nat : \A s \in Seq(S) : Len(s) = n => s \in T}
<1>1. 0 \in N
  BY EmptySeq
<1>2. ASSUME NEW n \in Nat, n \in N PROVE n + 1 \in N
  <2>1. SUFFICES ASSUME NEW s \in Seq(S), Len(s) = n + 1 PROVE s \in T
    OBVIOUS
  <2>2. s # <<>>
    BY <2>1
  <2>3. PICK t \in Seq(S), x \in S : s = Append(t, x)
    BY <2>2, SequenceEmptyOrAppend
  <2>4. Len(t) = n
    BY <2>1, <2>3
  <2> QED  BY <1>2, <2>3, <2>4
<1> HIDE DEF N
<1>3. Nat \subseteq N
  BY <1>1, <1>2, NatSetInduction
<1>4. ASSUME NEW s \in Seq(S) PROVE s \in T
  BY <1>3, <1>4 DEF N
<1> QED  BY <1>4

-----------------------------------------------------------------------------
(* FoldLeft *)

\* The index FoldLeft takes off last.
LEMMA MaxIndex ==
    ASSUME NEW m \in Nat, NEW s \in SUBSET (1..m), s # {}
    PROVE  Max(s) \in s /\ \A i \in s : i <= Max(s)
<1> DEFINE T == {m - i : i \in s}
<1>1. PICK n \in T : \A k \in T : n <= k
  <2>1. \A i \in s : m - i \in Nat
    OBVIOUS
  <2>2. T \subseteq Nat /\ T # {}
    BY <2>1
  <2> QED  BY <2>2, LeastNatural
<1>2. PICK i \in s : n = m - i
  OBVIOUS
<1>3. \A j \in s : i >= j
  BY <1>1, <1>2
<1> QED  BY <1>2, <1>3 DEF Max

\* What FoldLeft iterates over the indices up to n, of a step G on the result so
\* far and the index.
Iterates(g, n, base, G) ==
    \A s \in SUBSET (1..n) : g[s] = IF s = {} THEN base ELSE G[<<g[s \ {Max(s)}], Max(s)>>]

CanIterate(n, V, base, G) == \E g \in [SUBSET (1..n) -> V] : Iterates(g, n, base, G)

\* Such an iteration exists, over any range of indices, and stays among the values of G.
LEMMA IterationExists ==
    ASSUME NEW n \in Nat, NEW V, NEW base \in V, NEW G \in [V \X (1..n) -> V]
    PROVE  CanIterate(n, V, base, G)
<1> DEFINE T == {m \in Nat : m <= n => CanIterate(m, V, base, G)}
<1>1. 0 \in T
  <2> DEFINE g == [s \in SUBSET (1..0) |-> base]
  <2>1. g \in [SUBSET (1..0) -> V] /\ Iterates(g, 0, base, G)
    BY DEF Iterates
  <2> QED  BY <2>1 DEF CanIterate
<1>2. ASSUME NEW m \in Nat, m \in T PROVE m + 1 \in T
  <2> SUFFICES ASSUME m + 1 <= n PROVE CanIterate(m + 1, V, base, G)
    OBVIOUS
  <2>0. CanIterate(m, V, base, G)
    BY <1>2
  <2>1. PICK h \in [SUBSET (1..m) -> V] : Iterates(h, m, base, G)
    BY <2>0 DEF CanIterate
  <2> DEFINE g == [s \in SUBSET (1..m + 1) |->
                     IF m + 1 \in s THEN G[<<h[s \ {m + 1}], m + 1>>] ELSE h[s]]
  <2>2. ASSUME NEW s \in SUBSET (1..m + 1), m + 1 \in s
        PROVE  /\ Max(s) = m + 1 /\ g[s] \in V
               /\ g[s] = G[<<g[s \ {m + 1}], m + 1>>]
    <3>1. s \ {m + 1} \in SUBSET (1..m) /\ s \ {m + 1} \in SUBSET (1..m + 1)
      OBVIOUS
    <3>2. Max(s) \in s /\ \A i \in s : i <= Max(s)
      <4>1. m + 1 \in Nat /\ s # {}
        BY <2>2
      <4> QED  BY <4>1, MaxIndex
    <3>3. Max(s) = m + 1
      <4>1. Max(s) \in 1..m + 1 /\ m + 1 <= Max(s)
        BY <2>2, <3>2
      <4> QED  BY <4>1
    <3> QED  BY <2>2, <3>1, <3>3
  <2>3. ASSUME NEW s \in SUBSET (1..m + 1), m + 1 \notin s
        PROVE  /\ s \in SUBSET (1..m) /\ g[s] \in V /\ g[s] = h[s]
               /\ g[s \ {Max(s)}] = h[s \ {Max(s)}]
    <3>1. s \in SUBSET (1..m) /\ s \ {Max(s)} \in SUBSET (1..m)
      <4>1. \A i \in s : i \in 1..m + 1 /\ i # m + 1
        BY <2>3
      <4>2. \A i \in s : i \in 1..m
        BY <4>1
      <4> QED  BY <4>2
    <3> QED  BY <2>3, <3>1
  <2>4. g \in [SUBSET (1..m + 1) -> V]
    BY <2>2, <2>3
  <2>5. Iterates(g, m + 1, base, G)
    <3> SUFFICES ASSUME NEW s \in SUBSET (1..m + 1)
                 PROVE  g[s] = IF s = {} THEN base ELSE G[<<g[s \ {Max(s)}], Max(s)>>]
      BY DEF Iterates
    <3>1. CASE m + 1 \in s
      <4> HIDE DEF g
      <4> QED  BY <2>2, <3>1
    <3>2. CASE m + 1 \notin s
      <4> HIDE DEF g
      <4> QED  BY <2>1, <2>3, <3>2 DEF Iterates
    <3> QED  BY <3>1, <3>2
  <2> HIDE DEF g
  <2> QED  BY <2>4, <2>5 DEF CanIterate
<1>3. n \in T
  <2> HIDE DEF T
  <2> QED  BY <1>1, <1>2, NatSetInduction
<1> QED  BY <1>3

\* The first i indices are one more than the first i - 1.
LEMMA FirstIndices ==
    ASSUME NEW n \in Nat, NEW i \in 1..n
    PROVE  /\ 1..i \in SUBSET (1..n) /\ 1..i # {} /\ 1..(i - 1) \in SUBSET (1..n)
           /\ Max(1..i) = i /\ (1..i) \ {i} = 1..(i - 1)
<1>1. 1..i \in SUBSET (1..n) /\ 1..i # {} /\ 1..(i - 1) \in SUBSET (1..n)
  OBVIOUS
<1>2. Max(1..i) = i
  <2>1. Max(1..i) \in 1..i /\ \A j \in 1..i : j <= Max(1..i)
    BY <1>1, MaxIndex
  <2> QED  BY <2>1
<1>3. (1..i) \ {i} = 1..(i - 1)
  OBVIOUS
<1> QED  BY <1>1, <1>2, <1>3

\* Two iterations that go on alike agree.
GoOnAlike(g, h, n) ==
    /\ g[1..0] = h[1..0]
    /\ \A i \in 1..n : g[1..(i - 1)] = h[1..(i - 1)] => g[1..i] = h[1..i]

Agree(g, h, n) == \A i \in 0..n : g[1..i] = h[1..i]

\* By induction over the indices.
LEMMA IterationsAgree ==
    ASSUME NEW n \in Nat, NEW g, NEW h, GoOnAlike(g, h, n)
    PROVE  Agree(g, h, n)
<1> USE DEF GoOnAlike, Agree
<1> DEFINE T == {i \in Nat : i <= n => g[1..i] = h[1..i]}
<1>1. ASSUME NEW i \in Nat, i \in T PROVE i + 1 \in T
  <2> SUFFICES ASSUME i + 1 <= n PROVE g[1..(i + 1)] = h[1..(i + 1)]
    OBVIOUS
  <2>1. i + 1 \in 1..n /\ (i + 1) - 1 = i
    OBVIOUS
  <2>2. g[1..i] = h[1..i]
    BY <1>1
  <2> QED  BY <2>1, <2>2
<1>2. 0 \in T
  OBVIOUS
<1> HIDE DEF T
<1>3. Nat \subseteq T
  BY <1>1, <1>2, NatSetInduction
<1> QED  BY <1>3 DEF T

\* A fold of s from base with the step G on the result so far and the next element
\* comes to v: the results over the first indices lead there.
FoldsTo(s, base, G, v) ==
    \E g : /\ g[1..0] = base /\ v = g[1..Len(s)]
          /\ \A i \in 1..Len(s) : g[1..i] = G[<<g[1..(i - 1)], s[i]>>]

\* Nothing to fold: the base.
LEMMA FoldsToEmpty ==
    ASSUME NEW base, NEW G, NEW v, FoldsTo(<<>>, base, G, v)
    PROVE  v = base
<1>1. Len(<<>>) = 0
  OBVIOUS
<1> QED  BY <1>1 DEF FoldsTo

\* Of nothing, the base is a fold.
LEMMA FoldsFromBase ==
    ASSUME NEW base, NEW G
    PROVE  FoldsTo(<<>>, base, G, base)
<1> DEFINE g == [t \in {1..0} |-> base]
<1>1. Len(<<>>) = 0 /\ 1..0 = {}
  OBVIOUS
<1>2. g[1..0] = base
  OBVIOUS
<1> QED  BY <1>1, <1>2 DEF FoldsTo

\* A fold can be carried on by one element.
LEMMA FoldsOn ==
    ASSUME NEW S, NEW s \in Seq(S), NEW c \in S, NEW base, NEW G, NEW v, FoldsTo(s, base, G, v)
    PROVE  FoldsTo(Append(s, c), base, G, G[<<v, c>>])
<1> DEFINE m == Len(s)
           q == Append(s, c)
           w == G[<<v, c>>]
<1>1. /\ m \in Nat /\ Len(q) = m + 1 /\ q[m + 1] = c /\ (m + 1) - 1 = m
      /\ \A i \in 1..m : q[i] = s[i] /\ i \in 0..m /\ i - 1 \in 0..m
      /\ m \in 0..m /\ 0 \in 0..m
      /\ \A i \in 1..(m + 1) : i \in 1..m \/ i = m + 1
  OBVIOUS
<1>2. PICK g : /\ g[1..0] = base /\ v = g[1..m]
               /\ \A i \in 1..m : g[1..i] = G[<<g[1..(i - 1)], s[i]>>]
  BY DEF FoldsTo
<1> HIDE DEF m, q, w
<1> DEFINE h == [t \in {1..i : i \in 0..(m + 1)} |-> IF t = 1..(m + 1) THEN w ELSE g[t]]
<1>3. \A i \in 0..m : h[1..i] = g[1..i]
  <2>1. ASSUME NEW i \in 0..m
        PROVE  1..i # 1..(m + 1) /\ 1..i \in {1..j : j \in 0..(m + 1)}
    <3>1. m + 1 \in 1..(m + 1) /\ m + 1 \notin 1..i /\ i \in 0..(m + 1)
      BY <1>1
    <3> QED  BY <3>1
  <2> QED  BY <2>1
<1>4. h[1..(m + 1)] = w
  <2>1. 1..(m + 1) \in {1..j : j \in 0..(m + 1)}
    <3>1. m + 1 \in 0..(m + 1)
      BY <1>1
    <3> QED  BY <3>1
  <2> QED  BY <2>1
<1> HIDE DEF h
<1>5. h[1..0] = base
  BY <1>1, <1>2, <1>3
<1>6. ASSUME NEW i \in 1..(m + 1) PROVE h[1..i] = G[<<h[1..(i - 1)], q[i]>>]
  <2>1. CASE i \in 1..m
    <3>1. h[1..i] = g[1..i] /\ h[1..(i - 1)] = g[1..(i - 1)] /\ q[i] = s[i]
      BY <1>1, <1>3, <2>1
    <3> QED  BY <1>2, <2>1, <3>1
  <2>2. CASE i = m + 1
    <3>1. h[1..(i - 1)] = v /\ q[i] = c /\ h[1..i] = w
      BY <1>1, <1>2, <1>3, <1>4, <2>2
    <3> QED  BY <3>1 DEF w
  <2> QED  BY <1>1, <2>1, <2>2
<1>7. \E f : /\ f[1..0] = base /\ w = f[1..Len(q)]
             /\ \A i \in 1..Len(q) : f[1..i] = G[<<f[1..(i - 1)], q[i]>>]
  BY <1>1, <1>4, <1>5, <1>6
<1> QED  BY <1>7 DEF FoldsTo, q, w

\* A fold comes to one value only.
LEMMA FoldsToOne ==
    ASSUME NEW S, NEW s \in Seq(S), NEW base, NEW G, NEW v, NEW w,
           FoldsTo(s, base, G, v), FoldsTo(s, base, G, w)
    PROVE  v = w
<1> DEFINE m == Len(s)
<1>1. m \in Nat /\ m \in 0..m
  OBVIOUS
<1>2. PICK g : /\ g[1..0] = base /\ v = g[1..m]
               /\ \A i \in 1..m : g[1..i] = G[<<g[1..(i - 1)], s[i]>>]
  BY DEF FoldsTo
<1>3. PICK h : /\ h[1..0] = base /\ w = h[1..m]
               /\ \A i \in 1..m : h[1..i] = G[<<h[1..(i - 1)], s[i]>>]
  BY DEF FoldsTo
<1> HIDE DEF m
<1>4. \A i \in 1..m : g[1..(i - 1)] = h[1..(i - 1)] => g[1..i] = h[1..i]
  BY <1>2, <1>3
<1>5. GoOnAlike(g, h, m)
  BY <1>2, <1>3, <1>4 DEF GoOnAlike
<1>6. Agree(g, h, m)
  BY <1>1, <1>5, IterationsAgree
<1> QED  BY <1>1, <1>2, <1>3, <1>6 DEF Agree

\* One element more is one step more.
LEMMA FoldsToAppend ==
    ASSUME NEW S, NEW s \in Seq(S), NEW c \in S, NEW base, NEW G, NEW v, NEW w,
           FoldsTo(s, base, G, v), FoldsTo(Append(s, c), base, G, w)
    PROVE  w = G[<<v, c>>]
<1>1. FoldsTo(Append(s, c), base, G, G[<<v, c>>])
  BY FoldsOn
<1>2. Append(s, c) \in Seq(S)
  OBVIOUS
<1> QED  BY <1>1, <1>2, FoldsToOne

\* What MapThenFoldSet, the body of FoldLeft, iterates.
FoldFcn(s, base, G, f) ==
    f = [t \in SUBSET DOMAIN s |->
           IF t = {} THEN base ELSE G[<<f[t \ {Max(t)}], s[Max(t)]>>]]

\* That equation has a solution, so what FoldLeft chooses solves it too.
LEMMA FoldFcnExists ==
    ASSUME NEW S, NEW V, NEW base \in V, NEW G \in [V \X S -> V], NEW s \in Seq(S)
    PROVE  \E f \in [SUBSET DOMAIN s -> V] : FoldFcn(s, base, G, f)
<1> DEFINE n == Len(s)
           H == [x \in V \X (1..n) |-> G[<<x[1], s[x[2]]>>]]
<1>1. n \in Nat /\ DOMAIN s = 1..n /\ \A i \in 1..n : s[i] \in S
  OBVIOUS
<1>2. H \in [V \X (1..n) -> V] /\ \A x \in V, i \in 1..n : H[<<x, i>>] = G[<<x, s[i]>>]
  BY <1>1
<1> HIDE DEF H, n
<1>3. PICK f \in [SUBSET (1..n) -> V] : Iterates(f, n, base, H)
  BY <1>1, <1>2, IterationExists DEF CanIterate
<1>4. ASSUME NEW t \in SUBSET (1..n)
      PROVE  f[t] = IF t = {} THEN base ELSE G[<<f[t \ {Max(t)}], s[Max(t)]>>]
  <2>1. CASE t = {}
    BY <1>3, <2>1 DEF Iterates
  <2>2. CASE t # {}
    <3>1. Max(t) \in 1..n /\ t \ {Max(t)} \in SUBSET (1..n)
      BY <1>1, <2>2, MaxIndex
    <3>2. f[t \ {Max(t)}] \in V
      BY <3>1
    <3> QED  BY <1>2, <1>3, <2>2, <3>1, <3>2 DEF Iterates
  <2> QED  BY <2>1, <2>2
<1> QED  BY <1>1, <1>4 DEF FoldFcn

\* Any function that solves the equation gives the fold.
LEMMA FoldFcnFolds ==
    ASSUME NEW S, NEW base, NEW G, NEW s \in Seq(S), NEW f, FoldFcn(s, base, G, f)
    PROVE  FoldsTo(s, base, G, f[DOMAIN s])
<1> DEFINE n == Len(s)
<1>1. n \in Nat /\ DOMAIN s = 1..n /\ 1..0 = {} /\ 1..0 \in SUBSET (1..n)
  OBVIOUS
<1> HIDE DEF n
<1>2. f[1..0] = base
  BY <1>1 DEF FoldFcn
<1>3. ASSUME NEW i \in 1..n PROVE f[1..i] = G[<<f[1..(i - 1)], s[i]>>]
  <2>1. /\ 1..i \in SUBSET (1..n) /\ 1..i # {}
        /\ Max(1..i) = i /\ (1..i) \ {i} = 1..(i - 1)
    BY <1>1, FirstIndices
  <2>2. f[1..i] = G[<<f[(1..i) \ {Max(1..i)}], s[Max(1..i)]>>]
    BY <1>1, <2>1, Zenon DEF FoldFcn
  <2> QED  BY <2>1, <2>2
<1> QED  BY <1>1, <1>2, <1>3 DEF FoldsTo, n

=============================================================================
