----------------------------- MODULE Money_proofs -----------------------------
(***************************************************************************)
(* Money, for texts of any length over any characters. The folds are over  *)
(* data, so the facts about them are proved by induction over sequences    *)
(* (InductionLemmas); the reachable texts are sequences of characters.     *)
(***************************************************************************)
EXTENDS Money, InductionLemmas, SequenceTheorems, FiniteSetTheorems, TLAPS

-----------------------------------------------------------------------------
(* The characters. *)

\* The digits, out of the table of them.
LEMMA Digits == Digit = {"0", "1", "2", "3", "4", "5", "6", "7", "8", "9"}
<1>1. DOMAIN DIGITS = 1..10
  BY DEF DIGITS
<1> QED  BY <1>1 DEF Digit, ToSet, DIGITS

\* A digit is worth its place in the table.
LEMMA DigitValues ==
    /\ \A d \in Digit : DigitValue[d] \in 0..9
    /\ DigitValue["0"] = 0
<1>1. ASSUME NEW d \in Digit PROVE \E n \in 0..9 : DIGITS[n + 1] = d
  <2>1. PICK i \in DOMAIN DIGITS : d = DIGITS[i]
    BY DEF Digit, ToSet
  <2>2. i \in 1..10
    BY <2>1 DEF DIGITS
  <2> QED  BY <2>1, <2>2
<1>2. \A d \in Digit : DigitValue[d] \in 0..9 /\ DIGITS[DigitValue[d] + 1] = d
  BY <1>1 DEF DigitValue
<1>3. "0" \in Digit
  BY Digits
<1>4. \A n \in 0..9 : DIGITS[n + 1] = "0" => n = 0
  BY DEF DIGITS
<1> QED  BY <1>2, <1>3, <1>4

-----------------------------------------------------------------------------
(* NumberOf *)

NumberStep == [x \in Nat \X Digit |-> 10 * x[1] + DigitValue[x[2]]]

\* The step takes a number and a digit to a number.
LEMMA NumberStepType == NumberStep \in [Nat \X Digit -> Nat]
<1>1. \A n \in Nat, d \in 0..9 : 10 * n + d \in Nat
  OBVIOUS
<1>2. \A x \in Nat \X Digit : x[1] \in Nat /\ x[2] \in Digit
  OBVIOUS
<1>3. \A x \in Nat \X Digit : 10 * x[1] + DigitValue[x[2]] \in Nat
  BY <1>1, <1>2, DigitValues, Zenon
<1> QED  BY <1>3, Zenon DEF NumberStep

\* NumberOf is a fold with that step: what FoldLeft chooses agrees with it.
LEMMA NumberOfFolds ==
    ASSUME NEW s \in Seq(Digit)
    PROVE  FoldsTo(s, 0, NumberStep, NumberOf(s))
<1> DEFINE n == Len(s)
           E(g) == g = [t \in SUBSET DOMAIN s |->
                          IF t = {} THEN 0 ELSE 10 * g[t \ {Max(t)}] + DigitValue[s[Max(t)]]]
           h == CHOOSE h : E(h)
<1>1. /\ n \in Nat /\ DOMAIN s = 1..n /\ \A i \in 1..n : s[i] \in Digit
      /\ 1..0 = {} /\ 1..0 \in SUBSET (1..n) /\ n \in 0..n
  OBVIOUS
<1>2. NumberOf(s) = h[DOMAIN s]
  BY DEF NumberOf, FoldLeft, MapThenFoldSet
<1>3. NumberStep \in [Nat \X Digit -> Nat]
  BY NumberStepType
<1>4. PICK f \in [SUBSET DOMAIN s -> Nat] : FoldFcn(s, 0, NumberStep, f)
  BY <1>3, FoldFcnExists
<1> HIDE DEF n
<1>5. E(f)
  <2>1. ASSUME NEW t \in SUBSET DOMAIN s, t # {}
        PROVE  NumberStep[<<f[t \ {Max(t)}], s[Max(t)]>>]
                 = 10 * f[t \ {Max(t)}] + DigitValue[s[Max(t)]]
    <3>1. Max(t) \in 1..n
      BY <1>1, <2>1, MaxIndex
    <3>2. f[t \ {Max(t)}] \in Nat
      OBVIOUS
    <3> QED  BY <1>1, <3>1, <3>2 DEF NumberStep
  <2> QED  BY <1>4, <2>1 DEF FoldFcn
<1>6. E(h)
  BY <1>5
<1> HIDE DEF h
<1>7. ASSUME NEW g, E(g), NEW i \in 1..n
      PROVE  g[1..i] = 10 * g[1..(i - 1)] + DigitValue[s[i]]
  <2>1. /\ 1..i \in SUBSET (1..n) /\ 1..i # {}
        /\ Max(1..i) = i /\ (1..i) \ {i} = 1..(i - 1)
    BY <1>1, FirstIndices
  <2> QED  BY <1>1, <1>7, <2>1
<1>8. GoOnAlike(f, h, n)
  <2>1. f[1..0] = 0 /\ h[1..0] = 0
    BY <1>1, <1>5, <1>6
  <2>2. ASSUME NEW i \in 1..n, f[1..(i - 1)] = h[1..(i - 1)]
        PROVE  f[1..i] = h[1..i]
    <3>1. f[1..i] = 10 * f[1..(i - 1)] + DigitValue[s[i]]
      BY <1>5, <1>7
    <3>2. h[1..i] = 10 * h[1..(i - 1)] + DigitValue[s[i]]
      BY <1>6, <1>7
    <3> QED  BY <2>2, <3>1, <3>2
  <2> QED  BY <2>1, <2>2 DEF GoOnAlike
<1>9. f[DOMAIN s] = h[DOMAIN s]
  BY <1>1, <1>8, IterationsAgree DEF Agree
<1> QED  BY <1>2, <1>4, <1>9, FoldFcnFolds

\* No digits: zero.
LEMMA NumberOfEmpty == NumberOf(<<>>) = 0
<1>1. <<>> \in Seq(Digit)
  OBVIOUS
<1>2. FoldsTo(<<>>, 0, NumberStep, NumberOf(<<>>))
  BY <1>1, NumberOfFolds
<1> QED  BY <1>2, FoldsToEmpty

\* One digit more: ten times the number, and the digit.
LEMMA NumberOfAppend ==
    ASSUME NEW s \in Seq(Digit), NEW d \in Digit, NumberOf(s) \in Nat
    PROVE  NumberOf(Append(s, d)) = 10 * NumberOf(s) + DigitValue[d]
<1>1. NumberStep \in [Nat \X Digit -> Nat] /\ 0 \in Nat
  BY NumberStepType
<1>2. Append(s, d) \in Seq(Digit)
  OBVIOUS
<1>3. NumberOf(Append(s, d)) = NumberStep[<<NumberOf(s), d>>]
  <2>1. FoldsTo(s, 0, NumberStep, NumberOf(s)) /\ FoldsTo(Append(s, d), 0, NumberStep, NumberOf(Append(s, d)))
    BY <1>2, NumberOfFolds
  <2> QED  BY <2>1, FoldsToAppend, Zenon
<1> QED  BY <1>3 DEF NumberStep

\* The digits form a natural number.
LEMMA NumberOfType == \A s \in Seq(Digit) : NumberOf(s) \in Nat
<1> DEFINE T == {s \in Seq(Digit) : NumberOf(s) \in Nat}
<1>1. <<>> \in T
  BY NumberOfEmpty
<1>2. ASSUME NEW s \in Seq(Digit), NEW d \in Digit, s \in T
      PROVE  Append(s, d) \in T
  BY <1>2, NumberOfAppend, DigitValues
<1> HIDE DEF T
<1>3. Seq(Digit) \subseteq T
  BY <1>1, <1>2, SeqSetInduction
<1> QED  BY <1>3 DEF T

-----------------------------------------------------------------------------
(* Only *)

OnlyStep(S, A) == [x \in Seq(S) \X S |-> IF x[2] \in A THEN Append(x[1], x[2]) ELSE x[1]]

\* A step of the filter leads from a text to a text.
LEMMA OnlyStepType == \A S, A : OnlyStep(S, A) \in [Seq(S) \X S -> Seq(S)]
BY DEF OnlyStep

\* Only is a fold with that step.
LEMMA OnlyFolds ==
    ASSUME NEW S, NEW A, NEW s \in Seq(S)
    PROVE  FoldsTo(s, <<>>, OnlyStep(S, A), Only(s, A))
<1> DEFINE n == Len(s)
           E(g) == g = [t \in SUBSET DOMAIN s |->
                          IF t = {} THEN <<>>
                          ELSE IF s[Max(t)] \in A
                               THEN Append(g[t \ {Max(t)}], s[Max(t)]) ELSE g[t \ {Max(t)}]]
           h == CHOOSE h : E(h)
<1>1. /\ n \in Nat /\ DOMAIN s = 1..n /\ \A i \in 1..n : s[i] \in S
      /\ 1..0 = {} /\ 1..0 \in SUBSET (1..n) /\ n \in 0..n
  OBVIOUS
<1>2. Only(s, A) = h[DOMAIN s]
  BY DEF Only, FoldLeft, MapThenFoldSet
<1>3. PICK f \in [SUBSET DOMAIN s -> Seq(S)] : FoldFcn(s, <<>>, OnlyStep(S, A), f)
  <2>1. <<>> \in Seq(S)
    OBVIOUS
  <2> QED  BY <2>1, OnlyStepType, FoldFcnExists
<1> HIDE DEF n
<1>4. E(f)
  <2>1. ASSUME NEW t \in SUBSET DOMAIN s, t # {}
        PROVE  OnlyStep(S, A)[<<f[t \ {Max(t)}], s[Max(t)]>>]
                 = IF s[Max(t)] \in A
                   THEN Append(f[t \ {Max(t)}], s[Max(t)]) ELSE f[t \ {Max(t)}]
    <3>1. Max(t) \in 1..n
      BY <1>1, <2>1, MaxIndex
    <3>2. f[t \ {Max(t)}] \in Seq(S)
      OBVIOUS
    <3> QED  BY <1>1, <3>1, <3>2 DEF OnlyStep
  <2> QED  BY <1>3, <2>1 DEF FoldFcn
<1>5. E(h)
  BY <1>4
<1> HIDE DEF h
<1>6. ASSUME NEW g, E(g), NEW i \in 1..n
      PROVE  g[1..i] = IF s[i] \in A THEN Append(g[1..(i - 1)], s[i]) ELSE g[1..(i - 1)]
  <2>1. /\ 1..i \in SUBSET (1..n) /\ 1..i # {}
        /\ Max(1..i) = i /\ (1..i) \ {i} = 1..(i - 1)
    BY <1>1, FirstIndices
  <2> QED  BY <1>1, <1>6, <2>1
<1>7. GoOnAlike(f, h, n)
  <2>1. f[1..0] = <<>> /\ h[1..0] = <<>>
    BY <1>1, <1>4, <1>5
  <2>2. ASSUME NEW i \in 1..n, f[1..(i - 1)] = h[1..(i - 1)]
        PROVE  f[1..i] = h[1..i]
    <3>1. f[1..i] = IF s[i] \in A THEN Append(f[1..(i - 1)], s[i]) ELSE f[1..(i - 1)]
      BY <1>4, <1>6
    <3>2. h[1..i] = IF s[i] \in A THEN Append(h[1..(i - 1)], s[i]) ELSE h[1..(i - 1)]
      BY <1>5, <1>6
    <3> QED  BY <2>2, <3>1, <3>2
  <2> QED  BY <2>1, <2>2 DEF GoOnAlike
<1>8. f[DOMAIN s] = h[DOMAIN s]
  BY <1>1, <1>7, IterationsAgree DEF Agree
<1> QED  BY <1>2, <1>3, <1>8, FoldFcnFolds

\* Of nothing, nothing is kept.
LEMMA OnlyEmpty == \A A : Only(<<>>, A) = <<>>
<1> SUFFICES ASSUME NEW A PROVE Only(<<>>, A) = <<>>
  OBVIOUS
<1>1. <<>> \in Seq({})
  OBVIOUS
<1>2. FoldsTo(<<>>, <<>>, OnlyStep({}, A), Only(<<>>, A))
  BY <1>1, OnlyFolds
<1> QED  BY <1>2, FoldsToEmpty

\* One character more is one step more.
LEMMA OnlyStepped ==
    ASSUME NEW S, NEW A, NEW s \in Seq(S), NEW c \in S
    PROVE  Only(Append(s, c), A) = OnlyStep(S, A)[<<Only(s, A), c>>]
<1>1. Append(s, c) \in Seq(S) /\ <<>> \in Seq(S)
  OBVIOUS
<1>2. FoldsTo(s, <<>>, OnlyStep(S, A), Only(s, A))
  BY OnlyFolds
<1>3. FoldsTo(Append(s, c), <<>>, OnlyStep(S, A), Only(Append(s, c), A))
  BY <1>1, OnlyFolds
<1> QED  BY <1>2, <1>3, FoldsToAppend

\* A filtered text is a text of the same characters.
LEMMA OnlyType ==
    ASSUME NEW S, NEW A
    PROVE  \A s \in Seq(S) : Only(s, A) \in Seq(S)
<1> DEFINE T == {s \in Seq(S) : Only(s, A) \in Seq(S)}
<1>1. <<>> \in T
  <2>1. Only(<<>>, A) = <<>> /\ <<>> \in Seq(S)
    BY OnlyEmpty
  <2> QED  BY <2>1
<1>2. ASSUME NEW s \in Seq(S), NEW c \in S, s \in T
      PROVE  Append(s, c) \in T
  <2>1. <<Only(s, A), c>> \in Seq(S) \X S
    BY <1>2
  <2>2. Only(Append(s, c), A) = OnlyStep(S, A)[<<Only(s, A), c>>]
    BY OnlyStepped
  <2>3. OnlyStep(S, A) \in [Seq(S) \X S -> Seq(S)]
    BY OnlyStepType
  <2>4. Only(Append(s, c), A) \in Seq(S)
    BY <2>1, <2>2, <2>3
  <2>5. Append(s, c) \in Seq(S)
    OBVIOUS
  <2> QED  BY <2>4, <2>5
<1> HIDE DEF T
<1>3. Seq(S) \subseteq T
  BY <1>1, <1>2, SeqSetInduction
<1> QED  BY <1>3 DEF T

\* What the recursion of a filter does with one character more.
LEMMA OnlyAppend ==
    ASSUME NEW S, NEW A, NEW s \in Seq(S), NEW c \in S
    PROVE  Only(Append(s, c), A) = IF c \in A THEN Append(Only(s, A), c) ELSE Only(s, A)
<1>1. Only(s, A) \in Seq(S)
  BY OnlyType
<1>2. Only(Append(s, c), A) = OnlyStep(S, A)[<<Only(s, A), c>>]
  BY OnlyStepped
<1>3. <<Only(s, A), c>> \in Seq(S) \X S
  BY <1>1
<1> QED  BY <1>2, <1>3 DEF OnlyStep

\* What is kept are characters of both sets.
LEMMA OnlyRange ==
    ASSUME NEW S, NEW A
    PROVE  \A s \in Seq(S) : Only(s, A) \in Seq(S \cap A)
<1> DEFINE T == {s \in Seq(S) : Only(s, A) \in Seq(S \cap A)}
<1>1. <<>> \in T
  <2>1. Only(<<>>, A) = <<>> /\ <<>> \in Seq(S) /\ <<>> \in Seq(S \cap A)
    BY OnlyEmpty
  <2> QED  BY <2>1
<1>2. ASSUME NEW s \in Seq(S), NEW c \in S, s \in T
      PROVE  Append(s, c) \in T
  <2>1. Only(Append(s, c), A) = IF c \in A THEN Append(Only(s, A), c) ELSE Only(s, A)
    BY OnlyAppend
  <2>2. Append(s, c) \in Seq(S)
    OBVIOUS
  <2>3. Only(s, A) \in Seq(S \cap A)
    BY <1>2
  <2>4. c \in A => Append(Only(s, A), c) \in Seq(S \cap A)
    BY <2>3
  <2> QED  BY <2>1, <2>2, <2>3, <2>4
<1> HIDE DEF T
<1>3. Seq(S) \subseteq T
  BY <1>1, <1>2, SeqSetInduction
<1> QED  BY <1>3 DEF T

\* A filter of a filtered text keeps what both keep.
LEMMA OnlyOnly ==
    ASSUME NEW S, NEW A, NEW B
    PROVE  \A s \in Seq(S) : Only(Only(s, A), B) = Only(s, A \cap B)
<1> DEFINE T == {s \in Seq(S) : Only(Only(s, A), B) = Only(s, A \cap B)}
<1>1. <<>> \in T
  <2>1. Only(<<>>, A) = <<>> /\ Only(<<>>, B) = <<>> /\ Only(<<>>, A \cap B) = <<>>
    BY OnlyEmpty
  <2>2. <<>> \in Seq(S)
    OBVIOUS
  <2> QED  BY <2>1, <2>2
<1>2. ASSUME NEW s \in Seq(S), NEW c \in S, s \in T
      PROVE  Append(s, c) \in T
  <2>1. Only(Append(s, c), A) = IF c \in A THEN Append(Only(s, A), c) ELSE Only(s, A)
    BY OnlyAppend
  <2>2. Only(Append(s, c), A \cap B)
          = IF c \in A \cap B THEN Append(Only(s, A \cap B), c) ELSE Only(s, A \cap B)
    BY OnlyAppend
  <2>3. Only(s, A) \in Seq(S)
    BY OnlyType
  <2>4. Only(Append(Only(s, A), c), B)
          = IF c \in B THEN Append(Only(Only(s, A), B), c) ELSE Only(Only(s, A), B)
    BY <2>3, OnlyAppend
  <2>5. Append(s, c) \in Seq(S)
    OBVIOUS
  <2>6. Only(Only(s, A), B) = Only(s, A \cap B)
    BY <1>2
  <2> HIDE DEF T
  <2>7. Only(Only(Append(s, c), A), B) = Only(Append(s, c), A \cap B)
    <3>1. CASE c \in A
      <4>1. Only(Append(s, c), A) = Append(Only(s, A), c)
        BY <2>1, <3>1
      <4>2. c \in A \cap B <=> c \in B
        BY <3>1
      <4> QED  BY <2>2, <2>4, <2>6, <4>1, <4>2
    <3>2. CASE c \notin A
      BY <2>1, <2>2, <2>6, <3>2
    <3> QED  BY <3>1, <3>2
  <2> QED  BY <2>5, <2>7 DEF T
<1> HIDE DEF T
<1>3. Seq(S) \subseteq T
  BY <1>1, <1>2, SeqSetInduction
<1> QED  BY <1>3 DEF T

\* A filter that lets everything through changes nothing.
LEMMA OnlyAll ==
    ASSUME NEW S, NEW A, S \subseteq A
    PROVE  \A s \in Seq(S) : Only(s, A) = s
<1> DEFINE T == {s \in Seq(S) : Only(s, A) = s}
<1>1. <<>> \in T
  <2>1. Only(<<>>, A) = <<>> /\ <<>> \in Seq(S)
    BY OnlyEmpty
  <2> QED  BY <2>1
<1>2. ASSUME NEW s \in Seq(S), NEW c \in S, s \in T
      PROVE  Append(s, c) \in T
  <2>1. Only(Append(s, c), A) = Append(Only(s, A), c)
    BY OnlyAppend
  <2>2. Append(s, c) \in Seq(S)
    OBVIOUS
  <2> QED  BY <1>2, <2>1, <2>2
<1> HIDE DEF T
<1>3. Seq(S) \subseteq T
  BY <1>1, <1>2, SeqSetInduction
<1> QED  BY <1>3 DEF T

\* A filter goes through the parts of a text one by one.
LEMMA OnlyConcat ==
    ASSUME NEW S, NEW A, NEW r \in Seq(S)
    PROVE  \A s \in Seq(S) : Only(r \o s, A) = Only(r, A) \o Only(s, A)
<1> DEFINE T == {s \in Seq(S) : Only(r \o s, A) = Only(r, A) \o Only(s, A)}
<1>0. Only(r, A) \in Seq(S)
  BY OnlyType
<1>1. <<>> \in T
  <2>1. Only(<<>>, A) = <<>> /\ <<>> \in Seq(S) /\ r \o <<>> = r
    BY OnlyEmpty
  <2>2. Only(r, A) \o <<>> = Only(r, A)
    BY <1>0
  <2> QED  BY <2>1, <2>2
<1>2. ASSUME NEW s \in Seq(S), NEW c \in S, s \in T
      PROVE  Append(s, c) \in T
  <2>1. Only(Append(s, c), A) = IF c \in A THEN Append(Only(s, A), c) ELSE Only(s, A)
    BY OnlyAppend
  <2>2. r \o Append(s, c) = Append(r \o s, c) /\ r \o s \in Seq(S)
    OBVIOUS
  <2>3. Only(Append(r \o s, c), A)
          = IF c \in A THEN Append(Only(r \o s, A), c) ELSE Only(r \o s, A)
    <3>1. \A q \in Seq(S) :
            Only(Append(q, c), A) = IF c \in A THEN Append(Only(q, A), c) ELSE Only(q, A)
      BY OnlyAppend
    <3> QED  BY <2>2, <3>1
  <2>4. Only(s, A) \in Seq(S)
    BY OnlyType
  <2>5. Append(Only(r, A) \o Only(s, A), c) = Only(r, A) \o Append(Only(s, A), c)
    <3> HIDE DEF T
    <3>1. PICK u, v \in Seq(S) : u = Only(r, A) /\ v = Only(s, A)
      BY <1>0, <2>4
    <3>2. u \o v \in Seq(S) /\ Len(u \o v) = Len(u) + Len(v) /\ <<c>> \in Seq(S)
      OBVIOUS
    <3>3. Append(u \o v, c) = (u \o v) \o <<c>> /\ Append(v, c) = v \o <<c>>
      BY <3>2
    <3>4. (u \o v) \o <<c>> = u \o (v \o <<c>>)
      BY <3>2, ConcatAssociative
    <3> QED  BY <3>1, <3>3, <3>4, Zenon
  <2>6. Append(s, c) \in Seq(S)
    OBVIOUS
  <2>7. Only(r \o s, A) = Only(r, A) \o Only(s, A)
    BY <1>2
  <2> HIDE DEF T
  <2>8. Only(r \o Append(s, c), A) = Only(r, A) \o Only(Append(s, c), A)
    BY <2>1, <2>2, <2>3, <2>5, <2>7
  <2> QED  BY <2>6, <2>8 DEF T
<1> HIDE DEF T
<1>3. Seq(S) \subseteq T
  BY <1>1, <1>2, SeqSetInduction
<1> QED  BY <1>3 DEF T

-----------------------------------------------------------------------------
(* A text around its last separator *)

Dash == {"-"}
NoSeparator == Character \ Separator
Meant == Digit \cup Separator \cup Dash

\* The kinds of characters, and how they overlap.
LEMMA CharacterFacts ==
    /\ Meant \subseteq Character
    /\ Character \ (Code \cup DOMAIN SYMBOLS \cup {" "}) = Meant
    /\ Digit \subseteq NoSeparator /\ "-" \in NoSeparator /\ "-" \notin Digit
    /\ Digit \cap Separator = {}
    /\ Meant \cap NoSeparator = Digit \cup Dash
    /\ Meant \cap Digit = Digit
    /\ Separator \subseteq Character /\ NoSeparator \subseteq Character /\ Digit \subseteq Character
    /\ NoSeparator = Character \ Separator
<1>1. DOMAIN SYMBOLS = {"dollar", "euro", "pound"}
  BY DEF SYMBOLS
<1> QED  BY <1>1, Digits DEF Meant, NoSeparator, Character, Separator, Code, Dash

\* A text of fewer characters is one of more.
LEMMA SeqSubset ==
    ASSUME NEW S, NEW T, S \subseteq T
    PROVE  Seq(S) \subseteq Seq(T)
OBVIOUS

\* So it is for the kinds of characters.
LEMMA CharacterSeqs ==
    /\ Seq(NoSeparator) \subseteq Seq(Character)
    /\ Seq(Digit) \subseteq Seq(NoSeparator) /\ Seq(Digit) \subseteq Seq(Character)
    /\ Seq(Meant) \subseteq Seq(Character)
BY CharacterFacts, SeqSubset

\* s is p, then its last separator c, then q.
SplitAt(s, p, c, q) ==
    /\ p \in Seq(Character) /\ c \in Separator /\ q \in Seq(NoSeparator)
    /\ s = Append(p, c) \o q

\* Three texts in a row.
LEMMA ThreeParts == \A r, s, t \in Seq(Character) : (r \o s) \o t = r \o (s \o t)
BY ConcatAssociative

\* Every text has no separator or a last one.
LEMMA SplitExists ==
    \A s \in Seq(Character) : s \in Seq(NoSeparator) \/ \E p, c, q : SplitAt(s, p, c, q)
<1> DEFINE T == {s \in Seq(Character) : s \in Seq(NoSeparator) \/ \E p, c, q : SplitAt(s, p, c, q)}
<1>1. <<>> \in T
  OBVIOUS
<1>2. ASSUME NEW s \in Seq(Character), NEW c \in Character, s \in T
      PROVE  Append(s, c) \in T
  <2>0. Append(s, c) \in Seq(Character)
    OBVIOUS
  <2>1. CASE c \in Separator
    <3>1. <<>> \in Seq(NoSeparator) /\ Append(s, c) = Append(s, c) \o <<>>
      BY <2>0
    <3>2. SplitAt(Append(s, c), s, c, <<>>)
      BY <2>1, <3>1 DEF SplitAt
    <3> QED  BY <2>0, <3>2
  <2>2. CASE c \notin Separator /\ s \in Seq(NoSeparator)
    <3>1. c \in NoSeparator
      BY <2>2 DEF NoSeparator
    <3>2. Append(s, c) \in Seq(NoSeparator)
      BY <2>2, <3>1
    <3> QED  BY <2>0, <3>2
  <2>3. CASE c \notin Separator /\ \E p, d, q : SplitAt(s, p, d, q)
    <3>1. PICK p, d, q : SplitAt(s, p, d, q)
      BY <2>3
    <3>2. Append(q, c) \in Seq(NoSeparator) /\ c \in NoSeparator
      BY <2>3, <3>1 DEF SplitAt, NoSeparator
    <3>3. q \in Seq(Character) /\ Append(p, d) \in Seq(Character)
      <4>1. p \in Seq(Character) /\ d \in Character /\ q \in Seq(Character)
        BY <3>1, CharacterFacts, CharacterSeqs DEF SplitAt
      <4> QED  BY <4>1
    <3>4. Append(s, c) = Append(p, d) \o Append(q, c)
      <4>1. PICK u, v \in Seq(Character) : u = Append(p, d) /\ v = q
        BY <3>3
      <4>2. u \o v \in Seq(Character) /\ Len(u \o v) = Len(u) + Len(v) /\ <<c>> \in Seq(Character)
        OBVIOUS
      <4>3. Append(u \o v, c) = (u \o v) \o <<c>> /\ Append(v, c) = v \o <<c>>
        BY <4>2
      <4>4. (u \o v) \o <<c>> = u \o (v \o <<c>>)
        <5>1. u \in Seq(Character) /\ v \in Seq(Character) /\ <<c>> \in Seq(Character)
          BY <4>2
        <5> QED  BY <5>1, ThreeParts, Zenon
      <4> QED  BY <3>1, <4>1, <4>3, <4>4, Zenon DEF SplitAt
    <3>5. SplitAt(Append(s, c), p, d, Append(q, c))
      BY <3>1, <3>2, <3>4 DEF SplitAt
    <3> QED  BY <2>0, <3>5
  <2> QED  BY <1>2, <2>1, <2>2, <2>3
<1> HIDE DEF T
<1>3. Seq(Character) \subseteq T
  BY <1>1, <1>2, SeqSetInduction
<1> QED  BY <1>3 DEF T

\* Where each part is.
LEMMA SplitParts ==
    ASSUME NEW s, NEW p, NEW c, NEW q, SplitAt(s, p, c, q)
    PROVE  /\ s \in Seq(Character) /\ Len(p) \in Nat /\ Len(q) \in Nat
           /\ DOMAIN s = 1..Len(s) /\ Len(s) = Len(p) + 1 + Len(q)
           /\ \A i \in 1..Len(p) : s[i] = p[i]
           /\ s[Len(p) + 1] = c
           /\ \A i \in 1..Len(q) : s[Len(p) + 1 + i] = q[i]
           /\ \A i \in 1..Len(q) : q[i] \in NoSeparator
<1>1. /\ p \in Seq(Character) /\ q \in Seq(Character) /\ c \in Character
      /\ q \in Seq(NoSeparator) /\ s = Append(p, c) \o q
  BY CharacterFacts, CharacterSeqs DEF SplitAt
<1>2. /\ Append(p, c) \in Seq(Character) /\ Len(Append(p, c)) = Len(p) + 1
      /\ \A i \in 1..Len(p) : Append(p, c)[i] = p[i]
      /\ Append(p, c)[Len(p) + 1] = c
  BY <1>1
<1>3. PICK u \in Seq(Character) : u = Append(p, c)
  BY <1>2
<1>4. /\ u \o q \in Seq(Character) /\ Len(u \o q) = Len(u) + Len(q)
      /\ \A i \in 1..Len(u) : (u \o q)[i] = u[i]
      /\ \A i \in 1..Len(q) : (u \o q)[Len(u) + i] = q[i]
  BY <1>1
<1>5. s \in Seq(Character) /\ Len(s) = Len(p) + 1 + Len(q)
  BY <1>1, <1>2, <1>3, <1>4
<1>6. Len(p) \in Nat /\ Len(q) \in Nat /\ DOMAIN s = 1..Len(s)
  BY <1>1, <1>5
<1>7. ASSUME NEW i \in 1..Len(p) PROVE s[i] = p[i]
  BY <1>1, <1>2, <1>3, <1>4, <1>6
<1>8. s[Len(p) + 1] = c
  BY <1>1, <1>2, <1>3, <1>4, <1>6
<1>9. ASSUME NEW i \in 1..Len(q) PROVE s[Len(p) + 1 + i] = q[i] /\ q[i] \in NoSeparator
  BY <1>1, <1>2, <1>3, <1>4, <1>6
<1> QED  BY <1>5, <1>6, <1>7, <1>8, <1>9

\* DecimalPos finds the last separator, and SubSeq the texts around it.
LEMMA SplitDecimalPos ==
    ASSUME NEW s, NEW p, NEW c, NEW q, SplitAt(s, p, c, q)
    PROVE  /\ DecimalPos(s) = Len(p) + 1
           /\ SubSeq(s, 1, Len(p)) = p
           /\ SubSeq(s, Len(p) + 2, Len(s)) = q
<1> DEFINE at == {i \in DOMAIN s : s[i] \in Separator}
           n == Len(p)
<1>0. /\ s \in Seq(Character) /\ n \in Nat /\ Len(q) \in Nat
      /\ DOMAIN s = 1..Len(s) /\ Len(s) = n + 1 + Len(q)
      /\ \A i \in 1..n : s[i] = p[i]
      /\ s[n + 1] = c
      /\ \A i \in 1..Len(q) : s[n + 1 + i] = q[i]
      /\ \A i \in 1..Len(q) : q[i] \in NoSeparator
  BY SplitParts
<1> HIDE DEF n
<1>1. /\ n \in Nat /\ Len(q) \in Nat /\ DOMAIN s = 1..Len(s) /\ Len(s) = n + 1 + Len(q)
      /\ s[n + 1] = c /\ c \in Separator
      /\ \A i \in 1..Len(q) : s[n + 1 + i] \notin Separator
  BY <1>0, CharacterFacts DEF SplitAt
<1>2. n + 1 \in at
  BY <1>1
<1>3. ASSUME NEW i \in at PROVE i <= n + 1
  <2>1. i \in 1..Len(s) /\ s[i] \in Separator
    BY <1>1
  <2>2. SUFFICES ASSUME i > n + 1 PROVE FALSE
    BY <1>1, <2>1
  <2>3. i - (n + 1) \in 1..Len(q) /\ n + 1 + (i - (n + 1)) = i
    BY <1>1, <2>1, <2>2
  <2> QED  BY <1>1, <2>1, <2>3
<1>4. \A i \in at : i \in Int
  BY <1>1
<1> HIDE DEF at
<1>5. Max(at) = n + 1
  <2>1. \E i \in at : \A j \in at : i >= j
    BY <1>1, <1>2, <1>3, <1>4
  <2>2. Max(at) \in at /\ \A j \in at : Max(at) >= j
    BY <2>1 DEF Max
  <2> QED  BY <1>1, <1>2, <1>3, <1>4, <2>2
<1>6. DecimalPos(s) = n + 1
  BY <1>2, <1>5 DEF DecimalPos, at
<1>7. p \in Seq(Character) /\ q \in Seq(Character)
  BY CharacterSeqs DEF SplitAt
<1>8. SubSeq(s, 1, n) = p
  <2>1. /\ SubSeq(s, 1, n) \in Seq(Character) /\ Len(SubSeq(s, 1, n)) = n
        /\ \A i \in 1..n : SubSeq(s, 1, n)[i] = s[i]
    BY <1>0, <1>1
  <2>2. Len(p) = n
    BY DEF n
  <2> QED  BY <1>0, <1>7, <2>1, <2>2, SeqEqual
<1>9. SubSeq(s, n + 2, Len(s)) = q
  <2>1. /\ SubSeq(s, n + 2, Len(s)) \in Seq(Character)
        /\ Len(SubSeq(s, n + 2, Len(s))) = Len(q)
        /\ \A i \in 1..Len(q) : SubSeq(s, n + 2, Len(s))[i] = s[n + 1 + i]
    BY <1>0, <1>1
  <2> QED  BY <1>0, <1>7, <2>1, SeqEqual
<1> QED  BY <1>6, <1>8, <1>9 DEF n

\* Without a separator there is no decimal one, and no places.
LEMMA NoSeparatorAt ==
    ASSUME NEW s \in Seq(NoSeparator)
    PROVE  DecimalPos(s) = 0 /\ ToSet(s) \cap Separator = {} /\ Places(s) = 0
<1>1. \A i \in DOMAIN s : s[i] \notin Separator
  <2>1. \A i \in DOMAIN s : s[i] \in NoSeparator
    OBVIOUS
  <2> QED  BY <2>1 DEF NoSeparator
<1>2. {i \in DOMAIN s : s[i] \in Separator} = {} /\ ToSet(s) \cap Separator = {}
  BY <1>1 DEF ToSet
<1> QED  BY <1>2 DEF DecimalPos, Places

-----------------------------------------------------------------------------
(* Places *)

Behind(s) == {i \in DOMAIN s : s[i] \in Digit /\ \A j \in i..Len(s) : s[j] \notin Separator}

\* The digits behind the last separator, with one character more.
LEMMA BehindAppend ==
    ASSUME NEW s \in Seq(Character), NEW c \in Character
    PROVE  Behind(Append(s, c)) = IF c \in Separator THEN {}
                                  ELSE IF c \in Digit THEN Behind(s) \cup {Len(s) + 1}
                                  ELSE Behind(s)
<1> DEFINE n == Len(s)
           q == Append(s, c)
<1>1. /\ n \in Nat /\ Len(q) = n + 1 /\ DOMAIN q = 1..(n + 1) /\ DOMAIN s = 1..n
      /\ q[n + 1] = c /\ \A i \in 1..n : q[i] = s[i]
  OBVIOUS
<1> HIDE DEF n, q
<1>2. Len(s) = n
  BY DEF n
<1>3. CASE c \in Separator
  <2>1. ASSUME NEW i \in Behind(q) PROVE FALSE
    <3>1. n + 1 \in i..Len(q)
      BY <1>1, <2>1 DEF Behind
    <3> QED  BY <1>1, <1>3, <2>1, <3>1 DEF Behind
  <2> QED  BY <1>3, <2>1 DEF q
<1>4. CASE c \notin Separator
  <2>1. ASSUME NEW i \in 1..n PROVE i \in Behind(q) <=> i \in Behind(s)
    <3>1. i..Len(q) = (i..n) \cup {n + 1}
      BY <1>1
    <3>2. q[i] = s[i] /\ i \in DOMAIN q /\ i \in DOMAIN s
      BY <1>1
    <3>3. (\A j \in i..Len(q) : q[j] \notin Separator) <=> \A j \in i..n : s[j] \notin Separator
      <4>1. \A j \in i..n : q[j] = s[j]
        BY <1>1
      <4> QED  BY <1>1, <1>4, <3>1, <4>1
    <3> QED  BY <1>2, <3>2, <3>3 DEF Behind
  <2>2. n + 1 \in Behind(q) <=> c \in Digit
    <3>1. (n + 1)..Len(q) = {n + 1}
      BY <1>1
    <3> QED  BY <1>1, <1>4, <3>1 DEF Behind
  <2>3. Behind(q) \subseteq 1..(n + 1) /\ Behind(s) \subseteq 1..n
    BY <1>1 DEF Behind
  <2>4. n + 1 \notin 1..n /\ 1..(n + 1) = (1..n) \cup {n + 1}
    BY <1>1
  <2>5. Behind(q) = IF c \in Digit THEN Behind(s) \cup {n + 1} ELSE Behind(s)
    BY <2>1, <2>2, <2>3, <2>4
  <2> QED  BY <1>2, <1>4, <2>5 DEF q
<1> QED  BY <1>3, <1>4

\* Behind the separator are as many digits as the rest of the text has.
LEMMA BehindSplit ==
    ASSUME NEW p \in Seq(Character), NEW c \in Separator
    PROVE  \A q \in Seq(NoSeparator) :
             /\ IsFiniteSet(Behind(Append(p, c) \o q))
             /\ Cardinality(Behind(Append(p, c) \o q)) = Len(Only(q, Digit))
<1> DEFINE P(q) == /\ IsFiniteSet(Behind(Append(p, c) \o q))
                   /\ Cardinality(Behind(Append(p, c) \o q)) = Len(Only(q, Digit))
           T == {q \in Seq(NoSeparator) : P(q)}
<1>0. PICK u \in Seq(Character) : u = Append(p, c)
  <2>1. c \in Character
    BY CharacterFacts
  <2>2. Append(p, c) \in Seq(Character)
    BY <2>1
  <2> QED  BY <2>2
<1>1. <<>> \in T
  <2>1. u \o <<>> = u
    OBVIOUS
  <2>2. Behind(u) = {}
    BY <1>0, BehindAppend, CharacterFacts
  <2>3. Only(<<>>, Digit) = <<>> /\ Len(<<>>) = 0 /\ <<>> \in Seq(NoSeparator)
    BY OnlyEmpty
  <2>4. P(<<>>)
    BY <1>0, <2>1, <2>2, <2>3, FS_EmptySet
  <2> QED  BY <2>3, <2>4
<1>2. ASSUME NEW q \in Seq(NoSeparator), NEW d \in NoSeparator, q \in T
      PROVE  Append(q, d) \in T
  <2>1. q \in Seq(Character) /\ d \in Character /\ d \notin Separator
    BY CharacterFacts, CharacterSeqs
  <2>2. u \o q \in Seq(Character) /\ u \o Append(q, d) = Append(u \o q, d)
    <3>1. u \o q \in Seq(Character) /\ <<d>> \in Seq(Character)
      BY <2>1
    <3>2. Append(u \o q, d) = (u \o q) \o <<d>> /\ Append(q, d) = q \o <<d>>
      BY <2>1, <3>1
    <3>3. (u \o q) \o <<d>> = u \o (q \o <<d>>)
      BY <2>1, <3>1, ConcatAssociative
    <3> QED  BY <3>1, <3>2, <3>3, Zenon
  <2>3. PICK v \in Seq(Character) : v = u \o q
    BY <2>2
  <2>4. Behind(Append(v, d)) = IF d \in Digit THEN Behind(v) \cup {Len(v) + 1} ELSE Behind(v)
    BY <2>1, BehindAppend
  <2>5. Only(Append(q, d), Digit) = IF d \in Digit THEN Append(Only(q, Digit), d) ELSE Only(q, Digit)
    BY OnlyAppend
  <2>6. IsFiniteSet(Behind(v)) /\ Cardinality(Behind(v)) = Len(Only(q, Digit))
    BY <1>0, <1>2, <2>3
  <2>7. Len(v) + 1 \notin Behind(v)
    BY DEF Behind
  <2>8. Only(q, Digit) \in Seq(NoSeparator)
    BY OnlyType
  <2>9. Append(q, d) \in Seq(NoSeparator)
    OBVIOUS
  <2> HIDE DEF T, P
  <2>10. /\ IsFiniteSet(Behind(Append(v, d)))
         /\ Cardinality(Behind(Append(v, d))) = Len(Only(Append(q, d), Digit))
    <3>1. CASE d \in Digit
      <4>1. /\ IsFiniteSet(Behind(v) \cup {Len(v) + 1})
            /\ Cardinality(Behind(v) \cup {Len(v) + 1}) = Cardinality(Behind(v)) + 1
        BY <2>6, <2>7, FS_AddElement
      <4>2. Len(Append(Only(q, Digit), d)) = Len(Only(q, Digit)) + 1
        BY <2>8
      <4> QED  BY <2>4, <2>5, <2>6, <3>1, <4>1, <4>2
    <3>2. CASE d \notin Digit
      BY <2>4, <2>5, <2>6, <3>2
    <3> QED  BY <3>1, <3>2
  <2>11. P(Append(q, d))
    BY <1>0, <2>2, <2>3, <2>10 DEF P
  <2> QED  BY <2>9, <2>11 DEF T
<1> HIDE DEF T, P
<1>3. Seq(NoSeparator) \subseteq T
  BY <1>1, <1>2, SeqSetInduction
<1> QED  BY <1>3 DEF T, P

\* The places are the digits of the rest, if they are one or two.
LEMMA SplitPlaces ==
    ASSUME NEW s, NEW p, NEW c, NEW q, SplitAt(s, p, c, q)
    PROVE  Places(s) = IF Len(Only(q, Digit)) \in {1, 2} THEN Len(Only(q, Digit)) ELSE 0
<1>1. s = Append(p, c) \o q /\ p \in Seq(Character) /\ c \in Separator /\ q \in Seq(NoSeparator)
  BY DEF SplitAt
<1>2. Cardinality(Behind(s)) = Len(Only(q, Digit))
  BY <1>1, BehindSplit
<1>3. ToSet(s) \cap Separator # {}
  <2>1. Len(p) + 1 \in DOMAIN s /\ s[Len(p) + 1] = c
    BY SplitParts
  <2> QED  BY <1>1, <2>1 DEF ToSet
<1> QED  BY <1>2, <1>3 DEF Places, Behind

-----------------------------------------------------------------------------
(* The amounts *)

\* What is stored are the amounts that are not negative, as they are.
LEMMA StoredAmounts ==
    ASSUME NEW s, AmountMinor(Kept(s)) \subseteq Int
    PROVE  {m.amount_minor : m \in StoredAmount(s)} = {n \in AmountMinor(Kept(s)) : n >= 0}
<1>1. ASSUME NEW n \in Int, n >= 0 PROVE Max({0, n}) = n
  <2>1. n \in {0, n} /\ \A y \in {0, n} : n >= y
    BY <1>1
  <2>2. \A x \in {0, n} : (\A y \in {0, n} : x >= y) => x = n
    BY <1>1
  <2> QED  BY <2>1, <2>2 DEF Max
<1>2. ExtractAmount(s) = {[currency |-> Currency(s), amount_minor |-> n] :
                            n \in {m \in AmountMinor(Kept(s)) : m >= 0}}
  BY DEF ExtractAmount, parse_money
<1>3. ASSUME NEW m \in ExtractAmount(s)
      PROVE  [m EXCEPT !.amount_minor = Max({0, @})] = m
  <2>1. PICK n \in Int : n >= 0 /\ m = [currency |-> Currency(s), amount_minor |-> n]
    BY <1>2
  <2>2. Max({0, m.amount_minor}) = m.amount_minor
    BY <1>1, <2>1
  <2> QED  BY <2>1, <2>2
<1>4. StoredAmount(s) = ExtractAmount(s)
  BY <1>3 DEF StoredAmount
<1>5. ASSUME NEW m \in StoredAmount(s)
      PROVE  m.amount_minor \in {n \in AmountMinor(Kept(s)) : n >= 0}
  BY <1>2, <1>4
<1>6. ASSUME NEW n \in {m \in AmountMinor(Kept(s)) : m >= 0}
      PROVE  \E m \in StoredAmount(s) : m.amount_minor = n
  <2>1. [currency |-> Currency(s), amount_minor |-> n] \in StoredAmount(s)
    BY <1>2, <1>4
  <2> QED  BY <2>1
<1> QED  BY <1>5, <1>6

\* A text of digits is what isdigit() accepts, unless it is empty.
LEMMA AllDigitsIff ==
    ASSUME NEW S, NEW s \in Seq(S)
    PROVE  AllDigits(s) <=> s # <<>> /\ s \in Seq(Digit)
<1>1. (\A i \in DOMAIN s : s[i] \in Digit) <=> ToSet(s) \subseteq Digit
  BY DEF ToSet
<1>2. s \in Seq(Digit) <=> \A i \in DOMAIN s : s[i] \in Digit
  OBVIOUS
<1> QED  BY <1>1, <1>2 DEF AllDigits

\* int() of digits.
LEMMA IntsOfDigits ==
    ASSUME NEW s \in Seq(Digit)
    PROVE  Ints({s}) = IF s = <<>> THEN {} ELSE {NumberOf(s)}
<1>1. CASE s = <<>>
  BY <1>1 DEF Ints, IsNumeral, AllDigits
<1>2. CASE s # <<>>
  <2>1. IsNumeral(s)
    BY <1>2, AllDigitsIff DEF IsNumeral
  <2>2. Head(s) # "-"
    <3>1. Head(s) \in Digit
      BY <1>2
    <3> QED  BY <3>1, CharacterFacts
  <2>3. IntOf(s) = NumberOf(s)
    BY <2>2 DEF IntOf
  <2> QED  BY <1>2, <2>1, <2>3 DEF Ints
<1> QED  BY <1>1, <1>2

\* int() of digits with a dash in front.
LEMMA IntsOfDash ==
    ASSUME NEW S, NEW s \in Seq(S), s # <<>>, Head(s) = "-"
    PROVE  /\ Ints({s}) = IF AllDigits(Tail(s)) THEN {-NumberOf(Tail(s))} ELSE {}
           /\ ~AllDigits(s)
<1>1. ~AllDigits(s)
  <2>1. 1 \in DOMAIN s /\ s[1] = "-"
    OBVIOUS
  <2>2. "-" \in ToSet(s)
    BY <2>1 DEF ToSet
  <2> QED  BY <2>2, CharacterFacts DEF AllDigits
<1>2. IsNumeral(s) <=> AllDigits(Tail(s))
  BY <1>1 DEF IsNumeral
<1>3. IntOf(s) = -NumberOf(Tail(s))
  BY DEF IntOf
<1> QED  BY <1>1, <1>2, <1>3 DEF Ints

\* The amount of a text without a separator.
LEMMA AmountWhole ==
    ASSUME NEW k \in Seq(NoSeparator)
    PROVE  AmountMinor(k) = {100 * n : n \in Ints({k})}
<1>1. DecimalPos(k) = 0
  BY NoSeparatorAt
<1> QED  BY <1>1 DEF AmountMinor

\* Taking the separators out is keeping everything else.
LEMMA WithoutSeparator == \A s : Without(s, Separator) = Only(s, NoSeparator)
BY DEF Without, NoSeparator

\* What the amount is made of, once the text around the last separator is known.
LEMMA AmountSplit ==
    ASSUME NEW k, NEW p, NEW c, NEW q, SplitAt(k, p, c, q)
    PROVE  /\ DecimalPos(k) # 0 /\ Fraction(k) = q
           /\ Majors(k) = IF Only(p, NoSeparator) = <<>> THEN {0} ELSE Ints({Only(p, NoSeparator)})
           /\ Minors(k) = Ints({IF Len(q) = 1 THEN Append(q, "0") ELSE q})
<1>1. /\ DecimalPos(k) = Len(p) + 1 /\ Len(p) \in Nat
      /\ SubSeq(k, 1, Len(p)) = p /\ SubSeq(k, Len(p) + 2, Len(k)) = q
  BY SplitDecimalPos, SplitParts
<1>2. (Len(p) + 1) - 1 = Len(p) /\ (Len(p) + 1) + 1 = Len(p) + 2 /\ Len(p) + 1 # 0
  BY <1>1
<1>3. DecimalPos(k) # 0 /\ Fraction(k) = q
  BY <1>1, <1>2 DEF Fraction
<1>4. Majors(k) = IF Only(p, NoSeparator) = <<>> THEN {0} ELSE Ints({Only(p, NoSeparator)})
  BY <1>1, <1>2, WithoutSeparator DEF Majors
<1>5. Minors(k) = Ints({IF Len(q) = 1 THEN Append(q, "0") ELSE q})
  BY <1>3 DEF Minors
<1> QED  BY <1>3, <1>4, <1>5

\* The amount with one or two characters behind the separator.
LEMMA AmountCents ==
    ASSUME NEW k, DecimalPos(k) # 0, Len(Fraction(k)) \in {1, 2}
    PROVE  AmountMinor(k) = {100 * n + m : n \in Majors(k), m \in Minors(k)}
BY DEF AmountMinor

\* The amount with any other number of them.
LEMMA AmountGrouped ==
    ASSUME NEW k, DecimalPos(k) # 0, Len(Fraction(k)) \notin {1, 2}
    PROVE  AmountMinor(k) = {100 * n : n \in Ints({t \in {Only(k, NoSeparator)} : AllDigits(t)})}
BY WithoutSeparator DEF AmountMinor

\* What is kept of a text has its last separator between what is kept of its parts.
LEMMA KeptSplit ==
    ASSUME NEW s, NEW p, NEW c, NEW q, SplitAt(s, p, c, q)
    PROVE  SplitAt(Kept(s), Kept(p), c, Kept(q))
<1>1. /\ p \in Seq(Character) /\ c \in Separator /\ q \in Seq(NoSeparator)
      /\ s = Append(p, c) \o q
  BY DEF SplitAt
<1>2. /\ Kept(p) \in Seq(Character) /\ Kept(q) \in Seq(NoSeparator)
      /\ Append(p, c) \in Seq(Character) /\ q \in Seq(Character)
  <2>1. Kept(p) \in Seq(Character)
    BY <1>1, OnlyType DEF Kept
  <2>2. Kept(q) \in Seq(NoSeparator)
    BY <1>1, OnlyType DEF Kept
  <2>3. c \in Character /\ q \in Seq(Character)
    BY <1>1, CharacterFacts, CharacterSeqs
  <2> QED  BY <1>1, <2>1, <2>2, <2>3
<1>3. Kept(Append(p, c) \o q) = Kept(Append(p, c)) \o Kept(q)
  <2>1. \A r \in Seq(Character), t \in Seq(Character) : Kept(r \o t) = Kept(r) \o Kept(t)
    BY OnlyConcat DEF Kept
  <2> QED  BY <1>2, <2>1
<1>4. Kept(Append(p, c)) = Append(Kept(p), c)
  <2>1. c \in Character /\ c \in Digit \cup Separator \cup {"-"}
    BY <1>1, CharacterFacts
  <2> QED  BY <1>1, <2>1, OnlyAppend DEF Kept
<1> QED  BY <1>1, <1>2, <1>3, <1>4 DEF SplitAt

\* What filters make of what was kept.
LEMMA OnlyOfKept ==
    ASSUME NEW s \in Seq(Character)
    PROVE  /\ Only(Kept(s), Digit) = Only(s, Digit)
           /\ Only(Kept(s), NoSeparator) = Only(s, Digit \cup Dash)
<1>1. Kept(s) = Only(s, Meant)
  BY DEF Kept, Meant, Dash
<1>2. Only(Only(s, Meant), Digit) = Only(s, Digit)
  <2>1. Meant \cap Digit = Digit
    BY CharacterFacts
  <2>2. Only(Only(s, Meant), Digit) = Only(s, Meant \cap Digit)
    BY OnlyOnly
  <2> QED  BY <2>1, <2>2
<1>3. Only(Only(s, Meant), NoSeparator) = Only(s, Digit \cup Dash)
  <2>1. Meant \cap NoSeparator = Digit \cup Dash
    BY CharacterFacts
  <2>2. Only(Only(s, Meant), NoSeparator) = Only(s, Meant \cap NoSeparator)
    BY OnlyOnly
  <2> QED  BY <2>1, <2>2
<1> QED  BY <1>1, <1>2, <1>3

\* Without a dash, what is kept beside the separators are the digits.
LEMMA NoDash ==
    ASSUME NEW S, NEW s \in Seq(S), \A i \in 1..Len(s) : s[i] # "-"
    PROVE  Only(s, Digit \cup Dash) = Only(s, Digit) /\ Only(s, Digit) \in Seq(Digit)
<1>1. s \in Seq(S \ Dash)
  BY DEF Dash
<1>2. Only(s, Digit \cup Dash) \in Seq((S \ Dash) \cap (Digit \cup Dash))
  BY <1>1, OnlyRange
<1>3. (S \ Dash) \cap (Digit \cup Dash) \subseteq Digit
  OBVIOUS
<1>4. Only(s, Digit \cup Dash) \in Seq(Digit)
  BY <1>2, <1>3, SeqSubset
<1>5. Only(Only(s, Digit \cup Dash), Digit) = Only(s, Digit \cup Dash)
  BY <1>4, OnlyAll
<1>6. Only(Only(s, Digit \cup Dash), Digit) = Only(s, Digit)
  <2>1. (Digit \cup Dash) \cap Digit = Digit
    OBVIOUS
  <2> QED  BY <2>1, OnlyOnly
<1> QED  BY <1>4, <1>5, <1>6

\* A text without a separator and without a dash is read as its digits.
LEMMA ReadsWhole ==
    ASSUME NEW s \in Seq(NoSeparator), \A i \in 1..Len(s) : s[i] # "-"
    PROVE  /\ AmountMinor(Kept(s)) = IF DigitsOf(s) = <<>> THEN {} ELSE {100 * NumberOf(DigitsOf(s))}
           /\ DigitsOf(s) \in Seq(Digit)
<1>1. s \in Seq(Character)
  BY CharacterSeqs
<1>2. Kept(s) \in Seq(NoSeparator)
  BY OnlyType DEF Kept
<1>3. Only(Kept(s), NoSeparator) = Kept(s)
  BY <1>2, OnlyAll
<1>4. Kept(s) = Only(s, Digit) /\ Only(s, Digit) \in Seq(Digit)
  BY <1>1, <1>3, OnlyOfKept, NoDash
<1>5. AmountMinor(Kept(s)) = {100 * n : n \in Ints({Only(s, Digit)})}
  BY <1>2, <1>4, AmountWhole
<1>6. Ints({Only(s, Digit)}) = IF Only(s, Digit) = <<>> THEN {} ELSE {NumberOf(Only(s, Digit))}
  BY <1>4, IntsOfDigits
<1>7. AmountMinor(Kept(s)) = IF Only(s, Digit) = <<>> THEN {} ELSE {100 * NumberOf(Only(s, Digit))}
  <2>1. CASE Only(s, Digit) = <<>>
    <3>1. Ints({Only(s, Digit)}) = {}
      BY <1>6, <2>1, Zenon
    <3> QED  BY <1>5, <2>1, <3>1
  <2>2. CASE Only(s, Digit) # <<>>
    <3>1. Ints({Only(s, Digit)}) = {NumberOf(Only(s, Digit))}
      BY <1>6, <2>2, Zenon
    <3>2. AmountMinor(Kept(s)) = {100 * n : n \in {NumberOf(Only(s, Digit))}}
      BY <1>5, <3>1, Zenon
    <3>3. AmountMinor(Kept(s)) = {100 * NumberOf(Only(s, Digit))}
      BY <3>2
    <3> QED  BY <2>2, <3>3, Zenon
  <2> QED  BY <2>1, <2>2, Zenon
<1> QED  BY <1>4, <1>7, Zenon DEF DigitsOf

\* Appending to a part is appending to the whole.
LEMMA ConcatAppend ==
    ASSUME NEW S, NEW r \in Seq(S), NEW s \in Seq(S), NEW c \in S
    PROVE  /\ r \o Append(s, c) = Append(r \o s, c)
           /\ r \o Append(<<>>, c) = Append(r, c)
OBVIOUS

\* A number with one digit more, and with two.
LEMMA NumberOfDigits ==
    ASSUME NEW d \in Seq(Digit), NEW x \in Digit, NEW y \in Digit
    PROVE  /\ NumberOf(Append(d, x)) = 10 * NumberOf(d) + DigitValue[x]
           /\ NumberOf(Append(Append(d, x), y)) = 100 * NumberOf(d) + 10 * DigitValue[x] + DigitValue[y]
<1>1. NumberOf(d) \in Nat /\ DigitValue[x] \in Nat /\ DigitValue[y] \in Nat
  BY NumberOfType, DigitValues
<1>2. ASSUME NEW e \in Seq(Digit), NumberOf(e) \in Nat
      PROVE  NumberOf(Append(Append(e, x), y)) = 10 * (10 * NumberOf(e) + DigitValue[x]) + DigitValue[y]
  <2>1. PICK f \in Seq(Digit) : f = Append(e, x)
    BY AppendProperties, Zenon
  <2>2. NumberOf(f) = 10 * NumberOf(e) + DigitValue[x]
    BY <1>2, <2>1, NumberOfAppend
  <2>3. NumberOf(Append(f, y)) = 10 * NumberOf(f) + DigitValue[y]
    BY NumberOfType, NumberOfAppend
  <2> QED  BY <2>1, <2>2, <2>3
<1>3. NumberOf(Append(d, x)) = 10 * NumberOf(d) + DigitValue[x]
  BY <1>1, NumberOfAppend
<1>4. NumberOf(Append(Append(d, x), y)) = 10 * (10 * NumberOf(d) + DigitValue[x]) + DigitValue[y]
  BY <1>1, <1>2
<1> QED  BY <1>1, <1>3, <1>4

\* A number of two digits.
LEMMA NumberOfTwo ==
    ASSUME NEW x \in Digit, NEW y \in Digit
    PROVE  NumberOf(Append(Append(<<>>, x), y)) = 10 * DigitValue[x] + DigitValue[y]
<1>1. <<>> \in Seq(Digit) /\ NumberOf(<<>>) = 0 /\ DigitValue[x] \in Nat /\ DigitValue[y] \in Nat
  BY NumberOfEmpty, DigitValues
<1>2. PICK e \in Seq(Digit) : e = <<>>
  BY <1>1
<1>3. NumberOf(Append(Append(e, x), y)) = 100 * NumberOf(e) + 10 * DigitValue[x] + DigitValue[y]
  BY NumberOfDigits
<1> QED  BY <1>1, <1>2, <1>3

\* Arithmetic of the short texts.
LEMMA OneLess == \A n \in Nat : (n + 1 = 1 => n = 0) /\ (n + 1 = 2 => n = 1)
OBVIOUS

\* Texts of one and of two characters.
LEMMA ShortSeqs ==
    ASSUME NEW S, NEW r \in Seq(S)
    PROVE  /\ Len(r) = 1 => \E x \in S : r = Append(<<>>, x)
           /\ Len(r) = 2 => \E x, y \in S : r = Append(Append(<<>>, x), y)
<1>1. ASSUME NEW t \in Seq(S), Len(t) = 1 PROVE \E x \in S : t = Append(<<>>, x)
  <2>1. t # <<>>
    BY <1>1, EmptySeq
  <2>2. PICK u \in Seq(S), x \in S : t = Append(u, x)
    BY <2>1, SequenceEmptyOrAppend
  <2>3. Len(t) = Len(u) + 1 /\ Len(u) \in Nat
    BY <2>2, AppendProperties, LenProperties
  <2>4. Len(u) = 0
    BY <1>1, <2>3, OneLess, Zenon
  <2>5. u = <<>>
    BY <2>4, EmptySeq
  <2> QED  BY <2>2, <2>5
<1>2. ASSUME Len(r) = 2 PROVE \E x, y \in S : r = Append(Append(<<>>, x), y)
  <2>1. r # <<>>
    BY <1>2, EmptySeq
  <2>2. PICK u \in Seq(S), y \in S : r = Append(u, y)
    BY <2>1, SequenceEmptyOrAppend
  <2>3. Len(r) = Len(u) + 1 /\ Len(u) \in Nat
    BY <2>2, AppendProperties, LenProperties
  <2>4. Len(u) = 1
    BY <1>2, <2>3, OneLess, Zenon
  <2> QED  BY <1>1, <2>2, <2>4
<1> QED  BY <1>1, <1>2

\* A fraction of one or of two digits next to the number before it.
LEMMA NumberOfParts ==
    ASSUME NEW d \in Seq(Digit), NEW r \in Seq(Digit)
    PROVE  /\ Len(r) = 1 => /\ Append(r, "0") \in Seq(Digit) /\ Append(r, "0") # <<>>
                            /\ 100 * NumberOf(d) + NumberOf(Append(r, "0")) = 10 * NumberOf(d \o r)
           /\ Len(r) = 2 => 100 * NumberOf(d) + NumberOf(r) = NumberOf(d \o r)
<1>0. NumberOf(d) \in Nat /\ "0" \in Digit /\ DigitValue["0"] = 0
      /\ \A x \in Digit : DigitValue[x] \in Nat
  <2>1. \A x \in Digit : DigitValue[x] \in Nat
    BY DigitValues
  <2>2. "0" \in Digit
    BY Digits
  <2> QED  BY <2>1, <2>2, NumberOfType, DigitValues
<1>1. ASSUME Len(r) = 1
      PROVE  /\ Append(r, "0") \in Seq(Digit) /\ Append(r, "0") # <<>>
             /\ 100 * NumberOf(d) + NumberOf(Append(r, "0")) = 10 * NumberOf(d \o r)
  <2>1. PICK x \in Digit : r = Append(<<>>, x)
    BY <1>1, ShortSeqs
  <2>2. d \o r = Append(d, x)
    BY <2>1, ConcatAppend
  <2>3. /\ NumberOf(Append(d, x)) = 10 * NumberOf(d) + DigitValue[x]
        /\ NumberOf(Append(Append(<<>>, x), "0")) = 10 * DigitValue[x] + 0
    <3>1. NumberOf(Append(Append(<<>>, x), "0")) = 10 * DigitValue[x] + DigitValue["0"]
      BY <1>0, NumberOfTwo
    <3>2. NumberOf(Append(d, x)) = 10 * NumberOf(d) + DigitValue[x]
      BY <1>0, NumberOfAppend
    <3> QED  BY <1>0, <3>1, <3>2
  <2>4. Append(r, "0") \in Seq(Digit) /\ Append(r, "0") # <<>>
    BY <1>0
  <2>5. DigitValue[x] \in Nat
    BY <1>0
  <2>6. 100 * NumberOf(d) + (10 * DigitValue[x] + 0) = 10 * (10 * NumberOf(d) + DigitValue[x])
    BY <1>0, <2>5
  <2> QED  BY <2>1, <2>2, <2>3, <2>4, <2>6, Zenon
<1>2. ASSUME Len(r) = 2
      PROVE  100 * NumberOf(d) + NumberOf(r) = NumberOf(d \o r)
  <2>1. PICK x \in Digit, y \in Digit : r = Append(Append(<<>>, x), y)
    BY <1>2, ShortSeqs
  <2>2. d \o r = Append(Append(d, x), y)
    <3>1. Append(<<>>, x) \in Seq(Digit)
      OBVIOUS
    <3> QED  BY <2>1, <3>1, ConcatAppend
  <2>3. /\ NumberOf(Append(Append(d, x), y))
              = 100 * NumberOf(d) + 10 * DigitValue[x] + DigitValue[y]
        /\ NumberOf(Append(Append(<<>>, x), y)) = 10 * DigitValue[x] + DigitValue[y]
    BY NumberOfDigits, NumberOfTwo
  <2>4. 100 * NumberOf(d) + (10 * DigitValue[x] + DigitValue[y])
          = 100 * NumberOf(d) + 10 * DigitValue[x] + DigitValue[y]
    <3>1. DigitValue[x] \in Nat /\ DigitValue[y] \in Nat
      BY <1>0
    <3> QED  BY <1>0, <3>1
  <2> QED  BY <2>1, <2>2, <2>3, <2>4, Zenon
<1> QED  BY <1>1, <1>2

\* The digits around the last separator, of a text without a dash.
LEMMA DigitsAround ==
    ASSUME NEW s, NEW p, NEW c, NEW q, SplitAt(s, p, c, q), \A i \in 1..Len(s) : s[i] # "-"
    PROVE  /\ Only(p, Digit) \in Seq(Digit) /\ Only(q, Digit) \in Seq(Digit)
           /\ Kept(q) = Only(q, Digit)
           /\ Only(Kept(p), NoSeparator) = Only(p, Digit)
           /\ Only(Kept(s), NoSeparator) = DigitsOf(s)
           /\ DigitsOf(s) = Only(p, Digit) \o Only(q, Digit)
<1>1. /\ p \in Seq(Character) /\ c \in Separator /\ q \in Seq(NoSeparator)
      /\ q \in Seq(Character) /\ s = Append(p, c) \o q /\ s \in Seq(Character)
  BY SplitParts, CharacterSeqs DEF SplitAt
<1>2. (\A i \in 1..Len(p) : p[i] # "-") /\ (\A i \in 1..Len(q) : q[i] # "-")
  <2>1. /\ Len(p) \in Nat /\ Len(q) \in Nat /\ Len(s) = Len(p) + 1 + Len(q)
        /\ \A i \in 1..Len(p) : s[i] = p[i]
        /\ \A i \in 1..Len(q) : s[Len(p) + 1 + i] = q[i]
    BY SplitParts
  <2>2. ASSUME NEW i \in 1..Len(p) PROVE i \in 1..Len(s)
    BY <2>1
  <2>3. ASSUME NEW i \in 1..Len(q) PROVE Len(p) + 1 + i \in 1..Len(s)
    BY <2>1
  <2> QED  BY <2>1, <2>2, <2>3
<1>3. /\ Only(p, Digit \cup Dash) = Only(p, Digit) /\ Only(p, Digit) \in Seq(Digit)
      /\ Only(q, Digit \cup Dash) = Only(q, Digit) /\ Only(q, Digit) \in Seq(Digit)
      /\ Only(s, Digit \cup Dash) = Only(s, Digit)
  BY <1>1, <1>2, NoDash
<1>4. Kept(q) = Only(q, Digit)
  <2>1. Kept(q) \in Seq(NoSeparator)
    BY <1>1, OnlyType DEF Kept
  <2>2. Only(Kept(q), NoSeparator) = Kept(q)
    BY <2>1, OnlyAll
  <2> QED  BY <1>1, <1>3, <2>2, OnlyOfKept
<1>5. /\ Only(Kept(p), NoSeparator) = Only(p, Digit)
      /\ Only(Kept(s), NoSeparator) = DigitsOf(s)
  BY <1>1, <1>3, OnlyOfKept DEF DigitsOf
<1>6. DigitsOf(s) = Only(p, Digit) \o Only(q, Digit)
  <2>1. c \in Character /\ c \notin Digit
    BY <1>1, CharacterFacts
  <2>2. Append(p, c) \in Seq(Character)
    BY <1>1, <2>1
  <2>3. Only(Append(p, c), Digit) = Only(p, Digit)
    BY <1>1, <2>1, OnlyAppend
  <2>4. \A r, t \in Seq(Character) : Only(r \o t, Digit) = Only(r, Digit) \o Only(t, Digit)
    BY OnlyConcat
  <2> QED  BY <1>1, <2>2, <2>3, <2>4 DEF DigitsOf
<1> QED  BY <1>3, <1>4, <1>5, <1>6

\* A text with a separator and without a dash is read as its digits.
LEMMA ReadsSplit ==
    ASSUME NEW s, NEW p, NEW c, NEW q, SplitAt(s, p, c, q), \A i \in 1..Len(s) : s[i] # "-"
    PROVE  /\ DigitsOf(s) \in Seq(Digit)
           /\ AmountMinor(Kept(s)) =
                IF DigitsOf(s) = <<>> THEN {}
                ELSE {NumberOf(DigitsOf(s)) * CASE Places(s) = 0 -> 100
                                                [] Places(s) = 1 -> 10
                                                [] Places(s) = 2 -> 1}
<1> DEFINE d == Only(p, Digit)
           r == Only(q, Digit)
           k == Kept(s)
<1>1. /\ d \in Seq(Digit) /\ r \in Seq(Digit) /\ Kept(q) = r
      /\ Only(Kept(p), NoSeparator) = d /\ Only(k, NoSeparator) = DigitsOf(s)
      /\ DigitsOf(s) = d \o r
  BY DigitsAround
<1>2. DigitsOf(s) \in Seq(Digit) /\ NumberOf(DigitsOf(s)) \in Nat
  <2>1. d \o r \in Seq(Digit)
    BY <1>1
  <2> QED  BY <1>1, <2>1, NumberOfType
<1>3. Places(s) = IF Len(r) \in {1, 2} THEN Len(r) ELSE 0
  BY SplitPlaces
<1>4. SplitAt(k, Kept(p), c, r)
  BY <1>1, KeptSplit
<1> HIDE DEF d, r, k
<1>5. /\ DecimalPos(k) # 0 /\ Fraction(k) = r
      /\ Majors(k) = IF d = <<>> THEN {0} ELSE Ints({d})
      /\ Minors(k) = Ints({IF Len(r) = 1 THEN Append(r, "0") ELSE r})
  <2>1. /\ DecimalPos(k) # 0 /\ Fraction(k) = r
        /\ Majors(k) = IF Only(Kept(p), NoSeparator) = <<>> THEN {0}
                       ELSE Ints({Only(Kept(p), NoSeparator)})
        /\ Minors(k) = Ints({IF Len(r) = 1 THEN Append(r, "0") ELSE r})
    BY <1>4, AmountSplit
  <2> QED  BY <1>1, <2>1, Zenon
<1>6. Majors(k) = {NumberOf(d)}
  BY <1>1, <1>5, IntsOfDigits, NumberOfEmpty
<1>7. ASSUME Len(r) \in {1, 2}, NEW x, Minors(k) = {x}
      PROVE  AmountMinor(k) = {100 * NumberOf(d) + x}
  <2>1. AmountMinor(k) = {100 * n + m : n \in Majors(k), m \in Minors(k)}
    BY <1>5, <1>7, AmountCents
  <2> QED  BY <1>6, <1>7, <2>1
<1>8. Len(r) \in {1, 2} => DigitsOf(s) # <<>>
  <2>1. ASSUME Len(r) \in {1, 2} PROVE Len(d \o r) # 0
    <3>1. Len(d \o r) = Len(d) + Len(r) /\ Len(d) \in Nat
      BY <1>1
    <3> QED  BY <2>1, <3>1
  <2> QED  BY <1>1, <2>1, EmptySeq
<1>9. CASE Len(r) = 1
  <2>1. /\ Append(r, "0") \in Seq(Digit) /\ Append(r, "0") # <<>>
        /\ 100 * NumberOf(d) + NumberOf(Append(r, "0")) = 10 * NumberOf(d \o r)
    BY <1>1, <1>9, NumberOfParts
  <2>2. Minors(k) = {NumberOf(Append(r, "0"))}
    BY <1>5, <1>9, <2>1, IntsOfDigits
  <2>3. AmountMinor(k) = {10 * NumberOf(DigitsOf(s))}
    BY <1>1, <1>7, <1>9, <2>1, <2>2
  <2>4. Places(s) = 1
    BY <1>3, <1>9
  <2> QED  BY <1>2, <1>8, <1>9, <2>3, <2>4 DEF k
<1>10. CASE Len(r) = 2
  <2>1. 100 * NumberOf(d) + NumberOf(r) = NumberOf(d \o r)
    BY <1>1, <1>10, NumberOfParts
  <2>2. r # <<>>
    BY <1>10, EmptySeq
  <2>3. Minors(k) = {NumberOf(r)}
    <3>1. (IF Len(r) = 1 THEN Append(r, "0") ELSE r) = r
      BY <1>10
    <3>2. Ints({r}) = {NumberOf(r)}
      BY <1>1, <2>2, IntsOfDigits
    <3> QED  BY <1>5, <3>1, <3>2, Zenon
  <2>4. AmountMinor(k) = {NumberOf(DigitsOf(s))}
    BY <1>1, <1>7, <1>10, <2>1, <2>3
  <2>5. Places(s) = 2
    BY <1>3, <1>10
  <2> QED  BY <1>2, <1>8, <1>10, <2>4, <2>5 DEF k
<1>11. CASE Len(r) \notin {1, 2}
  <2>1. AmountMinor(k) = {100 * n : n \in Ints({t \in {DigitsOf(s)} : AllDigits(t)})}
    <3>1. AmountMinor(k) = {100 * n : n \in Ints({t \in {Only(k, NoSeparator)} : AllDigits(t)})}
      BY <1>5, <1>11, AmountGrouped
    <3> QED  BY <1>1, <3>1
  <2>2. Places(s) = 0
    BY <1>3, <1>11
  <2>3. CASE DigitsOf(s) = <<>>
    <3>1. {t \in {DigitsOf(s)} : AllDigits(t)} = {}
      BY <2>3 DEF AllDigits
    <3>2. AmountMinor(k) = {}
      BY <2>1, <3>1 DEF Ints
    <3> QED  BY <1>2, <2>3, <3>2 DEF k
  <2>4. CASE DigitsOf(s) # <<>>
    <3>1. {t \in {DigitsOf(s)} : AllDigits(t)} = {DigitsOf(s)}
      BY <1>2, <2>4, AllDigitsIff
    <3>2. AmountMinor(k) = {100 * NumberOf(DigitsOf(s))}
      <4>1. Ints({DigitsOf(s)}) = {NumberOf(DigitsOf(s))}
        BY <1>2, <2>4, IntsOfDigits, Zenon
      <4>2. AmountMinor(k) = {100 * n : n \in {NumberOf(DigitsOf(s))}}
        BY <2>1, <3>1, <4>1, Zenon
      <4> QED  BY <4>2
    <3> QED  BY <1>2, <2>2, <2>4, <3>2 DEF k
  <2> QED  BY <2>3, <2>4
<1> QED  BY <1>9, <1>10, <1>11

\* Both together: the property, of any text.
LEMMA TextReadsItsDigits ==
    ASSUME text \in Seq(Character)
    PROVE  ReadsItsDigits
<1> SUFFICES ASSUME "-" \notin ToSet(text)
             PROVE  {m.amount_minor : m \in StoredAmount(text)} =
                       IF DigitsOf(text) = <<>> THEN {}
                       ELSE {NumberOf(DigitsOf(text)) * CASE Places(text) = 0 -> 100
                                                          [] Places(text) = 1 -> 10
                                                          [] Places(text) = 2 -> 1}
  BY DEF ReadsItsDigits
<1>1. \A i \in 1..Len(text) : text[i] # "-"
  BY DEF ToSet
<1> DEFINE f == CASE Places(text) = 0 -> 100 [] Places(text) = 1 -> 10 [] Places(text) = 2 -> 1
<1>2. /\ DigitsOf(text) \in Seq(Digit)
      /\ AmountMinor(Kept(text)) =
           IF DigitsOf(text) = <<>> THEN {} ELSE {NumberOf(DigitsOf(text)) * f}
      /\ Places(text) \in {0, 1, 2}
  <2>1. CASE text \in Seq(NoSeparator)
    <3>1. Places(text) = 0
      BY <2>1, NoSeparatorAt
    <3>2. /\ AmountMinor(Kept(text)) =
               IF DigitsOf(text) = <<>> THEN {} ELSE {100 * NumberOf(DigitsOf(text))}
          /\ DigitsOf(text) \in Seq(Digit)
      BY <1>1, <2>1, ReadsWhole
    <3>3. NumberOf(DigitsOf(text)) \in Nat
      BY <3>2, NumberOfType
    <3>4. f = 100
      BY <3>1
    <3>5. 100 * NumberOf(DigitsOf(text)) = NumberOf(DigitsOf(text)) * f
      <4>1. \A n \in Nat : 100 * n = n * 100
        OBVIOUS
      <4> HIDE DEF f
      <4> QED  BY <3>3, <3>4, <4>1, Zenon
    <3> HIDE DEF f
    <3> QED  BY <3>1, <3>2, <3>5
  <2>2. CASE \E p, c, q : SplitAt(text, p, c, q)
    <3>1. PICK p, c, q : SplitAt(text, p, c, q)
      BY <2>2
    <3>2. Places(text) = IF Len(Only(q, Digit)) \in {1, 2} THEN Len(Only(q, Digit)) ELSE 0
      BY <3>1, SplitPlaces
    <3>3. Places(text) \in {0, 1, 2}
      BY <3>2
    <3> QED  BY <1>1, <3>1, <3>3, ReadsSplit
  <2> QED  BY <2>1, <2>2, SplitExists
<1>3. f \in Nat
  BY <1>2
<1> HIDE DEF f
<1>4. NumberOf(DigitsOf(text)) \in Nat
  BY <1>2, NumberOfType
<1>5. NumberOf(DigitsOf(text)) * f \in Nat
  BY <1>3, <1>4
<1>6. AmountMinor(Kept(text)) \subseteq Int /\ \A n \in AmountMinor(Kept(text)) : n >= 0
  BY <1>2, <1>5
<1>7. {m.amount_minor : m \in StoredAmount(text)} = AmountMinor(Kept(text))
  BY <1>6, StoredAmounts
<1> QED  BY <1>2, <1>7 DEF f

-----------------------------------------------------------------------------
(* A dash in front *)

\* A dash in front is no digit, and is kept when separators are taken out.
LEMMA DashInFront ==
    ASSUME NEW S, NEW s \in Seq(S), s # <<>>, Head(s) = "-"
    PROVE  /\ Only(s, Digit) = Only(Tail(s), Digit)
           /\ "-" \in S /\ Only(s, NoSeparator) = Append(<<>>, "-") \o Only(Tail(s), NoSeparator)
<1>1. Head(s) \in S /\ Tail(s) \in Seq(S) /\ s = <<Head(s)>> \o Tail(s)
  BY HeadTailProperties
<1>2. "-" \in S /\ Append(<<>>, "-") = <<"-">> /\ Append(<<>>, "-") \in Seq(S) /\ <<>> \in Seq(S)
  BY <1>1
<1>3. s = Append(<<>>, "-") \o Tail(s)
  BY <1>1, <1>2
<1>4. Only(Append(<<>>, "-"), Digit) = <<>> /\ Only(Append(<<>>, "-"), NoSeparator) = Append(<<>>, "-")
  <2>1. /\ Only(Append(<<>>, "-"), Digit)
             = IF "-" \in Digit THEN Append(Only(<<>>, Digit), "-") ELSE Only(<<>>, Digit)
        /\ Only(Append(<<>>, "-"), NoSeparator)
             = IF "-" \in NoSeparator THEN Append(Only(<<>>, NoSeparator), "-") ELSE Only(<<>>, NoSeparator)
    <3>1. PICK e \in Seq(S), x \in S : e = <<>> /\ x = "-"
      BY <1>2
    <3>2. /\ Only(Append(e, x), Digit)
                = IF x \in Digit THEN Append(Only(e, Digit), x) ELSE Only(e, Digit)
          /\ Only(Append(e, x), NoSeparator)
                = IF x \in NoSeparator THEN Append(Only(e, NoSeparator), x) ELSE Only(e, NoSeparator)
      BY OnlyAppend
    <3> QED  BY <3>1, <3>2
  <2> QED  BY <2>1, OnlyEmpty, CharacterFacts
<1>5. /\ Only(s, Digit) = Only(Append(<<>>, "-"), Digit) \o Only(Tail(s), Digit)
      /\ Only(s, NoSeparator) = Only(Append(<<>>, "-"), NoSeparator) \o Only(Tail(s), NoSeparator)
  <2> DEFINE d == Append(<<>>, "-")
  <2>1. \A t \in Seq(S) : Only(d \o t, Digit) = Only(d, Digit) \o Only(t, Digit)
    BY <1>2, OnlyConcat
  <2>2. \A t \in Seq(S) : Only(d \o t, NoSeparator) = Only(d, NoSeparator) \o Only(t, NoSeparator)
    BY <1>2, OnlyConcat
  <2>3. d \o Tail(s) = s
    BY <1>3, Zenon
  <2> HIDE DEF d
  <2>4. /\ Only(s, Digit) = Only(d, Digit) \o Only(Tail(s), Digit)
        /\ Only(s, NoSeparator) = Only(d, NoSeparator) \o Only(Tail(s), NoSeparator)
    BY <1>1, <2>1, <2>2, <2>3
  <2> QED  BY <2>4 DEF d
<1>6. <<>> \o Only(Tail(s), Digit) = Only(Tail(s), Digit)
  <2>1. Only(Tail(s), Digit) \in Seq(S)
    BY <1>1, OnlyType
  <2> QED  BY <2>1, ConcatEmptySeq
<1> QED  BY <1>2, <1>4, <1>5, <1>6

\* A text with a dash in front, taken apart.
LEMMA DashConcat ==
    ASSUME NEW S, "-" \in S, NEW t \in Seq(S)
    PROVE  /\ Append(<<>>, "-") \o t \in Seq(S) /\ Append(<<>>, "-") \o t # <<>>
           /\ Head(Append(<<>>, "-") \o t) = "-" /\ Tail(Append(<<>>, "-") \o t) = t
OBVIOUS

\* A text of two characters, taken apart.
LEMMA TwoSeq ==
    ASSUME NEW S, NEW x \in S, NEW y \in S
    PROVE  LET t == Append(Append(<<>>, x), y) IN
           /\ t \in Seq(S) /\ t # <<>> /\ Head(t) = x /\ Tail(t) = Append(<<>>, y)
           /\ Len(t) = 2 /\ t[1] = x /\ t[2] = y /\ Append(<<>>, y) \in Seq(S)
           /\ Append(<<>>, y)[1] = y /\ Len(Append(<<>>, y)) = 1
<1>0. <<>> \in Seq(S)
  OBVIOUS
<1>1. PICK u \in Seq(S) : u = Append(<<>>, x)
  BY <1>0, AppendProperties, Zenon
<1>2. Len(u) = 1 /\ u # <<>> /\ Head(u) = x /\ Tail(u) = <<>> /\ u[1] = x
  BY <1>1
<1>3. /\ Append(u, y) \in Seq(S) /\ Append(u, y) # <<>> /\ Len(Append(u, y)) = 2
      /\ Append(u, y)[1] = x /\ Append(u, y)[2] = y
  <2>1. /\ Append(u, y) \in Seq(S) /\ Append(u, y) # <<>>
        /\ Len(Append(u, y)) = Len(u) + 1 /\ Append(u, y)[Len(u) + 1] = y
        /\ \A i \in 1..Len(u) : Append(u, y)[i] = u[i]
    BY AppendProperties
  <2>2. 1 \in 1..Len(u) /\ Len(u) + 1 = 2
    BY <1>2
  <2> QED  BY <1>2, <2>1, <2>2, Zenon
<1>4. Head(Append(u, y)) = x /\ Tail(Append(u, y)) = Append(<<>>, y)
  BY <1>2, HeadTailAppend
<1>5. Append(<<>>, y) \in Seq(S) /\ Append(<<>>, y)[1] = y /\ Len(Append(<<>>, y)) = 1
  OBVIOUS
<1> QED  BY <1>1, <1>3, <1>4, <1>5, Zenon

\* What int() makes of two characters is a hundredth part at most.
LEMMA TwoCharacters ==
    ASSUME NEW S, NEW x \in S, NEW y \in S, NEW m \in Ints({Append(Append(<<>>, x), y)})
    PROVE  /\ m \in Int /\ m <= 99
           /\ x \in Digit \cup Dash /\ y \in Digit
<1> DEFINE t == Append(Append(<<>>, x), y)
<1>1. /\ t \in Seq(S) /\ t # <<>> /\ Head(t) = x /\ Tail(t) = Append(<<>>, y)
      /\ Len(t) = 2 /\ t[1] = x /\ t[2] = y /\ Append(<<>>, y) \in Seq(S)
      /\ Append(<<>>, y)[1] = y /\ Len(Append(<<>>, y)) = 1
  BY TwoSeq
<1> HIDE DEF t
<1>2. IsNumeral(t) /\ m = IntOf(t)
  BY DEF Ints, t
<1>3. CASE AllDigits(t)
  <2>1. t \in Seq(Digit)
    BY <1>1, <1>3, AllDigitsIff
  <2>2. x \in Digit /\ y \in Digit
    BY <1>1, <2>1
  <2>3. IntOf(t) = NumberOf(t)
    BY <1>1, <2>2, CharacterFacts DEF IntOf
  <2>4. NumberOf(t) = 10 * DigitValue[x] + DigitValue[y]
    <3>1. NumberOf(Append(Append(<<>>, x), y)) = 10 * DigitValue[x] + DigitValue[y]
      BY <2>2, NumberOfTwo
    <3> QED  BY <3>1, Zenon DEF t
  <2>5. DigitValue[x] \in 0..9 /\ DigitValue[y] \in 0..9
    BY <2>2, DigitValues
  <2> QED  BY <1>2, <2>2, <2>3, <2>4, <2>5
<1>4. CASE ~AllDigits(t)
  <2>1. x = "-" /\ AllDigits(Append(<<>>, y))
    BY <1>1, <1>2, <1>4 DEF IsNumeral
  <2>2. Append(<<>>, y) \in Seq(Digit)
    BY <1>1, <2>1, AllDigitsIff
  <2>3. y \in Digit
    BY <1>1, <2>2
  <2>4. IntOf(t) = -NumberOf(Append(<<>>, y)) /\ NumberOf(Append(<<>>, y)) \in Nat
    BY <1>1, <2>1, <2>2, NumberOfType DEF IntOf
  <2> QED  BY <1>2, <2>1, <2>3, <2>4 DEF Dash
<1> QED  BY <1>3, <1>4

\* The minor units are a hundredth part at most, and the digits of the fraction
\* are all behind a dash, if there is one.
LEMMA MinorsAndDigits ==
    ASSUME NEW q \in Seq(NoSeparator), Len(q) \in {1, 2},
           NEW m \in Ints({IF Len(q) = 1 THEN Append(q, "0") ELSE q})
    PROVE  /\ m \in Int /\ m <= 99
           /\ \E u \in Seq(NoSeparator), v \in Seq(Digit) : q = u \o v /\ Only(u, Digit) = <<>>
<1>0. /\ "0" \in NoSeparator /\ <<>> \in Seq(NoSeparator) /\ <<>> \in Seq(Digit)
      /\ Only(<<>>, Digit) = <<>>
  <2>1. "0" \in NoSeparator
    BY Digits, CharacterFacts
  <2>2. Only(<<>>, Digit) = <<>>
    BY OnlyEmpty
  <2> QED  BY <2>1, <2>2, EmptySeq
<1>1. ASSUME NEW x \in Digit \cup Dash
      PROVE  \E u \in Seq(NoSeparator), v \in Seq(Digit) :
               Append(<<>>, x) = u \o v /\ Only(u, Digit) = <<>>
  <2>1. CASE x \in Digit
    <3>1. Append(<<>>, x) \in Seq(Digit) /\ Append(<<>>, x) = <<>> \o Append(<<>>, x)
      BY <2>1
    <3> QED  BY <1>0, <3>1
  <2>2. CASE x \notin Digit
    <3>1. x \in NoSeparator
      BY <1>1, CharacterFacts DEF Dash
    <3>2. Append(<<>>, x) \in Seq(NoSeparator) /\ Append(<<>>, x) = Append(<<>>, x) \o <<>>
      BY <3>1
    <3>3. Only(Append(<<>>, x), Digit) = <<>>
      <4>1. PICK e \in Seq(NoSeparator) : e = <<>>
        BY <1>0
      <4>2. Only(Append(e, x), Digit) = IF x \in Digit THEN Append(Only(e, Digit), x) ELSE Only(e, Digit)
        BY <3>1, OnlyAppend
      <4> QED  BY <1>0, <2>2, <4>1, <4>2
    <3> QED  BY <1>0, <3>2, <3>3
  <2> QED  BY <2>1, <2>2
<1>2. CASE Len(q) = 1
  <2>1. PICK x \in NoSeparator : q = Append(<<>>, x)
    BY <1>2, ShortSeqs
  <2>2. m \in Ints({Append(Append(<<>>, x), "0")})
    BY <1>2, <2>1
  <2>3. m \in Int /\ m <= 99 /\ x \in Digit \cup Dash
    BY <1>0, <2>2, TwoCharacters
  <2> QED  BY <1>1, <2>1, <2>3
<1>3. CASE Len(q) = 2
  <2>1. PICK x \in NoSeparator, y \in NoSeparator : q = Append(Append(<<>>, x), y)
    BY <1>3, ShortSeqs
  <2>2. m \in Ints({Append(Append(<<>>, x), y)})
    BY <1>3, <2>1
  <2>3. m \in Int /\ m <= 99 /\ x \in Digit \cup Dash /\ y \in Digit
    BY <2>2, TwoCharacters
  <2>4. PICK u \in Seq(NoSeparator), v \in Seq(Digit) :
          Append(<<>>, x) = u \o v /\ Only(u, Digit) = <<>>
    BY <1>1, <2>3
  <2>5. Append(v, y) \in Seq(Digit) /\ q = u \o Append(v, y)
    <3>1. v \in Seq(NoSeparator)
      BY CharacterSeqs
    <3>2. Append(v, y) \in Seq(Digit)
      BY <2>3, AppendProperties
    <3> QED  BY <2>1, <2>4, <3>1, <3>2, ConcatAppend
  <2> QED  BY <2>3, <2>4, <2>5
<1> QED  BY <1>2, <1>3

\* Arithmetic of a part of a short text.
LEMMA SmallSummand == \A a, b \in Nat : a + b \in {1, 2} => b \in {0, 1, 2}
OBVIOUS

\* A negative number of whole units stays negative whatever its cents are.
LEMMA BelowZero == \A a \in Nat, m \in Int : a # 0 /\ m <= 99 => 100 * (-a) + m \in Int /\ 100 * (-a) + m < 0
OBVIOUS

\* A text without its end is its beginning.
LEMMA SubSeqBefore ==
    ASSUME NEW S, NEW w \in Seq(S), NEW v \in Seq(S)
    PROVE  SubSeq(w \o v, 1, Len(w \o v) - Len(v)) = w
<1>1. /\ w \o v \in Seq(S) /\ Len(w) \in Nat /\ Len(v) \in Nat /\ Len(w \o v) = Len(w) + Len(v)
      /\ \A i \in 1..Len(w) : (w \o v)[i] = w[i]
  OBVIOUS
<1>2. Len(w \o v) - Len(v) = Len(w)
  BY <1>1
<1>3. /\ SubSeq(w \o v, 1, Len(w)) \in Seq(S)
      /\ Len(SubSeq(w \o v, 1, Len(w))) = Len(w)
      /\ \A i \in 1..Len(w) : SubSeq(w \o v, 1, Len(w))[i] = (w \o v)[i]
  BY <1>1
<1> QED  BY <1>1, <1>2, <1>3, SeqEqual

\* Then the digits before them are those before the separator.
LEMMA DigitsBefore ==
    ASSUME NEW k, NEW p, NEW c, NEW q, SplitAt(k, p, c, q), Len(q) \in {1, 2},
           NEW u \in Seq(NoSeparator), NEW v \in Seq(Digit), q = u \o v, Only(u, Digit) = <<>>
    PROVE  DigitsOf(SubSeq(k, 1, Len(k) - Places(k))) = Only(p, Digit)
<1>1. /\ p \in Seq(Character) /\ c \in Separator /\ k = Append(p, c) \o q
      /\ u \in Seq(Character) /\ v \in Seq(Character) /\ v \in Seq(NoSeparator)
      /\ c \in Character /\ c \notin Digit
  BY CharacterSeqs, CharacterFacts DEF SplitAt
<1>2. Only(q, Digit) = v
  <2>1. Only(q, Digit) = Only(u, Digit) \o Only(v, Digit)
    BY <1>1, OnlyConcat
  <2>2. Only(v, Digit) = v
    BY OnlyAll
  <2> QED  BY <2>1, <2>2
<1>3. Places(k) = Len(v)
  <2>1. Len(q) = Len(u) + Len(v) /\ Len(u) \in Nat /\ Len(v) \in Nat
    OBVIOUS
  <2>2. Len(v) \in {0, 1, 2}
    BY <2>1, SmallSummand, Zenon
  <2> QED  BY <1>2, <2>2, SplitPlaces
<1>4. PICK a \in Seq(Character) : a = Append(p, c)
  BY <1>1, AppendProperties, Zenon
<1>5. PICK w \in Seq(Character) : w = a \o u
  BY <1>1, ConcatProperties, Zenon
<1>6. k = w \o v
  <2>1. (a \o u) \o v = a \o (u \o v)
    BY <1>1, ThreeParts, Zenon
  <2> QED  BY <1>1, <1>4, <1>5, <2>1, Zenon
<1>7. SubSeq(k, 1, Len(k) - Places(k)) = w
  BY <1>1, <1>3, <1>6, SubSeqBefore
<1>8. Only(w, Digit) = Only(p, Digit)
  <2>1. Only(w, Digit) = Only(a, Digit) \o Only(u, Digit)
    <3>1. \A t \in Seq(Character) : Only(a \o t, Digit) = Only(a, Digit) \o Only(t, Digit)
      BY OnlyConcat
    <3> QED  BY <1>1, <1>5, <3>1, Zenon
  <2>2. Only(a, Digit) = Only(p, Digit)
    BY <1>1, <1>4, OnlyAppend
  <2>3. Only(p, Digit) \in Seq(Character)
    BY <1>1, OnlyType
  <2>4. Only(p, Digit) \o <<>> = Only(p, Digit)
    BY <2>3, ConcatEmptySeq
  <2> QED  BY <2>1, <2>2, <2>4
<1> QED  BY <1>7, <1>8 DEF DigitsOf

\* A text without a separator and with a dash in front: the same as DashSplit.
LEMMA DashWhole ==
    ASSUME NEW k \in Seq(NoSeparator), k # <<>>, Head(k) = "-", NEW n \in AmountMinor(k),
           NumberOf(DigitsOf(SubSeq(k, 1, Len(k) - Places(k)))) # 0
    PROVE  n \in Int /\ n < 0
<1>1. Tail(k) \in Seq(NoSeparator) /\ Len(k) - 0 = Len(k) /\ SubSeq(k, 1, Len(k)) = k
  BY SubSeqFull, HeadTailProperties, LenProperties
<1>2. Places(k) = 0
  BY NoSeparatorAt
<1>3. AllDigits(Tail(k)) /\ n = 100 * (-NumberOf(Tail(k)))
  <2>1. n \in {100 * a : a \in Ints({k})}
    BY AmountWhole
  <2>2. Ints({k}) = IF AllDigits(Tail(k)) THEN {-NumberOf(Tail(k))} ELSE {}
    BY IntsOfDash
  <2> QED  BY <2>1, <2>2
<1>4. Tail(k) \in Seq(Digit)
  BY <1>1, <1>3, AllDigitsIff
<1>5. Only(k, Digit) = Tail(k)
  <2>1. Only(Tail(k), Digit) = Tail(k)
    BY <1>4, OnlyAll
  <2> QED  BY <2>1, DashInFront
<1>6. NumberOf(Tail(k)) # 0 /\ NumberOf(Tail(k)) \in Nat
  BY <1>1, <1>2, <1>4, <1>5, NumberOfType DEF DigitsOf
<1> QED  BY <1>3, <1>6

\* A text with a separator and a dash in front has no amount, or one below zero.
LEMMA DashSplit ==
    ASSUME NEW k, NEW p, NEW c, NEW q, SplitAt(k, p, c, q), Head(k) = "-",
           NEW n \in AmountMinor(k),
           NumberOf(DigitsOf(SubSeq(k, 1, Len(k) - Places(k)))) # 0
    PROVE  n \in Int /\ n < 0
<1>1. /\ p \in Seq(Character) /\ c \in Separator /\ q \in Seq(NoSeparator)
      /\ k \in Seq(Character) /\ k # <<>> /\ Len(p) \in Nat
      /\ \A i \in 1..Len(p) : k[i] = p[i]
      /\ k[Len(p) + 1] = c
  <2>1. Len(k) = Len(p) + 1 + Len(q) /\ Len(p) \in Nat /\ Len(q) \in Nat
    BY SplitParts
  <2>2. k # <<>>
    BY <2>1, EmptySeq
  <2>3. p \in Seq(Character) /\ c \in Separator /\ q \in Seq(NoSeparator)
    BY DEF SplitAt
  <2>4. /\ k \in Seq(Character) /\ k[Len(p) + 1] = c
        /\ \A i \in 1..Len(p) : k[i] = p[i]
    BY SplitParts
  <2> QED  BY <2>1, <2>2, <2>3, <2>4
<1>2. p # <<>> /\ Head(p) = "-"
  <2>1. k[1] = "-"
    BY <1>1
  <2>2. Len(p) # 0
    <3>1. SUFFICES ASSUME Len(p) = 0 PROVE FALSE
      OBVIOUS
    <3>2. Len(p) + 1 = 1
      BY <3>1
    <3>3. c = "-"
      BY <1>1, <2>1, <3>2, Zenon
    <3> QED  BY <1>1, <3>3 DEF Separator
  <2>3. 1 \in 1..Len(p) /\ p # <<>>
    BY <1>1, <2>2
  <2> QED  BY <1>1, <2>1, <2>3
<1> DEFINE t == Only(Tail(p), NoSeparator)
<1>3. /\ Tail(p) \in Seq(Character) /\ t \in Seq(Character) /\ "-" \in Character
      /\ Only(p, NoSeparator) = Append(<<>>, "-") \o t
  BY <1>1, <1>2, DashInFront, HeadTailProperties, OnlyType
<1>4. /\ DecimalPos(k) # 0 /\ Fraction(k) = q
      /\ Majors(k) = IF Only(p, NoSeparator) = <<>> THEN {0} ELSE Ints({Only(p, NoSeparator)})
      /\ Minors(k) = Ints({IF Len(q) = 1 THEN Append(q, "0") ELSE q})
  BY AmountSplit
<1>5. CASE Len(q) \in {1, 2}
  <2> HIDE DEF t
  <2>1. PICK i \in Seq(Character) :
          /\ i = Only(p, NoSeparator) /\ i # <<>> /\ Head(i) = "-" /\ Tail(i) = t
    BY <1>3, DashConcat
  <2>2. PICK major \in Majors(k), m \in Minors(k) : n = 100 * major + m
    BY <1>4, <1>5, AmountCents
  <2>3. major \in Ints({i})
    BY <1>4, <2>1, <2>2
  <2>4. AllDigits(t) /\ major = -NumberOf(t)
    BY <2>1, <2>3, IntsOfDash
  <2>5. t \in Seq(Digit)
    BY <1>3, <2>4, AllDigitsIff
  <2>6. Only(p, Digit) = t
    <3>1. Only(i, Digit) = Only(t, Digit)
      BY <2>1, DashInFront
    <3>2. Only(t, Digit) = t
      BY <2>5, OnlyAll
    <3>3. NoSeparator \cap Digit = Digit
      BY CharacterFacts
    <3>4. Only(Only(p, NoSeparator), Digit) = Only(p, NoSeparator \cap Digit)
      BY <1>1, OnlyOnly
    <3> QED  BY <2>1, <3>1, <3>2, <3>3, <3>4
  <2>7. /\ m \in Int /\ m <= 99
        /\ \E u \in Seq(NoSeparator), v \in Seq(Digit) : q = u \o v /\ Only(u, Digit) = <<>>
    BY <1>1, <1>4, <1>5, <2>2, MinorsAndDigits
  <2>8. DigitsOf(SubSeq(k, 1, Len(k) - Places(k))) = t
    BY <1>5, <2>6, <2>7, DigitsBefore
  <2>9. NumberOf(t) \in Nat /\ NumberOf(t) # 0
    BY <2>5, <2>8, NumberOfType
  <2> QED  BY <2>2, <2>4, <2>7, <2>9, BelowZero, Zenon
<1>6. CASE Len(q) \notin {1, 2}
  <2>1. Only(k, NoSeparator) = Append(<<>>, "-") \o Only(Tail(k), NoSeparator)
    BY <1>1, DashInFront
  <2>2. Only(Tail(k), NoSeparator) \in Seq(Character)
    BY <1>1, HeadTailProperties, OnlyType
  <2>3. PICK i \in Seq(Character) : i = Only(k, NoSeparator) /\ i # <<>> /\ Head(i) = "-"
    BY <1>3, <2>1, <2>2, DashConcat
  <2>4. ~AllDigits(Only(k, NoSeparator))
    BY <2>3, IntsOfDash
  <2>5. n \in {100 * a : a \in Ints({b \in {Only(k, NoSeparator)} : AllDigits(b)})}
    BY <1>4, <1>6, AmountGrouped
  <2>6. {b \in {Only(k, NoSeparator)} : AllDigits(b)} = {}
    BY <2>4
  <2>7. Ints({}) = {}
    BY DEF Ints
  <2> QED  BY <2>5, <2>6, <2>7
<1> QED  BY <1>5, <1>6

\* Both together: the property, of any text.
LEMMA TextDebitRefused ==
    ASSUME text \in Seq(Character)
    PROVE  DebitRefused
<1> DEFINE k == Kept(text)
<1>1. Without(text, Code \cup DOMAIN SYMBOLS \cup {" "}) = k
  BY CharacterFacts DEF Without, Kept, Meant, Dash
<1>2. SUFFICES ASSUME k # <<>>, Head(k) = "-",
                      NumberOf(DigitsOf(SubSeq(k, 1, Len(k) - Places(k)))) # 0
               PROVE  StoredAmount(text) = {}
  BY <1>1 DEF DebitRefused
<1>3. k \in Seq(Character)
  BY OnlyType DEF Kept
<1> HIDE DEF k
<1>4. ASSUME NEW n \in AmountMinor(k) PROVE n \in Int /\ n < 0
  <2>1. CASE k \in Seq(NoSeparator)
    BY <1>2, <2>1, DashWhole
  <2>2. CASE \E p, c, q : SplitAt(k, p, c, q)
    BY <1>2, <2>2, DashSplit
  <2> QED  BY <1>3, <2>1, <2>2, SplitExists
<1>5. {m.amount_minor : m \in StoredAmount(text)} = {n \in AmountMinor(k) : n >= 0}
  BY <1>4, StoredAmounts DEF k
<1>6. {n \in AmountMinor(k) : n >= 0} = {}
  BY <1>4
<1> QED  BY <1>5, <1>6

-----------------------------------------------------------------------------
(* The reachable texts *)

\* Every text that Next spells is one of characters (the string at the path of
\* the amount, read by _extract_amount).
THEOREM TextIsOfCharacters == Spec => [](text \in Seq(Character))
<1>1. Init => text \in Seq(Character)
  BY DEF Init
<1>2. text \in Seq(Character) /\ [Next]_text => (text \in Seq(Character))'
  <2>1. SUFFICES ASSUME text \in Seq(Character), [Next]_text
                 PROVE  text' \in Seq(Character)
    OBVIOUS
  <2>2. CASE Next
    <3>1. PICK c \in Chars : text' = Append(text, c)
      BY <2>2 DEF Next
    <3>2. c \in Character
      BY MoneyAssumption DEF MoneyAssumption
    <3> QED  BY <2>1, <3>1, <3>2
  <2>3. CASE UNCHANGED text
    BY <2>1, <2>3
  <2> QED  BY <2>1, <2>2, <2>3
<1> QED  BY <1>1, <1>2, PTL DEF Spec

\* For texts of every length: without a dash the amount is the number its digits
\* form, whichever separators group them (parse_money).
THEOREM AmountReadsItsDigits == Spec => []ReadsItsDigits
BY TextIsOfCharacters, TextReadsItsDigits, PTL

\* For texts of every length: an amount with a dash in front and digits other than
\* zero before its fraction is never stored (parse_money, and Money's refusal of
\* what is below zero).
THEOREM DebitsAreRefused == Spec => []DebitRefused
BY TextIsOfCharacters, TextDebitRefused, PTL

=============================================================================
