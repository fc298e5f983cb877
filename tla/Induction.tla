------------------------------ MODULE Induction ------------------------------
(***************************************************************************)
(* Facts by induction over a number of steps: what the callbacks of an     *)
(* event do that run in a row, how often a handler is called, what a loop  *)
(* over a list leaves (Folds), that a finite set can be sorted, and that a *)
(* function that looks at smaller numbers alone has values.                *)
(***************************************************************************)
EXTENDS Integers, Sequences, FiniteSets, FiniteSetTheorems, WellFoundedInduction, TLAPS

\* Every set of numbers that is not empty has a least one.
LEMMA LeastNumber ==
    ASSUME NEW T, T \subseteq Nat, T # {}
    PROVE  \E m \in T : \A j \in T : m <= j
<1> DEFINE R == OpToRel(<, Nat)
<1>1. IsWellFoundedOn(R, Nat)
  BY NatLessThanWellFounded
<1>2. \A j, m \in Nat : j < m => <<j, m>> \in R
  BY DEF OpToRel
<1> HIDE DEF R
<1>3. PICK m \in T : \A j \in T : ~(<<j, m>> \in R)
  BY <1>1, WFMin
<1>4. ASSUME NEW j \in T PROVE m <= j
  <2>1. j \in Nat /\ m \in Nat /\ ~(j < m)
    BY <1>2, <1>3
  <2> QED
    BY <2>1
<1> QED
  BY <1>4

\* What holds at first and is kept by every step holds to the end.
LEMMA StepsKeep ==
    ASSUME NEW S, NEW n \in Nat, NEW f, f[0] \in S,
           \A k \in 1..n : f[k - 1] \in S => f[k] \in S
    PROVE  \A k \in 0..n : f[k] \in S
<1> DEFINE T == {k \in 0..n : f[k] \notin S}
<1> SUFFICES ASSUME T # {} PROVE FALSE
  OBVIOUS
<1>0. T \subseteq Nat
  OBVIOUS
<1>1. PICK m \in T : \A j \in T : m <= j
  <2> HIDE DEF T
  <2> QED
    BY <1>0, LeastNumber
<1>2. m # 0 /\ m \in 1..n /\ m - 1 \in 0..n
  OBVIOUS
<1>3. m - 1 \notin T
  BY <1>0, <1>1
<1>4. f[m - 1] \in S
  BY <1>2, <1>3
<1> QED
  BY <1>2, <1>4

\* The results of n steps from a.
Results(S, n, a, step) ==
    {g \in [0..n -> S] : g[0] = a /\ \A k \in 1..n : g[k] = step[k][g[k - 1]]}

\* Steps that stay within S have their results.
LEMMA StepsHaveResults ==
    ASSUME NEW S, NEW n \in Nat, NEW a \in S, NEW step, step \in [1..n -> [S -> S]]
    PROVE  Results(S, n, a, step) # {}
<1> SUFFICES \E g \in [0..n -> S] : g[0] = a /\ \A k \in 1..n : g[k] = step[k][g[k - 1]]
  BY DEF Results
<1> DEFINE Upto(m) == \E g \in [0..m -> S] :
                         g[0] = a /\ \A k \in 1..m : g[k] = step[k][g[k - 1]]
           T == {m \in 0..n : ~Upto(m)}
<1>0. T \subseteq Nat
  OBVIOUS
<1>1. ASSUME NEW m \in T, \A j \in T : m <= j PROVE FALSE
  <2>0. m \in 0..n /\ ~Upto(m)
    OBVIOUS
  <2>1. CASE m = 0
    <3> DEFINE g == [k \in 0..0 |-> a]
    <3>1. g \in [0..m -> S] /\ g[0] = a /\ \A k \in 1..m : g[k] = step[k][g[k - 1]]
      BY <2>1
    <3> QED
      BY <2>0, <3>1
  <2>2. CASE m # 0
    <3>1. m \in 1..n /\ m - 1 \in 0..n /\ ~(m <= m - 1)
      BY <2>0, <2>2
    <3>2. Upto(m - 1)
      BY <1>1, <3>1
    <3>3. PICK g \in [0..(m - 1) -> S] : g[0] = a /\ \A k \in 1..(m - 1) : g[k] = step[k][g[k - 1]]
      BY <3>2
    <3>4. PICK s \in S : s = step[m][g[m - 1]]
      <4>1. g[m - 1] \in S
        BY <3>1
      <4>2. step[m] \in [S -> S]
        BY <3>1
      <4> QED
        BY <4>1, <4>2
    <3> DEFINE h == [k \in 0..m |-> IF k = m THEN s ELSE g[k]]
    <3>5. h \in [0..m -> S]
      BY <3>1
    <3>6. h[0] = a
      BY <2>0, <2>2, <3>3
    <3>7. ASSUME NEW k \in 1..m PROVE h[k] = step[k][h[k - 1]]
      <4>1. h[k - 1] = g[k - 1]
        BY <3>1
      <4>2. CASE k = m
        BY <3>1, <3>4, <4>1, <4>2
      <4>3. CASE k # m
        <5>1. k \in 1..(m - 1) /\ h[k] = g[k]
          BY <3>1, <4>3
        <5> QED
          BY <3>3, <4>1, <5>1
      <4> QED
        BY <4>2, <4>3
    <3> HIDE DEF h
    <3>8. Upto(m)
      BY <3>5, <3>6, <3>7
    <3> QED
      BY <2>0, <3>8
  <2> QED
    BY <2>1, <2>2
<1>2. T = {}
  <2> HIDE DEF T
  <2> QED
    BY <1>0, <1>1, LeastNumber
<1>3. Upto(n)
  BY <1>2, SMTT(30)
<1> QED
  BY <1>3

\* Functions that take one element of X in.
Steppers(S, X) == [S \X X -> S]

\* What becomes of a when f takes in the elements of s one by one.
Folds(S, a, s, f) ==
    {g \in [0..Len(s) -> S] : g[0] = a /\ \A k \in 1..Len(s) : g[k] = f[<<g[k - 1], s[k]>>]}

\* It can be folded, if f stays within S.
LEMMA FoldExists ==
    ASSUME NEW S, NEW X, NEW a \in S, NEW s \in Seq(X), NEW f \in Steppers(S, X)
    PROVE  Folds(S, a, s, f) # {}
<1> DEFINE n == Len(s)
           step == [k \in 1..n |-> [x \in S |-> f[<<x, s[k]>>]]]
<1>1. n \in Nat /\ \A k \in 1..n : s[k] \in X
  OBVIOUS
<1>2. step \in [1..n -> [S -> S]]
  <2>1. \A k \in 1..n, x \in S : f[<<x, s[k]>>] \in S
    BY <1>1 DEF Steppers
  <2> QED
    BY <2>1
<1>3. \A k \in 1..n, x \in S : step[k][x] = f[<<x, s[k]>>]
  OBVIOUS
<1> HIDE DEF n, step
<1>4. Results(S, n, a, step) # {}
  BY <1>1, <1>2, StepsHaveResults
<1>5. PICK g \in [0..n -> S] : g[0] = a /\ \A k \in 1..n : g[k] = step[k][g[k - 1]]
  BY <1>4 DEF Results
<1>6. \A k \in 1..n : g[k] = f[<<g[k - 1], s[k]>>]
  <2> SUFFICES ASSUME NEW k \in 1..n PROVE g[k] = f[<<g[k - 1], s[k]>>]
    OBVIOUS
  <2>1. k - 1 \in 0..n
    BY <1>1
  <2>2. g[k - 1] \in S
    BY <1>5, <2>1
  <2> QED
    BY <1>3, <1>5, <2>2
<1> QED
  BY <1>5, <1>6 DEF Folds, n

\* There is one way to fold.
LEMMA FoldUnique ==
    ASSUME NEW S, NEW X, NEW a \in S, NEW s \in Seq(X), NEW f \in Steppers(S, X),
           NEW g \in Folds(S, a, s, f), NEW h \in Folds(S, a, s, f)
    PROVE  g = h
<1> DEFINE n == Len(s)
           zero == {0}
           same == [k \in 0..n |-> IF g[k] = h[k] THEN 0 ELSE 1]
<1>1. n \in Nat
  OBVIOUS
<1>2. g \in [0..n -> S] /\ g[0] = a /\ \A k \in 1..n : g[k] = f[<<g[k - 1], s[k]>>]
  BY DEF Folds
<1>3. h \in [0..n -> S] /\ h[0] = a /\ \A k \in 1..n : h[k] = f[<<h[k - 1], s[k]>>]
  BY DEF Folds
<1>4. \A k \in 0..n : same[k] \in zero
  <2>1. same[0] \in zero
    BY <1>1, <1>2, <1>3
  <2>2. ASSUME NEW k \in 1..n, same[k - 1] \in zero PROVE same[k] \in zero
    <3>1. k - 1 \in 0..n /\ k \in 0..n
      BY <1>1
    <3>2. g[k - 1] = h[k - 1]
      BY <2>2, <3>1
    <3>3. g[k] = h[k]
      BY <1>2, <1>3, <3>2
    <3> QED
      BY <3>1, <3>3
  <2> HIDE DEF same, n, zero
  <2> QED
    BY <1>1, <2>1, <2>2, StepsKeep
<1>5. \A k \in 0..n : g[k] = h[k]
  BY <1>4
<1> QED
  BY <1>2, <1>3, <1>5

\* What is left in the end.
Folded(S, a, s, f) == (CHOOSE g \in Folds(S, a, s, f) : TRUE)[Len(s)]

LEMMA FoldOfAll ==
    ASSUME NEW S, NEW X, NEW a \in S, NEW s \in Seq(X), NEW f \in Steppers(S, X)
    PROVE  /\ Folded(S, a, s, f) \in S
           /\ \A g \in Folds(S, a, s, f) : Folded(S, a, s, f) = g[Len(s)]
<1>1. Folds(S, a, s, f) # {}
  BY FoldExists
<1>2. PICK g \in Folds(S, a, s, f) : Folded(S, a, s, f) = g[Len(s)]
  BY <1>1 DEF Folded
<1>3. g \in [0..Len(s) -> S] /\ g[0] = a /\ Len(s) \in Nat
  BY DEF Folds
<1>4. \A h \in Folds(S, a, s, f) : g = h
  BY FoldUnique
<1> QED
  BY <1>2, <1>3, <1>4

LEMMA FoldOfNone ==
    ASSUME NEW S, NEW X, NEW a \in S, NEW s \in Seq(X), NEW f \in Steppers(S, X)
    PROVE  Len(s) = 0 => Folded(S, a, s, f) = a
<1>1. PICK g \in Folds(S, a, s, f) : TRUE
  <2>1. Folds(S, a, s, f) # {}
    BY FoldExists
  <2> QED
    BY <2>1
<1>2. Folded(S, a, s, f) = g[Len(s)]
  BY FoldOfAll
<1> QED
  BY <1>2 DEF Folds

LEMMA FoldOfAppend ==
    ASSUME NEW S, NEW X, NEW a \in S, NEW s \in Seq(X), NEW x \in X, NEW f \in Steppers(S, X)
    PROVE  Folded(S, a, Append(s, x), f) = f[<<Folded(S, a, s, f), x>>]
<1> DEFINE n == Len(s)
           t == Append(s, x)
<1>1. /\ n \in Nat /\ t \in Seq(X) /\ Len(t) = n + 1 /\ t[n + 1] = x
      /\ \A k \in 1..n : t[k] = s[k]
  OBVIOUS
<1> HIDE DEF t
<1>2. PICK h \in Folds(S, a, t, f) : Folded(S, a, t, f) = h[n + 1]
  <2>1. Folds(S, a, t, f) # {}
    BY <1>1, FoldExists
  <2> QED
    BY <1>1, <2>1, FoldOfAll
<1>3. h \in [0..(n + 1) -> S] /\ h[0] = a /\ \A k \in 1..(n + 1) : h[k] = f[<<h[k - 1], t[k]>>]
  BY <1>1 DEF Folds
<1> DEFINE g == [k \in 0..n |-> h[k]]
<1>4. g \in Folds(S, a, s, f)
  <2>1. g \in [0..n -> S] /\ g[0] = a
    BY <1>1, <1>3
  <2>2. ASSUME NEW k \in 1..n PROVE g[k] = f[<<g[k - 1], s[k]>>]
    <3>1. k - 1 \in 0..n /\ k \in 0..n /\ k \in 1..(n + 1)
      BY <1>1
    <3> QED
      BY <1>1, <1>3, <3>1
  <2> HIDE DEF g
  <2> QED
    BY <2>1, <2>2 DEF Folds
<1>5. g[n] = h[n]
  BY <1>1
<1> HIDE DEF g
<1>6. Folded(S, a, s, f) = h[n]
  BY <1>4, <1>5, FoldOfAll
<1>7. n + 1 \in 1..(n + 1) /\ (n + 1) - 1 = n
  BY <1>1
<1>8. h[n + 1] = f[<<h[n], x>>]
  BY <1>1, <1>3, <1>7
<1> QED
  BY <1>2, <1>6, <1>8 DEF t

\* Whatever does as f does, as long as that stays within S, folds.
DoesAs(g, S, a, s, f) ==
    /\ g = [k \in 0..Len(s) |-> g[k]] /\ g[0] = a
    /\ \A k \in 1..Len(s) : g[k - 1] \in S => g[k] = f[<<g[k - 1], s[k]>>]

LEMMA FoldsAsDone ==
    ASSUME NEW S, NEW X, NEW a \in S, NEW s \in Seq(X), NEW f \in Steppers(S, X),
           NEW g, DoesAs(g, S, a, s, f)
    PROVE  g[Len(s)] = Folded(S, a, s, f)
<1>0. /\ g = [k \in 0..Len(s) |-> g[k]] /\ g[0] = a
      /\ \A k \in 1..Len(s) : g[k - 1] \in S => g[k] = f[<<g[k - 1], s[k]>>]
  BY Zenon DEF DoesAs
<1>1. Len(s) \in Nat /\ \A k \in 1..Len(s) : s[k] \in X
  OBVIOUS
<1>2. \A k \in 0..Len(s) : g[k] \in S
  <2>1. ASSUME NEW k \in 1..Len(s), g[k - 1] \in S PROVE g[k] \in S
    BY <1>0, <1>1, <2>1 DEF Steppers
  <2>2. g[0] \in S
    BY <1>0
  <2> QED
    BY <1>1, <2>1, <2>2, StepsKeep
<1>3. \A k \in 1..Len(s) : g[k] = f[<<g[k - 1], s[k]>>]
  <2> SUFFICES ASSUME NEW k \in 1..Len(s) PROVE g[k] = f[<<g[k - 1], s[k]>>]
    OBVIOUS
  <2>1. k - 1 \in 0..Len(s)
    BY <1>1
  <2> QED
    BY <1>0, <1>2, <2>1
<1>4. g \in [0..Len(s) -> S]
  BY <1>0, <1>2
<1>5. g \in Folds(S, a, s, f)
  BY <1>0, <1>3, <1>4 DEF Folds
<1> QED
  BY <1>5, FoldOfAll

\* A recursive function that does as f does has a value, which is what f leaves.
LEMMA FoldIsSolved ==
    ASSUME NEW S, NEW X, NEW a \in S, NEW s \in Seq(X), NEW f \in Steppers(S, X)
    PROVE  \E h \in [0..Len(s) -> S] :
               h = [k \in 0..Len(s) |-> IF k = 0 THEN a ELSE f[<<h[k - 1], s[k]>>]]
<1>1. PICK h \in Folds(S, a, s, f) : TRUE
  <2>1. Folds(S, a, s, f) # {}
    BY FoldExists
  <2> QED
    BY <2>1
<1>2. h \in [0..Len(s) -> S] /\ h[0] = a /\ \A k \in 1..Len(s) : h[k] = f[<<h[k - 1], s[k]>>]
  BY DEF Folds
<1>3. \A k \in 0..Len(s) : h[k] = IF k = 0 THEN a ELSE f[<<h[k - 1], s[k]>>]
  <2> SUFFICES ASSUME NEW k \in 0..Len(s), k # 0 PROVE k \in 1..Len(s)
    BY <1>2
  <2>1. Len(s) \in Nat
    OBVIOUS
  <2> QED
    BY <2>1
<1> QED
  BY <1>2, <1>3

\* The sequences of all elements of S in the order R.
Sorted(S, R) ==
    {seq \in [1..Cardinality(S) -> S] :
        /\ \A i, j \in 1..Cardinality(S) : i < j => <<seq[i], seq[j]>> \in R
        /\ \A x \in S : \E i \in 1..Cardinality(S) : seq[i] = x}

\* With one more element, greater than all others, there is one such sequence more.
LEMMA SortedAppend ==
    ASSUME NEW T, IsFiniteSet(T), NEW R, NEW g \in T,
           \A y \in T : y # g => <<y, g>> \in R,
           NEW seq \in Sorted(T \ {g}, R)
    PROVE  Sorted(T, R) # {}
<1> DEFINE m == Cardinality(T)
           c == Cardinality(T \ {g})
           new == [i \in 1..m |-> IF i = m THEN g ELSE seq[i]]
<1>1. c \in Nat /\ m = c + 1
  <2>1. IsFiniteSet(T \ {g}) /\ c = m - 1
    BY FS_RemoveElement
  <2>2. m \in Nat /\ c \in Nat
    BY <2>1, FS_CardinalityType
  <2> QED
    BY <2>1, <2>2
<1>2. /\ seq \in [1..c -> T \ {g}]
      /\ \A i, j \in 1..c : i < j => <<seq[i], seq[j]>> \in R
      /\ \A x \in T \ {g} : \E i \in 1..c : seq[i] = x
  BY DEF Sorted
<1> HIDE DEF m, c
<1>3. \A i \in 1..m : i # m => i \in 1..c
  BY <1>1
<1>4. new \in [1..m -> T]
  BY <1>2, <1>3
<1>5. ASSUME NEW i \in 1..m, NEW j \in 1..m, i < j PROVE <<new[i], new[j]>> \in R
  <2>1. i # m /\ i \in 1..c
    BY <1>1, <1>3, <1>5
  <2>2. new[i] = seq[i] /\ seq[i] \in T /\ seq[i] # g
    BY <1>2, <2>1
  <2>3. CASE j = m
    BY <2>2, <2>3
  <2>4. CASE j # m
    BY <1>2, <1>3, <1>5, <2>1, <2>2, <2>4
  <2> QED
    BY <2>3, <2>4
<1>6. ASSUME NEW x \in T PROVE \E i \in 1..m : new[i] = x
  <2>1. CASE x = g
    <3>1. m \in 1..m /\ new[m] = g
      BY <1>1
    <3> QED
      BY <2>1, <3>1
  <2>2. CASE x # g
    <3>1. PICK i \in 1..c : seq[i] = x
      BY <1>2, <2>2
    <3>2. i \in 1..m /\ i # m
      BY <1>1
    <3> QED
      BY <3>1, <3>2
  <2> QED
    BY <2>1, <2>2
<1>7. new \in Sorted(T, R)
  <2> HIDE DEF new
  <2> QED
    BY <1>4, <1>5, <1>6 DEF Sorted, m
<1> QED
  BY <1>7

\* A finite set has a sequence of its elements in a given order.
LEMMA SortedSequence ==
    ASSUME NEW S, IsFiniteSet(S), NEW R,
           \A a, b \in S : a # b => <<a, b>> \in R \/ <<b, a>> \in R,
           \A a, b, c \in S : <<a, b>> \in R /\ <<b, c>> \in R => <<a, c>> \in R
    PROVE  Sorted(S, R) # {}
<1> DEFINE Bad == {m \in Nat : \E T \in SUBSET S : Cardinality(T) = m /\ Sorted(T, R) = {}}
<1>0. \A T \in SUBSET S : IsFiniteSet(T) /\ Cardinality(T) \in Nat
  BY FS_Subset, FS_CardinalityType
<1>1. ASSUME NEW m \in Bad, \A j \in Bad : m <= j PROVE FALSE
  <2>1. PICK T \in SUBSET S : Cardinality(T) = m /\ Sorted(T, R) = {}
    OBVIOUS
  <2>2. \A x \in T : Sorted(T \ {x}, R) # {} /\ Cardinality(T \ {x}) = m - 1
    <3> SUFFICES ASSUME NEW x \in T PROVE Sorted(T \ {x}, R) # {} /\ Cardinality(T \ {x}) = m - 1
      OBVIOUS
    <3>0. IsFiniteSet(T) /\ T \ {x} \in SUBSET S
      BY <1>0
    <3>1. Cardinality(T \ {x}) = m - 1 /\ m - 1 \in Nat
      <4>1. Cardinality(T \ {x}) = m - 1
        BY <2>1, <3>0, FS_RemoveElement
      <4>2. Cardinality(T \ {x}) \in Nat
        BY <1>0, <3>0
      <4> QED
        BY <4>1, <4>2
    <3>2. m - 1 \notin Bad
      BY <1>1, <3>1
    <3> QED
      BY <3>0, <3>1, <3>2
  <2>3. CASE T = {}
    <3> DEFINE none == [i \in 1..0 |-> 0]
    <3>1. Cardinality(T) = 0
      BY <2>3, FS_EmptySet
    <3>2. none \in [1..0 -> T] /\ \A i \in 1..0 : FALSE
      OBVIOUS
    <3>3. none \in Sorted(T, R)
      <4> HIDE DEF none
      <4> QED
        BY <2>3, <3>1, <3>2 DEF Sorted
    <3> QED
      BY <2>1, <3>3
  <2>4. ASSUME T # {} PROVE \E g \in T : \A y \in T : y # g => <<y, g>> \in R
    <3>1. PICK x \in T : TRUE
      BY <2>4
    <3>2. PICK seq \in Sorted(T \ {x}, R) : TRUE
      BY <2>2
    <3> DEFINE c == Cardinality(T \ {x})
    <3>3. /\ seq \in [1..c -> T \ {x}]
          /\ \A i, j \in 1..c : i < j => <<seq[i], seq[j]>> \in R
          /\ \A y \in T \ {x} : \E i \in 1..c : seq[i] = y
      BY <3>2 DEF Sorted
    <3>4. c \in Nat
      BY <1>0
    <3> HIDE DEF c
    <3>5. CASE c = 0
      <4>1. \A y \in T : y = x
        BY <3>3, <3>5
      <4> QED
        BY <4>1
    <3>6. CASE c # 0
      <4>1. c \in 1..c /\ seq[c] \in T
        BY <3>3, <3>4, <3>6
      <4>2. \A y \in T \ {x} : y # seq[c] => <<y, seq[c]>> \in R
        <5> SUFFICES ASSUME NEW y \in T \ {x}, y # seq[c] PROVE <<y, seq[c]>> \in R
          OBVIOUS
        <5>1. PICK i \in 1..c : seq[i] = y
          BY <3>3
        <5>2. i < c
          BY <3>4, <5>1
        <5> QED
          BY <3>3, <4>1, <5>1, <5>2
      <4>3. CASE <<x, seq[c]>> \in R
        <5>1. \A y \in T : y # seq[c] => <<y, seq[c]>> \in R
          BY <4>2, <4>3
        <5> QED
          BY <4>1, <5>1
      <4>4. CASE <<seq[c], x>> \in R
        <5>1. \A y \in T : y # x => <<y, x>> \in R
          BY <2>1, <4>1, <4>2, <4>4
        <5> QED
          BY <5>1
      <4> QED
        BY <2>1, <3>3, <4>1, <4>3, <4>4
    <3> QED
      BY <3>4, <3>5, <3>6
  <2>5. CASE T # {}
    <3>1. PICK g \in T : \A y \in T : y # g => <<y, g>> \in R
      BY <2>4, <2>5
    <3>2. PICK seq \in Sorted(T \ {g}, R) : TRUE
      BY <2>2
    <3>3. IsFiniteSet(T)
      BY <1>0
    <3>4. Sorted(T, R) # {}
      BY <3>1, <3>2, <3>3, SortedAppend
    <3> QED
      BY <2>1, <3>4
  <2> QED
    BY <2>3, <2>5
<1>2. Bad = {}
  <2>1. Bad \subseteq Nat
    OBVIOUS
  <2> HIDE DEF Bad
  <2> QED
    BY <1>1, <2>1, LeastNumber
<1>3. S \in SUBSET S /\ Cardinality(S) \in Nat
  BY <1>0
<1> QED
  BY <1>2, <1>3

\* Functions of a number and of a function of numbers.
Looks(S, n) == [(0..n) \X [0..n -> S] -> S]

\* Of the function only the values of smaller numbers matter.
LooksBelow(F, S, n) ==
    \A k \in 0..n : \A g, h \in [0..n -> S] :
        (\A j \in 0..n : j < k => g[j] = h[j]) => F[<<k, g>>] = F[<<k, h>>]

\* The values up to m are as F says.
SolvedBelow(F, h, m, n) == \A k \in 0..n : k < m => h[k] = F[<<k, h>>]

\* A function may be defined by its values of smaller numbers.
LEMMA RecursionIsSolved ==
    ASSUME NEW S, NEW n \in Nat, NEW a \in S, NEW F \in Looks(S, n), LooksBelow(F, S, n)
    PROVE  \E h \in [0..n -> S] : \A k \in 0..n : h[k] = F[<<k, h>>]
<1> DEFINE H == [0..n -> S]
           step == [k \in 1..(n + 1) |-> [h \in H |-> [h EXCEPT ![k - 1] = F[<<k - 1, h>>]]]]
           start == [k \in 0..n |-> a]
<1>1. \A k \in 0..n, h \in H : F[<<k, h>>] \in S
  BY DEF Looks
<1>2. step \in [1..(n + 1) -> [H -> H]]
  <2> SUFFICES ASSUME NEW k \in 1..(n + 1), NEW h \in H
               PROVE  [h EXCEPT ![k - 1] = F[<<k - 1, h>>]] \in H
    OBVIOUS
  <2>1. k - 1 \in 0..n
    OBVIOUS
  <2>2. PICK v \in S : v = F[<<k - 1, h>>]
    BY <1>1, <2>1
  <2> QED
    BY <2>1, <2>2
<1>3. start \in H /\ n + 1 \in Nat
  OBVIOUS
<1>4. \A k \in 1..(n + 1), h \in H : step[k][h] = [h EXCEPT ![k - 1] = F[<<k - 1, h>>]]
  OBVIOUS
<1> HIDE DEF step, start
<1>5. PICK g \in [0..(n + 1) -> H] : \A k \in 1..(n + 1) : g[k] = step[k][g[k - 1]]
  <2>1. PICK m \in Nat : m = n + 1
    BY <1>3
  <2>2. step \in [1..m -> [H -> H]]
    BY <1>2, <2>1
  <2> HIDE DEF H
  <2>3. Results(H, m, start, step) # {}
    BY <1>3, <2>2, StepsHaveResults
  <2> QED
    BY <2>1, <2>3 DEF Results
<1>6. ASSUME NEW m \in 1..(n + 1)
      PROVE  /\ g[m - 1] \in H /\ g[m] \in H /\ m - 1 \in 0..n
             /\ g[m][m - 1] = F[<<m - 1, g[m - 1]>>]
             /\ \A k \in 0..n : k # m - 1 => g[m][k] = g[m - 1][k]
  <2>1. m - 1 \in 0..n /\ m - 1 \in 0..(n + 1) /\ m \in 0..(n + 1)
    OBVIOUS
  <2>2. PICK h \in H : h = g[m - 1]
    BY <2>1
  <2>3. PICK v \in S : v = F[<<m - 1, h>>]
    BY <1>1, <2>1
  <2>4. g[m] = [h EXCEPT ![m - 1] = v]
    BY <1>4, <1>5, <2>2, <2>3
  <2> QED
    BY <2>1, <2>2, <2>3, <2>4
<1> DEFINE Bad == {m \in 0..(n + 1) : ~SolvedBelow(F, g[m], m, n)}
<1>7. ASSUME NEW m \in Bad, \A j \in Bad : m <= j PROVE FALSE
  <2>1. m \in 0..(n + 1) /\ ~SolvedBelow(F, g[m], m, n)
    OBVIOUS
  <2>2. m \in 1..(n + 1)
    <3>1. m # 0
      BY <2>1 DEF SolvedBelow
    <3> QED
      BY <2>1, <3>1
  <2>3. SolvedBelow(F, g[m - 1], m - 1, n)
    <3>1. m - 1 \in 0..(n + 1) /\ ~(m <= m - 1)
      BY <2>2
    <3> QED
      BY <1>7, <3>1
  <2> HIDE DEF Bad, H
  <2>4. /\ g[m - 1] \in H /\ g[m] \in H /\ m - 1 \in 0..n
        /\ g[m][m - 1] = F[<<m - 1, g[m - 1]>>]
        /\ \A k \in 0..n : k # m - 1 => g[m][k] = g[m - 1][k]
    BY <1>6, <2>2
  <2>5. ASSUME NEW k \in 0..n, k < m PROVE g[m][k] = F[<<k, g[m]>>]
    <3>1. k <= m - 1
      BY <2>2, <2>5
    <3>2. \A j \in 0..n : j < k => g[m][j] = g[m - 1][j]
      BY <2>2, <2>4, <3>1
    <3>3. F[<<k, g[m - 1]>>] = F[<<k, g[m]>>]
      BY <2>4, <3>2 DEF LooksBelow, H
    <3>4. CASE k = m - 1
      BY <2>4, <3>3, <3>4
    <3>5. CASE k # m - 1
      <4>1. k < m - 1
        BY <2>2, <3>1, <3>5
      <4>2. g[m - 1][k] = F[<<k, g[m - 1]>>]
        BY <2>3, <4>1 DEF SolvedBelow
      <4> QED
        BY <2>4, <3>3, <3>5, <4>2
    <3> QED
      BY <3>4, <3>5
  <2> QED
    BY <2>1, <2>5 DEF SolvedBelow
<1>8. Bad = {}
  <2>1. Bad \subseteq Nat
    OBVIOUS
  <2> HIDE DEF Bad
  <2> QED
    BY <1>7, <2>1, LeastNumber
<1>9. SolvedBelow(F, g[n + 1], n + 1, n) /\ g[n + 1] \in H
  <2>1. n + 1 \in 0..(n + 1)
    OBVIOUS
  <2> QED
    BY <1>8, <2>1
<1> QED
  BY <1>9 DEF SolvedBelow
=============================================================================
