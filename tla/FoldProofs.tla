------------------------------- MODULE FoldProofs -------------------------------
(***************************************************************************)
(* Induction for the provers, and what follows from it about the folds of  *)
(* the community modules: a fold over a sequence comes one element at a    *)
(* time; sums over finite sets; rounding.  Base and Step are a fold's;     *)
(* the last argument of each is whatever else it depends on.               *)
(***************************************************************************)
EXTENDS Rounding, Integers, FiniteSets, FiniteSetsExt, FiniteSetTheorems, WellFoundedInduction, TLAPS

CONSTANTS Base(_), Step(_,_,_)

-------------------------------------------------------------------------------
\* Induction over the naturals, with a set in place of a predicate.
LEMMA NatSetInduction ==
  ASSUME NEW T, 0 \in T, \A n \in Nat : n \in T => n + 1 \in T
  PROVE  Nat \subseteq T
<1> DEFINE R == OpToRel(<, Nat)
           U == Nat \ T
<1>1. SUFFICES ASSUME U # {} PROVE FALSE
  OBVIOUS
<1>2. IsWellFoundedOn(R, Nat)
  BY Zenon, NatLessThanWellFounded
<1>3. \E x \in U : \A y \in U : <<y, x>> \notin R
  <2> HIDE DEF R
  <2> QED BY <1>1, <1>2, WFMin
<1>4. PICK x \in U : \A y \in U : ~(y < x)
  BY Zenon, <1>3 DEF OpToRel
<1>5. x # 0 /\ x \in Nat /\ x - 1 \in Nat
  OBVIOUS
<1>6. x - 1 \in T
  BY <1>4, <1>5
<1>7. QED
  BY <1>5, <1>6

\* The same up to n, where T is only known to be kept so far.
LEMMA UptoInduction ==
  ASSUME NEW n \in Nat, NEW T, 0 \in T, \A k \in 1..n : k - 1 \in T => k \in T
  PROVE  0..n \subseteq T
<1> DEFINE U == {k \in Nat : k <= n => k \in T}
<1>1. 0 \in U
  OBVIOUS
<1>2. ASSUME NEW k \in Nat, k \in U
      PROVE  k + 1 \in U
  <2>1. SUFFICES ASSUME k + 1 <= n PROVE k + 1 \in T
    OBVIOUS
  <2>2. k + 1 \in 1..n /\ (k + 1) - 1 = k /\ k \in T
    BY <1>2, <2>1
  <2>3. QED
    BY <2>2
<1>3. Nat \subseteq U
  <2> HIDE DEF U
  <2> QED BY <1>1, <1>2, NatSetInduction
<1>4. QED
  BY <1>3

\* A set of indices that is not empty has a last one.
LEMMA LastIndex ==
  ASSUME NEW n \in Nat, NEW I \in SUBSET (1..n), I # {}
  PROVE  \E m \in I : \A i \in I : i <= m
<1> DEFINE T == {k \in Nat : \A J \in SUBSET (1..k) :
                    J # {} => \E m \in J : \A i \in J : i <= m}
<1>1. 0 \in T
  <2>1. 1..0 = {}
    OBVIOUS
  <2>2. QED
    BY <2>1
<1>2. ASSUME NEW k \in Nat, k \in T
      PROVE  k + 1 \in T
  <2>1. SUFFICES ASSUME NEW J \in SUBSET (1..k+1), J # {}
                 PROVE  \E m \in J : \A i \in J : i <= m
    OBVIOUS
  <2>2. CASE k + 1 \in J
    <3>1. \A i \in J : i <= k + 1
      OBVIOUS
    <3>2. QED
      BY <2>2, <3>1
  <2>3. CASE k + 1 \notin J
    <3>1. \A i \in J : i \in 1..k+1 /\ i # k + 1
      BY <2>3
    <3>2. J \in SUBSET (1..k)
      BY <3>1
    <3>3. QED
      BY <1>2, <2>1, <3>2
  <2>4. QED
    BY <2>2, <2>3
<1>3. Nat \subseteq T
  <2> HIDE DEF T
  <2> QED BY <1>1, <1>2, NatSetInduction
<1>4. QED
  BY <1>3

\* And a first one.
LEMMA FirstIndex ==
  ASSUME NEW n \in Nat, NEW I \in SUBSET (1..n), I # {}
  PROVE  \E m \in I : \A i \in I : m <= i
<1> DEFINE J == {j \in 1..n : n + 1 - j \in I}
<1>1. J \in SUBSET (1..n) /\ J # {}
  <2>1. PICK i \in 1..n : i \in I
    OBVIOUS
  <2>2. n + 1 - i \in J
    BY <2>1
  <2>3. QED
    BY <2>2
<1>2. PICK j \in J : \A k \in J : k <= j
  <2> HIDE DEF J
  <2> QED BY <1>1, LastIndex
<1>3. ASSUME NEW i \in I
      PROVE  n + 1 - j <= i
  <2>1. n + 1 - i \in J
    OBVIOUS
  <2>2. n + 1 - i <= j
    BY <1>2, <2>1
  <2>3. QED
    BY <2>2
<1>4. QED
  BY <1>2, <1>3

-------------------------------------------------------------------------------
(***************************************************************************)
(* FoldLeft over a sequence s of length n, as MapThenFoldSet defines it.   *)
(***************************************************************************)
IsFold(it, s, x, n) ==
  it = [t \in SUBSET (1..n) |->
          IF t = {} THEN Base(x) ELSE Step(it[t \ {Max(t)}], s[Max(t)], x)]

\* The largest of some indices up to n + 1 is n + 1 when that is one of them.
LEMMA MaxOfSegment ==
  ASSUME NEW n \in Nat, NEW t \in SUBSET (1..n+1), n + 1 \in t
  PROVE  Max(t) = n + 1
<1>1. \A y \in t : n + 1 >= y /\ y \in Int
  OBVIOUS
<1>2. ASSUME NEW x \in t, \A y \in t : x >= y
      PROVE  x = n + 1
  BY <1>1, <1>2
<1>3. QED
  BY <1>1, <1>2 DEF Max

\* There is such a function.
LEMMA FoldExists ==
  ASSUME NEW s, NEW x, NEW n \in Nat
  PROVE  \E it : IsFold(it, s, x, n)
<1> DEFINE T == {k \in Nat : \E it : IsFold(it, s, x, k)}
<1>1. 0 \in T
  <2> DEFINE it == [t \in SUBSET (1..0) |-> Base(x)]
  <2>1. \A t \in SUBSET (1..0) : t = {}
    OBVIOUS
  <2>2. IsFold(it, s, x, 0)
    BY <2>1 DEF IsFold
  <2>3. QED
    BY <2>2
<1>2. ASSUME NEW k \in Nat, k \in T
      PROVE  k + 1 \in T
  <2>1. PICK it : IsFold(it, s, x, k)
    BY <1>2
  <2> DEFINE more == [t \in SUBSET (1..k+1) |->
                        IF k + 1 \in t THEN Step(it[t \ {k + 1}], s[k + 1], x) ELSE it[t]]
             next == [t \in SUBSET (1..k+1) |->
                        IF t = {} THEN Base(x)
                        ELSE Step(more[t \ {Max(t)}], s[Max(t)], x)]
  <2>2. ASSUME NEW t \in SUBSET (1..k+1)
        PROVE  more[t] = next[t]
    <3>1. CASE k + 1 \in t
      <4>1. Max(t) = k + 1 /\ t # {}
        BY <3>1, MaxOfSegment
      <4>2. t \ {k + 1} \in SUBSET (1..k+1) /\ k + 1 \notin t \ {k + 1}
        OBVIOUS
      <4>3. more[t \ {k + 1}] = it[t \ {k + 1}]
        BY <4>2
      <4>4. QED
        BY <3>1, <4>1, <4>3
    <3>2. CASE k + 1 \notin t
      <4> DEFINE less == t \ {Max(t)}
      <4>1. t \in SUBSET (1..k)
        <5>1. \A i \in t : i \in 1..k+1 /\ i # k + 1
          BY <3>2
        <5>2. QED
          BY <5>1
      <4>2. less \in SUBSET (1..k+1) /\ k + 1 \notin less
        BY <3>2
      <4>3. more[t] = it[t] /\ more[less] = it[less]
        BY <3>2, <4>1, <4>2
      <4>4. it[t] = IF t = {} THEN Base(x) ELSE Step(it[t \ {Max(t)}], s[Max(t)], x)
        BY <2>1, <4>1 DEF IsFold
      <4>5. QED
        BY <4>3, <4>4
    <3>3. QED
      BY <3>1, <3>2
  <2>3. IsFold(more, s, x, k + 1)
    BY <2>2 DEF IsFold
  <2>4. QED
    BY <2>3
<1>3. Nat \subseteq T
  <2> HIDE DEF T
  <2> QED BY <1>1, <1>2, NatSetInduction
<1>4. QED
  BY <1>3

\* Its value at a segment comes from that at the segment before it.
LEMMA FoldSteps ==
  ASSUME NEW s, NEW x, NEW n \in Nat, NEW it, IsFold(it, s, x, n)
  PROVE  /\ it[1..0] = Base(x)
         /\ \A k \in 0..n-1 : it[1..k+1] = Step(it[1..k], s[k + 1], x)
<1>1. 1..0 = {} /\ 1..0 \in SUBSET (1..n)
  OBVIOUS
<1>2. ASSUME NEW k \in 0..n-1
      PROVE  it[1..k+1] = Step(it[1..k], s[k + 1], x)
  <2>1. /\ 1..k+1 \in SUBSET (1..n) /\ 1..k+1 # {}
        /\ (1..k+1) \ {k + 1} = 1..k
    OBVIOUS
  <2>2. Max(1..k+1) = k + 1
    BY MaxOfSegment
  <2>3. QED
    BY <2>1, <2>2 DEF IsFold
<1>3. QED
  BY <1>1, <1>2 DEF IsFold

\* The value of the fold.
FoldOf(s, x, n) == (CHOOSE it : IsFold(it, s, x, n))[1..n]

\* The values of a fold, segment by segment.
IsRun(it, s, x, n) ==
  it[0] = Base(x) /\ \A k \in 1..n : it[k] = Step(it[k-1], s[k], x)

\* A fold is the last of its values, segment by segment.
LEMMA FoldRuns ==
  ASSUME NEW s, NEW x, NEW n \in Nat
  PROVE  \E it : IsRun(it, s, x, n) /\ FoldOf(s, x, n) = it[n]
<1>1. PICK f : IsFold(f, s, x, n) /\ FoldOf(s, x, n) = f[1..n]
  BY FoldExists DEF FoldOf
<1>2. /\ f[1..0] = Base(x)
      /\ \A k \in 0..n-1 : f[1..k+1] = Step(f[1..k], s[k + 1], x)
  BY <1>1, FoldSteps
<1> DEFINE it == [k \in 0..n |-> f[1..k]]
<1>3. ASSUME NEW k \in 1..n
      PROVE  it[k] = Step(it[k-1], s[k], x)
  <2>1. k - 1 \in 0..n-1 /\ (k - 1) + 1 = k /\ k \in 0..n /\ k - 1 \in 0..n
    OBVIOUS
  <2>2. f[1..k] = Step(f[1..(k-1)], s[k], x)
    BY <1>2, <2>1
  <2>3. QED
    BY <2>1, <2>2
<1>4. it[0] = Base(x) /\ it[n] = f[1..n]
  BY <1>2
<1>5. QED
  BY <1>1, <1>3, <1>4 DEF IsRun

\* Runs that make the same steps agree.
LEMMA RunsAgree ==
  ASSUME NEW s, NEW x, NEW t, NEW n \in Nat, NEW m \in Nat, n <= m,
         \A k \in 1..n : \A acc : Step(acc, t[k], x) = Step(acc, s[k], x),
         NEW f, IsRun(f, s, x, n), NEW g, IsRun(g, t, x, m)
  PROVE  f[n] = g[n]
<1> DEFINE T == {k \in Nat : k <= n => f[k] = g[k]}
<1>1. 0 \in T
  BY DEF IsRun
<1>2. ASSUME NEW k \in Nat, k \in T
      PROVE  k + 1 \in T
  <2>1. SUFFICES ASSUME k + 1 <= n PROVE f[k + 1] = g[k + 1]
    OBVIOUS
  <2>2. f[k] = g[k] /\ k + 1 \in 1..n /\ k + 1 \in 1..m /\ (k + 1) - 1 = k
    BY <1>2, <2>1
  <2>3. f[k + 1] = Step(f[k], s[k + 1], x)
    BY <2>2 DEF IsRun
  <2>4. g[k + 1] = Step(g[k], t[k + 1], x)
    BY <2>2 DEF IsRun
  <2>5. QED
    BY <2>2, <2>3, <2>4
<1>3. Nat \subseteq T
  <2> HIDE DEF T
  <2> QED BY <1>1, <1>2, NatSetInduction
<1>4. QED
  BY <1>3

\* Folds that make the same steps are the same.
LEMMA FoldSame ==
  ASSUME NEW s, NEW x, NEW t, NEW n \in Nat,
         \A k \in 1..n : \A acc : Step(acc, t[k], x) = Step(acc, s[k], x)
  PROVE  FoldOf(t, x, n) = FoldOf(s, x, n)
<1>1. PICK f : IsRun(f, s, x, n) /\ FoldOf(s, x, n) = f[n]
  BY FoldRuns
<1>2. PICK g : IsRun(g, t, x, n) /\ FoldOf(t, x, n) = g[n]
  BY FoldRuns
<1>3. QED
  BY <1>1, <1>2, RunsAgree

\* One element more is one step more.
LEMMA FoldAppend ==
  ASSUME NEW s, NEW x, NEW t, NEW n \in Nat,
         \A k \in 1..n : \A acc : Step(acc, t[k], x) = Step(acc, s[k], x)
  PROVE  FoldOf(t, x, n + 1) = Step(FoldOf(s, x, n), t[n + 1], x)
<1>1. PICK f : IsRun(f, s, x, n) /\ FoldOf(s, x, n) = f[n]
  BY FoldRuns
<1> DEFINE m == n + 1
<1>2. m \in Nat /\ n <= m /\ m \in 1..m /\ m - 1 = n
  OBVIOUS
<1> HIDE DEF m
<1>3. PICK g : IsRun(g, t, x, m) /\ FoldOf(t, x, m) = g[m]
  BY <1>2, FoldRuns
<1>4. f[n] = g[n]
  BY <1>1, <1>2, <1>3, RunsAgree
<1>5. g[m] = Step(g[n], t[m], x)
  BY <1>2, <1>3 DEF IsRun
<1>6. QED
  BY <1>1, <1>3, <1>4, <1>5 DEF m

\* What the base has and every step keeps, the fold has.
LEMMA FoldKeeps ==
  ASSUME NEW s, NEW x, NEW n \in Nat, NEW I, Base(x) \in I,
         \A k \in 1..n : \A acc \in I : Step(acc, s[k], x) \in I
  PROVE  FoldOf(s, x, n) \in I
<1>1. PICK f : IsRun(f, s, x, n) /\ FoldOf(s, x, n) = f[n]
  BY FoldRuns
<1> DEFINE T == {k \in Nat : k <= n => f[k] \in I}
<1>2. 0 \in T
  BY <1>1 DEF IsRun
<1>3. ASSUME NEW k \in Nat, k \in T
      PROVE  k + 1 \in T
  <2>1. SUFFICES ASSUME k + 1 <= n PROVE f[k + 1] \in I
    OBVIOUS
  <2>2. f[k] \in I /\ k + 1 \in 1..n /\ (k + 1) - 1 = k
    BY <1>3, <2>1
  <2>3. f[k + 1] = Step(f[k], s[k + 1], x)
    BY <1>1, <2>2 DEF IsRun
  <2>4. QED
    BY <2>2, <2>3
<1>4. Nat \subseteq T
  <2> HIDE DEF T
  <2> QED BY <1>2, <1>3, NatSetInduction
<1>5. QED
  BY <1>1, <1>4

-------------------------------------------------------------------------------
(***************************************************************************)
(* MapThenSumSet over a finite set S, with a function f in place of its    *)
(* operator.                                                               *)
(***************************************************************************)
\* The element of t that CHOOSE takes.
Some(t) == CHOOSE x \in t : TRUE

\* it sums f over each subset of S, taking one element out at a time.
IsSum(it, f, S) ==
  it = [t \in SUBSET S |-> IF t = {} THEN 0 ELSE f[Some(t)] + it[t \ {Some(t)}]]

\* The sum of f over S.
SumOf(f, S) == (CHOOSE it : IsSum(it, f, S))[S]

\* Taking that element out leaves a subset with one element less.
LEMMA SomeElement ==
  ASSUME NEW S, IsFiniteSet(S), NEW t \in SUBSET S, t # {}
  PROVE  /\ Some(t) \in t /\ t \ {Some(t)} \in SUBSET S
         /\ Cardinality(t) \in Nat /\ Cardinality(t) >= 1
         /\ Cardinality(t \ {Some(t)}) = Cardinality(t) - 1
<1>1. Some(t) \in t /\ IsFiniteSet(t)
  BY FS_Subset DEF Some
<1>2. /\ Cardinality(t) \in Nat /\ Cardinality(t \ {Some(t)}) \in Nat
      /\ Cardinality(t \ {Some(t)}) = Cardinality(t) - 1
  BY <1>1, FS_RemoveElement, FS_CardinalityType
<1>3. QED
  BY <1>1, <1>2

\* Induction over the subsets of a finite set, along the elements Some takes out.
LEMMA SubsetInduction ==
  ASSUME NEW S, IsFiniteSet(S), NEW U, {} \in U,
         ASSUME NEW t \in SUBSET S, t # {}, t \ {Some(t)} \in U
         PROVE  t \in U
  PROVE  SUBSET S \subseteq U
<1> DEFINE T == {k \in Nat : \A t \in SUBSET S : Cardinality(t) = k => t \in U}
<1>1. \A t \in SUBSET S : IsFiniteSet(t) /\ Cardinality(t) \in Nat
  BY FS_Subset, FS_CardinalityType
<1>2. 0 \in T
  <2>1. \A t \in SUBSET S : Cardinality(t) = 0 => t = {}
    BY <1>1, FS_EmptySet
  <2>2. QED
    BY <2>1
<1>3. ASSUME NEW k \in Nat, k \in T
      PROVE  k + 1 \in T
  <2>1. SUFFICES ASSUME NEW t \in SUBSET S, Cardinality(t) = k + 1
                 PROVE  t \in U
    OBVIOUS
  <2>2. t # {}
    <3>1. Cardinality({}) = 0
      BY FS_EmptySet
    <3>2. QED
      BY <2>1, <3>1
  <2>3. t \ {Some(t)} \in SUBSET S /\ Cardinality(t \ {Some(t)}) = k
    BY <2>1, <2>2, SomeElement
  <2>4. t \ {Some(t)} \in U
    BY <1>3, <2>3
  <2>5. QED
    BY <2>2, <2>4
<1>4. Nat \subseteq T
  <2> HIDE DEF T
  <2> QED BY <1>2, <1>3, NatSetInduction
<1>5. QED
  BY <1>1, <1>4

\* Over a finite set there is such a function, built up by cardinality.
LEMMA SumExists ==
  ASSUME NEW S, IsFiniteSet(S), NEW f
  PROVE  \E it : IsSum(it, f, S)
<1> DEFINE Next(it, t) == IF t = {} THEN 0 ELSE f[Some(t)] + it[t \ {Some(t)}]
           Upto(it, k) == \A t \in SUBSET S : Cardinality(t) <= k => it[t] = Next(it, t)
           T == {k \in Nat : \E it : Upto(it, k)}
<1>1. \A t \in SUBSET S : IsFiniteSet(t) /\ Cardinality(t) \in Nat
  BY FS_Subset, FS_CardinalityType
<1>2. 0 \in T
  <2> DEFINE it == [t \in SUBSET S |-> 0]
  <2>1. \A t \in SUBSET S : Cardinality(t) <= 0 => t = {}
    BY <1>1, FS_EmptySet
  <2>2. Upto(it, 0)
    BY <2>1
  <2>3. QED
    BY <2>2
<1>3. ASSUME NEW k \in Nat, k \in T
      PROVE  k + 1 \in T
  <2>1. PICK it : Upto(it, k)
    <3> HIDE DEF Upto
    <3> QED BY <1>3
  <2> DEFINE more == [t \in SUBSET S |-> IF Cardinality(t) = k + 1 THEN Next(it, t) ELSE it[t]]
  <2>2. ASSUME NEW t \in SUBSET S, Cardinality(t) <= k + 1
        PROVE  more[t] = Next(more, t)
    <3>1. CASE t = {}
      <4>1. Cardinality({}) = 0 /\ {} \in SUBSET S /\ 0 <= k
        BY FS_EmptySet
      <4>2. it[{}] = 0
        BY <2>1, <4>1
      <4>3. more[{}] = it[{}]
        BY <4>1
      <4>4. QED
        BY <3>1, <4>2, <4>3
    <3>2. CASE t # {}
      <4> DEFINE less == t \ {Some(t)}
      <4>1. /\ less \in SUBSET S /\ Cardinality(t) \in Nat
            /\ Cardinality(less) = Cardinality(t) - 1
        BY <3>2, SomeElement
      <4> HIDE DEF less
      <4>2. more[less] = it[less]
        BY <2>2, <4>1
      <4>3. more[t] = f[Some(t)] + it[less]
        <5>1. Next(it, t) = f[Some(t)] + it[less]
          BY <3>2 DEF less
        <5>2. CASE Cardinality(t) = k + 1
          BY <5>1, <5>2
        <5>3. CASE Cardinality(t) # k + 1
          <6>1. Cardinality(t) <= k
            BY <2>2, <4>1, <5>3
          <6>2. it[t] = Next(it, t)
            BY <2>1, <6>1
          <6>3. QED
            BY <5>1, <5>3, <6>2
        <5>4. QED
          BY <5>2, <5>3
      <4>4. QED
        BY <3>2, <4>2, <4>3 DEF less
    <3>3. QED
      BY <3>1, <3>2
  <2>3. Upto(more, k + 1)
    BY <2>2
  <2>4. QED
    <3> HIDE DEF Upto, more
    <3> QED BY <2>3
<1>4. Nat \subseteq T
  <2> HIDE DEF T
  <2> QED BY <1>2, <1>3, NatSetInduction
<1>5. PICK it : Upto(it, Cardinality(S))
  <2>1. Cardinality(S) \in T
    BY <1>4, FS_CardinalityType
  <2>2. QED
    BY <2>1
<1> DEFINE sum == [t \in SUBSET S |-> it[t]]
<1>6. ASSUME NEW t \in SUBSET S
      PROVE  sum[t] = Next(sum, t)
  <2>1. Cardinality(t) <= Cardinality(S)
    BY FS_Subset
  <2>2. it[t] = Next(it, t)
    BY <1>5, <2>1
  <2>3. t \ {Some(t)} \in SUBSET S
    OBVIOUS
  <2>4. QED
    BY <2>2, <2>3
<1>7. IsSum(sum, f, S)
  BY <1>6 DEF IsSum
<1>8. QED
  BY <1>7

\* The sum is what any such function has at S.
LEMMA SumUnique ==
  ASSUME NEW S, IsFiniteSet(S), NEW f, NEW b, IsSum(b, f, S)
  PROVE  b[S] = SumOf(f, S)
<1>1. PICK a : IsSum(a, f, S) /\ SumOf(f, S) = a[S]
  BY SumExists DEF SumOf
<1> DEFINE U == {t \in SUBSET S : a[t] = b[t]}
<1>2. {} \in U
  BY <1>1 DEF IsSum
<1>3. ASSUME NEW t \in SUBSET S, t # {}, t \ {Some(t)} \in U
      PROVE  t \in U
  <2>1. a[t] = f[Some(t)] + a[t \ {Some(t)}]
    BY <1>1, <1>3 DEF IsSum
  <2>2. b[t] = f[Some(t)] + b[t \ {Some(t)}]
    BY <1>3 DEF IsSum
  <2>3. QED
    BY <1>3, <2>1, <2>2
<1>4. SUBSET S \subseteq U
  <2> HIDE DEF U
  <2> QED BY <1>2, <1>3, SubsetInduction
<1>5. S \in U
  BY <1>4
<1>6. QED
  BY <1>1, <1>5

\* Sums of integers keep the order of their terms, strictly so where one differs.
LEMMA SumMonotone ==
  ASSUME NEW S, IsFiniteSet(S), NEW f \in [S -> Int], NEW g \in [S -> Int],
         \A x \in S : f[x] <= g[x]
  PROVE  /\ SumOf(f, S) \in Int /\ SumOf(g, S) \in Int
         /\ SumOf(f, S) <= SumOf(g, S)
         /\ SumOf(f, S) = SumOf(g, S) => f = g
<1>1. PICK a : IsSum(a, f, S) /\ SumOf(f, S) = a[S]
  BY SumExists DEF SumOf
<1>2. PICK b : IsSum(b, g, S) /\ SumOf(g, S) = b[S]
  BY SumExists DEF SumOf
<1> DEFINE U == {t \in SUBSET S : /\ a[t] \in Int /\ b[t] \in Int /\ a[t] <= b[t]
                                  /\ a[t] = b[t] => \A x \in t : f[x] = g[x]}
<1>3. {} \in U
  BY <1>1, <1>2 DEF IsSum
<1>4. ASSUME NEW t \in SUBSET S, t # {}, t \ {Some(t)} \in U
      PROVE  t \in U
  <2> DEFINE x == Some(t)
             less == t \ {x}
  <2>1. x \in t /\ less \in SUBSET S
    BY <1>4, SomeElement
  <2>2. a[t] = f[x] + a[less] /\ b[t] = g[x] + b[less]
    BY <1>1, <1>2, <1>4 DEF IsSum
  <2>3. /\ a[less] \in Int /\ b[less] \in Int /\ a[less] <= b[less]
        /\ a[less] = b[less] => \A y \in less : f[y] = g[y]
    BY <1>4
  <2>4. f[x] \in Int /\ g[x] \in Int /\ f[x] <= g[x]
    BY <2>1
  <2> HIDE DEF x, less
  <2>5. /\ a[t] \in Int /\ b[t] \in Int /\ a[t] <= b[t]
        /\ a[t] = b[t] => a[less] = b[less] /\ f[x] = g[x]
    BY <2>2, <2>3, <2>4
  <2>6. \A y \in t : y = x \/ y \in less
    BY DEF less
  <2>7. QED
    BY <2>3, <2>5, <2>6
<1>5. SUBSET S \subseteq U
  <2> HIDE DEF U
  <2> QED BY <1>3, <1>4, SubsetInduction
<1>6. S \in U
  BY <1>5
<1>7. QED
  BY <1>1, <1>2, <1>6

\* A sum of zeros is zero.
LEMMA SumOfZeros ==
  ASSUME NEW S, IsFiniteSet(S), NEW f, \A x \in S : f[x] = 0
  PROVE  SumOf(f, S) = 0
<1>1. PICK a : IsSum(a, f, S) /\ SumOf(f, S) = a[S]
  BY SumExists DEF SumOf
<1> DEFINE U == {t \in SUBSET S : a[t] = 0}
<1>2. {} \in U
  BY <1>1 DEF IsSum
<1>3. ASSUME NEW t \in SUBSET S, t # {}, t \ {Some(t)} \in U
      PROVE  t \in U
  <2>1. Some(t) \in S
    BY <1>3, SomeElement
  <2>2. a[t] = f[Some(t)] + a[t \ {Some(t)}]
    BY <1>1, <1>3 DEF IsSum
  <2>3. QED
    BY <1>3, <2>1, <2>2
<1>4. SUBSET S \subseteq U
  <2> HIDE DEF U
  <2> QED BY <1>2, <1>3, SubsetInduction
<1>5. S \in U
  BY <1>4
<1>6. QED
  BY <1>1, <1>5

\* A factor goes through the sum.
LEMMA SumOfScaled ==
  ASSUME NEW S, IsFiniteSet(S), NEW f \in [S -> Int], NEW g, NEW c \in Int,
         \A x \in S : g[x] = c * f[x]
  PROVE  SumOf(f, S) \in Int /\ SumOf(g, S) = c * SumOf(f, S)
<1>1. PICK a : IsSum(a, f, S) /\ SumOf(f, S) = a[S]
  BY SumExists DEF SumOf
<1>2. PICK b : IsSum(b, g, S) /\ SumOf(g, S) = b[S]
  BY SumExists DEF SumOf
<1> DEFINE U == {t \in SUBSET S : a[t] \in Int /\ b[t] = c * a[t]}
<1>3. {} \in U
  BY <1>1, <1>2 DEF IsSum
<1>4. ASSUME NEW t \in SUBSET S, t # {}, t \ {Some(t)} \in U
      PROVE  t \in U
  <2> DEFINE x == Some(t)
             less == t \ {x}
  <2>1. x \in S
    BY <1>4, SomeElement
  <2>2. a[t] = f[x] + a[less] /\ b[t] = g[x] + b[less]
    BY <1>1, <1>2, <1>4 DEF IsSum
  <2>3. a[less] \in Int /\ b[less] = c * a[less]
    BY <1>4
  <2>4. f[x] \in Int /\ g[x] = c * f[x]
    BY <2>1
  <2> HIDE DEF x, less
  <2>5. c * (f[x] + a[less]) = c * f[x] + c * a[less]
    BY <2>3, <2>4
  <2>6. a[t] \in Int /\ b[t] = c * a[t]
    BY <2>2, <2>3, <2>4, <2>5
  <2>7. QED
    BY <2>6
<1>5. SUBSET S \subseteq U
  <2> HIDE DEF U
  <2> QED BY <1>3, <1>4, SubsetInduction
<1>6. S \in U
  BY <1>5
<1>7. QED
  BY <1>1, <1>2, <1>6

\* The sum of a single term is that term.
LEMMA SumOfOne ==
  ASSUME NEW x, NEW f, f[x] \in Int
  PROVE  SumOf(f, {x}) = f[x]
<1>1. IsFiniteSet({x})
  BY FS_Singleton
<1>2. PICK a : IsSum(a, f, {x}) /\ SumOf(f, {x}) = a[{x}]
  BY <1>1, SumExists DEF SumOf
<1>3. Some({x}) = x /\ {x} \ {x} = {} /\ {x} # {}
  BY DEF Some
<1>4. {} \in SUBSET {x} /\ {x} \in SUBSET {x}
  OBVIOUS
<1>5. a[{}] = 0
  BY <1>2, <1>4 DEF IsSum
<1>6. a[{x}] = f[x] + a[{x} \ {x}]
  BY <1>2, <1>3, <1>4 DEF IsSum
<1>7. QED
  BY <1>2, <1>3, <1>5, <1>6

\* A sum of naturals is one, and no term is more than the sum.
LEMMA TermsOfSum ==
  ASSUME NEW S, IsFiniteSet(S), NEW f \in [S -> Nat]
  PROVE  SumOf(f, S) \in Nat /\ \A x \in S : f[x] <= SumOf(f, S)
<1>1. PICK a : IsSum(a, f, S) /\ SumOf(f, S) = a[S]
  BY SumExists DEF SumOf
<1> DEFINE U == {t \in SUBSET S : a[t] \in Nat /\ \A y \in t : f[y] <= a[t]}
<1>2. {} \in U
  BY <1>1 DEF IsSum
<1>3. ASSUME NEW t \in SUBSET S, t # {}, t \ {Some(t)} \in U
      PROVE  t \in U
  <2>1. Some(t) \in t
    BY <1>3, SomeElement
  <2>2. a[t] = f[Some(t)] + a[t \ {Some(t)}]
    BY <1>1, <1>3 DEF IsSum
  <2>3. a[t \ {Some(t)}] \in Nat /\ f[Some(t)] \in Nat
    BY <1>3, <2>1
  <2>4. ASSUME NEW y \in t
        PROVE  f[y] <= a[t]
    <3>1. f[y] \in Nat
      OBVIOUS
    <3>2. CASE y = Some(t)
      BY <2>2, <2>3, <3>2
    <3>3. CASE y # Some(t)
      <4>1. f[y] <= a[t \ {Some(t)}]
        BY <1>3, <3>3
      <4>2. QED
        BY <2>2, <2>3, <3>1, <4>1
    <3>4. QED
      BY <3>2, <3>3
  <2>5. a[t] \in Nat
    BY <2>2, <2>3
  <2>6. QED
    BY <2>4, <2>5
<1>4. SUBSET S \subseteq U
  <2> HIDE DEF U
  <2> QED BY <1>2, <1>3, SubsetInduction
<1>5. S \in U
  BY <1>4
<1>6. QED
  BY <1>1, <1>5

\* Terms of c at most, but for one that may have e more: so does the sum.
LEMMA SumBounded ==
  ASSUME NEW S, IsFiniteSet(S), NEW f \in [S -> Int], NEW c \in Nat, NEW e \in Nat, NEW z,
         \A x \in S : f[x] <= IF x = z THEN c + e ELSE c
  PROVE  SumOf(f, S) <= c * Cardinality(S) + e
<1>1. PICK a : IsSum(a, f, S) /\ SumOf(f, S) = a[S]
  BY SumExists DEF SumOf
<1> DEFINE Bound(t) == c * Cardinality(t) + (IF z \in t THEN e ELSE 0)
           U == {t \in SUBSET S : a[t] \in Int /\ a[t] <= Bound(t)}
<1>2. {} \in U
  <2>1. a[{}] = 0 /\ Cardinality({}) = 0
    BY <1>1, FS_EmptySet DEF IsSum
  <2>2. QED
    BY <2>1
<1>3. ASSUME NEW t \in SUBSET S, t # {}, t \ {Some(t)} \in U
      PROVE  t \in U
  <2> DEFINE x == Some(t)
             less == t \ {x}
             k == Cardinality(t)
  <2>1. x \in S /\ x \in t /\ x \notin less /\ k \in Nat /\ Cardinality(less) = k - 1
    BY <1>3, SomeElement
  <2>2. a[t] = f[x] + a[less]
    BY <1>1, <1>3 DEF IsSum
  <2>3. a[less] \in Int /\ a[less] <= c * (k - 1) + (IF z \in less THEN e ELSE 0)
    BY <1>3, <2>1
  <2>4. f[x] \in Int /\ f[x] <= IF x = z THEN c + e ELSE c
    BY <2>1
  <2>5. z \in t <=> z = x \/ z \in less
    BY <2>1
  <2>6. c * (k - 1) + c = c * k /\ c * k \in Int
    BY <2>1
  <2>7. a[t] \in Int /\ a[t] <= c * k + (IF z \in t THEN e ELSE 0)
    <3> HIDE DEF x, less, k
    <3>1. c * (k - 1) \in Int
      BY <2>1
    <3>2. CASE x = z
      BY <2>1, <2>2, <2>3, <2>4, <2>5, <2>6, <3>1, <3>2
    <3>3. CASE x # z
      BY <2>2, <2>3, <2>4, <2>5, <2>6, <3>1, <3>3
    <3>4. QED
      BY <3>2, <3>3
  <2>8. QED
    BY <2>7
<1>4. SUBSET S \subseteq U
  <2> HIDE DEF U
  <2> QED BY <1>2, <1>3, SubsetInduction
<1>5. S \in U
  BY <1>4
<1>6. Cardinality(S) \in Nat
  BY FS_CardinalityType
<1>7. QED
  BY <1>1, <1>5, <1>6

-------------------------------------------------------------------------------
(***************************************************************************)
(* Rounding.                                                               *)
(***************************************************************************)
\* The quotient and the remainder make up the number.
LEMMA Quotient ==
  ASSUME NEW w \in Nat, NEW n \in Nat \ {0}
  PROVE  /\ w \div n \in Nat /\ w % n \in 0..n-1
         /\ w = n * (w \div n) + (w % n)
  OBVIOUS

\* Rounding keeps the order of what is an even number or more apart.
LEMMA RoundingKeepsOrder ==
  ASSUME NEW n \in Nat \ {0}, NEW a \in Nat, NEW b \in Nat, NEW d \in Nat, d % 2 = 0,
         a >= b + d * n
  PROVE  Rounded(a, n) >= Rounded(b, n) + d
<1> DEFINE la == a \div n
           ra == a % n
           lb == b \div n
           rb == b % n
<1>1. /\ la \in Nat /\ ra \in 0..n-1 /\ a = n * la + ra
      /\ lb \in Nat /\ rb \in 0..n-1 /\ b = n * lb + rb
  BY Quotient
<1>2. /\ Rounded(a, n) = IF 2 * ra > n \/ (2 * ra = n /\ la % 2 = 1) THEN la + 1 ELSE la
      /\ Rounded(b, n) = IF 2 * rb > n \/ (2 * rb = n /\ lb % 2 = 1) THEN lb + 1 ELSE lb
  BY DEF Rounded
<1> HIDE DEF la, ra, lb, rb
<1>3. n * la + ra >= n * (lb + d) + rb
  <2>1. n * (lb + d) = n * lb + d * n
    BY <1>1
  <2>2. QED
    BY <1>1, <2>1
<1>4. la >= lb + d
  <2>1. SUFFICES ASSUME la + 1 <= lb + d PROVE FALSE
    BY <1>1
  <2>2. n * (la + 1) <= n * (lb + d)
    BY <1>1, <2>1
  <2>3. n * (la + 1) = n * la + n
    BY <1>1
  <2>4. n * la \in Nat /\ n * (lb + d) \in Nat
    BY <1>1
  <2>5. QED
    BY <1>1, <1>3, <2>2, <2>3, <2>4
<1>5. CASE la = lb + d
  <2>1. n * la \in Nat /\ n * la = n * (lb + d)
    BY <1>1, <1>5
  <2>2. ra >= rb
    BY <1>1, <1>3, <2>1
  <2>3. la % 2 = lb % 2
    BY <1>1, <1>5
  <2>4. QED
    BY <1>1, <1>2, <1>5, <2>2, <2>3
<1>6. CASE la >= lb + d + 1
  BY <1>1, <1>2, <1>6
<1>7. QED
  BY <1>1, <1>4, <1>5, <1>6

\* Rounding moves a quotient by a half at most.
LEMMA RoundingMovesByAHalf ==
  ASSUME NEW n \in Nat \ {0}, NEW a \in Nat
  PROVE  /\ Rounded(a, n) \in Nat
         /\ 2 * (n * Rounded(a, n)) <= 2 * a + n
         /\ 2 * (n * Rounded(a, n)) >= 2 * a - n
<1> DEFINE l == a \div n
           r == a % n
<1>1. l \in Nat /\ r \in 0..n-1 /\ a = n * l + r
  BY Quotient
<1>2. Rounded(a, n) = IF 2 * r > n \/ (2 * r = n /\ l % 2 = 1) THEN l + 1 ELSE l
  BY DEF Rounded
<1> HIDE DEF l, r
<1>3. n * (l + 1) = n * l + n /\ n * l \in Nat
  BY <1>1
<1>4. CASE Rounded(a, n) = l + 1 /\ 2 * r >= n
  BY <1>1, <1>3, <1>4
<1>5. CASE Rounded(a, n) = l /\ 2 * r <= n
  BY <1>1, <1>3, <1>5
<1>6. QED
  BY <1>1, <1>2, <1>4, <1>5

===============================================================================
