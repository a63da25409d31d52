-------------------------- MODULE FiniteInduction ---------------------------
(* What the proofs need by induction, over finite sets and over sequences:   *)
(* elements that are the smallest and the largest, sums (SumFunctionOnSet of *)
(* Functions) and folds (FoldLeft of SequencesExt).  The folds of the        *)
(* community modules choose a recursive function on the subsets of a set;    *)
(* what they compute is proved by induction on the subsets of a finite set,  *)
(* which follows from the well-foundedness of the strict subset ordering.    *)
(* Induction is stated with a set, the elements it is true of, because no    *)
(* prover instantiates an operator.                                          *)
EXTENDS Integers, FiniteSetTheorems, SequenceTheorems, SequencesExt, TLAPS

\* The step of a fold, with what it reads besides.  A module that uses the lemmas
\* on folds instantiates this one for each operator it folds.
CONSTANT Op(_, _, _)

\* A set T that has every subset of S whose own strict subsets it has, has S.
LEMMA SubsetInduction ==
  ASSUME NEW S, IsFiniteSet(S), NEW T,
         \A U \in SUBSET S : (\A V \in SUBSET U : V # U => V \in T) => U \in T
  PROVE  S \in T
<1> SUFFICES ASSUME S \notin T PROVE FALSE
  OBVIOUS
<1> DEFINE B == (SUBSET S) \ T
<1>1. B # {} /\ B \subseteq FiniteSubsetsOf(S)
  BY FS_FiniteSubsetsOfFinite
<1>2. PICK U \in B : \A V \in B : <<V, U>> \notin StrictSubsetOrdering(S)
  <2> HIDE DEF B
  <2> QED
    BY <1>1, FS_StrictSubsetOrderingWellFounded, WFMin
<1>3. \A V \in SUBSET U : V # U => V \in T
  BY <1>2 DEF StrictSubsetOrdering
<1> QED
  BY <1>3

LEMMA ExtremesExist ==
  ASSUME NEW S, IsFiniteSet(S), S # {}, \A x \in S : x \in Int
  PROVE  \E l, m \in S : \A x \in S : l <= x /\ x <= m
<1> DEFINE T == {u \in SUBSET S : u = {} \/ \E l, m \in u : \A x \in u : l <= x /\ x <= m}
<1>1. ASSUME NEW u \in SUBSET S, \A v \in SUBSET u : v # u => v \in T PROVE u \in T
  <2>1. ASSUME NEW a \in u PROVE \E l, m \in u : \A x \in u : l <= x /\ x <= m
    <3>1. CASE u = {a}
      BY <3>1
    <3>2. CASE u # {a}
      <4>1. u \ {a} \in T /\ u \ {a} # {}
        BY <1>1, <2>1, <3>2
      <4> PICK l, m \in u \ {a} : \A x \in u \ {a} : l <= x /\ x <= m
        BY <4>1
      <4>2. a \in Int /\ l \in Int /\ m \in Int /\ \A x \in u : x \in Int
        OBVIOUS
      <4>3. \E k \in u : \A x \in u : k <= x
        <5>1. CASE l <= a
          BY <5>1
        <5>2. CASE a < l
          BY <4>2, <5>2
        <5> QED
          BY <4>2, <5>1, <5>2
      <4>4. \E k \in u : \A x \in u : x <= k
        <5>1. CASE a <= m
          BY <5>1
        <5>2. CASE m < a
          BY <4>2, <5>2
        <5> QED
          BY <4>2, <5>1, <5>2
      <4> QED
        BY <4>3, <4>4
    <3> QED
      BY <3>1, <3>2
  <2> QED
    BY <2>1
<1>2. S \in T
  <2> HIDE DEF T
  <2> QED
    BY <1>1, SubsetInduction
<1> QED
  BY <1>2

LEMMA MaxExists ==
  ASSUME NEW S, IsFiniteSet(S), S # {}, \A x \in S : x \in Int
  PROVE  \E m \in S : \A x \in S : x <= m
BY ExtremesExist
-----------------------------------------------------------------------------
(* The recursive function behind a sum: it is there, and unique.            *)

First(s) == CHOOSE x \in s : TRUE
IsSum(g, f, S) ==
  g = [s \in SUBSET S |-> IF s = {} THEN 0 ELSE f[First(s)] + g[s \ {First(s)}]]

Sum(f, S) == (CHOOSE g : IsSum(g, f, S))[S]

LEMMA SumIs ==
  ASSUME NEW f, NEW S
  PROVE  SumFunctionOnSet(f, S) = Sum(f, S)
BY DEF Sum, SumFunctionOnSet, FoldFunctionOnSet, MapThenFoldSet, IsSum, First

LEMMA FirstIn == ASSUME NEW s, s # {} PROVE First(s) \in s
BY DEF First

LEMMA SumAt ==
  ASSUME NEW f, NEW S, NEW g, IsSum(g, f, S)
  PROVE  /\ g[{}] = 0
         /\ \A s \in SUBSET S : s # {} => g[s] = f[First(s)] + g[s \ {First(s)}]
BY DEF IsSum

LEMMA SumUnique ==
  ASSUME NEW f, NEW S, NEW T, NEW g, NEW h, IsSum(g, f, S), IsSum(h, f, T),
         NEW u, u \subseteq S, u \subseteq T, IsFiniteSet(u)
  PROVE  g[u] = h[u]
<1> DEFINE Same == {s \in SUBSET u : g[s] = h[s]}
<1>1. ASSUME NEW s \in SUBSET u, \A v \in SUBSET s : v # s => v \in Same PROVE s \in Same
  <2>0. s \in SUBSET S /\ s \in SUBSET T
    OBVIOUS
  <2>1. CASE s = {}
    <3>1. g[s] = 0
      BY <2>0, <2>1, SumAt
    <3>2. h[s] = 0
      BY <2>0, <2>1, SumAt
    <3> QED
      BY <3>1, <3>2
  <2>2. CASE s # {}
    <3>1. First(s) \in s
      BY <2>2, FirstIn
    <3>2. g[s \ {First(s)}] = h[s \ {First(s)}]
      BY <1>1, <3>1
    <3>3. g[s] = f[First(s)] + g[s \ {First(s)}]
      BY <2>0, <2>2, SumAt
    <3>4. h[s] = f[First(s)] + h[s \ {First(s)}]
      BY <2>0, <2>2, SumAt
    <3> QED
      BY <3>2, <3>3, <3>4
  <2> QED
    BY <2>1, <2>2
<1>2. u \in Same
  <2> HIDE DEF Same
  <2> QED
    BY <1>1, SubsetInduction
<1> QED
  BY <1>2

LEMMA SumExists ==
  ASSUME NEW f, NEW S, IsFiniteSet(S)
  PROVE  \E g : IsSum(g, f, S)
<1> DEFINE Good == {s \in SUBSET S : \E g : IsSum(g, f, s)}
<1>1. ASSUME NEW u \in SUBSET S, \A v \in SUBSET u : v # u => v \in Good PROVE u \in Good
  <2> DEFINE G(v) == CHOOSE g : IsSum(g, f, v)
             new == [s \in SUBSET u |-> IF s = {} THEN 0
                                        ELSE f[First(s)] + Sum(f, s \ {First(s)})]
  <2>1. \A v \in SUBSET u : v # u => IsSum(G(v), f, v)
    BY <1>1
  <2>2. \A v \in SUBSET u : IsFiniteSet(v)
    BY FS_Subset
  <2>3. ASSUME NEW t \in SUBSET u, t # u PROVE new[t] = Sum(f, t)
    <3>1. IsSum(G(t), f, t) /\ Sum(f, t) = G(t)[t]
      BY <2>1, <2>3 DEF Sum
    <3>2. CASE t = {}
      <4>1. G(t)[t] = 0
        BY <3>1, <3>2, SumAt
      <4> QED
        BY <3>1, <3>2, <4>1
    <3>3. CASE t # {}
      <4> DEFINE w == t \ {First(t)}
      <4>1. First(t) \in t
        BY <3>3, FirstIn
      <4>2. w \in SUBSET u /\ w # u /\ w \subseteq t
        BY <4>1
      <4>3. IsSum(G(w), f, w) /\ Sum(f, w) = G(w)[w]
        BY <2>1, <4>2 DEF Sum
      <4>4. G(t)[w] = G(w)[w]
        <5> HIDE DEF G, w
        <5> QED
          BY <2>2, <3>1, <4>2, <4>3, SumUnique
      <4>5. G(t)[t] = f[First(t)] + G(t)[w]
        <5> HIDE DEF G
        <5> QED
          BY <3>1, <3>3, SumAt
      <4>6. new[t] = f[First(t)] + Sum(f, w)
        BY <3>3
      <4> QED
        BY <3>1, <4>3, <4>4, <4>5, <4>6
    <3> QED
      BY <3>2, <3>3
  <2>4. IsSum(new, f, u)
    <3>1. ASSUME NEW s \in SUBSET u, s # {}
          PROVE  new[s \ {First(s)}] = Sum(f, s \ {First(s)})
      <4>1. First(s) \in s
        BY <3>1, FirstIn
      <4> QED
        BY <2>3, <4>1
    <3>2. new = [s \in SUBSET u |-> IF s = {} THEN 0 ELSE f[First(s)] + new[s \ {First(s)}]]
      BY <3>1
    <3> QED
      BY <3>2 DEF IsSum
  <2> QED
    BY <2>4
<1>2. S \in Good
  <2> HIDE DEF Good
  <2> QED
    BY <1>1, SubsetInduction
<1> QED
  BY <1>2

-----------------------------------------------------------------------------
(* What the proofs use.                                                     *)

LEMMA SumEmpty == ASSUME NEW f PROVE SumFunctionOnSet(f, {}) = 0
<1>1. \E g : IsSum(g, f, {})
  BY SumExists, FS_EmptySet
<1> DEFINE g == CHOOSE g : IsSum(g, f, {})
<1>2. IsSum(g, f, {})
  BY <1>1
<1> HIDE DEF g
<1>3. g[{}] = 0
  BY <1>2, SumAt
<1>4. SumFunctionOnSet(f, {}) = g[{}]
  BY SumIs DEF g, Sum
<1> QED
  BY <1>3, <1>4

LEMMA SumPick ==
  ASSUME NEW f, NEW S, IsFiniteSet(S), S # {}
  PROVE  SumFunctionOnSet(f, S) = f[First(S)] + SumFunctionOnSet(f, S \ {First(S)})
<1> DEFINE T == S \ {First(S)}
           g == CHOOSE k : IsSum(k, f, S)
           h == CHOOSE k : IsSum(k, f, T)
<1>1. IsFiniteSet(T)
  BY FS_Subset
<1>2. IsSum(g, f, S)
  BY SumExists
<1>3. IsSum(h, f, T)
  <2> HIDE DEF T
  <2> QED
    BY <1>1, SumExists
<1>4. SumFunctionOnSet(f, S) = g[S]
  BY SumIs DEF Sum
<1>5. SumFunctionOnSet(f, T) = h[T]
  BY SumIs DEF Sum
<1>6. T \subseteq S
  OBVIOUS
<1>7. g[S] = f[First(S)] + g[T]
  <2> HIDE DEF g
  <2> QED
    BY <1>2, SumAt
<1>8. g[T] = h[T]
  <2> HIDE DEF g, h, T
  <2> QED
    BY <1>1, <1>2, <1>3, <1>6, SumUnique
<1> QED
  BY <1>4, <1>5, <1>7, <1>8

LEMMA SumNat ==
  ASSUME NEW f, NEW S, IsFiniteSet(S), \A x \in S : f[x] \in Nat
  PROVE  SumFunctionOnSet(f, S) \in Nat
<1> DEFINE Good == {s \in SUBSET S : SumFunctionOnSet(f, s) \in Nat}
<1>1. ASSUME NEW u \in SUBSET S, \A v \in SUBSET u : v # u => v \in Good PROVE u \in Good
  <2>1. CASE u = {}
    BY <2>1, SumEmpty
  <2>2. CASE u # {}
    <3>1. First(u) \in u /\ IsFiniteSet(u)
      BY <2>2, FirstIn, FS_Subset
    <3>2. SumFunctionOnSet(f, u \ {First(u)}) \in Nat
      BY <1>1, <3>1
    <3> QED
      BY <2>2, <3>1, <3>2, SumPick
  <2> QED
    BY <2>1, <2>2
<1>2. S \in Good
  <2> HIDE DEF Good
  <2> QED
    BY <1>1, SubsetInduction
<1> QED
  BY <1>2

\* Any element can be taken out of a sum, whichever the fold takes first.
LEMMA SumSplit ==
  ASSUME NEW f, NEW S, IsFiniteSet(S), \A y \in S : f[y] \in Nat, NEW x \in S
  PROVE  SumFunctionOnSet(f, S) = f[x] + SumFunctionOnSet(f, S \ {x})
<1> DEFINE Good == {s \in SUBSET S : \A y \in s :
                      SumFunctionOnSet(f, s) = f[y] + SumFunctionOnSet(f, s \ {y})}
<1>1. ASSUME NEW u \in SUBSET S, \A v \in SUBSET u : v # u => v \in Good PROVE u \in Good
  <2> SUFFICES ASSUME NEW y \in u
               PROVE  SumFunctionOnSet(f, u) = f[y] + SumFunctionOnSet(f, u \ {y})
    OBVIOUS
  <2> DEFINE a == First(u)
             w == (u \ {a}) \ {y}
  <2>1. a \in u /\ IsFiniteSet(u)
    BY FirstIn, FS_Subset
  <2>2. SumFunctionOnSet(f, u) = f[a] + SumFunctionOnSet(f, u \ {a})
    BY <2>1, SumPick
  <2> HIDE DEF a
  <2>3. CASE y = a
    BY <2>2, <2>3
  <2>4. CASE y # a
    <3>1. w = (u \ {y}) \ {a} /\ y \in u \ {a} /\ a \in u \ {y}
      BY <2>1, <2>4
    <3>2. SumFunctionOnSet(f, u \ {a}) = f[y] + SumFunctionOnSet(f, w)
      BY <1>1, <2>1, <3>1
    <3>3. SumFunctionOnSet(f, u \ {y}) = f[a] + SumFunctionOnSet(f, w)
      BY <1>1, <2>1, <3>1
    <3>4. f[a] \in Nat /\ f[y] \in Nat /\ SumFunctionOnSet(f, w) \in Nat
      <4>1. IsFiniteSet(w) /\ w \subseteq S
        BY <2>1, FS_Subset
      <4> QED
        BY <2>1, <4>1, SumNat
    <3> QED
      BY <2>2, <3>2, <3>3, <3>4
  <2> QED
    BY <2>3, <2>4
<1>2. S \in Good
  <2> HIDE DEF Good
  <2> QED
    BY <1>1, SubsetInduction
<1> QED
  BY <1>2

LEMMA SumMono ==
  ASSUME NEW f, NEW g, NEW S, IsFiniteSet(S),
         \A x \in S : f[x] \in Nat /\ g[x] \in Nat /\ f[x] <= g[x]
  PROVE  SumFunctionOnSet(f, S) <= SumFunctionOnSet(g, S)
<1> DEFINE Good == {s \in SUBSET S : SumFunctionOnSet(f, s) <= SumFunctionOnSet(g, s)}
<1>1. ASSUME NEW u \in SUBSET S, \A v \in SUBSET u : v # u => v \in Good PROVE u \in Good
  <2>1. CASE u = {}
    BY <2>1, SumEmpty
  <2>2. CASE u # {}
    <3> DEFINE a == First(u)
    <3>1. a \in u /\ IsFiniteSet(u)
      BY <2>2, FirstIn, FS_Subset
    <3>2. /\ SumFunctionOnSet(f, u) = f[a] + SumFunctionOnSet(f, u \ {a})
          /\ SumFunctionOnSet(g, u) = g[a] + SumFunctionOnSet(g, u \ {a})
      BY <2>2, <3>1, SumPick
    <3> HIDE DEF a
    <3>3. SumFunctionOnSet(f, u \ {a}) <= SumFunctionOnSet(g, u \ {a})
      BY <1>1, <3>1
    <3>4. IsFiniteSet(u \ {a}) /\ u \ {a} \subseteq S
      BY <3>1, FS_Subset
    <3>5. SumFunctionOnSet(f, u \ {a}) \in Nat /\ SumFunctionOnSet(g, u \ {a}) \in Nat
      BY <3>4, SumNat
    <3> QED
      BY <3>1, <3>2, <3>3, <3>5
  <2> QED
    BY <2>1, <2>2
<1>2. S \in Good
  <2> HIDE DEF Good
  <2> QED
    BY <1>1, SubsetInduction
<1> QED
  BY <1>2

LEMMA SumSame ==
  ASSUME NEW f, NEW g, NEW S, IsFiniteSet(S), \A x \in S : f[x] \in Nat /\ f[x] = g[x]
  PROVE  SumFunctionOnSet(f, S) = SumFunctionOnSet(g, S)
<1>1. SumFunctionOnSet(f, S) \in Nat /\ SumFunctionOnSet(g, S) \in Nat
  BY SumNat
<1>2. SumFunctionOnSet(f, S) <= SumFunctionOnSet(g, S)
  BY SumMono
<1>3. SumFunctionOnSet(g, S) <= SumFunctionOnSet(f, S)
  BY SumMono
<1> QED
  BY <1>1, <1>2, <1>3

\* A part of a sum is no more than the whole.
LEMMA SumPart ==
  ASSUME NEW f, NEW S, IsFiniteSet(S), \A x \in S : f[x] \in Nat, NEW T \in SUBSET S
  PROVE  SumFunctionOnSet(f, T) <= SumFunctionOnSet(f, S)
<1> DEFINE Good == {s \in SUBSET S : \A t \in SUBSET s :
                      SumFunctionOnSet(f, t) <= SumFunctionOnSet(f, s)}
<1>1. ASSUME NEW u \in SUBSET S, \A v \in SUBSET u : v # u => v \in Good PROVE u \in Good
  <2> SUFFICES ASSUME NEW t \in SUBSET u
               PROVE  SumFunctionOnSet(f, t) <= SumFunctionOnSet(f, u)
    OBVIOUS
  <2>0. IsFiniteSet(u) /\ IsFiniteSet(t)
    BY FS_Subset
  <2>1. CASE t = u
    BY <2>0, <2>1, SumNat
  <2>2. CASE t # u
    <3> PICK a \in u : a \notin t
      BY <2>2
    <3>1. IsFiniteSet(u \ {a})
      BY <2>0, FS_Subset
    <3>2. SumFunctionOnSet(f, u) = f[a] + SumFunctionOnSet(f, u \ {a})
      BY <2>0, SumSplit
    <3>3. SumFunctionOnSet(f, t) <= SumFunctionOnSet(f, u \ {a})
      BY <1>1
    <3>4. SumFunctionOnSet(f, u \ {a}) \in Nat /\ SumFunctionOnSet(f, t) \in Nat
      BY <2>0, <3>1, SumNat
    <3> QED
      BY <3>2, <3>3, <3>4
  <2> QED
    BY <2>1, <2>2
<1>2. S \in Good
  <2> HIDE DEF Good
  <2> QED
    BY <1>1, SubsetInduction
<1> QED
  BY <1>2
-----------------------------------------------------------------------------
(* Induction on naturals and on sequences.                                  *)

LEMMA CountingUp ==
  ASSUME NEW n \in Nat, NEW T, 0 \in T, \A k \in 0..(n - 1) : k \in T => k + 1 \in T
  PROVE  \A k \in 0..n : k \in T
<1> DEFINE B == {k \in 0..n : k \notin T}
<1> SUFFICES ASSUME B # {} PROVE FALSE
  OBVIOUS
<1>1. IsFiniteSet(B) /\ \A x \in B : x \in Int
  <2>1. IsFiniteSet(0..n)
    BY FS_Interval
  <2> QED
    BY <2>1, FS_Subset
<1>2. PICK k \in B : \A x \in B : k <= x
  <2> HIDE DEF B
  <2> QED
    BY <1>1, ExtremesExist
<1>3. k # 0 /\ k - 1 \in 0..(n - 1) /\ k - 1 \notin B
  BY <1>2
<1> QED
  BY <1>3

LEMMA AppendInduction ==
  ASSUME NEW S, NEW T, <<>> \in T, \A s \in Seq(S), x \in S : s \in T => Append(s, x) \in T
  PROVE  \A s \in Seq(S) : s \in T
<1> SUFFICES ASSUME NEW s \in Seq(S) PROVE s \in T
  OBVIOUS
<1> PICK n \in Nat : n = Len(s)
  BY LenProperties
<1> DEFINE G == {k \in 0..n : SubSeq(s, 1, k) \in T}
<1>0. n \in Nat /\ \A i \in 1..n : s[i] \in S
  BY LenProperties, ElementOfSeq
<1>1. 0 \in G
  <2>1. SubSeq(s, 1, 0) = <<>>
    <3>1. 1 \in Int /\ 0 \in Int /\ 1 > 0
      OBVIOUS
    <3> QED
      BY <3>1, SubSeqEmpty
  <2>2. 0 \in 0..n
    OBVIOUS
  <2> QED
    BY <2>1, <2>2
<1>2. ASSUME NEW k \in 0..(n - 1), k \in G PROVE k + 1 \in G
  <2>1. k \in Nat /\ k + 1 \in 1..n /\ k + 1 <= n
    BY <1>0
  <2>2. SubSeq(s, 1, k) \in Seq(S) /\ SubSeq(s, 1, k) \in T
    BY <1>0, <1>2, <2>1, SubSeqProperties
  <2>3. SubSeq(s, 1, k + 1) = SubSeq(s, 1, k) \o <<s[k + 1]>>
    <3>1. 1 \in 1..Len(s) /\ k + 1 \in 1..Len(s) /\ (k + 1) - 1 = k
      BY <2>1
    <3> QED
      BY <3>1, SubSeqRecursiveSecond
  <2>4. SubSeq(s, 1, k + 1) = Append(SubSeq(s, 1, k), s[k + 1])
    BY <1>0, <2>1, <2>2, <2>3, AppendIsConcat
  <2>5. s[k + 1] \in S
    BY <1>0, <2>1
  <2>6. SubSeq(s, 1, k + 1) \in T
    BY <2>2, <2>4, <2>5
  <2>7. k + 1 \in 0..n
    BY <2>1
  <2> QED
    BY <2>6, <2>7
<1>3. \A k \in 0..n : k \in G
  <2> HIDE DEF G
  <2> QED
    BY <1>0, <1>1, <1>2, CountingUp
<1>4. SubSeq(s, 1, n) = s
  BY SubSeqFull
<1>5. n \in 0..n
  OBVIOUS
<1> QED
  BY <1>3, <1>4, <1>5
-----------------------------------------------------------------------------
(* A fold goes from left to right: the function that FoldLeft chooses is     *)
(* there, and what it gives for some of the places is fixed by what the      *)
(* sequence has there.                                                       *)
Fold(p, base, seq) == FoldLeft(LAMBDA a, x : Op(p, a, x), base, seq)

IsFold(g, p, base, seq, S) ==
  g = [s \in SUBSET S |-> IF s = {} THEN base ELSE Op(p, g[s \ {Max(s)}], seq[Max(s)])]
Folded(p, base, seq, S) == (CHOOSE g : IsFold(g, p, base, seq, S))[S]

LEMMA FoldIs ==
  ASSUME NEW p, NEW base, NEW seq
  PROVE  Fold(p, base, seq) = Folded(p, base, seq, DOMAIN seq)
BY DEF Fold, FoldLeft, MapThenFoldSet, IsFold, Folded

LEMMA MaxIn ==
  ASSUME NEW s, IsFiniteSet(s), s # {}, \A x \in s : x \in Int
  PROVE  Max(s) \in s /\ \A x \in s : x <= Max(s)
<1>1. \E m \in s : \A x \in s : m >= x
  BY MaxExists
<1> QED
  BY <1>1 DEF Max

LEMMA FoldAt ==
  ASSUME NEW p, NEW base, NEW seq, NEW S, NEW g, IsFold(g, p, base, seq, S)
  PROVE  /\ g[{}] = base
         /\ \A s \in SUBSET S : s # {} => g[s] = Op(p, g[s \ {Max(s)}], seq[Max(s)])
BY DEF IsFold

LEMMA FoldUnique ==
  ASSUME NEW p, NEW base, NEW e, NEW f, NEW S, NEW T, NEW g, NEW h,
         IsFold(g, p, base, e, S), IsFold(h, p, base, f, T),
         NEW u, u \subseteq S, u \subseteq T, IsFiniteSet(u), \A x \in u : x \in Int /\ e[x] = f[x]
  PROVE  g[u] = h[u]
<1> DEFINE Same == {s \in SUBSET u : g[s] = h[s]}
<1>1. ASSUME NEW s \in SUBSET u, \A v \in SUBSET s : v # s => v \in Same PROVE s \in Same
  <2>0. s \in SUBSET S /\ s \in SUBSET T /\ IsFiniteSet(s)
    BY FS_Subset
  <2>1. CASE s = {}
    <3>1. g[s] = base
      BY <2>0, <2>1, FoldAt
    <3>2. h[s] = base
      BY <2>0, <2>1, FoldAt
    <3> QED
      BY <3>1, <3>2
  <2>2. CASE s # {}
    <3>1. Max(s) \in s
      BY <2>0, <2>2, MaxIn
    <3>2. g[s \ {Max(s)}] = h[s \ {Max(s)}] /\ e[Max(s)] = f[Max(s)]
      BY <1>1, <3>1
    <3>3. g[s] = Op(p, g[s \ {Max(s)}], e[Max(s)])
      BY <2>0, <2>2, FoldAt
    <3>4. h[s] = Op(p, h[s \ {Max(s)}], f[Max(s)])
      BY <2>0, <2>2, FoldAt
    <3> QED
      BY <3>2, <3>3, <3>4
  <2> QED
    BY <2>1, <2>2
<1>2. u \in Same
  <2> HIDE DEF Same
  <2> QED
    BY <1>1, SubsetInduction
<1> QED
  BY <1>2

LEMMA FoldExists ==
  ASSUME NEW p, NEW base, NEW seq, NEW S, IsFiniteSet(S), \A x \in S : x \in Int
  PROVE  \E g : IsFold(g, p, base, seq, S)
<1> DEFINE Good == {s \in SUBSET S : \E g : IsFold(g, p, base, seq, s)}
<1>1. ASSUME NEW u \in SUBSET S, \A v \in SUBSET u : v # u => v \in Good PROVE u \in Good
  <2> DEFINE G(v) == CHOOSE k : IsFold(k, p, base, seq, v)
             new == [s \in SUBSET u |-> IF s = {} THEN base
                       ELSE Op(p, Folded(p, base, seq, s \ {Max(s)}), seq[Max(s)])]
  <2>1. \A v \in SUBSET u : v # u => IsFold(G(v), p, base, seq, v)
    BY <1>1
  <2>2. \A v \in SUBSET u : IsFiniteSet(v) /\ \A x \in v : x \in Int
    BY FS_Subset
  <2>3. ASSUME NEW t \in SUBSET u, t # u PROVE new[t] = Folded(p, base, seq, t)
    <3>1. IsFold(G(t), p, base, seq, t) /\ Folded(p, base, seq, t) = G(t)[t]
      BY <2>1, <2>3 DEF Folded
    <3>2. CASE t = {}
      <4>1. G(t)[t] = base
        BY <3>1, <3>2, FoldAt
      <4> QED
        BY <3>1, <3>2, <4>1
    <3>3. CASE t # {}
      <4> DEFINE w == t \ {Max(t)}
      <4>1. Max(t) \in t
        BY <2>2, <3>3, MaxIn
      <4>2. w \in SUBSET u /\ w # u /\ w \subseteq t
        BY <4>1
      <4>3. IsFold(G(w), p, base, seq, w) /\ Folded(p, base, seq, w) = G(w)[w]
        BY <2>1, <4>2 DEF Folded
      <4>4. G(t)[w] = G(w)[w]
        <5> HIDE DEF G, w
        <5> QED
          BY <2>2, <3>1, <4>2, <4>3, FoldUnique
      <4>5. G(t)[t] = Op(p, G(t)[w], seq[Max(t)])
        <5> HIDE DEF G
        <5> QED
          BY <3>1, <3>3, FoldAt
      <4>6. new[t] = Op(p, Folded(p, base, seq, w), seq[Max(t)])
        BY <3>3
      <4> QED
        BY <3>1, <4>3, <4>4, <4>5, <4>6
    <3> QED
      BY <3>2, <3>3
  <2>4. IsFold(new, p, base, seq, u)
    <3>1. ASSUME NEW s \in SUBSET u, s # {}
          PROVE  new[s \ {Max(s)}] = Folded(p, base, seq, s \ {Max(s)})
      <4>1. Max(s) \in s
        BY <2>2, <3>1, MaxIn
      <4> QED
        BY <2>3, <4>1
    <3>2. new = [s \in SUBSET u |-> IF s = {} THEN base
                                    ELSE Op(p, new[s \ {Max(s)}], seq[Max(s)])]
      BY <3>1
    <3> QED
      BY <3>2 DEF IsFold
  <2> QED
    BY <2>4
<1>2. S \in Good
  <2> HIDE DEF Good
  <2> QED
    BY <1>1, SubsetInduction
<1> QED
  BY <1>2

LEMMA FoldEmpty == ASSUME NEW p, NEW base PROVE Fold(p, base, <<>>) = base
<1>1. DOMAIN <<>> = {}
  OBVIOUS
<1>2. \E g : IsFold(g, p, base, <<>>, {})
  BY FoldExists, FS_EmptySet
<1> DEFINE g == CHOOSE k : IsFold(k, p, base, <<>>, {})
<1>3. IsFold(g, p, base, <<>>, {})
  BY <1>2
<1>4. Fold(p, base, <<>>) = g[{}]
  BY <1>1, FoldIs DEF Folded
<1> HIDE DEF g
<1>5. g[{}] = base
  BY <1>3, FoldAt
<1> QED
  BY <1>4, <1>5

LEMMA FoldAppend ==
  ASSUME NEW p, NEW base, NEW S, NEW seq \in Seq(S), NEW x \in S
  PROVE  Fold(p, base, Append(seq, x)) = Op(p, Fold(p, base, seq), x)
<1> PICK n \in Nat : n = Len(seq)
  BY LenProperties
<1> DEFINE long == Append(seq, x)
           g == CHOOSE k : IsFold(k, p, base, long, 1..(n + 1))
           h == CHOOSE k : IsFold(k, p, base, seq, 1..n)
<1>1. /\ n \in Nat /\ DOMAIN seq = 1..n /\ long \in Seq(S) /\ Len(long) = n + 1
      /\ \A i \in 1..n : long[i] = seq[i]
      /\ long[n + 1] = x
  BY LenProperties, AppendProperties
<1>2. DOMAIN long = 1..(n + 1)
  <2> HIDE DEF long
  <2> QED
    BY <1>1, LenProperties
<1>3. IsFiniteSet(1..n) /\ IsFiniteSet(1..(n + 1))
  <2>1. n \in Int /\ n + 1 \in Int /\ 1 \in Int
    BY <1>1
  <2> QED
    BY <2>1, FS_Interval
<1>4. IsFold(g, p, base, long, 1..(n + 1))
  <2> HIDE DEF long
  <2>1. \A i \in 1..(n + 1) : i \in Int
    OBVIOUS
  <2> QED
    BY <1>3, <2>1, FoldExists
<1>5. IsFold(h, p, base, seq, 1..n)
  <2>1. \A i \in 1..n : i \in Int
    OBVIOUS
  <2> QED
    BY <1>3, <2>1, FoldExists
<1>6. Fold(p, base, long) = g[1..(n + 1)] /\ Fold(p, base, seq) = h[1..n]
  BY <1>1, <1>2, FoldIs DEF Folded
<1> HIDE DEF g, h, long
<1>7. Max(1..(n + 1)) = n + 1
  <2>1. 1..(n + 1) # {} /\ n + 1 \in 1..(n + 1) /\ \A i \in 1..(n + 1) : i \in Int
    BY <1>1
  <2>2. Max(1..(n + 1)) \in 1..(n + 1) /\ \A i \in 1..(n + 1) : i <= Max(1..(n + 1))
    BY <1>3, <2>1, MaxIn
  <2> QED
    BY <2>1, <2>2
<1>8. (1..(n + 1)) \ {n + 1} = 1..n /\ 1..(n + 1) # {} /\ 1..n \subseteq 1..(n + 1)
  BY <1>1
<1>9. g[1..(n + 1)] = Op(p, g[1..n], long[n + 1])
  <2> DEFINE all == 1..(n + 1)
             top == n + 1
  <2>1. all \in SUBSET all /\ all # {} /\ Max(all) = top /\ IsFold(g, p, base, long, all)
    BY <1>4, <1>7, <1>8
  <2> HIDE DEF all, top
  <2>2. g[all] = Op(p, g[all \ {top}], long[top])
    BY <2>1 DEF IsFold
  <2> QED
    BY <1>8, <2>2 DEF all, top
<1>10. g[1..n] = h[1..n]
  <2>1. \A i \in 1..n : i \in Int /\ long[i] = seq[i]
    BY <1>1
  <2> QED
    BY <1>3, <1>4, <1>5, <1>8, <2>1, FoldUnique
<1>11. Fold(p, base, long) = Op(p, Fold(p, base, seq), x)
  BY <1>1, <1>6, <1>9, <1>10
<1> QED
  BY <1>11 DEF long
=============================================================================
