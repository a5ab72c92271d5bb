--------------------------- MODULE GapPipelineProofs ---------------------------
(***************************************************************************)
(* Proofs about GapPipeline for any replies, thresholds and distances: what is        *)
(* skipped, where the up lines start, and what RANSAC may find whatever it draws.      *)
(*                                                                         *)
(* The last one is about sums over any number of points.  Induction over a finite set   *)
(* is done here with a set of its subsets instead of a predicate (EverySubset), from     *)
(* the least element of a set of naturals; sums are linear (SumLinear), so the spread of  *)
(* x is a sum of squares (Spread), and least squares solves points of one line             *)
(* (FitCollinear) because two lines in lowest terms along one another are the same         *)
(* (SameLowest).                                                           *)
(***************************************************************************)
EXTENDS GapPipeline, FiniteSetTheorems, WellFoundedInduction, TLAPS

(* The naturals are well ordered.                                            *)
LEMMA LeastNatural ==
  ASSUME NEW S \in SUBSET Nat, S # {}
  PROVE  \E x \in S : \A y \in S : x <= y
  <1>1. IsWellFoundedOn(OpToRel(<, Nat), Nat)
    BY NatLessThanWellFounded
  <1>2. PICK x \in S : \A y \in S : ~(<<y, x>> \in OpToRel(<, Nat))
    BY <1>1, WFMin
  <1>3. \A y \in S : x <= y
    <2>1. SUFFICES ASSUME NEW y \in S PROVE x <= y
      OBVIOUS
    <2>2. x \in Nat /\ y \in Nat /\ ~(y < x)
      BY <1>2 DEF OpToRel
    <2>3. QED
      BY <2>2
  <1>4. QED
    BY <1>3

(* Induction, for a set of naturals instead of a predicate.                     *)
LEMMA EveryNatural ==
  ASSUME NEW S \in SUBSET Nat, 0 \in S, \A n \in S : n + 1 \in S
  PROVE  S = Nat
  <1>1. SUFFICES ASSUME Nat \ S # {} PROVE FALSE
    OBVIOUS
  <1>2. PICK n \in Nat \ S : \A m \in Nat \ S : n <= m
    BY <1>1, LeastNatural
  <1>3. n # 0 /\ n - 1 \in Nat /\ ~(n <= n - 1)
    BY <1>2
  <1>4. n - 1 \in S
    BY <1>2, <1>3
  <1>5. (n - 1) + 1 = n
    OBVIOUS
  <1>6. QED
    BY <1>4, <1>5

-----------------------------------------------------------------------------
(* Finite sets and sums.                                                     *)

\* The element the folds of the library take next
Pick(T) == CHOOSE x \in T : TRUE
\* The table of the sums over all subsets that SumFunction chooses
SumTable(f, t) ==
  t = [T \in SUBSET DOMAIN f |-> IF T = {} THEN 0 ELSE f[Pick(T)] + t[T \ {Pick(T)}]]

(* SumFunction looks up the whole domain in such a table.                          *)
LEMMA SumFromTable ==
  ASSUME NEW f
  PROVE  SumFunction(f) = (CHOOSE t : SumTable(f, t))[DOMAIN f]
  BY DEF SumFunction, SumFunctionOnSet, FoldFunctionOnSet, MapThenFoldSet, SumTable, Pick

(* What holds of the empty set, and of a set when it holds of what is left after a pick, *)
(* holds of every subset of a finite set.                                       *)
LEMMA EverySubset ==
  ASSUME NEW S, IsFiniteSet(S), NEW G \in SUBSET SUBSET S, {} \in G,
         \A T \in SUBSET S : T # {} /\ T \ {Pick(T)} \in G => T \in G
  PROVE  G = SUBSET S
  <1> DEFINE N == {n \in Nat : \A T \in SUBSET S : Cardinality(T) = n => T \in G}
  <1>1. 0 \in N
    <2>1. \A T \in SUBSET S : Cardinality(T) = 0 => T = {}
      BY FS_Subset, FS_EmptySet
    <2>2. QED
      BY <2>1
  <1>2. ASSUME NEW n \in N PROVE n + 1 \in N
    <2>1. SUFFICES ASSUME NEW T \in SUBSET S, Cardinality(T) = n + 1 PROVE T \in G
      BY <1>2
    <2>2. IsFiniteSet(T) /\ T # {}
      BY <2>1, FS_Subset, FS_EmptySet
    <2>3. Pick(T) \in T
      BY <2>2 DEF Pick
    <2>4. Cardinality(T \ {Pick(T)}) = n
      <3>1. Cardinality(T \ {Pick(T)}) = Cardinality(T) - 1
        BY <2>2, <2>3, FS_RemoveElement
      <3>2. QED
        BY <2>1, <3>1
    <2>5. QED
      BY <2>2, <2>4
  <1>3. N = Nat
    <2> HIDE DEF N
    <2>0. N \in SUBSET Nat
      BY DEF N
    <2>1. QED
      BY <1>1, <1>2, <2>0, EveryNatural
  <1>4. SUFFICES ASSUME NEW T \in SUBSET S PROVE T \in G
    OBVIOUS
  <1>5. Cardinality(T) \in N
    BY <1>3, FS_Subset, FS_CardinalityType
  <1>6. QED
    BY <1>5

Fill(f, D, t) == [T \in D |-> IF T = {} THEN 0 ELSE f[Pick(T)] + t[T \ {Pick(T)}]]

(* The sum over a finite set is well defined.                                   *)
LEMMA TableExists ==
  ASSUME NEW S, IsFiniteSet(S), NEW f, DOMAIN f = S
  PROVE  \E t : SumTable(f, t)
  <1> DEFINE UpTo(n) == {T \in SUBSET S : Cardinality(T) <= n}
             N == {n \in Nat : \E t : t = Fill(f, UpTo(n), t)}
  <1>0. \A T \in SUBSET S :
          /\ IsFiniteSet(T) /\ Cardinality(T) \in Nat
          /\ Cardinality(T) = 0 <=> T = {}
          /\ T # {} => /\ T \ {Pick(T)} \in SUBSET S
                       /\ Cardinality(T \ {Pick(T)}) = Cardinality(T) - 1
    <2>1. SUFFICES ASSUME NEW T \in SUBSET S
                   PROVE  /\ IsFiniteSet(T) /\ Cardinality(T) \in Nat
                          /\ Cardinality(T) = 0 <=> T = {}
                          /\ T # {} => /\ T \ {Pick(T)} \in SUBSET S
                                       /\ Cardinality(T \ {Pick(T)}) = Cardinality(T) - 1
      OBVIOUS
    <2>2. IsFiniteSet(T) /\ Cardinality(T) \in Nat /\ (Cardinality(T) = 0 <=> T = {})
      BY FS_Subset, FS_CardinalityType, FS_EmptySet
    <2>3. T # {} => Pick(T) \in T
      BY DEF Pick
    <2>4. QED
      BY <2>2, <2>3, FS_RemoveElement
  <1>01. \A n \in Nat : \A T \in UpTo(n + 1) :
           T # {} => T \ {Pick(T)} \in UpTo(n)
    BY <1>0
  <1>02. ASSUME NEW n \in Nat, NEW T \in UpTo(n) PROVE T \in UpTo(n + 1)
    <2>1. T \in SUBSET S /\ Cardinality(T) \in Nat /\ Cardinality(T) <= n
      BY <1>0
    <2>2. Cardinality(T) <= n + 1
      BY <2>1
    <2>3. QED
      BY <2>1, <2>2
  <1>03. UpTo(0) = {{}}
    <2>1. \A T \in UpTo(0) : T = {}
      <3>1. SUFFICES ASSUME NEW T \in UpTo(0) PROVE T = {}
        OBVIOUS
      <3>2. T \in SUBSET S /\ Cardinality(T) <= 0
        OBVIOUS
      <3>3. Cardinality(T) \in Nat /\ (Cardinality(T) = 0 => T = {})
        BY <1>0, <3>2
      <3>4. QED
        BY <3>2, <3>3
    <2>2. {} \in SUBSET S /\ Cardinality({}) = 0
      BY <1>0
    <2>3. QED
      BY <2>1, <2>2
  <1>04. UpTo(Cardinality(S)) = SUBSET S
    <2>1. \A T \in SUBSET S : Cardinality(T) <= Cardinality(S)
      BY FS_Subset
    <2>2. QED
      BY <2>1
  <1> HIDE DEF UpTo
  <1>1. 0 \in N
    <2>1. Fill(f, UpTo(0), <<>>) = Fill(f, UpTo(0), Fill(f, UpTo(0), <<>>))
      BY <1>03 DEF Fill
    <2>2. QED
      BY <2>1
  <1>2. ASSUME NEW n \in N PROVE n + 1 \in N
    <2>1. PICK t : t = Fill(f, UpTo(n), t)
      BY <1>2
    <2> DEFINE h == Fill(f, UpTo(n + 1), t)
    <2>2. ASSUME NEW T \in UpTo(n) PROVE h[T] = t[T]
      <3>1. T \in UpTo(n + 1)
        BY <1>02, <2>2
      <3>2. h[T] = IF T = {} THEN 0 ELSE f[Pick(T)] + t[T \ {Pick(T)}]
        BY <3>1 DEF Fill
      <3>3. Fill(f, UpTo(n), t)[T] = IF T = {} THEN 0 ELSE f[Pick(T)] + t[T \ {Pick(T)}]
        BY <2>2 DEF Fill
      <3>4. QED
        BY <2>1, <3>2, <3>3
    <2>3. ASSUME NEW T \in UpTo(n + 1), T # {} PROVE T \ {Pick(T)} \in UpTo(n)
      BY <1>01, <2>3
    <2>4. h = Fill(f, UpTo(n + 1), h)
      <3>1. \A T \in UpTo(n + 1) : T # {} => h[T \ {Pick(T)}] = t[T \ {Pick(T)}]
        BY <2>2, <2>3
      <3> DEFINE g == h
      <3>2. \A T \in UpTo(n + 1) : T # {} => g[T \ {Pick(T)}] = t[T \ {Pick(T)}]
        BY <3>1
      <3> HIDE DEF g
      <3>3. Fill(f, UpTo(n + 1), g) = Fill(f, UpTo(n + 1), t)
        BY <3>2 DEF Fill
      <3>4. QED
        BY <3>3 DEF g
    <2>5. QED
      <3> HIDE DEF h
      <3>1. QED
        BY <2>4
  <1>3. N = Nat
    <2>0. N \in SUBSET Nat
      OBVIOUS
    <2> HIDE DEF N
    <2>1. QED
      BY <1>1, <1>2, <2>0, EveryNatural
  <1>4. Cardinality(S) \in N
    BY <1>0, <1>3
  <1>5. QED
    <2>1. PICK t : t = Fill(f, UpTo(Cardinality(S)), t)
      BY <1>4
    <2>2. QED
      BY <1>04, <2>1 DEF SumTable, Fill


(* A sum is reached by adding what is picked, from nothing.                       *)
IsSumOn(S, f, t) ==
  /\ t \in [SUBSET S -> Int] /\ t[{}] = 0
  /\ \A T \in SUBSET S : T # {} => t[T] = f[Pick(T)] + t[T \ {Pick(T)}]

LEMMA SumUnfolds ==
  ASSUME NEW S, IsFiniteSet(S), NEW f \in [S -> Int]
  PROVE  \E t : IsSumOn(S, f, t) /\ SumFunction(f) = t[S]
  <1> DEFINE t == CHOOSE u : SumTable(f, u)
  <1>1. DOMAIN f = S
    OBVIOUS
  <1>2. SumTable(f, t)
    BY <1>1, TableExists
  <1>3. SumFunction(f) = t[S]
    BY <1>1, SumFromTable
  <1> HIDE DEF t
  <1>4. \A T \in SUBSET S : T # {} => t[T] = f[Pick(T)] + t[T \ {Pick(T)}]
    BY <1>1, <1>2 DEF SumTable
  <1>5. t[{}] = 0
    BY <1>1, <1>2 DEF SumTable
  <1>6. DOMAIN t = SUBSET S
    BY <1>1, <1>2 DEF SumTable
  <1> DEFINE G == {T \in SUBSET S : t[T] \in Int}
  <1>7. \A T \in SUBSET S : T # {} /\ T \ {Pick(T)} \in G => T \in G
    <2>1. SUFFICES ASSUME NEW T \in SUBSET S, T # {}, T \ {Pick(T)} \in G PROVE t[T] \in Int
      OBVIOUS
    <2>2. Pick(T) \in S
      BY <2>1 DEF Pick
    <2>3. t[T \ {Pick(T)}] \in Int /\ f[Pick(T)] \in Int
      BY <2>1, <2>2
    <2>4. t[T] = f[Pick(T)] + t[T \ {Pick(T)}]
      BY <1>4, <2>1
    <2>5. QED
      BY <2>3, <2>4
  <1>8. {} \in G
    BY <1>5
  <1>9. G = SUBSET S
    <2>1. G \in SUBSET SUBSET S
      OBVIOUS
    <2> HIDE DEF G
    <2>2. QED
      BY <1>7, <1>8, <2>1, EverySubset
  <1>10. t \in [SUBSET S -> Int]
    <2>1. t = [T \in SUBSET S |-> t[T]]
      BY <1>1, <1>2 DEF SumTable
    <2>2. \A T \in SUBSET S : t[T] \in Int
      BY <1>9
    <2>3. QED
      BY <2>1, <2>2
  <1>11. QED
    BY <1>3, <1>4, <1>5, <1>10 DEF IsSumOn

(* A sum of integers is one.                                                    *)
LEMMA SumInteger ==
  ASSUME NEW S, IsFiniteSet(S), NEW f \in [S -> Int]
  PROVE  SumFunction(f) \in Int
  <1>1. PICK t : IsSumOn(S, f, t) /\ SumFunction(f) = t[S]
    BY SumUnfolds
  <1>2. t[S] \in Int
    BY <1>1 DEF IsSumOn
  <1>3. QED
    BY <1>1, <1>2

Combined(S, f, g, h, a, b, c, d) == \A i \in S : a * f[i] = b * g[i] + c * h[i] + d
SumsCombined(S, f, g, h, a, b, c, d) ==
  a * SumFunction(f) = b * SumFunction(g) + c * SumFunction(h) + d * Cardinality(S)

(* Sums are linear.                                                         *)
LEMMA SumLinear ==
  ASSUME NEW S, IsFiniteSet(S),
         NEW f \in [S -> Int], NEW g \in [S -> Int], NEW h \in [S -> Int],
         NEW a \in Int, NEW b \in Int, NEW c \in Int, NEW d \in Int,
         Combined(S, f, g, h, a, b, c, d)
  PROVE  SumsCombined(S, f, g, h, a, b, c, d)
  <1>0. \A i \in S : a * f[i] = b * g[i] + c * h[i] + d
    BY DEF Combined
  <1>1. PICK t : IsSumOn(S, f, t) /\ SumFunction(f) = t[S]
    BY SumUnfolds
  <1>2. PICK u : IsSumOn(S, g, u) /\ SumFunction(g) = u[S]
    BY SumUnfolds
  <1>3. PICK v : IsSumOn(S, h, v) /\ SumFunction(h) = v[S]
    BY SumUnfolds
  <1> DEFINE G == {T \in SUBSET S : a * t[T] = b * u[T] + c * v[T] + d * Cardinality(T)}
  <1>4. {} \in G
    BY <1>1, <1>2, <1>3, FS_EmptySet DEF IsSumOn
  <1>5. \A T \in SUBSET S : T # {} /\ T \ {Pick(T)} \in G => T \in G
    <2>1. SUFFICES ASSUME NEW T \in SUBSET S, T # {}, T \ {Pick(T)} \in G PROVE T \in G
      OBVIOUS
    <2> DEFINE p == Pick(T)
               R == T \ {p}
               n == Cardinality(R)
    <2>2. p \in T /\ p \in S /\ R \in SUBSET S
      BY <2>1 DEF Pick
    <2>3. n \in Nat /\ Cardinality(T) = n + 1
      <3>1. IsFiniteSet(T) /\ Cardinality(T) \in Nat /\ IsFiniteSet(R) /\ n \in Nat
        BY <2>2, FS_Subset, FS_CardinalityType
      <3>2. n = Cardinality(T) - 1
        BY <2>2, <3>1, FS_RemoveElement
      <3>3. QED
        BY <3>1, <3>2
    <2>4. t[T] = f[p] + t[R] /\ u[T] = g[p] + u[R] /\ v[T] = h[p] + v[R]
      BY <1>1, <1>2, <1>3, <2>1 DEF IsSumOn
    <2>5. /\ f[p] \in Int /\ g[p] \in Int /\ h[p] \in Int
          /\ t[R] \in Int /\ u[R] \in Int /\ v[R] \in Int
      BY <1>1, <1>2, <1>3, <2>2 DEF IsSumOn
    <2>6. /\ a * t[R] = b * u[R] + c * v[R] + d * n
          /\ a * f[p] = b * g[p] + c * h[p] + d
      BY <1>0, <2>1, <2>2
    <2> HIDE DEF p, R, n
    <2>7. a * (f[p] + t[R]) = b * (g[p] + u[R]) + c * (h[p] + v[R]) + d * (n + 1)
      <3> DEFINE x == f[p]
                 y == g[p]
                 z == h[p]
                 p1 == t[R]
                 q1 == u[R]
                 r1 == v[R]
      <3>1. x \in Int /\ y \in Int /\ z \in Int /\ p1 \in Int /\ q1 \in Int /\ r1 \in Int
        BY <2>5
      <3>2. a * x = b * y + c * z + d /\ a * p1 = b * q1 + c * r1 + d * n
        BY <2>6
      <3> HIDE DEF x, y, z, p1, q1, r1
      <3>3. a * (x + p1) = b * (y + q1) + c * (z + r1) + d * (n + 1)
        BY <2>3, <3>1, <3>2
      <3>4. QED
        BY <3>3 DEF x, y, z, p1, q1, r1
    <2>8. QED
      BY <2>3, <2>4, <2>7
  <1>6. G = SUBSET S
    <2>1. G \in SUBSET SUBSET S
      OBVIOUS
    <2> HIDE DEF G
    <2>2. QED
      BY <1>4, <1>5, <2>1, EverySubset
  <1>7. S \in G
    BY <1>6
  <1>8. QED
    BY <1>1, <1>2, <1>3, <1>7 DEF SumsCombined

(* A sum of what is never negative is positive as soon as one of it is.             *)
LEMMA SumPositive ==
  ASSUME NEW S, IsFiniteSet(S), NEW f \in [S -> Nat]
  PROVE  /\ SumFunction(f) \in Nat
         /\ (\E i \in S : f[i] # 0) => SumFunction(f) > 0
  <1>1. PICK t : IsSumOn(S, f, t) /\ SumFunction(f) = t[S]
    BY SumUnfolds
  <1> DEFINE G == {T \in SUBSET S : t[T] \in Nat /\ \A i \in T : f[i] <= t[T]}
  <1>2. {} \in G
    BY <1>1 DEF IsSumOn
  <1>3. \A T \in SUBSET S : T # {} /\ T \ {Pick(T)} \in G => T \in G
    <2>1. SUFFICES ASSUME NEW T \in SUBSET S, T # {}, T \ {Pick(T)} \in G PROVE T \in G
      OBVIOUS
    <2> DEFINE p == Pick(T)
               R == T \ {p}
    <2>2. p \in T /\ p \in S
      BY <2>1 DEF Pick
    <2>3. t[T] = f[p] + t[R]
      BY <1>1, <2>1 DEF IsSumOn
    <2>4. f[p] \in Nat /\ t[R] \in Nat /\ \A i \in R : f[i] <= t[R] /\ f[i] \in Nat
      BY <2>1, <2>2
    <2>5. t[T] \in Nat /\ f[p] <= t[T] /\ t[R] <= t[T]
      BY <2>3, <2>4
    <2>6. \A i \in R : f[i] <= t[T]
      BY <2>4, <2>5
    <2>7. QED
      BY <2>5, <2>6
  <1>4. G = SUBSET S
    <2>1. G \in SUBSET SUBSET S
      OBVIOUS
    <2> HIDE DEF G
    <2>2. QED
      BY <1>2, <1>3, <2>1, EverySubset
  <1>5. S \in G
    BY <1>4
  <1>6. QED
    BY <1>1, <1>5

(* A finite set of integers has a greatest and a least one.                      *)
LEMMA Extremes ==
  ASSUME NEW S, IsFiniteSet(S), S \subseteq Int, S # {}
  PROVE  /\ Max(S) \in S /\ \A y \in S : y <= Max(S)
         /\ Min(S) \in S /\ \A y \in S : Min(S) <= y
  <1> DEFINE G == {T \in SUBSET S : T = {} \/ \E x, z \in T : \A y \in T : z <= y /\ y <= x}
  <1>1. {} \in G
    OBVIOUS
  <1>2. \A T \in SUBSET S : T # {} /\ T \ {Pick(T)} \in G => T \in G
    <2>1. SUFFICES ASSUME NEW T \in SUBSET S, T # {}, T \ {Pick(T)} \in G
                   PROVE  \E x, z \in T : \A y \in T : z <= y /\ y <= x
      OBVIOUS
    <2> DEFINE p == Pick(T)
    <2>2. p \in T
      BY <2>1 DEF Pick
    <2> HIDE DEF p
    <2>3. CASE T \ {p} = {}
      <3>1. \A y \in T : p <= y /\ y <= p
        BY <2>2, <2>3
      <3>2. QED
        BY <2>2, <3>1
    <2>4. CASE T \ {p} # {}
      <3>1. PICK x, z \in T \ {p} : \A y \in T \ {p} : z <= y /\ y <= x
        BY <2>1, <2>4 DEF p
      <3> DEFINE x1 == IF p <= x THEN x ELSE p
                 z1 == IF z <= p THEN z ELSE p
      <3>2. x \in Int /\ z \in Int /\ p \in Int
        BY <2>2, <3>1
      <3>3. x1 \in T /\ z1 \in T
        BY <2>2, <3>1
      <3>4. \A y \in T : z1 <= y /\ y <= x1
        <4>1. SUFFICES ASSUME NEW y \in T PROVE z1 <= y /\ y <= x1
          OBVIOUS
        <4>2. y = p \/ (z <= y /\ y <= x)
          BY <3>1
        <4>3. QED
          BY <3>2, <4>2
      <3>5. QED
        BY <3>3, <3>4
    <2>5. QED
      BY <2>3, <2>4
  <1>3. G = SUBSET S
    <2>1. G \in SUBSET SUBSET S
      OBVIOUS
    <2> HIDE DEF G
    <2>2. QED
      BY <1>1, <1>2, <2>1, EverySubset
  <1>4. PICK x, z \in S : \A y \in S : z <= y /\ y <= x
    BY <1>3
  <1>5. \A y \in S : x >= y
    BY <1>4
  <1>6. Max(S) \in S /\ \A y \in S : Max(S) >= y
    BY <1>4, <1>5 DEF Max
  <1>7. Min(S) \in S /\ \A y \in S : Min(S) <= y
    BY <1>4 DEF Min
  <1>8. QED
    BY <1>6, <1>7

-----------------------------------------------------------------------------
(* Division, and lines in lowest terms.                                      *)

LEMMA DivMod ==
  ASSUME NEW n \in Int, NEW d \in Nat \ {0}
  PROVE  /\ n \div d \in Int /\ n % d \in Int
         /\ n = d * (n \div d) + (n % d) /\ 0 <= n % d /\ n % d < d
  OBVIOUS

(* The only multiple of d among 0..d-1 is 0.                                      *)
LEMMA SmallMultiple ==
  ASSUME NEW d \in Nat \ {0}, NEW k \in Int, NEW m \in Int, m = d * k, 0 <= m, m < d
  PROVE  k = 0 /\ m = 0
  <1>1. CASE k <= -1
    <2>1. d * k <= d * (-1)
      BY <1>1
    <2>2. QED
      BY <2>1
  <1>2. CASE k >= 1
    <2>1. d * k >= d * 1
      BY <1>2
    <2>2. QED
      BY <2>1
  <1>3. CASE k = 0
    BY <1>3
  <1>4. QED
    BY <1>1, <1>2, <1>3

(* What the source divides without a remainder is divided exactly.              *)
LEMMA MulDiv ==
  ASSUME NEW n \in Int, NEW d \in Nat \ {0}, NEW q \in Int, n = d * q
  PROVE  n % d = 0 /\ n \div d = q
  <1> DEFINE h == n \div d
             m == n % d
  <1>1. h \in Int /\ m \in Int /\ n = d * h + m /\ 0 <= m /\ m < d
    BY DivMod
  <1> HIDE DEF h, m
  <1>2. m = d * (q - h)
    BY <1>1
  <1>3. q - h = 0 /\ m = 0
    BY <1>1, <1>2, SmallMultiple
  <1>4. QED
    BY <1>1, <1>3 DEF h, m

\* No natural but 1 divides all three.
Coprime(a, b, c) ==
  \A e \in Nat \ {0} : \A x, y, z \in Int : a = e * x /\ b = e * y /\ c = e * z => e = 1

(* Reduced keeps the line and leaves nothing to divide by.                     *)
LEMMA LowestTerms ==
  ASSUME NEW l \in Line, l.dx # 0
  PROVE  LET r == Reduced(l)
         IN  /\ r \in Line /\ r.dx > 0 /\ Coprime(r.dx, r.dy, r.k)
             /\ \E m \in Int \ {0} : l.dx = m * r.dx /\ l.dy = m * r.dy /\ l.k = m * r.k
  <1> DEFINE D == {d \in 1..Abs(l.dx) : \A n \in {l.dx, l.dy, l.k} : Divides(d, n)}
             g == Max(D)
             s == IF l.dx < 0 THEN -1 ELSE 1
             r == Reduced(l)
  <1>1. l.dx \in Int /\ l.dy \in Int /\ l.k \in Int
    BY DEF Line
  <1>2. Abs(l.dx) \in Nat \ {0} /\ l.dx = s * Abs(l.dx)
    BY <1>1 DEF Abs
  <1>3. IsFiniteSet(D) /\ D \subseteq Int
    <2>1. IsFiniteSet(1..Abs(l.dx)) /\ 1..Abs(l.dx) \subseteq Int
      BY <1>2, FS_Interval
    <2>2. QED
      BY <2>1, FS_Subset
  <1>4. D # {}
    <2>1. 1 \in 1..Abs(l.dx)
      BY <1>2
    <2>2. \A n \in {l.dx, l.dy, l.k} : n = 1 * n
      BY <1>1
    <2>3. \A n \in {l.dx, l.dy, l.k} : n % 1 = 0
      BY <1>1
    <2>4. QED
      BY <2>1, <2>3 DEF Divides
  <1>5. g \in D /\ \A d \in D : d <= g
    <2> HIDE DEF D
    <2>1. QED
      BY <1>3, <1>4, Extremes
  <1>6. g \in Nat \ {0} /\ l.dx % g = 0 /\ l.dy % g = 0 /\ l.k % g = 0
    <2> HIDE DEF g
    <2>1. QED
      BY <1>2, <1>5 DEF Divides
  <1>7. r = [dx |-> s * (l.dx \div g), dy |-> s * (l.dy \div g), k |-> s * (l.k \div g)]
    BY DEF Reduced
  <1> HIDE DEF r, g
  <1> DEFINE p == l.dx \div g
             q == l.dy \div g
             t == l.k \div g
  <1>8. p \in Int /\ q \in Int /\ t \in Int /\ l.dx = g * p /\ l.dy = g * q /\ l.k = g * t
    <2>1. \A n \in Int : n % g = 0 => n \div g \in Int /\ n = g * (n \div g)
      <3>1. SUFFICES ASSUME NEW n \in Int, n % g = 0
                     PROVE  n \div g \in Int /\ n = g * (n \div g)
        OBVIOUS
      <3> DEFINE h == n \div g
                 z == n % g
      <3>2. h \in Int /\ z \in Int /\ n = g * h + z
        BY <1>6, DivMod
      <3>3. z = 0
        BY <3>1
      <3> HIDE DEF h, z
      <3>4. n = g * h
        BY <1>6, <3>2, <3>3
      <3>5. QED
        BY <3>2, <3>4 DEF h
    <2>2. QED
      BY <1>1, <1>6, <2>1
  <1>9. r.dx = s * p /\ r.dy = s * q /\ r.k = s * t
    BY <1>7
  <1> HIDE DEF p, q, t
  <1>10. r \in Line
    BY <1>7, <1>8 DEF Line, p, q, t
  <1>11. l.dx = (s * g) * r.dx /\ l.dy = (s * g) * r.dy /\ l.k = (s * g) * r.k
    <2>1. CASE l.dx < 0
      BY <1>6, <1>8, <1>9, <2>1
    <2>2. CASE ~(l.dx < 0)
      BY <1>6, <1>8, <1>9, <2>2
    <2>3. QED
      BY <2>1, <2>2
  <1>12. r.dx > 0
    <2>1. r.dx \in Int /\ Abs(l.dx) = g * r.dx
      BY <1>1, <1>6, <1>8, <1>9 DEF Abs
    <2>2. QED
      BY <1>2, <1>6, <2>1
  <1>13. Coprime(r.dx, r.dy, r.k)
    <2>1. SUFFICES ASSUME NEW e \in Nat \ {0}, NEW x \in Int, NEW y \in Int, NEW z \in Int,
                          r.dx = e * x, r.dy = e * y, r.k = e * z
                   PROVE  e = 1
      BY DEF Coprime
    <2> DEFINE d == g * e
    <2>2. d \in Nat \ {0} /\ g <= d
      BY <1>6
    <2>3. l.dx = d * (s * x) /\ l.dy = d * (s * y) /\ l.k = d * (s * z)
      <3>1. CASE l.dx < 0
        BY <1>6, <1>8, <1>11, <2>1, <3>1
      <3>2. CASE ~(l.dx < 0)
        BY <1>6, <1>8, <1>11, <2>1, <3>2
      <3>3. QED
        BY <3>1, <3>2
    <2>4. d <= Abs(l.dx)
      <3>1. x > 0
        BY <1>12, <2>1
      <3>2. Abs(l.dx) = d * x
        <4>1. Abs(l.dx) = g * r.dx
          BY <1>1, <1>6, <1>8, <1>9 DEF Abs
        <4>2. QED
          BY <1>6, <2>1, <4>1
      <3> HIDE DEF d
      <3>3. QED
        BY <2>2, <3>1, <3>2
    <2> HIDE DEF d
    <2>5. l.dx % d = 0 /\ l.dy % d = 0 /\ l.k % d = 0
      <3>1. s * x \in Int /\ s * y \in Int /\ s * z \in Int
        OBVIOUS
      <3> HIDE DEF s
      <3>2. QED
        BY <1>1, <2>2, <2>3, <3>1, MulDiv
    <2>6. d \in D
      BY <1>2, <2>2, <2>4, <2>5 DEF Divides
    <2>7. g * e <= g
      BY <1>5, <2>6 DEF d
    <2>8. QED
      BY <1>6, <2>7
  <1>14. QED
    <2>1. s * g \in Int \ {0}
      BY <1>6
    <2> HIDE DEF s
    <2>2. QED
      BY <1>10, <1>11, <1>12, <1>13, <2>1 DEF r

\* <<n, y, z>> points along <<q, b, c>>.
Along(q, b, c, n, y, z) == y * q = b * n /\ z * q = c * n

Multiple(n, y, z, n0, y0, z0) ==
  \E e \in Nat \ {0} : n = e * n0 /\ y = e * y0 /\ z = e * z0

\* Every whole vector along <<q, b, c>> is a multiple of <<n0, y0, z0>>.
Measures(n0, y0, z0, q, b, c) ==
  \A n \in Nat \ {0}, y, z \in Int :
    Along(q, b, c, n, y, z) => Multiple(n, y, z, n0, y0, z0)

(* Among the whole vectors along a given one the shortest measures all the others.    *)
LEMMA Shortest ==
  ASSUME NEW q \in Nat \ {0}, NEW b \in Int, NEW c \in Int
  PROVE  \E n0 \in Nat \ {0}, y0, z0 \in Int : Measures(n0, y0, z0, q, b, c)
  <1> DEFINE V == {n \in Nat \ {0} : \E y, z \in Int : Along(q, b, c, n, y, z)}
  <1>1. q \in V
    BY DEF Along
  <1>2. PICK n0 \in V : \A n \in V : n0 <= n
    BY <1>1, LeastNatural
  <1>3. PICK y0 \in Int, z0 \in Int : Along(q, b, c, n0, y0, z0)
    BY <1>2
  <1>4. ASSUME NEW n \in Nat \ {0}, NEW y \in Int, NEW z \in Int, Along(q, b, c, n, y, z)
        PROVE  Multiple(n, y, z, n0, y0, z0)
    <2> DEFINE e == n \div n0
               f == n % n0
    <2>1. e \in Int /\ f \in Int /\ n = n0 * e + f /\ 0 <= f /\ f < n0 /\ n0 \in Nat \ {0}
      BY <1>2, DivMod
    <2> HIDE DEF e, f
    <2>2. /\ y0 * q = b * n0 /\ z0 * q = c * n0
          /\ y * q = b * n /\ z * q = c * n
      BY <1>3, <1>4 DEF Along
    <2>3. (y - e * y0) * q = b * f /\ (z - e * z0) * q = c * f
      <3>1. f = n - n0 * e
        BY <2>1
      <3>2. (y - e * y0) * q = y * q - e * (y0 * q) /\ (z - e * z0) * q = z * q - e * (z0 * q)
        BY <1>3, <1>4, <2>1
      <3>3. b * f = b * n - e * (b * n0) /\ c * f = c * n - e * (c * n0)
        BY <2>1, <3>1
      <3>4. QED
        BY <2>2, <3>2, <3>3
    <2>4. f = 0
      <3>1. SUFFICES ASSUME f # 0 PROVE FALSE
        OBVIOUS
      <3>2. y - e * y0 \in Int /\ z - e * z0 \in Int /\ f \in Nat \ {0}
        BY <2>1, <3>1
      <3>3. Along(q, b, c, f, y - e * y0, z - e * z0)
        BY <2>3 DEF Along
      <3>4. f \in V
        BY <3>2, <3>3
      <3> HIDE DEF V
      <3>5. n0 <= f
        BY <1>2, <3>4
      <3>6. QED
        BY <2>1, <3>5
    <2>5. n = e * n0
      BY <2>1, <2>4
    <2>6. y = e * y0 /\ z = e * z0
      <3>1. (y - e * y0) * q = 0 /\ (z - e * z0) * q = 0
        BY <2>3, <2>4
      <3>2. y - e * y0 \in Int /\ z - e * z0 \in Int
        BY <2>1
      <3>3. y - e * y0 = 0 /\ z - e * z0 = 0
        BY <3>1, <3>2
      <3>4. e * y0 \in Int /\ e * z0 \in Int
        BY <2>1
      <3>5. QED
        BY <3>3, <3>4
    <2>7. e \in Nat \ {0}
      <3>1. CASE e <= 0
        BY <1>4, <2>1, <2>5, <3>1
      <3>2. QED
        BY <2>1, <3>1
    <2>8. QED
      BY <2>5, <2>6, <2>7 DEF Multiple
  <1>5. n0 \in Nat \ {0}
    BY <1>2
  <1>6. Measures(n0, y0, z0, q, b, c)
    BY <1>4 DEF Measures
  <1>7. QED
    BY <1>5, <1>6

(* Lines along one another have the same lowest terms.                            *)
LEMMA SameLowest ==
  ASSUME NEW l \in Line, NEW r \in Line, l.dx > 0, r.dx > 0,
         Coprime(l.dx, l.dy, l.k), Coprime(r.dx, r.dy, r.k),
         Along(l.dx, l.dy, l.k, r.dx, r.dy, r.k)
  PROVE  r = l
  <1>1. /\ l.dx \in Nat \ {0} /\ l.dy \in Int /\ l.k \in Int
        /\ r.dx \in Nat \ {0} /\ r.dy \in Int /\ r.k \in Int
    BY DEF Line
  <1>2. PICK n0 \in Nat \ {0}, y0 \in Int, z0 \in Int : Measures(n0, y0, z0, l.dx, l.dy, l.k)
    BY <1>1, Shortest
  <1>3. Along(l.dx, l.dy, l.k, l.dx, l.dy, l.k)
    BY DEF Along
  <1>4. PICK e \in Nat \ {0} : l.dx = e * n0 /\ l.dy = e * y0 /\ l.k = e * z0
    <2>1. Multiple(l.dx, l.dy, l.k, n0, y0, z0)
      BY <1>1, <1>2, <1>3 DEF Measures
    <2>2. QED
      BY <2>1 DEF Multiple
  <1>5. PICK d \in Nat \ {0} : r.dx = d * n0 /\ r.dy = d * y0 /\ r.k = d * z0
    <2>1. Multiple(r.dx, r.dy, r.k, n0, y0, z0)
      BY <1>1, <1>2 DEF Measures
    <2>2. QED
      BY <2>1 DEF Multiple
  <1>6. n0 \in Int
    OBVIOUS
  <1>7. e = 1
    BY <1>4, <1>6 DEF Coprime
  <1>8. d = 1
    BY <1>5, <1>6 DEF Coprime
  <1>9. l.dx = r.dx /\ l.dy = r.dy /\ l.k = r.k
    BY <1>4, <1>5, <1>7, <1>8
  <1>10. QED
    BY <1>9 DEF Line

-----------------------------------------------------------------------------
(* Least squares.                                                           *)

Point == [x : Int, y : Int]

(* The variance of x, times the square of the number of points, and with weights:    *)
(* it vanishes exactly when all x are equal.                                  *)
LEMMA Spread ==
  ASSUME NEW S, IsFiniteSet(S), NEW f \in [S -> Int]
  PROVE  LET n  == Cardinality(S)
             sq == [i \in S |-> f[i] * f[i]]
             den == n * SumFunction(sq) - SumFunction(f) * SumFunction(f)
         IN  /\ den \in Int
             /\ (\E i, j \in S : f[i] # f[j]) => den > 0
             /\ (\A i, j \in S : f[i] = f[j]) => den = 0
  <1> DEFINE n == Cardinality(S)
             sq == [i \in S |-> f[i] * f[i]]
             X == SumFunction(f)
             Q == SumFunction(sq)
  <1>1. n \in Nat /\ sq \in [S -> Int]
    BY FS_CardinalityType
  <1> HIDE DEF n
  <1>2. X \in Int /\ Q \in Int
    <2> HIDE DEF sq
    <2>1. QED
      BY <1>1, SumInteger
  <1> DEFINE w == [i \in S |-> (n * f[i] - X) * (n * f[i] - X)]
             W == SumFunction(w)
  <1> HIDE DEF X, Q
  <1>3. \A i \in S : w[i] \in Nat /\ (w[i] = 0 => n * f[i] = X)
    <2>1. SUFFICES ASSUME NEW i \in S PROVE w[i] \in Nat /\ (w[i] = 0 => n * f[i] = X)
      OBVIOUS
    <2> DEFINE z == n * f[i] - X
    <2>2. z \in Int /\ w[i] = z * z /\ n * f[i] \in Int
      BY <1>1, <1>2
    <2>3. z = 0 => n * f[i] = X
      BY <1>2, <2>2
    <2> HIDE DEF z, w
    <2>4. z * z \in Nat /\ (z * z = 0 => z = 0)
      BY <2>2
    <2>5. QED
      BY <2>2, <2>3, <2>4
  <1>4. w \in [S -> Nat] /\ w \in [S -> Int]
    BY <1>3
  <1>5. W = (n * n) * Q + (0 - 2 * n * X) * X + (X * X) * n
    <2>1. \A i \in S : 1 * w[i] = (n * n) * sq[i] + (0 - 2 * n * X) * f[i] + X * X
      <3>1. SUFFICES ASSUME NEW i \in S
                     PROVE  1 * w[i] = (n * n) * sq[i] + (0 - 2 * n * X) * f[i] + X * X
        OBVIOUS
      <3> DEFINE x == f[i]
      <3>2. x \in Int /\ w[i] = (n * x - X) * (n * x - X) /\ sq[i] = x * x
        OBVIOUS
      <3> HIDE DEF x, w, sq
      <3>3. (n * x - X) * (n * x - X) = (n * n) * (x * x) + (0 - 2 * n * X) * x + X * X
        BY <1>1, <1>2, <3>2
      <3>4. (n * x - X) * (n * x - X) \in Int
        BY <1>1, <1>2, <3>2
      <3>5. QED
        BY <3>2, <3>3, <3>4 DEF x
    <2>2. n * n \in Int /\ 0 - 2 * n * X \in Int /\ X * X \in Int
      BY <1>1, <1>2
    <2> HIDE DEF w, sq
    <2>3. Combined(S, w, sq, f, 1, n * n, 0 - 2 * n * X, X * X)
      BY <2>1 DEF Combined
    <2>4. SumsCombined(S, w, sq, f, 1, n * n, 0 - 2 * n * X, X * X)
      BY <1>1, <1>4, <2>2, <2>3, SumLinear
    <2>5. W \in Int
      BY <1>4, SumInteger
    <2>6. QED
      BY <1>1, <1>2, <2>4, <2>5 DEF SumsCombined, n, X, Q
  <1> DEFINE den == n * Q - X * X
  <1>6. den \in Int /\ W = n * den
    <2> HIDE DEF W
    <2>1. QED
      BY <1>1, <1>2, <1>5
  <1>7. ASSUME NEW i \in S, NEW j \in S, f[i] # f[j] PROVE den > 0
    <2>1. n # 0
      BY FS_EmptySet DEF n
    <2>2. n * f[i] # X \/ n * f[j] # X
      <3>1. SUFFICES ASSUME n * f[i] = X, n * f[j] = X PROVE FALSE
        OBVIOUS
      <3> DEFINE x == f[i]
                 y == f[j]
      <3>2. x \in Int /\ y \in Int /\ x # y /\ n * x = n * y
        BY <1>7, <3>1
      <3> HIDE DEF x, y
      <3>3. QED
        BY <1>1, <2>1, <3>2
    <2>3. \E h \in S : w[h] # 0
      BY <1>3, <2>2
    <2>4. W > 0
      <3> HIDE DEF w
      <3>1. QED
        BY <1>4, <2>3, SumPositive
    <2> HIDE DEF W, den
    <2>5. QED
      BY <1>1, <1>6, <2>1, <2>4
  <1>8. ASSUME \A i, j \in S : f[i] = f[j] PROVE den = 0
    <2>1. CASE S = {}
      <3>1. n = 0
        BY <2>1, FS_EmptySet DEF n
      <3>2. SumsCombined(S, f, f, f, 1, 0, 0, 0)
        <4>1. Combined(S, f, f, f, 1, 0, 0, 0)
          BY <2>1 DEF Combined
        <4>2. QED
          BY <4>1, SumLinear
      <3>3. X = 0
        BY <1>2, <3>1, <3>2 DEF SumsCombined, X, n
      <3>4. QED
        BY <1>2, <3>1, <3>3
    <2>2. CASE S # {}
      <3>1. PICK p \in S : TRUE
        BY <2>2
      <3> DEFINE x == f[p]
      <3>2. x \in Int /\ \A i \in S : f[i] = x /\ sq[i] = x * x
        BY <1>8
      <3> HIDE DEF x, sq
      <3>3. x * x \in Int
        BY <3>2
      <3>4. Combined(S, f, f, f, 1, 0, 0, x)
        BY <3>2 DEF Combined
      <3>5. Combined(S, sq, f, f, 1, 0, 0, x * x)
        BY <3>2, <3>3 DEF Combined
      <3>6. SumsCombined(S, f, f, f, 1, 0, 0, x)
        BY <3>2, <3>4, SumLinear
      <3>7. SumsCombined(S, sq, f, f, 1, 0, 0, x * x)
        BY <1>1, <3>3, <3>5, SumLinear
      <3>8. X = x * n /\ Q = (x * x) * n
        BY <1>1, <1>2, <3>2, <3>6, <3>7 DEF SumsCombined, X, Q, n
      <3>9. QED
        BY <1>1, <3>2, <3>8
    <2>3. QED
      BY <2>1, <2>2
  <1>9. QED
    BY <1>6, <1>7, <1>8 DEF n, X, Q

\* The sums FitLine works with
Xs(pts) == [i \in DOMAIN pts |-> pts[i].x]
Ys(pts) == [i \in DOMAIN pts |-> pts[i].y]
XYs(pts) == [i \in DOMAIN pts |-> pts[i].x * pts[i].y]
XXs(pts) == [i \in DOMAIN pts |-> pts[i].x * pts[i].x]
Num(pts) == Cardinality(DOMAIN pts) * SumFunction(XYs(pts)) - SumFunction(Xs(pts)) * SumFunction(Ys(pts))
Den(pts) == Cardinality(DOMAIN pts) * SumFunction(XXs(pts)) - SumFunction(Xs(pts)) * SumFunction(Xs(pts))
Solved(pts) ==
  [dx |-> Cardinality(DOMAIN pts) * Den(pts), dy |-> Cardinality(DOMAIN pts) * Num(pts),
   k  |-> SumFunction(Ys(pts)) * Den(pts) - Num(pts) * SumFunction(Xs(pts))]

(* FitLine in these words.                                                       *)
LEMMA FitLineIs ==
  ASSUME NEW pts
  PROVE  FitLine(pts) = IF Cardinality(DOMAIN pts) < 2 \/ Den(pts) = 0 THEN NoLine
                        ELSE Reduced(Solved(pts))
  BY DEF FitLine, Solved, Num, Den, Xs, Ys, XYs, XXs

(* All of them are integers.                                                      *)
LEMMA SumsAreIntegers ==
  ASSUME NEW S, IsFiniteSet(S), NEW pts \in [S -> Point]
  PROVE  /\ DOMAIN pts = S /\ Cardinality(S) \in Nat
         /\ Xs(pts) \in [S -> Int] /\ Ys(pts) \in [S -> Int]
         /\ XYs(pts) \in [S -> Int] /\ XXs(pts) \in [S -> Int]
         /\ SumFunction(Xs(pts)) \in Int /\ SumFunction(Ys(pts)) \in Int
         /\ SumFunction(XYs(pts)) \in Int /\ SumFunction(XXs(pts)) \in Int
         /\ Num(pts) \in Int /\ Den(pts) \in Int
  <1>1. DOMAIN pts = S /\ Cardinality(S) \in Nat
    BY FS_CardinalityType
  <1>2. \A i \in S : pts[i].x \in Int /\ pts[i].y \in Int
    BY DEF Point
  <1>3. Xs(pts) \in [S -> Int] /\ Ys(pts) \in [S -> Int]
    BY <1>1, <1>2 DEF Xs, Ys
  <1>4. XYs(pts) \in [S -> Int] /\ XXs(pts) \in [S -> Int]
    BY <1>1, <1>2 DEF XYs, XXs
  <1>5. /\ SumFunction(Xs(pts)) \in Int /\ SumFunction(Ys(pts)) \in Int
        /\ SumFunction(XYs(pts)) \in Int /\ SumFunction(XXs(pts)) \in Int
    BY <1>3, <1>4, SumInteger
  <1>6. Num(pts) \in Int /\ Den(pts) \in Int
    BY <1>1, <1>5 DEF Num, Den
  <1>7. QED
    BY <1>1, <1>3, <1>4, <1>5, <1>6

(* Least squares finds a line exactly when two points have different x.           *)
LEMMA FitFound ==
  ASSUME NEW S, IsFiniteSet(S), NEW pts \in [S -> Point]
  PROVE  /\ Pairs(pts) # {} => /\ Cardinality(S) >= 2 /\ Den(pts) > 0
                               /\ FitLine(pts) = Reduced(Solved(pts))
                               /\ Solved(pts) \in Line /\ Solved(pts).dx > 0
         /\ Pairs(pts) = {} => FitLine(pts) = NoLine
  <1> DEFINE n == Cardinality(S)
  <1>1. DOMAIN pts = S /\ n \in Nat /\ Xs(pts) \in [S -> Int]
    BY SumsAreIntegers
  <1>2. \A i \in S : Xs(pts)[i] = pts[i].x
    BY <1>1 DEF Xs
  <1>3. XXs(pts) = [i \in S |-> Xs(pts)[i] * Xs(pts)[i]]
    BY <1>1, <1>2 DEF XXs
  <1>4. /\ (\E i, j \in S : Xs(pts)[i] # Xs(pts)[j]) => Den(pts) > 0
        /\ (\A i, j \in S : Xs(pts)[i] = Xs(pts)[j]) => Den(pts) = 0
    <2> DEFINE f == Xs(pts)
    <2>1. f \in [S -> Int] /\ Den(pts) = n * SumFunction([i \in S |-> f[i] * f[i]]) - SumFunction(f) * SumFunction(f)
      BY <1>1, <1>3 DEF Den
    <2> HIDE DEF f
    <2>2. /\ (\E i, j \in S : f[i] # f[j]) => Den(pts) > 0
          /\ (\A i, j \in S : f[i] = f[j]) => Den(pts) = 0
      BY <2>1, Spread
    <2>3. QED
      BY <2>2 DEF f
  <1>5. ASSUME Pairs(pts) # {}
        PROVE  /\ n >= 2 /\ Den(pts) > 0 /\ FitLine(pts) = Reduced(Solved(pts))
               /\ Solved(pts) \in Line /\ Solved(pts).dx > 0
    <2>1. PICK i \in S, j \in S : pts[i].x # pts[j].x
      BY <1>1, <1>5 DEF Pairs
    <2>2. Den(pts) > 0
      BY <1>2, <1>4, <2>1
    <2>3. n >= 2
      <3>1. n # 0
        BY <2>1, FS_EmptySet
      <3>2. n # 1
        <4>1. n = 1 => \E x : S = {x}
          BY FS_Singleton
        <4>2. QED
          BY <2>1, <4>1
      <3>3. QED
        BY <1>1, <3>1, <3>2
    <2> HIDE DEF n
    <2>4. /\ Num(pts) \in Int /\ Den(pts) \in Int
          /\ SumFunction(Xs(pts)) \in Int /\ SumFunction(Ys(pts)) \in Int
      BY SumsAreIntegers
    <2>5. n * Den(pts) \in Int /\ n * Den(pts) > 0
      BY <1>1, <2>2, <2>3, <2>4
    <2>6. Solved(pts) \in Line /\ Solved(pts).dx > 0
      BY <1>1, <2>4, <2>5 DEF Solved, Line, n
    <2>7. FitLine(pts) = Reduced(Solved(pts))
      BY <1>1, <2>2, <2>3, FitLineIs DEF n
    <2>8. QED
      BY <2>2, <2>3, <2>6, <2>7
  <1>6. ASSUME Pairs(pts) = {} PROVE FitLine(pts) = NoLine
    <2>1. \A i, j \in S : Xs(pts)[i] = Xs(pts)[j]
      <3>1. SUFFICES ASSUME NEW i \in S, NEW j \in S, pts[i].x # pts[j].x PROVE FALSE
        BY <1>2
      <3>2. <<i, j>> \in Pairs(pts)
        BY <1>1, <3>1 DEF Pairs
      <3>3. QED
        BY <1>6, <3>2
    <2>2. QED
      BY <1>4, <2>1, FitLineIs
  <1>7. QED
    BY <1>5, <1>6

OnLine(p, l) == p.y * l.dx = l.dy * p.x + l.k

(* Points of one line in lowest terms give that line.                             *)
LEMMA FitCollinear ==
  ASSUME NEW S, IsFiniteSet(S), NEW pts \in [S -> Point], Pairs(pts) # {},
         NEW l \in Line, l.dx > 0, Coprime(l.dx, l.dy, l.k), \A i \in S : OnLine(pts[i], l)
  PROVE  FitLine(pts) = l
  <1> DEFINE n == Cardinality(S)
             X == SumFunction(Xs(pts))
             Y == SumFunction(Ys(pts))
             P == SumFunction(XYs(pts))
             Q == SumFunction(XXs(pts))
             q == l.dx
             b == l.dy
             c == l.k
             r == Reduced(Solved(pts))
  <1>1. /\ DOMAIN pts = S /\ n \in Nat
        /\ Xs(pts) \in [S -> Int] /\ Ys(pts) \in [S -> Int]
        /\ XYs(pts) \in [S -> Int] /\ XXs(pts) \in [S -> Int]
        /\ X \in Int /\ Y \in Int /\ P \in Int /\ Q \in Int
    BY SumsAreIntegers
  <1>2. q \in Int /\ b \in Int /\ c \in Int
    BY DEF Line
  <1>3. \A i \in S : /\ pts[i].x \in Int /\ pts[i].y \in Int
                     /\ Xs(pts)[i] = pts[i].x /\ Ys(pts)[i] = pts[i].y
                     /\ XYs(pts)[i] = pts[i].x * pts[i].y /\ XXs(pts)[i] = pts[i].x * pts[i].x
    BY <1>1 DEF Point, Xs, Ys, XYs, XXs
  <1> HIDE DEF q, b, c
  <1>4. \A i \in S : q * pts[i].y = b * pts[i].x + c
    BY <1>2, <1>3 DEF OnLine, q, b, c
  <1>5. SumsCombined(S, Ys(pts), Xs(pts), Xs(pts), q, b, 0, c)
    <2>1. Combined(S, Ys(pts), Xs(pts), Xs(pts), q, b, 0, c)
      BY <1>2, <1>3, <1>4 DEF Combined
    <2>2. QED
      BY <1>1, <1>2, <2>1, SumLinear
  <1>6. SumsCombined(S, XYs(pts), XXs(pts), Xs(pts), q, b, c, 0)
    <2>1. SUFFICES ASSUME NEW i \in S
                   PROVE  q * XYs(pts)[i] = b * XXs(pts)[i] + c * Xs(pts)[i] + 0
      <3>1. Combined(S, XYs(pts), XXs(pts), Xs(pts), q, b, c, 0)
        BY <2>1 DEF Combined
      <3>2. QED
        BY <1>1, <1>2, <3>1, SumLinear
    <2> DEFINE x == pts[i].x
               y == pts[i].y
    <2>2. /\ x \in Int /\ y \in Int /\ q * y = b * x + c
          /\ XYs(pts)[i] = x * y /\ XXs(pts)[i] = x * x /\ Xs(pts)[i] = x
      BY <1>3, <1>4
    <2> HIDE DEF x, y
    <2>3. q * (x * y) = x * (q * y) /\ x * (b * x + c) = b * (x * x) + c * x
      BY <1>2, <2>2
    <2>4. QED
      BY <1>2, <2>2, <2>3
  <1>7. Den(pts) = n * Q - X * X /\ Num(pts) = n * P - X * Y
    BY <1>1 DEF Den, Num
  <1> HIDE DEF X, Y, P, Q, n
  <1>8. q * Y = b * X + c * n /\ q * P = b * Q + c * X
    <2>1. q * Y = b * X + 0 * X + c * n
      BY <1>5 DEF SumsCombined, X, Y, n
    <2>2. q * P = b * Q + c * X + 0 * n
      BY <1>6 DEF SumsCombined, X, P, Q, n
    <2>3. QED
      BY <1>1, <1>2, <2>1, <2>2
  <1> DEFINE den == Den(pts)
             num == Num(pts)
  <1>9. den \in Int /\ num \in Int /\ den = n * Q - X * X /\ num = n * P - X * Y
    BY <1>1, <1>7
  <1> HIDE DEF den, num
  <1>10. q * num = b * den
    <2>1. q * num = n * (q * P) - X * (q * Y)
      BY <1>1, <1>2, <1>9
    <2>2. n * (b * Q + c * X) - X * (b * X + c * n) = b * (n * Q - X * X)
      BY <1>1, <1>2
    <2>3. QED
      BY <1>8, <1>9, <2>1, <2>2
  <1>11. q * (Y * den - num * X) = c * (n * den)
    <2>1. q * (Y * den - num * X) = (q * Y) * den - (q * num) * X
      BY <1>1, <1>2, <1>9
    <2>2. (b * X + c * n) * den - (b * den) * X = c * (n * den)
      BY <1>1, <1>2, <1>9
    <2>3. QED
      BY <1>8, <1>10, <2>1, <2>2
  <1>12. /\ Solved(pts) \in Line /\ Solved(pts).dx > 0
         /\ Solved(pts).dx = n * den /\ Solved(pts).dy = n * num
         /\ Solved(pts).k = Y * den - num * X
         /\ FitLine(pts) = r
    BY <1>1, FitFound DEF Solved, n, den, num, X, Y
  <1> HIDE DEF r
  <1>13. /\ r \in Line /\ r.dx > 0 /\ Coprime(r.dx, r.dy, r.k)
         /\ \E m \in Int \ {0} : /\ Solved(pts).dx = m * r.dx /\ Solved(pts).dy = m * r.dy
                                 /\ Solved(pts).k = m * r.k
    BY <1>12, LowestTerms DEF r
  <1>14. PICK m \in Int \ {0} : n * den = m * r.dx /\ n * num = m * r.dy /\ Y * den - num * X = m * r.k
    BY <1>12, <1>13
  <1>15. Along(l.dx, l.dy, l.k, r.dx, r.dy, r.k)
    <2> DEFINE d == r.dx
               e == r.dy
               f == r.k
    <2>1. d \in Int /\ e \in Int /\ f \in Int
      BY <1>13 DEF Line
    <2>2. n * den = m * d /\ n * num = m * e /\ Y * den - num * X = m * f
      BY <1>14
    <2> HIDE DEF d, e, f
    <2>3. m * (q * e) = m * (b * d)
      <3>1. m * (q * e) = n * (q * num) /\ m * (b * d) = n * (b * den)
        BY <1>1, <1>2, <1>9, <2>1, <2>2
      <3>2. QED
        BY <1>10, <3>1
    <2>4. m * (q * f) = m * (c * d)
      <3>1. m * (q * f) = q * (m * f) /\ m * (c * d) = c * (m * d)
        BY <1>2, <2>1
      <3>2. QED
        BY <1>11, <2>2, <3>1
    <2>5. q * e = b * d /\ q * f = c * d
      BY <1>2, <2>1, <2>3, <2>4
    <2>6. e * q = b * d /\ f * q = c * d
      BY <1>2, <2>1, <2>5
    <2>7. QED
      BY <2>6 DEF Along, d, e, f, q, b, c
  <1>16. r = l
    BY <1>13, <1>15, SameLowest
  <1>17. QED
    BY <1>12, <1>16

-----------------------------------------------------------------------------
(* RANSAC.                                                                  *)

(* The line through two points is in lowest terms, and both are inliers of it.     *)
LEMMA ThroughFits ==
  ASSUME NEW p \in Point, NEW q \in Point, p.x # q.x
  PROVE  LET l == Through(p, q)
         IN  /\ l \in Line /\ l.dx > 0 /\ Coprime(l.dx, l.dy, l.k)
             /\ Inlier(p, l) /\ Inlier(q, l)
  <1> DEFINE dx == p.x - q.x
             dy == p.y - q.y
             v == [dx |-> dx, dy |-> dy, k |-> p.y * dx - dy * p.x]
             l == Through(p, q)
  <1>1. p.x \in Int /\ p.y \in Int /\ q.x \in Int /\ q.y \in Int
    BY DEF Point
  <1>2. dx \in Int /\ dy \in Int /\ dx # 0
    BY <1>1
  <1>3. v \in Line /\ v.dx # 0 /\ v.dx = dx /\ v.dy = dy /\ v.k = p.y * dx - dy * p.x
    BY <1>1, <1>2 DEF Line
  <1>4. l = Reduced(v)
    BY DEF Through
  <1> HIDE DEF l, v
  <1>5. /\ l \in Line /\ l.dx > 0 /\ Coprime(l.dx, l.dy, l.k)
        /\ \E m \in Int \ {0} : v.dx = m * l.dx /\ v.dy = m * l.dy /\ v.k = m * l.k
    BY <1>3, <1>4, LowestTerms
  <1>6. PICK m \in Int \ {0} : v.dx = m * l.dx /\ v.dy = m * l.dy /\ v.k = m * l.k
    BY <1>5
  <1> DEFINE a == l.dx
             b == l.dy
             c == l.k
  <1>7. a \in Int /\ b \in Int /\ c \in Int /\ a > 0
    BY <1>5 DEF Line
  <1>8. dx = m * a /\ dy = m * b /\ p.y * dx - dy * p.x = m * c
    BY <1>3, <1>6
  <1> DEFINE px == p.x
             py == p.y
             qx == q.x
             qy == q.y
  <1>9. /\ px \in Int /\ py \in Int /\ qx \in Int /\ qy \in Int
        /\ px - qx = m * a /\ py - qy = m * b /\ py * (px - qx) - (py - qy) * px = m * c
    BY <1>1, <1>8
  <1> HIDE DEF a, b, c, px, py, qx, qy, dx, dy
  <1>10. py * a - b * px - c = 0
    <2>1. m * (py * a - b * px - c) = py * (m * a) - (m * b) * px - m * c
      BY <1>7, <1>9
    <2>2. m * (py * a - b * px - c) = 0
      <3>1. py * (m * a) = py * (px - qx) /\ (m * b) * px = (py - qy) * px
        BY <1>9
      <3>2. py * (px - qx) \in Int /\ (py - qy) * px \in Int
        BY <1>9
      <3>3. QED
        BY <1>9, <2>1, <3>1, <3>2
    <2>3. py * a - b * px - c \in Int
      BY <1>7, <1>9
    <2>4. QED
      BY <2>2, <2>3
  <1>11. qy * a - b * qx - c = 0
    <2>1. qy * a - b * qx - c = (py * a - b * px - c) - ((py - qy) * a - b * (px - qx))
      BY <1>7, <1>9
    <2>2. (py - qy) * a = (m * b) * a /\ b * (px - qx) = b * (m * a)
      BY <1>9
    <2>3. (m * b) * a = b * (m * a) /\ (m * b) * a \in Int
      BY <1>7
    <2>4. QED
      BY <1>10, <2>1, <2>2, <2>3
  <1>12. InlierDistance * InlierDistance * (a * a + b * b) > 0
    <2>1. InlierDistance \in Nat \ {0}
      BY InlierAssumption
    <2>2. InlierDistance * InlierDistance > 0 /\ InlierDistance * InlierDistance \in Int
      BY <2>1
    <2>3. a * a > 0 /\ b * b >= 0 /\ a * a \in Int /\ b * b \in Int
      BY <1>7
    <2> DEFINE i == InlierDistance * InlierDistance
               s == a * a + b * b
    <2>4. i \in Int /\ i > 0 /\ s \in Int /\ s > 0
      BY <2>2, <2>3
    <2> HIDE DEF i, s
    <2>5. i * s > 0
      BY <2>4
    <2>6. QED
      BY <2>5 DEF i, s
  <1>13. Inlier(p, l)
    BY <1>10, <1>12 DEF Inlier, a, b, c, px, py
  <1>14. Inlier(q, l)
    BY <1>11, <1>12 DEF Inlier, a, b, c, qx, qy
  <1>15. QED
    BY <1>5, <1>13, <1>14 DEF l

(* RANSAC's line is fitted to some of the points, with different x if there are any.   *)
LEMMA RansacFrom ==
  ASSUME NEW S, IsFiniteSet(S), NEW pts \in [S -> Point], NEW line \in RansacFits(pts)
  PROVE  \E T \in SUBSET S : \E sub \in [T -> Point] :
           /\ \A i \in T : sub[i] = pts[i]
           /\ line = FitLine(sub)
           /\ Pairs(pts) # {} <=> Pairs(sub) # {}
  <1>1. DOMAIN pts = S
    OBVIOUS
  <1>2. ASSUME NEW ij \in Pairs(pts)
        PROVE  /\ ij[1] \in S /\ ij[2] \in S /\ pts[ij[1]] \in Point /\ pts[ij[2]] \in Point
               /\ pts[ij[1]].x # pts[ij[2]].x
    BY <1>1, <1>2 DEF Pairs
  <1>3. QED
    <2>1. CASE line = FitLine(pts)
      BY <2>1
    <2>2. ASSUME NEW ij \in Pairs(pts), line = FitLine(InliersOf(pts, ij))
          PROVE  \E T \in SUBSET S : \E sub \in [T -> Point] :
                   /\ \A i \in T : sub[i] = pts[i]
                   /\ line = FitLine(sub)
                   /\ Pairs(pts) # {} <=> Pairs(sub) # {}
      <3> DEFINE i == ij[1]
                 j == ij[2]
                 l == Through(pts[i], pts[j])
                 T == {h \in S : Inlier(pts[h], l)}
                 sub == InliersOf(pts, ij)
      <3>1. sub = [h \in T |-> pts[h]]
        BY <1>1 DEF InliersOf
      <3>2. i \in T /\ j \in T
        BY <1>2, <2>2, ThroughFits
      <3>3. sub \in [T -> Point] /\ \A h \in T : sub[h] = pts[h]
        BY <3>1
      <3>4. Pairs(sub) # {}
        <4>1. <<i, j>> \in T \X T /\ DOMAIN sub = T
          BY <3>2, <3>3
        <4>2. sub[i].x # sub[j].x
          BY <1>2, <2>2, <3>2, <3>3
        <4> HIDE DEF sub, T, i, j
        <4>3. <<i, j>> \in Pairs(sub)
          BY <4>1, <4>2 DEF Pairs
        <4>4. QED
          BY <4>3
      <3>5. T \in SUBSET S
        OBVIOUS
      <3> HIDE DEF sub, T
      <3>6. QED
        BY <2>2, <3>3, <3>4, <3>5 DEF sub
    <2>3. QED
      BY <2>1, <2>2 DEF RansacFits

(* A fit is never upright.                                                        *)
LEMMA FitIsFitted ==
  ASSUME NEW S, IsFiniteSet(S), NEW pts \in [S -> Point]
  PROVE  FitLine(pts) \in Fitted
  <1>1. CASE Pairs(pts) = {}
    BY <1>1, FitFound DEF Fitted
  <1>2. CASE Pairs(pts) # {}
    <2>1. FitLine(pts) = Reduced(Solved(pts)) /\ Solved(pts) \in Line /\ Solved(pts).dx > 0
      BY <1>2, FitFound
    <2>2. Solved(pts).dx # 0
      BY <2>1
    <2>3. FitLine(pts) \in Line /\ FitLine(pts).dx > 0
      BY <2>1, <2>2, LowestTerms
    <2>4. QED
      BY <2>3 DEF Fitted
  <1>3. QED
    BY <1>1, <1>2

LEMMA RansacFitsWell ==
  ASSUME NEW S, IsFiniteSet(S), NEW pts \in [S -> Point], NEW line \in RansacFits(pts)
  PROVE  FitsWell(line, pts)
  <1>1. DOMAIN pts = S
    OBVIOUS
  <1>2. ASSUME NEW ij \in Pairs(pts)
        PROVE  /\ ij[1] \in S /\ ij[2] \in S /\ pts[ij[1]] \in Point /\ pts[ij[2]] \in Point
               /\ pts[ij[1]].x # pts[ij[2]].x
    BY <1>1, <1>2 DEF Pairs
  <1>31. PICK T \in SUBSET S : \E sub \in [T -> Point] :
          /\ \A i \in T : sub[i] = pts[i]
          /\ line = FitLine(sub)
          /\ Pairs(pts) # {} <=> Pairs(sub) # {}
    BY RansacFrom
  <1>4. PICK sub \in [T -> Point] :
          /\ \A i \in T : sub[i] = pts[i]
          /\ line = FitLine(sub)
          /\ Pairs(pts) # {} <=> Pairs(sub) # {}
    BY <1>31
  <1>5. IsFiniteSet(T)
    BY FS_Subset
  <1>6. line # NoLine <=> Pairs(pts) # {}
    <2>1. CASE Pairs(sub) = {}
      BY <1>4, <1>5, <2>1, FitFound
    <2>2. CASE Pairs(sub) # {}
      <3>1. line = Reduced(Solved(sub)) /\ Solved(sub) \in Line /\ Solved(sub).dx > 0
        BY <1>4, <1>5, <2>2, FitFound
      <3>2. Solved(sub).dx # 0
        BY <3>1
      <3>3. line.dx > 0
        BY <3>1, <3>2, LowestTerms
      <3>4. QED
        BY <1>4, <2>2, <3>3 DEF NoLine
    <2>3. QED
      BY <2>1, <2>2
  <1>7. ASSUME NEW ij \in Pairs(pts),
               \A i \in S : OnLine(pts[i], Through(pts[ij[1]], pts[ij[2]]))
        PROVE  line = Through(pts[ij[1]], pts[ij[2]])
    <2> DEFINE l == Through(pts[ij[1]], pts[ij[2]])
    <2>1. l \in Line /\ l.dx > 0 /\ Coprime(l.dx, l.dy, l.k)
      BY <1>2, <1>7, ThroughFits
    <2>2. \A i \in T : OnLine(sub[i], l)
      BY <1>4, <1>7
    <2>3. Pairs(sub) # {}
      BY <1>4, <1>7
    <2> HIDE DEF l
    <2>4. line = l
      BY <1>4, <1>5, <2>1, <2>2, <2>3, FitCollinear
    <2>5. QED
      BY <2>4 DEF l
  <1>8. QED
    BY <1>1, <1>6, <1>7 DEF FitsWell, OnLine

-----------------------------------------------------------------------------
(* The steps of the pipeline.                                                 *)

(* What an analysis leaves in the result.                                        *)
LEMMA Analysed ==
  ASSUME NEW kind, NEW reply, NEW task, Analyse(kind, reply, task)
  PROVE  /\ result'.kind = kind /\ result'.reply = reply /\ result'.task = task
         /\ result'.skipped = FALSE
         /\ IF NoCleats(reply, task) THEN result'.lines = {}
            ELSE LET cl == Classified(reply, task)
                 IN  /\ result'.edges \in EdgesOf(reply, cl)
                     /\ result'.lines = GapLines(reply, cl, result'.edges)
  <1> DEFINE cl == Classified(reply, task)
             blank == [NoResult EXCEPT !.kind = kind, !.reply = reply, !.task = task]
  <1>1. CASE NoCleats(reply, task)
    BY <1>1 DEF Analyse, NoResult
  <1>2. CASE ~NoCleats(reply, task)
    <2>1. PICK edges \in EdgesOf(reply, cl) :
            result' = [blank EXCEPT !.edges = edges, !.lines = GapLines(reply, cl, edges)]
      BY <1>2 DEF Analyse
    <2> HIDE DEF cl
    <2>2. /\ result'.kind = kind /\ result'.reply = reply /\ result'.task = task
          /\ result'.skipped = FALSE /\ result'.edges = edges
          /\ result'.lines = GapLines(reply, cl, edges)
      BY <2>1 DEF NoResult
    <2>3. QED
      BY <1>2, <2>1, <2>2 DEF cl
  <1>3. QED
    BY <1>1, <1>2

(* The cleats of a reply.                                                         *)
LEMMA CleatsAreOfTheReply ==
  ASSUME NEW reply \in Replies, NEW task
  PROVE  LET cl == Classified(reply, task)
         IN  /\ reply \in Seq(Detection) /\ IsFiniteSet(DOMAIN reply)
             /\ cl.upLong \subseteq DOMAIN reply /\ cl.upShort \subseteq DOMAIN reply
             /\ cl.dnLong \subseteq DOMAIN reply /\ cl.dnShort \subseteq DOMAIN reply
  <1>1. reply \in Seq(Detection)
    BY RepliesAssumption
  <1>2. IsFiniteSet(DOMAIN reply)
    <2>1. DOMAIN reply = 1..Len(reply) /\ Len(reply) \in Nat
      BY <1>1
    <2>2. QED
      BY <2>1, FS_Interval
  <1>3. /\ UpCleats(reply) \subseteq DOMAIN reply /\ DownCleats(reply) \subseteq DOMAIN reply
        /\ Risers(reply) \subseteq DOMAIN reply
    BY DEF UpCleats, DownCleats, Risers, With
  <1>4. CASE task = "T2"
    BY <1>1, <1>2, <1>3, <1>4 DEF Classified
  <1>5. CASE task # "T2"
    BY <1>1, <1>2, <1>3, <1>5 DEF Classified
  <1>6. QED
    BY <1>4, <1>5

(* What EdgeFitter is given are points with whole coordinates.                          *)
LEMMA PointsOfCleats ==
  ASSUME NEW reply, reply \in Seq(Detection), NEW cleats \in SUBSET DOMAIN reply
  PROVE  /\ BottomPoints(reply, cleats) \in [cleats -> Point]
         /\ TopPoints(reply, cleats) \in [cleats -> Point]
  <1>1. \A i \in cleats : reply[i] \in Detection
    OBVIOUS
  <1>2. \A i \in cleats : reply[i].x \in Int /\ reply[i].top \in Int /\ reply[i].bottom \in Int
    BY <1>1 DEF Detection
  <1>3. QED
    BY <1>2 DEF BottomPoints, TopPoints, Point

(* The fits of an analysis are lines, and so are its gap lines' bases.                 *)
LEMMA EdgesFitted ==
  ASSUME NEW reply \in Replies, NEW task,
         NEW edges \in EdgesOf(reply, Classified(reply, task))
  PROVE  /\ DOMAIN edges = {"upLong", "upShort", "dnLong", "dnShort"}
         /\ \A e \in DOMAIN edges : edges[e] \in Fitted
  <1> DEFINE cl == Classified(reply, task)
  <1>1. /\ reply \in Seq(Detection) /\ IsFiniteSet(DOMAIN reply)
        /\ cl.upLong \subseteq DOMAIN reply /\ cl.upShort \subseteq DOMAIN reply
        /\ cl.dnLong \subseteq DOMAIN reply /\ cl.dnShort \subseteq DOMAIN reply
    BY CleatsAreOfTheReply
  <1>2. DOMAIN edges = {"upLong", "upShort", "dnLong", "dnShort"}
    BY DEF EdgesOf
  <1>3. /\ edges.upLong \in RansacFits(BottomPoints(reply, cl.upLong))
        /\ edges.upShort \in RansacFits(BottomPoints(reply, cl.upShort))
        /\ edges.dnLong \in RansacFits(TopPoints(reply, cl.dnLong))
        /\ edges.dnShort \in RansacFits(TopPoints(reply, cl.dnShort))
    BY DEF EdgesOf
  <1> HIDE DEF cl
  <1>4. ASSUME NEW cleats \in SUBSET DOMAIN reply
        PROVE  /\ RansacFits(BottomPoints(reply, cleats)) \subseteq Fitted
               /\ RansacFits(TopPoints(reply, cleats)) \subseteq Fitted
    <2>1. ASSUME NEW pts \in [cleats -> Point], NEW line \in RansacFits(pts)
          PROVE  line \in Fitted
      <3>1. IsFiniteSet(cleats)
        BY <1>1, <1>4, FS_Subset
      <3>2. PICK T \in SUBSET cleats : \E sub \in [T -> Point] : line = FitLine(sub)
        BY <2>1, <3>1, RansacFrom
      <3>3. PICK sub \in [T -> Point] : line = FitLine(sub)
        BY <3>2
      <3>4. IsFiniteSet(T)
        BY <3>1, FS_Subset
      <3>5. QED
        BY <3>3, <3>4, FitIsFitted
    <2>2. QED
      BY <1>1, <1>4, <2>1, PointsOfCleats
  <1>5. QED
    BY <1>1, <1>2, <1>3, <1>4

(* The loop of perpendicular_to_line_ ends within its bound.                            *)
LEMMA StepsBounded ==
  ASSUME NEW up, NEW dn, NEW x
  PROVE  StepsTo(up, dn, x) \in 1..MaxSteps
  <1> DEFINE N == {MaxSteps} \cup {i \in 1..MaxSteps : Reached(up, dn, x, i)}
  <1>1. N \in SUBSET (1..MaxSteps) /\ N # {} /\ 1..MaxSteps \subseteq Int
    BY MaxStepsAssumption
  <1>2. IsFiniteSet(N)
    <2>1. IsFiniteSet(1..MaxSteps)
      BY MaxStepsAssumption, FS_Interval
    <2>2. QED
      BY <1>1, <2>1, FS_Subset
  <1>3. StepsTo(up, dn, x) = Min(N)
    BY DEF StepsTo
  <1> HIDE DEF N
  <1>4. QED
    BY <1>1, <1>2, <1>3, Extremes

(* The lines of an analysis start at detections and stand on fitted edges.                *)
LEMMA LinesTyped ==
  ASSUME NEW reply \in Replies, NEW cl, NEW edges,
         cl.upShort \subseteq DOMAIN reply, cl.upLong \subseteq DOMAIN reply,
         edges.upShort \in Fitted, edges.upLong \in Fitted,
         NEW line \in GapLines(reply, cl, edges)
  PROVE  /\ line.type \in {"up", "down"} /\ line.from \in Detection
         /\ line.up \in Fitted \ {NoLine} /\ line.steps \in 1..MaxSteps
  <1>1. ASSUME NEW type \in {"up", "down"}, NEW cleats \in SUBSET DOMAIN reply,
               NEW up \in Fitted, NEW dn, line \in LinesOf(type, reply, cleats, up, dn)
        PROVE  /\ line.type \in {"up", "down"} /\ line.from \in Detection
               /\ line.up \in Fitted \ {NoLine} /\ line.steps \in 1..MaxSteps
    <2>1. up # NoLine
      BY <1>1 DEF LinesOf
    <2>2. PICK i \in cleats : line = GapLine(type, reply[i], up, dn)
      BY <1>1 DEF LinesOf
    <2>3. line.type = type /\ line.from = reply[i] /\ line.up = up
      BY <2>2 DEF GapLine
    <2>4. line.steps \in 1..MaxSteps
      BY <2>2, StepsBounded DEF GapLine
    <2>5. reply[i] \in Detection
      BY RepliesAssumption
    <2>6. QED
      BY <1>1, <2>1, <2>3, <2>4, <2>5
  <1>2. \/ line \in LinesOf("up", reply, cl.upShort, edges.upShort, edges.dnLong)
        \/ line \in LinesOf("down", reply, cl.upLong, edges.upLong, edges.dnShort)
        \/ line \in LinesOf("down", reply, Gaps(reply), edges.upLong, edges.dnShort)
    BY DEF GapLines
  <1>3. Gaps(reply) \subseteq DOMAIN reply
    BY DEF Gaps, With
  <1>4. QED
    BY <1>1, <1>2, <1>3

(* extracted.gaps[0] is a detection of the reply.                                     *)
LEMMA FirstGapIsDetection ==
  ASSUME NEW reply \in Replies, Gaps(reply) # {}
  PROVE  FirstGap(reply) \in Detection
  <1>1. reply \in Seq(Detection) /\ Gaps(reply) \subseteq DOMAIN reply /\ Len(reply) \in Nat
    BY RepliesAssumption DEF Gaps, With
  <1>2. IsFiniteSet(Gaps(reply)) /\ Gaps(reply) \subseteq Int
    <2>1. DOMAIN reply = 1..Len(reply) /\ 1..Len(reply) \subseteq Int
      BY <1>1
    <2>2. IsFiniteSet(1..Len(reply))
      BY <1>1, FS_Interval
    <2>3. QED
      BY <1>1, <2>1, <2>2, FS_Subset
  <1>3. Min(Gaps(reply)) \in DOMAIN reply
    BY <1>1, <1>2, Extremes
  <1>4. QED
    BY <1>1, <1>3 DEF FirstGap

(* A result without an analysis, and one whose analysis ended early, is typed.             *)
LEMMA WithoutEdges ==
  ASSUME previous' \in Detection \cup {NoGap}, analysed' \in Detection \cup {NoGap},
         result'.kind \in {"none", "gap", "other", "ai_test"}, result'.reply \in Replies \cup {<<>>},
         result'.task \in TaskIds, result'.skipped \in BOOLEAN,
         result'.edges = NoEdges, result'.lines = {}
  PROVE  GapTypeOK'
  <1>1. /\ DOMAIN NoEdges = {"upLong", "upShort", "dnLong", "dnShort"}
        /\ \A e \in DOMAIN NoEdges : NoEdges[e] = NoLine
    BY DEF NoEdges
  <1>2. \A e \in DOMAIN NoEdges : NoEdges[e] \in Fitted
    BY <1>1 DEF Fitted
  <1>3. QED
    BY <1>1, <1>2 DEF GapTypeOK

(* So is one that was analysed.                                                      *)
LEMMA AnalyseTyped ==
  ASSUME GapTypeOK, NEW kind \in {"gap", "ai_test"}, NEW reply \in Replies,
         NEW task \in TaskIds, Analyse(kind, reply, task),
         previous' \in Detection \cup {NoGap}, analysed' \in Detection \cup {NoGap}
  PROVE  GapTypeOK'
  <1>1. /\ result'.kind \in {"none", "gap", "other", "ai_test"}
        /\ result'.reply \in Replies \cup {<<>>}
        /\ result'.task \in TaskIds /\ result'.skipped \in BOOLEAN
    BY Analysed
  <1>2. CASE NoCleats(reply, task)
    <2>1. result'.edges = NoEdges /\ result'.lines = {}
      BY <1>2 DEF Analyse, NoResult
    <2>2. QED
      BY <1>1, <2>1, WithoutEdges
  <1>3. CASE ~NoCleats(reply, task)
    <2> DEFINE cl == Classified(reply, task)
               edges == result'.edges
    <2>1. edges \in EdgesOf(reply, cl) /\ result'.lines = GapLines(reply, cl, edges)
      BY <1>3, Analysed
    <2>2. cl.upShort \subseteq DOMAIN reply /\ cl.upLong \subseteq DOMAIN reply
      BY CleatsAreOfTheReply
    <2> HIDE DEF edges
    <2>3. /\ DOMAIN edges = {"upLong", "upShort", "dnLong", "dnShort"}
          /\ \A e \in DOMAIN edges : edges[e] \in Fitted
      BY <2>1, EdgesFitted
    <2>4. edges.upShort \in Fitted /\ edges.upLong \in Fitted
      BY <2>3
    <2> HIDE DEF cl
    <2>5. \A line \in result'.lines :
            /\ line.type \in {"up", "down"} /\ line.from \in Detection
            /\ line.up \in Fitted \ {NoLine} /\ line.steps \in 1..MaxSteps
      <3>1. SUFFICES ASSUME NEW line \in GapLines(reply, cl, edges)
                     PROVE  /\ line.type \in {"up", "down"} /\ line.from \in Detection
                            /\ line.up \in Fitted \ {NoLine} /\ line.steps \in 1..MaxSteps
        BY <2>1
      <3>2. QED
        BY <2>2, <2>4, LinesTyped
    <2>6. QED
      BY <1>1, <2>3, <2>5 DEF GapTypeOK, edges
  <1>4. QED
    BY <1>2, <1>3

(* And what the extractor takes for the task.                                          *)
LEMMA TaskTyped ==
  ASSUME NEW reply, NEW unknown \in {"Unknown", "AI Test"}
  PROVE  TaskOf(reply, unknown) \in TaskIds
  BY DEF TaskOf, TaskIds

(* The state of the pipeline and of SameGapChecker is well typed; in particular no edge is   *)
(* ever upright or degenerate, and the loop over the perpendicular ends within its bound.    *)
THEOREM GapTypeCorrect == GapSpec => []GapTypeOK
  <1>1. GapInit => GapTypeOK
    <2>1. SUFFICES ASSUME GapInit PROVE GapTypeOK
      OBVIOUS
    <2>2. /\ DOMAIN NoEdges = {"upLong", "upShort", "dnLong", "dnShort"}
          /\ \A e \in DOMAIN NoEdges : NoEdges[e] = NoLine
      BY DEF NoEdges
    <2>3. \A e \in DOMAIN NoEdges : NoEdges[e] \in Fitted
      BY <2>2 DEF Fitted
    <2>4. /\ result.kind = "none" /\ result.reply = <<>> /\ result.task = "Unknown"
          /\ result.skipped = FALSE /\ result.edges = NoEdges /\ result.lines = {}
      BY <2>1 DEF GapInit, NoResult
    <2>5. "Unknown" \in TaskIds
      BY DEF TaskIds
    <2>6. QED
      BY <2>1, <2>2, <2>3, <2>4, <2>5 DEF GapTypeOK, GapInit
  <1>2. GapTypeOK /\ [GapNext]_gapVars => GapTypeOK'
    <2>0. SUFFICES ASSUME GapTypeOK, [GapNext]_gapVars PROVE GapTypeOK'
      OBVIOUS
    <2>1. ASSUME NEW reply \in Replies, InspectGap(reply) PROVE GapTypeOK'
      <3> DEFINE task == TaskOf(reply, "Unknown")
                 gap == FirstGap(reply)
      <3>1. task \in TaskIds
        BY TaskTyped
      <3>2. previous' \in Detection \cup {NoGap} /\ analysed' \in Detection \cup {NoGap}
        BY <2>0, <2>1, FirstGapIsDetection DEF InspectGap, Remembered, GapTypeOK
      <3> HIDE DEF task
      <3>3. CASE Gaps(reply) # {} /\ SameGap(gap)
        <4>1. result' = [NoResult EXCEPT !.kind = "gap", !.reply = reply, !.task = task,
                                         !.skipped = TRUE]
          BY <2>1, <3>3 DEF InspectGap, task
        <4>2. /\ result'.kind = "gap" /\ result'.reply = reply /\ result'.task = task
              /\ result'.skipped = TRUE /\ result'.edges = NoEdges /\ result'.lines = {}
          BY <4>1 DEF NoResult
        <4>3. QED
          BY <3>1, <3>2, <4>2, WithoutEdges
      <3>4. CASE ~(Gaps(reply) # {} /\ SameGap(gap))
        <4>1. Analyse("gap", reply, task)
          BY <2>1, <3>4 DEF InspectGap, task
        <4>2. QED
          BY <2>0, <3>1, <3>2, <4>1, AnalyseTyped
      <3>5. QED
        BY <3>3, <3>4
    <2>2. ASSUME NEW reply \in Replies, InspectOther(reply) PROVE GapTypeOK'
      <3> DEFINE task == TaskOf(reply, "Unknown")
      <3>1. task \in TaskIds
        BY TaskTyped
      <3>2. result' = [NoResult EXCEPT !.kind = "other", !.reply = reply, !.task = task]
        BY <2>2 DEF InspectOther
      <3> HIDE DEF task
      <3>3. previous' \in Detection \cup {NoGap} /\ analysed' \in Detection \cup {NoGap}
        BY <2>0, <2>2 DEF InspectOther, GapTypeOK
      <3>4. /\ result'.kind = "other" /\ result'.reply = reply /\ result'.task = task
            /\ result'.skipped = FALSE /\ result'.edges = NoEdges /\ result'.lines = {}
        BY <3>2 DEF NoResult
      <3>5. QED
        BY <3>1, <3>3, <3>4, WithoutEdges
    <2>3. ASSUME NEW reply \in Replies, TestImage(reply) PROVE GapTypeOK'
      <3>1. previous' \in Detection \cup {NoGap} /\ analysed' \in Detection \cup {NoGap}
        BY <2>0, <2>3 DEF TestImage, GapTypeOK
      <3>2. TaskOf(reply, "AI Test") \in TaskIds
        BY TaskTyped
      <3>3. Analyse("ai_test", reply, TaskOf(reply, "AI Test"))
        BY <2>3 DEF TestImage
      <3>4. QED
        BY <2>0, <3>1, <3>2, <3>3, AnalyseTyped
    <2>4. CASE Publish
      <3>1. result' = NoResult /\ previous' = previous
        BY <2>4 DEF Publish
      <3>2. analysed' \in Detection \cup {NoGap}
        <4>1. Gaps(result.reply) # {} => result.reply # <<>>
          BY DEF Gaps, With
        <4>2. QED
          BY <2>0, <2>4, <4>1, FirstGapIsDetection DEF Publish, GapTypeOK
      <3>3. /\ result'.kind = "none" /\ result'.reply = <<>> /\ result'.task = "Unknown"
            /\ result'.skipped = FALSE /\ result'.edges = NoEdges /\ result'.lines = {}
        BY <3>1 DEF NoResult
      <3>4. previous' \in Detection \cup {NoGap}
        BY <2>0, <3>1 DEF GapTypeOK
      <3>5. "Unknown" \in TaskIds
        BY DEF TaskIds
      <3>6. QED
        BY <3>2, <3>3, <3>4, <3>5, WithoutEdges
    <2>5. CASE UNCHANGED gapVars
      BY <2>0, <2>5 DEF GapTypeOK, gapVars
    <2>6. QED
      BY <2>0, <2>1, <2>2, <2>3, <2>4, <2>5 DEF GapNext
  <1>3. QED
    BY <1>1, <1>2, PTL DEF GapSpec

\* The gap the checker compares with is that of the last result that was analysed, or
\* that of the result that is about to be published.
ComparedWithAnalysed ==
  IF result.kind = "gap" /\ Gaps(result.reply) # {} /\ ~result.skipped
    THEN previous = FirstGap(result.reply) ELSE previous = analysed

SInv == ComparedWithAnalysed /\ SkippedLikeAnalysed

(* A gap is skipped exactly when it is like the gap of the last result that was analysed,  *)
(* whatever came between: SameGapChecker does not move its gap along when it skips.        *)
THEOREM SkipsOnlyTheAnalysedGap == GapSpec => []SkippedLikeAnalysed
  <1>1. GapInit => SInv
    BY DEF GapInit, SInv, ComparedWithAnalysed, SkippedLikeAnalysed, NoResult
  <1>2. SInv /\ [GapNext]_gapVars => SInv'
    <2>0. SUFFICES ASSUME SInv, [GapNext]_gapVars PROVE SInv'
      OBVIOUS
    <2>1. ASSUME NEW reply \in Replies, InspectGap(reply) PROVE SInv'
      <3> DEFINE gaps == Gaps(reply)
                 gap == FirstGap(reply)
                 task == TaskOf(reply, "Unknown")
      <3>1. previous = analysed /\ analysed' = analysed
        BY <2>0, <2>1 DEF SInv, ComparedWithAnalysed, InspectGap, NoResult
      <3>2. CASE gaps # {} /\ SameGap(gap)
        <4>1. result' = [NoResult EXCEPT !.kind = "gap", !.reply = reply, !.task = task,
                                         !.skipped = TRUE]
          BY <2>1, <3>2 DEF InspectGap
        <4>2. result'.kind = "gap" /\ result'.reply = reply /\ result'.skipped = TRUE
          BY <4>1 DEF NoResult
        <4>3. previous' = previous
          BY <2>1, <3>2 DEF InspectGap, Remembered
        <4>4. analysed' # NoGap /\ Similar(gap, analysed')
          BY <3>1, <3>2 DEF SameGap
        <4>5. QED
          BY <3>1, <4>2, <4>3, <4>4 DEF SInv, ComparedWithAnalysed, SkippedLikeAnalysed
      <3>3. CASE ~(gaps # {} /\ SameGap(gap))
        <4>1. Analyse("gap", reply, task)
          BY <2>1, <3>3 DEF InspectGap
        <4>2. result'.kind = "gap" /\ result'.reply = reply /\ result'.skipped = FALSE
          BY <4>1, Analysed
        <4>3. previous' = IF gaps = {} THEN previous ELSE gap
          BY <2>1, <3>3 DEF InspectGap, Remembered
        <4>4. gaps # {} => ~(analysed' # NoGap /\ Similar(gap, analysed'))
          BY <3>1, <3>3 DEF SameGap
        <4>5. QED
          BY <3>1, <4>2, <4>3, <4>4 DEF SInv, ComparedWithAnalysed, SkippedLikeAnalysed
      <3>4. QED
        BY <3>2, <3>3
    <2>2. ASSUME NEW reply \in Replies, InspectOther(reply) PROVE SInv'
      <3>1. previous = analysed /\ analysed' = analysed /\ previous' = previous
        BY <2>0, <2>2 DEF SInv, ComparedWithAnalysed, InspectOther, NoResult
      <3>2. result'.kind = "other"
        BY <2>2 DEF InspectOther, NoResult
      <3>3. QED
        BY <3>1, <3>2 DEF SInv, ComparedWithAnalysed, SkippedLikeAnalysed
    <2>3. ASSUME NEW reply \in Replies, TestImage(reply) PROVE SInv'
      <3>1. previous = analysed /\ analysed' = analysed /\ previous' = previous
        BY <2>0, <2>3 DEF SInv, ComparedWithAnalysed, TestImage, NoResult
      <3>2. result'.kind = "ai_test"
        BY <2>3, Analysed DEF TestImage
      <3>3. QED
        BY <3>1, <3>2 DEF SInv, ComparedWithAnalysed, SkippedLikeAnalysed
    <2>4. CASE Publish
      <3>1. previous' = analysed' /\ result'.kind = "none"
        BY <2>0, <2>4 DEF SInv, ComparedWithAnalysed, Publish, NoResult
      <3>2. QED
        BY <3>1 DEF SInv, ComparedWithAnalysed, SkippedLikeAnalysed
    <2>5. CASE UNCHANGED gapVars
      BY <2>0, <2>5 DEF SInv, ComparedWithAnalysed, SkippedLikeAnalysed, gapVars
    <2>6. QED
      BY <2>0, <2>1, <2>2, <2>3, <2>4, <2>5 DEF GapNext
  <1>3. SInv => SkippedLikeAnalysed
    BY DEF SInv
  <1>4. QED
    BY <1>1, <1>2, <1>3, PTL DEF GapSpec

(* The median of integers is one of them, at most half of them (rounded down) are less, and  *)
(* more than half are not greater: it is values[values.size() / 2] once they are sorted.      *)
THEOREM MedianIsMiddle ==
  ASSUME NEW S, IsFiniteSet(S), S # {}, NEW f \in [S -> Int]
  PROVE  LET half == Cardinality(S) \div 2
         IN  /\ Median(f) \in Range(f) /\ Median(f) \in Int
             /\ Cardinality({i \in S : f[i] < Median(f)}) <= half
             /\ Cardinality({i \in S : f[i] <= Median(f)}) > half
  <1> DEFINE n == Cardinality(S)
             half == n \div 2
             m == Median(f)
             NotAbove(v) == {i \in S : f[i] <= v}
             V == {v \in Range(f) : Cardinality(NotAbove(v)) > half}
  <1>1. DOMAIN f = S /\ n \in Nat /\ n # 0
    BY FS_CardinalityType, FS_EmptySet
  <1>2. Range(f) = {f[i] : i \in S}
    BY <1>1 DEF Range
  <1>3. IsFiniteSet(Range(f)) /\ Range(f) \subseteq Int /\ Range(f) # {}
    <2>1. f \in Surjection(S, Range(f))
      BY <1>2 DEF Surjection
    <2>2. QED
      BY <1>2, <2>1, FS_Surjection
  <1>4. Max(Range(f)) \in Range(f) /\ \A y \in Range(f) : y <= Max(Range(f))
    BY <1>3, Extremes
  <1>5. NotAbove(Max(Range(f))) = S
    BY <1>2, <1>4
  <1>6. half \in Nat /\ n > half
    <2> HIDE DEF n
    <2>1. QED
      BY <1>1
  <1>7. Max(Range(f)) \in V
    BY <1>4, <1>5, <1>6
  <1>8. IsFiniteSet(V) /\ V \subseteq Int /\ V # {}
    BY <1>3, <1>7, FS_Subset
  <1>9. m = Min(V)
    BY <1>1 DEF Median
  <1> HIDE DEF V, m
  <1>10. m \in V /\ \A v \in V : m <= v
    BY <1>8, <1>9, Extremes
  <1>11. m \in Range(f) /\ m \in Int /\ Cardinality(NotAbove(m)) > half
    BY <1>3, <1>10 DEF V
  <1>12. Cardinality({i \in S : f[i] < m}) <= half
    <2> DEFINE B == {i \in S : f[i] < m}
               W == {v \in Range(f) : v < m}
    <2>1. SUFFICES ASSUME ~(Cardinality(B) <= half) PROVE FALSE
      OBVIOUS
    <2>2. IsFiniteSet(B) /\ Cardinality(B) \in Nat
      BY FS_Subset, FS_CardinalityType
    <2>3. Cardinality(B) > half
      <3> HIDE DEF B, half
      <3>1. QED
        BY <1>6, <2>1, <2>2
    <2>4. B # {}
      <3>1. B = {} => Cardinality(B) = 0
        BY FS_EmptySet
      <3> HIDE DEF B, half
      <3>2. QED
        BY <1>6, <2>3, <3>1
    <2>5. W # {} /\ W \subseteq Int /\ IsFiniteSet(W)
      BY <1>2, <1>3, <2>4, FS_Subset
    <2> DEFINE w == Max(W)
    <2> HIDE DEF w
    <2>6. w \in W /\ \A v \in W : v <= w
      <3> HIDE DEF W
      <3>1. QED
        BY <2>5, Extremes DEF w
    <2>7. w \in Range(f) /\ w \in Int /\ w < m
      BY <1>3, <2>6
    <2>8. NotAbove(w) = B
      <3>1. ASSUME NEW i \in S PROVE f[i] <= w <=> f[i] < m
        <4>1. f[i] \in Range(f) /\ f[i] \in Int
          BY <1>2
        <4>2. f[i] < m => f[i] <= w
          BY <2>6, <4>1
        <4>3. f[i] <= w => f[i] < m
          BY <1>11, <2>7, <4>1
        <4>4. QED
          BY <4>2, <4>3
      <3>2. QED
        BY <3>1
    <2>9. w \in V
      BY <2>3, <2>7, <2>8 DEF V
    <2>10. m <= w
      BY <1>10, <2>9
    <2>11. QED
      BY <1>11, <2>7, <2>10
  <1>13. QED
    BY <1>11, <1>12 DEF m

(* What is said of the lines of an analysis.                                      *)
LEMMA LinesFromCleats ==
  ASSUME NEW reply \in Replies, NEW task, NEW edges,
         NEW up \in GapLines(reply, Classified(reply, task), edges),
         NEW dn \in GapLines(reply, Classified(reply, task), edges), up.type = "up"
  PROVE  /\ task # "T2"
         /\ dn.type = "down" => up.from.bottom < dn.from.bottom
  <1> DEFINE cl == Classified(reply, task)
             ups == LinesOf("up", reply, cl.upShort, edges.upShort, edges.dnLong)
             downs == LinesOf("down", reply, cl.upLong, edges.upLong, edges.dnShort)
             cleats == UpCleats(reply)
             median == Median(Bottoms(reply, cleats))
  <1>1. \A line \in ups : line.type = "up" /\ \E i \in cl.upShort : line.from = reply[i]
    BY DEF LinesOf, GapLine
  <1>2. \A line \in downs : line.type = "down" /\ \E i \in cl.upLong : line.from = reply[i]
    BY DEF LinesOf, GapLine
  <1>3. \A line \in LinesOf("down", reply, Gaps(reply), edges.upLong, edges.dnShort) :
          line.type = "down"
    BY DEF LinesOf, GapLine
  <1>4. up \in ups
    BY <1>2, <1>3 DEF GapLines
  <1>5. dn \in ups \cup downs
    BY <1>4 DEF GapLines
  <1>6. PICK i \in cl.upShort : up.from = reply[i]
    BY <1>1, <1>4
  <1>7. task # "T2"
    BY <1>6 DEF Classified
  <1>8. /\ cl.upShort = {h \in cleats : ~Low(reply, h, cleats)}
        /\ cl.upLong = {h \in cleats : Low(reply, h, cleats)}
    BY <1>7 DEF Classified
  <1>9. /\ reply \in Seq(Detection) /\ IsFiniteSet(DOMAIN reply) /\ cleats \subseteq DOMAIN reply
    BY CleatsAreOfTheReply DEF UpCleats, With
  <1>10. IsFiniteSet(cleats) /\ \A h \in cleats : reply[h].bottom \in Int
    <2>1. \A h \in DOMAIN reply : reply[h] \in Detection
      BY <1>9
    <2>2. QED
      BY <1>9, <2>1, FS_Subset DEF Detection
  <1>11. i \in cleats /\ ~(reply[i].bottom >= median)
    BY <1>6, <1>8 DEF Low
  <1>12. median \in Int
    <2>1. Bottoms(reply, cleats) \in [cleats -> Int]
      BY <1>10 DEF Bottoms
    <2> HIDE DEF cleats
    <2>2. QED
      BY <1>10, <1>11, <2>1, MedianIsMiddle
  <1>13. ASSUME dn.type = "down" PROVE up.from.bottom < dn.from.bottom
    <2>1. dn \in downs
      BY <1>1, <1>5, <1>13
    <2>2. PICK j \in cl.upLong : dn.from = reply[j]
      BY <1>2, <2>1
    <2>3. j \in cleats /\ reply[j].bottom >= median
      BY <1>8, <2>2 DEF Low
    <2> DEFINE s == reply[i].bottom
               t == reply[j].bottom
    <2>4. s \in Int /\ t \in Int /\ ~(s >= median) /\ t >= median
      BY <1>10, <1>11, <2>3
    <2> HIDE DEF s, t, median
    <2>5. s < t
      BY <1>12, <2>4
    <2>6. QED
      BY <1>6, <2>2, <2>5 DEF s, t
  <1>14. QED
    BY <1>7, <1>13

(* Up lines come from the cleats above the median, down lines from those at it or below,    *)
(* and of the second task there are none: CleatClassifier never gives the fitter of the     *)
(* short edge a cleat of the long one.                                              *)
THEOREM UpLinesStartHigher == GapSpec => []UpLinesFromShortCleats
  <1>1. GapInit => UpLinesFromShortCleats
    BY DEF GapInit, UpLinesFromShortCleats, NoResult
  <1>2. UpLinesFromShortCleats /\ [GapNext]_gapVars => UpLinesFromShortCleats'
    <2>0. SUFFICES ASSUME UpLinesFromShortCleats, [GapNext]_gapVars
                   PROVE  UpLinesFromShortCleats'
      OBVIOUS
    <2>1. ASSUME NEW kind, NEW reply \in Replies, NEW task, Analyse(kind, reply, task)
          PROVE  UpLinesFromShortCleats'
      <3>1. CASE NoCleats(reply, task)
        <4>1. result'.lines = {}
          BY <2>1, <3>1, Analysed
        <4>2. QED
          BY <4>1 DEF UpLinesFromShortCleats
      <3>2. CASE ~NoCleats(reply, task)
        <4>1. /\ result'.lines = GapLines(reply, Classified(reply, task), result'.edges)
              /\ result'.task = task
          BY <2>1, <3>2, Analysed
        <4>2. ASSUME NEW up \in result'.lines, NEW dn \in result'.lines, up.type = "up"
              PROVE  /\ result'.task # "T2"
                     /\ dn.type = "down" => up.from.bottom < dn.from.bottom
          BY <4>1, <4>2, LinesFromCleats
        <4>3. QED
          BY <4>2 DEF UpLinesFromShortCleats
      <3>3. QED
        BY <3>1, <3>2
    <2>2. ASSUME result'.lines = {} PROVE UpLinesFromShortCleats'
      BY <2>2 DEF UpLinesFromShortCleats
    <2>3. ASSUME NEW reply \in Replies, InspectGap(reply) PROVE UpLinesFromShortCleats'
      <3>1. CASE Gaps(reply) # {} /\ SameGap(FirstGap(reply))
        <4>1. result'.lines = {}
          BY <2>3, <3>1 DEF InspectGap, NoResult
        <4>2. QED
          BY <2>2, <4>1
      <3>2. CASE ~(Gaps(reply) # {} /\ SameGap(FirstGap(reply)))
        BY <2>1, <2>3, <3>2 DEF InspectGap
      <3>3. QED
        BY <3>1, <3>2
    <2>4. ASSUME NEW reply \in Replies, InspectOther(reply) PROVE UpLinesFromShortCleats'
      <3>1. result'.lines = {}
        BY <2>4 DEF InspectOther, NoResult
      <3>2. QED
        BY <2>2, <3>1
    <2>5. ASSUME NEW reply \in Replies, TestImage(reply) PROVE UpLinesFromShortCleats'
      BY <2>1, <2>5 DEF TestImage
    <2>6. CASE Publish
      <3>1. result'.lines = {}
        BY <2>6 DEF Publish, NoResult
      <3>2. QED
        BY <2>2, <3>1
    <2>7. CASE UNCHANGED gapVars
      BY <2>0, <2>7 DEF UpLinesFromShortCleats, gapVars
    <2>8. QED
      BY <2>0, <2>3, <2>4, <2>5, <2>6, <2>7 DEF GapNext
  <1>3. QED
    BY <1>1, <1>2, PTL DEF GapSpec

(* The edges of an analysis fit the cleats they were fitted to.                       *)
LEMMA EdgesFit ==
  ASSUME NEW reply \in Replies, NEW task,
         NEW edges \in EdgesOf(reply, Classified(reply, task))
  PROVE  LET cl == Classified(reply, task)
         IN  /\ FitsWell(edges.upLong, BottomPoints(reply, cl.upLong))
             /\ FitsWell(edges.upShort, BottomPoints(reply, cl.upShort))
             /\ FitsWell(edges.dnLong, TopPoints(reply, cl.dnLong))
             /\ FitsWell(edges.dnShort, TopPoints(reply, cl.dnShort))
  <1> DEFINE cl == Classified(reply, task)
  <1>1. /\ reply \in Seq(Detection) /\ IsFiniteSet(DOMAIN reply)
        /\ cl.upLong \subseteq DOMAIN reply /\ cl.upShort \subseteq DOMAIN reply
        /\ cl.dnLong \subseteq DOMAIN reply /\ cl.dnShort \subseteq DOMAIN reply
    BY CleatsAreOfTheReply
  <1>2. ASSUME NEW cleats \in SUBSET DOMAIN reply
        PROVE  /\ IsFiniteSet(cleats)
               /\ BottomPoints(reply, cleats) \in [cleats -> Point]
               /\ TopPoints(reply, cleats) \in [cleats -> Point]
    BY <1>1, <1>2, FS_Subset, PointsOfCleats
  <1>3. /\ edges.upLong \in RansacFits(BottomPoints(reply, cl.upLong))
        /\ edges.upShort \in RansacFits(BottomPoints(reply, cl.upShort))
        /\ edges.dnLong \in RansacFits(TopPoints(reply, cl.dnLong))
        /\ edges.dnShort \in RansacFits(TopPoints(reply, cl.dnShort))
    BY DEF EdgesOf
  <1> HIDE DEF cl
  <1>4. ASSUME NEW cleats \in SUBSET DOMAIN reply
        PROVE  /\ \A line \in RansacFits(BottomPoints(reply, cleats)) :
                    FitsWell(line, BottomPoints(reply, cleats))
               /\ \A line \in RansacFits(TopPoints(reply, cleats)) :
                    FitsWell(line, TopPoints(reply, cleats))
    BY <1>2, <1>4, RansacFitsWell
  <1>5. QED
    BY <1>1, <1>3, <1>4 DEF cl

(* Whatever pairs the random draw gives, every edge of an analysed reply is found if and    *)
(* only if two of its cleats have different x, and cleats on one line give that line: what   *)
(* EdgeFitter finds does not depend on its samples when it has nothing to choose from.      *)
THEOREM EdgesFound == GapSpec => []EdgesWhateverSamples
  <1>1. GapInit => EdgesWhateverSamples
    BY DEF GapInit, EdgesWhateverSamples, NoResult
  <1>2. EdgesWhateverSamples /\ [GapNext]_gapVars => EdgesWhateverSamples'
    <2>0. SUFFICES ASSUME EdgesWhateverSamples, [GapNext]_gapVars
                   PROVE  EdgesWhateverSamples'
      OBVIOUS
    <2>1. ASSUME NEW kind, NEW reply \in Replies, NEW task, Analyse(kind, reply, task)
          PROVE  EdgesWhateverSamples'
      <3>1. result'.reply = reply /\ result'.task = task
        BY <2>1, Analysed
      <3>2. CASE NoCleats(reply, task)
        BY <3>1, <3>2 DEF EdgesWhateverSamples
      <3>3. CASE ~NoCleats(reply, task)
        <4> DEFINE edges == result'.edges
        <4>1. edges \in EdgesOf(reply, Classified(reply, task))
          BY <2>1, <3>3, Analysed
        <4> HIDE DEF edges
        <4>2. LET cl == Classified(reply, task)
              IN  /\ FitsWell(edges.upLong, BottomPoints(reply, cl.upLong))
                  /\ FitsWell(edges.upShort, BottomPoints(reply, cl.upShort))
                  /\ FitsWell(edges.dnLong, TopPoints(reply, cl.dnLong))
                  /\ FitsWell(edges.dnShort, TopPoints(reply, cl.dnShort))
          BY <4>1, EdgesFit
        <4>3. QED
          BY <3>1, <4>2 DEF EdgesWhateverSamples, edges
      <3>4. QED
        BY <3>2, <3>3
    <2>2. ASSUME result'.kind \notin {"gap", "ai_test"} \/ result'.skipped = TRUE
          PROVE  EdgesWhateverSamples'
      BY <2>2 DEF EdgesWhateverSamples
    <2>3. ASSUME NEW reply \in Replies, InspectGap(reply) PROVE EdgesWhateverSamples'
      <3>1. CASE Gaps(reply) # {} /\ SameGap(FirstGap(reply))
        <4>1. result'.skipped = TRUE
          BY <2>3, <3>1 DEF InspectGap, NoResult
        <4>2. QED
          BY <2>2, <4>1
      <3>2. CASE ~(Gaps(reply) # {} /\ SameGap(FirstGap(reply)))
        BY <2>1, <2>3, <3>2 DEF InspectGap
      <3>3. QED
        BY <3>1, <3>2
    <2>4. ASSUME NEW reply \in Replies, InspectOther(reply) PROVE EdgesWhateverSamples'
      <3>1. result'.kind = "other"
        BY <2>4 DEF InspectOther, NoResult
      <3>2. QED
        BY <2>2, <3>1
    <2>5. ASSUME NEW reply \in Replies, TestImage(reply) PROVE EdgesWhateverSamples'
      BY <2>1, <2>5 DEF TestImage
    <2>6. CASE Publish
      <3>1. result'.kind = "none"
        BY <2>6 DEF Publish, NoResult
      <3>2. QED
        BY <2>2, <3>1
    <2>7. CASE UNCHANGED gapVars
      BY <2>0, <2>7 DEF EdgesWhateverSamples, gapVars
    <2>8. QED
      BY <2>0, <2>3, <2>4, <2>5, <2>6, <2>7 DEF GapNext
  <1>3. QED
    BY <1>1, <1>2, PTL DEF GapSpec
=============================================================================
