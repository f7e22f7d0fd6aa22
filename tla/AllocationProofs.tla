--------------------------- MODULE AllocationProofs ---------------------------
(***************************************************************************)
(* Allocation for any number of scenarios, any weights and any rounding:   *)
(* the shares are fair.                                                    *)
(*                                                                         *)
(* A total is a fold over a set, a recursion over its elements in an order *)
(* nobody chose.  Area counts the same sum as a set of cells, which needs  *)
(* no recursion: it shows that the recursion has a solution, and that the  *)
(* order does not matter.  The largest remainder is a matter of ranks,     *)
(* which are the numbers from 0 in some order.                             *)
(***************************************************************************)
EXTENDS Allocation, FiniteSetTheorems, TLAPS

-----------------------------------------------------------------------------
(* Induction over the subsets of a finite set, by a smallest one that is    *)
(* not in the set it should be in.                                          *)

Picked(s) == CHOOSE x \in s : TRUE

\* A set of subsets holds all of them when it holds each that is empty or is in
\* there without the element picked from it.
LEMMA SetInduction ==
    ASSUME NEW D, IsFiniteSet(D), NEW T, T \subseteq SUBSET D,
           \A s \in SUBSET D : s = {} \/ s \ {Picked(s)} \in T => s \in T
    PROVE  T = SUBSET D
<1> SUFFICES ASSUME (SUBSET D) \ T # {} PROVE FALSE
  OBVIOUS
<1>1. IsWellFoundedOn(StrictSubsetOrdering(D), SUBSET D)
  <2>1. FiniteSubsetsOf(D) = SUBSET D
    BY FS_FiniteSubsetsOfFinite
  <2>2. IsWellFoundedOn(StrictSubsetOrdering(D), FiniteSubsetsOf(D))
    BY FS_StrictSubsetOrderingWellFounded
  <2> QED BY <2>1, <2>2
<1>2. PICK s \in (SUBSET D) \ T : \A t \in (SUBSET D) \ T : <<t, s>> \notin StrictSubsetOrdering(D)
  <2> DEFINE R == StrictSubsetOrdering(D)
             S == SUBSET D
             U == (SUBSET D) \ T
  <2>1. IsWellFoundedOn(R, S) /\ U \subseteq S /\ U # {}
    BY <1>1
  <2> HIDE DEF R, S, U
  <2>2. \E x \in U : \A y \in U : ~ (<<y, x>> \in R)
    BY <2>1, WFMin
  <2> QED BY <2>2 DEF R, S, U
<1>3. Picked(s) \in s
  BY <1>2 DEF Picked
<1>4. <<s \ {Picked(s)}, s>> \in StrictSubsetOrdering(D)
  BY <1>2, <1>3 DEF StrictSubsetOrdering
<1> QED BY <1>2, <1>4

-----------------------------------------------------------------------------
(* The sum of an integer function over a set, as a number of cells.         *)

Cells(f, s) == {c \in s \X Nat : 1 <= c[2] /\ c[2] <= f[c[1]]}
Holes(f, s) == {c \in s \X Nat : 1 <= c[2] /\ c[2] <= -f[c[1]]}
Area(f, s) == Cardinality(Cells(f, s)) - Cardinality(Holes(f, s))

Integers(f) == IsFiniteSet(DOMAIN f) /\ \A i \in DOMAIN f : f[i] \in Int

\* A column has its height in cells.
LEMMA Column ==
    ASSUME NEW x, NEW n \in Int
    PROVE  /\ IsFiniteSet({x} \X (1..n))
           /\ Cardinality({x} \X (1..n)) = IF n > 0 THEN n ELSE 0
<1>1. IsFiniteSet(1..n) /\ Cardinality(1..n) = IF n > 0 THEN n ELSE 0
  <2>1. IsFiniteSet(1..n) /\ Cardinality(1..n) = IF 1 > n THEN 0 ELSE n - 1 + 1
    BY FS_Interval, 1 \in Int, Zenon
  <2> QED BY <2>1
<1>2. IsFiniteSet({x}) /\ Cardinality({x}) = 1
  BY FS_Singleton
<1>3. IsFiniteSet({x} \X (1..n)) /\ Cardinality({x} \X (1..n)) = Cardinality({x}) * Cardinality(1..n)
  BY <1>1, <1>2, FS_Product
<1>4. 1 * Cardinality(1..n) = Cardinality(1..n)
  BY <1>1
<1> QED BY <1>1, <1>2, <1>3, <1>4

\* The sizes of disjoint sets add up.
LEMMA Disjoint ==
    ASSUME NEW A, NEW B, IsFiniteSet(A), IsFiniteSet(B), A \cap B = {}
    PROVE  IsFiniteSet(A \cup B) /\ Cardinality(A \cup B) = Cardinality(A) + Cardinality(B)
<1>1. Cardinality(A) \in Nat /\ Cardinality(B) \in Nat
  BY FS_CardinalityType
<1>2. Cardinality(A \cap B) = 0
  BY FS_EmptySet
<1>3. /\ IsFiniteSet(A \cup B)
      /\ Cardinality(A \cup B) = Cardinality(A) + Cardinality(B) - Cardinality(A \cap B)
  BY FS_Union
<1> QED BY <1>1, <1>2, <1>3

\* Taking an element from a set takes its column from the cells.
LEMMA LastColumn ==
    ASSUME NEW f, Integers(f), NEW s \in SUBSET DOMAIN f, NEW x \in s
    PROVE  /\ f[x] \in Int /\ -f[x] \in Int
           /\ Cells(f, s) = Cells(f, s \ {x}) \cup ({x} \X (1..f[x]))
           /\ Cells(f, s \ {x}) \cap ({x} \X (1..f[x])) = {}
           /\ Holes(f, s) = Holes(f, s \ {x}) \cup ({x} \X (1..(-f[x])))
           /\ Holes(f, s \ {x}) \cap ({x} \X (1..(-f[x]))) = {}
<1>1. f[x] \in Int /\ -f[x] \in Int
  BY DEF Integers
<1> QED BY <1>1 DEF Cells, Holes

\* It leaves them finitely many, and as many fewer as the element counts for.
LEMMA CountCells ==
    ASSUME NEW f, Integers(f), NEW s \in SUBSET DOMAIN f, NEW x \in s,
           IsFiniteSet(Cells(f, s \ {x})), IsFiniteSet(Holes(f, s \ {x}))
    PROVE  /\ IsFiniteSet(Cells(f, s)) /\ IsFiniteSet(Holes(f, s))
           /\ Cardinality(Cells(f, s)) =
                 Cardinality(Cells(f, s \ {x})) + IF f[x] > 0 THEN f[x] ELSE 0
           /\ Cardinality(Holes(f, s)) =
                 Cardinality(Holes(f, s \ {x})) + IF -f[x] > 0 THEN -f[x] ELSE 0
<1> DEFINE E == Cells(f, s \ {x})
           H == Holes(f, s \ {x})
           n == f[x]
           m == -f[x]
           up == {x} \X (1..n)
           down == {x} \X (1..m)
<1>1. /\ n \in Int /\ m \in Int
      /\ Cells(f, s) = E \cup up /\ E \cap up = {}
      /\ Holes(f, s) = H \cup down /\ H \cap down = {}
  BY LastColumn
<1> HIDE DEF n, m
<1>2. /\ IsFiniteSet(up) /\ Cardinality(up) = IF n > 0 THEN n ELSE 0
      /\ IsFiniteSet(down) /\ Cardinality(down) = IF m > 0 THEN m ELSE 0
  BY <1>1, Column
<1>3. IsFiniteSet(E) /\ IsFiniteSet(H)
  OBVIOUS
<1> HIDE DEF E, H, up, down
<1>4. IsFiniteSet(E \cup up) /\ Cardinality(E \cup up) = Cardinality(E) + Cardinality(up)
  BY <1>1, <1>2, <1>3, Disjoint
<1>5. IsFiniteSet(H \cup down) /\ Cardinality(H \cup down) = Cardinality(H) + Cardinality(down)
  BY <1>1, <1>2, <1>3, Disjoint
<1> QED BY <1>1, <1>2, <1>4, <1>5 DEF E, H, n, m

\* The cells of a finite set are finitely many.
LEMMA FiniteCells ==
    ASSUME NEW f, Integers(f)
    PROVE  \A s \in SUBSET DOMAIN f : IsFiniteSet(Cells(f, s)) /\ IsFiniteSet(Holes(f, s))
<1> DEFINE T == {s \in SUBSET DOMAIN f : IsFiniteSet(Cells(f, s)) /\ IsFiniteSet(Holes(f, s))}
<1>1. ASSUME NEW s \in SUBSET DOMAIN f, s = {} PROVE s \in T
  <2>1. Cells(f, s) = {} /\ Holes(f, s) = {}
    BY <1>1 DEF Cells, Holes
  <2> QED BY <2>1, FS_EmptySet
<1>2. ASSUME NEW s \in SUBSET DOMAIN f, NEW x \in s, s \ {x} \in T PROVE s \in T
  <2>1. IsFiniteSet(Cells(f, s \ {x})) /\ IsFiniteSet(Holes(f, s \ {x}))
    BY <1>2
  <2>2. IsFiniteSet(Cells(f, s)) /\ IsFiniteSet(Holes(f, s))
    BY <2>1, CountCells, Zenon
  <2> QED BY <2>2
<1>3. T = SUBSET DOMAIN f
  <2>1. IsFiniteSet(DOMAIN f) /\ T \subseteq SUBSET DOMAIN f
    BY DEF Integers
  <2>2. \A s \in SUBSET DOMAIN f : s = {} \/ s \ {Picked(s)} \in T => s \in T
    <3>1. \A s \in SUBSET DOMAIN f : s = {} \/ Picked(s) \in s
      BY DEF Picked
    <3> HIDE DEF T
    <3> QED BY <1>1, <1>2, <3>1
  <2> HIDE DEF T
  <2> QED BY <2>1, <2>2, SetInduction
<1> QED BY <1>3

\* The sum over nothing is zero, and any element may be taken first.
LEMMA AreaStep ==
    ASSUME NEW f, Integers(f)
    PROVE  /\ Area(f, {}) = 0
           /\ \A s \in SUBSET DOMAIN f : Area(f, s) \in Int
           /\ \A s \in SUBSET DOMAIN f : \A x \in s : Area(f, s) = f[x] + Area(f, s \ {x})
<1>1. Area(f, {}) = 0
  <2>1. Cells(f, {}) = {} /\ Holes(f, {}) = {}
    BY DEF Cells, Holes
  <2> QED BY <2>1, FS_EmptySet DEF Area
<1>2. \A s \in SUBSET DOMAIN f : Area(f, s) \in Int
  BY FiniteCells, FS_CardinalityType DEF Area
<1>3. ASSUME NEW s \in SUBSET DOMAIN f, NEW x \in s PROVE Area(f, s) = f[x] + Area(f, s \ {x})
  <2>1. f[x] \in Int
    BY DEF Integers
  <2>2. IsFiniteSet(Cells(f, s \ {x})) /\ IsFiniteSet(Holes(f, s \ {x}))
    BY FiniteCells
  <2>3. Cardinality(Cells(f, s \ {x})) \in Nat /\ Cardinality(Holes(f, s \ {x})) \in Nat
    BY <2>2, FS_CardinalityType
  <2>4. /\ Cardinality(Cells(f, s)) =
              Cardinality(Cells(f, s \ {x})) + IF f[x] > 0 THEN f[x] ELSE 0
        /\ Cardinality(Holes(f, s)) =
              Cardinality(Holes(f, s \ {x})) + IF -f[x] > 0 THEN -f[x] ELSE 0
    BY <1>3, <2>2, CountCells
  <2> QED BY <2>1, <2>3, <2>4 DEF Area
<1> QED BY <1>1, <1>2, <1>3

\* The fold is the sum: its recursion has a solution, and no other.
LEMMA TotalIsArea ==
    ASSUME NEW f, Integers(f) PROVE Total(f) = Area(f, DOMAIN f)
<1> DEFINE D == DOMAIN f
           Unfolds(g) == g = [s \in SUBSET D |->
                                 IF s = {} THEN 0 ELSE f[Picked(s)] + g[s \ {Picked(s)}]]
           iter == CHOOSE g : Unfolds(g)
           area == [s \in SUBSET D |-> Area(f, s)]
<1>1. Total(f) = iter[D]
  BY DEF Total, FoldFunction, FoldFunctionOnSet, MapThenFoldSet, Picked
<1>2. \A s \in SUBSET D : s = {} \/ (Picked(s) \in s /\ s \ {Picked(s)} \in SUBSET D)
  BY DEF Picked
<1>3. Unfolds(area)
  <2>1. ASSUME NEW s \in SUBSET D
        PROVE  Area(f, s) = IF s = {} THEN 0 ELSE f[Picked(s)] + area[s \ {Picked(s)}]
    <3>1. CASE s = {}
      BY <3>1, AreaStep
    <3>2. CASE s # {}
      <4>1. Picked(s) \in s /\ s \ {Picked(s)} \in SUBSET D
        BY <1>2, <3>2
      <4>2. Area(f, s) = f[Picked(s)] + Area(f, s \ {Picked(s)})
        BY <4>1, AreaStep
      <4> QED BY <3>2, <4>1, <4>2
    <3> QED BY <3>1, <3>2
  <2> QED BY <2>1
<1>4. Unfolds(iter)
  BY <1>3
<1>5. \A s \in SUBSET D : iter[s] = IF s = {} THEN 0 ELSE f[Picked(s)] + iter[s \ {Picked(s)}]
  <2> HIDE DEF iter
  <2> QED BY <1>4
<1> HIDE DEF iter
<1> DEFINE T == {s \in SUBSET D : iter[s] = Area(f, s)}
<1>6. T = SUBSET D
  <2>1. ASSUME NEW s \in SUBSET D, s = {} \/ s \ {Picked(s)} \in T PROVE s \in T
    <3>1. CASE s = {}
      BY <1>5, <3>1, AreaStep
    <3>2. CASE s # {}
      <4>1. Picked(s) \in s /\ iter[s \ {Picked(s)}] = Area(f, s \ {Picked(s)})
        BY <1>2, <2>1, <3>2
      <4>2. Area(f, s) = f[Picked(s)] + Area(f, s \ {Picked(s)})
        BY <4>1, AreaStep
      <4> QED BY <1>5, <3>2, <4>1, <4>2
    <3> QED BY <3>1, <3>2
  <2>2. IsFiniteSet(D) /\ T \subseteq SUBSET D
    BY DEF Integers
  <2> HIDE DEF T
  <2> QED BY <2>1, <2>2, SetInduction
<1>7. D \in T
  BY <1>6
<1> QED BY <1>1, <1>7
-----------------------------------------------------------------------------
(* The laws of totals.                                                      *)

\* A total of integers is one.
LEMMA TotalType == ASSUME NEW f, Integers(f) PROVE Total(f) \in Int
BY TotalIsArea, AreaStep

\* Adding functions adds their totals.
LEMMA TotalOfSum ==
    ASSUME NEW f, NEW g, NEW h, Integers(f), Integers(g), Integers(h),
           DOMAIN g = DOMAIN f, DOMAIN h = DOMAIN f, \A i \in DOMAIN f : h[i] = f[i] + g[i]
    PROVE  Total(h) = Total(f) + Total(g)
<1> DEFINE D == DOMAIN f
           T == {s \in SUBSET D : Area(h, s) = Area(f, s) + Area(g, s)}
<1>1. ASSUME NEW s \in SUBSET D, s = {} \/ s \ {Picked(s)} \in T PROVE s \in T
  <2>1. CASE s = {}
    BY <2>1, AreaStep
  <2>2. CASE s # {}
    <3> DEFINE x == Picked(s)
               r == s \ {x}
    <3>1. x \in s /\ r \in SUBSET D
      BY <2>2 DEF Picked
    <3>2. Area(h, r) = Area(f, r) + Area(g, r)
      BY <1>1, <2>2
    <3> HIDE DEF x
    <3>3. /\ Area(h, s) = h[x] + Area(h, r) /\ Area(f, s) = f[x] + Area(f, r)
          /\ Area(g, s) = g[x] + Area(g, r)
      BY <3>1, AreaStep
    <3>4. /\ Area(f, r) \in Int /\ Area(g, r) \in Int /\ f[x] \in Int /\ g[x] \in Int
          /\ h[x] = f[x] + g[x]
      BY <3>1, AreaStep DEF Integers
    <3> HIDE DEF r
    <3> QED BY <3>2, <3>3, <3>4
  <2> QED BY <2>1, <2>2
<1>2. IsFiniteSet(D) /\ T \subseteq SUBSET D
  BY DEF Integers
<1>3. T = SUBSET D
  <2> HIDE DEF T
  <2> QED BY <1>1, <1>2, SetInduction
<1>4. D \in T
  BY <1>3
<1> QED BY <1>4, TotalIsArea

\* Multiplying a function multiplies its total.
LEMMA TotalOfMultiple ==
    ASSUME NEW f, NEW h, NEW c \in Int, Integers(f), Integers(h), DOMAIN h = DOMAIN f,
           \A i \in DOMAIN f : h[i] = c * f[i]
    PROVE  Total(h) = c * Total(f)
<1> DEFINE D == DOMAIN f
           T == {s \in SUBSET D : Area(h, s) = c * Area(f, s)}
<1>1. ASSUME NEW s \in SUBSET D, s = {} \/ s \ {Picked(s)} \in T PROVE s \in T
  <2>1. CASE s = {}
    BY <2>1, AreaStep
  <2>2. CASE s # {}
    <3> DEFINE x == Picked(s)
               r == s \ {x}
    <3>1. x \in s /\ r \in SUBSET D
      BY <2>2 DEF Picked
    <3>2. Area(h, r) = c * Area(f, r)
      BY <1>1, <2>2
    <3> HIDE DEF x
    <3>3. Area(h, s) = h[x] + Area(h, r) /\ Area(f, s) = f[x] + Area(f, r)
      BY <3>1, AreaStep
    <3>4. Area(f, r) \in Int /\ f[x] \in Int /\ h[x] = c * f[x]
      BY <3>1, AreaStep DEF Integers
    <3>5. \A a, b \in Int : c * (a + b) = c * a + c * b
      OBVIOUS
    <3> HIDE DEF r
    <3> QED BY <3>2, <3>3, <3>4, <3>5
  <2> QED BY <2>1, <2>2
<1>2. IsFiniteSet(D) /\ T \subseteq SUBSET D
  BY DEF Integers
<1>3. T = SUBSET D
  <2> HIDE DEF T
  <2> QED BY <1>1, <1>2, SetInduction
<1>4. D \in T
  BY <1>3
<1> QED BY <1>4, TotalIsArea

\* A sum of what is not negative is not either.
LEMMA AreaIsNatural ==
    ASSUME NEW f, Integers(f), NEW s \in SUBSET DOMAIN f, \A i \in s : f[i] >= 0
    PROVE  Area(f, s) \in Nat
<1>1. Holes(f, s) = {}
  BY DEF Holes, Integers
<1>2. Cardinality(Holes(f, s)) = 0
  BY <1>1, FS_EmptySet
<1>3. Cardinality(Cells(f, s)) \in Nat
  BY FiniteCells, FS_CardinalityType
<1> QED BY <1>2, <1>3 DEF Area

\* A function that is nowhere larger has no larger total.
LEMMA TotalIsMonotone ==
    ASSUME NEW f, NEW g, Integers(f), Integers(g), DOMAIN g = DOMAIN f,
           \A i \in DOMAIN f : f[i] <= g[i]
    PROVE  Total(f) <= Total(g)
<1> DEFINE d == [i \in DOMAIN f |-> g[i] - f[i]]
<1>1. Integers(d) /\ DOMAIN d = DOMAIN f /\ \A i \in DOMAIN d : d[i] >= 0
  BY DEF Integers
<1>2. \A i \in DOMAIN f : g[i] = f[i] + d[i]
  BY DEF Integers
<1> HIDE DEF d
<1>3. Total(g) = Total(f) + Total(d)
  BY <1>1, <1>2, TotalOfSum
<1>4. Total(d) \in Nat
  BY <1>1, TotalIsArea, AreaIsNatural
<1> QED BY <1>3, <1>4, TotalType

\* The total of ones over a set is its size.
LEMMA TotalCounts ==
    ASSUME NEW f, Integers(f), NEW B \in SUBSET DOMAIN f,
           \A i \in DOMAIN f : f[i] = IF i \in B THEN 1 ELSE 0
    PROVE  Total(f) = Cardinality(B)
<1> DEFINE D == DOMAIN f
<1>1. Cells(f, D) = B \X {1}
  <2>1. \A i \in D, k \in Nat : 1 <= k /\ k <= f[i] <=> i \in B /\ k = 1
    OBVIOUS
  <2> QED BY <2>1 DEF Cells
<1>2. Holes(f, D) = {}
  BY DEF Holes
<1>3. IsFiniteSet(B) /\ Cardinality(B) \in Nat
  BY FS_Subset, FS_CardinalityType DEF Integers
<1>4. IsFiniteSet({1}) /\ Cardinality({1}) = 1
  BY FS_Singleton
<1>5. Cardinality(B \X {1}) = Cardinality(B)
  <2>1. Cardinality(B \X {1}) = Cardinality(B) * Cardinality({1})
    BY <1>3, <1>4, FS_Product
  <2>2. Cardinality(B) * 1 = Cardinality(B)
    BY <1>3
  <2> QED BY <1>4, <2>1, <2>2
<1>6. Cardinality(Holes(f, D)) = 0
  BY <1>2, FS_EmptySet
<1>7. Total(f) = Cardinality(Cells(f, D)) - Cardinality(Holes(f, D))
  BY TotalIsArea DEF Area
<1> HIDE DEF D
<1> QED BY <1>1, <1>3, <1>5, <1>6, <1>7

-----------------------------------------------------------------------------
(* Ranks.  Ahead orders the scenarios, whatever the fractions are.          *)

\* The fractions of scenarios that are numbered.
Fractions(f) == Integers(f) /\ DOMAIN f \subseteq Int

Rank(f, i) == Cardinality(Ahead(f, i))

\* Who comes first has the smaller rank.
LEMMA RankIsStrict ==
    ASSUME NEW f, Fractions(f), NEW i \in DOMAIN f, NEW j \in DOMAIN f, i \in Ahead(f, j)
    PROVE  Rank(f, i) \in Nat /\ Rank(f, j) \in Nat /\ Rank(f, i) < Rank(f, j)
<1> DEFINE A == Ahead(f, i)
           B == Ahead(f, j)
<1>1. IsFiniteSet(DOMAIN f) /\ A \subseteq DOMAIN f /\ B \subseteq DOMAIN f
  BY DEF Fractions, Integers, Ahead
<1>2. i \notin A /\ A \cup {i} \subseteq B
  BY DEF Fractions, Integers, Ahead
<1> HIDE DEF A, B
<1>3. IsFiniteSet(A) /\ IsFiniteSet(B)
  BY <1>1, FS_Subset
<1>4. IsFiniteSet(A \cup {i}) /\ Cardinality(A \cup {i}) = Cardinality(A) + 1
  BY <1>2, <1>3, FS_AddElement
<1>5. Cardinality(A \cup {i}) <= Cardinality(B)
  BY <1>2, <1>3, FS_Subset
<1>6. Cardinality(A) \in Nat /\ Cardinality(B) \in Nat
  BY <1>3, FS_CardinalityType
<1> QED BY <1>4, <1>5, <1>6 DEF A, B, Rank

\* The ranks are the first numbers, each of them once.
LEMMA RanksAreAll ==
    ASSUME NEW f, Fractions(f)
    PROVE  [i \in DOMAIN f |-> Rank(f, i)] \in Bijection(DOMAIN f, 0..(Cardinality(DOMAIN f) - 1))
<1> DEFINE D == DOMAIN f
           n == Cardinality(D)
           ranks == [i \in D |-> Rank(f, i)]
<1>1. IsFiniteSet(D) /\ n \in Nat
  BY FS_CardinalityType DEF Fractions, Integers
<1>2. ASSUME NEW i \in D PROVE Rank(f, i) \in 0..(n - 1)
  <2>1. Ahead(f, i) \subseteq D \ {i}
    BY DEF Ahead, Fractions, Integers
  <2>2. IsFiniteSet(D \ {i}) /\ Cardinality(D \ {i}) = n - 1
    BY <1>1, FS_RemoveElement
  <2> HIDE DEF D, n
  <2>3. IsFiniteSet(Ahead(f, i)) /\ Cardinality(Ahead(f, i)) <= n - 1
    BY <2>1, <2>2, FS_Subset
  <2> QED BY <1>1, <2>3, FS_CardinalityType DEF Rank
<1>3. ASSUME NEW i \in D, NEW j \in D, Rank(f, i) = Rank(f, j) PROVE i = j
  <2> SUFFICES ASSUME i # j PROVE FALSE
    OBVIOUS
  <2>1. i \in Ahead(f, j) \/ j \in Ahead(f, i)
    BY DEF Ahead, Fractions, Integers
  <2> QED BY <1>3, <2>1, RankIsStrict
<1>4. ranks \in Injection(D, 0..(n - 1))
  BY <1>2, <1>3 DEF Injection, IsInjective
<1>5. IsFiniteSet(0..(n - 1)) /\ Cardinality(0..(n - 1)) = n
  <2>1. 0 \in Int /\ n - 1 \in Int
    BY <1>1
  <2>2. IsFiniteSet(0..(n - 1)) /\ Cardinality(0..(n - 1)) = IF 0 > n - 1 THEN 0 ELSE n - 1 - 0 + 1
    BY <2>1, FS_Interval, Zenon
  <2> QED BY <1>1, <2>2
<1>6. ranks \in Surjection(D, 0..(n - 1))
  <2> HIDE DEF ranks
  <2> QED BY <1>1, <1>4, <1>5, FS_Injection
<1> QED BY <1>4, <1>6 DEF Bijection

\* As many scenarios have a rank below a number as it says.
LEMMA RanksBelow ==
    ASSUME NEW f, Fractions(f), NEW r \in 0..Cardinality(DOMAIN f)
    PROVE  Cardinality({i \in DOMAIN f : Rank(f, i) < r}) = r
<1> DEFINE D == DOMAIN f
           n == Cardinality(D)
           ranks == [i \in D |-> Rank(f, i)]
           B == {i \in D : Rank(f, i) < r}
           below == [i \in B |-> Rank(f, i)]
<1>1. IsFiniteSet(D) /\ n \in Nat /\ r \in Nat /\ r <= n
  BY FS_CardinalityType DEF Fractions, Integers
<1>2. ranks \in Bijection(D, 0..(n - 1))
  BY RanksAreAll
<1>3. /\ \A i \in D : Rank(f, i) \in 0..(n - 1)
      /\ \A i, j \in D : Rank(f, i) = Rank(f, j) => i = j
      /\ \A k \in 0..(n - 1) : \E i \in D : Rank(f, i) = k
  BY <1>2 DEF Bijection, Injection, IsInjective, Surjection
<1> HIDE DEF n, D, ranks
<1>4. below \in Bijection(B, 0..(r - 1))
  <2>1. below \in [B -> 0..(r - 1)]
    BY <1>1, <1>3
  <2>2. \A i, j \in B : below[i] = below[j] => i = j
    BY <1>3
  <2>3. \A k \in 0..(r - 1) : \E i \in B : below[i] = k
    BY <1>1, <1>3
  <2> QED BY <2>1, <2>2, <2>3 DEF Bijection, Injection, IsInjective, Surjection
<1>5. IsFiniteSet(B)
  BY <1>1, FS_Subset
<1>6. ExistsBijection(B, 0..(r - 1))
  BY <1>4 DEF ExistsBijection
<1> HIDE DEF B, below
<1>7. Cardinality(0..(r - 1)) = Cardinality(B)
  BY <1>5, <1>6, FS_Bijection
<1>8. Cardinality(0..(r - 1)) = r
  <2>1. 0 \in Int /\ r - 1 \in Int
    BY <1>1
  <2>2. Cardinality(0..(r - 1)) = IF 0 > r - 1 THEN 0 ELSE r - 1 - 0 + 1
    BY <2>1, FS_Interval, Zenon
  <2> QED BY <1>1, <2>2
<1>9. Cardinality(B) = r
  BY <1>7, <1>8
<1> QED BY <1>9 DEF B, D

-----------------------------------------------------------------------------
(* Quotients and remainders.                                                *)

Floor(a, b) == a \div b
Frac(a, b) == a % b

\* q times b, and a rest smaller than b, are a.
Quotient(a, b, q, r) == q \in Int /\ r \in 0..(b - 1) /\ a = b * q + r

\* A quotient and its remainder are what the division says.
LEMMA Division ==
    ASSUME NEW a \in Int, NEW b \in Nat \ {0}
    PROVE  Quotient(a, b, Floor(a, b), Frac(a, b))
BY DEF Quotient, Floor, Frac

\* Only one quotient leaves a remainder that is small enough.
LEMMA DivMod ==
    ASSUME NEW a \in Int, NEW b \in Nat \ {0}, NEW q, NEW r, Quotient(a, b, q, r)
    PROVE  Floor(a, b) = q /\ Frac(a, b) = r
<1> DEFINE p == Floor(a, b)
           v == Frac(a, b)
<1>0. q \in Int /\ r \in 0..(b - 1) /\ a = b * q + r
  BY DEF Quotient
<1>1. p \in Int /\ v \in 0..(b - 1) /\ a = b * p + v
  BY Division DEF Quotient
<1> HIDE DEF p, v
<1>2. b * (p - q) = r - v
  <2>1. b * (p - q) = b * p - b * q
    BY <1>0, <1>1
  <2>2. b * p \in Int /\ b * q \in Int
    BY <1>0, <1>1
  <2> QED BY <1>0, <1>1, <2>1, <2>2
<1>3. \A d \in Int : d >= 1 => b * d >= b
  OBVIOUS
<1>4. \A d \in Int : d <= -1 => b * d <= -b
  OBVIOUS
<1>5. p - q \in Int /\ r - v < b /\ r - v > -b
  BY <1>0, <1>1
<1>6. p - q = 0
  BY <1>2, <1>3, <1>4, <1>5
<1>7. p = q
  BY <1>0, <1>1, <1>6
<1>8. v = r
  BY <1>2, <1>6, <1>0, <1>1
<1> QED BY <1>7, <1>8 DEF p, v

\* Rounding up is rounding down, and one more if something is left.
LEMMA CeilingOf ==
    ASSUME NEW x \in Int, NEW W \in Nat \ {0}
    PROVE  Ceiling(x, W) = Floor(x, W) + IF Frac(x, W) = 0 THEN 0 ELSE 1
<1> DEFINE k == Floor(x, W)
           m == Frac(x, W)
<1>1. k \in Int /\ m \in 0..(W - 1) /\ x = W * k + m
  BY Division DEF Quotient
<1>2. -x \in Int /\ Ceiling(x, W) = -Floor(-x, W)
  BY DEF Ceiling, Floor
<1> HIDE DEF k, m
<1>3. W * k \in Int /\ W * (-k) = -(W * k) /\ W * (-k - 1) = -(W * k) - W
  BY <1>1
<1>4. CASE m = 0
  <2>1. Quotient(-x, W, -k, 0)
    BY <1>1, <1>3, <1>4 DEF Quotient
  <2>2. Floor(-x, W) = -k
    BY <1>2, <2>1, DivMod
  <2>3. Ceiling(x, W) = k
    BY <1>1, <1>2, <2>2
  <2> QED BY <1>1, <1>4, <2>3 DEF k, m
<1>5. CASE m # 0
  <2>1. Quotient(-x, W, -k - 1, W - m)
    BY <1>1, <1>3, <1>5 DEF Quotient
  <2>2. Floor(-x, W) = -k - 1
    BY <1>2, <2>1, DivMod
  <2>3. Ceiling(x, W) = k + 1
    BY <1>1, <1>2, <2>2
  <2> QED BY <1>1, <1>5, <2>3 DEF k, m
<1> QED BY <1>4, <1>5

\* The floor of a float product is the exact one, unless a whole quota was rounded
\* down: then it is one less, and the fraction is as large as can be.
LEMMA RoundedQuota ==
    ASSUME NEW x \in Int, NEW W \in Nat \ {0}, NEW r \in {-1, 0, 1},
           NEW raw \in Int, raw = x * Ulp + r, NEW u \in Nat \ {0}, u = W * Ulp
    PROVE  IF Frac(x, W) = 0 /\ r = -1
           THEN Floor(raw, u) = Floor(x, W) - 1 /\ Frac(raw, u) = u - 1
           ELSE Floor(raw, u) = Floor(x, W) /\ Frac(raw, u) = Frac(x, W) * Ulp + r
<1> DEFINE k == Floor(x, W)
           m == Frac(x, W)
           y == W * k
<1>1. k \in Int /\ m \in 0..(W - 1) /\ x = y + m
  BY Division DEF Quotient
<1>2. y \in Int /\ u = 8 * W
  BY <1>1 DEF Ulp
<1>3. u * k = 8 * y
  BY <1>1 DEF Ulp
<1>4. u * (k - 1) = u * k - u
  BY <1>1, <1>2
<1> HIDE DEF k, m, y
<1>5. raw = 8 * y + 8 * m + r
  BY <1>1, <1>2 DEF Ulp
<1>6. CASE m = 0 /\ r = -1
  <2>1. Quotient(raw, u, k - 1, u - 1)
    <3>1. raw = 8 * y - u + (u - 1) /\ k - 1 \in Int /\ u - 1 \in 0..(u - 1)
      BY <1>1, <1>2, <1>5, <1>6
    <3> QED BY <1>3, <1>4, <3>1 DEF Quotient
  <2>2. Floor(raw, u) = k - 1 /\ Frac(raw, u) = u - 1
    BY <2>1, DivMod
  <2> QED BY <1>6, <2>2 DEF k, m
<1>7. CASE ~(m = 0 /\ r = -1)
  <2>1. PICK v \in Int : v = 8 * m + r
    BY <1>1
  <2>2. v = m * Ulp + r
    BY <1>1, <2>1 DEF Ulp
  <2>3. v \in 0..(u - 1)
    BY <1>1, <1>2, <1>7, <2>1
  <2>4. Quotient(raw, u, k, v)
    <3>1. raw = 8 * y + v
      BY <1>1, <1>2, <1>5, <2>1
    <3> QED BY <1>1, <1>3, <2>3, <3>1 DEF Quotient
  <2>5. Floor(raw, u) = k /\ Frac(raw, u) = v
    BY <2>4, DivMod
  <2> QED BY <1>7, <2>2, <2>5 DEF k, m
<1> QED BY <1>6, <1>7

-----------------------------------------------------------------------------
(* The largest remainder.  A holds the scenarios whose whole quota was      *)
(* rounded down, B those with a quota between two whole numbers.            *)

\* x is W times k, and a rest for those of B.
Divides(W, x, k, m, B) ==
    \A i \in DOMAIN x :
        x[i] = W * k[i] + m[i] /\ IF i \in B THEN m[i] \in 1..(W - 1) ELSE m[i] = 0

\* The floors are one less for those of A.
RoundsDown(k, floors, A) ==
    \A i \in DOMAIN k : k[i] = floors[i] + IF i \in A THEN 1 ELSE 0

\* What is left after the floors is a document for each of A, and for some of B.
LEMMA RemainderIsBetween ==
    ASSUME NEW x, NEW k, NEW m, NEW floors,
           Integers(x), Integers(k), Integers(m), Integers(floors),
           DOMAIN k = DOMAIN x, DOMAIN m = DOMAIN x, DOMAIN floors = DOMAIN x,
           NEW W \in Nat \ {0}, NEW total \in Int, Total(x) = W * total,
           NEW A \in SUBSET DOMAIN x, NEW B \in SUBSET DOMAIN x,
           Divides(W, x, k, m, B), RoundsDown(k, floors, A)
    PROVE  /\ Cardinality(A) <= total - Total(floors)
           /\ total - Total(floors) <= Cardinality(A) + Cardinality(B)
<1> DEFINE D == DOMAIN x
           wk == [i \in D |-> W * k[i]]
           inA == [i \in D |-> IF i \in A THEN 1 ELSE 0]
           inB == [i \in D |-> IF i \in B THEN 1 ELSE 0]
           most == [i \in D |-> (W - 1) * inB[i]]
           d == total - Total(k)
           b == Cardinality(B)
<1> USE DEF Divides, RoundsDown
<1>1. Integers(wk) /\ Integers(inA) /\ Integers(inB) /\ Integers(most)
  BY DEF Integers
<1>2. Total(x) = Total(wk) + Total(m)
  <2>1. DOMAIN wk = D /\ \A i \in D : x[i] = wk[i] + m[i]
    OBVIOUS
  <2> HIDE DEF wk
  <2> QED BY <1>1, <2>1, TotalOfSum
<1>3. Total(wk) = W * Total(k)
  <2>1. DOMAIN wk = DOMAIN k /\ \A i \in DOMAIN k : wk[i] = W * k[i]
    OBVIOUS
  <2> HIDE DEF wk
  <2> QED BY <1>1, <2>1, TotalOfMultiple
<1>4. Total(inA) = Cardinality(A) /\ Total(inB) = b
  <2>1. /\ DOMAIN inA = D /\ \A i \in D : inA[i] = IF i \in A THEN 1 ELSE 0
        /\ DOMAIN inB = D /\ \A i \in D : inB[i] = IF i \in B THEN 1 ELSE 0
    OBVIOUS
  <2> HIDE DEF inA, inB
  <2> QED BY <1>1, <2>1, TotalCounts
<1>5. Total(most) = (W - 1) * b
  <2>1. DOMAIN most = DOMAIN inB /\ \A i \in DOMAIN inB : most[i] = (W - 1) * inB[i]
    OBVIOUS
  <2>2. W - 1 \in Int
    OBVIOUS
  <2> HIDE DEF most, inB
  <2>3. Total(most) = (W - 1) * Total(inB)
    BY <1>1, <2>1, <2>2, TotalOfMultiple
  <2> QED BY <1>4, <2>3
<1>6. Total(m) <= Total(most)
  <2>1. DOMAIN most = DOMAIN m /\ \A i \in DOMAIN m : m[i] <= most[i]
    OBVIOUS
  <2> HIDE DEF most
  <2> QED BY <1>1, <2>1, TotalIsMonotone
<1>7. Total(m) \in Nat
  <2>1. \A i \in DOMAIN m : m[i] >= 0
    OBVIOUS
  <2> QED BY <2>1, AreaIsNatural, TotalIsArea
<1>8. Total(k) = Total(floors) + Total(inA)
  <2>1. DOMAIN inA = DOMAIN floors /\ DOMAIN k = DOMAIN floors
        /\ \A i \in DOMAIN floors : k[i] = floors[i] + inA[i]
    OBVIOUS
  <2> HIDE DEF inA
  <2> QED BY <1>1, <2>1, TotalOfSum
<1>9. /\ Total(k) \in Int /\ Total(floors) \in Int /\ d \in Int
      /\ Cardinality(A) \in Nat /\ b \in Nat
  <2>1. IsFiniteSet(A) /\ IsFiniteSet(B)
    BY FS_Subset DEF Integers
  <2>2. Total(k) \in Int /\ Total(floors) \in Int
    BY TotalType
  <2> QED BY <2>1, <2>2, FS_CardinalityType
<1>10. W * d = Total(m)
  <2>1. W * total = W * Total(k) + Total(m)
    BY <1>2, <1>3
  <2>2. W * d = W * total - W * Total(k)
    BY <1>9
  <2>3. W * total \in Int /\ W * Total(k) \in Int
    BY <1>9
  <2> QED BY <1>7, <2>1, <2>2, <2>3
<1>11. total - Total(floors) = d + Cardinality(A)
  BY <1>4, <1>8, <1>9
<1> HIDE DEF D, wk, inA, inB, most, d, b
<1>12. 0 <= d
  <2>1. d < 0 => W * d < 0
    BY <1>9
  <2> QED BY <1>7, <1>9, <1>10, <2>1
<1>13. d <= b
  <2>1. (W - 1) * b = W * b - b /\ W * b \in Nat
    BY <1>9
  <2>2. W * d <= W * b
    BY <1>5, <1>6, <1>7, <1>9, <1>10, <2>1
  <2>3. d > b => W * d > W * b
    BY <1>9
  <2> QED BY <1>9, <2>1, <2>2, <2>3
<1> QED BY <1>9, <1>11, <1>12, <1>13 DEF b

\* The fractions put A first, B next and the others last.
LEMMA RanksOfClasses ==
    ASSUME NEW f, Fractions(f), NEW A \in SUBSET DOMAIN f, NEW B \in SUBSET DOMAIN f, A \cap B = {},
           \A i \in A, j \in DOMAIN f \ A : f[i] > f[j],
           \A i \in B, j \in DOMAIN f \ (A \cup B) : f[i] > f[j]
    PROVE  /\ \A i \in A : Rank(f, i) < Cardinality(A)
           /\ \A i \in DOMAIN f \ (A \cup B) : Rank(f, i) >= Cardinality(A) + Cardinality(B)
           /\ Cardinality(A) + Cardinality(B) <= Cardinality(DOMAIN f)
           /\ \A i \in DOMAIN f : Rank(f, i) \in Nat
<1>1. IsFiniteSet(DOMAIN f) /\ IsFiniteSet(A) /\ IsFiniteSet(B)
  BY FS_Subset DEF Fractions, Integers
<1>2. Cardinality(A \cup B) = Cardinality(A) + Cardinality(B)
  BY <1>1, Disjoint
<1>3. ASSUME NEW i \in DOMAIN f
      PROVE  IsFiniteSet(Ahead(f, i)) /\ Cardinality(Ahead(f, i)) \in Nat
  <2>1. Ahead(f, i) \subseteq DOMAIN f
    BY DEF Ahead
  <2> QED BY <1>1, <2>1, FS_Subset, FS_CardinalityType
<1>4. ASSUME NEW i \in A PROVE Rank(f, i) < Cardinality(A)
  <2>1. Ahead(f, i) \subseteq A \ {i}
    BY DEF Ahead, Fractions, Integers
  <2>2. IsFiniteSet(A \ {i}) /\ Cardinality(A \ {i}) = Cardinality(A) - 1
    BY <1>1, FS_RemoveElement
  <2>3. Cardinality(Ahead(f, i)) <= Cardinality(A \ {i})
    BY <2>1, <2>2, FS_Subset
  <2>4. Cardinality(A) \in Nat
    BY <1>1, FS_CardinalityType
  <2> QED BY <1>3, <2>2, <2>3, <2>4 DEF Rank
<1>5. ASSUME NEW i \in DOMAIN f \ (A \cup B)
      PROVE  Rank(f, i) >= Cardinality(A) + Cardinality(B)
  <2>1. A \cup B \subseteq Ahead(f, i)
    BY DEF Ahead
  <2>2. Cardinality(A \cup B) <= Cardinality(Ahead(f, i))
    BY <1>3, <2>1, FS_Subset
  <2>3. Cardinality(A) \in Nat /\ Cardinality(B) \in Nat
    BY <1>1, FS_CardinalityType
  <2> QED BY <1>2, <1>3, <2>2, <2>3 DEF Rank
<1>6. Cardinality(A \cup B) <= Cardinality(DOMAIN f)
  <2>1. A \cup B \in SUBSET DOMAIN f
    OBVIOUS
  <2> QED BY <1>1, <2>1, FS_Subset
<1> QED BY <1>2, <1>3, <1>4, <1>5, <1>6 DEF Rank

\* One more for the first r adds up to r more.
LEMMA RemainderIsShared ==
    ASSUME NEW f, Fractions(f), NEW floors, Integers(floors), DOMAIN floors = DOMAIN f,
           NEW r \in 0..Cardinality(DOMAIN f), NEW counts,
           counts = [i \in DOMAIN f |-> floors[i] + IF Rank(f, i) < r THEN 1 ELSE 0]
    PROVE  Total(counts) = Total(floors) + r
<1> DEFINE B == {i \in DOMAIN f : Rank(f, i) < r}
           more == [i \in DOMAIN f |-> IF i \in B THEN 1 ELSE 0]
<1>1. Integers(counts) /\ Integers(more)
  BY DEF Integers
<1>2. /\ DOMAIN more = DOMAIN f /\ \A i \in DOMAIN f : more[i] = IF i \in B THEN 1 ELSE 0
      /\ B \in SUBSET DOMAIN f
  OBVIOUS
<1>3. DOMAIN counts = DOMAIN f /\ \A i \in DOMAIN f : counts[i] = floors[i] + more[i]
  OBVIOUS
<1>4. Cardinality(B) = r
  BY RanksBelow
<1> HIDE DEF B, more
<1>5. Total(more) = Cardinality(B)
  BY <1>1, <1>2, TotalCounts
<1>6. Total(counts) = Total(floors) + Total(more)
  BY <1>1, <1>2, <1>3, TotalOfSum
<1> QED BY <1>4, <1>5, <1>6

\* allocate_counts is fair for any number of documents, any weights with a positive
\* sum and any rounding of the float products: the shares add up, and each is the exact
\* quota rounded down or up.
THEOREM SharesAreFair ==
    ASSUME NEW weights, Fractions(weights), Total(weights) \in Nat \ {0}, NEW total \in Int,
           NEW counts \in Allocations(total, weights)
    PROVE  IsFairShare(counts, total, weights)
<1>1. PICK rounding \in [{weights[i] : i \in DOMAIN weights} -> Rounding] :
         counts = AllocateCounts(total, RawQuotas(total, weights, rounding), Total(weights) * Ulp)
  BY DEF Allocations
<1>2. PICK W \in Nat \ {0} : W = Total(weights)
  OBVIOUS
<1>3. PICK u \in Nat \ {0} : u = W * Ulp
  BY DEF Ulp
<1> DEFINE D == DOMAIN weights
           x == [i \in D |-> weights[i] * total]
           r == [i \in D |-> IF x[i] = 0 THEN 0 ELSE rounding[weights[i]]]
           k == [i \in D |-> Floor(x[i], W)]
           m == [i \in D |-> Frac(x[i], W)]
           floors == [i \in D |-> Floor(RawQuotas(total, weights, rounding)[i], u)]
           fracs == [i \in D |-> Frac(RawQuotas(total, weights, rounding)[i], u)]
           A == {i \in D : m[i] = 0 /\ r[i] = -1}
           B == {i \in D : m[i] # 0}
           left == total - Total(floors)
<1>4. IsFiniteSet(D) /\ D \subseteq Int /\ \A i \in D : weights[i] \in Int
  BY DEF Fractions, Integers
<1>5. ASSUME NEW i \in D
      PROVE  x[i] \in Int /\ r[i] \in {-1, 0, 1} /\ (r[i] = -1 => x[i] # 0)
  BY <1>4, <1>5 DEF Rounding
<1>6. ASSUME NEW i \in D
      PROVE  /\ RawQuotas(total, weights, rounding)[i] \in Int
             /\ RawQuotas(total, weights, rounding)[i] = x[i] * Ulp + r[i]
  BY <1>4, <1>5, <1>6 DEF RawQuotas, Ulp
<1>7. ASSUME NEW i \in D
      PROVE  k[i] \in Int /\ m[i] \in 0..(W - 1) /\ x[i] = W * k[i] + m[i]
  <2>1. PICK y \in Int : y = x[i]
    BY <1>5
  <2>2. Floor(y, W) \in Int /\ Frac(y, W) \in 0..(W - 1) /\ y = W * Floor(y, W) + Frac(y, W)
    BY Division DEF Quotient
  <2> QED BY <2>1, <2>2
<1>8. ASSUME NEW i \in D
      PROVE  IF i \in A THEN floors[i] = k[i] - 1 /\ fracs[i] = u - 1
             ELSE floors[i] = k[i] /\ fracs[i] = m[i] * Ulp + r[i]
  <2>1. PICK y \in Int : y = x[i]
    BY <1>5
  <2>2. PICK raw \in Int : raw = RawQuotas(total, weights, rounding)[i]
    BY <1>6
  <2>3. PICK e \in {-1, 0, 1} : e = r[i]
    BY <1>5
  <2>4. raw = y * Ulp + e
    BY <1>6, <2>1, <2>2, <2>3
  <2>5. IF Frac(y, W) = 0 /\ e = -1
        THEN Floor(raw, u) = Floor(y, W) - 1 /\ Frac(raw, u) = u - 1
        ELSE Floor(raw, u) = Floor(y, W) /\ Frac(raw, u) = Frac(y, W) * Ulp + e
    BY <1>3, <2>4, RoundedQuota
  <2>6. /\ k[i] = Floor(y, W) /\ m[i] = Frac(y, W)
        /\ floors[i] = Floor(raw, u) /\ fracs[i] = Frac(raw, u)
    BY <2>1, <2>2
  <2> HIDE DEF k, m, r, floors, fracs
  <2> QED BY <2>3, <2>5, <2>6
<1>9. counts = [i \in D |-> floors[i] + IF Rank(fracs, i) < left THEN 1 ELSE 0]
  <2>1. DOMAIN RawQuotas(total, weights, rounding) = D
    BY DEF RawQuotas
  <2> QED BY <1>1, <1>2, <1>3, <2>1 DEF AllocateCounts, Rank, Floor, Frac
<1>10. /\ DOMAIN x = D /\ DOMAIN k = D /\ DOMAIN m = D /\ DOMAIN floors = D /\ DOMAIN fracs = D
       /\ A \in SUBSET D /\ B \in SUBSET D /\ A \cap B = {}
       /\ \A i \in D : i \in B <=> m[i] # 0
       /\ \A i \in D : i \in A => m[i] = 0
       /\ \A i \in D : x[i] = total * weights[i] /\ x[i] = weights[i] * total
  BY <1>4
<1>11. ASSUME NEW y \in Int PROVE Ceiling(y, W) = Floor(y, W) + IF Frac(y, W) = 0 THEN 0 ELSE 1
  BY CeilingOf
<1>12. \A i \in D : /\ k[i] = Floor(x[i], W)
                    /\ Ceiling(x[i], W) = k[i] + IF m[i] = 0 THEN 0 ELSE 1
  BY <1>5, <1>11
<1> HIDE DEF x, r, k, m, floors, fracs, A, B
<1>13. \A i \in D : floors[i] \in Int /\ fracs[i] \in Int
  BY <1>5, <1>7, <1>8 DEF Ulp
<1>14. Integers(x) /\ Integers(k) /\ Integers(m) /\ Integers(floors) /\ Fractions(fracs)
  BY <1>4, <1>5, <1>7, <1>10, <1>13 DEF Integers, Fractions
<1>15. Total(x) = W * total
  <2>1. Integers(weights)
    BY DEF Fractions
  <2>2. Total(x) = total * Total(weights)
    BY <1>10, <1>14, <2>1, TotalOfMultiple
  <2> QED BY <1>2, <2>2
<1>16. Cardinality(A) <= left /\ left <= Cardinality(A) + Cardinality(B)
  <2>1. RoundsDown(k, floors, A)
    BY <1>7, <1>8, <1>10 DEF RoundsDown
  <2>2. Divides(W, x, k, m, B)
    BY <1>7, <1>10 DEF Divides
  <2>3. /\ DOMAIN k = DOMAIN x /\ DOMAIN m = DOMAIN x /\ DOMAIN floors = DOMAIN x
        /\ A \in SUBSET DOMAIN x /\ B \in SUBSET DOMAIN x
    BY <1>10
  <2> QED BY <1>14, <1>15, <2>1, <2>2, <2>3, RemainderIsBetween
<1>17. /\ \A i \in A : Rank(fracs, i) < Cardinality(A)
       /\ \A i \in D \ (A \cup B) : Rank(fracs, i) >= Cardinality(A) + Cardinality(B)
       /\ Cardinality(A) + Cardinality(B) <= Cardinality(D)
       /\ \A i \in D : Rank(fracs, i) \in Nat
  <2>1. u = 8 * W
    BY <1>3 DEF Ulp
  <2>2. \A i \in D \ (A \cup B) : fracs[i] <= 1
    BY <1>5, <1>7, <1>8, <1>10 DEF Ulp
  <2>3. \A i \in B : fracs[i] >= 7 /\ fracs[i] <= u - 7
    BY <1>5, <1>7, <1>8, <1>10, <2>1 DEF Ulp
  <2>4. \A i \in A : fracs[i] = u - 1 /\ u - 1 >= 7
    BY <1>8, <1>10, <2>1
  <2>5. \A i \in A, j \in D \ A : fracs[i] > fracs[j]
    BY <1>10, <1>13, <2>2, <2>3, <2>4
  <2>6. \A i \in B, j \in D \ (A \cup B) : fracs[i] > fracs[j]
    BY <1>10, <1>13, <2>2, <2>3
  <2> QED BY <1>10, <1>14, <2>5, <2>6, RanksOfClasses
<1>18. left \in 0..Cardinality(D) /\ Cardinality(A) \in Nat /\ Cardinality(B) \in Nat
  <2>1. Total(floors) \in Int
    BY <1>14, TotalType
  <2>2. IsFiniteSet(A) /\ IsFiniteSet(B)
    BY <1>4, <1>10, FS_Subset
  <2>3. Cardinality(A) \in Nat /\ Cardinality(B) \in Nat /\ Cardinality(D) \in Nat
    BY <1>4, <2>2, FS_CardinalityType
  <2> QED BY <1>16, <1>17, <2>1, <2>3
<1>19. Total(counts) = total
  <2>1. Total(floors) \in Int
    BY <1>14, TotalType
  <2>2. Total(counts) = Total(floors) + left
    BY <1>9, <1>10, <1>14, <1>18, RemainderIsShared
  <2> QED BY <2>1, <2>2
<1>20. ASSUME NEW i \in D
       PROVE  counts[i] >= k[i] /\ counts[i] <= k[i] + IF m[i] = 0 THEN 0 ELSE 1
  <2> HIDE DEF left
  <2>1. counts[i] = floors[i] + IF Rank(fracs, i) < left THEN 1 ELSE 0
    BY <1>9
  <2>2. Rank(fracs, i) \in Nat /\ left \in Nat /\ k[i] \in Int
    BY <1>7, <1>17, <1>18
  <2>3. CASE i \in A
    BY <1>8, <1>10, <1>16, <1>17, <1>18, <2>1, <2>2, <2>3
  <2>4. CASE i \in B
    BY <1>8, <1>10, <2>1, <2>2, <2>4
  <2>5. CASE i \notin A /\ i \notin B
    BY <1>8, <1>10, <1>16, <1>17, <1>18, <2>1, <2>2, <2>5
  <2> QED BY <2>3, <2>4, <2>5
<1>21. DOMAIN counts = D
  BY <1>9
<1>22. \A i \in D : /\ counts[i] >= (weights[i] * total) \div W
                    /\ counts[i] <= Ceiling(weights[i] * total, W)
  BY <1>10, <1>12, <1>20 DEF Floor
<1> QED BY <1>2, <1>19, <1>21, <1>22 DEF IsFairShare
===============================================================================
