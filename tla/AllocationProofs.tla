-------------------------- MODULE AllocationProofs --------------------------
(***************************************************************************)
(* The answers of select_table_allocation (migration 011), for any number  *)
(* of free tables and any capacities.                                      *)
(*                                                                         *)
(* Two numbers, the fewest tables and the fewest seats, tell which         *)
(* combinations are best.  Splitting the free tables in two halves loses   *)
(* none of them, the groups of the search add up to their number, and the  *)
(* walk over the groups reaches the one whose place is the drawn rank.     *)
(* Induction over finite sets goes by a smallest counterexample.           *)
(***************************************************************************)
EXTENDS TableAllocation, FiniteSetTheorems, TLAPS

-----------------------------------------------------------------------------
(* Finite sets *)

\* The order of the natural numbers as a set of pairs.
LessThan == {ss \in Nat \X Nat : ss[1] < ss[2]}

\* Every set of natural numbers that is not empty has a least member.
LEMMA LessThanWellFounded == IsWellFoundedOn(LessThan, Nat)
<1>1. OpToRel(<, Nat) = LessThan
  BY DEF OpToRel, LessThan
<1>2. IsWellFoundedOn(OpToRel(<, Nat), Nat)
  BY NatLessThanWellFounded
<1> QED  BY <1>1, <1>2, Zenon

\* A least element of a set of numbers.
LEMMA LeastNumber ==
    ASSUME NEW N \in SUBSET Nat, N # {}
    PROVE  \E n \in N : \A m \in N : n <= m
<1>1. PICK n \in N : \A m \in N : ~ (<<m, n>> \in LessThan)
  BY LessThanWellFounded, WFMin
<1>2. ASSUME NEW m \in N  PROVE n <= m
  <2>1. m \in Nat /\ n \in Nat /\ <<m, n>> \in Nat \X Nat
    OBVIOUS
  <2>2. ~(m < n)
    BY <1>1, <2>1 DEF LessThan
  <2> QED  BY <2>1, <2>2
<1> QED  BY <1>2

\* A smallest set among subsets of a finite set.
LEMMA SmallestSubset ==
    ASSUME NEW S, IsFiniteSet(S), NEW Bad \in SUBSET (SUBSET S), Bad # {}
    PROVE  \E T \in Bad : \A U \in SUBSET T : U # T => U \notin Bad
<1>1. IsWellFoundedOn(StrictSubsetOrdering(S), SUBSET S)
  BY FS_StrictSubsetOrderingWellFounded, FS_FiniteSubsetsOfFinite
<1>2. PICK T \in Bad : \A U \in Bad : ~ (<<U, T>> \in StrictSubsetOrdering(S))
  BY <1>1, WFMin
<1>3. ASSUME NEW U \in SUBSET T, U # T, U \in Bad  PROVE FALSE
  BY <1>2, <1>3 DEF StrictSubsetOrdering
<1> QED  BY <1>3

-----------------------------------------------------------------------------
(* The fold behind SeatsIn *)

\* The recursive function that MapThenSumSet takes over the subsets of S.
IsFold(g, f, S) ==
    g = [s \in SUBSET S |->
            IF s = {} THEN 0
            ELSE f[CHOOSE x \in s : TRUE] + g[s \ {CHOOSE x \in s : TRUE}]]

\* SeatsIn is the value of that function at the whole set.
LEMMA SeatsInFold ==
    ASSUME NEW S, NEW f
    PROVE  SeatsIn(S, f) = (CHOOSE g : IsFold(g, f, S))[S]
BY DEF SeatsIn, MapThenSumSet, MapThenFoldSet, IsFold

\* The equation of the function at one subset.
LEMMA FoldEquation ==
    ASSUME NEW S, NEW f, NEW g, IsFold(g, f, S), NEW s \in SUBSET S
    PROVE  g[s] = IF s = {} THEN 0
                  ELSE f[CHOOSE x \in s : TRUE] + g[s \ {CHOOSE x \in s : TRUE}]
BY DEF IsFold

\* Two folds agree wherever both are defined.
LEMMA FoldsAgree ==
    ASSUME NEW S, IsFiniteSet(S), NEW T, NEW f, NEW g, NEW h,
           IsFold(g, f, S), IsFold(h, f, T), NEW U \in SUBSET (S \cap T)
    PROVE  g[U] = h[U]
<1> DEFINE Bad == {V \in SUBSET (S \cap T) : g[V] # h[V]}
<1>1. SUFFICES ASSUME Bad # {}  PROVE FALSE
  OBVIOUS
<1>2. IsFiniteSet(S \cap T)
  BY FS_Intersection
<1>3. PICK V \in Bad : \A W \in SUBSET V : W # V => W \notin Bad
  <2> HIDE DEF Bad
  <2>1. Bad \in SUBSET (SUBSET (S \cap T))
    BY DEF Bad
  <2> QED  BY <1>1, <1>2, <2>1, SmallestSubset
<1>4. V # {}
  BY FoldEquation
<1> DEFINE x == CHOOSE x \in V : TRUE
<1>5. x \in V
  BY <1>4
<1>6. g[V \ {x}] = h[V \ {x}]
  BY <1>3, <1>5
<1>7. g[V] = f[x] + g[V \ {x}] /\ h[V] = f[x] + h[V \ {x}]
  <2>1. V \in SUBSET S /\ V \in SUBSET T
    OBVIOUS
  <2> HIDE DEF Bad
  <2>2. g[V] = f[x] + g[V \ {x}]
    BY <1>4, <2>1, FoldEquation
  <2>3. h[V] = f[x] + h[V \ {x}]
    BY <1>4, <2>1, FoldEquation
  <2> QED  BY <2>2, <2>3
<1> QED  BY <1>6, <1>7

\* A fold over every finite set exists.
LEMMA FoldExists ==
    ASSUME NEW S, IsFiniteSet(S), NEW f
    PROVE  \E g : IsFold(g, f, S)
<1> DEFINE Bad == {V \in SUBSET S : ~ \E g : IsFold(g, f, V)}
<1>1. SUFFICES ASSUME Bad # {}  PROVE FALSE
  OBVIOUS
<1>2. PICK T \in Bad : \A W \in SUBSET T : W # T => W \notin Bad
  <2> HIDE DEF Bad
  <2>1. Bad \in SUBSET (SUBSET S)
    BY DEF Bad
  <2> QED  BY <1>1, <2>1, SmallestSubset
<1>3. T \in SUBSET S /\ ~ \E g : IsFold(g, f, T)
  OBVIOUS
<1>4. \A W \in SUBSET T : W # T => \E g : IsFold(g, f, W)
  BY <1>2, <1>3
<1> HIDE DEF Bad
<1> DEFINE fold(W) == CHOOSE g : IsFold(g, f, W)
           x(W) == CHOOSE y \in W : TRUE
           of(W) == IF W = {} THEN 0 ELSE f[x(W)] + fold(W \ {x(W)})[W \ {x(W)}]
           h == [W \in SUBSET T |-> of(W)]
<1>5. \A W \in SUBSET T : W # T => IsFold(fold(W), f, W)
  BY <1>4
<1>6. ASSUME NEW W \in SUBSET T, W # T  PROVE fold(W)[W] = of(W)
  <2>1. IsFold(fold(W), f, W)
    BY <1>5, <1>6
  <2>2. CASE W = {}
    BY <2>1, <2>2, FoldEquation
  <2>3. CASE W # {}
    <3>1. x(W) \in W
      BY <2>3
    <3>2. fold(W)[W] = f[x(W)] + fold(W)[W \ {x(W)}]
      <4> DEFINE g == fold(W)
      <4>1. IsFold(g, f, W) /\ W \in SUBSET W
        BY <2>1
      <4> HIDE DEF g
      <4> QED  BY <4>1, <2>3, FoldEquation
    <3>3. IsFold(fold(W \ {x(W)}), f, W \ {x(W)})
      <4>1. W \ {x(W)} \in SUBSET T /\ W \ {x(W)} # T
        BY <3>1, <1>6
      <4> QED  BY <1>5, <4>1
    <3>4. IsFiniteSet(W)
      BY <1>3, FS_Subset
    <3>5. fold(W)[W \ {x(W)}] = fold(W \ {x(W)})[W \ {x(W)}]
      <4> HIDE DEF fold, x
      <4>1. W \ {x(W)} \in SUBSET (W \cap (W \ {x(W)}))
        OBVIOUS
      <4> QED  BY <2>1, <3>3, <3>4, <4>1, FoldsAgree
    <3> HIDE DEF fold, x
    <3> QED  BY <2>3, <3>2, <3>5 DEF of
  <2> QED  BY <2>2, <2>3
<1>7. IsFold(h, f, T)
  <2> SUFFICES ASSUME NEW W \in SUBSET T
               PROVE  h[W] = IF W = {} THEN 0 ELSE f[x(W)] + h[W \ {x(W)}]
    <3>1. h = [W \in SUBSET T |-> h[W]]
      OBVIOUS
    <3> HIDE DEF h
    <3> QED  BY <3>1 DEF IsFold
  <2>1. CASE W = {}
    BY <2>1
  <2>2. CASE W # {}
    <3>1. x(W) \in W
      BY <2>2
    <3>2. W \ {x(W)} \in SUBSET T /\ W \ {x(W)} # T
      BY <3>1
    <3>3. h[W \ {x(W)}] = fold(W \ {x(W)})[W \ {x(W)}]
      <4> HIDE DEF fold, x
      <4>1. h[W \ {x(W)}] = of(W \ {x(W)})
        BY <3>2
      <4> HIDE DEF of, h
      <4> QED  BY <3>2, <4>1, <1>6
    <3> HIDE DEF fold, x
    <3> QED  BY <2>2, <3>3
  <2> QED  BY <2>1, <2>2
<1> QED  BY <1>3, <1>7

-----------------------------------------------------------------------------
(* What SeatsIn adds up *)

\* No tables have no seats.
LEMMA SeatsInNone == \A f : SeatsIn({}, f) = 0
<1> SUFFICES ASSUME NEW f  PROVE SeatsIn({}, f) = 0
  OBVIOUS
<1> DEFINE g == CHOOSE g : IsFold(g, f, {})
<1>1. IsFold(g, f, {})
  BY FoldExists, FS_EmptySet
<1> HIDE DEF g
<1>2. g[{}] = 0
  BY <1>1, FoldEquation
<1> QED  BY <1>2, SeatsInFold DEF g

\* The equation of the fold, for the element it takes first.
LEMMA SeatsInFirst ==
    ASSUME NEW S, IsFiniteSet(S), S # {}, NEW f
    PROVE  LET x == CHOOSE x \in S : TRUE
           IN  x \in S /\ SeatsIn(S, f) = f[x] + SeatsIn(S \ {x}, f)
<1> DEFINE x == CHOOSE x \in S : TRUE
           g == CHOOSE g : IsFold(g, f, S)
           R == S \ {x}
           h == CHOOSE h : IsFold(h, f, R)
<1>1. x \in S
  OBVIOUS
<1>2. IsFold(g, f, S) /\ IsFold(h, f, R) /\ IsFiniteSet(R)
  BY FoldExists, FS_RemoveElement
<1>3. SeatsIn(S, f) = g[S] /\ SeatsIn(R, f) = h[R]
  BY SeatsInFold
<1>4. g[S] = f[x] + g[R]
  <2> HIDE DEF g
  <2>1. S \in SUBSET S
    OBVIOUS
  <2> QED  BY <1>2, <2>1, FoldEquation
<1>5. g[R] = h[R]
  <2>1. R \in SUBSET (S \cap R)
    OBVIOUS
  <2> HIDE DEF g, h, R
  <2> QED  BY <1>2, <2>1, FoldsAgree
<1> QED  BY <1>1, <1>3, <1>4, <1>5

\* A sum of natural numbers is one.
LEMMA SeatsInNat ==
    ASSUME NEW S, IsFiniteSet(S), NEW f, \A x \in S : f[x] \in Nat
    PROVE  SeatsIn(S, f) \in Nat
<1> DEFINE Bad == {T \in SUBSET S : SeatsIn(T, f) \notin Nat}
<1>1. SUFFICES ASSUME Bad # {}  PROVE FALSE
  OBVIOUS
<1>2. PICK T \in Bad : \A U \in SUBSET T : U # T => U \notin Bad
  <2> HIDE DEF Bad
  <2>1. Bad \in SUBSET (SUBSET S)
    BY DEF Bad
  <2> QED  BY <1>1, <2>1, SmallestSubset
<1>3. T # {}
  BY SeatsInNone
<1>4. IsFiniteSet(T)
  BY FS_Subset
<1>5. PICK x \in T : SeatsIn(T, f) = f[x] + SeatsIn(T \ {x}, f)
  <2> HIDE DEF Bad
  <2> QED  BY <1>3, <1>4, SeatsInFirst
<1>6. SeatsIn(T \ {x}, f) \in Nat
  BY <1>2
<1>7. f[x] \in Nat
  OBVIOUS
<1> QED  BY <1>5, <1>6, <1>7

\* Any element may be taken out.
LEMMA SeatsInOne ==
    ASSUME NEW S, IsFiniteSet(S), NEW f, \A x \in S : f[x] \in Nat, NEW y \in S
    PROVE  SeatsIn(S, f) = f[y] + SeatsIn(S \ {y}, f)
<1> DEFINE Bad == {T \in SUBSET S : \E z \in T : SeatsIn(T, f) # f[z] + SeatsIn(T \ {z}, f)}
<1>1. SUFFICES ASSUME Bad # {}  PROVE FALSE
  OBVIOUS
<1>2. PICK T \in Bad : \A U \in SUBSET T : U # T => U \notin Bad
  <2> HIDE DEF Bad
  <2>1. Bad \in SUBSET (SUBSET S)
    BY DEF Bad
  <2> QED  BY <1>1, <2>1, SmallestSubset
<1>3. PICK z \in T : SeatsIn(T, f) # f[z] + SeatsIn(T \ {z}, f)
  OBVIOUS
<1>4. IsFiniteSet(T) /\ T # {} /\ T \in SUBSET S
  BY FS_Subset
<1>5. \A U \in SUBSET T : U # T =>
         \A u \in U : SeatsIn(U, f) = f[u] + SeatsIn(U \ {u}, f)
  BY <1>2
<1> HIDE DEF Bad
<1>6. PICK x \in T : SeatsIn(T, f) = f[x] + SeatsIn(T \ {x}, f)
  BY <1>4, SeatsInFirst
<1>7. x # z
  BY <1>3, <1>6
<1>8. SeatsIn(T \ {x}, f) = f[z] + SeatsIn((T \ {x}) \ {z}, f)
  BY <1>5, <1>7
<1>9. SeatsIn(T \ {z}, f) = f[x] + SeatsIn((T \ {z}) \ {x}, f)
  BY <1>5, <1>7
<1>10. (T \ {x}) \ {z} = (T \ {z}) \ {x}
  OBVIOUS
<1>11. f[x] \in Nat /\ f[z] \in Nat /\ SeatsIn((T \ {x}) \ {z}, f) \in Nat
  <2>1. IsFiniteSet((T \ {x}) \ {z})
    BY <1>4, FS_RemoveElement
  <2>2. \A u \in (T \ {x}) \ {z} : f[u] \in Nat
    BY <1>4
  <2> QED  BY <1>4, <2>1, <2>2, SeatsInNat
<1> QED  BY <1>3, <1>6, <1>8, <1>9, <1>10, <1>11

\* One table has its own seats.
LEMMA SeatsInSingleton ==
    ASSUME NEW x, NEW f, f[x] \in Nat
    PROVE  SeatsIn({x}, f) = f[x]
<1>1. SeatsIn({x}, f) = f[x] + SeatsIn({x} \ {x}, f)
  BY SeatsInOne, FS_Singleton
<1>2. {x} \ {x} = {}
  OBVIOUS
<1> QED  BY <1>1, <1>2, SeatsInNone

\* Two sets without a common table add their seats.
LEMMA SeatsInUnion ==
    ASSUME NEW S, IsFiniteSet(S), NEW T, IsFiniteSet(T), S \cap T = {},
           NEW f, \A x \in S \cup T : f[x] \in Nat
    PROVE  SeatsIn(S \cup T, f) = SeatsIn(S, f) + SeatsIn(T, f)
<1> DEFINE Bad == {U \in SUBSET S : SeatsIn(U \cup T, f) # SeatsIn(U, f) + SeatsIn(T, f)}
<1>1. SUFFICES ASSUME Bad # {}  PROVE FALSE
  OBVIOUS
<1>2. PICK U \in Bad : \A V \in SUBSET U : V # U => V \notin Bad
  <2> HIDE DEF Bad
  <2>1. Bad \in SUBSET (SUBSET S)
    BY DEF Bad
  <2> QED  BY <1>1, <2>1, SmallestSubset
<1>3. /\ U \in SUBSET S /\ SeatsIn(U \cup T, f) # SeatsIn(U, f) + SeatsIn(T, f)
      /\ \A V \in SUBSET U : V # U => SeatsIn(V \cup T, f) = SeatsIn(V, f) + SeatsIn(T, f)
  BY <1>2
<1> HIDE DEF Bad
<1>4. IsFiniteSet(U) /\ IsFiniteSet(U \cup T)
  BY <1>3, FS_Subset, FS_Union
<1>5. SeatsIn(T, f) \in Nat
  BY SeatsInNat
<1>6. U # {}
  <2>1. {} \cup T = T
    OBVIOUS
  <2>2. SeatsIn({} \cup T, f) = SeatsIn({}, f) + SeatsIn(T, f)
    BY <1>5, <2>1, SeatsInNone
  <2> QED  BY <1>3, <2>2
<1>7. PICK x : x \in U
  BY <1>6
<1>8. f[x] \in Nat /\ (U \cup T) \ {x} = (U \ {x}) \cup T
  BY <1>3, <1>7
<1>9. SeatsIn(U \cup T, f) = f[x] + SeatsIn((U \ {x}) \cup T, f)
  <2>1. \A y \in U \cup T : f[y] \in Nat
    BY <1>3
  <2> QED  BY <1>4, <1>7, <1>8, <2>1, SeatsInOne
<1>10. SeatsIn(U, f) = f[x] + SeatsIn(U \ {x}, f)
  BY <1>3, <1>4, <1>7, SeatsInOne
<1>11. SeatsIn((U \ {x}) \cup T, f) = SeatsIn(U \ {x}, f) + SeatsIn(T, f)
  BY <1>3, <1>7
<1>12. SeatsIn(U \ {x}, f) \in Nat
  BY <1>3, <1>4, FS_RemoveElement, SeatsInNat
<1> QED  BY <1>3, <1>5, <1>8, <1>9, <1>10, <1>11, <1>12

\* More tables have more seats.
LEMMA SeatsInSubset ==
    ASSUME NEW S, IsFiniteSet(S), NEW f, \A x \in S : f[x] \in Nat, NEW T \in SUBSET S
    PROVE  /\ SeatsIn(T, f) <= SeatsIn(S, f)
           /\ (\A x \in S : f[x] # 0) /\ T # S => SeatsIn(T, f) < SeatsIn(S, f)
<1>1. IsFiniteSet(T) /\ IsFiniteSet(S \ T)
  BY FS_Subset, FS_Difference
<1>2. SeatsIn(T, f) \in Nat /\ SeatsIn(S \ T, f) \in Nat
  BY <1>1, SeatsInNat
<1>3. SeatsIn(S, f) = SeatsIn(T, f) + SeatsIn(S \ T, f)
  <2>1. T \cup (S \ T) = S /\ T \cap (S \ T) = {}
    OBVIOUS
  <2>2. SeatsIn(T \cup (S \ T), f) = SeatsIn(T, f) + SeatsIn(S \ T, f)
    BY <1>1, <2>1, SeatsInUnion
  <2> QED  BY <2>1, <2>2
<1>4. ASSUME \A x \in S : f[x] # 0, T # S  PROVE SeatsIn(S \ T, f) # 0
  <2>1. PICK x \in S \ T : TRUE
    BY <1>4
  <2>2. SeatsIn(S \ T, f) = f[x] + SeatsIn((S \ T) \ {x}, f)
    BY <1>1, SeatsInOne
  <2>3. SeatsIn((S \ T) \ {x}, f) \in Nat /\ f[x] \in Nat /\ f[x] # 0
    BY <1>1, <1>4, FS_RemoveElement, SeatsInNat
  <2> QED  BY <2>2, <2>3
<1> QED  BY <1>2, <1>3, <1>4

-----------------------------------------------------------------------------
(* The best allocations *)

\* The least element of a set of integers with a lower bound.
LEMMA MinIsLeast ==
    ASSUME NEW N \in SUBSET Nat, N # {}
    PROVE  Min(N) \in N /\ \A n \in N : Min(N) <= n
<1>1. \E n \in N : \A m \in N : n <= m
  BY LeastNumber
<1> QED  BY <1>1 DEF Min

\* Finitely many tables with natural capacities.
Sound(tables, cap) == IsFiniteSet(tables) /\ \A t \in tables : cap[t] \in Nat

\* c tables and s seats are the best for a party of p.
BestNumbers(tables, cap, p, c, s) ==
    /\ p <= s
    /\ \E S \in SUBSET tables : Cardinality(S) = c /\ SeatsIn(S, cap) = s
    /\ \A S \in SUBSET tables : SeatsIn(S, cap) >= p =>
          c <= Cardinality(S) /\ (Cardinality(S) = c => s <= SeatsIn(S, cap))

\* Part of the tables are finitely many, with natural numbers of tables and seats.
LEMMA SubsetNumbers ==
    ASSUME NEW F, NEW cap, Sound(F, cap), NEW S \in SUBSET F
    PROVE  /\ IsFiniteSet(S) /\ Cardinality(S) \in Nat /\ SeatsIn(S, cap) \in Nat
           /\ Sound(S, cap)
<1>1. IsFiniteSet(S) /\ \A t \in S : cap[t] \in Nat
  BY FS_Subset DEF Sound
<1> QED  BY <1>1, FS_CardinalityType, SeatsInNat DEF Sound

\* The numbers tell which combinations are best.
LEMMA BestByNumbers ==
    ASSUME NEW F, NEW cap, Sound(F, cap), NEW p \in Int, NEW c, NEW s,
           BestNumbers(F, cap, p, c, s)
    PROVE  /\ BestAllocations(F, cap, p) =
                 {S \in SUBSET F : Cardinality(S) = c /\ SeatsIn(S, cap) = s}
           /\ c \in Nat /\ s \in Nat
<1>1. PICK W \in SUBSET F : Cardinality(W) = c /\ SeatsIn(W, cap) = s
  BY DEF BestNumbers
<1>2. c \in Nat /\ s \in Nat /\ p <= s
  BY <1>1, SubsetNumbers DEF BestNumbers
<1>3. \A S \in SUBSET F : Cardinality(S) \in Nat /\ SeatsIn(S, cap) \in Nat
  BY SubsetNumbers
<1>4. \A S \in SUBSET F : SeatsIn(S, cap) >= p =>
          c <= Cardinality(S) /\ (Cardinality(S) = c => s <= SeatsIn(S, cap))
  BY DEF BestNumbers
<1> DEFINE sufficient == {S \in SUBSET F : SeatsIn(S, cap) >= p}
           fewest == {S \in sufficient :
                         \A T \in sufficient : Cardinality(S) <= Cardinality(T)}
           best1 == {S \in fewest : \A T \in fewest : SeatsIn(S, cap) <= SeatsIn(T, cap)}
<1>5. fewest = {S \in sufficient : Cardinality(S) = c}
  <2>1. W \in sufficient
    BY <1>1, <1>2
  <2>2. ASSUME NEW S \in fewest  PROVE Cardinality(S) = c
    BY <1>1, <1>2, <1>3, <1>4, <2>1
  <2>3. ASSUME NEW S \in sufficient, Cardinality(S) = c  PROVE S \in fewest
    BY <1>4, <2>3
  <2> QED  BY <2>2, <2>3
<1>6. best1 = {S \in SUBSET F : Cardinality(S) = c /\ SeatsIn(S, cap) = s}
  <2>1. W \in fewest
    BY <1>1, <1>2, <1>5
  <2>2. ASSUME NEW S \in best1  PROVE S \in SUBSET F /\ Cardinality(S) = c /\ SeatsIn(S, cap) = s
    <3>1. S \in SUBSET F /\ SeatsIn(S, cap) >= p /\ Cardinality(S) = c
      BY <1>5
    <3>2. SeatsIn(S, cap) <= s
      BY <1>1, <2>1
    <3> QED  BY <1>2, <1>3, <1>4, <3>1, <3>2
  <2>3. ASSUME NEW S \in SUBSET F, Cardinality(S) = c, SeatsIn(S, cap) = s  PROVE S \in best1
    <3>1. S \in fewest
      BY <1>2, <1>5, <2>3
    <3>2. \A T \in fewest : s <= SeatsIn(T, cap)
      BY <1>4, <1>5
    <3> QED  BY <2>3, <3>1, <3>2
  <2> QED  BY <2>2, <2>3
<1> QED  BY <1>2, <1>6 DEF BestAllocations

\* Enough seats have a best combination.
LEMMA BestNumbersExist ==
    ASSUME NEW F, NEW cap, Sound(F, cap), NEW p \in Int, p <= SeatsIn(F, cap)
    PROVE  \E c, s : BestNumbers(F, cap, p, c, s)
<1> DEFINE sufficient == {S \in SUBSET F : SeatsIn(S, cap) >= p}
           counts == {Cardinality(S) : S \in sufficient}
<1>1. \A S \in SUBSET F : Cardinality(S) \in Nat /\ SeatsIn(S, cap) \in Nat
  BY SubsetNumbers
<1>2. F \in sufficient
  BY <1>1
<1>3. counts \in SUBSET Nat /\ counts # {}
  BY <1>1, <1>2
<1>4. PICK c \in counts : \A m \in counts : c <= m
  <2> HIDE DEF counts
  <2> QED  BY <1>3, LeastNumber
<1> DEFINE sums == {SeatsIn(S, cap) : S \in {T \in sufficient : Cardinality(T) = c}}
<1>5. sums \in SUBSET Nat /\ sums # {}
  BY <1>1, <1>4
<1>6. PICK s \in sums : \A m \in sums : s <= m
  <2> HIDE DEF sums
  <2> QED  BY <1>5, LeastNumber
<1>7. BestNumbers(F, cap, p, c, s)
  <2>1. PICK S \in sufficient : Cardinality(S) = c /\ SeatsIn(S, cap) = s
    BY <1>6
  <2>2. p <= s
    BY <1>1, <2>1
  <2>3. ASSUME NEW T \in SUBSET F, SeatsIn(T, cap) >= p
        PROVE  c <= Cardinality(T) /\ (Cardinality(T) = c => s <= SeatsIn(T, cap))
    <3>1. T \in sufficient
      BY <2>3
    <3>2. c <= Cardinality(T)
      BY <1>4, <3>1
    <3>3. Cardinality(T) = c => SeatsIn(T, cap) \in sums
      BY <3>1
    <3> QED  BY <1>6, <3>2, <3>3
  <2> QED  BY <2>1, <2>2, <2>3 DEF BestNumbers
<1> QED  BY <1>7

\* A party finds tables exactly when the free tables have seats for it: what
\* provisional_availability adds up is what the allocator needs
\* (007: 117-132, 011: 62-67).
LEMMA EnoughSeats ==
    ASSUME NEW F, NEW cap, Sound(F, cap), NEW p \in Int
    PROVE  BestAllocations(F, cap, p) # {} <=> p <= SeatsIn(F, cap)
<1>1. ASSUME p <= SeatsIn(F, cap)  PROVE BestAllocations(F, cap, p) # {}
  <2>1. PICK c, s : BestNumbers(F, cap, p, c, s)
    BY <1>1, BestNumbersExist
  <2>2. BestAllocations(F, cap, p) =
          {S \in SUBSET F : Cardinality(S) = c /\ SeatsIn(S, cap) = s}
    BY <2>1, BestByNumbers
  <2> QED  BY <2>1, <2>2 DEF BestNumbers
<1>2. ASSUME BestAllocations(F, cap, p) # {}  PROVE p <= SeatsIn(F, cap)
  <2>1. PICK S \in SUBSET F : SeatsIn(S, cap) >= p
    BY <1>2 DEF BestAllocations
  <2>2. SeatsIn(S, cap) <= SeatsIn(F, cap)
    BY SeatsInSubset DEF Sound
  <2>3. SeatsIn(S, cap) \in Nat /\ SeatsIn(F, cap) \in Nat
    BY SubsetNumbers
  <2> QED  BY <2>1, <2>2, <2>3
<1> QED  BY <1>1, <1>2

-----------------------------------------------------------------------------
(* Ranks in a finite order *)

\* R is a strict total order of S.
IsOrder(R, S) ==
    /\ \A x \in S : <<x, x>> \notin R
    /\ \A x, y \in S : x # y => (<<x, y>> \in R <=> <<y, x>> \notin R)
    /\ \A x, y, z \in S : <<x, y>> \in R /\ <<y, z>> \in R => <<x, z>> \in R

\* The members of S before x.
Below(R, S, x) == {y \in S : <<y, x>> \in R}

\* A later member has more members before it.
LEMMA BelowGrows ==
    ASSUME NEW S, IsFiniteSet(S), NEW R, IsOrder(R, S),
           NEW x \in S, NEW y \in S, <<x, y>> \in R
    PROVE  /\ Cardinality(Below(R, S, x)) \in Nat /\ Cardinality(Below(R, S, y)) \in Nat
           /\ Cardinality(Below(R, S, x)) < Cardinality(Below(R, S, y))
<1>1. Below(R, S, x) \in SUBSET Below(R, S, y)
  BY DEF Below, IsOrder
<1>2. x \in Below(R, S, y) /\ x \notin Below(R, S, x)
  BY DEF Below, IsOrder
<1>3. IsFiniteSet(Below(R, S, y)) /\ IsFiniteSet(Below(R, S, x))
  BY FS_Subset DEF Below
<1>4. /\ Cardinality(Below(R, S, x)) <= Cardinality(Below(R, S, y))
      /\ Cardinality(Below(R, S, x)) # Cardinality(Below(R, S, y))
  BY <1>1, <1>2, <1>3, FS_Subset
<1> QED  BY <1>3, <1>4, FS_CardinalityType

\* Each rank is that of exactly one element.
LEMMA RankExists ==
    ASSUME NEW S, IsFiniteSet(S), NEW R, IsOrder(R, S), NEW k \in 1..Cardinality(S)
    PROVE  /\ \E x \in S : Cardinality(Below(R, S, x)) = k - 1
           /\ \A x, y \in S : Cardinality(Below(R, S, x)) = Cardinality(Below(R, S, y)) => x = y
<1> DEFINE n == Cardinality(S)
           f == [x \in S |-> Cardinality(Below(R, S, x))]
<1>1. n \in Nat
  BY FS_CardinalityType
<1>2. \A x \in S : f[x] \in 0..(n - 1)
  <2> SUFFICES ASSUME NEW x \in S
               PROVE Cardinality(Below(R, S, x)) \in 0..(n - 1)
    OBVIOUS
  <2>1. Below(R, S, x) \in SUBSET S /\ x \notin Below(R, S, x)
    BY DEF Below, IsOrder
  <2>2. /\ Cardinality(Below(R, S, x)) \in Nat
        /\ Cardinality(Below(R, S, x)) <= n /\ Cardinality(Below(R, S, x)) # n
    BY <2>1, FS_Subset, FS_CardinalityType
  <2> QED  BY <1>1, <2>2
<1>3. \A x, y \in S : f[x] = f[y] => x = y
  <2> SUFFICES ASSUME NEW x \in S, NEW y \in S, f[x] = f[y], x # y  PROVE FALSE
    OBVIOUS
  <2>1. <<x, y>> \in R \/ <<y, x>> \in R
    BY DEF IsOrder
  <2> QED  BY <2>1, BelowGrows
<1>4. f \in Injection(S, 0..(n - 1))
  <2>1. f \in [S -> 0..(n - 1)]
    BY <1>2
  <2> HIDE DEF f
  <2> QED  BY <1>3, <2>1 DEF Injection, IsInjective
<1>5. IsFiniteSet(0..(n - 1)) /\ Cardinality(0..(n - 1)) = n
  <2>1. Cardinality(0..(n - 1)) = IF 0 > n - 1 THEN 0 ELSE (n - 1) - 0 + 1
    BY <1>1, FS_Interval
  <2> QED  BY <1>1, <2>1, FS_Interval
<1>6. f \in Surjection(S, 0..(n - 1))
  <2> HIDE DEF f
  <2>1. Cardinality(S) = Cardinality(0..(n - 1))
    BY <1>5
  <2> QED  BY <1>4, <1>5, <2>1, FS_Injection
<1>7. k - 1 \in 0..(n - 1)
  BY <1>1
<1>8. \E x \in S : f[x] = k - 1
  <2> HIDE DEF f
  <2> QED  BY <1>6, <1>7 DEF Surjection
<1>9. \A x \in S : f[x] = Cardinality(Below(R, S, x))
  OBVIOUS
<1> HIDE DEF f
<1>10. \E x \in S : Cardinality(Below(R, S, x)) = k - 1
  BY <1>8, <1>9
<1>11. ASSUME NEW x \in S, NEW y \in S, Cardinality(Below(R, S, x)) = Cardinality(Below(R, S, y))
       PROVE  x = y
  BY <1>3, <1>9, <1>11
<1> QED  BY <1>10, <1>11

-----------------------------------------------------------------------------
(* ORDER BY an ascending array *)

\* a is the least number in which two sets differ.
FirstDifference(S, T, a) ==
    /\ a \in Nat /\ (a \in S <=> a \notin T)
    /\ \A x \in Nat : x < a => (x \in S <=> x \in T)

\* Different sets of numbers differ first in the least member of their difference.
LEMMA FirstExists ==
    ASSUME NEW S \in SUBSET Nat, NEW T \in SUBSET Nat, S # T
    PROVE  FirstDifference(S, T, Min(SymDiff(S, T)))
<1> DEFINE D == SymDiff(S, T)
<1>1. D \in SUBSET Nat /\ D # {} /\ \A x \in Nat : x \in D <=> (x \in S <=> x \notin T)
  BY DEF SymDiff
<1>2. Min(D) \in D /\ \A x \in D : Min(D) <= x
  BY <1>1, MinIsLeast
<1> DEFINE a == Min(D)
<1> HIDE DEF D, a
<1>3. a \in D /\ \A x \in D : a <= x
  BY <1>2 DEF a
<1>4. a \in Nat /\ (a \in S <=> a \notin T)
  BY <1>1, <1>3
<1>5. ASSUME NEW x \in Nat, x < a  PROVE x \in S <=> x \in T
  <2>1. x \notin D
    BY <1>3, <1>4, <1>5
  <2> QED  BY <1>1, <2>1
<1>6. FirstDifference(S, T, a)
  BY <1>4, <1>5 DEF FirstDifference
<1> QED  BY <1>6 DEF D, a

\* No other number is the first difference.
LEMMA FirstIsMin ==
    ASSUME NEW S \in SUBSET Nat, NEW T \in SUBSET Nat, NEW a, FirstDifference(S, T, a)
    PROVE  Min(SymDiff(S, T)) = a
<1>1. S # T
  BY DEF FirstDifference
<1>2. FirstDifference(S, T, Min(SymDiff(S, T)))
  BY <1>1, FirstExists
<1> QED  BY <1>2 DEF FirstDifference

\* The order of two arrays is read off at their first difference.
LEMMA ArrayBeforeAt ==
    ASSUME NEW S \in SUBSET Nat, NEW T \in SUBSET Nat, NEW a, FirstDifference(S, T, a)
    PROVE  ArrayBefore(S, T) <=> IF a \in S THEN \E t \in T : t > a ELSE ~ \E t \in S : t > a
<1>1. S # T
  BY DEF FirstDifference
<1> QED  BY <1>1, FirstIsMin DEF ArrayBefore

\* The arrays are in a strict total order.
LEMMA ArrayBeforeTotal ==
    ASSUME NEW S \in SUBSET Nat, NEW T \in SUBSET Nat
    PROVE  /\ ~ ArrayBefore(S, S)
           /\ S # T => (ArrayBefore(S, T) <=> ~ ArrayBefore(T, S))
<1>1. ~ ArrayBefore(S, S)
  BY DEF ArrayBefore
<1>2. ASSUME S # T  PROVE ArrayBefore(S, T) <=> ~ ArrayBefore(T, S)
  <2>1. PICK a : FirstDifference(S, T, a)
    BY <1>2, FirstExists
  <2>2. FirstDifference(T, S, a)
    BY <2>1 DEF FirstDifference
  <2>3. ArrayBefore(S, T) <=> IF a \in S THEN \E t \in T : t > a ELSE ~ \E t \in S : t > a
    BY <2>1, ArrayBeforeAt
  <2>4. ArrayBefore(T, S) <=> IF a \in T THEN \E t \in S : t > a ELSE ~ \E t \in T : t > a
    BY <2>2, ArrayBeforeAt
  <2>5. a \in S <=> a \notin T
    BY <2>1 DEF FirstDifference
  <2> QED  BY <2>3, <2>4, <2>5
<1> QED  BY <1>1, <1>2

\* The order of the arrays is transitive.
LEMMA ArrayBeforeTransitive ==
    ASSUME NEW S \in SUBSET Nat, NEW T \in SUBSET Nat, NEW U \in SUBSET Nat,
           ArrayBefore(S, T), ArrayBefore(T, U)
    PROVE  ArrayBefore(S, U)
<1>1. S # T /\ T # U
  BY DEF ArrayBefore
<1>2. PICK a : FirstDifference(S, T, a)
  BY <1>1, FirstExists
<1>3. PICK b : FirstDifference(T, U, b)
  BY <1>1, FirstExists
<1>4. IF a \in S THEN \E t \in T : t > a ELSE ~ \E t \in S : t > a
  BY <1>2, ArrayBeforeAt
<1>5. IF b \in T THEN \E t \in U : t > b ELSE ~ \E t \in T : t > b
  BY <1>3, ArrayBeforeAt
<1>6. a \in Nat /\ b \in Nat
  BY <1>2, <1>3 DEF FirstDifference
<1>7. CASE a < b
  <2>1. FirstDifference(S, U, a)
    BY <1>2, <1>3, <1>6, <1>7 DEF FirstDifference
  <2>2. a \in S => \E t \in U : t > a
    <3> SUFFICES ASSUME a \in S  PROVE \E t \in U : t > a
      OBVIOUS
    <3>1. CASE b \in U
      BY <1>6, <1>7, <3>1
    <3>2. CASE b \notin U
      <4>1. b \in T
        BY <1>3, <3>2 DEF FirstDifference
      <4>2. PICK t \in U : t > b
        BY <1>5, <4>1
      <4> QED  BY <1>6, <1>7, <4>2
    <3> QED  BY <3>1, <3>2
  <2> QED  BY <1>4, <2>1, <2>2, ArrayBeforeAt
<1>8. CASE b < a
  <2>1. FirstDifference(S, U, b)
    BY <1>2, <1>3, <1>6, <1>8 DEF FirstDifference
  <2>2. b \notin S => ~ \E t \in S : t > b
    <3> SUFFICES ASSUME b \notin S  PROVE ~ \E t \in S : t > b
      OBVIOUS
    <3>1. b \notin T
      BY <1>2, <1>6, <1>8 DEF FirstDifference
    <3>2. ~ \E t \in T : t > b
      BY <1>5, <3>1
    <3>3. a \notin T
      BY <1>6, <1>8, <3>2
    <3>4. a \in S
      BY <1>2, <3>3 DEF FirstDifference
    <3>5. PICK t \in T : t > a
      BY <1>4, <3>4
    <3> QED  BY <1>6, <1>8, <3>2, <3>5
  <2>3. b \in S => \E t \in U : t > b
    <3>1. b \in S => b \in T
      BY <1>2, <1>6, <1>8 DEF FirstDifference
    <3> QED  BY <1>5, <3>1
  <2> QED  BY <2>1, <2>2, <2>3, ArrayBeforeAt
<1>9. CASE a = b
  <2>1. a \notin S /\ a \in T /\ a \notin U
    BY <1>2, <1>3, <1>4, <1>5, <1>9 DEF FirstDifference
  <2>2. (~ \E t \in S : t > a) /\ \E t \in U : t > a
    BY <1>4, <1>5, <1>9, <2>1
  <2>3. S # U
    BY <2>2
  <2>4. PICK d : FirstDifference(S, U, d)
    BY <2>3, FirstExists
  <2>5. ~(d < a) /\ d # a
    BY <1>2, <1>3, <1>6, <1>9, <2>1, <2>4 DEF FirstDifference
  <2>6. d \in Nat /\ d > a
    BY <1>6, <2>4, <2>5 DEF FirstDifference
  <2>7. d \notin S /\ ~ \E t \in S : t > d
    BY <1>6, <2>2, <2>6
  <2> QED  BY <2>4, <2>7, ArrayBeforeAt
<1> QED  BY <1>6, <1>7, <1>8, <1>9

-----------------------------------------------------------------------------
(* The arguments of a call and the two halves *)

\* The arguments of a call have their types.
CallArguments ==
    /\ free \in SUBSET Tables
    /\ seats \in [free -> SeatChoices]
    /\ party \in Parties
    /\ tieRank \in TieRanks

\* The free tables of a call are finitely many and have seats.
LEMMA ArgumentsSound ==
    ASSUME CallArguments
    PROVE  /\ free \in SUBSET Nat /\ IsFiniteSet(free) /\ Sound(free, seats)
           /\ \A t \in free : seats[t] \in Nat /\ seats[t] # 0
           /\ party \in Int
<1>1. IsFiniteSet(free)
  BY TablesAssumption, FS_Subset DEF CallArguments
<1>2. \A t \in free : seats[t] \in Nat /\ seats[t] # 0
  BY AllocationAssumption DEF CallArguments
<1> QED  BY <1>1, <1>2, AllocationAssumption DEF CallArguments, Sound

\* The halves partition the free tables.
LEMMA HalvesPartition ==
    ASSUME CallArguments
    PROVE  /\ LeftHalf \in SUBSET free /\ RightHalf \in SUBSET free
           /\ LeftHalf \cap RightHalf = {} /\ LeftHalf \cup RightHalf = free
           /\ LeftHalf \in SUBSET Nat /\ RightHalf \in SUBSET Nat
           /\ IsFiniteSet(LeftHalf) /\ IsFiniteSet(RightHalf)
           /\ IsFiniteSet(SUBSET LeftHalf) /\ IsFiniteSet(SUBSET RightHalf)
<1>1. /\ LeftHalf \in SUBSET free /\ RightHalf \in SUBSET free
      /\ LeftHalf \cap RightHalf = {} /\ LeftHalf \cup RightHalf = free
  BY DEF LeftHalf, RightHalf
<1>2. IsFiniteSet(LeftHalf) /\ IsFiniteSet(RightHalf) /\ free \in SUBSET Nat
  BY <1>1, ArgumentsSound, FS_Subset
<1> QED  BY <1>1, <1>2, FS_SUBSET

\* A set of free tables and its two parts have the same tables and seats.
LEMMA JoinedNumbers ==
    ASSUME CallArguments, NEW left \in SUBSET LeftHalf, NEW right \in SUBSET RightHalf
    PROVE  /\ left \cup right \in SUBSET free
           /\ (left \cup right) \cap LeftHalf = left
           /\ (left \cup right) \cap RightHalf = right
           /\ Cardinality(left) \in Nat /\ Cardinality(right) \in Nat
           /\ SeatsIn(left, seats) \in Nat /\ SeatsIn(right, seats) \in Nat
           /\ Cardinality(left \cup right) = Cardinality(left) + Cardinality(right)
           /\ SeatsIn(left \cup right, seats) = SeatsIn(left, seats) + SeatsIn(right, seats)
<1>1. /\ left \in SUBSET free /\ right \in SUBSET free /\ left \cap right = {}
      /\ left \cup right \in SUBSET free
      /\ (left \cup right) \cap LeftHalf = left /\ (left \cup right) \cap RightHalf = right
  BY HalvesPartition
<1>2. /\ IsFiniteSet(left) /\ IsFiniteSet(right)
      /\ Cardinality(left) \in Nat /\ Cardinality(right) \in Nat
      /\ SeatsIn(left, seats) \in Nat /\ SeatsIn(right, seats) \in Nat
  BY <1>1, ArgumentsSound, SubsetNumbers
<1>3. SeatsIn(left \cup right, seats) = SeatsIn(left, seats) + SeatsIn(right, seats)
  <2>1. \A x \in left \cup right : seats[x] \in Nat
    BY <1>1, ArgumentsSound
  <2> QED  BY <1>1, <1>2, <2>1, SeatsInUnion
<1>4. Cardinality(left \cup right) = Cardinality(left) + Cardinality(right)
  <2>1. Cardinality(left \cup right)
          = Cardinality(left) + Cardinality(right) - Cardinality(left \cap right)
    BY <1>2, FS_Union
  <2>2. Cardinality(left \cap right) = 0
    BY <1>1, FS_EmptySet
  <2> QED  BY <1>2, <2>1, <2>2
<1> QED  BY <1>1, <1>2, <1>3, <1>4

\* A set of free tables is the union of its parts in the two halves.
LEMMA SplitInHalves ==
    ASSUME CallArguments, NEW S \in SUBSET free
    PROVE  /\ S \cap LeftHalf \in SUBSET LeftHalf /\ S \cap RightHalf \in SUBSET RightHalf
           /\ (S \cap LeftHalf) \cup (S \cap RightHalf) = S
BY HalvesPartition

\* The right parts of the best combinations with a given left part.
Rights(left) == {right \in SUBSET RightHalf : left \cup right \in Best}

\* The best combinations whose left part is one of some left halves.
BestOf(J) == {S \in Best : S \cap LeftHalf \in J}

\* The best combinations are finitely many sets of free tables.
LEMMA BestFinite ==
    ASSUME CallArguments
    PROVE  /\ Best \in SUBSET (SUBSET free) /\ IsFiniteSet(Best) /\ Cardinality(Best) \in Nat
           /\ \A J : IsFiniteSet(BestOf(J)) /\ Cardinality(BestOf(J)) \in Nat
           /\ \A left : IsFiniteSet(Rights(left)) /\ Cardinality(Rights(left)) \in Nat
<1>1. Best \in SUBSET (SUBSET free)
  BY DEF Best, BestAllocations
<1>2. IsFiniteSet(SUBSET free) /\ IsFiniteSet(SUBSET RightHalf)
  BY ArgumentsSound, HalvesPartition, FS_SUBSET
<1>3. IsFiniteSet(Best)
  BY <1>1, <1>2, FS_Subset
<1>4. ASSUME NEW J  PROVE IsFiniteSet(BestOf(J))
  <2>1. BestOf(J) \in SUBSET Best
    BY DEF BestOf
  <2> QED  BY <1>3, <2>1, FS_Subset
<1>5. ASSUME NEW left  PROVE IsFiniteSet(Rights(left))
  <2>1. Rights(left) \in SUBSET (SUBSET RightHalf)
    BY DEF Rights
  <2> QED  BY <1>2, <2>1, FS_Subset
<1> QED  BY <1>1, <1>3, <1>4, <1>5, FS_CardinalityType

\* The groups of the search hold the right parts of the best combinations.
LEMMA GroupIsRights ==
    ASSUME CallArguments, BestNumbers(free, seats, party, best.count, best.seats),
           NEW left \in SUBSET LeftHalf
    PROVE  Group(left) = Rights(left)
<1>1. /\ Best = {S \in SUBSET free : Cardinality(S) = best.count /\ SeatsIn(S, seats) = best.seats}
      /\ best.count \in Nat /\ best.seats \in Nat
  BY ArgumentsSound, BestByNumbers DEF Best
<1>2. ASSUME NEW right \in SUBSET RightHalf
      PROVE  right \in Group(left) <=> right \in Rights(left)
  <2> DEFINE S == left \cup right
  <2>1. /\ S \in SUBSET free
        /\ Cardinality(left) \in Nat /\ Cardinality(right) \in Nat
        /\ Cardinality(S) = Cardinality(left) + Cardinality(right)
        /\ SeatsIn(S, seats) = SeatsIn(left, seats) + SeatsIn(right, seats)
    BY JoinedNumbers
  <2>2. right \in Rights(left) <=> S \in Best
    BY DEF Rights
  <2>3. S \in Best <=> Cardinality(S) = best.count /\ SeatsIn(S, seats) = best.seats
    BY <1>1, <2>1
  <2>4. right \in Group(left) <=> /\ Cardinality(right) = best.count - Cardinality(left)
                                  /\ SeatsIn(left, seats) + SeatsIn(right, seats) = best.seats
    BY DEF Group
  <2> HIDE DEF S
  <2> QED  BY <1>1, <2>1, <2>2, <2>3, <2>4
<1> QED  BY <1>2 DEF Group, Rights

\* Left and right part make a best combination in one way.
LEMMA RightsCount ==
    ASSUME CallArguments, NEW left \in SUBSET LeftHalf
    PROVE  Cardinality(BestOf({left})) = Cardinality(Rights(left))
<1> DEFINE f == [right \in Rights(left) |-> left \cup right]
<1>1. ASSUME NEW right \in Rights(left)
      PROVE  /\ left \cup right \in BestOf({left})
             /\ (left \cup right) \cap RightHalf = right
  BY JoinedNumbers DEF Rights, BestOf
<1>2. f \in Injection(Rights(left), BestOf({left}))
  <2>1. f \in [Rights(left) -> BestOf({left})]
    BY <1>1
  <2>2. ASSUME NEW r \in Rights(left), NEW u \in Rights(left), f[r] = f[u]  PROVE r = u
    <3>1. left \cup r = left \cup u
      BY <2>2
    <3> QED  BY <1>1, <3>1
  <2> HIDE DEF f
  <2> QED  BY <2>1, <2>2 DEF Injection, IsInjective
<1>3. ASSUME NEW S \in BestOf({left})
      PROVE  S \cap RightHalf \in Rights(left) /\ f[S \cap RightHalf] = S
  <2>1. S \in Best /\ S \cap LeftHalf = left /\ S \in SUBSET free
    BY BestFinite DEF BestOf
  <2>2. S \cap RightHalf \in SUBSET RightHalf /\ left \cup (S \cap RightHalf) = S
    BY <2>1, SplitInHalves
  <2> QED  BY <2>1, <2>2 DEF Rights
<1>4. f \in Bijection(Rights(left), BestOf({left}))
  BY <1>2, <1>3 DEF Bijection, Surjection, Injection
<1>5. ExistsBijection(Rights(left), BestOf({left}))
  BY <1>4 DEF ExistsBijection
<1> QED  BY <1>5, BestFinite, FS_Bijection

\* Different left halves have different best combinations.
LEMMA BestOfUnion ==
    ASSUME CallArguments, NEW J, NEW K, J \cap K = {}
    PROVE  Cardinality(BestOf(J \cup K)) = Cardinality(BestOf(J)) + Cardinality(BestOf(K))
<1>1. BestOf(J \cup K) = BestOf(J) \cup BestOf(K) /\ BestOf(J) \cap BestOf(K) = {}
  BY DEF BestOf
<1>2. Cardinality(BestOf(J) \cup BestOf(K))
        = Cardinality(BestOf(J)) + Cardinality(BestOf(K)) - Cardinality(BestOf(J) \cap BestOf(K))
  BY BestFinite, FS_Union
<1>3. /\ Cardinality(BestOf(J) \cap BestOf(K)) = 0
      /\ Cardinality(BestOf(J)) \in Nat /\ Cardinality(BestOf(K)) \in Nat
  BY <1>1, BestFinite, FS_EmptySet
<1>4. Cardinality(BestOf(J \cup K)) = Cardinality(BestOf(J) \cup BestOf(K))
  BY <1>1, Zenon
<1> QED  BY <1>2, <1>3, <1>4

\* Adding up the groups of some left halves counts their best combinations.
LEMMA SumOfRights ==
    ASSUME CallArguments, NEW J \in SUBSET (SUBSET LeftHalf), NEW f,
           \A l \in J : f[l] = Cardinality(Rights(l))
    PROVE  SeatsIn(J, f) = Cardinality(BestOf(J))
<1> DEFINE Bad == {K \in SUBSET J : SeatsIn(K, f) # Cardinality(BestOf(K))}
<1>1. SUFFICES ASSUME Bad # {}  PROVE FALSE
  OBVIOUS
<1>2. IsFiniteSet(J)
  BY HalvesPartition, FS_Subset
<1>3. PICK K \in Bad : \A L \in SUBSET K : L # K => L \notin Bad
  <2> HIDE DEF Bad
  <2>1. Bad \in SUBSET (SUBSET J)
    BY DEF Bad
  <2> QED  BY <1>1, <1>2, <2>1, SmallestSubset
<1>4. /\ K \in SUBSET J /\ SeatsIn(K, f) # Cardinality(BestOf(K))
      /\ \A L \in SUBSET K : L # K => SeatsIn(L, f) = Cardinality(BestOf(L))
  BY <1>3
<1> HIDE DEF Bad
<1>5. IsFiniteSet(K)
  BY <1>2, <1>4, FS_Subset
<1>6. K # {}
  <2>1. BestOf({}) = {}
    BY DEF BestOf
  <2> QED  BY <1>4, <2>1, SeatsInNone, FS_EmptySet
<1>7. PICK l : l \in K
  BY <1>6
<1>8. l \in SUBSET LeftHalf /\ f[l] = Cardinality(Rights(l))
  BY <1>4, <1>7
<1>9. SeatsIn(K, f) = f[l] + SeatsIn(K \ {l}, f)
  <2>1. \A m \in K : f[m] \in Nat
    BY <1>4, BestFinite
  <2> QED  BY <1>5, <1>7, <2>1, SeatsInOne
<1>10. SeatsIn(K \ {l}, f) = Cardinality(BestOf(K \ {l}))
  BY <1>4, <1>7
<1>11. Cardinality(BestOf(K)) = Cardinality(BestOf({l})) + Cardinality(BestOf(K \ {l}))
  <2>1. {l} \cup (K \ {l}) = K /\ {l} \cap (K \ {l}) = {}
    BY <1>7
  <2>2. Cardinality(BestOf({l} \cup (K \ {l})))
          = Cardinality(BestOf({l})) + Cardinality(BestOf(K \ {l}))
    BY <2>1, BestOfUnion
  <2> QED  BY <2>1, <2>2
<1>12. Cardinality(BestOf({l})) = Cardinality(Rights(l))
  BY <1>8, RightsCount
<1> QED  BY <1>4, <1>8, <1>9, <1>10, <1>11, <1>12

-----------------------------------------------------------------------------
(* The numbers of the search *)

\* A completion is a combination of free tables with enough seats.
LEMMA CompletionIs ==
    ASSUME CallArguments, NEW c \in Nat,
           NEW left \in SUBSET LeftHalf, NEW right \in SUBSET RightHalf
    PROVE  right \in Completions(left, c) <=>
              /\ Cardinality(left \cup right) = c
              /\ SeatsIn(left \cup right, seats) >= party
<1>1. party \in Int
  BY ArgumentsSound
<1> DEFINE S == left \cup right
<1>2. /\ Cardinality(left) \in Nat /\ Cardinality(right) \in Nat
      /\ SeatsIn(left, seats) \in Nat /\ SeatsIn(right, seats) \in Nat
      /\ Cardinality(S) = Cardinality(left) + Cardinality(right)
      /\ SeatsIn(S, seats) = SeatsIn(left, seats) + SeatsIn(right, seats)
  BY JoinedNumbers
<1>3. right \in Completions(left, c) <=>
        /\ Cardinality(right) = c - Cardinality(left)
        /\ SeatsIn(right, seats) >= party - SeatsIn(left, seats)
  BY DEF Completions
<1> HIDE DEF S
<1>4. right \in Completions(left, c) <=> Cardinality(S) = c /\ SeatsIn(S, seats) >= party
  BY <1>1, <1>2, <1>3
<1> QED  BY <1>4 DEF S

\* A member of N that is below all of N is its minimum.
LEMMA MinIs ==
    ASSUME NEW N \in SUBSET Nat, NEW n \in N, \A m \in N : n <= m
    PROVE  Min(N) = n
<1>1. Min(N) \in N /\ \A m \in N : Min(N) <= m
  BY MinIsLeast
<1> DEFINE k == Min(N)
<1> HIDE DEF k
<1>2. k \in N /\ \A m \in N : k <= m
  BY <1>1 DEF k
<1>3. k <= n /\ n <= k /\ k \in Nat /\ n \in Nat
  BY <1>2
<1>4. k = n
  BY <1>3
<1> QED  BY <1>4 DEF k

\* The search over pairs of subsets finds the best numbers.
LEMMA OriginalIsBest ==
    ASSUME CallArguments, party >= 1, NEW c, NEW s,
           BestNumbers(free, seats, party, c, s)
    PROVE  OriginalCount = c /\ OriginalSeats = s
<1>1. /\ c \in Nat /\ s \in Nat /\ party \in Int /\ party <= s
      /\ IsFiniteSet(free) /\ Sound(free, seats)
  <2>1. IsFiniteSet(free) /\ Sound(free, seats) /\ party \in Int
    BY ArgumentsSound
  <2>2. c \in Nat /\ s \in Nat
    BY <2>1, BestByNumbers
  <2>3. party <= s
    BY DEF BestNumbers
  <2> QED  BY <2>1, <2>2, <2>3
<1>2. PICK W \in SUBSET free : Cardinality(W) = c /\ SeatsIn(W, seats) = s
  BY DEF BestNumbers
<1>3. \A S \in SUBSET free : SeatsIn(S, seats) >= party =>
          c <= Cardinality(S) /\ (Cardinality(S) = c => s <= SeatsIn(S, seats))
  BY DEF BestNumbers
<1>4. /\ W \cap LeftHalf \in SUBSET LeftHalf /\ W \cap RightHalf \in SUBSET RightHalf
      /\ (W \cap LeftHalf) \cup (W \cap RightHalf) = W
  BY <1>2, SplitInHalves
<1>5. W \cap RightHalf \in Completions(W \cap LeftHalf, c)
  <2>1. Cardinality(W) = c /\ SeatsIn(W, seats) >= party
    BY <1>1, <1>2
  <2> QED  BY <1>1, <1>4, <2>1, CompletionIs
<1>6. c \in 1..Cardinality(free)
  <2>1. W # {}
    BY <1>1, <1>2, SeatsInNone
  <2>2. c # 0
    BY <1>1, <1>2, <2>1, FS_EmptySet, FS_Subset
  <2>3. c <= Cardinality(free) /\ Cardinality(free) \in Nat
    BY <1>1, <1>2, FS_Subset, FS_CardinalityType
  <2> QED  BY <1>1, <2>2, <2>3
<1> DEFINE N == {n \in 1..Cardinality(free) :
                    \E left \in SUBSET LeftHalf : Completions(left, n) # {}}
<1>7. ASSUME NEW n \in N  PROVE c <= n
  <2>1. n \in Nat
    OBVIOUS
  <2>2. PICK left \in SUBSET LeftHalf : Completions(left, n) # {}
    OBVIOUS
  <2>3. PICK right \in SUBSET RightHalf : right \in Completions(left, n)
    BY <2>2 DEF Completions
  <2>4. /\ Cardinality(left \cup right) = n
        /\ SeatsIn(left \cup right, seats) >= party
    BY <2>1, <2>3, CompletionIs
  <2>5. left \cup right \in SUBSET free
    BY JoinedNumbers
  <2> QED  BY <1>3, <2>4, <2>5
<1>8. c \in N
  BY <1>4, <1>5, <1>6
<1>9. N \in SUBSET Nat
  OBVIOUS
<1>10. Min(N) = c
  <2> HIDE DEF N
  <2> QED  BY <1>7, <1>8, <1>9, MinIs
<1>11. OriginalCount = c
  BY <1>10 DEF OriginalCount
<1> HIDE DEF N
<1> DEFINE M == UNION {{SeatsIn(left \cup right, seats) : right \in Completions(left, c)} :
                          left \in SUBSET LeftHalf}
<1>12. ASSUME NEW m \in M  PROVE m \in Nat /\ s <= m
  <2>1. PICK left \in SUBSET LeftHalf :
              m \in {SeatsIn(left \cup right, seats) : right \in Completions(left, c)}
    OBVIOUS
  <2>2. PICK right \in Completions(left, c) : m = SeatsIn(left \cup right, seats)
    BY <2>1
  <2>3. right \in SUBSET RightHalf
    BY <2>2 DEF Completions
  <2>4. /\ Cardinality(left \cup right) = c
        /\ SeatsIn(left \cup right, seats) >= party
    BY <1>1, <2>2, <2>3, CompletionIs
  <2>5. left \cup right \in SUBSET free
    BY <2>3, JoinedNumbers
  <2>6. m \in Nat
    BY <1>1, <2>2, <2>5, SubsetNumbers
  <2> QED  BY <1>3, <2>2, <2>4, <2>5, <2>6
<1>13. s \in M
  BY <1>2, <1>4, <1>5
<1>14. Min(M) = s
  <2> HIDE DEF M
  <2>1. M \in SUBSET Nat
    BY <1>12
  <2> QED  BY <1>12, <1>13, <2>1, MinIs
<1>15. OriginalSeats = s
  BY <1>11, <1>14 DEF OriginalSeats
<1> QED  BY <1>11, <1>15

\* The groups of the original search are those of the best combinations.
LEMMA OriginalRights ==
    ASSUME CallArguments, party >= 1, NEW c, NEW s,
           BestNumbers(free, seats, party, c, s), NEW left \in SUBSET LeftHalf
    PROVE  {right \in Completions(left, OriginalCount) :
               SeatsIn(left \cup right, seats) = OriginalSeats} = Rights(left)
<1>1. OriginalCount = c /\ OriginalSeats = s
  BY OriginalIsBest
<1>2. /\ c \in Nat /\ s \in Nat /\ party \in Int /\ party <= s
      /\ Best = {S \in SUBSET free : Cardinality(S) = c /\ SeatsIn(S, seats) = s}
  BY ArgumentsSound, BestByNumbers DEF BestNumbers, Best
<1>3. ASSUME NEW right \in SUBSET RightHalf
      PROVE  right \in Completions(left, c) /\ SeatsIn(left \cup right, seats) = s
                <=> right \in Rights(left)
  <2>1. left \cup right \in SUBSET free
    BY JoinedNumbers
  <2>2. right \in Completions(left, c) <=>
              /\ Cardinality(left \cup right) = c
              /\ SeatsIn(left \cup right, seats) >= party
    BY <1>2, CompletionIs
  <2> QED  BY <1>2, <2>1, <2>2 DEF Rights
<1>4. Completions(left, c) \in SUBSET (SUBSET RightHalf)
  BY DEF Completions
<1> QED  BY <1>1, <1>3, <1>4 DEF Rights

-----------------------------------------------------------------------------
(* OFFSET k - 1 LIMIT 1 in the two orders of the function *)

\* ORDER BY an ascending array as a set of pairs.
ArrayOrder(S) == {p \in S \X S : ArrayBefore(p[1], p[2])}

\* ORDER BY an ascending array is a strict total order.
LEMMA ArrayOrderIs ==
    ASSUME NEW S \in SUBSET (SUBSET Nat)
    PROVE  /\ IsOrder(ArrayOrder(S), S)
           /\ \A x \in S : Below(ArrayOrder(S), S, x) = {y \in S : ArrayBefore(y, x)}
<1>1. \A x, y \in S : <<x, y>> \in ArrayOrder(S) <=> ArrayBefore(x, y)
  BY DEF ArrayOrder
<1>2. \A x \in S : x \in SUBSET Nat
  OBVIOUS
<1>3. \A x \in S : ~ ArrayBefore(x, x)
  BY <1>2, ArrayBeforeTotal
<1>4. \A x, y \in S : x # y => (ArrayBefore(x, y) <=> ~ ArrayBefore(y, x))
  BY <1>2, ArrayBeforeTotal
<1>5. \A x, y, z \in S : ArrayBefore(x, y) /\ ArrayBefore(y, z) => ArrayBefore(x, z)
  BY <1>2, ArrayBeforeTransitive
<1>6. IsOrder(ArrayOrder(S), S)
  BY <1>1, <1>3, <1>4, <1>5 DEF IsOrder
<1> QED  BY <1>1, <1>6 DEF Below

\* The k-th array of a set, and no other, has k - 1 arrays before it.
LEMMA NthArray ==
    ASSUME NEW S \in SUBSET (SUBSET Nat), IsFiniteSet(S), NEW k \in 1..Cardinality(S)
    PROVE  /\ Nth(ArrayBefore, S, k) \in S
           /\ \A x \in S : Cardinality({y \in S : ArrayBefore(y, x)}) = k - 1
                              <=> x = Nth(ArrayBefore, S, k)
<1> DEFINE R == ArrayOrder(S)
<1>1. IsOrder(R, S) /\ \A x \in S : Below(R, S, x) = {y \in S : ArrayBefore(y, x)}
  BY ArrayOrderIs
<1> HIDE DEF R
<1>2. /\ \E x \in S : Cardinality(Below(R, S, x)) = k - 1
      /\ \A x, y \in S : Cardinality(Below(R, S, x)) = Cardinality(Below(R, S, y)) => x = y
  BY <1>1, RankExists
<1> DEFINE At(x) == Cardinality({y \in S : ArrayBefore(y, x)})
<1>3. \A x \in S : At(x) = Cardinality(Below(R, S, x))
  BY <1>1
<1>4. Nth(ArrayBefore, S, k) = CHOOSE x \in S : At(x) = k - 1
  BY DEF Nth
<1> HIDE DEF At
<1>5. \E x \in S : At(x) = k - 1
  BY <1>2, <1>3
<1> DEFINE n == CHOOSE x \in S : At(x) = k - 1
<1>6. n \in S /\ At(n) = k - 1
  BY <1>5
<1> HIDE DEF n
<1>7. \A x \in S : At(x) = k - 1 <=> x = n
  BY <1>2, <1>3, <1>6
<1>8. Nth(ArrayBefore, S, k) = n
  BY <1>4 DEF n
<1> QED  BY <1>6, <1>7, <1>8 DEF At

-----------------------------------------------------------------------------
(* The place of a combination among the best *)

\* The best combinations before a given one: those with an earlier left half,
\* and those with the same left half and an earlier right half.
LEMMA PlaceOfBest ==
    ASSUME CallArguments, NEW left \in SUBSET LeftHalf, NEW right \in Rights(left)
    PROVE  Cardinality({S \in Best : AllocatedBefore(S, left \cup right)})
             = Cardinality(BestOf({l \in SUBSET LeftHalf : ArrayBefore(l, left)}))
               + Cardinality({y \in Rights(left) : ArrayBefore(y, right)})
<1> DEFINE W == left \cup right
           early == BestOf({l \in SUBSET LeftHalf : ArrayBefore(l, left)})
           same == {S \in BestOf({left}) : ArrayBefore(S \cap RightHalf, right)}
           rights == {y \in Rights(left) : ArrayBefore(y, right)}
<1>1. right \in SUBSET RightHalf /\ W \cap LeftHalf = left /\ W \cap RightHalf = right
  BY JoinedNumbers DEF Rights
<1>2. {S \in Best : AllocatedBefore(S, W)} = early \cup same
  <2>1. ASSUME NEW S \in Best
        PROVE  AllocatedBefore(S, W) <=> S \in early \/ S \in same
    <3>1. S \cap LeftHalf \in SUBSET LeftHalf
      OBVIOUS
    <3>2. S \in early <=> ArrayBefore(S \cap LeftHalf, left)
      BY <3>1 DEF BestOf
    <3>3. S \in same <=> S \cap LeftHalf = left /\ ArrayBefore(S \cap RightHalf, right)
      BY DEF BestOf
    <3> HIDE DEF W, early, same
    <3> QED  BY <1>1, <3>2, <3>3 DEF AllocatedBefore
  <2>2. early \in SUBSET Best /\ same \in SUBSET Best
    BY DEF BestOf
  <2> HIDE DEF W, early, same
  <2> QED  BY <2>1, <2>2
<1>3. early \cap same = {}
  <2>1. left \in SUBSET Nat
    BY HalvesPartition
  <2> QED  BY <2>1, ArrayBeforeTotal DEF BestOf
<1>4. IsFiniteSet(early) /\ IsFiniteSet(same) /\ IsFiniteSet(rights)
  <2>1. same \in SUBSET BestOf({left}) /\ rights \in SUBSET Rights(left)
    OBVIOUS
  <2>2. IsFiniteSet(BestOf({left})) /\ IsFiniteSet(Rights(left)) /\ IsFiniteSet(early)
    BY BestFinite
  <2> HIDE DEF early, same, rights
  <2> QED  BY <2>1, <2>2, FS_Subset
<1>5. Cardinality(same) = Cardinality(rights)
  <2> DEFINE f == [y \in rights |-> left \cup y]
  <2>1. ASSUME NEW y \in rights
        PROVE  left \cup y \in same /\ (left \cup y) \cap RightHalf = y
    <3>1. y \in SUBSET RightHalf /\ left \cup y \in Best
      BY DEF Rights
    <3>2. (left \cup y) \cap LeftHalf = left /\ (left \cup y) \cap RightHalf = y
      BY <3>1, JoinedNumbers
    <3> QED  BY <3>1, <3>2 DEF BestOf
  <2>2. f \in Injection(rights, same)
    <3>1. f \in [rights -> same]
      BY <2>1
    <3>2. ASSUME NEW y \in rights, NEW z \in rights, f[y] = f[z]  PROVE y = z
      <4>1. left \cup y = left \cup z
        BY <3>2
      <4> QED  BY <2>1, <4>1
    <3> HIDE DEF f
    <3> QED  BY <3>1, <3>2 DEF Injection, IsInjective
  <2>3. ASSUME NEW S \in same  PROVE \E y \in rights : f[y] = S
    <3> DEFINE y == S \cap RightHalf
    <3>1. S \in Best /\ S \cap LeftHalf = left /\ ArrayBefore(y, right) /\ S \in SUBSET free
      BY BestFinite DEF BestOf
    <3>2. y \in SUBSET RightHalf /\ left \cup y = S
      BY <3>1, SplitInHalves
    <3>3. y \in rights
      BY <3>1, <3>2 DEF Rights
    <3> QED  BY <3>2, <3>3
  <2>4. f \in Bijection(rights, same)
    <3> HIDE DEF f
    <3> QED  BY <2>2, <2>3 DEF Bijection, Surjection, Injection
  <2>5. ExistsBijection(rights, same)
    BY <2>4 DEF ExistsBijection
  <2> HIDE DEF rights, same
  <2> QED  BY <1>4, <2>5, FS_Bijection
<1>6. Cardinality(early \cup same)
        = Cardinality(early) + Cardinality(same) - Cardinality(early \cap same)
  <2> HIDE DEF early, same
  <2> QED  BY <1>4, FS_Union
<1>7. /\ Cardinality(early) \in Nat /\ Cardinality(same) \in Nat
      /\ Cardinality(early \cap same) = 0
  BY <1>3, <1>4, FS_CardinalityType, FS_EmptySet
<1>8. Cardinality({S \in Best : AllocatedBefore(S, W)}) = Cardinality(early) + Cardinality(same)
  <2> HIDE DEF early, same, W
  <2>1. Cardinality({S \in Best : AllocatedBefore(S, W)}) = Cardinality(early \cup same)
    BY <1>2, Zenon
  <2> QED  BY <1>6, <1>7, <2>1
<1> HIDE DEF early, same, rights, W
<1>9. Cardinality({S \in Best : AllocatedBefore(S, W)}) = Cardinality(early) + Cardinality(rights)
  BY <1>5, <1>8
<1> QED  BY <1>9 DEF early, rights, W

-----------------------------------------------------------------------------
(* The two sums over groups *)

\* The recursive function that adds up the sizes of sets, one per member of S.
IsSizeFold(g, rights, S) ==
    g = [s \in SUBSET S |->
            IF s = {} THEN 0
            ELSE Cardinality(rights[CHOOSE x \in s : TRUE]) + g[s \ {CHOOSE x \in s : TRUE}]]

\* Adding up sizes is adding up the seats of tables with these capacities.
LEMMA SumOfSizes ==
    ASSUME NEW S, IsFiniteSet(S), NEW rights
    PROVE  MapThenSumSet(LAMBDA l : Cardinality(rights[l]), S)
             = SeatsIn(S, [l \in S |-> Cardinality(rights[l])])
<1> DEFINE f == [l \in S |-> Cardinality(rights[l])]
           g == CHOOSE g : IsSizeFold(g, rights, S)
           h == CHOOSE h : IsFold(h, f, S)
<1>1. MapThenSumSet(LAMBDA l : Cardinality(rights[l]), S) = g[S]
  BY DEF MapThenSumSet, MapThenFoldSet, IsSizeFold
<1>2. SeatsIn(S, f) = h[S] /\ IsFold(h, f, S)
  <2> HIDE DEF f
  <2> QED  BY SeatsInFold, FoldExists
<1>3. ASSUME NEW k  PROVE IsSizeFold(k, rights, S) <=> IsFold(k, f, S)
  <2>1. ASSUME NEW s \in SUBSET S, s # {}
        PROVE  f[CHOOSE x \in s : TRUE] = Cardinality(rights[CHOOSE x \in s : TRUE])
    <3>1. (CHOOSE x \in s : TRUE) \in S
      BY <2>1
    <3> QED  BY <3>1
  <2> HIDE DEF f
  <2> QED  BY <2>1 DEF IsSizeFold, IsFold
<1>4. IsFold(g, f, S)
  <2> HIDE DEF f
  <2> QED  BY <1>2, <1>3
<1>5. g[S] = h[S]
  <2> HIDE DEF f, g, h
  <2> QED  BY <1>2, <1>4, FoldsAgree
<1> QED  BY <1>1, <1>2, <1>5

\* The recursive function that adds up the sizes of the groups.
IsGroupFold(g, S) ==
    g = [s \in SUBSET S |->
            IF s = {} THEN 0
            ELSE Cardinality(Group(CHOOSE x \in s : TRUE)) + g[s \ {CHOOSE x \in s : TRUE}]]

\* The sum of the search is a sum of sizes as well.
LEMMA SumOfGroups ==
    ASSUME NEW S, IsFiniteSet(S)
    PROVE  MapThenSumSet(LAMBDA left : Cardinality(Group(left)), S)
             = SeatsIn(S, [l \in S |-> Cardinality(Group(l))])
<1> DEFINE f == [l \in S |-> Cardinality(Group(l))]
           g == CHOOSE g : IsGroupFold(g, S)
           h == CHOOSE h : IsFold(h, f, S)
<1>1. MapThenSumSet(LAMBDA left : Cardinality(Group(left)), S) = g[S]
  BY DEF MapThenSumSet, MapThenFoldSet, IsGroupFold
<1>2. SeatsIn(S, f) = h[S] /\ IsFold(h, f, S)
  <2> HIDE DEF f
  <2> QED  BY SeatsInFold, FoldExists
<1>3. ASSUME NEW k  PROVE IsGroupFold(k, S) <=> IsFold(k, f, S)
  <2>1. ASSUME NEW s \in SUBSET S, s # {}
        PROVE  f[CHOOSE x \in s : TRUE] = Cardinality(Group(CHOOSE x \in s : TRUE))
    <3>1. (CHOOSE x \in s : TRUE) \in S
      BY <2>1
    <3> QED  BY <3>1
  <2> HIDE DEF f
  <2> QED  BY <2>1 DEF IsGroupFold, IsFold
<1>4. IsFold(g, f, S)
  <2> HIDE DEF f
  <2> QED  BY <1>2, <1>3
<1>5. g[S] = h[S]
  <2> HIDE DEF f, g, h
  <2> QED  BY <1>2, <1>4, FoldsAgree
<1> QED  BY <1>1, <1>2, <1>5

\* The ties that the search adds up are the best combinations.
LEMMA TiesAreBest ==
    ASSUME CallArguments, BestNumbers(free, seats, party, best.count, best.seats)
    PROVE  MapThenSumSet(LAMBDA left : Cardinality(Group(left)), SUBSET LeftHalf)
             = Cardinality(Best)
<1> DEFINE J == SUBSET LeftHalf
           f == [l \in J |-> Cardinality(Group(l))]
<1>1. IsFiniteSet(J)
  BY HalvesPartition
<1>2. \A l \in J : f[l] = Cardinality(Rights(l))
  BY GroupIsRights
<1>3. SeatsIn(J, f) = Cardinality(BestOf(J))
  <2> HIDE DEF f
  <2> QED  BY <1>2, SumOfRights
<1>4. BestOf(J) = Best
  BY DEF BestOf
<1>5. MapThenSumSet(LAMBDA left : Cardinality(Group(left)), J) = SeatsIn(J, f)
  <2> HIDE DEF J
  <2> QED  BY <1>1, SumOfGroups
<1> HIDE DEF f
<1> QED  BY <1>3, <1>4, <1>5

-----------------------------------------------------------------------------
(* The answer of the original search *)

\* The left halves before a given one.
Earlier(left) == {l \in SUBSET LeftHalf : ArrayBefore(l, left)}

\* The left half of the answer is the only one whose group holds the rank.
LEMMA RankInOneGroup ==
    ASSUME CallArguments, NEW k \in Int, NEW l \in SUBSET LeftHalf, NEW m \in SUBSET LeftHalf,
           Cardinality(BestOf(Earlier(l))) < k,
           k <= Cardinality(BestOf(Earlier(l))) + Cardinality(Rights(l)),
           Cardinality(BestOf(Earlier(m))) < k,
           k <= Cardinality(BestOf(Earlier(m))) + Cardinality(Rights(m))
    PROVE  l = m
<1>1. ASSUME NEW x \in SUBSET LeftHalf, NEW y \in SUBSET LeftHalf, ArrayBefore(x, y)
      PROVE  Cardinality(BestOf(Earlier(x))) + Cardinality(Rights(x))
               <= Cardinality(BestOf(Earlier(y)))
  <2>1. LeftHalf \in SUBSET Nat
    BY HalvesPartition
  <2>2. Earlier(x) \cap {x} = {}
    BY <2>1, ArrayBeforeTotal DEF Earlier
  <2>3. Cardinality(BestOf(Earlier(x) \cup {x}))
          = Cardinality(BestOf(Earlier(x))) + Cardinality(Rights(x))
    <3>1. Cardinality(BestOf(Earlier(x) \cup {x}))
            = Cardinality(BestOf(Earlier(x))) + Cardinality(BestOf({x}))
      BY <2>2, BestOfUnion
    <3> QED  BY <3>1, RightsCount
  <2>4. Earlier(x) \cup {x} \in SUBSET Earlier(y)
    BY <1>1, <2>1, ArrayBeforeTransitive DEF Earlier
  <2>5. BestOf(Earlier(x) \cup {x}) \in SUBSET BestOf(Earlier(y))
    BY <2>4 DEF BestOf
  <2>6. Cardinality(BestOf(Earlier(x) \cup {x})) <= Cardinality(BestOf(Earlier(y)))
    BY <2>5, BestFinite, FS_Subset
  <2> QED  BY <2>3, <2>6
<1>2. ~ ArrayBefore(l, m) /\ ~ ArrayBefore(m, l)
  <2>1. /\ Cardinality(BestOf(Earlier(l))) \in Nat /\ Cardinality(BestOf(Earlier(m))) \in Nat
        /\ Cardinality(Rights(l)) \in Nat /\ Cardinality(Rights(m)) \in Nat
    BY BestFinite
  <2> QED  BY <1>1, <2>1
<1>3. l \in SUBSET Nat /\ m \in SUBSET Nat
  BY HalvesPartition
<1> QED  BY <1>2, <1>3, ArrayBeforeTotal

\* For every rank, the search of migration 006 answers with the best
\* combination that has rank - 1 others before it (006: the loop over the
\* candidate rows).
LEMMA OriginalAnswer ==
    ASSUME CallArguments, party >= 1, NEW c, NEW s,
           BestNumbers(free, seats, party, c, s),
           NEW W \in Best, NEW k \in Int,
           Cardinality({S \in Best : AllocatedBefore(S, W)}) = k - 1
    PROVE  OriginalWinner(k) = W
<1> DEFINE H == SUBSET LeftHalf
           rights == [left \in H |->
                        {right \in Completions(left, OriginalCount) :
                            SeatsIn(left \cup right, seats) = OriginalSeats}]
           before == [left \in H |->
                        MapThenSumSet(LAMBDA l : Cardinality(rights[l]),
                                      {l \in H : ArrayBefore(l, left)})]
           holds(l) == before[l] < k /\ k <= before[l] + Cardinality(rights[l])
           left == CHOOSE l \in H : holds(l)
           L == W \cap LeftHalf
           y == W \cap RightHalf
<1>1. OriginalWinner(k) = left \cup Nth(ArrayBefore, rights[left], k - before[left])
  BY DEF OriginalWinner
<1>2. \A l \in H : rights[l] = Rights(l)
  BY OriginalRights
<1>3. ASSUME NEW l \in H  PROVE before[l] = Cardinality(BestOf(Earlier(l)))
  <2> DEFINE J == {x \in H : ArrayBefore(x, l)}
             f == [x \in J |-> Cardinality(rights[x])]
  <2>1. J \in SUBSET H /\ IsFiniteSet(H) /\ IsFiniteSet(J) /\ J = Earlier(l)
    BY HalvesPartition, FS_Subset DEF Earlier
  <2>2. before[l] = MapThenSumSet(LAMBDA x : Cardinality(rights[x]), J)
    BY DEF MapThenSumSet, MapThenFoldSet
  <2> HIDE DEF rights, before
  <2>3. before[l] = SeatsIn(J, f)
    <3> HIDE DEF J
    <3> QED  BY <2>1, <2>2, SumOfSizes
  <2>4. \A x \in J : f[x] = Cardinality(Rights(x))
    BY <1>2
  <2>5. SeatsIn(J, f) = Cardinality(BestOf(J))
    <3> HIDE DEF J, f
    <3> QED  BY <2>1, <2>4, SumOfRights
  <2> QED  BY <2>1, <2>3, <2>5
<1>4. L \in H /\ y \in SUBSET RightHalf /\ L \cup y = W
  BY BestFinite, SplitInHalves
<1>5. y \in Rights(L)
  BY <1>4 DEF Rights
<1> DEFINE place == Cardinality({z \in Rights(L) : ArrayBefore(z, y)})
<1>6. before[L] + place = k - 1
  <2>1. Cardinality({S \in Best : AllocatedBefore(S, L \cup y)})
          = Cardinality(BestOf({l \in SUBSET LeftHalf : ArrayBefore(l, L)})) + place
    <3> HIDE DEF L, y
    <3> QED  BY <1>4, <1>5, PlaceOfBest
  <2> HIDE DEF rights, before, place
  <2> QED  BY <1>3, <1>4, <2>1 DEF Earlier
<1>7. place \in Nat /\ place < Cardinality(Rights(L))
  <2> DEFINE P == {z \in Rights(L) : ArrayBefore(z, y)}
  <2>1. IsFiniteSet(Rights(L)) /\ Cardinality(Rights(L)) \in Nat
    BY BestFinite
  <2>2. y \notin P
    <3>1. y \in SUBSET Nat
      BY <1>4, HalvesPartition
    <3> QED  BY <3>1, ArrayBeforeTotal
  <2>3. P \in SUBSET Rights(L) /\ P # Rights(L)
    BY <1>5, <2>2
  <2> HIDE DEF P
  <2>4. /\ IsFiniteSet(P) /\ Cardinality(P) \in Nat /\ Cardinality(P) <= Cardinality(Rights(L))
        /\ Cardinality(P) # Cardinality(Rights(L))
    BY <2>1, <2>3, FS_Subset, FS_CardinalityType
  <2> QED  BY <2>1, <2>4 DEF P
<1> HIDE DEF rights, before, place
<1>8. \A l \in H : before[l] \in Nat /\ Cardinality(Rights(l)) \in Nat
  BY <1>3, BestFinite
<1>9. holds(L)
  <2> HIDE DEF L
  <2> QED  BY <1>2, <1>4, <1>6, <1>7, <1>8
<1>10. ASSUME NEW l \in H, holds(l)  PROVE l = L
  <2>1. /\ Cardinality(BestOf(Earlier(l))) < k
        /\ k <= Cardinality(BestOf(Earlier(l))) + Cardinality(Rights(l))
    BY <1>2, <1>3, <1>10
  <2>2. /\ Cardinality(BestOf(Earlier(L))) < k
        /\ k <= Cardinality(BestOf(Earlier(L))) + Cardinality(Rights(L))
    BY <1>2, <1>3, <1>4, <1>9
  <2> HIDE DEF L
  <2> QED  BY <1>4, <2>1, <2>2, RankInOneGroup
<1>11. left = L
  <2> HIDE DEF L, holds
  <2>1. \E l \in H : holds(l)
    BY <1>4, <1>9
  <2>2. left \in H /\ holds(left)
    BY <2>1
  <2> QED  BY <1>10, <2>2
<1>12. Nth(ArrayBefore, Rights(L), k - before[L]) = y
  <2> DEFINE j == k - before[L]
  <2>1. j \in 1..Cardinality(Rights(L)) /\ place = j - 1
    <3> HIDE DEF L
    <3> QED  BY <1>4, <1>6, <1>7, <1>8
  <2>2. Rights(L) \in SUBSET (SUBSET Nat) /\ IsFiniteSet(Rights(L))
    BY BestFinite, HalvesPartition DEF Rights
  <2>3. Cardinality({z \in Rights(L) : ArrayBefore(z, y)}) = j - 1
    BY <2>1 DEF place
  <2> HIDE DEF j, L, y
  <2>4. y = Nth(ArrayBefore, Rights(L), j)
    BY <1>5, <2>1, <2>2, <2>3, NthArray
  <2> QED  BY <2>4 DEF j
<1>13. rights[L] = Rights(L)
  BY <1>2, <1>4
<1> HIDE DEF left, L, y
<1> QED  BY <1>1, <1>4, <1>11, <1>12, <1>13

-----------------------------------------------------------------------------
(* The fast paths *)

\* Arrays of at most one number are ordered by their number, the empty one first.
LEMMA ArrayBeforeSingle ==
    ASSUME NEW x \in Nat, NEW y \in Nat
    PROVE  /\ ArrayBefore({}, {x}) /\ ~ ArrayBefore({x}, {}) /\ ~ ArrayBefore({}, {})
           /\ ArrayBefore({x}, {y}) <=> x < y
<1>1. {x} \in SUBSET Nat /\ {y} \in SUBSET Nat /\ {} \in SUBSET Nat
  OBVIOUS
<1>2. FirstDifference({}, {x}, x) /\ FirstDifference({x}, {}, x)
  BY DEF FirstDifference
<1>3. ArrayBefore({}, {x})
  BY <1>1, <1>2, ArrayBeforeAt
<1>4. ~ ArrayBefore({x}, {})
  BY <1>1, <1>2, ArrayBeforeAt
<1>5. ~ ArrayBefore({}, {})
  BY <1>1, ArrayBeforeTotal
<1>6. CASE x < y
  <2>1. FirstDifference({x}, {y}, x)
    BY <1>6 DEF FirstDifference
  <2> QED  BY <1>1, <1>3, <1>4, <1>5, <1>6, <2>1, ArrayBeforeAt
<1>7. CASE y < x
  <2>1. FirstDifference({x}, {y}, y)
    BY <1>7 DEF FirstDifference
  <2> QED  BY <1>1, <1>3, <1>4, <1>5, <1>7, <2>1, ArrayBeforeAt
<1>8. CASE x = y
  BY <1>1, <1>3, <1>4, <1>5, <1>8, ArrayBeforeTotal
<1> QED  BY <1>6, <1>7, <1>8

\* Single tables in the order of the fast path are in the order of the search.
LEMMA SingleOrder ==
    ASSUME CallArguments, NEW x \in free, NEW y \in free
    PROVE  AllocatedBefore({x}, {y}) <=> SingleBefore(x, y)
<1>1. /\ x \in Nat /\ y \in Nat
      /\ x \in LeftHalf <=> x \notin RightHalf
      /\ y \in LeftHalf <=> y \notin RightHalf
  BY ArgumentsSound, HalvesPartition
<1>2. /\ {x} \cap LeftHalf = IF x \in LeftHalf THEN {x} ELSE {}
      /\ {y} \cap LeftHalf = IF y \in LeftHalf THEN {y} ELSE {}
      /\ {x} \cap RightHalf = IF x \in RightHalf THEN {x} ELSE {}
      /\ {y} \cap RightHalf = IF y \in RightHalf THEN {y} ELSE {}
  OBVIOUS
<1>3. /\ ArrayBefore({}, {x}) /\ ~ ArrayBefore({x}, {}) /\ ~ ArrayBefore({}, {})
      /\ ArrayBefore({}, {y}) /\ ~ ArrayBefore({y}, {})
      /\ ArrayBefore({x}, {y}) <=> x < y
  BY <1>1, ArrayBeforeSingle
<1>4. {x} # {} /\ {y} # {} /\ ({x} = {y} => ~ (x < y))
  BY <1>1
<1> QED  BY <1>1, <1>2, <1>3, <1>4, Zenon DEF AllocatedBefore, SingleBefore

\* The order of the fast path for one table as a set of pairs.
SingleOrderOf(S) == {p \in S \X S : SingleBefore(p[1], p[2])}

\* The k-th single table has k - 1 tables before it.
LEMMA NthSingle ==
    ASSUME CallArguments, NEW S \in SUBSET free, NEW k \in 1..Cardinality(S)
    PROVE  LET x == Nth(SingleBefore, S, k)
           IN  x \in S /\ Cardinality({y \in S : SingleBefore(y, x)}) = k - 1
<1> DEFINE R == SingleOrderOf(S)
<1>1. \A x, y \in S : <<x, y>> \in R <=> SingleBefore(x, y)
  BY DEF SingleOrderOf
<1>2. S \in SUBSET Nat /\ IsFiniteSet(S)
  BY ArgumentsSound, FS_Subset
<1>3. \A x \in S : x \in LeftHalf <=> x \notin RightHalf
  BY HalvesPartition
<1>4. IsOrder(R, S)
  <2> HIDE DEF R
  <2> QED  BY <1>1, <1>2, <1>3 DEF IsOrder, SingleBefore
<1>5. \A x \in S : Below(R, S, x) = {y \in S : SingleBefore(y, x)}
  BY <1>1 DEF Below
<1> HIDE DEF R
<1>6. \E x \in S : Cardinality(Below(R, S, x)) = k - 1
  <2>1. IsFiniteSet(S) /\ IsOrder(R, S) /\ k \in 1..Cardinality(S)
    BY <1>2, <1>4
  <2> QED  BY <2>1, RankExists
<1> DEFINE At(x) == Cardinality({y \in S : SingleBefore(y, x)})
<1>7. Nth(SingleBefore, S, k) = CHOOSE x \in S : At(x) = k - 1
  BY DEF Nth
<1>8. \A x \in S : At(x) = Cardinality(Below(R, S, x))
  BY <1>5
<1> HIDE DEF At
<1>9. \E x \in S : At(x) = k - 1
  BY <1>6, <1>8
<1>10. Nth(SingleBefore, S, k) \in S /\ At(Nth(SingleBefore, S, k)) = k - 1
  BY <1>7, <1>9
<1> QED  BY <1>10 DEF At

\* One table that is large enough makes the best combinations single tables.
LEMMA SingleIsBest ==
    ASSUME CallArguments, party >= 1, Sufficient # {}
    PROVE  LET least == Min({Seats(t) : t \in Sufficient})
               tied  == {t \in free : Seats(t) = least}
           IN  /\ BestNumbers(free, seats, party, 1, least)
               /\ Best = {{t} : t \in tied}
               /\ Cardinality(tied) = Cardinality(Best)
<1> DEFINE N == {Seats(t) : t \in Sufficient}
           least == Min(N)
           tied == {t \in free : Seats(t) = least}
<1>1. /\ IsFiniteSet(free) /\ Sound(free, seats) /\ party \in Int
      /\ \A t \in free : seats[t] \in Nat
  BY ArgumentsSound
<1>2. N \in SUBSET Nat /\ N # {}
  BY <1>1 DEF Sufficient, Seats
<1>3. least \in N /\ \A n \in N : least <= n
  <2> HIDE DEF N
  <2> QED  BY <1>2, MinIsLeast
<1>4. PICK t \in Sufficient : Seats(t) = least
  <2> HIDE DEF least
  <2> QED  BY <1>3
<1> HIDE DEF least
<1>5. t \in free /\ seats[t] = least /\ least >= party /\ least \in Nat
  BY <1>1, <1>4 DEF Sufficient, Seats
<1>6. \A u \in free : SeatsIn({u}, seats) = seats[u] /\ Cardinality({u}) = 1
  BY <1>1, SeatsInSingleton, FS_Singleton
<1>7. ASSUME NEW S \in SUBSET free, SeatsIn(S, seats) >= party
      PROVE  1 <= Cardinality(S) /\ (Cardinality(S) = 1 => least <= SeatsIn(S, seats))
  <2>1. IsFiniteSet(S) /\ Cardinality(S) \in Nat
    BY <1>1, SubsetNumbers
  <2>2. S # {}
    BY <1>1, <1>7, SeatsInNone
  <2>3. Cardinality(S) # 0
    BY <2>1, <2>2, FS_EmptySet
  <2>4. ASSUME Cardinality(S) = 1  PROVE least <= SeatsIn(S, seats)
    <3>1. PICK u : S = {u}
      BY <2>1, <2>4, FS_Singleton
    <3>2. u \in free /\ SeatsIn(S, seats) = seats[u]
      BY <1>6, <3>1
    <3>3. u \in Sufficient
      BY <1>7, <3>2 DEF Sufficient, Seats
    <3> QED  BY <1>3, <3>2, <3>3 DEF Seats
  <2> QED  BY <2>1, <2>3, <2>4
<1>8. BestNumbers(free, seats, party, 1, least)
  <2>1. {t} \in SUBSET free /\ Cardinality({t}) = 1 /\ SeatsIn({t}, seats) = least
    BY <1>5, <1>6
  <2> QED  BY <1>5, <1>7, <2>1 DEF BestNumbers
<1>9. Best = {S \in SUBSET free : Cardinality(S) = 1 /\ SeatsIn(S, seats) = least}
  BY <1>1, <1>8, BestByNumbers DEF Best
<1>10. Best = {{u} : u \in tied}
  <2>1. ASSUME NEW S \in Best  PROVE \E u \in tied : S = {u}
    <3>1. IsFiniteSet(S) /\ S \in SUBSET free /\ Cardinality(S) = 1 /\ SeatsIn(S, seats) = least
      BY <1>1, <1>9, FS_Subset
    <3>2. PICK u : S = {u}
      BY <3>1, FS_Singleton
    <3> QED  BY <1>6, <3>1, <3>2 DEF Seats
  <2>2. ASSUME NEW u \in tied  PROVE {u} \in Best
    BY <1>6, <1>9 DEF Seats
  <2> QED  BY <2>1, <2>2
<1>11. Cardinality(tied) = Cardinality(Best)
  <2> DEFINE f == [u \in tied |-> {u}]
  <2>1. f \in [tied -> Best]
    BY <1>10
  <2>2. \A u, v \in tied : f[u] = f[v] => u = v
    OBVIOUS
  <2>3. \A S \in Best : \E u \in tied : f[u] = S
    BY <1>10
  <2>4. tied \in SUBSET free
    OBVIOUS
  <2>5. f \in Bijection(tied, Best)
    <3> HIDE DEF f, tied
    <3> QED  BY <2>1, <2>2, <2>3 DEF Bijection, Injection, Surjection, IsInjective
  <2>6. ExistsBijection(tied, Best) /\ IsFiniteSet(tied)
    BY <1>1, <2>4, <2>5, FS_Subset DEF ExistsBijection
  <2> HIDE DEF tied, f
  <2> QED  BY <2>6, FS_Bijection
<1> QED  BY <1>8, <1>10, <1>11 DEF least

\* The best single tables before one of them, by the order of the fast path.
LEMMA PlaceOfSingle ==
    ASSUME CallArguments, NEW S \in SUBSET free, Best = {{t} : t \in S}, NEW x \in S
    PROVE  Cardinality({T \in Best : AllocatedBefore(T, {x})})
             = Cardinality({y \in S : SingleBefore(y, x)})
<1> DEFINE P == {T \in Best : AllocatedBefore(T, {x})}
           Q == {y \in S : SingleBefore(y, x)}
           f == [y \in Q |-> {y}]
<1>1. \A y \in S : {y} \in Best /\ (AllocatedBefore({y}, {x}) <=> SingleBefore(y, x))
  BY SingleOrder
<1>2. f \in [Q -> P]
  BY <1>1
<1>3. \A y, z \in Q : f[y] = f[z] => y = z
  OBVIOUS
<1>4. ASSUME NEW T \in P  PROVE \E y \in Q : f[y] = T
  <2>1. PICK y \in S : T = {y}
    OBVIOUS
  <2>2. y \in Q
    BY <1>1, <2>1
  <2> QED  BY <2>1, <2>2
<1>5. Q \in SUBSET free
  OBVIOUS
<1> HIDE DEF f, P, Q
<1>6. f \in Bijection(Q, P)
  BY <1>2, <1>3, <1>4 DEF Bijection, Injection, Surjection, IsInjective
<1>7. ExistsBijection(Q, P) /\ IsFiniteSet(Q)
  BY <1>5, <1>6, ArgumentsSound, FS_Subset DEF ExistsBijection
<1>8. Cardinality(P) = Cardinality(Q)
  BY <1>7, FS_Bijection
<1> QED  BY <1>8 DEF P, Q

\* A party that needs every seat has one combination: all free tables.
LEMMA AllIsBest ==
    ASSUME CallArguments, SeatsIn(free, seats) = party
    PROVE  /\ BestNumbers(free, seats, party, Cardinality(free), SeatsIn(free, seats))
           /\ Best = {free} /\ Cardinality(Best) = 1
           /\ Cardinality({S \in Best : AllocatedBefore(S, free)}) = 0
<1>1. /\ IsFiniteSet(free) /\ Sound(free, seats) /\ party \in Int
      /\ \A t \in free : seats[t] \in Nat /\ seats[t] # 0
      /\ Cardinality(free) \in Nat /\ SeatsIn(free, seats) \in Nat
  BY ArgumentsSound, FS_CardinalityType, SeatsInNat
<1>2. ASSUME NEW S \in SUBSET free, SeatsIn(S, seats) >= party  PROVE S = free
  <2>1. S # free => SeatsIn(S, seats) < SeatsIn(free, seats)
    BY <1>1, SeatsInSubset
  <2>2. SeatsIn(S, seats) \in Nat
    BY <1>1, SubsetNumbers
  <2> QED  BY <1>1, <1>2, <2>1, <2>2
<1>3. BestNumbers(free, seats, party, Cardinality(free), SeatsIn(free, seats))
  <2>1. free \in SUBSET free
    OBVIOUS
  <2> QED  BY <1>1, <1>2, <2>1 DEF BestNumbers
<1>4. Best = {S \in SUBSET free : /\ Cardinality(S) = Cardinality(free)
                                  /\ SeatsIn(S, seats) = SeatsIn(free, seats)}
  BY <1>1, <1>3, BestByNumbers DEF Best
<1>5. Best = {free}
  BY <1>1, <1>2, <1>4
<1>6. {S \in Best : AllocatedBefore(S, free)} = {}
  <2>1. free \cap LeftHalf \in SUBSET Nat /\ free \cap RightHalf \in SUBSET Nat
    BY HalvesPartition
  <2>2. ~ AllocatedBefore(free, free)
    BY <2>1, ArrayBeforeTotal DEF AllocatedBefore
  <2> QED  BY <1>5, <2>2
<1> QED  BY <1>3, <1>5, <1>6, FS_Singleton, FS_EmptySet

-----------------------------------------------------------------------------
(* The inductive invariant of a call *)

\* How many best combinations come before W.
Place(W) == Cardinality({S \in Best : AllocatedBefore(S, W)})

\* A party of at least one guest and seats for it.
Enough == party >= 1 /\ party <= SeatsIn(free, seats)

\* The walk has passed the first groups, in order, and the rank that remains
\* is counted from there.
WalkIsInOrder ==
    /\ passed \in SUBSET (SUBSET LeftHalf)
    /\ \A l \in passed, m \in SUBSET LeftHalf :
          ArrayBefore(m, l) /\ Rights(m) # {} => m \in passed
    /\ best.ties = Cardinality(Best)
    /\ rank \in 1..Cardinality(Best)
    /\ remaining = rank - Cardinality(BestOf(passed))
    /\ remaining >= 1

\* An answer is best, its numbers are true and its place is the rank drawn.
AnswerIsRight ==
    /\ Enough
    /\ BestNumbers(free, seats, party, best.count, best.seats)
    /\ winner \in Best
    /\ best.ties = Cardinality(Best)
    /\ rank \in 1..Cardinality(Best)
    /\ Place(winner) = rank - 1

\* What holds between the steps of a call.
CallInvariant ==
    /\ CallArguments
    /\ best \in [count : Nat, seats : Nat, ties : Nat]
    /\ stage \in {"check", "single", "all", "count", "seats", "ties", "walk", "done"}
    /\ stage # "done" => outcome = "none"
    /\ stage \notin {"walk", "done"} => passed = {}
    /\ stage \notin {"check", "done"} => Enough
    /\ stage = "single" => Sufficient # {}
    /\ stage = "all" => SeatsIn(free, seats) = party
    /\ stage \in {"seats", "ties", "walk"} => best.count = OriginalCount
    /\ stage \in {"ties", "walk"} => best.seats = OriginalSeats
    /\ stage = "walk" => WalkIsInOrder
    /\ outcome = "allocated" => AnswerIsRight
    /\ RefusalsAreRight

\* No step changes the arguments, nor what is defined by them.
LEMMA SameArguments ==
    ASSUME UNCHANGED arguments
    PROVE  /\ free' = free /\ seats' = seats /\ party' = party /\ tieRank' = tieRank
           /\ CallArguments' <=> CallArguments
           /\ Best' = Best /\ LeftHalf' = LeftHalf /\ RightHalf' = RightHalf
           /\ Sufficient' = Sufficient /\ (Enough' <=> Enough)
           /\ OriginalCount' = OriginalCount /\ OriginalSeats' = OriginalSeats
           /\ \A m : Rights(m)' = Rights(m)
           /\ BestOf(passed)' = BestOf(passed')
           /\ Place(winner)' = Place(winner')
<1>1. free' = free /\ seats' = seats /\ party' = party /\ tieRank' = tieRank
  BY DEF arguments
<1>2. CallArguments' <=> CallArguments
  BY <1>1 DEF CallArguments
<1>3. LeftHalf' = LeftHalf /\ RightHalf' = RightHalf
  BY <1>1 DEF LeftHalf, RightHalf, Position
<1>4. Best' = Best
  BY <1>1 DEF Best
<1>5. Sufficient' = Sufficient /\ (Enough' <=> Enough)
  BY <1>1 DEF Sufficient, Enough, Seats
<1>6. OriginalCount' = OriginalCount
  BY <1>1, <1>3 DEF OriginalCount, Completions
<1>7. OriginalSeats' = OriginalSeats
  BY <1>1, <1>3, <1>6 DEF OriginalSeats, Completions
<1>8. \A m : Rights(m)' = Rights(m)
  BY <1>3, <1>4 DEF Rights
<1>9. BestOf(passed)' = BestOf(passed')
  BY <1>3, <1>4 DEF BestOf
<1>10. Place(winner)' = Place(winner')
  BY <1>3, <1>4 DEF Place, AllocatedBefore
<1> QED  BY <1>1, <1>2, <1>3, <1>4, <1>5, <1>6, <1>7, <1>8, <1>9, <1>10

\* Enough seats make the numbers of the original search the best ones.
LEMMA OriginalNumbers ==
    ASSUME CallArguments, Enough
    PROVE  /\ BestNumbers(free, seats, party, OriginalCount, OriginalSeats)
           /\ OriginalCount \in Nat /\ OriginalSeats \in Nat
           /\ Best # {} /\ Cardinality(Best) >= 1
<1>1. Sound(free, seats) /\ party \in Int /\ party <= SeatsIn(free, seats) /\ party >= 1
  BY ArgumentsSound DEF Enough
<1>2. PICK c, s : BestNumbers(free, seats, party, c, s)
  BY <1>1, BestNumbersExist
<1>3. OriginalCount = c /\ OriginalSeats = s /\ c \in Nat /\ s \in Nat
  BY <1>1, <1>2, OriginalIsBest, BestByNumbers
<1>4. Best # {}
  BY <1>1, EnoughSeats DEF Best
<1>5. Cardinality(Best) \in Nat /\ Cardinality(Best) # 0
  BY <1>4, BestFinite, FS_EmptySet
<1> QED  BY <1>2, <1>3, <1>4, <1>5

-----------------------------------------------------------------------------
(* How a call ends *)

\* A step that answers with the right combination keeps the invariant.
LEMMA AnswerStep ==
    ASSUME CallInvariant, UNCHANGED arguments,
           stage' = "done", outcome' = "allocated", Enough,
           best' \in [count : Nat, seats : Nat, ties : Nat],
           BestNumbers(free, seats, party, best'.count, best'.seats),
           winner' \in Best, best'.ties = Cardinality(Best),
           rank' \in 1..Cardinality(Best), Place(winner') = rank' - 1
    PROVE  CallInvariant'
<1>1. /\ free' = free /\ seats' = seats /\ party' = party /\ CallArguments'
      /\ Best' = Best /\ Enough' /\ Place(winner)' = Place(winner')
  BY SameArguments DEF CallInvariant
<1>2. AnswerIsRight'
  BY <1>1 DEF AnswerIsRight
<1>3. RefusalsAreRight'
  BY DEF RefusalsAreRight
<1> QED  BY <1>1, <1>2, <1>3 DEF CallInvariant

\* A step that refuses for a right reason keeps the invariant.
LEMMA RefusalStep ==
    ASSUME CallInvariant, UNCHANGED arguments,
           stage' = "done", outcome' \in {"no_rows", "raised"},
           best' \in [count : Nat, seats : Nat, ties : Nat],
           outcome' = "no_rows" => Best = {},
           outcome' = "raised" =>
              party <= 0 \/ tieRank \notin {NoRank} \cup 1..Cardinality(Best)
    PROVE  CallInvariant'
<1>1. CallArguments' /\ Best' = Best /\ party' = party /\ tieRank' = tieRank
  BY SameArguments DEF CallInvariant
<1>2. RefusalsAreRight'
  BY <1>1 DEF RefusalsAreRight
<1> QED  BY <1>1, <1>2 DEF CallInvariant

-----------------------------------------------------------------------------
(* Each step keeps the invariant *)

\* A call begins in the invariant.
LEMMA InitCall == Init => CallInvariant
<1> SUFFICES ASSUME Init  PROVE CallInvariant
  OBVIOUS
<1> QED  BY DEF Init, CallInvariant, CallArguments, RefusalsAreRight

\* The checks at the start refuse only what has no answer.
LEMMA CheckStep ==
    ASSUME CallInvariant, Check
    PROVE  CallInvariant'
<1>1. /\ CallArguments /\ stage = "check" /\ outcome = "none" /\ passed = {}
      /\ best \in [count : Nat, seats : Nat, ties : Nat]
  BY DEF CallInvariant, Check
<1>2. UNCHANGED arguments /\ best' = best /\ passed' = passed
  BY DEF Check, walk
<1>3. /\ party \in Int /\ SeatsIn(free, seats) \in Nat /\ Sound(free, seats)
  BY <1>1, ArgumentsSound, SubsetNumbers
<1>4. CASE party <= 0
  <2>1. stage' = "done" /\ outcome' = "raised"
    BY <1>4 DEF Check, Give
  <2> QED  BY <1>1, <1>2, <1>4, <2>1, RefusalStep
<1>5. CASE ~(party <= 0) /\ (free = {} \/ SeatsIn(free, seats) < party)
  <2>1. stage' = "done" /\ outcome' = "no_rows"
    BY <1>5 DEF Check, Give
  <2>2. ~(party <= SeatsIn(free, seats))
    BY <1>3, <1>5, SeatsInNone
  <2>3. Best = {}
    BY <1>3, <2>2, EnoughSeats DEF Best
  <2> QED  BY <1>1, <1>2, <2>1, <2>3, RefusalStep
<1>6. CASE ~(party <= 0) /\ ~(free = {} \/ SeatsIn(free, seats) < party)
  <2>1. GoOn(CASE Sufficient # {}              -> "single"
               [] SeatsIn(free, seats) = party -> "all"
               [] OTHER                        -> "count")
    BY <1>6 DEF Check
  <2>2. /\ outcome' = outcome
        /\ stage' \in {"single", "all", "count"}
        /\ stage' = "single" => Sufficient # {}
        /\ stage' = "all" => SeatsIn(free, seats) = party
    BY <2>1 DEF GoOn
  <2>3. Enough
    BY <1>3, <1>6 DEF Enough
  <2>4. /\ free' = free /\ seats' = seats /\ party' = party /\ CallArguments'
        /\ Enough' /\ Sufficient' = Sufficient
    BY <1>1, <1>2, <2>3, SameArguments
  <2>5. outcome' = "none" /\ RefusalsAreRight'
    BY <1>1, <2>2 DEF RefusalsAreRight
  <2> QED  BY <1>1, <1>2, <2>2, <2>4, <2>5 DEF CallInvariant
<1> QED  BY <1>4, <1>5, <1>6

\* A rank that the call may draw is in range unless the caller gave it.
LEMMA DrawnRank ==
    ASSUME CallArguments, NEW r \in Ranks(Cardinality(Best))
    PROVE  /\ r \in Int
           /\ r \notin 1..Cardinality(Best)
                 => tieRank \notin {NoRank} \cup 1..Cardinality(Best)
<1>1. tieRank \in Int \cup {NoRank} /\ Cardinality(Best) \in Nat
  BY AllocationAssumption, BestFinite DEF CallArguments
<1> QED  BY <1>1, AllocationAssumption DEF Ranks

\* The fast path for one table.
LEMMA PickSingleStep ==
    ASSUME CallInvariant, PickSingle
    PROVE  CallInvariant'
<1> DEFINE least == Min({Seats(t) : t \in Sufficient})
           tied == {t \in free : Seats(t) = least}
<1>1. CallArguments /\ Enough /\ Sufficient # {} /\ party >= 1
  BY DEF CallInvariant, PickSingle, Enough
<1>2. UNCHANGED arguments
  BY DEF PickSingle
<1>3. /\ best' = [count |-> 1, seats |-> least, ties |-> Cardinality(tied)]
      /\ \E r \in Ranks(Cardinality(tied)) :
            /\ rank' = r
            /\ IF r \in 1..Cardinality(tied) THEN Answer({Nth(SingleBefore, tied, r)})
                                             ELSE Give("raised")
  BY DEF PickSingle
<1>4. /\ BestNumbers(free, seats, party, 1, least)
      /\ Best = {{t} : t \in tied} /\ Cardinality(tied) = Cardinality(Best)
  BY <1>1, SingleIsBest
<1>5. tied \in SUBSET free
  OBVIOUS
<1> HIDE DEF least, tied
<1>6. least \in Nat /\ Cardinality(Best) \in Nat
  BY <1>1, <1>4, ArgumentsSound, BestByNumbers, BestFinite
<1>7. best' \in [count : Nat, seats : Nat, ties : Nat] /\ best'.ties = Cardinality(Best)
  BY <1>3, <1>4, <1>6
<1>8. PICK r \in Ranks(Cardinality(Best)) :
            /\ rank' = r
            /\ IF r \in 1..Cardinality(Best) THEN Answer({Nth(SingleBefore, tied, r)})
                                             ELSE Give("raised")
  BY <1>3, <1>4
<1>9. CASE r \in 1..Cardinality(Best)
  <2> DEFINE x == Nth(SingleBefore, tied, r)
  <2>1. x \in tied /\ Cardinality({y \in tied : SingleBefore(y, x)}) = r - 1
    BY <1>1, <1>4, <1>5, <1>9, NthSingle
  <2>2. Answer({x})
    BY <1>8, <1>9
  <2> HIDE DEF x
  <2>3. winner' = {x} /\ stage' = "done" /\ outcome' = "allocated"
    BY <2>2 DEF Answer
  <2>4. Place({x}) = r - 1
    BY <1>1, <1>4, <1>5, <2>1, PlaceOfSingle DEF Place
  <2>5. winner' \in Best /\ rank' \in 1..Cardinality(Best) /\ Place(winner') = rank' - 1
    BY <1>4, <1>8, <1>9, <2>1, <2>3, <2>4
  <2>6. BestNumbers(free, seats, party, best'.count, best'.seats)
    BY <1>3, <1>4
  <2> QED  BY <1>1, <1>2, <1>7, <2>3, <2>5, <2>6, AnswerStep
<1>10. CASE r \notin 1..Cardinality(Best)
  <2>1. stage' = "done" /\ outcome' = "raised"
    BY <1>8, <1>10 DEF Give
  <2>2. tieRank \notin {NoRank} \cup 1..Cardinality(Best)
    BY <1>1, <1>8, <1>10, DrawnRank
  <2> QED  BY <1>2, <1>7, <2>1, <2>2, RefusalStep
<1> QED  BY <1>9, <1>10

\* The fast path for all tables.
LEMMA TakeAllStep ==
    ASSUME CallInvariant, TakeAll
    PROVE  CallInvariant'
<1>1. CallArguments /\ Enough /\ SeatsIn(free, seats) = party
  BY DEF CallInvariant, TakeAll
<1>2. /\ UNCHANGED arguments /\ rank' = 1
      /\ best' = [count |-> Cardinality(free), seats |-> SeatsIn(free, seats), ties |-> 1]
      /\ IF tieRank \in {NoRank, 1} THEN Answer(free) ELSE Give("raised")
  BY DEF TakeAll
<1>3. /\ BestNumbers(free, seats, party, Cardinality(free), SeatsIn(free, seats))
      /\ Best = {free} /\ Cardinality(Best) = 1 /\ Place(free) = 0
  BY <1>1, AllIsBest DEF Place
<1>4. Cardinality(free) \in Nat /\ SeatsIn(free, seats) \in Nat
  BY <1>1, ArgumentsSound, SubsetNumbers
<1>5. /\ best' \in [count : Nat, seats : Nat, ties : Nat]
      /\ best'.ties = Cardinality(Best)
      /\ BestNumbers(free, seats, party, best'.count, best'.seats)
  BY <1>2, <1>3, <1>4
<1>6. CASE tieRank \in {NoRank, 1}
  <2>1. winner' = free /\ stage' = "done" /\ outcome' = "allocated"
    BY <1>2, <1>6 DEF Answer
  <2>2. winner' \in Best /\ rank' \in 1..Cardinality(Best) /\ Place(winner') = rank' - 1
    BY <1>2, <1>3, <2>1
  <2> QED  BY <1>1, <1>2, <1>5, <2>1, <2>2, AnswerStep
<1>7. CASE tieRank \notin {NoRank, 1}
  <2>1. stage' = "done" /\ outcome' = "raised"
    BY <1>2, <1>7 DEF Give
  <2>2. tieRank \notin {NoRank} \cup 1..Cardinality(Best)
    BY <1>3, <1>7
  <2> QED  BY <1>2, <1>5, <2>1, <2>2, RefusalStep
<1> QED  BY <1>6, <1>7

\* The search for the fewest tables.
LEMMA CountTablesStep ==
    ASSUME CallInvariant, CountTables
    PROVE  CallInvariant'
<1>1. /\ CallArguments /\ Enough /\ outcome = "none" /\ passed = {}
      /\ best \in [count : Nat, seats : Nat, ties : Nat]
  BY DEF CallInvariant, CountTables
<1>2. /\ UNCHANGED arguments /\ passed' = passed
      /\ best' = [best EXCEPT !.count = OriginalCount]
      /\ stage' = "seats" /\ outcome' = outcome
  BY DEF CountTables, OriginalCount, GoOn, walk
<1>3. /\ CallArguments' /\ Enough' /\ OriginalCount' = OriginalCount
  BY <1>1, <1>2, SameArguments
<1>4. OriginalCount \in Nat
  BY <1>1, OriginalNumbers
<1>5. best' \in [count : Nat, seats : Nat, ties : Nat] /\ best'.count = OriginalCount
  BY <1>1, <1>2, <1>4
<1>6. RefusalsAreRight'
  BY <1>1, <1>2 DEF RefusalsAreRight
<1> QED  BY <1>1, <1>2, <1>3, <1>5, <1>6 DEF CallInvariant

\* The search for the fewest seats.
LEMMA CountSeatsStep ==
    ASSUME CallInvariant, CountSeats
    PROVE  CallInvariant'
<1>1. /\ CallArguments /\ Enough /\ outcome = "none" /\ passed = {}
      /\ best \in [count : Nat, seats : Nat, ties : Nat] /\ best.count = OriginalCount
  BY DEF CallInvariant, CountSeats
<1>2. /\ UNCHANGED arguments /\ passed' = passed
      /\ best' = [best EXCEPT !.seats = OriginalSeats]
      /\ stage' = "ties" /\ outcome' = outcome
  BY <1>1 DEF CountSeats, OriginalSeats, GoOn, walk
<1>3. /\ CallArguments' /\ Enough' /\ OriginalCount' = OriginalCount
      /\ OriginalSeats' = OriginalSeats
  BY <1>1, <1>2, SameArguments
<1>4. OriginalSeats \in Nat
  BY <1>1, OriginalNumbers
<1>5. /\ best' \in [count : Nat, seats : Nat, ties : Nat]
      /\ best'.count = OriginalCount /\ best'.seats = OriginalSeats
  BY <1>1, <1>2, <1>4
<1>6. RefusalsAreRight'
  BY <1>1, <1>2 DEF RefusalsAreRight
<1> QED  BY <1>1, <1>2, <1>3, <1>5, <1>6 DEF CallInvariant

\* The count of the ties and the draw of the rank.
LEMMA CountTiesStep ==
    ASSUME CallInvariant, CountTies
    PROVE  CallInvariant'
<1> DEFINE ties == MapThenSumSet(LAMBDA left : Cardinality(Group(left)), SUBSET LeftHalf)
<1>1. /\ CallArguments /\ Enough /\ outcome = "none" /\ passed = {}
      /\ best \in [count : Nat, seats : Nat, ties : Nat]
      /\ best.count = OriginalCount /\ best.seats = OriginalSeats
  BY DEF CallInvariant, CountTies
<1>2. /\ UNCHANGED arguments /\ passed' = passed
      /\ best' = [best EXCEPT !.ties = ties]
      /\ IF ties <= 0 THEN Give("invariant_failed") /\ UNCHANGED <<rank, remaining>>
         ELSE \E r \in Ranks(ties) :
                 /\ rank' = r
                 /\ remaining' = r
                 /\ IF r \in 1..ties THEN GoOn("walk") ELSE Give("raised")
  BY DEF CountTies
<1>3. ties = Cardinality(Best)
  BY <1>1, OriginalNumbers, TiesAreBest
<1> HIDE DEF ties
<1>4. Cardinality(Best) \in Nat /\ Cardinality(Best) >= 1
  BY <1>1, BestFinite, OriginalNumbers
<1>5. /\ best' \in [count : Nat, seats : Nat, ties : Nat]
      /\ best'.count = OriginalCount /\ best'.seats = OriginalSeats
      /\ best'.ties = Cardinality(Best)
  BY <1>1, <1>2, <1>3, <1>4
<1>6. PICK r \in Ranks(Cardinality(Best)) :
            /\ rank' = r
            /\ remaining' = r
            /\ IF r \in 1..Cardinality(Best) THEN GoOn("walk") ELSE Give("raised")
  BY <1>2, <1>3, <1>4
<1>7. CASE r \in 1..Cardinality(Best)
  <2>1. stage' = "walk" /\ outcome' = "none"
    BY <1>1, <1>6, <1>7 DEF GoOn
  <2>2. /\ CallArguments' /\ Enough' /\ Best' = Best
        /\ OriginalCount' = OriginalCount /\ OriginalSeats' = OriginalSeats
        /\ BestOf(passed)' = BestOf(passed')
    BY <1>1, <1>2, SameArguments
  <2>3. Cardinality(BestOf(passed')) = 0
    <3>1. BestOf({}) = {}
      BY DEF BestOf
    <3> QED  BY <1>1, <1>2, <3>1, FS_EmptySet
  <2>4. WalkIsInOrder'
    <3>1. passed' = {}
      BY <1>1, <1>2
    <3>2. rank' \in 1..Cardinality(Best) /\ remaining' = rank' - Cardinality(BestOf(passed'))
          /\ remaining' >= 1
      BY <1>4, <1>6, <1>7, <2>3
    <3> QED  BY <1>5, <2>2, <3>1, <3>2 DEF WalkIsInOrder
  <2>5. RefusalsAreRight'
    BY <2>1 DEF RefusalsAreRight
  <2> QED  BY <1>5, <2>1, <2>2, <2>4, <2>5 DEF CallInvariant
<1>8. CASE r \notin 1..Cardinality(Best)
  <2>1. stage' = "done" /\ outcome' = "raised"
    BY <1>6, <1>8 DEF Give
  <2>2. tieRank \notin {NoRank} \cup 1..Cardinality(Best)
    BY <1>1, <1>8, DrawnRank
  <2> QED  BY <1>2, <1>5, <2>1, <2>2, RefusalStep
<1> QED  BY <1>7, <1>8

\* The first candidate of the walk comes right after the groups passed.
LEMMA FirstCandidate ==
    ASSUME CallArguments, WalkIsInOrder,
           BestNumbers(free, seats, party, best.count, best.seats), CandidateHalves # {}
    PROVE  LET left == Nth(ArrayBefore, CandidateHalves, 1)
           IN  /\ left \in SUBSET LeftHalf /\ left \notin passed
               /\ BestOf(Earlier(left)) = BestOf(passed)
               /\ \A m \in SUBSET LeftHalf :
                     ArrayBefore(m, left) /\ Rights(m) # {} => m \in passed
<1> DEFINE C == CandidateHalves
           left == Nth(ArrayBefore, C, 1)
<1>1. LeftHalf \in SUBSET Nat /\ IsFiniteSet(SUBSET LeftHalf)
  BY HalvesPartition
<1>2. C \in SUBSET (SUBSET LeftHalf)
  BY DEF CandidateHalves
<1>3. C \in SUBSET (SUBSET Nat) /\ IsFiniteSet(C) /\ 1 \in 1..Cardinality(C)
  <2>1. IsFiniteSet(C) /\ Cardinality(C) \in Nat /\ Cardinality(C) # 0
    BY <1>1, <1>2, FS_Subset, FS_CardinalityType, FS_EmptySet
  <2>2. C \in SUBSET (SUBSET Nat)
    BY <1>1, <1>2
  <2> HIDE DEF C
  <2> QED  BY <2>1, <2>2
<1>4. left \in C /\ Cardinality({y \in C : ArrayBefore(y, left)}) = 1 - 1
  <2> HIDE DEF C
  <2> QED  BY <1>3, NthArray
<1> HIDE DEF left
<1>5. \A y \in C : ~ ArrayBefore(y, left)
  <2> DEFINE P == {y \in C : ArrayBefore(y, left)}
  <2>1. P \in SUBSET C
    OBVIOUS
  <2>2. Cardinality(P) = 0
    BY <1>4
  <2> HIDE DEF P, C
  <2>3. P = {}
    BY <1>3, <2>1, <2>2, FS_Subset, FS_EmptySet
  <2> QED  BY <2>3 DEF P
<1>6. left \in SUBSET LeftHalf /\ left \notin passed
  BY <1>4 DEF CandidateHalves
<1>7. Rights(left) # {}
  BY <1>4, <1>6, GroupIsRights DEF CandidateHalves
<1>8. ASSUME NEW m \in SUBSET LeftHalf, ArrayBefore(m, left), Rights(m) # {}
      PROVE  m \in passed
  <2>1. Group(m) # {}
    BY <1>8, GroupIsRights
  <2> QED  BY <1>5, <1>8, <2>1 DEF CandidateHalves
<1>9. ASSUME NEW l \in passed  PROVE ArrayBefore(l, left)
  <2>1. l \in SUBSET LeftHalf /\ l # left
    BY <1>6 DEF WalkIsInOrder
  <2>2. ~ ArrayBefore(left, l)
    BY <1>6, <1>7 DEF WalkIsInOrder
  <2>3. l \in SUBSET Nat /\ left \in SUBSET Nat
    BY <1>1, <1>6, <2>1
  <2> QED  BY <2>1, <2>2, <2>3, ArrayBeforeTotal
<1>10. BestOf(Earlier(left)) = BestOf(passed)
  <2>1. ASSUME NEW S \in Best
        PROVE  S \cap LeftHalf \in Earlier(left) <=> S \cap LeftHalf \in passed
    <3> DEFINE m == S \cap LeftHalf
    <3>1. m \in SUBSET LeftHalf /\ S \cap RightHalf \in Rights(m)
      BY BestFinite, SplitInHalves DEF Rights
    <3>2. m \in Earlier(left) <=> ArrayBefore(m, left)
      BY <3>1 DEF Earlier
    <3> HIDE DEF m
    <3> QED  BY <1>8, <1>9, <3>1, <3>2 DEF m
  <2> QED  BY <2>1 DEF BestOf
<1> QED  BY <1>6, <1>8, <1>10 DEF left

\* One row of the walk: the group is passed, or the answer is in it.
LEMMA WalkStep ==
    ASSUME CallInvariant, Walk
    PROVE  CallInvariant'
<1> DEFINE left == Nth(ArrayBefore, CandidateHalves, 1)
           chosen == left \cup Nth(ArrayBefore, Group(left), remaining)
<1>1. /\ CallArguments /\ Enough /\ outcome = "none" /\ WalkIsInOrder
      /\ best \in [count : Nat, seats : Nat, ties : Nat]
      /\ best.count = OriginalCount /\ best.seats = OriginalSeats
      /\ stage = "walk"
  BY DEF CallInvariant, Walk
<1>2. BestNumbers(free, seats, party, best.count, best.seats)
  BY <1>1, OriginalNumbers
<1>3. UNCHANGED arguments /\ best' = best /\ rank' = rank
  BY DEF Walk
<1>4. IF CandidateHalves = {} THEN Give("invariant_failed") /\ UNCHANGED walk
      ELSE IF remaining > Cardinality(Group(left))
           THEN /\ remaining' = remaining - Cardinality(Group(left))
                /\ passed' = passed \cup {left}
                /\ UNCHANGED <<stage, winner, outcome>>
           ELSE /\ IF Cardinality(chosen) = best.count
                   THEN Answer(chosen) ELSE Give("invariant_failed")
                /\ UNCHANGED walk
  BY DEF Walk
<1>5. /\ rank \in 1..Cardinality(Best) /\ remaining >= 1
      /\ remaining = rank - Cardinality(BestOf(passed))
      /\ best.ties = Cardinality(Best)
      /\ Cardinality(BestOf(passed)) \in Nat /\ Cardinality(Best) \in Nat
  BY <1>1, BestFinite DEF WalkIsInOrder
<1>6. remaining \in Int
  BY <1>5
<1>7. CandidateHalves # {}
  <2> SUFFICES ASSUME CandidateHalves = {}  PROVE FALSE
    OBVIOUS
  <2>1. ASSUME NEW S \in Best  PROVE S \cap LeftHalf \in passed
    <3> DEFINE m == S \cap LeftHalf
    <3>1. m \in SUBSET LeftHalf /\ S \cap RightHalf \in Rights(m)
      BY <1>1, BestFinite, SplitInHalves DEF Rights
    <3> HIDE DEF m
    <3>2. Group(m) # {}
      BY <1>1, <1>2, <3>1, GroupIsRights
    <3> QED  BY <3>1, <3>2 DEF CandidateHalves, m
  <2>2. BestOf(passed) = Best
    BY <2>1 DEF BestOf
  <2> QED  BY <1>5, <2>2
<1>8. /\ left \in SUBSET LeftHalf /\ left \notin passed
      /\ BestOf(Earlier(left)) = BestOf(passed)
      /\ \A m \in SUBSET LeftHalf : ArrayBefore(m, left) /\ Rights(m) # {} => m \in passed
  BY <1>1, <1>2, <1>7, FirstCandidate
<1> HIDE DEF left
<1>9. Group(left) = Rights(left)
  BY <1>1, <1>2, <1>8, GroupIsRights
<1>10. Cardinality(Rights(left)) \in Nat /\ IsFiniteSet(Rights(left))
  BY <1>1, BestFinite
<1>11. CASE remaining > Cardinality(Rights(left))
  <2>1. /\ remaining' = remaining - Cardinality(Rights(left))
        /\ passed' = passed \cup {left}
        /\ stage' = "walk" /\ outcome' = "none"
    BY <1>1, <1>4, <1>7, <1>9, <1>11
  <2>2. /\ CallArguments' /\ Enough' /\ Best' = Best /\ LeftHalf' = LeftHalf
        /\ OriginalCount' = OriginalCount /\ OriginalSeats' = OriginalSeats
        /\ \A m : Rights(m)' = Rights(m)
        /\ BestOf(passed)' = BestOf(passed')
    BY <1>1, <1>3, SameArguments
  <2>3. Cardinality(BestOf(passed')) = Cardinality(BestOf(passed)) + Cardinality(Rights(left))
    <3>1. passed \cap {left} = {}
      BY <1>8
    <3>2. Cardinality(BestOf(passed \cup {left}))
            = Cardinality(BestOf(passed)) + Cardinality(BestOf({left}))
      BY <1>1, <3>1, BestOfUnion
    <3>3. Cardinality(BestOf({left})) = Cardinality(Rights(left))
      BY <1>1, <1>8, RightsCount
    <3> QED  BY <2>1, <3>2, <3>3
  <2>4. remaining' = rank' - Cardinality(BestOf(passed')) /\ remaining' >= 1
    BY <1>3, <1>5, <1>6, <1>10, <1>11, <2>1, <2>3
  <2>5. \A l \in passed', m \in SUBSET LeftHalf :
           ArrayBefore(m, l) /\ Rights(m) # {} => m \in passed'
    BY <1>1, <1>8, <2>1 DEF WalkIsInOrder
  <2>6. passed' \in SUBSET (SUBSET LeftHalf)
    BY <1>1, <1>8, <2>1 DEF WalkIsInOrder
  <2>7. WalkIsInOrder'
    <3>1. \A l \in passed', m \in SUBSET LeftHalf' :
             ArrayBefore(m, l)' /\ Rights(m)' # {} => m \in passed'
      BY <2>2, <2>5 DEF ArrayBefore
    <3> QED  BY <1>3, <1>5, <2>2, <2>4, <2>6, <3>1 DEF WalkIsInOrder
  <2>8. RefusalsAreRight'
    BY <2>1 DEF RefusalsAreRight
  <2> QED  BY <1>1, <1>3, <2>1, <2>2, <2>7, <2>8 DEF CallInvariant
<1>12. CASE ~(remaining > Cardinality(Rights(left)))
  <2> DEFINE right == Nth(ArrayBefore, Rights(left), remaining)
  <2>1. remaining \in 1..Cardinality(Rights(left))
    BY <1>5, <1>6, <1>10, <1>12
  <2>2. Rights(left) \in SUBSET (SUBSET Nat)
    BY <1>1, HalvesPartition DEF Rights
  <2>3. /\ right \in Rights(left)
        /\ Cardinality({y \in Rights(left) : ArrayBefore(y, right)}) = remaining - 1
    BY <1>10, <2>1, <2>2, NthArray
  <2>4. chosen = left \cup right
    BY <1>9
  <2> HIDE DEF right, chosen
  <2>5. Place(chosen) = Cardinality(BestOf(Earlier(left))) + (remaining - 1)
    BY <1>1, <1>8, <2>3, <2>4, PlaceOfBest DEF Place, Earlier
  <2>6. Place(chosen) = rank - 1
    BY <1>5, <1>6, <1>8, <2>5
  <2>7. chosen \in Best
    BY <2>3, <2>4 DEF Rights
  <2>8. Cardinality(chosen) = best.count
    BY <1>1, <1>2, <2>7, ArgumentsSound, BestByNumbers DEF Best
  <2>9. winner' = chosen /\ stage' = "done" /\ outcome' = "allocated"
    BY <1>4, <1>7, <1>9, <1>12, <2>8 DEF Answer
  <2>10. Place(winner') = rank' - 1 /\ winner' \in Best
    BY <1>3, <2>6, <2>7, <2>9
  <2> QED  BY <1>1, <1>2, <1>3, <1>5, <2>9, <2>10, AnswerStep
<1> QED  BY <1>11, <1>12

-----------------------------------------------------------------------------
(* Theorems *)

\* Every step of a call keeps the invariant.
LEMMA NextCall == CallInvariant /\ [Next]_callVars => CallInvariant'
<1> SUFFICES ASSUME CallInvariant, [Next]_callVars  PROVE CallInvariant'
  OBVIOUS
<1>1. CASE Check
  BY <1>1, CheckStep
<1>2. CASE PickSingle
  BY <1>2, PickSingleStep
<1>3. CASE TakeAll
  BY <1>3, TakeAllStep
<1>4. CASE CountTables
  BY <1>4, CountTablesStep
<1>5. CASE CountSeats
  BY <1>5, CountSeatsStep
<1>6. CASE CountTies
  BY <1>6, CountTiesStep
<1>7. CASE Walk
  BY <1>7, WalkStep
<1>8. CASE UNCHANGED callVars
  <2>1. /\ UNCHANGED arguments /\ stage' = stage /\ best' = best /\ rank' = rank
        /\ remaining' = remaining /\ passed' = passed /\ winner' = winner /\ outcome' = outcome
    BY <1>8 DEF callVars, walk
  <2>2. /\ party' = party /\ free' = free /\ seats' = seats /\ tieRank' = tieRank
        /\ CallArguments' /\ (Enough' <=> Enough) /\ Best' = Best /\ LeftHalf' = LeftHalf
        /\ Sufficient' = Sufficient
        /\ OriginalCount' = OriginalCount /\ OriginalSeats' = OriginalSeats
        /\ \A m : Rights(m)' = Rights(m)
        /\ BestOf(passed)' = BestOf(passed) /\ Place(winner)' = Place(winner)
    BY <2>1, SameArguments DEF CallInvariant
  <2>3. WalkIsInOrder => WalkIsInOrder'
    <3> SUFFICES ASSUME WalkIsInOrder  PROVE WalkIsInOrder'
      OBVIOUS
    <3>1. \A l \in passed', m \in SUBSET LeftHalf' :
             ArrayBefore(m, l)' /\ Rights(m)' # {} => m \in passed'
      BY <2>1, <2>2 DEF WalkIsInOrder, ArrayBefore
    <3> QED  BY <2>1, <2>2, <3>1 DEF WalkIsInOrder
  <2>4. (AnswerIsRight => AnswerIsRight') /\ (RefusalsAreRight => RefusalsAreRight')
    BY <2>1, <2>2 DEF AnswerIsRight, RefusalsAreRight
  <2> QED  BY <2>1, <2>2, <2>3, <2>4 DEF CallInvariant
<1> QED  BY <1>1, <1>2, <1>3, <1>4, <1>5, <1>6, <1>7, <1>8 DEF Next

\* The invariant holds throughout every call (011: 21-225).
THEOREM CallAlwaysInvariant == Spec => []CallInvariant
BY InitCall, NextCall, PTL DEF Spec

\* Every answer, of the fast paths and of the search, is a best combination,
\* reported with its true seats and number of ties (011: 69-219).
THEOREM AllocatorIsBest == Spec => []AllocationIsBest
<1>1. CallInvariant => AllocationIsBest
  <2> SUFFICES ASSUME CallInvariant, outcome = "allocated"
               PROVE  /\ winner \in Best /\ best.seats = SeatsIn(winner, seats)
                      /\ best.ties = Cardinality(Best)
    BY DEF AllocationIsBest
  <2>1. CallArguments /\ AnswerIsRight
    BY DEF CallInvariant
  <2>2. Best = {S \in SUBSET free : Cardinality(S) = best.count /\ SeatsIn(S, seats) = best.seats}
    BY <2>1, ArgumentsSound, BestByNumbers DEF AnswerIsRight, Best
  <2> QED  BY <2>1, <2>2 DEF AnswerIsRight
<1> QED  BY <1>1, CallAlwaysInvariant, PTL

\* The answer for a rank is the best combination with rank - 1 others before
\* it, on every path (011: 84-93, 193-216).
THEOREM AllocatorRankIsPosition == Spec => []RankIsPosition
<1>1. CallInvariant => RankIsPosition
  BY DEF CallInvariant, AnswerIsRight, RankIsPosition, Place
<1> QED  BY <1>1, CallAlwaysInvariant, PTL

\* A call that finds no combination had none to find, one that raises was
\* given a wrong argument, and the internal errors P6502 are never raised
\* (011: 43-72, 186-190, 217-219).
THEOREM AllocatorRefusals == Spec => []RefusalsAreRight
<1>1. CallInvariant => RefusalsAreRight
  BY DEF CallInvariant
<1> QED  BY <1>1, CallAlwaysInvariant, PTL

\* Every answer, the ones of the search included, is that of migration 006.
AnswersAsOriginal ==
    outcome = "allocated" =>
        /\ winner = OriginalWinner(rank)
        /\ best.count = OriginalCount /\ best.seats = OriginalSeats

\* Migration 011 changes no answer, on any path: each is the one that the
\* search of migration 006 gives for the rank (database/README.md:64).
THEOREM AllocatorAnswersAsOriginal == Spec => []AnswersAsOriginal
<1>1. CallInvariant => AnswersAsOriginal
  <2> SUFFICES ASSUME CallInvariant, outcome = "allocated"
               PROVE  /\ winner = OriginalWinner(rank)
                      /\ best.count = OriginalCount /\ best.seats = OriginalSeats
    BY DEF AnswersAsOriginal
  <2>1. CallArguments /\ AnswerIsRight /\ Enough
    BY DEF CallInvariant, AnswerIsRight
  <2>2. /\ BestNumbers(free, seats, party, best.count, best.seats)
        /\ party >= 1 /\ winner \in Best
        /\ Cardinality({S \in Best : AllocatedBefore(S, winner)}) = rank - 1
        /\ rank \in 1..Cardinality(Best)
    BY <2>1 DEF AnswerIsRight, Enough, Place
  <2>3. rank \in Int
    BY <2>2
  <2> QED  BY <2>1, <2>2, <2>3, OriginalAnswer, OriginalIsBest
<1> QED  BY <1>1, CallAlwaysInvariant, PTL

\* In particular the fast paths change no answer (011: 69-140).
THEOREM AllocatorSameAsOriginal == Spec => []SameAsOriginal
<1>1. AnswersAsOriginal => SameAsOriginal
  BY DEF AnswersAsOriginal, SameAsOriginal
<1> QED  BY <1>1, AllocatorAnswersAsOriginal, PTL

\* Each rank is that of one best combination.
LEMMA OneAnswerForARank ==
    ASSUME CallArguments, NEW k \in 1..Cardinality(Best)
    PROVE  \E W \in Best : /\ Place(W) = k - 1
                           /\ \A V \in Best : Place(V) = k - 1 => V = W
<1> DEFINE R == {p \in Best \X Best : AllocatedBefore(p[1], p[2])}
<1>1. \A S, T \in Best : <<S, T>> \in R <=> AllocatedBefore(S, T)
  OBVIOUS
<1>2. \A S \in Best : Below(R, Best, S) = {T \in Best : AllocatedBefore(T, S)}
  BY <1>1 DEF Below
<1> HIDE DEF R
<1>3. ASSUME NEW S \in Best
      PROVE  /\ S \cap LeftHalf \in SUBSET Nat /\ S \cap RightHalf \in SUBSET Nat
             /\ (S \cap LeftHalf) \cup (S \cap RightHalf) = S
  BY BestFinite, HalvesPartition, SplitInHalves
<1>4. \A S \in Best : ~ AllocatedBefore(S, S)
  BY <1>3, ArrayBeforeTotal DEF AllocatedBefore
<1>5. ASSUME NEW S \in Best, NEW T \in Best, S # T
      PROVE  AllocatedBefore(S, T) <=> ~ AllocatedBefore(T, S)
  <2> DEFINE a == S \cap LeftHalf
             b == T \cap LeftHalf
             c == S \cap RightHalf
             d == T \cap RightHalf
  <2>1. /\ a \in SUBSET Nat /\ b \in SUBSET Nat /\ c \in SUBSET Nat /\ d \in SUBSET Nat
        /\ a \cup c = S /\ b \cup d = T
    BY <1>3
  <2>2. /\ AllocatedBefore(S, T) <=> ArrayBefore(a, b) \/ (a = b /\ ArrayBefore(c, d))
        /\ AllocatedBefore(T, S) <=> ArrayBefore(b, a) \/ (b = a /\ ArrayBefore(d, c))
    BY DEF AllocatedBefore
  <2> HIDE DEF a, b, c, d
  <2>3. CASE a = b
    <3>1. c # d
      BY <1>5, <2>1, <2>3
    <3> QED  BY <2>1, <2>2, <2>3, <3>1, ArrayBeforeTotal
  <2>4. CASE a # b
    BY <2>1, <2>2, <2>4, ArrayBeforeTotal
  <2> QED  BY <2>3, <2>4
<1>6. ASSUME NEW S \in Best, NEW T \in Best, NEW U \in Best,
             AllocatedBefore(S, T), AllocatedBefore(T, U)
      PROVE  AllocatedBefore(S, U)
  <2> DEFINE a == S \cap LeftHalf
             b == T \cap LeftHalf
             c == U \cap LeftHalf
             d == S \cap RightHalf
             e == T \cap RightHalf
             f == U \cap RightHalf
  <2>1. /\ a \in SUBSET Nat /\ b \in SUBSET Nat /\ c \in SUBSET Nat
        /\ d \in SUBSET Nat /\ e \in SUBSET Nat /\ f \in SUBSET Nat
    BY <1>3
  <2>2. /\ ArrayBefore(a, b) \/ (a = b /\ ArrayBefore(d, e))
        /\ ArrayBefore(b, c) \/ (b = c /\ ArrayBefore(e, f))
        /\ AllocatedBefore(S, U) <=> ArrayBefore(a, c) \/ (a = c /\ ArrayBefore(d, f))
    BY <1>6 DEF AllocatedBefore
  <2> HIDE DEF a, b, c, d, e, f
  <2>3. CASE ArrayBefore(a, b) /\ ArrayBefore(b, c)
    BY <2>1, <2>2, <2>3, ArrayBeforeTransitive
  <2>4. CASE a = b /\ b = c /\ ArrayBefore(d, e) /\ ArrayBefore(e, f)
    BY <2>1, <2>2, <2>4, ArrayBeforeTransitive
  <2> QED  BY <2>2, <2>3, <2>4
<1>7. IsOrder(R, Best)
  BY <1>1, <1>4, <1>5, <1>6 DEF IsOrder
<1>8. IsFiniteSet(Best)
  BY BestFinite
<1>9. /\ \E W \in Best : Cardinality(Below(R, Best, W)) = k - 1
      /\ \A V, W \in Best :
            Cardinality(Below(R, Best, V)) = Cardinality(Below(R, Best, W)) => V = W
  BY <1>7, <1>8, RankExists
<1>10. \A W \in Best : Place(W) = Cardinality(Below(R, Best, W))
  BY <1>2 DEF Place
<1> QED  BY <1>9, <1>10

\* Each rank belongs to exactly one best combination.
RanksAreAnswers ==
    \A k \in 1..Cardinality(Best) :
        \E W \in Best : Place(W) = k - 1 /\ \A V \in Best : Place(V) = k - 1 => V = W

\* Each rank is the rank of exactly one best combination, so that a rank drawn
\* uniformly from 1..ties is a uniform choice among them (011: 193-216).
THEOREM AllocatorRanks == Spec => []RanksAreAnswers
<1>1. CallInvariant => RanksAreAnswers
  BY OneAnswerForARank DEF CallInvariant, RanksAreAnswers
<1> QED  BY <1>1, CallAlwaysInvariant, PTL
-----------------------------------------------------------------------------
(* The end of a call *)

\* The left halves that the walk has not passed.
HalvesLeft == Cardinality((SUBSET LeftHalf) \ passed)

\* The stages to come.
StagesLeft ==
    CASE stage = "check" -> 5
      [] stage \in {"single", "all", "count"} -> 4
      [] stage = "seats" -> 3 [] stage = "ties" -> 2 [] stage = "walk" -> 1
      [] OTHER -> 0

StepsLeft == HalvesLeft + StagesLeft

LEMMA LeftToPass ==
    ASSUME CallArguments, NEW P
    PROVE  /\ Cardinality((SUBSET LeftHalf) \ P) \in Nat
           /\ \A left \in (SUBSET LeftHalf) \ P :
                 Cardinality((SUBSET LeftHalf) \ (P \cup {left}))
                   = Cardinality((SUBSET LeftHalf) \ P) - 1
<1> DEFINE rest == (SUBSET LeftHalf) \ P
<1>1. IsFiniteSet(rest)
  BY HalvesPartition, FS_Subset
<1>2. ASSUME NEW left \in rest
      PROVE  Cardinality((SUBSET LeftHalf) \ (P \cup {left})) = Cardinality(rest) - 1
  <2>1. (SUBSET LeftHalf) \ (P \cup {left}) = rest \ {left}
    OBVIOUS
  <2> HIDE DEF rest
  <2> QED  BY <1>1, <2>1, FS_RemoveElement
<1> QED  BY <1>1, <1>2, FS_CardinalityType

LEMMA WalkGoesOn ==
    ASSUME CallInvariant, Walk
    PROVE  \/ stage' = "done" /\ passed' = passed
           \/ /\ stage' = "walk"
              /\ \E left \in (SUBSET LeftHalf) \ passed : passed' = passed \cup {left}
<1> DEFINE left == Nth(ArrayBefore, CandidateHalves, 1)
<1>1. CASE CandidateHalves = {}
  BY <1>1 DEF Walk, Give, walk
<1>2. CASE CandidateHalves # {}
  <2>1. left \in (SUBSET LeftHalf) \ passed
    <3>1. /\ CallArguments /\ Enough /\ WalkIsInOrder
          /\ best.count = OriginalCount /\ best.seats = OriginalSeats
      BY DEF CallInvariant, Walk
    <3> QED  BY <1>2, <3>1, OriginalNumbers, FirstCandidate
  <2>2. \/ stage' = "done" /\ passed' = passed
        \/ stage' = stage /\ passed' = passed \cup {left}
    BY <1>2 DEF Walk, Give, Answer, walk
  <2> HIDE DEF left
  <2> QED  BY <2>1, <2>2 DEF Walk
<1> QED  BY <1>1, <1>2

\* A step leaves fewer to come.
FewerStepsLeft == /\ StepsLeft \in Nat /\ StepsLeft' \in Nat
                  /\ StepsLeft' < StepsLeft

\* Every step of a call brings its end nearer: the loop over the left halves
\* passes none twice, and the call ends after at most as many steps as there
\* are left halves, and five more (011: 193-219).
THEOREM CallsEnd == Spec => [][FewerStepsLeft]_callVars
<1>1. ASSUME CallInvariant, Next
      PROVE  StepsLeft \in Nat /\ StepsLeft' \in Nat /\ StepsLeft' < StepsLeft
  <2>1. CallArguments /\ UNCHANGED arguments
    BY <1>1
    DEF CallInvariant, Next, Check, PickSingle, TakeAll, CountTables, CountSeats, CountTies, Walk
  <2>2. LeftHalf' = LeftHalf
    BY <2>1, SameArguments
  <2>3. HalvesLeft \in Nat
    BY <2>1, LeftToPass DEF HalvesLeft
  <2>4. CASE ~Walk
    <3>1. passed' = passed
      BY <1>1, <2>4
      DEF Next, Check, PickSingle, TakeAll, CountTables, CountSeats, CountTies, walk
    <3>2. HalvesLeft' = HalvesLeft
      BY <2>2, <3>1 DEF HalvesLeft
    <3>3. StagesLeft \in 0..5 /\ StagesLeft' \in 0..5 /\ StagesLeft' < StagesLeft
      <4>1. CASE Check
        BY <4>1 DEF Check, GoOn, Give, StagesLeft
      <4>2. CASE PickSingle \/ TakeAll
        <5>1. stage \in {"single", "all"} /\ stage' = "done"
          BY <4>2 DEF PickSingle, TakeAll, Give, Answer
        <5> QED  BY <5>1 DEF StagesLeft
      <4>3. CASE CountTables \/ CountSeats
        BY <4>3 DEF CountTables, CountSeats, GoOn, StagesLeft
      <4>4. CASE CountTies
        <5>1. stage = "ties" /\ stage' \in {"walk", "done"}
          BY <4>4 DEF CountTies, GoOn, Give
        <5> QED  BY <5>1 DEF StagesLeft
      <4> QED  BY <1>1, <2>4, <4>1, <4>2, <4>3, <4>4 DEF Next
    <3>4. StepsLeft = HalvesLeft + StagesLeft
      BY DEF StepsLeft
    <3>5. StepsLeft' = HalvesLeft + StagesLeft'
      BY <3>2 DEF StepsLeft
    <3>6. \A h, n, m \in Nat, sum, less \in Int :
             m < n /\ sum = h + n /\ less = h + m => sum \in Nat /\ less \in Nat /\ less < sum
      OBVIOUS
    <3>7. /\ StagesLeft \in Nat /\ StagesLeft' \in Nat
          /\ StepsLeft \in Int /\ StepsLeft' \in Int
      BY <2>3, <3>3, <3>4, <3>5
    <3> QED  BY <2>3, <3>3, <3>4, <3>5, <3>6, <3>7
  <2>5. CASE Walk
    <3>1. StagesLeft = 1
      BY <2>5 DEF Walk, StagesLeft
    <3>2. CASE stage' = "done" /\ passed' = passed
      <4>1. HalvesLeft' = HalvesLeft /\ StagesLeft' = 0
        BY <2>2, <3>2 DEF HalvesLeft, StagesLeft
      <4> QED  BY <2>3, <3>1, <4>1 DEF StepsLeft
    <3>3. ASSUME stage' = "walk",
                 NEW left \in (SUBSET LeftHalf) \ passed, passed' = passed \cup {left}
          PROVE  StepsLeft \in Nat /\ StepsLeft' \in Nat /\ StepsLeft' < StepsLeft
      <4>1. /\ HalvesLeft' = Cardinality((SUBSET LeftHalf) \ (passed \cup {left}))
            /\ StagesLeft' = 1
        BY <2>2, <3>3 DEF HalvesLeft, StagesLeft
      <4>2. HalvesLeft' = HalvesLeft - 1 /\ HalvesLeft' \in Nat
        BY <2>1, <3>3, <4>1, LeftToPass DEF HalvesLeft
      <4> QED  BY <2>3, <3>1, <4>1, <4>2 DEF StepsLeft
    <3> QED  BY <1>1, <2>5, <3>2, <3>3, WalkGoesOn
  <2> QED  BY <2>4, <2>5
<1>2. CallInvariant /\ [Next]_callVars => [FewerStepsLeft]_callVars
  BY <1>1 DEF FewerStepsLeft
<1> QED  BY <1>2, CallAlwaysInvariant, PTL DEF Spec
=============================================================================
