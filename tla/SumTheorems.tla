---------------------------- MODULE SumTheorems ----------------------------
(***************************************************************************)
(* Facts about SumFunctionOnSet of module Functions: the sum of the values *)
(* of an integer function over a finite part of its domain.  The ledger's  *)
(* SUM(...) queries are such sums.  The fold of the library is a recursive *)
(* function on sets; its equation and everything else here is proved by    *)
(* taking a minimal counterexample under strict inclusion (WFMin).         *)
(***************************************************************************)
EXTENDS Integers, FiniteSets, Functions, FiniteSetTheorems, WellFoundedInduction, TLAPS

\* The element the fold takes first.
Pick(S) == CHOOSE x \in S : TRUE

\* One unfolding of the fold.
Unfold(f, g, T) == IF T = {} THEN 0 ELSE f[Pick(T)] + g[T \ {Pick(T)}]

\* g computes the sums of f over all subsets of S.
IsSumTable(f, g, S) == g = [T \in SUBSET S |-> Unfold(f, g, T)]

-----------------------------------------------------------------------------
(* A family of subsets of a finite set that is not empty has a member none *)
(* of whose strict subsets is in the family.                               *)
LEMMA MinimalSubset ==
    ASSUME NEW S, IsFiniteSet(S), NEW F \in SUBSET (SUBSET S), F # {}
    PROVE  \E T \in F : \A U \in F : U \subseteq T => U = T
<1>1. IsWellFoundedOn(StrictSubsetOrdering(S), SUBSET S)
  BY FS_StrictSubsetOrderingWellFounded, FS_FiniteSubsetsOfFinite
<1>2. PICK T \in F : \A U \in F : ~ (<<U, T>> \in StrictSubsetOrdering(S))
  BY <1>1, WFMin
<1>3. ASSUME NEW U \in F, U \subseteq T, U # T
      PROVE  <<U, T>> \in StrictSubsetOrdering(S)
  BY <1>3 DEF StrictSubsetOrdering
<1>4. ASSUME NEW U \in F, U \subseteq T
      PROVE  U = T
  BY <1>2, <1>3, <1>4
<1> QED
  BY <1>4

(* Pick takes a member. *)
LEMMA PickMember ==
    ASSUME NEW S, S # {}
    PROVE  Pick(S) \in S
BY DEF Pick

(* What a sum table says of one subset. *)
LEMMA SumTableAt ==
    ASSUME NEW S, NEW f, NEW g, IsSumTable(f, g, S), NEW T \in SUBSET S
    PROVE  g[T] = Unfold(f, g, T)
BY DEF IsSumTable

(* Two sum tables of the same function agree wherever both are defined. *)
LEMMA SumTablesAgree ==
    ASSUME NEW S, IsFiniteSet(S), NEW f,
           NEW A, NEW B, S \subseteq A, S \subseteq B,
           NEW g, IsSumTable(f, g, A),
           NEW h, IsSumTable(f, h, B)
    PROVE  \A T \in SUBSET S : g[T] = h[T]
<1> DEFINE Bad == {T \in SUBSET S : g[T] # h[T]}
<1> SUFFICES ASSUME Bad # {} PROVE FALSE
  OBVIOUS
<1>0. Bad \in SUBSET (SUBSET S)
  OBVIOUS
<1>1. PICK T \in Bad : \A U \in Bad : U \subseteq T => U = T
  <2> HIDE DEF Bad
  <2> QED BY <1>0, MinimalSubset
<1>2. g[T] = Unfold(f, g, T) /\ h[T] = Unfold(f, h, T)
  BY SumTableAt
<1>3. T # {}
  BY <1>2 DEF Unfold
<1>4. Pick(T) \in T
  BY <1>3, PickMember
<1>5. g[T \ {Pick(T)}] = h[T \ {Pick(T)}]
  BY <1>1, <1>4
<1> QED
  BY <1>2, <1>3, <1>5 DEF Unfold

(* Every function with integer values on a finite set has a table of integer *)
(* sums.                                                                     *)
LEMMA SumTableExists ==
    ASSUME NEW S, IsFiniteSet(S), NEW f, \A x \in S : f[x] \in Int
    PROVE  \E g \in [SUBSET S -> Int] : IsSumTable(f, g, S)
<1> DEFINE Has(T) == \E g \in [SUBSET T -> Int] : IsSumTable(f, g, T)
           Bad    == {T \in SUBSET S : ~ Has(T)}
<1> SUFFICES ASSUME Bad # {} PROVE FALSE
  OBVIOUS
<1>0. Bad \in SUBSET (SUBSET S)
  OBVIOUS
<1>1. PICK T \in Bad : \A U \in Bad : U \subseteq T => U = T
  <2> HIDE DEF Bad
  <2> QED BY <1>0, MinimalSubset
<1>2. \A U \in SUBSET T : U # T => Has(U)
  BY <1>1
<1> DEFINE tab(U) == CHOOSE g \in [SUBSET U -> Int] : IsSumTable(f, g, U)
           sum(U) == tab(U)[U]
           top    == IF T = {} THEN 0 ELSE f[Pick(T)] + sum(T \ {Pick(T)})
           all    == [U \in SUBSET T |-> IF U = T THEN top ELSE sum(U)]
<1>3. \A U \in SUBSET T : U # T => tab(U) \in [SUBSET U -> Int] /\ IsSumTable(f, tab(U), U)
  BY <1>2
<1>4. \A U \in SUBSET T : U # T => sum(U) \in Int
  BY <1>3
<1>5. T # {} => Pick(T) \in T /\ T \ {Pick(T)} # T /\ f[Pick(T)] \in Int
  BY PickMember
<1>6. top \in Int
  <2>1. CASE T = {}
    BY <2>1
  <2>2. CASE T # {}
    <3> DEFINE V == T \ {Pick(T)}
    <3>1. V \in SUBSET T /\ V # T
      BY <1>5, <2>2
    <3>2. sum(V) \in Int
      <4> HIDE DEF V, sum
      <4> QED BY <1>4, <3>1
    <3>3. f[Pick(T)] \in Int
      BY <1>5, <2>2
    <3> HIDE DEF sum
    <3> QED
      BY <2>2, <3>2, <3>3
  <2> QED
    BY <2>1, <2>2
<1>7. all \in [SUBSET T -> Int]
  BY <1>4, <1>6
<1>8. ASSUME NEW U \in SUBSET T
      PROVE  all[U] = Unfold(f, all, U)
  <2>1. CASE U = T
    BY <2>1, <1>5 DEF Unfold
  <2>2. CASE U # T
    <3>1. all[U] = Unfold(f, tab(U), U)
      <4>1. IsSumTable(f, tab(U), U) /\ U \in SUBSET U
        BY <2>2, <1>3
      <4>2. tab(U)[U] = Unfold(f, tab(U), U)
        <5> HIDE DEF tab
        <5> QED BY <4>1, SumTableAt
      <4>3. all[U] = tab(U)[U]
        BY <2>2
      <4> QED
        BY <4>2, <4>3
    <3>2. CASE U = {}
      BY <3>1, <3>2 DEF Unfold
    <3>3. CASE U # {}
      <4> DEFINE V == U \ {Pick(U)}
      <4>1. Pick(U) \in U /\ V # U /\ V \in SUBSET U /\ V # T /\ V \in SUBSET T
        BY <3>3, PickMember
      <4>2. IsFiniteSet(V)
        BY <4>1, FS_Subset
      <4>3. tab(U)[V] = tab(V)[V]
        <5>1. IsSumTable(f, tab(U), U) /\ IsSumTable(f, tab(V), V)
          BY <4>1, <2>2, <1>3
        <5>2. V \subseteq U /\ V \subseteq V /\ V \in SUBSET V
          BY <4>1
        <5>3. ASSUME NEW g, NEW h, IsSumTable(f, g, U), IsSumTable(f, h, V)
              PROVE  \A X \in SUBSET V : g[X] = h[X]
          <6> HIDE DEF V
          <6> QED BY <4>2, <5>2, <5>3, SumTablesAgree
        <5> HIDE DEF tab
        <5> QED BY <5>1, <5>2, <5>3
      <4>4. all[V] = tab(U)[V]
        BY <4>1, <4>3
      <4> QED
        BY <3>1, <3>3, <4>4 DEF Unfold
    <3> QED
      BY <3>2, <3>3
  <2> QED
    BY <2>1, <2>2
<1>9. IsSumTable(f, all, T)
  BY <1>7, <1>8 DEF IsSumTable
<1> QED
  BY <1>1, <1>7, <1>9

(* The library's sum is the entry of the whole set in any sum table. *)
LEMMA SumByTable ==
    ASSUME NEW S, IsFiniteSet(S), NEW f, NEW g, IsSumTable(f, g, S)
    PROVE  SumFunctionOnSet(f, S) = g[S]
<1> DEFINE chosen == CHOOSE t : t = [T \in SUBSET S |-> IF T = {} THEN 0 ELSE f[CHOOSE x \in T : TRUE] + t[T \ {CHOOSE x \in T : TRUE}]]
<1>1. SumFunctionOnSet(f, S) = chosen[S]
  BY DEF SumFunctionOnSet, FoldFunctionOnSet, MapThenFoldSet
<1>2. IsSumTable(f, chosen, S)
  BY DEF IsSumTable, Unfold, Pick
<1>3. \A T \in SUBSET S : chosen[T] = g[T]
  <2> HIDE DEF chosen
  <2> QED BY <1>2, SumTablesAgree
<1> QED
  BY <1>1, <1>3

-----------------------------------------------------------------------------
(* The sum of integers over a finite set is an integer. *)
LEMMA SumType ==
    ASSUME NEW S, IsFiniteSet(S), NEW f, \A x \in S : f[x] \in Int
    PROVE  SumFunctionOnSet(f, S) \in Int
<1>1. PICK g \in [SUBSET S -> Int] : IsSumTable(f, g, S)
  BY SumTableExists
<1>2. SumFunctionOnSet(f, S) = g[S]
  BY <1>1, SumByTable
<1> QED
  BY <1>2

(* The sum over no element is 0. *)
LEMMA SumEmpty ==
    ASSUME NEW f
    PROVE  SumFunctionOnSet(f, {}) = 0
<1>1. IsFiniteSet({})
  BY FS_EmptySet
<1>2. \A x \in {} : f[x] \in Int
  OBVIOUS
<1>3. PICK g \in [SUBSET {} -> Int] : IsSumTable(f, g, {})
  BY <1>1, <1>2, SumTableExists
<1>4. g[{}] = 0
  BY <1>3, SumTableAt DEF Unfold
<1> QED
  BY <1>1, <1>3, <1>4, SumByTable

(* The fold's own order: first Pick(S), then the rest. *)
LEMMA SumPick ==
    ASSUME NEW S, IsFiniteSet(S), S # {}, NEW f, \A x \in S : f[x] \in Int
    PROVE  SumFunctionOnSet(f, S) = f[Pick(S)] + SumFunctionOnSet(f, S \ {Pick(S)})
<1> DEFINE R == S \ {Pick(S)}
<1>1. PICK g \in [SUBSET S -> Int] : IsSumTable(f, g, S)
  BY SumTableExists
<1>2. g[S] = f[Pick(S)] + g[R]
  BY <1>1, SumTableAt DEF Unfold
<1>3. IsFiniteSet(R) /\ (\A x \in R : f[x] \in Int) /\ R \subseteq S /\ R \subseteq R /\ R \in SUBSET R
  BY FS_Subset
<1>4. SumFunctionOnSet(f, R) = g[R]
  <2> HIDE DEF R
  <2>1. PICK h \in [SUBSET R -> Int] : IsSumTable(f, h, R)
    BY <1>3, SumTableExists
  <2>2. \A T \in SUBSET R : g[T] = h[T]
    BY <1>1, <1>3, <2>1, SumTablesAgree
  <2> QED
    BY <1>3, <2>1, <2>2, SumByTable
<1>5. SumFunctionOnSet(f, S) = g[S]
  BY <1>1, SumByTable
<1> QED
  BY <1>2, <1>4, <1>5

(* The order does not matter: any element may be taken first. *)
LEMMA SumRemove ==
    ASSUME NEW S, IsFiniteSet(S), NEW f, \A x \in S : f[x] \in Int, NEW y \in S
    PROVE  SumFunctionOnSet(f, S) = f[y] + SumFunctionOnSet(f, S \ {y})
<1> DEFINE Good(T) == \A x \in T : SumFunctionOnSet(f, T) = f[x] + SumFunctionOnSet(f, T \ {x})
           Bad     == {T \in SUBSET S : ~ Good(T)}
<1> SUFFICES ASSUME Bad # {} PROVE FALSE
  OBVIOUS
<1>1. Bad \in SUBSET (SUBSET S)
  OBVIOUS
<1>2. PICK T \in Bad : \A U \in Bad : U \subseteq T => U = T
  <2> HIDE DEF Bad
  <2> QED BY <1>1, MinimalSubset
<1>3. PICK x \in T : SumFunctionOnSet(f, T) # f[x] + SumFunctionOnSet(f, T \ {x})
  OBVIOUS
<1> DEFINE p == Pick(T)
<1>4. p \in T
  BY <1>3, PickMember
<1>5. \A U \in SUBSET S : IsFiniteSet(U) /\ \A z \in U : f[z] \in Int
  BY FS_Subset
<1>6. SumFunctionOnSet(f, T) = f[p] + SumFunctionOnSet(f, T \ {p})
  <2>1. T \in SUBSET S /\ T # {}
    BY <1>3
  <2> QED
    BY <2>1, <1>5, SumPick
<1>7. x # p
  BY <1>3, <1>6
<1>8. \A U \in SUBSET T : U # T => Good(U)
  BY <1>2
<1>9. SumFunctionOnSet(f, T \ {p}) = f[x] + SumFunctionOnSet(f, (T \ {p}) \ {x})
  <2>1. T \ {p} \in SUBSET T /\ T \ {p} # T /\ x \in T \ {p}
    BY <1>4, <1>7
  <2> QED
    BY <2>1, <1>8
<1>10. SumFunctionOnSet(f, T \ {x}) = f[p] + SumFunctionOnSet(f, (T \ {x}) \ {p})
  <2>1. T \ {x} \in SUBSET T /\ T \ {x} # T /\ p \in T \ {x}
    BY <1>4, <1>7
  <2> QED
    BY <2>1, <1>8
<1>11. (T \ {p}) \ {x} = (T \ {x}) \ {p}
  OBVIOUS
<1>12. f[x] \in Int /\ f[p] \in Int /\ SumFunctionOnSet(f, (T \ {p}) \ {x}) \in Int
  <2>1. (T \ {p}) \ {x} \in SUBSET S
    OBVIOUS
  <2>2. SumFunctionOnSet(f, (T \ {p}) \ {x}) \in Int
    BY <2>1, <1>5, SumType
  <2> QED
    BY <2>2, <1>4
<1> DEFINE rest == SumFunctionOnSet(f, (T \ {p}) \ {x})
<1>13. SumFunctionOnSet(f, T) = f[p] + (f[x] + rest)
  BY <1>6, <1>9
<1>14. SumFunctionOnSet(f, T \ {x}) = f[p] + rest
  BY <1>10, <1>11
<1>15. f[x] \in Int /\ f[p] \in Int /\ rest \in Int
  BY <1>12
<1> HIDE DEF p, rest, Good, Bad
<1>16. f[p] + (f[x] + rest) = f[x] + (f[p] + rest)
  BY <1>15
<1> QED
  BY <1>3, <1>13, <1>14, <1>16, Zenon

(* Adding an element that was not summed adds its value. *)
LEMMA SumAdd ==
    ASSUME NEW S, IsFiniteSet(S), NEW f, NEW y, y \notin S, \A x \in S \cup {y} : f[x] \in Int
    PROVE  SumFunctionOnSet(f, S \cup {y}) = f[y] + SumFunctionOnSet(f, S)
<1>1. IsFiniteSet(S \cup {y}) /\ (S \cup {y}) \ {y} = S
  BY FS_AddElement
<1> QED
  BY <1>1, SumRemove

(* Only the values on the set count. *)
LEMMA SumExt ==
    ASSUME NEW S, IsFiniteSet(S), NEW f, NEW g, \A x \in S : f[x] \in Int /\ g[x] = f[x]
    PROVE  SumFunctionOnSet(g, S) = SumFunctionOnSet(f, S)
<1> DEFINE Bad == {T \in SUBSET S : SumFunctionOnSet(g, T) # SumFunctionOnSet(f, T)}
<1> SUFFICES ASSUME Bad # {} PROVE FALSE
  OBVIOUS
<1>1. Bad \in SUBSET (SUBSET S)
  OBVIOUS
<1>2. PICK T \in Bad : \A U \in Bad : U \subseteq T => U = T
  <2> HIDE DEF Bad
  <2> QED BY <1>1, MinimalSubset
<1>3. T # {}
  BY SumEmpty
<1>4. PICK y \in T : TRUE
  BY <1>3
<1>5. IsFiniteSet(T) /\ (\A x \in T : f[x] \in Int) /\ (\A x \in T : g[x] \in Int)
  BY FS_Subset
<1>6. /\ SumFunctionOnSet(f, T) = f[y] + SumFunctionOnSet(f, T \ {y})
      /\ SumFunctionOnSet(g, T) = g[y] + SumFunctionOnSet(g, T \ {y})
  BY <1>5, SumRemove
<1>7. SumFunctionOnSet(g, T \ {y}) = SumFunctionOnSet(f, T \ {y})
  BY <1>2, <1>4
<1> QED
  BY <1>6, <1>7

(* The sum of a pointwise sum. *)
LEMMA SumPlus ==
    ASSUME NEW S, IsFiniteSet(S), NEW f, NEW g, NEW h,
           \A x \in S : f[x] \in Int /\ g[x] \in Int /\ h[x] = f[x] + g[x]
    PROVE  SumFunctionOnSet(h, S) = SumFunctionOnSet(f, S) + SumFunctionOnSet(g, S)
<1> DEFINE Good(T) == SumFunctionOnSet(h, T) = SumFunctionOnSet(f, T) + SumFunctionOnSet(g, T)
           Bad     == {T \in SUBSET S : ~ Good(T)}
<1> SUFFICES ASSUME Bad # {} PROVE FALSE
  OBVIOUS
<1>1. Bad \in SUBSET (SUBSET S)
  OBVIOUS
<1>2. PICK T \in Bad : \A U \in Bad : U \subseteq T => U = T
  <2> HIDE DEF Bad
  <2> QED BY <1>1, MinimalSubset
<1>3. T # {}
  <2>1. ~ Good(T)
    OBVIOUS
  <2>2. Good({})
    BY SumEmpty
  <2> HIDE DEF Good
  <2> QED BY <2>1, <2>2
<1>4. PICK y \in T : TRUE
  BY <1>3
<1> DEFINE R == T \ {y}
<1>5. IsFiniteSet(T) /\ (\A x \in T : f[x] \in Int) /\ (\A x \in T : g[x] \in Int) /\ (\A x \in T : h[x] \in Int)
  BY FS_Subset
<1>6. /\ SumFunctionOnSet(f, T) = f[y] + SumFunctionOnSet(f, R)
      /\ SumFunctionOnSet(g, T) = g[y] + SumFunctionOnSet(g, R)
      /\ SumFunctionOnSet(h, T) = h[y] + SumFunctionOnSet(h, R)
  BY <1>5, SumRemove
<1>7. Good(R)
  BY <1>2, <1>4
<1>8. SumFunctionOnSet(f, R) \in Int /\ SumFunctionOnSet(g, R) \in Int
  BY <1>5, FS_Subset, SumType
<1>9. f[y] \in Int /\ g[y] \in Int /\ h[y] = f[y] + g[y]
  OBVIOUS
<1>10. ~ Good(T)
  OBVIOUS
<1> HIDE DEF Bad, R
<1> QED
  BY <1>6, <1>7, <1>8, <1>9, <1>10

(* The sum of zeros. *)
LEMMA SumZero ==
    ASSUME NEW S, IsFiniteSet(S), NEW f, \A x \in S : f[x] = 0
    PROVE  SumFunctionOnSet(f, S) = 0
<1> DEFINE s == SumFunctionOnSet(f, S)
<1>1. \A x \in S : f[x] \in Int
  OBVIOUS
<1>2. \A x \in S : f[x] \in Int /\ f[x] \in Int /\ f[x] = f[x] + f[x]
  OBVIOUS
<1>3. s \in Int
  BY <1>1, SumType
<1>4. s = s + s
  BY <1>2, SumPlus
<1> HIDE DEF s
<1>5. s = 0
  BY <1>3, <1>4
<1> QED
  BY <1>5 DEF s

(* The sum of values that are not negative is not negative. *)
LEMMA SumNonNegative ==
    ASSUME NEW S, IsFiniteSet(S), NEW f, \A x \in S : f[x] \in Int /\ f[x] >= 0
    PROVE  SumFunctionOnSet(f, S) >= 0
<1> DEFINE Good(T) == SumFunctionOnSet(f, T) >= 0
           Bad     == {T \in SUBSET S : ~ Good(T)}
<1> SUFFICES ASSUME Bad # {} PROVE FALSE
  OBVIOUS
<1>1. Bad \in SUBSET (SUBSET S)
  OBVIOUS
<1>2. PICK T \in Bad : \A U \in Bad : U \subseteq T => U = T
  <2> HIDE DEF Bad
  <2> QED BY <1>1, MinimalSubset
<1>3. T # {}
  BY SumEmpty
<1>4. PICK y \in T : TRUE
  BY <1>3
<1> DEFINE R == T \ {y}
<1>5. IsFiniteSet(T) /\ (\A x \in T : f[x] \in Int)
  BY FS_Subset
<1>6. SumFunctionOnSet(f, T) = f[y] + SumFunctionOnSet(f, R)
  BY <1>5, SumRemove
<1>7. Good(R)
  BY <1>2, <1>4
<1>8. SumFunctionOnSet(f, R) \in Int
  BY <1>5, FS_Subset, SumType
<1>9. f[y] \in Int /\ f[y] >= 0 /\ ~ Good(T)
  OBVIOUS
<1> HIDE DEF Bad, R
<1> QED
  BY <1>6, <1>7, <1>8, <1>9

(* Changing one value changes the sum by the difference. *)
LEMMA SumChangeOne ==
    ASSUME NEW S, IsFiniteSet(S), NEW f, NEW g, NEW y \in S,
           \A x \in S : f[x] \in Int /\ g[x] \in Int,
           \A x \in S \ {y} : g[x] = f[x]
    PROVE  SumFunctionOnSet(g, S) = SumFunctionOnSet(f, S) + g[y] - f[y]
<1> DEFINE R == S \ {y}
<1>1. IsFiniteSet(R) /\ \A x \in R : f[x] \in Int /\ g[x] = f[x]
  BY FS_Subset
<1>2. SumFunctionOnSet(g, R) = SumFunctionOnSet(f, R) /\ SumFunctionOnSet(f, R) \in Int
  <2> HIDE DEF R
  <2> QED BY <1>1, SumExt, SumType
<1>3. SumFunctionOnSet(f, S) = f[y] + SumFunctionOnSet(f, R)
  BY SumRemove
<1>4. SumFunctionOnSet(g, S) = g[y] + SumFunctionOnSet(g, R)
  BY SumRemove
<1> HIDE DEF R
<1> QED
  BY <1>2, <1>3, <1>4

-----------------------------------------------------------------------------
(* Multiples, quotients and counts *)

(* Equality of the products gives the order of the factors. *)
LEMMA ScaledOrder ==
    ASSUME NEW c \in Int, c > 0, NEW x \in Int, NEW y \in Int, c * x <= c * y
    PROVE  x <= y
<1> SUFFICES ASSUME x >= y + 1 PROVE FALSE
  OBVIOUS
<1>1. c * (x - y) >= c * 1
  OBVIOUS
<1>2. c * (x - y) = c * x - c * y
  OBVIOUS
<1> QED
  BY <1>1, <1>2

(* A strict order of products, too. *)
LEMMA ScaledStrictly ==
    ASSUME NEW c \in Int, c > 0, NEW x \in Int, NEW y \in Int, c * x < c * y
    PROVE  x < y
<1> SUFFICES ASSUME y <= x PROVE FALSE
  OBVIOUS
<1>1. x - y \in Nat /\ c * (x - y) \in Nat
  OBVIOUS
<1>2. c * (x - y) = c * x - c * y /\ c * x \in Int /\ c * y \in Int
  OBVIOUS
<1> QED
  BY <1>1, <1>2

(* A factor distributes over a sum. *)
LEMMA Distributes ==
    ASSUME NEW c \in Int, NEW x \in Int, NEW y \in Int
    PROVE  c * (x + y) = c * x + c * y
OBVIOUS

(* Rounding down. *)
LEMMA DivBounds ==
    ASSUME NEW x \in Int, NEW p \in Int, p > 0
    PROVE  /\ x \div p \in Int
           /\ p * (x \div p) <= x
           /\ x < p * (x \div p) + p
           /\ x >= 0 => x \div p >= 0
OBVIOUS

(* The sum of multiples. *)
LEMMA SumTimes ==
    ASSUME NEW S, IsFiniteSet(S), NEW f, NEW g, NEW c \in Int,
           \A x \in S : f[x] \in Int /\ g[x] = c * f[x]
    PROVE  SumFunctionOnSet(g, S) = c * SumFunctionOnSet(f, S)
<1> DEFINE Good(T) == SumFunctionOnSet(g, T) = c * SumFunctionOnSet(f, T)
           Bad     == {T \in SUBSET S : ~ Good(T)}
<1> SUFFICES ASSUME Bad # {} PROVE FALSE
  OBVIOUS
<1>1. Bad \in SUBSET (SUBSET S)
  OBVIOUS
<1>2. PICK T \in Bad : \A U \in Bad : U \subseteq T => U = T
  <2> HIDE DEF Bad
  <2> QED BY <1>1, MinimalSubset
<1>3. T # {}
  <2>1. ~ Good(T)
    OBVIOUS
  <2>2. Good({})
    BY SumEmpty
  <2> HIDE DEF Good
  <2> QED BY <2>1, <2>2
<1>4. PICK y \in T : TRUE
  BY <1>3
<1> DEFINE R == T \ {y}
<1>5. IsFiniteSet(T) /\ (\A x \in T : f[x] \in Int) /\ (\A x \in T : g[x] \in Int)
  BY FS_Subset
<1>6. /\ SumFunctionOnSet(f, T) = f[y] + SumFunctionOnSet(f, R)
      /\ SumFunctionOnSet(g, T) = g[y] + SumFunctionOnSet(g, R)
  BY <1>5, SumRemove
<1>7. Good(R)
  BY <1>2, <1>4
<1>8. SumFunctionOnSet(f, R) \in Int
  BY <1>5, FS_Subset, SumType
<1>9. f[y] \in Int /\ g[y] = c * f[y]
  OBVIOUS
<1>10. ~ Good(T)
  OBVIOUS
<1>11. c * (f[y] + SumFunctionOnSet(f, R)) = c * f[y] + c * SumFunctionOnSet(f, R)
  BY <1>8, <1>9, Distributes
<1> HIDE DEF Bad, R
<1> QED
  BY <1>6, <1>7, <1>9, <1>10, <1>11

(* Terms that are zero can be left out of a sum. *)
LEMMA SumSupport ==
    ASSUME NEW S, IsFiniteSet(S), NEW A \in SUBSET S, NEW f,
           \A x \in S : f[x] \in Int, \A x \in S \ A : f[x] = 0
    PROVE  SumFunctionOnSet(f, S) = SumFunctionOnSet(f, A)
<1> DEFINE Bad == {T \in SUBSET S : A \subseteq T /\ SumFunctionOnSet(f, T) # SumFunctionOnSet(f, A)}
<1> SUFFICES ASSUME Bad # {} PROVE FALSE
  OBVIOUS
<1>1. Bad \in SUBSET (SUBSET S)
  OBVIOUS
<1>2. PICK T \in Bad : \A U \in Bad : U \subseteq T => U = T
  <2> HIDE DEF Bad
  <2> QED BY <1>1, MinimalSubset
<1>3. PICK y \in T \ A : TRUE
  OBVIOUS
<1> DEFINE R == T \ {y}
<1>4. IsFiniteSet(T) /\ (\A x \in T : f[x] \in Int) /\ IsFiniteSet(R) /\ (\A x \in R : f[x] \in Int)
  BY FS_Subset
<1>5. SumFunctionOnSet(f, T) = f[y] + SumFunctionOnSet(f, R)
  BY <1>4, SumRemove
<1>6. SumFunctionOnSet(f, R) = SumFunctionOnSet(f, A)
  BY <1>2, <1>3
<1>7. f[y] = 0 /\ SumFunctionOnSet(f, R) \in Int
  BY <1>3, <1>4, SumType
<1> HIDE DEF Bad, R
<1> QED
  BY <1>5, <1>6, <1>7 DEF Bad

(* There are n places below n. *)
LEMMA PlacesBelow ==
    ASSUME NEW n \in Nat
    PROVE  IsFiniteSet(0 .. n - 1) /\ Cardinality(0 .. n - 1) = n
<1>1. n - 1 \in Int
  OBVIOUS
<1>2. IsFiniteSet(0 .. n - 1) /\ Cardinality(0 .. n - 1) = IF 0 > n - 1 THEN 0 ELSE n - 1 - 0 + 1
  BY <1>1, FS_Interval
<1> QED
  BY <1>2

(* Counting by adding ones. *)
LEMMA SumOnes ==
    ASSUME NEW S, IsFiniteSet(S), NEW F \in SUBSET S, NEW f,
           \A x \in S : f[x] = IF x \in F THEN 1 ELSE 0
    PROVE  SumFunctionOnSet(f, S) = Cardinality(F)
<1> DEFINE Good(T) == SumFunctionOnSet(f, T) = Cardinality(F \cap T)
           Bad     == {T \in SUBSET S : ~ Good(T)}
<1> SUFFICES ASSUME Bad # {} PROVE FALSE
  <2>1. F \cap S = F
    OBVIOUS
  <2> QED BY <2>1
<1>1. Bad \in SUBSET (SUBSET S)
  OBVIOUS
<1>2. PICK T \in Bad : \A U \in Bad : U \subseteq T => U = T
  <2> HIDE DEF Bad
  <2> QED BY <1>1, MinimalSubset
<1>3. T # {}
  <2>1. ~ Good(T)
    OBVIOUS
  <2>2. Good({})
    <3>1. F \cap {} = {}
      OBVIOUS
    <3> QED BY <3>1, SumEmpty, FS_EmptySet
  <2> HIDE DEF Good
  <2> QED BY <2>1, <2>2
<1>4. PICK y \in T : TRUE
  BY <1>3
<1> DEFINE R == T \ {y}
<1>5. IsFiniteSet(T) /\ (\A x \in T : f[x] \in Int)
  BY FS_Subset
<1>6. SumFunctionOnSet(f, T) = f[y] + SumFunctionOnSet(f, R)
  BY <1>5, SumRemove
<1>7. Good(R)
  BY <1>2, <1>4
<1>8. IsFiniteSet(F \cap R) /\ Cardinality(F \cap R) \in Nat
  BY <1>5, FS_Subset, FS_CardinalityType
<1>9. ~ Good(T)
  OBVIOUS
<1>10. CASE y \in F
  <2>1. F \cap T = (F \cap R) \cup {y} /\ y \notin F \cap R
    BY <1>10
  <2>2. Cardinality(F \cap T) = Cardinality(F \cap R) + 1
    BY <1>8, <2>1, FS_AddElement
  <2> HIDE DEF Bad, R
  <2> QED BY <1>6, <1>7, <1>8, <1>9, <1>10, <2>2
<1>11. CASE y \notin F
  <2>1. F \cap T = F \cap R
    BY <1>11
  <2>2. f[y] = 0
    BY <1>11
  <2>3. SumFunctionOnSet(f, T) = SumFunctionOnSet(f, R)
    <3> HIDE DEF Bad, R
    <3> QED BY <1>6, <1>7, <1>8, <2>2
  <2> HIDE DEF Bad, R
  <2> QED BY <1>7, <1>9, <2>1, <2>3
<1> QED
  BY <1>10, <1>11
=============================================================================
