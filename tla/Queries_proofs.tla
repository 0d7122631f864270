--------------------------- MODULE Queries_proofs ---------------------------
(***************************************************************************)
(* Facts about numbers, finite sets, sums and rows that the proofs of the  *)
(* components need: which element is the least or the greatest, what a sum *)
(* over a set comes to, which rows are kept and on which page they are.    *)
(* Each is an induction over a size or a length, by a smallest             *)
(* counterexample.                                                         *)
(***************************************************************************)
EXTENDS Queries, SequencesExt, FiniteSetTheorems, SequenceTheorems, WellFoundedInduction, TLAPS

----------------------------------------------------------------------------
(* Choices: the smallest and the greatest of a set of numbers.             *)

(* A set of natural numbers that is not empty has a smallest element.      *)
LEMMA Smallest ==
    ASSUME NEW S, S \subseteq Nat, S # {}
    PROVE  \E x \in S : \A y \in S : x <= y
<1>1. PICK x \in S : \A y \in S : ~(<<y, x>> \in OpToRel(<, Nat))
  BY WFMin, NatLessThanWellFounded
<1>2. ASSUME NEW y \in S PROVE x <= y
  <2>1. x \in Nat /\ y \in Nat OBVIOUS
  <2>2. y < x => <<y, x>> \in OpToRel(<, Nat)
    BY <2>1 DEF OpToRel
  <2>3. ~(y < x) BY <1>1, <2>2
  <2> QED BY <2>1, <2>3
<1> QED BY <1>2

(* A bounded one has a greatest element: the rounds, the rewards.          *)
LEMMA Greatest ==
    ASSUME NEW n \in Nat, NEW S, S \subseteq 0..n, S # {}
    PROVE  \E x \in S : \A y \in S : x >= y
<1> DEFINE Gaps == {n - y : y \in S}
<1>1. Gaps \subseteq Nat /\ Gaps # {}
  <2>1. \A y \in 0..n : n - y \in Nat OBVIOUS
  <2> QED BY <2>1
<1>2. PICK g \in Gaps : \A h \in Gaps : g <= h
  BY <1>1, Smallest
<1>3. PICK x \in S : g = n - x
  OBVIOUS
<1>4. \A y \in S : n - x <= n - y
  BY <1>2, <1>3
<1> QED BY <1>4

(* A finite set that a transitive relation orders has a greatest element.  *)
LEMMA GreatestOf ==
    ASSUME NEW S, IsFiniteSet(S), S # {}, NEW R,
           \A a, b \in S : a # b => <<a, b>> \in R \/ <<b, a>> \in R,
           \A a, b, c \in S : <<a, b>> \in R /\ <<b, c>> \in R => <<a, c>> \in R
    PROVE  \E a \in S : \A b \in S \ {a} : <<a, b>> \in R
<1> DEFINE HasGreatest(T) == \E a \in T : \A b \in T \ {a} : <<a, b>> \in R
           Bad == {T \in SUBSET S : T # {} /\ ~HasGreatest(T)}
<1>1. SUFFICES ASSUME Bad # {} PROVE FALSE
  OBVIOUS
<1>2. IsWellFoundedOn(StrictSubsetOrdering(S), SUBSET S)
  BY FS_StrictSubsetOrderingWellFounded, FS_FiniteSubsetsOfFinite
<1>3. PICK T \in Bad : \A U \in Bad : ~(<<U, T>> \in StrictSubsetOrdering(S))
  <2>1. Bad \subseteq SUBSET S OBVIOUS
  <2> HIDE DEF Bad
  <2> QED BY <1>1, <1>2, <2>1, WFMin
<1>4. T \subseteq S /\ ~HasGreatest(T) BY <1>3
<1>5. PICK x \in T : TRUE BY <1>3
<1> DEFINE U == T \ {x}
<1>6. U \notin Bad
  <2>1. U \subseteq S /\ U \subseteq T /\ U # T BY <1>4, <1>5
  <2>2. <<U, T>> \in StrictSubsetOrdering(S) BY <1>4, <2>1 DEF StrictSubsetOrdering
  <2> QED BY <1>3, <2>2
<1>7. CASE U = {} BY <1>4, <1>5, <1>7
<1>8. CASE U # {}
  <2>1. HasGreatest(U) BY <1>4, <1>6, <1>8
  <2>2. PICK g \in U : \A b \in U \ {g} : <<g, b>> \in R BY <2>1
  <2>3. CASE <<g, x>> \in R BY <1>4, <2>2, <2>3
  <2>4. CASE <<x, g>> \in R BY <1>4, <1>5, <2>2, <2>4
  <2> QED BY <1>4, <1>5, <2>2, <2>3, <2>4
<1> QED BY <1>7, <1>8

----------------------------------------------------------------------------
(* Sums.                                                                   *)

(* What the fold behind SumOver computes on the way: a sum for every part  *)
(* of the set, a chosen element at a time.                                 *)
Added(f, g, s) ==
    IF s = {} THEN 0 ELSE LET x == CHOOSE w \in s : TRUE IN f[x] + g[s \ {x}]
IsSum(g, f, S) == g = [s \in SUBSET S |-> Added(f, g, s)]

(* There is such a function: it is built from the smaller parts to the     *)
(* larger ones.                                                            *)
LEMMA SumsExist ==
    ASSUME NEW S, IsFiniteSet(S), NEW f
    PROVE  \E g : IsSum(g, f, S)
<1> DEFINE Part(n) == {s \in SUBSET S : Cardinality(s) <= n}
           Q(n) == \E g : g = [s \in Part(n) |-> Added(f, g, s)]
<1>1. \A s \in SUBSET S : IsFiniteSet(s) /\ Cardinality(s) \in Nat
  BY FS_Subset, FS_CardinalityType
<1>2. ASSUME NEW s \in SUBSET S, s # {}
      PROVE  LET x == CHOOSE w \in s : TRUE IN
             s \ {x} \in SUBSET S /\ Cardinality(s \ {x}) = Cardinality(s) - 1
  <2> DEFINE x == CHOOSE w \in s : TRUE
  <2>1. x \in s BY <1>2
  <2> HIDE DEF x
  <2>2. Cardinality(s \ {x}) = Cardinality(s) - 1 BY <1>1, <2>1, FS_RemoveElement
  <2> QED BY <2>1, <2>2 DEF x
<1>3. Q(0)
  <2>1. \A s \in Part(0) : s = {} BY <1>1, FS_EmptySet
  <2> DEFINE g == [s \in Part(0) |-> 0]
  <2>2. \A s \in Part(0) : g[s] = Added(f, g, s) BY <2>1 DEF Added
  <2>3. g = [s \in Part(0) |-> Added(f, g, s)] BY <2>2
  <2> QED BY <2>3
<1>4. ASSUME NEW n \in Nat, Q(n) PROVE Q(n + 1)
  <2>1. PICK g : g = [s \in Part(n) |-> Added(f, g, s)] BY <1>4
  <2> DEFINE h == [s \in Part(n + 1) |-> IF s \in Part(n) THEN g[s] ELSE Added(f, g, s)]
  <2>2. ASSUME NEW s \in Part(n + 1) PROVE h[s] = Added(f, h, s)
    <3>1. h[s] = Added(f, g, s) BY <2>1
    <3>2. CASE s = {} BY <3>1, <3>2 DEF Added
    <3>3. CASE s # {}
      <4> DEFINE x == CHOOSE w \in s : TRUE
      <4>1. s \ {x} \in SUBSET S /\ Cardinality(s \ {x}) = Cardinality(s) - 1
        BY <1>2, <3>3
      <4>2. s \ {x} \in Part(n) BY <1>1, <4>1
      <4>3. s \ {x} \in Part(n + 1) BY <4>2, <1>1
      <4>4. h[s \ {x}] = g[s \ {x}] BY <4>2, <4>3
      <4> HIDE DEF h
      <4> QED BY <3>1, <3>3, <4>4 DEF Added
    <3> QED BY <3>2, <3>3
  <2>3. h = [s \in Part(n + 1) |-> h[s]] OBVIOUS
  <2> HIDE DEF h
  <2>4. h = [s \in Part(n + 1) |-> Added(f, h, s)] BY <2>2, <2>3
  <2> QED BY <2>4
<1> HIDE DEF Q
<1>5. \A n \in Nat : Q(n)
  <2> SUFFICES ASSUME {n \in Nat : ~Q(n)} # {} PROVE FALSE OBVIOUS
  <2>1. PICK n \in {k \in Nat : ~Q(k)} : \A k \in {k \in Nat : ~Q(k)} : n <= k
    BY Smallest
  <2>2. n # 0 /\ n - 1 \in Nat BY <1>3, <2>1
  <2>3. Q(n - 1) BY <2>1, <2>2
  <2>4. Q(n - 1 + 1) BY <1>4, <2>2, <2>3
  <2> QED BY <2>1, <2>4
<1>6. Part(Cardinality(S)) = SUBSET S BY FS_Subset
<1>7. Q(Cardinality(S)) BY <1>1, <1>5
<1> QED BY <1>6, <1>7 DEF Q, IsSum

(* SumOver is the sum of the whole set.                                    *)
LEMMA SumIs ==
    ASSUME NEW S, IsFiniteSet(S), NEW f
    PROVE  \E g : IsSum(g, f, S) /\ SumOver(f, S) = g[S]
<1>1. SumOver(f, S) = (CHOOSE g : IsSum(g, f, S))[S]
  BY DEF SumOver, MapThenFoldSet, IsSum, Added
<1> QED BY <1>1, SumsExist

(* A sum of multiples is the multiple of the sum, and a sum of positive    *)
(* numbers is positive.                                                    *)
LEMMA SumOfMultiples ==
    ASSUME NEW S, IsFiniteSet(S), NEW f, NEW h, NEW c \in Nat,
           \A x \in S : f[x] \in Nat /\ f[x] > 0 /\ h[x] = c * f[x]
    PROVE  /\ SumOver(f, S) \in Nat
           /\ S # {} => SumOver(f, S) > 0
           /\ SumOver(h, S) = c * SumOver(f, S)
<1>1. PICK g : IsSum(g, f, S) /\ SumOver(f, S) = g[S] BY SumIs
<1>2. PICK k : IsSum(k, h, S) /\ SumOver(h, S) = k[S] BY SumIs
<1> DEFINE Right(s) == g[s] \in Nat /\ (s # {} => g[s] > 0) /\ k[s] = c * g[s]
           Wrong == {Cardinality(s) : s \in {s \in SUBSET S : ~Right(s)}}
<1>3. \A s \in SUBSET S : IsFiniteSet(s) /\ Cardinality(s) \in Nat
  BY FS_Subset, FS_CardinalityType
<1>4. \A s \in SUBSET S : g[s] = Added(f, g, s) /\ k[s] = Added(h, k, s)
  <2>1. g = [s \in SUBSET S |-> Added(f, g, s)] /\ k = [s \in SUBSET S |-> Added(h, k, s)]
    BY <1>1, <1>2 DEF IsSum
  <2> QED BY <2>1
<1>5. \A s \in SUBSET S : Right(s)
  <2> SUFFICES ASSUME \E s \in SUBSET S : ~Right(s) PROVE FALSE OBVIOUS
  <2>1. Wrong \subseteq Nat /\ Wrong # {} BY <1>3
  <2>2. PICK n \in Wrong : \A j \in Wrong : n <= j BY <2>1, Smallest
  <2>3. PICK s \in SUBSET S : ~Right(s) /\ n = Cardinality(s) BY <2>2
  <2>4. s # {}
    <3> SUFFICES ASSUME s = {} PROVE FALSE OBVIOUS
    <3>1. g[s] = 0 /\ k[s] = 0 BY <1>4 DEF Added
    <3>2. c * 0 = 0 OBVIOUS
    <3> QED BY <2>3, <3>1, <3>2
  <2> DEFINE x == CHOOSE w \in s : TRUE
             rest == s \ {x}
  <2>5. x \in s BY <2>4
  <2> HIDE DEF x
  <2>6. rest \in SUBSET S /\ Cardinality(rest) = Cardinality(s) - 1
    BY <1>3, <2>5, FS_RemoveElement
  <2>7. Right(rest)
    <3>1. ~(n <= Cardinality(rest)) BY <2>3, <2>6, <1>3
    <3> QED BY <2>2, <2>6, <3>1
  <2>8. g[s] = f[x] + g[rest] /\ k[s] = h[x] + k[rest] BY <1>4, <2>4 DEF Added, x
  <2> DEFINE fx == f[x]
             gr == g[rest]
  <2>9. fx \in Nat /\ fx > 0 /\ gr \in Nat /\ h[x] = c * fx /\ k[rest] = c * gr
    BY <2>5, <2>7
  <2> HIDE DEF fx, gr
  <2>10. c * fx + c * gr = c * (fx + gr) BY <2>9
  <2>11. g[s] = fx + gr /\ k[s] = c * (fx + gr) BY <2>8, <2>9, <2>10 DEF fx, gr
  <2> QED BY <2>3, <2>9, <2>11
<1> QED BY <1>1, <1>2, <1>5

(* Dividing undoes multiplying.                                            *)
LEMMA QuotientOfMultiple ==
    ASSUME NEW c \in Nat, NEW w \in Nat, w > 0
    PROVE  (c * w) \div w = c
OBVIOUS

----------------------------------------------------------------------------
(* Counting.                                                               *)

(* A table tells no more values than it has keys, and as many where no two *)
(* keys have one value.                                                    *)
LEMMA ValuesAreCounted ==
    ASSUME NEW S, IsFiniteSet(S), NEW f, f = [x \in S |-> f[x]]
    PROVE  LET values == {f[x] : x \in S} IN
           /\ IsFiniteSet(values) /\ Cardinality(values) <= Cardinality(S)
           /\ (\A x, y \in S : f[x] = f[y] => x = y) => Cardinality(values) = Cardinality(S)
<1> DEFINE values == {f[x] : x \in S}
<1>1. f \in Surjection(S, values) BY DEF Surjection
<1>2. (\A x, y \in S : f[x] = f[y] => x = y) => f \in Injection(S, values)
  BY <1>1 DEF Surjection, Injection, IsInjective
<1> QED BY <1>1, <1>2, FS_Surjection

(* The parts of a set that no two keys share add up to the whole.          *)
LEMMA PartsAddUp ==
    ASSUME NEW S, IsFiniteSet(S), NEW f, NEW part,
           \A x \in S : IsFiniteSet(part[x]) /\ f[x] = Cardinality(part[x]),
           \A x, y \in S : x # y => part[x] \cap part[y] = {}
    PROVE  SumOver(f, S) = Cardinality(UNION {part[x] : x \in S})
<1>1. PICK g : IsSum(g, f, S) /\ SumOver(f, S) = g[S] BY SumIs
<1> DEFINE Whole(s) == UNION {part[x] : x \in s}
           Right(s) == IsFiniteSet(Whole(s)) /\ g[s] = Cardinality(Whole(s))
           Wrong == {Cardinality(s) : s \in {s \in SUBSET S : ~Right(s)}}
<1>2. \A s \in SUBSET S : IsFiniteSet(s) /\ Cardinality(s) \in Nat
  BY FS_Subset, FS_CardinalityType
<1>3. \A s \in SUBSET S : g[s] = Added(f, g, s)
  <2>1. g = [s \in SUBSET S |-> Added(f, g, s)] BY <1>1 DEF IsSum
  <2> QED BY <2>1
<1>4. \A s \in SUBSET S : Right(s)
  <2> SUFFICES ASSUME \E s \in SUBSET S : ~Right(s) PROVE FALSE OBVIOUS
  <2>1. Wrong \subseteq Nat /\ Wrong # {}
    <3> HIDE DEF Right
    <3> QED BY <1>2
  <2>2. PICK n \in Wrong : \A j \in Wrong : n <= j BY <2>1, Smallest
  <2>3. PICK s \in SUBSET S : ~Right(s) /\ n = Cardinality(s) BY <2>2
  <2>4. s # {}
    <3> SUFFICES ASSUME s = {} PROVE FALSE OBVIOUS
    <3>1. Whole(s) = {} OBVIOUS
    <3>2. g[s] = 0 BY <1>3 DEF Added
    <3> HIDE DEF Whole
    <3> QED BY <2>3, <3>1, <3>2, FS_EmptySet
  <2> DEFINE x == CHOOSE w \in s : TRUE
             rest == s \ {x}
  <2>5. x \in s BY <2>4
  <2> HIDE DEF x
  <2>6. rest \in SUBSET S /\ Cardinality(rest) = Cardinality(s) - 1
    BY <1>2, <2>5, FS_RemoveElement
  <2>7. Right(rest)
    <3>1. ~(n <= Cardinality(rest)) BY <2>3, <2>6, <1>2
    <3> QED BY <2>2, <2>6, <3>1
  <2>8. g[s] = f[x] + g[rest] BY <1>3, <2>4 DEF Added, x
  <2>9. /\ x \in S /\ IsFiniteSet(part[x]) /\ f[x] = Cardinality(part[x])
        /\ Whole(s) = part[x] \cup Whole(rest)
        /\ part[x] \cap Whole(rest) = {}
    BY <2>5
  <2> HIDE DEF Whole, rest
  <2>10. /\ IsFiniteSet(part[x] \cup Whole(rest))
         /\ Cardinality(part[x] \cup Whole(rest))
              = Cardinality(part[x]) + Cardinality(Whole(rest)) - Cardinality({})
    BY <2>7, <2>9, FS_Union
  <2>11. /\ Cardinality({}) = 0 /\ Cardinality(part[x]) \in Nat
         /\ Cardinality(Whole(rest)) \in Nat
    BY <2>7, <2>9, FS_EmptySet, FS_CardinalityType
  <2> QED BY <2>3, <2>7, <2>8, <2>9, <2>10, <2>11
<1> QED BY <1>1, <1>4

(* A set that is shared out among keys is as large as the shares together. *)
LEMMA SharesAddUp ==
    ASSUME NEW some, IsFiniteSet(some), NEW K, IsFiniteSet(K), NEW share, NEW count,
           \A k \in K : share[k] \subseteq some /\ count[k] = Cardinality(share[k]),
           \A k, l \in K : k # l => share[k] \cap share[l] = {},
           \A x \in some : \E k \in K : x \in share[k]
    PROVE  SumOver(count, K) = Cardinality(some)
<1>1. \A k \in K : IsFiniteSet(share[k]) /\ count[k] = Cardinality(share[k]) BY FS_Subset
<1>2. UNION {share[k] : k \in K} = some OBVIOUS
<1>3. SumOver(count, K) = Cardinality(UNION {share[k] : k \in K}) BY <1>1, PartsAddUp
<1> QED BY <1>2, <1>3

----------------------------------------------------------------------------
(* Rows in an order, and the pages cut out of them.                        *)

(* An order has no ties left.                                              *)
LEMMA OrderIsTotal ==
    ASSUME NEW all, NEW order, IsOrder(order, all), NEW a \in all, NEW b \in all, NEW c \in all
    PROVE  /\ ~Ahead(order, a, a)
           /\ a # b => Ahead(order, a, b) \/ Ahead(order, b, a)
           /\ Ahead(order, a, b) /\ Ahead(order, b, c) => Ahead(order, a, c)
<1>1. /\ order.key[a] \in Int /\ order.key[b] \in Int /\ order.key[c] \in Int
      /\ order.tie[a] \in Int /\ order.tie[b] \in Int /\ order.tie[c] \in Int
      /\ a # b => order.tie[a] # order.tie[b]
  BY DEF IsOrder
<1> QED BY <1>1 DEF Ahead

(* A row's spot is behind all rows with a higher key, and no further than  *)
(* the last row that has its own key.                                      *)
LEMMA SpotIs ==
    ASSUME NEW all, NEW order, IsOrder(order, all),
           NEW some \in SUBSET all, IsFiniteSet(some), NEW e \in some
    PROVE  LET higher == Higher(some, order.key, e)
               notLower == NotLower(some, order.key, e)
           IN
           /\ higher \in Nat /\ notLower \in Nat
           /\ Spot(some, order, e) \in Nat \ {0}
           /\ Spot(some, order, e) <= Cardinality(some)
           /\ higher < Spot(some, order, e) /\ Spot(some, order, e) <= notLower
<1> DEFINE higher == {f \in some : order.key[f] > order.key[e]}
           ahead == {f \in some : Ahead(order, f, e)}
           notLower == {f \in some : order.key[f] >= order.key[e]}
<1>1. \A f \in some : order.key[f] \in Int BY DEF IsOrder
<1>2. /\ higher \subseteq ahead /\ ahead \subseteq notLower \ {e} /\ e \in notLower
      /\ notLower \subseteq some
  <2>1. \A f \in some : f \in ahead => f \in notLower BY <1>1 DEF Ahead
  <2>2. e \notin ahead BY OrderIsTotal
  <2>3. e \in notLower BY <1>1
  <2>4. higher \subseteq ahead BY DEF Ahead
  <2> QED BY <2>1, <2>2, <2>3, <2>4
<1>d. Spot(some, order, e) = Cardinality(ahead) + 1 BY DEF Spot
<1> HIDE DEF higher, ahead, notLower
<1>3. IsFiniteSet(notLower) /\ Cardinality(notLower) <= Cardinality(some) BY <1>2, FS_Subset
<1>4. /\ IsFiniteSet(notLower \ {e})
      /\ Cardinality(notLower \ {e}) = Cardinality(notLower) - 1
  BY <1>2, <1>3, FS_RemoveElement
<1>5. IsFiniteSet(ahead) /\ Cardinality(ahead) <= Cardinality(notLower \ {e})
  BY <1>2, <1>4, FS_Subset
<1>6. IsFiniteSet(higher) /\ Cardinality(higher) <= Cardinality(ahead)
  BY <1>2, <1>5, FS_Subset
<1>7. /\ Cardinality(higher) \in Nat /\ Cardinality(ahead) \in Nat
      /\ Cardinality(notLower) \in Nat /\ Cardinality(some) \in Nat
  BY <1>3, <1>5, <1>6, FS_CardinalityType
<1>8. /\ Cardinality(higher) \in Nat /\ Cardinality(notLower) \in Nat
      /\ Spot(some, order, e) \in Nat \ {0} /\ Spot(some, order, e) <= Cardinality(some)
      /\ Cardinality(higher) < Spot(some, order, e)
      /\ Spot(some, order, e) <= Cardinality(notLower)
  BY <1>d, <1>3, <1>4, <1>5, <1>6, <1>7
<1> QED BY <1>8 DEF higher, notLower, Higher, NotLower

(* No two rows have the same spot.                                         *)
LEMMA SpotsDiffer ==
    ASSUME NEW all, NEW order, IsOrder(order, all),
           NEW some \in SUBSET all, IsFiniteSet(some),
           NEW a \in some, NEW b \in some, Ahead(order, a, b)
    PROVE  Spot(some, order, a) # Spot(some, order, b)
<1> DEFINE Before(e) == {f \in some : Ahead(order, f, e)}
<1>1. Before(a) \subseteq Before(b) /\ a \in Before(b) /\ a \notin Before(a)
  <2>1. \A f \in some : Ahead(order, f, a) => Ahead(order, f, b) BY OrderIsTotal
  <2>2. ~Ahead(order, a, a) BY OrderIsTotal
  <2> QED BY <2>1, <2>2
<1>2. IsFiniteSet(Before(b)) BY FS_Subset
<1>d. Spot(some, order, a) = Cardinality(Before(a)) + 1
      /\ Spot(some, order, b) = Cardinality(Before(b)) + 1
  BY DEF Spot
<1> HIDE DEF Before
<1>3. /\ IsFiniteSet(Before(a)) /\ Cardinality(Before(a)) <= Cardinality(Before(b))
      /\ Cardinality(Before(b)) # Cardinality(Before(a))
  BY <1>1, <1>2, FS_Subset
<1>4. Cardinality(Before(a)) \in Nat /\ Cardinality(Before(b)) \in Nat
  BY <1>2, <1>3, FS_CardinalityType
<1> QED BY <1>d, <1>3, <1>4

(* Every spot up to the number of rows is taken.                           *)
LEMMA SpotsFill ==
    ASSUME NEW all, NEW order, IsOrder(order, all),
           NEW some \in SUBSET all, IsFiniteSet(some)
    PROVE  /\ Cardinality(some) \in Nat
           /\ \A k \in 1..Cardinality(some) : \E e \in some : Spot(some, order, e) = k
<1> DEFINE n == Cardinality(some)
           spot == [e \in some |-> Spot(some, order, e)]
<1>1. n \in Nat BY FS_CardinalityType
<1>2. spot \in [some -> 1..n]
  <2> SUFFICES ASSUME NEW e \in some PROVE Spot(some, order, e) \in 1..n OBVIOUS
  <2>1. Spot(some, order, e) \in Nat \ {0} /\ Spot(some, order, e) <= Cardinality(some)
    BY SpotIs
  <2> QED BY <1>1, <2>1
<1>3. \A a, b \in some : spot[a] = spot[b] => a = b
  <2> SUFFICES ASSUME NEW a \in some, NEW b \in some, a # b PROVE spot[a] # spot[b] OBVIOUS
  <2>1. Ahead(order, a, b) \/ Ahead(order, b, a) BY OrderIsTotal
  <2>2. Spot(some, order, a) # Spot(some, order, b) BY <2>1, SpotsDiffer
  <2> QED BY <2>2
<1>d. \A e \in some : spot[e] = Spot(some, order, e) OBVIOUS
<1> HIDE DEF spot
<1>4. spot \in Injection(some, 1..n) BY <1>2, <1>3 DEF Injection, IsInjective
<1>5. IsFiniteSet(1..n) /\ Cardinality(1..n) = n BY <1>1, FS_Interval
<1>6. spot \in Surjection(some, 1..n)
  <2> HIDE DEF n
  <2>1. Cardinality(some) = n BY DEF n
  <2> QED BY <1>4, <1>5, <2>1, FS_Injection
<1> QED BY <1>1, <1>6, <1>d DEF Surjection

(* The one page a place is on.                                             *)
LEMMA PlaceIsOnOnePage ==
    ASSUME NEW limit \in 1..3, NEW p \in Nat \ {0}, NEW n \in Nat, p <= n
    PROVE  \E page \in 1..(n + 1) : \A other \in 1..(n + 1) :
              ((other - 1) * limit < p /\ p <= other * limit) <=> other = page
<1>1. CASE limit = 1
  <2>1. p \in 1..(n + 1) OBVIOUS
  <2>2. \A other \in 1..(n + 1) :
            ((other - 1) * limit < p /\ p <= other * limit) <=> other = p
    BY <1>1
  <2> QED BY <2>1, <2>2
<1>2. CASE limit = 2
  <2> DEFINE page == (p + 1) \div 2
  <2>1. page \in Int /\ 2 * page <= p + 1 /\ p + 1 < 2 * page + 2 OBVIOUS
  <2> HIDE DEF page
  <2>2. page \in 1..(n + 1) BY <2>1
  <2>3. \A other \in 1..(n + 1) :
            ((other - 1) * limit < p /\ p <= other * limit) <=> other = page
    BY <1>2, <2>1
  <2> QED BY <2>2, <2>3
<1>3. CASE limit = 3
  <2> DEFINE page == (p + 2) \div 3
  <2>1. page \in Int /\ 3 * page <= p + 2 /\ p + 2 < 3 * page + 3 OBVIOUS
  <2> HIDE DEF page
  <2>2. page \in 1..(n + 1) BY <2>1
  <2>3. \A other \in 1..(n + 1) :
            ((other - 1) * limit < p /\ p <= other * limit) <=> other = page
    BY <1>3, <2>1
  <2> QED BY <2>2, <2>3
<1> QED BY <1>1, <1>2, <1>3

(* The pages cut out of some rows, filtered or not, show each row that is  *)
(* wanted on one page, and not elsewhere than its key says.                *)
LEMMA PagesTurned ==
    ASSUME NEW all, NEW order, IsOrder(order, all),
           NEW some \in SUBSET all, IsFiniteSet(some), NEW wanted \in SUBSET some,
           NEW limit \in 1..2, NEW n \in Nat, Cardinality(some) <= n, NEW pages,
           DOMAIN pages = 1..(n + 1),
           \A k \in 1..(n + 1) :
               pages[k] = {e \in wanted : e \in PageIn(some, order, k, limit)}
    PROVE  /\ EachOnOnePage(pages, wanted)
           /\ ByTheirKeys(pages, wanted, some, order.key, limit)
<1>1. ASSUME NEW k \in 1..(n + 1), NEW e \in wanted
      PROVE  e \in pages[k]
                 <=> (k - 1) * limit < Spot(some, order, e) /\ Spot(some, order, e) <= k * limit
  <2>1. (k - 1) * limit + limit = k * limit
    <3>1. CASE limit = 1 BY <3>1
    <3>2. CASE limit = 2 BY <3>2
    <3> QED BY <3>1, <3>2
  <2> QED BY <2>1 DEF PageIn, Cut
<1>2. ASSUME NEW e \in wanted PROVE Cardinality({k \in DOMAIN pages : e \in pages[k]}) = 1
  <2> DEFINE p == Spot(some, order, e)
  <2>1. p \in Nat \ {0} /\ p <= n
    <3>1. p \in Nat \ {0} /\ p <= Cardinality(some) BY SpotIs
    <3>2. Cardinality(some) \in Nat BY FS_CardinalityType
    <3> QED BY <3>1, <3>2
  <2> HIDE DEF p
  <2>3. limit \in 1..3 OBVIOUS
  <2>2. PICK page \in 1..(n + 1) : \A other \in 1..(n + 1) :
            ((other - 1) * limit < p /\ p <= other * limit) <=> other = page
    BY ONLY <2>1, <2>3, n \in Nat, PlaceIsOnOnePage
  <2>4. {k \in DOMAIN pages : e \in pages[k]} = {page} BY <1>1, <2>2 DEF p
  <2> QED BY <2>4, FS_Singleton
<1>3. ASSUME NEW k \in 1..(n + 1), NEW e \in wanted
      PROVE  LET higher == Higher(some, order.key, e)
                 notLower == NotLower(some, order.key, e)
             IN
             /\ e \in pages[k] => higher < k * limit /\ (k - 1) * limit < notLower
             /\ (k - 1) * limit <= higher /\ notLower <= k * limit => e \in pages[k]
  <2> DEFINE higher == Higher(some, order.key, e)
             notLower == NotLower(some, order.key, e)
             p == Spot(some, order, e)
             first == (k - 1) * limit
             last == k * limit
  <2>1. /\ higher \in Nat /\ notLower \in Nat /\ p \in Nat
        /\ higher < p /\ p <= notLower
    <3>1. e \in some OBVIOUS
    <3> QED BY <3>1, SpotIs
  <2>2. first \in Int /\ last \in Int OBVIOUS
  <2>3. e \in pages[k] <=> first < p /\ p <= last BY <1>1
  <2> HIDE DEF higher, notLower, p, first, last
  <2>4. /\ e \in pages[k] => higher < last /\ first < notLower
        /\ first <= higher /\ notLower <= last => e \in pages[k]
    BY <2>1, <2>2, <2>3
  <2> QED BY <2>4 DEF higher, notLower, first, last
<1>4. \A k \in DOMAIN pages : pages[k] \subseteq wanted OBVIOUS
<1> QED BY <1>2, <1>3, <1>4 DEF EachOnOnePage, ByTheirKeys

(* A page that is not full is the last one, and only nothing has an empty  *)
(* first page.                                                             *)
LEMMA PagesFill ==
    ASSUME NEW all, NEW order, IsOrder(order, all),
           NEW some \in SUBSET all, IsFiniteSet(some), NEW limit \in 1..2
    PROVE  /\ some # {} => PageIn(some, order, 1, limit) # {}
           /\ \A n \in Nat \ {0} : Cardinality(PageIn(some, order, n, limit)) < limit
                                     => PageIn(some, order, n + 1, limit) = {}
<1> DEFINE size == Cardinality(some)
           spot(e) == Spot(some, order, e)
<1>1. size \in Nat /\ \A k \in 1..size : \E e \in some : spot(e) = k BY SpotsFill
<1>2. \A e \in some : spot(e) \in Nat \ {0} /\ spot(e) <= size BY SpotIs
<1>3. \A n \in Nat : PageIn(some, order, n, limit)
                       = {e \in some : (n - 1) * limit < spot(e) /\ spot(e) <= (n - 1) * limit + limit}
  BY DEF PageIn, Cut
<1> HIDE DEF size, spot
<1>4. some # {} => PageIn(some, order, 1, limit) # {}
  <2> SUFFICES ASSUME some # {} PROVE PageIn(some, order, 1, limit) # {} OBVIOUS
  <2>1. size >= 1 BY <1>1, <1>2
  <2>2. PICK e \in some : spot(e) = 1 BY <1>1, <2>1
  <2>3. (1 - 1) * limit = 0 OBVIOUS
  <2>4. e \in PageIn(some, order, 1, limit) BY <1>3, <2>2, <2>3
  <2> QED BY <2>4
<1>5. ASSUME NEW n \in Nat \ {0}, NEW x \in PageIn(some, order, n + 1, limit)
      PROVE  Cardinality(PageIn(some, order, n, limit)) >= limit
  <2> DEFINE skip == (n - 1) * limit
             page == PageIn(some, order, n, limit)
  <2>1. skip \in Nat /\ (n + 1 - 1) * limit = skip + limit
    <3>1. CASE limit = 1 BY <3>1
    <3>2. CASE limit = 2 BY <3>2
    <3> QED BY <3>1, <3>2
  <2>2. n \in Nat /\ n + 1 \in Nat OBVIOUS
  <2>3. page = {e \in some : skip < spot(e) /\ spot(e) <= skip + limit} BY <1>3, <2>2
  <2>4. x \in some /\ skip + limit < spot(x) BY <1>3, <2>1, <2>2
  <2> HIDE DEF skip, page
  <2>5. skip + limit < size BY <1>1, <1>2, <2>1, <2>4
  <2>6. IsFiniteSet(page) /\ Cardinality(page) \in Nat BY <2>3, FS_Subset, FS_CardinalityType
  <2>7. PICK a \in some : spot(a) = skip + 1 BY <1>1, <2>1, <2>5
  <2>8. PICK b \in some : spot(b) = skip + limit BY <1>1, <2>1, <2>5
  <2>9. {a, b} \subseteq page BY <2>1, <2>3, <2>7, <2>8
  <2>10. Cardinality({a, b}) <= Cardinality(page) BY <2>6, <2>9, FS_Subset
  <2>11. CASE limit = 1
    <3>1. Cardinality({a}) = 1 BY FS_Singleton
    <3>2. IsFiniteSet({a}) /\ Cardinality({a}) <= Cardinality(page) BY <2>6, <2>9, FS_Subset
    <3>3. Cardinality(page) >= limit BY <2>6, <2>11, <3>1, <3>2
    <3> QED BY <3>3 DEF page
  <2>12. CASE limit = 2
    <3>1. a # b BY <2>1, <2>7, <2>8, <2>12
    <3>2. IsFiniteSet({a}) /\ Cardinality({a}) = 1 BY FS_Singleton
    <3>3. Cardinality({a} \cup {b}) = Cardinality({a}) + 1 BY <3>1, <3>2, FS_AddElement
    <3>4. {a, b} = {a} \cup {b} OBVIOUS
    <3>5. Cardinality(page) >= limit BY <2>6, <2>10, <2>12, <3>2, <3>3, <3>4
    <3> QED BY <3>5 DEF page
  <2> QED BY <2>11, <2>12
<1>6. ASSUME NEW n \in Nat \ {0}, Cardinality(PageIn(some, order, n, limit)) < limit
      PROVE  PageIn(some, order, n + 1, limit) = {}
  <2>1. PageIn(some, order, n, limit) \subseteq some BY DEF PageIn, Cut
  <2>2. Cardinality(PageIn(some, order, n, limit)) \in Nat
    BY <2>1, FS_Subset, FS_CardinalityType
  <2> QED BY <1>5, <1>6, <2>2
<1> QED BY <1>4, <1>6

============================================================================
