-------------------------- MODULE AllocationProofs --------------------------
(***************************************************************************)
(* What a plan of Allocation is, for any number of workers and any         *)
(* capacities: it places the request in full, gives no worker more than it *)
(* has free, and is even; and the theory of finite sums, maxima and minima *)
(* that this and the proofs about the ocean and its numbers rest on.       *)
(*                                                                         *)
(* A sum is a fold, that is, a recursive function on subsets.  What would  *)
(* be proved of it by induction on the set is proved by taking a smallest  *)
(* subset for which it fails: strict inclusion is well founded on the      *)
(* subsets of a finite set.                                                *)
(***************************************************************************)
EXTENDS Allocation, FiniteSetTheorems, WellFoundedInduction, TLAPS

\* A non-empty collection of subsets of a finite set has a member that
\* strictly includes no other.
LEMMA MinimalSubset ==
    ASSUME NEW S, IsFiniteSet(S), NEW C \in SUBSET (SUBSET S), C # {}
    PROVE  \E X \in C : \A Y \in C : Y \subseteq X => Y = X
<1>1. IsWellFoundedOn(StrictSubsetOrdering(S), SUBSET S)
  BY FS_StrictSubsetOrderingWellFounded, FS_FiniteSubsetsOfFinite
<1>2. PICK X \in C : \A Y \in C : ~(<<Y, X>> \in StrictSubsetOrdering(S))
  BY <1>1, WFMin
<1>3. \A Y \in C : Y \subseteq X => Y = X
  BY <1>2 DEF StrictSubsetOrdering
<1> QED BY <1>3

\* A non-empty finite set has a maximal element for any strict order R: one
\* above which there is a smallest set of others.
LEMMA MaximalElement ==
    ASSUME NEW S, IsFiniteSet(S), S # {}, NEW R,
           \A x \in S : <<x, x>> \notin R,
           \A x, y, z \in S : <<x, y>> \in R /\ <<y, z>> \in R => <<x, z>> \in R
    PROVE  \E x \in S : \A y \in S : <<x, y>> \notin R
<1> DEFINE Above(x) == {y \in S : <<x, y>> \in R}
           C        == {Above(x) : x \in S}
<1>1. PICK X \in C : \A Y \in C : Y \subseteq X => Y = X
  <2>1. C \in SUBSET (SUBSET S)
    OBVIOUS
  <2>2. C # {}
    <3>1. PICK x \in S : TRUE
      OBVIOUS
    <3>2. Above(x) \in C
      OBVIOUS
    <3> HIDE DEF C
    <3> QED BY <3>2
  <2> HIDE DEF C
  <2> QED BY <2>1, <2>2, MinimalSubset
<1>2. PICK x \in S : X = Above(x)
  OBVIOUS
<1>3. ASSUME NEW y \in S, <<x, y>> \in R PROVE FALSE
  <2>1. Above(y) \in C
    OBVIOUS
  <2>2. Above(y) \subseteq X
    BY <1>2, <1>3
  <2>3. y \in X /\ y \notin Above(y)
    BY <1>2, <1>3
  <2> QED BY <1>1, <2>1, <2>2, <2>3
<1> QED BY <1>3

\* A non-empty finite set of numbers has a greatest one, and Max returns it.
LEMMA GreatestExists ==
    ASSUME NEW S \in SUBSET Nat, IsFiniteSet(S), S # {}
    PROVE  Max(S) \in S /\ \A y \in S : Max(S) >= y
<1> DEFINE R == {p \in Nat \X Nat : p[1] < p[2]}
<1>1. \A x \in S : <<x, x>> \notin R
  OBVIOUS
<1>2. \A x, y, z \in S : <<x, y>> \in R /\ <<y, z>> \in R => <<x, z>> \in R
  OBVIOUS
<1>3. PICK x \in S : \A y \in S : <<x, y>> \notin R
  <2> HIDE DEF R
  <2> QED BY <1>1, <1>2, MaximalElement
<1>4. ASSUME NEW y \in S PROVE x >= y
  <2>1. x \in Nat /\ y \in Nat
    OBVIOUS
  <2>2. ~(x < y)
    BY <1>3, <2>1
  <2> QED BY <2>1, <2>2
<1> QED BY <1>4 DEF Max

\* A non-empty finite set of numbers has a smallest one, and Min returns it.
LEMMA LeastExists ==
    ASSUME NEW S \in SUBSET Nat, IsFiniteSet(S), S # {}
    PROVE  Min(S) \in S /\ \A y \in S : Min(S) <= y
<1> DEFINE R == {p \in Nat \X Nat : p[2] < p[1]}
<1>1. \A x \in S : <<x, x>> \notin R
  OBVIOUS
<1>2. \A x, y, z \in S : <<x, y>> \in R /\ <<y, z>> \in R => <<x, z>> \in R
  OBVIOUS
<1>3. PICK x \in S : \A y \in S : <<x, y>> \notin R
  <2> HIDE DEF R
  <2> QED BY <1>1, <1>2, MaximalElement
<1>4. ASSUME NEW y \in S PROVE x <= y
  <2>1. x \in Nat /\ y \in Nat
    OBVIOUS
  <2>2. ~(y < x)
    BY <1>3, <2>1
  <2> QED BY <2>1, <2>2
<1> QED BY <1>4 DEF Min

-----------------------------------------------------------------------------
(* Sums.  SumFunctionOnSet is a fold, that is, a recursive function on the *)
(* subsets of its domain.                                                  *)

Picked(s) == CHOOSE x \in s : TRUE

\* g is that recursive function for f on the subsets of S.
SumsUp(g, f, S) ==
    g = [s \in SUBSET S |-> IF s = {} THEN 0 ELSE f[Picked(s)] + g[s \ {Picked(s)}]]

\* The sum is what some such function says of the whole domain.
LEMMA SumIsChosen ==
    ASSUME NEW f, NEW S
    PROVE  SumFunctionOnSet(f, S) = (CHOOSE g : SumsUp(g, f, S))[S]
BY DEF SumFunctionOnSet, FoldFunctionOnSet, MapThenFoldSet, SumsUp, Picked

\* The element picked is one of the set.
LEMMA PickedIsMember == \A s : s # {} => Picked(s) \in s
BY DEF Picked

\* Such a function, at one subset.
LEMMA SumsUpAt ==
    ASSUME NEW f, NEW S, NEW g, SumsUp(g, f, S), NEW s \in SUBSET S
    PROVE  g[s] = IF s = {} THEN 0 ELSE f[Picked(s)] + g[s \ {Picked(s)}]
<1> DEFINE Body(t) == IF t = {} THEN 0 ELSE f[Picked(t)] + g[t \ {Picked(t)}]
<1>1. g = [t \in SUBSET S |-> Body(t)]
  BY DEF SumsUp
<1> HIDE DEF Body
<1>2. g[s] = Body(s)
  BY <1>1
<1> QED BY <1>2 DEF Body

\* Two such functions agree wherever both are defined.
LEMMA SumsAgree ==
    ASSUME NEW f, NEW S, NEW T, IsFiniteSet(S), T \subseteq S,
           NEW g, SumsUp(g, f, S), NEW h, SumsUp(h, f, T)
    PROVE  g[T] = h[T]
<1> DEFINE C == {s \in SUBSET T : g[s] # h[s]}
<1>1. SUFFICES ASSUME C # {} PROVE FALSE
  OBVIOUS
<1>2. IsFiniteSet(T)
  BY FS_Subset
<1>3. PICK X \in C : \A Y \in C : Y \subseteq X => Y = X
  <2>1. C \in SUBSET (SUBSET T)
    OBVIOUS
  <2> HIDE DEF C
  <2> QED BY <1>1, <1>2, <2>1, MinimalSubset
<1>4. X \in SUBSET T /\ X \in SUBSET S /\ g[X] # h[X]
  OBVIOUS
<1>5. X # {}
  BY <1>4, SumsUpAt
<1> DEFINE Y == X \ {Picked(X)}
<1>6. Picked(X) \in X
  BY <1>5, PickedIsMember
<1>7. Y \notin C /\ Y \in SUBSET T
  BY <1>3, <1>4, <1>6
<1>8. g[X] = f[Picked(X)] + g[Y] /\ h[X] = f[Picked(X)] + h[Y]
  BY <1>4, <1>5, SumsUpAt
<1> QED BY <1>4, <1>7, <1>8

\* There is such a function: it is the sum for a smaller set, extended by one.
LEMMA SumsExist ==
    ASSUME NEW f, NEW S, IsFiniteSet(S)
    PROVE  \E g : SumsUp(g, f, S)
<1> DEFINE C == {s \in SUBSET S : ~ \E g : SumsUp(g, f, s)}
<1>1. SUFFICES ASSUME C # {} PROVE FALSE
  OBVIOUS
<1>2. PICK X \in C : \A Y \in C : Y \subseteq X => Y = X
  <2>1. C \in SUBSET (SUBSET S)
    OBVIOUS
  <2> HIDE DEF C
  <2> QED BY <1>1, <2>1, MinimalSubset
<1>3. X \in SUBSET S /\ ~ \E g : SumsUp(g, f, X)
  OBVIOUS
<1> DEFINE Fun(s) == CHOOSE g : SumsUp(g, f, s)
           Below  == [s \in SUBSET X |-> IF s = X THEN 0 ELSE Fun(s)[s]]
           Body(t, g) == IF t = {} THEN 0 ELSE f[Picked(t)] + g[t \ {Picked(t)}]
           G      == [s \in SUBSET X |-> Body(s, Below)]
<1>4. ASSUME NEW s \in SUBSET X, s # X PROVE SumsUp(Fun(s), f, s)
  <2>1. s \notin C /\ s \in SUBSET S
    BY <1>2, <1>3, <1>4
  <2>2. \E g : SumsUp(g, f, s)
    BY <2>1
  <2> QED BY <2>2
<1>5. ASSUME NEW s \in SUBSET X, s # X PROVE G[s] = Below[s]
  <2>1. G[s] = Body(s, Below)
    OBVIOUS
  <2>2. Below[s] = Fun(s)[s]
    BY <1>5
  <2>3. SumsUp(Fun(s), f, s)
    BY <1>4, <1>5
  <2> HIDE DEF Fun, Below, G
  <2>4. Fun(s)[s] = Body(s, Fun(s))
    BY <2>3, SumsUpAt
  <2>5. CASE s = {}
    BY <2>1, <2>2, <2>4, <2>5
  <2>6. CASE s # {}
    <3> DEFINE t == s \ {Picked(s)}
    <3>1. Picked(s) \in s
      BY <2>6, PickedIsMember
    <3>2. t \in SUBSET X /\ t # X /\ t \subseteq s
      BY <3>1
    <3>3. Below[t] = Fun(t)[t]
      BY <3>2 DEF Below
    <3>4. SumsUp(Fun(t), f, t)
      BY <3>2, <1>4
    <3>5. IsFiniteSet(s)
      BY <1>3, FS_Subset
    <3> HIDE DEF t
    <3>6. Fun(s)[t] = Fun(t)[t]
      BY <3>2, <3>4, <3>5, <2>3, SumsAgree
    <3>7. Body(s, Below) = f[Picked(s)] + Below[t] /\ Body(s, Fun(s)) = f[Picked(s)] + Fun(s)[t]
      BY <2>6 DEF t
    <3> QED BY <2>1, <2>2, <2>4, <3>3, <3>6, <3>7
  <2> QED BY <2>5, <2>6
<1>6. ASSUME NEW s \in SUBSET X PROVE Body(s, Below) = Body(s, G)
  <2>1. CASE s = {}
    BY <2>1
  <2>2. CASE s # {}
    <3>1. Picked(s) \in s
      BY <2>2, PickedIsMember
    <3>2. s \ {Picked(s)} \in SUBSET X /\ s \ {Picked(s)} # X
      BY <3>1
    <3>3. G[s \ {Picked(s)}] = Below[s \ {Picked(s)}]
      BY <3>2, <1>5
    <3> HIDE DEF G, Below
    <3> QED BY <2>2, <3>3
  <2> QED BY <2>1, <2>2
<1>7. SumsUp(G, f, X)
  <2>1. G = [s \in SUBSET X |-> Body(s, G)]
    <3>1. G = [s \in SUBSET X |-> Body(s, Below)]
      OBVIOUS
    <3> HIDE DEF G, Body, Below
    <3> QED BY <3>1, <1>6
  <2> HIDE DEF G
  <2> QED BY <2>1 DEF SumsUp
<1> QED BY <1>3, <1>7

\* The sum over nothing is 0, ...
LEMMA SumOfNone == ASSUME NEW f PROVE SumFunctionOnSet(f, {}) = 0
<1> DEFINE g == CHOOSE g : SumsUp(g, f, {})
<1>1. SumsUp(g, f, {})
  BY FS_EmptySet, SumsExist
<1> HIDE DEF g
<1>2. g[{}] = 0
  BY <1>1, SumsUpAt
<1> QED BY <1>2, SumIsChosen DEF g

\* ... and over something it is had by taking out the element that is picked.
LEMMA SumOfPicked ==
    ASSUME NEW f, NEW S, IsFiniteSet(S), S # {}
    PROVE  SumFunctionOnSet(f, S) = f[Picked(S)] + SumFunctionOnSet(f, S \ {Picked(S)})
<1> DEFINE T == S \ {Picked(S)}
           g == CHOOSE g : SumsUp(g, f, S)
           h == CHOOSE h : SumsUp(h, f, T)
<1>1. T \subseteq S /\ IsFiniteSet(T)
  BY FS_Subset
<1>2. SumsUp(g, f, S)
  BY SumsExist
<1>3. SumsUp(h, f, T)
  <2> HIDE DEF T
  <2> QED BY <1>1, SumsExist
<1>4. SumFunctionOnSet(f, S) = g[S] /\ SumFunctionOnSet(f, T) = h[T]
  <2> HIDE DEF T
  <2> QED BY SumIsChosen
<1> HIDE DEF g, h
<1>5. g[S] = f[Picked(S)] + g[T]
  BY <1>2, SumsUpAt
<1>6. g[T] = h[T]
  <2> HIDE DEF T
  <2> QED BY <1>1, <1>2, <1>3, SumsAgree
<1> QED BY <1>4, <1>5, <1>6

\* A sum of natural numbers is one.
LEMMA SumType ==
    ASSUME NEW S, IsFiniteSet(S), NEW f, \A x \in S : f[x] \in Nat
    PROVE  SumFunctionOnSet(f, S) \in Nat
<1> DEFINE C == {s \in SUBSET S : SumFunctionOnSet(f, s) \notin Nat}
<1>1. SUFFICES ASSUME C # {} PROVE FALSE
  OBVIOUS
<1>2. PICK X \in C : \A Y \in C : Y \subseteq X => Y = X
  <2>1. C \in SUBSET (SUBSET S)
    OBVIOUS
  <2> HIDE DEF C
  <2> QED BY <1>1, <2>1, MinimalSubset
<1>3. X \in SUBSET S /\ IsFiniteSet(X) /\ SumFunctionOnSet(f, X) \notin Nat
  BY FS_Subset
<1>4. X # {}
  BY <1>3, SumOfNone
<1> DEFINE Y == X \ {Picked(X)}
<1>5. Picked(X) \in X
  BY <1>4, PickedIsMember
<1>6. SumFunctionOnSet(f, Y) \in Nat
  BY <1>2, <1>3, <1>5
<1>7. SumFunctionOnSet(f, X) = f[Picked(X)] + SumFunctionOnSet(f, Y)
  BY <1>3, <1>4, SumOfPicked
<1> QED BY <1>3, <1>5, <1>6, <1>7

\* Any member may be the one that is added last.
LEMMA SumSplits ==
    ASSUME NEW S, IsFiniteSet(S), NEW f, \A x \in S : f[x] \in Nat, NEW y \in S
    PROVE  SumFunctionOnSet(f, S) = f[y] + SumFunctionOnSet(f, S \ {y})
<1> DEFINE Sum(s) == SumFunctionOnSet(f, s)
           C == {s \in SUBSET S : \E z \in s : Sum(s) # f[z] + Sum(s \ {z})}
<1>1. SUFFICES ASSUME C # {} PROVE FALSE
  <2>1. S \in SUBSET S
    OBVIOUS
  <2> HIDE DEF Sum
  <2> QED BY <2>1 DEF Sum
<1>2. PICK X \in C : \A Y \in C : Y \subseteq X => Y = X
  <2>1. C \in SUBSET (SUBSET S)
    OBVIOUS
  <2> HIDE DEF C
  <2> QED BY <1>1, <2>1, MinimalSubset
<1>3. PICK z \in X : Sum(X) # f[z] + Sum(X \ {z})
  OBVIOUS
<1>4. \A s \in SUBSET S : IsFiniteSet(s) /\ Sum(s) \in Nat
  <2> TAKE s \in SUBSET S
  <2>1. IsFiniteSet(s)
    BY FS_Subset
  <2> QED BY <2>1, SumType
<1> DEFINE x == Picked(X)
<1>5. x \in X /\ Sum(X) = f[x] + Sum(X \ {x})
  BY <1>3, <1>4, PickedIsMember, SumOfPicked
<1> HIDE DEF Sum, x
<1>6. x # z /\ X \in SUBSET S
  BY <1>3, <1>5
<1> DEFINE R == X \ {x, z}
<1>7. Sum(X \ {x}) = f[z] + Sum(R)
  <2>1. X \ {x} \notin C /\ z \in X \ {x} /\ X \ {x} \in SUBSET S
    BY <1>2, <1>3, <1>5, <1>6
  <2>2. (X \ {x}) \ {z} = R
    OBVIOUS
  <2> QED BY <2>1, <2>2
<1>8. Sum(X \ {z}) = f[x] + Sum(R)
  <2>1. X \ {z} \notin C /\ x \in X \ {z} /\ X \ {z} \in SUBSET S
    BY <1>2, <1>3, <1>5, <1>6
  <2>2. (X \ {z}) \ {x} = R
    OBVIOUS
  <2> QED BY <2>1, <2>2
<1>9. R \in SUBSET S /\ f[x] \in Nat /\ f[z] \in Nat
  BY <1>3, <1>5, <1>6
<1> HIDE DEF R
<1> QED BY <1>3, <1>4, <1>5, <1>7, <1>8, <1>9

\* Only the values on the set count.
LEMMA SumDepends ==
    ASSUME NEW S, IsFiniteSet(S), NEW f, NEW g, \A x \in S : f[x] = g[x]
    PROVE  SumFunctionOnSet(f, S) = SumFunctionOnSet(g, S)
<1> DEFINE C == {s \in SUBSET S : SumFunctionOnSet(f, s) # SumFunctionOnSet(g, s)}
<1>1. SUFFICES ASSUME C # {} PROVE FALSE
  OBVIOUS
<1>2. PICK X \in C : \A Y \in C : Y \subseteq X => Y = X
  <2>1. C \in SUBSET (SUBSET S)
    OBVIOUS
  <2> HIDE DEF C
  <2> QED BY <1>1, <2>1, MinimalSubset
<1>3. X # {} /\ X \in SUBSET S /\ IsFiniteSet(X)
  BY SumOfNone, FS_Subset
<1> DEFINE Y == X \ {Picked(X)}
<1>4. Picked(X) \in X
  BY <1>3, PickedIsMember
<1>5. SumFunctionOnSet(f, Y) = SumFunctionOnSet(g, Y)
  BY <1>2, <1>3, <1>4
<1>6. /\ SumFunctionOnSet(f, X) = f[Picked(X)] + SumFunctionOnSet(f, Y)
      /\ SumFunctionOnSet(g, X) = g[Picked(X)] + SumFunctionOnSet(g, Y)
  BY <1>3, SumOfPicked
<1> QED BY <1>3, <1>4, <1>5, <1>6

\* The sums of a sum.
LEMMA SumOfSums ==
    ASSUME NEW S, IsFiniteSet(S), NEW f, NEW g, NEW h,
           \A x \in S : f[x] \in Nat /\ g[x] \in Nat /\ h[x] = f[x] + g[x]
    PROVE  SumFunctionOnSet(h, S) = SumFunctionOnSet(f, S) + SumFunctionOnSet(g, S)
<1> DEFINE C == {s \in SUBSET S : SumFunctionOnSet(h, s)
                                    # SumFunctionOnSet(f, s) + SumFunctionOnSet(g, s)}
<1>1. SUFFICES ASSUME C # {} PROVE FALSE
  OBVIOUS
<1>2. PICK X \in C : \A Y \in C : Y \subseteq X => Y = X
  <2>1. C \in SUBSET (SUBSET S)
    OBVIOUS
  <2> HIDE DEF C
  <2> QED BY <1>1, <2>1, MinimalSubset
<1>3. /\ X \in SUBSET S /\ IsFiniteSet(X)
      /\ SumFunctionOnSet(h, X) # SumFunctionOnSet(f, X) + SumFunctionOnSet(g, X)
  BY FS_Subset
<1>4. X # {}
  <2>1. /\ SumFunctionOnSet(f, {}) = 0
        /\ SumFunctionOnSet(g, {}) = 0
        /\ SumFunctionOnSet(h, {}) = 0
    BY SumOfNone
  <2> QED BY <1>3, <2>1
<1> DEFINE Y == X \ {Picked(X)}
<1>5. Picked(X) \in X
  BY <1>4, PickedIsMember
<1>6. SumFunctionOnSet(h, Y) = SumFunctionOnSet(f, Y) + SumFunctionOnSet(g, Y)
  BY <1>2, <1>3, <1>5
<1>7. SumFunctionOnSet(f, Y) \in Nat /\ SumFunctionOnSet(g, Y) \in Nat
  <2>1. IsFiniteSet(Y) /\ Y \subseteq S
    BY <1>3, FS_Subset
  <2> HIDE DEF Y
  <2> QED BY <2>1, SumType
<1>8. /\ SumFunctionOnSet(f, X) = f[Picked(X)] + SumFunctionOnSet(f, Y)
      /\ SumFunctionOnSet(g, X) = g[Picked(X)] + SumFunctionOnSet(g, Y)
      /\ SumFunctionOnSet(h, X) = h[Picked(X)] + SumFunctionOnSet(h, Y)
  BY <1>3, <1>4, SumOfPicked
<1>9. /\ f[Picked(X)] \in Nat /\ g[Picked(X)] \in Nat
      /\ h[Picked(X)] = f[Picked(X)] + g[Picked(X)]
      /\ SumFunctionOnSet(h, X) # SumFunctionOnSet(f, X) + SumFunctionOnSet(g, X)
  BY <1>3, <1>5
<1> HIDE DEF Y
<1> QED BY <1>6, <1>7, <1>8, <1>9

\* Ones on A, and zeros elsewhere, count the members in A.
LEMMA SumOfOnes ==
    ASSUME NEW S, IsFiniteSet(S), NEW A, NEW f, \A x \in S : f[x] = IF x \in A THEN 1 ELSE 0
    PROVE  SumFunctionOnSet(f, S) = Cardinality(S \cap A)
<1> DEFINE C == {s \in SUBSET S : SumFunctionOnSet(f, s) # Cardinality(s \cap A)}
<1>1. SUFFICES ASSUME C # {} PROVE FALSE
  OBVIOUS
<1>2. PICK X \in C : \A Y \in C : Y \subseteq X => Y = X
  <2>1. C \in SUBSET (SUBSET S)
    OBVIOUS
  <2> HIDE DEF C
  <2> QED BY <1>1, <2>1, MinimalSubset
<1>3. X \in SUBSET S /\ IsFiniteSet(X) /\ SumFunctionOnSet(f, X) # Cardinality(X \cap A)
  BY FS_Subset
<1>4. X # {}
  BY <1>3, SumOfNone, FS_EmptySet
<1> DEFINE x == Picked(X)
           Y == X \ {x}
<1>5. x \in X
  BY <1>4, PickedIsMember
<1>6. SumFunctionOnSet(f, Y) = Cardinality(Y \cap A)
  BY <1>2, <1>3, <1>5
<1>7. SumFunctionOnSet(f, X) = f[x] + SumFunctionOnSet(f, Y)
  BY <1>3, <1>4, SumOfPicked
<1>8. IsFiniteSet(X \cap A) /\ Cardinality(X \cap A) \in Nat
  BY <1>3, FS_Subset, FS_CardinalityType
<1>9. CASE x \in A
  <2>1. Y \cap A = (X \cap A) \ {x} /\ x \in X \cap A /\ f[x] = 1
    BY <1>3, <1>5, <1>9
  <2> HIDE DEF x, Y
  <2>2. Cardinality((X \cap A) \ {x}) = Cardinality(X \cap A) - 1
    BY <1>8, <2>1, FS_RemoveElement
  <2>3. Cardinality(Y \cap A) = Cardinality(X \cap A) - 1
    BY <2>1, <2>2
  <2> QED BY <1>3, <1>6, <1>7, <1>8, <2>1, <2>3
<1>10. CASE x \notin A
  <2>1. Y \cap A = X \cap A /\ f[x] = 0
    BY <1>3, <1>5, <1>10
  <2> HIDE DEF x, Y
  <2> QED BY <1>3, <1>6, <1>7, <1>8, <2>1
<1> QED BY <1>9, <1>10

\* The same facts about Total.
LEMMA TotalType ==
    ASSUME NEW D, IsFiniteSet(D), NEW f \in [D -> Nat]
    PROVE  Total(f) \in Nat /\ \A x \in D : f[x] <= Total(f)
<1>1. Total(f) = SumFunctionOnSet(f, D)
  BY DEF Total, SumFunction
<1>2. Total(f) \in Nat
  BY <1>1, SumType
<1>3. ASSUME NEW x \in D PROVE f[x] <= Total(f)
  <2>1. SumFunctionOnSet(f, D) = f[x] + SumFunctionOnSet(f, D \ {x})
    BY SumSplits
  <2>2. SumFunctionOnSet(f, D \ {x}) \in Nat
    <3>1. IsFiniteSet(D \ {x})
      BY FS_Subset
    <3> QED BY <3>1, SumType
  <2> QED BY <1>1, <2>1, <2>2
<1> QED BY <1>2, <1>3

\* The total of sums is the sum of the totals.
LEMMA TotalOfSums ==
    ASSUME NEW D, IsFiniteSet(D), NEW f \in [D -> Nat], NEW g \in [D -> Nat]
    PROVE  Total([x \in D |-> f[x] + g[x]]) = Total(f) + Total(g)
<1> DEFINE h == [x \in D |-> f[x] + g[x]]
<1>1. \A x \in D : f[x] \in Nat /\ g[x] \in Nat /\ h[x] = f[x] + g[x]
  OBVIOUS
<1>2. DOMAIN f = D /\ DOMAIN g = D /\ DOMAIN h = D
  OBVIOUS
<1> HIDE DEF h
<1>3. SumFunctionOnSet(h, D) = SumFunctionOnSet(f, D) + SumFunctionOnSet(g, D)
  BY <1>1, SumOfSums
<1> QED BY <1>2, <1>3 DEF Total, SumFunction, h

\* More for one and no less for the others is more in total.
LEMMA TotalMonotone ==
    ASSUME NEW D, IsFiniteSet(D), NEW f \in [D -> Nat], NEW g \in [D -> Nat],
           \A x \in D : f[x] <= g[x]
    PROVE  /\ Total(f) <= Total(g)
           /\ (\E x \in D : f[x] < g[x]) => Total(f) < Total(g)
<1> DEFINE d == [x \in D |-> g[x] - f[x]]
<1>1. d \in [D -> Nat]
  OBVIOUS
<1>2. g = [x \in D |-> f[x] + d[x]]
  OBVIOUS
<1>3. d = [x \in D |-> g[x] - f[x]]
  OBVIOUS
<1> HIDE DEF d
<1>4. Total(g) = Total(f) + Total(d)
  BY <1>1, <1>2, TotalOfSums
<1>5. Total(f) \in Nat /\ Total(d) \in Nat /\ \A x \in D : d[x] <= Total(d)
  BY <1>1, TotalType
<1>6. ASSUME NEW x \in D, f[x] < g[x] PROVE Total(f) < Total(g)
  <2>1. d[x] > 0 /\ d[x] <= Total(d) /\ d[x] \in Nat
    BY <1>3, <1>5, <1>6
  <2> QED BY <1>4, <1>5, <2>1
<1> QED BY <1>4, <1>5, <1>6

\* One value is replaced.
LEMMA TotalUpdate ==
    ASSUME NEW D, IsFiniteSet(D), NEW f \in [D -> Nat], NEW y \in D, NEW v \in Nat
    PROVE  Total([f EXCEPT ![y] = v]) = Total(f) - f[y] + v
<1> DEFINE g == [f EXCEPT ![y] = v]
<1>1. g \in [D -> Nat] /\ g[y] = v /\ \A x \in D \ {y} : f[x] = g[x]
  OBVIOUS
<1>2. IsFiniteSet(D \ {y})
  BY FS_Subset
<1> HIDE DEF g
<1>3. SumFunctionOnSet(f, D \ {y}) = SumFunctionOnSet(g, D \ {y})
  BY <1>1, <1>2, SumDepends
<1>4. SumFunctionOnSet(f, D \ {y}) \in Nat
  BY <1>2, SumType
<1>5. SumFunctionOnSet(f, D) = f[y] + SumFunctionOnSet(f, D \ {y})
  BY SumSplits
<1>6. SumFunctionOnSet(g, D) = g[y] + SumFunctionOnSet(g, D \ {y})
  BY <1>1, SumSplits
<1>7. DOMAIN f = D /\ DOMAIN g = D /\ f[y] \in Nat
  BY <1>1
<1> QED BY <1>1, <1>3, <1>4, <1>5, <1>6, <1>7 DEF Total, SumFunction, g

\* Ones on A and zeros elsewhere.
LEMMA TotalOfOnes ==
    ASSUME NEW D, IsFiniteSet(D), NEW A \in SUBSET D
    PROVE  Total([x \in D |-> IF x \in A THEN 1 ELSE 0]) = Cardinality(A)
<1> DEFINE f == [x \in D |-> IF x \in A THEN 1 ELSE 0]
<1>1. DOMAIN f = D /\ \A x \in D : f[x] = IF x \in A THEN 1 ELSE 0
  OBVIOUS
<1>2. D \cap A = A
  OBVIOUS
<1> HIDE DEF f
<1>3. SumFunctionOnSet(f, D) = Cardinality(A)
  BY <1>1, <1>2, SumOfOnes
<1> QED BY <1>1, <1>3 DEF Total, SumFunction, f

\* Zeros add up to 0.
LEMMA TotalOfZeros ==
    ASSUME NEW D, IsFiniteSet(D)
    PROVE  Total([x \in D |-> 0]) = 0
<1>1. [x \in D |-> IF x \in {} THEN 1 ELSE 0] = [x \in D |-> 0]
  OBVIOUS
<1>2. Total([x \in D |-> IF x \in {} THEN 1 ELSE 0]) = Cardinality({})
  BY TotalOfOnes
<1> QED BY <1>1, <1>2, FS_EmptySet

-----------------------------------------------------------------------------
(* The plan.                                                               *)

\* The common level is a number between 0 and the request.
LEMMA LevelType ==
    ASSUME NEW free, NEW requested \in Nat
    PROVE  Level(free, requested) \in 0..requested
<1> DEFINE S == {0} \cup {l \in 1..requested : Total(FilledTo(free, l)) <= requested}
<1>1. S \subseteq 0..requested /\ 0 \in S
  OBVIOUS
<1>2. IsFiniteSet(S)
  <2>1. IsFiniteSet(0..requested)
    BY FS_Interval
  <2> HIDE DEF S
  <2> QED BY <1>1, <2>1, FS_Subset
<1>3. S \in SUBSET Nat /\ S # {}
  BY <1>1
<1> HIDE DEF S
<1>4. Max(S) \in S
  BY <1>2, <1>3, GreatestExists
<1> QED BY <1>1, <1>4 DEF Level, S

\* "capped per worker" (services.go:118-119): every worker is planned for at
\* least nothing and at most its free capacity.
THEOREM AllocationCapped ==
    ASSUME NEW D, NEW free \in [D -> Nat], NEW requested \in Nat
    PROVE  /\ Allocation(free, requested) \in [D -> Nat]
           /\ \A w \in D : Allocation(free, requested)[w] <= free[w]
<1> DEFINE level  == Level(free, requested)
           base   == FilledTo(free, level)
           hungry == {w \in D : free[w] > level}
           rest   == requested - Total(base)
           lucky  == {w \in hungry : Cardinality({v \in hungry : v < w}) < rest}
<1>1. level \in Nat
  BY LevelType
<1>2. Allocation(free, requested) = [w \in D |-> IF w \in lucky THEN base[w] + 1 ELSE base[w]]
  BY DEF Allocation
<1>3. ASSUME NEW w \in D
      PROVE  /\ base[w] \in Nat
             /\ base[w] <= free[w]
             /\ w \in hungry => base[w] < free[w]
  BY <1>1 DEF FilledTo, Least
<1>4. lucky \subseteq hungry
  OBVIOUS
<1> HIDE DEF base, lucky, hungry
<1> QED BY <1>2, <1>3, <1>4

\* Those of H with fewer than k before them.
First(H, k) == {w \in H : Cardinality({v \in H : v < w}) < k}

\* There are k of them.
LEMMA FirstFew ==
    ASSUME NEW H, IsFiniteSet(H), NEW k \in 0..Cardinality(H)
    PROVE  H \subseteq Nat => Cardinality(First(H, k)) = k
<1>1. SUFFICES ASSUME H \subseteq Nat PROVE Cardinality(First(H, k)) = k
  OBVIOUS
<1> DEFINE C == {G \in SUBSET H : \E j \in 0..Cardinality(G) : Cardinality(First(G, j)) # j}
<1>2. SUFFICES ASSUME C # {} PROVE FALSE
  <2>1. H \in SUBSET H
    OBVIOUS
  <2> QED BY <2>1
<1>3. PICK X \in C : \A Y \in C : Y \subseteq X => Y = X
  <2>1. C \in SUBSET (SUBSET H)
    OBVIOUS
  <2> HIDE DEF C
  <2> QED BY <1>2, <2>1, MinimalSubset
<1>4. PICK j \in 0..Cardinality(X) : Cardinality(First(X, j)) # j
  OBVIOUS
<1>5. X \in SUBSET Nat /\ X \in SUBSET H /\ IsFiniteSet(X)
  BY <1>1, FS_Subset
<1>6. Cardinality(X) \in Nat
  BY <1>5, FS_CardinalityType
<1>7. \A w \in X : /\ Cardinality(X \ {w}) = Cardinality(X) - 1
                   /\ Cardinality({v \in X : v < w}) \in Nat
                   /\ Cardinality({v \in X : v < w}) <= Cardinality(X \ {w})
  <2> TAKE w \in X
  <2>1. {v \in X : v < w} \subseteq X \ {w} /\ IsFiniteSet(X \ {w})
    BY <1>5, FS_Subset
  <2> QED BY <1>5, <2>1, FS_RemoveElement, FS_Subset, FS_CardinalityType
<1>8. CASE j = Cardinality(X)
  <2>1. ASSUME NEW w \in X PROVE Cardinality({v \in X : v < w}) < j
    <3> DEFINE before == Cardinality({v \in X : v < w})
    <3>1. before \in Nat /\ before <= Cardinality(X) - 1
      BY <1>7
    <3> HIDE DEF before
    <3>2. before < j
      BY <1>6, <1>8, <3>1
    <3> QED BY <3>2 DEF before
  <2>2. First(X, j) = X
    BY <2>1 DEF First
  <2> QED BY <1>4, <1>8, <2>2
<1>9. CASE j # Cardinality(X)
  <2>1. j \in 0..(Cardinality(X) - 1)
    BY <1>4, <1>6, <1>9
  <2>2. X # {}
    BY <2>1, FS_EmptySet
  <2> DEFINE m == Max(X)
  <2>3. m \in X /\ \A y \in X : m >= y
    BY <1>5, <2>2, GreatestExists
  <2> HIDE DEF m
  <2> DEFINE Y == X \ {m}
  <2>4. Y \notin C /\ Y \in SUBSET H
    BY <1>3, <1>5, <2>3
  <2>5. Cardinality(Y) = Cardinality(X) - 1
    BY <1>7, <2>3
  <2>6. Cardinality(First(Y, j)) = j
    BY <2>1, <2>4, <2>5
  <2>7. First(X, j) = First(Y, j)
    <3>1. \A w \in Y : {v \in X : v < w} = {v \in Y : v < w}
      BY <1>5, <2>3
    <3>2. {v \in X : v < m} = Y
      <4>1. \A v \in X : v \in Nat /\ m \in Nat /\ m >= v
        BY <1>5, <2>3
      <4>2. \A v \in X : v < m <=> v # m
        BY <4>1
      <4> QED BY <4>2
    <3>3. m \notin First(X, j)
      <4>1. ~(Cardinality(Y) < j)
        BY <1>6, <2>1, <2>5
      <4>2. ~(Cardinality({v \in X : v < m}) < j)
        BY <3>2, <4>1
      <4> QED BY <4>2 DEF First
    <3> QED BY <3>1, <3>3 DEF First
  <2> QED BY <1>4, <2>6, <2>7
<1> QED BY <1>8, <1>9

\* Filled to the level, the workers together do not exceed the request; what is
\* left is less than one unit for each that has room.
LEMMA LevelIsHighest ==
    ASSUME NEW D, IsFiniteSet(D), NEW free \in [D -> Nat],
           NEW requested \in Nat, Coverable(free, requested)
    PROVE  LET base   == FilledTo(free, Level(free, requested))
               hungry == {w \in D : free[w] > Level(free, requested)}
           IN  requested - Total(base) \in 0..Cardinality(hungry)
<1> DEFINE level  == Level(free, requested)
           base   == FilledTo(free, level)
           next   == FilledTo(free, level + 1)
           hungry == {w \in D : free[w] > level}
           one    == [w \in D |-> IF w \in hungry THEN 1 ELSE 0]
           S      == {0} \cup {l \in 1..requested : Total(FilledTo(free, l)) <= requested}
<1> SUFFICES requested - Total(base) \in 0..Cardinality(hungry)
  OBVIOUS
<1>1. level \in 0..requested
  BY LevelType
<1>2. level \in S /\ \A l \in S : level >= l
  <2>1. S \subseteq 0..requested /\ 0 \in S
    OBVIOUS
  <2>2. IsFiniteSet(S) /\ S \in SUBSET Nat /\ S # {}
    <3>1. IsFiniteSet(0..requested)
      BY FS_Interval
    <3>2. S \in SUBSET Nat /\ S # {}
      BY <2>1
    <3> HIDE DEF S
    <3>3. IsFiniteSet(S)
      BY <2>1, <3>1, FS_Subset
    <3> QED BY <3>2, <3>3
  <2>3. level = Max(S)
    BY DEF Level
  <2> HIDE DEF S, level
  <2> QED BY <2>2, <2>3, GreatestExists
<1>3. /\ base \in [D -> Nat] /\ next \in [D -> Nat] /\ one \in [D -> Nat]
      /\ \A w \in D : base[w] = Least(free[w], level)
      /\ next = [w \in D |-> base[w] + one[w]]
  <2>1. \A l \in Nat : FilledTo(free, l) = [w \in D |-> Least(free[w], l)]
    BY DEF FilledTo
  <2>2. \A w \in D : Least(free[w], level + 1) = Least(free[w], level) + one[w]
    BY <1>1 DEF Least
  <2> QED BY <1>1, <2>1, <2>2 DEF Least
<1>4. hungry \in SUBSET D /\ IsFiniteSet(hungry) /\ Cardinality(hungry) \in Nat
  BY FS_Subset, FS_CardinalityType
<1>5. Total(one) = Cardinality(hungry)
  BY <1>4, TotalOfOnes
<1>6. Total(base) \in Nat /\ Total(free) \in Nat
  BY <1>3, TotalType
<1>7. Total(next) = Total(base) + Cardinality(hungry)
  <2> HIDE DEF base, next, one, hungry
  <2> QED BY <1>3, <1>5, TotalOfSums
<1>8. Total(base) <= requested
  <2>1. CASE level = 0
    <3>1. base = [w \in D |-> 0]
      BY <1>3, <2>1 DEF Least, FilledTo
    <3> QED BY <3>1, TotalOfZeros
  <2>2. CASE level # 0
    BY <1>2, <2>2
  <2> QED BY <2>1, <2>2
<1>9. CASE level < requested
  <2>1. level + 1 \notin S /\ level + 1 \in 1..requested
    BY <1>1, <1>2, <1>9
  <2>2. ~(Total(next) <= requested)
    BY <2>1
  <2> HIDE DEF base, next, hungry, level
  <2> QED BY <1>4, <1>6, <1>7, <1>8, <2>2
<1>10. CASE hungry = {}
  <2>1. base = free
    BY <1>1, <1>3, <1>10 DEF Least
  <2> QED BY <1>4, <1>6, <1>8, <2>1 DEF Coverable
<1>11. CASE level = requested /\ hungry # {}
  <2>1. PICK w \in hungry : TRUE
    BY <1>11
  <2>2. w \in D /\ base[w] = requested
    BY <1>1, <1>3, <1>11, <2>1 DEF Least
  <2>3. base[w] <= Total(base)
    BY <1>3, <2>2, TotalType
  <2> HIDE DEF base, hungry, level
  <2> QED BY <1>4, <1>6, <1>8, <2>2, <2>3
<1> QED BY <1>1, <1>9, <1>10, <1>11

\* "every worker is used equally ..., the remainder spread one-by-one; the plan
\* covers the whole request" (services.go:118-179).
THEOREM AllocationIsPlacement ==
    ASSUME NEW D \in SUBSET Nat, IsFiniteSet(D), NEW free \in [D -> Nat],
           NEW requested \in Nat, Coverable(free, requested)
    PROVE  LET plan == Allocation(free, requested)
           IN  /\ plan \in [D -> 0..requested]
               /\ Total(plan) = requested
               /\ \A w \in D : plan[w] <= free[w]
               /\ \A v, w \in D : plan[v] + 1 < plan[w] => plan[v] = free[v]
<1> DEFINE plan   == Allocation(free, requested)
           level  == Level(free, requested)
           base   == FilledTo(free, level)
           rest   == requested - Total(base)
           hungry == {w \in D : free[w] > level}
           lucky  == First(hungry, rest)
           one    == [w \in D |-> IF w \in lucky THEN 1 ELSE 0]
<1>1. level \in Nat
  BY LevelType
<1>2. /\ base \in [D -> Nat] /\ one \in [D -> Nat]
      /\ \A w \in D : base[w] = Least(free[w], level)
      /\ plan = [w \in D |-> base[w] + one[w]]
      /\ lucky \subseteq hungry
  <2>1. base = [w \in D |-> Least(free[w], level)]
    BY DEF FilledTo
  <2>2. plan = [w \in D |-> IF w \in lucky THEN base[w] + 1 ELSE base[w]]
    BY DEF Allocation, First
  <2>3. lucky \subseteq hungry
    BY DEF First
  <2>4. base \in [D -> Nat]
    BY <1>1, <2>1 DEF Least
  <2> HIDE DEF base, lucky, plan
  <2> QED BY <2>1, <2>2, <2>3, <2>4
<1>3. plan \in [D -> Nat] /\ \A w \in D : plan[w] <= free[w]
  BY AllocationCapped
<1>4. Cardinality(lucky) = rest
  <2>1. hungry \in SUBSET Nat /\ IsFiniteSet(hungry)
    BY FS_Subset
  <2>2. rest \in 0..Cardinality(hungry)
    BY LevelIsHighest
  <2> HIDE DEF hungry, rest
  <2> QED BY <2>1, <2>2, FirstFew
<1>5. Total(plan) = requested
  <2>1. lucky \in SUBSET D
    BY <1>2
  <2>2. Total(one) = Cardinality(lucky)
    BY <2>1, TotalOfOnes
  <2>3. Total(base) \in Nat
    BY <1>2, TotalType
  <2> HIDE DEF plan, base, one, lucky
  <2>4. Total(plan) = Total(base) + Total(one)
    BY <1>2, TotalOfSums
  <2> QED BY <1>4, <2>2, <2>3, <2>4
<1>6. plan \in [D -> 0..requested]
  <2>1. \A w \in D : plan[w] <= Total(plan)
    BY <1>3, TotalType
  <2> HIDE DEF plan
  <2> QED BY <1>3, <1>5, <2>1
<1>7. ASSUME NEW v \in D, NEW w \in D, plan[v] + 1 < plan[w] PROVE plan[v] = free[v]
  <2>1. plan[v] = base[v] + one[v] /\ plan[w] = base[w] + one[w]
    BY <1>2
  <2>2. one[v] \in {0, 1} /\ one[w] \in {0, 1}
    OBVIOUS
  <2>3. base[v] < level
    <3>1. base[w] <= level /\ base[w] \in Nat /\ base[v] \in Nat
      BY <1>1, <1>2 DEF Least
    <3> HIDE DEF plan, base, one, level
    <3> QED BY <1>1, <1>7, <2>1, <2>2, <3>1
  <2>4. base[v] = free[v] /\ v \notin hungry
    BY <1>1, <1>2, <2>3 DEF Least
  <2>5. one[v] = 0
    BY <1>2, <2>4
  <2> HIDE DEF plan, base, one
  <2> QED BY <2>1, <2>4, <2>5
<1> QED BY <1>3, <1>5, <1>6, <1>7
=============================================================================
