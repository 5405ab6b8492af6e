--------------------------------- MODULE Sums ---------------------------------
(***************************************************************************)
(* Sums of integers over finite sets: what the folds of the community       *)
(* modules compute, for every function and every finite set; and what that  *)
(* says of the flow of a network that one arc, or a path of them, changes.   *)
(* At the end, some arithmetic of products, remainders and powers of two.    *)
(*                                                                         *)
(* The recursion of a fold is over a function on the subsets of a set. That *)
(* such a function exists, and every fact about it, is proved by looking at *)
(* a least counterexample, which strict inclusion has because it is well    *)
(* founded on finite sets.  The same argument gives induction over the      *)
(* subsets of a finite set and over the naturals up to a bound, stated for  *)
(* a set instead of a predicate.                                            *)
(***************************************************************************)
EXTENDS ResidualNetwork, FiniteSetTheorems, FunctionTheorems, SequenceTheorems, TLAPS

Total(f, S) == FoldFunctionOnSet(+, 0, f, S)

\* The element a fold takes first, and the functions a fold is one of.
Chosen(s) == CHOOSE x \in s : TRUE
Folds(f, S, g) ==
    g = [s \in SUBSET S |-> IF s = {} THEN 0 ELSE f[Chosen(s)] + g[s \ {Chosen(s)}]]

LEMMA TotalIsFold ==
    ASSUME NEW f, NEW S
    PROVE  Total(f, S) = (CHOOSE g : Folds(f, S, g))[S]
BY DEF Total, FoldFunctionOnSet, MapThenFoldSet, Folds, Chosen

LEMMA ChosenIsIn == ASSUME NEW s, s # {} PROVE Chosen(s) \in s
BY DEF Chosen

\* A least counterexample.
LEMMA LeastSet ==
    ASSUME NEW S, IsFiniteSet(S), NEW bad, bad \subseteq SUBSET S, bad # {}
    PROVE  \E s \in bad : \A t \in bad : t \subseteq s => t = s
<1>1. IsWellFoundedOn(StrictSubsetOrdering(S), SUBSET S)
  BY FS_StrictSubsetOrderingWellFounded, FS_FiniteSubsetsOfFinite
<1>2. \E s \in bad : \A t \in bad : <<t, s>> \notin StrictSubsetOrdering(S)
  BY <1>1, WFMin
<1> QED
  BY <1>2 DEF StrictSubsetOrdering

\* The same for naturals.
LEMMA LeastNatural ==
    ASSUME NEW T \in SUBSET Nat, T # {}
    PROVE  \E x \in T : \A y \in T : x <= y
<1>1. IsWellFoundedOn(OpToRel(<, Nat), Nat)
  BY NatLessThanWellFounded
<1>2. PICK x \in T : \A y \in T : <<y, x>> \notin OpToRel(<, Nat)
  BY <1>1, WFMin
<1>3. \A y \in T : ~(y < x)
  BY <1>2 DEF OpToRel
<1> QED
  BY <1>3

\* Induction over the naturals up to a bound.
LEMMA UpToInduction ==
    ASSUME NEW n \in Nat, NEW good, 0 \in good,
           \A i \in 0 .. n : i > 0 /\ i - 1 \in good => i \in good
    PROVE  0 .. n \subseteq good
<1> DEFINE bad == {i \in 0 .. n : i \notin good}
<1> SUFFICES ASSUME bad # {} PROVE FALSE
  OBVIOUS
<1>1. bad \in SUBSET Nat
  OBVIOUS
<1> HIDE DEF bad
<1>2. PICK i \in bad : \A j \in bad : i <= j
  BY <1>1, LeastNatural
<1>3. i \in 0 .. n /\ i \notin good
  BY <1>2 DEF bad
<1>4. i > 0 /\ i - 1 \in 0 .. n
  BY <1>3
<1>5. i - 1 \notin bad
  BY <1>2, <1>3, <1>4
<1>6. i - 1 \in good
  BY <1>4, <1>5 DEF bad
<1> QED
  BY <1>3, <1>4, <1>6

LEMMA FoldStep ==
    ASSUME NEW f, NEW S, NEW g, Folds(f, S, g), NEW s \in SUBSET S
    PROVE  g[s] = IF s = {} THEN 0 ELSE f[Chosen(s)] + g[s \ {Chosen(s)}]
BY DEF Folds

LEMMA FoldsAgree ==
    ASSUME NEW f, NEW S, IsFiniteSet(S), NEW T \in SUBSET S,
           NEW g, Folds(f, S, g), NEW h, Folds(f, T, h)
    PROVE  \A s \in SUBSET T : g[s] = h[s]
<1> DEFINE bad == {s \in SUBSET T : g[s] # h[s]}
<1> SUFFICES ASSUME bad # {} PROVE FALSE
  OBVIOUS
<1>1. IsFiniteSet(T) /\ bad \subseteq SUBSET T
  BY FS_Subset
<1> HIDE DEF bad
<1>2. PICK s \in bad : \A t \in bad : t \subseteq s => t = s
  BY <1>1, LeastSet
<1> USE DEF bad
<1>3. s \in SUBSET T /\ s \in SUBSET S
  BY <1>1, <1>2
<1>4. s # {}
  BY <1>2, <1>3, FoldStep
<1>5. Chosen(s) \in s
  BY <1>4, ChosenIsIn
<1>6. g[s \ {Chosen(s)}] = h[s \ {Chosen(s)}]
  BY <1>2, <1>3, <1>5
<1> QED
  BY <1>2, <1>3, <1>4, <1>6, FoldStep

LEMMA FoldExists ==
    ASSUME NEW f, NEW S, IsFiniteSet(S)
    PROVE  \E g : Folds(f, S, g)
<1> DEFINE bad == {T \in SUBSET S : ~ \E g : Folds(f, T, g)}
<1> SUFFICES ASSUME bad # {} PROVE FALSE
  OBVIOUS
<1>1. bad \subseteq SUBSET S
  OBVIOUS
<1> HIDE DEF bad
<1>2. PICK T \in bad : \A t \in bad : t \subseteq T => t = T
  BY <1>1, LeastSet
<1>3. T \in SUBSET S /\ IsFiniteSet(T)
  BY <1>1, <1>2, FS_Subset
<1> DEFINE good(t) == CHOOSE g : Folds(f, t, g)
           g == [s \in SUBSET T |-> IF s = {} THEN 0
                                    ELSE IF s = T THEN f[Chosen(T)] + good(T \ {Chosen(T)})[T \ {Chosen(T)}]
                                    ELSE good(s)[s]]
<1>4. \A s \in SUBSET T : s # T => Folds(f, s, good(s))
  BY <1>2, <1>3 DEF bad
<1>5. \A s \in SUBSET T : g[s] = IF s = {} THEN 0 ELSE f[Chosen(s)] + g[s \ {Chosen(s)}]
  <2>0. g[{}] = 0
    OBVIOUS
  <2> SUFFICES ASSUME NEW s \in SUBSET T, s # {}
               PROVE  g[s] = f[Chosen(s)] + g[s \ {Chosen(s)}]
    <3> HIDE DEF g
    <3> QED
      BY <2>0
  <2> DEFINE r == s \ {Chosen(s)}
  <2>1. r \in SUBSET T /\ r # T /\ r \in SUBSET s
    BY ChosenIsIn
  <2>2. g[r] = good(r)[r]
    <3>1. CASE r = {}
      <4>1. good(r)[r] = 0
        BY <3>1, <2>1, <1>4, FoldStep
      <4> QED
        BY <4>1, <3>1, <2>1
    <3>2. CASE r # {}
      BY <3>2, <2>1
    <3> QED
      BY <3>1, <3>2
  <2>3. CASE s = T
    BY <2>2, <2>3
  <2>4. CASE s # T
    <3>1. IsFiniteSet(s)
      BY <1>3, FS_Subset
    <3>2. Folds(f, s, good(s)) /\ Folds(f, r, good(r))
      BY <2>1, <2>4, <1>4
    <3>3. g[s] = good(s)[s]
      BY <2>4
    <3> HIDE DEF good, g
    <3>4. \A a, b : Folds(f, s, a) /\ Folds(f, r, b) => \A t \in SUBSET r : a[t] = b[t]
      BY <3>1, <2>1, FoldsAgree
    <3>6. good(s)[r] = good(r)[r]
      BY <3>2, <3>4
    <3>5. good(s)[s] = f[Chosen(s)] + good(s)[r]
      BY <3>2, FoldStep
    <3> QED
      BY <3>3, <3>6, <3>5, <2>2
  <2> QED
    BY <2>3, <2>4
<1>6. g = [s \in SUBSET T |-> g[s]]
  OBVIOUS
<1> HIDE DEF g
<1>7. Folds(f, T, g)
  BY <1>5, <1>6 DEF Folds
<1> QED
  BY <1>7, <1>2 DEF bad

\* The recursion equation of a sum.
LEMMA TotalStep ==
    ASSUME NEW f, NEW S, IsFiniteSet(S)
    PROVE  /\ Total(f, {}) = 0
           /\ S # {} => Total(f, S) = f[Chosen(S)] + Total(f, S \ {Chosen(S)})
<1>5. \A T \in SUBSET S : \A g, h : Folds(f, S, g) /\ Folds(f, T, h) => \A t \in SUBSET T : g[t] = h[t]
  BY FoldsAgree
<1> DEFINE sum(T) == CHOOSE g : Folds(f, T, g)
<1>1. \A T : IsFiniteSet(T) => Folds(f, T, sum(T))
  BY FoldExists
<1>2. \A T : Total(f, T) = sum(T)[T]
  BY TotalIsFold
<1> HIDE DEF sum
<1>3. Total(f, {}) = 0
  BY <1>1, <1>2, FoldStep, FS_EmptySet
<1>4. ASSUME S # {} PROVE Total(f, S) = f[Chosen(S)] + Total(f, S \ {Chosen(S)})
  <2> DEFINE T == S \ {Chosen(S)}
  <2>1. T \in SUBSET S /\ IsFiniteSet(T)
    BY FS_Subset
  <2>4. Folds(f, S, sum(S)) /\ Folds(f, T, sum(T))
    BY <1>1, <2>1
  <2>2. sum(S)[T] = sum(T)[T]
    <3> HIDE DEF T
    <3> QED
      BY <2>1, <2>4, <1>5
  <2>3. sum(S)[S] = f[Chosen(S)] + sum(S)[T]
    BY <1>1, <1>4, FoldStep
  <2> QED
    BY <2>2, <2>3, <1>2
<1> QED
  BY <1>3, <1>4

LEMMA TotalType ==
    ASSUME NEW S, IsFiniteSet(S), NEW f, \A x \in S : f[x] \in Int
    PROVE  Total(f, S) \in Int
<1> DEFINE bad == {T \in SUBSET S : Total(f, T) \notin Int}
<1> SUFFICES ASSUME bad # {} PROVE FALSE
  OBVIOUS
<1>1. bad \subseteq SUBSET S
  OBVIOUS
<1> HIDE DEF bad
<1>2. PICK T \in bad : \A t \in bad : t \subseteq T => t = T
  BY <1>1, LeastSet
<1>3. T \in SUBSET S /\ IsFiniteSet(T) /\ Total(f, T) \notin Int
  BY <1>1, <1>2, FS_Subset DEF bad
<1>4. T # {}
  <2>1. Total(f, {}) = 0
    BY TotalStep
  <2>2. Total(f, {}) \in Int
    BY <2>1
  <2> QED
    BY <1>3, <2>2
<1>5. Chosen(T) \in T
  BY <1>4, ChosenIsIn
<1>6. T \ {Chosen(T)} \notin bad
  BY <1>2, <1>5
<1>7. Total(f, T \ {Chosen(T)}) \in Int
  BY <1>6, <1>3 DEF bad
<1> QED
  BY <1>3, <1>4, <1>5, <1>7, TotalStep

\* Any element may be taken first.
LEMMA TotalRemove ==
    ASSUME NEW S, IsFiniteSet(S), NEW f, \A x \in S : f[x] \in Int, NEW e \in S
    PROVE  Total(f, S) = f[e] + Total(f, S \ {e})
<1> DEFINE Holds(T) == \A x \in T : Total(f, T) = f[x] + Total(f, T \ {x})
           bad == {T \in SUBSET S : ~Holds(T)}
<1>1. bad \subseteq SUBSET S
  OBVIOUS
<1>2. ASSUME bad # {} PROVE FALSE
  <2> HIDE DEF bad
  <2>2. PICK T \in bad : \A t \in bad : t \subseteq T => t = T
    BY <1>1, <1>2, LeastSet
  <2>3. T \in SUBSET S /\ IsFiniteSet(T)
    BY <1>1, <2>2, FS_Subset
  <2>4. PICK x \in T : Total(f, T) # f[x] + Total(f, T \ {x})
    BY <2>2 DEF bad
  <2> DEFINE y == Chosen(T)
  <2>5. y \in T
    BY ChosenIsIn
  <2>6. Total(f, T) = f[y] + Total(f, T \ {y})
    BY <2>3, <2>5, TotalStep
  <2>7. x # y
    BY <2>4, <2>6
  <2>8. /\ T \ {x} \in SUBSET S /\ T \ {x} \notin bad
        /\ T \ {y} \in SUBSET S /\ T \ {y} \notin bad
    BY <2>2, <2>3, <2>5
  <2>9. Holds(T \ {x}) /\ Holds(T \ {y})
    BY <2>8 DEF bad
  <2> DEFINE r == T \ {x, y}
  <2>10. r = (T \ {x}) \ {y} /\ r = (T \ {y}) \ {x}
    OBVIOUS
  <2>11. /\ Total(f, T \ {x}) = f[y] + Total(f, r)
         /\ Total(f, T \ {y}) = f[x] + Total(f, r)
    BY <2>5, <2>7, <2>9, <2>10
  <2>12. f[x] \in Int /\ f[y] \in Int /\ Total(f, r) \in Int
    <3>1. IsFiniteSet(r) /\ \A z \in r : f[z] \in Int
      BY <2>3, FS_Subset
    <3> QED
      BY <3>1, <2>3, <2>5, TotalType
  <2> HIDE DEF y, r
  <2> QED
    BY <2>4, <2>6, <2>11, <2>12
<1> QED
  BY <1>2

LEMMA TotalAdd ==
    ASSUME NEW S, IsFiniteSet(S), NEW e, e \notin S,
           NEW f, \A x \in S \cup {e} : f[x] \in Int
    PROVE  Total(f, S \cup {e}) = f[e] + Total(f, S)
<1>1. IsFiniteSet(S \cup {e}) /\ (S \cup {e}) \ {e} = S
  BY FS_AddElement
<1> QED
  BY <1>1, TotalRemove

\* Induction over the subsets of a finite set, one element at a time.
LEMMA SubsetInduction ==
    ASSUME NEW S, IsFiniteSet(S), NEW good, {} \in good,
           \A T \in SUBSET S : \A x \in S \ T : T \in good => T \cup {x} \in good
    PROVE  S \in good
<1> DEFINE bad == {T \in SUBSET S : T \notin good}
<1> SUFFICES ASSUME bad # {} PROVE FALSE
  OBVIOUS
<1>1. bad \subseteq SUBSET S
  OBVIOUS
<1> HIDE DEF bad
<1>2. PICK T \in bad : \A t \in bad : t \subseteq T => t = T
  BY <1>1, LeastSet
<1>3. T \in SUBSET S /\ T \notin good
  BY <1>2 DEF bad
<1>4. PICK x \in T : TRUE
  BY <1>3
<1>5. T \ {x} \notin bad
  BY <1>2, <1>4
<1>6. T \ {x} \in good
  BY <1>5, <1>3 DEF bad
<1>7. (T \ {x}) \cup {x} = T
  BY <1>4
<1> QED
  BY <1>3, <1>4, <1>6, <1>7

LEMMA TotalPlus ==
    ASSUME NEW S, IsFiniteSet(S), NEW f, NEW g, NEW h,
           \A x \in S : f[x] \in Int /\ g[x] \in Int /\ h[x] = f[x] + g[x]
    PROVE  Total(h, S) = Total(f, S) + Total(g, S)
<1> DEFINE good == {T \in SUBSET S : Total(h, T) = Total(f, T) + Total(g, T)}
<1>1. {} \in good
  <2>1. Total(h, {}) = 0 /\ Total(f, {}) = 0 /\ Total(g, {}) = 0
    BY TotalStep
  <2> QED
    BY <2>1
<1>2. ASSUME NEW T \in SUBSET S, NEW x \in S \ T, T \in good PROVE T \cup {x} \in good
  <2>1. IsFiniteSet(T)
    BY FS_Subset
  <2>2. \A y \in T \cup {x} : f[y] \in Int /\ g[y] \in Int /\ h[y] \in Int
    OBVIOUS
  <2>3. /\ Total(h, T \cup {x}) = h[x] + Total(h, T)
        /\ Total(f, T \cup {x}) = f[x] + Total(f, T)
        /\ Total(g, T \cup {x}) = g[x] + Total(g, T)
    BY <2>1, <2>2, TotalAdd
  <2>4. Total(h, T) \in Int /\ Total(f, T) \in Int /\ Total(g, T) \in Int
    BY <2>1, <2>2, TotalType
  <2>5. Total(h, T) = Total(f, T) + Total(g, T)
    BY <1>2
  <2>6. h[x] = f[x] + g[x] /\ f[x] \in Int /\ g[x] \in Int
    OBVIOUS
  <2>7. Total(h, T \cup {x}) = Total(f, T \cup {x}) + Total(g, T \cup {x})
    BY <2>3, <2>4, <2>5, <2>6
  <2> QED
    BY <2>7
<1> HIDE DEF good
<1>3. S \in good
  BY <1>1, <1>2, SubsetInduction
<1> QED
  BY <1>3 DEF good

\* Smaller summands have a smaller sum.
LEMMA TotalLeq ==
    ASSUME NEW S, IsFiniteSet(S), NEW f, NEW g,
           \A x \in S : f[x] \in Int /\ g[x] \in Int /\ f[x] <= g[x]
    PROVE  Total(f, S) <= Total(g, S)
<1> DEFINE good == {T \in SUBSET S : Total(f, T) <= Total(g, T)}
<1>1. {} \in good
  <2>1. Total(f, {}) = 0 /\ Total(g, {}) = 0
    BY TotalStep
  <2> QED
    BY <2>1
<1>2. ASSUME NEW T \in SUBSET S, NEW x \in S \ T, T \in good PROVE T \cup {x} \in good
  <2>1. IsFiniteSet(T)
    BY FS_Subset
  <2>2. \A y \in T \cup {x} : f[y] \in Int /\ g[y] \in Int
    OBVIOUS
  <2>3. /\ Total(f, T \cup {x}) = f[x] + Total(f, T)
        /\ Total(g, T \cup {x}) = g[x] + Total(g, T)
    BY <2>1, <2>2, TotalAdd
  <2>4. Total(f, T) \in Int /\ Total(g, T) \in Int
    BY <2>1, <2>2, TotalType
  <2>5. Total(f, T) <= Total(g, T)
    BY <1>2
  <2>6. f[x] <= g[x] /\ f[x] \in Int /\ g[x] \in Int
    OBVIOUS
  <2>7. Total(f, T \cup {x}) <= Total(g, T \cup {x})
    BY <2>3, <2>4, <2>5, <2>6
  <2> QED
    BY <2>7
<1> HIDE DEF good
<1>3. S \in good
  BY <1>1, <1>2, SubsetInduction
<1> QED
  BY <1>3 DEF good

LEMMA TotalSame ==
    ASSUME NEW S, IsFiniteSet(S), NEW f, NEW g, \A x \in S : f[x] \in Int /\ f[x] = g[x]
    PROVE  Total(f, S) = Total(g, S)
<1>1. Total(f, S) <= Total(g, S) /\ Total(g, S) <= Total(f, S)
  BY TotalLeq
<1>2. Total(f, S) \in Int /\ Total(g, S) \in Int
  BY TotalType
<1> QED
  BY <1>1, <1>2

\* The sum over a union of disjoint sets.
LEMMA TotalUnion ==
    ASSUME NEW S, IsFiniteSet(S), NEW U, IsFiniteSet(U), S \cap U = {},
           NEW f, \A x \in S \cup U : f[x] \in Int
    PROVE  Total(f, S \cup U) = Total(f, S) + Total(f, U)
<1> DEFINE good == {T \in SUBSET U : Total(f, S \cup T) = Total(f, S) + Total(f, T)}
<1>0. Total(f, S) \in Int
  BY TotalType
<1>1. {} \in good
  <2>1. Total(f, {}) = 0 /\ S \cup {} = S
    BY TotalStep
  <2> QED
    BY <1>0, <2>1
<1>2. ASSUME NEW T \in SUBSET U, NEW x \in U \ T, T \in good PROVE T \cup {x} \in good
  <2>1. IsFiniteSet(T) /\ IsFiniteSet(S \cup T)
    BY FS_Subset, FS_Union
  <2>2. /\ \A y \in T \cup {x} : f[y] \in Int
        /\ \A y \in (S \cup T) \cup {x} : f[y] \in Int
        /\ x \notin S \cup T
        /\ (S \cup T) \cup {x} = S \cup (T \cup {x})
    OBVIOUS
  <2>3. /\ Total(f, T \cup {x}) = f[x] + Total(f, T)
        /\ Total(f, (S \cup T) \cup {x}) = f[x] + Total(f, S \cup T)
    BY <2>1, <2>2, TotalAdd
  <2>4. Total(f, T) \in Int
    BY <2>1, <2>2, TotalType
  <2>5. Total(f, S \cup T) = Total(f, S) + Total(f, T)
    BY <1>2
  <2>6. f[x] \in Int
    OBVIOUS
  <2>7. Total(f, S \cup (T \cup {x})) = Total(f, S) + Total(f, T \cup {x})
    <3>1. Total(f, S \cup (T \cup {x})) = f[x] + Total(f, S \cup T)
      BY <2>2, <2>3
    <3> QED
      BY <3>1, <1>0, <2>3, <2>4, <2>5, <2>6
  <2> QED
    BY <2>7
<1> HIDE DEF good
<1>3. U \in good
  BY <1>1, <1>2, SubsetInduction
<1> QED
  BY <1>3 DEF good

\* Summing per class and then over the classes of a set is summing over the members
\* whose class is in the set.
OfClass(E, class, v) == {e \in E : class[e] = v}
OfClasses(E, class, S) == {e \in E : class[e] \in S}

LEMMA TotalByClass ==
    ASSUME NEW E, IsFiniteSet(E), NEW S, IsFiniteSet(S), NEW class,
           NEW f, \A e \in E : f[e] \in Int,
           NEW h, \A v \in S : h[v] = Total(f, OfClass(E, class, v))
    PROVE  Total(h, S) = Total(f, OfClasses(E, class, S))
<1> DEFINE Of(T) == {e \in E : class[e] \in T}
           good == {T \in SUBSET S : Total(h, T) = Total(f, Of(T))}
<1>0. \A T : IsFiniteSet(Of(T)) /\ \A e \in Of(T) : f[e] \in Int
  BY FS_Subset
<1>a. \A v \in S : h[v] = Total(f, Of({v}))
  <2>1. \A v : Of({v}) = OfClass(E, class, v)
    BY DEF OfClass
  <2> QED
    BY <2>1
<1>1. {} \in good
  <2>1. Of({}) = {}
    OBVIOUS
  <2>2. Total(h, {}) = 0 /\ Total(f, {}) = 0
    BY TotalStep
  <2> QED
    BY <2>1, <2>2
<1>2. ASSUME NEW T \in SUBSET S, NEW x \in S \ T, T \in good PROVE T \cup {x} \in good
  <2>1. IsFiniteSet(T)
    BY FS_Subset
  <2>2. Of(T \cup {x}) = Of(T) \cup Of({x}) /\ Of(T) \cap Of({x}) = {}
    OBVIOUS
  <2>3. Total(h, T) = Total(f, Of(T))
    BY <1>2
  <2> HIDE DEF Of
  <2>b. \A y \in S : h[y] \in Int
    <3>1. \A y : Total(f, Of({y})) \in Int
      BY <1>0, TotalType
    <3> QED
      BY <3>1, <1>a
  <2>4. Total(h, T \cup {x}) = h[x] + Total(h, T)
    BY <2>1, <2>b, TotalAdd
  <2>5. Total(f, Of(T) \cup Of({x})) = Total(f, Of(T)) + Total(f, Of({x}))
    BY <1>0, <2>2, TotalUnion
  <2>6. Total(f, Of(T)) \in Int /\ Total(f, Of({x})) \in Int
    BY <1>0, TotalType
  <2>7. Total(h, T \cup {x}) = Total(f, Of(T \cup {x}))
    <3>1. Total(f, Of(T \cup {x})) = Total(f, Of(T)) + Total(f, Of({x}))
      BY <2>2, <2>5
    <3>2. h[x] = Total(f, Of({x}))
      BY <1>a
    <3> QED
      BY <3>1, <3>2, <2>3, <2>4, <2>6
  <2> QED
    BY <2>7
<1> HIDE DEF good
<1>3. S \in good
  BY <1>1, <1>2, SubsetInduction
<1> QED
  BY <1>3 DEF good, OfClasses

\* Only what changes shows in a sum.
LEMMA TotalChange ==
    ASSUME NEW S, IsFiniteSet(S), NEW f, NEW g, NEW e \in S,
           \A x \in S : f[x] \in Int /\ g[x] \in Int,
           \A x \in S \ {e} : g[x] = f[x]
    PROVE  Total(g, S) = Total(f, S) + g[e] - f[e]
<1> DEFINE T == S \ {e}
<1>1. IsFiniteSet(T) /\ \A x \in T : f[x] \in Int /\ f[x] = g[x]
  BY FS_Subset
<1>2. Total(f, S) = f[e] + Total(f, T) /\ Total(g, S) = g[e] + Total(g, T)
  BY TotalRemove
<1>3. Total(f, T) = Total(g, T) /\ Total(f, T) \in Int
  BY <1>1, TotalSame, TotalType
<1>4. f[e] \in Int /\ g[e] \in Int
  OBVIOUS
<1> HIDE DEF T
<1> QED
  BY <1>2, <1>3, <1>4

LEMMA TotalZero ==
    ASSUME NEW S, IsFiniteSet(S), NEW f, \A x \in S : f[x] = 0
    PROVE  Total(f, S) = 0
<1>1. Total(f, S) \in Int
  BY TotalType
<1>2. \A x \in S : f[x] \in Int /\ f[x] = f[x] + f[x]
  OBVIOUS
<1>3. Total(f, S) = Total(f, S) + Total(f, S)
  BY <1>2, TotalPlus
<1>4. \A t \in Int : t = t + t => t = 0
  OBVIOUS
<1> QED
  BY <1>1, <1>3, <1>4

LEMMA LeastExists ==
    ASSUME NEW S, IsFiniteSet(S), S # {}, S \subseteq Int
    PROVE  \E x \in S : \A y \in S : x <= y
<1> DEFINE good == {T \in SUBSET S : T = {} \/ \E x \in T : \A y \in T : x <= y}
<1>1. {} \in good
  OBVIOUS
<1>2. ASSUME NEW T \in SUBSET S, NEW z \in S \ T, T \in good PROVE T \cup {z} \in good
  <2>1. CASE T = {}
    <3>1. z \in T \cup {z} /\ \A y \in T \cup {z} : z <= y
      BY <2>1
    <3> QED
      BY <3>1
  <2>2. CASE T # {}
    <3>1. PICK x \in T : \A y \in T : x <= y
      BY <1>2, <2>2
    <3>2. CASE x <= z
      <4>1. x \in T \cup {z} /\ \A y \in T \cup {z} : x <= y
        BY <3>1, <3>2
      <4> QED
        BY <4>1
    <3>3. CASE ~(x <= z)
      <4>1. z \in T \cup {z} /\ \A y \in T \cup {z} : z <= y
        BY <3>1, <3>3
      <4> QED
        BY <4>1
    <3> QED
      BY <3>2, <3>3
  <2> QED
    BY <2>1, <2>2
<1> HIDE DEF good
<1>3. S \in good
  BY <1>1, <1>2, SubsetInduction
<1> QED
  BY <1>3 DEF good

LEMMA GreatestExists ==
    ASSUME NEW S, IsFiniteSet(S), S # {}, S \subseteq Int
    PROVE  \E x \in S : \A y \in S : x >= y
<1> DEFINE good == {T \in SUBSET S : T = {} \/ \E x \in T : \A y \in T : x >= y}
<1>1. {} \in good
  OBVIOUS
<1>2. ASSUME NEW T \in SUBSET S, NEW z \in S \ T, T \in good PROVE T \cup {z} \in good
  <2>1. CASE T = {}
    <3>1. z \in T \cup {z} /\ \A y \in T \cup {z} : z >= y
      BY <2>1
    <3> QED
      BY <3>1
  <2>2. CASE T # {}
    <3>1. PICK x \in T : \A y \in T : x >= y
      BY <1>2, <2>2
    <3>2. CASE x >= z
      <4>1. x \in T \cup {z} /\ \A y \in T \cup {z} : x >= y
        BY <3>1, <3>2
      <4> QED
        BY <4>1
    <3>3. CASE ~(x >= z)
      <4>1. z \in T \cup {z} /\ \A y \in T \cup {z} : z >= y
        BY <3>1, <3>3
      <4> QED
        BY <4>1
    <3> QED
      BY <3>2, <3>3
  <2> QED
    BY <2>1, <2>2
<1> HIDE DEF good
<1>3. S \in good
  BY <1>1, <1>2, SubsetInduction
<1> QED
  BY <1>3 DEF good

LEMMA MaxIsGreatest ==
    ASSUME NEW S, IsFiniteSet(S), S # {}, S \subseteq Int
    PROVE  Finite!Max(S) \in S /\ \A y \in S : Finite!Max(S) >= y
BY GreatestExists DEF Finite!Max

\* The image of a finite set under a function.
LEMMA FiniteImage ==
    ASSUME NEW S, IsFiniteSet(S), NEW f
    PROVE  IsFiniteSet({f[x] : x \in S})
<1> DEFINE good == {T \in SUBSET S : IsFiniteSet({f[x] : x \in T})}
<1>1. {} \in good
  <2>1. {f[x] : x \in {}} = {}
    OBVIOUS
  <2> QED
    BY <2>1, FS_EmptySet
<1>2. ASSUME NEW T \in SUBSET S, NEW z \in S \ T, T \in good PROVE T \cup {z} \in good
  <2>1. {f[x] : x \in T \cup {z}} = {f[x] : x \in T} \cup {f[z]}
    OBVIOUS
  <2>2. IsFiniteSet({f[x] : x \in T})
    BY <1>2
  <2>3. IsFiniteSet({f[x] : x \in T} \cup {f[z]})
    <3> DEFINE image == {f[x] : x \in T}
    <3> HIDE DEF image
    <3>1. IsFiniteSet(image \cup {f[z]})
      BY <2>2, FS_AddElement DEF image
    <3> QED
      BY <3>1 DEF image
  <2> QED
    BY <2>1, <2>3
<1> HIDE DEF good
<1>3. S \in good
  BY <1>1, <1>2, SubsetInduction
<1> QED
  BY <1>3 DEF good

LEMMA MinIsLeast ==
    ASSUME NEW S, IsFiniteSet(S), S # {}, S \subseteq Int
    PROVE  Finite!Min(S) \in S /\ \A y \in S : Finite!Min(S) <= y
BY LeastExists DEF Finite!Min

LEMMA MinOfTwo ==
    ASSUME NEW x \in Int, NEW y \in Int
    PROVE  /\ Finite!Min({x, y}) \in {x, y}
           /\ Finite!Min({x, y}) <= x /\ Finite!Min({x, y}) <= y
<1>1. IsFiniteSet({x, y})
  <2>1. {x, y} = {x} \cup {y} /\ IsFiniteSet({x})
    BY FS_Singleton
  <2> QED
    BY <2>1, FS_AddElement
<1> QED
  BY <1>1, MinIsLeast

(***************************************************************************)
(* Folds in order, of an operator given as a function on a set of states    *)
(* and the places: there is one, its values are states, and it is a run     *)
(* that takes one step per place.                                           *)
(***************************************************************************)
Takes(last, S) == \A s \in SUBSET S : s # {} => last[s] \in s
IsFold(g, S, last, D, base, op) ==
    /\ g \in [SUBSET S -> D]
    /\ g = [s \in SUBSET S |-> IF s = {} THEN base ELSE op[<<g[s \ {last[s]}], last[s]>>]]
IsStep(op, D, S) == op \in [D \X S -> D]
IsRun(h, n, D, base, op) ==
    /\ h \in [0 .. n -> D] /\ h[0] = base
    /\ \A i \in 1 .. n : h[i] = op[<<h[i - 1], i>>]

LEMMA LeftFoldExists ==
    ASSUME NEW S, IsFiniteSet(S), NEW last, Takes(last, S), NEW D, NEW base, base \in D,
           NEW op, IsStep(op, D, S)
    PROVE  \E g : IsFold(g, S, last, D, base, op)
<1> USE DEF Takes, IsStep
<1> DEFINE P == SUBSET S
           Last(s) == last[s]
           Works(T, g) == /\ g \in [SUBSET T -> D]
                          /\ \A s \in SUBSET T :
                                 g[s] = IF s = {} THEN base ELSE op[<<g[s \ {Last(s)}], Last(s)>>]
           bad == {T \in P : ~ \E g : Works(T, g)}
<1>0. IsFiniteSet(S)
  OBVIOUS
<1>1. \A s \in P : s # {} => Last(s) \in s
  OBVIOUS
<1>2. ASSUME NEW T \in P, NEW g, Works(T, g), NEW h, NEW U \in SUBSET T, Works(U, h)
      PROVE  \A s \in SUBSET U : g[s] = h[s]
  <2> DEFINE off == {s \in SUBSET U : g[s] # h[s]}
  <2> SUFFICES ASSUME off # {} PROVE FALSE
    OBVIOUS
  <2>0. U \subseteq S
    OBVIOUS
  <2>1. IsFiniteSet(U)
    BY ONLY <1>0, <2>0, FS_Subset
  <2>7. off \subseteq SUBSET U /\ off # {}
    OBVIOUS
  <2> HIDE DEF off
  <2>2. PICK s \in off : \A t \in off : t \subseteq s => t = s
    BY ONLY <2>1, <2>7, LeastSet
  <2>3. s \in SUBSET U /\ s \in SUBSET T /\ s \in P /\ g[s] # h[s]
    BY <2>2 DEF off
  <2> HIDE DEF Last, P
  <2>4. s # {}
    BY <1>2, <2>3
  <2>5. Last(s) \in s
    BY <1>1, <2>3, <2>4
  <2>6. g[s \ {Last(s)}] = h[s \ {Last(s)}]
    <3>1. s \ {Last(s)} \notin off
      BY <2>2, <2>5
    <3> QED
      BY <3>1, <2>3 DEF off
  <2> QED
    BY <1>2, <2>3, <2>4, <2>6
<1>3. bad = {}
  <2> SUFFICES ASSUME bad # {} PROVE FALSE
    OBVIOUS
  <2>1. bad \subseteq P
    OBVIOUS
  <2>6. bad \subseteq SUBSET S /\ bad # {}
    OBVIOUS
  <2> HIDE DEF bad
  <2>2. PICK T \in bad : \A t \in bad : t \subseteq T => t = T
    BY ONLY <1>0, <2>6, LeastSet
  <2>3. T \in P
    BY <2>1, <2>2
  <2>4. CASE T = {}
    <3> DEFINE g == [s \in SUBSET T |-> base]
    <3>1. Works(T, g)
      BY <2>4
    <3> QED
      BY <3>1, <2>2 DEF bad
  <2>5. CASE T # {}
    <3> DEFINE r == T \ {Last(T)}
    <3>1. Last(T) \in T
      BY <1>1, <2>3, <2>5
    <3>2. r \in P /\ r \subseteq T /\ r # T
      BY <2>3, <3>1
    <3> DEFINE good(t) == CHOOSE g : Works(t, g)
    <3>3. \A t \in SUBSET T : t # T => Works(t, good(t))
      <4> TAKE t \in SUBSET T
      <4> HAVE t # T
      <4>1. t \in P /\ t \notin bad
        BY <2>2, <2>3
      <4>2. \E g : Works(t, g)
        BY <4>1 DEF bad
      <4> HIDE DEF Works
      <4> QED
        BY <4>2
    <3> DEFINE g == [s \in SUBSET T |-> IF s = T THEN op[<<good(r)[r], Last(T)>>] ELSE good(s)[s]]
    <3>4. \A s \in SUBSET T : s # T => g[s] \in D
      <4> TAKE s \in SUBSET T
      <4> HAVE s # T
      <4>1. good(s) \in [SUBSET s -> D]
        BY <3>3
      <4> QED
        BY <4>1
    <3>5. g[T] \in D
      <4>1. good(r) \in [SUBSET r -> D]
        BY <3>2, <3>3
      <4>2. good(r)[r] \in D /\ Last(T) \in S
        BY <4>1, <2>3, <3>1
      <4> HIDE DEF good, r
      <4> QED
        BY <4>2
    <3>6. ASSUME NEW s \in SUBSET T
          PROVE  g[s] = IF s = {} THEN base ELSE op[<<g[s \ {Last(s)}], Last(s)>>]
      <4>1. CASE s = T
        <5>1. g[r] = good(r)[r]
          BY <3>2
        <5> HIDE DEF good, Last
        <5> QED
          BY <4>1, <5>1, <2>5
      <4>2. CASE s # T /\ s = {}
        <5>1. Works(s, good(s))
          BY <3>3, <4>2
        <5> HIDE DEF good
        <5>2. good(s)[s] = base
          BY <5>1, <4>2
        <5> QED
          BY <5>2, <4>2
      <4>3. CASE s # T /\ s # {}
        <5> DEFINE q == s \ {Last(s)}
        <5>1. Last(s) \in s /\ q \in SUBSET s /\ q \in SUBSET T /\ q # T
          BY <1>1, <2>3, <4>3
        <5>2. Works(s, good(s)) /\ Works(q, good(q))
          BY <3>3, <4>3, <5>1
        <5>3. g[s] = good(s)[s] /\ g[q] = good(q)[q]
          BY <4>3, <5>1
        <5>4. s \in P
          BY <2>3
        <5> HIDE DEF good, g
        <5>5. good(s)[s] = op[<<good(s)[q], Last(s)>>]
          BY <4>3, <5>2
        <5>6. good(s)[q] = good(q)[q]
          <6> HIDE DEF Works, q
          <6> QED
            BY <1>2, <5>1, <5>2, <5>4
        <5> QED
          BY <4>3, <5>3, <5>5, <5>6
      <4> QED
        BY <4>1, <4>2, <4>3
    <3>7. g \in [SUBSET T -> D]
      BY <3>4, <3>5
    <3> HIDE DEF g
    <3>8. Works(T, g)
      BY <3>6, <3>7
    <3> QED
      BY <3>8, <2>2 DEF bad
  <2> QED
    BY <2>4, <2>5
<1>4. PICK g : Works(S, g)
  <2>1. S \in P
    OBVIOUS
  <2> QED
    BY <2>1, <1>3
<1>5. g \in [SUBSET S -> D] /\ \A s \in SUBSET S :
          g[s] = IF s = {} THEN base ELSE op[<<g[s \ {last[s]}], last[s]>>]
  BY <1>4
<1>6. g = [s \in SUBSET S |->
                IF s = {} THEN base ELSE op[<<g[s \ {last[s]}], last[s]>>]]
  BY <1>5
<1> QED
  BY <1>5, <1>6 DEF IsFold

\* The last of the first places.
LEMMA LastOfFirst ==
    ASSUME NEW i \in Nat, i > 0
    PROVE  Finite!Max(1 .. i) = i /\ (1 .. i) \ {i} = 1 .. (i - 1)
<1>1. \A x \in 1 .. i : i >= x
  OBVIOUS
<1>2. \A y \in 1 .. i : (\A x \in 1 .. i : y >= x) => y = i
  OBVIOUS
<1> QED
  BY <1>1, <1>2 DEF Finite!Max

\* The greatest of a set of places is one of them.
LastPlace(n) == [s \in SUBSET (1 .. n) |-> Finite!Max(s)]

LEMMA TakesLast == ASSUME NEW n \in Nat PROVE Takes(LastPlace(n), 1 .. n) /\ IsFiniteSet(1 .. n)
<1>1. IsFiniteSet(1 .. n)
  BY FS_Interval
<1>2. ASSUME NEW s \in SUBSET (1 .. n), s # {} PROVE LastPlace(n)[s] \in s
  <2>1. s \subseteq 1 .. n /\ s \subseteq Int
    OBVIOUS
  <2>2. IsFiniteSet(s)
    BY ONLY <1>1, <2>1, FS_Subset
  <2>3. Finite!Max(s) \in s
    BY <1>2, <2>1, <2>2, MaxIsGreatest
  <2> QED
    BY <2>3 DEF LastPlace
<1> QED
  BY <1>1, <1>2 DEF Takes

\* What a function on the sets of places runs through that takes a step for the last.
LEMMA RunOfFold ==
    ASSUME NEW n \in Nat, NEW D, NEW base, base \in D, NEW op, IsStep(op, D, 1 .. n),
           NEW c, c[{}] = base,
           \A i \in 1 .. n : c[1 .. (i - 1)] \in D => c[1 .. i] = op[<<c[1 .. (i - 1)], i>>]
    PROVE  \E h : IsRun(h, n, D, base, op) /\ h[n] = c[1 .. n]
<1> USE DEF IsStep
<1> DEFINE h == [i \in 0 .. n |-> c[1 .. i]]
           good == {i \in 0 .. n : h[i] \in D}
<1>1. 0 \in 0 .. n /\ n \in 0 .. n /\ \A i \in 1 .. n : i \in 0 .. n /\ i - 1 \in 0 .. n
  OBVIOUS
<1>2. h[0] = base
  <2>1. 1 .. 0 = {}
    OBVIOUS
  <2> QED
    BY <1>1, <2>1
<1>3. ASSUME NEW i \in 1 .. n, h[i - 1] \in D PROVE h[i] \in D /\ h[i] = op[<<h[i - 1], i>>]
  <2>1. h[i - 1] = c[1 .. (i - 1)] /\ h[i] = c[1 .. i]
    BY <1>1
  <2>2. h[i] = op[<<h[i - 1], i>>]
    BY <1>3, <2>1
  <2> HIDE DEF h
  <2> QED
    BY <1>3, <2>2
<1>4. h[n] = c[1 .. n]
  BY <1>1
<1>8. h = [i \in 0 .. n |-> h[i]]
  OBVIOUS
<1> HIDE DEF h
<1>5. 0 .. n \subseteq good
  <2>1. 0 \in good
    BY <1>1, <1>2
  <2>2. ASSUME NEW i \in 0 .. n, i > 0, i - 1 \in good PROVE i \in good
    <3>1. i \in 1 .. n /\ h[i - 1] \in D
      BY <2>2
    <3>2. h[i] \in D
      BY <3>1, <1>3
    <3> QED
      BY <3>2
  <2> HIDE DEF good
  <2> QED
    BY <2>1, <2>2, UpToInduction
<1>6. \A i \in 0 .. n : h[i] \in D
  BY <1>5
<1>7. h \in [0 .. n -> D]
  BY <1>6, <1>8
<1>9. \A i \in 1 .. n : h[i] = op[<<h[i - 1], i>>]
  BY <1>1, <1>3, <1>6
<1> QED
  BY <1>2, <1>4, <1>7, <1>9 DEF IsRun

\* A function on the sets of places that takes a step for the last place.
Follows(c, n, D, base, op) ==
    /\ c[{}] = base
    /\ \A s \in SUBSET (1 .. n) : s # {} /\ c[s \ {Finite!Max(s)}] \in D
           => c[s] = op[<<c[s \ {Finite!Max(s)}], Finite!Max(s)>>]

LEMMA BeforeLast ==
    ASSUME NEW n \in Nat
    PROVE  \A s \in SUBSET (1 .. n) : s # {} =>
               Finite!Max(s) \in 1 .. n /\ s \ {Finite!Max(s)} \in SUBSET (1 .. n)
BY TakesLast DEF Takes, LastPlace

LEMMA FollowerExists ==
    ASSUME NEW n \in Nat, NEW D, NEW base, base \in D, NEW op, IsStep(op, D, 1 .. n)
    PROVE  \E g : g \in [SUBSET (1 .. n) -> D] /\ Follows(g, n, D, base, op)
<1>1. PICK g : IsFold(g, 1 .. n, LastPlace(n), D, base, op)
  BY TakesLast, LeftFoldExists
<1>2. ASSUME NEW s \in SUBSET (1 .. n), s # {}
      PROVE  g[s] = op[<<g[s \ {Finite!Max(s)}], Finite!Max(s)>>]
  <2>1. LastPlace(n)[s] = Finite!Max(s)
    BY DEF LastPlace
  <2> QED
    BY <1>1, <1>2, <2>1 DEF IsFold
<1>3. g[{}] = base /\ g \in [SUBSET (1 .. n) -> D]
  BY <1>1 DEF IsFold
<1> QED
  BY <1>2, <1>3 DEF Follows

LEMMA FollowsIsRun ==
    ASSUME NEW n \in Nat, NEW D, NEW base, base \in D, NEW op, IsStep(op, D, 1 .. n),
           NEW c, Follows(c, n, D, base, op)
    PROVE  \E h : IsRun(h, n, D, base, op) /\ h[n] = c[1 .. n]
<1>1. ASSUME NEW i \in 1 .. n, c[1 .. (i - 1)] \in D PROVE c[1 .. i] = op[<<c[1 .. (i - 1)], i>>]
  <2>1. Finite!Max(1 .. i) = i /\ (1 .. i) \ {i} = 1 .. (i - 1)
    BY LastOfFirst
  <2>2. 1 .. i \in SUBSET (1 .. n) /\ 1 .. i # {}
    OBVIOUS
  <2> DEFINE s == 1 .. i
             r == 1 .. (i - 1)
  <2>3. s \in SUBSET (1 .. n) /\ s # {} /\ Finite!Max(s) = i /\ s \ {i} = r /\ c[r] \in D
    BY <1>1, <2>1, <2>2
  <2> HIDE DEF s, r
  <2>4. c[s] = op[<<c[r], i>>]
    BY <2>3 DEF Follows
  <2> QED
    BY <2>4 DEF s, r
<1>2. c[{}] = base
  BY DEF Follows
<1>3. \A i \in 1 .. n : c[1 .. (i - 1)] \in D => c[1 .. i] = op[<<c[1 .. (i - 1)], i>>]
  BY <1>1
<1> QED
  BY <1>2, <1>3, RunOfFold

(***************************************************************************)
(* Flow as sums: what one arc carries changes.                              *)
(***************************************************************************)

\* The sums of the model are the totals of the lemmas.
LEMMA SumIsTotal == ASSUME NEW f, NEW S PROVE SumOver(f, S) = Total(f, S)
BY DEF SumOver, Total

LEMMA NetworkTypes ==
    ASSUME NEW g, IsNetwork(g), NEW fl, WithinBounds(g, fl)
    PROVE  /\ IsFiniteSet(Edges(g)) /\ IsFiniteSet(g.nodes)
           /\ \A S \in SUBSET Edges(g) : IsFiniteSet(S)
           /\ \A e \in Edges(g) :
                 /\ g.from[e] \in g.nodes /\ g.to[e] \in g.nodes
                 /\ g.lower[e] \in Int /\ g.capacity[e] \in Int /\ fl[e] \in Int
                 /\ g.lower[e] <= fl[e] /\ fl[e] <= g.capacity[e]
<1>1. IsFiniteSet(Edges(g)) /\ IsFiniteSet(g.nodes)
  BY DEF IsNetwork
<1>2. \A S \in SUBSET Edges(g) : IsFiniteSet(S)
  BY <1>1, FS_Subset
<1>3. ASSUME NEW e \in Edges(g)
      PROVE  /\ g.from[e] \in g.nodes /\ g.to[e] \in g.nodes
             /\ g.lower[e] \in Int /\ g.capacity[e] \in Int /\ fl[e] \in Int
             /\ g.lower[e] <= fl[e] /\ fl[e] <= g.capacity[e]
  <2>1. g.lower[e] \in Nat /\ g.capacity[e] \in Nat /\ fl[e] \in g.lower[e]..g.capacity[e]
    BY DEF IsNetwork, WithinBounds
  <2>2. g.from[e] \in g.nodes /\ g.to[e] \in g.nodes
    BY DEF IsNetwork
  <2> QED
    BY <2>1, <2>2
<1> QED
  BY <1>1, <1>2, <1>3

LEMMA AugmentArc ==
    ASSUME NEW g, NEW fl, NEW a \in Arcs(g), NEW amount \in Int, NEW e \in Edges(g), fl[e] \in Int
    PROVE  Augment(g, fl, <<a>>, amount)[e] =
               IF e # a[1] THEN fl[e]
               ELSE IF a[2] = "forward" THEN fl[e] + amount ELSE fl[e] - amount
<1>1. \A b : Uses(<<a>>, b) = IF b = a THEN 1 ELSE 0
  <2> TAKE b
  <2> DEFINE places == {i \in DOMAIN <<a>> : <<a>>[i] = b}
  <2>1. places = IF b = a THEN {1} ELSE {}
    OBVIOUS
  <2>2. Cardinality(places) = IF b = a THEN 1 ELSE 0
    <3> HIDE DEF places
    <3>1. CASE b = a
      <4>1. places = {1}
        BY <3>1, <2>1
      <4> QED
        BY <3>1, <4>1, FS_Singleton
    <3>2. CASE b # a
      <4>1. places = {}
        BY <3>2, <2>1
      <4> QED
        BY <3>2, <4>1, FS_EmptySet
    <3> QED
      BY <3>1, <3>2
  <2> QED
    BY <2>2 DEF Uses
<1>2. Augment(g, fl, <<a>>, amount)[e]
          = fl[e] + amount * Uses(<<a>>, <<e, "forward">>) - amount * Uses(<<a>>, <<e, "reverse">>)
  BY DEF Augment
<1>3. (e = a[1] /\ a[2] = "forward" <=> <<e, "forward">> = a)
      /\ (e = a[1] /\ a[2] = "reverse" <=> <<e, "reverse">> = a)
      /\ a[2] \in {"forward", "reverse"}
  BY DEF Arcs
<1> DEFINE f == Uses(<<a>>, <<e, "forward">>)
           r == Uses(<<a>>, <<e, "reverse">>)
<1>4. /\ f = IF e = a[1] /\ a[2] = "forward" THEN 1 ELSE 0
      /\ r = IF e = a[1] /\ a[2] = "reverse" THEN 1 ELSE 0
  BY <1>1, <1>3
<1>5. Augment(g, fl, <<a>>, amount)[e] = fl[e] + amount * f - amount * r
  BY <1>2
<1> HIDE DEF f, r
<1> QED
  BY <1>3, <1>4, <1>5

LEMMA AugmentKeepsBounds ==
    ASSUME NEW g, IsNetwork(g), NEW fl, WithinBounds(g, fl),
           NEW a \in Arcs(g), NEW amount \in Nat, amount <= Residual(g, fl, a)
    PROVE  WithinBounds(g, Augment(g, fl, <<a>>, amount))
<1> SUFFICES ASSUME NEW e \in Edges(g)
             PROVE  Augment(g, fl, <<a>>, amount)[e] \in g.lower[e]..g.capacity[e]
  BY DEF WithinBounds
<1>1. /\ g.lower[e] \in Int /\ g.capacity[e] \in Int /\ fl[e] \in Int
      /\ g.lower[e] <= fl[e] /\ fl[e] <= g.capacity[e]
  BY NetworkTypes
<1>2. Augment(g, fl, <<a>>, amount)[e] =
          IF e # a[1] THEN fl[e] ELSE IF a[2] = "forward" THEN fl[e] + amount ELSE fl[e] - amount
  BY <1>1, AugmentArc
<1> QED
  BY <1>1, <1>2 DEF Residual

\* The amount shows in a sum over edges if the arc's edge is one of them.
LEMMA AugmentedTotal ==
    ASSUME NEW g, IsNetwork(g), NEW fl, WithinBounds(g, fl),
           NEW a \in Arcs(g), NEW amount \in Int, NEW S \in SUBSET Edges(g)
    PROVE  /\ Total(fl, S) \in Int
           /\ Total(Augment(g, fl, <<a>>, amount), S) = Total(fl, S)
                  + (IF a[1] \notin S THEN 0 ELSE IF a[2] = "forward" THEN amount ELSE -amount)
<1> DEFINE new == Augment(g, fl, <<a>>, amount)
<1>1. IsFiniteSet(S) /\ \A e \in S : fl[e] \in Int
  BY NetworkTypes
<1>2. \A e \in S : new[e] = IF e # a[1] THEN fl[e]
                            ELSE IF a[2] = "forward" THEN fl[e] + amount ELSE fl[e] - amount
  BY <1>1, AugmentArc
<1>3. Total(fl, S) \in Int
  BY <1>1, TotalType
<1> HIDE DEF new
<1>4. \A e \in S : new[e] \in Int
  BY <1>1, <1>2
<1>5. CASE a[1] \notin S
  <2>1. \A e \in S : fl[e] = new[e]
    BY <1>2, <1>5
  <2>2. Total(fl, S) = Total(new, S)
    BY <1>1, <2>1, TotalSame
  <2> QED
    BY <2>2, <1>3, <1>5 DEF new
<1>6. CASE a[1] \in S
  <2>1. \A e \in S \ {a[1]} : new[e] = fl[e]
    BY <1>2
  <2>2. Total(new, S) = Total(fl, S) + new[a[1]] - fl[a[1]]
    <3> HIDE DEF new
    <3>1. /\ IsFiniteSet(S) /\ a[1] \in S
          /\ \A e \in S : fl[e] \in Int /\ new[e] \in Int
      BY <1>1, <1>4, <1>6
    <3>2. \A d \in S : \A old, next :
              (\A e \in S : old[e] \in Int /\ next[e] \in Int) /\ (\A e \in S \ {d} : next[e] = old[e])
              => Total(next, S) = Total(old, S) + next[d] - old[d]
      <4> SUFFICES ASSUME NEW d \in S, NEW old, NEW next,
                          \A e \in S : old[e] \in Int /\ next[e] \in Int,
                          \A e \in S \ {d} : next[e] = old[e]
                   PROVE  Total(next, S) = Total(old, S) + next[d] - old[d]
        OBVIOUS
      <4> QED
        BY <3>1, TotalChange
    <3> QED
      BY ONLY <3>1, <3>2, <2>1
  <2>3. new[a[1]] = IF a[2] = "forward" THEN fl[a[1]] + amount ELSE fl[a[1]] - amount
    BY <1>2, <1>6
  <2>4. fl[a[1]] \in Int
    BY <1>1, <1>6
  <2>5. Total(new, S) = Total(fl, S) + (IF a[2] = "forward" THEN amount ELSE -amount)
    BY <2>2, <2>3, <2>4, <1>3
  <2> QED
    BY <2>5, <1>3, <1>6 DEF new
<1> QED
  BY <1>5, <1>6

LEMMA DivergenceIsTotals ==
    ASSUME NEW g, NEW fl, NEW v
    PROVE  Divergence(g, fl, v) = Total(fl, {e \in Edges(g) : g.from[e] = v})
                                      - Total(fl, {e \in Edges(g) : g.to[e] = v})
<1> DEFINE From == {e \in Edges(g) : g.from[e] = v}
           Into == {e \in Edges(g) : g.to[e] = v}
<1>1. Divergence(g, fl, v) = SumOver(fl, From) - SumOver(fl, Into)
  BY DEF Divergence
<1>2. SumOver(fl, From) = Total(fl, From) /\ SumOver(fl, Into) = Total(fl, Into)
  BY SumIsTotal
<1> QED
  BY <1>1, <1>2

\* What an arc carries leaves one node and arrives at another.
LEMMA AugmentedDivergence ==
    ASSUME NEW g, IsNetwork(g), NEW fl, WithinBounds(g, fl),
           NEW a \in Arcs(g), NEW amount \in Int, NEW v
    PROVE  /\ Divergence(g, fl, v) \in Int
           /\ Divergence(g, Augment(g, fl, <<a>>, amount), v) = Divergence(g, fl, v)
                  + (IF v = ArcFrom(g, a) THEN amount ELSE 0)
                  - (IF v = ArcTo(g, a) THEN amount ELSE 0)
<1> DEFINE From == {e \in Edges(g) : g.from[e] = v}
           Into == {e \in Edges(g) : g.to[e] = v}
           new == Augment(g, fl, <<a>>, amount)
           sent == IF a[2] = "forward" THEN amount ELSE -amount
<1>1. /\ Divergence(g, fl, v) = Total(fl, From) - Total(fl, Into)
      /\ Divergence(g, new, v) = Total(new, From) - Total(new, Into)
  BY DivergenceIsTotals
<1>2. From \in SUBSET Edges(g) /\ Into \in SUBSET Edges(g)
  OBVIOUS
<1>3. a[1] \in Edges(g) /\ a[2] \in {"forward", "reverse"}
  BY DEF Arcs
<1>4. (a[1] \in From <=> g.from[a[1]] = v) /\ (a[1] \in Into <=> g.to[a[1]] = v)
  BY <1>3
<1> HIDE DEF From, Into, new
<1>5. /\ Total(fl, From) \in Int
      /\ Total(new, From) = Total(fl, From) + (IF a[1] \notin From THEN 0 ELSE sent)
      /\ Total(fl, Into) \in Int
      /\ Total(new, Into) = Total(fl, Into) + (IF a[1] \notin Into THEN 0 ELSE sent)
  BY <1>2, AugmentedTotal DEF new
<1>6. (IF a[1] \notin From THEN 0 ELSE sent) - (IF a[1] \notin Into THEN 0 ELSE sent)
          = (IF v = ArcFrom(g, a) THEN amount ELSE 0) - (IF v = ArcTo(g, a) THEN amount ELSE 0)
  <2>1. CASE a[2] = "forward"
    BY <2>1, <1>4 DEF ArcFrom, ArcTo
  <2>2. CASE a[2] = "reverse"
    BY <2>2, <1>4 DEF ArcFrom, ArcTo
  <2> QED
    BY <2>1, <2>2, <1>3
<1> DEFINE f == IF a[1] \notin From THEN 0 ELSE sent
           i == IF a[1] \notin Into THEN 0 ELSE sent
           p == IF v = ArcFrom(g, a) THEN amount ELSE 0
           q == IF v = ArcTo(g, a) THEN amount ELSE 0
<1>7. f \in Int /\ i \in Int /\ p \in Int /\ q \in Int
  OBVIOUS
<1>8. /\ Total(new, From) = Total(fl, From) + f /\ Total(new, Into) = Total(fl, Into) + i
      /\ f - i = p - q
  BY <1>5, <1>6
<1> HIDE DEF f, i, p, q, sent
<1>9. Total(fl, From) \in Int /\ Total(fl, Into) \in Int
  BY <1>5
<1>10. /\ Divergence(g, fl, v) \in Int
       /\ Divergence(g, new, v) = Divergence(g, fl, v) + p - q
  BY <1>1, <1>7, <1>8, <1>9
<1> QED
  BY <1>10 DEF p, q, new

(***************************************************************************)
(* Paths: what flow along one changes, and where one leads that follows the *)
(* arcs by which a search reached its nodes.                                *)
(***************************************************************************)

\* The arcs of a sequence, and an arc's opposite.
ArcsOf(path) == {path[i] : i \in DOMAIN path}
Opposite(a) == <<a[1], IF a[2] = "forward" THEN "reverse" ELSE "forward">>

\* Arcs of which none comes twice, a path of such arcs, and what an arc carries
\* when that amount goes along them.
Listed(g, path, n) ==
    /\ n \in Nat /\ path \in [1 .. n -> Arcs(g)]
    /\ \A i, j \in 1 .. n : path[i] = path[j] => i = j
PathIn(g, path, n) ==
    /\ Listed(g, path, n) /\ n > 0
    /\ \A i \in 1 .. (n - 1) : ArcTo(g, path[i]) = ArcFrom(g, path[i + 1])
Carries(path, b, amount) == IF b \in ArcsOf(path) THEN amount ELSE 0

LEMMA UsedOnce ==
    ASSUME NEW g, NEW n, NEW path, Listed(g, path, n), NEW a
    PROVE  Uses(path, a) = IF a \in ArcsOf(path) THEN 1 ELSE 0
<1>0. /\ n \in Nat /\ path \in [1 .. n -> Arcs(g)]
      /\ \A i, j \in 1 .. n : path[i] = path[j] => i = j
  BY DEF Listed
<1> DEFINE places == {i \in DOMAIN path : path[i] = a}
<1>1. CASE a \in ArcsOf(path)
  <2>1. PICK i \in 1 .. n : path[i] = a
    BY <1>0, <1>1 DEF ArcsOf
  <2>2. places = {i}
    BY <1>0, <2>1
  <2>3. Cardinality(places) = 1
    BY <2>2, FS_Singleton
  <2> QED
    BY <2>3, <1>1 DEF Uses
<1>2. CASE a \notin ArcsOf(path)
  <2>1. places = {}
    BY <1>2 DEF ArcsOf
  <2>2. Cardinality(places) = 0
    BY <2>1, FS_EmptySet
  <2> QED
    BY <2>2, <1>2 DEF Uses
<1> QED
  BY <1>1, <1>2

\* What such a path changes, edge by edge.
LEMMA AugmentOnce ==
    ASSUME NEW g, NEW n, NEW path, Listed(g, path, n),
           NEW fl, NEW amount, amount \in Int
    PROVE  \A e \in Edges(g) : fl[e] \in Int =>
              /\ Carries(path, <<e, "forward">>, amount) \in Int
              /\ Carries(path, <<e, "reverse">>, amount) \in Int
              /\ Augment(g, fl, path, amount)[e] = fl[e] + Carries(path, <<e, "forward">>, amount)
                                                        - Carries(path, <<e, "reverse">>, amount)
<1> TAKE e \in Edges(g)
<1> HAVE fl[e] \in Int
<1> DEFINE f == Uses(path, <<e, "forward">>)
           r == Uses(path, <<e, "reverse">>)
<1>1. /\ f = IF <<e, "forward">> \in ArcsOf(path) THEN 1 ELSE 0
      /\ r = IF <<e, "reverse">> \in ArcsOf(path) THEN 1 ELSE 0
  BY UsedOnce
<1>2. Augment(g, fl, path, amount)[e] = fl[e] + amount * f - amount * r
  BY DEF Augment
<1> HIDE DEF f, r
<1>3. /\ amount * f = Carries(path, <<e, "forward">>, amount)
      /\ amount * r = Carries(path, <<e, "reverse">>, amount)
  BY <1>1 DEF Carries
<1>4. /\ Carries(path, <<e, "forward">>, amount) \in Int
      /\ Carries(path, <<e, "reverse">>, amount) \in Int
  BY DEF Carries
<1> QED
  BY <1>2, <1>3, <1>4

\* Arcs are an edge and a direction.
LEMMA ArcParts ==
    ASSUME NEW g, NEW a \in Arcs(g)
    PROVE  /\ a[1] \in Edges(g) /\ a[2] \in {"forward", "reverse"} /\ a = <<a[1], a[2]>>
           /\ Opposite(a) \in Arcs(g) /\ Opposite(Opposite(a)) = a /\ Opposite(a) # a
           /\ ArcFrom(g, Opposite(a)) = ArcTo(g, a) /\ ArcTo(g, Opposite(a)) = ArcFrom(g, a)
<1>1. a[1] \in Edges(g) /\ a[2] \in {"forward", "reverse"} /\ a = <<a[1], a[2]>>
  BY DEF Arcs
<1>2. CASE a[2] = "forward"
  BY <1>1, <1>2 DEF Opposite, Arcs, ArcFrom, ArcTo
<1>3. CASE a[2] = "reverse"
  BY <1>1, <1>3 DEF Opposite, Arcs, ArcFrom, ArcTo
<1> QED
  BY <1>1, <1>2, <1>3

\* The residual capacity of an arc falls by what it carries and rises by what
\* its opposite does.
LEMMA AugmentedResidual ==
    ASSUME NEW g, IsNetwork(g), NEW fl, WithinBounds(g, fl),
           NEW n, NEW path, Listed(g, path, n),
           NEW amount \in Int, NEW b \in Arcs(g)
    PROVE  /\ Residual(g, fl, b) \in Nat
           /\ Residual(g, Augment(g, fl, path, amount), b) = Residual(g, fl, b)
                  - Carries(path, b, amount) + Carries(path, Opposite(b), amount)
<1>1. b[1] \in Edges(g) /\ b[2] \in {"forward", "reverse"} /\ b = <<b[1], b[2]>>
  BY ArcParts
<1>2. /\ g.lower[b[1]] \in Int /\ g.capacity[b[1]] \in Int /\ fl[b[1]] \in Int
      /\ g.lower[b[1]] <= fl[b[1]] /\ fl[b[1]] <= g.capacity[b[1]]
  BY <1>1, NetworkTypes
<1> DEFINE new == Augment(g, fl, path, amount)
           f == Carries(path, <<b[1], "forward">>, amount)
           r == Carries(path, <<b[1], "reverse">>, amount)
<1>3. new[b[1]] = fl[b[1]] + f - r
  BY <1>1, <1>2, AugmentOnce
<1>4. f \in Int /\ r \in Int
  BY <1>1, <1>2, AugmentOnce
<1> HIDE DEF new
<1>5. CASE b[2] = "forward"
  <2>1. b = <<b[1], "forward">> /\ Opposite(b) = <<b[1], "reverse">>
    BY <1>1, <1>5 DEF Opposite
  <2>2. /\ Residual(g, fl, b) = g.capacity[b[1]] - fl[b[1]]
        /\ Residual(g, new, b) = g.capacity[b[1]] - new[b[1]]
    BY <1>5 DEF Residual
  <2>3. /\ Carries(path, b, amount) = f
        /\ Carries(path, Opposite(b), amount) = r
    BY <2>1
  <2> HIDE DEF f, r
  <2> QED
    BY <1>2, <1>3, <1>4, <2>2, <2>3 DEF new
<1>6. CASE b[2] = "reverse"
  <2>1. b = <<b[1], "reverse">> /\ Opposite(b) = <<b[1], "forward">>
    BY <1>1, <1>6 DEF Opposite
  <2>2. /\ Residual(g, fl, b) = fl[b[1]] - g.lower[b[1]]
        /\ Residual(g, new, b) = new[b[1]] - g.lower[b[1]]
    BY <1>6 DEF Residual
  <2>3. /\ Carries(path, b, amount) = r
        /\ Carries(path, Opposite(b), amount) = f
    BY <2>1
  <2> HIDE DEF f, r
  <2> QED
    BY <1>2, <1>3, <1>4, <2>2, <2>3 DEF new
<1> QED
  BY <1>1, <1>5, <1>6

LEMMA AugmentOnceBounds ==
    ASSUME NEW g, IsNetwork(g), NEW fl, WithinBounds(g, fl),
           NEW n, NEW path, Listed(g, path, n),
           NEW amount \in Nat, \A i \in 1 .. n : amount <= Residual(g, fl, path[i])
    PROVE  WithinBounds(g, Augment(g, fl, path, amount))
<1> DEFINE new == Augment(g, fl, path, amount)
<1> SUFFICES ASSUME NEW e \in Edges(g) PROVE new[e] \in g.lower[e] .. g.capacity[e]
  BY DEF WithinBounds
<1>1. /\ g.lower[e] \in Int /\ g.capacity[e] \in Int /\ fl[e] \in Int
      /\ g.lower[e] <= fl[e] /\ fl[e] <= g.capacity[e]
  BY NetworkTypes
<1>0. n \in Nat /\ path \in [1 .. n -> Arcs(g)] /\ amount \in Int
  BY DEF Listed
<1> DEFINE f == Carries(path, <<e, "forward">>, amount)
           r == Carries(path, <<e, "reverse">>, amount)
<1>2. new[e] = fl[e] + f - r
  BY <1>0, <1>1, AugmentOnce
<1>3. f \in 0 .. (g.capacity[e] - fl[e])
  <2>0. CASE <<e, "forward">> \notin ArcsOf(path)
    BY <1>1, <2>0 DEF Carries
  <2> SUFFICES ASSUME <<e, "forward">> \in ArcsOf(path) PROVE amount <= g.capacity[e] - fl[e]
    BY <1>1, <2>0 DEF Carries
  <2>1. PICK i \in 1 .. n : path[i] = <<e, "forward">>
    BY <1>0 DEF ArcsOf
  <2>2. amount <= Residual(g, fl, <<e, "forward">>)
    BY <2>1
  <2> QED
    BY <2>2 DEF Residual
<1>4. r \in 0 .. (fl[e] - g.lower[e])
  <2>0. CASE <<e, "reverse">> \notin ArcsOf(path)
    BY <1>1, <2>0 DEF Carries
  <2> SUFFICES ASSUME <<e, "reverse">> \in ArcsOf(path) PROVE amount <= fl[e] - g.lower[e]
    BY <1>1, <2>0 DEF Carries
  <2>1. PICK i \in 1 .. n : path[i] = <<e, "reverse">>
    BY <1>0 DEF ArcsOf
  <2>2. amount <= Residual(g, fl, <<e, "reverse">>)
    BY <2>1
  <2> QED
    BY <2>2 DEF Residual
<1> HIDE DEF new, f, r
<1> QED
  BY <1>1, <1>2, <1>3, <1>4

\* The first arcs of a path.
FirstArcs(path, m) == [i \in 1 .. m |-> path[i]]

LEMMA FirstListed ==
    ASSUME NEW g, NEW n, NEW path, Listed(g, path, n), NEW m \in 0 .. n
    PROVE  Listed(g, FirstArcs(path, m), m)
BY DEF Listed, FirstArcs

LEMMA OneMoreArc ==
    ASSUME NEW g, IsNetwork(g), NEW fl, WithinBounds(g, fl),
           NEW n, NEW path, Listed(g, path, n),
           NEW amount, amount \in Int
    PROVE  \A m \in 1 .. n : WithinBounds(g, Augment(g, fl, FirstArcs(path, m - 1), amount)) =>
               Augment(g, fl, FirstArcs(path, m), amount)
                   = Augment(g, Augment(g, fl, FirstArcs(path, m - 1), amount), <<path[m]>>, amount)
<1> TAKE m \in 1 .. n
<1> DEFINE mid == Augment(g, fl, FirstArcs(path, m - 1), amount)
<1> HAVE WithinBounds(g, mid)
<1> DEFINE next == Augment(g, fl, FirstArcs(path, m), amount)
           last == Augment(g, mid, <<path[m]>>, amount)
           a == path[m]
<1>0. /\ n \in Nat /\ path \in [1 .. n -> Arcs(g)]
      /\ \A i, j \in 1 .. n : path[i] = path[j] => i = j
  BY DEF Listed
<1>1. m - 1 \in Nat /\ m \in Nat /\ a \in Arcs(g) /\ m \in 0 .. n /\ m - 1 \in 0 .. n
  BY <1>0
<1>2. Listed(g, FirstArcs(path, m), m) /\ Listed(g, FirstArcs(path, m - 1), m - 1)
  BY <1>1, FirstListed
<1>3. \A b : b \in ArcsOf(FirstArcs(path, m)) <=> b \in ArcsOf(FirstArcs(path, m - 1)) \/ b = a
  BY <1>1 DEF ArcsOf, FirstArcs
<1>4. a \notin ArcsOf(FirstArcs(path, m - 1))
  <2> SUFFICES ASSUME NEW i \in 1 .. (m - 1), path[i] = path[m] PROVE FALSE
    BY DEF ArcsOf, FirstArcs
  <2>1. i \in 1 .. n /\ i # m
    BY <1>0
  <2> QED
    BY <1>0, <2>1
<1>5. ASSUME NEW e \in Edges(g) PROVE next[e] = last[e]
  <2>1. fl[e] \in Int /\ mid[e] \in Int
    BY NetworkTypes
  <2> DEFINE f == Carries(FirstArcs(path, m - 1), <<e, "forward">>, amount)
             r == Carries(FirstArcs(path, m - 1), <<e, "reverse">>, amount)
             p == Carries(FirstArcs(path, m), <<e, "forward">>, amount)
             q == Carries(FirstArcs(path, m), <<e, "reverse">>, amount)
  <2>2. mid[e] = fl[e] + f - r
    BY <1>1, <1>2, <2>1, AugmentOnce
  <2>3. next[e] = fl[e] + p - q
    BY <1>1, <1>2, <2>1, AugmentOnce
  <2>4. last[e] = IF e # a[1] THEN mid[e]
                  ELSE IF a[2] = "forward" THEN mid[e] + amount ELSE mid[e] - amount
    BY <1>1, <2>1, AugmentArc
  <2>5. a[2] \in {"forward", "reverse"} /\ a = <<a[1], a[2]>>
    BY <1>1, ArcParts
  <2>6. /\ p = IF a = <<e, "forward">> THEN amount ELSE f
        /\ q = IF a = <<e, "reverse">> THEN amount ELSE r
    BY <1>3 DEF Carries
  <2>7. /\ a = <<e, "forward">> => f = 0
        /\ a = <<e, "reverse">> => r = 0
    BY <1>4 DEF Carries
  <2>8. f \in Int /\ r \in Int
    BY <1>2, <2>1, AugmentOnce
  <2> HIDE DEF f, r, p, q, a, mid, next, last
  <2>9. CASE a = <<e, "forward">>
    <3>1. last[e] = mid[e] + amount /\ p = amount /\ q = r /\ f = 0
      BY <2>4, <2>6, <2>7, <2>9
    <3> QED
      BY <2>1, <2>2, <2>3, <2>8, <3>1
  <2>10. CASE a = <<e, "reverse">>
    <3>1. last[e] = mid[e] - amount /\ p = f /\ q = amount /\ r = 0
      BY <2>4, <2>6, <2>7, <2>10
    <3> QED
      BY <2>1, <2>2, <2>3, <2>8, <3>1
  <2>11. CASE a # <<e, "forward">> /\ a # <<e, "reverse">>
    <3>1. e # a[1]
      BY <2>5, <2>11
    <3> QED
      BY <2>2, <2>3, <2>4, <2>6, <2>11, <3>1
  <2> QED
    BY <2>9, <2>10, <2>11
<1> HIDE DEF mid, next, last
<1>6. /\ next = [e \in Edges(g) |-> next[e]] /\ last = [e \in Edges(g) |-> last[e]]
  BY DEF next, last, Augment
<1>7. next = last
  BY <1>5, <1>6
<1> QED
  BY <1>7 DEF mid, next, last

\* What a path carries leaves the node it starts from and arrives where it ends.
LEMMA AugmentAlong ==
    ASSUME NEW g, IsNetwork(g), NEW fl, WithinBounds(g, fl), NEW n, NEW path, PathIn(g, path, n),
           NEW amount \in Nat, \A i \in 1 .. n : amount <= Residual(g, fl, path[i])
    PROVE  /\ WithinBounds(g, Augment(g, fl, path, amount))
           /\ \A v : /\ Divergence(g, fl, v) \in Int
                     /\ Divergence(g, Augment(g, fl, path, amount), v) = Divergence(g, fl, v)
                            + (IF v = ArcFrom(g, path[1]) THEN amount ELSE 0)
                            - (IF v = ArcTo(g, path[n]) THEN amount ELSE 0)
<1>0. /\ n \in Nat \ {0} /\ path \in [1 .. n -> Arcs(g)] /\ Listed(g, path, n)
      /\ \A i \in 1 .. (n - 1) : ArcTo(g, path[i]) = ArcFrom(g, path[i + 1])
  BY DEF PathIn, Listed
<1> DEFINE Mid(m) == Augment(g, fl, FirstArcs(path, m), amount)
<1>1. \A m \in 0 .. n : WithinBounds(g, Mid(m))
  <2> TAKE m \in 0 .. n
  <2>1. Listed(g, FirstArcs(path, m), m)
    BY <1>0, FirstListed
  <2>2. \A i \in 1 .. m : amount <= Residual(g, fl, FirstArcs(path, m)[i])
    BY <1>0 DEF FirstArcs
  <2> QED
    BY <2>1, <2>2, AugmentOnceBounds
<1>2. \A m \in 1 .. n : Mid(m) = Augment(g, Mid(m - 1), <<path[m]>>, amount)
  <2>1. amount \in Int /\ Listed(g, path, n)
    BY <1>0
  <2>2. \A m \in 1 .. n : WithinBounds(g, Mid(m - 1)) =>
            Mid(m) = Augment(g, Mid(m - 1), <<path[m]>>, amount)
    BY <2>1, OneMoreArc
  <2>3. \A m \in 1 .. n : m - 1 \in 0 .. n
    BY <1>0
  <2> HIDE DEF Mid
  <2> QED
    BY <1>1, <2>2, <2>3
<1>3. \A v : Divergence(g, Mid(0), v) = Divergence(g, fl, v)
  <2> TAKE v
  <2>1. ASSUME NEW e \in Edges(g) PROVE Mid(0)[e] = fl[e] /\ fl[e] \in Int
    <3>1. fl[e] \in Int
      BY NetworkTypes
    <3>2. Listed(g, FirstArcs(path, 0), 0) /\ amount \in Int
      BY <1>0, FirstListed
    <3>3. \A b : Carries(FirstArcs(path, 0), b, amount) = 0
      BY DEF FirstArcs, ArcsOf, Carries
    <3>4. Mid(0)[e] = fl[e] + Carries(FirstArcs(path, 0), <<e, "forward">>, amount)
                            - Carries(FirstArcs(path, 0), <<e, "reverse">>, amount)
      BY <3>1, <3>2, AugmentOnce
    <3> QED
      BY <3>1, <3>3, <3>4
  <2> HIDE DEF Mid
  <2>2. \A S \in SUBSET Edges(g) : Total(Mid(0), S) = Total(fl, S)
    <3> TAKE S \in SUBSET Edges(g)
    <3>1. IsFiniteSet(S)
      BY NetworkTypes
    <3>2. \A e \in S : Mid(0)[e] \in Int /\ Mid(0)[e] = fl[e]
      BY <2>1
    <3> QED
      BY <3>1, <3>2, TotalSame
  <2> DEFINE Out == {e \in Edges(g) : g.from[e] = v}
             In == {e \in Edges(g) : g.to[e] = v}
  <2>3. /\ Divergence(g, fl, v) = Total(fl, Out) - Total(fl, In)
        /\ Divergence(g, Mid(0), v) = Total(Mid(0), Out) - Total(Mid(0), In)
    BY DivergenceIsTotals
  <2>4. Out \in SUBSET Edges(g) /\ In \in SUBSET Edges(g)
    OBVIOUS
  <2> HIDE DEF Out, In
  <2> QED
    BY <2>2, <2>3, <2>4
<1>4. Mid(n) = Augment(g, fl, path, amount)
  <2>1. FirstArcs(path, n) = path
    BY <1>0 DEF FirstArcs
  <2> QED
    BY <2>1
<1> DEFINE at(v, w) == IF v = w THEN amount ELSE 0
<1>5. ASSUME NEW v
      PROVE  /\ Divergence(g, fl, v) \in Int
             /\ Divergence(g, Mid(n), v)
                    = Divergence(g, fl, v) + at(v, ArcFrom(g, path[1])) - at(v, ArcTo(g, path[n]))
  <2> DEFINE D(m) == Divergence(g, Mid(m), v)
             good == {m \in 0 .. n : /\ D(m) \in Int
                                     /\ m > 0 => D(m) = D(0) + at(v, ArcFrom(g, path[1]))
                                                             - at(v, ArcTo(g, path[m]))}
  <2>1. ASSUME NEW m \in 1 .. n
        PROVE  /\ D(m - 1) \in Int
               /\ D(m) = D(m - 1) + at(v, ArcFrom(g, path[m])) - at(v, ArcTo(g, path[m]))
    <3>1. WithinBounds(g, Mid(m - 1)) /\ path[m] \in Arcs(g) /\ amount \in Int
      BY <1>0, <1>1
    <3>2. Mid(m) = Augment(g, Mid(m - 1), <<path[m]>>, amount)
      BY <1>2
    <3> HIDE DEF Mid
    <3> QED
      BY <3>1, <3>2, AugmentedDivergence
  <2>2. D(0) \in Int
    BY <1>0, <2>1
  <2> HIDE DEF D
  <2>3. 0 \in good
    BY <1>0, <2>2
  <2>4. \A m \in 0 .. n : m > 0 /\ m - 1 \in good => m \in good
    <3> SUFFICES ASSUME NEW m \in 0 .. n, m > 0, m - 1 \in good PROVE m \in good
      OBVIOUS
    <3>1. m \in 1 .. n
      BY <1>0
    <3>2. /\ D(m - 1) \in Int
          /\ D(m) = D(m - 1) + at(v, ArcFrom(g, path[m])) - at(v, ArcTo(g, path[m]))
      BY <2>1, <3>1
    <3>3. at(v, ArcFrom(g, path[m])) \in Int /\ at(v, ArcTo(g, path[m])) \in Int
          /\ at(v, ArcFrom(g, path[1])) \in Int /\ at(v, ArcTo(g, path[m - 1])) \in Int
      OBVIOUS
    <3>4. CASE m = 1
      <4>1. D(m) = D(0) + at(v, ArcFrom(g, path[1])) - at(v, ArcTo(g, path[m]))
        BY <3>2, <3>4
      <4> HIDE DEF at
      <4>2. D(m) \in Int
        BY <3>2, <3>3
      <4> QED
        BY <4>1, <4>2
    <3>5. CASE m > 1
      <4>1. m - 1 \in 1 .. (n - 1) /\ (m - 1) + 1 = m
        BY <1>0, <3>1, <3>5
      <4>2. ArcTo(g, path[m - 1]) = ArcFrom(g, path[m])
        BY <1>0, <4>1
      <4>3. D(m - 1) = D(0) + at(v, ArcFrom(g, path[1])) - at(v, ArcTo(g, path[m - 1]))
        BY <3>5
      <4>4. at(v, ArcTo(g, path[m - 1])) = at(v, ArcFrom(g, path[m]))
        BY <4>2
      <4> HIDE DEF at
      <4>5. D(m) \in Int /\ D(m) = D(0) + at(v, ArcFrom(g, path[1])) - at(v, ArcTo(g, path[m]))
        BY <2>2, <3>2, <3>3, <4>3, <4>4
      <4> QED
        BY <4>5
    <3> QED
      BY <3>1, <3>4, <3>5
  <2>5. n \in good
    <3>1. n \in Nat /\ n \in 0 .. n
      BY <1>0
    <3> HIDE DEF good
    <3> QED
      BY <2>3, <2>4, <3>1, UpToInduction
  <2>6. D(0) = Divergence(g, fl, v)
    BY <1>3 DEF D
  <2> QED
    BY <1>0, <2>2, <2>5, <2>6 DEF D
<1>6. n \in 0 .. n
  BY <1>0
<1> QED
  BY <1>1, <1>4, <1>5, <1>6

\* The nodes a search has reached, each with the node it was reached from, lead
\* back to a root if no set of them, without a root, contains where all of its
\* nodes were reached from.
NoClosedSet(V, up, roots) ==
    \A S \in SUBSET (V \ roots) : S # {} => \E u \in S : up[u] \notin S
LeadsBack(V, up, roots, v, n, at) ==
    /\ n \in Nat /\ at \in [0 .. n -> V] /\ at[0] = v /\ at[n] \in roots
    /\ \A i \in 0 .. (n - 1) : at[i] \notin roots /\ at[i + 1] = up[at[i]]
    /\ \A i, j \in 0 .. n : at[i] = at[j] => i = j

LEMMA WayBack ==
    ASSUME NEW V, NEW roots, NEW up, \A v \in V \ roots : up[v] \in V,
           NoClosedSet(V, up, roots), NEW v \in V
    PROVE  \E n, at : LeadsBack(V, up, roots, v, n, at)
<1> DEFINE good == {u \in V : \E n, at : LeadsBack(V, up, roots, u, n, at)}
           S == V \ good
<1>1. \A u \in V \cap roots : u \in good
  <2> SUFFICES ASSUME NEW u \in V, u \in roots PROVE \E n, at : LeadsBack(V, up, roots, u, n, at)
    OBVIOUS
  <2> DEFINE at == [i \in 0 .. 0 |-> u]
  <2>1. LeadsBack(V, up, roots, u, 0, at)
    BY DEF LeadsBack
  <2> QED
    BY <2>1
<1>2. ASSUME NEW u \in S, up[u] \in good PROVE FALSE
  <2>1. PICK n, at : LeadsBack(V, up, roots, up[u], n, at)
    BY <1>2
  <2>2. /\ n \in Nat /\ at \in [0 .. n -> V] /\ at[0] = up[u] /\ at[n] \in roots
        /\ \A i \in 0 .. (n - 1) : at[i] \notin roots /\ at[i + 1] = up[at[i]]
        /\ \A i, j \in 0 .. n : at[i] = at[j] => i = j
    BY <2>1 DEF LeadsBack
  <2>3. u \in V /\ u \notin good /\ u \notin roots
    BY <1>1
  <2>4. ASSUME NEW i \in 0 .. n, at[i] = u PROVE FALSE
    <3> DEFINE m == n - i
               rest == [j \in 0 .. m |-> at[i + j]]
    <3>1. m \in Nat /\ \A j \in 0 .. m : i + j \in 0 .. n
      BY <2>2
    <3>2. \A j \in 0 .. (m - 1) : j \in 0 .. m /\ j + 1 \in 0 .. m /\ i + j \in 0 .. (n - 1)
                                  /\ i + (j + 1) = (i + j) + 1
      BY <2>2
    <3>3. i + 0 = i /\ i + m = n /\ 0 \in 0 .. m /\ m \in 0 .. m
      BY <2>2
    <3> HIDE DEF m
    <3>4. rest \in [0 .. m -> V] /\ rest[0] = u /\ rest[m] \in roots
      BY <2>2, <2>4, <3>1, <3>3
    <3>5. \A j \in 0 .. (m - 1) : rest[j] \notin roots /\ rest[j + 1] = up[rest[j]]
      BY <2>2, <3>2
    <3>6. \A j, k \in 0 .. m : rest[j] = rest[k] => j = k
      <4> SUFFICES ASSUME NEW j \in 0 .. m, NEW k \in 0 .. m, at[i + j] = at[i + k] PROVE j = k
        OBVIOUS
      <4>1. i + j \in 0 .. n /\ i + k \in 0 .. n
        BY <3>1
      <4>2. i + j = i + k
        BY <2>2, <4>1
      <4> QED
        BY <3>1, <4>2
    <3> HIDE DEF rest
    <3>7. LeadsBack(V, up, roots, u, m, rest)
      BY <3>1, <3>4, <3>5, <3>6 DEF LeadsBack
    <3> QED
      BY <2>3, <3>7
  <2> DEFINE longer == [i \in 0 .. (n + 1) |-> IF i = 0 THEN u ELSE at[i - 1]]
  <2>5. \A i \in 1 .. (n + 1) : i - 1 \in 0 .. n /\ i \in 0 .. (n + 1) /\ i # 0
    BY <2>2
  <2>6. longer \in [0 .. (n + 1) -> V] /\ longer[0] = u /\ longer[n + 1] \in roots
    BY <2>2, <2>3, <2>5
  <2>7. \A i \in 0 .. ((n + 1) - 1) : longer[i] \notin roots /\ longer[i + 1] = up[longer[i]]
    <3> TAKE i \in 0 .. ((n + 1) - 1)
    <3>1. i + 1 \in 1 .. (n + 1) /\ (i + 1) - 1 = i
      BY <2>2
    <3>2. longer[i + 1] = at[i]
      BY <2>5, <3>1
    <3>3. CASE i = 0
      BY <2>2, <2>3, <2>6, <3>2, <3>3
    <3>4. CASE i # 0
      <4>1. i - 1 \in 0 .. (n - 1) /\ (i - 1) + 1 = i /\ i \in 1 .. (n + 1)
        BY <2>2, <3>4
      <4>2. longer[i] = at[i - 1]
        BY <2>5, <4>1
      <4>3. at[i - 1] \notin roots /\ at[i] = up[at[i - 1]]
        BY <2>2, <4>1
      <4> QED
        BY <3>2, <4>2, <4>3
    <3> QED
      BY <3>3, <3>4
  <2>8. \A i, j \in 0 .. (n + 1) : longer[i] = longer[j] => i = j
    <3> SUFFICES ASSUME NEW i \in 0 .. (n + 1), NEW j \in 0 .. (n + 1), longer[i] = longer[j]
                 PROVE  i = j
      OBVIOUS
    <3>1. \A x \in 0 .. (n + 1) : x # 0 => x \in 1 .. (n + 1)
      BY <2>2
    <3>2. \A x \in 1 .. (n + 1) : longer[x] = at[x - 1] /\ x - 1 \in 0 .. n
      BY <2>5
    <3> HIDE DEF longer
    <3>3. CASE i = 0 \/ j = 0
      BY <2>4, <2>6, <3>1, <3>2, <3>3
    <3>4. CASE i # 0 /\ j # 0
      <4>1. at[i - 1] = at[j - 1] /\ i - 1 \in 0 .. n /\ j - 1 \in 0 .. n
        BY <3>1, <3>2, <3>4
      <4>2. i - 1 = j - 1
        BY <2>2, <4>1
      <4> QED
        BY <2>2, <4>2
    <3> QED
      BY <3>3, <3>4
  <2> HIDE DEF longer
  <2>9. LeadsBack(V, up, roots, u, n + 1, longer)
    BY <2>2, <2>6, <2>7, <2>8 DEF LeadsBack
  <2> QED
    BY <2>3, <2>9
<1>3. S \in SUBSET (V \ roots)
  BY <1>1
<1>4. \A u \in S : up[u] \in S
  BY <1>2, <1>3
<1>5. S = {}
  BY <1>3, <1>4 DEF NoClosedSet
<1> QED
  BY <1>5

\* Distinct nodes are at most as many as there are.
LEMMA WayIsShort ==
    ASSUME NEW V, IsFiniteSet(V), NEW n \in Nat, NEW at \in [0 .. n -> V],
           \A i, j \in 0 .. n : at[i] = at[j] => i = j
    PROVE  Cardinality(V) \in Nat /\ n < Cardinality(V)
<1>1. Cardinality(V) \in Nat
  BY FS_CardinalityType
<1>2. IsFiniteSet(0 .. n) /\ Cardinality(0 .. n) = n + 1
  BY FS_Interval
<1> SUFFICES ASSUME n >= Cardinality(V) PROVE FALSE
  BY <1>1
<1>3. Cardinality(V) < Cardinality(0 .. n)
  BY <1>1, <1>2
<1>4. \E x, y \in 0 .. n : x # y /\ at[x] = at[y]
  BY <1>1, <1>2, <1>3, FS_PigeonHole
<1> QED
  BY <1>4

(***************************************************************************)
(* Factors and classes of summands, whole multiples, digits and powers of   *)
(* two.                                                                     *)
(***************************************************************************)

\* What the provers are to know of products.
LEMMA Distributes == \A a, b, c \in Int : a * b \in Int /\ a * (b + c) = a * b + a * c
OBVIOUS

LEMMA Monotone == \A a, b, c \in Int : (a < b => c >= 0) /\ (b < a => c <= 0) => c * a <= c * b
OBVIOUS

\* A factor of every summand is a factor of the sum.
LEMMA TotalTimes ==
    ASSUME NEW S, IsFiniteSet(S), NEW c \in Int, NEW f, NEW h,
           \A x \in S : f[x] \in Int /\ h[x] = c * f[x]
    PROVE  Total(h, S) = c * Total(f, S)
<1> DEFINE good == {T \in SUBSET S : Total(h, T) = c * Total(f, T)}
<1>1. {} \in good
  <2>1. Total(h, {}) = 0 /\ Total(f, {}) = 0
    BY TotalStep
  <2>2. c * 0 = 0
    OBVIOUS
  <2> QED
    BY <2>1, <2>2
<1>2. ASSUME NEW T \in SUBSET S, NEW x \in S \ T, T \in good PROVE T \cup {x} \in good
  <2>1. IsFiniteSet(T)
    BY FS_Subset
  <2>2. \A y \in T \cup {x} : f[y] \in Int /\ h[y] \in Int
    BY Distributes
  <2>3. /\ Total(h, T \cup {x}) = h[x] + Total(h, T)
        /\ Total(f, T \cup {x}) = f[x] + Total(f, T)
    BY <2>1, <2>2, TotalAdd
  <2>4. Total(f, T) \in Int /\ f[x] \in Int
    BY <2>1, <2>2, TotalType
  <2>5. Total(h, T) = c * Total(f, T) /\ h[x] = c * f[x]
    BY <1>2
  <2>6. c * (f[x] + Total(f, T)) = c * f[x] + c * Total(f, T)
    BY <2>4, Distributes
  <2>7. Total(h, T \cup {x}) = c * Total(f, T \cup {x})
    BY <2>3, <2>5, <2>6
  <2> QED
    BY <2>7
<1> HIDE DEF good
<1>3. S \in good
  BY <1>1, <1>2, SubsetInduction
<1> QED
  BY <1>3 DEF good

\* Factors and amounts, element by element; a function of nodes as one of edges.
Times(w, x, S) == [e \in S |-> w[e] * x[e]]
ByClass(p, class, E) == [e \in E |-> p[class[e]]]

\* Weighted amounts are integers.
LEMMA TimesIsInt ==
    ASSUME NEW S, NEW w, NEW x, \A e \in S : w[e] \in Int /\ x[e] \in Int
    PROVE  \A e \in S : Times(w, x, S)[e] \in Int /\ Times(w, x, S)[e] = w[e] * x[e]
BY Distributes DEF Times

\* What edges carry, weighted by their class, is what each class carries,
\* weighted.
LEMMA WeightedByClass ==
    ASSUME NEW E, IsFiniteSet(E), NEW S, IsFiniteSet(S),
           NEW class, \A e \in E : class[e] \in S,
           NEW p, \A v \in S : p[v] \in Int,
           NEW x, \A e \in E : x[e] \in Int,
           NEW sums, \A v \in S : sums[v] = Total(x, OfClass(E, class, v))
    PROVE  /\ \A v \in S : sums[v] \in Int
           /\ Total(Times(p, sums, S), S) = Total(Times(ByClass(p, class, E), x, E), E)
<1> DEFINE w == ByClass(p, class, E)
           f == Times(w, x, E)
           h == Times(p, sums, S)
<1>1. \A e \in E : w[e] = p[class[e]] /\ w[e] \in Int
  BY DEF ByClass
<1> HIDE DEF w
<1>2. \A e \in E : f[e] \in Int /\ f[e] = w[e] * x[e]
  BY <1>1, TimesIsInt
<1>3. \A v \in S : /\ IsFiniteSet(OfClass(E, class, v))
                   /\ \A e \in OfClass(E, class, v) : e \in E /\ class[e] = v
  BY FS_Subset DEF OfClass
<1>4. \A v \in S : sums[v] \in Int
  <2> TAKE v \in S
  <2>1. Total(x, OfClass(E, class, v)) \in Int
    BY <1>3, TotalType
  <2> QED
    BY <2>1
<1>5. \A v \in S : h[v] = p[v] * sums[v]
  BY <1>4, TimesIsInt
<1> HIDE DEF f, h
<1>6. \A v \in S : h[v] = Total(f, OfClass(E, class, v))
  <2> TAKE v \in S
  <2>1. \A e \in OfClass(E, class, v) : x[e] \in Int /\ f[e] = p[v] * x[e]
    BY <1>1, <1>2, <1>3
  <2>2. Total(f, OfClass(E, class, v)) = p[v] * Total(x, OfClass(E, class, v))
    BY <1>3, <2>1, TotalTimes
  <2> QED
    BY <1>5, <2>2
<1>7. Total(h, S) = Total(f, OfClasses(E, class, S))
  BY <1>2, <1>6, TotalByClass
<1>8. OfClasses(E, class, S) = E
  BY DEF OfClasses
<1>9. Total(h, S) = Total(f, E)
  BY <1>7, <1>8
<1> QED
  BY <1>4, <1>9 DEF f, h, w

\* Division by a positive number leaves a remainder below it.
LEMMA DivMod == \A x \in Int : \A m \in Nat \ {0} :
    x \div m \in Int /\ x % m \in 0 .. (m - 1) /\ x = m * (x \div m) + (x % m)
OBVIOUS

\* Whole multiples of m.
LEMMA WholeMultiples ==
    ASSUME NEW m \in Nat \ {0}, NEW x \in Int, NEW y \in Int, m * x <= m * y + (m - 1)
    PROVE  x <= y
<1> SUFFICES ASSUME x >= y + 1 PROVE FALSE
  OBVIOUS
<1>1. \A i, j \in Int : i >= j => m * i >= m * j
  OBVIOUS
<1>2. m * x >= m * (y + 1) /\ m * (y + 1) = m * y + m
  BY <1>1
<1>3. m * x \in Int /\ m * y \in Int
  OBVIOUS
<1> QED
  BY <1>2, <1>3

\* More residues than nodes: some residue is the residue of no price.
LEMMA FreeResidue ==
    ASSUME NEW S, IsFiniteSet(S), NEW n \in Nat, n = Cardinality(S), NEW f \in [S -> 0 .. n]
    PROVE  \E t \in 0 .. n : \A v \in S : f[v] # t
<1> SUFFICES ASSUME \A t \in 0 .. n : \E v \in S : f[v] = t PROVE FALSE
  OBVIOUS
<1>1. f \in Surjection(S, 0 .. n)
  BY Fun_IsSurj
<1>2. Cardinality(0 .. n) <= Cardinality(S)
  BY <1>1, FS_Surjection
<1>3. Cardinality(0 .. n) = n + 1
  BY FS_Interval
<1> QED
  BY <1>2, <1>3

\* Prices counted in whole multiples of m from a residue none of them has.
LEMMA Rounded ==
    ASSUME NEW S, IsFiniteSet(S), NEW n \in Nat, n = Cardinality(S), NEW p \in [S -> Int]
    PROVE  \E t \in Int : \E pot \in [S -> Int] : \E r \in [S -> 1 .. n] :
               \A v \in S : p[v] = (n + 1) * pot[v] + r[v] + t
<1> DEFINE m == n + 1
           f == [v \in S |-> p[v] % m]
<1>1. m \in Nat \ {0} /\ m = n + 1
  OBVIOUS
<1> HIDE DEF m
<1>2. \A v \in S : /\ p[v] \div m \in Int /\ f[v] \in 0 .. n
                   /\ p[v] = m * (p[v] \div m) + f[v]
  <2> TAKE v \in S
  <2> DEFINE x == p[v]
  <2>1. x \in Int /\ f[v] = x % m
    OBVIOUS
  <2> HIDE DEF x, f
  <2>2. x \div m \in Int /\ x % m \in 0 .. (m - 1) /\ x = m * (x \div m) + (x % m)
    BY <1>1, <2>1, DivMod
  <2>3. m - 1 = n
    BY <1>1
  <2> QED
    BY <2>1, <2>2, <2>3 DEF x
<1>3. f \in [S -> 0 .. n]
  BY <1>2
<1> HIDE DEF f
<1>4. PICK t \in 0 .. n : \A v \in S : f[v] # t
  BY <1>3, FreeResidue
<1> DEFINE pot == [v \in S |-> IF f[v] > t THEN p[v] \div m ELSE (p[v] \div m) - 1]
           r == [v \in S |-> IF f[v] > t THEN f[v] - t ELSE f[v] - t + m]
<1>5. ASSUME NEW v \in S
      PROVE  pot[v] \in Int /\ r[v] \in 1 .. n /\ p[v] = m * pot[v] + r[v] + t
  <2> DEFINE d == p[v] \div m
             e == f[v]
             x == p[v]
  <2>1. d \in Int /\ e \in 0 .. n /\ e # t /\ x = m * d + e /\ m * d \in Int
    <3>1. \A i \in Int : m * i \in Int
      BY <1>1
    <3> QED
      BY <1>2, <1>4, <3>1
  <2>2. pot[v] = (IF e > t THEN d ELSE d - 1) /\ r[v] = (IF e > t THEN e - t ELSE e - t + m)
    OBVIOUS
  <2> HIDE DEF d, e, x, pot, r
  <2>3. CASE e > t
    <3>1. pot[v] = d /\ r[v] = e - t
      BY <2>2, <2>3
    <3> QED
      BY <2>1, <2>3, <3>1 DEF x
  <2>4. CASE ~(e > t)
    <3>1. pot[v] = d - 1 /\ r[v] = e - t + m
      BY <2>2, <2>4
    <3>2. \A i \in Int : m * (i - 1) = m * i - m
      BY <1>1
    <3>3. m * pot[v] = m * d - m
      BY <2>1, <3>1, <3>2
    <3>4. e < t
      BY <2>1, <2>4
    <3> QED
      BY <1>1, <2>1, <3>1, <3>3, <3>4 DEF x
  <2> QED
    BY <2>3, <2>4
<1>6. t \in Int /\ pot \in [S -> Int] /\ r \in [S -> 1 .. n]
  BY <1>5
<1> HIDE DEF pot, r
<1>7. \A v \in S : p[v] = (n + 1) * pot[v] + r[v] + t
  BY <1>5 DEF m
<1> QED
  BY <1>6, <1>7

\* The last digit of a distance, one arc further.
LEMMA DigitAdds ==
    ASSUME NEW c \in Nat, NEW m \in Nat \ {0}, NEW r \in Nat, NEW u \in {0, 1}, (c % m) + u < m
    PROVE  /\ (c + (r * m + u)) % m = (c % m) + u
           /\ (c + (r * m + u)) \div m = c \div m + r
<1> DEFINE q == c \div m
           d == c % m
           e == c + (r * m + u)
<1>1. c = m * q + d /\ q \in Int /\ d \in 0 .. (m - 1)
  BY DivMod
<1>2. e \in Nat
  <2>1. r * m \in Nat
    OBVIOUS
  <2> QED
    BY <2>1
<1>3. e = m * (e \div m) + (e % m) /\ e \div m \in Int /\ e % m \in 0 .. (m - 1)
  <2> HIDE DEF e
  <2> QED
    BY <1>2, DivMod
<1> DEFINE f == e \div m
           g == e % m
<1>4. m * (q + r) = m * q + r * m
  BY <1>1
<1>5. e = m * (q + r) + (d + u) /\ d + u \in 0 .. (m - 1)
  BY <1>1, <1>4
<1> HIDE DEF q, d, e, f, g
<1>6. e = m * f + g /\ f \in Int /\ g \in 0 .. (m - 1)
  BY <1>3 DEF f, g
<1>7. f = q + r
  <2>1. q + r \in Int
    BY <1>1
  <2>2. m * f <= m * (q + r) + (m - 1)
    <3>1. m * f \in Int /\ m * (q + r) \in Int
      BY <1>6, <2>1
    <3> QED
      BY <1>5, <1>6, <3>1
  <2>3. m * (q + r) <= m * f + (m - 1)
    <3>1. m * f \in Int /\ m * (q + r) \in Int
      BY <1>6, <2>1
    <3> QED
      BY <1>5, <1>6, <3>1
  <2>4. f <= q + r
    BY <1>6, <2>1, <2>2, WholeMultiples
  <2>5. q + r <= f
    BY <1>6, <2>1, <2>3, WholeMultiples
  <2> QED
    BY <1>6, <2>1, <2>4, <2>5
<1>8. g = d + u
  <2>1. PICK h \in Int : h = m * f
    BY <1>6
  <2>2. e = h + g /\ g \in Int
    BY <1>6, <2>1
  <2>3. e = h + (d + u) /\ d + u \in Int
    BY <1>5, <1>7, <2>1
  <2> QED
    BY <2>1, <2>2, <2>3
<1> QED
  BY <1>7, <1>8 DEF f, g, q, d, e

\* Division by a positive number keeps the order.
LEMMA DivMonotone ==
    ASSUME NEW m \in Nat \ {0}, NEW x \in Int, NEW y \in Int, x <= y
    PROVE  x \div m <= y \div m
<1> DEFINE q == x \div m
           r == y \div m
<1>1. q \in Int /\ r \in Int /\ x % m \in 0 .. (m - 1) /\ y % m \in 0 .. (m - 1) /\ x = m * q + (x % m) /\ y = m * r + (y % m)
  BY DivMod
<1> HIDE DEF q, r
<1>2. PICK i \in Int : i = m * q
  BY <1>1
<1>3. PICK j \in Int : j = m * r
  BY <1>1
<1>4. i <= j + (m - 1)
  BY <1>1, <1>2, <1>3
<1>5. q <= r
  BY <1>1, <1>2, <1>3, <1>4, WholeMultiples
<1> QED
  BY <1>5 DEF q, r

\* Terms none of which is positive and one of which is negative.
LEMMA TotalFalls ==
    ASSUME NEW S, IsFiniteSet(S), NEW f, \A x \in S : f[x] \in Int /\ f[x] <= 0, NEW e \in S, f[e] < 0
    PROVE  Total(f, S) \in Int /\ Total(f, S) < 0
<1> DEFINE U == S \ {e}
           z == [x \in U |-> 0]
<1>1. Total(f, S) = f[e] + Total(f, U)
  BY TotalRemove
<1>2. IsFiniteSet(U) /\ \A x \in U : f[x] \in Int /\ z[x] \in Int /\ f[x] <= z[x] /\ z[x] = 0
  BY FS_Subset
<1> HIDE DEF z, U
<1>3. Total(f, U) <= Total(z, U) /\ Total(z, U) = 0 /\ Total(f, U) \in Int
  BY <1>2, TotalLeq, TotalZero, TotalType
<1> QED
  BY <1>1, <1>3

\* What doublings make of one.
Twos == {p \in Nat \ {0} : \E n \in Nat : \E f \in [0 .. n -> Nat \ {0}] :
             f[0] = 1 /\ f[n] = p /\ \A i \in 1 .. n : f[i] = 2 * f[i - 1]}

\* One is a power of two.
LEMMA OneIsTwos == 1 \in Twos
<1> DEFINE f == [i \in 0 .. 0 |-> 1]
<1>1. f \in [0 .. 0 -> Nat \ {0}] /\ f[0] = 1 /\ \A i \in 1 .. 0 : f[i] = 2 * f[i - 1]
  OBVIOUS
<1>2. \E n \in Nat : \E h \in [0 .. n -> Nat \ {0}] : h[0] = 1 /\ h[n] = 1 /\ \A i \in 1 .. n : h[i] = 2 * h[i - 1]
  <2>1. 0 \in Nat
    OBVIOUS
  <2> HIDE DEF f
  <2> QED
    BY <1>1, <2>1
<1> QED
  BY <1>2 DEF Twos

\* So is the double of a power of two.
LEMMA TwosDouble == ASSUME NEW p \in Twos PROVE 2 * p \in Twos
<1>0. PICK n \in Nat : \E f \in [0 .. n -> Nat \ {0}] : f[0] = 1 /\ f[n] = p /\ \A i \in 1 .. n : f[i] = 2 * f[i - 1]
  BY DEF Twos
<1>1. PICK f \in [0 .. n -> Nat \ {0}] : f[0] = 1 /\ f[n] = p /\ \A i \in 1 .. n : f[i] = 2 * f[i - 1]
  BY <1>0
<1> DEFINE g == [i \in 0 .. (n + 1) |-> IF i = n + 1 THEN 2 * p ELSE f[i]]
<1>2. p \in Nat \ {0} /\ 2 * p \in Nat \ {0}
  BY DEF Twos
<1>3. g \in [0 .. (n + 1) -> Nat \ {0}] /\ g[0] = 1 /\ g[n + 1] = 2 * p
  BY <1>1, <1>2
<1>4. ASSUME NEW i \in 1 .. (n + 1) PROVE g[i] = 2 * g[i - 1]
  <2>1. CASE i = n + 1
    BY <1>1, <2>1
  <2>2. CASE i # n + 1
    <3>1. i \in 1 .. n /\ i - 1 \in 0 .. n /\ i - 1 # n + 1 /\ i \in 0 .. (n + 1) /\ i - 1 \in 0 .. (n + 1)
      BY <2>2
    <3> QED
      BY <1>1, <2>2, <3>1
  <2> QED
    BY <2>1, <2>2
<1> HIDE DEF g
<1>5. n + 1 \in Nat
  OBVIOUS
<1> QED
  BY <1>2, <1>3, <1>4, <1>5 DEF Twos

\* And the half of one, if it is above one.
LEMMA TwosHalve ==
    ASSUME NEW p \in Twos, p > 1 PROVE p \div 2 \in Twos /\ p = 2 * (p \div 2)
<1>0. PICK n \in Nat : \E f \in [0 .. n -> Nat \ {0}] : f[0] = 1 /\ f[n] = p /\ \A i \in 1 .. n : f[i] = 2 * f[i - 1]
  BY DEF Twos
<1>1. PICK f \in [0 .. n -> Nat \ {0}] : f[0] = 1 /\ f[n] = p /\ \A i \in 1 .. n : f[i] = 2 * f[i - 1]
  BY <1>0
<1>2. n # 0 /\ n - 1 \in Nat /\ n \in 1 .. n /\ n - 1 \in 0 .. n
  <2>1. n # 0
    BY <1>1
  <2> QED
    BY <2>1
<1>3. PICK q \in Nat \ {0} : q = f[n - 1]
  BY <1>2
<1>4. p = 2 * q
  BY <1>1, <1>2, <1>3
<1>5. p \div 2 = q
  BY <1>4
<1>6. q \in Twos
  <2> DEFINE g == [i \in 0 .. (n - 1) |-> f[i]]
  <2>1. \A i \in 0 .. (n - 1) : i \in 0 .. n
    OBVIOUS
  <2>2. g \in [0 .. (n - 1) -> Nat \ {0}] /\ g[0] = 1 /\ g[n - 1] = q
    BY <1>1, <1>2, <1>3, <2>1
  <2>3. ASSUME NEW i \in 1 .. (n - 1) PROVE g[i] = 2 * g[i - 1]
    <3>1. i \in 1 .. n /\ i - 1 \in 0 .. (n - 1) /\ i \in 0 .. (n - 1)
      OBVIOUS
    <3> QED
      BY <1>1, <3>1
  <2> HIDE DEF g
  <2> QED
    BY <1>2, <2>2, <2>3 DEF Twos
<1> QED
  BY <1>4, <1>5, <1>6

\* A node that is least by one measure and then by its index.
LEMMA LeastBoth ==
    ASSUME NEW S, IsFiniteSet(S), S # {}, S \subseteq Int, NEW f \in [S -> Int]
    PROVE  \E w \in S : \A u \in S : f[w] < f[u] \/ (f[w] = f[u] /\ w <= u)
<1> DEFINE T == {f[u] : u \in S}
<1>1. PICK d \in T : \A e \in T : d <= e
  <2>1. IsFiniteSet(T) /\ T # {} /\ T \subseteq Int
    BY FiniteImage
  <2> HIDE DEF T
  <2> QED
    BY <2>1, LeastExists
<1> DEFINE W == {u \in S : f[u] = d}
<1>2. PICK v \in W : \A u \in W : v <= u
  <2>1. IsFiniteSet(W) /\ W # {} /\ W \subseteq Int
    BY <1>1, FS_Subset
  <2> HIDE DEF W
  <2> QED
    BY <2>1, LeastExists
<1>3. ASSUME NEW u \in S PROVE f[v] < f[u] \/ (f[v] = f[u] /\ v <= u)
  <2>1. f[v] = d /\ d <= f[u] /\ d \in Int /\ f[u] \in Int
    BY <1>1, <1>2
  <2>2. CASE f[u] = d
    BY <1>2, <2>1, <2>2
  <2>3. CASE f[u] # d
    BY <2>1, <2>3
  <2> QED
    BY <2>2, <2>3
<1> QED
  BY <1>2, <1>3

\* The least of three numbers is no more than the first.
LEMMA LeastOfThree ==
    ASSUME NEW x \in Nat, NEW y \in Nat, NEW z \in Nat
    PROVE  Finite!Min({x, y, z}) \in Nat /\ Finite!Min({x, y, z}) <= x
<1>1. PICK S : S = {x, y, z}
  OBVIOUS
<1>2. IsFiniteSet(S) /\ S # {} /\ S \subseteq Int /\ S \subseteq Nat
  <2>1. IsFiniteSet({x, y})
    <3>1. IsFiniteSet({x}) /\ {x, y} = {x} \cup {y}
      BY FS_Singleton
    <3> QED
      BY <3>1, FS_AddElement
  <2>2. {x, y, z} = {x, y} \cup {z}
    OBVIOUS
  <2> QED
    BY <1>1, <2>1, <2>2, FS_AddElement
<1>3. Finite!Min(S) \in S /\ \A u \in S : Finite!Min(S) <= u
  BY <1>2, MinIsLeast
<1> QED
  BY <1>1, <1>2, <1>3

(***************************************************************************)
(* Paths in work that climb from level to level of a network, and cursors   *)
(* that pass only what has no way on.                                       *)
(***************************************************************************)

Partial(S, T) == UNION {[U -> T] : U \in SUBSET S}

\* What a partial function is.
LEMMA PartialMap ==
    ASSUME NEW S, NEW T, NEW f \in Partial(S, T)
    PROVE  DOMAIN f \in SUBSET S /\ f \in [DOMAIN f -> T]
BY DEF Partial

Plain(g, p, a) == ArcCost(g, a) + p[ArcFrom(g, a)] - p[ArcTo(g, a)]
\* An arc that a blocking flow may use, and a node without a way on.
Slope(g, fl, p, kk, a) ==
    /\ Residual(g, fl, a) > 0 /\ Plain(g, p, a) = 0 /\ kk.level[ArcFrom(g, a)] < kk.target
    /\ ArcTo(g, a) \in DOMAIN kk.level /\ kk.level[ArcTo(g, a)] = kk.level[ArcFrom(g, a)] + 1
DeadEnd(g, fl, ex, p, kk, u) ==
    /\ \A i \in (kk.cursor[u] + 1) .. Len(g.outgoing[u]) : ~Slope(g, fl, p, kk, g.outgoing[u][i])
    /\ ~(kk.level[u] = kk.target /\ ex[u] < 0)

PassedDead(g, fl, ex, p, kk) == \A v \in g.nodes :
    /\ kk.cursor[v] \in 0 .. Len(g.outgoing[v])
    /\ \A i \in 1 .. kk.cursor[v] : Slope(g, fl, p, kk, g.outgoing[v][i]) =>
           DeadEnd(g, fl, ex, p, kk, ArcTo(g, g.outgoing[v][i]))
\* Every arc of the path in work is the current one of its node.
Climb(g, fl, p, kk) == \A i \in 1 .. Len(kk.path) :
    /\ ArcFrom(g, kk.path[i]) = (IF i = 1 THEN kk.node ELSE ArcTo(g, kk.path[i - 1]))
    /\ Slope(g, fl, p, kk, kk.path[i])
    /\ kk.path[i] = g.outgoing[ArcFrom(g, kk.path[i])][kk.cursor[ArcFrom(g, kk.path[i])] + 1]
    /\ kk.cursor[ArcFrom(g, kk.path[i])] < Len(g.outgoing[ArcFrom(g, kk.path[i])])

Blocker(g) == [scale : {1}, node : g.nodes, path : Seq(Arcs(g)), cursor : [g.nodes -> Nat],
               level : Partial(g.nodes, Nat), target : Nat, sent : Nat, queue : {<<>>}, fixed : {{}}]
InBlock(g, fl, ex, p, kk) ==
    /\ kk \in Blocker(g) /\ ex[kk.node] > 0 /\ \A v \in g.nodes : ex[v] > 0 => v \in DOMAIN kk.level
    /\ Climb(g, fl, p, kk) /\ PassedDead(g, fl, ex, p, kk)

\* Every arc joins two nodes.
LEMMA NetworkEnds ==
    ASSUME NEW g, IsNetwork(g), NEW a \in Arcs(g)
    PROVE  ArcFrom(g, a) \in g.nodes /\ ArcTo(g, a) \in g.nodes
BY ArcParts DEF IsNetwork, ArcFrom, ArcTo

\* Arcs leave the node that lists them.
LEMMA Outgoing ==
    ASSUME NEW g, IsNetwork(g), NEW v \in g.nodes
    PROVE  /\ g.outgoing[v] \in Seq(Arcs(g)) /\ Len(g.outgoing[v]) \in Nat
           /\ \A i \in 1 .. Len(g.outgoing[v]) :
                  /\ g.outgoing[v][i] \in Arcs(g) /\ ArcFrom(g, g.outgoing[v][i]) = v
                  /\ ArcTo(g, g.outgoing[v][i]) \in g.nodes
<1>1. /\ g.outgoing[v] \in Seq(Arcs(g)) /\ Len(g.outgoing[v]) \in Nat
      /\ {g.outgoing[v][i] : i \in DOMAIN g.outgoing[v]} = {a \in Arcs(g) : ArcFrom(g, a) = v}
  BY DEF IsNetwork
<1>2. \A i \in 1 .. Len(g.outgoing[v]) : g.outgoing[v][i] \in Arcs(g) /\ ArcFrom(g, g.outgoing[v][i]) = v
  BY <1>1
<1> QED
  BY <1>1, <1>2, NetworkEnds

\* A node without a way on stays so where no slope appears, no deficit appears
\* and its cursor only moves on.
LEMMA DeadStays ==
    ASSUME NEW g, IsNetwork(g), NEW fl, NEW ex, NEW p, NEW kk, NEW next, NEW left, NEW ll, NEW u \in g.nodes,
           DeadEnd(g, fl, ex, p, kk, u), ll.level = kk.level, ll.target = kk.target,
           kk.cursor[u] \in Nat, ll.cursor[u] \in Nat, kk.cursor[u] <= ll.cursor[u], left[u] < 0 => ex[u] < 0,
           \A a \in Arcs(g) : Slope(g, next, p, kk, a) => Slope(g, fl, p, kk, a)
    PROVE  DeadEnd(g, next, left, p, ll, u)
<1>1. ASSUME NEW i \in (ll.cursor[u] + 1) .. Len(g.outgoing[u]), Slope(g, next, p, ll, g.outgoing[u][i]) PROVE FALSE
  <2>1. i \in (kk.cursor[u] + 1) .. Len(g.outgoing[u]) /\ i \in 1 .. Len(g.outgoing[u])
    BY Outgoing
  <2>2. Slope(g, next, p, kk, g.outgoing[u][i])
    BY <1>1 DEF Slope
  <2>3. Slope(g, fl, p, kk, g.outgoing[u][i])
    BY <2>1, <2>2, Outgoing
  <2> QED
    BY <2>1, <2>3 DEF DeadEnd
<1> QED
  BY <1>1 DEF DeadEnd

\* So cursors that moved only past slopes to such nodes have still passed nothing else.
LEMMA PassedStays ==
    ASSUME NEW g, IsNetwork(g), NEW fl, NEW ex, NEW p, NEW kk, PassedDead(g, fl, ex, p, kk), NEW next, NEW left, NEW ll,
           ll.level = kk.level, ll.target = kk.target,
           \A a \in Arcs(g) : Slope(g, next, p, kk, a) => Slope(g, fl, p, kk, a),
           \A u \in g.nodes : left[u] < 0 => ex[u] < 0,
           \A u \in g.nodes : ll.cursor[u] \in kk.cursor[u] .. Len(g.outgoing[u]),
           \A u \in g.nodes : \A i \in (kk.cursor[u] + 1) .. ll.cursor[u] : Slope(g, fl, p, kk, g.outgoing[u][i]) =>
               DeadEnd(g, fl, ex, p, ll, ArcTo(g, g.outgoing[u][i]))
    PROVE  PassedDead(g, next, left, p, ll)
<1>1. \A u \in g.nodes : kk.cursor[u] \in Nat /\ Len(g.outgoing[u]) \in Nat
  BY Outgoing DEF PassedDead
<1>2. \A u \in g.nodes : ll.cursor[u] \in Nat /\ kk.cursor[u] <= ll.cursor[u] /\ ll.cursor[u] \in 0 .. Len(g.outgoing[u])
  BY <1>1
<1> SUFFICES ASSUME NEW v \in g.nodes, NEW i \in 1 .. ll.cursor[v], Slope(g, next, p, ll, g.outgoing[v][i])
             PROVE  DeadEnd(g, next, left, p, ll, ArcTo(g, g.outgoing[v][i]))
  BY <1>2 DEF PassedDead
<1>3. i \in 1 .. Len(g.outgoing[v])
  BY <1>2
<1>4. PICK a \in Arcs(g) : a = g.outgoing[v][i] /\ ArcTo(g, a) \in g.nodes
  BY <1>3, Outgoing
<1>5. Slope(g, next, p, kk, a) /\ Slope(g, fl, p, kk, a)
  <2>1. Slope(g, next, p, kk, a)
    BY <1>4 DEF Slope
  <2> QED
    BY <2>1
<1>6. CASE i \in 1 .. kk.cursor[v]
  <2>1. DeadEnd(g, fl, ex, p, kk, ArcTo(g, a))
    BY <1>4, <1>5, <1>6 DEF PassedDead
  <2> QED
    BY <1>1, <1>2, <1>4, <2>1, DeadStays
<1>7. CASE i \notin 1 .. kk.cursor[v]
  <2>1. DeadEnd(g, fl, ex, p, ll, ArcTo(g, a))
    BY <1>1, <1>2, <1>4, <1>5, <1>7
  <2>2. \A b \in Arcs(g) : Slope(g, next, p, ll, b) => Slope(g, fl, p, ll, b)
    BY DEF Slope
  <2>3. ll.cursor[ArcTo(g, a)] \in Nat
    BY <1>2, <1>4
  <2> QED
    BY <1>4, <2>1, <2>2, <2>3, DeadStays
<1> QED
  BY <1>6, <1>7

\* A path in work climbs one level with every arc.
LEMMA ClimbLevels ==
    ASSUME NEW g, IsNetwork(g), NEW fl, NEW ex, NEW p, NEW kk, InBlock(g, fl, ex, p, kk)
    PROVE  /\ kk.node \in DOMAIN kk.level /\ kk.level \in [DOMAIN kk.level -> Nat] /\ Len(kk.path) \in Nat
           /\ \A i \in 1 .. Len(kk.path) :
                  /\ kk.path[i] \in Arcs(g) /\ ArcFrom(g, kk.path[i]) \in g.nodes /\ ArcTo(g, kk.path[i]) \in g.nodes
                  /\ ArcFrom(g, kk.path[i]) \in DOMAIN kk.level /\ ArcTo(g, kk.path[i]) \in DOMAIN kk.level
                  /\ kk.level[ArcFrom(g, kk.path[i])] = kk.level[kk.node] + i - 1
                  /\ kk.level[ArcTo(g, kk.path[i])] = kk.level[kk.node] + i
<1>1. PICK path, n, lv, h : path = kk.path /\ n = Len(path) /\ lv = kk.level /\ h = lv[kk.node]
  OBVIOUS
<1>2. /\ path \in Seq(Arcs(g)) /\ n \in Nat /\ lv \in Partial(g.nodes, Nat) /\ kk.node \in DOMAIN lv
  BY <1>1 DEF InBlock, Blocker
<1>3. lv \in [DOMAIN lv -> Nat] /\ DOMAIN lv \in SUBSET g.nodes
  BY <1>2, PartialMap
<1>4. \A i \in 1 .. n : path[i] \in Arcs(g) /\ ArcFrom(g, path[i]) \in g.nodes /\ ArcTo(g, path[i]) \in g.nodes
  BY <1>1, <1>2, NetworkEnds
<1>5. \A i \in 1 .. n : /\ ArcFrom(g, path[i]) = (IF i = 1 THEN kk.node ELSE ArcTo(g, path[i - 1]))
                        /\ ArcTo(g, path[i]) \in DOMAIN lv /\ lv[ArcTo(g, path[i])] = lv[ArcFrom(g, path[i])] + 1
  BY <1>1 DEF InBlock, Climb, Slope
<1> DEFINE From1(i) == ArcFrom(g, path[i]) \in DOMAIN lv /\ lv[ArcFrom(g, path[i])] = h + i - 1
           good == {i \in 0 .. n : i > 0 => From1(i)}
<1>6. h \in Nat
  BY <1>1, <1>2, <1>3
<1>7. 0 \in good
  BY <1>2
<1>8. ASSUME NEW i \in 0 .. n, i > 0, i - 1 \in good PROVE i \in good
  <2>1. CASE i = 1
    BY <1>1, <1>2, <1>5, <1>6, <1>8, <2>1
  <2>2. CASE i # 1
    <3>1. i - 1 \in 1 .. n /\ i \in 1 .. n /\ i \in Int
      BY <1>2, <1>8, <2>2
    <3>2. ArcFrom(g, path[i]) = ArcTo(g, path[i - 1]) /\ lv[ArcFrom(g, path[i - 1])] = h + (i - 1) - 1
      BY <1>5, <1>8, <2>2, <3>1
    <3>3. ArcTo(g, path[i - 1]) \in DOMAIN lv /\ lv[ArcTo(g, path[i - 1])] = lv[ArcFrom(g, path[i - 1])] + 1
      BY <1>5, <3>1
    <3> QED
      BY <1>6, <3>1, <3>2, <3>3
  <2> QED
    BY <2>1, <2>2
<1> HIDE DEF good
<1>9. 0 .. n \subseteq good
  BY <1>2, <1>7, <1>8, UpToInduction
<1>10. \A i \in 1 .. n : From1(i) /\ lv[ArcTo(g, path[i])] = h + i
  <2> SUFFICES ASSUME NEW i \in 1 .. n PROVE From1(i) /\ lv[ArcTo(g, path[i])] = h + i
    OBVIOUS
  <2>1. From1(i)
    BY <1>2, <1>9 DEF good
  <2> QED
    BY <1>2, <1>5, <1>6, <2>1
<1> QED
  BY <1>1, <1>2, <1>3, <1>4, <1>5, <1>10

\* So it comes to no node twice, its end included.
TipAt(g, kk) == IF kk.path = <<>> THEN kk.node ELSE ArcTo(g, kk.path[Len(kk.path)])
LEMMA ClimbIsPath ==
    ASSUME NEW g, IsNetwork(g), NEW fl, NEW ex, NEW p, NEW kk, InBlock(g, fl, ex, p, kk)
    PROVE  /\ TipAt(g, kk) \in g.nodes /\ TipAt(g, kk) \in DOMAIN kk.level
           /\ \A i \in 1 .. Len(kk.path) : ArcFrom(g, kk.path[i]) # TipAt(g, kk)
           /\ \A i, j \in 1 .. Len(kk.path) : ArcFrom(g, kk.path[i]) = ArcFrom(g, kk.path[j]) => i = j
           /\ kk.path # <<>> => PathIn(g, kk.path, Len(kk.path)) /\ ArcFrom(g, kk.path[1]) = kk.node
<1>1. PICK n, h : n = Len(kk.path) /\ h = kk.level[kk.node] /\ n \in Nat /\ h \in Nat
  <2>1. kk.node \in DOMAIN kk.level /\ kk.level \in [DOMAIN kk.level -> Nat] /\ Len(kk.path) \in Nat
    BY ClimbLevels
  <2> QED
    BY <2>1
<1>2. kk.path \in Seq(Arcs(g)) /\ kk.path \in [1 .. n -> Arcs(g)] /\ kk.node \in g.nodes
      /\ (kk.path # <<>> => n > 0) /\ (kk.path = <<>> => n = 0)
  BY <1>1 DEF InBlock, Blocker
<1>3. \A i \in 1 .. n : /\ kk.level[ArcFrom(g, kk.path[i])] = h + i - 1 /\ kk.level[ArcTo(g, kk.path[i])] = h + i
                        /\ ArcTo(g, kk.path[i]) \in g.nodes /\ ArcTo(g, kk.path[i]) \in DOMAIN kk.level
  BY <1>1, ClimbLevels
<1>4. kk.level[TipAt(g, kk)] = h + n /\ TipAt(g, kk) \in g.nodes /\ TipAt(g, kk) \in DOMAIN kk.level
  BY <1>1, <1>2, <1>3, ClimbLevels DEF TipAt
<1>5. \A i \in 1 .. n : ArcFrom(g, kk.path[i]) # TipAt(g, kk)
  BY <1>1, <1>3, <1>4
<1>6. ASSUME NEW i \in 1 .. n, NEW j \in 1 .. n, ArcFrom(g, kk.path[i]) = ArcFrom(g, kk.path[j]) PROVE i = j
  <2>1. h + i - 1 = h + j - 1
    BY <1>3, <1>6
  <2> QED
    BY <1>1, <2>1
<1>7. ASSUME kk.path # <<>> PROVE PathIn(g, kk.path, n) /\ ArcFrom(g, kk.path[1]) = kk.node
  <2>1. \A i \in 1 .. n : ArcFrom(g, kk.path[i]) = (IF i = 1 THEN kk.node ELSE ArcTo(g, kk.path[i - 1]))
    BY <1>1 DEF InBlock, Climb
  <2>2. ASSUME NEW i \in 1 .. (n - 1) PROVE ArcTo(g, kk.path[i]) = ArcFrom(g, kk.path[i + 1])
    <3>1. i + 1 \in 1 .. n /\ i + 1 # 1 /\ (i + 1) - 1 = i
      BY <1>1
    <3> QED
      BY <2>1, <3>1
  <2>3. n > 0 /\ 1 \in 1 .. n
    BY <1>1, <1>2, <1>7
  <2> QED
    BY <1>1, <1>2, <1>6, <2>1, <2>2, <2>3 DEF PathIn, Listed
<1> QED
  BY <1>1, <1>4, <1>5, <1>6, <1>7

\* The first of some positions past a cursor.
LEMMA FirstAt ==
    ASSUME NEW n \in Nat, NEW c \in 0 .. n, NEW J, J \subseteq c + 1 .. n
    PROVE  \E first : /\ first = (IF J # {} THEN Finite!Min(J) ELSE 0) /\ first \in 0 .. n /\ (first = 0 <=> J = {})
                      /\ first # 0 => first \in J /\ c < first /\ \A i \in J : first <= i
<1>1. CASE J = {}
  BY <1>1
<1>2. CASE J # {}
  <2>1. J \subseteq 1 .. n /\ J \subseteq Int
    OBVIOUS
  <2>0. IsFiniteSet(1 .. n)
    BY FS_Interval
  <2>2. IsFiniteSet(J)
    BY <2>0, <2>1, FS_Subset
  <2>3. PICK first : first = Finite!Min(J)
    OBVIOUS
  <2>4. first \in J /\ \A i \in J : first <= i
    BY <1>2, <2>1, <2>2, <2>3, MinIsLeast
  <2>5. first \in 0 .. n /\ first # 0 /\ c < first
    BY <2>1, <2>4
  <2> QED
    BY <1>2, <2>3, <2>4, <2>5
<1> QED
  BY <1>1, <1>2

\* The least of some nodes is one of them.
LEMMA LeastNode ==
    ASSUME NEW g, IsNetwork(g), NEW S, S # {}, S \subseteq g.nodes
    PROVE  Finite!Min(S) \in S
<1>1. IsFiniteSet(g.nodes) /\ g.nodes \subseteq Int
  BY DEF IsNetwork
<1>2. IsFiniteSet(S) /\ S \subseteq Int
  BY <1>1, FS_Subset
<1> QED
  BY <1>2, MinIsLeast

\* Leaving a dead end, the arc that led there is passed.
Retreats(g, fl, ex, p, kk, ll, u, n, m) ==
    /\ u = TipAt(g, kk) /\ n = Len(kk.path) /\ ~(kk.level[u] = kk.target /\ ex[u] < 0)
    /\ \A i \in kk.cursor[u] + 1 .. Len(g.outgoing[u]) : ~Slope(g, fl, p, kk, g.outgoing[u][i])
    /\ ll \in Blocker(g) /\ ll.level = kk.level /\ ll.target = kk.target /\ ex[ll.node] > 0
    /\ m \in Nat /\ (m + 1 = n \/ (m = 0 /\ n = 0)) /\ ll.path = SubSeq(kk.path, 1, m) /\ (m # 0 => ll.node = kk.node)
    /\ \A v \in g.nodes \ {u} : ll.cursor[v] = kk.cursor[v] + (IF m < n /\ v = ArcFrom(g, kk.path[n]) THEN 1 ELSE 0)
    /\ ll.cursor[u] = Len(g.outgoing[u])

\* Where a node has no way on, the arc before it is passed.
LEMMA RetreatKeeps ==
    ASSUME NEW g, IsNetwork(g), NEW fl, NEW ex, NEW p, NEW kk, InBlock(g, fl, ex, p, kk),
           NEW ll, NEW u, NEW n, NEW m, Retreats(g, fl, ex, p, kk, ll, u, n, m)
    PROVE  InBlock(g, fl, ex, p, ll)
<1>0. /\ ~(kk.level[u] = kk.target /\ ex[u] < 0)
      /\ \A i \in kk.cursor[u] + 1 .. Len(g.outgoing[u]) : ~Slope(g, fl, p, kk, g.outgoing[u][i])
      /\ ll \in Blocker(g) /\ ll.level = kk.level /\ ll.target = kk.target /\ ex[ll.node] > 0
      /\ m \in Nat /\ (m + 1 = n \/ (m = 0 /\ n = 0)) /\ ll.path = SubSeq(kk.path, 1, m) /\ (m # 0 => ll.node = kk.node)
      /\ \A v \in g.nodes \ {u} :
             ll.cursor[v] = kk.cursor[v] + (IF m < n /\ v = ArcFrom(g, kk.path[n]) THEN 1 ELSE 0)
      /\ ll.cursor[u] = Len(g.outgoing[u])
  BY DEF Retreats
<1>1. /\ kk \in Blocker(g) /\ Climb(g, fl, p, kk) /\ PassedDead(g, fl, ex, p, kk)
      /\ \A v \in g.nodes : ex[v] > 0 => v \in DOMAIN kk.level
  BY DEF InBlock
<1>2. /\ u \in g.nodes /\ \A i \in 1 .. n : ArcFrom(g, kk.path[i]) # u /\ ArcFrom(g, kk.path[i]) \in g.nodes
      /\ \A i, j \in 1 .. n : ArcFrom(g, kk.path[i]) = ArcFrom(g, kk.path[j]) => i = j
      /\ n \in Nat /\ n = Len(kk.path) /\ kk.path \in Seq(Arcs(g)) /\ (n # 0 => u = ArcTo(g, kk.path[n]))
  <2>1. u = TipAt(g, kk) /\ n = Len(kk.path) /\ n \in Nat
    BY <1>0 DEF Retreats
  <2>2. kk.path \in Seq(Arcs(g))
    BY <1>1 DEF Blocker
  <2>3. n # 0 => u = ArcTo(g, kk.path[n])
    BY <2>1, <2>2 DEF TipAt
  <2> QED
    BY <2>1, <2>2, <2>3, ClimbIsPath, ClimbLevels
<1>3. \A v \in g.nodes : Len(g.outgoing[v]) \in Nat /\ kk.cursor[v] \in 0 .. Len(g.outgoing[v])
  BY <1>1, Outgoing DEF PassedDead
<1>4. /\ Len(ll.path) = m /\ \A i \in 1 .. m : ll.path[i] = kk.path[i] /\ i \in 1 .. n /\ i # n
      /\ \A i \in 1 .. m : i # 1 => ll.path[i - 1] = kk.path[i - 1]
  <2>1. \A i \in 1 .. m : i # 1 => i - 1 \in 1 .. m
    BY <1>0
  <2>2. ll.path = [i \in 1 .. m |-> kk.path[i]] /\ Len(ll.path) = m
    BY <1>0, <1>2
  <2>3. \A i \in 1 .. m : i \in 1 .. n /\ i # n
    BY <1>0, <1>2
  <2> QED
    BY <2>1, <2>2, <2>3
<1>5. \A b : Slope(g, fl, p, ll, b) <=> Slope(g, fl, p, kk, b)
  BY <1>0 DEF Slope
<1>6. Climb(g, fl, p, ll)
  <2> SUFFICES ASSUME NEW i \in 1 .. m
        PROVE  /\ ArcFrom(g, ll.path[i]) = (IF i = 1 THEN ll.node ELSE ArcTo(g, ll.path[i - 1]))
               /\ Slope(g, fl, p, ll, ll.path[i])
               /\ ll.path[i] = g.outgoing[ArcFrom(g, ll.path[i])][ll.cursor[ArcFrom(g, ll.path[i])] + 1]
               /\ ll.cursor[ArcFrom(g, ll.path[i])] < Len(g.outgoing[ArcFrom(g, ll.path[i])])
    BY <1>4 DEF Climb
  <2>1. PICK v : v = ArcFrom(g, kk.path[i])
    OBVIOUS
  <2>2. v \in g.nodes \ {u} /\ v # ArcFrom(g, kk.path[n])
    BY <1>2, <1>4, <2>1
  <2>3. ll.cursor[v] = kk.cursor[v]
    BY <1>0, <1>3, <2>2
  <2>4. /\ v = (IF i = 1 THEN kk.node ELSE ArcTo(g, kk.path[i - 1])) /\ Slope(g, fl, p, kk, kk.path[i])
        /\ kk.path[i] = g.outgoing[v][kk.cursor[v] + 1] /\ kk.cursor[v] < Len(g.outgoing[v])
    BY <1>1, <1>2, <1>4, <2>1 DEF Climb
  <2> QED
    <3>1. ll.path[i] = kk.path[i] /\ (i # 1 => ll.path[i - 1] = kk.path[i - 1]) /\ ll.node = kk.node
      BY <1>0, <1>4
    <3> QED
      BY <1>5, <2>1, <2>3, <2>4, <3>1
<1>7. PassedDead(g, fl, ex, p, ll)
  <2>1. DeadEnd(g, fl, ex, p, ll, u)
    BY <1>0, <1>2, <1>3 DEF DeadEnd
  <2> SUFFICES /\ \A v \in g.nodes : ll.cursor[v] \in kk.cursor[v] .. Len(g.outgoing[v])
               /\ \A v \in g.nodes : \A i \in kk.cursor[v] + 1 .. ll.cursor[v] :
                      Slope(g, fl, p, kk, g.outgoing[v][i]) => DeadEnd(g, fl, ex, p, ll, ArcTo(g, g.outgoing[v][i]))
    BY <1>0, <1>1, <1>5, PassedStays
  <2>2. ASSUME NEW v \in g.nodes
        PROVE  /\ ll.cursor[v] \in kk.cursor[v] .. Len(g.outgoing[v])
               /\ \A i \in kk.cursor[v] + 1 .. ll.cursor[v] :
                      Slope(g, fl, p, kk, g.outgoing[v][i]) => DeadEnd(g, fl, ex, p, ll, ArcTo(g, g.outgoing[v][i]))
    <3>1. CASE v = u
      BY <1>0, <1>3, <3>1
    <3>2. CASE v # u /\ ~(m < n /\ v = ArcFrom(g, kk.path[n]))
      BY <1>0, <1>3, <3>2
    <3>3. CASE v # u /\ m < n /\ v = ArcFrom(g, kk.path[n])
      <4>1. n \in 1 .. n /\ ll.cursor[v] = kk.cursor[v] + 1
        BY <1>0, <1>2, <3>3
      <4>2. kk.path[n] = g.outgoing[v][kk.cursor[v] + 1] /\ kk.cursor[v] < Len(g.outgoing[v])
        BY <1>1, <1>2, <3>3, <4>1 DEF Climb
      <4>3. \A i \in kk.cursor[v] + 1 .. ll.cursor[v] : i = kk.cursor[v] + 1
        BY <1>3, <4>1
      <4>4. u = ArcTo(g, kk.path[n])
        BY <1>2, <4>1
      <4> QED
        BY <1>3, <2>1, <4>1, <4>2, <4>3, <4>4
    <3> QED
      BY <3>1, <3>2, <3>3
  <2> QED
    BY <2>2
<1> QED
  BY <1>0, <1>1, <1>6, <1>7 DEF InBlock

\* The least of finitely many natural numbers.
LEMMA LeastImage ==
    ASSUME NEW S, IsFiniteSet(S), S # {}, NEW f, \A x \in S : f[x] \in Nat
    PROVE  Finite!Min({f[x] : x \in S}) \in Nat
<1>1. PICK T : T = {f[x] : x \in S}
  OBVIOUS
<1>2. T # {} /\ T \subseteq Nat /\ T \subseteq Int /\ IsFiniteSet(T)
  BY <1>1, FiniteImage
<1>3. Finite!Min(T) \in T
  BY <1>2, MinIsLeast
<1> QED
  BY <1>1, <1>2, <1>3

\* A multiple and its opposite.
LEMMA Product == \A x \in Int : \A y \in Nat : x * (y + 1) \in Int /\ (-x) * (y + 1) = -(x * (y + 1))
OBVIOUS

\* A sequence with one more element.
LEMMA Appended == ASSUME NEW S, NEW s \in Seq(S), NEW e \in S PROVE Append(s, e) \in Seq(S)
OBVIOUS

\* One more element makes a sequence one longer.
LEMMA OneMore ==
    ASSUME NEW S, NEW s \in Seq(S), NEW e \in S
    PROVE  Append(s, e) \in Seq(S) /\ Len(Append(s, e)) = Len(s) + 1
BY AppendProperties

\* It comes last, and the others stay where they are.
LEMMA OthersStay ==
    ASSUME NEW S, NEW s \in Seq(S), NEW e \in S
    PROVE  Append(s, e)[Len(s) + 1] = e /\ \A i \in 1 .. Len(s) : Append(s, e)[i] = s[i]
BY AppendProperties
===============================================================================
