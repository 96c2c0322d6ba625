----------------------------- MODULE SumTheorems -----------------------------
(* What the sums of the models are: SumFunctionOnSet of the community        *)
(* modules adds the values of a function over a finite set with a fold,      *)
(* which is recursive, so these facts are by induction over the set.  The    *)
(* theorems on induction take an operator as a parameter, which the provers  *)
(* cannot instantiate: here each induction is the minimal counterexample of  *)
(* LeastSet, a fact of the first order.                                      *)
EXTENDS Integers, Functions, FiniteSetTheorems, TLAPS

(* A set of subsets of a finite set has a minimal member: this is how a      *)
(* proof here goes by induction without the induction theorems, by           *)
(* contradiction from the least set for which the statement fails.           *)
LEMMA LeastSet ==
    \A S, T : IsFiniteSet(S) /\ T \subseteq SUBSET S /\ T # {}
        => \E s \in T : \A t \in T : t \subseteq s => t = s
<1> SUFFICES ASSUME NEW S, IsFiniteSet(S), NEW T, T \subseteq SUBSET S, T # {}
             PROVE  \E s \in T : \A t \in T : t \subseteq s => t = s
  OBVIOUS
<1>1. IsWellFoundedOn(StrictSubsetOrdering(S), SUBSET S)
  BY FS_StrictSubsetOrderingWellFounded, FS_FiniteSubsetsOfFinite
<1>2. \E s \in T : \A t \in T : ~ (<<t, s>> \in StrictSubsetOrdering(S))
  BY <1>1, WFMin, Zenon
<1>3. PICK s \in T : \A t \in T : ~ (<<t, s>> \in StrictSubsetOrdering(S))
  BY <1>2, Zenon
<1>4. ASSUME NEW t \in T, t \subseteq s PROVE t = s
  <2>1. t \in SUBSET S /\ s \in SUBSET S
    OBVIOUS
  <2>2. <<t, s>> \in (SUBSET S) \X (SUBSET S)
    BY <2>1
  <2>3. t # s => <<t, s>> \in StrictSubsetOrdering(S)
    BY <1>4, <2>2 DEF StrictSubsetOrdering
  <2> QED
    BY <1>3, <2>3
<1> QED
  BY <1>4

(* A set of naturals has a least member.                                     *)
LEMMA LeastNumber ==
    ASSUME NEW numbers, numbers \subseteq Nat, numbers # {}
    PROVE  \E k \in numbers : \A j \in numbers : k <= j
<1>1. PICK n \in numbers : TRUE
  OBVIOUS
<1> DEFINE below == {j \in numbers : j <= n}
<1>0. PICK intervals : intervals = {1..j : j \in below}
  OBVIOUS
<1>2. n \in Nat /\ n \in below /\ below \subseteq Nat
  <2>1. n \in Nat /\ n <= n
    BY <1>1
  <2> QED
    BY <1>1, <2>1
<1>3. IsFiniteSet(1..n) /\ intervals \subseteq SUBSET (1..n) /\ intervals # {}
  <2>1. IsFiniteSet(1..n)
    BY <1>2, FS_Interval
  <2>2. \A j \in below : 1..j \subseteq 1..n
    BY <1>2
  <2> QED
    BY <1>0, <1>2, <2>1, <2>2
<1>4. PICK s \in intervals : \A t \in intervals : t \subseteq s => t = s
  <2>1. PICK S : S = 1..n
    OBVIOUS
  <2>2. IsFiniteSet(S) /\ intervals \subseteq SUBSET S /\ intervals # {}
    BY <1>3, <2>1
  <2> QED
    BY <2>2, LeastSet
<1>5. PICK k \in below : s = 1..k
  BY <1>0, <1>4
<1>6. ASSUME NEW j \in numbers, ~(k <= j)
      PROVE  FALSE
  <2>1. j \in below /\ j \in Nat /\ k \in Nat /\ j < k
    BY <1>2, <1>5, <1>6
  <2>2. 1..j \in intervals /\ 1..j \subseteq s /\ k \in s /\ k \notin 1..j
    BY <1>0, <1>5, <2>1
  <2> QED
    BY <1>4, <2>2
<1> QED
  BY <1>5, <1>6

(* SumFunctionOnSet adds f over a set by taking out a chosen element, again  *)
(* and again.                                                                *)
Pick(s) == CHOOSE x \in s : TRUE

Solves(h, f, s) ==
    h = [t \in SUBSET s |->
            IF t = {} THEN 0 ELSE f[Pick(t)] + h[t \ {Pick(t)}]]

Solution(f, s) == CHOOSE h : Solves(h, f, s)

(* The sum is the value of a function that solves the equation of the fold.  *)
LEMMA SumIsSolution ==
    ASSUME NEW f, NEW S
    PROVE  SumFunctionOnSet(f, S) = Solution(f, S)[S]
BY DEF SumFunctionOnSet, FoldFunctionOnSet, MapThenFoldSet, Solution, Solves, Pick

(* What is taken out is an element.                                          *)
LEMMA PickIn == ASSUME NEW s, s # {} PROVE Pick(s) \in s
BY DEF Pick

(* What a solution says of a subset and of the subset less one element.      *)
LEMMA SolutionUnfolds ==
    ASSUME NEW h, NEW f, NEW s, Solves(h, f, s), NEW t \in SUBSET s
    PROVE  /\ t = {} => h[t] = 0
           /\ t # {} => h[t] = f[Pick(t)] + h[t \ {Pick(t)}]
BY DEF Solves

(* Two solutions, over a set and over a larger one, agree where both are     *)
(* defined.                                                                  *)
LEMMA SolutionsAgree ==
    ASSUME NEW f, NEW s, IsFiniteSet(s), NEW r, NEW g, NEW h,
           Solves(g, f, r), Solves(h, f, s), s \subseteq r
    PROVE  \A t \in SUBSET s : g[t] = h[t]
<1>0. PICK T : T = {t \in SUBSET s : g[t] # h[t]}
  OBVIOUS
<1> SUFFICES ASSUME T # {} PROVE FALSE
  BY <1>0
<1>1. PICK t \in T : \A u \in T : u \subseteq t => u = t
  BY <1>0, LeastSet
<1>2. t # {}
  BY <1>0, SolutionUnfolds
<1>3. /\ g[t] = f[Pick(t)] + g[t \ {Pick(t)}]
      /\ h[t] = f[Pick(t)] + h[t \ {Pick(t)}]
  BY <1>0, <1>2, SolutionUnfolds
<1>4. t \ {Pick(t)} # t /\ t \ {Pick(t)} \in SUBSET s
  BY <1>0, <1>2, PickIn
<1>5. g[t \ {Pick(t)}] = h[t \ {Pick(t)}]
  BY <1>0, <1>1, <1>4
<1> QED
  BY <1>0, <1>3, <1>5

(* The equation has a solution over every subset of a finite set, so the     *)
(* function CHOOSE names is one.                                             *)
LEMMA SolutionExists ==
    ASSUME NEW f, NEW S, IsFiniteSet(S)
    PROVE  \A s \in SUBSET S : Solves(Solution(f, s), f, s)
<1>0. PICK T : T = {s \in SUBSET S : ~ Solves(Solution(f, s), f, s)}
  OBVIOUS
<1> SUFFICES ASSUME T # {} PROVE FALSE
  BY <1>0
<1>1. PICK s \in T : \A t \in T : t \subseteq s => t = s
  BY <1>0, LeastSet
<1>2. \A t \in SUBSET s : t # s => Solves(Solution(f, t), f, t)
  BY <1>0, <1>1
<1>3. \A t \in SUBSET s : IsFiniteSet(t)
  BY <1>0, FS_Subset
<1> DEFINE V(t) == Solution(f, t)[t]
           rest == s \ {Pick(s)}
           top == IF s = {} THEN 0 ELSE f[Pick(s)] + V(rest)
           h == [t \in SUBSET s |-> IF t = s THEN top ELSE V(t)]
<1>4. ASSUME NEW t \in SUBSET s, t # s
      PROVE  /\ t = {} => V(t) = 0
             /\ t # {} => V(t) = f[Pick(t)] + V(t \ {Pick(t)})
  <2>1. Solves(Solution(f, t), f, t)
    BY <1>2, <1>4
  <2>2. CASE t = {}
    BY <2>1, <2>2, SolutionUnfolds
  <2>3. CASE t # {}
    <3> DEFINE u == t \ {Pick(t)}
    <3>1. u \in SUBSET t /\ u # t /\ u # s
      BY <2>3, PickIn
    <3>2. Solves(Solution(f, u), f, u)
      BY <1>2, <3>1
    <3>3. V(u) = Solution(f, t)[u]
      <4>1. u \in SUBSET s
        BY <3>1
      <4>2. IsFiniteSet(u) /\ u \subseteq t /\ u \in SUBSET u
        BY <1>3, <3>1, <4>1
      <4> HIDE DEF u
      <4>3. \A v \in SUBSET u : Solution(f, t)[v] = Solution(f, u)[v]
        BY <2>1, <3>2, <4>2, SolutionsAgree
      <4> QED
        BY <4>2, <4>3
    <3>4. V(t) = f[Pick(t)] + Solution(f, t)[u]
      BY <2>1, <2>3, SolutionUnfolds
    <3> QED
      BY <2>3, <3>3, <3>4
  <2> QED
    BY <2>2, <2>3
<1>5. Solves(h, f, s)
  <2>1. ASSUME NEW t \in SUBSET s
        PROVE  h[t] = IF t = {} THEN 0 ELSE f[Pick(t)] + h[t \ {Pick(t)}]
    <3>1. t # {} => t \ {Pick(t)} \in SUBSET s /\ t \ {Pick(t)} # s
      BY PickIn
    <3>2. t # {} => h[t \ {Pick(t)}] = V(t \ {Pick(t)})
      BY <3>1
    <3>3. CASE t = s
      BY <3>2, <3>3
    <3>4. CASE t # s
      <4>1. h[t] = V(t)
        BY <3>4
      <4> QED
        BY <1>4, <3>2, <3>4, <4>1
    <3> QED
      BY <3>3, <3>4
  <2> QED
    BY <2>1 DEF Solves
<1>6. Solves(Solution(f, s), f, s)
  <2> HIDE DEF h
  <2> QED
    BY <1>5 DEF Solution
<1> QED
  BY <1>0, <1>6

(* The sum over a set that is not empty is that of an element and of the     *)
(* rest.                                                                     *)
LEMMA SumUnfolds ==
    ASSUME NEW f, NEW S, IsFiniteSet(S)
    PROVE  /\ S = {} => SumFunctionOnSet(f, S) = 0
           /\ S # {} => /\ Pick(S) \in S
                        /\ SumFunctionOnSet(f, S)
                              = f[Pick(S)] + SumFunctionOnSet(f, S \ {Pick(S)})
<1>1. Solves(Solution(f, S), f, S)
  BY SolutionExists
<1>2. CASE S = {}
  BY <1>1, <1>2, SolutionUnfolds, SumIsSolution
<1>3. CASE S # {}
  <2> DEFINE rest == S \ {Pick(S)}
  <2>1. Solves(Solution(f, rest), f, rest)
    BY SolutionExists
  <2>2. IsFiniteSet(rest) /\ rest \subseteq S /\ rest \in SUBSET rest
    BY FS_Subset
  <2>3. Solution(f, S)[rest] = Solution(f, rest)[rest]
    <3> HIDE DEF rest
    <3> QED
      BY <1>1, <2>1, <2>2, SolutionsAgree
  <2>4. Solution(f, S)[S] = f[Pick(S)] + Solution(f, S)[rest]
    BY <1>1, <1>3, SolutionUnfolds
  <2> QED
    BY <1>3, <2>3, <2>4, PickIn, SumIsSolution
<1> QED
  BY <1>2, <1>3
-----------------------------------------------------------------------------
(* What the sums are of.                                                     *)
IsIntOn(f, S) == \A x \in S : f[x] \in Int

(* The sum over no element is zero.                                          *)
LEMMA SumEmpty == ASSUME NEW f PROVE SumFunctionOnSet(f, {}) = 0
BY SumUnfolds, FS_EmptySet

(* A sum of integers is an integer.                                          *)
LEMMA SumIsInt ==
    ASSUME NEW f, NEW S, IsFiniteSet(S), IsIntOn(f, S)
    PROVE  SumFunctionOnSet(f, S) \in Int
<1>0. PICK T : T = {s \in SUBSET S : SumFunctionOnSet(f, s) \notin Int}
  OBVIOUS
<1> SUFFICES ASSUME T # {} PROVE FALSE
  BY <1>0
<1>1. PICK s \in T : \A t \in T : t \subseteq s => t = s
  BY <1>0, LeastSet
<1>2. s \in SUBSET S /\ IsFiniteSet(s) /\ SumFunctionOnSet(f, s) \notin Int
  BY <1>0, FS_Subset
<1>3. s # {}
  BY <1>2, SumEmpty
<1>4. /\ Pick(s) \in s
      /\ SumFunctionOnSet(f, s) = f[Pick(s)] + SumFunctionOnSet(f, s \ {Pick(s)})
  BY <1>2, <1>3, SumUnfolds
<1>5. s \ {Pick(s)} \in SUBSET S /\ s \ {Pick(s)} # s
  BY <1>2, <1>4
<1>6. SumFunctionOnSet(f, s \ {Pick(s)}) \in Int
  BY <1>0, <1>1, <1>5
<1>7. f[Pick(s)] \in Int
  BY <1>2, <1>4 DEF IsIntOn
<1> QED
  BY <1>2, <1>4, <1>6, <1>7

(* Any element can be taken out, not only the one the fold takes first.      *)
LEMMA SumRemove ==
    ASSUME NEW f, NEW S, IsFiniteSet(S), IsIntOn(f, S), NEW x \in S
    PROVE  SumFunctionOnSet(f, S) = f[x] + SumFunctionOnSet(f, S \ {x})
<1>0. PICK T : T = {s \in SUBSET S : \E y \in s :
                       SumFunctionOnSet(f, s) # f[y] + SumFunctionOnSet(f, s \ {y})}
  OBVIOUS
<1> SUFFICES ASSUME T # {} PROVE FALSE
  BY <1>0
<1>a. T \subseteq SUBSET S
  BY <1>0
<1>1. PICK s \in T : \A t \in T : t \subseteq s => t = s
  <2> HIDE <1>0
  <2>1. IsFiniteSet(S) /\ T \subseteq SUBSET S /\ T # {}
    BY <1>a
  <2> QED
    BY <2>1, LeastSet
<1>2. s \in SUBSET S /\ IsFiniteSet(s)
  BY <1>0, FS_Subset
<1>3. PICK y \in s : SumFunctionOnSet(f, s) # f[y] + SumFunctionOnSet(f, s \ {y})
  BY <1>0
<1>4. PICK p : p = Pick(s)
  OBVIOUS
<1>5. p \in s /\ SumFunctionOnSet(f, s) = f[p] + SumFunctionOnSet(f, s \ {p})
  BY <1>2, <1>3, <1>4, SumUnfolds
<1>6. p # y
  BY <1>3, <1>5
<1>7. \A t \in SUBSET S : t \notin T => \A z \in t :
          SumFunctionOnSet(f, t) = f[z] + SumFunctionOnSet(f, t \ {z})
  BY <1>0
<1>8. /\ s \ {p} \in SUBSET S /\ s \ {p} \notin T /\ y \in s \ {p}
      /\ s \ {y} \in SUBSET S /\ s \ {y} \notin T /\ p \in s \ {y}
  BY <1>1, <1>2, <1>3, <1>5, <1>6
<1>9. /\ SumFunctionOnSet(f, s \ {p}) = f[y] + SumFunctionOnSet(f, (s \ {p}) \ {y})
      /\ SumFunctionOnSet(f, s \ {y}) = f[p] + SumFunctionOnSet(f, (s \ {y}) \ {p})
  BY <1>7, <1>8
<1>10. (s \ {p}) \ {y} = (s \ {y}) \ {p}
  OBVIOUS
<1>11. SumFunctionOnSet(f, (s \ {y}) \ {p}) \in Int
  <2>1. IsFiniteSet((s \ {y}) \ {p}) /\ IsIntOn(f, (s \ {y}) \ {p})
    BY <1>2, FS_Subset DEF IsIntOn
  <2> QED
    BY <2>1, SumIsInt
<1>12. f[p] \in Int /\ f[y] \in Int
  BY <1>2, <1>5 DEF IsIntOn
<1>13. PICK w \in Int : w = SumFunctionOnSet(f, (s \ {y}) \ {p})
  BY <1>11
<1>14. /\ SumFunctionOnSet(f, s) = f[p] + (f[y] + w)
       /\ SumFunctionOnSet(f, s \ {y}) = f[p] + w
  BY <1>5, <1>9, <1>10, <1>13
<1>15. SumFunctionOnSet(f, s) = f[y] + SumFunctionOnSet(f, s \ {y})
  BY <1>12, <1>14
<1> QED
  BY <1>3, <1>15

(* The sum when an element is put in.                                        *)
LEMMA SumAdd ==
    ASSUME NEW f, NEW S, IsFiniteSet(S), NEW x, x \notin S, IsIntOn(f, S \cup {x})
    PROVE  SumFunctionOnSet(f, S \cup {x}) = f[x] + SumFunctionOnSet(f, S)
<1>1. IsFiniteSet(S \cup {x}) /\ (S \cup {x}) \ {x} = S
  BY FS_AddElement
<1> QED
  BY <1>1, SumRemove

(* A sum of zeros is zero.                                                   *)
LEMMA SumOfZeros ==
    ASSUME NEW f, NEW S, IsFiniteSet(S), \A x \in S : f[x] = 0
    PROVE  SumFunctionOnSet(f, S) = 0
<1>0. PICK T : T = {s \in SUBSET S : SumFunctionOnSet(f, s) # 0}
  OBVIOUS
<1> SUFFICES ASSUME T # {} PROVE FALSE
  BY <1>0
<1>1. PICK s \in T : \A t \in T : t \subseteq s => t = s
  BY <1>0, LeastSet
<1>2. s \in SUBSET S /\ IsFiniteSet(s) /\ s # {}
  BY <1>0, FS_Subset, SumEmpty
<1>3. /\ Pick(s) \in s
      /\ SumFunctionOnSet(f, s) = f[Pick(s)] + SumFunctionOnSet(f, s \ {Pick(s)})
  BY <1>2, SumUnfolds
<1>4. SumFunctionOnSet(f, s \ {Pick(s)}) = 0
  BY <1>0, <1>1, <1>2, <1>3
<1> QED
  BY <1>0, <1>2, <1>3, <1>4

(* A sum depends only on the values over its set.                            *)
LEMMA SumSame ==
    ASSUME NEW f, NEW g, NEW S, IsFiniteSet(S), \A x \in S : f[x] = g[x]
    PROVE  SumFunctionOnSet(f, S) = SumFunctionOnSet(g, S)
<1>0. PICK T : T = {s \in SUBSET S : SumFunctionOnSet(f, s) # SumFunctionOnSet(g, s)}
  OBVIOUS
<1> SUFFICES ASSUME T # {} PROVE FALSE
  BY <1>0
<1>1. PICK s \in T : \A t \in T : t \subseteq s => t = s
  BY <1>0, LeastSet
<1>2. s \in SUBSET S /\ IsFiniteSet(s) /\ s # {}
  BY <1>0, FS_Subset, SumEmpty
<1>3. /\ Pick(s) \in s
      /\ SumFunctionOnSet(f, s) = f[Pick(s)] + SumFunctionOnSet(f, s \ {Pick(s)})
      /\ SumFunctionOnSet(g, s) = g[Pick(s)] + SumFunctionOnSet(g, s \ {Pick(s)})
  BY <1>2, SumUnfolds
<1>4. SumFunctionOnSet(f, s \ {Pick(s)}) = SumFunctionOnSet(g, s \ {Pick(s)})
  BY <1>0, <1>1, <1>2, <1>3
<1> QED
  BY <1>0, <1>2, <1>3, <1>4

(* A sum is monotonic in what is summed.                                     *)
LEMMA SumGrows ==
    ASSUME NEW f, NEW g, NEW S, IsFiniteSet(S), IsIntOn(f, S), IsIntOn(g, S),
           \A x \in S : f[x] <= g[x]
    PROVE  SumFunctionOnSet(f, S) <= SumFunctionOnSet(g, S)
<1>0. PICK T : T = {s \in SUBSET S :
                       ~(SumFunctionOnSet(f, s) <= SumFunctionOnSet(g, s))}
  OBVIOUS
<1> SUFFICES ASSUME T # {} PROVE FALSE
  BY <1>0
<1>1. PICK s \in T : \A t \in T : t \subseteq s => t = s
  BY <1>0, LeastSet
<1>2. s \in SUBSET S /\ IsFiniteSet(s)
  BY <1>0, FS_Subset
<1>3. s # {}
  BY <1>0, SumEmpty
<1>4. PICK p : p = Pick(s)
  OBVIOUS
<1>5. /\ p \in s
      /\ SumFunctionOnSet(f, s) = f[p] + SumFunctionOnSet(f, s \ {p})
      /\ SumFunctionOnSet(g, s) = g[p] + SumFunctionOnSet(g, s \ {p})
  BY <1>2, <1>3, <1>4, SumUnfolds
<1>6. SumFunctionOnSet(f, s \ {p}) <= SumFunctionOnSet(g, s \ {p})
  BY <1>0, <1>1, <1>2, <1>5
<1>7. /\ SumFunctionOnSet(f, s \ {p}) \in Int
      /\ SumFunctionOnSet(g, s \ {p}) \in Int
  <2>1. /\ IsFiniteSet(s \ {p})
        /\ IsIntOn(f, s \ {p}) /\ IsIntOn(g, s \ {p})
    BY <1>2, FS_Subset DEF IsIntOn
  <2> QED
    BY <2>1, SumIsInt
<1>8. f[p] \in Int /\ g[p] \in Int /\ f[p] <= g[p]
  BY <1>2, <1>5 DEF IsIntOn
<1>9. SumFunctionOnSet(f, s) <= SumFunctionOnSet(g, s)
  BY <1>5, <1>6, <1>7, <1>8
<1> QED
  BY <1>0, <1>9

(* A sum of naturals is a natural.                                           *)
LEMMA SumIsNat ==
    ASSUME NEW f, NEW S, IsFiniteSet(S), \A x \in S : f[x] \in Nat
    PROVE  SumFunctionOnSet(f, S) \in Nat
<1>0. PICK T : T = {s \in SUBSET S : SumFunctionOnSet(f, s) \notin Nat}
  OBVIOUS
<1> SUFFICES ASSUME T # {} PROVE FALSE
  BY <1>0
<1>1. PICK s \in T : \A t \in T : t \subseteq s => t = s
  BY <1>0, LeastSet
<1>2. s \in SUBSET S /\ IsFiniteSet(s) /\ SumFunctionOnSet(f, s) \notin Nat
  BY <1>0, FS_Subset
<1>3. s # {}
  BY <1>2, SumEmpty
<1>4. /\ Pick(s) \in s
      /\ SumFunctionOnSet(f, s) = f[Pick(s)] + SumFunctionOnSet(f, s \ {Pick(s)})
  BY <1>2, <1>3, SumUnfolds
<1>5. s \ {Pick(s)} \in SUBSET S /\ s \ {Pick(s)} # s
  BY <1>2, <1>4
<1>6. SumFunctionOnSet(f, s \ {Pick(s)}) \in Nat
  BY <1>0, <1>1, <1>5
<1>7. f[Pick(s)] \in Nat
  BY <1>2, <1>4
<1> QED
  BY <1>2, <1>4, <1>6, <1>7

(* A sum splits over a set and its complement.                               *)
LEMMA SumSplit ==
    ASSUME NEW f, NEW S, IsFiniteSet(S), IsIntOn(f, S), NEW R
    PROVE  SumFunctionOnSet(f, S)
               = SumFunctionOnSet(f, S \cap R) + SumFunctionOnSet(f, S \ R)
<1>0. PICK T : T = {s \in SUBSET S :
                       SumFunctionOnSet(f, s) #
                           SumFunctionOnSet(f, s \cap R) + SumFunctionOnSet(f, s \ R)}
  OBVIOUS
<1> SUFFICES ASSUME T # {} PROVE FALSE
  BY <1>0
<1>1. PICK s \in T : \A t \in T : t \subseteq s => t = s
  <2>1. IsFiniteSet(S) /\ T \subseteq SUBSET S /\ T # {}
    BY <1>0
  <2> HIDE <1>0
  <2> QED
    BY <2>1, LeastSet
<1>2. s \in SUBSET S
  BY <1>0
<1>3. IsIntOn(f, s) /\ \A t \in SUBSET s : IsFiniteSet(t) /\ IsIntOn(f, t)
  BY <1>2, FS_Subset DEF IsIntOn
<1>4. s # {}
  <2>1. ASSUME s = {} PROVE FALSE
    <3>1. s \cap R = {} /\ s \ R = {}
      BY <2>1
    <3>2. SumFunctionOnSet(f, {}) # SumFunctionOnSet(f, {}) + SumFunctionOnSet(f, {})
      BY <1>0, <2>1, <3>1
    <3> QED
      BY <3>2, SumEmpty
  <2> QED
    BY <2>1
<1>5. PICK p \in s : TRUE
  BY <1>4
<1>6. PICK a, b, c : a = s \cap R /\ b = s \ R /\ c = s \ {p}
  OBVIOUS
<1>7. a \in SUBSET s /\ b \in SUBSET s /\ c \in SUBSET S /\ c # s /\ c \subseteq s
  BY <1>2, <1>6
<1>8. SumFunctionOnSet(f, s) = f[p] + SumFunctionOnSet(f, c)
  BY <1>3, <1>6, SumRemove
<1>9. SumFunctionOnSet(f, c)
          = SumFunctionOnSet(f, c \cap R) + SumFunctionOnSet(f, c \ R)
  BY <1>0, <1>1, <1>7
<1>10. f[p] \in Int /\ SumFunctionOnSet(f, a) \in Int /\ SumFunctionOnSet(f, b) \in Int
  BY <1>3, <1>7, SumIsInt DEF IsIntOn
<1>11. SumFunctionOnSet(f, s) = SumFunctionOnSet(f, a) + SumFunctionOnSet(f, b)
  <2>1. CASE p \in R
    <3>1. PICK d : d = a \ {p}
      OBVIOUS
    <3>2. c \ R = b /\ c \cap R = d /\ p \in a /\ d \in SUBSET s
      BY <1>6, <2>1, <3>1
    <3>3. SumFunctionOnSet(f, a) = f[p] + SumFunctionOnSet(f, d)
      BY <1>3, <1>7, <3>1, <3>2, SumRemove
    <3>4. SumFunctionOnSet(f, d) \in Int
      BY <1>3, <3>2, SumIsInt
    <3>5. SumFunctionOnSet(f, c) = SumFunctionOnSet(f, d) + SumFunctionOnSet(f, b)
      BY <1>9, <3>2
    <3> QED
      BY <1>8, <1>10, <3>3, <3>4, <3>5
  <2>2. CASE p \notin R
    <3>1. PICK d : d = b \ {p}
      OBVIOUS
    <3>2. c \cap R = a /\ c \ R = d /\ p \in b /\ d \in SUBSET s
      BY <1>6, <2>2, <3>1
    <3>3. SumFunctionOnSet(f, b) = f[p] + SumFunctionOnSet(f, d)
      BY <1>3, <1>7, <3>1, <3>2, SumRemove
    <3>4. SumFunctionOnSet(f, d) \in Int
      BY <1>3, <3>2, SumIsInt
    <3>5. SumFunctionOnSet(f, c) = SumFunctionOnSet(f, a) + SumFunctionOnSet(f, d)
      BY <1>9, <3>2
    <3> QED
      BY <1>8, <1>10, <3>3, <3>4, <3>5
  <2> QED
    BY <2>1, <2>2
<1> QED
  BY <1>0, <1>6, <1>11

(* The sum over more elements is no smaller.                                 *)
LEMMA SumOfMore ==
    ASSUME NEW f, NEW S, IsFiniteSet(S), \A x \in S : f[x] \in Nat, NEW R, R \subseteq S
    PROVE  SumFunctionOnSet(f, R) <= SumFunctionOnSet(f, S)
<1>1. IsIntOn(f, S)
  BY DEF IsIntOn
<1>2. PICK Q : Q = S \ R
  OBVIOUS
<1>3. S \cap R = R /\ Q \subseteq S
  BY <1>2
<1>4. SumFunctionOnSet(f, S) = SumFunctionOnSet(f, R) + SumFunctionOnSet(f, Q)
  BY <1>1, <1>2, <1>3, SumSplit
<1>5. SumFunctionOnSet(f, R) \in Nat /\ SumFunctionOnSet(f, Q) \in Nat
  BY <1>3, FS_Subset, SumIsNat
<1> QED
  BY <1>4, <1>5

(* When one value changes, the sum changes by as much.                       *)
LEMMA SumChange ==
    ASSUME NEW f, NEW g, NEW S, IsFiniteSet(S), IsIntOn(f, S), IsIntOn(g, S),
           NEW p \in S, \A x \in S \ {p} : g[x] = f[x]
    PROVE  SumFunctionOnSet(g, S) = SumFunctionOnSet(f, S) + (g[p] - f[p])
<1>1. IsFiniteSet(S \ {p}) /\ IsIntOn(f, S \ {p})
  BY FS_Subset DEF IsIntOn
<1>2. SumFunctionOnSet(g, S \ {p}) = SumFunctionOnSet(f, S \ {p})
  BY <1>1, SumSame
<1>3. /\ SumFunctionOnSet(f, S) = f[p] + SumFunctionOnSet(f, S \ {p})
      /\ SumFunctionOnSet(g, S) = g[p] + SumFunctionOnSet(g, S \ {p})
  BY SumRemove
<1>4. SumFunctionOnSet(f, S \ {p}) \in Int /\ f[p] \in Int /\ g[p] \in Int
  BY <1>1, SumIsInt DEF IsIntOn
<1> QED
  BY <1>2, <1>3, <1>4
=============================================================================
