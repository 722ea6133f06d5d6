------------------------------ MODULE SumProofs ------------------------------
(***************************************************************************)
(* Sums over finite sets.  SumFunctionOnSet(f, S) adds the values f[x] of  *)
(* the elements x of S, picked one by one in an order that CHOOSE fixes.   *)
(* The lemmas here let the other proofs forget the order: an element can   *)
(* be split off a sum, whichever it is.  What they all rest on is that a   *)
(* set of subsets of a finite set has a minimal element.                   *)
(***************************************************************************)
EXTENDS Integers, FiniteSets, FiniteSetsExt, Functions, FiniteSetTheorems, TLAPS

Pick(s) == CHOOSE x \in s : TRUE

SumStep(f, S, g) ==
    [s \in SUBSET S |-> IF s = {} THEN 0 ELSE f[Pick(s)] + g[s \ {Pick(s)}]]

Partial(f, S) == CHOOSE g : g = SumStep(f, S, g)

Solves(f, S, g) == g = SumStep(f, S, g)

(* What a sum is, by the definitions of the library.                       *)
LEMMA SumIs ==
  ASSUME NEW f, NEW S
  PROVE  SumFunctionOnSet(f, S) = Partial(f, S)[S]
  BY DEF SumFunctionOnSet, FoldFunctionOnSet, MapThenFoldSet, Partial, SumStep, Pick

(* Induction on the subsets of a finite set, as a fact about sets.         *)
LEMMA MinimalSubset ==
  ASSUME NEW S, IsFiniteSet(S), NEW A \in SUBSET SUBSET S, A # {}
  PROVE  \E X \in A : \A Y \in A : Y \subseteq X => Y = X
<1>1. SUBSET S = FiniteSubsetsOf(S)
  BY FS_FiniteSubsetsOfFinite
<1>2. \E X \in A : \A Y \in A : <<Y, X>> \notin StrictSubsetOrdering(S)
  BY <1>1, FS_StrictSubsetOrderingWellFounded, WFMin
<1> QED
  BY <1>2 DEF StrictSubsetOrdering

(* What is picked from a set is in it.                                     *)
LEMMA PickIsElement == ASSUME NEW s, s # {} PROVE Pick(s) \in s
  BY DEF Pick

-----------------------------------------------------------------------------
(* The recursion has a solution, and only one.                             *)

(* What a solution has for one subset.                                     *)
LEMMA SolutionAt ==
  ASSUME NEW f, NEW S, NEW g, Solves(f, S, g), NEW s \in SUBSET S
  PROVE  g[s] = IF s = {} THEN 0 ELSE f[Pick(s)] + g[s \ {Pick(s)}]
  BY DEF Solves, SumStep

(* Two solutions agree wherever both are defined.                          *)
LEMMA SolutionsAgree ==
  ASSUME NEW f, NEW S, NEW T, IsFiniteSet(S),
         NEW g, NEW h, Solves(f, S, g), Solves(f, T, h)
  PROVE  \A s \in SUBSET (S \cap T) : g[s] = h[s]
<1> DEFINE A == {s \in SUBSET (S \cap T) : g[s] # h[s]}
<1>1. SUFFICES ASSUME A # {} PROVE FALSE
  OBVIOUS
<1>2. A \in SUBSET SUBSET S
  OBVIOUS
<1>3. PICK X \in A : \A Y \in A : Y \subseteq X => Y = X
  <2> HIDE DEF A
  <2> QED
    BY <1>1, <1>2, MinimalSubset
<1>4. X \in SUBSET S /\ X \in SUBSET T
  OBVIOUS
<1>5. CASE X = {}
  BY <1>4, <1>5, SolutionAt
<1>6. CASE X # {}
  <2>1. Pick(X) \in X
    BY <1>6, PickIsElement
  <2>2. X \ {Pick(X)} \notin A
    BY <1>3, <2>1
  <2>3. g[X \ {Pick(X)}] = h[X \ {Pick(X)}]
    BY <2>2, <1>4
  <2>4. g[X] = f[Pick(X)] + g[X \ {Pick(X)}] /\ h[X] = f[Pick(X)] + h[X \ {Pick(X)}]
    BY <1>4, <1>6, SolutionAt
  <2> QED
    BY <2>3, <2>4
<1> QED
  BY <1>5, <1>6

(* A solution for a set is one for its subsets.                            *)
LEMMA SolutionRestricts ==
  ASSUME NEW f, NEW S, NEW T \in SUBSET S, NEW g, Solves(f, S, g)
  PROVE  Solves(f, T, [s \in SUBSET T |-> g[s]])
<1> DEFINE h == [s \in SUBSET T |-> g[s]]
<1>1. ASSUME NEW s \in SUBSET T
      PROVE  h[s] = IF s = {} THEN 0 ELSE f[Pick(s)] + h[s \ {Pick(s)}]
  <2>1. s \in SUBSET S /\ s \ {Pick(s)} \in SUBSET T
    OBVIOUS
  <2>2. h[s] = g[s] /\ h[s \ {Pick(s)}] = g[s \ {Pick(s)}]
    BY <2>1
  <2> QED
    BY <2>1, <2>2, SolutionAt
<1>2. h = SumStep(f, T, h)
  BY <1>1 DEF SumStep
<1> QED
  BY <1>2 DEF Solves

(* From solutions for the proper subsets one for the set is put together.  *)
LEMMA SolutionExtends ==
  ASSUME NEW f, NEW S, IsFiniteSet(S),
         \A T \in SUBSET S : T # S => \E g : Solves(f, T, g)
  PROVE  \E g : Solves(f, S, g)
<1> DEFINE of[T \in SUBSET S] == CHOOSE g : Solves(f, T, g)
           below(T) == of[T][T]
           g == [s \in SUBSET S |->
                    IF s # S THEN below(s)
                    ELSE IF S = {} THEN 0 ELSE f[Pick(S)] + below(S \ {Pick(S)})]
<1>1. \A T \in SUBSET S : T # S => Solves(f, T, of[T])
  OBVIOUS
<1>2. ASSUME NEW s \in SUBSET S, s # S, NEW t \in SUBSET s
      PROVE  of[s][t] = below(t)
  <2>1. Solves(f, s, of[s]) /\ Solves(f, t, of[t]) /\ t \in SUBSET (s \cap t)
    BY <1>1, <1>2
  <2>2. IsFiniteSet(s)
    BY FS_Subset
  <2> HIDE DEF of
  <2>3. \A x \in SUBSET (s \cap t) : of[s][x] = of[t][x]
    BY <2>1, <2>2, SolutionsAgree
  <2> QED
    BY <2>1, <2>3
<1>3. ASSUME NEW s \in SUBSET S
      PROVE  g[s] = IF s = {} THEN 0 ELSE f[Pick(s)] + g[s \ {Pick(s)}]
  <2>1. s # {} => Pick(s) \in s
    BY PickIsElement
  <2>2. s # {} => g[s \ {Pick(s)}] = below(s \ {Pick(s)})
    BY <2>1
  <2>3. CASE s = S
    BY <2>2, <2>3
  <2>4. CASE s # S
    <3>1. Solves(f, s, of[s])
      BY <1>1, <2>4
    <3>2. of[s][s] = IF s = {} THEN 0 ELSE f[Pick(s)] + of[s][s \ {Pick(s)}]
      <4> HIDE DEF of
      <4> QED
        BY <3>1, SolutionAt
    <3>3. of[s][s \ {Pick(s)}] = below(s \ {Pick(s)})
      BY <1>2, <2>4
    <3>4. g[s] = of[s][s]
      BY <2>4
    <3> HIDE DEF of, g
    <3> QED
      BY <3>2, <3>3, <3>4, <2>2
  <2> QED
    BY <2>3, <2>4
<1>4. g = SumStep(f, S, g)
  <2> HIDE DEF of
  <2> QED
    BY <1>3 DEF SumStep
<1> QED
  BY <1>4 DEF Solves

(* So the library's definition solves its recursion.                       *)
LEMMA PartialSolves ==
  ASSUME NEW f, NEW S, IsFiniteSet(S)
  PROVE  Solves(f, S, Partial(f, S))
<1> DEFINE A == {T \in SUBSET S : ~ \E g : Solves(f, T, g)}
<1>1. A = {}
  <2>1. SUFFICES ASSUME A # {} PROVE FALSE
    OBVIOUS
  <2>2. PICK X \in A : \A Y \in A : Y \subseteq X => Y = X
    <3>1. A \in SUBSET SUBSET S
      OBVIOUS
    <3> HIDE DEF A
    <3> QED
      BY <2>1, <3>1, MinimalSubset
  <2>3. \A T \in SUBSET X : T # X => \E g : Solves(f, T, g)
    BY <2>2
  <2>4. IsFiniteSet(X)
    BY FS_Subset
  <2>5. \E g : Solves(f, X, g)
    BY <2>3, <2>4, SolutionExtends
  <2> QED
    BY <2>5
<1>2. \E g : g = SumStep(f, S, g)
  BY <1>1 DEF Solves
<1> QED
  BY <1>2 DEF Partial, Solves

(* The sums of all subsets are in the solution of the set.                 *)
LEMMA PartialIsSum ==
  ASSUME NEW f, NEW S, IsFiniteSet(S), NEW T \in SUBSET S
  PROVE  Partial(f, S)[T] = SumFunctionOnSet(f, T)
<1>1. IsFiniteSet(T)
  BY FS_Subset
<1>2. Solves(f, S, Partial(f, S)) /\ Solves(f, T, Partial(f, T))
  BY <1>1, PartialSolves
<1>3. \A s \in SUBSET (S \cap T) : Partial(f, S)[s] = Partial(f, T)[s]
  BY <1>2, SolutionsAgree
<1>4. Partial(f, S)[T] = Partial(f, T)[T]
  BY <1>3
<1> QED
  BY <1>4, SumIs

-----------------------------------------------------------------------------
(* The sum of nothing, and the sum with the picked element split off.      *)

(* The sum of nothing is 0.                                                *)
LEMMA SumEmpty == ASSUME NEW f PROVE SumFunctionOnSet(f, {}) = 0
<1>1. Solves(f, {}, Partial(f, {}))
  BY PartialSolves, FS_EmptySet
<1>2. Partial(f, {})[{}] = 0
  BY <1>1, SolutionAt
<1> QED
  BY <1>2, SumIs

(* The picked element can be split off a sum.                              *)
LEMMA SumPick ==
  ASSUME NEW f, NEW S, IsFiniteSet(S), S # {}
  PROVE  SumFunctionOnSet(f, S) = f[Pick(S)] + SumFunctionOnSet(f, S \ {Pick(S)})
<1>1. Solves(f, S, Partial(f, S))
  BY PartialSolves
<1>2. S \in SUBSET S
  OBVIOUS
<1>3. Partial(f, S)[S] = f[Pick(S)] + Partial(f, S)[S \ {Pick(S)}]
  BY <1>1, <1>2, SolutionAt
<1>4. Partial(f, S)[S \ {Pick(S)}] = SumFunctionOnSet(f, S \ {Pick(S)})
  BY PartialIsSum
<1> QED
  BY <1>3, <1>4, SumIs

(* A sum of integers is an integer.                                        *)
LEMMA SumType ==
  ASSUME NEW f, NEW S, IsFiniteSet(S), \A x \in S : f[x] \in Int
  PROVE  SumFunctionOnSet(f, S) \in Int
<1> DEFINE A == {T \in SUBSET S : SumFunctionOnSet(f, T) \notin Int}
<1>1. SUFFICES ASSUME A # {} PROVE FALSE
  OBVIOUS
<1>2. PICK X \in A : \A Y \in A : Y \subseteq X => Y = X
  <2>1. A \in SUBSET SUBSET S
    OBVIOUS
  <2> HIDE DEF A
  <2> QED
    BY <1>1, <2>1, MinimalSubset
<1>3. IsFiniteSet(X)
  BY FS_Subset
<1>4. X # {}
  BY SumEmpty
<1>5. Pick(X) \in X
  BY <1>4, PickIsElement
<1>6. SumFunctionOnSet(f, X \ {Pick(X)}) \in Int
  BY <1>2, <1>5
<1>7. SumFunctionOnSet(f, X) = f[Pick(X)] + SumFunctionOnSet(f, X \ {Pick(X)})
  BY <1>3, <1>4, SumPick
<1>8. f[Pick(X)] \in Int
  BY <1>5
<1> QED
  BY <1>6, <1>7, <1>8

(* Any element can be split off a sum.                                     *)
LEMMA SumRemove ==
  ASSUME NEW f, NEW S, IsFiniteSet(S), \A x \in S : f[x] \in Int, NEW a \in S
  PROVE  SumFunctionOnSet(f, S) = f[a] + SumFunctionOnSet(f, S \ {a})
<1> DEFINE Splits(T) == \A x \in T : SumFunctionOnSet(f, T) = f[x] + SumFunctionOnSet(f, T \ {x})
           A == {T \in SUBSET S : ~Splits(T)}
<1>1. SUFFICES ASSUME A # {} PROVE FALSE
  OBVIOUS
<1>2. PICK X \in A : \A Y \in A : Y \subseteq X => Y = X
  <2>1. A \in SUBSET SUBSET S
    OBVIOUS
  <2> HIDE DEF A
  <2> QED
    BY <1>1, <2>1, MinimalSubset
<1>3. PICK b \in X : SumFunctionOnSet(f, X) # f[b] + SumFunctionOnSet(f, X \ {b})
  OBVIOUS
<1>4. IsFiniteSet(X) /\ X # {}
  BY FS_Subset
<1>5. PICK c \in X : SumFunctionOnSet(f, X) = f[c] + SumFunctionOnSet(f, X \ {c})
  BY <1>4, SumPick, PickIsElement
<1>6. SumFunctionOnSet(f, X \ {c}) = f[b] + SumFunctionOnSet(f, (X \ {c}) \ {b})
  BY <1>2, <1>3, <1>5
<1>7. SumFunctionOnSet(f, X \ {b}) = f[c] + SumFunctionOnSet(f, (X \ {b}) \ {c})
  BY <1>2, <1>3, <1>5
<1>8. (X \ {b}) \ {c} = (X \ {c}) \ {b}
  OBVIOUS
<1>9. SumFunctionOnSet(f, (X \ {b}) \ {c}) \in Int
  <2>1. IsFiniteSet((X \ {b}) \ {c}) /\ \A x \in (X \ {b}) \ {c} : f[x] \in Int
    BY <1>4, FS_Subset
  <2> QED
    BY <2>1, SumType
<1>10. f[b] \in Int /\ f[c] \in Int
  BY <1>3, <1>5
<1>11. SumFunctionOnSet(f, X \ {c}) = f[b] + SumFunctionOnSet(f, (X \ {b}) \ {c})
  BY ONLY <1>6, <1>8
<1> DEFINE rest == SumFunctionOnSet(f, (X \ {b}) \ {c})
<1>12. SumFunctionOnSet(f, X) = f[c] + (f[b] + rest) /\ SumFunctionOnSet(f, X) # f[b] + (f[c] + rest)
  BY ONLY <1>3, <1>5, <1>7, <1>11
<1>13. rest \in Int
  BY <1>9
<1> HIDE DEF A, rest
<1> QED
  BY ONLY <1>10, <1>12, <1>13

(* An element more.                                                        *)
LEMMA SumAdd ==
  ASSUME NEW f, NEW S, IsFiniteSet(S), \A x \in S : f[x] \in Int, NEW a, f[a] \in Int, a \notin S
  PROVE  SumFunctionOnSet(f, S \cup {a}) = f[a] + SumFunctionOnSet(f, S)
<1>1. IsFiniteSet(S \cup {a})
  BY FS_AddElement
<1>2. SumFunctionOnSet(f, S \cup {a}) = f[a] + SumFunctionOnSet(f, (S \cup {a}) \ {a})
  BY <1>1, SumRemove
<1>3. (S \cup {a}) \ {a} = S
  OBVIOUS
<1> QED
  BY <1>2, <1>3

(* A sum of naturals is a natural.                                         *)
LEMMA SumNat ==
  ASSUME NEW f, NEW S, IsFiniteSet(S), \A x \in S : f[x] \in Nat
  PROVE  SumFunctionOnSet(f, S) \in Nat
<1> DEFINE A == {T \in SUBSET S : SumFunctionOnSet(f, T) \notin Nat}
<1>1. SUFFICES ASSUME A # {} PROVE FALSE
  OBVIOUS
<1>2. PICK X \in A : \A Y \in A : Y \subseteq X => Y = X
  <2>1. A \in SUBSET SUBSET S
    OBVIOUS
  <2> HIDE DEF A
  <2> QED
    BY <1>1, <2>1, MinimalSubset
<1>3. IsFiniteSet(X)
  BY FS_Subset
<1>4. PICK a \in X : TRUE
  BY SumEmpty
<1>5. SumFunctionOnSet(f, X) = f[a] + SumFunctionOnSet(f, X \ {a})
  BY <1>3, SumRemove
<1>6. SumFunctionOnSet(f, X \ {a}) \in Nat
  BY <1>2
<1>7. f[a] \in Nat
  OBVIOUS
<1> QED
  BY <1>5, <1>6, <1>7

(* Sums of the same values are the same, wherever the values come from:    *)
(* the elements of S may be renamed by h, one to one.                      *)
LEMMA SumImage ==
  ASSUME NEW f, NEW g, NEW h, NEW S, IsFiniteSet(S), \A x \in S : f[x] \in Int /\ g[h[x]] = f[x],
         \A x, y \in S : h[x] = h[y] => x = y
  PROVE  SumFunctionOnSet(g, {h[x] : x \in S}) = SumFunctionOnSet(f, S)
<1> DEFINE Image(T) == {h[x] : x \in T}
           A == {T \in SUBSET S : ~IsFiniteSet(Image(T)) \/ SumFunctionOnSet(g, Image(T)) # SumFunctionOnSet(f, T)}
<1>1. SUFFICES ASSUME A # {} PROVE FALSE
  OBVIOUS
<1>2. PICK X \in A : \A Y \in A : Y \subseteq X => Y = X
  <2>1. A \in SUBSET SUBSET S
    OBVIOUS
  <2> HIDE DEF A
  <2> QED
    BY <1>1, <2>1, MinimalSubset
<1>3. IsFiniteSet(X)
  BY FS_Subset
<1>4. X # {}
  <2>1. Image({}) = {}
    OBVIOUS
  <2> QED
    BY <2>1, SumEmpty, FS_EmptySet
<1>5. PICK a \in X : TRUE
  BY <1>4
<1> DEFINE Y == X \ {a}
<1>6. IsFiniteSet(Image(Y)) /\ SumFunctionOnSet(g, Image(Y)) = SumFunctionOnSet(f, Y)
  BY <1>2
<1>7. Image(X) = Image(Y) \cup {h[a]} /\ h[a] \notin Image(Y)
  OBVIOUS
<1>8. IsFiniteSet(Image(X))
  <2> HIDE DEF Image, A, Y
  <2> QED
    BY <1>6, <1>7, FS_AddElement
<1>9. SumFunctionOnSet(f, X) = f[a] + SumFunctionOnSet(f, Y)
  BY <1>3, SumRemove
<1>10. \A z \in Image(Y) : g[z] \in Int
  OBVIOUS
<1>11. g[h[a]] \in Int /\ g[h[a]] = f[a]
  OBVIOUS
<1>12. SumFunctionOnSet(g, Image(X)) = g[h[a]] + SumFunctionOnSet(g, Image(Y))
  <2> HIDE DEF Image, A, Y
  <2> QED
    BY <1>6, <1>7, <1>10, <1>11, SumAdd
<1> QED
  BY <1>6, <1>8, <1>9, <1>11, <1>12

(* The sum depends only on the values.                                     *)
LEMMA SumCongruence ==
  ASSUME NEW f, NEW g, NEW S, IsFiniteSet(S), \A x \in S : f[x] \in Int /\ g[x] = f[x]
  PROVE  SumFunctionOnSet(g, S) = SumFunctionOnSet(f, S)
<1> DEFINE h == [x \in S |-> x]
<1>1. {h[x] : x \in S} = S
  OBVIOUS
<1>2. SumFunctionOnSet(g, {h[x] : x \in S}) = SumFunctionOnSet(f, S)
  <2>1. (\A x \in S : f[x] \in Int /\ g[h[x]] = f[x]) /\ (\A x, y \in S : h[x] = h[y] => x = y)
    OBVIOUS
  <2> HIDE DEF h
  <2> QED
    BY <2>1, SumImage
<1> QED
  BY <1>1, <1>2

(* The sums of two sets that have nothing in common.                       *)
LEMMA SumUnion ==
  ASSUME NEW f, NEW S, NEW R, IsFiniteSet(S), IsFiniteSet(R), R \cap S = {},
         \A x \in S \cup R : f[x] \in Int
  PROVE  SumFunctionOnSet(f, R \cup S) = SumFunctionOnSet(f, R) + SumFunctionOnSet(f, S)
<1> DEFINE A == {T \in SUBSET S : SumFunctionOnSet(f, R \cup T) # SumFunctionOnSet(f, R) + SumFunctionOnSet(f, T)}
<1>1. SUFFICES ASSUME A # {} PROVE FALSE
  OBVIOUS
<1>2. PICK X \in A : \A Y \in A : Y \subseteq X => Y = X
  <2>1. A \in SUBSET SUBSET S
    OBVIOUS
  <2> HIDE DEF A
  <2> QED
    BY <1>1, <2>1, MinimalSubset
<1>3. IsFiniteSet(X)
  BY FS_Subset
<1>4. SumFunctionOnSet(f, R) \in Int
  BY SumType
<1>5. X # {}
  <2>1. R \cup {} = R
    OBVIOUS
  <2>2. SumFunctionOnSet(f, {}) = 0
    BY SumEmpty
  <2> QED
    BY <2>1, <2>2, <1>4
<1>6. PICK a \in X : TRUE
  BY <1>5
<1> DEFINE Y == X \ {a}
<1>7. SumFunctionOnSet(f, R \cup Y) = SumFunctionOnSet(f, R) + SumFunctionOnSet(f, Y)
  BY <1>2
<1>8. (R \cup X) \ {a} = R \cup Y
  BY <1>6
<1>9. f[a] \in Int /\ \A x \in R \cup X : f[x] \in Int
  OBVIOUS
<1>10. SumFunctionOnSet(f, X) = f[a] + SumFunctionOnSet(f, Y)
  BY <1>3, <1>9, SumRemove
<1>11. SumFunctionOnSet(f, R \cup X) = f[a] + SumFunctionOnSet(f, R \cup Y)
  <2>1. IsFiniteSet(R \cup X)
    BY <1>3, FS_Union
  <2> HIDE DEF A, Y
  <2> QED
    BY <1>8, <1>9, <2>1, SumRemove
<1>12. SumFunctionOnSet(f, Y) \in Int
  <2>1. IsFiniteSet(Y)
    BY <1>3, FS_Subset
  <2> QED
    BY <2>1, SumType
<1>13. SumFunctionOnSet(f, R \cup X) # SumFunctionOnSet(f, R) + SumFunctionOnSet(f, X)
  OBVIOUS
<1> HIDE DEF A, Y
<1> QED
  BY <1>4, <1>7, <1>9, <1>10, <1>11, <1>12, <1>13

(* More naturals make no smaller sum.                                      *)
LEMMA SumSubset ==
  ASSUME NEW f, NEW S, NEW T \in SUBSET S, IsFiniteSet(S), \A x \in S : f[x] \in Nat
  PROVE  SumFunctionOnSet(f, T) <= SumFunctionOnSet(f, S)
<1>1. IsFiniteSet(T) /\ IsFiniteSet(S \ T)
  BY FS_Subset
<1>2. T \cap (S \ T) = {} /\ S = T \cup (S \ T)
  OBVIOUS
<1>3. SumFunctionOnSet(f, T \cup (S \ T)) = SumFunctionOnSet(f, T) + SumFunctionOnSet(f, S \ T)
  <2>1. \A x \in T \cup (S \ T) : f[x] \in Int
    OBVIOUS
  <2> DEFINE R == S \ T
  <2>2. IsFiniteSet(R) /\ T \cap R = {} /\ \A x \in R \cup T : f[x] \in Int
    BY <1>1
  <2> HIDE DEF R
  <2>3. SumFunctionOnSet(f, T \cup R) = SumFunctionOnSet(f, T) + SumFunctionOnSet(f, R)
    BY <1>1, <2>2, SumUnion
  <2> QED
    BY <2>3 DEF R
<1>4. SumFunctionOnSet(f, T) \in Nat /\ SumFunctionOnSet(f, S \ T) \in Nat
  BY <1>1, SumNat
<1>5. SumFunctionOnSet(f, S) = SumFunctionOnSet(f, T) + SumFunctionOnSet(f, S \ T)
  BY ONLY <1>2, <1>3
<1> QED
  BY ONLY <1>4, <1>5

(* Nothing but zeros.                                                      *)
LEMMA SumZero ==
  ASSUME NEW f, NEW S, IsFiniteSet(S), \A x \in S : f[x] = 0
  PROVE  SumFunctionOnSet(f, S) = 0
<1> DEFINE A == {T \in SUBSET S : SumFunctionOnSet(f, T) # 0}
<1>1. SUFFICES ASSUME A # {} PROVE FALSE
  OBVIOUS
<1>2. PICK X \in A : \A Y \in A : Y \subseteq X => Y = X
  <2>1. A \in SUBSET SUBSET S
    OBVIOUS
  <2> HIDE DEF A
  <2> QED
    BY <1>1, <2>1, MinimalSubset
<1>3. IsFiniteSet(X)
  BY FS_Subset
<1>4. PICK a \in X : TRUE
  BY SumEmpty
<1>5. SumFunctionOnSet(f, X) = f[a] + SumFunctionOnSet(f, X \ {a})
  BY <1>3, SumRemove
<1>6. SumFunctionOnSet(f, X \ {a}) = 0 /\ f[a] = 0
  BY <1>2
<1> QED
  BY <1>5, <1>6

(* All values but those of a subset are zeros.                             *)
LEMMA SumSupport ==
  ASSUME NEW f, NEW S, NEW T \in SUBSET S, IsFiniteSet(S), \A x \in S : f[x] \in Int,
         \A x \in S \ T : f[x] = 0
  PROVE  SumFunctionOnSet(f, S) = SumFunctionOnSet(f, T)
<1> DEFINE R == S \ T
<1>1. IsFiniteSet(T) /\ IsFiniteSet(R)
  BY FS_Subset
<1>2. T \cap R = {} /\ S = T \cup R /\ \A x \in R \cup T : f[x] \in Int
  OBVIOUS
<1>3. SumFunctionOnSet(f, R) = 0
  BY <1>1, SumZero
<1>4. SumFunctionOnSet(f, T) \in Int
  BY <1>1, SumType
<1> HIDE DEF R
<1>5. SumFunctionOnSet(f, T \cup R) = SumFunctionOnSet(f, T) + SumFunctionOnSet(f, R)
  BY <1>1, <1>2, SumUnion
<1> QED
  BY <1>2, <1>3, <1>4, <1>5

(* A sum of what is nowhere less is not less.                              *)
LEMMA SumOrdered ==
  ASSUME NEW f, NEW g, NEW S, IsFiniteSet(S), \A x \in S : f[x] \in Int /\ g[x] \in Int /\ f[x] <= g[x]
  PROVE  SumFunctionOnSet(f, S) <= SumFunctionOnSet(g, S)
<1> DEFINE A == {T \in SUBSET S : ~(SumFunctionOnSet(f, T) <= SumFunctionOnSet(g, T))}
<1>1. SUFFICES ASSUME A # {} PROVE FALSE
  OBVIOUS
<1>2. PICK X \in A : \A Y \in A : Y \subseteq X => Y = X
  <2>1. A \in SUBSET SUBSET S
    OBVIOUS
  <2> HIDE DEF A
  <2> QED
    BY <1>1, <2>1, MinimalSubset
<1>3. IsFiniteSet(X) /\ X \in SUBSET S
  BY FS_Subset
<1>4. X # {}
  BY SumEmpty
<1>5. PICK a, Y : a = Pick(X) /\ a \in X /\ Y = X \ {a}
  BY <1>4, PickIsElement
<1>6. Y \in SUBSET S /\ Y # X /\ Y \subseteq X /\ IsFiniteSet(Y)
  BY <1>3, <1>5, FS_Subset
<1>7. SumFunctionOnSet(f, Y) <= SumFunctionOnSet(g, Y)
  BY <1>2, <1>6
<1>8. SumFunctionOnSet(f, Y) \in Int /\ SumFunctionOnSet(g, Y) \in Int
  BY <1>6, SumType
<1>9. /\ SumFunctionOnSet(f, X) = f[a] + SumFunctionOnSet(f, Y)
      /\ SumFunctionOnSet(g, X) = g[a] + SumFunctionOnSet(g, Y)
  BY <1>3, <1>4, <1>5, SumPick
<1>10. f[a] \in Int /\ g[a] \in Int /\ f[a] <= g[a]
  BY <1>3, <1>5
<1>11. SumFunctionOnSet(f, X) <= SumFunctionOnSet(g, X)
  BY ONLY <1>7, <1>8, <1>9, <1>10
<1> QED
  BY <1>11

(* A sum of ones counts them.                                              *)
LEMMA SumOnes ==
  ASSUME NEW f, NEW S, IsFiniteSet(S), \A x \in S : f[x] = 1
  PROVE  SumFunctionOnSet(f, S) = Cardinality(S)
<1> DEFINE A == {T \in SUBSET S : SumFunctionOnSet(f, T) # Cardinality(T)}
<1>1. SUFFICES ASSUME A # {} PROVE FALSE
  OBVIOUS
<1>2. PICK X \in A : \A Y \in A : Y \subseteq X => Y = X
  <2>1. A \in SUBSET SUBSET S
    OBVIOUS
  <2> HIDE DEF A
  <2> QED
    BY <1>1, <2>1, MinimalSubset
<1>3. IsFiniteSet(X)
  BY FS_Subset
<1>4. X # {}
  BY SumEmpty, FS_EmptySet
<1>5. PICK a \in X : TRUE
  BY <1>4
<1>6. SumFunctionOnSet(f, X) = f[a] + SumFunctionOnSet(f, X \ {a})
  BY <1>3, <1>5, SumRemove
<1>7. SumFunctionOnSet(f, X \ {a}) = Cardinality(X \ {a})
  BY <1>2, <1>5
<1>8. Cardinality(X) \in Nat /\ Cardinality(X \ {a}) = Cardinality(X) - 1
  BY <1>3, <1>5, FS_CardinalityType, FS_RemoveElement
<1>9. f[a] = 1
  OBVIOUS
<1> QED
  BY <1>6, <1>7, <1>8, <1>9

(* It is greater if something is.                                          *)
LEMMA SumStrict ==
  ASSUME NEW f, NEW g, NEW S, IsFiniteSet(S), \A x \in S : f[x] \in Int /\ g[x] \in Int /\ f[x] <= g[x],
         NEW a \in S, f[a] < g[a]
  PROVE  SumFunctionOnSet(f, S) < SumFunctionOnSet(g, S)
<1>1. PICK R : R = S \ {a} /\ IsFiniteSet(R) /\ R \in SUBSET S
  BY FS_Subset
<1>2. SumFunctionOnSet(f, R) \in Int /\ SumFunctionOnSet(g, R) \in Int
  BY <1>1, SumType
<1>3. SumFunctionOnSet(f, R) <= SumFunctionOnSet(g, R)
  BY <1>1, SumOrdered
<1>4. /\ SumFunctionOnSet(f, S) = f[a] + SumFunctionOnSet(f, R)
      /\ SumFunctionOnSet(g, S) = g[a] + SumFunctionOnSet(g, R)
  BY <1>1, SumRemove
<1>5. f[a] \in Int /\ g[a] \in Int
  OBVIOUS
<1> QED
  BY ONLY <1>2, <1>3, <1>4, <1>5, f[a] < g[a]

-----------------------------------------------------------------------------
(* Folds with any step: F, applied to the element that ch chooses from a   *)
(* set and to the value of the set without it.                             *)

FoldStep(F, b, ch, S, g) ==
    [s \in SUBSET S |-> IF s = {} THEN b ELSE F[<<ch[s], g[s \ {ch[s]}]>>]]

FoldSolves(F, b, ch, S, g) == g = FoldStep(F, b, ch, S, g)

Chooses(ch, S) == \A s \in SUBSET S : s # {} => ch[s] \in s

(* What a solution has for one subset.                                     *)
LEMMA FoldAt ==
  ASSUME NEW F, NEW b, NEW ch, NEW S, NEW g, FoldSolves(F, b, ch, S, g), NEW s \in SUBSET S
  PROVE  g[s] = IF s = {} THEN b ELSE F[<<ch[s], g[s \ {ch[s]}]>>]
  BY DEF FoldSolves, FoldStep

(* What holds for the empty set, and for a set if it holds for the set     *)
(* without its choice, holds for all subsets: W has the values allowed.    *)
LEMMA FoldInduction ==
  ASSUME NEW S, IsFiniteSet(S), NEW ch, Chooses(ch, S), NEW g, NEW W, g[{}] \in W[{}],
         \A s \in SUBSET S : s # {} /\ g[s \ {ch[s]}] \in W[s \ {ch[s]}] => g[s] \in W[s]
  PROVE  \A s \in SUBSET S : g[s] \in W[s]
<1> DEFINE A == {s \in SUBSET S : g[s] \notin W[s]}
<1>1. SUFFICES ASSUME A # {} PROVE FALSE
  OBVIOUS
<1>2. PICK X \in A : \A Y \in A : Y \subseteq X => Y = X
  <2>1. A \in SUBSET SUBSET S
    OBVIOUS
  <2> HIDE DEF A
  <2> QED
    BY <1>1, <2>1, MinimalSubset
<1>3. X \in SUBSET S /\ X # {}
  OBVIOUS
<1>4. ch[X] \in X
  BY <1>3 DEF Chooses
<1>5. g[X \ {ch[X]}] \in W[X \ {ch[X]}]
  BY <1>2, <1>4
<1> QED
  BY <1>3, <1>5

(* Two solutions agree wherever both are defined.                          *)
LEMMA FoldsAgree ==
  ASSUME NEW F, NEW b, NEW ch, NEW S, NEW T, IsFiniteSet(S), Chooses(ch, S),
         NEW g, NEW h, FoldSolves(F, b, ch, S, g), FoldSolves(F, b, ch, T, h)
  PROVE  \A s \in SUBSET (S \cap T) : g[s] = h[s]
<1> DEFINE W == [s \in SUBSET (S \cap T) |-> {h[s]}]
<1>1. IsFiniteSet(S \cap T) /\ Chooses(ch, S \cap T)
  BY FS_Subset DEF Chooses
<1>2. \A s \in SUBSET (S \cap T) : s \in SUBSET S /\ s \in SUBSET T
  OBVIOUS
<1>3. g[{}] \in W[{}]
  <2>1. {} \in SUBSET S /\ {} \in SUBSET T
    OBVIOUS
  <2>2. g[{}] = b /\ h[{}] = b
    BY <2>1 DEF FoldSolves, FoldStep
  <2> QED
    BY <2>2
<1>4. ASSUME NEW s \in SUBSET (S \cap T), s # {}, g[s \ {ch[s]}] \in W[s \ {ch[s]}]
      PROVE  g[s] \in W[s]
  <2>1. g[s] = F[<<ch[s], g[s \ {ch[s]}]>>] /\ h[s] = F[<<ch[s], h[s \ {ch[s]}]>>]
    BY <1>2, <1>4, FoldAt
  <2>2. g[s \ {ch[s]}] = h[s \ {ch[s]}]
    BY <1>4
  <2> QED
    BY <2>1, <2>2
<1>5. \A s \in SUBSET (S \cap T) : g[s] \in W[s]
  <2> HIDE DEF W
  <2> QED
    BY <1>1, <1>3, <1>4, FoldInduction
<1> QED
  BY <1>5

(* From solutions for the proper subsets one for the set is put together.  *)
LEMMA FoldExtends ==
  ASSUME NEW F, NEW b, NEW ch, NEW S, IsFiniteSet(S), Chooses(ch, S),
         \A T \in SUBSET S : T # S => \E g : FoldSolves(F, b, ch, T, g)
  PROVE  \E g : FoldSolves(F, b, ch, S, g)
<1> DEFINE of[T \in SUBSET S] == CHOOSE g : FoldSolves(F, b, ch, T, g)
           below(T) == of[T][T]
           g == [s \in SUBSET S |->
                    IF s # S THEN below(s)
                    ELSE IF S = {} THEN b ELSE F[<<ch[S], below(S \ {ch[S]})>>]]
<1>1. \A T \in SUBSET S : T # S => FoldSolves(F, b, ch, T, of[T])
  OBVIOUS
<1>2. ASSUME NEW s \in SUBSET S, s # S, NEW t \in SUBSET s
      PROVE  of[s][t] = below(t)
  <2>1. FoldSolves(F, b, ch, s, of[s]) /\ FoldSolves(F, b, ch, t, of[t]) /\ t \in SUBSET (s \cap t)
    BY <1>1, <1>2
  <2>2. IsFiniteSet(s) /\ Chooses(ch, s)
    BY FS_Subset DEF Chooses
  <2>3. PICK x, y : x = of[s] /\ y = of[t]
    OBVIOUS
  <2>4. FoldSolves(F, b, ch, s, x) /\ FoldSolves(F, b, ch, t, y)
    BY <2>1, <2>3
  <2> HIDE DEF of
  <2>5. \A z \in SUBSET (s \cap t) : x[z] = y[z]
    BY ONLY <2>2, <2>4, FoldsAgree
  <2> QED
    BY <2>1, <2>3, <2>5
<1>3. ASSUME NEW s \in SUBSET S
      PROVE  g[s] = IF s = {} THEN b ELSE F[<<ch[s], g[s \ {ch[s]}]>>]
  <2>1. s # {} => ch[s] \in s
    BY DEF Chooses
  <2>2. s # {} => g[s \ {ch[s]}] = below(s \ {ch[s]})
    BY <2>1
  <2>3. CASE s = S
    BY <2>2, <2>3
  <2>4. CASE s # S
    <3>1. FoldSolves(F, b, ch, s, of[s])
      BY <1>1, <2>4
    <3>2. of[s][s] = IF s = {} THEN b ELSE F[<<ch[s], of[s][s \ {ch[s]}]>>]
      <4> HIDE DEF of
      <4> QED
        BY <3>1, FoldAt
    <3>3. of[s][s \ {ch[s]}] = below(s \ {ch[s]})
      BY <1>2, <2>4
    <3>4. g[s] = of[s][s]
      BY <2>4
    <3> HIDE DEF of, g
    <3> QED
      BY <3>2, <3>3, <3>4, <2>2
  <2> QED
    BY <2>3, <2>4
<1>4. g = FoldStep(F, b, ch, S, g)
  <2> HIDE DEF of
  <2> QED
    BY <1>3 DEF FoldStep
<1> QED
  BY <1>4 DEF FoldSolves

(* The recursion of a fold has a solution.                                 *)
LEMMA FoldSolvable ==
  ASSUME NEW F, NEW b, NEW ch, NEW S, IsFiniteSet(S), Chooses(ch, S)
  PROVE  \E g : FoldSolves(F, b, ch, S, g)
<1> DEFINE A == {T \in SUBSET S : ~ \E g : FoldSolves(F, b, ch, T, g)}
<1>1. SUFFICES ASSUME A # {} PROVE FALSE
  OBVIOUS
<1>2. PICK X \in A : \A Y \in A : Y \subseteq X => Y = X
  <2>1. A \in SUBSET SUBSET S
    OBVIOUS
  <2> HIDE DEF A
  <2> QED
    BY <1>1, <2>1, MinimalSubset
<1>3. \A T \in SUBSET X : T # X => \E g : FoldSolves(F, b, ch, T, g)
  BY <1>2
<1>4. IsFiniteSet(X) /\ Chooses(ch, X)
  BY FS_Subset DEF Chooses
<1>5. \E g : FoldSolves(F, b, ch, X, g)
  BY <1>3, <1>4, FoldExtends
<1> QED
  BY <1>5

-----------------------------------------------------------------------------
(* Maxima, and folds over sequences: the last index is chosen first.       *)

(* A finite set of integers has a maximum.                                 *)
LEMMA MaxOf ==
  ASSUME NEW S, \A x \in S : x \in Int, IsFiniteSet(S), S # {}
  PROVE  Max(S) \in S /\ \A y \in S : y <= Max(S)
<1> DEFINE A == {T \in SUBSET S : T # {} /\ ~ \E x \in T : \A y \in T : x >= y}
<1>1. A = {}
  <2>1. SUFFICES ASSUME A # {} PROVE FALSE
    OBVIOUS
  <2>2. PICK X \in A : \A Y \in A : Y \subseteq X => Y = X
    <3>1. A \in SUBSET SUBSET S
      OBVIOUS
    <3> HIDE DEF A
    <3>2. IsFiniteSet(S)
      OBVIOUS
    <3> QED
      BY ONLY <2>1, <3>1, <3>2, MinimalSubset
  <2>3. X \in SUBSET S /\ X # {} /\ ~ \E x \in X : \A y \in X : x >= y
    OBVIOUS
  <2>4. PICK a \in X : TRUE
    BY <2>3
  <2>5. a \in Int
    BY <2>3
  <2>6. X \ {a} \in SUBSET S /\ X \ {a} \notin A
    BY <2>2, <2>4
  <2>7. X \ {a} # {}
    BY <2>3, <2>5
  <2>8. PICK b \in X \ {a} : \A y \in X \ {a} : b >= y
    BY <2>6, <2>7
  <2>9. b \in Int /\ b \in X
    BY <2>3
  <2>10. CASE a >= b
    <3>1. \A y \in X : y \in Int
      BY <2>3
    <3>2. \A y \in X : a >= y
      BY <2>5, <2>8, <2>9, <2>10, <3>1
    <3> QED
      BY <2>3, <3>2
  <2>11. CASE b >= a
    <3>1. \A y \in X : b >= y
      BY <2>8, <2>11
    <3> QED
      BY <2>3, <2>9, <3>1
  <2> QED
    BY <2>5, <2>9, <2>10, <2>11
<1>2. \E x \in S : \A y \in S : x >= y
  BY <1>1
<1>3. Max(S) \in S /\ \A y \in S : Max(S) >= y
  BY <1>2 DEF Max
<1> QED
  BY <1>3

Tops(n) == [s \in SUBSET (1..n) |-> Max(s)]

(* So the maximum of a set of indices can be chosen.                       *)
LEMMA TopsChoose ==
  ASSUME NEW n \in Nat
  PROVE  IsFiniteSet(1..n) /\ Chooses(Tops(n), 1..n)
<1>1. IsFiniteSet(1..n)
  BY FS_Interval
<1>2. ASSUME NEW s \in SUBSET (1..n), s # {}
      PROVE  Max(s) \in s
  <2>1. IsFiniteSet(s) /\ \A x \in s : x \in Int
    <3>1. PICK S : S = 1..n
      OBVIOUS
    <3>2. IsFiniteSet(S) /\ s \in SUBSET S /\ S \in SUBSET Int
      BY <1>1, <3>1
    <3> QED
      BY <3>2, FS_Subset
  <2> QED
    BY <1>2, <2>1, MaxOf
<1> QED
  BY <1>1, <1>2 DEF Chooses, Tops

SeqStep(F, b, n, g) ==
    [s \in SUBSET (1..n) |-> IF s = {} THEN b ELSE F[<<Max(s), g[s \ {Max(s)}]>>]]

(* What holds for the base, and after an index for the set with it if      *)
(* before for the set without it, holds in the end.                        *)
LEMMA SeqInduction ==
  ASSUME NEW n \in Nat, NEW g, NEW W, g[{}] \in W[{}],
         \A s \in SUBSET (1..n) : s # {} /\ g[s \ {Max(s)}] \in W[s \ {Max(s)}] => g[s] \in W[s]
  PROVE  \A s \in SUBSET (1..n) : g[s] \in W[s]
<1>1. IsFiniteSet(1..n) /\ Chooses(Tops(n), 1..n)
  BY TopsChoose
<1>2. \A s \in SUBSET (1..n) : Tops(n)[s] = Max(s)
  BY DEF Tops
<1>3. \A s \in SUBSET (1..n) : s # {} /\ g[s \ {Tops(n)[s]}] \in W[s \ {Tops(n)[s]}] => g[s] \in W[s]
  BY <1>2
<1>4. PICK ch, S : ch = Tops(n) /\ S = 1..n
  OBVIOUS
<1>5. \A s \in SUBSET S : g[s] \in W[s]
  <2>1. IsFiniteSet(S) /\ Chooses(ch, S)
    BY <1>1, <1>4
  <2>2. \A s \in SUBSET S : s # {} /\ g[s \ {ch[s]}] \in W[s \ {ch[s]}] => g[s] \in W[s]
    BY <1>3, <1>4
  <2> QED
    BY ONLY <2>1, <2>2, g[{}] \in W[{}], FoldInduction
<1> QED
  BY <1>4, <1>5

(* A fold over indices that keeps to V has a solution.                     *)
LEMMA SeqFold ==
  ASSUME NEW n \in Nat, NEW V, NEW b \in V, NEW F, \A i \in 1..n, v \in V : F[<<i, v>>] \in V
  PROVE  \E g : g = SeqStep(F, b, n, g) /\ \A s \in SUBSET (1..n) : g[s] \in V
<1> DEFINE ch == Tops(n)
           W  == [s \in SUBSET (1..n) |-> V]
<1>1. IsFiniteSet(1..n) /\ Chooses(ch, 1..n)
  BY TopsChoose
<1>2. PICK g : FoldSolves(F, b, ch, 1..n, g)
  <2> HIDE DEF ch
  <2> QED
    BY <1>1, FoldSolvable
<1>3. \A s \in SUBSET (1..n) : ch[s] = Max(s)
  BY DEF Tops
<1>4. g = SeqStep(F, b, n, g)
  <2> HIDE DEF ch
  <2> QED
    BY <1>2, <1>3 DEF FoldSolves, FoldStep, SeqStep
<1>5. \A s \in SUBSET (1..n) : g[s] = IF s = {} THEN b ELSE F[<<Max(s), g[s \ {Max(s)}]>>]
  BY <1>4 DEF SeqStep
<1>6. \A s \in SUBSET (1..n) : g[s] \in W[s]
  <2>1. g[{}] \in W[{}]
    <3>1. {} \in SUBSET (1..n)
      OBVIOUS
    <3> QED
      BY <1>5, <3>1
  <2>2. ASSUME NEW s \in SUBSET (1..n), s # {}, g[s \ {Max(s)}] \in W[s \ {Max(s)}]
        PROVE  g[s] \in W[s]
    <3>1. Max(s) \in 1..n
      BY <1>1, <1>3, <2>2 DEF Chooses
    <3>2. g[s \ {Max(s)}] \in V
      BY <2>2
    <3>3. g[s] = F[<<Max(s), g[s \ {Max(s)}]>>]
      BY <1>5, <2>2
    <3> QED
      BY <3>1, <3>2, <3>3
  <2> HIDE DEF W
  <2> QED
    BY <2>1, <2>2, SeqInduction
<1> QED
  BY <1>4, <1>6
=============================================================================
