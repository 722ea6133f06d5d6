---------------------------- MODULE EdgeAlgProofs ----------------------------
(***************************************************************************)
(* What the placement algorithms return, for every cluster: the orders of  *)
(* a slice, the best mapping of pods to the nodes that have room for them, *)
(* and decisions that can be carried out, the best by the quality of       *)
(* service.                                                                *)
(***************************************************************************)
EXTENDS EdgeAlg, ClusterStateProofs, SumProofs

-----------------------------------------------------------------------------
(* Sums of sizes.                                                          *)

SizeOf(r) == [p \in Pod |-> Size(p)[r]]

TotalStep(r, S, g) ==
    [s \in SUBSET S |-> IF s = {} THEN 0 ELSE Size(Pick(s))[r] + g[s \ {Pick(s)}]]

TotalOf(r, S) == CHOOSE g : g = TotalStep(r, S, g)

(* A pod needs a natural number of each resource.                          *)
LEMMA SizeType ==
  ASSUME NEW p \in Pod, NEW r \in Resource
  PROVE  Size(p)[r] \in Nat
  BY PodsAreLabelled, ResourcesAreVectors DEF Size

(* Sets of pods are finite.                                                *)
LEMMA PodsFinite == ASSUME NEW S \in SUBSET Pod PROVE IsFiniteSet(S)
  BY PodsAreFinite, FS_Subset

(* TotalSize is a sum.                                                     *)
LEMMA TotalSizeIs ==
  ASSUME NEW S \in SUBSET Pod, NEW r \in Resource
  PROVE  TotalSize(S)[r] = SumFunctionOnSet(SizeOf(r), S)
<1>1. TotalSize(S)[r] = TotalOf(r, S)[S]
  BY DEF TotalSize, MapThenSumSet, MapThenFoldSet, TotalOf, TotalStep, Pick
<1>2. IsFiniteSet(S)
  BY PodsFinite
<1>3. ASSUME NEW g
      PROVE  TotalStep(r, S, g) = SumStep(SizeOf(r), S, g)
  <2>1. ASSUME NEW s \in SUBSET S, s # {}
        PROVE  Size(Pick(s))[r] = SizeOf(r)[Pick(s)]
    <3>1. Pick(s) \in Pod
      BY <2>1, PickIsElement
    <3> QED
      BY <3>1 DEF SizeOf
  <2> QED
    BY <2>1 DEF TotalStep, SumStep
<1>4. PICK h : Solves(SizeOf(r), S, h)
  BY <1>2, PartialSolves
<1>5. h = TotalStep(r, S, h)
  BY <1>3, <1>4 DEF Solves
<1>6. TotalOf(r, S) = TotalStep(r, S, TotalOf(r, S))
  BY <1>5 DEF TotalOf
<1>7. Solves(SizeOf(r), S, TotalOf(r, S)) /\ Solves(SizeOf(r), S, Partial(SizeOf(r), S))
  BY <1>2, <1>3, <1>6, PartialSolves DEF Solves
<1>8. PICK f, x, y, T : f = SizeOf(r) /\ x = TotalOf(r, S) /\ y = Partial(SizeOf(r), S) /\ T = S
  OBVIOUS
<1>9. TotalOf(r, S)[S] = Partial(SizeOf(r), S)[S]
  <2>1. Solves(f, S, x) /\ Solves(f, T, y)
    BY <1>7, <1>8
  <2>2. \A s \in SUBSET (S \cap T) : x[s] = y[s]
    BY ONLY <1>2, <2>1, SolutionsAgree
  <2> QED
    BY <1>8, <2>2
<1> QED
  BY <1>1, <1>9, SumIs

(* The total size of pods is a vector of naturals.                         *)
LEMMA TotalType ==
  ASSUME NEW S \in SUBSET Pod
  PROVE  TotalSize(S) \in [Resource -> Nat]
<1>1. ASSUME NEW r \in Resource
      PROVE  TotalSize(S)[r] \in Nat
  <2>1. \A p \in S : SizeOf(r)[p] \in Nat
    BY SizeType DEF SizeOf
  <2>2. SumFunctionOnSet(SizeOf(r), S) \in Nat
    BY <2>1, PodsFinite, SumNat
  <2> QED
    BY <2>2, TotalSizeIs
<1>2. TotalSize(S) = [r \in Resource |-> TotalSize(S)[r]]
  BY DEF TotalSize
<1> QED
  BY <1>1, <1>2

(* No pods need nothing.                                                   *)
LEMMA TotalEmpty ==
  ASSUME NEW r \in Resource
  PROVE  TotalSize({})[r] = 0
  BY TotalSizeIs, SumEmpty

(* Disjoint sets of pods need what each of them needs.                     *)
LEMMA TotalUnion ==
  ASSUME NEW S \in SUBSET Pod, NEW T \in SUBSET Pod, S \cap T = {}, NEW r \in Resource
  PROVE  TotalSize(S \cup T)[r] = TotalSize(S)[r] + TotalSize(T)[r]
<1>1. \A p \in T \cup S : SizeOf(r)[p] \in Int
  BY SizeType DEF SizeOf
<1>2. IsFiniteSet(S) /\ IsFiniteSet(T)
  BY PodsFinite
<1>3. SumFunctionOnSet(SizeOf(r), S \cup T) = SumFunctionOnSet(SizeOf(r), S) + SumFunctionOnSet(SizeOf(r), T)
  BY <1>1, <1>2, SumUnion
<1> QED
  BY <1>3, TotalSizeIs

(* Fewer pods need no more.                                                *)
LEMMA TotalSubset ==
  ASSUME NEW S \in SUBSET Pod, NEW T \in SUBSET S, NEW r \in Resource
  PROVE  TotalSize(T)[r] <= TotalSize(S)[r]
<1>1. \A p \in S : SizeOf(r)[p] \in Nat
  BY SizeType DEF SizeOf
<1>2. SumFunctionOnSet(SizeOf(r), T) <= SumFunctionOnSet(SizeOf(r), S)
  BY <1>1, PodsFinite, SumSubset
<1> QED
  BY <1>2, TotalSizeIs

(* One pod more.                                                           *)
LEMMA TotalAdd ==
  ASSUME NEW S \in SUBSET Pod, NEW p \in Pod \ S, NEW r \in Resource
  PROVE  TotalSize(S \cup {p})[r] = TotalSize(S)[r] + Size(p)[r]
<1>1. (\A q \in S : SizeOf(r)[q] \in Int) /\ SizeOf(r)[p] = Size(p)[r] /\ Size(p)[r] \in Int
  BY SizeType DEF SizeOf
<1>2. SumFunctionOnSet(SizeOf(r), S \cup {p}) = SizeOf(r)[p] + SumFunctionOnSet(SizeOf(r), S)
  BY <1>1, PodsFinite, SumAdd
<1>3. TotalSize(S) \in [Resource -> Nat]
  BY TotalType
<1> QED
  BY <1>1, <1>2, <1>3, TotalSizeIs

-----------------------------------------------------------------------------
(* The orders of a slice.  The recursion of Permutations is solved level by *)
(* level: G has what helper returns for the first n - 1 elements.          *)

Arrays(slice) == [DOMAIN slice -> ToSet(slice)]

Outputs(slice) == [emitted : Seq(Arrays(slice)), arr : Arrays(slice)]

Begun(arr) == [emitted |-> <<>>, arr |-> arr]

Rounds1(h, arr, n) ==
    FoldLeft(LAMBDA s, i :
               LET inner == h[n - 1][s.arr]
               IN [emitted |-> s.emitted \o inner.emitted, arr |-> SwapAfter(inner.arr, i, n)],
             Begun(arr), [i \in 1..n |-> i])

HelperStep(slice, h) ==
    [n \in 0..Len(slice) |-> [arr \in Arrays(slice) |->
        IF n = 1 THEN [emitted |-> <<arr>>, arr |-> arr] ELSE Rounds1(h, arr, n)]]

HelperOf(slice) == CHOOSE h : h = HelperStep(slice, h)

(* EveryOrder by the helper's recursion.                                   *)
LEMMA EveryOrderIs ==
  ASSUME NEW slice
  PROVE  EveryOrder(slice) = HelperOf(slice)[Len(slice)][slice].emitted
  BY DEF EveryOrder, HelperOf, HelperStep, Arrays, Rounds1, Begun, FoldLeft, MapThenFoldSet

RoundStep(h, arr, n, g) ==
    [t \in SUBSET DOMAIN [i \in 1..n |-> i] |->
        IF t = {} THEN Begun(arr)
        ELSE LET x == Max(t) IN
             LET inner == h[n - 1][g[t \ {x}].arr]
             IN [emitted |-> g[t \ {x}].emitted \o inner.emitted,
                 arr     |-> SwapAfter(inner.arr, [i \in 1..n |-> i][x], n)]]

RoundOf(h, arr, n) == CHOOSE g : g = RoundStep(h, arr, n, g)

(* The rounds of the helper's loop are a fold.                             *)
LEMMA RoundsAre ==
  ASSUME NEW h, NEW arr, NEW n
  PROVE  Rounds1(h, arr, n) = RoundOf(h, arr, n)[DOMAIN [i \in 1..n |-> i]]
  BY DEF Rounds1, FoldLeft, MapThenFoldSet, RoundOf, RoundStep

RoundFun(slice, G, n) ==
    [y \in (1..n) \X Outputs(slice) |->
        [emitted |-> y[2].emitted \o G[y[2].arr].emitted,
         arr     |-> SwapAfter(G[y[2].arr].arr, y[1], n)]]

RoundsWith(slice, G, arr, n) ==
    (CHOOSE g : g = SeqStep(RoundFun(slice, G, n), Begun(arr), n, g))[1..n]

(* Swapping keeps the elements.                                            *)
LEMMA SwapType ==
  ASSUME NEW slice \in Seq(Pod), NEW a \in Arrays(slice), NEW n \in 1..Len(slice), NEW i \in 1..n
  PROVE  SwapAfter(a, i, n) \in Arrays(slice)
<1>1. DOMAIN slice = 1..Len(slice) /\ 1 \in DOMAIN slice /\ n \in DOMAIN slice /\ i \in DOMAIN slice
  OBVIOUS
<1>2. \A j \in DOMAIN slice : a[j] \in ToSet(slice)
  BY DEF Arrays
<1>3. Swapped(a, i, n) \in Arrays(slice) /\ Swapped(a, 1, n) \in Arrays(slice)
  BY <1>1, <1>2 DEF Swapped, Arrays
<1> QED
  BY <1>3 DEF SwapAfter

(* One round keeps to the type of the outputs.                             *)
LEMMA RoundType ==
  ASSUME NEW slice \in Seq(Pod), NEW n \in 1..Len(slice), NEW G \in [Arrays(slice) -> Outputs(slice)],
         NEW i \in 1..n, NEW v \in Outputs(slice)
  PROVE  /\ RoundFun(slice, G, n)[<<i, v>>] = [emitted |-> v.emitted \o G[v.arr].emitted,
                                               arr     |-> SwapAfter(G[v.arr].arr, i, n)]
         /\ RoundFun(slice, G, n)[<<i, v>>] \in Outputs(slice)
<1>1. RoundFun(slice, G, n)[<<i, v>>] = [emitted |-> v.emitted \o G[v.arr].emitted,
                                         arr     |-> SwapAfter(G[v.arr].arr, i, n)]
  BY DEF RoundFun
<1>2. v.arr \in Arrays(slice) /\ v.emitted \in Seq(Arrays(slice))
  BY DEF Outputs
<1>3. PICK w : w = G[v.arr] /\ w \in Outputs(slice)
  BY <1>2
<1>4. w.arr \in Arrays(slice) /\ w.emitted \in Seq(Arrays(slice))
  BY <1>3 DEF Outputs
<1>5. SwapAfter(w.arr, i, n) \in Arrays(slice)
  BY <1>4, SwapType
<1>6. v.emitted \o w.emitted \in Seq(Arrays(slice))
  BY <1>2, <1>4
<1> QED
  BY <1>1, <1>3, <1>5, <1>6 DEF Outputs

(* The rounds depend on the level below only, and keep to the type.        *)
LEMMA RoundsAreWith ==
  ASSUME NEW slice \in Seq(Pod), NEW n \in 1..Len(slice), NEW G \in [Arrays(slice) -> Outputs(slice)],
         NEW arr \in Arrays(slice), NEW h, \A a \in Arrays(slice) : h[n - 1][a] = G[a]
  PROVE  /\ Rounds1(h, arr, n) = RoundsWith(slice, G, arr, n)
         /\ RoundsWith(slice, G, arr, n) \in Outputs(slice)
<1> DEFINE F == RoundFun(slice, G, n)
           O == Outputs(slice)
           id == [i \in 1..n |-> i]
<1>1. n \in Nat /\ Begun(arr) \in O /\ DOMAIN id = 1..n
  <2>1. n \in Nat /\ DOMAIN id = 1..n
    BY ONLY slice \in Seq(Pod), n \in 1..Len(slice)
  <2>2. <<>> \in Seq(Arrays(slice))
    BY ONLY TRUE
  <2>3. Begun(arr) \in O
    BY <2>2 DEF Begun, Outputs
  <2> HIDE DEF id, O
  <2> QED
    BY <2>1, <2>3
<1>2. \A i \in 1..n, v \in O : /\ F[<<i, v>>] \in O
                               /\ F[<<i, v>>] = [emitted |-> v.emitted \o G[v.arr].emitted,
                                                 arr     |-> SwapAfter(G[v.arr].arr, i, n)]
  BY RoundType
<1>3. PICK g : g = SeqStep(F, Begun(arr), n, g) /\ \A s \in SUBSET (1..n) : g[s] \in O
  <2>1. PICK b : b = Begun(arr)
    OBVIOUS
  <2>2. n \in Nat /\ b \in O /\ \A i \in 1..n, v \in O : F[<<i, v>>] \in O
    BY <1>1, <1>2, <2>1
  <2> HIDE DEF F, O
  <2>3. \E g : g = SeqStep(F, b, n, g) /\ \A s \in SUBSET (1..n) : g[s] \in O
    BY ONLY <2>2, SeqFold
  <2> QED
    BY <2>1, <2>3
<1>4. \A s \in SUBSET (1..n) : g[s] = IF s = {} THEN Begun(arr) ELSE F[<<Max(s), g[s \ {Max(s)}]>>]
  BY <1>3 DEF SeqStep
<1>5. \A s \in SUBSET (1..n) : s # {} => Max(s) \in s
  BY <1>1, TopsChoose DEF Chooses, Tops
<1>6. ASSUME NEW k, k = SeqStep(F, Begun(arr), n, k)
      PROVE  k[1..n] = g[1..n]
  <2> DEFINE W == [s \in SUBSET (1..n) |-> {g[s]}]
  <2>1. \A s \in SUBSET (1..n) : k[s] = IF s = {} THEN Begun(arr) ELSE F[<<Max(s), k[s \ {Max(s)}]>>]
    BY <1>6 DEF SeqStep
  <2>2. {} \in SUBSET (1..n)
    OBVIOUS
  <2>3. k[{}] \in W[{}]
    BY <1>4, <2>1, <2>2
  <2>4. ASSUME NEW s \in SUBSET (1..n), s # {}, k[s \ {Max(s)}] \in W[s \ {Max(s)}]
        PROVE  k[s] \in W[s]
    <3>1. k[s \ {Max(s)}] = g[s \ {Max(s)}]
      BY <2>4
    <3> HIDE DEF F
    <3> QED
      BY <1>4, <2>1, <2>4, <3>1
  <2>5. \A s \in SUBSET (1..n) : k[s] \in W[s]
    <3> HIDE DEF W
    <3> QED
      BY <1>1, <2>3, <2>4, SeqInduction
  <2> QED
    BY <2>5
<1>7. RoundsWith(slice, G, arr, n) = g[1..n]
  BY <1>3, <1>6 DEF RoundsWith
<1>8. ASSUME NEW s \in SUBSET (1..n), s # {}
      PROVE  F[<<Max(s), g[s \ {Max(s)}]>>]
               = [emitted |-> g[s \ {Max(s)}].emitted \o h[n - 1][g[s \ {Max(s)}].arr].emitted,
                  arr     |-> SwapAfter(h[n - 1][g[s \ {Max(s)}].arr].arr, id[Max(s)], n)]
  <2>1. PICK x, v : x = Max(s) /\ v = g[s \ {Max(s)}]
    OBVIOUS
  <2>2. x \in 1..n /\ v \in O
    BY <1>3, <1>5, <1>8, <2>1
  <2>3. id[x] = x /\ v.arr \in Arrays(slice)
    BY <2>2 DEF Outputs
  <2>4. h[n - 1][v.arr] = G[v.arr]
    BY <2>3
  <2> HIDE DEF F, id
  <2>5. F[<<x, v>>] = [emitted |-> v.emitted \o h[n - 1][v.arr].emitted,
                       arr     |-> SwapAfter(h[n - 1][v.arr].arr, id[x], n)]
    BY <1>2, <2>2, <2>3, <2>4, ZenonT(30)
  <2> QED
    BY <2>1, <2>5
<1>9. g = RoundStep(h, arr, n, g)
  <2> HIDE DEF F
  <2> QED
    BY <1>1, <1>3, <1>8 DEF SeqStep, RoundStep
<1>10. PICK k : k = RoundOf(h, arr, n) /\ k = RoundStep(h, arr, n, k)
  BY <1>9 DEF RoundOf
<1>11. k[1..n] = g[1..n]
  <2> DEFINE W == [s \in SUBSET (1..n) |-> {g[s]}]
  <2>1. \A s \in SUBSET (1..n) :
          k[s] = IF s = {} THEN Begun(arr)
                 ELSE [emitted |-> k[s \ {Max(s)}].emitted \o h[n - 1][k[s \ {Max(s)}].arr].emitted,
                       arr     |-> SwapAfter(h[n - 1][k[s \ {Max(s)}].arr].arr, id[Max(s)], n)]
    BY <1>1, <1>10 DEF RoundStep
  <2>2. {} \in SUBSET (1..n)
    OBVIOUS
  <2>3. k[{}] \in W[{}]
    BY <1>4, <2>1, <2>2
  <2>4. ASSUME NEW s \in SUBSET (1..n), s # {}, k[s \ {Max(s)}] \in W[s \ {Max(s)}]
        PROVE  k[s] \in W[s]
    <3>1. k[s \ {Max(s)}] = g[s \ {Max(s)}]
      BY <2>4
    <3> HIDE DEF F, id
    <3>2. k[s] = F[<<Max(s), g[s \ {Max(s)}]>>]
      BY <1>8, <2>1, <2>4, <3>1, ZenonT(30)
    <3> QED
      BY <1>4, <2>4, <3>2
  <2>5. \A s \in SUBSET (1..n) : k[s] \in W[s]
    <3> HIDE DEF W
    <3> QED
      BY <1>1, <2>3, <2>4, SeqInduction
  <2> QED
    BY <2>5
<1>12. Rounds1(h, arr, n) = k[1..n]
  BY <1>1, <1>10, RoundsAre
<1> QED
  BY <1>3, <1>7, <1>11, <1>12

(* Induction from 0 to n, as a fact about sets.                            *)
LEMMA UpTo ==
  ASSUME NEW n \in Nat, NEW A, 0 \in A, \A i \in 1..n : i - 1 \in A => i \in A
  PROVE  \A i \in 0..n : i \in A
<1> DEFINE B == {i \in 0..n : i \notin A}
           T == {n - i : i \in B}
<1>1. SUFFICES ASSUME B # {} PROVE FALSE
  OBVIOUS
<1>2. (\A x \in T : x \in Int) /\ T # {} /\ IsFiniteSet(T)
  <2>1. T \in SUBSET (0..n)
    OBVIOUS
  <2>2. IsFiniteSet(0..n)
    BY FS_Interval
  <2>3. PICK N : N = 0..n
    OBVIOUS
  <2>4. IsFiniteSet(T)
    <3>1. IsFiniteSet(N) /\ T \in SUBSET N
      BY <2>1, <2>2, <2>3
    <3> HIDE DEF T
    <3> QED
      BY ONLY <3>1, FS_Subset
  <2> QED
    BY <1>1, <2>4
<1>3. Max(T) \in T /\ \A y \in T : y <= Max(T)
  <2> HIDE DEF T
  <2> QED
    BY <1>2, MaxOf
<1>4. PICK i \in B : Max(T) = n - i
  BY <1>3
<1>5. i # 0 /\ i \in 0..n /\ i \notin A
  OBVIOUS
<1>6. i \in 1..n /\ i - 1 \in 0..n
  BY <1>5
<1>7. i - 1 \notin A
  BY <1>5, <1>6
<1>8. n - (i - 1) \in T
  BY <1>6, <1>7
<1>9. n - (i - 1) <= n - i
  BY <1>3, <1>4, <1>8
<1> QED
  BY <1>6, <1>9

(* The last index of a prefix, and the prefix before it.                   *)
LEMMA Prefix ==
  ASSUME NEW n \in Nat, NEW i \in 1..n
  PROVE  /\ Max(1..i) = i /\ (1..i) \ {i} = 1..(i - 1)
         /\ 1..i \in SUBSET (1..n) /\ 1..(i - 1) \in SUBSET (1..n) /\ 1..i # {}
<1>1. i \in Nat
  OBVIOUS
<1>2. IsFiniteSet(1..i)
  BY <1>1, FS_Interval
<1>3. PICK S : S = 1..i
  OBVIOUS
<1>4. (\A x \in S : x \in Int) /\ IsFiniteSet(S) /\ S # {}
  <2>1. \A x \in S : x \in Int
    BY ONLY <1>1, <1>3
  <2>2. IsFiniteSet(S)
    BY ONLY <1>2, <1>3
  <2>3. S # {}
    <3>1. i \in 1..i
      BY ONLY i \in 1..n, n \in Nat
    <3> QED
      BY ONLY <1>3, <3>1
  <2> QED
    BY ONLY <2>1, <2>2, <2>3
<1>5. Max(S) \in S /\ \A y \in S : y <= Max(S)
  BY ONLY <1>4, MaxOf
<1>6. Max(S) = i
  BY <1>3, <1>5
<1> QED
  BY <1>3, <1>6

(* A fold over indices, one index after another.                           *)
LEMMA SeqUnfold ==
  ASSUME NEW n \in Nat, NEW F, NEW b, NEW g, g = SeqStep(F, b, n, g)
  PROVE  /\ g[1..0] = b
         /\ \A i \in 1..n : g[1..i] = F[<<i, g[1..(i - 1)]>>]
<1>1. \A s \in SUBSET (1..n) : g[s] = IF s = {} THEN b ELSE F[<<Max(s), g[s \ {Max(s)}]>>]
  BY DEF SeqStep
<1>2. 1..0 = {} /\ {} \in SUBSET (1..n)
  OBVIOUS
<1>3. g[1..0] = b
  BY <1>1, <1>2
<1>4. ASSUME NEW i \in 1..n
      PROVE  g[1..i] = F[<<i, g[1..(i - 1)]>>]
  <2>1. PICK s, t : s = 1..i /\ t = 1..(i - 1)
    OBVIOUS
  <2>2. Max(s) = i /\ s \ {i} = t /\ s \in SUBSET (1..n) /\ s # {}
    BY <2>1, Prefix
  <2>3. g[s] = F[<<i, g[t]>>]
    BY <1>1, <2>2
  <2> QED
    BY <2>1, <2>3
<1> QED
  BY <1>3, <1>4

(* A loop that does nothing.                                               *)
LEMMA NoRounds ==
  ASSUME NEW h, NEW arr
  PROVE  Rounds1(h, arr, 0) = Begun(arr)
<1> DEFINE g == [t \in SUBSET DOMAIN [i \in 1..0 |-> i] |-> Begun(arr)]
<1>1. DOMAIN [i \in 1..0 |-> i] = {}
  OBVIOUS
<1>2. g = RoundStep(h, arr, 0, g)
  BY <1>1 DEF RoundStep
<1>3. RoundOf(h, arr, 0) = RoundStep(h, arr, 0, RoundOf(h, arr, 0))
  BY <1>2 DEF RoundOf
<1>4. PICK k : k = RoundOf(h, arr, 0)
  OBVIOUS
<1>5. k = RoundStep(h, arr, 0, k)
  BY <1>3, <1>4
<1>6. k[{}] = Begun(arr)
  BY <1>1, <1>5 DEF RoundStep
<1> QED
  BY <1>1, <1>4, <1>6, RoundsAre

LevelFun(slice) ==
    [y \in (1..Len(slice)) \X [Arrays(slice) -> Outputs(slice)] |->
        [arr \in Arrays(slice) |->
            IF y[1] = 1 THEN [emitted |-> <<arr>>, arr |-> arr] ELSE RoundsWith(slice, y[2], arr, y[1])]]

LevelZero(slice) == [arr \in Arrays(slice) |-> Begun(arr)]

(* What the levels start from has the type.                                *)
LEMMA BegunType ==
  ASSUME NEW slice \in Seq(Pod), NEW arr \in Arrays(slice)
  PROVE  Begun(arr) \in Outputs(slice) /\ [emitted |-> <<arr>>, arr |-> arr] \in Outputs(slice)
<1>1. <<>> \in Seq(Arrays(slice)) /\ <<arr>> \in Seq(Arrays(slice))
  BY ONLY arr \in Arrays(slice)
<1> QED
  BY <1>1 DEF Begun, Outputs

(* So does the level above one that has it.                                *)
LEMMA LevelType ==
  ASSUME NEW slice \in Seq(Pod), NEW n \in 1..Len(slice), NEW G \in [Arrays(slice) -> Outputs(slice)]
  PROVE  /\ LevelFun(slice)[<<n, G>>] =
              [arr \in Arrays(slice) |->
                  IF n = 1 THEN [emitted |-> <<arr>>, arr |-> arr] ELSE RoundsWith(slice, G, arr, n)]
         /\ LevelFun(slice)[<<n, G>>] \in [Arrays(slice) -> Outputs(slice)]
<1>1. LevelFun(slice)[<<n, G>>] =
        [arr \in Arrays(slice) |->
            IF n = 1 THEN [emitted |-> <<arr>>, arr |-> arr] ELSE RoundsWith(slice, G, arr, n)]
  BY DEF LevelFun
<1>2. ASSUME NEW arr \in Arrays(slice)
      PROVE  RoundsWith(slice, G, arr, n) \in Outputs(slice)
  <2> DEFINE h == [m \in {n - 1} |-> G]
  <2>1. \A a \in Arrays(slice) : h[n - 1][a] = G[a]
    OBVIOUS
  <2> HIDE DEF h
  <2> QED
    BY <2>1, RoundsAreWith
<1> QED
  BY <1>1, <1>2, BegunType

(* The recursion has a solution: the levels, one after the other.          *)
LEMMA HelperSolvable ==
  ASSUME NEW slice \in Seq(Pod)
  PROVE  HelperOf(slice) = HelperStep(slice, HelperOf(slice))
<1> DEFINE L == Len(slice)
           A == Arrays(slice)
           O == Outputs(slice)
<1>1. L \in Nat
  OBVIOUS
<1>2. LevelZero(slice) \in [A -> O]
  BY BegunType DEF LevelZero
<1>3. \A i \in 1..L, G \in [A -> O] : LevelFun(slice)[<<i, G>>] \in [A -> O]
  BY LevelType
<1>4. PICK g : /\ g = SeqStep(LevelFun(slice), LevelZero(slice), L, g)
               /\ \A s \in SUBSET (1..L) : g[s] \in [A -> O]
  <2>1. PICK V, b, F : V = [A -> O] /\ b = LevelZero(slice) /\ F = LevelFun(slice)
    OBVIOUS
  <2>2. L \in Nat /\ b \in V /\ \A i \in 1..L, G \in V : F[<<i, G>>] \in V
    BY <1>1, <1>2, <1>3, <2>1
  <2>3. \E g : g = SeqStep(F, b, L, g) /\ \A s \in SUBSET (1..L) : g[s] \in V
    BY ONLY <2>2, SeqFold
  <2> QED
    BY <2>1, <2>3
<1>5. g[1..0] = LevelZero(slice) /\ \A i \in 1..L : g[1..i] = LevelFun(slice)[<<i, g[1..(i - 1)]>>]
  <2> HIDE DEF L
  <2> QED
    BY <1>1, <1>4, SeqUnfold
<1> DEFINE h == [n \in 0..L |-> g[1..n]]
<1>6. \A n \in 0..L : h[n] = g[1..n]
  OBVIOUS
<1>7. ASSUME NEW n \in 0..L
      PROVE  g[1..n] = [a \in A |-> IF n = 1 THEN [emitted |-> <<a>>, arr |-> a] ELSE Rounds1(h, a, n)]
  <2> HIDE DEF h
  <2>1. CASE n = 0
    <3>1. g[1..n] = [a \in A |-> Begun(a)]
      BY <1>5, <2>1 DEF LevelZero
    <3>2. \A a \in A : Rounds1(h, a, n) = Begun(a)
      BY <2>1, NoRounds
    <3> QED
      BY <2>1, <3>1, <3>2
  <2>2. CASE n # 0
    <3>1. n \in 1..L /\ n - 1 \in 0..L /\ 1..(n - 1) \in SUBSET (1..L)
      BY <1>1, <2>2
    <3>2. PICK G : G = g[1..(n - 1)]
      OBVIOUS
    <3>3. G \in [A -> O]
      BY <1>4, <3>1, <3>2
    <3>4. g[1..n] = [b \in A |-> IF n = 1 THEN [emitted |-> <<b>>, arr |-> b] ELSE RoundsWith(slice, G, b, n)]
      BY <1>5, <3>1, <3>2, <3>3, LevelType
    <3>5. h[n - 1] = G
      BY <1>6, <3>1, <3>2
    <3>6. \A a \in A : Rounds1(h, a, n) = RoundsWith(slice, G, a, n)
      BY <3>1, <3>3, <3>5, RoundsAreWith
    <3> QED
      BY <3>4, <3>6
  <2> QED
    BY <2>1, <2>2
<1>8. h = HelperStep(slice, h)
  <2>1. PICK k : k = h
    OBVIOUS
  <2>2. \A n \in 0..L :
          h[n] = [a \in A |-> IF n = 1 THEN [emitted |-> <<a>>, arr |-> a] ELSE Rounds1(k, a, n)]
    BY <1>6, <1>7, <2>1
  <2>3. h = [n \in 0..L |-> [a \in A |-> IF n = 1 THEN [emitted |-> <<a>>, arr |-> a] ELSE Rounds1(k, a, n)]]
    <3>1. h = [n \in 0..L |-> h[n]]
      OBVIOUS
    <3> HIDE DEF h
    <3> QED
      BY <2>2, <3>1
  <2> HIDE DEF h
  <2> QED
    BY <2>1, <2>3 DEF HelperStep
<1> QED
  <2> HIDE DEF h
  <2> QED
    BY <1>8 DEF HelperOf

(* The helper emits orders of the elements of the slice.                   *)
LEMMA EveryOrderType ==
  ASSUME NEW slice \in Seq(Pod)
  PROVE  EveryOrder(slice) \in Seq(Arrays(slice))
<1> DEFINE L == Len(slice)
           A == Arrays(slice)
           O == Outputs(slice)
<1>1. PICK k : k = HelperOf(slice) /\ k = HelperStep(slice, k)
  BY HelperSolvable
<1> DEFINE I == {n \in 0..L : k[n] \in [A -> O]}
<1>2. L \in Nat
  OBVIOUS
<1>3. \A n \in 0..L : k[n] = [a \in A |-> IF n = 1 THEN [emitted |-> <<a>>, arr |-> a] ELSE Rounds1(k, a, n)]
  BY <1>1 DEF HelperStep
<1>4. 0 \in I
  <2>1. k[0] = [a \in A |-> Rounds1(k, a, 0)]
    BY <1>2, <1>3
  <2>2. \A a \in A : Rounds1(k, a, 0) \in O
    BY NoRounds, BegunType
  <2> QED
    BY <1>2, <2>1, <2>2
<1>5. ASSUME NEW n \in 1..L, n - 1 \in I
      PROVE  n \in I
  <2>1. k[n] = [a \in A |-> IF n = 1 THEN [emitted |-> <<a>>, arr |-> a] ELSE Rounds1(k, a, n)]
    BY <1>2, <1>3
  <2>2. PICK G : G = k[n - 1] /\ G \in [A -> O]
    BY <1>5
  <2>3. \A a \in A : Rounds1(k, a, n) = RoundsWith(slice, G, a, n) /\ RoundsWith(slice, G, a, n) \in O
    BY <2>2, RoundsAreWith
  <2>4. \A a \in A : [emitted |-> <<a>>, arr |-> a] \in O
    BY BegunType
  <2>5. n \in 0..L
    BY <1>2
  <2> QED
    BY <2>1, <2>3, <2>4, <2>5
<1>6. \A n \in 0..L : n \in I
  <2> HIDE DEF I, L
  <2> QED
    BY <1>2, <1>4, <1>5, UpTo
<1>7. slice \in A /\ L \in 0..L
  <2>1. \A i \in DOMAIN slice : slice[i] \in ToSet(slice)
    BY DEF ToSet
  <2> QED
    BY <1>2, <2>1 DEF Arrays
<1>8. k[L][slice] \in O
  BY <1>6, <1>7
<1>9. EveryOrder(slice) = k[L][slice].emitted
  BY <1>1, EveryOrderIs
<1> QED
  BY <1>8, <1>9 DEF Outputs

(* A set of pods becomes a sequence of just these pods.                    *)
LEMMA SetToSeqType ==
  ASSUME NEW S \in SUBSET Pod
  PROVE  SetToSeq(S) \in Seq(Pod) /\ ToSet(SetToSeq(S)) \subseteq S /\ Len(SetToSeq(S)) = Cardinality(S)
<1>1. IsFiniteSet(S)
  BY PodsFinite
<1>2. PICK n : n = Cardinality(S) /\ n \in Nat /\ ExistsBijection(1..n, S)
  BY <1>1, FS_CardinalityType
<1>3. \E f \in [1..n -> S] : IsInjective(f)
  BY <1>2 DEF ExistsBijection, Bijection, Injection
<1>4. PICK q : q = SetToSeq(S) /\ q \in [1..n -> S]
  BY <1>2, <1>3 DEF SetToSeq
<1>5. q \in Seq(S) /\ Len(q) = n /\ DOMAIN q = 1..n
  BY ONLY <1>4, <1>2
<1>6. ToSet(q) \subseteq S
  BY ONLY <1>4, <1>5 DEF ToSet
<1>7. q \in Seq(Pod)
  BY ONLY <1>5, S \in SUBSET Pod
<1> QED
  BY ONLY <1>2, <1>4, <1>5, <1>6, <1>7

(* The orders of a set of pods are sequences of these pods.                *)
LEMMA OrdersType ==
  ASSUME NEW S \in SUBSET Pod, NEW q \in Orders(S)
  PROVE  q \in Seq(Pod) /\ ToSet(q) \subseteq S
<1>1. PICK slice : slice = SetToSeq(S)
  OBVIOUS
<1>2. slice \in Seq(Pod) /\ ToSet(slice) \subseteq S
  BY <1>1, SetToSeqType
<1>3. PICK all : all = EveryOrder(slice) /\ all \in Seq(Arrays(slice))
  BY <1>2, EveryOrderType
<1>4. q \in Arrays(slice)
  <2>1. PICK i \in DOMAIN all : q = all[i]
    BY <1>1, <1>3 DEF Orders, ToSet
  <2> QED
    BY <1>3, <2>1
<1>5. q \in [1..Len(slice) -> S] /\ Len(slice) \in Nat
  BY <1>2, <1>4 DEF Arrays
<1>6. q \in Seq(S) /\ DOMAIN q = 1..Len(slice)
  BY ONLY <1>5
<1>7. ToSet(q) \subseteq S
  BY ONLY <1>5, <1>6 DEF ToSet
<1>8. q \in Seq(Pod)
  BY ONLY <1>6, S \in SUBSET Pod
<1> QED
  BY <1>7, <1>8

-----------------------------------------------------------------------------
(* Permutations emits every order, and each only once.  Before its i-th    *)
(* round the loop for the first n elements has them, for an odd n, with the *)
(* first i - 1 shifted through the last place, for an even n rotated i - 1 *)
(* times; so each of them is once the last one, which the recursive call   *)
(* leaves where it is.                                                     *)

Shifted(a, n, i) ==
    [j \in DOMAIN a |->
        IF i = 0 \/ j > n THEN a[j]
        ELSE IF j = 1 THEN a[n] ELSE IF j <= i THEN a[j - 1] ELSE IF j = n THEN a[i] ELSE a[j]]

Rotated(a, n, i) ==
    [j \in DOMAIN a |-> IF j > n THEN a[j] ELSE IF j <= i THEN a[n - i + j] ELSE a[j - i]]

AfterRounds(a, n, i) == IF n % 2 = 1 THEN Shifted(a, n, i) ELSE Rotated(a, n, i)

(* Which element is the last in round i.                                   *)
Source(n, i) == IF n % 2 = 1 THEN IF i = 1 THEN n ELSE i - 1 ELSE n - i + 1

Rearranged(slice) == {a \in Arrays(slice) : IsInjective(a)}

(* One number is odd, or the other.                                        *)
LEMMA OddOrEven ==
  ASSUME NEW n \in Nat
  PROVE  (n - 1) % 2 = 1 <=> ~(n % 2 = 1)
  OBVIOUS

(* The loop for an odd number of elements.                                 *)
LEMMA OddRound ==
  ASSUME NEW L \in Nat, NEW n \in 2..L, NEW i \in 1..n, NEW a, DOMAIN a = 1..L
  PROVE  Shifted(a, n, i) = Swapped(Rotated(Shifted(a, n, i - 1), n - 1, n - 1), i, n)
<1>1. PICK s : s = Shifted(a, n, i - 1)
  OBVIOUS
<1>2. DOMAIN s = 1..L /\ \A j \in 1..L :
        s[j] = IF i - 1 = 0 \/ j > n THEN a[j]
               ELSE IF j = 1 THEN a[n] ELSE IF j <= i - 1 THEN a[j - 1] ELSE IF j = n THEN a[i - 1] ELSE a[j]
  BY <1>1 DEF Shifted
<1>3. Rotated(s, n - 1, n - 1) = s
  <2>1. PICK t : t = Rotated(s, n - 1, n - 1)
    OBVIOUS
  <2>2. t = [j \in 1..L |-> t[j]] /\ s = [j \in 1..L |-> s[j]]
    <3>1. s = [j \in 1..L |-> s[j]]
      BY <1>1, <1>2 DEF Shifted
    <3> QED
      BY <1>2, <2>1, <3>1 DEF Rotated
  <2>3. \A j \in 1..L : t[j] = s[j]
    BY <1>2, <2>1 DEF Rotated
  <2> QED
    BY <2>1, <2>2, <2>3
<1>4. PICK u : u = Swapped(s, i, n)
  OBVIOUS
<1>5. u = [j \in 1..L |-> IF j = n THEN s[i] ELSE IF j = i THEN s[n] ELSE s[j]]
  BY <1>2, <1>4 DEF Swapped
<1>6. PICK t : t = Shifted(a, n, i)
  OBVIOUS
<1>7. t = [j \in 1..L |-> IF j > n THEN a[j]
                          ELSE IF j = 1 THEN a[n] ELSE IF j <= i THEN a[j - 1] ELSE IF j = n THEN a[i] ELSE a[j]]
  BY <1>6 DEF Shifted
<1>8. ASSUME NEW j \in 1..L
      PROVE  t[j] = u[j]
  <2>1. t[j] = IF j > n THEN a[j]
               ELSE IF j = 1 THEN a[n] ELSE IF j <= i THEN a[j - 1] ELSE IF j = n THEN a[i] ELSE a[j]
    BY <1>7
  <2>2. u[j] = IF j = n THEN s[i] ELSE IF j = i THEN s[n] ELSE s[j]
    BY <1>5
  <2>3. i \in 1..L /\ n \in 1..L /\ i <= n /\ n >= 2
    OBVIOUS
  <2>4. CASE i = 1
    BY <1>2, <2>1, <2>2, <2>3, <2>4
  <2>5. CASE i # 1
    BY <1>2, <2>1, <2>2, <2>3, <2>5
  <2> QED
    BY <2>4, <2>5
<1>9. t = u
  BY <1>5, <1>7, <1>8
<1> QED
  BY <1>1, <1>3, <1>4, <1>6, <1>9

(* The loop for an even number of elements.                                *)
LEMMA EvenRound ==
  ASSUME NEW L \in Nat, NEW n \in 2..L, NEW i \in 1..n, NEW a, DOMAIN a = 1..L
  PROVE  Rotated(a, n, i) = Swapped(Shifted(Rotated(a, n, i - 1), n - 1, n - 1), 1, n)
<1>1. PICK s : s = Rotated(a, n, i - 1)
  OBVIOUS
<1>2. DOMAIN s = 1..L /\ \A j \in 1..L :
        s[j] = IF j > n THEN a[j] ELSE IF j <= i - 1 THEN a[n - (i - 1) + j] ELSE a[j - (i - 1)]
  BY <1>1 DEF Rotated
<1>3. PICK v : v = Shifted(s, n - 1, n - 1)
  OBVIOUS
<1>4. DOMAIN v = 1..L /\ \A j \in 1..L :
        v[j] = IF j > n - 1 THEN s[j] ELSE IF j = 1 THEN s[n - 1] ELSE s[j - 1]
  BY <1>2, <1>3 DEF Shifted
<1>5. PICK u : u = Swapped(v, 1, n)
  OBVIOUS
<1>6. u = [j \in 1..L |-> IF j = n THEN v[1] ELSE IF j = 1 THEN v[n] ELSE v[j]]
  BY <1>4, <1>5 DEF Swapped
<1>7. PICK t : t = Rotated(a, n, i)
  OBVIOUS
<1>8. t = [j \in 1..L |-> IF j > n THEN a[j] ELSE IF j <= i THEN a[n - i + j] ELSE a[j - i]]
  BY <1>7 DEF Rotated
<1>9. ASSUME NEW j \in 1..L
      PROVE  t[j] = u[j]
  <2>1. t[j] = IF j > n THEN a[j] ELSE IF j <= i THEN a[n - i + j] ELSE a[j - i]
    BY <1>8
  <2>2. u[j] = IF j = n THEN v[1] ELSE IF j = 1 THEN v[n] ELSE v[j]
    BY <1>6
  <2>3. i \in 1..L /\ n \in 1..L /\ i <= n /\ n >= 2 /\ 1 \in 1..L /\ n - 1 \in 1..L
    OBVIOUS
  <2>4. CASE j > n
    BY <1>2, <1>4, <2>1, <2>2, <2>3, <2>4
  <2>5. CASE j = n
    <3>1. u[j] = s[n - 1]
      BY <1>4, <2>2, <2>3, <2>5
    <3>2. CASE i = n
      <4>1. t[j] = a[n] /\ s[n - 1] = a[n]
        BY <1>2, <2>1, <2>3, <2>5, <3>2
      <4> QED
        BY <3>1, <4>1
    <3>3. CASE i # n
      <4>1. t[j] = a[n - i] /\ s[n - 1] = a[n - i]
        BY <1>2, <2>1, <2>3, <2>5, <3>3
      <4> QED
        BY <3>1, <4>1
    <3> QED
      BY <3>2, <3>3
  <2>6. CASE j = 1
    <3>1. u[j] = s[n]
      BY <1>4, <2>2, <2>3, <2>6
    <3> QED
      BY <1>2, <2>1, <2>3, <2>6, <3>1
  <2>7. CASE j < n /\ j # 1
    <3>1. u[j] = s[j - 1] /\ j - 1 \in 1..L
      BY <1>4, <2>2, <2>3, <2>7
    <3> QED
      BY <1>2, <2>1, <2>3, <2>7, <3>1
  <2> QED
    BY <2>4, <2>5, <2>6, <2>7
<1>10. t = u
  BY <1>6, <1>8, <1>9
<1> QED
  BY <1>1, <1>3, <1>5, <1>7, <1>10

(* One round, whatever the number of elements.                             *)
LEMMA OneRound ==
  ASSUME NEW L \in Nat, NEW n \in 2..L, NEW i \in 1..n, NEW a, DOMAIN a = 1..L
  PROVE  /\ AfterRounds(a, n, i) = SwapAfter(AfterRounds(AfterRounds(a, n, i - 1), n - 1, n - 1), i, n)
         /\ AfterRounds(a, n, i - 1)[n] = a[Source(n, i)]
         /\ \A j \in (n + 1)..L : AfterRounds(a, n, i - 1)[j] = a[j]
<1>1. n \in Nat /\ n \in 1..L /\ i - 1 \in 0..(n - 1)
  OBVIOUS
<1>2. CASE n % 2 = 1
  <2>1. /\ AfterRounds(a, n, i) = Shifted(a, n, i)
        /\ AfterRounds(a, n, i - 1) = Shifted(a, n, i - 1)
        /\ \A s : AfterRounds(s, n - 1, n - 1) = Rotated(s, n - 1, n - 1)
        /\ \A s : SwapAfter(s, i, n) = Swapped(s, i, n)
        /\ Source(n, i) = IF i = 1 THEN n ELSE i - 1
    BY <1>1, <1>2, OddOrEven DEF AfterRounds, SwapAfter, Source
  <2>2. Shifted(a, n, i - 1)[n] = a[IF i = 1 THEN n ELSE i - 1]
    BY <1>1 DEF Shifted
  <2>3. \A j \in (n + 1)..L : Shifted(a, n, i - 1)[j] = a[j]
    BY <1>1 DEF Shifted
  <2> QED
    BY <2>1, <2>2, <2>3, OddRound
<1>3. CASE ~(n % 2 = 1)
  <2>1. /\ AfterRounds(a, n, i) = Rotated(a, n, i)
        /\ AfterRounds(a, n, i - 1) = Rotated(a, n, i - 1)
        /\ \A s : AfterRounds(s, n - 1, n - 1) = Shifted(s, n - 1, n - 1)
        /\ \A s : SwapAfter(s, i, n) = Swapped(s, 1, n)
        /\ Source(n, i) = n - i + 1
    BY <1>1, <1>3, OddOrEven DEF AfterRounds, SwapAfter, Source
  <2>2. Rotated(a, n, i - 1)[n] = a[n - i + 1]
    BY <1>1 DEF Rotated
  <2>3. \A j \in (n + 1)..L : Rotated(a, n, i - 1)[j] = a[j]
    BY <1>1 DEF Rotated
  <2> QED
    BY <2>1, <2>2, <2>3, EvenRound
<1> QED
  BY <1>2, <1>3

(* The loop begins with the array as it is.                                *)
LEMMA NoRoundYet ==
  ASSUME NEW slice \in Seq(Pod), NEW n \in 1..Len(slice), NEW a \in Arrays(slice)
  PROVE  AfterRounds(a, n, 0) = a /\ AfterRounds(a, 1, 1) = a
<1>0. PICK L : L \in Nat /\ n \in 1..L /\ L = Len(slice) /\ DOMAIN slice = 1..L
  OBVIOUS
<1> DEFINE S == ToSet(slice)
<1>a. a \in [1..L -> S]
  BY <1>0 DEF Arrays
<1> HIDE DEF S
<1>1. Shifted(a, n, 0) = a /\ Rotated(a, n, 0) = a
  <2>1. Shifted(a, n, 0) = [j \in 1..L |-> a[j]]
    BY <1>a DEF Shifted
  <2>2. \A j \in 1..L : (IF j > n THEN a[j] ELSE IF j <= 0 THEN a[n - 0 + j] ELSE a[j - 0]) = a[j]
    BY <1>0
  <2>3. Rotated(a, n, 0) = [j \in 1..L |-> a[j]]
    BY <1>a, <2>2 DEF Rotated
  <2>4. a = [j \in 1..L |-> a[j]]
    BY <1>a
  <2> QED
    BY ONLY <2>1, <2>3, <2>4
<1>2. Shifted(a, 1, 1) = a
  <2>1. \A j \in 1..L : (IF 1 = 0 \/ j > 1 THEN a[j]
                         ELSE IF j = 1 THEN a[1] ELSE IF j <= 1 THEN a[j - 1] ELSE IF j = 1 THEN a[1] ELSE a[j]) = a[j]
    BY <1>0
  <2>2. Shifted(a, 1, 1) = [j \in 1..L |-> a[j]]
    BY <1>a, <2>1 DEF Shifted
  <2>3. a = [j \in 1..L |-> a[j]]
    BY <1>a
  <2> QED
    BY ONLY <2>2, <2>3
<1> QED
  BY <1>1, <1>2 DEF AfterRounds

(* Every element is the last one in one round.                             *)
LEMMA EachIsLast ==
  ASSUME NEW n \in Nat \ {0}
  PROVE  /\ \A i \in 1..n : Source(n, i) \in 1..n
         /\ \A i, j \in 1..n : Source(n, i) = Source(n, j) => i = j
         /\ \A j \in 1..n : \E i \in 1..n : Source(n, i) = j
<1>1. CASE n % 2 = 1
  <2>1. \A i \in 1..n : Source(n, i) = IF i = 1 THEN n ELSE i - 1
    BY <1>1 DEF Source
  <2>2. ASSUME NEW j \in 1..n
        PROVE  \E i \in 1..n : Source(n, i) = j
    <3>1. CASE j = n
      <4>1. 1 \in 1..n /\ Source(n, 1) = j
        BY <2>1, <3>1
      <4> QED
        BY <4>1
    <3>2. CASE j # n
      <4>1. j + 1 \in 1..n /\ Source(n, j + 1) = j
        BY <2>1, <3>2
      <4> QED
        BY <4>1
    <3> QED
      BY <3>1, <3>2
  <2>3. \A i \in 1..n : Source(n, i) \in 1..n
    BY <2>1
  <2>4. \A i, j \in 1..n : Source(n, i) = Source(n, j) => i = j
    BY <2>1
  <2> QED
    BY <2>2, <2>3, <2>4
<1>2. CASE ~(n % 2 = 1)
  <2>1. \A i \in 1..n : Source(n, i) = n - i + 1
    BY <1>2 DEF Source
  <2>2. ASSUME NEW j \in 1..n
        PROVE  \E i \in 1..n : Source(n, i) = j
    <3>1. n - j + 1 \in 1..n /\ Source(n, n - j + 1) = j
      BY <2>1
    <3> QED
      BY <3>1
  <2>3. \A i \in 1..n : Source(n, i) \in 1..n
    BY <2>1
  <2>4. \A i, j \in 1..n : Source(n, i) = Source(n, j) => i = j
    BY <2>1
  <2> QED
    BY <2>2, <2>3, <2>4
<1> QED
  BY <1>1, <1>2

(* Sequences without a common element, none of which repeats any, make one *)
(* that repeats none either.                                               *)
LEMMA JoinInjective ==
  ASSUME NEW X, NEW p \in Seq(X), NEW q \in Seq(X), IsInjective(p), IsInjective(q), ToSet(p) \cap ToSet(q) = {}
  PROVE  IsInjective(p \o q) /\ ToSet(p \o q) = ToSet(p) \cup ToSet(q) /\ p \o q \in Seq(X)
<1>1. PICK m, n : m = Len(p) /\ n = Len(q) /\ m \in Nat /\ n \in Nat
  <2>1. Len(p) \in Nat /\ Len(q) \in Nat
    BY ONLY p \in Seq(X), q \in Seq(X)
  <2> QED
    BY ONLY <2>1
<1>2. PICK s : s = p \o q
  OBVIOUS
<1>3. /\ s \in Seq(X) /\ DOMAIN s = 1..(m + n) /\ DOMAIN p = 1..m /\ DOMAIN q = 1..n
      /\ \A i \in 1..m : s[i] = p[i]
      /\ \A i \in (m + 1)..(m + n) : s[i] = q[i - m]
  BY <1>1, <1>2
<1>4. ToSet(p) = {p[i] : i \in 1..m} /\ ToSet(q) = {q[i] : i \in 1..n} /\ ToSet(s) = {s[i] : i \in 1..(m + n)}
  BY <1>3 DEF ToSet
<1>5. \A i \in 1..m : s[i] \in ToSet(p)
  BY <1>3, <1>4
<1>6. ASSUME NEW i \in (m + 1)..(m + n)
      PROVE  i - m \in 1..n /\ s[i] = q[i - m] /\ s[i] \in ToSet(q)
  <2>1. i - m \in 1..n
    BY <1>1
  <2> QED
    BY <1>3, <1>4, <2>1
<1>7. \A i \in 1..(m + n) : i \in 1..m \/ i \in (m + 1)..(m + n)
  BY <1>1
<1>8. ToSet(s) \subseteq ToSet(p) \cup ToSet(q)
  BY <1>4, <1>5, <1>6, <1>7
<1>9. ASSUME NEW x \in ToSet(p) PROVE x \in ToSet(s)
  <2>1. PICK i \in 1..m : x = p[i]
    BY <1>4
  <2>2. i \in 1..(m + n) /\ s[i] = x
    BY <1>1, <1>3, <2>1
  <2> QED
    BY <1>4, <2>2
<1>10. ASSUME NEW x \in ToSet(q) PROVE x \in ToSet(s)
  <2>1. PICK i \in 1..n : x = q[i]
    BY <1>4
  <2>2. m + i \in (m + 1)..(m + n) /\ m + i \in 1..(m + n) /\ (m + i) - m = i
    BY <1>1
  <2>3. s[m + i] = x
    BY <1>3, <2>1, <2>2
  <2> QED
    BY <1>4, <2>2, <2>3
<1>11. ASSUME NEW i \in 1..(m + n), NEW j \in 1..(m + n), s[i] = s[j]
       PROVE  i = j
  <2>1. CASE i \in 1..m /\ j \in 1..m
    BY <1>3, <1>11, <2>1 DEF IsInjective
  <2>2. CASE i \in (m + 1)..(m + n) /\ j \in (m + 1)..(m + n)
    <3>1. q[i - m] = q[j - m] /\ i - m \in 1..n /\ j - m \in 1..n
      BY <1>6, <1>11, <2>2
    <3>2. i - m = j - m
      BY <1>3, <3>1 DEF IsInjective
    <3> QED
      BY <1>1, <3>2
  <2>3. CASE i \in 1..m /\ j \in (m + 1)..(m + n)
    BY <1>5, <1>6, <1>11, <2>3
  <2>4. CASE i \in (m + 1)..(m + n) /\ j \in 1..m
    BY <1>5, <1>6, <1>11, <2>4
  <2> QED
    BY <1>7, <2>1, <2>2, <2>3, <2>4
<1>12. IsInjective(s)
  BY <1>3, <1>11 DEF IsInjective
<1>13. ToSet(s) = ToSet(p) \cup ToSet(q)
  BY <1>8, <1>9, <1>10
<1> QED
  BY <1>2, <1>3, <1>12, <1>13

(* An order of a slice that repeats no element has them all.               *)
LEMMA OrdersAreOnto ==
  ASSUME NEW slice \in Seq(Pod), IsInjective(slice), NEW a \in Rearranged(slice)
  PROVE  \A x \in ToSet(slice) : \E i \in 1..Len(slice) : a[i] = x
<1>1. PICK D, S : D = 1..Len(slice) /\ S = ToSet(slice)
  OBVIOUS
<1>2. IsFiniteSet(D) /\ DOMAIN slice = D
  <2>1. Len(slice) \in Nat
    OBVIOUS
  <2> QED
    BY <1>1, <2>1, FS_Interval
<1>3. slice \in [D -> S] /\ \A x \in S : \E i \in D : slice[i] = x
  <2>1. S = {slice[i] : i \in D}
    BY <1>1, <1>2 DEF ToSet
  <2>2. slice = [i \in D |-> slice[i]]
    BY <1>2
  <2> QED
    BY <2>1, <2>2
<1>4. slice \in Bijection(D, S)
  BY <1>3 DEF Bijection, Injection, Surjection
<1>5. IsFiniteSet(S) /\ Cardinality(D) = Cardinality(S)
  BY <1>2, <1>4, FS_Bijection DEF ExistsBijection
<1>6. a \in Injection(D, S)
  BY <1>1, <1>2 DEF Rearranged, Arrays, Injection
<1>7. a \in Surjection(D, S)
  BY <1>5, <1>6, FS_Injection
<1> QED
  BY <1>1, <1>7 DEF Surjection

SameAfter(slice, n, a) == {b \in Rearranged(slice) : \A j \in (n + 1)..Len(slice) : b[j] = a[j]}

WithLast(slice, n, a, i) == {b \in SameAfter(slice, n, a) : \E l \in 1..i : b[n] = a[Source(n, l)]}

(* What is last is one of the first n elements.                            *)
LEMMA LastIsSome ==
  ASSUME NEW slice \in Seq(Pod), IsInjective(slice), NEW a \in Rearranged(slice), NEW n \in 1..Len(slice),
         NEW b \in SameAfter(slice, n, a)
  PROVE  \E i \in 1..n : b[n] = a[Source(n, i)]
<1>1. b \in Rearranged(slice) /\ \A j \in (n + 1)..Len(slice) : b[j] = a[j]
  BY DEF SameAfter
<1>2. DOMAIN slice = 1..Len(slice) /\ Len(slice) \in Nat /\ n \in Nat \ {0}
  OBVIOUS
<1>3. b[n] \in ToSet(slice) /\ DOMAIN b = 1..Len(slice) /\ IsInjective(b)
  BY <1>1, <1>2 DEF Rearranged, Arrays
<1>4. PICK j \in 1..Len(slice) : a[j] = b[n]
  BY <1>3, OrdersAreOnto
<1>5. j \in 1..n
  <2>1. SUFFICES ASSUME j \in (n + 1)..Len(slice) PROVE FALSE
    BY <1>2
  <2>2. b[j] = b[n]
    BY <1>1, <1>4, <2>1
  <2>3. j = n
    BY <1>3, <2>2 DEF IsInjective
  <2> QED
    BY <1>2, <2>1, <2>3
<1>6. PICK i \in 1..n : Source(n, i) = j
  BY <1>2, <1>5, EachIsLast
<1> QED
  BY <1>4, <1>6

(* What a round emits: the orders that end with its last element.          *)
LEMMA RoundEmits ==
  ASSUME NEW slice \in Seq(Pod), IsInjective(slice), NEW a \in Rearranged(slice), NEW n \in 2..Len(slice)
  PROVE  /\ WithLast(slice, n, a, 0) = {}
         /\ WithLast(slice, n, a, n) = SameAfter(slice, n, a)
         /\ \A i \in 1..n :
              LET c == AfterRounds(a, n, i - 1) IN
              /\ WithLast(slice, n, a, i) = WithLast(slice, n, a, i - 1) \cup SameAfter(slice, n - 1, c)
              /\ WithLast(slice, n, a, i - 1) \cap SameAfter(slice, n - 1, c) = {}
<1>1. Len(slice) \in Nat /\ n \in Nat \ {0} /\ n \in 1..Len(slice) /\ DOMAIN slice = 1..Len(slice)
  OBVIOUS
<1>2. DOMAIN a = 1..Len(slice) /\ IsInjective(a)
  BY <1>1 DEF Rearranged, Arrays
<1>3. WithLast(slice, n, a, 0) = {}
  BY DEF WithLast
<1>4. WithLast(slice, n, a, n) = SameAfter(slice, n, a)
  BY <1>1, LastIsSome DEF WithLast
<1>5. ASSUME NEW i \in 1..n, NEW c, c = AfterRounds(a, n, i - 1)
      PROVE  /\ WithLast(slice, n, a, i) = WithLast(slice, n, a, i - 1) \cup SameAfter(slice, n - 1, c)
             /\ WithLast(slice, n, a, i - 1) \cap SameAfter(slice, n - 1, c) = {}
  <2>1. c[n] = a[Source(n, i)] /\ \A j \in (n + 1)..Len(slice) : c[j] = a[j]
    BY <1>1, <1>2, <1>5, OneRound, SMTT(30)
  <2>2. \A j : j \in ((n - 1) + 1)..Len(slice) <=> j = n \/ j \in (n + 1)..Len(slice)
    BY <1>1
  <2>3. SameAfter(slice, n - 1, c) = {b \in SameAfter(slice, n, a) : b[n] = a[Source(n, i)]}
    BY <2>1, <2>2 DEF SameAfter
  <2>4. \A l : l \in 1..i <=> l \in 1..(i - 1) \/ l = i
    BY <1>1
  <2>5. \A l \in 1..(i - 1) : l \in 1..n /\ l # i
    BY <1>1
  <2>6. \A l \in 1..(i - 1) : a[Source(n, l)] # a[Source(n, i)]
    <3>1. \A l \in 1..n : Source(n, l) \in 1..Len(slice)
      <4>1. \A l \in 1..n : Source(n, l) \in 1..n
        BY <1>1, EachIsLast
      <4>2. \A j \in 1..n : j \in 1..Len(slice)
        BY <1>1
      <4> QED
        BY <4>1, <4>2
    <3>2. \A l \in 1..n : Source(n, l) = Source(n, i) => l = i
      BY <1>1, EachIsLast
    <3> QED
      BY <1>2, <2>5, <3>1, <3>2 DEF IsInjective
  <2>7. WithLast(slice, n, a, i) = WithLast(slice, n, a, i - 1) \cup SameAfter(slice, n - 1, c)
    BY <2>3, <2>4 DEF WithLast
  <2>8. WithLast(slice, n, a, i - 1) \cap SameAfter(slice, n - 1, c) = {}
    BY <2>3, <2>6 DEF WithLast
  <2> QED
    BY <2>7, <2>8
<1> QED
  BY <1>3, <1>4, <1>5

(* A swap repeats nothing.                                                 *)
LEMMA SwapRearranges ==
  ASSUME NEW slice \in Seq(Pod), NEW a \in Rearranged(slice), NEW n \in 1..Len(slice), NEW i \in 1..n
  PROVE  SwapAfter(a, i, n) \in Rearranged(slice)
<1>1. PICK L : L = Len(slice) /\ L \in Nat /\ DOMAIN slice = 1..L
  OBVIOUS
<1>2. a \in Arrays(slice) /\ IsInjective(a) /\ DOMAIN a = 1..L
  BY <1>1 DEF Rearranged, Arrays
<1>3. ASSUME NEW k \in 1..n
      PROVE  IsInjective(Swapped(a, k, n))
  <2>1. n \in 1..L /\ k \in 1..L
    BY <1>1
  <2>2. PICK s : s = Swapped(a, k, n)
    OBVIOUS
  <2>3. DOMAIN s = 1..L /\ \A j \in 1..L : s[j] = IF j = n THEN a[k] ELSE IF j = k THEN a[n] ELSE a[j]
    BY <1>2, <2>1, <2>2 DEF Swapped
  <2>4. \A x, y \in 1..L : a[x] = a[y] => x = y
    BY <1>2 DEF IsInjective
  <2>5. \A x, y \in 1..L : s[x] = s[y] => x = y
    BY <2>1, <2>3, <2>4
  <2> QED
    BY <2>2, <2>3, <2>5 DEF IsInjective
<1>4. 1 \in 1..n
  OBVIOUS
<1>5. IsInjective(SwapAfter(a, i, n))
  BY <1>3, <1>4 DEF SwapAfter
<1> QED
  BY <1>2, <1>5, SwapType DEF Rearranged

(* What the helper's call for the first n elements has to return.          *)
LevelGood(slice, n, a, o) ==
    /\ o \in Outputs(slice)
    /\ o.arr = AfterRounds(a, n, n) /\ o.arr \in Rearranged(slice)
    /\ IsInjective(o.emitted) /\ ToSet(o.emitted) = SameAfter(slice, n, a)

(* What its loop has to have after i rounds.                               *)
RoundGood(slice, n, a, i, v) ==
    /\ v \in Outputs(slice)
    /\ v.arr = AfterRounds(a, n, i) /\ v.arr \in Rearranged(slice)
    /\ IsInjective(v.emitted) /\ ToSet(v.emitted) = WithLast(slice, n, a, i)

(* The call for one element emits the array.                               *)
LEMMA FirstLevelGood ==
  ASSUME NEW slice \in Seq(Pod), IsInjective(slice), NEW a \in Rearranged(slice), 1 \in 1..Len(slice)
  PROVE  LevelGood(slice, 1, a, [emitted |-> <<a>>, arr |-> a])
<1>1. PICK o, e : e = <<a>> /\ o = [emitted |-> e, arr |-> a]
  OBVIOUS
<1>2. o.emitted = e /\ o.arr = a /\ DOMAIN e = 1..1 /\ e[1] = a
  BY <1>1
<1>3. PICK L : L = Len(slice) /\ L \in Nat /\ DOMAIN slice = 1..L /\ 1 \in 1..L
  OBVIOUS
<1>4. a \in [1..L -> ToSet(slice)] /\ a \in Arrays(slice) /\ IsInjective(a)
  BY <1>3 DEF Rearranged, Arrays
<1>5. o \in Outputs(slice)
  BY <1>1, <1>4, BegunType
<1>6. AfterRounds(a, 1, 1) = a
  BY <1>4, NoRoundYet
<1>7. IsInjective(e) /\ ToSet(e) = {a}
  BY <1>2 DEF IsInjective, ToSet
<1>8. SameAfter(slice, 1, a) = {a}
  <2>1. a \in SameAfter(slice, 1, a)
    BY DEF SameAfter
  <2>2. ASSUME NEW b \in SameAfter(slice, 1, a) PROVE b = a
    <3>1. b \in [1..L -> ToSet(slice)] /\ \A j \in 2..L : b[j] = a[j]
      BY <1>3 DEF SameAfter, Rearranged, Arrays
    <3>2. Source(1, 1) = 1
      BY EachIsLast
    <3>3. b[1] = a[1]
      BY <1>3, <3>2, LastIsSome
    <3>4. \A j \in 1..L : b[j] = a[j]
      BY <3>1, <3>3
    <3>5. a = [j \in 1..L |-> a[j]] /\ b = [j \in 1..L |-> b[j]]
      BY <1>4, <3>1
    <3> QED
      BY ONLY <3>4, <3>5
  <2> QED
    BY <2>1, <2>2
<1> QED
  BY <1>1, <1>2, <1>5, <1>6, <1>7, <1>8 DEF LevelGood

(* One round of the loop, with calls that return what they have to.        *)
LEMMA NextRoundGood ==
  ASSUME NEW slice \in Seq(Pod), IsInjective(slice), NEW a \in Rearranged(slice), NEW n \in 2..Len(slice),
         NEW G \in [Arrays(slice) -> Outputs(slice)],
         \A b \in Rearranged(slice) : LevelGood(slice, n - 1, b, G[b]),
         NEW i \in 1..n, NEW v, RoundGood(slice, n, a, i - 1, v)
  PROVE  RoundGood(slice, n, a, i, RoundFun(slice, G, n)[<<i, v>>])
<1>1. PICK L : L = Len(slice) /\ L \in Nat /\ DOMAIN slice = 1..L /\ n \in 2..L /\ n \in 1..L
  OBVIOUS
<1>2. v \in Outputs(slice) /\ v.emitted \in Seq(Arrays(slice))
  BY DEF RoundGood, Outputs
<1>3. PICK b : b = v.arr /\ b = AfterRounds(a, n, i - 1) /\ b \in Rearranged(slice)
  BY DEF RoundGood
<1>4. PICK o : o = G[b] /\ LevelGood(slice, n - 1, b, o)
  BY <1>3
<1>5. o.emitted \in Seq(Arrays(slice))
  BY <1>4 DEF LevelGood, Outputs
<1>6. PICK w : w = RoundFun(slice, G, n)[<<i, v>>]
  OBVIOUS
<1>7. w = [emitted |-> v.emitted \o o.emitted, arr |-> SwapAfter(o.arr, i, n)] /\ w \in Outputs(slice)
  <2>1. n \in 1..Len(slice)
    BY <1>1
  <2>2. /\ w = [emitted |-> v.emitted \o G[v.arr].emitted, arr |-> SwapAfter(G[v.arr].arr, i, n)]
        /\ w \in Outputs(slice)
    BY <1>2, <1>6, <2>1, RoundType
  <2> QED
    BY <1>3, <1>4, <2>2
<1>8. w.emitted = v.emitted \o o.emitted /\ w.arr = SwapAfter(o.arr, i, n)
  BY <1>7
<1>9. DOMAIN a = 1..L
  BY <1>1 DEF Rearranged, Arrays
<1>10. w.arr = AfterRounds(a, n, i)
  BY <1>1, <1>3, <1>4, <1>8, <1>9, OneRound DEF LevelGood
<1>11. w.arr \in Rearranged(slice)
  BY <1>1, <1>4, <1>8, SwapRearranges DEF LevelGood
<1>12. PICK X, Y : X = WithLast(slice, n, a, i - 1) /\ Y = SameAfter(slice, n - 1, b)
  OBVIOUS
<1>13. WithLast(slice, n, a, i) = X \cup Y /\ X \cap Y = {}
  BY <1>3, <1>12, RoundEmits
<1>14. PICK p, q, A : p = v.emitted /\ q = o.emitted /\ A = Arrays(slice)
  OBVIOUS
<1>15. /\ p \in Seq(A) /\ q \in Seq(A) /\ IsInjective(p) /\ IsInjective(q)
       /\ ToSet(p) = X /\ ToSet(q) = Y
  BY <1>2, <1>4, <1>5, <1>12, <1>14 DEF RoundGood, LevelGood
<1>16. IsInjective(p \o q) /\ ToSet(p \o q) = X \cup Y
  BY ONLY <1>13, <1>15, JoinInjective
<1> QED
  BY <1>6, <1>7, <1>8, <1>10, <1>11, <1>13, <1>14, <1>16 DEF RoundGood

(* So its call returns what it has to.                                     *)
LEMMA NextLevelGood ==
  ASSUME NEW slice \in Seq(Pod), IsInjective(slice), NEW a \in Rearranged(slice), NEW n \in 2..Len(slice),
         NEW G \in [Arrays(slice) -> Outputs(slice)],
         \A b \in Rearranged(slice) : LevelGood(slice, n - 1, b, G[b])
  PROVE  LevelGood(slice, n, a, RoundsWith(slice, G, a, n))
<1> DEFINE F == RoundFun(slice, G, n)
           O == Outputs(slice)
<1>1. n \in Nat /\ n \in 1..Len(slice) /\ Len(slice) \in Nat /\ DOMAIN slice = 1..Len(slice)
  OBVIOUS
<1>2. a \in Arrays(slice) /\ a \in [1..Len(slice) -> ToSet(slice)] /\ Begun(a) \in O
  BY <1>1, BegunType DEF Rearranged, Arrays
<1>3. \E g : g = SeqStep(F, Begun(a), n, g)
  <2>1. PICK b, V, H : b = Begun(a) /\ V = O /\ H = F
    OBVIOUS
  <2>2. n \in Nat /\ b \in V /\ \A i \in 1..n, v \in V : H[<<i, v>>] \in V
    BY <1>1, <1>2, <2>1, RoundType
  <2> HIDE DEF F, O
  <2>3. \E g : g = SeqStep(H, b, n, g) /\ \A s \in SUBSET (1..n) : g[s] \in V
    BY ONLY <2>2, SeqFold
  <2> QED
    BY <2>1, <2>3
<1>4. PICK g : g = SeqStep(F, Begun(a), n, g) /\ RoundsWith(slice, G, a, n) = g[1..n]
  BY <1>3 DEF RoundsWith
<1>5. g[1..0] = Begun(a) /\ \A i \in 1..n : g[1..i] = F[<<i, g[1..(i - 1)]>>]
  <2> HIDE DEF F
  <2> QED
    BY <1>1, <1>4, SeqUnfold
<1> DEFINE J == {i \in 0..n : RoundGood(slice, n, a, i, g[1..i])}
<1>6. 0 \in J
  <2>1. PICK b : b = Begun(a)
    OBVIOUS
  <2>2. b.arr = a /\ b.emitted = <<>> /\ DOMAIN b.emitted = {}
    BY <2>1 DEF Begun
  <2>3. AfterRounds(a, n, 0) = a
    BY <1>1, <1>2, NoRoundYet
  <2>4. IsInjective(b.emitted) /\ ToSet(b.emitted) = {}
    BY <2>2 DEF IsInjective, ToSet
  <2>5. WithLast(slice, n, a, 0) = {}
    BY RoundEmits
  <2>6. RoundGood(slice, n, a, 0, b)
    BY <1>2, <2>1, <2>2, <2>3, <2>4, <2>5 DEF RoundGood
  <2> QED
    BY <1>1, <1>5, <2>1, <2>6
<1>7. ASSUME NEW i \in 1..n, i - 1 \in J
      PROVE  i \in J
  <2>1. PICK v : v = g[1..(i - 1)] /\ RoundGood(slice, n, a, i - 1, v)
    BY <1>7
  <2>2. RoundGood(slice, n, a, i, F[<<i, v>>])
    BY <2>1, NextRoundGood
  <2>3. g[1..i] = F[<<i, v>>] /\ i \in 0..n
    BY <1>1, <1>5, <2>1
  <2> QED
    BY <2>2, <2>3
<1>8. \A i \in 0..n : i \in J
  <2> HIDE DEF J, F
  <2> QED
    BY <1>1, <1>6, <1>7, UpTo
<1>9. RoundGood(slice, n, a, n, g[1..n])
  BY <1>1, <1>8
<1>10. WithLast(slice, n, a, n) = SameAfter(slice, n, a)
  BY RoundEmits
<1> QED
  BY <1>4, <1>9, <1>10 DEF RoundGood, LevelGood

(* Permutations of a slice without repetitions emits the slice's orders    *)
(* without repetitions, all of them, and each once.                        *)
THEOREM EveryOrderIsEmittedOnce ==
  ASSUME NEW slice \in Seq(Pod), IsInjective(slice), slice # <<>>
  PROVE  ToSet(EveryOrder(slice)) = Rearranged(slice) /\ IsInjective(EveryOrder(slice))
<1> DEFINE L == Len(slice)
           A == Arrays(slice)
           O == Outputs(slice)
<1>1. PICK k : k = HelperOf(slice) /\ k = HelperStep(slice, k)
  BY HelperSolvable
<1> DEFINE I == {n \in 0..L : n # 0 => /\ k[n] \in [A -> O]
                                       /\ \A a \in Rearranged(slice) : LevelGood(slice, n, a, k[n][a])}
<1>2. L \in Nat /\ L # 0 /\ DOMAIN slice = 1..L
  OBVIOUS
<1>3. \A n \in 0..L : k[n] = [a \in A |-> IF n = 1 THEN [emitted |-> <<a>>, arr |-> a] ELSE Rounds1(k, a, n)]
  BY <1>1 DEF HelperStep
<1>4. Rearranged(slice) \subseteq A
  BY DEF Rearranged
<1>5. 0 \in I
  BY <1>2
<1>6. ASSUME NEW n \in 1..L, n - 1 \in I
      PROVE  n \in I
  <2>1. n \in 0..L /\ k[n] = [a \in A |-> IF n = 1 THEN [emitted |-> <<a>>, arr |-> a] ELSE Rounds1(k, a, n)]
    BY <1>2, <1>3
  <2>2. CASE n = 1
    <3>1. k[n] = [a \in A |-> [emitted |-> <<a>>, arr |-> a]]
      BY <2>1, <2>2
    <3>2. k[n] \in [A -> O]
      BY <3>1, BegunType
    <3>3. \A a \in Rearranged(slice) : LevelGood(slice, n, a, k[n][a])
      BY <1>4, <2>2, <3>1, FirstLevelGood, ZenonT(30)
    <3> QED
      BY <2>1, <3>2, <3>3
  <2>3. CASE n # 1
    <3>1. n \in 2..L /\ n - 1 # 0
      BY <1>2, <2>3
    <3>2. PICK G : /\ G = k[n - 1] /\ G \in [A -> O]
                   /\ \A a \in Rearranged(slice) : LevelGood(slice, n - 1, a, G[a])
      BY <1>6, <3>1
    <3>3. \A a \in A : Rounds1(k, a, n) = RoundsWith(slice, G, a, n) /\ RoundsWith(slice, G, a, n) \in O
      BY <3>2, RoundsAreWith
    <3>4. k[n] \in [A -> O]
      BY <2>1, <2>3, <3>3
    <3>5. \A a \in Rearranged(slice) : k[n][a] = RoundsWith(slice, G, a, n)
      BY <1>4, <2>1, <2>3, <3>3
    <3>6. \A a \in Rearranged(slice) : LevelGood(slice, n, a, RoundsWith(slice, G, a, n))
      BY <3>1, <3>2, NextLevelGood
    <3> QED
      BY <2>1, <3>4, <3>5, <3>6
  <2> QED
    BY <2>2, <2>3
<1>7. \A n \in 0..L : n \in I
  <2> HIDE DEF I, L
  <2> QED
    BY <1>2, <1>5, <1>6, UpTo
<1>8. slice \in Rearranged(slice)
  <2>1. \A i \in DOMAIN slice : slice[i] \in ToSet(slice)
    BY DEF ToSet
  <2> QED
    BY <1>2, <2>1 DEF Rearranged, Arrays
<1>9. LevelGood(slice, L, slice, k[L][slice])
  BY <1>2, <1>7, <1>8
<1>10. EveryOrder(slice) = k[L][slice].emitted
  BY <1>1, EveryOrderIs
<1>11. SameAfter(slice, L, slice) = Rearranged(slice)
  BY <1>2 DEF SameAfter
<1> QED
  BY <1>9, <1>10, <1>11 DEF LevelGood

(* There are n numbers from 1 to n.                                        *)
LEMMA CountUpTo ==
  ASSUME NEW n \in Nat
  PROVE  IsFiniteSet(1..n) /\ Cardinality(1..n) = n
<1>1. IsFiniteSet(1..n)
  BY FS_Interval
<1>2. Cardinality(1..n) = n
  BY FS_Interval
<1> QED
  BY <1>1, <1>2

(* In the terms of the library: all the sequences of the elements, and no  *)
(* more emissions than there are of them.                                  *)
THEOREM EveryOrderIsEveryOrder ==
  ASSUME NEW slice \in Seq(Pod), IsInjective(slice), slice # <<>>
  PROVE  /\ ToSet(EveryOrder(slice)) = SetToSeqs(ToSet(slice))
         /\ Len(EveryOrder(slice)) = Cardinality(SetToSeqs(ToSet(slice)))
<1>1. PICK L, S : L = Len(slice) /\ S = ToSet(slice) /\ L \in Nat /\ DOMAIN slice = 1..L
  <2>1. Len(slice) \in Nat /\ DOMAIN slice = 1..Len(slice)
    OBVIOUS
  <2> QED
    BY ONLY <2>1
<1>2. IsFiniteSet(S) /\ Cardinality(S) = L
  <2>1. IsFiniteSet(1..L) /\ Cardinality(1..L) = L
    BY <1>1, CountUpTo
  <2>2. slice \in [1..L -> S] /\ \A x \in S : \E i \in 1..L : slice[i] = x
    <3>1. S = {slice[i] : i \in 1..L} /\ slice = [i \in 1..L |-> slice[i]]
      BY <1>1 DEF ToSet
    <3> QED
      BY <3>1
  <2>3. slice \in Bijection(1..L, S)
    BY <2>2 DEF Bijection, Injection, Surjection
  <2> QED
    BY <2>1, <2>3, FS_Bijection DEF ExistsBijection
<1>3. Rearranged(slice) = SetToSeqs(S)
  <2>1. Rearranged(slice) = {a \in [1..L -> S] : IsInjective(a)}
    BY <1>1 DEF Rearranged, Arrays
  <2>2. SetToSeqs(S) = {f \in [1..L -> S] : \A i, j \in 1..L : i # j => f[i] # f[j]}
    BY <1>2 DEF SetToSeqs
  <2>3. \A f \in [1..L -> S] : IsInjective(f) <=> \A i, j \in 1..L : i # j => f[i] # f[j]
    BY DEF IsInjective
  <2> QED
    BY <2>1, <2>2, <2>3
<1>4. PICK e, A : e = EveryOrder(slice) /\ A = SetToSeqs(S) /\ ToSet(e) = A /\ IsInjective(e)
  BY <1>3, EveryOrderIsEmittedOnce
<1>5. PICK n : n = Len(e) /\ n \in Nat /\ DOMAIN e = 1..n
  <2>1. e \in Seq(Arrays(slice))
    BY <1>4, EveryOrderType
  <2>2. Len(e) \in Nat /\ DOMAIN e = 1..Len(e)
    BY ONLY <2>1
  <2> QED
    BY ONLY <2>2
<1>6. e \in [1..n -> A] /\ \A x \in A : \E i \in 1..n : e[i] = x
  <2>1. A = {e[i] : i \in 1..n}
    BY <1>4, <1>5 DEF ToSet
  <2>2. e = [i \in 1..n |-> e[i]]
    <3>1. e \in Seq(Arrays(slice))
      BY <1>4, EveryOrderType
    <3> QED
      BY ONLY <1>5, <3>1
  <2> QED
    BY <2>1, <2>2
<1>7. e \in Bijection(1..n, A)
  BY <1>4, <1>6 DEF Bijection, Injection, Surjection
<1>8. IsFiniteSet(1..n) /\ Cardinality(1..n) = n
  BY <1>5, CountUpTo
<1>9. Cardinality(A) = n
  BY <1>7, <1>8, FS_Bijection DEF ExistsBijection
<1> QED
  BY <1>1, <1>4, <1>5, <1>9

(* A set becomes a sequence of all its elements, each once.                *)
LEMMA SetToSeqOnce ==
  ASSUME NEW S \in SUBSET Pod
  PROVE  IsInjective(SetToSeq(S)) /\ ToSet(SetToSeq(S)) = S
<1>1. PICK n : n = Cardinality(S) /\ n \in Nat /\ ExistsBijection(1..n, S) /\ IsFiniteSet(S)
  BY PodsFinite, FS_CardinalityType
<1>2. \E f \in [1..n -> S] : IsInjective(f)
  BY <1>1 DEF ExistsBijection, Bijection, Injection
<1>3. PICK q : q = SetToSeq(S) /\ q \in [1..n -> S] /\ IsInjective(q)
  BY <1>1, <1>2 DEF SetToSeq
<1>4. q \in Injection(1..n, S)
  BY <1>3 DEF Injection
<1>5. Cardinality(1..n) = n
  BY <1>1, FS_Interval
<1>6. q \in Surjection(1..n, S)
  BY <1>1, <1>4, <1>5, FS_Injection
<1>7. ToSet(q) = S
  <2>1. DOMAIN q = 1..n /\ (\A i \in 1..n : q[i] \in S) /\ \A x \in S : \E i \in 1..n : q[i] = x
    BY <1>3, <1>6 DEF Surjection
  <2> QED
    BY ONLY <2>1 DEF ToSet
<1> QED
  BY <1>3, <1>7

(* So the placement algorithms try every order of a set of pods.           *)
THEOREM OrdersAreAll ==
  ASSUME NEW S \in SUBSET Pod, S # {}
  PROVE  Orders(S) = SetToSeqs(S)
<1>1. PICK slice : slice = SetToSeq(S)
  OBVIOUS
<1>2. slice \in Seq(Pod) /\ IsInjective(slice) /\ ToSet(slice) = S
  BY <1>1, SetToSeqType, SetToSeqOnce
<1>3. slice # <<>>
  BY <1>2 DEF ToSet
<1> QED
  BY <1>1, <1>2, <1>3, EveryOrderIsEveryOrder DEF Orders

-----------------------------------------------------------------------------
(* The nodes, listed, each once.                                           *)
LEMMA NodesAre ==
  /\ Len(Nodes) \in Nat /\ DOMAIN Nodes = 1..Len(Nodes) /\ Nodes \in [1..Len(Nodes) -> EdgeNode]
  /\ \A i, j \in 1..Len(Nodes) : i # j => Nodes[i] # Nodes[j]
<1>1. PICK n : n = Cardinality(EdgeNode) /\ n \in Nat
  BY NodesAreListed, FS_CardinalityType
<1>2. Nodes \in [1..n -> EdgeNode] /\ \A i, j \in 1..n : i # j => Nodes[i] # Nodes[j]
  BY NodesAreListed, <1>1 DEF SetToSeqs
<1>3. Len(Nodes) = n /\ DOMAIN Nodes = 1..n
  BY ONLY <1>1, <1>2
<1> QED
  BY <1>1, <1>2, <1>3

(* Of finitely many integers one is the greatest.                          *)
LEMMA BestOf ==
  ASSUME NEW S, NEW f, \A x \in S : f[x] \in Int, IsFiniteSet(S), S # {}
  PROVE  \E x \in S : \A y \in S : f[y] <= f[x]
<1> DEFINE A == {T \in SUBSET S : T # {} /\ ~ \E x \in T : \A y \in T : f[x] >= f[y]}
<1>1. A = {}
  <2>1. SUFFICES ASSUME A # {} PROVE FALSE
    OBVIOUS
  <2>2. PICK X \in A : \A Y \in A : Y \subseteq X => Y = X
    <3>1. A \in SUBSET SUBSET S
      OBVIOUS
    <3> HIDE DEF A
    <3>2. IsFiniteSet(S)
      OBVIOUS
    <3> QED
      BY ONLY <2>1, <3>1, <3>2, MinimalSubset
  <2>3. X \in SUBSET S /\ X # {} /\ ~ \E x \in X : \A y \in X : f[x] >= f[y]
    OBVIOUS
  <2>4. PICK a \in X : TRUE
    BY <2>3
  <2>5. f[a] \in Int
    BY <2>3
  <2>6. X \ {a} \in SUBSET S /\ X \ {a} \notin A
    BY <2>2, <2>4
  <2>7. X \ {a} # {}
    BY <2>3, <2>5
  <2>8. PICK b \in X \ {a} : \A y \in X \ {a} : f[b] >= f[y]
    BY <2>6, <2>7
  <2>9. f[b] \in Int /\ b \in X /\ \A y \in X : f[y] \in Int
    BY <2>3
  <2>10. CASE f[a] >= f[b]
    <3>1. \A y \in X : f[a] >= f[y]
      BY <2>5, <2>8, <2>9, <2>10
    <3> QED
      BY <2>3, <3>1
  <2>11. CASE f[b] >= f[a]
    <3>1. \A y \in X : f[b] >= f[y]
      BY <2>8, <2>11
    <3> QED
      BY <2>3, <2>9, <3>1
  <2> QED
    BY <2>5, <2>9, <2>10, <2>11
<1>2. \E x \in S : \A y \in S : f[x] >= f[y]
  BY <1>1
<1> QED
  BY <1>2

(* BestCut is one of the cuts, and its total the greatest of all.          *)
LEMMA BestCutIs ==
  ASSUME NEW j \in Nat, NEW total, DOMAIN total \subseteq 0..j, \A k \in DOMAIN total : total[k] \in Int,
         DOMAIN total # {}
  PROVE  /\ BestCut(total) \in DOMAIN total /\ Max(Range(total)) \in Int
         /\ total[BestCut(total)] = Max(Range(total))
         /\ \A k \in DOMAIN total : total[k] <= Max(Range(total))
<1>1. PICK D : D = DOMAIN total
  OBVIOUS
<1>2. IsFiniteSet(D) /\ \A k \in D : k \in Int
  <2>1. PICK J : J = 0..j
    OBVIOUS
  <2>2. IsFiniteSet(J) /\ \A k \in J : k \in Int
    BY <2>1, FS_Interval
  <2> QED
    BY <1>1, <2>1, <2>2, FS_Subset
<1>3. PICK k \in D : \A l \in D : total[l] <= total[k]
  BY <1>1, <1>2, BestOf
<1>4. PICK B : B = {m \in D : \A l \in D : total[l] <= total[m]}
  OBVIOUS
<1>5. Max(B) \in B
  <2>1. IsFiniteSet(B)
    BY <1>2, <1>4, FS_Subset
  <2> QED
    BY <1>2, <1>3, <1>4, <2>1, MaxOf
<1>6. BestCut(total) = Max(B)
  BY <1>1, <1>4 DEF BestCut
<1>7. PICK R : R = Range(total) /\ R = {total[l] : l \in D}
  BY <1>1 DEF Range
<1>8. total[k] \in R /\ \A y \in R : total[k] >= y
  BY <1>1, <1>3, <1>7
<1>9. Max(R) \in R /\ \A y \in R : Max(R) >= y
  BY <1>8 DEF Max
<1>10. \A y \in R : y \in Int
  BY <1>1, <1>7
<1>11. \A l \in D : total[l] <= Max(R)
  BY <1>7, <1>9, <1>10
<1>12. PICK m : m = BestCut(total) /\ m \in D /\ \A l \in D : total[l] <= total[m]
  BY <1>4, <1>5, <1>6
<1>13. PICK best : best = Max(R) /\ best \in Int
  BY <1>9, <1>10
<1>14. total[m] = best
  <2>1. PICK l \in D : best = total[l]
    BY <1>7, <1>9, <1>13
  <2>2. total[l] <= total[m] /\ total[m] <= best
    BY <1>11, <1>12, <1>13, <2>1
  <2>3. total[m] \in Int
    BY <1>1, <1>12
  <2> QED
    BY ONLY <1>13, <2>1, <2>2, <2>3
<1> QED
  BY <1>1, <1>7, <1>11, <1>12, <1>13, <1>14

VolumeStep(v, g) ==
    [s \in SUBSET Resource |-> IF s = {} THEN 1 ELSE v[Pick(s)] * g[s \ {Pick(s)}]]

VolumeOf(v) == CHOOSE g : g = VolumeStep(v, g)

(* The volume of an integer vector is an integer, of one of naturals a     *)
(* natural number.                                                         *)
LEMMA VolumeIn ==
  ASSUME NEW V \in {Int, Nat}, NEW v \in [Resource -> V]
  PROVE  Volume(v) \in V
<1>1. Volume(v) = VolumeOf(v)[Resource]
  BY DEF Volume, FoldSet, MapThenFoldSet, VolumeOf, VolumeStep, Pick
<1> DEFINE ch == [s \in SUBSET Resource |-> Pick(s)]
           F  == [y \in Resource \X V |-> v[y[1]] * y[2]]
           W  == [s \in SUBSET Resource |-> V]
<1>2. IsFiniteSet(Resource) /\ Chooses(ch, Resource) /\ \A s \in SUBSET Resource : ch[s] = Pick(s)
  BY NodesHaveResources, PickIsElement DEF Chooses
<1>3. PICK g : FoldSolves(F, 1, ch, Resource, g)
  <2> HIDE DEF ch, F
  <2> QED
    BY <1>2, FoldSolvable
<1>4. ASSUME NEW r \in Resource, NEW x \in V
      PROVE  F[<<r, x>>] = v[r] * x /\ v[r] * x \in V
  <2>1. v[r] \in V
    OBVIOUS
  <2>2. PICK a : a = v[r] /\ a \in V
    BY <2>1
  <2>3. a * x \in V
    <3>1. CASE V = Int
      BY ONLY <1>4, <2>2, <3>1
    <3>2. CASE V = Nat
      BY ONLY <1>4, <2>2, <3>2
    <3> QED
      BY ONLY <3>1, <3>2, V \in {Int, Nat}
  <2>4. F[<<r, x>>] = v[r] * x
    BY <1>4
  <2> QED
    BY <2>2, <2>3, <2>4
<1>5. \A s \in SUBSET Resource : g[s] = IF s = {} THEN 1 ELSE F[<<ch[s], g[s \ {ch[s]}]>>]
  BY <1>3 DEF FoldSolves, FoldStep
<1>6. \A s \in SUBSET Resource : g[s] \in W[s]
  <2>1. g[{}] \in W[{}]
    <3>1. {} \in SUBSET Resource
      OBVIOUS
    <3> HIDE DEF ch, F
    <3>2. g[{}] = 1
      BY <1>5, <3>1
    <3> QED
      BY <3>1, <3>2
  <2>2. ASSUME NEW s \in SUBSET Resource, s # {}, g[s \ {ch[s]}] \in W[s \ {ch[s]}]
        PROVE  g[s] \in W[s]
    <3>1. ch[s] \in Resource
      BY <1>2, <2>2 DEF Chooses
    <3>2. g[s \ {ch[s]}] \in V
      BY <2>2
    <3>3. PICK r, x : r = ch[s] /\ x = g[s \ {ch[s]}]
      OBVIOUS
    <3>4. g[s] = F[<<r, x>>]
      BY <1>5, <2>2, <3>3
    <3>5. F[<<r, x>>] \in V
      BY <1>4, <3>1, <3>2, <3>3
    <3> QED
      BY <3>4, <3>5
  <2> HIDE DEF W, ch, F
  <2> QED
    BY <1>2, <2>1, <2>2, FoldInduction
<1>7. ASSUME NEW s \in SUBSET Resource, s # {}
      PROVE  F[<<ch[s], g[s \ {ch[s]}]>>] = v[Pick(s)] * g[s \ {Pick(s)}]
  <2>1. PICK r, x : r = Pick(s) /\ x = g[s \ {Pick(s)}]
    OBVIOUS
  <2>2. r \in Resource /\ x \in V
    BY <1>2, <1>6, <1>7, <2>1, PickIsElement
  <2>3. F[<<r, x>>] = v[r] * x
    BY <1>4, <2>2
  <2> HIDE DEF F, ch
  <2> QED
    BY <1>2, <1>7, <2>1, <2>3
<1>8. g = VolumeStep(v, g)
  <2>1. g = FoldStep(F, 1, ch, Resource, g)
    BY <1>3 DEF FoldSolves
  <2> HIDE DEF F, ch
  <2> QED
    BY <1>7, <2>1 DEF FoldStep, VolumeStep
<1>9. PICK k : k = VolumeOf(v) /\ k = VolumeStep(v, k)
  BY <1>8 DEF VolumeOf
<1>10. \A s \in SUBSET Resource : k[s] \in W[s]
  <2>1. \A s \in SUBSET Resource : k[s] = IF s = {} THEN 1 ELSE v[Pick(s)] * k[s \ {Pick(s)}]
    BY <1>9 DEF VolumeStep
  <2>2. k[{}] \in W[{}]
    <3>1. {} \in SUBSET Resource
      OBVIOUS
    <3>2. k[{}] = 1
      BY <2>1, <3>1
    <3>3. 1 \in V
      BY ONLY V \in {Int, Nat}
    <3> QED
      BY <3>1, <3>2, <3>3
  <2>3. ASSUME NEW s \in SUBSET Resource, s # {}, k[s \ {ch[s]}] \in W[s \ {ch[s]}]
        PROVE  k[s] \in W[s]
    <3>1. PICK r, x : r = Pick(s) /\ x = k[s \ {Pick(s)}]
      OBVIOUS
    <3>2. r \in Resource /\ x \in V /\ ch[s] = r
      BY <1>2, <2>3, <3>1, PickIsElement
    <3>3. k[s] = v[r] * x
      BY <2>1, <2>3, <3>1
    <3>4. v[r] * x \in V
      BY <1>4, <3>2
    <3> QED
      BY <3>3, <3>4
  <2> HIDE DEF W, ch
  <2> QED
    BY <1>2, <2>2, <2>3, FoldInduction
<1> QED
  BY <1>1, <1>9, <1>10

(* The one.                                                                *)
LEMMA VolumeType ==
  ASSUME NEW v \in [Resource -> Int]
  PROVE  Volume(v) \in Int
  BY VolumeIn

(* The other.                                                              *)
LEMMA VolumeNat ==
  ASSUME NEW v \in [Resource -> Nat]
  PROVE  Volume(v) \in Nat
  BY VolumeIn

(* So is a fragmentation.                                                  *)
LEMMA FragmentationType ==
  ASSUME NEW v \in [Resource -> Int], NEW whole \in [Resource -> Int], Volume(whole) > 0
  PROVE  CalcDeFragmentation(v, whole) \in Int
<1>1. PICK a, b : a = Volume(v) /\ b = Volume(whole)
  OBVIOUS
<1>2. a \in Int /\ b \in Int /\ b > 0
  BY <1>1, VolumeType
<1>3. Unit \in Nat
  BY UnitIsCommon
<1>4. Unit \div b \in Int /\ Unit \div 10 \in Int
  BY <1>2, <1>3
<1>5. PICK u : u = Unit \div b
  OBVIOUS
<1>6. a * u \in Int
  BY <1>2, <1>4, <1>5
<1> QED
  BY <1>1, <1>4, <1>5, <1>6 DEF CalcDeFragmentation

-----------------------------------------------------------------------------
(* FitInEdge: mappings of some of the pods to nodes that have the room.    *)

Sent(f, n) == {p \in DOMAIN f : f[p] = n}

MapsOf(S) == UNION {[D -> EdgeNode] : D \in SUBSET S}

HasRoomFor(rem, f) == \A n \in EdgeNode, r \in Resource : TotalSize(Sent(f, n))[r] <= rem[n][r]

Remainders == [EdgeNode -> [Resource -> Int]]

NoDebts(rem) == \A n \in EdgeNode, r \in Resource : rem[n][r] >= 0

(* Mappings of some of the pods of S.                                      *)
LEMMA MapsAre ==
  ASSUME NEW S, NEW f
  PROVE  f \in MapsOf(S) <=> DOMAIN f \subseteq S /\ f \in [DOMAIN f -> EdgeNode]
  BY DEF MapsOf

(* The empty mapping.                                                      *)
LEMMA NothingMapped ==
  ASSUME NEW S, NEW rem \in Remainders, NoDebts(rem)
  PROVE  /\ <<>> \in MapsOf(S) /\ HasRoomFor(rem, <<>>)
         /\ DOMAIN <<>> = {} /\ \A n \in EdgeNode : Sent(<<>>, n) = {}
<1>1. DOMAIN <<>> = {} /\ <<>> \in [{} -> EdgeNode]
  OBVIOUS
<1>2. <<>> \in MapsOf(S)
  BY <1>1 DEF MapsOf
<1>3. \A n \in EdgeNode : Sent(<<>>, n) = {}
  BY <1>1 DEF Sent
<1>4. HasRoomFor(rem, <<>>)
  <2>1. PICK e : e = {} /\ \A n \in EdgeNode : Sent(<<>>, n) = e
    BY <1>3
  <2>2. \A r \in Resource : TotalSize(e)[r] = 0
    BY <2>1, TotalEmpty
  <2> QED
    BY <2>1, <2>2 DEF HasRoomFor, NoDebts
<1> QED
  BY <1>1, <1>2, <1>3, <1>4

(* The mapping with the pods of T sent to n.                               *)
Extension(m, T, n) == [p \in DOMAIN m \cup T |-> IF p \in DOMAIN m THEN m[p] ELSE n]

(* A segment for a node that the mapping does not use.                     *)
LEMMA ExtendedFits ==
  ASSUME NEW S \in SUBSET Pod, NEW T \in SUBSET S, NEW m \in MapsOf(S), NEW n \in EdgeNode,
         Sent(m, n) = {}, NEW rem \in Remainders, HasRoomFor(rem, m), LEThan(TotalSize(T), rem[n])
  PROVE  /\ Extension(m, T, n) \in MapsOf(S) /\ HasRoomFor(rem, Extension(m, T, n))
         /\ \A x \in EdgeNode : x # n => Sent(Extension(m, T, n), x) = Sent(m, x)
<1> DEFINE f == Extension(m, T, n)
<1>1. DOMAIN m \subseteq S /\ m \in [DOMAIN m -> EdgeNode]
  BY MapsAre
<1>2. /\ DOMAIN f = DOMAIN m \cup T
      /\ \A p \in DOMAIN m : f[p] = m[p]
      /\ \A p \in T \ DOMAIN m : f[p] = n
      /\ f \in [DOMAIN f -> EdgeNode]
  BY <1>1 DEF Extension
<1> HIDE DEF f
<1>3. f \in MapsOf(S)
  BY <1>1, <1>2, MapsAre
<1>4. \A x \in EdgeNode : x # n => Sent(f, x) = Sent(m, x)
  BY <1>2 DEF Sent
<1>5. Sent(f, n) \subseteq T
  BY <1>2 DEF Sent
<1>6. ASSUME NEW x \in EdgeNode, NEW r \in Resource
      PROVE  TotalSize(Sent(f, x))[r] <= rem[x][r]
  <2>1. CASE x = n
    <3>1. TotalSize(Sent(f, n))[r] <= TotalSize(T)[r]
      BY <1>5, TotalSubset
    <3>2. TotalSize(T)[r] <= rem[n][r]
      BY DEF LEThan
    <3>3. PICK a, b, d : a = TotalSize(Sent(f, n))[r] /\ b = TotalSize(T)[r] /\ d = rem[n][r]
      OBVIOUS
    <3>4. a \in Int /\ b \in Int /\ d \in Int
      <4>1. TotalSize(Sent(f, n)) \in [Resource -> Nat] /\ TotalSize(T) \in [Resource -> Nat]
        BY <1>5, TotalType
      <4>2. a \in Nat /\ b \in Nat
        BY ONLY <3>3, <4>1, r \in Resource
      <4>3. d \in Int
        BY <3>3 DEF Remainders
      <4> QED
        BY <4>2, <4>3
    <3> QED
      BY <2>1, <3>1, <3>2, <3>3, <3>4
  <2>2. CASE x # n
    BY <1>4, <2>2 DEF HasRoomFor
  <2> QED
    BY <2>1, <2>2
<1>7. f \in MapsOf(S) /\ HasRoomFor(rem, f) /\ \A x \in EdgeNode : x # n => Sent(f, x) = Sent(m, x)
  BY <1>3, <1>4, <1>6 DEF HasRoomFor
<1> QED
  BY <1>7 DEF f

-----------------------------------------------------------------------------
(* The rows of the table.                                                  *)

Cells(pods) == [value : Int, mapping : MapsOf(ToSet(pods))]

Rows(pods) == [0..Len(pods) -> Cells(pods)]

(* Rows after the nodes with the indices in s: what they map has room, and *)
(* is not mapped to other nodes.                                           *)
RowsAfter(pods, rem, s) ==
    {row \in Rows(pods) : \A j \in 0..Len(pods) :
        /\ HasRoomFor(rem, row[j].mapping)
        /\ \A i \in (1..Len(Nodes)) \ s : Sent(row[j].mapping, Nodes[i]) = {}}

(* NoFit has no one mapped.                                                *)
LEMMA NoFitType ==
  ASSUME NEW pods \in Seq(Pod)
  PROVE  /\ NoFit \in Cells(pods) /\ NoFit.mapping = <<>>
         /\ [NoFit EXCEPT !.value = 0] \in Cells(pods) /\ [NoFit EXCEPT !.value = 0].mapping = <<>>
<1>1. <<>> \in MapsOf(ToSet(pods))
  <2>1. <<>> \in [{} -> EdgeNode]
    OBVIOUS
  <2> QED
    BY <2>1 DEF MapsOf
<1>2. -1 \in Int /\ 0 \in Int
  OBVIOUS
<1> QED
  BY <1>1, <1>2 DEF NoFit, Cells

(* The first row maps nothing.                                             *)
LEMMA FirstRowType ==
  ASSUME NEW pods \in Seq(Pod), NEW rem \in Remainders, NoDebts(rem)
  PROVE  FirstRow(pods) \in RowsAfter(pods, rem, {})
<1>1. PICK a, b : a = NoFit /\ b = [NoFit EXCEPT !.value = 0]
  OBVIOUS
<1>2. a \in Cells(pods) /\ b \in Cells(pods) /\ a.mapping = <<>> /\ b.mapping = <<>>
  BY <1>1, NoFitType
<1>3. FirstRow(pods) = [j \in 0..Len(pods) |-> IF j = 0 THEN b ELSE a]
  BY <1>1 DEF FirstRow
<1>4. PICK row : row = FirstRow(pods)
  OBVIOUS
<1>5. row \in Rows(pods) /\ \A j \in 0..Len(pods) : row[j].mapping = <<>>
  BY <1>2, <1>3, <1>4 DEF Rows
<1>6. HasRoomFor(rem, <<>>) /\ \A n \in EdgeNode : Sent(<<>>, n) = {}
  BY NothingMapped
<1>7. \A i \in 1..Len(Nodes) : Nodes[i] \in EdgeNode
  BY NodesAre
<1>8. ASSUME NEW j \in 0..Len(pods)
      PROVE  /\ HasRoomFor(rem, row[j].mapping)
             /\ \A i \in (1..Len(Nodes)) \ {} : Sent(row[j].mapping, Nodes[i]) = {}
  BY <1>5, <1>6, <1>7
<1> QED
  BY <1>4, <1>5, <1>8 DEF RowsAfter

(* The totals are integers, for cuts among the prefixes.                   *)
LEMMA TotalsType ==
  ASSUME NEW pods \in Seq(Pod), NEW row \in Rows(pods), NEW n \in EdgeNode, NEW rem \in Remainders,
         NEW j \in 0..Len(pods), NEW total, total = Totals(row, pods, n, rem, j)
  PROVE  /\ DOMAIN total \subseteq 0..j
         /\ \A k \in DOMAIN total : /\ total[k] \in Int
                                    /\ LEThan(TotalSize(Segment(pods, k, j)), rem[n])
                                    /\ Segment(pods, k, j) \subseteq ToSet(pods)
         /\ total # <<>> => DOMAIN total # {}
<1>1. PICK D : D = Cuts(row, pods, n, rem, j)
  OBVIOUS
<1>2. \A k \in D : k \in 0..j /\ LEThan(TotalSize(Segment(pods, k, j)), rem[n])
  BY <1>1 DEF Cuts
<1>3. total = [k \in D |-> row[k].value + CalcDeFragmentation(Filled(rem, n, TotalSize(Segment(pods, k, j))), Resources[n])]
  BY <1>1 DEF Totals
<1>4. ASSUME NEW k \in 0..j
      PROVE  Segment(pods, k, j) \subseteq ToSet(pods) /\ Segment(pods, k, j) \subseteq Pod
  <2>1. \A i \in (k + 1)..j : i \in DOMAIN pods
    OBVIOUS
  <2> QED
    BY <2>1 DEF Segment, ToSet
<1>5. ASSUME NEW k \in D
      PROVE  total[k] \in Int
  <2>1. k \in 0..j /\ k \in 0..Len(pods)
    BY <1>2
  <2>2. row[k].value \in Int
    BY <2>1 DEF Rows, Cells
  <2>3. PICK v : v = Filled(rem, n, TotalSize(Segment(pods, k, j)))
    OBVIOUS
  <2>4. v \in [Resource -> Int]
    <3>1. PICK t : t = TotalSize(Segment(pods, k, j)) /\ t \in [Resource -> Nat]
      BY <1>4, <2>1, TotalType
    <3>2. PICK a, b : a = Resources[n] /\ b = rem[n]
      OBVIOUS
    <3>3. a \in [Resource -> Nat] /\ b \in [Resource -> Int]
      BY <3>2, ResourcesAreVectors DEF Remainders
    <3>4. v = [r \in Resource |-> a[r] - (b[r] - t[r])]
      BY <2>3, <3>1, <3>2 DEF Filled
    <3>5. \A r \in Resource : a[r] - (b[r] - t[r]) \in Int
      BY <3>1, <3>3
    <3> QED
      BY <3>4, <3>5
  <2>5. CalcDeFragmentation(v, Resources[n]) \in Int
    <3>1. Resources[n] \in [Resource -> Int] /\ Volume(Resources[n]) > 0
      BY ResourcesAreVectors, NodesHaveResources
    <3> QED
      BY <2>4, <3>1, FragmentationType
  <2>6. total[k] = row[k].value + CalcDeFragmentation(v, Resources[n])
    BY <1>3, <2>3
  <2> QED
    BY <2>2, <2>5, <2>6
<1>6. DOMAIN total = D
  BY <1>3
<1>7. total # <<>> => D # {}
  <2>1. ASSUME D = {} PROVE total = <<>>
    BY <1>3, <2>1
  <2> QED
    BY <2>1
<1> QED
  BY <1>2, <1>4, <1>5, <1>6, <1>7

(* A cell maps nothing, or extends a cell of the row before by a segment.  *)
LEMMA CellIs ==
  ASSUME NEW pods \in Seq(Pod), NEW row \in Rows(pods), NEW n \in EdgeNode, NEW rem \in Remainders,
         NEW j \in 0..Len(pods), NEW cell, cell = BestExtended(row, pods, n, j, Totals(row, pods, n, rem, j))
  PROVE  /\ cell \in Cells(pods)
         /\ \/ cell.mapping = <<>>
            \/ \E k \in 0..Len(pods), T \in SUBSET ToSet(pods) :
                  LEThan(TotalSize(T), rem[n]) /\ cell.mapping = Extension(row[k].mapping, T, n)
<1>1. PICK total : total = Totals(row, pods, n, rem, j)
  OBVIOUS
<1>2. CASE total = <<>>
  BY <1>1, <1>2, NoFitType DEF BestExtended
<1>3. CASE total # <<>>
  <2>1. /\ DOMAIN total \subseteq 0..j /\ DOMAIN total # {}
        /\ \A k \in DOMAIN total : /\ total[k] \in Int
                                   /\ LEThan(TotalSize(Segment(pods, k, j)), rem[n])
                                   /\ Segment(pods, k, j) \subseteq ToSet(pods)
    BY <1>1, <1>3, TotalsType
  <2>2. j \in Nat /\ 0..j \subseteq 0..Len(pods)
    BY ONLY j \in 0..Len(pods), pods \in Seq(Pod)
  <2>3. PICK k : k = BestCut(total) /\ k \in DOMAIN total
    BY <2>1, <2>2, BestCutIs
  <2>4. PICK v : v = Max(Range(total)) /\ v \in Int
    BY <2>1, <2>2, BestCutIs
  <2>5. PICK m, T : m = row[k].mapping /\ T = Segment(pods, k, j)
    OBVIOUS
  <2>6. m \in MapsOf(ToSet(pods)) /\ T \subseteq ToSet(pods) /\ LEThan(TotalSize(T), rem[n]) /\ k \in 0..Len(pods)
    BY <2>1, <2>2, <2>3, <2>5 DEF Rows, Cells
  <2>7. PICK f : f = Extension(m, T, n)
    OBVIOUS
  <2>8. DOMAIN m \subseteq ToSet(pods) /\ m \in [DOMAIN m -> EdgeNode]
    BY <2>6, MapsAre
  <2>9. DOMAIN f \subseteq ToSet(pods) /\ f \in [DOMAIN f -> EdgeNode]
    BY <2>6, <2>7, <2>8 DEF Extension
  <2>10. f \in MapsOf(ToSet(pods))
    BY <2>9, MapsAre
  <2>11. cell = [value |-> v, mapping |-> f]
    BY <1>1, <1>3, <2>3, <2>4, <2>5, <2>7 DEF BestExtended, Extended, Extension
  <2> QED
    BY <2>4, <2>5, <2>6, <2>7, <2>10, <2>11 DEF Cells
<1> QED
  BY <1>2, <1>3

(* NextRow keeps to the type, whatever the nodes have room for.            *)
LEMMA NextRowKeeps ==
  ASSUME NEW pods \in Seq(Pod), NEW rem \in Remainders, NEW row \in Rows(pods), NEW x \in 1..Len(Nodes)
  PROVE  NextRow(row, pods, Nodes[x], rem) \in Rows(pods)
<1>1. PICK n : n = Nodes[x] /\ n \in EdgeNode
  BY NodesAre
<1>2. DOMAIN row = 0..Len(pods)
  BY DEF Rows
<1>3. \A j \in 0..Len(pods) : BestExtended(row, pods, n, j, Totals(row, pods, n, rem, j)) \in Cells(pods)
  BY <1>1, CellIs
<1>4. NextRow(row, pods, Nodes[x], rem) = [j \in 0..Len(pods) |-> BestExtended(row, pods, n, j, Totals(row, pods, n, rem, j))]
  BY <1>1, <1>2 DEF NextRow
<1> QED
  BY <1>3, <1>4 DEF Rows

(* One more node: what it is given fits it, and the others keep theirs.    *)
LEMMA NextRowType ==
  ASSUME NEW pods \in Seq(Pod), NEW rem \in Remainders, NoDebts(rem),
         NEW s \in SUBSET (1..Len(Nodes)), NEW x \in s, NEW row \in RowsAfter(pods, rem, s \ {x})
  PROVE  NextRow(row, pods, Nodes[x], rem) \in RowsAfter(pods, rem, s)
<1>1. PICK n : n = Nodes[x] /\ n \in EdgeNode
  BY NodesAre
<1>2. row \in Rows(pods) /\ DOMAIN row = 0..Len(pods)
  BY DEF RowsAfter, Rows
<1>3. \A j \in 0..Len(pods) : /\ row[j].mapping \in MapsOf(ToSet(pods)) /\ HasRoomFor(rem, row[j].mapping)
                              /\ Sent(row[j].mapping, n) = {}
                              /\ \A i \in (1..Len(Nodes)) \ s : Sent(row[j].mapping, Nodes[i]) = {}
  BY <1>1, <1>2 DEF RowsAfter, Rows, Cells
<1>4. \A i \in (1..Len(Nodes)) \ s : Nodes[i] \in EdgeNode /\ Nodes[i] # n
  BY <1>1, NodesAre
<1>5. ToSet(pods) \in SUBSET Pod
  BY DEF ToSet
<1>6. PICK next : next = NextRow(row, pods, Nodes[x], rem)
  OBVIOUS
<1>7. next = [j \in 0..Len(pods) |-> BestExtended(row, pods, n, j, Totals(row, pods, n, rem, j))]
  BY <1>1, <1>2, <1>6 DEF NextRow
<1>8. ASSUME NEW j \in 0..Len(pods)
      PROVE  /\ HasRoomFor(rem, next[j].mapping)
             /\ \A i \in (1..Len(Nodes)) \ s : Sent(next[j].mapping, Nodes[i]) = {}
  <2>1. PICK cell : cell = next[j] /\ cell = BestExtended(row, pods, n, j, Totals(row, pods, n, rem, j))
    BY <1>7
  <2>2. \/ cell.mapping = <<>>
        \/ \E k \in 0..Len(pods), T \in SUBSET ToSet(pods) :
              LEThan(TotalSize(T), rem[n]) /\ cell.mapping = Extension(row[k].mapping, T, n)
    BY <1>1, <1>2, <2>1, CellIs
  <2>3. CASE cell.mapping = <<>>
    <3>1. HasRoomFor(rem, <<>>) /\ \A m \in EdgeNode : Sent(<<>>, m) = {}
      BY NothingMapped
    <3> QED
      BY <1>4, <2>1, <2>3, <3>1
  <2>4. ASSUME NEW k \in 0..Len(pods), NEW T \in SUBSET ToSet(pods),
               LEThan(TotalSize(T), rem[n]), cell.mapping = Extension(row[k].mapping, T, n)
        PROVE  HasRoomFor(rem, cell.mapping) /\ \A i \in (1..Len(Nodes)) \ s : Sent(cell.mapping, Nodes[i]) = {}
    <3>1. PICK m : m = row[k].mapping
      OBVIOUS
    <3>2. /\ m \in MapsOf(ToSet(pods)) /\ HasRoomFor(rem, m) /\ Sent(m, n) = {}
          /\ \A i \in (1..Len(Nodes)) \ s : Sent(m, Nodes[i]) = {}
      BY <1>3, <3>1
    <3>3. /\ HasRoomFor(rem, Extension(m, T, n))
          /\ \A y \in EdgeNode : y # n => Sent(Extension(m, T, n), y) = Sent(m, y)
      BY <1>1, <1>5, <2>4, <3>2, ExtendedFits
    <3> QED
      BY <1>4, <2>4, <3>1, <3>2, <3>3
  <2> QED
    BY <2>1, <2>2, <2>3, <2>4
<1>9. next \in Rows(pods)
  <2>1. x \in 1..Len(Nodes)
    OBVIOUS
  <2> QED
    BY <1>2, <1>6, <2>1, NextRowKeeps
<1> QED
  BY <1>6, <1>8, <1>9 DEF RowsAfter

RowStep(pods, rem, g) ==
    [t \in SUBSET DOMAIN Nodes |->
        IF t = {} THEN FirstRow(pods)
        ELSE LET x == Max(t) IN NextRow(g[t \ {x}], pods, Nodes[x], rem)]

RowOf(pods, rem) == CHOOSE g : g = RowStep(pods, rem, g)

(* The last row is a fold over the nodes.                                  *)
LEMMA LastRowIs ==
  ASSUME NEW pods, NEW rem
  PROVE  LastRow(pods, rem) = RowOf(pods, rem)[DOMAIN Nodes]
  BY DEF LastRow, FoldLeft, MapThenFoldSet, RowOf, RowStep

RowFun(pods, rem) ==
    [y \in (1..Len(Nodes)) \X Rows(pods) |-> NextRow(y[2], pods, Nodes[y[1]], rem)]

(* The fold has a solution: the row of each set of nodes, the last of them *)
(* taken last.                                                             *)
LEMMA RowsSolve ==
  ASSUME NEW pods \in Seq(Pod), NEW rem \in Remainders, NoDebts(rem)
  PROVE  \A s \in SUBSET (1..Len(Nodes)) :
            /\ s # {} => Max(s) \in s /\ \A i \in s : i <= Max(s)
            /\ RowOf(pods, rem)[s] =
                  IF s = {} THEN FirstRow(pods)
                  ELSE NextRow(RowOf(pods, rem)[s \ {Max(s)}], pods, Nodes[Max(s)], rem)
<1>1. PICK n : n = Len(Nodes) /\ n \in Nat /\ DOMAIN Nodes = 1..n
  BY NodesAre
<1> DEFINE F == RowFun(pods, rem)
<1>2. \A x \in 1..n, row \in Rows(pods) :
        F[<<x, row>>] = NextRow(row, pods, Nodes[x], rem) /\ F[<<x, row>>] \in Rows(pods)
  BY <1>1, NextRowKeeps DEF RowFun
<1>3. FirstRow(pods) \in Rows(pods) /\ FirstRow(pods) \in RowsAfter(pods, rem, {})
  BY FirstRowType DEF RowsAfter
<1>4. PICK g : g = SeqStep(F, FirstRow(pods), n, g) /\ \A s \in SUBSET (1..n) : g[s] \in Rows(pods)
  <2>1. PICK V, b : V = Rows(pods) /\ b = FirstRow(pods)
    OBVIOUS
  <2>2. b \in V /\ \A x \in 1..n, row \in V : F[<<x, row>>] \in V
    BY <1>2, <1>3, <2>1
  <2> HIDE DEF F
  <2>3. \E g : g = SeqStep(F, b, n, g) /\ \A s \in SUBSET (1..n) : g[s] \in V
    BY ONLY <1>1, <2>2, SeqFold
  <2> QED
    BY <2>1, <2>3
<1>5. \A s \in SUBSET (1..n) : s # {} => Max(s) \in s /\ \A i \in s : i <= Max(s)
  <2>1. IsFiniteSet(1..n) /\ \A i \in 1..n : i \in Int
    BY <1>1, CountUpTo
  <2>2. \A s \in SUBSET (1..n) : IsFiniteSet(s) /\ \A i \in s : i \in Int
    BY <2>1, FS_Subset
  <2> QED
    BY <2>2, MaxOf
<1>6. ASSUME NEW s \in SUBSET (1..n), s # {}
      PROVE  F[<<Max(s), g[s \ {Max(s)}]>>] = NextRow(g[s \ {Max(s)}], pods, Nodes[Max(s)], rem)
  <2>1. PICK x, row : x = Max(s) /\ row = g[s \ {Max(s)}]
    OBVIOUS
  <2>2. x \in 1..n /\ row \in Rows(pods)
    BY <1>4, <1>5, <1>6, <2>1
  <2> HIDE DEF F
  <2>3. F[<<x, row>>] = NextRow(row, pods, Nodes[x], rem)
    BY <1>2, <2>2
  <2> QED
    BY <2>1, <2>3
<1>7. g = RowStep(pods, rem, g)
  <2> HIDE DEF F
  <2> QED
    BY <1>1, <1>4, <1>6 DEF SeqStep, RowStep
<1>8. PICK k : k = RowOf(pods, rem) /\ k = RowStep(pods, rem, k)
  BY <1>7 DEF RowOf
<1>9. \A s \in SUBSET (1..n) :
        k[s] = IF s = {} THEN FirstRow(pods) ELSE NextRow(k[s \ {Max(s)}], pods, Nodes[Max(s)], rem)
  BY <1>1, <1>8 DEF RowStep
<1> QED
  BY <1>1, <1>5, <1>8, <1>9

(* What the last row maps has room on the nodes.                           *)
LEMMA LastRowType ==
  ASSUME NEW pods \in Seq(Pod), NEW rem \in Remainders, NoDebts(rem)
  PROVE  LastRow(pods, rem) \in RowsAfter(pods, rem, 1..Len(Nodes))
<1>1. PICK n : n = Len(Nodes) /\ n \in Nat /\ DOMAIN Nodes = 1..n
  BY NodesAre
<1>2. PICK k : k = RowOf(pods, rem)
  OBVIOUS
<1>3. \A s \in SUBSET (1..n) :
        /\ s # {} => Max(s) \in s
        /\ k[s] = IF s = {} THEN FirstRow(pods) ELSE NextRow(k[s \ {Max(s)}], pods, Nodes[Max(s)], rem)
  BY <1>1, <1>2, RowsSolve
<1> DEFINE W == [s \in SUBSET (1..n) |-> RowsAfter(pods, rem, s)]
<1>4. k[{}] \in W[{}]
  <2>1. {} \in SUBSET (1..n)
    OBVIOUS
  <2>2. k[{}] = FirstRow(pods)
    BY <1>3, <2>1
  <2> QED
    BY <2>1, <2>2, FirstRowType
<1>5. ASSUME NEW s \in SUBSET (1..n), s # {}, k[s \ {Max(s)}] \in W[s \ {Max(s)}]
      PROVE  k[s] \in W[s]
  <2>1. PICK x, row : x = Max(s) /\ row = k[s \ {x}]
    OBVIOUS
  <2>2. x \in s /\ row \in RowsAfter(pods, rem, s \ {x})
    BY <1>3, <1>5, <2>1
  <2>3. k[s] = NextRow(row, pods, Nodes[x], rem)
    BY <1>3, <1>5, <2>1
  <2>4. NextRow(row, pods, Nodes[x], rem) \in RowsAfter(pods, rem, s)
    BY <1>1, <2>2, NextRowType
  <2> QED
    BY <2>3, <2>4
<1>6. \A s \in SUBSET (1..n) : k[s] \in W[s]
  <2> HIDE DEF W
  <2> QED
    BY <1>1, <1>4, <1>5, SeqInduction
<1>7. k[1..n] \in RowsAfter(pods, rem, 1..n)
  BY <1>6
<1> QED
  BY <1>1, <1>2, <1>7, LastRowIs

(* FitInEdge: what it maps has room on the nodes.                          *)
LEMMA FitInEdgeFits ==
  ASSUME NEW pods \in Seq(Pod), NEW rem \in Remainders, NoDebts(rem)
  PROVE  /\ FitInEdge(pods, rem).value \in Int
         /\ FitInEdge(pods, rem).mapping \in MapsOf(ToSet(pods))
         /\ HasRoomFor(rem, FitInEdge(pods, rem).mapping)
<1>1. PICK row : row = LastRow(pods, rem) /\ row \in RowsAfter(pods, rem, 1..Len(Nodes))
  BY LastRowType
<1>2. row \in Rows(pods) /\ \A j \in 0..Len(pods) : HasRoomFor(rem, row[j].mapping)
  BY <1>1 DEF RowsAfter
<1>3. PICK l : l = Len(pods) /\ l \in Nat
  OBVIOUS
<1>4. PICK D : D = 0..l /\ IsFiniteSet(D) /\ (\A x \in D : x \in Int) /\ 0 \in D
  <2>1. PICK D : D = 0..l
    OBVIOUS
  <2>2. IsFiniteSet(D) /\ (\A x \in D : x \in Int) /\ 0 \in D
    BY <1>3, <2>1, FS_Interval
  <2> QED
    BY <2>1, <2>2
<1>5. Max(D) \in D
  BY <1>4, MaxOf
<1>6. DOMAIN row = D
  BY <1>2, <1>3, <1>4 DEF Rows
<1>7. PICK B : B = {0} \cup {j \in D : row[j].value >= 0}
  OBVIOUS
<1>8. Max(B) \in D
  <2>1. B \subseteq D /\ B # {} /\ \A x \in B : x \in Int
    BY <1>4, <1>7
  <2>2. IsFiniteSet(B)
    BY <1>4, <2>1, FS_Subset
  <2> QED
    BY <2>1, <2>2, MaxOf
<1>9. FitInEdge(pods, rem) = [value |-> row[Max(D)].value, mapping |-> row[Max(B)].mapping]
  BY <1>1, <1>6, <1>7 DEF FitInEdge, ReadOff
<1>10. \A j \in D : row[j].value \in Int /\ row[j].mapping \in MapsOf(ToSet(pods))
  BY <1>2, <1>3, <1>4 DEF Rows, Cells
<1> QED
  BY <1>2, <1>3, <1>4, <1>5, <1>8, <1>9, <1>10

-----------------------------------------------------------------------------
(* MapPodToEdge and CalcMigrations: the mappings among all orders.         *)

(* What is left on the nodes, with no node charged beyond its resources.   *)
LEMMA RemainingType ==
  ASSUME NEW c \in ClusterStates
  PROVE  /\ RemainingOf(c) \in Remainders
         /\ WithinResources(c) => NoDebts(RemainingOf(c))
<1>1. \A n \in EdgeNode, r \in Resource : /\ Resources[n][r] \in Int /\ c.nodeUsed[n][r] \in Int
                                          /\ RemainingOf(c)[n][r] = Resources[n][r] - c.nodeUsed[n][r]
  BY ResourcesAreVectors DEF ClusterStates, RemainingOf, Remaining
<1>2. RemainingOf(c) \in Remainders
  <2>1. \A n \in EdgeNode, r \in Resource : Remaining(c, n, r) \in Int
    BY <1>1 DEF Remaining
  <2> QED
    BY <2>1 DEF RemainingOf, Remainders
<1>3. ASSUME WithinResources(c), NEW n \in EdgeNode, NEW r \in Resource
      PROVE  RemainingOf(c)[n][r] >= 0
  <2>1. c.nodeUsed[n][r] <= Resources[n][r]
    BY <1>3 DEF WithinResources
  <2> QED
    BY <1>1, <2>1
<1> QED
  BY <1>2, <1>3 DEF NoDebts

(* The pods of S whose node is n.                                          *)
AtNode(c, S, n) == {p \in S : NodeOf(c, p) = n}

(* Pods that leave give back what they need.                               *)
LEMMA GivenBackType ==
  ASSUME NEW c, NEW rem \in Remainders, NEW S \in SUBSET Pod
  PROVE  /\ GivenBack(rem, c, S) \in Remainders
         /\ \A n \in EdgeNode, r \in Resource :
              GivenBack(rem, c, S)[n][r] = rem[n][r] + TotalSize(AtNode(c, S, n))[r]
         /\ NoDebts(rem) => NoDebts(GivenBack(rem, c, S))
<1>1. ASSUME NEW n \in EdgeNode, NEW r \in Resource
      PROVE  TotalSize(AtNode(c, S, n))[r] \in Nat /\ rem[n][r] \in Int
  <2>1. PICK T : T = AtNode(c, S, n) /\ T \in SUBSET Pod
    BY DEF AtNode
  <2>2. TotalSize(T) \in [Resource -> Nat]
    BY <2>1, TotalType
  <2> QED
    BY <2>1, <2>2 DEF Remainders
<1>2. GivenBack(rem, c, S) = [n \in EdgeNode |-> [r \in Resource |-> rem[n][r] + TotalSize(AtNode(c, S, n))[r]]]
  BY DEF GivenBack, AtNode
<1>3. \A n \in EdgeNode, r \in Resource : rem[n][r] + TotalSize(AtNode(c, S, n))[r] \in Int
  BY <1>1
<1>4. \A n \in EdgeNode, r \in Resource : GivenBack(rem, c, S)[n][r] = rem[n][r] + TotalSize(AtNode(c, S, n))[r]
  BY <1>2
<1>5. GivenBack(rem, c, S) \in Remainders
  BY <1>2, <1>3 DEF Remainders
<1>6. NoDebts(rem) => NoDebts(GivenBack(rem, c, S))
  BY <1>1, <1>4 DEF NoDebts
<1> QED
  BY <1>4, <1>5, <1>6

(* If no pod moves, what remains is what remains.                          *)
LEMMA NothingMoved ==
  ASSUME NEW c \in ClusterStates
  PROVE  RemainingAfterMoves(c, {}, <<>>) = RemainingOf(c)
<1>1. PICK rem : rem = RemainingAfterMoves(c, {}, <<>>)
  OBVIOUS
<1>2. RemainingOf(c) \in Remainders
  BY RemainingType
<1>3. rem = RemainingOf(c)
  <2>1. PICK e, old, back : e = {} /\ old = RemainingOf(c) /\ back = GivenBack(old, c, e)
    OBVIOUS
  <2>2. DOMAIN <<>> = {} /\ {} \cup DOMAIN <<>> = e
    BY <2>1
  <2>3. \A n \in EdgeNode : AtNode(c, e, n) = e /\ Sent(<<>>, n) = e
    BY <2>1, <2>2 DEF AtNode, Sent
  <2>4. \A r \in Resource : TotalSize(e)[r] = 0
    BY <2>1, TotalEmpty
  <2>5. \A n \in EdgeNode, r \in Resource : back[n][r] = old[n][r] + 0 /\ old[n][r] \in Int
    <3>1. e \in SUBSET Pod /\ old \in Remainders
      BY <1>2, <2>1
    <3>2. \A n \in EdgeNode, r \in Resource : back[n][r] = old[n][r] + TotalSize(AtNode(c, e, n))[r]
      BY <2>1, <3>1, GivenBackType
    <3> QED
      BY <2>3, <2>4, <3>1, <3>2 DEF Remainders
  <2>6. rem = [n \in EdgeNode |-> [r \in Resource |-> back[n][r] - TotalSize(Sent(<<>>, n))[r]]]
    BY <1>1, <2>1, <2>2 DEF RemainingAfterMoves, Sent
  <2>7. \A n \in EdgeNode, r \in Resource : back[n][r] - TotalSize(Sent(<<>>, n))[r] = old[n][r]
    BY <2>3, <2>4, <2>5
  <2>8. old = [n \in EdgeNode |-> [r \in Resource |-> old[n][r]]]
    BY <1>2, <2>1 DEF Remainders
  <2> QED
    BY <2>1, <2>6, <2>7, <2>8
<1> QED
  BY <1>1, <1>3

(* A mapping of new pods has room on the nodes as they are.                *)
LEMMA MapPodToEdgeFits ==
  ASSUME NEW c \in ClusterStates, WithinResources(c), NEW S \in SUBSET Pod,
         NEW f \in MapPodToEdge(c, S, {}, <<>>)
  PROVE  f \in MapsOf(S) /\ HasRoomFor(RemainingOf(c), f)
<1>1. PICK rem : rem = RemainingAfterMoves(c, {}, <<>>)
  OBVIOUS
<1>2. RemainingOf(c) \in Remainders /\ NoDebts(RemainingOf(c))
  BY RemainingType
<1>3. rem = RemainingOf(c)
  BY <1>1, NothingMoved
<1>4. f = <<>> \/ \E q \in Orders(S) : f = FitInEdge(q, rem).mapping
  BY <1>1 DEF MapPodToEdge, OrElse, BestFits, HighestValue, MostMapped
<1>5. CASE f = <<>>
  BY <1>2, <1>5, NothingMapped
<1>6. ASSUME NEW q \in Orders(S), f = FitInEdge(q, rem).mapping
      PROVE  f \in MapsOf(S) /\ HasRoomFor(RemainingOf(c), f)
  <2>1. q \in Seq(Pod) /\ ToSet(q) \subseteq S
    BY OrdersType
  <2>2. f \in MapsOf(ToSet(q)) /\ HasRoomFor(rem, f)
    BY <1>2, <1>3, <1>6, <2>1, FitInEdgeFits
  <2> QED
    BY <1>3, <2>1, <2>2, MapsAre
<1> QED
  BY <1>4, <1>5, <1>6

(* Migrations have room once the freed and the migrating pods have left.   *)
LEMMA CalcMigrationsFit ==
  ASSUME NEW c \in ClusterStates, WithinResources(c), NEW F \in SUBSET Pod, NEW m \in CalcMigrations(c, F)
  PROVE  /\ DOMAIN m \subseteq EdgePods(c) \ F /\ m \in [DOMAIN m -> EdgeNode]
         /\ m = <<>> \/ HasRoomFor(GivenBack(GivenBack(RemainingOf(c), c, F), c, DOMAIN m), m)
<1>1. PICK rem : rem = GivenBack(RemainingOf(c), c, F)
  OBVIOUS
<1>2. rem \in Remainders /\ NoDebts(rem)
  BY <1>1, RemainingType, GivenBackType
<1>3. m = <<>> \/ \E S \in GetPossiblePodChoices(c, F) : \E q \in Orders(S) :
                    DOMAIN m = S /\ m = FitInEdge(q, GivenBack(rem, c, S)).mapping
  BY <1>1 DEF CalcMigrations, OrElse, HighestValue
<1>4. CASE m = <<>>
  <2>1. DOMAIN <<>> = {} /\ <<>> \in [{} -> EdgeNode]
    OBVIOUS
  <2> QED
    BY <1>4, <2>1
<1>5. ASSUME NEW S \in GetPossiblePodChoices(c, F), NEW q \in Orders(S),
             DOMAIN m = S, m = FitInEdge(q, GivenBack(rem, c, S)).mapping
      PROVE  /\ DOMAIN m \subseteq EdgePods(c) \ F /\ m \in [DOMAIN m -> EdgeNode]
             /\ HasRoomFor(GivenBack(rem, c, S), m)
  <2>1. S \subseteq EdgePods(c) \ F /\ S \in SUBSET Pod
    BY DEF GetPossiblePodChoices, EdgePods
  <2>2. q \in Seq(Pod) /\ ToSet(q) \subseteq S
    BY <2>1, OrdersType
  <2>3. GivenBack(rem, c, S) \in Remainders /\ NoDebts(GivenBack(rem, c, S))
    BY <1>2, <2>1, GivenBackType
  <2>4. m \in MapsOf(ToSet(q)) /\ HasRoomFor(GivenBack(rem, c, S), m)
    BY <1>5, <2>2, <2>3, FitInEdgeFits
  <2> QED
    BY <1>5, <2>1, <2>4, MapsAre
<1> QED
  BY <1>1, <1>3, <1>4, <1>5

-----------------------------------------------------------------------------
(* The table of FitInEdge is optimal: after the nodes with the indices in  *)
(* s, a cell has the best of the ways to cut its pods into parts for these *)
(* nodes, in their order.                                                  *)

(* Remaining resources of nodes of which no more is left than they have.   *)
Bounded(rem) == \A n \in EdgeNode, r \in Resource : 0 <= rem[n][r] /\ rem[n][r] <= Resources[n][r]

Index(n) == CHOOSE i \in DOMAIN Nodes : Nodes[i] = n

NodesOf(s) == {Nodes[i] : i \in s}

(* The ways to cut the first j pods into parts for the nodes of s.         *)
Partitions(pods, rem, s, j) ==
    {f \in [Segment(pods, 0, j) -> NodesOf(s)] :
        /\ \A i, l \in 1..j : i <= l => Index(f[pods[i]]) <= Index(f[pods[l]])
        /\ HasRoomFor(rem, f)}

(* What the use of the node with index i is worth if it is given S.        *)
Use(rem, n, S) == CalcDeFragmentation(Filled(rem, n, TotalSize(S)), Resources[n])

Uses(rem, f) == [i \in 1..Len(Nodes) |-> Use(rem, Nodes[i], Sent(f, Nodes[i]))]

Worth(rem, s, f) == SumFunctionOnSet(Uses(rem, f), s)

(* Every node has its index.                                               *)
LEMMA IndexIs ==
  /\ \A i \in 1..Len(Nodes) : Index(Nodes[i]) = i
  /\ \A n \in EdgeNode : Index(n) \in 1..Len(Nodes) /\ Nodes[Index(n)] = n
<1>1. /\ Len(Nodes) \in Nat /\ DOMAIN Nodes = 1..Len(Nodes) /\ Nodes \in [1..Len(Nodes) -> EdgeNode]
      /\ \A i, j \in 1..Len(Nodes) : i # j => Nodes[i] # Nodes[j]
  BY NodesAre
<1>2. ASSUME NEW i \in 1..Len(Nodes)
      PROVE  Index(Nodes[i]) = i
  BY <1>1 DEF Index
<1>3. Nodes \in Surjection(1..Len(Nodes), EdgeNode)
  <2>1. PICK k : k = Len(Nodes) /\ k \in Nat
    BY <1>1
  <2>2. Nodes \in Injection(1..k, EdgeNode)
    BY <1>1, <2>1 DEF Injection, IsInjective
  <2>3. IsFiniteSet(EdgeNode) /\ IsFiniteSet(1..k) /\ Cardinality(1..k) = k
    BY NodesAreListed, <2>1, CountUpTo
  <2>4. Cardinality(EdgeNode) = k
    <3>1. PICK c : c = Cardinality(EdgeNode) /\ c \in Nat
      BY <2>3, FS_CardinalityType
    <3>2. DOMAIN Nodes = 1..c
      BY NodesAreListed, <3>1 DEF SetToSeqs
    <3>3. Len(Nodes) = c
      <4>1. Nodes \in [1..c -> EdgeNode]
        BY NodesAreListed, <3>1 DEF SetToSeqs
      <4> QED
        BY ONLY <3>1, <4>1
    <3> QED
      BY <2>1, <3>1, <3>3
  <2> QED
    BY <2>1, <2>2, <2>3, <2>4, FS_Injection
<1>4. ASSUME NEW n \in EdgeNode
      PROVE  Index(n) \in 1..Len(Nodes) /\ Nodes[Index(n)] = n
  <2>1. PICK i \in 1..Len(Nodes) : Nodes[i] = n
    BY <1>3 DEF Surjection
  <2> QED
    BY <1>2, <2>1
<1> QED
  BY <1>2, <1>4

(* All the nodes.                                                          *)
LEMMA AllNodes == NodesOf(1..Len(Nodes)) = EdgeNode
<1>1. \A n \in EdgeNode : n \in NodesOf(1..Len(Nodes))
  BY IndexIs DEF NodesOf
<1>2. NodesOf(1..Len(Nodes)) \subseteq EdgeNode
  BY NodesAre DEF NodesOf
<1> QED
  BY <1>1, <1>2

(* The use of a node is worth something.                                   *)
LEMMA UseType ==
  ASSUME NEW rem \in Remainders, Bounded(rem), NEW n \in EdgeNode, NEW S \in SUBSET Pod
  PROVE  Use(rem, n, S) \in Nat
<1>1. PICK v, whole : v = Filled(rem, n, TotalSize(S)) /\ whole = Resources[n]
  OBVIOUS
<1>2. whole \in [Resource -> Nat] /\ Volume(whole) > 0
  BY <1>1, ResourcesAreVectors, NodesHaveResources
<1>3. v \in [Resource -> Nat]
  <2>1. PICK b, t : b = rem[n] /\ t = TotalSize(S)
    OBVIOUS
  <2>2. b \in [Resource -> Int] /\ t \in [Resource -> Nat]
    BY <2>1, TotalType DEF Remainders
  <2>3. v = [r \in Resource |-> whole[r] - (b[r] - t[r])]
    BY <1>1, <2>1 DEF Filled
  <2>4. \A r \in Resource : b[r] <= whole[r]
    BY <1>1, <2>1 DEF Bounded
  <2>5. \A r \in Resource : whole[r] - (b[r] - t[r]) \in Nat
    BY ONLY <1>2, <2>2, <2>4
  <2> QED
    BY ONLY <2>3, <2>5
<1>4. PICK a, b, u : a = Volume(v) /\ b = Volume(whole) /\ u = Unit \div b
  OBVIOUS
<1>5. a \in Nat /\ b \in Nat /\ b > 0
  BY <1>2, <1>3, <1>4, VolumeNat
<1>6. Unit \in Nat
  BY UnitIsCommon
<1>7. u \in Nat /\ Unit \div 10 \in Nat
  BY ONLY <1>4, <1>5, <1>6
<1>8. a * u \in Nat
  BY ONLY <1>5, <1>7
<1>9. CalcDeFragmentation(v, whole) \in Nat
  BY <1>4, <1>7, <1>8 DEF CalcDeFragmentation
<1> QED
  BY <1>1, <1>9 DEF Use

(* So is that of all the nodes of s together.                              *)
LEMMA WorthType ==
  ASSUME NEW rem \in Remainders, Bounded(rem), NEW f, DOMAIN f \subseteq Pod
  PROVE  /\ \A i \in 1..Len(Nodes) : Uses(rem, f)[i] \in Nat
         /\ \A s \in SUBSET (1..Len(Nodes)) : IsFiniteSet(s) /\ Worth(rem, s, f) \in Nat
<1>1. ASSUME NEW i \in 1..Len(Nodes)
      PROVE  Uses(rem, f)[i] \in Nat
  <2>1. PICK n, S : n = Nodes[i] /\ S = Sent(f, n)
    OBVIOUS
  <2>2. n \in EdgeNode /\ S \in SUBSET Pod
    BY <2>1, NodesAre DEF Sent
  <2>3. Use(rem, n, S) \in Nat
    BY <2>2, UseType
  <2> QED
    BY <2>1, <2>3 DEF Uses
<1>2. ASSUME NEW s \in SUBSET (1..Len(Nodes))
      PROVE  IsFiniteSet(s) /\ Worth(rem, s, f) \in Nat
  <2>1. IsFiniteSet(s)
    BY NodesAre, CountUpTo, FS_Subset
  <2>2. PICK u : u = Uses(rem, f) /\ \A i \in s : u[i] \in Nat
    BY <1>1
  <2>3. SumFunctionOnSet(u, s) \in Nat
    BY <2>1, <2>2, SumNat
  <2> QED
    BY <2>1, <2>2, <2>3 DEF Worth
<1> QED
  BY <1>1, <1>2

(* One node more, whatever it is given.                                    *)
LEMMA WorthAdd ==
  ASSUME NEW rem \in Remainders, Bounded(rem), NEW s \in SUBSET (1..Len(Nodes)), NEW x \in s,
         NEW f, DOMAIN f \subseteq Pod, NEW m, DOMAIN m \subseteq Pod,
         \A i \in s \ {x} : Sent(f, Nodes[i]) = Sent(m, Nodes[i])
  PROVE  Worth(rem, s, f) = Worth(rem, s \ {x}, m) + Use(rem, Nodes[x], Sent(f, Nodes[x]))
<1>1. PICK t : t = s \ {x} /\ t \in SUBSET (1..Len(Nodes))
  OBVIOUS
<1>2. PICK u, v : u = Uses(rem, f) /\ v = Uses(rem, m)
  OBVIOUS
<1>3. \A i \in 1..Len(Nodes) : u[i] \in Nat /\ v[i] \in Nat
  BY <1>2, WorthType
<1>4. IsFiniteSet(s) /\ IsFiniteSet(t)
  BY <1>1, WorthType
<1>5. SumFunctionOnSet(u, s) = u[x] + SumFunctionOnSet(u, t)
  <2>1. \A i \in s : u[i] \in Int
    BY <1>3
  <2>2. \A S, a : IsFiniteSet(S) /\ (\A i \in S : u[i] \in Int) /\ a \in S
                   => SumFunctionOnSet(u, S) = u[a] + SumFunctionOnSet(u, S \ {a})
    BY ONLY SumRemove
  <2>3. SumFunctionOnSet(u, s) = u[x] + SumFunctionOnSet(u, s \ {x})
    BY ONLY <1>4, <2>1, <2>2, x \in s, Zenon
  <2> QED
    BY <1>1, <2>3
<1>6. \A i \in t : v[i] \in Int /\ u[i] = v[i]
  <2>1. ASSUME NEW i \in t
        PROVE  u[i] = v[i]
    BY <1>1, <1>2, <2>1 DEF Uses
  <2> QED
    BY <1>1, <1>3, <2>1
<1>7. SumFunctionOnSet(u, t) = SumFunctionOnSet(v, t)
  BY <1>4, <1>6, SumCongruence
<1>8. u[x] = Use(rem, Nodes[x], Sent(f, Nodes[x]))
  BY <1>2 DEF Uses
<1>9. SumFunctionOnSet(v, t) \in Nat /\ u[x] \in Nat
  BY <1>1, <1>2, <1>3, WorthType DEF Worth
<1>10. PICK a, b, d : a = SumFunctionOnSet(u, s) /\ b = u[x] /\ d = SumFunctionOnSet(v, t)
  OBVIOUS
<1>11. a = d + b
  BY <1>5, <1>7, <1>9, <1>10
<1> QED
  BY <1>1, <1>2, <1>8, <1>10, <1>11 DEF Worth

(* The first pods, and the segments that follow them.                      *)
LEMMA SegmentsAre ==
  ASSUME NEW pods \in Seq(Pod), IsInjective(pods), NEW j \in 0..Len(pods), NEW k \in 0..j
  PROVE  /\ Segment(pods, 0, k) \cup Segment(pods, k, j) = Segment(pods, 0, j)
         /\ Segment(pods, 0, k) \cap Segment(pods, k, j) = {}
         /\ Segment(pods, 0, j) \subseteq Pod /\ Segment(pods, k, j) \subseteq Pod
         /\ Segment(pods, 0, j) \subseteq ToSet(pods) /\ Segment(pods, k, j) \subseteq ToSet(pods)
         /\ \A i \in 1..j : /\ pods[i] \in Pod /\ pods[i] \in Segment(pods, 0, j)
                            /\ i <= k <=> pods[i] \in Segment(pods, 0, k)
                            /\ k < i <=> pods[i] \in Segment(pods, k, j)
<1>1. PICK L : L = Len(pods) /\ L \in Nat /\ DOMAIN pods = 1..L /\ \A i \in 1..L : pods[i] \in Pod
  OBVIOUS
<1>2. j \in 0..L /\ k \in 0..L /\ k <= j
  BY ONLY <1>1, j \in 0..Len(pods), k \in 0..j
<1>3. \A i, l \in 1..L : pods[i] = pods[l] => i = l
  BY <1>1 DEF IsInjective
<1>4. \A y, a, b : y \in Segment(pods, a, b) <=> \E i \in (a + 1)..b : y = pods[i]
  BY DEF Segment
<1>5. (0 + 1)..k = 1..k /\ (0 + 1)..j = 1..j
  BY ONLY <1>2
<1>6. \A y : y \in Segment(pods, 0, k) <=> \E i \in 1..k : y = pods[i]
  BY <1>4, <1>5
<1>7. \A y : y \in Segment(pods, 0, j) <=> \E i \in 1..j : y = pods[i]
  BY <1>4, <1>5
<1>8. \A y : y \in Segment(pods, k, j) <=> \E i \in (k + 1)..j : y = pods[i]
  BY <1>4
<1>9. \A i \in 1..j : i \in 1..L /\ (i \in 1..k <=> i <= k) /\ (i \in (k + 1)..j <=> k < i)
  BY ONLY <1>1, <1>2
<1>10. (\A i \in 1..k : i \in 1..j) /\ (\A i \in (k + 1)..j : i \in 1..j)
  BY ONLY <1>2
<1>11. PICK A, B, C : A = Segment(pods, 0, k) /\ B = Segment(pods, k, j) /\ C = Segment(pods, 0, j)
  OBVIOUS
<1>12. A \cup B = C
  <2>1. \A y : y \in A \/ y \in B <=> y \in C
    BY <1>6, <1>7, <1>8, <1>9, <1>10, <1>11
  <2> QED
    BY ONLY <2>1
<1>13. A \cap B = {}
  <2>1. ASSUME NEW y, y \in A, y \in B PROVE FALSE
    <3>1. PICK i \in 1..k : y = pods[i]
      BY <1>6, <1>11, <2>1
    <3>2. PICK l \in (k + 1)..j : y = pods[l]
      BY <1>8, <1>11, <2>1
    <3>3. i \in 1..L /\ l \in 1..L
      BY <1>9, <1>10
    <3>4. i = l
      BY <1>3, <3>1, <3>2, <3>3
    <3> QED
      BY ONLY <1>2, <3>4
  <2> QED
    BY ONLY <2>1
<1>14. C \subseteq Pod /\ B \subseteq Pod
  <2>1. C \subseteq Pod
    BY <1>1, <1>7, <1>9, <1>11
  <2> QED
    BY ONLY <1>12, <2>1
<1>15. C \subseteq ToSet(pods) /\ B \subseteq ToSet(pods)
  <2>1. C \subseteq ToSet(pods)
    BY <1>1, <1>7, <1>9, <1>11 DEF ToSet
  <2> QED
    BY ONLY <1>12, <2>1
<1>16. ASSUME NEW i \in 1..j
       PROVE  /\ pods[i] \in Pod /\ pods[i] \in C
              /\ i <= k <=> pods[i] \in A
              /\ k < i <=> pods[i] \in B
  <2>1. pods[i] \in Pod /\ pods[i] \in C
    BY <1>1, <1>7, <1>9, <1>11
  <2>2. i <= k => pods[i] \in A
    BY <1>6, <1>9, <1>11
  <2>3. k < i => pods[i] \in B
    BY <1>8, <1>9, <1>11
  <2>4. i <= k \/ k < i
    BY ONLY <1>2
  <2> QED
    BY ONLY <1>13, <2>1, <2>2, <2>3, <2>4, <1>2
<1> QED
  BY ONLY <1>11, <1>12, <1>13, <1>14, <1>15, <1>16

(* All the pods are those of the segment from the start to the end, none   *)
(* those before the start.                                                 *)
LEMMA SegmentEnds ==
  ASSUME NEW pods \in Seq(Pod)
  PROVE  Segment(pods, 0, 0) = {} /\ Segment(pods, 0, Len(pods)) = ToSet(pods)
<1>1. PICK L : L = Len(pods) /\ L \in Nat /\ DOMAIN pods = 1..L
  OBVIOUS
<1>2. (0 + 1)..0 = {} /\ (0 + 1)..L = 1..L
  BY ONLY <1>1
<1> QED
  BY <1>1, <1>2 DEF Segment, ToSet

(* What is given to a node fits what remains of it, and no one else's part *)
(* is touched: the parts before it, and the part of the node.              *)
LEMMA PartsExtend ==
  ASSUME NEW pods \in Seq(Pod), IsInjective(pods), NEW rem \in Remainders, Bounded(rem),
         NEW s \in SUBSET (1..Len(Nodes)), NEW x \in s, \A i \in s : i <= x,
         NEW j \in 0..Len(pods), NEW k \in 0..j, NEW m \in Partitions(pods, rem, s \ {x}, k),
         LEThan(TotalSize(Segment(pods, k, j)), rem[Nodes[x]]),
         NEW f, f = Extension(m, Segment(pods, k, j), Nodes[x])
  PROVE  /\ f \in Partitions(pods, rem, s, j)
         /\ Worth(rem, s, f) = Worth(rem, s \ {x}, m) + Use(rem, Nodes[x], Segment(pods, k, j))
<1>1. PICK A, B, C : A = Segment(pods, 0, k) /\ B = Segment(pods, k, j) /\ C = Segment(pods, 0, j)
  OBVIOUS
<1>2. A \cup B = C /\ A \cap B = {} /\ C \subseteq Pod /\ A \subseteq Pod /\ B \subseteq Pod
  <2>1. A \cup B = C /\ A \cap B = {} /\ C \subseteq Pod /\ B \subseteq Pod
    BY <1>1, SegmentsAre
  <2> QED
    BY ONLY <2>1
<1>3. \A i \in 1..j : pods[i] \in C /\ (i <= k <=> pods[i] \in A) /\ (k < i <=> pods[i] \in B)
  BY <1>1, SegmentsAre
<1>4. PICK n : n = Nodes[x] /\ n \in EdgeNode /\ x \in 1..Len(Nodes)
  BY NodesAre
<1>5. \A i \in s : Nodes[i] \in EdgeNode /\ Index(Nodes[i]) = i /\ (i # x => Nodes[i] # n)
  BY <1>4, NodesAre, IndexIs
<1>6. /\ m \in [A -> NodesOf(s \ {x})] /\ HasRoomFor(rem, m)
      /\ \A i, l \in 1..k : i <= l => Index(m[pods[i]]) <= Index(m[pods[l]])
  BY <1>1 DEF Partitions
<1>7. \A p \in A : \E i \in s \ {x} : m[p] = Nodes[i]
  BY <1>6 DEF NodesOf
<1>8. DOMAIN m = A /\ m \in [A -> EdgeNode] /\ Sent(m, n) = {}
  <2>1. DOMAIN m = A /\ \A p \in A : m[p] \in EdgeNode /\ m[p] # n
    BY <1>5, <1>6, <1>7
  <2>2. m \in [A -> EdgeNode]
    BY <1>6, <2>1
  <2> QED
    BY <2>1, <2>2 DEF Sent
<1>9. /\ DOMAIN f = C
      /\ \A p \in A : f[p] = m[p]
      /\ \A p \in B : f[p] = n
  BY <1>1, <1>2, <1>4, <1>8 DEF Extension
<1>10. f \in [C -> NodesOf(s)]
  <2>1. \A p \in C : f[p] \in NodesOf(s)
    <3>1. \A p \in B : f[p] \in NodesOf(s)
      BY <1>4, <1>9 DEF NodesOf
    <3>2. \A p \in A : f[p] \in NodesOf(s)
      BY <1>7, <1>9 DEF NodesOf
    <3> QED
      BY <1>2, <3>1, <3>2
  <2>2. f = [p \in DOMAIN f |-> f[p]]
    BY DEF Extension
  <2> QED
    BY <1>9, <2>1, <2>2
<1>11. HasRoomFor(rem, f) /\ \A y \in EdgeNode : y # n => Sent(f, y) = Sent(m, y)
  <2>1. m \in MapsOf(C) /\ C \in SUBSET Pod /\ B \in SUBSET C
    BY <1>2, <1>8, MapsAre
  <2>2. LEThan(TotalSize(B), rem[n])
    BY <1>1, <1>4
  <2>3. f = Extension(m, B, n)
    BY <1>1, <1>4
  <2> QED
    BY <1>4, <1>6, <1>8, <2>1, <2>2, <2>3, ExtendedFits
<1>12. ASSUME NEW i \in 1..j, NEW l \in 1..j, i <= l
       PROVE  Index(f[pods[i]]) <= Index(f[pods[l]])
  <2>1. CASE l <= k
    <3>1. i \in 1..k /\ l \in 1..k
      BY ONLY <1>12, <2>1, j \in 0..Len(pods), k \in 0..j, pods \in Seq(Pod)
    <3>2. f[pods[i]] = m[pods[i]] /\ f[pods[l]] = m[pods[l]]
      BY <1>3, <1>9, <1>12, <2>1, <3>1
    <3> QED
      BY <1>6, <1>12, <3>1, <3>2
  <2>2. CASE k < l
    <3>1. f[pods[l]] = n
      BY <1>3, <1>9, <2>2
    <3>2. PICK a \in s : f[pods[i]] = Nodes[a]
      BY <1>3, <1>10 DEF NodesOf
    <3> QED
      BY <1>4, <1>5, <3>1, <3>2
  <2>3. l <= k \/ k < l
    BY ONLY j \in 0..Len(pods), k \in 0..j, l \in 1..j, pods \in Seq(Pod)
  <2> QED
    BY ONLY <2>1, <2>2, <2>3
<1>13. f \in Partitions(pods, rem, s, j)
  BY <1>1, <1>10, <1>11, <1>12 DEF Partitions
<1>14. Sent(f, n) = B
  <2>1. \A p \in A : f[p] # n
    BY <1>8, <1>9 DEF Sent
  <2> QED
    BY <1>2, <1>9, <2>1 DEF Sent
<1>15. \A i \in s \ {x} : Sent(f, Nodes[i]) = Sent(m, Nodes[i])
  BY <1>5, <1>11
<1>16. Worth(rem, s, f) = Worth(rem, s \ {x}, m) + Use(rem, n, B)
  <2>1. DOMAIN f \subseteq Pod /\ DOMAIN m \subseteq Pod
    BY <1>2, <1>8, <1>9
  <2> QED
    BY <1>4, <1>14, <1>15, <2>1, WorthAdd
<1> QED
  BY <1>1, <1>4, <1>13, <1>16

(* Every way to cut the pods ends with a segment for the last of the nodes.*)
LEMMA PartsEnd ==
  ASSUME NEW pods \in Seq(Pod), IsInjective(pods), NEW rem \in Remainders, Bounded(rem),
         NEW s \in SUBSET (1..Len(Nodes)), NEW x \in s, \A i \in s : i <= x,
         NEW j \in 0..Len(pods), NEW f \in Partitions(pods, rem, s, j)
  PROVE  \E k \in 0..j : \E m \in Partitions(pods, rem, s \ {x}, k) :
            /\ LEThan(TotalSize(Segment(pods, k, j)), rem[Nodes[x]])
            /\ Worth(rem, s, f) = Worth(rem, s \ {x}, m) + Use(rem, Nodes[x], Segment(pods, k, j))
<1>1. PICK n : n = Nodes[x] /\ n \in EdgeNode /\ x \in 1..Len(Nodes)
  BY NodesAre
<1>2. \A i \in s : Nodes[i] \in EdgeNode /\ Index(Nodes[i]) = i /\ i \in Int /\ (i # x => Nodes[i] # n)
  BY <1>1, NodesAre, IndexIs
<1>3. PICK C : C = Segment(pods, 0, j)
  OBVIOUS
<1>4. /\ f \in [C -> NodesOf(s)] /\ HasRoomFor(rem, f)
      /\ \A i, l \in 1..j : i <= l => Index(f[pods[i]]) <= Index(f[pods[l]])
  BY <1>3 DEF Partitions
<1>5. j \in Nat
  BY ONLY j \in 0..Len(pods), pods \in Seq(Pod)
<1>6. PICK K : K = {0} \cup {i \in 1..j : f[pods[i]] # n}
  OBVIOUS
<1>7. PICK k : k \in K /\ \A i \in K : i <= k
  <2>1. IsFiniteSet(0..j)
    BY <1>5, FS_Interval
  <2>2. K \subseteq 0..j /\ (\A i \in K : i \in Int) /\ K # {}
    BY ONLY <1>5, <1>6
  <2>3. IsFiniteSet(K)
    BY <2>1, <2>2, FS_Subset
  <2> QED
    BY ONLY <2>2, <2>3, MaxOf
<1>8. k \in 0..j
  BY ONLY <1>5, <1>6, <1>7
<1>9. PICK A, B : A = Segment(pods, 0, k) /\ B = Segment(pods, k, j)
  OBVIOUS
<1>10. A \cup B = C /\ A \cap B = {} /\ C \subseteq Pod
  BY <1>3, <1>8, <1>9, SegmentsAre
<1>11. \A i \in 1..j : pods[i] \in C /\ (i <= k <=> pods[i] \in A) /\ (k < i <=> pods[i] \in B)
  BY <1>3, <1>8, <1>9, SegmentsAre
<1>12. \A p \in C : \E i \in 1..j : p = pods[i]
  <2>1. (0 + 1)..j = 1..j
    BY ONLY <1>5
  <2> QED
    BY <1>3, <2>1 DEF Segment
<1>13. \A p \in B : f[p] = n
  <2>1. ASSUME NEW p \in B PROVE f[p] = n
    <3>1. PICK i \in 1..j : p = pods[i]
      BY <1>10, <1>12, <2>1
    <3>2. k < i /\ i \in Int /\ k \in Int
      BY <1>5, <1>8, <1>11, <2>1, <3>1
    <3>3. i \notin K
      BY <1>7, <3>2
    <3> QED
      BY <1>6, <3>1, <3>3
  <2> QED
    BY <2>1
<1>14. \A p \in A : f[p] \in NodesOf(s \ {x}) /\ f[p] # n
  <2>1. ASSUME NEW p \in A PROVE f[p] \in NodesOf(s \ {x}) /\ f[p] # n
    <3>1. PICK i \in 1..j : p = pods[i]
      BY <1>10, <1>12, <2>1
    <3>2. i <= k /\ k \in 1..j
      <4>1. i <= k
        BY <1>11, <2>1, <3>1
      <4> QED
        BY ONLY <1>5, <1>8, <4>1, i \in 1..j
    <3>3. f[pods[k]] # n
      <4>1. k # 0
        BY ONLY <1>5, <3>2
      <4> QED
        BY ONLY <1>6, <1>7, <4>1
    <3>4. PICK a \in s : f[pods[k]] = Nodes[a]
      BY <1>4, <1>11, <3>2 DEF NodesOf
    <3>5. a # x /\ a <= x /\ Index(f[pods[k]]) = a
      BY <1>1, <1>2, <3>3, <3>4
    <3>6. PICK b \in s : f[p] = Nodes[b]
      BY <1>4, <1>10, <2>1 DEF NodesOf
    <3>7. Index(f[p]) = b /\ Index(f[pods[i]]) <= Index(f[pods[k]])
      BY <1>2, <1>4, <3>2, <3>6
    <3>8. b <= a /\ b \in Int /\ a \in Int /\ x \in Int
      BY <1>2, <3>1, <3>5, <3>7
    <3>9. b # x
      BY ONLY <3>5, <3>8
    <3>10. b \in s \ {x} /\ f[p] # n
      BY <1>2, <3>6, <3>9
    <3> QED
      BY <3>6, <3>10 DEF NodesOf
  <2> QED
    BY <2>1
<1>15. PICK m : m = [p \in A |-> f[p]]
  OBVIOUS
<1>16. DOMAIN m = A /\ m \in [A -> NodesOf(s \ {x})] /\ \A p \in A : m[p] = f[p]
  BY <1>14, <1>15
<1>17. DOMAIN f = C
  BY <1>4
<1>18. Sent(f, n) = B /\ \A y : y # n => Sent(f, y) = Sent(m, y)
  <2>1. Sent(f, n) = B
    BY <1>10, <1>13, <1>14, <1>17 DEF Sent
  <2>2. ASSUME NEW y, y # n
        PROVE  Sent(f, y) = Sent(m, y)
    BY <1>10, <1>13, <1>16, <1>17, <2>2 DEF Sent
  <2> QED
    BY <2>1, <2>2
<1>19. HasRoomFor(rem, m)
  <2>1. Sent(m, n) = {}
    BY <1>14, <1>16 DEF Sent
  <2>2. ASSUME NEW y \in EdgeNode, NEW r \in Resource
        PROVE  TotalSize(Sent(m, y))[r] <= rem[y][r]
    <3>1. CASE y # n
      BY <1>4, <1>18, <3>1 DEF HasRoomFor
    <3>2. CASE y = n
      <4>1. TotalSize(Sent(m, y))[r] = 0
        <5>1. PICK e : e = {} /\ e = Sent(m, y)
          BY <2>1, <3>2
        <5> QED
          BY <5>1, TotalEmpty
      <4> QED
        BY <4>1 DEF Bounded
    <3> QED
      BY <3>1, <3>2
  <2> QED
    BY <2>2 DEF HasRoomFor
<1>20. ASSUME NEW i \in 1..k, NEW l \in 1..k, i <= l
       PROVE  Index(m[pods[i]]) <= Index(m[pods[l]])
  <2>1. i \in 1..j /\ l \in 1..j /\ i <= k /\ l <= k
    BY ONLY <1>5, <1>8, i \in 1..k, l \in 1..k
  <2>2. m[pods[i]] = f[pods[i]] /\ m[pods[l]] = f[pods[l]]
    BY <1>11, <1>16, <2>1
  <2> QED
    BY <1>4, <1>20, <2>1, <2>2
<1>21. m \in Partitions(pods, rem, s \ {x}, k)
  BY <1>9, <1>16, <1>19, <1>20 DEF Partitions
<1>22. LEThan(TotalSize(B), rem[n])
  BY <1>1, <1>4, <1>18 DEF HasRoomFor, LEThan
<1>23. Worth(rem, s, f) = Worth(rem, s \ {x}, m) + Use(rem, n, B)
  <2>1. DOMAIN f \subseteq Pod /\ DOMAIN m \subseteq Pod
    BY <1>10, <1>16, <1>17
  <2>2. \A i \in s \ {x} : Sent(f, Nodes[i]) = Sent(m, Nodes[i])
    BY <1>2, <1>18
  <2> QED
    BY <1>1, <1>18, <2>1, <2>2, WorthAdd
<1> QED
  BY <1>1, <1>8, <1>9, <1>21, <1>22, <1>23

(* The best way to cut the first j pods into parts for the nodes of s.     *)
BestCell(pods, rem, s, j, cell) ==
    /\ cell.value >= -1
    /\ cell.value >= 0 => /\ cell.mapping \in Partitions(pods, rem, s, j)
                          /\ cell.value = Worth(rem, s, cell.mapping)
    /\ \A f \in Partitions(pods, rem, s, j) : Worth(rem, s, f) <= cell.value

OptimalAfter(pods, rem, s) ==
    {row \in Rows(pods) : \A j \in 0..Len(pods) : BestCell(pods, rem, s, j, row[j])}

(* Worths are natural numbers.                                             *)
LEMMA PartsWorth ==
  ASSUME NEW pods \in Seq(Pod), IsInjective(pods), NEW rem \in Remainders, Bounded(rem),
         NEW s \in SUBSET (1..Len(Nodes)), NEW j \in 0..Len(pods), NEW f \in Partitions(pods, rem, s, j)
  PROVE  DOMAIN f = Segment(pods, 0, j) /\ DOMAIN f \subseteq Pod /\ Worth(rem, s, f) \in Nat
<1>1. DOMAIN f = Segment(pods, 0, j)
  BY DEF Partitions
<1>2. j \in 0..j
  BY ONLY j \in 0..Len(pods), pods \in Seq(Pod)
<1>3. DOMAIN f \subseteq Pod
  BY <1>1, <1>2, SegmentsAre
<1> QED
  BY <1>1, <1>3, WorthType

(* One node more: the best cut is extended.                                *)
LEMMA CellIsBest ==
  ASSUME NEW pods \in Seq(Pod), IsInjective(pods), NEW rem \in Remainders, Bounded(rem),
         NEW s \in SUBSET (1..Len(Nodes)), NEW x \in s, \A i \in s : i <= x,
         NEW row \in OptimalAfter(pods, rem, s \ {x}), NEW j \in 0..Len(pods),
         NEW cell, cell = BestExtended(row, pods, Nodes[x], j, Totals(row, pods, Nodes[x], rem, j))
  PROVE  BestCell(pods, rem, s, j, cell)
<1>1. PICK n : n = Nodes[x] /\ n \in EdgeNode
  BY NodesAre
<1>2. row \in Rows(pods) /\ \A k \in 0..Len(pods) : BestCell(pods, rem, s \ {x}, k, row[k])
  BY DEF OptimalAfter
<1>3. PICK total : total = Totals(row, pods, n, rem, j)
  OBVIOUS
<1>4. /\ DOMAIN total \subseteq 0..j
      /\ \A k \in DOMAIN total : /\ total[k] \in Int
                                 /\ LEThan(TotalSize(Segment(pods, k, j)), rem[n])
      /\ total # <<>> => DOMAIN total # {}
  BY <1>1, <1>2, <1>3, TotalsType
<1>5. \A k \in 0..j : k \in DOMAIN total <=> row[k].value >= 0 /\ LEThan(TotalSize(Segment(pods, k, j)), rem[n])
  BY <1>3 DEF Totals, Cuts
<1>6. \A k \in DOMAIN total : total[k] = row[k].value + Use(rem, n, Segment(pods, k, j))
  BY <1>3 DEF Totals, Use
<1>7. j \in Nat /\ \A k \in 0..j : k \in 0..Len(pods) /\ k \in Nat
  BY ONLY j \in 0..Len(pods), pods \in Seq(Pod)
<1>8. \A k \in 0..j : Use(rem, n, Segment(pods, k, j)) \in Nat /\ row[k].value \in Int
  <2>1. \A k \in 0..j : Segment(pods, k, j) \in SUBSET Pod
    BY SegmentsAre
  <2>2. \A k \in 0..j : row[k].value \in Int
    BY <1>2, <1>7 DEF Rows, Cells
  <2> QED
    BY <1>1, <2>1, <2>2, UseType
<1>9. ASSUME NEW f \in Partitions(pods, rem, s, j)
      PROVE  \E k \in DOMAIN total : Worth(rem, s, f) <= total[k] /\ Worth(rem, s, f) \in Nat
  <2>0. PICK k \in 0..j : \E m \in Partitions(pods, rem, s \ {x}, k) :
            /\ LEThan(TotalSize(Segment(pods, k, j)), rem[n])
            /\ Worth(rem, s, f) = Worth(rem, s \ {x}, m) + Use(rem, n, Segment(pods, k, j))
    BY <1>1, PartsEnd
  <2>1. PICK m \in Partitions(pods, rem, s \ {x}, k) :
            /\ LEThan(TotalSize(Segment(pods, k, j)), rem[n])
            /\ Worth(rem, s, f) = Worth(rem, s \ {x}, m) + Use(rem, n, Segment(pods, k, j))
    BY <2>0
  <2>2. PICK w : w = Worth(rem, s \ {x}, m) /\ w \in Nat
    <3>1. s \ {x} \in SUBSET (1..Len(Nodes)) /\ k \in 0..Len(pods)
      BY <1>7
    <3> QED
      BY <3>1, PartsWorth
  <2>3. w <= row[k].value
    BY <1>2, <1>7, <2>1, <2>2 DEF BestCell
  <2>4. PICK v, u : v = row[k].value /\ u = Use(rem, n, Segment(pods, k, j)) /\ v \in Int /\ u \in Nat
    BY <1>8
  <2>5. v >= 0
    BY ONLY <2>2, <2>3, <2>4
  <2>6. k \in DOMAIN total
    BY <1>5, <2>1, <2>4, <2>5
  <2>7. total[k] = v + u
    BY <1>6, <2>4, <2>6
  <2>8. Worth(rem, s, f) = w + u
    BY <2>1, <2>2, <2>4
  <2>9. w + u <= v + u /\ w + u \in Nat
    BY ONLY <2>2, <2>3, <2>4
  <2> QED
    BY <2>6, <2>7, <2>8, <2>9
<1>10. CASE total = <<>>
  <2>1. cell.value = -1
    BY <1>1, <1>3, <1>10 DEF BestExtended, NoFit
  <2>2. DOMAIN total = {}
    BY <1>10
  <2> QED
    BY <1>9, <2>1, <2>2 DEF BestCell
<1>11. CASE total # <<>>
  <2>1. DOMAIN total # {}
    BY <1>4, <1>11
  <2>2. PICK k, best : /\ k = BestCut(total) /\ best = Max(Range(total)) /\ best \in Int
                       /\ k \in DOMAIN total /\ total[k] = best /\ \A l \in DOMAIN total : total[l] <= best
    BY <1>4, <1>7, <2>1, BestCutIs
  <2>3. PICK m : m = row[k].mapping
    OBVIOUS
  <2>4. k \in 0..j /\ row[k].value >= 0 /\ LEThan(TotalSize(Segment(pods, k, j)), rem[n])
    BY <1>4, <1>5, <2>2
  <2>5. m \in Partitions(pods, rem, s \ {x}, k) /\ row[k].value = Worth(rem, s \ {x}, m)
    BY <1>2, <1>7, <2>3, <2>4 DEF BestCell
  <2>6. PICK f : f = Extension(m, Segment(pods, k, j), n)
    OBVIOUS
  <2>7. /\ f \in Partitions(pods, rem, s, j)
        /\ Worth(rem, s, f) = Worth(rem, s \ {x}, m) + Use(rem, n, Segment(pods, k, j))
    BY <1>1, <2>4, <2>5, <2>6, PartsExtend
  <2>8. Worth(rem, s, f) = best
    BY <1>6, <2>2, <2>5, <2>7
  <2>9. cell = [value |-> best, mapping |-> f]
    BY <1>1, <1>3, <1>11, <2>2, <2>3, <2>6 DEF BestExtended, Extended, Extension
  <2>10. best >= 0
    <3>1. Worth(rem, s, f) \in Nat
      BY <2>7, PartsWorth
    <3> QED
      BY ONLY <2>8, <3>1
  <2>11. ASSUME NEW g \in Partitions(pods, rem, s, j)
         PROVE  Worth(rem, s, g) <= best
    <3>1. PICK l \in DOMAIN total : Worth(rem, s, g) <= total[l] /\ Worth(rem, s, g) \in Nat
      BY <1>9
    <3>2. total[l] \in Int /\ total[l] <= best
      BY <1>4, <2>2
    <3> QED
      BY ONLY <2>2, <3>1, <3>2
  <2>12. cell.value = best /\ cell.mapping = f
    BY <2>9
  <2> QED
    BY <2>2, <2>7, <2>8, <2>10, <2>11, <2>12 DEF BestCell
<1> QED
  BY <1>10, <1>11

(* Without nodes there is one way to cut no pods, and none to cut some.    *)
LEMMA FirstRowIsBest ==
  ASSUME NEW pods \in Seq(Pod), IsInjective(pods), NEW rem \in Remainders, Bounded(rem)
  PROVE  FirstRow(pods) \in OptimalAfter(pods, rem, {})
<1>1. PICK row : row = FirstRow(pods)
  OBVIOUS
<1>2. NoDebts(rem)
  BY DEF Bounded, NoDebts
<1>3. row \in Rows(pods)
  BY <1>1, <1>2, FirstRowType DEF RowsAfter
<1>4. \A j \in 0..Len(pods) : row[j] = IF j = 0 THEN [NoFit EXCEPT !.value = 0] ELSE NoFit
  BY <1>1 DEF FirstRow
<1>5. NodesOf({}) = {}
  BY DEF NodesOf
<1>6. \A f : Worth(rem, {}, f) = 0
  BY SumEmpty DEF Worth
<1>7. BestCell(pods, rem, {}, 0, row[0])
  <2>1. 0 \in 0..Len(pods)
    OBVIOUS
  <2>2. row[0].value = 0 /\ row[0].mapping = <<>>
    BY <1>4, <2>1 DEF NoFit
  <2>3. <<>> \in Partitions(pods, rem, {}, 0)
    <3>1. Segment(pods, 0, 0) = {}
      BY SegmentEnds
    <3>2. <<>> \in [{} -> NodesOf({})]
      OBVIOUS
    <3>3. HasRoomFor(rem, <<>>)
      BY <1>2, NothingMapped
    <3>4. 1..0 = {}
      OBVIOUS
    <3> QED
      BY <3>1, <3>2, <3>3, <3>4 DEF Partitions
  <2> QED
    BY <1>6, <2>2, <2>3 DEF BestCell
<1>8. ASSUME NEW j \in 0..Len(pods), j # 0
      PROVE  BestCell(pods, rem, {}, j, row[j])
  <2>1. row[j].value = -1
    BY <1>4, <1>8 DEF NoFit
  <2>2. Partitions(pods, rem, {}, j) = {}
    <3>1. SUFFICES ASSUME NEW f \in Partitions(pods, rem, {}, j) PROVE FALSE
      OBVIOUS
    <3>2. 1 \in 1..j /\ j \in 0..j
      BY ONLY <1>8, pods \in Seq(Pod)
    <3>3. pods[1] \in Segment(pods, 0, j)
      BY <3>2, SegmentsAre
    <3>4. f[pods[1]] \in NodesOf({})
      BY <3>3 DEF Partitions
    <3> QED
      BY <1>5, <3>4
  <2> QED
    BY <2>1, <2>2 DEF BestCell
<1>9. \A j \in 0..Len(pods) : BestCell(pods, rem, {}, j, row[j])
  BY <1>7, <1>8
<1> QED
  BY <1>1, <1>3, <1>9 DEF OptimalAfter

(* One row after the other.                                                *)
LEMMA NextRowIsBest ==
  ASSUME NEW pods \in Seq(Pod), IsInjective(pods), NEW rem \in Remainders, Bounded(rem),
         NEW s \in SUBSET (1..Len(Nodes)), NEW x \in s, \A i \in s : i <= x,
         NEW row \in OptimalAfter(pods, rem, s \ {x})
  PROVE  NextRow(row, pods, Nodes[x], rem) \in OptimalAfter(pods, rem, s)
<1>1. row \in Rows(pods) /\ DOMAIN row = 0..Len(pods) /\ x \in 1..Len(Nodes)
  BY DEF OptimalAfter, Rows
<1>2. PICK next : next = NextRow(row, pods, Nodes[x], rem) /\ next \in Rows(pods)
  BY <1>1, NextRowKeeps
<1>3. \A j \in 0..Len(pods) : next[j] = BestExtended(row, pods, Nodes[x], j, Totals(row, pods, Nodes[x], rem, j))
  BY <1>1, <1>2 DEF NextRow
<1>4. \A j \in 0..Len(pods) : BestCell(pods, rem, s, j, next[j])
  BY <1>3, CellIsBest
<1> QED
  BY <1>2, <1>4 DEF OptimalAfter

(* The last row has the best cuts into parts for all the nodes.            *)
LEMMA LastRowIsBest ==
  ASSUME NEW pods \in Seq(Pod), IsInjective(pods), NEW rem \in Remainders, Bounded(rem)
  PROVE  LastRow(pods, rem) \in OptimalAfter(pods, rem, 1..Len(Nodes))
<1>1. PICK n : n = Len(Nodes) /\ n \in Nat /\ DOMAIN Nodes = 1..n
  BY NodesAre
<1>2. PICK k : k = RowOf(pods, rem)
  OBVIOUS
<1>3. \A s \in SUBSET (1..n) :
        /\ s # {} => Max(s) \in s /\ \A i \in s : i <= Max(s)
        /\ k[s] = IF s = {} THEN FirstRow(pods) ELSE NextRow(k[s \ {Max(s)}], pods, Nodes[Max(s)], rem)
  <2>1. NoDebts(rem)
    BY DEF Bounded, NoDebts
  <2> QED
    BY <1>1, <1>2, <2>1, RowsSolve
<1> DEFINE W == [s \in SUBSET (1..n) |-> OptimalAfter(pods, rem, s)]
<1>4. k[{}] \in W[{}]
  <2>1. {} \in SUBSET (1..n)
    OBVIOUS
  <2>2. k[{}] = FirstRow(pods)
    BY <1>3, <2>1
  <2> QED
    BY <2>1, <2>2, FirstRowIsBest
<1>5. ASSUME NEW s \in SUBSET (1..n), s # {}, k[s \ {Max(s)}] \in W[s \ {Max(s)}]
      PROVE  k[s] \in W[s]
  <2>1. PICK x, row : x = Max(s) /\ row = k[s \ {x}]
    OBVIOUS
  <2>2. x \in s /\ (\A i \in s : i <= x) /\ row \in OptimalAfter(pods, rem, s \ {x})
    BY <1>3, <1>5, <2>1
  <2>3. k[s] = NextRow(row, pods, Nodes[x], rem)
    BY <1>3, <1>5, <2>1
  <2>4. NextRow(row, pods, Nodes[x], rem) \in OptimalAfter(pods, rem, s)
    BY <1>1, <2>2, NextRowIsBest
  <2> QED
    BY <2>3, <2>4
<1>6. \A s \in SUBSET (1..n) : k[s] \in W[s]
  <2> HIDE DEF W
  <2> QED
    BY <1>1, <1>4, <1>5, SeqInduction
<1>7. k[1..n] \in OptimalAfter(pods, rem, 1..n)
  BY <1>6
<1> QED
  BY <1>1, <1>2, <1>7, LastRowIs

AllParts(pods, rem, j) == Partitions(pods, rem, 1..Len(Nodes), j)

AllWorth(rem, f) == Worth(rem, 1..Len(Nodes), f)

(* FitInEdge: its value is the best of the ways to cut all the pods, and   *)
(* its mapping a way to cut the longest beginning that can be cut at all.  *)
THEOREM FitInEdgeIsOptimal ==
  ASSUME NEW pods \in Seq(Pod), IsInjective(pods), NEW rem \in Remainders, Bounded(rem)
  PROVE  /\ BestCell(pods, rem, 1..Len(Nodes), Len(pods),
                     [value |-> FitInEdge(pods, rem).value,
                      mapping |-> LastRow(pods, rem)[Len(pods)].mapping])
         /\ \E J \in 0..Len(pods) :
              /\ FitInEdge(pods, rem).mapping \in AllParts(pods, rem, J)
              /\ \A j \in 0..Len(pods) : AllParts(pods, rem, j) # {} => j <= J
              /\ J = Len(pods) => FitInEdge(pods, rem).value = AllWorth(rem, FitInEdge(pods, rem).mapping)
<1>1. PICK row, s : row = LastRow(pods, rem) /\ s = 1..Len(Nodes) /\ row \in OptimalAfter(pods, rem, s)
  BY LastRowIsBest
<1>2. PICK l : l = Len(pods) /\ l \in Nat
  OBVIOUS
<1>3. DOMAIN row = 0..l /\ \A j \in 0..l : row[j].value \in Int /\ BestCell(pods, rem, s, j, row[j])
  BY <1>1, <1>2 DEF OptimalAfter, Rows, Cells
<1>4. PICK D : D = 0..l /\ IsFiniteSet(D) /\ (\A x \in D : x \in Int) /\ 0 \in D /\ l \in D
  <2>1. PICK D : D = 0..l
    OBVIOUS
  <2>2. IsFiniteSet(D) /\ (\A x \in D : x \in Int) /\ 0 \in D /\ l \in D
    BY <1>2, <2>1, FS_Interval
  <2> QED
    BY <2>1, <2>2
<1>5. Max(D) = l
  <2>1. Max(D) \in D /\ \A y \in D : y <= Max(D)
    BY <1>4, MaxOf
  <2> QED
    BY ONLY <1>2, <1>4, <2>1
<1>6. PICK B : B = {0} \cup {j \in D : row[j].value >= 0}
  OBVIOUS
<1>7. PICK J : J = Max(B) /\ J \in B /\ \A y \in B : y <= J
  <2>1. B \subseteq D /\ B # {} /\ \A x \in B : x \in Int
    BY <1>4, <1>6
  <2>2. IsFiniteSet(B)
    BY <1>4, <2>1, FS_Subset
  <2> QED
    BY <2>1, <2>2, MaxOf
<1>8. J \in 0..l
  BY ONLY <1>4, <1>6, <1>7
<1>9. FitInEdge(pods, rem) = [value |-> row[l].value, mapping |-> row[J].mapping]
  BY <1>1, <1>3, <1>4, <1>5, <1>6, <1>7 DEF FitInEdge, ReadOff
<1>10. ASSUME NEW j \in 0..l, Partitions(pods, rem, s, j) # {}
       PROVE  row[j].value >= 0
  <2>1. PICK f \in Partitions(pods, rem, s, j) : TRUE
    BY <1>10
  <2>2. PICK w : w = Worth(rem, s, f) /\ w \in Nat
    BY <1>1, <1>2, PartsWorth
  <2>3. w <= row[j].value /\ row[j].value \in Int
    BY <1>3, <2>2 DEF BestCell
  <2> QED
    BY ONLY <2>2, <2>3
<1>11. \A j \in 0..l : Partitions(pods, rem, s, j) # {} => j <= J
  BY <1>4, <1>6, <1>7, <1>10
<1>12. row[J].value >= 0
  <2>1. CASE J # 0
    BY <1>6, <1>7, <2>1
  <2>2. CASE J = 0
    <3>1. <<>> \in Partitions(pods, rem, s, 0)
      <4>1. Segment(pods, 0, 0) = {}
        BY SegmentEnds
      <4>2. <<>> \in [{} -> NodesOf(s)]
        OBVIOUS
      <4>3. HasRoomFor(rem, <<>>)
        <5>1. NoDebts(rem)
          BY DEF Bounded, NoDebts
        <5> QED
          BY <5>1, NothingMapped
      <4>4. 1..0 = {}
        OBVIOUS
      <4> QED
        BY <4>1, <4>2, <4>3, <4>4 DEF Partitions
    <3> QED
      BY <1>8, <1>10, <2>2, <3>1
  <2> QED
    BY <2>1, <2>2
<1>13. row[J].mapping \in Partitions(pods, rem, s, J) /\ row[J].value = Worth(rem, s, row[J].mapping)
  BY <1>3, <1>8, <1>12 DEF BestCell
<1>14. BestCell(pods, rem, s, l, [value |-> row[l].value, mapping |-> row[l].mapping])
  <2>1. l \in 0..l
    BY ONLY <1>2
  <2> QED
    BY <1>3, <2>1 DEF BestCell
<1>15. /\ FitInEdge(pods, rem).mapping \in AllParts(pods, rem, J)
       /\ \A j \in 0..l : AllParts(pods, rem, j) # {} => j <= J
       /\ J = l => FitInEdge(pods, rem).value = AllWorth(rem, FitInEdge(pods, rem).mapping)
  BY <1>1, <1>9, <1>11, <1>13 DEF AllParts, AllWorth
<1> QED
  BY <1>1, <1>2, <1>8, <1>9, <1>14, <1>15

-----------------------------------------------------------------------------
(* Every assignment to nodes is a way to cut some order of the pods.       *)

(* The orders of a set of pods.                                            *)
LEMMA OrderIs ==
  ASSUME NEW S \in SUBSET Pod, NEW q \in SetToSeqs(S)
  PROVE  /\ q \in Seq(Pod) /\ IsInjective(q) /\ ToSet(q) = S
         /\ Len(q) = Cardinality(S) /\ Len(q) \in Nat /\ DOMAIN q = 1..Len(q)
<1>1. PICK n : n = Cardinality(S) /\ n \in Nat /\ IsFiniteSet(S)
  BY PodsFinite, FS_CardinalityType
<1>2. q \in [1..n -> S] /\ \A i, j \in 1..n : i # j => q[i] # q[j]
  BY <1>1 DEF SetToSeqs
<1>3. q \in Seq(S) /\ Len(q) = n /\ DOMAIN q = 1..n
  BY ONLY <1>1, <1>2
<1>4. q \in Seq(Pod)
  BY ONLY <1>3, S \in SUBSET Pod
<1>5. IsInjective(q)
  BY <1>2, <1>3 DEF IsInjective
<1>6. q \in Injection(1..n, S)
  BY <1>2, <1>5 DEF Injection
<1>7. IsFiniteSet(1..n) /\ Cardinality(1..n) = n
  BY <1>1, CountUpTo
<1>8. q \in Surjection(1..n, S)
  BY <1>1, <1>6, <1>7, FS_Injection
<1>9. ToSet(q) = S
  <2>1. DOMAIN q = 1..n /\ (\A i \in 1..n : q[i] \in S) /\ \A x \in S : \E i \in 1..n : q[i] = x
    BY <1>2, <1>3, <1>8 DEF Surjection
  <2> QED
    BY ONLY <2>1 DEF ToSet
<1> QED
  BY <1>1, <1>3, <1>4, <1>5, <1>9

(* The first k pods are k pods.                                            *)
LEMMA SegmentSize ==
  ASSUME NEW pods \in Seq(Pod), IsInjective(pods), NEW k \in 0..Len(pods)
  PROVE  Cardinality(Segment(pods, 0, k)) = k /\ IsFiniteSet(Segment(pods, 0, k))
<1>1. PICK L : L = Len(pods) /\ L \in Nat /\ DOMAIN pods = 1..L
  OBVIOUS
<1>2. k \in Nat /\ (0 + 1)..k = 1..k /\ \A i \in 1..k : i \in 1..L
  BY ONLY <1>1, k \in 0..Len(pods)
<1>3. PICK A : A = Segment(pods, 0, k) /\ A = {pods[i] : i \in 1..k}
  BY <1>2 DEF Segment
<1>4. PICK f : f = [i \in 1..k |-> pods[i]]
  OBVIOUS
<1>5. f \in [1..k -> A] /\ (\A x \in A : \E i \in 1..k : f[i] = x) /\ IsInjective(f)
  <2>1. f \in [1..k -> A] /\ \A x \in A : \E i \in 1..k : f[i] = x
    BY <1>3, <1>4
  <2>2. IsInjective(f)
    BY <1>1, <1>2, <1>4 DEF IsInjective
  <2> QED
    BY <2>1, <2>2
<1>6. f \in Bijection(1..k, A)
  BY <1>5 DEF Bijection, Injection, Surjection
<1>7. IsFiniteSet(1..k) /\ Cardinality(1..k) = k
  BY <1>2, CountUpTo
<1> QED
  BY <1>3, <1>6, <1>7, FS_Bijection DEF ExistsBijection

Sorts(q, S, key) == q \in SetToSeqs(S) /\ \A i, l \in DOMAIN q : i <= l => key[q[i]] <= key[q[l]]

(* Pods can be put in the order of any key.                                *)
LEMMA CanBeSorted ==
  ASSUME NEW S \in SUBSET Pod, NEW key, \A p \in S : key[p] \in Int
  PROVE  \E q : Sorts(q, S, key)
<1> DEFINE A == {T \in SUBSET S : ~ \E q : Sorts(q, T, key)}
<1>1. A = {}
  <2>1. SUFFICES ASSUME A # {} PROVE FALSE
    OBVIOUS
  <2>2. PICK X \in A : \A Y \in A : Y \subseteq X => Y = X
    <3>1. A \in SUBSET SUBSET S
      OBVIOUS
    <3> HIDE DEF A
    <3>2. IsFiniteSet(S)
      BY PodsFinite
    <3> QED
      BY ONLY <2>1, <3>1, <3>2, MinimalSubset
  <2>3. X \in SUBSET S /\ ~ \E q : Sorts(q, X, key)
    OBVIOUS
  <2>4. X # {}
    <3>1. SUFFICES ASSUME X = {} PROVE FALSE
      OBVIOUS
    <3>2. PICK q : q = [i \in 1..0 |-> i]
      OBVIOUS
    <3>3. 1..Cardinality({}) = {} /\ 1..0 = {}
      BY FS_EmptySet
    <3>4. q \in [{} -> {}] /\ DOMAIN q = {}
      BY <3>2, <3>3
    <3>5. Sorts(q, {}, key)
      BY <3>3, <3>4 DEF Sorts, SetToSeqs
    <3> QED
      BY <2>3, <3>1, <3>5
  <2>5. IsFiniteSet(X) /\ \A p \in X : key[p] \in Int
    BY <2>3, PodsFinite
  <2>6. PICK p \in X : \A y \in X : key[y] <= key[p]
    BY <2>4, <2>5, BestOf
  <2>7. PICK T : T = X \ {p} /\ T \in SUBSET S /\ T \notin A
    <3>0. X \ {p} \in SUBSET S /\ X \ {p} # X /\ X \ {p} \subseteq X
      BY ONLY <2>3, p \in X
    <3>1. PICK T : T = X \ {p} /\ T \in SUBSET S /\ T # X /\ T \subseteq X
      BY <3>0
    <3> HIDE DEF A
    <3>2. T \notin A
      BY <2>2, <3>1
    <3> QED
      BY <3>1, <3>2
  <2>8. PICK q : Sorts(q, T, key)
    BY <2>7
  <2>9. PICK n : n = Cardinality(T) /\ n \in Nat /\ IsFiniteSet(T)
    BY <2>7, PodsFinite, FS_CardinalityType
  <2>10. Cardinality(X) = n + 1
    <3>1. X = T \cup {p} /\ p \notin T
      BY <2>7
    <3> QED
      BY <2>9, <3>1, FS_AddElement
  <2>11. /\ q \in [1..n -> T] /\ \A i, j \in 1..n : i # j => q[i] # q[j]
         /\ \A i, l \in 1..n : i <= l => key[q[i]] <= key[q[l]]
    BY <2>8, <2>9 DEF Sorts, SetToSeqs
  <2>12. PICK r : r = [i \in 1..(n + 1) |-> IF i <= n THEN q[i] ELSE p]
    OBVIOUS
  <2>13. \A i \in 1..(n + 1) : \/ i \in 1..n /\ r[i] = q[i] /\ r[i] \in T
                               \/ i = n + 1 /\ r[i] = p
    <3>1. ASSUME NEW i \in 1..(n + 1)
          PROVE  \/ i \in 1..n /\ r[i] = q[i] /\ r[i] \in T
                 \/ i = n + 1 /\ r[i] = p
      <4>1. \/ i \in 1..n /\ i <= n
            \/ i = n + 1 /\ ~(i <= n)
        BY ONLY <2>9, i \in 1..(n + 1)
      <4> QED
        BY <2>11, <2>12, <4>1
    <3> QED
      BY <3>1
  <2>14. r \in [1..(n + 1) -> X]
    <3>1. \A i \in 1..(n + 1) : r[i] \in X
      BY <2>7, <2>13
    <3> QED
      BY <2>12, <3>1
  <2>15. ASSUME NEW i \in 1..(n + 1), NEW j \in 1..(n + 1), i # j
         PROVE  r[i] # r[j]
    BY <2>7, <2>11, <2>13, <2>15
  <2>16. ASSUME NEW i \in 1..(n + 1), NEW l \in 1..(n + 1), i <= l
         PROVE  key[r[i]] <= key[r[l]]
    <3>1. CASE l \in 1..n
      <4>1. i \in 1..n
        BY ONLY <2>9, <2>16, <3>1, i \in 1..(n + 1)
      <4>2. r[i] = q[i] /\ r[l] = q[l]
        <5>1. ~(i = n + 1) /\ ~(l = n + 1)
          BY ONLY <2>9, <3>1, <4>1
        <5> QED
          BY <2>13, <5>1
      <4> QED
        BY <2>11, <2>16, <3>1, <4>1, <4>2
    <3>2. CASE l = n + 1
      <4>1. r[l] = p
        <5>1. ~(l \in 1..n)
          BY ONLY <2>9, <3>2
        <5> QED
          BY <2>13, <5>1
      <4> QED
        BY <2>6, <2>14, <4>1
    <3> QED
      BY <2>13, <3>1, <3>2
  <2>17. Sorts(r, X, key)
    <3>1. r \in SetToSeqs(X)
      BY <2>10, <2>14, <2>15 DEF SetToSeqs
    <3>2. DOMAIN r = 1..(n + 1)
      BY <2>14
    <3> QED
      BY <2>16, <3>1, <3>2 DEF Sorts
  <2> QED
    BY <2>3, <2>17
<1>2. S \notin A
  BY <1>1
<1> QED
  BY <1>2

(* An assignment of some of the pods, sorted by its nodes and followed by  *)
(* the other pods, is cut into its parts.                                  *)
LEMMA AssignmentIsCut ==
  ASSUME NEW N \in SUBSET Pod, NEW T \in SUBSET N, NEW rem \in Remainders,
         NEW g \in [T -> EdgeNode], HasRoomFor(rem, g)
  PROVE  \E q \in SetToSeqs(N) : Cardinality(T) \in 0..Len(q) /\ g \in AllParts(q, rem, Cardinality(T))
<1>1. PICK m : m = Len(Nodes) /\ m \in Nat
  BY NodesAre
<1>2. PICK key : key = [p \in N |-> IF p \in T THEN Index(g[p]) ELSE m + 1]
  OBVIOUS
<1>3. \A p \in T : key[p] = Index(g[p]) /\ key[p] \in 1..m
  BY <1>1, <1>2, IndexIs
<1>4. \A p \in N \ T : key[p] = m + 1
  BY <1>2
<1>5. PICK q : Sorts(q, N, key)
  <2>1. \A p \in N : key[p] \in Int
    <3>1. \A p \in T : key[p] \in Int
      BY <1>1, <1>3
    <3>2. \A p \in N \ T : key[p] \in Int
      BY <1>1, <1>4
    <3> QED
      BY <3>1, <3>2
  <2> QED
    BY <2>1, CanBeSorted
<1>6. PICK c : /\ c = Len(q) /\ c \in Nat /\ q \in Seq(Pod) /\ IsInjective(q) /\ ToSet(q) = N /\ DOMAIN q = 1..c
               /\ q \in SetToSeqs(N) /\ \A i, l \in 1..c : i <= l => key[q[i]] <= key[q[l]]
  BY <1>5, OrderIs DEF Sorts
<1>7. \A i \in 1..c : q[i] \in N
  BY <1>6 DEF ToSet
<1>8. PICK K : K = {0} \cup {i \in 1..c : q[i] \in T}
  OBVIOUS
<1>9. PICK k : k \in K /\ \A i \in K : i <= k
  <2>1. IsFiniteSet(0..c)
    <3>1. 0 \in Int /\ c \in Int
      BY <1>6
    <3> QED
      BY ONLY <3>1, FS_Interval
  <2>2. K \subseteq 0..c /\ (\A i \in K : i \in Int) /\ K # {}
    BY ONLY <1>6, <1>8
  <2>3. IsFiniteSet(K)
    BY <2>1, <2>2, FS_Subset
  <2> QED
    BY ONLY <2>2, <2>3, MaxOf
<1>10. k \in 0..c
  BY ONLY <1>6, <1>8, <1>9
<1>11. ASSUME NEW i \in 1..c
       PROVE  i <= k <=> q[i] \in T
  <2>1. ASSUME i <= k PROVE q[i] \in T
    <3>1. k \in 1..c
      BY ONLY <1>10, <2>1, i \in 1..c
    <3>2. q[k] \in T
      <4>1. k # 0
        BY ONLY <3>1
      <4> QED
        BY ONLY <1>8, <1>9, <4>1
    <3>3. key[q[i]] <= key[q[k]]
      BY <1>6, <2>1, <3>1
    <3>4. key[q[k]] \in 1..m
      BY <1>3, <3>2
    <3>5. q[i] \in N
      BY <1>7
    <3>6. ~(q[i] \in N \ T)
      <4>1. SUFFICES ASSUME q[i] \in N \ T PROVE FALSE
        OBVIOUS
      <4>2. key[q[i]] = m + 1
        BY <1>4, <4>1
      <4> QED
        BY ONLY <1>1, <3>3, <3>4, <4>2
    <3> QED
      BY ONLY <3>5, <3>6
  <2>2. ASSUME q[i] \in T PROVE i <= k
    BY ONLY <1>8, <1>9, <2>2, i \in 1..c
  <2> QED
    BY <2>1, <2>2
<1>12. Segment(q, 0, k) = T
  <2>1. (0 + 1)..k = 1..k /\ \A i : i \in 1..k <=> i \in 1..c /\ i <= k
    BY ONLY <1>6, <1>10
  <2>2. Segment(q, 0, k) = {q[i] : i \in 1..k}
    BY <2>1 DEF Segment
  <2>3. \A p \in T : \E i \in 1..c : p = q[i]
    BY <1>6 DEF ToSet
  <2>4. \A p \in T : \E i \in 1..k : p = q[i]
    BY <1>11, <2>1, <2>3
  <2>5. \A i \in 1..k : q[i] \in T
    BY <1>11, <2>1
  <2> QED
    BY <2>2, <2>4, <2>5
<1>13. Cardinality(T) = k
  BY <1>6, <1>10, <1>12, SegmentSize
<1>14. g \in AllParts(q, rem, k)
  <2>1. NodesOf(1..Len(Nodes)) = EdgeNode
    BY AllNodes
  <2>2. ASSUME NEW i \in 1..k, NEW l \in 1..k, i <= l
        PROVE  Index(g[q[i]]) <= Index(g[q[l]])
    <3>1. i \in 1..c /\ l \in 1..c /\ i <= k /\ l <= k
      BY ONLY <1>6, <1>10, i \in 1..k, l \in 1..k
    <3>2. q[i] \in T /\ q[l] \in T
      BY <1>11, <3>1
    <3> QED
      BY <1>3, <1>6, <2>2, <3>1, <3>2
  <2> QED
    BY <1>12, <2>1, <2>2 DEF AllParts, Partitions
<1> QED
  BY <1>6, <1>10, <1>13, <1>14

-----------------------------------------------------------------------------
(* MapPodToEdge: the best of all the orders.                               *)

(* What the result for one order has to do with the assignments.           *)
LEMMA ResultIs ==
  ASSUME NEW N \in SUBSET Pod, NEW rem \in Remainders, Bounded(rem), NEW q \in SetToSeqs(N),
         NEW F, F = FitInEdge(q, rem)
  PROVE  /\ F.value \in Int /\ Cardinality(DOMAIN F.mapping) \in Nat
         /\ \A j \in 0..Len(q) : AllParts(q, rem, j) # {} => j <= Cardinality(DOMAIN F.mapping)
         /\ \A g \in AllParts(q, rem, Len(q)) : AllWorth(rem, g) <= F.value
         /\ Cardinality(DOMAIN F.mapping) = Cardinality(N) => F.value = AllWorth(rem, F.mapping)
<1>1. q \in Seq(Pod) /\ IsInjective(q) /\ Len(q) = Cardinality(N) /\ Len(q) \in Nat
  BY OrderIs
<1>2. NoDebts(rem)
  BY DEF Bounded, NoDebts
<1>3. F.value \in Int
  BY <1>1, <1>2, FitInEdgeFits
<1>4. PICK v, m : v = F.value /\ m = LastRow(q, rem)[Len(q)].mapping
  OBVIOUS
<1>5. PICK J \in 0..Len(q) :
        /\ F.mapping \in AllParts(q, rem, J)
        /\ \A j \in 0..Len(q) : AllParts(q, rem, j) # {} => j <= J
        /\ J = Len(q) => F.value = AllWorth(rem, F.mapping)
  BY <1>1, FitInEdgeIsOptimal
<1>6. Cardinality(DOMAIN F.mapping) = J
  <2>1. DOMAIN F.mapping = Segment(q, 0, J)
    BY <1>5 DEF AllParts, Partitions
  <2> QED
    BY <1>1, <2>1, SegmentSize
<1>7. \A g \in AllParts(q, rem, Len(q)) : AllWorth(rem, g) <= F.value
  <2>1. BestCell(q, rem, 1..Len(Nodes), Len(q), [value |-> v, mapping |-> m])
    BY <1>1, <1>4, FitInEdgeIsOptimal
  <2> QED
    BY <1>4, <2>1 DEF BestCell, AllParts, AllWorth
<1>8. J \in Nat
  BY ONLY <1>1, J \in 0..Len(q)
<1> QED
  BY <1>1, <1>3, <1>5, <1>6, <1>7, <1>8

(* MapPodToEdge maps as many of the pods as any assignment does; if it maps*)
(* all of them, no assignment of all makes better use of the nodes.        *)
THEOREM MappingsAreBest ==
  ASSUME NEW c \in ClusterStates, NEW rem, rem = RemainingOf(c), Bounded(rem),
         NEW N \in SUBSET Pod, N # {}, NEW f \in MapPodToEdge(c, N, {}, <<>>)
  PROVE  /\ \A T \in SUBSET N : \A g \in [T -> EdgeNode] :
              HasRoomFor(rem, g) => Cardinality(T) <= Cardinality(DOMAIN f)
         /\ DOMAIN f = N => \A g \in [N -> EdgeNode] :
              HasRoomFor(rem, g) => AllWorth(rem, g) <= AllWorth(rem, f)
<1>1. rem \in Remainders
  BY RemainingType
<1>2. Orders(N) = SetToSeqs(N)
  BY OrdersAreAll
<1>3. PICK fits : fits = {FitInEdge(q, rem) : q \in Orders(N)}
  OBVIOUS
<1>4. \A q \in SetToSeqs(N) : FitInEdge(q, rem) \in fits
  BY <1>2, <1>3
<1>5. \A x \in fits : \E q \in SetToSeqs(N) : x = FitInEdge(q, rem)
  BY <1>2, <1>3
<1>6. \A x \in fits : x.value \in Int /\ Cardinality(DOMAIN x.mapping) \in Nat
  BY <1>1, <1>5, ResultIs
<1>7. fits # {}
  <2>1. PICK g : g = <<>> /\ g \in [{} -> EdgeNode] /\ HasRoomFor(rem, g)
    <3>1. NoDebts(rem)
      BY DEF Bounded, NoDebts
    <3>2. <<>> \in [{} -> EdgeNode]
      OBVIOUS
    <3> QED
      BY <1>1, <3>1, <3>2, NothingMapped
  <2>2. PICK q \in SetToSeqs(N) : TRUE
    <3>1. {} \in SUBSET N
      OBVIOUS
    <3> QED
      BY <1>1, <2>1, <3>1, AssignmentIsCut
  <2> QED
    BY <1>4
<1>8. IsFiniteSet(fits)
  <2>1. PICK slice, all : slice = SetToSeq(N) /\ all = EveryOrder(slice) /\ all \in Seq(Arrays(slice))
    BY SetToSeqType, EveryOrderType
  <2>2. PICK n : n = Len(all) /\ n \in Nat /\ DOMAIN all = 1..n
    BY ONLY <2>1
  <2>3. Orders(N) = {all[i] : i \in 1..n}
    BY <2>1, <2>2 DEF Orders, ToSet
  <2>4. PICK h : h = [i \in 1..n |-> FitInEdge(all[i], rem)]
    OBVIOUS
  <2>5. h \in [1..n -> fits] /\ \A x \in fits : \E i \in 1..n : h[i] = x
    BY <1>3, <2>3, <2>4
  <2>6. h \in Surjection(1..n, fits)
    BY <2>5 DEF Surjection
  <2>7. IsFiniteSet(1..n)
    BY <2>2, CountUpTo
  <2> QED
    BY <2>6, <2>7, FS_Surjection
<1>9. PICK most : most = MostMapped(fits) /\ most # {} /\ most \subseteq fits
  <2>1. PICK size : size = [x \in fits |-> Cardinality(DOMAIN x.mapping)]
    OBVIOUS
  <2>2. \A x \in fits : size[x] \in Int /\ size[x] = Cardinality(DOMAIN x.mapping)
    BY <1>6, <2>1
  <2>3. \E x \in fits : \A y \in fits : size[y] <= size[x]
    BY <1>7, <1>8, <2>2, BestOf
  <2>4. MostMapped(fits) # {} /\ MostMapped(fits) \subseteq fits
    BY <2>2, <2>3 DEF MostMapped
  <2> QED
    BY <2>4
<1>10. PICK best : best = HighestValue(most) /\ best # {} /\ best \subseteq most
  <2>1. PICK value : value = [x \in most |-> x.value]
    OBVIOUS
  <2>2. \A x \in most : value[x] \in Int /\ value[x] = x.value
    BY <1>6, <1>9, <2>1
  <2>3. IsFiniteSet(most)
    BY <1>8, <1>9, FS_Subset
  <2>4. \E x \in most : \A y \in most : value[y] <= value[x]
    BY <1>9, <2>2, <2>3, BestOf
  <2>5. HighestValue(most) # {} /\ HighestValue(most) \subseteq most
    BY <2>2, <2>4 DEF HighestValue
  <2> QED
    BY <2>5
<1>11. PICK F \in best : f = F.mapping
  <2>1. RemainingAfterMoves(c, {}, <<>>) = rem
    BY NothingMoved
  <2>2. MapPodToEdge(c, N, {}, <<>>) = {x.mapping : x \in best}
    <3>1. BestFits(N, rem) = best
      BY <1>3, <1>9, <1>10 DEF BestFits
    <3>2. {x.mapping : x \in best} # {}
      BY <1>10
    <3> QED
      BY <2>1, <3>1, <3>2 DEF MapPodToEdge, OrElse
  <2> QED
    BY <2>2
<1>12. PICK J : J = Cardinality(DOMAIN f) /\ J \in Nat /\ \A y \in fits : Cardinality(DOMAIN y.mapping) <= J
  BY <1>6, <1>9, <1>10, <1>11 DEF MostMapped
<1>13. \A y \in most : y.value <= F.value
  BY <1>10, <1>11 DEF HighestValue
<1>14. ASSUME NEW T \in SUBSET N, NEW g \in [T -> EdgeNode], HasRoomFor(rem, g)
       PROVE  Cardinality(T) <= J
  <2>1. PICK q \in SetToSeqs(N) : Cardinality(T) \in 0..Len(q) /\ g \in AllParts(q, rem, Cardinality(T))
    BY <1>1, <1>14, AssignmentIsCut
  <2>2. PICK x : x = FitInEdge(q, rem) /\ x \in fits
    BY <1>4
  <2>3. PICK k, d : k = Cardinality(T) /\ d = Cardinality(DOMAIN x.mapping)
    OBVIOUS
  <2>4. k <= d
    BY <1>1, <2>1, <2>2, <2>3, ResultIs
  <2>5. d <= J /\ d \in Nat
    BY <1>6, <1>12, <2>2, <2>3
  <2>6. k \in Int
    BY <2>1, <2>3, OrderIs
  <2> QED
    BY ONLY <1>12, <2>3, <2>4, <2>5, <2>6
<1>15. ASSUME DOMAIN f = N, NEW g \in [N -> EdgeNode], HasRoomFor(rem, g)
       PROVE  AllWorth(rem, g) <= AllWorth(rem, f)
  <2>1. N \in SUBSET N
    OBVIOUS
  <2>2. PICK q \in SetToSeqs(N) : Cardinality(N) \in 0..Len(q) /\ g \in AllParts(q, rem, Cardinality(N))
    BY <1>1, <1>15, <2>1, AssignmentIsCut
  <2>3. Len(q) = Cardinality(N) /\ Cardinality(N) \in Nat
    BY OrderIs
  <2>4. PICK x : x = FitInEdge(q, rem) /\ x \in fits
    BY <1>4
  <2>5. AllWorth(rem, g) <= x.value /\ Cardinality(N) <= Cardinality(DOMAIN x.mapping)
    BY <1>1, <2>2, <2>3, <2>4, ResultIs
  <2>6. J = Cardinality(N)
    BY <1>12, <1>15
  <2>7. x \in most
    <3>1. \A y \in fits : Cardinality(DOMAIN y.mapping) <= Cardinality(DOMAIN x.mapping)
      <4>1. ASSUME NEW y \in fits
            PROVE  Cardinality(DOMAIN y.mapping) <= Cardinality(DOMAIN x.mapping)
        <5>1. PICK a, b : a = Cardinality(DOMAIN y.mapping) /\ b = Cardinality(DOMAIN x.mapping)
          OBVIOUS
        <5>2. a \in Nat /\ b \in Nat /\ a <= J /\ J <= b
          BY <1>6, <1>12, <2>4, <2>5, <2>6, <5>1
        <5> QED
          BY ONLY <1>12, <5>1, <5>2
      <4> QED
        BY <4>1
    <3> QED
      BY <1>9, <2>4, <3>1 DEF MostMapped
  <2>8. x.value <= F.value
    BY <1>13, <2>7
  <2>9. F.value = AllWorth(rem, f)
    <3>1. F \in fits
      BY <1>9, <1>10
    <3>2. PICK r \in SetToSeqs(N) : F = FitInEdge(r, rem)
      BY <1>5, <3>1
    <3>3. Cardinality(DOMAIN F.mapping) = Cardinality(N)
      BY <1>11, <1>15
    <3> QED
      BY <1>1, <1>11, <3>2, <3>3, ResultIs
  <2>10. AllWorth(rem, g) \in Nat
    <3>1. DOMAIN g \subseteq Pod /\ 1..Len(Nodes) \in SUBSET (1..Len(Nodes))
      OBVIOUS
    <3> QED
      BY <1>1, <3>1, WorthType DEF AllWorth
  <2>11. PICK a, b, d : a = AllWorth(rem, g) /\ b = x.value /\ d = F.value
    OBVIOUS
  <2>12. a <= b /\ b <= d /\ a \in Int /\ b \in Int /\ d \in Int
    <3>1. F \in fits
      BY <1>9, <1>10
    <3> QED
      BY <1>6, <2>4, <2>5, <2>8, <2>10, <2>11, <3>1
  <2> QED
    BY ONLY <2>9, <2>11, <2>12
<1> QED
  BY <1>12, <1>14, <1>15

-----------------------------------------------------------------------------
(* EvalFreePods and SuggestCloudToEdge: loops over the pods of one side.   *)

FreedStep(c, need, qos, q, g) ==
    [t \in SUBSET DOMAIN q |->
        IF t = {} THEN {[left |-> EdgePods(c), freed |-> {}]}
        ELSE LET x == Max(t) IN UNION {FreeNext(c, need, qos, s) : s \in g[t \ {x}]}]

FreedOf(c, need, qos, q) == CHOOSE g : g = FreedStep(c, need, qos, q, g)

(* The freed pods are a fold over the edge pods.                           *)
LEMMA FreedIs ==
  ASSUME NEW c, NEW need, NEW qos
  PROVE  LET q == SetToSeq(EdgePods(c))
         IN Freed(c, need, qos) = {s.freed : s \in FreedOf(c, need, qos, q)[DOMAIN q]}
  BY DEF Freed, FoldLeft, MapThenFoldSet, FreedOf, FreedStep

Frees(c) == [left : SUBSET EdgePods(c), freed : SUBSET EdgePods(c)]

(* One turn of the loop keeps to pods of the edge.                         *)
LEMMA FreeNextType ==
  ASSUME NEW c, NEW need, NEW qos, NEW s \in Frees(c)
  PROVE  FreeNext(c, need, qos, s) \subseteq Frees(c)
<1>1. s.left \subseteq EdgePods(c) /\ s.freed \subseteq EdgePods(c)
  BY DEF Frees
<1> DEFINE loss == [p \in s.left |-> Gain(qos, p, qos.onEdge[DeploymentOf[p]] - CountIn(s.freed, DeploymentOf[p]), -1)]
<1>2. PICK H : H = HighestScore(loss) /\ H \subseteq s.left
  BY DEF HighestScore
<1>3. ASSUME NEW p \in H, NEW B \in BOOLEAN
      PROVE  [left |-> s.left \ {p}, freed |-> IF B THEN s.freed ELSE s.freed \cup {p}] \in Frees(c)
  <2>1. p \in EdgePods(c)
    BY <1>1, <1>2
  <2> HIDE DEF loss
  <2> QED
    BY <1>1, <2>1 DEF Frees
<1>4. \A y \in FreeNext(c, need, qos, s) :
        y = s \/ \E p \in H, B \in BOOLEAN :
                    y = [left |-> s.left \ {p}, freed |-> IF B THEN s.freed ELSE s.freed \cup {p}]
  <2>1. ASSUME NEW y \in FreeNext(c, need, qos, s), y # s
        PROVE  \E p \in H, B \in BOOLEAN :
                  y = [left |-> s.left \ {p}, freed |-> IF B THEN s.freed ELSE s.freed \cup {p}]
    <3>1. PICK p \in H :
            y = [left |-> s.left \ {p},
                 freed |-> IF CountIn({x \in s.freed : Running(c, x)}, DeploymentOf[p]) + 1 >= c.numRunning[DeploymentOf[p]]
                           THEN s.freed ELSE s.freed \cup {p}]
      BY <1>2, <2>1 DEF FreeNext
    <3>2. PICK B \in BOOLEAN :
            B <=> CountIn({x \in s.freed : Running(c, x)}, DeploymentOf[p]) + 1 >= c.numRunning[DeploymentOf[p]]
      OBVIOUS
    <3> QED
      BY ONLY <3>1, <3>2
  <2> QED
    BY <2>1
<1> QED
  <2> HIDE DEF loss
  <2> QED
    BY <1>3, <1>4

(* The loop begins with all pods of the edge.                              *)
LEMMA FreesBegin ==
  ASSUME NEW c
  PROVE  [left |-> EdgePods(c), freed |-> {}] \in Frees(c)
<1>1. PICK E : E = EdgePods(c)
  OBVIOUS
<1>2. [left |-> E, freed |-> {}] \in [left : SUBSET E, freed : SUBSET E]
  OBVIOUS
<1> QED
  BY <1>1, <1>2 DEF Frees

(* The loop's recursion has a solution.                                    *)
LEMMA FreedSolves ==
  ASSUME NEW c, NEW need, NEW qos, NEW q \in Seq(Pod)
  PROVE  FreedOf(c, need, qos, q) = FreedStep(c, need, qos, q, FreedOf(c, need, qos, q))
<1> DEFINE n == Len(q)
           V == SUBSET Frees(c)
           F == [y \in (1..n) \X V |-> UNION {FreeNext(c, need, qos, s) : s \in y[2]}]
<1>1. n \in Nat /\ DOMAIN q = 1..n
  OBVIOUS
<1>2. \A i \in 1..n, v \in V :
        F[<<i, v>>] = UNION {FreeNext(c, need, qos, s) : s \in v} /\ F[<<i, v>>] \in V
  BY FreeNextType
<1>3. PICK b : b = {[left |-> EdgePods(c), freed |-> {}]} /\ b \in V
  BY FreesBegin
<1>4. PICK g : g = SeqStep(F, b, n, g) /\ \A s \in SUBSET (1..n) : g[s] \in V
  <2> HIDE DEF F, V, n
  <2> QED
    BY ONLY <1>1, <1>2, <1>3, SeqFold
<1>5. \A s \in SUBSET (1..n) : s # {} => Max(s) \in s
  BY <1>1, TopsChoose DEF Chooses, Tops
<1>6. ASSUME NEW t \in SUBSET (1..n), t # {}
      PROVE  F[<<Max(t), g[t \ {Max(t)}]>>] = UNION {FreeNext(c, need, qos, s) : s \in g[t \ {Max(t)}]}
  <2>1. PICK x, v : x = Max(t) /\ v = g[t \ {Max(t)}]
    OBVIOUS
  <2>2. x \in 1..n /\ v \in V
    BY <1>4, <1>5, <1>6, <2>1
  <2> HIDE DEF F, V
  <2> QED
    BY <1>2, <2>1, <2>2
<1>7. g = FreedStep(c, need, qos, q, g)
  <2> HIDE DEF F, V, n
  <2> QED
    BY <1>1, <1>3, <1>4, <1>6 DEF SeqStep, FreedStep
<1> QED
  BY <1>7 DEF FreedOf

(* Only pods of the edge are freed, and none if nothing is needed.         *)
LEMMA FreedType ==
  ASSUME NEW c, NEW need \in [Resource -> Int], NEW qos
  PROVE  /\ \A S \in Freed(c, need, qos) : S \subseteq EdgePods(c)
         /\ (\A r \in Resource : need[r] <= 0) => Freed(c, need, qos) = {{}}
<1>1. PICK q : q = SetToSeq(EdgePods(c)) /\ q \in Seq(Pod)
  BY SetToSeqType DEF EdgePods
<1>2. PICK n : n = Len(q) /\ n \in Nat /\ DOMAIN q = 1..n
  BY <1>1
<1>3. PICK k : k = FreedOf(c, need, qos, q) /\ k = FreedStep(c, need, qos, q, k)
  BY <1>1, FreedSolves
<1>4. PICK start : start = [left |-> EdgePods(c), freed |-> {}] /\ start \in Frees(c)
  BY FreesBegin
<1>5. \A t \in SUBSET (1..n) :
        k[t] = IF t = {} THEN {start} ELSE UNION {FreeNext(c, need, qos, s) : s \in k[t \ {Max(t)}]}
  BY <1>2, <1>3, <1>4 DEF FreedStep
<1>6. Freed(c, need, qos) = {s.freed : s \in k[1..n]}
  BY <1>1, <1>2, <1>3, FreedIs
<1>7. k[1..n] \in SUBSET Frees(c)
  <2> DEFINE W == [t \in SUBSET (1..n) |-> SUBSET Frees(c)]
  <2>1. k[{}] \in W[{}]
    <3>1. {} \in SUBSET (1..n)
      OBVIOUS
    <3> QED
      BY <1>4, <1>5, <3>1
  <2>2. ASSUME NEW t \in SUBSET (1..n), t # {}, k[t \ {Max(t)}] \in W[t \ {Max(t)}]
        PROVE  k[t] \in W[t]
    <3>1. PICK v : v = k[t \ {Max(t)}] /\ v \in SUBSET Frees(c)
      BY <2>2
    <3>2. k[t] = UNION {FreeNext(c, need, qos, s) : s \in v}
      BY <1>5, <2>2, <3>1
    <3> QED
      BY <3>1, <3>2, FreeNextType
  <2>3. \A t \in SUBSET (1..n) : k[t] \in W[t]
    <3> HIDE DEF W
    <3> QED
      BY <1>2, <2>1, <2>2, SeqInduction
  <2> QED
    BY <2>3
<1>8. ASSUME \A r \in Resource : need[r] <= 0
      PROVE  k[1..n] = {start}
  <2> DEFINE W == [t \in SUBSET (1..n) |-> {{start}}]
  <2>1. FreeNext(c, need, qos, start) = {start}
    <3>1. PICK e : e = {} /\ start.freed = e
      BY <1>4
    <3>2. \A r \in Resource : need[r] <= TotalSize(e)[r]
      BY <1>8, <3>1, TotalEmpty
    <3> QED
      BY <3>1, <3>2 DEF FreeNext, LThan, LEThan
  <2>2. k[{}] \in W[{}]
    <3>1. {} \in SUBSET (1..n)
      OBVIOUS
    <3> QED
      BY <1>5, <3>1
  <2>3. ASSUME NEW t \in SUBSET (1..n), t # {}, k[t \ {Max(t)}] \in W[t \ {Max(t)}]
        PROVE  k[t] \in W[t]
    <3>1. PICK v : v = k[t \ {Max(t)}] /\ v = {start}
      BY <2>3
    <3>2. k[t] = UNION {FreeNext(c, need, qos, s) : s \in v}
      BY <1>5, <2>3, <3>1
    <3>3. k[t] = {start}
      BY <2>1, <3>1, <3>2
    <3> QED
      BY <3>3
  <2>4. \A t \in SUBSET (1..n) : k[t] \in W[t]
    <3> HIDE DEF W
    <3> QED
      BY <1>2, <2>2, <2>3, SeqInduction
  <2> QED
    BY <2>4
<1>9. \A s \in Frees(c) : s.freed \subseteq EdgePods(c)
  BY DEF Frees
<1>10. start.freed = {}
  BY <1>4
<1>11. \A S \in Freed(c, need, qos) : S \subseteq EdgePods(c)
  BY <1>6, <1>7, <1>9
<1>12. ASSUME \A r \in Resource : need[r] <= 0 PROVE Freed(c, need, qos) = {{}}
  BY <1>6, <1>8, <1>10, <1>12
<1> QED
  BY <1>11, <1>12

TakenStep(c, qos, q, g) ==
    [t \in SUBSET DOMAIN q |->
        IF t = {} THEN {[left |-> CloudPods(c), taken |-> {}]}
        ELSE LET x == Max(t) IN UNION {TakeNext(c, qos, s) : s \in g[t \ {x}]}]

TakenOf(c, qos, q) == CHOOSE g : g = TakenStep(c, qos, q, g)

(* The pods taken are a fold over the cloud pods.                          *)
LEMMA TakenIs ==
  ASSUME NEW c, NEW qos
  PROVE  LET q == SetToSeq(CloudPods(c))
         IN Taken(c, qos) = {s.taken : s \in TakenOf(c, qos, q)[DOMAIN q]}
  BY DEF Taken, FoldLeft, MapThenFoldSet, TakenOf, TakenStep

Takes(c) == [left : SUBSET CloudPods(c), taken : SUBSET CloudPods(c)]

(* One turn of the loop keeps to pods of the cloud.                        *)
LEMMA TakeNextType ==
  ASSUME NEW c, NEW qos, NEW s \in Takes(c)
  PROVE  TakeNext(c, qos, s) \subseteq Takes(c)
<1>1. s.left \subseteq CloudPods(c) /\ s.taken \subseteq CloudPods(c)
  BY DEF Takes
<1> DEFINE willing == {p \in s.left : c.numRunning[DeploymentOf[p]] # 1}
           free == [r \in Resource |-> EdgeFree(c)[r] - TotalSize(s.taken)[r]]
           gain == [p \in willing |->
                       Gain(qos, p, qos.onEdge[DeploymentOf[p]] + CountIn(s.taken, DeploymentOf[p]), 1)]
<1>2. PICK H : H = HighestScore(gain) /\ H \subseteq s.left
  BY DEF HighestScore
<1>3. ASSUME NEW p \in H, NEW B \in BOOLEAN
      PROVE  [left |-> s.left \ {p}, taken |-> IF B THEN s.taken \cup {p} ELSE s.taken] \in Takes(c)
  <2>1. p \in CloudPods(c)
    BY <1>1, <1>2
  <2> HIDE DEF gain
  <2> QED
    BY <1>1, <2>1 DEF Takes
<1>4. \A y \in TakeNext(c, qos, s) :
        y = s \/ \E p \in H, B \in BOOLEAN :
                    y = [left |-> s.left \ {p}, taken |-> IF B THEN s.taken \cup {p} ELSE s.taken]
  <2>1. ASSUME NEW y \in TakeNext(c, qos, s), y # s
        PROVE  \E p \in H, B \in BOOLEAN :
                  y = [left |-> s.left \ {p}, taken |-> IF B THEN s.taken \cup {p} ELSE s.taken]
    <3>1. PICK p \in H :
            y = [left |-> s.left \ {p}, taken |-> IF LEThan(Size(p), free) THEN s.taken \cup {p} ELSE s.taken]
      BY <1>2, <2>1 DEF TakeNext
    <3>2. PICK B \in BOOLEAN : B <=> LEThan(Size(p), free)
      OBVIOUS
    <3> QED
      BY ONLY <3>1, <3>2
  <2> QED
    BY <2>1
<1> QED
  <2> HIDE DEF gain, free, willing
  <2> QED
    BY <1>3, <1>4

(* The loop begins with all pods of the cloud.                             *)
LEMMA TakesBegin ==
  ASSUME NEW c
  PROVE  [left |-> CloudPods(c), taken |-> {}] \in Takes(c)
<1>1. PICK E : E = CloudPods(c)
  OBVIOUS
<1>2. [left |-> E, taken |-> {}] \in [left : SUBSET E, taken : SUBSET E]
  OBVIOUS
<1> QED
  BY <1>1, <1>2 DEF Takes

(* The loop's recursion has a solution.                                    *)
LEMMA TakenSolves ==
  ASSUME NEW c, NEW qos, NEW q \in Seq(Pod)
  PROVE  TakenOf(c, qos, q) = TakenStep(c, qos, q, TakenOf(c, qos, q))
<1> DEFINE n == Len(q)
           V == SUBSET Takes(c)
           F == [y \in (1..n) \X V |-> UNION {TakeNext(c, qos, s) : s \in y[2]}]
<1>1. n \in Nat /\ DOMAIN q = 1..n
  OBVIOUS
<1>2. \A i \in 1..n, v \in V :
        F[<<i, v>>] = UNION {TakeNext(c, qos, s) : s \in v} /\ F[<<i, v>>] \in V
  BY TakeNextType
<1>3. PICK b : b = {[left |-> CloudPods(c), taken |-> {}]} /\ b \in V
  BY TakesBegin
<1>4. PICK g : g = SeqStep(F, b, n, g) /\ \A s \in SUBSET (1..n) : g[s] \in V
  <2> HIDE DEF F, V, n
  <2> QED
    BY ONLY <1>1, <1>2, <1>3, SeqFold
<1>5. \A s \in SUBSET (1..n) : s # {} => Max(s) \in s
  BY <1>1, TopsChoose DEF Chooses, Tops
<1>6. ASSUME NEW t \in SUBSET (1..n), t # {}
      PROVE  F[<<Max(t), g[t \ {Max(t)}]>>] = UNION {TakeNext(c, qos, s) : s \in g[t \ {Max(t)}]}
  <2>1. PICK x, v : x = Max(t) /\ v = g[t \ {Max(t)}]
    OBVIOUS
  <2>2. x \in 1..n /\ v \in V
    BY <1>4, <1>5, <1>6, <2>1
  <2> HIDE DEF F, V
  <2> QED
    BY <1>2, <2>1, <2>2
<1>7. g = TakenStep(c, qos, q, g)
  <2> HIDE DEF F, V, n
  <2> QED
    BY <1>1, <1>3, <1>4, <1>6 DEF SeqStep, TakenStep
<1> QED
  BY <1>7 DEF TakenOf

(* Only pods of the cloud are suggested for the edge.                      *)
LEMMA SuggestedAreCloud ==
  ASSUME NEW c, NEW S \in SuggestCloudToEdge(c)
  PROVE  S \subseteq CloudPods(c)
<1>1. PICK qos : qos = QoSNow(c)
  OBVIOUS
<1>2. S = {} \/ S \in Taken(c, qos)
  BY <1>1 DEF SuggestCloudToEdge
<1>3. PICK q : q = SetToSeq(CloudPods(c)) /\ q \in Seq(Pod)
  BY SetToSeqType DEF CloudPods
<1>4. PICK n : n = Len(q) /\ n \in Nat /\ DOMAIN q = 1..n
  BY <1>3
<1>5. PICK k : k = TakenOf(c, qos, q) /\ k = TakenStep(c, qos, q, k)
  BY <1>3, TakenSolves
<1>6. PICK start : start = [left |-> CloudPods(c), taken |-> {}] /\ start \in Takes(c)
  BY TakesBegin
<1>7. \A t \in SUBSET (1..n) :
        k[t] = IF t = {} THEN {start} ELSE UNION {TakeNext(c, qos, s) : s \in k[t \ {Max(t)}]}
  BY <1>4, <1>5, <1>6 DEF TakenStep
<1>8. Taken(c, qos) = {s.taken : s \in k[1..n]}
  BY <1>3, <1>4, <1>5, TakenIs
<1>9. k[1..n] \in SUBSET Takes(c)
  <2> DEFINE W == [t \in SUBSET (1..n) |-> SUBSET Takes(c)]
  <2>1. k[{}] \in W[{}]
    <3>1. {} \in SUBSET (1..n)
      OBVIOUS
    <3> QED
      BY <1>6, <1>7, <3>1
  <2>2. ASSUME NEW t \in SUBSET (1..n), t # {}, k[t \ {Max(t)}] \in W[t \ {Max(t)}]
        PROVE  k[t] \in W[t]
    <3>1. PICK v : v = k[t \ {Max(t)}] /\ v \in SUBSET Takes(c)
      BY <2>2
    <3>2. k[t] = UNION {TakeNext(c, qos, s) : s \in v}
      BY <1>7, <2>2, <3>1
    <3> QED
      BY <3>1, <3>2, TakeNextType
  <2>3. \A t \in SUBSET (1..n) : k[t] \in W[t]
    <3> HIDE DEF W
    <3> QED
      BY <1>4, <2>1, <2>2, SeqInduction
  <2> QED
    BY <2>3
<1>10. \A s \in Takes(c) : s.taken \subseteq CloudPods(c)
  BY DEF Takes
<1> QED
  BY <1>2, <1>8, <1>9, <1>10

-----------------------------------------------------------------------------
(* Sums over the nodes, and the score of a decision.                       *)

(* Any solution of a sum's recursion gives the sum.                        *)
LEMMA AnySolution ==
  ASSUME NEW f, NEW S, IsFiniteSet(S), NEW x, Solves(f, S, x)
  PROVE  x[S] = SumFunctionOnSet(f, S)
<1>1. PICK y, T : y = Partial(f, S) /\ T = S
  OBVIOUS
<1>2. Solves(f, T, y)
  BY <1>1, PartialSolves
<1>3. \A s \in SUBSET (S \cap T) : x[s] = y[s]
  BY ONLY IsFiniteSet(S), Solves(f, S, x), <1>2, SolutionsAgree
<1>4. x[S] = y[S]
  BY <1>1, <1>3
<1> QED
  BY <1>1, <1>4, SumIs

FreeAt(c, r) == [n \in EdgeNode |-> Remaining(c, n, r)]

EdgeFreeStep(c, r, g) ==
    [s \in SUBSET EdgeNode |-> IF s = {} THEN 0 ELSE Remaining(c, Pick(s), r) + g[s \ {Pick(s)}]]

EdgeFreeOf(c, r) == CHOOSE g : g = EdgeFreeStep(c, r, g)

(* What is free on the edge is the sum of what is free on its nodes.       *)
LEMMA EdgeFreeIs ==
  ASSUME NEW c, NEW r \in Resource
  PROVE  EdgeRemaining(c, r) = SumFunctionOnSet(FreeAt(c, r), EdgeNode) /\ EdgeFree(c)[r] = EdgeRemaining(c, r)
<1>1. EdgeRemaining(c, r) = EdgeFreeOf(c, r)[EdgeNode]
  BY DEF EdgeRemaining, MapThenSumSet, MapThenFoldSet, EdgeFreeOf, EdgeFreeStep, Pick
<1>2. IsFiniteSet(EdgeNode)
  BY NodesAreListed
<1>3. ASSUME NEW g
      PROVE  EdgeFreeStep(c, r, g) = SumStep(FreeAt(c, r), EdgeNode, g)
  <2>1. \A s \in SUBSET EdgeNode : s # {} => Remaining(c, Pick(s), r) = FreeAt(c, r)[Pick(s)]
    BY PickIsElement DEF FreeAt
  <2> QED
    BY <2>1 DEF EdgeFreeStep, SumStep
<1>4. PICK h : Solves(FreeAt(c, r), EdgeNode, h)
  BY <1>2, PartialSolves
<1>5. h = EdgeFreeStep(c, r, h)
  BY <1>3, <1>4 DEF Solves
<1>6. PICK k : k = EdgeFreeOf(c, r) /\ k = EdgeFreeStep(c, r, k)
  BY <1>5 DEF EdgeFreeOf
<1>7. Solves(FreeAt(c, r), EdgeNode, k)
  BY <1>3, <1>6 DEF Solves
<1>8. k[EdgeNode] = SumFunctionOnSet(FreeAt(c, r), EdgeNode)
  BY <1>2, <1>7, AnySolution
<1>9. EdgeFree(c)[r] = EdgeRemaining(c, r)
  BY DEF EdgeFree
<1> QED
  BY <1>1, <1>6, <1>8, <1>9

(* What is free on a node is a natural number.                             *)
LEMMA FreeAtType ==
  ASSUME NEW c \in ClusterStates, WithinResources(c), NEW r \in Resource, NEW n \in EdgeNode
  PROVE  FreeAt(c, r)[n] \in Nat
<1>1. RemainingOf(c) \in Remainders /\ NoDebts(RemainingOf(c))
  BY RemainingType
<1>2. Remaining(c, n, r) = RemainingOf(c)[n][r]
  BY DEF RemainingOf
<1>3. RemainingOf(c)[n][r] \in Int /\ RemainingOf(c)[n][r] >= 0
  BY <1>1 DEF Remainders, NoDebts
<1> QED
  BY <1>2, <1>3 DEF FreeAt

(* What is free on the edge is a natural number of each resource.          *)
LEMMA EdgeFreeType ==
  ASSUME NEW c \in ClusterStates, WithinResources(c)
  PROVE  EdgeFree(c) \in [Resource -> Nat]
<1>1. ASSUME NEW r \in Resource
      PROVE  EdgeRemaining(c, r) \in Nat
  <2>1. PICK f, S : f = FreeAt(c, r) /\ S = EdgeNode /\ IsFiniteSet(S) /\ \A n \in S : f[n] \in Nat
    BY FreeAtType, NodesAreListed
  <2>2. SumFunctionOnSet(f, S) \in Nat
    BY <2>1, SumNat
  <2> QED
    BY <2>1, <2>2, EdgeFreeIs
<1> QED
  BY <1>1 DEF EdgeFree

HasAt(r) == [n \in EdgeNode |-> Resources[n][r]]

EdgeHasStep(r, g) ==
    [s \in SUBSET EdgeNode |-> IF s = {} THEN 0 ELSE Resources[Pick(s)][r] + g[s \ {Pick(s)}]]

EdgeHasOf(r) == CHOOSE g : g = EdgeHasStep(r, g)

(* The resources of the edge are the sum of those of its nodes.            *)
LEMMA EdgeResourcesAre ==
  ASSUME NEW r \in Resource
  PROVE  EdgeResources[r] = SumFunctionOnSet(HasAt(r), EdgeNode)
<1>1. EdgeResources[r] = EdgeHasOf(r)[EdgeNode]
  BY DEF EdgeResources, MapThenSumSet, MapThenFoldSet, EdgeHasOf, EdgeHasStep, Pick
<1>2. IsFiniteSet(EdgeNode)
  BY NodesAreListed
<1>3. ASSUME NEW g
      PROVE  EdgeHasStep(r, g) = SumStep(HasAt(r), EdgeNode, g)
  <2>1. \A s \in SUBSET EdgeNode : s # {} => Resources[Pick(s)][r] = HasAt(r)[Pick(s)]
    BY PickIsElement DEF HasAt
  <2> QED
    BY <2>1 DEF EdgeHasStep, SumStep
<1>4. PICK h : Solves(HasAt(r), EdgeNode, h)
  BY <1>2, PartialSolves
<1>5. h = EdgeHasStep(r, h)
  BY <1>3, <1>4 DEF Solves
<1>6. PICK k : k = EdgeHasOf(r) /\ k = EdgeHasStep(r, k)
  BY <1>5 DEF EdgeHasOf
<1>7. Solves(HasAt(r), EdgeNode, k)
  BY <1>3, <1>6 DEF Solves
<1>8. k[EdgeNode] = SumFunctionOnSet(HasAt(r), EdgeNode)
  BY <1>2, <1>7, AnySolution
<1> QED
  BY <1>1, <1>6, <1>8

(* And natural numbers too.                                                *)
LEMMA EdgeResourcesType == EdgeResources \in [Resource -> Nat]
<1>1. ASSUME NEW r \in Resource
      PROVE  EdgeResources[r] \in Nat
  <2>1. PICK f, S : f = HasAt(r) /\ S = EdgeNode
    OBVIOUS
  <2>2. IsFiniteSet(S) /\ \A n \in S : f[n] \in Nat
    BY <2>1, ResourcesAreVectors, NodesAreListed DEF HasAt
  <2>3. SumFunctionOnSet(f, S) \in Nat
    BY <2>2, SumNat
  <2> QED
    BY <2>1, <2>3, EdgeResourcesAre
<1>2. EdgeResources = [r \in Resource |-> EdgeResources[r]]
  BY DEF EdgeResources
<1> QED
  BY <1>1, <1>2

(* Not more is free on the edge than it has.                               *)
LEMMA FreeIsLess ==
  ASSUME NEW c \in ClusterStates, WithinResources(c), NEW r \in Resource,
         \A n \in EdgeNode : c.nodeUsed[n][r] >= 0
  PROVE  EdgeFree(c)[r] <= EdgeResources[r]
<1>1. PICK f, g, S : f = FreeAt(c, r) /\ g = HasAt(r) /\ S = EdgeNode
  OBVIOUS
<1>2. IsFiniteSet(S)
  BY <1>1, NodesAreListed
<1>3. \A n \in S : f[n] \in Int /\ g[n] \in Int /\ f[n] <= g[n]
  <2>1. ASSUME NEW n \in S PROVE f[n] \in Int /\ g[n] \in Int /\ f[n] <= g[n]
    <3>1. PICK a, b : a = Resources[n][r] /\ b = c.nodeUsed[n][r]
      OBVIOUS
    <3>2. a \in Nat /\ b \in Int /\ b >= 0
      BY <1>1, <3>1, ResourcesAreVectors DEF ClusterStates
    <3>3. f[n] = a - b /\ g[n] = a
      BY <1>1, <3>1 DEF FreeAt, HasAt, Remaining
    <3> QED
      BY ONLY <3>2, <3>3
  <2> QED
    BY <2>1
<1>4. SumFunctionOnSet(f, S) <= SumFunctionOnSet(g, S)
  BY ONLY <1>2, <1>3, SumOrdered
<1> QED
  BY <1>1, <1>4, EdgeFreeIs, EdgeResourcesAre

(* The root of what is reached of the promised share, times top, rounded   *)
(* down.                                                                   *)
Root(top, share, promised) ==
    CHOOSE s \in 0..top : /\ s * s * promised <= top * top * share
                          /\ (s + 1) * (s + 1) * promised > top * top * share

(* Below the promised share there is such a root.                          *)
LEMMA RootType ==
  ASSUME NEW top \in Nat \ {0}, NEW share \in Nat, NEW promised \in Nat, share < promised
  PROVE  Root(top, share, promised) \in Int
<1>1. PICK K : K = top * top * share /\ K \in Nat
  OBVIOUS
<1>2. PICK S : S = {s \in 0..top : s * s * promised <= K}
  OBVIOUS
<1>3. 0 \in S
  BY <1>1, <1>2
<1>4. IsFiniteSet(S) /\ \A x \in S : x \in Int
  <2>1. PICK J : J = 0..top
    OBVIOUS
  <2>2. IsFiniteSet(J) /\ S \in SUBSET J /\ \A x \in J : x \in Int
    BY <1>2, <2>1, FS_Interval
  <2> QED
    BY <2>2, FS_Subset
<1>5. PICK m : m = Max(S) /\ m \in S /\ \A y \in S : y <= m
  BY <1>3, <1>4, MaxOf
<1>6. m \in 0..top /\ m * m * promised <= K
  BY <1>2, <1>5
<1>7. m # top
  <2>1. SUFFICES ASSUME m = top PROVE FALSE
    OBVIOUS
  <2>2. PICK a : a = top * top /\ a \in Nat /\ a > 0
    OBVIOUS
  <2>3. a * promised <= a * share
    BY <1>1, <1>6, <2>1, <2>2
  <2> QED
    BY <2>2, <2>3
<1>8. m + 1 \in 0..top /\ m + 1 \notin S
  BY <1>5, <1>6, <1>7
<1>9. ~((m + 1) * (m + 1) * promised <= K)
  BY <1>2, <1>8
<1>10. (m + 1) * (m + 1) * promised \in Int
  BY <1>6
<1>11. (m + 1) * (m + 1) * promised > K
  BY <1>1, <1>9, <1>10
<1>12. Root(top, share, promised) \in 0..top
  BY <1>1, <1>6, <1>11 DEF Root
<1> QED
  BY <1>12

(* The quality of service of a deployment is a number.                     *)
LEMMA QualityType ==
  ASSUME NEW d \in Deployment, NEW n \in 1..Cardinality(Pod), NEW e \in 0..n
  PROVE  QoS[d][n][e] \in Int
<1>1. PICK den, num : /\ den = EdgeShare[d][2] /\ num = EdgeShare[d][1]
                      /\ den \in Nat \ {0} /\ num \in Nat /\ num <= den
  BY SharesAreFractions
<1>2. Cardinality(Pod) \in Nat
  BY PodsAreFinite, FS_CardinalityType
<1>3. n \in Nat /\ n > 0 /\ e \in Nat /\ e <= n
  BY <1>2
<1>4. PICK share, promised, whole : share = e * den /\ promised = n * num /\ whole = n * den
  OBVIOUS
<1>5. share \in Nat /\ promised \in Nat /\ whole \in Nat /\ share <= whole
  BY <1>1, <1>3, <1>4
<1>6. QoS[d][n][e] = IF share >= promised
                     THEN 9900 + IF share = promised THEN 0 ELSE (100 * (share - promised)) \div (whole - promised)
                     ELSE Root(8000, share, promised)
  BY <1>1, <1>4 DEF QoS, Root
<1>7. CASE share < promised
  <2>1. ~(share >= promised)
    BY <1>5, <1>7
  <2>2. 8000 \in Nat \ {0}
    OBVIOUS
  <2>3. Root(8000, share, promised) \in Int
    BY ONLY <1>5, <1>7, <2>2, RootType
  <2>4. QoS[d][n][e] = Root(8000, share, promised)
    BY ONLY <1>6, <2>1
  <2> QED
    BY ONLY <2>3, <2>4
<1>8. CASE share = promised
  BY <1>5, <1>6, <1>8
<1>9. CASE share > promised
  <2>1. PICK a, b : a = 100 * (share - promised) /\ b = whole - promised
    OBVIOUS
  <2>2. a \in Int /\ b \in Int /\ b > 0
    BY <1>5, <1>9, <2>1
  <2>3. a \div b \in Int
    BY <2>2
  <2> QED
    BY <1>5, <1>6, <1>9, <2>1, <2>3
<1> QED
  BY <1>5, <1>7, <1>8, <1>9

QualityOf(all, edge) == [d \in Deployment |-> QoS[d][CountIn(all, d)][CountIn(edge, d)]]

Labels(S) == {DeploymentOf[p] : p \in S}

QualityStep(all, edge, g) ==
    [s \in SUBSET Labels(all) |->
        IF s = {} THEN 0 ELSE QoS[Pick(s)][CountIn(all, Pick(s))][CountIn(edge, Pick(s))] + g[s \ {Pick(s)}]]

QualitySum(all, edge) == CHOOSE g : g = QualityStep(all, edge, g)

(* Finitely many deployments have pods.                                    *)
LEMMA LabelsFinite ==
  ASSUME NEW S \in SUBSET Pod
  PROVE  IsFiniteSet(Labels(S)) /\ Labels(S) \subseteq Deployment
<1> DEFINE f == [p \in S |-> DeploymentOf[p]]
<1>1. f \in Surjection(S, Labels(S))
  BY DEF Labels, Surjection
<1>2. IsFiniteSet(S)
  BY PodsFinite
<1>3. IsFiniteSet(Labels(S))
  <2> HIDE DEF f
  <2> QED
    BY <1>1, <1>2, FS_Surjection
<1>4. Labels(S) \subseteq Deployment
  BY PodsAreLabelled DEF Labels
<1> QED
  BY <1>3, <1>4

(* Of a deployment that has pods, between one and all of them are counted, *)
(* and at most as many of them on the edge.                                *)
LEMMA CountsAre ==
  ASSUME NEW all \in SUBSET Pod, NEW edge \in SUBSET all, NEW d \in Labels(all)
  PROVE  /\ d \in Deployment
         /\ CountIn(all, d) \in 1..Cardinality(Pod) /\ CountIn(edge, d) \in 0..CountIn(all, d)
<1>1. PICK A, E : A = {p \in all : DeploymentOf[p] = d} /\ E = {p \in edge : DeploymentOf[p] = d}
  OBVIOUS
<1>2. A # {} /\ E \in SUBSET A /\ A \in SUBSET Pod
  BY <1>1 DEF Labels
<1>3. IsFiniteSet(A) /\ IsFiniteSet(E) /\ IsFiniteSet(Pod)
  BY <1>2, PodsFinite
<1>4. Cardinality(A) \in Nat /\ Cardinality(E) \in Nat /\ Cardinality(Pod) \in Nat /\ Cardinality(A) # 0
  BY <1>2, <1>3, FS_CardinalityType, FS_EmptySet
<1>5. Cardinality(E) <= Cardinality(A) /\ Cardinality(A) <= Cardinality(Pod)
  BY <1>2, <1>3, FS_Subset
<1>6. CountIn(all, d) = Cardinality(A) /\ CountIn(edge, d) = Cardinality(E)
  BY <1>1 DEF CountIn
<1>7. d \in Deployment
  BY LabelsFinite
<1> QED
  BY <1>4, <1>5, <1>6, <1>7

(* All the pods of four lists, and those on the edge.                      *)
Listed(preCloud, preEdge, newCloud, newEdge) == preCloud \cup preEdge \cup newCloud \cup newEdge

StayOnEdge(preEdge, newCloud, newEdge) == newEdge \cup (preEdge \ newCloud)

QualitiesSum(all, edge) == SumFunctionOnSet(QualityOf(all, edge), Labels(all))

(* The qualities of the deployments that have pods are numbers.            *)
LEMMA QualitiesAre ==
  ASSUME NEW all \in SUBSET Pod, NEW edge \in SUBSET all
  PROVE  /\ IsFiniteSet(Labels(all)) /\ Labels(all) \subseteq Deployment
         /\ \A d \in Labels(all) : QualityOf(all, edge)[d] \in Int
         /\ QualitiesSum(all, edge) \in Int
<1>1. PICK f, L : f = QualityOf(all, edge) /\ L = Labels(all)
  OBVIOUS
<1>2. IsFiniteSet(L) /\ L \subseteq Deployment
  BY <1>1, LabelsFinite
<1>3. ASSUME NEW d \in L
      PROVE  f[d] \in Int
  <2>1. PICK n, e : n = CountIn(all, d) /\ e = CountIn(edge, d)
    OBVIOUS
  <2>2. n \in 1..Cardinality(Pod) /\ e \in 0..n /\ d \in Deployment
    BY <1>1, <2>1, CountsAre
  <2>3. QoS[d][n][e] \in Int
    BY <2>2, QualityType
  <2> QED
    BY <1>1, <2>1, <2>2, <2>3 DEF QualityOf
<1>4. SumFunctionOnSet(f, L) \in Int
  BY <1>2, <1>3, SumType
<1> QED
  BY <1>1, <1>2, <1>3, <1>4 DEF QualitiesSum

(* A score is the sum of the qualities.                                    *)
LEMMA ScoreIs ==
  ASSUME NEW preCloud \in SUBSET Pod, NEW preEdge \in SUBSET Pod,
         NEW newCloud \in SUBSET Pod, NEW newEdge \in SUBSET Pod
  PROVE  CalcNumberOfQosSatisfactions(preCloud, preEdge, newCloud, newEdge).score
            = QualitiesSum(Listed(preCloud, preEdge, newCloud, newEdge), StayOnEdge(preEdge, newCloud, newEdge))
<1>1. PICK all, edge : /\ all = Listed(preCloud, preEdge, newCloud, newEdge)
                       /\ edge = StayOnEdge(preEdge, newCloud, newEdge)
  OBVIOUS
<1>2. PICK L : L = Labels(all) /\ IsFiniteSet(L)
  <2>1. all \in SUBSET Pod
    BY <1>1 DEF Listed
  <2> QED
    BY <2>1, LabelsFinite
<1>3. CalcNumberOfQosSatisfactions(preCloud, preEdge, newCloud, newEdge).score = QualitySum(all, edge)[L]
  BY <1>1, <1>2 DEF CalcNumberOfQosSatisfactions, MapThenSumSet, MapThenFoldSet, QualitySum, QualityStep, Pick, Labels,
                    Listed, StayOnEdge
<1>4. ASSUME NEW g
      PROVE  QualityStep(all, edge, g) = SumStep(QualityOf(all, edge), L, g)
  <2>1. \A s \in SUBSET L : s # {} => Pick(s) \in Deployment
    BY <1>1, <1>2, LabelsFinite, PickIsElement DEF Listed
  <2>2. \A s \in SUBSET L : s # {} =>
          QoS[Pick(s)][CountIn(all, Pick(s))][CountIn(edge, Pick(s))] = QualityOf(all, edge)[Pick(s)]
    BY <2>1 DEF QualityOf
  <2> QED
    BY <1>2, <2>2 DEF QualityStep, SumStep
<1>5. PICK h : Solves(QualityOf(all, edge), L, h)
  BY <1>2, PartialSolves
<1>6. h = QualityStep(all, edge, h)
  BY <1>4, <1>5 DEF Solves
<1>7. PICK k : k = QualitySum(all, edge) /\ k = QualityStep(all, edge, k)
  BY <1>6 DEF QualitySum
<1>8. Solves(QualityOf(all, edge), L, k)
  BY <1>4, <1>7 DEF Solves
<1>9. k[L] = SumFunctionOnSet(QualityOf(all, edge), L)
  BY <1>2, <1>8, AnySolution
<1> QED
  BY <1>1, <1>2, <1>3, <1>7, <1>9 DEF QualitiesSum

(* The score of a decision is a number.                                    *)
LEMMA ScoreType ==
  ASSUME NEW preCloud \in SUBSET Pod, NEW preEdge \in SUBSET Pod,
         NEW newCloud \in SUBSET Pod, NEW newEdge \in SUBSET Pod
  PROVE  CalcNumberOfQosSatisfactions(preCloud, preEdge, newCloud, newEdge).score \in Int
<1>1. PICK all, edge : /\ all = Listed(preCloud, preEdge, newCloud, newEdge)
                       /\ edge = StayOnEdge(preEdge, newCloud, newEdge)
  OBVIOUS
<1>2. all \in SUBSET Pod /\ edge \in SUBSET all
  BY <1>1 DEF Listed, StayOnEdge
<1>3. QualitiesSum(all, edge) \in Int
  BY <1>2, QualitiesAre
<1>4. CalcNumberOfQosSatisfactions(preCloud, preEdge, newCloud, newEdge).score = QualitiesSum(all, edge)
  BY <1>1, ScoreIs
<1> QED
  BY <1>3, <1>4

-----------------------------------------------------------------------------
(* The decisions: there always is one, and it moves what there is.         *)

(* Who is freed is on the edge, and the migrations are CalcMigrations'.    *)
LEMMA OutcomesType ==
  ASSUME NEW c \in ClusterStates, WithinResources(c), NEW edge \in SUBSET Pod
  PROVE  /\ \A o \in Outcomes(c, edge, TRUE) : o.freed \subseteq EdgePods(c) /\ o.migrations \in CalcMigrations(c, o.freed)
         /\ edge = {} => Outcomes(c, edge, TRUE) # {}
<1>1. PICK least : least = TotalSize(edge) /\ least \in [Resource -> Nat]
  BY TotalType
<1>2. PICK free : free = EdgeFree(c) /\ free \in [Resource -> Nat]
  BY EdgeFreeType
<1>3. PICK need : need = [r \in Resource |-> least[r] - free[r]]
  OBVIOUS
<1>4. need \in [Resource -> Int]
  BY <1>1, <1>2, <1>3
<1>5. EvalFreePods(c, least) = IF ~QoSNow(c).ok THEN {{}} ELSE Freed(c, need, QoSNow(c))
  BY <1>2, <1>3 DEF EvalFreePods
<1>6. \A F \in EvalFreePods(c, least) : F \subseteq EdgePods(c)
  BY <1>4, <1>5, FreedType
<1>7. \A o \in Outcomes(c, edge, TRUE) :
        \E F \in EvalFreePods(c, least) : \E m \in CalcMigrations(c, F) : o = [freed |-> F, migrations |-> m]
  BY <1>1 DEF Outcomes
<1>8. \A o \in Outcomes(c, edge, TRUE) : o.freed \subseteq EdgePods(c) /\ o.migrations \in CalcMigrations(c, o.freed)
  <2> SUFFICES ASSUME NEW o \in Outcomes(c, edge, TRUE)
               PROVE  o.freed \subseteq EdgePods(c) /\ o.migrations \in CalcMigrations(c, o.freed)
    OBVIOUS
  <2>1. PICK F, m : /\ F \in EvalFreePods(c, least) /\ m \in CalcMigrations(c, F)
                    /\ o = [freed |-> F, migrations |-> m]
    BY <1>7
  <2>2. o.freed = F /\ o.migrations = m
    BY <2>1
  <2> QED
    BY <1>6, <2>1, <2>2
<1>9. ASSUME edge = {}
      PROVE  Outcomes(c, edge, TRUE) # {}
  <2>1. \A r \in Resource : least[r] = 0
    BY <1>1, <1>9, TotalEmpty
  <2>2. \A r \in Resource : need[r] <= 0
    BY <1>2, <1>3, <2>1
  <2>3. {} \in EvalFreePods(c, least)
    BY <1>4, <1>5, <2>2, FreedType
  <2>4. PICK m : m \in CalcMigrations(c, {})
    BY DEF CalcMigrations, OrElse, HighestValue
  <2>5. ~LThan(EdgeResources, least)
    BY <2>1, EdgeResourcesType DEF LThan, LEThan
  <2>6. [freed |-> {}, migrations |-> m] \in Outcomes(c, edge, TRUE)
    BY <1>1, <2>3, <2>4, <2>5 DEF Outcomes
  <2> QED
    BY <2>6
<1> QED
  BY <1>8, <1>9

ScoreOf(c, new, E, F) ==
    CalcNumberOfQosSatisfactions(CloudPods(c), EdgePods(c), F \cup (new \ E), E).score

DecisionOf(new, E, o) ==
    [freed |-> o.freed, toEdge |-> E, toCloud |-> new \ E,
     migrations |-> IF o.freed \cup new = {} THEN <<>> ELSE o.migrations]

(* What is scored, for pods that are not on the edge.                      *)
LEMMA ScoredIs ==
  ASSUME NEW c \in ClusterStates, WithinResources(c), EdgePods(c) \cap CloudPods(c) = {},
         NEW new \in SUBSET (Pod \ EdgePods(c)), NEW E \in SUBSET new, NEW canMigrate \in BOOLEAN
  PROVE  /\ \A x \in Scored(c, new, canMigrate, E) : \E o \in Outcomes(c, E, canMigrate) :
              x.decision = DecisionOf(new, E, o) /\ x.value = ScoreOf(c, new, E, o.freed)
         /\ \A o \in Outcomes(c, E, canMigrate) : \E x \in Scored(c, new, canMigrate, E) :
              x.decision = DecisionOf(new, E, o) /\ x.value = ScoreOf(c, new, E, o.freed)
<1> DEFINE qos(o) == CalcNumberOfQosSatisfactions(CloudPods(c), EdgePods(c), o.freed \cup (new \ E), E)
           scored == {[decision |-> DecisionOf(new, E, o), qos |-> qos(o)] : o \in Outcomes(c, E, canMigrate)}
<1>1. Scored(c, new, canMigrate, E) = {[decision |-> s.decision, value |-> s.qos.score] : s \in {x \in scored : x.qos.ok}}
  BY DEF Scored, DecisionOf
<1>2. \A o : qos(o).score = ScoreOf(c, new, E, o.freed)
  BY DEF ScoreOf
<1>3. ASSUME NEW o \in Outcomes(c, E, canMigrate)
      PROVE  qos(o).ok
  <2>1. o.freed \subseteq EdgePods(c)
    <3>1. CASE canMigrate
      BY <3>1, OutcomesType
    <3>2. CASE ~canMigrate
      BY <3>2 DEF Outcomes
    <3> QED
      BY <3>1, <3>2
  <2> QED
    BY <2>1 DEF CalcNumberOfQosSatisfactions
<1> HIDE DEF qos
<1>4. \A x \in Scored(c, new, canMigrate, E) : \E o \in Outcomes(c, E, canMigrate) :
        x = [decision |-> DecisionOf(new, E, o), value |-> qos(o).score]
  <2> SUFFICES ASSUME NEW x \in Scored(c, new, canMigrate, E)
               PROVE  \E o \in Outcomes(c, E, canMigrate) :
                        x = [decision |-> DecisionOf(new, E, o), value |-> qos(o).score]
    OBVIOUS
  <2>1. PICK s \in scored : x = [decision |-> s.decision, value |-> s.qos.score]
    BY <1>1
  <2>2. PICK o \in Outcomes(c, E, canMigrate) : s = [decision |-> DecisionOf(new, E, o), qos |-> qos(o)]
    OBVIOUS
  <2>3. s.decision = DecisionOf(new, E, o) /\ s.qos = qos(o)
    BY <2>2
  <2> QED
    BY <2>1, <2>3
<1>5. \A o \in Outcomes(c, E, canMigrate) :
        [decision |-> DecisionOf(new, E, o), value |-> qos(o).score] \in Scored(c, new, canMigrate, E)
  <2> SUFFICES ASSUME NEW o \in Outcomes(c, E, canMigrate)
               PROVE  [decision |-> DecisionOf(new, E, o), value |-> qos(o).score] \in Scored(c, new, canMigrate, E)
    OBVIOUS
  <2>1. PICK s : s = [decision |-> DecisionOf(new, E, o), qos |-> qos(o)]
    OBVIOUS
  <2>2. s \in scored /\ s.qos.ok /\ s.decision = DecisionOf(new, E, o) /\ s.qos = qos(o)
    BY <1>3, <2>1
  <2> HIDE DEF scored
  <2> QED
    BY <1>1, <2>2
<1> HIDE DEF scored
<1>6. ASSUME NEW x \in Scored(c, new, canMigrate, E)
      PROVE  \E o \in Outcomes(c, E, canMigrate) :
               x.decision = DecisionOf(new, E, o) /\ x.value = ScoreOf(c, new, E, o.freed)
  <2>1. PICK o \in Outcomes(c, E, canMigrate) : x = [decision |-> DecisionOf(new, E, o), value |-> qos(o).score]
    BY <1>4
  <2>2. x.decision = DecisionOf(new, E, o) /\ x.value = qos(o).score
    BY <2>1
  <2> QED
    BY <1>2, <2>2
<1>7. ASSUME NEW o \in Outcomes(c, E, canMigrate)
      PROVE  \E x \in Scored(c, new, canMigrate, E) :
               x.decision = DecisionOf(new, E, o) /\ x.value = ScoreOf(c, new, E, o.freed)
  <2>1. PICK x : x = [decision |-> DecisionOf(new, E, o), value |-> qos(o).score]
    OBVIOUS
  <2>2. x.decision = DecisionOf(new, E, o) /\ x.value = qos(o).score
    BY <2>1
  <2>3. x \in Scored(c, new, canMigrate, E)
    BY <1>5, <2>1
  <2> QED
    BY <1>2, <2>2, <2>3
<1> QED
  BY <1>6, <1>7

(* A decision of MakeDecisionForNewPods, as far as it can be carried out.  *)
Feasible(c, new, d) ==
    /\ d.freed \subseteq EdgePods(c)
    /\ d.toEdge \subseteq new /\ d.toCloud = new \ d.toEdge
    /\ d.migrations = <<>> \/ d.migrations \in CalcMigrations(c, d.freed)

(* Every decision has a side for every new pod.                            *)
LEMMA DecisionsFeasible ==
  ASSUME NEW c \in ClusterStates, WithinResources(c), EdgePods(c) \cap CloudPods(c) = {},
         NEW new \in SUBSET (Pod \ EdgePods(c)), NEW d \in MakeDecisionForNewPods(c, new, TRUE)
  PROVE  Feasible(c, new, d)
<1>1. PICK results : results = UNION {Scored(c, new, TRUE, E) : E \in SUBSET new}
  OBVIOUS
<1>2. ASSUME NEW x \in results
      PROVE  \E E \in SUBSET new : \E o \in Outcomes(c, E, TRUE) :
               x.decision = DecisionOf(new, E, o) /\ x.value = ScoreOf(c, new, E, o.freed)
  <2>1. PICK E \in SUBSET new : x \in Scored(c, new, TRUE, E)
    BY <1>1
  <2>2. \A y \in Scored(c, new, TRUE, E) : \E o \in Outcomes(c, E, TRUE) :
          y.decision = DecisionOf(new, E, o) /\ y.value = ScoreOf(c, new, E, o.freed)
    BY ScoredIs
  <2> QED
    BY ONLY <2>1, <2>2
<1>3. ASSUME NEW E \in SUBSET new, NEW o \in Outcomes(c, E, TRUE)
      PROVE  \E x \in results : x.decision = DecisionOf(new, E, o) /\ x.value = ScoreOf(c, new, E, o.freed)
  <2>1. PICK x \in Scored(c, new, TRUE, E) :
          x.decision = DecisionOf(new, E, o) /\ x.value = ScoreOf(c, new, E, o.freed)
    BY ScoredIs, ZenonT(30)
  <2> QED
    BY <1>1, <2>1
<1> DEFINE S == {y \in (SUBSET Pod) \X (SUBSET Pod) :
                    y[1] \subseteq new /\ \E o \in Outcomes(c, y[1], TRUE) : o.freed = y[2]}
           f == [y \in S |-> ScoreOf(c, new, y[1], y[2])]
<1>4. \A y \in S : f[y] \in Int
  BY ScoreType DEF ScoreOf, EdgePods, CloudPods
<1>5. IsFiniteSet(S)
  <2>1. IsFiniteSet(SUBSET Pod)
    BY PodsAreFinite, FS_SUBSET
  <2>2. IsFiniteSet((SUBSET Pod) \X (SUBSET Pod))
    BY <2>1, FS_Product
  <2>3. S \in SUBSET ((SUBSET Pod) \X (SUBSET Pod))
    OBVIOUS
  <2> HIDE DEF S
  <2> QED
    BY <2>2, <2>3, FS_Subset
<1>6. \A E \in SUBSET new : \A o \in Outcomes(c, E, TRUE) :
        <<E, o.freed>> \in S /\ f[<<E, o.freed>>] = ScoreOf(c, new, E, o.freed)
  BY OutcomesType DEF EdgePods
<1>7. S # {}
  <2>1. PICK e : e = {}
    OBVIOUS
  <2>2. e \in SUBSET new /\ e \in SUBSET Pod /\ Outcomes(c, e, TRUE) # {}
    BY <2>1, OutcomesType
  <2> QED
    BY <1>6, <2>2
<1>8. PICK y \in S : \A z \in S : f[z] <= f[y]
  <2> HIDE DEF S, f
  <2> QED
    BY <1>4, <1>5, <1>7, BestOf
<1>9. PICK E, o : /\ E \in SUBSET new /\ o \in Outcomes(c, E, TRUE) /\ y = <<E, o.freed>>
                  /\ f[y] = ScoreOf(c, new, E, o.freed)
  <2>1. PICK A, B : y = <<A, B>>
    OBVIOUS
  <2>2. A = y[1] /\ B = y[2]
    BY <2>1
  <2>3. PICK o : y[1] \subseteq new /\ o \in Outcomes(c, y[1], TRUE) /\ o.freed = y[2]
    OBVIOUS
  <2> HIDE DEF S, f
  <2>4. A \in SUBSET new /\ o \in Outcomes(c, A, TRUE) /\ y = <<A, o.freed>>
    BY <2>1, <2>2, <2>3
  <2> QED
    BY <1>6, <2>4
<1> HIDE DEF S, f
<1>10. PICK b \in results : b.value = f[y]
  BY <1>3, <1>9
<1>11. \A x \in results : x.value <= b.value
  BY <1>2, <1>6, <1>8, <1>10, ZenonT(30)
<1>12. HighestValue(results) # {}
  BY <1>10, <1>11 DEF HighestValue
<1>13. \E x \in results : d = x.decision
  <2>1. d \in OrElse({s.decision : s \in HighestValue(results)}, NoDecision)
    BY <1>1 DEF MakeDecisionForNewPods, Masks
  <2>2. PICK s : s \in HighestValue(results) /\ d = s.decision
    BY <1>12, <2>1 DEF OrElse
  <2> QED
    BY <2>2 DEF HighestValue
<1>14. PICK G, p : G \in SUBSET new /\ p \in Outcomes(c, G, TRUE) /\ d = DecisionOf(new, G, p)
  BY <1>2, <1>13
<1>15. p.freed \subseteq EdgePods(c) /\ p.migrations \in CalcMigrations(c, p.freed)
  BY <1>14, OutcomesType
<1>16. /\ d.freed = p.freed /\ d.toEdge = G /\ d.toCloud = new \ G
       /\ d.migrations = <<>> \/ d.migrations = p.migrations
  BY <1>14 DEF DecisionOf
<1> QED
  BY <1>14, <1>15, <1>16 DEF Feasible
=============================================================================
