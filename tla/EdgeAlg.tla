------------------------------- MODULE EdgeAlg -------------------------------
(***************************************************************************)
(* alg and internal/utils: the placement algorithms, each as the set of    *)
(* results it can return for a cluster state.  Where two choices score the *)
(* same, the order of a slice or a rounding decides in the program; here   *)
(* both are results.  Pods are sets, one entry each: Edge.Pods and         *)
(* Cloud.Pods of a cluster state that holds no pod twice.                  *)
(*                                                                         *)
(* Numbers: a fragmentation is a fraction of Unit, exactly; a quality of   *)
(* service is rounded down to a multiple of 1/10000.                       *)
(***************************************************************************)
EXTENDS Placement

CONSTANTS
    Nodes,      \* Edge.Config.Nodes: the edge nodes in the order of their adding
    EdgeShare,  \* [Deployment -> <<numerator, denominator>>]
    Unit        \* a common denominator of the fragmentations of all nodes

Volume(v) == FoldSet(LAMBDA r, x : v[r] * x, 1, Resource)

(* GetMaximumResources.                                                    *)
MaximumResources == [r \in Resource |-> Max({Resources[n][r] : n \in EdgeNode})]

(* Every node has some of each resource: the volumes are divided by.       *)
ASSUME NodesHaveResources ==
    /\ IsFiniteSet(Resource)
    /\ \A n \in EdgeNode : Volume(Resources[n]) > 0
    /\ Volume(MaximumResources) > 0
ASSUME UnitIsCommon ==
    /\ Unit \in Nat
    /\ \A n \in EdgeNode : Unit % Volume(Resources[n]) = 0
    /\ Unit % Volume(MaximumResources) = 0 /\ Unit % 10 = 0
ASSUME NodesAreListed == IsFiniteSet(EdgeNode) /\ Nodes \in SetToSeqs(EdgeNode)
ASSUME SharesAreFractions ==
    \A d \in Deployment : EdgeShare[d] \in Nat \X (Nat \ {0}) /\ EdgeShare[d][1] <= EdgeShare[d][2]

Size(p) == ResourcesRequired[DeploymentOf[p]]

TotalSize(S) == [r \in Resource |-> MapThenSumSet(LAMBDA p : Size(p)[r], S)]

LEThan(a, b) == \A r \in Resource : a[r] <= b[r]

(* Not the strict order: some component of b exceeds that of a.            *)
LThan(a, b) == ~LEThan(b, a)

EdgePods(c)  == {p \in Pod : OnEdge(c, p)}
CloudPods(c) == {p \in Pod : OnCloud(c, p)}
Running(c, p) == c.status[c.podsMap[p]] = "RUNNING"
NodeOf(c, p)  == c.node[c.podsMap[p]]

EdgeResources  == [r \in Resource |-> MapThenSumSet(LAMBDA n : Resources[n][r], EdgeNode)]
EdgeFree(c)    == [r \in Resource |-> EdgeRemaining(c, r)]

(* Clone: the same entries, the running pods counted afresh.               *)
Clone(c) == [c EXCEPT !.numRunning = [d \in Deployment |-> NumRunningInClone(c, d)]]

(* utils.Permutations: helper emits the orders of the first n elements and *)
(* leaves the slice itself in yet another one.                             *)
Swapped(arr, i, j) == [arr EXCEPT ![i] = arr[j], ![j] = arr[i]]

(* Mutant: the first element is swapped whatever n is.                     *)
SwapAfterFirst(arr, i, n) == Swapped(arr, 1, n)

SwapAfter(arr, i, n) == IF n % 2 = 1 THEN Swapped(arr, i, n) ELSE Swapped(arr, 1, n)

EveryOrder(slice) ==
    LET helper[n \in 0..Len(slice)] == [arr \in [DOMAIN slice -> ToSet(slice)] |->
          IF n = 1 THEN [emitted |-> <<arr>>, arr |-> arr]
          ELSE FoldLeft(LAMBDA s, i :
                          LET inner == helper[n - 1][s.arr]
                          IN [emitted |-> s.emitted \o inner.emitted, arr |-> SwapAfter(inner.arr, i, n)],
                        [emitted |-> <<>>, arr |-> arr], [i \in 1..n |-> i])]
    IN helper[Len(slice)][slice].emitted

(* The orders of an empty slice are none, not the empty one.               *)
Orders(S) == ToSet(EveryOrder(SetToSeq(S)))

-----------------------------------------------------------------------------
(* QoS.go and CalcDeFragmentation.                                         *)

CalcDeFragmentation(v, whole) ==
    IF \A r \in Resource : v[r] = 0 THEN Unit \div 10
    ELSE Volume(v) * (Unit \div Volume(whole))

(* Of n pods, e on the edge: below the promised share the root of what is  *)
(* reached of it, at the share 0.99, above it a little more.               *)
QoS ==
    [d \in Deployment |-> [n \in 1..Cardinality(Pod) |-> [e \in 0..n |->
        LET share    == e * EdgeShare[d][2]
            promised == n * EdgeShare[d][1]
        IN IF share >= promised
           THEN 9900 + IF share = promised THEN 0
                       ELSE (100 * (share - promised)) \div (n * EdgeShare[d][2] - promised)
           ELSE CHOOSE s \in 0..8000 : /\ s * s * promised <= 8000 * 8000 * share
                                       /\ (s + 1) * (s + 1) * promised > 8000 * 8000 * share]]]

(* Rounded, a pod more on the edge is still worth something, as it is with *)
(* the program's float64.                                                  *)
ASSUME QualityGrows ==
    \A d \in Deployment : \A n \in 1..Cardinality(Pod) : \A e, f \in 0..n :
        e < f => QoS[d][n][e] < QoS[d][n][f]

CountIn(S, d) == Cardinality({p \in S : DeploymentOf[p] = d})

(* A pod in a later list takes its new side; in two lists of one age it is *)
(* on both sides at once, which is an error.                               *)
CalcNumberOfQosSatisfactions(preCloud, preEdge, newCloud, newEdge) ==
    LET all  == preCloud \cup preEdge \cup newCloud \cup newEdge
        edge == newEdge \cup (preEdge \ newCloud)
    IN [ok     |-> preCloud \cap preEdge = {} /\ newCloud \cap newEdge = {},
        pods   |-> [d \in Deployment |-> CountIn(all, d)],
        onEdge |-> [d \in Deployment |-> CountIn(edge, d)],
        score  |-> MapThenSumSet(LAMBDA d : QoS[d][CountIn(all, d)][CountIn(edge, d)],
                                 {DeploymentOf[p] : p \in all})]

QoSNow(c) == CalcNumberOfQosSatisfactions(CloudPods(c), EdgePods(c), {}, {})

(* What the quality of p's deployment gains when by more (or -1: one less) *)
(* of its pods are on the edge, e being there now.                         *)
Gain(qos, p, e, by) ==
    LET q == QoS[DeploymentOf[p]][qos.pods[DeploymentOf[p]]] IN q[e + by] - q[e]

Weight == [p \in Pod |-> CalcDeFragmentation(Size(p), MaximumResources)]

(* Gains are compared per fragmentation of the pod (a pod that lacks one   *)
(* resource has none, and wins or loses against all others).               *)
HighestScore(gain) ==
    {p \in DOMAIN gain : \A q \in DOMAIN gain : gain[p] * Weight[q] >= gain[q] * Weight[p]}

-----------------------------------------------------------------------------
(* FitInEdge: the pods, in the order given, are cut into one segment per   *)
(* node.  A row of the table has for every prefix of the pods the best     *)
(* total and the mapping the parents spell out; -1 stands for -Inf.        *)

NoFit == [value |-> -1, mapping |-> <<>>]

FirstRow(pods) == [j \in 0..Len(pods) |-> IF j = 0 THEN [NoFit EXCEPT !.value = 0] ELSE NoFit]

Segment(pods, k, j) == {pods[i] : i \in (k + 1)..j}

Filled(rem, n, need) == [r \in Resource |-> Resources[n][r] - (rem[n][r] - need[r])]

(* Mutant: a segment is weighed without its first pod.                     *)
CutsShort(row, pods, n, rem, j) ==
    {k \in 0..j : row[k].value >= 0 /\ LEThan(TotalSize(Segment(pods, k + 1, j)), rem[n])}

(* Mutant: every node has to take a pod.                                   *)
CutsNonEmpty(row, pods, n, rem, j) ==
    {k \in 0..(j - 1) : row[k].value >= 0 /\ LEThan(TotalSize(Segment(pods, k, j)), rem[n])}

(* Where the segment of node n that ends with pod j may begin.             *)
Cuts(row, pods, n, rem, j) ==
    {k \in 0..j : row[k].value >= 0 /\ LEThan(TotalSize(Segment(pods, k, j)), rem[n])}

Totals(row, pods, n, rem, j) ==
    [k \in Cuts(row, pods, n, rem, j) |->
        row[k].value + CalcDeFragmentation(Filled(rem, n, TotalSize(Segment(pods, k, j))), Resources[n])]

(* The shortest of the segments that make the total the best.              *)
BestCut(total) == Max({k \in DOMAIN total : \A l \in DOMAIN total : total[l] <= total[k]})

Extended(row, pods, n, j, k, value) ==
    LET before == row[k].mapping
    IN [value   |-> value,
        mapping |-> [p \in DOMAIN before \cup Segment(pods, k, j) |->
                        IF p \in DOMAIN before THEN before[p] ELSE n]]

BestExtended(row, pods, n, j, total) ==
    IF total = <<>> THEN NoFit
    ELSE Extended(row, pods, n, j, BestCut(total), Max(Range(total)))

NextRow(row, pods, n, rem) ==
    [j \in DOMAIN row |-> BestExtended(row, pods, n, j, Totals(row, pods, n, rem, j))]

LastRow(pods, rem) ==
    FoldLeft(LAMBDA row, n : NextRow(row, pods, n, rem), FirstRow(pods), Nodes)

(* Mutant: a mapping is only returned if it has room for all the pods.     *)
ReadOffWhole(row) == row[Max(DOMAIN row)]

(* The mapping is that of the longest prefix that fits, the total that of  *)
(* all the pods.                                                           *)
ReadOff(row) ==
    [value   |-> row[Max(DOMAIN row)].value,
     mapping |-> row[Max({0} \cup {j \in DOMAIN row : row[j].value >= 0})].mapping]

FitInEdge(pods, rem) == ReadOff(LastRow(pods, rem))

(* Of several results one of the best is returned, or else the default.    *)
HighestValue(results) == {f \in results : \A g \in results : g.value <= f.value}

OrElse(results, default) == IF results = {} THEN {default} ELSE results

MostMapped(fits) ==
    {f \in fits : \A g \in fits : Cardinality(DOMAIN g.mapping) <= Cardinality(DOMAIN f.mapping)}

(* Resources of the edge nodes once the pods of S have left them.          *)
GivenBack(rem, c, S) ==
    [n \in EdgeNode |-> [r \in Resource |->
        rem[n][r] + TotalSize({p \in S : NodeOf(c, p) = n})[r]]]

RemainingAfterMoves(c, freed, migrations) ==
    LET back == GivenBack(RemainingOf(c), c, freed \cup DOMAIN migrations)
    IN [n \in EdgeNode |-> [r \in Resource |->
            back[n][r] - TotalSize({p \in DOMAIN migrations : migrations[p] = n})[r]]]

BestFits(pods, rem) == HighestValue(MostMapped({FitInEdge(q, rem) : q \in Orders(pods)}))

MapPodToEdge(c, pods, freed, migrations) ==
    OrElse({f.mapping : f \in BestFits(pods, RemainingAfterMoves(c, freed, migrations))}, <<>>)

-----------------------------------------------------------------------------
(* Freeing room on the edge: CalcState.                                    *)

(* Mutant: each pod may move if another one of its deployment runs, which  *)
(* may be moving too.                                                      *)
isAllowedToMoveSingly(c, freed, pods) ==
    \A p \in freed \cup pods : Running(c, p) => 1 < c.numRunning[DeploymentOf[p]]

isAllowedToMove(c, freed, pods) ==
    \A d \in Deployment :
        LET moving == CountIn({p \in freed \cup pods : Running(c, p)}, d)
        IN moving = 0 \/ moving < c.numRunning[d]

GetPossiblePodChoices(c, freed) ==
    {S \in SUBSET (EdgePods(c) \ freed) :
        Cardinality(S) \in 1..MaximumMigrations /\ isAllowedToMove(c, freed, S)}

(* A migration must beat the sum of what is *free* on the nodes, while its *)
(* own total is the sum of what is used.                                   *)
CalcMigrations(c, freed) ==
    LET rem     == GivenBack(RemainingOf(c), c, freed)
        current == MapThenSumSet(LAMBDA n : CalcDeFragmentation(rem[n], Resources[n]), EdgeNode)
        better(S) == {f \in {FitInEdge(q, GivenBack(rem, c, S)) : q \in Orders(S)} :
                         DOMAIN f.mapping = S /\ f.value > current}
    IN OrElse({f.mapping : f \in HighestValue(UNION {better(S) : S \in GetPossiblePodChoices(c, freed)})}, <<>>)

(* EvalFreePods goes through the edge pods, the least loss first, until    *)
(* enough is freed, and skips those whose deployment runs too few.         *)
FreeNext(c, need, qos, s) ==
    LET loss      == [p \in s.left |->
                         Gain(qos, p, qos.onEdge[DeploymentOf[p]] - CountIn(s.freed, DeploymentOf[p]), -1)]
        moving(p) == CountIn({q \in s.freed : Running(c, q)}, DeploymentOf[p])
    IN IF s.left = {} \/ ~LThan(TotalSize(s.freed), need) THEN {s}
       ELSE {[left  |-> s.left \ {p},
              freed |-> IF moving(p) + 1 >= c.numRunning[DeploymentOf[p]] THEN s.freed ELSE s.freed \cup {p}]
             : p \in HighestScore(loss)}

Freed(c, need, qos) ==
    LET step(S, i) == UNION {FreeNext(c, need, qos, s) : s \in S}
    IN {s.freed : s \in FoldLeft(step, {[left |-> EdgePods(c), freed |-> {}]}, SetToSeq(EdgePods(c)))}

EvalFreePods(c, least) ==
    IF ~QoSNow(c).ok THEN {{}}
    ELSE Freed(c, [r \in Resource |-> least[r] - EdgeFree(c)[r]], QoSNow(c))

-----------------------------------------------------------------------------
(* The decisions.                                                          *)

Outcomes(c, edge, canMigrate) ==
    IF canMigrate
    THEN IF LThan(EdgeResources, TotalSize(edge)) THEN {}
         ELSE UNION {{[freed |-> F, migrations |-> m] : m \in CalcMigrations(c, F)}
                     : F \in EvalFreePods(c, TotalSize(edge))}
    ELSE IF LEThan(TotalSize(edge), EdgeFree(c)) THEN {[freed |-> {}, migrations |-> <<>>]} ELSE {}

NoDecision == [freed |-> {}, migrations |-> <<>>, toEdge |-> {}, toCloud |-> {}]

(* What becomes of it when edge is the part of the new pods that goes to   *)
(* the edge.  A decision about nothing migrates nothing.                   *)
Scored(c, new, canMigrate, edge) ==
    LET scored ==
        {[decision |-> [freed |-> o.freed, toEdge |-> edge, toCloud |-> new \ edge,
                        migrations |-> IF o.freed \cup new = {} THEN <<>> ELSE o.migrations],
          qos |-> CalcNumberOfQosSatisfactions(CloudPods(c), EdgePods(c), o.freed \cup (new \ edge), edge)]
         : o \in Outcomes(c, edge, canMigrate)}
    IN {[decision |-> s.decision, value |-> s.qos.score] : s \in {x \in scored : x.qos.ok}}

(* Mutant: the last mask, all pods to the edge, is never tried.            *)
MasksShort(new) == (SUBSET new) \ {new}

Masks(new) == SUBSET new

MakeDecisionForNewPods(c, new, canMigrate) ==
    OrElse({s.decision : s \in HighestValue(UNION {Scored(c, new, canMigrate, E) : E \in Masks(new)})}, NoDecision)

(* SuggestCloudToEdge goes through the cloud pods, the greatest gain first *)
(* and never the only running one, and takes what still fits the edge.     *)
TakeNext(c, qos, s) ==
    LET willing == {p \in s.left : c.numRunning[DeploymentOf[p]] # 1}
        free    == [r \in Resource |-> EdgeFree(c)[r] - TotalSize(s.taken)[r]]
        gain    == [p \in willing |->
                       Gain(qos, p, qos.onEdge[DeploymentOf[p]] + CountIn(s.taken, DeploymentOf[p]), 1)]
    IN IF willing = {} \/ Cardinality(s.taken) >= MaximumCloudOffload THEN {s}
       ELSE {[left  |-> s.left \ {p},
              taken |-> IF LEThan(Size(p), free) THEN s.taken \cup {p} ELSE s.taken]
             : p \in HighestScore(gain)}

Taken(c, qos) ==
    LET step(S, i) == UNION {TakeNext(c, qos, s) : s \in S}
    IN {s.taken : s \in FoldLeft(step, {[left |-> CloudPods(c), taken |-> {}]}, SetToSeq(CloudPods(c)))}

SuggestCloudToEdge(c) == IF ~QoSNow(c).ok THEN {{}} ELSE Taken(c, QoSNow(c))

SuggestReorder(c) ==
    UNION {{[cloudToEdge |-> S, decision |-> d] : d \in MakeDecisionForNewPods(c, S, TRUE)}
           : S \in SuggestCloudToEdge(c)}
=============================================================================
