-------------------------- MODULE CostlessCSPProofs --------------------------
(***************************************************************************)
(* The label search for all applications: it never holds two labels, what  *)
(* a label carries along is the price of its split, and the split returned *)
(* is a partition that fits, with the latency that was searched for, and   *)
(* not dearer than no fusion.                                              *)
(***************************************************************************)
EXTENDS CostlessCSP, FusionCostProofs

Labels == [cost : Int, latency : Int, mem : Nat, part : Seq(SUBSET Fn)]

(* The search has come to the k-th function, with one label.               *)
OneLabel ==
    IF Chain = <<>>
    THEN labels = <<>> /\ pq = {}
    ELSE /\ labels \in [1..Len(Chain) -> SUBSET Labels]
         /\ \E k \in 1..Len(Chain), l \in Labels :
               /\ \A j \in 1..Len(Chain) : j < k => \E m : labels[j] = {m}
               /\ labels[k] = {l}
               /\ \A j \in 1..Len(Chain) : j > k => labels[j] = {}
               /\ pq = {<<k, l>>} \/ (pq = {} /\ k = Len(Chain))

OnPath(i, f) == \E j \in 1..i : Chain[j] = f

(* The blocks of a split: its groups, and everyone else alone.             *)
Blocks(part) == Range(part) \cup {{f} : f \in {g \in Fn : ~Assigned(part, g)}}

(* A split of the first i functions of the path.                           *)
SplitOf(i, part) ==
    /\ part \in Seq(SUBSET Fn) /\ Len(part) >= 1
    /\ PairwiseDisjoint(part)
    /\ \A j \in 1..Len(part) : part[j] # {}
    /\ \A f \in Fn : Assigned(part, f) <=> OnPath(i, f)
    /\ Chain[i] \in part[Len(part)]
    /\ \A j \in 1..Len(part) : \A f, g \in part[j] :
          f # g => app.mem[f] <= app.maxMem

PathTransfers ==
    [j \in 1..(Len(Chain) - 1) |-> DataTransferCost(app, Chain[j], Chain[j + 1])]

PathRuntimes == [j \in 1..Len(Chain) |-> RuntimeMs(app, Chain[j])]

Cuts(i, part) == {j \in 1..(i - 1) : SplitAt(part, j)}

(* What a label says of its split.                                         *)
Honest(i, l) ==
    /\ l.mem = GroupMemory(app, l.part[Len(l.part)])
    /\ l.cost = SumFunctionOnSet(PathTransfers, Cuts(i, l.part))
    /\ l.latency = app.hop * Cardinality(Cuts(i, l.part))
                   + SumFunctionOnSet(PathRuntimes, 1..i)

(* The blocks, in some order, cost no more than the functions alone.       *)
NotDearer(part) ==
    \E gs \in Seq(SUBSET Fn) :
        /\ IsPartition(gs) /\ Range(gs) = Blocks(part)
        /\ TotalCost(app, gs) <= TotalCost(app, Singletons(app))

GoodLabels ==
    \A i \in 1..Len(Chain) : \A l \in labels[i] :
        SplitOf(i, l.part) /\ Honest(i, l) /\ NotDearer(l.part)

(* Next to the labels, IInv says that nothing is left to extend when there *)
(* is a result, which is then good.                                        *)
IInv ==
    /\ Application(app)
    /\ OneLabel
    /\ GoodLabels
    /\ SplitReturned
    /\ NeverWorseThanNoFusion

-----------------------------------------------------------------------------
(* The price of a partition is that of its blocks, in whatever order.      *)
LEMMA SameBlocksSamePrice ==
    ASSUME NEW a, Application(a),
           NEW gs \in Seq(SUBSET Fn), IsPartition(gs),
           NEW hs \in Seq(SUBSET Fn), IsPartition(hs), Range(gs) = Range(hs)
    PROVE  TotalCost(a, gs) = TotalCost(a, hs)
<1> DEFINE n == Len(gs)
           m == Len(hs)
           w == GroupCharges(a, gs)
           v == GroupCharges(a, hs)
           b == [i \in 1..n |-> CHOOSE j \in 1..m : hs[j] = gs[i]]
<1>1. /\ n \in Nat /\ m \in Nat
      /\ \A i \in 1..n : gs[i] \in SUBSET Fn
      /\ \A j \in 1..m : hs[j] \in SUBSET Fn
  BY LenProperties, ElementOfSeq
<1>2. DOMAIN gs = 1..n /\ DOMAIN hs = 1..m
  BY LenProperties
<1>3. /\ \A i \in 1..n : \E j \in 1..m : hs[j] = gs[i]
      /\ \A j \in 1..m : \E i \in 1..n : hs[j] = gs[i]
  BY <1>2 DEF Range
<1>4. \A i \in 1..n : b[i] \in 1..m /\ hs[b[i]] = gs[i]
  BY <1>3
<1>5. /\ \A i, j \in 1..n : gs[i] = gs[j] => i = j
      /\ \A i, j \in 1..m : hs[i] = hs[j] => i = j
  BY DEF IsPartition, PairwiseDisjoint
<1>6. /\ \A i, j \in 1..n : b[i] = b[j] => i = j
      /\ \A j \in 1..m : \E i \in 1..n : j = b[i]
  BY <1>3, <1>4, <1>5
<1>7. \A i \in 1..n : w[i] \in Int /\ b[i] \in 1..m /\ v[b[i]] = w[i]
  BY <1>1, <1>4, GroupChargeTypes DEF GroupCharges
<1>8. IsFiniteSet(1..n)
  BY <1>1, FS_Interval
<1>9. SumFunctionOnSet(v, 1..m) = SumFunctionOnSet(w, 1..n)
  <2> DEFINE S == 1..n
             T == 1..m
  <2>1. /\ IsFiniteSet(S)
        /\ \A x \in S : w[x] \in Int /\ b[x] \in T /\ v[b[x]] = w[x]
        /\ \A x, y \in S : b[x] = b[y] => x = y
        /\ \A t \in T : \E x \in S : t = b[x]
    BY <1>6, <1>7, <1>8
  <2> HIDE DEF S, T, w, v, b
  <2>2. SumFunctionOnSet(v, T) = SumFunctionOnSet(w, S)
    BY <2>1, SumReindex
  <2> QED
    BY <2>2 DEF S, T
<1>10. \A f, g : Apart(gs, f, g) <=> Apart(hs, f, g)
  BY <1>3 DEF Apart, Assigned, Together
<1>11. CutEdges(a, gs) = CutEdges(a, hs)
  BY <1>10 DEF CutEdges
<1>12. SumFunction(w) = SumFunctionOnSet(w, 1..n) /\ SumFunction(v) = SumFunctionOnSet(v, 1..m)
  BY DEF SumFunction, GroupCharges
<1>13. /\ TotalCost(a, gs) = SumFunction(w) + SumFunctionOnSet(Transfers(a), CutEdges(a, gs))
       /\ TotalCost(a, hs) = SumFunction(v) + SumFunctionOnSet(Transfers(a), CutEdges(a, hs))
  BY DEF TotalCost, GroupCharges, Transfers
<1> QED
  BY <1>9, <1>11, <1>12, <1>13

(* Distances along the path.                                               *)
LEMMA PathTypes ==
    ASSUME Application(app)
    PROVE  /\ Chain \in Seq(Fn) /\ Len(Chain) \in Nat
           /\ \A j \in 1..Len(Chain) : Chain[j] \in Fn
           /\ \A i, j \in 1..Len(Chain) : Chain[i] = Chain[j] => i = j
           /\ \A j \in 1..(Len(Chain) - 1) : PathTransfers[j] \in Nat
           /\ \A j \in 1..Len(Chain) : PathRuntimes[j] \in Nat
           /\ app.hop \in Nat /\ app.maxMem \in Nat /\ app.maxLat \in Nat
           /\ app.mem \in [Fn -> Nat]
<1>1. /\ Chain \in Seq(Fn)
      /\ \A i, j \in 1..Len(Chain) : Chain[i] = Chain[j] => i = j
      /\ app.hop \in Nat /\ app.maxMem \in Nat /\ app.maxLat \in Nat
      /\ app.mem \in [Fn -> Nat]
  BY DEF Application, Chain
<1>2. Len(Chain) \in Nat /\ \A j \in 1..Len(Chain) : Chain[j] \in Fn
  BY <1>1, LenProperties, ElementOfSeq
<1>3. \A j \in 1..Len(Chain) : PathRuntimes[j] \in Nat
  BY <1>2, ChargeTypes DEF PathRuntimes
<1>4. ASSUME NEW j \in 1..(Len(Chain) - 1) PROVE PathTransfers[j] \in Nat
  <2>1. j \in 1..Len(Chain) /\ j + 1 \in 1..Len(Chain)
    BY <1>2
  <2>2. Chain[j] \in Fn /\ Chain[j + 1] \in Fn
    BY <1>2, <2>1
  <2> QED
    BY <2>2, ChargeTypes DEF PathTransfers
<1> QED
  BY <1>1, <1>2, <1>3, <1>4

-----------------------------------------------------------------------------
(* Splits *)

Merged(part, v) == Front(part) \o <<Last(part) \cup {v}>>

LEMMA MergedShape ==
    ASSUME NEW part \in Seq(SUBSET Fn), Len(part) >= 1, NEW v \in Fn
    PROVE  /\ Merged(part, v) \in Seq(SUBSET Fn)
           /\ Len(Merged(part, v)) = Len(part)
           /\ \A j \in 1..Len(part) : Merged(part, v)[j] =
                 IF j = Len(part) THEN part[j] \cup {v} ELSE part[j]
<1> DEFINE n == Len(part)
           front == Front(part)
           last == <<Last(part) \cup {v}>>
<1>1. n \in Nat /\ \A j \in 1..n : part[j] \in SUBSET Fn
  BY LenProperties, ElementOfSeq
<1>2. /\ front \in Seq(SUBSET Fn) /\ Len(front) = n - 1
      /\ \A j \in 1..(n - 1) : front[j] = part[j]
  <2>1. 1 \in Int /\ n - 1 \in Int /\ \A j \in 1..(n - 1) : part[j] \in SUBSET Fn
    BY <1>1
  <2>2. /\ front \in Seq(SUBSET Fn)
        /\ Len(front) = (IF 1 <= n - 1 THEN n - 1 - 1 + 1 ELSE 0)
        /\ \A j \in 1..(n - 1 - 1 + 1) : front[j] = part[1 + j - 1]
    BY <2>1, SubSeqProperties DEF Front
  <2> HIDE DEF front
  <2>3. Len(front) = n - 1
    <3>1. n \in Nat /\ n >= 1
      BY <1>1
    <3>2. Len(front) = (IF 1 <= n - 1 THEN n - 1 - 1 + 1 ELSE 0)
      BY <2>2
    <3> HIDE DEF n
    <3> QED
      BY <3>1, <3>2
  <2>4. ASSUME NEW j \in 1..(n - 1) PROVE front[j] = part[j]
    <3>1. j \in 1..(n - 1 - 1 + 1) /\ 1 + j - 1 = j
      BY <1>1
    <3> QED
      BY <2>2, <3>1
  <2> QED
    BY <2>2, <2>3, <2>4
<1>3. /\ last \in Seq(SUBSET Fn) /\ Len(last) = 1
      /\ last[1] = part[n] \cup {v}
  <2>1. part[n] \in SUBSET Fn
    BY <1>1
  <2> QED
    BY <2>1 DEF Last
<1> HIDE DEF front, last, n
<1>4. /\ front \o last \in Seq(SUBSET Fn)
      /\ Len(front \o last) = n
      /\ \A j \in 1..n : (front \o last)[j] =
            IF j <= Len(front) THEN front[j] ELSE last[j - Len(front)]
  <2>1. /\ Len(front \o last) = Len(front) + Len(last)
        /\ \A j \in 1..(Len(front) + Len(last)) : (front \o last)[j] =
              IF j <= Len(front) THEN front[j] ELSE last[j - Len(front)]
    <3>1. front \in Seq(SUBSET Fn) /\ last \in Seq(SUBSET Fn)
      BY <1>2, <1>3
    <3> QED
      BY <3>1, ConcatProperties
  <2>2. Len(front) + Len(last) = n
    BY <1>1, <1>2, <1>3
  <2>3. front \o last \in Seq(SUBSET Fn)
    <3>1. front \in Seq(SUBSET Fn) /\ last \in Seq(SUBSET Fn)
      BY <1>2, <1>3
    <3> QED
      BY <3>1, ConcatProperties
  <2> QED
    BY <2>1, <2>2, <2>3
<1>5. ASSUME NEW j \in 1..n
      PROVE  (front \o last)[j] = IF j = n THEN part[j] \cup {v} ELSE part[j]
  <2>1. CASE j = n
    <3>1. ~ j <= Len(front) /\ j - Len(front) = 1
      BY <1>1, <1>2, <2>1
    <3> QED
      BY <1>3, <1>4, <2>1, <3>1
  <2>2. CASE j # n
    <3>1. j \in 1..(n - 1) /\ j <= Len(front)
      BY <1>1, <1>2, <2>2
    <3> QED
      BY <1>2, <1>4, <2>2, <3>1
  <2> QED
    BY <2>1, <2>2
<1> QED
  BY <1>4, <1>5 DEF Merged, front, last, n

LEMMA CutShape ==
    ASSUME NEW part \in Seq(SUBSET Fn), NEW v \in Fn
    PROVE  /\ Append(part, {v}) \in Seq(SUBSET Fn)
           /\ Len(Append(part, {v})) = Len(part) + 1
           /\ \A j \in 1..(Len(part) + 1) : Append(part, {v})[j] =
                 IF j = Len(part) + 1 THEN {v} ELSE part[j]
<1>1. {v} \in SUBSET Fn
  OBVIOUS
<1>2. Len(part) \in Nat
  BY LenProperties
<1>3. /\ Append(part, {v}) \in Seq(SUBSET Fn)
      /\ Len(Append(part, {v})) = Len(part) + 1
      /\ \A j \in 1..Len(part) : Append(part, {v})[j] = part[j]
      /\ Append(part, {v})[Len(part) + 1] = {v}
  BY <1>1, AppendProperties
<1> QED
  BY <1>2, <1>3

(* The next function is on no split yet.                                   *)
LEMMA NextIsNew ==
    ASSUME Application(app), NEW i \in 1..(Len(Chain) - 1), NEW part, SplitOf(i, part)
    PROVE  /\ i \in 1..Len(Chain) /\ i + 1 \in 1..Len(Chain)
           /\ Chain[i + 1] \in Fn /\ Chain[i] # Chain[i + 1]
           /\ \A j \in 1..Len(part) : Chain[i + 1] \notin part[j]
           /\ Len(part) \in Nat /\ \A j \in 1..Len(part) : part[j] \in SUBSET Fn
<1>1. i \in 1..Len(Chain) /\ i + 1 \in 1..Len(Chain) /\ i # i + 1
  BY PathTypes
<1>2. Chain[i + 1] \in Fn /\ Chain[i] # Chain[i + 1]
  BY <1>1, PathTypes
<1>3. ~ OnPath(i, Chain[i + 1])
  <2> SUFFICES ASSUME NEW j \in 1..i, Chain[j] = Chain[i + 1] PROVE FALSE
    BY DEF OnPath
  <2>1. j \in 1..Len(Chain) /\ j # i + 1
    BY <1>1
  <2> QED
    BY <1>1, <2>1, PathTypes
<1>4. ~ Assigned(part, Chain[i + 1])
  BY <1>2, <1>3 DEF SplitOf
<1>5. part \in Seq(SUBSET Fn)
  BY DEF SplitOf
<1> QED
  BY <1>1, <1>2, <1>4, <1>5, LenProperties, ElementOfSeq DEF Assigned

(* A split of the first i and one of the next: who was together stays      *)
(* together, and who was not, too.                                         *)
LEMMA CutsSoFar ==
    ASSUME Application(app), NEW i \in 1..(Len(Chain) - 1),
           NEW part, SplitOf(i, part), NEW P,
           \A f, g \in Fn \ {Chain[i + 1]} :
              Together(P, f, g) <=> Together(part, f, g)
    PROVE  Cuts(i + 1, P) = Cuts(i, part)
                              \cup {j \in {i} : SplitAt(P, i)}
<1>1. ASSUME NEW j \in 1..(i - 1)
      PROVE  SplitAt(P, j) <=> SplitAt(part, j)
  <2>1. /\ j \in 1..Len(Chain) /\ j + 1 \in 1..Len(Chain)
        /\ j # i + 1 /\ j + 1 # i + 1 /\ i + 1 \in 1..Len(Chain)
    BY PathTypes
  <2>2. Chain[j] \in Fn \ {Chain[i + 1]} /\ Chain[j + 1] \in Fn \ {Chain[i + 1]}
    BY <2>1, PathTypes
  <2>3. Together(P, Chain[j], Chain[j + 1]) <=> Together(part, Chain[j], Chain[j + 1])
    BY <2>2
  <2> QED
    BY <2>3 DEF SplitAt, Together
<1>2. 1..((i + 1) - 1) = 1..(i - 1) \cup {i} /\ i \notin 1..(i - 1)
  BY PathTypes
<1>3. \A j \in 1..((i + 1) - 1) : j \in 1..(i - 1) \/ j = i
  BY <1>2
<1> QED
  BY <1>1, <1>2 DEF Cuts

LEMMA OnPathNext ==
    ASSUME NEW i \in Nat, NEW f
    PROVE  OnPath(i + 1, f) <=> OnPath(i, f) \/ f = Chain[i + 1]
<1>1. 1..(i + 1) = (1..i) \cup {i + 1}
  OBVIOUS
<1> QED
  BY <1>1 DEF OnPath

LEMMA MergeKeepsSplit ==
    ASSUME Application(app), NEW i \in 1..(Len(Chain) - 1), NEW part, SplitOf(i, part),
           GroupMemory(app, part[Len(part)]) <= app.maxMem,
           app.mem[Chain[i + 1]] <= app.maxMem
    PROVE  /\ SplitOf(i + 1, Merged(part, Chain[i + 1]))
           /\ Cuts(i + 1, Merged(part, Chain[i + 1])) = Cuts(i, part)
<1> DEFINE v == Chain[i + 1]
           P == Merged(part, v)
           n == Len(part)
<1>1. /\ v \in Fn /\ Chain[i] # v /\ n \in Nat
      /\ \A j \in 1..n : v \notin part[j] /\ part[j] \in SUBSET Fn
  BY NextIsNew
<1>2. part \in Seq(SUBSET Fn) /\ n >= 1 /\ n \in 1..n
  BY <1>1 DEF SplitOf
<1>3. /\ P \in Seq(SUBSET Fn) /\ Len(P) = n
      /\ \A j \in 1..n : P[j] = IF j = n THEN part[j] \cup {v} ELSE part[j]
  BY <1>1, <1>2, MergedShape
<1> HIDE DEF P, v, n
<1>4. /\ PairwiseDisjoint(part) /\ Chain[i] \in part[n]
      /\ \A j \in 1..n : part[j] # {}
      /\ \A f \in Fn : Assigned(part, f) <=> OnPath(i, f)
      /\ \A j \in 1..n : \A f, g \in part[j] : f # g => app.mem[f] <= app.maxMem
  BY DEF SplitOf, n
<1>5. PairwiseDisjoint(P)
  <2> SUFFICES ASSUME NEW j \in 1..n, NEW k \in 1..n, NEW f \in P[j], f \in P[k]
               PROVE  j = k
    BY <1>3 DEF PairwiseDisjoint
  <2>1. CASE f = v
    BY <1>1, <1>3, <2>1
  <2>2. CASE f # v
    <3>1. f \in part[j] /\ f \in part[k]
      BY <1>3, <2>2
    <3> QED
      BY <1>4, <3>1 DEF PairwiseDisjoint, n
  <2> QED
    BY <2>1, <2>2
<1>6. \A f \in Fn : Assigned(P, f) <=> OnPath(i + 1, f)
  <2>1. \A f \in Fn : OnPath(i + 1, f) <=> OnPath(i, f) \/ f = v
    <3>1. i \in Nat
      BY PathTypes
    <3> QED
      BY <3>1, OnPathNext DEF v
  <2>2. \A f \in Fn : Assigned(P, f) <=> Assigned(part, f) \/ f = v
    BY <1>2, <1>3 DEF Assigned, n
  <2> QED
    BY <1>4, <2>1, <2>2
<1>7. \A f \in part[n] : app.mem[f] <= app.maxMem
  <2>1. part[n] \in SUBSET Fn
    BY <1>1, <1>2
  <2>2. /\ GroupMemory(app, part[n]) \in Nat
        /\ \A f \in part[n] : app.mem[f] <= GroupMemory(app, part[n])
    BY <2>1, GroupMemoryIsMax
  <2>3. \A f \in part[n] : app.mem[f] \in Nat
    BY <2>1, PathTypes
  <2>4. app.maxMem \in Nat /\ GroupMemory(app, part[n]) <= app.maxMem
    BY PathTypes DEF n
  <2> QED
    BY <2>2, <2>3, <2>4
<1>8. \A j \in 1..Len(P) : \A f, g \in P[j] : f # g => app.mem[f] <= app.maxMem
  BY <1>3, <1>4, <1>7 DEF v
<1>9. v \in P[n] /\ \A j \in 1..n : P[j] # {}
  BY <1>2, <1>3, <1>4
<1>10. SplitOf(i + 1, P)
  BY <1>2, <1>3, <1>5, <1>6, <1>8, <1>9 DEF SplitOf, v
<1>11. \A f, g \in Fn \ {v} : Together(P, f, g) <=> Together(part, f, g)
  BY <1>3 DEF Together, n
<1>12. ~ SplitAt(P, i)
  BY <1>2, <1>3, <1>4 DEF SplitAt, v
<1>13. Cuts(i + 1, P) = Cuts(i, part)
  <2>1. Cuts(i + 1, P) = Cuts(i, part) \cup {j \in {i} : SplitAt(P, i)}
    BY <1>11, CutsSoFar DEF v
  <2> QED
    BY <1>12, <2>1
<1> QED
  BY <1>10, <1>13 DEF P, v

LEMMA CutKeepsSplit ==
    ASSUME Application(app), NEW i \in 1..(Len(Chain) - 1), NEW part, SplitOf(i, part)
    PROVE  /\ SplitOf(i + 1, Append(part, {Chain[i + 1]}))
           /\ Cuts(i + 1, Append(part, {Chain[i + 1]})) = Cuts(i, part) \cup {i}
<1> DEFINE v == Chain[i + 1]
           P == Append(part, {v})
           n == Len(part)
<1>1. /\ v \in Fn /\ Chain[i] # v /\ n \in Nat
      /\ \A j \in 1..n : v \notin part[j] /\ part[j] \in SUBSET Fn
  BY NextIsNew
<1>2. part \in Seq(SUBSET Fn) /\ n >= 1 /\ n \in 1..n
  BY <1>1 DEF SplitOf
<1>3. /\ P \in Seq(SUBSET Fn) /\ Len(P) = n + 1
      /\ \A j \in 1..(n + 1) : P[j] = IF j = n + 1 THEN {v} ELSE part[j]
  BY <1>1, <1>2, CutShape
<1> HIDE DEF P, v, n
<1>4. /\ PairwiseDisjoint(part) /\ Chain[i] \in part[n]
      /\ \A j \in 1..n : part[j] # {}
      /\ \A f \in Fn : Assigned(part, f) <=> OnPath(i, f)
      /\ \A j \in 1..n : \A f, g \in part[j] : f # g => app.mem[f] <= app.maxMem
  BY DEF SplitOf, n
<1>5. \A j \in 1..(n + 1) : j \in 1..n \/ j = n + 1
  BY <1>1
<1>6. \A j \in 1..n : j \in 1..(n + 1) /\ P[j] = part[j]
  BY <1>1, <1>3
<1>7. n + 1 \in 1..(n + 1) /\ P[n + 1] = {v}
  BY <1>1, <1>3
<1>8. PairwiseDisjoint(P)
  <2> SUFFICES ASSUME NEW j \in 1..(n + 1), NEW k \in 1..(n + 1), P[j] \cap P[k] # {}
               PROVE  j = k
    BY <1>3 DEF PairwiseDisjoint
  <2> QED
    BY <1>1, <1>4, <1>5, <1>6, <1>7 DEF PairwiseDisjoint, n
<1>9. \A f \in Fn : Assigned(P, f) <=> OnPath(i + 1, f)
  <2>1. \A f \in Fn : OnPath(i + 1, f) <=> OnPath(i, f) \/ f = v
    <3>1. i \in Nat
      BY PathTypes
    <3> QED
      BY <3>1, OnPathNext DEF v
  <2>2. \A f \in Fn : Assigned(P, f) <=> Assigned(part, f) \/ f = v
    BY <1>3, <1>5, <1>6, <1>7 DEF Assigned, n
  <2> QED
    BY <1>4, <2>1, <2>2
<1>10. \A j \in 1..(n + 1) : \A f, g \in P[j] : f # g => app.mem[f] <= app.maxMem
  BY <1>4, <1>5, <1>6, <1>7
<1>11. \A j \in 1..(n + 1) : P[j] # {}
  BY <1>4, <1>5, <1>6, <1>7
<1>12. Len(P) >= 1 /\ Chain[i + 1] \in P[Len(P)]
  BY <1>1, <1>3, <1>7 DEF v
<1>13. SplitOf(i + 1, P)
  BY <1>3, <1>8, <1>9, <1>10, <1>11, <1>12 DEF SplitOf
<1>14. \A f, g \in Fn \ {v} : Together(P, f, g) <=> Together(part, f, g)
  BY <1>3, <1>5, <1>6, <1>7 DEF Together, n
<1>15. SplitAt(P, i)
  <2> SUFFICES ASSUME NEW j \in 1..(n + 1), Chain[i] \in P[j], v \in P[j]
               PROVE  FALSE
    BY <1>3 DEF SplitAt, v
  <2> QED
    BY <1>1, <1>5, <1>6, <1>7
<1>16. Cuts(i + 1, P) = Cuts(i, part) \cup {i}
  <2>1. Cuts(i + 1, P) = Cuts(i, part) \cup {j \in {i} : SplitAt(P, i)}
    BY <1>14, CutsSoFar DEF v
  <2> QED
    BY <1>15, <2>1
<1> QED
  BY <1>13, <1>16 DEF P, v

-----------------------------------------------------------------------------
(* What is not on the path yet, alone: cutting changes no block, merging   *)
(* unites two.                                                             *)
LEMMA CutBlocks ==
    ASSUME Application(app), NEW i \in 1..(Len(Chain) - 1), NEW part, SplitOf(i, part)
    PROVE  Blocks(Append(part, {Chain[i + 1]})) = Blocks(part)
<1> DEFINE v == Chain[i + 1]
           P == Append(part, {v})
           n == Len(part)
<1>1. v \in Fn /\ n \in Nat /\ \A j \in 1..n : v \notin part[j]
  BY NextIsNew
<1>2. part \in Seq(SUBSET Fn)
  BY DEF SplitOf
<1>3. /\ P \in Seq(SUBSET Fn) /\ Len(P) = n + 1
      /\ \A j \in 1..(n + 1) : P[j] = IF j = n + 1 THEN {v} ELSE part[j]
  BY <1>1, <1>2, CutShape
<1>4. DOMAIN part = 1..n /\ DOMAIN P = 1..(n + 1)
  BY <1>2, <1>3, LenProperties
<1> HIDE DEF P, v
<1>5. /\ \A j \in 1..(n + 1) : j \in 1..n \/ j = n + 1
      /\ \A j \in 1..n : j \in 1..(n + 1) /\ P[j] = part[j]
      /\ n + 1 \in 1..(n + 1) /\ P[n + 1] = {v}
  BY <1>1, <1>3
<1>6. Range(P) = Range(part) \cup {{v}}
  BY <1>4, <1>5 DEF Range
<1>7. \A f \in Fn : Assigned(P, f) <=> Assigned(part, f) \/ f = v
  BY <1>3, <1>5 DEF Assigned
<1>8. ~ Assigned(part, v)
  BY <1>1 DEF Assigned
<1>9. {g \in Fn : ~Assigned(part, g)} = {g \in Fn : ~Assigned(P, g)} \cup {v}
  BY <1>1, <1>7, <1>8
<1> QED
  BY <1>6, <1>9 DEF Blocks, P, v

LEMMA MergeBlocks ==
    ASSUME Application(app), NEW i \in 1..(Len(Chain) - 1), NEW part, SplitOf(i, part)
    PROVE  LET v == Chain[i + 1]
               G == part[Len(part)]
           IN  /\ G \in Blocks(part) /\ {v} \in Blocks(part) /\ G # {v}
               /\ Blocks(Merged(part, v)) = (Blocks(part) \ {G, {v}}) \cup {G \cup {v}}
<1> DEFINE v == Chain[i + 1]
           P == Merged(part, v)
           n == Len(part)
           G == part[n]
<1>1. v \in Fn /\ n \in Nat /\ \A j \in 1..n : v \notin part[j]
  BY NextIsNew
<1>2. part \in Seq(SUBSET Fn) /\ n >= 1 /\ n \in 1..n
  BY <1>1 DEF SplitOf
<1>3. /\ P \in Seq(SUBSET Fn) /\ Len(P) = n
      /\ \A j \in 1..n : P[j] = IF j = n THEN part[j] \cup {v} ELSE part[j]
  BY <1>1, <1>2, MergedShape
<1>4. DOMAIN part = 1..n /\ DOMAIN P = 1..n
  BY <1>2, <1>3, LenProperties
<1>5. \A j, k \in 1..n : part[j] = part[k] => j = k
  BY DEF SplitOf, PairwiseDisjoint
<1> HIDE DEF P, v, n
<1>6. Range(P) = (Range(part) \ {G}) \cup {G \cup {v}}
  <2>1. \A j \in 1..n : j # n => P[j] = part[j] /\ part[j] # G
    BY <1>2, <1>3, <1>5
  <2>2. P[n] = G \cup {v}
    BY <1>2, <1>3
  <2> QED
    BY <1>2, <1>4, <2>1, <2>2 DEF Range
<1>7. \A f \in Fn : Assigned(P, f) <=> Assigned(part, f) \/ f = v
  BY <1>2, <1>3 DEF Assigned, n
<1>8. ~ Assigned(part, v)
  BY <1>1 DEF Assigned, n
<1> DEFINE A == {g \in Fn : ~Assigned(part, g)}
           B == {g \in Fn : ~Assigned(P, g)}
<1>9. A = B \cup {v} /\ v \notin B
  BY <1>1, <1>7, <1>8
<1>10. \A f \in A : {f} \notin Range(part)
  BY <1>4 DEF Range, Assigned, n
<1>11. G \in Range(part) /\ G # {v}
  BY <1>1, <1>2, <1>4 DEF Range
<1>12. /\ Blocks(part) = Range(part) \cup {{f} : f \in A}
       /\ Blocks(P) = Range(P) \cup {{f} : f \in B}
  BY DEF Blocks
<1>13. \A f \in B : {f} # {v} /\ {f} # G
  BY <1>9, <1>10, <1>11
<1>14. {v} \notin Range(part)
  BY <1>9, <1>10
<1> HIDE DEF A, B, G
<1>15. {{f} : f \in A} = {{f} : f \in B} \cup {{v}}
  BY <1>9
<1>16. Blocks(P) = (Blocks(part) \ {G, {v}}) \cup {G \cup {v}}
  <2> DEFINE D == {{f} : f \in B}
             R == Range(part)
  <2>1. G \notin D /\ {v} \notin D /\ {v} \notin R
    BY <1>13, <1>14
  <2>2. /\ Blocks(part) = R \cup (D \cup {{v}})
        /\ Blocks(P) = ((R \ {G}) \cup {G \cup {v}}) \cup D
    BY <1>6, <1>12, <1>15
  <2> HIDE DEF D, R
  <2> QED
    BY <2>1, <2>2
<1>17. G \in Blocks(part) /\ {v} \in Blocks(part) /\ G # {v}
  BY <1>11, <1>12, <1>15
<1> QED
  BY <1>16, <1>17 DEF P, v, n, G

LEMMA CutIsNotDearer ==
    ASSUME Application(app), NEW i \in 1..(Len(Chain) - 1), NEW part, SplitOf(i, part),
           NotDearer(part)
    PROVE  NotDearer(Append(part, {Chain[i + 1]}))
BY CutBlocks DEF NotDearer

(* The gate is exact, so a merge lowers the price of the whole.            *)
LEMMA MergeIsNotDearer ==
    ASSUME Application(app), NEW i \in 1..(Len(Chain) - 1), NEW part, SplitOf(i, part),
           NotDearer(part),
           MergeIsProfitable(app, part[Len(part)], {Chain[i + 1]})
    PROVE  NotDearer(Merged(part, Chain[i + 1]))
<1> DEFINE v == Chain[i + 1]
           G == part[Len(part)]
<1>1. /\ G \in Blocks(part) /\ {v} \in Blocks(part) /\ G # {v}
      /\ Blocks(Merged(part, v)) = (Blocks(part) \ {G, {v}}) \cup {G \cup {v}}
  BY MergeBlocks
<1>2. PICK gs \in Seq(SUBSET Fn) :
         /\ IsPartition(gs) /\ Range(gs) = Blocks(part)
         /\ TotalCost(app, gs) <= TotalCost(app, Singletons(app))
  BY DEF NotDearer
<1>3. MergeProfit(app, G, {v}) > 0
  BY DEF MergeIsProfitable
<1> HIDE DEF v, G
<1>4. PICK p \in 1..Len(gs), k \in 1..Len(gs) : gs[p] = G /\ gs[k] = {v} /\ p # k
  <2>1. DOMAIN gs = 1..Len(gs)
    BY <1>2, LenProperties
  <2> QED
    BY <1>1, <1>2, <2>1 DEF Range
<1> DEFINE M == MergeGroups(gs, p, k)
<1>5. M \in Seq(SUBSET Fn) /\ IsPartition(M)
  BY <1>2, <1>4, MergeGroupsShape, MergeKeepsPartition DEF MergeShape
<1>6. Range(M) = Blocks(Merged(part, v))
  <2>1. Range(M) = (Range(gs) \ {gs[p], gs[k]}) \cup {gs[p] \cup gs[k]}
    BY <1>2, <1>4, MergeGroupsRange
  <2> HIDE DEF M
  <2> QED
    BY <1>1, <1>2, <1>4, <2>1
<1>7. /\ TotalCost(app, M) = TotalCost(app, gs) - MergeProfit(app, gs[p], gs[k])
      /\ TotalCost(app, gs) \in Int
      /\ MergeProfit(app, gs[p], gs[k]) \in Int
  <2>1. PairwiseDisjoint(gs)
    BY <1>2 DEF IsPartition
  <2> QED
    BY <1>4, <2>1, MergeProfitIsExact
<1>8. TotalCost(app, Singletons(app)) \in Int
  BY SingletonsPartition, TotalCostInt
<1>9. TotalCost(app, M) <= TotalCost(app, Singletons(app))
  BY <1>2, <1>3, <1>4, <1>7, <1>8
<1> QED
  BY <1>5, <1>6, <1>9 DEF NotDearer, v

-----------------------------------------------------------------------------
(* What a label says *)

LEMMA RuntimeToHere ==
    ASSUME Application(app), NEW i \in 1..(Len(Chain) - 1)
    PROVE  /\ SumFunctionOnSet(PathRuntimes, 1..i) \in Int
           /\ SumFunctionOnSet(PathRuntimes, 1..(i + 1))
                 = SumFunctionOnSet(PathRuntimes, 1..i) + RuntimeMs(app, Chain[i + 1])
           /\ RuntimeMs(app, Chain[i + 1]) \in Int
<1> DEFINE S == 1..(i + 1)
           T == 1..i
<1>1. S = T \cup {i + 1} /\ i + 1 \notin T /\ T = S \ {i + 1} /\ i + 1 \in S
  BY PathTypes
<1>2. \A j \in S : j \in 1..Len(Chain)
  BY PathTypes
<1>3. \A j \in S : PathRuntimes[j] \in Int
  BY <1>2, PathTypes
<1>4. IsFiniteSet(S) /\ IsFiniteSet(T)
  <2>1. 1 \in Int /\ i \in Int /\ i + 1 \in Int
    BY PathTypes
  <2> QED
    BY <2>1, FS_Interval
<1>5. PathRuntimes[i + 1] = RuntimeMs(app, Chain[i + 1]) /\ PathRuntimes[i + 1] \in Int
  BY <1>1, <1>2, <1>3 DEF PathRuntimes
<1> DEFINE w == PathRuntimes
<1> HIDE DEF S, T, w
<1>6. SumFunctionOnSet(w, S) = w[i + 1] + SumFunctionOnSet(w, S \ {i + 1})
  BY <1>1, <1>3, <1>4, SumRemove DEF w
<1>7. SumFunctionOnSet(w, T) \in Int
  BY <1>1, <1>3, <1>4, SumInt DEF w
<1>8. SumFunctionOnSet(w, S) = SumFunctionOnSet(w, T) + w[i + 1]
  <2>1. S \ {i + 1} = T
    BY <1>1
  <2>2. SumFunctionOnSet(w, S) = w[i + 1] + SumFunctionOnSet(w, T)
    BY <1>6, <2>1
  <2>3. w[i + 1] \in Int
    BY <1>5 DEF w
  <2> QED
    BY <1>7, <2>2, <2>3
<1>9. /\ SumFunctionOnSet(PathRuntimes, S)
            = SumFunctionOnSet(PathRuntimes, T) + RuntimeMs(app, Chain[i + 1])
      /\ SumFunctionOnSet(PathRuntimes, T) \in Int
      /\ RuntimeMs(app, Chain[i + 1]) \in Int
  BY <1>5, <1>7, <1>8 DEF w
<1> QED
  BY <1>9 DEF S, T

LEMMA CutsAreFinite ==
    ASSUME Application(app), NEW i \in 1..Len(Chain), NEW part
    PROVE  /\ IsFiniteSet(Cuts(i, part)) /\ Cardinality(Cuts(i, part)) \in Nat
           /\ \A j \in Cuts(i, part) : PathTransfers[j] \in Int
           /\ SumFunctionOnSet(PathTransfers, Cuts(i, part)) \in Int
           /\ i \notin Cuts(i, part)
<1> DEFINE C == Cuts(i, part)
<1>1. IsFiniteSet(1..(i - 1))
  <2>1. 1 \in Int /\ i - 1 \in Int
    BY PathTypes
  <2> QED
    BY <2>1, FS_Interval
<1>2. C \in SUBSET (1..(i - 1)) /\ i \notin C
  BY PathTypes DEF Cuts
<1>3. \A j \in C : PathTransfers[j] \in Int
  <2>1. \A j \in 1..(i - 1) : j \in 1..(Len(Chain) - 1)
    BY PathTypes
  <2> QED
    BY <1>2, <2>1, PathTypes
<1> HIDE DEF C
<1>4. IsFiniteSet(C) /\ Cardinality(C) \in Nat
  BY <1>1, <1>2, FS_Subset, FS_CardinalityType
<1>5. SumFunctionOnSet(PathTransfers, C) \in Int
  <2> DEFINE w == PathTransfers
  <2>1. \A j \in C : w[j] \in Int
    BY <1>3
  <2> HIDE DEF w
  <2>2. SumFunctionOnSet(w, C) \in Int
    BY <1>4, <2>1, SumInt
  <2> QED
    BY <2>2 DEF w
<1> QED
  BY <1>2, <1>3, <1>4, <1>5 DEF C

(* GroupMemory of a group that takes one more function in.                 *)
LEMMA MemoryOfOneMore ==
    ASSUME Application(app), NEW G \in SUBSET Fn, NEW v \in Fn
    PROVE  Max({GroupMemory(app, G), app.mem[v]}) = GroupMemory(app, G \cup {v})
<1> DEFINE x == GroupMemory(app, G)
           y == app.mem[v]
           z == GroupMemory(app, G \cup {v})
<1>1. /\ x \in Nat /\ \A f \in G : app.mem[f] <= x
      /\ x = 0 \/ \E f \in G : x = app.mem[f]
  BY GroupMemoryIsMax
<1>2. /\ z \in Nat /\ \A f \in G \cup {v} : app.mem[f] <= z
      /\ z = 0 \/ \E f \in G \cup {v} : z = app.mem[f]
  BY GroupMemoryIsMax
<1>3. y \in Nat /\ y <= z
  BY <1>2, PathTypes
<1>4. x <= z
  BY <1>1, <1>2
<1>5. z = 0 \/ z <= x \/ z = y
  BY <1>1, <1>2
<1> HIDE DEF x, y, z
<1>6. Max({x, y}) \in {x, y} /\ \A e \in {x, y} : Max({x, y}) >= e
  <2>1. IsFiniteSet({x} \cup {y}) /\ {x} \cup {y} = {x, y}
    BY FS_Singleton, FS_AddElement
  <2>2. \A e \in {x, y} : e \in Int
    BY <1>1, <1>3
  <2> QED
    BY <2>1, <2>2, MaxExists
<1>7. Max({x, y}) = z
  BY <1>1, <1>2, <1>3, <1>4, <1>5, <1>6
<1> QED
  BY <1>7 DEF x, y, z

LEMMA MergeKeepsHonest ==
    ASSUME Application(app), NEW i \in 1..(Len(Chain) - 1),
           NEW u \in Labels, SplitOf(i, u.part), Honest(i, u),
           MayMerge(u, Chain[i + 1])
    PROVE  LET w == MergeLabel(u, Chain[i + 1])
           IN  w \in Labels /\ SplitOf(i + 1, w.part) /\ Honest(i + 1, w)
<1> DEFINE v == Chain[i + 1]
           w == MergeLabel(u, v)
           G == u.part[Len(u.part)]
<1>1. /\ v \in Fn /\ i \in 1..Len(Chain)
      /\ Len(u.part) \in Nat /\ u.part \in Seq(SUBSET Fn) /\ Len(u.part) >= 1
      /\ G \in SUBSET Fn
  <2>1. /\ v \in Fn /\ i \in 1..Len(Chain) /\ Len(u.part) \in Nat
        /\ \A j \in 1..Len(u.part) : u.part[j] \in SUBSET Fn
    BY NextIsNew
  <2>2. u.part \in Seq(SUBSET Fn) /\ Len(u.part) >= 1
    BY DEF SplitOf
  <2>3. Len(u.part) \in 1..Len(u.part)
    BY <2>1, <2>2
  <2> QED
    BY <2>1, <2>2, <2>3
<1>2. /\ w.part = Merged(u.part, v) /\ w.cost = u.cost
      /\ w.latency = u.latency + RuntimeMs(app, v)
      /\ w.mem = Max({u.mem, app.mem[v]})
  BY DEF MergeLabel, Label, Merged
<1>3. /\ SplitOf(i + 1, w.part) /\ Cuts(i + 1, w.part) = Cuts(i, u.part)
  <2>1. GroupMemory(app, G) <= app.maxMem /\ app.mem[v] <= app.maxMem
    BY DEF MayMerge, Honest
  <2> QED
    BY <1>2, <2>1, MergeKeepsSplit
<1>4. w.part[Len(w.part)] = G \cup {v} /\ w.part \in Seq(SUBSET Fn)
  <2> DEFINE n == Len(u.part)
             P == Merged(u.part, v)
  <2>1. /\ P \in Seq(SUBSET Fn) /\ Len(P) = n
        /\ \A j \in 1..n : P[j] = IF j = n THEN u.part[j] \cup {v} ELSE u.part[j]
    BY <1>1, MergedShape
  <2>2. n \in 1..n
    BY <1>1
  <2> HIDE DEF P, v
  <2>3. P[n] = G \cup {v}
    BY <2>1, <2>2
  <2> QED
    BY <1>2, <2>1, <2>3 DEF P, v
<1>5. w.mem = GroupMemory(app, G \cup {v}) /\ w.mem \in Nat
  <2>1. u.mem = GroupMemory(app, G)
    BY DEF Honest
  <2>2. Max({GroupMemory(app, G), app.mem[v]}) = GroupMemory(app, G \cup {v})
    BY <1>1, MemoryOfOneMore
  <2>3. G \cup {v} \in SUBSET Fn
    BY <1>1
  <2>4. GroupMemory(app, G \cup {v}) \in Nat
    BY <2>3, GroupMemoryIsMax
  <2> QED
    BY <1>2, <2>1, <2>2, <2>4
<1>6. /\ SumFunctionOnSet(PathRuntimes, 1..i) \in Int
      /\ SumFunctionOnSet(PathRuntimes, 1..(i + 1))
            = SumFunctionOnSet(PathRuntimes, 1..i) + RuntimeMs(app, v)
      /\ RuntimeMs(app, v) \in Int
  BY RuntimeToHere
<1>7. /\ u.latency = app.hop * Cardinality(Cuts(i, u.part))
                       + SumFunctionOnSet(PathRuntimes, 1..i)
      /\ u.cost = SumFunctionOnSet(PathTransfers, Cuts(i, u.part))
  BY DEF Honest
<1>8. u.cost \in Int /\ u.latency \in Int
  BY DEF Labels
<1>9. app.hop * Cardinality(Cuts(i, u.part)) \in Int
  <2>1. \A x, y \in Nat : x * y \in Int
    OBVIOUS
  <2> QED
    BY <1>1, <2>1, CutsAreFinite, PathTypes
<1>10. w \in Labels
  <2>1. w = [cost |-> w.cost, latency |-> w.latency, mem |-> w.mem, part |-> w.part]
    BY DEF MergeLabel, Label
  <2>2. w.cost \in Int /\ w.latency \in Int
    BY <1>2, <1>6, <1>8
  <2> HIDE DEF w
  <2> QED
    BY <1>4, <1>5, <2>1, <2>2 DEF Labels
<1> HIDE DEF w, v, G
<1>11. Honest(i + 1, w)
  <2>1. w.latency = app.hop * Cardinality(Cuts(i, u.part))
                    + SumFunctionOnSet(PathRuntimes, 1..(i + 1))
    BY <1>2, <1>6, <1>7, <1>9
  <2> QED
    BY <1>2, <1>3, <1>4, <1>5, <1>7, <2>1 DEF Honest
<1> QED
  BY <1>3, <1>10, <1>11 DEF w, v

LEMMA OneMoreCut ==
    ASSUME NEW C, NEW i, i \notin C, IsFiniteSet(C \cup {i}),
           \A j \in C \cup {i} : PathTransfers[j] \in Int
    PROVE  SumFunctionOnSet(PathTransfers, C \cup {i})
              = PathTransfers[i] + SumFunctionOnSet(PathTransfers, C)
<1> DEFINE D == C \cup {i}
           t == PathTransfers
<1>1. i \in D /\ D \ {i} = C /\ IsFiniteSet(D) /\ \A j \in D : t[j] \in Int
  OBVIOUS
<1> HIDE DEF D, t
<1>2. SumFunctionOnSet(t, D) = t[i] + SumFunctionOnSet(t, D \ {i})
  BY <1>1, SumRemove
<1> QED
  BY <1>1, <1>2 DEF D, t

LEMMA CutKeepsHonest ==
    ASSUME Application(app), NEW i \in 1..(Len(Chain) - 1),
           NEW u \in Labels, SplitOf(i, u.part), Honest(i, u)
    PROVE  LET w == CutLabel(i, u, Chain[i + 1])
           IN  w \in Labels /\ SplitOf(i + 1, w.part) /\ Honest(i + 1, w)
<1> DEFINE v == Chain[i + 1]
           w == CutLabel(i, u, v)
           C == Cuts(i, u.part)
           D == Cuts(i + 1, w.part)
<1>1. /\ v \in Fn /\ i \in 1..Len(Chain) /\ i + 1 \in 1..Len(Chain)
      /\ Len(u.part) \in Nat /\ u.part \in Seq(SUBSET Fn)
  BY NextIsNew DEF SplitOf
<1>2. /\ w.part = Append(u.part, {v})
      /\ w.cost = u.cost + DataTransferCost(app, Chain[i], v)
      /\ w.latency = u.latency + RuntimeMs(app, v) + app.hop
      /\ w.mem = app.mem[v]
  BY DEF CutLabel, Label
<1>3. SplitOf(i + 1, w.part) /\ D = C \cup {i}
  BY <1>2, CutKeepsSplit
<1>4. w.part[Len(w.part)] = {v} /\ w.part \in Seq(SUBSET Fn)
  <2>1. Len(u.part) + 1 \in 1..(Len(u.part) + 1)
    BY <1>1
  <2> QED
    BY <1>1, <1>2, <2>1, CutShape
<1>5. w.mem = GroupMemory(app, {v}) /\ w.mem \in Nat
  <2>1. /\ GroupMemory(app, {v}) \in Nat
        /\ \A f \in {v} : app.mem[f] <= GroupMemory(app, {v})
        /\ GroupMemory(app, {v}) = 0 \/ \E f \in {v} : GroupMemory(app, {v}) = app.mem[f]
    <3>1. {v} \in SUBSET Fn
      BY <1>1
    <3> QED
      BY <3>1, GroupMemoryIsMax
  <2>2. app.mem[v] \in Nat
    BY <1>1, PathTypes
  <2> QED
    BY <1>2, <2>1, <2>2
<1>6. /\ SumFunctionOnSet(PathRuntimes, 1..i) \in Int
      /\ SumFunctionOnSet(PathRuntimes, 1..(i + 1))
            = SumFunctionOnSet(PathRuntimes, 1..i) + RuntimeMs(app, v)
      /\ RuntimeMs(app, v) \in Int
  BY RuntimeToHere
<1>7. /\ u.latency = app.hop * Cardinality(C) + SumFunctionOnSet(PathRuntimes, 1..i)
      /\ u.cost = SumFunctionOnSet(PathTransfers, C)
  BY DEF Honest
<1>8. u.cost \in Int /\ u.latency \in Int /\ app.hop \in Nat
  BY PathTypes DEF Labels
<1>9. /\ IsFiniteSet(C) /\ Cardinality(C) \in Nat /\ i \notin C
      /\ IsFiniteSet(D) /\ \A j \in D : PathTransfers[j] \in Int
      /\ SumFunctionOnSet(PathTransfers, D) \in Int
      /\ SumFunctionOnSet(PathTransfers, C) \in Int
  BY <1>1, CutsAreFinite
<1>10. PathTransfers[i] = DataTransferCost(app, Chain[i], v) /\ PathTransfers[i] \in Nat
  BY PathTypes DEF PathTransfers
<1>11. w \in Labels
  <2>1. w = [cost |-> w.cost, latency |-> w.latency, mem |-> w.mem, part |-> w.part]
    BY DEF CutLabel, Label
  <2>2. w.cost \in Int
    BY <1>2, <1>8, <1>10
  <2>3. w.latency \in Int
    BY <1>2, <1>6, <1>8
  <2> HIDE DEF w
  <2> QED
    BY <1>4, <1>5, <2>1, <2>2, <2>3 DEF Labels
<1> HIDE DEF w, v, C, D
<1>12. Cardinality(D) = Cardinality(C) + 1
  BY <1>3, <1>9, FS_AddElement
<1>13. SumFunctionOnSet(PathTransfers, D) = PathTransfers[i] + SumFunctionOnSet(PathTransfers, C)
  BY <1>3, <1>9, OneMoreCut
<1>14. w.cost = SumFunctionOnSet(PathTransfers, D)
  BY <1>2, <1>7, <1>8, <1>9, <1>10, <1>13
<1>15. app.hop * Cardinality(D) = app.hop * Cardinality(C) + app.hop
       /\ app.hop * Cardinality(C) \in Int
  <2>1. \A h, c \in Nat : h * (c + 1) = h * c + h /\ h * c \in Int
    OBVIOUS
  <2> QED
    BY <1>8, <1>9, <1>12, <2>1
<1>16. w.latency = app.hop * Cardinality(D) + SumFunctionOnSet(PathRuntimes, 1..(i + 1))
  BY <1>2, <1>6, <1>7, <1>8, <1>15
<1>17. Honest(i + 1, w)
  BY <1>4, <1>5, <1>14, <1>16 DEF Honest, D
<1> QED
  BY <1>3, <1>11, <1>17 DEF w, v

-----------------------------------------------------------------------------
(* The search *)

LEMMA InsertIntoAtMostOne ==
    /\ \A l : Insert({}, l) = {l}
    /\ \A m, l : Dominates(m, l) => Insert({m}, l) = {m}
BY DEF Insert

(* The merge is as cheap as the cut and one hop faster, so that the cut is *)
(* dominated where the merge is allowed.                                   *)
LEMMA MergeDominatesCut ==
    ASSUME Application(app), NEW i \in 1..(Len(Chain) - 1), NEW u \in Labels
    PROVE  Dominates(MergeLabel(u, Chain[i + 1]), CutLabel(i, u, Chain[i + 1]))
<1>1. /\ PathTransfers[i] = DataTransferCost(app, Chain[i], Chain[i + 1])
      /\ PathTransfers[i] \in Nat
  BY PathTypes DEF PathTransfers
<1>2. RuntimeMs(app, Chain[i + 1]) \in Int /\ app.hop \in Nat
  BY RuntimeToHere, PathTypes
<1>3. u.cost \in Int /\ u.latency \in Int
  BY DEF Labels
<1>4. /\ MergeLabel(u, Chain[i + 1]).cost = u.cost
      /\ MergeLabel(u, Chain[i + 1]).latency = u.latency + RuntimeMs(app, Chain[i + 1])
      /\ CutLabel(i, u, Chain[i + 1]).cost
            = u.cost + DataTransferCost(app, Chain[i], Chain[i + 1])
      /\ CutLabel(i, u, Chain[i + 1]).latency
            = u.latency + RuntimeMs(app, Chain[i + 1]) + app.hop
  BY DEF MergeLabel, CutLabel, Label
<1> QED
  BY <1>1, <1>2, <1>3, <1>4 DEF Dominates

(* One turn of the loop: the one label is extended to one label.           *)
LEMMA ExtendStep ==
    ASSUME Application(app), OneLabel, NEW item \in pq, Extend(item)
    PROVE  \E k \in 1..(Len(Chain) - 1), u \in Labels : \E w :
              /\ labels[k] = {u}
              /\ \A j \in 1..Len(Chain) : j < k => \E m : labels[j] = {m}
              /\ \A j \in 1..Len(Chain) : j > k => labels[j] = {}
              /\ \/ MayMerge(u, Chain[k + 1]) /\ w = MergeLabel(u, Chain[k + 1])
                 \/ w = CutLabel(k, u, Chain[k + 1])
              /\ labels' = [labels EXCEPT ![k + 1] = {w}]
              /\ pq' = {<<k + 1, w>>}
<1>1. Chain # <<>>
  BY DEF OneLabel
<1>2. PICK k \in 1..Len(Chain), u \in Labels :
         /\ \A j \in 1..Len(Chain) : j < k => \E m : labels[j] = {m}
         /\ labels[k] = {u}
         /\ \A j \in 1..Len(Chain) : j > k => labels[j] = {}
         /\ pq = {<<k, u>>} \/ (pq = {} /\ k = Len(Chain))
  BY <1>1 DEF OneLabel
<1>3. item = <<k, u>> /\ pq = {<<k, u>>}
  BY <1>2
<1>4. item[1] = k /\ item[2] = u
  BY <1>3
<1>5. k < Len(Chain)
  BY <1>4 DEF Extend
<1>6. k \in 1..(Len(Chain) - 1) /\ k + 1 \in 1..Len(Chain) /\ k + 1 > k
  BY <1>5, PathTypes
<1>7. labels[k + 1] = {}
  BY <1>2, <1>6
<1> DEFINE v == Chain[k + 1]
           m == MergeLabel(u, v)
           c == CutLabel(k, u, v)
           merged == IF MayMerge(u, v) THEN Insert(labels[k + 1], m) ELSE labels[k + 1]
           both == Insert(merged, c)
           w == IF MayMerge(u, v) THEN m ELSE c
<1>8. /\ labels' = [labels EXCEPT ![k + 1] = both]
      /\ pq' = (pq \ {item}) \cup {<<k + 1, l>> : l \in (merged \cup both) \ labels[k + 1]}
  BY <1>4 DEF Extend
<1>9. Dominates(m, c)
  BY <1>6, MergeDominatesCut
<1>10. w = m \/ w = c
  OBVIOUS
<1>11. MayMerge(u, v) => w = m
  OBVIOUS
<1>12. ~ MayMerge(u, v) => w = c
  OBVIOUS
<1> HIDE DEF v, m, c, w
<1>13. both = {w} /\ merged \cup both = {w}
  <2>1. CASE MayMerge(u, v)
    <3>1. merged = {m}
      BY <1>7, <2>1, InsertIntoAtMostOne
    <3> HIDE DEF merged
    <3>2. both = {m}
      BY <1>9, <3>1, InsertIntoAtMostOne
    <3> QED
      BY <1>11, <2>1, <3>1, <3>2
  <2>2. CASE ~ MayMerge(u, v)
    <3>1. merged = {}
      BY <1>7, <2>2
    <3> HIDE DEF merged
    <3>2. both = {c}
      BY <3>1, InsertIntoAtMostOne
    <3> QED
      BY <1>12, <2>2, <3>1, <3>2
  <2> QED
    BY <2>1, <2>2
<1> HIDE DEF merged, both
<1>14. labels' = [labels EXCEPT ![k + 1] = {w}] /\ pq' = {<<k + 1, w>>}
  BY <1>3, <1>7, <1>8, <1>13
<1>15. (MayMerge(u, v) /\ w = m) \/ w = c
  BY <1>11, <1>12
<1>16. \/ MayMerge(u, Chain[k + 1]) /\ w = MergeLabel(u, Chain[k + 1])
       \/ w = CutLabel(k, u, Chain[k + 1])
  BY <1>15 DEF v, m, c
<1> QED
  BY <1>2, <1>6, <1>14, <1>16

LEMMA ExtendKeepsLabels ==
    ASSUME Application(app), OneLabel, GoodLabels, NEW item \in pq, Extend(item)
    PROVE  OneLabel' /\ GoodLabels'
<1>1. app' = app
  BY DEF Extend
<1>2. PICK k \in 1..(Len(Chain) - 1), u \in Labels : \E w :
         /\ labels[k] = {u}
         /\ \A j \in 1..Len(Chain) : j < k => \E m : labels[j] = {m}
         /\ \A j \in 1..Len(Chain) : j > k => labels[j] = {}
         /\ \/ MayMerge(u, Chain[k + 1]) /\ w = MergeLabel(u, Chain[k + 1])
            \/ w = CutLabel(k, u, Chain[k + 1])
         /\ labels' = [labels EXCEPT ![k + 1] = {w}]
         /\ pq' = {<<k + 1, w>>}
  BY ExtendStep
<1>0. PICK w :
         /\ labels[k] = {u}
         /\ \A j \in 1..Len(Chain) : j < k => \E m : labels[j] = {m}
         /\ \A j \in 1..Len(Chain) : j > k => labels[j] = {}
         /\ \/ MayMerge(u, Chain[k + 1]) /\ w = MergeLabel(u, Chain[k + 1])
            \/ w = CutLabel(k, u, Chain[k + 1])
         /\ labels' = [labels EXCEPT ![k + 1] = {w}]
         /\ pq' = {<<k + 1, w>>}
  BY <1>2
<1>3. /\ Len(Chain) \in Nat /\ k \in 1..Len(Chain) /\ k + 1 \in 1..Len(Chain)
      /\ Chain # <<>>
  BY PathTypes
<1>4. SplitOf(k, u.part) /\ Honest(k, u) /\ NotDearer(u.part)
  BY <1>0, <1>3 DEF GoodLabels
<1>5. w \in Labels /\ SplitOf(k + 1, w.part) /\ Honest(k + 1, w) /\ NotDearer(w.part)
  <2>1. CASE MayMerge(u, Chain[k + 1]) /\ w = MergeLabel(u, Chain[k + 1])
    <3>1. w \in Labels /\ SplitOf(k + 1, w.part) /\ Honest(k + 1, w)
      BY <1>4, <2>1, MergeKeepsHonest
    <3>2. w.part = Merged(u.part, Chain[k + 1])
      BY <2>1 DEF MergeLabel, Label, Merged
    <3>3. MergeIsProfitable(app, u.part[Len(u.part)], {Chain[k + 1]})
      BY <2>1 DEF MayMerge, Last
    <3>4. NotDearer(w.part)
      BY <1>4, <3>2, <3>3, MergeIsNotDearer
    <3> QED
      BY <3>1, <3>4
  <2>2. CASE w = CutLabel(k, u, Chain[k + 1])
    <3>1. w \in Labels /\ SplitOf(k + 1, w.part) /\ Honest(k + 1, w)
      BY <1>4, <2>2, CutKeepsHonest
    <3>2. w.part = Append(u.part, {Chain[k + 1]})
      BY <2>2 DEF CutLabel, Label
    <3>3. NotDearer(w.part)
      BY <1>4, <3>2, CutIsNotDearer
    <3> QED
      BY <3>1, <3>3
  <2> QED
    BY <1>0, <2>1, <2>2
<1>6. labels \in [1..Len(Chain) -> SUBSET Labels]
  BY <1>3 DEF OneLabel
<1>7. /\ labels' \in [1..Len(Chain) -> SUBSET Labels]
      /\ labels'[k + 1] = {w}
      /\ \A j \in 1..Len(Chain) : j # k + 1 => labels'[j] = labels[j]
  BY <1>0, <1>3, <1>5, <1>6
<1>8. Chain' = Chain
  BY <1>1 DEF Chain
<1>9. OneLabel'
  <2>1. \A j \in 1..Len(Chain) : j < k + 1 => \E m : labels'[j] = {m}
    <3> SUFFICES ASSUME NEW j \in 1..Len(Chain), j < k + 1
                 PROVE  \E m : labels'[j] = {m}
      OBVIOUS
    <3>1. labels'[j] = labels[j] /\ (j < k \/ j = k)
      BY <1>3, <1>7
    <3> QED
      BY <1>0, <3>1
  <2>2. \A j \in 1..Len(Chain) : j > k + 1 => labels'[j] = {}
    BY <1>0, <1>3, <1>7
  <2> QED
    BY <1>0, <1>3, <1>5, <1>7, <1>8, <2>1, <2>2 DEF OneLabel
<1>10. ASSUME NEW j \in 1..Len(Chain), NEW l \in labels'[j]
       PROVE  SplitOf(j, l.part) /\ Honest(j, l) /\ NotDearer(l.part)
  <2>1. CASE j = k + 1
    BY <1>5, <1>7, <2>1
  <2>2. CASE j # k + 1
    BY <1>7, <2>2 DEF GoodLabels
  <2> QED
    BY <2>1, <2>2
<1>11. \A j, l : /\ SplitOf(j, l.part)' <=> SplitOf(j, l.part)
                 /\ Honest(j, l)' <=> Honest(j, l)
                 /\ NotDearer(l.part)' <=> NotDearer(l.part)
  BY <1>1, <1>8
     DEF SplitOf, Honest, NotDearer, OnPath, Cuts, SplitAt, PathTransfers,
         PathRuntimes
<1> QED
  BY <1>8, <1>9, <1>10, <1>11 DEF GoodLabels

-----------------------------------------------------------------------------
(* The label at the first function: one group, no cut, nothing paid.       *)
LEMMA FirstSplit ==
    ASSUME Application(app), Chain # <<>>
    PROVE  /\ 1 \in 1..Len(Chain) /\ Chain[1] \in Fn
           /\ <<{Chain[1]}>> \in Seq(SUBSET Fn)
           /\ SplitOf(1, <<{Chain[1]}>>)
           /\ NotDearer(<<{Chain[1]}>>)
           /\ InitialLabel(app) \in Labels
           /\ Honest(1, InitialLabel(app))
           /\ InitialLabel(app).part = <<{Chain[1]}>>
<1> DEFINE f == Chain[1]
           P == <<{f}>>
           l == InitialLabel(app)
<1>1. 1 \in 1..Len(Chain) /\ f \in Fn
  <2>1. Chain \in Seq(Fn) /\ Len(Chain) \in Nat
    BY PathTypes
  <2>2. Len(Chain) # 0
    BY <2>1, EmptySeq
  <2> QED
    BY <2>1, <2>2, PathTypes
<1>2. P \in Seq(SUBSET Fn) /\ Len(P) = 1 /\ P[1] = {f}
  <2>1. {f} \in SUBSET Fn
    BY <1>1
  <2> QED
    BY <2>1
<1>3. l = [cost |-> 0, latency |-> RuntimeMs(app, f), mem |-> app.mem[f], part |-> P]
  BY DEF InitialLabel, Label, Chain
<1>4. 1..1 = {1}
  OBVIOUS
<1> HIDE DEF P, l
<1>5. /\ \A j \in 1..Len(P) : P[j] = {f}
      /\ \A g : Assigned(P, g) <=> g = f
  BY <1>2, <1>4 DEF Assigned
<1>6. SplitOf(1, P)
  <2>1. PairwiseDisjoint(P)
    BY <1>2, <1>4 DEF PairwiseDisjoint
  <2>2. \A g : OnPath(1, g) <=> g = f
    BY <1>4 DEF OnPath
  <2> QED
    BY <1>2, <1>5, <2>1, <2>2 DEF SplitOf
<1>7. NotDearer(P)
  <2> DEFINE gs == Singletons(app)
  <2>1. /\ gs \in Seq(SUBSET Fn) /\ IsPartition(gs)
        /\ Len(gs) = Len(app.functions)
        /\ \A i \in 1..Len(app.functions) : gs[i] = {app.functions[i]}
    BY SingletonsPartition
  <2>2. DOMAIN gs = 1..Len(app.functions) /\ DOMAIN P = 1..1
    BY <1>2, <2>1, LenProperties
  <2>3. /\ \A i \in 1..Len(app.functions) : app.functions[i] \in Fn
        /\ \A g \in Fn : \E i \in 1..Len(app.functions) : app.functions[i] = g
    <3>1. app.functions \in Seq(Fn)
      BY DEF Application
    <3> QED
      BY <3>1, ElementOfSeq DEF Application
  <2>4. Range(P) = {{f}}
    <3>1. DOMAIN P = {1} /\ P[1] = {f}
      BY <1>2, <1>4, <2>2
    <3>2. Range(P) = {P[x] : x \in {1}}
      BY <3>1 DEF Range
    <3>3. {P[x] : x \in {1}} = {P[1]}
      OBVIOUS
    <3> QED
      BY <3>1, <3>2, <3>3
  <2> HIDE DEF gs
  <2>5. Range(gs) = {{g} : g \in Fn}
    <3> DEFINE N == 1..Len(app.functions)
    <3>1. /\ DOMAIN gs = N
          /\ \A i \in N : gs[i] = {app.functions[i]} /\ app.functions[i] \in Fn
          /\ \A g \in Fn : \E i \in N : app.functions[i] = g
      BY <2>1, <2>2, <2>3
    <3> HIDE DEF N
    <3>2. \A e \in Range(gs) : \E g \in Fn : e = {g}
      BY <3>1 DEF Range
    <3>3. ASSUME NEW g \in Fn PROVE {g} \in Range(gs)
      <4>1. PICK i \in N : app.functions[i] = g
        BY <3>1
      <4>2. i \in DOMAIN gs /\ gs[i] = {g}
        BY <3>1, <4>1
      <4> QED
        BY <4>2 DEF Range
    <3> QED
      BY <3>2, <3>3
  <2>6. Blocks(P) = {{g} : g \in Fn}
    BY <1>1, <1>5, <2>4 DEF Blocks
  <2>7. TotalCost(app, gs) \in Int
    BY <2>1, TotalCostInt
  <2>8. TotalCost(app, gs) <= TotalCost(app, Singletons(app))
    BY <2>7 DEF gs
  <2> QED
    BY <2>1, <2>5, <2>6, <2>8 DEF NotDearer
<1>8. RuntimeMs(app, f) \in Nat /\ app.mem[f] \in Nat
  BY <1>1, ChargeTypes, PathTypes
<1>9. l \in Labels
  BY <1>2, <1>3, <1>8 DEF Labels
<1>10. SumFunctionOnSet(PathRuntimes, 1..1) = RuntimeMs(app, f)
  <2> DEFINE w == PathRuntimes
  <2>1. w[1] = RuntimeMs(app, f)
    BY <1>1 DEF PathRuntimes
  <2> HIDE DEF w, f
  <2>2. IsFiniteSet({1}) /\ 1 \in {1} /\ {1} \ {1} = {}
    BY FS_Singleton
  <2>3. \A x \in {1} : w[x] \in Int
    BY <1>8, <2>1
  <2>4. SumFunctionOnSet(w, {1}) = w[1] + SumFunctionOnSet(w, {1} \ {1})
    BY <2>2, <2>3, SumRemove
  <2>5. SumFunctionOnSet(w, {}) = 0
    BY SumOfEmpty
  <2>6. SumFunctionOnSet(w, {1}) = RuntimeMs(app, f) + 0
    BY <2>1, <2>2, <2>4, <2>5
  <2>7. SumFunctionOnSet(w, {1}) = RuntimeMs(app, f)
    BY <1>8, <2>6
  <2> QED
    BY <1>4, <2>7 DEF w
<1>11. Cuts(1, P) = {} /\ Cardinality(Cuts(1, P)) = 0
  BY FS_EmptySet DEF Cuts
<1>12. SumFunctionOnSet(PathTransfers, {}) = 0
  BY SumOfEmpty
<1>13. app.mem[f] = GroupMemory(app, {f})
  <2>1. {f} \in SUBSET Fn
    BY <1>1
  <2>2. /\ GroupMemory(app, {f}) \in Nat
        /\ \A g \in {f} : app.mem[g] <= GroupMemory(app, {f})
        /\ \/ GroupMemory(app, {f}) = 0
           \/ \E g \in {f} : GroupMemory(app, {f}) = app.mem[g]
    BY <2>1, GroupMemoryIsMax
  <2> QED
    BY <1>8, <2>2
<1>14. Honest(1, l)
  <2>1. l.mem = GroupMemory(app, l.part[Len(l.part)])
    BY <1>2, <1>3, <1>13
  <2>2. l.cost = SumFunctionOnSet(PathTransfers, Cuts(1, l.part))
    BY <1>3, <1>11, <1>12
  <2>3. app.hop * 0 + RuntimeMs(app, f) = RuntimeMs(app, f)
    BY <1>8, PathTypes
  <2>4. l.latency = app.hop * Cardinality(Cuts(1, l.part))
                    + SumFunctionOnSet(PathRuntimes, 1..1)
    BY <1>3, <1>10, <1>11, <2>3
  <2> QED
    BY <2>1, <2>2, <2>4 DEF Honest
<1> QED
  BY <1>1, <1>2, <1>3, <1>6, <1>7, <1>9, <1>14 DEF P, l

LEMMA InitIInv == Init => IInv
<1> SUFFICES ASSUME Init PROVE IInv
  OBVIOUS
<1>1. Application(app)
  BY CSPAssumption DEF Init
<1>2. SplitReturned /\ NeverWorseThanNoFusion
  BY DEF Init, SplitReturned, NeverWorseThanNoFusion, Succeeded
<1>3. CASE Chain = <<>>
  <2>1. labels = <<>> /\ pq = {}
    BY <1>3 DEF Init
  <2>2. 1..Len(Chain) = {}
    BY <1>3
  <2> QED
    BY <1>1, <1>2, <1>3, <2>1, <2>2 DEF IInv, OneLabel, GoodLabels
<1>4. CASE Chain # <<>>
  <2> DEFINE l == InitialLabel(app)
  <2>1. /\ 1 \in 1..Len(Chain) /\ l \in Labels /\ Len(Chain) \in Nat
        /\ SplitOf(1, l.part) /\ Honest(1, l) /\ NotDearer(l.part)
    BY <1>1, <1>4, FirstSplit, PathTypes
  <2>2. /\ labels = [i \in 1..Len(Chain) |-> IF i = 1 THEN {l} ELSE {}]
        /\ pq = {<<1, l>>}
    BY <1>4 DEF Init
  <2> HIDE DEF l
  <2>3. /\ labels \in [1..Len(Chain) -> SUBSET Labels] /\ labels[1] = {l}
        /\ \A j \in 1..Len(Chain) : j # 1 => labels[j] = {}
    BY <2>1, <2>2
  <2>4. OneLabel
    <3>1. \A j \in 1..Len(Chain) : ~ (j < 1) /\ (j > 1 => j # 1)
      BY <2>1
    <3> QED
      BY <1>4, <2>1, <2>2, <2>3, <3>1 DEF OneLabel
  <2>5. GoodLabels
    <3> SUFFICES ASSUME NEW i \in 1..Len(Chain), NEW m \in labels[i]
                 PROVE  SplitOf(i, m.part) /\ Honest(i, m) /\ NotDearer(m.part)
      BY DEF GoodLabels
    <3>1. i = 1 /\ m = l
      BY <2>3
    <3> QED
      BY <2>1, <3>1
  <2> QED
    BY <1>1, <1>2, <2>4, <2>5 DEF IInv
<1> QED
  BY <1>3, <1>4

LEMMA SkipKeepsLabels ==
    ASSUME Application(app), OneLabel, GoodLabels, NEW item \in pq, Skip(item)
    PROVE  OneLabel' /\ GoodLabels'
<1>1. /\ app' = app /\ labels' = labels /\ pq' = pq \ {item} /\ item[1] = Len(Chain)
      /\ Chain' = Chain
  BY DEF Skip, Chain
<1>2. Chain # <<>>
  BY DEF OneLabel
<1>3. PICK k \in 1..Len(Chain), l \in Labels :
         /\ \A j \in 1..Len(Chain) : j < k => \E m : labels[j] = {m}
         /\ labels[k] = {l}
         /\ \A j \in 1..Len(Chain) : j > k => labels[j] = {}
         /\ pq = {<<k, l>>} \/ (pq = {} /\ k = Len(Chain))
  BY <1>2 DEF OneLabel
<1>4. pq' = {} /\ k = Len(Chain)
  BY <1>1, <1>3
<1>5. labels' \in [1..Len(Chain) -> SUBSET Labels]
  BY <1>1, <1>2 DEF OneLabel
<1>6. /\ \A j \in 1..Len(Chain) : j < k => \E m : labels'[j] = {m}
      /\ labels'[k] = {l}
      /\ \A j \in 1..Len(Chain) : j > k => labels'[j] = {}
  BY <1>1, <1>3
<1>7. OneLabel'
  BY <1>1, <1>2, <1>4, <1>5, <1>6 DEF OneLabel
<1>8. \A j, m : /\ SplitOf(j, m.part)' <=> SplitOf(j, m.part)
                /\ Honest(j, m)' <=> Honest(j, m)
                /\ NotDearer(m.part)' <=> NotDearer(m.part)
  BY <1>1
     DEF SplitOf, Honest, NotDearer, OnPath, Cuts, SplitAt, PathTransfers,
         PathRuntimes
<1> QED
  BY <1>1, <1>7, <1>8 DEF GoodLabels

-----------------------------------------------------------------------------
(* The groups returned *)

(* The split of the whole path, then a group for everyone else.            *)
LEMMA FinalShape ==
    ASSUME NEW l \in Labels, NEW rest \in SetToSeqs(Unassigned(l))
    PROVE  LET gs == FinalGroups(l, rest)
               n == Len(l.part)
               m == Len(rest)
           IN  /\ gs \in Seq(SUBSET Fn) /\ Len(gs) = n + m
               /\ n \in Nat /\ m \in Nat
               /\ \A j \in 1..n : gs[j] = l.part[j]
               /\ \A j \in 1..m : gs[n + j] = {rest[j]}
               /\ \A j \in 1..(n + m) : j \in 1..n \/ \E k \in 1..m : j = n + k
               /\ \A j, k \in 1..m : rest[j] = rest[k] => j = k
               /\ \A f : f \in Fn /\ ~ Assigned(l.part, f)
                            <=> \E j \in 1..m : rest[j] = f
<1> DEFINE part == l.part
           n == Len(part)
           m == Len(rest)
           tail == [i \in 1..m |-> {rest[i]}]
           U == Unassigned(l)
<1>1. part \in Seq(SUBSET Fn)
  BY DEF Labels
<1>2. \A f : f \in U <=> f \in Fn /\ ~ Assigned(part, f)
  <2>1. DOMAIN part = 1..n
    BY <1>1, LenProperties
  <2> QED
    BY <2>1 DEF Unassigned, Range, Assigned
<1>3. IsFiniteSet(U) /\ U \subseteq Fn
  BY FnAssumption, FS_Subset DEF Unassigned
<1>4. /\ rest \in Seq(U)
      /\ \A i, j \in 1..m : rest[i] = rest[j] => i = j
      /\ \A f \in U : \E i \in 1..m : rest[i] = f
  BY <1>3, SeqsOfSet
<1>5. n \in Nat /\ m \in Nat
  BY <1>1, <1>4, LenProperties
<1>6. \A i \in 1..m : rest[i] \in U
  BY <1>4, ElementOfSeq
<1> HIDE DEF U, part
<1>7. tail \in Seq(SUBSET Fn) /\ Len(tail) = m /\ \A i \in 1..m : tail[i] = {rest[i]}
  <2>1. \A i \in 1..m : {rest[i]} \in SUBSET Fn
    BY <1>3, <1>6
  <2> QED
    BY <1>5, <2>1
<1>8. FinalGroups(l, rest) = part \o tail
  BY DEF FinalGroups, part
<1> HIDE DEF tail, n, m
<1>9. /\ part \o tail \in Seq(SUBSET Fn)
      /\ Len(part \o tail) = n + m
      /\ \A i \in 1..(n + m) : (part \o tail)[i] =
            IF i <= n THEN part[i] ELSE tail[i - n]
  <2>1. /\ part \o tail \in Seq(SUBSET Fn)
        /\ Len(part \o tail) = Len(part) + Len(tail)
        /\ \A i \in 1..(Len(part) + Len(tail)) : (part \o tail)[i] =
              IF i <= Len(part) THEN part[i] ELSE tail[i - Len(part)]
    <3>1. tail \in Seq(SUBSET Fn)
      BY <1>7
    <3> QED
      BY <1>1, <3>1, ConcatProperties
  <2>2. Len(part) = n /\ Len(tail) = m
    BY <1>7 DEF n
  <2> QED
    BY <2>1, <2>2
<1>10. \A j \in 1..n : (part \o tail)[j] = part[j]
  <2>1. \A j \in 1..n : j \in 1..(n + m) /\ j <= n
    BY <1>5
  <2> QED
    BY <1>9, <2>1
<1>11. \A j \in 1..m : (part \o tail)[n + j] = {rest[j]}
  <2>1. \A j \in 1..m : n + j \in 1..(n + m) /\ ~ (n + j <= n) /\ (n + j) - n = j
    BY <1>5
  <2> QED
    BY <1>7, <1>9, <2>1
<1>12. ASSUME NEW j \in 1..(n + m)
       PROVE  j \in 1..n \/ \E k \in 1..m : j = n + k
  <2>1. j \in 1..n \/ (j - n \in 1..m /\ j = n + (j - n))
    BY <1>5
  <2> QED
    BY <2>1
<1>13. \A f : f \in Fn /\ ~ Assigned(part, f) <=> \E j \in 1..m : rest[j] = f
  BY <1>2, <1>4, <1>6 DEF m
<1> QED
  BY <1>4, <1>5, <1>8, <1>9, <1>10, <1>11, <1>12, <1>13 DEF n, m, part

LEMMA FinalPartition ==
    ASSUME Application(app), NEW i \in 1..Len(Chain), NEW l \in Labels,
           SplitOf(i, l.part), NEW rest \in SetToSeqs(Unassigned(l))
    PROVE  LET gs == FinalGroups(l, rest)
           IN  /\ gs \in Seq(SUBSET Fn) /\ IsPartition(gs)
               /\ Range(gs) = Blocks(l.part)
               /\ \A j \in 1..Len(gs) : \A f, g \in gs[j] :
                     f # g => app.mem[f] <= app.maxMem
               /\ \A f, g : f # g => (Together(gs, f, g) <=> Together(l.part, f, g))
<1> DEFINE gs == FinalGroups(l, rest)
           part == l.part
           n == Len(part)
           m == Len(rest)
<1>1. /\ gs \in Seq(SUBSET Fn) /\ Len(gs) = n + m
      /\ n \in Nat /\ m \in Nat
      /\ \A j \in 1..n : gs[j] = part[j]
      /\ \A j \in 1..m : gs[n + j] = {rest[j]}
      /\ \A j \in 1..(n + m) : j \in 1..n \/ \E k \in 1..m : j = n + k
      /\ \A j, k \in 1..m : rest[j] = rest[k] => j = k
      /\ \A f : f \in Fn /\ ~ Assigned(part, f) <=> \E j \in 1..m : rest[j] = f
  BY FinalShape
<1>2. /\ part \in Seq(SUBSET Fn) /\ PairwiseDisjoint(part)
      /\ \A j \in 1..n : part[j] # {}
      /\ \A j \in 1..n : \A f, g \in part[j] : f # g => app.mem[f] <= app.maxMem
  BY DEF SplitOf
<1> HIDE DEF gs, part, n, m
<1>3. \A j \in 1..n : j \in 1..(n + m)
  BY <1>1
<1>4. \A j \in 1..m : n + j \in 1..(n + m)
  BY <1>1
<1>5. \A j \in 1..m : ~ Assigned(part, rest[j]) /\ rest[j] \in Fn
  BY <1>1
<1>6. \A f \in Fn : Assigned(gs, f)
  <2> SUFFICES ASSUME NEW f \in Fn PROVE \E j \in 1..(n + m) : f \in gs[j]
    BY <1>1 DEF Assigned
  <2>1. CASE Assigned(part, f)
    BY <1>1, <1>3, <2>1 DEF Assigned, n
  <2>2. CASE ~ Assigned(part, f)
    BY <1>1, <1>4, <2>2
  <2> QED
    BY <2>1, <2>2
<1>7. \A j \in 1..(n + m) : gs[j] # {}
  <2> SUFFICES ASSUME NEW j \in 1..(n + m) PROVE gs[j] # {}
    OBVIOUS
  <2>1. CASE j \in 1..n
    BY <1>1, <1>2, <2>1
  <2>2. ASSUME NEW k \in 1..m, j = n + k PROVE gs[j] # {}
    <3>1. gs[j] = {rest[k]}
      BY <1>1, <2>2
    <3> QED
      BY <3>1
  <2> QED
    BY <1>1, <2>1, <2>2
<1>8. \A j \in 1..n : \A k \in 1..m : rest[k] \notin part[j]
  BY <1>5 DEF Assigned, n
<1>9. PairwiseDisjoint(gs)
  <2> SUFFICES ASSUME NEW j \in 1..(n + m), NEW k \in 1..(n + m),
                      NEW f, f \in gs[j], f \in gs[k]
               PROVE  j = k
    BY <1>1 DEF PairwiseDisjoint
  <2>1. CASE j \in 1..n /\ k \in 1..n
    BY <1>1, <1>2, <2>1 DEF PairwiseDisjoint, n
  <2>2. ASSUME j \in 1..n, NEW h \in 1..m, k = n + h PROVE FALSE
    <3>1. gs[k] = {rest[h]} /\ gs[j] = part[j]
      BY <1>1, <2>2
    <3> QED
      BY <1>8, <2>2, <3>1
  <2>3. ASSUME k \in 1..n, NEW h \in 1..m, j = n + h PROVE FALSE
    <3>1. gs[j] = {rest[h]} /\ gs[k] = part[k]
      BY <1>1, <2>3
    <3> QED
      BY <1>8, <2>3, <3>1
  <2>4. ASSUME NEW h \in 1..m, j = n + h, NEW e \in 1..m, k = n + e PROVE j = k
    <3>1. gs[j] = {rest[h]} /\ gs[k] = {rest[e]}
      BY <1>1, <2>4
    <3>2. rest[h] = rest[e]
      BY <3>1
    <3> QED
      BY <1>1, <2>4, <3>2
  <2> QED
    BY <1>1, <2>1, <2>2, <2>3, <2>4
<1>10. IsPartition(gs)
  BY <1>1, <1>6, <1>7, <1>9 DEF IsPartition
<1>11. \A j \in 1..Len(gs) : \A f, g \in gs[j] : f # g => app.mem[f] <= app.maxMem
  <2> SUFFICES ASSUME NEW j \in 1..(n + m), NEW f \in gs[j], NEW g \in gs[j], f # g
               PROVE  app.mem[f] <= app.maxMem
    BY <1>1
  <2>1. CASE j \in 1..n
    BY <1>1, <1>2, <2>1
  <2>2. ASSUME NEW k \in 1..m, j = n + k PROVE FALSE
    <3>1. gs[j] = {rest[k]}
      BY <1>1, <2>2
    <3> QED
      BY <3>1
  <2> QED
    BY <1>1, <2>1, <2>2
<1>12. ASSUME NEW f, NEW g, f # g
       PROVE  Together(gs, f, g) <=> Together(part, f, g)
  <2>1. Together(part, f, g) => Together(gs, f, g)
    BY <1>1, <1>3 DEF Together, n
  <2>2. ASSUME NEW j \in 1..(n + m), f \in gs[j], g \in gs[j]
        PROVE  Together(part, f, g)
    <3>1. CASE j \in 1..n
      BY <1>1, <2>2, <3>1 DEF Together, n
    <3>2. ASSUME NEW k \in 1..m, j = n + k PROVE FALSE
      <4>1. gs[j] = {rest[k]}
        BY <1>1, <3>2
      <4> QED
        BY <1>12, <2>2, <4>1
    <3> QED
      BY <1>1, <3>1, <3>2
  <2> QED
    BY <1>1, <2>1, <2>2 DEF Together
<1>13. DOMAIN gs = 1..(n + m) /\ DOMAIN part = 1..n
  BY <1>1, <1>2, LenProperties DEF n
<1>14. Range(gs) = Blocks(part)
  <2> DEFINE A == {g \in Fn : ~ Assigned(part, g)}
  <2>1. ASSUME NEW e \in Range(gs) PROVE e \in Blocks(part)
    <3>1. PICK j \in 1..(n + m) : e = gs[j]
      BY <1>13 DEF Range
    <3>2. CASE j \in 1..n
      <4>1. part[j] \in Range(part)
        BY <1>13, <3>2 DEF Range
      <4> QED
        BY <1>1, <3>1, <3>2, <4>1 DEF Blocks
    <3>3. ASSUME NEW k \in 1..m, j = n + k PROVE e \in Blocks(part)
      <4>1. e = {rest[k]} /\ rest[k] \in A
        BY <1>1, <1>5, <3>1, <3>3
      <4> QED
        BY <4>1 DEF Blocks
    <3> QED
      BY <1>1, <3>2, <3>3
  <2>2. ASSUME NEW e \in Range(part) PROVE e \in Range(gs)
    <3>1. PICK j \in 1..n : e = part[j]
      BY <1>13 DEF Range
    <3>2. j \in DOMAIN gs /\ gs[j] = e
      BY <1>1, <1>3, <1>13, <3>1
    <3> QED
      BY <3>2 DEF Range
  <2>3. ASSUME NEW f \in A PROVE {f} \in Range(gs)
    <3>1. PICK k \in 1..m : rest[k] = f
      BY <1>1
    <3>2. n + k \in DOMAIN gs /\ gs[n + k] = {f}
      BY <1>1, <1>4, <1>13, <3>1
    <3> QED
      BY <3>2 DEF Range
  <2>4. Blocks(part) = Range(part) \cup {{f} : f \in A}
    BY DEF Blocks
  <2> HIDE DEF A
  <2>5. \A e \in Blocks(part) : e \in Range(gs)
    BY <2>2, <2>3, <2>4
  <2> QED
    BY <2>1, <2>5
<1> QED
  BY <1>1, <1>10, <1>11, <1>12, <1>14 DEF gs, part

(* The latency reported is the one the label carries.                      *)
LEMMA FinalLatency ==
    ASSUME Application(app), Chain # <<>>, NEW l \in Labels,
           SplitOf(Len(Chain), l.part), Honest(Len(Chain), l),
           NEW rest \in SetToSeqs(Unassigned(l))
    PROVE  Latency(app, FinalGroups(l, rest)) = l.latency
<1> DEFINE gs == FinalGroups(l, rest)
           n == Len(Chain)
<1>1. n \in Nat /\ n \in 1..n
  <2>1. Chain \in Seq(Fn) /\ n \in Nat
    BY PathTypes
  <2>2. n # 0
    BY <2>1, EmptySeq
  <2> QED
    BY <2>1, <2>2
<1>2. /\ IsPartition(gs)
      /\ \A f, g : f # g => (Together(gs, f, g) <=> Together(l.part, f, g))
  BY <1>1, FinalPartition
<1> HIDE DEF gs
<1>3. ASSUME NEW j \in 1..(n - 1)
      PROVE  Apart(gs, Chain[j], Chain[j + 1]) <=> SplitAt(l.part, j)
  <2>1. j \in 1..n /\ j + 1 \in 1..n /\ j # j + 1
    BY <1>1
  <2>2. Chain[j] \in Fn /\ Chain[j + 1] \in Fn /\ Chain[j] # Chain[j + 1]
    BY <2>1, PathTypes
  <2>3. Assigned(gs, Chain[j]) /\ Assigned(gs, Chain[j + 1])
    BY <1>2, <2>2 DEF IsPartition
  <2>4. Together(gs, Chain[j], Chain[j + 1]) <=> Together(l.part, Chain[j], Chain[j + 1])
    BY <1>2, <2>2
  <2>5. Together(l.part, Chain[j], Chain[j + 1]) <=> ~ SplitAt(l.part, j)
    BY DEF Together, SplitAt
  <2> QED
    BY <2>3, <2>4, <2>5 DEF Apart
<1>4. CutPairs(app, gs) = Cuts(n, l.part)
  BY <1>3 DEF CutPairs, Cuts, Chain
<1>5. CriticalPathRuntimeMs(app) = SumFunctionOnSet(PathRuntimes, 1..n)
  BY DEF CriticalPathRuntimeMs, SumFunction, PathRuntimes, Chain
<1>6. CriticalPathRuntimeMs(app) \in Int
  BY PathRuntimeInt
<1>7. app.hop * Cardinality(Cuts(n, l.part)) \in Int
  <2>1. \A x, y \in Nat : x * y \in Int
    OBVIOUS
  <2> QED
    BY <1>1, <2>1, CutsAreFinite, PathTypes
<1>8. l.latency = app.hop * Cardinality(Cuts(n, l.part)) + SumFunctionOnSet(PathRuntimes, 1..n)
  BY DEF Honest
<1> HIDE DEF n
<1> QED
  BY <1>4, <1>5, <1>6, <1>7, <1>8 DEF Latency, gs

-----------------------------------------------------------------------------
(* The results *)

LEMMA ReturnIsGood ==
    ASSUME Application(app), OneLabel, GoodLabels, Return
    PROVE  SplitReturned' /\ NeverWorseThanNoFusion'
<1>1. app' = app /\ Chain # <<>>
  BY DEF Return
<1>2. PICK best \in Feasible : \E rest \in SetToSeqs(Unassigned(best)) :
         result' = [error |-> "", label |-> best,
                    groups |-> FinalGroups(best, rest),
                    metrics |-> CalculateMetrics(app, FinalGroups(best, rest))]
  BY DEF Return
<1>3. PICK rest \in SetToSeqs(Unassigned(best)) :
         result' = [error |-> "", label |-> best,
                    groups |-> FinalGroups(best, rest),
                    metrics |-> CalculateMetrics(app, FinalGroups(best, rest))]
  BY <1>2
<1> DEFINE n == Len(Chain)
           gs == FinalGroups(best, rest)
<1>4. n \in 1..n
  <2>1. Chain \in Seq(Fn) /\ n \in Nat
    BY <1>1, PathTypes
  <2>2. n # 0
    BY <1>1, <2>1, EmptySeq
  <2> QED
    BY <2>1, <2>2
<1>5. best \in labels[n] /\ best.latency <= app.maxLat
  BY DEF Feasible
<1>6. best \in Labels
  <2>1. labels \in [1..n -> SUBSET Labels]
    BY <1>1 DEF OneLabel
  <2> QED
    BY <1>4, <1>5, <2>1
<1>7. SplitOf(n, best.part) /\ Honest(n, best) /\ NotDearer(best.part)
  BY <1>4, <1>5 DEF GoodLabels
<1>8. /\ gs \in Seq(SUBSET Fn) /\ IsPartition(gs)
      /\ Range(gs) = Blocks(best.part)
      /\ \A j \in 1..Len(gs) : \A f, g \in gs[j] : f # g => app.mem[f] <= app.maxMem
  BY <1>4, <1>6, <1>7, FinalPartition
<1>9. Latency(app, gs) = best.latency
  BY <1>1, <1>6, <1>7, FinalLatency
<1>10. /\ result'.groups = gs /\ result'.label = best
       /\ result'.metrics = CalculateMetrics(app, gs)
  BY <1>3
<1> HIDE DEF n, gs
<1>11. /\ result'.metrics.totalCost = TotalCost(app, gs)
       /\ result'.metrics.latency = Latency(app, gs)
       /\ result'.metrics.feasible = (MemoryOK(app, gs) /\ LatencyOK(app, gs))
  <2>1. /\ CalculateMetrics(app, gs).totalCost = TotalCost(app, gs)
        /\ CalculateMetrics(app, gs).latency = Latency(app, gs)
    BY DEF CalculateMetrics
  <2>2. CalculateMetrics(app, gs).feasible = (MemoryOK(app, gs) /\ LatencyOK(app, gs))
    BY DEF CalculateMetrics
  <2> QED
    BY <1>10, <2>1, <2>2
<1>12. MemoryOK(app, Singletons(app)) => result'.metrics.feasible
  <2> SUFFICES ASSUME MemoryOK(app, Singletons(app))
               PROVE  MemoryOK(app, gs) /\ LatencyOK(app, gs)
    BY <1>11
  <2>1. \A f \in Fn : app.mem[f] <= app.maxMem
    BY SingletonsFit
  <2>2. MemoryOK(app, gs)
    BY <1>8, <2>1, FunctionsFitSoGroupsDo
  <2>3. LatencyOK(app, gs)
    BY <1>5, <1>9 DEF LatencyOK
  <2> QED
    BY <2>2, <2>3
<1>13. SplitReturned'
  BY <1>1, <1>8, <1>9, <1>10, <1>11, <1>12 DEF SplitReturned
<1>14. PICK hs \in Seq(SUBSET Fn) :
          /\ IsPartition(hs) /\ Range(hs) = Blocks(best.part)
          /\ TotalCost(app, hs) <= TotalCost(app, Singletons(app))
  BY <1>7 DEF NotDearer
<1>15. TotalCost(app, gs) = TotalCost(app, hs)
  BY <1>8, <1>14, SameBlocksSamePrice
<1>16. NeverWorseThanNoFusion'
  BY <1>1, <1>11, <1>14, <1>15 DEF NeverWorseThanNoFusion
<1> QED
  BY <1>13, <1>16

(* What is about the result holds until there is another.                  *)
LEMMA SameResult ==
    ASSUME SplitReturned, NeverWorseThanNoFusion, app' = app, result' = result
    PROVE  SplitReturned' /\ NeverWorseThanNoFusion'
BY DEF SplitReturned, NeverWorseThanNoFusion, Succeeded

LEMMA SameLabels ==
    ASSUME OneLabel, GoodLabels, UNCHANGED <<app, labels, pq>>
    PROVE  OneLabel' /\ GoodLabels'
<1>1. app' = app /\ labels' = labels /\ pq' = pq /\ Chain' = Chain
  BY DEF Chain
<1>2. OneLabel'
  BY <1>1 DEF OneLabel
<1>3. \A j, m : /\ SplitOf(j, m.part)' <=> SplitOf(j, m.part)
                /\ Honest(j, m)' <=> Honest(j, m)
                /\ NotDearer(m.part)' <=> NotDearer(m.part)
  BY <1>1
     DEF SplitOf, Honest, NotDearer, OnPath, Cuts, SplitAt, PathTransfers,
         PathRuntimes
<1> QED
  BY <1>1, <1>2, <1>3 DEF GoodLabels

LEMMA NextIInv == IInv /\ [Next]_vars => IInv'
<1> SUFFICES ASSUME IInv, [Next]_vars PROVE IInv'
  OBVIOUS
<1>1. /\ Application(app) /\ OneLabel /\ GoodLabels
      /\ SplitReturned /\ NeverWorseThanNoFusion
  BY DEF IInv
<1>2. ASSUME NEW item \in pq, Extend(item) PROVE IInv'
  <2>1. app' = app /\ result' = result
    BY <1>2 DEF Extend
  <2>2. OneLabel' /\ GoodLabels'
    BY <1>1, <1>2, ExtendKeepsLabels
  <2> QED
    BY <1>1, <2>1, <2>2, SameResult DEF IInv
<1>3. ASSUME NEW item \in pq, Skip(item) PROVE IInv'
  <2>1. app' = app /\ result' = result
    BY <1>3 DEF Skip
  <2>2. OneLabel' /\ GoodLabels'
    BY <1>1, <1>3, SkipKeepsLabels
  <2> QED
    BY <1>1, <2>1, <2>2, SameResult DEF IInv
<1>4. CASE NoCriticalPath
  <2>1. OneLabel' /\ GoodLabels' /\ app' = app
    BY <1>1, <1>4, SameLabels DEF NoCriticalPath
  <2>2. ~ Succeeded'
    BY <1>4 DEF NoCriticalPath, Succeeded
  <2> QED
    BY <1>1, <2>1, <2>2 DEF IInv, SplitReturned, NeverWorseThanNoFusion
<1>5. CASE Infeasible
  <2>1. OneLabel' /\ GoodLabels' /\ app' = app
    BY <1>1, <1>5, SameLabels DEF Infeasible
  <2>2. ~ Succeeded'
    BY <1>5 DEF Infeasible, Succeeded
  <2> QED
    BY <1>1, <2>1, <2>2 DEF IInv, SplitReturned, NeverWorseThanNoFusion
<1>6. CASE Return
  <2>1. OneLabel' /\ GoodLabels' /\ app' = app
    BY <1>1, <1>6, SameLabels DEF Return
  <2> QED
    BY <1>1, <1>6, <2>1, ReturnIsGood DEF IInv
<1>7. CASE UNCHANGED vars
  <2>1. OneLabel' /\ GoodLabels' /\ app' = app /\ result' = result
    BY <1>1, <1>7, SameLabels DEF vars
  <2> QED
    BY <1>1, <2>1, SameResult DEF IInv
<1>8. CASE Terminating
  BY <1>7, <1>8 DEF Terminating
<1> QED
  BY <1>2, <1>3, <1>4, <1>5, <1>6, <1>7, <1>8 DEF Next

LEMMA IInvHolds == Spec => []IInv
BY InitIInv, NextIInv, PTL DEF Spec

-----------------------------------------------------------------------------
LEMMA LabelsHere ==
    ASSUME IInv, NEW i \in 1..Len(labels)
    PROVE  /\ Chain # <<>> /\ i \in 1..Len(Chain) /\ Len(Chain) \in Nat
           /\ \A l \in labels[i] : l \in Labels
           /\ \A l, m \in labels[i] : l = m
<1>1. OneLabel /\ Application(app)
  BY DEF IInv
<1>2. Len(Chain) \in Nat
  BY <1>1, PathTypes
<1>3. Chain # <<>>
  <2> SUFFICES ASSUME Chain = <<>> PROVE FALSE
    OBVIOUS
  <2>1. labels = <<>>
    BY <1>1 DEF OneLabel
  <2> QED
    BY <2>1
<1>4. labels \in [1..Len(Chain) -> SUBSET Labels]
  BY <1>1, <1>3 DEF OneLabel
<1>5. i \in 1..Len(Chain)
  <2>1. labels \in Seq(SUBSET Labels)
    BY <1>2, <1>4, SeqDef
  <2>2. DOMAIN labels = 1..Len(labels)
    BY <2>1, LenProperties
  <2> QED
    BY <1>4, <2>2
<1>6. PICK k \in 1..Len(Chain), l \in Labels :
         /\ \A j \in 1..Len(Chain) : j < k => \E m : labels[j] = {m}
         /\ labels[k] = {l}
         /\ \A j \in 1..Len(Chain) : j > k => labels[j] = {}
  BY <1>1, <1>3 DEF OneLabel
<1>7. i < k \/ i = k \/ i > k
  BY <1>2, <1>5, <1>6
<1>8. labels[i] = {} \/ \E m : labels[i] = {m}
  BY <1>5, <1>6, <1>7
<1> QED
  BY <1>2, <1>3, <1>4, <1>5, <1>8

LEMMA HonestLabels == IInv => LabelsAreHonest
<1> SUFFICES ASSUME IInv, NEW i \in 1..Len(labels), NEW l \in labels[i]
             PROVE  LET cuts == {j \in 1..(i - 1) : SplitAt(l.part, j)}
                    IN /\ UNION Range(l.part) = {Chain[j] : j \in 1..i}
                       /\ l.mem = GroupMemory(app, Last(l.part))
                       /\ l.cost = SumFunctionOnSet(PathTransfers, cuts)
                       /\ l.latency = app.hop * Cardinality(cuts)
                             + SumFunction([j \in 1..i |-> RuntimeMs(app, Chain[j])])
  BY DEF LabelsAreHonest, PathTransfers
<1>1. i \in 1..Len(Chain) /\ l \in Labels /\ Len(Chain) \in Nat
  BY LabelsHere
<1>2. SplitOf(i, l.part) /\ Honest(i, l) /\ Application(app)
  BY <1>1 DEF IInv, GoodLabels
<1>3. UNION Range(l.part) = {Chain[j] : j \in 1..i}
  <2>1. /\ l.part \in Seq(SUBSET Fn)
        /\ \A f \in Fn : Assigned(l.part, f) <=> OnPath(i, f)
    BY <1>2 DEF SplitOf
  <2>2. /\ DOMAIN l.part = 1..Len(l.part)
        /\ \A j \in 1..Len(l.part) : l.part[j] \in SUBSET Fn
    BY <2>1, LenProperties, ElementOfSeq
  <2>3. \A j \in 1..i : Chain[j] \in Fn
    <3>1. \A j \in 1..i : j \in 1..Len(Chain)
      BY <1>1
    <3> QED
      BY <1>2, <3>1, PathTypes
  <2>4. \A f : f \in UNION Range(l.part) <=> Assigned(l.part, f)
    BY <2>2 DEF Range, Assigned
  <2>5. \A f : Assigned(l.part, f) => f \in Fn
    BY <2>2 DEF Assigned
  <2>6. \A f : f \in {Chain[j] : j \in 1..i} <=> OnPath(i, f)
    BY DEF OnPath
  <2>7. \A f : OnPath(i, f) => f \in Fn
    BY <2>3 DEF OnPath
  <2> QED
    BY <2>1, <2>4, <2>5, <2>6, <2>7
<1>4. SumFunction([j \in 1..i |-> RuntimeMs(app, Chain[j])])
         = SumFunctionOnSet(PathRuntimes, 1..i)
  <2> DEFINE v == [j \in 1..i |-> RuntimeMs(app, Chain[j])]
             w == PathRuntimes
             S == 1..i
  <2>1. \A j \in S : j \in 1..Len(Chain)
    BY <1>1
  <2>2. \A j \in S : w[j] \in Int
    BY <1>2, <2>1, PathTypes
  <2>3. \A j \in S : v[j] = w[j]
    BY <2>1 DEF PathRuntimes
  <2>4. IsFiniteSet(S)
    <3>1. 1 \in Int /\ i \in Int
      BY <1>1
    <3> QED
      BY <3>1, FS_Interval
  <2>5. SumFunction(v) = SumFunctionOnSet(v, S)
    BY DEF SumFunction
  <2> HIDE DEF v, w, S
  <2>6. \A j \in S : w[j] \in Int /\ v[j] = w[j]
    BY <2>2, <2>3
  <2>7. SumFunctionOnSet(v, S) = SumFunctionOnSet(w, S)
    BY <2>4, <2>6, SumCongruent
  <2> QED
    BY <2>5, <2>7 DEF v, w, S
<1> QED
  BY <1>2, <1>3, <1>4 DEF Honest, Cuts, Last

LEMMA NoTwoLabels == IInv => SearchNeverBranches
<1> SUFFICES ASSUME IInv PROVE SearchNeverBranches
  OBVIOUS
<1>1. \A S : (\A x, y \in S : x = y) => Cardinality(S) <= 1
  <2> SUFFICES ASSUME NEW S, \A x, y \in S : x = y PROVE Cardinality(S) <= 1
    OBVIOUS
  <2>1. CASE S = {}
    BY <2>1, FS_EmptySet
  <2>2. CASE S # {}
    <3>1. PICK x \in S : TRUE
      BY <2>2
    <3>2. S = {x}
      BY <3>1
    <3>3. Cardinality({x}) = 1
      BY FS_Singleton
    <3>4. Cardinality(S) = 1
      BY <3>2, <3>3
    <3> QED
      BY <3>4
  <2> QED
    BY <2>1, <2>2
<1>2. \A i \in 1..Len(labels) : Cardinality(labels[i]) <= 1
  <2> SUFFICES ASSUME NEW i \in 1..Len(labels) PROVE Cardinality(labels[i]) <= 1
    OBVIOUS
  <2>1. \A l, m \in labels[i] : l = m
    BY LabelsHere
  <2> QED
    BY <1>1, <2>1
<1>3. /\ \A x, y \in pq : x = y
      /\ \A item \in pq : item[2] \in labels[item[1]]
  <2>1. OneLabel
    BY DEF IInv
  <2>2. CASE Chain = <<>>
    BY <2>1, <2>2 DEF OneLabel
  <2>3. CASE Chain # <<>>
    <3>1. PICK k \in 1..Len(Chain), l \in Labels :
             /\ labels[k] = {l}
             /\ pq = {<<k, l>>} \/ pq = {}
      BY <2>1, <2>3 DEF OneLabel
    <3>2. \A item \in pq : item = <<k, l>>
      BY <3>1
    <3>3. \A item \in pq : item[1] = k /\ item[2] = l
      BY <3>2
    <3>4. l \in labels[k]
      BY <3>1
    <3>5. \A item \in pq : item[2] \in labels[item[1]]
      BY <3>3, <3>4
    <3>6. \A x, y \in pq : x = y
      BY <3>2
    <3> QED
      BY <3>5, <3>6
  <2> QED
    BY <2>2, <2>3
<1>4. Cardinality(pq) <= 1
  BY <1>1, <1>3
<1> QED
  BY <1>2, <1>3, <1>4 DEF SearchNeverBranches

(* What a label carries along is the price of its split from scratch.      *)
THEOREM HonestSearch == Spec => []LabelsAreHonest
BY IInvHolds, HonestLabels, PTL

(* The search has one label per function and one item to extend.           *)
THEOREM SearchIsALine == Spec => []SearchNeverBranches
BY IInvHolds, NoTwoLabels, PTL

(* The groups returned are a partition, fit unless a function is too large *)
(* on its own, and have the latency the search limited.                    *)
THEOREM ReturnsASplit == Spec => []SplitReturned
<1>1. IInv => SplitReturned
  BY DEF IInv
<1> QED
  BY <1>1, IInvHolds, PTL

(* The split returned costs no more than every function on its own.        *)
THEOREM NeverDearerThanNoFusion == Spec => []NeverWorseThanNoFusion
<1>1. IInv => NeverWorseThanNoFusion
  BY DEF IInv
<1> QED
  BY <1>1, IInvHolds, PTL
=============================================================================
