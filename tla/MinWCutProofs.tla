---------------------------- MODULE MinWCutProofs ----------------------------
(***************************************************************************)
(* MinWCut keeps a partition, respects the memory limit, fuses only along  *)
(* calls, and lowers the cost with every merge, for every application.     *)
(***************************************************************************)
EXTENDS MinWCut, FusionCostProofs

(* A step that merges: the groups at two slots, joined by a call, both     *)
(* gates open.                                                             *)
MergeStep ==
    \E p, k \in 1..Len(groups) :
        /\ Mergeable(p, k)
        /\ JoinedByCall(app, groups[p], groups[k])
        /\ groups' = MergeGroups(groups, p, k)

(* The inductive invariant of the types: after Return nothing is left to   *)
(* consider, so the metrics stay those of the groups.                      *)
IInv ==
    /\ TypeOK
    /\ Partition
    /\ metrics # NoMetrics => candidates = {}

-----------------------------------------------------------------------------
LEMMA ConsiderStep ==
    ASSUME TypeOK, NEW c \in candidates, Consider(c)
    PROVE  /\ UNCHANGED <<app, metrics>>
           /\ candidates' \subseteq candidates
           /\ groups' = groups \/ MergeStep
<1>1. PICK p \in 1..Len(groups), k \in 1..Len(groups) :
         /\ c[1] \in groups[p]
         /\ c[2] \in groups[k]
         /\ groups' = IF Mergeable(p, k) THEN MergeGroups(groups, p, k) ELSE groups
  BY DEF Consider
<1>2. c \in app.edges /\ c \in Fn \X Fn
  BY DEF TypeOK, Application
<1>3. JoinedByCall(app, groups[p], groups[k])
  <2>1. c = <<c[1], c[2]>>
    BY <1>2
  <2> QED
    BY <1>1, <1>2, <2>1 DEF JoinedByCall
<1>4. groups' = groups \/ MergeStep
  BY <1>1, <1>3 DEF MergeStep
<1> QED
  BY <1>4 DEF Consider

LEMMA InitIInv == Init => IInv
<1> SUFFICES ASSUME Init PROVE IInv
  OBVIOUS
<1>1. Application(app)
  BY AppsAssumption DEF Init
<1> QED
  BY <1>1, SingletonsPartition DEF Init, IInv, TypeOK, Partition

LEMMA NextIInv == IInv /\ [Next]_vars => IInv'
<1> SUFFICES ASSUME IInv, [Next]_vars PROVE IInv'
  OBVIOUS
<1>1. CASE \E c \in candidates : Consider(c)
  <2>1. PICK c \in candidates : Consider(c)
    BY <1>1
  <2>2. /\ UNCHANGED <<app, metrics>>
        /\ candidates' \subseteq candidates
        /\ groups' = groups \/ MergeStep
    BY <2>1, ConsiderStep DEF IInv
  <2>3. metrics = NoMetrics
    BY <2>1 DEF IInv
  <2>4. groups' \in Seq(SUBSET Fn) /\ IsPartition(groups')
    <3>1. CASE groups' = groups
      BY <3>1 DEF IInv, TypeOK, Partition
    <3>2. CASE MergeStep
      <4>1. PICK p \in 1..Len(groups), k \in 1..Len(groups) :
               p # k /\ groups' = MergeGroups(groups, p, k)
        BY <3>2 DEF MergeStep, Mergeable
      <4>2. groups \in Seq(SUBSET Fn) /\ IsPartition(groups)
        BY DEF IInv, TypeOK, Partition
      <4>3. MergeShape(groups, p, k, groups')
        BY <4>1, <4>2, MergeGroupsShape
      <4> QED
        BY <4>1, <4>2, <4>3, MergeKeepsPartition DEF MergeShape
    <3> QED
      BY <2>2, <3>1, <3>2
  <2> QED
    BY <2>2, <2>3, <2>4 DEF IInv, TypeOK, Partition
<1>2. CASE Return
  BY <1>2 DEF IInv, TypeOK, Partition, Return
<1>3. CASE UNCHANGED vars
  BY <1>3 DEF IInv, TypeOK, Partition, vars
<1> QED
  BY <1>1, <1>2, <1>3 DEF Next, Terminating

(* Types, and that the groups always partition the functions.              *)
THEOREM MinWCutTypes == Spec => []TypeOK
<1>1. IInv => TypeOK
  BY DEF IInv
<1> QED
  BY <1>1, InitIInv, NextIInv, PTL DEF Spec

(* Partition: no merge loses a function or puts one in two groups.         *)
THEOREM MinWCutPartition == Spec => []Partition
<1>1. IInv => Partition
  BY DEF IInv
<1> QED
  BY <1>1, InitIInv, NextIInv, PTL DEF Spec
-----------------------------------------------------------------------------
(* The memory gate looks at the maxima of the two groups, which is to look *)
(* at every member.                                                        *)
LEMMA MergeableFits ==
    ASSUME Application(app), groups \in Seq(SUBSET Fn),
           NEW p \in 1..Len(groups), NEW k \in 1..Len(groups), Mergeable(p, k)
    PROVE  \A f \in groups[p] \cup groups[k] : app.mem[f] <= app.maxMem
<1>1. groups[p] \in SUBSET Fn /\ groups[k] \in SUBSET Fn
  BY ElementOfSeq
<1>2. ASSUME NEW G \in SUBSET Fn, GroupMemory(app, G) <= app.maxMem, NEW f \in G
      PROVE  app.mem[f] <= app.maxMem
  <2>1. GroupMemory(app, G) \in Nat /\ app.mem[f] <= GroupMemory(app, G)
    BY GroupMemoryIsMax
  <2>2. app.mem[f] \in Nat /\ app.maxMem \in Nat
    BY DEF Application
  <2> QED
    BY <1>2, <2>1, <2>2
<1> QED
  BY <1>1, <1>2 DEF Mergeable

(* What the groups look like *)

GInv == IInv /\ FusedGroupsFit /\ ConnectedByCalls

LEMMA MergeKeepsGroups ==
    ASSUME GInv, MergeStep, app' = app
    PROVE  FusedGroupsFit' /\ ConnectedByCalls'
<1>1. PICK p \in 1..Len(groups), k \in 1..Len(groups) :
         /\ Mergeable(p, k)
         /\ JoinedByCall(app, groups[p], groups[k])
         /\ groups' = MergeGroups(groups, p, k)
  BY DEF MergeStep
<1>2. groups \in Seq(SUBSET Fn) /\ IsPartition(groups) /\ Application(app)
  BY DEF GInv, IInv, TypeOK, Partition
<1>3. MergeShape(groups, p, k, groups')
  BY <1>1, <1>2, MergeGroupsShape DEF Mergeable
<1>4. \A i \in 1..Len(groups') :
         \/ groups'[i] = groups[p] \cup groups[k]
         \/ \E j \in 1..Len(groups) : groups'[i] = groups[j]
  BY <1>3 DEF MergeShape
<1>5. \A f \in groups[p] \cup groups[k] : app.mem[f] <= app.maxMem
  BY <1>1, <1>2, MergeableFits
<1>6. FusedGroupsFit'
  BY <1>4, <1>5 DEF GInv, FusedGroupsFit
<1>7. IsConnected(app, groups[p] \cup groups[k])
  BY <1>1, ConnectedUnion DEF GInv, ConnectedByCalls
<1>8. ConnectedByCalls'
  BY <1>4, <1>7 DEF GInv, ConnectedByCalls
<1> QED
  BY <1>6, <1>8

LEMMA InitGInv == Init => GInv
<1> SUFFICES ASSUME Init PROVE GInv
  OBVIOUS
<1>1. IInv
  BY InitIInv
<1>2. \A i \in 1..Len(groups) : \E f : groups[i] = {f}
  BY <1>1, SingletonsPartition DEF IInv, TypeOK, Init
<1>3. FusedGroupsFit
  BY <1>2 DEF FusedGroupsFit
<1>4. ConnectedByCalls
  BY <1>2 DEF ConnectedByCalls, IsConnected
<1> QED
  BY <1>1, <1>3, <1>4 DEF GInv

LEMMA NextGInv == GInv /\ [Next]_vars => GInv'
<1> SUFFICES ASSUME GInv, [Next]_vars PROVE GInv'
  OBVIOUS
<1>1. IInv'
  BY NextIInv DEF GInv
<1>2. CASE app' = app /\ groups' = groups
  BY <1>1, <1>2 DEF GInv, FusedGroupsFit, ConnectedByCalls
<1>3. CASE \E c \in candidates : Consider(c)
  <2>1. app' = app /\ (groups' = groups \/ MergeStep)
    BY <1>3, ConsiderStep DEF GInv, IInv
  <2> QED
    BY <1>1, <1>2, <2>1, MergeKeepsGroups DEF GInv
<1> QED
  BY <1>2, <1>3 DEF Next, Return, Terminating, vars

(* FusedGroupsFit: a group of several functions is within the memory limit. *)
THEOREM MinWCutFits == Spec => []FusedGroupsFit
<1>1. GInv => FusedGroupsFit
  BY DEF GInv
<1> QED
  BY <1>1, InitGInv, NextGInv, PTL DEF Spec

(* ConnectedByCalls: every group hangs together by calls.                  *)
THEOREM MinWCutConnected == Spec => []ConnectedByCalls
<1>1. GInv => ConnectedByCalls
  BY DEF GInv
<1> QED
  BY <1>1, InitGInv, NextGInv, PTL DEF Spec

-----------------------------------------------------------------------------
(* What a step does to latency and cost *)

LEMMA StepMerges ==
    ASSUME IInv, [Next]_vars
    PROVE  app' = app /\ (groups' = groups \/ MergeStep)
BY ConsiderStep DEF IInv, Next, Return, Terminating, vars

(* HopsNeverAdded: no step adds a hop to the critical path.                *)
THEOREM MinWCutHops == Spec => HopsNeverAdded
<1>1. IInv /\ [Next]_vars => CutPairs(app, groups') \subseteq CutPairs(app, groups)
  <2> SUFFICES ASSUME IInv, [Next]_vars
               PROVE  CutPairs(app, groups') \subseteq CutPairs(app, groups)
    OBVIOUS
  <2>1. CASE groups' = groups
    BY <2>1
  <2>2. CASE MergeStep
    <3>1. PICK p \in 1..Len(groups), k \in 1..Len(groups) :
             p # k /\ groups' = MergeGroups(groups, p, k)
      BY <2>2 DEF MergeStep, Mergeable
    <3> QED
      BY <3>1, MergeCutPairs DEF IInv, TypeOK, Partition, IsPartition
  <2> QED
    BY <2>1, <2>2, StepMerges
<1> QED
  BY <1>1, InitIInv, NextIInv, PTL DEF Spec, HopsNeverAdded

LEMMA MergeLowersCost ==
    ASSUME IInv, NEW p \in 1..Len(groups), NEW k \in 1..Len(groups),
           Mergeable(p, k), groups' = MergeGroups(groups, p, k)
    PROVE  /\ TotalCost(app, groups')
                 = TotalCost(app, groups) - MergeProfit(app, groups[p], groups[k])
           /\ TotalCost(app, groups') < TotalCost(app, groups)
           /\ TotalCost(app, groups') \in Int /\ TotalCost(app, groups) \in Int
<1>1. /\ TotalCost(app, groups')
            = TotalCost(app, groups) - MergeProfit(app, groups[p], groups[k])
      /\ TotalCost(app, groups) \in Int
      /\ MergeProfit(app, groups[p], groups[k]) \in Int
  BY MergeProfitIsExact DEF IInv, TypeOK, Partition, IsPartition, Mergeable
<1>2. MergeProfit(app, groups[p], groups[k]) > 0
  BY DEF Mergeable, MergeIsProfitable
<1> QED
  BY <1>1, <1>2

(* MergesLowerTheTotalCost: a merge lowers the total that CalculateMetrics *)
(* gives by exactly what MergeProfitUSD estimated, which is positive.      *)
THEOREM MinWCutCost == Spec => MergesLowerTheTotalCost
<1>1. IInv /\ [Next]_vars =>
         (groups' # groups =>
            \E p, k \in 1..Len(groups) :
               /\ p # k
               /\ groups' = MergeGroups(groups, p, k)
               /\ TotalCost(app, groups') =
                     TotalCost(app, groups) - MergeProfit(app, groups[p], groups[k])
               /\ TotalCost(app, groups') < TotalCost(app, groups))
  <2> SUFFICES ASSUME IInv, [Next]_vars, groups' # groups
               PROVE  \E p, k \in 1..Len(groups) :
                        /\ p # k
                        /\ groups' = MergeGroups(groups, p, k)
                        /\ TotalCost(app, groups') =
                              TotalCost(app, groups) - MergeProfit(app, groups[p], groups[k])
                        /\ TotalCost(app, groups') < TotalCost(app, groups)
    OBVIOUS
  <2>1. PICK p \in 1..Len(groups), k \in 1..Len(groups) :
           Mergeable(p, k) /\ groups' = MergeGroups(groups, p, k)
    BY StepMerges DEF MergeStep
  <2> QED
    BY <2>1, MergeLowersCost DEF Mergeable
<1> QED
  BY <1>1, InitIInv, NextIInv, PTL DEF Spec, MergesLowerTheTotalCost

(* The cost never exceeds that of the singletons while merging.            *)
CostBound ==
    /\ TotalCost(app, groups) \in Int
    /\ TotalCost(app, Singletons(app)) \in Int
    /\ TotalCost(app, groups) <= TotalCost(app, Singletons(app))

(* NeverWorseThanNoFusion, for every application and every order of edges. *)
THEOREM MinWCutNeverWorse == Spec => []NeverWorseThanNoFusion
<1>1. IInv /\ CostBound => NeverWorseThanNoFusion
  BY DEF IInv, TypeOK, CostBound, NeverWorseThanNoFusion, CalculateMetrics
<1>2. Init => CostBound
  <2> SUFFICES ASSUME Init PROVE CostBound
    OBVIOUS
  <2>1. TotalCost(app, Singletons(app)) \in Int
    BY InitIInv, TotalCostInt DEF Init, IInv, TypeOK, Partition
  <2> QED
    BY <2>1 DEF Init, CostBound
<1>3. IInv /\ CostBound /\ [Next]_vars => CostBound'
  <2> SUFFICES ASSUME IInv, CostBound, [Next]_vars PROVE CostBound'
    OBVIOUS
  <2>1. app' = app /\ (groups' = groups \/ MergeStep)
    BY StepMerges
  <2>2. CASE groups' = groups
    BY <2>1, <2>2 DEF CostBound
  <2>3. CASE MergeStep
    <3>1. /\ TotalCost(app, groups') < TotalCost(app, groups)
          /\ TotalCost(app, groups') \in Int
      BY <2>3, MergeLowersCost DEF MergeStep
    <3>2. TotalCost(app, groups') <= TotalCost(app, Singletons(app))
      BY <3>1 DEF CostBound
    <3> QED
      BY <2>1, <3>1, <3>2 DEF CostBound
  <2> QED
    BY <2>1, <2>2, <2>3
<1> QED
  BY <1>1, <1>2, <1>3, InitIInv, NextIInv, PTL DEF Spec
-----------------------------------------------------------------------------
(* The explanation next to the result *)

(* While merging, calls only stop being invocations, and execution only    *)
(* grows dearer.                                                           *)
TradeBound ==
    /\ Invocations(app, groups) <= Invocations(app, Singletons(app))
    /\ Execution(app, groups) >= Execution(app, Singletons(app))

LEMMA TradeTypes ==
    ASSUME IInv
    PROVE  /\ Singletons(app) \in Seq(SUBSET Fn) /\ IsPartition(Singletons(app))
           /\ Invocations(app, groups) \in Int /\ Execution(app, groups) \in Int
           /\ Invocations(app, Singletons(app)) \in Int
           /\ Execution(app, Singletons(app)) \in Int
BY SingletonsPartition, TradeoffSums DEF IInv, TypeOK

LEMMA TradeBoundInvariance ==
    /\ Init => TradeBound
    /\ IInv /\ IInv' /\ TradeBound /\ [Next]_vars => TradeBound'
<1>1. ASSUME Init PROVE TradeBound
  <2>1. IInv /\ groups = Singletons(app)
    BY <1>1, InitIInv DEF Init
  <2>2. \A x \in Int : x <= x /\ x >= x
    OBVIOUS
  <2> QED
    BY <2>1, <2>2, TradeTypes DEF TradeBound
<1>2. ASSUME IInv, IInv', TradeBound, [Next]_vars
      PROVE  TradeBound'
  <2>1. app' = app /\ (groups' = groups \/ MergeStep)
    BY <1>2, StepMerges
  <2>2. CASE groups' = groups
    BY <1>2, <2>1, <2>2 DEF TradeBound
  <2>3. CASE MergeStep
    <3>1. PICK p \in 1..Len(groups), k \in 1..Len(groups) :
             p # k /\ groups' = MergeGroups(groups, p, k)
      BY <2>3 DEF MergeStep, Mergeable
    <3>2. /\ Invocations(app, groups') <= Invocations(app, groups)
          /\ Execution(app, groups') >= Execution(app, groups)
      BY <1>2, <3>1, MergeTradesInvocations DEF IInv, TypeOK, Partition, IsPartition
    <3>3. Invocations(app, groups') \in Int /\ Execution(app, groups') \in Int
      <4>1. Application(app) /\ groups' \in Seq(SUBSET Fn)
        BY <1>2 DEF IInv, TypeOK
      <4> QED
        BY <4>1, TradeoffSums
    <3>4. \A x, y, z \in Int : /\ x <= y /\ y <= z => x <= z
                               /\ x >= y /\ y >= z => x >= z
      OBVIOUS
    <3> QED
      BY <1>2, <2>1, <3>2, <3>3, <3>4, TradeTypes DEF TradeBound
  <2> QED
    BY <2>1, <2>2, <2>3
<1> QED
  BY <1>1, <1>2

(* TradeoffExplainsTheChange: the deltas that CalculateTradeoff shows are  *)
(* the change of the totals that CalculateMetrics gives, at every step and *)
(* for every application.                                                  *)
THEOREM MinWCutExplained == Spec => []TradeoffExplainsTheChange
<1>1. IInv /\ TradeBound => TradeoffExplainsTheChange
  <2> SUFFICES ASSUME IInv, TradeBound PROVE TradeoffExplainsTheChange
    OBVIOUS
  <2> DEFINE base == Singletons(app)
             iG == Invocations(app, groups)
             iB == Invocations(app, base)
             eG == Execution(app, groups)
             eB == Execution(app, base)
  <2>1. iG \in Int /\ iB \in Int /\ eG \in Int /\ eB \in Int
    BY TradeTypes
  <2>2. iB - iG >= 0 /\ eG - eB >= 0
    BY <2>1 DEF TradeBound
  <2>3. Latency(app, base) - Latency(app, groups)
           = app.hop * (CriticalPathCuts(app, base) - CriticalPathCuts(app, groups))
    BY TradeTypes, LatencyDifference DEF IInv, TypeOK, Partition
  <2>4. ASSUME app.transferPrice = 0
        PROVE  TotalCost(app, groups) - TotalCost(app, base)
                  = -(RequestPrice * (iB - iG)) + (eG - eB)
    <3>1. /\ TotalCost(app, groups) = eG + RequestPrice * iG
          /\ TotalCost(app, base) = eB + RequestPrice * iB
      BY <2>4, TradeTypes, TotalWithoutTransfer DEF IInv, TypeOK
    <3> HIDE DEF iG, iB, eG, eB
    <3>2. \A r, x, y, u, v \in Int :
             (x + r * u) - (y + r * v) = -(r * (v - u)) + (x - y)
      OBVIOUS
    <3>3. RequestPrice \in Int
      BY PriceAssumption
    <3> QED
      BY <2>1, <3>1, <3>2, <3>3
  <2> QED
    BY <2>2, <2>3, <2>4 DEF TradeoffExplainsTheChange, CalculateTradeoff
<1> QED
  BY <1>1, TradeBoundInvariance, InitIInv, NextIInv, PTL DEF Spec

-----------------------------------------------------------------------------
(* MinWCut implements the abstract fusion *)

(* The abstract module prices a fusion with the same cost model. *)
LEMMA SameProfit ==
    ASSUME NEW a, NEW G, NEW H
    PROVE  Fusion!MergeIsProfitable(a, G, H) = MergeIsProfitable(a, G, H)
<1>1. \A w, S : Fusion!SumFunctionOnSet(w, S) = SumFunctionOnSet(w, S)
  BY DEF Fusion!SumFunctionOnSet, Fusion!FoldFunctionOnSet, Fusion!MapThenFoldSet,
         SumFunctionOnSet, FoldFunctionOnSet, MapThenFoldSet
<1>2. \A f : Fusion!RuntimeMs(a, f) = RuntimeMs(a, f) /\ Fusion!Rate(a, f) = Rate(a, f)
  BY DEF Fusion!RuntimeMs, RuntimeMs, Fusion!Rate, Rate
<1>3. \A K : Fusion!GroupMemory(a, K) = GroupMemory(a, K)
  BY DEF Fusion!GroupMemory, GroupMemory, Fusion!Max, Max
<1>4. \A K : Fusion!GroupRuntimeMs(a, K) = GroupRuntimeMs(a, K)
  BY <1>1, <1>2 DEF Fusion!GroupRuntimeMs, GroupRuntimeMs
<1>5. \A K : Fusion!GroupExecutionCost(a, K) = GroupExecutionCost(a, K)
  BY <1>3, <1>4 DEF Fusion!GroupExecutionCost, GroupExecutionCost
<1>6. \A K : Fusion!RequestCost(a, K) = RequestCost(a, K)
  BY <1>1, <1>2 DEF Fusion!RequestCost, RequestCost, Fusion!BlockInvocationRate,
                    BlockInvocationRate, Fusion!Entries, Entries
<1>7. \A f, g : Fusion!DataTransferCost(a, f, g) = DataTransferCost(a, f, g)
  BY DEF Fusion!DataTransferCost, DataTransferCost
<1>8. Fusion!MergeProfit(a, G, H) = MergeProfit(a, G, H)
  BY <1>1, <1>5, <1>6, <1>7 DEF Fusion!MergeProfit, MergeProfit
<1> QED
  BY <1>8 DEF Fusion!MergeIsProfitable, MergeIsProfitable
LEMMA SameVocabulary ==
    /\ \A a : Fusion!Application(a) <=> Application(a)
    /\ \A a, G, H : Fusion!JoinedByCall(a, G, H) <=> JoinedByCall(a, G, H)
BY DEF Fusion!Application, Application, Fusion!JoinedByCall, JoinedByCall

(* RefinesCoarsening: every merge is a fusion of two whole blocks that the *)
(* abstract module allows.                                                 *)
THEOREM MinWCutRefines == Spec => RefinesCoarsening
<1>1. Init => Fusion!Init
  <2> SUFFICES ASSUME Init PROVE Fusion!Init
    OBVIOUS
  <2>1. Application(app) /\ groups = Singletons(app)
    BY AppsAssumption DEF Init
  <2>2. /\ groups \in Seq(SUBSET Fn)
        /\ Len(groups) = Len(app.functions)
        /\ \A i \in 1..Len(groups) :
              groups[i] = {app.functions[i]} /\ app.functions[i] \in Fn
    BY <2>1, SingletonsPartition
  <2>3. \A f \in Fn : \E i \in 1..Len(groups) : app.functions[i] = f
    BY <2>1, <2>2 DEF Application
  <2>4. DOMAIN groups = 1..Len(groups)
    BY <2>2, LenProperties
  <2>5. \A B : B \in Range(groups) <=> \E i \in 1..Len(groups) : B = groups[i]
    BY <2>4 DEF Range
  <2>6. Range(groups) = {{f} : f \in Fn}
    <3>1. ASSUME NEW B, B \in Range(groups)
          PROVE  B \in {{f} : f \in Fn}
      <4>1. PICK i \in 1..Len(groups) : B = groups[i]
        BY <2>5, <3>1
      <4>2. B = {app.functions[i]} /\ app.functions[i] \in Fn
        BY <2>2, <4>1
      <4> QED
        BY <4>2
    <3>2. ASSUME NEW f \in Fn
          PROVE  {f} \in Range(groups)
      <4>1. PICK i \in 1..Len(groups) : app.functions[i] = f
        BY <2>3, <3>2
      <4>2. groups[i] = {f}
        BY <2>2, <4>1
      <4> QED
        BY <2>5, <4>1, <4>2
    <3> QED
      BY <3>1, <3>2
  <2> QED
    BY <2>1, <2>6, SameVocabulary DEF Fusion!Init
<1>2. IInv /\ [Next]_vars => [Fusion!Next]_(Fusion!vars)
  <2> SUFFICES ASSUME IInv, [Next]_vars PROVE [Fusion!Next]_(Fusion!vars)
    OBVIOUS
  <2>1. app' = app /\ (groups' = groups \/ MergeStep)
    BY StepMerges
  <2>2. CASE groups' = groups
    BY <2>1, <2>2 DEF Fusion!vars
  <2>3. CASE MergeStep
    <3>1. PICK p \in 1..Len(groups), k \in 1..Len(groups) :
             /\ Mergeable(p, k)
             /\ JoinedByCall(app, groups[p], groups[k])
             /\ groups' = MergeGroups(groups, p, k)
      BY <2>3 DEF MergeStep
    <3> DEFINE G == groups[p]
               H == groups[k]
    <3>2. groups \in Seq(SUBSET Fn) /\ IsPartition(groups) /\ Application(app)
      BY DEF IInv, TypeOK, Partition
    <3>3. p # k
      BY <3>1 DEF Mergeable
    <3>4. G # H
      BY <3>3 DEF IsPartition, PairwiseDisjoint, IInv, Partition
    <3>5. G \in Range(groups) /\ H \in Range(groups)
      BY <3>2, LenProperties DEF Range
    <3>6. Range(groups') = (Range(groups) \ {G, H}) \cup {G \cup H}
      BY <3>1, <3>2, <3>3, MergeGroupsRange
    <3>7. \A f \in G \cup H : app.mem[f] <= app.maxMem
      BY <3>1, <3>2, MergeableFits
    <3>8. Fusion!JoinedByCall(app, G, H)
      BY <3>1, SameVocabulary
    <3>9. Fusion!MergeIsProfitable(app, G, H)
      BY <3>1, SameProfit DEF Mergeable
    <3> HIDE DEF G, H
    <3>10. Fusion!Fuse(G, H)
      BY <2>1, <3>4, <3>6, <3>7, <3>8, <3>9 DEF Fusion!Fuse, Fusion!Fits
    <3> QED
      BY <3>5, <3>10 DEF Fusion!Next
  <2> QED
    BY <2>1, <2>2, <2>3
<1> QED
  BY <1>1, <1>2, InitIInv, NextIInv, PTL DEF Spec, RefinesCoarsening, Fusion!Spec
=============================================================================
