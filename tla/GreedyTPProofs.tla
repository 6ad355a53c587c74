--------------------------- MODULE GreedyTPProofs ---------------------------
(***************************************************************************)
(* Every safety property of GreedyTP holds for all applications, cyclic    *)
(* ones and those of which the search reaches only a part included: the    *)
(* search gives a function to a nearest barrier; what it claims stays      *)
(* claimed, once, through the ejection of what does not fit and through    *)
(* every merge; on a chain of calls only the calls cut beforehand are cut; *)
(* and every merge pays.                                                   *)
(***************************************************************************)
EXTENDS GreedyTP, FusionCostProofs

Claimed == {f \in Fn : barrier[f] # NoFn}

GroupsFit == \A i \in 1..Len(groups) : \A f, g \in groups[i] :
                f # g => app.mem[f] <= app.maxMem

(* The groups hold what the search claimed, each function once.            *)
ClaimsKept ==
    /\ \A f \in Fn : Assigned(groups, f) <=> barrier[f] # NoFn
    /\ PairwiseDisjoint(groups)
    /\ GroupsFit

TypeOK ==
    /\ Application(app)
    /\ barrier \in [Fn -> Fn \cup {NoFn}]
    /\ queue \in Seq(Fn)
    /\ groups \in Seq(SUBSET Fn)
    /\ candidates \subseteq app.edges

-----------------------------------------------------------------------------
(* The groups of the search *)

(* A claimed function is in the group of one slot only. *)
SlotOf(f) ==
    IF app.mem[f] <= app.maxMem THEN <<barrier[f], NoFn>> ELSE <<barrier[f], f>>

LEMMA SlotsHoldTheirOwn ==
    ASSUME TypeOK, NEW slot \in SafeSlots(app, barrier), NEW f
    PROVE  f \in SafeGroup(app, barrier, slot) <=>
              f \in Fn /\ barrier[f] # NoFn /\ slot = SlotOf(f)
<1>1. app.mem \in [Fn -> Nat] /\ app.maxMem \in Nat
  BY DEF TypeOK, Application
<1>2. NoFn \notin Fn
  BY FnAssumption
<1>3. CASE slot[2] = NoFn
  <2>1. slot = <<slot[1], NoFn>> /\ slot[1] # NoFn
    BY <1>2, <1>3 DEF SafeSlots
  <2>2. SafeGroup(app, barrier, slot) =
           {g \in Fn : barrier[g] = slot[1] /\ app.mem[g] <= app.maxMem}
    BY <1>3 DEF SafeGroup
  <2>3. f \in Fn => slot[2] # f
    BY <1>2, <1>3
  <2> QED
    BY <2>1, <2>2, <2>3 DEF SlotOf
<1>4. CASE slot[2] # NoFn
  <2>1. PICK g \in Fn : /\ barrier[g] # NoFn /\ app.mem[g] > app.maxMem
                        /\ slot = <<barrier[g], g>>
    BY <1>4 DEF SafeSlots
  <2>2. SafeGroup(app, barrier, slot) = {g}
    BY <1>4, <2>1 DEF SafeGroup
  <2>3. ~ app.mem[g] <= app.maxMem
    BY <1>1, <2>1
  <2> QED
    BY <1>4, <2>1, <2>2, <2>3 DEF SlotOf
<1> QED
  BY <1>3, <1>4

LEMMA ClaimsHaveSlots ==
    ASSUME TypeOK, NEW f \in Fn, barrier[f] # NoFn
    PROVE  SlotOf(f) \in SafeSlots(app, barrier)
<1>1. app.mem[f] \in Nat /\ app.maxMem \in Nat
  BY DEF TypeOK, Application
<1>2. barrier[f] \in Range(barrier) \ {NoFn}
  BY DEF TypeOK, Range
<1>3. CASE app.mem[f] <= app.maxMem
  BY <1>2, <1>3 DEF SlotOf, SafeSlots
<1>4. CASE ~ app.mem[f] <= app.maxMem
  BY <1>1, <1>4 DEF SlotOf, SafeSlots
<1> QED
  BY <1>3, <1>4

LEMMA SafeSlotsFinite ==
    ASSUME TypeOK
    PROVE  IsFiniteSet(SafeSlots(app, barrier))
<1> DEFINE F == Fn \cup {NoFn}
<1>1. IsFiniteSet(F)
  BY FnAssumption, FS_AddElement
<1>2. IsFiniteSet(F \X F)
  BY <1>1, FS_Product
<1>3. SafeSlots(app, barrier) \subseteq F \X F
  BY DEF SafeSlots, TypeOK, Range
<1> QED
  BY <1>2, <1>3, FS_Subset

LEMMA BuildGroupsShape ==
    ASSUME TypeOK, BuildGroups
    PROVE  /\ groups' \in Seq(SUBSET Fn)
           /\ \E slots :
                 /\ \A i, j \in 1..Len(groups') : slots[i] = slots[j] => i = j
                 /\ \A x \in SafeSlots(app, barrier) :
                       \E i \in 1..Len(groups') : slots[i] = x
                 /\ \A i \in 1..Len(groups') : \A f :
                       f \in groups'[i] <=>
                          f \in Fn /\ barrier[f] # NoFn /\ slots[i] = SlotOf(f)
<1> DEFINE S == SafeSlots(app, barrier)
<1>1. PICK slots \in SetToSeqs(S) :
         groups' = [i \in 1..Len(slots) |-> SafeGroup(app, barrier, slots[i])]
  BY DEF BuildGroups
<1>3. /\ slots \in Seq(S)
      /\ \A i, j \in 1..Len(slots) : slots[i] = slots[j] => i = j
      /\ \A x \in S : \E i \in 1..Len(slots) : slots[i] = x
  BY SafeSlotsFinite, SeqsOfSet
<1>4. Len(slots) \in Nat
  BY <1>3, LenProperties
<1>5. \A i \in 1..Len(slots) : slots[i] \in S
  BY <1>3, ElementOfSeq
<1>6. \A i \in 1..Len(slots) : \A f :
         f \in SafeGroup(app, barrier, slots[i]) <=>
            f \in Fn /\ barrier[f] # NoFn /\ slots[i] = SlotOf(f)
  BY <1>5, SlotsHoldTheirOwn
<1>7. groups' \in Seq(SUBSET Fn)
  <2>1. \A i \in 1..Len(slots) : SafeGroup(app, barrier, slots[i]) \in SUBSET Fn
    BY <1>6
  <2>2. groups' \in [1..Len(slots) -> SUBSET Fn]
    BY <1>1, <2>1
  <2> QED
    BY <1>4, <2>2, SeqDef
<1>8. Len(groups') = Len(slots)
  BY <1>1, <1>4, <1>7, LenProperties
<1>9. \A i \in 1..Len(groups') : \A f :
         f \in groups'[i] <=> f \in Fn /\ barrier[f] # NoFn /\ slots[i] = SlotOf(f)
  BY <1>1, <1>6, <1>8
<1> QED
  BY <1>3, <1>7, <1>8, <1>9

(* Ejecting loses nobody and doubles nobody. *)
LEMMA BuildGroupsKeepsClaims ==
    ASSUME TypeOK, BuildGroups
    PROVE  groups' \in Seq(SUBSET Fn) /\ ClaimsKept'
<1>1. groups' \in Seq(SUBSET Fn)
  BY BuildGroupsShape
<1>2. UNCHANGED <<app, barrier>>
  BY DEF BuildGroups
<1>3. PICK slots :
         /\ \A i, j \in 1..Len(groups') : slots[i] = slots[j] => i = j
         /\ \A x \in SafeSlots(app, barrier) :
               \E i \in 1..Len(groups') : slots[i] = x
         /\ \A i \in 1..Len(groups') : \A f :
               f \in groups'[i] <=>
                  f \in Fn /\ barrier[f] # NoFn /\ slots[i] = SlotOf(f)
  BY BuildGroupsShape
<1>4. \A f \in Fn : Assigned(groups', f) <=> barrier[f] # NoFn
  BY <1>3, ClaimsHaveSlots DEF Assigned
<1>5. PairwiseDisjoint(groups')
  BY <1>3 DEF PairwiseDisjoint
<1>6. ASSUME NEW i \in 1..Len(groups'), NEW f \in groups'[i], NEW g \in groups'[i],
             f # g
      PROVE  app.mem[f] <= app.maxMem
  <2>1. SlotOf(f) = SlotOf(g)
    BY <1>3
  <2>2. f # NoFn
    BY <1>3, FnAssumption
  <2>3. SUFFICES ASSUME ~ app.mem[f] <= app.maxMem PROVE FALSE
    OBVIOUS
  <2>4. SlotOf(f)[2] = f
    BY <2>3 DEF SlotOf
  <2>5. SlotOf(g)[2] = NoFn \/ SlotOf(g)[2] = g
    BY DEF SlotOf
  <2> QED
    BY <1>6, <2>1, <2>2, <2>4, <2>5
<1> QED
  BY <1>1, <1>2, <1>4, <1>5, <1>6 DEF ClaimsKept, GroupsFit

LEMMA SameSlotTogether ==
    ASSUME TypeOK, BuildGroups, NEW f \in Fn, NEW g \in Fn,
           barrier[f] # NoFn, barrier[g] # NoFn, SlotOf(f) = SlotOf(g)
    PROVE  Together(groups', f, g)
BY BuildGroupsShape, ClaimsHaveSlots DEF Together
-----------------------------------------------------------------------------
(* The merges *)

(* A step that merges: both gates open. *)
MergeStep ==
    \E p, k \in 1..Len(groups) :
        Mergeable(p, k) /\ groups' = MergeGroups(groups, p, k)

LEMMA ConsiderStep ==
    ASSUME TypeOK, NEW c \in candidates, Consider(c)
    PROVE  groups' = groups \/ MergeStep
<1>1. CASE MergedWith(c) = {}
  BY <1>1 DEF Consider
<1>2. CASE MergedWith(c) # {}
  <2>1. groups' \in MergedWith(c)
    BY <1>2 DEF Consider
  <2> QED
    BY <2>1 DEF MergedWith, MergeStep
<1> QED
  BY <1>1, <1>2

(* The memory gate looks at every member. *)
LEMMA MergeableFits ==
    ASSUME TypeOK,
           NEW p \in 1..Len(groups), NEW k \in 1..Len(groups), Mergeable(p, k)
    PROVE  \A f \in groups[p] \cup groups[k] : app.mem[f] <= app.maxMem
<1>1. groups[p] \in SUBSET Fn /\ groups[k] \in SUBSET Fn
  BY ElementOfSeq DEF TypeOK
<1>2. ASSUME NEW G \in SUBSET Fn, GroupMemory(app, G) <= app.maxMem, NEW f \in G
      PROVE  app.mem[f] <= app.maxMem
  <2>1. GroupMemory(app, G) \in Nat /\ app.mem[f] <= GroupMemory(app, G)
    BY GroupMemoryIsMax DEF TypeOK
  <2>2. app.mem[f] \in Nat /\ app.maxMem \in Nat
    BY DEF TypeOK, Application
  <2> QED
    BY <1>2, <2>1, <2>2
<1> QED
  BY <1>1, <1>2 DEF Mergeable

LEMMA MergeKeepsClaims ==
    ASSUME TypeOK, ClaimsKept, MergeStep, UNCHANGED <<app, barrier>>
    PROVE  groups' \in Seq(SUBSET Fn) /\ ClaimsKept'
<1>1. PICK p \in 1..Len(groups), k \in 1..Len(groups) :
         Mergeable(p, k) /\ groups' = MergeGroups(groups, p, k)
  BY DEF MergeStep
<1>2. groups \in Seq(SUBSET Fn) /\ p # k
  BY <1>1 DEF TypeOK, Mergeable
<1>3. MergeShape(groups, p, k, groups')
  BY <1>1, <1>2, MergeGroupsShape
<1>4. groups' \in Seq(SUBSET Fn)
  BY <1>3 DEF MergeShape
<1>5. \A f : Assigned(groups', f) <=> Assigned(groups, f)
  BY <1>1, <1>2, MergeKeepsAssigned
<1>6. PairwiseDisjoint(groups')
  BY <1>1, <1>2, MergeKeepsDisjoint DEF ClaimsKept
<1>7. \A i \in 1..Len(groups') :
         \/ groups'[i] = groups[p] \cup groups[k]
         \/ \E j \in 1..Len(groups) : groups'[i] = groups[j]
  BY <1>3 DEF MergeShape
<1>8. \A f \in groups[p] \cup groups[k] : app.mem[f] <= app.maxMem
  BY <1>1, MergeableFits
<1>9. GroupsFit'
  BY <1>7, <1>8 DEF ClaimsKept, GroupsFit
<1> QED
  BY <1>4, <1>5, <1>6, <1>9 DEF ClaimsKept

(* A merge adds no hop and lowers the bill, also of those partitions that  *)
(* leave functions out.                                                    *)
LEMMA MergeHelps ==
    ASSUME TypeOK, ClaimsKept, MergeStep
    PROVE  /\ CutPairs(app, groups') \subseteq CutPairs(app, groups)
           /\ TotalCost(app, groups') < TotalCost(app, groups)
<1>1. PICK p \in 1..Len(groups), k \in 1..Len(groups) :
         Mergeable(p, k) /\ groups' = MergeGroups(groups, p, k)
  BY DEF MergeStep
<1>2. groups \in Seq(SUBSET Fn) /\ p # k /\ PairwiseDisjoint(groups) /\ Application(app)
  BY <1>1 DEF TypeOK, Mergeable, ClaimsKept
<1>3. CutPairs(app, groups') \subseteq CutPairs(app, groups)
  BY <1>1, <1>2, MergeCutPairs
<1>4. /\ TotalCost(app, groups')
            = TotalCost(app, groups) - MergeProfit(app, groups[p], groups[k])
      /\ TotalCost(app, groups) \in Int
      /\ MergeProfit(app, groups[p], groups[k]) \in Int
  BY <1>1, <1>2, MergeProfitIsExact
<1>5. MergeProfit(app, groups[p], groups[k]) > 0
  BY <1>1 DEF Mergeable, MergeIsProfitable
<1> QED
  BY <1>3, <1>4, <1>5

-----------------------------------------------------------------------------
(* The search *)

LEMMA RootIsAFunction ==
    ASSUME NEW a, Application(a), RootFunction(a) # NoFn
    PROVE  RootFunction(a) \in Fn
<1> DEFINE I == {i \in 1..Len(a.functions) : a.parent[a.functions[i]] = NoFn}
           r == IF I # {} THEN Min(I) ELSE 0
<1>1. RootFunction(a) = IF r = 0 THEN NoFn ELSE a.functions[r]
  BY DEF RootFunction, SelectInSeq
<1>2. a.functions \in Seq(Fn) /\ Len(a.functions) \in Nat
  BY LenProperties DEF Application
<1>3. IsFiniteSet(I) /\ \A i \in I : i \in Int
  <2>1. IsFiniteSet(1..Len(a.functions))
    BY <1>2, FS_Interval
  <2>2. I \in SUBSET (1..Len(a.functions))
    OBVIOUS
  <2>3. \A i \in 1..Len(a.functions) : i \in Int
    BY <1>2
  <2> HIDE DEF I
  <2> QED
    BY <2>1, <2>2, <2>3, FS_Subset
<1>4. I # {} => Min(I) \in I
  <2> HIDE DEF I
  <2> QED
    BY <1>3, MinExists
<1>5. r # 0
  BY <1>1
<1>6. r \in 1..Len(a.functions)
  BY <1>4, <1>5
<1> QED
  BY <1>1, <1>2, <1>5, <1>6, ElementOfSeq

(* The cuts are on the path, if its functions alone are fast enough. *)
LEMMA CallsKeptIsACount ==
    ASSUME NEW a, Application(a), a.critPath # <<>>,
           CriticalPathRuntimeMs(a) <= a.maxLat
    PROVE  /\ PathCalls(a) \in Nat
           /\ CallsKept(a) \in 0..PathCalls(a)
           /\ CriticalPathRuntimeMs(a) + a.hop * (PathCalls(a) - CallsKept(a)) <= a.maxLat
<1> DEFINE n == PathCalls(a)
           K == {k \in 0..n : CriticalPathRuntimeMs(a) + a.hop * (n - k) <= a.maxLat}
<1>1. n \in Nat
  <2>1. a.critPath \in Seq(Fn)
    BY DEF Application
  <2>2. Len(a.critPath) \in Nat /\ Len(a.critPath) # 0
    BY <2>1, LenProperties, EmptySeq
  <2> QED
    BY <2>2 DEF PathCalls
<1>2. CriticalPathRuntimeMs(a) \in Int
  BY PathRuntimeInt
<1>3. a.hop \in Nat /\ a.hop * 0 = 0
  <2>1. a.hop \in Nat
    BY DEF Application
  <2> QED
    BY <2>1
<1> HIDE DEF n
<1>4. n \in K
  <2>1. n - n = 0
    BY <1>1
  <2> QED
    BY <1>1, <1>2, <1>3, <2>1
<1>5. IsFiniteSet(0..n)
  BY <1>1, FS_Interval
<1>6. IsFiniteSet(K)
  BY <1>5, FS_Subset
<1>7. \A k \in K : k \in Int
  BY <1>1
<1>8. Min(K) \in K
  <2> HIDE DEF K
  <2> QED
    BY <1>4, <1>6, <1>7, MinExists
<1> QED
  BY <1>1, <1>8 DEF CallsKept, n

LEMMA BarriersAreFunctions ==
    ASSUME NEW a, Application(a), a.critPath # <<>>,
           CriticalPathRuntimeMs(a) <= a.maxLat, RootFunction(a) # NoFn
    PROVE  Barriers(a) \in SUBSET Fn /\ IsFiniteSet(Barriers(a))
<1>1. a.critPath \in Seq(Fn) /\ Len(a.critPath) \in Nat
  BY LenProperties DEF Application
<1>2. ASSUME NEW i \in (CallsKept(a) + 1)..PathCalls(a)
      PROVE  a.critPath[i + 1] \in Fn
  <2>1. i + 1 \in 1..Len(a.critPath)
    BY <1>1, CallsKeptIsACount DEF PathCalls
  <2> QED
    BY <1>1, <2>1, ElementOfSeq
<1>3. Barriers(a) \in SUBSET Fn
  BY <1>2, RootIsAFunction DEF Barriers
<1> QED
  BY <1>3, FnAssumption, FS_Subset

LEMMA ChooseBarriersTypes ==
    ASSUME TypeOK, ChooseBarriers
    PROVE  /\ barrier' \in [Fn -> Fn \cup {NoFn}]
           /\ queue' \in Seq(Fn)
<1>1. Barriers(app) \in SUBSET Fn /\ IsFiniteSet(Barriers(app))
  BY BarriersAreFunctions DEF ChooseBarriers, TypeOK
<1>2. queue' \in Seq(Barriers(app))
  BY <1>1, SeqsOfSet DEF ChooseBarriers
<1>3. queue' \in Seq(Fn)
  BY <1>1, <1>2, SeqMonotonic
<1> QED
  BY <1>1, <1>3 DEF ChooseBarriers

LEMMA VisitTypes ==
    ASSUME TypeOK, Visit
    PROVE  /\ barrier' \in [Fn -> Fn \cup {NoFn}]
           /\ queue' \in Seq(Fn)
<1> DEFINE f == Head(queue)
           fresh == {g \in Callees(app, f) : barrier[g] = NoFn}
<1>1. f \in Fn /\ Tail(queue) \in Seq(Fn)
  BY HeadTailProperties DEF TypeOK, Visit
<1>2. fresh \in SUBSET Fn
  BY DEF Callees
<1>3. barrier' = [g \in Fn |-> IF g \in fresh THEN barrier[f] ELSE barrier[g]]
  BY DEF Visit
<1>4. PICK s \in SetToSeqs(fresh) : queue' = Tail(queue) \o s
  BY DEF Visit
<1> HIDE DEF fresh, f
<1>5. IsFiniteSet(fresh)
  BY <1>2, FnAssumption, FS_Subset
<1>6. s \in Seq(fresh)
  BY <1>5, SeqsOfSet
<1>7. s \in Seq(Fn)
  BY <1>2, <1>6, SeqMonotonic
<1>8. queue' \in Seq(Fn)
  BY <1>1, <1>4, <1>7, ConcatProperties
<1> QED
  BY <1>1, <1>3, <1>8 DEF TypeOK
-----------------------------------------------------------------------------
(* Distances.  Ball is a recursive function; that there is one follows, as *)
(* for sums, from tables up to n, by looking at a smallest counterexample. *)

Wider(a, S) == S \cup UNION {Callees(a, f) : f \in S}

BallTable(a, S, n, h) ==
    /\ h[0] = S
    /\ \A k \in 0..(n - 1) : h[k + 1] = Wider(a, h[k])

LEMMA BallTableExists ==
    ASSUME NEW a, NEW S, NEW n \in Nat
    PROVE  \E h : BallTable(a, S, n, h)
<1> DEFINE Bad == {k \in Nat : ~ \E h : BallTable(a, S, k, h)}
<1>1. SUFFICES ASSUME Bad # {} PROVE FALSE
  OBVIOUS
<1>2. PICK m \in Bad : \A k \in Bad : m <= k
  <2>1. Bad \in SUBSET Nat
    OBVIOUS
  <2> HIDE DEF Bad
  <2> QED
    BY <1>1, <2>1, LeastNumber
<1>3. m # 0
  <2>1. BallTable(a, S, 0, [k \in {0} |-> S])
    BY DEF BallTable
  <2> QED
    BY <1>2, <2>1
<1>4. PICK h : BallTable(a, S, m - 1, h)
  <2>1. m - 1 \in Nat /\ ~ m <= m - 1
    BY <1>3
  <2> QED
    BY <1>2, <2>1
<1> DEFINE g == [k \in 0..m |-> IF k = m THEN Wider(a, h[m - 1]) ELSE h[k]]
<1>5. g[0] = S
  BY <1>3, <1>4 DEF BallTable
<1>6. ASSUME NEW k \in 0..(m - 1)
      PROVE  g[k + 1] = Wider(a, g[k])
  <2>1. k \in 0..m /\ k + 1 \in 0..m /\ k # m /\ g[k] = h[k]
    BY <1>3
  <2>2. CASE k = m - 1
    BY <2>1, <2>2
  <2>3. CASE k # m - 1
    <3>1. k \in 0..((m - 1) - 1) /\ k + 1 # m
      BY <1>3, <2>3
    <3>2. h[k + 1] = Wider(a, h[k])
      BY <1>4, <3>1 DEF BallTable
    <3> QED
      BY <2>1, <3>1, <3>2
  <2> QED
    BY <2>2, <2>3
<1>7. BallTable(a, S, m, g)
  BY <1>5, <1>6 DEF BallTable
<1> QED
  BY <1>2, <1>7

LEMMA BallTablesAgree ==
    ASSUME NEW a, NEW S, NEW m \in Nat, NEW n \in Nat, NEW h, NEW g,
           BallTable(a, S, m, h), BallTable(a, S, n, g),
           NEW k \in Nat, k <= m, k <= n
    PROVE  h[k] = g[k]
<1> DEFINE Bad == {j \in Nat : j <= m /\ j <= n /\ h[j] # g[j]}
<1>1. SUFFICES ASSUME Bad # {} PROVE FALSE
  OBVIOUS
<1>2. PICK j \in Bad : \A i \in Bad : j <= i
  <2>1. Bad \in SUBSET Nat
    OBVIOUS
  <2> HIDE DEF Bad
  <2> QED
    BY <1>1, <2>1, LeastNumber
<1>3. j # 0
  BY <1>2 DEF BallTable
<1>4. /\ j - 1 \in Nat /\ ~ j <= j - 1 /\ (j - 1) + 1 = j
      /\ j - 1 \in 0..(m - 1) /\ j - 1 \in 0..(n - 1)
      /\ j - 1 <= m /\ j - 1 <= n
  BY <1>3
<1>5. h[j - 1] = g[j - 1]
  BY <1>2, <1>4
<1>6. h[(j - 1) + 1] = Wider(a, h[j - 1]) /\ g[(j - 1) + 1] = Wider(a, g[j - 1])
  BY <1>4 DEF BallTable
<1> QED
  BY <1>2, <1>4, <1>5, <1>6

LEMMA BallUnfold ==
    ASSUME NEW a, NEW S
    PROVE  /\ Ball(a, S)[0] = S
           /\ \A n \in Nat : Ball(a, S)[n + 1] = Wider(a, Ball(a, S)[n])
<1> DEFINE Body(b, n) == IF n = 0 THEN S
                         ELSE b[n - 1] \cup UNION {Callees(a, f) : f \in b[n - 1]}
           H(n) == CHOOSE h : BallTable(a, S, n, h)
           b0 == [n \in Nat |-> H(n)[n]]
<1>1. \A n \in Nat : BallTable(a, S, n, H(n))
  BY BallTableExists
<1> HIDE DEF H
<1>2. ASSUME NEW n \in Nat
      PROVE  b0[n] = Body(b0, n)
  <2>1. CASE n = 0
    BY <1>1, <2>1 DEF BallTable
  <2>2. CASE n # 0
    <3>1. n - 1 \in Nat /\ n - 1 \in 0..(n - 1) /\ (n - 1) + 1 = n /\ n - 1 <= n
      BY <2>2
    <3>2. H(n)[(n - 1) + 1] = Wider(a, H(n)[n - 1])
      BY <1>1, <3>1 DEF BallTable
    <3>3. H(n)[n - 1] = H(n - 1)[n - 1]
      <4>1. BallTable(a, S, n, H(n)) /\ BallTable(a, S, n - 1, H(n - 1))
        BY <1>1, <3>1
      <4> QED
        BY <3>1, <4>1, BallTablesAgree
    <3>4. b0[n - 1] = H(n - 1)[n - 1] /\ b0[n] = H(n)[n]
      BY <3>1
    <3> HIDE DEF b0
    <3> QED
      BY <2>2, <3>1, <3>2, <3>3, <3>4 DEF Wider
  <2> QED
    BY <2>1, <2>2
<1>3. \E b : b = [n \in Nat |-> Body(b, n)]
  <2>1. b0 = [n \in Nat |-> b0[n]]
    OBVIOUS
  <2> HIDE DEF b0
  <2>2. b0 = [n \in Nat |-> Body(b0, n)]
    BY <1>2, <2>1
  <2> QED
    BY <2>2
<1> DEFINE ball == CHOOSE b : b = [n \in Nat |-> Body(b, n)]
<1>4. ball = [n \in Nat |-> Body(ball, n)]
  BY <1>3, Zenon
<1>5. Ball(a, S) = ball
  BY Zenon DEF Ball
<1> HIDE DEF ball
<1>6. \A n \in Nat : ball[n] = Body(ball, n)
  BY <1>4
<1>7. \A n \in Nat : n + 1 \in Nat /\ n + 1 # 0 /\ (n + 1) - 1 = n
  OBVIOUS
<1>8. \A n \in Nat : ball[n + 1] = Wider(a, ball[n])
  BY <1>6, <1>7 DEF Wider
<1> QED
  BY <1>5, <1>6, <1>8

(* Once a set is closed under calls it holds all that is near it. *)
LEMMA BallStaysInside ==
    ASSUME NEW a, NEW S, NEW C, S \subseteq C,
           \A f \in C : Callees(a, f) \subseteq C,
           NEW n \in Nat
    PROVE  Ball(a, S)[n] \subseteq C
<1> DEFINE D == Ball(a, S)
           Bad == {k \in Nat : ~ D[k] \subseteq C}
<1>1. SUFFICES ASSUME Bad # {} PROVE FALSE
  OBVIOUS
<1>2. PICK m \in Bad : \A k \in Bad : m <= k
  <2>1. Bad \in SUBSET Nat
    OBVIOUS
  <2> HIDE DEF Bad
  <2> QED
    BY <1>1, <2>1, LeastNumber
<1>3. m # 0
  BY <1>2, BallUnfold
<1>4. m - 1 \in Nat /\ ~ m <= m - 1 /\ (m - 1) + 1 = m
  BY <1>3
<1>5. D[m - 1] \subseteq C
  BY <1>2, <1>4
<1>6. D[m] = Wider(a, D[m - 1])
  <2>1. D[(m - 1) + 1] = Wider(a, D[m - 1])
    BY <1>4, BallUnfold
  <2> QED
    BY <1>4, <2>1
<1> HIDE DEF D
<1>7. Wider(a, D[m - 1]) \subseteq C
  BY <1>5 DEF Wider
<1> QED
  BY <1>2, <1>6, <1>7 DEF Bad

LEMMA BallGrows ==
    ASSUME NEW a, NEW S, NEW m \in Nat, NEW n \in Nat, m <= n
    PROVE  Ball(a, S)[m] \subseteq Ball(a, S)[n]
<1> DEFINE D == Ball(a, S)
           Bad == {k \in Nat : m <= k /\ ~ D[m] \subseteq D[k]}
<1>1. SUFFICES ASSUME Bad # {} PROVE FALSE
  OBVIOUS
<1>2. PICK k \in Bad : \A j \in Bad : k <= j
  <2>1. Bad \in SUBSET Nat
    OBVIOUS
  <2> HIDE DEF Bad
  <2> QED
    BY <1>1, <2>1, LeastNumber
<1>3. k # m
  BY <1>2
<1>4. k - 1 \in Nat /\ m <= k - 1 /\ ~ k <= k - 1 /\ (k - 1) + 1 = k
  BY <1>2, <1>3
<1>5. D[m] \subseteq D[k - 1]
  BY <1>2, <1>4
<1>6. D[k - 1] \subseteq D[k]
  <2>1. D[(k - 1) + 1] = Wider(a, D[k - 1])
    BY <1>4, BallUnfold
  <2> QED
    BY <1>4, <2>1 DEF Wider
<1> QED
  BY <1>2, <1>5, <1>6
-----------------------------------------------------------------------------
(* The breadth-first search.  Near(k) is what is k calls from a barrier.   *)

Started ==
    /\ app.critPath # <<>>
    /\ CriticalPathRuntimeMs(app) <= app.maxLat
    /\ RootFunction(app) # NoFn

Near(k) == Ball(app, Barriers(app))[k]

Queued(f) == \E i \in 1..Len(queue) : queue[i] = f

Rooted == \A b \in Barriers(app) : barrier[b] = b

(* A claim is a barrier's own or handed on by a caller. *)
Inherited ==
    \A g \in Claimed :
        /\ barrier[g] \in Barriers(app)
        /\ \/ g \in Barriers(app)
           \/ \E f \in Fn : <<f, g>> \in app.edges /\ barrier[f] = barrier[g]

NearestKept ==
    \A f \in Claimed, n \in Nat :
        f \in Near(n) => f \in Ball(app, {barrier[f]})[n]

(* Who has been visited has no callee unclaimed. *)
Visited == \A f \in Claimed : Queued(f) \/ Callees(app, f) \subseteq Claimed

QueueClaimed == \A i \in 1..Len(queue) : queue[i] \in Claimed

(* The first m in the queue are k calls away, the others a call further;   *)
(* whoever is k calls away is claimed, and visited unless among the m.     *)
Level(k, m) ==
    /\ Near(k) \subseteq Claimed
    /\ \A i \in 1..m : queue[i] \in Near(k)
    /\ \A i \in 1..Len(queue) : queue[i] \in Near(k + 1)
    /\ \A g \in Near(k) :
          (\E i \in 1..m : queue[i] = g) \/ Callees(app, g) \subseteq Claimed

Levelled == \E k \in Nat, m \in 0..Len(queue) : Level(k, m)

Search ==
    /\ Rooted
    /\ Inherited
    /\ NearestKept
    /\ Visited
    /\ QueueClaimed
    /\ Levelled

LEMMA NearUnfold ==
    /\ Near(0) = Barriers(app)
    /\ \A n \in Nat : Near(n + 1) = Wider(app, Near(n))
BY BallUnfold DEF Near

(* There is a level with the head of the queue on it. *)
LEMMA HeadLevel ==
    ASSUME TypeOK, Search, queue # <<>>
    PROVE  \E k \in Nat, m \in 1..Len(queue) : Level(k, m)
<1>1. PICK k \in Nat, m \in 0..Len(queue) : Level(k, m)
  BY DEF Search, Levelled
<1>2. Len(queue) \in Nat /\ Len(queue) >= 1
  <2>1. queue \in Seq(Fn)
    BY DEF TypeOK
  <2>2. Len(queue) \in Nat /\ Len(queue) # 0
    BY <2>1, LenProperties, EmptySeq
  <2> QED
    BY <2>2
<1>3. CASE m >= 1
  <2>1. m \in 1..Len(queue)
    BY <1>2, <1>3
  <2> QED
    BY <1>1, <2>1
<1>4. CASE m = 0
  <2>1. /\ Near(k + 1) = Wider(app, Near(k))
        /\ Near((k + 1) + 1) = Wider(app, Near(k + 1))
        /\ k + 1 \in Nat
    <3>1. k + 1 \in Nat
      OBVIOUS
    <3> QED
      BY <3>1, NearUnfold
  <2>2. \A g \in Near(k) : g \in Claimed /\ Callees(app, g) \subseteq Claimed
    BY <1>1, <1>4 DEF Level
  <2>3. Near(k + 1) \subseteq Claimed
    BY <2>1, <2>2 DEF Wider
  <2>4. \A i \in 1..Len(queue) : queue[i] \in Near(k + 1)
    BY <1>1 DEF Level
  <2>5. Near(k + 1) \subseteq Near((k + 1) + 1)
    BY <2>1 DEF Wider
  <2>6. \A g \in Near(k + 1) : Queued(g) \/ Callees(app, g) \subseteq Claimed
    BY <2>3 DEF Search, Visited
  <2>7. Level(k + 1, Len(queue))
    BY <2>3, <2>4, <2>5, <2>6 DEF Level, Queued
  <2> QED
    BY <1>2, <2>1, <2>7
<1> QED
  BY <1>2, <1>3, <1>4

LEMMA SearchBegins ==
    ASSUME TypeOK, ChooseBarriers
    PROVE  Search'
<1> DEFINE B == Barriers(app)
<1>1. B \in SUBSET Fn /\ IsFiniteSet(B)
  BY BarriersAreFunctions DEF ChooseBarriers, TypeOK
<1>2. app' = app /\ barrier' = [f \in Fn |-> IF f \in B THEN f ELSE NoFn]
  BY DEF ChooseBarriers
<1>3. /\ queue' \in Seq(B)
      /\ \A b \in B : \E i \in 1..Len(queue') : queue'[i] = b
  BY <1>1, SeqsOfSet DEF ChooseBarriers
<1>4. Len(queue') \in Nat /\ \A i \in 1..Len(queue') : queue'[i] \in B
  BY <1>3, LenProperties, ElementOfSeq
<1>5. Claimed' = B
  BY <1>1, <1>2, FnAssumption DEF Claimed
<1>6. \A k : Near(k)' = Near(k)
  BY <1>2 DEF Near
<1>7. Near(0) = B /\ Near(0 + 1) = Wider(app, B) /\ B \subseteq Wider(app, B)
  BY NearUnfold DEF Wider
<1>8. Rooted' /\ Inherited' /\ QueueClaimed'
  BY <1>1, <1>2, <1>4, <1>5 DEF Rooted, Inherited, QueueClaimed
<1>9. NearestKept'
  <2> SUFFICES ASSUME NEW f \in B, NEW n \in Nat
               PROVE  f \in Ball(app, {f})[n]
    BY <1>1, <1>2, <1>5 DEF NearestKept
  <2>1. Ball(app, {f})[0] = {f}
    BY BallUnfold
  <2>2. Ball(app, {f})[0] \subseteq Ball(app, {f})[n]
    BY BallGrows
  <2> QED
    BY <2>1, <2>2
<1>10. \A f \in B : Queued(f)'
  BY <1>3 DEF Queued
<1>11. Visited'
  BY <1>5, <1>10 DEF Visited
<1>12. Level(0, Len(queue))'
  BY <1>3, <1>4, <1>5, <1>6, <1>7 DEF Level
<1>13. Levelled'
  BY <1>4, <1>12 DEF Levelled
<1> QED
  BY <1>8, <1>9, <1>11, <1>13 DEF Search

(* A visit hands the barrier of f on to its callees, which queue up.       *)
LEMMA VisitShape ==
    ASSUME TypeOK, QueueClaimed, Visit
    PROVE  LET f == queue[1]
               fresh == {g \in Callees(app, f) : barrier[g] = NoFn}
           IN  /\ f \in Claimed
               /\ Claimed' = Claimed \cup fresh
               /\ \A g \in Fn : barrier'[g] = IF g \in fresh THEN barrier[f] ELSE barrier[g]
               /\ Len(queue) \in Nat /\ Len(queue) >= 1 /\ Len(queue') \in Nat
               /\ Len(queue') >= Len(queue) - 1
               /\ \A i \in 1..(Len(queue) - 1) : queue'[i] = queue[i + 1]
               /\ \A i \in 1..Len(queue') : i > Len(queue) - 1 => queue'[i] \in fresh
               /\ \A g \in fresh : Queued(g)'
<1> DEFINE f == queue[1]
           fresh == {g \in Callees(app, f) : barrier[g] = NoFn}
           t == Tail(queue)
<1>1. queue \in Seq(Fn) /\ queue # <<>>
  BY DEF TypeOK, Visit
<1>2. Head(queue) = f
  BY <1>1
<1>3. /\ f \in Fn /\ t \in Seq(Fn) /\ Len(t) = Len(queue) - 1
      /\ \A i \in 1..Len(t) : t[i] = queue[i + 1]
  BY <1>1, <1>2, HeadTailProperties
<1>4. Len(queue) \in Nat /\ Len(queue) >= 1
  <2>1. Len(queue) \in Nat /\ Len(queue) # 0
    BY <1>1, LenProperties, EmptySeq
  <2> QED
    BY <2>1
<1>5. f \in Claimed
  BY <1>4 DEF QueueClaimed
<1>6. barrier' = [g \in Fn |-> IF g \in fresh THEN barrier[f] ELSE barrier[g]]
  BY <1>2 DEF Visit
<1>7. PICK s \in SetToSeqs(fresh) : queue' = t \o s
  BY <1>2 DEF Visit
<1>8. fresh \in SUBSET Fn /\ \A g \in fresh : barrier[g] = NoFn
  BY DEF Callees
<1> HIDE DEF fresh, f, t
<1>9. IsFiniteSet(fresh)
  BY <1>8, FnAssumption, FS_Subset
<1>10. s \in Seq(fresh) /\ \A g \in fresh : \E i \in 1..Len(s) : s[i] = g
  BY <1>9, SeqsOfSet
<1>11. Len(s) \in Nat /\ \A i \in 1..Len(s) : s[i] \in fresh
  BY <1>10, LenProperties, ElementOfSeq
<1>12. s \in Seq(Fn)
  BY <1>8, <1>10, SeqMonotonic
<1>13. /\ Len(queue') = Len(t) + Len(s)
       /\ \A i \in 1..(Len(t) + Len(s)) :
             queue'[i] = IF i <= Len(t) THEN t[i] ELSE s[i - Len(t)]
  BY <1>3, <1>7, <1>12, ConcatProperties
<1>14. Len(t) \in Nat
  BY <1>3, <1>4
<1>15. \A i \in 1..(Len(queue) - 1) : queue'[i] = queue[i + 1]
  BY <1>3, <1>11, <1>13, <1>14
<1>16. \A i \in 1..Len(queue') : i > Len(queue) - 1 => queue'[i] \in fresh
  <2> SUFFICES ASSUME NEW i \in 1..Len(queue'), i > Len(queue) - 1
               PROVE  queue'[i] \in fresh
    OBVIOUS
  <2>1. /\ i \in 1..(Len(t) + Len(s)) /\ ~ i <= Len(t)
        /\ i - Len(t) \in 1..Len(s)
    BY <1>3, <1>11, <1>13, <1>14
  <2> QED
    BY <1>11, <1>13, <2>1
<1>17. ASSUME NEW g \in fresh PROVE Queued(g)'
  <2>1. PICK i \in 1..Len(s) : s[i] = g
    BY <1>10
  <2>2. /\ Len(t) + i \in 1..(Len(t) + Len(s)) /\ ~ Len(t) + i <= Len(t)
        /\ (Len(t) + i) - Len(t) = i
    BY <1>11, <1>14
  <2>3. queue'[Len(t) + i] = g
    BY <1>13, <2>1, <2>2
  <2> QED
    BY <1>13, <2>2, <2>3 DEF Queued
<1>18. \A g \in Fn : barrier'[g] = IF g \in fresh THEN barrier[f] ELSE barrier[g]
  BY <1>6
<1>19. Claimed' = Claimed \cup fresh
  BY <1>5, <1>8, <1>18 DEF Claimed
<1>20. Len(queue') \in Nat /\ Len(queue') >= Len(queue) - 1
  BY <1>3, <1>11, <1>13, <1>14
<1> QED
  BY <1>4, <1>5, <1>15, <1>16, <1>17, <1>18, <1>19, <1>20 DEF f, fresh

LEMMA SearchGoesOn ==
    ASSUME TypeOK, Started, Search, Visit
    PROVE  Search'
<1> DEFINE f == queue[1]
           fresh == {g \in Callees(app, f) : barrier[g] = NoFn}
           n == Len(queue)
<1>1. /\ f \in Claimed
      /\ Claimed' = Claimed \cup fresh
      /\ \A g \in Fn : barrier'[g] = IF g \in fresh THEN barrier[f] ELSE barrier[g]
      /\ n \in Nat /\ n >= 1 /\ Len(queue') \in Nat /\ Len(queue') >= n - 1
      /\ \A i \in 1..(n - 1) : queue'[i] = queue[i + 1]
      /\ \A i \in 1..Len(queue') : i > n - 1 => queue'[i] \in fresh
      /\ \A g \in fresh : Queued(g)'
  BY VisitShape DEF Search
<1>2. app' = app /\ queue # <<>>
  BY DEF Visit
<1>3. /\ \A g \in fresh : g \in Callees(app, f) /\ g \in Fn /\ barrier[g] = NoFn
      /\ Callees(app, f) \subseteq Claimed \cup fresh
  BY DEF Callees, Claimed
<1>4. \A g \in Claimed : g \in Fn /\ barrier[g] # NoFn /\ g \notin fresh
  BY <1>3 DEF Claimed
<1>5. \A k : Near(k)' = Near(k)
  BY <1>2 DEF Near
<1>6. f \in Fn /\ \A g \in fresh : <<f, g>> \in app.edges
  BY <1>4, <1>1 DEF Callees
<1>7. PICK k \in Nat, m \in 1..n : Level(k, m)
  BY <1>2, HeadLevel
<1>8. /\ Near(k) \subseteq Claimed
      /\ \A i \in 1..m : queue[i] \in Near(k)
      /\ \A i \in 1..n : queue[i] \in Near(k + 1)
      /\ \A g \in Near(k) :
            (\E i \in 1..m : queue[i] = g) \/ Callees(app, g) \subseteq Claimed
  BY <1>7 DEF Level
<1>9. f \in Near(k)
  BY <1>7, <1>8, <1>1
<1>10. fresh \subseteq Near(k + 1)
  BY <1>3, <1>9, NearUnfold DEF Wider
<1> HIDE DEF fresh, f
<1>11. \A g \in Claimed : barrier'[g] = barrier[g]
  BY <1>1, <1>4
<1>12. \A g \in fresh : barrier'[g] = barrier[f]
  BY <1>1, <1>3
<1>13. \A b \in Barriers(app) : b \in Claimed
  <2>1. \A b \in Barriers(app) : barrier[b] = b /\ b \in Fn
    BY BarriersAreFunctions DEF TypeOK, Started, Search, Rooted
  <2> QED
    BY <2>1, FnAssumption DEF Claimed
<1>14. Rooted'
  BY <1>2, <1>11, <1>13 DEF Search, Rooted
<1>15. Inherited'
  <2> SUFFICES ASSUME NEW g \in Claimed'
               PROVE  /\ barrier'[g] \in Barriers(app)
                      /\ \/ g \in Barriers(app)
                         \/ \E h \in Fn : <<h, g>> \in app.edges /\ barrier'[h] = barrier'[g]
    BY <1>2 DEF Inherited
  <2>1. CASE g \in Claimed
    <3>1. /\ barrier[g] \in Barriers(app)
          /\ \/ g \in Barriers(app)
             \/ \E h \in Fn : <<h, g>> \in app.edges /\ barrier[h] = barrier[g]
      BY <2>1 DEF Search, Inherited
    <3>2. \A h \in Fn : barrier[h] = barrier[g] => h \in Claimed
      BY <1>4, <2>1 DEF Claimed
    <3> QED
      BY <1>11, <2>1, <3>1, <3>2
  <2>2. CASE g \in fresh
    <3>1. barrier[f] \in Barriers(app)
      BY <1>1 DEF Search, Inherited
    <3> QED
      BY <1>1, <1>6, <1>11, <1>12, <2>2, <3>1
  <2> QED
    BY <1>1, <2>1, <2>2
<1>16. NearestKept'
  <2> SUFFICES ASSUME NEW h \in Claimed', NEW j \in Nat, h \in Near(j)
               PROVE  h \in Ball(app, {barrier'[h]})[j]
    BY <1>2, <1>5 DEF NearestKept
  <2>1. CASE h \in Claimed
    BY <1>11, <2>1 DEF Search, NearestKept
  <2>2. CASE h \in fresh
    <3> DEFINE D == Ball(app, {barrier[f]})
    <3>1. h \notin Near(k)
      BY <1>4, <1>8, <2>2
    <3>2. j <= k => Near(j) \subseteq Near(k)
      BY BallGrows DEF Near
    <3>3. k + 1 <= j /\ k + 1 \in Nat
      BY <3>1, <3>2
    <3>4. f \in D[k]
      BY <1>1, <1>9 DEF Search, NearestKept
    <3>5. D[k + 1] = Wider(app, D[k])
      BY BallUnfold
    <3>6. h \in Callees(app, f)
      BY <1>3, <2>2
    <3>7. h \in D[k + 1]
      BY <3>4, <3>5, <3>6 DEF Wider
    <3>8. D[k + 1] \subseteq D[j]
      BY <3>3, BallGrows
    <3> QED
      BY <1>12, <2>2, <3>7, <3>8
  <2> QED
    BY <1>1, <2>1, <2>2
<1>20. \A i \in 2..n : i - 1 \in 1..(n - 1) /\ i - 1 \in 1..Len(queue')
                      /\ queue'[i - 1] = queue[i]
  <2> SUFFICES ASSUME NEW i \in 2..n
               PROVE  /\ i - 1 \in 1..(n - 1) /\ i - 1 \in 1..Len(queue')
                      /\ queue'[i - 1] = queue[i]
    OBVIOUS
  <2>1. i - 1 \in 1..(n - 1) /\ i - 1 \in 1..Len(queue') /\ (i - 1) + 1 = i
    BY <1>1
  <2> QED
    BY <1>1, <2>1
<1>17. Visited'
  <2> SUFFICES ASSUME NEW h \in Claimed'
               PROVE  Queued(h)' \/ Callees(app, h) \subseteq Claimed'
    BY <1>2 DEF Visited
  <2>1. CASE h \in fresh
    BY <1>1, <2>1
  <2>2. CASE h \in Claimed /\ Callees(app, h) \subseteq Claimed
    BY <1>1, <2>2
  <2>3. CASE h \in Claimed /\ Queued(h)
    <3>1. PICK i \in 1..n : queue[i] = h
      BY <2>3 DEF Queued
    <3>2. CASE i = 1
      BY <1>1, <1>3, <3>1, <3>2 DEF f
    <3>3. CASE i # 1
      <4>1. i \in 2..n
        BY <1>1, <3>3
      <4> QED
        BY <1>20, <3>1, <4>1 DEF Queued
    <3> QED
      BY <3>2, <3>3
  <2> QED
    BY <1>1, <2>1, <2>2, <2>3 DEF Search, Visited
<1>21. \A i \in 1..Len(queue') :
          \/ queue'[i] \in fresh
          \/ \E j \in 1..n : queue'[i] = queue[j]
  <2> SUFFICES ASSUME NEW i \in 1..Len(queue'), ~ i > n - 1
               PROVE  \E j \in 1..n : queue'[i] = queue[j]
    BY <1>1
  <2>1. i \in 1..(n - 1) /\ i + 1 \in 1..n
    BY <1>1
  <2> QED
    BY <1>1, <2>1
<1>18. QueueClaimed'
  <2>1. \A j \in 1..n : queue[j] \in Claimed
    BY DEF Search, QueueClaimed
  <2>2. \A i \in 1..Len(queue') : queue'[i] \in Claimed'
    BY <1>1, <1>21, <2>1
  <2> QED
    BY <2>2 DEF QueueClaimed
<1>19. Levelled'
  <2>1. m - 1 \in 0..Len(queue')
    BY <1>1, <1>7
  <2>2. ASSUME NEW i \in 1..(m - 1)
        PROVE  queue'[i] \in Near(k)
    <3>1. i \in 1..(n - 1) /\ i + 1 \in 1..m
      BY <1>1, <1>7
    <3> QED
      BY <1>1, <1>8, <3>1
  <2>3. \A i \in 1..Len(queue') : queue'[i] \in Near(k + 1)
    BY <1>8, <1>10, <1>21
  <2>4. ASSUME NEW g \in Near(k)
        PROVE  \/ \E i \in 1..(m - 1) : queue'[i] = g
               \/ Callees(app, g) \subseteq Claimed'
    <3>1. CASE Callees(app, g) \subseteq Claimed
      BY <1>1, <3>1
    <3>2. CASE \E i \in 1..m : queue[i] = g
      <4>1. PICK i \in 1..m : queue[i] = g
        BY <3>2
      <4>2. CASE i = 1
        BY <1>1, <1>3, <4>1, <4>2 DEF f
      <4>3. CASE i # 1
        <5>1. i \in 2..n /\ i - 1 \in 1..(m - 1)
          BY <1>1, <1>7, <4>3
        <5> QED
          BY <1>20, <4>1, <5>1
      <4> QED
        BY <4>2, <4>3
    <3> QED
      BY <1>8, <3>1, <3>2
  <2>5. Near(k) \subseteq Claimed'
    BY <1>1, <1>8
  <2>6. Level(k, m - 1)'
    BY <1>2, <1>5, <2>2, <2>3, <2>4, <2>5 DEF Level
  <2> QED
    BY <2>1, <2>6 DEF Levelled
<1> QED
  BY <1>14, <1>15, <1>16, <1>17, <1>18, <1>19 DEF Search

(* With an empty queue all that a barrier reaches is claimed. *)
LEMMA SearchEnds ==
    ASSUME TypeOK, Started, Search, queue = <<>>
    PROVE  \A f \in Fn, n \in Nat :
              f \in Near(n) => f \in Claimed /\ f \in Ball(app, {barrier[f]})[n]
<1>1. \A f : ~ Queued(f)
  <2>1. Len(queue) = 0
    OBVIOUS
  <2> QED
    BY <2>1 DEF Queued
<1>2. \A f \in Claimed : Callees(app, f) \subseteq Claimed
  BY <1>1 DEF Search, Visited
<1>3. Barriers(app) \subseteq Claimed
  <2>1. \A b \in Barriers(app) : barrier[b] = b /\ b \in Fn
    BY BarriersAreFunctions DEF TypeOK, Started, Search, Rooted
  <2> QED
    BY <2>1, FnAssumption DEF Claimed
<1>4. \A n \in Nat : Near(n) \subseteq Claimed
  BY <1>2, <1>3, BallStaysInside DEF Near
<1> QED
  BY <1>4 DEF Search, NearestKept
-----------------------------------------------------------------------------
(* Chains of calls *)

(* The promise of step 1: only the calls cut there are cut.                *)
ChainOfFits(a) == PathIsCalledInOrder(a) /\ MemoryOK(a, Singletons(a))

CutsAsChosen ==
    ChainOfFits(app) =>
        CutPairs(app, groups) \subseteq (CallsKept(app) + 1)..PathCalls(app)

(* A call kept stays within one barrier's group. *)
LEMMA ChainsInherit ==
    ASSUME TypeOK, Started, Search, PathIsCalledInOrder(app),
           NEW i \in 1..PathCalls(app), i <= CallsKept(app),
           barrier[app.critPath[i + 1]] # NoFn
    PROVE  barrier[app.critPath[i + 1]] = barrier[app.critPath[i]]
<1> DEFINE c == app.critPath
<1>1. /\ c \in Seq(Fn) /\ Len(c) \in Nat
      /\ \A j1, j2 \in 1..Len(c) : c[j1] = c[j2] => j1 = j2
  BY LenProperties DEF TypeOK, Application
<1>2. PathCalls(app) = Len(c) - 1
  BY DEF PathCalls
<1>3. CallsKept(app) \in Nat
  BY CallsKeptIsACount DEF TypeOK, Started
<1>4. i + 1 \in 1..Len(c) /\ i + 1 # 1 /\ 1 \in 1..Len(c)
  BY <1>1, <1>2
<1>5. c[i + 1] \in Fn
  BY <1>1, <1>4, ElementOfSeq
<1>6. c[i + 1] # c[1]
  BY <1>1, <1>4
<1>7. ASSUME NEW j \in (CallsKept(app) + 1)..PathCalls(app) PROVE c[i + 1] # c[j + 1]
  <2>1. j + 1 \in 1..Len(c) /\ j + 1 # i + 1
    BY <1>1, <1>2, <1>3
  <2> QED
    BY <1>1, <1>4, <2>1
<1>8. RootFunction(app) = c[1]
  BY DEF PathIsCalledInOrder
<1>9. c[i + 1] \notin Barriers(app)
  BY <1>6, <1>7, <1>8 DEF Barriers
<1>10. PICK f \in Fn : <<f, c[i + 1]>> \in app.edges /\ barrier[f] = barrier[c[i + 1]]
  BY <1>5, <1>9 DEF Search, Inherited, Claimed
<1>11. {g \in Fn : <<g, c[i + 1]>> \in app.edges} = {c[i]}
  BY DEF PathIsCalledInOrder
<1>12. f = c[i]
  BY <1>10, <1>11
<1> QED
  BY <1>10, <1>12

LEMMA BuildGroupsKeepsCuts ==
    ASSUME TypeOK, Started, Search, BuildGroups
    PROVE  CutsAsChosen'
<1>1. app' = app /\ barrier' = barrier
  BY DEF BuildGroups
<1> SUFFICES ASSUME ChainOfFits(app), NEW i \in CutPairs(app, groups')
             PROVE  i \in (CallsKept(app) + 1)..PathCalls(app)
  BY <1>1 DEF CutsAsChosen
<1> DEFINE c == app.critPath
<1>2. /\ i \in 1..PathCalls(app)
      /\ Assigned(groups', c[i]) /\ Assigned(groups', c[i + 1])
      /\ ~ Together(groups', c[i], c[i + 1])
  BY DEF CutPairs, Apart, PathCalls
<1>3. c \in Seq(Fn) /\ Len(c) \in Nat /\ PathCalls(app) = Len(c) - 1
  BY LenProperties DEF TypeOK, Application, PathCalls
<1>4. c[i] \in Fn /\ c[i + 1] \in Fn
  <2>1. i \in 1..Len(c) /\ i + 1 \in 1..Len(c)
    BY <1>2, <1>3
  <2> QED
    BY <1>3, <2>1, ElementOfSeq
<1>5. CallsKept(app) \in Nat
  BY CallsKeptIsACount DEF TypeOK, Started
<1>6. SUFFICES ASSUME i <= CallsKept(app) PROVE FALSE
  BY <1>2, <1>3, <1>5
<1>7. ClaimsKept'
  BY BuildGroupsKeepsClaims
<1>8. barrier[c[i]] # NoFn /\ barrier[c[i + 1]] # NoFn
  BY <1>1, <1>2, <1>4, <1>7 DEF ClaimsKept
<1>9. barrier[c[i + 1]] = barrier[c[i]]
  BY <1>2, <1>6, <1>8, ChainsInherit DEF ChainOfFits
<1>10. app.mem[c[i]] <= app.maxMem /\ app.mem[c[i + 1]] <= app.maxMem
  BY <1>4, SingletonsFit DEF ChainOfFits, TypeOK
<1>11. SlotOf(c[i]) = SlotOf(c[i + 1])
  BY <1>9, <1>10 DEF SlotOf
<1> QED
  BY <1>2, <1>4, <1>8, <1>11, SameSlotTogether

LEMMA MergeKeepsCuts ==
    ASSUME TypeOK, ClaimsKept, CutsAsChosen, MergeStep, app' = app
    PROVE  CutsAsChosen'
<1>1. CutPairs(app, groups') \subseteq CutPairs(app, groups)
  BY MergeHelps
<1> QED
  BY <1>1 DEF CutsAsChosen

(* What is returned meets the latency that step 1 counted on. *)
LEMMA ReturnKeepsThePromise ==
    ASSUME TypeOK, Started, CutsAsChosen, Return, ChainOfFits(app)
    PROVE  result'.metrics.feasible
<1> DEFINE cuts == CutPairs(app, groups)
           kept == CallsKept(app)
           calls == PathCalls(app)
           base == CriticalPathRuntimeMs(app)
<1>1. result'.metrics.feasible <=> MemoryOK(app, groups) /\ LatencyOK(app, groups)
  BY DEF Return, CalculateMetrics
<1>2. MemoryOK(app, groups)
  BY SingletonsFit, FunctionsFitSoGroupsDo DEF TypeOK, ChainOfFits
<1>3. /\ calls \in Nat /\ kept \in 0..calls
      /\ base + app.hop * (calls - kept) <= app.maxLat
  BY CallsKeptIsACount DEF TypeOK, Started
<1>4. cuts \subseteq (kept + 1)..calls
  BY DEF CutsAsChosen
<1>5. /\ IsFiniteSet((kept + 1)..calls)
      /\ Cardinality((kept + 1)..calls) = calls - kept
  <2>1. kept + 1 \in Int /\ calls \in Int
    BY <1>3
  <2>2. /\ IsFiniteSet((kept + 1)..calls)
        /\ Cardinality((kept + 1)..calls)
              = IF kept + 1 > calls THEN 0 ELSE calls - (kept + 1) + 1
    BY <2>1, FS_Interval
  <2> QED
    BY <1>3, <2>2
<1>6. IsFiniteSet(cuts) /\ Cardinality(cuts) <= calls - kept
  <2> HIDE DEF cuts, kept, calls
  <2>1. /\ IsFiniteSet(cuts)
        /\ Cardinality(cuts) <= Cardinality((kept + 1)..calls)
    BY <1>4, <1>5, FS_Subset
  <2> QED
    BY <1>5, <2>1
<1>7. Cardinality(cuts) \in Nat
  BY <1>6, FS_CardinalityType
<1>8. app.hop \in Nat /\ app.maxLat \in Nat /\ base \in Int
  BY PathRuntimeInt DEF TypeOK, Application
<1>9. Latency(app, groups) = base + app.hop * Cardinality(cuts)
  BY DEF Latency
<1> HIDE DEF cuts, kept, calls, base
<1>10. app.hop * Cardinality(cuts) <= app.hop * (calls - kept)
  <2>1. \A h, x, y \in Nat : x <= y => h * x <= h * y
    OBVIOUS
  <2>2. calls - kept \in Nat
    BY <1>3
  <2> QED
    BY <1>6, <1>7, <1>8, <2>1, <2>2
<1>11. Latency(app, groups) <= app.maxLat
  <2> DEFINE x == app.hop * Cardinality(cuts)
             y == app.hop * (calls - kept)
  <2>1. x \in Int /\ y \in Int
    BY <1>3, <1>7, <1>8
  <2> HIDE DEF x, y
  <2>2. x <= y /\ base + y <= app.maxLat /\ Latency(app, groups) = base + x
    BY <1>3, <1>9, <1>10 DEF x, y
  <2> QED
    BY <1>8, <2>1, <2>2
<1> QED
  BY <1>1, <1>2, <1>11 DEF LatencyOK
-----------------------------------------------------------------------------
(* The inductive invariant, phase by phase.                                *)
IInv ==
    /\ TypeOK
    /\ phase \in {"claim", "merge"} => Started
    /\ phase = "claim" => Search
    /\ phase = "merge" => ClaimsKept /\ CutsAsChosen
    /\ ChainsStayWithinTheLimit

LEMMA InitIInv == Init => IInv
<1> SUFFICES ASSUME Init PROVE IInv
  OBVIOUS
<1>1. Application(app)
  BY GreedyAssumption DEF Init
<1>2. groups \in Seq(SUBSET Fn) /\ queue \in Seq(Fn)
  BY DEF Init
<1>3. barrier \in [Fn -> Fn \cup {NoFn}]
  BY DEF Init
<1>4. candidates \subseteq app.edges /\ phase = "start"
  BY DEF Init
<1>5. ChainsStayWithinTheLimit
  BY <1>4 DEF ChainsStayWithinTheLimit, Succeeded
<1> QED
  BY <1>1, <1>2, <1>3, <1>4, <1>5 DEF IInv, TypeOK

LEMMA NextIInv == IInv /\ [Next]_vars => IInv'
<1> SUFFICES ASSUME IInv, [Next]_vars PROVE IInv'
  OBVIOUS
<1>0. TypeOK
  BY DEF IInv
<1>8. ASSUME phase' # "done" PROVE ChainsStayWithinTheLimit'
  BY <1>8 DEF ChainsStayWithinTheLimit, Succeeded
<1>1. CASE NoCriticalPath \/ TooSlowUncut \/ NoRoot
  <2>1. /\ UNCHANGED <<app, barrier, queue, groups, candidates>> /\ phase' = "done"
        /\ result'.error # ""
    <3>1. \E e \in {"critical_path_is_empty", "base_latency_exceeds_max",
                    "topology_has_no_root_function"} : Fail(e)
      BY <1>1 DEF NoCriticalPath, TooSlowUncut, NoRoot
    <3>2. PICK e : e # "" /\ Fail(e)
      BY <3>1
    <3>3. result' = [error |-> e]
      BY <3>2 DEF Fail
    <3>4. /\ UNCHANGED <<app, barrier, queue, groups, candidates>>
          /\ phase' = "done"
      BY <3>2 DEF Fail
    <3>5. result'.error = e
      BY <3>3
    <3> QED
      BY <3>2, <3>4, <3>5
  <2>2. ChainsStayWithinTheLimit'
    BY <2>1 DEF ChainsStayWithinTheLimit, Succeeded
  <2> QED
    BY <1>0, <2>1, <2>2 DEF IInv, TypeOK
<1>2. CASE ChooseBarriers
  <2>1. /\ UNCHANGED <<app, groups, candidates>> /\ phase' = "claim"
        /\ Started'
    BY <1>2 DEF ChooseBarriers, Started
  <2>2. Search'
    BY <1>0, <1>2, SearchBegins
  <2> QED
    BY <1>0, <1>2, <1>8, <2>1, <2>2, ChooseBarriersTypes DEF IInv, TypeOK
<1>3. CASE Visit
  <2>1. UNCHANGED <<app, phase, groups, candidates>> /\ phase = "claim"
    BY <1>3 DEF Visit
  <2>2. Started /\ Search
    BY <2>1 DEF IInv
  <2>3. Search' /\ Started'
    BY <1>0, <1>3, <2>1, <2>2, SearchGoesOn DEF Started
  <2> QED
    BY <1>0, <1>3, <1>8, <2>1, <2>3, VisitTypes DEF IInv, TypeOK
<1>4. CASE BuildGroups
  <2>1. /\ UNCHANGED <<app, barrier, queue>> /\ candidates' = app.edges
        /\ phase = "claim" /\ phase' = "merge"
    BY <1>4 DEF BuildGroups
  <2>2. Started /\ Search
    BY <2>1 DEF IInv
  <2>3. CutsAsChosen'
    BY <1>0, <1>4, <2>2, BuildGroupsKeepsCuts
  <2>4. Started'
    BY <2>1, <2>2 DEF Started
  <2>5. groups' \in Seq(SUBSET Fn) /\ ClaimsKept'
    BY <1>0, <1>4, BuildGroupsKeepsClaims
  <2>6. TypeOK'
    BY <1>0, <2>1, <2>5 DEF TypeOK
  <2> QED
    BY <1>8, <2>1, <2>3, <2>4, <2>5, <2>6 DEF IInv
<1>5. CASE \E c \in candidates : Consider(c)
  <2>1. PICK c \in candidates : Consider(c)
    BY <1>5
  <2>2. /\ UNCHANGED <<app, phase, barrier, queue>>
        /\ phase = "merge"
        /\ candidates' \subseteq candidates
    BY <2>1 DEF Consider
  <2>3. ClaimsKept /\ CutsAsChosen /\ Started
    BY <2>2 DEF IInv
  <2>4. groups' \in Seq(SUBSET Fn) /\ ClaimsKept' /\ CutsAsChosen'
    <3>1. CASE groups' = groups
      BY <1>0, <2>2, <2>3, <3>1 DEF TypeOK, ClaimsKept, GroupsFit, CutsAsChosen
    <3>2. CASE MergeStep
      BY <1>0, <2>2, <2>3, <3>2, MergeKeepsClaims, MergeKeepsCuts
    <3> QED
      BY <1>0, <2>1, <3>1, <3>2, ConsiderStep
  <2>5. Started'
    BY <2>2, <2>3 DEF Started
  <2>6. TypeOK'
    BY <1>0, <2>2, <2>4 DEF TypeOK
  <2> QED
    BY <1>8, <2>2, <2>4, <2>5, <2>6 DEF IInv
<1>6. CASE Return
  <2>1. /\ UNCHANGED <<app, barrier, queue, groups, candidates>>
        /\ phase = "merge" /\ phase' = "done"
    BY <1>6 DEF Return
  <2>2. Started /\ CutsAsChosen
    BY <2>1 DEF IInv
  <2>3. ChainsStayWithinTheLimit'
    BY <1>0, <1>6, <2>1, <2>2, ReturnKeepsThePromise
       DEF ChainsStayWithinTheLimit, ChainOfFits
  <2>4. TypeOK'
    BY <1>0, <2>1 DEF TypeOK
  <2> QED
    BY <2>1, <2>3, <2>4 DEF IInv
<1>7. CASE UNCHANGED vars
  <2>1. TypeOK' /\ ChainsStayWithinTheLimit' /\ (Started => Started')
    BY <1>0, <1>7 DEF IInv, TypeOK, vars, ChainsStayWithinTheLimit, Succeeded, Started
  <2>2. ClaimsKept /\ CutsAsChosen => ClaimsKept' /\ CutsAsChosen'
    BY <1>7 DEF ClaimsKept, GroupsFit, CutsAsChosen, vars
  <2>3. Search => Search'
    BY <1>7 DEF vars, Search, Rooted, Inherited, NearestKept, Visited, QueueClaimed,
           Levelled, Level, Near, Queued, Claimed
  <2> QED
    BY <1>7, <2>1, <2>2, <2>3 DEF IInv, vars
<1> QED
  BY <1>1, <1>2, <1>3, <1>4, <1>5, <1>6, <1>7 DEF Next, Terminating

-----------------------------------------------------------------------------
(* NearestBarrier: when the search is over, every function that a barrier  *)
(* reaches belongs to one as near as any (greedytp.go:19), whatever the    *)
(* order in which the map gave the barriers out and however the calls run. *)
THEOREM NearestBarrierClaims == Spec => []NearestBarrier
<1>1. IInv => NearestBarrier
  <2> SUFFICES ASSUME IInv, phase = "claim", queue = <<>>,
                      NEW f \in Fn, NEW n \in 0..Cardinality(Fn),
                      f \in Ball(app, Barriers(app))[n]
               PROVE  barrier[f] # NoFn /\ f \in Ball(app, {barrier[f]})[n]
    BY DEF NearestBarrier
  <2>1. TypeOK /\ Started /\ Search
    BY DEF IInv
  <2>2. n \in Nat
    BY FnAssumption, FS_CardinalityType
  <2>3. f \in Claimed /\ f \in Ball(app, {barrier[f]})[n]
    BY <2>1, <2>2, SearchEnds DEF Near
  <2> QED
    BY <2>3 DEF Claimed
<1> QED
  BY <1>1, InitIInv, NextIInv, PTL DEF Spec

(* ClaimedOnce: ejecting what does not fit (greedytp.go:174-198) and       *)
(* merging lose no claimed function and put none in two groups, whatever   *)
(* the orders of the maps, and no group of several functions has one above *)
(* the memory limit.                                                       *)
THEOREM ClaimsAreKept == Spec => []ClaimedOnce
<1>1. IInv => ClaimedOnce
  BY DEF IInv, ClaimsKept, GroupsFit, ClaimedOnce
<1> QED
  BY <1>1, InitIInv, NextIInv, PTL DEF Spec

(* ChainsStayWithinTheLimit: where the critical path is a chain of calls   *)
(* and every function fits, the cuts counted in step 1 (greedytp.go:74)    *)
(* are the only ones, so the partition returned is feasible.               *)
THEOREM ChainsAreFeasible == Spec => []ChainsStayWithinTheLimit
<1>1. IInv => ChainsStayWithinTheLimit
  BY DEF IInv
<1> QED
  BY <1>1, InitIInv, NextIInv, PTL DEF Spec

(* MergesHelp: a merge adds no hop to the critical path                    *)
(* (greedytp.go:215) and lowers the total, also when the search left       *)
(* functions out.                                                          *)
THEOREM EveryMergeHelps == Spec => MergesHelp
<1>1. IInv /\ [Next]_vars =>
         [phase = "merge" /\ groups' # groups =>
            /\ CutPairs(app, groups') \subseteq CutPairs(app, groups)
            /\ TotalCost(app, groups') < TotalCost(app, groups)]_vars
  <2> SUFFICES ASSUME IInv, [Next]_vars, phase = "merge", groups' # groups
               PROVE  /\ CutPairs(app, groups') \subseteq CutPairs(app, groups)
                      /\ TotalCost(app, groups') < TotalCost(app, groups)
    OBVIOUS
  <2>1. PICK c \in candidates : Consider(c)
    BY DEF Next, NoCriticalPath, TooSlowUncut, NoRoot, Fail, ChooseBarriers,
           Visit, BuildGroups, Return, Terminating, vars
  <2>2. TypeOK /\ ClaimsKept
    BY DEF IInv
  <2> QED
    BY <2>1, <2>2, ConsiderStep, MergeHelps
<1> QED
  BY <1>1, InitIInv, NextIInv, PTL DEF Spec, MergesHelp
=============================================================================
