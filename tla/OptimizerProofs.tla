--------------------------- MODULE OptimizerProofs ---------------------------
(***************************************************************************)
(* The exact solver and the plan.                                          *)
(*                                                                         *)
(* The linear program for every application: its objective is the bill of  *)
(* CalculateMetrics up to what no partition changes, its constraint is the *)
(* latency budget or weaker, and every partition is one of its solutions.  *)
(*                                                                         *)
(* The plan for any number of algorithms and whatever they return: the     *)
(* marks leave a frontier that covers the rest, the recommendation is on   *)
(* offer, and an unambiguous plan hides no trade.                          *)
(***************************************************************************)
EXTENDS MtxILP, OptimizePlan, FusionCostProofs

-----------------------------------------------------------------------------
(* More laws of sums. *)

(* What weighs nothing may be left out. *)
LEMMA SumOfSupport ==
    ASSUME NEW w, NEW S, IsFiniteSet(S), NEW T \in SUBSET S,
           \A x \in S : w[x] \in Int, \A x \in S \ T : w[x] = 0
    PROVE  SumFunctionOnSet(w, S) = SumFunctionOnSet(w, T)
<1>1. IsFiniteSet(T) /\ IsFiniteSet(S \ T) /\ T \cap (S \ T) = {}
  BY FS_Subset
<1>2. T \cup (S \ T) = S
  OBVIOUS
<1>3. SumFunctionOnSet(w, S)
         = SumFunctionOnSet(w, T) + SumFunctionOnSet(w, S \ T)
  <2>1. SumFunctionOnSet(w, T \cup (S \ T))
           = SumFunctionOnSet(w, T) + SumFunctionOnSet(w, S \ T)
    BY <1>1, SumUnion
  <2> QED
    BY <1>2, <2>1
<1>4. SumFunctionOnSet(w, S \ T) = 0
  BY <1>1, SumOfZeros
<1>5. SumFunctionOnSet(w, T) \in Int
  BY <1>1, SumInt
<1> QED
  BY <1>3, <1>4, <1>5

Fiber(S, k, t) == {x \in S : k[x] = t}

(* A sum may be taken class by class: v[t] is what the members of S weigh  *)
(* that k sends to t.                                                      *)
LEMMA SumFiberwise ==
    ASSUME NEW w, NEW S, NEW k, NEW v, NEW T, IsFiniteSet(S), IsFiniteSet(T),
           \A x \in S : w[x] \in Int /\ k[x] \in T,
           \A t \in T : v[t] = SumFunctionOnSet(w, Fiber(S, k, t))
    PROVE  SumFunctionOnSet(v, T) = SumFunctionOnSet(w, S)
<1> DEFINE Of(V) == {x \in S : k[x] \in V}
           Bad == {V \in SUBSET T : SumFunctionOnSet(v, V)
                                       # SumFunctionOnSet(w, Of(V))}
<1>1. SUFFICES ASSUME Bad # {} PROVE FALSE
  <2>1. Of(T) = S
    OBVIOUS
  <2>2. Bad = {} => SumFunctionOnSet(v, T) = SumFunctionOnSet(w, Of(T))
    OBVIOUS
  <2> QED
    BY <2>1, <2>2
<1>2. PICK M \in Bad : \A V \in SUBSET M : V \in Bad => V = M
  <2>1. Bad \in SUBSET (SUBSET T)
    OBVIOUS
  <2> HIDE DEF Bad
  <2> QED
    BY <1>1, <2>1, SmallestMember
<1>3. M # {}
  <2>1. Of({}) = {}
    OBVIOUS
  <2>2. SumFunctionOnSet(v, {}) = SumFunctionOnSet(w, Of({}))
    BY <2>1, SumOfEmpty
  <2> QED
    BY <2>2
<1>4. PICK t \in M : TRUE
  BY <1>3
<1> DEFINE R == M \ {t}
           X == Fiber(S, k, t)
<1>5. R \in SUBSET T /\ R \in SUBSET M /\ R # M /\ t \in T
  OBVIOUS
<1>6. IsFiniteSet(M) /\ IsFiniteSet(R) /\ IsFiniteSet(X) /\ IsFiniteSet(Of(R))
  BY <1>5, FS_Subset DEF Fiber
<1>7. Of(M) = X \cup Of(R) /\ X \cap Of(R) = {}
  BY DEF Fiber
<1>8. \A s \in M : v[s] \in Int
  <2>1. \A s \in T : SumFunctionOnSet(w, Fiber(S, k, s)) \in Int
    <3>1. ASSUME NEW s \in T
          PROVE  SumFunctionOnSet(w, Fiber(S, k, s)) \in Int
      <4>1. IsFiniteSet(Fiber(S, k, s))
        BY FS_Subset DEF Fiber
      <4>2. \A x \in Fiber(S, k, s) : w[x] \in Int
        BY DEF Fiber
      <4> QED
        BY <4>1, <4>2, SumInt
    <3> QED
      BY <3>1
  <2> QED
    BY <2>1
<1>10. SumFunctionOnSet(v, M) = v[t] + SumFunctionOnSet(v, R)
  BY <1>6, <1>8, SumRemove
<1>11. SumFunctionOnSet(w, Of(M))
          = SumFunctionOnSet(w, X) + SumFunctionOnSet(w, Of(R))
  <2>1. \A x \in X \cup Of(R) : w[x] \in Int
    BY DEF Fiber
  <2>2. SumFunctionOnSet(w, X \cup Of(R))
           = SumFunctionOnSet(w, X) + SumFunctionOnSet(w, Of(R))
    <3> HIDE DEF X, Of, R
    <3> QED
      BY <1>6, <1>7, <2>1, SumUnion
  <2> QED
    BY <1>7, <2>2
<1>12. SumFunctionOnSet(v, R) = SumFunctionOnSet(w, Of(R))
  BY <1>2, <1>5
<1>13. v[t] = SumFunctionOnSet(w, X)
  BY <1>5
<1>14. SumFunctionOnSet(v, M) # SumFunctionOnSet(w, Of(M))
  BY <1>2
<1> QED
  BY <1>10, <1>11, <1>12, <1>13, <1>14

(* Counting is adding up ones. *)
LEMMA SumOfOnes ==
    ASSUME NEW w, NEW S, IsFiniteSet(S), NEW T \in SUBSET S,
           \A x \in S : w[x] = IF x \in T THEN 1 ELSE 0
    PROVE  /\ SumFunctionOnSet(w, S) = Cardinality(T)
           /\ Cardinality(T) \in Nat
<1>1. IsFiniteSet(T)
  BY FS_Subset
<1>2. Cardinality(T) \in Nat
  BY <1>1, FS_CardinalityType
<1>3. SumFunctionOnSet(w, S) = SumFunctionOnSet(w, T)
  BY SumOfSupport
<1> DEFINE Bad == {V \in SUBSET T : SumFunctionOnSet(w, V) # Cardinality(V)}
<1>4. SUFFICES ASSUME Bad # {} PROVE FALSE
  BY <1>2, <1>3
<1>5. PICK M \in Bad : \A V \in SUBSET M : V \in Bad => V = M
  <2>1. Bad \in SUBSET (SUBSET T)
    OBVIOUS
  <2> HIDE DEF Bad
  <2> QED
    BY <1>1, <1>4, <2>1, SmallestMember
<1>6. M # {}
  BY SumOfEmpty, FS_EmptySet
<1>7. PICK t \in M : TRUE
  BY <1>6
<1>8. M \ {t} \in SUBSET M /\ M \ {t} # M /\ M \ {t} \in SUBSET T
  OBVIOUS
<1>9. IsFiniteSet(M) /\ IsFiniteSet(M \ {t})
  BY <1>1, <1>8, FS_Subset
<1>10. Cardinality(M \ {t}) = Cardinality(M) - 1 /\ Cardinality(M) \in Nat
  BY <1>9, FS_RemoveElement, FS_CardinalityType
<1>11. SumFunctionOnSet(w, M) = w[t] + SumFunctionOnSet(w, M \ {t})
  <2>1. \A x \in M : w[x] \in Int
    OBVIOUS
  <2> QED
    BY <1>9, <2>1, SumRemove
<1>12. w[t] = 1
  OBVIOUS
<1>13. SumFunctionOnSet(w, M \ {t}) = Cardinality(M \ {t})
  BY <1>5, <1>8
<1>14. SumFunctionOnSet(w, M) # Cardinality(M)
  BY <1>5
<1> QED
  BY <1>10, <1>11, <1>12, <1>13, <1>14

-----------------------------------------------------------------------------
(* The bill of a partition, function by function. *)

GroupOf(P, f) == P[GroupIndex(P, f)]

LEMMA GroupsByIndex ==
    ASSUME NEW P \in Seq(SUBSET Fn), IsPartition(P)
    PROVE  /\ \A f \in Fn : /\ GroupIndex(P, f) \in 1..Len(P)
                            /\ f \in GroupOf(P, f)
                            /\ GroupOf(P, f) \in SUBSET Fn
           /\ \A f \in Fn : \A i \in 1..Len(P) : f \in P[i] <=> GroupIndex(P, f) = i
           /\ \A f, g \in Fn :
                 /\ Apart(P, f, g) <=> GroupIndex(P, f) # GroupIndex(P, g)
                 /\ g \in GroupOf(P, f) <=> GroupIndex(P, g) = GroupIndex(P, f)
<1>1. \A f \in Fn : GroupIndex(P, f) \in 1..Len(P) /\ f \in GroupOf(P, f)
  BY DEF IsPartition, GroupIndex, Assigned, GroupOf
<1>2. \A i \in 1..Len(P) : P[i] \in SUBSET Fn
  BY ElementOfSeq
<1>3. \A f \in Fn : \A i \in 1..Len(P) : f \in P[i] <=> GroupIndex(P, f) = i
  BY <1>1 DEF IsPartition, PairwiseDisjoint, GroupOf
<1>4. ASSUME NEW f \in Fn, NEW g \in Fn
      PROVE  /\ Apart(P, f, g) <=> GroupIndex(P, f) # GroupIndex(P, g)
             /\ g \in GroupOf(P, f) <=> GroupIndex(P, g) = GroupIndex(P, f)
  BY <1>1, <1>3 DEF Apart, Together, Assigned, GroupOf
<1> QED
  BY <1>1, <1>2, <1>3, <1>4 DEF GroupOf

(* What running a function, and its invocations by the platform, cost in   *)
(* the group it is in.                                                     *)
Running(a, P) ==
    [f \in Fn |-> ExecutionPrice * GroupMemory(a, GroupOf(P, f)) * RuntimeMs(a, f)]

Requested(a, P) ==
    [f \in Fn |-> IF a.parent[f] \notin GroupOf(P, f)
                  THEN RequestPrice * Rate(a, f) ELSE 0]

LEMMA SharesInt ==
    ASSUME NEW a, Application(a), NEW P \in Seq(SUBSET Fn), IsPartition(P)
    PROVE  \A f \in Fn : Running(a, P)[f] \in Int /\ Requested(a, P)[f] \in Int
<1> SUFFICES ASSUME NEW f \in Fn
             PROVE  Running(a, P)[f] \in Int /\ Requested(a, P)[f] \in Int
  OBVIOUS
<1>1. RuntimeMs(a, f) \in Nat /\ Rate(a, f) \in Nat
  BY ChargeTypes
<1>2. GroupMemory(a, GroupOf(P, f)) \in Nat
  BY GroupsByIndex, GroupMemoryIsMax
<1>3. \A p, q, r \in Nat : p * q * r \in Int /\ p * q \in Int
  OBVIOUS
<1> QED
  BY <1>1, <1>2, <1>3, PriceAssumption DEF Running, Requested

(* A group is charged what its members' shares add up to. *)
LEMMA GroupCostOfMembers ==
    ASSUME NEW a, Application(a), NEW G \in SUBSET Fn, NEW u, NEW v,
           \A f \in G : /\ u[f] = ExecutionPrice * GroupMemory(a, G) * RuntimeMs(a, f)
                        /\ v[f] = IF a.parent[f] \notin G
                                  THEN RequestPrice * Rate(a, f) ELSE 0
    PROVE  GroupCost(a, G) = SumFunctionOnSet(u, G) + SumFunctionOnSet(v, G)
<1> DEFINE run == [f \in Fn |-> RuntimeMs(a, f)]
           rates == [f \in Fn |-> Rate(a, f)]
           price == ExecutionPrice * GroupMemory(a, G)
<1>1. IsFiniteSet(G) /\ IsFiniteSet(Entries(a, G)) /\ Entries(a, G) \in SUBSET G
  BY FnAssumption, FS_Subset DEF Entries
<1>2. \A f \in G : RuntimeMs(a, f) \in Nat /\ Rate(a, f) \in Nat
  BY ChargeTypes
<1>3. price \in Int
  <2>1. GroupMemory(a, G) \in Nat
    BY GroupMemoryIsMax
  <2>2. \A p, q \in Nat : p * q \in Int
    OBVIOUS
  <2> QED
    BY <2>1, <2>2, PriceAssumption
<1>4. SumFunctionOnSet(u, G) = GroupExecutionCost(a, G)
  <2>1. \A f \in G : run[f] \in Int /\ u[f] = price * run[f]
    BY <1>2
  <2>2. GroupExecutionCost(a, G) = price * SumFunctionOnSet(run, G)
    BY DEF GroupExecutionCost, GroupRuntimeMs
  <2> HIDE DEF run, price
  <2> QED
    BY <1>1, <1>3, <2>1, <2>2, SumScaled
<1>5. SumFunctionOnSet(v, G) = RequestCost(a, G)
  <2>1. \A p, q \in Nat : p * q \in Int
    OBVIOUS
  <2>2. \A f \in G : v[f] \in Int
    BY <1>2, <2>1, PriceAssumption
  <2>3. \A f \in G \ Entries(a, G) : v[f] = 0
    BY DEF Entries
  <2>4. SumFunctionOnSet(v, G) = SumFunctionOnSet(v, Entries(a, G))
    BY <1>1, <2>2, <2>3, SumOfSupport
  <2>5. \A f \in Entries(a, G) : rates[f] \in Int /\ v[f] = RequestPrice * rates[f]
    BY <1>2 DEF Entries
  <2>6. RequestCost(a, G) = RequestPrice * SumFunctionOnSet(rates, Entries(a, G))
    BY DEF RequestCost, BlockInvocationRate
  <2>7. RequestPrice \in Int
    BY PriceAssumption
  <2> HIDE DEF rates
  <2>8. SumFunctionOnSet(v, Entries(a, G))
           = RequestPrice * SumFunctionOnSet(rates, Entries(a, G))
    BY <1>1, <2>5, <2>7, SumScaled
  <2> QED
    BY <2>4, <2>6, <2>8
<1> QED
  BY <1>4, <1>5 DEF GroupCost

LEMMA TotalCostByFunction ==
    ASSUME NEW a, Application(a), NEW P \in Seq(SUBSET Fn), IsPartition(P)
    PROVE  TotalCost(a, P) = SumFunctionOnSet(Running(a, P), Fn)
                             + SumFunctionOnSet(Requested(a, P), Fn)
                             + SumFunctionOnSet(Transfers(a), CutEdges(a, P))
<1> DEFINE N == 1..Len(P)
           Kth == [f \in Fn |-> GroupIndex(P, f)]
           Both == [f \in Fn |-> Running(a, P)[f] + Requested(a, P)[f]]
           V == [i \in N |-> GroupCost(a, P[i])]
<1>1. IsFiniteSet(N) /\ IsFiniteSet(Fn)
  BY FnAssumption, LenProperties, FS_Interval
<1>2. \A f \in Fn : /\ Running(a, P)[f] \in Int /\ Requested(a, P)[f] \in Int
                    /\ Both[f] = Running(a, P)[f] + Requested(a, P)[f]
                    /\ Both[f] \in Int
  BY SharesInt
<1>3. \A i \in N : P[i] \in SUBSET Fn /\ P[i] = Fiber(Fn, Kth, i)
  <2> SUFFICES ASSUME NEW i \in N
               PROVE  P[i] \in SUBSET Fn /\ P[i] = Fiber(Fn, Kth, i)
    OBVIOUS
  <2>1. P[i] \in SUBSET Fn
    BY ElementOfSeq
  <2>2. \A f \in Fn : f \in P[i] <=> Kth[f] = i
    BY GroupsByIndex
  <2> QED
    BY <2>1, <2>2 DEF Fiber
<1>4. ASSUME NEW i \in N
      PROVE  V[i] = SumFunctionOnSet(Both, Fiber(Fn, Kth, i))
  <2>1. \A f \in P[i] : GroupOf(P, f) = P[i] /\ f \in Fn
    <3>1. \A f \in P[i] : f \in Fn /\ GroupIndex(P, f) = i
      BY <1>3, GroupsByIndex
    <3> QED
      BY <3>1 DEF GroupOf
  <2>2. GroupCost(a, P[i]) = SumFunctionOnSet(Running(a, P), P[i])
                             + SumFunctionOnSet(Requested(a, P), P[i])
    <3>1. \A f \in P[i] :
             /\ Running(a, P)[f]
                   = ExecutionPrice * GroupMemory(a, P[i]) * RuntimeMs(a, f)
             /\ Requested(a, P)[f] = IF a.parent[f] \notin P[i]
                                     THEN RequestPrice * Rate(a, f) ELSE 0
      BY <2>1 DEF Running, Requested
    <3> QED
      BY <1>3, <3>1, GroupCostOfMembers
  <2>3. IsFiniteSet(P[i])
    BY <1>1, <1>3, FS_Subset
  <2>4. SumFunctionOnSet(Both, P[i]) = SumFunctionOnSet(Running(a, P), P[i])
                                       + SumFunctionOnSet(Requested(a, P), P[i])
    <3>1. \A f \in P[i] : /\ Running(a, P)[f] \in Int /\ Requested(a, P)[f] \in Int
                          /\ Both[f] = Running(a, P)[f] + Requested(a, P)[f]
      BY <1>2, <2>1
    <3> HIDE DEF Both
    <3> QED
      BY <2>3, <3>1, SumPointwise
  <2>5. V[i] = GroupCost(a, P[i])
    OBVIOUS
  <2> HIDE DEF V, Both, Kth
  <2> QED
    BY <1>3, <2>2, <2>4, <2>5
<1>5. SumFunctionOnSet(V, N) = SumFunctionOnSet(Both, Fn)
  <2>1. \A f \in Fn : Both[f] \in Int /\ Kth[f] \in N
    BY <1>2, GroupsByIndex
  <2>2. \A i \in N : V[i] = SumFunctionOnSet(Both, Fiber(Fn, Kth, i))
    BY <1>4
  <2> HIDE DEF V, Both, Kth, N
  <2> QED
    BY <1>1, <2>1, <2>2, SumFiberwise
<1>6. SumFunctionOnSet(Both, Fn) = SumFunctionOnSet(Running(a, P), Fn)
                                   + SumFunctionOnSet(Requested(a, P), Fn)
  <2> HIDE DEF Both
  <2> QED
    BY <1>1, <1>2, SumPointwise
<1>7. TotalCost(a, P) = SumFunctionOnSet(V, N)
                        + SumFunctionOnSet(Transfers(a), CutEdges(a, P))
  BY DEF TotalCost, SumFunction, Transfers
<1> QED
  BY <1>5, <1>6, <1>7

-----------------------------------------------------------------------------
(* The solutions of the program. *)

(* The group f is put in, by its root. *)
RootOf(x, f) == CHOOSE b \in Fn : x[b][f] = 1

(* x and P keep the same functions together. *)
Matches(x, P) ==
    \A f, g \in Fn :
        RootOf(x, f) = RootOf(x, g) <=> GroupIndex(P, f) = GroupIndex(P, g)

LEMMA OneRootEach ==
    ASSUME NEW x \in Assignments, NEW f \in Fn
    PROVE  /\ RootOf(x, f) \in Fn
           /\ \A b \in Fn : x[b][f] = IF b = RootOf(x, f) THEN 1 ELSE 0
           /\ RootOf(x, RootOf(x, f)) = RootOf(x, f)
<1>1. /\ \A g \in Fn : \E b \in Fn : {r \in Fn : x[r][g] = 1} = {b}
      /\ \A b, g \in Fn : x[b][g] \in 0..1 /\ x[b][g] <= x[b][b]
  BY DEF Assignments
<1>2. ASSUME NEW g \in Fn
      PROVE  /\ RootOf(x, g) \in Fn
             /\ \A b \in Fn : x[b][g] = IF b = RootOf(x, g) THEN 1 ELSE 0
  <2>1. PICK r \in Fn : {b \in Fn : x[b][g] = 1} = {r}
    BY <1>1
  <2>2. RootOf(x, g) = r
    BY <2>1 DEF RootOf
  <2> QED
    BY <1>1, <2>1, <2>2
<1> DEFINE r == RootOf(x, f)
<1>3. r \in Fn /\ x[r][f] = 1
  BY <1>2
<1>4. x[r][r] = 1
  BY <1>1, <1>3
<1> HIDE DEF r
<1>5. RootOf(x, r) = r
  BY <1>2, <1>3, <1>4
<1> QED
  BY <1>2, <1>5 DEF r

LEMMA MaxIs ==
    ASSUME NEW S, IsFiniteSet(S), \A z \in S : z \in Int, NEW v \in S,
           \A z \in S : z <= v
    PROVE  Max(S) = v
<1>1. Max(S) \in S /\ Max(S) >= v
  BY MaxExists
<1> QED
  BY <1>1

(* c_e is 1 exactly for the edges between groups. *)
LEMMA CutVariable ==
    ASSUME NEW x \in Assignments, NEW e \in Fn \X Fn
    PROVE  c(x, e) = IF RootOf(x, e[1]) = RootOf(x, e[2]) THEN 0 ELSE 1
<1> DEFINE r == RootOf(x, e[1])
           s == RootOf(x, e[2])
           D == {x[b][e[1]] - x[b][e[2]] : b \in Fn}
           E == {x[b][e[2]] - x[b][e[1]] : b \in Fn}
           S == {0} \cup D \cup E
<1>1. e[1] \in Fn /\ e[2] \in Fn
  OBVIOUS
<1>2. /\ r \in Fn /\ s \in Fn
      /\ \A b \in Fn : /\ x[b][e[1]] = IF b = r THEN 1 ELSE 0
                       /\ x[b][e[2]] = IF b = s THEN 1 ELSE 0
  BY <1>1, OneRootEach
<1> HIDE DEF r, s
<1>3. \A z \in S : z \in {-1, 0, 1}
  BY <1>2
<1>4. IsFiniteSet(S)
  <2>1. IsFiniteSet((-1)..1)
    <3>1. -1 \in Int /\ 1 \in Int
      OBVIOUS
    <3> QED
      BY <3>1, FS_Interval
  <2>2. \A z \in S : z \in (-1)..1
    BY <1>3
  <2>3. S \subseteq (-1)..1
    BY <2>2
  <2> HIDE DEF S
  <2> QED
    BY <2>1, <2>3, FS_Subset
<1>5. CASE r = s
  <2>1. \A z \in S : z = 0
    BY <1>2, <1>5
  <2>2. 0 \in S
    OBVIOUS
  <2> HIDE DEF S
  <2>3. Max(S) = 0
    BY <1>4, <2>1, <2>2, MaxIs
  <2> QED
    BY <1>5, <2>3 DEF c, S, r, s
<1>6. CASE r # s
  <2>1. x[r][e[1]] - x[r][e[2]] = 1
    BY <1>2, <1>6
  <2>2. 1 \in S
    BY <1>2, <2>1
  <2>3. \A z \in S : z \in Int /\ z <= 1
    BY <1>3
  <2> HIDE DEF S
  <2>4. Max(S) = 1
    BY <1>4, <2>2, <2>3, MaxIs
  <2> QED
    BY <1>6, <2>4 DEF c, S, r, s
<1> QED
  BY <1>5, <1>6

(* m_b is the memory of the group under b, and y_b_f that of f's group for *)
(* the members, nothing for the others.                                    *)
LEMMA MemoryVariables ==
    ASSUME Application(app), NEW x \in Assignments, NEW b \in Fn
    PROVE  /\ m(x, b) = GroupMemory(app, {f \in Fn : x[b][f] = 1})
           /\ \A f \in Fn : y(x, b, f) = IF x[b][f] = 1 THEN m(x, b) ELSE 0
<1> DEFINE G == {f \in Fn : x[b][f] = 1}
<1>1. \A f \in Fn : x[b][f] \in {0, 1} /\ app.mem[f] \in Nat
  <2>1. \A f \in Fn : x[b][f] = IF b = RootOf(x, f) THEN 1 ELSE 0
    BY OneRootEach
  <2>2. app.mem \in [Fn -> Nat]
    BY DEF Application
  <2> QED
    BY <2>1, <2>2
<1>2. {0} \cup {app.mem[f] * x[b][f] : f \in Fn} = {0} \cup {app.mem[f] : f \in G}
  <2>1. ASSUME NEW f \in Fn
        PROVE  \/ x[b][f] = 1 /\ app.mem[f] * x[b][f] = app.mem[f]
               \/ x[b][f] # 1 /\ app.mem[f] * x[b][f] = 0
    BY <1>1
  <2> QED
    BY <2>1
<1>3. m(x, b) = GroupMemory(app, G)
  BY <1>2 DEF m, GroupMemory
<1>4. BigM = GroupMemory(app, Fn)
  BY DEF BigM, GroupMemory
<1>5. m(x, b) \in Nat /\ BigM \in Nat /\ m(x, b) <= BigM
  <2>1. /\ GroupMemory(app, G) \in Nat
        /\ GroupMemory(app, G) = 0 \/ \E f \in G : GroupMemory(app, G) = app.mem[f]
    BY GroupMemoryIsMax
  <2>2. /\ GroupMemory(app, Fn) \in Nat
        /\ \A f \in Fn : app.mem[f] <= GroupMemory(app, Fn)
    BY GroupMemoryIsMax
  <2> QED
    BY <1>3, <1>4, <2>1, <2>2
<1>6. ASSUME NEW f \in Fn
      PROVE  y(x, b, f) = IF x[b][f] = 1 THEN m(x, b) ELSE 0
  <2> DEFINE z == m(x, b) - BigM * (1 - x[b][f])
  <2>1. z \in Int /\ (x[b][f] = 1 => z = m(x, b)) /\ (x[b][f] # 1 => z <= 0)
    BY <1>1, <1>5
  <2>2. IsFiniteSet({0, z})
    <3>1. IsFiniteSet({0}) /\ IsFiniteSet({z}) /\ {0, z} = {0} \cup {z}
      BY FS_Singleton
    <3> HIDE DEF z
    <3> QED
      BY <3>1, FS_Union
  <2>3. y(x, b, f) = Max({0, z})
    BY DEF y
  <2> HIDE DEF z
  <2>4. Max({0, z}) = IF x[b][f] = 1 THEN m(x, b) ELSE 0
    <3>1. CASE x[b][f] = 1
      <4>1. z \in {0, z} /\ \A k \in {0, z} : k \in Int /\ k <= z
        BY <1>5, <2>1, <3>1
      <4> QED
        BY <2>1, <2>2, <3>1, <4>1, MaxIs
    <3>2. CASE x[b][f] # 1
      <4>1. 0 \in {0, z} /\ \A k \in {0, z} : k \in Int /\ k <= 0
        BY <2>1, <3>2
      <4> QED
        BY <2>2, <3>2, <4>1, MaxIs
    <3> QED
      BY <3>1, <3>2
  <2> QED
    BY <2>3, <2>4
<1> QED
  BY <1>3, <1>6

(* The execution part of the objective. *)
LEMMA RunningIsLinear ==
    ASSUME Application(app), NEW x \in Assignments,
           NEW P \in Seq(SUBSET Fn), IsPartition(P), Matches(x, P)
    PROVE  SumFunctionOnSet([p \in Fn \X Fn |->
               ExecutionPrice * RuntimeMs(app, p[2]) * y(x, p[1], p[2])], Fn \X Fn)
           = SumFunctionOnSet(Running(app, P), Fn)
<1> DEFINE w == Running(app, P)
           v == [p \in Fn \X Fn |->
                   ExecutionPrice * RuntimeMs(app, p[2]) * y(x, p[1], p[2])]
           k == [p \in Fn \X Fn |-> p[2]]
           T == {p \in Fn \X Fn : x[p[1]][p[2]] = 1}
           pair == [f \in Fn |-> <<RootOf(x, f), f>>]
<1>1. IsFiniteSet(Fn) /\ IsFiniteSet(Fn \X Fn)
  BY FnAssumption, FS_Product
<1>2. ASSUME NEW f \in Fn
      PROVE  /\ pair[f] \in T /\ v[pair[f]] = w[f] /\ w[f] \in Int
  <2>1. RootOf(x, f) \in Fn /\ x[RootOf(x, f)][f] = 1
    BY OneRootEach
  <2>2. {g \in Fn : x[RootOf(x, f)][g] = 1} = GroupOf(P, f)
    <3>1. \A g \in Fn : x[RootOf(x, f)][g] = 1 <=> RootOf(x, g) = RootOf(x, f)
      BY <2>1, OneRootEach
    <3>2. \A g \in Fn : g \in GroupOf(P, f) <=> RootOf(x, g) = RootOf(x, f)
      BY GroupsByIndex DEF Matches
    <3>3. GroupOf(P, f) \in SUBSET Fn
      BY GroupsByIndex
    <3> QED
      BY <3>1, <3>2, <3>3
  <2>3. y(x, RootOf(x, f), f) = GroupMemory(app, GroupOf(P, f))
    BY <2>1, <2>2, MemoryVariables
  <2>4. RuntimeMs(app, f) \in Nat /\ GroupMemory(app, GroupOf(P, f)) \in Nat
    BY ChargeTypes, GroupsByIndex, GroupMemoryIsMax
  <2>5. \A p, q, r \in Nat : p * q * r = p * r * q
    OBVIOUS
  <2>6. pair[f] \in Fn \X Fn /\ pair[f][1] = RootOf(x, f) /\ pair[f][2] = f
    BY <2>1
  <2>7. w[f] \in Int
    BY SharesInt
  <2>8. v[pair[f]] = ExecutionPrice * RuntimeMs(app, f) * y(x, RootOf(x, f), f)
    BY <2>6
  <2>9. w[f] = ExecutionPrice * GroupMemory(app, GroupOf(P, f)) * RuntimeMs(app, f)
    BY DEF Running
  <2>10. v[pair[f]] = w[f]
    BY <2>3, <2>4, <2>5, <2>8, <2>9, PriceAssumption
  <2> QED
    BY <2>1, <2>6, <2>7, <2>10
<1>3. ASSUME NEW p \in T
      PROVE  p[2] \in Fn /\ p = pair[p[2]]
  <2>1. p[1] \in Fn /\ p[2] \in Fn /\ p = <<p[1], p[2]>>
    OBVIOUS
  <2>2. p[1] = RootOf(x, p[2])
    BY <2>1, OneRootEach
  <2> QED
    BY <2>1, <2>2
<1>4. ASSUME NEW p \in (Fn \X Fn) \ T
      PROVE  v[p] = 0
  <2>1. p[1] \in Fn /\ p[2] \in Fn /\ x[p[1]][p[2]] # 1
    OBVIOUS
  <2>2. y(x, p[1], p[2]) = 0
    BY <2>1, MemoryVariables
  <2>3. RuntimeMs(app, p[2]) \in Nat
    BY <2>1, ChargeTypes
  <2>4. v[p] = ExecutionPrice * RuntimeMs(app, p[2]) * y(x, p[1], p[2])
    OBVIOUS
  <2>5. ExecutionPrice * RuntimeMs(app, p[2]) \in Nat
    BY <2>3, PriceAssumption
  <2> QED
    BY <2>2, <2>4, <2>5
<1>5. \A p \in T : v[p] \in Int
  <2>1. ASSUME NEW p \in T
        PROVE  v[p] \in Int
    <3>1. p[2] \in Fn /\ p = pair[p[2]]
      BY <1>3
    <3>2. v[pair[p[2]]] \in Int
      BY <1>2, <3>1
    <3> HIDE DEF v, pair
    <3> QED
      BY <3>1, <3>2
  <2> QED
    BY <2>1
<1>6. \A p \in Fn \X Fn : v[p] \in Int
  BY <1>4, <1>5
<1>7. T \in SUBSET (Fn \X Fn)
  OBVIOUS
<1>8. \A f, g \in Fn : pair[f] = pair[g] => f = g
  OBVIOUS
<1> HIDE DEF v, w, T, pair
<1>9. SumFunctionOnSet(v, Fn \X Fn) = SumFunctionOnSet(v, T)
  <2>1. \A p \in (Fn \X Fn) \ T : v[p] = 0
    BY <1>4
  <2> QED
    BY <1>1, <1>6, <1>7, <2>1, SumOfSupport
<1>10. SumFunctionOnSet(v, T) = SumFunctionOnSet(w, Fn)
  <2>1. \A f \in Fn : w[f] \in Int /\ pair[f] \in T /\ v[pair[f]] = w[f]
    BY <1>2
  <2>2. \A p \in T : \E f \in Fn : p = pair[f]
    BY <1>3
  <2> QED
    BY <1>1, <1>8, <2>1, <2>2, SumReindex
<1> QED
  BY <1>9, <1>10 DEF v, w

(* The functions nobody calls pay for every request whatever the groups.   *)
Standing(a) ==
    [f \in Fn |-> IF a.parent[f] = NoFn THEN RequestPrice * Rate(a, f) ELSE 0]

(* An edge is cut in x exactly when its ends are in two groups of P. *)
LEMMA CutsAgree ==
    ASSUME NEW x \in Assignments, NEW P \in Seq(SUBSET Fn), IsPartition(P),
           Matches(x, P), NEW e \in Fn \X Fn
    PROVE  /\ c(x, e) \in {0, 1}
           /\ c(x, e) = 1 <=> Apart(P, e[1], e[2])
<1>1. e[1] \in Fn /\ e[2] \in Fn
  OBVIOUS
<1>2. c(x, e) = IF RootOf(x, e[1]) = RootOf(x, e[2]) THEN 0 ELSE 1
  BY CutVariable
<1>3. RootOf(x, e[1]) = RootOf(x, e[2])
         <=> GroupIndex(P, e[1]) = GroupIndex(P, e[2])
  BY <1>1 DEF Matches
<1>4. Apart(P, e[1], e[2]) <=> GroupIndex(P, e[1]) # GroupIndex(P, e[2])
  BY <1>1, GroupsByIndex
<1> QED
  BY <1>2, <1>3, <1>4

LEMMA TransferIsLinear ==
    ASSUME Application(app), NEW x \in Assignments,
           NEW P \in Seq(SUBSET Fn), IsPartition(P), Matches(x, P),
           NEW t, \A e \in Edges : t[e] = DataTransferCost(app, e[1], e[2]) * c(x, e)
    PROVE  /\ SumFunctionOnSet(t, Edges)
                 = SumFunctionOnSet(Transfers(app), CutEdges(app, P))
           /\ \A e \in Edges : t[e] \in Int
<1> DEFINE C == CutEdges(app, P)
           D == Transfers(app)
<1>1. /\ Edges \subseteq Fn \X Fn /\ IsFiniteSet(Edges)
      /\ C \in SUBSET Edges /\ IsFiniteSet(C)
  <2>1. app.edges \subseteq Fn \X Fn
    BY DEF Application
  <2>2. IsFiniteSet(Fn \X Fn)
    BY FnAssumption, FS_Product
  <2>3. Edges \subseteq Fn \X Fn
    BY <2>1 DEF Edges
  <2>4. ASSUME NEW e \in C
        PROVE  e \in Edges
    <3>1. e \in Fn \X Fn /\ e \in app.edges /\ Apart(P, e[1], e[2])
      BY <2>1 DEF CutEdges
    <3>2. e[1] # e[2]
      BY <3>1, GroupsByIndex
    <3> QED
      BY <3>1, <3>2 DEF Edges
  <2>5. C \in SUBSET Edges
    BY <2>4
  <2> HIDE DEF C
  <2> QED
    BY <2>2, <2>3, <2>5, FS_Subset
<1>2. ASSUME NEW e \in Edges
      PROVE  /\ t[e] \in Int /\ D[e] \in Int
             /\ e \in C => t[e] = D[e]
             /\ e \notin C => t[e] = 0
  <2>1. e \in Fn \X Fn /\ e \in app.edges
    BY <1>1 DEF Edges
  <2>2. D[e] = DataTransferCost(app, e[1], e[2]) /\ D[e] \in Int
    BY <2>1, TransferTypes
  <2>3. c(x, e) \in {0, 1} /\ (c(x, e) = 1 <=> Apart(P, e[1], e[2]))
    BY <2>1, CutsAgree
  <2>4. e \in C <=> c(x, e) = 1
    BY <2>1, <2>3 DEF CutEdges
  <2>5. t[e] = D[e] * c(x, e)
    BY <2>2
  <2> HIDE DEF C, D
  <2> QED
    BY <2>2, <2>3, <2>4, <2>5
<1> HIDE DEF C, D
<1>3. SumFunctionOnSet(t, Edges) = SumFunctionOnSet(t, C)
  <2>1. /\ \A e \in Edges : t[e] \in Int
        /\ \A e \in Edges \ C : t[e] = 0
    BY <1>2
  <2> QED
    BY <1>1, <2>1, SumOfSupport
<1>4. SumFunctionOnSet(t, C) = SumFunctionOnSet(D, C)
  <2>1. \A e \in C : D[e] \in Int /\ t[e] = D[e]
    BY <1>1, <1>2
  <2> QED
    BY <1>1, <2>1, SumCongruent
<1> QED
  BY <1>2, <1>3, <1>4 DEF C, D

LEMMA RequestsAreLinear ==
    ASSUME Application(app), NEW x \in Assignments,
           NEW P \in Seq(SUBSET Fn), IsPartition(P), Matches(x, P),
           NEW q, \A e \in Edges : q[e] = IF app.parent[e[2]] = e[1] /\ c(x, e) = 1
                                          THEN RequestPrice * Rate(app, e[2]) ELSE 0
    PROVE  /\ SumFunctionOnSet(q, Edges) + SumFunctionOnSet(Standing(app), Fn)
                 = SumFunctionOnSet(Requested(app, P), Fn)
           /\ \A e \in Edges : q[e] \in Int
           /\ SumFunctionOnSet(Standing(app), Fn) \in Int
<1> DEFINE C == {f \in Fn : app.parent[f] # NoFn /\ app.parent[f] \notin GroupOf(P, f)}
           Q == {e \in Edges : app.parent[e[2]] = e[1] /\ c(x, e) = 1}
           called == [f \in Fn |-> IF f \in C THEN RequestPrice * Rate(app, f) ELSE 0]
           pair == [f \in Fn |-> <<app.parent[f], f>>]
<1>1. IsFiniteSet(Fn) /\ IsFiniteSet(C) /\ IsFiniteSet(Edges) /\ Edges \subseteq Fn \X Fn
  <2>1. app.edges \subseteq Fn \X Fn
    BY DEF Application
  <2>2. IsFiniteSet(Fn \X Fn)
    BY FnAssumption, FS_Product
  <2>3. Edges \subseteq Fn \X Fn /\ C \subseteq Fn
    BY <2>1 DEF Edges
  <2> HIDE DEF C
  <2> QED
    BY <2>2, <2>3, FnAssumption, FS_Subset
<1>2. \A f \in Fn : RequestPrice * Rate(app, f) \in Int
  <2>1. \A p, r \in Nat : p * r \in Int
    OBVIOUS
  <2> QED
    BY <2>1, ChargeTypes, PriceAssumption
<1>3. ASSUME NEW f \in Fn
      PROVE  /\ Requested(app, P)[f] = Standing(app)[f] + called[f]
             /\ Standing(app)[f] \in Int /\ called[f] \in Int
  <2>1. GroupOf(P, f) \in SUBSET Fn
    BY GroupsByIndex
  <2>2. app.parent[f] = NoFn => app.parent[f] \notin GroupOf(P, f)
    BY <2>1, FnAssumption
  <2>3. RequestPrice * Rate(app, f) \in Int
    BY <1>2
  <2>4. /\ Requested(app, P)[f] = IF app.parent[f] \notin GroupOf(P, f)
                                  THEN RequestPrice * Rate(app, f) ELSE 0
        /\ Standing(app)[f] = IF app.parent[f] = NoFn
                              THEN RequestPrice * Rate(app, f) ELSE 0
        /\ called[f] = IF f \in C THEN RequestPrice * Rate(app, f) ELSE 0
    BY DEF Requested, Standing
  <2>5. f \in C <=> app.parent[f] # NoFn /\ app.parent[f] \notin GroupOf(P, f)
    OBVIOUS
  <2> HIDE DEF C, called
  <2> QED
    BY <2>2, <2>3, <2>4, <2>5
<1>4. ASSUME NEW f \in C
      PROVE  /\ pair[f] \in Q /\ called[f] = q[pair[f]] /\ called[f] \in Int
  <2>1. f \in Fn /\ f \in GroupOf(P, f)
    BY GroupsByIndex
  <2>2. app.parent[f] \in Fn /\ <<app.parent[f], f>> \in app.edges
    <3>1. /\ app.parent \in [Fn -> Fn \cup {NoFn}]
          /\ IF \E g \in Fn : <<g, f>> \in app.edges
             THEN <<app.parent[f], f>> \in app.edges
             ELSE app.parent[f] = NoFn
      BY <2>1 DEF Application
    <3> QED
      BY <2>1, <3>1
  <2>3. pair[f] \in Fn \X Fn /\ pair[f][1] = app.parent[f] /\ pair[f][2] = f
    BY <2>1, <2>2
  <2>4. pair[f] \in Edges
    BY <2>1, <2>2, <2>3 DEF Edges
  <2>5. Apart(P, app.parent[f], f)
    BY <2>1, <2>2, GroupsByIndex
  <2>6. c(x, pair[f]) = 1
    BY <2>3, <2>5, CutsAgree
  <2>7. q[pair[f]] = RequestPrice * Rate(app, f)
    BY <2>3, <2>4, <2>6
  <2>8. called[f] = RequestPrice * Rate(app, f)
    BY <2>1
  <2> QED
    BY <1>2, <2>1, <2>3, <2>4, <2>6, <2>7, <2>8
<1>5. ASSUME NEW e \in Q
      PROVE  e[2] \in C /\ e = pair[e[2]]
  <2>1. e \in Edges /\ e \in Fn \X Fn /\ e[1] \in Fn /\ e[2] \in Fn /\ e = <<e[1], e[2]>>
    BY <1>1
  <2>2. app.parent[e[2]] = e[1] /\ c(x, e) = 1
    OBVIOUS
  <2>3. Apart(P, e[1], e[2])
    BY <2>1, <2>2, CutsAgree
  <2>4. e[1] \notin GroupOf(P, e[2])
    BY <2>1, <2>3, GroupsByIndex
  <2> QED
    BY <2>1, <2>2, <2>4, FnAssumption
<1>6. \A e \in Edges : q[e] \in Int /\ (e \notin Q => q[e] = 0)
  <2>1. ASSUME NEW e \in Edges
        PROVE  q[e] \in Int /\ (e \notin Q => q[e] = 0)
    <3>1. e[2] \in Fn
      BY <1>1
    <3>2. RequestPrice * Rate(app, e[2]) \in Int
      BY <1>2, <3>1
    <3> QED
      BY <3>2
  <2> QED
    BY <2>1
<1>7. \A f, g \in Fn : pair[f] = pair[g] => f = g
  OBVIOUS
<1>8. Q \in SUBSET Edges /\ C \in SUBSET Fn
  OBVIOUS
<1>9. \A f \in Fn \ C : called[f] = 0
  OBVIOUS
<1> HIDE DEF C, Q, called, pair
<1>10. SumFunctionOnSet(q, Edges) = SumFunctionOnSet(q, Q)
  <2>1. /\ \A e \in Edges : q[e] \in Int
        /\ \A e \in Edges \ Q : q[e] = 0
    BY <1>6
  <2> QED
    BY <1>1, <1>8, <2>1, SumOfSupport
<1>11. SumFunctionOnSet(q, Q) = SumFunctionOnSet(called, C)
  <2>1. \A f \in C : called[f] \in Int /\ pair[f] \in Q /\ q[pair[f]] = called[f]
    BY <1>4
  <2>2. \A f, g \in C : pair[f] = pair[g] => f = g
    BY <1>7, <1>8
  <2>3. \A e \in Q : \E f \in C : e = pair[f]
    BY <1>5
  <2> QED
    BY <1>1, <2>1, <2>2, <2>3, SumReindex
<1>12. SumFunctionOnSet(called, Fn) = SumFunctionOnSet(called, C)
  <2>1. \A f \in Fn : called[f] \in Int
    BY <1>3
  <2> QED
    BY <1>1, <1>8, <1>9, <2>1, SumOfSupport
<1>13. SumFunctionOnSet(Requested(app, P), Fn)
          = SumFunctionOnSet(Standing(app), Fn) + SumFunctionOnSet(called, Fn)
  <2>1. \A f \in Fn : /\ Standing(app)[f] \in Int /\ called[f] \in Int
                      /\ Requested(app, P)[f] = Standing(app)[f] + called[f]
    BY <1>3
  <2> QED
    BY <1>1, <2>1, SumPointwise
<1>14. SumFunctionOnSet(Standing(app), Fn) \in Int /\ SumFunctionOnSet(called, Fn) \in Int
  <2>1. \A f \in Fn : Standing(app)[f] \in Int /\ called[f] \in Int
    BY <1>3
  <2> QED
    BY <1>1, <2>1, SumInt
<1> QED
  BY <1>6, <1>10, <1>11, <1>12, <1>13, <1>14

(* The bill is the objective and what no choice of groups changes. *)
LEMMA ObjectiveIsTheBill ==
    ASSUME Application(app), NEW x \in Assignments,
           NEW P \in Seq(SUBSET Fn), IsPartition(P), Matches(x, P)
    PROVE  /\ TotalCost(app, P) = Objective(x) + SumFunctionOnSet(Standing(app), Fn)
           /\ Objective(x) \in Int
           /\ SumFunctionOnSet(Standing(app), Fn) \in Int
<1> DEFINE w == [e \in Edges |-> EdgePrice(e) * c(x, e)]
           t == [e \in Edges |-> DataTransferCost(app, e[1], e[2]) * c(x, e)]
           q == [e \in Edges |-> IF app.parent[e[2]] = e[1] /\ c(x, e) = 1
                                 THEN RequestPrice * Rate(app, e[2]) ELSE 0]
           v == [p \in Fn \X Fn |->
                   ExecutionPrice * RuntimeMs(app, p[2]) * y(x, p[1], p[2])]
<1>1. /\ SumFunctionOnSet(t, Edges) = SumFunctionOnSet(Transfers(app), CutEdges(app, P))
      /\ \A e \in Edges : t[e] \in Int
  <2>1. \A e \in Edges : t[e] = DataTransferCost(app, e[1], e[2]) * c(x, e)
    OBVIOUS
  <2> HIDE DEF t
  <2> QED
    BY <2>1, TransferIsLinear
<1>2. /\ SumFunctionOnSet(q, Edges) + SumFunctionOnSet(Standing(app), Fn)
            = SumFunctionOnSet(Requested(app, P), Fn)
      /\ \A e \in Edges : q[e] \in Int
      /\ SumFunctionOnSet(Standing(app), Fn) \in Int
  <2>1. \A e \in Edges : q[e] = IF app.parent[e[2]] = e[1] /\ c(x, e) = 1
                                THEN RequestPrice * Rate(app, e[2]) ELSE 0
    OBVIOUS
  <2> HIDE DEF q
  <2> QED
    BY <2>1, RequestsAreLinear
<1>3. Edges \subseteq Fn \X Fn /\ IsFiniteSet(Edges)
  <2>1. app.edges \subseteq Fn \X Fn /\ IsFiniteSet(Fn \X Fn)
    BY FnAssumption, FS_Product DEF Application
  <2>2. Edges \subseteq Fn \X Fn
    BY <2>1 DEF Edges
  <2> QED
    BY <2>1, <2>2, FS_Subset
<1>4. \A e \in Edges : w[e] = t[e] + q[e]
  <2> SUFFICES ASSUME NEW e \in Edges PROVE w[e] = t[e] + q[e]
    OBVIOUS
  <2>1. e \in Fn \X Fn /\ e[1] \in Fn /\ e[2] \in Fn
    BY <1>3
  <2>2. c(x, e) \in {0, 1}
    BY <2>1, CutsAgree
  <2>3. DataTransferCost(app, e[1], e[2]) \in Nat /\ Rate(app, e[2]) \in Nat
    BY <2>1, ChargeTypes
  <2>4. RequestPrice * Rate(app, e[2]) \in Int
    BY <2>3, PriceAssumption
  <2> DEFINE d == DataTransferCost(app, e[1], e[2])
             r == RequestPrice * Rate(app, e[2])
  <2>5. /\ w[e] = (d + IF app.parent[e[2]] = e[1] THEN r ELSE 0) * c(x, e)
        /\ t[e] = d * c(x, e)
        /\ q[e] = IF app.parent[e[2]] = e[1] /\ c(x, e) = 1 THEN r ELSE 0
    BY DEF EdgePrice
  <2>6. d \in Int /\ r \in Int
    BY <2>3, <2>4
  <2> HIDE DEF d, r, w, t, q
  <2> QED
    BY <2>2, <2>5, <2>6
<1>5. SumFunctionOnSet(v, Fn \X Fn) = SumFunctionOnSet(Running(app, P), Fn)
  BY RunningIsLinear
<1>6. Objective(x) = SumFunctionOnSet(w, Edges) + SumFunctionOnSet(v, Fn \X Fn)
  BY DEF Objective, SumFunction
<1> HIDE DEF w, t, q, v
<1>7. SumFunctionOnSet(w, Edges) = SumFunctionOnSet(t, Edges) + SumFunctionOnSet(q, Edges)
  BY <1>1, <1>2, <1>3, <1>4, SumPointwise
<1>8. SumFunctionOnSet(t, Edges) \in Int /\ SumFunctionOnSet(q, Edges) \in Int
  BY <1>1, <1>2, <1>3, SumInt
<1>9. SumFunctionOnSet(Running(app, P), Fn) \in Int
  BY SharesInt, FnAssumption, SumInt
<1>10. TotalCost(app, P) = SumFunctionOnSet(Running(app, P), Fn)
                           + SumFunctionOnSet(Requested(app, P), Fn)
                           + SumFunctionOnSet(Transfers(app), CutEdges(app, P))
  BY TotalCostByFunction
<1> QED
  BY <1>1, <1>2, <1>5, <1>6, <1>7, <1>8, <1>9, <1>10

-----------------------------------------------------------------------------
(* Partitions and solutions. *)

(* Every partition is an assignment: a member of each group is its root. *)
LEMMA PartitionIsAssigned ==
    ASSUME NEW P \in Seq(SUBSET Fn), IsPartition(P)
    PROVE  \E x \in Assignments : Matches(x, P)
<1> DEFINE N == 1..Len(P)
           member == [i \in N |-> CHOOSE f \in Fn : f \in P[i]]
           root == [f \in Fn |-> member[GroupIndex(P, f)]]
           x == [b \in Fn |-> [f \in Fn |-> IF b = root[f] THEN 1 ELSE 0]]
<1>1. ASSUME NEW i \in N
      PROVE  /\ member[i] \in Fn /\ member[i] \in P[i]
             /\ GroupIndex(P, member[i]) = i
  <2>1. P[i] \in SUBSET Fn /\ P[i] # {}
    BY ElementOfSeq DEF IsPartition
  <2>2. member[i] \in Fn /\ member[i] \in P[i]
    BY <2>1
  <2> HIDE DEF member
  <2> QED
    BY <2>2, GroupsByIndex
<1>2. ASSUME NEW f \in Fn
      PROVE  root[f] \in Fn /\ GroupIndex(P, root[f]) = GroupIndex(P, f)
  <2>1. GroupIndex(P, f) \in N
    BY GroupsByIndex
  <2>2. root[f] = member[GroupIndex(P, f)]
    OBVIOUS
  <2> HIDE DEF member, root
  <2> QED
    BY <1>1, <2>1, <2>2
<1>3. ASSUME NEW f \in Fn, NEW g \in Fn
      PROVE  root[f] = root[g] <=> GroupIndex(P, f) = GroupIndex(P, g)
  <2>1. GroupIndex(P, f) = GroupIndex(P, g) => root[f] = root[g]
    OBVIOUS
  <2> HIDE DEF root
  <2> QED
    BY <1>2, <2>1
<1> HIDE DEF root, member
<1>4. \A b, f \in Fn : x[b][f] = IF b = root[f] THEN 1 ELSE 0
  OBVIOUS
<1>5. \A f \in Fn : {r \in Fn : x[r][f] = 1} = {root[f]}
  BY <1>2, <1>4
<1>6. x \in [Fn -> [Fn -> 0..1]]
  OBVIOUS
<1> HIDE DEF x
<1>7. \A b, f \in Fn : x[b][f] <= x[b][b]
  <2> SUFFICES ASSUME NEW b \in Fn, NEW f \in Fn
               PROVE  x[b][f] <= x[b][b]
    OBVIOUS
  <2>1. x[b][f] \in {0, 1} /\ x[b][b] \in {0, 1}
    BY <1>4
  <2>2. ASSUME b = root[f]
        PROVE  x[b][b] = 1
    <3>1. root[b] = root[f]
      BY <1>2, <1>3, <2>2
    <3> QED
      BY <1>4, <2>2, <3>1
  <2> QED
    BY <1>4, <2>1, <2>2
<1>8. x \in Assignments
  BY <1>2, <1>5, <1>6, <1>7 DEF Assignments
<1>9. \A f \in Fn : RootOf(x, f) = root[f]
  BY <1>2, <1>4, <1>8, OneRootEach
<1>10. Matches(x, P)
  BY <1>3, <1>9 DEF Matches
<1> QED
  BY <1>8, <1>10

(* Every assignment, read back, is a partition. *)
LEMMA AssignmentIsPartition ==
    ASSUME NEW x \in Assignments, NEW roots \in SetToSeqs(RootsOf(x))
    PROVE  /\ GroupsOf(x, roots) \in Seq(SUBSET Fn)
           /\ IsPartition(GroupsOf(x, roots))
           /\ Matches(x, GroupsOf(x, roots))
<1> DEFINE P == GroupsOf(x, roots)
           N == 1..Len(roots)
<1>1. /\ roots \in Seq(RootsOf(x)) /\ Len(roots) \in Nat
      /\ \A i, j \in N : roots[i] = roots[j] => i = j
      /\ \A b \in RootsOf(x) : \E i \in N : roots[i] = b
  <2>1. IsFiniteSet(RootsOf(x))
    BY FnAssumption, FS_Subset DEF RootsOf
  <2> QED
    BY <2>1, SeqsOfSet, LenProperties
<1>2. \A i \in N : roots[i] \in Fn /\ x[roots[i]][roots[i]] = 1
  BY <1>1, ElementOfSeq DEF RootsOf
<1>3. /\ P \in Seq(SUBSET Fn) /\ Len(P) = Len(roots)
      /\ \A i \in N : P[i] = {f \in Fn : x[roots[i]][f] = 1}
  <2> DEFINE s(i) == {f \in Fn : x[roots[i]][f] = 1}
  <2>1. P = [i \in 1..Len(roots) |-> s(i)]
    BY DEF GroupsOf
  <2>2. \A i \in 1..Len(roots) : s(i) \in SUBSET Fn
    OBVIOUS
  <2> HIDE DEF s, P
  <2>3. P \in Seq(SUBSET Fn) /\ Len(P) = Len(roots)
    BY <1>1, <2>1, <2>2, IsASeq
  <2> QED
    BY <2>1, <2>3 DEF s
<1> HIDE DEF P
<1>4. \A f \in Fn : \A i \in N : f \in P[i] <=> roots[i] = RootOf(x, f)
  BY <1>2, <1>3, OneRootEach
<1>5. \A f \in Fn : RootOf(x, f) \in RootsOf(x)
  <2> SUFFICES ASSUME NEW f \in Fn PROVE RootOf(x, f) \in RootsOf(x)
    OBVIOUS
  <2> DEFINE r == RootOf(x, f)
  <2>1. r \in Fn /\ RootOf(x, r) = r
    BY OneRootEach
  <2> HIDE DEF r
  <2>2. x[r][r] = 1
    BY <2>1, OneRootEach
  <2> QED
    BY <2>1, <2>2 DEF RootsOf, r
<1>6. IsPartition(P)
  <2>1. \A f \in Fn : Assigned(P, f)
    BY <1>1, <1>3, <1>4, <1>5 DEF Assigned
  <2>2. \A i \in 1..Len(P) : P[i] # {}
    BY <1>2, <1>3
  <2>3. PairwiseDisjoint(P)
    <3> SUFFICES ASSUME NEW i \in N, NEW j \in N, NEW f, f \in P[i], f \in P[j]
                 PROVE  i = j
      BY <1>3 DEF PairwiseDisjoint
    <3>1. f \in Fn
      BY <1>3
    <3> QED
      BY <1>1, <1>4, <3>1
  <2> QED
    BY <2>1, <2>2, <2>3 DEF IsPartition
<1>7. Matches(x, P)
  <2> SUFFICES ASSUME NEW f \in Fn, NEW g \in Fn
               PROVE  RootOf(x, f) = RootOf(x, g)
                         <=> GroupIndex(P, f) = GroupIndex(P, g)
    BY DEF Matches
  <2>1. /\ GroupIndex(P, f) \in N /\ f \in P[GroupIndex(P, f)]
        /\ GroupIndex(P, g) \in N /\ g \in P[GroupIndex(P, g)]
    BY <1>3, <1>6, GroupsByIndex DEF GroupOf
  <2>2. /\ roots[GroupIndex(P, f)] = RootOf(x, f)
        /\ roots[GroupIndex(P, g)] = RootOf(x, g)
    BY <1>4, <2>1
  <2> QED
    BY <1>1, <2>1, <2>2
<1> QED
  BY <1>3, <1>6, <1>7 DEF P

-----------------------------------------------------------------------------
(* The latency constraint. *)

(* The pairs of the critical path that are calls. *)
Hops == {i \in 1..(Len(app.critPath) - 1) :
            <<app.critPath[i], app.critPath[i + 1]>> \in Edges}

(* What the constraint adds up for x. *)
HopCharges(x) ==
    SumFunction([i \in Hops |->
        app.hop * c(x, <<app.critPath[i], app.critPath[i + 1]>>)])

LEMMA WithinLatencyByHops ==
    ASSUME NEW x
    PROVE  WithinLatency(x) <=>
              \/ Hops = {} \/ app.hop = 0
              \/ HopCharges(x) <= app.maxLat - CriticalPathRuntimeMs(app)
BY DEF WithinLatency, Hops, HopCharges

(* It counts the calls of the path that P cuts. *)
LEMMA HopsAreCounted ==
    ASSUME Application(app), NEW x \in Assignments,
           NEW P \in Seq(SUBSET Fn), IsPartition(P), Matches(x, P)
    PROVE  /\ HopCharges(x) = app.hop * Cardinality(Hops \cap CutPairs(app, P))
           /\ Cardinality(Hops \cap CutPairs(app, P)) \in Nat
           /\ Cardinality(CutPairs(app, P)) \in Nat
           /\ Cardinality(Hops \cap CutPairs(app, P)) <= Cardinality(CutPairs(app, P))
<1> DEFINE path == app.critPath
           K == 1..(Len(path) - 1)
           T == Hops \cap CutPairs(app, P)
           u == [i \in Hops |-> c(x, <<path[i], path[i + 1]>>)]
           w == [i \in Hops |-> app.hop * c(x, <<path[i], path[i + 1]>>)]
<1>1. path \in Seq(Fn) /\ Len(path) \in Nat /\ app.hop \in Nat
  BY LenProperties DEF Application
<1>2. IsFiniteSet(K)
  <2>1. Len(path) - 1 \in Int
    BY <1>1
  <2> QED
    BY <2>1, FS_Interval
<1>3. IsFiniteSet(Hops) /\ IsFiniteSet(CutPairs(app, P)) /\ T \in SUBSET Hops
  <2>1. Hops \subseteq K /\ CutPairs(app, P) \subseteq K
    BY DEF Hops, CutPairs
  <2> QED
    BY <1>2, <2>1, FS_Subset
<1>4. ASSUME NEW i \in Hops
      PROVE  u[i] = IF i \in T THEN 1 ELSE 0
  <2>1. i \in K
    BY DEF Hops
  <2>2. i \in 1..Len(path) /\ i + 1 \in 1..Len(path)
    BY <1>1, <2>1
  <2>3. path[i] \in Fn /\ path[i + 1] \in Fn
    BY <1>1, <2>2, ElementOfSeq
  <2> DEFINE e == <<path[i], path[i + 1]>>
  <2>4. e \in Fn \X Fn /\ e[1] = path[i] /\ e[2] = path[i + 1]
    BY <2>3
  <2> HIDE DEF e
  <2>5. c(x, e) \in {0, 1} /\ (c(x, e) = 1 <=> Apart(P, e[1], e[2]))
    BY <2>4, CutsAgree
  <2>6. i \in T <=> Apart(P, path[i], path[i + 1])
    BY <2>1 DEF CutPairs
  <2>7. u[i] = c(x, e)
    BY DEF e
  <2> HIDE DEF T, u
  <2> QED
    BY <2>4, <2>5, <2>6, <2>7
<1>5. \A i \in Hops : w[i] = app.hop * u[i]
  OBVIOUS
<1>6. HopCharges(x) = SumFunctionOnSet(w, Hops)
  BY DEF HopCharges, SumFunction
<1> HIDE DEF T, u, w
<1>7. SumFunctionOnSet(u, Hops) = Cardinality(T) /\ Cardinality(T) \in Nat
  <2>1. \A i \in Hops : u[i] = IF i \in T THEN 1 ELSE 0
    BY <1>4
  <2> QED
    BY <1>3, <2>1, SumOfOnes
<1>8. SumFunctionOnSet(w, Hops) = app.hop * SumFunctionOnSet(u, Hops)
  <2>1. \A i \in Hops : u[i] \in Int /\ w[i] = app.hop * u[i]
    BY <1>4, <1>5
  <2>2. app.hop \in Int
    BY <1>1
  <2> QED
    BY <1>3, <2>1, <2>2, SumScaled
<1>9. /\ Cardinality(CutPairs(app, P)) \in Nat
      /\ Cardinality(T) <= Cardinality(CutPairs(app, P))
  <2>1. T \subseteq CutPairs(app, P)
    BY DEF T
  <2> QED
    BY <1>3, <2>1, FS_Subset, FS_CardinalityType
<1> QED
  BY <1>6, <1>7, <1>8, <1>9 DEF T

(* Whatever meets the budget is a solution. *)
LEMMA BudgetMetIsWithin ==
    ASSUME Application(app), NEW x \in Assignments,
           NEW P \in Seq(SUBSET Fn), IsPartition(P), Matches(x, P),
           LatencyOK(app, P)
    PROVE  WithinLatency(x)
<1> DEFINE H == Cardinality(Hops \cap CutPairs(app, P))
           C == Cardinality(CutPairs(app, P))
           R == CriticalPathRuntimeMs(app)
<1>1. HopCharges(x) = app.hop * H /\ H \in Nat /\ C \in Nat /\ H <= C
  BY HopsAreCounted
<1>2. R \in Int /\ app.hop \in Nat /\ app.maxLat \in Nat
  BY PathRuntimeInt DEF Application
<1>3. CASE app.critPath = <<>>
  <2>1. Hops = {}
    BY <1>3 DEF Hops
  <2> QED
    BY <2>1, WithinLatencyByHops
<1>4. CASE app.critPath # <<>>
  <2>1. R + app.hop * C <= app.maxLat
    BY <1>4 DEF LatencyOK, Latency
  <2> HIDE DEF H, C, R
  <2>2. \A h, p, q \in Nat : p <= q => h * p <= h * q
    OBVIOUS
  <2>3. app.hop * H <= app.hop * C
    BY <1>1, <1>2, <2>2
  <2>4. app.hop * H \in Int /\ app.hop * C \in Int
    BY <1>1, <1>2
  <2>5. HopCharges(x) <= app.maxLat - R
    BY <1>1, <1>2, <2>1, <2>3, <2>4
  <2> QED
    BY <2>5, WithinLatencyByHops DEF R
<1> QED
  BY <1>3, <1>4

(* On a path of calls a solution meets the budget, if anything does. *)
LEMMA WithinMeetsTheBudget ==
    ASSUME Application(app), PathOfCalls, NEW x \in Assignments, WithinLatency(x),
           NEW P \in Seq(SUBSET Fn), IsPartition(P), Matches(x, P),
           NEW Q \in Seq(SUBSET Fn), IsPartition(Q), LatencyOK(app, Q)
    PROVE  LatencyOK(app, P)
<1> DEFINE C == Cardinality(CutPairs(app, P))
           D == Cardinality(CutPairs(app, Q))
           R == CriticalPathRuntimeMs(app)
<1>1. SUFFICES ASSUME app.critPath # <<>>
               PROVE  R + app.hop * C <= app.maxLat
  BY DEF LatencyOK, Latency
<1>2. R + app.hop * D <= app.maxLat
  BY <1>1 DEF LatencyOK, Latency
<1>3. C \in Nat /\ D \in Nat
  BY CutsAreCounted
<1>4. R \in Int /\ app.hop \in Nat /\ app.maxLat \in Nat
  BY PathRuntimeInt DEF Application
<1>5. Hops \cap CutPairs(app, P) = CutPairs(app, P)
  BY DEF PathOfCalls, Hops, CutPairs
<1>6. HopCharges(x) = app.hop * C
  BY <1>5, HopsAreCounted
<1>7. R <= app.maxLat
  <2> HIDE DEF C, D, R
  <2>1. app.hop * D \in Nat
    BY <1>3, <1>4
  <2> QED
    BY <1>2, <1>4, <2>1
<1>8. CASE Hops = {}
  <2>1. C = 0
    BY <1>5, <1>8, FS_EmptySet
  <2> HIDE DEF C, R
  <2> QED
    BY <1>4, <1>7, <2>1
<1>9. CASE app.hop = 0
  <2> HIDE DEF C, R
  <2> QED
    BY <1>3, <1>4, <1>7, <1>9
<1>10. CASE HopCharges(x) <= app.maxLat - R
  <2> HIDE DEF C, R
  <2>1. app.hop * C \in Int
    BY <1>3, <1>4
  <2> QED
    BY <1>4, <1>6, <1>10, <2>1
<1> QED
  BY <1>8, <1>9, <1>10, WithinLatencyByHops

-----------------------------------------------------------------------------
(* What is returned. *)

LEMMA PartitionShape ==
    ASSUME NEW P \in Partitions
    PROVE  P \in Seq(SUBSET Fn) /\ IsPartition(P)
<1>1. PICK n \in 1..Cardinality(Fn) : P \in [1..n -> SUBSET Fn]
  BY DEF Partitions
<1>2. n \in Nat
  BY FnAssumption, FS_CardinalityType
<1> QED
  BY <1>1, <1>2, SeqDef DEF Partitions

LEMMA OptimumIsCheapest ==
    ASSUME Application(app), NEW x \in OptimalSolutions,
           NEW roots \in SetToSeqs(RootsOf(x)),
           NEW P \in Partitions, LatencyOK(app, P)
    PROVE  /\ TotalCost(app, GroupsOf(x, roots)) <= TotalCost(app, P)
           /\ PathOfCalls => LatencyOK(app, GroupsOf(x, roots))
<1> DEFINE G == GroupsOf(x, roots)
<1>1. /\ x \in Assignments /\ WithinLatency(x)
      /\ \A z \in Solutions : Objective(x) <= Objective(z)
  BY DEF OptimalSolutions, Solutions
<1>2. G \in Seq(SUBSET Fn) /\ IsPartition(G) /\ Matches(x, G)
  BY <1>1, AssignmentIsPartition
<1>3. P \in Seq(SUBSET Fn) /\ IsPartition(P)
  BY PartitionShape
<1>4. PICK z \in Assignments : Matches(z, P)
  BY <1>3, PartitionIsAssigned
<1>5. z \in Solutions
  BY <1>3, <1>4, BudgetMetIsWithin DEF Solutions
<1> HIDE DEF G
<1>6. /\ TotalCost(app, G) = Objective(x) + SumFunctionOnSet(Standing(app), Fn)
      /\ TotalCost(app, P) = Objective(z) + SumFunctionOnSet(Standing(app), Fn)
      /\ Objective(x) \in Int /\ Objective(z) \in Int
      /\ SumFunctionOnSet(Standing(app), Fn) \in Int
  BY <1>1, <1>2, <1>3, <1>4, ObjectiveIsTheBill
<1>7. TotalCost(app, G) <= TotalCost(app, P)
  BY <1>1, <1>5, <1>6
<1>8. PathOfCalls => LatencyOK(app, G)
  BY <1>1, <1>2, <1>3, WithinMeetsTheBudget
<1> QED
  BY <1>7, <1>8 DEF G

(* Without a call between two functions a group saves nothing, and runs    *)
(* everyone in it at the memory of its largest member.                     *)
LEMMA SingletonsAreCheapest ==
    ASSUME Application(app), Edges = {}, NEW P \in Seq(SUBSET Fn), IsPartition(P)
    PROVE  TotalCost(app, Singletons(app)) <= TotalCost(app, P)
<1> DEFINE S == Singletons(app)
<1>1. S \in Seq(SUBSET Fn) /\ IsPartition(S)
  BY SingletonsPartition
<1>2. ASSUME NEW Q \in Seq(SUBSET Fn), IsPartition(Q)
      PROVE  CutEdges(app, Q) = {} /\ Requested(app, Q) = Standing(app)
  <2>1. app.edges \subseteq Fn \X Fn
    BY DEF Application
  <2>2. CutEdges(app, Q) = {}
    <3> SUFFICES ASSUME NEW e \in CutEdges(app, Q) PROVE FALSE
      OBVIOUS
    <3>1. e \in Fn \X Fn /\ e \in app.edges /\ Apart(Q, e[1], e[2])
      BY <2>1 DEF CutEdges
    <3>2. e[1] # e[2]
      BY <1>2, <3>1, GroupsByIndex
    <3> QED
      BY <3>1, <3>2 DEF Edges
  <2>3. ASSUME NEW f \in Fn
        PROVE  app.parent[f] \notin GroupOf(Q, f) <=> app.parent[f] = NoFn
    <3>1. f \in GroupOf(Q, f) /\ GroupOf(Q, f) \in SUBSET Fn
      BY <1>2, GroupsByIndex
    <3>2. IF \E g \in Fn : <<g, f>> \in app.edges
          THEN <<app.parent[f], f>> \in app.edges
          ELSE app.parent[f] = NoFn
      BY DEF Application
    <3>3. <<app.parent[f], f>> \in app.edges => app.parent[f] = f
      BY DEF Edges
    <3> QED
      BY <3>1, <3>2, <3>3, FnAssumption
  <2>4. \A f \in Fn : Requested(app, Q)[f] = Standing(app)[f]
    BY <2>3 DEF Requested, Standing
  <2> QED
    BY <2>2, <2>4 DEF Requested, Standing
<1>3. ASSUME NEW f \in Fn
      PROVE  Running(app, S)[f] <= Running(app, P)[f]
  <2>1. \A i \in 1..Len(S) : S[i] = {app.functions[i]}
    BY SingletonsPartition
  <2>2. GroupOf(S, f) = {f}
    <3>1. GroupIndex(S, f) \in 1..Len(S) /\ f \in GroupOf(S, f)
      BY <1>1, GroupsByIndex
    <3> HIDE DEF S
    <3> QED
      BY <2>1, <3>1 DEF GroupOf
  <2> DEFINE mine == GroupMemory(app, GroupOf(S, f))
             its == GroupMemory(app, GroupOf(P, f))
             run == RuntimeMs(app, f)
  <2>3. f \in GroupOf(P, f) /\ GroupOf(P, f) \in SUBSET Fn
    BY GroupsByIndex
  <2>4. its \in Nat /\ app.mem[f] <= its
    BY <2>3, GroupMemoryIsMax
  <2>5. mine \in Nat /\ (mine = 0 \/ mine = app.mem[f])
    BY <2>2, GroupMemoryIsMax
  <2>6. run \in Nat
    BY ChargeTypes
  <2>7. /\ Running(app, S)[f] = ExecutionPrice * mine * run
        /\ Running(app, P)[f] = ExecutionPrice * its * run
    BY DEF Running
  <2> HIDE DEF mine, its, run
  <2>8. mine <= its
    BY <2>4, <2>5
  <2>9. \A p, q, r \in Nat : p <= q => r * p <= r * q /\ p * r <= q * r
    OBVIOUS
  <2>10. ExecutionPrice * mine \in Nat /\ ExecutionPrice * its \in Nat
    BY <2>4, <2>5, PriceAssumption
  <2>11. ExecutionPrice * mine <= ExecutionPrice * its
    BY <2>4, <2>5, <2>8, <2>9, PriceAssumption
  <2> QED
    BY <2>6, <2>7, <2>9, <2>10, <2>11
<1> HIDE DEF S
<1>4. SumFunctionOnSet(Running(app, S), Fn) <= SumFunctionOnSet(Running(app, P), Fn)
  <2>1. \A f \in Fn : /\ Running(app, S)[f] \in Int /\ Running(app, P)[f] \in Int
                      /\ Running(app, S)[f] <= Running(app, P)[f]
    BY <1>1, <1>3, SharesInt
  <2> QED
    BY <2>1, FnAssumption, SumMonotonic
<1>5. /\ SumFunctionOnSet(Running(app, S), Fn) \in Int
      /\ SumFunctionOnSet(Running(app, P), Fn) \in Int
      /\ SumFunctionOnSet(Requested(app, S), Fn) \in Int
  BY <1>1, SharesInt, FnAssumption, SumInt
<1>6. /\ Requested(app, S) = Requested(app, P)
      /\ SumFunctionOnSet(Transfers(app), CutEdges(app, S)) = 0
      /\ SumFunctionOnSet(Transfers(app), CutEdges(app, P)) = 0
  BY <1>1, <1>2, SumOfEmpty
<1>7. /\ TotalCost(app, S) = SumFunctionOnSet(Running(app, S), Fn)
                             + SumFunctionOnSet(Requested(app, S), Fn)
                             + SumFunctionOnSet(Transfers(app), CutEdges(app, S))
      /\ TotalCost(app, P) = SumFunctionOnSet(Running(app, P), Fn)
                             + SumFunctionOnSet(Requested(app, P), Fn)
                             + SumFunctionOnSet(Transfers(app), CutEdges(app, P))
  BY <1>1, TotalCostByFunction
<1>8. TotalCost(app, S) <= TotalCost(app, P)
  BY <1>4, <1>5, <1>6, <1>7
<1> QED
  BY <1>8 DEF S

LEMMA SingletonsMeetTheBudget ==
    ASSUME Application(app), Edges = {}, PathOfCalls,
           NEW P \in Seq(SUBSET Fn), IsPartition(P), LatencyOK(app, P)
    PROVE  LatencyOK(app, Singletons(app))
<1> DEFINE S == Singletons(app)
           R == CriticalPathRuntimeMs(app)
           D == Cardinality(CutPairs(app, P))
<1>1. SUFFICES ASSUME app.critPath # <<>>
               PROVE  R + app.hop * Cardinality(CutPairs(app, S)) <= app.maxLat
  BY DEF LatencyOK, Latency
<1>2. CutPairs(app, S) = {} /\ Cardinality(CutPairs(app, S)) = 0
  BY FS_EmptySet DEF PathOfCalls, CutPairs
<1>3. R + app.hop * D <= app.maxLat
  BY <1>1 DEF LatencyOK, Latency
<1>4. R \in Int /\ app.hop \in Nat /\ app.maxLat \in Nat /\ D \in Nat
  BY PathRuntimeInt, CutsAreCounted DEF Application
<1> HIDE DEF R, D, S
<1>5. app.hop * D \in Nat
  BY <1>4
<1> QED
  BY <1>2, <1>3, <1>4, <1>5

(* The inductive invariant: the properties themselves, and nothing is      *)
(* returned before the end.                                                *)
IlpIInv ==
    /\ app \in Apps
    /\ at # "done" => status = "none" /\ groups = <<>>
    /\ NoneCheaper
    /\ MeetsTheCapOnCalls

(* groups' is as good as the invariant wants it. *)
LEMMA ReturnedIInv ==
    ASSUME IlpIInv, app' = app, at' = "done", status' = "optimal",
           IsPartition(groups'),
           \A P \in Partitions : LatencyOK(app, P) =>
              /\ TotalCost(app, groups') <= TotalCost(app, P)
              /\ PathOfCalls => LatencyOK(app, groups')
    PROVE  IlpIInv'
<1>1. Partitions' = Partitions /\ (PathOfCalls' <=> PathOfCalls)
  BY DEF Partitions, PathOfCalls, Edges
<1>2. NoneCheaper'
  BY <1>1 DEF NoneCheaper
<1>3. MeetsTheCapOnCalls'
  BY <1>1 DEF MeetsTheCapOnCalls
<1> QED
  BY <1>2, <1>3 DEF IlpIInv

LEMMA FailedIInv ==
    ASSUME IlpIInv, at # "done", NEW s, s # "optimal", Fail(s)
    PROVE  IlpIInv'
BY DEF IlpIInv, Fail, NoneCheaper, MeetsTheCapOnCalls

LEMMA NextIlpIInv == IlpIInv /\ [Next]_vars => IlpIInv'
<1> SUFFICES ASSUME IlpIInv, [Next]_vars PROVE IlpIInv'
  OBVIOUS
<1>1. Application(app)
  BY IlpAssumption DEF IlpIInv
<1>2. CASE CheckSolver
  <2>1. CASE Fail("no_solver")
    BY <1>2, <2>1, FailedIInv DEF CheckSolver
  <2>2. CASE at' = "build" /\ UNCHANGED <<app, status, groups>>
    BY <1>2, <2>2 DEF CheckSolver, IlpIInv, NoneCheaper, MeetsTheCapOnCalls
  <2> QED
    BY <1>2, <2>1, <2>2 DEF CheckSolver
<1>3. CASE SolveAlone
  <2>1. Edges = {} /\ app' = app /\ at' = "done" /\ status' = "optimal"
        /\ groups' = Singletons(app)
    BY <1>3 DEF SolveAlone
  <2>2. IsPartition(Singletons(app))
    BY <1>1, SingletonsPartition
  <2>3. \A P \in Partitions : LatencyOK(app, P) =>
           /\ TotalCost(app, Singletons(app)) <= TotalCost(app, P)
           /\ PathOfCalls => LatencyOK(app, Singletons(app))
    BY <1>1, <2>1, PartitionShape, SingletonsAreCheapest, SingletonsMeetTheBudget
  <2> QED
    BY <2>1, <2>2, <2>3, ReturnedIInv
<1>4. CASE SolveWithGLPK
  <2>1. CASE OptimalSolutions = {} /\ Fail("infeasible")
    BY <1>4, <2>1, FailedIInv DEF SolveWithGLPK
  <2>2. ASSUME NEW x \in OptimalSolutions, NEW roots \in SetToSeqs(RootsOf(x)),
               groups' = GroupsOf(x, roots),
               at' = "done", status' = "optimal", app' = app
        PROVE  IlpIInv'
    <3>1. x \in Assignments
      BY DEF OptimalSolutions, Solutions
    <3>2. IsPartition(GroupsOf(x, roots))
      BY <3>1, AssignmentIsPartition
    <3>3. \A P \in Partitions : LatencyOK(app, P) =>
             /\ TotalCost(app, GroupsOf(x, roots)) <= TotalCost(app, P)
             /\ PathOfCalls => LatencyOK(app, GroupsOf(x, roots))
      BY <1>1, OptimumIsCheapest
    <3> QED
      BY <2>2, <3>2, <3>3, ReturnedIInv
  <2> QED
    BY <1>4, <2>1, <2>2 DEF SolveWithGLPK
<1>5. CASE SolverGivesUp
  BY <1>5, FailedIInv DEF SolverGivesUp
<1>6. CASE UNCHANGED vars
  BY <1>6 DEF vars, IlpIInv, NoneCheaper, MeetsTheCapOnCalls, PathOfCalls, Edges
<1> QED
  BY <1>2, <1>3, <1>4, <1>5, <1>6 DEF Next, Terminating

LEMMA IlpInvariance == Spec => []IlpIInv
<1>1. Init => IlpIInv
  BY DEF Init, IlpIInv, NoneCheaper, MeetsTheCapOnCalls
<1> QED
  BY <1>1, NextIlpIInv, PTL DEF Spec

(* "The only algorithm that guarantees an optimal solution under the cost  *)
(* model in domain.CalculateMetrics": whatever the application, what is    *)
(* returned as optimal is a partition, and none within the latency budget  *)
(* costs less, for the objective written for glpsol is the bill up to what *)
(* no partition changes.  Nothing is returned with any other status.       *)
THEOREM OptimumOfTheBill == Spec => []NoneCheaper
<1>1. IlpIInv => NoneCheaper
  BY DEF IlpIInv
<1> QED
  BY <1>1, IlpInvariance, PTL

(* On a critical path of calls what is returned meets the latency budget   *)
(* whenever any partition does, though the constraint names calls only.    *)
THEOREM BudgetOnCalls == Spec => []MeetsTheCapOnCalls
<1>1. IlpIInv => MeetsTheCapOnCalls
  BY DEF IlpIInv
<1> QED
  BY <1>1, IlpInvariance, PTL

-----------------------------------------------------------------------------
(* The results and the plan.                                               *)

ResultsOfAll ==
    UNION {{[name |-> Algorithms[i], result |-> r] : r \in Outcomes(Algorithms[i])} :
           i \in 1..Len(Algorithms)}

(* Results as the loop of Optimize appends them: the i-th is of the i-th   *)
(* algorithm.                                                              *)
ResultsInOrder(rs) ==
    /\ rs \in Seq(ResultsOfAll)
    /\ Len(rs) <= Len(Algorithms)
    /\ \A i \in 1..Len(rs) :
          /\ rs[i].name = Algorithms[i]
          /\ rs[i].result \in Outcomes(Algorithms[i])

Named(rs, i) ==
    IF i = Nil THEN Nil ELSE SelectInSeq(rs, LAMBDA r : r.name = rs[i].name)

(* The inductive invariant: the results are there before the plan, which   *)
(* is worked out from all of them.                                         *)
PlanIInv ==
    /\ ResultsInOrder(domainResults)
    /\ plan # NoPlan =>
          /\ Len(domainResults) = Len(Algorithms)
          /\ plan.dominatedBy = MarkFrontier(domainResults)
          /\ plan.recommended = Named(domainResults, FirstLeast(domainResults, "cost"))
          /\ plan.unambiguous = Extremes(domainResults).unambiguous

-----------------------------------------------------------------------------
(* The first index that satisfies a test *)

LEMMA FiniteIndices ==
    ASSUME NEW n \in Nat, NEW I \in SUBSET (1..n)
    PROVE  IsFiniteSet(I)
<1>1. 1 \in Int /\ n \in Int
  OBVIOUS
<1>2. IsFiniteSet(1..n)
  BY <1>1, FS_Interval
<1> QED
  BY <1>2, FS_Subset

LEMMA FirstIndex ==
    ASSUME NEW n \in Nat, NEW I \in SUBSET (1..n), I # {}
    PROVE  /\ Min(I) \in I
           /\ Min(I) # 0
           /\ \A i \in I : Min(I) <= i
<1>1. IsFiniteSet(I)
  BY FiniteIndices
<1>2. \A i \in I : i \in Int
  OBVIOUS
<1>3. Min(I) \in I /\ \A i \in I : Min(I) <= i
  BY <1>1, <1>2, MinExists
<1> QED
  BY <1>3

LEMMA FirstLeastFound ==
    ASSUME NEW rs, Len(rs) \in Nat, NEW field,
           \A i \in 1..Len(rs) : rs[i].result[field] \in Nat
    PROVE  LET first == FirstLeast(rs, field)
           IN  IF \E i \in 1..Len(rs) : Eligible(rs[i])
               THEN /\ first \in 1..Len(rs)
                    /\ first # Nil
                    /\ Eligible(rs[first])
                    /\ \A j \in 1..Len(rs) : Eligible(rs[j]) =>
                          rs[first].result[field] <= rs[j].result[field]
               ELSE first = Nil
<1> DEFINE C == {i \in 1..Len(rs) : Eligible(rs[i])}
           w == [i \in C |-> rs[i].result[field]]
           I == {i \in 1..Len(rs) :
                    /\ Eligible(rs[i])
                    /\ \A j \in 1..Len(rs) :
                          Eligible(rs[j]) => rs[i].result[field] <= rs[j].result[field]}
<1>1. C # {} => \E i \in C : \A j \in C : w[i] <= w[j]
  <2>1. IsFiniteSet(C)
    BY FiniteIndices
  <2>2. \A i \in C : w[i] \in Int
    OBVIOUS
  <2> HIDE DEF C, w
  <2> QED
    BY <2>1, <2>2, LightestMember
<1>2. C # {} => I # {}
  BY <1>1
<1>3. FirstLeast(rs, field) = IF I # {} THEN Min(I) ELSE 0
  BY DEF FirstLeast, SelectInSeq
<1>4. I \in SUBSET (1..Len(rs))
  OBVIOUS
<1>5. /\ I = {} => FirstLeast(rs, field) = 0
      /\ I # {} => FirstLeast(rs, field) \in I /\ FirstLeast(rs, field) # 0
  <2> HIDE DEF I
  <2>1. I # {} => Min(I) \in I /\ Min(I) # 0
    BY <1>4, FirstIndex
  <2> QED
    BY <1>3, <2>1
<1>6. I # {} => C # {}
  OBVIOUS
<1> QED
  BY <1>2, <1>5, <1>6 DEF Nil
-----------------------------------------------------------------------------
(* The plan's invariant is kept *)

LEMMA InitPlanIInv == PlanInit => PlanIInv
<1>1. <<>> \in Seq(ResultsOfAll) /\ Len(<<>>) = 0
  BY EmptySeq
<1> QED
  BY <1>1, AlgorithmsAssumption DEF PlanInit, PlanIInv, ResultsInOrder

(* A turn of the loop adds the result of the next algorithm; there is no   *)
(* plan before the last turn.                                              *)
LEMMA RunPlanIInv ==
    ASSUME PlanIInv, Run
    PROVE  PlanIInv'
<1> DEFINE n == Len(domainResults)
<1>1. /\ domainResults \in Seq(ResultsOfAll) /\ n \in Nat
      /\ n < Len(Algorithms) /\ plan = NoPlan /\ plan' = plan
      /\ Len(Algorithms) \in Nat
  BY LenProperties, AlgorithmsAssumption DEF PlanIInv, ResultsInOrder, Run
<1>2. PICK r \in Outcomes(Algorithms[n + 1]) :
         domainResults' = Append(domainResults, [name |-> Algorithms[n + 1], result |-> r])
  BY DEF Run
<1> DEFINE e == [name |-> Algorithms[n + 1], result |-> r]
<1>3. e \in ResultsOfAll
  <2>1. n + 1 \in 1..Len(Algorithms)
    BY <1>1
  <2>2. e \in {[name |-> Algorithms[n + 1], result |-> x] : x \in Outcomes(Algorithms[n + 1])}
    OBVIOUS
  <2> HIDE DEF n, e
  <2> QED
    BY <2>1, <2>2 DEF ResultsOfAll
<1>4. /\ domainResults' \in Seq(ResultsOfAll)
      /\ Len(domainResults') = n + 1
      /\ \A i \in 1..n : domainResults'[i] = domainResults[i]
      /\ domainResults'[n + 1] = e
  <2> HIDE DEF e
  <2> QED
    BY <1>1, <1>2, <1>3, AppendProperties DEF e
<1>5. ResultsInOrder(domainResults)'
  <2>1. \A i \in 1..(n + 1) :
           /\ domainResults'[i].name = Algorithms[i]
           /\ domainResults'[i].result \in Outcomes(Algorithms[i])
    <3> TAKE i \in 1..(n + 1)
    <3>1. CASE i = n + 1
      BY <1>4, <3>1
    <3>2. CASE i \in 1..n
      BY <1>4, <3>2 DEF PlanIInv, ResultsInOrder
    <3> QED
      BY <1>1, <3>1, <3>2
  <2> QED
    BY <1>1, <1>4, <2>1 DEF ResultsInOrder
<1> QED
  BY <1>1, <1>5 DEF PlanIInv

LEMMA NextPlanIInv == PlanIInv /\ [PlanNext]_planVars => PlanIInv'
<1> SUFFICES ASSUME PlanIInv, [PlanNext]_planVars PROVE PlanIInv'
  OBVIOUS
<1>1. CASE Run
  BY <1>1, RunPlanIInv
<1>2. CASE Respond
  <2>1. UNCHANGED domainResults /\ Len(domainResults) = Len(Algorithms)
    BY <1>2 DEF Respond
  <2>2. plan'.dominatedBy = MarkFrontier(domainResults)
    BY <1>2 DEF Respond
  <2>3. plan'.recommended = Named(domainResults, FirstLeast(domainResults, "cost"))
    BY <1>2 DEF Respond, Named, Extremes
  <2>4. plan'.unambiguous = Extremes(domainResults).unambiguous
    BY <1>2 DEF Respond
  <2> QED
    BY <2>1, <2>2, <2>3, <2>4 DEF PlanIInv
<1>3. CASE PlanTerminating \/ UNCHANGED planVars
  BY <1>3 DEF PlanIInv, PlanTerminating, planVars
<1> QED
  BY <1>1, <1>2, <1>3 DEF PlanNext

LEMMA PlanInvariance == PlanSpec => []PlanIInv
  BY InitPlanIInv, NextPlanIInv, PTL DEF PlanSpec
-----------------------------------------------------------------------------
(* What the plan says *)

LEMMA ResultTypes ==
    ASSUME PlanIInv
    PROVE  /\ Len(domainResults) \in Nat
           /\ \A i \in 1..Len(domainResults) :
                 /\ Result(i).cost \in Nat /\ Result(i).latency \in Nat
                 /\ Eligible(domainResults[i]) <=> Result(i).feasible
                 /\ Result(i).feasible => ~ Result(i).error
<1>1. domainResults \in Seq(ResultsOfAll) /\ Len(domainResults) \in Nat
  BY LenProperties DEF PlanIInv, ResultsInOrder
<1>2. ASSUME NEW i \in 1..Len(domainResults)
      PROVE  i \in 1..Len(Algorithms) /\ Result(i) \in Outcomes(Algorithms[i])
  BY <1>1, AlgorithmsAssumption DEF PlanIInv, ResultsInOrder, Result
<1>3. ASSUME NEW i \in 1..Len(domainResults)
      PROVE  /\ Result(i).cost \in Nat /\ Result(i).latency \in Nat
             /\ Result(i).error \in BOOLEAN /\ Result(i).feasible \in BOOLEAN
             /\ ~ (Result(i).error /\ Result(i).feasible)
  BY <1>2, OutcomesAssumption
<1> QED
  BY <1>1, <1>3 DEF Eligible, Result

(* Between eligible results dominance is a strict order, which the sum of  *)
(* cost and latency respects.                                              *)
LEMMA DominanceLowersTheSum ==
    ASSUME PlanIInv, NEW i \in 1..Len(domainResults), NEW j \in 1..Len(domainResults),
           Dominates(Result(i), Result(j))
    PROVE  Result(i).cost + Result(i).latency < Result(j).cost + Result(j).latency
BY ResultTypes DEF Dominates

LEMMA DominanceIsTransitive ==
    ASSUME PlanIInv, NEW i \in 1..Len(domainResults), NEW j \in 1..Len(domainResults),
           NEW k \in 1..Len(domainResults),
           Dominates(Result(i), Result(j)), Dominates(Result(j), Result(k))
    PROVE  Dominates(Result(i), Result(k))
BY ResultTypes DEF Dominates

(* A candidate is marked exactly when another candidate dominates it.      *)
LEMMA MarkedWhenDominated ==
    ASSUME PlanIInv, plan # NoPlan, NEW i \in Candidates
    PROVE  i \in Frontier <=> \A j \in Candidates : ~ Dominates(Result(j), Result(i))
<1> DEFINE n == Len(domainResults)
           I == {j \in 1..n : ~ domainResults[j].result.error
                               /\ Dominates(domainResults[j].result, domainResults[i].result)}
<1>1. i \in 1..n /\ Eligible(domainResults[i]) /\ n \in Nat
  BY ResultTypes DEF Candidates
<1>2. plan.dominatedBy[i] = IF I # {} THEN Min(I) ELSE 0
  BY <1>1 DEF PlanIInv, MarkFrontier, SelectInSeq
<1>3. I # {} => Min(I) # 0
  <2>1. I \in SUBSET (1..n)
    OBVIOUS
  <2> HIDE DEF I
  <2> QED
    BY <1>1, <2>1, FirstIndex
<1>4. plan.dominatedBy[i] = Nil <=> I = {}
  BY <1>2, <1>3 DEF Nil
<1>5. I = {j \in Candidates : Dominates(Result(j), Result(i))}
  <2>1. \A j \in 1..n : ~ domainResults[j].result.error
                          /\ Dominates(domainResults[j].result, domainResults[i].result)
                   <=> j \in Candidates /\ Dominates(Result(j), Result(i))
    BY ResultTypes DEF Candidates, Dominates, Result
  <2> QED
    BY <2>1 DEF Candidates
<1> QED
  BY <1>4, <1>5 DEF Frontier

(* Of the candidates that dominate i, the one with the least sum of cost   *)
(* and latency is dominated by none.                                       *)
LEMMA DominatedFromTheFrontier ==
    ASSUME PlanIInv, plan # NoPlan, NEW i \in Candidates \ Frontier
    PROVE  \E j \in Frontier : Dominates(Result(j), Result(i))
<1> DEFINE D == {j \in Candidates : Dominates(Result(j), Result(i))}
           w == [j \in D |-> Result(j).cost + Result(j).latency]
<1>1. D # {}
  BY MarkedWhenDominated
<1>2. IsFiniteSet(D) /\ \A j \in D : w[j] \in Int
  <2>1. D \in SUBSET (1..Len(domainResults)) /\ Len(domainResults) \in Nat
    BY ResultTypes DEF Candidates
  <2>2. \A j \in D : w[j] \in Int
    BY <2>1, ResultTypes
  <2> HIDE DEF D
  <2> QED
    BY <2>1, <2>2, FiniteIndices
<1>3. PICK l \in D : \A j \in D : w[l] <= w[j]
  <2> HIDE DEF D, w
  <2> QED
    BY <1>1, <1>2, LightestMember
<1>4. ASSUME NEW k \in Candidates, Dominates(Result(k), Result(l))
      PROVE  FALSE
  <2>1. /\ k \in 1..Len(domainResults) /\ l \in 1..Len(domainResults)
        /\ i \in 1..Len(domainResults)
    BY DEF Candidates
  <2>2. k \in D
    BY <1>4, <2>1, DominanceIsTransitive
  <2>3. w[k] < w[l]
    BY <1>4, <2>1, <2>2, DominanceLowersTheSum
  <2>4. w[k] \in Int /\ w[l] \in Int /\ w[l] <= w[k]
    BY <1>2, <1>3, <2>2
  <2> QED
    BY <2>3, <2>4
<1> QED
  BY <1>3, <1>4, MarkedWhenDominated
(* The name of a result leads back to it: no other algorithm bears it.     *)
LEMMA NamedIsItself ==
    ASSUME PlanIInv, NEW i \in 1..Len(domainResults)
    PROVE  Named(domainResults, i) = i
<1> DEFINE n == Len(domainResults)
           I == {j \in 1..n : domainResults[j].name = domainResults[i].name}
<1>1. n \in Nat /\ i # Nil
  BY ResultTypes DEF Nil
<1>2. \A j \in 1..n : j \in 1..Len(Algorithms) /\ domainResults[j].name = Algorithms[j]
  BY <1>1, AlgorithmsAssumption DEF PlanIInv, ResultsInOrder
<1>3. I = {i}
  BY <1>2, AlgorithmsAssumption
<1>4. Min(I) \in I
  <2>1. I \in SUBSET (1..n) /\ I # {}
    OBVIOUS
  <2> HIDE DEF I
  <2> QED
    BY <1>1, <2>1, FirstIndex
<1> QED
  BY <1>1, <1>3, <1>4 DEF Named, SelectInSeq

(* What Extremes finds in a field. *)
LEMMA LeastOfField ==
    ASSUME PlanIInv
    PROVE  /\ LET first == FirstLeast(domainResults, "cost")
              IN  IF Candidates = {} THEN first = Nil
                  ELSE /\ first \in Candidates /\ first # Nil
                       /\ \A j \in Candidates : Result(first).cost <= Result(j).cost
           /\ LET f == FirstLeast(domainResults, "latency")
              IN  IF Candidates = {} THEN f = Nil
                  ELSE /\ f \in Candidates /\ f # Nil
                       /\ \A j \in Candidates : Result(f).latency <= Result(j).latency
<1>1. /\ Len(domainResults) \in Nat
      /\ \A i \in 1..Len(domainResults) :
            /\ domainResults[i].result["cost"] \in Nat
            /\ domainResults[i].result["latency"] \in Nat
  BY ResultTypes DEF Result
<1>2. LET first == FirstLeast(domainResults, "cost")
      IN  IF Candidates = {} THEN first = Nil
          ELSE /\ first \in Candidates /\ first # Nil
               /\ \A j \in Candidates : Result(first).cost <= Result(j).cost
  BY <1>1, FirstLeastFound DEF Candidates, Result
<1>3. LET f == FirstLeast(domainResults, "latency")
      IN  IF Candidates = {} THEN f = Nil
          ELSE /\ f \in Candidates /\ f # Nil
               /\ \A j \in Candidates : Result(f).latency <= Result(j).latency
  BY <1>1, FirstLeastFound DEF Candidates, Result
<1> QED
  BY <1>2, <1>3

LEMMA Recommended ==
    ASSUME PlanIInv, plan # NoPlan
    PROVE  plan.recommended = FirstLeast(domainResults, "cost")
<1>1. plan.recommended = Named(domainResults, FirstLeast(domainResults, "cost"))
  BY DEF PlanIInv
<1>2. CASE FirstLeast(domainResults, "cost") = Nil
  BY <1>1, <1>2 DEF Named
<1>3. CASE FirstLeast(domainResults, "cost") # Nil
  <2>1. FirstLeast(domainResults, "cost") \in 1..Len(domainResults)
    BY <1>3, LeastOfField DEF Candidates
  <2> QED
    BY <1>1, <2>1, NamedIsItself
<1> QED
  BY <1>2, <1>3

-----------------------------------------------------------------------------
(* However the algorithms' results tie, fail or miss the limits, what      *)
(* MarkFrontier leaves unmarked covers the rest without a dominance of its *)
(* own, and Extremes recommends an option as cheap as any of it.           *)
THEOREM FrontierIsAChoice == PlanSpec => []FrontierCoversTheRest
<1>1. PlanIInv => FrontierCoversTheRest
  <2> SUFFICES ASSUME PlanIInv, plan # NoPlan
               PROVE  /\ \A i \in Candidates \ Frontier :
                            \E j \in Frontier : Dominates(Result(j), Result(i))
                      /\ \A i, j \in Frontier : ~Dominates(Result(i), Result(j))
                      /\ IF Frontier = {}
                         THEN plan.recommended = Nil
                         ELSE /\ plan.recommended \in Candidates
                              /\ \A i \in Frontier :
                                    Result(plan.recommended).cost <= Result(i).cost
    BY DEF FrontierCoversTheRest
  <2>1. \A i \in Candidates \ Frontier :
           \E j \in Frontier : Dominates(Result(j), Result(i))
    BY DominatedFromTheFrontier
  <2>2. Frontier \subseteq Candidates
    BY DEF Frontier
  <2>3. \A i, j \in Frontier : ~Dominates(Result(i), Result(j))
    BY <2>2, MarkedWhenDominated
  <2>4. Frontier = {} <=> Candidates = {}
    BY <2>1, <2>2
  <2> QED
    BY <2>1, <2>2, <2>3, <2>4, LeastOfField, Recommended
<1> QED
  BY <1>1, PlanInvariance, PTL

(* "When one candidate is both cheapest and fastest there is no trade to   *)
(* present" (Extremes): the frontier is then of one cost and one latency.  *)
THEOREM UnambiguousPlans == PlanSpec => []UnambiguousMeansNoTrade
<1>1. PlanIInv => UnambiguousMeansNoTrade
  <2> SUFFICES ASSUME PlanIInv, plan # NoPlan, plan.unambiguous
               PROVE  /\ plan.recommended \in Frontier
                      /\ \A i, j \in Frontier :
                            /\ Result(i).cost = Result(j).cost
                            /\ Result(i).latency = Result(j).latency
    BY DEF UnambiguousMeansNoTrade
  <2> DEFINE first == FirstLeast(domainResults, "cost")
             f == FirstLeast(domainResults, "latency")
  <2>1. /\ first # Nil /\ f # Nil
        /\ Result(first).cost = Result(f).cost /\ Result(first).latency = Result(f).latency
    BY DEF PlanIInv, Extremes, Result
  <2>2. /\ first \in Candidates /\ f \in Candidates
        /\ \A j \in Candidates : /\ Result(first).cost <= Result(j).cost
                                  /\ Result(first).latency <= Result(j).latency
    BY <2>1, LeastOfField
  <2>3. Candidates \subseteq 1..Len(domainResults) /\ Frontier \subseteq Candidates
    BY DEF Candidates, Frontier
  <2> HIDE DEF first, f
  <2>4. first \in Frontier
    <3>1. \A j \in Candidates : ~ Dominates(Result(j), Result(first))
      BY <2>2, <2>3, ResultTypes DEF Dominates
    <3> QED
      BY <2>2, <3>1, MarkedWhenDominated
  <2>5. ASSUME NEW i \in Frontier
        PROVE  Result(i).cost = Result(first).cost /\ Result(i).latency = Result(first).latency
    <3>1. ~ Dominates(Result(first), Result(i))
      BY <2>2, <2>3, MarkedWhenDominated
    <3>2. Result(first).feasible /\ Result(i).feasible
      BY <2>2, <2>3, ResultTypes DEF Candidates
    <3> QED
      BY <2>2, <2>3, <3>1, <3>2, ResultTypes DEF Dominates
  <2> QED
    BY <2>4, <2>5, Recommended DEF first
<1> QED
  BY <1>1, PlanInvariance, PTL
=============================================================================
