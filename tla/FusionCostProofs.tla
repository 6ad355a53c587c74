-------------------------- MODULE FusionCostProofs --------------------------
(***************************************************************************)
(* Facts about the cost model that hold for every application: the laws of *)
(* the sums and maxima it is made of, the price of a partition, and what a *)
(* merge does to it and to the critical path.                              *)
(***************************************************************************)
EXTENDS FusionCost, SequencesExt, FiniteSetTheorems, SequenceTheorems, TLAPS

-----------------------------------------------------------------------------
(* Sums over finite sets: SumFunctionOnSet of the community modules.       *)
(* Induction on a finite set is done by looking at a smallest              *)
(* counterexample.                                                         *)

Pick(S) == CHOOSE x \in S : TRUE

(* h is the table of partial sums of w over the subsets of S. *)
SumTable(w, S, h) ==
    h = [s \in SUBSET S |-> IF s = {} THEN 0
                            ELSE w[Pick(s)] + h[s \ {Pick(s)}]]

(* A nonempty family of subsets of a finite set has a smallest member. *)
LEMMA SmallestMember ==
    ASSUME NEW S, IsFiniteSet(S), NEW F \in SUBSET (SUBSET S), F # {}
    PROVE  \E M \in F : \A U \in SUBSET M : U \in F => U = M
<1>1. IsWellFoundedOn(StrictSubsetOrdering(S), FiniteSubsetsOf(S))
  BY FS_StrictSubsetOrderingWellFounded
<1>2. F \subseteq FiniteSubsetsOf(S)
  BY FS_FiniteSubsetsOfFinite
<1>3. PICK M \in F : \A U \in F : ~ (<<U, M>> \in StrictSubsetOrdering(S))
  BY <1>1, <1>2, WFMin
<1>4. ASSUME NEW U \in SUBSET M, U \in F, U # M
      PROVE  FALSE
  <2>1. <<U, M>> \in (SUBSET S) \X (SUBSET S)
    BY <1>4
  <2>2. <<U, M>> \in StrictSubsetOrdering(S)
    BY <1>4, <2>1 DEF StrictSubsetOrdering
  <2> QED
    BY <1>3, <1>4, <2>2
<1> QED
  BY <1>4

LEMMA PickMember == \A S : S # {} => Pick(S) \in S
BY DEF Pick

(* Two tables agree wherever both are defined. *)
LEMMA SumTablesAgree ==
    ASSUME NEW w, NEW S, NEW T, NEW h, NEW g, IsFiniteSet(S),
           SumTable(w, S, h), SumTable(w, T, g),
           NEW U \in SUBSET (S \cap T)
    PROVE  h[U] = g[U]
<1> DEFINE Bad == {V \in SUBSET (S \cap T) : h[V] # g[V]}
<1>1. SUFFICES ASSUME Bad # {} PROVE FALSE
  OBVIOUS
<1>2. PICK M \in Bad : \A V \in SUBSET M : V \in Bad => V = M
  <2>1. Bad \in SUBSET (SUBSET S)
    OBVIOUS
  <2> HIDE DEF Bad
  <2> QED
    BY <1>1, <2>1, SmallestMember
<1>3. M \in SUBSET S /\ M \in SUBSET T /\ h[M] # g[M]
  OBVIOUS
<1>4. /\ h[M] = IF M = {} THEN 0 ELSE w[Pick(M)] + h[M \ {Pick(M)}]
      /\ g[M] = IF M = {} THEN 0 ELSE w[Pick(M)] + g[M \ {Pick(M)}]
  <2>1. \A hh, SS, V : SumTable(w, SS, hh) /\ V \in SUBSET SS =>
           hh[V] = IF V = {} THEN 0 ELSE w[Pick(V)] + hh[V \ {Pick(V)}]
    BY DEF SumTable
  <2> QED
    BY <1>3, <2>1
<1>5. M # {}
  BY <1>3, <1>4
<1>6. M \ {Pick(M)} \notin Bad
  BY <1>2, <1>5, PickMember
<1>7. h[M \ {Pick(M)}] = g[M \ {Pick(M)}]
  BY <1>3, <1>6
<1> QED
  BY <1>3, <1>4, <1>5, <1>7

LEMMA SumTableExists ==
    ASSUME NEW w, NEW S, IsFiniteSet(S)
    PROVE  \E h : SumTable(w, S, h)
<1> DEFINE Bad == {V \in SUBSET S : ~ \E h : SumTable(w, V, h)}
<1>1. SUFFICES ASSUME Bad # {} PROVE FALSE
  OBVIOUS
<1>2. PICK M \in Bad : \A V \in SUBSET M : V \in Bad => V = M
  <2>1. Bad \in SUBSET (SUBSET S)
    OBVIOUS
  <2> HIDE DEF Bad
  <2> QED
    BY <1>1, <2>1, SmallestMember
<1> DEFINE H(V) == CHOOSE h : SumTable(w, V, h)
           Top(V) == IF V = {} THEN 0
                     ELSE w[Pick(V)] + H(V \ {Pick(V)})[V \ {Pick(V)}]
           g == [V \in SUBSET M |-> Top(V)]
<1>3. ASSUME NEW V \in SUBSET M, V # M
      PROVE  SumTable(w, V, H(V))
  BY <1>2, <1>3
<1>4. IsFiniteSet(M)
  BY FS_Subset
<1>5. \A hh, SS, V : SumTable(w, SS, hh) /\ V \in SUBSET SS =>
         hh[V] = IF V = {} THEN 0 ELSE w[Pick(V)] + hh[V \ {Pick(V)}]
  BY DEF SumTable
<1> HIDE DEF H
<1>6. ASSUME NEW V \in SUBSET M, V # M
      PROVE  g[V] = H(V)[V]
  <2>1. H(V)[V] = IF V = {} THEN 0 ELSE w[Pick(V)] + H(V)[V \ {Pick(V)}]
    BY <1>3, <1>5, <1>6
  <2>2. CASE V = {}
    BY <2>1, <2>2
  <2>3. CASE V # {}
    <3> DEFINE V1 == V \ {Pick(V)}
    <3>1. V1 \in SUBSET M /\ V1 # M /\ V1 \in SUBSET V
      BY <1>6, <2>3, PickMember
    <3>2. SumTable(w, V1, H(V1)) /\ SumTable(w, V, H(V))
      BY <1>3, <1>6, <3>1
    <3>3. IsFiniteSet(V)
      BY <1>4, FS_Subset
    <3> HIDE DEF V1
    <3>4. V1 \in SUBSET (V \cap V1)
      BY <3>1
    <3>5. H(V)[V1] = H(V1)[V1]
      BY <3>2, <3>3, <3>4, SumTablesAgree
    <3> QED
      BY <2>1, <2>3, <3>5 DEF V1
  <2> QED
    BY <2>2, <2>3
<1>7. ASSUME NEW V \in SUBSET M, V # {}
      PROVE  g[V] = w[Pick(V)] + g[V \ {Pick(V)}]
  <2>1. V \ {Pick(V)} \in SUBSET M /\ V \ {Pick(V)} # M
    BY <1>7, PickMember
  <2>2. g[V \ {Pick(V)}] = H(V \ {Pick(V)})[V \ {Pick(V)}]
    BY <1>6, <2>1
  <2> QED
    BY <1>7, <2>2
<1>8. g[{}] = 0
  OBVIOUS
<1>9. SumTable(w, M, g)
  <2>1. g = [V \in SUBSET M |-> g[V]]
    OBVIOUS
  <2> HIDE DEF g
  <2> QED
    BY <1>7, <1>8, <2>1 DEF SumTable
<1> QED
  BY <1>2, <1>9

-----------------------------------------------------------------------------
(* The library's fold is the top entry of that table. *)
LEMMA SumIsTop ==
    ASSUME NEW w, NEW S, IsFiniteSet(S)
    PROVE  \E h : SumTable(w, S, h) /\ SumFunctionOnSet(w, S) = h[S]
<1> DEFINE h == CHOOSE h : h = [s \in SUBSET S |-> IF s = {} THEN 0
                                      ELSE w[Pick(s)] + h[s \ {Pick(s)}]]
<1>1. SumFunctionOnSet(w, S) = h[S]
  BY DEF SumFunctionOnSet, FoldFunctionOnSet, MapThenFoldSet, Pick
<1>2. SumTable(w, S, h)
  <2>1. \E g : g = [s \in SUBSET S |-> IF s = {} THEN 0
                                      ELSE w[Pick(s)] + g[s \ {Pick(s)}]]
    <3>1. PICK g : SumTable(w, S, g)
      BY SumTableExists
    <3>2. g = [s \in SUBSET S |-> IF s = {} THEN 0
                                  ELSE w[Pick(s)] + g[s \ {Pick(s)}]]
      BY <3>1, Zenon DEF SumTable
    <3> QED
      BY <3>2
  <2>2. h = [s \in SUBSET S |-> IF s = {} THEN 0
                                ELSE w[Pick(s)] + h[s \ {Pick(s)}]]
    BY <2>1, Zenon
  <2> QED
    BY <2>2 DEF SumTable
<1> QED
  BY <1>1, <1>2

LEMMA SumOfEmpty == \A w : SumFunctionOnSet(w, {}) = 0
<1> TAKE w
<1>1. IsFiniteSet({})
  BY FS_EmptySet
<1>2. PICK h : SumTable(w, {}, h) /\ SumFunctionOnSet(w, {}) = h[{}]
  BY <1>1, SumIsTop
<1> QED
  BY <1>2 DEF SumTable

LEMMA SumUnfold ==
    ASSUME NEW w, NEW S, IsFiniteSet(S), S # {}
    PROVE  SumFunctionOnSet(w, S)
              = w[Pick(S)] + SumFunctionOnSet(w, S \ {Pick(S)})
<1> DEFINE R == S \ {Pick(S)}
<1>1. PICK h : SumTable(w, S, h) /\ SumFunctionOnSet(w, S) = h[S]
  BY SumIsTop
<1>2. IsFiniteSet(R) /\ R \in SUBSET (S \cap R)
  BY FS_Subset
<1>3. PICK g : SumTable(w, R, g) /\ SumFunctionOnSet(w, R) = g[R]
  BY <1>2, SumIsTop
<1>4. h[R] = g[R]
  BY <1>1, <1>2, <1>3, SumTablesAgree
<1>5. h[S] = w[Pick(S)] + h[R]
  BY <1>1 DEF SumTable
<1> QED
  BY <1>1, <1>3, <1>4, <1>5

(* A sum of integers is an integer. *)
LEMMA SumInt ==
    ASSUME NEW w, NEW S, IsFiniteSet(S), \A x \in S : w[x] \in Int
    PROVE  SumFunctionOnSet(w, S) \in Int
<1> DEFINE Bad == {V \in SUBSET S : SumFunctionOnSet(w, V) \notin Int}
<1>1. SUFFICES ASSUME Bad # {} PROVE FALSE
  OBVIOUS
<1>2. PICK M \in Bad : \A V \in SUBSET M : V \in Bad => V = M
  <2>1. Bad \in SUBSET (SUBSET S)
    OBVIOUS
  <2> HIDE DEF Bad
  <2> QED
    BY <1>1, <2>1, SmallestMember
<1>3. M # {}
  BY SumOfEmpty
<1>4. IsFiniteSet(M)
  BY FS_Subset
<1>5. SumFunctionOnSet(w, M) = w[Pick(M)] + SumFunctionOnSet(w, M \ {Pick(M)})
  BY <1>3, <1>4, SumUnfold
<1>6. Pick(M) \in M /\ M \ {Pick(M)} # M
  BY <1>3, PickMember
<1>7. SumFunctionOnSet(w, M \ {Pick(M)}) \in Int
  BY <1>2, <1>6
<1> QED
  BY <1>5, <1>6, <1>7

(* Any member of the set can be taken out first. *)
LEMMA SumRemove ==
    ASSUME NEW w, NEW S, IsFiniteSet(S), \A x \in S : w[x] \in Int,
           NEW a \in S
    PROVE  SumFunctionOnSet(w, S) = w[a] + SumFunctionOnSet(w, S \ {a})
<1> DEFINE Bad == {V \in SUBSET S : \E x \in V :
                     SumFunctionOnSet(w, V) # w[x] + SumFunctionOnSet(w, V \ {x})}
<1>1. SUFFICES ASSUME Bad # {} PROVE FALSE
  OBVIOUS
<1>2. PICK M \in Bad : \A V \in SUBSET M : V \in Bad => V = M
  <2>1. Bad \in SUBSET (SUBSET S)
    OBVIOUS
  <2> HIDE DEF Bad
  <2> QED
    BY <1>1, <2>1, SmallestMember
<1>3. PICK x \in M : SumFunctionOnSet(w, M) # w[x] + SumFunctionOnSet(w, M \ {x})
  BY <1>2
<1>4. IsFiniteSet(M)
  BY FS_Subset
<1> DEFINE y == Pick(M)
<1>5. y \in M
  BY <1>3, PickMember
<1>6. SumFunctionOnSet(w, M) = w[y] + SumFunctionOnSet(w, M \ {y})
  BY <1>3, <1>4, SumUnfold
<1>7. x # y
  BY <1>3, <1>6
<1> HIDE DEF y
<1>8. SumFunctionOnSet(w, M \ {y}) = w[x] + SumFunctionOnSet(w, (M \ {y}) \ {x})
  <2>1. M \ {y} \in SUBSET M /\ M \ {y} # M /\ M \ {y} \in SUBSET S
    BY <1>5
  <2>2. M \ {y} \notin Bad
    BY <1>2, <2>1
  <2> QED
    BY <1>5, <1>7, <2>1, <2>2
<1>9. SumFunctionOnSet(w, M \ {x}) = w[y] + SumFunctionOnSet(w, (M \ {x}) \ {y})
  <2>1. M \ {x} \in SUBSET M /\ M \ {x} # M /\ M \ {x} \in SUBSET S
    BY <1>5
  <2>2. M \ {x} \notin Bad
    BY <1>2, <2>1
  <2> QED
    BY <1>5, <1>7, <2>1, <2>2
<1>10. (M \ {x}) \ {y} = (M \ {y}) \ {x}
  OBVIOUS
<1>11. SumFunctionOnSet(w, (M \ {y}) \ {x}) \in Int
  <2>1. IsFiniteSet((M \ {y}) \ {x})
    BY <1>4, FS_Subset
  <2> QED
    BY <2>1, SumInt
<1>12. w[x] \in Int /\ w[y] \in Int
  BY <1>5
<1> DEFINE s0 == SumFunctionOnSet(w, (M \ {y}) \ {x})
<1>13. SumFunctionOnSet(w, M) = w[y] + (w[x] + s0) /\ SumFunctionOnSet(w, M \ {x}) = w[y] + s0
  BY <1>6, <1>8, <1>9, <1>10
<1>14. s0 \in Int
  BY <1>11
<1> HIDE DEF s0
<1> QED
  BY <1>3, <1>12, <1>13, <1>14
(* Sums over disjoint sets add up. *)
LEMMA SumUnion ==
    ASSUME NEW w, NEW S, NEW T, IsFiniteSet(S), IsFiniteSet(T), S \cap T = {},
           \A x \in S \cup T : w[x] \in Int
    PROVE  SumFunctionOnSet(w, S \cup T)
              = SumFunctionOnSet(w, S) + SumFunctionOnSet(w, T)
<1> DEFINE Bad == {V \in SUBSET T : SumFunctionOnSet(w, S \cup V)
                      # SumFunctionOnSet(w, S) + SumFunctionOnSet(w, V)}
<1>1. SUFFICES ASSUME Bad # {} PROVE FALSE
  OBVIOUS
<1>2. PICK M \in Bad : \A V \in SUBSET M : V \in Bad => V = M
  <2>1. Bad \in SUBSET (SUBSET T)
    OBVIOUS
  <2> HIDE DEF Bad
  <2> QED
    BY <1>1, <2>1, SmallestMember
<1>3. SumFunctionOnSet(w, S) \in Int
  BY SumInt
<1>4. M # {}
  <2>1. S \cup {} = S
    OBVIOUS
  <2>2. {} \notin Bad
    BY <1>3, <2>1, SumOfEmpty
  <2> QED
    BY <2>2
<1>5. PICK y : y \in M
  BY <1>4
<1> DEFINE R == M \ {y}
<1>6. R \in SUBSET T /\ R \in SUBSET M /\ R # M /\ y \in T /\ y \notin S
  BY <1>5
<1>7. IsFiniteSet(M) /\ IsFiniteSet(R) /\ IsFiniteSet(S \cup M)
  BY <1>6, FS_Subset, FS_Union
<1>8. SumFunctionOnSet(w, M) = w[y] + SumFunctionOnSet(w, R)
  BY <1>5, <1>7, SumRemove
<1>9. SumFunctionOnSet(w, S \cup M) = w[y] + SumFunctionOnSet(w, S \cup R)
  <2>1. (S \cup M) \ {y} = S \cup R
    BY <1>6
  <2>2. SumFunctionOnSet(w, S \cup M) = w[y] + SumFunctionOnSet(w, (S \cup M) \ {y})
    BY <1>5, <1>7, SumRemove
  <2> QED
    BY <2>1, <2>2
<1>10. SumFunctionOnSet(w, S \cup R) = SumFunctionOnSet(w, S) + SumFunctionOnSet(w, R)
  BY <1>2, <1>6
<1>11. SumFunctionOnSet(w, R) \in Int /\ w[y] \in Int
  BY <1>6, <1>7, SumInt
<1>12. SumFunctionOnSet(w, S \cup M) # SumFunctionOnSet(w, S) + SumFunctionOnSet(w, M)
  OBVIOUS
<1> QED
  BY <1>3, <1>8, <1>9, <1>10, <1>11, <1>12

(* Equal summands, through a bijection of the index sets, give equal sums: *)
(* b carries S onto T.                                                     *)
LEMMA SumReindex ==
    ASSUME NEW w, NEW v, NEW S, NEW T, NEW b, IsFiniteSet(S),
           \A x \in S : w[x] \in Int /\ b[x] \in T /\ v[b[x]] = w[x],
           \A x, y \in S : b[x] = b[y] => x = y,
           \A t \in T : \E x \in S : t = b[x]
    PROVE  SumFunctionOnSet(v, T) = SumFunctionOnSet(w, S)
<1> DEFINE Im(V) == {b[x] : x \in V}
           Bad == {V \in SUBSET S : SumFunctionOnSet(v, Im(V)) # SumFunctionOnSet(w, V)}
<1>1. T = Im(S)
  OBVIOUS
<1>2. SUFFICES ASSUME Bad # {} PROVE FALSE
  BY <1>1
<1>3. PICK M \in Bad : \A V \in SUBSET M : V \in Bad => V = M
  <2>1. Bad \in SUBSET (SUBSET S)
    OBVIOUS
  <2> HIDE DEF Bad
  <2> QED
    BY <1>2, <2>1, SmallestMember
<1>4. M # {}
  <2>1. Im({}) = {}
    OBVIOUS
  <2>2. {} \notin Bad
    BY <2>1, SumOfEmpty
  <2> QED
    BY <2>2
<1>5. PICK y : y \in M
  BY <1>4
<1> DEFINE R == M \ {y}
<1>6. R \in SUBSET S /\ R \in SUBSET M /\ R # M /\ y \in S
  BY <1>5
<1>7. IsFiniteSet(M)
  BY FS_Subset
<1>8. IsFiniteSet(Im(M))
  <2> DEFINE c == [x \in M |-> b[x]]
  <2>1. c \in Surjection(M, Im(M))
    BY DEF Surjection
  <2> HIDE DEF c, Im
  <2> QED
    BY <1>7, <2>1, FS_Surjection
<1>9. Im(M) \ {b[y]} = Im(R)
  BY <1>5
<1>10. SumFunctionOnSet(w, M) = w[y] + SumFunctionOnSet(w, R)
  BY <1>5, <1>7, SumRemove
<1>11. \A t \in Im(M) : v[t] \in Int
  OBVIOUS
<1>12. SumFunctionOnSet(v, Im(M)) = v[b[y]] + SumFunctionOnSet(v, Im(M) \ {b[y]})
  <2>1. b[y] \in Im(M)
    BY <1>5
  <2> HIDE DEF Im
  <2> QED
    BY <1>8, <1>11, <2>1, SumRemove
<1>13. SumFunctionOnSet(v, Im(R)) = SumFunctionOnSet(w, R)
  BY <1>3, <1>6
<1>14. v[b[y]] = w[y]
  BY <1>6
<1> QED
  BY <1>9, <1>10, <1>12, <1>13, <1>14

(* Adding up two charges per element is adding up each of them. *)
LEMMA SumPointwise ==
    ASSUME NEW u, NEW w, NEW v, NEW S, IsFiniteSet(S),
           \A x \in S : w[x] \in Int /\ v[x] \in Int /\ u[x] = w[x] + v[x]
    PROVE  SumFunctionOnSet(u, S)
              = SumFunctionOnSet(w, S) + SumFunctionOnSet(v, S)
<1> DEFINE Bad == {V \in SUBSET S : SumFunctionOnSet(u, V)
                      # SumFunctionOnSet(w, V) + SumFunctionOnSet(v, V)}
<1>1. SUFFICES ASSUME Bad # {} PROVE FALSE
  OBVIOUS
<1>2. PICK M \in Bad : \A V \in SUBSET M : V \in Bad => V = M
  <2>1. Bad \in SUBSET (SUBSET S)
    OBVIOUS
  <2> HIDE DEF Bad
  <2> QED
    BY <1>1, <2>1, SmallestMember
<1>3. M # {}
  <2>1. 0 = 0 + 0
    OBVIOUS
  <2>2. {} \notin Bad
    BY <2>1, SumOfEmpty
  <2> QED
    BY <2>2
<1>4. PICK y : y \in M
  BY <1>3
<1> DEFINE R == M \ {y}
<1>5. R \in SUBSET S /\ R \in SUBSET M /\ R # M /\ y \in S
  BY <1>4
<1>6. IsFiniteSet(M) /\ IsFiniteSet(R)
  BY <1>5, FS_Subset
<1>7. /\ w[y] \in Int /\ v[y] \in Int /\ u[y] = w[y] + v[y]
      /\ \A x \in M : w[x] \in Int /\ v[x] \in Int /\ u[x] \in Int
  BY <1>5
<1>8. /\ SumFunctionOnSet(u, M) = u[y] + SumFunctionOnSet(u, R)
      /\ SumFunctionOnSet(w, M) = w[y] + SumFunctionOnSet(w, R)
      /\ SumFunctionOnSet(v, M) = v[y] + SumFunctionOnSet(v, R)
  BY <1>4, <1>6, <1>7, SumRemove
<1>9. SumFunctionOnSet(u, R) = SumFunctionOnSet(w, R) + SumFunctionOnSet(v, R)
  BY <1>2, <1>5
<1>10. SumFunctionOnSet(w, R) \in Int /\ SumFunctionOnSet(v, R) \in Int
  BY <1>5, <1>6, <1>7, SumInt
<1>11. SumFunctionOnSet(u, M) # SumFunctionOnSet(w, M) + SumFunctionOnSet(v, M)
  OBVIOUS
<1> HIDE DEF R, Bad
<1> QED
  BY <1>7, <1>8, <1>9, <1>10, <1>11

(* Summands that are equal on the set give equal sums. *)
LEMMA SumCongruent ==
    ASSUME NEW w, NEW v, NEW S, IsFiniteSet(S),
           \A x \in S : w[x] \in Int /\ v[x] = w[x]
    PROVE  SumFunctionOnSet(v, S) = SumFunctionOnSet(w, S)
<1> DEFINE b == [x \in S |-> x]
<1>1. /\ \A x \in S : w[x] \in Int /\ b[x] \in S /\ v[b[x]] = w[x]
      /\ \A x, y \in S : b[x] = b[y] => x = y
      /\ \A t \in S : \E x \in S : t = b[x]
  OBVIOUS
<1> HIDE DEF b
<1> QED
  BY <1>1, SumReindex

LEMMA SumOfZeros ==
    ASSUME NEW w, NEW S, IsFiniteSet(S), \A x \in S : w[x] = 0
    PROVE  SumFunctionOnSet(w, S) = 0
<1>1. SumFunctionOnSet(w, S) = SumFunctionOnSet(w, S) + SumFunctionOnSet(w, S)
  BY SumPointwise
<1>2. SumFunctionOnSet(w, S) \in Int
  BY SumInt
<1>3. \A s \in Int : s = s + s => s = 0
  OBVIOUS
<1> QED
  BY <1>1, <1>2, <1>3

(* Larger summands give a larger sum. *)
LEMMA SumMonotonic ==
    ASSUME NEW w, NEW v, NEW S, IsFiniteSet(S),
           \A x \in S : w[x] \in Int /\ v[x] \in Int /\ w[x] <= v[x]
    PROVE  SumFunctionOnSet(w, S) <= SumFunctionOnSet(v, S)
<1> DEFINE Bad == {V \in SUBSET S :
                     ~ SumFunctionOnSet(w, V) <= SumFunctionOnSet(v, V)}
<1>1. SUFFICES ASSUME Bad # {} PROVE FALSE
  OBVIOUS
<1>2. PICK M \in Bad : \A V \in SUBSET M : V \in Bad => V = M
  <2>1. Bad \in SUBSET (SUBSET S)
    OBVIOUS
  <2> HIDE DEF Bad
  <2> QED
    BY <1>1, <2>1, SmallestMember
<1>3. M # {}
  BY SumOfEmpty
<1>4. PICK y : y \in M
  BY <1>3
<1> DEFINE R == M \ {y}
<1>5. R \in SUBSET S /\ R \in SUBSET M /\ R # M /\ y \in S
  BY <1>4
<1>6. IsFiniteSet(M) /\ IsFiniteSet(R)
  BY <1>5, FS_Subset
<1>7. \A x \in M : w[x] \in Int /\ v[x] \in Int
  OBVIOUS
<1>8. /\ SumFunctionOnSet(w, M) = w[y] + SumFunctionOnSet(w, R)
      /\ SumFunctionOnSet(v, M) = v[y] + SumFunctionOnSet(v, R)
  BY <1>4, <1>6, <1>7, SumRemove
<1>9. SumFunctionOnSet(w, R) <= SumFunctionOnSet(v, R)
  BY <1>2, <1>5
<1>10. SumFunctionOnSet(w, R) \in Int /\ SumFunctionOnSet(v, R) \in Int
  BY <1>5, <1>6, <1>7, SumInt
<1>11. ~ SumFunctionOnSet(w, M) <= SumFunctionOnSet(v, M)
  OBVIOUS
<1>12. w[y] \in Int /\ v[y] \in Int /\ w[y] <= v[y]
  BY <1>5
<1> HIDE DEF R, Bad
<1> QED
  BY <1>8, <1>9, <1>10, <1>11, <1>12

(* Charges that are not negative do not add up to less than nothing. *)
LEMMA SumNat ==
    ASSUME NEW w, NEW S, IsFiniteSet(S), \A x \in S : w[x] \in Nat
    PROVE  SumFunctionOnSet(w, S) \in Nat
<1> DEFINE z == [x \in S |-> 0]
<1>1. \A x \in S : z[x] = 0 /\ z[x] \in Int /\ w[x] \in Int /\ z[x] <= w[x]
  OBVIOUS
<1> HIDE DEF z
<1>2. SumFunctionOnSet(z, S) = 0
  BY <1>1, SumOfZeros
<1>3. SumFunctionOnSet(z, S) <= SumFunctionOnSet(w, S)
  BY <1>1, SumMonotonic
<1>4. SumFunctionOnSet(w, S) \in Int
  BY <1>1, SumInt
<1> QED
  BY <1>2, <1>3, <1>4

(* Fewer elements do not add up to more. *)
LEMMA SumOfSubset ==
    ASSUME NEW w, NEW S, IsFiniteSet(S), NEW T \in SUBSET S,
           \A x \in S : w[x] \in Nat
    PROVE  SumFunctionOnSet(w, T) <= SumFunctionOnSet(w, S)
<1> DEFINE R == S \ T
<1>1. IsFiniteSet(T) /\ IsFiniteSet(R)
  BY FS_Subset
<1>2. T \cap R = {} /\ T \cup R = S /\ \A x \in T \cup R : w[x] \in Nat
  OBVIOUS
<1> HIDE DEF R
<1>3. SumFunctionOnSet(w, S) = SumFunctionOnSet(w, T) + SumFunctionOnSet(w, R)
  <2>1. \A x \in T \cup R : w[x] \in Int
    BY <1>2
  <2> QED
    BY <1>1, <1>2, <2>1, SumUnion
<1>4. SumFunctionOnSet(w, T) \in Nat /\ SumFunctionOnSet(w, R) \in Nat
  BY <1>1, <1>2, SumNat
<1> QED
  BY <1>3, <1>4

(* A common factor comes out of a sum. *)
LEMMA SumScaled ==
    ASSUME NEW u, NEW w, NEW c \in Int, NEW S, IsFiniteSet(S),
           \A x \in S : w[x] \in Int /\ u[x] = c * w[x]
    PROVE  SumFunctionOnSet(u, S) = c * SumFunctionOnSet(w, S)
<1> DEFINE Bad == {V \in SUBSET S :
                     SumFunctionOnSet(u, V) # c * SumFunctionOnSet(w, V)}
<1>1. SUFFICES ASSUME Bad # {} PROVE FALSE
  OBVIOUS
<1>2. PICK M \in Bad : \A V \in SUBSET M : V \in Bad => V = M
  <2>1. Bad \in SUBSET (SUBSET S)
    OBVIOUS
  <2> HIDE DEF Bad
  <2> QED
    BY <1>1, <2>1, SmallestMember
<1>3. M # {}
  <2>1. c * 0 = 0
    OBVIOUS
  <2>2. {} \notin Bad
    BY <2>1, SumOfEmpty
  <2> QED
    BY <2>2
<1>4. PICK y : y \in M
  BY <1>3
<1> DEFINE R == M \ {y}
<1>5. R \in SUBSET S /\ R \in SUBSET M /\ R # M /\ y \in S
  BY <1>4
<1>6. IsFiniteSet(M) /\ IsFiniteSet(R)
  BY <1>5, FS_Subset
<1>7. \A x, z \in Int : x * z \in Int
  OBVIOUS
<1>8. /\ w[y] \in Int /\ u[y] = c * w[y]
      /\ \A x \in M : w[x] \in Int /\ u[x] \in Int
  BY <1>5, <1>7
<1>9. /\ SumFunctionOnSet(u, M) = u[y] + SumFunctionOnSet(u, R)
      /\ SumFunctionOnSet(w, M) = w[y] + SumFunctionOnSet(w, R)
  BY <1>4, <1>6, <1>8, SumRemove
<1>10. SumFunctionOnSet(u, R) = c * SumFunctionOnSet(w, R)
  BY <1>2, <1>5
<1>11. SumFunctionOnSet(w, R) \in Int
  BY <1>5, <1>6, <1>8, SumInt
<1>12. SumFunctionOnSet(u, M) # c * SumFunctionOnSet(w, M)
  OBVIOUS
<1>13. \A x, z \in Int : c * (x + z) = c * x + c * z
  OBVIOUS
<1> HIDE DEF R, Bad
<1> QED
  BY <1>8, <1>9, <1>10, <1>11, <1>12, <1>13
-----------------------------------------------------------------------------
(* Extremes *)

(* A finite set of numbers has a largest one. *)
LEMMA MaxExists ==
    ASSUME NEW S, IsFiniteSet(S), S # {}, \A x \in S : x \in Int
    PROVE  Max(S) \in S /\ \A y \in S : Max(S) >= y
<1> DEFINE Above(x) == {y \in S : y >= x}
           F == {Above(x) : x \in S}
<1>2. PICK M \in F : \A U \in SUBSET M : U \in F => U = M
  <2>1. F \in SUBSET (SUBSET S)
    OBVIOUS
  <2>2. F # {}
    OBVIOUS
  <2> HIDE DEF F, Above
  <2> QED
    BY <2>1, <2>2, SmallestMember
<1>3. PICK x \in S : M = Above(x)
  OBVIOUS
<1>4. ASSUME NEW y \in S, ~ x >= y
      PROVE  FALSE
  <2>1. y > x
    BY <1>4
  <2>2. Above(y) \in SUBSET M
    <3>1. \A z \in S : z >= y => z >= x
      BY <2>1
    <3> QED
      BY <1>3, <3>1
  <2>3. x \in Above(x) /\ x \notin Above(y)
    BY <2>1
  <2>4. Above(y) \in F
    OBVIOUS
  <2> QED
    BY <1>2, <1>3, <2>2, <2>3, <2>4
<1>5. \E z \in S : \A y \in S : z >= y
  BY <1>4
<1> QED
  BY <1>5 DEF Max

(* A nonempty finite set has a member whose weight is least. *)
LEMMA LightestMember ==
    ASSUME NEW S, IsFiniteSet(S), S # {}, NEW w, \A x \in S : w[x] \in Int
    PROVE  \E x \in S : \A y \in S : w[x] <= w[y]
<1> DEFINE Below(x) == {y \in S : w[y] <= w[x]}
           F == {Below(x) : x \in S}
<1>1. PICK M \in F : \A U \in SUBSET M : U \in F => U = M
  <2>1. F \in SUBSET (SUBSET S)
    OBVIOUS
  <2>2. F # {}
    OBVIOUS
  <2> HIDE DEF F, Below
  <2> QED
    BY <2>1, <2>2, SmallestMember
<1>2. PICK x \in S : M = Below(x)
  OBVIOUS
<1>3. ASSUME NEW y \in S, ~ w[x] <= w[y]
      PROVE  FALSE
  <2>1. Below(y) \in SUBSET M
    BY <1>2, <1>3
  <2>2. x \in Below(x) /\ x \notin Below(y)
    BY <1>3
  <2>3. Below(y) \in F
    OBVIOUS
  <2> QED
    BY <1>1, <1>2, <2>1, <2>2, <2>3
<1> QED
  BY <1>3

(* The first index of a nonempty set of them. *)
LEMMA MinExists ==
    ASSUME NEW S, IsFiniteSet(S), S # {}, \A x \in S : x \in Int
    PROVE  Min(S) \in S /\ \A y \in S : Min(S) <= y
<1> DEFINE w == [x \in S |-> x]
<1>1. \E x \in S : \A y \in S : w[x] <= w[y]
  <2>1. \A x \in S : w[x] \in Int
    OBVIOUS
  <2> HIDE DEF w
  <2> QED
    BY <2>1, LightestMember
<1>2. \E x \in S : \A y \in S : x <= y
  BY <1>1
<1> QED
  BY <1>2 DEF Min

LEMMA LeastNumber ==
    ASSUME NEW S \in SUBSET Nat, S # {}
    PROVE  \E m \in S : \A k \in S : m <= k
<1>1. PICK x \in S : x \in Nat
  OBVIOUS
<1> DEFINE T == {k \in S : k <= x}
<1>6. \A k \in S : k \in Nat
  OBVIOUS
<1>2. IsFiniteSet(T)
  <2>1. IsFiniteSet(0..x)
    BY <1>1, FS_Interval
  <2>2. \A k \in T : k \in 0..x
    <3> SUFFICES ASSUME NEW k \in T PROVE k \in 0..x
      OBVIOUS
    <3>1. k \in Nat /\ k <= x
      BY <1>6
    <3> QED
      BY <1>1, <3>1
  <2> QED
    BY <2>1, <2>2, FS_Subset
<1>3. T # {} /\ \A k \in T : k \in Int
  BY <1>1
<1>4. Min(T) \in T /\ \A y \in T : Min(T) <= y
  <2> HIDE DEF T
  <2> QED
    BY <1>2, <1>3, MinExists
<1>7. Min(T) \in Nat
  BY <1>4, <1>6
<1>5. ASSUME NEW k \in S PROVE Min(T) <= k
  <2>1. CASE k <= x
    BY <1>4, <2>1
  <2>2. CASE ~ k <= x
    <3>1. Min(T) <= x
      BY <1>4
    <3> HIDE DEF T
    <3> QED
      BY <1>1, <1>6, <1>7, <2>2, <3>1
  <2> QED
    BY <2>1, <2>2
<1> QED
  BY <1>4, <1>5

-----------------------------------------------------------------------------
(* Sequences of the members of a set *)

LEMMA SeqsOfSet ==
    ASSUME NEW S, IsFiniteSet(S), NEW s \in SetToSeqs(S)
    PROVE  /\ s \in Seq(S)
           /\ \A i, j \in 1..Len(s) : s[i] = s[j] => i = j
           /\ \A x \in S : \E i \in 1..Len(s) : s[i] = x
<1> DEFINE n == Cardinality(S)
           D == 1..n
<1>1. n \in Nat
  BY FS_CardinalityType
<1>2. s \in [D -> S] /\ \A i, j \in D : i # j => s[i] # s[j]
  BY DEF SetToSeqs
<1>3. s \in Seq(S) /\ Len(s) = n
  <2>1. s \in Seq(S)
    BY <1>1, <1>2, SeqDef
  <2> QED
    BY <1>1, <1>2, <2>1, LenProperties
<1>4. Cardinality(D) = n /\ IsFiniteSet(D)
  BY <1>1, FS_Interval
<1>5. s \in Injection(D, S)
  BY <1>2 DEF Injection, IsInjective
<1>6. s \in Surjection(D, S)
  <2> HIDE DEF D
  <2> QED
    BY <1>4, <1>5, FS_Injection
<1>7. \A x \in S : \E i \in D : s[i] = x
  BY <1>6 DEF Surjection
<1> QED
  BY <1>2, <1>3, <1>7

-----------------------------------------------------------------------------
(* Groups and merges *)

(* The slot of groups that slot i of MergeGroups(groups, p, k) continues. *)
OldSlot(groups, k, i) == IF i = k THEN Len(groups) ELSE i

-----------------------------------------------------------------------------
LEMMA RemoveIndexShape ==
    ASSUME NEW S, NEW s \in Seq(S), NEW k \in 1..Len(s)
    PROVE  /\ RemoveIndex(s, k) \in Seq(S)
           /\ Len(RemoveIndex(s, k)) = Len(s) - 1
           /\ \A i \in 1..(Len(s) - 1) :
                 RemoveIndex(s, k)[i] = s[OldSlot(s, k, i)]
<1> DEFINE n == Len(s)
           e(i) == IF i = k THEN s[n] ELSE s[i]
           R == [i \in 1..(n - 1) |-> e(i)]
<1>1. n \in Nat /\ n >= 1 /\ s \in [1..n -> S]
  BY LenProperties
<1>2. R = RemoveIndex(s, k)
  BY DEF RemoveIndex
<1>3. \A i \in 1..(n - 1) : e(i) \in S
  BY <1>1
<1> HIDE DEF e
<1>4. R \in [1..(n - 1) -> S]
  BY <1>3
<1>5. n - 1 \in Nat
  BY <1>1
<1>6. R \in Seq(S)
  BY <1>4, <1>5, SeqDef
<1>7. Len(R) = n - 1
  BY <1>4, <1>5, <1>6, LenProperties
<1>8. \A i \in 1..(n - 1) : R[i] = s[OldSlot(s, k, i)]
  BY <1>1 DEF OldSlot, e
<1> HIDE DEF R
<1> QED
  BY <1>2, <1>6, <1>7, <1>8

(* Every slot but k survives, exactly once, and only p changes: what the   *)
(* swap with the last element in RemoveIndex (types.go:618) has to get     *)
(* right.                                                                  *)
MergeShape(groups, p, k, M) ==
    /\ M \in Seq(SUBSET Fn)
    /\ Len(M) = Len(groups) - 1
    /\ \A i \in 1..Len(M) :
          /\ OldSlot(groups, k, i) \in 1..Len(groups)
          /\ OldSlot(groups, k, i) # k
          /\ M[i] = IF OldSlot(groups, k, i) = p THEN groups[p] \cup groups[k]
                    ELSE groups[OldSlot(groups, k, i)]
    /\ \A i1, i2 \in 1..Len(M) :
          OldSlot(groups, k, i1) = OldSlot(groups, k, i2) => i1 = i2
    /\ \A j \in 1..Len(groups) :
          j # k => \E i \in 1..Len(M) : OldSlot(groups, k, i) = j

LEMMA MergeGroupsShape ==
    ASSUME NEW groups \in Seq(SUBSET Fn),
           NEW p \in 1..Len(groups), NEW k \in 1..Len(groups), p # k
    PROVE  MergeShape(groups, p, k, MergeGroups(groups, p, k))
<1> DEFINE n == Len(groups)
           E == [groups EXCEPT ![p] = groups[p] \cup groups[k]]
           M == MergeGroups(groups, p, k)
<1>0. groups \in [1..n -> SUBSET Fn]
  BY LenProperties
<1>1. n \in Nat
  BY LenProperties
<1>2. E \in [1..n -> SUBSET Fn]
  BY <1>0
<1>3. E \in Seq(SUBSET Fn)
  BY <1>1, <1>2, SeqDef
<1>4. Len(E) = n
  <2> HIDE DEF E
  <2>1. DOMAIN E = 1..n
    BY <1>2
  <2> QED
    BY <1>1, <1>3, <2>1, LenProperties
<1>5. \A j \in 1..n : E[j] = IF j = p THEN groups[p] \cup groups[k] ELSE groups[j]
  BY <1>0
<1>6. M = RemoveIndex(E, k)
  BY DEF MergeGroups
<1> HIDE DEF E, M
<1>7. k \in 1..Len(E)
  BY <1>4
<1>8. /\ M \in Seq(SUBSET Fn)
      /\ Len(M) = n - 1
      /\ \A i \in 1..(n - 1) : M[i] = E[OldSlot(E, k, i)]
  BY <1>3, <1>4, <1>6, <1>7, RemoveIndexShape
<1>9. \A i \in 1..(n - 1) : /\ OldSlot(groups, k, i) = OldSlot(E, k, i)
                            /\ OldSlot(groups, k, i) \in 1..n
                            /\ OldSlot(groups, k, i) # k
  BY <1>1, <1>4 DEF OldSlot
<1>10. \A i1, i2 \in 1..(n - 1) :
         OldSlot(groups, k, i1) = OldSlot(groups, k, i2) => i1 = i2
  BY <1>1 DEF OldSlot
<1>11. ASSUME NEW j \in 1..n, j # k
       PROVE  \E i \in 1..(n - 1) : OldSlot(groups, k, i) = j
  <2>1. CASE j = n
    <3>1. k \in 1..(n - 1)
      BY <2>1, <1>1, <1>11
    <3> QED
      BY <2>1, <3>1 DEF OldSlot
  <2>2. CASE j # n
    <3>1. j \in 1..(n - 1)
      BY <2>2, <1>1
    <3> QED
      BY <3>1, <1>11 DEF OldSlot
  <2> QED
    BY <2>1, <2>2
<1>12. \A i \in 1..(n - 1) :
         M[i] = IF OldSlot(groups, k, i) = p THEN groups[p] \cup groups[k]
                ELSE groups[OldSlot(groups, k, i)]
  BY <1>5, <1>8, <1>9
<1> QED
  BY <1>8, <1>9, <1>10, <1>11, <1>12 DEF M, MergeShape

(* Every algorithm starts from a partition: one group per function. *)
LEMMA SingletonsPartition ==
    ASSUME NEW a, Application(a)
    PROVE  /\ Singletons(a) \in Seq(SUBSET Fn)
           /\ IsPartition(Singletons(a))
           /\ Len(Singletons(a)) = Len(a.functions)
           /\ \A i \in 1..Len(a.functions) :
                 Singletons(a)[i] = {a.functions[i]} /\ a.functions[i] \in Fn
<1> DEFINE n == Len(a.functions)
           e(i) == {a.functions[i]}
           s == [i \in 1..n |-> e(i)]
<1>1. a.functions \in Seq(Fn)
  BY DEF Application
<1>0. /\ \A f \in Fn : \E i \in 1..n : a.functions[i] = f
      /\ \A i, j \in 1..n : a.functions[i] = a.functions[j] => i = j
  BY DEF Application
<1>2. n \in Nat /\ \A i \in 1..n : a.functions[i] \in Fn
  BY <1>1, LenProperties, ElementOfSeq
<1>3. \A i \in 1..n : e(i) \in SUBSET Fn
  BY <1>2
<1>4. Singletons(a) = s
  BY DEF Singletons
<1>5. \A i \in 1..n : s[i] = {a.functions[i]}
  OBVIOUS
<1> HIDE DEF e
<1>6. s \in [1..n -> SUBSET Fn]
  BY <1>3
<1>7. s \in Seq(SUBSET Fn)
  BY <1>2, <1>6, SeqDef
<1> HIDE DEF s
<1>8. Len(s) = n
  BY <1>2, <1>6, <1>7, LenProperties
<1>9. IsPartition(s)
  <2>1. \A f \in Fn : Assigned(s, f)
    BY <1>0, <1>5, <1>8 DEF Assigned
  <2>2. \A i \in 1..Len(s) : s[i] # {}
    BY <1>5, <1>8
  <2>3. \A i, j \in 1..Len(s) : s[i] \cap s[j] # {} => i = j
    BY <1>0, <1>5, <1>8
  <2> QED
    BY <2>1, <2>2, <2>3 DEF IsPartition, PairwiseDisjoint
<1> QED
  BY <1>2, <1>4, <1>5, <1>7, <1>8, <1>9

(* A merge neither loses a function nor takes in another. *)
LEMMA MergeKeepsAssigned ==
    ASSUME NEW groups \in Seq(SUBSET Fn),
           NEW p \in 1..Len(groups), NEW k \in 1..Len(groups), p # k,
           NEW f
    PROVE  Assigned(MergeGroups(groups, p, k), f) <=> Assigned(groups, f)
<1> DEFINE M == MergeGroups(groups, p, k)
           Old(i) == OldSlot(groups, k, i)
<1>0. MergeShape(groups, p, k, M)
  BY MergeGroupsShape
<1> HIDE DEF M
<1>1. /\ \A i \in 1..Len(M) :
            /\ Old(i) \in 1..Len(groups)
            /\ M[i] = IF Old(i) = p THEN groups[p] \cup groups[k] ELSE groups[Old(i)]
      /\ \A j \in 1..Len(groups) : j # k => \E i \in 1..Len(M) : Old(i) = j
  BY <1>0 DEF MergeShape
<1> HIDE DEF Old
<1>2. ASSUME Assigned(groups, f) PROVE Assigned(M, f)
  <2>1. PICK j \in 1..Len(groups) : f \in groups[j]
    BY <1>2 DEF Assigned
  <2>2. PICK i \in 1..Len(M) : Old(i) = IF j = k THEN p ELSE j
    BY <1>1
  <2> QED
    BY <2>1, <2>2, <1>1 DEF Assigned
<1>3. ASSUME Assigned(M, f) PROVE Assigned(groups, f)
  <2>1. PICK i \in 1..Len(M) : f \in M[i]
    BY <1>3 DEF Assigned
  <2> QED
    BY <2>1, <1>1 DEF Assigned
<1> QED
  BY <1>2, <1>3 DEF M

(* A merge puts no function in two groups. *)
LEMMA MergeKeepsDisjoint ==
    ASSUME NEW groups \in Seq(SUBSET Fn), PairwiseDisjoint(groups),
           NEW p \in 1..Len(groups), NEW k \in 1..Len(groups), p # k
    PROVE  PairwiseDisjoint(MergeGroups(groups, p, k))
<1> DEFINE M == MergeGroups(groups, p, k)
           Old(i) == OldSlot(groups, k, i)
<1>0. MergeShape(groups, p, k, M)
  BY MergeGroupsShape
<1> HIDE DEF M
<1>1. /\ \A i \in 1..Len(M) :
            /\ Old(i) \in 1..Len(groups)
            /\ Old(i) # k
            /\ M[i] = IF Old(i) = p THEN groups[p] \cup groups[k] ELSE groups[Old(i)]
      /\ \A i1, i2 \in 1..Len(M) : Old(i1) = Old(i2) => i1 = i2
  BY <1>0 DEF MergeShape
<1> HIDE DEF Old
<1>2. ASSUME NEW i1 \in 1..Len(M), NEW i2 \in 1..Len(M), M[i1] \cap M[i2] # {}
      PROVE  i1 = i2
  <2>1. PICK f : f \in M[i1] /\ f \in M[i2]
    BY <1>2
  <2>2. PICK j1 \in 1..Len(groups), j2 \in 1..Len(groups) :
           /\ f \in groups[j1] /\ f \in groups[j2]
           /\ (j1 = Old(i1) \/ (j1 = k /\ Old(i1) = p))
           /\ (j2 = Old(i2) \/ (j2 = k /\ Old(i2) = p))
    BY <2>1, <1>1
  <2>3. j1 = j2
    BY <2>2 DEF PairwiseDisjoint
  <2>4. Old(i1) # k /\ Old(i2) # k
    BY <1>1
  <2>5. Old(i1) = Old(i2)
    BY <2>2, <2>3, <2>4
  <2> QED
    BY <2>5, <1>1
<1> QED
  BY <1>2 DEF PairwiseDisjoint, M

(* A merge of two groups of a partition leaves a partition. *)
LEMMA MergeKeepsPartition ==
    ASSUME NEW groups \in Seq(SUBSET Fn), IsPartition(groups),
           NEW p \in 1..Len(groups), NEW k \in 1..Len(groups), p # k
    PROVE  IsPartition(MergeGroups(groups, p, k))
<1> DEFINE M == MergeGroups(groups, p, k)
<1>1. \A f \in Fn : Assigned(M, f)
  BY MergeKeepsAssigned DEF IsPartition
<1>2. \A i \in 1..Len(M) : M[i] # {}
  <2>0. MergeShape(groups, p, k, M)
    BY MergeGroupsShape
  <2> HIDE DEF M
  <2> QED
    BY <2>0 DEF MergeShape, IsPartition
<1>3. PairwiseDisjoint(M)
  BY MergeKeepsDisjoint DEF IsPartition
<1> QED
  BY <1>1, <1>2, <1>3 DEF IsPartition

(* Merging never takes apart two functions that share a group. *)
LEMMA MergeKeepsTogether ==
    ASSUME NEW groups \in Seq(SUBSET Fn),
           NEW p \in 1..Len(groups), NEW k \in 1..Len(groups), p # k,
           NEW f, NEW g, Together(groups, f, g)
    PROVE  Together(MergeGroups(groups, p, k), f, g)
<1> DEFINE M == MergeGroups(groups, p, k)
           Old(i) == OldSlot(groups, k, i)
<1>0. MergeShape(groups, p, k, M)
  BY MergeGroupsShape
<1> HIDE DEF M
<1>1. /\ \A i \in 1..Len(M) :
            M[i] = IF Old(i) = p THEN groups[p] \cup groups[k] ELSE groups[Old(i)]
      /\ \A j \in 1..Len(groups) : j # k => \E i \in 1..Len(M) : Old(i) = j
  BY <1>0 DEF MergeShape
<1> HIDE DEF Old
<1>2. PICK j \in 1..Len(groups) : f \in groups[j] /\ g \in groups[j]
  BY DEF Together
<1>3. PICK i \in 1..Len(M) : Old(i) = IF j = k THEN p ELSE j
  BY <1>1
<1>4. f \in M[i] /\ g \in M[i]
  BY <1>1, <1>2, <1>3
<1> QED
  BY <1>4 DEF Together, M

(* The groups after a merge, as a set: the two old blocks out, their union *)
(* in.                                                                     *)
LEMMA MergeGroupsRange ==
    ASSUME NEW groups \in Seq(SUBSET Fn), IsPartition(groups),
           NEW p \in 1..Len(groups), NEW k \in 1..Len(groups), p # k
    PROVE  Range(MergeGroups(groups, p, k)) =
              (Range(groups) \ {groups[p], groups[k]}) \cup {groups[p] \cup groups[k]}
<1> DEFINE M == MergeGroups(groups, p, k)
           Old(i) == OldSlot(groups, k, i)
<1>0. MergeShape(groups, p, k, M)
  BY MergeGroupsShape
<1> HIDE DEF M
<1>1. /\ M \in Seq(SUBSET Fn)
      /\ \A i \in 1..Len(M) :
            /\ Old(i) \in 1..Len(groups)
            /\ Old(i) # k
            /\ M[i] = IF Old(i) = p THEN groups[p] \cup groups[k] ELSE groups[Old(i)]
      /\ \A j \in 1..Len(groups) : j # k => \E i \in 1..Len(M) : Old(i) = j
  BY <1>0 DEF MergeShape
<1>2. DOMAIN M = 1..Len(M) /\ DOMAIN groups = 1..Len(groups)
  BY <1>1, LenProperties
<1>3. \A i, j \in 1..Len(groups) : groups[i] = groups[j] => i = j
  BY DEF IsPartition, PairwiseDisjoint
<1> HIDE DEF Old
<1>4. ASSUME NEW B \in Range(M)
      PROVE  B \in (Range(groups) \ {groups[p], groups[k]}) \cup {groups[p] \cup groups[k]}
  <2>1. PICK i \in 1..Len(M) : B = M[i]
    BY <1>2 DEF Range
  <2> QED
    BY <2>1, <1>1, <1>2, <1>3 DEF Range
<1>5. ASSUME NEW B \in (Range(groups) \ {groups[p], groups[k]}) \cup {groups[p] \cup groups[k]}
      PROVE  B \in Range(M)
  <2>1. CASE B = groups[p] \cup groups[k]
    <3>1. PICK i \in 1..Len(M) : Old(i) = p
      BY <1>1
    <3> QED
      BY <2>1, <3>1, <1>1, <1>2 DEF Range
  <2>2. CASE B \in Range(groups) \ {groups[p], groups[k]}
    <3>1. PICK j \in 1..Len(groups) : B = groups[j] /\ j # p /\ j # k
      BY <2>2, <1>2 DEF Range
    <3>2. PICK i \in 1..Len(M) : Old(i) = j
      BY <1>1, <3>1
    <3> QED
      BY <3>1, <3>2, <1>1, <1>2 DEF Range
  <2> QED
    BY <1>5, <2>1, <2>2
<1> QED
  BY <1>4, <1>5 DEF M
-----------------------------------------------------------------------------
(* Types of the charges *)

(* The memory a group is provisioned with is that of its heaviest member.  *)
LEMMA GroupMemoryIsMax ==
    ASSUME NEW a, Application(a), NEW G \in SUBSET Fn
    PROVE  /\ GroupMemory(a, G) \in Nat
           /\ \A f \in G : a.mem[f] <= GroupMemory(a, G)
           /\ \/ GroupMemory(a, G) = 0
              \/ \E f \in G : GroupMemory(a, G) = a.mem[f]
<1> DEFINE S == {0} \cup {a.mem[f] : f \in G}
<1>1. a.mem \in [Fn -> Nat]
  BY DEF Application
<1>2. S \in SUBSET Int /\ S # {} /\ S \subseteq Nat
  BY <1>1
<1>3. IsFiniteSet(S)
  <2> DEFINE T == {a.mem[f] : f \in G}
             c == [f \in G |-> a.mem[f]]
  <2>1. c \in Surjection(G, T)
    BY DEF Surjection
  <2>2. IsFiniteSet(G)
    BY FnAssumption, FS_Subset
  <2> HIDE DEF T, c
  <2>3. IsFiniteSet(T)
    BY <2>1, <2>2, FS_Surjection
  <2>4. IsFiniteSet({0})
    BY FS_Singleton
  <2>5. IsFiniteSet({0} \cup T)
    BY <2>3, <2>4, FS_Union
  <2> QED
    BY <2>5 DEF T
<1>4. GroupMemory(a, G) = Max(S)
  BY DEF GroupMemory
<1> HIDE DEF S
<1>5. Max(S) \in S /\ \A y \in S : Max(S) >= y
  BY <1>2, <1>3, MaxExists
<1>6. \A f \in G : a.mem[f] \in S /\ a.mem[f] \in Nat
  BY <1>1 DEF S
<1>7. Max(S) \in Nat
  BY <1>2, <1>5
<1>8. \A f \in G : a.mem[f] <= Max(S)
  BY <1>5, <1>6, <1>7
<1>9. Max(S) = 0 \/ \E f \in G : Max(S) = a.mem[f]
  BY <1>5 DEF S
<1> QED
  BY <1>4, <1>7, <1>8, <1>9

(* Who fits alone fits the limit; if all do, every group does.             *)
LEMMA SingletonsFit ==
    ASSUME NEW a, Application(a), MemoryOK(a, Singletons(a)), NEW f \in Fn
    PROVE  a.mem[f] <= a.maxMem
<1>1. PICK i \in 1..Len(a.functions) : a.functions[i] = f
  BY DEF Application
<1>2. Singletons(a)[i] = {f} /\ i \in 1..Len(Singletons(a))
  BY <1>1, SingletonsPartition
<1>3. GroupMemory(a, {f}) <= a.maxMem
  BY <1>2 DEF MemoryOK
<1>4. GroupMemory(a, {f}) \in Nat /\ a.mem[f] <= GroupMemory(a, {f})
  BY GroupMemoryIsMax
<1>5. a.mem[f] \in Nat /\ a.maxMem \in Nat
  BY DEF Application
<1> QED
  BY <1>3, <1>4, <1>5

LEMMA FunctionsFitSoGroupsDo ==
    ASSUME NEW a, Application(a), \A f \in Fn : a.mem[f] <= a.maxMem,
           NEW gs \in Seq(SUBSET Fn)
    PROVE  MemoryOK(a, gs)
<1> SUFFICES ASSUME NEW i \in 1..Len(gs) PROVE GroupMemory(a, gs[i]) <= a.maxMem
  BY DEF MemoryOK
<1>1. gs[i] \in SUBSET Fn
  BY ElementOfSeq
<1>2. GroupMemory(a, gs[i]) = 0 \/ \E f \in gs[i] : GroupMemory(a, gs[i]) = a.mem[f]
  BY <1>1, GroupMemoryIsMax
<1>3. a.maxMem \in Nat
  BY DEF Application
<1> QED
  BY <1>1, <1>2, <1>3

LEMMA ChargeTypes ==
    ASSUME NEW a, Application(a)
    PROVE  /\ \A f \in Fn : RuntimeMs(a, f) \in Nat /\ Rate(a, f) \in Nat
           /\ \A f, g \in Fn : DataTransferCost(a, f, g) \in Nat
<1>1. /\ a.avgDuration \in [Fn -> Nat] /\ a.timeout \in [Fn -> Nat]
      /\ a.rate \in [Fn -> Nat] /\ a.bytes \in [a.edges -> Nat]
      /\ a.transferPrice \in Nat
  BY DEF Application
<1>2. \A f \in Fn : RuntimeMs(a, f) \in Nat /\ Rate(a, f) \in Nat
  BY <1>1 DEF RuntimeMs, Rate
<1>3. ASSUME NEW f \in Fn, NEW g \in Fn
      PROVE  DataTransferCost(a, f, g) \in Nat
  <2>1. CASE <<f, g>> \in a.edges
    <3>1. a.bytes[<<f, g>>] \in Nat
      BY <1>1, <2>1
    <3>2. \A x, y \in Nat : x * y \in Nat
      OBVIOUS
    <3> QED
      BY <1>1, <2>1, <3>1, <3>2 DEF DataTransferCost
  <2>2. CASE <<f, g>> \notin a.edges
    BY <2>2 DEF DataTransferCost
  <2> QED
    BY <2>1, <2>2
<1> QED
  BY <1>2, <1>3

LEMMA GroupChargeTypes ==
    ASSUME NEW a, Application(a), NEW G \in SUBSET Fn
    PROVE  /\ GroupExecutionCost(a, G) \in Int
           /\ RequestCost(a, G) \in Int
           /\ GroupCost(a, G) \in Int
<1>1. IsFiniteSet(G) /\ IsFiniteSet(Entries(a, G)) /\ Entries(a, G) \subseteq Fn
  BY FnAssumption, FS_Subset DEF Entries
<1>2. GroupRuntimeMs(a, G) \in Int
  <2> DEFINE w == [f \in Fn |-> RuntimeMs(a, f)]
  <2>1. \A f \in G : w[f] \in Int
    BY ChargeTypes
  <2> HIDE DEF w
  <2>2. SumFunctionOnSet(w, G) \in Int
    BY <1>1, <2>1, SumInt
  <2> QED
    BY <2>2 DEF GroupRuntimeMs, w
<1>3. BlockInvocationRate(a, G) \in Int
  <2> DEFINE w == [f \in Fn |-> Rate(a, f)]
  <2>1. \A f \in Entries(a, G) : w[f] \in Int
    BY <1>1, ChargeTypes
  <2> HIDE DEF w
  <2>2. SumFunctionOnSet(w, Entries(a, G)) \in Int
    BY <1>1, <2>1, SumInt
  <2> QED
    BY <2>2 DEF BlockInvocationRate, w
<1>4. GroupMemory(a, G) \in Int
  BY GroupMemoryIsMax
<1>5. \A x, y \in Int : x * y \in Int
  OBVIOUS
<1>6. ExecutionPrice * GroupMemory(a, G) \in Int
  BY <1>4, <1>5, PriceAssumption
<1>7. GroupExecutionCost(a, G) \in Int
  BY <1>2, <1>5, <1>6 DEF GroupExecutionCost
<1>8. RequestCost(a, G) \in Int
  BY <1>3, <1>5, PriceAssumption DEF RequestCost
<1> QED
  BY <1>7, <1>8 DEF GroupCost
-----------------------------------------------------------------------------
(* The exact effect of a merge on the total cost *)

GroupCharges(a, groups) == [i \in 1..Len(groups) |-> GroupCost(a, groups[i])]

Transfers(a) == [e \in Fn \X Fn |-> DataTransferCost(a, e[1], e[2])]

(* A price per group, added up over the groups: a merge takes the two      *)
(* groups' prices out and puts the united group's in.                      *)
Priced(c) == \A G \in SUBSET Fn : c[G] \in Int

Charges(c, groups) == [i \in 1..Len(groups) |-> c[groups[i]]]

LEMMA MergeCharges ==
    ASSUME NEW c, Priced(c),
           NEW groups \in Seq(SUBSET Fn),
           NEW p \in 1..Len(groups), NEW k \in 1..Len(groups), p # k
    PROVE  SumFunction(Charges(c, MergeGroups(groups, p, k)))
              = SumFunction(Charges(c, groups))
                - c[groups[p]] - c[groups[k]]
                + c[groups[p] \cup groups[k]]
<1> DEFINE n == Len(groups)
           M == MergeGroups(groups, p, k)
           w == Charges(c, groups)
           v == Charges(c, M)
           b == [i \in 1..Len(M) |-> OldSlot(groups, k, i)]
<1>0. MergeShape(groups, p, k, M)
  BY MergeGroupsShape
<1> HIDE DEF M
<1>1. /\ M \in Seq(SUBSET Fn)
      /\ Len(M) = n - 1
      /\ \A i \in 1..Len(M) :
            /\ b[i] \in 1..n
            /\ b[i] # k
            /\ M[i] = IF b[i] = p THEN groups[p] \cup groups[k] ELSE groups[b[i]]
      /\ \A i1, i2 \in 1..Len(M) : b[i1] = b[i2] => i1 = i2
      /\ \A j \in 1..n : j # k => \E i \in 1..Len(M) : b[i] = j
  BY <1>0 DEF MergeShape
<1> HIDE DEF b
<1>2. n \in Nat /\ Len(M) \in Nat
  BY <1>1, LenProperties
<1>3. IsFiniteSet(1..n) /\ IsFiniteSet(1..Len(M))
  <2>1. IsFiniteSet(1..n)
    BY <1>2, FS_Interval
  <2>2. IsFiniteSet(1..Len(M))
    BY <1>2, FS_Interval
  <2> QED
    BY <2>1, <2>2
<1>4. \A i \in 1..n : groups[i] \in SUBSET Fn
  BY ElementOfSeq
<1>5. \A i \in 1..Len(M) : M[i] \in SUBSET Fn
  BY <1>1, ElementOfSeq
<1>6. \A i \in 1..n : w[i] \in Int
  BY <1>4 DEF Charges, Priced
<1>7. \A i \in 1..Len(M) : v[i] \in Int
  BY <1>5 DEF Charges, Priced
<1>20. \A i \in 1..n : w[i] = c[groups[i]]
  BY DEF Charges
<1>21. \A i \in 1..Len(M) : v[i] = c[M[i]]
  BY DEF Charges
<1>8. /\ SumFunction(w) = SumFunctionOnSet(w, 1..n)
      /\ SumFunction(v) = SumFunctionOnSet(v, 1..Len(M))
  BY DEF SumFunction, Charges
<1> HIDE DEF w, v
<1>9. PICK i0 \in 1..Len(M) : b[i0] = p
  BY <1>1
<1> DEFINE S == (1..Len(M)) \ {i0}
           T == ((1..n) \ {p}) \ {k}
           rest == SumFunctionOnSet(w, T)
<1>10. SumFunctionOnSet(v, 1..Len(M)) = v[i0] + SumFunctionOnSet(v, S)
  <2> DEFINE N == 1..Len(M)
  <2>1. IsFiniteSet(N) /\ \A i \in N : v[i] \in Int
    BY <1>3, <1>7
  <2> HIDE DEF N
  <2>2. \A q \in N : SumFunctionOnSet(v, N) = v[q] + SumFunctionOnSet(v, N \ {q})
    BY <2>1, SumRemove
  <2> QED
    BY <1>9, <2>2 DEF N
<1>11. SumFunctionOnSet(w, 1..n) = w[p] + SumFunctionOnSet(w, (1..n) \ {p})
  <2> DEFINE N == 1..n
  <2>1. IsFiniteSet(N) /\ \A i \in N : w[i] \in Int
    BY <1>3, <1>6
  <2> HIDE DEF N
  <2>2. \A q \in N : SumFunctionOnSet(w, N) = w[q] + SumFunctionOnSet(w, N \ {q})
    BY <2>1, SumRemove
  <2> QED
    BY <2>2 DEF N
<1>12. SumFunctionOnSet(w, (1..n) \ {p}) = w[k] + rest
  <2> DEFINE N == (1..n) \ {p}
  <2>1. IsFiniteSet(N) /\ k \in N
    BY <1>3, FS_Subset
  <2>2. \A i \in N : w[i] \in Int
    BY <1>6
  <2> HIDE DEF N
  <2>3. \A q \in N : SumFunctionOnSet(w, N) = w[q] + SumFunctionOnSet(w, N \ {q})
    BY <2>1, <2>2, SumRemove
  <2> QED
    BY <2>1, <2>3 DEF N
<1>13. SumFunctionOnSet(v, S) = rest
  <2>1. \A i \in S : v[i] \in Int /\ b[i] \in T /\ w[b[i]] = v[i]
    <3> SUFFICES ASSUME NEW i \in S PROVE v[i] \in Int /\ b[i] \in T /\ w[b[i]] = v[i]
      OBVIOUS
    <3>1. b[i] # p
      BY <1>1, <1>9
    <3>2. M[i] = groups[b[i]] /\ b[i] \in 1..n /\ b[i] # k
      BY <1>1, <3>1
    <3> QED
      BY <1>6, <1>7, <1>20, <1>21, <3>1, <3>2
  <2>2. \A x, y \in S : b[x] = b[y] => x = y
    BY <1>1
  <2>3. \A t \in T : \E x \in S : t = b[x]
    BY <1>1, <1>9
  <2>4. IsFiniteSet(S)
    BY <1>3, FS_Subset
  <2> HIDE DEF S, T
  <2>5. SumFunctionOnSet(w, T) = SumFunctionOnSet(v, S)
    BY <2>1, <2>2, <2>3, <2>4, SumReindex
  <2> QED
    BY <2>5
<1>14. rest \in Int
  <2>1. IsFiniteSet(T) /\ \A t \in T : w[t] \in Int
    BY <1>3, <1>6, FS_Subset
  <2> HIDE DEF T
  <2> QED
    BY <2>1, SumInt
<1>15. v[i0] = c[groups[p] \cup groups[k]] /\ v[i0] \in Int
  BY <1>1, <1>7, <1>21, <1>9
<1>16. /\ w[p] = c[groups[p]] /\ w[p] \in Int
       /\ w[k] = c[groups[k]] /\ w[k] \in Int
  BY <1>6, <1>20
<1> HIDE DEF rest
<1>17. SumFunction(v) = v[i0] + rest
  BY <1>8, <1>10, <1>13
<1>18. SumFunction(w) = w[p] + (w[k] + rest)
  BY <1>8, <1>11, <1>12
<1>19. SumFunction(v) = SumFunction(w) - w[p] - w[k] + v[i0]
  BY <1>14, <1>15, <1>16, <1>17, <1>18
<1> QED
  BY <1>15, <1>16, <1>19 DEF w, v, M

LEMMA ChargesInt ==
    ASSUME NEW c, Priced(c), NEW groups \in Seq(SUBSET Fn)
    PROVE  SumFunction(Charges(c, groups)) \in Int
<1> DEFINE w == Charges(c, groups)
           N == 1..Len(groups)
<1>1. IsFiniteSet(N)
  <2>1. Len(groups) \in Nat
    BY LenProperties
  <2> QED
    BY <2>1, FS_Interval
<1>2. \A i \in N : w[i] \in Int
  BY ElementOfSeq DEF Charges, Priced
<1>3. SumFunction(w) = SumFunctionOnSet(w, N)
  BY DEF SumFunction, Charges
<1> HIDE DEF w, N
<1> QED
  BY <1>1, <1>2, <1>3, SumInt DEF w

LEMMA MergeGroupCharges ==
    ASSUME NEW a, Application(a),
           NEW groups \in Seq(SUBSET Fn),
           NEW p \in 1..Len(groups), NEW k \in 1..Len(groups), p # k
    PROVE  SumFunction(GroupCharges(a, MergeGroups(groups, p, k)))
              = SumFunction(GroupCharges(a, groups))
                - GroupCost(a, groups[p]) - GroupCost(a, groups[k])
                + GroupCost(a, groups[p] \cup groups[k])
<1> DEFINE c == [G \in SUBSET Fn |-> GroupCost(a, G)]
<1>1. \A G \in SUBSET Fn : c[G] = GroupCost(a, G) /\ c[G] \in Int
  BY GroupChargeTypes
<1>2. \A gs \in Seq(SUBSET Fn) : Charges(c, gs) = GroupCharges(a, gs)
  BY <1>1, ElementOfSeq DEF Charges, GroupCharges
<1>3. /\ MergeGroups(groups, p, k) \in Seq(SUBSET Fn)
      /\ groups[p] \in SUBSET Fn /\ groups[k] \in SUBSET Fn
  BY MergeGroupsShape, ElementOfSeq DEF MergeShape
<1>0. Priced(c)
  BY <1>1 DEF Priced
<1> HIDE DEF c
<1>4. SumFunction(Charges(c, MergeGroups(groups, p, k)))
         = SumFunction(Charges(c, groups))
           - c[groups[p]] - c[groups[k]] + c[groups[p] \cup groups[k]]
  <2>1. \A q, r \in 1..Len(groups) : q # r =>
           SumFunction(Charges(c, MergeGroups(groups, q, r)))
              = SumFunction(Charges(c, groups))
                - c[groups[q]] - c[groups[r]] + c[groups[q] \cup groups[r]]
    BY <1>0, MergeCharges
  <2> QED
    BY <2>1
<1> QED
  BY <1>1, <1>2, <1>3, <1>4

(* The pairs a merge brings together. *)
LEMMA MergeTogether ==
    ASSUME NEW groups \in Seq(SUBSET Fn),
           NEW p \in 1..Len(groups), NEW k \in 1..Len(groups), p # k,
           NEW f, NEW g
    PROVE  Together(MergeGroups(groups, p, k), f, g) <=>
              \/ Together(groups, f, g)
              \/ f \in groups[p] /\ g \in groups[k]
              \/ f \in groups[k] /\ g \in groups[p]
<1> DEFINE M == MergeGroups(groups, p, k)
           Old(i) == OldSlot(groups, k, i)
<1>0. MergeShape(groups, p, k, M)
  BY MergeGroupsShape
<1> HIDE DEF M
<1>1. /\ \A i \in 1..Len(M) :
            /\ Old(i) \in 1..Len(groups)
            /\ M[i] = IF Old(i) = p THEN groups[p] \cup groups[k] ELSE groups[Old(i)]
      /\ \A j \in 1..Len(groups) : j # k => \E i \in 1..Len(M) : Old(i) = j
  BY <1>0 DEF MergeShape
<1> HIDE DEF Old
<1>2. ASSUME Together(M, f, g)
      PROVE  \/ Together(groups, f, g)
             \/ f \in groups[p] /\ g \in groups[k]
             \/ f \in groups[k] /\ g \in groups[p]
  <2>1. PICK i \in 1..Len(M) : f \in M[i] /\ g \in M[i]
    BY <1>2 DEF Together
  <2> QED
    BY <1>1, <2>1 DEF Together
<1>3. ASSUME Together(groups, f, g)
      PROVE  Together(M, f, g)
  BY <1>3, MergeKeepsTogether DEF M
<1>4. ASSUME \/ f \in groups[p] /\ g \in groups[k]
             \/ f \in groups[k] /\ g \in groups[p]
      PROVE  Together(M, f, g)
  <2>1. PICK i \in 1..Len(M) : Old(i) = p
    BY <1>1
  <2> QED
    BY <1>1, <1>4, <2>1 DEF Together
<1> QED
  BY <1>2, <1>3, <1>4 DEF M
LEMMA TransferTypes ==
    ASSUME NEW a, Application(a)
    PROVE  \A e \in Fn \X Fn : /\ Transfers(a)[e] = DataTransferCost(a, e[1], e[2])
                               /\ Transfers(a)[e] \in Int
                               /\ e \notin a.edges => Transfers(a)[e] = 0
<1> SUFFICES ASSUME NEW f \in Fn, NEW g \in Fn
             PROVE  /\ Transfers(a)[<<f, g>>] = DataTransferCost(a, f, g)
                    /\ Transfers(a)[<<f, g>>] \in Int
                    /\ <<f, g>> \notin a.edges => Transfers(a)[<<f, g>>] = 0
  OBVIOUS
<1>1. Transfers(a)[<<f, g>>] = DataTransferCost(a, f, g)
  BY DEF Transfers
<1>2. DataTransferCost(a, f, g) \in Int
  BY ChargeTypes
<1>3. <<f, g>> \notin a.edges => DataTransferCost(a, f, g) = 0
  BY DEF DataTransferCost
<1> QED
  BY <1>1, <1>2, <1>3

(* The transfer of all pairs of G \X H is that of the calls among them. *)
LEMMA TransferOfPairs ==
    ASSUME NEW a, Application(a), NEW P \in SUBSET (Fn \X Fn)
    PROVE  SumFunctionOnSet(Transfers(a), P)
              = SumFunctionOnSet(Transfers(a), P \cap a.edges)
<1> DEFINE D == Transfers(a)
           X == P \cap a.edges
           Y == P \ a.edges
<1>1. IsFiniteSet(Fn \X Fn)
  BY FnAssumption, FS_Product
<1>2. IsFiniteSet(X) /\ IsFiniteSet(Y)
  BY <1>1, FS_Subset
<1>3. \A e \in X \cup Y : D[e] \in Int
  BY TransferTypes
<1>4. \A e \in Y : D[e] = 0
  BY TransferTypes
<1>5. X \cap Y = {} /\ X \cup Y = P
  OBVIOUS
<1> HIDE DEF X, Y, D
<1>6. SumFunctionOnSet(D, Y) = 0
  BY <1>2, <1>4, SumOfZeros
<1>7. SumFunctionOnSet(D, X \cup Y) = SumFunctionOnSet(D, X) + SumFunctionOnSet(D, Y)
  BY <1>2, <1>3, <1>5, SumUnion
<1>8. SumFunctionOnSet(D, X) \in Int
  BY <1>2, <1>3, SumInt
<1>9. SumFunctionOnSet(D, X \cup Y) = SumFunctionOnSet(D, X)
  BY <1>6, <1>7, <1>8
<1>10. SumFunctionOnSet(D, P) = SumFunctionOnSet(D, X)
  BY <1>5, <1>9, Zenon
<1> QED
  BY <1>10 DEF D, X

(* transferSaved of MergeProfitUSD is what the calls between G and H pay. *)
TransferSaved(a, G, H) ==
    SumFunctionOnSet([q \in Fn \X Fn |-> DataTransferCost(a, q[1], q[2])
                                       + DataTransferCost(a, q[2], q[1])], G \X H)

LEMMA TransferSavedBetween ==
    ASSUME NEW a, Application(a), NEW G \in SUBSET Fn, NEW H \in SUBSET Fn,
           G \cap H = {}
    PROVE  LET X == ((G \X H) \cup (H \X G)) \cap a.edges
           IN  /\ TransferSaved(a, G, H) = SumFunctionOnSet(Transfers(a), X)
               /\ SumFunctionOnSet(Transfers(a), X) \in Int
<1> DEFINE D == Transfers(a)
           R == [q \in Fn \X Fn |-> DataTransferCost(a, q[2], q[1])]
           B == [q \in Fn \X Fn |-> DataTransferCost(a, q[1], q[2])
                                  + DataTransferCost(a, q[2], q[1])]
           sw == [q \in G \X H |-> <<q[2], q[1]>>]
<1>1. IsFiniteSet(Fn \X Fn)
  BY FnAssumption, FS_Product
<1>2. /\ IsFiniteSet(G \X H) /\ IsFiniteSet(H \X G)
      /\ G \X H \subseteq Fn \X Fn /\ H \X G \subseteq Fn \X Fn
  BY <1>1, FS_Subset
<1>3. ASSUME NEW q \in Fn \X Fn
      PROVE  D[q] \in Int /\ R[q] \in Int /\ B[q] = D[q] + R[q]
  <2>1. q[1] \in Fn /\ q[2] \in Fn
    OBVIOUS
  <2>2. DataTransferCost(a, q[1], q[2]) \in Int /\ DataTransferCost(a, q[2], q[1]) \in Int
    BY <2>1, ChargeTypes
  <2>3. D[q] = DataTransferCost(a, q[1], q[2])
    BY DEF Transfers
  <2> QED
    BY <2>2, <2>3
<1>4. \A q \in G \X H : R[q] \in Int /\ sw[q] \in H \X G /\ D[sw[q]] = R[q]
  <2> SUFFICES ASSUME NEW f \in G, NEW g \in H
               PROVE  /\ R[<<f, g>>] \in Int /\ sw[<<f, g>>] \in H \X G
                      /\ D[sw[<<f, g>>]] = R[<<f, g>>]
    OBVIOUS
  <2>1. sw[<<f, g>>] = <<g, f>>
    OBVIOUS
  <2>2. R[<<f, g>>] = DataTransferCost(a, g, f)
    OBVIOUS
  <2>3. D[<<g, f>>] = DataTransferCost(a, g, f)
    BY DEF Transfers
  <2>4. DataTransferCost(a, g, f) \in Int
    BY ChargeTypes
  <2> QED
    BY <2>1, <2>2, <2>3, <2>4
<1>5. \A x, y \in G \X H : sw[x] = sw[y] => x = y
  OBVIOUS
<1>6. \A t \in H \X G : \E x \in G \X H : t = sw[x]
  <2> SUFFICES ASSUME NEW h \in H, NEW g \in G
               PROVE  \E x \in G \X H : <<h, g>> = sw[x]
    OBVIOUS
  <2>1. <<g, h>> \in G \X H /\ sw[<<g, h>>] = <<h, g>>
    OBVIOUS
  <2> QED
    BY <2>1
<1>7. TransferSaved(a, G, H) = SumFunctionOnSet(B, G \X H)
  BY DEF TransferSaved
<1> DEFINE GH == G \X H
           HG == H \X G
<1>8. /\ IsFiniteSet(GH) /\ IsFiniteSet(HG)
      /\ \A q \in GH : D[q] \in Int /\ R[q] \in Int /\ B[q] = D[q] + R[q]
      /\ \A q \in GH : R[q] \in Int /\ sw[q] \in HG /\ D[sw[q]] = R[q]
      /\ \A x, y \in GH : sw[x] = sw[y] => x = y
      /\ \A t \in HG : \E x \in GH : t = sw[x]
      /\ \A q \in GH \cup HG : D[q] \in Int
      /\ GH \cap HG = {}
      /\ GH \in SUBSET (Fn \X Fn) /\ HG \in SUBSET (Fn \X Fn)
  BY <1>2, <1>3, <1>4, <1>5, <1>6
<1>9. TransferSaved(a, G, H) = SumFunctionOnSet(B, GH)
  BY <1>7
<1> HIDE DEF D, R, B, sw, GH, HG
<1>10. SumFunctionOnSet(B, GH) = SumFunctionOnSet(D, GH) + SumFunctionOnSet(R, GH)
  BY <1>8, SumPointwise
<1>11. SumFunctionOnSet(D, HG) = SumFunctionOnSet(R, GH)
  BY <1>8, SumReindex
<1>12. SumFunctionOnSet(D, GH \cup HG)
          = SumFunctionOnSet(D, GH) + SumFunctionOnSet(D, HG)
  BY <1>8, SumUnion
<1>13. TransferSaved(a, G, H) = SumFunctionOnSet(D, GH \cup HG)
  BY <1>9, <1>10, <1>11, <1>12
<1>14. GH \cup HG \in SUBSET (Fn \X Fn)
  BY <1>8
<1>15. SumFunctionOnSet(D, GH \cup HG) = SumFunctionOnSet(D, (GH \cup HG) \cap a.edges)
  BY <1>14, TransferOfPairs DEF D
<1>16. SumFunctionOnSet(D, (GH \cup HG) \cap a.edges) \in Int
  <2> DEFINE X == (GH \cup HG) \cap a.edges
  <2>1. IsFiniteSet(X)
    BY <1>1, <1>14, FS_Subset
  <2>2. \A x \in X : D[x] \in Int
    BY <1>8
  <2> HIDE DEF X
  <2>3. SumFunctionOnSet(D, X) \in Int
    BY <2>1, <2>2, SumInt
  <2> QED
    BY <2>3 DEF X
<1> QED
  BY <1>13, <1>15, <1>16 DEF GH, HG, D

(* A merge takes exactly the calls between the two groups out of the cut. *)
LEMMA MergeCutEdges ==
    ASSUME NEW a, Application(a),
           NEW groups \in Seq(SUBSET Fn), PairwiseDisjoint(groups),
           NEW p \in 1..Len(groups), NEW k \in 1..Len(groups), p # k
    PROVE  LET G == groups[p]
               H == groups[k]
               X == ((G \X H) \cup (H \X G)) \cap a.edges
               C == CutEdges(a, MergeGroups(groups, p, k))
           IN  CutEdges(a, groups) = C \cup X /\ C \cap X = {}
<1> DEFINE G == groups[p]
           H == groups[k]
           M == MergeGroups(groups, p, k)
           X == ((G \X H) \cup (H \X G)) \cap a.edges
<1>1. a.edges \subseteq Fn \X Fn
  BY DEF Application
<1>2. \A f \in Fn : Assigned(M, f) <=> Assigned(groups, f)
  BY MergeKeepsAssigned
<1> HIDE DEF M
<1>3. \A f, g : Together(M, f, g) <=>
                   \/ Together(groups, f, g)
                   \/ f \in G /\ g \in H
                   \/ f \in H /\ g \in G
  BY MergeTogether DEF M
<1>4. \A f, g : (f \in G /\ g \in H) \/ (f \in H /\ g \in G)
                   => /\ ~Together(groups, f, g)
                      /\ Assigned(groups, f) /\ Assigned(groups, g)
  BY DEF PairwiseDisjoint, Together, Assigned
<1>5. ASSUME NEW f \in Fn, NEW g \in Fn, <<f, g>> \in a.edges
      PROVE  /\ <<f, g>> \in CutEdges(a, groups) <=>
                    /\ ~Together(groups, f, g)
                    /\ Assigned(groups, f) /\ Assigned(groups, g)
             /\ <<f, g>> \in CutEdges(a, M) <=>
                    /\ ~Together(M, f, g)
                    /\ Assigned(groups, f) /\ Assigned(groups, g)
             /\ <<f, g>> \in X <=> (f \in G /\ g \in H) \/ (f \in H /\ g \in G)
  BY <1>2, <1>5 DEF CutEdges, Apart
<1>6. \A e \in a.edges : /\ e \in CutEdges(a, groups) <=> e \in CutEdges(a, M) \/ e \in X
                         /\ ~(e \in CutEdges(a, M) /\ e \in X)
  <2> SUFFICES ASSUME NEW f \in Fn, NEW g \in Fn, <<f, g>> \in a.edges
               PROVE  LET e == <<f, g>>
                      IN  /\ e \in CutEdges(a, groups) <=> e \in CutEdges(a, M) \/ e \in X
                          /\ ~(e \in CutEdges(a, M) /\ e \in X)
    BY <1>1
  <2> QED
    BY <1>3, <1>4, <1>5
<1>7. /\ CutEdges(a, groups) \subseteq a.edges
      /\ CutEdges(a, M) \subseteq a.edges
      /\ X \subseteq a.edges
  BY DEF CutEdges
<1> HIDE DEF X, G, H
<1>8. CutEdges(a, groups) = CutEdges(a, M) \cup X /\ CutEdges(a, M) \cap X = {}
  BY <1>6, <1>7
<1> QED
  BY <1>8 DEF X, G, H, M

LEMMA TotalCostInt ==
    ASSUME NEW a, Application(a), NEW groups \in Seq(SUBSET Fn)
    PROVE  /\ SumFunction(GroupCharges(a, groups)) \in Int
           /\ TotalCost(a, groups) \in Int
<1> DEFINE w == GroupCharges(a, groups)
           N == 1..Len(groups)
           D == Transfers(a)
           C == CutEdges(a, groups)
<1>1. IsFiniteSet(N)
  <2>1. Len(groups) \in Nat
    BY LenProperties
  <2> QED
    BY <2>1, FS_Interval
<1>2. \A i \in N : w[i] \in Int
  <2>1. \A i \in N : groups[i] \in SUBSET Fn
    BY ElementOfSeq
  <2> QED
    BY <2>1, GroupChargeTypes DEF GroupCharges
<1>3. SumFunction(w) = SumFunctionOnSet(w, N)
  BY DEF SumFunction, GroupCharges
<1>4. IsFiniteSet(C) /\ C \subseteq Fn \X Fn
  <2>1. IsFiniteSet(Fn \X Fn) /\ a.edges \subseteq Fn \X Fn
    BY FnAssumption, FS_Product DEF Application
  <2> QED
    BY <2>1, FS_Subset DEF CutEdges
<1>5. \A e \in C : D[e] \in Int
  BY <1>4, TransferTypes
<1>6. TotalCost(a, groups) = SumFunction(w) + SumFunctionOnSet(D, C)
  BY DEF TotalCost, GroupCharges, Transfers
<1> HIDE DEF w, N, D, C
<1>7. SumFunction(w) \in Int
  BY <1>1, <1>2, <1>3, SumInt
<1>8. SumFunctionOnSet(D, C) \in Int
  BY <1>4, <1>5, SumInt
<1> QED
  BY <1>6, <1>7, <1>8 DEF w

(* MergeProfitUSD is the exact difference of the two CalculateMetrics      *)
(* totals, for every application, and for any two of some groups that have *)
(* no function in common, whether or not every function is in one.         *)
THEOREM MergeProfitIsExact ==
    ASSUME NEW a, Application(a),
           NEW groups \in Seq(SUBSET Fn), PairwiseDisjoint(groups),
           NEW p \in 1..Len(groups), NEW k \in 1..Len(groups), p # k
    PROVE  /\ TotalCost(a, MergeGroups(groups, p, k))
                 = TotalCost(a, groups) - MergeProfit(a, groups[p], groups[k])
           /\ TotalCost(a, groups) \in Int
           /\ MergeProfit(a, groups[p], groups[k]) \in Int
<1> DEFINE G == groups[p]
           H == groups[k]
           M == MergeGroups(groups, p, k)
           D == Transfers(a)
           X == ((G \X H) \cup (H \X G)) \cap a.edges
           C == CutEdges(a, M)
           gr == SumFunction(GroupCharges(a, groups))
           cut == SumFunctionOnSet(D, CutEdges(a, groups))
           cutM == SumFunctionOnSet(D, C)
           saved == SumFunctionOnSet(D, X)
<1>1. G \in SUBSET Fn /\ H \in SUBSET Fn /\ G \cup H \in SUBSET Fn
  BY ElementOfSeq
<1>2. G \cap H = {}
  BY DEF IsPartition, PairwiseDisjoint
<1>3. SumFunction(GroupCharges(a, M))
         = gr - GroupCost(a, G) - GroupCost(a, H) + GroupCost(a, G \cup H)
  BY MergeGroupCharges
<1>4. TransferSaved(a, G, H) = saved /\ saved \in Int
  BY <1>1, <1>2, TransferSavedBetween
<1>5. CutEdges(a, groups) = C \cup X /\ C \cap X = {}
  BY MergeCutEdges
<1>6. IsFiniteSet(Fn \X Fn) /\ a.edges \subseteq Fn \X Fn
  BY FnAssumption, FS_Product DEF Application
<1>7. IsFiniteSet(C) /\ IsFiniteSet(X) /\ C \cup X \subseteq Fn \X Fn
  BY <1>6, FS_Subset DEF CutEdges
<1>8. \A e \in C \cup X : D[e] \in Int
  BY <1>7, TransferTypes
<1> HIDE DEF C, X, D
<1>9. cut = cutM + saved
  BY <1>5, <1>7, <1>8, SumUnion
<1>10. cutM \in Int
  BY <1>7, <1>8, SumInt
<1>11. gr \in Int
  BY TotalCostInt
<1>12. TotalCost(a, groups) = gr + cut
  BY DEF TotalCost, GroupCharges, Transfers, D
<1>13. TotalCost(a, M) = SumFunction(GroupCharges(a, M)) + cutM
  BY DEF TotalCost, GroupCharges, Transfers, D, C
<1>14. /\ GroupExecutionCost(a, G) \in Int /\ GroupExecutionCost(a, H) \in Int
       /\ GroupExecutionCost(a, G \cup H) \in Int
       /\ RequestCost(a, G) \in Int /\ RequestCost(a, H) \in Int
       /\ RequestCost(a, G \cup H) \in Int
  BY <1>1, GroupChargeTypes
<1>15. MergeProfit(a, G, H) =
          TransferSaved(a, G, H)
          + (RequestCost(a, G) + RequestCost(a, H) - RequestCost(a, G \cup H))
          - (GroupExecutionCost(a, G \cup H) - GroupExecutionCost(a, G)
             - GroupExecutionCost(a, H))
  BY DEF MergeProfit, TransferSaved
<1>16. /\ GroupCost(a, G) = GroupExecutionCost(a, G) + RequestCost(a, G)
       /\ GroupCost(a, H) = GroupExecutionCost(a, H) + RequestCost(a, H)
       /\ GroupCost(a, G \cup H)
             = GroupExecutionCost(a, G \cup H) + RequestCost(a, G \cup H)
  BY DEF GroupCost
<1> HIDE DEF G, H, M, gr, cut, cutM, saved
<1>17. MergeProfit(a, G, H) \in Int
  BY <1>4, <1>14, <1>15
<1>18. TotalCost(a, groups) \in Int
  BY <1>4, <1>9, <1>10, <1>11, <1>12
<1>19. TotalCost(a, M) = TotalCost(a, groups) - MergeProfit(a, G, H)
  <2> DEFINE eG == GroupExecutionCost(a, G)
             eH == GroupExecutionCost(a, H)
             eU == GroupExecutionCost(a, G \cup H)
             rG == RequestCost(a, G)
             rH == RequestCost(a, H)
             rU == RequestCost(a, G \cup H)
  <2>1. TotalCost(a, M) = (gr - (eG + rG) - (eH + rH) + (eU + rU)) + cutM
    BY <1>3, <1>13, <1>16
  <2>2. TotalCost(a, groups) = gr + (cutM + saved)
    BY <1>9, <1>12
  <2>3. MergeProfit(a, G, H) = saved + (rG + rH - rU) - (eU - eG - eH)
    BY <1>4, <1>15
  <2>4. /\ eG \in Int /\ eH \in Int /\ eU \in Int /\ rG \in Int /\ rH \in Int
        /\ rU \in Int /\ gr \in Int /\ cutM \in Int /\ saved \in Int
    BY <1>4, <1>10, <1>11, <1>14
  <2> HIDE DEF eG, eH, eU, rG, rH, rU
  <2> QED
    BY <2>1, <2>2, <2>3, <2>4
<1> QED
  BY <1>17, <1>18, <1>19 DEF G, H, M
-----------------------------------------------------------------------------
(* Two connected groups that a call joins make a connected group.          *)
LEMMA ConnectedUnion ==
    ASSUME NEW a, NEW G, NEW H, IsConnected(a, G), IsConnected(a, H),
           JoinedByCall(a, G, H)
    PROVE  IsConnected(a, G \cup H)
<1> SUFFICES ASSUME NEW S \in SUBSET (G \cup H), S # {}, S # G \cup H
             PROVE  JoinedByCall(a, S, (G \cup H) \ S)
  BY DEF IsConnected
<1>1. CASE S \cap G # {} /\ S \cap G # G
  <2>1. JoinedByCall(a, S \cap G, G \ (S \cap G))
    BY <1>1 DEF IsConnected
  <2> QED
    BY <2>1 DEF JoinedByCall
<1>2. CASE S \cap H # {} /\ S \cap H # H
  <2>1. JoinedByCall(a, S \cap H, H \ (S \cap H))
    BY <1>2 DEF IsConnected
  <2> QED
    BY <2>1 DEF JoinedByCall
<1>3. CASE /\ S \cap G = {} \/ S \cap G = G
           /\ S \cap H = {} \/ S \cap H = H
  <2>1. PICK f \in G, g \in H : <<f, g>> \in a.edges \/ <<g, f>> \in a.edges
    BY DEF JoinedByCall
  <2>2. (f \in S /\ g \notin S) \/ (f \notin S /\ g \in S)
    BY <1>3
  <2> QED
    BY <2>1, <2>2 DEF JoinedByCall
<1> QED
  BY <1>1, <1>2, <1>3

(* A merge adds no hop to the critical path. *)
LEMMA MergeCutPairs ==
    ASSUME NEW a, Application(a),
           NEW groups \in Seq(SUBSET Fn),
           NEW p \in 1..Len(groups), NEW k \in 1..Len(groups), p # k
    PROVE  CutPairs(a, MergeGroups(groups, p, k)) \subseteq CutPairs(a, groups)
<1> DEFINE M == MergeGroups(groups, p, k)
<1>1. \A f : Assigned(M, f) <=> Assigned(groups, f)
  BY MergeKeepsAssigned
<1>2. \A f, g : Together(groups, f, g) => Together(M, f, g)
  BY MergeKeepsTogether
<1>3. a.critPath \in Seq(Fn)
  BY DEF Application
<1>4. \A i \in 1..(Len(a.critPath) - 1) :
         a.critPath[i] \in Fn /\ a.critPath[i + 1] \in Fn
  <2>1. Len(a.critPath) \in Nat
    BY <1>3, LenProperties
  <2>2. \A i \in 1..(Len(a.critPath) - 1) :
           i \in 1..Len(a.critPath) /\ i + 1 \in 1..Len(a.critPath)
    BY <2>1
  <2> QED
    BY <1>3, <2>2, ElementOfSeq
<1> HIDE DEF M
<1>5. CutPairs(a, M) \subseteq CutPairs(a, groups)
  BY <1>1, <1>2, <1>4 DEF CutPairs, Apart
<1> QED
  BY <1>5 DEF M
-----------------------------------------------------------------------------
(* The explanation of a partition *)

Rates(a) == [f \in Fn |-> Rate(a, f)]

LEMMA InvocationsOfSubset ==
    ASSUME NEW a, Application(a), NEW G \in SUBSET Fn, NEW E \in SUBSET G
    PROVE  /\ SumFunctionOnSet(Rates(a), E) \in Nat
           /\ SumFunctionOnSet(Rates(a), E) <= SumFunctionOnSet(Rates(a), G)
<1>1. IsFiniteSet(G) /\ IsFiniteSet(E)
  BY FnAssumption, FS_Subset
<1>2. \A f \in G : Rates(a)[f] \in Nat
  BY ChargeTypes DEF Rates
<1>3. \A f \in E : Rates(a)[f] \in Nat
  BY <1>2
<1> QED
  BY <1>1, <1>2, <1>3, SumNat, SumOfSubset

LEMMA InvocationRateNat ==
    ASSUME NEW a, Application(a), NEW K \in SUBSET Fn
    PROVE  BlockInvocationRate(a, K) \in Nat
<1>1. Entries(a, K) \in SUBSET K
  BY DEF Entries
<1> QED
  BY <1>1, InvocationsOfSubset DEF BlockInvocationRate, Rates

(* Only calls between the two groups become calls in-process: the united   *)
(* group is entered no more often than both were.                          *)
LEMMA UnionIsEnteredLess ==
    ASSUME NEW a, Application(a), NEW G \in SUBSET Fn, NEW H \in SUBSET Fn,
           G \cap H = {}
    PROVE  /\ BlockInvocationRate(a, G) \in Nat
           /\ BlockInvocationRate(a, H) \in Nat
           /\ BlockInvocationRate(a, G \cup H) \in Nat
           /\ BlockInvocationRate(a, G \cup H)
                 <= BlockInvocationRate(a, G) + BlockInvocationRate(a, H)
<1> DEFINE A == Entries(a, G \cup H) \cap G
           B == Entries(a, G \cup H) \cap H
           r == Rates(a)
<1>1. /\ A \subseteq Entries(a, G) /\ B \subseteq Entries(a, H)
      /\ Entries(a, G \cup H) = A \cup B /\ A \cap B = {}
      /\ Entries(a, G) \subseteq Fn /\ Entries(a, H) \subseteq Fn
      /\ Entries(a, G \cup H) \subseteq Fn
  BY DEF Entries
<1>2. IsFiniteSet(A) /\ IsFiniteSet(B)
  BY <1>1, FnAssumption, FS_Subset
<1>3. \A f \in A \cup B : r[f] \in Int
  BY <1>1, ChargeTypes DEF Rates
<1>4. \A K : BlockInvocationRate(a, K) = SumFunctionOnSet(r, Entries(a, K))
  BY DEF BlockInvocationRate, Rates
<1> HIDE DEF A, B, r
<1>5. SumFunctionOnSet(r, A \cup B) = SumFunctionOnSet(r, A) + SumFunctionOnSet(r, B)
  BY <1>1, <1>2, <1>3, SumUnion
<1>6. /\ SumFunctionOnSet(r, A) \in Nat /\ SumFunctionOnSet(r, B) \in Nat
      /\ SumFunctionOnSet(r, A) <= SumFunctionOnSet(r, Entries(a, G))
      /\ SumFunctionOnSet(r, B) <= SumFunctionOnSet(r, Entries(a, H))
  BY <1>1, InvocationsOfSubset DEF r
<1>7. /\ SumFunctionOnSet(r, Entries(a, G)) \in Nat
      /\ SumFunctionOnSet(r, Entries(a, H)) \in Nat
  BY <1>1, InvocationsOfSubset DEF r
<1>8. BlockInvocationRate(a, G \cup H)
         = SumFunctionOnSet(r, A) + SumFunctionOnSet(r, B)
  <2>1. BlockInvocationRate(a, G \cup H) = SumFunctionOnSet(r, Entries(a, G \cup H))
    BY <1>4
  <2> QED
    BY <1>1, <1>5, <2>1
<1> QED
  BY <1>4, <1>6, <1>7, <1>8

(* The united group runs as long as both, in the memory of the larger one. *)
LEMMA UnionRunsDearer ==
    ASSUME NEW a, Application(a), NEW G \in SUBSET Fn, NEW H \in SUBSET Fn,
           G \cap H = {}
    PROVE  GroupExecutionCost(a, G \cup H)
              >= GroupExecutionCost(a, G) + GroupExecutionCost(a, H)
<1> DEFINE w == [f \in Fn |-> RuntimeMs(a, f)]
           U == G \cup H
           mG == GroupMemory(a, G)
           mH == GroupMemory(a, H)
           mU == GroupMemory(a, U)
           tG == GroupRuntimeMs(a, G)
           tH == GroupRuntimeMs(a, H)
<1>1. IsFiniteSet(G) /\ IsFiniteSet(H) /\ U \in SUBSET Fn
  BY FnAssumption, FS_Subset
<1>2. \A f \in U : w[f] \in Nat
  BY ChargeTypes
<1>3. \A K : GroupRuntimeMs(a, K) = SumFunctionOnSet(w, K)
  BY DEF GroupRuntimeMs
<1>4. /\ tG \in Nat /\ tH \in Nat
      /\ GroupRuntimeMs(a, U) = tG + tH
  <2> HIDE DEF w
  <2>1. /\ \A f \in G : w[f] \in Nat
        /\ \A f \in H : w[f] \in Nat
        /\ \A f \in G \cup H : w[f] \in Int
    BY <1>2
  <2>2. SumFunctionOnSet(w, G) \in Nat /\ SumFunctionOnSet(w, H) \in Nat
    BY <1>1, <2>1, SumNat
  <2>3. SumFunctionOnSet(w, G \cup H) = SumFunctionOnSet(w, G) + SumFunctionOnSet(w, H)
    BY <1>1, <2>1, SumUnion
  <2> QED
    BY <1>3, <2>2, <2>3
<1>5. mG \in Nat /\ mH \in Nat /\ mU \in Nat
  BY <1>1, GroupMemoryIsMax
<1>6. ASSUME NEW K \in SUBSET U
      PROVE  GroupMemory(a, K) <= mU
  <2>1. K \in SUBSET Fn
    BY <1>1
  <2>2. /\ GroupMemory(a, K) = 0 \/ \E f \in K : GroupMemory(a, K) = a.mem[f]
        /\ \A f \in U : a.mem[f] <= mU
    BY <1>1, <2>1, GroupMemoryIsMax
  <2> QED
    BY <1>5, <2>2
<1>7. mG <= mU /\ mH <= mU
  BY <1>6
<1> HIDE DEF mG, mH, mU, tG, tH, U
<1>8. /\ GroupExecutionCost(a, G) = ExecutionPrice * mG * tG
      /\ GroupExecutionCost(a, H) = ExecutionPrice * mH * tH
      /\ GroupExecutionCost(a, U) = ExecutionPrice * mU * (tG + tH)
  BY <1>4 DEF GroupExecutionCost, mG, mH, mU, tG, tH
<1>9. \A x, y, z \in Nat : x <= y => z * x <= z * y
  OBVIOUS
<1>10. \A x, y, z \in Nat : x <= y => x * z <= y * z
  OBVIOUS
<1>11. \A x, y \in Nat : x * y \in Nat
  OBVIOUS
<1>12. \A x, y, z \in Nat : x * (y + z) = x * y + x * z
  OBVIOUS
<1> DEFINE eG == ExecutionPrice * mG
           eH == ExecutionPrice * mH
           eU == ExecutionPrice * mU
<1>13. eG \in Nat /\ eH \in Nat /\ eU \in Nat /\ eG <= eU /\ eH <= eU
  BY <1>5, <1>7, <1>9, <1>11, PriceAssumption
<1> HIDE DEF eG, eH, eU
<1>14. /\ eU * (tG + tH) = eU * tG + eU * tH
       /\ eG * tG <= eU * tG /\ eH * tH <= eU * tH
       /\ eG * tG \in Nat /\ eH * tH \in Nat /\ eU * tG \in Nat /\ eU * tH \in Nat
  BY <1>4, <1>10, <1>11, <1>12, <1>13
<1> QED
  BY <1>8, <1>14 DEF eG, eH, eU, U
Rated(a) == [K \in SUBSET Fn |-> BlockInvocationRate(a, K)]
Executed(a) == [K \in SUBSET Fn |-> GroupExecutionCost(a, K)]

LEMMA TradeoffSums ==
    ASSUME NEW a, Application(a)
    PROVE  /\ Priced(Rated(a)) /\ Priced(Executed(a))
           /\ \A gs \in Seq(SUBSET Fn) :
                 /\ Invocations(a, gs) = SumFunction(Charges(Rated(a), gs))
                 /\ Invocations(a, gs) \in Int
                 /\ Execution(a, gs) = SumFunction(Charges(Executed(a), gs))
                 /\ Execution(a, gs) \in Int
<1> DEFINE r == Rated(a)
           e == Executed(a)
<1>2. \A K \in SUBSET Fn : r[K] = BlockInvocationRate(a, K) /\ r[K] \in Int
  <2> SUFFICES ASSUME NEW K \in SUBSET Fn PROVE BlockInvocationRate(a, K) \in Int
    BY DEF Rated
  <2>1. BlockInvocationRate(a, K) \in Nat
    BY InvocationRateNat
  <2> QED
    BY <2>1
<1>3. \A K \in SUBSET Fn : e[K] = GroupExecutionCost(a, K) /\ e[K] \in Int
  BY GroupChargeTypes DEF Executed
<1>4. \A gs \in Seq(SUBSET Fn) : /\ Invocations(a, gs) = SumFunction(Charges(r, gs))
                                  /\ Execution(a, gs) = SumFunction(Charges(e, gs))
  <2> SUFFICES ASSUME NEW gs \in Seq(SUBSET Fn)
               PROVE  /\ Invocations(a, gs) = SumFunction(Charges(r, gs))
                      /\ Execution(a, gs) = SumFunction(Charges(e, gs))
    OBVIOUS
  <2>1. \A i \in 1..Len(gs) : gs[i] \in SUBSET Fn
    BY ElementOfSeq
  <2>2. /\ Charges(r, gs) = [i \in 1..Len(gs) |-> BlockInvocationRate(a, gs[i])]
        /\ Charges(e, gs) = [i \in 1..Len(gs) |-> GroupExecutionCost(a, gs[i])]
    BY <2>1 DEF Charges, Rated, Executed
  <2> HIDE DEF r, e
  <2> QED
    BY <2>2 DEF Invocations, Execution
<1>5. Priced(r) /\ Priced(e)
  BY <1>2, <1>3 DEF Priced
<1>6. \A gs \in Seq(SUBSET Fn) : SumFunction(Charges(r, gs)) \in Int
                                 /\ SumFunction(Charges(e, gs)) \in Int
  BY <1>5, ChargesInt
<1> QED
  BY <1>4, <1>5, <1>6

(* The sums that CalculateTradeoff reports, after a merge: fewer calls are *)
(* invocations, and more is paid to execute.                               *)
LEMMA MergeTradesInvocations ==
    ASSUME NEW a, Application(a),
           NEW groups \in Seq(SUBSET Fn), PairwiseDisjoint(groups),
           NEW p \in 1..Len(groups), NEW k \in 1..Len(groups), p # k
    PROVE  /\ Invocations(a, MergeGroups(groups, p, k)) <= Invocations(a, groups)
           /\ Execution(a, MergeGroups(groups, p, k)) >= Execution(a, groups)
<1> DEFINE M == MergeGroups(groups, p, k)
           G == groups[p]
           H == groups[k]
           r == Rated(a)
           e == Executed(a)
<1>1. /\ M \in Seq(SUBSET Fn) /\ G \in SUBSET Fn /\ H \in SUBSET Fn
      /\ G \cup H \in SUBSET Fn /\ G \cap H = {}
  <2>1. M \in Seq(SUBSET Fn)
    BY MergeGroupsShape DEF MergeShape
  <2>2. G \in SUBSET Fn /\ H \in SUBSET Fn
    BY ElementOfSeq
  <2>3. G \cap H = {}
    BY DEF IsPartition, PairwiseDisjoint
  <2> QED
    BY <2>1, <2>2, <2>3
<1>2. \A K \in SUBSET Fn : r[K] = BlockInvocationRate(a, K) /\ r[K] \in Int
  BY TradeoffSums DEF Priced, Rated
<1>3. \A K \in SUBSET Fn : e[K] = GroupExecutionCost(a, K) /\ e[K] \in Int
  BY TradeoffSums DEF Priced, Executed
<1>4. \A gs \in Seq(SUBSET Fn) :
         /\ Invocations(a, gs) = SumFunction(Charges(r, gs))
         /\ Invocations(a, gs) \in Int
         /\ Execution(a, gs) = SumFunction(Charges(e, gs))
         /\ Execution(a, gs) \in Int
  BY TradeoffSums
<1>5. Priced(r) /\ Priced(e)
  BY TradeoffSums
<1> HIDE DEF r, e, M
<1>7. /\ SumFunction(Charges(r, M))
            = SumFunction(Charges(r, groups)) - r[G] - r[H] + r[G \cup H]
      /\ SumFunction(Charges(e, M))
            = SumFunction(Charges(e, groups)) - e[G] - e[H] + e[G \cup H]
  <2>1. \A c : Priced(c) =>
           SumFunction(Charges(c, MergeGroups(groups, p, k)))
              = SumFunction(Charges(c, groups))
                - c[groups[p]] - c[groups[k]] + c[groups[p] \cup groups[k]]
    BY MergeCharges
  <2> QED
    BY <1>5, <2>1 DEF M
<1>8. r[G \cup H] <= r[G] + r[H] /\ e[G \cup H] >= e[G] + e[H]
  <2>1. BlockInvocationRate(a, G \cup H)
           <= BlockInvocationRate(a, G) + BlockInvocationRate(a, H)
    BY <1>1, UnionIsEnteredLess
  <2>2. GroupExecutionCost(a, G \cup H)
           >= GroupExecutionCost(a, G) + GroupExecutionCost(a, H)
    BY <1>1, UnionRunsDearer
  <2> HIDE DEF G, H
  <2>3. /\ r[G] = BlockInvocationRate(a, G) /\ r[H] = BlockInvocationRate(a, H)
        /\ r[G \cup H] = BlockInvocationRate(a, G \cup H)
        /\ e[G] = GroupExecutionCost(a, G) /\ e[H] = GroupExecutionCost(a, H)
        /\ e[G \cup H] = GroupExecutionCost(a, G \cup H)
    BY <1>1, <1>2, <1>3
  <2> QED
    BY <2>1, <2>2, <2>3
<1>9. /\ Invocations(a, M) = SumFunction(Charges(r, M))
      /\ Invocations(a, groups) = SumFunction(Charges(r, groups))
      /\ Execution(a, M) = SumFunction(Charges(e, M))
      /\ Execution(a, groups) = SumFunction(Charges(e, groups))
  BY <1>1, <1>4
<1>10. /\ r[G] \in Int /\ r[H] \in Int /\ r[G \cup H] \in Int
       /\ e[G] \in Int /\ e[H] \in Int /\ e[G \cup H] \in Int
  BY <1>1, <1>2, <1>3
<1>11. /\ SumFunction(Charges(r, groups)) \in Int
       /\ SumFunction(Charges(e, groups)) \in Int
  BY <1>4
<1> HIDE DEF G, H
<1>12. Invocations(a, M) <= Invocations(a, groups)
  <2>1. \A s, x, y, z \in Int : z <= x + y => s - x - y + z <= s
    OBVIOUS
  <2>2. SumFunction(Charges(r, groups)) - r[G] - r[H] + r[G \cup H]
           <= SumFunction(Charges(r, groups))
    BY <1>8, <1>10, <1>11, <2>1
  <2> QED
    BY <1>7, <1>9, <2>2
<1>13. Execution(a, M) >= Execution(a, groups)
  <2>1. \A s, x, y, z \in Int : z >= x + y => s - x - y + z >= s
    OBVIOUS
  <2>2. SumFunction(Charges(e, groups)) - e[G] - e[H] + e[G \cup H]
           >= SumFunction(Charges(e, groups))
    BY <1>8, <1>10, <1>11, <2>1
  <2> QED
    BY <1>7, <1>9, <2>2
<1> QED
  BY <1>12, <1>13 DEF M

(* Without transfer prices the total is what requests and execution cost.  *)
LEMMA TotalWithoutTransfer ==
    ASSUME NEW a, Application(a), a.transferPrice = 0,
           NEW groups \in Seq(SUBSET Fn)
    PROVE  TotalCost(a, groups)
              = Execution(a, groups) + RequestPrice * Invocations(a, groups)
<1> DEFINE N == 1..Len(groups)
           u == GroupCharges(a, groups)
           e == [i \in N |-> GroupExecutionCost(a, groups[i])]
           r == [i \in N |-> BlockInvocationRate(a, groups[i])]
           q == [i \in N |-> RequestCost(a, groups[i])]
           C == CutEdges(a, groups)
           D == Transfers(a)
<1>1. IsFiniteSet(N)
  <2>1. Len(groups) \in Nat
    BY LenProperties
  <2> QED
    BY <2>1, FS_Interval
<1>2. IsFiniteSet(C) /\ C \subseteq Fn \X Fn
  <2>1. IsFiniteSet(Fn \X Fn) /\ a.edges \subseteq Fn \X Fn
    BY FnAssumption, FS_Product DEF Application
  <2> QED
    BY <2>1, FS_Subset DEF CutEdges
<1>3. \A c \in C : D[c] = 0
  <2> SUFFICES ASSUME NEW f \in Fn, NEW g \in Fn PROVE DataTransferCost(a, f, g) = 0
    BY <1>2, TransferTypes
  <2>1. \A x \in Nat : x * 0 = 0
    OBVIOUS
  <2>2. a.bytes \in [a.edges -> Nat]
    BY DEF Application
  <2> QED
    BY <2>1, <2>2 DEF DataTransferCost
<1>4. \A i \in N : groups[i] \in SUBSET Fn
  BY ElementOfSeq
<1>5. \A i \in N : /\ e[i] \in Int /\ q[i] \in Int /\ u[i] = e[i] + q[i]
  BY <1>4, GroupChargeTypes DEF GroupCharges, GroupCost
<1>6. \A i \in N : r[i] \in Int /\ q[i] = RequestPrice * r[i]
  <2> SUFFICES ASSUME NEW i \in N
               PROVE  BlockInvocationRate(a, groups[i]) \in Int
    BY DEF RequestCost
  <2>1. BlockInvocationRate(a, groups[i]) \in Nat
    BY <1>4, InvocationRateNat
  <2> QED
    BY <2>1
<1>7. /\ TotalCost(a, groups) = SumFunctionOnSet(u, N) + SumFunctionOnSet(D, C)
      /\ Execution(a, groups) = SumFunctionOnSet(e, N)
      /\ Invocations(a, groups) = SumFunctionOnSet(r, N)
  BY DEF TotalCost, Execution, Invocations, SumFunction, GroupCharges, Transfers
<1> HIDE DEF N, u, e, r, q, C, D
<1>8. SumFunctionOnSet(u, N) = SumFunctionOnSet(e, N) + SumFunctionOnSet(q, N)
  BY <1>1, <1>5, SumPointwise
<1>9. SumFunctionOnSet(q, N) = RequestPrice * SumFunctionOnSet(r, N)
  <2>1. RequestPrice \in Int
    BY PriceAssumption
  <2> QED
    BY <1>1, <1>6, <2>1, SumScaled
<1>10. SumFunctionOnSet(D, C) = 0
  BY <1>2, <1>3, SumOfZeros
<1>11. SumFunctionOnSet(e, N) \in Int /\ SumFunctionOnSet(q, N) \in Int
  BY <1>1, <1>5, SumInt
<1> QED
  BY <1>7, <1>8, <1>9, <1>10, <1>11

(* In a partition a pair is cut exactly when the indices of its groups     *)
(* differ: criticalPathCuts counts what latency charges.                   *)
LEMMA CutsAreCounted ==
    ASSUME NEW a, Application(a), NEW groups \in Seq(SUBSET Fn), IsPartition(groups)
    PROVE  /\ CriticalPathCuts(a, groups) = Cardinality(CutPairs(a, groups))
           /\ Cardinality(CutPairs(a, groups)) \in Nat
<1> DEFINE N == 1..(Len(a.critPath) - 1)
<1>1. \A f \in Fn : /\ Assigned(groups, f)
                    /\ GroupIndex(groups, f) \in 1..Len(groups)
                    /\ f \in groups[GroupIndex(groups, f)]
  BY DEF IsPartition, PairwiseDisjoint, GroupIndex, Assigned
<1>2. \A f, g \in Fn :
         GroupIndex(groups, f) # GroupIndex(groups, g) <=> Apart(groups, f, g)
  <2> SUFFICES ASSUME NEW f \in Fn, NEW g \in Fn
               PROVE  GroupIndex(groups, f) = GroupIndex(groups, g)
                         <=> Together(groups, f, g)
    BY <1>1 DEF Apart
  <2>1. ASSUME NEW i \in 1..Len(groups), f \in groups[i], g \in groups[i]
        PROVE  GroupIndex(groups, f) = i /\ GroupIndex(groups, g) = i
    BY <1>1, <2>1 DEF IsPartition, PairwiseDisjoint
  <2> QED
    BY <1>1, <2>1 DEF Together
<1>3. a.critPath \in Seq(Fn) /\ Len(a.critPath) \in Nat
  BY LenProperties DEF Application
<1>4. \A i \in N : a.critPath[i] \in Fn /\ a.critPath[i + 1] \in Fn
  <2>1. \A i \in N : i \in 1..Len(a.critPath) /\ i + 1 \in 1..Len(a.critPath)
    BY <1>3
  <2> QED
    BY <1>3, <2>1, ElementOfSeq
<1>5. CutPairs(a, groups) = {i \in N : GroupIndex(groups, a.critPath[i])
                                          # GroupIndex(groups, a.critPath[i + 1])}
  BY <1>2, <1>4 DEF CutPairs
<1>6. IsFiniteSet(CutPairs(a, groups))
  <2>1. IsFiniteSet(N)
    <3>1. Len(a.critPath) - 1 \in Int
      BY <1>3
    <3> QED
      BY <3>1, FS_Interval
  <2> QED
    BY <2>1, FS_Subset DEF CutPairs
<1> QED
  BY <1>5, <1>6, FS_CardinalityType DEF CriticalPathCuts

LEMMA PathRuntimeInt ==
    ASSUME NEW a, Application(a)
    PROVE  CriticalPathRuntimeMs(a) \in Int
<1> DEFINE N == 1..Len(a.critPath)
           w == [i \in N |-> RuntimeMs(a, a.critPath[i])]
<1>1. a.critPath \in Seq(Fn) /\ Len(a.critPath) \in Nat
  BY LenProperties DEF Application
<1>2. IsFiniteSet(N)
  BY <1>1, FS_Interval
<1>3. \A i \in N : a.critPath[i] \in Fn
  BY <1>1, ElementOfSeq
<1>4. \A i \in N : w[i] \in Int
  BY <1>3, ChargeTypes
<1>5. CriticalPathRuntimeMs(a) = SumFunctionOnSet(w, N)
  BY DEF CriticalPathRuntimeMs, SumFunction
<1> HIDE DEF N, w
<1> QED
  BY <1>2, <1>4, <1>5, SumInt

(* The latency of two partitions differs by the hops counted.              *)
LEMMA LatencyDifference ==
    ASSUME NEW a, Application(a),
           NEW gs \in Seq(SUBSET Fn), IsPartition(gs),
           NEW hs \in Seq(SUBSET Fn), IsPartition(hs)
    PROVE  Latency(a, gs) - Latency(a, hs)
              = a.hop * (CriticalPathCuts(a, gs) - CriticalPathCuts(a, hs))
<1>1. /\ CriticalPathCuts(a, gs) = Cardinality(CutPairs(a, gs))
      /\ CriticalPathCuts(a, hs) = Cardinality(CutPairs(a, hs))
      /\ Cardinality(CutPairs(a, gs)) \in Nat
      /\ Cardinality(CutPairs(a, hs)) \in Nat
  BY CutsAreCounted
<1>2. CriticalPathRuntimeMs(a) \in Int /\ a.hop \in Nat
  BY PathRuntimeInt DEF Application
<1>3. \A r, h, x, y \in Int : (r + h * x) - (r + h * y) = h * (x - y)
  OBVIOUS
<1> QED
  BY <1>1, <1>2, <1>3 DEF Latency
=============================================================================
