---------------------------- MODULE IngestProofs ----------------------------
(***************************************************************************)
(* What reaches the algorithms, for every file and every telemetry: an     *)
(* application as they assume it, measurements that are a function's own,  *)
(* and rates of one source.                                                *)
(***************************************************************************)
EXTENDS Ingest, FusionCostProofs

-----------------------------------------------------------------------------
(* FlattenSeq of the community modules.  It is a recursive function over   *)
(* the indices; that there is one follows from tables up to n.             *)

FlattenTable(seqs, n, h) ==
    h = [i \in 1..n |-> IF i = 1 THEN seqs[i] ELSE h[i - 1] \o seqs[i]]

LEMMA FlattenTableExists ==
    ASSUME NEW seqs, NEW n \in Nat
    PROVE  \E h : FlattenTable(seqs, n, h)
<1> DEFINE Bad == {k \in Nat : ~ \E h : FlattenTable(seqs, k, h)}
<1>1. SUFFICES ASSUME Bad # {} PROVE FALSE
  OBVIOUS
<1>2. PICK m \in Bad : \A k \in Bad : m <= k
  <2>1. Bad \in SUBSET Nat
    OBVIOUS
  <2> HIDE DEF Bad
  <2> QED
    BY <1>1, <2>1, LeastNumber
<1>3. m \in Nat /\ ~ \E h : FlattenTable(seqs, m, h)
  BY <1>2
<1>4. m # 0
  <2>1. 1..0 = {}
    OBVIOUS
  <2> DEFINE none == [i \in {} |-> seqs]
  <2>2. none = [i \in 1..0 |-> IF i = 1 THEN seqs[i] ELSE none[i - 1] \o seqs[i]]
    BY <2>1
  <2>3. FlattenTable(seqs, 0, none)
    BY <2>2 DEF FlattenTable
  <2> QED
    BY <1>3, <2>3
<1>5. m - 1 \in Nat /\ ~ m <= m - 1
  BY <1>3, <1>4
<1>6. PICK h : FlattenTable(seqs, m - 1, h)
  BY <1>2, <1>5
<1> DEFINE e(i) == IF i = 1 THEN seqs[i] ELSE h[i - 1] \o seqs[i]
           g == [i \in 1..m |-> e(i)]
<1>7. \A i \in 1..(m - 1) : h[i] = e(i)
  BY <1>6 DEF FlattenTable
<1> HIDE DEF e
<1>8. \A i \in 1..m : i # 1 => g[i - 1] = h[i - 1]
  <2> SUFFICES ASSUME NEW i \in 1..m, i # 1
               PROVE  g[i - 1] = h[i - 1]
    OBVIOUS
  <2>1. i - 1 \in 1..m /\ i - 1 \in 1..(m - 1)
    BY <1>3
  <2> QED
    BY <1>7, <2>1
<1>9. \A i \in 1..m : g[i] = IF i = 1 THEN seqs[i] ELSE g[i - 1] \o seqs[i]
  <2>1. \A i \in 1..m : g[i] = IF i = 1 THEN seqs[i] ELSE h[i - 1] \o seqs[i]
    BY DEF e
  <2> HIDE DEF g
  <2> QED
    BY <1>8, <2>1
<1>10. g = [i \in 1..m |-> IF i = 1 THEN seqs[i] ELSE g[i - 1] \o seqs[i]]
  <2>1. g = [i \in 1..m |-> g[i]]
    OBVIOUS
  <2> HIDE DEF g
  <2> QED
    BY <1>9, <2>1
<1> HIDE DEF g
<1> QED
  BY <1>3, <1>10 DEF FlattenTable

(* The last entry of the table is the sequence.                            *)
LEMMA FlattenIsItsTable ==
    ASSUME NEW seqs, Len(seqs) \in Nat, Len(seqs) # 0
    PROVE  \E h : /\ FlattenSeq(seqs) = h[Len(seqs)]
                  /\ \A i \in 1..Len(seqs) :
                        h[i] = IF i = 1 THEN seqs[i] ELSE h[i - 1] \o seqs[i]
<1> DEFINE n == Len(seqs)
           h == CHOOSE f : f = [i \in 1..n |-> IF i = 1 THEN seqs[i]
                                               ELSE f[i - 1] \o seqs[i]]
<1>1. h = [i \in 1..n |-> IF i = 1 THEN seqs[i] ELSE h[i - 1] \o seqs[i]]
  <2>1. \E f : FlattenTable(seqs, n, f)
    BY FlattenTableExists
  <2>2. \E f : f = [i \in 1..n |-> IF i = 1 THEN seqs[i] ELSE f[i - 1] \o seqs[i]]
    BY <2>1 DEF FlattenTable
  <2> QED
    BY <2>2, Zenon
<1>2. FlattenSeq(seqs) = h[n]
  BY Zenon DEF FlattenSeq
<1> HIDE DEF h
<1>3. \A i \in 1..n : h[i] = IF i = 1 THEN seqs[i] ELSE h[i - 1] \o seqs[i]
  BY <1>1
<1> QED
  BY <1>2, <1>3

(* Two sequences one after the other. *)
LEMMA ConcatIndices ==
    ASSUME NEW S, NEW p \in Seq(S), NEW q \in Seq(S)
    PROVE  /\ p \o q \in Seq(S)
           /\ \A k \in 1..Len(p \o q) :
                 \/ k \in 1..Len(p) /\ (p \o q)[k] = p[k]
                 \/ k - Len(p) \in 1..Len(q) /\ (p \o q)[k] = q[k - Len(p)]
<1>1. /\ p \o q \in Seq(S) /\ Len(p \o q) = Len(p) + Len(q)
      /\ Len(p) \in Nat /\ Len(q) \in Nat
      /\ \A i \in 1..Len(p) + Len(q) :
            (p \o q)[i] = IF i <= Len(p) THEN p[i] ELSE q[i - Len(p)]
  BY ConcatProperties, LenProperties
<1> DEFINE w == p \o q
<1> HIDE DEF w
<1>2. \A k \in 1..Len(w) : \/ k \in 1..Len(p) /\ w[k] = p[k]
                           \/ k - Len(p) \in 1..Len(q) /\ w[k] = q[k - Len(p)]
  BY <1>1 DEF w
<1> QED
  BY <1>1, <1>2 DEF w

(* Its elements are the elements of the sequences. *)
LEMMA FlattenShape ==
    ASSUME NEW S, NEW seqs \in Seq(Seq(S))
    PROVE  /\ FlattenSeq(seqs) \in Seq(S)
           /\ \A z : (\E k \in 1..Len(FlattenSeq(seqs)) : FlattenSeq(seqs)[k] = z)
                     <=> (\E i \in 1..Len(seqs) : \E j \in 1..Len(seqs[i]) : seqs[i][j] = z)
<1> DEFINE n == Len(seqs)
<1>1. n \in Nat /\ \A i \in 1..n : seqs[i] \in Seq(S)
  BY ElementOfSeq, LenProperties
<1>2. CASE n = 0
  <2>1. seqs = <<>> /\ FlattenSeq(seqs) = <<>>
    BY <1>2, EmptySeq DEF FlattenSeq
  <2>2. <<>> \in Seq(S) /\ Len(<<>>) = 0 /\ 1..0 = {}
    OBVIOUS
  <2> DEFINE r == FlattenSeq(seqs)
  <2>3. r \in Seq(S) /\ Len(r) = 0 /\ Len(seqs) = 0
    BY <2>1, <2>2
  <2> HIDE DEF r
  <2>4. r \in Seq(S) /\ 1..Len(r) = {} /\ 1..Len(seqs) = {}
    BY <2>2, <2>3
  <2> QED
    BY <2>4 DEF r
<1>3. CASE n # 0
  <2>1. PICK h : FlattenSeq(seqs) = h[n]
                 /\ \A i \in 1..n : h[i] = IF i = 1 THEN seqs[i] ELSE h[i - 1] \o seqs[i]
    BY <1>1, <1>3, FlattenIsItsTable
  <2>2. FlattenSeq(seqs) = h[n]
    BY <2>1
  <2>3. \A i \in 1..n : h[i] = IF i = 1 THEN seqs[i] ELSE h[i - 1] \o seqs[i]
    BY <2>1
  <2> DEFINE In(z, m) == \E i \in 1..m : \E j \in 1..Len(seqs[i]) : seqs[i][j] = z
             Good(m) == /\ h[m] \in Seq(S)
                        /\ \A z : (\E k \in 1..Len(h[m]) : h[m][k] = z) <=> In(z, m)
             Bad == {m \in 1..n : ~ Good(m)}
  <2>4. SUFFICES ASSUME Bad # {} PROVE FALSE
    <3>1. n \in 1..n
      BY <1>1, <1>3
    <3>2. Bad = {} => Good(n)
      BY <3>1
    <3> QED
      BY <2>2, <3>2
  <2>5. PICK m \in Bad : \A k \in Bad : m <= k
    <3>1. Bad \in SUBSET Nat
      BY <1>1
    <3> HIDE DEF Bad
    <3> QED
      BY <2>4, <3>1, LeastNumber
  <2>6. m \in 1..n /\ m \in Nat /\ ~ Good(m)
    BY <1>1, <2>5
  <2>7. m # 1
    <3>1. m = 1 => h[m] = seqs[1] /\ 1..m = {1}
      BY <2>3, <2>6
    <3>2. m = 1 => \A z : In(z, m) <=> \E j \in 1..Len(seqs[1]) : seqs[1][j] = z
      BY <3>1
    <3>3. m = 1 => Good(m)
      BY <1>1, <2>6, <3>1, <3>2
    <3> QED
      BY <2>6, <3>3
  <2>8. m - 1 \in 1..n /\ m - 1 \in Nat /\ ~ m <= m - 1
    BY <2>6, <2>7
  <2>9. Good(m - 1)
    <3>1. m - 1 \notin Bad
      BY <2>5, <2>8
    <3> QED
      BY <2>8, <3>1
  <2> DEFINE p == h[m - 1]
             q == seqs[m]
  <2>10. p \in Seq(S) /\ q \in Seq(S) /\ h[m] = p \o q
    BY <1>1, <2>3, <2>6, <2>7, <2>9
  <2>11. \A z : (\E k \in 1..Len(p) : p[k] = z) <=> In(z, m - 1)
    BY <2>9
  <2>12. \A z : In(z, m) <=> In(z, m - 1) \/ \E j \in 1..Len(q) : q[j] = z
    <3>1. 1..m = (1..(m - 1)) \cup {m}
      BY <2>6
    <3> QED
      BY <3>1
  <2> HIDE DEF p, q, In
  <2>13. /\ p \o q \in Seq(S)
         /\ \A z : (\E k \in 1..Len(p \o q) : (p \o q)[k] = z)
                   <=> \/ \E k \in 1..Len(p) : p[k] = z
                       \/ \E k \in 1..Len(q) : q[k] = z
    <3>1. /\ p \o q \in Seq(S) /\ Len(p \o q) = Len(p) + Len(q)
          /\ Len(p) \in Nat /\ Len(q) \in Nat
          /\ \A i \in 1..Len(p) + Len(q) :
                (p \o q)[i] = IF i <= Len(p) THEN p[i] ELSE q[i - Len(p)]
      BY <2>10, ConcatProperties, LenProperties
    <3> DEFINE w == p \o q
    <3> HIDE DEF w
    <3>2. \A k \in 1..Len(p) : k \in 1..Len(w) /\ w[k] = p[k]
      BY <3>1 DEF w
    <3>3. \A k \in 1..Len(q) : k + Len(p) \in 1..Len(w) /\ w[k + Len(p)] = q[k]
      BY <3>1 DEF w
    <3>4. \A k \in 1..Len(w) : \/ (k \in 1..Len(p) /\ w[k] = p[k])
                              \/ (k - Len(p) \in 1..Len(q) /\ w[k] = q[k - Len(p)])
      BY <3>1 DEF w
    <3>5. \A z : (\E k \in 1..Len(w) : w[k] = z)
                 <=> \/ \E k \in 1..Len(p) : p[k] = z
                     \/ \E k \in 1..Len(q) : q[k] = z
      BY <3>2, <3>3, <3>4
    <3> QED
      BY <3>1, <3>5 DEF w
  <2>14. Good(m)
    BY <2>10, <2>11, <2>12, <2>13
  <2> QED
    BY <2>6, <2>14
<1> QED
  BY <1>2, <1>3

(* It lists nothing twice if none of the sequences does, nor two of them   *)
(* the same.                                                               *)
LEMMA FlattenKeepsApart ==
    ASSUME NEW S, NEW seqs \in Seq(Seq(S)),
           \A i \in 1..Len(seqs) : \A j, k \in 1..Len(seqs[i]) :
              seqs[i][j] = seqs[i][k] => j = k,
           \A i, j \in 1..Len(seqs) : \A k \in 1..Len(seqs[i]) : \A l \in 1..Len(seqs[j]) :
              seqs[i][k] = seqs[j][l] => i = j
    PROVE  \A k, l \in 1..Len(FlattenSeq(seqs)) :
              FlattenSeq(seqs)[k] = FlattenSeq(seqs)[l] => k = l
<1> DEFINE n == Len(seqs)
<1>1. n \in Nat /\ \A i \in 1..n : seqs[i] \in Seq(S)
  BY ElementOfSeq, LenProperties
<1>2. CASE n = 0
  <2>1. seqs = <<>> /\ FlattenSeq(seqs) = <<>>
    BY <1>2, EmptySeq DEF FlattenSeq
  <2> DEFINE r == FlattenSeq(seqs)
  <2>2. Len(r) = 0
    BY <2>1
  <2> HIDE DEF r
  <2>3. 1..Len(r) = {}
    BY <2>2
  <2> QED
    BY <2>3 DEF r
<1>3. CASE n # 0
  <2>1. PICK h : FlattenSeq(seqs) = h[n]
                 /\ \A i \in 1..n : h[i] = IF i = 1 THEN seqs[i] ELSE h[i - 1] \o seqs[i]
    BY <1>1, <1>3, FlattenIsItsTable
  <2> DEFINE In(z, m) == \E i \in 1..m : \E j \in 1..Len(seqs[i]) : seqs[i][j] = z
             Good(m) == /\ h[m] \in Seq(S)
                        /\ \A k \in 1..Len(h[m]) : In(h[m][k], m)
                        /\ \A k, l \in 1..Len(h[m]) : h[m][k] = h[m][l] => k = l
             Bad == {m \in 1..n : ~ Good(m)}
  <2>2. SUFFICES ASSUME Bad # {} PROVE FALSE
    <3>1. n \in 1..n
      BY <1>1, <1>3
    <3>2. Bad = {} => Good(n)
      BY <3>1
    <3> QED
      BY <2>1, <3>2
  <2>3. PICK m \in Bad : \A k \in Bad : m <= k
    <3>1. Bad \in SUBSET Nat
      BY <1>1
    <3> HIDE DEF Bad
    <3> QED
      BY <2>2, <3>1, LeastNumber
  <2>4. m \in 1..n /\ m \in Nat /\ ~ Good(m)
    BY <1>1, <2>3
  <2>5. m # 1
    <3>1. m = 1 => h[m] = seqs[1] /\ 1 \in 1..m
      BY <2>1, <2>4
    <3>2. m = 1 => Good(m)
      BY <1>1, <2>4, <3>1
    <3> QED
      BY <2>4, <3>2
  <2>6. m - 1 \in 1..n /\ m - 1 \in Nat /\ ~ m <= m - 1
    BY <2>4, <2>5
  <2>7. Good(m - 1)
    <3>1. m - 1 \notin Bad
      BY <2>3, <2>6
    <3> QED
      BY <2>6, <3>1
  <2> DEFINE p == h[m - 1]
             q == seqs[m]
             w == p \o q
  <2>8. p \in Seq(S) /\ q \in Seq(S) /\ h[m] = w
    BY <1>1, <2>1, <2>4, <2>5, <2>7
  <2>9. /\ \A k \in 1..Len(p) : In(p[k], m - 1)
        /\ \A k, l \in 1..Len(p) : p[k] = p[l] => k = l
    BY <2>7
  <2>10. \A k, l \in 1..Len(q) : q[k] = q[l] => k = l
    BY <2>4
  <2>11. \A z : \A l \in 1..Len(q) : In(z, m - 1) => z # q[l]
    <3> SUFFICES ASSUME NEW z, NEW l \in 1..Len(q), In(z, m - 1), z = q[l]
                 PROVE  FALSE
      OBVIOUS
    <3>1. PICK i \in 1..(m - 1) : \E j \in 1..Len(seqs[i]) : seqs[i][j] = z
      OBVIOUS
    <3>2. i \in 1..n /\ i # m
      BY <2>4, <2>6
    <3> QED
      BY <2>4, <3>1, <3>2
  <2>12. \A z : In(z, m) <=> In(z, m - 1) \/ \E l \in 1..Len(q) : q[l] = z
    <3>1. 1..m = (1..(m - 1)) \cup {m}
      BY <2>4
    <3> QED
      BY <3>1
  <2> HIDE DEF p, q, In
  <2>13. /\ w \in Seq(S)
         /\ \A k \in 1..Len(w) :
               \/ k \in 1..Len(p) /\ w[k] = p[k]
               \/ k - Len(p) \in 1..Len(q) /\ w[k] = q[k - Len(p)]
    BY <2>8, ConcatIndices
  <2>14. Len(p) \in Nat /\ Len(w) \in Nat
    BY <2>8, <2>13, LenProperties
  <2> HIDE DEF w
  <2>15. \A k \in 1..Len(w) : In(w[k], m)
    BY <2>9, <2>12, <2>13
  <2>16. ASSUME NEW k \in 1..Len(w), NEW l \in 1..Len(w), w[k] = w[l]
         PROVE  k = l
    <3>1. ~ (k \in 1..Len(p) /\ w[k] = p[k]
             /\ l - Len(p) \in 1..Len(q) /\ w[l] = q[l - Len(p)])
      BY <2>9, <2>11, <2>16
    <3>2. ~ (l \in 1..Len(p) /\ w[l] = p[l]
             /\ k - Len(p) \in 1..Len(q) /\ w[k] = q[k - Len(p)])
      BY <2>9, <2>11, <2>16
    <3>3. CASE k \in 1..Len(p) /\ w[k] = p[k] /\ l \in 1..Len(p) /\ w[l] = p[l]
      BY <2>9, <2>16, <3>3
    <3>4. CASE /\ k - Len(p) \in 1..Len(q) /\ w[k] = q[k - Len(p)]
               /\ l - Len(p) \in 1..Len(q) /\ w[l] = q[l - Len(p)]
      <4>1. k - Len(p) = l - Len(p)
        BY <2>10, <2>16, <3>4
      <4>2. k \in Int /\ l \in Int
        OBVIOUS
      <4> QED
        BY <2>14, <4>1, <4>2
    <3> QED
      BY <2>13, <3>1, <3>2, <3>3, <3>4
  <2>17. Good(m)
    BY <2>8, <2>13, <2>15, <2>16
  <2> QED
    BY <2>4, <2>17
<1> QED
  BY <1>2, <1>3

-----------------------------------------------------------------------------
(* The walks of the maps.                                                  *)

LEMMA YamlTypes ==
    ASSUME yaml \in Yamls
    PROVE  /\ yaml.mem \in [Fn -> Nat] /\ yaml.timeout \in [Fn -> Nat]
           /\ yaml.avgDuration \in [Fn -> Nat] /\ yaml.count \in [Fn -> Nat]
           /\ yaml.calls \subseteq (Fn \cup {Unknown}) \X (Fn \cup {Unknown})
           /\ yaml.path \in Seq(Fn \cup {Unknown})
           /\ yaml.endsIn \subseteq Fn \X Fn
           /\ yaml.providerMem \in Nat /\ yaml.providerTimeout \in Nat
           /\ yaml.maxMem \in Nat /\ yaml.maxLat \in Nat /\ yaml.hop \in Nat
           /\ yaml.price \in Nat
BY YamlsAssumption

(* What is kept of the path: the functions it names. *)
LEMMA KnownShape ==
    ASSUME NEW path \in Seq(Fn \cup {Unknown})
    PROVE  /\ Known(path) \in Seq(Fn)
           /\ \A f : (\E k \in 1..Len(Known(path)) : Known(path)[k] = f)
                     <=> f \in Fn /\ \E i \in 1..Len(path) : path[i] = f
<1> DEFINE e(i) == IF path[i] \in Fn THEN <<path[i]>> ELSE <<>>
           s == [i \in 1..Len(path) |-> e(i)]
<1>1. Len(path) \in Nat
  BY LenProperties
<1>2. \A i \in 1..Len(path) : e(i) \in Seq(Fn)
  OBVIOUS
<1>3. \A i \in 1..Len(path) : \A f :
         (\E j \in 1..Len(e(i)) : e(i)[j] = f) <=> path[i] \in Fn /\ path[i] = f
  <2> SUFFICES ASSUME NEW i \in 1..Len(path), NEW f
               PROVE  (\E j \in 1..Len(e(i)) : e(i)[j] = f)
                      <=> path[i] \in Fn /\ path[i] = f
    OBVIOUS
  <2>1. CASE path[i] \in Fn
    <3>1. e(i) = <<path[i]>> /\ Len(e(i)) = 1 /\ e(i)[1] = path[i]
      BY <2>1
    <3> HIDE DEF e
    <3> QED
      BY <2>1, <3>1
  <2>2. CASE path[i] \notin Fn
    <3>1. e(i) = <<>> /\ Len(e(i)) = 0
      BY <2>2
    <3> HIDE DEF e
    <3> QED
      BY <2>2, <3>1
  <2> QED
    BY <2>1, <2>2
<1>4. Known(path) = FlattenSeq(s)
  BY DEF Known
<1> HIDE DEF e
<1>5. s \in Seq(Seq(Fn)) /\ Len(s) = Len(path) /\ \A i \in 1..Len(path) : s[i] = e(i)
  <2>1. s \in [1..Len(path) -> Seq(Fn)]
    BY <1>2
  <2>2. s \in Seq(Seq(Fn))
    BY <1>1, <2>1, SeqDef
  <2> QED
    BY <1>1, <2>1, <2>2, LenProperties
<1> HIDE DEF s
<1>6. /\ FlattenSeq(s) \in Seq(Fn)
      /\ \A f : (\E k \in 1..Len(FlattenSeq(s)) : FlattenSeq(s)[k] = f)
                <=> (\E i \in 1..Len(s) : \E j \in 1..Len(s[i]) : s[i][j] = f)
  <2>1. s \in Seq(Seq(Fn))
    BY <1>5
  <2> QED
    BY <2>1, FlattenShape
<1>7. \A f : (\E i \in 1..Len(s) : \E j \in 1..Len(s[i]) : s[i][j] = f)
             <=> f \in Fn /\ \E i \in 1..Len(path) : path[i] = f
  <2>1. \A f : (\E i \in 1..Len(s) : \E j \in 1..Len(s[i]) : s[i][j] = f)
               <=> \E i \in 1..Len(path) : \E j \in 1..Len(e(i)) : e(i)[j] = f
    BY <1>5
  <2>2. \A f : (\E i \in 1..Len(path) : \E j \in 1..Len(e(i)) : e(i)[j] = f)
               <=> \E i \in 1..Len(path) : path[i] \in Fn /\ path[i] = f
    BY <1>3
  <2> QED
    BY <2>1, <2>2
<1> QED
  BY <1>4, <1>6, <1>7

(* An order lists every member once. *)
LEMMA OrderShape ==
    ASSUME NEW S \in SUBSET Fn, NEW s \in Orders(S)
    PROVE  /\ s \in Seq(S) /\ DOMAIN s = 1..Len(s)
           /\ \A i, j \in 1..Len(s) : s[i] = s[j] => i = j
           /\ \A f \in S : \E i \in 1..Len(s) : s[i] = f
<1> DEFINE n == Cardinality(S)
<1>1. n \in Nat
  BY FnAssumption, FS_Subset, FS_CardinalityType
<1>2. /\ s \in [1..n -> S]
      /\ \A i, j \in DOMAIN s : s[i] = s[j] => i = j
      /\ \A f \in S : \E i \in 1..n : s[i] = f
  BY DEF Orders, Bijection, Injection, Surjection, IsInjective
<1> HIDE DEF n
<1>3. s \in Seq(S)
  BY <1>1, <1>2, SeqDef
<1>4. DOMAIN s = 1..Len(s) /\ DOMAIN s = 1..n
  BY <1>2, <1>3, LenProperties
<1> QED
  BY <1>2, <1>3, <1>4

(* The path and then the rest covers every function, each once as long as  *)
(* the path names none twice.                                              *)
LEMMA WalkShape ==
    ASSUME NEW path \in Seq(Fn \cup {Unknown}), NEW s \in PathThenRest(path)
    PROVE  /\ s \in Seq(Fn) /\ DOMAIN s = 1..Len(s)
           /\ \A f \in Fn : \E i \in 1..Len(s) : s[i] = f
           /\ Distinct(Known(path)) =>
                 \A i, j \in 1..Len(s) : s[i] = s[j] => i = j
<1> DEFINE R == Fn \ ToSet(path)
           k == Known(path)
<1>1. PICK rest \in Orders(R) : s = k \o rest
  BY DEF PathThenRest
<1>2. /\ k \in Seq(Fn)
      /\ \A f : (\E i \in 1..Len(k) : k[i] = f)
                <=> f \in Fn /\ \E i \in 1..Len(path) : path[i] = f
  BY KnownShape
<1>3. \A f : f \in ToSet(path) <=> \E i \in 1..Len(path) : path[i] = f
  BY LenProperties DEF ToSet
<1>4. R \in SUBSET Fn
  OBVIOUS
<1>5. \A f : f \in R <=> f \in Fn /\ ~ \E i \in 1..Len(path) : path[i] = f
  BY <1>3
<1> HIDE DEF R
<1>6. /\ rest \in Seq(R)
      /\ \A i, j \in 1..Len(rest) : rest[i] = rest[j] => i = j
      /\ \A f \in R : \E i \in 1..Len(rest) : rest[i] = f
  BY <1>4, OrderShape
<1>7. Distinct(k) => \A i, j \in 1..Len(k) : k[i] = k[j] => i = j
  <2>1. DOMAIN k = 1..Len(k)
    BY <1>2, LenProperties
  <2> HIDE DEF k
  <2> QED
    BY <2>1 DEF Distinct
<1> HIDE DEF k
<1>8. /\ rest \in Seq(Fn) /\ Len(k) \in Nat /\ Len(rest) \in Nat
      /\ \A i \in 1..Len(k) : k[i] \in Fn
      /\ \A i \in 1..Len(rest) : rest[i] \in R /\ rest[i] \in Fn
  <2>1. \A i \in 1..Len(rest) : rest[i] \in R
    BY <1>6, ElementOfSeq
  <2>2. rest \in Seq(Fn)
    BY <1>4, <1>6
  <2> QED
    BY <1>2, <1>4, <2>1, <2>2, ElementOfSeq, LenProperties
<1>9. /\ s \in Seq(Fn) /\ Len(s) = Len(k) + Len(rest) /\ DOMAIN s = 1..Len(s)
      /\ \A i \in 1..Len(k) + Len(rest) :
            s[i] = IF i <= Len(k) THEN k[i] ELSE rest[i - Len(k)]
  BY <1>1, <1>2, <1>8, ConcatProperties, LenProperties
<1>10. \A i \in 1..Len(k) : i \in 1..Len(s) /\ s[i] = k[i]
  BY <1>8, <1>9
<1>11. ASSUME NEW i \in 1..Len(rest)
       PROVE  i + Len(k) \in 1..Len(s) /\ s[i + Len(k)] = rest[i]
  <2>1. /\ i + Len(k) \in 1..Len(k) + Len(rest)
        /\ ~ (i + Len(k) <= Len(k)) /\ (i + Len(k)) - Len(k) = i
    BY <1>8
  <2> QED
    BY <1>9, <2>1
<1>12. \A f \in Fn : \E i \in 1..Len(s) : s[i] = f
  <2> SUFFICES ASSUME NEW f \in Fn
               PROVE  \E i \in 1..Len(s) : s[i] = f
    OBVIOUS
  <2>1. CASE f \in R
    BY <1>6, <1>11, <2>1
  <2>2. CASE f \notin R
    BY <1>2, <1>5, <1>10, <2>2
  <2> QED
    BY <2>1, <2>2
<1>13. ASSUME Distinct(k), NEW i \in 1..Len(s), NEW j \in 1..Len(s), s[i] = s[j]
       PROVE  i = j
  <2>1. \A a \in 1..Len(k) : \A b \in 1..Len(rest) : k[a] # rest[b]
    BY <1>2, <1>5, <1>8
  <2>2. CASE i <= Len(k) /\ j <= Len(k)
    <3>1. i \in 1..Len(k) /\ j \in 1..Len(k)
      BY <1>8, <1>9, <2>2
    <3> QED
      BY <1>7, <1>10, <1>13, <3>1
  <2>3. CASE i <= Len(k) /\ ~ j <= Len(k)
    <3>1. i \in 1..Len(k) /\ j - Len(k) \in 1..Len(rest)
      BY <1>8, <1>9, <2>3
    <3> QED
      BY <1>9, <1>13, <2>1, <2>3, <3>1
  <2>4. CASE ~ i <= Len(k) /\ j <= Len(k)
    <3>1. j \in 1..Len(k) /\ i - Len(k) \in 1..Len(rest)
      BY <1>8, <1>9, <2>4
    <3> QED
      BY <1>9, <1>13, <2>1, <2>4, <3>1
  <2>5. CASE ~ i <= Len(k) /\ ~ j <= Len(k)
    <3>1. i - Len(k) \in 1..Len(rest) /\ j - Len(k) \in 1..Len(rest)
      BY <1>8, <1>9, <2>5
    <3>2. s[i] = rest[i - Len(k)] /\ s[j] = rest[j - Len(k)]
      BY <1>9, <2>5
    <3>3. i - Len(k) = j - Len(k)
      BY <1>6, <1>13, <3>1, <3>2
    <3> QED
      BY <1>8, <3>3
  <2> QED
    BY <2>2, <2>3, <2>4, <2>5
<1> QED
  BY <1>9, <1>12, <1>13 DEF k

(* A row goes to a function whose id its log group ends in, so a function  *)
(* whose id ends no other takes at most its own.                           *)
LEMMA OwnRow ==
    ASSUME yaml.endsIn \subseteq Fn \X Fn, NEW measured \in SUBSET Fn,
           NEW given \in Rows!Attributions(measured)
    PROVE  \A f \in Fn :
              /\ given[f] = NoFn \/ given[f] \in measured
              /\ (\A g \in Fn : <<g, f>> \notin yaml.endsIn) =>
                    /\ given[f] = NoFn \/ given[f] = f
                    /\ f \in measured /\ (\A g \in Fn : <<f, g>> \notin yaml.endsIn)
                          => given[f] = f
<1>1. PICK order \in Rows!Bijection(Fn, 1..Rows!Cardinality(Fn)) :
         \A f \in Fn :
            LET mine == {row \in measured : Rows!Matched(order, row) = f}
            IN IF mine = {} THEN given[f] = NoFn ELSE given[f] \in mine
  BY DEF Rows!Attributions
<1>2. \A f \in Fn : order[f] \in Int
  <2>1. order \in [Fn -> 1..Rows!Cardinality(Fn)]
    BY DEF Rows!Bijection, Rows!Injection
  <2> QED
    BY <2>1
<1>3. \A row \in Fn : /\ Rows!Matched(order, row) \in Fn
                      /\ Rows!Matches(row, Rows!Matched(order, row))
  <2> SUFFICES ASSUME NEW row \in Fn
               PROVE  /\ Rows!Matched(order, row) \in Fn
                      /\ Rows!Matches(row, Rows!Matched(order, row))
    OBVIOUS
  <2> DEFINE S == {f \in Fn : Rows!Matches(row, f)}
  <2>1. IsFiniteSet(S) /\ S \in SUBSET Fn
    BY FnAssumption, FS_Subset
  <2>2. row \in S
    BY DEF Rows!Matches
  <2>3. \A f \in S : order[f] \in Int
    BY <1>2
  <2>4. \E f \in S : \A g \in S : order[f] <= order[g]
    <3> HIDE DEF S
    <3> QED
      BY <2>1, <2>2, <2>3, LightestMember
  <2>5. \E f \in Fn : /\ Rows!Matches(row, f)
                      /\ \A g \in Fn : Rows!Matches(row, g) => order[f] <= order[g]
    BY <2>4
  <2> QED
    BY <2>5, Zenon DEF Rows!Matched
<1> SUFFICES ASSUME NEW f \in Fn
             PROVE  /\ given[f] = NoFn \/ given[f] \in measured
                    /\ (\A g \in Fn : <<g, f>> \notin yaml.endsIn) =>
                          /\ given[f] = NoFn \/ given[f] = f
                          /\ f \in measured /\ (\A g \in Fn : <<f, g>> \notin yaml.endsIn)
                                => given[f] = f
  OBVIOUS
<1> DEFINE mine == {row \in measured : Rows!Matched(order, row) = f}
<1>4. IF mine = {} THEN given[f] = NoFn ELSE given[f] \in mine
  BY <1>1
<1>5. \A row \in mine : row \in measured /\ row \in Fn
                        /\ (row = f \/ <<row, f>> \in yaml.endsIn)
  <2>1. \A row \in mine : row \in measured /\ row \in Fn /\ Rows!Matched(order, row) = f
    OBVIOUS
  <2>2. \A row \in mine : Rows!Matches(row, f)
    BY <1>3, <2>1
  <2> QED
    BY <2>1, <2>2 DEF Rows!Matches
<1>6. f \in measured /\ (\A g \in Fn : <<f, g>> \notin yaml.endsIn) => f \in mine
  <2> SUFFICES ASSUME f \in measured, \A g \in Fn : <<f, g>> \notin yaml.endsIn
               PROVE  f \in mine
    OBVIOUS
  <2>1. Rows!Matched(order, f) = f
    BY <1>3 DEF Rows!Matches
  <2> QED
    BY <2>1
<1> HIDE DEF mine
<1> QED
  BY <1>4, <1>5, <1>6

-----------------------------------------------------------------------------
(* The stages.                                                             *)

NodeType == [mem : Nat, timeout : Nat, avgDuration : Nat, count : Nat]

(* The parser has every function of the file, in a walk of its own. *)
ParsedInOrder ==
    \E order \in PathThenRest(yaml.path) :
        parsed = [i \in DOMAIN order |-> [id |-> order[i], node |-> Node(order[i])]]

NodesOfTheFile == nodes = [f \in Fn |-> Node(f)]

CallsWired ==
    /\ edges \in Seq(Fn \X Fn) /\ ToSet(edges) = KnownCalls
    /\ Distinct(Known(yaml.path)) => Distinct(edges)

(* The telemetry that came back is on the nodes; without any they are as   *)
(* the file has them.                                                      *)
NodesMeasured ==
    /\ nodes \in [Fn -> NodeType]
    /\ rows = {} => NodesOfTheFile

(* The three properties of Ingest are not inductive on their own: an       *)
(* application is built from what the stages before left.                  *)
IInv ==
    /\ yaml \in Yamls
    /\ at \in {"yaml", "parsed", "graph", "enriched", "app"}
    /\ at = "parsed" => ParsedInOrder
    /\ at = "graph" => NodesOfTheFile
    /\ at \in {"graph", "enriched"} => CallsWired
    /\ at = "enriched" => NodesMeasured
    /\ TelemetryIsItsOwn /\ BuildsAnApplication /\ ChargeIsThatOfOneSource

LEMMA NodeTypes ==
    ASSUME yaml \in Yamls, NEW f \in Fn
    PROVE  Node(f) \in NodeType /\ Node(f).count = yaml.count[f]
<1>1. /\ Defaults.mem \in Nat /\ Defaults.timeout \in Nat
  BY YamlsAssumption
<1>2. /\ yaml.mem[f] \in Nat /\ yaml.timeout[f] \in Nat
      /\ yaml.avgDuration[f] \in Nat /\ yaml.count[f] \in Nat
      /\ yaml.providerMem \in Nat /\ yaml.providerTimeout \in Nat
  BY YamlTypes
<1>3. /\ Default(yaml.mem[f], Default(yaml.providerMem, Defaults.mem)) \in Nat
      /\ Default(yaml.timeout[f], Default(yaml.providerTimeout, Defaults.timeout)) \in Nat
  BY <1>1, <1>2 DEF Default
<1> QED
  BY <1>2, <1>3 DEF Node, NodeType

(* Every call of the file between functions it has is wired, once for each *)
(* time the parser lists the caller, and no other.                         *)
LEMMA CallsAreWired ==
    ASSUME yaml \in Yamls, ParsedInOrder, BuildGraph
    PROVE  /\ edges' \in Seq(Fn \X Fn) /\ ToSet(edges') = KnownCalls
           /\ Distinct(Known(yaml.path)) => Distinct(edges')
<1>1. PICK order \in PathThenRest(yaml.path) :
         parsed = [i \in DOMAIN order |-> [id |-> order[i], node |-> Node(order[i])]]
  BY DEF ParsedInOrder
<1>2. /\ order \in Seq(Fn) /\ DOMAIN order = 1..Len(order)
      /\ \A f \in Fn : \E i \in 1..Len(order) : order[i] = f
      /\ \A i \in 1..Len(order) : order[i] \in Fn
      /\ Len(order) \in Nat
      /\ Distinct(Known(yaml.path)) =>
            \A i, j \in 1..Len(order) : order[i] = order[j] => i = j
  BY YamlTypes, WalkShape, ElementOfSeq, LenProperties
<1>3. DOMAIN parsed = 1..Len(order) /\ \A i \in 1..Len(order) : parsed[i].id = order[i]
  BY <1>1, <1>2
<1> DEFINE CallsOf(f) == {[j \in DOMAIN s |-> <<f, s[j]>>] : s \in Orders(Children(f))}
<1>4. PICK walks \in [DOMAIN parsed -> UNION {CallsOf(f) : f \in Fn}] :
         /\ \A i \in DOMAIN parsed : walks[i] \in CallsOf(parsed[i].id)
         /\ edges' = FlattenSeq(walks)
  BY DEF BuildGraph
<1>5. \A f \in Fn : \A w \in CallsOf(f) :
         /\ w \in Seq(Fn \X Fn)
         /\ \A e : (\E j \in 1..Len(w) : w[j] = e) <=> \E g \in Children(f) : e = <<f, g>>
         /\ \A j, k \in 1..Len(w) : w[j] = w[k] => j = k
  <2> SUFFICES ASSUME NEW f \in Fn, NEW w \in CallsOf(f)
               PROVE  /\ w \in Seq(Fn \X Fn)
                      /\ \A e : (\E j \in 1..Len(w) : w[j] = e)
                                <=> \E g \in Children(f) : e = <<f, g>>
                      /\ \A j, k \in 1..Len(w) : w[j] = w[k] => j = k
    OBVIOUS
  <2>1. PICK s \in Orders(Children(f)) : w = [j \in DOMAIN s |-> <<f, s[j]>>]
    OBVIOUS
  <2>2. Children(f) \in SUBSET Fn
    BY DEF Children
  <2>3. /\ s \in Seq(Children(f)) /\ DOMAIN s = 1..Len(s)
        /\ \A g \in Children(f) : \E i \in 1..Len(s) : s[i] = g
        /\ \A i, j \in 1..Len(s) : s[i] = s[j] => i = j
    BY <2>2, OrderShape
  <2>4. Len(s) \in Nat /\ \A i \in 1..Len(s) : s[i] \in Children(f)
    BY <2>3, ElementOfSeq, LenProperties
  <2>5. w \in [1..Len(s) -> Fn \X Fn]
    BY <2>1, <2>2, <2>3, <2>4
  <2>6. w \in Seq(Fn \X Fn)
    BY <2>4, <2>5, SeqDef
  <2>7. Len(w) = Len(s)
    BY <2>4, <2>5, <2>6, LenProperties
  <2>8. \A j \in 1..Len(w) : w[j] = <<f, s[j]>>
    BY <2>1, <2>3, <2>7
  <2>9. ASSUME NEW j \in 1..Len(w), NEW k \in 1..Len(w), w[j] = w[k]
        PROVE  j = k
    <3>1. <<f, s[j]>> = <<f, s[k]>>
      BY <2>8, <2>9
    <3>2. s[j] = s[k]
      BY <3>1
    <3> QED
      BY <2>3, <2>7, <3>2
  <2>10. \A e : (\E j \in 1..Len(w) : w[j] = e) <=> \E g \in Children(f) : e = <<f, g>>
    <3>1. ASSUME NEW e, NEW j \in 1..Len(w), w[j] = e
          PROVE  \E g \in Children(f) : e = <<f, g>>
      <4>1. e = <<f, s[j]>> /\ s[j] \in Children(f)
        BY <2>4, <2>7, <2>8, <3>1
      <4> QED
        BY <4>1
    <3>2. ASSUME NEW e, NEW g \in Children(f), e = <<f, g>>
          PROVE  \E j \in 1..Len(w) : w[j] = e
      <4>1. PICK j \in 1..Len(s) : s[j] = g
        BY <2>3
      <4>2. j \in 1..Len(w) /\ w[j] = <<f, s[j]>>
        BY <2>7, <2>8, <4>1
      <4> QED
        BY <3>2, <4>1, <4>2
    <3> QED
      BY <3>1, <3>2
  <2> QED
    BY <2>6, <2>9, <2>10
<1>6. \A i \in 1..Len(order) : walks[i] \in CallsOf(order[i])
  BY <1>3, <1>4
<1> HIDE DEF CallsOf
<1>7. \A i \in 1..Len(order) :
         /\ walks[i] \in Seq(Fn \X Fn)
         /\ \A e : (\E j \in 1..Len(walks[i]) : walks[i][j] = e)
                   <=> \E g \in Children(order[i]) : e = <<order[i], g>>
         /\ \A j, k \in 1..Len(walks[i]) : walks[i][j] = walks[i][k] => j = k
  <2> SUFFICES ASSUME NEW i \in 1..Len(order)
               PROVE  /\ walks[i] \in Seq(Fn \X Fn)
                      /\ \A e : (\E j \in 1..Len(walks[i]) : walks[i][j] = e)
                                <=> \E g \in Children(order[i]) : e = <<order[i], g>>
                      /\ \A j, k \in 1..Len(walks[i]) : walks[i][j] = walks[i][k] => j = k
    OBVIOUS
  <2>1. order[i] \in Fn /\ walks[i] \in CallsOf(order[i])
    BY <1>2, <1>6
  <2> DEFINE w == walks[i]
  <2>2. w \in CallsOf(order[i])
    BY <2>1
  <2> HIDE DEF w
  <2>3. /\ w \in Seq(Fn \X Fn)
        /\ \A e : (\E j \in 1..Len(w) : w[j] = e)
                  <=> \E g \in Children(order[i]) : e = <<order[i], g>>
        /\ \A j, k \in 1..Len(w) : w[j] = w[k] => j = k
    BY <1>5, <2>1, <2>2
  <2> QED
    BY <2>3 DEF w
<1>8. walks \in Seq(Seq(Fn \X Fn)) /\ Len(walks) = Len(order)
  <2> DEFINE W == Seq(Fn \X Fn)
  <2>1. walks \in [1..Len(order) -> W]
    BY <1>3, <1>4, <1>7
  <2> HIDE DEF W
  <2>2. walks \in Seq(W)
    BY <1>2, <2>1, SeqDef
  <2>3. Len(walks) = Len(order)
    BY <1>2, <2>1, <2>2, LenProperties
  <2> QED
    BY <2>2, <2>3 DEF W
<1> DEFINE new == FlattenSeq(walks)
<1>9. /\ new \in Seq(Fn \X Fn)
      /\ \A e : (\E k \in 1..Len(new) : new[k] = e)
                <=> (\E i \in 1..Len(walks) : \E j \in 1..Len(walks[i]) : walks[i][j] = e)
  <2>1. walks \in Seq(Seq(Fn \X Fn))
    BY <1>8
  <2> QED
    BY <2>1, FlattenShape
<1>10. edges' = new
  BY <1>4
<1> HIDE DEF new
<1>11. \A e : e \in ToSet(new) <=> \E k \in 1..Len(new) : new[k] = e
  BY <1>9, LenProperties DEF ToSet
<1>12. \A e : (\E i \in 1..Len(walks) : \E j \in 1..Len(walks[i]) : walks[i][j] = e)
              <=> \E i \in 1..Len(order) : \E g \in Children(order[i]) : e = <<order[i], g>>
  <2>1. Len(walks) = Len(order)
    BY <1>8
  <2>2. \A i \in 1..Len(order) : \A e :
           (\E j \in 1..Len(walks[i]) : walks[i][j] = e)
           <=> \E g \in Children(order[i]) : e = <<order[i], g>>
    BY <1>7
  <2> QED
    BY <2>1, <2>2
<1>13. \A e : (\E i \in 1..Len(order) : \E g \in Children(order[i]) : e = <<order[i], g>>)
              <=> \E f \in Fn : \E g \in Children(f) : e = <<f, g>>
  BY <1>2
<1>14. \A e : (\E f \in Fn : \E g \in Children(f) : e = <<f, g>>) <=> e \in KnownCalls
  <2>1. yaml.calls \subseteq (Fn \cup {Unknown}) \X (Fn \cup {Unknown})
    BY YamlTypes
  <2>2. \A e \in yaml.calls : e = <<e[1], e[2]>>
    BY <2>1
  <2> QED
    BY <2>2 DEF KnownCalls, Children
<1>15. \A e : e \in ToSet(new) <=> e \in KnownCalls
  BY <1>9, <1>11, <1>12, <1>13, <1>14
<1>16. ASSUME Distinct(Known(yaml.path))
       PROVE  \A k, l \in 1..Len(new) : new[k] = new[l] => k = l
  <2>1. \A i \in 1..Len(walks) : \A j \in 1..Len(walks[i]) : walks[i][j][1] = order[i]
    <3> SUFFICES ASSUME NEW i \in 1..Len(walks), NEW j \in 1..Len(walks[i])
                 PROVE  walks[i][j][1] = order[i]
      OBVIOUS
    <3>1. i \in 1..Len(order)
      BY <1>8
    <3>2. PICK g \in Children(order[i]) : walks[i][j] = <<order[i], g>>
      BY <1>7, <3>1
    <3> QED
      BY <3>2
  <2>2. \A i, j \in 1..Len(walks) :
           \A k \in 1..Len(walks[i]) : \A l \in 1..Len(walks[j]) :
              walks[i][k] = walks[j][l] => i = j
    <3>1. \A i, j \in 1..Len(walks) : order[i] = order[j] => i = j
      BY <1>2, <1>8, <1>16
    <3> QED
      BY <2>1, <3>1
  <2>3. \A i \in 1..Len(walks) : \A j, k \in 1..Len(walks[i]) :
           walks[i][j] = walks[i][k] => j = k
    BY <1>7, <1>8
  <2>4. walks \in Seq(Seq(Fn \X Fn))
    BY <1>8
  <2> QED
    BY <2>2, <2>3, <2>4, FlattenKeepsApart DEF new
<1>17. DOMAIN new = 1..Len(new)
  BY <1>9, LenProperties
<1> QED
  BY <1>9, <1>10, <1>15, <1>16, <1>17 DEF Distinct

(* The graph has the node of the file under each id. *)
LEMMA NodesAreFound ==
    ASSUME yaml \in Yamls, ParsedInOrder, BuildGraph
    PROVE  nodes' = [f \in Fn |-> Node(f)]
<1>1. PICK order \in PathThenRest(yaml.path) :
         parsed = [i \in DOMAIN order |-> [id |-> order[i], node |-> Node(order[i])]]
  BY DEF ParsedInOrder
<1>2. /\ order \in Seq(Fn) /\ DOMAIN order = 1..Len(order)
      /\ \A f \in Fn : \E i \in 1..Len(order) : order[i] = f
      /\ Len(order) \in Nat
  BY YamlTypes, WalkShape, LenProperties
<1>3. /\ Len(parsed) = Len(order)
      /\ \A i \in 1..Len(order) :
            parsed[i].id = order[i] /\ parsed[i].node = Node(order[i])
  <2> DEFINE T == {parsed[i] : i \in 1..Len(order)}
  <2>1. parsed \in [1..Len(order) -> T]
    BY <1>1, <1>2
  <2> HIDE DEF T
  <2>2. parsed \in Seq(T)
    BY <1>2, <2>1, SeqDef
  <2> QED
    BY <1>1, <1>2, <2>1, <2>2, LenProperties
<1>4. ASSUME NEW f \in Fn
      PROVE  parsed[SelectInSeq(parsed, LAMBDA p : p.id = f)].node = Node(f)
  <2> DEFINE I == {i \in 1..Len(parsed) : parsed[i].id = f}
  <2>1. SelectInSeq(parsed, LAMBDA p : p.id = f) = IF I # {} THEN Min(I) ELSE 0
    BY DEF SelectInSeq
  <2>2. IsFiniteSet(I) /\ (\A i \in I : i \in Int) /\ I # {}
    <3>1. IsFiniteSet(1..Len(order))
      BY <1>2, FS_Interval
    <3> QED
      BY <1>2, <1>3, <3>1, FS_Subset
  <2>3. \A i \in I : parsed[i].node = Node(f)
    BY <1>3
  <2> HIDE DEF I
  <2>4. Min(I) \in I
    BY <2>2, MinExists
  <2> QED
    BY <2>1, <2>2, <2>3, <2>4
<1> QED
  BY <1>4 DEF BuildGraph

(* The caller wired last, if any, is the parent. *)
LEMMA ParentShape ==
    ASSUME yaml \in Yamls, CallsWired, NEW f \in Fn
    PROVE  IF Callers(f) = {} THEN ParentOf(f) = NoFn ELSE ParentOf(f) \in Callers(f)
<1> DEFINE I == {i \in 1..Len(edges) : edges[i][2] = f}
           last == SelectLastInSeq(edges, LAMBDA e : e[2] = f)
<1>1. last = IF I # {} THEN Max(I) ELSE 0
  BY DEF SelectLastInSeq
<1>2. ParentOf(f) = IF last = 0 THEN NoFn ELSE edges[last][1]
  BY DEF ParentOf
<1> HIDE DEF last
<1>3. edges \in Seq(Fn \X Fn) /\ Len(edges) \in Nat /\ DOMAIN edges = 1..Len(edges)
  BY LenProperties DEF CallsWired
<1>4. \A e : e \in KnownCalls <=> \E i \in 1..Len(edges) : edges[i] = e
  BY <1>3 DEF CallsWired, ToSet
<1>5. \A i \in I : edges[i][1] \in Callers(f)
  <2> SUFFICES ASSUME NEW i \in I PROVE edges[i][1] \in Callers(f)
    OBVIOUS
  <2>1. edges[i] \in Fn \X Fn /\ edges[i] \in KnownCalls /\ edges[i][2] = f
    BY <1>3, <1>4, ElementOfSeq
  <2>2. edges[i] = <<edges[i][1], f>> /\ edges[i][1] \in Fn
    BY <2>1
  <2> QED
    BY <2>1, <2>2 DEF KnownCalls, Callers
<1>6. \A g \in Callers(f) : I # {}
  <2> SUFFICES ASSUME NEW g \in Callers(f) PROVE I # {}
    OBVIOUS
  <2>1. <<g, f>> \in KnownCalls
    BY DEF Callers, KnownCalls
  <2>2. PICK i \in 1..Len(edges) : edges[i] = <<g, f>>
    BY <1>4, <2>1
  <2>3. i \in I
    BY <2>2
  <2> QED
    BY <2>3
<1>7. IsFiniteSet(I) /\ \A i \in I : i \in Int /\ i # 0
  <2>1. IsFiniteSet(1..Len(edges))
    BY <1>3, FS_Interval
  <2> QED
    BY <1>3, <2>1, FS_Subset
<1> HIDE DEF I
<1>8. I # {} => Max(I) \in I
  BY <1>7, MaxExists
<1> QED
  BY <1>1, <1>2, <1>5, <1>6, <1>7, <1>8

(* The entry is a function nothing calls; where there is one, it is that   *)
(* one.                                                                    *)
LEMMA EntryShape ==
    ASSUME yaml \in Yamls, CallsWired, NEW functions \in PathThenRest(yaml.path)
    PROVE  /\ EntryFunction(functions) = NoFn \/ EntryFunction(functions) \in Roots
           /\ Roots # {} => EntryFunction(functions) \in Roots
<1> DEFINE I == {i \in 1..Len(functions) : ParentOf(functions[i]) = NoFn}
           i0 == SelectInSeq(functions, LAMBDA f : ParentOf(f) = NoFn)
<1>1. i0 = IF I # {} THEN Min(I) ELSE 0
  BY DEF SelectInSeq
<1>2. EntryFunction(functions) = IF i0 = 0 THEN NoFn ELSE functions[i0]
  BY DEF EntryFunction
<1> HIDE DEF i0
<1>3. /\ functions \in Seq(Fn) /\ Len(functions) \in Nat
      /\ \A i \in 1..Len(functions) : functions[i] \in Fn
      /\ \A f \in Fn : \E i \in 1..Len(functions) : functions[i] = f
  BY YamlTypes, WalkShape, ElementOfSeq, LenProperties
<1>4. \A f \in Fn : ParentOf(f) = NoFn <=> f \in Roots
  <2> SUFFICES ASSUME NEW f \in Fn PROVE ParentOf(f) = NoFn <=> Callers(f) = {}
    BY DEF Roots
  <2>1. Callers(f) \subseteq Fn
    BY DEF Callers
  <2> QED
    BY <2>1, ParentShape, FnAssumption
<1>5. \A i \in I : functions[i] \in Roots
  BY <1>3, <1>4
<1>6. Roots # {} => I # {}
  <2>1. Roots \subseteq Fn
    BY DEF Roots
  <2> QED
    BY <1>3, <1>4, <2>1
<1>7. IsFiniteSet(I) /\ \A i \in I : i \in Int /\ i # 0
  <2>1. IsFiniteSet(1..Len(functions))
    BY <1>3, FS_Interval
  <2> QED
    BY <1>3, <2>1, FS_Subset
<1> HIDE DEF I
<1>8. I # {} => Min(I) \in I
  BY <1>7, MinExists
<1> QED
  BY <1>1, <1>2, <1>5, <1>6, <1>7, <1>8

(* What graphToApp makes of a walk. *)
AppOf(functions) ==
    [functions |-> functions, edges |-> ToSet(edges),
     parent |-> [f \in Fn |-> ParentOf(f)],
     bytes |-> [e \in ToSet(edges) |-> 1],
     mem |-> [f \in Fn |-> nodes[f].mem],
     timeout |-> [f \in Fn |-> nodes[f].timeout],
     avgDuration |-> [f \in Fn |-> nodes[f].avgDuration],
     rate |-> [f \in Fn |-> InvocationRate(EntryFunction(functions), f)],
     critPath |-> Known(yaml.path),
     maxMem |-> Constraints.maxMem, maxLat |-> Constraints.maxLat,
     hop |-> Constraints.hop, transferPrice |-> yaml.price]

LEMMA Quotient ==
    ASSUME NEW n \in Nat, NEW d \in Nat \ {0}
    PROVE  n \div d \in Nat /\ (n >= d => n \div d # 0)
OBVIOUS

LEMMA RateTypes ==
    ASSUME nodes \in [Fn -> NodeType], NEW entry \in Fn \cup {NoFn}, NEW f \in Fn
    PROVE  InvocationRate(entry, f) \in Nat
<1>1. RateUnit \in Nat
  BY RateUnitAssumption
<1>2. nodes[f].count \in Nat /\ (entry # NoFn => nodes[entry].count \in Nat)
  BY DEF NodeType
<1>3. nodes[f].count * RateUnit \in Nat
  BY <1>1, <1>2
<1> QED
  BY <1>1, <1>2, <1>3, Quotient DEF InvocationRate

LEMMA ApplicationIsBuilt ==
    ASSUME yaml \in Yamls, CallsWired, nodes \in [Fn -> NodeType],
           NEW functions \in PathThenRest(yaml.path)
    PROVE  Distinct(Known(yaml.path)) => Application(AppOf(functions))
<1> SUFFICES ASSUME Distinct(Known(yaml.path))
             PROVE  Application(AppOf(functions))
  OBVIOUS
<1> DEFINE a == AppOf(functions)
           path == Known(yaml.path)
<1>1. /\ a.functions = functions /\ a.edges = KnownCalls
      /\ a.parent = [f \in Fn |-> ParentOf(f)]
      /\ a.bytes = [e \in KnownCalls |-> 1]
      /\ a.mem = [f \in Fn |-> nodes[f].mem]
      /\ a.timeout = [f \in Fn |-> nodes[f].timeout]
      /\ a.avgDuration = [f \in Fn |-> nodes[f].avgDuration]
      /\ a.rate = [f \in Fn |-> InvocationRate(EntryFunction(functions), f)]
      /\ a.critPath = path
      /\ a.maxMem = Constraints.maxMem /\ a.maxLat = Constraints.maxLat
      /\ a.hop = Constraints.hop /\ a.transferPrice = yaml.price
  BY DEF AppOf, CallsWired
<1>2. /\ functions \in Seq(Fn)
      /\ \A f \in Fn : \E i \in 1..Len(functions) : functions[i] = f
      /\ \A i, j \in 1..Len(functions) : functions[i] = functions[j] => i = j
  BY YamlTypes, WalkShape
<1>3. KnownCalls \subseteq Fn \X Fn
  <2>1. yaml.calls \subseteq (Fn \cup {Unknown}) \X (Fn \cup {Unknown})
    BY YamlTypes
  <2> QED
    BY <2>1 DEF KnownCalls
<1>4. \A f, g \in Fn : <<g, f>> \in KnownCalls <=> g \in Callers(f)
  BY DEF KnownCalls, Callers
<1>5. \A f \in Fn : Callers(f) \subseteq Fn
  BY DEF Callers
<1>6. \A f \in Fn : IF Callers(f) = {} THEN ParentOf(f) = NoFn
                    ELSE ParentOf(f) \in Callers(f)
  BY ParentShape
<1>7. [f \in Fn |-> ParentOf(f)] \in [Fn -> Fn \cup {NoFn}]
  BY <1>5, <1>6
<1>8. \A f \in Fn : IF \E g \in Fn : <<g, f>> \in KnownCalls
                    THEN <<ParentOf(f), f>> \in KnownCalls
                    ELSE ParentOf(f) = NoFn
  <2> SUFFICES ASSUME NEW f \in Fn
               PROVE  IF \E g \in Fn : <<g, f>> \in KnownCalls
                      THEN <<ParentOf(f), f>> \in KnownCalls
                      ELSE ParentOf(f) = NoFn
    OBVIOUS
  <2>1. CASE Callers(f) = {}
    BY <1>4, <1>6, <2>1
  <2>2. CASE Callers(f) # {}
    <3>1. ParentOf(f) \in Callers(f) /\ ParentOf(f) \in Fn
      BY <1>5, <1>6, <2>2
    <3> QED
      BY <1>4, <3>1
  <2> QED
    BY <2>1, <2>2
<1>9. \A f \in Fn : /\ nodes[f].mem \in Nat /\ nodes[f].timeout \in Nat
                    /\ nodes[f].avgDuration \in Nat
                    /\ InvocationRate(EntryFunction(functions), f) \in Nat
  <2>1. EntryFunction(functions) \in Fn \cup {NoFn}
    BY EntryShape DEF Roots
  <2> QED
    BY <2>1, RateTypes DEF NodeType
<1>10. /\ path \in Seq(Fn)
       /\ \A i, j \in 1..Len(path) : path[i] = path[j] => i = j
  <2>1. path \in Seq(Fn)
    BY YamlTypes, KnownShape
  <2>2. Distinct(path)
    OBVIOUS
  <2> HIDE DEF path
  <2>3. DOMAIN path = 1..Len(path)
    BY <2>1, LenProperties
  <2> QED
    BY <2>1, <2>2, <2>3 DEF Distinct
<1>11. /\ Constraints.maxMem \in Nat /\ Constraints.maxLat \in Nat
       /\ Constraints.hop \in Nat /\ yaml.price \in Nat
  <2>1. Defaults.maxMem \in Nat /\ Defaults.maxLat \in Nat /\ Defaults.hop \in Nat
    BY YamlsAssumption
  <2>2. /\ yaml.maxMem \in Nat /\ yaml.maxLat \in Nat /\ yaml.hop \in Nat
        /\ yaml.price \in Nat
    BY YamlTypes
  <2> QED
    BY <2>1, <2>2 DEF Constraints, Default
<1> HIDE DEF a, path
<1>12. Application(a)
  <2>1. /\ a.functions \in Seq(Fn)
        /\ \A f \in Fn : \E i \in 1..Len(a.functions) : a.functions[i] = f
        /\ \A i, j \in 1..Len(a.functions) : a.functions[i] = a.functions[j] => i = j
    BY <1>1, <1>2
  <2>2. /\ a.edges \subseteq Fn \X Fn /\ a.parent \in [Fn -> Fn \cup {NoFn}]
        /\ a.bytes \in [a.edges -> Nat]
    BY <1>1, <1>3, <1>7
  <2>3. \A f \in Fn : IF \E g \in Fn : <<g, f>> \in a.edges
                      THEN <<a.parent[f], f>> \in a.edges
                      ELSE a.parent[f] = NoFn
    <3>1. \A f \in Fn : a.parent[f] = ParentOf(f)
      BY <1>1
    <3> QED
      BY <1>1, <1>8, <3>1
  <2>4. /\ a.mem \in [Fn -> Nat] /\ a.timeout \in [Fn -> Nat]
        /\ a.avgDuration \in [Fn -> Nat] /\ a.rate \in [Fn -> Nat]
    BY <1>1, <1>9
  <2>5. /\ a.critPath \in Seq(Fn)
        /\ \A i, j \in 1..Len(a.critPath) : a.critPath[i] = a.critPath[j] => i = j
    BY <1>1, <1>10
  <2>6. /\ a.maxMem \in Nat /\ a.maxLat \in Nat /\ a.hop \in Nat
        /\ a.transferPrice \in Nat
    BY <1>1, <1>11
  <2> QED
    BY <2>1, <2>2, <2>3, <2>4, <2>5, <2>6 DEF Application
<1> QED
  BY <1>12 DEF a

-----------------------------------------------------------------------------
(* The charge.                                                             *)

(* Who invokes whom is known, and the counts are of one source. *)
OneSource ==
    /\ Cardinality(Roots) = 1 /\ (\A f \in Fn : Cardinality(Callers(f)) <= 1)
    /\ (rows = {} \/ (rows = Fn /\ yaml.endsIn = {}))

SourceCount == IF rows = {} THEN yaml.count ELSE [f \in Fn |-> Telemetry[f].count]

SourceRate ==
    LET base == SourceCount[CHOOSE r \in Roots : TRUE]
    IN [f \in Fn |-> IF base > 0 /\ SourceCount[f] > 0
                     THEN (SourceCount[f] * RateUnit) \div base ELSE RateUnit]

LEMMA CountsAreOfTheSource ==
    ASSUME yaml \in Yamls, at = "enriched", NodesMeasured, TelemetryIsItsOwn,
           rows = {} \/ (rows = Fn /\ yaml.endsIn = {}), NEW f \in Fn
    PROVE  /\ nodes[f].count = SourceCount[f]
           /\ SourceCount[f] \in Nat /\ SourceCount[f] <= RateUnit
<1>1. CASE rows = {}
  <2>1. nodes[f] = Node(f)
    BY <1>1 DEF NodesMeasured, NodesOfTheFile
  <2>2. nodes[f].count = yaml.count[f] /\ yaml.count[f] \in Nat
    BY <2>1, NodeTypes, YamlTypes
  <2>3. yaml.count[f] <= RateUnit
    BY RateUnitAssumption
  <2> QED
    BY <1>1, <2>2, <2>3 DEF SourceCount
<1>2. CASE rows # {} /\ rows = Fn /\ yaml.endsIn = {}
  <2>1. nodes[f] = Measured(Node(f), f)
    BY <1>2 DEF TelemetryIsItsOwn
  <2>2. Node(f) \in NodeType
    BY NodeTypes
  <2>3. nodes[f].count = Telemetry[f].count
    BY <2>1, <2>2 DEF Measured, NodeType
  <2>4. Telemetry[f].count \in Nat /\ Telemetry[f].count <= RateUnit
    BY TelemetryAssumption, RateUnitAssumption
  <2> QED
    BY <1>2, <2>3, <2>4 DEF SourceCount
<1> QED
  BY <1>1, <1>2

LEMMA ChargeIsBuilt ==
    ASSUME yaml \in Yamls, CallsWired, at = "enriched", NodesMeasured,
           TelemetryIsItsOwn, OneSource,
           NEW functions \in PathThenRest(yaml.path), NEW G \in SUBSET Fn
    PROVE  BlockInvocationRate(AppOf(functions), G) =
              SumFunctionOnSet(SourceRate, {f \in G : Callers(f) \cap G = {}})
<1> DEFINE a == AppOf(functions)
           base == SourceCount[CHOOSE r \in Roots : TRUE]
<1>1. PICK r : Roots = {r} /\ r \in Fn
  <2>1. Roots \subseteq Fn /\ IsFiniteSet(Roots)
    BY FnAssumption, FS_Subset DEF Roots
  <2> QED
    BY <2>1, FS_Singleton DEF OneSource
<1>2. (CHOOSE q \in Roots : TRUE) = r /\ EntryFunction(functions) = r
  BY <1>1, EntryShape
<1>3. \A f \in Fn : /\ nodes[f].count = SourceCount[f]
                    /\ SourceCount[f] \in Nat /\ SourceCount[f] <= RateUnit
  BY CountsAreOfTheSource DEF OneSource
<1>4. base = SourceCount[r] /\ base \in Nat /\ base <= RateUnit
  BY <1>1, <1>2, <1>3
<1>5. RateUnit \in Nat /\ RateUnit # 0
  BY RateUnitAssumption
<1>6. r # NoFn
  BY <1>1, FnAssumption
<1>7. \A f \in Fn : SourceRate[f] = IF base > 0 /\ SourceCount[f] > 0
                                    THEN (SourceCount[f] * RateUnit) \div base ELSE RateUnit
  BY DEF SourceRate
<1>8. \A f \in Fn : a.rate[f] = InvocationRate(r, f)
  BY <1>2 DEF AppOf
<1> HIDE DEF base
<1>9. \A f \in Fn : a.rate[f] = SourceRate[f]
  BY <1>1, <1>3, <1>4, <1>6, <1>7, <1>8 DEF InvocationRate
<1>10. \A f \in Fn : SourceRate[f] \in Nat /\ SourceRate[f] # 0
  <2> SUFFICES ASSUME NEW f \in Fn
               PROVE  SourceRate[f] \in Nat /\ SourceRate[f] # 0
    OBVIOUS
  <2>1. CASE base > 0 /\ SourceCount[f] > 0
    <3> DEFINE c == SourceCount[f]
    <3>1. c \in Nat /\ c >= 1
      BY <1>3, <2>1
    <3> HIDE DEF c
    <3>2. c * RateUnit \in Nat /\ c * RateUnit >= RateUnit
      BY <1>5, <3>1
    <3>3. c * RateUnit >= base /\ base \in Nat \ {0}
      BY <1>4, <1>5, <2>1, <3>2
    <3>4. (c * RateUnit) \div base \in Nat /\ (c * RateUnit) \div base # 0
      BY <3>2, <3>3, Quotient
    <3> QED
      BY <1>7, <2>1, <3>4 DEF c
  <2>2. CASE ~ (base > 0 /\ SourceCount[f] > 0)
    <3>1. SourceRate[f] = RateUnit
      BY <1>7, <2>2
    <3> QED
      BY <1>5, <3>1
  <2> QED
    BY <2>1, <2>2
<1>11. \A f \in Fn : Rate(a, f) = SourceRate[f]
  BY <1>9, <1>10 DEF Rate
<1>12. Entries(a, G) = {f \in G : Callers(f) \cap G = {}}
  <2>1. ASSUME NEW f \in G
        PROVE  a.parent[f] \notin G <=> Callers(f) \cap G = {}
    <3>1. f \in Fn /\ a.parent[f] = ParentOf(f)
      BY DEF AppOf
    <3>2. Callers(f) \subseteq Fn /\ IsFiniteSet(Callers(f)) /\ Cardinality(Callers(f)) <= 1
      BY <3>1, FnAssumption, FS_Subset DEF Callers, OneSource
    <3>3. CASE Callers(f) = {}
      <4>1. ParentOf(f) = NoFn
        BY <3>1, <3>3, ParentShape
      <4> QED
        BY <3>1, <3>3, <4>1, FnAssumption
    <3>4. CASE Callers(f) # {}
      <4>1. ParentOf(f) \in Callers(f)
        BY <3>1, <3>4, ParentShape
      <4>2. PICK g : Callers(f) = {g}
        <5>1. Cardinality(Callers(f)) \in Nat /\ Cardinality(Callers(f)) # 0
          BY <3>2, <3>4, FS_CardinalityType, FS_EmptySet
        <5>2. Cardinality(Callers(f)) = 1
          BY <3>2, <5>1
        <5> QED
          BY <3>2, <5>2, FS_Singleton
      <4> QED
        BY <3>1, <4>1, <4>2
    <3> QED
      BY <3>3, <3>4
  <2> QED
    BY <2>1 DEF Entries
<1> DEFINE E == {f \in G : Callers(f) \cap G = {}}
           w == [f \in Fn |-> Rate(a, f)]
<1>13. IsFiniteSet(E) /\ E \subseteq Fn
  BY FnAssumption, FS_Subset
<1>14. \A f \in E : SourceRate[f] \in Int /\ w[f] = SourceRate[f]
  BY <1>10, <1>11
<1>15. BlockInvocationRate(a, G) = SumFunctionOnSet(w, E)
  BY <1>12 DEF BlockInvocationRate
<1> HIDE DEF E, w
<1>16. SumFunctionOnSet(w, E) = SumFunctionOnSet(SourceRate, E)
  BY <1>13, <1>14, SumCongruent
<1> QED
  BY <1>15, <1>16 DEF E

-----------------------------------------------------------------------------
(* The invariant is kept.                                                  *)

LEMMA InitIInv == Init => IInv
<1> SUFFICES ASSUME Init PROVE IInv
  OBVIOUS
<1>1. yaml \in Yamls /\ at = "yaml"
  BY DEF Init
<1> QED
  BY <1>1 DEF IInv, TelemetryIsItsOwn, BuildsAnApplication, ChargeIsThatOfOneSource

(* Before there is an application nothing is said of one. *)
LEMMA QuietUntilTheApp ==
    ASSUME IInv, yaml' = yaml, at' \in {"parsed", "graph", "enriched"}
    PROVE  /\ yaml' \in Yamls /\ BuildsAnApplication' /\ ChargeIsThatOfOneSource'
           /\ at' # "enriched" => TelemetryIsItsOwn'
BY DEF IInv, BuildsAnApplication, ChargeIsThatOfOneSource, TelemetryIsItsOwn

LEMMA ParseIInv == IInv /\ Parse => IInv'
<1> SUFFICES ASSUME IInv, Parse PROVE IInv'
  OBVIOUS
<1>1. yaml' = yaml /\ at' = "parsed"
  BY DEF Parse
<1>2. PICK order \in PathThenRest(yaml.path) :
         parsed' = [i \in DOMAIN order |-> [id |-> order[i], node |-> Node(order[i])]]
  BY DEF Parse
<1>3. ParsedInOrder'
  BY <1>1, <1>2 DEF ParsedInOrder, Node
<1> QED
  BY <1>1, <1>3, QuietUntilTheApp DEF IInv

LEMMA BuildGraphIInv == IInv /\ BuildGraph => IInv'
<1> SUFFICES ASSUME IInv, BuildGraph PROVE IInv'
  OBVIOUS
<1>1. yaml' = yaml /\ at' = "graph" /\ at = "parsed"
  BY DEF BuildGraph
<1>2. yaml \in Yamls /\ ParsedInOrder
  BY <1>1 DEF IInv
<1>3. NodesOfTheFile'
  BY <1>1, <1>2, NodesAreFound DEF NodesOfTheFile, Node
<1>4. CallsWired'
  BY <1>1, <1>2, CallsAreWired DEF CallsWired, KnownCalls
<1> QED
  BY <1>1, <1>3, <1>4, QuietUntilTheApp DEF IInv

LEMMA EnrichIInv == IInv /\ Enrich => IInv'
<1> SUFFICES ASSUME IInv, Enrich PROVE IInv'
  OBVIOUS
<1>1. yaml' = yaml /\ at' = "enriched" /\ at = "graph" /\ edges' = edges
  BY DEF Enrich
<1>2. yaml \in Yamls /\ NodesOfTheFile /\ CallsWired
  BY <1>1 DEF IInv
<1>3. PICK measured \in SUBSET Fn : \E given \in Rows!Attributions(measured) :
         /\ rows' = measured
         /\ nodes' = [f \in Fn |-> IF given[f] = NoFn THEN nodes[f]
                                   ELSE Measured(nodes[f], given[f])]
  BY DEF Enrich
<1>4. PICK given \in Rows!Attributions(measured) :
         /\ rows' = measured
         /\ nodes' = [f \in Fn |-> IF given[f] = NoFn THEN nodes[f]
                                   ELSE Measured(nodes[f], given[f])]
  BY <1>3
<1>5. yaml.endsIn \subseteq Fn \X Fn
  BY <1>2, YamlTypes
<1>6. \A f \in Fn :
         /\ given[f] = NoFn \/ given[f] \in measured
         /\ (\A g \in Fn : <<g, f>> \notin yaml.endsIn) =>
               /\ given[f] = NoFn \/ given[f] = f
               /\ f \in measured /\ (\A g \in Fn : <<f, g>> \notin yaml.endsIn)
                     => given[f] = f
  BY <1>5, OwnRow
<1>7. \A f \in Fn : nodes'[f] = IF given[f] = NoFn THEN Node(f)
                                ELSE Measured(Node(f), given[f])
  BY <1>2, <1>4 DEF NodesOfTheFile
<1>8. \A f \in Fn : /\ Node(f)' = Node(f)
                    /\ \A g \in Fn : Measured(Node(f), g)' = Measured(Node(f), g)
  BY <1>1 DEF Node, Measured
<1>9. CallsWired'
  BY <1>1, <1>2 DEF CallsWired, KnownCalls
<1>10. NodesMeasured'
  <2>1. nodes' \in [Fn -> NodeType]
    <3>1. ASSUME NEW f \in Fn
          PROVE  nodes'[f] \in NodeType
      <4>1. Node(f) \in NodeType
        BY <1>2, NodeTypes
      <4>2. ASSUME NEW g \in Fn
            PROVE  Measured(Node(f), g) \in NodeType
        BY <4>1, TelemetryAssumption DEF Measured, NodeType
      <4> QED
        BY <1>6, <1>7, <4>1, <4>2
    <3> QED
      BY <1>4, <3>1
  <2>2. ASSUME rows' = {}
        PROVE  NodesOfTheFile'
    <3>1. \A f \in Fn : nodes'[f] = Node(f)'
      BY <1>4, <1>6, <1>7, <1>8, <2>2
    <3> QED
      BY <1>4, <3>1 DEF NodesOfTheFile
  <2> QED
    BY <2>1, <2>2 DEF NodesMeasured, NodeType
<1>11. TelemetryIsItsOwn'
  <2> SUFFICES ASSUME NEW f \in Fn, \A g \in Fn : <<g, f>> \notin yaml.endsIn
               PROVE  /\ f \notin rows' => nodes'[f] = Node(f)
                      /\ nodes'[f] \in {Node(f), Measured(Node(f), f)}
                      /\ f \in rows' /\ (\A g \in Fn : <<f, g>> \notin yaml.endsIn)
                         => nodes'[f] = Measured(Node(f), f)
    BY <1>1, <1>8 DEF TelemetryIsItsOwn
  <2>1. given[f] = NoFn \/ given[f] = f
    BY <1>6
  <2>2. f # NoFn
    BY FnAssumption
  <2> QED
    BY <1>4, <1>6, <1>7, <2>1, <2>2
<1> QED
  BY <1>1, <1>9, <1>10, <1>11, QuietUntilTheApp DEF IInv

LEMMA GraphToAppIInv == IInv /\ GraphToApp => IInv'
<1> SUFFICES ASSUME IInv, GraphToApp PROVE IInv'
  OBVIOUS
<1>1. /\ yaml' = yaml /\ at' = "app" /\ at = "enriched" /\ edges' = edges
      /\ nodes' = nodes /\ rows' = rows
  BY DEF GraphToApp
<1>2. yaml \in Yamls /\ CallsWired /\ NodesMeasured /\ TelemetryIsItsOwn
  BY <1>1 DEF IInv
<1>3. PICK functions \in PathThenRest(yaml.path) : app' = AppOf(functions)
  BY DEF GraphToApp, AppOf
<1>4. TelemetryIsItsOwn'
  BY <1>1, <1>2 DEF TelemetryIsItsOwn, Node, Measured
<1>5. BuildsAnApplication'
  <2>1. app'.edges = KnownCalls
    BY <1>2, <1>3 DEF AppOf, CallsWired
  <2>2. Distinct(Known(yaml.path)) => Application(app') /\ Distinct(edges)
    BY <1>2, <1>3, ApplicationIsBuilt DEF NodesMeasured, CallsWired
  <2> QED
    BY <1>1, <2>1, <2>2 DEF BuildsAnApplication, KnownCalls
<1>6. ChargeIsThatOfOneSource'
  <2>1. ASSUME OneSource, NEW G \in SUBSET Fn
        PROVE  BlockInvocationRate(app', G) =
                  SumFunctionOnSet(SourceRate, {f \in G : Callers(f) \cap G = {}})
    BY <1>1, <1>2, <1>3, <2>1, ChargeIsBuilt
  <2>2. /\ Roots' = Roots /\ SourceRate' = SourceRate /\ OneSource' = OneSource
        /\ \A f \in Fn : Callers(f)' = Callers(f)
    BY <1>1 DEF Roots, Callers, SourceRate, SourceCount, OneSource
  <2>3. OneSource' => \A G \in SUBSET Fn :
           BlockInvocationRate(app', G) =
              SumFunctionOnSet(SourceRate', {f \in G : Callers(f)' \cap G = {}})
    BY <2>1, <2>2
  <2> QED
    BY <2>3 DEF ChargeIsThatOfOneSource, OneSource, SourceRate, SourceCount
<1> QED
  BY <1>1, <1>2, <1>4, <1>5, <1>6 DEF IInv

LEMMA NextIInv == IInv /\ [Next]_vars => IInv'
<1> SUFFICES ASSUME IInv, [Next]_vars PROVE IInv'
  OBVIOUS
<1>1. ASSUME UNCHANGED vars PROVE IInv'
  <2>1. /\ yaml' = yaml /\ at' = at /\ parsed' = parsed /\ nodes' = nodes
        /\ edges' = edges /\ rows' = rows /\ app' = app
    BY <1>1 DEF vars
  <2>2. ParsedInOrder' <=> ParsedInOrder
    BY <2>1 DEF ParsedInOrder, Node
  <2>3. (NodesOfTheFile' <=> NodesOfTheFile) /\ (NodesMeasured' <=> NodesMeasured)
    BY <2>1 DEF NodesOfTheFile, NodesMeasured, Node
  <2>4. CallsWired' <=> CallsWired
    BY <2>1 DEF CallsWired, KnownCalls
  <2>5. TelemetryIsItsOwn' <=> TelemetryIsItsOwn
    BY <2>1 DEF TelemetryIsItsOwn, Node, Measured
  <2>6. BuildsAnApplication' <=> BuildsAnApplication
    BY <2>1 DEF BuildsAnApplication, KnownCalls
  <2>7. ChargeIsThatOfOneSource' <=> ChargeIsThatOfOneSource
    BY <2>1 DEF ChargeIsThatOfOneSource, Roots, Callers
  <2> QED
    BY <2>1, <2>2, <2>3, <2>4, <2>5, <2>6, <2>7 DEF IInv
<1> QED
  BY <1>1, ParseIInv, BuildGraphIInv, EnrichIInv, GraphToAppIInv DEF Next, Terminating

LEMMA Invariance == Spec => []IInv
BY InitIInv, NextIInv, PTL DEF Spec

(* Whatever the file says and however its maps are walked, the algorithms  *)
(* get the calls of the file between known functions, and an application   *)
(* as they assume it, with each call once, as long as the critical path    *)
(* names no function twice.                                                *)
THEOREM AlgorithmsGetAnApplication == Spec => []BuildsAnApplication
<1>1. IInv => BuildsAnApplication
  BY DEF IInv
<1> QED
  BY <1>1, Invariance, PTL

(* A function whose id ends no other log group never carries the           *)
(* measurements of another.                                                *)
THEOREM MeasuredOnlyAsItself == Spec => []TelemetryIsItsOwn
<1>1. IInv => TelemetryIsItsOwn
  BY DEF IInv
<1> QED
  BY <1>1, Invariance, PTL

(* With one caller at most for each function, one entry and counts of one  *)
(* source, every group is charged the calls that enter it at that source's *)
(* rates, in whatever order the calls were wired.                          *)
THEOREM ChargedAtTheSourcesRates == Spec => []ChargeIsThatOfOneSource
<1>1. IInv => ChargeIsThatOfOneSource
  BY DEF IInv
<1> QED
  BY <1>1, Invariance, PTL
=============================================================================
