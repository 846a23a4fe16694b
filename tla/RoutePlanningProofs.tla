------------------------ MODULE RoutePlanningProofs -------------------------
(***************************************************************************)
(* Correctness of the searches for every graph, every request and every    *)
(* order in which entries of equal weight are settled: the hierarchy is    *)
(* written without loss, a search that stalls and stops early finds the    *)
(* length of a shortest route of the input graph, every entry of a table   *)
(* is such a length, and the legs of a route connect.                      *)
(***************************************************************************)
EXTENDS RoutePlanning, ContractorProofs

\* The instance has its own names for the operators of the library.
LEMMA SameOperators ==
    ASSUME NEW S
    PROVE  /\ Query!Min(S) = Min(S) /\ Query!Max(S) = Max(S)
           /\ Query!Cardinality(S) = Cardinality(S)
<1>1. Query!Min(S) = Min(S) /\ Query!Max(S) = Max(S)
  BY DEF Query!Min, Min, Query!Max, Max
<1>2. Query!Cardinality(S) = Cardinality(S)
  BY DEF Query!Cardinality, Cardinality
<1> QED
  BY <1>1, <1>2

-----------------------------------------------------------------------------
(* The adjacency array *)

Members(l) == {l[i] : i \in DOMAIN l}

\* The first edge has the least source.
LEMMA FirstEdgeIs ==
    ASSUME NEW E, GoodEdges(E), E # {}
    PROVE  Query!FirstEdge(E) \in E /\ \A f \in E : Query!FirstEdge(E).source <= f.source
<1>0. \A e \in E : e.source \in Nat /\ e.target \in Nat
  BY EdgeFields, ContractorAssumption DEF NodeIDs
<1> DEFINE sources == {e.source : e \in E}
<1>1. PICK s \in sources : \A x \in sources : s <= x
  BY <1>0, LeastNumber
<1> DEFINE targets == {e.target : e \in {f \in E : f.source = s}}
<1>2. targets \subseteq Nat /\ targets # {}
  BY <1>0, <1>1
<1>3. PICK t \in targets : \A x \in targets : t <= x
  BY <1>2, LeastNumber
<1>4. PICK e \in E : e.source = s /\ e.target = t
  BY <1>3
<1>5. ASSUME NEW f \in E PROVE ~Query!QueryEdgeLess(f, e)
  <2>1. f.source \in Nat /\ f.target \in Nat /\ s \in Nat /\ t \in Nat
    BY <1>0, <1>4
  <2>2. s <= f.source /\ (f.source = s => t <= f.target)
    BY <1>1, <1>3
  <2> QED
    BY <1>4, <2>1, <2>2 DEF Query!QueryEdgeLess
<1>6. /\ Query!FirstEdge(E) \in E
      /\ \A f \in E : ~Query!QueryEdgeLess(f, Query!FirstEdge(E))
  BY <1>5 DEF Query!FirstEdge
<1> QED
  BY <1>0, <1>6 DEF Query!QueryEdgeLess

\* A list of different edges of E, in the order of their sources, that no other edge of E
\* precedes.
Prefix(E, l) ==
    /\ l \in Seq(E) /\ Len(l) <= Cardinality(E)
    /\ \A i, j \in 1 .. Len(l) : l[i] = l[j] => i = j
    /\ \A i, j \in 1 .. Len(l) : i <= j => l[i].source <= l[j].source
    /\ \A i \in 1 .. Len(l) : \A e \in E \ Members(l) : l[i].source <= e.source

\* A list of different elements has as many of them as it is long.
LEMMA MembersCount ==
    ASSUME NEW S, NEW l \in Seq(S), \A i, j \in 1 .. Len(l) : l[i] = l[j] => i = j
    PROVE  IsFiniteSet(Members(l)) /\ Cardinality(Members(l)) = Len(l)
<1>1. DOMAIN l = 1 .. Len(l) /\ Len(l) \in Nat /\ l \in [1 .. Len(l) -> S]
  OBVIOUS
<1>2. l \in Bijection(1 .. Len(l), Members(l))
  BY <1>1 DEF Bijection, Injection, Surjection, IsInjective, Members
<1>3. ExistsBijection(1 .. Len(l), Members(l))
  BY <1>2 DEF ExistsBijection
<1> QED
  BY <1>1, <1>3, FS_CountingElements, FS_NatBijection

\* The next edge makes it longer.
LEMMA PrefixGrows ==
    ASSUME NEW E, GoodEdges(E), IsFiniteSet(E), NEW l, Prefix(E, l), Len(l) < Cardinality(E)
    PROVE  LET next == Append(l, Query!FirstEdge(E \ Members(l)))
           IN  Prefix(E, next) /\ Len(next) = Len(l) + 1
<1> DEFINE left == E \ Members(l)
           e == Query!FirstEdge(left)
           next == Append(l, e)
<1>0. /\ l \in Seq(E) /\ Len(l) \in Nat /\ DOMAIN l = 1 .. Len(l)
      /\ \A i, j \in 1 .. Len(l) : l[i] = l[j] => i = j
      /\ \A i, j \in 1 .. Len(l) : i <= j => l[i].source <= l[j].source
      /\ \A i \in 1 .. Len(l) : \A f \in left : l[i].source <= f.source
  BY DEF Prefix
<1>1. \A f \in E : f.source \in Nat
  BY EdgeFields, ContractorAssumption DEF NodeIDs
<1>2. Cardinality(E) \in Nat
  BY FS_CardinalityType
<1>3. left # {}
  <2>1. Cardinality(Members(l)) = Len(l)
    BY <1>0, MembersCount
  <2>2. Members(l) \subseteq E
    BY <1>0 DEF Members
  <2>3. Members(l) # E
    BY <1>0, <1>2, <2>1
  <2> QED
    BY <2>2, <2>3
<1>4. GoodEdges(left)
  BY DEF GoodEdges
<1> HIDE DEF left
<1>5. e \in left /\ \A f \in left : e.source <= f.source
  BY <1>3, <1>4, FirstEdgeIs
<1>6. e \in E /\ e \notin Members(l)
  BY <1>5 DEF left
<1> HIDE DEF e
<1>7. /\ next \in Seq(E) /\ Len(next) = Len(l) + 1 /\ next[Len(l) + 1] = e
      /\ \A i \in 1 .. Len(l) : next[i] = l[i]
  BY <1>0, <1>6
<1>8. \A i \in 1 .. Len(l) : next[i] \in E /\ next[i] # e /\ next[i].source <= e.source
  BY <1>0, <1>5, <1>6, <1>7 DEF Members
<1> HIDE DEF next
<1>9. \A i \in 1 .. Len(next) : i = Len(l) + 1 \/ i \in 1 .. Len(l)
  BY <1>0, <1>7
<1>10. Len(next) <= Cardinality(E)
  BY <1>0, <1>2, <1>7
<1>11. \A i, j \in 1 .. Len(next) : next[i] = next[j] => i = j
  BY <1>0, <1>7, <1>8, <1>9
<1>12. ASSUME NEW i \in 1 .. Len(next), NEW j \in 1 .. Len(next), i <= j
       PROVE  next[i].source <= next[j].source
  <2>1. CASE j \in 1 .. Len(l)
    <3>1. i \in 1 .. Len(l)
      BY <1>12, <2>1
    <3> QED
      BY <1>0, <1>7, <1>12, <2>1, <3>1
  <2>2. CASE j = Len(l) + 1
    BY <1>1, <1>6, <1>7, <1>8, <1>9, <2>2
  <2> QED
    BY <1>9, <2>1, <2>2
<1>13. ASSUME NEW i \in 1 .. Len(next), NEW f \in E \ Members(next)
       PROVE  next[i].source <= f.source
  <2>1. f \in left
    <3>1. ASSUME f \in Members(l) PROVE FALSE
      <4>1. PICK k \in 1 .. Len(l) : f = l[k]
        BY <1>0, <3>1 DEF Members
      <4>2. k \in DOMAIN next /\ next[k] = f
        BY <1>0, <1>7, <4>1
      <4> QED
        BY <1>13, <4>2 DEF Members
    <3> QED
      BY <1>13, <3>1 DEF left
  <2> QED
    BY <1>0, <1>5, <1>7, <1>9, <2>1
<1>14. Prefix(E, next)
  BY <1>7, <1>10, <1>11, <1>12, <1>13 DEF Prefix
<1> QED
  BY <1>7, <1>14 DEF next, e, left

\* The sorted list has the edges in the order of their sources.
LEMMA ListIs ==
    ASSUME NEW E, GoodEdges(E), IsFiniteSet(E)
    PROVE  /\ Query!ContractedEdgeList(E) \in Seq(E)
           /\ Members(Query!ContractedEdgeList(E)) = E
           /\ \A i, j \in 1 .. Len(Query!ContractedEdgeList(E)) : i <= j =>
                Query!ContractedEdgeList(E)[i].source <= Query!ContractedEdgeList(E)[j].source
<1> DEFINE N == Query!Cardinality(E)
           Turn(l) == Append(l, Query!FirstEdge(E \ Members(l)))
           S == {l \in Seq(E) : Prefix(E, l)}
           F == [l \in S |-> IF Len(l) < N THEN Turn(l) ELSE l]
           IsRun(f) == f = [n \in 0 .. N |-> IF n = 0 THEN {<<>>} ELSE {Turn(l) : l \in f[n - 1]}]
           sorted == CHOOSE f : IsRun(f)
<1>0. N \in Nat /\ N = Cardinality(E)
  BY SameOperators, FS_CardinalityType
<1>1. Query!ContractedEdgeList(E) = CHOOSE l \in sorted[N] : TRUE
  BY DEF Query!ContractedEdgeList, Members
<1>2. \A l : l \in S <=> Prefix(E, l)
  BY DEF Prefix
<1>3. Prefix(E, <<>>)
  BY <1>0 DEF Prefix
<1>4. ASSUME NEW l \in S, Len(l) < N PROVE Turn(l) \in S /\ Len(Turn(l)) = Len(l) + 1
  BY <1>0, <1>2, <1>4, PrefixGrows
<1> HIDE DEF Turn, S
<1>5. \A l \in S : F[l] \in S /\ (Len(l) < N => F[l] = Turn(l))
  BY <1>4
<1>6. PICK f : IsRunOf(f, S, F, <<>>, N)
  <2>1. <<>> \in S
    BY <1>2, <1>3
  <2> HIDE DEF F, N
  <2> QED
    BY <1>0, <1>5, <2>1, RunExists
<1>7. f \in [0 .. N -> S] /\ \A n \in 0 .. N : f[n] = IF n = 0 THEN <<>> ELSE F[f[n - 1]]
  BY <1>6 DEF IsRunOf
<1> HIDE DEF F, N
<1> DEFINE Long == {n \in 0 .. N : Len(f[n]) = n}
<1>8. 0 \in Long
  BY <1>0, <1>7
<1>9. ASSUME NEW n \in 0 .. N - 1, n \in Long PROVE n + 1 \in Long
  <2>1. n + 1 \in 0 .. N /\ n \in 0 .. N /\ n < N /\ n + 1 # 0 /\ (n + 1) - 1 = n
    BY <1>0
  <2>2. f[n + 1] = F[f[n]] /\ f[n] \in S /\ Len(f[n]) = n
    BY <1>7, <1>9, <2>1
  <2> QED
    BY <1>4, <1>5, <2>1, <2>2
<1>10. 0 .. N \subseteq Long
  <2> HIDE DEF Long
  <2> QED
    BY <1>0, <1>8, <1>9, BoundedInduction
<1>11. ASSUME NEW n \in 1 .. N PROVE f[n] = Turn(f[n - 1])
  <2>1. n \in 0 .. N /\ n # 0 /\ n - 1 \in 0 .. N /\ n - 1 < N
    BY <1>0
  <2> QED
    BY <1>5, <1>7, <1>10, <2>1
<1> DEFINE g == [n \in 0 .. N |-> {f[n]}]
<1>12. IsRun(g)
  <2>1. \A n \in 0 .. N : n # 0 => n - 1 \in 0 .. N /\ n \in 1 .. N
    BY <1>0
  <2>2. f[0] = <<>>
    BY <1>0, <1>7
  <2>3. \A n \in 0 .. N : g[n] = IF n = 0 THEN {<<>>} ELSE {Turn(l) : l \in g[n - 1]}
    BY <1>11, <2>1, <2>2
  <2> QED
    BY <2>3
<1>13. IsRun(sorted)
  <2> HIDE DEF IsRun, g
  <2> QED
    BY <1>12
<1> HIDE DEF sorted
<1> DEFINE In == {n \in 0 .. N : sorted[n] = {f[n]}}
<1>14. 0 \in In
  BY <1>0, <1>7, <1>13
<1>15. ASSUME NEW n \in 0 .. N - 1, n \in In PROVE n + 1 \in In
  <2>1. n + 1 \in 0 .. N /\ n + 1 \in 1 .. N /\ (n + 1) - 1 = n
    BY <1>0
  <2>2. sorted[n + 1] = {Turn(l) : l \in sorted[n]}
    BY <1>0, <1>13, <2>1
  <2>3. sorted[n] = {f[n]} /\ f[n + 1] = Turn(f[n])
    BY <1>11, <1>15, <2>1
  <2>4. sorted[n + 1] = {f[n + 1]}
    BY <2>2, <2>3
  <2> QED
    BY <2>1, <2>4
<1>16. 0 .. N \subseteq In
  <2> HIDE DEF In
  <2> QED
    BY <1>0, <1>14, <1>15, BoundedInduction
<1>17. N \in 0 .. N
  BY <1>0
<1>18. sorted[N] = {f[N]} /\ Len(f[N]) = N /\ f[N] \in S
  BY <1>7, <1>10, <1>16, <1>17
<1> DEFINE list == Query!ContractedEdgeList(E)
<1>19. list = f[N]
  BY <1>1, <1>18
<1> HIDE DEF list
<1>20. Prefix(E, list) /\ Len(list) = N
  BY <1>2, <1>18, <1>19
<1>21. Members(list) = E
  <2>1. list \in Seq(E) /\ \A i, j \in 1 .. Len(list) : list[i] = list[j] => i = j
    BY <1>20 DEF Prefix
  <2>2. Cardinality(Members(list)) = Cardinality(E)
    BY <1>0, <1>20, <2>1, MembersCount
  <2>3. Members(list) \subseteq E
    BY <2>1 DEF Members
  <2> QED
    BY <2>2, <2>3, FS_Subset
<1> QED
  BY <1>20, <1>21 DEF Prefix, list

\* A list of edges in the order of their sources.
InOrder(list) ==
    /\ \A i \in 1 .. Len(list) : list[i].source \in NodeIDs /\ list[i].target \in NodeIDs
    /\ \A i, j \in 1 .. Len(list) : i <= j => list[i].source <= list[j].source

\* The edges of the nodes before n are those up to k.
Cut(list, k, n) == k \in 0 .. Len(list) /\ \A i \in 1 .. Len(list) : i <= k <=> list[i].source < n

\* The loop over the edges of a node ends behind them.
LEMMA AfterIs ==
    ASSUME NEW E, NEW list \in Seq(E), InOrder(list), NEW n \in Nat, NEW k, Cut(list, k, n)
    PROVE  Cut(list, Query!AfterEdgesOf(list, n, k), n + 1)
<1> DEFINE N == Len(list)
           X == {i \in k .. N : i = N \/ list[i + 1].source # n}
           m == Min(X)
<1>0. /\ N \in Nat /\ k \in 0 .. N
      /\ \A i \in 1 .. N : list[i].source \in Nat /\ (i <= k <=> list[i].source < n)
      /\ \A i, j \in 1 .. N : i <= j => list[i].source <= list[j].source
  BY ContractorAssumption DEF InOrder, Cut, NodeIDs
<1>1. Query!AfterEdgesOf(list, n, k) = m
  BY SameOperators DEF Query!AfterEdgesOf
<1>2. X \subseteq Nat /\ N \in X
  BY <1>0
<1>3. m \in X /\ \A i \in X : m <= i
  <2> HIDE DEF X
  <2> QED
    BY <1>2, MinIs
<1>4. m \in k .. N /\ m \in Nat /\ (m = N \/ list[m + 1].source # n)
  BY <1>0, <1>3
<1>5. \A i \in k .. N : i < m => i # N /\ list[i + 1].source = n
  BY <1>0, <1>3, <1>4
<1> HIDE DEF m, X, N
<1>6. ASSUME NEW i \in 1 .. N, i <= m PROVE list[i].source < n + 1
  <2>1. CASE i <= k
    BY <1>0, <2>1
  <2>2. CASE i > k
    <3>1. i - 1 \in k .. N /\ i - 1 < m /\ (i - 1) + 1 = i
      BY <1>0, <1>4, <1>6, <2>2
    <3>2. list[i].source = n
      BY <1>5, <3>1
    <3> QED
      BY <3>2
  <2> QED
    BY <1>0, <2>1, <2>2
<1>7. ASSUME NEW i \in 1 .. N, i > m PROVE ~(list[i].source < n + 1)
  <2>1. m + 1 \in 1 .. N /\ m + 1 <= i /\ ~(m + 1 <= k) /\ m # N
    BY <1>0, <1>4, <1>7
  <2>2. list[m + 1].source # n /\ list[m + 1].source \in Nat /\ ~(list[m + 1].source < n)
    BY <1>0, <1>4, <2>1
  <2>3. list[m + 1].source <= list[i].source /\ list[i].source \in Nat
    BY <1>0, <2>1
  <2> QED
    BY <2>2, <2>3
<1>8. \A i \in 1 .. N : i <= m <=> list[i].source < n + 1
  BY <1>0, <1>4, <1>6, <1>7
<1>9. m \in 0 .. N
  BY <1>0, <1>4
<1> QED
  BY <1>1, <1>8, <1>9 DEF Cut, N

\* There is only one such place.
LEMMA CutUnique ==
    ASSUME NEW E, NEW list \in Seq(E), NEW n, NEW k, NEW j, Cut(list, k, n), Cut(list, j, n)
    PROVE  k = j
<1>1. /\ Len(list) \in Nat /\ k \in 0 .. Len(list) /\ j \in 0 .. Len(list)
      /\ \A i \in 1 .. Len(list) : i <= k <=> i <= j
  BY DEF Cut
<1>2. (k > 0 => k \in 1 .. Len(list)) /\ (j > 0 => j \in 1 .. Len(list))
  BY <1>1
<1> QED
  BY <1>1, <1>2

\* The array of first edges says where the edges of the nodes before each node end.
LEMMA NodeArrayIs ==
    ASSUME NEW E, NEW list \in Seq(E), InOrder(list), NEW n \in 0 .. number_of_nodes
    PROVE  Cut(list, Query!NodeArray(list, number_of_nodes)[n], n)
<1> DEFINE N == number_of_nodes
           After(i, k) == Query!AfterEdgesOf(list, i - 1, k)
           IsRun(f) == f = [i \in 0 .. N |-> IF i = 0 THEN 0 ELSE After(i, f[i - 1])]
           cursor == CHOOSE f : IsRun(f)
           used == Query!MaxUsedNodeId(list)
<1>0. N \in Nat /\ Len(list) \in Nat
  BY ContractorAssumption
<1>1. Query!NodeArray(list, N)[n] = IF n < used THEN cursor[n] ELSE Len(list)
  BY DEF Query!NodeArray
<1>2. Cut(list, 0, 0)
  BY <1>0 DEF Cut, InOrder, NodeIDs
<1>3. ASSUME NEW i \in 1 .. N, NEW k, Cut(list, k, i - 1) PROVE Cut(list, After(i, k), i)
  <2>1. i - 1 \in Nat /\ (i - 1) + 1 = i
    BY <1>0
  <2> DEFINE j == i - 1
  <2> HIDE DEF j
  <2>2. Cut(list, Query!AfterEdgesOf(list, j, k), j + 1)
    BY <1>3, <2>1, AfterIs DEF j
  <2> QED
    BY <2>1, <2>2 DEF j
<1> HIDE DEF After
<1> DEFINE Some == {i \in 0 .. N : \E k : Cut(list, k, i)}
<1>4. 0 \in Some
  BY <1>0, <1>2
<1>5. ASSUME NEW i \in 0 .. N - 1, i \in Some PROVE i + 1 \in Some
  <2>1. PICK k : Cut(list, k, i)
    BY <1>5
  <2>2. i + 1 \in 1 .. N /\ (i + 1) - 1 = i /\ i + 1 \in 0 .. N
    BY <1>0
  <2>3. Cut(list, After(i + 1, k), i + 1)
    BY <1>3, <2>1, <2>2
  <2> QED
    BY <2>2, <2>3
<1>6. 0 .. N \subseteq Some
  <2> HIDE DEF Some
  <2> QED
    BY <1>0, <1>4, <1>5, BoundedInduction
<1> DEFINE c == [i \in 0 .. N |-> CHOOSE k : Cut(list, k, i)]
<1>7. \A i \in 0 .. N : Cut(list, c[i], i)
  BY <1>6
<1> HIDE DEF c
<1>8. IsRun(c)
  <2>1. ASSUME NEW i \in 1 .. N PROVE c[i] = After(i, c[i - 1])
    <3>1. i \in 0 .. N /\ i - 1 \in 0 .. N
      BY <1>0
    <3>2. Cut(list, c[i], i) /\ Cut(list, After(i, c[i - 1]), i)
      BY <1>3, <1>7, <3>1
    <3> QED
      BY <3>2, CutUnique
  <2>2. c[0] = 0
    BY <1>0, <1>2, <1>7, CutUnique
  <2>3. \A i \in 0 .. N : c[i] = IF i = 0 THEN 0 ELSE After(i, c[i - 1])
    BY <1>0, <2>1, <2>2
  <2>4. c = [i \in 0 .. N |-> c[i]]
    BY DEF c
  <2> QED
    BY <2>3, <2>4
<1>9. IsRun(cursor)
  <2> HIDE DEF IsRun
  <2> QED
    BY <1>8
<1> HIDE DEF cursor
<1> DEFINE In == {i \in 0 .. N : Cut(list, cursor[i], i)}
<1>10. 0 \in In
  BY <1>0, <1>2, <1>9
<1>11. ASSUME NEW i \in 0 .. N - 1, i \in In PROVE i + 1 \in In
  <2>1. i + 1 \in 1 .. N /\ (i + 1) - 1 = i /\ i + 1 \in 0 .. N /\ i + 1 # 0
    BY <1>0
  <2>2. cursor[i + 1] = After(i + 1, cursor[i])
    BY <1>9, <2>1
  <2>3. Cut(list, After(i + 1, cursor[i]), i + 1)
    BY <1>3, <1>11, <2>1
  <2> QED
    BY <2>1, <2>2, <2>3
<1>12. 0 .. N \subseteq In
  <2> HIDE DEF In
  <2> QED
    BY <1>0, <1>10, <1>11, BoundedInduction
<1>13. CASE n < used
  BY <1>1, <1>12, <1>13
<1>14. CASE ~(n < used)
  <2> DEFINE nodes == {0} \cup UNION {{list[i].source, list[i].target} : i \in DOMAIN list}
  <2>1. DOMAIN list = 1 .. Len(list)
    OBVIOUS
  <2>2. nodes \subseteq 0 .. N /\ nodes # {} /\ \A i \in 1 .. Len(list) : list[i].source \in nodes
    <3>1. NodeIDs \subseteq 0 .. N /\ 0 \in 0 .. N
      BY <1>0 DEF NodeIDs
    <3>2. \A i \in DOMAIN list : list[i].source \in NodeIDs /\ list[i].target \in NodeIDs
      BY <2>1 DEF InOrder
    <3>3. \A i \in DOMAIN list : {list[i].source, list[i].target} \subseteq 0 .. N
      BY <3>1, <3>2
    <3>4. \A x : x \in nodes <=> x = 0 \/ \E i \in DOMAIN list : x \in {list[i].source, list[i].target}
      OBVIOUS
    <3> HIDE DEF nodes, N
    <3>5. ASSUME NEW x \in nodes PROVE x \in 0 .. N
      <4>1. CASE x = 0
        BY <3>1, <4>1
      <4>2. ASSUME NEW i \in DOMAIN list, x \in {list[i].source, list[i].target} PROVE x \in 0 .. N
        BY <3>3, <4>2
      <4> QED
        BY <3>4, <4>1, <4>2
    <3>6. 0 \in nodes /\ \A i \in 1 .. Len(list) : list[i].source \in nodes
      BY <2>1, <3>4, Zenon
    <3> QED
      BY <3>5, <3>6
  <2>3. used = 1 + Max(nodes)
    BY SameOperators DEF Query!MaxUsedNodeId
  <2> HIDE DEF nodes, used
  <2>4. IsFiniteSet(nodes) /\ nodes \subseteq Nat
    <3>1. IsFiniteSet(0 .. N)
      BY <1>0, FS_Interval
    <3>2. IsFiniteSet(nodes)
      BY <2>2, <3>1, FS_Subset
    <3> QED
      BY <1>0, <2>2, <3>2
  <2>5. Max(nodes) \in nodes /\ \A x \in nodes : x <= Max(nodes)
    BY <2>2, <2>4, MaxIs
  <2>6. ASSUME NEW i \in 1 .. Len(list) PROVE list[i].source < n
    <3>1. list[i].source <= Max(nodes) /\ list[i].source \in Nat /\ Max(nodes) \in Nat
      BY <2>2, <2>4, <2>5
    <3>2. n \in Nat /\ ~(n < 1 + Max(nodes))
      BY <1>0, <1>14, <2>3
    <3> QED
      BY <3>1, <3>2
  <2>7. Cut(list, Len(list), n)
    BY <1>0, <2>6 DEF Cut
  <2> QED
    BY <1>1, <1>14, <2>7
<1> QED
  BY <1>13, <1>14

\* An edge without its source.
Bare(e) == [field \in DOMAIN e \ {"source"} |-> e[field]]

\* It keeps the other fields.
LEMMA BareFields ==
    ASSUME NEW E, GoodEdges(E), NEW e \in E
    PROVE  /\ Bare(e).target = e.target /\ Bare(e).distance = e.distance /\ Bare(e).id = e.id
           /\ (Bare(e).forward <=> e.forward) /\ (Bare(e).backward <=> e.backward)
           /\ (Bare(e).shortcut <=> e.shortcut)
BY DEF Bare, GoodEdges, EdgeRecords

\* The graph that is read back has at every node the edges of this node.
LEMMA GraphIs ==
    ASSUME NEW E, GoodEdges(E), IsFiniteSet(E), NEW u \in NodeIDs
    PROVE  /\ \A e \in E : e.source = u => Bare(e) \in Query!SerializedGraph(E, number_of_nodes)[u]
           /\ \A x \in Query!SerializedGraph(E, number_of_nodes)[u] :
                \E e \in E : e.source = u /\ x = Bare(e)
<1> DEFINE list == Query!ContractedEdgeList(E)
           first == Query!NodeArray(list, number_of_nodes)
           array == Query!EdgeArray(list)
<1>0. number_of_nodes \in Nat /\ u \in 0 .. number_of_nodes - 1 /\ u \in Nat
  BY ContractorAssumption DEF NodeIDs
<1>1. /\ list \in Seq(E) /\ Members(list) = E
      /\ \A i, j \in 1 .. Len(list) : i <= j => list[i].source <= list[j].source
  BY ListIs
<1>2. Query!SerializedGraph(E, number_of_nodes)[u] = {array[i] : i \in first[u] + 1 .. first[u + 1]}
  BY <1>0 DEF Query!SerializedGraph, Query!EdgesInRange
<1>3. Len(list) \in Nat /\ DOMAIN list = 1 .. Len(list) /\ \A i \in 1 .. Len(list) : list[i] \in E
  BY <1>1
<1>4. \A i \in 1 .. Len(list) : array[i] = Bare(list[i])
  BY <1>3 DEF Query!EdgeArray, Bare
<1> HIDE DEF list, array, first
<1>5. InOrder(list)
  BY <1>1, <1>3, EdgeFields DEF InOrder
<1>6. Cut(list, first[u], u) /\ Cut(list, first[u + 1], u + 1)
  <2>1. u \in 0 .. number_of_nodes /\ u + 1 \in 0 .. number_of_nodes
    BY <1>0
  <2> DEFINE v == u + 1
  <2> HIDE DEF v
  <2>2. Cut(list, first[u], u) /\ Cut(list, first[v], v)
    BY <1>1, <1>5, <2>1, NodeArrayIs DEF first, v
  <2> QED
    BY <2>2 DEF v
<1>7. \A i : i \in first[u] + 1 .. first[u + 1] <=> i \in 1 .. Len(list) /\ list[i].source = u
  <2>1. /\ first[u] \in 0 .. Len(list) /\ first[u + 1] \in 0 .. Len(list)
        /\ \A i \in 1 .. Len(list) : /\ i <= first[u] <=> list[i].source < u
                                     /\ i <= first[u + 1] <=> list[i].source < u + 1
    BY <1>6 DEF Cut
  <2>2. \A i \in 1 .. Len(list) : list[i].source \in Nat
    BY <1>5, <1>0 DEF InOrder, NodeIDs
  <2> QED
    BY <1>0, <1>3, <2>1, <2>2
<1>8. ASSUME NEW e \in E, e.source = u PROVE Bare(e) \in {array[i] : i \in first[u] + 1 .. first[u + 1]}
  <2>1. PICK i \in 1 .. Len(list) : list[i] = e
    BY <1>1, <1>3 DEF Members
  <2> QED
    BY <1>4, <1>7, <1>8, <2>1
<1>9. ASSUME NEW x \in {array[i] : i \in first[u] + 1 .. first[u + 1]}
      PROVE  \E e \in E : e.source = u /\ x = Bare(e)
  BY <1>3, <1>4, <1>7
<1> QED
  BY <1>2, <1>8, <1>9

-----------------------------------------------------------------------------
(* The heap of one direction *)

\* A set of integers with a lower bound has a least one.
LEMMA LeastIs ==
    ASSUME NEW S, S \subseteq Int, S # {}, NEW b \in Int, \A x \in S : b <= x
    PROVE  Min(S) \in S /\ \A y \in S : Min(S) <= y
<1> DEFINE T == {x - b : x \in S}
<1>1. T \subseteq Nat /\ T # {}
  <2>1. ASSUME NEW x \in S PROVE x - b \in Nat
    BY b <= x, x \in Int
  <2> QED
    BY <2>1
<1>2. PICK t \in T : \A y \in T : t <= y
  BY <1>1, LeastNumber
<1>3. PICK x \in S : t = x - b
  BY <1>2
<1>4. ASSUME NEW y \in S PROVE x <= y
  <2>1. x - b <= y - b
    BY <1>2, <1>3
  <2> QED
    BY <2>1
<1> QED
  BY <1>4 DEF Min

HeapNodes == [node : NodeIDs, weight : Int, parent : NodeIDs, removed : BOOLEAN]

\* A search in direction d goes along the edges of R, which lead upwards; distances are
\* those of T, and an edge that the stalling looks at is one of T in the opposite direction.
Directed(d, R, T) ==
    /\ R \in SUBSET Arcs /\ T \in SUBSET Arcs /\ Covers(T, R)
    /\ \A u \in NodeIDs : \A e \in query_graph[u] :
         /\ e.target \in NodeIDs /\ e.distance \in Nat \ {0}
         /\ Query!Usable(e, d) /\ e.distance < INT_MAX => Walk(T, u, e.target, e.distance)
         /\ Query!UsableReversed(e, d) /\ e.distance < INT_MAX => Walk(T, e.target, u, e.distance)
    /\ \A a \in R : \E e \in query_graph[a.from] :
         Query!Usable(e, d) /\ e.target = a.to /\ e.distance = a.weight

\* An edge leads from top to v with weight w.
Leaves(d, top, v, w) ==
    \E e \in query_graph[top.node] : Query!Usable(e, d) /\ e.target = v /\ w = top.weight + e.distance

\* Entry x is h, or h after an edge from top made it lighter.
Lightened(d, top, h, x) ==
    /\ x.node = h.node /\ (x.removed <=> h.removed) /\ x.weight <= h.weight
    /\ x = h \/ (x.weight < h.weight /\ x.parent = top.node /\ Leaves(d, top, x.node, x.weight))

\* Entry x was discovered from top.
Discovered(d, top, H, x) ==
    /\ ~x.removed /\ x.parent = top.node /\ Leaves(d, top, x.node, x.weight)
    /\ \A h \in H : h.node # x.node

OneEach(H) == \A g, h \in H : g.node = h.node => g = h

\* K is heap H after the edges of top were relaxed.
Relaxes(d, top, H, K) ==
    /\ K \subseteq HeapNodes
    /\ \A h \in H : \E x \in K : Lightened(d, top, h, x)
    /\ \A x \in K : Discovered(d, top, H, x) \/ \E h \in H : Lightened(d, top, h, x)
    /\ \A v, w : Leaves(d, top, v, w) => \E x \in K : x.node = v /\ x.weight <= w
    /\ OneEach(H) => OneEach(K)

\* Relaxing does this.
LEMMA RelaxedIs ==
    ASSUME NEW d, NEW R, NEW T, Directed(d, R, T), NEW H, H \subseteq HeapNodes, NEW top \in HeapNodes
    PROVE  Relaxes(d, top, H, Query!Relaxed(H, top, d))
<1> DEFINE out == {e \in Query!Adjacent(top.node) : Query!Usable(e, d)}
           To(v) == {top.weight + e.distance : e \in {f \in out : f.target = v}}
           Shorter(h) == \E w \in To(h.node) : w < h.weight
           New(h) == [h EXCEPT !.weight = Query!Min(To(h.node)), !.parent = top.node]
           Image(h) == IF Shorter(h) THEN New(h) ELSE h
           targets == {e.target : e \in {f \in out : ~Query!WasInserted(H, f.target)}}
           Fresh(v) == Query!HeapNode(v, Query!Min(To(v)), top.node)
           K == Query!Relaxed(H, top, d)
<1>0. top.node \in NodeIDs /\ top.weight \in Int
  BY DEF HeapNodes
<1>1. K = {Image(h) : h \in H} \cup {Fresh(v) : v \in targets}
  BY DEF Query!Relaxed
<1>2. \A v, w : w \in To(v) <=> Leaves(d, top, v, w)
  BY DEF Leaves, Query!Adjacent
<1>3. \A v, w : Leaves(d, top, v, w) => w \in Int /\ w > top.weight /\ v \in NodeIDs
  BY <1>0 DEF Leaves, Directed
<1>4. ASSUME NEW v, To(v) # {}
      PROVE  /\ Query!Min(To(v)) \in To(v) /\ Query!Min(To(v)) \in Int
             /\ \A w \in To(v) : Query!Min(To(v)) <= w
  <2> DEFINE S == To(v)
  <2> HIDE DEF To
  <2>1. S \subseteq Int /\ \A w \in S : top.weight <= w
    BY <1>0, <1>2, <1>3
  <2> HIDE DEF S
  <2>2. Min(S) \in S /\ \A w \in S : Min(S) <= w
    BY <1>0, <1>4, <2>1, LeastIs DEF S
  <2> QED
    BY <2>1, <2>2, SameOperators DEF S
<1>5. \A v : v \in targets <=> To(v) # {} /\ \A h \in H : h.node # v
  BY DEF Query!WasInserted
<1> HIDE DEF To
<1>6. ASSUME NEW h \in H, Shorter(h)
      PROVE  /\ New(h) \in HeapNodes /\ New(h).node = h.node /\ (New(h).removed <=> h.removed)
             /\ New(h).weight = Query!Min(To(h.node)) /\ New(h).parent = top.node
  <2>1. Query!Min(To(h.node)) \in Int
    BY <1>4, <1>6
  <2> DEFINE w == Query!Min(To(h.node))
             n == top.node
  <2>2. w \in Int /\ n \in NodeIDs /\ h \in HeapNodes
    BY <1>0, <2>1
  <2> HIDE DEF w, n
  <2> QED
    BY <2>2 DEF HeapNodes, w, n
<1>7. ASSUME NEW h \in H PROVE Image(h) \in HeapNodes /\ Lightened(d, top, h, Image(h))
  <2>1. CASE Shorter(h)
    <3>1. To(h.node) # {} /\ \E w \in To(h.node) : w < h.weight
      BY <2>1
    <3>2. Image(h) = New(h)
      BY <2>1
    <3> DEFINE x == New(h)
    <3>3. x \in HeapNodes /\ x.node = h.node /\ (x.removed <=> h.removed) /\ x.parent = top.node
      BY <1>6, <2>1
    <3>4. x.weight = Query!Min(To(h.node))
      BY <1>6, <2>1
    <3> HIDE DEF x
    <3>5. x.weight \in To(h.node) /\ x.weight \in Int /\ \A w \in To(h.node) : x.weight <= w
      BY <1>4, <3>1, <3>4
    <3>6. h.weight \in Int
      BY DEF HeapNodes
    <3>7. \A w \in To(h.node) : w \in Int
      BY <1>2, <1>3
    <3>8. x.weight < h.weight
      BY <3>1, <3>5, <3>6, <3>7
    <3>9. Leaves(d, top, x.node, x.weight)
      BY <1>2, <3>3, <3>5
    <3>10. Lightened(d, top, h, x)
      BY <3>3, <3>5, <3>6, <3>8, <3>9 DEF Lightened
    <3> QED
      BY <3>2, <3>3, <3>10 DEF x
  <2>2. CASE ~Shorter(h)
    <3>1. Image(h) = h /\ h \in HeapNodes /\ h.weight \in Int
      BY <2>2 DEF HeapNodes
    <3>2. Lightened(d, top, h, h)
      BY <3>1 DEF Lightened
    <3> QED
      BY <3>1, <3>2
  <2> QED
    BY <2>1, <2>2
<1>8. ASSUME NEW v \in targets
      PROVE  /\ Fresh(v) \in HeapNodes /\ Discovered(d, top, H, Fresh(v)) /\ Fresh(v).node = v
             /\ \A w \in To(v) : Fresh(v).weight <= w
  <2>1. To(v) # {} /\ \A h \in H : h.node # v
    BY <1>5
  <2> DEFINE w == Query!Min(To(v))
  <2>2. w \in Int /\ w \in To(v) /\ (\A x \in To(v) : w <= x) /\ v \in NodeIDs
    BY <1>2, <1>3, <1>4, <2>1
  <2> DEFINE x == Fresh(v)
  <2> HIDE DEF w
  <2>3. x \in HeapNodes /\ x.node = v /\ x.weight = w /\ x.parent = top.node /\ ~x.removed
    BY <1>0, <2>2 DEF HeapNodes, Query!HeapNode, w
  <2> HIDE DEF x
  <2>4. Leaves(d, top, x.node, x.weight)
    BY <1>2, <2>2, <2>3
  <2>5. Discovered(d, top, H, x)
    BY <2>1, <2>3, <2>4 DEF Discovered
  <2> QED
    BY <2>2, <2>3, <2>5 DEF x
<1> HIDE DEF Image, Fresh, targets, K, Shorter
<1>9. K \subseteq HeapNodes
  BY <1>1, <1>7, <1>8
<1>10. \A h \in H : Image(h) \in K /\ Lightened(d, top, h, Image(h))
  BY <1>1, <1>7
<1>11. \A x \in K : Discovered(d, top, H, x) \/ \E h \in H : Lightened(d, top, h, x)
  BY <1>1, <1>7, <1>8
<1>12. ASSUME NEW v, NEW w, Leaves(d, top, v, w) PROVE \E x \in K : x.node = v /\ x.weight <= w
  <2>1. w \in To(v) /\ w \in Int
    BY <1>2, <1>3, <1>12
  <2>2. CASE \E h \in H : h.node = v
    <3>1. PICK h \in H : h.node = v
      BY <2>2
    <3>2. h.weight \in Int
      BY DEF HeapNodes
    <3>3. CASE Shorter(h)
      <4>1. Image(h) = New(h)
        BY <3>3 DEF Image
      <4>2. New(h).node = v /\ New(h).weight = Query!Min(To(v))
        BY <1>6, <3>1, <3>3
      <4>3. Query!Min(To(v)) <= w
        BY <1>4, <2>1
      <4> QED
        BY <1>10, <4>1, <4>2, <4>3
    <3>4. CASE ~Shorter(h)
      <4>1. Image(h) = h
        BY <3>4 DEF Image
      <4>2. ~(w < h.weight)
        BY <2>1, <3>1, <3>4 DEF Shorter
      <4> QED
        BY <1>10, <2>1, <3>1, <3>2, <4>1, <4>2
    <3> QED
      BY <3>3, <3>4
  <2>3. CASE ~\E h \in H : h.node = v
    <3>1. v \in targets
      BY <1>5, <2>1, <2>3
    <3>2. Fresh(v) \in K
      BY <1>1, <3>1
    <3> QED
      BY <1>8, <2>1, <3>1, <3>2
  <2> QED
    BY <2>2, <2>3
<1>13. ASSUME OneEach(H) PROVE OneEach(K)
  <2>1. \A h \in H : Image(h).node = h.node
    BY <1>10 DEF Lightened
  <2>2. \A v \in targets : Fresh(v).node = v /\ \A h \in H : h.node # v
    BY <1>5, <1>8
  <2>3. \A g, h \in H : Image(g).node = Image(h).node => Image(g) = Image(h)
    BY <1>13, <2>1 DEF OneEach
  <2> QED
    BY <1>1, <2>1, <2>2, <2>3 DEF OneEach
<1>14. Relaxes(d, top, H, K)
  BY <1>9, <1>10, <1>11, <1>12, <1>13 DEF Relaxes
<1> QED
  BY <1>14 DEF K

\* Where a search starts: nodes with the key they have first.
Starts(P) == \A p \in P : p.node \in NodeIDs /\ p.key \in Int

\* The weight of h is the key of a start and the length of a walk from there.
FromStart(T, P, h) ==
    \E p \in P : /\ h.weight - p.key \in Nat
                 /\ h.weight - p.key < INT_MAX => Walk(T, p.node, h.node, h.weight - p.key)

\* A heap of a search from P: entries are no lighter than the walks, every node has one, and
\* nodes were removed in the order of their weights.
SoundHeap(T, P, H) ==
    /\ H \subseteq HeapNodes /\ OneEach(H)
    /\ \A h \in H : FromStart(T, P, h)
    /\ \A g, h \in H : g.removed /\ ~h.removed => g.weight <= h.weight

\* The entry top of H, removed.
Gone(top) == [top EXCEPT !.removed = TRUE]
Rest(H, top) == (H \ {top}) \cup {Gone(top)}

\* Between the nodes that are settled and the others.
Between(H, top) == \A h \in H : IF h.removed THEN h.weight <= top.weight ELSE top.weight <= h.weight

\* The fields of an entry.
LEMMA HeapNodeIs ==
    ASSUME NEW H, H \subseteq HeapNodes, NEW h \in H
    PROVE  h.node \in NodeIDs /\ h.weight \in Int /\ h.parent \in NodeIDs /\ h.removed \in BOOLEAN
<1>1. h \in HeapNodes
  OBVIOUS
<1> QED
  BY <1>1 DEF HeapNodes

\* A removed entry keeps node, weight and parent.
LEMMA GoneIs ==
    ASSUME NEW h \in HeapNodes
    PROVE  /\ Gone(h) \in HeapNodes /\ Gone(h).node = h.node /\ Gone(h).weight = h.weight
           /\ Gone(h).parent = h.parent /\ Gone(h).removed
BY DEF HeapNodes, Gone

\* The entry that comes first.
LEMMA TopIs ==
    ASSUME NEW H, H \subseteq HeapNodes, NEW top, top \in Query!Minima(H)
    PROVE  /\ top \in H /\ top \in HeapNodes /\ ~top.removed
           /\ \A h \in H : ~h.removed => top.weight <= h.weight
BY DEF Query!Minima, Query!Open

\* The heap without its first entry.
LEMMA RestSound ==
    ASSUME NEW T, NEW P, NEW H, SoundHeap(T, P, H), NEW top, top \in Query!Minima(H)
    PROVE  SoundHeap(T, P, Rest(H, top)) /\ Between(Rest(H, top), top) /\ FromStart(T, P, top)
<1> DEFINE K == Rest(H, top)
           g == Gone(top)
<1>0. /\ H \subseteq HeapNodes /\ OneEach(H) /\ \A h \in H : FromStart(T, P, h)
      /\ \A x, h \in H : x.removed /\ ~h.removed => x.weight <= h.weight
  BY DEF SoundHeap
<1>1. /\ top \in H /\ top \in HeapNodes /\ ~top.removed
      /\ \A h \in H : ~h.removed => top.weight <= h.weight
  BY <1>0, TopIs
<1>2. /\ g \in HeapNodes /\ g.node = top.node /\ g.weight = top.weight /\ g.parent = top.parent
      /\ g.removed
  BY <1>1, GoneIs
<1> HIDE DEF g
<1>3. \A x : x \in K <=> (x \in H /\ x # top) \/ x = g
  BY DEF Rest, g
<1>4. top.weight \in Int /\ \A h \in H : h.weight \in Int
  BY <1>0, <1>1, HeapNodeIs
<1> HIDE DEF K
<1>5. K \subseteq HeapNodes
  BY <1>0, <1>2, <1>3
<1>6. OneEach(K)
  BY <1>0, <1>1, <1>2, <1>3 DEF OneEach
<1>7. FromStart(T, P, g)
  BY <1>0, <1>1, <1>2 DEF FromStart
<1>8. \A h \in K : FromStart(T, P, h)
  BY <1>0, <1>3, <1>7
<1>9. Between(K, top)
  <2>1. ASSUME NEW h \in K
        PROVE  (h.removed => h.weight <= top.weight) /\ (~h.removed => top.weight <= h.weight)
    BY <1>0, <1>1, <1>2, <1>3, <1>4
  <2> QED
    BY <2>1 DEF Between
<1>10. \A x, h \in K : x.removed /\ ~h.removed => x.weight <= h.weight
  <2>1. \A h \in K : h.weight \in Int
    BY <1>2, <1>3, <1>4
  <2> QED
    BY <1>4, <1>9, <2>1 DEF Between
<1>11. SoundHeap(T, P, K)
  BY <1>5, <1>6, <1>8, <1>10 DEF SoundHeap
<1> QED
  BY <1>0, <1>1, <1>9, <1>11 DEF K

\* An edge of a node that is as far as a start says leads to one of which the same holds.
LEMMA LeavesSound ==
    ASSUME NEW d, NEW R, NEW T, Directed(d, R, T), NEW P, Starts(P),
           NEW top \in HeapNodes, FromStart(T, P, top),
           NEW x \in HeapNodes, Leaves(d, top, x.node, x.weight)
    PROVE  FromStart(T, P, x) /\ x.weight > top.weight
<1>0. /\ top.node \in NodeIDs /\ x.node \in NodeIDs /\ top.weight \in Int /\ x.weight \in Int
      /\ T \in SUBSET Arcs /\ INT_MAX \in Nat \ {0}
  BY ContractorAssumption DEF HeapNodes, Directed
<1>1. PICK e \in query_graph[top.node] :
        Query!Usable(e, d) /\ e.target = x.node /\ x.weight = top.weight + e.distance
  BY DEF Leaves
<1>2. e.distance \in Nat \ {0} /\ (e.distance < INT_MAX => Walk(T, top.node, x.node, e.distance))
  BY <1>0, <1>1 DEF Directed
<1>3. PICK p \in P : /\ top.weight - p.key \in Nat
                     /\ top.weight - p.key < INT_MAX => Walk(T, p.node, top.node, top.weight - p.key)
  BY DEF FromStart
<1>4. p.node \in NodeIDs /\ p.key \in Int
  BY DEF Starts
<1> DEFINE i == top.weight - p.key
           j == e.distance
<1>5. i \in Nat /\ j \in Nat \ {0} /\ x.weight - p.key = i + j
  BY <1>0, <1>1, <1>2, <1>3, <1>4
<1>6. (i < INT_MAX => Walk(T, p.node, top.node, i)) /\ (j < INT_MAX => Walk(T, top.node, x.node, j))
  BY <1>2, <1>3
<1> HIDE DEF i, j
<1>7. ASSUME i + j < INT_MAX PROVE Walk(T, p.node, x.node, i + j)
  <2>1. i < INT_MAX /\ j < INT_MAX /\ i \in Budgets /\ j \in Budgets /\ i + j \in Budgets
    BY <1>0, <1>5, <1>7 DEF Budgets
  <2> QED
    BY <1>0, <1>4, <1>6, <2>1, WalkJoin
<1>8. FromStart(T, P, x)
  BY <1>5, <1>7 DEF FromStart
<1> QED
  BY <1>0, <1>1, <1>2, <1>8

\* Relaxing the edges of top keeps the heap sound, and leaves removed entries as they are.
LEMMA RelaxedSound ==
    ASSUME NEW d, NEW R, NEW T, Directed(d, R, T), NEW P, Starts(P), NEW H, SoundHeap(T, P, H),
           NEW top \in HeapNodes, FromStart(T, P, top), Between(H, top),
           NEW K, Relaxes(d, top, H, K)
    PROVE  /\ SoundHeap(T, P, K)
           /\ \A x \in K : x.removed => x \in H
           /\ \A x \in H : x.removed => x \in K
<1>0. /\ H \subseteq HeapNodes /\ OneEach(H) /\ \A h \in H : FromStart(T, P, h)
      /\ \A x, h \in H : x.removed /\ ~h.removed => x.weight <= h.weight
  BY DEF SoundHeap
<1>1. /\ K \subseteq HeapNodes /\ OneEach(K)
      /\ \A h \in H : \E x \in K : Lightened(d, top, h, x)
      /\ \A x \in K : Discovered(d, top, H, x) \/ \E h \in H : Lightened(d, top, h, x)
  BY <1>0 DEF Relaxes
<1>2. top.weight \in Int /\ (\A h \in H : h.weight \in Int) /\ (\A h \in K : h.weight \in Int)
  BY <1>0, <1>1 DEF HeapNodes
<1>3. \A x \in K : Leaves(d, top, x.node, x.weight) => FromStart(T, P, x) /\ x.weight > top.weight
  BY <1>1, LeavesSound
<1>4. ASSUME NEW h \in H, NEW x \in K, Lightened(d, top, h, x), h.removed PROVE x = h
  <2>1. h.weight <= top.weight
    BY <1>4 DEF Between
  <2>2. x = h \/ (x.weight < h.weight /\ Leaves(d, top, x.node, x.weight))
    BY <1>4 DEF Lightened
  <2> QED
    BY <1>2, <1>3, <2>1, <2>2
<1>5. \A x \in K : FromStart(T, P, x)
  BY <1>0, <1>1, <1>3 DEF Lightened, Discovered
<1>6. \A x \in K : x.removed => x \in H /\ x.weight <= top.weight
  BY <1>1, <1>4 DEF Lightened, Discovered, Between
<1>7. ASSUME NEW x \in K, ~x.removed PROVE top.weight <= x.weight
  <2>1. CASE Leaves(d, top, x.node, x.weight)
    BY <1>2, <1>3, <2>1
  <2>2. CASE ~Leaves(d, top, x.node, x.weight)
    <3>1. x \in H
      BY <1>1, <2>2 DEF Lightened, Discovered
    <3> QED
      BY <1>7, <3>1 DEF Between
  <2> QED
    BY <2>1, <2>2
<1>8. \A x, h \in K : x.removed /\ ~h.removed => x.weight <= h.weight
  BY <1>2, <1>6, <1>7
<1>9. \A x \in H : x.removed => x \in K
  BY <1>1, <1>4
<1> QED
  BY <1>1, <1>5, <1>6, <1>8, <1>9 DEF SoundHeap

-----------------------------------------------------------------------------
(* Searching for a node *)

\* The node m is F away from the starts, and no nearer.
Far(T, P, m, F) ==
    /\ m \in NodeIDs /\ F \in Int
    /\ \A p \in P : /\ F - p.key <= INT_MAX
                    /\ \A w \in Budgets : Walk(T, p.node, m, w) => F <= p.key + w

\* The search was there, or has an entry from which it will get there.
Reached(H, m, F) == \E h \in H : h.removed /\ h.node = m /\ h.weight <= F
Leading(R, h, m, F) == \E j \in Budgets : Walk(R, h.node, m, j) /\ h.weight + j <= F
Pending(R, H, m, F) == \E h \in H : ~h.removed /\ Leading(R, h, m, F)

\* No sound weight is less than the way that leads on.
LEMMA NoNearer ==
    ASSUME NEW T, T \in SUBSET Arcs, NEW P, Starts(P), NEW m, NEW F, Far(T, P, m, F),
           NEW h \in HeapNodes, FromStart(T, P, h), NEW j \in Budgets, Walk(T, h.node, m, j)
    PROVE  F <= h.weight + j
<1>0. h.node \in NodeIDs /\ h.weight \in Int /\ m \in NodeIDs /\ F \in Int /\ INT_MAX \in Nat \ {0}
  BY ContractorAssumption DEF HeapNodes, Far
<1>1. PICK p \in P : /\ h.weight - p.key \in Nat
                     /\ h.weight - p.key < INT_MAX => Walk(T, p.node, h.node, h.weight - p.key)
  BY DEF FromStart
<1>2. p.node \in NodeIDs /\ p.key \in Int /\ F - p.key <= INT_MAX
  BY DEF Starts, Far
<1> DEFINE i == h.weight - p.key
<1>3. i \in Nat /\ h.weight = p.key + i /\ (i < INT_MAX => Walk(T, p.node, h.node, i)) /\ j \in Nat
  BY <1>0, <1>1, <1>2 DEF Budgets
<1> HIDE DEF i
<1>4. CASE i + j < INT_MAX
  <2>1. i \in Budgets /\ i + j \in Budgets /\ i < INT_MAX
    BY <1>0, <1>3, <1>4 DEF Budgets
  <2>2. Walk(T, p.node, m, i + j)
    BY <1>0, <1>2, <1>3, <2>1, WalkJoin
  <2>3. F <= p.key + (i + j)
    BY <2>1, <2>2 DEF Far
  <2> QED
    BY <1>0, <1>2, <1>3, <2>3
<1>5. CASE ~(i + j < INT_MAX)
  BY <1>0, <1>2, <1>3, <1>5
<1> QED
  BY <1>4, <1>5

\* No entry is farther away than a walk can be.
LEMMA Within ==
    ASSUME NEW T, NEW P, Starts(P), NEW m, NEW F, Far(T, P, m, F), NEW h \in HeapNodes, FromStart(T, P, h)
    PROVE  F <= h.weight + INT_MAX
<1>0. h.weight \in Int /\ F \in Int /\ INT_MAX \in Nat
  BY ContractorAssumption DEF HeapNodes, Far
<1>1. PICK p \in P : h.weight - p.key \in Nat
  BY DEF FromStart
<1>2. p.key \in Int /\ F - p.key <= INT_MAX
  BY DEF Starts, Far
<1> QED
  BY <1>0, <1>1, <1>2

\* The search is not stalled at a node through which the way leads: an entry that stalls it
\* would be nearer.
LEMMA NotStalled ==
    ASSUME NEW d, NEW R, NEW T, Directed(d, R, T), NEW P, Starts(P), NEW m, NEW F, Far(T, P, m, F),
           NEW H, SoundHeap(T, P, H), NEW top \in HeapNodes, Leading(R, top, m, F)
    PROVE  ~Query!Stalled(H, top, d)
<1> SUFFICES ASSUME Query!Stalled(H, top, d) PROVE FALSE
  OBVIOUS
<1>0. /\ top.node \in NodeIDs /\ top.weight \in Int /\ m \in NodeIDs /\ F \in Int
      /\ INT_MAX \in Nat \ {0} /\ T \in SUBSET Arcs /\ Covers(T, R)
  BY ContractorAssumption DEF HeapNodes, Far, Directed
<1>1. PICK e \in query_graph[top.node] :
        /\ Query!UsableReversed(e, d) /\ Query!WasInserted(H, e.target)
        /\ Query!Entry(H, e.target).weight + e.distance < top.weight
  BY DEF Query!Stalled, Query!Adjacent
<1> DEFINE g == Query!Entry(H, e.target)
<1>2. g \in H /\ g.node = e.target
  BY <1>1 DEF Query!WasInserted, Query!Entry
<1>3. g.weight + e.distance < top.weight
  BY <1>1
<1> HIDE DEF g
<1>4. g \in HeapNodes /\ g.node \in NodeIDs /\ g.weight \in Int /\ FromStart(T, P, g)
  BY <1>2 DEF SoundHeap, HeapNodes
<1>5. /\ e.distance \in Nat \ {0}
      /\ e.distance < INT_MAX => Walk(T, g.node, top.node, e.distance)
  BY <1>0, <1>1, <1>2 DEF Directed
<1>6. PICK j \in Budgets : Walk(R, top.node, m, j) /\ top.weight + j <= F
  BY DEF Leading
<1>7. Walk(T, top.node, m, j)
  BY <1>0, <1>6, WalkCovered
<1> DEFINE x == e.distance
           y == x + j
<1>8. x \in Nat \ {0} /\ j \in Nat /\ y \in Nat
  BY <1>5, <1>6 DEF Budgets
<1>9. CASE y < INT_MAX
  <2>1. x \in Budgets /\ y \in Budgets
    BY <1>0, <1>8, <1>9 DEF Budgets
  <2>2. Walk(T, g.node, top.node, x)
    BY <1>0, <1>5, <2>1 DEF Budgets
  <2> HIDE DEF x
  <2>3. Walk(T, g.node, m, x + j)
    BY <1>0, <1>4, <1>6, <1>7, <2>1, <2>2, WalkJoin
  <2> HIDE DEF y
  <2>4. F <= g.weight + y
    BY <1>0, <1>4, <2>1, <2>3, NoNearer DEF y
  <2> QED
    BY <1>0, <1>3, <1>4, <1>6, <1>8, <2>4 DEF x, y
<1>10. CASE ~(y < INT_MAX)
  <2>1. F <= g.weight + INT_MAX
    BY <1>4, Within
  <2> QED
    BY <1>0, <1>3, <1>4, <1>6, <1>8, <1>10, <2>1
<1> QED
  BY <1>9, <1>10

\* Relaxing the edges of the first entry keeps the search on its way, unless it arrives.
LEMMA RelaxedLeads ==
    ASSUME NEW d, NEW R, NEW T, Directed(d, R, T), NEW P, Starts(P), NEW m, NEW F, Far(T, P, m, F),
           NEW H, SoundHeap(T, P, H), NEW top, top \in Query!Minima(H),
           NEW K, Relaxes(d, top, Rest(H, top), K), Pending(R, H, m, F)
    PROVE  Pending(R, K, m, F) \/ (top.node = m /\ top.weight <= F)
<1> DEFINE L == Rest(H, top)
<1>0. H \subseteq HeapNodes
  BY DEF SoundHeap
<1>1. SoundHeap(T, P, L) /\ Between(L, top) /\ FromStart(T, P, top) /\ top \in HeapNodes
  BY <1>0, RestSound, TopIs
<1>2. /\ top.node \in NodeIDs /\ top.weight \in Int /\ m \in NodeIDs /\ F \in Int
      /\ INT_MAX \in Nat \ {0} /\ T \in SUBSET Arcs /\ R \in SUBSET Arcs /\ Covers(T, R)
  BY <1>1, ContractorAssumption DEF HeapNodes, Far, Directed
<1>3. PICK h \in H : ~h.removed /\ Leading(R, h, m, F)
  BY DEF Pending
<1>4. h.weight \in Int
  BY <1>0 DEF HeapNodes
<1>5. PICK j \in Budgets : Walk(R, h.node, m, j) /\ h.weight + j <= F
  BY <1>3 DEF Leading
<1>6. j \in Nat
  BY <1>2 DEF Budgets
<1>7. /\ SoundHeap(T, P, K) /\ K \subseteq HeapNodes
      /\ \A x \in K : x.removed => x \in L
  <2>1. SoundHeap(T, P, K) /\ \A x \in K : x.removed => x \in L
    BY <1>1, RelaxedSound
  <2> QED
    BY <2>1 DEF SoundHeap
<1>8. CASE h # top
  <2>1. h \in L
    BY <1>8 DEF Rest
  <2>2. PICK x \in K : Lightened(d, top, h, x)
    BY <2>1 DEF Relaxes
  <2>3. x.weight \in Int /\ x.weight <= h.weight /\ x.node = h.node /\ ~x.removed
    BY <1>3, <1>7, <2>2 DEF Lightened, HeapNodes
  <2>4. Leading(R, x, m, F)
    BY <1>2, <1>4, <1>5, <1>6, <2>3 DEF Leading
  <2> QED
    BY <2>3, <2>4 DEF Pending
<1>9. CASE h = top /\ top.node = m
  BY <1>2, <1>5, <1>6, <1>9
<1>10. CASE h = top /\ top.node # m
  <2>1. Walk(R, top.node, m, j) /\ top.weight + j <= F
    BY <1>5, <1>10
  <2>2. PICK a \in R : a.from = top.node /\ Walk(R, a.to, m, j - a.weight)
    BY <1>2, <1>10, <2>1, WalkFirst
  <2> DEFINE w == a.weight
             i == j - w
             v == a.to
  <2>3. w \in Nat \ {0} /\ v \in NodeIDs
    BY <1>2 DEF Arcs
  <2>4. i \in Int /\ Walk(R, v, m, i)
    BY <1>6, <2>2, <2>3
  <2>5. i >= 0
    <3> HIDE DEF i, v
    <3> QED
      BY <2>4, WalkWeight
  <2>6. i \in Budgets /\ i < j /\ j = i + w
    BY <1>2, <1>6, <2>3, <2>5 DEF Budgets
  <2>7. PICK e \in query_graph[top.node] : Query!Usable(e, d) /\ e.target = v /\ e.distance = w
    BY <2>2 DEF Directed
  <2>8. Leaves(d, top, v, top.weight + w)
    BY <2>7 DEF Leaves
  <2> HIDE DEF w, i, v
  <2>9. PICK x \in K : x.node = v /\ x.weight <= top.weight + w
    BY <2>8 DEF Relaxes
  <2>10. x \in HeapNodes /\ x.weight \in Int /\ FromStart(T, P, x)
    BY <1>7 DEF HeapNodes, SoundHeap
  <2>11. CASE ~x.removed
    <3>1. x.weight + i <= F
      BY <1>2, <2>1, <2>3, <2>6, <2>9, <2>10 DEF Budgets
    <3>2. Leading(R, x, m, F)
      BY <2>4, <2>6, <2>9, <3>1 DEF Leading
    <3> QED
      BY <2>11, <3>2 DEF Pending
  <2>12. CASE x.removed
    <3>1. x.weight <= top.weight
      BY <1>1, <1>7, <2>12 DEF Between
    <3>2. Walk(T, x.node, m, i)
      BY <1>2, <2>3, <2>4, <2>6, <2>9, WalkCovered
    <3>3. F <= x.weight + i
      BY <1>2, <2>6, <2>10, <3>2, NoNearer
    <3> QED
      BY <1>2, <1>6, <2>1, <2>3, <2>6, <2>10, <3>1, <3>3
  <2> QED
    BY <2>11, <2>12
<1> QED
  BY <1>8, <1>9, <1>10

\* Heap H after its first entry is settled: relaxed, or stalled.
Settles(d, H, top, K) ==
    \/ K = Query!Relaxed(Rest(H, top), top, d)
    \/ K = Rest(H, top) /\ Query!Stalled(Rest(H, top), top, d)

\* Settling the first entry keeps the heap sound.
LEMMA SettlesSound ==
    ASSUME NEW d, NEW R, NEW T, Directed(d, R, T), NEW P, Starts(P),
           NEW H, SoundHeap(T, P, H), NEW top, top \in Query!Minima(H), NEW K, Settles(d, H, top, K)
    PROVE  /\ SoundHeap(T, P, K)
           /\ \A x \in Rest(H, top) : x.removed => x \in K
<1> DEFINE L == Rest(H, top)
<1>0. H \subseteq HeapNodes
  BY DEF SoundHeap
<1>1. SoundHeap(T, P, L) /\ Between(L, top) /\ FromStart(T, P, top) /\ top \in HeapNodes
  BY <1>0, RestSound, TopIs
<1>2. L \subseteq HeapNodes
  BY <1>1 DEF SoundHeap
<1> HIDE DEF L
<1>3. CASE K = L
  BY <1>1, <1>3 DEF L
<1>4. CASE K = Query!Relaxed(L, top, d)
  <2>1. Relaxes(d, top, L, K)
    BY <1>1, <1>2, <1>4, RelaxedIs
  <2> QED
    BY <1>1, <2>1, RelaxedSound DEF L
<1> QED
  BY <1>3, <1>4 DEF Settles, L

\* It keeps the search on its way, or brings it there.
LEMMA SettlesLeads ==
    ASSUME NEW d, NEW R, NEW T, Directed(d, R, T), NEW P, Starts(P),
           NEW H, SoundHeap(T, P, H), NEW top, top \in Query!Minima(H), NEW K, Settles(d, H, top, K),
           NEW m, NEW F, Far(T, P, m, F)
    PROVE  /\ Reached(H, m, F) => Reached(K, m, F)
           /\ top.node = m /\ top.weight <= F => Reached(K, m, F)
           /\ Pending(R, H, m, F) => Pending(R, K, m, F) \/ (top.node = m /\ top.weight <= F)
<1> DEFINE L == Rest(H, top)
<1>0. H \subseteq HeapNodes
  BY DEF SoundHeap
<1>1. SoundHeap(T, P, L) /\ Between(L, top) /\ FromStart(T, P, top) /\ top \in HeapNodes
      /\ ~top.removed /\ top \in H
  BY <1>0, RestSound, TopIs
<1>2. L \subseteq HeapNodes
  BY <1>1 DEF SoundHeap
<1>3. \A x \in L : x.removed => x \in K
  BY SettlesSound
<1>4. Gone(top).node = top.node /\ Gone(top).weight = top.weight /\ Gone(top).removed
  BY <1>1, GoneIs
<1>5. Gone(top) \in K
  BY <1>3, <1>4 DEF Rest
<1>6. Reached(H, m, F) => Reached(K, m, F)
  <2>1. \A h \in H : h.removed => h \in L
    BY <1>1 DEF Rest
  <2> QED
    BY <1>3, <2>1 DEF Reached
<1>7. top.node = m /\ top.weight <= F => Reached(K, m, F)
  BY <1>4, <1>5 DEF Reached
<1>8. ASSUME Pending(R, H, m, F) PROVE Pending(R, K, m, F) \/ (top.node = m /\ top.weight <= F)
  <2>1. CASE K = Query!Relaxed(L, top, d)
    <3>1. Relaxes(d, top, L, K)
      BY <1>1, <1>2, <2>1, RelaxedIs
    <3> QED
      BY <1>8, <3>1, RelaxedLeads
  <2>2. CASE K = L /\ Query!Stalled(L, top, d)
    <3>1. ~Leading(R, top, m, F)
      BY <1>1, <2>2, NotStalled
    <3>2. PICK h \in H : ~h.removed /\ Leading(R, h, m, F)
      BY <1>8 DEF Pending
    <3>3. h \in L
      BY <3>1, <3>2 DEF Rest
    <3> QED
      BY <2>2, <3>2, <3>3 DEF Pending
  <2> QED
    BY <2>1, <2>2 DEF Settles
<1> QED
  BY <1>6, <1>7, <1>8

\* Clearing the heap.
LEMMA DeletedSound ==
    ASSUME NEW T, NEW P, NEW H, SoundHeap(T, P, H)
    PROVE  /\ SoundHeap(T, P, Query!DeleteAll(H)) /\ Query!Open(Query!DeleteAll(H)) = {}
           /\ \A m, F : Reached(H, m, F) => Reached(Query!DeleteAll(H), m, F)
<1> DEFINE K == Query!DeleteAll(H)
<1>0. /\ H \subseteq HeapNodes /\ OneEach(H) /\ \A h \in H : FromStart(T, P, h)
  BY DEF SoundHeap
<1>1. K = {Gone(h) : h \in H}
  BY DEF Query!DeleteAll, Gone
<1> HIDE DEF K
<1>2. \A h \in H : /\ Gone(h) \in HeapNodes /\ Gone(h).node = h.node /\ Gone(h).weight = h.weight
                   /\ Gone(h).removed
  BY <1>0, GoneIs
<1>3. K \subseteq HeapNodes /\ \A x \in K : x.removed
  BY <1>1, <1>2
<1>4. OneEach(K)
  BY <1>0, <1>1, <1>2 DEF OneEach
<1>5. \A x \in K : FromStart(T, P, x)
  <2>1. \A h \in H : FromStart(T, P, Gone(h))
    BY <1>0, <1>2 DEF FromStart
  <2> QED
    BY <1>1, <2>1
<1>6. SoundHeap(T, P, K)
  BY <1>3, <1>4, <1>5 DEF SoundHeap
<1>7. Query!Open(K) = {}
  BY <1>3 DEF Query!Open
<1>8. \A m, F : Reached(H, m, F) => Reached(K, m, F)
  BY <1>1, <1>2 DEF Reached
<1> QED
  BY <1>6, <1>7, <1>8 DEF K

-----------------------------------------------------------------------------
(* The two directions *)

\* The server has loaded the hierarchy.
Served ==
    /\ InputArcs \in SUBSET Arcs /\ Exact(InputArcs, edges) /\ IsFiniteSet(edges)
    /\ query_graph = Query!SerializedGraph(edges, number_of_nodes)

\* The input, backwards.
Opposite == {[from |-> a.to, to |-> a.from, weight |-> a.weight] : a \in InputArcs}

\* Walks of the one are walks of the other.
LEMMA OppositeIs ==
    ASSUME InputArcs \in SUBSET Arcs
    PROVE  /\ Opposite \in SUBSET Arcs
           /\ \A u, v \in NodeIDs, w \in Budgets : Walk(Opposite, u, v, w) <=> Walk(InputArcs, v, u, w)
<1> DEFINE Turned(a) == [from |-> a.to, to |-> a.from, weight |-> a.weight]
<1>1. \A a \in InputArcs : a.from \in NodeIDs /\ a.to \in NodeIDs /\ a.weight \in Nat \ {0}
  BY DEF Arcs
<1>2. \A a \in InputArcs : /\ Turned(a) \in Arcs /\ Turned(a) \in Opposite
                           /\ Turned(a).from = a.to /\ Turned(a).to = a.from
                           /\ Turned(a).weight = a.weight
  BY <1>1 DEF Arcs, Opposite
<1>3. \A b \in Opposite : \E a \in InputArcs : b = Turned(a)
  BY DEF Opposite
<1> HIDE DEF Turned
<1>4. Opposite \in SUBSET Arcs
  BY <1>2, <1>3
<1>5. \A a \in InputArcs : a.weight <= a.weight
  BY <1>1
<1>6. Reverses(Opposite, InputArcs) /\ Reverses(InputArcs, Opposite)
  BY <1>2, <1>3, <1>4, <1>5 DEF Reverses
<1> QED
  BY <1>4, <1>6, WalkReversed

\* The edges at a node of the loaded graph are those of the hierarchy.
LEMMA ServedEdges ==
    ASSUME Served
    PROVE  /\ \A u \in NodeIDs : \A x \in query_graph[u] : \E e \in edges :
                /\ e.source = u /\ x.target = e.target /\ x.distance = e.distance
                /\ (x.forward <=> e.forward) /\ (x.backward <=> e.backward)
           /\ \A e \in edges : \E x \in query_graph[e.source] :
                /\ x.target = e.target /\ x.distance = e.distance
                /\ (x.forward <=> e.forward) /\ (x.backward <=> e.backward)
<1>0. GoodEdges(edges) /\ IsFiniteSet(edges)
  BY DEF Served, Exact
<1>1. \A e \in edges : /\ Bare(e).target = e.target /\ Bare(e).distance = e.distance
                       /\ (Bare(e).forward <=> e.forward) /\ (Bare(e).backward <=> e.backward)
                       /\ e.source \in NodeIDs
  BY <1>0, BareFields, EdgeFields
<1>2. \A u \in NodeIDs : /\ \A e \in edges : e.source = u => Bare(e) \in query_graph[u]
                         /\ \A x \in query_graph[u] : \E e \in edges : e.source = u /\ x = Bare(e)
  BY <1>0, GraphIs DEF Served
<1> QED
  BY <1>1, <1>2

\* The forward search goes along forward edges.
LEMMA ForwardDirected ==
    ASSUME Served
    PROVE  Directed("forward", ForwardArcs(edges), InputArcs)
<1> DEFINE R == ForwardArcs(edges)
<1>0. /\ InputArcs \in SUBSET Arcs /\ GoodEdges(edges)
      /\ \A e \in edges : SoundEdge(InputArcs, e, e.source, e.target)
  BY DEF Served, Exact
<1>1. /\ R \in SUBSET Arcs
      /\ \A a \in R : \E e \in edges :
           e.forward /\ a.from = e.source /\ a.to = e.target /\ a.weight = e.distance
  BY <1>0, ArcsAreEdges
<1> HIDE DEF R
<1>2. Covers(InputArcs, R)
  BY <1>0, <1>1 DEF Covers, SoundEdge
<1>3. \A x : /\ Query!Usable(x, "forward") <=> x.forward
             /\ Query!UsableReversed(x, "forward") <=> x.backward
  BY DEF Query!Usable, Query!UsableReversed
<1>4. \A e \in edges : e.target \in NodeIDs /\ e.distance \in Nat \ {0}
  BY <1>0, EdgeFields
<1>5. ASSUME NEW u \in NodeIDs, NEW x \in query_graph[u]
      PROVE  /\ x.target \in NodeIDs /\ x.distance \in Nat \ {0}
             /\ Query!Usable(x, "forward") /\ x.distance < INT_MAX => Walk(InputArcs, u, x.target, x.distance)
             /\ Query!UsableReversed(x, "forward") /\ x.distance < INT_MAX =>
                  Walk(InputArcs, x.target, u, x.distance)
  <2>1. PICK e \in edges : /\ e.source = u /\ x.target = e.target /\ x.distance = e.distance
                           /\ (x.forward <=> e.forward) /\ (x.backward <=> e.backward)
    BY ServedEdges
  <2> QED
    BY <1>0, <1>3, <1>4, <2>1 DEF SoundEdge
<1>6. ASSUME NEW a \in R
      PROVE  \E x \in query_graph[a.from] :
               Query!Usable(x, "forward") /\ x.target = a.to /\ x.distance = a.weight
  <2>1. PICK e \in edges : e.forward /\ a.from = e.source /\ a.to = e.target /\ a.weight = e.distance
    BY <1>1
  <2>2. PICK x \in query_graph[e.source] : /\ x.target = e.target /\ x.distance = e.distance
                                           /\ (x.forward <=> e.forward)
    BY ServedEdges
  <2> QED
    BY <1>3, <2>1, <2>2
<1>7. Directed("forward", R, InputArcs)
  BY <1>0, <1>1, <1>2, <1>5, <1>6 DEF Directed
<1> QED
  BY <1>7 DEF R

\* The reverse search goes along backward edges, against the input.
LEMMA ReverseDirected ==
    ASSUME Served
    PROVE  Directed("reverse", BackwardArcs(edges), Opposite)
<1> DEFINE R == BackwardArcs(edges)
<1>0. /\ InputArcs \in SUBSET Arcs /\ GoodEdges(edges)
      /\ \A e \in edges : SoundEdge(InputArcs, e, e.source, e.target)
  BY DEF Served, Exact
<1>1. /\ R \in SUBSET Arcs
      /\ \A a \in R : \E e \in edges :
           e.backward /\ a.from = e.source /\ a.to = e.target /\ a.weight = e.distance
  BY <1>0, ArcsAreEdges
<1>2. /\ Opposite \in SUBSET Arcs
      /\ \A u, v \in NodeIDs, w \in Budgets : Walk(Opposite, u, v, w) <=> Walk(InputArcs, v, u, w)
  BY <1>0, OppositeIs
<1> HIDE DEF R
<1>3. \A e \in edges : e.source \in NodeIDs /\ e.target \in NodeIDs /\ e.distance \in Nat \ {0}
  BY <1>0, EdgeFields
<1>4. \A e \in edges : e.distance < INT_MAX =>
        /\ e.backward => Walk(Opposite, e.source, e.target, e.distance)
        /\ e.forward => Walk(Opposite, e.target, e.source, e.distance)
  <2>1. ASSUME NEW e \in edges, e.distance < INT_MAX
        PROVE  /\ e.backward => Walk(Opposite, e.source, e.target, e.distance)
               /\ e.forward => Walk(Opposite, e.target, e.source, e.distance)
    <3>1. e.distance \in Budgets
      BY <1>3, <2>1, ContractorAssumption DEF Budgets
    <3> QED
      BY <1>0, <1>2, <1>3, <2>1, <3>1 DEF SoundEdge
  <2> QED
    BY <2>1
<1>5. Covers(Opposite, R)
  BY <1>1, <1>2, <1>4 DEF Covers
<1>6. \A x : /\ Query!Usable(x, "reverse") <=> x.backward
             /\ Query!UsableReversed(x, "reverse") <=> x.forward
  BY DEF Query!Usable, Query!UsableReversed
<1>7. ASSUME NEW u \in NodeIDs, NEW x \in query_graph[u]
      PROVE  /\ x.target \in NodeIDs /\ x.distance \in Nat \ {0}
             /\ Query!Usable(x, "reverse") /\ x.distance < INT_MAX => Walk(Opposite, u, x.target, x.distance)
             /\ Query!UsableReversed(x, "reverse") /\ x.distance < INT_MAX =>
                  Walk(Opposite, x.target, u, x.distance)
  <2>1. PICK e \in edges : /\ e.source = u /\ x.target = e.target /\ x.distance = e.distance
                           /\ (x.forward <=> e.forward) /\ (x.backward <=> e.backward)
    BY ServedEdges
  <2> QED
    BY <1>3, <1>4, <1>6, <2>1
<1>8. ASSUME NEW a \in R
      PROVE  \E x \in query_graph[a.from] :
               Query!Usable(x, "reverse") /\ x.target = a.to /\ x.distance = a.weight
  <2>1. PICK e \in edges : e.backward /\ a.from = e.source /\ a.to = e.target /\ a.weight = e.distance
    BY <1>1
  <2>2. PICK x \in query_graph[e.source] : /\ x.target = e.target /\ x.distance = e.distance
                                           /\ (x.backward <=> e.backward)
    BY ServedEdges
  <2> QED
    BY <1>6, <2>1, <2>2
<1>9. Directed("reverse", R, Opposite)
  BY <1>1, <1>2, <1>5, <1>7, <1>8 DEF Directed
<1> QED
  BY <1>9 DEF R

-----------------------------------------------------------------------------
(* Two searches that meet *)

\* Where both heaps have a node, its weights add up to B or more, or to L or more.
Above(x, B, L) == B <= x \/ L <= x
SumsAbove(H, O, B, L) == \A h \in H, g \in O : h.node = g.node => Above(h.weight + g.weight, B, L)

\* One search is on its way to m, and the other one is or was there.
Both(R, H, F, S, O, G, m) ==
    /\ Pending(R, H, m, F) \/ Reached(H, m, F)
    /\ Pending(S, O, m, G) \/ Reached(O, m, G)
    /\ Pending(R, H, m, F) \/ Pending(S, O, m, G)

\* The bound never increases, and remains above.
LEMMA BoundIs ==
    ASSUME NEW H, NEW O, H \subseteq HeapNodes, O \subseteq HeapNodes, NEW top \in H,
           NEW B \in Int, NEW L \in Int, SumsAbove(H, O, B, L), NEW ub \in Int, Above(ub, B, L)
    PROVE  /\ Query!Bound(O, top, ub) \in Int /\ Query!Bound(O, top, ub) <= ub
           /\ Above(Query!Bound(O, top, ub), B, L)
<1> DEFINE g == Query!Entry(O, top.node)
           u == Query!Bound(O, top, ub)
<1>1. CASE Query!WasInserted(O, top.node)
  <2>1. g \in O /\ g.node = top.node
    BY <1>1 DEF Query!WasInserted, Query!Entry
  <2>2. u = IF g.weight + top.weight < ub /\ g.weight + top.weight >= 0 THEN g.weight + top.weight ELSE ub
    BY <1>1 DEF Query!Bound
  <2> HIDE DEF g, u
  <2>3. g.weight \in Int /\ top.weight \in Int
    BY <2>1 DEF HeapNodes
  <2>4. Above(top.weight + g.weight, B, L)
    BY <2>1 DEF SumsAbove
  <2>5. top.weight + g.weight = g.weight + top.weight
    BY <2>3
  <2> QED
    BY <2>2, <2>3, <2>4, <2>5 DEF u
<1>2. CASE ~Query!WasInserted(O, top.node)
  BY <1>2 DEF Query!Bound
<1> QED
  BY <1>1, <1>2

\* When the first entry has the node that the other search has reached, the bound is
\* the best one.
LEMMA BoundMeets ==
    ASSUME NEW H, NEW O, H \subseteq HeapNodes, O \subseteq HeapNodes, OneEach(O), NEW top \in H,
           NEW B \in Int, NEW L \in Int, SumsAbove(H, O, B, L), NEW ub \in Int, 0 <= B, B < L,
           NEW F \in Int, NEW G \in Int, F + G <= B, top.weight <= F, Reached(O, top.node, G)
    PROVE  Query!Bound(O, top, ub) <= B
<1> DEFINE g == Query!Entry(O, top.node)
           u == Query!Bound(O, top, ub)
<1>1. PICK x \in O : x.node = top.node /\ x.weight <= G
  BY DEF Reached
<1>2. Query!WasInserted(O, top.node)
  BY <1>1 DEF Query!WasInserted
<1>3. g \in O /\ g.node = top.node
  BY <1>2 DEF Query!WasInserted, Query!Entry
<1>4. u = IF g.weight + top.weight < ub /\ g.weight + top.weight >= 0 THEN g.weight + top.weight ELSE ub
  BY <1>2 DEF Query!Bound
<1> HIDE DEF g, u
<1>5. g = x
  BY <1>1, <1>3 DEF OneEach
<1>6. g.weight \in Int /\ top.weight \in Int /\ g.weight <= G
  BY <1>1, <1>3, <1>5 DEF HeapNodes
<1>7. Above(top.weight + g.weight, B, L)
  BY <1>3 DEF SumsAbove
<1>8. g.weight + top.weight >= 0 /\ g.weight + top.weight <= B
  BY <1>6, <1>7 DEF Above
<1>9. u <= B
  BY <1>4, <1>6, <1>8
<1> QED
  BY <1>9 DEF u

\* After the first entry of H is settled, the bound is the best one or the searches go on.
LEMMA SettlesBoth ==
    ASSUME NEW d, NEW R, NEW T, Directed(d, R, T), NEW P, Starts(P),
           NEW H, SoundHeap(T, P, H), NEW top, top \in Query!Minima(H), NEW K, Settles(d, H, top, K),
           NEW O, O \subseteq HeapNodes, OneEach(O),
           NEW B \in Int, NEW L \in Int, SumsAbove(H, O, B, L), NEW ub \in Int, 0 <= B, B < L,
           NEW m, NEW F \in Int, NEW G \in Int, F + G <= B, Far(T, P, m, F),
           NEW S, Both(R, H, F, S, O, G, m)
    PROVE  Query!Bound(O, top, ub) <= B \/ Both(R, K, F, S, O, G, m)
<1>1. H \subseteq HeapNodes /\ top \in H
  <2>1. H \subseteq HeapNodes
    BY DEF SoundHeap
  <2> QED
    BY <2>1, TopIs
<1>2. /\ Reached(H, m, F) => Reached(K, m, F)
      /\ top.node = m /\ top.weight <= F => Reached(K, m, F)
      /\ Pending(R, H, m, F) => Pending(R, K, m, F) \/ (top.node = m /\ top.weight <= F)
  BY SettlesLeads
<1>3. ASSUME top.node = m, top.weight <= F, Reached(O, m, G) PROVE Query!Bound(O, top, ub) <= B
  BY <1>1, <1>3, BoundMeets
<1> QED
  BY <1>2, <1>3, Zenon DEF Both

\* When the search from H is stopped, the bound is the best one or the other one goes on.
LEMMA StopsBoth ==
    ASSUME NEW R, NEW T, NEW P, NEW H, SoundHeap(T, P, H), NEW top, top \in Query!Minima(H),
           NEW O, NEW B \in Int, NEW u \in Int, NEW m, NEW F \in Int, NEW G \in Int,
           top.weight <= F => u <= B,
           NEW S, Both(R, H, F, S, O, G, m)
    PROVE  u <= B \/ Both(R, Query!DeleteAll(Rest(H, top)), F, S, O, G, m)
<1> DEFINE L == Rest(H, top)
<1>1. H \subseteq HeapNodes
  BY DEF SoundHeap
<1>2. top \in H /\ top \in HeapNodes /\ ~top.removed /\ \A h \in H : ~h.removed => top.weight <= h.weight
  BY <1>1, TopIs
<1>3. ASSUME Pending(R, H, m, F) PROVE u <= B
  <2>1. PICK h \in H : ~h.removed /\ Leading(R, h, m, F)
    BY <1>3 DEF Pending
  <2>2. PICK j \in Budgets : h.weight + j <= F
    BY <2>1 DEF Leading
  <2>3. j \in Nat /\ h.weight \in Int /\ top.weight \in Int
    BY <1>1, <1>2, ContractorAssumption DEF Budgets, HeapNodes
  <2>4. top.weight <= h.weight
    BY <1>2, <2>1
  <2> QED
    BY <2>2, <2>3, <2>4
<1>4. SoundHeap(T, P, L)
  BY RestSound
<1>5. Reached(H, m, F) => Reached(L, m, F)
  BY <1>2 DEF Reached, Rest
<1>6. Reached(L, m, F) => Reached(Query!DeleteAll(L), m, F)
  BY <1>4, DeletedSound
<1> QED
  BY <1>3, <1>5, <1>6 DEF Both

-----------------------------------------------------------------------------
(* The best way *)

\* A set of integers with an upper bound has a greatest one.
LEMMA GreatestIs ==
    ASSUME NEW S, S \subseteq Int, S # {}, NEW b \in Int, \A x \in S : x <= b
    PROVE  Max(S) \in S /\ \A y \in S : y <= Max(S)
<1> DEFINE T == {b - x : x \in S}
<1>1. T \subseteq Nat /\ T # {}
  <2>1. ASSUME NEW x \in S PROVE b - x \in Nat
    BY x <= b, x \in Int
  <2> QED
    BY <2>1
<1>2. PICK t \in T : \A y \in T : t <= y
  BY <1>1, LeastNumber
<1>3. PICK x \in S : t = b - x
  BY <1>2
<1>4. ASSUME NEW y \in S PROVE x >= y
  <2>1. b - x <= b - y
    BY <1>2, <1>3
  <2> QED
    BY <2>1
<1>5. Max(S) \in S /\ \A y \in S : Max(S) >= y
  BY <1>4 DEF Max
<1> QED
  BY <1>5

\* Nodes where a search begins or ends, one place on each.
Places(S) ==
    /\ \A s \in S : s.node \in NodeIDs /\ s.offset \in Int
    /\ \A s, t \in S : s.node = t.node => s = t
    /\ \E b \in Nat : \A s \in S : s.offset <= b
Goals(Q) == Places(Q) /\ \A t \in Q : t.offset \in Nat

Best(S, Q) == BestWay(Shortest(InputArcs), S, Q)

\* A length at the limit may be that of a walk of INT_MAX.
LEMMA LimitIs ==
    ASSUME NEW S, Places(S)
    PROVE  Limit(S) \in Int /\ Limit(S) <= INT_MAX /\ \A s \in S : Limit(S) <= INT_MAX - s.offset
<1> DEFINE M == {0} \cup {s.offset : s \in S}
<1>1. PICK b \in Nat : \A s \in S : s.offset <= b
  BY DEF Places
<1>2. M \subseteq Int /\ M # {} /\ \A x \in M : x <= b
  BY <1>1 DEF Places
<1>3. Limit(S) = INT_MAX - Max(M)
  BY DEF Limit
<1>4. 0 \in M /\ \A s \in S : s.offset \in M
  OBVIOUS
<1> HIDE DEF M
<1>5. Max(M) \in M /\ \A y \in M : y <= Max(M)
  <2>1. b \in Int
    BY <1>1
  <2> QED
    BY <1>2, <2>1, GreatestIs
<1>6. Max(M) \in Int /\ 0 <= Max(M) /\ \A s \in S : s.offset <= Max(M) /\ s.offset \in Int
  BY <1>2, <1>4, <1>5 DEF Places
<1> DEFINE x == Max(M)
<1> HIDE DEF x
<1>7. INT_MAX - x \in Int /\ INT_MAX - x <= INT_MAX /\ \A s \in S : INT_MAX - x <= INT_MAX - s.offset
  BY <1>6, ContractorAssumption DEF x
<1> QED
  BY <1>3, <1>7 DEF x

\* The best way is a walk of least weight, with the parts of the street at its ends.
LEMMA BestIs ==
    ASSUME InputArcs \in SUBSET Arcs, NEW S, NEW Q, Places(S), Goals(Q)
    PROVE  /\ Best(S, Q) \in Int /\ Best(S, Q) <= INT_MAX
           /\ \A s \in S, t \in Q, w \in Budgets :
                Walk(InputArcs, s.node, t.node, w) => Best(S, Q) <= w - s.offset + t.offset
           /\ Best(S, Q) < INT_MAX => \E s \in S, t \in Q, w \in Budgets :
                Walk(InputArcs, s.node, t.node, w) /\ Best(S, Q) = w - s.offset + t.offset
<1> DEFINE D(s, t) == Distance(Shortest(InputArcs), s.node, t.node)
           V(s, t) == Way(Shortest(InputArcs), s, t)
           M == {INT_MAX} \cup {V(s, t) : s \in S, t \in Q}
<1>0. INT_MAX \in Nat \ {0}
  BY ContractorAssumption
<1>1. \A s \in S : s.node \in NodeIDs /\ s.offset \in Int
  BY DEF Places
<1>2. \A t \in Q : t.node \in NodeIDs /\ t.offset \in Nat
  BY DEF Places, Goals
<1>3. PICK b \in Nat : \A s \in S : s.offset <= b
  BY DEF Places
<1>4. \A s \in S, t \in Q : V(s, t) = IF D(s, t) = INT_MAX THEN INT_MAX ELSE D(s, t) - s.offset + t.offset
  BY DEF Way
<1>5. \A s \in S, t \in Q : /\ D(s, t) \in 0 .. INT_MAX
                            /\ \A w \in Budgets : Walk(InputArcs, s.node, t.node, w) <=> D(s, t) <= w
  BY <1>1, <1>2, DistanceIs
<1>6. Best(S, Q) = Min(M)
  BY DEF Best, BestWay
<1> HIDE DEF D, V
<1>7. M \subseteq Int /\ M # {} /\ \A x \in M : -b <= x
  <2>1. ASSUME NEW s \in S, NEW t \in Q PROVE V(s, t) \in Int /\ -b <= V(s, t)
    <3>1. s.offset \in Int /\ s.offset <= b /\ t.offset \in Nat /\ D(s, t) \in 0 .. INT_MAX
      BY <1>1, <1>2, <1>3, <1>5
    <3> QED
      BY <1>0, <1>4, <3>1
  <2> QED
    BY <1>0, <2>1
<1>8. INT_MAX \in M /\ (\A s \in S, t \in Q : V(s, t) \in M)
      /\ \A x \in M : x = INT_MAX \/ \E s \in S, t \in Q : x = V(s, t)
  OBVIOUS
<1> HIDE DEF M
<1>9. Min(M) \in M /\ \A y \in M : Min(M) <= y
  <2>1. -b \in Int
    BY <1>3
  <2> QED
    BY <1>7, <2>1, LeastIs
<1>10. ASSUME NEW s \in S, NEW t \in Q, NEW w \in Budgets, Walk(InputArcs, s.node, t.node, w)
       PROVE  Min(M) <= w - s.offset + t.offset
  <2>1. D(s, t) <= w /\ D(s, t) \in 0 .. INT_MAX /\ w \in 0 .. INT_MAX - 1
    BY <1>5, <1>10 DEF Budgets
  <2>2. V(s, t) = D(s, t) - s.offset + t.offset
    BY <1>0, <1>4, <2>1
  <2>3. Min(M) <= V(s, t) /\ Min(M) \in Int
    BY <1>7, <1>8, <1>9
  <2> QED
    BY <1>0, <1>1, <1>2, <2>1, <2>2, <2>3
<1>11. ASSUME Min(M) < INT_MAX
       PROVE  \E s \in S, t \in Q, w \in Budgets :
                Walk(InputArcs, s.node, t.node, w) /\ Min(M) = w - s.offset + t.offset
  <2>1. PICK s \in S, t \in Q : Min(M) = V(s, t)
    <3>1. Min(M) \in M /\ Min(M) # INT_MAX
      BY <1>0, <1>9, <1>11
    <3> QED
      BY <1>8, <3>1
  <2>2. D(s, t) # INT_MAX /\ V(s, t) = D(s, t) - s.offset + t.offset
    BY <1>0, <1>4, <1>11, <2>1
  <2>3. D(s, t) \in Budgets /\ D(s, t) <= D(s, t)
    BY <1>0, <1>5, <2>2 DEF Budgets
  <2>4. Walk(InputArcs, s.node, t.node, D(s, t))
    BY <1>5, <2>3
  <2> QED
    BY <2>1, <2>2, <2>3, <2>4
<1> QED
  BY <1>0, <1>6, <1>7, <1>8, <1>9, <1>10, <1>11

\* Where the two searches start.
FromSources(S) == {[node |-> s.node, key |-> -s.offset] : s \in S}
FromTargets(Q) == {[node |-> t.node, key |-> t.offset] : t \in Q}

\* Starts have keys.
LEMMA StartsAre ==
    ASSUME NEW S, Places(S)
    PROVE  Starts(FromSources(S)) /\ Starts(FromTargets(S))
BY DEF Places, Starts, FromSources, FromTargets

\* Entries are no lighter than the walks.
Weighed(T, P, H) == H \subseteq HeapNodes /\ \A h \in H : FromStart(T, P, h)

\* Where both searches have a node, they have found a way.
LEMMA SumsAre ==
    ASSUME InputArcs \in SUBSET Arcs, NEW S, NEW Q, Places(S), Goals(Q), NEW H, NEW O,
           Weighed(InputArcs, FromSources(S), H), Weighed(Opposite, FromTargets(Q), O)
    PROVE  SumsAbove(H, O, Best(S, Q), Limit(S)) /\ SumsAbove(O, H, Best(S, Q), Limit(S))
<1> DEFINE B == Best(S, Q)
           L == Limit(S)
<1>0. INT_MAX \in Nat \ {0}
  BY ContractorAssumption
<1>1. /\ B \in Int
      /\ \A s \in S, t \in Q, w \in Budgets :
           Walk(InputArcs, s.node, t.node, w) => B <= w - s.offset + t.offset
  BY BestIs
<1>2. L \in Int /\ \A s \in S : L <= INT_MAX - s.offset
  BY LimitIs
<1> HIDE DEF B, L
<1>3. ASSUME NEW h \in H, NEW g \in O, h.node = g.node
      PROVE  Above(h.weight + g.weight, B, L) /\ h.weight + g.weight = g.weight + h.weight
  <2>0. h \in HeapNodes /\ g \in HeapNodes /\ FromStart(InputArcs, FromSources(S), h)
        /\ FromStart(Opposite, FromTargets(Q), g)
    BY DEF Weighed
  <2>1. h.weight \in Int /\ g.weight \in Int /\ h.node \in NodeIDs
    BY <2>0 DEF HeapNodes
  <2>2. PICK s \in S : /\ h.weight + s.offset \in Nat
                       /\ h.weight + s.offset < INT_MAX =>
                            Walk(InputArcs, s.node, h.node, h.weight + s.offset)
    <3>1. PICK p \in FromSources(S) :
            /\ h.weight - p.key \in Nat
            /\ h.weight - p.key < INT_MAX => Walk(InputArcs, p.node, h.node, h.weight - p.key)
      BY <2>0 DEF FromStart
    <3>2. PICK s \in S : p = [node |-> s.node, key |-> -s.offset]
      BY DEF FromSources
    <3>3. p.node = s.node /\ p.key = -s.offset /\ s.offset \in Int
      BY <3>2 DEF Places
    <3>4. h.weight - p.key = h.weight + s.offset
      BY <2>1, <3>3
    <3> QED
      BY <3>1, <3>3, <3>4
  <2>3. PICK t \in Q : /\ g.weight - t.offset \in Nat
                       /\ g.weight - t.offset < INT_MAX =>
                            Walk(Opposite, t.node, g.node, g.weight - t.offset)
    <3>1. PICK p \in FromTargets(Q) :
            /\ g.weight - p.key \in Nat
            /\ g.weight - p.key < INT_MAX => Walk(Opposite, p.node, g.node, g.weight - p.key)
      BY <2>0 DEF FromStart
    <3>2. PICK t \in Q : p = [node |-> t.node, key |-> t.offset]
      BY DEF FromTargets
    <3> QED
      BY <3>1, <3>2
  <2> DEFINE i == h.weight + s.offset
             j == g.weight - t.offset
             k == i + j
  <2>4. s.offset \in Int /\ t.offset \in Nat /\ s.node \in NodeIDs /\ t.node \in NodeIDs
    BY DEF Places, Goals
  <2>5. i \in Nat /\ j \in Nat /\ k \in Nat /\ h.weight + g.weight = k - s.offset + t.offset
    BY <2>1, <2>2, <2>3, <2>4
  <2>6. CASE k < INT_MAX
    <3>1. i \in Budgets /\ j \in Budgets /\ k \in Budgets /\ i < INT_MAX /\ j < INT_MAX
      BY <1>0, <2>5, <2>6 DEF Budgets
    <3>2. Walk(InputArcs, s.node, h.node, i) /\ Walk(Opposite, t.node, h.node, j)
      BY <1>3, <2>2, <2>3, <3>1
    <3> HIDE DEF i, j
    <3>3. Walk(InputArcs, h.node, t.node, j)
      BY <2>1, <2>4, <3>1, <3>2, OppositeIs
    <3>4. Walk(InputArcs, s.node, t.node, i + j)
      BY <2>1, <2>4, <3>1, <3>2, <3>3, WalkJoin
    <3>5. B <= k - s.offset + t.offset
      BY <1>1, <3>1, <3>4
    <3> QED
      BY <2>1, <2>5, <3>5 DEF Above
  <2>7. CASE ~(k < INT_MAX)
    <3>1. L <= INT_MAX - s.offset
      BY <1>2
    <3> HIDE DEF k
    <3>2. L <= k - s.offset + t.offset
      BY <1>0, <1>2, <2>4, <2>5, <2>7, <3>1
    <3> QED
      BY <2>1, <2>5, <3>2 DEF Above
  <2> QED
    BY <2>6, <2>7
<1>4. SumsAbove(H, O, B, L) /\ SumsAbove(O, H, B, L)
  BY <1>3 DEF SumsAbove
<1> QED
  BY <1>4 DEF B, L

\* A best way passes through m: F from the sources and G to the targets, and nothing is nearer.
Meeting(S, Q, m, F, G) ==
    /\ F \in Int /\ G \in Int /\ F + G <= Best(S, Q)
    /\ Far(InputArcs, FromSources(S), m, F) /\ Far(Opposite, FromTargets(Q), m, G)
    /\ F <= Best(S, Q) /\ \E s \in S : G - s.offset <= Best(S, Q)

\* It goes up from a source and down to a target.
Passing(S, Q, m, F, G) ==
    \E s \in S, t \in Q, i, j \in Budgets :
      /\ Walk(ForwardArcs(edges), s.node, m, i) /\ F = i - s.offset
      /\ Walk(BackwardArcs(edges), t.node, m, j) /\ G = j + t.offset

\* The hierarchy has such a node, and the two parts of the way are shortest ones.
LEMMA MeetingExists ==
    ASSUME Served, NEW S, NEW Q, Places(S), Goals(Q), 0 <= Best(S, Q), Best(S, Q) < Limit(S)
    PROVE  \E m, F, G : Meeting(S, Q, m, F, G) /\ Passing(S, Q, m, F, G)
<1> DEFINE B == Best(S, Q)
           L == Limit(S)
           A == InputArcs
<1>0. INT_MAX \in Nat \ {0} /\ A \in SUBSET Arcs
  BY ContractorAssumption DEF Served
<1>1. /\ B \in Int /\ B <= INT_MAX
      /\ \A s \in S, t \in Q, w \in Budgets : Walk(A, s.node, t.node, w) => B <= w - s.offset + t.offset
      /\ B < INT_MAX => \E s \in S, t \in Q, w \in Budgets :
           Walk(A, s.node, t.node, w) /\ B = w - s.offset + t.offset
  BY <1>0, BestIs
<1>2. L \in Int /\ L <= INT_MAX /\ \A s \in S : L <= INT_MAX - s.offset
  BY LimitIs
<1>3. 0 <= B /\ B < L
  OBVIOUS
<1>4. (\A s \in S : s.node \in NodeIDs /\ s.offset \in Int) /\ \A t \in Q : t.node \in NodeIDs /\ t.offset \in Nat
  BY DEF Places, Goals
<1> HIDE DEF B, L
<1>5. PICK s \in S, t \in Q, w \in Budgets : Walk(A, s.node, t.node, w) /\ B = w - s.offset + t.offset
  BY <1>0, <1>1, <1>2, <1>3
<1>6. PICK m \in NodeIDs, i \in Budgets, j \in Budgets :
        i + j <= w /\ Walk(ForwardArcs(edges), s.node, m, i) /\ Walk(BackwardArcs(edges), t.node, m, j)
  <2>1. Meets(ForwardArcs(edges), BackwardArcs(edges), s.node, t.node, w)
    BY <1>4, <1>5 DEF Served, Exact
  <2> QED
    BY <2>1 DEF Meets
<1>7. /\ Covers(A, ForwardArcs(edges)) /\ Covers(Opposite, BackwardArcs(edges))
  BY ForwardDirected, ReverseDirected DEF Directed
<1>8. /\ Opposite \in SUBSET Arcs
      /\ \A u, v \in NodeIDs, x \in Budgets : Walk(Opposite, u, v, x) <=> Walk(A, v, u, x)
  BY <1>0, OppositeIs
<1>9. Walk(A, s.node, m, i) /\ Walk(A, m, t.node, j)
  <2>1. Walk(Opposite, t.node, m, j)
    BY <1>4, <1>6, <1>7, WalkCovered
  <2> QED
    BY <1>4, <1>6, <1>7, <1>8, <2>1, WalkCovered
<1> HIDE DEF A
<1>10. i \in Nat /\ j \in Nat /\ w \in Nat /\ i < INT_MAX /\ j < INT_MAX
  BY <1>0 DEF Budgets
<1> DEFINE F == i - s.offset
           G == j + t.offset
<1>11. F \in Int /\ G \in Nat /\ F + G <= B
  BY <1>4, <1>5, <1>6, <1>10
<1>12. F <= B /\ G - s.offset <= B
  BY <1>1, <1>4, <1>10, <1>11
<1>13. ASSUME NEW p \in FromSources(S)
       PROVE  F - p.key <= INT_MAX /\ \A x \in Budgets : Walk(A, p.node, m, x) => F <= p.key + x
  <2>1. PICK z \in S : p = [node |-> z.node, key |-> -z.offset]
    BY DEF FromSources
  <2>2. p.node = z.node /\ p.key = -z.offset /\ z.offset \in Int /\ z.node \in NodeIDs
        /\ L <= INT_MAX - z.offset
    BY <1>2, <1>4, <2>1
  <2>3. F - p.key <= INT_MAX
    <3> HIDE DEF F
    <3> QED
      BY <1>0, <1>1, <1>2, <1>3, <1>11, <1>12, <2>2
  <2>4. ASSUME NEW x \in Budgets, Walk(A, p.node, m, x) PROVE F <= p.key + x
    <3>0. x \in Nat /\ x < INT_MAX
      BY <1>0 DEF Budgets
    <3>1. CASE x + j < INT_MAX
      <4>1. x + j \in Budgets
        BY <1>0, <1>10, <3>0, <3>1 DEF Budgets
      <4>2. Walk(A, z.node, t.node, x + j)
        BY <1>0, <1>4, <1>9, <2>2, <2>4, <4>1, WalkJoin DEF A
      <4> DEFINE y == x + j
      <4>3. y \in Budgets /\ Walk(A, z.node, t.node, y)
        BY <4>1, <4>2
      <4> HIDE DEF y
      <4>4. B <= y - z.offset + t.offset
        BY <1>1, <4>3
      <4> QED
        BY <1>1, <1>4, <1>10, <1>11, <2>2, <3>0, <4>4 DEF y
    <3>2. CASE ~(x + j < INT_MAX)
      BY <1>0, <1>1, <1>2, <1>3, <1>4, <1>10, <1>11, <2>2, <3>0, <3>2
    <3> QED
      BY <3>1, <3>2
  <2> QED
    BY <2>3, <2>4
<1>14. ASSUME NEW p \in FromTargets(Q)
       PROVE  G - p.key <= INT_MAX /\ \A x \in Budgets : Walk(Opposite, p.node, m, x) => G <= p.key + x
  <2>1. PICK z \in Q : p = [node |-> z.node, key |-> z.offset]
    BY DEF FromTargets
  <2>2. p.node = z.node /\ p.key = z.offset /\ z.offset \in Nat /\ z.node \in NodeIDs
        /\ L <= INT_MAX - s.offset
    BY <1>2, <1>4, <2>1
  <2>3. G - p.key <= INT_MAX
    BY <1>0, <1>1, <1>2, <1>3, <1>4, <1>10, <1>11, <2>2
  <2>4. ASSUME NEW x \in Budgets, Walk(Opposite, p.node, m, x) PROVE G <= p.key + x
    <3>0. x \in Nat /\ x < INT_MAX
      BY <1>0 DEF Budgets
    <3>1. CASE i + x < INT_MAX
      <4>1. i + x \in Budgets
        BY <1>0, <1>10, <3>0, <3>1 DEF Budgets
      <4>2. Walk(A, m, z.node, x)
        BY <1>8, <2>2, <2>4
      <4>3. Walk(A, s.node, z.node, i + x)
        BY <1>0, <1>4, <1>9, <2>2, <4>1, <4>2, WalkJoin DEF A
      <4> DEFINE y == i + x
      <4>4. y \in Budgets /\ Walk(A, s.node, z.node, y)
        BY <4>1, <4>3
      <4> HIDE DEF y
      <4>5. B <= y - s.offset + z.offset
        BY <1>1, <4>4
      <4> QED
        BY <1>1, <1>4, <1>10, <1>11, <2>2, <3>0, <4>5 DEF y
    <3>2. CASE ~(i + x < INT_MAX)
      BY <1>0, <1>1, <1>2, <1>3, <1>4, <1>10, <1>11, <2>2, <3>0, <3>2
    <3> QED
      BY <3>1, <3>2
  <2> QED
    BY <2>3, <2>4
<1>15. Passing(S, Q, m, F, G)
  BY <1>6 DEF Passing
<1> HIDE DEF F, G
<1>16. Far(A, FromSources(S), m, F) /\ Far(Opposite, FromTargets(Q), m, G)
  BY <1>11, <1>13, <1>14 DEF Far
<1>17. Meeting(S, Q, m, F, G)
  BY <1>11, <1>12, <1>16 DEF Meeting, A, B
<1> QED
  BY <1>15, <1>17

-----------------------------------------------------------------------------
(* A search in both directions *)

\* The heap with which a search begins.
StartHeap(P) == {Query!HeapNode(p.node, p.key, p.node) : p \in P}

\* It is sound.
LEMMA StartSound ==
    ASSUME NEW T \in SUBSET Arcs, NEW P, Starts(P), \A p, q \in P : p.node = q.node => p = q
    PROVE  SoundHeap(T, P, StartHeap(P)) /\ \A h \in StartHeap(P) : ~h.removed
<1> DEFINE H == StartHeap(P)
           E(p) == Query!HeapNode(p.node, p.key, p.node)
<1>0. INT_MAX \in Nat \ {0} /\ 0 \in Budgets
  BY ContractorAssumption DEF Budgets
<1>1. \A p \in P : p.node \in NodeIDs /\ p.key \in Int
  BY DEF Starts
<1>2. \A p \in P : E(p) \in HeapNodes /\ E(p).node = p.node /\ E(p).weight = p.key /\ ~E(p).removed
  BY <1>1 DEF HeapNodes, Query!HeapNode
<1>3. \A h : h \in H <=> \E p \in P : h = E(p)
  BY DEF StartHeap
<1> HIDE DEF E, H
<1>4. H \subseteq HeapNodes /\ \A h \in H : ~h.removed
  BY <1>2, <1>3
<1>5. OneEach(H)
  BY <1>2, <1>3 DEF OneEach
<1>6. ASSUME NEW h \in H PROVE FromStart(T, P, h)
  <2>1. PICK p \in P : h = E(p)
    BY <1>3
  <2>2. h.node = p.node /\ h.weight = p.key /\ p.key \in Int /\ p.node \in NodeIDs
    BY <1>1, <1>2, <2>1
  <2>3. h.weight - p.key = 0
    BY <2>2
  <2>4. Walk(T, p.node, h.node, 0)
    BY <1>0, <2>2, WalkHere
  <2> QED
    BY <1>0, <2>3, <2>4 DEF FromStart
<1>7. SoundHeap(T, P, H)
  BY <1>4, <1>5, <1>6 DEF SoundHeap
<1> QED
  BY <1>4, <1>7 DEF H

\* It leads where the start leads.
LEMMA StartPending ==
    ASSUME NEW R, NEW P, NEW p \in P, NEW m, NEW i \in Budgets, Walk(R, p.node, m, i),
           NEW F, p.key + i <= F
    PROVE  Pending(R, StartHeap(P), m, F)
<1> DEFINE h == Query!HeapNode(p.node, p.key, p.node)
<1>1. h \in StartHeap(P)
  BY DEF StartHeap
<1>2. h.node = p.node /\ h.weight = p.key /\ ~h.removed
  BY DEF Query!HeapNode
<1> HIDE DEF h
<1> QED
  BY <1>1, <1>2 DEF Pending, Leading

\* The heaps are sound, no bound is too small, and while the bound is too large a node of a
\* best way is still to be found.
Searching(S, Q, H, O, ub, off) ==
    /\ SoundHeap(InputArcs, FromSources(S), H) /\ SoundHeap(Opposite, FromTargets(Q), O)
    /\ ub \in Int /\ Above(ub, Best(S, Q), Limit(S))
    /\ off \in Int /\ off <= 0 /\ \A s \in S : off <= -s.offset
    /\ 0 <= Best(S, Q) /\ Best(S, Q) < Limit(S) =>
         \/ ub <= Best(S, Q)
         \/ \E m, F, G : /\ Meeting(S, Q, m, F, G)
                         /\ Both(ForwardArcs(edges), H, F, BackwardArcs(edges), O, G, m)

\* Different places have different nodes.
LEMMA StartsDiffer ==
    ASSUME NEW S, Places(S)
    PROVE  /\ \A p, q \in FromSources(S) : p.node = q.node => p = q
           /\ \A p, q \in FromTargets(S) : p.node = q.node => p = q
<1>1. \A s, t \in S : s.node = t.node => s = t
  BY DEF Places
<1> QED
  BY <1>1 DEF FromSources, FromTargets

\* So it is when the heaps are filled.
LEMMA SearchingStarts ==
    ASSUME Served, NEW S, NEW Q, Places(S), Goals(Q), NEW off \in Int, off <= 0,
           \A s \in S : off <= -s.offset
    PROVE  Searching(S, Q, StartHeap(FromSources(S)), StartHeap(FromTargets(Q)), INT_MAX, off)
<1> DEFINE H == StartHeap(FromSources(S))
           O == StartHeap(FromTargets(Q))
<1>0. INT_MAX \in Nat \ {0} /\ InputArcs \in SUBSET Arcs /\ Opposite \in SUBSET Arcs /\ Places(Q)
  BY ContractorAssumption, OppositeIs DEF Served, Goals
<1>1. SoundHeap(InputArcs, FromSources(S), H) /\ SoundHeap(Opposite, FromTargets(Q), O)
  BY <1>0, StartSound, StartsAre, StartsDiffer
<1>2. Limit(S) <= INT_MAX
  BY LimitIs
<1>3. ASSUME 0 <= Best(S, Q), Best(S, Q) < Limit(S)
      PROVE  \E m, F, G : /\ Meeting(S, Q, m, F, G)
                          /\ Both(ForwardArcs(edges), H, F, BackwardArcs(edges), O, G, m)
  <2>1. PICK m, F, G : Meeting(S, Q, m, F, G) /\ Passing(S, Q, m, F, G)
    BY <1>3, MeetingExists
  <2>2. F \in Int /\ G \in Int
    BY <2>1 DEF Meeting
  <2>3. PICK s \in S, t \in Q, i \in Budgets, j \in Budgets :
          /\ Walk(ForwardArcs(edges), s.node, m, i) /\ F = i - s.offset
          /\ Walk(BackwardArcs(edges), t.node, m, j) /\ G = j + t.offset
    BY <2>1 DEF Passing
  <2>4. s.offset \in Int /\ t.offset \in Int /\ i \in Int /\ j \in Int
    BY <1>0 DEF Places, Budgets
  <2>5. Pending(ForwardArcs(edges), H, m, F)
    <3> DEFINE p == [node |-> s.node, key |-> -s.offset]
    <3>1. p \in FromSources(S) /\ p.node = s.node /\ p.key = -s.offset
      BY DEF FromSources
    <3> HIDE DEF p
    <3>2. p.key + i <= F
      BY <2>2, <2>3, <2>4, <3>1
    <3> QED
      BY <2>3, <3>1, <3>2, StartPending
  <2>6. Pending(BackwardArcs(edges), O, m, G)
    <3> DEFINE p == [node |-> t.node, key |-> t.offset]
    <3>1. p \in FromTargets(Q) /\ p.node = t.node /\ p.key = t.offset
      BY DEF FromTargets
    <3> HIDE DEF p
    <3>2. p.key + j <= G
      BY <2>2, <2>3, <2>4, <3>1
    <3> QED
      BY <2>3, <3>1, <3>2, StartPending
  <2> QED
    BY <2>1, <2>5, <2>6 DEF Both
<1> QED
  BY <1>0, <1>1, <1>2, <1>3 DEF Searching, Above

\* Settling a node of the forward heap keeps this.
LEMMA SettlesForward ==
    ASSUME Served, NEW S, NEW Q, Places(S), Goals(Q), NEW H, NEW O, NEW ub, NEW off,
           Searching(S, Q, H, O, ub, off), NEW top, top \in Query!Minima(H),
           NEW K, Settles("forward", H, top, K)
    PROVE  Searching(S, Q, K, O, Query!Bound(O, top, ub), off)
<1> DEFINE B == Best(S, Q)
           L == Limit(S)
           v == Query!Bound(O, top, ub)
<1>0. /\ SoundHeap(InputArcs, FromSources(S), H) /\ SoundHeap(Opposite, FromTargets(Q), O)
      /\ ub \in Int /\ Above(ub, B, L) /\ off \in Int /\ off <= 0 /\ \A s \in S : off <= -s.offset
  BY DEF Searching
<1>1. H \subseteq HeapNodes /\ O \subseteq HeapNodes /\ OneEach(H) /\ OneEach(O)
  BY <1>0 DEF SoundHeap
<1>2. top \in H /\ top.weight \in Int
  BY <1>1, TopIs DEF HeapNodes
<1>3. InputArcs \in SUBSET Arcs /\ B \in Int /\ L \in Int /\ Places(Q) /\ \A s \in S : s.offset \in Int
  BY BestIs, LimitIs DEF Served, Goals, Places
<1>4. SumsAbove(H, O, B, L) /\ SumsAbove(O, H, B, L)
  BY <1>0, <1>3, SumsAre DEF SoundHeap, Weighed
<1>5. Starts(FromSources(S)) /\ Directed("forward", ForwardArcs(edges), InputArcs)
  BY <1>3, StartsAre, ForwardDirected
<1> HIDE DEF B, L
<1> DEFINE b == Query!Bound(O, top, ub)
<1> HIDE DEF b
<1>6. b \in Int /\ b <= ub /\ Above(b, B, L)
  BY <1>0, <1>1, <1>2, <1>3, <1>4, BoundIs DEF b
<1>7. v \in Int /\ v <= ub /\ Above(v, B, L)
  BY <1>0, <1>6 DEF b
<1>8. SoundHeap(InputArcs, FromSources(S), K)
  BY <1>0, <1>5, SettlesSound
<1>9. ASSUME 0 <= B, B < L, ~(v <= B)
      PROVE  \E m, F, G : /\ Meeting(S, Q, m, F, G)
                          /\ Both(ForwardArcs(edges), K, F, BackwardArcs(edges), O, G, m)
  <2>1. ~(ub <= B)
    BY <1>0, <1>3, <1>7, <1>9
  <2>2. PICK m, F, G : Meeting(S, Q, m, F, G) /\ Both(ForwardArcs(edges), H, F, BackwardArcs(edges), O, G, m)
    BY <1>9, <2>1 DEF Searching, B, L
  <2>3. /\ F \in Int /\ G \in Int /\ F + G <= B /\ G + F <= B /\ Far(InputArcs, FromSources(S), m, F)
        /\ F <= B /\ \E s \in S : G - s.offset <= B
    BY <2>2 DEF Meeting, B
  <2>4. Both(ForwardArcs(edges), H, F, BackwardArcs(edges), O, G, m)
    BY <2>2 DEF Both
  <2>5. v <= B \/ Both(ForwardArcs(edges), K, F, BackwardArcs(edges), O, G, m)
    BY <1>0, <1>1, <1>2, <1>3, <1>4, <1>5, <1>9, <2>3, <2>4, SettlesBoth
  <2>6. Both(ForwardArcs(edges), K, F, BackwardArcs(edges), O, G, m)
    BY <1>9, <2>5 DEF Both
  <2> QED
    BY <2>2, <2>6
<1> QED
  BY <1>0, <1>7, <1>8, <1>9 DEF Searching, B, L

\* Settling a node of the reverse heap keeps this.
LEMMA SettlesReverse ==
    ASSUME Served, NEW S, NEW Q, Places(S), Goals(Q), NEW H, NEW O, NEW ub, NEW off,
           Searching(S, Q, H, O, ub, off), NEW top, top \in Query!Minima(O),
           NEW K, Settles("reverse", O, top, K)
    PROVE  Searching(S, Q, H, K, Query!Bound(H, top, ub), off)
<1> DEFINE B == Best(S, Q)
           L == Limit(S)
           v == Query!Bound(H, top, ub)
<1>0. /\ SoundHeap(InputArcs, FromSources(S), H) /\ SoundHeap(Opposite, FromTargets(Q), O)
      /\ ub \in Int /\ Above(ub, B, L) /\ off \in Int /\ off <= 0 /\ \A s \in S : off <= -s.offset
  BY DEF Searching
<1>1. H \subseteq HeapNodes /\ O \subseteq HeapNodes /\ OneEach(H) /\ OneEach(O)
  BY <1>0 DEF SoundHeap
<1>2. top \in O /\ top.weight \in Int
  BY <1>1, TopIs DEF HeapNodes
<1>3. InputArcs \in SUBSET Arcs /\ B \in Int /\ L \in Int /\ Places(Q) /\ \A s \in S : s.offset \in Int
  BY BestIs, LimitIs DEF Served, Goals, Places
<1>4. SumsAbove(H, O, B, L) /\ SumsAbove(O, H, B, L)
  BY <1>0, <1>3, SumsAre DEF SoundHeap, Weighed
<1>5. Starts(FromTargets(Q)) /\ Directed("reverse", BackwardArcs(edges), Opposite)
  BY <1>3, StartsAre, ReverseDirected
<1> HIDE DEF B, L
<1> DEFINE b == Query!Bound(H, top, ub)
<1> HIDE DEF b
<1>6. b \in Int /\ b <= ub /\ Above(b, B, L)
  BY <1>0, <1>1, <1>2, <1>3, <1>4, BoundIs DEF b
<1>7. v \in Int /\ v <= ub /\ Above(v, B, L)
  BY <1>0, <1>6 DEF b
<1>8. SoundHeap(Opposite, FromTargets(Q), K)
  BY <1>0, <1>5, SettlesSound
<1>9. ASSUME 0 <= B, B < L, ~(v <= B)
      PROVE  \E m, F, G : /\ Meeting(S, Q, m, F, G)
                          /\ Both(ForwardArcs(edges), H, F, BackwardArcs(edges), K, G, m)
  <2>1. ~(ub <= B)
    BY <1>0, <1>3, <1>7, <1>9
  <2>2. PICK m, F, G : Meeting(S, Q, m, F, G) /\ Both(ForwardArcs(edges), H, F, BackwardArcs(edges), O, G, m)
    BY <1>9, <2>1 DEF Searching, B, L
  <2>3. /\ F \in Int /\ G \in Int /\ F + G <= B /\ G + F <= B /\ Far(Opposite, FromTargets(Q), m, G)
        /\ F <= B /\ \E s \in S : G - s.offset <= B
    BY <2>2 DEF Meeting, B
  <2>4. Both(BackwardArcs(edges), O, G, ForwardArcs(edges), H, F, m)
    BY <2>2 DEF Both
  <2>5. v <= B \/ Both(BackwardArcs(edges), K, G, ForwardArcs(edges), H, F, m)
    BY <1>0, <1>1, <1>2, <1>3, <1>4, <1>5, <1>9, <2>3, <2>4, SettlesBoth
  <2>6. Both(ForwardArcs(edges), H, F, BackwardArcs(edges), K, G, m)
    BY <1>9, <2>5 DEF Both
  <2> QED
    BY <2>2, <2>6
<1> QED
  BY <1>0, <1>7, <1>8, <1>9 DEF Searching, B, L

\* Stopping the forward search beyond the bound keeps this.
LEMMA StopsForward ==
    ASSUME Served, NEW S, NEW Q, Places(S), Goals(Q), NEW H, NEW O, NEW ub, NEW off,
           Searching(S, Q, H, O, ub, off), NEW top, top \in Query!Minima(H),
           NEW K, K = Query!DeleteAll(Rest(H, top)),
           NEW u, u = ub \/ u = Query!Bound(O, top, ub), u < top.weight + off \/ u < 0
    PROVE  Searching(S, Q, K, O, u, off)
<1> DEFINE B == Best(S, Q)
           L == Limit(S)
           v == u
<1>0. /\ SoundHeap(InputArcs, FromSources(S), H) /\ SoundHeap(Opposite, FromTargets(Q), O)
      /\ ub \in Int /\ Above(ub, B, L) /\ off \in Int /\ off <= 0 /\ \A s \in S : off <= -s.offset
  BY DEF Searching
<1>1. H \subseteq HeapNodes /\ O \subseteq HeapNodes /\ OneEach(H) /\ OneEach(O)
  BY <1>0 DEF SoundHeap
<1>2. top \in H /\ top.weight \in Int
  BY <1>1, TopIs DEF HeapNodes
<1>3. InputArcs \in SUBSET Arcs /\ B \in Int /\ L \in Int /\ Places(Q) /\ \A s \in S : s.offset \in Int
  BY BestIs, LimitIs DEF Served, Goals, Places
<1>4. SumsAbove(H, O, B, L) /\ SumsAbove(O, H, B, L)
  BY <1>0, <1>3, SumsAre DEF SoundHeap, Weighed
<1>5. Starts(FromSources(S)) /\ Directed("forward", ForwardArcs(edges), InputArcs)
  BY <1>3, StartsAre, ForwardDirected
<1> HIDE DEF B, L
<1> DEFINE b == Query!Bound(O, top, ub)
<1> HIDE DEF b
<1>6. b \in Int /\ b <= ub /\ Above(b, B, L)
  BY <1>0, <1>1, <1>2, <1>3, <1>4, BoundIs DEF b
<1>7. v \in Int /\ v <= ub /\ Above(v, B, L)
  BY <1>0, <1>6 DEF b
<1>8. SoundHeap(InputArcs, FromSources(S), K)
  BY <1>0, RestSound, DeletedSound
<1>9. ASSUME 0 <= B, B < L, ~(v <= B)
      PROVE  \E m, F, G : /\ Meeting(S, Q, m, F, G)
                          /\ Both(ForwardArcs(edges), K, F, BackwardArcs(edges), O, G, m)
  <2>1. ~(ub <= B)
    BY <1>0, <1>3, <1>7, <1>9
  <2>2. PICK m, F, G : Meeting(S, Q, m, F, G) /\ Both(ForwardArcs(edges), H, F, BackwardArcs(edges), O, G, m)
    BY <1>9, <2>1 DEF Searching, B, L
  <2>3. /\ F \in Int /\ G \in Int /\ F + G <= B /\ G + F <= B /\ Far(InputArcs, FromSources(S), m, F)
        /\ F <= B /\ \E s \in S : G - s.offset <= B
    BY <2>2 DEF Meeting, B
  <2>4. Both(ForwardArcs(edges), H, F, BackwardArcs(edges), O, G, m)
    BY <2>2 DEF Both
  <2>5. off + F <= B
    BY <1>0, <1>3, <2>3
  <2>6. top.weight <= F => v <= B
    <3> HIDE DEF v
    <3>1. v < top.weight + off \/ v < 0
      BY DEF v
    <3> QED
      BY <1>0, <1>2, <1>3, <1>7, <1>9, <2>3, <2>5, <3>1
  <2>7. v <= B \/ Both(ForwardArcs(edges), K, F, BackwardArcs(edges), O, G, m)
    BY <1>0, <1>3, <1>7, <2>3, <2>4, <2>6, StopsBoth
  <2>8. Both(ForwardArcs(edges), K, F, BackwardArcs(edges), O, G, m)
    BY <1>9, <2>7 DEF Both
  <2> QED
    BY <2>2, <2>8
<1> QED
  BY <1>0, <1>7, <1>8, <1>9 DEF Searching, B, L

\* Stopping the reverse search beyond the bound keeps this.
LEMMA StopsReverse ==
    ASSUME Served, NEW S, NEW Q, Places(S), Goals(Q), NEW H, NEW O, NEW ub, NEW off,
           Searching(S, Q, H, O, ub, off), NEW top, top \in Query!Minima(O),
           NEW K, K = Query!DeleteAll(Rest(O, top)),
           NEW u, u = ub \/ u = Query!Bound(H, top, ub), u < top.weight + off \/ u < 0
    PROVE  Searching(S, Q, H, K, u, off)
<1> DEFINE B == Best(S, Q)
           L == Limit(S)
           v == u
<1>0. /\ SoundHeap(InputArcs, FromSources(S), H) /\ SoundHeap(Opposite, FromTargets(Q), O)
      /\ ub \in Int /\ Above(ub, B, L) /\ off \in Int /\ off <= 0 /\ \A s \in S : off <= -s.offset
  BY DEF Searching
<1>1. H \subseteq HeapNodes /\ O \subseteq HeapNodes /\ OneEach(H) /\ OneEach(O)
  BY <1>0 DEF SoundHeap
<1>2. top \in O /\ top.weight \in Int
  BY <1>1, TopIs DEF HeapNodes
<1>3. InputArcs \in SUBSET Arcs /\ B \in Int /\ L \in Int /\ Places(Q) /\ \A s \in S : s.offset \in Int
  BY BestIs, LimitIs DEF Served, Goals, Places
<1>4. SumsAbove(H, O, B, L) /\ SumsAbove(O, H, B, L)
  BY <1>0, <1>3, SumsAre DEF SoundHeap, Weighed
<1>5. Starts(FromTargets(Q)) /\ Directed("reverse", BackwardArcs(edges), Opposite)
  BY <1>3, StartsAre, ReverseDirected
<1> HIDE DEF B, L
<1> DEFINE b == Query!Bound(H, top, ub)
<1> HIDE DEF b
<1>6. b \in Int /\ b <= ub /\ Above(b, B, L)
  BY <1>0, <1>1, <1>2, <1>3, <1>4, BoundIs DEF b
<1>7. v \in Int /\ v <= ub /\ Above(v, B, L)
  BY <1>0, <1>6 DEF b
<1>8. SoundHeap(Opposite, FromTargets(Q), K)
  BY <1>0, RestSound, DeletedSound
<1>9. ASSUME 0 <= B, B < L, ~(v <= B)
      PROVE  \E m, F, G : /\ Meeting(S, Q, m, F, G)
                          /\ Both(ForwardArcs(edges), H, F, BackwardArcs(edges), K, G, m)
  <2>1. ~(ub <= B)
    BY <1>0, <1>3, <1>7, <1>9
  <2>2. PICK m, F, G : Meeting(S, Q, m, F, G) /\ Both(ForwardArcs(edges), H, F, BackwardArcs(edges), O, G, m)
    BY <1>9, <2>1 DEF Searching, B, L
  <2>3. /\ F \in Int /\ G \in Int /\ F + G <= B /\ G + F <= B /\ Far(Opposite, FromTargets(Q), m, G)
        /\ F <= B /\ \E s \in S : G - s.offset <= B
    BY <2>2 DEF Meeting, B
  <2>4. Both(BackwardArcs(edges), O, G, ForwardArcs(edges), H, F, m)
    BY <2>2 DEF Both
  <2>5. off + G <= B
    BY <1>0, <1>3, <2>3
  <2>6. top.weight <= G => v <= B
    <3> HIDE DEF v
    <3>1. v < top.weight + off \/ v < 0
      BY DEF v
    <3> QED
      BY <1>0, <1>2, <1>3, <1>7, <1>9, <2>3, <2>5, <3>1
  <2>7. v <= B \/ Both(BackwardArcs(edges), K, G, ForwardArcs(edges), H, F, m)
    BY <1>0, <1>3, <1>7, <2>3, <2>4, <2>6, StopsBoth
  <2>8. Both(ForwardArcs(edges), H, F, BackwardArcs(edges), K, G, m)
    BY <1>9, <2>7 DEF Both
  <2> QED
    BY <2>2, <2>8
<1> QED
  BY <1>0, <1>7, <1>8, <1>9 DEF Searching, B, L

\* The lesser of two integers.
LEMMA MinPair ==
    ASSUME NEW x \in Int, NEW y \in Int
    PROVE  Min({x, y}) = IF x <= y THEN x ELSE y
<1> DEFINE b == IF x <= y THEN x ELSE y
<1>1. b \in Int /\ b <= x /\ b <= y
  OBVIOUS
<1> HIDE DEF b
<1>2. Min({x, y}) \in {x, y} /\ \A z \in {x, y} : Min({x, y}) <= z
  BY <1>1, LeastIs
<1> QED
  BY <1>2

\* A bound that is not below, and that is best unless the best way is beyond the limit, is
\* what a search is to find.
LEMMA BestFound ==
    ASSUME InputArcs \in SUBSET Arcs, NEW S, NEW Q, Places(S), Goals(Q), NEW ub \in Int,
           Above(ub, Best(S, Q), Limit(S)),
           0 <= Best(S, Q) /\ Best(S, Q) < Limit(S) => ub <= Best(S, Q)
    PROVE  IsBest(ub, Shortest(InputArcs), S, Q)
<1> DEFINE B == Best(S, Q)
           L == Limit(S)
<1>1. B \in Int /\ L \in Int
  BY BestIs, LimitIs
<1>2. Above(ub, B, L) /\ (0 <= B /\ B < L => ub <= B)
  OBVIOUS
<1>3. IsBest(ub, Shortest(InputArcs), S, Q) <=> (B >= 0 => Min({ub, L}) = Min({B, L}))
  BY DEF IsBest, Best
<1> HIDE DEF B, L
<1>4. Min({ub, L}) = (IF ub <= L THEN ub ELSE L) /\ Min({B, L}) = IF B <= L THEN B ELSE L
  BY <1>1, MinPair
<1>5. B >= 0 => (IF ub <= L THEN ub ELSE L) = (IF B <= L THEN B ELSE L)
  BY <1>1, <1>2 DEF Above
<1> QED
  BY <1>3, <1>4, <1>5

\* When both heaps are empty, or there is no target, the bound is the length of the best way.
LEMMA SearchingEnds ==
    ASSUME Served, NEW S, NEW Q, Places(S), Goals(Q), NEW H, NEW O, NEW ub, NEW off,
           Searching(S, Q, H, O, ub, off),
           (Query!Open(H) = {} /\ Query!Open(O) = {}) \/ Q = {}
    PROVE  IsBest(ub, Shortest(InputArcs), S, Q)
<1> DEFINE B == Best(S, Q)
           L == Limit(S)
<1>0. /\ ub \in Int /\ Above(ub, B, L)
      /\ 0 <= B /\ B < L =>
         \/ ub <= B
         \/ \E m, F, G : /\ Meeting(S, Q, m, F, G)
                         /\ Both(ForwardArcs(edges), H, F, BackwardArcs(edges), O, G, m)
  BY DEF Searching
<1>1. /\ B \in Int /\ L \in Int /\ L <= INT_MAX /\ InputArcs \in SUBSET Arcs /\ INT_MAX \in Nat \ {0}
      /\ B < INT_MAX => \E s \in S, t \in Q, w \in Budgets : B = w - s.offset + t.offset
  BY BestIs, LimitIs, ContractorAssumption DEF Served
<1> HIDE DEF B, L
<1>2. ASSUME 0 <= B, B < L PROVE ub <= B
  <2>1. CASE Q = {}
    BY <1>1, <1>2, <2>1
  <2>2. CASE Query!Open(H) = {} /\ Query!Open(O) = {}
    <3>1. (\A h \in H : h.removed) /\ \A h \in O : h.removed
      BY <2>2 DEF Query!Open
    <3>2. \A R, m, F : ~Pending(R, H, m, F) /\ ~Pending(R, O, m, F)
      BY <3>1 DEF Pending
    <3> QED
      BY <1>0, <1>2, <3>2 DEF Both
  <2> QED
    BY <2>1, <2>2
<1> QED
  BY <1>0, <1>1, <1>2, BestFound DEF B, L

\* A step of RoutingStep settles the first entry, or stops.
LEMMA AfterStep ==
    ASSUME NEW d, NEW H, NEW top, NEW u, NEW off
    PROVE  LET K == Query!HeapAfter(H, top, d, u, off)
           IN  \/ Settles(d, H, top, K)
               \/ K = Query!DeleteAll(Rest(H, top)) /\ top.weight + off > u
BY DEF Query!HeapAfter, Settles, Rest, Gone

\* A step of the forward search.
LEMMA StepForward ==
    ASSUME Served, NEW S, NEW Q, Places(S), Goals(Q), NEW H, NEW O, NEW ub, NEW off,
           Searching(S, Q, H, O, ub, off), NEW top, top \in Query!Minima(H)
    PROVE  LET u == Query!Bound(O, top, ub)
           IN  Searching(S, Q, Query!HeapAfter(H, top, "forward", u, off), O, u, off)
<1> DEFINE u == Query!Bound(O, top, ub)
           K == Query!HeapAfter(H, top, "forward", u, off)
<1>1. Settles("forward", H, top, K) \/ (K = Query!DeleteAll(Rest(H, top)) /\ top.weight + off > u)
  BY AfterStep
<1>2. u = Query!Bound(O, top, ub)
  OBVIOUS
<1> HIDE DEF K
<1>3. CASE Settles("forward", H, top, K)
  BY <1>3, SettlesForward DEF K
<1>4. CASE K = Query!DeleteAll(Rest(H, top)) /\ top.weight + off > u
  <2> HIDE DEF u
  <2>1. u < top.weight + off
    BY <1>4
  <2>2. Searching(S, Q, K, O, u, off)
    BY <1>2, <1>4, <2>1, StopsForward
  <2> QED
    BY <2>2 DEF K, u
<1> QED
  BY <1>1, <1>3, <1>4

\* A step of the reverse search.
LEMMA StepReverse ==
    ASSUME Served, NEW S, NEW Q, Places(S), Goals(Q), NEW H, NEW O, NEW ub, NEW off,
           Searching(S, Q, H, O, ub, off), NEW top, top \in Query!Minima(O)
    PROVE  LET u == Query!Bound(H, top, ub)
           IN  Searching(S, Q, H, Query!HeapAfter(O, top, "reverse", u, off), u, off)
<1> DEFINE u == Query!Bound(H, top, ub)
           K == Query!HeapAfter(O, top, "reverse", u, off)
<1>1. Settles("reverse", O, top, K) \/ (K = Query!DeleteAll(Rest(O, top)) /\ top.weight + off > u)
  BY AfterStep
<1>2. u = Query!Bound(H, top, ub)
  OBVIOUS
<1> HIDE DEF K
<1>3. CASE Settles("reverse", O, top, K)
  BY <1>3, SettlesReverse DEF K
<1>4. CASE K = Query!DeleteAll(Rest(O, top)) /\ top.weight + off > u
  <2> HIDE DEF u
  <2>1. u < top.weight + off
    BY <1>4
  <2>2. Searching(S, Q, H, K, u, off)
    BY <1>2, <1>4, <2>1, StopsReverse
  <2> QED
    BY <2>2 DEF K, u
<1> QED
  BY <1>1, <1>3, <1>4

\* A scaled distance is no larger.
LEMMA ScaledIs ==
    ASSUME NEW x \in Int, NEW u \in Int, Query!Scaled(x) > u
    PROVE  u < x \/ u < 0
<1>1. VIAPATH_EPSILON \in Nat
  BY RequestsAssumption
<1>2. CASE x < 0
  BY <1>2 DEF Query!Scaled
<1>3. CASE x >= 0
  <2> DEFINE c == 100 + VIAPATH_EPSILON
             q == (100 * x) \div c
  <2>1. c \in Nat \ {0} /\ c >= 100
    BY <1>1
  <2>2. Query!Scaled(x) = q
    BY <1>3 DEF Query!Scaled
  <2> HIDE DEF c
  <2>3. q \in Int /\ q * c <= 100 * x
    BY <2>1
  <2> HIDE DEF q
  <2>4. q <= x
    <3>1. SUFFICES ASSUME q > x PROVE FALSE
      BY <2>3
    <3>2. q * c >= q * 100
      BY <1>3, <2>1, <2>3, <3>1
    <3> DEFINE y == q * c
    <3>3. y \in Int /\ y <= 100 * x /\ y >= q * 100
      BY <2>1, <2>3, <3>2
    <3> HIDE DEF y
    <3> QED
      BY <1>3, <2>3, <3>1, <3>3
  <2> QED
    BY <2>2, <2>3, <2>4
<1> QED
  BY <1>2, <1>3

-----------------------------------------------------------------------------
(* Places of a request *)

\* The nodes of a location, or some of them, are places.
LEMMA PlacesAre ==
    ASSUME NEW p \in Phantoms, NEW a \in Int, NEW b \in Int, NEW S,
           S \subseteq Query!Existing(p.forward, a) \cup Query!Existing(p.reverse, b)
    PROVE  Places(S) /\ (a \in Nat /\ b \in Nat => Goals(S))
<1>0. /\ p.forward \in NodeIDs \cup {SPECIAL_NODEID} /\ p.reverse \in NodeIDs \cup {SPECIAL_NODEID}
      /\ (p.forward = p.reverse => p.forward = SPECIAL_NODEID)
  BY DEF Phantoms
<1>1. \A s \in S : \/ p.forward # SPECIAL_NODEID /\ s.node = p.forward /\ s.offset = a
                                                 /\ s = Query!At(p.forward, a)
                   \/ p.reverse # SPECIAL_NODEID /\ s.node = p.reverse /\ s.offset = b
                                                 /\ s = Query!At(p.reverse, b)
  BY DEF Query!Existing, Query!At
<1>2. \A s \in S : s.node \in NodeIDs /\ s.offset \in Int
  BY <1>0, <1>1
<1>3. \A s, t \in S : s.node = t.node => s = t
  BY <1>0, <1>1, Zenon
<1>4. \E c \in Nat : \A s \in S : s.offset <= c
  <2> DEFINE c == IF a <= 0 /\ b <= 0 THEN 0 ELSE IF a <= b THEN b ELSE a
  <2>1. c \in Nat /\ a <= c /\ b <= c
    OBVIOUS
  <2> HIDE DEF c
  <2> QED
    BY <1>1, <2>1
<1>5. a \in Nat /\ b \in Nat => \A s \in S : s.offset \in Nat
  BY <1>1
<1> QED
  BY <1>2, <1>3, <1>4, <1>5 DEF Places, Goals

\* The fields of a location.
LEMMA PhantomIs ==
    ASSUME NEW p \in Phantoms
    PROVE  p.forward_offset \in Nat /\ p.reverse_offset \in Nat
BY DEF Phantoms

\* The heap of a search from the sources.
LEMMA SourcesHeap ==
    ASSUME NEW S
    PROVE  StartHeap(FromSources(S)) = {Query!HeapNode(s.node, -s.offset, s.node) : s \in S}
<1> DEFINE p(s) == [node |-> s.node, key |-> -s.offset]
           E(q) == Query!HeapNode(q.node, q.key, q.node)
<1>1. \A s : E(p(s)) = Query!HeapNode(s.node, -s.offset, s.node)
  OBVIOUS
<1>2. StartHeap(FromSources(S)) = {E(q) : q \in {p(s) : s \in S}}
  BY DEF StartHeap, FromSources
<1> HIDE DEF p, E
<1> QED
  BY <1>1, <1>2

\* The heap of a search from the targets.
LEMMA TargetsHeap ==
    ASSUME NEW S
    PROVE  StartHeap(FromTargets(S)) = {Query!HeapNode(s.node, s.offset, s.node) : s \in S}
<1> DEFINE p(s) == [node |-> s.node, key |-> s.offset]
           E(q) == Query!HeapNode(q.node, q.key, q.node)
<1>1. \A s : E(p(s)) = Query!HeapNode(s.node, s.offset, s.node)
  OBVIOUS
<1>2. StartHeap(FromTargets(S)) = {E(q) : q \in {p(s) : s \in S}}
  BY DEF StartHeap, FromTargets
<1> HIDE DEF p, E
<1> QED
  BY <1>1, <1>2

\* Filling the heaps starts a search.
LEMMA FilledSearches ==
    ASSUME Served, NEW l, Places(l.source), Goals(l.target), Query!FillHeaps(l)
    PROVE  Searching(l.source, l.target, forward_heap', reverse_heap', upper_bound', min_edge_offset')
<1> DEFINE S == l.source
           Q == l.target
           M == {0} \cup {-p.offset : p \in S}
<1>1. forward_heap' = {Query!HeapNode(p.node, -p.offset, p.node) : p \in S}
  BY DEF Query!FillHeaps
<1>2. reverse_heap' = {Query!HeapNode(p.node, p.offset, p.node) : p \in Q}
  BY DEF Query!FillHeaps
<1>3. min_edge_offset' = Query!Min(M) /\ upper_bound' = INT_MAX
  BY DEF Query!FillHeaps
<1> HIDE DEF S, Q
<1>4. forward_heap' = StartHeap(FromSources(S))
  BY <1>1, SourcesHeap
<1>5. reverse_heap' = StartHeap(FromTargets(Q))
  BY <1>2, TargetsHeap
<1>6. Places(S) /\ Goals(Q) /\ \A s \in S : s.offset \in Int
  BY DEF Places, S, Q
<1>7. PICK b \in Nat : \A s \in S : s.offset <= b
  BY <1>6 DEF Places
<1>8. M \subseteq Int /\ M # {} /\ -b \in Int /\ \A x \in M : -b <= x
  BY <1>6, <1>7
<1>9. 0 \in M /\ \A s \in S : -s.offset \in M
  OBVIOUS
<1> HIDE DEF M
<1>10. Min(M) \in M /\ \A x \in M : Min(M) <= x
  BY <1>8, LeastIs
<1> DEFINE off == min_edge_offset'
<1>11. off \in Int /\ off <= 0 /\ \A s \in S : off <= -s.offset
  BY <1>3, <1>8, <1>9, <1>10, SameOperators
<1> HIDE DEF off
<1>12. Searching(S, Q, StartHeap(FromSources(S)), StartHeap(FromTargets(Q)), INT_MAX, off)
  BY <1>6, <1>11, SearchingStarts
<1> QED
  BY <1>3, <1>4, <1>5, <1>12 DEF off, S, Q

-----------------------------------------------------------------------------
(* The engine *)

\* The hierarchy is built and finite.
Hierarchy ==
    /\ Contraction /\ IsFiniteSet(external_edge_list)
    /\ built => IsFiniteSet(edges)

\* It is finite when the contraction starts.
LEMMA InitHierarchy == Init => Hierarchy
<1> SUFFICES ASSUME Init PROVE Hierarchy
  OBVIOUS
<1>1. Contraction
  BY InitContraction
<1>2. external_edge_list = {} /\ ~built
  BY DEF Init
<1> QED
  BY <1>1, <1>2, FS_EmptySet DEF Hierarchy

\* The contraction keeps it finite, and nothing changes once it is built.
LEMMA NextHierarchy ==
    ASSUME Hierarchy, [Next]_vars
    PROVE  Hierarchy' /\ (built => UNCHANGED vars)
<1>0. Contraction
  BY DEF Hierarchy
<1>1. Contraction'
  BY <1>0, NextContraction
<1>2. CASE UNCHANGED vars
  BY <1>1, <1>2 DEF vars, Hierarchy
<1>3. CASE ContractRound
  BY <1>1, <1>3 DEF ContractRound, Contracting, Hierarchy
<1>4. ASSUME ~built PROVE IsFiniteSet(contractor_graph)
  BY <1>0, <1>4 DEF Contraction, Contracted, Ready
<1>5. CASE Flush
  <2>1. ~built /\ built' = built /\ edges' = edges
        /\ external_edge_list' = {e \in contractor_graph : e.source \notin Elements(remaining_nodes)}
    BY <1>5 DEF Flush, Contracting
  <2>2. external_edge_list' \subseteq contractor_graph
    BY <2>1
  <2>3. IsFiniteSet(external_edge_list')
    BY <1>4, <2>1, <2>2, FS_Subset
  <2> QED
    BY <1>1, <2>1, <2>3 DEF Hierarchy
<1>6. CASE GetEdges
  <2> DEFINE X(e) == [e EXCEPT !.source = Original(@), !.target = Original(@),
                               !.id = IF e.is_original_via_node_ID THEN @ ELSE Original(@)]
             f == [e \in contractor_graph |-> X(e)]
             I == {f[e] : e \in contractor_graph}
  <2>1. ~built /\ external_edge_list' = {} /\ edges' = external_edge_list \cup {X(e) : e \in contractor_graph}
    BY <1>6 DEF GetEdges
  <2>2. {X(e) : e \in contractor_graph} = I
    <3> HIDE DEF X
    <3> QED
      OBVIOUS
  <2>3. IsFiniteSet(I)
    <3> HIDE DEF f
    <3> QED
      BY <1>4, <2>1, FiniteImage
  <2> HIDE DEF I
  <2>4. IsFiniteSet(external_edge_list \cup I)
    BY <2>3, FS_Union DEF Hierarchy
  <2>5. IsFiniteSet(edges') /\ IsFiniteSet(external_edge_list')
    BY <2>1, <2>2, <2>4, FS_EmptySet
  <2> QED
    BY <1>1, <2>1, <2>5 DEF Hierarchy
<1> QED
  BY <1>2, <1>3, <1>5, <1>6 DEF Next

\* The server has loaded the hierarchy.
Loaded == built /\ query_graph = Query!SerializedGraph(edges, number_of_nodes)

\* Then it is exact.
LEMMA LoadedServes ==
    ASSUME Hierarchy, Loaded
    PROVE  Served
BY InputArcsAre DEF Hierarchy, Loaded, Served, Contraction

\* The search at hand, and its end.
Searches == {"forward", "reverse", "alt forward", "alt reverse", "done"}
Active ==
    /\ Places(leg.source) /\ Goals(leg.target)
    /\ Searching(leg.source, leg.target, forward_heap, reverse_heap, upper_bound, min_edge_offset)
Ended == (Query!Open(forward_heap) = {} /\ Query!Open(reverse_heap) = {}) \/ leg.target = {}

\* The hierarchy stays while requests are answered.
LEMMA ActiveNext ==
    ASSUME UNCHANGED <<edges, input_edge_list>>, Places(leg'.source), Goals(leg'.target),
           Searching(leg'.source, leg'.target, forward_heap', reverse_heap', upper_bound', min_edge_offset')
    PROVE  Active'
BY DEF Active, Searching, Meeting, Best, Opposite, InputArcs

\* A step of the forward search keeps it going.
LEMMA RoutingForward ==
    ASSUME Served, UNCHANGED <<edges, input_edge_list>>, Active, Query!RoutingStepForward
    PROVE  Active' /\ turn' \in Searches /\ (turn' = "done" => Ended')
<1>1. PICK top \in Query!Minima(forward_heap) :
        /\ upper_bound' = Query!Bound(reverse_heap, top, upper_bound)
        /\ forward_heap' = Query!HeapAfter(forward_heap, top, "forward",
                                           Query!Bound(reverse_heap, top, upper_bound), min_edge_offset)
  BY DEF Query!RoutingStepForward
<1>2. /\ UNCHANGED <<leg, reverse_heap, min_edge_offset>>
      /\ turn' = Query!Turn("forward", forward_heap', reverse_heap)
  BY DEF Query!RoutingStepForward
<1>3. Searching(leg.source, leg.target, forward_heap', reverse_heap, upper_bound', min_edge_offset)
  BY <1>1, StepForward DEF Active
<1>4. Active'
  BY <1>2, <1>3, ActiveNext DEF Active
<1>5. turn' \in Searches /\ (turn' = "done" => Ended')
  BY <1>2 DEF Query!Turn, Searches, Ended
<1> QED
  BY <1>4, <1>5

\* A step of the reverse search keeps it going.
LEMMA RoutingReverse ==
    ASSUME Served, UNCHANGED <<edges, input_edge_list>>, Active, Query!RoutingStepReverse
    PROVE  Active' /\ turn' \in Searches /\ (turn' = "done" => Ended')
<1>1. PICK top \in Query!Minima(reverse_heap) :
        /\ upper_bound' = Query!Bound(forward_heap, top, upper_bound)
        /\ reverse_heap' = Query!HeapAfter(reverse_heap, top, "reverse",
                                           Query!Bound(forward_heap, top, upper_bound), min_edge_offset)
  BY DEF Query!RoutingStepReverse
<1>2. /\ UNCHANGED <<leg, forward_heap, min_edge_offset>>
      /\ turn' = Query!Turn("reverse", reverse_heap', forward_heap)
  BY DEF Query!RoutingStepReverse
<1>3. Searching(leg.source, leg.target, forward_heap, reverse_heap', upper_bound', min_edge_offset)
  BY <1>1, StepReverse DEF Active
<1>4. Active'
  BY <1>2, <1>3, ActiveNext DEF Active
<1>5. turn' \in Searches /\ (turn' = "done" => Ended')
  BY <1>2 DEF Query!Turn, Searches, Ended
<1> QED
  BY <1>4, <1>5

\* A step of the search for alternatives settles the first entry, or stops.
LEMMA AlternativeStepIs ==
    ASSUME NEW mine, NEW other, NEW next, NEW d,
           Query!AlternativeRoutingStep(mine, other, next, d)
    PROVE  \E top \in Query!Minima(mine) :
             \/ Settles(d, mine, top, next) /\ upper_bound' = Query!Bound(other, top, upper_bound)
             \/ /\ next = Query!DeleteAll(Rest(mine, top)) /\ upper_bound' = upper_bound
                /\ Query!Scaled(top.weight + min_edge_offset) > upper_bound
BY DEF Query!AlternativeRoutingStep, Settles, Rest, Gone

\* A step of the forward search for alternatives keeps it going.
LEMMA AlternativeForward ==
    ASSUME Served, UNCHANGED <<edges, input_edge_list>>, Active, Query!AlternativeStepForward
    PROVE  Active' /\ turn' \in Searches /\ (turn' = "done" => Ended')
<1> DEFINE S == leg.source
           Q == leg.target
<1>0. /\ Places(S) /\ Goals(Q)
      /\ Searching(S, Q, forward_heap, reverse_heap, upper_bound, min_edge_offset)
  BY DEF Active
<1>1. /\ UNCHANGED <<leg, reverse_heap, min_edge_offset>>
      /\ turn' = Query!AlternativeTurn("forward", forward_heap', reverse_heap)
      /\ Query!AlternativeRoutingStep(forward_heap, reverse_heap, forward_heap', "forward")
  BY DEF Query!AlternativeStepForward
<1>2. PICK top \in Query!Minima(forward_heap) :
        \/ /\ Settles("forward", forward_heap, top, forward_heap')
           /\ upper_bound' = Query!Bound(reverse_heap, top, upper_bound)
        \/ /\ forward_heap' = Query!DeleteAll(Rest(forward_heap, top)) /\ upper_bound' = upper_bound
           /\ Query!Scaled(top.weight + min_edge_offset) > upper_bound
  BY <1>1, AlternativeStepIs
<1> HIDE DEF S, Q
<1>3. CASE /\ Settles("forward", forward_heap, top, forward_heap')
           /\ upper_bound' = Query!Bound(reverse_heap, top, upper_bound)
  <2>1. Searching(S, Q, forward_heap', reverse_heap, upper_bound', min_edge_offset)
    BY <1>0, <1>3, SettlesForward
  <2> QED
    BY <1>0, <1>1, <2>1, ActiveNext DEF S, Q, Query!AlternativeTurn, Query!Turn, Searches, Ended
<1>4. CASE /\ forward_heap' = Query!DeleteAll(Rest(forward_heap, top)) /\ upper_bound' = upper_bound
           /\ Query!Scaled(top.weight + min_edge_offset) > upper_bound
  <2> DEFINE x == top.weight + min_edge_offset
  <2>1. forward_heap \subseteq HeapNodes /\ upper_bound \in Int /\ min_edge_offset \in Int
    BY <1>0 DEF Searching, SoundHeap
  <2>2. x \in Int
    BY <2>1, TopIs DEF HeapNodes
  <2>3. Query!Scaled(x) > upper_bound
    BY <1>4
  <2> HIDE DEF x
  <2>4. upper_bound < x \/ upper_bound < 0
    BY <2>1, <2>2, <2>3, ScaledIs
  <2>5. Searching(S, Q, forward_heap', reverse_heap, upper_bound, min_edge_offset)
    BY <1>0, <1>4, <2>4, StopsForward DEF x
  <2> QED
    BY <1>0, <1>1, <1>4, <2>5, ActiveNext DEF S, Q, Query!AlternativeTurn, Query!Turn, Searches, Ended
<1> QED
  BY <1>2, <1>3, <1>4

\* A step of the reverse search for alternatives keeps it going.
LEMMA AlternativeReverse ==
    ASSUME Served, UNCHANGED <<edges, input_edge_list>>, Active, Query!AlternativeStepReverse
    PROVE  Active' /\ turn' \in Searches /\ (turn' = "done" => Ended')
<1> DEFINE S == leg.source
           Q == leg.target
<1>0. /\ Places(S) /\ Goals(Q)
      /\ Searching(S, Q, forward_heap, reverse_heap, upper_bound, min_edge_offset)
  BY DEF Active
<1>1. /\ UNCHANGED <<leg, forward_heap, min_edge_offset>>
      /\ turn' = Query!AlternativeTurn("reverse", reverse_heap', forward_heap)
      /\ Query!AlternativeRoutingStep(reverse_heap, forward_heap, reverse_heap', "reverse")
  BY DEF Query!AlternativeStepReverse
<1>2. PICK top \in Query!Minima(reverse_heap) :
        \/ /\ Settles("reverse", reverse_heap, top, reverse_heap')
           /\ upper_bound' = Query!Bound(forward_heap, top, upper_bound)
        \/ /\ reverse_heap' = Query!DeleteAll(Rest(reverse_heap, top)) /\ upper_bound' = upper_bound
           /\ Query!Scaled(top.weight + min_edge_offset) > upper_bound
  BY <1>1, AlternativeStepIs
<1> HIDE DEF S, Q
<1>3. CASE /\ Settles("reverse", reverse_heap, top, reverse_heap')
           /\ upper_bound' = Query!Bound(forward_heap, top, upper_bound)
  <2>1. Searching(S, Q, forward_heap, reverse_heap', upper_bound', min_edge_offset)
    BY <1>0, <1>3, SettlesReverse
  <2> QED
    BY <1>0, <1>1, <2>1, ActiveNext DEF S, Q, Query!AlternativeTurn, Query!Turn, Searches, Ended
<1>4. CASE /\ reverse_heap' = Query!DeleteAll(Rest(reverse_heap, top)) /\ upper_bound' = upper_bound
           /\ Query!Scaled(top.weight + min_edge_offset) > upper_bound
  <2> DEFINE x == top.weight + min_edge_offset
  <2>1. reverse_heap \subseteq HeapNodes /\ upper_bound \in Int /\ min_edge_offset \in Int
    BY <1>0 DEF Searching, SoundHeap
  <2>2. x \in Int
    BY <2>1, TopIs DEF HeapNodes
  <2>3. Query!Scaled(x) > upper_bound
    BY <1>4
  <2> HIDE DEF x
  <2>4. upper_bound < x \/ upper_bound < 0
    BY <2>1, <2>2, <2>3, ScaledIs
  <2>5. Searching(S, Q, forward_heap, reverse_heap', upper_bound, min_edge_offset)
    BY <1>0, <1>4, <2>4, StopsReverse DEF x
  <2> QED
    BY <1>0, <1>1, <1>4, <2>5, ActiveNext DEF S, Q, Query!AlternativeTurn, Query!Turn, Searches, Ended
<1> QED
  BY <1>2, <1>3, <1>4

\* What the loop over the legs keeps.
Journeying ==
    /\ {"current_leg", "second", "found1", "distance1", "distance2"} \subseteq DOMAIN journey
    /\ journey.current_leg \in Nat /\ journey.distance1 \in Int /\ journey.distance2 \in Int
    /\ journey.second => journey.found1.upper_bound \in Int

\* A leg has two locations.
OnLeg == journey.current_leg + 2 <= Len(request.phantoms)

\* What is being answered.
Engaged ==
    /\ request.phantoms \in Seq(Phantoms) /\ Journeying
    /\ turn \in Searches => Active
    /\ turn = "done" => Ended
    /\ turn = "none" => journey.current_leg = 0
    /\ turn = "idle" => Len(request.phantoms) >= 2
    /\ turn \in {"idle"} \cup Searches /\ request.service = "route" => OnLeg

\* Nothing has been asked yet.
LEMMA InitEngaged ==
    ASSUME Query!EngineInit
    PROVE  Engaged /\ turn = "none"
<1>1. /\ turn = "none" /\ request.phantoms = <<>> /\ journey = Query!StartOfJourney
  BY DEF Query!EngineInit, Query!SearchInit, Query!NoRequest
<1>2. Journeying /\ journey.current_leg = 0
  BY <1>1 DEF Journeying, Query!StartOfJourney
<1>3. request.phantoms \in Seq(Phantoms)
  BY <1>1
<1> QED
  BY <1>1, <1>2, <1>3 DEF Engaged, Searches

\* A request is accepted.
LEMMA AcceptEngaged ==
    ASSUME Engaged, NEW r, Query!Accept(r), r.phantoms \in Seq(Phantoms)
    PROVE  Engaged' /\ turn' # "none"
<1>1. /\ turn = "none" /\ request' = r /\ UNCHANGED journey
      /\ turn' = IF Len(r.phantoms) < 2 THEN "refused" ELSE "idle"
  BY DEF Query!Accept
<1>2. Len(r.phantoms) \in Nat
  OBVIOUS
<1>3. Journeying' /\ journey'.current_leg = 0
  BY <1>1 DEF Journeying, Engaged
<1>4. turn' \notin Searches /\ turn' # "done" /\ turn' # "none"
  BY <1>1 DEF Searches
<1>5. turn' = "idle" => Len(request'.phantoms) >= 2
  BY <1>1, <1>2
<1>6. turn' = "idle" => OnLeg'
  BY <1>1, <1>2, <1>3, <1>5 DEF OnLeg
<1> QED
  BY <1>1, <1>3, <1>4, <1>5, <1>6 DEF Engaged

\* Requests are well-formed.
LEMMA HandleEngaged ==
    ASSUME Engaged, Query!HandleViaRoute \/ Query!HandleTable
    PROVE  Engaged' /\ turn' # "none"
<1>1. \A r \in Requests : /\ r.phantoms \in Seq(Phantoms)
                          /\ r = [service |-> r.service, phantoms |-> r.phantoms, uturns |-> r.uturns]
  BY RequestsAssumption
<1>2. CASE Query!HandleTable
  <2>1. PICK r \in Requests : Query!Accept(r)
    BY <1>2 DEF Query!HandleTable
  <2> QED
    BY <1>1, <2>1, AcceptEngaged
<1>3. CASE Query!HandleViaRoute
  <2>1. PICK r \in Requests :
          Query!Accept([r EXCEPT !.service = IF Len(r.phantoms) > 2 THEN "route" ELSE @])
    BY <1>3 DEF Query!HandleViaRoute
  <2> DEFINE q == [r EXCEPT !.service = IF Len(r.phantoms) > 2 THEN "route" ELSE @]
  <2>2. q.phantoms = r.phantoms
    BY <1>1
  <2>3. Query!Accept(q)
    BY <2>1
  <2> HIDE DEF q
  <2> QED
    BY <1>1, <2>2, <2>3, AcceptEngaged
<1> QED
  BY <1>2, <1>3

\* The nodes from which a leg starts, with the length of the route so far.
LEMMA LegSourceIs ==
    ASSUME Engaged, OnLeg
    PROVE  Places(Query!LegSource) /\ Query!TargetPhantom \in Phantoms
<1>0. /\ request.phantoms \in Seq(Phantoms) /\ journey.current_leg \in Nat
      /\ journey.distance1 \in Int /\ journey.distance2 \in Int
  BY DEF Engaged, Journeying
<1>1. /\ journey.current_leg + 1 \in 1 .. Len(request.phantoms)
      /\ journey.current_leg + 2 \in 1 .. Len(request.phantoms)
  BY <1>0 DEF OnLeg
<1> DEFINE p == Query!SourcePhantom
<1>2. p \in Phantoms /\ Query!TargetPhantom \in Phantoms
  BY <1>0, <1>1 DEF Query!SourcePhantom, Query!TargetPhantom
<1> HIDE DEF p
<1>3. p.forward_offset \in Nat /\ p.reverse_offset \in Nat
  BY <1>2, PhantomIs
<1> DEFINE a == p.forward_offset - (IF Query!allow_u_turn THEN 0 ELSE journey.distance1)
           b == p.reverse_offset - (IF Query!allow_u_turn THEN 0 ELSE journey.distance2)
<1>4. a \in Int /\ b \in Int
  BY <1>0, <1>3
<1>5. Query!LegSource \subseteq Query!Existing(p.forward, a) \cup Query!Existing(p.reverse, b)
  BY DEF Query!LegSource, p
<1> HIDE DEF a, b
<1> QED
  BY <1>2, <1>4, <1>5, PlacesAre

\* A direction of a location is a goal.
LEMMA TargetIs ==
    ASSUME NEW p \in Phantoms
    PROVE  /\ Goals(Query!Existing(p.forward, p.forward_offset))
           /\ Goals(Query!Existing(p.reverse, p.reverse_offset))
           /\ Goals(Points(p))
<1> DEFINE a == p.forward_offset
           b == p.reverse_offset
<1>1. a \in Nat /\ b \in Nat /\ a \in Int /\ b \in Int
  BY PhantomIs
<1>2. \A S : S \subseteq Query!Existing(p.forward, a) \cup Query!Existing(p.reverse, b) => Goals(S)
  <2> HIDE DEF a, b
  <2> QED
    BY <1>1, PlacesAre
<1>3. Points(p) = Query!Existing(p.forward, a) \cup Query!Existing(p.reverse, b)
  BY DEF Points
<1> QED
  BY <1>2, <1>3

\* A search of a leg begins.
LEMMA FillEngaged ==
    ASSUME Served, Engaged, UNCHANGED <<edges, input_edge_list>>,
           NEW S, NEW Q, Places(S), Goals(Q), Query!FillHeaps([source |-> S, target |-> Q])
    PROVE  /\ Active' /\ leg'.source = S /\ leg'.target = Q
           /\ S = {} => Query!Open(forward_heap') = {}
           /\ Q = {} => Query!Open(reverse_heap') = {}
<1> DEFINE l == [source |-> S, target |-> Q]
<1>1. l.source = S /\ l.target = Q
  OBVIOUS
<1>2. leg' = l /\ Query!FillHeaps(l)
  BY DEF Query!FillHeaps
<1>3. (S = {} => forward_heap' = {}) /\ (Q = {} => reverse_heap' = {})
  BY DEF Query!FillHeaps
<1> HIDE DEF l
<1>4. Searching(S, Q, forward_heap', reverse_heap', upper_bound', min_edge_offset')
  BY <1>1, <1>2, FilledSearches
<1>5. Active'
  BY <1>1, <1>2, <1>4, ActiveNext
<1> QED
  BY <1>1, <1>2, <1>3, <1>5 DEF Query!Open

\* The first search of a leg.
LEMMA StartLegEngaged ==
    ASSUME Served, Engaged, UNCHANGED <<edges, input_edge_list>>, Query!StartLeg
    PROVE  Engaged' /\ turn' # "none"
<1> DEFINE S == Query!LegSource
           Q == Query!Existing(Query!TargetPhantom.forward, Query!TargetPhantom.forward_offset)
<1>1. /\ turn = "idle" /\ request.service = "route" /\ UNCHANGED <<request, journey>>
      /\ Query!FillHeaps([source |-> S, target |-> Q]) /\ turn' = Query!FirstTurn(leg')
  BY DEF Query!StartLeg
<1>2. OnLeg
  BY <1>1 DEF Engaged
<1>3. Places(S) /\ Goals(Q)
  BY <1>2, LegSourceIs, TargetIs
<1> HIDE DEF S, Q
<1>4. /\ Active' /\ leg'.source = S /\ leg'.target = Q
      /\ S = {} => Query!Open(forward_heap') = {}
      /\ Q = {} => Query!Open(reverse_heap') = {}
  BY <1>1, <1>3, FillEngaged
<1>5. turn' \in Searches /\ (turn' = "done" => Ended') /\ turn' # "idle" /\ turn' # "none"
  BY <1>1, <1>4 DEF Query!FirstTurn, Searches, Ended
<1>6. Journeying' /\ OnLeg' /\ request'.phantoms \in Seq(Phantoms)
  BY <1>1, <1>2 DEF Journeying, OnLeg, Engaged
<1> QED
  BY <1>4, <1>5, <1>6 DEF Engaged

\* The second search of a leg; the length that the first one found is kept.
LEMMA SecondTargetEngaged ==
    ASSUME Served, Engaged, UNCHANGED <<edges, input_edge_list>>, Query!SearchSecondTarget
    PROVE  Engaged' /\ turn' # "none"
<1> DEFINE S == Query!LegSource
           Q == Query!Existing(Query!TargetPhantom.reverse, Query!TargetPhantom.reverse_offset)
           found == Query!Found
<1>1. /\ turn = "done" /\ request.service = "route" /\ UNCHANGED request
      /\ journey' = [journey EXCEPT !.second = TRUE, !.found1 = found]
      /\ Query!FillHeaps([source |-> S, target |-> Q])
      /\ turn' = IF leg'.target = {} THEN "done" ELSE Query!FirstTurn(leg')
  BY DEF Query!SearchSecondTarget
<1>2. OnLeg /\ Active /\ Journeying /\ request.phantoms \in Seq(Phantoms)
  BY <1>1 DEF Engaged, Searches
<1>3. Places(S) /\ Goals(Q)
  BY <1>2, LegSourceIs, TargetIs
<1>4. found.upper_bound \in Int
  BY <1>2 DEF Active, Searching, Query!Found
<1> HIDE DEF S, Q, found
<1>5. /\ Active' /\ leg'.source = S /\ leg'.target = Q
      /\ S = {} => Query!Open(forward_heap') = {}
      /\ Q = {} => Query!Open(reverse_heap') = {}
  BY <1>1, <1>3, FillEngaged
<1>6. turn' \in Searches /\ (turn' = "done" => Ended') /\ turn' # "idle" /\ turn' # "none"
  BY <1>1, <1>5 DEF Query!FirstTurn, Searches, Ended
<1>7. /\ DOMAIN journey' = DOMAIN journey /\ journey'.current_leg = journey.current_leg
      /\ journey'.distance1 = journey.distance1 /\ journey'.distance2 = journey.distance2
      /\ journey'.found1 = found
  BY <1>1, <1>2 DEF Journeying
<1>8. Journeying'
  BY <1>2, <1>4, <1>7 DEF Journeying
<1>9. OnLeg' /\ request'.phantoms \in Seq(Phantoms)
  BY <1>1, <1>2, <1>7 DEF OnLeg
<1> QED
  BY <1>5, <1>6, <1>8, <1>9 DEF Engaged

\* Both searches of a leg have ended.
LEMMA FinishLegEngaged ==
    ASSUME Engaged, Query!FinishLeg
    PROVE  Engaged' /\ turn' # "none"
<1> DEFINE found == Query!Found
           found1 == journey.found1
           leg1 == Query!Replaced(found1, found)
           leg2 == Query!Replaced(found, leg1)
           j == Query!Joined(leg1, leg2)
           last == journey.current_leg + 2 = Len(request.phantoms)
<1>1. turn = "done" /\ request.service = "route" /\ journey.second /\ UNCHANGED request
  BY DEF Query!FinishLeg
<1>2. \/ journey' = [journey EXCEPT !.status = "no route"] /\ turn' = "answered"
      \/ /\ journey'.current_leg = journey.current_leg + 1 /\ ~journey'.second
         /\ journey'.distance1 = j.leg1.upper_bound /\ journey'.distance2 = j.leg2.upper_bound
         /\ {"current_leg", "second", "found1", "distance1", "distance2"} \subseteq DOMAIN journey'
         /\ turn' = IF last THEN "answered" ELSE "idle"
  <2> DEFINE Legs(a, b, c, d, e) ==
               [current_leg |-> journey.current_leg + 1, second |-> FALSE, found1 |-> <<>>,
                distance1 |-> j.leg1.upper_bound, distance2 |-> j.leg2.upper_bound,
                search_from_1st_node |-> a, search_from_2nd_node |-> b,
                packed_legs1 |-> c, packed_legs2 |-> d, status |-> e]
             last2 == Query!Last(j.leg2.packed)
             same_end == /\ ~Query!allow_u_turn /\ Query!Last(j.leg1.packed) = last2
                         /\ Query!IsBidirected(Query!TargetPhantom)
             next == Legs(found1.middle # SPECIAL_NODEID /\ ~(same_end /\ last2 = Query!TargetPhantom.reverse),
                          found.middle # SPECIAL_NODEID /\ ~(same_end /\ last2 = Query!TargetPhantom.forward),
                          Append(j.legs1, j.leg1.packed), Append(j.legs2, j.leg2.packed),
                          IF last THEN "route" ELSE "running")
  <2>0. \/ journey' = [journey EXCEPT !.status = "no route"] /\ turn' = "answered"
        \/ journey' = next /\ turn' = IF last THEN "answered" ELSE "idle"
    BY Zenon DEF Query!FinishLeg
  <2>1. \/ journey' = [journey EXCEPT !.status = "no route"] /\ turn' = "answered"
        \/ /\ \E a, b, c, d, e : journey' = Legs(a, b, c, d, e)
           /\ turn' = IF last THEN "answered" ELSE "idle"
    <3> HIDE DEF Legs
    <3> QED
      BY <2>0, Zenon
  <2> HIDE DEF j, last
  <2>2. ASSUME NEW a, NEW b, NEW c, NEW d, NEW e, journey' = Legs(a, b, c, d, e)
        PROVE  /\ journey'.current_leg = journey.current_leg + 1 /\ ~journey'.second
               /\ journey'.distance1 = j.leg1.upper_bound /\ journey'.distance2 = j.leg2.upper_bound
               /\ {"current_leg", "second", "found1", "distance1", "distance2"} \subseteq DOMAIN journey'
    BY <2>2
  <2> HIDE DEF Legs
  <2> QED
    BY <2>1, <2>2
<1>3. OnLeg /\ Active /\ Journeying /\ request.phantoms \in Seq(Phantoms)
  BY <1>1 DEF Engaged, Searches
<1>4. found.upper_bound \in Int
  BY <1>3 DEF Active, Searching, Query!Found
<1>5. found1.upper_bound \in Int
  BY <1>1, <1>3 DEF Journeying
<1>6. leg1 \in {found1, found} /\ leg2 \in {found, leg1}
  BY DEF Query!Replaced
<1> HIDE DEF found, found1
<1>7. leg1.upper_bound \in Int /\ leg2.upper_bound \in Int
  BY <1>4, <1>5, <1>6
<1> HIDE DEF leg1, leg2
<1>8. j.leg1 \in {leg1, leg2} /\ j.leg2 \in {leg1, leg2}
  BY DEF Query!Joined
<1>9. j.leg1.upper_bound \in Int /\ j.leg2.upper_bound \in Int
  BY <1>7, <1>8
<1> HIDE DEF j
<1>10. CASE journey' = [journey EXCEPT !.status = "no route"] /\ turn' = "answered"
  <2>1. Journeying'
    BY <1>3, <1>10 DEF Journeying
  <2> QED
    BY <1>1, <1>3, <1>10, <2>1 DEF Engaged, Searches
<1>11. CASE /\ journey'.current_leg = journey.current_leg + 1 /\ ~journey'.second
            /\ journey'.distance1 = j.leg1.upper_bound /\ journey'.distance2 = j.leg2.upper_bound
            /\ {"current_leg", "second", "found1", "distance1", "distance2"} \subseteq DOMAIN journey'
            /\ turn' = IF last THEN "answered" ELSE "idle"
  <2>1. journey.current_leg \in Nat
    BY <1>3 DEF Journeying
  <2>2. Journeying'
    BY <1>9, <1>11, <2>1 DEF Journeying
  <2>3. turn' \in {"answered", "idle"} /\ (turn' = "idle" => ~last)
    BY <1>11
  <2>4. turn' = "idle" => OnLeg' /\ Len(request'.phantoms) >= 2
    BY <1>1, <1>3, <1>11, <2>1, <2>3 DEF OnLeg
  <2> HIDE DEF last
  <2> QED
    BY <1>1, <1>3, <2>2, <2>3, <2>4 DEF Engaged, Searches
<1> QED
  BY <1>2, <1>10, <1>11

\* The search for alternatives begins.
LEMMA StartAlternativeEngaged ==
    ASSUME Served, Engaged, UNCHANGED <<edges, input_edge_list>>, Query!StartAlternative
    PROVE  Engaged' /\ turn' # "none"
<1> DEFINE S == Points(request.phantoms[1])
           Q == Points(request.phantoms[2])
<1>1. /\ turn = "idle" /\ request.service = "alternative" /\ UNCHANGED <<request, journey>>
      /\ Query!FillHeaps([source |-> S, target |-> Q])
      /\ turn' = IF leg'.source # {} THEN "alt forward"
                 ELSE IF leg'.target # {} THEN "alt reverse" ELSE "done"
  BY DEF Query!StartAlternative, Points
<1>2. request.phantoms \in Seq(Phantoms) /\ Len(request.phantoms) >= 2 /\ Journeying
  BY <1>1 DEF Engaged
<1>3. request.phantoms[1] \in Phantoms /\ request.phantoms[2] \in Phantoms
  BY <1>2
<1>4. Places(S) /\ Goals(Q)
  BY <1>3, TargetIs DEF Goals
<1> HIDE DEF S, Q
<1>5. /\ Active' /\ leg'.source = S /\ leg'.target = Q
      /\ S = {} => Query!Open(forward_heap') = {}
      /\ Q = {} => Query!Open(reverse_heap') = {}
  BY <1>1, <1>4, FillEngaged
<1>6. turn' \in Searches /\ (turn' = "done" => Ended') /\ turn' # "idle" /\ turn' # "none"
  BY <1>1, <1>5 DEF Searches, Ended
<1>7. Journeying' /\ request'.phantoms \in Seq(Phantoms) /\ request'.service # "route"
  BY <1>1, <1>2 DEF Journeying
<1> QED
  BY <1>5, <1>6, <1>7 DEF Engaged

\* The searches of a table concern no leg.
TableStep ==
    \/ Query!StartTable \/ Query!BackwardRoutingStep \/ Query!ForwardRoutingStep \/ Query!NextLocation

\* They change nothing else of what is being answered.
LEMMA TableEngaged ==
    ASSUME Engaged, TableStep
    PROVE  Engaged' /\ turn' # "none"
<1>1. /\ turn' \in {"backward step", "forward step", "answered"} /\ UNCHANGED <<request, journey>>
  BY DEF TableStep, Query!StartTable, Query!BackwardRoutingStep, Query!ForwardRoutingStep, Query!NextLocation
<1>2. Journeying' /\ request'.phantoms \in Seq(Phantoms)
  BY <1>1 DEF Journeying, Engaged
<1> QED
  BY <1>1, <1>2 DEF Engaged, Searches

\* A step of a search.
LEMMA RoutingEngaged ==
    ASSUME Served, Engaged, UNCHANGED <<edges, input_edge_list>>,
           (Query!RoutingStep /\ UNCHANGED <<request, journey>>)
             \/ Query!AlternativeStepForward \/ Query!AlternativeStepReverse
    PROVE  Engaged' /\ turn' # "none"
<1>1. turn \in Searches /\ turn \notin {"idle", "done", "none"} /\ UNCHANGED <<request, journey>>
  BY DEF Query!RoutingStep, Query!RoutingStepForward, Query!RoutingStepReverse,
         Query!AlternativeStepForward, Query!AlternativeStepReverse, Searches
<1>2. Active
  BY <1>1 DEF Engaged
<1>3. Active' /\ turn' \in Searches /\ (turn' = "done" => Ended')
  BY <1>2, RoutingForward, RoutingReverse, AlternativeForward, AlternativeReverse DEF Query!RoutingStep
<1>4. Journeying' /\ request'.phantoms \in Seq(Phantoms) /\ (request'.service = "route" => OnLeg')
  BY <1>1 DEF Journeying, Engaged, OnLeg
<1>5. turn' \notin {"idle", "none"}
  BY <1>3 DEF Searches
<1> QED
  BY <1>3, <1>4, <1>5 DEF Engaged

\* The choice of an alternative changes no search.
LEMMA SelectEngaged ==
    ASSUME Engaged, Query!SelectAlternative
    PROVE  Engaged' /\ turn' # "none"
<1>1. turn' = "answered" /\ UNCHANGED <<request, journey>>
  BY DEF Query!SelectAlternative
<1>2. Journeying' /\ request'.phantoms \in Seq(Phantoms)
  BY <1>1 DEF Journeying, Engaged
<1> QED
  BY <1>1, <1>2 DEF Engaged, Searches

-----------------------------------------------------------------------------
(* Every search finds the best way *)

\* The inductive invariant.
Planning ==
    /\ Hierarchy /\ Engaged
    /\ loaded => Loaded
    /\ turn # "none" => Loaded

\* It holds initially.
LEMMA InitPlanning == PlanInit => Planning
<1> SUFFICES ASSUME PlanInit PROVE Planning
  OBVIOUS
<1>1. Hierarchy /\ Engaged /\ turn = "none" /\ query_graph = Query!NoGraph
  BY InitHierarchy, InitEngaged DEF PlanInit
<1> QED
  BY <1>1 DEF Planning, loaded

\* What is being answered stays when only the hierarchy is worked on.
LEMMA EngagedStays ==
    ASSUME Engaged, UNCHANGED search, turn # "none" => UNCHANGED <<edges, input_edge_list>>
    PROVE  Engaged'
<1>1. /\ UNCHANGED <<leg, forward_heap, reverse_heap, upper_bound, min_edge_offset, turn, request, journey>>
  BY DEF search
<1>2. Journeying' /\ request'.phantoms \in Seq(Phantoms)
  BY <1>1 DEF Engaged, Journeying
<1>3. turn \in Searches => Active'
  <2>1. SUFFICES ASSUME turn \in Searches PROVE Active'
    OBVIOUS
  <2>2. Active /\ UNCHANGED <<edges, input_edge_list>>
    BY <2>1 DEF Engaged, Searches
  <2> QED
    BY <1>1, <2>2, ActiveNext DEF Active
<1>4. (turn = "done" => Ended') /\ (OnLeg => OnLeg')
  BY <1>1 DEF Engaged, Ended, OnLeg
<1> QED
  BY <1>1, <1>2, <1>3, <1>4 DEF Engaged

\* The steps of the engine keep what it is doing.
LEMMA StepEngaged ==
    ASSUME Served, Engaged, UNCHANGED <<edges, input_edge_list>>,
           Query!HandleViaRoute \/ Query!HandleTable \/ Query!EngineStep \/ Query!SelectAlternative
    PROVE  Engaged' /\ turn' # "none" /\ UNCHANGED query_graph
<1>1. CASE Query!HandleViaRoute \/ Query!HandleTable
  <2>1. UNCHANGED query_graph
    BY <1>1 DEF Query!HandleViaRoute, Query!HandleTable, Query!Accept
  <2> QED
    BY <1>1, <2>1, HandleEngaged
<1>2. CASE Query!SelectAlternative
  <2>1. UNCHANGED query_graph
    BY <1>2 DEF Query!SelectAlternative
  <2> QED
    BY <1>2, <2>1, SelectEngaged
<1>3. CASE Query!RoutingStep /\ UNCHANGED <<request, journey>>
  <2>1. UNCHANGED query_graph
    BY <1>3 DEF Query!RoutingStep, Query!RoutingStepForward, Query!RoutingStepReverse
  <2> QED
    BY <1>3, <2>1, RoutingEngaged
<1>4. CASE Query!AlternativeStepForward \/ Query!AlternativeStepReverse
  <2>1. UNCHANGED query_graph
    BY <1>4 DEF Query!AlternativeStepForward, Query!AlternativeStepReverse
  <2> QED
    BY <1>4, <2>1, RoutingEngaged
<1>5. CASE Query!StartLeg \/ Query!SearchSecondTarget \/ Query!FinishLeg \/ Query!StartAlternative
  <2>1. UNCHANGED query_graph
    BY <1>5 DEF Query!StartLeg, Query!SearchSecondTarget, Query!FinishLeg, Query!StartAlternative
  <2> QED
    BY <1>5, <2>1, StartLegEngaged, SecondTargetEngaged, FinishLegEngaged, StartAlternativeEngaged
<1>6. CASE TableStep
  <2>1. UNCHANGED query_graph
    BY <1>6 DEF TableStep, Query!StartTable, Query!BackwardRoutingStep, Query!ForwardRoutingStep,
                Query!NextLocation
  <2> QED
    BY <1>6, <2>1, TableEngaged
<1> QED
  BY <1>1, <1>2, <1>3, <1>4, <1>5, <1>6 DEF Query!EngineStep, TableStep

\* Every step preserves it.
LEMMA NextPlanning == Planning /\ [PlanNext]_planvars => Planning'
<1> SUFFICES ASSUME Planning, [PlanNext]_planvars PROVE Planning'
  OBVIOUS
<1>0. Hierarchy /\ Engaged /\ (loaded => Loaded) /\ (turn # "none" => Loaded)
  BY DEF Planning
<1>1. CASE [Next]_vars /\ UNCHANGED <<query_graph, search>>
  <2>1. Hierarchy' /\ (built => UNCHANGED vars)
    BY <1>0, <1>1, NextHierarchy
  <2>2. turn # "none" => UNCHANGED vars
    BY <1>0, <2>1 DEF Loaded
  <2>3. Engaged'
    BY <1>0, <1>1, <2>2, EngagedStays DEF vars
  <2>4. Loaded => Loaded'
    BY <1>1, <2>1 DEF Loaded, vars
  <2>5. turn' = turn /\ (loaded' <=> loaded)
    BY <1>1 DEF search, loaded
  <2> QED
    BY <1>0, <2>1, <2>3, <2>4, <2>5 DEF Planning
<1>2. CASE WriteGraph
  <2>1. UNCHANGED <<vars, search>> /\ built /\ query_graph' = Query!SerializedGraph(edges, number_of_nodes)
    BY <1>2 DEF WriteGraph
  <2>2. Hierarchy'
    BY <1>0, <2>1, NextHierarchy
  <2>3. Engaged'
    BY <1>0, <2>1, EngagedStays DEF vars
  <2>4. Loaded'
    BY <2>1 DEF Loaded, vars
  <2> QED
    BY <2>2, <2>3, <2>4 DEF Planning
<1>3. CASE HandleRequest \/ SearchStep \/ SelectAlternative
  <2>1. /\ loaded /\ UNCHANGED vars
        /\ Query!HandleViaRoute \/ Query!HandleTable \/ Query!EngineStep \/ Query!SelectAlternative
    BY <1>3 DEF HandleRequest, SearchStep, SelectAlternative
  <2>2. Loaded /\ Served /\ UNCHANGED <<edges, input_edge_list>>
    BY <1>0, <2>1, LoadedServes DEF vars
  <2>3. Engaged' /\ turn' # "none" /\ UNCHANGED query_graph
    BY <1>0, <2>1, <2>2, StepEngaged
  <2>4. Hierarchy'
    BY <1>0, <2>1, NextHierarchy
  <2>5. Loaded'
    BY <2>1, <2>2, <2>3 DEF Loaded, vars
  <2> QED
    BY <2>3, <2>4, <2>5 DEF Planning
<1> QED
  BY <1>1, <1>2, <1>3 DEF PlanNext, Prepare, planvars

\* It says that the search is over when the bound is the length of the best way.
LEMMA PlanningFinds == Planning => ShortestFound
<1> SUFFICES ASSUME Planning, turn = "done"
             PROVE  IsBest(upper_bound, Shortest(InputArcs), leg.source, leg.target)
  BY DEF ShortestFound
<1>1. Served
  BY LoadedServes DEF Planning
<1>2. Active /\ Ended
  BY DEF Planning, Engaged, Searches
<1> QED
  BY <1>1, <1>2, SearchingEnds DEF Active, Ended

\* Every point-to-point search returns the length of a shortest route of the input graph:
\* whatever the graph and the locations are, in whatever order nodes were contracted and
\* entries of equal weight are settled, and although both searches only go upwards, stall
\* at nodes with a shorter way and stop at the bound.
THEOREM SearchesFindShortest == PlanSpec => []ShortestFound
BY InitPlanning, NextPlanning, PlanningFinds, PTL DEF PlanSpec

-----------------------------------------------------------------------------
(* The table of distances *)

\* The places of a location of the request.
At(i) == Points(request.phantoms[i])
Locations == 1 .. Len(request.phantoms)

\* A node that a search from the targets at j gets to, and how far it is.
Sought(j, m, G) ==
    /\ Far(Opposite, FromTargets(At(j)), m, G)
    /\ \E t \in At(j), x \in Budgets : Walk(BackwardArcs(edges), t.node, m, x) /\ t.offset + x <= G

\* A bucket, as an entry of the heap from which it comes.
AsEntry(b) == [node |-> b.node, weight |-> b.distance, parent |-> b.node, removed |-> TRUE]

\* Buckets are no lighter than the walks, and entries of the table than the best ways.
GoodBuckets(buckets) ==
    \A b \in buckets : /\ b.target_id \in Locations /\ b.node \in NodeIDs /\ b.distance \in Int
                       /\ FromStart(Opposite, FromTargets(At(b.target_id)), AsEntry(b))
GoodRows(rows) ==
    /\ rows \in [Locations -> [Locations -> Int]]
    /\ \A i, j \in Locations : Above(rows[i][j], Best(At(i), At(j)), Limit(At(i)))

\* The search from the targets at j left a bucket.
Known(buckets, j, m, G) == \E b \in buckets : b.target_id = j /\ b.node = m /\ b.distance <= G

\* The searches from the targets up to here have left their buckets, or this one will.
Collecting(here, buckets, rows, H) ==
    /\ here \in Locations /\ GoodBuckets(buckets) /\ GoodRows(rows)
    /\ SoundHeap(Opposite, FromTargets(At(here)), H)
    /\ \A j \in 1 .. here : \A m, G : Sought(j, m, G) =>
         Known(buckets, j, m, G) \/ (j = here /\ Pending(BackwardArcs(edges), H, m, G))

\* The best way between two locations is in the table.
Exactly(rows, i, j) ==
    0 <= Best(At(i), At(j)) /\ Best(At(i), At(j)) < Limit(At(i)) => rows[i][j] <= Best(At(i), At(j))

\* The search from the sources at i will find the way to j.
Coming(H, i, j) ==
    \E m, F, G : /\ Meeting(At(i), At(j), m, F, G) /\ Sought(j, m, G)
                 /\ Pending(ForwardArcs(edges), H, m, F)

\* The rows of the sources up to here are exact, or this one will be.
Entering(here, buckets, rows, H) ==
    /\ here \in Locations /\ GoodBuckets(buckets) /\ GoodRows(rows)
    /\ SoundHeap(InputArcs, FromSources(At(here)), H)
    /\ \A j \in Locations : \A m, G : Sought(j, m, G) => Known(buckets, j, m, G)
    /\ \A i \in 1 .. here, j \in Locations : Exactly(rows, i, j) \/ (i = here /\ Coming(H, i, j))

\* All rows are exact.
Filled(rows) == GoodRows(rows) /\ \A i, j \in Locations : Exactly(rows, i, j)

\* The locations of a request are places.
LEMMA LocationsAre ==
    ASSUME request.phantoms \in Seq(Phantoms), NEW i \in Locations
    PROVE  Places(At(i)) /\ Goals(At(i))
<1>1. request.phantoms[i] \in Phantoms
  BY DEF Locations
<1>2. Goals(At(i))
  BY <1>1, TargetIs DEF At
<1> QED
  BY <1>2 DEF Goals

\* The entries of a location, as a target or as a source.
LEMMA EntriesAre ==
    ASSUME NEW i \in Locations, request.phantoms \in Seq(Phantoms)
    PROVE  /\ Query!Entries(request.phantoms[i], 1) = StartHeap(FromTargets(At(i)))
           /\ Query!Entries(request.phantoms[i], -1) = StartHeap(FromSources(At(i)))
<1> DEFINE S == At(i)
<1>1. \A sign : Query!Entries(request.phantoms[i], sign) =
                  {Query!HeapNode(p.node, sign * p.offset, p.node) : p \in S}
  BY DEF Query!Entries, At, Points
<1>2. \A p \in S : 1 * p.offset = p.offset /\ (-1) * p.offset = -p.offset
  <2>1. \A p \in S : p.offset \in Int
    BY LocationsAre DEF Places
  <2> QED
    BY <2>1
<1>3. /\ StartHeap(FromTargets(S)) = {Query!HeapNode(p.node, p.offset, p.node) : p \in S}
      /\ StartHeap(FromSources(S)) = {Query!HeapNode(p.node, -p.offset, p.node) : p \in S}
  BY SourcesHeap, TargetsHeap
<1> HIDE DEF S
<1>4. {Query!HeapNode(p.node, 1 * p.offset, p.node) : p \in S} =
        {Query!HeapNode(p.node, p.offset, p.node) : p \in S}
  BY <1>2
<1>5. {Query!HeapNode(p.node, (-1) * p.offset, p.node) : p \in S} =
        {Query!HeapNode(p.node, -p.offset, p.node) : p \in S}
  BY <1>2
<1> QED
  BY <1>1, <1>3, <1>4, <1>5 DEF S

\* The search from the targets at j begins.
LEMMA CollectingStarts ==
    ASSUME Served, request.phantoms \in Seq(Phantoms), NEW here \in Locations, NEW buckets, NEW rows,
           GoodBuckets(buckets), GoodRows(rows),
           \A j \in 1 .. here - 1 : \A m, G : Sought(j, m, G) => Known(buckets, j, m, G)
    PROVE  Collecting(here, buckets, rows, StartHeap(FromTargets(At(here))))
<1> DEFINE P == FromTargets(At(here))
           H == StartHeap(P)
<1>0. here \in Nat /\ Opposite \in SUBSET Arcs
  BY OppositeIs DEF Locations, Served
<1>1. Places(At(here))
  BY LocationsAre
<1>2. SoundHeap(Opposite, P, H)
  BY <1>0, <1>1, StartSound, StartsAre, StartsDiffer
<1>3. ASSUME NEW m, NEW G, Sought(here, m, G) PROVE Pending(BackwardArcs(edges), H, m, G)
  <2>1. PICK t \in At(here), x \in Budgets :
          Walk(BackwardArcs(edges), t.node, m, x) /\ t.offset + x <= G
    BY <1>3 DEF Sought
  <2> DEFINE p == [node |-> t.node, key |-> t.offset]
  <2>2. p \in P /\ p.node = t.node /\ p.key = t.offset
    BY DEF FromTargets
  <2> HIDE DEF p, P
  <2> QED
    BY <2>1, <2>2, StartPending
<1>4. \A j \in 1 .. here : j = here \/ j \in 1 .. here - 1
  BY <1>0
<1> HIDE DEF H, P
<1>5. \A j \in 1 .. here : \A m, G : Sought(j, m, G) =>
        Known(buckets, j, m, G) \/ (j = here /\ Pending(BackwardArcs(edges), H, m, G))
  BY <1>3, <1>4
<1> QED
  BY <1>2, <1>5 DEF Collecting, H, P

\* The search from the targets leaves a bucket at every node it settles.
LEMMA CollectingGoesOn ==
    ASSUME Served, request.phantoms \in Seq(Phantoms), NEW here, NEW buckets, NEW rows, NEW H,
           Collecting(here, buckets, rows, H), NEW top, top \in Query!Minima(H),
           NEW K, Settles("reverse", H, top, K)
    PROVE  Collecting(here, buckets \cup {[node |-> top.node, target_id |-> here, distance |-> top.weight]},
                      rows, K)
<1> DEFINE P == FromTargets(At(here))
           R == BackwardArcs(edges)
           b == [node |-> top.node, target_id |-> here, distance |-> top.weight]
           all == buckets \cup {b}
<1>0. /\ here \in Locations /\ GoodBuckets(buckets) /\ GoodRows(rows) /\ SoundHeap(Opposite, P, H)
      /\ \A j \in 1 .. here : \A m, G : Sought(j, m, G) =>
           Known(buckets, j, m, G) \/ (j = here /\ Pending(R, H, m, G))
  BY DEF Collecting
<1>1. Starts(P) /\ Directed("reverse", R, Opposite)
  BY <1>0, LocationsAre, StartsAre, ReverseDirected
<1>2. SoundHeap(Opposite, P, K)
  BY <1>0, <1>1, SettlesSound
<1>3. top \in HeapNodes /\ top.node \in NodeIDs /\ top.weight \in Int /\ FromStart(Opposite, P, top)
  <2>1. H \subseteq HeapNodes
    BY <1>0 DEF SoundHeap
  <2>2. top \in HeapNodes
    BY <2>1, TopIs
  <2>3. FromStart(Opposite, P, top)
    BY <1>0, RestSound
  <2> QED
    BY <2>2, <2>3 DEF HeapNodes
<1>4. b.node = top.node /\ b.target_id = here /\ b.distance = top.weight
  OBVIOUS
<1>5. FromStart(Opposite, P, AsEntry(b))
  BY <1>3, <1>4 DEF FromStart, AsEntry
<1> HIDE DEF b
<1>6. GoodBuckets(all)
  BY <1>0, <1>3, <1>4, <1>5 DEF GoodBuckets
<1>7. ASSUME NEW j \in 1 .. here, NEW m, NEW G, Sought(j, m, G)
      PROVE  Known(all, j, m, G) \/ (j = here /\ Pending(R, K, m, G))
  <2>1. CASE Known(buckets, j, m, G)
    BY <2>1 DEF Known
  <2>2. CASE j = here /\ Pending(R, H, m, G)
    <3>1. Far(Opposite, P, m, G)
      BY <1>7, <2>2 DEF Sought
    <3>2. Pending(R, K, m, G) \/ (top.node = m /\ top.weight <= G)
      BY <1>0, <1>1, <2>2, <3>1, SettlesLeads
    <3>3. top.node = m /\ top.weight <= G => Known(all, j, m, G)
      BY <1>4, <2>2 DEF Known
    <3> QED
      BY <2>2, <3>2, <3>3
  <2> QED
    BY <1>0, <1>7, <2>1, <2>2
<1> HIDE DEF all, P, R
<1>8. Collecting(here, all, rows, K)
  BY <1>0, <1>2, <1>6, <1>7 DEF Collecting, P, R
<1> QED
  BY <1>8 DEF all, b

\* When the heap is empty, all buckets are there.
LEMMA CollectingEnds ==
    ASSUME NEW here, NEW buckets, NEW rows, NEW H, Collecting(here, buckets, rows, H), Query!Open(H) = {}
    PROVE  \A j \in 1 .. here : \A m, G : Sought(j, m, G) => Known(buckets, j, m, G)
<1>1. \A R, m, G : ~Pending(R, H, m, G)
  BY DEF Pending, Query!Open
<1> QED
  BY <1>1 DEF Collecting

\* The search from the sources at i begins.
LEMMA EnteringStarts ==
    ASSUME Served, request.phantoms \in Seq(Phantoms), NEW here \in Locations, NEW buckets, NEW rows,
           GoodBuckets(buckets), GoodRows(rows),
           \A j \in Locations : \A m, G : Sought(j, m, G) => Known(buckets, j, m, G),
           \A i \in 1 .. here - 1, j \in Locations : Exactly(rows, i, j)
    PROVE  Entering(here, buckets, rows, StartHeap(FromSources(At(here))))
<1> DEFINE P == FromSources(At(here))
           H == StartHeap(P)
<1>0. here \in Nat /\ InputArcs \in SUBSET Arcs
  BY DEF Locations, Served
<1>1. Places(At(here))
  BY LocationsAre
<1>2. SoundHeap(InputArcs, P, H)
  BY <1>0, <1>1, StartSound, StartsAre, StartsDiffer
<1>3. ASSUME NEW j \in Locations PROVE Exactly(rows, here, j) \/ Coming(H, here, j)
  <2>1. SUFFICES ASSUME 0 <= Best(At(here), At(j)), Best(At(here), At(j)) < Limit(At(here))
                 PROVE  Coming(H, here, j)
    BY DEF Exactly
  <2>2. Goals(At(j)) /\ Places(At(j))
    BY LocationsAre
  <2>3. PICK m, F, G : Meeting(At(here), At(j), m, F, G) /\ Passing(At(here), At(j), m, F, G)
    BY <1>1, <2>1, <2>2, MeetingExists
  <2>4. PICK s \in At(here), t \in At(j), i \in Budgets, x \in Budgets :
          /\ Walk(ForwardArcs(edges), s.node, m, i) /\ F = i - s.offset
          /\ Walk(BackwardArcs(edges), t.node, m, x) /\ G = x + t.offset
    BY <2>3 DEF Passing
  <2>5. s.offset \in Int /\ t.offset \in Int /\ i \in Int /\ x \in Int
    BY <1>1, <2>2, ContractorAssumption DEF Places, Budgets
  <2>6. Sought(j, m, G)
    <3>1. t.offset + x <= G
      BY <2>4, <2>5
    <3> QED
      BY <2>3, <2>4, <3>1 DEF Sought, Meeting
  <2> DEFINE p == [node |-> s.node, key |-> -s.offset]
  <2>7. p \in P /\ p.node = s.node /\ p.key = -s.offset
    BY DEF FromSources
  <2> HIDE DEF p, P
  <2>8. p.key + i <= F
    BY <2>4, <2>5, <2>7
  <2>9. Pending(ForwardArcs(edges), H, m, F)
    BY <2>4, <2>7, <2>8, StartPending
  <2> QED
    BY <2>3, <2>6, <2>9 DEF Coming
<1>4. \A i \in 1 .. here : i = here \/ i \in 1 .. here - 1
  BY <1>0
<1> HIDE DEF H, P
<1>5. \A i \in 1 .. here, j \in Locations : Exactly(rows, i, j) \/ (i = here /\ Coming(H, i, j))
  BY <1>3, <1>4
<1> QED
  BY <1>2, <1>5 DEF Entering, H, P

\* A row after the buckets of a node were read.
LEMMA EnteredIs ==
    ASSUME NEW row \in [Locations -> Int], NEW near, \A b \in near : b.distance \in Int, NEW w \in Int
    PROVE  LET new == Query!Entered(row, near, w)
           IN  /\ new \in [Locations -> Int]
               /\ \A j \in Locations :
                    /\ new[j] <= row[j]
                    /\ new[j] = row[j] \/ \E b \in near : b.target_id = j /\ new[j] = b.distance + w
                    /\ \A b \in near : b.target_id = j /\ b.distance + w >= 0 => new[j] <= b.distance + w
<1> DEFINE new == Query!Entered(row, near, w)
           Sums(j) == {b.distance + w : b \in {c \in near : c.target_id = j}}
           M(j) == {row[j]} \cup {d \in Sums(j) : d >= 0}
<1>1. new = [j \in Locations |-> Query!Min(M(j))]
  BY DEF Query!Entered
<1>2. \A j, d : d \in Sums(j) <=> \E b \in near : b.target_id = j /\ d = b.distance + w
  OBVIOUS
<1>3. \A j, d : d \in M(j) <=> d = row[j] \/ (d \in Sums(j) /\ d >= 0)
  OBVIOUS
<1> HIDE DEF Sums, M, new
<1>4. ASSUME NEW j \in Locations
      PROVE  /\ Query!Min(M(j)) \in Int /\ Query!Min(M(j)) \in M(j)
             /\ \A d \in M(j) : Query!Min(M(j)) <= d
  <2>1. row[j] \in Int /\ row[j] \in M(j)
    BY <1>3
  <2>2. \A d \in M(j) : d \in Int
    BY <1>2, <1>3, <2>1
  <2> DEFINE c == IF row[j] < 0 THEN row[j] ELSE 0
  <2>3. c \in Int /\ \A d \in M(j) : c <= d
    BY <1>3, <2>1, <2>2
  <2> HIDE DEF c
  <2>4. Min(M(j)) \in M(j) /\ \A d \in M(j) : Min(M(j)) <= d
    BY <2>1, <2>2, <2>3, LeastIs
  <2> QED
    BY <2>2, <2>4, SameOperators
<1>5. new \in [Locations -> Int] /\ \A j \in Locations : new[j] = Query!Min(M(j))
  BY <1>1, <1>4
<1>6. ASSUME NEW j \in Locations
      PROVE  /\ new[j] <= row[j]
             /\ new[j] = row[j] \/ \E b \in near : b.target_id = j /\ new[j] = b.distance + w
             /\ \A b \in near : b.target_id = j /\ b.distance + w >= 0 => new[j] <= b.distance + w
  <2>1. new[j] \in M(j) /\ \A d \in M(j) : new[j] <= d
    BY <1>4, <1>5
  <2> QED
    BY <1>2, <1>3, <2>1
<1> QED
  BY <1>5, <1>6 DEF new

\* A bucket at the node that is settled gives the length of a way.
LEMMA BucketSums ==
    ASSUME Served, request.phantoms \in Seq(Phantoms), NEW i \in Locations, NEW buckets, GoodBuckets(buckets),
           NEW top \in HeapNodes, FromStart(InputArcs, FromSources(At(i)), top),
           NEW b \in buckets, b.node = top.node
    PROVE  Above(b.distance + top.weight, Best(At(i), At(b.target_id)), Limit(At(i)))
<1> DEFINE j == b.target_id
           S == At(i)
           Q == At(j)
           g == AsEntry(b)
           H == {top}
           O == {g}
<1>0. j \in Locations /\ b.node \in NodeIDs /\ b.distance \in Int /\ FromStart(Opposite, FromTargets(Q), g)
  BY DEF GoodBuckets
<1>1. g.node = b.node /\ g.weight = b.distance /\ g \in HeapNodes
  BY <1>0 DEF AsEntry, HeapNodes
<1> HIDE DEF g
<1>2. Places(S) /\ Goals(Q) /\ InputArcs \in SUBSET Arcs
  BY <1>0, LocationsAre DEF Served
<1>3. Weighed(InputArcs, FromSources(S), H) /\ Weighed(Opposite, FromTargets(Q), O)
  BY <1>0, <1>1 DEF Weighed
<1> HIDE DEF S, Q
<1>4. top \in H /\ g \in O
  OBVIOUS
<1> HIDE DEF H, O
<1>5. SumsAbove(O, H, Best(S, Q), Limit(S))
  BY <1>2, <1>3, SumsAre
<1>6. Above(g.weight + top.weight, Best(S, Q), Limit(S))
  BY <1>1, <1>4, <1>5 DEF SumsAbove
<1> QED
  BY <1>1, <1>6 DEF S, Q

\* The search from the sources reads the buckets of every node it settles.
LEMMA EnteringGoesOn ==
    ASSUME Served, request.phantoms \in Seq(Phantoms), NEW here, NEW buckets, NEW rows, NEW H,
           Entering(here, buckets, rows, H), NEW top, top \in Query!Minima(H),
           NEW K, Settles("forward", H, top, K)
    PROVE  LET near == {b \in buckets : b.node = top.node}
           IN  Entering(here, buckets,
                        [rows EXCEPT ![here] = Query!Entered(rows[here], near, top.weight)], K)
<1> DEFINE P == FromSources(At(here))
           R == ForwardArcs(edges)
           near == {b \in buckets : b.node = top.node}
           new == Query!Entered(rows[here], near, top.weight)
           next == [rows EXCEPT ![here] = new]
           B(j) == Best(At(here), At(j))
           L == Limit(At(here))
<1>0. /\ here \in Locations /\ GoodBuckets(buckets) /\ GoodRows(rows) /\ SoundHeap(InputArcs, P, H)
      /\ \A j \in Locations : \A m, G : Sought(j, m, G) => Known(buckets, j, m, G)
      /\ \A i \in 1 .. here, j \in Locations : Exactly(rows, i, j) \/ (i = here /\ Coming(H, i, j))
  BY DEF Entering
<1>1. Starts(P) /\ Directed("forward", R, InputArcs)
  BY <1>0, LocationsAre, StartsAre, ForwardDirected
<1>2. SoundHeap(InputArcs, P, K)
  BY <1>0, <1>1, SettlesSound
<1>3. top \in HeapNodes /\ top.weight \in Int /\ FromStart(InputArcs, P, top)
  <2>1. H \subseteq HeapNodes
    BY <1>0 DEF SoundHeap
  <2>2. top \in HeapNodes
    BY <2>1, TopIs
  <2>3. FromStart(InputArcs, P, top)
    BY <1>0, RestSound
  <2> QED
    BY <2>2, <2>3 DEF HeapNodes
<1>4. /\ rows \in [Locations -> [Locations -> Int]]
      /\ \A i, j \in Locations : Above(rows[i][j], Best(At(i), At(j)), Limit(At(i)))
  BY <1>0 DEF GoodRows
<1>5. \A b \in near : b \in buckets /\ b.node = top.node /\ b.distance \in Int
  BY <1>0 DEF GoodBuckets
<1>6. \A b \in near : Above(b.distance + top.weight, B(b.target_id), L)
  BY <1>0, <1>3, <1>5, BucketSums
<1>7. ASSUME NEW b \in buckets, b.node = top.node PROVE b \in near
  BY <1>7
<1> HIDE DEF near
<1>8. /\ new \in [Locations -> Int]
      /\ \A j \in Locations :
           /\ new[j] <= rows[here][j]
           /\ new[j] = rows[here][j] \/ \E b \in near : b.target_id = j /\ new[j] = b.distance + top.weight
           /\ \A b \in near : b.target_id = j /\ b.distance + top.weight >= 0 => new[j] <= b.distance + top.weight
  <2>1. rows[here] \in [Locations -> Int]
    BY <1>0, <1>4
  <2> QED
    BY <1>3, <1>5, <2>1, EnteredIs
<1> HIDE DEF new
<1>9. /\ next \in [Locations -> [Locations -> Int]] /\ next[here] = new
      /\ \A i \in Locations : i # here => next[i] = rows[i]
  BY <1>0, <1>4, <1>8
<1> HIDE DEF next
<1>10. ASSUME NEW i \in Locations, NEW j \in Locations
       PROVE  Above(next[i][j], Best(At(i), At(j)), Limit(At(i)))
  <2>1. CASE i # here
    BY <1>4, <1>9, <2>1
  <2>2. CASE i = here
    <3>1. Above(new[j], B(j), L)
      BY <1>0, <1>4, <1>6, <1>8
    <3> QED
      BY <1>9, <2>2, <3>1
  <2> QED
    BY <2>1, <2>2
<1>11. GoodRows(next)
  BY <1>9, <1>10 DEF GoodRows
<1>12. ASSUME NEW j \in Locations PROVE Exactly(next, here, j) \/ Coming(K, here, j)
  <2>0. B(j) \in Int /\ L \in Int /\ new[j] \in Int /\ rows[here][j] \in Int
    <3>1. B(j) \in Int /\ L \in Int
      BY <1>0, LocationsAre, BestIs, LimitIs DEF Served
    <3> QED
      BY <1>0, <1>4, <1>8, <3>1
  <2>1. SUFFICES ASSUME 0 <= B(j), B(j) < L, ~(new[j] <= B(j)) PROVE Coming(K, here, j)
    BY <1>9 DEF Exactly
  <2>2. ~Exactly(rows, here, j)
    <3> HIDE DEF B, L
    <3>1. ~(rows[here][j] <= B(j))
      BY <1>8, <2>0, <2>1
    <3> QED
      BY <2>1, <3>1 DEF Exactly, B, L
  <2>3. Coming(H, here, j)
    BY <1>0, <2>2 DEF Locations
  <2>4. PICK m, F, G : Meeting(At(here), At(j), m, F, G) /\ Sought(j, m, G) /\ Pending(R, H, m, F)
    BY <2>3 DEF Coming
  <2>5. Far(InputArcs, P, m, F) /\ F \in Int /\ G \in Int /\ F + G <= B(j)
    BY <2>4 DEF Meeting
  <2>6. Pending(R, K, m, F) \/ (top.node = m /\ top.weight <= F)
    BY <1>0, <1>1, <2>4, <2>5, SettlesLeads
  <2>7. ~(top.node = m /\ top.weight <= F)
    <3> SUFFICES ASSUME top.node = m, top.weight <= F PROVE FALSE
      OBVIOUS
    <3>1. PICK b \in buckets : b.target_id = j /\ b.node = m /\ b.distance <= G
      BY <1>0, <2>4 DEF Known
    <3>2. b \in near
      BY <1>7, <3>1
    <3>3. Above(b.distance + top.weight, B(j), L) /\ b.distance \in Int
      BY <1>5, <1>6, <3>1, <3>2
    <3> HIDE DEF B, L
    <3>4. b.distance + top.weight >= 0 /\ b.distance + top.weight <= B(j)
      BY <1>3, <2>0, <2>1, <2>5, <3>1, <3>3 DEF Above
    <3>5. new[j] <= b.distance + top.weight
      BY <1>8, <3>1, <3>2, <3>4
    <3> QED
      BY <1>3, <2>0, <2>1, <3>3, <3>4, <3>5
  <2> QED
    BY <2>4, <2>6, <2>7 DEF Coming
<1>13. ASSUME NEW i \in 1 .. here, NEW j \in Locations
       PROVE  Exactly(next, i, j) \/ (i = here /\ Coming(K, i, j))
  <2>1. CASE i = here
    BY <1>12, <2>1
  <2>2. CASE i # here
    <3>1. i \in Locations
      BY <1>0 DEF Locations
    <3>2. Exactly(rows, i, j)
      BY <1>0, <2>2
    <3> QED
      BY <1>9, <2>2, <3>1, <3>2 DEF Exactly
  <2> QED
    BY <2>1, <2>2
<1> HIDE DEF P
<1>14. Entering(here, buckets, next, K)
  BY <1>0, <1>2, <1>11, <1>13 DEF Entering, P
<1> QED
  BY <1>14 DEF next, new, near

\* When the heap is empty, the row is exact.
LEMMA EnteringEnds ==
    ASSUME NEW here, NEW buckets, NEW rows, NEW H, Entering(here, buckets, rows, H), Query!Open(H) = {}
    PROVE  \A i \in 1 .. here, j \in Locations : Exactly(rows, i, j)
<1>1. \A R, m, G : ~Pending(R, H, m, G)
  BY DEF Pending, Query!Open
<1> QED
  BY <1>1 DEF Entering, Coming

\* What a request for a table has done so far.
Tabling ==
    /\ turn \in {"backward step", "forward step"} =>
         {"location", "search_space_with_buckets", "result_table"} \subseteq DOMAIN table
    /\ turn = "backward step" =>
         Collecting(table.location, table.search_space_with_buckets, table.result_table, forward_heap)
    /\ turn = "forward step" =>
         Entering(table.location, table.search_space_with_buckets, table.result_table, forward_heap)
    /\ turn = "answered" /\ request.service = "table" => Filled(table.result_table)

\* The same, said of the next state.
TablingNext ==
    /\ turn' \in {"backward step", "forward step"} =>
         {"location", "search_space_with_buckets", "result_table"} \subseteq DOMAIN table'
    /\ turn' = "backward step" =>
         Collecting(table'.location, table'.search_space_with_buckets, table'.result_table, forward_heap')
    /\ turn' = "forward step" =>
         Entering(table'.location, table'.search_space_with_buckets, table'.result_table, forward_heap')
    /\ turn' = "answered" /\ request'.service = "table" => Filled(table'.result_table)

\* The hierarchy and the request stay while the table is filled.
LEMMA TablingStays ==
    ASSUME UNCHANGED <<edges, input_edge_list, request>>, TablingNext
    PROVE  Tabling'
<1>1. Locations' = Locations /\ \A i : At(i)' = At(i)
  BY DEF Locations, At
<1>2. InputArcs' = InputArcs
  BY DEF InputArcs
<1>3. Opposite' = Opposite
  BY <1>2 DEF Opposite
<1>4. \A i, j : Best(At(i), At(j))' = Best(At(i), At(j))
  BY <1>1, <1>2 DEF Best
<1>5. \A j, m, G : Sought(j, m, G)' <=> Sought(j, m, G)
  BY <1>1, <1>3 DEF Sought
<1>6. \A i, j, m, F, G : Meeting(At(i), At(j), m, F, G)' <=> Meeting(At(i), At(j), m, F, G)
  BY <1>1, <1>2, <1>3, <1>4 DEF Meeting
<1>7. \A rows, i, j : Exactly(rows, i, j)' <=> Exactly(rows, i, j)
  BY <1>1, <1>4 DEF Exactly
<1>8. \A H, i, j : Coming(H, i, j)' <=> Coming(H, i, j)
  BY <1>5, <1>6 DEF Coming
<1>9. \A buckets : GoodBuckets(buckets)' <=> GoodBuckets(buckets)
  BY <1>1, <1>3 DEF GoodBuckets
<1>10. \A rows : GoodRows(rows)' <=> GoodRows(rows)
  BY <1>1, <1>4 DEF GoodRows
<1>11. \A here, buckets, rows, H : Collecting(here, buckets, rows, H)' <=> Collecting(here, buckets, rows, H)
  BY <1>1, <1>3, <1>5, <1>9, <1>10 DEF Collecting
<1>12. \A here, buckets, rows, H : Entering(here, buckets, rows, H)' <=> Entering(here, buckets, rows, H)
  BY <1>1, <1>2, <1>5, <1>7, <1>8, <1>9, <1>10 DEF Entering
<1>13. \A rows : Filled(rows)' <=> Filled(rows)
  BY <1>1, <1>7, <1>10 DEF Filled
<1> QED
  BY <1>11, <1>12, <1>13 DEF Tabling, TablingNext

\* The first search of a table.
LEMMA StartTableTabling ==
    ASSUME Served, Engaged, Query!StartTable
    PROVE  TablingNext
<1> DEFINE n == Len(request.phantoms)
           rows == [i \in 1 .. n |-> [j \in 1 .. n |-> INT_MAX]]
<1>1. /\ turn = "idle" /\ turn' = "backward step"
      /\ table' = [location |-> 1, search_space_with_buckets |-> {}, result_table |-> rows]
      /\ forward_heap' = Query!Entries(request.phantoms[1], 1)
  BY DEF Query!StartTable
<1>2. request.phantoms \in Seq(Phantoms) /\ n \in Nat /\ n >= 2
  <2>1. request.phantoms \in Seq(Phantoms) /\ n >= 2
    BY <1>1 DEF Engaged
  <2> QED
    BY <2>1
<1>3. 1 \in Locations
  BY <1>2 DEF Locations
<1>4. INT_MAX \in Int
  BY ContractorAssumption
<1>5. rows \in [Locations -> [Locations -> Int]] /\ \A i, j \in Locations : rows[i][j] = INT_MAX
  BY <1>4 DEF Locations
<1> HIDE DEF rows
<1>6. \A i \in Locations : Limit(At(i)) <= INT_MAX
  BY <1>2, LocationsAre, LimitIs
<1>7. GoodRows(rows)
  BY <1>5, <1>6 DEF GoodRows, Above
<1>8. GoodBuckets({})
  BY DEF GoodBuckets
<1>9. forward_heap' = StartHeap(FromTargets(At(1)))
  BY <1>1, <1>2, <1>3, EntriesAre
<1>10. \A j \in 1 .. 1 - 1 : \A m, G : Sought(j, m, G) => Known({}, j, m, G)
  OBVIOUS
<1>11. Collecting(1, {}, rows, forward_heap')
  BY <1>2, <1>3, <1>7, <1>8, <1>9, <1>10, CollectingStarts
<1>12. /\ table'.location = 1 /\ table'.search_space_with_buckets = {} /\ table'.result_table = rows
       /\ {"location", "search_space_with_buckets", "result_table"} \subseteq DOMAIN table'
  BY <1>1
<1> QED
  BY <1>1, <1>11, <1>12 DEF TablingNext

\* Settling an entry of the table's heap.
LEMMA SettledIs ==
    ASSUME NEW top, NEW d
    PROVE  Settles(d, forward_heap, top, Query!Settled(top, d))
BY DEF Query!Settled, Settles, Rest, Gone

\* A search from the targets settles a node.
LEMMA BackwardTabling ==
    ASSUME Served, Engaged, Tabling, Query!BackwardRoutingStep
    PROVE  TablingNext
<1> DEFINE here == table.location
           buckets == table.search_space_with_buckets
           rows == table.result_table
<1>1. turn = "backward step" /\ turn' = "backward step"
  BY DEF Query!BackwardRoutingStep
<1>2. PICK top \in Query!Minima(forward_heap) :
        /\ forward_heap' = Query!Settled(top, "reverse")
        /\ table' = [table EXCEPT !.search_space_with_buckets =
                       @ \cup {[node |-> top.node, target_id |-> here, distance |-> top.weight]}]
  BY DEF Query!BackwardRoutingStep
<1>3. /\ Collecting(here, buckets, rows, forward_heap) /\ request.phantoms \in Seq(Phantoms)
      /\ {"location", "search_space_with_buckets", "result_table"} \subseteq DOMAIN table
  BY <1>1 DEF Tabling, Engaged
<1> DEFINE b == [node |-> top.node, target_id |-> here, distance |-> top.weight]
<1>4. Settles("reverse", forward_heap, top, forward_heap')
  BY <1>2, SettledIs
<1> HIDE DEF here, buckets, rows
<1>5. Collecting(here, buckets \cup {b}, rows, forward_heap')
  BY <1>2, <1>3, <1>4, CollectingGoesOn
<1> HIDE DEF b
<1>6. /\ table'.location = here /\ table'.search_space_with_buckets = buckets \cup {b}
      /\ table'.result_table = rows
      /\ {"location", "search_space_with_buckets", "result_table"} \subseteq DOMAIN table'
  BY <1>2, <1>3 DEF here, buckets, rows, b
<1> QED
  BY <1>1, <1>5, <1>6 DEF TablingNext

\* A search from the sources settles a node.
LEMMA ForwardTabling ==
    ASSUME Served, Engaged, Tabling, Query!ForwardRoutingStep
    PROVE  TablingNext
<1> DEFINE here == table.location
           buckets == table.search_space_with_buckets
           rows == table.result_table
           Near(top) == {b \in buckets : b.node = top.node}
<1>1. turn = "forward step" /\ turn' = "forward step"
  BY DEF Query!ForwardRoutingStep
<1>2. PICK top \in Query!Minima(forward_heap) :
        /\ forward_heap' = Query!Settled(top, "forward")
        /\ table' = [table EXCEPT !.result_table[here] = Query!Entered(@, Near(top), top.weight)]
  BY DEF Query!ForwardRoutingStep
<1>3. /\ Entering(here, buckets, rows, forward_heap) /\ request.phantoms \in Seq(Phantoms)
      /\ {"location", "search_space_with_buckets", "result_table"} \subseteq DOMAIN table
  BY <1>1 DEF Tabling, Engaged
<1> DEFINE new == Query!Entered(rows[here], Near(top), top.weight)
           next == [rows EXCEPT ![here] = new]
<1>4. Settles("forward", forward_heap, top, forward_heap')
  BY <1>2, SettledIs
<1>5. table' = [table EXCEPT !.result_table = next]
  BY <1>2
<1>6. Entering(here, buckets, next, forward_heap')
  <2> HIDE DEF here, buckets, rows
  <2> QED
    BY <1>2, <1>3, <1>4, EnteringGoesOn
<1> HIDE DEF next
<1>7. /\ table'.location = here /\ table'.search_space_with_buckets = buckets
      /\ table'.result_table = next
      /\ {"location", "search_space_with_buckets", "result_table"} \subseteq DOMAIN table'
  BY <1>3, <1>5
<1> QED
  BY <1>1, <1>6, <1>7 DEF TablingNext

\* The heap is empty: the next location, or the answer.
LEMMA NextLocationTabling ==
    ASSUME Served, Engaged, Tabling, Query!NextLocation
    PROVE  TablingNext
<1> DEFINE n == Len(request.phantoms)
           here == table.location
           buckets == table.search_space_with_buckets
           rows == table.result_table
           next == IF here = n THEN 1 ELSE here + 1
           sign == IF turn = "backward step" /\ here # n THEN 1 ELSE -1
<1>1. /\ turn \in {"backward step", "forward step"} /\ Query!Open(forward_heap) = {}
      /\ table' = [table EXCEPT !.location = next]
      /\ forward_heap' = Query!Entries(request.phantoms[next], sign)
      /\ turn' = IF turn = "backward step" /\ here # n THEN "backward step"
                 ELSE IF turn = "backward step" \/ here # n THEN "forward step" ELSE "answered"
  BY DEF Query!NextLocation
<1>2. /\ request.phantoms \in Seq(Phantoms)
      /\ {"location", "search_space_with_buckets", "result_table"} \subseteq DOMAIN table
  BY <1>1 DEF Tabling, Engaged
<1>3. n \in Nat /\ Locations = 1 .. n
  BY <1>2 DEF Locations
<1>4. /\ table'.location = next /\ table'.search_space_with_buckets = buckets /\ table'.result_table = rows
      /\ {"location", "search_space_with_buckets", "result_table"} \subseteq DOMAIN table'
  <2> HIDE DEF next
  <2> QED
    BY <1>1, <1>2
<1>5. /\ turn = "backward step" => Collecting(here, buckets, rows, forward_heap)
      /\ turn = "forward step" => Entering(here, buckets, rows, forward_heap)
  BY DEF Tabling
<1> HIDE DEF n, buckets, rows, here
<1>6. here \in Locations /\ GoodBuckets(buckets) /\ GoodRows(rows)
  BY <1>1, <1>5 DEF Collecting, Entering
<1>7. here \in Nat /\ next \in Locations /\ (here # n => next = here + 1 /\ 1 .. next - 1 = 1 .. here)
  BY <1>3, <1>6
<1>8. /\ sign = 1 => forward_heap' = StartHeap(FromTargets(At(next)))
      /\ sign = -1 => forward_heap' = StartHeap(FromSources(At(next)))
  BY <1>1, <1>2, <1>7, EntriesAre
<1>9. CASE turn = "backward step" /\ here # n
  <2>1. \A j \in 1 .. here : \A m, G : Sought(j, m, G) => Known(buckets, j, m, G)
    BY <1>1, <1>5, <1>9, CollectingEnds
  <2>2. turn' = "backward step" /\ forward_heap' = StartHeap(FromTargets(At(next)))
    BY <1>1, <1>8, <1>9
  <2>3. 1 .. next - 1 = 1 .. here
    BY <1>7, <1>9
  <2> HIDE DEF next
  <2>4. Collecting(next, buckets, rows, StartHeap(FromTargets(At(next))))
    BY <1>2, <1>6, <1>7, <2>1, <2>3, CollectingStarts
  <2> QED
    BY <1>4, <2>2, <2>4 DEF TablingNext
<1>10. CASE turn = "backward step" /\ here = n
  <2>1. \A j \in 1 .. here : \A m, G : Sought(j, m, G) => Known(buckets, j, m, G)
    BY <1>1, <1>5, <1>10, CollectingEnds
  <2>2. turn' = "forward step" /\ forward_heap' = StartHeap(FromSources(At(next))) /\ next = 1
    BY <1>1, <1>8, <1>10
  <2>3. Locations = 1 .. here
    BY <1>3, <1>10
  <2> HIDE DEF next
  <2>5. \A i \in 1 .. next - 1 : FALSE
    <3>1. next = 1
      BY <2>2
    <3> QED
      BY <3>1
  <2>4. Entering(next, buckets, rows, StartHeap(FromSources(At(next))))
    BY <1>2, <1>6, <1>7, <2>1, <2>3, <2>5, EnteringStarts
  <2> QED
    BY <1>4, <2>2, <2>4 DEF TablingNext
<1>11. CASE turn = "forward step" /\ here # n
  <2>1. /\ \A i \in 1 .. here, j \in Locations : Exactly(rows, i, j)
        /\ \A j \in Locations : \A m, G : Sought(j, m, G) => Known(buckets, j, m, G)
    BY <1>1, <1>5, <1>11, EnteringEnds DEF Entering
  <2>2. turn' = "forward step" /\ forward_heap' = StartHeap(FromSources(At(next)))
    BY <1>1, <1>8, <1>11
  <2>3. 1 .. next - 1 = 1 .. here
    BY <1>7, <1>11
  <2> HIDE DEF next
  <2>4. Entering(next, buckets, rows, StartHeap(FromSources(At(next))))
    BY <1>2, <1>6, <1>7, <2>1, <2>3, EnteringStarts
  <2> QED
    BY <1>4, <2>2, <2>4 DEF TablingNext
<1>12. CASE turn = "forward step" /\ here = n
  <2>1. \A i \in 1 .. here, j \in Locations : Exactly(rows, i, j)
    BY <1>1, <1>5, <1>12, EnteringEnds
  <2>2. turn' = "answered" /\ Locations = 1 .. here
    BY <1>1, <1>3, <1>12
  <2>3. Filled(rows)
    BY <1>6, <2>1, <2>2 DEF Filled
  <2> QED
    BY <1>4, <2>2, <2>3 DEF TablingNext
<1> QED
  BY <1>1, <1>9, <1>10, <1>11, <1>12

\* Steps that answer no table.
LEMMA OtherTabling ==
    ASSUME \/ Query!HandleViaRoute \/ Query!HandleTable \/ Query!SelectAlternative
           \/ Query!RoutingStep
           \/ Query!StartLeg \/ Query!SearchSecondTarget \/ Query!FinishLeg
           \/ Query!StartAlternative \/ Query!AlternativeStepForward \/ Query!AlternativeStepReverse
    PROVE  Tabling'
<1>1. CASE Query!HandleViaRoute \/ Query!HandleTable
  <2>1. turn' \in {"refused", "idle"}
    BY <1>1 DEF Query!HandleViaRoute, Query!HandleTable, Query!Accept
  <2> QED
    BY <2>1 DEF Tabling
<1>2. CASE Query!SelectAlternative
  <2>1. turn' = "answered" /\ request'.service = "alternative"
    BY <1>2 DEF Query!SelectAlternative
  <2> QED
    BY <2>1 DEF Tabling
<1>3. CASE Query!RoutingStep
  <2>1. turn' \in {"forward", "reverse", "done"}
    BY <1>3 DEF Query!RoutingStep, Query!RoutingStepForward, Query!RoutingStepReverse, Query!Turn
  <2> QED
    BY <2>1 DEF Tabling
<1>4. CASE Query!StartLeg \/ Query!SearchSecondTarget
  <2>1. turn' \in {"forward", "reverse", "done"}
    BY <1>4 DEF Query!StartLeg, Query!SearchSecondTarget, Query!FirstTurn
  <2> QED
    BY <2>1 DEF Tabling
<1>5. CASE Query!FinishLeg
  <2>1. turn' \in {"idle", "answered"} /\ request'.service = "route"
    BY <1>5 DEF Query!FinishLeg
  <2> QED
    BY <2>1 DEF Tabling
<1>6. CASE Query!StartAlternative \/ Query!AlternativeStepForward \/ Query!AlternativeStepReverse
  <2>1. turn' \in {"alt forward", "alt reverse", "done"}
    BY <1>6 DEF Query!StartAlternative, Query!AlternativeStepForward, Query!AlternativeStepReverse,
                Query!AlternativeTurn, Query!Turn
  <2> QED
    BY <2>1 DEF Tabling
<1> QED
  BY <1>1, <1>2, <1>3, <1>4, <1>5, <1>6

-----------------------------------------------------------------------------
(* Every entry of the table is the length of a best way *)

\* A table stays when only the hierarchy is worked on.
LEMMA TablingKept ==
    ASSUME Tabling, UNCHANGED search, turn # "none" => UNCHANGED <<edges, input_edge_list>>
    PROVE  Tabling'
<1>1. UNCHANGED <<turn, table, forward_heap, request>>
  BY DEF search
<1>2. CASE turn = "none"
  BY <1>1, <1>2 DEF Tabling
<1>3. CASE turn # "none"
  <2>1. TablingNext
    BY <1>1 DEF Tabling, TablingNext
  <2> QED
    BY <1>1, <1>3, <2>1, TablingStays
<1> QED
  BY <1>2, <1>3

\* The steps of the engine fill the table.
LEMMA StepTabling ==
    ASSUME Served, Engaged, Tabling, UNCHANGED <<edges, input_edge_list>>,
           Query!HandleViaRoute \/ Query!HandleTable \/ Query!EngineStep \/ Query!SelectAlternative
    PROVE  Tabling'
<1>1. CASE TableStep
  <2>1. UNCHANGED request
    BY <1>1 DEF TableStep, Query!StartTable, Query!BackwardRoutingStep, Query!ForwardRoutingStep,
                Query!NextLocation
  <2>2. TablingNext
    BY <1>1, StartTableTabling, BackwardTabling, ForwardTabling, NextLocationTabling DEF TableStep
  <2> QED
    BY <2>1, <2>2, TablingStays
<1>2. CASE ~TableStep
  BY <1>2, OtherTabling DEF Query!EngineStep, TableStep
<1> QED
  BY <1>1, <1>2

\* Every step preserves the two invariants.
LEMMA NextTabling == Planning /\ Tabling /\ [PlanNext]_planvars => Tabling'
<1> SUFFICES ASSUME Planning, Tabling, [PlanNext]_planvars PROVE Tabling'
  OBVIOUS
<1>0. Hierarchy /\ Engaged /\ (loaded => Loaded) /\ (turn # "none" => Loaded)
  BY DEF Planning
<1>1. CASE [Next]_vars /\ UNCHANGED <<query_graph, search>>
  <2>1. built => UNCHANGED vars
    BY <1>0, <1>1, NextHierarchy
  <2>2. turn # "none" => UNCHANGED vars
    BY <1>0, <2>1 DEF Loaded
  <2> QED
    BY <1>1, <2>2, TablingKept DEF vars
<1>2. CASE WriteGraph
  <2>1. UNCHANGED <<vars, search>>
    BY <1>2 DEF WriteGraph
  <2> QED
    BY <2>1, TablingKept DEF vars
<1>3. CASE HandleRequest \/ SearchStep \/ SelectAlternative
  <2>1. /\ loaded /\ UNCHANGED vars
        /\ Query!HandleViaRoute \/ Query!HandleTable \/ Query!EngineStep \/ Query!SelectAlternative
    BY <1>3 DEF HandleRequest, SearchStep, SelectAlternative
  <2>2. Served /\ UNCHANGED <<edges, input_edge_list>>
    BY <1>0, <2>1, LoadedServes DEF vars
  <2> QED
    BY <1>0, <2>1, <2>2, StepTabling
<1> QED
  BY <1>1, <1>2, <1>3 DEF PlanNext, Prepare, planvars

\* Nothing is in the table before a request for one.
LEMMA InitTabling == PlanInit => Tabling
<1>1. PlanInit => turn = "none"
  BY InitEngaged DEF PlanInit
<1> QED
  BY <1>1 DEF Tabling

\* A table that is filled holds the lengths of the best ways.
LEMMA TablingExact == Planning /\ Tabling => TableExact
<1> SUFFICES ASSUME Planning, Tabling, turn = "answered", request.service = "table",
                    NEW i \in DOMAIN request.phantoms, NEW j \in DOMAIN request.phantoms
             PROVE  IsBest(table.result_table[i][j], Shortest(InputArcs),
                           Points(request.phantoms[i]), Points(request.phantoms[j]))
  BY DEF TableExact
<1> DEFINE rows == table.result_table
           x == rows[i][j]
           S == At(i)
           Q == At(j)
<1>1. Served /\ request.phantoms \in Seq(Phantoms)
  BY LoadedServes DEF Planning, Engaged
<1>2. i \in Locations /\ j \in Locations
  BY <1>1 DEF Locations
<1>3. Places(S) /\ Goals(Q) /\ InputArcs \in SUBSET Arcs
  BY <1>1, <1>2, LocationsAre DEF Served
<1>4. Filled(rows)
  BY DEF Tabling
<1>5. x \in Int /\ Above(x, Best(S, Q), Limit(S))
  BY <1>2, <1>4 DEF Filled, GoodRows
<1>6. 0 <= Best(S, Q) /\ Best(S, Q) < Limit(S) => x <= Best(S, Q)
  BY <1>2, <1>4 DEF Filled, Exactly
<1> HIDE DEF x, rows, S, Q
<1>7. IsBest(x, Shortest(InputArcs), S, Q)
  BY <1>3, <1>5, <1>6, BestFound
<1> QED
  BY <1>7 DEF x, rows, S, Q, At

\* Every entry of an answered table is the length of a shortest route of the input graph
\* between its two locations: the buckets that the searches from the targets leave, and
\* the search from the source that reads them, miss no best way and invent none.
THEOREM TableIsExact == PlanSpec => []TableExact
BY InitPlanning, NextPlanning, InitTabling, NextTabling, TablingExact, PTL DEF PlanSpec

-----------------------------------------------------------------------------
(* The path that is read off a heap *)

\* Every entry is a start of the search, or its parent is nearer.
Rooted(N, H) ==
    \A h \in H : \/ h.parent = h.node /\ h.node \in N
                 \/ \E g \in H : g.node = h.parent /\ g.weight < h.weight

\* Entries of the one heap are those of the other, removed or not.
Twins(h, x) == x.node = h.node /\ x.weight = h.weight /\ x.parent = h.parent

\* Where the search starts.
LEMMA StartRooted ==
    ASSUME NEW P
    PROVE  Rooted({p.node : p \in P}, StartHeap(P))
<1>1. \A p \in P : LET h == Query!HeapNode(p.node, p.key, p.node) IN h.parent = p.node /\ h.node = p.node
  BY DEF Query!HeapNode
<1> QED
  BY <1>1 DEF Rooted, StartHeap

\* Removing entries changes no parent.
LEMMA TwinsRooted ==
    ASSUME NEW N, NEW H, Rooted(N, H), NEW K,
           \A h \in H : \E x \in K : Twins(h, x), \A x \in K : \E h \in H : Twins(h, x)
    PROVE  Rooted(N, K)
<1> SUFFICES ASSUME NEW x \in K
             PROVE  \/ x.parent = x.node /\ x.node \in N
                    \/ \E g \in K : g.node = x.parent /\ g.weight < x.weight
  BY DEF Rooted
<1>1. PICK h \in H : Twins(h, x)
  OBVIOUS
<1>2. CASE h.parent = h.node /\ h.node \in N
  BY <1>1, <1>2 DEF Twins
<1>3. ASSUME NEW g \in H, g.node = h.parent, g.weight < h.weight
      PROVE  \E y \in K : y.node = x.parent /\ y.weight < x.weight
  BY <1>1, <1>3 DEF Twins
<1> QED
  BY <1>2, <1>3 DEF Rooted

\* The entry that is settled stays in the heap.
LEMMA RestTwins ==
    ASSUME NEW H, H \subseteq HeapNodes, NEW top \in H
    PROVE  /\ \A h \in H : \E x \in Rest(H, top) : Twins(h, x)
           /\ \A x \in Rest(H, top) : \E h \in H : Twins(h, x)
           /\ Rest(H, top) \subseteq HeapNodes
<1>1. Gone(top) \in HeapNodes /\ Twins(top, Gone(top))
  BY GoneIs DEF Twins
<1>2. \A h \in H : Twins(h, h)
  BY DEF Twins
<1> QED
  BY <1>1, <1>2 DEF Rest

\* So do all entries when the heap is cleared.
LEMMA DeletedTwins ==
    ASSUME NEW H, H \subseteq HeapNodes
    PROVE  /\ \A h \in H : \E x \in Query!DeleteAll(H) : Twins(h, x)
           /\ \A x \in Query!DeleteAll(H) : \E h \in H : Twins(h, x)
<1>1. \A h \in H : Twins(h, Gone(h))
  BY GoneIs DEF Twins
<1>2. Query!DeleteAll(H) = {Gone(h) : h \in H}
  BY DEF Query!DeleteAll, Gone
<1> QED
  BY <1>1, <1>2

\* Relaxing makes the node that was settled the parent of what becomes lighter.
LEMMA RelaxedRooted ==
    ASSUME NEW d, NEW R, NEW T, Directed(d, R, T), NEW N, NEW H, H \subseteq HeapNodes, Rooted(N, H),
           NEW top \in HeapNodes, NEW t \in H, Twins(top, t), NEW K, Relaxes(d, top, H, K)
    PROVE  Rooted(N, K) /\ \A h \in H : \E x \in K : x.node = h.node
<1>1. /\ K \subseteq HeapNodes
      /\ \A h \in H : \E x \in K : Lightened(d, top, h, x)
      /\ \A x \in K : Discovered(d, top, H, x) \/ \E h \in H : Lightened(d, top, h, x)
  BY DEF Relaxes
<1>2. (\A h \in H : h.weight \in Int) /\ (\A x \in K : x.weight \in Int) /\ top.weight \in Int
      /\ top.node \in NodeIDs
  BY <1>1 DEF HeapNodes
<1>3. \A v, w : Leaves(d, top, v, w) => w > top.weight
  BY <1>2 DEF Leaves, Directed
<1>4. \A h \in H : \E x \in K : x.node = h.node /\ x.weight <= h.weight
  BY <1>1 DEF Lightened
<1>5. PICK u \in K : u.node = top.node /\ u.weight <= top.weight
  BY <1>4 DEF Twins
<1>6. ASSUME NEW x \in K, x.parent = top.node, Leaves(d, top, x.node, x.weight)
      PROVE  \E g \in K : g.node = x.parent /\ g.weight < x.weight
  BY <1>2, <1>3, <1>5, <1>6
<1>7. ASSUME NEW h \in H, h \in K
      PROVE  \/ h.parent = h.node /\ h.node \in N
             \/ \E g \in K : g.node = h.parent /\ g.weight < h.weight
  <2>1. CASE h.parent = h.node /\ h.node \in N
    BY <2>1
  <2>2. ASSUME NEW g \in H, g.node = h.parent, g.weight < h.weight
        PROVE  \E y \in K : y.node = h.parent /\ y.weight < h.weight
    <3>1. PICK y \in K : y.node = g.node /\ y.weight <= g.weight
      BY <1>4
    <3>2. y.weight < h.weight
      BY <1>2, <2>2, <3>1
    <3> QED
      BY <2>2, <3>1, <3>2
  <2> QED
    BY <2>1, <2>2 DEF Rooted
<1>8. \A x \in K : x \in H \/ (x.parent = top.node /\ Leaves(d, top, x.node, x.weight))
  BY <1>1 DEF Lightened, Discovered
<1>9. Rooted(N, K)
  BY <1>6, <1>7, <1>8 DEF Rooted
<1> QED
  BY <1>4, <1>9

\* Settling an entry keeps the parents, and forgets no node.
LEMMA SettlesRooted ==
    ASSUME NEW d, NEW R, NEW T, Directed(d, R, T), NEW N, NEW H, H \subseteq HeapNodes, Rooted(N, H),
           NEW top, top \in Query!Minima(H), NEW K, Settles(d, H, top, K)
    PROVE  Rooted(N, K) /\ \A h \in H : \E x \in K : x.node = h.node
<1> DEFINE L == Rest(H, top)
<1>1. top \in H /\ top \in HeapNodes
  BY TopIs
<1>2. /\ \A h \in H : \E x \in L : Twins(h, x)
      /\ \A x \in L : \E h \in H : Twins(h, x)
      /\ L \subseteq HeapNodes
  BY <1>1, RestTwins
<1> HIDE DEF L
<1>3. Rooted(N, L) /\ \A h \in H : \E x \in L : x.node = h.node
  BY <1>2, TwinsRooted DEF Twins
<1>4. CASE K = L
  BY <1>3, <1>4
<1>5. CASE K = Query!Relaxed(L, top, d)
  <2>1. Relaxes(d, top, L, K)
    BY <1>1, <1>2, <1>5, RelaxedIs
  <2>2. PICK t \in L : Twins(top, t)
    BY <1>1, <1>2
  <2>3. Rooted(N, K) /\ \A h \in L : \E x \in K : x.node = h.node
    BY <1>1, <1>2, <1>3, <2>1, <2>2, RelaxedRooted
  <2> QED
    BY <1>3, <2>3
<1> QED
  BY <1>4, <1>5 DEF Settles, L

\* Clearing the heap does so too.
LEMMA StopsRooted ==
    ASSUME NEW N, NEW H, H \subseteq HeapNodes, Rooted(N, H), NEW top, top \in Query!Minima(H),
           NEW K, K = Query!DeleteAll(Rest(H, top))
    PROVE  Rooted(N, K) /\ \A h \in H : \E x \in K : x.node = h.node
<1> DEFINE L == Rest(H, top)
<1>1. top \in H
  BY TopIs
<1>2. /\ \A h \in H : \E x \in L : Twins(h, x)
      /\ \A x \in L : \E h \in H : Twins(h, x)
      /\ L \subseteq HeapNodes
  BY <1>1, RestTwins
<1>3. K = Query!DeleteAll(L)
  OBVIOUS
<1> HIDE DEF L
<1>4. Rooted(N, L)
  BY <1>2, TwinsRooted
<1>5. (\A h \in L : \E x \in K : Twins(h, x)) /\ (\A x \in K : \E h \in L : Twins(h, x))
  BY <1>2, <1>3, DeletedTwins
<1>6. Rooted(N, K)
  BY <1>4, <1>5, TwinsRooted
<1> QED
  BY <1>2, <1>5, <1>6 DEF Twins

\* A heap has no more entries than there are nodes.
LEMMA HeapFinite ==
    ASSUME NEW H, H \subseteq HeapNodes, OneEach(H)
    PROVE  IsFiniteSet(H)
<1> DEFINE f == [n \in NodeIDs |-> CHOOSE h \in H : h.node = n]
<1>1. IsFiniteSet(NodeIDs)
  <2>1. 0 \in Int /\ number_of_nodes - 1 \in Int
    BY ContractorAssumption
  <2> QED
    BY <2>1, FS_Interval DEF NodeIDs
<1>2. H \subseteq {f[n] : n \in NodeIDs}
  <2>1. ASSUME NEW h \in H PROVE h.node \in NodeIDs /\ f[h.node] = h
    <3>1. h.node \in NodeIDs
      BY HeapNodeIs
    <3>2. f[h.node] \in H /\ f[h.node].node = h.node
      BY <3>1
    <3> HIDE DEF f
    <3> QED
      BY <3>1, <3>2 DEF OneEach
  <2> HIDE DEF f
  <2> QED
    BY <2>1
<1> HIDE DEF f
<1>3. IsFiniteSet({f[n] : n \in NodeIDs})
  BY <1>1, FiniteImage
<1> QED
  BY <1>2, <1>3, FS_Subset

\* The entry of a node.
LEMMA HeapEntryIs ==
    ASSUME NEW H, OneEach(H), NEW h \in H, NEW n, h.node = n
    PROVE  Query!Entry(H, n) = h
<1> DEFINE e == Query!Entry(H, n)
<1>1. e \in H /\ e.node = n
  BY DEF Query!Entry
<1> QED
  BY <1>1 DEF OneEach

\* A path from m along parents, nearest first.
Climbing(H, m, path) ==
    /\ path \in Seq(NodeIDs) /\ Len(path) >= 1 /\ path[1] = m
    /\ \E h \in H : h.node = path[Len(path)]

\* The path goes on to the parent, unless it is at its start.
Higher(H, path) ==
    LET parent == Query!Entry(H, Query!Last(path)).parent
    IN  IF parent = Query!Last(path) THEN path ELSE Append(path, parent)

\* The entries that are lighter than the end of the path.
Lighter(H, path) == {h \in H : h.weight < Query!Entry(H, path[Len(path)]).weight}

\* One step leads nearer to a start.
LEMMA HigherIs ==
    ASSUME NEW N, NEW H, H \subseteq HeapNodes, OneEach(H), IsFiniteSet(H), Rooted(N, H), NEW m,
           NEW path, Climbing(H, m, path)
    PROVE  /\ Climbing(H, m, Higher(H, path))
           /\ Higher(H, path) = path => path[Len(path)] \in N
           /\ Cardinality(Lighter(H, path)) \in Nat /\ Cardinality(Lighter(H, path)) <= Cardinality(H)
           /\ Higher(H, path) = path \/ Cardinality(Lighter(H, Higher(H, path))) < Cardinality(Lighter(H, path))
<1> DEFINE last == path[Len(path)]
           next == Higher(H, path)
<1>0. path \in Seq(NodeIDs) /\ Len(path) \in Nat /\ Len(path) >= 1 /\ path[1] = m /\ Query!Last(path) = last
  BY DEF Climbing, Query!Last
<1>1. PICK h \in H : h.node = last
  BY DEF Climbing
<1>2. Query!Entry(H, last) = h
  BY <1>1, HeapEntryIs
<1>3. h.weight \in Int /\ h.parent \in NodeIDs /\ last \in NodeIDs /\ \A x \in H : x.weight \in Int
  BY <1>1, HeapNodeIs
<1>4. Lighter(H, path) = {x \in H : x.weight < h.weight}
  BY <1>2 DEF Lighter
<1>5. /\ IsFiniteSet(Lighter(H, path)) /\ Cardinality(Lighter(H, path)) \in Nat
      /\ Cardinality(Lighter(H, path)) <= Cardinality(H)
  BY <1>4, FS_Subset, FS_CardinalityType
<1>6. next = IF h.parent = last THEN path ELSE Append(path, h.parent)
  BY <1>0, <1>2 DEF Higher
<1> HIDE DEF next
<1>7. CASE h.parent = last
  <2>1. next = path
    BY <1>6, <1>7
  <2>2. last \in N
    BY <1>1, <1>3, <1>7 DEF Rooted, OneEach
  <2> QED
    BY <1>5, <2>1, <2>2 DEF next
<1>8. CASE h.parent # last
  <2>1. PICK g \in H : g.node = h.parent /\ g.weight < h.weight
    BY <1>1, <1>8 DEF Rooted
  <2>2. /\ next \in Seq(NodeIDs) /\ Len(next) = Len(path) + 1 /\ next[Len(next)] = h.parent
        /\ next[1] = m
    BY <1>0, <1>3, <1>6, <1>8
  <2>3. Climbing(H, m, next)
    BY <1>0, <2>1, <2>2 DEF Climbing
  <2>4. next # path
    BY <1>0, <2>2
  <2>5. Query!Entry(H, next[Len(next)]) = g
    BY <2>1, <2>2, HeapEntryIs
  <2>6. Lighter(H, next) = {x \in H : x.weight < g.weight}
    BY <2>5 DEF Lighter
  <2>7. g.weight \in Int
    BY <1>3
  <2>8. Lighter(H, next) \subseteq Lighter(H, path) /\ g \in Lighter(H, path) /\ g \notin Lighter(H, next)
    BY <1>3, <1>4, <2>1, <2>6, <2>7
  <2>9. /\ Cardinality(Lighter(H, next)) <= Cardinality(Lighter(H, path))
        /\ Cardinality(Lighter(H, next)) # Cardinality(Lighter(H, path))
        /\ Cardinality(Lighter(H, next)) \in Nat
    BY <1>5, <2>8, FS_Subset, FS_CardinalityType
  <2>10. Cardinality(Lighter(H, next)) < Cardinality(Lighter(H, path))
    BY <1>5, <2>9
  <2> QED
    BY <1>5, <2>3, <2>4, <2>10 DEF next
<1> QED
  BY <1>7, <1>8

\* The ancestors of a node end with a start.
LEMMA AncestorsIs ==
    ASSUME NEW N, NEW H, H \subseteq HeapNodes, OneEach(H), Rooted(N, H), NEW h \in H
    PROVE  LET A == Query!Ancestors(H, h.node)
           IN  A \in Seq(NodeIDs) /\ (IF A = <<>> THEN h.node \in N ELSE A[Len(A)] \in N)
<1> DEFINE m == h.node
           n == Query!Cardinality(H)
           S == {path \in Seq(NodeIDs) : Climbing(H, m, path)}
           F == [path \in S |-> Higher(H, path)]
           M == [path \in S |-> Cardinality(Lighter(H, path))]
           IsRun(f) == f = [k \in 0 .. n |-> IF k = 0 THEN {<<m>>} ELSE {Higher(H, path) : path \in f[k - 1]}]
           climb == CHOOSE f : IsRun(f)
<1>0. IsFiniteSet(H) /\ n \in Nat /\ n = Cardinality(H)
  BY HeapFinite, SameOperators, FS_CardinalityType
<1>1. Query!Ancestors(H, m) = Tail(CHOOSE path \in climb[n] : TRUE)
  BY DEF Query!Ancestors, Higher
<1>2. \A path : path \in S <=> Climbing(H, m, path)
  BY DEF Climbing
<1>3. <<m>> \in S
  <2>1. m \in NodeIDs
    BY HeapNodeIs
  <2>2. Climbing(H, m, <<m>>)
    BY <2>1 DEF Climbing
  <2> QED
    BY <1>2, <2>2
<1>4. ASSUME NEW path \in S
      PROVE  /\ F[path] \in S /\ F[path] = Higher(H, path) /\ M[path] \in Nat /\ M[path] <= n
             /\ F[path] = path => path[Len(path)] \in N
             /\ F[path] = path \/ M[F[path]] < M[path]
  <2>1. Climbing(H, m, path)
    BY <1>2
  <2> HIDE DEF m
  <2>2. /\ Climbing(H, m, Higher(H, path))
        /\ Higher(H, path) = path => path[Len(path)] \in N
        /\ Cardinality(Lighter(H, path)) \in Nat /\ Cardinality(Lighter(H, path)) <= Cardinality(H)
        /\ Higher(H, path) = path \/ Cardinality(Lighter(H, Higher(H, path))) < Cardinality(Lighter(H, path))
    BY <1>0, <2>1, HigherIs
  <2>3. Higher(H, path) \in S
    BY <1>2, <2>2
  <2> HIDE DEF S
  <2> QED
    BY <1>0, <2>2, <2>3
<1> HIDE DEF S, F, M, n
<1>5. IsLoop(S, F, M, <<m>>, n)
  BY <1>0, <1>3, <1>4 DEF IsLoop
<1>6. PICK g : IsRunOf(g, S, F, <<m>>, n) /\ F[g[n]] = g[n]
  BY <1>5, LoopEnds
<1>7. g \in [0 .. n -> S] /\ \A k \in 0 .. n : g[k] = IF k = 0 THEN <<m>> ELSE F[g[k - 1]]
  BY <1>6 DEF IsRunOf
<1>8. ASSUME NEW k \in 1 .. n PROVE g[k] = Higher(H, g[k - 1])
  <2>1. k \in 0 .. n /\ k # 0 /\ k - 1 \in 0 .. n
    BY <1>0
  <2> QED
    BY <1>4, <1>7, <2>1
<1> DEFINE c == [k \in 0 .. n |-> {g[k]}]
<1>9. IsRun(c)
  <2>1. \A k \in 0 .. n : k # 0 => k - 1 \in 0 .. n /\ k \in 1 .. n
    BY <1>0
  <2>2. g[0] = <<m>>
    BY <1>0, <1>7
  <2>3. \A k \in 0 .. n : c[k] = IF k = 0 THEN {<<m>>} ELSE {Higher(H, path) : path \in c[k - 1]}
    BY <1>8, <2>1, <2>2
  <2> QED
    BY <2>3
<1>10. IsRun(climb)
  <2> HIDE DEF IsRun, c
  <2> QED
    BY <1>9
<1> HIDE DEF climb
<1> DEFINE In == {k \in 0 .. n : climb[k] = {g[k]}}
<1>11. 0 \in In
  BY <1>0, <1>7, <1>10
<1>12. ASSUME NEW k \in 0 .. n - 1, k \in In PROVE k + 1 \in In
  <2>1. k + 1 \in 0 .. n /\ k + 1 \in 1 .. n /\ (k + 1) - 1 = k
    BY <1>0
  <2>2. climb[k + 1] = {Higher(H, path) : path \in climb[k]}
    <3>1. k + 1 # 0
      BY <1>0
    <3>2. climb[k + 1] = {Higher(H, path) : path \in climb[(k + 1) - 1]}
      BY <1>10, <2>1, <3>1
    <3> QED
      BY <2>1, <3>2
  <2>3. climb[k] = {g[k]} /\ g[k + 1] = Higher(H, g[k])
    BY <1>8, <1>12, <2>1
  <2>4. climb[k + 1] = {g[k + 1]}
    BY <2>2, <2>3
  <2> QED
    BY <2>1, <2>4
<1>13. 0 .. n \subseteq In
  <2> HIDE DEF In
  <2> QED
    BY <1>0, <1>11, <1>12, BoundedInduction
<1> DEFINE path == g[n]
<1>14. climb[n] = {path} /\ path \in S
  BY <1>0, <1>7, <1>13
<1>15. Query!Ancestors(H, m) = Tail(path)
  BY <1>1, <1>14
<1>16. Climbing(H, m, path) /\ path[Len(path)] \in N
  BY <1>2, <1>4, <1>6, <1>14
<1> HIDE DEF path, m
<1>17. path \in Seq(NodeIDs) /\ Len(path) >= 1 /\ path[1] = m
  BY <1>16 DEF Climbing
<1>18. Tail(path) \in Seq(NodeIDs) /\ Len(Tail(path)) = Len(path) - 1
       /\ \A i \in 1 .. Len(path) - 1 : Tail(path)[i] = path[i + 1]
  BY <1>17
<1> DEFINE A == Tail(path)
<1> HIDE DEF A
<1>19. ASSUME A = <<>> PROVE m \in N
  <2>1. Len(A) = 0 /\ Len(A) = Len(path) - 1 /\ Len(path) \in Nat
    BY <1>17, <1>18, <1>19 DEF A
  <2>2. Len(path) = 1
    BY <2>1
  <2> QED
    BY <1>16, <1>17, <2>2
<1>20. ASSUME A # <<>> PROVE A[Len(A)] \in N
  <2>1. A \in Seq(NodeIDs) /\ Len(A) \in Nat /\ Len(path) \in Nat /\ Len(A) = Len(path) - 1
    BY <1>17, <1>18 DEF A
  <2>2. Len(A) # 0
    BY <1>20, <2>1
  <2>3. Len(A) \in 1 .. Len(path) - 1 /\ Len(A) + 1 = Len(path)
    BY <2>1, <2>2
  <2>4. A[Len(A)] = path[Len(A) + 1]
    BY <1>18, <2>3 DEF A
  <2> QED
    BY <1>16, <2>3, <2>4
<1> QED
  BY <1>15, <1>18, <1>19, <1>20 DEF A, m

\* The path that is read off two heaps leads from a start of the one to a start of the other.
LEMMA PackedLeads ==
    ASSUME NEW N, NEW H, H \subseteq HeapNodes, OneEach(H), Rooted(N, H), NEW h \in H,
           NEW Z, NEW O, O \subseteq HeapNodes, OneEach(O), Rooted(Z, O), NEW o \in O, o.node = h.node
    PROVE  LET path == Query!PackedPathOf(H, O, h.node)
           IN  path \in Seq(NodeIDs) /\ Len(path) >= 1 /\ path[1] \in N /\ path[Len(path)] \in Z
<1> DEFINE m == h.node
           A == Query!Ancestors(H, m)
           B == Query!Ancestors(O, m)
           C == Query!Reverse(A)
<1>1. A \in Seq(NodeIDs) /\ (IF A = <<>> THEN m \in N ELSE A[Len(A)] \in N)
  BY AncestorsIs
<1>2. B \in Seq(NodeIDs) /\ (IF B = <<>> THEN m \in Z ELSE B[Len(B)] \in Z)
  BY AncestorsIs
<1>3. m \in NodeIDs
  BY HeapNodeIs
<1>4. Query!PackedPathOf(H, O, m) = (C \o <<m>>) \o B
  BY DEF Query!PackedPathOf
<1> HIDE DEF A, B, m
<1>5. /\ C \in Seq(NodeIDs) /\ Len(C) = Len(A) /\ Len(A) \in Nat
      /\ Len(A) # 0 => C[1] = A[Len(A)]
  <2>1. Len(A) \in Nat /\ A \in [1 .. Len(A) -> NodeIDs]
    BY <1>1
  <2>2. C = [i \in 1 .. Len(A) |-> A[(Len(A) - i) + 1]]
    BY DEF Query!Reverse
  <2>3. \A i \in 1 .. Len(A) : (Len(A) - i) + 1 \in 1 .. Len(A)
    BY <2>1
  <2>4. C \in [1 .. Len(A) -> NodeIDs]
    BY <2>1, <2>2, <2>3
  <2>5. Len(A) # 0 => 1 \in 1 .. Len(A) /\ (Len(A) - 1) + 1 = Len(A)
    BY <2>1
  <2>6. Len(A) # 0 => C[1] = A[Len(A)]
    BY <2>2, <2>5
  <2>7. C \in Seq(NodeIDs) /\ Len(C) = Len(A)
    BY <2>1, <2>4
  <2> QED
    BY <2>1, <2>6, <2>7
<1> HIDE DEF C
<1> DEFINE D == C \o <<m>>
           path == D \o B
<1>6. /\ D \in Seq(NodeIDs) /\ Len(D) = Len(C) + 1 /\ D[Len(C) + 1] = m
      /\ \A i \in 1 .. Len(C) : D[i] = C[i]
  BY <1>3, <1>5
<1> HIDE DEF D
<1>7. /\ path \in Seq(NodeIDs) /\ Len(path) = Len(D) + Len(B) /\ Len(B) \in Nat /\ Len(D) \in Nat
      /\ \A i \in 1 .. Len(D) : path[i] = D[i]
      /\ \A i \in 1 .. Len(B) : path[Len(D) + i] = B[i]
  BY <1>2, <1>6
<1> HIDE DEF path
<1>8. path[1] \in N
  <2>1. path[1] = D[1]
    BY <1>5, <1>6, <1>7
  <2>2. CASE Len(A) = 0
    BY <1>1, <1>5, <1>6, <2>1, <2>2
  <2>3. CASE Len(A) # 0
    <3>1. D[1] = C[1] /\ A # <<>>
      BY <1>1, <1>5, <1>6, <2>3
    <3> QED
      BY <1>1, <1>5, <2>1, <2>3, <3>1
  <2> QED
    BY <2>2, <2>3
<1>9. path[Len(path)] \in Z
  <2>1. CASE Len(B) = 0
    <3>1. Len(path) = Len(D) /\ path[Len(path)] = m /\ B = <<>>
      BY <1>2, <1>5, <1>6, <1>7, <2>1
    <3> QED
      BY <1>2, <3>1
  <2>2. CASE Len(B) # 0
    <3>1. Len(B) \in 1 .. Len(B) /\ B # <<>>
      BY <1>2, <1>7, <2>2
    <3>2. path[Len(path)] = B[Len(B)]
      BY <1>7, <3>1
    <3> QED
      BY <1>2, <3>1, <3>2
  <2> QED
    BY <2>1, <2>2
<1> QED
  BY <1>4, <1>5, <1>6, <1>7, <1>8, <1>9 DEF path, D, m

-----------------------------------------------------------------------------
(* The legs of a route *)

NodesOf(S) == {s.node : s \in S}

\* A path from one of the nodes of A to one of B.
PathBetween(path, A, B) ==
    path \in Seq(NodeIDs) /\ Len(path) >= 1 /\ path[1] \in A /\ path[Len(path)] \in B

\* The first k legs of a route.
IsChain(legs, k) ==
    /\ legs \in Seq(Seq(NodeIDs)) /\ Len(legs) = k
    /\ \A i \in 1 .. k : PathBetween(legs[i], NodesOf(At(i)), NodesOf(At(i + 1)))
    /\ \A i \in 1 .. k - 1 : MayTurn(i) \/ MayTurn(i - 1) \/ Query!Last(legs[i]) = legs[i + 1][1]

\* The next leg starts only where one of the chains ends.
Arrives(j) ==
    LET p == request.phantoms[j.current_leg + 1]
        ends == {Query!Last(j.packed_legs1[j.current_leg]), Query!Last(j.packed_legs2[j.current_leg])}
    IN  /\ j.search_from_1st_node /\ p.forward # SPECIAL_NODEID => p.forward \in ends
        /\ j.search_from_2nd_node /\ p.reverse # SPECIAL_NODEID => p.reverse \in ends

\* What the loop over the legs has put together.
Chained(j) ==
    /\ {"second", "found1", "packed_legs1", "packed_legs2", "search_from_1st_node",
        "search_from_2nd_node", "status"} \subseteq DOMAIN j
    /\ IsChain(j.packed_legs1, j.current_leg) /\ IsChain(j.packed_legs2, j.current_leg)
    /\ j.current_leg > 0 => MayTurn(j.current_leg - 1) \/ Arrives(j)

\* A leg that goes on where the chain ends makes it longer.
LEMMA ChainGrows ==
    ASSUME NEW k \in Nat, NEW legs, IsChain(legs, k), NEW path,
           PathBetween(path, NodesOf(At(k + 1)), NodesOf(At(k + 2))),
           k > 0 => MayTurn(k) \/ MayTurn(k - 1) \/ Query!Last(legs[k]) = path[1]
    PROVE  IsChain(Append(legs, path), k + 1)
<1> DEFINE more == Append(legs, path)
<1>0. /\ legs \in Seq(Seq(NodeIDs)) /\ Len(legs) = k
      /\ \A i \in 1 .. k : PathBetween(legs[i], NodesOf(At(i)), NodesOf(At(i + 1)))
      /\ \A i \in 1 .. k - 1 : MayTurn(i) \/ MayTurn(i - 1) \/ Query!Last(legs[i]) = legs[i + 1][1]
  BY DEF IsChain
<1>1. path \in Seq(NodeIDs)
  BY DEF PathBetween
<1>2. /\ more \in Seq(Seq(NodeIDs)) /\ Len(more) = k + 1 /\ more[k + 1] = path
      /\ \A i \in 1 .. k : more[i] = legs[i]
  BY <1>0, <1>1
<1> HIDE DEF more
<1>3. ASSUME NEW i \in 1 .. k + 1 PROVE PathBetween(more[i], NodesOf(At(i)), NodesOf(At(i + 1)))
  <2>1. CASE i \in 1 .. k
    BY <1>0, <1>2, <2>1
  <2>2. CASE i = k + 1
    <3>1. i + 1 = k + 2
      BY <2>2
    <3> QED
      BY <1>2, <2>2, <3>1
  <2> QED
    BY <2>1, <2>2
<1>4. ASSUME NEW i \in 1 .. (k + 1) - 1
      PROVE  MayTurn(i) \/ MayTurn(i - 1) \/ Query!Last(more[i]) = more[i + 1][1]
  <2>1. CASE i \in 1 .. k - 1
    <3>1. i \in 1 .. k /\ i + 1 \in 1 .. k
      BY <2>1
    <3>2. more[i] = legs[i] /\ more[i + 1] = legs[i + 1]
      BY <1>2, <3>1
    <3> QED
      BY <1>0, <2>1, <3>2
  <2>2. CASE i = k
    <3>1. k > 0 /\ k \in 1 .. k
      BY <2>2
    <3>2. more[i] = legs[k] /\ more[i + 1] = path
      BY <1>2, <2>2, <3>1
    <3> QED
      BY <2>2, <3>1, <3>2
  <2>3. i \in 1 .. k - 1 \/ i = k
    OBVIOUS
  <2> QED
    BY <2>1, <2>2, <2>3
<1>5. IsChain(more, k + 1)
  BY <1>2, <1>3, <1>4 DEF IsChain
<1> QED
  BY <1>5 DEF more

\* The legs are exchanged, or a chain replaced, so that both chains go on.
LEMMA JoinedIs ==
    ASSUME Chained(journey), NEW k \in Nat, journey.current_leg = k, NEW leg1, NEW leg2,
           PathBetween(leg1.packed, NodesOf(Query!LegSource), NodesOf(At(k + 2))),
           PathBetween(leg2.packed, NodesOf(Query!LegSource), NodesOf(At(k + 2)))
    PROVE  LET j == Query!Joined(leg1, leg2)
           IN  /\ IsChain(Append(j.legs1, j.leg1.packed), k + 1)
               /\ IsChain(Append(j.legs2, j.leg2.packed), k + 1)
               /\ (j.leg1 = leg1 /\ j.leg2 = leg2) \/ (j.leg1 = leg2 /\ j.leg2 = leg1)
<1> DEFINE j == Query!Joined(leg1, leg2)
           A == journey.packed_legs1
           B == journey.packed_legs2
           a == leg1.packed[1]
           b == leg2.packed[1]
           e == Query!Last(A[k])
           f == Query!Last(B[k])
           p == request.phantoms[k + 1]
<1>1. IsChain(A, k) /\ IsChain(B, k)
  BY DEF Chained
<1>2. MayTurn(k) <=> Query!allow_u_turn
  BY DEF MayTurn, Query!allow_u_turn
<1>3. ASSUME ~MayTurn(k)
      PROVE  NodesOf(Query!LegSource) \subseteq
               {x \in {p.forward, p.reverse} :
                  /\ x # SPECIAL_NODEID
                  /\ \/ x = p.forward /\ journey.search_from_1st_node
                     \/ x = p.reverse /\ journey.search_from_2nd_node}
  <2>1. p = Query!SourcePhantom
    BY DEF Query!SourcePhantom
  <2>2. ~Query!allow_u_turn
    BY <1>2, <1>3
  <2> QED
    BY <2>1, <2>2 DEF Query!LegSource, Query!Existing, Query!At, NodesOf
<1>4. NodesOf(Query!LegSource) \subseteq NodesOf(At(k + 1))
  <2>1. At(k + 1) = Points(p) /\ p = Query!SourcePhantom
    BY DEF At, Query!SourcePhantom
  <2>2. \A x \in NodesOf(Query!LegSource) : x # SPECIAL_NODEID /\ x \in {p.forward, p.reverse}
    BY <2>1 DEF Query!LegSource, Query!Existing, Query!At, NodesOf
  <2> HIDE DEF p
  <2>3. \A x \in {p.forward, p.reverse} : x # SPECIAL_NODEID => x \in NodesOf(Points(p))
    <3>1. \A o : Query!At(p.forward, o).node = p.forward /\ Query!At(p.reverse, o).node = p.reverse
      BY DEF Query!At
    <3> QED
      BY <3>1 DEF Points, Query!Existing, NodesOf
  <2> QED
    BY <2>1, <2>2, <2>3
<1>5. /\ PathBetween(leg1.packed, NodesOf(At(k + 1)), NodesOf(At(k + 2)))
      /\ PathBetween(leg2.packed, NodesOf(At(k + 1)), NodesOf(At(k + 2)))
      /\ a \in NodesOf(Query!LegSource) /\ b \in NodesOf(Query!LegSource)
  BY <1>4 DEF PathBetween
<1>6. CASE MayTurn(k) \/ k = 0
  <2>1. j.leg1 = leg1 /\ j.leg2 = leg2 /\ j.legs1 = A /\ j.legs2 = B
    BY <1>2, <1>6 DEF Query!Joined
  <2>2. k > 0 => MayTurn(k)
    BY <1>6
  <2> HIDE DEF A, B, j
  <2>3. IsChain(Append(A, leg1.packed), k + 1) /\ IsChain(Append(B, leg2.packed), k + 1)
    BY <1>1, <1>5, <2>2, ChainGrows
  <2> QED
    BY <2>1, <2>3 DEF j
<1>7. CASE ~MayTurn(k) /\ k # 0
  <2>0. k > 0 /\ Len(A) = k /\ Len(B) = k
    BY <1>1, <1>7 DEF IsChain
  <2>1. Head(leg1.packed) = a /\ Head(leg2.packed) = b
    BY DEF PathBetween
  <2>2. Query!Last(A) = A[k] /\ Query!Last(B) = B[k]
    BY <2>0 DEF Query!Last
  <2>3. /\ j.leg1 = IF e # a /\ f # b THEN leg2 ELSE leg1
        /\ j.leg2 = IF e # a /\ f # b THEN leg1 ELSE leg2
        /\ j.legs1 = IF a = b /\ a # e THEN B ELSE A
        /\ j.legs2 = IF a = b /\ a = e /\ b # f THEN A ELSE B
    BY <1>2, <1>7, <2>1, <2>2 DEF Query!Joined
  <2>4. MayTurn(k - 1) \/ (a \in {e, f} /\ b \in {e, f})
    <3>1. SUFFICES ASSUME ~MayTurn(k - 1) PROVE a \in {e, f} /\ b \in {e, f}
      OBVIOUS
    <3>2. Arrives(journey)
      BY <2>0, <3>1 DEF Chained
    <3> QED
      BY <1>3, <1>5, <1>7, <3>2 DEF Arrives
  <2> HIDE DEF A, B, a, b, j
  <2>5. IsChain(Append(j.legs1, j.leg1.packed), k + 1)
    <3>1. \/ MayTurn(k - 1)
          \/ Query!Last(j.legs1[k]) = j.leg1.packed[1]
      BY <2>3, <2>4 DEF a, b
    <3>2. IsChain(j.legs1, k) /\ PathBetween(j.leg1.packed, NodesOf(At(k + 1)), NodesOf(At(k + 2)))
      BY <1>1, <1>5, <2>3
    <3> QED
      BY <3>1, <3>2, ChainGrows
  <2>6. IsChain(Append(j.legs2, j.leg2.packed), k + 1)
    <3>1. \/ MayTurn(k - 1)
          \/ Query!Last(j.legs2[k]) = j.leg2.packed[1]
      BY <2>3, <2>4 DEF a, b
    <3>2. IsChain(j.legs2, k) /\ PathBetween(j.leg2.packed, NodesOf(At(k + 1)), NodesOf(At(k + 2)))
      BY <1>1, <1>5, <2>3
    <3> QED
      BY <3>1, <3>2, ChainGrows
  <2>7. (j.leg1 = leg1 /\ j.leg2 = leg2) \/ (j.leg1 = leg2 /\ j.leg2 = leg1)
    BY <2>3
  <2> QED
    BY <2>5, <2>6, <2>7 DEF j
<1> QED
  BY <1>6, <1>7

-----------------------------------------------------------------------------
(* What the searches of a leg find *)

\* The parents lead to the sources and the targets, and once there is a bound both searches
\* have been at the node where they met.
Rooting(S, Q, H, O, mid, ub) ==
    /\ Rooted(NodesOf(S), H) /\ Rooted(NodesOf(Q), O)
    /\ ub \in Int /\ ub <= INT_MAX
    /\ ub = INT_MAX => mid = SPECIAL_NODEID
    /\ ub # INT_MAX => Query!WasInserted(H, mid) /\ Query!WasInserted(O, mid)

\* A step of RoutingStep keeps the parents.
LEMMA AfterRooted ==
    ASSUME NEW d, NEW R, NEW T, Directed(d, R, T), NEW N, NEW H, H \subseteq HeapNodes, Rooted(N, H),
           NEW top, top \in Query!Minima(H), NEW u, NEW off
    PROVE  LET K == Query!HeapAfter(H, top, d, u, off)
           IN  Rooted(N, K) /\ \A h \in H : \E x \in K : x.node = h.node
<1> DEFINE K == Query!HeapAfter(H, top, d, u, off)
<1>1. Settles(d, H, top, K) \/ K = Query!DeleteAll(Rest(H, top))
  BY AfterStep
<1> HIDE DEF K
<1>2. Rooted(N, K) /\ \A h \in H : \E x \in K : x.node = h.node
  BY <1>1, SettlesRooted, StopsRooted
<1> QED
  BY <1>2 DEF K

\* The bound becomes smaller only where the searches meet.
LEMMA LowerMeets ==
    ASSUME NEW O, O \subseteq HeapNodes, NEW top \in HeapNodes, NEW ub \in Int
    PROVE  LET u == Query!Bound(O, top, ub)
           IN  u \in Int /\ u <= ub /\ (u # ub => u < ub /\ Query!WasInserted(O, top.node))
<1> DEFINE e == Query!Entry(O, top.node)
<1>1. Query!WasInserted(O, top.node) => e \in O
  BY DEF Query!WasInserted, Query!Entry
<1>2. top.weight \in Int /\ (Query!WasInserted(O, top.node) => e.weight \in Int)
  BY <1>1 DEF HeapNodes
<1> HIDE DEF e
<1> QED
  BY <1>2 DEF Query!Bound, e

\* A step of the forward search.
LEMMA RootingForward ==
    ASSUME Served, NEW S, NEW Q, NEW H, NEW O, NEW mid, NEW ub, NEW off,
           Rooting(S, Q, H, O, mid, ub), H \subseteq HeapNodes, O \subseteq HeapNodes,
           NEW top, top \in Query!Minima(H)
    PROVE  LET u == Query!Bound(O, top, ub)
           IN  Rooting(S, Q, Query!HeapAfter(H, top, "forward", u, off), O, IF u # ub THEN top.node ELSE mid, u)
<1> DEFINE u == Query!Bound(O, top, ub)
           K == Query!HeapAfter(H, top, "forward", u, off)
<1>0. /\ Rooted(NodesOf(S), H) /\ Rooted(NodesOf(Q), O) /\ ub \in Int /\ ub <= INT_MAX
      /\ ub = INT_MAX => mid = SPECIAL_NODEID
      /\ ub # INT_MAX => Query!WasInserted(H, mid) /\ Query!WasInserted(O, mid)
  BY DEF Rooting
<1>1. top \in H /\ top \in HeapNodes /\ INT_MAX \in Int
  BY TopIs, ContractorAssumption
<1>2. u \in Int /\ u <= ub /\ (u # ub => u < ub /\ Query!WasInserted(O, top.node))
  BY <1>0, <1>1, LowerMeets
<1>3. Directed("forward", ForwardArcs(edges), InputArcs)
  BY ForwardDirected
<1> HIDE DEF u
<1>4. Rooted(NodesOf(S), K) /\ \A h \in H : \E x \in K : x.node = h.node
  BY <1>0, <1>3, AfterRooted
<1> HIDE DEF K
<1>5. Query!WasInserted(K, top.node) /\ (Query!WasInserted(H, mid) => Query!WasInserted(K, mid))
  BY <1>1, <1>4 DEF Query!WasInserted
<1> DEFINE m == IF u # ub THEN top.node ELSE mid
<1>6. u = INT_MAX => u = ub /\ m = mid
  BY <1>0, <1>1, <1>2
<1>7. u # INT_MAX => Query!WasInserted(K, m) /\ Query!WasInserted(O, m)
  BY <1>0, <1>2, <1>5
<1>8. u <= INT_MAX
  BY <1>0, <1>1, <1>2
<1> HIDE DEF m
<1>9. Rooting(S, Q, K, O, m, u)
  BY <1>0, <1>2, <1>4, <1>6, <1>7, <1>8 DEF Rooting
<1> QED
  BY <1>9 DEF u, K, m

\* A step of the reverse search.
LEMMA RootingReverse ==
    ASSUME Served, NEW S, NEW Q, NEW H, NEW O, NEW mid, NEW ub, NEW off,
           Rooting(S, Q, H, O, mid, ub), H \subseteq HeapNodes, O \subseteq HeapNodes,
           NEW top, top \in Query!Minima(O)
    PROVE  LET u == Query!Bound(H, top, ub)
           IN  Rooting(S, Q, H, Query!HeapAfter(O, top, "reverse", u, off), IF u # ub THEN top.node ELSE mid, u)
<1> DEFINE u == Query!Bound(H, top, ub)
           K == Query!HeapAfter(O, top, "reverse", u, off)
<1>0. /\ Rooted(NodesOf(S), H) /\ Rooted(NodesOf(Q), O) /\ ub \in Int /\ ub <= INT_MAX
      /\ ub = INT_MAX => mid = SPECIAL_NODEID
      /\ ub # INT_MAX => Query!WasInserted(H, mid) /\ Query!WasInserted(O, mid)
  BY DEF Rooting
<1>1. top \in O /\ top \in HeapNodes /\ INT_MAX \in Int
  BY TopIs, ContractorAssumption
<1>2. u \in Int /\ u <= ub /\ (u # ub => u < ub /\ Query!WasInserted(H, top.node))
  BY <1>0, <1>1, LowerMeets
<1>3. Directed("reverse", BackwardArcs(edges), Opposite)
  BY ReverseDirected
<1> HIDE DEF u
<1>4. Rooted(NodesOf(Q), K) /\ \A h \in O : \E x \in K : x.node = h.node
  BY <1>0, <1>3, AfterRooted
<1> HIDE DEF K
<1>5. Query!WasInserted(K, top.node) /\ (Query!WasInserted(O, mid) => Query!WasInserted(K, mid))
  BY <1>1, <1>4 DEF Query!WasInserted
<1> DEFINE m == IF u # ub THEN top.node ELSE mid
<1>6. u = INT_MAX => u = ub /\ m = mid
  BY <1>0, <1>1, <1>2
<1>7. u # INT_MAX => Query!WasInserted(H, m) /\ Query!WasInserted(K, m)
  BY <1>0, <1>2, <1>5
<1>8. u <= INT_MAX
  BY <1>0, <1>1, <1>2
<1> HIDE DEF m
<1>9. Rooting(S, Q, H, K, m, u)
  BY <1>0, <1>2, <1>4, <1>6, <1>7, <1>8 DEF Rooting
<1> QED
  BY <1>9 DEF u, K, m

\* Filling the heaps for a search.
LEMMA RootingStarts ==
    ASSUME NEW S, NEW Q, Query!FillHeaps([source |-> S, target |-> Q])
    PROVE  /\ Rooting(S, Q, forward_heap', reverse_heap', middle', upper_bound')
           /\ leg'.source = S /\ leg'.target = Q
<1> DEFINE l == [source |-> S, target |-> Q]
<1>1. l.source = S /\ l.target = Q
  OBVIOUS
<1>2. Query!FillHeaps(l)
  OBVIOUS
<1> HIDE DEF l
<1>3. forward_heap' = {Query!HeapNode(p.node, -p.offset, p.node) : p \in S}
  BY <1>1, <1>2 DEF Query!FillHeaps
<1>4. reverse_heap' = {Query!HeapNode(p.node, p.offset, p.node) : p \in Q}
  BY <1>1, <1>2 DEF Query!FillHeaps
<1>5. middle' = SPECIAL_NODEID /\ upper_bound' = INT_MAX /\ leg' = l
  BY <1>2 DEF Query!FillHeaps
<1>6. forward_heap' = StartHeap(FromSources(S)) /\ reverse_heap' = StartHeap(FromTargets(Q))
  BY <1>3, <1>4, SourcesHeap, TargetsHeap
<1>7. {p.node : p \in FromSources(S)} = NodesOf(S) /\ {p.node : p \in FromTargets(Q)} = NodesOf(Q)
  <2> DEFINE a(s) == [node |-> s.node, key |-> -s.offset]
             b(s) == [node |-> s.node, key |-> s.offset]
  <2>1. \A s : a(s).node = s.node /\ b(s).node = s.node
    OBVIOUS
  <2>2. FromSources(S) = {a(s) : s \in S} /\ FromTargets(Q) = {b(s) : s \in Q}
    BY DEF FromSources, FromTargets
  <2> HIDE DEF a, b
  <2> QED
    BY <2>1, <2>2 DEF NodesOf
<1>8. Rooted(NodesOf(S), forward_heap') /\ Rooted(NodesOf(Q), reverse_heap')
  BY <1>6, <1>7, StartRooted
<1>9. INT_MAX \in Int
  BY ContractorAssumption
<1> QED
  BY <1>1, <1>5, <1>8, <1>9 DEF Rooting

\* What a search has found: a path from a source to a target if it has met, or nothing.
IsFound(f, S, Q) ==
    /\ f.upper_bound \in Int /\ f.upper_bound <= INT_MAX
    /\ f.packed = <<>> \/ PathBetween(f.packed, NodesOf(S), NodesOf(Q))
    /\ f.middle # SPECIAL_NODEID => f.packed # <<>>
    /\ f.upper_bound # INT_MAX => f.packed # <<>>

\* That is so when a search ends.
LEMMA FoundIs ==
    ASSUME Active, NEW S, NEW Q, Rooting(S, Q, forward_heap, reverse_heap, middle, upper_bound)
    PROVE  IsFound(Query!Found, S, Q)
<1> DEFINE H == forward_heap
           O == reverse_heap
           path == Query!PackedPath
           f == Query!Found
<1>1. H \subseteq HeapNodes /\ O \subseteq HeapNodes /\ OneEach(H) /\ OneEach(O)
  BY DEF Active, Searching, SoundHeap
<1>2. /\ Rooted(NodesOf(S), H) /\ Rooted(NodesOf(Q), O)
      /\ upper_bound \in Int /\ upper_bound <= INT_MAX
      /\ upper_bound = INT_MAX => middle = SPECIAL_NODEID
      /\ upper_bound # INT_MAX => Query!WasInserted(H, middle) /\ Query!WasInserted(O, middle)
  BY DEF Rooting
<1>3. /\ f.upper_bound = upper_bound /\ f.middle = middle
      /\ f.packed = IF upper_bound = INT_MAX THEN <<>> ELSE path
  BY DEF Query!Found
<1>4. path = Query!PackedPathOf(H, O, middle)
  BY DEF Query!PackedPath
<1>5. ASSUME upper_bound # INT_MAX PROVE PathBetween(path, NodesOf(S), NodesOf(Q)) /\ path # <<>>
  <2>1. PICK h \in H, o \in O : h.node = middle /\ o.node = middle
    BY <1>2, <1>5 DEF Query!WasInserted
  <2> HIDE DEF H, O, path
  <2>2. path = Query!PackedPathOf(H, O, h.node) /\ o.node = h.node
    BY <1>4, <2>1
  <2>3. path \in Seq(NodeIDs) /\ Len(path) >= 1 /\ path[1] \in NodesOf(S) /\ path[Len(path)] \in NodesOf(Q)
    BY <1>1, <1>2, <2>2, PackedLeads
  <2>4. path # <<>>
    BY <2>3
  <2> QED
    BY <2>3, <2>4 DEF PathBetween
<1> HIDE DEF f, path
<1>6. IsFound(f, S, Q)
  BY <1>2, <1>3, <1>5 DEF IsFound
<1> QED
  BY <1>6 DEF f

\* A leg that is not found is replaced by the other one; without a turn the first one, if
\* found, still ends in the first direction and the second one in the second direction.
LEMMA ReplacedAre ==
    ASSUME NEW found1, NEW found, NEW S, NEW p, NEW a, NEW b,
           IsFound(found1, S, Query!Existing(p.forward, a)), IsFound(found, S, Query!Existing(p.reverse, b)),
           ~(found1.upper_bound = INT_MAX /\ found.upper_bound = INT_MAX)
    PROVE  LET leg1 == Query!Replaced(found1, found)
               leg2 == Query!Replaced(found, leg1)
           IN  /\ PathBetween(leg1.packed, NodesOf(S), NodesOf(Points(p)))
               /\ PathBetween(leg2.packed, NodesOf(S), NodesOf(Points(p)))
               /\ ~Query!allow_u_turn /\ found1.middle # SPECIAL_NODEID => Query!Last(leg1.packed) = p.forward
               /\ ~Query!allow_u_turn /\ found.middle # SPECIAL_NODEID => Query!Last(leg2.packed) = p.reverse
<1> DEFINE leg1 == Query!Replaced(found1, found)
           leg2 == Query!Replaced(found, leg1)
<1>0. INT_MAX \in Int
  BY ContractorAssumption
<1>1. /\ found1.upper_bound \in Int /\ found1.upper_bound <= INT_MAX
      /\ found1.packed = <<>> \/ PathBetween(found1.packed, NodesOf(S), NodesOf(Query!Existing(p.forward, a)))
      /\ found1.middle # SPECIAL_NODEID => found1.packed # <<>>
      /\ found1.upper_bound # INT_MAX => found1.packed # <<>>
  BY DEF IsFound
<1>2. /\ found.upper_bound \in Int /\ found.upper_bound <= INT_MAX
      /\ found.packed = <<>> \/ PathBetween(found.packed, NodesOf(S), NodesOf(Query!Existing(p.reverse, b)))
      /\ found.middle # SPECIAL_NODEID => found.packed # <<>>
      /\ found.upper_bound # INT_MAX => found.packed # <<>>
  BY DEF IsFound
<1>3. /\ leg1 = IF (Query!allow_u_turn /\ found1.upper_bound > found.upper_bound) \/ found1.packed = <<>>
                THEN found ELSE found1
      /\ leg2 = IF (Query!allow_u_turn /\ found.upper_bound > leg1.upper_bound) \/ found.packed = <<>>
                THEN leg1 ELSE found
  BY DEF Query!Replaced
<1>4. /\ NodesOf(Query!Existing(p.forward, a)) \subseteq {p.forward} \cap NodesOf(Points(p))
      /\ NodesOf(Query!Existing(p.reverse, b)) \subseteq {p.reverse} \cap NodesOf(Points(p))
  <2>1. \A n, o : Query!At(n, o).node = n
    BY DEF Query!At
  <2>2. \A n, o : NodesOf(Query!Existing(n, o)) = IF n = SPECIAL_NODEID THEN {} ELSE {n}
    BY <2>1 DEF Query!Existing, NodesOf
  <2>3. NodesOf(Points(p)) = NodesOf(Query!Existing(p.forward, p.forward_offset))
                             \cup NodesOf(Query!Existing(p.reverse, p.reverse_offset))
    BY DEF Points, NodesOf
  <2> QED
    BY <2>2, <2>3
<1> HIDE DEF leg1, leg2
<1>5. leg1.packed # <<>> /\ leg1 \in {found1, found}
  BY <1>0, <1>1, <1>2, <1>3
<1>6. leg2.packed # <<>> /\ leg2 \in {found1, found}
  BY <1>3, <1>5
<1>7. ASSUME NEW x \in {found1, found}, x.packed # <<>>
      PROVE  PathBetween(x.packed, NodesOf(S), NodesOf(Points(p)))
  BY <1>1, <1>2, <1>4, <1>7 DEF PathBetween
<1>8. ASSUME ~Query!allow_u_turn, found1.middle # SPECIAL_NODEID PROVE Query!Last(leg1.packed) = p.forward
  <2>1. leg1 = found1 /\ found1.packed # <<>>
    BY <1>1, <1>3, <1>8
  <2> QED
    BY <1>1, <1>4, <2>1 DEF PathBetween, Query!Last
<1>9. ASSUME ~Query!allow_u_turn, found.middle # SPECIAL_NODEID PROVE Query!Last(leg2.packed) = p.reverse
  <2>1. leg2 = found /\ found.packed # <<>>
    BY <1>2, <1>3, <1>9
  <2> QED
    BY <1>2, <1>4, <2>1 DEF PathBetween, Query!Last
<1> QED
  BY <1>5, <1>6, <1>7, <1>8, <1>9 DEF leg1, leg2

-----------------------------------------------------------------------------
(* The loop over the legs *)

\* The direction that the search is for.
Toward ==
    LET p == Query!TargetPhantom
    IN  IF journey.second THEN Query!Existing(p.reverse, p.reverse_offset)
        ELSE Query!Existing(p.forward, p.forward_offset)

\* The search of a leg.
Underway ==
    /\ leg.source = Query!LegSource /\ leg.target = Toward
    /\ Rooting(leg.source, leg.target, forward_heap, reverse_heap, middle, upper_bound)
    /\ journey.second =>
         IsFound(journey.found1, leg.source,
                 Query!Existing(Query!TargetPhantom.forward, Query!TargetPhantom.forward_offset))

\* The inductive invariant of the loop.
Routed ==
    /\ Chained(journey)
    /\ turn \in {"none", "idle"} => ~journey.second
    /\ turn = "none" => journey.status # "route"
    /\ turn \in {"alt forward", "alt reverse"} => request.service = "alternative"
    /\ journey.status = "route" => Len(request.phantoms) = journey.current_leg + 1
    /\ request.service = "route" /\ turn \in Searches => Underway

\* The locations stay while the route is put together.
LEMMA ChainedNext ==
    ASSUME UNCHANGED request, Chained(journey')
    PROVE  Chained(journey)'
<1>1. \A i : At(i)' = At(i)
  BY DEF At
<1>2. \A i : MayTurn(i)' <=> MayTurn(i)
  BY DEF MayTurn
<1>3. \A legs, k : IsChain(legs, k)' <=> IsChain(legs, k)
  BY <1>1, <1>2 DEF IsChain
<1>4. \A j : Arrives(j)' <=> Arrives(j)
  BY DEF Arrives
<1>5. \A j : Chained(j)' <=> Chained(j)
  BY <1>2, <1>3, <1>4 DEF Chained
<1> QED
  BY <1>5

\* What the next leg starts from depends on the loop only.
LEMMA LegStays ==
    ASSUME UNCHANGED request, journey'.current_leg = journey.current_leg,
           journey'.distance1 = journey.distance1, journey'.distance2 = journey.distance2,
           journey'.search_from_1st_node = journey.search_from_1st_node,
           journey'.search_from_2nd_node = journey.search_from_2nd_node
    PROVE  UNCHANGED <<Query!LegSource, Query!TargetPhantom>>
<1>1. UNCHANGED <<Query!SourcePhantom, Query!TargetPhantom>>
  BY DEF Query!SourcePhantom, Query!TargetPhantom
<1>2. Query!allow_u_turn' <=> Query!allow_u_turn
  BY DEF Query!allow_u_turn
<1>3. UNCHANGED Query!LegSource
  BY <1>1, <1>2 DEF Query!LegSource
<1> QED
  BY <1>1, <1>3

\* Where a search of the engine has nothing to do with the legs.
LEMMA AsideRouted ==
    ASSUME Routed, UNCHANGED <<request, journey>>,
           turn' \notin {"none", "idle"}, turn' \in Searches => request.service = "alternative"
    PROVE  Routed'
<1>1. Chained(journey)'
  BY ChainedNext DEF Routed
<1>2. turn' \in {"alt forward", "alt reverse"} => turn' \in Searches
  BY DEF Searches
<1>3. request'.service = "route" => turn' \notin Searches
  OBVIOUS
<1> QED
  BY <1>1, <1>2, <1>3 DEF Routed

\* A step of a search.
LEMMA RoutingRouted ==
    ASSUME Served, Engaged, Routed, Query!RoutingStep, UNCHANGED <<request, journey>>
    PROVE  Routed'
<1>0. turn \in {"forward", "reverse"} /\ turn' \in {"forward", "reverse", "done"} /\ UNCHANGED leg
  BY DEF Query!RoutingStep, Query!RoutingStepForward, Query!RoutingStepReverse, Query!Turn
<1>1. Chained(journey)'
  BY ChainedNext DEF Routed
<1>2. ASSUME request.service = "route" PROVE Underway'
  <2>1. Underway /\ Active
    BY <1>0, <1>2 DEF Routed, Engaged, Searches
  <2>2. forward_heap \subseteq HeapNodes /\ reverse_heap \subseteq HeapNodes
    BY <2>1 DEF Active, Searching, SoundHeap
  <2>3. Rooting(leg.source, leg.target, forward_heap, reverse_heap, middle, upper_bound)
    BY <2>1 DEF Underway
  <2>4. Rooting(leg.source, leg.target, forward_heap', reverse_heap', middle', upper_bound')
    <3>1. CASE Query!RoutingStepForward
      <4>1. PICK top \in Query!Minima(forward_heap) :
              LET u == Query!Bound(reverse_heap, top, upper_bound)
              IN  /\ upper_bound' = u
                  /\ middle' = IF u # upper_bound THEN top.node ELSE middle
                  /\ forward_heap' = Query!HeapAfter(forward_heap, top, "forward", u, min_edge_offset)
        BY <3>1 DEF Query!RoutingStepForward
      <4>2. UNCHANGED reverse_heap
        BY <3>1 DEF Query!RoutingStepForward
      <4> QED
        BY <2>2, <2>3, <4>1, <4>2, RootingForward
    <3>2. CASE Query!RoutingStepReverse
      <4>1. PICK top \in Query!Minima(reverse_heap) :
              LET u == Query!Bound(forward_heap, top, upper_bound)
              IN  /\ upper_bound' = u
                  /\ middle' = IF u # upper_bound THEN top.node ELSE middle
                  /\ reverse_heap' = Query!HeapAfter(reverse_heap, top, "reverse", u, min_edge_offset)
        BY <3>2 DEF Query!RoutingStepReverse
      <4>2. UNCHANGED forward_heap
        BY <3>2 DEF Query!RoutingStepReverse
      <4> QED
        BY <2>2, <2>3, <4>1, <4>2, RootingReverse
    <3> QED
      BY <3>1, <3>2 DEF Query!RoutingStep
  <2>5. UNCHANGED <<Query!LegSource, Query!TargetPhantom>>
    BY LegStays
  <2> QED
    BY <1>0, <2>1, <2>4, <2>5 DEF Underway, Toward
<1> QED
  BY <1>0, <1>1, <1>2 DEF Routed

\* The first search of a leg.
LEMMA StartLegRouted ==
    ASSUME Routed, Query!StartLeg
    PROVE  Routed'
<1> DEFINE S == Query!LegSource
           p == Query!TargetPhantom
           Q == Query!Existing(p.forward, p.forward_offset)
<1>1. /\ turn = "idle" /\ request.service = "route" /\ UNCHANGED <<request, journey>>
      /\ Query!FillHeaps([source |-> S, target |-> Q]) /\ turn' \in {"forward", "reverse", "done"}
  BY DEF Query!StartLeg, Query!FirstTurn
<1>2. Chained(journey)'
  BY <1>1, ChainedNext DEF Routed
<1>3. UNCHANGED <<Query!LegSource, Query!TargetPhantom>>
  BY <1>1, LegStays
<1>4. ~journey.second
  BY <1>1 DEF Routed
<1>5. Rooting(S, Q, forward_heap', reverse_heap', middle', upper_bound') /\ leg'.source = S /\ leg'.target = Q
  BY <1>1, RootingStarts
<1>6. Underway'
  BY <1>1, <1>3, <1>4, <1>5 DEF Underway, Toward
<1> QED
  BY <1>1, <1>2, <1>4, <1>6 DEF Routed

\* The second search of a leg.
LEMMA SecondTargetRouted ==
    ASSUME Engaged, Routed, Query!SearchSecondTarget
    PROVE  Routed'
<1> DEFINE S == Query!LegSource
           p == Query!TargetPhantom
           Q == Query!Existing(p.reverse, p.reverse_offset)
           found == Query!Found
<1>1. /\ turn = "done" /\ request.service = "route" /\ ~journey.second /\ UNCHANGED request
      /\ journey' = [journey EXCEPT !.second = TRUE, !.found1 = found]
      /\ Query!FillHeaps([source |-> S, target |-> Q]) /\ turn' \in {"forward", "reverse", "done"}
  BY DEF Query!SearchSecondTarget, Query!FirstTurn
<1>2. Active /\ Underway /\ Chained(journey) /\ Journeying
  BY <1>1 DEF Engaged, Routed, Searches
<1>3. IsFound(found, S, Query!Existing(p.forward, p.forward_offset))
  <2>1. /\ Rooting(leg.source, leg.target, forward_heap, reverse_heap, middle, upper_bound)
        /\ leg.source = S /\ leg.target = Query!Existing(p.forward, p.forward_offset)
    BY <1>1, <1>2 DEF Underway, Toward
  <2> QED
    BY <1>2, <2>1, FoundIs
<1> HIDE DEF found
<1>4. /\ DOMAIN journey' = DOMAIN journey /\ journey'.current_leg = journey.current_leg
      /\ journey'.distance1 = journey.distance1 /\ journey'.distance2 = journey.distance2
      /\ journey'.search_from_1st_node = journey.search_from_1st_node
      /\ journey'.search_from_2nd_node = journey.search_from_2nd_node
      /\ journey'.packed_legs1 = journey.packed_legs1 /\ journey'.packed_legs2 = journey.packed_legs2
      /\ journey'.status = journey.status /\ journey'.found1 = found /\ journey'.second
  BY <1>1, <1>2 DEF Chained, Journeying
<1>5. Chained(journey')
  BY <1>2, <1>4 DEF Chained, Arrives
<1>6. Chained(journey)'
  BY <1>1, <1>5, ChainedNext
<1>7. UNCHANGED <<Query!LegSource, Query!TargetPhantom>>
  BY <1>1, <1>4, LegStays
<1>8. Rooting(S, Q, forward_heap', reverse_heap', middle', upper_bound') /\ leg'.source = S /\ leg'.target = Q
  BY <1>1, RootingStarts
<1>9. Underway'
  BY <1>3, <1>4, <1>7, <1>8 DEF Underway, Toward
<1>10. journey'.status = "route" => Len(request'.phantoms) = journey'.current_leg + 1
  BY <1>1, <1>4 DEF Routed
<1> QED
  BY <1>1, <1>6, <1>9, <1>10 DEF Routed

\* The chains that go on with the legs of both searches.
LEMMA LegsJoined ==
    ASSUME Engaged, Routed, turn = "done", request.service = "route", journey.second,
           ~(journey.found1.upper_bound = INT_MAX /\ Query!Found.upper_bound = INT_MAX)
    PROVE  LET k == journey.current_leg
               leg1 == Query!Replaced(journey.found1, Query!Found)
               leg2 == Query!Replaced(Query!Found, leg1)
               j == Query!Joined(leg1, leg2)
               p == Query!TargetPhantom
               ends == {Query!Last(j.leg1.packed), Query!Last(j.leg2.packed)}
           IN  /\ IsChain(Append(j.legs1, j.leg1.packed), k + 1)
               /\ IsChain(Append(j.legs2, j.leg2.packed), k + 1)
               /\ Append(j.legs1, j.leg1.packed)[k + 1] = j.leg1.packed
               /\ Append(j.legs2, j.leg2.packed)[k + 1] = j.leg2.packed
               /\ ~MayTurn(k) /\ journey.found1.middle # SPECIAL_NODEID => p.forward \in ends
               /\ ~MayTurn(k) /\ Query!Found.middle # SPECIAL_NODEID => p.reverse \in ends
<1> DEFINE k == journey.current_leg
           found1 == journey.found1
           found == Query!Found
           leg1 == Query!Replaced(found1, found)
           leg2 == Query!Replaced(found, leg1)
           j == Query!Joined(leg1, leg2)
           p == Query!TargetPhantom
           ends == {Query!Last(j.leg1.packed), Query!Last(j.leg2.packed)}
<1>1. Active /\ Underway /\ Chained(journey) /\ k \in Nat
  BY DEF Engaged, Routed, Searches, Journeying
<1>2. IsFound(found1, Query!LegSource, Query!Existing(p.forward, p.forward_offset))
  BY <1>1 DEF Underway
<1>3. IsFound(found, Query!LegSource, Query!Existing(p.reverse, p.reverse_offset))
  <2>1. /\ Rooting(leg.source, leg.target, forward_heap, reverse_heap, middle, upper_bound)
        /\ leg.source = Query!LegSource /\ leg.target = Query!Existing(p.reverse, p.reverse_offset)
    BY <1>1 DEF Underway, Toward
  <2> QED
    BY <1>1, <2>1, FoundIs
<1>4. p = request.phantoms[k + 2] /\ At(k + 2) = Points(p)
  BY DEF Query!TargetPhantom, At
<1>5. Query!allow_u_turn <=> MayTurn(k)
  BY DEF MayTurn, Query!allow_u_turn
<1> HIDE DEF found1, found, p
<1>6. ~(found1.upper_bound = INT_MAX /\ found.upper_bound = INT_MAX)
  BY DEF found1, found
<1>7. /\ PathBetween(leg1.packed, NodesOf(Query!LegSource), NodesOf(At(k + 2)))
      /\ PathBetween(leg2.packed, NodesOf(Query!LegSource), NodesOf(At(k + 2)))
      /\ ~MayTurn(k) /\ found1.middle # SPECIAL_NODEID => Query!Last(leg1.packed) = p.forward
      /\ ~MayTurn(k) /\ found.middle # SPECIAL_NODEID => Query!Last(leg2.packed) = p.reverse
  <2>1. /\ PathBetween(leg1.packed, NodesOf(Query!LegSource), NodesOf(Points(p)))
        /\ PathBetween(leg2.packed, NodesOf(Query!LegSource), NodesOf(Points(p)))
        /\ ~Query!allow_u_turn /\ found1.middle # SPECIAL_NODEID => Query!Last(leg1.packed) = p.forward
        /\ ~Query!allow_u_turn /\ found.middle # SPECIAL_NODEID => Query!Last(leg2.packed) = p.reverse
    BY <1>2, <1>3, <1>6, ReplacedAre
  <2> HIDE DEF leg1, leg2
  <2> QED
    BY <1>4, <1>5, <2>1
<1> HIDE DEF leg1, leg2
<1>8. /\ IsChain(Append(j.legs1, j.leg1.packed), k + 1)
      /\ IsChain(Append(j.legs2, j.leg2.packed), k + 1)
      /\ (j.leg1 = leg1 /\ j.leg2 = leg2) \/ (j.leg1 = leg2 /\ j.leg2 = leg1)
  BY <1>1, <1>7, JoinedIs
<1>9. /\ j.legs1 \in {journey.packed_legs1, journey.packed_legs2}
      /\ j.legs2 \in {journey.packed_legs1, journey.packed_legs2}
  BY DEF Query!Joined
<1> HIDE DEF j
<1>10. /\ j.legs1 \in Seq(Seq(NodeIDs)) /\ Len(j.legs1) = k
       /\ j.legs2 \in Seq(Seq(NodeIDs)) /\ Len(j.legs2) = k
  BY <1>1, <1>9 DEF Chained, IsChain
<1>11. /\ Append(j.legs1, j.leg1.packed)[k + 1] = j.leg1.packed
       /\ Append(j.legs2, j.leg2.packed)[k + 1] = j.leg2.packed
  BY <1>1, <1>10
<1>12. /\ ~MayTurn(k) /\ found1.middle # SPECIAL_NODEID => p.forward \in ends
       /\ ~MayTurn(k) /\ found.middle # SPECIAL_NODEID => p.reverse \in ends
  BY <1>7, <1>8
<1> QED
  BY <1>8, <1>11, <1>12 DEF j, leg1, leg2, found1, found, p

\* Giving up changes nothing else.
LEMMA StatusSet ==
    ASSUME NEW x, NEW y, y = [x EXCEPT !.status = "no route"],
           {"current_leg", "search_from_1st_node", "search_from_2nd_node", "packed_legs1", "packed_legs2",
            "status"} \subseteq DOMAIN x
    PROVE  /\ DOMAIN y = DOMAIN x /\ y.current_leg = x.current_leg
           /\ y.search_from_1st_node = x.search_from_1st_node
           /\ y.search_from_2nd_node = x.search_from_2nd_node
           /\ y.packed_legs1 = x.packed_legs1 /\ y.packed_legs2 = x.packed_legs2
           /\ y.status = "no route"
OBVIOUS

\* Both searches of a leg have ended.
LEMMA FinishLegRouted ==
    ASSUME Engaged, Routed, Query!FinishLeg
    PROVE  Routed'
<1> DEFINE k == journey.current_leg
           found == Query!Found
           found1 == journey.found1
           leg1 == Query!Replaced(found1, found)
           leg2 == Query!Replaced(found, leg1)
           j == Query!Joined(leg1, leg2)
           p == Query!TargetPhantom
           last == journey.current_leg + 2 = Len(request.phantoms)
           none == found1.upper_bound = INT_MAX /\ found.upper_bound = INT_MAX
           A == Append(j.legs1, j.leg1.packed)
           B == Append(j.legs2, j.leg2.packed)
           Legs(a, b, c, d, e) ==
             [current_leg |-> journey.current_leg + 1, second |-> FALSE, found1 |-> <<>>,
              distance1 |-> j.leg1.upper_bound, distance2 |-> j.leg2.upper_bound,
              search_from_1st_node |-> a, search_from_2nd_node |-> b,
              packed_legs1 |-> c, packed_legs2 |-> d, status |-> e]
           last2 == Query!Last(j.leg2.packed)
           same_end == /\ ~Query!allow_u_turn /\ Query!Last(j.leg1.packed) = last2
                       /\ Query!IsBidirected(Query!TargetPhantom)
           from1 == found1.middle # SPECIAL_NODEID /\ ~(same_end /\ last2 = Query!TargetPhantom.reverse)
           from2 == found.middle # SPECIAL_NODEID /\ ~(same_end /\ last2 = Query!TargetPhantom.forward)
           status == IF last THEN "route" ELSE "running"
<1>1. turn = "done" /\ request.service = "route" /\ journey.second /\ UNCHANGED request
  BY DEF Query!FinishLeg
<1>2. \/ journey' = [journey EXCEPT !.status = "no route"] /\ turn' = "answered"
      \/ ~none /\ journey' = Legs(from1, from2, A, B, status) /\ turn' = IF last THEN "answered" ELSE "idle"
  BY Zenon DEF Query!FinishLeg
<1>3. Chained(journey) /\ Journeying /\ k \in Nat
  BY DEF Engaged, Routed, Journeying
<1>4. CASE journey' = [journey EXCEPT !.status = "no route"] /\ turn' = "answered"
  <2>1. /\ DOMAIN journey' = DOMAIN journey /\ journey'.current_leg = journey.current_leg
        /\ journey'.search_from_1st_node = journey.search_from_1st_node
        /\ journey'.search_from_2nd_node = journey.search_from_2nd_node
        /\ journey'.packed_legs1 = journey.packed_legs1 /\ journey'.packed_legs2 = journey.packed_legs2
        /\ journey'.status = "no route"
    <3>1. {"current_leg", "search_from_1st_node", "search_from_2nd_node", "packed_legs1", "packed_legs2",
           "status"} \subseteq DOMAIN journey
      BY <1>3 DEF Chained, Journeying
    <3>2. journey' = [journey EXCEPT !.status = "no route"]
      BY <1>4
    <3> QED
      BY <3>1, <3>2, StatusSet
  <2>2. Chained(journey')
    BY <1>3, <2>1 DEF Chained, Arrives
  <2>3. Chained(journey)'
    BY <1>1, <2>2, ChainedNext
  <2> QED
    BY <1>4, <2>1, <2>3 DEF Routed, Searches
<1>5. CASE ~none /\ journey' = Legs(from1, from2, A, B, status) /\ turn' = IF last THEN "answered" ELSE "idle"
  <2>1. /\ IsChain(A, k + 1) /\ IsChain(B, k + 1)
        /\ A[k + 1] = j.leg1.packed /\ B[k + 1] = j.leg2.packed
        /\ ~MayTurn(k) /\ found1.middle # SPECIAL_NODEID =>
             p.forward \in {Query!Last(j.leg1.packed), Query!Last(j.leg2.packed)}
        /\ ~MayTurn(k) /\ found.middle # SPECIAL_NODEID =>
             p.reverse \in {Query!Last(j.leg1.packed), Query!Last(j.leg2.packed)}
    BY <1>1, <1>5, LegsJoined
  <2>2. p = request.phantoms[k + 2]
    BY DEF Query!TargetPhantom
  <2>3. (from1 => found1.middle # SPECIAL_NODEID) /\ (from2 => found.middle # SPECIAL_NODEID)
    OBVIOUS
  <2>4. status = IF last THEN "route" ELSE "running"
    OBVIOUS
  <2> HIDE DEF A, B, from1, from2, j, p, found, found1, status
  <2>5. /\ journey'.current_leg = k + 1 /\ ~journey'.second
        /\ journey'.packed_legs1 = A /\ journey'.packed_legs2 = B
        /\ journey'.status = status
        /\ DOMAIN journey' = {"current_leg", "second", "found1", "distance1", "distance2", "search_from_1st_node",
                              "search_from_2nd_node", "packed_legs1", "packed_legs2", "status"}
    BY <1>5
  <2>6. (journey'.search_from_1st_node <=> from1) /\ (journey'.search_from_2nd_node <=> from2)
    BY <1>5
  <2> HIDE DEF Legs
  <2>7. ASSUME ~MayTurn(k) PROVE Arrives(journey')
    <3>1. (k + 1) + 1 = k + 2
      BY <1>3
    <3>2. /\ request.phantoms[journey'.current_leg + 1] = p
          /\ journey'.packed_legs1[journey'.current_leg] = j.leg1.packed
          /\ journey'.packed_legs2[journey'.current_leg] = j.leg2.packed
      BY <2>1, <2>2, <2>5, <3>1
    <3> QED
      BY <2>1, <2>3, <2>6, <2>7, <3>2 DEF Arrives
  <2>8. Chained(journey')
    <3>1. (k + 1) - 1 = k
      BY <1>3
    <3>2. {"second", "found1", "packed_legs1", "packed_legs2", "search_from_1st_node",
           "search_from_2nd_node", "status"} \subseteq DOMAIN journey'
      BY <2>5
    <3>3. MayTurn(journey'.current_leg - 1) \/ Arrives(journey')
      BY <2>5, <2>7, <3>1
    <3> QED
      BY <2>1, <2>5, <3>2, <3>3 DEF Chained
  <2>9. Chained(journey)'
    BY <1>1, <2>8, ChainedNext
  <2>10. journey'.status = "route" => Len(request'.phantoms) = journey'.current_leg + 1
    BY <1>1, <1>3, <2>4, <2>5
  <2>11. turn' \in {"answered", "idle"}
    BY <1>5
  <2> QED
    BY <2>5, <2>9, <2>10, <2>11 DEF Routed, Searches
<1> QED
  BY <1>2, <1>4, <1>5

\* A request is accepted.
LEMMA AcceptRouted ==
    ASSUME Engaged, Routed, Query!HandleViaRoute \/ Query!HandleTable
    PROVE  Routed'
<1>1. turn = "none" /\ turn' \in {"refused", "idle"} /\ UNCHANGED journey
  BY DEF Query!HandleViaRoute, Query!HandleTable, Query!Accept
<1>2. journey.current_leg = 0 /\ journey.status # "route" /\ ~journey.second /\ Chained(journey)
  BY <1>1 DEF Engaged, Routed
<1>3. \A legs : IsChain(legs, 0) <=> legs \in Seq(Seq(NodeIDs)) /\ Len(legs) = 0
  BY DEF IsChain
<1>4. \A legs : IsChain(legs, 0)' <=> legs \in Seq(Seq(NodeIDs)) /\ Len(legs) = 0
  BY DEF IsChain
<1>5. Chained(journey)'
  BY <1>1, <1>2, <1>3, <1>4 DEF Chained
<1> QED
  BY <1>1, <1>2, <1>5 DEF Routed, Searches

\* The steps of the engine put routes together.
LEMMA StepRouted ==
    ASSUME Served, Engaged, Routed,
           Query!HandleViaRoute \/ Query!HandleTable \/ Query!EngineStep \/ Query!SelectAlternative
    PROVE  Routed'
<1>1. CASE TableStep
  <2>1. turn' \in {"backward step", "forward step", "answered"} /\ UNCHANGED <<request, journey>>
    BY <1>1 DEF TableStep, Query!StartTable, Query!BackwardRoutingStep, Query!ForwardRoutingStep,
                Query!NextLocation
  <2> QED
    BY <2>1, AsideRouted DEF Searches
<1>2. CASE Query!SelectAlternative
  <2>1. turn' = "answered" /\ UNCHANGED <<request, journey>>
    BY <1>2 DEF Query!SelectAlternative
  <2> QED
    BY <2>1, AsideRouted DEF Searches
<1>3. CASE Query!StartAlternative \/ Query!AlternativeStepForward \/ Query!AlternativeStepReverse
  <2>1. /\ turn' \in {"alt forward", "alt reverse", "done"} /\ UNCHANGED <<request, journey>>
        /\ turn \in {"alt forward", "alt reverse"} \/ request.service = "alternative"
    BY <1>3 DEF Query!StartAlternative, Query!AlternativeStepForward, Query!AlternativeStepReverse,
                Query!AlternativeTurn, Query!Turn
  <2>2. request.service = "alternative"
    BY <2>1 DEF Routed
  <2> QED
    BY <2>1, <2>2, AsideRouted
<1>4. CASE Query!RoutingStep /\ UNCHANGED <<request, journey>>
  BY <1>4, RoutingRouted
<1>5. CASE Query!StartLeg \/ Query!SearchSecondTarget \/ Query!FinishLeg
  BY <1>5, StartLegRouted, SecondTargetRouted, FinishLegRouted
<1>6. CASE Query!HandleViaRoute \/ Query!HandleTable
  BY <1>6, AcceptRouted
<1> QED
  BY <1>1, <1>2, <1>3, <1>4, <1>5, <1>6 DEF Query!EngineStep, TableStep

-----------------------------------------------------------------------------
(* The legs of every route connect *)

\* A route stays when only the hierarchy is worked on.
LEMMA RoutedKept ==
    ASSUME Routed, UNCHANGED search
    PROVE  Routed'
<1>1. UNCHANGED <<leg, forward_heap, reverse_heap, middle, upper_bound, turn, request, journey>>
  BY DEF search
<1>2. Chained(journey)'
  BY <1>1, ChainedNext DEF Routed
<1>3. UNCHANGED <<Query!LegSource, Query!TargetPhantom>>
  BY <1>1, LegStays
<1>4. Underway => Underway'
  BY <1>1, <1>3 DEF Underway, Toward
<1> QED
  BY <1>1, <1>2, <1>4 DEF Routed

\* Every step preserves the two invariants.
LEMMA NextRouted == Planning /\ Routed /\ [PlanNext]_planvars => Routed'
<1> SUFFICES ASSUME Planning, Routed, [PlanNext]_planvars PROVE Routed'
  OBVIOUS
<1>0. Hierarchy /\ Engaged /\ (loaded => Loaded)
  BY DEF Planning
<1>1. CASE UNCHANGED search
  BY <1>1, RoutedKept
<1>2. CASE HandleRequest \/ SearchStep \/ SelectAlternative
  <2>1. /\ loaded
        /\ Query!HandleViaRoute \/ Query!HandleTable \/ Query!EngineStep \/ Query!SelectAlternative
    BY <1>2 DEF HandleRequest, SearchStep, SelectAlternative
  <2>2. Served
    BY <1>0, <2>1, LoadedServes
  <2> QED
    BY <1>0, <2>1, <2>2, StepRouted
<1> QED
  BY <1>1, <1>2 DEF PlanNext, Prepare, WriteGraph, planvars

\* There are no legs before a request.
LEMMA InitRouted == PlanInit => Routed
<1> SUFFICES ASSUME PlanInit PROVE Routed
  OBVIOUS
<1>1. journey = Query!StartOfJourney /\ turn = "none"
  BY DEF PlanInit, Query!EngineInit, Query!SearchInit
<1>2. /\ journey.current_leg = 0 /\ ~journey.second /\ journey.status = "running"
      /\ journey.packed_legs1 = <<>> /\ journey.packed_legs2 = <<>>
      /\ {"second", "found1", "packed_legs1", "packed_legs2", "search_from_1st_node",
          "search_from_2nd_node", "status"} \subseteq DOMAIN journey
  BY <1>1 DEF Query!StartOfJourney
<1>3. IsChain(<<>>, 0)
  BY DEF IsChain
<1>4. Chained(journey)
  BY <1>2, <1>3 DEF Chained
<1> QED
  BY <1>1, <1>2, <1>4 DEF Routed, Searches

\* The chain that is returned connects the locations.
LEMMA RoutedConnects == Planning /\ Routed => RouteConnects
<1> SUFFICES ASSUME Planning, Routed, journey.status = "route"
             PROVE  /\ Len(Query!packed_legs) = Len(request.phantoms) - 1
                    /\ \A i \in DOMAIN Query!packed_legs :
                         /\ \E s \in Points(request.phantoms[i]), t \in Points(request.phantoms[i + 1]) :
                              Query!packed_legs[i][1] = s.node /\ Query!Last(Query!packed_legs[i]) = t.node
                         /\ ~MayTurn(i) /\ ~MayTurn(i - 1) => GoesOn(Query!packed_legs, i)
  BY DEF RouteConnects
<1> DEFINE legs == Query!packed_legs
           k == journey.current_leg
<1>1. k \in Nat /\ Chained(journey) /\ Len(request.phantoms) = k + 1
  BY DEF Planning, Engaged, Journeying, Routed
<1>2. legs \in {journey.packed_legs1, journey.packed_legs2}
  BY DEF Query!packed_legs
<1> HIDE DEF legs, k
<1>3. IsChain(legs, k)
  BY <1>1, <1>2 DEF Chained, k
<1>4. /\ legs \in Seq(Seq(NodeIDs)) /\ Len(legs) = k
      /\ \A i \in 1 .. k : PathBetween(legs[i], NodesOf(At(i)), NodesOf(At(i + 1)))
      /\ \A i \in 1 .. k - 1 : MayTurn(i) \/ MayTurn(i - 1) \/ Query!Last(legs[i]) = legs[i + 1][1]
  BY <1>3 DEF IsChain
<1>5. DOMAIN legs = 1 .. k /\ Len(legs) = Len(request.phantoms) - 1
  BY <1>1, <1>4
<1>6. ASSUME NEW i \in 1 .. k
      PROVE  \E s \in Points(request.phantoms[i]), t \in Points(request.phantoms[i + 1]) :
               legs[i][1] = s.node /\ Query!Last(legs[i]) = t.node
  <2>1. legs[i][1] \in NodesOf(At(i)) /\ Query!Last(legs[i]) \in NodesOf(At(i + 1))
    BY <1>4 DEF PathBetween, Query!Last
  <2> QED
    BY <2>1 DEF NodesOf, At
<1>7. ASSUME NEW i \in 1 .. k, ~MayTurn(i), ~MayTurn(i - 1) PROVE GoesOn(legs, i)
  <2>1. SUFFICES ASSUME i + 1 \in 1 .. k PROVE Query!Last(legs[i]) = legs[i + 1][1]
    BY <1>5 DEF GoesOn
  <2>2. i \in 1 .. k - 1
    BY <1>1, <2>1
  <2> QED
    BY <1>4, <1>7, <2>2
<1> QED
  BY <1>5, <1>6, <1>7 DEF legs

\* Every route that is returned has one leg between any two consecutive locations, a path
\* from a node of the first to a node of the second, and goes on where it arrives unless
\* it may turn there or has just turned: whatever the exchanges of legs and the
\* replacements of chains that did not go on (ShortestPathRouting).
THEOREM RoutesConnect == PlanSpec => []RouteConnects
BY InitPlanning, NextPlanning, InitRouted, NextRouted, RoutedConnects, PTL DEF PlanSpec
=============================================================================
