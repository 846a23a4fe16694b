-------------------------- MODULE ContractorProofs ---------------------------
(***************************************************************************)
(* Correctness of the contraction hierarchy for every input graph, every   *)
(* order of contraction and every bound on witness searches: rounds are    *)
(* independent, distances between remaining nodes are those of the input,  *)
(* and upward searches on the finished hierarchy find them.                *)
(***************************************************************************)
EXTENDS Contractor, DataInduction, FiniteSetTheorems

-----------------------------------------------------------------------------
(* Walks *)

Arcs == [from : NodeIDs, to : NodeIDs, weight : Nat \ {0}]
Budgets == 0 .. INT_MAX - 1
Triples == NodeIDs \X NodeIDs \X Budgets

\* There is a walk from u to v that weighs at most w.
Walk(A, u, v, w) == \E k \in 0 .. w : <<u, v, k>> \in Shortest(A)

\* One level of Shortest.
Level(A, lighter, w) ==
    LET reached == {<<t[1], t[2]>> : t \in lighter}
        Arrives(u, v) ==
          u = v \/ \E a \in A : a.to = v /\ <<u, a.from, w - a.weight>> \in lighter
    IN  lighter \cup {<<p[1], p[2], w>> :
                       p \in {q \in NodeIDs \X NodeIDs \ reached : Arrives(q[1], q[2])}}

\* The levels of Shortest exist, and the last one is Shortest.
LEMMA Levels ==
    ASSUME NEW A
    PROVE  \E f : /\ f \in [Budgets -> SUBSET Triples]
                  /\ \A w \in Budgets : f[w] = Level(A, IF w = 0 THEN {} ELSE f[w - 1], w)
                  /\ Shortest(A) = f[INT_MAX - 1]
<1> DEFINE IsRun(f) == f = [w \in Budgets |-> Level(A, IF w = 0 THEN {} ELSE f[w - 1], w)]
           turn == CHOOSE f : IsRun(f)
           Turns(g, n) ==
             /\ g \in [0 .. n -> SUBSET Triples]
             /\ \A w \in 0 .. n : g[w] = Level(A, IF w = 0 THEN {} ELSE g[w - 1], w)
           Done == {n \in Nat : n < INT_MAX => \E g : Turns(g, n)}
<1>0. INT_MAX \in Nat \ {0} /\ INT_MAX - 1 \in Budgets
  BY ContractorAssumption DEF Budgets
<1>1. Shortest(A) = turn[INT_MAX - 1]
  BY DEF Shortest, Level, Budgets
<1>2. \A w \in Budgets, l \in SUBSET Triples : Level(A, l, w) \in SUBSET Triples
  BY DEF Level, Triples
<1>3. 0 \in Done
  <2> DEFINE g == [w \in 0 .. 0 |-> Level(A, {}, 0)]
  <2>1. Turns(g, 0)
    BY <1>0, <1>2 DEF Budgets
  <2> QED
    BY <2>1
<1>4. ASSUME NEW n \in Nat, n \in Done PROVE n + 1 \in Done
  <2> SUFFICES ASSUME n + 1 < INT_MAX PROVE \E g : Turns(g, n + 1)
    OBVIOUS
  <2>1. PICK g : Turns(g, n)
    BY <1>0, <1>4
  <2> DEFINE h == [w \in 0 .. n + 1 |-> IF w = n + 1 THEN Level(A, g[n], w) ELSE g[w]]
  <2>2. n + 1 \in Budgets /\ g[n] \in SUBSET Triples
    BY <1>0, <2>1 DEF Budgets
  <2>3. h \in [0 .. n + 1 -> SUBSET Triples]
    BY <1>2, <2>1, <2>2
  <2>4. ASSUME NEW w \in 0 .. n + 1 PROVE h[w] = Level(A, IF w = 0 THEN {} ELSE h[w - 1], w)
    <3>1. CASE w = n + 1
      <4>1. h[w] = Level(A, g[n], w) /\ h[w - 1] = g[n] /\ w # 0
        BY <3>1
      <4> QED
        BY <4>1
    <3>2. CASE w \in 0 .. n
      <4>1. h[w] = g[w] /\ (w # 0 => h[w - 1] = g[w - 1])
        BY <3>2
      <4> QED
        BY <2>1, <3>2, <4>1
    <3> QED
      BY <3>1, <3>2
  <2>5. Turns(h, n + 1)
    BY <2>3, <2>4
  <2> HIDE DEF h
  <2> QED
    BY <2>5
<1>5. Nat \subseteq Done
  <2> HIDE DEF Done
  <2> QED
    BY <1>3, <1>4, Induction
<1>6. PICK g : Turns(g, INT_MAX - 1)
  BY <1>0, <1>5
<1>7. IsRun(g)
  BY <1>6 DEF Budgets
<1>8. IsRun(turn)
  <2> HIDE DEF IsRun
  <2> QED
    BY <1>7
<1> HIDE DEF turn
<1> DEFINE Same == {w \in 0 .. INT_MAX - 1 : turn[w] = g[w]}
<1>9. 0 \in Same
  BY <1>0, <1>7, <1>8 DEF Budgets
<1>10. ASSUME NEW w \in 0 .. INT_MAX - 1 - 1, w \in Same PROVE w + 1 \in Same
  <2>1. w + 1 \in Budgets /\ w + 1 # 0 /\ (w + 1) - 1 = w /\ turn[w] = g[w]
    BY <1>0, <1>10 DEF Budgets
  <2>2. turn[w + 1] = Level(A, turn[w], w + 1) /\ g[w + 1] = Level(A, g[w], w + 1)
    BY <1>7, <1>8, <2>1
  <2> QED
    BY <1>0, <2>1, <2>2
<1>11. 0 .. INT_MAX - 1 \subseteq Same
  <2> HIDE DEF Same
  <2> QED
    BY <1>0, <1>9, <1>10, BoundedInduction
<1>12. turn[INT_MAX - 1] = g[INT_MAX - 1]
  BY <1>0, <1>11 DEF Budgets
<1> QED
  BY <1>1, <1>6, <1>12 DEF Budgets

\* The level of weight w finds a first walk from u to v.
Found(A, l, w, u, v) ==
    /\ \A j \in Budgets : <<u, v, j>> \notin l
    /\ u = v \/ \E a \in A : a.to = v /\ <<u, a.from, w - a.weight>> \in l

\* What a level adds.
LEMMA LevelMember ==
    ASSUME NEW A, NEW l \in SUBSET Triples, NEW w \in Budgets,
           NEW u \in NodeIDs, NEW v \in NodeIDs, NEW k \in Budgets
    PROVE  <<u, v, k>> \in Level(A, l, w) <=>
             <<u, v, k>> \in l \/ (k = w /\ Found(A, l, w, u, v))
<1> DEFINE reached == {<<t[1], t[2]>> : t \in l}
           Arrives(x, y) == x = y \/ \E a \in A : a.to = y /\ <<x, a.from, w - a.weight>> \in l
           pairs == {q \in NodeIDs \X NodeIDs \ reached : Arrives(q[1], q[2])}
           added == {<<p[1], p[2], w>> : p \in pairs}
<1>1. Level(A, l, w) = l \cup added
  BY DEF Level
<1>2. <<u, v>> \in reached <=> \E j \in Budgets : <<u, v, j>> \in l
  <2>1. ASSUME <<u, v>> \in reached PROVE \E j \in Budgets : <<u, v, j>> \in l
    <3>1. PICK t \in l : <<u, v>> = <<t[1], t[2]>>
      BY <2>1
    <3>2. t \in Triples /\ t = <<t[1], t[2], t[3]>> /\ t[3] \in Budgets
      BY DEF Triples
    <3>3. t[1] = u /\ t[2] = v
      BY <3>1
    <3> QED
      BY <3>2, <3>3
  <2>2. ASSUME NEW j \in Budgets, <<u, v, j>> \in l PROVE <<u, v>> \in reached
    <3> DEFINE t == <<u, v, j>>
    <3>1. t[1] = u /\ t[2] = v /\ t \in l
      BY <2>2
    <3> QED
      BY <3>1
  <2> QED
    BY <2>1, <2>2
<1>3. <<u, v>> \in pairs <=> <<u, v>> \notin reached /\ Arrives(u, v)
  OBVIOUS
<1>4. <<u, v, k>> \in added <=> k = w /\ <<u, v>> \in pairs
  <2>1. ASSUME <<u, v, k>> \in added PROVE k = w /\ <<u, v>> \in pairs
    <3>1. PICK p \in pairs : <<u, v, k>> = <<p[1], p[2], w>>
      BY <2>1
    <3>2. p = <<p[1], p[2]>>
      OBVIOUS
    <3>3. u = p[1] /\ v = p[2] /\ k = w
      BY <3>1
    <3> QED
      BY <3>2, <3>3
  <2>2. ASSUME k = w, <<u, v>> \in pairs PROVE <<u, v, k>> \in added
    <3> DEFINE p == <<u, v>>
    <3>1. p[1] = u /\ p[2] = v /\ p \in pairs
      BY <2>2
    <3> QED
      BY <3>1, <2>2
  <2> QED
    BY <2>1, <2>2
<1> HIDE DEF reached, pairs, added
<1> QED
  BY <1>1, <1>2, <1>3, <1>4 DEF Found

\* Shortest walks are made of shortest walks and one arc, and every such walk is at least
\* as heavy as a shortest one.
LEMMA ShortestMember ==
    ASSUME NEW A \in SUBSET Arcs
    PROVE  /\ Shortest(A) \in SUBSET Triples
           /\ \A u, v \in NodeIDs, w \in Budgets :
                /\ <<u, v, w>> \in Shortest(A) =>
                     u = v \/ \E a \in A : a.to = v /\ <<u, a.from, w - a.weight>> \in Shortest(A)
                /\ (u = v \/ \E a \in A : a.to = v /\ <<u, a.from, w - a.weight>> \in Shortest(A)) =>
                     \E k \in 0 .. w : <<u, v, k>> \in Shortest(A)
<1>0. INT_MAX \in Nat \ {0} /\ INT_MAX - 1 \in Budgets
  BY ContractorAssumption DEF Budgets
<1>1. PICK f : /\ f \in [Budgets -> SUBSET Triples]
               /\ \A w \in Budgets : f[w] = Level(A, IF w = 0 THEN {} ELSE f[w - 1], w)
               /\ Shortest(A) = f[INT_MAX - 1]
  BY Levels
<1>2. \A w \in Budgets : f[w] \in SUBSET Triples
  BY <1>1
<1> DEFINE Before(w) == IF w = 0 THEN {} ELSE f[w - 1]
<1>3. \A w \in Budgets : Before(w) \in SUBSET Triples /\ f[w] = Level(A, Before(w), w)
  <2>1. \A w \in Budgets : w # 0 => w - 1 \in Budgets
    BY <1>0 DEF Budgets
  <2> QED
    BY <1>1, <1>2, <2>1
<1>4. \A w \in Budgets, u, v \in NodeIDs, k \in Budgets :
        <<u, v, k>> \in f[w] <=>
             <<u, v, k>> \in Before(w) \/ (k = w /\ Found(A, Before(w), w, u, v))
  <2> TAKE w \in Budgets, u, v \in NodeIDs, k \in Budgets
  <2>1. Before(w) \in SUBSET Triples /\ f[w] = Level(A, Before(w), w)
    BY <1>3
  <2> DEFINE l == Before(w)
  <2>2. l \in SUBSET Triples /\ f[w] = Level(A, l, w)
    BY <2>1
  <2> HIDE DEF l
  <2>3. <<u, v, k>> \in Level(A, l, w) <=>
             <<u, v, k>> \in l \/ (k = w /\ Found(A, l, w, u, v))
    BY <2>2, LevelMember
  <2> QED
    BY <2>2, <2>3 DEF l
<1> DEFINE Upto == {w \in 0 .. INT_MAX - 1 : \A u, v \in NodeIDs, k \in Budgets :
                      <<u, v, k>> \in f[w] <=> k <= w /\ <<u, v, k>> \in f[k]}
<1>5. 0 \in Upto
  <2>1. 0 \in Budgets /\ Before(0) = {}
    BY <1>0 DEF Budgets
  <2>2. \A u, v \in NodeIDs, k \in Budgets : <<u, v, k>> \in f[0] => k = 0
    BY <1>4, <2>1
  <2> QED
    BY <1>0, <2>2 DEF Budgets
<1>6. ASSUME NEW w \in 0 .. (INT_MAX - 1) - 1, w \in Upto PROVE w + 1 \in Upto
  <2>1. w + 1 \in Budgets /\ w \in Budgets /\ Before(w + 1) = f[w] /\ w \in Nat
    BY <1>0 DEF Budgets
  <2> SUFFICES ASSUME NEW u \in NodeIDs, NEW v \in NodeIDs, NEW k \in Budgets
               PROVE  <<u, v, k>> \in f[w + 1] <=> k <= w + 1 /\ <<u, v, k>> \in f[k]
    BY <2>1 DEF Budgets
  <2>2. <<u, v, k>> \in f[w] <=> k <= w /\ <<u, v, k>> \in f[k]
    BY <1>6
  <2>3. <<u, v, k>> \in f[w + 1] => k = w + 1 \/ <<u, v, k>> \in f[w]
    BY <1>4, <2>1
  <2>4. <<u, v, k>> \in f[w] => <<u, v, k>> \in f[w + 1]
    BY <1>4, <2>1
  <2> QED
    BY <2>1, <2>2, <2>3, <2>4 DEF Budgets
<1>7. 0 .. INT_MAX - 1 \subseteq Upto
  <2> HIDE DEF Upto
  <2> QED
    BY <1>0, <1>5, <1>6, BoundedInduction
<1>8. \A w \in Budgets, u, v \in NodeIDs, k \in Budgets :
        <<u, v, k>> \in f[w] <=> k <= w /\ <<u, v, k>> \in f[k]
  BY <1>7 DEF Budgets
<1> DEFINE S == Shortest(A)
<1>9. \A u, v \in NodeIDs, k \in Budgets : <<u, v, k>> \in S <=> <<u, v, k>> \in f[k]
  <2>1. \A k \in Budgets : k <= INT_MAX - 1
    BY <1>0 DEF Budgets
  <2>2. S = f[INT_MAX - 1]
    BY <1>1
  <2> HIDE DEF S
  <2> QED
    BY <1>0, <1>8, <2>1, <2>2
<1>10. \A w \in Budgets, u, v \in NodeIDs, k \in Budgets :
        <<u, v, k>> \in Before(w) <=> k < w /\ <<u, v, k>> \in S
  <2> TAKE w \in Budgets, u, v \in NodeIDs, k \in Budgets
  <2>1. w = 0 \/ w - 1 \in Budgets
    BY <1>0 DEF Budgets
  <2>2. k <= w - 1 <=> k < w
    BY DEF Budgets
  <2>3. CASE w = 0
    BY <2>3 DEF Budgets
  <2> QED
    BY <1>8, <1>9, <2>1, <2>2, <2>3
<1>11. \A w \in Budgets, u \in NodeIDs, a \in A :
         <<u, a.from, w - a.weight>> \in Before(w) <=> <<u, a.from, w - a.weight>> \in S
  <2> TAKE w \in Budgets, u \in NodeIDs, a \in A
  <2>1. a.from \in NodeIDs /\ a.weight \in Nat \ {0}
    BY DEF Arcs
  <2>2. S \in SUBSET Triples /\ Before(w) \in SUBSET Triples
    BY <1>0, <1>2, <1>1, <1>3
  <2>3. CASE w - a.weight \in Budgets
    <3>1. w - a.weight < w
      BY <2>1 DEF Budgets
    <3> QED
      BY <1>10, <2>1, <2>3, <3>1
  <2>4. CASE w - a.weight \notin Budgets
    <3>1. <<u, a.from, w - a.weight>> \notin Triples
      BY <2>4 DEF Triples
    <3> QED
      BY <2>2, <3>1
  <2> QED
    BY <2>3, <2>4
<1>12. S \in SUBSET Triples
  BY <1>0, <1>1, <1>2
<1> SUFFICES ASSUME NEW u \in NodeIDs, NEW v \in NodeIDs, NEW w \in Budgets
             PROVE  /\ <<u, v, w>> \in S =>
                         u = v \/ \E a \in A : a.to = v /\ <<u, a.from, w - a.weight>> \in S
                    /\ (u = v \/ \E a \in A : a.to = v /\ <<u, a.from, w - a.weight>> \in S) =>
                         \E k \in 0 .. w : <<u, v, k>> \in S
  BY <1>12
<1> HIDE DEF Before, S, Upto
<1>13. <<u, v, w>> \in S <=>
         /\ \A j \in Budgets : <<u, v, j>> \notin Before(w)
         /\ u = v \/ \E a \in A : a.to = v /\ <<u, a.from, w - a.weight>> \in S
  <2>1. ~(w < w)
    BY DEF Budgets
  <2>2. <<u, v, w>> \notin Before(w)
    BY <1>10, <2>1
  <2>3. <<u, v, w>> \in S <=> <<u, v, w>> \in f[w]
    BY <1>9
  <2>4. \A a \in A : <<u, a.from, w - a.weight>> \in Before(w) <=> <<u, a.from, w - a.weight>> \in S
    BY <1>11
  <2>5. <<u, v, w>> \in f[w] <=> <<u, v, w>> \in Before(w) \/ Found(A, Before(w), w, u, v)
    BY <1>4
  <2> QED
    BY <2>2, <2>3, <2>4, <2>5 DEF Found
<1>14. ASSUME NEW j \in Budgets, <<u, v, j>> \in Before(w) PROVE \E k \in 0 .. w : <<u, v, k>> \in S
  BY <1>10, <1>14 DEF Budgets
<1>15. w \in 0 .. w
  BY DEF Budgets
<1> QED
  BY <1>13, <1>14, <1>15

\* A walk ends where it begins or with an arc.
LEMMA WalkStep ==
    ASSUME NEW A \in SUBSET Arcs, NEW u \in NodeIDs, NEW v \in NodeIDs, NEW w \in Budgets
    PROVE  Walk(A, u, v, w) <=> u = v \/ \E a \in A : a.to = v /\ Walk(A, u, a.from, w - a.weight)
<1>0. INT_MAX \in Nat \ {0}
  BY ContractorAssumption
<1> DEFINE S == Shortest(A)
<1>1. /\ S \in SUBSET Triples
      /\ \A x, y \in NodeIDs, k \in Budgets :
                /\ <<x, y, k>> \in S =>
                     x = y \/ \E a \in A : a.to = y /\ <<x, a.from, k - a.weight>> \in S
                /\ (x = y \/ \E a \in A : a.to = y /\ <<x, a.from, k - a.weight>> \in S) =>
                     \E j \in 0 .. k : <<x, y, j>> \in S
  BY ShortestMember
<1>2. \A x, y, k : Walk(A, x, y, k) <=> \E j \in 0 .. k : <<x, y, j>> \in S
  BY DEF Walk
<1> HIDE DEF S
<1>3. ASSUME Walk(A, u, v, w)
      PROVE  u = v \/ \E a \in A : a.to = v /\ Walk(A, u, a.from, w - a.weight)
  <2>1. PICK k \in 0 .. w : <<u, v, k>> \in S
    BY <1>2, <1>3
  <2>2. k \in Budgets
    BY <1>0 DEF Budgets
  <2>3. CASE u = v
    BY <2>3
  <2>4. CASE \E a \in A : a.to = v /\ <<u, a.from, k - a.weight>> \in S
    <3>1. PICK a \in A : a.to = v /\ <<u, a.from, k - a.weight>> \in S
      BY <2>4
    <3>2. a.weight \in Nat \ {0}
      BY DEF Arcs
    <3>3. k - a.weight \in Budgets
      BY <1>1, <3>1 DEF Triples
    <3>4. k - a.weight \in 0 .. w - a.weight
      BY <1>0, <3>2, <3>3 DEF Budgets
    <3> QED
      BY <1>2, <3>1, <3>4
  <2> QED
    BY <1>1, <2>1, <2>2, <2>3, <2>4
<1>4. ASSUME u = v PROVE Walk(A, u, v, w)
  BY <1>1, <1>2, <1>4
<1>5. ASSUME NEW a \in A, a.to = v, Walk(A, u, a.from, w - a.weight)
      PROVE  Walk(A, u, v, w)
  <2>1. PICK k \in 0 .. w - a.weight : <<u, a.from, k>> \in S
    BY <1>2, <1>5
  <2>2. a.weight \in Nat \ {0}
    BY DEF Arcs
  <2>3. k + a.weight \in Budgets /\ k + a.weight <= w /\ (k + a.weight) - a.weight = k
    BY <1>0, <2>1, <2>2 DEF Budgets
  <2>4. PICK j \in 0 .. k + a.weight : <<u, v, j>> \in S
    BY <1>1, <1>5, <2>1, <2>3
  <2>5. j \in 0 .. w
    BY <2>3, <2>4 DEF Budgets
  <2> QED
    BY <1>2, <2>4, <2>5
<1> QED
  BY <1>3, <1>4, <1>5

\* A heavier weight allows no less.
LEMMA WalkMono ==
    ASSUME NEW A, NEW u, NEW v, NEW w \in Int, NEW x \in Int, w <= x, Walk(A, u, v, w)
    PROVE  Walk(A, u, v, x)
<1>1. 0 .. w \subseteq 0 .. x
  OBVIOUS
<1> QED
  BY <1>1 DEF Walk

\* The weight of a walk is not negative.
LEMMA WalkWeight ==
    ASSUME NEW A, NEW u, NEW v, NEW w \in Int, Walk(A, u, v, w)
    PROVE  w >= 0
BY DEF Walk

\* Standing still weighs nothing.
LEMMA WalkHere ==
    ASSUME NEW A \in SUBSET Arcs, NEW u \in NodeIDs, NEW w \in Budgets
    PROVE  Walk(A, u, u, w)
BY WalkStep

\* An arc is a walk.
LEMMA WalkArc ==
    ASSUME NEW A \in SUBSET Arcs, NEW a \in A, NEW w \in Budgets, a.weight <= w
    PROVE  Walk(A, a.from, a.to, w)
<1>1. a.from \in NodeIDs /\ a.to \in NodeIDs /\ a.weight \in Nat \ {0}
  BY DEF Arcs
<1>2. w - a.weight \in Budgets
  BY <1>1, ContractorAssumption DEF Budgets
<1> QED
  BY <1>1, <1>2, WalkStep, WalkHere

\* Walks follow each other.
LEMMA WalkJoin ==
    ASSUME NEW A \in SUBSET Arcs, NEW u \in NodeIDs, NEW x \in NodeIDs, NEW v \in NodeIDs,
           NEW i \in Budgets, NEW j \in Budgets, i + j \in Budgets,
           Walk(A, u, x, i), Walk(A, x, v, j)
    PROVE  Walk(A, u, v, i + j)
<1>0. INT_MAX \in Nat \ {0}
  BY ContractorAssumption
<1> DEFINE S == {k \in Budgets : i + k \in Budgets =>
                   \A y \in NodeIDs : Walk(A, x, y, k) => Walk(A, u, y, i + k)}
<1>1. ASSUME NEW k \in 0 .. INT_MAX - 1, 0 .. k - 1 \subseteq S PROVE k \in S
  <2>0. k \in Budgets
    BY DEF Budgets
  <2> SUFFICES ASSUME i + k \in Budgets, NEW y \in NodeIDs, Walk(A, x, y, k)
               PROVE  Walk(A, u, y, i + k)
    BY <2>0
  <2>1. CASE x = y
    <3>1. i <= i + k /\ i \in Int /\ i + k \in Int
      BY <2>0 DEF Budgets
    <3> QED
      BY <2>1, <3>1, WalkMono
  <2>2. CASE x # y
    <3>1. PICK a \in A : a.to = y /\ Walk(A, x, a.from, k - a.weight)
      BY <2>0, <2>2, WalkStep
    <3>2. a.weight \in Nat \ {0} /\ a.from \in NodeIDs
      BY DEF Arcs
    <3>3. k - a.weight >= 0
      BY <2>0, <3>1, <3>2, WalkWeight DEF Budgets
    <3>4. /\ k - a.weight \in 0 .. k - 1 /\ i + (k - a.weight) \in Budgets
          /\ i + (k - a.weight) = (i + k) - a.weight
      BY <1>0, <2>0, <3>2, <3>3 DEF Budgets
    <3>5. Walk(A, u, a.from, (i + k) - a.weight)
      BY <1>1, <3>1, <3>2, <3>4
    <3> QED
      BY <3>1, <3>5, WalkStep
  <2> QED
    BY <2>1, <2>2
<1>2. 0 .. INT_MAX - 1 \subseteq S
  <2> DEFINE top == INT_MAX - 1
  <2>1. top \in Nat
    BY <1>0
  <2>2. \A k \in 0 .. top : 0 .. k - 1 \subseteq S => k \in S
    BY <1>1
  <2> HIDE DEF S, top
  <2>3. 0 .. top \subseteq S
    BY <2>1, <2>2, StrongInduction
  <2> QED
    BY <2>3 DEF top
<1> QED
  BY <1>2 DEF Budgets

\* Every arc of A, renamed by f, can be walked in B.
Simulates(B, A, f) ==
    /\ A \in SUBSET Arcs /\ B \in SUBSET Arcs /\ f \in [NodeIDs -> NodeIDs]
    /\ \A a \in A : a.weight < INT_MAX => Walk(B, f[a.from], f[a.to], a.weight)

\* Then so can every walk.
LEMMA WalkSimulated ==
    ASSUME NEW A, NEW B, NEW f, Simulates(B, A, f),
           NEW u \in NodeIDs, NEW v \in NodeIDs, NEW w \in Budgets, Walk(A, u, v, w)
    PROVE  Walk(B, f[u], f[v], w)
<1>0. /\ A \in SUBSET Arcs /\ B \in SUBSET Arcs /\ f \in [NodeIDs -> NodeIDs]
      /\ \A a \in A : a.weight < INT_MAX => Walk(B, f[a.from], f[a.to], a.weight)
      /\ INT_MAX \in Nat \ {0}
  BY ContractorAssumption DEF Simulates
<1> DEFINE S == {k \in Budgets :
                   \A y \in NodeIDs : Walk(A, u, y, k) => Walk(B, f[u], f[y], k)}
<1>1. ASSUME NEW k \in 0 .. INT_MAX - 1, 0 .. k - 1 \subseteq S PROVE k \in S
  <2>0. k \in Budgets
    BY DEF Budgets
  <2> SUFFICES ASSUME NEW y \in NodeIDs, Walk(A, u, y, k)
               PROVE  Walk(B, f[u], f[y], k)
    BY <2>0
  <2>1. CASE u = y
    BY <1>0, <2>0, <2>1, WalkHere
  <2>2. CASE u # y
    <3>1. PICK a \in A : a.to = y /\ Walk(A, u, a.from, k - a.weight)
      BY <1>0, <2>0, <2>2, WalkStep
    <3>2. a.weight \in Nat \ {0} /\ a.from \in NodeIDs
      BY <1>0 DEF Arcs
    <3>3. k - a.weight >= 0
      BY <2>0, <3>1, <3>2, WalkWeight DEF Budgets
    <3>4. /\ k - a.weight \in 0 .. k - 1 /\ k - a.weight \in Budgets /\ a.weight \in Budgets
          /\ (k - a.weight) + a.weight = k /\ a.weight < INT_MAX
      BY <1>0, <2>0, <3>2, <3>3 DEF Budgets
    <3>5. Walk(B, f[u], f[a.from], k - a.weight)
      BY <1>1, <3>1, <3>2, <3>4
    <3>6. Walk(B, f[a.from], f[y], a.weight)
      BY <1>0, <3>1, <3>4
    <3>7. f[u] \in NodeIDs /\ f[a.from] \in NodeIDs /\ f[y] \in NodeIDs
      BY <1>0, <3>2
    <3>8. Walk(B, f[u], f[y], (k - a.weight) + a.weight)
      <4> DEFINE rest == k - a.weight
      <4>1. rest \in Budgets /\ rest + a.weight \in Budgets
        BY <2>0, <3>4
      <4>2. Walk(B, f[u], f[a.from], rest)
        BY <3>5
      <4> HIDE DEF rest
      <4>3. Walk(B, f[u], f[y], rest + a.weight)
        BY <1>0, <3>4, <3>6, <3>7, <4>1, <4>2, WalkJoin
      <4> QED
        BY <4>3 DEF rest
    <3> QED
      BY <3>4, <3>8
  <2> QED
    BY <2>1, <2>2
<1>2. 0 .. INT_MAX - 1 \subseteq S
  <2> DEFINE top == INT_MAX - 1
  <2>1. top \in Nat
    BY <1>0
  <2>2. \A k \in 0 .. top : 0 .. k - 1 \subseteq S => k \in S
    BY <1>1
  <2> HIDE DEF S, top
  <2>3. 0 .. top \subseteq S
    BY <2>1, <2>2, StrongInduction
  <2> QED
    BY <2>3 DEF top
<1> QED
  BY <1>2 DEF Budgets

\* Every arc of A can be walked in B.
Covers(B, A) ==
    /\ A \in SUBSET Arcs /\ B \in SUBSET Arcs
    /\ \A a \in A : a.weight < INT_MAX => Walk(B, a.from, a.to, a.weight)

\* Then so can every walk.
LEMMA WalkCovered ==
    ASSUME NEW A, NEW B, Covers(B, A),
           NEW u \in NodeIDs, NEW v \in NodeIDs, NEW w \in Budgets, Walk(A, u, v, w)
    PROVE  Walk(B, u, v, w)
<1> DEFINE f == [n \in NodeIDs |-> n]
<1>1. f \in [NodeIDs -> NodeIDs] /\ f[u] = u /\ f[v] = v
  OBVIOUS
<1>2. \A a \in A : f[a.from] = a.from /\ f[a.to] = a.to
  BY DEF Covers, Arcs
<1> HIDE DEF f
<1>3. Simulates(B, A, f)
  BY <1>1, <1>2 DEF Simulates, Covers
<1> QED
  BY <1>1, <1>3, WalkSimulated

\* No arc of A is lighter than the one of B with its ends.
Dominates(B, A) ==
    /\ A \in SUBSET Arcs /\ B \in SUBSET Arcs
    /\ \A a \in A : \E b \in B : b.from = a.from /\ b.to = a.to /\ b.weight <= a.weight

\* Lighter arcs allow no less.
LEMMA DominatesCovers ==
    ASSUME NEW A, NEW B, Dominates(B, A)
    PROVE  Covers(B, A)
<1> SUFFICES ASSUME NEW a \in A, a.weight < INT_MAX PROVE Walk(B, a.from, a.to, a.weight)
  BY DEF Dominates, Covers
<1>1. A \in SUBSET Arcs /\ B \in SUBSET Arcs
  BY DEF Dominates
<1>2. PICK b \in B : b.from = a.from /\ b.to = a.to /\ b.weight <= a.weight
  BY DEF Dominates
<1>3. a.weight \in Budgets
  BY <1>1, ContractorAssumption DEF Arcs, Budgets
<1> QED
  BY <1>1, <1>2, <1>3, WalkArc

\* Every arc of A has one of B in the opposite direction that is no heavier.
Reverses(B, A) ==
    /\ A \in SUBSET Arcs /\ B \in SUBSET Arcs
    /\ \A a \in A : \E b \in B : b.from = a.to /\ b.to = a.from /\ b.weight <= a.weight

\* Then so has every walk.
LEMMA WalkReversed ==
    ASSUME NEW A, NEW B, Reverses(B, A),
           NEW u \in NodeIDs, NEW v \in NodeIDs, NEW w \in Budgets, Walk(A, u, v, w)
    PROVE  Walk(B, v, u, w)
<1>0. /\ A \in SUBSET Arcs /\ B \in SUBSET Arcs
      /\ \A a \in A : \E b \in B : b.from = a.to /\ b.to = a.from /\ b.weight <= a.weight
      /\ INT_MAX \in Nat \ {0}
  BY ContractorAssumption DEF Reverses
<1> DEFINE S == {k \in Budgets :
                   \A y \in NodeIDs : Walk(A, u, y, k) => Walk(B, y, u, k)}
<1>1. ASSUME NEW k \in 0 .. INT_MAX - 1, 0 .. k - 1 \subseteq S PROVE k \in S
  <2>0. k \in Budgets
    BY DEF Budgets
  <2> SUFFICES ASSUME NEW y \in NodeIDs, Walk(A, u, y, k)
               PROVE  Walk(B, y, u, k)
    BY <2>0
  <2>1. CASE u = y
    BY <1>0, <2>0, <2>1, WalkHere
  <2>2. CASE u # y
    <3>1. PICK a \in A : a.to = y /\ Walk(A, u, a.from, k - a.weight)
      BY <1>0, <2>0, <2>2, WalkStep
    <3>2. a.weight \in Nat \ {0} /\ a.from \in NodeIDs
      BY <1>0 DEF Arcs
    <3>3. k - a.weight >= 0
      BY <2>0, <3>1, <3>2, WalkWeight DEF Budgets
    <3>4. /\ k - a.weight \in 0 .. k - 1 /\ k - a.weight \in Budgets /\ a.weight \in Budgets
          /\ a.weight + (k - a.weight) = k
      BY <1>0, <2>0, <3>2, <3>3 DEF Budgets
    <3>5. Walk(B, a.from, u, k - a.weight)
      BY <1>1, <3>1, <3>2, <3>4
    <3>6. PICK b \in B : b.from = a.to /\ b.to = a.from /\ b.weight <= a.weight
      BY <1>0
    <3>7. Walk(B, y, a.from, a.weight)
      BY <1>0, <3>1, <3>4, <3>6, WalkArc
    <3> QED
      BY <1>0, <2>0, <3>2, <3>4, <3>5, <3>7, WalkJoin
  <2> QED
    BY <2>1, <2>2
<1>2. 0 .. INT_MAX - 1 \subseteq S
  <2> DEFINE top == INT_MAX - 1
  <2>1. top \in Nat
    BY <1>0
  <2>2. \A k \in 0 .. top : 0 .. k - 1 \subseteq S => k \in S
    BY <1>1
  <2> HIDE DEF S, top
  <2>3. 0 .. top \subseteq S
    BY <2>1, <2>2, StrongInduction
  <2> QED
    BY <2>3 DEF top
<1> QED
  BY <1>2 DEF Budgets

\* A walk that leads elsewhere begins with an arc.
LEMMA WalkFirst ==
    ASSUME NEW A \in SUBSET Arcs, NEW u \in NodeIDs, NEW v \in NodeIDs, NEW w \in Budgets,
           Walk(A, u, v, w), u # v
    PROVE  \E a \in A : a.from = u /\ Walk(A, a.to, v, w - a.weight)
<1>0. INT_MAX \in Nat \ {0}
  BY ContractorAssumption
<1> DEFINE S == {k \in Budgets : \A y \in NodeIDs : Walk(A, u, y, k) /\ u # y =>
                   \E a \in A : a.from = u /\ Walk(A, a.to, y, k - a.weight)}
<1>1. ASSUME NEW k \in 0 .. INT_MAX - 1, 0 .. k - 1 \subseteq S PROVE k \in S
  <2>0. k \in Budgets
    BY DEF Budgets
  <2> SUFFICES ASSUME NEW y \in NodeIDs, Walk(A, u, y, k), u # y
               PROVE  \E a \in A : a.from = u /\ Walk(A, a.to, y, k - a.weight)
    BY <2>0
  <2>1. PICK b \in A : b.to = y /\ Walk(A, u, b.from, k - b.weight)
    BY <2>0, WalkStep
  <2>2. b.weight \in Nat \ {0} /\ b.from \in NodeIDs
    BY DEF Arcs
  <2>3. k - b.weight >= 0
    BY <2>0, <2>1, <2>2, WalkWeight DEF Budgets
  <2>4. k - b.weight \in 0 .. k - 1 /\ k - b.weight \in Budgets
    BY <1>0, <2>0, <2>2, <2>3 DEF Budgets
  <2>5. CASE u = b.from
    BY <2>1, <2>4, <2>5, WalkHere
  <2>6. CASE u # b.from
    <3>1. PICK a \in A : a.from = u /\ Walk(A, a.to, b.from, (k - b.weight) - a.weight)
      BY <1>1, <2>1, <2>2, <2>4, <2>6
    <3>2. a.weight \in Nat \ {0} /\ a.to \in NodeIDs
      BY DEF Arcs
    <3>3. (k - b.weight) - a.weight >= 0
      BY <2>4, <3>1, <3>2, WalkWeight DEF Budgets
    <3>4. k - a.weight \in Budgets /\ (k - b.weight) - a.weight = (k - a.weight) - b.weight
      BY <1>0, <2>0, <2>2, <3>2, <3>3 DEF Budgets
    <3>5. Walk(A, a.to, y, k - a.weight)
      BY <2>1, <3>1, <3>2, <3>4, WalkStep
    <3> QED
      BY <3>1, <3>5
  <2> QED
    BY <2>5, <2>6
<1>2. 0 .. INT_MAX - 1 \subseteq S
  <2> DEFINE top == INT_MAX - 1
  <2>1. top \in Nat
    BY <1>0
  <2>2. \A k \in 0 .. top : 0 .. k - 1 \subseteq S => k \in S
    BY <1>1
  <2> HIDE DEF S, top
  <2>3. 0 .. top \subseteq S
    BY <2>1, <2>2, StrongInduction
  <2> QED
    BY <2>3 DEF top
<1> QED
  BY <1>2 DEF Budgets

\* The least of some natural numbers.
LEMMA MinIs ==
    ASSUME NEW S, S \subseteq Nat, S # {}
    PROVE  Min(S) \in S /\ \A y \in S : Min(S) <= y
BY LeastNumber DEF Min

\* Distances say how light the walks are.
LEMMA DistanceIs ==
    ASSUME NEW A \in SUBSET Arcs, NEW u \in NodeIDs, NEW v \in NodeIDs
    PROVE  /\ Distance(Shortest(A), u, v) \in 0 .. INT_MAX
           /\ \A w \in Budgets : Walk(A, u, v, w) <=> Distance(Shortest(A), u, v) <= w
<1> DEFINE S == Shortest(A)
           W == {t[3] : t \in {s \in S : s[1] = u /\ s[2] = v}}
<1>0. INT_MAX \in Nat \ {0}
  BY ContractorAssumption
<1>1. S \in SUBSET Triples
  BY ShortestMember
<1>2. \A k : k \in W <=> k \in Budgets /\ <<u, v, k>> \in S
  <2>1. ASSUME NEW k \in W PROVE k \in Budgets /\ <<u, v, k>> \in S
    <3>1. PICK t \in S : t[1] = u /\ t[2] = v /\ k = t[3]
      OBVIOUS
    <3>2. t = <<t[1], t[2], t[3]>> /\ t[3] \in Budgets
      BY <1>1 DEF Triples
    <3> QED
      BY <3>1, <3>2
  <2>2. ASSUME NEW k \in Budgets, <<u, v, k>> \in S PROVE k \in W
    <3> DEFINE t == <<u, v, k>>
    <3>1. t \in S /\ t[1] = u /\ t[2] = v /\ t[3] = k
      BY <2>2
    <3> QED
      BY <3>1
  <2> QED
    BY <2>1, <2>2
<1>3. \A w : Walk(A, u, v, w) <=> \E k \in 0 .. w : <<u, v, k>> \in S
  BY DEF Walk
<1>4. Distance(Shortest(A), u, v) = MinWeight(W)
  BY DEF Distance
<1> HIDE DEF S, W
<1>5. CASE W = {}
  <2>1. MinWeight(W) = INT_MAX
    BY <1>5 DEF MinWeight
  <2>2. \A w \in Budgets : ~Walk(A, u, v, w) /\ ~(INT_MAX <= w)
    <3> TAKE w \in Budgets
    <3>1. \A k \in 0 .. w : k \in Budgets
      BY <1>0 DEF Budgets
    <3>2. ~(INT_MAX <= w)
      BY <1>0 DEF Budgets
    <3> QED
      BY <1>2, <1>3, <1>5, <3>1, <3>2
  <2> QED
    BY <1>0, <1>4, <2>1, <2>2
<1>6. CASE W # {}
  <2>1. MinWeight(W) = Min(W) /\ W \subseteq Nat
    <3>1. Budgets \subseteq Nat
      BY <1>0 DEF Budgets
    <3> QED
      BY <1>2, <1>6, <3>1 DEF MinWeight
  <2>2. Min(W) \in W /\ \A y \in W : Min(W) <= y
    BY <1>6, <2>1, MinIs
  <2> DEFINE m == Min(W)
  <2>3. m \in Budgets /\ <<u, v, m>> \in S
    BY <1>2, <2>2
  <2>4. m \in 0 .. INT_MAX
    BY <1>0, <2>3 DEF Budgets
  <2>5. ASSUME NEW w \in Budgets PROVE Walk(A, u, v, w) <=> m <= w
    <3>1. ASSUME Walk(A, u, v, w) PROVE m <= w
      <4>1. PICK k \in 0 .. w : <<u, v, k>> \in S
        BY <1>3, <3>1
      <4>2. k \in Budgets /\ k \in Int /\ w \in Int /\ m \in Int
        BY <1>0, <2>3 DEF Budgets
      <4>3. m <= k
        BY <1>2, <2>2, <4>1, <4>2
      <4> HIDE DEF m
      <4> QED
        BY <4>2, <4>3
    <3>2. ASSUME m <= w PROVE Walk(A, u, v, w)
      <4>1. m \in 0 .. w
        BY <1>0, <2>3, <3>2 DEF Budgets
      <4> QED
        BY <1>3, <2>3, <4>1
    <3> QED
      BY <3>1, <3>2
  <2> QED
    BY <1>4, <2>1, <2>4, <2>5
<1> QED
  BY <1>5, <1>6

\* The same walks give the same distance.
LEMMA SameDistance ==
    ASSUME NEW A \in SUBSET Arcs, NEW B \in SUBSET Arcs,
           NEW u \in NodeIDs, NEW v \in NodeIDs, NEW x \in NodeIDs, NEW y \in NodeIDs,
           \A w \in Budgets : Walk(A, u, v, w) <=> Walk(B, x, y, w)
    PROVE  Distance(Shortest(A), u, v) = Distance(Shortest(B), x, y)
<1> DEFINE d == Distance(Shortest(A), u, v)
           e == Distance(Shortest(B), x, y)
<1>1. d \in 0 .. INT_MAX /\ \A w \in Budgets : Walk(A, u, v, w) <=> d <= w
  BY DistanceIs
<1>2. e \in 0 .. INT_MAX /\ \A w \in Budgets : Walk(B, x, y, w) <=> e <= w
  BY DistanceIs
<1> HIDE DEF d, e
<1>3. \A w \in 0 .. INT_MAX - 1 : d <= w <=> e <= w
  BY <1>1, <1>2 DEF Budgets
<1>4. d = e
  BY <1>1, <1>2, <1>3, ContractorAssumption
<1> QED
  BY <1>4 DEF d, e

-----------------------------------------------------------------------------
(* Graphs *)

EdgeRecords ==
    [source : NodeIDs, target : NodeIDs, distance : Nat \ {0}, id : NodeIDs,
     shortcut : BOOLEAN, forward : BOOLEAN, backward : BOOLEAN,
     is_original_via_node_ID : BOOLEAN]

\* Edges that lead somewhere, in one direction at least.
GoodEdges(G) == G \subseteq EdgeRecords /\ \A e \in G : e.source # e.target /\ (e.forward \/ e.backward)

\* Edge e of a node has a counterpart at its other end that is no heavier.
HasMirror(G, e) ==
    /\ e.forward => \E f \in G : /\ f.source = e.target /\ f.target = e.source
                                 /\ f.backward /\ f.distance <= e.distance
    /\ e.backward => \E f \in G : /\ f.source = e.target /\ f.target = e.source
                                  /\ f.forward /\ f.distance <= e.distance

\* A graph that a round may start from: the edges of the nodes that remain lead to such
\* nodes and are known at both ends.
Ready(G, live) ==
    /\ GoodEdges(G) /\ IsFiniteSet(G) /\ live \subseteq NodeIDs
    /\ \A e \in G : e.source \in live => e.target \in live /\ HasMirror(G, e)

LiveEdges(G, live) == {e \in G : e.source \in live}

\* The fields of an edge.
LEMMA EdgeFields ==
    ASSUME NEW G, GoodEdges(G), NEW e \in G
    PROVE  /\ e.source \in NodeIDs /\ e.target \in NodeIDs /\ e.source # e.target
           /\ e.distance \in Nat \ {0}
           /\ e.forward \in BOOLEAN /\ e.backward \in BOOLEAN /\ (e.forward \/ e.backward)
BY DEF GoodEdges, EdgeRecords

\* Arcs are edges.
LEMMA ArcsAreEdges ==
    ASSUME NEW G, GoodEdges(G)
    PROVE  /\ ForwardArcs(G) \in SUBSET Arcs /\ BackwardArcs(G) \in SUBSET Arcs
           /\ \A a \in ForwardArcs(G) : \E e \in G :
                e.forward /\ a.from = e.source /\ a.to = e.target /\ a.weight = e.distance
           /\ \A a \in BackwardArcs(G) : \E e \in G :
                e.backward /\ a.from = e.source /\ a.to = e.target /\ a.weight = e.distance
           /\ \A e \in G : e.forward => \E a \in ForwardArcs(G) :
                a.from = e.source /\ a.to = e.target /\ a.weight = e.distance
           /\ \A e \in G : e.backward => \E a \in BackwardArcs(G) :
                a.from = e.source /\ a.to = e.target /\ a.weight = e.distance
<1> DEFINE Arc(e) == [from |-> e.source, to |-> e.target, weight |-> e.distance]
<1>1. \A e \in G : /\ Arc(e) \in Arcs
                   /\ Arc(e).from = e.source /\ Arc(e).to = e.target /\ Arc(e).weight = e.distance
  BY EdgeFields DEF Arcs
<1>2. \A a : a \in ForwardArcs(G) <=> \E e \in G : e.forward /\ a = Arc(e)
  BY DEF ForwardArcs
<1>3. \A a : a \in BackwardArcs(G) <=> \E e \in G : e.backward /\ a = Arc(e)
  BY DEF BackwardArcs
<1> HIDE DEF Arc
<1> QED
  BY <1>1, <1>2, <1>3

\* Neighbours see each other.
LEMMA NeighboursMutual ==
    ASSUME NEW G, NEW live, Ready(G, live), NEW u \in live, NEW v \in Neighbours(G, u)
    PROVE  v \in live /\ v # u /\ u \in Neighbours(G, v)
<1>1. PICK e \in G : e.source = u /\ e.target = v /\ v # u
  BY DEF Neighbours, Adjacent
<1>2. v \in live /\ HasMirror(G, e)
  BY <1>1 DEF Ready
<1>3. e.forward \/ e.backward
  BY DEF Ready, GoodEdges
<1>4. \E f \in G : f.source = v /\ f.target = u
  BY <1>1, <1>2, <1>3 DEF HasMirror
<1> QED
  BY <1>1, <1>2, <1>4 DEF Neighbours, Adjacent

\* An edge makes neighbours.
LEMMA EdgeNeighbours ==
    ASSUME NEW G, GoodEdges(G), NEW e \in G
    PROVE  e.target \in Neighbours(G, e.source)
BY EdgeFields DEF Neighbours, Adjacent

\* No two nodes of I are neighbours or have a common one.
Independent(G, I) ==
    \A u, v \in I : u # v =>
      v \notin Neighbours(G, u) /\ Neighbours(G, u) \cap Neighbours(G, v) = {}

\* Nodes that rank below all others within two hops are independent.
LEMMA RankedIndependent ==
    ASSUME NEW live, Ready(contractor_graph, live), NEW rank \in Ranks(live), NEW ties
    PROVE  Independent(contractor_graph, {u \in live : IsNodeIndependent(u, rank, ties)})
<1> DEFINE I == {u \in live : IsNodeIndependent(u, rank, ties)}
           G == contractor_graph
<1>0. \A u \in live : rank[u] \in Int
  BY DEF Ranks
<1>1. ASSUME NEW u \in I, NEW v \in I, u # v PROVE v \notin Neighbours(G, u)
  <2> SUFFICES ASSUME v \in Neighbours(G, u) PROVE FALSE
    OBVIOUS
  <2>1. u \in Neighbours(G, v)
    BY NeighboursMutual
  <2>2. rank[u] < rank[v] /\ rank[v] < rank[u]
    BY <2>1 DEF IsNodeIndependent
  <2> QED
    BY <1>0, <2>2
<1>2. ASSUME NEW u \in I, NEW v \in I, u # v PROVE Neighbours(G, u) \cap Neighbours(G, v) = {}
  <2> SUFFICES ASSUME NEW c \in Neighbours(G, u), c \in Neighbours(G, v) PROVE FALSE
    OBVIOUS
  <2>1. u \in Neighbours(G, c) /\ v \in Neighbours(G, c)
    BY NeighboursMutual
  <2>2. u \in TwoHops(v) /\ v \in TwoHops(u)
    <3>1. ASSUME NEW x \in live, NEW y, y # x, NEW z \in Neighbours(G, x), y \in Neighbours(G, z)
          PROVE  y \in TwoHops(x)
      BY <3>1 DEF TwoHops
    <3> QED
      BY <1>2, <2>1, <3>1
  <2>3. rank[u] < rank[v] /\ rank[v] < rank[u]
    BY <2>2 DEF IsNodeIndependent
  <2> QED
    BY <1>0, <2>3
<1> QED
  BY <1>1, <1>2 DEF Independent

-----------------------------------------------------------------------------
(* The witness search finds nothing but walks that avoid the contracted node *)

HeapEntries == [node : NodeIDs, key : Nat, target : BOOLEAN, settled : BOOLEAN]

\* The arcs among nodes that remain, but for those that enter u.
Avoiding(live, u) == {a \in ForwardArcs(LiveEdges(contractor_graph, live)) : a.to # u}

\* Keys below INT_MAX are weights of walks from z; z itself has the key zero.
GoodHeap(heap, A, z, live) ==
    /\ heap \subseteq HeapEntries
    /\ \A h \in heap : h.node \in live /\ (h.key < INT_MAX => Walk(A, z, h.node, h.key))
    /\ \E h \in heap : h.node = z
    /\ \A h \in heap : h.node = z => h.key = 0
    /\ \A a, b \in heap : a.node = b.node => a = b

\* Heap g knows the nodes of h, with keys that are no larger.
Below(g, h) == \A a \in h : \E b \in g : b.node = a.node /\ b.key <= a.key

\* The edges of remaining nodes are a good graph.
LEMMA LiveGood ==
    ASSUME NEW G, NEW live, Ready(G, live)
    PROVE  GoodEdges(LiveEdges(G, live)) /\ live \subseteq NodeIDs
BY DEF Ready, GoodEdges, LiveEdges

\* The arcs of a search are arcs.
LEMMA AvoidingArcs ==
    ASSUME NEW live, Ready(contractor_graph, live), NEW u
    PROVE  /\ Avoiding(live, u) \in SUBSET Arcs
           /\ \A e \in contractor_graph : e.source \in live /\ e.forward /\ e.target # u =>
                \E a \in Avoiding(live, u) :
                  a.from = e.source /\ a.to = e.target /\ a.weight = e.distance
<1> DEFINE L == LiveEdges(contractor_graph, live)
<1>1. GoodEdges(L)
  BY LiveGood
<1>2. \A e \in contractor_graph : e.source \in live => e \in L
  BY DEF LiveEdges
<1> HIDE DEF L
<1>3. /\ ForwardArcs(L) \in SUBSET Arcs
      /\ \A e \in L : e.forward => \E a \in ForwardArcs(L) :
                a.from = e.source /\ a.to = e.target /\ a.weight = e.distance
  BY <1>1, ArcsAreEdges
<1>4. Avoiding(live, u) = {a \in ForwardArcs(L) : a.to # u}
  BY DEF Avoiding, L
<1> QED
  BY <1>2, <1>3, <1>4

\* A turn of the search keeps the heap good, and every node in it.
LEMMA TurnKeepsHeap ==
    ASSUME NEW live, Ready(contractor_graph, live), NEW u, NEW z \in live,
           NEW max_distance, NEW heap, GoodHeap(heap, Avoiding(live, u), z, live)
    PROVE  /\ GoodHeap(DijkstraTurn(heap, max_distance, u), Avoiding(live, u), z, live)
           /\ Below(DijkstraTurn(heap, max_distance, u), heap)
<1> DEFINE A == Avoiding(live, u)
           open == {h \in heap : ~h.settled}
           top == CHOOSE h \in open : \A g \in open : h.key <= g.key
           out == {e \in Adjacent(contractor_graph, top.node) : e.forward /\ e.target # u}
           Via(v) == {top.key + e.distance : e \in {f \in out : f.target = v}}
           discovered == {e.target : e \in out} \ {h.node : h \in heap}
           Kept(h) == [h EXCEPT !.key = Min({@} \cup Via(h.node)), !.settled = @ \/ h = top]
           next == {Kept(h) : h \in heap} \cup {HeapEntry(v, Min(Via(v)), FALSE) : v \in discovered}
<1>0. /\ heap \subseteq HeapEntries
      /\ \A h \in heap : h.node \in live /\ (h.key < INT_MAX => Walk(A, z, h.node, h.key))
      /\ \E h \in heap : h.node = z
      /\ \A h \in heap : h.node = z => h.key = 0
      /\ \A a, b \in heap : a.node = b.node => a = b
      /\ live \subseteq NodeIDs /\ INT_MAX \in Nat \ {0}
  BY LiveGood, ContractorAssumption DEF GoodHeap
<1>1. \/ DijkstraTurn(heap, max_distance, u) = heap
      \/ open # {} /\ DijkstraTurn(heap, max_distance, u) = next
  BY DEF DijkstraTurn
<1>2. CASE DijkstraTurn(heap, max_distance, u) = heap
  <2>1. \A h \in heap : h.key <= h.key
    BY <1>0 DEF HeapEntries
  <2> QED
    BY <1>2, <2>1 DEF Below
<1>3. CASE open # {} /\ DijkstraTurn(heap, max_distance, u) = next
  <2>1. top \in open
    <3> DEFINE keys == {h.key : h \in open}
    <3>0. open \subseteq heap /\ \A h \in heap : h.key \in Nat
      BY <1>0 DEF HeapEntries
    <3>1. keys \subseteq Nat /\ keys # {}
      <4>1. open # {}
        BY <1>3
      <4> HIDE DEF open
      <4> QED
        BY <3>0, <4>1
    <3>2. PICK x \in keys : \A y \in keys : x <= y
      BY <3>1, LeastNumber
    <3>3. \E h \in open : \A g \in open : h.key <= g.key
      BY <3>2
    <3> QED
      BY <3>3
  <2> HIDE DEF top
  <2>2. top \in heap /\ top.key \in Nat /\ top.node \in live
        /\ (top.key < INT_MAX => Walk(A, z, top.node, top.key))
    BY <1>0, <2>1 DEF HeapEntries
  <2>3. ASSUME NEW e \in out
        PROVE  /\ e.target \in live /\ e.distance \in Nat \ {0}
               /\ \A x : x = top.key + e.distance =>
                    x \in Nat /\ (x < INT_MAX => Walk(A, z, e.target, x))
    <3>1. /\ e \in contractor_graph /\ e.source = top.node /\ e.forward /\ e.target # u
          /\ e.source \in live
      BY <2>2 DEF Adjacent
    <3>2. e.target \in live /\ e.distance \in Nat \ {0}
      BY <3>1, EdgeFields DEF Ready
    <3>3. PICK a \in A : a.from = e.source /\ a.to = e.target /\ a.weight = e.distance
      BY <3>1, AvoidingArcs
    <3> SUFFICES ASSUME NEW x, x = top.key + e.distance
                 PROVE  x \in Nat /\ (x < INT_MAX => Walk(A, z, e.target, x))
      BY <3>2
    <3>4. x \in Nat /\ top.key < x /\ x - e.distance = top.key
      BY <2>2, <3>2
    <3>5. ASSUME x < INT_MAX PROVE Walk(A, z, e.target, x)
      <4>1. x \in Budgets /\ top.key < INT_MAX
        BY <1>0, <2>2, <3>4, <3>5 DEF Budgets
      <4>2. A \in SUBSET Arcs
        BY AvoidingArcs
      <4>3. Walk(A, z, a.from, x - a.weight)
        BY <2>2, <3>1, <3>3, <3>4, <4>1
      <4> HIDE DEF A
      <4> QED
        BY <1>0, <3>2, <3>3, <4>1, <4>2, <4>3, WalkStep
    <3> QED
      BY <3>4, <3>5
  <2>4. \A v : Via(v) \subseteq Nat /\ \A x \in Via(v) : x < INT_MAX => Walk(A, z, v, x)
    BY <2>3
  <2>5. ASSUME NEW h \in heap
        PROVE  /\ Kept(h) \in HeapEntries /\ Kept(h).node = h.node /\ Kept(h).key <= h.key
               /\ Kept(h).key < INT_MAX => Walk(A, z, h.node, Kept(h).key)
               /\ h.node = z => Kept(h).key = 0
    <3> DEFINE K == {h.key} \cup Via(h.node)
    <3>1. h \in HeapEntries /\ h.key \in Nat
      BY <1>0 DEF HeapEntries
    <3>2. K \subseteq Nat /\ K # {} /\ \A x \in K : x < INT_MAX => Walk(A, z, h.node, x)
      BY <1>0, <2>4, <3>1
    <3> HIDE DEF K
    <3>3. Min(K) \in K /\ Min(K) <= h.key
      BY <3>2, MinIs DEF K
    <3> HIDE DEF Via
    <3>4. Kept(h) = [h EXCEPT !.key = Min(K), !.settled = h.settled \/ h = top]
      BY DEF K
    <3>5. Min(K) \in Nat /\ (h.settled \/ h = top) \in BOOLEAN
      BY <3>2, <3>3
    <3>6. Kept(h) \in HeapEntries /\ Kept(h).node = h.node /\ Kept(h).key = Min(K)
      <4> HIDE DEF Kept
      <4> QED
        BY <3>1, <3>4, <3>5 DEF HeapEntries
    <3>7. h.node = z => Min(K) = 0
      BY <1>0, <3>3, <3>5
    <3> QED
      BY <3>2, <3>3, <3>6, <3>7
  <2>6. ASSUME NEW v \in discovered
        PROVE  LET g == HeapEntry(v, Min(Via(v)), FALSE)
               IN  g \in HeapEntries /\ g.node \in live /\ g.node # z /\ g.node = v
                   /\ (g.key < INT_MAX => Walk(A, z, g.node, g.key))
    <3>1. PICK e \in out : e.target = v
      OBVIOUS
    <3>2. v \in live /\ top.key + e.distance \in Via(v)
      BY <2>3, <3>1
    <3>3. Via(v) \subseteq Nat /\ Via(v) # {} /\ \A x \in Via(v) : x < INT_MAX => Walk(A, z, v, x)
      BY <2>4, <3>2
    <3> DEFINE V == Via(v)
    <3> HIDE DEF Via
    <3>4. V \subseteq Nat /\ V # {} /\ \A x \in V : x < INT_MAX => Walk(A, z, v, x)
      BY <3>3
    <3> HIDE DEF V
    <3>5. Min(V) \in V
      BY <3>4, MinIs
    <3>6. HeapEntry(v, Min(V), FALSE) \in HeapEntries
      BY <1>0, <3>2, <3>4, <3>5 DEF HeapEntry, HeapEntries
    <3>7. HeapEntry(v, Min(V), FALSE).node = v /\ HeapEntry(v, Min(V), FALSE).key = Min(V)
      BY DEF HeapEntry
    <3>8. v # z
      BY <1>0
    <3> QED
      BY <3>2, <3>4, <3>5, <3>6, <3>7, <3>8 DEF V
  <2> HIDE DEF Via, Kept, discovered
  <2> DEFINE New(v) == HeapEntry(v, Min(Via(v)), FALSE)
  <2>a. ASSUME NEW v \in discovered
        PROVE  /\ New(v) \in HeapEntries /\ New(v).node \in live /\ New(v).node # z /\ New(v).node = v
               /\ New(v).key < INT_MAX => Walk(A, z, New(v).node, New(v).key)
    BY <2>6
  <2>b. \A x : x \in next <=> (\E h \in heap : x = Kept(h)) \/ (\E v \in discovered : x = New(v))
    OBVIOUS
  <2>c. \A v \in discovered : \A h \in heap : h.node # v
    BY DEF discovered
  <2> HIDE DEF New, next
  <2>7. ASSUME NEW g \in next
        PROVE  /\ g \in HeapEntries /\ g.node \in live
               /\ g.key < INT_MAX => Walk(A, z, g.node, g.key)
               /\ g.node = z => g.key = 0
    <3>1. CASE \E h \in heap : g = Kept(h)
      <4>1. PICK h \in heap : g = Kept(h)
        BY <3>1
      <4> QED
        BY <1>0, <2>5, <4>1
    <3>2. CASE \E v \in discovered : g = New(v)
      BY <2>a, <3>2
    <3> QED
      BY <2>b, <3>1, <3>2
  <2>8. Below(next, heap)
    BY <2>5, <2>b DEF Below
  <2>10. \A a, b \in next : a.node = b.node => a = b
    <3>1. \A h \in heap : Kept(h).node = h.node
      BY <2>5
    <3>2. \A v \in discovered : New(v).node = v
      BY <2>a
    <3> QED
      BY <1>0, <2>b, <2>c, <3>1, <3>2
  <2>11. \E g \in next : g.node = z
    BY <1>0, <2>8 DEF Below
  <2> QED
    BY <1>3, <2>7, <2>8, <2>10, <2>11 DEF GoodHeap
<1> QED
  BY <1>1, <1>2, <1>3

\* The heap a witness search starts with.
FirstHeap(source, targets) ==
    {HeapEntry(source, 0, FALSE)} \cup {HeapEntry(t, INT_MAX, TRUE) : t \in targets \ {source}}

\* A heap of the search, in which all targets are.
SearchHeap(h, live, node, source, targets) ==
    /\ GoodHeap(h, Avoiding(live, node), source, live)
    /\ \A t \in targets \cup {source} : \E g \in h : g.node = t

\* The heaps of a search, turn by turn.
IsSearch(f, live, node, source, max_distance, targets) ==
    /\ \A n \in 0 .. number_of_nodes : SearchHeap(f[n], live, node, source, targets)
    /\ f[0] = FirstHeap(source, targets)
    /\ \A n \in 1 .. number_of_nodes : f[n] = DijkstraTurn(f[n - 1], max_distance, node)

\* The first heap is one.
LEMMA SearchStarts ==
    ASSUME NEW live, Ready(contractor_graph, live), NEW node, NEW source \in live,
           NEW targets, targets \subseteq live
    PROVE  SearchHeap(FirstHeap(source, targets), live, node, source, targets)
<1> DEFINE A == Avoiding(live, node)
           first == FirstHeap(source, targets)
           own == HeapEntry(source, 0, FALSE)
           Other(x) == HeapEntry(x, INT_MAX, TRUE)
<1>0. INT_MAX \in Nat \ {0} /\ live \subseteq NodeIDs
  BY LiveGood, ContractorAssumption
<1>a. own \in HeapEntries /\ own.node = source /\ own.key = 0
  BY <1>0 DEF HeapEntries, HeapEntry
<1>b. \A x \in live : Other(x) \in HeapEntries /\ Other(x).node = x /\ Other(x).key = INT_MAX
  BY <1>0 DEF HeapEntries, HeapEntry
<1>c. first = {own} \cup {Other(x) : x \in targets \ {source}}
  BY DEF FirstHeap
<1> HIDE DEF own, Other, first
<1>1. first \subseteq HeapEntries
  BY <1>a, <1>b, <1>c
<1>2. \A h \in first : h.node \in live /\ (h.node = source => h.key = 0)
  BY <1>a, <1>b, <1>c
<1>3. A \in SUBSET Arcs
  BY AvoidingArcs
<1>4. \A h \in first : h.key < INT_MAX => h.node = source /\ h.key = 0
  BY <1>0, <1>a, <1>b, <1>c
<1>5. 0 \in Budgets
  BY <1>0 DEF Budgets
<1> HIDE DEF A
<1>6. Walk(A, source, source, 0)
  BY <1>0, <1>3, <1>5, WalkHere
<1>7. \A t \in targets \cup {source} : \E g \in first : g.node = t
  BY <1>a, <1>b, <1>c
<1>8. \A a, b \in first : a.node = b.node => a = b
  BY <1>a, <1>b, <1>c
<1>9. GoodHeap(first, A, source, live)
  BY <1>1, <1>2, <1>4, <1>6, <1>7, <1>8 DEF GoodHeap
<1> QED
  BY <1>7, <1>9 DEF SearchHeap, first, A

\* A turn of the search gives another one.
LEMMA SearchTurns ==
    ASSUME NEW live, Ready(contractor_graph, live), NEW node, NEW source \in live,
           NEW max_distance, NEW targets, NEW h, SearchHeap(h, live, node, source, targets)
    PROVE  /\ SearchHeap(DijkstraTurn(h, max_distance, node), live, node, source, targets)
           /\ Below(DijkstraTurn(h, max_distance, node), h)
<1>1. /\ GoodHeap(DijkstraTurn(h, max_distance, node), Avoiding(live, node), source, live)
      /\ Below(DijkstraTurn(h, max_distance, node), h)
  BY TurnKeepsHeap DEF SearchHeap
<1> QED
  BY <1>1 DEF SearchHeap, Below

\* The witness search gives the last of its heaps.
LEMMA SearchRuns ==
    ASSUME NEW live, Ready(contractor_graph, live), NEW node, NEW source \in live,
           NEW max_distance, NEW targets, targets \subseteq live
    PROVE  \E f : /\ IsSearch(f, live, node, source, max_distance, targets)
                  /\ Witness(node, source, max_distance, targets) = f[number_of_nodes]
<1> DEFINE first == FirstHeap(source, targets)
           Turn(h) == DijkstraTurn(h, max_distance, node)
           S == {h \in SUBSET HeapEntries : SearchHeap(h, live, node, source, targets)}
           F == [h \in S |-> Turn(h)]
           IsRun(f) == f = [n \in 0 .. number_of_nodes |->
                              IF n = 0 THEN {first} ELSE {Turn(h) : h \in f[n - 1]}]
           turn == CHOOSE f : IsRun(f)
           N == number_of_nodes
<1>0. N \in Nat
  BY ContractorAssumption
<1>1. Witness(node, source, max_distance, targets) = CHOOSE h \in turn[N] : TRUE
  BY DEF Witness, Dijkstra, FirstHeap
<1>2. \A h : h \in S <=> SearchHeap(h, live, node, source, targets)
  BY DEF SearchHeap, GoodHeap
<1>3. first \in S
  BY <1>2, SearchStarts
<1>4. ASSUME NEW h \in S PROVE Turn(h) \in S
  BY <1>2, SearchTurns
<1> HIDE DEF Turn, S, first
<1>5. \A h \in S : F[h] \in S /\ F[h] = Turn(h)
  BY <1>4
<1>6. PICK f : IsRunOf(f, S, F, first, N)
  <2> HIDE DEF F, N
  <2> QED
    BY <1>0, <1>3, <1>5, RunExists
<1>7. /\ \A n \in 0 .. N : f[n] \in S
      /\ f[0] = first
      /\ \A n \in 1 .. N : f[n] = Turn(f[n - 1])
  <2>1. f \in [0 .. N -> S] /\ \A n \in 0 .. N : f[n] = IF n = 0 THEN first ELSE F[f[n - 1]]
    BY <1>6 DEF IsRunOf
  <2>2. \A n \in 1 .. N : n \in 0 .. N /\ n # 0 /\ n - 1 \in 0 .. N
    BY <1>0
  <2>3. 0 \in 0 .. N
    BY <1>0
  <2> HIDE DEF F, N
  <2> QED
    BY <1>5, <2>1, <2>2, <2>3
<1> DEFINE g == [n \in 0 .. N |-> {f[n]}]
<1>8. IsRun(g)
  <2>1. \A n \in 0 .. N : n # 0 => n - 1 \in 0 .. N /\ n \in 1 .. N
    BY <1>0
  <2>2. \A n \in 0 .. N : g[n] = IF n = 0 THEN {first} ELSE {Turn(h) : h \in g[n - 1]}
    BY <1>7, <2>1
  <2> QED
    BY <2>2
<1>9. IsRun(turn)
  <2> HIDE DEF IsRun, g
  <2> QED
    BY <1>8
<1> HIDE DEF turn
<1> DEFINE In == {n \in 0 .. N : turn[n] = {f[n]}}
<1>10. 0 \in In
  BY <1>0, <1>7, <1>9
<1>11. ASSUME NEW n \in 0 .. N - 1, n \in In PROVE n + 1 \in In
  <2>1. n + 1 \in 0 .. N /\ n + 1 \in 1 .. N /\ (n + 1) - 1 = n
    BY <1>0
  <2>2. turn[n + 1] = {Turn(h) : h \in turn[n]}
    BY <1>0, <1>9, <2>1
  <2>3. turn[n] = {f[n]} /\ f[n + 1] = Turn(f[n])
    BY <1>7, <1>11, <2>1
  <2>4. turn[n + 1] = {f[n + 1]}
    BY <2>2, <2>3
  <2> QED
    BY <2>1, <2>4
<1>12. 0 .. N \subseteq In
  <2> HIDE DEF In
  <2> QED
    BY <1>0, <1>10, <1>11, BoundedInduction
<1>13. turn[N] = {f[N]}
  BY <1>0, <1>12
<1>14. Witness(node, source, max_distance, targets) = f[N]
  BY <1>1, <1>13
<1>15. IsSearch(f, live, node, source, max_distance, targets)
  BY <1>2, <1>7 DEF IsSearch, Turn, first
<1> QED
  BY <1>14, <1>15

\* The key of a node that a heap knows.
LEMMA KeyIs ==
    ASSUME NEW h, NEW A, NEW z, NEW live, GoodHeap(h, A, z, live), NEW t, \E g \in h : g.node = t
    PROVE  /\ \E g \in h : g.node = t /\ GetKey(h, t) = g.key
           /\ \A g \in h : g.node = t => GetKey(h, t) = g.key
           /\ GetKey(h, t) \in Nat
<1> DEFINE entry == CHOOSE g \in h : g.node = t
<1>1. entry \in h /\ entry.node = t
  OBVIOUS
<1>2. GetKey(h, t) = entry.key
  BY DEF GetKey
<1> HIDE DEF entry
<1>3. entry.key \in Nat
  BY <1>1 DEF GoodHeap, HeapEntries
<1> QED
  BY <1>1, <1>2, <1>3 DEF GoodHeap

\* What the search answers for a target is the weight of a walk that avoids the node.
LEMMA WitnessIsWalk ==
    ASSUME NEW live, Ready(contractor_graph, live), NEW node, NEW source \in live,
           NEW max_distance, NEW targets, targets \subseteq live,
           NEW t \in targets \cup {source}
    PROVE  LET key == GetKey(Witness(node, source, max_distance, targets), t)
           IN  /\ key \in Nat /\ (t = source => key = 0)
               /\ key < INT_MAX => Walk(Avoiding(live, node), source, t, key)
<1>1. PICK f : /\ IsSearch(f, live, node, source, max_distance, targets)
               /\ Witness(node, source, max_distance, targets) = f[number_of_nodes]
  BY SearchRuns
<1> DEFINE heap == f[number_of_nodes]
<1>2. number_of_nodes \in 0 .. number_of_nodes
  BY ContractorAssumption
<1>3. SearchHeap(heap, live, node, source, targets)
  BY <1>1, <1>2 DEF IsSearch
<1> HIDE DEF heap
<1>4. GoodHeap(heap, Avoiding(live, node), source, live) /\ \E g \in heap : g.node = t
  BY <1>3 DEF SearchHeap
<1>5. PICK g \in heap : g.node = t /\ GetKey(heap, t) = g.key /\ GetKey(heap, t) \in Nat
  BY <1>4, KeyIs
<1>6. /\ t = source => g.key = 0
      /\ g.key < INT_MAX => Walk(Avoiding(live, node), source, t, g.key)
  BY <1>4, <1>5 DEF GoodHeap
<1> QED
  BY <1>1, <1>5, <1>6 DEF heap

\* A larger bound changes nothing before the smaller one is reached.
LEMMA TurnWider ==
    ASSUME NEW h, h \subseteq HeapEntries, NEW node, NEW small \in Int, NEW large \in Int, small <= large
    PROVE  \/ DijkstraTurn(h, small, node) = h
           \/ DijkstraTurn(h, small, node) = DijkstraTurn(h, large, node)
<1> DEFINE open == {x \in h : ~x.settled}
           top == CHOOSE x \in open : \A g \in open : x.key <= g.key
<1>1. CASE open = {} \/ top.key > small
  BY <1>1 DEF DijkstraTurn
<1>2. CASE open # {} /\ ~(top.key > small)
  <2>1. open \subseteq h /\ \A x \in h : x.key \in Nat
    BY DEF HeapEntries
  <2>2. top \in open
    <3> DEFINE keys == {x.key : x \in open}
    <3>0. open # {}
      BY <1>2
    <3>1. keys \subseteq Nat /\ keys # {}
      <4> HIDE DEF open
      <4> QED
        BY <2>1, <3>0
    <3>2. PICK x \in keys : \A y \in keys : x <= y
      BY <3>1, LeastNumber
    <3>3. \E y \in open : \A g \in open : y.key <= g.key
      BY <3>2
    <3> QED
      BY <3>3
  <2>3. top.key \in Nat
    BY <2>1, <2>2
  <2>4. ~(top.key > small) /\ ~(top.key > large)
    <3>1. ~(top.key > small)
      BY <1>2
    <3> HIDE DEF top
    <3> QED
      BY <2>3, <3>1
  <2> QED
    BY <2>4 DEF DijkstraTurn
<1> QED
  BY <1>1, <1>2

\* A search with a larger bound is no worse.
LEMMA WitnessWider ==
    ASSUME NEW live, Ready(contractor_graph, live), NEW node, NEW source \in live,
           NEW small \in Int, NEW large \in Int, small <= large,
           NEW targets, targets \subseteq live, NEW t \in targets \cup {source}
    PROVE  GetKey(Witness(node, source, large, targets), t) <=
             GetKey(Witness(node, source, small, targets), t)
<1> DEFINE N == number_of_nodes
           Turn(h, max) == DijkstraTurn(h, max, node)
           Is(h) == SearchHeap(h, live, node, source, targets)
<1>0. N \in Nat
  BY ContractorAssumption
<1>1. PICK f : IsSearch(f, live, node, source, small, targets)
               /\ Witness(node, source, small, targets) = f[number_of_nodes]
  BY SearchRuns
<1>2. PICK g : IsSearch(g, live, node, source, large, targets)
               /\ Witness(node, source, large, targets) = g[number_of_nodes]
  BY SearchRuns
<1>3. /\ \A n \in 0 .. N : Is(f[n]) /\ Is(g[n])
      /\ f[0] = g[0]
      /\ \A n \in 1 .. N : f[n] = Turn(f[n - 1], small) /\ g[n] = Turn(g[n - 1], large)
  BY <1>1, <1>2 DEF IsSearch
<1>4. \A h : Is(h) => h \subseteq HeapEntries /\ (\A a \in h : a.key \in Nat) /\ Below(Turn(h, large), h)
  <2> SUFFICES ASSUME NEW h, Is(h)
               PROVE  h \subseteq HeapEntries /\ (\A a \in h : a.key \in Nat) /\ Below(Turn(h, large), h)
    OBVIOUS
  <2>1. h \subseteq HeapEntries
    BY DEF SearchHeap, GoodHeap
  <2>2. Below(Turn(h, large), h)
    BY SearchTurns
  <2> QED
    BY <2>1, <2>2 DEF HeapEntries
<1>5. \A h : Is(h) => Turn(h, small) = h \/ Turn(h, small) = Turn(h, large)
  BY <1>4, TurnWider
<1> HIDE DEF Turn, Is
<1> DEFINE Good == {n \in 0 .. N : f[n] = g[n] \/ (Turn(f[n], small) = f[n] /\ Below(g[n], f[n]))}
<1>6. 0 \in Good
  <2>1. 0 \in 0 .. N
    BY <1>0
  <2> QED
    BY <1>3, <2>1, Zenon
<1>7. ASSUME NEW n \in 0 .. N - 1, n \in Good PROVE n + 1 \in Good
  <2>1. n + 1 \in 0 .. N /\ n + 1 \in 1 .. N /\ (n + 1) - 1 = n /\ n \in 0 .. N
    BY <1>0
  <2>2. /\ Is(f[n]) /\ Is(g[n]) /\ Is(f[n + 1]) /\ Is(g[n + 1])
        /\ f[n + 1] = Turn(f[n], small) /\ g[n + 1] = Turn(g[n], large)
    BY <1>3, <2>1
  <2>3. CASE f[n] = g[n] /\ Turn(f[n], small) = Turn(f[n], large)
    <3>1. f[n + 1] = g[n + 1]
      BY <2>2, <2>3
    <3> QED
      BY <2>1, <3>1, Zenon
  <2>4. CASE f[n] = g[n] /\ Turn(f[n], small) = f[n]
    <3>1. Below(Turn(f[n], large), f[n])
      BY <1>4, <2>2
    <3>2. f[n + 1] = f[n] /\ Turn(f[n + 1], small) = f[n + 1] /\ Below(g[n + 1], f[n + 1])
      BY <2>2, <2>4, <3>1
    <3> QED
      BY <2>1, <3>2
  <2>5. CASE Turn(f[n], small) = f[n] /\ Below(g[n], f[n])
    <3>1. Below(g[n + 1], g[n])
      BY <1>4, <2>2
    <3>2. Below(g[n + 1], f[n])
      <4> SUFFICES ASSUME NEW a \in f[n] PROVE \E b \in g[n + 1] : b.node = a.node /\ b.key <= a.key
        BY DEF Below
      <4>1. PICK b \in g[n] : b.node = a.node /\ b.key <= a.key
        BY <2>5 DEF Below
      <4>2. PICK c \in g[n + 1] : c.node = b.node /\ c.key <= b.key
        BY <3>1 DEF Below
      <4>3. a.key \in Nat /\ b.key \in Nat /\ c.key \in Nat
        BY <1>4, <2>2
      <4>4. c.key <= a.key
        BY <4>1, <4>2, <4>3
      <4> QED
        BY <4>1, <4>2, <4>4
    <3>3. f[n + 1] = f[n] /\ Turn(f[n + 1], small) = f[n + 1] /\ Below(g[n + 1], f[n + 1])
      BY <2>2, <2>5, <3>2
    <3> QED
      BY <2>1, <3>3
  <2> QED
    BY <1>5, <1>7, <2>2, <2>3, <2>4, <2>5
<1>8. 0 .. N \subseteq Good
  <2> HIDE DEF Good
  <2> QED
    BY <1>0, <1>6, <1>7, BoundedInduction
<1>9. N \in Good /\ N \in 0 .. N
  BY <1>0, <1>8
<1>a. ASSUME NEW n \in 0 .. N
      PROVE  /\ GoodHeap(f[n], Avoiding(live, node), source, live) /\ \E x \in f[n] : x.node = t
             /\ GoodHeap(g[n], Avoiding(live, node), source, live) /\ \E x \in g[n] : x.node = t
  BY <1>3 DEF Is, SearchHeap
<1>10. PICK a \in f[N] : a.node = t /\ GetKey(f[N], t) = a.key
  BY <1>9, <1>a, KeyIs
<1>11. a.key \in Nat
  BY <1>3, <1>4, <1>9
<1>12. PICK b \in g[N] : b.node = t /\ b.key <= a.key
  BY <1>9, <1>10, <1>11 DEF Below
<1>13. GetKey(g[N], t) = b.key
  BY <1>9, <1>12, <1>a, KeyIs
<1> QED
  BY <1>1, <1>2, <1>10, <1>12, <1>13

-----------------------------------------------------------------------------
(* The shortcuts of one node *)

\* The witness search of ContractNode finds no walk as light as the one through node.
Needed(node, in, out) ==
    in.distance + out.distance <
      GetKey(Witness(node, in.target,
                     Max({in.distance + o.distance : o \in OutEdges(node)}),
                     {e.target : e \in OutEdges(node)}), out.target)

There(node, in, out) ==
    Edge(in.target, out.target, in.distance + out.distance, node, TRUE, TRUE, FALSE)
Back(node, in, out) ==
    Edge(out.target, in.target, in.distance + out.distance, node, TRUE, FALSE, TRUE)

\* The entries that ContractNode makes before it merges them.
Entries(node) ==
    UNION {{There(node, p[1], p[2]), Back(node, p[1], p[2])} :
             p \in {q \in InEdges(node) \X OutEdges(node) : Needed(node, q[1], q[2])}}

\* They are those of the definition.
LEMMA EntriesMerged ==
    ASSUME NEW node
    PROVE  ContractNode(node) = MergeFlags(Entries(node))
<1> DEFINE Heap(in) == Witness(node, in.target, Max({in.distance + out.distance : out \in OutEdges(node)}),
                               {e.target : e \in OutEdges(node)})
           needed(in) == {out \in OutEdges(node) :
                            in.distance + out.distance < GetKey(Heap(in), out.target)}
           Of(in) == UNION {{There(node, in, out), Back(node, in, out)} : out \in needed(in)}
           all == UNION {Of(in) : in \in IF OutEdges(node) = {} THEN {} ELSE InEdges(node)}
<1>1. ContractNode(node) = MergeFlags(all)
  BY DEF ContractNode, There, Back
<1>2. \A in, out : out \in needed(in) <=> out \in OutEdges(node) /\ Needed(node, in, out)
  BY DEF Needed
<1> HIDE DEF needed
<1>3. ASSUME NEW x PROVE x \in all <=> x \in Entries(node)
  <2>1. ASSUME x \in all PROVE x \in Entries(node)
    <3>1. PICK in \in InEdges(node) : x \in Of(in)
      BY <2>1
    <3>2. PICK out \in needed(in) : x \in {There(node, in, out), Back(node, in, out)}
      BY <3>1
    <3> DEFINE q == <<in, out>>
    <3>3. q \in InEdges(node) \X OutEdges(node) /\ Needed(node, q[1], q[2]) /\ q[1] = in /\ q[2] = out
      BY <1>2
    <3>4. x \in {There(node, q[1], q[2]), Back(node, q[1], q[2])}
      BY <3>2, <3>3
    <3> HIDE DEF q
    <3> QED
      BY <3>3, <3>4 DEF Entries
  <2>2. ASSUME x \in Entries(node) PROVE x \in all
    <3>1. PICK q \in InEdges(node) \X OutEdges(node) :
            Needed(node, q[1], q[2]) /\ x \in {There(node, q[1], q[2]), Back(node, q[1], q[2])}
      BY <2>2 DEF Entries
    <3>2. q[1] \in InEdges(node) /\ q[2] \in OutEdges(node) /\ q[2] \in needed(q[1])
      BY <1>2, <3>1
    <3>3. x \in Of(q[1])
      BY <3>1, <3>2
    <3> HIDE DEF Of
    <3> QED
      BY <3>2, <3>3
  <2> QED
    BY <2>1, <2>2
<1>4. all = Entries(node)
  BY <1>3
<1> QED
  BY <1>1, <1>4

\* The fields of the edges of a node.
LEMMA InOutEdges ==
    ASSUME NEW live, Ready(contractor_graph, live), NEW node \in live
    PROVE  /\ \A in \in InEdges(node) :
                /\ in \in contractor_graph /\ in.source = node /\ in.backward
                /\ in.target \in live /\ in.target # node /\ in.distance \in Nat \ {0}
           /\ \A out \in OutEdges(node) :
                /\ out \in contractor_graph /\ out.source = node /\ out.forward
                /\ out.target \in live /\ out.target # node /\ out.distance \in Nat \ {0}
<1>1. \A e \in contractor_graph : e.source = node =>
         e.target \in live /\ e.target # node /\ e.distance \in Nat \ {0}
  BY EdgeFields DEF Ready
<1> QED
  BY <1>1 DEF InEdges, OutEdges, Adjacent

\* A needed shortcut leads elsewhere; without one there is a walk around the node.
LEMMA NeededOrWitness ==
    ASSUME NEW live, Ready(contractor_graph, live), NEW node \in live,
           NEW in \in InEdges(node), NEW out \in OutEdges(node)
    PROVE  /\ Needed(node, in, out) => in.target # out.target
           /\ ~Needed(node, in, out) /\ in.distance + out.distance < INT_MAX =>
                Walk(Avoiding(live, node), in.target, out.target, in.distance + out.distance)
<1> DEFINE targets == {e.target : e \in OutEdges(node)}
           max == Max({in.distance + o.distance : o \in OutEdges(node)})
           key == GetKey(Witness(node, in.target, max, targets), out.target)
           d == in.distance + out.distance
<1>1. /\ in.target \in live /\ out.target \in targets /\ targets \subseteq live
      /\ in.distance \in Nat \ {0} /\ out.distance \in Nat \ {0}
  BY InOutEdges
<1>2. Needed(node, in, out) <=> d < key
  BY DEF Needed
<1> HIDE DEF targets, max
<1>3. /\ key \in Nat /\ (out.target = in.target => key = 0)
      /\ key < INT_MAX => Walk(Avoiding(live, node), in.target, out.target, key)
  BY <1>1, WitnessIsWalk
<1> HIDE DEF key
<1>4. d \in Nat /\ d > 0
  BY <1>1
<1>5. Needed(node, in, out) => in.target # out.target
  BY <1>2, <1>3, <1>4
<1>6. ASSUME ~Needed(node, in, out), d < INT_MAX
      PROVE  Walk(Avoiding(live, node), in.target, out.target, d)
  <2>1. key <= d /\ key < INT_MAX
    BY <1>2, <1>3, <1>4, <1>6, ContractorAssumption
  <2> HIDE DEF d
  <2> QED
    BY <1>3, <1>4, <2>1, WalkMono
<1> QED
  BY <1>5, <1>6

SameArc(e, f) == e.source = f.source /\ e.target = f.target /\ e.distance = f.distance

\* Merging keeps the arcs in both directions.
LEMMA MergedFlags ==
    ASSUME NEW new, GoodEdges(new)
    PROVE  /\ GoodEdges(MergeFlags(new))
           /\ \A e \in MergeFlags(new) :
                /\ e.forward => \E f \in new : SameArc(e, f) /\ f.forward
                /\ e.backward => \E f \in new : SameArc(e, f) /\ f.backward
           /\ \A f \in new : \E e \in MergeFlags(new) :
                SameArc(e, f) /\ (f.forward => e.forward) /\ (f.backward => e.backward)
<1> DEFINE Fwd(e) == \E f \in new : /\ f.source = e.source /\ f.target = e.target
                                      /\ f.distance = e.distance /\ f.forward
           Bwd(e) == \E f \in new : /\ f.source = e.source /\ f.target = e.target
                                     /\ f.distance = e.distance /\ f.backward
           Merged(e) == [e EXCEPT !.forward = Fwd(e), !.backward = Bwd(e)]
<1>1. MergeFlags(new) = {Merged(e) : e \in new}
  BY DEF MergeFlags
<1>2. ASSUME NEW e \in new
      PROVE  /\ Merged(e) \in EdgeRecords /\ SameArc(Merged(e), e)
             /\ Merged(e).forward <=> Fwd(e)
             /\ Merged(e).backward <=> Bwd(e)
  <2>1. e \in EdgeRecords
    BY DEF GoodEdges
  <2>2. Fwd(e) \in BOOLEAN /\ Bwd(e) \in BOOLEAN
    OBVIOUS
  <2> HIDE DEF Fwd, Bwd
  <2> QED
    BY <2>1, <2>2 DEF EdgeRecords, SameArc
<1> HIDE DEF Merged
<1>3. ASSUME NEW e \in new
      PROVE  /\ Merged(e).forward => \E f \in new : SameArc(Merged(e), f) /\ f.forward
             /\ Merged(e).backward => \E f \in new : SameArc(Merged(e), f) /\ f.backward
             /\ e.forward => Merged(e).forward
             /\ e.backward => Merged(e).backward
  BY <1>2 DEF SameArc
<1>4. ASSUME NEW e \in new
      PROVE  /\ Merged(e).source # Merged(e).target
             /\ Merged(e).forward \/ Merged(e).backward
  <2>1. e.source # e.target /\ (e.forward \/ e.backward)
    BY DEF GoodEdges
  <2> QED
    BY <1>2, <1>3, <2>1 DEF SameArc
<1>5. GoodEdges(MergeFlags(new))
  BY <1>1, <1>2, <1>4 DEF GoodEdges
<1>6. ASSUME NEW e \in MergeFlags(new)
      PROVE  /\ e.forward => \E f \in new : SameArc(e, f) /\ f.forward
             /\ e.backward => \E f \in new : SameArc(e, f) /\ f.backward
  <2>1. PICK f \in new : e = Merged(f)
    BY <1>1
  <2> QED
    BY <1>3, <2>1
<1>7. ASSUME NEW f \in new
      PROVE  \E e \in MergeFlags(new) :
               SameArc(e, f) /\ (f.forward => e.forward) /\ (f.backward => e.backward)
  <2>1. Merged(f) \in MergeFlags(new)
    BY <1>1
  <2> QED
    BY <1>2, <1>3, <2>1
<1> QED
  BY <1>5, <1>6, <1>7

\* Edge e stands for a way through node, forwards or backwards.
LeadsThrough(node, e) ==
    \E in \in InEdges(node), out \in OutEdges(node) :
      /\ e.source = in.target /\ e.target = out.target
      /\ e.distance = in.distance + out.distance
LedThrough(node, e) ==
    \E in \in InEdges(node), out \in OutEdges(node) :
      /\ e.source = out.target /\ e.target = in.target
      /\ e.distance = in.distance + out.distance

\* Edge x is the entry at one end of the way through in and out, or at the other end.
IsThere(x, in, out) ==
    /\ x \in EdgeRecords /\ x.source = in.target /\ x.target = out.target
    /\ x.distance = in.distance + out.distance /\ x.forward /\ ~x.backward
IsBack(x, in, out) ==
    /\ x \in EdgeRecords /\ x.source = out.target /\ x.target = in.target
    /\ x.distance = in.distance + out.distance /\ ~x.forward /\ x.backward

\* The entries of a needed shortcut.
LEMMA EntryFields ==
    ASSUME NEW live, Ready(contractor_graph, live), NEW node \in live,
           NEW in \in InEdges(node), NEW out \in OutEdges(node), Needed(node, in, out)
    PROVE  /\ There(node, in, out) \in Entries(node) /\ Back(node, in, out) \in Entries(node)
           /\ IsThere(There(node, in, out), in, out) /\ IsBack(Back(node, in, out), in, out)
<1>1. /\ in.target \in NodeIDs /\ out.target \in NodeIDs /\ node \in NodeIDs
      /\ in.distance + out.distance \in Nat \ {0}
  BY InOutEdges, LiveGood
<1>2. There(node, in, out) \in EdgeRecords /\ Back(node, in, out) \in EdgeRecords
  BY <1>1 DEF There, Back, Edge, EdgeRecords
<1> DEFINE q == <<in, out>>
<1>3. q \in InEdges(node) \X OutEdges(node) /\ q[1] = in /\ q[2] = out
  OBVIOUS
<1>4. There(node, in, out) \in Entries(node) /\ Back(node, in, out) \in Entries(node)
  <2> HIDE DEF q
  <2> QED
    BY <1>3 DEF Entries
<1>5. /\ There(node, in, out).source = in.target /\ There(node, in, out).target = out.target
      /\ There(node, in, out).distance = in.distance + out.distance
      /\ There(node, in, out).forward /\ ~There(node, in, out).backward
  BY DEF There, Edge
<1>6. /\ Back(node, in, out).source = out.target /\ Back(node, in, out).target = in.target
      /\ Back(node, in, out).distance = in.distance + out.distance
      /\ ~Back(node, in, out).forward /\ Back(node, in, out).backward
  BY DEF Back, Edge
<1> QED
  BY <1>2, <1>4, <1>5, <1>6 DEF IsThere, IsBack

\* Every entry is one of the two of a needed shortcut.
LEMMA EntryIs ==
    ASSUME NEW node, NEW x \in Entries(node)
    PROVE  \E in \in InEdges(node), out \in OutEdges(node) :
             Needed(node, in, out) /\ (x = There(node, in, out) \/ x = Back(node, in, out))
<1>1. PICK q \in InEdges(node) \X OutEdges(node) :
        Needed(node, q[1], q[2]) /\ x \in {There(node, q[1], q[2]), Back(node, q[1], q[2])}
  BY DEF Entries
<1>2. q[1] \in InEdges(node) /\ q[2] \in OutEdges(node)
  OBVIOUS
<1> QED
  BY <1>1, <1>2

\* The shortcuts of a node: ways through it, known at both ends; those that are missing
\* have a witness.
LEMMA Shortcuts ==
    ASSUME NEW live, Ready(contractor_graph, live), NEW node \in live
    PROVE  /\ GoodEdges(ContractNode(node))
           /\ \A e \in ContractNode(node) :
                /\ e.forward => LeadsThrough(node, e)
                /\ e.backward => LedThrough(node, e)
                /\ HasMirror(ContractNode(node), e)
           /\ \A in \in InEdges(node), out \in OutEdges(node) :
                \/ \E e \in ContractNode(node) :
                     /\ e.forward /\ e.source = in.target /\ e.target = out.target
                     /\ e.distance = in.distance + out.distance
                \/ in.distance + out.distance < INT_MAX =>
                     Walk(Avoiding(live, node), in.target, out.target,
                          in.distance + out.distance)
<1> DEFINE new == Entries(node)
           C == ContractNode(node)
<1>1. ASSUME NEW x \in new
      PROVE  /\ x \in EdgeRecords /\ x.source # x.target /\ (x.forward \/ x.backward)
             /\ x.forward => LeadsThrough(node, x)
             /\ x.backward => LedThrough(node, x)
             /\ x.forward => \E y \in new : y.source = x.target /\ y.target = x.source
                                            /\ y.backward /\ y.distance = x.distance
             /\ x.backward => \E y \in new : y.source = x.target /\ y.target = x.source
                                             /\ y.forward /\ y.distance = x.distance
  <2>1. PICK in \in InEdges(node), out \in OutEdges(node) :
          Needed(node, in, out) /\ (x = There(node, in, out) \/ x = Back(node, in, out))
    BY EntryIs
  <2>a. /\ There(node, in, out) \in Entries(node) /\ Back(node, in, out) \in Entries(node)
        /\ IsThere(There(node, in, out), in, out) /\ IsBack(Back(node, in, out), in, out)
    BY <2>1, EntryFields
  <2>2. PICK t \in new, b \in new : IsThere(t, in, out) /\ IsBack(b, in, out) /\ (x = t \/ x = b)
    BY <2>1, <2>a
  <2>3. in.target # out.target
    BY <2>1, NeededOrWitness
  <2> HIDE DEF new
  <2>4. CASE x = t
    <3>1. LeadsThrough(node, x)
      BY <2>2, <2>4 DEF LeadsThrough, IsThere
    <3> QED
      BY <2>2, <2>3, <2>4, <3>1 DEF IsThere, IsBack
  <2>5. CASE x = b
    <3>1. LedThrough(node, x)
      BY <2>2, <2>5 DEF LedThrough, IsBack
    <3> QED
      BY <2>2, <2>3, <2>5, <3>1 DEF IsThere, IsBack
  <2> QED
    BY <2>2, <2>4, <2>5
<1>2. GoodEdges(new)
  BY <1>1 DEF GoodEdges
<1>3. C = MergeFlags(new)
  BY EntriesMerged
<1>4. /\ GoodEdges(C)
      /\ \A e \in C :
           /\ e.forward => \E f \in new : SameArc(e, f) /\ f.forward
           /\ e.backward => \E f \in new : SameArc(e, f) /\ f.backward
      /\ \A f \in new : \E e \in C :
           SameArc(e, f) /\ (f.forward => e.forward) /\ (f.backward => e.backward)
  BY <1>2, <1>3, MergedFlags
<1>5. \A e \in new : e.distance \in Nat
  BY <1>1 DEF EdgeRecords
<1> HIDE DEF new, C
<1>6. ASSUME NEW e \in C
      PROVE  /\ e.forward => LeadsThrough(node, e)
             /\ e.backward => LedThrough(node, e)
             /\ HasMirror(C, e)
  <2>1. ASSUME e.forward
        PROVE  /\ LeadsThrough(node, e)
               /\ \E g \in C : /\ g.source = e.target /\ g.target = e.source
                               /\ g.backward /\ g.distance <= e.distance
    <3>1. PICK f \in new : SameArc(e, f) /\ f.forward
      BY <1>4, <2>1
    <3>2. PICK y \in new : y.source = f.target /\ y.target = f.source
                           /\ y.backward /\ y.distance = f.distance
      BY <1>1, <3>1
    <3>3. PICK g \in C : SameArc(g, y) /\ g.backward
      BY <1>4, <3>2
    <3>4. LeadsThrough(node, f)
      BY <1>1, <3>1
    <3>5. g.distance <= e.distance
      BY <1>5, <3>1, <3>2, <3>3 DEF SameArc
    <3> QED
      BY <3>1, <3>2, <3>3, <3>4, <3>5 DEF SameArc, LeadsThrough
  <2>2. ASSUME e.backward
        PROVE  /\ LedThrough(node, e)
               /\ \E g \in C : /\ g.source = e.target /\ g.target = e.source
                               /\ g.forward /\ g.distance <= e.distance
    <3>1. PICK f \in new : SameArc(e, f) /\ f.backward
      BY <1>4, <2>2
    <3>2. PICK y \in new : y.source = f.target /\ y.target = f.source
                           /\ y.forward /\ y.distance = f.distance
      BY <1>1, <3>1
    <3>3. PICK g \in C : SameArc(g, y) /\ g.forward
      BY <1>4, <3>2
    <3>4. LedThrough(node, f)
      BY <1>1, <3>1
    <3>5. g.distance <= e.distance
      BY <1>5, <3>1, <3>2, <3>3 DEF SameArc
    <3> QED
      BY <3>1, <3>2, <3>3, <3>4, <3>5 DEF SameArc, LedThrough
  <2> QED
    BY <2>1, <2>2 DEF HasMirror
<1>7. ASSUME NEW in \in InEdges(node), NEW out \in OutEdges(node), Needed(node, in, out)
      PROVE  \E e \in C : /\ e.forward /\ e.source = in.target /\ e.target = out.target
                          /\ e.distance = in.distance + out.distance
  <2>1. There(node, in, out) \in Entries(node) /\ IsThere(There(node, in, out), in, out)
    BY <1>7, EntryFields
  <2>2. PICK t \in new : IsThere(t, in, out)
    BY <2>1 DEF new
  <2>3. PICK e \in C : SameArc(e, t) /\ (t.forward => e.forward)
    BY <1>4
  <2> QED
    BY <2>2, <2>3 DEF SameArc, IsThere
<1>8. \A in \in InEdges(node), out \in OutEdges(node) :
                \/ \E e \in C :
                     /\ e.forward /\ e.source = in.target /\ e.target = out.target
                     /\ e.distance = in.distance + out.distance
                \/ in.distance + out.distance < INT_MAX =>
                     Walk(Avoiding(live, node), in.target, out.target,
                          in.distance + out.distance)
  BY <1>7, NeededOrWitness
<1> QED
  BY <1>4, <1>6, <1>8 DEF C

-----------------------------------------------------------------------------
(* Insertion of the shortcuts *)

\* Edge g allows whatever e does, and is no heavier.
Better(g, e) ==
    /\ g.source = e.source /\ g.target = e.target /\ g.distance <= e.distance
    /\ e.forward => g.forward
    /\ e.backward => g.backward

\* Being better is a preorder.
LEMMA BetterOrder ==
    /\ \A e \in EdgeRecords : Better(e, e)
    /\ \A e, f, g \in EdgeRecords : Better(e, f) /\ Better(f, g) => Better(e, g)
<1>1. ASSUME NEW e \in EdgeRecords PROVE Better(e, e)
  BY DEF Better, EdgeRecords
<1>2. ASSUME NEW e \in EdgeRecords, NEW f \in EdgeRecords, NEW g \in EdgeRecords,
             Better(e, f), Better(f, g)
      PROVE  Better(e, g)
  <2>1. e.distance \in Int /\ f.distance \in Int /\ g.distance \in Int
    BY DEF EdgeRecords
  <2>2. e.distance <= g.distance
    BY <1>2, <2>1 DEF Better
  <2> QED
    BY <1>2, <2>2 DEF Better
<1> QED
  BY <1>1, <1>2

\* Graph G results from the insertion of the edges of new into E.
Inserted(E, new, G) ==
    /\ G \subseteq E \cup new
    /\ \A e \in E \cup new : \E g \in G : Better(g, e)
    /\ \A e \in E : (\A n \in new : n.source # e.source) => e \in G

\* One edge.
LEMMA InsertOne ==
    ASSUME NEW E, NEW new, E \subseteq EdgeRecords, new \in EdgeRecords, NEW G \in InsertEdge(E, new)
    PROVE  Inserted(E, {new}, G)
<1> DEFINE same == {e \in E : e.source = new.source /\ e.target = new.target}
           Updates(e) == /\ e.shortcut /\ e.forward = new.forward
                         /\ e.backward = new.backward /\ new.distance < e.distance
<1>0. \A e \in EdgeRecords : Better(e, e)
  BY BetterOrder
<1>1. \/ \E e \in same : Updates(e) /\ G = (E \ {e}) \cup {new}
      \/ G = E \cup {new}
  BY DEF InsertEdge
<1>2. CASE G = E \cup {new}
  BY <1>0, <1>2 DEF Inserted
<1>3. CASE \E e \in same : Updates(e) /\ G = (E \ {e}) \cup {new}
  <2>1. PICK e \in same : Updates(e) /\ G = (E \ {e}) \cup {new}
    BY <1>3
  <2>2. new.distance \in Int /\ e.distance \in Int
    BY DEF EdgeRecords
  <2>3. Better(new, e)
    BY <2>1, <2>2 DEF Better
  <2> QED
    BY <1>0, <2>1, <2>3 DEF Inserted
<1> QED
  BY <1>1, <1>2, <1>3

\* A state of the loop: the entries that are not left are inserted.
LoopState(E, new, n, s) ==
    /\ s.graph \subseteq E \cup new /\ s.left \subseteq new
    /\ Cardinality(s.left) = Cardinality(new) - n
    /\ Inserted(E, new \ s.left, s.graph)

\* A turn inserts one more.
LEMMA TurnInserts ==
    ASSUME NEW E, NEW new, E \cup new \subseteq EdgeRecords, IsFiniteSet(new), NEW n \in Nat,
           NEW s, LoopState(E, new, n, s), NEW r \in InsertTurn(s)
    PROVE  LoopState(E, new, n + 1, r)
<1>0. PICK e \in s.left : \E G \in InsertEdge(s.graph, e) : r = [graph |-> G, left |-> s.left \ {e}]
  BY DEF InsertTurn
<1>1. PICK G \in InsertEdge(s.graph, e) : r = [graph |-> G, left |-> s.left \ {e}]
  BY <1>0
<1>2. r.graph = G /\ r.left = s.left \ {e}
  BY <1>1
<1>3. /\ s.graph \subseteq E \cup new /\ s.left \subseteq new /\ e \in new
      /\ Cardinality(s.left) = Cardinality(new) - n
      /\ Inserted(E, new \ s.left, s.graph)
      /\ s.graph \subseteq EdgeRecords /\ e \in EdgeRecords
  BY DEF LoopState
<1>4. Cardinality(r.left) = Cardinality(new) - (n + 1)
  <2>1. IsFiniteSet(s.left)
    BY <1>3, FS_Subset
  <2>2. Cardinality(s.left \ {e}) = Cardinality(s.left) - 1
    BY <2>1, FS_RemoveElement
  <2>3. Cardinality(new) \in Nat
    BY FS_CardinalityType
  <2> QED
    BY <1>2, <1>3, <2>2, <2>3
<1>5. Inserted(s.graph, {e}, G)
  BY <1>3, InsertOne
<1>6. G \subseteq E \cup (new \ r.left)
  BY <1>2, <1>3, <1>5 DEF Inserted
<1>7. ASSUME NEW f \in E \cup (new \ r.left) PROVE \E g \in G : Better(g, f)
  <2>1. CASE f = e
    BY <1>5, <2>1 DEF Inserted
  <2>2. CASE f # e
    <3>1. PICK h \in s.graph : Better(h, f)
      BY <1>2, <1>3, <2>2 DEF Inserted
    <3>2. PICK g \in G : Better(g, h)
      BY <1>5 DEF Inserted
    <3>3. f \in EdgeRecords /\ g \in EdgeRecords /\ h \in EdgeRecords
      BY <1>2, <1>3, <1>6
    <3> QED
      BY <3>1, <3>2, <3>3, BetterOrder
  <2> QED
    BY <2>1, <2>2
<1>8. ASSUME NEW f \in E, \A x \in new \ r.left : x.source # f.source PROVE f \in G
  <2>1. f \in s.graph
    BY <1>2, <1>3, <1>8 DEF Inserted
  <2>2. e.source # f.source
    BY <1>2, <1>3, <1>8
  <2> QED
    BY <1>5, <2>1, <2>2 DEF Inserted
<1> QED
  BY <1>2, <1>3, <1>4, <1>6, <1>7, <1>8 DEF LoopState, Inserted

\* InsertEdges inserts every entry.
LEMMA InsertAll ==
    ASSUME NEW E, NEW new, E \cup new \subseteq EdgeRecords, IsFiniteSet(new),
           NEW G \in InsertEdges(E, new)
    PROVE  Inserted(E, new, G)
<1> DEFINE N == Cardinality(new)
           first == {[graph |-> E, left |-> new]}
           Turn(T) == UNION {InsertTurn(s) : s \in T}
           IsRun(f) == f = [n \in 0 .. N |-> IF n = 0 THEN first ELSE Turn(f[n - 1])]
           turn == CHOOSE f : IsRun(f)
           States == [graph : SUBSET (E \cup new), left : SUBSET new]
           S == SUBSET States
           F == [T \in S |-> Turn(T)]
<1>0. N \in Nat
  BY FS_CardinalityType
<1>1. PICK s \in turn[N] : G = s.graph
  BY DEF InsertEdges
<1>2. ASSUME NEW T \in S PROVE Turn(T) \in S
  <2> SUFFICES ASSUME NEW x \in T, NEW r \in InsertTurn(x) PROVE r \in States
    OBVIOUS
  <2>0. PICK e \in x.left : \E H \in InsertEdge(x.graph, e) : r = [graph |-> H, left |-> x.left \ {e}]
    BY DEF InsertTurn
  <2>1. PICK H \in InsertEdge(x.graph, e) : r = [graph |-> H, left |-> x.left \ {e}]
    BY <2>0
  <2>2. x.graph \subseteq E \cup new /\ x.left \subseteq new
    OBVIOUS
  <2>3. Inserted(x.graph, {e}, H)
    BY <2>2, InsertOne
  <2> QED
    BY <2>1, <2>2, <2>3 DEF Inserted
<1>3. first \in S
  OBVIOUS
<1> HIDE DEF first, States, Turn
<1>5. \A T \in S : F[T] \in S
  BY <1>2
<1>6. PICK g : IsRunOf(g, S, F, first, N)
  <2> HIDE DEF S, F, N
  <2> QED
    BY <1>0, <1>3, <1>5, RunExists
<1>7. IsRun(g)
  <2>1. g \in [0 .. N -> S]
    BY <1>6 DEF IsRunOf
  <2>2. ASSUME NEW n \in 0 .. N PROVE g[n] = IF n = 0 THEN first ELSE Turn(g[n - 1])
    <3>1. g[n] = IF n = 0 THEN first ELSE F[g[n - 1]]
      BY <1>6 DEF IsRunOf
    <3>2. n # 0 => n - 1 \in 0 .. N
      BY <1>0
    <3>3. n # 0 => F[g[n - 1]] = Turn(g[n - 1])
      BY <2>1, <3>2
    <3> QED
      BY <3>1, <3>3
  <2> QED
    BY <2>1, <2>2
<1>8. IsRun(turn)
  <2> HIDE DEF IsRun
  <2> QED
    BY <1>7
<1> HIDE DEF turn
<1> DEFINE Good == {n \in 0 .. N : \A x \in turn[n] : LoopState(E, new, n, x)}
<1>9. 0 \in Good
  <2>1. turn[0] = first
    BY <1>0, <1>8
  <2> SUFFICES ASSUME NEW x \in first PROVE LoopState(E, new, 0, x)
    BY <1>0, <2>1
  <2>2. x.graph = E /\ x.left = new
    BY DEF first
  <2>3. Inserted(E, new \ new, E)
    BY BetterOrder DEF Inserted
  <2> QED
    BY <1>0, <2>2, <2>3 DEF LoopState
<1>10. ASSUME NEW n \in 0 .. N - 1, n \in Good PROVE n + 1 \in Good
  <2>1. turn[n + 1] = Turn(turn[n])
    BY <1>0, <1>8
  <2> SUFFICES ASSUME NEW r \in Turn(turn[n]) PROVE LoopState(E, new, n + 1, r)
    BY <1>0, <2>1
  <2>2. PICK x \in turn[n] : r \in InsertTurn(x)
    BY DEF Turn
  <2>3. LoopState(E, new, n, x)
    BY <1>10
  <2> QED
    BY <1>0, <2>2, <2>3, TurnInserts
<1>11. 0 .. N \subseteq Good
  <2> HIDE DEF Good, N
  <2> QED
    BY <1>0, <1>9, <1>10, BoundedInduction
<1>12. LoopState(E, new, N, s)
  BY <1>0, <1>1, <1>11
<1>13. s.left = {}
  <2>1. s.left \subseteq new /\ Cardinality(s.left) = 0
    BY <1>0, <1>12 DEF LoopState
  <2>2. IsFiniteSet(s.left)
    BY <2>1, FS_Subset
  <2> QED
    BY <2>1, <2>2, FS_EmptySet
<1>14. Inserted(E, new \ s.left, s.graph) /\ new \ s.left = new
  BY <1>12, <1>13 DEF LoopState
<1> QED
  BY <1>1, <1>14

-----------------------------------------------------------------------------
(* The edges after a round *)

\* The image of a finite set.
LEMMA FiniteImage ==
    ASSUME NEW S, IsFiniteSet(S), NEW f
    PROVE  IsFiniteSet({f[x] : x \in S})
<1> DEFINE g == [x \in S |-> f[x]]
           T == {f[x] : x \in S}
<1>1. g \in Surjection(S, T)
  BY DEF Surjection
<1> HIDE DEF g, T
<1>2. IsFiniteSet(T)
  BY <1>1, FS_Surjection
<1> QED
  BY <1>2 DEF T

\* A node has finitely many shortcuts.
LEMMA FiniteShortcuts ==
    ASSUME IsFiniteSet(contractor_graph), NEW node
    PROVE  IsFiniteSet(ContractNode(node))
<1> DEFINE P == InEdges(node) \X OutEdges(node)
           t == [p \in P |-> There(node, p[1], p[2])]
           b == [p \in P |-> Back(node, p[1], p[2])]
           new == Entries(node)
           m == [e \in new |->
                   [e EXCEPT !.forward = \E f \in new : /\ f.source = e.source /\ f.target = e.target
                                                        /\ f.distance = e.distance /\ f.forward,
                             !.backward = \E f \in new : /\ f.source = e.source /\ f.target = e.target
                                                         /\ f.distance = e.distance /\ f.backward]]
<1>1. IsFiniteSet(InEdges(node)) /\ IsFiniteSet(OutEdges(node))
  BY FS_Subset DEF InEdges, OutEdges, Adjacent
<1>2. IsFiniteSet(P)
  BY <1>1, FS_Product
<1>3. new \subseteq {t[p] : p \in P} \cup {b[p] : p \in P}
  BY DEF Entries
<1>4. ContractNode(node) = {m[e] : e \in new}
  BY EntriesMerged DEF MergeFlags
<1> HIDE DEF P, t, b, new, m
<1>5. IsFiniteSet({t[p] : p \in P}) /\ IsFiniteSet({b[p] : p \in P})
  BY <1>2, FiniteImage
<1>6. IsFiniteSet({t[p] : p \in P} \cup {b[p] : p \in P})
  BY <1>5, FS_Union
<1>7. IsFiniteSet(new)
  BY <1>3, <1>6, FS_Subset
<1>8. IsFiniteSet({m[e] : e \in new})
  BY <1>7, FiniteImage
<1> QED
  BY <1>4, <1>8

\* The shortcuts of a round.
NewEdges(I) == UNION {ContractNode(u) : u \in I}

\* Graph H results from a round that contracts the nodes of I.
Round(live, I, H) ==
    /\ Ready(contractor_graph, live) /\ I \subseteq live /\ Independent(contractor_graph, I)
    /\ H \in InsertEdges(DeleteIncomingEdges(contractor_graph, I), NewEdges(I))

\* The neighbours of a contracted node stay.
LEMMA NeighbourStays ==
    ASSUME NEW live, NEW I, NEW H, Round(live, I, H), NEW u \in I, NEW v \in Neighbours(contractor_graph, u)
    PROVE  v \in live \ I
<1>1. Ready(contractor_graph, live) /\ u \in live /\ Independent(contractor_graph, I)
  BY DEF Round
<1>2. v \in live /\ v # u
  BY <1>1, NeighboursMutual
<1> QED
  BY <1>1, <1>2 DEF Independent

\* Shortcuts join nodes that stay.
LEMMA ShortcutEnds ==
    ASSUME NEW live, NEW I, NEW H, Round(live, I, H), NEW u \in I, NEW e \in ContractNode(u)
    PROVE  e.source \in live \ I /\ e.target \in live \ I
<1>1. Ready(contractor_graph, live) /\ u \in live
  BY DEF Round
<1>2. ASSUME NEW f \in InEdges(u) \cup OutEdges(u)
      PROVE  f.target \in Neighbours(contractor_graph, u)
  <2>1. f \in contractor_graph /\ f.source = u
    BY DEF InEdges, OutEdges, Adjacent
  <2>2. GoodEdges(contractor_graph)
    BY <1>1 DEF Ready
  <2> QED
    BY <2>1, <2>2, EdgeNeighbours
<1>3. \A f : f \in InEdges(u) \cup OutEdges(u) => f.target \in live \ I
  BY <1>2, NeighbourStays
<1>4. LeadsThrough(u, e) \/ LedThrough(u, e)
  <2>1. GoodEdges(ContractNode(u)) /\ (e.forward => LeadsThrough(u, e)) /\ (e.backward => LedThrough(u, e))
    BY <1>1, Shortcuts
  <2>2. e.forward \/ e.backward
    BY <2>1, EdgeFields
  <2> QED
    BY <2>1, <2>2
<1> QED
  BY <1>3, <1>4 DEF LeadsThrough, LedThrough

\* What a round keeps, deletes and adds.
LEMMA RoundEdges ==
    ASSUME NEW live, NEW I, NEW H, Round(live, I, H)
    PROVE  /\ GoodEdges(H) /\ IsFiniteSet(H)
           /\ \A e \in H : \/ e \in contractor_graph /\ (e.source \in live => e.target \notin I)
                           \/ \E u \in I : e \in ContractNode(u)
           /\ \A e \in contractor_graph :
                e.source \in live /\ e.target \notin I => \E h \in H : Better(h, e)
           /\ \A u \in I : \A e \in ContractNode(u) : \E h \in H : Better(h, e)
           /\ \A e \in contractor_graph : e.source \notin live \ I => e \in H
<1> DEFINE G == contractor_graph
           E == DeleteIncomingEdges(G, I)
           new == NewEdges(I)
<1>1. /\ Ready(G, live) /\ I \subseteq live /\ Independent(G, I) /\ H \in InsertEdges(E, new)
      /\ GoodEdges(G) /\ IsFiniteSet(G) /\ live \subseteq NodeIDs
  BY DEF Round, Ready
<1>2. GoodEdges(new)
  <2>1. ASSUME NEW u \in I PROVE GoodEdges(ContractNode(u))
    BY <1>1, Shortcuts
  <2> QED
    BY <2>1 DEF GoodEdges, NewEdges
<1>3. IsFiniteSet(new)
  <2> DEFINE c == [u \in I |-> ContractNode(u)]
             C == {c[u] : u \in I}
  <2>1. number_of_nodes \in Nat
    BY ContractorAssumption
  <2>2. IsFiniteSet(NodeIDs)
    BY <2>1, FS_Interval DEF NodeIDs
  <2>3. IsFiniteSet(I)
    BY <1>1, <2>2, FS_Subset
  <2>4. \A x \in C : IsFiniteSet(x)
    BY <1>1, FiniteShortcuts
  <2>5. new = UNION C
    BY DEF NewEdges
  <2> HIDE DEF c
  <2>6. IsFiniteSet(C)
    BY <2>3, FiniteImage
  <2> HIDE DEF C, new
  <2> QED
    BY <2>4, <2>5, <2>6, FS_UNION
<1>4. E \subseteq G
  BY DEF DeleteIncomingEdges
<1>5. ASSUME NEW e \in G, e.source \in live PROVE e \in E <=> e.target \notin I
  <2>1. e.target \in Neighbours(G, e.source)
    BY <1>1, EdgeNeighbours
  <2>2. e.source \in Neighbours(G, e.target)
    BY <1>1, <1>5, <2>1, NeighboursMutual
  <2> QED
    BY <2>2 DEF DeleteIncomingEdges
<1>6. ASSUME NEW e \in G, e.source \notin live PROVE e \in E
  <2> SUFFICES ASSUME e.target \in I, e.source \in Neighbours(G, e.target) PROVE FALSE
    BY DEF DeleteIncomingEdges
  <2>1. e.source \in live
    BY <1>1, NeighboursMutual
  <2> QED
    BY <1>6, <2>1
<1>7. \A n \in new : n.source \in live \ I
  BY ShortcutEnds DEF NewEdges
<1> HIDE DEF E
<1>8. Inserted(E, new, H)
  <2>1. E \cup new \subseteq EdgeRecords
    BY <1>1, <1>2, <1>4 DEF GoodEdges
  <2> HIDE DEF new, G
  <2> QED
    BY <1>1, <1>3, <2>1, InsertAll
<1>9. GoodEdges(H)
  BY <1>1, <1>2, <1>4, <1>8 DEF GoodEdges, Inserted
<1>10. IsFiniteSet(H)
  <2>1. IsFiniteSet(G \cup new)
    BY <1>1, <1>3, FS_Union
  <2>2. H \subseteq G \cup new
    BY <1>4, <1>8 DEF Inserted
  <2> QED
    BY <2>1, <2>2, FS_Subset
<1>11. ASSUME NEW e \in H
       PROVE  \/ e \in G /\ (e.source \in live => e.target \notin I)
              \/ \E u \in I : e \in ContractNode(u)
  <2>1. e \in E \/ e \in new
    BY <1>8 DEF Inserted
  <2>2. CASE e \in E
    BY <1>4, <1>5, <2>2
  <2>3. CASE e \in new
    BY <2>3 DEF NewEdges
  <2> QED
    BY <2>1, <2>2, <2>3
<1>12. ASSUME NEW e \in G, e.source \in live, e.target \notin I PROVE \E h \in H : Better(h, e)
  BY <1>5, <1>8, <1>12 DEF Inserted
<1>13. ASSUME NEW u \in I, NEW e \in ContractNode(u) PROVE \E h \in H : Better(h, e)
  <2>1. e \in new
    BY DEF NewEdges
  <2> QED
    BY <1>8, <2>1 DEF Inserted
<1>14. ASSUME NEW e \in G, e.source \notin live \ I PROVE e \in H
  <2>1. e \in E
    <3>1. CASE e.source \notin live
      BY <1>6, <3>1
    <3>2. CASE e.source \in I
      <4>1. e.target \in Neighbours(G, e.source)
        BY <1>1, EdgeNeighbours
      <4>2. e.target \notin I
        BY <3>2, <4>1, NeighbourStays
      <4> QED
        BY <1>1, <1>5, <3>2, <4>2
    <3> QED
      BY <1>14, <3>1, <3>2
  <2>2. \A n \in new : n.source # e.source
    BY <1>7, <1>14
  <2> QED
    BY <1>8, <2>1, <2>2 DEF Inserted
<1> QED
  BY <1>9, <1>10, <1>11, <1>12, <1>13, <1>14

\* A round leaves a graph for the next one.
LEMMA RoundReady ==
    ASSUME NEW live, NEW I, NEW H, Round(live, I, H)
    PROVE  Ready(H, live \ I)
<1> DEFINE G == contractor_graph
<1>1. /\ GoodEdges(H) /\ IsFiniteSet(H)
      /\ \A e \in H : \/ e \in G /\ (e.source \in live => e.target \notin I)
                      \/ \E u \in I : e \in ContractNode(u)
      /\ \A e \in G : e.source \in live /\ e.target \notin I => \E h \in H : Better(h, e)
      /\ \A u \in I : \A e \in ContractNode(u) : \E h \in H : Better(h, e)
  BY RoundEdges
<1>2. /\ Ready(G, live) /\ I \subseteq live /\ live \subseteq NodeIDs /\ GoodEdges(G)
      /\ \A e \in G : e.source \in live => e.target \in live /\ HasMirror(G, e)
  BY DEF Round, Ready
\* An edge better than the mirror of e is a mirror of e.
<1>3. ASSUME NEW e, NEW f, NEW h, e \in EdgeRecords, f \in EdgeRecords, h \in EdgeRecords,
             f.source = e.target, f.target = e.source, f.distance <= e.distance, Better(h, f)
      PROVE  /\ h.source = e.target /\ h.target = e.source /\ h.distance <= e.distance
             /\ f.forward => h.forward
             /\ f.backward => h.backward
  <2>1. e.distance \in Int /\ f.distance \in Int /\ h.distance \in Int
    BY <1>3 DEF EdgeRecords
  <2> QED
    BY <1>3, <2>1 DEF Better
<1>4. ASSUME NEW X, GoodEdges(X), NEW e \in H, e \in X, HasMirror(X, e),
             \A f \in X : f.target = e.source => \E h \in H : Better(h, f)
      PROVE  HasMirror(H, e)
  <2>0. X \subseteq EdgeRecords /\ H \subseteq EdgeRecords
    BY <1>1, <1>4 DEF GoodEdges
  <2>1. ASSUME e.forward
        PROVE  \E h \in H : /\ h.source = e.target /\ h.target = e.source
                            /\ h.backward /\ h.distance <= e.distance
    <3>1. PICK f \in X : /\ f.source = e.target /\ f.target = e.source
                         /\ f.backward /\ f.distance <= e.distance
      BY <1>4, <2>1 DEF HasMirror
    <3>2. PICK h \in H : Better(h, f)
      BY <1>4, <3>1
    <3>3. h.source = e.target /\ h.target = e.source /\ h.distance <= e.distance /\ h.backward
      BY <1>3, <2>0, <3>1, <3>2
    <3> QED
      BY <3>3
  <2>2. ASSUME e.backward
        PROVE  \E h \in H : /\ h.source = e.target /\ h.target = e.source
                            /\ h.forward /\ h.distance <= e.distance
    <3>1. PICK f \in X : /\ f.source = e.target /\ f.target = e.source
                         /\ f.forward /\ f.distance <= e.distance
      BY <1>4, <2>2 DEF HasMirror
    <3>2. PICK h \in H : Better(h, f)
      BY <1>4, <3>1
    <3>3. h.source = e.target /\ h.target = e.source /\ h.distance <= e.distance /\ h.forward
      BY <1>3, <2>0, <3>1, <3>2
    <3> QED
      BY <3>3
  <2> QED
    BY <2>1, <2>2 DEF HasMirror
<1>5. ASSUME NEW e \in H, e.source \in live \ I PROVE e.target \in live \ I /\ HasMirror(H, e)
  <2>1. CASE e \in G /\ e.target \notin I
    <3>1. e.target \in live /\ HasMirror(G, e)
      BY <1>2, <1>5, <2>1
    <3>2. ASSUME NEW f \in G, f.target = e.source, f.source = e.target PROVE \E h \in H : Better(h, f)
      BY <1>1, <1>5, <3>1, <3>2
    <3> DEFINE X == {f \in G : f.source = e.target \/ f = e}
    <3>3. HasMirror(X, e) /\ GoodEdges(X) /\ e \in X
      BY <1>2, <2>1, <3>1 DEF HasMirror, GoodEdges
    <3>4. \A f \in X : f.target = e.source => \E h \in H : Better(h, f)
      <4>1. e.target # e.source
        BY <1>1 DEF GoodEdges
      <4> QED
        BY <3>2, <4>1
    <3> HIDE DEF X
    <3> QED
      BY <1>4, <2>1, <3>1, <3>3, <3>4
  <2>2. CASE \E u \in I : e \in ContractNode(u)
    <3>1. PICK u \in I : e \in ContractNode(u)
      BY <2>2
    <3>2. e.target \in live \ I
      BY <3>1, ShortcutEnds
    <3>3. GoodEdges(ContractNode(u)) /\ HasMirror(ContractNode(u), e)
      BY <1>2, <3>1, Shortcuts
    <3>4. \A f \in ContractNode(u) : \E h \in H : Better(h, f)
      BY <1>1, <3>1
    <3> QED
      BY <1>4, <3>1, <3>2, <3>3, <3>4
  <2> QED
    BY <1>1, <1>5, <2>1, <2>2
<1> QED
  BY <1>1, <1>2, <1>5 DEF Ready

-----------------------------------------------------------------------------
(* A round keeps the walks between the nodes that stay *)

FArcs(G, live) == ForwardArcs(LiveEdges(G, live))
BArcs(G, live) == BackwardArcs(LiveEdges(G, live))

\* The arcs among the nodes that remain, seen from either end.
LEMMA LiveArcs ==
    ASSUME NEW G, NEW live, Ready(G, live)
    PROVE  /\ FArcs(G, live) \in SUBSET Arcs /\ BArcs(G, live) \in SUBSET Arcs
           /\ \A a \in FArcs(G, live) : \E e \in G :
                /\ e.source \in live /\ e.forward
                /\ a.from = e.source /\ a.to = e.target /\ a.weight = e.distance
           /\ \A a \in BArcs(G, live) : \E e \in G :
                /\ e.source \in live /\ e.backward
                /\ a.from = e.source /\ a.to = e.target /\ a.weight = e.distance
           /\ \A e \in G : e.source \in live /\ e.forward => \E a \in FArcs(G, live) :
                a.from = e.source /\ a.to = e.target /\ a.weight = e.distance
           /\ \A e \in G : e.source \in live /\ e.backward => \E a \in BArcs(G, live) :
                a.from = e.source /\ a.to = e.target /\ a.weight = e.distance
<1> DEFINE L == LiveEdges(G, live)
<1>1. GoodEdges(L)
  BY LiveGood
<1>2. \A e : e \in L <=> e \in G /\ e.source \in live
  BY DEF LiveEdges
<1>3. FArcs(G, live) = ForwardArcs(L) /\ BArcs(G, live) = BackwardArcs(L)
  BY DEF FArcs, BArcs
<1> HIDE DEF L
<1>4. /\ ForwardArcs(L) \in SUBSET Arcs /\ BackwardArcs(L) \in SUBSET Arcs
      /\ \A a \in ForwardArcs(L) : \E e \in L :
           e.forward /\ a.from = e.source /\ a.to = e.target /\ a.weight = e.distance
      /\ \A a \in BackwardArcs(L) : \E e \in L :
           e.backward /\ a.from = e.source /\ a.to = e.target /\ a.weight = e.distance
      /\ \A e \in L : e.forward => \E a \in ForwardArcs(L) :
           a.from = e.source /\ a.to = e.target /\ a.weight = e.distance
      /\ \A e \in L : e.backward => \E a \in BackwardArcs(L) :
           a.from = e.source /\ a.to = e.target /\ a.weight = e.distance
  BY <1>1, ArcsAreEdges
<1> QED
  BY <1>2, <1>3, <1>4

\* An edge is a walk.
LEMMA EdgeWalk ==
    ASSUME NEW G, NEW live, Ready(G, live), NEW e \in G, e.source \in live, e.forward,
           NEW w \in Budgets, e.distance <= w
    PROVE  Walk(FArcs(G, live), e.source, e.target, w)
<1>1. PICK a \in FArcs(G, live) : a.from = e.source /\ a.to = e.target /\ a.weight = e.distance
  BY LiveArcs
<1>2. FArcs(G, live) \in SUBSET Arcs
  BY LiveArcs
<1> QED
  BY <1>1, <1>2, WalkArc

\* Arcs seen from the other end.
LEMMA MirrorArcs ==
    ASSUME NEW G, NEW live, Ready(G, live)
    PROVE  Reverses(FArcs(G, live), BArcs(G, live)) /\ Reverses(BArcs(G, live), FArcs(G, live))
<1> DEFINE F == FArcs(G, live)
           B == BArcs(G, live)
<1>1. /\ F \in SUBSET Arcs /\ B \in SUBSET Arcs
      /\ \A a \in F : \E e \in G :
                /\ e.source \in live /\ e.forward
                /\ a.from = e.source /\ a.to = e.target /\ a.weight = e.distance
      /\ \A a \in B : \E e \in G :
                /\ e.source \in live /\ e.backward
                /\ a.from = e.source /\ a.to = e.target /\ a.weight = e.distance
      /\ \A e \in G : e.source \in live /\ e.forward => \E a \in F :
                a.from = e.source /\ a.to = e.target /\ a.weight = e.distance
      /\ \A e \in G : e.source \in live /\ e.backward => \E a \in B :
                a.from = e.source /\ a.to = e.target /\ a.weight = e.distance
  BY LiveArcs
<1> HIDE DEF F, B
<1>2. ASSUME NEW a \in F PROVE \E b \in B : b.from = a.to /\ b.to = a.from /\ b.weight <= a.weight
  <2>1. PICK e \in G : /\ e.source \in live /\ e.forward
                       /\ a.from = e.source /\ a.to = e.target /\ a.weight = e.distance
    BY <1>1
  <2>2. e.target \in live /\ HasMirror(G, e)
    BY <2>1 DEF Ready
  <2>3. PICK f \in G : /\ f.source = e.target /\ f.target = e.source
                       /\ f.backward /\ f.distance <= e.distance
    BY <2>1, <2>2 DEF HasMirror
  <2>4. PICK b \in B : b.from = f.source /\ b.to = f.target /\ b.weight = f.distance
    BY <1>1, <2>2, <2>3
  <2> QED
    BY <2>1, <2>3, <2>4
<1>3. ASSUME NEW a \in B PROVE \E b \in F : b.from = a.to /\ b.to = a.from /\ b.weight <= a.weight
  <2>1. PICK e \in G : /\ e.source \in live /\ e.backward
                       /\ a.from = e.source /\ a.to = e.target /\ a.weight = e.distance
    BY <1>1
  <2>2. e.target \in live /\ HasMirror(G, e)
    BY <2>1 DEF Ready
  <2>3. PICK f \in G : /\ f.source = e.target /\ f.target = e.source
                       /\ f.forward /\ f.distance <= e.distance
    BY <2>1, <2>2 DEF HasMirror
  <2>4. PICK b \in F : b.from = f.source /\ b.to = f.target /\ b.weight = f.distance
    BY <1>1, <2>2, <2>3
  <2> QED
    BY <2>1, <2>3, <2>4
<1>4. Reverses(F, B) /\ Reverses(B, F)
  BY <1>1, <1>2, <1>3 DEF Reverses
<1> QED
  BY <1>4 DEF F, B

\* A way through a node is a walk.
LEMMA ThroughIsWalk ==
    ASSUME NEW live, Ready(contractor_graph, live), NEW u \in live,
           NEW in \in InEdges(u), NEW out \in OutEdges(u), in.distance + out.distance < INT_MAX
    PROVE  Walk(FArcs(contractor_graph, live), in.target, out.target, in.distance + out.distance)
<1> DEFINE A == FArcs(contractor_graph, live)
           i == in.distance
           j == out.distance
<1>1. /\ in \in contractor_graph /\ in.source = u /\ in.backward
      /\ in.target \in live /\ i \in Nat \ {0}
      /\ out \in contractor_graph /\ out.source = u /\ out.forward
      /\ out.target \in live /\ j \in Nat \ {0}
  BY InOutEdges
<1>2. i \in Budgets /\ j \in Budgets /\ i + j \in Budgets
  BY <1>1, ContractorAssumption DEF Budgets
<1>3. PICK f \in contractor_graph : /\ f.source = in.target /\ f.target = u
                                    /\ f.forward /\ f.distance <= i
  BY <1>1 DEF Ready, HasMirror
<1>4. Walk(A, in.target, u, i)
  BY <1>1, <1>2, <1>3, EdgeWalk
<1>5. j <= j
  BY <1>1
<1>6. Walk(A, u, out.target, j)
  BY <1>1, <1>2, <1>5, EdgeWalk
<1>7. A \in SUBSET Arcs /\ live \subseteq NodeIDs
  BY LiveArcs DEF Ready
<1> HIDE DEF A, i, j
<1>8. Walk(A, in.target, out.target, i + j)
  BY <1>1, <1>2, <1>4, <1>6, <1>7, WalkJoin
<1> QED
  BY <1>8 DEF A, i, j

\* A round adds no walk.
LEMMA RoundAddsNoWalk ==
    ASSUME NEW live, NEW I, NEW H, Round(live, I, H)
    PROVE  Covers(FArcs(contractor_graph, live), FArcs(H, live \ I))
<1> DEFINE A == FArcs(contractor_graph, live)
           B == FArcs(H, live \ I)
<1>1. Ready(contractor_graph, live) /\ Ready(H, live \ I) /\ I \subseteq live
  BY RoundReady DEF Round
<1>2. A \in SUBSET Arcs /\ B \in SUBSET Arcs
  BY <1>1, LiveArcs
<1> SUFFICES ASSUME NEW b \in B, b.weight < INT_MAX PROVE Walk(A, b.from, b.to, b.weight)
  BY <1>2 DEF Covers
<1>3. PICK e \in H : /\ e.source \in live \ I /\ e.forward
                     /\ b.from = e.source /\ b.to = e.target /\ b.weight = e.distance
  BY <1>1, LiveArcs
<1>a. b.weight \in Nat \ {0}
  <2> HIDE DEF B
  <2> QED
    BY <1>2 DEF Arcs
<1>4. b.weight \in Budgets /\ e.distance <= b.weight
  BY <1>3, <1>a, ContractorAssumption DEF Budgets
<1>5. CASE e \in contractor_graph
  BY <1>1, <1>3, <1>4, <1>5, EdgeWalk
<1>6. CASE \E u \in I : e \in ContractNode(u)
  <2>1. PICK u \in I : e \in ContractNode(u)
    BY <1>6
  <2>2. LeadsThrough(u, e)
    BY <1>1, <1>3, <2>1, Shortcuts
  <2>3. PICK in \in InEdges(u), out \in OutEdges(u) :
            /\ e.source = in.target /\ e.target = out.target
            /\ e.distance = in.distance + out.distance
    BY <2>2 DEF LeadsThrough
  <2>4. in.distance + out.distance < INT_MAX /\ u \in live
    BY <1>1, <1>3, <2>3
  <2>5. Walk(A, in.target, out.target, in.distance + out.distance)
    BY <1>1, <2>4, ThroughIsWalk
  <2> QED
    BY <1>3, <2>3, <2>5
<1> QED
  BY <1>5, <1>6, RoundEdges

\* Walks that start elsewhere and avoid a node do not end there.
LEMMA AvoidsNode ==
    ASSUME NEW live, Ready(contractor_graph, live), NEW u \in live, NEW z \in live, NEW q \in live,
           NEW w \in Budgets, Walk(Avoiding(live, u), z, q, w), z # u
    PROVE  /\ q # u /\ Walk(FArcs(contractor_graph, live), z, q, w)
           /\ z # q => \E a \in Avoiding(live, u) :
                         /\ a.to = q /\ a.from \in live /\ a.from # u /\ a.weight \in Nat \ {0}
                         /\ Walk(Avoiding(live, u), z, a.from, w - a.weight)
                         /\ w - a.weight \in Budgets
<1> DEFINE V == Avoiding(live, u)
           A == FArcs(contractor_graph, live)
<1>1. /\ V \in SUBSET Arcs /\ A \in SUBSET Arcs /\ V \subseteq A /\ \A a \in V : a.to # u
      /\ \A a \in A : a.from \in live
      /\ live \subseteq NodeIDs
  BY AvoidingArcs, LiveArcs DEF Avoiding, FArcs, Ready
<1> HIDE DEF V, A
<1>2. \A x \in NodeIDs, k \in Budgets : Walk(V, z, x, k) => x # u
  BY <1>1, WalkStep
<1>3. Walk(V, z, q, w)
  BY DEF V
<1>4. Covers(A, V)
  <2>1. \A a \in V : a.weight <= a.weight
    BY <1>1 DEF Arcs
  <2>2. Dominates(A, V)
    BY <1>1, <2>1 DEF Dominates
  <2> QED
    BY <2>2, DominatesCovers
<1>5. Walk(A, z, q, w)
  BY <1>1, <1>3, <1>4, WalkCovered
<1>6. ASSUME z # q
      PROVE  \E a \in V : /\ a.to = q /\ a.from \in live /\ a.from # u /\ a.weight \in Nat \ {0}
                          /\ Walk(V, z, a.from, w - a.weight)
                          /\ w - a.weight \in Budgets
  <2>1. PICK a \in V : a.to = q /\ Walk(V, z, a.from, w - a.weight)
    BY <1>1, <1>3, <1>6, WalkStep
  <2>2. a.weight \in Nat \ {0} /\ a.from \in NodeIDs /\ a.from \in live
    BY <1>1 DEF Arcs
  <2>3. w - a.weight >= 0
    BY <2>1, <2>2, WalkWeight DEF Budgets
  <2>4. w - a.weight \in Budgets
    BY <2>2, <2>3, ContractorAssumption DEF Budgets
  <2>5. a.from # u
    BY <1>2, <2>1, <2>2, <2>4
  <2> QED
    BY <2>1, <2>2, <2>4, <2>5
<1> QED
  BY <1>1, <1>2, <1>3, <1>5, <1>6 DEF V, A

\* An edge between nodes that stay is replaced by one that is no heavier.
LEMMA KeptWalk ==
    ASSUME NEW live, NEW I, NEW H, Round(live, I, H), NEW e,
           e \in contractor_graph \/ \E u \in I : e \in ContractNode(u),
           e.source \in live \ I, e.target \in live \ I, e.forward,
           NEW w \in Budgets, e.distance <= w
    PROVE  Walk(FArcs(H, live \ I), e.source, e.target, w)
<1>1. Ready(H, live \ I) /\ GoodEdges(H)
  BY RoundReady, RoundEdges
<1>2. PICK h \in H : Better(h, e)
  BY RoundEdges
<1>3. e.distance \in Int
  <2>1. Ready(contractor_graph, live) /\ I \subseteq live /\ GoodEdges(contractor_graph)
    BY DEF Round, Ready
  <2>2. CASE e \in contractor_graph
    BY <2>1, <2>2, EdgeFields
  <2>3. CASE \E u \in I : e \in ContractNode(u)
    BY <2>1, <2>3, Shortcuts, EdgeFields
  <2> QED
    BY <2>2, <2>3
<1>4. h.distance \in Int /\ w \in Int
  BY <1>1, EdgeFields, ContractorAssumption DEF Budgets
<1>5. h.source = e.source /\ h.target = e.target /\ h.forward /\ h.distance <= w
  BY <1>2, <1>3, <1>4 DEF Better
<1> QED
  BY <1>1, <1>5, EdgeWalk

\* Two walks after each other, within a weight.
LEMMA WalkWithin ==
    ASSUME NEW A \in SUBSET Arcs, NEW u \in NodeIDs, NEW x \in NodeIDs, NEW v \in NodeIDs,
           NEW i \in Budgets, NEW j \in Budgets, NEW w \in Budgets, i + j <= w,
           Walk(A, u, x, i), Walk(A, x, v, j)
    PROVE  Walk(A, u, v, w)
<1>1. i + j \in Budgets /\ i + j \in Int /\ w \in Int
  BY ContractorAssumption DEF Budgets
<1>2. Walk(A, u, v, i + j)
  BY <1>1, WalkJoin
<1> QED
  BY <1>1, <1>2, WalkMono

\* Walks of the old graph between nodes that stay, up to weight w, are walks of the new.
KeepsWalks(live, I, H, w) ==
    \A x, y \in live \ I :
      Walk(FArcs(contractor_graph, live), x, y, w) => Walk(FArcs(H, live \ I), x, y, w)

\* A way through a contracted node is a shortcut or has a witness.
LEMMA ThroughKept ==
    ASSUME NEW live, NEW I, NEW H, Round(live, I, H), NEW u \in I,
           NEW in \in InEdges(u), NEW out \in OutEdges(u), NEW d \in Budgets,
           d = in.distance + out.distance,
           \A k \in 0 .. d - 1 : KeepsWalks(live, I, H, k)
    PROVE  Walk(FArcs(H, live \ I), in.target, out.target, d)
<1> DEFINE G == contractor_graph
           A == FArcs(G, live)
           B == FArcs(H, live \ I)
           z == in.target
           y == out.target
<1>1. /\ Ready(G, live) /\ I \subseteq live /\ u \in live /\ Independent(G, I)
      /\ GoodEdges(G) /\ live \subseteq NodeIDs /\ Ready(H, live \ I)
  BY RoundReady DEF Round, Ready
<1>2. /\ in \in G /\ in.source = u /\ z \in live /\ z # u
      /\ out \in G /\ out.source = u /\ y \in live /\ y # u
  BY <1>1, InOutEdges
<1>3. z \in Neighbours(G, u) /\ y \in Neighbours(G, u)
  BY <1>1, <1>2, EdgeNeighbours
<1>4. z \in live \ I /\ y \in live \ I
  BY <1>3, NeighbourStays
<1>5. d < INT_MAX /\ d <= d /\ INT_MAX \in Nat \ {0}
  BY ContractorAssumption DEF Budgets
<1>6. B \in SUBSET Arcs /\ A \in SUBSET Arcs
  BY <1>1, LiveArcs
<1>7. CASE \E e \in ContractNode(u) : /\ e.forward /\ e.source = z /\ e.target = y /\ e.distance = d
  <2>1. PICK e \in ContractNode(u) : /\ e.forward /\ e.source = z /\ e.target = y /\ e.distance = d
    BY <1>7
  <2> QED
    BY <1>4, <1>5, <2>1, KeptWalk
<1>8. CASE Walk(Avoiding(live, u), z, y, d) /\ z # y
  <2>1. PICK a \in Avoiding(live, u) :
           /\ a.to = y /\ a.from \in live /\ a.from # u /\ a.weight \in Nat \ {0}
           /\ Walk(Avoiding(live, u), z, a.from, d - a.weight)
           /\ d - a.weight \in Budgets
    BY <1>1, <1>2, <1>8, AvoidsNode
  <2> DEFINE q == a.from
             k == d - a.weight
  <2>2. Walk(A, z, q, k)
    BY <1>1, <1>2, <2>1, AvoidsNode
  <2>3. a \in A
    BY DEF Avoiding, FArcs
  <2>4. PICK e \in G : /\ e.source \in live /\ e.forward
                       /\ q = e.source /\ y = e.target /\ a.weight = e.distance
    BY <1>1, <2>1, <2>3, LiveArcs
  <2>5. y \in Neighbours(G, q)
    BY <1>1, <2>4, EdgeNeighbours
  <2>6. q \in live \ I
    BY <1>1, <1>3, <2>1, <2>5 DEF Independent
  <2>7. k \in 0 .. d - 1 /\ k + a.weight <= d /\ a.weight \in Budgets /\ e.distance <= a.weight
    BY <1>5, <2>1, <2>4 DEF Budgets
  <2>8. KeepsWalks(live, I, H, k)
    BY <2>7
  <2>9. Walk(B, z, q, k)
    BY <1>4, <2>2, <2>6, <2>8 DEF KeepsWalks
  <2>10. Walk(B, q, y, a.weight)
    BY <1>4, <2>4, <2>6, <2>7, KeptWalk
  <2>11. k \in Budgets
    BY <2>1
  <2> DEFINE j == a.weight
  <2>a. Walk(B, q, y, j) /\ j \in Budgets /\ k + j <= d
    BY <2>7, <2>10
  <2>b. z \in NodeIDs /\ q \in NodeIDs /\ y \in NodeIDs
    BY <1>1, <1>4, <2>6
  <2> HIDE DEF B, k, q, z, y, j
  <2>12. Walk(B, z, y, d)
    BY <1>6, <2>9, <2>11, <2>a, <2>b, WalkWithin
  <2> QED
    BY <2>12 DEF B, z, y
<1>9. CASE z = y
  BY <1>1, <1>4, <1>6, <1>9, WalkHere
<1>10. \/ \E e \in ContractNode(u) : /\ e.forward /\ e.source = z /\ e.target = y /\ e.distance = d
       \/ Walk(Avoiding(live, u), z, y, d)
  BY <1>1, <1>5, Shortcuts
<1> QED
  BY <1>7, <1>8, <1>9, <1>10

\* A round loses no walk.
LEMMA RoundKeepsWalks ==
    ASSUME NEW live, NEW I, NEW H, Round(live, I, H), NEW w \in Budgets
    PROVE  KeepsWalks(live, I, H, w)
<1> DEFINE G == contractor_graph
           A == FArcs(G, live)
           B == FArcs(H, live \ I)
           S == {k \in Budgets : KeepsWalks(live, I, H, k)}
<1>0. INT_MAX \in Nat \ {0}
  BY ContractorAssumption
<1>1. /\ Ready(G, live) /\ I \subseteq live /\ Independent(G, I)
      /\ GoodEdges(G) /\ live \subseteq NodeIDs /\ Ready(H, live \ I)
  BY RoundReady DEF Round, Ready
<1>2. /\ A \in SUBSET Arcs /\ B \in SUBSET Arcs
      /\ \A a \in A : \E e \in G :
           /\ e.source \in live /\ e.forward
           /\ a.from = e.source /\ a.to = e.target /\ a.weight = e.distance
  BY <1>1, LiveArcs
<1>3. ASSUME NEW k \in 0 .. INT_MAX - 1, 0 .. k - 1 \subseteq S PROVE k \in S
  <2>0. k \in Budgets
    BY DEF Budgets
  <2>1. \A j \in 0 .. k - 1 : KeepsWalks(live, I, H, j)
    BY <1>3
  <2> SUFFICES ASSUME NEW x \in live \ I, NEW y \in live \ I, Walk(A, x, y, k), x # y
               PROVE  Walk(B, x, y, k)
    BY <1>1, <1>2, <2>0, WalkHere DEF KeepsWalks
  <2>2. PICK a \in A : a.to = y /\ Walk(A, x, a.from, k - a.weight)
    BY <1>1, <1>2, <2>0, WalkStep
  <2>3. PICK e \in G : /\ e.source \in live /\ e.forward
                       /\ a.from = e.source /\ a.to = e.target /\ a.weight = e.distance
    BY <1>2
  <2> DEFINE p == a.from
             i == a.weight
  <2>4. i \in Nat \ {0} /\ p \in live
    BY <1>2, <2>3 DEF Arcs
  <2>5. k - i >= 0
    BY <2>0, <2>2, <2>4, WalkWeight DEF Budgets
  <2>6. k - i \in Budgets /\ k - i \in 0 .. k - 1 /\ i \in Budgets /\ (k - i) + i <= k /\ e.distance <= i
    BY <1>0, <2>0, <2>3, <2>4, <2>5 DEF Budgets
  <2>7. CASE p \notin I
    <3>1. Walk(B, x, p, k - i)
      BY <2>1, <2>2, <2>4, <2>6, <2>7 DEF KeepsWalks
    <3>2. Walk(B, p, y, i)
      BY <2>2, <2>3, <2>4, <2>6, <2>7, KeptWalk
    <3> HIDE DEF B, p, i
    <3> QED
      BY <1>1, <1>2, <2>0, <2>4, <2>6, <3>1, <3>2, WalkWithin
  <2>8. CASE p \in I
    <3>1. x # p /\ e \in OutEdges(p)
      BY <2>3, <2>8 DEF OutEdges, Adjacent
    <3>2. PICK c \in A : c.to = p /\ Walk(A, x, c.from, (k - i) - c.weight)
      BY <1>1, <1>2, <2>2, <2>4, <2>6, <3>1, WalkStep
    <3>3. PICK f \in G : /\ f.source \in live /\ f.forward
                         /\ c.from = f.source /\ c.to = f.target /\ c.weight = f.distance
      BY <1>2
    <3> DEFINE z == c.from
               j == c.weight
    <3>4. j \in Nat \ {0} /\ z \in live
      BY <1>2, <3>3 DEF Arcs
    <3>5. (k - i) - j >= 0
      BY <2>6, <3>2, <3>4, WalkWeight DEF Budgets
    <3>6. p \in Neighbours(G, z)
      BY <1>1, <3>2, <3>3, EdgeNeighbours
    <3>7. z \in Neighbours(G, p)
      BY <1>1, <3>4, <3>6, NeighboursMutual
    <3>8. z \in live \ I
      BY <2>8, <3>7, NeighbourStays
    <3>9. HasMirror(G, f)
      BY <1>1, <3>3 DEF Ready
    <3>10. PICK in \in G : in.source = p /\ in.target = z /\ in.backward /\ in.distance <= j
      BY <3>2, <3>3, <3>9 DEF HasMirror
    <3>11. in \in InEdges(p)
      BY <3>10 DEF InEdges, Adjacent
    <3>12. in.distance \in Nat \ {0} /\ e.distance \in Nat \ {0}
      BY <1>1, EdgeFields
    <3> DEFINE d == in.distance + e.distance
               m == (k - i) - j
    <3>13. d \in Budgets /\ m \in Budgets /\ d \in 0 .. k /\ m + d <= k /\ m \in 0 .. k - 1
      BY <1>0, <2>0, <2>3, <2>4, <2>6, <3>4, <3>5, <3>10, <3>12 DEF Budgets
    <3>14. \A n \in 0 .. d - 1 : KeepsWalks(live, I, H, n)
      <4>1. 0 .. d - 1 \subseteq 0 .. k - 1
        BY <2>0, <3>13 DEF Budgets
      <4> HIDE DEF d
      <4> QED
        BY <2>1, <4>1
    <3>15. Walk(B, x, z, m)
      BY <2>1, <3>2, <3>8, <3>13 DEF KeepsWalks
    <3>16. Walk(B, z, y, d)
      <4>1. d = in.distance + e.distance
        OBVIOUS
      <4>2. e.target = y /\ in.target = z
        BY <2>2, <2>3, <3>10
      <4> HIDE DEF d, B, z
      <4>3. Walk(FArcs(H, live \ I), in.target, e.target, d)
        BY <2>8, <3>1, <3>11, <3>13, <3>14, <4>1, ThroughKept
      <4> QED
        BY <4>2, <4>3 DEF B
    <3> HIDE DEF B, z, m, d
    <3> QED
      BY <1>1, <1>2, <2>0, <3>8, <3>13, <3>15, <3>16, WalkWithin
  <2> QED
    BY <2>7, <2>8
<1>4. 0 .. INT_MAX - 1 \subseteq S
  <2> DEFINE top == INT_MAX - 1
  <2>1. top \in Nat
    BY <1>0
  <2>2. \A k \in 0 .. top : 0 .. k - 1 \subseteq S => k \in S
    BY <1>3
  <2> HIDE DEF S, top
  <2>3. 0 .. top \subseteq S
    BY <2>1, <2>2, StrongInduction
  <2> QED
    BY <2>3 DEF top
<1> QED
  BY <1>4 DEF Budgets

\* The walks among the nodes that stay are the same before and after a round.
LEMMA RoundWalks ==
    ASSUME NEW live, NEW I, NEW H, Round(live, I, H),
           NEW x \in live \ I, NEW y \in live \ I, NEW w \in Budgets
    PROVE  Walk(FArcs(contractor_graph, live), x, y, w) <=> Walk(FArcs(H, live \ I), x, y, w)
<1>1. KeepsWalks(live, I, H, w)
  BY RoundKeepsWalks
<1>2. x \in NodeIDs /\ y \in NodeIDs
  BY DEF Round, Ready
<1>3. Covers(FArcs(contractor_graph, live), FArcs(H, live \ I))
  BY RoundAddsNoWalk
<1>4. Walk(FArcs(H, live \ I), x, y, w) => Walk(FArcs(contractor_graph, live), x, y, w)
  BY <1>2, <1>3, WalkCovered
<1> QED
  BY <1>1, <1>4 DEF KeepsWalks

-----------------------------------------------------------------------------
(* The nodes that remain *)

\* A list of different nodes.
Distinct(seq) ==
    /\ seq \in Seq(NodeIDs) /\ Len(seq) <= number_of_nodes
    /\ \A i, j \in 1 .. Len(seq) : seq[i] = seq[j] => i = j

\* A part of a list of different nodes: its first n nodes without those of I.
Part(seq, I, n, r) ==
    /\ r \in Seq(NodeIDs) /\ Len(r) <= n
    /\ \A x : x \in Elements(r) <=> x \notin I /\ \E i \in 1 .. n : seq[i] = x
    /\ \A i, j \in 1 .. Len(r) : r[i] = r[j] => i = j

\* The contracted nodes leave the list.
LEMMA WithoutIs ==
    ASSUME NEW seq, Distinct(seq), NEW I
    PROVE  /\ Distinct(Without(seq, I)) /\ Elements(Without(seq, I)) = Elements(seq) \ I
           /\ Len(Without(seq, I)) <= Len(seq)
<1> DEFINE N == Len(seq)
           Turn(r, n) == IF seq[n] \in I THEN r ELSE Append(r, seq[n])
           IsRun(f) == f = [n \in 0 .. N |-> IF n = 0 THEN <<>> ELSE Turn(f[n - 1], n)]
           rest == CHOOSE f : IsRun(f)
           Turns(g, n) == /\ g \in [0 .. n -> Seq(NodeIDs)]
                          /\ \A i \in 0 .. n : g[i] = IF i = 0 THEN <<>> ELSE Turn(g[i - 1], i)
           Done == {n \in 0 .. N : \E g : Turns(g, n)}
<1>0. /\ N \in Nat /\ number_of_nodes \in Nat /\ N <= number_of_nodes
      /\ \A n \in 1 .. N : seq[n] \in NodeIDs
      /\ \A i, j \in 1 .. N : seq[i] = seq[j] => i = j
  BY ContractorAssumption DEF Distinct
<1>1. Without(seq, I) = rest[N]
  BY DEF Without
<1>2. ASSUME NEW r \in Seq(NodeIDs), NEW n \in 1 .. N PROVE Turn(r, n) \in Seq(NodeIDs)
  BY <1>0
<1>3. 0 \in Done
  <2> DEFINE g == [i \in 0 .. 0 |-> <<>>]
  <2>1. Turns(g, 0)
    OBVIOUS
  <2>2. 0 \in 0 .. N
    BY <1>0
  <2> HIDE DEF g, Turns, N
  <2> QED
    BY <2>1, <2>2
<1>4. ASSUME NEW n \in 0 .. N - 1, n \in Done PROVE n + 1 \in Done
  <2>1. PICK g : Turns(g, n)
    BY <1>4
  <2>2. n + 1 \in 1 .. N /\ n + 1 \in 0 .. N /\ g[n] \in Seq(NodeIDs) /\ n \in Nat
    BY <1>0, <2>1
  <2>3. Turn(g[n], n + 1) \in Seq(NodeIDs)
    BY <1>2, <2>2
  <2> HIDE DEF Turn
  <2> DEFINE h == [i \in 0 .. n + 1 |-> IF i = n + 1 THEN Turn(g[n], n + 1) ELSE g[i]]
  <2>4. h \in [0 .. n + 1 -> Seq(NodeIDs)]
    BY <2>1, <2>2, <2>3
  <2>5. \A i \in 0 .. n : h[i] = g[i]
    BY <2>2
  <2>6. ASSUME NEW i \in 0 .. n + 1 PROVE h[i] = IF i = 0 THEN <<>> ELSE Turn(h[i - 1], i)
    <3>1. CASE i = n + 1
      <4>1. h[i] = Turn(g[n], n + 1) /\ h[i - 1] = g[n] /\ i # 0
        BY <2>2, <2>5, <3>1
      <4> QED
        BY <3>1, <4>1
    <3>2. CASE i \in 0 .. n
      <4>1. h[i] = g[i] /\ (i # 0 => h[i - 1] = g[i - 1])
        BY <2>2, <2>5, <3>2
      <4> QED
        BY <2>1, <3>2, <4>1
    <3> QED
      BY <2>2, <3>1, <3>2
  <2>7. Turns(h, n + 1)
    BY <2>4, <2>6
  <2> HIDE DEF h
  <2> QED
    BY <2>2, <2>7
<1>5. 0 .. N \subseteq Done
  <2> HIDE DEF Done, N
  <2> QED
    BY <1>0, <1>3, <1>4, BoundedInduction
<1>6. PICK g : Turns(g, N)
  <2>1. N \in 0 .. N
    BY <1>0
  <2> HIDE DEF Turns, N
  <2> QED
    BY <1>5, <2>1
<1>7. IsRun(g)
  BY <1>6
<1>8. IsRun(rest)
  <2> HIDE DEF IsRun
  <2> QED
    BY <1>7
<1> HIDE DEF rest
<1> DEFINE Good == {n \in 0 .. N : Part(seq, I, n, rest[n])}
<1>9. 0 \in Good
  <2>1. rest[0] = <<>>
    BY <1>0, <1>8
  <2>2. Part(seq, I, 0, <<>>)
    BY DEF Part, Elements
  <2> QED
    BY <1>0, <2>1, <2>2
<1>10. ASSUME NEW n \in 0 .. N - 1, n \in Good PROVE n + 1 \in Good
  <2> DEFINE r == rest[n]
             x == seq[n + 1]
  <2>1. /\ n + 1 \in 1 .. N /\ n + 1 \in 0 .. N /\ n \in Nat /\ x \in NodeIDs
        /\ \A i \in 1 .. n : i \in 1 .. N /\ i # n + 1
        /\ n + 1 # 0 /\ (n + 1) - 1 = n
    BY <1>0
  <2>2. rest[n + 1] = IF x \in I THEN r ELSE Append(r, x)
    <3>1. \A m \in 0 .. N : rest[m] = IF m = 0 THEN <<>> ELSE Turn(rest[m - 1], m)
      <4> HIDE DEF Turn, N
      <4> QED
        BY <1>8
    <3>2. rest[n + 1] = Turn(rest[n], n + 1)
      <4> HIDE DEF Turn, N
      <4> QED
        BY <2>1, <3>1
    <3> QED
      BY <3>2
  <2>3. Part(seq, I, n, r)
    BY <1>10
  <2>a. \A i \in 1 .. n : seq[i] # x
    BY <1>0, <2>1
  <2>b. \A y : (\E i \in 1 .. n + 1 : seq[i] = y) <=> y = x \/ \E i \in 1 .. n : seq[i] = y
    <3>1. 1 .. n + 1 = (1 .. n) \cup {n + 1}
      BY <2>1
    <3> QED
      BY <3>1
  <2> HIDE DEF r, x
  <2>4. CASE x \in I
    <3>1. Len(r) \in Nat /\ Len(r) <= n
      BY <2>3 DEF Part
    <3>2. Len(r) <= n + 1
      BY <2>1, <3>1
    <3>3. \A y : y \in Elements(r) <=> y \notin I /\ \E i \in 1 .. n + 1 : seq[i] = y
      BY <2>3, <2>4, <2>b DEF Part
    <3>4. Part(seq, I, n + 1, r)
      BY <2>3, <3>2, <3>3 DEF Part
    <3> QED
      BY <2>1, <2>2, <2>4, <3>4
  <2>5. CASE x \notin I
    <3> DEFINE q == Append(r, x)
    <3>1. /\ r \in Seq(NodeIDs) /\ Len(r) \in Nat /\ Len(r) <= n
          /\ \A y : y \in Elements(r) <=> y \notin I /\ \E i \in 1 .. n : seq[i] = y
          /\ \A i, j \in 1 .. Len(r) : r[i] = r[j] => i = j
      BY <2>3 DEF Part
    <3>2. /\ q \in Seq(NodeIDs) /\ Len(q) = Len(r) + 1 /\ q[Len(r) + 1] = x
          /\ \A i \in 1 .. Len(r) : q[i] = r[i]
      BY <2>1, <3>1
    <3> HIDE DEF q
    <3>3. \A y : y \in Elements(q) <=> y = x \/ y \in Elements(r)
      <4>1. 1 .. Len(q) = (1 .. Len(r)) \cup {Len(r) + 1}
        BY <3>1, <3>2
      <4> QED
        BY <3>2, <4>1 DEF Elements
    <3>4. x \notin Elements(r)
      BY <2>a, <3>1
    <3>5. \A i, j \in 1 .. Len(q) : q[i] = q[j] => i = j
      <4>1. \A i \in 1 .. Len(r) : q[i] # x
        BY <3>2, <3>4 DEF Elements
      <4>2. \A i \in 1 .. Len(q) : i \in 1 .. Len(r) \/ i = Len(r) + 1
        BY <3>1, <3>2
      <4> QED
        BY <3>1, <3>2, <4>1, <4>2
    <3>6. Part(seq, I, n + 1, q)
      <4>1. Len(q) <= n + 1
        BY <2>1, <3>1, <3>2
      <4>2. \A y : y \in Elements(q) <=> y \notin I /\ \E i \in 1 .. n + 1 : seq[i] = y
        BY <2>5, <2>b, <3>1, <3>3
      <4> QED
        BY <3>2, <3>5, <4>1, <4>2 DEF Part
    <3> QED
      BY <2>1, <2>2, <2>5, <3>6 DEF q
  <2> QED
    BY <2>4, <2>5
<1>11. 0 .. N \subseteq Good
  <2> HIDE DEF Good, N
  <2> QED
    BY <1>0, <1>9, <1>10, BoundedInduction
<1> DEFINE r == rest[N]
<1>12. Part(seq, I, N, r)
  BY <1>0, <1>11
<1> HIDE DEF r
<1>13. Len(r) \in Nat /\ Len(r) <= N
  BY <1>12 DEF Part
<1>14. Distinct(r)
  BY <1>0, <1>12, <1>13 DEF Part, Distinct
<1>15. Elements(r) = Elements(seq) \ I
  BY <1>12 DEF Part, Elements
<1> QED
  BY <1>1, <1>13, <1>14, <1>15 DEF r

-----------------------------------------------------------------------------
(* The input graph *)

\* Distances of the input are positive.
LEMMA InputDistanceIs ==
    ASSUME NEW input \in Inputs, NEW s \in NodeIDs, NEW t \in NodeIDs
    PROVE  InputDistance(input, s, t) \in Nat \ {0}
<1> DEFINE F == {f \in input : \/ f.source = s /\ f.target = t /\ f.forward
                               \/ f.target = s /\ f.source = t /\ f.backward}
           W == {MaxOf(e.weight, 1) : e \in F}
<1>1. \A e \in F : e.weight \in Int
  BY ContractorAssumption
<1>2. W \subseteq Nat \ {0}
  <2>1. \A e \in F : MaxOf(e.weight, 1) \in Nat \ {0}
    BY <1>1 DEF MaxOf
  <2> HIDE DEF F
  <2> QED
    BY <2>1
<1>3. InputDistance(input, s, t) = MinWeight(W)
  BY DEF InputDistance
<1> HIDE DEF W
<1>4. MinWeight(W) \in Nat \ {0}
  <2>1. INT_MAX \in Nat \ {0}
    BY ContractorAssumption
  <2>2. CASE W = {}
    BY <2>1, <2>2 DEF MinWeight
  <2>3. CASE W # {}
    <3>1. Min(W) \in W
      BY <1>2, <2>3, MinIs
    <3> QED
      BY <1>2, <2>3, <3>1 DEF MinWeight
  <2> QED
    BY <2>2, <2>3
<1> QED
  BY <1>3, <1>4

\* The fields of an edge as Edge makes it.
LEMMA MadeEdge ==
    ASSUME NEW s \in NodeIDs, NEW t \in NodeIDs, NEW w \in Nat \ {0}, NEW id \in NodeIDs,
           NEW shortcut \in BOOLEAN
    PROVE  /\ Edge(s, t, w, id, shortcut, TRUE, TRUE) \in EdgeRecords
           /\ Edge(s, t, w, id, shortcut, TRUE, FALSE) \in EdgeRecords
           /\ Edge(s, t, w, id, shortcut, FALSE, TRUE) \in EdgeRecords
BY DEF Edge, EdgeRecords

\* Edge e of the input graph from s to t.
IsMerged(input, s, t, e) ==
    /\ e \in EdgeRecords /\ e.source = s /\ e.target = t /\ (e.forward \/ e.backward)
    /\ e.forward => e.distance = InputDistance(input, s, t) /\ e.distance # INT_MAX
    /\ e.backward => e.distance = InputDistance(input, t, s) /\ e.distance # INT_MAX

\* The edges between two nodes have the distances of the input.
LEMMA MergedIs ==
    ASSUME NEW input \in Inputs, NEW s \in NodeIDs, NEW t \in NodeIDs
    PROVE  /\ \A e \in MergedEdges(input, s, t) : IsMerged(input, s, t, e)
           /\ InputDistance(input, s, t) # INT_MAX =>
                \E e \in MergedEdges(input, s, t) :
                  e.forward /\ e.distance = InputDistance(input, s, t)
           /\ InputDistance(input, t, s) # INT_MAX =>
                \E e \in MergedEdges(input, s, t) :
                  e.backward /\ e.distance = InputDistance(input, t, s)
           /\ IsFiniteSet(MergedEdges(input, s, t))
<1> DEFINE there == InputDistance(input, s, t)
           back == InputDistance(input, t, s)
           Both == Edge(s, t, there, 0, FALSE, TRUE, TRUE)
           Fwd == Edge(s, t, there, 0, FALSE, TRUE, FALSE)
           Bwd == Edge(s, t, back, 0, FALSE, FALSE, TRUE)
           M == MergedEdges(input, s, t)
<1>1. there \in Nat \ {0} /\ back \in Nat \ {0} /\ 0 \in NodeIDs
  <2>1. 0 \in NodeIDs
    BY ContractorAssumption DEF NodeIDs
  <2> QED
    BY <2>1, InputDistanceIs
<1>2. M = IF there = back
          THEN {Edge(s, t, w, 0, FALSE, TRUE, TRUE) : w \in {there} \ {INT_MAX}}
          ELSE {Edge(s, t, w, 0, FALSE, TRUE, FALSE) : w \in {there} \ {INT_MAX}} \cup
               {Edge(s, t, w, 0, FALSE, FALSE, TRUE) : w \in {back} \ {INT_MAX}}
  BY DEF MergedEdges
<1> HIDE DEF there, back
<1>3. \A e : e \in M <=> \/ e = Both /\ there = back /\ there # INT_MAX
                         \/ e = Fwd /\ there # back /\ there # INT_MAX
                         \/ e = Bwd /\ there # back /\ back # INT_MAX
  <2> HIDE DEF M
  <2>1. CASE there = back
    BY <1>2, <2>1
  <2>2. CASE there # back
    BY <1>2, <2>2
  <2> QED
    BY <2>1, <2>2
<1>4. Both \in EdgeRecords /\ Fwd \in EdgeRecords /\ Bwd \in EdgeRecords
  BY <1>1, MadeEdge
<1>5. /\ Both.source = s /\ Both.target = t /\ Both.distance = there /\ Both.forward /\ Both.backward
      /\ Fwd.source = s /\ Fwd.target = t /\ Fwd.distance = there /\ Fwd.forward /\ ~Fwd.backward
      /\ Bwd.source = s /\ Bwd.target = t /\ Bwd.distance = back /\ ~Bwd.forward /\ Bwd.backward
  BY DEF Edge
<1> HIDE DEF Both, Fwd, Bwd, M
<1>6. ASSUME NEW e \in M PROVE IsMerged(input, s, t, e)
  <2>1. CASE e = Both /\ there = back /\ there # INT_MAX
    BY <1>4, <1>5, <2>1 DEF IsMerged, there, back
  <2>2. CASE e = Fwd /\ there # back /\ there # INT_MAX
    BY <1>4, <1>5, <2>2 DEF IsMerged, there
  <2>3. CASE e = Bwd /\ there # back /\ back # INT_MAX
    BY <1>4, <1>5, <2>3 DEF IsMerged, back
  <2> QED
    BY <1>3, <2>1, <2>2, <2>3
<1>7. there # INT_MAX => \E e \in M : e.forward /\ e.distance = there
  <2>1. CASE there = back
    BY <1>3, <1>5, <2>1
  <2>2. CASE there # back
    BY <1>3, <1>5, <2>2
  <2> QED
    BY <2>1, <2>2
<1>8. back # INT_MAX => \E e \in M : e.backward /\ e.distance = back
  <2>1. CASE there = back
    BY <1>3, <1>5, <2>1
  <2>2. CASE there # back
    BY <1>3, <1>5, <2>2
  <2> QED
    BY <2>1, <2>2
<1>9. IsFiniteSet(M)
  <2>1. M \subseteq ({Both} \cup {Fwd}) \cup {Bwd}
    BY <1>3
  <2>2. IsFiniteSet({Both})
    BY FS_Singleton
  <2>3. IsFiniteSet({Both} \cup {Fwd})
    BY <2>2, FS_AddElement
  <2>4. IsFiniteSet(({Both} \cup {Fwd}) \cup {Bwd})
    BY <2>3, FS_AddElement
  <2> QED
    BY <2>1, <2>4, FS_Subset
<1> QED
  BY <1>6, <1>7, <1>8, <1>9 DEF M, there, back

\* The edges of the input graph.
LEMMA InitialEdges ==
    ASSUME NEW input \in Inputs
    PROVE  /\ \A e \in InitialGraph(input) :
                /\ e.source \in NodeIDs /\ e.target \in NodeIDs /\ e.source # e.target
                /\ IsMerged(input, e.source, e.target, e)
           /\ \A s, t \in NodeIDs : s # t =>
                /\ InputDistance(input, s, t) # INT_MAX =>
                     \E e \in InitialGraph(input) :
                       /\ e.source = s /\ e.target = t /\ e.forward
                       /\ e.distance = InputDistance(input, s, t)
                /\ InputDistance(input, t, s) # INT_MAX =>
                     \E e \in InitialGraph(input) :
                       /\ e.source = s /\ e.target = t /\ e.backward
                       /\ e.distance = InputDistance(input, t, s)
           /\ IsFiniteSet(InitialGraph(input))
<1> DEFINE P == {q \in NodeIDs \X NodeIDs : q[1] # q[2]}
           G == InitialGraph(input)
<1>1. \A e : e \in G <=> \E p \in P : e \in MergedEdges(input, p[1], p[2])
  BY DEF InitialGraph
<1>2. ASSUME NEW e \in G
      PROVE  /\ e.source \in NodeIDs /\ e.target \in NodeIDs /\ e.source # e.target
             /\ IsMerged(input, e.source, e.target, e)
  <2>1. PICK p \in P : e \in MergedEdges(input, p[1], p[2])
    BY <1>1
  <2>2. p[1] \in NodeIDs /\ p[2] \in NodeIDs /\ p[1] # p[2]
    OBVIOUS
  <2>3. IsMerged(input, p[1], p[2], e)
    BY <2>1, <2>2, MergedIs
  <2>4. e.source = p[1] /\ e.target = p[2]
    BY <2>3 DEF IsMerged
  <2> QED
    BY <2>2, <2>3, <2>4
<1>3. ASSUME NEW s \in NodeIDs, NEW t \in NodeIDs, s # t, NEW e \in MergedEdges(input, s, t)
      PROVE  e \in G /\ e.source = s /\ e.target = t
  <2> DEFINE p == <<s, t>>
  <2>1. p \in P /\ p[1] = s /\ p[2] = t
    BY <1>3
  <2>2. IsMerged(input, s, t, e)
    BY MergedIs
  <2> HIDE DEF p, G
  <2> QED
    BY <1>1, <2>1, <2>2 DEF IsMerged
<1>4. IsFiniteSet(G)
  <2> DEFINE c == [p \in P |-> MergedEdges(input, p[1], p[2])]
             C == {c[p] : p \in P}
  <2>1. number_of_nodes \in Nat
    BY ContractorAssumption
  <2>2. IsFiniteSet(NodeIDs)
    BY <2>1, FS_Interval DEF NodeIDs
  <2>3. IsFiniteSet(NodeIDs \X NodeIDs)
    BY <2>2, FS_Product
  <2>4. IsFiniteSet(P)
    BY <2>3, FS_Subset
  <2>5. \A x \in C : IsFiniteSet(x)
    BY MergedIs
  <2>6. G = UNION C
    BY DEF InitialGraph
  <2> HIDE DEF c
  <2>7. IsFiniteSet(C)
    <3> HIDE DEF P
    <3> QED
      BY <2>4, FiniteImage
  <2> HIDE DEF C, G
  <2> QED
    BY <2>5, <2>6, <2>7, FS_UNION
<1>5. ASSUME NEW s \in NodeIDs, NEW t \in NodeIDs, s # t, InputDistance(input, s, t) # INT_MAX
      PROVE  \E e \in G : /\ e.source = s /\ e.target = t /\ e.forward
                          /\ e.distance = InputDistance(input, s, t)
  <2>1. PICK e \in MergedEdges(input, s, t) : e.forward /\ e.distance = InputDistance(input, s, t)
    BY <1>5, MergedIs
  <2> QED
    BY <1>3, <1>5, <2>1
<1>6. ASSUME NEW s \in NodeIDs, NEW t \in NodeIDs, s # t, InputDistance(input, t, s) # INT_MAX
      PROVE  \E e \in G : /\ e.source = s /\ e.target = t /\ e.backward
                          /\ e.distance = InputDistance(input, t, s)
  <2>1. PICK e \in MergedEdges(input, s, t) : e.backward /\ e.distance = InputDistance(input, t, s)
    BY <1>6, MergedIs
  <2> QED
    BY <1>3, <1>6, <2>1
<1> HIDE DEF G
<1>7. /\ \A e \in G : /\ e.source \in NodeIDs /\ e.target \in NodeIDs /\ e.source # e.target
                      /\ IsMerged(input, e.source, e.target, e)
      /\ IsFiniteSet(G)
  BY <1>2, <1>4
<1> QED
  BY <1>5, <1>6, <1>7 DEF G

\* Contraction may start from the input graph.
LEMMA InitialReady ==
    ASSUME NEW input \in Inputs
    PROVE  Ready(InitialGraph(input), NodeIDs)
<1> DEFINE G == InitialGraph(input)
<1>1. /\ \A e \in G : /\ e.source \in NodeIDs /\ e.target \in NodeIDs /\ e.source # e.target
                      /\ IsMerged(input, e.source, e.target, e)
      /\ \A s, t \in NodeIDs : s # t =>
                /\ InputDistance(input, s, t) # INT_MAX =>
                     \E e \in G :
                       /\ e.source = s /\ e.target = t /\ e.forward
                       /\ e.distance = InputDistance(input, s, t)
                /\ InputDistance(input, t, s) # INT_MAX =>
                     \E e \in G :
                       /\ e.source = s /\ e.target = t /\ e.backward
                       /\ e.distance = InputDistance(input, t, s)
      /\ IsFiniteSet(G)
  BY InitialEdges
<1> HIDE DEF G
<1>2. GoodEdges(G)
  BY <1>1 DEF GoodEdges, IsMerged
<1>3. ASSUME NEW e \in G PROVE HasMirror(G, e)
  <2>1. ASSUME NEW f \in G, f.distance = e.distance PROVE f.distance <= e.distance
    BY <1>2, <2>1, EdgeFields
  <2>2. ASSUME e.forward
        PROVE  \E f \in G : /\ f.source = e.target /\ f.target = e.source
                            /\ f.backward /\ f.distance = e.distance
    BY <1>1, <2>2 DEF IsMerged
  <2>3. ASSUME e.backward
        PROVE  \E f \in G : /\ f.source = e.target /\ f.target = e.source
                            /\ f.forward /\ f.distance = e.distance
    BY <1>1, <2>3 DEF IsMerged
  <2> QED
    BY <2>1, <2>2, <2>3 DEF HasMirror
<1>4. Ready(G, NodeIDs)
  BY <1>1, <1>2, <1>3 DEF Ready
<1> QED
  BY <1>4 DEF G

-----------------------------------------------------------------------------
(* What contraction keeps: A stands for the arcs of the input, ext for the edges set       *)
(* aside, G for the graph, live for the nodes that remain, map for their original names    *)
(* and cur for the nodes of the current numbering.                                         *)

Name(map, u) == IF map = <<>> THEN u ELSE map[u + 1]

\* The nodes of the graph have names, which tell them apart.
Numbered(G, live, map, cur) ==
    /\ live \subseteq cur /\ cur \subseteq NodeIDs
    /\ \A u \in cur : Name(map, u) \in NodeIDs
    /\ \A u, v \in cur : Name(map, u) = Name(map, v) => u = v
    /\ \A e \in G : /\ e.source \in cur /\ e.target \in cur
                    /\ ~e.is_original_via_node_ID => e.id \in cur

\* The walks among nodes that remain are those of the input.
SameWalks(A, G, live, map) ==
    \A u, v \in live, w \in Budgets :
      Walk(FArcs(G, live), u, v, w) <=> Walk(A, Name(map, u), Name(map, v), w)

\* Edge e, taken from s to t, is no lighter than the input allows.
SoundEdge(A, e, s, t) ==
    e.distance < INT_MAX =>
      /\ e.forward => Walk(A, s, t, e.distance)
      /\ e.backward => Walk(A, t, s, e.distance)

Sound(A, ext, G, map) ==
    /\ \A e \in ext : SoundEdge(A, e, e.source, e.target)
    /\ \A e \in G : SoundEdge(A, e, Name(map, e.source), Name(map, e.target))

\* The arc of an edge, in original names.
NamedArc(map, e) ==
    [from |-> Name(map, e.source), to |-> Name(map, e.target), weight |-> e.distance]

\* The arcs of the contracted nodes: those that the hierarchy has for good.
Up(ext, G, live, map) ==
    ForwardArcs(ext) \cup {NamedArc(map, e) : e \in {f \in G : f.forward /\ f.source \notin live}}
Down(ext, G, live, map) ==
    BackwardArcs(ext) \cup {NamedArc(map, e) : e \in {f \in G : f.backward /\ f.source \notin live}}

\* Searches along up from s and along down from t meet within w.
Meets(up, down, s, t, w) ==
    \E m \in NodeIDs, i, j \in Budgets : i + j <= w /\ Walk(up, s, m, i) /\ Walk(down, t, m, j)

\* They lead to nodes that remain, the rest of the way is among those.
Split(up, down, A, live, map, s, t, w) ==
    \E u, v \in live, i, j, k \in Budgets :
      /\ i + j + k <= w
      /\ Walk(up, s, Name(map, u), i) /\ Walk(down, t, Name(map, v), j)
      /\ Walk(A, Name(map, u), Name(map, v), k)

Complete(A, ext, G, live, map) ==
    \A s, t \in NodeIDs, w \in Budgets : Walk(A, s, t, w) =>
      \/ Meets(Up(ext, G, live, map), Down(ext, G, live, map), s, t, w)
      \/ Split(Up(ext, G, live, map), Down(ext, G, live, map), A, live, map, s, t, w)

\* More arcs allow no less.
LEMMA MoreArcs ==
    ASSUME NEW A \in SUBSET Arcs, NEW B \in SUBSET Arcs, A \subseteq B,
           NEW u \in NodeIDs, NEW v \in NodeIDs, NEW w \in Budgets, Walk(A, u, v, w)
    PROVE  Walk(B, u, v, w)
<1>1. \A a \in A : a.weight <= a.weight
  BY DEF Arcs
<1>2. Dominates(B, A)
  BY <1>1 DEF Dominates
<1> QED
  BY <1>2, DominatesCovers, WalkCovered

\* The arcs of contracted nodes are arcs.
LEMMA DoneArcs ==
    ASSUME NEW ext, NEW G, NEW live, NEW map, NEW cur, Numbered(G, live, map, cur),
           GoodEdges(ext), GoodEdges(G)
    PROVE  Up(ext, G, live, map) \in SUBSET Arcs /\ Down(ext, G, live, map) \in SUBSET Arcs
<1>1. ForwardArcs(ext) \in SUBSET Arcs /\ BackwardArcs(ext) \in SUBSET Arcs
  BY ArcsAreEdges
<1>2. ASSUME NEW e \in G PROVE NamedArc(map, e) \in Arcs
  <2>1. Name(map, e.source) \in NodeIDs /\ Name(map, e.target) \in NodeIDs /\ e.distance \in Nat \ {0}
    BY EdgeFields DEF Numbered
  <2> QED
    BY <2>1 DEF NamedArc, Arcs
<1> QED
  BY <1>1, <1>2 DEF Up, Down

\* The edges of the nodes that remain are sound.
LEMMA LiveSound ==
    ASSUME NEW A, NEW G, NEW live, NEW map, Ready(G, live), SameWalks(A, G, live, map),
           NEW e \in G, e.source \in live
    PROVE  SoundEdge(A, e, Name(map, e.source), Name(map, e.target))
<1> SUFFICES ASSUME e.distance < INT_MAX
             PROVE  /\ e.forward => Walk(A, Name(map, e.source), Name(map, e.target), e.distance)
                    /\ e.backward => Walk(A, Name(map, e.target), Name(map, e.source), e.distance)
  BY DEF SoundEdge
<1>1. e.target \in live /\ HasMirror(G, e) /\ GoodEdges(G)
  BY DEF Ready
<1>2. e.distance \in Budgets /\ e.distance <= e.distance
  BY <1>1, EdgeFields, ContractorAssumption DEF Budgets
<1>3. ASSUME e.forward PROVE Walk(FArcs(G, live), e.source, e.target, e.distance)
  BY <1>2, <1>3, EdgeWalk
<1>4. ASSUME e.backward PROVE Walk(FArcs(G, live), e.target, e.source, e.distance)
  <2>1. PICK f \in G : /\ f.source = e.target /\ f.target = e.source
                       /\ f.forward /\ f.distance <= e.distance
    BY <1>1, <1>4 DEF HasMirror
  <2> QED
    BY <1>1, <1>2, <2>1, EdgeWalk
<1> QED
  BY <1>1, <1>2, <1>3, <1>4 DEF SameWalks

\* A round keeps the walks of the input.
LEMMA RoundSameWalks ==
    ASSUME NEW A, NEW map, NEW live, NEW I, NEW H, Round(live, I, H),
           SameWalks(A, contractor_graph, live, map)
    PROVE  SameWalks(A, H, live \ I, map)
<1> SUFFICES ASSUME NEW u \in live \ I, NEW v \in live \ I, NEW w \in Budgets
             PROVE  Walk(FArcs(H, live \ I), u, v, w) <=> Walk(A, Name(map, u), Name(map, v), w)
  BY DEF SameWalks
<1>1. Walk(FArcs(contractor_graph, live), u, v, w) <=> Walk(FArcs(H, live \ I), u, v, w)
  BY RoundWalks
<1> QED
  BY <1>1 DEF SameWalks

\* The via node of a shortcut is the contracted node.
LEMMA ShortcutIds ==
    ASSUME NEW node, NEW e \in ContractNode(node)
    PROVE  e.id = node /\ ~e.is_original_via_node_ID
<1> DEFINE Fwd(f) == \E g \in Entries(node) : /\ g.source = f.source /\ g.target = f.target
                                              /\ g.distance = f.distance /\ g.forward
           Bwd(f) == \E g \in Entries(node) : /\ g.source = f.source /\ g.target = f.target
                                              /\ g.distance = f.distance /\ g.backward
<1>1. PICK f \in Entries(node) : e = [f EXCEPT !.forward = Fwd(f), !.backward = Bwd(f)]
  BY EntriesMerged DEF MergeFlags
<1> HIDE DEF Fwd, Bwd
<1>2. PICK in \in InEdges(node), out \in OutEdges(node) :
        f = There(node, in, out) \/ f = Back(node, in, out)
  BY EntryIs
<1>3. \E s, t, d, x, y : f = Edge(s, t, d, node, TRUE, x, y)
  BY <1>2 DEF There, Back
<1>4. PICK s, t, d, x, y : f = Edge(s, t, d, node, TRUE, x, y)
  BY <1>3
<1> QED
  BY <1>1, <1>4 DEF Edge

\* A round keeps the numbering.
LEMMA RoundNumbered ==
    ASSUME NEW map, NEW cur, NEW live, NEW I, NEW H, Round(live, I, H),
           Numbered(contractor_graph, live, map, cur)
    PROVE  Numbered(H, live \ I, map, cur)
<1>1. I \subseteq live /\ live \subseteq cur
  BY DEF Round, Numbered
<1>2. ASSUME NEW e \in H
      PROVE  e.source \in cur /\ e.target \in cur /\ (~e.is_original_via_node_ID => e.id \in cur)
  <2>1. CASE e \in contractor_graph
    BY <2>1 DEF Numbered
  <2>2. CASE \E u \in I : e \in ContractNode(u)
    <3>1. PICK u \in I : e \in ContractNode(u)
      BY <2>2
    <3> QED
      BY <1>1, <3>1, ShortcutEnds, ShortcutIds
  <2> QED
    BY <2>1, <2>2, RoundEdges
<1> QED
  BY <1>1, <1>2 DEF Numbered

\* A round keeps all edges sound.
LEMMA RoundSound ==
    ASSUME NEW A, NEW ext, NEW map, NEW live, NEW I, NEW H, Round(live, I, H),
           SameWalks(A, H, live \ I, map), Sound(A, ext, contractor_graph, map)
    PROVE  Sound(A, ext, H, map)
<1>1. ASSUME NEW e \in H PROVE SoundEdge(A, e, Name(map, e.source), Name(map, e.target))
  <2>1. CASE e \in contractor_graph
    BY <2>1 DEF Sound
  <2>2. CASE \E u \in I : e \in ContractNode(u)
    <3>1. e.source \in live \ I
      BY <2>2, ShortcutEnds
    <3>2. Ready(H, live \ I)
      BY RoundReady
    <3> QED
      BY <3>1, <3>2, LiveSound
  <2> QED
    BY <2>1, <2>2, RoundEdges
<1> QED
  BY <1>1 DEF Sound

\* A round in a state that keeps the walks of the input.
RoundOf(A, ext, map, cur, live, I, H) ==
    /\ Round(live, I, H) /\ Numbered(contractor_graph, live, map, cur)
    /\ A \in SUBSET Arcs /\ GoodEdges(ext) /\ SameWalks(A, contractor_graph, live, map)

\* The hierarchy only grows, by the edges of the contracted nodes.
LEMMA RoundArcs ==
    ASSUME NEW A, NEW ext, NEW map, NEW cur, NEW live, NEW I, NEW H,
           RoundOf(A, ext, map, cur, live, I, H)
    PROVE  /\ Up(ext, contractor_graph, live, map) \in SUBSET Arcs
           /\ Down(ext, contractor_graph, live, map) \in SUBSET Arcs
           /\ Up(ext, H, live \ I, map) \in SUBSET Arcs
           /\ Down(ext, H, live \ I, map) \in SUBSET Arcs
           /\ Up(ext, contractor_graph, live, map) \subseteq Up(ext, H, live \ I, map)
           /\ Down(ext, contractor_graph, live, map) \subseteq Down(ext, H, live \ I, map)
           /\ \A e \in contractor_graph : e.source \in I =>
                /\ e.forward => NamedArc(map, e) \in Up(ext, H, live \ I, map)
                /\ e.backward => NamedArc(map, e) \in Down(ext, H, live \ I, map)
<1>1. /\ Round(live, I, H) /\ Numbered(contractor_graph, live, map, cur) /\ GoodEdges(ext)
      /\ GoodEdges(contractor_graph)
  BY DEF RoundOf, Round, Ready
<1>2. Numbered(H, live \ I, map, cur) /\ GoodEdges(H)
  BY <1>1, RoundNumbered, RoundEdges
<1>3. \A e \in contractor_graph : e.source \notin live \ I => e \in H
  BY <1>1, RoundEdges
<1>4. /\ Up(ext, contractor_graph, live, map) \in SUBSET Arcs
      /\ Down(ext, contractor_graph, live, map) \in SUBSET Arcs
  BY <1>1, DoneArcs
<1>5. /\ Up(ext, H, live \ I, map) \in SUBSET Arcs
      /\ Down(ext, H, live \ I, map) \in SUBSET Arcs
  BY <1>1, <1>2, DoneArcs
<1>6. /\ Up(ext, contractor_graph, live, map) \subseteq Up(ext, H, live \ I, map)
      /\ Down(ext, contractor_graph, live, map) \subseteq Down(ext, H, live \ I, map)
  BY <1>3 DEF Up, Down
<1>7. \A e \in contractor_graph : e.source \in I =>
                /\ e.forward => NamedArc(map, e) \in Up(ext, H, live \ I, map)
                /\ e.backward => NamedArc(map, e) \in Down(ext, H, live \ I, map)
  BY <1>3 DEF Up, Down
<1> QED
  BY <1>4, <1>5, <1>6, <1>7

\* A search upwards leaves a contracted node along its edges.
LEMMA LeaveSource ==
    ASSUME NEW A, NEW ext, NEW map, NEW cur, NEW live, NEW I, NEW H,
           RoundOf(A, ext, map, cur, live, I, H),
           NEW s \in NodeIDs, NEW u \in I, NEW v \in live, u # v, NEW i \in Budgets, NEW k \in Budgets,
           i + k \in Budgets,
           Walk(Up(ext, H, live \ I, map), s, Name(map, u), i), Walk(A, Name(map, u), Name(map, v), k)
    PROVE  \E p \in live \ I, x, y \in Budgets :
             /\ x + y = i + k /\ Walk(Up(ext, H, live \ I, map), s, Name(map, p), x)
             /\ Walk(A, Name(map, p), Name(map, v), y)
<1> DEFINE G == contractor_graph
           F == FArcs(G, live)
           up == Up(ext, H, live \ I, map)
<1>1. /\ Round(live, I, H) /\ Numbered(G, live, map, cur) /\ SameWalks(A, G, live, map)
      /\ Ready(G, live) /\ GoodEdges(G) /\ I \subseteq live /\ live \subseteq NodeIDs /\ live \subseteq cur
  BY DEF RoundOf, Round, Ready, Numbered
<1>2. Walk(F, u, v, k)
  BY <1>1 DEF SameWalks
<1>3. /\ F \in SUBSET Arcs
      /\ \A a \in F : \E e \in G :
           /\ e.source \in live /\ e.forward
           /\ a.from = e.source /\ a.to = e.target /\ a.weight = e.distance
  BY <1>1, LiveArcs
<1> HIDE DEF F
<1>4. PICK a \in F : a.from = u /\ Walk(F, a.to, v, k - a.weight)
  BY <1>1, <1>2, <1>3, WalkFirst
<1>5. PICK e \in G : /\ e.forward /\ e.source = u
                     /\ a.to = e.target /\ a.weight = e.distance
  BY <1>3, <1>4
<1> DEFINE p == e.target
           c == e.distance
<1>6. c \in Nat \ {0} /\ p \in NodeIDs
  BY <1>1, EdgeFields
<1>7. k - c >= 0
  BY <1>4, <1>5, <1>6, WalkWeight, ContractorAssumption DEF Budgets
<1>8. k - c \in Budgets /\ c \in Budgets /\ i + c \in Budgets /\ (i + c) + (k - c) = i + k
  BY <1>6, <1>7, ContractorAssumption DEF Budgets
<1>9. p \in live \ I
  BY <1>1, <1>5, EdgeNeighbours, NeighbourStays
<1>10. Walk(A, Name(map, p), Name(map, v), k - c)
  <2>1. p \in live /\ v \in live /\ Walk(F, p, v, k - c)
    BY <1>4, <1>5, <1>9
  <2> HIDE DEF p, c
  <2> QED
    BY <1>1, <1>8, <2>1 DEF SameWalks, F
<1>11. NamedArc(map, e) \in up /\ up \in SUBSET Arcs
  BY <1>5, RoundArcs
<1>12. /\ NamedArc(map, e).from = Name(map, u) /\ NamedArc(map, e).to = Name(map, p)
       /\ NamedArc(map, e).weight = c /\ (i + c) - c = i
  BY <1>5, <1>8 DEF NamedArc, Budgets
<1>13. Name(map, u) \in NodeIDs /\ Name(map, p) \in NodeIDs
  BY <1>1, <1>9 DEF Numbered
<1>14. Walk(up, s, Name(map, p), i + c)
  <2> DEFINE b == NamedArc(map, e)
             d == i + c
  <2>1. b \in up /\ b.to = Name(map, p) /\ Walk(up, s, b.from, d - b.weight) /\ d \in Budgets
    BY <1>8, <1>11, <1>12
  <2> HIDE DEF b, d, up, p
  <2>2. Walk(up, s, Name(map, p), d)
    BY <1>11, <1>13, <2>1, WalkStep
  <2> QED
    BY <2>2 DEF d
<1> HIDE DEF p, c, up
<1>15. \E x, y \in Budgets : x + y = i + k /\ Walk(up, s, Name(map, p), x)
                             /\ Walk(A, Name(map, p), Name(map, v), y)
  BY <1>8, <1>10, <1>14
<1> QED
  BY <1>9, <1>15 DEF up

\* A search downwards leaves a contracted node along its edges.
LEMMA LeaveTarget ==
    ASSUME NEW A, NEW ext, NEW map, NEW cur, NEW live, NEW I, NEW H,
           RoundOf(A, ext, map, cur, live, I, H),
           NEW t \in NodeIDs, NEW u \in live, NEW v \in I, u # v, NEW j \in Budgets, NEW k \in Budgets,
           j + k \in Budgets,
           Walk(Down(ext, H, live \ I, map), t, Name(map, v), j), Walk(A, Name(map, u), Name(map, v), k)
    PROVE  \E q \in live \ I, x, y \in Budgets :
             /\ x + y = j + k /\ Walk(Down(ext, H, live \ I, map), t, Name(map, q), x)
             /\ Walk(A, Name(map, u), Name(map, q), y)
<1> DEFINE G == contractor_graph
           F == FArcs(G, live)
           down == Down(ext, H, live \ I, map)
<1>1. /\ Round(live, I, H) /\ Numbered(G, live, map, cur) /\ SameWalks(A, G, live, map)
      /\ Ready(G, live) /\ GoodEdges(G) /\ I \subseteq live /\ live \subseteq NodeIDs /\ live \subseteq cur
  BY DEF RoundOf, Round, Ready, Numbered
<1>2. Walk(F, u, v, k)
  BY <1>1 DEF SameWalks
<1>3. /\ F \in SUBSET Arcs
      /\ \A a \in F : \E e \in G :
           /\ e.source \in live /\ e.forward
           /\ a.from = e.source /\ a.to = e.target /\ a.weight = e.distance
  BY <1>1, LiveArcs
<1> HIDE DEF F
<1>4. PICK a \in F : a.to = v /\ Walk(F, u, a.from, k - a.weight)
  BY <1>1, <1>2, <1>3, WalkStep
<1>5. PICK e \in G : /\ e.source \in live /\ e.forward /\ e.target = v
                     /\ a.from = e.source /\ a.weight = e.distance
  BY <1>3, <1>4
<1>6. HasMirror(G, e)
  BY <1>1, <1>5 DEF Ready
<1>7. PICK f \in G : /\ f.source = v /\ f.target = e.source /\ f.backward /\ f.distance <= e.distance
  BY <1>5, <1>6 DEF HasMirror
<1> DEFINE q == e.source
           c == e.distance
<1>8. c \in Nat \ {0} /\ f.distance \in Nat \ {0} /\ q \in NodeIDs
  BY <1>1, EdgeFields
<1>9. k - c >= 0
  BY <1>4, <1>5, <1>8, WalkWeight, ContractorAssumption DEF Budgets
<1>10. k - c \in Budgets /\ c \in Budgets /\ j + c \in Budgets /\ (j + c) + (k - c) = j + k
  BY <1>8, <1>9, ContractorAssumption DEF Budgets
<1>11. q \in live \ I
  BY <1>1, <1>7, EdgeNeighbours, NeighbourStays
<1>12. Walk(A, Name(map, u), Name(map, q), k - c)
  <2>1. q \in live /\ u \in live /\ Walk(F, u, q, k - c)
    BY <1>4, <1>5, <1>11
  <2> HIDE DEF q, c
  <2> QED
    BY <1>1, <1>10, <2>1 DEF SameWalks, F
<1>13. NamedArc(map, f) \in down /\ down \in SUBSET Arcs
  BY <1>7, RoundArcs
<1>14. /\ NamedArc(map, f).from = Name(map, v) /\ NamedArc(map, f).to = Name(map, q)
       /\ NamedArc(map, f).weight <= c
  BY <1>7 DEF NamedArc
<1>15. Name(map, v) \in NodeIDs /\ Name(map, q) \in NodeIDs
  BY <1>1, <1>11 DEF Numbered
<1>16. Walk(down, t, Name(map, q), j + c)
  <2> DEFINE b == NamedArc(map, f)
  <2>1. b \in down /\ b.from = Name(map, v) /\ b.to = Name(map, q) /\ b.weight <= c
    BY <1>13, <1>14
  <2> HIDE DEF b, c, down, q
  <2>2. Walk(down, Name(map, v), Name(map, q), c)
    BY <1>10, <1>13, <2>1, WalkArc
  <2>3. Walk(down, t, Name(map, v), j)
    BY DEF down
  <2> QED
    BY <1>10, <1>13, <1>15, <2>2, <2>3, WalkJoin
<1> HIDE DEF q, c, down
<1>17. \E x, y \in Budgets : x + y = j + k /\ Walk(down, t, Name(map, q), x)
                             /\ Walk(A, Name(map, u), Name(map, q), y)
  BY <1>10, <1>12, <1>16
<1> QED
  BY <1>11, <1>17 DEF down

\* A round keeps the hierarchy complete.
LEMMA RoundComplete ==
    ASSUME NEW A, NEW ext, NEW map, NEW cur, NEW live, NEW I, NEW H,
           RoundOf(A, ext, map, cur, live, I, H), Complete(A, ext, contractor_graph, live, map)
    PROVE  Complete(A, ext, H, live \ I, map)
<1> DEFINE up == Up(ext, contractor_graph, live, map)
           down == Down(ext, contractor_graph, live, map)
           up2 == Up(ext, H, live \ I, map)
           down2 == Down(ext, H, live \ I, map)
<1>1. /\ I \subseteq live /\ live \subseteq NodeIDs /\ \A u \in live : Name(map, u) \in NodeIDs
      /\ INT_MAX \in Nat \ {0}
  BY ContractorAssumption DEF RoundOf, Round, Ready, Numbered
<1>2. /\ up \in SUBSET Arcs /\ down \in SUBSET Arcs /\ up2 \in SUBSET Arcs /\ down2 \in SUBSET Arcs
      /\ up \subseteq up2 /\ down \subseteq down2
  BY RoundArcs
<1>3. \A s, m \in NodeIDs, i \in Budgets :
        /\ Walk(up, s, m, i) => Walk(up2, s, m, i)
        /\ Walk(down, s, m, i) => Walk(down2, s, m, i)
  <2> HIDE DEF up, down, up2, down2
  <2> QED
    BY <1>2, MoreArcs
<1> SUFFICES ASSUME NEW s \in NodeIDs, NEW t \in NodeIDs, NEW w \in Budgets, Walk(A, s, t, w)
             PROVE  Meets(up2, down2, s, t, w) \/ Split(up2, down2, A, live \ I, map, s, t, w)
  BY DEF Complete
<1>4. Meets(up, down, s, t, w) \/ Split(up, down, A, live, map, s, t, w)
  BY DEF Complete
<1>5. CASE Meets(up, down, s, t, w)
  <2>1. PICK m \in NodeIDs, i \in Budgets, j \in Budgets :
          i + j <= w /\ Walk(up, s, m, i) /\ Walk(down, t, m, j)
    BY <1>5 DEF Meets
  <2>2. Walk(up2, s, m, i) /\ Walk(down2, t, m, j)
    BY <1>3, <2>1
  <2> QED
    BY <2>1, <2>2 DEF Meets
<1>6. CASE Split(up, down, A, live, map, s, t, w)
  <2>1. PICK u \in live, v \in live, i \in Budgets, j \in Budgets, k \in Budgets :
          /\ i + j + k <= w
          /\ Walk(up, s, Name(map, u), i) /\ Walk(down, t, Name(map, v), j)
          /\ Walk(A, Name(map, u), Name(map, v), k)
    BY <1>6 DEF Split
  <2>2. Walk(up2, s, Name(map, u), i) /\ Walk(down2, t, Name(map, v), j)
    BY <1>1, <1>3, <2>1
  <2>3. CASE u = v
    <3>1. i + j <= w
      BY <1>1, <2>1 DEF Budgets
    <3> HIDE DEF up2, down2
    <3> QED
      BY <1>1, <2>2, <2>3, <3>1 DEF Meets
  <2>4. CASE u # v
    \* First the target side leaves the contracted nodes, then the source side.
    <3>1. PICK q \in live \ I, x \in Budgets, y \in Budgets :
            /\ x + y = j + k /\ Walk(down2, t, Name(map, q), x) /\ Walk(A, Name(map, u), Name(map, q), y)
            /\ u # q \/ u \in live \ I
      <4>1. j + k \in Budgets
        BY <1>1, <2>1 DEF Budgets
      <4>2. CASE v \in I
        BY <2>1, <2>2, <2>4, <4>1, <4>2, LeaveTarget
      <4>3. CASE v \notin I
        BY <2>1, <2>2, <2>4, <4>3
      <4> QED
        BY <4>2, <4>3
    <3>2. PICK p \in live \ I, g \in Budgets, h \in Budgets :
            /\ g + h = i + y /\ Walk(up2, s, Name(map, p), g) /\ Walk(A, Name(map, p), Name(map, q), h)
      <4>1. i + y \in Budgets
        BY <1>1, <2>1, <3>1 DEF Budgets
      <4>2. CASE u \in I
        BY <2>2, <3>1, <4>1, <4>2, LeaveSource
      <4>3. CASE u \notin I
        BY <2>2, <3>1, <4>3
      <4> QED
        BY <4>2, <4>3
    <3>3. g + x + h <= w
      BY <1>1, <2>1, <3>1, <3>2 DEF Budgets
    <3> HIDE DEF up2, down2
    <3> QED
      BY <3>1, <3>2, <3>3 DEF Split
  <2> QED
    BY <2>3, <2>4
<1> QED
  BY <1>4, <1>5, <1>6

-----------------------------------------------------------------------------
(* The beginning *)

\* The arcs of the input.
LEMMA InputArcsAre ==
    ASSUME input_edge_list \in Inputs
    PROVE  /\ InputArcs \in SUBSET Arcs
           /\ \A a \in InputArcs :
                /\ a.from \in NodeIDs /\ a.to \in NodeIDs /\ a.from # a.to
                /\ a.weight = InputDistance(input_edge_list, a.from, a.to)
           /\ \A s, t \in NodeIDs : s # t => \E a \in InputArcs :
                a.from = s /\ a.to = t /\ a.weight = InputDistance(input_edge_list, s, t)
<1> DEFINE Arc(s, t) == [from |-> s, to |-> t, weight |-> InputDistance(input_edge_list, s, t)]
           P == {q \in NodeIDs \X NodeIDs : q[1] # q[2]}
<1>1. \A a : a \in InputArcs <=> \E p \in P : a = Arc(p[1], p[2])
  BY DEF InputArcs
<1>2. ASSUME NEW s \in NodeIDs, NEW t \in NodeIDs
      PROVE  /\ Arc(s, t) \in Arcs /\ Arc(s, t).from = s /\ Arc(s, t).to = t
             /\ Arc(s, t).weight = InputDistance(input_edge_list, s, t)
  BY InputDistanceIs DEF Arcs
<1>3. ASSUME NEW s \in NodeIDs, NEW t \in NodeIDs, s # t PROVE Arc(s, t) \in InputArcs
  <2> DEFINE p == <<s, t>>
  <2>1. p \in P /\ p[1] = s /\ p[2] = t
    BY <1>3
  <2> HIDE DEF p, Arc
  <2> QED
    BY <1>1, <2>1
<1>4. \A p \in P : p[1] \in NodeIDs /\ p[2] \in NodeIDs /\ p[1] # p[2]
  OBVIOUS
<1> HIDE DEF Arc, P
<1> QED
  BY <1>1, <1>2, <1>3, <1>4

\* The input graph has the walks of the input.
LEMMA InitialSameWalks ==
    ASSUME input_edge_list \in Inputs
    PROVE  SameWalks(InputArcs, InitialGraph(input_edge_list), NodeIDs, <<>>)
<1> DEFINE G == InitialGraph(input_edge_list)
           F == FArcs(G, NodeIDs)
           A == InputArcs
<1>1. Ready(G, NodeIDs)
  BY InitialReady
<1>2. /\ F \in SUBSET Arcs
      /\ \A a \in F : \E e \in G :
                /\ e.source \in NodeIDs /\ e.forward
                /\ a.from = e.source /\ a.to = e.target /\ a.weight = e.distance
      /\ \A e \in G : e.source \in NodeIDs /\ e.forward => \E a \in F :
                a.from = e.source /\ a.to = e.target /\ a.weight = e.distance
  BY <1>1, LiveArcs
<1>3. /\ A \in SUBSET Arcs
      /\ \A a \in A : /\ a.from \in NodeIDs /\ a.to \in NodeIDs /\ a.from # a.to
                      /\ a.weight = InputDistance(input_edge_list, a.from, a.to)
      /\ \A s, t \in NodeIDs : s # t => \E a \in A :
                a.from = s /\ a.to = t /\ a.weight = InputDistance(input_edge_list, s, t)
  BY InputArcsAre
<1>4. /\ \A e \in G : /\ e.source \in NodeIDs /\ e.target \in NodeIDs /\ e.source # e.target
                      /\ IsMerged(input_edge_list, e.source, e.target, e)
      /\ \A s, t \in NodeIDs : s # t /\ InputDistance(input_edge_list, s, t) # INT_MAX =>
           \E e \in G : /\ e.source = s /\ e.target = t /\ e.forward
                        /\ e.distance = InputDistance(input_edge_list, s, t)
  BY InitialEdges
<1> HIDE DEF G, F, A
<1>5. ASSUME NEW a \in Arcs, a.weight < INT_MAX PROVE a.weight \in Budgets /\ a.weight <= a.weight
  BY <1>5, ContractorAssumption DEF Arcs, Budgets
<1>6. Covers(A, F)
  <2>1. ASSUME NEW a \in F, a.weight < INT_MAX PROVE Walk(A, a.from, a.to, a.weight)
    <3>1. PICK e \in G : /\ e.source \in NodeIDs /\ e.forward
                         /\ a.from = e.source /\ a.to = e.target /\ a.weight = e.distance
      BY <1>2
    <3>2. PICK b \in A : b.from = a.from /\ b.to = a.to /\ b.weight = a.weight
      BY <1>3, <1>4, <3>1 DEF IsMerged
    <3>3. a.weight \in Budgets /\ a.weight <= a.weight
      BY <1>2, <1>5, <2>1
    <3> QED
      BY <1>3, <3>2, <3>3, WalkArc
  <2> QED
    BY <1>2, <1>3, <2>1 DEF Covers
<1>7. Covers(F, A)
  <2>1. ASSUME NEW a \in A, a.weight < INT_MAX PROVE Walk(F, a.from, a.to, a.weight)
    <3>1. a.weight \in Budgets /\ a.weight <= a.weight /\ a.weight # INT_MAX
      BY <1>3, <1>5, <2>1, ContractorAssumption
    <3>2. PICK e \in G : /\ e.source = a.from /\ e.target = a.to /\ e.forward /\ e.distance = a.weight
      BY <1>3, <1>4, <3>1
    <3>3. PICK b \in F : b.from = a.from /\ b.to = a.to /\ b.weight = a.weight
      BY <1>2, <1>4, <3>2
    <3> QED
      BY <1>2, <3>1, <3>3, WalkArc
  <2> QED
    BY <1>2, <1>3, <2>1 DEF Covers
<1>8. ASSUME NEW u \in NodeIDs, NEW v \in NodeIDs, NEW w \in Budgets
      PROVE  Walk(F, u, v, w) <=> Walk(A, u, v, w)
  BY <1>6, <1>7, WalkCovered
<1>9. \A u : Name(<<>>, u) = u
  BY DEF Name
<1> QED
  BY <1>8, <1>9 DEF SameWalks, F, G, A

\* What holds until the hierarchy is built.
Contracted(A, ext, G, live, map, cur) ==
    /\ A \in SUBSET Arcs /\ GoodEdges(ext) /\ Ready(G, live) /\ Numbered(G, live, map, cur)
    /\ SameWalks(A, G, live, map) /\ Sound(A, ext, G, map) /\ Complete(A, ext, G, live, map)

\* It holds in the beginning.
LEMMA InitialContracted ==
    ASSUME input_edge_list \in Inputs
    PROVE  Contracted(InputArcs, {}, InitialGraph(input_edge_list), NodeIDs, <<>>, NodeIDs)
<1> DEFINE G == InitialGraph(input_edge_list)
           up == Up({}, G, NodeIDs, <<>>)
           down == Down({}, G, NodeIDs, <<>>)
<1>1. InputArcs \in SUBSET Arcs /\ Ready(G, NodeIDs) /\ SameWalks(InputArcs, G, NodeIDs, <<>>)
  BY InputArcsAre, InitialReady, InitialSameWalks
<1>2. \A u : Name(<<>>, u) = u
  BY DEF Name
<1>3. GoodEdges({}) /\ GoodEdges(G)
  BY <1>1 DEF GoodEdges, Ready
<1>4. Numbered(G, NodeIDs, <<>>, NodeIDs)
  BY <1>2, <1>3 DEF Numbered, GoodEdges, EdgeRecords
<1>5. Sound(InputArcs, {}, G, <<>>)
  <2>1. \A e \in G : e.source \in NodeIDs
    BY <1>3, EdgeFields
  <2> QED
    BY <1>1, <2>1, LiveSound DEF Sound
<1>6. Complete(InputArcs, {}, G, NodeIDs, <<>>)
  <2> SUFFICES ASSUME NEW s \in NodeIDs, NEW t \in NodeIDs, NEW w \in Budgets, Walk(InputArcs, s, t, w)
               PROVE  Split(up, down, InputArcs, NodeIDs, <<>>, s, t, w)
    BY DEF Complete
  <2>1. up \in SUBSET Arcs /\ down \in SUBSET Arcs
    BY <1>3, <1>4, DoneArcs
  <2>2. 0 \in Budgets /\ 0 + 0 + w <= w
    BY ContractorAssumption DEF Budgets
  <2> HIDE DEF up, down
  <2>3. Walk(up, s, s, 0) /\ Walk(down, t, t, 0)
    BY <2>1, <2>2, WalkHere
  <2> QED
    BY <1>2, <2>2, <2>3 DEF Split
<1> QED
  BY <1>1, <1>3, <1>4, <1>5, <1>6 DEF Contracted

\* A round keeps it.
LEMMA RoundContracted ==
    ASSUME NEW A, NEW ext, NEW map, NEW cur, NEW live, NEW I, NEW H, Round(live, I, H),
           Contracted(A, ext, contractor_graph, live, map, cur)
    PROVE  Contracted(A, ext, H, live \ I, map, cur)
<1>1. RoundOf(A, ext, map, cur, live, I, H)
  BY DEF RoundOf, Contracted
<1>2. SameWalks(A, H, live \ I, map)
  BY RoundSameWalks DEF Contracted
<1>3. Sound(A, ext, H, map)
  BY <1>2, RoundSound DEF Contracted
<1>4. Complete(A, ext, H, live \ I, map)
  BY <1>1, RoundComplete DEF Contracted
<1>5. Ready(H, live \ I) /\ Numbered(H, live \ I, map, cur)
  BY RoundReady, RoundNumbered DEF Contracted
<1> QED
  BY <1>2, <1>3, <1>4, <1>5 DEF Contracted

-----------------------------------------------------------------------------
(* The flush *)

NewId(seq, u) == (CHOOSE i \in 1 .. Len(seq) : seq[i] = u) - 1
NewIds(seq) == 0 .. Len(seq) - 1

Moved(seq, e) ==
    [e EXCEPT !.source = NewId(seq, e.source), !.target = NewId(seq, e.target),
              !.is_original_via_node_ID = TRUE]
MovedGraph(G, seq) == {Moved(seq, e) : e \in {f \in G : f.source \in Elements(seq)}}

\* The new numbers of the nodes that remain.
LEMMA NewIdIs ==
    ASSUME NEW seq, Distinct(seq)
    PROVE  /\ NewIds(seq) \subseteq NodeIDs /\ Elements(seq) \subseteq NodeIDs
           /\ \A u \in Elements(seq) :
                /\ NewId(seq, u) \in NewIds(seq) /\ seq[NewId(seq, u) + 1] = u
                /\ Name(seq, NewId(seq, u)) = u
           /\ \A n \in NewIds(seq) :
                /\ seq[n + 1] \in Elements(seq) /\ NewId(seq, seq[n + 1]) = n
                /\ Name(seq, n) = seq[n + 1]
<1>1. /\ Len(seq) \in Nat /\ Len(seq) <= number_of_nodes /\ number_of_nodes \in Nat
      /\ \A i \in 1 .. Len(seq) : seq[i] \in NodeIDs
      /\ \A i, j \in 1 .. Len(seq) : seq[i] = seq[j] => i = j
  BY ContractorAssumption DEF Distinct
<1>2. NewIds(seq) \subseteq NodeIDs
  BY <1>1 DEF NewIds, NodeIDs
<1>3. Elements(seq) \subseteq NodeIDs
  BY <1>1 DEF Elements
<1>4. \A n \in NewIds(seq) : n \in Nat /\ n + 1 \in 1 .. Len(seq) /\ (n + 1) - 1 = n /\ Len(seq) # 0
  BY <1>1 DEF NewIds
<1>5. Len(seq) # 0 => seq # <<>>
  BY <1>1
<1>6. ASSUME NEW u \in Elements(seq)
      PROVE  NewId(seq, u) \in NewIds(seq) /\ seq[NewId(seq, u) + 1] = u
  <2> DEFINE i == CHOOSE i \in 1 .. Len(seq) : seq[i] = u
  <2>1. i \in 1 .. Len(seq) /\ seq[i] = u
    BY DEF Elements
  <2>2. NewId(seq, u) = i - 1
    BY DEF NewId
  <2> HIDE DEF i
  <2>3. i - 1 \in NewIds(seq) /\ (i - 1) + 1 = i
    BY <1>1, <2>1 DEF NewIds
  <2> QED
    BY <2>1, <2>2, <2>3
<1>7. ASSUME NEW n \in NewIds(seq)
      PROVE  seq[n + 1] \in Elements(seq) /\ NewId(seq, seq[n + 1]) = n /\ Name(seq, n) = seq[n + 1]
  <2>1. seq[n + 1] \in Elements(seq)
    BY <1>4 DEF Elements
  <2> DEFINE m == NewId(seq, seq[n + 1])
  <2>2. m \in NewIds(seq) /\ seq[m + 1] = seq[n + 1]
    BY <1>6, <2>1
  <2> HIDE DEF m
  <2>3. m + 1 = n + 1
    BY <1>1, <1>4, <2>2
  <2>4. m = n
    BY <1>4, <2>2, <2>3
  <2>5. Name(seq, n) = seq[n + 1]
    BY <1>4, <1>5 DEF Name
  <2> QED
    BY <2>1, <2>4, <2>5 DEF m
<1> QED
  BY <1>2, <1>3, <1>6, <1>7

\* The edges of the renumbered graph.
LEMMA MovedEdges ==
    ASSUME NEW G, NEW seq, Distinct(seq), Ready(G, Elements(seq))
    PROVE  /\ GoodEdges(MovedGraph(G, seq))
           /\ \A g \in MovedGraph(G, seq) : g.is_original_via_node_ID /\ \E e \in G :
                /\ e.source \in Elements(seq) /\ e.target \in Elements(seq)
                /\ g.source = NewId(seq, e.source) /\ g.target = NewId(seq, e.target)
                /\ g.distance = e.distance /\ (g.forward <=> e.forward) /\ (g.backward <=> e.backward)
           /\ \A e \in G : e.source \in Elements(seq) => \E g \in MovedGraph(G, seq) :
                /\ g.source = NewId(seq, e.source) /\ g.target = NewId(seq, e.target)
                /\ g.distance = e.distance /\ (g.forward <=> e.forward) /\ (g.backward <=> e.backward)
<1> DEFINE L == {f \in G : f.source \in Elements(seq)}
           M == MovedGraph(G, seq)
<1>1. \A g : g \in M <=> \E e \in L : g = Moved(seq, e)
  BY DEF MovedGraph
<1>2. ASSUME NEW e \in L
      PROVE  /\ e \in G /\ e \in EdgeRecords /\ e.source # e.target /\ (e.forward \/ e.backward)
             /\ e.source \in Elements(seq) /\ e.target \in Elements(seq)
  BY DEF Ready, GoodEdges
<1>3. /\ NewIds(seq) \subseteq NodeIDs
      /\ \A u \in Elements(seq) : NewId(seq, u) \in NewIds(seq) /\ seq[NewId(seq, u) + 1] = u
  BY NewIdIs
<1>4. ASSUME NEW e \in L
      PROVE  LET g == Moved(seq, e)
             IN  /\ g \in EdgeRecords /\ g.source = NewId(seq, e.source) /\ g.target = NewId(seq, e.target)
                 /\ g.distance = e.distance /\ (g.forward <=> e.forward) /\ (g.backward <=> e.backward)
                 /\ g.is_original_via_node_ID
  <2>1. e \in EdgeRecords /\ NewId(seq, e.source) \in NodeIDs /\ NewId(seq, e.target) \in NodeIDs
    BY <1>2, <1>3
  <2> QED
    BY <2>1 DEF Moved, EdgeRecords
<1>5. ASSUME NEW e \in L PROVE NewId(seq, e.source) # NewId(seq, e.target)
  BY <1>2, <1>3
<1> HIDE DEF L, M
<1>6. GoodEdges(M)
  BY <1>1, <1>2, <1>4, <1>5 DEF GoodEdges
<1>7. \A g \in M : g.is_original_via_node_ID /\ \E e \in G :
                /\ e.source \in Elements(seq) /\ e.target \in Elements(seq)
                /\ g.source = NewId(seq, e.source) /\ g.target = NewId(seq, e.target)
                /\ g.distance = e.distance /\ (g.forward <=> e.forward) /\ (g.backward <=> e.backward)
  BY <1>1, <1>2, <1>4
<1>8. ASSUME NEW e \in G, e.source \in Elements(seq)
      PROVE  \E g \in M :
                /\ g.source = NewId(seq, e.source) /\ g.target = NewId(seq, e.target)
                /\ g.distance = e.distance /\ (g.forward <=> e.forward) /\ (g.backward <=> e.backward)
  <2>1. e \in L
    BY <1>8 DEF L
  <2> QED
    BY <1>1, <1>4, <2>1
<1> QED
  BY <1>6, <1>7, <1>8 DEF M

\* The renumbered graph is one for the next round.
LEMMA MovedReady ==
    ASSUME NEW G, NEW seq, Distinct(seq), Ready(G, Elements(seq))
    PROVE  Ready(MovedGraph(G, seq), NewIds(seq))
<1> DEFINE M == MovedGraph(G, seq)
<1>1. /\ GoodEdges(M)
      /\ \A g \in M : \E e \in G :
                /\ e.source \in Elements(seq) /\ e.target \in Elements(seq)
                /\ g.source = NewId(seq, e.source) /\ g.target = NewId(seq, e.target)
                /\ g.distance = e.distance /\ (g.forward <=> e.forward) /\ (g.backward <=> e.backward)
      /\ \A e \in G : e.source \in Elements(seq) => \E g \in M :
                /\ g.source = NewId(seq, e.source) /\ g.target = NewId(seq, e.target)
                /\ g.distance = e.distance /\ (g.forward <=> e.forward) /\ (g.backward <=> e.backward)
  BY MovedEdges
<1>2. IsFiniteSet(M)
  <2> DEFINE L == {f \in G : f.source \in Elements(seq)}
             m == [e \in L |-> Moved(seq, e)]
  <2>1. IsFiniteSet(L)
    BY FS_Subset DEF Ready
  <2>2. M = {m[e] : e \in L}
    BY DEF MovedGraph
  <2> HIDE DEF L, m, M
  <2> QED
    BY <2>1, <2>2, FiniteImage
<1>3. NewIds(seq) \subseteq NodeIDs /\ \A u \in Elements(seq) : NewId(seq, u) \in NewIds(seq)
  BY NewIdIs
<1> HIDE DEF M
<1>4. ASSUME NEW g \in M PROVE g.target \in NewIds(seq) /\ HasMirror(M, g)
  <2>1. PICK e \in G :
                /\ e.source \in Elements(seq) /\ e.target \in Elements(seq)
                /\ g.source = NewId(seq, e.source) /\ g.target = NewId(seq, e.target)
                /\ g.distance = e.distance /\ (g.forward <=> e.forward) /\ (g.backward <=> e.backward)
    BY <1>1
  <2>2. HasMirror(G, e)
    BY <2>1 DEF Ready
  <2>3. ASSUME g.forward
        PROVE  \E h \in M : /\ h.source = g.target /\ h.target = g.source
                            /\ h.backward /\ h.distance <= g.distance
    <3>1. PICK f \in G : /\ f.source = e.target /\ f.target = e.source
                         /\ f.backward /\ f.distance <= e.distance
      BY <2>1, <2>2, <2>3 DEF HasMirror
    <3> QED
      BY <1>1, <2>1, <3>1
  <2>4. ASSUME g.backward
        PROVE  \E h \in M : /\ h.source = g.target /\ h.target = g.source
                            /\ h.forward /\ h.distance <= g.distance
    <3>1. PICK f \in G : /\ f.source = e.target /\ f.target = e.source
                         /\ f.forward /\ f.distance <= e.distance
      BY <2>1, <2>2, <2>4 DEF HasMirror
    <3> QED
      BY <1>1, <2>1, <3>1
  <2> QED
    BY <1>3, <2>1, <2>3, <2>4 DEF HasMirror
<1>5. Ready(M, NewIds(seq))
  BY <1>1, <1>2, <1>3, <1>4 DEF Ready
<1> QED
  BY <1>5 DEF M

\* The renumbered graph has the same walks.
LEMMA MovedSameWalks ==
    ASSUME NEW A, NEW G, NEW seq, Distinct(seq), Ready(G, Elements(seq)),
           SameWalks(A, G, Elements(seq), <<>>)
    PROVE  SameWalks(A, MovedGraph(G, seq), NewIds(seq), seq)
<1> DEFINE M == MovedGraph(G, seq)
           live == Elements(seq)
           F == FArcs(G, live)
           E == FArcs(M, NewIds(seq))
           f == [n \in NodeIDs |-> IF n \in live THEN NewId(seq, n) ELSE n]
           h == [n \in NodeIDs |-> IF n \in NewIds(seq) THEN seq[n + 1] ELSE n]
<1>1. Ready(M, NewIds(seq))
  BY MovedReady
<1>2. /\ NewIds(seq) \subseteq NodeIDs /\ live \subseteq NodeIDs
      /\ \A u \in live : NewId(seq, u) \in NewIds(seq) /\ seq[NewId(seq, u) + 1] = u
      /\ \A n \in NewIds(seq) : seq[n + 1] \in live /\ NewId(seq, seq[n + 1]) = n
                                /\ Name(seq, n) = seq[n + 1]
  BY NewIdIs
<1>3. /\ \A g \in M : \E e \in G :
                /\ e.source \in live /\ e.target \in live
                /\ g.source = NewId(seq, e.source) /\ g.target = NewId(seq, e.target)
                /\ g.distance = e.distance /\ (g.forward <=> e.forward)
      /\ \A e \in G : e.source \in live => \E g \in M :
                /\ g.source = NewId(seq, e.source) /\ g.target = NewId(seq, e.target)
                /\ g.distance = e.distance /\ (g.forward <=> e.forward)
      /\ \A e \in G : e.source \in live => e.target \in live
  BY MovedEdges DEF Ready
<1>4. /\ F \in SUBSET Arcs
      /\ \A a \in F : \E e \in G :
                /\ e.source \in live /\ e.forward
                /\ a.from = e.source /\ a.to = e.target /\ a.weight = e.distance
  BY LiveArcs
<1>5. /\ E \in SUBSET Arcs
      /\ \A a \in E : \E e \in M :
                /\ e.source \in NewIds(seq) /\ e.forward
                /\ a.from = e.source /\ a.to = e.target /\ a.weight = e.distance
  BY <1>1, LiveArcs
<1>6. f \in [NodeIDs -> NodeIDs] /\ h \in [NodeIDs -> NodeIDs]
  BY <1>2
<1>7. /\ \A u \in live : f[u] = NewId(seq, u)
      /\ \A n \in NewIds(seq) : h[n] = seq[n + 1]
  BY <1>2
<1> HIDE DEF f, h, M, live
<1>8. \A a \in Arcs : a.weight < INT_MAX => a.weight \in Budgets /\ a.weight <= a.weight
  BY ContractorAssumption DEF Arcs, Budgets
<1>9. Simulates(E, F, f)
  <2>1. ASSUME NEW a \in F, a.weight < INT_MAX PROVE Walk(E, f[a.from], f[a.to], a.weight)
    <3>1. PICK e \in G : /\ e.source \in live /\ e.forward
                         /\ a.from = e.source /\ a.to = e.target /\ a.weight = e.distance
      BY <1>4
    <3>2. PICK g \in M : /\ g.source = NewId(seq, e.source) /\ g.target = NewId(seq, e.target)
                         /\ g.distance = e.distance /\ g.forward
      BY <1>3, <3>1
    <3>3. g.source = f[a.from] /\ g.target = f[a.to] /\ g.source \in NewIds(seq)
      BY <1>2, <1>3, <1>7, <3>1, <3>2
    <3>4. a.weight \in Budgets /\ g.distance <= a.weight
      BY <1>4, <1>8, <2>1, <3>1, <3>2
    <3> QED
      BY <1>1, <3>2, <3>3, <3>4, EdgeWalk
  <2> QED
    BY <1>4, <1>5, <1>6, <2>1 DEF Simulates
<1>10. Simulates(F, E, h)
  <2>1. ASSUME NEW a \in E, a.weight < INT_MAX PROVE Walk(F, h[a.from], h[a.to], a.weight)
    <3>1. PICK g \in M : /\ g.source \in NewIds(seq) /\ g.forward
                         /\ a.from = g.source /\ a.to = g.target /\ a.weight = g.distance
      BY <1>5
    <3>2. PICK e \in G : /\ e.source \in live /\ e.target \in live
                         /\ g.source = NewId(seq, e.source) /\ g.target = NewId(seq, e.target)
                         /\ g.distance = e.distance /\ e.forward
      BY <1>3, <3>1
    <3>3. e.source = h[a.from] /\ e.target = h[a.to]
      BY <1>2, <1>7, <3>1, <3>2
    <3>4. a.weight \in Budgets /\ e.distance <= a.weight
      BY <1>5, <1>8, <2>1, <3>1, <3>2
    <3> QED
      BY <3>2, <3>3, <3>4, EdgeWalk DEF live
  <2> QED
    BY <1>4, <1>5, <1>6, <2>1 DEF Simulates
<1>11. ASSUME NEW m \in NewIds(seq), NEW n \in NewIds(seq), NEW w \in Budgets
       PROVE  Walk(E, m, n, w) <=> Walk(A, Name(seq, m), Name(seq, n), w)
  <2> DEFINE u == seq[m + 1]
             v == seq[n + 1]
  <2>1. /\ u \in live /\ v \in live /\ f[u] = m /\ f[v] = n /\ h[m] = u /\ h[n] = v
        /\ Name(seq, m) = u /\ Name(seq, n) = v
        /\ m \in NodeIDs /\ n \in NodeIDs /\ u \in NodeIDs /\ v \in NodeIDs
    BY <1>2, <1>7
  <2> HIDE DEF u, v, F, E
  <2>2. Walk(F, u, v, w) => Walk(E, f[u], f[v], w)
    BY <1>9, <2>1, WalkSimulated
  <2>3. Walk(E, m, n, w) => Walk(F, h[m], h[n], w)
    BY <1>10, <2>1, WalkSimulated
  <2>4. Walk(F, u, v, w) <=> Walk(A, Name(<<>>, u), Name(<<>>, v), w)
    BY <2>1 DEF SameWalks, F, live
  <2>5. Name(<<>>, u) = u /\ Name(<<>>, v) = v
    BY DEF Name
  <2> QED
    BY <2>1, <2>2, <2>3, <2>4, <2>5
<1> QED
  BY <1>11 DEF SameWalks, E, M

\* The flush keeps what contraction keeps.
LEMMA FlushContracted ==
    ASSUME NEW A, NEW G, NEW seq, Distinct(seq), Contracted(A, {}, G, Elements(seq), <<>>, NodeIDs)
    PROVE  Contracted(A, {e \in G : e.source \notin Elements(seq)}, MovedGraph(G, seq),
                      NewIds(seq), seq, NewIds(seq))
<1> DEFINE live == Elements(seq)
           M == MovedGraph(G, seq)
           ext == {e \in G : e.source \notin live}
<1>1. /\ A \in SUBSET Arcs /\ Ready(G, live) /\ Numbered(G, live, <<>>, NodeIDs)
      /\ SameWalks(A, G, live, <<>>) /\ Sound(A, {}, G, <<>>) /\ Complete(A, {}, G, live, <<>>)
      /\ GoodEdges({})
  BY DEF Contracted
<1>2. /\ NewIds(seq) \subseteq NodeIDs /\ live \subseteq NodeIDs
      /\ \A u \in live : NewId(seq, u) \in NewIds(seq) /\ Name(seq, NewId(seq, u)) = u
      /\ \A n \in NewIds(seq) : seq[n + 1] \in live /\ NewId(seq, seq[n + 1]) = n
                                /\ Name(seq, n) = seq[n + 1]
  BY NewIdIs
<1>3. Ready(M, NewIds(seq)) /\ SameWalks(A, M, NewIds(seq), seq)
  BY <1>1, MovedReady, MovedSameWalks
<1>4. GoodEdges(G) /\ GoodEdges(ext) /\ GoodEdges(M)
  BY <1>1, <1>3 DEF GoodEdges, Ready
<1>5. \A u : Name(<<>>, u) = u
  BY DEF Name
<1>6. Numbered(M, NewIds(seq), seq, NewIds(seq))
  <2>1. ASSUME NEW g \in M
        PROVE  g.source \in NewIds(seq) /\ g.target \in NewIds(seq) /\ g.is_original_via_node_ID
    BY <1>1, <1>2, MovedEdges
  <2>2. \A u \in NewIds(seq) : Name(seq, u) \in NodeIDs
    BY <1>2
  <2>3. \A u, v \in NewIds(seq) : Name(seq, u) = Name(seq, v) => u = v
    BY <1>2
  <2> QED
    BY <1>2, <2>1, <2>2, <2>3 DEF Numbered
<1>7. Sound(A, ext, M, seq)
  <2>1. \A e \in ext : SoundEdge(A, e, e.source, e.target)
    BY <1>1, <1>5 DEF Sound
  <2>2. ASSUME NEW e \in M PROVE SoundEdge(A, e, Name(seq, e.source), Name(seq, e.target))
    <3>1. e.source \in NewIds(seq)
      BY <1>6 DEF Numbered
    <3> QED
      BY <1>3, <3>1, LiveSound
  <2> QED
    BY <2>1, <2>2 DEF Sound
<1>8. Complete(A, ext, M, NewIds(seq), seq)
  <2> DEFINE up == Up({}, G, live, <<>>)
             down == Down({}, G, live, <<>>)
             up2 == Up(ext, M, NewIds(seq), seq)
             down2 == Down(ext, M, NewIds(seq), seq)
  <2>1. up \in SUBSET Arcs /\ down \in SUBSET Arcs /\ up2 \in SUBSET Arcs /\ down2 \in SUBSET Arcs
    BY <1>1, <1>4, <1>6, DoneArcs
  <2>2. up \subseteq up2 /\ down \subseteq down2
    <3>1. \A e : NamedArc(<<>>, e) = [from |-> e.source, to |-> e.target, weight |-> e.distance]
      BY <1>5 DEF NamedArc
    <3>2. ForwardArcs({}) = {} /\ BackwardArcs({}) = {}
      BY DEF ForwardArcs, BackwardArcs
    <3>3. \A e \in G : e.source \notin live =>
            /\ e.forward => NamedArc(<<>>, e) \in ForwardArcs(ext)
            /\ e.backward => NamedArc(<<>>, e) \in BackwardArcs(ext)
      BY <3>1 DEF ForwardArcs, BackwardArcs
    <3> HIDE DEF ext
    <3> QED
      BY <3>2, <3>3 DEF Up, Down
  <2> HIDE DEF up, down, up2, down2
  <2>3. \A s, m \in NodeIDs, i \in Budgets :
          /\ Walk(up, s, m, i) => Walk(up2, s, m, i)
          /\ Walk(down, s, m, i) => Walk(down2, s, m, i)
    BY <2>1, <2>2, MoreArcs
  <2> SUFFICES ASSUME NEW s \in NodeIDs, NEW t \in NodeIDs, NEW w \in Budgets, Walk(A, s, t, w)
               PROVE  Meets(up2, down2, s, t, w) \/ Split(up2, down2, A, NewIds(seq), seq, s, t, w)
    BY DEF Complete, up2, down2
  <2>4. Meets(up, down, s, t, w) \/ Split(up, down, A, live, <<>>, s, t, w)
    BY <1>1 DEF Complete, up, down
  <2>5. CASE Meets(up, down, s, t, w)
    BY <2>3, <2>5 DEF Meets
  <2>6. CASE Split(up, down, A, live, <<>>, s, t, w)
    <3>1. PICK u \in live, v \in live, i \in Budgets, j \in Budgets, k \in Budgets :
            /\ i + j + k <= w
            /\ Walk(up, s, u, i) /\ Walk(down, t, v, j) /\ Walk(A, u, v, k)
      BY <1>5, <2>6 DEF Split
    <3>2. Walk(up2, s, u, i) /\ Walk(down2, t, v, j)
      BY <1>2, <2>3, <3>1
    <3>3. /\ NewId(seq, u) \in NewIds(seq) /\ Name(seq, NewId(seq, u)) = u
          /\ NewId(seq, v) \in NewIds(seq) /\ Name(seq, NewId(seq, v)) = v
      BY <1>2
    <3> QED
      BY <3>1, <3>2, <3>3 DEF Split
  <2> QED
    BY <2>4, <2>5, <2>6
<1> QED
  BY <1>1, <1>3, <1>4, <1>6, <1>7, <1>8 DEF Contracted

-----------------------------------------------------------------------------
(* The finished hierarchy *)

Renamed(map, e) ==
    [e EXCEPT !.source = Name(map, e.source), !.target = Name(map, e.target),
              !.id = IF e.is_original_via_node_ID THEN e.id ELSE Name(map, e.id)]
Finished(ext, G, map) == ext \cup {Renamed(map, e) : e \in G}

\* Edges E answer every query about A: searches along them find nothing lighter, and meet
\* within the weight of every walk.
Exact(A, E) ==
    /\ GoodEdges(E)
    /\ \A e \in E : SoundEdge(A, e, e.source, e.target)
    /\ \A s, t \in NodeIDs, w \in Budgets :
         Walk(A, s, t, w) => Meets(ForwardArcs(E), BackwardArcs(E), s, t, w)

\* The edges in original names.
LEMMA RenamedEdges ==
    ASSUME NEW G, NEW live, NEW map, NEW cur, GoodEdges(G), Numbered(G, live, map, cur), NEW e \in G
    PROVE  /\ Renamed(map, e) \in EdgeRecords
           /\ Renamed(map, e).source = Name(map, e.source)
           /\ Renamed(map, e).target = Name(map, e.target)
           /\ Renamed(map, e).source # Renamed(map, e).target
           /\ Renamed(map, e).distance = e.distance
           /\ Renamed(map, e).forward <=> e.forward
           /\ Renamed(map, e).backward <=> e.backward
<1> DEFINE s == Name(map, e.source)
           t == Name(map, e.target)
           d == IF e.is_original_via_node_ID THEN e.id ELSE Name(map, e.id)
<1>1. e \in EdgeRecords /\ e.source # e.target
  BY DEF GoodEdges
<1>2. s \in NodeIDs /\ t \in NodeIDs /\ s # t
  BY <1>1 DEF Numbered
<1>3. d \in NodeIDs
  <2>1. e.id \in NodeIDs
    BY <1>1 DEF EdgeRecords
  <2>2. ~e.is_original_via_node_ID => Name(map, e.id) \in NodeIDs
    BY DEF Numbered
  <2> QED
    BY <2>1, <2>2
<1>4. Renamed(map, e) = [e EXCEPT !.source = s, !.target = t, !.id = d]
  BY DEF Renamed
<1> HIDE DEF s, t, d
<1>5. /\ Renamed(map, e) \in EdgeRecords
      /\ Renamed(map, e).source = s /\ Renamed(map, e).target = t
      /\ Renamed(map, e).distance = e.distance
      /\ Renamed(map, e).forward <=> e.forward
      /\ Renamed(map, e).backward <=> e.backward
  BY <1>1, <1>2, <1>3, <1>4 DEF EdgeRecords
<1> QED
  BY <1>2, <1>5 DEF s, t

\* What contraction keeps makes the finished hierarchy exact.
LEMMA FinishedExact ==
    ASSUME NEW A, NEW ext, NEW G, NEW live, NEW map, NEW cur, Contracted(A, ext, G, live, map, cur)
    PROVE  Exact(A, Finished(ext, G, map))
<1> DEFINE E == Finished(ext, G, map)
           up == Up(ext, G, live, map)
           down == Down(ext, G, live, map)
           F == FArcs(G, live)
<1>1. /\ A \in SUBSET Arcs /\ GoodEdges(ext) /\ Ready(G, live) /\ Numbered(G, live, map, cur)
      /\ SameWalks(A, G, live, map) /\ Sound(A, ext, G, map) /\ Complete(A, ext, G, live, map)
      /\ GoodEdges(G) /\ live \subseteq cur /\ cur \subseteq NodeIDs
      /\ \A u \in cur : Name(map, u) \in NodeIDs
  BY DEF Contracted, Ready, Numbered
<1>2. ASSUME NEW e \in G
      PROVE  /\ Renamed(map, e) \in EdgeRecords
             /\ Renamed(map, e).source = Name(map, e.source)
             /\ Renamed(map, e).target = Name(map, e.target)
             /\ Renamed(map, e).source # Renamed(map, e).target
             /\ Renamed(map, e).distance = e.distance
             /\ Renamed(map, e).forward <=> e.forward
             /\ Renamed(map, e).backward <=> e.backward
  BY <1>1, RenamedEdges
<1>3. \A x : x \in E <=> x \in ext \/ \E e \in G : x = Renamed(map, e)
  BY DEF Finished
<1> HIDE DEF E
<1>4. GoodEdges(E)
  <2>1. \A e \in G : e.forward \/ e.backward
    BY <1>1 DEF GoodEdges
  <2> QED
    BY <1>1, <1>2, <1>3, <2>1 DEF GoodEdges
<1>5. \A x \in E : SoundEdge(A, x, x.source, x.target)
  <2>1. ASSUME NEW e \in G
        PROVE  SoundEdge(A, Renamed(map, e), Renamed(map, e).source, Renamed(map, e).target)
    BY <1>1, <1>2 DEF Sound, SoundEdge
  <2> QED
    BY <1>1, <1>3, <2>1 DEF Sound
<1>6. ForwardArcs(E) \in SUBSET Arcs /\ BackwardArcs(E) \in SUBSET Arcs
  BY <1>4, ArcsAreEdges
<1>7. ASSUME NEW e \in G
      PROVE  /\ e.forward => NamedArc(map, e) \in ForwardArcs(E)
             /\ e.backward => NamedArc(map, e) \in BackwardArcs(E)
  <2> DEFINE r == Renamed(map, e)
  <2>1. /\ r \in E /\ (r.forward <=> e.forward) /\ (r.backward <=> e.backward)
        /\ NamedArc(map, e) = [from |-> r.source, to |-> r.target, weight |-> r.distance]
    BY <1>2, <1>3 DEF NamedArc
  <2> HIDE DEF r
  <2> QED
    BY <2>1 DEF ForwardArcs, BackwardArcs
<1>8. up \subseteq ForwardArcs(E) /\ down \subseteq BackwardArcs(E)
  <2>1. ForwardArcs(ext) \subseteq ForwardArcs(E) /\ BackwardArcs(ext) \subseteq BackwardArcs(E)
    BY <1>3 DEF ForwardArcs, BackwardArcs
  <2> QED
    BY <1>7, <2>1 DEF Up, Down
<1>9. up \in SUBSET Arcs /\ down \in SUBSET Arcs
  BY <1>1, DoneArcs
<1> HIDE DEF up, down
<1> DEFINE B == ForwardArcs(E)
           D == BackwardArcs(E)
<1>10. \A s, m \in NodeIDs, i \in Budgets :
         /\ Walk(up, s, m, i) => Walk(B, s, m, i)
         /\ Walk(down, s, m, i) => Walk(D, s, m, i)
  <2> HIDE DEF B, D
  <2>1. B \in SUBSET Arcs /\ D \in SUBSET Arcs /\ up \subseteq B /\ down \subseteq D
    BY <1>6, <1>8 DEF B, D
  <2> QED
    BY <1>9, <2>1, MoreArcs
<1>11. ASSUME NEW u \in live, NEW v \in live, NEW k \in Budgets, Walk(A, Name(map, u), Name(map, v), k)
       PROVE  Walk(B, Name(map, u), Name(map, v), k)
  <2> DEFINE f == [n \in NodeIDs |-> IF n \in cur THEN Name(map, n) ELSE n]
  <2>1. f \in [NodeIDs -> NodeIDs] /\ \A n \in cur : f[n] = Name(map, n)
    BY <1>1
  <2> HIDE DEF f
  <2>2. /\ F \in SUBSET Arcs
        /\ \A a \in F : \E e \in G :
                /\ e.source \in live /\ e.forward
                /\ a.from = e.source /\ a.to = e.target /\ a.weight = e.distance
    BY <1>1, LiveArcs
  <2>3. ASSUME NEW a \in F, a.weight < INT_MAX PROVE Walk(B, f[a.from], f[a.to], a.weight)
    <3>1. PICK e \in G : /\ e.source \in live /\ e.forward
                         /\ a.from = e.source /\ a.to = e.target /\ a.weight = e.distance
      BY <2>2
    <3>2. e.source \in cur /\ e.target \in cur
      BY <1>1 DEF Numbered
    <3>3. a.weight \in Nat \ {0}
      BY <2>2 DEF Arcs
    <3>4. a.weight \in Budgets /\ a.weight <= a.weight
      BY <2>3, <3>3, ContractorAssumption DEF Budgets
    <3> DEFINE b == NamedArc(map, e)
    <3>5. b \in B /\ b.from = f[a.from] /\ b.to = f[a.to] /\ b.weight = a.weight
      <4>1. b \in B
        BY <1>7, <3>1
      <4>2. b.from = Name(map, e.source) /\ b.to = Name(map, e.target) /\ b.weight = e.distance
        BY DEF NamedArc
      <4> QED
        BY <2>1, <3>1, <3>2, <4>1, <4>2
    <3> HIDE DEF b, B
    <3>6. B \in SUBSET Arcs
      BY <1>6 DEF B
    <3> QED
      BY <3>4, <3>5, <3>6, WalkArc
  <2>4. Simulates(B, F, f)
    BY <1>6, <2>1, <2>2, <2>3 DEF Simulates
  <2>5. Walk(F, u, v, k)
    BY <1>1, <1>11 DEF SameWalks
  <2> HIDE DEF B, F
  <2>6. Walk(B, f[u], f[v], k)
    BY <1>1, <2>4, <2>5, WalkSimulated
  <2> QED
    BY <1>1, <2>1, <2>6
<1>12. ASSUME NEW s \in NodeIDs, NEW t \in NodeIDs, NEW w \in Budgets, Walk(A, s, t, w)
       PROVE  Meets(B, D, s, t, w)
  <2>1. Meets(up, down, s, t, w) \/ Split(up, down, A, live, map, s, t, w)
    BY <1>1, <1>12 DEF Complete, up, down
  <2>2. CASE Meets(up, down, s, t, w)
    BY <1>10, <2>2 DEF Meets
  <2>3. CASE Split(up, down, A, live, map, s, t, w)
    <3>1. PICK u \in live, v \in live, i \in Budgets, j \in Budgets, k \in Budgets :
            /\ i + j + k <= w
            /\ Walk(up, s, Name(map, u), i) /\ Walk(down, t, Name(map, v), j)
            /\ Walk(A, Name(map, u), Name(map, v), k)
      BY <2>3 DEF Split
    <3>2. Name(map, u) \in NodeIDs /\ Name(map, v) \in NodeIDs
      BY <1>1
    <3>3. /\ Walk(B, s, Name(map, u), i) /\ Walk(D, t, Name(map, v), j)
          /\ Walk(B, Name(map, u), Name(map, v), k)
      BY <1>10, <1>11, <3>1, <3>2
    <3>4. i + k \in Budgets /\ (i + k) + j <= w
      BY <3>1, ContractorAssumption DEF Budgets
    <3> HIDE DEF B, D
    <3>5. B \in SUBSET Arcs
      BY <1>6 DEF B
    <3>6. Walk(B, s, Name(map, v), i + k)
      BY <3>2, <3>3, <3>4, <3>5, WalkJoin
    <3> QED
      BY <3>2, <3>3, <3>4, <3>6 DEF Meets
  <2> QED
    BY <2>1, <2>2, <2>3
<1>13. Exact(A, E)
  BY <1>4, <1>5, <1>12 DEF Exact
<1> QED
  BY <1>13 DEF E

\* Then the best meeting node gives the distance.
LEMMA ExactDistance ==
    ASSUME NEW A \in SUBSET Arcs, NEW E, Exact(A, E), NEW s \in NodeIDs, NEW t \in NodeIDs
    PROVE  Min({INT_MAX} \cup {Distance(Shortest(ForwardArcs(E)), s, m) +
                               Distance(Shortest(BackwardArcs(E)), t, m) : m \in NodeIDs})
             = Distance(Shortest(A), s, t)
<1> DEFINE B == ForwardArcs(E)
           C == BackwardArcs(E)
           Over(m) == Distance(Shortest(B), s, m)
           Under(m) == Distance(Shortest(C), t, m)
           X == {INT_MAX} \cup {Over(m) + Under(m) : m \in NodeIDs}
           d == Distance(Shortest(A), s, t)
<1>0. INT_MAX \in Nat \ {0}
  BY ContractorAssumption
<1>1. /\ B \in SUBSET Arcs /\ C \in SUBSET Arcs
      /\ \A b \in B : \E e \in E : e.forward /\ b.from = e.source /\ b.to = e.target /\ b.weight = e.distance
      /\ \A c \in C : \E e \in E : e.backward /\ c.from = e.source /\ c.to = e.target /\ c.weight = e.distance
  BY ArcsAreEdges DEF Exact
<1> HIDE DEF B, C
<1>2. d \in 0 .. INT_MAX /\ \A w \in Budgets : Walk(A, s, t, w) <=> d <= w
  BY DistanceIs
<1>3. ASSUME NEW m \in NodeIDs
      PROVE  /\ Over(m) \in 0 .. INT_MAX /\ \A w \in Budgets : Walk(B, s, m, w) <=> Over(m) <= w
             /\ Under(m) \in 0 .. INT_MAX /\ \A w \in Budgets : Walk(C, t, m, w) <=> Under(m) <= w
  BY <1>1, DistanceIs
<1> HIDE DEF Over, Under, d
<1>4. X \subseteq Nat /\ X # {}
  <2>1. \A m \in NodeIDs : Over(m) + Under(m) \in Nat
    <3> TAKE m \in NodeIDs
    <3>1. Over(m) \in Nat /\ Under(m) \in Nat
      BY <1>0, <1>3
    <3> QED
      BY <3>1
  <2> QED
    BY <1>0, <2>1
<1>5. Min(X) \in X /\ \A y \in X : Min(X) <= y
  BY <1>4, MinIs
<1> DEFINE min == Min(X)
<1>6. min \in Nat /\ min <= INT_MAX
  BY <1>0, <1>4, <1>5
<1>7. min <= d
  <2>1. CASE d = INT_MAX
    BY <1>6, <2>1
  <2>2. CASE d < INT_MAX
    <3>1. d \in Budgets /\ d <= d
      BY <1>0, <1>2, <2>2 DEF Budgets
    <3>2. Walk(A, s, t, d)
      BY <1>2, <3>1
    <3>3. PICK m \in NodeIDs, i \in Budgets, j \in Budgets :
            i + j <= d /\ Walk(B, s, m, i) /\ Walk(C, t, m, j)
      BY <3>1, <3>2 DEF Exact, Meets, B, C
    <3>4. Over(m) <= i /\ Under(m) <= j /\ Over(m) \in Nat /\ Under(m) \in Nat
      BY <1>0, <1>3, <3>3
    <3>5. min <= Over(m) + Under(m)
      BY <1>5
    <3> HIDE DEF min
    <3>6. i \in Int /\ j \in Int /\ d \in Int
      BY <1>2, <3>3 DEF Budgets
    <3> QED
      BY <1>6, <3>3, <3>4, <3>5, <3>6
  <2> QED
    BY <1>0, <1>2, <2>1, <2>2
<1>8. d <= min
  <2>1. CASE min = INT_MAX
    BY <1>2, <2>1
  <2>2. CASE min # INT_MAX
    <3>1. PICK m \in NodeIDs : min = Over(m) + Under(m)
      BY <1>5, <2>2
    <3> DEFINE i == Over(m)
               j == Under(m)
    <3>2. i \in 0 .. INT_MAX /\ j \in 0 .. INT_MAX /\ min = i + j
      BY <1>3, <3>1
    <3> HIDE DEF i, j, min
    <3>3. i \in Budgets /\ j \in Budgets /\ i + j \in Budgets /\ i <= i /\ j <= j
      BY <1>0, <1>6, <2>2, <3>2 DEF Budgets
    <3>4. Walk(B, s, m, i) /\ Walk(C, t, m, j)
      BY <1>3, <3>3 DEF i, j
    <3>5. Covers(A, B)
      <4>1. ASSUME NEW b \in B, b.weight < INT_MAX PROVE Walk(A, b.from, b.to, b.weight)
        BY <1>1, <4>1 DEF Exact, SoundEdge
      <4> QED
        BY <1>1, <4>1 DEF Covers
    <3>6. Walk(A, s, m, i)
      BY <3>3, <3>4, <3>5, WalkCovered
    <3>7. Walk(A, m, t, j)
      <4> DEFINE Turned(c) == [from |-> c.to, to |-> c.from, weight |-> c.weight]
                 R == {Turned(c) : c \in C}
      <4>1. R \in SUBSET Arcs
        BY <1>1 DEF Arcs
      <4>0. \A c \in C : /\ Turned(c).from = c.to /\ Turned(c).to = c.from
                        /\ Turned(c).weight = c.weight
        OBVIOUS
      <4> HIDE DEF Turned
      <4>2. \A c \in C : \E r \in R : r.from = c.to /\ r.to = c.from /\ r.weight = c.weight
        <5> TAKE c \in C
        <5>1. Turned(c) \in R
          OBVIOUS
        <5> QED
          BY <4>0, <5>1
      <4>3. \A r \in R : \E c \in C : r.from = c.to /\ r.to = c.from /\ r.weight = c.weight
        BY <4>0
      <4>4. \A c \in C : c.weight <= c.weight
        BY <1>1 DEF Arcs
      <4> HIDE DEF R
      <4>5. Reverses(R, C)
        BY <1>1, <4>1, <4>2, <4>4 DEF Reverses
      <4>6. Walk(R, m, t, j)
        BY <3>3, <3>4, <4>5, WalkReversed
      <4>7. Covers(A, R)
        <5>1. ASSUME NEW r \in R, r.weight < INT_MAX PROVE Walk(A, r.from, r.to, r.weight)
          <6>1. PICK c \in C : r.from = c.to /\ r.to = c.from /\ r.weight = c.weight
            BY <4>3
          <6>2. PICK e \in E : e.backward /\ c.from = e.source /\ c.to = e.target /\ c.weight = e.distance
            BY <1>1
          <6> QED
            BY <5>1, <6>1, <6>2 DEF Exact, SoundEdge
        <5> QED
          BY <4>1, <5>1 DEF Covers
      <4> QED
        BY <3>3, <4>6, <4>7, WalkCovered
    <3>8. Walk(A, s, t, i + j)
      BY <3>3, <3>6, <3>7, WalkJoin
    <3> QED
      BY <1>2, <3>2, <3>3, <3>8
  <2> QED
    BY <2>1, <2>2
<1>9. min = d
  <2> HIDE DEF min
  <2> QED
    BY <1>2, <1>6, <1>7, <1>8, <1>0
<1> QED
  BY <1>9 DEF B, C, Over, Under, d

-----------------------------------------------------------------------------
(* Via nodes *)

\* A finite set of numbers has a largest one.
LEMMA MaxIs ==
    ASSUME NEW S, S \subseteq Nat, IsFiniteSet(S), S # {}
    PROVE  Max(S) \in S /\ \A y \in S : y <= Max(S)
<1>1. PICK n \in Nat : ExistsBijection(1 .. n, S)
  BY FS_NatBijection
<1>2. PICK f \in Bijection(1 .. n, S) : TRUE
  BY <1>1 DEF ExistsBijection
<1>3. (\A i \in 1 .. n : f[i] \in Nat /\ f[i] \in S) /\ \A y \in S : \E i \in 1 .. n : f[i] = y
  BY <1>2 DEF Bijection, Injection, Surjection
<1> DEFINE D == {m \in 0 .. n : m = 0 \/ \E i \in 1 .. m : \A j \in 1 .. m : f[j] <= f[i]}
<1>4. 0 \in D
  OBVIOUS
<1>5. ASSUME NEW m \in 0 .. n - 1, m \in D PROVE m + 1 \in D
  <2> DEFINE k == m + 1
  <2>1. /\ k \in 0 .. n /\ k \in 1 .. n /\ k \in 1 .. k /\ \A j \in 1 .. k : j = k \/ j \in 1 .. m
        /\ m = 0 => 1 .. k = {k}
    BY <1>1
  <2>0. \A j \in 1 .. m : j \in 1 .. n /\ j \in 1 .. k
    BY <1>1
  <2>2. m = 0 \/ \E i \in 1 .. m : \A j \in 1 .. m : f[j] <= f[i]
    BY <1>5
  <2> HIDE DEF k
  <2>3. ASSUME NEW i \in 1 .. k, \A j \in 1 .. k : f[j] <= f[i] PROVE k \in D
    BY <2>1, <2>3
  <2>9. f[k] \in Nat /\ f[k] <= f[k]
    BY <1>3, <2>1
  <2> HIDE DEF D
  <2>4. CASE m = 0
    <3>1. \A j \in 1 .. k : f[j] <= f[k]
      BY <2>1, <2>4, <2>9
    <3>2. k \in D
      BY <2>1, <2>3, <3>1
    <3> QED
      BY <3>2 DEF k
  <2>5. CASE m # 0
    <3>1. PICK i \in 1 .. m : \A j \in 1 .. m : f[j] <= f[i]
      BY <2>2, <2>5
    <3>2. i \in 1 .. n /\ i \in 1 .. k
      BY <2>0
    <3>3. f[i] \in Nat /\ \A j \in 1 .. m : f[j] \in Nat
      BY <1>3, <2>0, <3>2
    <3>4. CASE f[k] <= f[i]
      <4>1. \A j \in 1 .. k : f[j] <= f[i]
        BY <2>1, <3>1, <3>4
      <4>2. k \in D
        BY <2>3, <3>2, <4>1
      <4> QED
        BY <4>2 DEF k
    <3>5. CASE f[i] <= f[k]
      <4>1. \A j \in 1 .. m : f[j] <= f[k]
        BY <2>9, <3>1, <3>3, <3>5
      <4>2. \A j \in 1 .. k : f[j] <= f[k]
        BY <2>1, <2>9, <4>1
      <4>3. k \in D
        BY <2>1, <2>3, <4>2
      <4> QED
        BY <4>3 DEF k
    <3> QED
      BY <2>9, <3>3, <3>4, <3>5
  <2> QED
    BY <2>4, <2>5
<1>6. n = 0 \/ \E i \in 1 .. n : \A j \in 1 .. n : f[j] <= f[i]
  <2>0. n \in 0 .. n
    OBVIOUS
  <2>1. 0 .. n \subseteq D
    <3> HIDE DEF D
    <3> QED
      BY <1>4, <1>5, BoundedInduction
  <2> QED
    BY <2>0, <2>1
<1>7. \E x \in S : \A y \in S : x >= y
  <2>0. \E k \in 1 .. n : TRUE
    BY <1>3
  <2>1. n # 0
    BY <2>0
  <2>2. PICK i \in 1 .. n : \A j \in 1 .. n : f[j] <= f[i]
    BY <1>6, <2>1
  <2> QED
    BY <1>3, <2>2
<1> DEFINE max == CHOOSE x \in S : \A y \in S : x >= y
<1>8. max \in S /\ \A y \in S : max >= y
  BY <1>7
<1>9. Max(S) = max
  BY DEF Max
<1> HIDE DEF max
<1> QED
  BY <1>8, <1>9

\* The bound of the search for an in-edge grows with the edge.
LEMMA SearchBound ==
    ASSUME NEW live, Ready(contractor_graph, live), NEW node \in live,
           NEW in \in InEdges(node), NEW light \in InEdges(node), OutEdges(node) # {},
           light.distance <= in.distance
    PROVE  /\ Max({in.distance + o.distance : o \in OutEdges(node)}) \in Int
           /\ Max({light.distance + o.distance : o \in OutEdges(node)}) \in Int
           /\ Max({light.distance + o.distance : o \in OutEdges(node)}) <=
                Max({in.distance + o.distance : o \in OutEdges(node)})
<1> DEFINE O == OutEdges(node)
           Sums(e) == {e.distance + o.distance : o \in O}
<1>1. /\ in.distance \in Nat /\ light.distance \in Nat /\ \A o \in O : o.distance \in Nat
      /\ O \subseteq contractor_graph /\ O # {}
  BY InOutEdges
<1>2. IsFiniteSet(O)
  BY <1>1, FS_Subset DEF Ready
<1> HIDE DEF O
<1>3. ASSUME NEW e \in {in, light}
      PROVE  Max(Sums(e)) \in Sums(e) /\ (\A y \in Sums(e) : y <= Max(Sums(e))) /\ Sums(e) \subseteq Nat
  <2>1. e.distance \in Nat
    BY <1>1
  <2>2. Sums(e) \subseteq Nat /\ Sums(e) # {}
    BY <1>1, <2>1
  <2>3. IsFiniteSet(Sums(e))
    <3> DEFINE c == [o \in O |-> e.distance + o.distance]
    <3>1. Sums(e) = {c[o] : o \in O}
      OBVIOUS
    <3> HIDE DEF c
    <3>2. IsFiniteSet({c[o] : o \in O})
      BY <1>2, FiniteImage
    <3> QED
      BY <3>1, <3>2
  <2> HIDE DEF Sums
  <2> QED
    BY <2>2, <2>3, MaxIs
<1> DEFINE large == Max(Sums(in))
           small == Max(Sums(light))
<1>4. /\ large \in Nat /\ small \in Nat /\ (\A y \in Sums(in) : y <= large) /\ small \in Sums(light)
  BY <1>3
<1>5. PICK o \in O : small = light.distance + o.distance
  BY <1>4
<1>6. in.distance + o.distance <= large
  BY <1>4
<1> HIDE DEF large, small
<1>7. small <= large
  BY <1>1, <1>4, <1>5, <1>6
<1> QED
  BY <1>4, <1>7 DEF large, small, O

\* If a shortcut is needed although another way through the node is lighter, then a lighter one
\* is needed as well.
LEMMA LighterNeeded ==
    ASSUME NEW live, Ready(contractor_graph, live), NEW node \in live,
           NEW in \in InEdges(node), NEW out \in OutEdges(node), Needed(node, in, out),
           NEW i \in InEdges(node), NEW o \in OutEdges(node),
           i.target = in.target, o.target = out.target,
           i.distance + o.distance < in.distance + out.distance
    PROVE  \E j \in InEdges(node) :
             /\ j.target = in.target /\ j.distance + o.distance < in.distance + out.distance
             /\ Needed(node, j, o)
<1> DEFINE targets == {e.target : e \in OutEdges(node)}
           Bound(e) == Max({e.distance + x.distance : x \in OutEdges(node)})
           Key(e) == GetKey(Witness(node, in.target, Bound(e), targets), out.target)
<1>1. /\ in.target \in live /\ out.target \in targets /\ targets \subseteq live
      /\ in.distance \in Nat /\ out.distance \in Nat /\ i.distance \in Nat /\ o.distance \in Nat
  BY InOutEdges
<1>2. /\ Needed(node, in, out) <=> in.distance + out.distance < Key(in)
      /\ Needed(node, in, o) <=> in.distance + o.distance < Key(in)
      /\ Needed(node, i, o) <=> i.distance + o.distance < Key(i)
  BY DEF Needed
<1>3. Key(in) \in Nat /\ Key(i) \in Nat
  <2> HIDE DEF targets, Bound
  <2> QED
    BY <1>1, WitnessIsWalk
<1>4. CASE i.distance <= in.distance
  <2>1. Bound(in) \in Int /\ Bound(i) \in Int /\ Bound(i) <= Bound(in)
    BY <1>4, SearchBound
  <2>2. Key(in) <= Key(i)
    <3> HIDE DEF targets, Bound
    <3> QED
      BY <1>1, <2>1, WitnessWider
  <2> HIDE DEF Key
  <2>3. i.distance + o.distance < Key(i)
    BY <1>1, <1>2, <1>3, <2>2
  <2> QED
    BY <1>2, <2>3
<1>5. CASE in.distance < i.distance
  <2> HIDE DEF Key
  <2>1. in.distance + o.distance < in.distance + out.distance
    BY <1>1, <1>5
  <2>2. in.distance + o.distance < Key(in)
    BY <1>1, <1>2, <1>3, <2>1
  <2> QED
    BY <1>2, <2>1, <2>2
<1> QED
  BY <1>1, <1>4, <1>5

\* What ContractNode makes of a way through a node, and of a lighter one.
LEMMA ShortcutVia ==
    ASSUME NEW live, Ready(contractor_graph, live), NEW node \in live, NEW e \in ContractNode(node),
           NEW i \in InEdges(node), NEW o \in OutEdges(node), i.distance + o.distance < e.distance
    PROVE  /\ e.forward /\ i.target = e.source /\ o.target = e.target =>
                \E g \in ContractNode(node) :
                  /\ g.forward /\ g.source = e.source /\ g.target = e.target
                  /\ g.distance < e.distance
           /\ e.backward /\ i.target = e.target /\ o.target = e.source =>
                \E g \in ContractNode(node) :
                  /\ g.backward /\ g.source = e.source /\ g.target = e.target
                  /\ g.distance < e.distance
<1> DEFINE new == Entries(node)
           C == ContractNode(node)
<1>1. ASSUME NEW x \in new
      PROVE  \E in \in InEdges(node), out \in OutEdges(node) :
               /\ Needed(node, in, out) /\ in.target # out.target
               /\ IsThere(x, in, out) \/ IsBack(x, in, out)
  <2>1. PICK in \in InEdges(node), out \in OutEdges(node) :
          Needed(node, in, out) /\ (x = There(node, in, out) \/ x = Back(node, in, out))
    BY EntryIs
  <2>2. in.target # out.target
    BY <2>1, NeededOrWitness
  <2>3. IsThere(There(node, in, out), in, out) /\ IsBack(Back(node, in, out), in, out)
    BY <2>1, EntryFields
  <2> QED
    BY <2>1, <2>2, <2>3
<1>2. GoodEdges(new)
  <2> HIDE DEF new
  <2> QED
    BY <1>1 DEF GoodEdges, IsThere, IsBack
<1>3. C = MergeFlags(new)
  BY EntriesMerged
<1>4. /\ \A x \in C :
           /\ x.forward => \E f \in new : SameArc(x, f) /\ f.forward
           /\ x.backward => \E f \in new : SameArc(x, f) /\ f.backward
      /\ \A f \in new : \E x \in C :
           SameArc(x, f) /\ (f.forward => x.forward) /\ (f.backward => x.backward)
  BY <1>2, <1>3, MergedFlags
<1>5. ASSUME NEW in \in InEdges(node), NEW out \in OutEdges(node), Needed(node, in, out),
             i.target = in.target, o.target = out.target,
             e.distance = in.distance + out.distance
      PROVE  \E t, b \in new : /\ t.forward /\ t.source = in.target /\ t.target = out.target
                               /\ b.backward /\ b.source = out.target /\ b.target = in.target
                               /\ t.distance < e.distance /\ b.distance < e.distance
  <2>1. i.distance + o.distance < in.distance + out.distance
    BY <1>5
  <2>2. PICK j \in InEdges(node) :
          /\ j.target = in.target /\ j.distance + o.distance < in.distance + out.distance
          /\ Needed(node, j, o)
    BY <1>5, <2>1, LighterNeeded
  <2>3. /\ There(node, j, o) \in new /\ Back(node, j, o) \in new
        /\ IsThere(There(node, j, o), j, o) /\ IsBack(Back(node, j, o), j, o)
    BY <2>2, EntryFields
  <2> HIDE DEF new
  <2> QED
    BY <1>5, <2>2, <2>3 DEF IsThere, IsBack
<1> HIDE DEF new, C
<1>6. ASSUME e.forward, i.target = e.source, o.target = e.target
      PROVE  \E g \in C : /\ g.forward /\ g.source = e.source /\ g.target = e.target
                          /\ g.distance < e.distance
  <2>1. PICK f \in new : SameArc(e, f) /\ f.forward
    BY <1>4, <1>6 DEF C
  <2>2. PICK in \in InEdges(node), out \in OutEdges(node) :
          Needed(node, in, out) /\ (IsThere(f, in, out) \/ IsBack(f, in, out))
    BY <1>1
  <2>3. /\ i.target = in.target /\ o.target = out.target /\ e.distance = in.distance + out.distance
        /\ e.source = in.target /\ e.target = out.target
    BY <1>6, <2>1, <2>2 DEF SameArc, IsThere, IsBack
  <2>4. PICK t \in new : /\ t.forward /\ t.source = in.target /\ t.target = out.target
                         /\ t.distance < e.distance
    BY <1>5, <2>2, <2>3
  <2>5. PICK g \in C : SameArc(g, t) /\ g.forward
    BY <1>4, <2>4
  <2> QED
    BY <2>3, <2>4, <2>5 DEF SameArc
<1>7. ASSUME e.backward, i.target = e.target, o.target = e.source
      PROVE  \E g \in C : /\ g.backward /\ g.source = e.source /\ g.target = e.target
                          /\ g.distance < e.distance
  <2>1. PICK f \in new : SameArc(e, f) /\ f.backward
    BY <1>4, <1>7 DEF C
  <2>2. PICK in \in InEdges(node), out \in OutEdges(node) :
          Needed(node, in, out) /\ (IsThere(f, in, out) \/ IsBack(f, in, out))
    BY <1>1
  <2>3. /\ i.target = in.target /\ o.target = out.target /\ e.distance = in.distance + out.distance
        /\ e.target = in.target /\ e.source = out.target
    BY <1>7, <2>1, <2>2 DEF SameArc, IsThere, IsBack
  <2>4. PICK b \in new : /\ b.backward /\ b.source = out.target /\ b.target = in.target
                         /\ b.distance < e.distance
    BY <1>5, <2>2, <2>3
  <2>5. PICK g \in C : SameArc(g, b) /\ g.backward
    BY <1>4, <2>4
  <2> QED
    BY <2>3, <2>4, <2>5 DEF SameArc
<1> QED
  BY <1>6, <1>7 DEF C

\* Edges E, in original names, lead forwards (backwards) from s to t with distance d.
Leads(E, s, t, d) == \E e \in E : e.source = s /\ e.target = t /\ e.forward /\ e.distance = d
Led(E, s, t, d) == \E e \in E : e.source = s /\ e.target = t /\ e.backward /\ e.distance = d

\* They lead from s to t by way of m, with both halves kept at m.
HasWay(E, m, s, t, d) == \E i, j \in Nat : Led(E, m, s, i) /\ Leads(E, m, t, j) /\ i + j = d

\* The way through the via node of e is as long as e; one that is shorter has an edge that is
\* shorter than e.
Resolves(E, e) ==
    /\ e.forward =>
         /\ HasWay(E, e.id, e.source, e.target, e.distance)
         /\ \A d \in Nat : HasWay(E, e.id, e.source, e.target, d) /\ d < e.distance =>
              \E k \in Nat : k < e.distance /\ Leads(E, e.source, e.target, k)
    /\ e.backward =>
         /\ HasWay(E, e.id, e.target, e.source, e.distance)
         /\ \A d \in Nat : HasWay(E, e.id, e.target, e.source, d) /\ d < e.distance =>
              \E k \in Nat : k < e.distance /\ Led(E, e.source, e.target, k)

\* The edges between two nodes are kept at one end once one of them is contracted; the via
\* node of a shortcut is contracted, and resolves it.  L stands for the nodes that remain.
Vias(E, L) ==
    /\ \A e, f \in E : f.source = e.target /\ f.target = e.source => e.source \in L
    /\ \A e \in E : e.shortcut => e.id \notin L /\ Resolves(E, e)

\* The original names of the nodes that remain.
LiveNames(map, live) == {Name(map, u) : u \in live}

\* What a round does to the edges E of the nodes of L, in original names: F are its edges and
\* M the nodes that remain.  Edges at contracted nodes are frozen, the others may only be
\* replaced by better ones, and new shortcuts join nodes of M and resolve.
Advance(E, F, L, M) ==
    /\ M \subseteq L
    /\ \A x \in F : x \in E \/ (x.source \in M /\ x.target \in M /\ x.id \notin M /\ Resolves(F, x))
    /\ \A x \in F : x.source \in L => x.target \in M
    /\ \A x \in E : x.source \notin M => x \in F
    /\ \A x \in E : x.source \in M /\ x.target \in M => \E y \in F : Better(y, x)

\* The ways through a contracted node are frozen.
LEMMA FrozenWays ==
    ASSUME NEW E, NEW F, NEW L, NEW M, Advance(E, F, L, M), NEW m, m \notin M, NEW s, NEW t, NEW d
    PROVE  HasWay(E, m, s, t, d) <=> HasWay(F, m, s, t, d)
<1>1. \A x : x.source = m => (x \in E <=> x \in F)
  BY DEF Advance
<1>2. \A n, k : (Led(E, m, n, k) <=> Led(F, m, n, k)) /\ (Leads(E, m, n, k) <=> Leads(F, m, n, k))
  BY <1>1 DEF Led, Leads
<1> QED
  BY <1>2 DEF HasWay

\* Old edges stay or find a better one.
LEMMA LeadsStill ==
    ASSUME NEW E, NEW F, NEW L, NEW M, Advance(E, F, L, M), F \subseteq EdgeRecords,
           NEW s, NEW t, s \in M => t \in M, NEW k \in Nat
    PROVE  /\ Leads(E, s, t, k) => \E l \in Nat : l <= k /\ Leads(F, s, t, l)
           /\ Led(E, s, t, k) => \E l \in Nat : l <= k /\ Led(F, s, t, l)
<1>1. ASSUME NEW x \in E, x.source = s, x.target = t, x.distance = k
      PROVE  \E y \in F : /\ y.source = s /\ y.target = t /\ y.distance \in Nat /\ y.distance <= k
                          /\ x.forward => y.forward
                          /\ x.backward => y.backward
  <2>1. CASE s \in M
    <3>1. PICK y \in F : Better(y, x)
      BY <1>1, <2>1 DEF Advance
    <3>2. y.distance \in Nat
      BY DEF EdgeRecords
    <3> QED
      BY <1>1, <3>1, <3>2 DEF Better
  <2>2. CASE s \notin M
    <3>1. x \in F
      BY <1>1, <2>2 DEF Advance
    <3>2. k <= k
      OBVIOUS
    <3> QED
      BY <1>1, <3>1, <3>2
  <2> QED
    BY <2>1, <2>2
<1> QED
  BY <1>1 DEF Leads, Led

\* So an old shortcut still resolves.
LEMMA ResolvesStill ==
    ASSUME NEW E, NEW F, NEW L, NEW M, Advance(E, F, L, M), F \subseteq EdgeRecords,
           NEW x \in F, x.id \notin L, Resolves(E, x)
    PROVE  Resolves(F, x)
<1>1. M \subseteq L /\ x.id \notin M /\ (x.source \in M => x.target \in M) /\ x.distance \in Nat
  BY DEF Advance, EdgeRecords
<1>2. \A s, t, d : HasWay(E, x.id, s, t, d) <=> HasWay(F, x.id, s, t, d)
  BY <1>1, FrozenWays
<1>3. \A k \in Nat :
        /\ Leads(E, x.source, x.target, k) => \E l \in Nat : l <= k /\ Leads(F, x.source, x.target, l)
        /\ Led(E, x.source, x.target, k) => \E l \in Nat : l <= k /\ Led(F, x.source, x.target, l)
  BY <1>1, LeadsStill
<1>4. /\ (\E k \in Nat : k < x.distance /\ Leads(E, x.source, x.target, k)) =>
           \E k \in Nat : k < x.distance /\ Leads(F, x.source, x.target, k)
      /\ (\E k \in Nat : k < x.distance /\ Led(E, x.source, x.target, k)) =>
           \E k \in Nat : k < x.distance /\ Led(F, x.source, x.target, k)
  <2>1. \A k, l \in Nat : k < x.distance /\ l <= k => l < x.distance
    BY <1>1
  <2> QED
    BY <1>3, <2>1
<1> QED
  BY <1>2, <1>4, Zenon DEF Resolves

\* A round keeps the via nodes.
LEMMA AdvanceVias ==
    ASSUME NEW E, NEW F, NEW L, NEW M, Advance(E, F, L, M), F \subseteq EdgeRecords, Vias(E, L)
    PROVE  Vias(F, M)
<1>1. ASSUME NEW e \in F, NEW f \in F, f.source = e.target, f.target = e.source
      PROVE  e.source \in M
  <2>1. CASE e \in E /\ f \in E
    <3>1. f.source \in L
      BY <1>1, <2>1 DEF Vias
    <3> QED
      BY <1>1, <3>1 DEF Advance
  <2>2. CASE e \notin E \/ f \notin E
    BY <1>1, <2>2 DEF Advance
  <2> QED
    BY <2>1, <2>2
<1>2. ASSUME NEW e \in F, e.shortcut
      PROVE  e.id \notin M /\ Resolves(F, e)
  <2>1. CASE e \in E
    <3>1. e.id \notin L /\ Resolves(E, e)
      BY <1>2, <2>1 DEF Vias
    <3> QED
      BY <3>1, ResolvesStill DEF Advance
  <2>2. CASE e \notin E
    BY <2>2 DEF Advance
  <2> QED
    BY <2>1, <2>2
<1> QED
  BY <1>1, <1>2 DEF Vias

\* A round of a graph whose edges set aside belong to contracted nodes.
NamedRound(ext, map, cur, live, I, H) ==
    /\ Round(live, I, H) /\ Numbered(contractor_graph, live, map, cur)
    /\ \A e \in ext : e.source \notin LiveNames(map, live)

\* The fields of the edges of the round, in original names.
LEMMA RoundNames ==
    ASSUME NEW ext, NEW map, NEW cur, NEW live, NEW I, NEW H, NamedRound(ext, map, cur, live, I, H)
    PROVE  \A g : g \in contractor_graph \/ g \in H =>
             /\ g.source \in cur /\ g.target \in cur /\ g.distance \in Nat
             /\ Renamed(map, g) \in EdgeRecords
             /\ Renamed(map, g).source = Name(map, g.source)
             /\ Renamed(map, g).target = Name(map, g.target)
             /\ Renamed(map, g).distance = g.distance
             /\ Renamed(map, g).forward <=> g.forward
             /\ Renamed(map, g).backward <=> g.backward
<1>1. /\ GoodEdges(contractor_graph) /\ Numbered(contractor_graph, live, map, cur)
      /\ GoodEdges(H) /\ Numbered(H, live \ I, map, cur)
  BY RoundEdges, RoundNumbered DEF NamedRound, Round, Ready
<1>2. ASSUME NEW g, g \in contractor_graph
      PROVE  /\ Renamed(map, g) \in EdgeRecords
             /\ Renamed(map, g).source = Name(map, g.source)
             /\ Renamed(map, g).target = Name(map, g.target)
             /\ Renamed(map, g).distance = g.distance
             /\ Renamed(map, g).forward <=> g.forward
             /\ Renamed(map, g).backward <=> g.backward
  BY <1>1, <1>2, RenamedEdges
<1>3. ASSUME NEW g, g \in H
      PROVE  /\ Renamed(map, g) \in EdgeRecords
             /\ Renamed(map, g).source = Name(map, g.source)
             /\ Renamed(map, g).target = Name(map, g.target)
             /\ Renamed(map, g).distance = g.distance
             /\ Renamed(map, g).forward <=> g.forward
             /\ Renamed(map, g).backward <=> g.backward
  BY <1>1, <1>3, RenamedEdges
<1>4. \A g : g \in contractor_graph \/ g \in H =>
         g.source \in cur /\ g.target \in cur /\ g.distance \in Nat
  BY <1>1, EdgeFields DEF Numbered
<1> QED
  BY <1>2, <1>3, <1>4

\* The edges kept at a node that the round contracts are those it had.
LEMMA RoundWays ==
    ASSUME NEW ext, NEW map, NEW cur, NEW live, NEW I, NEW H, NamedRound(ext, map, cur, live, I, H),
           NEW u \in I, NEW n, NEW d
    PROVE  /\ Led(Finished(ext, H, map), Name(map, u), n, d) <=>
                \E in \in InEdges(u) : Name(map, in.target) = n /\ in.distance = d
           /\ Leads(Finished(ext, H, map), Name(map, u), n, d) <=>
                \E out \in OutEdges(u) : Name(map, out.target) = n /\ out.distance = d
<1> DEFINE F == Finished(ext, H, map)
<1>1. /\ Round(live, I, H) /\ I \subseteq live /\ live \subseteq cur /\ u \in cur
      /\ \A v \in cur : Name(map, v) = Name(map, u) => v = u
  BY DEF NamedRound, Round, Numbered
<1>2. \A e \in ext : e.source # Name(map, u)
  BY <1>1 DEF NamedRound, LiveNames
<1>3. \A g : g.source = u => (g \in contractor_graph <=> g \in H)
  BY <1>1, RoundEdges, ShortcutEnds
<1>4. \A x \in F : x.source = Name(map, u) => \E g \in H : g.source = u /\ x = Renamed(map, g)
  BY <1>1, <1>2, RoundNames DEF Finished
<1>5. \A g \in H : Renamed(map, g) \in F
  BY DEF Finished
<1>6. /\ \A g : g \in InEdges(u) <=> g \in H /\ g.source = u /\ g.backward
      /\ \A g : g \in OutEdges(u) <=> g \in H /\ g.source = u /\ g.forward
  BY <1>3 DEF InEdges, OutEdges, Adjacent
<1>7. \A g \in H : /\ Renamed(map, g).source = Name(map, g.source)
                   /\ Renamed(map, g).target = Name(map, g.target)
                   /\ Renamed(map, g).distance = g.distance
                   /\ Renamed(map, g).forward <=> g.forward
                   /\ Renamed(map, g).backward <=> g.backward
  BY RoundNames
<1> HIDE DEF F
<1>8. Led(F, Name(map, u), n, d) <=> \E in \in InEdges(u) : Name(map, in.target) = n /\ in.distance = d
  BY <1>4, <1>5, <1>6, <1>7 DEF Led
<1>9. Leads(F, Name(map, u), n, d) <=> \E out \in OutEdges(u) : Name(map, out.target) = n /\ out.distance = d
  BY <1>4, <1>5, <1>6, <1>7 DEF Leads
<1> QED
  BY <1>8, <1>9 DEF F

\* A new shortcut is as long as the way through the contracted node; if that has a shorter way,
\* the round has a shorter shortcut.
LEMMA NewResolves ==
    ASSUME NEW ext, NEW map, NEW cur, NEW live, NEW I, NEW H, NamedRound(ext, map, cur, live, I, H),
           NEW u \in I, NEW g \in ContractNode(u), g \in H
    PROVE  Renamed(map, g).id = Name(map, u) /\ Resolves(Finished(ext, H, map), Renamed(map, g))
<1> DEFINE F == Finished(ext, H, map)
           m == Name(map, u)
           s == Name(map, g.source)
           t == Name(map, g.target)
           x == Renamed(map, g)
<1>1. /\ Round(live, I, H) /\ Ready(contractor_graph, live) /\ u \in live
      /\ \A v, w \in cur : Name(map, v) = Name(map, w) => v = w
  BY DEF NamedRound, Round, Numbered
<1>2. /\ g.source \in cur /\ g.target \in cur /\ g.distance \in Nat
      /\ x.source = s /\ x.target = t /\ x.distance = g.distance
      /\ x.forward <=> g.forward
      /\ x.backward <=> g.backward
  BY RoundNames
<1>3. x.id = m
  <2>1. g.id = u /\ ~g.is_original_via_node_ID
    BY ShortcutIds
  <2>2. g \in EdgeRecords
    BY <1>1, Shortcuts DEF GoodEdges
  <2> DEFINE a == Name(map, g.source)
             b == Name(map, g.target)
             c == IF g.is_original_via_node_ID THEN g.id ELSE Name(map, g.id)
  <2>3. c = m
    BY <2>1
  <2>4. x = [g EXCEPT !.source = a, !.target = b, !.id = c]
    BY DEF Renamed
  <2> HIDE DEF a, b, c, m, x
  <2> QED
    BY <2>2, <2>3, <2>4 DEF EdgeRecords
<1>4. \A n, d : /\ Led(F, m, n, d) <=> \E in \in InEdges(u) : Name(map, in.target) = n /\ in.distance = d
                /\ Leads(F, m, n, d) <=> \E out \in OutEdges(u) : Name(map, out.target) = n /\ out.distance = d
  BY RoundWays
<1>5. /\ \A in \in InEdges(u) : in.target \in cur /\ in.distance \in Nat
      /\ \A out \in OutEdges(u) : out.target \in cur /\ out.distance \in Nat
  BY <1>1, InOutEdges DEF NamedRound, Numbered
<1>6. ASSUME NEW n, NEW p, NEW d, HasWay(F, m, n, p, d)
      PROVE  \E in \in InEdges(u), out \in OutEdges(u) :
               Name(map, in.target) = n /\ Name(map, out.target) = p /\ in.distance + out.distance = d
  <2> HIDE DEF F, m
  <2> QED
    BY <1>4, <1>6 DEF HasWay
<1>7. ASSUME NEW in \in InEdges(u), NEW out \in OutEdges(u)
      PROVE  HasWay(F, m, Name(map, in.target), Name(map, out.target), in.distance + out.distance)
  <2> HIDE DEF F, m
  <2>1. Led(F, m, Name(map, in.target), in.distance) /\ Leads(F, m, Name(map, out.target), out.distance)
    BY <1>4
  <2> QED
    BY <1>5, <2>1 DEF HasWay
<1>8. ASSUME NEW f \in ContractNode(u), f.source = g.source, f.target = g.target,
             f.distance < g.distance
      PROVE  /\ f.forward => \E k \in Nat : k < g.distance /\ Leads(F, s, t, k)
             /\ f.backward => \E k \in Nat : k < g.distance /\ Led(F, s, t, k)
  <2>1. PICK h \in H : Better(h, f)
    BY <1>1, RoundEdges
  <2>2. GoodEdges(ContractNode(u)) /\ f.distance \in Nat
    BY <1>1, Shortcuts, EdgeFields
  <2>3. /\ h.distance \in Nat /\ Renamed(map, h).source = Name(map, h.source)
        /\ Renamed(map, h).target = Name(map, h.target) /\ Renamed(map, h).distance = h.distance
        /\ Renamed(map, h).forward <=> h.forward
        /\ Renamed(map, h).backward <=> h.backward
    BY RoundNames
  <2>4. Renamed(map, h) \in F
    BY DEF Finished
  <2>5. h.distance < g.distance /\ h.source = g.source /\ h.target = g.target
    BY <1>2, <1>8, <2>1, <2>2, <2>3 DEF Better
  <2>6. /\ f.forward => Leads(F, s, t, h.distance)
        /\ f.backward => Led(F, s, t, h.distance)
    <3> HIDE DEF F
    <3> QED
      BY <2>1, <2>3, <2>4, <2>5 DEF Leads, Led, Better
  <2> HIDE DEF F, s, t
  <2> QED
    BY <2>3, <2>5, <2>6
<1> HIDE DEF F, m
<1>9. /\ g.forward => LeadsThrough(u, g)
      /\ g.backward => LedThrough(u, g)
  BY <1>1, Shortcuts
<1>10. ASSUME g.forward
       PROVE  /\ HasWay(F, m, s, t, g.distance)
              /\ \A d \in Nat : HasWay(F, m, s, t, d) /\ d < g.distance =>
                   \E k \in Nat : k < g.distance /\ Leads(F, s, t, k)
  <2>1. HasWay(F, m, s, t, g.distance)
    BY <1>7, <1>9, <1>10 DEF LeadsThrough
  <2>2. ASSUME NEW d \in Nat, HasWay(F, m, s, t, d), d < g.distance
        PROVE  \E k \in Nat : k < g.distance /\ Leads(F, s, t, k)
    <3>1. PICK in \in InEdges(u), out \in OutEdges(u) :
            Name(map, in.target) = s /\ Name(map, out.target) = t /\ in.distance + out.distance = d
      BY <1>6, <2>2
    <3>2. in.target = g.source /\ out.target = g.target /\ in.distance + out.distance < g.distance
      BY <1>1, <1>2, <1>5, <2>2, <3>1
    <3>3. PICK f \in ContractNode(u) : /\ f.forward /\ f.source = g.source /\ f.target = g.target
                                       /\ f.distance < g.distance
      BY <1>1, <1>10, <3>2, ShortcutVia
    <3> HIDE DEF s, t
    <3> QED
      BY <1>8, <3>3
  <2> QED
    BY <2>1, <2>2
<1>11. ASSUME g.backward
       PROVE  /\ HasWay(F, m, t, s, g.distance)
              /\ \A d \in Nat : HasWay(F, m, t, s, d) /\ d < g.distance =>
                   \E k \in Nat : k < g.distance /\ Led(F, s, t, k)
  <2>1. HasWay(F, m, t, s, g.distance)
    BY <1>7, <1>9, <1>11 DEF LedThrough
  <2>2. ASSUME NEW d \in Nat, HasWay(F, m, t, s, d), d < g.distance
        PROVE  \E k \in Nat : k < g.distance /\ Led(F, s, t, k)
    <3>1. PICK in \in InEdges(u), out \in OutEdges(u) :
            Name(map, in.target) = t /\ Name(map, out.target) = s /\ in.distance + out.distance = d
      BY <1>6, <2>2
    <3>2. in.target = g.target /\ out.target = g.source /\ in.distance + out.distance < g.distance
      BY <1>1, <1>2, <1>5, <2>2, <3>1
    <3>3. PICK f \in ContractNode(u) : /\ f.backward /\ f.source = g.source /\ f.target = g.target
                                       /\ f.distance < g.distance
      BY <1>1, <1>11, <3>2, ShortcutVia
    <3> HIDE DEF s, t
    <3> QED
      BY <1>8, <3>3
  <2> QED
    BY <2>1, <2>2
<1>12. Resolves(F, x)
  <2> HIDE DEF s, t, x
  <2> QED
    BY <1>2, <1>3, <1>10, <1>11 DEF Resolves
<1> QED
  BY <1>3, <1>12 DEF F, m

\* A round is an advance.
LEMMA RoundAdvances ==
    ASSUME NEW ext, NEW map, NEW cur, NEW live, NEW I, NEW H, NamedRound(ext, map, cur, live, I, H)
    PROVE  Advance(Finished(ext, contractor_graph, map), Finished(ext, H, map),
                   LiveNames(map, live), LiveNames(map, live \ I))
<1> DEFINE G == contractor_graph
           E == Finished(ext, G, map)
           F == Finished(ext, H, map)
           L == LiveNames(map, live)
           M == LiveNames(map, live \ I)
<1>1. /\ Round(live, I, H) /\ Ready(G, live) /\ I \subseteq live
      /\ Numbered(G, live, map, cur) /\ live \subseteq cur
      /\ \A e \in ext : e.source \notin L
  BY DEF NamedRound, Round, Numbered
<1>2. /\ \A e \in H : \/ e \in G /\ (e.source \in live => e.target \notin I)
                      \/ \E u \in I : e \in ContractNode(u)
      /\ \A e \in G : e.source \in live /\ e.target \notin I => \E h \in H : Better(h, e)
      /\ \A e \in G : e.source \notin live \ I => e \in H
  BY <1>1, RoundEdges
<1>3. \A u \in I : \A e \in ContractNode(u) : e.source \in live \ I /\ e.target \in live \ I
  BY <1>1, ShortcutEnds
<1>4. /\ M \subseteq L
      /\ \A u \in cur : /\ Name(map, u) \in L <=> u \in live
                        /\ Name(map, u) \in M <=> u \in live \ I
  <2>1. I \subseteq live
    BY <1>1
  <2>2. \A u, v \in cur : Name(map, u) = Name(map, v) => u = v
    BY <1>1 DEF Numbered
  <2> QED
    BY <1>1, <2>1, <2>2 DEF LiveNames
<1>5. /\ \A x : x \in E <=> x \in ext \/ \E g \in G : x = Renamed(map, g)
      /\ \A x : x \in F <=> x \in ext \/ \E g \in H : x = Renamed(map, g)
  BY DEF Finished
<1>6. \A g : g \in G \/ g \in H =>
             /\ g.source \in cur /\ g.target \in cur
             /\ Renamed(map, g).source = Name(map, g.source)
             /\ Renamed(map, g).target = Name(map, g.target)
             /\ Renamed(map, g).distance = g.distance
             /\ Renamed(map, g).forward <=> g.forward
             /\ Renamed(map, g).backward <=> g.backward
  BY RoundNames
<1>7. \A u \in I : \A g \in ContractNode(u) : g \in H =>
         Renamed(map, g).id = Name(map, u) /\ Resolves(F, Renamed(map, g))
  BY NewResolves
<1> HIDE DEF E, F, L, M
<1>8. ASSUME NEW x \in F, x \notin E
      PROVE  x.source \in M /\ x.target \in M /\ x.id \notin M /\ Resolves(F, x)
  <2>1. PICK g \in H : x = Renamed(map, g)
    BY <1>5, <1>8
  <2>2. PICK u \in I : g \in ContractNode(u)
    BY <1>2, <1>5, <1>8, <2>1
  <2>3. u \in cur /\ u \notin live \ I
    BY <1>1
  <2>4. x.id \notin M /\ Resolves(F, x)
    BY <1>4, <1>7, <2>1, <2>2, <2>3
  <2>5. g.source \in live \ I /\ g.target \in live \ I
    BY <1>3, <2>2
  <2> QED
    BY <1>4, <1>6, <2>1, <2>4, <2>5
<1>9. ASSUME NEW x \in F, x.source \in L PROVE x.target \in M
  <2>1. PICK g \in H : x = Renamed(map, g)
    BY <1>1, <1>5, <1>9
  <2>2. g.source \in live
    BY <1>4, <1>6, <1>9, <2>1
  <2>3. g.target \in live \ I
    BY <1>1, <1>2, <1>3, <2>2 DEF Ready
  <2> QED
    BY <1>4, <1>6, <2>1, <2>3
<1>10. ASSUME NEW x \in E, x.source \notin M PROVE x \in F
  BY <1>2, <1>4, <1>5, <1>6, <1>10
<1>11. ASSUME NEW x \in E, x.source \in M, x.target \in M PROVE \E y \in F : Better(y, x)
  <2>1. PICK g \in G : x = Renamed(map, g)
    BY <1>1, <1>4, <1>5, <1>11
  <2>2. g.source \in live /\ g.target \notin I
    BY <1>4, <1>6, <1>11, <2>1
  <2>3. PICK h \in H : Better(h, g)
    BY <1>2, <2>2
  <2>4. Better(Renamed(map, h), Renamed(map, g))
    BY <1>6, <2>3 DEF Better
  <2> QED
    BY <1>5, <2>1, <2>4
<1> QED
  BY <1>4, <1>8, <1>9, <1>10, <1>11 DEF Advance, E, F, L, M

\* Edges that differ at most in whether the name of the via node is an original one.
Alike(x, y) ==
    /\ x.source = y.source /\ x.target = y.target /\ x.distance = y.distance /\ x.id = y.id
    /\ x.shortcut <=> y.shortcut
    /\ x.forward <=> y.forward
    /\ x.backward <=> y.backward

\* Via nodes do not depend on it.
LEMMA AlikeVias ==
    ASSUME NEW E, NEW F, NEW L, \A x \in E : \E y \in F : Alike(x, y),
           \A y \in F : \E x \in E : Alike(x, y), Vias(E, L)
    PROVE  Vias(F, L)
<1>1. \A s, t, d : (Leads(E, s, t, d) <=> Leads(F, s, t, d)) /\ (Led(E, s, t, d) <=> Led(F, s, t, d))
  BY DEF Alike, Leads, Led
<1>2. \A m, s, t, d : HasWay(E, m, s, t, d) <=> HasWay(F, m, s, t, d)
  BY <1>1 DEF HasWay
<1>3. ASSUME NEW x \in E, NEW y \in F, Alike(x, y), Resolves(E, x)
      PROVE  Resolves(F, y)
  <2>1. /\ x.source = y.source /\ x.target = y.target /\ x.distance = y.distance /\ x.id = y.id
        /\ x.forward <=> y.forward
        /\ x.backward <=> y.backward
    BY <1>3 DEF Alike
  <2>2. Resolves(E, y)
    BY <1>3, <2>1, Zenon DEF Resolves
  <2> QED
    BY <1>1, <1>2, <2>2, Zenon DEF Resolves
<1>4. ASSUME NEW e \in F, NEW f \in F, f.source = e.target, f.target = e.source
      PROVE  e.source \in L
  <2>1. PICK x \in E : Alike(x, e)
    OBVIOUS
  <2>2. PICK y \in E : Alike(y, f)
    OBVIOUS
  <2> QED
    BY <1>4, <2>1, <2>2 DEF Vias, Alike
<1>5. ASSUME NEW e \in F, e.shortcut PROVE e.id \notin L /\ Resolves(F, e)
  <2>1. PICK x \in E : Alike(x, e)
    OBVIOUS
  <2>2. x.shortcut /\ x.id = e.id
    BY <1>5, <2>1 DEF Alike
  <2>3. x.id \notin L /\ Resolves(E, x)
    BY <2>2 DEF Vias
  <2> QED
    BY <1>3, <2>1, <2>2, <2>3
<1> QED
  BY <1>4, <1>5 DEF Vias

\* Before the flush, names are as they are.
LEMMA UnnamedAlike ==
    ASSUME NEW e \in EdgeRecords
    PROVE  Alike(Renamed(<<>>, e), e)
<1> DEFINE s == Name(<<>>, e.source)
           t == Name(<<>>, e.target)
           d == IF e.is_original_via_node_ID THEN e.id ELSE Name(<<>>, e.id)
<1>1. s = e.source /\ t = e.target /\ d = e.id
  BY DEF Name
<1>2. Renamed(<<>>, e) = [e EXCEPT !.source = s, !.target = t, !.id = d]
  BY DEF Renamed
<1> HIDE DEF s, t, d
<1> QED
  BY <1>1, <1>2 DEF Alike, EdgeRecords

\* The flush keeps the original names of nodes and of via nodes.
LEMMA MovedAlike ==
    ASSUME NEW seq, Distinct(seq), NEW e \in EdgeRecords,
           e.source \in Elements(seq), e.target \in Elements(seq)
    PROVE  Alike(Renamed(seq, Moved(seq, e)), e)
<1> DEFINE s == NewId(seq, e.source)
           t == NewId(seq, e.target)
           g == Moved(seq, e)
           p == Name(seq, g.source)
           q == Name(seq, g.target)
           d == IF g.is_original_via_node_ID THEN g.id ELSE Name(seq, g.id)
           r == Renamed(seq, g)
<1>1. Name(seq, s) = e.source /\ Name(seq, t) = e.target /\ s \in NodeIDs /\ t \in NodeIDs
  BY NewIdIs
<1>2. g = [e EXCEPT !.source = s, !.target = t, !.is_original_via_node_ID = TRUE]
  BY DEF Moved
<1>3. r = [g EXCEPT !.source = p, !.target = q, !.id = d]
  BY DEF Renamed
<1> HIDE DEF s, t, g, p, q, d, r
<1>4. /\ g \in EdgeRecords /\ g.source = s /\ g.target = t /\ g.distance = e.distance /\ g.id = e.id
      /\ g.is_original_via_node_ID
      /\ g.shortcut <=> e.shortcut
      /\ g.forward <=> e.forward
      /\ g.backward <=> e.backward
  BY <1>1, <1>2 DEF EdgeRecords
<1>5. p = e.source /\ q = e.target /\ d = e.id
  BY <1>1, <1>4 DEF p, q, d
<1>6. /\ r.source = p /\ r.target = q /\ r.distance = g.distance /\ r.id = d
      /\ r.shortcut <=> g.shortcut
      /\ r.forward <=> g.forward
      /\ r.backward <=> g.backward
  BY <1>3, <1>4 DEF EdgeRecords
<1> QED
  BY <1>4, <1>5, <1>6 DEF Alike, r, g

\* The flush keeps the via nodes.
LEMMA FlushVias ==
    ASSUME NEW G, NEW seq, NEW L, Distinct(seq), Ready(G, Elements(seq)), Vias(Finished({}, G, <<>>), L)
    PROVE  Vias(Finished({e \in G : e.source \notin Elements(seq)}, MovedGraph(G, seq), seq), L)
<1> DEFINE live == Elements(seq)
           ext == {e \in G : e.source \notin live}
           E == Finished({}, G, <<>>)
           F == Finished(ext, MovedGraph(G, seq), seq)
<1>1. \A e \in G : e \in EdgeRecords /\ (e.source \in live => e.target \in live)
  BY DEF Ready, GoodEdges
<1>2. \A e \in G : Alike(Renamed(<<>>, e), e)
  BY <1>1, UnnamedAlike
<1>3. \A e \in G : e.source \in live => Alike(Renamed(seq, Moved(seq, e)), e)
  BY <1>1, MovedAlike
<1>4. /\ \A x : x \in E <=> \E e \in G : x = Renamed(<<>>, e)
      /\ \A y : y \in F <=> \/ y \in G /\ y.source \notin live
                            \/ \E e \in G : e.source \in live /\ y = Renamed(seq, Moved(seq, e))
  BY DEF Finished, MovedGraph
<1> HIDE DEF live, E, F
<1>5. \A x, y, e : Alike(x, e) /\ Alike(y, e) => Alike(x, y)
  BY DEF Alike
<1>6. \A e : Alike(e, e)
  BY DEF Alike
<1>7. ASSUME NEW e \in G
      PROVE  \E y \in F : Alike(y, e)
  BY <1>3, <1>4, <1>6
<1>8. ASSUME NEW y \in F
      PROVE  \E e \in G : Alike(y, e)
  BY <1>3, <1>4, <1>6
<1>9. \A x \in E : \E y \in F : Alike(x, y)
  BY <1>2, <1>4, <1>5, <1>7
<1>10. \A y \in F : \E x \in E : Alike(x, y)
  BY <1>2, <1>4, <1>5, <1>8
<1>11. Vias(E, L)
  BY DEF E
<1>12. Vias(F, L)
  BY <1>9, <1>10, <1>11, AlikeVias
<1> QED
  BY <1>12 DEF F, live

\* The edges of the input graph are no shortcuts.
LEMMA InitialPlain ==
    ASSUME NEW input, NEW e \in InitialGraph(input)
    PROVE  ~e.shortcut
<1>1. \E s, t, w, x, y : e = Edge(s, t, w, 0, FALSE, x, y)
  <2>1. PICK s, t : e \in MergedEdges(input, s, t)
    BY DEF InitialGraph
  <2> QED
    BY <2>1 DEF MergedEdges
<1> QED
  BY <1>1 DEF Edge

\* They have no via nodes.
LEMMA InitialVias ==
    ASSUME input_edge_list \in Inputs
    PROVE  Vias(Finished({}, InitialGraph(input_edge_list), <<>>), NodeIDs)
<1> DEFINE G == InitialGraph(input_edge_list)
           E == Finished({}, G, <<>>)
<1>1. \A e \in G : e \in EdgeRecords /\ e.source \in NodeIDs
  BY InitialReady DEF Ready, GoodEdges, EdgeRecords
<1>2. ASSUME NEW x \in E PROVE x.source \in NodeIDs /\ ~x.shortcut
  <2>1. PICK e \in G : x = Renamed(<<>>, e)
    BY DEF Finished
  <2>2. Alike(x, e)
    BY <1>1, <2>1, UnnamedAlike
  <2> QED
    BY <1>1, <2>2, InitialPlain DEF Alike
<1> HIDE DEF E
<1>3. Vias(E, NodeIDs)
  BY <1>2 DEF Vias
<1> QED
  BY <1>3 DEF E

-----------------------------------------------------------------------------
(* The inductive invariant *)

\* The node ids in use: all of them, after the flush as many as remained.
CurrentIds ==
    IF flushed_contractor THEN NewIds(orig_node_id_to_new_id_map) ELSE NodeIDs

\* Until the hierarchy is built, what contraction keeps holds of the graph and the edges
\* set aside; from then on the edges answer every query.
Contraction ==
    /\ input_edge_list \in Inputs /\ flushed_contractor \in BOOLEAN /\ built \in BOOLEAN
    /\ Distinct(remaining_nodes) /\ Distinct(orig_node_id_to_new_id_map)
    /\ number_of_contracted_nodes = number_of_nodes - Len(remaining_nodes)
    /\ ~flushed_contractor => orig_node_id_to_new_id_map = <<>> /\ external_edge_list = {}
    /\ ~built => /\ edges = {}
                 /\ Contracted(InputArcs, external_edge_list, contractor_graph,
                               Elements(remaining_nodes), orig_node_id_to_new_id_map, CurrentIds)
    /\ built => /\ contractor_graph = {} /\ external_edge_list = {}
                /\ orig_node_id_to_new_id_map = <<>> /\ Exact(InputArcs, edges)

\* A list of different nodes has as many nodes as it is long.
LEMMA DistinctCount ==
    ASSUME NEW seq, Distinct(seq)
    PROVE  IsFiniteSet(Elements(seq)) /\ Cardinality(Elements(seq)) = Len(seq)
<1>1. Len(seq) \in Nat /\ \A i, j \in 1 .. Len(seq) : seq[i] = seq[j] => i = j
  BY DEF Distinct
<1> DEFINE f == [i \in 1 .. Len(seq) |-> seq[i]]
<1>2. f \in Bijection(1 .. Len(seq), Elements(seq))
  BY <1>1 DEF Bijection, Injection, Surjection, IsInjective, Elements
<1>3. ExistsBijection(1 .. Len(seq), Elements(seq))
  BY <1>2 DEF ExistsBijection
<1>4. IsFiniteSet(1 .. Len(seq))
  BY <1>1, FS_Interval
<1> QED
  BY <1>1, <1>3, <1>4, FS_Bijection, FS_CountingElements

\* The numbers of a list of nodes, in their order.
LEMMA CountedNodes ==
    ASSUME NEW n \in 0 .. number_of_nodes
    PROVE  LET seq == [i \in 1 .. n |-> i - 1]
           IN  Distinct(seq) /\ Len(seq) = n /\ Elements(seq) = 0 .. n - 1
<1> DEFINE seq == [i \in 1 .. n |-> i - 1]
<1>1. number_of_nodes \in Nat /\ n \in Nat /\ n <= number_of_nodes
  BY ContractorAssumption
<1>2. \A i \in 1 .. n : i - 1 \in NodeIDs
  BY <1>1 DEF NodeIDs
<1>3. seq \in Seq(NodeIDs) /\ Len(seq) = n /\ \A i \in 1 .. n : seq[i] = i - 1
  BY <1>1, <1>2
<1> HIDE DEF seq
<1>4. Elements(seq) = 0 .. n - 1
  <2>1. \A i \in 1 .. n : seq[i] \in 0 .. n - 1
    BY <1>1, <1>3
  <2>2. \A j \in 0 .. n - 1 : j + 1 \in 1 .. n /\ seq[j + 1] = j
    BY <1>1, <1>3
  <2> QED
    BY <1>3, <2>1, <2>2 DEF Elements
<1>5. Distinct(seq)
  BY <1>1, <1>3 DEF Distinct
<1> QED
  BY <1>3, <1>4, <1>5 DEF seq

\* The constructor establishes the invariant.
LEMMA InitContraction == Init => Contraction
<1> SUFFICES ASSUME Init PROVE Contraction
  OBVIOUS
<1>1. number_of_nodes \in 0 .. number_of_nodes /\ number_of_nodes \in Nat
  BY ContractorAssumption
<1>2. Distinct(remaining_nodes) /\ Len(remaining_nodes) = number_of_nodes
      /\ Elements(remaining_nodes) = NodeIDs
  BY <1>1, CountedNodes DEF Init, NodeIDs
<1>3. Contracted(InputArcs, {}, InitialGraph(input_edge_list), NodeIDs, <<>>, NodeIDs)
  BY InitialContracted DEF Init
<1>4. Distinct(<<>>)
  BY <1>1 DEF Distinct
<1>5. number_of_contracted_nodes = number_of_nodes - Len(remaining_nodes)
  BY <1>1, <1>2 DEF Init
<1>6. flushed_contractor \in BOOLEAN /\ built \in BOOLEAN /\ ~flushed_contractor /\ ~built
  BY DEF Init
<1>7. CurrentIds = NodeIDs
  BY <1>6 DEF CurrentIds
<1>8. Contracted(InputArcs, external_edge_list, contractor_graph, Elements(remaining_nodes),
                 orig_node_id_to_new_id_map, CurrentIds)
  BY <1>2, <1>3, <1>7 DEF Init
<1>9. /\ input_edge_list \in Inputs /\ orig_node_id_to_new_id_map = <<>> /\ external_edge_list = {}
      /\ edges = {} /\ Distinct(orig_node_id_to_new_id_map)
  BY <1>4 DEF Init
<1> QED
  BY <1>2, <1>5, <1>6, <1>8, <1>9, Zenon DEF Contraction

\* A round chooses an independent set of the nodes that remain.
LEMMA RoundChosen ==
    ASSUME Contraction, ContractRound
    PROVE  \E I : /\ Round(Elements(remaining_nodes), I, contractor_graph')
                  /\ remaining_nodes' = Without(remaining_nodes, I)
                  /\ number_of_contracted_nodes' = number_of_contracted_nodes + Cardinality(I)
<1> DEFINE live == Elements(remaining_nodes)
<1>1. PICK rank \in Ranks(live), ties \in Ties(live) :
         LET independent == {u \in live : IsNodeIndependent(u, rank, ties)}
             shortcuts == UNION {ContractNode(u) : u \in independent}
         IN  /\ contractor_graph' \in
                  InsertEdges(DeleteIncomingEdges(contractor_graph, independent), shortcuts)
             /\ remaining_nodes' = Without(remaining_nodes, independent)
             /\ number_of_contracted_nodes' =
                  number_of_contracted_nodes + Cardinality(independent)
  BY DEF ContractRound
<1> DEFINE I == {u \in live : IsNodeIndependent(u, rank, ties)}
<1>2. Ready(contractor_graph, live)
  BY DEF Contraction, Contracted, ContractRound, Contracting
<1>3. Independent(contractor_graph, I)
  BY <1>2, RankedIndependent
<1>4. contractor_graph' \in InsertEdges(DeleteIncomingEdges(contractor_graph, I), NewEdges(I))
  BY <1>1 DEF NewEdges
<1>5. I \subseteq live
  OBVIOUS
<1> QED
  BY <1>1, <1>2, <1>3, <1>4, <1>5 DEF Round

\* A round keeps the invariant.
LEMMA RoundContraction ==
    ASSUME Contraction, ContractRound
    PROVE  Contraction'
<1> DEFINE live == Elements(remaining_nodes)
           map == orig_node_id_to_new_id_map
<1>1. PICK I : /\ Round(live, I, contractor_graph')
               /\ remaining_nodes' = Without(remaining_nodes, I)
               /\ number_of_contracted_nodes' = number_of_contracted_nodes + Cardinality(I)
  BY RoundChosen
<1>2. /\ ~built /\ ~built' /\ built' = built /\ input_edge_list' = input_edge_list
      /\ flushed_contractor' = flushed_contractor
      /\ external_edge_list' = external_edge_list
      /\ orig_node_id_to_new_id_map' = orig_node_id_to_new_id_map /\ edges' = edges
  BY DEF ContractRound, Contracting
<1>3. InputArcs' = InputArcs /\ CurrentIds' = CurrentIds
  BY <1>2 DEF InputArcs, CurrentIds
<1>4. Distinct(remaining_nodes) /\ Distinct(map)
  BY DEF Contraction
<1>5. Distinct(remaining_nodes') /\ Elements(remaining_nodes') = live \ I
  BY <1>1, <1>4, WithoutIs
<1>6. Contracted(InputArcs, external_edge_list, contractor_graph', live \ I, map, CurrentIds)
  <2>1. Contracted(InputArcs, external_edge_list, contractor_graph, live, map, CurrentIds)
    BY <1>2 DEF Contraction
  <2> QED
    BY <1>1, <2>1, RoundContracted
<1>7. number_of_contracted_nodes' = number_of_nodes - Len(remaining_nodes')
  <2>1. IsFiniteSet(live) /\ Cardinality(live) = Len(remaining_nodes)
    BY <1>4, DistinctCount
  <2>2. Cardinality(live \ I) = Len(remaining_nodes')
    BY <1>5, DistinctCount
  <2>3. live \cap I = I
    BY <1>1 DEF Round
  <2>0. Cardinality(live \ I) = Cardinality(live) - Cardinality(live \cap I)
    BY <2>1, FS_Difference
  <2>4. Len(remaining_nodes') = Len(remaining_nodes) - Cardinality(I)
    BY <2>0, <2>1, <2>2, <2>3
  <2>5. IsFiniteSet(I)
    BY <1>1, <2>1, FS_Subset DEF Round
  <2>6. Cardinality(I) \in Nat /\ Len(remaining_nodes) \in Nat /\ number_of_nodes \in Nat
    BY <1>4, <2>5, FS_CardinalityType, ContractorAssumption DEF Distinct
  <2>7. number_of_contracted_nodes = number_of_nodes - Len(remaining_nodes)
    BY DEF Contraction
  <2> QED
    BY <1>1, <2>4, <2>6, <2>7
<1>8. /\ Contracted(InputArcs', external_edge_list', contractor_graph', Elements(remaining_nodes'),
                    orig_node_id_to_new_id_map', CurrentIds')
      /\ Distinct(orig_node_id_to_new_id_map')
  BY <1>2, <1>3, <1>4, <1>5, <1>6
<1> QED
  BY <1>2, <1>5, <1>7, <1>8 DEF Contraction

\* The flush keeps it.
LEMMA FlushContraction ==
    ASSUME Contraction, Flush
    PROVE  Contraction'
<1> DEFINE seq == remaining_nodes
           live == Elements(remaining_nodes)
<1>1. /\ ~built /\ ~built' /\ built' = built /\ input_edge_list' = input_edge_list
      /\ ~flushed_contractor /\ flushed_contractor' /\ flushed_contractor' = TRUE /\ edges' = edges
      /\ number_of_contracted_nodes' = number_of_contracted_nodes
      /\ orig_node_id_to_new_id_map' = seq
      /\ remaining_nodes' = [i \in 1 .. Len(seq) |-> i - 1]
      /\ external_edge_list' = {e \in contractor_graph : e.source \notin live}
  BY DEF Flush, Contracting, FlushDue
<1>2. contractor_graph' = MovedGraph(contractor_graph, seq)
  BY DEF Flush, MovedGraph, Moved, NewId
<1>3. Distinct(seq) /\ Contracted(InputArcs, {}, contractor_graph, live, <<>>, NodeIDs)
  BY <1>1 DEF Contraction, CurrentIds
<1>4. Contracted(InputArcs, external_edge_list', contractor_graph', NewIds(seq), seq, NewIds(seq))
  BY <1>1, <1>2, <1>3, FlushContracted
<1>5. Len(seq) \in 0 .. number_of_nodes
  BY <1>3, ContractorAssumption DEF Distinct
<1>6. Distinct(remaining_nodes') /\ Len(remaining_nodes') = Len(seq)
      /\ Elements(remaining_nodes') = NewIds(seq)
  BY <1>1, <1>5, CountedNodes DEF NewIds
<1>7. InputArcs' = InputArcs /\ CurrentIds' = NewIds(seq)
  BY <1>1 DEF InputArcs, CurrentIds
<1> QED
  BY <1>1, <1>3, <1>4, <1>6, <1>7 DEF Contraction

\* So does the end.
LEMMA GetEdgesContraction ==
    ASSUME Contraction, GetEdges
    PROVE  Contraction'
<1> DEFINE map == orig_node_id_to_new_id_map
<1>1. /\ ~built /\ built' /\ built' = TRUE /\ input_edge_list' = input_edge_list
      /\ flushed_contractor' = flushed_contractor /\ remaining_nodes' = remaining_nodes
      /\ number_of_contracted_nodes' = number_of_contracted_nodes
      /\ contractor_graph' = {} /\ external_edge_list' = {} /\ orig_node_id_to_new_id_map' = <<>>
  BY DEF GetEdges
<1>2. edges' = Finished(external_edge_list, contractor_graph, map)
  BY DEF GetEdges, Finished, Renamed, Name, Original
<1>3. Contracted(InputArcs, external_edge_list, contractor_graph, Elements(remaining_nodes), map,
                 CurrentIds)
  BY <1>1 DEF Contraction
<1>4. Exact(InputArcs, edges')
  BY <1>2, <1>3, FinishedExact
<1>5. InputArcs' = InputArcs
  BY <1>1 DEF InputArcs
<1>6. Distinct(<<>>)
  BY ContractorAssumption DEF Distinct
<1> QED
  BY <1>1, <1>4, <1>5, <1>6 DEF Contraction

\* Every step keeps the invariant.
LEMMA NextContraction == Contraction /\ [Next]_vars => Contraction'
<1> SUFFICES ASSUME Contraction, [Next]_vars PROVE Contraction'
  OBVIOUS
<1>1. CASE vars' = vars
  BY <1>1 DEF vars, Contraction, InputArcs, CurrentIds
<1> QED
  BY <1>1, RoundContraction, FlushContraction, GetEdgesContraction DEF Next

\* The invariant of the via nodes.
Resolving ==
    /\ Contraction
    /\ ~built => LET L == LiveNames(orig_node_id_to_new_id_map, Elements(remaining_nodes))
                 IN  /\ \A e \in external_edge_list : e.source \notin L
                     /\ Vias(Finished(external_edge_list, contractor_graph,
                                      orig_node_id_to_new_id_map), L)
    /\ built => \E L : Vias(edges, L)

\* The constructor establishes it.
LEMMA InitResolving == Init => Resolving
<1> SUFFICES ASSUME Init PROVE Resolving
  OBVIOUS
<1>1. Contraction /\ ~built /\ input_edge_list \in Inputs /\ external_edge_list = {}
      /\ contractor_graph = InitialGraph(input_edge_list) /\ orig_node_id_to_new_id_map = <<>>
  BY InitContraction DEF Init
<1>2. number_of_nodes \in 0 .. number_of_nodes
  BY ContractorAssumption
<1>3. Elements(remaining_nodes) = NodeIDs
  BY <1>2, CountedNodes DEF Init, NodeIDs
<1>4. LiveNames(<<>>, NodeIDs) = NodeIDs
  BY DEF LiveNames, Name
<1>5. Vias(Finished({}, InitialGraph(input_edge_list), <<>>), NodeIDs)
  BY <1>1, InitialVias
<1> QED
  BY <1>1, <1>3, <1>4, <1>5 DEF Resolving

\* A round keeps it.
LEMMA RoundResolving ==
    ASSUME Resolving, ContractRound
    PROVE  Resolving'
<1> DEFINE live == Elements(remaining_nodes)
           map == orig_node_id_to_new_id_map
           ext == external_edge_list
           L == LiveNames(map, live)
           E == Finished(ext, contractor_graph, map)
<1>1. Contraction /\ Contraction'
  BY RoundContraction DEF Resolving
<1>2. /\ ~built /\ ~built' /\ external_edge_list' = ext /\ orig_node_id_to_new_id_map' = map
  BY DEF ContractRound, Contracting
<1>3. PICK I : /\ Round(live, I, contractor_graph')
               /\ remaining_nodes' = Without(remaining_nodes, I)
  BY <1>1, RoundChosen
<1>4. Elements(remaining_nodes') = live \ I
  BY <1>1, <1>3, WithoutIs DEF Contraction
<1> DEFINE H == contractor_graph'
           F == Finished(ext, H, map)
           M == LiveNames(map, live \ I)
<1>5. Contracted(InputArcs, ext, contractor_graph, live, map, CurrentIds)
  BY <1>1, <1>2 DEF Contraction
<1>6. (\A e \in ext : e.source \notin L) /\ Vias(E, L)
  BY <1>2 DEF Resolving
<1>7. NamedRound(ext, map, CurrentIds, live, I, H)
  BY <1>3, <1>5, <1>6 DEF NamedRound, Contracted
<1>8. Advance(E, F, L, M)
  BY <1>7, RoundAdvances
<1>9. F \subseteq EdgeRecords
  <2>1. Contracted(InputArcs, ext, H, live \ I, map, CurrentIds)
    BY <1>3, <1>5, RoundContracted
  <2>2. Exact(InputArcs, F)
    BY <2>1, FinishedExact
  <2> QED
    BY <2>2 DEF Exact, GoodEdges
<1> HIDE DEF E, F, L, M
<1>10. Vias(F, M) /\ \A e \in ext : e.source \notin M
  BY <1>6, <1>8, <1>9, AdvanceVias DEF Advance
<1> QED
  BY <1>1, <1>2, <1>4, <1>10 DEF Resolving, F, M

\* The flush keeps it.
LEMMA FlushResolving ==
    ASSUME Resolving, Flush
    PROVE  Resolving'
<1> DEFINE seq == remaining_nodes
           live == Elements(seq)
           G == contractor_graph
           ext == {e \in G : e.source \notin live}
<1>1. Contraction /\ Contraction'
  BY FlushContraction DEF Resolving
<1>2. /\ ~built /\ ~built' /\ ~flushed_contractor
      /\ orig_node_id_to_new_id_map' = seq
      /\ remaining_nodes' = [i \in 1 .. Len(seq) |-> i - 1]
      /\ external_edge_list' = ext
  BY DEF Flush, Contracting, FlushDue
<1>3. contractor_graph' = MovedGraph(G, seq)
  BY DEF Flush, MovedGraph, Moved, NewId
<1>4. /\ Distinct(seq) /\ Ready(G, live) /\ external_edge_list = {}
      /\ orig_node_id_to_new_id_map = <<>>
  BY <1>1, <1>2 DEF Contraction, Contracted
<1>5. LiveNames(<<>>, live) = live
  BY DEF LiveNames, Name
<1>6. Vias(Finished({}, G, <<>>), live)
  BY <1>2, <1>4, <1>5 DEF Resolving
<1>7. Len(seq) \in 0 .. number_of_nodes
  BY <1>4, ContractorAssumption DEF Distinct
<1>8. Elements(remaining_nodes') = NewIds(seq)
  BY <1>2, <1>7, CountedNodes DEF NewIds
<1>9. LiveNames(seq, NewIds(seq)) = live
  BY <1>4, NewIdIs DEF LiveNames
<1>10. Vias(Finished(ext, MovedGraph(G, seq), seq), live)
  BY <1>4, <1>6, FlushVias
<1>11. \A e \in ext : e.source \notin live
  OBVIOUS
<1> HIDE DEF ext, live, seq
<1> QED
  BY <1>1, <1>2, <1>3, <1>8, <1>9, <1>10, <1>11 DEF Resolving

\* Every step keeps it.
LEMMA NextResolving == Resolving /\ [Next]_vars => Resolving'
<1> SUFFICES ASSUME Resolving, [Next]_vars PROVE Resolving'
  OBVIOUS
<1>1. Contraction /\ Contraction'
  BY NextContraction DEF Resolving
<1>2. CASE vars' = vars
  <2>1. /\ built' = built /\ external_edge_list' = external_edge_list /\ edges' = edges
        /\ contractor_graph' = contractor_graph /\ remaining_nodes' = remaining_nodes
        /\ orig_node_id_to_new_id_map' = orig_node_id_to_new_id_map
    BY <1>2 DEF vars
  <2> QED
    BY <1>1, <2>1 DEF Resolving
<1>3. CASE GetEdges
  <2>1. ~built /\ built'
    BY <1>3 DEF GetEdges
  <2>2. edges' = Finished(external_edge_list, contractor_graph, orig_node_id_to_new_id_map)
    BY <1>3 DEF GetEdges, Finished, Renamed, Name, Original
  <2>3. \E L : Vias(edges', L)
    BY <2>1, <2>2 DEF Resolving
  <2> QED
    BY <1>1, <2>1, <2>3 DEF Resolving
<1> QED
  BY <1>2, <1>3, RoundResolving, FlushResolving DEF Next

-----------------------------------------------------------------------------
(* Theorems *)

\* The invariant gives the types.
LEMMA ContractionTypes == Contraction => TypeOK
<1> SUFFICES ASSUME Contraction PROVE TypeOK
  OBVIOUS
<1>1. GoodEdges(contractor_graph) /\ GoodEdges(external_edge_list) /\ GoodEdges(edges)
  <2>0. GoodEdges({})
    BY DEF GoodEdges
  <2>1. CASE built
    BY <2>0, <2>1 DEF Contraction, Exact
  <2>2. CASE ~built
    BY <2>0, <2>2 DEF Contraction, Contracted, Ready
  <2> QED
    BY <2>1, <2>2
<1>2. /\ contractor_graph \subseteq EdgeRecords /\ external_edge_list \subseteq EdgeRecords
      /\ edges \subseteq EdgeRecords
  BY <1>1 DEF GoodEdges
<1>3. /\ remaining_nodes \in Seq(NodeIDs) /\ orig_node_id_to_new_id_map \in Seq(NodeIDs)
      /\ number_of_contracted_nodes = number_of_nodes - Len(remaining_nodes)
      /\ flushed_contractor \in BOOLEAN /\ built \in BOOLEAN
  BY DEF Contraction, Distinct
<1> QED
  BY <1>2, <1>3, Zenon DEF TypeOK, EdgeRecords

\* Walks among the nodes that remain give the distances of the input.
LEMMA ContractionDistances == Contraction => DistancesPreserved
<1> SUFFICES ASSUME Contraction, ~built PROVE DistancesPreserved
  BY DEF DistancesPreserved
<1> DEFINE G == contractor_graph
           live == Elements(remaining_nodes)
           map == orig_node_id_to_new_id_map
           F == FArcs(G, live)
           B == BArcs(G, live)
<1>1. /\ InputArcs \in SUBSET Arcs /\ Ready(G, live) /\ SameWalks(InputArcs, G, live, map)
      /\ Numbered(G, live, map, CurrentIds)
  BY DEF Contraction, Contracted
<1>2. F \in SUBSET Arcs /\ B \in SUBSET Arcs
  BY <1>1, LiveArcs
<1>3. Reverses(F, B) /\ Reverses(B, F)
  BY <1>1, MirrorArcs
<1>4. \A e \in LiveEdges(G, live) : e.target \in live
  BY <1>1 DEF LiveEdges, Ready
<1>5. \A u \in live : u \in NodeIDs /\ Name(map, u) \in NodeIDs /\ Original(u) = Name(map, u)
  BY <1>1 DEF Numbered, Original, Name
<1> HIDE DEF F, B
<1>6. ASSUME NEW u \in live, NEW v \in live
      PROVE  /\ Distance(Shortest(F), u, v) = Distance(Shortest(InputArcs), Original(u), Original(v))
             /\ Distance(Shortest(B), v, u) = Distance(Shortest(InputArcs), Original(u), Original(v))
  <2>1. u \in NodeIDs /\ v \in NodeIDs /\ Original(u) \in NodeIDs /\ Original(v) \in NodeIDs
    BY <1>5
  <2>2. \A w \in Budgets : Walk(F, u, v, w) <=> Walk(InputArcs, Original(u), Original(v), w)
    BY <1>1, <1>5 DEF SameWalks, F
  <2>3. \A w \in Budgets : Walk(B, v, u, w) <=> Walk(F, u, v, w)
    BY <1>3, <2>1, WalkReversed
  <2>4. \A w \in Budgets : Walk(B, v, u, w) <=> Walk(InputArcs, Original(u), Original(v), w)
    BY <2>2, <2>3
  <2> QED
    BY <1>1, <1>2, <2>1, <2>2, <2>4, SameDistance
<1> QED
  BY <1>4, <1>6 DEF DistancesPreserved, F, B, FArcs, BArcs, LiveEdges

\* The finished hierarchy gives them as well.
LEMMA ContractionExact == Contraction => HierarchyExact
<1> SUFFICES ASSUME Contraction, built PROVE HierarchyExact
  BY DEF HierarchyExact
<1>1. InputArcs \in SUBSET Arcs /\ Exact(InputArcs, edges)
  BY InputArcsAre DEF Contraction
<1>2. ASSUME NEW s \in NodeIDs, NEW t \in NodeIDs
      PROVE  Min({INT_MAX} \cup {Distance(Shortest(ForwardArcs(edges)), s, m) +
                                 Distance(Shortest(BackwardArcs(edges)), t, m) : m \in NodeIDs})
             = Distance(Shortest(InputArcs), s, t)
  BY <1>1, ExactDistance
<1> QED
  BY <1>2, Zenon DEF HierarchyExact

\* A step that contracts nodes is a round, and the nodes of a round are independent.
LEMMA ContractionIndependent ==
    ASSUME Contraction, [Next]_vars, Len(remaining_nodes') < Len(remaining_nodes)
    PROVE  Independent(contractor_graph, Elements(remaining_nodes) \ Elements(remaining_nodes'))
<1>0. Distinct(remaining_nodes) /\ Len(remaining_nodes) \in Nat /\ ~(Len(remaining_nodes) < Len(remaining_nodes))
  BY DEF Contraction, Distinct
<1>1. CASE ContractRound
  <2>1. PICK I : /\ Round(Elements(remaining_nodes), I, contractor_graph')
                 /\ remaining_nodes' = Without(remaining_nodes, I)
    BY <1>1, RoundChosen
  <2>2. Elements(remaining_nodes') = Elements(remaining_nodes) \ I
    BY <1>0, <2>1, WithoutIs
  <2>3. Elements(remaining_nodes) \ Elements(remaining_nodes') = I
    BY <2>1, <2>2 DEF Round
  <2> QED
    BY <2>1, <2>3 DEF Round
<1>2. CASE Flush
  <2>1. remaining_nodes' = [i \in 1 .. Len(remaining_nodes) |-> i - 1]
    BY <1>2 DEF Flush
  <2>2. Len(remaining_nodes) \in 0 .. number_of_nodes
    BY <1>0, ContractorAssumption DEF Distinct
  <2>3. Len(remaining_nodes') = Len(remaining_nodes)
    BY <2>1, <2>2, CountedNodes
  <2> QED
    BY <1>0, <2>3
<1>3. CASE GetEdges \/ vars' = vars
  <2>1. remaining_nodes' = remaining_nodes
    BY <1>3 DEF GetEdges, vars
  <2> QED
    BY <1>0, <2>1
<1> QED
  BY <1>1, <1>2, <1>3 DEF Next

\* The shortest of the edges between two nodes.
LEMMA ShortestBetweenIs ==
    ASSUME GoodEdges(edges), NEW u, NEW v, EdgesBetween(u, v) # {}
    PROVE  /\ ShortestBetween(u, v) \in Nat
           /\ \E e \in EdgesBetween(u, v) : e.distance = ShortestBetween(u, v)
           /\ \A e \in EdgesBetween(u, v) : ShortestBetween(u, v) <= e.distance
<1> DEFINE B == EdgesBetween(u, v)
           S == {e.distance : e \in B}
<1>1. B \subseteq edges
  BY DEF EdgesBetween
<1>2. S \subseteq Nat /\ S # {}
  BY <1>1, EdgeFields
<1>3. ShortestBetween(u, v) = Min(S)
  BY <1>2 DEF ShortestBetween, MinWeight
<1>4. Min(S) \in S /\ \A y \in S : Min(S) <= y
  <2> HIDE DEF S
  <2> QED
    BY <1>2, MinIs
<1> HIDE DEF B
<1> QED
  BY <1>2, <1>3, <1>4 DEF B

\* The halves of a shortcut that UnpackPath finds are kept at the via node.
LEMMA HalvesAtVia ==
    ASSUME NEW L, Vias(edges, L), NEW m, m \notin L, NEW u, NEW v, NEW d, HasWay(edges, m, u, v, d)
    PROVE  /\ EdgesBetween(u, m) = {e \in edges : e.source = m /\ e.target = u /\ e.backward}
           /\ EdgesBetween(m, v) = {e \in edges : e.source = m /\ e.target = v /\ e.forward}
           /\ EdgesBetween(u, m) # {} /\ EdgesBetween(m, v) # {}
<1>1. PICK i \in Nat, j \in Nat : Led(edges, m, u, i) /\ Leads(edges, m, v, j)
  BY DEF HasWay
<1>2. PICK f \in edges : f.source = m /\ f.target = u /\ f.backward
  BY <1>1 DEF Led
<1>3. PICK g \in edges : g.source = m /\ g.target = v /\ g.forward
  BY <1>1 DEF Leads
<1>4. \A e \in edges : ~(e.source = u /\ e.target = m)
  BY <1>2 DEF Vias
<1>5. EdgesBetween(u, m) = {e \in edges : e.source = m /\ e.target = u /\ e.backward}
  BY <1>4 DEF EdgesBetween
<1>6. EdgesBetween(m, v) = {e \in edges : e.source = m /\ e.target = v /\ e.forward}
  BY <1>3 DEF EdgesBetween
<1> QED
  BY <1>2, <1>3, <1>5, <1>6

\* The shortest halves at the via node are as long as a way through it, and no way is shorter.
LEMMA ShortestHalves ==
    ASSUME GoodEdges(edges), NEW L, Vias(edges, L), NEW m, m \notin L, NEW u, NEW v,
           NEW d \in Nat, HasWay(edges, m, u, v, d)
    PROVE  LET sum == ShortestBetween(u, m) + ShortestBetween(m, v)
           IN  sum \in Nat /\ sum <= d /\ HasWay(edges, m, u, v, sum)
<1> DEFINE a == ShortestBetween(u, m)
           b == ShortestBetween(m, v)
<1>1. /\ EdgesBetween(u, m) = {e \in edges : e.source = m /\ e.target = u /\ e.backward}
      /\ EdgesBetween(m, v) = {e \in edges : e.source = m /\ e.target = v /\ e.forward}
      /\ EdgesBetween(u, m) # {} /\ EdgesBetween(m, v) # {}
  BY HalvesAtVia
<1>2. /\ a \in Nat /\ (\E e \in EdgesBetween(u, m) : e.distance = a)
      /\ \A e \in EdgesBetween(u, m) : a <= e.distance
  BY <1>1, ShortestBetweenIs
<1>3. /\ b \in Nat /\ (\E e \in EdgesBetween(m, v) : e.distance = b)
      /\ \A e \in EdgesBetween(m, v) : b <= e.distance
  BY <1>1, ShortestBetweenIs
<1> HIDE DEF a, b
<1>4. PICK i \in Nat, j \in Nat : Led(edges, m, u, i) /\ Leads(edges, m, v, j) /\ i + j = d
  BY DEF HasWay
<1>5. a <= i
  BY <1>1, <1>2, <1>4 DEF Led
<1>6. b <= j
  BY <1>1, <1>3, <1>4 DEF Leads
<1>7. Led(edges, m, u, a) /\ Leads(edges, m, v, b)
  BY <1>1, <1>2, <1>3 DEF Led, Leads
<1>8. a + b \in Nat /\ a + b <= d /\ HasWay(edges, m, u, v, a + b)
  BY <1>2, <1>3, <1>4, <1>5, <1>6, <1>7 DEF HasWay
<1> QED
  BY <1>8 DEF a, b

\* The shortest shortcut is as long as its halves.
LEMMA ShortestResolves ==
    ASSUME GoodEdges(edges), NEW L, Vias(edges, L), NEW u, NEW v, NEW e \in EdgesBetween(u, v),
           e.shortcut, e.distance = ShortestBetween(u, v)
    PROVE  ShortestBetween(u, e.id) + ShortestBetween(e.id, v) = e.distance
<1> DEFINE m == e.id
           sum == ShortestBetween(u, m) + ShortestBetween(m, v)
<1>1. e \in edges
  BY DEF EdgesBetween
<1>2. e.distance \in Nat /\ m \notin L /\ Resolves(edges, e)
  BY <1>1, EdgeFields DEF Vias
<1>3. \A f \in EdgesBetween(u, v) : ~(f.distance < e.distance)
  <2>1. \A f \in EdgesBetween(u, v) : e.distance <= f.distance /\ f.distance \in Nat
    BY ShortestBetweenIs, EdgeFields DEF EdgesBetween
  <2> QED
    BY <1>2, <2>1
<1>4. /\ HasWay(edges, m, u, v, e.distance)
      /\ \A d \in Nat : HasWay(edges, m, u, v, d) => ~(d < e.distance)
  <2>1. CASE e.source = u /\ e.target = v /\ e.forward
    <3>1. \A f \in edges : f.source = u /\ f.target = v /\ f.forward => f \in EdgesBetween(u, v)
      BY DEF EdgesBetween
    <3>2. ~ \E k \in Nat : k < e.distance /\ Leads(edges, u, v, k)
      BY <1>3, <3>1 DEF Leads
    <3> QED
      BY <1>2, <2>1, <3>2 DEF Resolves
  <2>2. CASE ~(e.source = u /\ e.target = v /\ e.forward)
    <3>1. /\ e.source = v /\ e.target = u /\ e.backward
          /\ \A f \in edges : f.source = v /\ f.target = u /\ f.backward => f \in EdgesBetween(u, v)
      BY <2>2 DEF EdgesBetween
    <3>2. ~ \E k \in Nat : k < e.distance /\ Led(edges, v, u, k)
      BY <1>3, <3>1 DEF Led
    <3> QED
      BY <1>2, <3>1, <3>2 DEF Resolves
  <2> QED
    BY <2>1, <2>2
<1>5. sum \in Nat /\ sum <= e.distance /\ HasWay(edges, m, u, v, sum)
  <2> HIDE DEF m
  <2> QED
    BY <1>2, <1>4, ShortestHalves
<1>6. ~(sum < e.distance)
  <2> HIDE DEF sum
  <2> QED
    BY <1>4, <1>5
<1> HIDE DEF sum
<1>7. sum = e.distance
  BY <1>2, <1>5, <1>6
<1> QED
  BY <1>7 DEF sum

\* The invariant resolves via nodes.
LEMMA ResolvingResolves == Resolving => ViaResolves
<1> SUFFICES ASSUME Resolving, built PROVE ViaResolves
  BY DEF ViaResolves
<1>1. GoodEdges(edges)
  BY DEF Resolving, Contraction, Exact
<1>2. PICK L : Vias(edges, L)
  BY DEF Resolving
<1>3. ASSUME NEW u, NEW v, NEW e \in EdgesBetween(u, v), e.shortcut, e.distance = ShortestBetween(u, v)
      PROVE  ShortestBetween(u, e.id) + ShortestBetween(e.id, v) = e.distance
  BY <1>1, <1>2, <1>3, ShortestResolves
<1> QED
  BY <1>3 DEF ViaResolves

\* Type correctness (TypeOK): the edges of the graph, those set aside by the flush and those
\* of the finished hierarchy join nodes by positive distances, and the counter of Run() agrees
\* with its list of remaining nodes.
THEOREM ContractorTypes == Spec => []TypeOK
BY InitContraction, NextContraction, ContractionTypes, PTL DEF Spec

\* Whatever nodes the rounds of Run() choose, wherever witness searches stop and whether
\* or not the flush has renumbered the nodes: the edges among the remaining nodes give
\* exactly the distances of the input graph, seen from either end.
THEOREM DistancesKept == Spec => []DistancesPreserved
BY InitContraction, NextContraction, ContractionDistances, PTL DEF Spec

\* The hierarchy that GetEdges returns answers every query with the distance of the input.
THEOREM HierarchyIsExact == Spec => []HierarchyExact
BY InitContraction, NextContraction, ContractionExact, PTL DEF Spec

\* The nodes contracted in one round are no neighbours and have no neighbour in common: the
\* threads that delete their incoming edges never change the same adjacency list.
THEOREM RoundsIndependent == Spec => RoundsAreIndependent
<1> DEFINE Step == Len(remaining_nodes') < Len(remaining_nodes) =>
             LET gone == Elements(remaining_nodes) \ Elements(remaining_nodes')
             IN  \A u, v \in gone : u # v =>
                   /\ v \notin Neighbours(contractor_graph, u)
                   /\ Neighbours(contractor_graph, u) \cap Neighbours(contractor_graph, v) = {}
<1>1. Contraction /\ [Next]_vars => [Step]_vars
  BY ContractionIndependent DEF Independent
<1>2. Spec => [][Step]_vars
  <2> HIDE DEF Step
  <2> QED
    BY InitContraction, NextContraction, <1>1, PTL DEF Spec
<1> QED
  BY <1>2 DEF RoundsAreIndependent

\* The via node of every shortcut in the finished hierarchy is named by its original id and
\* unpacks: the two shortest halves that UnpackPath finds for a shortest shortcut are kept at
\* its via node and add up to its distance, although later rounds may insert and replace edges,
\* witness searches stop early and the flush renumbers the nodes.
THEOREM ShortcutsResolve == Spec => []ViaResolves
BY InitResolving, NextResolving, ResolvingResolves, PTL DEF Spec
=============================================================================
