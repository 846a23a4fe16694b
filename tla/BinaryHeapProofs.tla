-------------------------- MODULE BinaryHeapProofs --------------------------
(***************************************************************************)
(* The addressable binary heap implements the priority queue, with every   *)
(* index storage, number of nodes, size of the hash table and hash         *)
(* function.                                                               *)
(***************************************************************************)
EXTENDS BinaryHeap, DataInduction

HeapElements == [index : Nat, weight : Int]
HeapNodes == [node : NodeIDs, key : Nat, weight : Int]

\* Every element of the heap and its node refer to each other; a node without an element
\* has key 0.  Nodes in out are left alone.
Matches(h, nodes, out) ==
    /\ \A k \in 1 .. Len(h) :
         /\ h[k].index + 1 \in 1 .. Len(nodes) /\ h[k].index + 1 \notin out
         /\ nodes[h[k].index + 1].key = k
         /\ nodes[h[k].index + 1].weight = h[k].weight
    /\ \A i \in 1 .. Len(nodes) :
         i \notin out /\ nodes[i].key # 0 =>
           nodes[i].key \in 1 .. Len(h) /\ h[nodes[i].key].index + 1 = i

\* The same nodes with the same weights are in the heap.
SameContent(nodes, before) ==
    /\ Len(nodes) = Len(before)
    /\ \A i \in 1 .. Len(nodes) :
         /\ nodes[i].node = before[i].node /\ nodes[i].weight = before[i].weight
         /\ (nodes[i].key = 0) <=> (before[i].key = 0)

\* No element is smaller than its parent.
Ordered(h) == \A k \in 2 .. Len(h) : h[k \div 2].weight <= h[k].weight

\* The same while the element at key rises, or sinks.
RisingAt(h, key) ==
    /\ \A k \in 2 .. Len(h) : k # key => h[k \div 2].weight <= h[k].weight
    /\ \A k \in 2 .. Len(h) :
         k \div 2 = key /\ key \div 2 >= 1 => h[key \div 2].weight <= h[k].weight
SinkingAt(h, key) ==
    /\ \A k \in 2 .. Len(h) : k \div 2 # key => h[k \div 2].weight <= h[k].weight
    /\ \A k \in 2 .. Len(h) :
         k \div 2 = key /\ key \div 2 >= 1 => h[key \div 2].weight <= h[k].weight

-----------------------------------------------------------------------------
\* Replacing one element of a sequence.
LEMMA Replaced ==
    ASSUME NEW X, NEW s \in Seq(X), NEW i \in 1 .. Len(s), NEW x \in X
    PROVE  /\ [s EXCEPT ![i] = x] \in Seq(X) /\ Len([s EXCEPT ![i] = x]) = Len(s)
           /\ \A j \in 1 .. Len(s) : [s EXCEPT ![i] = x][j] = IF j = i THEN x ELSE s[j]
  OBVIOUS

\* Setting the key of a node.
LEMMA KeySet ==
    ASSUME NEW nodes \in Seq(HeapNodes), NEW i \in 1 .. Len(nodes), NEW key \in Nat
    PROVE  /\ [nodes EXCEPT ![i].key = key] \in Seq(HeapNodes)
           /\ Len([nodes EXCEPT ![i].key = key]) = Len(nodes)
           /\ \A j \in 1 .. Len(nodes) :
                /\ [nodes EXCEPT ![i].key = key][j].node = nodes[j].node
                /\ [nodes EXCEPT ![i].key = key][j].weight = nodes[j].weight
                /\ [nodes EXCEPT ![i].key = key][j].key = IF j = i THEN key ELSE nodes[j].key
<1> DEFINE x == [nodes[i] EXCEPT !.key = key]
<1>1. nodes[i] \in HeapNodes
  OBVIOUS
<1>2. x \in HeapNodes /\ x.node = nodes[i].node /\ x.weight = nodes[i].weight /\ x.key = key
  BY <1>1 DEF HeapNodes
<1>3. [nodes EXCEPT ![i].key = key] = [nodes EXCEPT ![i] = x]
  OBVIOUS
<1> HIDE DEF x
<1> QED
  BY <1>2, <1>3, Replaced, SMTT(60)

\* What two moves in a row leave alone is left alone by both.
LEMMA ContentKept ==
  ASSUME NEW a, NEW b, NEW c, SameContent(a, b), SameContent(b, c)
  PROVE  SameContent(a, c)
BY Zenon DEF SameContent

\* The states of the loops: the hole is somewhere in the heap.
LoopStates(length, count) ==
    {s \in [heap : Seq(HeapElements), nodes : Seq(HeapNodes), key : 1 .. length] :
       Len(s.heap) = length /\ Len(s.nodes) = count}

\* What placing the element in the hole gives.
LEMMA PlacedIs ==
    ASSUME NEW length \in Nat, NEW count \in Nat, NEW s \in LoopStates(length, count),
           NEW e \in HeapElements, e.index + 1 \in 1 .. count
    PROVE  /\ Placed(s, e).heap \in Seq(HeapElements) /\ Len(Placed(s, e).heap) = length
           /\ Placed(s, e).nodes \in Seq(HeapNodes) /\ Len(Placed(s, e).nodes) = count
           /\ \A k \in 1 .. length : Placed(s, e).heap[k] = IF k = s.key THEN e ELSE s.heap[k]
           /\ \A i \in 1 .. count :
                /\ Placed(s, e).nodes[i].node = s.nodes[i].node
                /\ Placed(s, e).nodes[i].weight = s.nodes[i].weight
                /\ Placed(s, e).nodes[i].key = IF i = e.index + 1 THEN s.key ELSE s.nodes[i].key
<1> DEFINE h == s.heap
           n == s.nodes
           k == s.key
<1>1. h \in Seq(HeapElements) /\ Len(h) = length /\ n \in Seq(HeapNodes) /\ Len(n) = count
      /\ k \in 1 .. length
  BY DEF LoopStates
<1>2. Placed(s, e) = [heap |-> [h EXCEPT ![k] = e], nodes |-> [n EXCEPT ![e.index + 1].key = k]]
  BY DEF Placed
<1> DEFINE b == e.index + 1
<1> HIDE DEF h, n, k, b
<1>3. /\ Placed(s, e).heap = [h EXCEPT ![k] = e]
      /\ Placed(s, e).nodes = [n EXCEPT ![b].key = k]
  BY <1>2 DEF b
<1>4. b \in 1 .. Len(n) /\ k \in Nat
  BY <1>1 DEF b
<1>5. /\ [h EXCEPT ![k] = e] \in Seq(HeapElements) /\ Len([h EXCEPT ![k] = e]) = length
      /\ \A j \in 1 .. length : [h EXCEPT ![k] = e][j] = IF j = k THEN e ELSE h[j]
  BY <1>1, Replaced
<1>6. /\ [n EXCEPT ![b].key = k] \in Seq(HeapNodes) /\ Len([n EXCEPT ![b].key = k]) = count
      /\ \A j \in 1 .. count :
           /\ [n EXCEPT ![b].key = k][j].node = n[j].node
           /\ [n EXCEPT ![b].key = k][j].weight = n[j].weight
           /\ [n EXCEPT ![b].key = k][j].key = IF j = b THEN k ELSE n[j].key
  BY <1>1, <1>4, KeySet
<1> QED
  BY <1>3, <1>5, <1>6 DEF h, n, k, b

\* Moving the element at from into the hole exchanges it with the element that is to be
\* placed.
LEMMA MovedIs ==
    ASSUME NEW length \in Nat, NEW count \in Nat, NEW s \in LoopStates(length, count),
           NEW from \in 1 .. length, s.heap[from].index + 1 \in 1 .. count
    PROVE  /\ Moved(s, from) \in LoopStates(length, count)
           /\ Moved(s, from).key = from
           /\ \A k \in 1 .. length :
                Moved(s, from).heap[k] = IF k = s.key THEN s.heap[from] ELSE s.heap[k]
           /\ \A i \in 1 .. count :
                /\ Moved(s, from).nodes[i].node = s.nodes[i].node
                /\ Moved(s, from).nodes[i].weight = s.nodes[i].weight
                /\ Moved(s, from).nodes[i].key = IF i = s.heap[from].index + 1 THEN s.key
                                                 ELSE s.nodes[i].key
<1> DEFINE h == s.heap
           n == s.nodes
           k == s.key
           x == s.heap[from]
           a == x.index + 1
<1>1. h \in Seq(HeapElements) /\ Len(h) = length /\ n \in Seq(HeapNodes) /\ Len(n) = count
      /\ k \in 1 .. length /\ a \in 1 .. count
  BY DEF LoopStates
<1>2. x \in HeapElements
  BY <1>1
<1>3. Moved(s, from) = [heap |-> [h EXCEPT ![k] = x], nodes |-> [n EXCEPT ![a].key = k], key |-> from]
  BY DEF Moved
<1> HIDE DEF h, n, k, x, a
<1>4. /\ Moved(s, from).heap = [h EXCEPT ![k] = x]
      /\ Moved(s, from).nodes = [n EXCEPT ![a].key = k]
      /\ Moved(s, from).key = from
  BY <1>3
<1>5. /\ [h EXCEPT ![k] = x] \in Seq(HeapElements) /\ Len([h EXCEPT ![k] = x]) = length
      /\ \A j \in 1 .. length : [h EXCEPT ![k] = x][j] = IF j = k THEN x ELSE h[j]
  BY <1>1, <1>2, Replaced
<1>6. /\ [n EXCEPT ![a].key = k] \in Seq(HeapNodes) /\ Len([n EXCEPT ![a].key = k]) = count
      /\ \A j \in 1 .. count :
           /\ [n EXCEPT ![a].key = k][j].node = n[j].node
           /\ [n EXCEPT ![a].key = k][j].weight = n[j].weight
           /\ [n EXCEPT ![a].key = k][j].key = IF j = a THEN k ELSE n[j].key
  BY <1>1, KeySet
<1>7. Moved(s, from) \in LoopStates(length, count)
  BY <1>3, <1>5, <1>6 DEF LoopStates
<1> QED
  BY <1>4, <1>5, <1>6, <1>7, ZenonT(60) DEF h, n, k, x, a

\* The hole of s can be filled with the element at from.
CanMove(s, e, out, length, count, from) ==
    /\ length \in Nat /\ count \in Nat /\ s \in LoopStates(length, count)
    /\ e \in HeapElements /\ e.index + 1 \in 1 .. count
    /\ Matches(Placed(s, e).heap, Placed(s, e).nodes, out)
    /\ from \in 1 .. length /\ from # s.key

\* Elements and nodes still refer to each other after a move.
LEMMA MovedMatches ==
    ASSUME NEW length, NEW count, NEW s, NEW e, NEW out, NEW from,
           CanMove(s, e, out, length, count, from)
    PROVE  /\ Moved(s, from) \in LoopStates(length, count) /\ Moved(s, from).key = from
           /\ Matches(Placed(Moved(s, from), e).heap, Placed(Moved(s, from), e).nodes, out)
           /\ SameContent(Placed(Moved(s, from), e).nodes, Placed(s, e).nodes)
           /\ Len(Placed(Moved(s, from), e).heap) = length
           /\ \A k \in 1 .. length : Placed(Moved(s, from), e).heap[k] =
                IF k = from THEN e ELSE IF k = s.key THEN Placed(s, e).heap[from]
                ELSE Placed(s, e).heap[k]
<1> DEFINE h == Placed(s, e).heap
           n == Placed(s, e).nodes
           t == Moved(s, from)
           hh == Placed(t, e).heap
           nn == Placed(t, e).nodes
           key == s.key
           b == e.index + 1
           a == s.heap[from].index + 1
<1>0. /\ length \in Nat /\ count \in Nat /\ s \in LoopStates(length, count)
      /\ e \in HeapElements /\ e.index + 1 \in 1 .. count
      /\ Matches(h, n, out) /\ from \in 1 .. length /\ from # key
  BY DEF CanMove
<1> USE <1>0
<1>1. /\ h \in Seq(HeapElements) /\ Len(h) = length
      /\ n \in Seq(HeapNodes) /\ Len(n) = count
      /\ \A k \in 1 .. length : h[k] = IF k = key THEN e ELSE s.heap[k]
      /\ \A i \in 1 .. count :
           /\ n[i].node = s.nodes[i].node /\ n[i].weight = s.nodes[i].weight
           /\ n[i].key = IF i = b THEN key ELSE s.nodes[i].key
  BY PlacedIs
<1>2. h[from] = s.heap[from] /\ a \in 1 .. count /\ n[a].key = from /\ n[a].weight = h[from].weight
      /\ a \notin out
  BY <1>1 DEF Matches
<1>3. /\ t \in LoopStates(length, count) /\ t.key = from
      /\ \A k \in 1 .. length : t.heap[k] = IF k = key THEN s.heap[from] ELSE s.heap[k]
      /\ \A i \in 1 .. count :
           /\ t.nodes[i].node = s.nodes[i].node
           /\ t.nodes[i].weight = s.nodes[i].weight
           /\ t.nodes[i].key = IF i = a THEN key ELSE s.nodes[i].key
  BY <1>2, MovedIs, SMTT(60)
<1> HIDE DEF t
<1>4. /\ hh \in Seq(HeapElements) /\ Len(hh) = length
      /\ nn \in Seq(HeapNodes) /\ Len(nn) = count
      /\ \A k \in 1 .. length : hh[k] = IF k = from THEN e ELSE t.heap[k]
      /\ \A i \in 1 .. count :
           /\ nn[i].node = t.nodes[i].node /\ nn[i].weight = t.nodes[i].weight
           /\ nn[i].key = IF i = b THEN from ELSE t.nodes[i].key
  BY <1>3, PlacedIs
<1>5. key \in 1 .. length /\ b \in 1 .. count /\ h[key] = e /\ n[b].key = key
  BY <1>1 DEF LoopStates
<1>6. n[b].weight = e.weight /\ b \notin out /\ a # b
  BY <1>1, <1>2, <1>5, SMTT(60) DEF Matches
<1> HIDE DEF h, n, hh, nn
<1>7. ASSUME NEW k \in 1 .. length
      PROVE  hh[k] = IF k = from THEN e ELSE IF k = key THEN h[from] ELSE h[k]
  <2>1. hh[k] = IF k = from THEN e ELSE t.heap[k]
    BY <1>4
  <2>2. t.heap[k] = IF k = key THEN s.heap[from] ELSE s.heap[k]
    BY <1>3
  <2>3. h[k] = IF k = key THEN e ELSE s.heap[k]
    BY <1>1
  <2> HIDE <1>0
  <2> QED
    BY <1>2, <2>1, <2>2, <2>3
<1>8. ASSUME NEW i \in 1 .. count
      PROVE  /\ nn[i].node = n[i].node /\ nn[i].weight = n[i].weight
             /\ nn[i].key = IF i = b THEN from ELSE IF i = a THEN key ELSE n[i].key
  <2>1. /\ nn[i].node = t.nodes[i].node /\ nn[i].weight = t.nodes[i].weight
        /\ nn[i].key = IF i = b THEN from ELSE t.nodes[i].key
    BY <1>4
  <2>2. /\ t.nodes[i].node = s.nodes[i].node /\ t.nodes[i].weight = s.nodes[i].weight
        /\ t.nodes[i].key = IF i = a THEN key ELSE s.nodes[i].key
    BY <1>3
  <2>3. /\ n[i].node = s.nodes[i].node /\ n[i].weight = s.nodes[i].weight
        /\ n[i].key = IF i = b THEN key ELSE s.nodes[i].key
    BY <1>1
  <2> HIDE <1>0
  <2> QED
    BY <2>1, <2>2, <2>3
<1> DEFINE ix(k) == h[k].index + 1
<1>a. \A k \in 1 .. length : /\ ix(k) \in 1 .. count /\ ix(k) \notin out
                              /\ n[ix(k)].key = k /\ n[ix(k)].weight = h[k].weight
  BY <1>1 DEF Matches, h, n
<1>b. \A i \in 1 .. count : i \notin out /\ n[i].key # 0 => n[i].key \in 1 .. length /\ ix(n[i].key) = i
  BY <1>1 DEF Matches, h, n
<1>c. a = ix(from) /\ b = ix(key)
  BY <1>2, <1>5
<1>9. \A k \in 1 .. length :
         /\ hh[k].index + 1 \in 1 .. count /\ hh[k].index + 1 \notin out
         /\ nn[hh[k].index + 1].key = k
         /\ nn[hh[k].index + 1].weight = hh[k].weight
  <2> TAKE k \in 1 .. length
  <2> HIDE DEF a, b, key
  <2>1. CASE k = from
    <3>1. hh[k].index + 1 = b /\ hh[k].weight = e.weight
      BY <1>7, <2>1 DEF b
    <3> QED
      BY <1>5, <1>6, <1>8, <2>1, <3>1
  <2>2. CASE k = key
    <3>1. hh[k].index + 1 = a /\ hh[k].weight = h[from].weight
      BY <1>7, <1>c, <1>5, <2>2 DEF key
    <3> QED
      BY <1>2, <1>6, <1>8, <2>2, <3>1
  <2>3. CASE k # from /\ k # key
    <3>1. hh[k] = h[k] /\ ix(k) # a /\ ix(k) # b
      BY <1>2, <1>5, <1>7, <1>a, <2>3
    <3> QED
      BY <1>8, <1>a, <3>1
  <2> QED
    BY <2>1, <2>2, <2>3
<1>10. \A i \in 1 .. count :
         i \notin out /\ nn[i].key # 0 =>
           nn[i].key \in 1 .. length /\ hh[nn[i].key].index + 1 = i
  <2> SUFFICES ASSUME NEW i \in 1 .. count, i \notin out, nn[i].key # 0
               PROVE  nn[i].key \in 1 .. length /\ hh[nn[i].key].index + 1 = i
    OBVIOUS
  <2> HIDE DEF a, b, key
  <2>1. CASE i = b
    BY <1>7, <1>8, <2>1 DEF b
  <2>2. CASE i = a
    BY <1>2, <1>5, <1>6, <1>7, <1>8, <1>c, <2>2 DEF key
  <2>3. CASE i # a /\ i # b
    <3>1. nn[i].key = n[i].key /\ n[i].key \in 1 .. length /\ ix(n[i].key) = i
      BY <1>8, <1>b, <2>3
    <3>2. n[i].key # from /\ n[i].key # key
      BY <1>c, <2>3, <3>1
    <3> QED
      BY <1>7, <3>1, <3>2
  <2> QED
    BY <2>1, <2>2, <2>3
<1>11. Matches(hh, nn, out)
  BY <1>4, <1>9, <1>10 DEF Matches
<1>12. SameContent(nn, n)
  <2>1. \A i \in 1 .. count : (nn[i].key = 0) <=> (n[i].key = 0)
    BY <1>2, <1>5, <1>6, <1>8
  <2> QED
    BY <1>1, <1>4, <1>8, <2>1 DEF SameContent
<1> QED
  BY <1>3, <1>4, <1>7, <1>11, <1>12 DEF h, n, t, hh, nn

-----------------------------------------------------------------------------
(* The loops *)

\* Upheap ends, in a state that its turns keep.
LEMMA UpheapEnds ==
    ASSUME NEW S, NEW h, NEW nodes, NEW key \in Nat, NEW e,
           [heap |-> h, nodes |-> nodes, key |-> key] \in S,
           \A s \in S : /\ UpheapTurn(s, e) \in S /\ s.key \in Nat
                        /\ UpheapTurn(s, e) = s \/ UpheapTurn(s, e).key < s.key
    PROVE  \E s \in S : UpheapTurn(s, e) = s /\ Upheap(h, nodes, key, e) = Placed(s, e)
<1> DEFINE first == [heap |-> h, nodes |-> nodes, key |-> key]
           F == [s \in S |-> UpheapTurn(s, e)]
           M == [s \in S |-> s.key]
           IsRun(f) == f = [i \in 0 .. key |-> IF i = 0 THEN first ELSE UpheapTurn(f[i - 1], e)]
           turn == CHOOSE f : IsRun(f)
<1>1. Upheap(h, nodes, key, e) = Placed(turn[key], e)
  BY DEF Upheap
<1>2. first \in S /\ first.key = key
  OBVIOUS
<1> HIDE DEF first
<1>3. \A s \in S : F[s] = UpheapTurn(s, e) /\ M[s] = s.key
  OBVIOUS
<1> HIDE DEF F, M, IsRun, turn
<1>b. \A s \in S : F[s] \in S /\ M[s] \in Nat /\ (F[s] = s \/ M[F[s]] < M[s])
  BY <1>3
<1>c. M[first] <= key
  BY <1>2, <1>3
<1>d. IsLoop(S, F, M, first, key)
  BY <1>2, <1>b, <1>c DEF IsLoop
<1>e. PICK g : IsRunOf(g, S, F, first, key) /\ F[g[key]] = g[key]
  BY <1>d, LoopEnds
<1>4. /\ g \in [0 .. key -> S]
      /\ \A i \in 0 .. key : g[i] = IF i = 0 THEN first ELSE F[g[i - 1]]
      /\ F[g[key]] = g[key]
  BY <1>e DEF IsRunOf
<1> USE DEF IsRun
<1>5. IsRun(g)
  <2>1. \A i \in 0 .. key : g[i] = IF i = 0 THEN first ELSE UpheapTurn(g[i - 1], e)
    BY <1>3, <1>4
  <2> QED
    BY <1>4, <2>1
<1>6. IsRun(turn)
  <2> HIDE DEF IsRun
  <2> QED
    BY <1>5 DEF turn
<1> DEFINE Same == {i \in 0 .. key : turn[i] = g[i]}
<1>7. 0 \in Same
  BY <1>5, <1>6
<1>8. ASSUME NEW i \in 0 .. key - 1, i \in Same PROVE i + 1 \in Same
  BY <1>5, <1>6, <1>8
<1>9. 0 .. key \subseteq Same
  <2> HIDE DEF Same
  <2> QED
    BY <1>7, <1>8, BoundedInduction
<1>10. turn[key] = g[key] /\ g[key] \in S
  BY <1>4, <1>9
<1> QED
  BY <1>1, <1>3, <1>4, <1>10

\* Downheap ends as well.
LEMMA DownheapEnds ==
    ASSUME NEW S, NEW h, NEW nodes, NEW key \in Nat, NEW e, Len(h) \in Nat,
           [heap |-> h, nodes |-> nodes, key |-> key] \in S,
           \A s \in S : /\ DownheapTurn(s, e) \in S /\ s.key \in 1 .. Len(h)
                        /\ DownheapTurn(s, e) = s \/ DownheapTurn(s, e).key > s.key
    PROVE  \E s \in S : DownheapTurn(s, e) = s /\ Downheap(h, nodes, key, e) = Placed(s, e)
<1> DEFINE first == [heap |-> h, nodes |-> nodes, key |-> key]
           n == Len(h)
           F == [s \in S |-> DownheapTurn(s, e)]
           M == [s \in S |-> n - s.key]
           IsRun(f) == f = [i \in 0 .. n |-> IF i = 0 THEN first ELSE DownheapTurn(f[i - 1], e)]
           turn == CHOOSE f : IsRun(f)
<1>1. Downheap(h, nodes, key, e) = Placed(turn[n], e)
  BY DEF Downheap
<1>2. first \in S /\ first.key = key /\ n \in Nat /\ key \in 1 .. n
  OBVIOUS
<1>a. \A s \in S : s.key \in 1 .. n
  OBVIOUS
<1> HIDE DEF first, n
<1>3. \A s \in S : F[s] = DownheapTurn(s, e) /\ M[s] = n - s.key
  OBVIOUS
<1> HIDE DEF F, M, IsRun, turn
<1>b. \A s \in S : F[s] \in S /\ M[s] \in Nat /\ (F[s] = s \/ M[F[s]] < M[s])
  BY <1>2, <1>3, <1>a
<1>c. M[first] <= n
  BY <1>2, <1>3
<1>d. IsLoop(S, F, M, first, n)
  BY <1>2, <1>b, <1>c DEF IsLoop
<1>e. PICK g : IsRunOf(g, S, F, first, n) /\ F[g[n]] = g[n]
  BY <1>d, LoopEnds
<1>4. /\ g \in [0 .. n -> S]
      /\ \A i \in 0 .. n : g[i] = IF i = 0 THEN first ELSE F[g[i - 1]]
      /\ F[g[n]] = g[n]
  BY <1>e DEF IsRunOf
<1> USE DEF IsRun
<1>5. IsRun(g)
  <2>1. ASSUME NEW i \in 0 .. n
        PROVE  g[i] = IF i = 0 THEN first ELSE DownheapTurn(g[i - 1], e)
    <3>1. i # 0 => i - 1 \in 0 .. n
      BY <1>2
    <3> QED
      BY <1>3, <1>4, <3>1
  <2> QED
    BY <1>4, <2>1
<1>6. IsRun(turn)
  <2> HIDE DEF IsRun
  <2> QED
    BY <1>5 DEF turn
<1> DEFINE Same == {i \in 0 .. n : turn[i] = g[i]}
<1>7. 0 \in Same
  BY <1>2, <1>5, <1>6
<1>8. ASSUME NEW i \in 0 .. n - 1, i \in Same PROVE i + 1 \in Same
  BY <1>2, <1>5, <1>6, <1>8
<1>9. 0 .. n \subseteq Same
  <2> HIDE DEF Same
  <2> QED
    BY <1>2, <1>7, <1>8, BoundedInduction
<1>10. turn[n] = g[n] /\ g[n] \in S
  BY <1>2, <1>4, <1>9
<1> QED
  BY <1>1, <1>3, <1>4, <1>10

\* An element of a loop state.
LEMMA WeightsAreIntegers ==
    ASSUME NEW h \in Seq(HeapElements)
    PROVE  \A k \in 1 .. Len(h) : h[k] \in HeapElements /\ h[k].weight \in Int /\ h[k].index \in Nat
<1> TAKE k \in 1 .. Len(h)
<1>1. h[k] \in HeapElements
  OBVIOUS
<1> QED
  BY <1>1 DEF HeapElements

\* Upheap restores the order, and changes nothing but the places of elements.
LEMMA UpheapWorks ==
    ASSUME NEW h \in Seq(HeapElements), NEW nodes \in Seq(HeapNodes), NEW key \in 1 .. Len(h),
           NEW e \in HeapElements, e.index + 1 \in 1 .. Len(nodes), NEW out,
           h[key] = e, nodes[e.index + 1].key = key,
           Matches(h, nodes, out), RisingAt(h, key)
    PROVE  /\ Upheap(h, nodes, key, e).heap \in Seq(HeapElements)
           /\ Len(Upheap(h, nodes, key, e).heap) = Len(h)
           /\ Upheap(h, nodes, key, e).nodes \in Seq(HeapNodes)
           /\ Matches(Upheap(h, nodes, key, e).heap, Upheap(h, nodes, key, e).nodes, out)
           /\ SameContent(Upheap(h, nodes, key, e).nodes, nodes)
           /\ Ordered(Upheap(h, nodes, key, e).heap)
<1> DEFINE length == Len(h)
           count == Len(nodes)
           Good(s) == /\ Matches(Placed(s, e).heap, Placed(s, e).nodes, out)
                      /\ SameContent(Placed(s, e).nodes, nodes)
                      /\ RisingAt(Placed(s, e).heap, s.key)
           S == {s \in LoopStates(length, count) : Good(s)}
           first == [heap |-> h, nodes |-> nodes, key |-> key]
<1>1. length \in Nat /\ count \in Nat /\ key \in Nat
  OBVIOUS
<1>2. first \in LoopStates(length, count)
  BY DEF LoopStates
<1>3. Placed(first, e).heap = h /\ Placed(first, e).nodes = nodes
  <2>1. Placed(first, e).heap = [h EXCEPT ![key] = e]
    BY DEF Placed
  <2>2. Placed(first, e).nodes = [nodes EXCEPT ![e.index + 1].key = key]
    BY DEF Placed
  <2>3. [h EXCEPT ![key] = e] = h
    OBVIOUS
  <2> DEFINE b == e.index + 1
  <2>4. nodes[b] \in HeapNodes /\ nodes[b].key = key
    OBVIOUS
  <2>5. [nodes[b] EXCEPT !.key = key] = nodes[b]
    BY <2>4 DEF HeapNodes
  <2>6. [nodes EXCEPT ![b].key = key] = [nodes EXCEPT ![b] = [nodes[b] EXCEPT !.key = key]]
    OBVIOUS
  <2>7. [nodes EXCEPT ![b] = nodes[b]] = nodes
    OBVIOUS
  <2> QED
    BY <2>1, <2>2, <2>3, <2>5, <2>6, <2>7
<1>4. SameContent(nodes, nodes)
  BY DEF SameContent
<1>5. first \in S
  BY <1>2, <1>3, <1>4
<1>6. ASSUME NEW s \in S
      PROVE  /\ UpheapTurn(s, e) \in S /\ s.key \in Nat
             /\ UpheapTurn(s, e) = s \/ UpheapTurn(s, e).key < s.key
  <2> DEFINE next == s.key \div 2
             H == Placed(s, e).heap
             t == Moved(s, next)
             T == Placed(t, e).heap
  <2>1. s \in LoopStates(length, count) /\ Good(s)
    OBVIOUS
  <2>2. s.key \in 1 .. length
    BY <2>1 DEF LoopStates
  <2>3. CASE ~(next > 0 /\ s.heap[next].weight > e.weight)
    BY <2>2, <2>3 DEF UpheapTurn
  <2>4. CASE next > 0 /\ s.heap[next].weight > e.weight
    <3>1. UpheapTurn(s, e) = t /\ next \in 1 .. length /\ next # s.key /\ next < s.key
      BY <1>1, <2>2, <2>4 DEF UpheapTurn
    <3>2. /\ t \in LoopStates(length, count) /\ t.key = next
          /\ Matches(T, Placed(t, e).nodes, out)
          /\ SameContent(Placed(t, e).nodes, Placed(s, e).nodes)
          /\ Len(T) = length
          /\ \A k \in 1 .. length :
               T[k] = IF k = next THEN e ELSE IF k = s.key THEN H[next] ELSE H[k]
      <4>1. Matches(Placed(s, e).heap, Placed(s, e).nodes, out) /\ e.index + 1 \in 1 .. count
        BY <2>1
      <4>2. CanMove(s, e, out, length, count, next)
        BY <1>1, <2>1, <3>1, <4>1 DEF CanMove
      <4> HIDE DEF length, count, next, Good, S
      <4> QED
        BY <4>2, MovedMatches
    <3>3. SameContent(Placed(t, e).nodes, nodes)
      BY <2>1, <3>2, ContentKept
    <3>4. /\ H \in Seq(HeapElements) /\ Len(H) = length
          /\ \A k \in 1 .. length : H[k] = IF k = s.key THEN e ELSE s.heap[k]
      BY <1>1, <2>1, PlacedIs
    <3>5. \A k \in 1 .. length : H[k].weight \in Int
      BY <3>4, WeightsAreIntegers
    <3>6. e.weight < H[next].weight /\ e.weight \in Int
      BY <2>4, <3>1, <3>4 DEF HeapElements
    <3>7. RisingAt(H, s.key)
      BY <2>1
    <3> DEFINE K == s.key
    <3> HIDE DEF H, T, next, K, t, length, Good
    <3>8. K \in 1 .. length /\ next = K \div 2 /\ next \in 1 .. length
      BY <2>2, <3>1 DEF K, next
    <3>9. \A k \in 2 .. length : k # K => H[k \div 2].weight <= H[k].weight
      BY <3>4, <3>7 DEF RisingAt, K
    <3>10. \A k \in 2 .. length : k \div 2 = K => H[next].weight <= H[k].weight
      BY <3>4, <3>7, <3>8 DEF RisingAt, K
    <3>11. \A k \in 1 .. length : T[k] = IF k = next THEN e ELSE IF k = K THEN H[next] ELSE H[k]
      BY <3>2 DEF K
    <3>12. ASSUME NEW k \in 2 .. length, k # next PROVE T[k \div 2].weight <= T[k].weight
      <4>1. k \div 2 \in 1 .. length /\ k \in 1 .. length
        BY <1>1 DEF length
      <4>2. CASE k = K
        BY <3>5, <3>6, <3>8, <3>11, <3>12, <4>1, <4>2
      <4>3. CASE k # K /\ k \div 2 = K
        BY <3>5, <3>8, <3>10, <3>11, <3>12, <4>1, <4>3
      <4>4. CASE k # K /\ k \div 2 = next
        <5>1. T[k \div 2] = e /\ T[k] = H[k] /\ H[next].weight <= H[k].weight
          BY <3>8, <3>9, <3>11, <3>12, <4>1, <4>4
        <5>2. H[next].weight \in Int /\ H[k].weight \in Int
          BY <3>5, <3>8, <4>1
        <5> QED
          BY <3>6, <5>1, <5>2
      <4>5. CASE k # K /\ k \div 2 # K /\ k \div 2 # next
        BY <3>9, <3>11, <3>12, <4>1, <4>5
      <4> QED
        BY <4>2, <4>3, <4>4, <4>5
    <3>13. ASSUME NEW k \in 2 .. length, k \div 2 = next, next \div 2 >= 1
           PROVE  T[next \div 2].weight <= T[k].weight
      <4>1. /\ next \div 2 \in 1 .. length /\ next \in 2 .. length /\ next \div 2 # next
            /\ next # K /\ next \div 2 # K /\ k # next
        <5>1. next \in Nat /\ K \in Nat /\ length \in Nat /\ K >= 1 /\ k \in Nat /\ k >= 2
          BY <1>1, <3>8 DEF length
        <5> QED
          BY <3>8, <3>13, <5>1
      <4>2. T[next \div 2] = H[next \div 2] /\ H[next \div 2].weight <= H[next].weight
        BY <3>9, <3>11, <4>1
      <4>3. CASE k = K
        BY <3>11, <4>1, <4>2, <4>3
      <4>4. CASE k # K
        <5>1. T[k] = H[k] /\ H[next].weight <= H[k].weight
          BY <3>9, <3>11, <3>13, <4>1, <4>4
        <5> QED
          BY <3>5, <4>1, <4>2, <5>1
      <4> QED
        BY <4>3, <4>4
    <3>14. RisingAt(T, next)
      BY <3>2, <3>12, <3>13 DEF RisingAt
    <3>15. t \in S
      BY <3>2, <3>3, <3>14 DEF Good, T
    <3> QED
      BY <2>2, <3>1, <3>2, <3>15 DEF t, next
  <2> QED
    BY <2>3, <2>4
<1> HIDE DEF S, first
<1>7. PICK s \in S : UpheapTurn(s, e) = s /\ Upheap(h, nodes, key, e) = Placed(s, e)
  <2>1. [heap |-> h, nodes |-> nodes, key |-> key] \in S
    BY <1>5 DEF first
  <2> QED
    BY <1>1, <1>6, <2>1, UpheapEnds
<1> DEFINE H == Placed(s, e).heap
<1>8. s \in LoopStates(length, count) /\ Good(s)
  BY DEF S
<1>9. /\ H \in Seq(HeapElements) /\ Len(H) = length
      /\ Placed(s, e).nodes \in Seq(HeapNodes)
      /\ \A k \in 1 .. length : H[k] = IF k = s.key THEN e ELSE s.heap[k]
  BY <1>1, <1>8, PlacedIs
<1>10. Ordered(H)
  <2> DEFINE K == s.key
             next == s.key \div 2
  <2>1. K \in 1 .. length /\ RisingAt(H, K)
    BY <1>8 DEF LoopStates
  <2>2. ~(next > 0 /\ s.heap[next].weight > e.weight)
    <3> SUFFICES ASSUME next > 0 /\ s.heap[next].weight > e.weight PROVE FALSE
      OBVIOUS
    <3>1. s = Moved(s, next)
      BY <1>7 DEF UpheapTurn
    <3>2. s.key = next
      BY <3>1 DEF Moved
    <3> QED
      BY <1>1, <2>1, <3>2
  <2>3. K \in 2 .. length => H[K \div 2].weight <= H[K].weight
    <3> SUFFICES ASSUME K \in 2 .. length PROVE H[next].weight <= H[K].weight
      OBVIOUS
    <3>1. next \in 1 .. length /\ next # K
      BY <1>1
    <3>2. H[next] = s.heap[next] /\ H[K] = e
      BY <1>9, <2>1, <3>1
    <3>3. H[next].weight \in Int /\ e.weight \in Int
      BY <1>9, <3>1, WeightsAreIntegers DEF HeapElements
    <3> QED
      BY <2>2, <3>1, <3>2, <3>3
  <2> QED
    BY <1>9, <2>1, <2>3 DEF Ordered, RisingAt
<1> QED
  BY <1>7, <1>8, <1>9, <1>10

\* The children of a place in the heap.
LEMMA Children ==
    ASSUME NEW K \in Nat, K >= 1, NEW k \in Nat, k \div 2 = K
    PROVE  k \in {2 * K, 2 * K + 1} /\ 2 * K # K /\ 2 * K + 1 # K /\ 2 * K \in 1 .. k
  OBVIOUS

\* Downheap restores the order, and changes nothing but the places of elements.
LEMMA DownheapWorks ==
    ASSUME NEW h \in Seq(HeapElements), NEW nodes \in Seq(HeapNodes), NEW key \in 1 .. Len(h),
           NEW e \in HeapElements, e.index + 1 \in 1 .. Len(nodes), NEW out, NEW first,
           first = [heap |-> h, nodes |-> nodes, key |-> key],
           Matches(Placed(first, e).heap, Placed(first, e).nodes, out),
           SinkingAt(Placed(first, e).heap, key)
    PROVE  /\ Downheap(h, nodes, key, e).heap \in Seq(HeapElements)
           /\ Len(Downheap(h, nodes, key, e).heap) = Len(h)
           /\ Downheap(h, nodes, key, e).nodes \in Seq(HeapNodes)
           /\ Matches(Downheap(h, nodes, key, e).heap, Downheap(h, nodes, key, e).nodes, out)
           /\ SameContent(Downheap(h, nodes, key, e).nodes, Placed(first, e).nodes)
           /\ Ordered(Downheap(h, nodes, key, e).heap)
<1> DEFINE length == Len(h)
           count == Len(nodes)
           before == Placed(first, e).nodes
           Good(s) == /\ Matches(Placed(s, e).heap, Placed(s, e).nodes, out)
                      /\ SameContent(Placed(s, e).nodes, before)
                      /\ SinkingAt(Placed(s, e).heap, s.key)
           S == {s \in LoopStates(length, count) : Good(s)}
<1>1. length \in Nat /\ count \in Nat /\ key \in Nat
  OBVIOUS
<1>2. first \in LoopStates(length, count)
  BY DEF LoopStates
<1>4. SameContent(before, before)
  BY DEF SameContent
<1>5. first \in S
  BY <1>2, <1>4
<1> HIDE DEF before
<1>6. ASSUME NEW s \in S
      PROVE  /\ DownheapTurn(s, e) \in S /\ s.key \in 1 .. length
             /\ DownheapTurn(s, e) = s \/ DownheapTurn(s, e).key > s.key
  <2> DEFINE K == s.key
             left == 2 * K
             child == IF left + 1 <= Len(s.heap) /\ s.heap[left].weight > s.heap[left + 1].weight
                      THEN left + 1 ELSE left
             H == Placed(s, e).heap
             t == Moved(s, child)
             T == Placed(t, e).heap
  <2>1. s \in LoopStates(length, count) /\ Good(s)
    OBVIOUS
  <2>2. K \in 1 .. length /\ Len(s.heap) = length
    BY <2>1 DEF LoopStates
  <2>3. CASE ~(child <= Len(s.heap) /\ e.weight > s.heap[child].weight)
    <3>1. DownheapTurn(s, e) = s
      BY <2>3 DEF DownheapTurn
    <3> QED
      BY <2>2, <3>1
  <2>4. CASE child <= Len(s.heap) /\ e.weight > s.heap[child].weight
    <3>1. DownheapTurn(s, e) = t
      BY <2>4 DEF DownheapTurn
    <3>a. child \in {left, left + 1} /\ left \in Nat
      BY <2>2
    <3>b. child \in 1 .. length /\ child > K /\ child \div 2 = K
      <4> HIDE DEF child, K
      <4> QED
        BY <1>1, <2>2, <2>4, <3>a
    <3>2. /\ t \in LoopStates(length, count) /\ t.key = child
          /\ Matches(T, Placed(t, e).nodes, out)
          /\ SameContent(Placed(t, e).nodes, Placed(s, e).nodes)
          /\ Len(T) = length
          /\ \A k \in 1 .. length :
               T[k] = IF k = child THEN e ELSE IF k = s.key THEN H[child] ELSE H[k]
      <4>1. Matches(Placed(s, e).heap, Placed(s, e).nodes, out) /\ e.index + 1 \in 1 .. count
        BY <2>1
      <4> HIDE DEF length, count, child, Good, S
      <4>2. child # s.key
        BY <2>2, <3>b
      <4>3. CanMove(s, e, out, length, count, child)
        BY <1>1, <2>1, <3>b, <4>1, <4>2 DEF CanMove
      <4> QED
        BY <4>3, MovedMatches
    <3>3. SameContent(Placed(t, e).nodes, before)
      BY <2>1, <3>2 DEF SameContent
    <3>4. /\ H \in Seq(HeapElements) /\ Len(H) = length
          /\ \A k \in 1 .. length : H[k] = IF k = K THEN e ELSE s.heap[k]
      BY <1>1, <2>1, PlacedIs
    <3>5. \A k \in 1 .. length : H[k].weight \in Int
      BY <3>4, WeightsAreIntegers
    <3>6. e.weight > H[child].weight /\ e.weight \in Int
      <4>1. H[child] = s.heap[child]
        <5> HIDE DEF child, K, H
        <5> QED
          BY <2>2, <3>b, <3>4
      <4> QED
        BY <2>4, <4>1 DEF HeapElements
    <3>c. ASSUME NEW k \in 1 .. length, k \div 2 = K PROVE H[child].weight <= H[k].weight
      <4>1. k \in {left, left + 1} /\ left # K /\ left + 1 # K /\ left \in 1 .. length
        <5>1. K \in Nat /\ K >= 1 /\ k \in Nat /\ k <= length
          BY <1>1, <2>2
        <5> HIDE DEF K, length
        <5> QED
          BY <1>1, <3>c, <5>1, Children
      <4>2. H[left] = s.heap[left] /\ H[left].weight \in Int
        <5> HIDE DEF H, left, K
        <5> QED
          BY <3>4, <3>5, <4>1
      <4>3. CASE left + 1 <= length
        <5>1. H[left + 1] = s.heap[left + 1] /\ H[left + 1].weight \in Int
          <6>1. left + 1 \in 1 .. length
            BY <1>1, <4>1, <4>3
          <6> HIDE DEF H, left, K
          <6> QED
            BY <3>4, <3>5, <4>1, <6>1
        <5>2. child = IF H[left].weight > H[left + 1].weight THEN left + 1 ELSE left
          BY <2>2, <4>2, <4>3, <5>1
        <5> HIDE DEF child, H, left
        <5> QED
          BY <4>1, <4>2, <5>1, <5>2
      <4>4. CASE ~(left + 1 <= length)
        <5>1. k = left /\ child = left
          BY <1>1, <2>2, <3>c, <4>1, <4>4
        <5> HIDE DEF child, H, left
        <5> QED
          BY <4>2, <5>1
      <4> QED
        BY <4>3, <4>4
    <3>7. SinkingAt(H, K)
      BY <2>1
    <3> HIDE DEF H, T, child, left, K, t, length, Good
    <3>9. \A k \in 2 .. length : k \div 2 # K => H[k \div 2].weight <= H[k].weight
      BY <3>4, <3>7 DEF SinkingAt
    <3>10. \A k \in 2 .. length : k \div 2 = K /\ K \div 2 >= 1 => H[K \div 2].weight <= H[k].weight
      BY <3>4, <3>7 DEF SinkingAt
    <3>11. \A k \in 1 .. length : T[k] = IF k = child THEN e ELSE IF k = K THEN H[child] ELSE H[k]
      BY <3>2 DEF K
    <3>12. ASSUME NEW k \in 2 .. length, k \div 2 # child PROVE T[k \div 2].weight <= T[k].weight
      <4>1. k \div 2 \in 1 .. length /\ k \in 1 .. length /\ k \div 2 # k
        BY <1>1 DEF length
      <4>2. CASE k = child
        <5>1. T[k] = e /\ T[k \div 2] = H[child]
          BY <2>2, <3>b, <3>11, <4>1, <4>2
        <5> QED
          BY <3>5, <3>6, <3>b, <5>1
      <4>3. CASE k # child /\ k \div 2 = K
        <5>1. T[k \div 2] = H[child] /\ k # K
          BY <2>2, <3>b, <3>11, <3>12, <4>1, <4>3
        <5>2. T[k] = H[k] /\ H[child].weight <= H[k].weight
          BY <3>11, <3>c, <4>1, <4>3, <5>1
        <5> QED
          BY <5>1, <5>2
      <4>4. CASE k # child /\ k = K
        <5>1. T[k] = H[child] /\ T[k \div 2] = H[K \div 2]
          BY <2>2, <3>11, <3>12, <4>1, <4>4
        <5>2. child \in 2 .. length /\ K \div 2 >= 1
          BY <2>2, <3>b, <4>1, <4>4
        <5> QED
          BY <3>b, <3>10, <5>1, <5>2
      <4>5. CASE k # child /\ k # K /\ k \div 2 # K
        BY <3>9, <3>11, <3>12, <4>1, <4>5
      <4> QED
        BY <4>2, <4>3, <4>4, <4>5
    <3>13. ASSUME NEW k \in 2 .. length, k \div 2 = child, child \div 2 >= 1
           PROVE  T[child \div 2].weight <= T[k].weight
      <4>1. k \in 1 .. length /\ k # child /\ k # K /\ k \div 2 # K
        BY <1>1, <2>2, <3>b, <3>13 DEF length
      <4>2. T[k] = H[k] /\ H[child].weight <= H[k].weight
        BY <3>9, <3>11, <3>13, <4>1
      <4>3. T[child \div 2] = H[child]
        BY <2>2, <3>b, <3>11
      <4> QED
        BY <4>2, <4>3
    <3>14. SinkingAt(T, child)
      BY <3>2, <3>12, <3>13 DEF SinkingAt
    <3>15. t \in S
      BY <3>2, <3>3, <3>14 DEF Good, T
    <3> QED
      BY <2>2, <3>1, <3>2, <3>15, <3>b DEF t, K
  <2> QED
    BY <2>3, <2>4
<1> HIDE DEF S
<1>7. PICK s \in S : DownheapTurn(s, e) = s /\ Downheap(h, nodes, key, e) = Placed(s, e)
  <2>1. [heap |-> h, nodes |-> nodes, key |-> key] \in S
    BY <1>5
  <2>2. \A s \in S : /\ DownheapTurn(s, e) \in S /\ s.key \in 1 .. Len(h)
                     /\ DownheapTurn(s, e) = s \/ DownheapTurn(s, e).key > s.key
    BY <1>6
  <2>3. Len(h) \in Nat
    OBVIOUS
  <2> QED
    BY <1>1, <2>1, <2>2, <2>3, DownheapEnds
<1> DEFINE H == Placed(s, e).heap
<1>8. s \in LoopStates(length, count) /\ Good(s)
  BY DEF S
<1>9. /\ H \in Seq(HeapElements) /\ Len(H) = length
      /\ Placed(s, e).nodes \in Seq(HeapNodes)
      /\ \A k \in 1 .. length : H[k] = IF k = s.key THEN e ELSE s.heap[k]
  BY <1>1, <1>8, PlacedIs
<1>10. Ordered(H)
  <2> DEFINE K == s.key
             left == 2 * K
             child == IF left + 1 <= Len(s.heap) /\ s.heap[left].weight > s.heap[left + 1].weight
                      THEN left + 1 ELSE left
  <2>1. K \in 1 .. length /\ SinkingAt(H, K) /\ Len(s.heap) = length
    BY <1>8 DEF LoopStates
  <2>2. ~(child <= length /\ e.weight > s.heap[child].weight)
    <3> SUFFICES ASSUME child <= length /\ e.weight > s.heap[child].weight PROVE FALSE
      OBVIOUS
    <3>1. s = Moved(s, child)
      BY <1>7, <2>1 DEF DownheapTurn
    <3>2. s.key = child
      <4> HIDE DEF child
      <4>1. Moved(s, child).key = child
        BY DEF Moved
      <4> QED
        BY <3>1, <4>1
    <3>3. child \in {left, left + 1}
      OBVIOUS
    <3> HIDE DEF child
    <3> QED
      BY <1>1, <2>1, <3>2, <3>3
  <2>3. ASSUME NEW k \in 2 .. length, k \div 2 = K PROVE H[k \div 2].weight <= H[k].weight
    <3>1. k \in {left, left + 1} /\ left # K /\ left + 1 # K /\ left \in 1 .. length /\ k \in 1 .. length
      <4>1. K \in Nat /\ K >= 1 /\ k \in Nat /\ k <= length /\ k >= 2
        BY <1>1, <2>1
      <4> HIDE DEF K, length
      <4> QED
        BY <1>1, <2>3, <4>1, Children
    <3>a. \A j \in 1 .. length : H[j].weight \in Int
      BY <1>9, WeightsAreIntegers
    <3>b. e.weight \in Int
      BY DEF HeapElements
    <3>2. H[K] = e /\ H[left] = s.heap[left] /\ H[left].weight \in Int
      <4> HIDE DEF H, left, K
      <4> QED
        BY <1>9, <2>1, <3>1, <3>a DEF K
    <3>3. CASE left + 1 <= length
      <4>1. H[left + 1] = s.heap[left + 1] /\ H[left + 1].weight \in Int
        <5>1. left + 1 \in 1 .. length
          BY <1>1, <3>1, <3>3
        <5> HIDE DEF H, left, K
        <5> QED
          BY <1>9, <3>1, <3>a, <5>1 DEF K
      <4>2. child = IF H[left].weight > H[left + 1].weight THEN left + 1 ELSE left
        BY <2>1, <3>2, <3>3, <4>1
      <4>3. child <= length /\ s.heap[child] = H[child]
        <5> HIDE DEF child, H, left
        <5> QED
          BY <1>1, <3>1, <3>2, <3>3, <4>1, <4>2
      <4>4. ~(e.weight > H[child].weight)
        BY <2>2, <4>3
      <4> HIDE DEF child, H, left, K
      <4>5. H[child].weight \in Int /\ H[child].weight <= H[k].weight
        BY <3>1, <3>2, <4>1, <4>2, SMTT(60)
      <4> QED
        BY <2>3, <3>1, <3>2, <3>a, <3>b, <4>4, <4>5
    <3>4. CASE ~(left + 1 <= length)
      <4>1. k = left /\ child = left
        BY <1>1, <2>1, <3>1, <3>4
      <4>2. child <= length
        BY <1>1, <3>1, <4>1
      <4> HIDE DEF child, H, left, K
      <4> QED
        BY <2>2, <2>3, <3>2, <3>b, <4>1, <4>2
    <3> QED
      BY <3>3, <3>4
  <2> QED
    BY <1>9, <2>1, <2>3 DEF Ordered, SinkingAt
<1> QED
  BY <1>7, <1>8, <1>9, <1>10 DEF before

\* The root of an ordered heap has the smallest weight.
LEMMA RootIsLeast ==
    ASSUME NEW h \in Seq(HeapElements), Ordered(h)
    PROVE  \A k \in 1 .. Len(h) : h[1].weight <= h[k].weight
<1> DEFINE Less == {k \in 1 .. Len(h) : ~(h[1].weight <= h[k].weight)}
<1> SUFFICES ASSUME Less # {} PROVE FALSE
  OBVIOUS
<1>0. \A k \in 1 .. Len(h) : h[k].weight \in Int
  BY WeightsAreIntegers
<1>1. Less \subseteq Nat
  OBVIOUS
<1>2. PICK x \in Less : \A y \in Less : x <= y
  <2> HIDE DEF Less
  <2> QED
    BY <1>1, LeastNumber
<1>3. x \in 1 .. Len(h) /\ x # 1
  BY <1>0
<1>4. x \div 2 \in 1 .. Len(h) /\ x \div 2 < x /\ x \in 2 .. Len(h) /\ 1 \in 1 .. Len(h)
  BY <1>3
<1>5. h[1].weight <= h[x \div 2].weight
  BY <1>2, <1>4
<1>6. h[x \div 2].weight <= h[x].weight
  BY <1>4 DEF Ordered
<1> QED
  BY <1>0, <1>2, <1>3, <1>4, <1>5, <1>6

-----------------------------------------------------------------------------
(* The hash table *)

Cells == [key : Nat, id : NodeIDs \cup {NoKey}, time : Nat]
Storages == [positions : [0 .. TableSize - 1 -> Cells], current_timestamp : Nat]

\* The cell that operator[] finds for the node is its own and has the key.
Holds(s, node, key) ==
    \E i \in 0 .. TableSize - 1 :
      /\ IsFirst(s, node, i)
      /\ s.positions[Probe(node, i)] = [key |-> key, id |-> node, time |-> s.current_timestamp]

\* Probing stays in the table.
LEMMA ProbeInTable ==
    ASSUME NEW node \in HashedNodes, NEW i \in 0 .. TableSize - 1
    PROVE  Probe(node, i) \in 0 .. TableSize - 1
<1>1. TableSize \in Nat /\ TableSize > 0 /\ fast_hasher[node] \in Nat
  BY StorageAssumption, NodesAssumption
<1>2. fast_hasher[node] + i \in Nat
  BY <1>1
<1> QED
  BY <1>1, <1>2 DEF Probe

\* There is only one first cell.
LEMMA FirstIsUnique ==
    ASSUME NEW s, NEW node, NEW i \in 0 .. TableSize - 1, NEW j \in 0 .. TableSize - 1,
           IsFirst(s, node, i), IsFirst(s, node, j)
    PROVE  i = j
<1>1. TableSize \in Nat
  BY StorageAssumption
<1>2. ~(i < j)
  BY <1>1 DEF IsFirst
<1>3. ~(j < i)
  BY <1>1 DEF IsFirst
<1> QED
  BY <1>1, <1>2, <1>3

\* If the loop of operator[] ends it ends at the first cell that is not taken.
LEMMA PositionIsFirst ==
    ASSUME NEW s, NEW node, Returns(s, node)
    PROVE  \E i \in 0 .. TableSize - 1 : IsFirst(s, node, i) /\ Position(s, node) = Probe(node, i)
<1> DEFINE Free == {i \in 0 .. TableSize - 1 : ~Taken(s, Probe(node, i), node)}
<1>1. Free # {} /\ Free \subseteq Nat
  BY StorageAssumption DEF Returns
<1>2. PICK x \in Free : \A y \in Free : x <= y
  <2> HIDE DEF Free
  <2> QED
    BY <1>1, LeastNumber
<1>3. x \in 0 .. TableSize - 1 /\ IsFirst(s, node, x)
  BY <1>2, StorageAssumption DEF IsFirst
<1> QED
  BY <1>3 DEF Position

\* A node that the table holds is found with its key.
LEMMA HoldsKey ==
    ASSUME NEW s, NEW node, NEW key, Holds(s, node, key)
    PROVE  Returns(s, node) /\ KeyOf(s, node) = key
<1>1. PICK i \in 0 .. TableSize - 1 :
        /\ IsFirst(s, node, i)
        /\ s.positions[Probe(node, i)] = [key |-> key, id |-> node, time |-> s.current_timestamp]
  BY DEF Holds
<1>2. Returns(s, node)
  BY <1>1 DEF Returns, IsFirst
<1>3. Position(s, node) = Probe(node, i)
  BY <1>1, <1>2, PositionIsFirst, FirstIsUnique
<1> QED
  BY <1>1, <1>2, <1>3 DEF KeyOf

\* Taking a cell for a node leaves the other nodes' cells alone.
LEMMA CellTaken ==
    ASSUME NEW s \in Storages, NEW node \in HashedNodes, Returns(s, node), NEW key \in Nat, NEW t,
           t = [s EXCEPT !.positions[Position(s, node)] =
                  [key |-> key, id |-> node, time |-> s.current_timestamp]]
    PROVE  /\ t \in Storages
           /\ Holds(t, node, key)
           /\ \A m \in HashedNodes, k \in Nat : m # node /\ Holds(s, m, k) => Holds(t, m, k)
<1>1. PICK d \in 0 .. TableSize - 1 : IsFirst(s, node, d) /\ Position(s, node) = Probe(node, d)
  BY PositionIsFirst
<1> DEFINE P == Position(s, node)
           now == s.current_timestamp
           cell == [key |-> key, id |-> node, time |-> now]
<1>2. P \in 0 .. TableSize - 1 /\ ~Taken(s, P, node)
  BY <1>1, ProbeInTable DEF IsFirst
<1>3. cell \in Cells
  BY NodesAssumption DEF Cells, Storages
<1>4. t = [s EXCEPT !.positions[P] = cell]
  OBVIOUS
<1>5. s.positions \in [0 .. TableSize - 1 -> Cells] /\ now \in Nat
  BY DEF Storages
<1> HIDE DEF P, now
<1>6. /\ t.current_timestamp = now
      /\ t.positions = [s.positions EXCEPT ![P] = cell]
  BY <1>4 DEF Storages, now
<1>7. t \in Storages
  <2>1. [s.positions EXCEPT ![P] = cell] \in [0 .. TableSize - 1 -> Cells]
    BY <1>2, <1>3, <1>5
  <2>2. t = [s EXCEPT !.positions = [s.positions EXCEPT ![P] = cell]]
    BY <1>4
  <2> DEFINE new == [s.positions EXCEPT ![P] = cell]
  <2> HIDE DEF new
  <2>3. [s EXCEPT !.positions = new] \in Storages
    BY <2>1 DEF Storages, new
  <2> QED
    BY <2>2, <2>3 DEF new
<1>8. \A p \in 0 .. TableSize - 1 : t.positions[p] = IF p = P THEN cell ELSE s.positions[p]
  BY <1>2, <1>5, <1>6
<1> HIDE DEF cell
<1>9. cell.key = key /\ cell.id = node /\ cell.time = now
  BY DEF cell
<1>10. ASSUME NEW m \in HashedNodes, m # node, NEW p \in 0 .. TableSize - 1, Taken(s, p, m)
       PROVE  Taken(t, p, m)
  BY <1>6, <1>8, <1>9, <1>10 DEF Taken, now
<1>11. ASSUME NEW p \in 0 .. TableSize - 1, Taken(s, p, node)
       PROVE  Taken(t, p, node)
  BY <1>2, <1>6, <1>8, <1>11 DEF Taken, now
<1>12. Holds(t, node, key)
  <2>1. Probe(node, d) = P
    BY <1>1 DEF P
  <2>2. ~Taken(t, P, node)
    BY <1>2, <1>8, <1>9 DEF Taken
  <2>3. \A j \in 0 .. d - 1 : Taken(t, Probe(node, j), node)
    <3> TAKE j \in 0 .. d - 1
    <3>1. j \in 0 .. TableSize - 1
      BY StorageAssumption
    <3> QED
      BY <1>1, <1>11, <3>1, ProbeInTable DEF IsFirst
  <2>4. IsFirst(t, node, d)
    BY <2>1, <2>2, <2>3 DEF IsFirst
  <2>5. t.positions[Probe(node, d)] = [key |-> key, id |-> node, time |-> t.current_timestamp]
    BY <1>2, <1>6, <1>8, <2>1 DEF cell
  <2> QED
    BY <2>4, <2>5 DEF Holds
<1>13. ASSUME NEW m \in HashedNodes, NEW k \in Nat, m # node, Holds(s, m, k) PROVE Holds(t, m, k)
  <2>1. PICK i \in 0 .. TableSize - 1 :
          IsFirst(s, m, i) /\ s.positions[Probe(m, i)] = [key |-> k, id |-> m, time |-> now]
    BY <1>13 DEF Holds, now
  <2>2. Probe(m, i) \in 0 .. TableSize - 1
    BY ProbeInTable
  <2>3. Probe(m, i) # P
    BY <1>2, <1>13, <2>1 DEF Taken, now
  <2>4. t.positions[Probe(m, i)] = [key |-> k, id |-> m, time |-> now]
    BY <1>8, <2>1, <2>2, <2>3
  <2>5. \A j \in 0 .. i - 1 : Taken(t, Probe(m, j), m)
    <3> TAKE j \in 0 .. i - 1
    <3>1. j \in 0 .. TableSize - 1
      BY StorageAssumption
    <3> QED
      BY <1>10, <1>13, <2>1, <3>1, ProbeInTable DEF IsFirst
  <2>6. ~Taken(t, Probe(m, i), m)
    BY <2>4 DEF Taken
  <2> QED
    BY <1>6, <2>4, <2>5, <2>6 DEF Holds, IsFirst
<1> QED
  BY <1>7, <1>12, <1>13

-----------------------------------------------------------------------------
(* The invariant *)

Count == Len(inserted_nodes)

HeapInv ==
    /\ heap \in Seq(HeapElements) /\ inserted_nodes \in Seq(HeapNodes)
    /\ Matches(heap, inserted_nodes, {}) /\ Ordered(heap)

\* The storage knows where every inserted node is; what it says of others is only a hint.
IndexInv ==
    /\ storage \in {"array", "map", "hash"}
    /\ \A i \in 1 .. Count : inserted_nodes[i].node \in Nodes
    /\ \A i, j \in 1 .. Count : inserted_nodes[i].node = inserted_nodes[j].node => i = j
    /\ IF Hashed
       THEN /\ node_index \in Storages
            /\ \A i \in 1 .. Count : Holds(node_index, inserted_nodes[i].node, i - 1)
       ELSE /\ node_index \in [NodeIDs -> Nat]
            /\ \A i \in 1 .. Count : node_index[inserted_nodes[i].node] = i - 1

Inv == HeapInv /\ IndexInv

\* The entries of the priority queue, as the refinement sees them.
Entries == [n \in inserted |-> [weight |-> GetKey(n), removed |-> WasRemoved(n)]]

\* They are those of the inserted nodes.
View ==
    /\ inserted = {inserted_nodes[i].node : i \in 1 .. Count}
    /\ \A i \in 1 .. Count :
         Entries[inserted_nodes[i].node] = [weight |-> inserted_nodes[i].weight,
                                            removed |-> inserted_nodes[i].key = 0]

\* Every inserted node is found under its index, and no other node is taken for inserted.
LEMMA IndexFound ==
    ASSUME Inv
    PROVE  /\ Count \in Nat /\ Nodes \subseteq NodeIDs
           /\ \A i \in 1 .. Count : Found(inserted_nodes[i].node) /\ Index(inserted_nodes[i].node) = i - 1
           /\ \A n \in Nodes : Found(n) => Index(n) \in Nat
<1>1. Count \in Nat
  BY DEF Inv, HeapInv, Count
<1>2. Nodes \subseteq NodeIDs /\ (Hashed => Nodes = HashedNodes)
  BY NodesAssumption DEF Nodes
<1>3. ASSUME NEW i \in 1 .. Count
      PROVE  Found(inserted_nodes[i].node) /\ Index(inserted_nodes[i].node) = i - 1
  <2>1. CASE Hashed
    BY <2>1, HoldsKey DEF Inv, IndexInv, Found, Index
  <2>2. CASE ~Hashed
    BY <2>2 DEF Inv, IndexInv, Found, Index
  <2> QED
    BY <2>1, <2>2
<1>4. ASSUME NEW n \in Nodes, Found(n) PROVE Index(n) \in Nat
  <2>1. CASE Hashed
    <3>1. node_index \in Storages /\ Returns(node_index, n)
      BY <1>4, <2>1 DEF Inv, IndexInv, Found
    <3>2. Position(node_index, n) \in 0 .. TableSize - 1
      BY <1>2, <2>1, <3>1, PositionIsFirst, ProbeInTable
    <3>3. node_index.positions[Position(node_index, n)] \in Cells
      BY <3>1, <3>2 DEF Storages
    <3> QED
      BY <2>1, <3>3 DEF Index, KeyOf, Cells
  <2>2. CASE ~Hashed
    BY <1>2, <2>2 DEF Inv, IndexInv, Index
  <2> QED
    BY <2>1, <2>2
<1> QED
  BY <1>1, <1>2, <1>3, <1>4

\* What the refinement sees.
LEMMA InvView == Inv => View
<1> SUFFICES ASSUME Inv PROVE View
  OBVIOUS
<1>1. \A i \in 1 .. Count : inserted_nodes[i].node \in Nodes
  BY DEF Inv, IndexInv
<1>2. \A i \in 1 .. Count : At(i - 1) = inserted_nodes[i]
  <2> TAKE i \in 1 .. Count
  <2>1. (i - 1) + 1 = i
    BY IndexFound
  <2> QED
    BY <2>1 DEF At
<1>3. ASSUME NEW i \in 1 .. Count PROVE inserted_nodes[i].node \in inserted
  <2>1. Found(inserted_nodes[i].node) /\ Index(inserted_nodes[i].node) = i - 1
    BY IndexFound
  <2>2. i - 1 < Count
    BY IndexFound
  <2> QED
    BY <1>1, <1>2, <2>1, <2>2 DEF inserted, WasInserted, Count
<1>4. ASSUME NEW n \in inserted PROVE \E i \in 1 .. Count : inserted_nodes[i].node = n
  <2>1. n \in Nodes /\ Found(n) /\ Index(n) < Count /\ At(Index(n)).node = n
    BY DEF inserted, WasInserted, Count
  <2>2. Index(n) \in Nat /\ Count \in Nat
    BY <2>1, IndexFound
  <2>3. Index(n) + 1 \in 1 .. Count
    BY <2>1, <2>2
  <2> QED
    BY <2>1, <2>3 DEF At
<1>5. inserted = {inserted_nodes[i].node : i \in 1 .. Count}
  BY <1>3, <1>4
<1>6. ASSUME NEW i \in 1 .. Count
      PROVE  Entries[inserted_nodes[i].node] = [weight |-> inserted_nodes[i].weight,
                                                removed |-> inserted_nodes[i].key = 0]
  <2>1. Index(inserted_nodes[i].node) = i - 1
    BY IndexFound
  <2> QED
    BY <1>2, <1>3, <2>1 DEF Entries, GetKey, WasRemoved
<1> QED
  BY <1>5, <1>6 DEF View

\* The empty heap.
LEMMA EmptyHeap ==
    ASSUME heap = <<>>, inserted_nodes = <<>>
    PROVE  HeapInv /\ Count = 0
<1>1. Len(<<>>) = 0
  OBVIOUS
<1> QED
  BY <1>1 DEF HeapInv, Matches, Ordered, Count

\* An emptied table is a table.
LEMMA ClearedType ==
    ASSUME NEW s \in Storages
    PROVE  ClearedStorage(s) \in Storages
<1> DEFINE now == (s.current_timestamp + 1) % (MaxTimestamp + 1)
<1>1. s.current_timestamp \in Nat /\ s.positions \in [0 .. TableSize - 1 -> Cells]
  BY DEF Storages
<1>2. MaxTimestamp \in Nat
  BY StorageAssumption
<1>3. now \in Nat
  BY <1>1, <1>2
<1>4. Positions \in [0 .. TableSize - 1 -> Cells]
  BY <1>2 DEF Positions, HashCell, Cells, NoKey
<1> HIDE DEF now
<1>5. ClearedStorage(s) = [positions |-> IF now = MaxTimestamp THEN Positions ELSE s.positions,
                           current_timestamp |-> now]
  BY DEF ClearedStorage, now
<1> QED
  BY <1>1, <1>3, <1>4, <1>5 DEF Storages

\* Initially nothing is inserted.
LEMMA InitInv == Init => Inv
<1> SUFFICES ASSUME Init PROVE Inv
  OBVIOUS
<1>1. HeapInv /\ Count = 0 /\ storage \in {"array", "map", "hash"}
  BY EmptyHeap DEF Init
<1>2. CASE Hashed
  <2>1. EmptyStorage \in Storages
    <3>1. Positions \in [0 .. TableSize - 1 -> Cells]
      BY StorageAssumption DEF Positions, HashCell, Cells, NoKey
    <3> QED
      BY <3>1 DEF EmptyStorage, Storages
  <2>2. node_index \in Storages
    BY <1>2, <2>1, ClearedType DEF Init
  <2> QED
    BY <1>1, <1>2, <2>2 DEF Inv, IndexInv
<1>3. CASE ~Hashed
  <2>1. node_index \in [NodeIDs -> Nat]
    BY <1>3 DEF Init
  <2> QED
    BY <1>1, <1>3, <2>1 DEF Inv, IndexInv
<1> QED
  BY <1>2, <1>3

-----------------------------------------------------------------------------
(* The heap under its operations *)

\* Insert appends an element and lets it rise.
LEMMA InsertHeap ==
    ASSUME NEW h \in Seq(HeapElements), NEW nodes \in Seq(HeapNodes),
           Matches(h, nodes, {}), Ordered(h),
           NEW node \in NodeIDs, NEW weight \in Int, NEW e, NEW new, NEW after,
           e = [index |-> Len(nodes), weight |-> weight],
           new = Append(nodes, [node |-> node, key |-> Len(h) + 1, weight |-> weight]),
           after = Upheap(Append(h, e), new, Len(h) + 1, e)
    PROVE  /\ after.heap \in Seq(HeapElements) /\ after.nodes \in Seq(HeapNodes)
           /\ Matches(after.heap, after.nodes, {}) /\ Ordered(after.heap)
           /\ SameContent(after.nodes, new)
<1> DEFINE key == Len(h) + 1
           g == Append(h, e)
           x == [node |-> node, key |-> key, weight |-> weight]
<1>1. Len(h) \in Nat /\ Len(nodes) \in Nat /\ key \in Nat
  OBVIOUS
<1>2. e \in HeapElements /\ e.index + 1 = Len(nodes) + 1 /\ e.weight = weight
  BY <1>1 DEF HeapElements
<1>3. x \in HeapNodes /\ x.key = key /\ x.weight = weight
  BY <1>1 DEF HeapNodes
<1> HIDE DEF x
<1>4. /\ g \in Seq(HeapElements) /\ Len(g) = key /\ g[key] = e
      /\ \A k \in 1 .. Len(h) : g[k] = h[k]
  BY <1>1, <1>2
<1>5. /\ new \in Seq(HeapNodes) /\ Len(new) = Len(nodes) + 1 /\ new[Len(nodes) + 1] = x
      /\ \A i \in 1 .. Len(nodes) : new[i] = nodes[i]
  BY <1>1, <1>3 DEF x
<1> HIDE DEF g, key
<1>6. Matches(g, new, {})
  <2>1. ASSUME NEW k \in 1 .. Len(g)
        PROVE  /\ g[k].index + 1 \in 1 .. Len(new)
               /\ new[g[k].index + 1].key = k /\ new[g[k].index + 1].weight = g[k].weight
    <3>1. CASE k = key
      BY <1>1, <1>2, <1>3, <1>4, <1>5, <3>1
    <3>2. CASE k \in 1 .. Len(h)
      <4>1. /\ h[k].index + 1 \in 1 .. Len(nodes)
            /\ nodes[h[k].index + 1].key = k /\ nodes[h[k].index + 1].weight = h[k].weight
        BY <3>2 DEF Matches
      <4>2. h[k].index + 1 \in 1 .. Len(new)
        BY <1>1, <1>5, <4>1
      <4> QED
        BY <1>4, <1>5, <3>2, <4>1, <4>2
    <3> QED
      BY <1>1, <1>4, <3>1, <3>2 DEF key
  <2>2. ASSUME NEW i \in 1 .. Len(new), new[i].key # 0
        PROVE  new[i].key \in 1 .. Len(g) /\ g[new[i].key].index + 1 = i
    <3>1. CASE i = Len(nodes) + 1
      BY <1>1, <1>2, <1>3, <1>4, <1>5, <3>1 DEF key
    <3>2. CASE i \in 1 .. Len(nodes)
      <4>1. nodes[i].key \in 1 .. Len(h) /\ h[nodes[i].key].index + 1 = i
        BY <1>5, <2>2, <3>2 DEF Matches
      <4>2. nodes[i].key \in 1 .. Len(g)
        BY <1>1, <1>4, <4>1 DEF key
      <4> QED
        BY <1>4, <1>5, <3>2, <4>1, <4>2
    <3> QED
      BY <1>1, <1>5, <3>1, <3>2
  <2> QED
    BY <2>1, <2>2 DEF Matches
<1>7. RisingAt(g, key)
  <2>1. ASSUME NEW k \in 2 .. key, k # key PROVE g[k \div 2].weight <= g[k].weight
    <3>1. k \in 1 .. Len(h) /\ k \div 2 \in 1 .. Len(h) /\ k \in 2 .. Len(h)
      BY <1>1, <2>1 DEF key
    <3> QED
      BY <1>4, <3>1 DEF Ordered
  <2>2. \A k \in 2 .. key : k \div 2 # key
    BY <1>1 DEF key
  <2> QED
    BY <1>4, <2>1, <2>2 DEF RisingAt
<1>8. key \in 1 .. Len(g) /\ e.index + 1 \in 1 .. Len(new) /\ new[e.index + 1].key = key
  BY <1>1, <1>2, <1>3, <1>4, <1>5 DEF key
<1>9. after = Upheap(g, new, key, e)
  BY DEF g, key
<1> QED
  BY <1>2, <1>4, <1>5, <1>6, <1>7, <1>8, <1>9, UpheapWorks

\* g and new are h and nodes after an element and its node got a smaller weight.
Lightened(h, nodes, i, key, weight, e, x, g, new) ==
    /\ h \in Seq(HeapElements) /\ nodes \in Seq(HeapNodes)
    /\ Matches(h, nodes, {}) /\ Ordered(h)
    /\ i \in 1 .. Len(nodes) /\ key \in 1 .. Len(h)
    /\ key = nodes[i].key /\ h[key].index + 1 = i
    /\ weight \in Int /\ weight < h[key].weight
    /\ e \in HeapElements /\ e.index = h[key].index /\ e.weight = weight
    /\ x.key = key /\ x.weight = weight
    /\ g \in Seq(HeapElements) /\ Len(g) = Len(h)
    /\ \A k \in 1 .. Len(h) : g[k] = IF k = key THEN e ELSE h[k]
    /\ new \in Seq(HeapNodes) /\ Len(new) = Len(nodes)
    /\ \A j \in 1 .. Len(nodes) : new[j] = IF j = i THEN x ELSE nodes[j]

\* The lighter element rises.
LEMMA LighterRises ==
    ASSUME NEW h, NEW nodes, NEW i, NEW key, NEW weight, NEW e, NEW x, NEW g, NEW new,
           Lightened(h, nodes, i, key, weight, e, x, g, new)
    PROVE  /\ Upheap(g, new, key, e).heap \in Seq(HeapElements)
           /\ Upheap(g, new, key, e).nodes \in Seq(HeapNodes)
           /\ Matches(Upheap(g, new, key, e).heap, Upheap(g, new, key, e).nodes, {})
           /\ Ordered(Upheap(g, new, key, e).heap)
           /\ SameContent(Upheap(g, new, key, e).nodes, new)
<1>0. Lightened(h, nodes, i, key, weight, e, x, g, new)!:
  BY DEF Lightened
<1> USE <1>0
<1>1. Len(h) \in Nat /\ Len(nodes) \in Nat /\ key \in 1 .. Len(h) /\ h[key].index + 1 = i
  OBVIOUS
<1>3. e.index = h[key].index /\ e.weight = weight
  OBVIOUS
<1>4. x.key = nodes[i].key /\ x.weight = weight
  OBVIOUS
<1>6. Len(g) = Len(h) /\ \A k \in 1 .. Len(h) : g[k] = IF k = key THEN e ELSE h[k]
  OBVIOUS
<1>7. Len(new) = Len(nodes) /\ \A j \in 1 .. Len(nodes) : new[j] = IF j = i THEN x ELSE nodes[j]
  OBVIOUS
<1>9. Matches(g, new, {})
  <2>1. ASSUME NEW k \in 1 .. Len(g)
        PROVE  /\ g[k].index + 1 \in 1 .. Len(new)
               /\ new[g[k].index + 1].key = k /\ new[g[k].index + 1].weight = g[k].weight
    <3>1. CASE k = key
      BY <1>1, <1>3, <1>4, <1>6, <1>7, <3>1
    <3>2. CASE k # key
      <4>1. /\ h[k].index + 1 \in 1 .. Len(nodes) /\ g[k] = h[k]
            /\ nodes[h[k].index + 1].key = k /\ nodes[h[k].index + 1].weight = h[k].weight
        BY <1>6, <3>2 DEF Matches
      <4>2. h[k].index + 1 # i
        BY <3>2, <4>1
      <4> QED
        BY <1>7, <4>1, <4>2
    <3> QED
      BY <3>1, <3>2
  <2>2. ASSUME NEW j \in 1 .. Len(new), new[j].key # 0
        PROVE  new[j].key \in 1 .. Len(g) /\ g[new[j].key].index + 1 = j
    <3>1. CASE j = i
      BY <1>1, <1>3, <1>4, <1>6, <1>7, <3>1
    <3>2. CASE j # i
      <4>1. new[j] = nodes[j] /\ nodes[j].key \in 1 .. Len(h) /\ h[nodes[j].key].index + 1 = j
        BY <1>7, <2>2, <3>2 DEF Matches
      <4>2. nodes[j].key # key
        BY <1>1, <3>2, <4>1
      <4> QED
        BY <1>6, <4>1, <4>2
    <3> QED
      BY <3>1, <3>2
  <2> QED
    BY <2>1, <2>2 DEF Matches
<1>10. RisingAt(g, key)
  <2>0. \A k \in 1 .. Len(h) : h[k].weight \in Int
    BY WeightsAreIntegers
  <2>1. \A k \in 2 .. Len(h) : k \in 1 .. Len(h) /\ k \div 2 \in 1 .. Len(h)
    BY <1>1
  <2>2. ASSUME NEW k \in 2 .. Len(g), k # key PROVE g[k \div 2].weight <= g[k].weight
    <3>1. g[k] = h[k] /\ h[k \div 2].weight <= h[k].weight /\ k \div 2 \in 1 .. Len(h)
      BY <1>6, <2>1, <2>2 DEF Ordered
    <3>2. CASE k \div 2 = key
      <4>1. g[k \div 2].weight = weight /\ weight < h[k \div 2].weight
        BY <1>1, <1>3, <1>6, <3>1, <3>2
      <4> QED
        BY <1>6, <2>0, <2>1, <3>1, <4>1
    <3>3. CASE k \div 2 # key
      BY <1>6, <3>1, <3>3
    <3> QED
      BY <3>2, <3>3
  <2>3. ASSUME NEW k \in 2 .. Len(g), k \div 2 = key, key \div 2 >= 1
        PROVE  g[key \div 2].weight <= g[k].weight
    <3>1. /\ k # key /\ key \div 2 # key /\ key \in 2 .. Len(h) /\ key \div 2 \in 1 .. Len(h)
          /\ k \in 1 .. Len(h)
      BY <1>1, <1>6, <2>3
    <3>2. g[k] = h[k] /\ g[key \div 2] = h[key \div 2]
      BY <1>6, <3>1
    <3>3. h[key \div 2].weight <= h[key].weight /\ h[key].weight <= h[k].weight
      BY <1>6, <2>3, <3>1 DEF Ordered
    <3> QED
      BY <1>1, <2>0, <3>1, <3>2, <3>3
  <2> QED
    BY <2>2, <2>3 DEF RisingAt
<1>11. /\ key \in 1 .. Len(g) /\ e.index + 1 \in 1 .. Len(new) /\ new[e.index + 1].key = key
       /\ g[key] = e
  BY <1>1, <1>3, <1>4, <1>6, <1>7
<1> QED
  BY <1>9, <1>10, <1>11, UpheapWorks

\* DecreaseKey changes the weight of an element and its node and lets the element rise.
LEMMA DecreaseHeap ==
    ASSUME NEW h \in Seq(HeapElements), NEW nodes \in Seq(HeapNodes),
           Matches(h, nodes, {}), Ordered(h),
           NEW i \in 1 .. Len(nodes), nodes[i].key # 0,
           NEW weight \in Int, weight < nodes[i].weight, NEW key, NEW e, NEW new, NEW after,
           key = nodes[i].key, e = [h[key] EXCEPT !.weight = weight],
           new = [nodes EXCEPT ![i].weight = weight],
           after = Upheap([h EXCEPT ![key] = e], new, key, e)
    PROVE  /\ after.heap \in Seq(HeapElements) /\ after.nodes \in Seq(HeapNodes)
           /\ Matches(after.heap, after.nodes, {}) /\ Ordered(after.heap)
           /\ SameContent(after.nodes, new)
<1> DEFINE k == nodes[i].key
           f == [h[k] EXCEPT !.weight = weight]
           g == [h EXCEPT ![k] = f]
           x == [nodes[i] EXCEPT !.weight = weight]
           y == [nodes EXCEPT ![i] = x]
<1>1. k \in 1 .. Len(h) /\ h[k].index + 1 = i /\ h[k].weight = nodes[i].weight
  BY DEF Matches
<1>2. h[k] \in HeapElements /\ nodes[i] \in HeapNodes
  BY <1>1
<1>3. f \in HeapElements /\ f.index = h[k].index /\ f.weight = weight
  BY <1>2 DEF HeapElements
<1>4. x \in HeapNodes /\ x.key = k /\ x.weight = weight
  BY <1>2 DEF HeapNodes
<1>5. new = y /\ key = k /\ e = f /\ after = Upheap(g, y, k, f)
  OBVIOUS
<1>a. weight < h[k].weight /\ k = nodes[i].key
  BY <1>1
<1> HIDE DEF x, f, k
<1>6. /\ g \in Seq(HeapElements) /\ Len(g) = Len(h)
      /\ \A j \in 1 .. Len(h) : g[j] = IF j = k THEN f ELSE h[j]
  BY <1>1, <1>3, Replaced
<1>7. /\ y \in Seq(HeapNodes) /\ Len(y) = Len(nodes)
      /\ \A j \in 1 .. Len(nodes) : y[j] = IF j = i THEN x ELSE nodes[j]
  BY <1>4, Replaced
<1> HIDE DEF g, y
<1>8. /\ Upheap(g, y, k, f).heap \in Seq(HeapElements)
      /\ Upheap(g, y, k, f).nodes \in Seq(HeapNodes)
      /\ Matches(Upheap(g, y, k, f).heap, Upheap(g, y, k, f).nodes, {})
      /\ Ordered(Upheap(g, y, k, f).heap)
      /\ SameContent(Upheap(g, y, k, f).nodes, y)
  <2>1. Lightened(h, nodes, i, k, weight, f, x, g, y)
    BY <1>1, <1>3, <1>4, <1>6, <1>7, <1>a DEF Lightened
  <2> QED
    BY <2>1, LighterRises
<1> QED
  BY <1>5, <1>8

\* new is nodes with one node marked as removed.
Cleared(new, nodes, i) ==
    /\ new \in Seq(HeapNodes) /\ Len(new) = Len(nodes)
    /\ \A j \in 1 .. Len(nodes) :
         /\ new[j].node = nodes[j].node /\ new[j].weight = nodes[j].weight
         /\ new[j].key = IF j = i THEN 0 ELSE nodes[j].key

\* Marking a node as removed.
LEMMA KeyCleared ==
    ASSUME NEW nodes \in Seq(HeapNodes), NEW i \in 1 .. Len(nodes)
    PROVE  Cleared([nodes EXCEPT ![i].key = 0], nodes, i)
<1> DEFINE zero == 0
           z == [nodes EXCEPT ![i].key = zero]
<1>1. zero \in Nat
  OBVIOUS
<1> HIDE DEF zero
<1>2. /\ z \in Seq(HeapNodes) /\ Len(z) = Len(nodes)
      /\ \A j \in 1 .. Len(nodes) :
           /\ z[j].node = nodes[j].node /\ z[j].weight = nodes[j].weight
           /\ z[j].key = IF j = i THEN zero ELSE nodes[j].key
  BY <1>1, KeySet
<1> HIDE DEF z
<1>3. Cleared(z, nodes, i)
  BY <1>2 DEF zero, Cleared
<1> QED
  BY <1>3 DEF z, zero

\* The values that DeleteMin computes.
Deleting(h, nodes, r, last, rest, after, new) ==
    /\ r = h[1].index + 1 /\ last = h[Len(h)]
    /\ rest = SubSeq([h EXCEPT ![1] = last], 1, Len(h) - 1)
    /\ after = IF rest = <<>> THEN [heap |-> rest, nodes |-> nodes]
               ELSE Downheap(rest, nodes, 1, last)
    /\ new = [after.nodes EXCEPT ![r].key = 0]

\* DeleteMin puts the last element at the root and lets it sink.
LEMMA DeleteHeap ==
    ASSUME NEW h \in Seq(HeapElements), NEW nodes \in Seq(HeapNodes),
           Matches(h, nodes, {}), Ordered(h), h # <<>>, NEW r, NEW last, NEW rest, NEW after, NEW new,
           Deleting(h, nodes, r, last, rest, after, new)
    PROVE  /\ r \in 1 .. Len(nodes) /\ nodes[r].key # 0
           /\ after.heap \in Seq(HeapElements) /\ new \in Seq(HeapNodes)
           /\ Matches(after.heap, new, {}) /\ Ordered(after.heap)
           /\ Len(new) = Len(nodes)
           /\ \A i \in 1 .. Len(nodes) :
                /\ new[i].node = nodes[i].node /\ new[i].weight = nodes[i].weight
                /\ (new[i].key = 0) <=> (i = r \/ nodes[i].key = 0)
<1>1. Len(h) \in Nat /\ Len(h) >= 1 /\ Len(nodes) \in Nat
  OBVIOUS
<1>2. 1 \in 1 .. Len(h) /\ Len(h) \in 1 .. Len(h)
  BY <1>1
<1>3. r \in 1 .. Len(nodes) /\ nodes[r].key = 1
  BY <1>2 DEF Matches, Deleting
<1>a. h[1].index + 1 = r /\ h[Len(h)] = last
  BY DEF Deleting
<1> DEFINE b == last.index + 1
<1>4. last \in HeapElements /\ b \in 1 .. Len(nodes) /\ nodes[b].key = Len(h) /\ nodes[b].weight = last.weight
  BY <1>2, <1>a DEF Matches
<1>5. /\ rest \in Seq(HeapElements) /\ Len(rest) = Len(h) - 1
      /\ \A k \in 1 .. Len(h) - 1 : rest[k] = IF k = 1 THEN last ELSE h[k]
  <2> DEFINE g == [h EXCEPT ![1] = last]
  <2>1. /\ g \in Seq(HeapElements) /\ Len(g) = Len(h)
        /\ \A k \in 1 .. Len(h) : g[k] = IF k = 1 THEN last ELSE h[k]
    BY <1>2, <1>4, Replaced
  <2>2. rest = SubSeq(g, 1, Len(h) - 1)
    BY DEF Deleting
  <2> HIDE DEF g
  <2>3. rest \in Seq(HeapElements) /\ Len(rest) = Len(h) - 1
    BY <1>1, <2>1, <2>2
  <2>4. \A k \in 1 .. Len(h) - 1 : rest[k] = g[k]
    BY <1>1, <2>1, <2>2
  <2> QED
    BY <1>1, <2>1, <2>3, <2>4
<1>b. new = [after.nodes EXCEPT ![r].key = 0]
  BY DEF Deleting
<1>6. CASE Len(h) = 1
  <2>1. rest = <<>>
    BY <1>5, <1>6
  <2>2. after.heap = rest /\ after.nodes = nodes
    BY <2>1 DEF Deleting
  <2>3. /\ new \in Seq(HeapNodes) /\ Len(new) = Len(nodes)
        /\ \A j \in 1 .. Len(nodes) :
             /\ new[j].node = nodes[j].node /\ new[j].weight = nodes[j].weight
             /\ new[j].key = IF j = r THEN 0 ELSE nodes[j].key
    <3>1. new = [nodes EXCEPT ![r].key = 0]
      BY <1>b, <2>2
    <3>2. Cleared([nodes EXCEPT ![r].key = 0], nodes, r)
      BY <1>3, KeyCleared
    <3>3. Cleared(new, nodes, r)
      BY <3>1, <3>2, Zenon
    <3> QED
      BY <3>3 DEF Cleared
  <2>4. \A j \in 1 .. Len(nodes) : j # r => nodes[j].key = 0
    BY <1>6, <1>a DEF Matches
  <2>5. Len(rest) = 0
    BY <1>5, <1>6
  <2>6. Matches(rest, new, {}) /\ Ordered(rest)
    BY <2>3, <2>4, <2>5 DEF Matches, Ordered
  <2> QED
    BY <1>3, <1>5, <2>2, <2>3, <2>6
<1>7. CASE Len(h) # 1
  <2> DEFINE first == [heap |-> rest, nodes |-> nodes, key |-> 1]
             H == Placed(first, last).heap
             N == Placed(first, last).nodes
             D == Downheap(rest, nodes, 1, last)
  <2>1. Len(rest) \in Nat /\ Len(rest) >= 1 /\ rest # <<>> /\ 1 \in 1 .. Len(rest)
    BY <1>1, <1>5, <1>7
  <2>2. after = D
    BY <2>1 DEF Deleting
  <2>3. first \in LoopStates(Len(rest), Len(nodes)) /\ first.key = 1 /\ first.heap = rest /\ first.nodes = nodes
    BY <1>5, <2>1 DEF LoopStates
  <2> HIDE DEF first, D
  <2>4. /\ H \in Seq(HeapElements) /\ Len(H) = Len(rest)
        /\ N \in Seq(HeapNodes) /\ Len(N) = Len(nodes)
        /\ \A k \in 1 .. Len(rest) : H[k] = IF k = 1 THEN last ELSE rest[k]
        /\ \A i \in 1 .. Len(nodes) :
             /\ N[i].node = nodes[i].node /\ N[i].weight = nodes[i].weight
             /\ N[i].key = IF i = b THEN 1 ELSE nodes[i].key
    <3> DEFINE l == Len(rest)
               c == Len(nodes)
    <3>1. /\ l \in Nat /\ c \in Nat /\ first \in LoopStates(l, c) /\ last \in HeapElements
          /\ last.index + 1 \in 1 .. c
      BY <1>1, <1>4, <2>1, <2>3
    <3> HIDE DEF l, c
    <3>2. /\ H \in Seq(HeapElements) /\ Len(H) = l
          /\ N \in Seq(HeapNodes) /\ Len(N) = c
          /\ \A k \in 1 .. l : H[k] = IF k = first.key THEN last ELSE first.heap[k]
          /\ \A i \in 1 .. c :
               /\ N[i].node = first.nodes[i].node /\ N[i].weight = first.nodes[i].weight
               /\ N[i].key = IF i = last.index + 1 THEN first.key ELSE first.nodes[i].key
      BY <3>1, PlacedIs
    <3> HIDE DEF H, N
    <3> QED
      BY <2>3, <3>2 DEF l, c
  <2> HIDE DEF H, N
  <2>5. \A k \in 1 .. Len(rest) : H[k] = IF k = 1 THEN last ELSE h[k]
    BY <1>5, <2>4
  <2>6. b # r
    BY <1>3, <1>4, <1>7
  <2>7. Matches(H, N, {r})
    <3>1. ASSUME NEW k \in 1 .. Len(H)
          PROVE  /\ H[k].index + 1 \in 1 .. Len(N) /\ H[k].index + 1 # r
                 /\ N[H[k].index + 1].key = k /\ N[H[k].index + 1].weight = H[k].weight
      <4>1. CASE k = 1
        BY <1>4, <2>4, <2>5, <2>6, <4>1
      <4>2. CASE k # 1
        <5>1. k \in 1 .. Len(h) /\ k # Len(h) /\ H[k] = h[k]
          <6>1. k \in 1 .. Len(rest)
            BY <2>4
          <6>2. k \in 1 .. Len(h) /\ k # Len(h)
            BY <1>1, <1>5, <6>1
          <6> QED
            BY <2>5, <4>2, <6>1, <6>2
        <5>2. /\ h[k].index + 1 \in 1 .. Len(nodes)
              /\ nodes[h[k].index + 1].key = k /\ nodes[h[k].index + 1].weight = h[k].weight
          BY <5>1 DEF Matches
        <5>3. h[k].index + 1 # r /\ h[k].index + 1 # b
          BY <1>3, <1>4, <4>2, <5>1, <5>2
        <5> QED
          BY <2>4, <5>1, <5>2, <5>3
      <4> QED
        BY <4>1, <4>2
    <3>2. ASSUME NEW i \in 1 .. Len(N), i # r, N[i].key # 0
          PROVE  N[i].key \in 1 .. Len(H) /\ H[N[i].key].index + 1 = i
      <4>1. CASE i = b
        <5>1. N[i].key = 1 /\ H[1] = last
          BY <2>1, <2>4, <2>5, <4>1
        <5> QED
          BY <2>1, <2>4, <4>1, <5>1
      <4>2. CASE i # b
        <5>1. N[i].key = nodes[i].key /\ nodes[i].key \in 1 .. Len(h) /\ h[nodes[i].key].index + 1 = i
          BY <2>4, <3>2, <4>2 DEF Matches
        <5>2. nodes[i].key # 1 /\ nodes[i].key # Len(h)
          BY <1>a, <3>2, <4>2, <5>1
        <5>3. nodes[i].key \in 1 .. Len(rest)
          BY <1>1, <1>5, <5>1, <5>2
        <5> QED
          BY <2>4, <2>5, <5>1, <5>2, <5>3
      <4> QED
        BY <4>1, <4>2
    <3> QED
      BY <3>1, <3>2 DEF Matches
  <2>8. SinkingAt(H, 1)
    <3>1. ASSUME NEW k \in 2 .. Len(H), k \div 2 # 1 PROVE H[k \div 2].weight <= H[k].weight
      <4>1. k \in 2 .. Len(h) /\ k \in 1 .. Len(rest) /\ k # 1 /\ k \div 2 \in 1 .. Len(rest)
        BY <1>1, <1>5, <2>4
      <4>2. H[k] = h[k] /\ H[k \div 2] = h[k \div 2]
        BY <2>5, <3>1, <4>1
      <4> QED
        BY <4>1, <4>2 DEF Ordered
    <3>2. ~(1 \div 2 >= 1)
      OBVIOUS
    <3> QED
      BY <3>1, <3>2 DEF SinkingAt
  <2>9. /\ D.heap \in Seq(HeapElements) /\ Len(D.heap) = Len(rest)
        /\ D.nodes \in Seq(HeapNodes)
        /\ Matches(D.heap, D.nodes, {r}) /\ SameContent(D.nodes, N) /\ Ordered(D.heap)
    <3>1. first = [heap |-> rest, nodes |-> nodes, key |-> 1]
      BY DEF first
    <3> QED
      BY <1>4, <1>5, <2>1, <2>7, <2>8, <3>1, DownheapWorks, ZenonT(60) DEF H, N, D
  <2>10. Len(D.nodes) = Len(nodes)
    BY <2>4, <2>9 DEF SameContent
  <2>11. /\ new \in Seq(HeapNodes) /\ Len(new) = Len(nodes)
         /\ \A j \in 1 .. Len(nodes) :
              /\ new[j].node = D.nodes[j].node /\ new[j].weight = D.nodes[j].weight
              /\ new[j].key = IF j = r THEN 0 ELSE D.nodes[j].key
    <3> DEFINE n == D.nodes
    <3>1. n \in Seq(HeapNodes) /\ Len(n) = Len(nodes) /\ new = [n EXCEPT ![r].key = 0]
      BY <1>b, <2>2, <2>9, <2>10
    <3> HIDE DEF n
    <3>2. /\ new \in Seq(HeapNodes) /\ Len(new) = Len(n)
          /\ \A j \in 1 .. Len(n) :
               /\ new[j].node = n[j].node /\ new[j].weight = n[j].weight
               /\ new[j].key = IF j = r THEN 0 ELSE n[j].key
      <4>1. r \in 1 .. Len(n)
        BY <1>3, <3>1
      <4>2. Cleared([n EXCEPT ![r].key = 0], n, r)
        BY <3>1, <4>1, KeyCleared
      <4>3. Cleared(new, n, r)
        BY <3>1, <4>2, Zenon
      <4> QED
        BY <4>3 DEF Cleared
    <3> QED
      BY <3>1, <3>2 DEF n
  <2>12. ASSUME NEW i \in 1 .. Len(nodes)
         PROVE  /\ new[i].node = nodes[i].node /\ new[i].weight = nodes[i].weight
                /\ (new[i].key = 0) <=> (i = r \/ nodes[i].key = 0)
    <3>1. D.nodes[i].node = N[i].node /\ D.nodes[i].weight = N[i].weight /\ ((D.nodes[i].key = 0) <=> (N[i].key = 0))
      BY <2>9, <2>10 DEF SameContent
    <3>2. (N[i].key = 0) <=> (nodes[i].key = 0)
      BY <1>1, <1>4, <2>4
    <3> QED
      BY <2>4, <2>11, <3>1, <3>2
  <2>13. Matches(D.heap, new, {})
    <3>1. ASSUME NEW k \in 1 .. Len(D.heap)
          PROVE  /\ D.heap[k].index + 1 \in 1 .. Len(new)
                 /\ new[D.heap[k].index + 1].key = k /\ new[D.heap[k].index + 1].weight = D.heap[k].weight
      <4>1. /\ D.heap[k].index + 1 \in 1 .. Len(nodes) /\ D.heap[k].index + 1 # r
            /\ D.nodes[D.heap[k].index + 1].key = k /\ D.nodes[D.heap[k].index + 1].weight = D.heap[k].weight
        BY <2>9, <2>10 DEF Matches
      <4> QED
        BY <2>11, <4>1
    <3>2. ASSUME NEW i \in 1 .. Len(new), new[i].key # 0
          PROVE  new[i].key \in 1 .. Len(D.heap) /\ D.heap[new[i].key].index + 1 = i
      <4>1. i # r /\ new[i].key = D.nodes[i].key /\ i \in 1 .. Len(D.nodes)
        BY <2>10, <2>11, <3>2
      <4> QED
        BY <2>9, <3>2, <4>1 DEF Matches
    <3> QED
      BY <3>1, <3>2 DEF Matches
  <2> QED
    BY <1>3, <2>2, <2>9, <2>11, <2>12, <2>13
<1> QED
  BY <1>6, <1>7

-----------------------------------------------------------------------------
(* The operations keep the invariant *)

\* If the storage does not change and the inserted nodes stay where they are, it knows
\* them still.
LEMMA IndexKept ==
    ASSUME Inv, UNCHANGED <<storage, node_index>>, Count' = Count,
           \A i \in 1 .. Count : inserted_nodes'[i].node = inserted_nodes[i].node
    PROVE  IndexInv'
<1>1. Hashed' = Hashed /\ Nodes' = Nodes
  BY DEF Hashed, Nodes
<1> QED
  BY <1>1 DEF Inv, IndexInv

\* Clear forgets all nodes; whatever an array storage or a cell still says is a hint again.
LEMMA ClearInv ==
    ASSUME Inv, Clear
    PROVE  Inv'
<1>1. Len(<<>>) = 0
  OBVIOUS
<1>2. HeapInv' /\ Count' = 0
  BY <1>1 DEF Clear, HeapInv, Matches, Ordered, Count
<1>3. storage' = storage /\ storage \in {"array", "map", "hash"} /\ Hashed' = Hashed
  BY DEF Clear, Inv, IndexInv, Hashed
<1>4. CASE storage = "hash"
  <2>1. node_index' = ClearedStorage(node_index) /\ node_index \in Storages
    BY <1>4 DEF Clear, Inv, IndexInv, Hashed
  <2>2. node_index' \in Storages
    BY <2>1, ClearedType
  <2> QED
    BY <1>2, <1>3, <2>2, <1>4 DEF Inv, IndexInv, Hashed
<1>5. CASE storage = "array"
  <2>1. node_index' = node_index /\ node_index \in [NodeIDs -> Nat]
    BY <1>5 DEF Clear, Inv, IndexInv, Hashed
  <2> QED
    BY <1>2, <1>3, <1>5, <2>1 DEF Inv, IndexInv, Hashed
<1>6. CASE storage = "map"
  <2>1. node_index' = [n \in NodeIDs |-> 0]
    <3>1. storage # "array" /\ ~Hashed
      BY <1>6 DEF Hashed
    <3> QED
      BY <1>6, <3>1 DEF Clear
  <2>2. node_index' \in [NodeIDs -> Nat]
    BY <2>1
  <2> QED
    BY <1>2, <1>3, <1>6, <2>2 DEF Inv, IndexInv, Hashed
<1> QED
  BY <1>3, <1>4, <1>5, <1>6

\* A cell that is taken keeps its key.
LEMMA CellRelabelled ==
    ASSUME NEW c \in Cells, NEW n, NEW t
    PROVE  [c EXCEPT !.id = n, !.time = t] = [key |-> c.key, id |-> n, time |-> t]
<1>1. c = [key |-> c.key, id |-> c.id, time |-> c.time]
  BY DEF Cells
<1>2. [c EXCEPT !.id = n, !.time = t] = [[c EXCEPT !.id = n] EXCEPT !.time = t]
  OBVIOUS
<1>3. [c EXCEPT !.id = n] = [key |-> c.key, id |-> n, time |-> c.time]
  BY <1>1
<1>4. [[key |-> c.key, id |-> n, time |-> c.time] EXCEPT !.time = t] =
      [key |-> c.key, id |-> n, time |-> t]
  OBVIOUS
<1>5. [[c EXCEPT !.id = n] EXCEPT !.time = t] =
      [[key |-> c.key, id |-> n, time |-> c.time] EXCEPT !.time = t]
  BY <1>3, Zenon
<1> QED
  BY <1>2, <1>4, <1>5, Zenon

\* Looking a node up may take a cell for it, and disturbs no inserted node.
LEMMA LookUpInv ==
    ASSUME Inv, NEW n \in Nodes, LookUp(n)
    PROVE  Inv'
<1>1. UNCHANGED <<heap, inserted_nodes, storage>> /\ Found(n) /\ node_index' = IndexLookedUp(n)
  BY DEF LookUp
<1>2. HeapInv' /\ Count' = Count /\ Hashed' = Hashed /\ Nodes' = Nodes
  BY <1>1 DEF Inv, HeapInv, Count, Hashed, Nodes
<1>3. CASE ~Hashed
  <2>1. node_index' = node_index
    BY <1>1, <1>3 DEF IndexLookedUp
  <2> QED
    BY <1>1, <1>2, <2>1, IndexKept DEF Inv
<1>4. CASE Hashed
  <2> DEFINE P == Position(node_index, n)
             k == node_index.positions[P].key
  <2>1. node_index \in Storages /\ Returns(node_index, n) /\ n \in HashedNodes
    BY <1>1, <1>4 DEF Inv, IndexInv, Found, Nodes
  <2>2. P \in 0 .. TableSize - 1
    BY <2>1, PositionIsFirst, ProbeInTable
  <2>3. node_index.positions[P] \in Cells
    BY <2>1, <2>2 DEF Storages
  <2>4. k \in Nat
    BY <2>3 DEF Cells
  <2>5. node_index' = LookedUp(node_index, n)
    BY <1>1, <1>4 DEF IndexLookedUp
  <2>6. [node_index.positions[P] EXCEPT !.id = n, !.time = node_index.current_timestamp] =
        [key |-> k, id |-> n, time |-> node_index.current_timestamp]
    BY <2>3, CellRelabelled
  <2>7. LookedUp(node_index, n) =
          [node_index EXCEPT !.positions[P] =
             [node_index.positions[P] EXCEPT !.id = n, !.time = node_index.current_timestamp]]
    BY DEF LookedUp
  <2>8. node_index' = [node_index EXCEPT !.positions[P] =
                         [key |-> k, id |-> n, time |-> node_index.current_timestamp]]
    BY <2>5, <2>6, <2>7, Zenon
  <2>9. k = KeyOf(node_index, n)
    BY DEF KeyOf
  <2> HIDE DEF k
  <2>10. /\ node_index' \in Storages /\ Holds(node_index', n, k)
         /\ \A m \in HashedNodes, j \in Nat : m # n /\ Holds(node_index, m, j) => Holds(node_index', m, j)
    BY <2>1, <2>4, <2>8, CellTaken
  <2>11. ASSUME NEW i \in 1 .. Count PROVE Holds(node_index', inserted_nodes[i].node, i - 1)
    <3>1. Holds(node_index, inserted_nodes[i].node, i - 1) /\ inserted_nodes[i].node \in HashedNodes
      BY <1>4 DEF Inv, IndexInv, Nodes
    <3>2. i - 1 \in Nat
      BY IndexFound
    <3>3. CASE inserted_nodes[i].node = n
      <4>1. k = i - 1
        BY <2>9, <3>1, <3>3, HoldsKey
      <4> QED
        BY <2>10, <3>3, <4>1
    <3>4. CASE inserted_nodes[i].node # n
      BY <2>10, <3>1, <3>2, <3>4
    <3> QED
      BY <3>3, <3>4
  <2>12. IndexInv'
    BY <1>1, <1>2, <1>4, <2>10, <2>11 DEF Inv, IndexInv
  <2> QED
    BY <1>2, <2>12 DEF Inv
<1> QED
  BY <1>3, <1>4

\* A node that is not inserted is new.
LEMMA NotInserted ==
    ASSUME Inv, NEW n, ~WasInserted(n)
    PROVE  \A i \in 1 .. Count : inserted_nodes[i].node # n
<1> SUFFICES ASSUME NEW i \in 1 .. Count, inserted_nodes[i].node = n PROVE FALSE
  OBVIOUS
<1>1. Index(n) = i - 1 /\ i - 1 < Count /\ (i - 1) + 1 = i
  BY IndexFound
<1>2. At(Index(n)).node = n
  BY <1>1 DEF At
<1> QED
  BY <1>1, <1>2 DEF WasInserted, Count

\* Insert: the nodes before the new one are what they were.
Inserted(node, weight) ==
    /\ Count' = Count + 1
    /\ inserted_nodes'[Count + 1].node = node /\ inserted_nodes'[Count + 1].weight = weight
    /\ inserted_nodes'[Count + 1].key # 0
    /\ \A i \in 1 .. Count :
         /\ inserted_nodes'[i].node = inserted_nodes[i].node
         /\ inserted_nodes'[i].weight = inserted_nodes[i].weight
         /\ (inserted_nodes'[i].key = 0) <=> (inserted_nodes[i].key = 0)

\* Insert adds one node and keeps the invariant.
LEMMA InsertInv ==
    ASSUME Inv, NEW n \in Nodes, NEW w \in Weights, Insert(n, w)
    PROVE  Inv' /\ Inserted(n, w)
<1> DEFINE e == [index |-> Count, weight |-> w]
           key == Len(heap) + 1
           x == [node |-> n, key |-> key, weight |-> w]
           new == Append(inserted_nodes, x)
           after == Upheap(Append(heap, e), new, key, e)
<1>1. /\ Found(n) /\ ~WasInserted(n) /\ heap' = after.heap /\ inserted_nodes' = after.nodes
      /\ node_index' = IndexAssigned(n, Count) /\ storage' = storage
  BY DEF Insert, Count
<1>2. n \in NodeIDs /\ w \in Int
  BY IndexFound, NodesAssumption
<1>3. /\ heap \in Seq(HeapElements) /\ inserted_nodes \in Seq(HeapNodes)
      /\ Matches(heap, inserted_nodes, {}) /\ Ordered(heap)
  BY DEF Inv, HeapInv
<1>4. /\ after.heap \in Seq(HeapElements) /\ after.nodes \in Seq(HeapNodes)
      /\ Matches(after.heap, after.nodes, {}) /\ Ordered(after.heap)
      /\ SameContent(after.nodes, new)
  BY <1>2, <1>3, InsertHeap DEF Count
<1>5. HeapInv'
  BY <1>1, <1>4 DEF HeapInv
<1>6. Count \in Nat /\ Len(heap) \in Nat /\ x \in HeapNodes
  BY <1>2, <1>3 DEF Count, HeapNodes
<1>7. /\ Len(new) = Count + 1 /\ new[Count + 1] = x
      /\ \A i \in 1 .. Count : new[i] = inserted_nodes[i]
  <2> HIDE DEF x
  <2> QED
    BY <1>3, <1>6 DEF Count
<1>8. x.node = n /\ x.weight = w /\ x.key # 0
  BY <1>6
<1> HIDE DEF after, new, x
<1>9. Inserted(n, w)
  <2>1. Count' = Count + 1
    BY <1>1, <1>4, <1>7 DEF SameContent, Count
  <2>2. \A i \in 1 .. Count + 1 :
          /\ inserted_nodes'[i].node = new[i].node /\ inserted_nodes'[i].weight = new[i].weight
          /\ (inserted_nodes'[i].key = 0) <=> (new[i].key = 0)
    BY <1>1, <1>4, <2>1 DEF SameContent, Count
  <2>3. Count + 1 \in 1 .. Count + 1 /\ \A i \in 1 .. Count : i \in 1 .. Count + 1
    BY <1>6
  <2> QED
    BY <1>7, <1>8, <2>1, <2>2, <2>3 DEF Inserted
<1>10. Hashed' = Hashed /\ Nodes' = Nodes /\ Count' = Count + 1
  BY <1>1, <1>9 DEF Hashed, Nodes, Inserted
<1>11. \A i \in 1 .. Count : inserted_nodes[i].node # n
  BY <1>1, NotInserted
<1>12. \A i \in 1 .. Count + 1 :
         inserted_nodes'[i].node = IF i = Count + 1 THEN n ELSE inserted_nodes[i].node
  BY <1>6, <1>9 DEF Inserted
<1>13. \A i \in 1 .. Count + 1 : i = Count + 1 \/ i \in 1 .. Count
  BY <1>6
<1>14. \A i \in 1 .. Count' : inserted_nodes'[i].node \in Nodes'
  BY <1>10, <1>12, <1>13 DEF Inv, IndexInv
<1>15. \A i, j \in 1 .. Count' : inserted_nodes'[i].node = inserted_nodes'[j].node => i = j
  BY <1>10, <1>11, <1>12, <1>13 DEF Inv, IndexInv
<1>16. CASE ~Hashed
  <2>1. node_index \in [NodeIDs -> Nat] /\ node_index' = [node_index EXCEPT ![n] = Count]
    BY <1>1, <1>16 DEF Inv, IndexInv, IndexAssigned
  <2>2. node_index' \in [NodeIDs -> Nat] /\ node_index'[n] = Count
    BY <1>2, <1>6, <2>1
  <2>3. ASSUME NEW i \in 1 .. Count' PROVE node_index'[inserted_nodes'[i].node] = i - 1
    <3>1. CASE i = Count + 1
      BY <1>6, <1>10, <1>12, <2>2, <3>1
    <3>2. CASE i \in 1 .. Count
      <4>1. inserted_nodes'[i].node = inserted_nodes[i].node /\ inserted_nodes[i].node # n
        BY <1>9, <1>11, <3>2 DEF Inserted
      <4>2. node_index[inserted_nodes[i].node] = i - 1 /\ inserted_nodes[i].node \in NodeIDs
        BY <1>16, <3>2, IndexFound DEF Inv, IndexInv
      <4> QED
        BY <2>1, <4>1, <4>2
    <3> QED
      BY <1>10, <1>13, <3>1, <3>2
  <2>4. IndexInv'
    BY <1>1, <1>10, <1>14, <1>15, <1>16, <2>2, <2>3 DEF Inv, IndexInv
  <2> QED
    BY <1>5, <1>9, <2>4 DEF Inv
<1>17. CASE Hashed
  <2>1. node_index \in Storages /\ Returns(node_index, n) /\ n \in HashedNodes /\ Nodes = HashedNodes
    BY <1>1, <1>17 DEF Inv, IndexInv, Found, Nodes
  <2>2. node_index' = [node_index EXCEPT !.positions[Position(node_index, n)] =
                         [key |-> Count, id |-> n, time |-> node_index.current_timestamp]]
    BY <1>1, <1>17 DEF IndexAssigned, Assigned
  <2>3. /\ node_index' \in Storages /\ Holds(node_index', n, Count)
        /\ \A m \in HashedNodes, j \in Nat : m # n /\ Holds(node_index, m, j) => Holds(node_index', m, j)
    BY <1>6, <2>1, <2>2, CellTaken
  <2>4. ASSUME NEW i \in 1 .. Count' PROVE Holds(node_index', inserted_nodes'[i].node, i - 1)
    <3>1. CASE i = Count + 1
      <4>1. i - 1 = Count /\ inserted_nodes'[i].node = n
        BY <1>6, <1>10, <1>12, <3>1
      <4> QED
        BY <2>3, <4>1
    <3>2. CASE i \in 1 .. Count
      <4>1. inserted_nodes'[i].node = inserted_nodes[i].node /\ inserted_nodes[i].node # n
        BY <1>9, <1>11, <3>2 DEF Inserted
      <4>2. Holds(node_index, inserted_nodes[i].node, i - 1) /\ inserted_nodes[i].node \in HashedNodes
        BY <1>17, <2>1, <3>2 DEF Inv, IndexInv
      <4>3. i - 1 \in Nat
        BY <1>6, <3>2
      <4> QED
        BY <2>3, <4>1, <4>2, <4>3
    <3> QED
      BY <1>10, <1>13, <3>1, <3>2
  <2>5. IndexInv'
    BY <1>1, <1>10, <1>14, <1>15, <1>17, <2>3, <2>4 DEF Inv, IndexInv
  <2> QED
    BY <1>5, <1>9, <2>5 DEF Inv
<1> QED
  BY <1>16, <1>17

\* Places in inserted_nodes stay; only weights and marks change.
SamePlaces ==
    /\ Count' = Count
    /\ \A i \in 1 .. Count : inserted_nodes'[i].node = inserted_nodes[i].node

\* DeleteMin: the node at r, of least weight, is marked and returned.
DeletedMin(r) ==
    /\ SamePlaces
    /\ r \in 1 .. Count /\ inserted_nodes[r].key # 0 /\ result' = {inserted_nodes[r].node}
    /\ \A i \in 1 .. Count :
         /\ inserted_nodes[i].key # 0 => inserted_nodes[r].weight <= inserted_nodes[i].weight
         /\ inserted_nodes'[i].weight = inserted_nodes[i].weight
         /\ (inserted_nodes'[i].key = 0) <=> (i = r \/ inserted_nodes[i].key = 0)

\* DeleteMin keeps the invariant and removes a node of least weight.
LEMMA DeleteMinInv ==
    ASSUME Inv, DeleteMin
    PROVE  Inv' /\ \E r : DeletedMin(r)
<1> DEFINE r == heap[1].index + 1
           last == heap[Len(heap)]
           rest == SubSeq([heap EXCEPT ![1] = last], 1, Len(heap) - 1)
           after == IF rest = <<>> THEN [heap |-> rest, nodes |-> inserted_nodes]
                    ELSE Downheap(rest, inserted_nodes, 1, last)
           new == [after.nodes EXCEPT ![r].key = 0]
<1>1. /\ heap # <<>> /\ heap' = after.heap /\ inserted_nodes' = new
      /\ result' = {inserted_nodes[r].node} /\ UNCHANGED <<storage, node_index>>
  BY DEF DeleteMin, At
<1>2. /\ heap \in Seq(HeapElements) /\ inserted_nodes \in Seq(HeapNodes)
      /\ Matches(heap, inserted_nodes, {}) /\ Ordered(heap)
  BY DEF Inv, HeapInv
<1>3. Deleting(heap, inserted_nodes, r, last, rest, after, new)
  BY DEF Deleting
<1>0. r = heap[1].index + 1
  OBVIOUS
<1> HIDE DEF r, last, rest, after, new
<1>4. /\ r \in 1 .. Len(inserted_nodes) /\ inserted_nodes[r].key # 0
      /\ after.heap \in Seq(HeapElements) /\ new \in Seq(HeapNodes)
      /\ Matches(after.heap, new, {}) /\ Ordered(after.heap)
      /\ Len(new) = Len(inserted_nodes)
      /\ \A i \in 1 .. Len(inserted_nodes) :
           /\ new[i].node = inserted_nodes[i].node /\ new[i].weight = inserted_nodes[i].weight
           /\ (new[i].key = 0) <=> (i = r \/ inserted_nodes[i].key = 0)
  BY <1>1, <1>2, <1>3, DeleteHeap
<1>5. HeapInv'
  BY <1>1, <1>4 DEF HeapInv
<1>6. SamePlaces
  BY <1>1, <1>4 DEF SamePlaces, Count
<1>7. IndexInv'
  BY <1>1, <1>6, IndexKept DEF SamePlaces
<1>8. ASSUME NEW i \in 1 .. Count, inserted_nodes[i].key # 0
      PROVE  inserted_nodes[r].weight <= inserted_nodes[i].weight
  <2> DEFINE k == inserted_nodes[i].key
  <2>1. k \in 1 .. Len(heap) /\ heap[k].index + 1 = i
    BY <1>2, <1>8 DEF Matches, Count
  <2>2. 1 \in 1 .. Len(heap)
    BY <1>1, <1>2
  <2>3. heap[k].weight = inserted_nodes[i].weight /\ heap[1].weight = inserted_nodes[r].weight
    BY <1>0, <1>2, <2>1, <2>2 DEF Matches
  <2>4. heap[1].weight <= heap[k].weight
    BY <1>2, <2>1, RootIsLeast
  <2> QED
    BY <2>3, <2>4
<1>9. DeletedMin(r)
  BY <1>1, <1>4, <1>6, <1>8 DEF DeletedMin, Count
<1> QED
  BY <1>5, <1>7, <1>9 DEF Inv

\* DeleteAll: every node is marked.
DeletedAll ==
    /\ SamePlaces
    /\ \A i \in 1 .. Count :
         inserted_nodes'[i].weight = inserted_nodes[i].weight /\ inserted_nodes'[i].key = 0

\* DeleteAll keeps the invariant and marks all nodes, those removed before included.
LEMMA DeleteAllInv ==
    ASSUME Inv, DeleteAll
    PROVE  Inv' /\ DeletedAll
<1>1. /\ heap \in Seq(HeapElements) /\ inserted_nodes \in Seq(HeapNodes)
      /\ Matches(heap, inserted_nodes, {}) /\ DOMAIN inserted_nodes = 1 .. Count
      /\ DOMAIN heap = 1 .. Len(heap) /\ Count \in Nat
  BY DEF Inv, HeapInv, Count
<1> DEFINE new(i) == IF \E k \in DOMAIN heap : heap[k].index + 1 = i
                     THEN [inserted_nodes[i] EXCEPT !.key = 0] ELSE inserted_nodes[i]
<1>2. /\ inserted_nodes' = [i \in 1 .. Count |-> new(i)] /\ heap' = <<>>
      /\ UNCHANGED <<storage, node_index>>
  BY <1>1 DEF DeleteAll
<1>3. ASSUME NEW i \in 1 .. Count
      PROVE  /\ new(i) \in HeapNodes /\ new(i).node = inserted_nodes[i].node
             /\ new(i).weight = inserted_nodes[i].weight /\ new(i).key = 0
  <2>1. inserted_nodes[i] \in HeapNodes
    BY <1>1
  <2>2. CASE \E k \in DOMAIN heap : heap[k].index + 1 = i
    <3>1. new(i) = [inserted_nodes[i] EXCEPT !.key = 0]
      BY <2>2
    <3> HIDE DEF new
    <3> QED
      BY <2>1, <3>1 DEF HeapNodes
  <2>3. CASE ~\E k \in DOMAIN heap : heap[k].index + 1 = i
    <3>1. new(i) = inserted_nodes[i]
      BY <2>3
    <3>2. inserted_nodes[i].key = 0
      BY <1>1, <2>3 DEF Matches, Count
    <3> QED
      BY <2>1, <3>1, <3>2
  <2> QED
    BY <2>2, <2>3
<1> HIDE DEF new
<1>4. inserted_nodes' \in Seq(HeapNodes) /\ Count' = Count
  BY <1>1, <1>2, <1>3 DEF Count
<1>5. DeletedAll
  BY <1>2, <1>3, <1>4 DEF DeletedAll, SamePlaces
<1>6. Len(heap') = 0 /\ heap' \in Seq(HeapElements)
  BY <1>2
<1>7. HeapInv'
  <2>1. \A i \in 1 .. Len(inserted_nodes') : inserted_nodes'[i].key = 0
    BY <1>4, <1>5 DEF DeletedAll, Count
  <2> QED
    BY <1>4, <1>6, <2>1 DEF HeapInv, Matches, Ordered
<1>8. IndexInv'
  BY <1>2, <1>5, IndexKept DEF DeletedAll, SamePlaces
<1> QED
  BY <1>5, <1>7, <1>8 DEF Inv

\* DecreaseKey: the node at r, not removed, gets the smaller weight.
Decreased(r, w) ==
    /\ SamePlaces
    /\ r \in 1 .. Count /\ inserted_nodes[r].key # 0 /\ w < inserted_nodes[r].weight
    /\ \A i \in 1 .. Count :
         /\ inserted_nodes'[i].weight = IF i = r THEN w ELSE inserted_nodes[i].weight
         /\ (inserted_nodes'[i].key = 0) <=> (inserted_nodes[i].key = 0)

\* DecreaseKey keeps the invariant and changes one weight.
LEMMA DecreaseKeyInv ==
    ASSUME Inv, NEW n \in Nodes, NEW w \in Weights, DecreaseKey(n, w)
    PROVE  Inv' /\ \E r : Decreased(r, w) /\ inserted_nodes[r].node = n
<1> DEFINE r == Index(n) + 1
           key == inserted_nodes[r].key
           e == [heap[key] EXCEPT !.weight = w]
           new == [inserted_nodes EXCEPT ![r].weight = w]
           after == Upheap([heap EXCEPT ![key] = e], new, key, e)
<1>1. /\ Found(n) /\ WasInserted(n) /\ ~WasRemoved(n) /\ w < GetKey(n)
      /\ heap' = after.heap /\ inserted_nodes' = after.nodes
      /\ UNCHANGED <<storage, node_index>>
  BY DEF DecreaseKey, At
<1>2. /\ heap \in Seq(HeapElements) /\ inserted_nodes \in Seq(HeapNodes)
      /\ Matches(heap, inserted_nodes, {}) /\ Ordered(heap)
  BY DEF Inv, HeapInv
<1>3. w \in Int /\ Count \in Nat /\ Index(n) \in Nat
  BY <1>1, IndexFound, NodesAssumption
<1>4. /\ r \in 1 .. Count /\ inserted_nodes[r].node = n /\ inserted_nodes[r].key # 0
      /\ w < inserted_nodes[r].weight
  BY <1>1, <1>3 DEF WasInserted, WasRemoved, GetKey, At, Count
<1> HIDE DEF r
<1>5. /\ after.heap \in Seq(HeapElements) /\ after.nodes \in Seq(HeapNodes)
      /\ Matches(after.heap, after.nodes, {}) /\ Ordered(after.heap)
      /\ SameContent(after.nodes, new)
  <2>1. r \in 1 .. Len(inserted_nodes)
    BY <1>4 DEF Count
  <2> QED
    BY <1>2, <1>3, <1>4, <2>1, DecreaseHeap
<1>6. /\ Len(new) = Count
      /\ \A i \in 1 .. Count :
           /\ new[i].node = inserted_nodes[i].node /\ new[i].key = inserted_nodes[i].key
           /\ new[i].weight = IF i = r THEN w ELSE inserted_nodes[i].weight
  <2> DEFINE x == [inserted_nodes[r] EXCEPT !.weight = w]
  <2>1. inserted_nodes[r] \in HeapNodes
    BY <1>2, <1>4 DEF Count
  <2>2. /\ x \in HeapNodes /\ x.node = inserted_nodes[r].node /\ x.key = inserted_nodes[r].key
        /\ x.weight = w
    BY <1>3, <2>1 DEF HeapNodes
  <2>3. new = [inserted_nodes EXCEPT ![r] = x]
    OBVIOUS
  <2> HIDE DEF x, new
  <2>4. /\ Len(new) = Len(inserted_nodes)
        /\ \A i \in 1 .. Len(inserted_nodes) : new[i] = IF i = r THEN x ELSE inserted_nodes[i]
    BY <1>2, <1>4, <2>2, <2>3, Replaced DEF Count
  <2> QED
    BY <1>4, <2>2, <2>4 DEF Count
<1> HIDE DEF after, new
<1>7. HeapInv'
  BY <1>1, <1>5 DEF HeapInv
<1>8. SamePlaces
  BY <1>1, <1>5, <1>6 DEF SamePlaces, SameContent, Count
<1>9. Decreased(r, w)
  BY <1>1, <1>4, <1>5, <1>6, <1>8 DEF Decreased, SameContent, Count
<1>10. IndexInv'
  BY <1>1, <1>8, IndexKept DEF SamePlaces
<1> QED
  BY <1>4, <1>7, <1>9, <1>10 DEF Inv

\* The storage's indices stay right whatever the clients do.
LEMMA NextInv == Inv /\ [Next]_vars => Inv'
<1> SUFFICES ASSUME Inv, [Next]_vars PROVE Inv'
  OBVIOUS
<1>1. CASE Clear
  BY <1>1, ClearInv
<1>2. CASE DeleteMin
  BY <1>2, DeleteMinInv
<1>3. CASE DeleteAll
  BY <1>3, DeleteAllInv
<1>4. ASSUME NEW n \in Nodes, LookUp(n) PROVE Inv'
  BY <1>4, LookUpInv
<1>5. ASSUME NEW n \in Nodes, NEW w \in Weights, Insert(n, w) PROVE Inv'
  BY <1>5, InsertInv
<1>6. ASSUME NEW n \in Nodes, NEW w \in Weights, DecreaseKey(n, w) PROVE Inv'
  BY <1>6, DecreaseKeyInv
<1>7. CASE UNCHANGED vars
  BY <1>7 DEF vars, Inv, HeapInv, IndexInv, Count, Hashed, Nodes
<1> QED
  BY <1>1, <1>2, <1>3, <1>4, <1>5, <1>6, <1>7 DEF Next

-----------------------------------------------------------------------------
(* The refinement *)

EntryTypes == [weight : Int, removed : BOOLEAN]

\* Weights and marks of all inserted nodes are those in inserted_nodes.
EntriesSeen ==
    /\ Entries \in [inserted -> EntryTypes]
    /\ inserted = {inserted_nodes[i].node : i \in 1 .. Count}
    /\ \A i \in 1 .. Count :
         /\ Entries[inserted_nodes[i].node].weight = inserted_nodes[i].weight
         /\ Entries[inserted_nodes[i].node].removed <=> inserted_nodes[i].key = 0

\* The invariant makes them so.
LEMMA EntriesType == Inv => EntriesSeen
<1> SUFFICES ASSUME Inv PROVE EntriesSeen
  OBVIOUS
<1>1. View
  BY InvView
<1>2. inserted = {inserted_nodes[i].node : i \in 1 .. Count}
  BY <1>1 DEF View
<1>3. ASSUME NEW i \in 1 .. Count
      PROVE  /\ Entries[inserted_nodes[i].node] \in EntryTypes
             /\ Entries[inserted_nodes[i].node].weight = inserted_nodes[i].weight
             /\ Entries[inserted_nodes[i].node].removed <=> inserted_nodes[i].key = 0
  <2> DEFINE b == inserted_nodes[i].key = 0
             w == inserted_nodes[i].weight
             e == Entries[inserted_nodes[i].node]
  <2>1. inserted_nodes[i] \in HeapNodes
    BY DEF Inv, HeapInv, Count
  <2>2. w \in Int
    BY <2>1 DEF HeapNodes
  <2>3. e = [weight |-> w, removed |-> b]
    BY <1>1 DEF View
  <2>4. e.removed = b /\ e.weight = w
    <3> HIDE DEF b, w, e
    <3> QED
      BY <2>3
  <2>5. b \in BOOLEAN
    OBVIOUS
  <2>6. e \in EntryTypes
    <3> HIDE DEF b, w, e
    <3> QED
      BY <2>2, <2>3, <2>5 DEF EntryTypes
  <2> QED
    BY <2>4, <2>6
<1>4. ASSUME NEW n \in inserted PROVE Entries[n] \in EntryTypes
  BY <1>2, <1>3
<1>5. Entries = [n \in inserted |-> Entries[n]]
  BY DEF Entries
<1> QED
  BY <1>2, <1>3, <1>4, <1>5 DEF EntriesSeen

\* Where nodes keep their places, the step shows in the entries of the same nodes.
LEMMA EntriesStep ==
    ASSUME Inv, Inv', SamePlaces
    PROVE  /\ inserted' = inserted /\ Entries' \in [inserted -> EntryTypes]
           /\ \A i \in 1 .. Count :
                /\ Entries'[inserted_nodes[i].node].weight = inserted_nodes'[i].weight
                /\ Entries'[inserted_nodes[i].node].removed <=> inserted_nodes'[i].key = 0
<1>1. EntriesSeen /\ EntriesSeen'
  BY EntriesType, PTL
<1>2. inserted' = inserted
  BY <1>1 DEF SamePlaces, EntriesSeen
<1> QED
  BY <1>1, <1>2 DEF SamePlaces, EntriesSeen

\* F is E but for the entry of n.
OthersSame(S, E, F, n) ==
    /\ E \in [S -> EntryTypes] /\ F \in [S -> EntryTypes] /\ n \in S
    /\ \A m \in S : m # n => F[m] = E[m]

\* One entry is marked.
LEMMA OneMarked ==
    ASSUME NEW S, NEW E, NEW F, NEW n, OthersSame(S, E, F, n),
           F[n].weight = E[n].weight, F[n].removed = TRUE
    PROVE  F = [E EXCEPT ![n].removed = TRUE]
<1>1. E[n] \in EntryTypes /\ F[n] \in EntryTypes
  BY DEF OthersSame
<1>2. F[n] = [E[n] EXCEPT !.removed = TRUE]
  BY <1>1 DEF EntryTypes
<1>3. ASSUME NEW v, F[n] = v PROVE F = [E EXCEPT ![n] = v]
  BY <1>3 DEF OthersSame
<1> QED
  BY <1>2, <1>3

\* One entry gets another weight.
LEMMA OneWeight ==
    ASSUME NEW S, NEW E, NEW F, NEW n, NEW w, OthersSame(S, E, F, n),
           F[n].weight = w, F[n].removed = E[n].removed
    PROVE  F = [E EXCEPT ![n].weight = w]
<1>1. E[n] \in EntryTypes /\ F[n] \in EntryTypes
  BY DEF OthersSame
<1>2. F[n] = [E[n] EXCEPT !.weight = w]
  BY <1>1 DEF EntryTypes
<1>3. ASSUME NEW v, F[n] = v PROVE F = [E EXCEPT ![n] = v]
  BY <1>3 DEF OthersSame
<1> QED
  BY <1>2, <1>3

\* DeleteMin is a removal of a live node of least weight.
LEMMA DeleteMinRefines ==
    ASSUME Inv, DeleteMin
    PROVE  \E n \in NodeIDs : Abstract!DeleteMin(n)
<1>1. Inv' /\ \E r : DeletedMin(r)
  BY DeleteMinInv
<1>2. PICK r : DeletedMin(r)
  BY <1>1
<1>3. /\ SamePlaces /\ r \in 1 .. Count /\ inserted_nodes[r].key # 0
      /\ result' = {inserted_nodes[r].node}
  BY <1>2 DEF DeletedMin
<1>4. /\ Entries \in [inserted -> EntryTypes]
      /\ inserted = {inserted_nodes[i].node : i \in 1 .. Count}
      /\ \A i \in 1 .. Count :
           /\ Entries[inserted_nodes[i].node].weight = inserted_nodes[i].weight
           /\ Entries[inserted_nodes[i].node].removed <=> inserted_nodes[i].key = 0
  BY EntriesType DEF EntriesSeen
<1>5. /\ Entries' \in [inserted -> EntryTypes]
      /\ \A i \in 1 .. Count :
           /\ Entries'[inserted_nodes[i].node].weight = inserted_nodes'[i].weight
           /\ Entries'[inserted_nodes[i].node].removed <=> inserted_nodes'[i].key = 0
  BY <1>1, <1>3, EntriesStep
<1> DEFINE n == inserted_nodes[r].node
<1>6. n \in inserted /\ n \in NodeIDs
  BY <1>3, <1>4, IndexFound DEF Inv, IndexInv
<1>7. \A m \in inserted : Entries[m].removed \in BOOLEAN /\ Entries'[m].removed \in BOOLEAN
  BY <1>4, <1>5 DEF EntryTypes
<1>8. Entries[n].removed = FALSE /\ Entries'[n].removed = TRUE /\ Entries'[n].weight = Entries[n].weight
  BY <1>2, <1>3, <1>4, <1>5, <1>6, <1>7 DEF DeletedMin
<1>9. ASSUME NEW m \in inserted, m # n PROVE Entries'[m] = Entries[m]
  <2>1. PICK i \in 1 .. Count : inserted_nodes[i].node = m
    BY <1>4
  <2>2. i # r
    BY <1>9, <2>1
  <2>3. /\ Entries'[m].weight = Entries[m].weight
        /\ Entries'[m].removed = Entries[m].removed
    BY <1>2, <1>4, <1>5, <1>7, <2>1, <2>2 DEF DeletedMin
  <2> QED
    BY <1>4, <1>5, <2>3 DEF EntryTypes
<1>10. Entries' = [Entries EXCEPT ![n].removed = TRUE]
  <2> DEFINE E == Entries
             F == Entries'
  <2>1. OthersSame(inserted, E, F, n) /\ F[n].weight = E[n].weight /\ F[n].removed = TRUE
    BY <1>4, <1>5, <1>6, <1>8, <1>9 DEF OthersSame
  <2> HIDE DEF n, E, F
  <2>2. F = [E EXCEPT ![n].removed = TRUE]
    BY <2>1, OneMarked
  <2> QED
    BY <2>2, Zenon DEF E, F
<1>11. ASSUME NEW m \in inserted, ~Entries[m].removed
       PROVE  Entries[n].weight <= Entries[m].weight
  <2>1. PICK i \in 1 .. Count : inserted_nodes[i].node = m
    BY <1>4
  <2> QED
    BY <1>2, <1>3, <1>4, <1>11, <2>1 DEF DeletedMin
<1>12. DOMAIN Entries = inserted
  BY <1>4
<1> HIDE DEF n
<1>13. /\ n \in {m \in DOMAIN Entries : ~Entries[m].removed}
       /\ \A m \in {k \in DOMAIN Entries : ~Entries[k].removed} : Entries[n].weight <= Entries[m].weight
  BY <1>6, <1>8, <1>11, <1>12
<1>14. Abstract!DeleteMin(n)
  BY <1>3, <1>10, <1>13 DEF n, Entries, Abstract!DeleteMin, Abstract!Live
<1> QED
  BY <1>6, <1>14

\* DecreaseKey gives a live node a smaller weight.
LEMMA DecreaseKeyRefines ==
    ASSUME Inv, NEW n \in Nodes, NEW w \in Weights, DecreaseKey(n, w)
    PROVE  Abstract!DecreaseKey(n, w)
<1>1. Inv' /\ \E r : Decreased(r, w) /\ inserted_nodes[r].node = n
  BY DecreaseKeyInv
<1>2. PICK r : Decreased(r, w) /\ inserted_nodes[r].node = n
  BY <1>1
<1>3. SamePlaces /\ r \in 1 .. Count /\ inserted_nodes[r].key # 0 /\ w < inserted_nodes[r].weight
  BY <1>2 DEF Decreased
<1>4. /\ Entries \in [inserted -> EntryTypes]
      /\ inserted = {inserted_nodes[i].node : i \in 1 .. Count}
      /\ \A i \in 1 .. Count :
           /\ Entries[inserted_nodes[i].node].weight = inserted_nodes[i].weight
           /\ Entries[inserted_nodes[i].node].removed <=> inserted_nodes[i].key = 0
  BY EntriesType DEF EntriesSeen
<1>5. /\ Entries' \in [inserted -> EntryTypes]
      /\ \A i \in 1 .. Count :
           /\ Entries'[inserted_nodes[i].node].weight = inserted_nodes'[i].weight
           /\ Entries'[inserted_nodes[i].node].removed <=> inserted_nodes'[i].key = 0
  BY <1>1, <1>3, EntriesStep
<1>6. n \in inserted
  BY <1>2, <1>3, <1>4
<1>7. \A m \in inserted : Entries[m].removed \in BOOLEAN /\ Entries'[m].removed \in BOOLEAN
  BY <1>4, <1>5 DEF EntryTypes
<1>8. Entries[n].removed = FALSE /\ Entries'[n].removed = Entries[n].removed /\ Entries'[n].weight = w
  BY <1>2, <1>3, <1>4, <1>5, <1>6, <1>7 DEF Decreased
<1>9. ASSUME NEW m \in inserted, m # n PROVE Entries'[m] = Entries[m]
  <2>1. PICK i \in 1 .. Count : inserted_nodes[i].node = m
    BY <1>4
  <2>2. i # r
    BY <1>2, <1>9, <2>1
  <2>3. /\ Entries'[m].weight = Entries[m].weight
        /\ Entries'[m].removed = Entries[m].removed
    BY <1>2, <1>4, <1>5, <1>7, <2>1, <2>2 DEF Decreased
  <2> QED
    BY <1>4, <1>5, <2>3 DEF EntryTypes
<1>10. Entries' = [Entries EXCEPT ![n].weight = w]
  <2> DEFINE E == Entries
             F == Entries'
  <2>1. OthersSame(inserted, E, F, n) /\ F[n].weight = w /\ F[n].removed = E[n].removed
    BY <1>4, <1>5, <1>6, <1>8, <1>9 DEF OthersSame
  <2> HIDE DEF E, F
  <2>2. F = [E EXCEPT ![n].weight = w]
    BY <2>1, OneWeight
  <2> QED
    BY <2>2, Zenon DEF E, F
<1>11. n \in {m \in DOMAIN Entries : ~Entries[m].removed} /\ w < Entries[n].weight
  BY <1>2, <1>3, <1>4, <1>6, <1>8
<1>12. result' = {}
  BY DEF DecreaseKey
<1> QED
  BY <1>10, <1>11, <1>12 DEF Entries, Abstract!DecreaseKey, Abstract!Live

\* DeleteAll marks all entries.
LEMMA DeleteAllRefines ==
    ASSUME Inv, DeleteAll
    PROVE  Abstract!DeleteAll
<1>1. Inv' /\ DeletedAll
  BY DeleteAllInv
<1>2. SamePlaces
  BY <1>1 DEF DeletedAll
<1>3. /\ Entries \in [inserted -> EntryTypes]
      /\ inserted = {inserted_nodes[i].node : i \in 1 .. Count}
      /\ \A i \in 1 .. Count : Entries[inserted_nodes[i].node].weight = inserted_nodes[i].weight
  BY EntriesType DEF EntriesSeen
<1>4. /\ Entries' \in [inserted -> EntryTypes]
      /\ \A i \in 1 .. Count :
           /\ Entries'[inserted_nodes[i].node].weight = inserted_nodes'[i].weight
           /\ Entries'[inserted_nodes[i].node].removed <=> inserted_nodes'[i].key = 0
  BY <1>1, <1>2, EntriesStep
<1>5. ASSUME NEW m \in inserted PROVE Entries'[m] = [Entries[m] EXCEPT !.removed = TRUE]
  <2>1. PICK i \in 1 .. Count : inserted_nodes[i].node = m
    BY <1>3
  <2>2. Entries'[m].removed \in BOOLEAN
    BY <1>4 DEF EntryTypes
  <2>3. Entries'[m].weight = Entries[m].weight /\ Entries'[m].removed = TRUE
    BY <1>1, <1>3, <1>4, <2>1, <2>2 DEF DeletedAll
  <2>4. Entries[m] \in EntryTypes /\ Entries'[m] \in EntryTypes
    BY <1>3, <1>4
  <2> QED
    BY <2>3, <2>4 DEF EntryTypes
<1>6. Entries' = [m \in DOMAIN Entries |-> [Entries[m] EXCEPT !.removed = TRUE]]
  BY <1>3, <1>4, <1>5
<1>7. result' = {}
  BY DEF DeleteAll
<1> QED
  BY <1>6, <1>7 DEF Entries, Abstract!DeleteAll

\* Insert adds an entry for a node that has none.
LEMMA InsertRefines ==
    ASSUME Inv, NEW n \in Nodes, NEW w \in Weights, Insert(n, w)
    PROVE  Abstract!Insert(n, w)
<1>1. Inv' /\ Inserted(n, w) /\ Count \in Nat
  BY InsertInv, IndexFound
<1>2. EntriesSeen /\ EntriesSeen'
  BY <1>1, EntriesType, PTL
<1>3. ~WasInserted(n)
  BY DEF Insert
<1>4. n \notin inserted
  BY <1>3 DEF inserted
<1>5. /\ Count' = Count + 1 /\ inserted_nodes'[Count + 1].node = n
      /\ \A i \in 1 .. Count : inserted_nodes'[i].node = inserted_nodes[i].node
  BY <1>1 DEF Inserted
<1>6. \A i \in 1 .. Count + 1 : i = Count + 1 \/ i \in 1 .. Count
  BY <1>1
<1>7. Count + 1 \in 1 .. Count + 1 /\ \A i \in 1 .. Count : i \in 1 .. Count + 1
  BY <1>1
<1>8. inserted' = inserted \cup {n}
  BY <1>2, <1>5, <1>6, <1>7 DEF EntriesSeen
<1>9. Entries' \in [inserted \cup {n} -> EntryTypes] /\ Entries \in [inserted -> EntryTypes]
  BY <1>2, <1>8 DEF EntriesSeen
<1>10. Entries'[n] = [weight |-> w, removed |-> FALSE]
  <2>1. Entries'[n] \in EntryTypes
    BY <1>9
  <2>2. Entries'[n].weight = w /\ ~Entries'[n].removed
    BY <1>1, <1>2, <1>5, <1>7 DEF EntriesSeen, Inserted
  <2> QED
    BY <2>1, <2>2 DEF EntryTypes
<1>11. ASSUME NEW m \in inserted PROVE Entries'[m] = Entries[m]
  <2>1. PICK i \in 1 .. Count : inserted_nodes[i].node = m
    BY <1>2 DEF EntriesSeen
  <2>2. i \in 1 .. Count' /\ inserted_nodes'[i].node = m
    BY <1>5, <1>7, <2>1
  <2>3. Entries[m] \in EntryTypes /\ Entries'[m] \in EntryTypes
    BY <1>9
  <2>4. /\ Entries'[m].weight = Entries[m].weight
        /\ Entries'[m].removed <=> Entries[m].removed
    BY <1>1, <1>2, <2>1, <2>2 DEF EntriesSeen, Inserted
  <2> QED
    BY <2>3, <2>4 DEF EntryTypes
<1>12. Entries' = [m \in DOMAIN Entries \cup {n} |->
                     IF m = n THEN [weight |-> w, removed |-> FALSE] ELSE Entries[m]]
  BY <1>9, <1>10, <1>11
<1>13. n \notin DOMAIN Entries
  BY <1>4, <1>9
<1>14. result' = {}
  BY DEF Insert
<1> QED
  BY <1>12, <1>13, <1>14 DEF Entries, Abstract!Insert

\* Without inserted nodes there are no entries.
LEMMA NoEntries == EntriesSeen /\ Count = 0 => Entries = [n \in {} |-> 0]
<1> SUFFICES ASSUME EntriesSeen, Count = 0 PROVE Entries = [n \in {} |-> 0]
  OBVIOUS
<1>1. inserted = {}
  BY DEF EntriesSeen
<1>2. Entries \in [{} -> EntryTypes]
  BY <1>1 DEF EntriesSeen
<1> QED
  BY <1>2

\* Clear removes all entries.
LEMMA ClearRefines ==
    ASSUME Inv, Clear
    PROVE  Abstract!Clear
<1>1. Inv'
  BY ClearInv
<1>2. EntriesSeen'
  BY <1>1, EntriesType, PTL
<1>3. Count' = 0
  BY DEF Clear, Count
<1>4. Entries' = [n \in {} |-> 0]
  <2>1. (EntriesSeen /\ Count = 0 => Entries = [n \in {} |-> 0])'
    BY NoEntries, PTL
  <2> QED
    BY <1>2, <1>3, <2>1
<1>5. result' = {}
  BY DEF Clear
<1> QED
  BY <1>4, <1>5 DEF Entries, Abstract!Clear

\* Looking up does not show.
LEMMA LookUpRefines ==
    ASSUME Inv, NEW n \in Nodes, LookUp(n)
    PROVE  UNCHANGED <<Entries, result>>
<1>1. Inv' /\ inserted_nodes' = inserted_nodes /\ result' = result
  BY LookUpInv DEF LookUp
<1>2. SamePlaces
  BY <1>1 DEF SamePlaces, Count
<1>3. /\ Entries \in [inserted -> EntryTypes]
      /\ inserted = {inserted_nodes[i].node : i \in 1 .. Count}
      /\ \A i \in 1 .. Count :
           /\ Entries[inserted_nodes[i].node].weight = inserted_nodes[i].weight
           /\ Entries[inserted_nodes[i].node].removed <=> inserted_nodes[i].key = 0
  BY EntriesType DEF EntriesSeen
<1>4. /\ Entries' \in [inserted -> EntryTypes]
      /\ \A i \in 1 .. Count :
           /\ Entries'[inserted_nodes[i].node].weight = inserted_nodes[i].weight
           /\ Entries'[inserted_nodes[i].node].removed <=> inserted_nodes[i].key = 0
  BY <1>1, <1>2, EntriesStep
<1>5. ASSUME NEW m \in inserted PROVE Entries'[m] = Entries[m]
  <2>1. PICK i \in 1 .. Count : inserted_nodes[i].node = m
    BY <1>3
  <2>2. Entries'[m] \in EntryTypes /\ Entries[m] \in EntryTypes
    BY <1>3, <1>4
  <2>3. Entries'[m].weight = Entries[m].weight /\ (Entries'[m].removed <=> Entries[m].removed)
    BY <1>3, <1>4, <2>1
  <2> QED
    BY <2>2, <2>3 DEF EntryTypes
<1> QED
  BY <1>1, <1>3, <1>4, <1>5

\* Every step of the heap is a step of the priority queue or does not show.
LEMMA StepRefines ==
    ASSUME Inv, [Next]_vars
    PROVE  [Abstract!Next]_<<Entries, result>>
<1>1. Nodes \subseteq NodeIDs
  BY IndexFound
<1>2. CASE Clear
  BY <1>2, ClearRefines DEF Abstract!Next
<1>3. CASE DeleteMin
  BY <1>3, DeleteMinRefines DEF Abstract!Next
<1>4. CASE DeleteAll
  BY <1>4, DeleteAllRefines DEF Abstract!Next
<1>5. CASE \E n \in Nodes : LookUp(n)
  BY <1>5, LookUpRefines
<1>6. ASSUME NEW n \in Nodes, NEW w \in Weights, Insert(n, w) PROVE Abstract!Next
  BY <1>1, <1>6, InsertRefines DEF Abstract!Next
<1>7. ASSUME NEW n \in Nodes, NEW w \in Weights, DecreaseKey(n, w) PROVE Abstract!Next
  BY <1>1, <1>7, DecreaseKeyRefines DEF Abstract!Next
<1>8. CASE UNCHANGED vars
  BY <1>8 DEF vars, Entries, inserted, Nodes, Found, WasInserted, Index, GetKey, WasRemoved, At, Hashed
<1> QED
  BY <1>2, <1>3, <1>4, <1>5, <1>6, <1>7, <1>8 DEF Next

\* The heap of BinaryHeap.h, with any of its index storages, is the priority queue that the
\* searches take it for: DeleteMin returns a node of least weight among those inserted since
\* the last Clear and not yet removed, and an index left over from an earlier search, in an
\* array or in a cell of the hash table, is never taken for an insertion.
THEOREM HeapImplementsQueue == Spec => ImplementsQueue
<1>1. Init => Abstract!Init
  <2> SUFFICES ASSUME Init PROVE Abstract!Init
    OBVIOUS
  <2>1. EntriesSeen /\ Count = 0
    BY InitInv, EntriesType, EmptyHeap DEF Init
  <2>2. Entries = [n \in {} |-> 0] /\ result = {}
    BY <2>1, NoEntries DEF Init
  <2> QED
    BY <2>2 DEF Entries, Abstract!Init
<1>2. Inv /\ [Next]_vars => [Abstract!Next]_<<Entries, result>>
  BY StepRefines
<1>3. Spec => []Inv
  BY InitInv, NextInv, PTL DEF Spec
<1>4. Abstract!Init /\ [][Abstract!Next]_<<Entries, result>> => ImplementsQueue
  BY DEF ImplementsQueue, Abstract!Spec, Entries
<1> QED
  BY <1>1, <1>2, <1>3, <1>4, PTL DEF Spec
=============================================================================
