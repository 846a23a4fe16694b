----------------------------- MODULE Contractor -----------------------------
(***************************************************************************)
(* Contraction of the edge-expanded graph into a contraction hierarchy     *)
(* (Contractor/Contractor.h).                                              *)
(*                                                                         *)
(* Rounds contract an independent set of nodes at once: threads find       *)
(* shortcuts with a witness search on the graph of the round's start, then *)
(* the edges towards the contracted nodes are deleted and the shortcuts    *)
(* inserted.  Once enough nodes are contracted, their edges are moved out  *)
(* and the remaining nodes are renumbered ("flush").                       *)
(*                                                                         *)
(* The priority of a node is a heuristic: a rank over the nodes, chosen    *)
(* anew in every round, stands for node_priorities and the tie breaking by *)
(* bias.  Priorities that differ by less than epsilon without being equal  *)
(* (possible below 1) hold back both nodes: the lower one by bias, the     *)
(* other one by its priority.  The lower ones are the round's ties.        *)
(*                                                                         *)
(* Every edge is kept at both end points; the adjacency of a node is the   *)
(* set of edges with this source.                                          *)
(***************************************************************************)
EXTENDS Integers, Sequences, FiniteSets, FiniteSetsExt

CONSTANTS
    number_of_nodes,    \* nodes of the input graph, 0 .. number_of_nodes - 1
    Inputs,             \* input edge lists to contract
    MaxNodes,           \* nodes a witness search settles (2000 in the code)
    FlushPercent,       \* share of contracted nodes that triggers the flush (65)
    MaxTies,            \* bound: nodes a near tie holds back in a round
    INT_MAX             \* numeric_limits<int>::max(): no connection.  Sums do not wrap in
                        \* the model: it stands for graphs whose paths weigh less

ASSUME ContractorAssumption ==
    /\ number_of_nodes \in Nat /\ MaxNodes \in Nat /\ FlushPercent \in 0 .. 100
    /\ MaxTies \in Nat /\ INT_MAX \in Nat \ {0}
    /\ \A input \in Inputs : \A e \in input :
         /\ {e.source, e.target} \subseteq 0 .. number_of_nodes - 1
         /\ e.weight \in Int /\ e.forward \in BOOLEAN /\ e.backward \in BOOLEAN

NodeIDs == 0 .. number_of_nodes - 1

VARIABLES
    input_edge_list,            \* the input, kept to compare with
    contractor_graph,           \* edges in the current numbering
    remaining_nodes,            \* sequence of nodes that are not contracted yet
    number_of_contracted_nodes,
    flushed_contractor,
    external_edge_list,         \* edges of nodes contracted before the flush
    orig_node_id_to_new_id_map, \* after the flush: original id of each new id
    edges,                      \* the hierarchy that GetEdges builds
    built                       \* GetEdges has returned

vars == <<input_edge_list, contractor_graph, remaining_nodes,
          number_of_contracted_nodes, flushed_contractor, external_edge_list,
          orig_node_id_to_new_id_map, edges, built>>

Elements(seq) == {seq[i] : i \in 1 .. Len(seq)}
MaxOf(a, b) == IF a > b THEN a ELSE b
MinWeight(S) == IF S = {} THEN INT_MAX ELSE Min(S)

Edge(s, t, w, id, shortcut, forward, backward) ==
    [source |-> s, target |-> t, distance |-> w, id |-> id, shortcut |-> shortcut,
     forward |-> forward, backward |-> backward, is_original_via_node_ID |-> FALSE]

Adjacent(E, u) == {e \in E : e.source = u}
Neighbours(E, u) == {e.target : e \in Adjacent(E, u)} \ {u}

-----------------------------------------------------------------------------
(* Constructor: eigenloops and parallel edges are removed, equal distances of  *)
(* both directions become one bidirectional edge.                              *)

\* Smallest weight with which the input leads from s to t.
InputDistance(input, s, t) ==
    MinWeight({MaxOf(e.weight, 1) : e \in
        {f \in input : \/ f.source = s /\ f.target = t /\ f.forward
                       \/ f.target = s /\ f.source = t /\ f.backward}})

MergedEdges(input, s, t) ==
    LET there == InputDistance(input, s, t)
        back == InputDistance(input, t, s)
    IN  IF there = back
        THEN {Edge(s, t, w, 0, FALSE, TRUE, TRUE) : w \in {there} \ {INT_MAX}}
        ELSE {Edge(s, t, w, 0, FALSE, TRUE, FALSE) : w \in {there} \ {INT_MAX}} \cup
             {Edge(s, t, w, 0, FALSE, FALSE, TRUE) : w \in {back} \ {INT_MAX}}

InitialGraph(input) ==
    UNION {MergedEdges(input, p[1], p[2]) :
             p \in {q \in NodeIDs \X NodeIDs : q[1] # q[2]}}

-----------------------------------------------------------------------------
(* Witness search *)

\* The heap as the set of its entries; those DeleteMin returned stay, as settled.
HeapEntry(node, key, target) ==
    [node |-> node, key |-> key, target |-> target, settled |-> FALSE]

GetKey(heap, node) == (CHOOSE h \in heap : h.node = node).key

\* One turn of the loop: settles the node of least key, or leaves the heap as it is once
\* maxNodes, max_distance or the last target is reached; middleNode is never entered.
DijkstraTurn(heap, max_distance, middleNode) ==
    LET open == {h \in heap : ~h.settled}
        top == CHOOSE h \in open : \A g \in open : h.key <= g.key
        out == {e \in Adjacent(contractor_graph, top.node) :
                    e.forward /\ e.target # middleNode}
        Via(v) == {top.key + e.distance : e \in {f \in out : f.target = v}}
        discovered == {e.target : e \in out} \ {h.node : h \in heap}
    IN  IF \/ open = {}
           \/ Cardinality(heap \ open) + 1 > MaxNodes
           \/ top.key > max_distance
           \/ top.target /\ \A h \in open \ {top} : ~h.target
        THEN heap
        ELSE {[h EXCEPT !.key = Min({@} \cup Via(h.node)),
                        !.settled = @ \/ h = top] : h \in heap}
             \cup {HeapEntry(v, Min(Via(v)), FALSE) : v \in discovered}

\* The heap when the loop ends: every node is settled once.  A turn gives the set with
\* the heap after it, which TLC computes only once.
Dijkstra(heap, max_distance, middleNode) ==
    LET turn[n \in 0 .. number_of_nodes] ==
          IF n = 0 THEN {heap}
          ELSE {DijkstraTurn(h, max_distance, middleNode) : h \in turn[n - 1]}
    IN  CHOOSE h \in turn[number_of_nodes] : TRUE

\* The heap after the search that ContractNode runs for one in-edge.
Witness(node, source, max_distance, targets) ==
    Dijkstra({HeapEntry(source, 0, FALSE)} \cup
               {HeapEntry(t, INT_MAX, TRUE) : t \in targets \ {source}},
             max_distance, node)

OutEdges(node) == {e \in Adjacent(contractor_graph, node) : e.forward}
InEdges(node) == {e \in Adjacent(contractor_graph, node) : e.backward}

\* Forward and backward entries with the same end points and distance are merged.
MergeFlags(new) ==
    {[e EXCEPT !.forward = \E f \in new : /\ f.source = e.source /\ f.target = e.target
                                          /\ f.distance = e.distance /\ f.forward,
               !.backward = \E f \in new : /\ f.source = e.source /\ f.target = e.target
                                           /\ f.distance = e.distance /\ f.backward] :
       e \in new}

\* Mutant: a shortcut is also dropped when the witness is longer by one.
ContractCarelessly(node) ==
    MergeFlags(UNION {
      LET max_distance == Max({in.distance + out.distance : out \in OutEdges(node)})
          heap == Witness(node, in.target, max_distance, {e.target : e \in OutEdges(node)})
          needed == {out \in OutEdges(node) : in.distance + out.distance + 1 < GetKey(heap, out.target)}
      IN  UNION {{Edge(in.target, out.target, in.distance + out.distance, node, TRUE, TRUE, FALSE),
                  Edge(out.target, in.target, in.distance + out.distance, node, TRUE, FALSE, TRUE)} :
                   out \in needed}
      : in \in IF OutEdges(node) = {} THEN {} ELSE InEdges(node)})

\* The shortcuts that replace the paths source -> node -> target.
ContractNode(node) ==
    MergeFlags(UNION {
      LET max_distance == Max({in.distance + out.distance : out \in OutEdges(node)})
          heap == Witness(node, in.target, max_distance, {e.target : e \in OutEdges(node)})
          needed == {out \in OutEdges(node) : in.distance + out.distance < GetKey(heap, out.target)}
      IN  UNION {{Edge(in.target, out.target, in.distance + out.distance, node, TRUE, TRUE, FALSE),
                  Edge(out.target, in.target, in.distance + out.distance, node, TRUE, FALSE, TRUE)} :
                   out \in needed}
      : in \in IF OutEdges(node) = {} THEN {} ELSE InEdges(node)})

-----------------------------------------------------------------------------
(* A round of Run() *)

TwoHops(u) ==
    (UNION {Neighbours(contractor_graph, v) : v \in Neighbours(contractor_graph, u)}) \ {u}

\* Mutant: a node met again two hops away is not skipped.
IsNodeIndependentOfItself(node, rank, ties) ==
    \A v \in Neighbours(contractor_graph, node) \cup
              UNION {Neighbours(contractor_graph, u) : u \in Neighbours(contractor_graph, node)} :
       rank[node] < rank[v]

\* Mutant: only direct neighbours are compared.
IsLocalMinimum(node, rank, ties) ==
    \A v \in Neighbours(contractor_graph, node) : rank[node] < rank[v]

IsNodeIndependent(node, rank, ties) ==
    \A v \in Neighbours(contractor_graph, node) \cup TwoHops(node) :
       rank[node] < rank[v] /\ node \notin ties

DeleteIncomingEdges(E, nodes) ==
    {e \in E : ~(e.target \in nodes /\ e.source \in Neighbours(E, e.target))}

\* Mutant: a shorter shortcut replaces whatever edge FindEdge returns.
ReplaceOrInsert(E, new) ==
    LET same == {e \in E : e.source = new.source /\ e.target = new.target}
        Updates(e) == new.distance < e.distance
    IN  {(E \ {e}) \cup {new} : e \in {f \in same : Updates(f)}} \cup
        (IF same = {} \/ \E e \in same : ~Updates(e) THEN {E \cup {new}} ELSE {})

\* The graphs that insertion of one edge may give: FindEdge may return any of the
\* parallel edges; a shortcut with the same flags and a larger distance is replaced.
InsertEdge(E, new) ==
    LET same == {e \in E : e.source = new.source /\ e.target = new.target}
        Updates(e) == /\ e.shortcut /\ e.forward = new.forward
                      /\ e.backward = new.backward /\ new.distance < e.distance
    IN  {(E \ {e}) \cup {new} : e \in {f \in same : Updates(f)}} \cup
        (IF same = {} \/ \E e \in same : ~Updates(e) THEN {E \cup {new}} ELSE {})

\* Entries are inserted pair by pair; those of one pair come in any order.  A state of
\* the loop is a graph and the entries left.
InsertTurn(state) ==
    LET first == CHOOSE e \in state.left : TRUE
        group == {e \in state.left : e.source = first.source /\ e.target = first.target}
    IN  UNION {{[graph |-> G, left |-> state.left \ {e}] : G \in InsertEdge(state.graph, e)} :
                 e \in group}

InsertEdges(E, new) ==
    LET turn[n \in 0 .. Cardinality(new)] ==
          IF n = 0 THEN {[graph |-> E, left |-> new]}
          ELSE UNION {InsertTurn(state) : state \in turn[n - 1]}
    IN  {state.graph : state \in turn[Cardinality(new)]}

\* The nodes of a sequence without some of them, in their order.
Without(seq, nodes) ==
    LET rest[n \in 0 .. Len(seq)] ==
          IF n = 0 THEN <<>>
          ELSE IF seq[n] \in nodes THEN rest[n - 1] ELSE Append(rest[n - 1], seq[n])
    IN  rest[Len(seq)]

Ranks(nodes) ==
    {r \in [nodes -> 1 .. Cardinality(nodes)] : \A u, v \in nodes : r[u] = r[v] => u = v}

Ties(nodes) == {T \in SUBSET nodes : Cardinality(T) <= MaxTies}

FlushDue ==
    /\ ~flushed_contractor
    /\ 100 * number_of_contracted_nodes > FlushPercent * number_of_nodes

Contracting ==
    /\ ~built
    /\ number_of_nodes > 2 /\ number_of_contracted_nodes < number_of_nodes

ContractRound ==
    /\ Contracting /\ ~FlushDue
    /\ \E rank \in Ranks(Elements(remaining_nodes)), ties \in Ties(Elements(remaining_nodes)) :
         LET independent ==
               {u \in Elements(remaining_nodes) : IsNodeIndependent(u, rank, ties)}
             shortcuts == UNION {ContractNode(u) : u \in independent}
         IN  /\ contractor_graph' \in
                  InsertEdges(DeleteIncomingEdges(contractor_graph, independent), shortcuts)
             /\ remaining_nodes' = Without(remaining_nodes, independent)
             /\ number_of_contracted_nodes' =
                  number_of_contracted_nodes + Cardinality(independent)
    /\ UNCHANGED <<input_edge_list, flushed_contractor, external_edge_list,
                   orig_node_id_to_new_id_map, edges, built>>

\* Mutant: via nodes of the flushed graph's edges are not marked as original ids.
FlushUnmarked ==
    /\ Contracting /\ FlushDue
    /\ orig_node_id_to_new_id_map' = remaining_nodes
    /\ LET New(u) == (CHOOSE i \in 1 .. Len(remaining_nodes) : remaining_nodes[i] = u) - 1
           live == Elements(remaining_nodes)
       IN  /\ external_edge_list' = {e \in contractor_graph : e.source \notin live}
           /\ contractor_graph' =
                {[e EXCEPT !.source = New(@), !.target = New(@)] :
                   e \in {f \in contractor_graph : f.source \in live}}
    /\ remaining_nodes' = [i \in 1 .. Len(remaining_nodes) |-> i - 1]
    /\ flushed_contractor' = TRUE
    /\ UNCHANGED <<input_edge_list, number_of_contracted_nodes, edges, built>>

\* Edges of contracted nodes are set aside, the others renumbered.
Flush ==
    /\ Contracting /\ FlushDue
    /\ orig_node_id_to_new_id_map' = remaining_nodes
    /\ LET New(u) == (CHOOSE i \in 1 .. Len(remaining_nodes) : remaining_nodes[i] = u) - 1
           live == Elements(remaining_nodes)
       IN  /\ external_edge_list' = {e \in contractor_graph : e.source \notin live}
           /\ contractor_graph' =
                {[e EXCEPT !.source = New(@), !.target = New(@),
                           !.is_original_via_node_ID = TRUE] :
                   e \in {f \in contractor_graph : f.source \in live}}
    /\ remaining_nodes' = [i \in 1 .. Len(remaining_nodes) |-> i - 1]
    /\ flushed_contractor' = TRUE
    /\ UNCHANGED <<input_edge_list, number_of_contracted_nodes, edges, built>>

\* Original id of a node of the current numbering.
Original(u) ==
    IF orig_node_id_to_new_id_map = <<>> THEN u ELSE orig_node_id_to_new_id_map[u + 1]

GetEdges ==
    /\ ~built /\ ~Contracting
    /\ edges' = external_edge_list \cup
         {[e EXCEPT !.source = Original(@), !.target = Original(@),
                    !.id = IF e.is_original_via_node_ID THEN @ ELSE Original(@)] :
            e \in contractor_graph}
    /\ contractor_graph' = {} /\ external_edge_list' = {}
    /\ orig_node_id_to_new_id_map' = <<>>
    /\ built' = TRUE
    /\ UNCHANGED <<input_edge_list, remaining_nodes, number_of_contracted_nodes,
                   flushed_contractor>>

Init ==
    /\ input_edge_list \in Inputs
    /\ contractor_graph = InitialGraph(input_edge_list)
    /\ remaining_nodes = [i \in 1 .. number_of_nodes |-> i - 1]
    /\ number_of_contracted_nodes = 0
    /\ flushed_contractor = FALSE
    /\ external_edge_list = {}
    /\ orig_node_id_to_new_id_map = <<>>
    /\ edges = {}
    /\ built = FALSE

Next == ContractRound \/ Flush \/ GetEdges

Spec == Init /\ [][Next]_vars /\ WF_vars(Next)

-----------------------------------------------------------------------------
(* Properties *)

\* Triples <<u, v, w>>: the shortest walk from u to v along arcs (records [from, to, weight])
\* weighs w.  Weights are found in their order, up to INT_MAX - 1.
Shortest(arcs) ==
    LET upTo[w \in 0 .. INT_MAX - 1] ==
          LET lighter == IF w = 0 THEN {} ELSE upTo[w - 1]
              reached == {<<t[1], t[2]>> : t \in lighter}
              Arrives(u, v) ==
                u = v \/ \E a \in arcs : a.to = v /\ <<u, a.from, w - a.weight>> \in lighter
          IN  lighter \cup {<<p[1], p[2], w>> :
                             p \in {q \in NodeIDs \X NodeIDs \ reached : Arrives(q[1], q[2])}}
    IN  upTo[INT_MAX - 1]

\* The weight of a shortest walk in the given triples.
Distance(shortest, u, v) == MinWeight({t[3] : t \in {s \in shortest : s[1] = u /\ s[2] = v}})

\* Arcs of the input, in both directions where the input edge allows it.
InputArcs ==
    {[from |-> p[1], to |-> p[2], weight |-> InputDistance(input_edge_list, p[1], p[2])] :
       p \in {q \in NodeIDs \X NodeIDs : q[1] # q[2]}}

\* Arcs that a search along forward (backward) entries of E may use.
ForwardArcs(E) ==
    {[from |-> e.source, to |-> e.target, weight |-> e.distance] : e \in {f \in E : f.forward}}
BackwardArcs(E) ==
    {[from |-> e.source, to |-> e.target, weight |-> e.distance] : e \in {f \in E : f.backward}}

\* Contraction never changes a distance between nodes that remain (Run,
\* Contractor.h:288-552): after every round, seen from either end point, the edges
\* among the remaining nodes give exactly the distances of the input graph, and
\* none of them leads to a node that is gone (the assertion of the flush,
\* "new target id not resolveable").  Two nodes contracted in one round that are
\* each other's witness would lose a path.
DistancesPreserved ==
    built \/
    LET live == Elements(remaining_nodes)
        E == {e \in contractor_graph : e.source \in live}
        forward == Shortest(ForwardArcs(E))
        backward == Shortest(BackwardArcs(E))
        input == Shortest(InputArcs)
    IN  /\ \A e \in E : e.target \in live
        /\ \A u, v \in live :
              LET expected == Distance(input, Original(u), Original(v))
              IN  /\ Distance(forward, u, v) = expected
                  /\ Distance(backward, v, u) = expected

\* Threads that contract the nodes of one round touch disjoint adjacency lists
\* (DeleteIncomingEdges runs in parallel without a lock): no two nodes that leave
\* in one step were neighbours or had a common neighbour.
RoundsAreIndependent ==
    [][Len(remaining_nodes') < Len(remaining_nodes) =>
         LET gone == Elements(remaining_nodes) \ Elements(remaining_nodes')
         IN  \A u, v \in gone : u # v =>
               /\ v \notin Neighbours(contractor_graph, u)
               /\ Neighbours(contractor_graph, u) \cap Neighbours(contractor_graph, v) = {}]_vars

\* The hierarchy answers every query exactly: for every source and target, the best
\* meeting node of an upward search along forward entries and one along backward
\* entries gives the distance of the input graph, whatever the contraction order,
\* the interruption of witness searches and the flush.
HierarchyExact ==
    built =>
    LET up == Shortest(ForwardArcs(edges))
        down == Shortest(BackwardArcs(edges))
        input == Shortest(InputArcs)
    IN  \A s, t \in NodeIDs :
          Min({INT_MAX} \cup {Distance(up, s, m) + Distance(down, t, m) : m \in NodeIDs})
          = Distance(input, s, t)

\* Edges UnpackPath may take for the arc from u to v: those kept at u, else at v.
EdgesBetween(u, v) ==
    LET at_source == {e \in edges : e.source = u /\ e.target = v /\ e.forward}
        at_target == {e \in edges : e.source = v /\ e.target = u /\ e.backward}
    IN  IF at_source # {} THEN at_source ELSE at_target
ShortestBetween(u, v) == MinWeight({e.distance : e \in EdgesBetween(u, v)})

\* The via node of a shortcut is named by its original id: the two halves that
\* unpacking finds at the via node add up to the shortcut's distance, also for
\* shortcuts made after the flush renumbered the nodes.
ViaResolves ==
    built =>
    \A u, v \in NodeIDs : \A e \in EdgesBetween(u, v) :
      e.shortcut /\ e.distance = ShortestBetween(u, v) =>
        ShortestBetween(u, e.id) + ShortestBetween(e.id, v) = e.distance

\* Run() terminates: every round finds a node to contract, provided that no two
\* priorities differ by less than epsilon without being equal (MaxTies = 0).
HierarchyIsBuilt == <>built

\* Type correctness; in particular all distances are positive, whatever the weights
\* of the input, and the counter of Run() agrees with the list of remaining nodes.
TypeOK ==
    LET EdgeSet == [source : NodeIDs, target : NodeIDs, distance : Nat \ {0}, id : NodeIDs,
                    shortcut : BOOLEAN, forward : BOOLEAN, backward : BOOLEAN,
                    is_original_via_node_ID : BOOLEAN]
    IN  /\ contractor_graph \subseteq EdgeSet /\ external_edge_list \subseteq EdgeSet
        /\ edges \subseteq EdgeSet
        /\ remaining_nodes \in Seq(NodeIDs) /\ orig_node_id_to_new_id_map \in Seq(NodeIDs)
        /\ number_of_contracted_nodes = number_of_nodes - Len(remaining_nodes)
        /\ flushed_contractor \in BOOLEAN /\ built \in BOOLEAN
=============================================================================
