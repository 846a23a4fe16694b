---------------------------- MODULE StaticGraph -----------------------------
(***************************************************************************)
(* The hierarchy as an adjacency array: written to the .hsgr file by       *)
(* Contractor/Prepare.cpp, searched through DataStructures/StaticGraph.h.  *)
(* node_array holds for every node, and for one node more, the index of    *)
(* its first edge; edge_array holds the edges without their sources.  Both *)
(* are indexed from 0 in the code; here node_array is too, while the index *)
(* i of the code is edge_array[i + 1].                                     *)
(***************************************************************************)
EXTENDS Integers, Sequences, FiniteSets, FiniteSetsExt

\* QueryEdge::operator<; the order of parallel edges is left to the sort.
QueryEdgeLess(a, b) ==
    IF a.source # b.source THEN a.source < b.source ELSE a.target < b.target

\* An edge than which no other one is less.
FirstEdge(edges) == CHOOSE e \in edges : \A f \in edges : ~QueryEdgeLess(f, e)

\* The edges in order: the first one of those that are left comes next.  A turn gives the
\* set with the list after it, which TLC computes only once.
ContractedEdgeList(edges) ==
    LET sorted[n \in 0 .. Cardinality(edges)] ==
          IF n = 0 THEN {<<>>}
          ELSE {Append(list, FirstEdge(edges \ {list[i] : i \in DOMAIN list})) : list \in sorted[n - 1]}
    IN  CHOOSE list \in sorted[Cardinality(edges)] : TRUE

MaxUsedNodeId(list) ==
    1 + Max({0} \cup UNION {{list[i].source, list[i].target} : i \in DOMAIN list})

\* The cursor over the list after the edges of a node: where the loop stops first.
AfterEdgesOf(list, node, edge) ==
    Min({i \in edge .. Len(list) : i = Len(list) \/ list[i + 1].source # node})

\* The first edges of all nodes; sentinels from the first unused node on.
NodeArray(list, nodes) ==
    LET used == MaxUsedNodeId(list)
        cursor[node \in 0 .. nodes] ==
          IF node = 0 THEN 0 ELSE AfterEdgesOf(list, node - 1, cursor[node - 1])
    IN [node \in 0 .. nodes |-> IF node < used THEN cursor[node] ELSE Len(list)]

\* The edges without their sources.
EdgeArray(list) ==
    [i \in DOMAIN list |-> [field \in DOMAIN list[i] \ {"source"} |-> list[i][field]]]

\* The entries from BeginEdges up to EndEdges of a node (GetAdjacentEdgeRange).
EdgesInRange(node_array, edge_array, node) ==
    {edge_array[i] : i \in node_array[node] + 1 .. node_array[node + 1]}

-----------------------------------------------------------------------------
(* The loaded graph never changes, and is read through the ranges only: it is kept as *)
(* the set of edges that a search meets at each node.                                 *)
NoGraph == <<>>

SerializedGraph(edges, nodes) ==
    LET list == ContractedEdgeList(edges)
        node_array == NodeArray(list, nodes)
        edge_array == EdgeArray(list)
    IN [node \in 0 .. nodes - 1 |-> EdgesInRange(node_array, edge_array, node)]

\* FindEdgeInEitherDirection: a lightest edge at the first node, else at the second one,
\* whatever its flags.
FindEdgeInEitherDirection(g, from, to) ==
    LET found == {e \in g[from] : e.target = to}
        candidates == IF found # {} THEN found ELSE {e \in g[to] : e.target = from}
    IN CHOOSE e \in candidates : \A f \in candidates : e.distance <= f.distance
=============================================================================
