---------------------------- MODULE DynamicGraph ----------------------------
(***************************************************************************)
(* The adjacency array with room to grow (DataStructures/DynamicGraph.h).  *)
(* The edges of a node are the slots firstEdge .. firstEdge + edges - 1 of *)
(* one array; a slot that nobody uses is a dummy.  Operations are          *)
(* functions from graphs to graphs.  Nodes and slots count from 0.         *)
(***************************************************************************)
EXTENDS Integers, Sequences, FiniteSets

Dummy == -1         \* numeric_limits<NodeIterator>::max() as a target

-----------------------------------------------------------------------------
(* Reading *)

GetNumberOfNodes(g) == g.number_of_nodes
Nodes(g) == 0 .. g.number_of_nodes - 1
GetOutDegree(g, n) == g.node_list[n].edges
BeginEdges(g, n) == g.node_list[n].firstEdge
EndEdges(g, n) == g.node_list[n].firstEdge + g.node_list[n].edges
GetAdjacentEdgeRange(g, n) == BeginEdges(g, n) .. EndEdges(g, n) - 1
AdjacentEdges(g, n) == [i \in 1 .. GetOutDegree(g, n) |-> BeginEdges(g, n) + i - 1]
GetTarget(g, e) == g.edge_list[e].target
GetEdgeData(g, e) == g.edge_list[e].data

GetDirectedOutDegree(g, n) ==
    Cardinality({e \in GetAdjacentEdgeRange(g, n) : GetEdgeData(g, e).forward})

\* The first edge in the adjacency of from that leads to to, else EndEdges(from).
FindEdge(g, from, to) ==
    CHOOSE i \in BeginEdges(g, from) .. EndEdges(g, from) :
      /\ i = EndEdges(g, from) \/ GetTarget(g, i) = to
      /\ \A j \in BeginEdges(g, from) .. i - 1 : GetTarget(g, j) # to

HasEdge(g, from, to) == FindEdge(g, from, to) # EndEdges(g, from)

-----------------------------------------------------------------------------
(* Construction and modification *)

\* The adjacency of a node starts where the previous one ends and takes the run of
\* edges with that source; edges is a sequence of [source, target, data].
Construct(nodes, edges) ==
    LET RunEnd(node, from) ==
          CHOOSE k \in from .. Len(edges) :
            /\ \A j \in from + 1 .. k : edges[j].source = node
            /\ k = Len(edges) \/ edges[k + 1].source # node
        end[node \in -1 .. nodes - 1] == IF node = -1 THEN 0 ELSE RunEnd(node, end[node - 1])
    IN [number_of_nodes |-> nodes,
        number_of_edges |-> Len(edges),
        node_list |-> [n \in 0 .. nodes - 1 |->
                         [firstEdge |-> end[n - 1], edges |-> end[n] - end[n - 1]]],
        edge_list |-> [i \in 0 .. end[nodes - 1] - 1 |->
                         [target |-> edges[i + 1].target, data |-> edges[i + 1].data]]]

SetTarget(g, e, n) == [g EXCEPT !.edge_list[e].target = n]

\* The last edge of the adjacency takes the slot of the removed one.
DeleteEdge(g, source, e) ==
    LET last == EndEdges(g, source) - 1
        moved == [g.edge_list EXCEPT ![e] = g.edge_list[last]]
    IN [g EXCEPT !.edge_list = [moved EXCEPT ![last].target = Dummy],
                 !.node_list[source].edges = @ - 1,
                 !.number_of_edges = @ - 1]
=============================================================================
