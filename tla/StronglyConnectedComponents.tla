-------------------- MODULE StronglyConnectedComponents ---------------------
(***************************************************************************)
(* osrm-components (Tools/components.cpp,                                  *)
(* Algorithms/StronglyConnectedComponents.h): Tarjan's algorithm on the    *)
(* graph of an .osrm file, with a stack of frames instead of recursion,    *)
(* and the streets of small components as output.  Restrictions are loaded *)
(* and not used.                                                           *)
(***************************************************************************)
EXTENDS NodeBasedGraph, FiniteSetsExt

CONSTANT SmallComponent     \* components below this size are drawn (10)

VARIABLES
    tool,                   \* progress of main()
    tarjan_graph,
    next_node,              \* of the loop over all nodes
    recursion_stack,        \* frames [v, parent], the top is last
    tarjan_stack,
    tarjan_node_list,       \* node -> [index, low_link, on_stack, before]; before is the node's
                            \* entry of processing_node_before_recursion
    components_index,
    component_size_vector,
    network                 \* [measured, drawn]: edges whose length is counted, and those of
                            \* them that are written to the shapefile

tarjan == <<next_node, recursion_stack, tarjan_stack, tarjan_node_list, components_index,
            component_size_vector>>

\* The directed edges of an import edge.
TarjanEdges(e) ==
    LET edge(s, t) == [source |-> s, target |-> t,
                       data |-> [distance |-> IF e.weight > 1 THEN e.weight ELSE 1, name_id |-> e.name_id]]
    IN IF e.source = e.target THEN <<>>
       ELSE (IF e.forward THEN <<edge(e.source, e.target)>> ELSE <<>>)
            \o (IF e.backward THEN <<edge(e.target, e.source)>> ELSE <<>>)

TarjanGraph(nodes, edge_list) ==
    LET less(a, b) == a.source < b.source \/ (a.source = b.source /\ a.target < b.target)
    IN Construct(nodes, SortSeq(FlattenSeq([i \in DOMAIN edge_list |-> TarjanEdges(edge_list[i])]), less))

NoComponents ==
    /\ tool = "idle"
    /\ tarjan_graph = Construct(0, <<>>)
    /\ next_node = 0 /\ recursion_stack = <<>> /\ tarjan_stack = <<>> /\ tarjan_node_list = <<>>
    /\ components_index = <<>> /\ component_size_vector = <<>>
    /\ network = [measured |-> <<>>, drawn |-> <<>>]

\* main() reads the file, if it can be opened.
LoadTarjanGraph(exists, file) ==
    /\ tool = "idle"
    /\ IF exists
       THEN tool' = "setup" /\ tarjan_graph' = TarjanGraph(Len(file.nodes), EdgeList(file))
       ELSE tool' = "failed" /\ UNCHANGED tarjan_graph
    /\ UNCHANGED <<tarjan, network>>

\* Run creates the output file, which may fail.
SetupOutput ==
    /\ tool = "setup"
    /\ \/ tool' = "failed" /\ UNCHANGED tarjan
       \/ /\ tool' = "search"
          /\ tarjan_node_list' = [n \in Nodes(tarjan_graph) |->
               [index |-> Unmapped, low_link |-> Unmapped, on_stack |-> FALSE, before |-> TRUE]]
          /\ components_index' = [n \in Nodes(tarjan_graph) |-> Unmapped]
          /\ UNCHANGED <<next_node, recursion_stack, tarjan_stack, component_size_vector>>
    /\ UNCHANGED <<tarjan_graph, network>>

-----------------------------------------------------------------------------
(* The search *)

Frame(v, parent) == [v |-> v, parent |-> parent]
Index(n) == tarjan_node_list[n].index

\* The next node of the loop that is in no component starts a search.
StartAtNode ==
    /\ tool = "search" /\ recursion_stack = <<>> /\ next_node \in Nodes(tarjan_graph)
    /\ recursion_stack' = IF components_index[next_node] = Unmapped THEN <<Frame(next_node, next_node)>> ELSE <<>>
    /\ next_node' = next_node + 1
    /\ UNCHANGED <<tool, tarjan_graph, tarjan_stack, tarjan_node_list, components_index,
                   component_size_vector, network>>

\* A node that was reached through another edge in the meantime.
SkipVisited ==
    /\ tool = "search" /\ recursion_stack # <<>>
    /\ LET v == Last(recursion_stack).v
       IN tarjan_node_list[v].before /\ Index(v) # Unmapped
    /\ recursion_stack' = Front(recursion_stack)
    /\ UNCHANGED <<tool, tarjan_graph, next_node, tarjan_stack, tarjan_node_list, components_index,
                   component_size_vector, network>>

\* What happens before the recursion: the frame stays for the time after it, and one is
\* added for every neighbour that was not seen.
VisitNode ==
    /\ tool = "search" /\ recursion_stack # <<>>
    /\ LET frame == Last(recursion_stack)
           v == frame.v
           index == Cardinality({n \in DOMAIN tarjan_node_list : Index(n) # Unmapped})
           edges == AdjacentEdges(tarjan_graph, v)
           targets == [i \in DOMAIN edges |-> GetTarget(tarjan_graph, edges[i])]
           unseen == SelectSeq(targets, LAMBDA w : Index(w) = Unmapped)
           open == {w \in Range(targets) : Index(w) # Unmapped /\ tarjan_node_list[w].on_stack}
       IN /\ tarjan_node_list[v].before /\ Index(v) = Unmapped
          /\ tarjan_node_list' = [tarjan_node_list EXCEPT
               ![v] = [index |-> index, low_link |-> Min({index} \cup {Index(w) : w \in open}),
                       on_stack |-> TRUE, before |-> FALSE]]
          /\ tarjan_stack' = Append(tarjan_stack, v)
          /\ recursion_stack' = recursion_stack \o [i \in DOMAIN unseen |-> Frame(unseen[i], v)]
    /\ UNCHANGED <<tool, tarjan_graph, next_node, components_index, component_size_vector, network>>

\* Mutant: what a node learned is not handed to its parent.
LowLinksKept(frame) == [tarjan_node_list EXCEPT ![frame.v].before = TRUE]

\* After the recursion the parent gets the low link of the node.
LowLinksAfter(frame) ==
    [tarjan_node_list EXCEPT
       ![frame.v].before = TRUE,
       ![frame.parent].low_link = Min({@, tarjan_node_list[frame.v].low_link})]

\* A node with its own index as low link is the first one of a component, which is on the
\* stack above it.
LeaveNode ==
    /\ tool = "search" /\ recursion_stack # <<>>
    /\ LET frame == Last(recursion_stack)
           v == frame.v
           list == LowLinksAfter(frame)
           bottom == CHOOSE i \in DOMAIN tarjan_stack : tarjan_stack[i] = v
           members == {tarjan_stack[i] : i \in bottom .. Len(tarjan_stack)}
       IN /\ ~tarjan_node_list[v].before
          /\ recursion_stack' = Front(recursion_stack)
          /\ IF list[v].low_link = list[v].index
             THEN /\ tarjan_stack' = SubSeq(tarjan_stack, 1, bottom - 1)
                  /\ tarjan_node_list' = [n \in DOMAIN list |->
                       [list[n] EXCEPT !.on_stack = @ /\ n \notin members]]
                  /\ components_index' = [n \in DOMAIN components_index |->
                       IF n \in members THEN Len(component_size_vector) ELSE components_index[n]]
                  /\ component_size_vector' = Append(component_size_vector, Cardinality(members))
             ELSE /\ tarjan_node_list' = list
                  /\ UNCHANGED <<tarjan_stack, components_index, component_size_vector>>
    /\ UNCHANGED <<tool, tarjan_graph, next_node, network>>

-----------------------------------------------------------------------------
(* The output *)

ComponentSize(n) == component_size_vector[components_index[n] + 1]

\* A street that is open both ways is taken once, from its smaller end.
Taken(source, target) == source < target \/ ~HasEdge(tarjan_graph, target, source)

WriteNetwork ==
    /\ tool = "search" /\ recursion_stack = <<>> /\ next_node \notin Nodes(tarjan_graph)
    /\ LET out(n) == LET edges == AdjacentEdges(tarjan_graph, n)
                     IN [i \in DOMAIN edges |-> <<n, GetTarget(tarjan_graph, edges[i])>>]
           all == FlattenSeq([i \in 1 .. GetNumberOfNodes(tarjan_graph) |-> out(i - 1)])
           measured == SelectSeq(all, LAMBDA e : Taken(e[1], e[2]))
           drawn == SelectSeq(measured, LAMBDA e :
                      Min({ComponentSize(e[1]), ComponentSize(e[2])}) < SmallComponent)
       IN \/ network' = [measured |-> measured, drawn |-> drawn] /\ tool' = "done"
          \/ drawn # <<>> /\ tool' = "failed" /\ UNCHANGED network      \* a feature cannot be created
    /\ UNCHANGED <<tarjan_graph, tarjan>>

ComponentsNext == SetupOutput \/ StartAtNode \/ SkipVisited \/ VisitNode \/ LeaveNode \/ WriteNetwork
=============================================================================
