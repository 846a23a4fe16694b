--------------------------- MODULE NodeBasedGraph ---------------------------
(***************************************************************************)
(* From the .osrm file to the node-based graph: readBinaryOSRMGraphFrom-   *)
(* Stream of Util/GraphLoader.h and NodeBasedDynamicGraphFromImportEdges   *)
(* of DataStructures/NodeBasedGraph.h.                                     *)
(*                                                                         *)
(* A file has nodes [id, bollard, trafficLight], edges [source, target,    *)
(* dir, weight, name, mode, roundabout, ignore_in_grid, split] and         *)
(* restrictions [fromNode, viaNode, toNode, isOnly], all with the node ids *)
(* of OpenStreetMap.                                                       *)
(* Sorting is stable here; files that differ in the order of equal edges   *)
(* stand for the orders an unstable sort may leave them in.                *)
(***************************************************************************)
EXTENDS DynamicGraph, SequencesExt, TLC

Unmapped == -1
NoWeight == -1      \* numeric_limits<int>::max() as the weight of a missing direction

Cheaper(a, b) == IF a = NoWeight \/ (b # NoWeight /\ b < a) THEN b ELSE a

-----------------------------------------------------------------------------
(* GraphLoader.h *)

\* ext_to_int_id_map: position of the first node with that id.
Internal(file, id) ==
    LET positions == {i \in DOMAIN file.nodes : file.nodes[i].id = id}
    IN IF positions = {} THEN Unmapped ELSE (CHOOSE i \in positions : \A j \in positions : i <= j) - 1

BarrierNodes(file) == {i - 1 : i \in {j \in DOMAIN file.nodes : file.nodes[j].bollard}}
TrafficLights(file) == {i - 1 : i \in {j \in DOMAIN file.nodes : file.nodes[j].trafficLight}}

\* The nodes of a restriction are translated in turn up to the first one that is not
\* in the file; the restriction stays in the list with what was translated.
LoadedRestriction(file, r) ==
    LET from == Internal(file, r.fromNode)
        via == Internal(file, r.viaNode)
        to == Internal(file, r.toNode)
        fromKnown == from # Unmapped
        viaKnown == fromKnown /\ via # Unmapped
        toKnown == viaKnown /\ to # Unmapped
    IN [r EXCEPT !.fromNode = IF fromKnown THEN from ELSE @,
                 !.viaNode = IF viaKnown THEN via ELSE @,
                 !.toNode = IF toKnown THEN to ELSE @]

RestrictionList(file) == [i \in DOMAIN file.restrictions |-> LoadedRestriction(file, file.restrictions[i])]

\* dir 1 is open from source to target, 2 the other way, 0 both; the ends are ordered.
ImportEdge(file, e) ==
    LET s == Internal(file, e.source)
        t == Internal(file, e.target)
        forward == e.dir # 2
        backward == e.dir # 1
    IN [source |-> IF s > t THEN t ELSE s, target |-> IF s > t THEN s ELSE t,
        forward |-> IF s > t THEN backward ELSE forward,
        backward |-> IF s > t THEN forward ELSE backward,
        weight |-> e.weight, name_id |-> e.name, travel_mode |-> e.mode,
        roundabout |-> e.roundabout, in_tiny_cc |-> e.ignore_in_grid, is_split |-> e.split]

\* NodeBasedEdge::operator<
EdgeLess(a, b) ==
    \/ a.source < b.source
    \/ a.source = b.source /\ a.target < b.target
    \/ /\ a.source = b.source /\ a.target = b.target
       /\ \/ a.weight < b.weight
          \/ a.weight = b.weight /\ a.forward /\ a.backward /\ ~(b.forward /\ b.backward)

\* Mutant: the surviving edge keeps its own weight.
MergeKeepingWeight(list, e) ==
    IF list # <<>> /\ Last(list).source = e.source /\ Last(list).target = e.target
       /\ Last(list).forward = e.forward /\ Last(list).backward = e.backward
    THEN Append(Front(list), e)
    ELSE Append(list, e)

\* Of neighbours in the sorted list that join the same nodes in the same directions the
\* later one survives with the smaller weight.  (The two other cases of the code compare
\* edge_list[i].backward with itself and never apply.)
MergeParallel(list, e) ==
    IF list # <<>> /\ Last(list).source = e.source /\ Last(list).target = e.target
       /\ Last(list).forward = e.forward /\ Last(list).backward = e.backward
    THEN Append(Front(list), [e EXCEPT !.weight = Cheaper(Last(list).weight, e.weight)])
    ELSE Append(list, e)

\* readBinaryOSRMGraphFromStream: the list of import edges.
EdgeList(file) ==
    LET known == SelectSeq(file.edges, LAMBDA e : Internal(file, e.source) # Unmapped
                                                  /\ Internal(file, e.target) # Unmapped)
        import == [i \in DOMAIN known |-> ImportEdge(file, known[i])]
    IN FoldLeft(MergeParallel, <<>>, SortSeq(import, EdgeLess))

-----------------------------------------------------------------------------
(* NodeBasedGraph.h *)

\* The directed entries of an import edge: with its open direction first and, unless
\* it is half of a split edge, the entry of its target with the flags swapped.
InputEdges(e) ==
    LET source == IF e.forward THEN e.source ELSE e.target
        target == IF e.forward THEN e.target ELSE e.source
        data == [distance |-> IF e.weight > 1 THEN e.weight ELSE 1,
                 forward |-> IF e.forward THEN e.forward ELSE e.backward,
                 backward |-> IF e.forward THEN e.backward ELSE e.forward,
                 nameID |-> e.name_id, travel_mode |-> e.travel_mode,
                 roundabout |-> e.roundabout, ignore_in_grid |-> e.in_tiny_cc,
                 edgeBasedNodeID |-> -1]
        entry == [source |-> source, target |-> target, data |-> data]
        reverse == [source |-> target, target |-> source,
                    data |-> [data EXCEPT !.forward = data.backward, !.backward = data.forward]]
    IN IF source = target THEN <<>> ELSE IF e.is_split THEN <<entry>> ELSE <<entry, reverse>>

\* Parallel entries become one with the cheapest weight when it is the same in both
\* directions, else one for each open direction.
MergedEntries(group) ==
    LET cheapest(dist, d) == Cheaper(dist, d)
        forward == FoldLeft(cheapest, NoWeight, [i \in DOMAIN group |->
                     IF group[i].data.forward THEN group[i].data.distance ELSE NoWeight])
        reverse == FoldLeft(cheapest, NoWeight, [i \in DOMAIN group |->
                     IF group[i].data.backward THEN group[i].data.distance ELSE NoWeight])
        entry(f, b, dist) == [group[1] EXCEPT !.data.forward = f, !.data.backward = b,
                                              !.data.distance = dist]
    IN IF forward = reverse
       THEN IF forward # NoWeight THEN <<entry(TRUE, TRUE, forward)>> ELSE <<>>
       ELSE (IF forward # NoWeight THEN <<entry(TRUE, FALSE, forward)>> ELSE <<>>)
            \o (IF reverse # NoWeight THEN <<entry(FALSE, TRUE, reverse)>> ELSE <<>>)

\* Entries with the same ends follow each other in sorted order.
Grouped(groups, entry) ==
    IF groups # <<>> /\ Last(groups)[1].source = entry.source /\ Last(groups)[1].target = entry.target
    THEN Append(Front(groups), Append(Last(groups), entry))
    ELSE Append(groups, <<entry>>)

NodeBasedDynamicGraphFromImportEdges(nodes, edge_list) ==
    LET entries == FlattenSeq([i \in DOMAIN edge_list |-> InputEdges(edge_list[i])])
        less(a, b) == a.source < b.source \/ (a.source = b.source /\ a.target < b.target)
        groups == FoldLeft(Grouped, <<>>, SortSeq(entries, less))
    IN Construct(nodes, FlattenSeq([k \in DOMAIN groups |-> MergedEntries(groups[k])]))
=============================================================================
