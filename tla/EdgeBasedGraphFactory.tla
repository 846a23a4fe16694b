------------------------ MODULE EdgeBasedGraphFactory -----------------------
(***************************************************************************)
(* osrm-prepare up to the edge-expanded graph (Contractor/Prepare.cpp and  *)
(* Contractor/EdgeBasedGraphFactory.cpp): the file is loaded, chains of    *)
(* nodes without a choice become one edge, edges get numbers and become    *)
(* nodes, permitted turns become edges.                                    *)
(***************************************************************************)
EXTENDS NodeBasedGraph, RestrictionMap, GeometryCompressor, FiniteSetsExt

CONSTANTS
    Requests,               \* command lines: [inputExists, profileExists, threads, profileRuns, file]
    traffic_signal_penalty,
    u_turn_penalty,
    TinyComponent,          \* components below this size are tiny (1000)
    turn_function(_, _, _)  \* penalty of the profile for the angle between three coordinates

VARIABLES
    request,
    stage,                          \* progress of Process
    node_v,                         \* next node of CompressGeometry
    m_node_based_graph,
    m_restriction_map,
    m_geometry_compressor,
    m_edge_based_node_list,
    m_edge_based_edge_list,
    m_number_of_edge_based_nodes,
    geometry_file,                  \* what SerializeInternalVector wrote
    original                        \* history: the graph before CompressGeometry

factory == <<m_node_based_graph, m_restriction_map, m_geometry_compressor,
             m_edge_based_node_list, m_edge_based_edge_list, m_number_of_edge_based_nodes,
             geometry_file>>
vars == <<request, stage, node_v, factory, original>>

file == request.file
m_barrier_nodes == BarrierNodes(file)
m_traffic_lights == TrafficLights(file)
SPECIAL_EDGEID == -1

Penalty(v) == IF v \in m_traffic_lights THEN traffic_signal_penalty ELSE 0

-----------------------------------------------------------------------------
(* Prepare::Process before the factory runs *)

CheckArguments ==
    /\ stage = "start"
    /\ stage' = IF request.inputExists /\ request.profileExists /\ request.threads >= 1
                THEN "load" ELSE "failed"
    /\ UNCHANGED <<request, node_v, factory, original>>

\* The profile and the expressions for its penalties run without an error.
SetupScriptingEnvironment == request.profileRuns

\* The graph and the restrictions are handed to the factory.
BuildEdgeExpandedGraph ==
    /\ m_node_based_graph' = NodeBasedDynamicGraphFromImportEdges(Len(file.nodes), EdgeList(file))
    /\ original' = m_node_based_graph'
    /\ m_restriction_map' = MapOf(RestrictionList(file))
    /\ UNCHANGED <<m_geometry_compressor, m_edge_based_node_list, m_edge_based_edge_list,
                   m_number_of_edge_based_nodes, geometry_file>>

\* The profile is run, the file and the restrictions are read, the graph is built.
LoadGraph ==
    /\ stage = "load"
    /\ IF SetupScriptingEnvironment /\ EdgeList(file) # <<>>
       THEN stage' = "compress" /\ BuildEdgeExpandedGraph
       ELSE stage' = "failed" /\ UNCHANGED <<factory, original>>
    /\ UNCHANGED <<request, node_v>>

-----------------------------------------------------------------------------
(* CompressGeometry *)

IsEqualTo(a, b) ==
    /\ a.forward = b.forward /\ a.backward = b.backward
    /\ a.nameID = b.nameID /\ a.ignore_in_grid = b.ignore_in_grid
    /\ a.travel_mode = b.travel_mode

\* The four edges at a node v of degree two: e2 leave v, e1 lead from the neighbours to v;
\* forward_e2 is an open edge if the first one or the second one is.
EdgesAt(g, v) ==
    LET first == BeginEdges(g, v)
        reverse_edge_order == IF GetEdgeData(g, first).forward THEN 0 ELSE 1
        forward_e2 == first + reverse_edge_order
        reverse_e2 == first + 1 - reverse_edge_order
        w == GetTarget(g, forward_e2)
        u == GetTarget(g, reverse_e2)
    IN [forward_e2 |-> forward_e2, reverse_e2 |-> reverse_e2, w |-> w, u |-> u,
        forward_e1 |-> FindEdge(g, u, v), reverse_e1 |-> FindEdge(g, w, v)]

\* Only nodes of degree two without a barrier or restriction, whose edges go on alike.
Removable(g, v) ==
    /\ GetOutDegree(g, v) = 2
    /\ v \notin m_barrier_nodes
    /\ ~IsViaNode(m_restriction_map, v)
    /\ LET e == EdgesAt(g, v)
       IN /\ ~HasEdge(g, e.u, e.w) /\ ~HasEdge(g, e.w, e.u)
          /\ IsEqualTo(GetEdgeData(g, e.forward_e1), GetEdgeData(g, e.forward_e2))
          /\ IsEqualTo(GetEdgeData(g, e.reverse_e1), GetEdgeData(g, e.reverse_e2))

\* e1 take over weight and target of e2, which are deleted.
WithoutNode(g, v) ==
    LET e == EdgesAt(g, v)
        extended(e1, e2, target, h) ==
          SetTarget([h EXCEPT !.edge_list[e1].data.distance =
                                @ + GetEdgeData(g, e2).distance + Penalty(v)], e1, target)
    IN DeleteEdge(DeleteEdge(extended(e.reverse_e1, e.reverse_e2, e.u,
                               extended(e.forward_e1, e.forward_e2, e.w, g)),
                             v, e.forward_e2),
                  v, e.reverse_e2)

FixupRestrictions(m, g, u, v, w) ==
    LET toW == FixupArrivingTurnRestriction(FixupStartingTurnRestriction(m, u, v, w), g, u, v, w)
    IN FixupArrivingTurnRestriction(FixupStartingTurnRestriction(toW, w, v, u), g, w, v, u)

RemoveNode(v) ==
    LET g == m_node_based_graph
        e == EdgesAt(g, v)
        weight(id) == GetEdgeData(g, id).distance
    IN /\ m_node_based_graph' = WithoutNode(g, v)
       /\ m_restriction_map' = FixupRestrictions(m_restriction_map, m_node_based_graph', e.u, v, e.w)
       /\ m_geometry_compressor' =
            CompressEdge(CompressEdge(m_geometry_compressor, e.forward_e1, e.forward_e2, v, e.w,
                                      weight(e.forward_e1) + Penalty(v), weight(e.forward_e2)),
                         e.reverse_e1, e.reverse_e2, v, e.u,
                         weight(e.reverse_e1), weight(e.reverse_e2) + Penalty(v))

CompressGeometry ==
    /\ stage = "compress"
    /\ node_v < GetNumberOfNodes(m_node_based_graph)
    /\ IF Removable(m_node_based_graph, node_v)
       THEN RemoveNode(node_v)
       ELSE UNCHANGED <<m_node_based_graph, m_restriction_map, m_geometry_compressor>>
    /\ node_v' = node_v + 1
    /\ UNCHANGED <<request, stage, m_edge_based_node_list, m_edge_based_edge_list,
                   m_number_of_edge_based_nodes, geometry_file, original>>

-----------------------------------------------------------------------------
(* RenumberEdges *)

\* Edges in the order of the loops over nodes and their adjacency.
EdgesInOrder(g) ==
    FlattenSeq([n \in 1 .. GetNumberOfNodes(g) |-> AdjacentEdges(g, n - 1)])

RenumberEdges ==
    LET g == m_node_based_graph
        open == SelectSeq(EdgesInOrder(g), LAMBDA e : GetEdgeData(g, e).forward)
        number(h, i) == [h EXCEPT !.edge_list[open[i]].data.edgeBasedNodeID = i - 1]
    IN /\ stage = "compress"
       /\ node_v = GetNumberOfNodes(g)
       /\ m_node_based_graph' = FoldLeft(number, g, [i \in 1 .. Len(open) |-> i])
       /\ m_number_of_edge_based_nodes' = Len(open)
       /\ stage' = "nodes"
       /\ UNCHANGED <<request, node_v, m_restriction_map, m_geometry_compressor,
                      m_edge_based_node_list, m_edge_based_edge_list, geometry_file, original>>

-----------------------------------------------------------------------------
(* BFSComponentExplorer *)

\* Nodes entered from v, reached from u, in the order of the adjacency.
Successors(g, m, v, u, seen) ==
    LET only == CheckForEmanatingIsOnlyTurn(m, u, v)
        target(e) == GetTarget(g, e)
    IN IF v \in m_barrier_nodes THEN <<>>
       ELSE SelectSeq(AdjacentEdges(g, v),
                      LAMBDA e : /\ only = SPECIAL_NODEID \/ target(e) = only
                                 /\ u # target(e)
                                 /\ ~CheckIfTurnIsRestricted(m, u, v, target(e))
                                 /\ target(e) \notin seen
                                 /\ e = FindEdge(g, v, target(e)))

\* ExploreComponent: breadth first from the queue of <<node, parent>>.
RECURSIVE ExploreComponent(_, _, _, _)
ExploreComponent(g, m, queue, seen) ==
    IF queue = <<>> THEN seen
    ELSE LET v == Head(queue)[1]
             edges == Successors(g, m, v, Head(queue)[2], seen)
             new == [i \in DOMAIN edges |-> <<GetTarget(g, edges[i]), v>>]
         IN ExploreComponent(g, m, Tail(queue) \o new, seen \cup {new[i][1] : i \in DOMAIN new})

\* run: the components in the order of their first nodes; later ones do not see the
\* nodes of earlier ones.
Components(g, m) ==
    LET explore(found, node) ==
          LET before == UNION Range(found)
          IN IF node \in before THEN found
             ELSE Append(found, ExploreComponent(g, m, <<<<node, node>>>>, before \cup {node}) \ before)
    IN FoldLeft(explore, <<>>, [i \in 1 .. GetNumberOfNodes(g) |-> i - 1])

\* The count starts at one and then counts the first node again.
GetComponentSize(components, node) ==
    Cardinality(CHOOSE c \in Range(components) : node \in c) + 1

-----------------------------------------------------------------------------
(* GenerateEdgeExpandedNodes *)

\* Sum of the weights of the first i segments of a bucket.
Prefix(bucket, i) == FoldLeft(LAMBDA sum, node : sum + node.weight, 0, SubSeq(bucket, 1, i))

\* InsertEdgeBasedNode: the segments between u and v for the nearest neighbour index.
SegmentsOf(g, c, u, v, tiny) ==
    LET e1 == FindEdge(g, u, v)
        e2 == FindEdge(g, v, u)
        forward == GetEdgeData(g, e1)
        reverse == GetEdgeData(g, e2)
        segment(from, to, fw, rw, fo, ro, id, i) ==
          [forward_id |-> forward.edgeBasedNodeID, reverse_id |-> reverse.edgeBasedNodeID,
           u |-> from, v |-> to, forward_weight |-> fw, reverse_weight |-> rw,
           forward_offset |-> fo, reverse_offset |-> ro, packed_geometry_id |-> id,
           fwd_segment_position |-> i, is_in_tiny_cc |-> tiny]
        fg == GetBucketReference(c, e1)
        rg == GetBucketReference(c, e2)
        size == Len(fg)
    IN IF forward.edgeBasedNodeID = SPECIAL_NODEID /\ reverse.edgeBasedNodeID = SPECIAL_NODEID
       THEN <<>>
       ELSE IF HasEntryForID(c, e1)
       THEN [i \in 1 .. size |->
               segment(IF i = 1 THEN u ELSE fg[i - 1].node, fg[i].node,
                       fg[i].weight, rg[size + 1 - i].weight, Prefix(fg, i - 1),
                       reverse.distance - (Prefix(rg, size) - Prefix(rg, size - i)),
                       GetPositionForID(c, e1), i - 1)]
       ELSE <<segment(u, v, forward.distance, reverse.distance, 0, 0, SPECIAL_EDGEID, 0)>>

\* Source of an edge that is in use.
SourceOf(g, e) == CHOOSE n \in Nodes(g) : e \in GetAdjacentEdgeRange(g, n)

GenerateEdgeExpandedNodes ==
    LET g == m_node_based_graph
        components == Components(g, m_restriction_map)
        segments(e) ==
          LET u == SourceOf(g, e)
              v == GetTarget(g, e)
              tiny == GetComponentSize(components, u) < TinyComponent
                      \/ GetComponentSize(components, v) < TinyComponent
          IN IF u > v THEN <<>>
             ELSE IF GetEdgeData(g, e).edgeBasedNodeID = SPECIAL_NODEID
             THEN SegmentsOf(g, m_geometry_compressor, v, u, tiny)
             ELSE SegmentsOf(g, m_geometry_compressor, u, v, tiny)
        order == EdgesInOrder(g)
    IN /\ stage = "nodes"
       /\ m_edge_based_node_list' = FlattenSeq([i \in DOMAIN order |-> segments(order[i])])
       /\ stage' = "edges"
       /\ UNCHANGED <<request, node_v, m_node_based_graph, m_restriction_map, m_geometry_compressor,
                      m_edge_based_edge_list, m_number_of_edge_based_nodes, geometry_file, original>>

-----------------------------------------------------------------------------
(* GenerateEdgeExpandedEdges *)

AnalyzeTurn(g, u, v, w) ==
    LET data1 == GetEdgeData(g, FindEdge(g, u, v))
        data2 == GetEdgeData(g, FindEdge(g, v, w))
    IN IF u = w THEN "UTurn"
       ELSE IF data1.roundabout /\ data2.roundabout
       THEN IF GetDirectedOutDegree(g, v) = 1 THEN "NoTurn" ELSE "StayOnRoundAbout"
       ELSE IF data2.roundabout THEN "EnterRoundAbout"
       ELSE IF data1.roundabout THEN "LeaveRoundAbout"
       ELSE IF data1.nameID = data2.nameID /\ (data1.nameID # 0 \/ GetOutDegree(g, v) <= 2)
       THEN "NoTurn"
       ELSE "ByAngle"

\* The conditions under which the loop skips a turn.
IsTurnAllowed(g, m, u, v, w) ==
    LET only == CheckForEmanatingIsOnlyTurn(m, u, v)
    IN /\ only = SPECIAL_NODEID \/ w = only
       /\ IF v \in m_barrier_nodes THEN u = w ELSE u # w \/ GetOutDegree(g, v) <= 1
       /\ ~(CheckIfTurnIsRestricted(m, u, v, w) /\ only = SPECIAL_NODEID)

\* The edge and its OriginalEdgeData for the turn from e1 into e2; coordinates is what
\* the angle is taken of.
TurnOf(g, c, u, e1, e2) ==
    LET v == GetTarget(g, e1)
        w == GetTarget(g, e2)
        data == GetEdgeData(g, e1)
        first == IF HasEntryForID(c, e1) THEN GetLastNodeIDOfBucket(c, e1) ELSE u
        third == IF HasEntryForID(c, e2) THEN GetFirstNodeIDOfBucket(c, e2) ELSE w
        instruction == AnalyzeTurn(g, u, v, w)
    IN [source |-> data.edgeBasedNodeID, target |-> GetEdgeData(g, e2).edgeBasedNodeID,
        distance |-> data.distance + Penalty(v)
                     + (IF instruction = "UTurn" THEN u_turn_penalty ELSE 0)
                     + turn_function(first, v, third),
        coordinates |-> <<first, v, third>>,
        turn_instruction |-> instruction,
        compressed_geometry |-> HasEntryForID(c, e1),
        via_node |-> IF HasEntryForID(c, e1) THEN GetPositionForID(c, e1) ELSE v]

GenerateEdgeExpandedEdges ==
    LET g == m_node_based_graph
        turns(e1) ==
          LET u == SourceOf(g, e1)
              v == GetTarget(g, e1)
              e2s == SelectSeq(AdjacentEdges(g, v),
                               LAMBDA e2 : /\ GetEdgeData(g, e2).forward
                                           /\ IsTurnAllowed(g, m_restriction_map, u, v, GetTarget(g, e2)))
          IN [i \in DOMAIN e2s |-> TurnOf(g, m_geometry_compressor, u, e1, e2s[i])]
        open == SelectSeq(EdgesInOrder(g), LAMBDA e : GetEdgeData(g, e).forward)
    IN /\ stage = "edges"
       /\ m_edge_based_edge_list' = FlattenSeq([i \in DOMAIN open |-> turns(open[i])])
       /\ stage' = "expanded"
       /\ UNCHANGED <<request, node_v, m_node_based_graph, m_restriction_map, m_geometry_compressor,
                      m_edge_based_node_list, m_number_of_edge_based_nodes, geometry_file, original>>

\* The last step of Run.
SerializeGeometry ==
    /\ stage = "expanded"
    /\ geometry_file' = SerializeInternalVector(m_geometry_compressor)
    /\ stage' = "written"
    /\ UNCHANGED <<request, node_v, m_node_based_graph, m_restriction_map, m_geometry_compressor,
                   m_edge_based_node_list, m_edge_based_edge_list, m_number_of_edge_based_nodes,
                   original>>

-----------------------------------------------------------------------------
FactoryInit ==
    /\ node_v = 0
    /\ m_node_based_graph = Construct(0, <<>>)
    /\ m_restriction_map = EmptyMap
    /\ m_geometry_compressor = EmptyCompressor
    /\ m_edge_based_node_list = <<>>
    /\ m_edge_based_edge_list = <<>>
    /\ m_number_of_edge_based_nodes = 0
    /\ geometry_file = SerializeInternalVector(EmptyCompressor)
    /\ original = Construct(0, <<>>)

Init == request \in Requests /\ stage = "start" /\ FactoryInit

Finished == stage \in {"failed", "written"} /\ UNCHANGED vars

Next ==
    \/ CheckArguments \/ LoadGraph \/ CompressGeometry \/ RenumberEdges
    \/ GenerateEdgeExpandedNodes \/ GenerateEdgeExpandedEdges \/ SerializeGeometry
    \/ Finished

Spec == Init /\ [][Next]_vars

-----------------------------------------------------------------------------
(* What the file says *)

\* Cheapest edge of the file that is open from one node to the other.
FileWeight(s, t) ==
    LET open == {i \in DOMAIN file.edges :
                   LET e == file.edges[i]
                       from == Internal(file, e.source)
                       to == Internal(file, e.target)
                   IN \/ <<from, to>> = <<s, t>> /\ e.dir # 2
                      \/ <<from, to>> = <<t, s>> /\ e.dir # 1}
    IN IF open = {} THEN NoWeight
       ELSE Min({IF file.edges[i].weight > 1 THEN file.edges[i].weight ELSE 1 : i \in open})

Loaded == stage \notin {"waiting", "start", "load", "failed"}

\* Between two nodes the graph offers exactly the cheapest open edge of the file in each
\* direction, however parallel, split and closed edges were merged, and it is the one
\* FindEdge returns.
CheapestEdgeFound ==
    Loaded =>
      \A s, t \in Nodes(original) : s # t =>
        LET e == FindEdge(original, s, t)
            offered == HasEdge(original, s, t) /\ GetEdgeData(original, e).forward
        IN IF FileWeight(s, t) = NoWeight
           THEN \A i \in GetAdjacentEdgeRange(original, s) :
                  GetTarget(original, i) = t => ~GetEdgeData(original, i).forward
           ELSE offered /\ GetEdgeData(original, e).distance = FileWeight(s, t)

\* Nodes an edge of the compressed graph runs through, from its source to its target.
PathOf(g, e) ==
    <<SourceOf(g, e)>> \o
    (IF HasEntryForID(m_geometry_compressor, e)
     THEN LET bucket == GetBucketReference(m_geometry_compressor, e)
          IN [i \in DOMAIN bucket |-> bucket[i].node]
     ELSE <<GetTarget(g, e)>>)

LiveEdges(g) == UNION {GetAdjacentEdgeRange(g, n) : n \in Nodes(g)}

\* Weight of a path: its edges before compression, and the traffic lights it passes.
PathWeight(path) ==
    FoldLeft(LAMBDA sum, i : sum + GetEdgeData(original, FindEdge(original, path[i], path[i + 1])).distance
                             + (IF i + 1 < Len(path) THEN Penalty(path[i + 1]) ELSE 0),
             0, [i \in 1 .. Len(path) - 1 |-> i])

\* Compression loses no geometry and no weight: every edge stands for a path of the
\* original graph that ends where the edge ends, through nodes that were removed and
\* belong to no other street, with the weight of that path; the recorded segments never
\* exceed it, and add up to it unless a traffic light was passed.
GeometryExact ==
    Loaded =>
      LET g == m_node_based_graph
      IN \A e \in LiveEdges(g) :
           LET path == PathOf(g, e)
               inner == {path[i] : i \in 2 .. Len(path) - 1}
               bucket == GetBucketReference(m_geometry_compressor, e)
           IN /\ path[Len(path)] = GetTarget(g, e)
              /\ path[1] # path[Len(path)] /\ IsInjective(path)
              /\ \A i \in 1 .. Len(path) - 1 : HasEdge(original, path[i], path[i + 1])
              /\ \A v \in inner : GetOutDegree(g, v) = 0
              /\ \A f \in LiveEdges(g) :
                   inner \cap Range(PathOf(g, f)) # {} => Range(PathOf(g, f)) = Range(path)
              /\ GetEdgeData(g, e).forward => GetEdgeData(g, e).distance = PathWeight(path)
              /\ HasEntryForID(m_geometry_compressor, e) /\ GetEdgeData(g, e).forward =>
                   /\ Prefix(bucket, Len(bucket)) <= GetEdgeData(g, e).distance
                   /\ inner \cap m_traffic_lights = {} =>
                        Prefix(bucket, Len(bucket)) = GetEdgeData(g, e).distance

\* Restrictions of the file that name three of its nodes.
MappedRestrictions ==
    SelectSeq(file.restrictions, LAMBDA r : {Internal(file, r.fromNode), Internal(file, r.viaNode),
                                             Internal(file, r.toNode)} \cap {Unmapped} = {})

\* Whether the file permits to go on from edge (u, v) to edge (v, w): the first
\* mandatory turn counts, else the forbidden ones; barriers permit only to turn back,
\* which is otherwise permitted only where the street ends.
Permitted(u, v, w) ==
    LET mine == SelectSeq(MappedRestrictions, LAMBDA r : Internal(file, r.fromNode) = u
                                                         /\ Internal(file, r.viaNode) = v)
        only == SelectSeq(mine, LAMBDA r : r.isOnly)
    IN /\ IF only # <<>> THEN Internal(file, only[1].toNode) = w
          ELSE \A i \in DOMAIN mine : Internal(file, mine[i].toNode) # w
       /\ IF v \in m_barrier_nodes THEN u = w ELSE u # w \/ GetOutDegree(original, v) <= 1

\* Restrictions against turning back are not carried over compression: their target is
\* looked up before their start has been renamed.
RestrictsTurningBack(u, v) ==
    \E i \in DOMAIN MappedRestrictions :
      LET r == MappedRestrictions[i]
      IN r.fromNode = r.toNode /\ Internal(file, r.fromNode) = u /\ Internal(file, r.viaNode) = v

\* A restriction that names nodes outside the file is left in the list with ids of
\* the file, which may be those of other nodes in the graph.
AllMapped == Len(MappedRestrictions) = Len(file.restrictions)

EdgeOf(id) ==
    CHOOSE e \in LiveEdges(m_node_based_graph) :
      GetEdgeData(m_node_based_graph, e).edgeBasedNodeID = id

\* The permitted turns of the file, and no others, are edges of the expanded graph, once
\* each, with the weight of the street before the turn and what the turn itself costs;
\* and at nodes that were removed there was nothing to choose.
TurnsExact ==
    stage = "expanded" /\ AllMapped =>
      LET g == m_node_based_graph
          path == [e \in LiveEdges(g) |-> PathOf(g, e)]
          turn(t) == LET p == path[EdgeOf(t.source)]
                     IN <<p[Len(p) - 1], p[Len(p)], path[EdgeOf(t.target)][2]>>
          list == m_edge_based_edge_list
          open(a, b) == FileWeight(a, b) # NoWeight
          Kept == {n \in Nodes(g) : GetOutDegree(g, n) > 0}
          Neighbours(v) == {n \in Nodes(g) : HasEdge(original, v, n)}
      IN /\ \A v \in Nodes(g) : \A u, w \in Neighbours(v) :
              open(u, v) /\ open(v, w) /\ ~(u = w /\ RestrictsTurningBack(u, v)) =>
                IF v \in Kept
                THEN Cardinality({i \in DOMAIN list : turn(list[i]) = <<u, v, w>>}) =
                     IF Permitted(u, v, w) THEN 1 ELSE 0
                ELSE Permitted(u, v, w) = (u # w)
         /\ \A i \in DOMAIN list :
              LET p == path[EdgeOf(list[i].source)]
                  t == turn(list[i])
              IN /\ open(t[1], t[2]) /\ open(t[2], t[3])
                 /\ list[i].distance - turn_function(list[i].coordinates[1], list[i].coordinates[2],
                                                     list[i].coordinates[3]) =
                    PathWeight(p) + Penalty(t[2]) + (IF t[1] = t[3] THEN u_turn_penalty ELSE 0)

\* Undirected reachability in the compressed graph.
RECURSIVE Reach(_, _)
Reach(g, from) ==
    LET next == from \cup {GetTarget(g, e) : e \in UNION {GetAdjacentEdgeRange(g, n) : n \in from}}
    IN IF next = from THEN from ELSE Reach(g, next)

\* A street is flagged exactly if its component has fewer than TinyComponent nodes.  Only
\* without barriers and restrictions are components those of the undirected graph.
FlagIsExact(s) ==
    m_barrier_nodes = {} /\ file.restrictions = <<>> =>
      \A n \in {s.u, s.v} : GetOutDegree(m_node_based_graph, n) > 0 =>
        s.is_in_tiny_cc = (Cardinality(Reach(m_node_based_graph, {n})) < TinyComponent)

\* BFSComponentExplorer::GetComponentSize "Returns the size of the component that the node
\* belongs to." (Algorithms/BFSComponentExplorer.h:24), so that the streets of components of
\* fewer than TinyComponent nodes, and no others, are flagged (GenerateEdgeExpandedNodes).
TinyComponentsFlagged ==
    stage = "written" => \A s \in Range(m_edge_based_node_list) : FlagIsExact(s)

\* ExploreComponent counts the first node twice, which matters for this size only.
MiscountMatters(s) ==
    \E n \in {s.u, s.v} : Cardinality(Reach(m_node_based_graph, {n})) = TinyComponent - 1

\* What the nearest-neighbour index gets: every segment of a street that is open in some
\* direction, with the streets that run over it each way, its place in the written
\* geometry and, away from traffic lights, the weight from the start of each street to
\* it.  Streets of small components are flagged exactly (FlagIsExact), unless one node is
\* missing to the limit (TinyComponentsFlagged).
SegmentsIndexed ==
    stage = "written" =>
      LET g == m_node_based_graph
          list == m_edge_based_node_list
          RunsOver(id, a, b) ==
            \E i \in 1 .. Len(PathOf(g, EdgeOf(id))) - 1 :
              /\ PathOf(g, EdgeOf(id))[i] = a /\ PathOf(g, EdgeOf(id))[i + 1] = b
          UpTo(id, a) == SelectInSeq(PathOf(g, EdgeOf(id)), LAMBDA n : n = a)
          Offset(id, a) == PathWeight(SubSeq(PathOf(g, EdgeOf(id)), 1, UpTo(id, a)))
      IN /\ \A a, b \in Nodes(g) : a # b /\ FileWeight(a, b) # NoWeight =>
              \E i \in DOMAIN list :
                \/ list[i].u = a /\ list[i].v = b /\ list[i].forward_id # SPECIAL_NODEID
                \/ list[i].u = b /\ list[i].v = a /\ list[i].reverse_id # SPECIAL_NODEID
         /\ \A i \in DOMAIN list :
              LET s == list[i]
                  lit == m_traffic_lights # {}
              IN /\ s.forward_id # SPECIAL_NODEID =>
                      RunsOver(s.forward_id, s.u, s.v) /\ (lit \/ s.forward_offset = Offset(s.forward_id, s.u))
                 /\ s.reverse_id # SPECIAL_NODEID =>
                      RunsOver(s.reverse_id, s.v, s.u) /\ (lit \/ s.reverse_offset = Offset(s.reverse_id, s.v))
                 /\ s.packed_geometry_id # SPECIAL_EDGEID =>
                      LET k == geometry_file.indices[s.packed_geometry_id] + s.fwd_segment_position + 1
                      IN k \in DOMAIN geometry_file.nodes /\ geometry_file.nodes[k] = s.v
                 /\ ~MiscountMatters(s) => FlagIsExact(s)
=============================================================================
