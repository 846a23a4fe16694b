---------------------------- MODULE StaticRTree -----------------------------
(***************************************************************************)
(* DataStructures/StaticRTree.h: a packed R-tree over street segments and  *)
(* its nearest-neighbour queries, with the distances and projections of    *)
(* DataStructures/Coordinate.cpp in a plane.  Distances are squared, and   *)
(* segments are parallel to an axis, so that all values are integers; the  *)
(* equator has latitude 0 and the zero meridian longitude 0.               *)
(***************************************************************************)
EXTENDS HilbertCode

CONSTANTS
    BRANCHING_FACTOR,
    LEAF_NODE_SIZE,
    Inputs,         \* [coordinate_list, edges, files]
    QueriesOn(_),   \* queries on an input: [kind, location, zoom_level, results, max_checked]
    lat2y(_)        \* the projection of a latitude, which is monotonic

VARIABLES
    input,
    stage,
    leaf_node_file,         \* leaf nodes, as sequences of indices into edges
    tree_nodes_in_level,    \* nodes of the level that was packed last
    m_search_tree,          \* during construction and, after it, for queries
    query,
    traversal_queue,        \* candidates [min_dist, is, id]
    min_dist, min_max_dist, \* of the two queries that prune
    results,                \* phantom nodes, or the end point, found so far
    inspected_segments,
    reply                   \* of a plugin: [status, results]

construction == <<leaf_node_file, tree_nodes_in_level, m_search_tree>>
search == <<query, traversal_queue, min_dist, min_max_dist, results, inspected_segments, reply>>
vars == <<input, stage, construction, search>>

Infinity == 1000000     \* numeric_limits<float>::max()
NoQuery == [kind |-> "none"]
NoReply == [status |-> "none", results |-> <<>>]

coordinate(node) == input.coordinate_list[node]
Edges == DOMAIN input.edges

-----------------------------------------------------------------------------
(* Distances *)

Square(x) == x * x

ApproximateEuclideanDistance(a, b) == Square(a.lat - b.lat) + Square(a.lon - b.lon)

\* x, or the end of the interval that is nearest to it.
Clamp(x, low, high) == IF x < low THEN low ELSE IF x > high THEN high ELSE x

Source(e) == coordinate(input.edges[e].u)
Target(e) == coordinate(input.edges[e].v)

\* (p, q), the projection of at on the line joining u and v.
Projection(u, v, at) ==
    IF u.lat # v.lat THEN [lat |-> at.lat, lon |-> u.lon] ELSE [lat |-> v.lat, lon |-> at.lon]

\* The ratio at which w divides the segment, times the square of its length.
Ratio(u, v, w) == (w.lat - u.lat) * (v.lat - u.lat) + (w.lon - u.lon) * (v.lon - u.lon)

\* nY is 0 / 0 if the line joins points of the zero meridian.  (On the equator it is not:
\* lat2y(0) is a tiny number in floating point.)
IsNaN(u, v) == u.lon = 0 /\ v.lon = 0

\* The nearest location that the ratio leads to; the ratio that replaces NaN is subtracted
\* from 1 if start and end were swapped.
NearestPoint(u, v, at, inverse_ratio) ==
    LET foot == Projection(u, v, at)
        right == IF IsNaN(u, v) THEN (at = v) # inverse_ratio ELSE Ratio(u, v, foot) >= Ratio(u, v, v)
        left == IF IsNaN(u, v) THEN ~right ELSE Ratio(u, v, foot) <= 0
    IN IF left THEN u ELSE IF right THEN v ELSE foot

\* The overload that returns the nearest location, too.
NearestLocation(e, at) == NearestPoint(Source(e), Target(e), at, FALSE)
ComputePerpendicularDistance(e, at) == ApproximateEuclideanDistance(at, NearestLocation(e, at))

\* The overload without it swaps start and end if only the end is on the equator.
CandidateDistance(e, at) ==
    ApproximateEuclideanDistance(at,
        NearestPoint(Source(e), Target(e), at, Target(e).lat = 0 /\ Source(e).lat # 0))

-----------------------------------------------------------------------------
(* RectangleInt2D *)

\* Smallest rectangle around a set of coordinates.
MBRectangle(points) ==
    [min_lat |-> Min({p.lat : p \in points}), max_lat |-> Max({p.lat : p \in points}),
     min_lon |-> Min({p.lon : p \in points}), max_lon |-> Max({p.lon : p \in points})]

Corners(r) == {[lat |-> y, lon |-> x] : y \in {r.min_lat, r.max_lat}, x \in {r.min_lon, r.max_lon}}

InitializeMBRectangle(objects) ==
    MBRectangle(UNION {{Source(e), Target(e)} : e \in Range(objects)})

\* Mutant of MergeBoundingBoxes: the parent's rectangle starts at the origin.
MergeWithOrigin(rectangles) ==
    MBRectangle({[lat |-> 0, lon |-> 0]} \cup UNION {Corners(r) : r \in rectangles})

MergeBoundingBoxes(rectangles) == MBRectangle(UNION {Corners(r) : r \in rectangles})

\* The eight directions in which the location may lie, and the rectangle itself.
GetMinDist(r, at) ==
    ApproximateEuclideanDistance(at, [lat |-> Clamp(at.lat, r.min_lat, r.max_lat),
                                      lon |-> Clamp(at.lon, r.min_lon, r.max_lon)])

\* Mutant of GetMinMaxDist: the distance to the nearest corner.
NearestCorner(r, at) == Min({ApproximateEuclideanDistance(at, c) : c \in Corners(r)})

\* Least over the four sides of the distance to their farther end.
GetMinMaxDist(r, at) ==
    LET sides == {{c \in Corners(r) : c.lat = y} : y \in {r.min_lat, r.max_lat}}
                 \cup {{c \in Corners(r) : c.lon = x} : x \in {r.min_lon, r.max_lon}}
    IN Min({Max({ApproximateEuclideanDistance(at, c) : c \in side}) : side \in sides})

-----------------------------------------------------------------------------
(* Construction *)

\* Hilbert value of the projected centroid.
HilbertValue(e) ==
    get_hilbert_number([lat |-> lat2y((Source(e).lat + Target(e).lat) \div 2),
                        lon |-> (Source(e).lon + Target(e).lon) \div 2])

\* Results of the parallel sort, which is not stable.
SortedWrappers ==
    LET value == [e \in Edges |-> HilbertValue(e)]
    IN {order \in Permutations(Edges) :
          \A i \in 1 .. Len(order) - 1 : value[order[i]] <= value[order[i + 1]]}

\* The consecutive parts of s of n elements, the last one maybe shorter.
Chunks(s, n) ==
    [i \in 1 .. (Len(s) + n - 1) \div n |-> SubSeq(s, (i - 1) * n + 1, Min({i * n, Len(s)}))]

\* Leaves are written to the leaf file, each with a tree node that names its position.
PackLeaves ==
    /\ stage = "pack"
    /\ \E order \in SortedWrappers :
         LET leaves == Chunks(order, LEAF_NODE_SIZE)
         IN /\ leaf_node_file' = leaves
            /\ tree_nodes_in_level' =
                 [i \in DOMAIN leaves |->
                    [minimum_bounding_rectangle |-> InitializeMBRectangle(leaves[i]),
                     child_is_on_disk |-> TRUE, child_count |-> 0, children |-> <<i - 1>>]]
    /\ stage' = "level"
    /\ UNCHANGED <<input, m_search_tree, search>>

\* One level of parents; their children move to the tree and are named by their index.
PackLevel ==
    LET chunks == Chunks([i \in DOMAIN tree_nodes_in_level |-> i], BRANCHING_FACTOR)
        box(i) == tree_nodes_in_level[i].minimum_bounding_rectangle
    IN /\ stage = "level"
       /\ Len(tree_nodes_in_level) > 1
       /\ m_search_tree' = m_search_tree \o tree_nodes_in_level
       /\ tree_nodes_in_level' =
            [p \in DOMAIN chunks |->
               [minimum_bounding_rectangle |-> MergeBoundingBoxes({box(i) : i \in Range(chunks[p])}),
                child_is_on_disk |-> FALSE, child_count |-> Len(chunks[p]),
                children |-> [j \in DOMAIN chunks[p] |-> Len(m_search_tree) + chunks[p][j] - 1]]]
       /\ UNCHANGED <<input, stage, leaf_node_file, search>>

\* Only the first child_count children, which is 0 for leaf nodes.
Renumbered(node, size) ==
    [node EXCEPT !.children = [j \in DOMAIN @ |-> IF j <= node.child_count THEN size - @[j] - 1 ELSE @[j]]]

\* The root is appended and the tree reversed, so that it is node 0; then it is written.
FinishTree ==
    LET tree == Reverse(Append(m_search_tree, tree_nodes_in_level[1]))
    IN /\ stage = "level"
       /\ Len(tree_nodes_in_level) = 1
       /\ m_search_tree' = [i \in DOMAIN tree |-> Renumbered(tree[i], Len(tree))]
       /\ stage' = "built"
       /\ UNCHANGED <<input, leaf_node_file, tree_nodes_in_level, search>>

\* The constructors that read: both files must be there and not be empty.
OpenTree ==
    /\ stage = "built"
    /\ stage' = IF input.files = "intact" THEN "open" ELSE "failed"
    /\ UNCHANGED <<input, construction, search>>

-----------------------------------------------------------------------------
(* Queries *)

Node(id) == m_search_tree[id + 1]
LoadLeafFromDisk(leaf_id) == leaf_node_file[leaf_id + 1]

ignore_tiny_components == query.zoom_level <= 14
IsTiny(e) == input.edges[e].is_in_tiny_cc

Candidate(dist, is, id) == [min_dist |-> dist, is |-> is, id |-> id]

\* Any candidate with the least distance may be at the top.
Top == {c \in traversal_queue : \A d \in traversal_queue : c.min_dist <= d.min_dist}

\* In degrees; no coordinate at all is an invalid one here.
isValid(location) == location.lat \in -90 .. 90 /\ location.lon \in -180 .. 180

\* A plugin is asked, and asks the tree unless the coordinate is missing or invalid.
StartQuery ==
    /\ stage = "open"
    /\ query' \in {q \in QueriesOn(input) : isValid(q.location)}
    /\ traversal_queue' = {Candidate(0, "node", 0)}
    /\ min_dist' = Infinity /\ min_max_dist' = Infinity
    /\ results' = <<>> /\ inspected_segments' = 0
    /\ stage' = "query"
    /\ UNCHANGED <<input, construction, reply>>

RefuseQuery ==
    /\ stage = "open"
    /\ query' \in {q \in QueriesOn(input) : ~isValid(q.location)}
    /\ reply' = [NoReply EXCEPT !.status = "badRequest"]
    /\ stage' = "replied"
    /\ UNCHANGED <<input, construction, traversal_queue, min_dist, min_max_dist, results, inspected_segments>>

\* Mutant of ExploreTreeNode: a child is dropped already when it could be as near.
ExploreStrictly(parent, queue) ==
    LET explore(state, id) ==
          LET rectangle == Node(id).minimum_bounding_rectangle
              lower == GetMinDist(rectangle, query.location)
              bound == Min({state.bound, GetMinMaxDist(rectangle, query.location)})
          IN [bound |-> bound,
              queue |-> IF lower >= bound \/ lower >= min_dist THEN state.queue
                        ELSE state.queue \cup {Candidate(lower, "node", id)}]
    IN FoldLeft(explore, [bound |-> min_max_dist, queue |-> queue], parent.children)

\* The children that may hold something nearer than both bounds, the second of which is
\* updated from child to child.
ExploreTreeNode(parent, queue) ==
    LET explore(state, id) ==
          LET rectangle == Node(id).minimum_bounding_rectangle
              lower == GetMinDist(rectangle, query.location)
              bound == Min({state.bound, GetMinMaxDist(rectangle, query.location)})
          IN [bound |-> bound,
              queue |-> IF lower > bound \/ lower > min_dist THEN state.queue
                        ELSE state.queue \cup {Candidate(lower, "node", id)}]
    IN FoldLeft(explore, [bound |-> min_max_dist, queue |-> queue], parent.children)

\* The two pruning queries: a pruned candidate is dropped, a leaf gives the first best of
\* its offers (distance and result), an inner node gives its children.
PrunedSearch(pruned(_), offers(_)) ==
    \E c \in Top :
      LET node == Node(c.id)
          rest == traversal_queue \ {c}
          better(best, offer) == IF offer.dist < best.dist THEN offer ELSE best
          wanted == SelectSeq(LoadLeafFromDisk(node.children[1]), LAMBDA e : ~(ignore_tiny_components /\ IsTiny(e)))
          best == FoldLeft(better, [dist |-> min_dist, found |-> results],
                           FlattenSeq([i \in DOMAIN wanted |-> offers(wanted[i])]))
          explored == ExploreTreeNode(node, rest)
      IN IF pruned(c.min_dist)
         THEN traversal_queue' = rest /\ UNCHANGED <<min_dist, min_max_dist, results>>
         ELSE IF node.child_is_on_disk
         THEN /\ traversal_queue' = rest
              /\ min_dist' = best.dist /\ results' = best.found
              /\ UNCHANGED min_max_dist
         ELSE /\ traversal_queue' = explored.queue /\ min_max_dist' = explored.bound
              /\ UNCHANGED <<min_dist, results>>

\* A query that has not ended.
Searching(kind) == stage = "query" /\ query.kind = kind /\ traversal_queue # {}

LocateClosestEndPointForCoordinate ==
    LET offer(n) == [dist |-> ApproximateEuclideanDistance(query.location, coordinate(n)),
                     found |-> <<coordinate(n)>>]
    IN /\ Searching("locate")
       /\ PrunedSearch(LAMBDA d : d >= min_max_dist \/ d >= min_dist,
                       LAMBDA e : <<offer(input.edges[e].u), offer(input.edges[e].v)>>)
       /\ UNCHANGED <<input, stage, construction, query, inspected_segments, reply>>

\* The phantom node of a segment before it is fixed up.
PhantomNode(e) ==
    [edge |-> e, location |-> NearestLocation(e, query.location),
     forward_weight |-> input.edges[e].forward_weight,
     reverse_weight |-> input.edges[e].reverse_weight]

FindPhantomNodeForCoordinate ==
    /\ Searching("phantom")
    /\ PrunedSearch(LAMBDA d : d > min_max_dist \/ d > min_dist,
                    LAMBDA e : <<[dist |-> ComputePerpendicularDistance(e, query.location),
                                  found |-> <<PhantomNode(e)>>]>>)
    /\ UNCHANGED <<input, stage, construction, query, inspected_segments, reply>>

\* Locations next to the input are moved to it.
FixUpRoundingIssue(phantom) ==
    LET snap(x, to) == IF x - to \in {1, -1} THEN to ELSE x
    IN [phantom EXCEPT !.location = [lat |-> snap(@.lat, query.location.lat),
                                     lon |-> snap(@.lon, query.location.lon)]]

\* weight * Min(1, sqrt(d1 / d2)), rounded down, and the same of the rest; the ratio is 1
\* on a segment without length.
SetForwardAndReverseWeightsOnPhantomNode(phantom) ==
    LET e == input.edges[phantom.edge]
        d1 == ApproximateEuclideanDistance(Source(phantom.edge), phantom.location)
        d2 == ApproximateEuclideanDistance(Source(phantom.edge), Target(phantom.edge))
        floor(w) == Max({n \in 0 .. w : n * n * d2 <= w * w * d1})
        ceiling(w) == IF d1 >= d2 THEN w ELSE Min({n \in 0 .. w : n * n * d2 >= w * w * d1})
    IN [phantom EXCEPT !.forward_weight = IF e.forward THEN floor(@) ELSE @,
                       !.reverse_weight = IF e.reverse THEN @ - ceiling(@) ELSE @]

Finish(phantom) == SetForwardAndReverseWeightsOnPhantomNode(FixUpRoundingIssue(phantom))

-----------------------------------------------------------------------------
(* IncrementalFindPhantomNodeForCoordinate *)

InBig(phantoms) == SelectSeq(phantoms, LAMBDA p : ~IsTiny(p.edge))
InTiny(phantoms) == SelectSeq(phantoms, LAMBDA p : IsTiny(p.edge))

DistanceOf(phantom) == ComputePerpendicularDistance(phantom.edge, query.location)

\* min_found_distances[number_of_results - 1]
current_min_dist ==
    IF Len(InBig(results)) = query.results THEN DistanceOf(InBig(results)[query.results])
    ELSE Infinity

\* Candidates that a tree node gives; those at the current distance are ignored.
Expanded(node) ==
    LET found == IF node.child_is_on_disk
                 THEN {Candidate(CandidateDistance(e, query.location), "segment", e) :
                         e \in Range(LoadLeafFromDisk(node.children[1]))}
                 ELSE {Candidate(GetMinDist(Node(id).minimum_bounding_rectangle, query.location), "node", id) :
                         id \in Range(node.children)}
    IN {c \in found : c.min_dist < current_min_dist}

\* Whether enough results were found in the kind of component the segment is in.
Enough(e) ==
    Len(IF IsTiny(e) THEN InTiny(results) ELSE InBig(results)) = query.results

\* Mutant of Flushed: the end of the search counts results of both kinds.
FlushedByAll(found, inspected) == Len(found) >= query.results \/ inspected >= query.max_checked

\* The queue is emptied when enough was found in big components or too much was inspected.
Flushed(found, inspected) ==
    Len(InBig(found)) = query.results \/ inspected >= query.max_checked

IncrementalFindPhantomNodeForCoordinate ==
    /\ Searching("incremental")
    /\ \E c \in Top :
         LET rest == traversal_queue \ {c}
             skip == c.is = "segment" /\ Enough(c.id)
         IN /\ inspected_segments' = inspected_segments +
                 (IF c.min_dist <= current_min_dist /\ c.is = "segment" THEN 1 ELSE 0)
            /\ IF c.min_dist > current_min_dist \/ skip
               THEN traversal_queue' = rest /\ UNCHANGED results
               ELSE /\ results' = IF c.is = "segment"
                                     /\ ComputePerpendicularDistance(c.id, query.location) < current_min_dist
                                  THEN Append(results, Finish(PhantomNode(c.id))) ELSE results
                    /\ traversal_queue' =
                         IF Flushed(results', inspected_segments') THEN {}
                         ELSE IF c.is = "node" THEN rest \cup Expanded(Node(c.id)) ELSE rest
    /\ UNCHANGED <<input, stage, construction, query, min_dist, min_max_dist, reply>>

\* The queue is empty: the query returns whether something was found.
ReturnResult ==
    /\ stage = "query"
    /\ traversal_queue = {}
    /\ results' = IF query.kind = "phantom" THEN [i \in DOMAIN results |-> Finish(results[i])] ELSE results
    /\ stage' = "answered"
    /\ UNCHANGED <<input, construction, query, traversal_queue, min_dist, min_max_dist, inspected_segments, reply>>

\* LocatePlugin: the end point, or the status 207 if there is none.
LocateReply ==
    IF results = <<>> THEN [NoReply EXCEPT !.status = "207"]
    ELSE [status |-> "0", results |-> <<[location |-> results[1]]>>]

\* NearestPlugin: the first segments found, as many as were asked for, all under the name
\* of the first one.
NearestReply ==
    LET n == Min({query.results, Len(results)})
    IN IF results = <<>> THEN [NoReply EXCEPT !.status = "207"]
       ELSE [status |-> "0",
             results |-> [i \in 1 .. n |-> [location |-> results[i].location, edge |-> results[i].edge,
                                            name |-> results[1].edge]]]

\* Phantom nodes are what the routing plugins go on with.
Reply ==
    /\ stage = "answered"
    /\ reply' = CASE query.kind = "locate" -> LocateReply
                  [] query.kind = "incremental" -> NearestReply
                  [] query.kind = "phantom" -> NoReply
    /\ stage' = "replied"
    /\ UNCHANGED <<input, construction, query, traversal_queue, min_dist, min_max_dist, results, inspected_segments>>

\* The next query finds the tree as before.
EndOfQuery ==
    /\ stage = "replied"
    /\ stage' = "open"
    /\ results' = <<>> /\ query' = NoQuery /\ inspected_segments' = 0 /\ reply' = NoReply
    /\ min_dist' = Infinity /\ min_max_dist' = Infinity
    /\ UNCHANGED <<input, construction, traversal_queue>>

Failed == stage = "failed" /\ UNCHANGED vars

-----------------------------------------------------------------------------
Init ==
    /\ input \in Inputs
    /\ stage = "pack"
    /\ leaf_node_file = <<>> /\ tree_nodes_in_level = <<>> /\ m_search_tree = <<>>
    /\ query = NoQuery
    /\ traversal_queue = {} /\ min_dist = Infinity /\ min_max_dist = Infinity
    /\ results = <<>> /\ inspected_segments = 0 /\ reply = NoReply

Next ==
    \/ PackLeaves \/ PackLevel \/ FinishTree \/ OpenTree
    \/ StartQuery \/ RefuseQuery
    \/ LocateClosestEndPointForCoordinate
    \/ FindPhantomNodeForCoordinate
    \/ IncrementalFindPhantomNodeForCoordinate
    \/ ReturnResult \/ Reply \/ EndOfQuery \/ Failed

Spec == Init /\ [][Next]_vars

-----------------------------------------------------------------------------
\* Edges of the leaves below a node, each as often as a path leads to it.
RECURSIVE EdgesBelow(_)
EdgesBelow(id) ==
    IF Node(id).child_is_on_disk THEN LoadLeafFromDisk(Node(id).children[1])
    ELSE FlattenSeq([j \in DOMAIN Node(id).children |-> EdgesBelow(Node(id).children[j])])

\* The tree that construction wrote leads from node 0 to every segment exactly once, and
\* every rectangle is the smallest one around the segments below it; the packing order
\* it rests on is a Hilbert curve.
TreeCovers ==
    stage = "built" =>
      /\ IsHilbertCurve
      /\ Len(EdgesBelow(0)) = Len(input.edges)
      /\ \A i \in DOMAIN m_search_tree :
           LET below == EdgesBelow(i - 1)
           IN /\ IsInjective(below)
              /\ m_search_tree[i].minimum_bounding_rectangle = InitializeMBRectangle(below)
              /\ i = 1 <=> Range(below) = Edges

Answered(kind) == stage = "answered" /\ query.kind = kind

\* Bounds of boxes that hold only segments of tiny components prune, too: a query that
\* ignores those segments may miss all others.
SeesAll == ~ignore_tiny_components \/ \A e \in Edges : ~IsTiny(e)

\* The points of a segment, the least distance to them, and where it is met.
PointsOf(e) ==
    LET r == MBRectangle({Source(e), Target(e)})
    IN [lat : r.min_lat .. r.max_lat, lon : r.min_lon .. r.max_lon]
SegmentDistance(e) == Min({ApproximateEuclideanDistance(query.location, w) : w \in PointsOf(e)})
FootPoints(e) ==
    {w \in PointsOf(e) : ApproximateEuclideanDistance(query.location, w) = SegmentDistance(e)}

\* The phantom node p is on a nearest segment, and not on one that is to be ignored.  It
\* is at the foot point or one unit beside it, and splits the weights.
PhantomIsNearest(p) ==
    LET edge == input.edges[p.edge]
    IN /\ SeesAll => \A e \in Edges : SegmentDistance(p.edge) <= SegmentDistance(e)
       /\ ~(ignore_tiny_components /\ IsTiny(p.edge))
       /\ \E w \in FootPoints(p.edge) :
            {p.location.lat - w.lat, p.location.lon - w.lon} \subseteq -1 .. 1
       /\ edge.forward /\ edge.reverse /\ edge.forward_weight = edge.reverse_weight =>
            edge.forward_weight - (p.forward_weight + p.reverse_weight) \in {0, 1}

\* No segment of the map runs along the zero meridian.
OffMeridian == \A e \in Edges : IsNaN(Source(e), Target(e)) => Source(e) = Target(e)

\* On a map without streets along the zero meridian FindPhantomNodeForCoordinate finds a
\* nearest segment and the right place on it, whatever order candidates at the same
\* distance are taken in, and never one it is asked to ignore.
NearestSegment ==
    Answered("phantom") /\ OffMeridian =>
      /\ SeesAll => results # <<>>
      /\ \A i \in DOMAIN results : PhantomIsNearest(results[i])

\* "Projection of (x,y) on line joining (a,b) and (c,d)": a north-south street is treated
\* alike at every longitude.
NearestOnEveryMeridian ==
    Answered("phantom") => \A i \in DOMAIN results : PhantomIsNearest(results[i])

\* A box without area may have its own upper bound as lower bound.
HasArea(r) == r.min_lat < r.max_lat /\ r.min_lon < r.max_lon

\* LocateClosestEndPointForCoordinate returns a nearest end of a segment, unless it
\* meets a box without area, which the bound of the box itself may prune.
NearestEndPoint ==
    Answered("locate") /\ SeesAll
      /\ (\A i \in DOMAIN m_search_tree : HasArea(m_search_tree[i].minimum_bounding_rectangle)) =>
        /\ results # <<>>
        /\ \A e \in Edges : \A n \in {input.edges[e].u, input.edges[e].v} :
             ApproximateEuclideanDistance(query.location, results[1])
               <= ApproximateEuclideanDistance(query.location, coordinate(n))

\* What the nearest service replies is nearest: no segment that is missing in its reply
\* is nearer than one that is listed, and as many are listed as were asked for.
ReplyIsNearest ==
    \A e \in Edges \ {reply.results[i].edge : i \in DOMAIN reply.results} :
      /\ Len(reply.results) = query.results
      /\ \A i \in DOMAIN reply.results : SegmentDistance(reply.results[i].edge) <= SegmentDistance(e)

\* On such a map IncrementalFindPhantomNodeForCoordinate returns segments in the order of their
\* distance, each once.  Unless it gave up, these are as many segments of big components
\* as were asked for, and no other is nearer; and no segment of a tiny component that
\* is nearer than the last of them is missing unless enough such are nearer still.  So
\* the plugin may cut the list.
NearestInOrder ==
  OffMeridian =>
  /\ stage = "replied" /\ query.kind = "incremental" /\ reply.status = "0"
       /\ inspected_segments < query.max_checked => ReplyIsNearest
  /\ Answered("incremental") =>
      LET big == InBig(results)
          tiny == InTiny(results)
          dist(i) == SegmentDistance(results[i].edge)
          Missing == Edges \ {results[i].edge : i \in DOMAIN results}
          LastOf(list) == SegmentDistance(list[Len(list)].edge)
      IN /\ \A i, j \in DOMAIN results : i < j =>
              results[i].edge # results[j].edge /\ dist(i) <= dist(j)
         /\ Len(big) <= query.results /\ Len(tiny) <= query.results
         /\ inspected_segments < query.max_checked =>
              \A e \in Missing :
                IF IsTiny(e)
                THEN \/ Len(tiny) = query.results /\ LastOf(tiny) <= SegmentDistance(e)
                     \/ Len(big) = query.results /\ LastOf(big) <= SegmentDistance(e)
                ELSE Len(big) = query.results /\ LastOf(big) <= SegmentDistance(e)
=============================================================================
