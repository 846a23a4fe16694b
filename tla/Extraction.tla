----------------------------- MODULE Extraction -----------------------------
(***************************************************************************)
(* osrm-extract: Extractor::Run reads a map and PrepareData of             *)
(* Extractor/ExtractionContainers.cpp writes the .osrm file and the        *)
(* restrictions.  Lists that do not fit into memory are sorted and joined: *)
(* two cursors run over two sorted lists, one step of a join is one        *)
(* action.                                                                 *)
(***************************************************************************)
EXTENDS PBFGroups

CONSTANTS
    Maps    \* [threads, inputExists, profileExists, suffix, header, profile, elements, source];
            \* header: [blobHeader, blob, parses, features] of a PBF file, in XML its first read
            \* succeeds if blobHeader; source: the elements of the map in plain form

VARIABLES
    map,
    phase,          \* progress of Run and PrepareData
    containers,
    left, right,    \* the cursors of a join
    output          \* [nodes, number_of_nodes, edges, number_of_edges, restrictions,
                    \*  number_of_restrictions, names]

extraction == <<map, phase, containers, left, right, output>>

NoOutput == [nodes |-> <<>>, number_of_nodes |-> 0, edges |-> <<>>, number_of_edges |-> 0,
             restrictions |-> <<>>, number_of_restrictions |-> 0, names |-> <<>>]

-----------------------------------------------------------------------------
(* Extractor::Run *)

\* GenerateOutputFilesNames: the name of the file tells its format.
file_has_pbf_format == map.suffix \in {".osm.pbf", ".pbf"}

CheckInput ==
    /\ phase = "start"
    /\ phase' = IF /\ map.threads >= 1 /\ map.inputExists /\ map.profileExists
                   /\ IF file_has_pbf_format THEN ReadHeader(map.header) ELSE map.header.blobHeader
                THEN "parse" ELSE "failed"
    /\ UNCHANGED <<map, containers, left, right, output>>

\* The next element of the file, or group of elements.
Parse ==
    /\ phase = "parse" /\ left <= Len(map.elements)
    /\ containers' = IF file_has_pbf_format THEN ParseGroup(containers, map.elements[left], map.profile)
                     ELSE ParseElement(containers, map.elements[left], map.profile)
    /\ phase' = IF file_has_pbf_format /\ Rejected(map.elements[left]) THEN "failed" ELSE phase
    /\ left' = left + 1
    /\ UNCHANGED <<map, right, output>>

EndOfInput ==
    /\ phase = "parse" /\ left > Len(map.elements)
    /\ phase' = IF containers.all_edges_list = <<>> THEN "failed" ELSE "sort"
    /\ UNCHANGED <<map, containers, left, right, output>>

-----------------------------------------------------------------------------
(* PrepareData: restrictions *)

Rewind == left' = 1 /\ right' = 1

\* A join is over when either list is.
AtEnd(a, b) == left > Len(a) \/ right > Len(b)

Unique(sorted) ==
    FoldLeft(LAMBDA list, x : IF list # <<>> /\ Last(list) = x THEN list ELSE Append(list, x), <<>>, sorted)

\* stxxl::sort is not stable.  Bound: equal elements keep their order or are reversed.
Sorted(list, key) ==
    {SortSeq(l, LAMBDA a, b : a[key] < b[key]) : l \in {list, Reverse(list)}}

SortLists ==
    /\ phase = "sort"
    /\ \E nodes_by_id \in Sorted(containers.all_nodes_list, "id"),
          ways_by_id \in Sorted(containers.way_start_end_id_list, "wayID"),
          restrictions_by_from \in Sorted(containers.restrictions_list, "fromWay") :
         containers' = [containers EXCEPT
            !.used_node_id_list = Unique(SortSeq(@, LAMBDA a, b : a < b)),
            !.all_nodes_list = nodes_by_id,
            !.way_start_end_id_list = ways_by_id,
            !.restrictions_list = restrictions_by_from]
    /\ phase' = "starts" /\ Rewind
    /\ UNCHANGED <<map, output>>

ways == containers.way_start_end_id_list
restrictions == containers.restrictions_list

\* The neighbour of the via node on the way; the first segment is tried first.
FromNode(way, r) ==
    IF way.firstStart = r.viaNode THEN way.firstTarget
    ELSE IF way.firstTarget = r.viaNode THEN way.firstStart
    ELSE IF way.lastStart = r.viaNode THEN way.lastTarget
    ELSE IF way.lastTarget = r.viaNode THEN way.lastStart
    ELSE r.fromNode

\* The last segment is tried first.
ToNode(way, r) ==
    FromNode([firstStart |-> way.lastStart, firstTarget |-> way.lastTarget,
              lastStart |-> way.firstStart, lastTarget |-> way.firstTarget],
             [viaNode |-> r.viaNode, fromNode |-> r.toNode])

FixRestrictionStarts ==
    LET way == ways[left]
        r == restrictions[right]
    IN /\ phase = "starts" /\ ~AtEnd(ways, restrictions)
       /\ left' = IF way.wayID < r.fromWay THEN left + 1 ELSE left
       /\ right' = IF way.wayID >= r.fromWay THEN right + 1 ELSE right
       /\ containers' = IF way.wayID = r.fromWay
                        THEN [containers EXCEPT !.restrictions_list[right].fromNode = FromNode(way, r)]
                        ELSE containers
       /\ UNCHANGED <<map, phase, output>>

SortRestrictionsByTo ==
    /\ phase = "starts" /\ AtEnd(ways, restrictions)
    /\ \E by_to \in Sorted(restrictions, "toWay") :
         containers' = [containers EXCEPT !.restrictions_list = by_to]
    /\ phase' = "ends" /\ Rewind
    /\ UNCHANGED <<map, output>>

Usable(r) == r.fromNode # MaxID /\ r.toNode # MaxID

\* Mutant: the way is left as soon as one restriction has used it.
FixOneEndPerWay ==
    LET way == ways[left]
        r == restrictions[right]
        match == way.wayID = r.toWay
        fixed == [r EXCEPT !.toNode = IF match THEN ToNode(way, r) ELSE @]
    IN /\ phase = "ends" /\ ~AtEnd(ways, restrictions)
       /\ left' = IF way.wayID <= r.toWay THEN left + 1 ELSE left
       /\ right' = IF way.wayID >= r.toWay THEN right + 1 ELSE right
       /\ containers' = [containers EXCEPT !.restrictions_list[right] = fixed]
       /\ output' = IF match /\ Usable(fixed) THEN [output EXCEPT !.number_of_restrictions = @ + 1] ELSE output
       /\ UNCHANGED <<map, phase>>

\* Restrictions that are usable now are counted.
FixRestrictionEnds ==
    LET way == ways[left]
        r == restrictions[right]
        match == way.wayID = r.toWay
        fixed == [r EXCEPT !.toNode = IF match THEN ToNode(way, r) ELSE @]
    IN /\ phase = "ends" /\ ~AtEnd(ways, restrictions)
       /\ left' = IF way.wayID < r.toWay THEN left + 1 ELSE left
       /\ right' = IF way.wayID >= r.toWay THEN right + 1 ELSE right
       /\ containers' = [containers EXCEPT !.restrictions_list[right] = fixed]
       /\ output' = IF match /\ Usable(fixed) THEN [output EXCEPT !.number_of_restrictions = @ + 1] ELSE output
       /\ UNCHANGED <<map, phase>>

Written(r) == [fromNode |-> r.fromNode, viaNode |-> r.viaNode, toNode |-> r.toNode, isOnly |-> r.isOnly]

WriteRestrictions ==
    LET usable == SelectSeq(restrictions, Usable)
    IN /\ phase = "ends" /\ AtEnd(ways, restrictions)
       /\ output' = [output EXCEPT !.restrictions = [i \in DOMAIN usable |-> Written(usable[i])]]
       /\ phase' = "nodes" /\ Rewind
       /\ UNCHANGED <<map, containers>>

-----------------------------------------------------------------------------
(* PrepareData: nodes and edges *)

used == containers.used_node_id_list
nodes == containers.all_nodes_list
edges == containers.all_edges_list

WriteUsedNode ==
    LET match == used[left] = nodes[right].id
    IN /\ phase = "nodes" /\ ~AtEnd(used, nodes)
       /\ left' = IF used[left] <= nodes[right].id THEN left + 1 ELSE left
       /\ right' = IF used[left] >= nodes[right].id THEN right + 1 ELSE right
       /\ output' = IF match THEN [output EXCEPT !.nodes = Append(@, nodes[right]),
                                                !.number_of_nodes = @ + 1]
                    ELSE output
       /\ UNCHANGED <<map, phase, containers>>

SortEdgesByStart ==
    /\ phase = "nodes" /\ AtEnd(used, nodes)
    /\ \E by_start \in Sorted(edges, "start") :
         containers' = [containers EXCEPT !.all_edges_list = by_start]
    /\ phase' = "start coordinates" /\ Rewind
    /\ UNCHANGED <<map, output>>

\* Mutant: the cursor over the nodes goes on after a match.
SetFirstStartCoordinate ==
    LET start == edges[left].start
        id == nodes[right].id
    IN /\ phase = "start coordinates" /\ ~AtEnd(edges, nodes)
       /\ left' = IF start <= id THEN left + 1 ELSE left
       /\ right' = IF start >= id THEN right + 1 ELSE right
       /\ containers' = IF start = id
                        THEN [containers EXCEPT !.all_edges_list[left].known = TRUE,
                                                !.all_edges_list[left].source_coordinate = nodes[right].lat]
                        ELSE containers
       /\ UNCHANGED <<map, phase, output>>

SetStartCoordinate ==
    LET start == edges[left].start
        id == nodes[right].id
    IN /\ phase = "start coordinates" /\ ~AtEnd(edges, nodes)
       /\ left' = IF start <= id THEN left + 1 ELSE left
       /\ right' = IF start > id THEN right + 1 ELSE right
       /\ containers' = IF start = id
                        THEN [containers EXCEPT !.all_edges_list[left].known = TRUE,
                                                !.all_edges_list[left].source_coordinate = nodes[right].lat]
                        ELSE containers
       /\ UNCHANGED <<map, phase, output>>

SortEdgesByTarget ==
    /\ phase = "start coordinates" /\ AtEnd(edges, nodes)
    /\ \E by_target \in Sorted(edges, "target") :
         containers' = [containers EXCEPT !.all_edges_list = by_target]
    /\ phase' = "target coordinates" /\ Rewind
    /\ UNCHANGED <<map, output>>

\* Tenths of seconds, rounded: the duration, or the distance in metres (MetersPerDegree) at
\* the speed.  A speed of zero gives infinity, whose conversion to int is undefined; the
\* smallest int that x86 gives becomes 1.
MetersPerDegree == 10
Rounded(a, b) == (2 * a + b) \div (2 * b)
AtLeastOne(n) == IF n > 1 THEN n ELSE 1
IntegerWeight(e, distance) ==
    LET v == e.speed
    IN IF e.is_duration_set THEN AtLeastOne(Rounded(v.km, v.per))
       ELSE IF v.km = 0 THEN 1 ELSE AtLeastOne(Rounded(36 * distance * v.per, v.km))

Difference(a, b) == IF a < b THEN b - a ELSE a - b

EdgeRecord(e, node) ==
    [source |-> e.start, target |-> e.target, dir |-> IF e.direction = "oneway" THEN 1 ELSE 0,
     weight |-> IntegerWeight(e, MetersPerDegree * Difference(e.source_coordinate, node.lat)),
     name |-> e.name_id, mode |-> e.travel_mode, roundabout |-> e.is_roundabout,
     ignore_in_grid |-> e.is_in_tiny_cc, split |-> e.is_split]

WriteEdge ==
    LET e == edges[left]
        node == nodes[right]
    IN /\ phase = "target coordinates" /\ ~AtEnd(edges, nodes)
       /\ left' = IF e.target <= node.id THEN left + 1 ELSE left
       /\ right' = IF e.target > node.id THEN right + 1 ELSE right
       /\ output' = IF e.target = node.id /\ e.known
                    THEN [output EXCEPT !.edges = Append(@, EdgeRecord(e, node)), !.number_of_edges = @ + 1]
                    ELSE output
       /\ UNCHANGED <<map, phase, containers>>

WriteNames ==
    /\ phase = "target coordinates" /\ AtEnd(edges, nodes)
    /\ output' = [output EXCEPT !.names = containers.name_list]
    /\ phase' = "extracted"
    /\ UNCHANGED <<map, containers, left, right>>

-----------------------------------------------------------------------------
ExtractionInit ==
    /\ phase = "start" /\ map \in Maps
    /\ containers = EmptyContainers /\ left = 1 /\ right = 1
    /\ output = NoOutput

ExtractionNext ==
    \/ CheckInput \/ Parse \/ EndOfInput
    \/ SortLists \/ FixRestrictionStarts \/ SortRestrictionsByTo \/ FixRestrictionEnds \/ WriteRestrictions
    \/ WriteUsedNode \/ SortEdgesByStart \/ SetStartCoordinate \/ SortEdgesByTarget \/ WriteEdge \/ WriteNames

-----------------------------------------------------------------------------
(* Properties *)

SourceOf(type) == SelectSeq(map.source, LAMBDA e : e.type = type)
KeptWays == SelectSeq(SourceOf("way"), LAMBDA w : ~Dropped(w))
KnownNodes == {n.id : n \in {m \in Range(SourceOf("node")) : m.lat \in -MaxLatitude .. MaxLatitude}}
Latitude(id) == (CHOOSE n \in Range(SourceOf("node")) : n.id = id).lat

\* Neighbours of a node that lies on the first or the last segment of the way.
EndNeighbours(id, via) ==
    UNION {LET p == w.path
               n == Len(p)
           IN {p[i] : i \in {j \in {1, 2, n - 1, n} :
                 \E k \in {1, 2, n - 1, n} : p[k] = via /\ {j, k} \in {{1, 2}, {n - 1, n}}}} :
             w \in {v \in Range(KeptWays) : v.id = id}}

Member(relation, role) ==
    LET refs == SelectSeq(relation.members, LAMBDA m : m.role = role /\ m.type = IF role = "via" THEN "node" ELSE "way")
    IN IF refs = <<>> THEN MaxID ELSE Last(refs).ref

Resolves(relation, r) ==
    /\ r.viaNode = Member(relation, "via") /\ r.isOnly = relation.only
    /\ r.fromNode \in EndNeighbours(Member(relation, "from"), r.viaNode)
    /\ r.toNode \in EndNeighbours(Member(relation, "to"), r.viaNode)

\* Relations that restrict a turn between kept ways that meet at the via node.
Effective ==
    SelectSeq(SourceOf("relation"), LAMBDA r :
      /\ map.profile.use_turn_restrictions \notin {"false", "error"}
      /\ ~map.profile.get_exceptions \/ r.except \cap map.profile.exceptions = {}
      /\ file_has_pbf_format => r.restriction
      /\ \A role \in {"from", "to"} : EndNeighbours(Member(r, role), Member(r, "via")) # {})

\* The restrictions file holds exactly the restrictions of the map that can be resolved,
\* each with the neighbours of its via node on its two ways, and their number, although
\* both lists were sorted twice and joined with cursors (PrepareData).
RestrictionsKept ==
    phase = "extracted" =>
      /\ Len(output.restrictions) = output.number_of_restrictions
      /\ Len(output.restrictions) = Len(Effective)
      /\ \A relation \in Range(Effective) : \E r \in Range(output.restrictions) : Resolves(relation, r)
      /\ \A r \in Range(output.restrictions) : \E relation \in Range(Effective) : Resolves(relation, r)

\* The weight of a segment of the way that is passed at this speed.
SegmentWeight(way, a, b, speed) ==
    IF HasDuration(way) THEN AtLeastOne(Rounded(way.duration, Len(way.path) - 1))
    ELSE AtLeastOne(Rounded(36 * MetersPerDegree * Difference(Latitude(a), Latitude(b)), speed))

\* The file has an edge that leads from one node to the other at this weight, or at any.
Drivable(a, b, weights) ==
    \E e \in Range(output.edges) :
      /\ e.weight \in weights
      /\ <<e.source, e.target>> = <<a, b>> \/ (<<e.source, e.target>> = <<b, a>> /\ e.dir = 0)

AnyWeight == {e.weight : e \in Range(output.edges)}

\* The .osrm file has the known nodes of kept ways, once each, and their number; its edges
\* join nodes of the file.  Along a kept way one can drive between known nodes in exactly
\* the directions in which the way is open, at the speed of the direction.  (A way that is
\* closed forwards gets the forward speed; no speed backwards is the speed forwards.)
FileComplete ==
    phase = "extracted" =>
    LET used_ids == UNION {Range(w.path) : w \in Range(KeptWays)} \cap KnownNodes
        ids == [i \in DOMAIN output.nodes |-> output.nodes[i].id]
    IN /\ Range(ids) = used_ids /\ \A i \in 1 .. Len(ids) - 1 : ids[i] < ids[i + 1]
       /\ output.number_of_nodes = Len(output.nodes) /\ output.number_of_edges = Len(output.edges)
       /\ \A e \in Range(output.edges) : {e.source, e.target} \subseteq used_ids
       /\ \A w \in Range(KeptWays) : \A i \in 1 .. Len(w.path) - 1 :
            LET a == w.path[i]
                b == w.path[i + 1]
                forward == w.forward_travel_mode # TRAVEL_MODE_INACCESSIBLE
                backward == w.backward_travel_mode # TRAVEL_MODE_INACCESSIBLE
                back_speed == IF w.backward_speed > 0 THEN w.backward_speed ELSE w.forward_speed
            IN {a, b} \subseteq KnownNodes =>
                 /\ forward => Drivable(a, b, {SegmentWeight(w, a, b, w.forward_speed)})
                 /\ forward /\ backward => Drivable(b, a, {SegmentWeight(w, a, b, back_speed)})
                 /\ ~forward /\ backward => Drivable(b, a, AnyWeight) /\ ~Drivable(a, b, AnyWeight)
                 /\ forward /\ ~backward => ~Drivable(b, a, AnyWeight)
       /\ output.names[1] = "" /\ \A e \in Range(output.edges) : e.name + 1 \in DOMAIN output.names
=============================================================================
