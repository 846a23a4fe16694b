--------------------------- MODULE RoutePlanning ----------------------------
(***************************************************************************)
(* osrm-prepare and osrm-routed together: the hierarchy that Contractor    *)
(* builds, written as an adjacency array, is what SearchEngine searches.   *)
(* The answers are compared with shortest paths in the input graph.        *)
(***************************************************************************)
EXTENDS Contractor, Functions

CONSTANTS Requests, SPECIAL_NODEID, VIAPATH_ALPHA, VIAPATH_EPSILON, VIAPATH_GAMMA

VARIABLES query_graph,
          leg, forward_heap, reverse_heap, middle, upper_bound, min_edge_offset, turn,
          request, journey, alternatives, table

search == <<leg, forward_heap, reverse_heap, middle, upper_bound, min_edge_offset, turn,
            request, journey, alternatives, table>>

\* Locations lie on nodes of the graph; the two directions of a street are different nodes.
Phantoms ==
    {p \in [forward : NodeIDs \cup {SPECIAL_NODEID}, forward_offset : Nat,
            reverse : NodeIDs \cup {SPECIAL_NODEID}, reverse_offset : Nat] :
       p.forward = p.reverse => p.forward = SPECIAL_NODEID}

ASSUME RequestsAssumption ==
    /\ SPECIAL_NODEID \notin NodeIDs /\ VIAPATH_EPSILON \in Nat
    /\ \A r \in Requests : /\ r.service \in {"route", "alternative", "table"}
                           /\ r.phantoms \in Seq(Phantoms)
                           /\ r = [service |-> r.service, phantoms |-> r.phantoms, uturns |-> r.uturns]

Query == INSTANCE SearchEngine WITH INVALID_EDGE_WEIGHT <- INT_MAX

PlanInit == Init /\ query_graph = Query!NoGraph /\ Query!EngineInit

Prepare == Next /\ UNCHANGED <<query_graph, search>>

\* Process goes on after the contraction: the hierarchy is written to the .hsgr file.
WriteGraph ==
    /\ built /\ query_graph = Query!NoGraph
    /\ query_graph' = Query!SerializedGraph(edges, number_of_nodes)
    /\ UNCHANGED <<vars, search>>

\* The server loads the file and answers requests.
loaded == query_graph # Query!NoGraph

HandleRequest == loaded /\ (Query!HandleViaRoute \/ Query!HandleTable) /\ UNCHANGED vars
SearchStep == loaded /\ Query!EngineStep /\ UNCHANGED vars
SelectAlternative == loaded /\ Query!SelectAlternative /\ UNCHANGED <<vars, table>>

PlanNext == Prepare \/ WriteGraph \/ HandleRequest \/ SearchStep \/ SelectAlternative

planvars == <<vars, query_graph, search>>

\* Run() goes on until the hierarchy is built and written, and the loops of an accepted
\* request run on until they end.
PlanSpec ==
    /\ PlanInit /\ [][PlanNext]_planvars
    /\ WF_planvars(Prepare \/ WriteGraph) /\ WF_planvars(SearchStep)

-----------------------------------------------------------------------------
(* Routes of the input graph *)

\* The least cost of a way from the source s to the target t, given the shortest walks of
\* the input.
Way(shortest, s, t) ==
    LET d == Distance(shortest, s.node, t.node)
    IN IF d = INT_MAX THEN INT_MAX ELSE d - s.offset + t.offset

BestWay(shortest, sources, targets) ==
    Min({INT_MAX} \cup {Way(shortest, s, t) : s \in sources, t \in targets})

Points(phantom) ==
    Query!Existing(phantom.forward, phantom.forward_offset)
    \cup Query!Existing(phantom.reverse, phantom.reverse_offset)

\* The part of its node that lies before the source is subtracted from the length: from
\* here on a length may belong to a walk of INT_MAX, and counts as none.
Limit(sources) == INT_MAX - Max({0} \cup {s.offset : s \in sources})

\* The length is that of the best way, unless a target lies before a source on its street.
IsBest(length, shortest, sources, targets) ==
    LET best == BestWay(shortest, sources, targets)
        capped(x) == Min({x, Limit(sources)})
    IN best >= 0 => capped(length) = capped(best)

TotalWeight(path) == MapThenSumSet(LAMBDA i : path[i].weight, DOMAIN path)

\* The packed path, unpacked, is a way of the input graph from a source to a target
\* of this length.
IsWay(packed, sources, targets, length) ==
    LET path == Query!UnpackPath(packed)
    IN /\ \A i \in DOMAIN path :
            /\ path[i].weight = InputDistance(input_edge_list, path[i].from, path[i].to)
            /\ i + 1 \in DOMAIN path => path[i].to = path[i + 1].from
       /\ \E s \in sources, t \in targets :
            /\ packed[1] = s.node /\ packed[Len(packed)] = t.node
            /\ TotalWeight(path) - s.offset + t.offset = length

\* A search returns the length of a shortest route of the input graph, although both
\* directions go upwards only, stall and stop early (RoutingStep), or go on beyond the
\* bound (AlternativeRoutingStep).  The one exception: when the target lies before the
\* source on the same one-way edge, the meeting at this edge is discarded
\* (new_distance >= 0).
ShortestFound ==
    turn = "done" => IsBest(upper_bound, Shortest(InputArcs), leg.source, leg.target)

\* The path read off the heaps and unpacked is a route of the input graph from a
\* source to a target, and as long as the answer says (UnpackPath).
PathMatchesLength ==
    turn = "done" /\ upper_bound < INT_MAX =>
      IsWay(Query!PackedPath, leg.source, leg.target, upper_bound)

\* The route may turn between leg i and the next one.
MayTurn(i) == i > 0 /\ Len(request.uturns) > i /\ request.uturns[i]

\* The next leg begins on the node on which leg i ends.
GoesOn(legs, i) == i + 1 \in DOMAIN legs => Query!Last(legs[i]) = legs[i + 1][1]

\* A route through several locations goes on at every via location on the node on which
\* it arrives, unless it may turn there, and each of its legs is a way between its
\* locations (the exchange of temporary legs in ShortestPathRouting).  Where a leg started
\* with a turn the shorter leg replaces the other one, although both of their ends are
\* kept as starts of the next leg: at its end the route may turn as well.
RouteConnects ==
    turn = "answered" /\ request.service = "route" /\ journey.status = "route" =>
    LET legs == Query!packed_legs
    IN /\ Len(legs) = Len(request.phantoms) - 1
       /\ \A i \in DOMAIN legs :
            /\ \E s \in Points(request.phantoms[i]), t \in Points(request.phantoms[i + 1]) :
                 legs[i][1] = s.node /\ Query!Last(legs[i]) = t.node
            /\ ~MayTurn(i) /\ ~MayTurn(i - 1) => GoesOn(legs, i)

\* What was meant: the route turns at no other locations than those where it may.  A
\* request with a turn at the first of two via locations violates it.
TurnsWhereAllowed ==
    turn = "answered" /\ request.service = "route" /\ journey.status = "route" =>
    \A i \in DOMAIN Query!packed_legs : ~MayTurn(i) => GoesOn(Query!packed_legs, i)

\* Costs of the ways through all locations that go on in the direction of arrival.
Chains ==
    LET n == Len(request.phantoms)
        nodes == [1 .. n -> UNION {Points(request.phantoms[i]) : i \in 1 .. n}]
        chains == {c \in nodes : \A i \in 1 .. n : c[i] \in Points(request.phantoms[i])}
        shortest == Shortest(InputArcs)
        costs(c) == [i \in 1 .. n - 1 |-> Way(shortest, c[i], c[i + 1])]
    IN {SumFunction(costs(c)) : c \in {d \in chains : \A i \in 1 .. n - 1 : costs(d)[i] < INT_MAX}}

\* No location lies before the previous one on the same street.
Onwards ==
    LET shortest == Shortest(InputArcs)
    IN \A i \in 1 .. Len(request.phantoms) - 1 :
         BestWay(shortest, Points(request.phantoms[i]), Points(request.phantoms[i + 1])) >= 0

\* A route through several locations is as long as the shortest way through them that
\* goes on in the direction of arrival, since the nodes from which a leg starts are
\* "adjusted by previous distances" (ShortestPathRouting).
RouteShortest ==
    turn = "answered" /\ request.service = "route" /\ request.uturns = <<>> =>
    LET chains == Chains
    IN Onwards => IF journey.status = "route" THEN Query!shortest_path_length = Min(chains)
                  ELSE chains = {}

\* The same for routes with one via location: two searches towards either direction of
\* the via location, joined with two searches from there, find the shortest way.
ViaRouteShortest == Len(request.phantoms) <= 3 => RouteShortest

\* An alternative is a way of the input graph from the source to the target, as long as
\* stated, at most VIAPATH_EPSILON longer than the shortest route, and not this route
\* (AlternativeRouting).
AlternativeSound ==
    alternatives.packed # <<>> =>
      /\ IsWay(alternatives.packed, leg.source, leg.target, alternatives.length)
      /\ 100 * alternatives.length <= (100 + VIAPATH_EPSILON) * upper_bound
      /\ Query!UnpackPath(alternatives.packed) # Query!UnpackPath(Query!PackedPath)

\* Every entry of the table is the length of a shortest route between its locations
\* (ManyToManyRouting), with the exception named at ShortestFound.
TableExact ==
    turn = "answered" /\ request.service = "table" =>
    LET shortest == Shortest(InputArcs)
    IN \A i, j \in DOMAIN request.phantoms :
         IsBest(table.result_table[i][j], shortest, Points(request.phantoms[i]), Points(request.phantoms[j]))

\* Every request that is accepted is answered: the loops over heaps, legs and locations
\* end.  (The selection of an alternative that follows its loop always gives an answer.)
QueryEnds ==
    turn = "idle" ~> turn = "answered" \/ (turn = "done" /\ request.service = "alternative")
=============================================================================
