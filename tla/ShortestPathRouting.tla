------------------------ MODULE ShortestPathRouting -------------------------
(***************************************************************************)
(* RoutingAlgorithms/ShortestPathRouting.h: a route through several        *)
(* locations.  Every leg is searched twice, towards either direction of    *)
(* the street at its end, and two chains of legs are kept so that the      *)
(* route goes on in the direction in which it arrives.                     *)
(*                                                                         *)
(* A phantom node is [forward, forward_offset, reverse, reverse_offset];   *)
(* a direction that does not exist has the node SPECIAL_NODEID.            *)
(***************************************************************************)
EXTENDS CHQuery

VARIABLES
    request,    \* [service, phantoms, uturns]
    journey     \* local variables of the loop over the legs

\* journey.second: the leg is searched towards the second direction of its end, and
\* found1 is what the first search found.
StartOfJourney ==
    [current_leg |-> 0, second |-> FALSE, found1 |-> <<>>,
     distance1 |-> 0, distance2 |-> 0,
     search_from_1st_node |-> TRUE, search_from_2nd_node |-> TRUE,
     packed_legs1 |-> <<>>, packed_legs2 |-> <<>>, status |-> "running"]

At(node, offset) == [node |-> node, offset |-> offset]
\* The node, unless it does not exist.
Existing(node, offset) == IF node = SPECIAL_NODEID THEN {} ELSE {At(node, offset)}

IsBidirected(phantom) == phantom.forward # SPECIAL_NODEID /\ phantom.reverse # SPECIAL_NODEID

SourcePhantom == request.phantoms[journey.current_leg + 1]
TargetPhantom == request.phantoms[journey.current_leg + 2]

allow_u_turn ==
    /\ journey.current_leg > 0
    /\ Len(request.uturns) > journey.current_leg
    /\ request.uturns[journey.current_leg]

\* Mutant: the length of the route so far is forgotten.
LegSourceUnadjusted ==
    LET p == SourcePhantom
    IN (IF allow_u_turn \/ journey.search_from_1st_node THEN Existing(p.forward, p.forward_offset) ELSE {})
       \cup
       (IF allow_u_turn \/ journey.search_from_2nd_node THEN Existing(p.reverse, p.reverse_offset) ELSE {})

\* Where the leg may start, with the length of the route so far.
LegSource ==
    LET p == SourcePhantom
        so_far(distance) == IF allow_u_turn THEN 0 ELSE distance
    IN (IF allow_u_turn \/ journey.search_from_1st_node
        THEN Existing(p.forward, p.forward_offset - so_far(journey.distance1)) ELSE {})
       \cup
       (IF allow_u_turn \/ journey.search_from_2nd_node
        THEN Existing(p.reverse, p.reverse_offset - so_far(journey.distance2)) ELSE {})

StartLeg ==
    /\ turn = "idle" /\ request.service = "route"
    /\ FillHeaps([source |-> LegSource, target |-> Existing(TargetPhantom.forward, TargetPhantom.forward_offset)])
    /\ turn' = FirstTurn(leg')
    /\ UNCHANGED <<query_graph, request, journey>>

\* Length, packed path and meeting node of the search that has ended.
Found ==
    [upper_bound |-> upper_bound,
     packed |-> IF upper_bound = INVALID_EDGE_WEIGHT THEN <<>> ELSE PackedPath,
     middle |-> middle]

\* The second loop runs only if its reverse heap is not empty.
SearchSecondTarget ==
    /\ turn = "done" /\ request.service = "route" /\ ~journey.second
    /\ journey' = [journey EXCEPT !.second = TRUE, !.found1 = Found]
    /\ FillHeaps([source |-> LegSource, target |-> Existing(TargetPhantom.reverse, TargetPhantom.reverse_offset)])
    /\ turn' = IF leg'.target = {} THEN "done" ELSE FirstTurn(leg')
    /\ UNCHANGED <<query_graph, request>>

\* A path that was not found is replaced by the other one; so is the longer one if the
\* route may turn at the start of the leg.
Replaced(found, other) ==
    IF (allow_u_turn /\ found.upper_bound > other.upper_bound) \/ found.packed = <<>>
    THEN other ELSE found

\* Mutant of Joined: the chains are left as they are.
JoinedAsFound(leg1, leg2) ==
    [leg1 |-> leg1, leg2 |-> leg2, legs1 |-> journey.packed_legs1, legs2 |-> journey.packed_legs2]

\* The new legs and the chains they go on: legs are exchanged if neither starts where its
\* chain ends, and a chain that neither continues is replaced by the other one.
Joined(leg1, leg2) ==
    LET legs1 == journey.packed_legs1
        legs2 == journey.packed_legs2
        start1 == Head(leg1.packed)
        start2 == Head(leg2.packed)
        end1 == Last(Last(legs1))
        end2 == Last(Last(legs2))
        crossed == end1 # start1 /\ end2 # start2
    IN IF allow_u_turn \/ journey.current_leg = 0
       THEN [leg1 |-> leg1, leg2 |-> leg2, legs1 |-> legs1, legs2 |-> legs2]
       ELSE [leg1 |-> IF crossed THEN leg2 ELSE leg1,
             leg2 |-> IF crossed THEN leg1 ELSE leg2,
             legs1 |-> IF start1 = start2 /\ start1 # end1 THEN legs2 ELSE legs1,
             legs2 |-> IF start1 = start2 /\ start1 = end1 /\ start2 # end2 THEN legs1 ELSE legs2]

\* Both searches of a leg have ended.
FinishLeg ==
    LET found1 == journey.found1
        leg1 == Replaced(found1, Found)
        leg2 == Replaced(Found, leg1)
        j == Joined(leg1, leg2)
        last1 == Last(j.leg1.packed)
        last2 == Last(j.leg2.packed)
        same_end == ~allow_u_turn /\ last1 = last2 /\ IsBidirected(TargetPhantom)
        is_last_leg == journey.current_leg + 2 = Len(request.phantoms)
    IN /\ turn = "done" /\ request.service = "route" /\ journey.second
       /\ IF found1.upper_bound = INVALID_EDGE_WEIGHT /\ Found.upper_bound = INVALID_EDGE_WEIGHT
          THEN /\ journey' = [journey EXCEPT !.status = "no route"]
               /\ turn' = "answered"
          ELSE /\ journey' =
                    [current_leg |-> journey.current_leg + 1, second |-> FALSE, found1 |-> <<>>,
                     distance1 |-> j.leg1.upper_bound, distance2 |-> j.leg2.upper_bound,
                     search_from_1st_node |-> found1.middle # SPECIAL_NODEID
                                              /\ ~(same_end /\ last2 = TargetPhantom.reverse),
                     search_from_2nd_node |-> Found.middle # SPECIAL_NODEID
                                              /\ ~(same_end /\ last2 = TargetPhantom.forward),
                     packed_legs1 |-> Append(j.legs1, j.leg1.packed),
                     packed_legs2 |-> Append(j.legs2, j.leg2.packed),
                     status |-> IF is_last_leg THEN "route" ELSE "running"]
               /\ turn' = IF is_last_leg THEN "answered" ELSE "idle"
       /\ UNCHANGED <<query_graph, request, leg, forward_heap, reverse_heap, middle, upper_bound, min_edge_offset>>

\* The answer: the shorter chain.
packed_legs ==
    IF journey.distance1 > journey.distance2 THEN journey.packed_legs2 ELSE journey.packed_legs1
shortest_path_length == Min({journey.distance1, journey.distance2})
=============================================================================
