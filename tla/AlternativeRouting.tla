------------------------- MODULE AlternativeRouting -------------------------
(***************************************************************************)
(* RoutingAlgorithms/AlternativePathRouting.h: a search that goes on       *)
(* beyond the shortest path collects nodes that both directions reached;   *)
(* one through which a route is not much longer, does not share too much   *)
(* with the shortest path and passes the T-test gives the alternative.     *)
(* Shares are in percent.                                                  *)
(***************************************************************************)
EXTENDS ShortestPathRouting

CONSTANTS VIAPATH_ALPHA, VIAPATH_EPSILON, VIAPATH_GAMMA

VARIABLE
    alternatives    \* [via_node_candidate_list, forward_search_space, reverse_search_space,
                    \*  packed, length]: local variables of the query and its result

NoAlternatives ==
    [via_node_candidate_list |-> {}, forward_search_space |-> <<>>, reverse_search_space |-> <<>>,
     packed |-> <<>>, length |-> INVALID_EDGE_WEIGHT]

StartAlternative ==
    LET s == request.phantoms[1]
        t == request.phantoms[2]
    IN /\ turn = "idle" /\ request.service = "alternative"
       /\ FillHeaps([source |-> Existing(s.forward, s.forward_offset) \cup Existing(s.reverse, s.reverse_offset),
                     target |-> Existing(t.forward, t.forward_offset) \cup Existing(t.reverse, t.reverse_offset)])
       /\ turn' = IF leg'.source # {} THEN "alt forward" ELSE IF leg'.target # {} THEN "alt reverse" ELSE "done"
       /\ alternatives' = NoAlternatives
       /\ UNCHANGED <<query_graph, request, journey>>

\* Distance that is compared with the bound of the shortest path; negative ones never
\* exceed it.
Scaled(distance) == IF distance < 0 THEN 0 ELSE (100 * distance) \div (100 + VIAPATH_EPSILON)

\* One step of either direction: it does not stall, and ends only beyond the bound.
AlternativeRoutingStep(mine, other, mine_next, direction) ==
    \E top \in Minima(mine) :
      LET rest == (mine \ {top}) \cup {[top EXCEPT !.removed = TRUE]}
          ub == Bound(other, top, upper_bound)
          too_far == /\ upper_bound # INVALID_EDGE_WEIGHT
                     /\ Scaled(top.weight + min_edge_offset) > upper_bound
          edge == <<top.parent, top.node>>
          met == [alternatives EXCEPT !.via_node_candidate_list =
                                        IF WasInserted(other, top.node) THEN @ \cup {top.node} ELSE @]
      IN IF too_far
         THEN mine_next = DeleteAll(rest) /\ UNCHANGED <<upper_bound, middle, alternatives>>
         ELSE /\ mine_next = Relaxed(rest, top, direction)
              /\ upper_bound' = ub
              /\ middle' = IF ub # upper_bound THEN top.node ELSE middle
              /\ alternatives' = IF direction = "forward"
                                 THEN [met EXCEPT !.forward_search_space = Append(@, edge)]
                                 ELSE [met EXCEPT !.reverse_search_space = Append(@, edge)]

AlternativeTurn(direction, mine, other) ==
    LET next == Turn(direction, mine, other)
    IN IF next = "done" THEN "done" ELSE IF next = "forward" THEN "alt forward" ELSE "alt reverse"

AlternativeStepForward ==
    /\ turn = "alt forward"
    /\ AlternativeRoutingStep(forward_heap, reverse_heap, forward_heap', "forward")
    /\ turn' = AlternativeTurn("forward", forward_heap', reverse_heap)
    /\ UNCHANGED <<query_graph, request, journey, leg, reverse_heap, min_edge_offset>>

AlternativeStepReverse ==
    /\ turn = "alt reverse"
    /\ AlternativeRoutingStep(reverse_heap, forward_heap, reverse_heap', "reverse")
    /\ turn' = AlternativeTurn("reverse", reverse_heap', forward_heap)
    /\ UNCHANGED <<query_graph, request, journey, leg, forward_heap, min_edge_offset>>

-----------------------------------------------------------------------------
(* Choice of candidates *)

Key(heap, node) == Entry(heap, node).weight

\* Shared length at the nodes of a search space, inherited from the parent off the path;
\* the first value of a node stays.
ApproximatedSharing(search_space, heap, nodes_in_path) ==
    LET sweep(known, edge) ==
          IF edge[2] \in DOMAIN known THEN known
          ELSE IF edge[2] \in nodes_in_path
          THEN [n \in DOMAIN known \cup {edge[2]} |-> IF n = edge[2] THEN Key(heap, n) ELSE known[n]]
          ELSE IF edge[1] \in DOMAIN known
          THEN [n \in DOMAIN known \cup {edge[2]} |-> known[IF n = edge[2] THEN edge[1] ELSE n]]
          ELSE known
    IN FoldLeft(sweep, [n \in {} |-> 0], search_space)

\* Candidates whose approximated length, sharing and stretch pass.
Preselected ==
    LET path == Range(PackedPath)
        forward == ApproximatedSharing(alternatives.forward_search_space, forward_heap, path)
        reverse == ApproximatedSharing(alternatives.reverse_search_space, reverse_heap, path)
        at(known, node) == IF node \in DOMAIN known THEN known[node] ELSE 0
        sharing(node) == at(forward, node) + at(reverse, node)
        length(node) == Key(forward_heap, node) + Key(reverse_heap, node)
    IN {node \in alternatives.via_node_candidate_list :
          /\ 100 * length(node) < (100 + VIAPATH_EPSILON) * upper_bound
          /\ 100 * sharing(node) <= VIAPATH_GAMMA * upper_bound
          /\ 100 * (length(node) - sharing(node)) < (100 + VIAPATH_ALPHA) * (upper_bound - sharing(node))}

\* The state of a loop after so many turns.
Loop(Turned(_), first, turns) ==
    FoldLeft(LAMBDA state, i : Turned(state), first, [i \in 1 .. turns |-> i])

GetNumberOfNodes == Cardinality(DOMAIN query_graph)

\* A search from one node against the other heap; of entries with equal keys any fixed one
\* comes first.  Every turn settles a node.
HalfSearch(heap, other, direction) ==
    LET Settling(state) ==
          LET top == CHOOSE h \in Minima(state.heap) : TRUE
              ub == Bound(other, top, state.upper_bound)
          IN  IF Open(state.heap) = {} THEN state
              ELSE [heap |-> HeapAfter(state.heap, top, direction, ub, min_edge_offset),
                    middle |-> IF ub # state.upper_bound THEN top.node ELSE state.middle,
                    upper_bound |-> ub]
    IN Loop(Settling, [heap |-> heap, middle |-> SPECIAL_NODEID, upper_bound |-> INVALID_EDGE_WEIGHT],
            GetNumberOfNodes)

\* The ways to and from a via node: from s with the existing forward heap, to t with the
\* existing reverse heap.
ViaSearches(via) ==
    LET start == {HeapNode(via, 0, via)}
    IN [s_v |-> HalfSearch(start, forward_heap, "reverse"),
        v_t |-> HalfSearch(start, reverse_heap, "forward")]

s_v_path(ways) == PackedPathOf(forward_heap, ways.s_v.heap, ways.s_v.middle)
v_t_path(ways) == PackedPathOf(ways.v_t.heap, reverse_heap, ways.v_t.middle)

BothFound(ways) == SPECIAL_NODEID \notin {ways.s_v.middle, ways.v_t.middle}

\* int arithmetic, as INVALID_EDGE_WEIGHT is the largest int.
Wrapped(x) == ((x + INVALID_EDGE_WEIGHT + 1) % (2 * (INVALID_EDGE_WEIGHT + 1))) - INVALID_EDGE_WEIGHT - 1

\* Mutant of RealLength: the way to the target is forgotten.
HalfLength(ways) == ways.s_v.upper_bound

RealLength(ways) == Wrapped(ways.s_v.upper_bound + ways.v_t.upper_bound)

-----------------------------------------------------------------------------
(* Sharing of a via path *)

\* The edge that stands for a pair of nodes of a packed path.
EdgeBetween(u, v) == FindEdgeInEitherDirection(query_graph, u, v)
Length(u, v) == EdgeBetween(u, v).distance

\* UnpackEdge: nodes of the original path.
UnpackedNodes(u, v) == LET path == UnpackEdge(u, v) IN <<u>> \o [i \in DOMAIN path |-> path[i].to]

\* Common edges from the start of two packed paths, up to the first pair of edges that
\* share only their start, which are unpacked.
CommonEdges(a, b, unpack(_, _)) ==
    LET step(state, i) ==
          IF state.stop THEN state
          ELSE IF a[i] = b[i] /\ a[i + 1] = b[i + 1]
          THEN [state EXCEPT !.sharing = @ + Length(a[i], a[i + 1])]
          ELSE IF a[i] = b[i]
          THEN [state EXCEPT !.stop = TRUE, !.unpacked_a = unpack(a[i], a[i + 1]),
                             !.unpacked_b = unpack(b[i], b[i + 1])]
          ELSE state
    IN FoldLeft(step, [stop |-> FALSE, sharing |-> 0, unpacked_a |-> <<>>, unpacked_b |-> <<>>],
                [i \in 1 .. Min({Len(a), Len(b)}) - 1 |-> i])

\* Length of the common prefix of two unpacked paths.
CommonPrefix(a, b) ==
    LET common == {k \in 1 .. Min({Len(a), Len(b)}) - 1 : \A i \in 1 .. k + 1 : a[i] = b[i]}
    IN MapThenSumSet(LAMBDA k : Length(a[k], a[k + 1]), common)

\* ComputeLengthAndSharingOfViaPath: from the end the same is done on the reversed paths;
\* what it unpacks is appended to what was unpacked before.
SharingOfViaPath(ways) ==
    LET shortest == PackedPath
        first == CommonEdges(s_v_path(ways), shortest, UnpackedNodes)
        second == CommonEdges(Reverse(v_t_path(ways)), Reverse(shortest), LAMBDA v, u : UnpackedNodes(u, v))
        unpacked_via == first.unpacked_a \o second.unpacked_a
        unpacked_shortest == first.unpacked_b \o second.unpacked_b
    IN IF ~BothFound(ways) THEN 0
       ELSE first.sharing + CommonPrefix(first.unpacked_a, first.unpacked_b)
            + second.sharing + CommonPrefix(Reverse(unpacked_via), Reverse(unpacked_shortest))
-----------------------------------------------------------------------------
(* The T-test *)

\* An edge is unpacked until a distance of T from the via node is reached: the edge near
\* the via node is unpacked further, or left behind in favour of the far one.  Shortcuts
\* are nested no deeper than there are nodes.
UnpackUntil(u, v, until, T, back) ==
    LET Unpacking(state) ==
          LET a == state.edge[1]
              b == state.edge[2]
              e == EdgeBetween(a, b)
              near == IF back THEN <<e.id, b>> ELSE <<a, e.id>>
              far == IF back THEN <<a, e.id>> ELSE <<e.id, b>>
              length == Length(near[1], near[2])
          IN  IF state.stop THEN state
              ELSE IF ~e.shortcut
              THEN [state EXCEPT !.until = @ + e.distance, !.point = IF back THEN a ELSE b, !.stop = TRUE]
              ELSE IF state.until + length >= T THEN [state EXCEPT !.edge = near]
              ELSE [state EXCEPT !.edge = far, !.until = @ + length]
    IN Loop(Unpacking, [edge |-> <<u, v>>, until |-> until, point |-> u, stop |-> FALSE], GetNumberOfNodes)

\* The end of the test on one side of the via node and its distance along the path,
\* whose edges are listed from the via node on.
TestPoint(path_edges, via, T, back) ==
    LET step(state, edge) ==
          LET length == Length(edge[1], edge[2])
          IN IF state.stop THEN state
             ELSE IF length + state.until >= T THEN UnpackUntil(edge[1], edge[2], state.until, T, back)
             ELSE [state EXCEPT !.until = @ + length, !.point = IF back THEN edge[1] ELSE edge[2]]
    IN FoldLeft(step, [until |-> 0, point |-> via, stop |-> FALSE], path_edges)

\* The bound with which a search in both directions between two nodes ends.
SearchBound(source, target) ==
    LET Settling(state) ==
          LET dir == state.direction
              mine == IF dir = "forward" THEN state.forward ELSE state.reverse
              other == IF dir = "forward" THEN state.reverse ELSE state.forward
              top == CHOOSE h \in Minima(mine) : TRUE
              ub == Bound(other, top, state.upper_bound)
              next == HeapAfter(mine, top, dir, ub, min_edge_offset)
          IN  IF dir = "done" THEN state
              ELSE [forward |-> IF dir = "forward" THEN next ELSE other,
                    reverse |-> IF dir = "forward" THEN other ELSE next,
                    direction |-> Turn(dir, next, other), upper_bound |-> ub]
    IN Loop(Settling,
            [forward |-> {HeapNode(source, 0, source)}, reverse |-> {HeapNode(target, 0, target)},
             direction |-> "forward", upper_bound |-> INVALID_EDGE_WEIGHT],
            2 * GetNumberOfNodes).upper_bound

\* The points before and after the via node, and the length of the path between them.
TestPath(ways) ==
    LET T == (VIAPATH_EPSILON * upper_bound) \div 100
        to == s_v_path(ways)
        from == v_t_path(ways)
        s == TestPoint([i \in 1 .. Len(to) - 1 |-> <<to[Len(to) - i], to[Len(to) - i + 1]>>], ways.s_v.middle, T, TRUE)
        t == TestPoint([i \in 1 .. Len(from) - 1 |-> <<from[i], from[i + 1]>>], ways.v_t.middle, T, FALSE)
    IN [s_P |-> s.point, t_P |-> t.point, length |-> s.until + t.until]

ViaNodeCandidatePassesTTest(ways) ==
    /\ INVALID_EDGE_WEIGHT \notin {ways.s_v.upper_bound, ways.v_t.upper_bound}
    /\ LET test == TestPath(ways)
       IN SearchBound(test.s_P, test.t_P) <= test.length

-----------------------------------------------------------------------------
RetrievePackedAlternatePath(ways) == Front(s_v_path(ways)) \o v_t_path(ways)

\* Real length and sharing are inspected, and the best candidate that passes the T-test is
\* the alternative.
SelectAlternative ==
    LET ways == [n \in Preselected |-> ViaSearches(n)]
        sharing(n) == SharingOfViaPath(ways[n])
        ranked == {n \in Preselected :
                     /\ sharing(n) <= (VIAPATH_GAMMA * upper_bound) \div 100
                     /\ 100 * RealLength(ways[n]) <= (100 + VIAPATH_EPSILON) * upper_bound}
        rank(n) == Wrapped(2 * RealLength(ways[n]) + sharing(n))
        admissible == {n \in ranked : ViaNodeCandidatePassesTTest(ways[n])}
    IN /\ turn = "done" /\ request.service = "alternative"
       /\ \/ upper_bound = INVALID_EDGE_WEIGHT /\ UNCHANGED alternatives
          \/ upper_bound # INVALID_EDGE_WEIGHT /\ admissible = {} /\ UNCHANGED alternatives
          \/ /\ upper_bound # INVALID_EDGE_WEIGHT
             /\ \E n \in admissible :
                  /\ \A m \in admissible : rank(n) <= rank(m)
                  /\ alternatives' = [alternatives EXCEPT !.packed = RetrievePackedAlternatePath(ways[n]),
                                                          !.length = RealLength(ways[n])]
       /\ turn' = "answered"
       /\ UNCHANGED <<query_graph, request, journey, leg, forward_heap, reverse_heap, middle, upper_bound, min_edge_offset>>
=============================================================================
