------------------------------ MODULE CHQuery -------------------------------
(***************************************************************************)
(* A point-to-point query on a contraction hierarchy                       *)
(* (RoutingAlgorithms/BasicRoutingInterface.h, and the loop around it): a  *)
(* forward search from the source nodes and a reverse search from the      *)
(* target nodes take turns, stall, and stop at the upper bound; the path   *)
(* of packed nodes is read off the heaps and unpacked.                     *)
(*                                                                         *)
(* Sources and targets are sets of [node, offset]: the offset is the part  *)
(* of the node's weight that lies before the location.                     *)
(* The heaps are the sets of their entries; entries that DeleteMin or      *)
(* DeleteAll took out stay, as removed (key 0 in the code).                *)
(***************************************************************************)
EXTENDS Integers, SequencesExt, FiniteSetsExt, StaticGraph

CONSTANTS
    INVALID_EDGE_WEIGHT,
    SPECIAL_NODEID

VARIABLES
    query_graph,            \* edges of the hierarchy at each node
    leg,                    \* the search: [source, target]
    forward_heap, reverse_heap,
    middle, upper_bound,    \* best meeting node so far and its distance
    min_edge_offset,
    turn                    \* "forward", "reverse", "done"; other values between searches

-----------------------------------------------------------------------------
(* The heap *)
HeapNode(node, weight, parent) ==
    [node |-> node, weight |-> weight, parent |-> parent, removed |-> FALSE]

WasInserted(heap, node) == \E h \in heap : h.node = node
Entry(heap, node) == CHOOSE h \in heap : h.node = node
Open(heap) == {h \in heap : ~h.removed}
Minima(heap) == {h \in Open(heap) : \A g \in Open(heap) : h.weight <= g.weight}
DeleteAll(heap) == {[h EXCEPT !.removed = TRUE] : h \in heap}

-----------------------------------------------------------------------------
(* RoutingStep *)
Adjacent(node) == query_graph[node]
Usable(e, direction) == IF direction = "forward" THEN e.forward ELSE e.backward
UsableReversed(e, direction) == IF direction = "forward" THEN e.backward ELSE e.forward

\* A node of higher rank already offers a shorter way to this node.
Stalled(heap, top, direction) ==
    \E e \in Adjacent(top.node) :
      /\ UsableReversed(e, direction) /\ WasInserted(heap, e.target)
      /\ Entry(heap, e.target).weight + e.distance < top.weight

\* Mutant: the parent is not updated together with the weight.
RelaxedKeepingParent(heap, top, direction) ==
    LET out == {e \in Adjacent(top.node) : Usable(e, direction)}
        To(v) == {top.weight + e.distance : e \in {f \in out : f.target = v}}
    IN  {[h EXCEPT !.weight = Min({@} \cup To(h.node))] : h \in heap}
        \cup {HeapNode(v, Min(To(v)), top.node) :
                v \in {e.target : e \in {f \in out : ~WasInserted(heap, f.target)}}}

Relaxed(heap, top, direction) ==
    LET out == {e \in Adjacent(top.node) : Usable(e, direction)}
        To(v) == {top.weight + e.distance : e \in {f \in out : f.target = v}}
        Shorter(h) == \E w \in To(h.node) : w < h.weight
    IN  {IF Shorter(h) THEN [h EXCEPT !.weight = Min(To(h.node)), !.parent = top.node] ELSE h :
           h \in heap}
        \cup {HeapNode(v, Min(To(v)), top.node) :
                v \in {e.target : e \in {f \in out : ~WasInserted(heap, f.target)}}}

\* The heap of the searching direction after top was settled with bound ub.
HeapAfter(heap, top, direction, ub, offset) ==
    LET rest == (heap \ {top}) \cup {[top EXCEPT !.removed = TRUE]}
    IN  IF top.weight + offset > ub THEN DeleteAll(rest)
        ELSE IF Stalled(rest, top, direction) THEN rest
        ELSE Relaxed(rest, top, direction)

\* Mutant: the last meeting counts, not the best one.
LastMeeting(other, top, ub) ==
    IF WasInserted(other, top.node)
    THEN Entry(other, top.node).weight + top.weight
    ELSE ub

\* The upper bound ub after top met the other search; negative sums are discarded.
Bound(other, top, ub) ==
    LET new_distance == Entry(other, top.node).weight + top.weight
    IN  IF WasInserted(other, top.node) /\ new_distance < ub /\ new_distance >= 0
        THEN new_distance ELSE ub

\* After a step the other direction goes on if it can.
Turn(direction, mine, other) ==
    IF Open(other) # {} THEN (IF direction = "forward" THEN "reverse" ELSE "forward")
    ELSE IF Open(mine) # {} THEN direction ELSE "done"

RoutingStepForward ==
    /\ turn = "forward"
    /\ \E top \in Minima(forward_heap) :
         LET ub == Bound(reverse_heap, top, upper_bound) IN
         /\ upper_bound' = ub
         /\ middle' = IF ub # upper_bound THEN top.node ELSE middle
         /\ forward_heap' = HeapAfter(forward_heap, top, "forward", ub, min_edge_offset)
    /\ turn' = Turn("forward", forward_heap', reverse_heap)
    /\ UNCHANGED <<query_graph, leg, reverse_heap, min_edge_offset>>

RoutingStepReverse ==
    /\ turn = "reverse"
    /\ \E top \in Minima(reverse_heap) :
         LET ub == Bound(forward_heap, top, upper_bound) IN
         /\ upper_bound' = ub
         /\ middle' = IF ub # upper_bound THEN top.node ELSE middle
         /\ reverse_heap' = HeapAfter(reverse_heap, top, "reverse", ub, min_edge_offset)
    /\ turn' = Turn("reverse", reverse_heap', forward_heap)
    /\ UNCHANGED <<query_graph, leg, forward_heap, min_edge_offset>>

\* The heaps are cleared and filled for a search.
FillHeaps(l) ==
    /\ leg' = l
    /\ forward_heap' = {HeapNode(p.node, -p.offset, p.node) : p \in l.source}
    /\ reverse_heap' = {HeapNode(p.node, p.offset, p.node) : p \in l.target}
    /\ min_edge_offset' = Min({0} \cup {-p.offset : p \in l.source})
    /\ middle' = SPECIAL_NODEID
    /\ upper_bound' = INVALID_EDGE_WEIGHT

\* Where the loop over both heaps begins.
FirstTurn(l) ==
    IF l.source # {} THEN "forward" ELSE IF l.target # {} THEN "reverse" ELSE "done"

SearchInit ==
    /\ leg = [source |-> {}, target |-> {}]
    /\ forward_heap = {} /\ reverse_heap = {}
    /\ middle = SPECIAL_NODEID /\ upper_bound = INVALID_EDGE_WEIGHT
    /\ min_edge_offset = 0
    /\ turn = "none"

-----------------------------------------------------------------------------
(* Path retrieval *)

\* RetrievePackedPathFromSingleHeap: ancestors of a node, nearest first.
Ancestors(heap, node) ==
    LET Climbed(path) ==
          LET parent == Entry(heap, Last(path)).parent
          IN  IF parent = Last(path) THEN path ELSE Append(path, parent)
        climb[n \in 0 .. Cardinality(heap)] ==
          IF n = 0 THEN {<<node>>} ELSE {Climbed(path) : path \in climb[n - 1]}
    IN  Tail(CHOOSE path \in climb[Cardinality(heap)] : TRUE)

\* RetrievePackedPathFromHeap
PackedPathOf(forward, reverse, via) ==
    Reverse(Ancestors(forward, via)) \o <<via>> \o Ancestors(reverse, via)
PackedPath == PackedPathOf(forward_heap, reverse_heap, middle)

\* The edges among which UnpackPath picks one of least weight.
Candidates(u, v) ==
    LET at_first == {e \in Adjacent(u) : e.target = v /\ e.forward}
        at_second == {e \in Adjacent(v) : e.target = u /\ e.backward}
    IN  IF at_first # {} THEN at_first ELSE at_second

SmallestEdge(u, v) == CHOOSE e \in Candidates(u, v) :
                        \A f \in Candidates(u, v) : e.distance <= f.distance

\* Original edges that the packed edge (u, v) stands for.  Shortcuts are nested no deeper
\* than there are nodes.
UnpackEdge(u, v) ==
    LET nodes == DOMAIN query_graph
        unpacked[depth \in 0 .. Cardinality(nodes)] ==
          IF depth = 0 THEN [p \in nodes \X nodes |-> <<>>]
          ELSE [p \in nodes \X nodes |->
                  LET e == SmallestEdge(p[1], p[2])
                  IN  IF e.shortcut
                      THEN unpacked[depth - 1][<<p[1], e.id>>] \o unpacked[depth - 1][<<e.id, p[2]>>]
                      ELSE <<[from |-> p[1], to |-> p[2], weight |-> e.distance]>>]
    IN  unpacked[Cardinality(nodes)][<<u, v>>]

UnpackPath(packed_path) ==
    FlattenSeq([i \in 1 .. Len(packed_path) - 1 |-> UnpackEdge(packed_path[i], packed_path[i + 1])])
=============================================================================
