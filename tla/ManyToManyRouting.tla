------------------------- MODULE ManyToManyRouting --------------------------
(***************************************************************************)
(* RoutingAlgorithms/ManyToManyRouting.h: the table of distances between   *)
(* all locations.  Searches from the targets leave their distance in a     *)
(* bucket of every node they settle; searches from the sources read them.  *)
(***************************************************************************)
EXTENDS ShortestPathRouting

VARIABLE
    table   \* [location, search_space_with_buckets, result_table]

NoTable == [location |-> 0, search_space_with_buckets |-> {}, result_table |-> <<>>]

\* Heap entries of a location, as a target or as a source.
Entries(phantom, sign) ==
    {HeapNode(p.node, sign * p.offset, p.node) :
       p \in Existing(phantom.forward, phantom.forward_offset) \cup Existing(phantom.reverse, phantom.reverse_offset)}

StartTable ==
    LET n == Len(request.phantoms)
    IN /\ turn = "idle" /\ request.service = "table"
       /\ table' = [location |-> 1, search_space_with_buckets |-> {},
                    result_table |-> [i \in 1 .. n |-> [j \in 1 .. n |-> INVALID_EDGE_WEIGHT]]]
       /\ forward_heap' = Entries(request.phantoms[1], 1)
       /\ turn' = "backward step"
       /\ UNCHANGED <<query_graph, request, journey, leg, reverse_heap, middle, upper_bound, min_edge_offset>>

\* Mutant of Settled: the minimum is looked at and stays in the heap.
SettledPeek(top, direction) ==
    IF Stalled(forward_heap, top, direction) THEN forward_heap ELSE Relaxed(forward_heap, top, direction)

\* The node is settled; its edges are relaxed unless it stalls.
Settled(top, direction) ==
    LET rest == (forward_heap \ {top}) \cup {[top EXCEPT !.removed = TRUE]}
    IN IF Stalled(rest, top, direction) THEN rest ELSE Relaxed(rest, top, direction)

BackwardRoutingStep ==
    /\ turn = "backward step"
    /\ \E top \in Minima(forward_heap) :
         /\ forward_heap' = Settled(top, "reverse")
         /\ table' = [table EXCEPT !.search_space_with_buckets =
                                     @ \cup {[node |-> top.node, target_id |-> table.location, distance |-> top.weight]}]
    /\ UNCHANGED <<query_graph, request, journey, leg, reverse_heap, middle, upper_bound, min_edge_offset, turn>>

\* Mutant of Entered: the last bucket counts.
EnteredLast(row, buckets, distance) ==
    [j \in DOMAIN row |->
       LET sums == {b.distance + distance : b \in {c \in buckets : c.target_id = j}}
       IN IF sums = {} THEN row[j] ELSE Max(sums)]

\* The row of a source after a bucket list was read; negative sums are discarded.
Entered(row, buckets, distance) ==
    [j \in DOMAIN row |->
       Min({row[j]} \cup {d \in {b.distance + distance : b \in {c \in buckets : c.target_id = j}} : d >= 0})]

ForwardRoutingStep ==
    /\ turn = "forward step"
    /\ \E top \in Minima(forward_heap) :
         /\ forward_heap' = Settled(top, "forward")
         /\ table' = [table EXCEPT !.result_table[table.location] =
                        Entered(@, {b \in table.search_space_with_buckets : b.node = top.node}, top.weight)]
    /\ UNCHANGED <<query_graph, request, journey, leg, reverse_heap, middle, upper_bound, min_edge_offset, turn>>

\* The heap is empty: the next target, the first source, the next source, or the answer.
NextLocation ==
    LET n == Len(request.phantoms)
        last == table.location = n
        next == IF last THEN 1 ELSE table.location + 1
        backward == turn = "backward step"
    IN /\ turn \in {"backward step", "forward step"}
       /\ Open(forward_heap) = {}
       /\ table' = [table EXCEPT !.location = next]
       /\ forward_heap' = Entries(request.phantoms[next], IF backward /\ ~last THEN 1 ELSE -1)
       /\ turn' = IF backward /\ ~last THEN "backward step"
                  ELSE IF backward \/ ~last THEN "forward step" ELSE "answered"
       /\ UNCHANGED <<query_graph, request, journey, leg, reverse_heap, middle, upper_bound, min_edge_offset>>
=============================================================================
