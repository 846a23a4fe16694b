--------------------------- MODULE RestrictionMap ---------------------------
(***************************************************************************)
(* Turn restrictions by the edge they start on                             *)
(* (DataStructures/RestrictionMap.cpp).  A source is <<start, via>>; its   *)
(* bucket lists targets, either one mandatory turn or forbidden ones.      *)
(***************************************************************************)
EXTENDS DynamicGraph, SequencesExt, Functions

SPECIAL_NODEID == -1

IsViaNode(m, node) == node \in m.no_turn_via_node_set
IsSourceNode(m, node) == node \in m.restriction_start_nodes

EmptyMap == [count |-> 0, bucket_list |-> <<>>, restriction_map |-> <<>>,
             restriction_start_nodes |-> {}, no_turn_via_node_set |-> {}]

\* The bucket that belongs to an edge, empty when no restriction starts on it.
Bucket(m, u, v) ==
    IF IsSourceNode(m, u) /\ <<u, v>> \in DOMAIN m.restriction_map
    THEN m.bucket_list[m.restriction_map[<<u, v>>]]
    ELSE <<>>

\* One restriction enters the map: a mandatory turn replaces forbidden turns and
\* nothing is added to a mandatory turn.
Inserted(m, r) ==
    LET source == <<r.fromNode, r.viaNode>>
        target == [target_node |-> r.toNode, is_only |-> r.isOnly]
        known == source \in DOMAIN m.restriction_map
        index == IF known THEN m.restriction_map[source] ELSE Len(m.bucket_list) + 1
        old == IF known THEN m.bucket_list[index] ELSE <<>>
        new == IF old # <<>> /\ old[1].is_only THEN old
               ELSE IF r.isOnly THEN <<target>> ELSE Append(old, target)
    IN [count |-> m.count + Len(new) - Len(old),
        bucket_list |-> IF known THEN [m.bucket_list EXCEPT ![index] = new]
                        ELSE Append(m.bucket_list, new),
        restriction_map |-> IF known THEN m.restriction_map
                            ELSE [s \in DOMAIN m.restriction_map \cup {source} |->
                                    IF s = source THEN index ELSE m.restriction_map[s]],
        restriction_start_nodes |-> m.restriction_start_nodes \cup {r.fromNode},
        no_turn_via_node_set |-> m.no_turn_via_node_set \cup {r.viaNode}]

MapOf(restriction_list) == FoldLeft(Inserted, EmptyMap, restriction_list)

\* Mutant: turns into the edge (u, v) keep their old target.
KeepArriving(m, g, u, v, w) == m

\* Turns at u into the edge (u, v) now lead to w; the edges into u are found by its
\* adjacency.
FixupArrivingTurnRestriction(m, g, u, v, w) ==
    LET predecessors == {GetTarget(g, e) : e \in GetAdjacentEdgeRange(g, u)} \ {v}
        buckets == {m.restriction_map[s] : s \in {x \in DOMAIN m.restriction_map :
                                                    x[2] = u /\ x[1] \in predecessors}}
        moved(t) == IF t.target_node = v THEN [t EXCEPT !.target_node = w] ELSE t
    IN IF ~IsViaNode(m, u) THEN m
       ELSE [m EXCEPT !.bucket_list = [i \in DOMAIN @ |->
               IF i \in buckets THEN [k \in DOMAIN @[i] |-> moved(@[i][k])] ELSE @[i]]]

\* The start (v, w) becomes (u, w), unless there is one already: then its bucket is lost.
FixupStartingTurnRestriction(m, u, v, w) ==
    LET old == m.restriction_map
        sources == DOMAIN old \ {<<v, w>>}
    IN IF IsSourceNode(m, v) /\ <<v, w>> \in DOMAIN old
       THEN [m EXCEPT !.restriction_start_nodes = @ \cup {u},
                      !.restriction_map = [s \in sources \cup {<<u, w>>} |->
                                             IF s \in sources THEN old[s] ELSE old[<<v, w>>]]]
       ELSE m

CheckForEmanatingIsOnlyTurn(m, u, v) ==
    LET only == SelectSeq(Bucket(m, u, v), LAMBDA t : t.is_only)
    IN IF only = <<>> THEN SPECIAL_NODEID ELSE only[1].target_node

CheckIfTurnIsRestricted(m, u, v, w) ==
    \E i \in DOMAIN Bucket(m, u, v) :
      Bucket(m, u, v)[i] = [target_node |-> w, is_only |-> FALSE]
=============================================================================
