------------------------- MODULE GeometryCompressor -------------------------
(***************************************************************************)
(* Nodes removed from edges (Contractor/GeometryCompressor.cpp).  The      *)
(* bucket of an edge lists the nodes after its source, with the weight of  *)
(* the segment that leads to each; buckets of vanished edges are reused.   *)
(***************************************************************************)
EXTENDS Integers, SequencesExt

CONSTANT FreeListChunk      \* buckets added at a time (100)
ASSUME FreeListChunkAssumption == FreeListChunk \in Nat \ {0}

\* Bucket numbers count from 0 in the code and from 1 here.
IncreaseFreeList(c) ==
    LET size == Len(c.compressed_geometries)
    IN [c EXCEPT !.compressed_geometries = @ \o [i \in 1 .. FreeListChunk |-> <<>>],
                 !.free_list = @ \o [i \in 1 .. FreeListChunk |-> size + i]]

EmptyCompressor ==
    IncreaseFreeList([compressed_geometries |-> <<>>, free_list |-> <<>>, index_map |-> <<>>])

HasEntryForID(c, edge_id) == edge_id \in DOMAIN c.index_map
GetPositionForID(c, edge_id) == c.index_map[edge_id]
GetBucketReference(c, edge_id) == c.compressed_geometries[c.index_map[edge_id]]

\* Node 1 of the bucket in the code's count from 0.
GetFirstNodeIDOfBucket(c, edge_id) == GetBucketReference(c, edge_id)[2].node
GetLastNodeIDOfBucket(c, edge_id) ==
    LET bucket == GetBucketReference(c, edge_id) IN bucket[Len(bucket) - 1].node

\* A bucket for edge_id, the last one of the free list, unless it has one.
WithEntry(c, edge_id) ==
    LET d == IF c.free_list = <<>> THEN IncreaseFreeList(c) ELSE c
        last == Len(d.free_list)
    IN IF HasEntryForID(c, edge_id) THEN c
       ELSE [d EXCEPT !.free_list = SubSeq(@, 1, last - 1),
                      !.index_map = [e \in DOMAIN @ \cup {edge_id} |->
                                       IF e = edge_id THEN d.free_list[last] ELSE @[e]]]

\* Mutant: the via node is forgotten when the second edge has a bucket of its own.
CompressEdgeDroppingVia(c, edge_id_1, edge_id_2, via_node_id, target_node_id, weight1, weight2) ==
    LET d == WithEntry(c, edge_id_1)
        bucket1 == GetBucketReference(d, edge_id_1)
        start == IF bucket1 = <<>> THEN <<[node |-> via_node_id, weight |-> weight1]>> ELSE bucket1
    IN IF HasEntryForID(d, edge_id_2)
       THEN [d EXCEPT !.compressed_geometries[d.index_map[edge_id_1]] =
                        bucket1 \o GetBucketReference(d, edge_id_2),
                      !.index_map = Restrict(@, DOMAIN @ \ {edge_id_2})]
       ELSE [d EXCEPT !.compressed_geometries[d.index_map[edge_id_1]] =
                        Append(start, [node |-> target_node_id, weight |-> weight2])]

\* The bucket of the first edge (its via node when it was empty) goes on with the
\* bucket of the second edge, which becomes free, or with the target node.
CompressEdge(c, edge_id_1, edge_id_2, via_node_id, target_node_id, weight1, weight2) ==
    LET d == WithEntry(c, edge_id_1)
        bucket1 == GetBucketReference(d, edge_id_1)
        start == IF bucket1 = <<>> THEN <<[node |-> via_node_id, weight |-> weight1]>> ELSE bucket1
        index2 == d.index_map[edge_id_2]
    IN IF HasEntryForID(d, edge_id_2)
       THEN [compressed_geometries |->
               [d.compressed_geometries EXCEPT
                  ![d.index_map[edge_id_1]] = start \o d.compressed_geometries[index2],
                  ![index2] = <<>>],
             index_map |-> Restrict(d.index_map, DOMAIN d.index_map \ {edge_id_2}),
             free_list |-> Append(d.free_list, index2)]
       ELSE [d EXCEPT !.compressed_geometries[d.index_map[edge_id_1]] =
                        Append(start, [node |-> target_node_id, weight |-> weight2])]

\* Mutant: the prefix sum is advanced before it is written.
SerializeAdvanced(c) ==
    LET g == c.compressed_geometries
        end[i \in 1 .. Len(g)] == IF i = 1 THEN Len(g[1]) ELSE end[i - 1] + Len(g[i])
    IN [indices |-> [i \in 1 .. Len(g) |-> end[i]],
        nodes |-> FlattenSeq([i \in DOMAIN g |-> [k \in DOMAIN g[i] |-> g[i][k].node]])]

\* The file: start of each bucket and a sentinel, then all nodes.
SerializeInternalVector(c) ==
    LET g == c.compressed_geometries
        start[i \in 1 .. Len(g) + 1] == IF i = 1 THEN 0 ELSE start[i - 1] + Len(g[i - 1])
    IN [indices |-> [i \in 1 .. Len(g) + 1 |-> start[i]],
        nodes |-> FlattenSeq([i \in DOMAIN g |-> [k \in DOMAIN g[i] |-> g[i][k].node]])]
=============================================================================
