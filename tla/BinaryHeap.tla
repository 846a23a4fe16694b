----------------------------- MODULE BinaryHeap -----------------------------
(***************************************************************************)
(* The addressable binary heap of all searches (DataStructures/BinaryHeap.h) *)
(* with its kinds of index storage: an array that Clear() leaves as it is  *)
(* (ArrayStorage), a map that Clear() empties (MapStorage,                 *)
(* UnorderedMapStorage) and the hash table of XORFastHashStorage.          *)
(* Positions and indices are those of the code plus one where a sequence   *)
(* needs it; heap[0], the sentinel below every weight, is not stored.      *)
(***************************************************************************)
EXTENDS XORFastHashStorage, Sequences, FiniteSets

CONSTANTS
    NodeIDs, Weights,
    HashedNodes     \* bound: the nodes used with the hash table

ASSUME NodesAssumption ==
    /\ HashedNodes \subseteq NodeIDs /\ fast_hasher \in [HashedNodes -> 0 .. TableSize - 1]
    /\ Weights \subseteq Int

VARIABLES
    heap,           \* heap[1 ..] of the code: [index, weight]
    inserted_nodes, \* [node, key, weight] in the order of insertion
    storage,        \* "array", "map" or "hash"
    node_index,     \* the storage: node -> index of its entry
    result          \* node returned by the last operation, if it was DeleteMin

vars == <<heap, inserted_nodes, storage, node_index, result>>

At(index) == inserted_nodes[index + 1]

Hashed == storage = "hash"
Nodes == IF Hashed THEN HashedNodes ELSE NodeIDs

\* Looking the node up returns; what it finds, and what it leaves.
Found(node) == Hashed => Returns(node_index, node)
Index(node) == IF Hashed THEN KeyOf(node_index, node) ELSE node_index[node]
IndexLookedUp(node) == IF Hashed THEN LookedUp(node_index, node) ELSE node_index
IndexAssigned(node, index) ==
    IF Hashed THEN Assigned(node_index, node, index) ELSE [node_index EXCEPT ![node] = index]

WasInserted(node) ==
    /\ Index(node) < Len(inserted_nodes)
    /\ At(Index(node)).node = node

WasRemoved(node) == At(Index(node)).key = 0
GetKey(node) == At(Index(node)).weight

-----------------------------------------------------------------------------
\* Both loops move elements into the hole at key until element fits there, and
\* keep the key of every moved element's node up to date.
Moved(s, from) ==
    [heap |-> [s.heap EXCEPT ![s.key] = s.heap[from]],
     nodes |-> [s.nodes EXCEPT ![s.heap[from].index + 1].key = s.key],
     key |-> from]

\* After the loop element takes the hole.
Placed(s, element) ==
    [heap |-> [s.heap EXCEPT ![s.key] = element],
     nodes |-> [s.nodes EXCEPT ![element.index + 1].key = s.key]]

\* One turn of the loop of Upheap; without a parent of greater weight it has ended.
UpheapTurn(s, element) ==
    LET nextKey == s.key \div 2
    IN  IF nextKey > 0 /\ s.heap[nextKey].weight > element.weight THEN Moved(s, nextKey) ELSE s

\* The loop makes fewer turns than its first key says.
Upheap(h, nodes, key, element) ==
    LET turn[i \in 0 .. key] == IF i = 0 THEN [heap |-> h, nodes |-> nodes, key |-> key]
                                ELSE UpheapTurn(turn[i - 1], element)
    IN  Placed(turn[key], element)

\* Mutant: the right child is never considered.
DownheapTurnLeft(s, element) ==
    LET child == 2 * s.key
    IN  IF child <= Len(s.heap) /\ element.weight > s.heap[child].weight
        THEN Moved(s, child) ELSE s

\* One turn of the loop of Downheap: the smaller child, if it is smaller than element.
DownheapTurn(s, element) ==
    LET left == 2 * s.key
        child == IF left + 1 <= Len(s.heap) /\ s.heap[left].weight > s.heap[left + 1].weight
                 THEN left + 1 ELSE left
    IN  IF child <= Len(s.heap) /\ element.weight > s.heap[child].weight
        THEN Moved(s, child) ELSE s

Downheap(h, nodes, key, element) ==
    LET turn[i \in 0 .. Len(h)] == IF i = 0 THEN [heap |-> h, nodes |-> nodes, key |-> key]
                                   ELSE DownheapTurn(turn[i - 1], element)
    IN  Placed(turn[Len(h)], element)

-----------------------------------------------------------------------------
Clear ==
    /\ heap' = <<>> /\ inserted_nodes' = <<>>
    /\ node_index' = CASE storage = "array" -> node_index
                       [] storage = "map" -> [n \in NodeIDs |-> 0]
                       [] Hashed -> ClearedStorage(node_index)
    /\ result' = {}
    /\ UNCHANGED storage

\* A client asks for a node, as all do before they insert it.
LookUp(node) ==
    /\ Found(node)
    /\ node_index' = IndexLookedUp(node)
    /\ UNCHANGED <<heap, inserted_nodes, storage, result>>

\* Clients insert nodes that WasInserted denies.
Insert(node, weight) ==
    /\ Found(node) /\ ~WasInserted(node)
    /\ LET element == [index |-> Len(inserted_nodes), weight |-> weight]
           key == Len(heap) + 1
           after == Upheap(Append(heap, element),
                           Append(inserted_nodes, [node |-> node, key |-> key, weight |-> weight]),
                           key, element)
       IN  heap' = after.heap /\ inserted_nodes' = after.nodes
    /\ node_index' = IndexAssigned(node, Len(inserted_nodes))
    /\ result' = {}
    /\ UNCHANGED storage

DeleteMin ==
    /\ heap # <<>>
    /\ LET removedIndex == heap[1].index
           last == heap[Len(heap)]
           h == SubSeq([heap EXCEPT ![1] = last], 1, Len(heap) - 1)
           after == IF h = <<>> THEN [heap |-> h, nodes |-> inserted_nodes]
                    ELSE Downheap(h, inserted_nodes, 1, last)
       IN  /\ heap' = after.heap
           /\ inserted_nodes' = [after.nodes EXCEPT ![removedIndex + 1].key = 0]
           /\ result' = {At(removedIndex).node}
    /\ UNCHANGED <<node_index, storage>>

DeleteAll ==
    /\ inserted_nodes' = [i \in DOMAIN inserted_nodes |->
         IF \E k \in DOMAIN heap : heap[k].index + 1 = i
         THEN [inserted_nodes[i] EXCEPT !.key = 0] ELSE inserted_nodes[i]]
    /\ heap' = <<>>
    /\ result' = {}
    /\ UNCHANGED <<node_index, storage>>

\* Clients decrease weights of nodes that are in the heap: with positive edge
\* weights a settled node is never reached by a shorter path.
DecreaseKey(node, weight) ==
    /\ Found(node) /\ WasInserted(node) /\ ~WasRemoved(node) /\ weight < GetKey(node)
    /\ LET index == Index(node)
           key == At(index).key
           element == [heap[key] EXCEPT !.weight = weight]
           after == Upheap([heap EXCEPT ![key] = element],
                           [inserted_nodes EXCEPT ![index + 1].weight = weight], key, element)
       IN  heap' = after.heap /\ inserted_nodes' = after.nodes
    /\ result' = {}
    /\ UNCHANGED <<node_index, storage>>

Init ==
    /\ heap = <<>> /\ inserted_nodes = <<>>
    /\ storage \in {"array", "map", "hash"}
    /\ node_index = IF Hashed THEN ClearedStorage(EmptyStorage) ELSE [n \in NodeIDs |-> 0]
    /\ result = {}

Next ==
    \/ Clear \/ DeleteMin \/ DeleteAll
    \/ \E n \in Nodes : LookUp(n)
    \/ \E n \in Nodes, w \in Weights : Insert(n, w) \/ DecreaseKey(n, w)

Spec == Init /\ [][Next]_vars

-----------------------------------------------------------------------------
\* The heap implements the priority queue, with the handles, weights and removal
\* marks that WasInserted, GetKey and WasRemoved report; a stale index left in an
\* array storage or in a cell of the hash table is never taken for an insertion.
inserted == {n \in Nodes : Found(n) /\ WasInserted(n)}
Abstract == INSTANCE PriorityQueue WITH
    entries <- [n \in inserted |-> [weight |-> GetKey(n), removed |-> WasRemoved(n)]]
ImplementsQueue == Abstract!Spec
=============================================================================
