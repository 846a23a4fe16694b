--------------------------- MODULE PriorityQueue ----------------------------
(***************************************************************************)
(* What the searches expect of DataStructures/BinaryHeap.h: a map from the *)
(* nodes inserted since the last Clear to their weight, from which minimal *)
(* nodes are removed; a removed node keeps its weight.                     *)
(***************************************************************************)
EXTENDS Integers

CONSTANTS NodeIDs, Weights

VARIABLES
    entries,    \* node |-> [weight, removed]
    result      \* node that the last DeleteMin returned, or the empty set

Live == {n \in DOMAIN entries : ~entries[n].removed}

Clear ==
    /\ entries' = [n \in {} |-> 0]
    /\ result' = {}

Insert(n, w) ==
    /\ n \notin DOMAIN entries
    /\ entries' = [m \in DOMAIN entries \cup {n} |->
                     IF m = n THEN [weight |-> w, removed |-> FALSE] ELSE entries[m]]
    /\ result' = {}

DeleteMin(n) ==
    /\ n \in Live
    /\ \A m \in Live : entries[n].weight <= entries[m].weight
    /\ entries' = [entries EXCEPT ![n].removed = TRUE]
    /\ result' = {n}

DeleteAll ==
    /\ entries' = [n \in DOMAIN entries |-> [entries[n] EXCEPT !.removed = TRUE]]
    /\ result' = {}

\* Clients decrease the weight of nodes that are still in the queue.
DecreaseKey(n, w) ==
    /\ n \in Live /\ w < entries[n].weight
    /\ entries' = [entries EXCEPT ![n].weight = w]
    /\ result' = {}

Init == entries = [n \in {} |-> 0] /\ result = {}

Next ==
    \/ Clear \/ DeleteAll
    \/ \E n \in NodeIDs : DeleteMin(n)
    \/ \E n \in NodeIDs, w \in Weights : Insert(n, w) \/ DecreaseKey(n, w)

Spec == Init /\ [][Next]_<<entries, result>>
=============================================================================
