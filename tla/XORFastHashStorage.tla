------------------------- MODULE XORFastHashStorage -------------------------
(***************************************************************************)
(* The index storage of the contractor's heaps                             *)
(* (DataStructures/XORFastHashStorage.h): a hash table that is emptied by  *)
(* counting a timestamp up.  A cell whose time is not the current one is   *)
(* free.  Looking a node up takes a cell for it, with the key that an      *)
(* earlier node left there.  The hash function is a random one             *)
(* (XORFastHash.h).                                                        *)
(***************************************************************************)
EXTENDS Integers

CONSTANTS
    TableSize,      \* cells a position of 16 bits reaches (2^16)
    MaxTimestamp,   \* numeric_limits<unsigned>::max()
    fast_hasher     \* node -> position

ASSUME StorageAssumption == TableSize \in Nat \ {0} /\ MaxTimestamp \in Nat

NoKey == 99         \* numeric_limits<unsigned>::max()

HashCell == [key |-> NoKey, id |-> NoKey, time |-> MaxTimestamp]
Positions == [p \in 0 .. TableSize - 1 |-> HashCell]
EmptyStorage == [positions |-> Positions, current_timestamp |-> 0]

ClearedStorage(s) ==
    LET now == (s.current_timestamp + 1) % (MaxTimestamp + 1)
    IN [positions |-> IF now = MaxTimestamp THEN Positions ELSE s.positions,
        current_timestamp |-> now]

\* The cells that operator[] looks at, one after the other.
Probe(node, i) == (fast_hasher[node] + i) % TableSize

\* The cell belongs to another node.
Taken(s, p, node) == s.positions[p].time = s.current_timestamp /\ s.positions[p].id # node

\* The loop of operator[] ends only if some cell is not taken.
Returns(s, node) == \E i \in 0 .. TableSize - 1 : ~Taken(s, Probe(node, i), node)

\* The first such cell from the hash value on.
IsFirst(s, node, i) ==
    ~Taken(s, Probe(node, i), node) /\ \A j \in 0 .. i - 1 : Taken(s, Probe(node, j), node)
Position(s, node) == Probe(node, CHOOSE i \in 0 .. TableSize - 1 : IsFirst(s, node, i))

KeyOf(s, node) == s.positions[Position(s, node)].key

\* operator[] makes the cell one of the node, and the caller may set its key.
LookedUp(s, node) ==
    [s EXCEPT !.positions[Position(s, node)] = [@ EXCEPT !.id = node, !.time = s.current_timestamp]]
Assigned(s, node, key) ==
    [s EXCEPT !.positions[Position(s, node)] = [key |-> key, id |-> node, time |-> s.current_timestamp]]
=============================================================================
