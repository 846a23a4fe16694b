---------------------------- MODULE MCBinaryHeap ----------------------------
EXTENDS BinaryHeap

\* All nodes want the last cell.
Hash == [n \in HashedNodes |-> TableSize - 1]
=============================================================================
