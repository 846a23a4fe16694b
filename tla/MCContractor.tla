---------------------------- MODULE MCContractor ----------------------------
EXTENDS Contractor

InputEdge(s, t, w, forward, backward) ==
    [source |-> s, target |-> t, weight |-> w, forward |-> forward, backward |-> backward]

\* What may lie between two nodes: nothing, a street in both directions, a longer
\* one, or a one-way street.
Between(s, t) ==
    {{}, {InputEdge(s, t, 1, TRUE, TRUE)}, {InputEdge(s, t, 3, TRUE, TRUE)},
     {InputEdge(s, t, 1, TRUE, FALSE)}}

\* Graphs on a cycle of four nodes and one diagonal.
Cycles ==
    {a \cup b \cup c \cup d \cup e :
       a \in Between(0, 1), b \in Between(1, 2), c \in Between(2, 3),
       d \in Between(3, 0) \ {{InputEdge(3, 0, 3, TRUE, TRUE)}},
       e \in {{}, {InputEdge(0, 2, 2, FALSE, TRUE)}}}

\* Loops, zero weights, parallel edges of different length and direction.
Irregular ==
    {{InputEdge(0, 0, 1, TRUE, TRUE), InputEdge(0, 1, 0, TRUE, TRUE),
      InputEdge(0, 1, 2, TRUE, FALSE), InputEdge(1, 2, 3, TRUE, TRUE),
      InputEdge(2, 1, 1, TRUE, FALSE), InputEdge(2, 3, 2, TRUE, FALSE),
      InputEdge(3, 2, 1, TRUE, FALSE), InputEdge(3, 0, 2, FALSE, TRUE)},
     {}}

\* A few graphs on which a witness search needs more than one settled node.
Detours ==
    {{InputEdge(0, 1, 1, TRUE, TRUE), InputEdge(1, 2, 1, TRUE, TRUE),
      InputEdge(2, 3, 1, TRUE, TRUE), InputEdge(3, 0, w, TRUE, b)} :
        w \in {1, 3}, b \in BOOLEAN}

Few == Detours \cup Irregular
FourNodes == Cycles \cup Irregular
=============================================================================
