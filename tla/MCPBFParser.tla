---------------------------- MODULE MCPBFParser -----------------------------
EXTENDS PBFParser

Block(groups) == [readable |-> TRUE, groups |-> groups]
Unreadable == [readable |-> FALSE, groups |-> <<>>]

Nodes == Block(<<{"dense"}, {"dense"}>>)
Ways == Block(<<{"way"}>>)
Relations == Block(<<{"relation"}, {}, {"way", "node"}>>)
Simple == Block(<<{"node"}>>)

AllFiles ==
    {<<>>, <<Nodes, Ways, Relations>>, <<Nodes, Nodes, Ways, Ways, Relations>>,
     <<Nodes, Unreadable, Ways>>, <<Nodes, Ways, Simple, Ways>>}
=============================================================================
