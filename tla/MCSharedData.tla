---------------------------- MODULE MCSharedData ----------------------------
(* Instances of SharedData: one server with two workers, alone or beside a    *)
(* server with one.                                                            *)
EXTENDS SharedData, TLC

CONSTANTS s1, s2, t1, t2, t3

HomeOfThree == t1 :> s1 @@ t2 :> s1 @@ t3 :> s2
HomeShared == t1 :> s1 @@ t2 :> s1
HomeSingle == t1 :> s1
AllRules == Rules
NoRules == {}
Symmetry == Permutations({t1, t2}) \cup Permutations(Stores)
SerialQuiet == {"SerialStores", "QuietStart"}
=============================================================================
