----------------------------- MODULE PBFGroups ------------------------------
(***************************************************************************)
(* The groups of a block in Protobuf format as Extractor/PBFParser.cpp     *)
(* reads them: dense nodes, ways, relations.  Ids and coordinates are      *)
(* stored as differences to the one before.  The functions of the profile  *)
(* run in parallel, each on an element of its own; the callbacks follow in *)
(* the order of the file.                                                  *)
(*   [type |-> "dense", nodes] with differences in id and lat              *)
(*   [type |-> "nodes"] with nodes that are not dense                      *)
(*   [type |-> "ways", ways] with differences in path                      *)
(*   [type |-> "relations", relations] with differences in ref, and        *)
(*    restriction: the relation is tagged as one                           *)
(***************************************************************************)
EXTENDS ExtractorCallbacks

\* ReadHeader: a blob that cannot be loaded is only reported.
ReadHeader(header) ==
    /\ header.blobHeader
    /\ header.blob => header.parses /\ header.features \subseteq {"OsmSchema-V0.6", "DenseNodes"}

\* The numbers of which these are the differences.
RunningSums(deltas) == FoldLeft(LAMBDA sums, d : Append(sums, d + (IF sums = <<>> THEN 0 ELSE Last(sums))), <<>>, deltas)

parseDenseNode(c, group) ==
    LET ids == RunningSums([i \in DOMAIN group.nodes |-> group.nodes[i].id])
        lats == RunningSums([i \in DOMAIN group.nodes |-> group.nodes[i].lat])
    IN FoldLeft(ProcessNode, c,
                [i \in DOMAIN ids |-> [group.nodes[i] EXCEPT !.id = ids[i], !.lat = lats[i]]])

\* Ways of fewer than two nodes reach neither the profile nor the callback.
parseWay(c, group) ==
    LET ways == [i \in DOMAIN group.ways |-> [group.ways[i] EXCEPT !.path = RunningSums(@)]]
    IN FoldLeft(ProcessWay, c, SelectSeq(ways, LAMBDA w : Len(w.path) >= 2))

\* Differences count for members of every role.
RelationMembers(members) ==
    LET refs == RunningSums([i \in DOMAIN members |-> members[i].ref])
    IN [i \in DOMAIN members |-> [members[i] EXCEPT !.ref = refs[i]]]

parseRelation(c, group, profile) ==
    LET used == SelectSeq(group.relations,
                          LAMBDA r : /\ r.restriction
                                     /\ ~ShouldIgnoreRestriction(r.except, ReadRestrictionExceptions(profile)))
        read(r) == FoldLeft(ReadMember, NoRestriction(r.only), RelationMembers(r.members))
    IN IF ReadUseRestrictionsSetting(profile)
       THEN FoldLeft(ProcessRestriction, c, [i \in DOMAIN used |-> read(used[i])])
       ELSE c

\* parseNode: the exception leaves the thread that parses, and the program ends.
Rejected(group) == group.type = "nodes"

\* ParseData: a group holds elements of one kind.
ParseGroup(c, group, profile) ==
    CASE group.type = "dense" -> parseDenseNode(c, group)
      [] group.type = "ways" -> parseWay(c, group)
      [] group.type = "relations" -> parseRelation(c, group, profile)
      [] Rejected(group) -> c
=============================================================================
