--------------------------- MODULE MapPreparation ---------------------------
(***************************************************************************)
(* osrm-extract and then osrm-prepare up to the edge-expanded graph: the   *)
(* files that Extraction writes are those that the factory loads, or that  *)
(* osrm-components looks at.  Some behaviours begin with files that were   *)
(* written before.  The tools only read the files: one of them is run.     *)
(***************************************************************************)
EXTENDS EdgeBasedGraphFactory

CONSTANTS
    Maps, SmallComponent,
    Analysed(_)     \* bound: the files on which osrm-components is run

VARIABLES map, phase, containers, left, right, output,
          tool, tarjan_graph, next_node, recursion_stack, tarjan_stack, tarjan_node_list,
          components_index, component_size_vector, network

Extract == INSTANCE Extraction
Scc == INSTANCE StronglyConnectedComponents

extraction == <<map, phase, containers, left, right, output>>
components == <<tool, tarjan_graph, next_node, recursion_stack, tarjan_stack, tarjan_node_list,
                components_index, component_size_vector, network>>
mapVars == <<vars, extraction, components>>

NothingLoaded == [inputExists |-> FALSE, profileExists |-> FALSE, threads |-> 0, profileRuns |-> FALSE,
                  file |-> [nodes |-> <<>>, edges |-> <<>>, restrictions |-> <<>>]]

MapInit ==
    /\ Scc!NoComponents
    /\ \/ /\ Extract!ExtractionInit
          /\ request = NothingLoaded /\ stage = "waiting" /\ FactoryInit
       \/ /\ Init
          /\ map = <<>> /\ phase = "before" /\ containers = Extract!EmptyContainers /\ left = 1 /\ right = 1
          /\ output = Extract!NoOutput

ExtractMap == Extract!ExtractionNext /\ UNCHANGED <<vars, components>>

\* As many restrictions are read as the head of their file says.
CheckRestrictionsFile == SubSeq(output.restrictions, 1, output.number_of_restrictions)

\* osrm-prepare is started on what was written, with the profile of the extraction.
RunPrepare ==
    /\ phase = "extracted" /\ stage = "waiting"
    /\ stage' = "start"
    /\ request' = [inputExists |-> TRUE, profileExists |-> TRUE, threads |-> 1, profileRuns |-> TRUE,
                   file |-> [nodes |-> SubSeq(output.nodes, 1, output.number_of_nodes),
                             edges |-> SubSeq(output.edges, 1, output.number_of_edges),
                             restrictions |-> CheckRestrictionsFile]]
    /\ UNCHANGED <<node_v, factory, original, extraction, components>>

PrepareGraph == tool = "idle" /\ Next /\ UNCHANGED <<extraction, components>>

\* osrm-components is run instead.
RunComponents ==
    /\ stage = "start" /\ Analysed(request.file)
    /\ Scc!LoadTarjanGraph(request.inputExists, request.file)
    /\ UNCHANGED <<vars, extraction>>

FindComponents == Scc!ComponentsNext /\ UNCHANGED <<vars, extraction>>

\* Extraction gave up, or the components are found.
NoMap == (phase = "failed" \/ tool \in {"done", "failed"}) /\ UNCHANGED mapVars

MapNext == ExtractMap \/ RunPrepare \/ PrepareGraph \/ RunComponents \/ FindComponents \/ NoMap

MapSpec == MapInit /\ [][MapNext]_mapVars

\* The restrictions file holds exactly the turn restrictions of the map that can be
\* resolved, each with the neighbours of its via node, and their number, although the
\* lists were sorted twice and joined with cursors (ExtractionContainers::PrepareData).
RestrictionsKept == Extract!RestrictionsKept

\* The .osrm file has the nodes of all ways that can be driven, once each; between them one
\* can drive in the directions in which the ways are open, at their speed
\* (ExtractorCallbacks::ProcessWay, ExtractionContainers::PrepareData).
FileComplete == Extract!FileComplete

\* Nodes that can be reached from a node along open edges of the file, and itself.
RECURSIVE ReachedFrom(_)
ReachedFrom(from) ==
    LET next == from \cup {n \in Nodes(tarjan_graph) : \E m \in from : m # n /\ FileWeight(m, n) # NoWeight}
    IN IF next = from THEN from ELSE ReachedFrom(next)

\* osrm-components gives two nodes the same number exactly if one can drive from each to
\* the other, and counts their component, although frames of a node are left on the stack
\* when it is reached through another edge first.  Each street is counted from one of its
\* ends only, and drawn exactly if a component at its ends is small (TarjanSCC::Run).
ComponentsExact ==
    tool = "done" =>
    LET ids == Nodes(tarjan_graph)
        reach == [n \in ids |-> ReachedFrom({n})]
        Component(n) == {m \in reach[n] : n \in reach[m]}
        joined(a, b) == FileWeight(a, b) # NoWeight \/ FileWeight(b, a) # NoWeight
        small(a, b) == \E n \in {a, b} : Cardinality(Component(n)) < SmallComponent
        measured == {network.measured[i] : i \in DOMAIN network.measured}
        drawn == {network.drawn[i] : i \in DOMAIN network.drawn}
    IN /\ \A a \in ids :
            /\ {b \in ids : components_index[b] = components_index[a]} = Component(a)
            /\ component_size_vector[components_index[a] + 1] = Cardinality(Component(a))
       /\ \A a \in ids : \A b \in 0 .. a - 1 :
            /\ joined(a, b) <=> <<a, b>> \in measured \/ <<b, a>> \in measured
            /\ ~(<<a, b>> \in measured /\ <<b, a>> \in measured)
            /\ \A e \in {<<a, b>>, <<b, a>>} : e \in drawn <=> e \in measured /\ small(a, b)
=============================================================================
