-------------------------- MODULE MCMapPreparation --------------------------
EXTENDS MapPreparation

Angle(a, v, b) == (a + 2 * b) % 3

Node(id, kind) == [id |-> id, bollard |-> kind = "barrier", trafficLight |-> kind = "light"]
\* The nodes with ids 10 + order[i], all plain except some.
NodesIn(order, some, kind) ==
    [i \in DOMAIN order |-> Node(10 + order[i], IF order[i] \in some THEN kind ELSE "plain")]

\* Kinds of street: both ways, one way, the other way, split with different speeds.
Street(a, b, kind, weight, name) ==
    LET edge(s, t, dir, w, split) ==
          [source |-> 10 + s, target |-> 10 + t, dir |-> dir, weight |-> w, name |-> IF name = 4 THEN 1 ELSE name,
           mode |-> 1, roundabout |-> name = 3, ignore_in_grid |-> name = 4, split |-> split]
    IN CASE kind = "both" -> <<edge(a, b, 0, weight, FALSE)>>
         [] kind = "oneway" -> <<edge(a, b, 1, weight, FALSE)>>
         [] kind = "opposite" -> <<edge(a, b, 2, weight, FALSE)>>
         [] kind = "split" -> <<edge(a, b, 1, weight, TRUE), edge(b, a, 1, weight + 1, TRUE)>>

Kinds == {"both", "oneway", "opposite", "split"}

Restriction(from, via, to, only) ==
    [fromNode |-> 10 + from, viaNode |-> 10 + via, toNode |-> 10 + to, isOnly |-> only]

File(nodes, edges, restrictions) == [nodes |-> nodes, edges |-> edges, restrictions |-> restrictions]

\* A chain 1 - 2 - 3 - 4 that ends in a junction with 5 and 6.
Chain(kind, other, names) ==
    Street(1, 2, kind, 2, names[1]) \o Street(2, 3, kind, 3, names[2]) \o
    Street(3, 4, other, 1, names[3]) \o Street(4, 5, "both", 2, 2) \o Street(6, 4, "both", 4, 2)

Orders == {<<1, 2, 3, 4, 5, 6>>, <<5, 4, 6, 3, 1, 2>>, <<4, 3, 2, 1, 6, 5>>}

Chains ==
    {File(NodesIn(o, some[1], some[2]), Chain(k, m, names), <<>>) :
       o \in Orders, k \in Kinds, m \in Kinds,
       names \in {<<1, 1, 1>>, <<1, 1, 2>>, <<0, 0, 0>>, <<3, 3, 1>>, <<1, 1, 4>>},
       some \in {<<{}, "plain">>, <<{2}, "light">>, <<{2, 3, 4}, "light">>, <<{3}, "barrier">>}}

\* A ring of five, with a street to a dead end.
Rings ==
    {File(NodesIn(o, {}, "plain"),
          Street(1, 2, k, 1, 1) \o Street(2, 3, k, 2, 1) \o Street(3, 4, k, 3, 1)
            \o Street(4, 5, k, 4, 1) \o Street(5, 1, m, 5, 1) \o end, <<>>) :
       o \in Orders, k \in Kinds, m \in Kinds, end \in {<<>>, Street(1, 6, "both", 1, 1)}}

\* The chain and, not joined to it, a street of two nodes.
Islands ==
    {File(NodesIn(o, {}, "plain"), Chain(k, "both", <<1, 1, 1>>) \o Street(7, 8, m, 2, 1), <<>>) :
       o \in {<<7, 1, 2, 3, 4, 5, 6, 8>>, <<8, 5, 4, 6, 7, 3, 1, 2>>}, k \in Kinds, m \in Kinds}

\* Up to three parallel streets between two nodes, and a third node.
Parallel ==
    {File(NodesIn(o, {}, "plain"),
          Street(1, 2, a, w, 1) \o Street(2, 1, b, 2, 1) \o c \o Street(2, 3, "both", 2, 1), <<>>) :
       o \in {<<1, 2, 3>>, <<3, 2, 1>>}, a \in Kinds, b \in Kinds, w \in 1 .. 3,
       c \in {<<>>} \cup {Street(1, 2, k, 2, 1) : k \in Kinds} \cup {Street(1, 1, "both", 1, 1)}
             \cup {Street(1, 9, "both", 1, 1)}}

\* Restrictions at the junction of the chain and where it starts.
Turns ==
    {File(NodesIn(o, some, "barrier"), Chain("both", k, <<1, 1, 1>>), r) :
       o \in Orders, k \in {"both", "oneway", "split"}, some \in {{}, {4}},
       r \in {<<Restriction(3, 4, 5, x)>> : x \in BOOLEAN}
             \cup {<<Restriction(5, 4, 3, x), Restriction(5, 4, 6, y)>> : x, y \in BOOLEAN}
             \cup {<<Restriction(3, 4, 5, FALSE), Restriction(3, 4, 6, TRUE), Restriction(3, 4, 5, TRUE)>>,
                   <<Restriction(2, 1, 2, FALSE)>>, <<Restriction(2, 1, 2, TRUE)>>,
                   <<Restriction(3, 2, 1, FALSE)>>, <<Restriction(8, 4, 5, FALSE)>>}}

Ready(f) == [inputExists |-> TRUE, profileExists |-> TRUE, threads |-> 1, profileRuns |-> TRUE, file |-> f]
\* osrm-components looks neither at restrictions nor at lights, barriers and names.
Plain(f) ==
    /\ f.restrictions = <<>> /\ \A i \in DOMAIN f.nodes : ~f.nodes[i].bollard /\ ~f.nodes[i].trafficLight
    /\ f.edges # <<>> => f.edges[1].name = f.edges[Len(f.edges)].name \/ f.edges[1].name = 0

SomeFile == CHOOSE f \in Rings : TRUE

AllRequests ==
    {Ready(f) : f \in Chains \cup Rings \cup Islands \cup Parallel \cup Turns}
    \cup {Ready(File(<<>>, <<>>, <<>>)), [Ready(SomeFile) EXCEPT !.threads = 0],
          [Ready(SomeFile) EXCEPT !.inputExists = FALSE], [Ready(SomeFile) EXCEPT !.profileRuns = FALSE]}

-----------------------------------------------------------------------------
(* Maps *)

Place(id, lat) == [type |-> "node", id |-> 10 + id, lat |-> lat, bollard |-> FALSE, trafficLight |-> FALSE]

\* Six nodes; the last one may be missing or beyond the limit.
Places(last) == <<Place(3, 3), Place(1, 1), Place(2, 5), Place(5, 4), Place(4, 6)>> \o last

Way(id, path, kind, name) ==
    LET way == [type |-> "way", id |-> id, path |-> path, forward_speed |-> 36, backward_speed |-> 36,
                duration |-> -1, forward_travel_mode |-> 1, backward_travel_mode |-> 1,
                name |-> name, roundabout |-> FALSE, ignoreInGrid |-> FALSE]
    IN CASE kind = "both" -> way
         [] kind = "split" -> [way EXCEPT !.backward_speed = 12]
         [] kind = "modes" -> [way EXCEPT !.backward_travel_mode = 2]
         [] kind = "one speed" -> [way EXCEPT !.backward_speed = 0]
         [] kind = "oneway" -> [way EXCEPT !.backward_travel_mode = 0]
         [] kind = "opposite" -> [way EXCEPT !.forward_travel_mode = 0, !.backward_speed = 12]
         [] kind = "ferry" -> [way EXCEPT !.duration = 7, !.forward_speed = -1, !.backward_speed = -1]
         [] kind = "closed" -> [way EXCEPT !.forward_travel_mode = 0, !.backward_travel_mode = 0]
         [] kind = "no speed" -> [way EXCEPT !.forward_speed = -1]
         [] kind = "bogus" -> [way EXCEPT !.id = 99]
         [] kind = "point" -> [way EXCEPT !.path = <<path[1]>>]

WayKinds == {"both", "split", "modes", "one speed", "oneway", "opposite", "ferry", "closed", "no speed",
             "bogus", "point"}

Relation(from, via, to, only, except) ==
    [type |-> "relation", restriction |-> TRUE, only |-> only, except |-> except,
     members |-> <<[role |-> "from", type |-> "way", ref |-> from], [role |-> "location_hint", type |-> "node", ref |-> 12],
                   [role |-> "to", type |-> "way", ref |-> to], [role |-> "via", type |-> "node", ref |-> via]>>]

Relations ==
    {<<>>,
     <<Relation(7, 13, 5, FALSE, {}), Relation(7, 13, 6, FALSE, {}), Relation(5, 13, 6, FALSE, {})>>,
     <<Relation(6, 13, 7, TRUE, {"bus"}), Relation(5, 13, 7, TRUE, {"car"}), Relation(5, 13, 6, TRUE, {}),
       [type |-> "changeset"]>>,
     <<Relation(7, 12, 5, FALSE, {}), Relation(4, 13, 5, FALSE, {}), Relation(6, 15, 6, FALSE, {}),
       [Relation(7, 13, 5, FALSE, {}) EXCEPT !.restriction = FALSE]>>}

Profile == [use_turn_restrictions |-> "unset", get_exceptions |-> TRUE, exceptions |-> {"car", "vehicle"}]

\* An element as XML; a way has a tag and a reference that is missing among its nodes.
Element(e) ==
    CASE e.type = "node" -> [has |-> {"id", "lat", "lon"} \ (IF e.lat = 90 THEN {"lat"} ELSE {})] @@ e
      [] e.type = "way" ->
           [path |-> <<>>,
            children |-> <<[name |-> "tag", ref |-> -1]>> \o [i \in DOMAIN e.path |-> [name |-> "nd", ref |-> e.path[i]]]
                         \o <<[name |-> "nd", ref |-> -1]>>] @@ e
      [] OTHER -> e

Header == [blobHeader |-> TRUE, blob |-> TRUE, parses |-> TRUE, features |-> {"DenseNodes"}]

Xml(source, profile) ==
    [threads |-> 1, inputExists |-> TRUE, profileExists |-> TRUE, header |-> Header, suffix |-> ".osm",
     profile |-> profile, elements |-> [i \in DOMAIN source |-> Element(source[i])], source |-> source]

Deltas(s) == [i \in DOMAIN s |-> s[i] - (IF i = 1 THEN 0 ELSE s[i - 1])]

Pbf(places, ways, relations) ==
    LET ids == Deltas([i \in DOMAIN places |-> places[i].id])
        lats == Deltas([i \in DOMAIN places |-> places[i].lat])
        refs(members) == Deltas([i \in DOMAIN members |-> members[i].ref])
        encoded(r) == [r EXCEPT !.members = [i \in DOMAIN @ |-> [@[i] EXCEPT !.ref = refs(r.members)[i]]]]
        restrictions == SelectSeq(relations, LAMBDA r : r.type = "relation")
    IN [Xml(places \o ways \o restrictions, Profile) EXCEPT
          !.suffix = ".osm.pbf",
          !.elements =
             <<[type |-> "dense", nodes |-> [i \in DOMAIN places |-> [places[i] EXCEPT !.id = ids[i], !.lat = lats[i]]]],
               [type |-> "ways", ways |-> [i \in DOMAIN ways |-> [ways[i] EXCEPT !.path = Deltas(@)]]],
               [type |-> "relations", relations |-> [i \in DOMAIN restrictions |-> encoded(restrictions[i])]]>>]

\* A junction of three ways.
Junction(a, b, c) ==
    <<Way(7, <<11, 12, 13>>, a, "A"), Way(5, <<14, 13>>, b, "B"), Way(6, <<13, 15, 16>>, c, "A")>>

Kinds3 == {<<k, "both", "both">> : k \in WayKinds} \cup {<<"split", k, "opposite">> : k \in WayKinds}
          \cup {<<"both", "oneway", k>> : k \in WayKinds}

SomeMap == Xml(Places(<<>>) \o Junction("both", "both", "both"), Profile)

SomePbf == Pbf(Places(<<>>), Junction("both", "both", "both"), <<>>)

AllMaps ==
    {Xml(Places(last) \o Junction(k[1], k[2], k[3]) \o r, Profile) :
       k \in Kinds3, r \in Relations, last \in {<<Place(6, 2)>>, <<>>, <<Place(6, 86)>>, <<Place(6, 90)>>}}
    \cup {Xml(r \o Reverse(Places(<<Place(6, 2)>>) \o Junction(k[1], k[2], k[3])), Profile) : k \in Kinds3, r \in Relations}
    \cup {Pbf(Places(<<Place(6, 2)>>), Junction(k[1], k[2], k[3]), r) : k \in Kinds3, r \in Relations}
    \cup {Xml(Places(<<>>) \o Junction("both", "both", "both") \o r,
              [Profile EXCEPT !.use_turn_restrictions = u, !.get_exceptions = g]) :
            r \in Relations, u \in {"unset", "true", "false", "error"}, g \in BOOLEAN}
    \cup {[SomePbf EXCEPT !.elements = <<@[1], [type |-> "nodes"]>> \o @]}
    \cup {[SomePbf EXCEPT !.header = h] :
            h \in {[Header EXCEPT !.blob = FALSE, !.parses = FALSE], [Header EXCEPT !.parses = FALSE],
                   [Header EXCEPT !.features = {"LocationsOnWays"}]}}
    \cup {[SomeMap EXCEPT !.threads = 0], [SomeMap EXCEPT !.inputExists = FALSE],
          [SomeMap EXCEPT !.header.blobHeader = FALSE],
          [SomeMap EXCEPT !.profileExists = FALSE], Xml(Places(<<>>), Profile)}
=============================================================================
