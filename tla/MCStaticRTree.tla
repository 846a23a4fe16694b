--------------------------- MODULE MCStaticRTree ----------------------------
EXTENDS StaticRTree

Mercator(lat) == lat + lat \div 4

\* 1..3 is a row south of the equator, 4..6 lies on it, 7 north of the end of the row;
\* the columns are four units apart, the middle one at longitude mid.
Coordinates(mid) ==
    LET at(lat, column) == [lat |-> lat, lon |-> mid + 4 * column]
    IN <<at(-4, -1), at(-4, 0), at(-4, 1), at(0, -1), at(0, 0), at(0, 1), at(4, 1)>>

\* Segments parallel to an axis, one of them a point; one ends and two start on the
\* equator.
Segments == <<<<1, 2>>, <<2, 3>>, <<4, 1>>, <<5, 2>>, <<5, 6>>, <<7, 6>>, <<7, 7>>>>

Edge(s, tiny) == [u |-> s[1], v |-> s[2], is_in_tiny_cc |-> tiny, forward |-> TRUE, reverse |-> s # <<4, 1>>,
                  forward_weight |-> 5, reverse_weight |-> 5]

\* The chosen segments, some of which are in tiny components.
Input(chosen, tiny, mid) ==
    LET list == SelectSeq(Segments, LAMBDA s : s \in chosen)
    IN [coordinate_list |-> Coordinates(mid),
        edges |-> [i \in DOMAIN list |-> Edge(list[i], list[i] \in tiny)],
        files |-> "intact"]

TinySets == {{}, {<<1, 2>>, <<5, 6>>}, {<<2, 3>>, <<4, 1>>, <<7, 6>>}}

Selections == {S \in SUBSET Range(Segments) : Cardinality(S) \in {1, 4, 5, 6}}

\* Streets on both sides of the zero meridian, and with one along it.
AllInputs ==
    {Input(S, T, 2) : S \in Selections, T \in TinySets}
    \cup {Input(S, {}, -4) : S \in {S \in Selections : Cardinality(S) # 4}}
    \cup {[Input({Segments[1]}, {}, 2) EXCEPT !.files = f] : f \in {"missing", "empty"}}

\* At a node, between the rows, one unit beside a segment, outside, and no location.
AllQueries(i) ==
    LET mid == i.coordinate_list[2].lon
        at(lat, east) == [lat |-> lat, lon |-> mid + east]
        Locations == {at(-4, 0), at(-2, -2), at(-3, 1), at(2, 6), at(6, -4), at(200, 0)}
    IN {[kind |-> k, location |-> l, zoom_level |-> z] :
          k \in {"locate", "phantom"}, l \in Locations, z \in {14, 18}}
       \cup {[kind |-> "incremental", location |-> l, zoom_level |-> 18, results |-> n, max_checked |-> m] :
               l \in Locations, n \in 1 .. 2, m \in {2, 10}}
=============================================================================
