-------------------------- MODULE MCRoutePlanning ---------------------------
EXTENDS RoutePlanning, MCContractor

\* A location on a street of two directions, or on a one-way street.
Street(f, fo, r, ro) == [forward |-> f, forward_offset |-> fo, reverse |-> r, reverse_offset |-> ro]
OneWay(f, fo) == Street(f, fo, SPECIAL_NODEID, 0)

\* Two routes of which the second one is little longer, and a detour.
Alternatives ==
    {{InputEdge(0, 1, 10, TRUE, TRUE), InputEdge(1, 3, 10, TRUE, TRUE),
      InputEdge(0, 2, 11, TRUE, TRUE), InputEdge(2, 3, 11, TRUE, b)} : b \in BOOLEAN}

Graphs == Few \cup Alternatives

Request(service, phantoms, uturns) == [service |-> service, phantoms |-> phantoms, uturns |-> uturns]

SmallRequests ==
    {Request("route", <<s, t>>, <<>>) :
       s \in {OneWay(0, 1), Street(0, 1, 2, 0)}, t \in {OneWay(0, 0), OneWay(3, 0), Street(1, 0, 3, 1)}}
    \cup {Request("route", <<Street(0, 0, 2, 1), Street(1, 1, 3, 0), t>>, u) :
            t \in {OneWay(2, 0), Street(0, 1, 2, 0)}, u \in {<<>>, <<TRUE, TRUE>>}}
    \cup {Request("route", <<OneWay(0, 0), Street(1, 0, 2, 0), t>>, u) :
            t \in {OneWay(3, 0), Street(2, 0, 1, 0)}, u \in {<<>>, <<TRUE, TRUE>>}}
    \cup {Request("route", <<OneWay(0, 0), Street(1, 0, 2, 0), Street(3, 0, 0, 0), OneWay(1, 0)>>, u) :
            u \in {<<>>, <<FALSE, TRUE, FALSE>>, <<TRUE, FALSE, FALSE>>}}
    \cup {Request("route", <<OneWay(0, 0)>>, <<>>)}
    \cup {Request("alternative", <<OneWay(0, 0), OneWay(3, 0)>>, <<>>),
          Request("alternative", <<Street(0, 1, 2, 0), OneWay(3, 1)>>, <<>>),
          Request("alternative", <<OneWay(0, 0), OneWay(1, 0), OneWay(3, 0)>>, <<>>)}
    \cup {Request("table", <<Street(0, 1, 2, 0), OneWay(1, 1), OneWay(3, 0)>>, <<>>)}

\* Three legs; the second location has its directions in the opposite order to the third.
OppositeStreets ==
    {Request("route", <<OneWay(0, 0), Street(0, 0, 2, 0), Street(2, 0, 0, 0), OneWay(2, 0)>>, <<>>)}
=============================================================================
