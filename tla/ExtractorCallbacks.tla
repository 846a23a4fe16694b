------------------------- MODULE ExtractorCallbacks -------------------------
(***************************************************************************)
(* What osrm-extract takes from the elements of a map: the parser          *)
(* (Extractor/XMLParser.cpp, BaseParser.cpp) hands nodes, ways and         *)
(* restrictions to Extractor/ExtractorCallbacks.cpp, which fills the lists *)
(* of ExtractionContainers.                                                *)
(*                                                                         *)
(* What the functions of the profile make of an element is part of it:     *)
(*   [type |-> "node", id, lat, bollard, trafficLight]; in XML has is the  *)
(*    set of attributes that are there                                     *)
(*   [type |-> "way", id, path, forward_speed, backward_speed, duration,   *)
(*    forward_travel_mode, backward_travel_mode, name, roundabout,         *)
(*    ignoreInGrid]; in XML the path comes from children [name, ref]       *)
(*   [type |-> "relation", only, except, members] with members [role,      *)
(*    type, ref]; except is the set of modes of the tag.                   *)
(* A place is its latitude in degrees; a speed is [km, per] for km / per.  *)
(* A profile is [use_turn_restrictions, get_exceptions, exceptions]: the   *)
(* outcome of reading the variable, whether the function exists, and what  *)
(* it returns.                                                             *)
(***************************************************************************)
EXTENDS Integers, Sequences, SequencesExt, TLC

MaxID == 99                     \* numeric_limits<unsigned>::max(), SPECIAL_NODEID
TRAVEL_MODE_INACCESSIBLE == 0
MaxLatitude == 85
NoCoordinate == 90              \* numeric_limits<int>::max()
NoRef == -1                     \* a child without the attribute ref

\* ExtractionContainers(), and the name "" that Extractor::Run gives the number 0.
EmptyContainers ==
    [all_nodes_list |-> <<>>, used_node_id_list |-> <<>>, all_edges_list |-> <<>>,
     name_list |-> <<"">>, restrictions_list |-> <<>>, way_start_end_id_list |-> <<>>]

ProcessNode(c, n) ==
    IF n.lat \in -MaxLatitude .. MaxLatitude
    THEN [c EXCEPT !.all_nodes_list = Append(@, n)] ELSE c

-----------------------------------------------------------------------------
(* Ways *)

Closed(speed, mode) == speed <= 0 \/ mode = TRAVEL_MODE_INACCESSIBLE

\* Ways that no profile wants, and broken ones.
Dropped(way) ==
    \/ /\ Closed(way.forward_speed, way.forward_travel_mode)
       /\ Closed(way.backward_speed, way.backward_travel_mode)
       /\ way.duration <= 0
    \/ Len(way.path) <= 1
    \/ way.id = MaxID
    \/ way.duration <= 0 /\ way.forward_speed = -1

HasDuration(way) == way.duration > 0

\* The time for a segment takes the place of a speed.
ForwardSpeed(way) ==
    IF HasDuration(way) THEN [km |-> way.duration, per |-> Len(way.path) - 1]
    ELSE [km |-> way.forward_speed, per |-> 1]
BackwardSpeed(way) ==
    IF HasDuration(way) THEN [km |-> way.duration, per |-> Len(way.path) - 1]
    ELSE [km |-> way.backward_speed, per |-> 1]

\* A way that is closed forwards is turned round; its speeds stay in their places.
Turned(way) ==
    IF way.forward_travel_mode = TRAVEL_MODE_INACCESSIBLE
    THEN [way EXCEPT !.path = Reverse(@),
                     !.forward_travel_mode = way.backward_travel_mode,
                     !.backward_travel_mode = TRAVEL_MODE_INACCESSIBLE]
    ELSE way

SplitEdge(way) ==
    /\ ~Closed(ForwardSpeed(way).km, way.forward_travel_mode)
    /\ ~Closed(BackwardSpeed(way).km, way.backward_travel_mode)
    /\ \/ ForwardSpeed(way) # BackwardSpeed(way)
       \/ way.forward_travel_mode # way.backward_travel_mode

NameID(names, name) ==
    IF name \in Range(names) THEN (CHOOSE i \in DOMAIN names : names[i] = name) - 1 ELSE Len(names)

\* InternalExtractorEdge, one for each segment of the path.
Segments(way, path, direction, speed, mode, name_id) ==
    [n \in 1 .. Len(path) - 1 |->
       [start |-> path[n], target |-> path[n + 1], direction |-> direction, speed |-> speed,
        name_id |-> name_id, is_roundabout |-> way.roundabout, is_in_tiny_cc |-> way.ignoreInGrid,
        is_duration_set |-> HasDuration(way),
        travel_mode |-> mode, is_split |-> SplitEdge(way), known |-> FALSE, source_coordinate |-> 0]]

WayIDStartAndEndEdge(id, path) ==
    [wayID |-> id, firstStart |-> path[1], firstTarget |-> path[2],
     lastStart |-> path[Len(path) - 1], lastTarget |-> path[Len(path)]]

\* The other direction of a way that is split.
BackwardSegments(way, name_id) ==
    Segments(way, Reverse(way.path), "oneway", BackwardSpeed(way), way.backward_travel_mode, name_id)

ProcessWay(c, parsed_way) ==
    LET way == Turned(parsed_way)
        split == SplitEdge(way)
        name_id == NameID(c.name_list, way.name)
        direction == IF split \/ way.backward_travel_mode = TRAVEL_MODE_INACCESSIBLE
                     THEN "oneway" ELSE "bidirectional"
        forward == Segments(way, way.path, direction, ForwardSpeed(way), way.forward_travel_mode, name_id)
    IN IF Dropped(parsed_way) THEN c
       ELSE [c EXCEPT
               !.name_list = IF name_id = Len(@) THEN Append(@, way.name) ELSE @,
               !.all_edges_list = @ \o forward \o (IF split THEN BackwardSegments(way, name_id) ELSE <<>>),
               !.used_node_id_list = @ \o way.path,
               !.way_start_end_id_list =
                   @ \o <<WayIDStartAndEndEdge(way.id, way.path)>>
                     \o (IF split THEN <<WayIDStartAndEndEdge(way.id, Reverse(way.path))>> ELSE <<>>)]

-----------------------------------------------------------------------------
(* Relations *)

NoRestriction(only) ==
    [fromWay |-> MaxID, toWay |-> MaxID, viaNode |-> MaxID, fromNode |-> MaxID, toNode |-> MaxID,
     isOnly |-> only]

\* ReadXMLRestriction: later members overwrite earlier ones; other kinds are passed over.
ReadMember(r, m) ==
    CASE m.role = "to" /\ m.type = "way" -> [r EXCEPT !.toWay = m.ref]
      [] m.role = "from" /\ m.type = "way" -> [r EXCEPT !.fromWay = m.ref]
      [] m.role = "via" /\ m.type = "node" -> [r EXCEPT !.viaNode = m.ref]
      [] OTHER -> r

\* What is not a boolean leaves the setting on, an error turns it off.
ReadUseRestrictionsSetting(profile) == profile.use_turn_restrictions \in {"unset", "true"}

ReadRestrictionExceptions(profile) == IF profile.get_exceptions THEN profile.exceptions ELSE {}

ShouldIgnoreRestriction(except, restriction_exceptions) == except \cap restriction_exceptions # {}

ReadXMLRestriction(relation, restriction_exceptions) ==
    LET read == FoldLeft(ReadMember, NoRestriction(relation.only), relation.members)
    IN IF ShouldIgnoreRestriction(relation.except, restriction_exceptions)
       THEN [read EXCEPT !.fromWay = MaxID] ELSE read

ProcessRestriction(c, restriction) == [c EXCEPT !.restrictions_list = Append(@, restriction)]

-----------------------------------------------------------------------------
(* Elements of an XML file *)

ReadXMLNode(element) ==
    [element EXCEPT !.id = IF "id" \in element.has THEN @ ELSE MaxID,
                    !.lat = IF "lat" \in element.has THEN @ ELSE NoCoordinate]

\* Tags are for the profile; children of other kinds are passed over.
ReadXMLWay(element) ==
    LET nds == SelectSeq(element.children, LAMBDA child : child.name = "nd" /\ child.ref # NoRef)
    IN [element EXCEPT !.path = @ \o [i \in DOMAIN nds |-> nds[i].ref]]

\* XMLParser::Parse: what one element does; elements of other kinds are passed over.
ParseElement(c, element, profile) ==
    CASE element.type = "node" -> ProcessNode(c, ReadXMLNode(element))
      [] element.type = "way" -> ProcessWay(c, ReadXMLWay(element))
      [] element.type = "relation" /\ ReadUseRestrictionsSetting(profile) ->
           LET restriction == ReadXMLRestriction(element, ReadRestrictionExceptions(profile))
           IN IF restriction.fromWay # MaxID THEN ProcessRestriction(c, restriction) ELSE c
      [] OTHER -> c
=============================================================================
