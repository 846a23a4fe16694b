---------------------------- MODULE SearchEngine ----------------------------
(***************************************************************************)
(* DataStructures/SearchEngine.h with the plugins that use it: a request   *)
(* for a route, a route with an alternative, or a table of distances.      *)
(***************************************************************************)
EXTENDS AlternativeRouting, ManyToManyRouting

CONSTANT Requests   \* [service, phantoms, uturns]

NoRequest == [service |-> "none", phantoms |-> <<>>, uturns |-> <<>>]

EngineInit ==
    /\ SearchInit
    /\ request = NoRequest
    /\ journey = StartOfJourney /\ alternatives = NoAlternatives /\ table = NoTable

\* The plugins refuse fewer than two locations.
Accept(r) ==
    /\ turn = "none"
    /\ request' = r
    /\ turn' = IF Len(r.phantoms) < 2 THEN "refused" ELSE "idle"
    /\ UNCHANGED <<query_graph, leg, forward_heap, reverse_heap, middle, upper_bound, min_edge_offset,
                   journey, alternatives, table>>

\* ViaRoutePlugin: an alternative is only looked for if the route has one leg.
HandleViaRoute ==
    \E r \in {q \in Requests : q.service \in {"route", "alternative"}} :
      Accept([r EXCEPT !.service = IF Len(r.phantoms) > 2 THEN "route" ELSE @])

\* DistanceTablePlugin
HandleTable == \E r \in {q \in Requests : q.service = "table"} : Accept(r)

RoutingStep == RoutingStepForward \/ RoutingStepReverse

\* A step of one of the loops.
EngineStep ==
    \/ RoutingStep /\ UNCHANGED <<request, journey, alternatives, table>>
    \/ (StartLeg \/ SearchSecondTarget \/ FinishLeg) /\ UNCHANGED <<alternatives, table>>
    \/ (StartAlternative \/ AlternativeStepForward \/ AlternativeStepReverse) /\ UNCHANGED table
    \/ (StartTable \/ BackwardRoutingStep \/ ForwardRoutingStep \/ NextLocation)
       /\ UNCHANGED alternatives
=============================================================================
