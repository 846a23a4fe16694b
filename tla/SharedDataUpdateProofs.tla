----------------------- MODULE SharedDataUpdateProofs -----------------------
(***************************************************************************)
(* What the exchange of data sets guarantees under the operating rules of  *)
(* SharedData, for every number of servers, workers and datastore runs and *)
(* any number of killed servers.  Excluded: a datastore that is killed,    *)
(* the use of unlock_all_mutexes, and exceptions that outside causes raise *)
(* (a leaf file that is gone, a plugin that throws).                       *)
(***************************************************************************)
EXTENDS SharedDataProofs

OperatingRules ==
    /\ Discipline = Rules
    /\ MaxStoreCrashes = 0 /\ MaxUnlocks = 0 /\ MaxThrows = 0

\* Control states of a running datastore: before it chose a bank, before its swap,
\* and after it.
Choosing == {"s_pending", "s_choose"}
Filling == {"s_getLayout", "s_getData", "s_fill", "s_lock", "s_layout"}
Swapped == {"s_deleteData", "s_deleteLayout", "s_release"}
Working == Choosing \cup Filling \cup {"s_data", "s_timestamp"} \cup Swapped

Layouts == {"LAYOUT_1", "LAYOUT_2"}
Datas == {"DATA_1", "DATA_2"}

NoFaults ==
    /\ storeCrashes = 0 /\ unlocks = 0 /\ throws = 0
    /\ \A d \in Stores : pc[d] # "s_crashed"

\* At most one datastore works, and no server starts while it does.
OneStore ==
    /\ \A d, e \in Stores : pc[d] \in Working /\ pc[e] \in Working => d = e
    /\ \A d \in Stores : pc[d] \in Working => \A s \in Servers : pc[s] \in {"off", "up"}

\* CURRENT_REGIONS names a bank that holds a complete data set.
PublishedBank ==
    /\ \/ data_timestamp.layout = "LAYOUT_1" /\ data_timestamp.data = "DATA_1"
       \/ data_timestamp.layout = "LAYOUT_2" /\ data_timestamp.data = "DATA_2"
    /\ data_timestamp.timestamp > 0
    /\ shm[data_timestamp.layout] \in complete
    /\ shm[data_timestamp.data] = shm[data_timestamp.layout]

Unpublished ==
    /\ data_timestamp.layout = "CURRENT_REGIONS" /\ data_timestamp.data = "CURRENT_REGIONS"
    /\ data_timestamp.timestamp = 0

\* The bank in use is known by the existence of LAYOUT_2: this is what
\* datastore relies on when it chooses the other one.
Settled ==
    \/ Unpublished /\ shm["LAYOUT_2"] = NoSegment
    \/ PublishedBank /\ (data_timestamp.layout = "LAYOUT_1" => shm["LAYOUT_2"] = NoSegment)

\* The regions of datastore d at each step of its work.
StoreRegions(d) ==
    /\ pc[d] \in Choosing => Settled
    /\ pc[d] \in Filling =>
         /\ Unpublished \/ PublishedBank
         /\ data_timestamp.layout = "LAYOUT_2" <=> segment2_in_use[d]
    /\ pc[d] \in {"s_data", "s_timestamp"} \cup Swapped =>
         data_timestamp.layout = layout_region(d)
    /\ pc[d] \in {"s_timestamp"} \cup Swapped => data_timestamp.data = data_region(d)
    /\ pc[d] \in Swapped => data_timestamp.timestamp > 0
    /\ pc[d] \in Working \ (Choosing \cup {"s_getLayout"}) => shm[layout_region(d)] = d
    /\ pc[d] \in Working \ (Choosing \cup {"s_getLayout", "s_getData"}) => shm[data_region(d)] = d
    /\ pc[d] \in {"s_lock", "s_layout", "s_data", "s_timestamp"} \cup Swapped => d \in complete
    /\ pc[d] = "s_release" => shm[previous_layout_region(d)] = NoSegment

RegionsOK ==
    /\ \A d \in Stores : StoreRegions(d)
    /\ (\A d \in Stores : pc[d] \notin Working) => Settled
    /\ shm["CURRENT_REGIONS"] = Zeroed

\* Server s has the triple of the publication before the current one.
Behind(s) ==
    /\ CURRENT[s].timestamp < data_timestamp.timestamp
    /\ CURRENT[s].layout \in Layouts \ {data_timestamp.layout}
    /\ CURRENT[s].data \in Datas \ {data_timestamp.data}

\* The triple of a running server, and of one whose main thread loads the data.
ServerTriple(s) ==
    /\ pc[s] = "up" => data_timestamp.timestamp > 0
    /\ pc[s] = "up" =>
         \/ CURRENT[s] = data_timestamp
         \/ Behind(s)
         \/ \E d \in Stores : pc[d] \in {"s_data", "s_timestamp"}
         \/ \E t \in Threads : Home[t] = s /\ pc[t] \in {"rl_data", "rl_timestamp"}
    /\ pc[s] \in {"rl_check", "rl_remove", "rl_layout"} => CURRENT[s] = NoTriple
    /\ pc[s] \in {"rl_data", "rl_timestamp"} => CURRENT[s].layout = data_timestamp.layout
    /\ pc[s] = "rl_timestamp" => CURRENT[s].data = data_timestamp.data
    /\ pc[s] \in {"rl_getLayout", "rl_getData", "rl_load"} => CURRENT[s] = data_timestamp

\* The triples of all running servers relative to the swap of datastore d.
SwapTriples(d) ==
    \A s \in Servers : pc[s] = "up" =>
      /\ pc[d] \in Choosing \cup Filling => CURRENT[s] = data_timestamp
      /\ pc[d] \in {"s_data", "s_timestamp"} =>
           /\ CURRENT[s].layout = previous_layout_region(d)
           /\ CURRENT[s].data = previous_data_region(d)
           /\ CURRENT[s].timestamp = data_timestamp.timestamp
      /\ pc[d] \in Swapped => Behind(s)

\* A worker reloads what is behind.
ThreadTriple(t) ==
    /\ pc[t] \in {"rl_remove", "rl_layout"} => Behind(Home[t])
    /\ pc[t] \in {"rl_data", "rl_timestamp"} =>
         CURRENT[Home[t]].timestamp < data_timestamp.timestamp

TriplesOK ==
    /\ \A s \in Servers : ServerTriple(s)
    /\ \A d \in Stores : SwapTriples(d)
    /\ \A t \in Threads : ThreadTriple(t)

\* Segments mapped so far by the reload of actor a.
MappedFor(a) ==
    /\ pc[a] \in {"rl_getData", "rl_load"} =>
         m_layout_memory[Proc(a)] = shm[data_timestamp.layout]
    /\ pc[a] = "rl_load" => m_large_memory[Proc(a)] = shm[data_timestamp.data]

MappedSoFar == \A a \in Servers \cup Threads : MappedFor(a)

\* No worker of s is between copying the triple and loading the data.
NotMapping(s) ==
    \A t \in Threads : Home[t] = s => pc[t] \notin {"rl_getLayout", "rl_getData", "rl_load"}

\* A running server shows one complete data set, the published one when its triple
\* is the published one.
FacadeShows(s) ==
    pc[s] = "up" /\ NotMapping(s) =>
      /\ m_query_graph[s] \in complete
      /\ m_layout_memory[s] = m_query_graph[s] /\ m_large_memory[s] = m_query_graph[s]
      /\ CURRENT[s] = data_timestamp => m_query_graph[s] = shm[data_timestamp.layout]

FacadeOK == \A s \in Servers : FacadeShows(s)

Exchange == NoFaults /\ OneStore /\ RegionsOK /\ TriplesOK /\ MappedSoFar /\ FacadeOK

UInv == IInv /\ Exchange

\* A reload does not overlook a request that another worker is handling.
Marked == \A s \in Servers : Reloading(s) => Handling(s) \subseteq overtaken

\* The r-tree of a worker is the one of its server's data, or its timestamp is old.
TreeFor(t) ==
    /\ pc[Home[t]] # "up" => m_static_rtree[t].timestamp = 0
    /\ pc[Home[t]] = "up" =>
         \/ m_static_rtree[t].timestamp < CURRENT[Home[t]].timestamp
         \/ /\ m_static_rtree[t].timestamp = CURRENT[Home[t]].timestamp
            /\ NotMapping(Home[t])
            /\ m_static_rtree[t].tree = m_query_graph[Home[t]]

\* A query has read nothing but its server's data; at its end the server may already
\* show other data.
SeenFor(t) ==
    /\ pc[t] = "q_graph" => seen[t] = {m_query_graph[Home[t]]}
    /\ pc[t] = "q_finish" => \E d \in complete : seen[t] = {d}

SeenNothing ==
    \A t \in Threads :
      pc[t] \notin {"idle", "q_graph", "q_finish", "q_leave", "q_decrement"} => seen[t] = {}

ReadsOK ==
    /\ Marked /\ SeenNothing
    /\ \A t \in Threads \ overtaken : TreeFor(t) /\ SeenFor(t)

-----------------------------------------------------------------------------
(* What holds inside the sections of the query mutex *)

\* Two triples with equal fields are equal.
LEMMA TripleEqual ==
    ASSUME NEW r \in SharedDataTimestamp, NEW q \in SharedDataTimestamp,
           r.layout = q.layout, r.data = q.data, r.timestamp = q.timestamp
    PROVE  r = q
BY DEF SharedDataTimestamp

\* A worker in its section is alone, and no datastore swaps.
LEMMA Alone ==
    ASSUME UInv, NEW t \in Threads, pc[t] \in ThreadQueryPC
    PROVE  /\ \A d \in Stores : pc[d] \notin StoreQueryPC
           /\ \A u \in Threads : pc[u] \in ThreadQueryPC => u = t
<1>1. \A a, b \in QueryHolders : a = b
  BY Exclusion DEF UInv, IInv, Exchange, NoFaults, QueryExclusion
<1> QED
  BY <1>1, ConstantsAssumption DEF QueryHolders, HoldsQuery

\* A datastore that swaps is alone.
LEMMA AloneStore ==
    ASSUME UInv, NEW d \in Stores, pc[d] \in StoreQueryPC
    PROVE  \A t \in Threads : pc[t] \notin ThreadQueryPC
BY Alone

\* Before and after the swap CURRENT_REGIONS is still empty or names a complete bank.
LEMMA StableBank ==
    ASSUME UInv, \A d \in Stores : pc[d] \notin {"s_data", "s_timestamp"} \cup Swapped
    PROVE  Unpublished \/ PublishedBank
<1>1. CASE \A d \in Stores : pc[d] \notin Working
  BY <1>1 DEF UInv, Exchange, RegionsOK, Settled
<1>2. CASE \E d \in Stores : pc[d] \in Working
  <2>1. PICK d \in Stores : pc[d] \in Choosing \cup Filling
    BY <1>2 DEF Working
  <2>2. StoreRegions(d)
    BY DEF UInv, Exchange, RegionsOK
  <2> QED
    BY <2>1, <2>2 DEF StoreRegions, Settled
<1> QED
  BY <1>1, <1>2

\* The server of a busy worker runs, and in the worker's section the data it loads is
\* published and complete.
LEMMA WorkerBank ==
    ASSUME UInv, NEW t \in Threads, pc[t] \in ThreadQueryPC
    PROVE  /\ Home[t] \in Servers /\ pc[Home[t]] = "up"
           /\ PublishedBank
<1>1. Home[t] \in Servers /\ pc[Home[t]] = "up"
  BY ConstantsAssumption DEF UInv, IInv, DownIsIdle, ThreadQueryPC, ReloadPC
<1>2. data_timestamp.timestamp > 0
  BY <1>1 DEF UInv, Exchange, TriplesOK, ServerTriple
<1>3. \A d \in Stores : pc[d] \notin {"s_data", "s_timestamp"} \cup Swapped
  BY Alone DEF StoreQueryPC, Swapped
<1>4. Unpublished \/ PublishedBank
  BY <1>3, StableBank
<1> QED
  BY <1>1, <1>2, <1>4 DEF Unpublished

\* No datastore works while a server starts.
LEMMA StarterBank ==
    ASSUME UInv, NEW s \in Servers, pc[s] \in ReloadPC
    PROVE  /\ \A d \in Stores : pc[d] \notin Working
           /\ Settled
           /\ \A t \in Threads : Home[t] = s => pc[t] = "idle"
<1>1. \A d \in Stores : pc[d] \notin Working
  BY DEF UInv, Exchange, OneStore, ReloadPC
<1>2. pc[s] # "up"
  BY DEF ReloadPC
<1> QED
  BY <1>1, <1>2 DEF UInv, IInv, Exchange, RegionsOK, DownIsIdle

\* The regions depend on the datastores and the shared memory only.
LEMMA RegionsFrame ==
    ASSUME RegionsOK, UNCHANGED <<shm, data_timestamp, complete, segment2_in_use>>,
           \A d \in Stores : pc'[d] = pc[d]
    PROVE  RegionsOK'
<1>1. \A d \in Stores : StoreRegions(d)' 
  BY DEF RegionsOK, StoreRegions, Settled, Unpublished, PublishedBank, layout_region, data_region,
         previous_layout_region
<1>2. Settled => Settled'
  BY DEF Settled, Unpublished, PublishedBank
<1> QED
  BY <1>1, <1>2 DEF RegionsOK

Mapping == {"rl_remove", "rl_layout", "rl_data", "rl_timestamp", "rl_getLayout", "rl_getData",
            "rl_load"}

\* Steps of a worker outside of the reload.
LEMMA WorkerMoves ==
    ASSUME UInv, NEW t \in Threads, pc[t] \notin Mapping, NEW to, to \notin Mapping,
           pc' = [pc EXCEPT ![t] = to],
           UNCHANGED <<shm, data_timestamp, complete, segment2_in_use, facade,
                       storeCrashes, unlocks, throws>>
    PROVE  Exchange'
<1>0. /\ \A a \in Servers \cup Stores : pc'[a] = pc[a]
      /\ \A u \in Threads : pc'[u] = IF u = t THEN to ELSE pc[u]
  BY ConstantsAssumption DEF UInv, IInv, TypeOK, Actors
<1>1. NoFaults'
  BY <1>0 DEF UInv, Exchange, NoFaults
<1>2. OneStore'
  BY <1>0 DEF UInv, Exchange, OneStore
<1>3. RegionsOK'
  BY <1>0, RegionsFrame DEF UInv, Exchange
<1>4. TriplesOK'
  <2>1. \A s \in Servers : ServerTriple(s)'
    BY <1>0 DEF UInv, Exchange, TriplesOK, ServerTriple, Behind, facade, Mapping
  <2>2. \A d \in Stores : SwapTriples(d)'
    BY <1>0 DEF UInv, Exchange, TriplesOK, SwapTriples, Behind, facade, previous_layout_region,
                previous_data_region
  <2>3. \A u \in Threads : ThreadTriple(u)'
    BY <1>0 DEF UInv, Exchange, TriplesOK, ThreadTriple, Behind, facade, Mapping
  <2> QED
    BY <2>1, <2>2, <2>3 DEF TriplesOK
<1>5. MappedSoFar'
  BY <1>0 DEF UInv, Exchange, MappedSoFar, MappedFor, facade, Mapping, Proc
<1>6. FacadeOK'
  BY <1>0 DEF UInv, Exchange, FacadeOK, FacadeShows, NotMapping, facade, Mapping
<1> QED
  BY <1>1, <1>2, <1>3, <1>4, <1>5, <1>6 DEF Exchange

-----------------------------------------------------------------------------
(* osrm-datastore *)

\* What concerns only the servers is kept when a datastore changes neither
\* CURRENT_REGIONS nor the segments it names.
LEMMA StoreMoves ==
    ASSUME UInv, NEW d \in Stores, NEW to,
           pc[d] \in Choosing \cup Filling, to \in Choosing \cup Filling,
           pc' = [pc EXCEPT ![d] = to],
           UNCHANGED <<data_timestamp, facade, storeCrashes, unlocks, throws>>,
           shm'[data_timestamp.layout] = shm[data_timestamp.layout],
           shm'[data_timestamp.data] = shm[data_timestamp.data],
           complete \subseteq complete'
    PROVE  NoFaults' /\ OneStore' /\ TriplesOK' /\ MappedSoFar' /\ FacadeOK'
<1>0. /\ \A a \in Servers \cup Threads : pc'[a] = pc[a]
      /\ \A e \in Stores : pc'[e] = IF e = d THEN to ELSE pc[e]
  BY ConstantsAssumption DEF UInv, IInv, TypeOK, Actors
<1>1. NoFaults'
  BY <1>0 DEF UInv, Exchange, NoFaults, Choosing, Filling
<1>2. OneStore'
  BY <1>0 DEF UInv, Exchange, OneStore, Working
<1>3. TriplesOK'
  <2>1. \A s \in Servers : ServerTriple(s)'
    BY <1>0 DEF UInv, Exchange, TriplesOK, ServerTriple, Behind, facade, Choosing, Filling
  <2>2. \A e \in Stores : SwapTriples(e)'
    <3> SUFFICES ASSUME NEW e \in Stores, NEW s \in Servers, pc[s] = "up", pc[e] \in Working
                 PROVE  CURRENT[s] = data_timestamp /\ e = d
      BY <1>0 DEF SwapTriples, facade, Working, Choosing, Filling, Swapped
    <3> QED
      BY DEF UInv, Exchange, OneStore, TriplesOK, SwapTriples, Working
  <2>3. \A u \in Threads : ThreadTriple(u)'
    BY <1>0 DEF UInv, Exchange, TriplesOK, ThreadTriple, Behind, facade
  <2> QED
    BY <2>1, <2>2, <2>3 DEF TriplesOK
<1>4. MappedSoFar'
  BY <1>0 DEF UInv, Exchange, MappedSoFar, MappedFor, facade, Proc
<1>5. FacadeOK'
  BY <1>0 DEF UInv, Exchange, FacadeOK, FacadeShows, NotMapping, facade
<1> QED
  BY <1>1, <1>2, <1>3, <1>4, <1>5

\* A datastore starts when no other one runs and every server is up to date.
LEMMA StartStoreKeeps ==
    ASSUME UInv, OperatingRules, NEW d \in Stores, StartStore(d)
    PROVE  Exchange'
<1>0. /\ \A a \in Servers \cup Threads : pc'[a] = pc[a]
      /\ \A e \in Stores : pc'[e] = IF e = d THEN "s_pending" ELSE pc[e]
  BY ConstantsAssumption DEF UInv, IInv, TypeOK, Actors, StartStore, Goto
<1>1. /\ \A e \in Stores : pc[e] \in {"s_start", "s_done", "s_crashed"}
      /\ \A s \in Servers : pc[s] = "up" => CURRENT[s] = data_timestamp
      /\ \A s \in Servers : pc[s] \in {"off", "up"}
  BY DEF StartStore, OperatingRules, Rules
<1>2. UNCHANGED <<shm, data_timestamp, complete, segment2_in_use, CURRENT, m_layout_memory,
                  m_large_memory, m_query_graph, storeCrashes, unlocks, throws>>
  BY DEF StartStore, facade, faults
<1>3. NoFaults'
  BY <1>0, <1>2 DEF UInv, Exchange, NoFaults
<1>4. OneStore'
  BY <1>0, <1>1 DEF OneStore, Working, Choosing, Filling, Swapped
<1>5. RegionsOK'
  <2>1. Settled'
    BY <1>1, <1>2 DEF UInv, Exchange, RegionsOK, Settled, Unpublished, PublishedBank, Working,
                      Choosing, Filling, Swapped
  <2>2. \A e \in Stores : StoreRegions(e)'
    BY <2>1, <1>0, <1>1 DEF StoreRegions, Working, Choosing, Filling, Swapped
  <2> QED
    BY <2>1, <2>2, <1>2 DEF UInv, Exchange, RegionsOK
<1>6. TriplesOK'
  <2>1. \A s \in Servers : ServerTriple(s)'
    BY <1>0, <1>1, <1>2 DEF UInv, Exchange, TriplesOK, ServerTriple, Behind
  <2>2. \A e \in Stores : SwapTriples(e)'
    BY <1>0, <1>1, <1>2 DEF SwapTriples, Choosing, Filling, Swapped
  <2>3. \A u \in Threads : ThreadTriple(u)'
    BY <1>0, <1>2 DEF UInv, Exchange, TriplesOK, ThreadTriple, Behind
  <2> QED
    BY <2>1, <2>2, <2>3 DEF TriplesOK
<1>7. MappedSoFar'
  BY <1>0, <1>2 DEF UInv, Exchange, MappedSoFar, MappedFor, Proc
<1>8. FacadeOK'
  BY <1>0, <1>2 DEF UInv, Exchange, FacadeOK, FacadeShows, NotMapping
<1> QED
  BY <1>3, <1>4, <1>5, <1>6, <1>7, <1>8 DEF Exchange

\* It gives pending_update back at once.
LEMMA ReleasePendingKeeps ==
    ASSUME UInv, NEW d \in Stores, ReleasePending(d)
    PROVE  Exchange'
<1>0. \A e \in Stores : pc'[e] = IF e = d THEN "s_choose" ELSE pc[e]
  BY ConstantsAssumption DEF UInv, IInv, TypeOK, Actors, ReleasePending, Goto
<1>1. NoFaults' /\ OneStore' /\ TriplesOK' /\ MappedSoFar' /\ FacadeOK'
  BY StoreMoves DEF ReleasePending, Goto, Choosing, faults
<1>2. UNCHANGED <<shm, data_timestamp, complete, segment2_in_use>> /\ pc[d] = "s_pending"
  BY DEF ReleasePending, Goto
<1>3. Settled'
  BY <1>2 DEF UInv, Exchange, RegionsOK, StoreRegions, Choosing, Settled, Unpublished, PublishedBank
<1>4. \A e \in Stores : StoreRegions(e)'
  BY <1>0, <1>2, <1>3 DEF UInv, Exchange, RegionsOK, StoreRegions, Choosing, Filling, Swapped, Working,
         Unpublished, PublishedBank, layout_region, data_region, previous_layout_region
<1> QED
  BY <1>1, <1>2, <1>3, <1>4 DEF UInv, Exchange, RegionsOK

\* The bank that CURRENT_REGIONS does not name is chosen.
LEMMA ChooseSegmentKeeps ==
    ASSUME UInv, NEW d \in Stores, ChooseSegment(d)
    PROVE  Exchange'
<1>0. \A e \in Stores : pc'[e] = IF e = d THEN "s_getLayout" ELSE pc[e]
  BY ConstantsAssumption DEF UInv, IInv, TypeOK, Actors, ChooseSegment, Goto
<1>1. NoFaults' /\ OneStore' /\ TriplesOK' /\ MappedSoFar' /\ FacadeOK'
  BY StoreMoves DEF ChooseSegment, Goto, Choosing, Filling, faults
<1>2. /\ UNCHANGED <<shm, data_timestamp, complete>> /\ pc[d] = "s_choose"
      /\ \A e \in Stores : segment2_in_use'[e] =
           IF e = d THEN shm["LAYOUT_2"] # NoSegment ELSE segment2_in_use[e]
  BY DEF ChooseSegment, Goto, RegionExists, UInv, IInv, TypeOK
<1>3. Settled
  BY <1>2 DEF UInv, Exchange, RegionsOK, StoreRegions, Choosing
<1>4. /\ (Unpublished \/ PublishedBank)'
      /\ data_timestamp.layout = "LAYOUT_2" <=> shm["LAYOUT_2"] # NoSegment
  BY <1>2, <1>3, ConstantsAssumption DEF UInv, IInv, TypeOK, Settled, Unpublished, PublishedBank
<1>5. \A e \in Stores : e # d => pc[e] \notin Working
  BY <1>2 DEF UInv, Exchange, OneStore, Working, Choosing
<1>6. \A e \in Stores : StoreRegions(e)'
  BY <1>0, <1>2, <1>4, <1>5 DEF StoreRegions, Choosing, Filling, Swapped, Working
<1>7. pc'[d] \in Working
  BY <1>0 DEF Working, Filling
<1> QED
  BY <1>1, <1>2, <1>6, <1>7 DEF UInv, Exchange, RegionsOK

\* The new layout goes to the bank that is not published.
LEMMA GetLayoutRegionKeeps ==
    ASSUME UInv, NEW d \in Stores, GetLayoutRegion(d)
    PROVE  Exchange'
<1>0. \A e \in Stores : pc'[e] = IF e = d THEN "s_getData" ELSE pc[e]
  BY ConstantsAssumption DEF UInv, IInv, TypeOK, Actors, GetLayoutRegion, Goto
<1>1. /\ UNCHANGED <<data_timestamp, complete, segment2_in_use>> /\ pc[d] = "s_getLayout"
      /\ \A r \in Regions : shm'[r] = IF r = layout_region(d) THEN d ELSE shm[r]
      /\ layout_region(d) \in Layouts
  BY DEF GetLayoutRegion, Goto, Created, UInv, IInv, TypeOK, layout_region, Layouts
<1>2. /\ Unpublished \/ PublishedBank
      /\ data_timestamp.layout = "LAYOUT_2" <=> segment2_in_use[d]
  BY <1>1 DEF UInv, Exchange, RegionsOK, StoreRegions, Filling
<1>3. /\ shm'[data_timestamp.layout] = shm[data_timestamp.layout]
      /\ shm'[data_timestamp.data] = shm[data_timestamp.data]
      /\ shm'["CURRENT_REGIONS"] = shm["CURRENT_REGIONS"]
  BY <1>1, <1>2 DEF Unpublished, PublishedBank, layout_region, Regions
<1>4. NoFaults' /\ OneStore' /\ TriplesOK' /\ MappedSoFar' /\ FacadeOK'
  BY <1>3, StoreMoves DEF GetLayoutRegion, Goto, Filling, faults
<1>5. (Unpublished \/ PublishedBank)'
  BY <1>1, <1>2, <1>3 DEF Unpublished, PublishedBank
<1>6. \A e \in Stores : e # d => pc[e] \notin Working
  BY <1>1 DEF UInv, Exchange, OneStore, Working, Filling
<1>7. shm'[layout_region(d)] = d /\ layout_region(d)' = layout_region(d)
  BY <1>1 DEF Regions, Layouts, layout_region
<1>8. \A e \in Stores : StoreRegions(e)'
  BY <1>0, <1>1, <1>2, <1>5, <1>6, <1>7 DEF StoreRegions, Choosing, Filling, Swapped, Working
<1>9. pc'[d] \in Working
  BY <1>0 DEF Working, Filling
<1> QED
  BY <1>3, <1>4, <1>8, <1>9 DEF UInv, Exchange, RegionsOK

\* So does the new data.
LEMMA GetDataRegionKeeps ==
    ASSUME UInv, NEW d \in Stores, GetDataRegion(d)
    PROVE  Exchange'
<1>0. \A e \in Stores : pc'[e] = IF e = d THEN "s_fill" ELSE pc[e]
  BY ConstantsAssumption DEF UInv, IInv, TypeOK, Actors, GetDataRegion, Goto
<1>1. /\ UNCHANGED <<data_timestamp, complete, segment2_in_use>> /\ pc[d] = "s_getData"
      /\ \A r \in Regions : shm'[r] = IF r = data_region(d) THEN d ELSE shm[r]
      /\ data_region(d) \in Datas
  BY DEF GetDataRegion, Goto, Created, UInv, IInv, TypeOK, data_region, Datas
<1>2. /\ Unpublished \/ PublishedBank
      /\ data_timestamp.layout = "LAYOUT_2" <=> segment2_in_use[d]
      /\ shm[layout_region(d)] = d
  BY <1>1 DEF UInv, Exchange, RegionsOK, StoreRegions, Filling, Working, Choosing
<1>3. /\ shm'[data_timestamp.layout] = shm[data_timestamp.layout]
      /\ shm'[data_timestamp.data] = shm[data_timestamp.data]
      /\ shm'["CURRENT_REGIONS"] = shm["CURRENT_REGIONS"]
  BY <1>1, <1>2 DEF Unpublished, PublishedBank, data_region, Regions
<1>4. NoFaults' /\ OneStore' /\ TriplesOK' /\ MappedSoFar' /\ FacadeOK'
  BY <1>3, StoreMoves DEF GetDataRegion, Goto, Filling, faults
<1>5. (Unpublished \/ PublishedBank)'
  BY <1>1, <1>2, <1>3 DEF Unpublished, PublishedBank
<1>6. \A e \in Stores : e # d => pc[e] \notin Working
  BY <1>1 DEF UInv, Exchange, OneStore, Working, Filling
<1>7. /\ shm'[layout_region(d)] = d /\ layout_region(d)' = layout_region(d)
      /\ shm'[data_region(d)] = d /\ data_region(d)' = data_region(d)
  BY <1>1, <1>2 DEF Regions, Datas, layout_region, data_region
<1>8. \A e \in Stores : StoreRegions(e)'
  BY <1>0, <1>1, <1>2, <1>5, <1>6, <1>7 DEF StoreRegions, Choosing, Filling, Swapped, Working
<1>9. pc'[d] \in Working
  BY <1>0 DEF Working, Filling
<1> QED
  BY <1>3, <1>4, <1>8, <1>9 DEF UInv, Exchange, RegionsOK

\* The data is written, and the query mutex taken.
LEMMA FillDataKeeps ==
    ASSUME UInv, NEW d \in Stores, FillData(d) \/ LockForSwap(d)
    PROVE  Exchange'
<1> DEFINE to == IF pc[d] = "s_fill" THEN "s_lock" ELSE "s_layout"
<1>0. /\ \A e \in Stores : pc'[e] = IF e = d THEN to ELSE pc[e]
      /\ pc' = [pc EXCEPT ![d] = to] /\ pc[d] \in {"s_fill", "s_lock"}
  BY ConstantsAssumption DEF UInv, IInv, TypeOK, Actors, FillData, LockForSwap, Goto
<1>1. /\ UNCHANGED <<shm, data_timestamp, segment2_in_use, facade, storeCrashes, unlocks, throws>>
      /\ complete \subseteq complete' /\ d \in complete'
  BY <1>0 DEF FillData, LockForSwap, Goto, UInv, Exchange, RegionsOK, StoreRegions, faults
<1>2. NoFaults' /\ OneStore' /\ TriplesOK' /\ MappedSoFar' /\ FacadeOK'
  BY <1>0, <1>1, StoreMoves DEF Filling
<1>3. StoreRegions(d)
  BY DEF UInv, Exchange, RegionsOK
<1>4. (Unpublished \/ PublishedBank)'
  BY <1>0, <1>1, <1>3 DEF StoreRegions, Filling, Unpublished, PublishedBank
<1>5. \A e \in Stores : e # d => pc[e] \notin Working
  BY <1>0 DEF UInv, Exchange, OneStore, Working, Filling
<1>6. \A e \in Stores : StoreRegions(e)'
  BY <1>0, <1>1, <1>3, <1>4, <1>5 DEF StoreRegions, Choosing, Filling, Swapped, Working, layout_region,
         data_region
<1>7. pc'[d] \in Working
  BY <1>0 DEF Working, Filling
<1> QED
  BY <1>1, <1>2, <1>6, <1>7 DEF UInv, Exchange, RegionsOK

\* During the swap no worker is in a section of the query mutex and no server starts:
\* what has to be shown is about the regions and the triples of running servers.
LEMMA SwapFrame ==
    ASSUME UInv, NEW d \in Stores, pc[d] \in StoreQueryPC,
           NEW to \in {"s_data", "s_timestamp", "s_deleteData", "s_deleteLayout", "s_release", "s_done"},
           pc' = [pc EXCEPT ![d] = to],
           UNCHANGED <<facade, complete, segment2_in_use, storeCrashes, unlocks, throws>>,
           \A s \in Servers : pc[s] = "up" =>
             /\ data_timestamp'.timestamp > 0
             /\ CURRENT[s] # data_timestamp'
             /\ to \in {"s_data", "s_timestamp"} => SwapTriples(d)'
             /\ to \notin {"s_data", "s_timestamp"} => Behind(s)',
           to # "s_done" => StoreRegions(d)',
           to = "s_done" => Settled',
           shm'["CURRENT_REGIONS"] = shm["CURRENT_REGIONS"]
    PROVE  Exchange'
<1>0. /\ \A a \in Servers \cup Threads : pc'[a] = pc[a]
      /\ \A e \in Stores : pc'[e] = IF e = d THEN to ELSE pc[e]
  BY ConstantsAssumption DEF UInv, IInv, TypeOK, Actors
<1>1. /\ pc[d] \in Working
      /\ \A e \in Stores : e # d => pc[e] \notin Working
      /\ \A s \in Servers : pc[s] \in {"off", "up"}
  BY DEF UInv, Exchange, OneStore, Working, Filling, Swapped, StoreQueryPC
<1>2. \A t \in Threads : pc[t] \notin ReloadPC
  BY AloneStore DEF ThreadQueryPC
<1>3. NoFaults'
  BY <1>0 DEF UInv, Exchange, NoFaults
<1>4. OneStore'
  BY <1>0, <1>1 DEF OneStore
<1>5. RegionsOK'
  <2>1. \A e \in Stores : StoreRegions(e)'
    BY <1>0, <1>1 DEF StoreRegions, Working, Choosing, Filling, Swapped
  <2>2. (\A e \in Stores : pc'[e] \notin Working) => to = "s_done"
    BY <1>0 DEF Working, Swapped
  <2> QED
    BY <2>1, <2>2 DEF UInv, Exchange, RegionsOK
<1>6. TriplesOK'
  <2>1. \A s \in Servers : ServerTriple(s)'
    BY <1>0, <1>1 DEF ServerTriple
  <2>2. \A e \in Stores : SwapTriples(e)'
    <3>1. ASSUME NEW e \in Stores, e # d PROVE SwapTriples(e)'
      BY <3>1, <1>0, <1>1 DEF SwapTriples, Working
    <3>2. CASE to \in {"s_data", "s_timestamp"} /\ \E s \in Servers : pc[s] = "up"
      BY <3>1, <3>2
    <3>3. CASE ~\E s \in Servers : pc[s] = "up"
      BY <3>3, <1>0 DEF SwapTriples
    <3>4. CASE to \notin {"s_data", "s_timestamp"}
      <4>1. SwapTriples(d)'
        BY <3>4, <1>0 DEF SwapTriples, Choosing, Filling
      <4> QED
        BY <4>1, <3>1
    <3> QED
      BY <3>2, <3>3, <3>4
  <2>3. \A u \in Threads : ThreadTriple(u)'
    BY <1>0, <1>2 DEF ThreadTriple, ReloadPC
  <2> QED
    BY <2>1, <2>2, <2>3 DEF TriplesOK
<1>7. MappedSoFar'
  BY <1>0, <1>1, <1>2 DEF MappedSoFar, MappedFor, ReloadPC
<1>8. FacadeOK'
  BY <1>0 DEF UInv, Exchange, FacadeOK, FacadeShows, NotMapping, facade
<1> QED
  BY <1>3, <1>4, <1>5, <1>6, <1>7, <1>8 DEF Exchange

\* First assignment of the swap: running servers now have the previous layout.
LEMMA SwapLayoutKeeps ==
    ASSUME UInv, NEW d \in Stores, SwapLayout(d)
    PROVE  Exchange'
<1>0. /\ pc' = [pc EXCEPT ![d] = "s_data"] /\ pc[d] = "s_layout" /\ pc'[d] = "s_data"
      /\ UNCHANGED <<shm, complete, segment2_in_use, facade, storeCrashes, unlocks, throws>>
      /\ CURRENT' = CURRENT
      /\ \A s \in Servers : pc'[s] = pc[s]
  BY ConstantsAssumption DEF SwapLayout, Goto, faults, facade, UInv, IInv, TypeOK, Actors
<1>1. /\ data_timestamp'.layout = layout_region(d)
      /\ data_timestamp'.data = data_timestamp.data
      /\ data_timestamp'.timestamp = data_timestamp.timestamp
      /\ data_timestamp.timestamp \in Nat
  BY DEF SwapLayout, UInv, IInv, TypeOK, SharedDataTimestamp
<1>2. StoreRegions(d) /\ SwapTriples(d)
  BY DEF UInv, Exchange, RegionsOK, TriplesOK
<1>3. StoreRegions(d)'
  BY <1>0, <1>1, <1>2 DEF StoreRegions, Choosing, Filling, Swapped, Working, layout_region, data_region
<1>4. ASSUME NEW s \in Servers, pc[s] = "up"
      PROVE  /\ CURRENT[s].layout = previous_layout_region(d)
             /\ CURRENT[s].data = previous_data_region(d)
             /\ CURRENT[s].timestamp = data_timestamp.timestamp
             /\ data_timestamp.timestamp > 0
  <2>1. CURRENT[s] = data_timestamp /\ data_timestamp.timestamp > 0
    BY <1>4, <1>0, <1>2 DEF SwapTriples, Filling, UInv, Exchange, TriplesOK, ServerTriple
  <2>2. PublishedBank /\ (data_timestamp.layout = "LAYOUT_2" <=> segment2_in_use[d])
    BY <2>1, <1>0, <1>2 DEF StoreRegions, Filling, Unpublished
  <2> QED
    BY <2>1, <2>2 DEF PublishedBank, previous_layout_region, previous_data_region
<1>5. \A s \in Servers : pc[s] = "up" => CURRENT[s] # data_timestamp'
  BY <1>1, <1>4 DEF layout_region, previous_layout_region
<1>6. SwapTriples(d)'
  BY <1>0, <1>1, <1>4 DEF SwapTriples, Choosing, Filling, Swapped, previous_layout_region,
                          previous_data_region
<1> QED
  BY <1>0, <1>1, <1>3, <1>4, <1>5, <1>6, SwapFrame DEF StoreQueryPC

\* Second assignment of the swap.
LEMMA SwapDataKeeps ==
    ASSUME UInv, NEW d \in Stores, SwapData(d)
    PROVE  Exchange'
<1>0. /\ pc' = [pc EXCEPT ![d] = "s_timestamp"] /\ pc[d] = "s_data" /\ pc'[d] = "s_timestamp"
      /\ UNCHANGED <<shm, complete, segment2_in_use, facade, storeCrashes, unlocks, throws>>
      /\ CURRENT' = CURRENT
      /\ \A s \in Servers : pc'[s] = pc[s]
  BY ConstantsAssumption DEF SwapData, Goto, faults, facade, UInv, IInv, TypeOK, Actors
<1>1. /\ data_timestamp'.layout = data_timestamp.layout
      /\ data_timestamp'.data = data_region(d)
      /\ data_timestamp'.timestamp = data_timestamp.timestamp
      /\ data_timestamp.timestamp \in Nat
  BY DEF SwapData, UInv, IInv, TypeOK, SharedDataTimestamp
<1>2. StoreRegions(d) /\ SwapTriples(d)
  BY DEF UInv, Exchange, RegionsOK, TriplesOK
<1>3. StoreRegions(d)'
  BY <1>0, <1>1, <1>2 DEF StoreRegions, Choosing, Filling, Swapped, Working, layout_region, data_region
<1>4. ASSUME NEW s \in Servers, pc[s] = "up"
      PROVE  /\ CURRENT[s].layout = previous_layout_region(d)
             /\ CURRENT[s].data = previous_data_region(d)
             /\ CURRENT[s].timestamp = data_timestamp.timestamp
             /\ data_timestamp.timestamp > 0
  BY <1>4, <1>0, <1>2 DEF SwapTriples, UInv, Exchange, TriplesOK, ServerTriple
<1>5. \A s \in Servers : pc[s] = "up" => CURRENT[s] # data_timestamp'
  BY <1>1, <1>4 DEF data_region, previous_data_region
<1>6. SwapTriples(d)'
  BY <1>0, <1>1, <1>4 DEF SwapTriples, Choosing, Filling, Swapped, previous_layout_region,
                          previous_data_region
<1> QED
  BY <1>0, <1>1, <1>3, <1>4, <1>5, <1>6, SwapFrame DEF StoreQueryPC

\* Third assignment of the swap: every running server is behind.
LEMMA SwapTimestampKeeps ==
    ASSUME UInv, NEW d \in Stores, SwapTimestamp(d)
    PROVE  Exchange'
<1>0. /\ pc' = [pc EXCEPT ![d] = "s_deleteData"] /\ pc[d] = "s_timestamp" /\ pc'[d] = "s_deleteData"
      /\ UNCHANGED <<shm, complete, segment2_in_use, facade, storeCrashes, unlocks, throws>>
      /\ CURRENT' = CURRENT
  BY ConstantsAssumption DEF SwapTimestamp, Goto, faults, facade, UInv, IInv, TypeOK, Actors
<1>1. /\ data_timestamp'.layout = data_timestamp.layout
      /\ data_timestamp'.data = data_timestamp.data
      /\ data_timestamp'.timestamp = data_timestamp.timestamp + 1
      /\ data_timestamp.timestamp \in Nat
  BY DEF SwapTimestamp, UInv, IInv, TypeOK, SharedDataTimestamp
<1>2. StoreRegions(d) /\ SwapTriples(d)
  BY DEF UInv, Exchange, RegionsOK, TriplesOK
<1>3. StoreRegions(d)'
  BY <1>0, <1>1, <1>2 DEF StoreRegions, Choosing, Filling, Swapped, Working, layout_region, data_region
<1>4. ASSUME NEW s \in Servers, pc[s] = "up"
      PROVE  Behind(s)'
  BY <1>4, <1>0, <1>1, <1>2 DEF SwapTriples, Behind, StoreRegions, layout_region, data_region,
         previous_layout_region, previous_data_region, Layouts, Datas
<1>5. \A s \in Servers : pc[s] = "up" => CURRENT[s] # data_timestamp'
  BY <1>0, <1>1, <1>4 DEF Behind
<1>6. data_timestamp'.timestamp > 0
  BY <1>1
<1>7. shm'["CURRENT_REGIONS"] = shm["CURRENT_REGIONS"]
  BY <1>0
<1> QED
  BY <1>0, <1>3, <1>4, <1>5, <1>6, <1>7, SwapFrame DEF StoreQueryPC

\* The deletion of the previous bank, data first.
LEMMA DeletePreviousKeeps ==
    ASSUME UInv, NEW d \in Stores, DeletePreviousData(d) \/ DeletePreviousLayout(d)
    PROVE  Exchange'
<1> DEFINE to == IF pc[d] = "s_deleteData" THEN "s_deleteLayout" ELSE "s_release"
<1>0. /\ pc' = [pc EXCEPT ![d] = to] /\ pc[d] \in {"s_deleteData", "s_deleteLayout"} /\ pc'[d] = to
      /\ UNCHANGED <<data_timestamp, complete, segment2_in_use, facade, storeCrashes, unlocks, throws>>
      /\ CURRENT' = CURRENT
  BY ConstantsAssumption DEF DeletePreviousData, DeletePreviousLayout, Goto, faults, facade, UInv, IInv,
                             TypeOK, Actors
<1>1. \A r \in Regions : shm'[r] =
        IF pc[d] = "s_deleteData" /\ r = previous_data_region(d) THEN NoSegment
        ELSE IF pc[d] = "s_deleteLayout" /\ r = previous_layout_region(d) THEN NoSegment
        ELSE shm[r]
  BY DEF DeletePreviousData, DeletePreviousLayout, Goto, Removed, UInv, IInv, TypeOK
<1>2. StoreRegions(d) /\ SwapTriples(d)
  BY DEF UInv, Exchange, RegionsOK, TriplesOK
<1>3. /\ shm'["CURRENT_REGIONS"] = shm["CURRENT_REGIONS"]
      /\ shm'[layout_region(d)] = shm[layout_region(d)]
      /\ shm'[data_region(d)] = shm[data_region(d)]
      /\ pc[d] = "s_deleteLayout" => shm'[previous_layout_region(d)] = NoSegment
  BY <1>1 DEF Regions, layout_region, data_region, previous_layout_region, previous_data_region
<1>4. /\ layout_region(d)' = layout_region(d) /\ data_region(d)' = data_region(d)
      /\ previous_layout_region(d)' = previous_layout_region(d)
  BY <1>0 DEF layout_region, data_region, previous_layout_region
<1>5. StoreRegions(d)'
  BY <1>0, <1>2, <1>3, <1>4 DEF StoreRegions, Choosing, Filling, Swapped, Working
<1>6. ASSUME NEW s \in Servers, pc[s] = "up"
      PROVE  Behind(s)' /\ CURRENT[s] # data_timestamp /\ data_timestamp.timestamp > 0
  BY <1>6, <1>0, <1>2 DEF SwapTriples, Behind, Swapped, StoreRegions
<1> QED
  BY <1>0, <1>3, <1>5, <1>6, SwapFrame DEF StoreQueryPC

\* After the swap the new bank is published and the other one is gone.
LEMMA ReleaseAfterSwapKeeps ==
    ASSUME UInv, NEW d \in Stores, ReleaseAfterSwap(d)
    PROVE  Exchange'
<1>0. /\ pc' = [pc EXCEPT ![d] = "s_done"] /\ pc[d] = "s_release"
      /\ UNCHANGED <<shm, data_timestamp, complete, segment2_in_use, facade, storeCrashes, unlocks, throws>>
      /\ CURRENT' = CURRENT
  BY DEF ReleaseAfterSwap, Goto, faults, facade
<1>2. StoreRegions(d) /\ SwapTriples(d)
  BY DEF UInv, Exchange, RegionsOK, TriplesOK
<1>3. Settled
  BY <1>0, <1>2 DEF StoreRegions, Swapped, Working, Choosing, layout_region, data_region,
                    previous_layout_region, Settled, PublishedBank
<1>4. Settled'
  BY <1>0, <1>3 DEF Settled, Unpublished, PublishedBank
<1>5. ASSUME NEW s \in Servers, pc[s] = "up"
      PROVE  Behind(s)' /\ CURRENT[s] # data_timestamp /\ data_timestamp.timestamp > 0
  BY <1>5, <1>0, <1>2 DEF SwapTriples, Behind, Swapped, StoreRegions
<1> QED
  BY <1>0, <1>4, <1>5, SwapFrame DEF StoreQueryPC

-----------------------------------------------------------------------------
(* CheckAndReloadFacade *)

\* No update is under way while a worker replaces its data.
LEMMA NoUpdate ==
    ASSUME UInv, NEW t \in Threads, pc[t] \in ThreadQueryPC, CURRENT[Home[t]] # data_timestamp
    PROVE  /\ \A d \in Stores : pc[d] \notin Working
           /\ Settled
<1>1. Home[t] \in Servers /\ pc[Home[t]] = "up"
  BY WorkerBank
<1>2. \A d \in Stores : pc[d] \notin StoreQueryPC
  BY Alone
<1>3. \A d \in Stores : pc[d] \notin Choosing \cup Filling
  BY <1>1 DEF UInv, Exchange, TriplesOK, SwapTriples
<1>4. \A d \in Stores : pc[d] \notin Working
  BY <1>2, <1>3 DEF Working, Swapped, StoreQueryPC
<1> QED
  BY <1>4 DEF UInv, Exchange, RegionsOK

\* A step of a worker in its reload: only the facade of its own server changes, and the
\* segments that CURRENT_REGIONS names stay.
LEMMA WorkerReloads ==
    ASSUME UInv, NEW t \in Threads, pc[t] \in ReloadPC,
           NEW to \in ReloadPC \cup {"q_release"},
           pc' = [pc EXCEPT ![t] = to],
           UNCHANGED <<data_timestamp, complete, storeCrashes, unlocks, throws>>,
           shm'[data_timestamp.layout] = shm[data_timestamp.layout],
           shm'[data_timestamp.data] = shm[data_timestamp.data],
           \A p \in Servers \ {Home[t]} :
             /\ CURRENT'[p] = CURRENT[p]
             /\ m_layout_memory'[p] = m_layout_memory[p]
             /\ m_large_memory'[p] = m_large_memory[p]
             /\ m_query_graph'[p] = m_query_graph[p],
           CURRENT' = CURRENT \/ \A d \in Stores : pc[d] \notin Working,
           RegionsOK', ServerTriple(Home[t])', ThreadTriple(t)', MappedFor(t)',
           FacadeShows(Home[t])'
    PROVE  Exchange'
<1>0. /\ \A a \in Servers \cup Stores : pc'[a] = pc[a]
      /\ \A u \in Threads : pc'[u] = IF u = t THEN to ELSE pc[u]
  BY ConstantsAssumption DEF UInv, IInv, TypeOK, Actors
<1>1. Home[t] \in Servers /\ pc[Home[t]] = "up"
  BY WorkerBank DEF ThreadQueryPC
<1>2. \A d \in Stores : pc[d] \notin StoreQueryPC
  BY Alone DEF ThreadQueryPC
<1>3. \A u \in Threads : u # t => pc[u] \notin ThreadQueryPC
  BY Alone DEF ThreadQueryPC
<1>4. NoFaults'
  BY <1>0 DEF UInv, Exchange, NoFaults
<1>5. OneStore'
  BY <1>0 DEF UInv, Exchange, OneStore
<1>6. \A p \in Servers : ServerTriple(p)'
  <2> SUFFICES ASSUME NEW p \in Servers, p # Home[t] PROVE ServerTriple(p)'
    OBVIOUS
  <2>1. ServerTriple(p)
    BY DEF UInv, Exchange, TriplesOK
  <2>2. CURRENT'[p] = CURRENT[p] /\ pc'[p] = pc[p]
    BY <1>0
  <2>3. \A u \in Threads : Home[u] = p => pc'[u] = pc[u]
    BY <1>0
  <2> QED
    BY <2>1, <2>2, <2>3, <1>0 DEF ServerTriple, Behind
<1>7. \A d \in Stores : SwapTriples(d)'
  <2>1. CASE CURRENT' = CURRENT
    BY <2>1, <1>0, <1>2 DEF UInv, Exchange, TriplesOK, SwapTriples, Behind, Swapped, previous_layout_region,
         previous_data_region, StoreQueryPC
  <2>2. CASE \A d \in Stores : pc[d] \notin Working
    BY <2>2, <1>0 DEF SwapTriples, Working
  <2> QED
    BY <2>1, <2>2
<1>8. \A u \in Threads : ThreadTriple(u)'
  BY <1>0, <1>3 DEF ThreadTriple, ThreadQueryPC, ReloadPC
<1>9. MappedSoFar'
  <2>1. \A p \in Servers : MappedFor(p)'
    BY <1>0, <1>1 DEF UInv, Exchange, MappedSoFar, MappedFor, Proc
  <2>2. \A u \in Threads : MappedFor(u)'
    BY <1>0, <1>3 DEF MappedFor, ThreadQueryPC, ReloadPC
  <2> QED
    BY <2>1, <2>2 DEF MappedSoFar
<1>10. \A p \in Servers : FacadeShows(p)'
  <2> SUFFICES ASSUME NEW p \in Servers, p # Home[t] PROVE FacadeShows(p)'
    OBVIOUS
  <2>1. FacadeShows(p)
    BY DEF UInv, Exchange, FacadeOK
  <2>2. NotMapping(p)' => NotMapping(p)
    BY <1>0 DEF NotMapping
  <2> QED
    BY <2>1, <2>2, <1>0 DEF FacadeShows
<1> QED
  BY <1>4, <1>5, <1>6, <1>7, <1>8, <1>9, <1>10 DEF Exchange, TriplesOK, FacadeOK

\* CheckAndReloadFacade finds its data current, or reloads.
LEMMA CheckTripleKeeps ==
    ASSUME UInv, NEW t \in Threads, CheckTriple(t)
    PROVE  Exchange'
<1>0. /\ pc[t] = "rl_check" /\ t \notin Servers
      /\ pc' = [pc EXCEPT ![t] = IF CURRENT[Home[t]] = data_timestamp THEN "q_release" ELSE "rl_remove"]
      /\ UNCHANGED <<shm, data_timestamp, complete, segment2_in_use, facade, storeCrashes, unlocks, throws>>
  BY ConstantsAssumption DEF CheckTriple, Goto, Proc, Returned, faults
<1>1. CASE CURRENT[Home[t]] = data_timestamp
  BY <1>0, <1>1, WorkerMoves DEF Mapping
<1>2. CASE CURRENT[Home[t]] # data_timestamp
  <2>0. /\ pc'[Home[t]] = pc[Home[t]] /\ pc'[t] = "rl_remove" /\ pc[Home[t]] = "up"
        /\ Home[t] \in Servers
        /\ \A a \in Actors : a # t => pc'[a] = pc[a]
        /\ UNCHANGED <<CURRENT, m_layout_memory, m_large_memory, m_query_graph>>
    BY <1>0, <1>2, WorkerBank, ConstantsAssumption
       DEF UInv, IInv, TypeOK, Actors, facade, ThreadQueryPC, ReloadPC
  <2>1. \A u \in Threads : pc[u] \notin {"rl_data", "rl_timestamp"}
    BY <1>0, Alone DEF ThreadQueryPC, ReloadPC
  <2>2. \A d \in Stores : pc[d] \notin {"s_data", "s_timestamp"}
    BY <1>0, Alone DEF ThreadQueryPC, ReloadPC, StoreQueryPC
  <2>3. Behind(Home[t]) /\ data_timestamp.timestamp > 0
    BY <2>0, <2>1, <2>2, <1>2 DEF UInv, Exchange, TriplesOK, ServerTriple
  <2>4. Behind(Home[t])'
    BY <2>0, <2>3, <1>0 DEF Behind
  <2>5. ServerTriple(Home[t])' /\ ThreadTriple(t)' /\ MappedFor(t)'
    BY <2>0, <2>3, <2>4, <1>0 DEF ServerTriple, ThreadTriple, MappedFor
  <2>6. FacadeShows(Home[t])'
    <3>1. NotMapping(Home[t])' => NotMapping(Home[t])
      BY <1>0, <2>0 DEF NotMapping, Actors
    <3> QED
      BY <3>1, <2>0, <1>0 DEF UInv, Exchange, FacadeOK, FacadeShows
  <2>7. RegionsOK'
    BY <1>0, <2>0, RegionsFrame, ConstantsAssumption DEF UInv, Exchange, Actors
  <2>8. pc' = [pc EXCEPT ![t] = "rl_remove"]
    BY <1>0, <1>2
  <2> QED
    BY <1>0, <2>0, <2>5, <2>6, <2>7, <2>8, WorkerReloads DEF ReloadPC
<1> QED
  BY <1>1, <1>2

\* "release the previous shared memory segments": the regions removed are not the
\* published ones.
LEMMA RemovePreviousKeeps ==
    ASSUME UInv, NEW t \in Threads, RemovePrevious(t)
    PROVE  Exchange'
<1>0. /\ pc[t] = "rl_remove" /\ t \notin Servers
      /\ pc' = [pc EXCEPT ![t] = "rl_layout"]
      /\ UNCHANGED <<data_timestamp, complete, segment2_in_use, CURRENT, m_layout_memory,
                     m_large_memory, m_query_graph, storeCrashes, unlocks, throws>>
  BY ConstantsAssumption DEF RemovePrevious, Goto, facade, faults
<1>1. /\ pc'[t] = "rl_layout" /\ Home[t] \in Servers /\ pc[Home[t]] = "up"
      /\ \A a \in Actors : a # t => pc'[a] = pc[a]
  BY <1>0, WorkerBank DEF UInv, IInv, TypeOK, Actors, ThreadQueryPC, ReloadPC
<1>2. Behind(Home[t]) /\ data_timestamp.timestamp > 0
  BY <1>0, <1>1 DEF UInv, Exchange, TriplesOK, ThreadTriple, ServerTriple
<1>3. \A r \in Regions : shm'[r] = IF r \in {CURRENT[Home[t]].layout, CURRENT[Home[t]].data}
                                   THEN NoSegment ELSE shm[r]
  BY <1>0 DEF RemovePrevious, Removed, Proc, UInv, IInv, TypeOK
<1>4. PublishedBank
  BY <1>0, WorkerBank DEF ThreadQueryPC, ReloadPC
<1>5. (\A d \in Stores : pc[d] \notin Working) /\ Settled
  <2>1. CURRENT[Home[t]] # data_timestamp
    BY <1>2 DEF Behind
  <2> QED
    BY <2>1, <1>0, NoUpdate DEF ThreadQueryPC, ReloadPC
<1>6. /\ shm'[data_timestamp.layout] = shm[data_timestamp.layout]
      /\ shm'[data_timestamp.data] = shm[data_timestamp.data]
      /\ shm'["CURRENT_REGIONS"] = shm["CURRENT_REGIONS"]
      /\ shm["LAYOUT_2"] = NoSegment => shm'["LAYOUT_2"] = NoSegment
  BY <1>2, <1>3, <1>4 DEF Behind, PublishedBank, Layouts, Datas, Regions
<1>7. RegionsOK'
  <2>1. Settled'
    BY <1>0, <1>4, <1>5, <1>6 DEF Settled, PublishedBank, Unpublished
  <2>2. \A d \in Stores : StoreRegions(d)'
    BY <1>1, <1>5, ConstantsAssumption DEF StoreRegions, Working, Actors, Choosing, Filling, Swapped
  <2> QED
    BY <2>1, <2>2, <1>6 DEF UInv, Exchange, RegionsOK
<1>8. Behind(Home[t])'
  BY <1>0, <1>2 DEF Behind
<1>9. ServerTriple(Home[t])' /\ ThreadTriple(t)' /\ MappedFor(t)'
  BY <1>0, <1>1, <1>2, <1>8, ConstantsAssumption DEF ServerTriple, ThreadTriple, MappedFor, Actors
<1>10. FacadeShows(Home[t])'
  <2>1. NotMapping(Home[t])' => NotMapping(Home[t])
    BY <1>0, <1>1 DEF NotMapping, Actors
  <2> QED
    BY <2>1, <1>0, <1>1, <1>6, ConstantsAssumption DEF UInv, Exchange, FacadeOK, FacadeShows, Actors
<1> QED
  BY <1>0, <1>6, <1>7, <1>9, <1>10, WorkerReloads DEF ReloadPC

\* The three assignments to CURRENT_*.
LEMMA CopyKeeps ==
    ASSUME UInv, NEW t \in Threads, CopyLayout(t) \/ CopyData(t) \/ CopyTimestamp(t)
    PROVE  Exchange'
<1> DEFINE s == Home[t]
           to == IF pc[t] = "rl_layout" THEN "rl_data"
                 ELSE IF pc[t] = "rl_data" THEN "rl_timestamp" ELSE "rl_getLayout"
<1>0. /\ pc[t] \in {"rl_layout", "rl_data", "rl_timestamp"} /\ t \notin Servers
      /\ pc' = [pc EXCEPT ![t] = to]
      /\ UNCHANGED <<shm, data_timestamp, complete, segment2_in_use, m_layout_memory,
                     m_large_memory, m_query_graph, storeCrashes, unlocks, throws>>
  BY ConstantsAssumption DEF CopyLayout, CopyData, CopyTimestamp, Goto, faults
<1>1. /\ pc'[t] = to /\ s \in Servers /\ pc[s] = "up"
      /\ \A a \in Actors : a # t => pc'[a] = pc[a]
  BY <1>0, WorkerBank DEF UInv, IInv, TypeOK, Actors, ThreadQueryPC, ReloadPC
<1>2. /\ \A p \in Servers \ {s} : CURRENT'[p] = CURRENT[p]
      /\ CURRENT'[s].layout = IF pc[t] = "rl_layout" THEN data_timestamp.layout ELSE CURRENT[s].layout
      /\ CURRENT'[s].data = IF pc[t] = "rl_data" THEN data_timestamp.data ELSE CURRENT[s].data
      /\ CURRENT'[s].timestamp = IF pc[t] = "rl_timestamp" THEN data_timestamp.timestamp
                                  ELSE CURRENT[s].timestamp
  BY <1>0, <1>1 DEF CopyLayout, CopyData, CopyTimestamp, Goto, Proc, UInv, IInv, TypeOK, SharedDataTimestamp
<1>3. /\ CURRENT[s].timestamp < data_timestamp.timestamp /\ data_timestamp.timestamp > 0
      /\ data_timestamp.timestamp \in Nat /\ CURRENT[s].timestamp \in Nat
  BY <1>0, <1>1 DEF UInv, IInv, TypeOK, SharedDataTimestamp, Exchange, TriplesOK, ThreadTriple, ServerTriple,
                    Behind
<1>4. \A d \in Stores : pc[d] \notin Working
  <2>1. CURRENT[s] # data_timestamp
    BY <1>3
  <2> QED
    BY <2>1, <1>0, NoUpdate DEF ThreadQueryPC, ReloadPC
<1>5. RegionsOK'
  BY <1>0, <1>1, RegionsFrame, ConstantsAssumption DEF UInv, Exchange, Actors
<1>6. ServerTriple(s)'
  <2>1. CASE pc[t] = "rl_timestamp"
    <3>1. CURRENT'[s] = data_timestamp
      <4>1. CURRENT[s].layout = data_timestamp.layout /\ CURRENT[s].data = data_timestamp.data
        BY <2>1 DEF UInv, IInv, TripleCopied, Exchange, NoFaults
      <4>2. CURRENT'[s] = [CURRENT[s] EXCEPT !.timestamp = data_timestamp.timestamp]
        BY <2>1, <1>0, <1>1 DEF CopyLayout, CopyData, CopyTimestamp, Goto, Proc, UInv, IInv, TypeOK
      <4>3. CURRENT[s] \in SharedDataTimestamp /\ data_timestamp \in SharedDataTimestamp
        BY <1>1 DEF UInv, IInv, TypeOK
      <4> QED
        BY <4>1, <4>2, <4>3, TripleComplete
    <3> QED
      BY <3>1, <1>0, <1>1, <1>3, ConstantsAssumption DEF ServerTriple, Actors
  <2>2. CASE pc[t] # "rl_timestamp"
    <3>1. pc'[t] \in {"rl_data", "rl_timestamp"} /\ pc'[s] = "up"
      BY <2>2, <1>0, <1>1, ConstantsAssumption DEF Actors
    <3> QED
      BY <3>1, <1>0, <1>3 DEF ServerTriple
  <2> QED
    BY <2>1, <2>2
<1>7. ThreadTriple(t)' /\ MappedFor(t)'
  BY <1>0, <1>1, <1>2, <1>3 DEF ThreadTriple, MappedFor
<1>8. FacadeShows(s)'
  <2>1. CASE pc[t] = "rl_timestamp"
    BY <2>1, <1>1 DEF FacadeShows, NotMapping
  <2>2. CASE pc[t] # "rl_timestamp"
    <3>1. NotMapping(s)' => NotMapping(s)
      BY <2>2, <1>0, <1>1 DEF NotMapping, Actors
    <3>2. CURRENT'[s] # data_timestamp
      BY <2>2, <1>2, <1>3
    <3> QED
      BY <3>1, <3>2, <1>0, <1>1, ConstantsAssumption DEF UInv, Exchange, FacadeOK, FacadeShows, Actors
  <2> QED
    BY <2>1, <2>2
<1> QED
  BY <1>0, <1>2, <1>4, <1>5, <1>6, <1>7, <1>8, WorkerReloads DEF ReloadPC

\* The published segments are mapped.
LEMMA GetMemoryKeeps ==
    ASSUME UInv, NEW t \in Threads, GetLayoutMemory(t) \/ GetLargeMemory(t)
    PROVE  Exchange'
<1> DEFINE s == Home[t]
           to == IF pc[t] = "rl_getLayout" THEN "rl_getData" ELSE "rl_load"
<1>0. /\ pc[t] \in {"rl_getLayout", "rl_getData"} /\ t \notin Servers
      /\ pc' = [pc EXCEPT ![t] = to]
      /\ UNCHANGED <<shm, data_timestamp, complete, segment2_in_use, CURRENT, m_query_graph,
                     storeCrashes, unlocks, throws>>
  BY ConstantsAssumption DEF GetLayoutMemory, GetLargeMemory, Goto, faults
<1>1. /\ pc'[t] = to /\ s \in Servers /\ pc[s] = "up"
      /\ \A a \in Actors : a # t => pc'[a] = pc[a]
  BY <1>0, WorkerBank DEF UInv, IInv, TypeOK, Actors, ThreadQueryPC, ReloadPC
<1>2. CURRENT[s] = data_timestamp /\ data_timestamp.timestamp > 0
  BY <1>0, <1>1 DEF UInv, IInv, TripleCopied, Exchange, NoFaults, TriplesOK, ServerTriple
<1>3. /\ \A p \in Servers \ {s} : /\ m_layout_memory'[p] = m_layout_memory[p]
                                  /\ m_large_memory'[p] = m_large_memory[p]
      /\ m_layout_memory'[s] = IF pc[t] = "rl_getLayout" THEN shm[data_timestamp.layout]
                               ELSE m_layout_memory[s]
      /\ m_large_memory'[s] = IF pc[t] = "rl_getData" THEN shm[data_timestamp.data]
                              ELSE m_large_memory[s]
  BY <1>0, <1>1, <1>2 DEF GetLayoutMemory, GetLargeMemory, Goto, Proc, UInv, IInv, TypeOK
<1>4. RegionsOK'
  BY <1>0, <1>1, RegionsFrame, ConstantsAssumption DEF UInv, Exchange, Actors
<1>5. ServerTriple(s)' /\ ThreadTriple(t)'
  BY <1>0, <1>1, <1>2, ConstantsAssumption DEF ServerTriple, ThreadTriple, Actors
<1>6. MappedFor(t)'
  <2>1. MappedFor(t)
    BY DEF UInv, Exchange, MappedSoFar
  <2> QED
    BY <2>1, <1>0, <1>1, <1>3 DEF MappedFor, Proc
<1>7. FacadeShows(s)'
  BY <1>0, <1>1 DEF FacadeShows, NotMapping
<1> QED
  BY <1>0, <1>3, <1>4, <1>5, <1>6, <1>7, WorkerReloads DEF ReloadPC

\* The Load* functions: the facade shows the published data set.
LEMMA LoadFacadeKeeps ==
    ASSUME UInv, NEW t \in Threads, LoadFacade(t)
    PROVE  Exchange'
<1> DEFINE s == Home[t]
<1>0. /\ pc[t] = "rl_load" /\ t \notin Servers
      /\ pc' = [pc EXCEPT ![t] = "q_release"]
      /\ UNCHANGED <<shm, data_timestamp, complete, segment2_in_use, CURRENT, m_layout_memory,
                     m_large_memory, storeCrashes, unlocks, throws>>
  BY ConstantsAssumption DEF LoadFacade, Goto, faults, Returned
<1>1. /\ pc'[t] = "q_release" /\ s \in Servers /\ pc[s] = "up"
      /\ \A a \in Actors : a # t => pc'[a] = pc[a]
  BY <1>0, WorkerBank DEF UInv, IInv, TypeOK, Actors, ThreadQueryPC, ReloadPC
<1>2. CURRENT[s] = data_timestamp /\ data_timestamp.timestamp > 0
  BY <1>0, <1>1 DEF UInv, IInv, TripleCopied, Exchange, NoFaults, TriplesOK, ServerTriple
<1>3. /\ \A p \in Servers \ {s} : m_query_graph'[p] = m_query_graph[p]
      /\ m_query_graph'[s] = ViewOf(m_layout_memory[s], m_large_memory[s])
  BY <1>0, <1>1 DEF LoadFacade, Proc, UInv, IInv, TypeOK
<1>4. /\ PublishedBank
      /\ m_layout_memory[s] = shm[data_timestamp.layout]
      /\ m_large_memory[s] = shm[data_timestamp.data]
  BY <1>0, WorkerBank DEF ThreadQueryPC, ReloadPC, UInv, Exchange, MappedSoFar, MappedFor, Proc
<1>5. RegionsOK'
  BY <1>0, <1>1, RegionsFrame, ConstantsAssumption DEF UInv, Exchange, Actors
<1>6. ServerTriple(s)' /\ ThreadTriple(t)' /\ MappedFor(t)'
  BY <1>0, <1>1, <1>2, ConstantsAssumption DEF ServerTriple, ThreadTriple, MappedFor, Actors
<1>7. FacadeShows(s)'
  BY <1>0, <1>3, <1>4 DEF FacadeShows, PublishedBank, ViewOf
<1> QED
  BY <1>0, <1>3, <1>5, <1>6, <1>7, WorkerReloads DEF ReloadPC

\* Nothing a worker loads under the query mutex is missing: RunQuery never ends with an
\* exception of CheckAndReloadFacade.
LEMMA NoThrow ==
    ASSUME UInv, OperatingRules, NEW t \in Threads
    PROVE  ~AbortQuery(t) /\ ~HandleThrows(t)
<1>1. throws = 0 /\ MaxThrows = 0 /\ ~HandleThrows(t)
  BY DEF UInv, Exchange, NoFaults, OperatingRules, HandleThrows
<1>2. SUFFICES ASSUME pc[t] \in {"rl_getLayout", "rl_getData", "rl_load"}
               PROVE  ~ReloadThrows(t)
  BY <1>1 DEF AbortQuery, ReloadThrows
<1>3. PublishedBank /\ Home[t] \in Servers
  BY <1>2, WorkerBank DEF ThreadQueryPC, ReloadPC
<1>4. CURRENT[Home[t]] = data_timestamp
  BY <1>2 DEF UInv, IInv, TripleCopied, Exchange, NoFaults
<1>5. complete \subseteq Stores
  BY DEF UInv, IInv, TypeOK
<1>6. RegionExists(data_timestamp.layout) /\ RegionExists(data_timestamp.data)
  BY <1>3, <1>5, ConstantsAssumption DEF PublishedBank, RegionExists
<1>7. Proc(t) = Home[t]
  BY ConstantsAssumption DEF Proc
<1>8. pc[t] = "rl_load" => ViewOf(m_layout_memory[Home[t]], m_large_memory[Home[t]]) # Garbage
  <2>1. MappedFor(t)
    BY DEF UInv, Exchange, MappedSoFar
  <2> QED
    BY <2>1, <1>3, <1>5, <1>7, ConstantsAssumption DEF MappedFor, PublishedBank, ViewOf
<1> QED
  BY <1>1, <1>4, <1>6, <1>7, <1>8 DEF ReloadThrows

\* The other steps of a query leave the exchange alone.
LEMMA QueryKeeps ==
    ASSUME UInv, OperatingRules, NEW t \in Threads,
           BeginQuery(t) \/ ThreadStep(t) \/ HandleThrows(t)
    PROVE  Exchange'
<1>1. CASE BeginQuery(t)
  BY <1>1, WorkerMoves DEF BeginQuery, Goto, Mapping, faults
<1>2. CASE LockQuery(t)
  BY <1>2, WorkerMoves DEF LockQuery, Goto, Mapping, faults
<1>3. CASE EnterQuery(t)
  BY <1>3, WorkerMoves DEF EnterQuery, Goto, Mapping, faults
<1>4. CASE ReleaseQuery(t)
  BY <1>4, WorkerMoves DEF ReleaseQuery, Goto, Mapping, faults
<1>5. CASE SearchRTree(t)
  BY <1>5, WorkerMoves DEF SearchRTree, Goto, Mapping, faults
<1>6. CASE SearchGraph(t)
  BY <1>6, WorkerMoves DEF SearchGraph, Goto, Mapping, faults
<1>7. CASE LockAfterQuery(t)
  BY <1>7, WorkerMoves DEF LockAfterQuery, Goto, Mapping, faults
<1>8. CASE LeaveQuery(t)
  BY <1>8, WorkerMoves DEF LeaveQuery, Goto, Mapping, faults
<1>10. CASE ReadCount(t)
  <2>1. PICK to \in {"q_increment", "q_decrement"} : pc' = [pc EXCEPT ![t] = to]
    BY <1>10 DEF ReadCount, Goto
  <2>2. pc[t] \in {"q_count", "q_leave"}
    BY <1>10 DEF ReadCount, Goto
  <2> QED
    BY <1>10, <2>1, <2>2, WorkerMoves DEF ReadCount, Mapping, faults
<1>11. CASE IncrementCount(t)
  BY <1>11, WorkerMoves DEF IncrementCount, Goto, Mapping, faults
<1>9. CASE ReloadStep(t)
  BY <1>9, CheckTripleKeeps, RemovePreviousKeeps, CopyKeeps, GetMemoryKeeps, LoadFacadeKeeps
     DEF ReloadStep
<1> QED
  BY <1>1, <1>2, <1>3, <1>4, <1>5, <1>6, <1>7, <1>8, <1>9, <1>10, <1>11, NoThrow DEF ThreadStep

-----------------------------------------------------------------------------
(* osrm-routed's main thread *)

\* A step of the main thread of a server that is not up, while no datastore works.
LEMMA StarterMoves ==
    ASSUME UInv, NEW s \in Servers, pc[s] # "up", \A d \in Stores : pc[d] \notin Working,
           NEW to, pc' = [pc EXCEPT ![s] = to],
           UNCHANGED <<data_timestamp, complete, storeCrashes, unlocks, throws>>,
           \A r \in Regions \ {"LAYOUT_NONE", "DATA_NONE"} : shm'[r] = shm[r],
           \A p \in Servers \ {s} :
             /\ CURRENT'[p] = CURRENT[p]
             /\ m_layout_memory'[p] = m_layout_memory[p]
             /\ m_large_memory'[p] = m_large_memory[p]
             /\ m_query_graph'[p] = m_query_graph[p],
           ServerTriple(s)', MappedFor(s)', FacadeShows(s)'
    PROVE  Exchange'
<1>0. /\ \A a \in Threads \cup Stores : pc'[a] = pc[a]
      /\ \A p \in Servers : pc'[p] = IF p = s THEN to ELSE pc[p]
  BY ConstantsAssumption DEF UInv, IInv, TypeOK, Actors
<1>1. \A t \in Threads : Home[t] = s => pc[t] = "idle"
  BY DEF UInv, IInv, DownIsIdle
<1>2. Settled
  BY DEF UInv, Exchange, RegionsOK
<1>3. /\ shm'["CURRENT_REGIONS"] = shm["CURRENT_REGIONS"] /\ shm'["LAYOUT_2"] = shm["LAYOUT_2"]
      /\ shm'[data_timestamp.layout] = shm[data_timestamp.layout]
      /\ shm'[data_timestamp.data] = shm[data_timestamp.data]
  BY <1>2 DEF Settled, Unpublished, PublishedBank, Regions
<1>4. NoFaults'
  BY <1>0 DEF UInv, Exchange, NoFaults
<1>5. OneStore'
  BY <1>0 DEF OneStore
<1>6. RegionsOK'
  <2>1. Settled'
    BY <1>2, <1>3 DEF Settled, Unpublished, PublishedBank
  <2>2. \A d \in Stores : StoreRegions(d)'
    BY <1>0 DEF StoreRegions, Working, Choosing, Filling, Swapped
  <2> QED
    BY <2>1, <2>2, <1>3 DEF UInv, Exchange, RegionsOK
<1>7. \A p \in Servers : ServerTriple(p)'
  <2> SUFFICES ASSUME NEW p \in Servers, p # s PROVE ServerTriple(p)'
    OBVIOUS
  <2>1. ServerTriple(p)
    BY DEF UInv, Exchange, TriplesOK
  <2>2. CURRENT'[p] = CURRENT[p] /\ pc'[p] = pc[p]
    BY <1>0
  <2> QED
    BY <2>1, <2>2, <1>0 DEF ServerTriple, Behind
<1>8. \A d \in Stores : SwapTriples(d)'
  BY <1>0 DEF SwapTriples, Working
<1>9. \A t \in Threads : ThreadTriple(t)'
  <2> SUFFICES ASSUME NEW t \in Threads, pc[t] # "idle" PROVE ThreadTriple(t)'
    BY <1>0 DEF ThreadTriple
  <2>1. Home[t] \in Servers \ {s}
    BY <1>1, ConstantsAssumption
  <2>2. ThreadTriple(t) /\ CURRENT'[Home[t]] = CURRENT[Home[t]] /\ pc'[t] = pc[t]
    BY <2>1, <1>0 DEF UInv, Exchange, TriplesOK
  <2> QED
    BY <2>2 DEF ThreadTriple, Behind
<1>10. MappedSoFar'
  <2>1. \A p \in Servers : MappedFor(p)'
    BY <1>0, <1>3 DEF UInv, Exchange, MappedSoFar, MappedFor, Proc
  <2>2. ASSUME NEW t \in Threads PROVE MappedFor(t)'
    <3>1. CASE pc[t] = "idle"
      BY <3>1, <1>0 DEF MappedFor
    <3>2. CASE pc[t] # "idle"
      <4>1. Proc(t) \in Servers \ {s}
        BY <3>2, <1>1, ConstantsAssumption DEF Proc
      <4> QED
        BY <4>1, <1>0, <1>3 DEF UInv, Exchange, MappedSoFar, MappedFor
    <3> QED
      BY <3>1, <3>2
  <2> QED
    BY <2>1, <2>2 DEF MappedSoFar
<1>11. \A p \in Servers : FacadeShows(p)'
  <2> SUFFICES ASSUME NEW p \in Servers, p # s PROVE FacadeShows(p)'
    OBVIOUS
  <2>1. FacadeShows(p)
    BY DEF UInv, Exchange, FacadeOK
  <2>2. NotMapping(p)' => NotMapping(p)
    BY <1>0 DEF NotMapping
  <2> QED
    BY <2>1, <2>2, <1>0, <1>3 DEF FacadeShows
<1> QED
  BY <1>4, <1>5, <1>6, <1>7, <1>8, <1>9, <1>10, <1>11 DEF Exchange, TriplesOK, FacadeOK

\* The constructor starts with no triple, finds no segment to release and copies the
\* triple.
LEMMA StartKeeps ==
    ASSUME UInv, OperatingRules, NEW s \in Servers,
           StartServer(s) \/ CheckTriple(s) \/ RemovePrevious(s)
    PROVE  Exchange'
<1>1. CASE StartServer(s)
  <2>1. /\ pc[s] = "off" /\ pc' = [pc EXCEPT ![s] = "rl_check"] /\ pc'[s] = "rl_check"
        /\ CURRENT'[s] = NoTriple
        /\ \A p \in Servers \ {s} : CURRENT'[p] = CURRENT[p]
        /\ UNCHANGED <<shm, data_timestamp, complete, m_layout_memory, m_large_memory,
                       m_query_graph, storeCrashes, unlocks, throws>>
    BY <1>1 DEF StartServer, Goto, faults, UInv, IInv, TypeOK, Actors
  <2>2. \A d \in Stores : pc[d] \notin Working
    BY <1>1 DEF StartServer, OperatingRules, Rules, Working, Choosing, Filling, Swapped
  <2>3. ServerTriple(s)' /\ MappedFor(s)' /\ FacadeShows(s)'
    BY <2>1 DEF ServerTriple, MappedFor, FacadeShows
  <2> QED
    BY <2>1, <2>2, <2>3, StarterMoves
<1>2. CASE CheckTriple(s)
  <2>1. /\ pc[s] = "rl_check" /\ CURRENT[s] = NoTriple
        /\ UNCHANGED <<shm, data_timestamp, complete, CURRENT, m_layout_memory, m_large_memory,
                       m_query_graph, storeCrashes, unlocks, throws>>
    BY <1>2 DEF CheckTriple, Goto, faults, facade, UInv, Exchange, TriplesOK, ServerTriple
  <2>2. (\A d \in Stores : pc[d] \notin Working) /\ Settled
    BY <2>1, StarterBank DEF ReloadPC
  <2>3. CURRENT[s] # data_timestamp
    BY <2>1, <2>2 DEF NoTriple, Settled, Unpublished, PublishedBank
  <2>4. pc' = [pc EXCEPT ![s] = "rl_remove"] /\ pc'[s] = "rl_remove"
    BY <1>2, <2>3 DEF CheckTriple, Goto, Proc, UInv, IInv, TypeOK, Actors
  <2>5. ServerTriple(s)' /\ MappedFor(s)' /\ FacadeShows(s)'
    BY <2>1, <2>4 DEF ServerTriple, MappedFor, FacadeShows
  <2> QED
    BY <2>1, <2>2, <2>4, <2>5, StarterMoves
<1>3. CASE RemovePrevious(s)
  <2>1. /\ pc[s] = "rl_remove" /\ CURRENT[s] = NoTriple
        /\ pc' = [pc EXCEPT ![s] = "rl_layout"] /\ pc'[s] = "rl_layout"
        /\ UNCHANGED <<data_timestamp, complete, CURRENT, m_layout_memory, m_large_memory,
                       m_query_graph, storeCrashes, unlocks, throws>>
    BY <1>3 DEF RemovePrevious, Goto, faults, facade, UInv, IInv, TypeOK, Actors, Exchange, TriplesOK,
                ServerTriple
  <2>2. \A d \in Stores : pc[d] \notin Working
    BY <2>1, StarterBank DEF ReloadPC
  <2>3. \A r \in Regions \ {"LAYOUT_NONE", "DATA_NONE"} : shm'[r] = shm[r]
    BY <1>3, <2>1 DEF RemovePrevious, Removed, Proc, NoTriple, UInv, IInv, TypeOK
  <2>4. ServerTriple(s)' /\ MappedFor(s)' /\ FacadeShows(s)'
    BY <2>1 DEF ServerTriple, MappedFor, FacadeShows
  <2> QED
    BY <2>1, <2>2, <2>3, <2>4, StarterMoves
<1> QED
  BY <1>1, <1>2, <1>3

\* The constructor copies the triple while no datastore runs.
LEMMA StartCopyKeeps ==
    ASSUME UInv, NEW s \in Servers, CopyLayout(s) \/ CopyData(s) \/ CopyTimestamp(s)
    PROVE  Exchange'
<1> DEFINE to == IF pc[s] = "rl_layout" THEN "rl_data"
                 ELSE IF pc[s] = "rl_data" THEN "rl_timestamp" ELSE "rl_getLayout"
<1>1. /\ pc[s] \in {"rl_layout", "rl_data", "rl_timestamp"}
      /\ pc' = [pc EXCEPT ![s] = to] /\ pc'[s] = to
      /\ UNCHANGED <<shm, data_timestamp, complete, m_layout_memory, m_large_memory,
                     m_query_graph, storeCrashes, unlocks, throws>>
  BY DEF CopyLayout, CopyData, CopyTimestamp, Goto, faults, UInv, IInv, TypeOK, Actors
<1>2. \A d \in Stores : pc[d] \notin Working
  BY <1>1, StarterBank DEF ReloadPC
<1>3. /\ \A p \in Servers \ {s} : CURRENT'[p] = CURRENT[p]
      /\ CURRENT'[s].layout = IF pc[s] = "rl_layout" THEN data_timestamp.layout ELSE CURRENT[s].layout
      /\ CURRENT'[s].data = IF pc[s] = "rl_data" THEN data_timestamp.data ELSE CURRENT[s].data
  BY <1>1 DEF CopyLayout, CopyData, CopyTimestamp, Goto, Proc, UInv, IInv, TypeOK, SharedDataTimestamp
<1>4. ServerTriple(s)
  BY DEF UInv, Exchange, TriplesOK
<1>5. pc[s] = "rl_timestamp" => CURRENT'[s] = data_timestamp
  <2>1. CURRENT[s] \in SharedDataTimestamp /\ data_timestamp \in SharedDataTimestamp
    BY DEF UInv, IInv, TypeOK
  <2>2. pc[s] = "rl_timestamp" =>
          CURRENT'[s] = [CURRENT[s] EXCEPT !.timestamp = data_timestamp.timestamp]
    BY <1>1 DEF CopyLayout, CopyData, CopyTimestamp, Goto, Proc, UInv, IInv, TypeOK
  <2> QED
    BY <2>1, <2>2, <1>4, TripleComplete DEF ServerTriple
<1>6. ServerTriple(s)' /\ MappedFor(s)' /\ FacadeShows(s)'
  BY <1>1, <1>3, <1>4, <1>5 DEF ServerTriple, MappedFor, FacadeShows
<1> QED
  BY <1>1, <1>2, <1>3, <1>6, StarterMoves

\* A server that started shows the published data set; when nothing was published yet,
\* the zero-filled region has no canary and the constructor throws.
LEMMA StartLoadKeeps ==
    ASSUME UInv, NEW s \in Servers, GetLayoutMemory(s) \/ GetLargeMemory(s) \/ LoadFacade(s)
    PROVE  Exchange'
<1> DEFINE to == IF pc[s] = "rl_getLayout" THEN "rl_getData"
                 ELSE IF pc[s] = "rl_getData" THEN "rl_load" ELSE "up"
<1>1. /\ pc[s] \in {"rl_getLayout", "rl_getData", "rl_load"}
      /\ pc' = [pc EXCEPT ![s] = to] /\ pc'[s] = to /\ pc[s] # "up"
      /\ UNCHANGED <<shm, data_timestamp, complete, CURRENT, storeCrashes, unlocks, throws>>
  BY DEF GetLayoutMemory, GetLargeMemory, LoadFacade, Goto, Returned, faults, UInv, IInv, TypeOK, Actors
<1>2. (\A d \in Stores : pc[d] \notin Working) /\ Settled
  BY <1>1, StarterBank DEF ReloadPC
<1>3. CURRENT[s] = data_timestamp /\ MappedFor(s)
  BY <1>1 DEF UInv, Exchange, TriplesOK, ServerTriple, MappedSoFar
<1>4. /\ \A p \in Servers \ {s} : /\ m_layout_memory'[p] = m_layout_memory[p]
                                  /\ m_large_memory'[p] = m_large_memory[p]
                                  /\ m_query_graph'[p] = m_query_graph[p]
      /\ m_layout_memory'[s] = IF pc[s] = "rl_getLayout" THEN shm[data_timestamp.layout]
                               ELSE m_layout_memory[s]
      /\ m_large_memory'[s] = IF pc[s] = "rl_getData" THEN shm[data_timestamp.data]
                              ELSE m_large_memory[s]
      /\ pc[s] = "rl_load" => m_query_graph'[s] = ViewOf(m_layout_memory[s], m_large_memory[s])
  BY <1>1, <1>3 DEF GetLayoutMemory, GetLargeMemory, LoadFacade, Goto, Proc, UInv, IInv, TypeOK
<1>5. pc[s] = "rl_load" => PublishedBank
  <2>1. pc[s] = "rl_load" => m_layout_memory[s] # Zeroed
    BY <1>1 DEF LoadFacade, Proc, GetLayoutMemory, GetLargeMemory, Goto
  <2>2. pc[s] = "rl_load" => shm[data_timestamp.layout] # Zeroed
    BY <2>1, <1>3 DEF MappedFor, Proc
  <2> QED
    BY <2>2, <1>2 DEF Settled, Unpublished, UInv, Exchange, RegionsOK
<1>6. ServerTriple(s)'
  BY <1>1, <1>3, <1>5 DEF ServerTriple, PublishedBank
<1>7. MappedFor(s)'
  BY <1>1, <1>3, <1>4 DEF MappedFor, Proc
<1>8. FacadeShows(s)'
  <2>1. CASE pc[s] # "rl_load"
    BY <2>1, <1>1 DEF FacadeShows
  <2>2. CASE pc[s] = "rl_load"
    BY <2>2, <1>1, <1>3, <1>4, <1>5 DEF FacadeShows, MappedFor, Proc, ViewOf, PublishedBank
  <2> QED
    BY <2>1, <2>2
<1> QED
  BY <1>1, <1>2, <1>4, <1>6, <1>7, <1>8, StarterMoves

\* A constructor that throws ends its process.
LEMMA AbortStartKeeps ==
    ASSUME UInv, OperatingRules, NEW s \in Servers, AbortStart(s)
    PROVE  Exchange'
<1>1. /\ pc[s] \in {"rl_getLayout", "rl_getData", "rl_load"}
      /\ pc' = [pc EXCEPT ![s] = "off"] /\ pc'[s] = "off"
      /\ UNCHANGED <<shm, data_timestamp, complete, CURRENT, storeCrashes, unlocks, throws>>
      /\ \A p \in Servers \ {s} : /\ m_layout_memory'[p] = m_layout_memory[p]
                                  /\ m_large_memory'[p] = m_large_memory[p]
                                  /\ m_query_graph'[p] = m_query_graph[p]
  BY DEF AbortStart, ReloadThrows, OperatingRules, UInv, IInv, TypeOK, Actors, Exchange, NoFaults
<1>2. \A d \in Stores : pc[d] \notin Working
  BY <1>1, StarterBank DEF ReloadPC
<1>3. ServerTriple(s)' /\ MappedFor(s)' /\ FacadeShows(s)'
  BY <1>1 DEF ServerTriple, MappedFor, FacadeShows
<1> QED
  BY <1>1, <1>2, <1>3, StarterMoves

\* A killed server takes its workers and mappings with it and nothing else.
LEMMA CrashServerKeeps ==
    ASSUME UInv, NEW s \in Servers, CrashServer(s)
    PROVE  Exchange'
<1>0. /\ pc'[s] = "off"
      /\ \A p \in Servers \ {s} : pc'[p] = pc[p]
      /\ \A d \in Stores : pc'[d] = pc[d]
      /\ \A t \in Threads : pc'[t] = IF Home[t] = s THEN "idle" ELSE pc[t]
  BY ConstantsAssumption DEF CrashServer, Actors
<1>1. /\ UNCHANGED <<shm, data_timestamp, complete, segment2_in_use, CURRENT, storeCrashes, unlocks,
                     throws>>
      /\ \A p \in Servers \ {s} : /\ m_layout_memory'[p] = m_layout_memory[p]
                                  /\ m_large_memory'[p] = m_large_memory[p]
                                  /\ m_query_graph'[p] = m_query_graph[p]
  BY DEF CrashServer, UInv, IInv, TypeOK
<1>2. NoFaults'
  BY <1>0, <1>1 DEF UInv, Exchange, NoFaults
<1>3. OneStore'
  BY <1>0 DEF UInv, Exchange, OneStore
<1>4. RegionsOK'
  BY <1>0, <1>1, RegionsFrame DEF UInv, Exchange
<1>5. \A p \in Servers : ServerTriple(p)'
  <2> SUFFICES ASSUME NEW p \in Servers, p # s PROVE ServerTriple(p)'
    BY <1>0 DEF ServerTriple
  <2>1. ServerTriple(p)
    BY DEF UInv, Exchange, TriplesOK
  <2>2. pc'[p] = pc[p] /\ \A t \in Threads : Home[t] = p => pc'[t] = pc[t]
    BY <1>0
  <2> QED
    BY <2>1, <2>2, <1>0, <1>1 DEF ServerTriple, Behind
<1>6. \A d \in Stores : SwapTriples(d)'
  BY <1>0, <1>1 DEF UInv, Exchange, TriplesOK, SwapTriples, Behind, previous_layout_region,
                    previous_data_region
<1>7. \A t \in Threads : ThreadTriple(t)'
  BY <1>0, <1>1 DEF UInv, Exchange, TriplesOK, ThreadTriple, Behind
<1>8. MappedSoFar'
  <2>1. \A p \in Servers : MappedFor(p)'
    BY <1>0, <1>1 DEF UInv, Exchange, MappedSoFar, MappedFor, Proc
  <2>2. \A t \in Threads : MappedFor(t)'
    BY <1>0, <1>1, ConstantsAssumption DEF UInv, Exchange, MappedSoFar, MappedFor, Proc
  <2> QED
    BY <2>1, <2>2 DEF MappedSoFar
<1>9. \A p \in Servers : FacadeShows(p)'
  <2> SUFFICES ASSUME NEW p \in Servers, p # s PROVE FacadeShows(p)'
    BY <1>0 DEF FacadeShows
  <2>1. FacadeShows(p)
    BY DEF UInv, Exchange, FacadeOK
  <2>2. NotMapping(p)' => NotMapping(p)
    BY <1>0 DEF NotMapping
  <2> QED
    BY <2>1, <2>2, <1>0, <1>1 DEF FacadeShows
<1> QED
  BY <1>2, <1>3, <1>4, <1>5, <1>6, <1>7, <1>8, <1>9 DEF Exchange, TriplesOK, FacadeOK

-----------------------------------------------------------------------------
(* The theorems *)

\* Nothing is published and nobody runs at the start.
LEMMA InitExchange == Init => Exchange
<1> SUFFICES ASSUME Init PROVE Exchange
  OBVIOUS
<1> USE ConstantsAssumption
<1>1. /\ \A s \in Servers : pc[s] = "off"
      /\ \A t \in Threads : pc[t] = "idle"
      /\ \A d \in Stores : pc[d] = "s_start"
  BY DEF Init, Actors
<1>2. NoFaults /\ OneStore
  BY <1>1 DEF Init, NoFaults, OneStore, Working, Choosing, Filling, Swapped
<1>3. Settled /\ shm["CURRENT_REGIONS"] = Zeroed
  BY DEF Init, Settled, Unpublished, Regions
<1>4. RegionsOK
  BY <1>1, <1>3 DEF RegionsOK, StoreRegions, Working, Choosing, Filling, Swapped
<1>5. TriplesOK
  BY <1>1 DEF TriplesOK, ServerTriple, SwapTriples, ThreadTriple
<1>6. MappedSoFar /\ FacadeOK
  BY <1>1 DEF MappedSoFar, MappedFor, FacadeOK, FacadeShows
<1> QED
  BY <1>2, <1>4, <1>5, <1>6 DEF Exchange

\* Steps that change nothing.
LEMMA ExchangeStutters == Exchange /\ UNCHANGED vars => Exchange'
<1> SUFFICES ASSUME Exchange, UNCHANGED vars PROVE Exchange'
  OBVIOUS
<1>0. UNCHANGED <<shm, data_timestamp, complete, segment2_in_use, pc, CURRENT, m_layout_memory,
                  m_large_memory, m_query_graph, storeCrashes, unlocks, throws>>
  BY DEF vars, facade, faults
<1>1. NoFaults' /\ OneStore' /\ RegionsOK'
  BY <1>0, RegionsFrame DEF Exchange, NoFaults, OneStore
<1>2. TriplesOK'
  BY <1>0 DEF Exchange, TriplesOK, ServerTriple, SwapTriples, ThreadTriple, Behind,
              previous_layout_region, previous_data_region
<1>3. MappedSoFar' /\ FacadeOK'
  BY <1>0 DEF Exchange, MappedSoFar, MappedFor, FacadeOK, FacadeShows, NotMapping
<1> QED
  BY <1>1, <1>2, <1>3 DEF Exchange

\* Every step of every process preserves the exchange under the operating rules.
LEMMA NextUInv == OperatingRules /\ UInv /\ [Next]_vars => UInv'
<1> SUFFICES ASSUME OperatingRules, UInv, [Next]_vars PROVE Exchange'
  BY NextIInv DEF UInv
<1>1. ASSUME NEW d \in Stores, StoreStep(d) PROVE Exchange'
  BY <1>1, StartStoreKeeps, ReleasePendingKeeps, ChooseSegmentKeeps, GetLayoutRegionKeeps,
     GetDataRegionKeeps, FillDataKeeps, SwapLayoutKeeps, SwapDataKeeps, SwapTimestampKeeps,
     DeletePreviousKeeps, ReleaseAfterSwapKeeps DEF StoreStep
<1>2. ASSUME NEW d \in Stores PROVE ~CrashStore(d)
  BY DEF CrashStore, OperatingRules, UInv, Exchange, NoFaults
<1>3. ASSUME NEW s \in Servers, StartServer(s) \/ ServerStep(s) \/ CrashServer(s) PROVE Exchange'
  BY <1>3, StartKeeps, StartCopyKeeps, StartLoadKeeps, AbortStartKeeps, CrashServerKeeps
     DEF ServerStep, ReloadStep
<1>4. ASSUME NEW t \in Threads, BeginQuery(t) \/ ThreadStep(t) \/ HandleThrows(t) PROVE Exchange'
  BY <1>4, QueryKeeps
<1>5. ~UnlockAll
  BY DEF UnlockAll, OperatingRules, UInv, Exchange, NoFaults
<1>6. CASE UNCHANGED vars
  BY <1>6, ExchangeStutters DEF UInv
<1> QED
  BY <1>1, <1>2, <1>3, <1>4, <1>5, <1>6 DEF Next, Rest

\* The exchange is in order in every reachable state.
LEMMA UpdateInvariance == ASSUME OperatingRules PROVE Spec => []UInv
<1>1. Init => UInv
  BY InitIInv, InitExchange DEF UInv
<1>2. UInv /\ [Next]_vars => UInv'
  BY NextUInv
<1> QED
  BY <1>1, <1>2, PTL DEF Spec

\* Under the operating rules, for any number of servers, workers, datastore runs and
\* killed servers: outside of the swap the published regions exist and hold one
\* complete data set.
THEOREM PublishedAlways == ASSUME OperatingRules PROVE Spec => []PublishedDataAvailable
<1>1. UInv => PublishedDataAvailable
  <2> SUFFICES ASSUME UInv, data_timestamp.timestamp > 0,
                      \A d \in Stores : pc[d] \notin StoreQueryPC
               PROVE  PublishedBank
    BY DEF PublishedDataAvailable, PublishedBank
  <2> QED
    BY StableBank DEF StoreQueryPC, Swapped, Unpublished
<1> QED
  BY <1>1, UpdateInvariance, PTL

\* Under the operating rules: a worker that leaves CheckAndReloadFacade has a facade
\* that shows the complete data set CURRENT_REGIONS designates.
THEOREM AnswersAreCurrent == ASSUME OperatingRules PROVE Spec => []CurrentAnswer
<1>1. UInv => CurrentAnswer
  <2> SUFFICES ASSUME UInv, NEW t \in Threads, pc[t] = "q_release"
               PROVE  /\ m_query_graph[Home[t]] \in complete
                      /\ m_query_graph[Home[t]] = shm[data_timestamp.layout]
                      /\ m_query_graph[Home[t]] = shm[data_timestamp.data]
    BY DEF CurrentAnswer
  <2>1. Home[t] \in Servers /\ pc[Home[t]] = "up" /\ PublishedBank
    BY WorkerBank DEF ThreadQueryPC
  <2>2. CURRENT[Home[t]] = data_timestamp
    BY DEF UInv, IInv, TripleCopied, Exchange, NoFaults
  <2>3. NotMapping(Home[t])
    BY Alone DEF NotMapping, ThreadQueryPC, ReloadPC
  <2>4. FacadeShows(Home[t])
    BY <2>1 DEF UInv, Exchange, FacadeOK
  <2> QED
    BY <2>1, <2>2, <2>3, <2>4 DEF FacadeShows, PublishedBank
<1> QED
  BY <1>1, UpdateInvariance, PTL

\* Under the operating rules: CheckAndReloadFacade never removes the segments that
\* CURRENT_REGIONS designates.
THEOREM OnlyPreviousReleased == ASSUME OperatingRules PROVE Spec => []ReleasesPreviousOnly
<1>1. UInv => ReleasesPreviousOnly
  <2> SUFFICES ASSUME UInv, NEW a \in Servers \cup Threads, pc[a] = "rl_remove"
               PROVE  /\ CURRENT[Proc(a)].layout # data_timestamp.layout
                      /\ CURRENT[Proc(a)].data # data_timestamp.data
    BY DEF ReleasesPreviousOnly
  <2>1. CASE a \in Servers
    <3>1. CURRENT[a] = NoTriple /\ Settled
      BY <2>1, StarterBank DEF ReloadPC, UInv, Exchange, TriplesOK, ServerTriple
    <3> QED
      BY <3>1, <2>1 DEF NoTriple, Settled, Unpublished, PublishedBank, Proc
  <2>2. CASE a \in Threads
    <3>1. Behind(Home[a]) /\ a \notin Servers
      BY <2>2, ConstantsAssumption DEF UInv, Exchange, TriplesOK, ThreadTriple
    <3> QED
      BY <3>1 DEF Behind, Proc
  <2> QED
    BY <2>1, <2>2
<1> QED
  BY <1>1, UpdateInvariance, PTL

-----------------------------------------------------------------------------
(* What a query reads *)

\* Steps that concern neither the worker nor the data of its server.
LEMMA ReadsFrame ==
    ASSUME NEW t \in Threads, TreeFor(t), SeenFor(t),
           pc'[t] = pc[t], pc'[Home[t]] = pc[Home[t]],
           m_static_rtree'[t] = m_static_rtree[t], seen'[t] = seen[t],
           CURRENT'[Home[t]] = CURRENT[Home[t]], m_query_graph'[Home[t]] = m_query_graph[Home[t]],
           NotMapping(Home[t]) => NotMapping(Home[t])', complete \subseteq complete'
    PROVE  TreeFor(t)' /\ SeenFor(t)'
BY DEF TreeFor, SeenFor

\* A worker whose request no reload disturbs has its server's facade to read from.
LEMMA Undisturbed ==
    ASSUME UInv, Marked, NEW t \in Threads, pc[t] \in {"q_rtree", "q_graph"},
           t \notin overtaken \/ ~Reloading(Home[t])
    PROVE  /\ Home[t] \in Servers /\ pc[Home[t]] = "up" /\ NotMapping(Home[t])
           /\ m_query_graph[Home[t]] \in complete
           /\ m_layout_memory[Home[t]] = m_query_graph[Home[t]]
           /\ m_large_memory[Home[t]] = m_query_graph[Home[t]]
<1>1. Home[t] \in Servers /\ pc[Home[t]] = "up"
  BY ConstantsAssumption DEF UInv, IInv, DownIsIdle
<1>2. NotMapping(Home[t])
  BY <1>1 DEF NotMapping, Marked, Reloading, Handling, ReloadPC
<1> QED
  BY <1>1, <1>2 DEF UInv, Exchange, FacadeOK, FacadeShows

\* Steps of a server's main thread, and its death.
LEMMA ServerReads ==
    ASSUME UInv, UInv', ReadsOK, NEW s \in Servers,
           StartServer(s) \/ ServerStep(s) \/ CrashServer(s)
    PROVE  ReadsOK'
<1>1. CASE StartServer(s) \/ ServerStep(s)
  <2>1. /\ pc[s] # "up"
        /\ \A a \in (Servers \cup Threads) \ {s} : pc'[a] = pc[a]
        /\ \A p \in Servers \ {s} : CURRENT'[p] = CURRENT[p]
    BY <1>1, ServerFrame DEF UInv, IInv
  <2>2. UNCHANGED <<m_static_rtree, seen, complete>> /\ overtaken \subseteq overtaken'
    BY <1>1 DEF StartServer, ServerStep, ReloadStep, CheckTriple, RemovePrevious, CopyLayout, CopyData,
         CopyTimestamp, GetLayoutMemory, GetLargeMemory, LoadFacade, AbortStart, query
  <2>3. \A p \in Servers \ {s} : m_query_graph'[p] = m_query_graph[p]
    BY <1>1 DEF StartServer, ServerStep, ReloadStep, CheckTriple, RemovePrevious, CopyLayout, CopyData,
         CopyTimestamp, GetLayoutMemory, GetLargeMemory, LoadFacade, AbortStart, facade, Proc, UInv,
         IInv, TypeOK
  <2>0. \A t \in Threads : pc'[t] = pc[t] /\ Home[t] \in Servers
    BY <2>1, ConstantsAssumption
  <2>4. ASSUME NEW t \in Threads \ overtaken', Home[t] # s PROVE TreeFor(t)' /\ SeenFor(t)'
    <3>1. Home[t] \in Servers \ {s} /\ t \in Threads \ overtaken
      BY <2>0, <2>2, <2>4
    <3>2. NotMapping(Home[t]) => NotMapping(Home[t])'
      BY <2>0 DEF NotMapping
    <3> QED
      BY <3>1, <3>2, <2>0, <2>1, <2>2, <2>3, ReadsFrame DEF ReadsOK
  <2>5. ASSUME NEW t \in Threads \ overtaken', Home[t] = s PROVE TreeFor(t)' /\ SeenFor(t)'
    <3>1. pc'[t] = "idle" /\ pc[t] = "idle" /\ m_static_rtree'[t].timestamp = 0
      BY <2>0, <2>1, <2>2, <2>5 DEF UInv, IInv, DownIsIdle, ReadsOK, TreeFor
    <3>2. pc'[s] = "up" => CURRENT'[s].timestamp > 0
      <4>1. CASE LoadFacade(s)
        BY <4>1 DEF LoadFacade, Goto, UInv, Exchange, TriplesOK, ServerTriple
      <4>2. CASE CheckTriple(s)
        <5>1. CURRENT[s] = NoTriple /\ Settled /\ pc[s] = "rl_check"
          BY <4>2, StarterBank DEF CheckTriple, Goto, ReloadPC, UInv, Exchange, TriplesOK, ServerTriple
        <5>2. CURRENT[s] # data_timestamp
          BY <5>1 DEF NoTriple, Settled, Unpublished, PublishedBank
        <5> QED
          BY <4>2, <5>2 DEF CheckTriple, Goto, Proc, UInv, IInv, TypeOK, Actors
      <4>3. CASE ~LoadFacade(s) /\ ~CheckTriple(s)
        BY <4>3, <1>1 DEF StartServer, ServerStep, ReloadStep, RemovePrevious, CopyLayout, CopyData,
             CopyTimestamp, GetLayoutMemory, GetLargeMemory, AbortStart, Goto, UInv, IInv, TypeOK, Actors
      <4> QED
        BY <4>1, <4>2, <4>3
    <3> QED
      BY <3>1, <3>2, <2>5 DEF TreeFor, SeenFor
  <2>6. Marked' /\ SeenNothing'
    BY <2>0, <2>2 DEF ReadsOK, Marked, SeenNothing, Reloading, Handling
  <2> QED
    BY <2>4, <2>5, <2>6 DEF ReadsOK
<1>2. CASE CrashServer(s)
  <2>1. /\ pc'[s] = "off"
        /\ \A p \in Servers \ {s} : pc'[p] = pc[p]
        /\ \A t \in Threads : pc'[t] = IF Home[t] = s THEN "idle" ELSE pc[t]
    BY <1>2, ConstantsAssumption DEF CrashServer, Actors
  <2>2. /\ UNCHANGED <<CURRENT, seen, complete>>
        /\ \A p \in Servers \ {s} : m_query_graph'[p] = m_query_graph[p]
        /\ \A t \in Threads : m_static_rtree'[t] =
             IF Home[t] = s THEN [timestamp |-> 0, tree |-> NoSegment] ELSE m_static_rtree[t]
        /\ \A t \in Threads : Home[t] # s => (t \in overtaken' <=> t \in overtaken)
    BY <1>2 DEF CrashServer, UInv, IInv, TypeOK
  <2>3. ASSUME NEW t \in Threads \ overtaken', Home[t] # s PROVE TreeFor(t)' /\ SeenFor(t)'
    <3>1. Home[t] \in Servers \ {s} /\ t \in Threads \ overtaken
      BY <2>2, <2>3, ConstantsAssumption
    <3>2. NotMapping(Home[t]) => NotMapping(Home[t])'
      BY <2>1 DEF NotMapping
    <3> QED
      BY <3>1, <3>2, <2>1, <2>2, ReadsFrame DEF ReadsOK
  <2>4. ASSUME NEW t \in Threads, Home[t] = s PROVE TreeFor(t)' /\ SeenFor(t)'
    BY <2>4, <2>1, <2>2 DEF TreeFor, SeenFor
  <2>5. Marked' /\ SeenNothing'
    BY <2>1, <2>2 DEF ReadsOK, Marked, SeenNothing, Reloading, Handling, ReloadPC
  <2> QED
    BY <2>3, <2>4, <2>5 DEF ReadsOK
<1> QED
  BY <1>1, <1>2

\* The reload of worker t, seen by a worker u of the same server: u's old r-tree gets an
\* old timestamp, and u is not in the middle of a request that goes unmarked.
LEMMA ReloadReads ==
    ASSUME UInv, ReadsOK, NEW t \in Threads, ReloadStep(t),
           NEW u \in Threads \ overtaken', Home[u] = Home[t]
    PROVE  TreeFor(u)' /\ SeenFor(u)'
<1> DEFINE s == Home[t]
<1>0. t \notin Servers /\ s \in Servers /\ Proc(t) = s
  BY ConstantsAssumption DEF Proc
<1>1. pc[t] \in ReloadPC /\ pc[s] = "up"
  BY WorkerBank DEF ReloadStep, CheckTriple, RemovePrevious, CopyLayout, CopyData, CopyTimestamp,
       GetLayoutMemory, GetLargeMemory, LoadFacade, Goto, ReloadPC, ThreadQueryPC
<1>2. /\ pc'[s] = "up" /\ pc'[t] \in ReloadPC \cup {"q_release"}
      /\ \A v \in Threads \ {t} : pc'[v] = pc[v]
  BY <1>0, <1>1 DEF ReloadStep, CheckTriple, RemovePrevious, CopyLayout, CopyData, CopyTimestamp,
       GetLayoutMemory, GetLargeMemory, LoadFacade, Goto, Returned, ReloadPC, UInv, IInv, TypeOK, Actors
<1>3. UNCHANGED <<m_static_rtree, seen, complete>> /\ overtaken \subseteq overtaken'
  BY DEF ReloadStep, CheckTriple, RemovePrevious, CopyLayout, CopyData, CopyTimestamp, GetLayoutMemory,
       GetLargeMemory, LoadFacade, query
<1>4. SeenFor(u) /\ TreeFor(u)
  BY <1>3 DEF ReadsOK
<1>5. /\ m_static_rtree[u].timestamp \in Nat /\ CURRENT[s].timestamp \in Nat
      /\ data_timestamp.timestamp \in Nat
  BY <1>0 DEF UInv, IInv, TypeOK, SharedDataTimestamp
<1>6. pc'[u] \in {"q_graph", "q_finish"} => u # t /\ pc'[u] = pc[u]
  BY <1>2 DEF ReloadPC
<1>7. CASE CopyTimestamp(t)
  <2>1. CURRENT[s].timestamp < data_timestamp.timestamp
    BY <1>7 DEF CopyTimestamp, Goto, UInv, Exchange, TriplesOK, ThreadTriple
  <2>2. CURRENT'[s].timestamp = data_timestamp.timestamp /\ UNCHANGED m_query_graph
    BY <1>7, <1>0 DEF CopyTimestamp, UInv, IInv, TypeOK, SharedDataTimestamp
  <2>3. m_static_rtree[u].timestamp <= CURRENT[s].timestamp
    BY <1>1, <1>4, <1>5 DEF TreeFor
  <2>4. m_static_rtree'[u].timestamp < CURRENT'[s].timestamp
    BY <2>1, <2>2, <2>3, <1>3, <1>5
  <2>5. SeenFor(u)'
    BY <2>2, <1>3, <1>4, <1>6 DEF SeenFor
  <2> QED
    BY <2>4, <2>5, <1>2 DEF TreeFor
<1>8. CASE CheckTriple(t) \/ RemovePrevious(t) \/ CopyLayout(t) \/ CopyData(t)
  <2>1. CURRENT'[s].timestamp = CURRENT[s].timestamp
    BY <1>8, <1>0 DEF CheckTriple, RemovePrevious, CopyLayout, CopyData, facade, UInv, IInv, TypeOK,
         SharedDataTimestamp
  <2>2. UNCHANGED m_query_graph
    BY <1>8 DEF CheckTriple, RemovePrevious, CopyLayout, CopyData, facade
  <2>3. pc'[t] \notin {"rl_getLayout", "rl_getData", "rl_load"}
    BY <1>8, <1>0 DEF CheckTriple, RemovePrevious, CopyLayout, CopyData, Goto, Returned, UInv, IInv,
         TypeOK, Actors
  <2>4. NotMapping(s) => NotMapping(s)'
    BY <2>3, <1>2 DEF NotMapping
  <2>5. SeenFor(u)'
    BY <2>2, <1>3, <1>4, <1>6 DEF SeenFor
  <2> QED
    BY <2>1, <2>2, <2>4, <2>5, <1>1, <1>2, <1>3, <1>4 DEF TreeFor
<1>9. CASE GetLayoutMemory(t) \/ GetLargeMemory(t) \/ LoadFacade(t)
  <2>1. UNCHANGED CURRENT
    BY <1>9 DEF GetLayoutMemory, GetLargeMemory, LoadFacade
  <2>2. pc[t] \in {"rl_getLayout", "rl_getData", "rl_load"}
    BY <1>9 DEF GetLayoutMemory, GetLargeMemory, LoadFacade, Goto
  <2>3. m_static_rtree[u].timestamp < CURRENT[s].timestamp
    BY <2>2, <1>1, <1>4 DEF TreeFor, NotMapping
  <2>4. Reloading(s)
    BY <2>2 DEF Reloading, ReloadPC
  <2>5. pc[u] # "q_graph"
    BY <2>4, <1>0, <1>3 DEF ReadsOK, Marked, Handling
  <2>6. SeenFor(u)'
    BY <2>5, <1>3, <1>4, <1>6 DEF SeenFor
  <2> QED
    BY <2>1, <2>3, <2>6, <1>2, <1>3 DEF TreeFor
<1> QED
  BY <1>7, <1>8, <1>9 DEF ReloadStep

\* FindPhantomNodeForCoordinate and the rest of HandleRequest read the server's data.
LEMMA SearchReads ==
    ASSUME UInv, ReadsOK, NEW t \in Threads \ overtaken', SearchRTree(t) \/ SearchGraph(t)
    PROVE  TreeFor(t)' /\ SeenFor(t)'
<1> DEFINE s == Home[t]
           stale == m_static_rtree[t].timestamp # CURRENT[s].timestamp
           tree == IF stale THEN ViewOf(m_layout_memory[s], m_large_memory[s])
                            ELSE m_static_rtree[t].tree
<1>0. pc[t] \in {"q_rtree", "q_graph"}
  BY DEF SearchRTree, SearchGraph, Goto
<1>1. t \notin overtaken \/ (SearchRTree(t) /\ stale /\ ~Reloading(s))
  BY DEF SearchRTree, SearchGraph
<1>2. /\ s \in Servers /\ pc[s] = "up" /\ NotMapping(s)
      /\ m_query_graph[s] \in complete
      /\ m_layout_memory[s] = m_query_graph[s] /\ m_large_memory[s] = m_query_graph[s]
  BY <1>0, <1>1, Undisturbed DEF ReadsOK
<1>3. /\ pc'[s] = "up" /\ \A u \in Threads \ {t} : pc'[u] = pc[u]
      /\ pc'[t] = IF pc[t] = "q_rtree" THEN "q_graph" ELSE "q_finish"
      /\ UNCHANGED <<CURRENT, m_query_graph, complete>>
  BY <1>0, <1>2, ConstantsAssumption DEF SearchRTree, SearchGraph, Goto, facade, UInv, IInv, TypeOK, Actors
<1>4. NotMapping(s)'
  BY <1>0, <1>2, <1>3 DEF NotMapping
<1>5. CASE SearchRTree(t)
  <2>1. m_static_rtree'[t] = [timestamp |-> CURRENT[s].timestamp, tree |-> tree]
    BY <1>5 DEF SearchRTree, UInv, IInv, TypeOK
  <2>2. seen'[t] = seen[t] \cup {Read(s, tree)} /\ seen[t] = {} /\ pc[t] = "q_rtree"
    BY <1>5 DEF SearchRTree, Goto, UInv, IInv, TypeOK, ReadsOK, SeenNothing
  <2>3. m_static_rtree[t].timestamp \in Nat /\ CURRENT[s].timestamp \in Nat
    BY <1>2 DEF UInv, IInv, TypeOK, SharedDataTimestamp
  <2>4. tree = m_query_graph[s]
    <3>1. CASE stale
      BY <3>1, <1>2 DEF ViewOf
    <3>2. CASE ~stale
      BY <3>2, <2>3, <1>1, <1>2 DEF ReadsOK, TreeFor
    <3> QED
      BY <3>1, <3>2
  <2> HIDE DEF tree
  <2>5. Read(s, tree) = m_query_graph[s]
    BY <2>4, <1>2 DEF Read
  <2>6. seen'[t] = {m_query_graph[s]} /\ pc'[t] = "q_graph"
    BY <2>2, <2>5, <1>3
  <2> QED
    BY <2>1, <2>4, <2>6, <1>2, <1>3, <1>4 DEF TreeFor, SeenFor
<1>6. CASE SearchGraph(t)
  <2>1. seen'[t] = seen[t] \cup {Read(s, m_query_graph[s])} /\ UNCHANGED m_static_rtree
        /\ pc[t] = "q_graph"
    BY <1>6 DEF SearchGraph, Goto, UInv, IInv, TypeOK
  <2>2. Read(s, m_query_graph[s]) = m_query_graph[s]
    BY <1>2 DEF Read
  <2>3. t \notin overtaken
    BY <1>1, <2>1 DEF SearchRTree, Goto
  <2>4. TreeFor(t) /\ SeenFor(t)
    BY <2>3 DEF ReadsOK
  <2>5. seen'[t] = {m_query_graph[s]}
    BY <2>1, <2>2, <2>4 DEF SeenFor
  <2> QED
    BY <2>1, <2>4, <2>5, <1>2, <1>3, <1>4 DEF TreeFor, SeenFor
<1> QED
  BY <1>5, <1>6

\* A reload marks the requests it disturbs when it begins, and no request begins while
\* it lasts; nothing was read before the r-tree is searched.
LEMMA WorkerMarks ==
    ASSUME UInv, ReadsOK, OperatingRules, NEW t \in Threads,
           BeginQuery(t) \/ ThreadStep(t) \/ HandleThrows(t)
    PROVE  Marked' /\ SeenNothing'
<1>0. /\ \A u \in Threads \ {t} : pc'[u] = pc[u]
      /\ t \in Actors /\ t \notin Servers /\ Proc(t) = Home[t] /\ Home[t] \in Servers
  BY ThreadFrame, ConstantsAssumption DEF UInv, IInv, Actors, Proc
<1>1. ~AbortQuery(t) /\ ~HandleThrows(t)
  BY NoThrow
<1> DEFINE Inside == ReloadPC \ {"rl_check"}
           Busy == {"q_rtree", "q_graph"}
<1>2. SeenNothing'
  BY <1>0, <1>1 DEF BeginQuery, ThreadStep, ReloadStep, CheckTriple, RemovePrevious, CopyLayout,
       CopyData, CopyTimestamp, GetLayoutMemory, GetLargeMemory, LoadFacade, LockQuery, EnterQuery,
       ReadCount, IncrementCount, ReleaseQuery, SearchRTree, SearchGraph, LockAfterQuery, LeaveQuery,
       Goto, Returned, query, UInv, IInv, TypeOK, ReadsOK, SeenNothing
<1>3. SUFFICES ASSUME NEW u \in Threads, NEW v \in Threads, Home[u] = Home[v],
                      pc'[u] \in Inside, pc'[v] \in Busy
               PROVE  v \in overtaken'
  BY <1>2 DEF Marked, Reloading, Handling
<1>4. pc[u] \in Inside /\ pc[v] \in Busy => v \in overtaken
  BY <1>3, ConstantsAssumption DEF ReadsOK, Marked, Reloading, Handling
<1>5. CASE CheckTriple(t)
  <2>1. overtaken \subseteq overtaken'
    BY <1>5 DEF CheckTriple
  <2>2. v # t /\ pc[v] \in Busy
    BY <1>0, <1>3, <1>5 DEF CheckTriple, Goto, Returned, UInv, IInv, TypeOK
  <2>3. CASE u = t
    <3>1. pc'[t] = "rl_remove"
      BY <2>3, <1>0, <1>3, <1>5 DEF CheckTriple, Goto, Returned, UInv, IInv, TypeOK, ReloadPC
    <3>2. overtaken' = overtaken \cup Handling(Home[t])
      BY <3>1, <1>0, <1>5 DEF CheckTriple, Goto, Returned, UInv, IInv, TypeOK
    <3> QED
      BY <3>2, <2>2, <2>3, <1>3 DEF Handling
  <2>4. CASE u # t
    BY <2>1, <2>2, <2>4, <1>0, <1>3, <1>4
  <2> QED
    BY <2>3, <2>4
<1>6. CASE SearchRTree(t)
  <2>1. pc[t] = "q_rtree" /\ pc'[t] = "q_graph" /\ u # t
    BY <1>0, <1>3, <1>6 DEF SearchRTree, Goto, UInv, IInv, TypeOK, ReloadPC
  <2>2. pc[u] \in Inside /\ v \in overtaken
    BY <2>1, <1>0, <1>3, <1>4
  <2>3. CASE v = t
    BY <2>2, <2>3, <1>3, <1>6 DEF SearchRTree, Reloading
  <2>4. CASE v # t
    BY <2>2, <2>4, <1>6 DEF SearchRTree
  <2> QED
    BY <2>3, <2>4
<1>7. CASE ~CheckTriple(t) /\ ~SearchRTree(t)
  <2>1. UNCHANGED overtaken
    BY <1>1, <1>7 DEF BeginQuery, ThreadStep, ReloadStep, RemovePrevious, CopyLayout,
         CopyData, CopyTimestamp, GetLayoutMemory, GetLargeMemory, LoadFacade, LockQuery, EnterQuery,
         ReadCount, IncrementCount, ReleaseQuery, SearchGraph, LockAfterQuery, LeaveQuery, query
  <2>2. /\ pc'[t] \in Inside => pc[t] \in Inside
        /\ pc'[t] \in Busy => pc[t] = "q_release"
    BY <1>0, <1>1, <1>7 DEF BeginQuery, ThreadStep, ReloadStep, RemovePrevious, CopyLayout,
         CopyData, CopyTimestamp, GetLayoutMemory, GetLargeMemory, LoadFacade, LockQuery, EnterQuery,
         ReadCount, IncrementCount, ReleaseQuery, SearchGraph, LockAfterQuery, LeaveQuery, Goto,
         Returned, ReloadPC, UInv, IInv, TypeOK
  <2>3. pc[u] \in Inside
    BY <2>2, <1>0, <1>3
  <2>4. v # t
    <3>1. SUFFICES ASSUME v = t PROVE FALSE
      OBVIOUS
    <3>2. pc[t] = "q_release" /\ u # t
      BY <3>1, <2>2, <1>3 DEF ReloadPC
    <3> QED
      BY <3>2, <2>3, Alone DEF ThreadQueryPC, ReloadPC
  <2> QED
    BY <2>1, <2>3, <2>4, <1>0, <1>3, <1>4
<1> QED
  BY <1>5, <1>6, <1>7

\* What the steps of a worker do to the queries of all workers.
LEMMA WorkerReads ==
    ASSUME UInv, ReadsOK, OperatingRules, NEW t \in Threads,
           BeginQuery(t) \/ ThreadStep(t) \/ HandleThrows(t)
    PROVE  ReadsOK'
<1>0. /\ pc[Home[t]] = "up" /\ Home[t] \in Servers /\ t \notin Servers
      /\ \A a \in (Servers \cup Threads) \ {t} : pc'[a] = pc[a]
  BY ThreadFrame, ConstantsAssumption DEF UInv, IInv
<1>1. ~AbortQuery(t) /\ ~HandleThrows(t)
  BY NoThrow
<1>2. SUFFICES ASSUME NEW u \in Threads \ overtaken' PROVE TreeFor(u)' /\ SeenFor(u)'
  BY WorkerMarks DEF ReadsOK
<1>3. Home[u] \in Servers /\ pc'[Home[u]] = pc[Home[u]]
  BY <1>0, ConstantsAssumption
<1>4. complete' = complete
  BY <1>1 DEF BeginQuery, ThreadStep, ReloadStep, CheckTriple, RemovePrevious, CopyLayout,
       CopyData, CopyTimestamp, GetLayoutMemory, GetLargeMemory, LoadFacade, LockQuery, EnterQuery,
       ReadCount, IncrementCount, ReleaseQuery, SearchRTree, SearchGraph, LockAfterQuery, LeaveQuery
<1>5. u # t => /\ m_static_rtree'[u] = m_static_rtree[u] /\ seen'[u] = seen[u]
               /\ u \notin overtaken
  BY <1>1, <1>2 DEF BeginQuery, ThreadStep, ReloadStep, CheckTriple, RemovePrevious, CopyLayout,
       CopyData, CopyTimestamp, GetLayoutMemory, GetLargeMemory, LoadFacade, LockQuery, EnterQuery,
       ReadCount, IncrementCount, ReleaseQuery, SearchRTree, SearchGraph, LockAfterQuery, LeaveQuery,
       query, UInv, IInv, TypeOK
<1>6. CASE ReloadStep(t)
  <2>1. CASE Home[u] = Home[t]
    BY <2>1, <1>6, ReloadReads
  <2>2. CASE Home[u] # Home[t]
    <3>1. CURRENT'[Home[u]] = CURRENT[Home[u]] /\ m_query_graph'[Home[u]] = m_query_graph[Home[u]]
      BY <2>2, <1>0, <1>3, <1>6 DEF ReloadStep, CheckTriple, RemovePrevious, CopyLayout,
         CopyData, CopyTimestamp, GetLayoutMemory, GetLargeMemory, LoadFacade, facade, Proc, UInv, IInv,
         TypeOK
    <3>2. NotMapping(Home[u]) => NotMapping(Home[u])'
      BY <2>2, <1>0 DEF NotMapping
    <3>3. u # t
      BY <2>2
    <3> QED
      BY <3>1, <3>2, <3>3, <1>0, <1>3, <1>4, <1>5, ReadsFrame DEF ReadsOK
  <2> QED
    BY <2>1, <2>2
<1>7. CASE ~ReloadStep(t)
  <2>1. UNCHANGED <<CURRENT, m_query_graph>>
    BY <1>1, <1>7 DEF BeginQuery, ThreadStep, LockQuery, EnterQuery, ReadCount, IncrementCount,
         ReleaseQuery, SearchRTree, SearchGraph, LockAfterQuery, LeaveQuery, facade
  <2>2. pc'[t] \notin {"rl_getLayout", "rl_getData", "rl_load"}
    BY <1>1, <1>7 DEF BeginQuery, ThreadStep, LockQuery, EnterQuery, ReadCount, IncrementCount,
         ReleaseQuery, SearchRTree, SearchGraph, LockAfterQuery, LeaveQuery, Goto, UInv, IInv,
         TypeOK, Actors
  <2>3. NotMapping(Home[u]) => NotMapping(Home[u])'
    BY <2>2, <1>0 DEF NotMapping
  <2>4. CASE u # t
    BY <2>1, <2>3, <2>4, <1>0, <1>3, <1>4, <1>5, ReadsFrame DEF ReadsOK
  <2>5. CASE u = t /\ (SearchRTree(t) \/ SearchGraph(t))
    BY <2>5, SearchReads
  <2>6. CASE u = t /\ ~SearchRTree(t) /\ ~SearchGraph(t)
    <3>1. UNCHANGED <<m_static_rtree, overtaken>>
      BY <2>6, <1>1, <1>7 DEF BeginQuery, ThreadStep, LockQuery, EnterQuery, ReadCount,
           IncrementCount, ReleaseQuery, LockAfterQuery, LeaveQuery, query
    <3>2. pc'[t] \notin {"q_graph", "q_finish"}
      BY <2>6, <1>1, <1>7 DEF BeginQuery, ThreadStep, LockQuery, EnterQuery, ReadCount,
           IncrementCount, ReleaseQuery, LockAfterQuery, LeaveQuery, Goto, UInv, IInv, TypeOK, Actors
    <3> QED
      BY <2>1, <2>3, <2>6, <3>1, <3>2, <1>2, <1>3 DEF ReadsOK, TreeFor, SeenFor
  <2> QED
    BY <2>4, <2>5, <2>6
<1> QED
  BY <1>6, <1>7

\* A datastore touches no facade and no r-tree.
LEMMA StoreReads ==
    ASSUME UInv, ReadsOK, NEW d \in Stores, StoreStep(d)
    PROVE  ReadsOK'
<1>1. \A a \in Servers \cup Threads : pc'[a] = pc[a]
  BY StoreFrame DEF UInv, IInv
<1>2. UNCHANGED <<CURRENT, m_query_graph, m_static_rtree, seen, overtaken>>
  BY DEF StoreStep, StartStore, ReleasePending, ChooseSegment, GetLayoutRegion, GetDataRegion, FillData,
       LockForSwap, SwapLayout, SwapData, SwapTimestamp, DeletePreviousData, DeletePreviousLayout,
       ReleaseAfterSwap, facade, query
<1>3. complete \subseteq complete'
  BY DEF StoreStep, StartStore, ReleasePending, ChooseSegment, GetLayoutRegion, GetDataRegion, FillData,
       LockForSwap, SwapLayout, SwapData, SwapTimestamp, DeletePreviousData, DeletePreviousLayout,
       ReleaseAfterSwap
<1>4. \A t \in Threads : Home[t] \in Servers /\ (NotMapping(Home[t]) => NotMapping(Home[t])')
  BY <1>1, ConstantsAssumption DEF NotMapping
<1>5. Marked' /\ SeenNothing'
  BY <1>1, <1>2 DEF ReadsOK, Marked, SeenNothing, Reloading, Handling
<1> QED
  BY <1>1, <1>2, <1>3, <1>4, <1>5, ReadsFrame DEF ReadsOK

\* Under the operating rules, for any number of servers and of workers per server:
\* everything a query reads, through its thread's r-tree and through the facade, comes
\* from one completely loaded data set that stays mapped, unless CheckAndReloadFacade ran
\* in another worker of the server while the request (or the one that loaded the thread's
\* r-tree) was being handled.
THEOREM QueriesReadOneDataSet ==
    ASSUME OperatingRules PROVE Spec => []MixedOnlyIfOvertaken
<1>1. Init => ReadsOK
  BY ConstantsAssumption DEF Init, Actors, ReadsOK, Marked, SeenNothing, Reloading, ReloadPC, TreeFor,
       SeenFor
<1>2. UInv /\ UInv' /\ ReadsOK /\ [Next]_vars => ReadsOK'
  <2> SUFFICES ASSUME UInv, UInv', ReadsOK, [Next]_vars PROVE ReadsOK'
    OBVIOUS
  <2>1. CASE UNCHANGED vars
    BY <2>1 DEF vars, facade, query, ReadsOK, Marked, SeenNothing, Reloading, Handling, TreeFor, SeenFor,
         NotMapping
  <2>2. ASSUME NEW d \in Stores PROVE ~CrashStore(d)
    BY DEF CrashStore, OperatingRules, UInv, Exchange, NoFaults
  <2>3. ~UnlockAll
    BY DEF UnlockAll, OperatingRules, UInv, Exchange, NoFaults
  <2> QED
    BY <2>1, <2>2, <2>3, StoreReads, ServerReads, WorkerReads DEF Next, Rest
<1>3. ReadsOK => MixedOnlyIfOvertaken
  BY DEF ReadsOK, SeenFor, MixedOnlyIfOvertaken
<1> QED
  BY <1>1, <1>2, <1>3, UpdateInvariance, PTL DEF Spec

=============================================================================
