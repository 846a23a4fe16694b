----------------------------- MODULE SharedData -----------------------------
(***************************************************************************)
(* Exchange of routing data through System V shared memory.                *)
(*                                                                         *)
(* osrm-datastore processes (Stores, each runs main() once) load a data    *)
(* set into one of two banks of segments, LAYOUT_i / DATA_i, and then      *)
(* point CURRENT_REGIONS at it.  osrm-routed processes (Servers) map the   *)
(* segments CURRENT_REGIONS names; their worker threads (Threads) compare  *)
(* the triple {layout, data, timestamp} at the start of every query and    *)
(* reload.  The named mutexes "pending_update" and "query" are shared by   *)
(* all processes; number_of_queries is a plain int of each process's own   *)
(* SharedBarriers object.                                                  *)
(*                                                                         *)
(* A segment is named by the datastore run that created it: attached       *)
(* mappings survive the removal of the key, so a key and the segment       *)
(* behind it are different things.                                         *)
(***************************************************************************)
EXTENDS Integers, FiniteSets

CONSTANTS
    Servers,        \* osrm-routed processes; also the name of their main thread
    Threads,        \* worker threads of all servers
    Home,           \* Home[t] is the server that thread t belongs to
    Stores,         \* runs of osrm-datastore
    NoSegment,      \* no segment behind a key, nothing mapped
    Zeroed,         \* the zero-filled CURRENT_REGIONS segment mapped as data
    Garbage,        \* a view built from memory that is not one complete data set
    Discipline,     \* what the operator takes care of, see below
    MaxQueries,     \* bound: requests a thread serves
    MaxStoreCrashes, MaxServerCrashes, MaxUnlocks, MaxThrows   \* bounds on faults

\* Operating rules the code itself does not enforce:
\*   SerialStores  osrm-datastore is not started while another one is running
\*   CaughtUp      ... nor before every running server has seen the last update
\*   QuietStart    osrm-routed is not started while datastore is publishing
Rules == {"SerialStores", "CaughtUp", "QuietStart"}

ASSUME ConstantsAssumption ==
    /\ IsFiniteSet(Servers) /\ IsFiniteSet(Threads) /\ IsFiniteSet(Stores)
    /\ Servers \cap Threads = {} /\ Servers \cap Stores = {} /\ Threads \cap Stores = {}
    /\ Home \in [Threads -> Servers]
    /\ NoSegment \notin Stores /\ Zeroed \notin Stores /\ Garbage \notin Stores
    /\ NoSegment # Zeroed /\ NoSegment # Garbage /\ Zeroed # Garbage
    /\ Discipline \subseteq Rules
    /\ MaxQueries \in Nat /\ MaxStoreCrashes \in Nat /\ MaxServerCrashes \in Nat
    /\ MaxUnlocks \in Nat /\ MaxThrows \in Nat

-----------------------------------------------------------------------------
(* SharedDataType.h *)
Regions == {"CURRENT_REGIONS", "LAYOUT_1", "DATA_1", "LAYOUT_2", "DATA_2",
            "LAYOUT_NONE", "DATA_NONE"}
Segments == Stores \cup {NoSegment, Zeroed}
Views == Segments \cup {Garbage}
SharedDataTimestamp == [layout : Regions, data : Regions, timestamp : Nat]

VARIABLES
    shm,                    \* key -> segment that RegionExists / Get find
    data_timestamp,         \* contents of CURRENT_REGIONS
    complete,               \* stores whose segments are completely written
    pending_update_mutex,   \* value of the named semaphore "pending_update"
    query_mutex,            \* value of the named semaphore "query"
    pc,                     \* control state of every store, thread and server
    segment2_in_use,        \* local of datastore's main()
    number_of_queries,      \* member of each process's own SharedBarriers
    register,               \* the value of it that a thread is about to change
    CURRENT,                \* CURRENT_LAYOUT, _DATA, _TIMESTAMP of each facade
    m_layout_memory,        \* layout segment mapped by each facade
    m_large_memory,         \* data segment mapped by each facade
    m_query_graph,          \* data set the vectors of each facade point into
    m_static_rtree,         \* thread-specific <<timestamp, r-tree>> pair
    seen,                   \* data sets the running query of a thread has read
    overtaken,              \* history: threads that a reload got in the way of
    queries, storeCrashes, serverCrashes, unlocks, throws,  \* bounded counters
    leaked,                 \* queries of a server that ended by an exception
    lost                    \* query_mutex values that died with their holder

locks == <<pending_update_mutex, query_mutex>>
facade == <<CURRENT, m_layout_memory, m_large_memory, m_query_graph>>
query == <<m_static_rtree, seen, overtaken, queries>>
counts == <<number_of_queries, register, leaked>>
faults == <<storeCrashes, serverCrashes, unlocks, throws, lost>>
vars == <<shm, data_timestamp, complete, locks, pc, segment2_in_use, counts,
          facade, query, faults>>

Actors == Servers \cup Threads \cup Stores

\* The process whose facade actor a (a main thread or a worker) works on.
Proc(a) == IF a \in Servers THEN a ELSE Home[a]

ReloadPC == {"rl_check", "rl_remove", "rl_layout", "rl_data", "rl_timestamp",
             "rl_getLayout", "rl_getData", "rl_load"}
ThreadQueryPC == ReloadPC \cup {"q_enter", "q_count", "q_increment", "q_release",
                                "q_leave", "q_decrement"}
StoreQueryPC == {"s_layout", "s_data", "s_timestamp", "s_deleteData",
                 "s_deleteLayout", "s_release"}

ServerPC == ReloadPC \cup {"off", "up"}
ThreadPC == ThreadQueryPC \cup {"idle", "q_pending", "q_rtree", "q_graph", "q_finish"}
StorePC == StoreQueryPC \cup {"s_start", "s_pending", "s_choose", "s_getLayout",
                              "s_getData", "s_fill", "s_lock", "s_done", "s_crashed"}

\* Actors inside a section protected by the query mutex.
HoldsQuery(a, p) ==
    (a \in Threads /\ p \in ThreadQueryPC) \/ (a \in Stores /\ p \in StoreQueryPC)
QueryHolders == {a \in Threads \cup Stores : HoldsQuery(a, pc[a])}

\* Threads of s between the increment and the decrement of number_of_queries.
CountedPC == ReloadPC \cup {"q_release", "q_rtree", "q_graph", "q_finish", "q_leave",
                            "q_decrement"}
Running(s) == {t \in Threads : Home[t] = s /\ pc[t] \in CountedPC}

Goto(a, from, to) == pc[a] = from /\ pc' = [pc EXCEPT ![a] = to]

-----------------------------------------------------------------------------
(* SharedMemory: keys and segments *)

RegionExists(r) == shm[r] # NoSegment

\* Remove(key): the key is gone, attached mappings of the segment stay.
Removed(m, r) == [m EXCEPT ![r] = NoSegment]

\* SharedMemoryFactory::Get with a size and remove_prev: a new segment of d.
Created(m, r, d) == [m EXCEPT ![r] = d]

\* What the view of a facade (or an r-tree) built from a mapped layout and a
\* mapped data segment shows.
ViewOf(l, d) == IF l = d /\ l \in complete THEN l ELSE Garbage

-----------------------------------------------------------------------------
(* datastore.cpp *)

StartStore(d) ==
    /\ "SerialStores" \in Discipline =>
         \A e \in Stores : pc[e] \in {"s_start", "s_done", "s_crashed"}
    /\ "CaughtUp" \in Discipline =>
         \A s \in Servers : pc[s] = "up" => CURRENT[s] = data_timestamp
    /\ "QuietStart" \in Discipline => \A s \in Servers : pc[s] \in {"off", "up"}
    /\ pending_update_mutex > 0
    /\ pending_update_mutex' = pending_update_mutex - 1
    /\ Goto(d, "s_start", "s_pending")
    /\ UNCHANGED <<shm, data_timestamp, complete, query_mutex, segment2_in_use,
                   counts, facade, query, faults>>

ReleasePending(d) ==
    /\ Goto(d, "s_pending", "s_choose")
    /\ pending_update_mutex' = pending_update_mutex + 1
    /\ UNCHANGED <<shm, data_timestamp, complete, query_mutex, segment2_in_use,
                   counts, facade, query, faults>>

\* Mutant: always load into bank 2.
ChooseSameSegment(d) ==
    /\ Goto(d, "s_choose", "s_getLayout")
    /\ UNCHANGED <<shm, data_timestamp, complete, locks, segment2_in_use, counts,
                   facade, query, faults>>

\* determine segment to use
ChooseSegment(d) ==
    /\ Goto(d, "s_choose", "s_getLayout")
    /\ segment2_in_use' = [segment2_in_use EXCEPT ![d] = RegionExists("LAYOUT_2")]
    /\ UNCHANGED <<shm, data_timestamp, complete, locks, counts, facade, query, faults>>

layout_region(d) == IF segment2_in_use[d] THEN "LAYOUT_1" ELSE "LAYOUT_2"
data_region(d) == IF segment2_in_use[d] THEN "DATA_1" ELSE "DATA_2"
previous_layout_region(d) == IF segment2_in_use[d] THEN "LAYOUT_2" ELSE "LAYOUT_1"
previous_data_region(d) == IF segment2_in_use[d] THEN "DATA_2" ELSE "DATA_1"

GetLayoutRegion(d) ==
    /\ Goto(d, "s_getLayout", "s_getData")
    /\ shm' = Created(shm, layout_region(d), d)
    /\ UNCHANGED <<data_timestamp, complete, locks, segment2_in_use, counts,
                   facade, query, faults>>

GetDataRegion(d) ==
    /\ Goto(d, "s_getData", "s_fill")
    /\ shm' = Created(shm, data_region(d), d)
    /\ UNCHANGED <<data_timestamp, complete, locks, segment2_in_use, counts,
                   facade, query, faults>>

\* read actual data into shared memory object
FillData(d) ==
    /\ Goto(d, "s_fill", "s_lock")
    /\ complete' = complete \cup {d}
    /\ UNCHANGED <<shm, data_timestamp, locks, segment2_in_use, counts, facade,
                   query, faults>>

\* Mutant: the swap does not wait for the query mutex.
LockForSwapWithoutWaiting(d) ==
    /\ query_mutex' = query_mutex - 1
    /\ number_of_queries[d] = 0
    /\ Goto(d, "s_lock", "s_layout")
    /\ UNCHANGED <<shm, data_timestamp, complete, pending_update_mutex,
                   segment2_in_use, counts, facade, query, faults>>

\* The wait for running queries looks at the store's own number_of_queries; the
\* waiting branch would release the mutex and is never taken.
LockForSwap(d) ==
    /\ query_mutex > 0
    /\ query_mutex' = query_mutex - 1
    /\ number_of_queries[d] = 0
    /\ Goto(d, "s_lock", "s_layout")
    /\ UNCHANGED <<shm, data_timestamp, complete, pending_update_mutex,
                   segment2_in_use, counts, facade, query, faults>>

SwapLayout(d) ==
    /\ Goto(d, "s_layout", "s_data")
    /\ data_timestamp' = [data_timestamp EXCEPT !.layout = layout_region(d)]
    /\ UNCHANGED <<shm, complete, locks, segment2_in_use, counts, facade, query, faults>>

SwapData(d) ==
    /\ Goto(d, "s_data", "s_timestamp")
    /\ data_timestamp' = [data_timestamp EXCEPT !.data = data_region(d)]
    /\ UNCHANGED <<shm, complete, locks, segment2_in_use, counts, facade, query, faults>>

SwapTimestamp(d) ==
    /\ Goto(d, "s_timestamp", "s_deleteData")
    /\ data_timestamp' = [data_timestamp EXCEPT !.timestamp = @ + 1]
    /\ UNCHANGED <<shm, complete, locks, segment2_in_use, counts, facade, query, faults>>

DeletePreviousData(d) ==
    /\ Goto(d, "s_deleteData", "s_deleteLayout")
    /\ shm' = Removed(shm, previous_data_region(d))
    /\ UNCHANGED <<data_timestamp, complete, locks, segment2_in_use, counts,
                   facade, query, faults>>

DeletePreviousLayout(d) ==
    /\ Goto(d, "s_deleteLayout", "s_release")
    /\ shm' = Removed(shm, previous_layout_region(d))
    /\ UNCHANGED <<data_timestamp, complete, locks, segment2_in_use, counts,
                   facade, query, faults>>

ReleaseAfterSwap(d) ==
    /\ Goto(d, "s_release", "s_done")
    /\ query_mutex' = query_mutex + 1
    /\ UNCHANGED <<shm, data_timestamp, complete, pending_update_mutex,
                   segment2_in_use, counts, facade, query, faults>>

\* The process is killed, or an input file makes it end before it took the query
\* lock: nothing is undone, a lock it holds stays taken.
CrashStore(d) ==
    /\ storeCrashes < MaxStoreCrashes
    /\ pc[d] \notin {"s_start", "s_done", "s_crashed"}
    /\ pc' = [pc EXCEPT ![d] = "s_crashed"]
    /\ lost' = lost + Cardinality(QueryHolders \cap {d})
    /\ storeCrashes' = storeCrashes + 1
    /\ UNCHANGED <<shm, data_timestamp, complete, locks, segment2_in_use, counts,
                   facade, query, serverCrashes, unlocks, throws>>

-----------------------------------------------------------------------------
(* SharedDataFacade.h: CheckAndReloadFacade, run by a worker thread under the  *)
(* query mutex and by a server's main thread, in the constructor, without it.  *)

NoTriple == [layout |-> "LAYOUT_NONE", data |-> "DATA_NONE", timestamp |-> 0]

StartServer(s) ==
    /\ "QuietStart" \in Discipline =>
         \A d \in Stores : pc[d] \in {"s_start", "s_done", "s_crashed"}
    /\ Goto(s, "off", "rl_check")
    /\ CURRENT' = [CURRENT EXCEPT ![s] = NoTriple]
    /\ UNCHANGED <<shm, data_timestamp, complete, locks, segment2_in_use, counts,
                   m_layout_memory, m_large_memory, m_query_graph, query, faults>>

\* Control state after CheckAndReloadFacade returned to actor a.
Returned(a) == IF a \in Servers THEN "up" ELSE "q_release"

\* Mutant: data that was loaded once is never reloaded.
CheckLoaded(a) ==
    /\ Goto(a, "rl_check", IF CURRENT[Proc(a)].layout # "LAYOUT_NONE"
                           THEN Returned(a) ELSE "rl_remove")
    /\ UNCHANGED <<shm, data_timestamp, complete, locks, segment2_in_use, counts,
                   facade, query, faults>>

\* The query mutex is not held while a request is handled: the requests that other
\* workers of the server are handling go on while this one reloads.
Handling(s) == {t \in Threads : Home[t] = s /\ pc[t] \in {"q_rtree", "q_graph"}}

CheckTriple(a) ==
    LET s == Proc(a) IN
    /\ \/ /\ CURRENT[s] = data_timestamp
          /\ Goto(a, "rl_check", Returned(a))
          /\ UNCHANGED overtaken
       \/ /\ CURRENT[s] # data_timestamp
          /\ Goto(a, "rl_check", "rl_remove")
          /\ overtaken' = overtaken \cup Handling(s)
    /\ UNCHANGED <<shm, data_timestamp, complete, locks, segment2_in_use, counts,
                   facade, m_static_rtree, seen, queries, faults>>

\* release the previous shared memory segments
RemovePrevious(a) ==
    LET s == Proc(a) IN
    /\ Goto(a, "rl_remove", "rl_layout")
    /\ shm' = Removed(Removed(shm, CURRENT[s].layout), CURRENT[s].data)
    /\ UNCHANGED <<data_timestamp, complete, locks, segment2_in_use, counts,
                   facade, query, faults>>

CopyLayout(a) ==
    /\ Goto(a, "rl_layout", "rl_data")
    /\ CURRENT' = [CURRENT EXCEPT ![Proc(a)].layout = data_timestamp.layout]
    /\ UNCHANGED <<shm, data_timestamp, complete, locks, segment2_in_use, counts,
                   m_layout_memory, m_large_memory, m_query_graph, query, faults>>

CopyData(a) ==
    /\ Goto(a, "rl_data", "rl_timestamp")
    /\ CURRENT' = [CURRENT EXCEPT ![Proc(a)].data = data_timestamp.data]
    /\ UNCHANGED <<shm, data_timestamp, complete, locks, segment2_in_use, counts,
                   m_layout_memory, m_large_memory, m_query_graph, query, faults>>

\* Mutant: CURRENT_TIMESTAMP is not updated.
ForgetTimestamp(a) ==
    /\ Goto(a, "rl_timestamp", "rl_getLayout")
    /\ UNCHANGED <<shm, data_timestamp, complete, locks, segment2_in_use, counts,
                   facade, query, faults>>

CopyTimestamp(a) ==
    /\ Goto(a, "rl_timestamp", "rl_getLayout")
    /\ CURRENT' = [CURRENT EXCEPT ![Proc(a)].timestamp = data_timestamp.timestamp]
    /\ UNCHANGED <<shm, data_timestamp, complete, locks, segment2_in_use, counts,
                   m_layout_memory, m_large_memory, m_query_graph, query, faults>>

GetLayoutMemory(a) ==
    LET s == Proc(a) IN
    /\ RegionExists(CURRENT[s].layout)
    /\ Goto(a, "rl_getLayout", "rl_getData")
    /\ m_layout_memory' = [m_layout_memory EXCEPT ![s] = shm[CURRENT[s].layout]]
    /\ UNCHANGED <<shm, data_timestamp, complete, locks, segment2_in_use, counts,
                   CURRENT, m_large_memory, m_query_graph, query, faults>>

GetLargeMemory(a) ==
    LET s == Proc(a) IN
    /\ RegionExists(CURRENT[s].data)
    /\ Goto(a, "rl_getData", "rl_load")
    /\ m_large_memory' = [m_large_memory EXCEPT ![s] = shm[CURRENT[s].data]]
    /\ UNCHANGED <<shm, data_timestamp, complete, locks, segment2_in_use, counts,
                   CURRENT, m_layout_memory, m_query_graph, query, faults>>

\* The Load* functions.  The zero-filled region has no canaries; memory that is
\* not one complete data set may or may not happen to have them in place.
LoadFacade(a) ==
    LET s == Proc(a) IN
    /\ Zeroed \notin {m_layout_memory[s], m_large_memory[s]}
    /\ Goto(a, "rl_load", Returned(a))
    /\ m_query_graph' = [m_query_graph EXCEPT
                           ![s] = ViewOf(m_layout_memory[s], m_large_memory[s])]
    /\ UNCHANGED <<shm, data_timestamp, complete, locks, segment2_in_use, counts,
                   CURRENT, m_layout_memory, m_large_memory, query, faults>>

\* Exceptions of CheckAndReloadFacade: a key that is gone, a missing canary; or
\* the leaf file that is gone (an outside fault, bounded by MaxThrows).
ReloadThrows(a) ==
    LET s == Proc(a) IN
    \/ /\ pc[a] = "rl_getLayout" /\ ~RegionExists(CURRENT[s].layout)
       /\ UNCHANGED throws
    \/ /\ pc[a] = "rl_getData" /\ ~RegionExists(CURRENT[s].data)
       /\ UNCHANGED throws
    \/ /\ pc[a] = "rl_load"
       /\ ViewOf(m_layout_memory[s], m_large_memory[s]) = Garbage
       /\ UNCHANGED throws
    \/ /\ pc[a] = "rl_load" /\ throws < MaxThrows
       /\ throws' = throws + 1

\* Mutant: the exception leaves the query mutex locked.
AbortWithoutUnlock(t) ==
    /\ ReloadThrows(t)
    /\ pc' = [pc EXCEPT ![t] = "idle"]
    /\ leaked' = [leaked EXCEPT ![Home[t]] = @ + 1]
    /\ UNCHANGED <<shm, data_timestamp, complete, locks, segment2_in_use,
                   number_of_queries, register, facade, query, storeCrashes,
                   serverCrashes, unlocks, lost>>

\* In a worker the lock is released by unwinding and the request is answered
\* with an error; number_of_queries is not decremented.
AbortQuery(t) ==
    /\ ReloadThrows(t)
    /\ pc' = [pc EXCEPT ![t] = "idle"]
    /\ query_mutex' = query_mutex + 1
    /\ leaked' = [leaked EXCEPT ![Home[t]] = @ + 1]
    /\ UNCHANGED <<shm, data_timestamp, complete, pending_update_mutex,
                   segment2_in_use, number_of_queries, register, facade, query,
                   storeCrashes, serverCrashes, unlocks, lost>>

\* In the constructor the exception ends the process.
AbortStart(s) ==
    /\ ReloadThrows(s)
    /\ pc' = [pc EXCEPT ![s] = "off"]
    /\ m_layout_memory' = [m_layout_memory EXCEPT ![s] = NoSegment]
    /\ m_large_memory' = [m_large_memory EXCEPT ![s] = NoSegment]
    /\ m_query_graph' = [m_query_graph EXCEPT ![s] = NoSegment]
    /\ UNCHANGED <<shm, data_timestamp, complete, locks, segment2_in_use, counts,
                   CURRENT, query, storeCrashes, serverCrashes, unlocks, lost>>

-----------------------------------------------------------------------------
(* OSRM_impl::RunQuery *)

BeginQuery(t) ==
    /\ pc[Home[t]] = "up"
    /\ queries[t] < MaxQueries
    /\ pending_update_mutex > 0
    /\ Goto(t, "idle", "q_pending")
    /\ pending_update_mutex' = pending_update_mutex - 1
    /\ queries' = [queries EXCEPT ![t] = @ + 1]
    /\ seen' = [seen EXCEPT ![t] = {}]
    /\ UNCHANGED <<shm, data_timestamp, complete, query_mutex, segment2_in_use,
                   counts, facade, m_static_rtree, overtaken, faults>>

LockQuery(t) ==
    /\ query_mutex > 0
    /\ Goto(t, "q_pending", "q_enter")
    /\ query_mutex' = query_mutex - 1
    /\ UNCHANGED <<shm, data_timestamp, complete, pending_update_mutex,
                   segment2_in_use, counts, facade, query, faults>>

EnterQuery(t) ==
    /\ Goto(t, "q_enter", "q_count")
    /\ pending_update_mutex' = pending_update_mutex + 1
    /\ UNCHANGED <<shm, data_timestamp, complete, query_mutex, segment2_in_use,
                   counts, facade, query, faults>>

\* ++ and -- of the plain int number_of_queries read it and then write it.
ReadCount(t) ==
    /\ Goto(t, "q_count", "q_increment") \/ Goto(t, "q_leave", "q_decrement")
    /\ register' = [register EXCEPT ![t] = number_of_queries[Home[t]]]
    /\ UNCHANGED <<shm, data_timestamp, complete, locks, segment2_in_use,
                   number_of_queries, leaked, facade, query, faults>>

IncrementCount(t) ==
    /\ Goto(t, "q_increment", "rl_check")
    /\ number_of_queries' = [number_of_queries EXCEPT ![Home[t]] = register[t] + 1]
    /\ register' = [register EXCEPT ![t] = 0]
    /\ UNCHANGED <<shm, data_timestamp, complete, locks, segment2_in_use, leaked,
                   facade, query, faults>>

\* Mutant: the query mutex is held while the request is handled.
KeepQueryLocked(t) ==
    /\ Goto(t, "q_release", "q_rtree")
    /\ UNCHANGED <<shm, data_timestamp, complete, locks, segment2_in_use, counts,
                   facade, query, faults>>

ReleaseQuery(t) ==
    /\ Goto(t, "q_release", "q_rtree")
    /\ query_mutex' = query_mutex + 1
    /\ UNCHANGED <<shm, data_timestamp, complete, pending_update_mutex,
                   segment2_in_use, counts, facade, query, faults>>

\* What a view shows to a reader of server s: pointers of a view point into the
\* mapping it was built from, which a reload unmaps.
Read(s, view) == IF view = m_large_memory[s] THEN view ELSE Garbage

\* Mutant: the thread's r-tree is loaded once.
SearchOldRTree(t) ==
    LET s == Home[t]
        tree == IF m_static_rtree[t].tree = NoSegment
                THEN ViewOf(m_layout_memory[s], m_large_memory[s])
                ELSE m_static_rtree[t].tree
    IN
    /\ Goto(t, "q_rtree", "q_graph")
    /\ m_static_rtree' = [m_static_rtree EXCEPT
           ![t] = [timestamp |-> CURRENT[s].timestamp, tree |-> tree]]
    /\ seen' = [seen EXCEPT ![t] = @ \cup {Read(s, tree)}]
    /\ UNCHANGED <<shm, data_timestamp, complete, locks, segment2_in_use, counts,
                   facade, overtaken, queries, faults>>

\* A worker of s is replacing what the facade shows.
Reloading(s) == \E t \in Threads : Home[t] = s /\ pc[t] \in ReloadPC \ {"rl_check"}

\* FindPhantomNodeForCoordinate: LoadRTree if the thread's tree has an old
\* timestamp, then search it.
SearchRTree(t) ==
    LET s == Home[t]
        stale == m_static_rtree[t].timestamp # CURRENT[s].timestamp
        tree == IF stale THEN ViewOf(m_layout_memory[s], m_large_memory[s])
                         ELSE m_static_rtree[t].tree
    IN
    /\ Goto(t, "q_rtree", "q_graph")
    /\ m_static_rtree' = [m_static_rtree EXCEPT
           ![t] = [timestamp |-> CURRENT[s].timestamp, tree |-> tree]]
    /\ seen' = [seen EXCEPT ![t] = @ \cup {Read(s, tree)}]
    /\ overtaken' = IF stale /\ ~Reloading(s) THEN overtaken \ {t} ELSE overtaken
    /\ UNCHANGED <<shm, data_timestamp, complete, locks, segment2_in_use, counts,
                   facade, queries, faults>>

\* The rest of HandleRequest: search in the graph, names, geometry.
SearchGraph(t) ==
    /\ Goto(t, "q_graph", "q_finish")
    /\ seen' = [seen EXCEPT ![t] = @ \cup {Read(Home[t], m_query_graph[Home[t]])}]
    /\ UNCHANGED <<shm, data_timestamp, complete, locks, segment2_in_use, counts,
                   facade, m_static_rtree, overtaken, queries, faults>>

\* An exception of HandleRequest (bounded by MaxThrows) is answered with an error.
HandleThrows(t) ==
    /\ throws < MaxThrows
    /\ pc[t] \in {"q_rtree", "q_graph"}
    /\ pc' = [pc EXCEPT ![t] = "idle"]
    /\ leaked' = [leaked EXCEPT ![Home[t]] = @ + 1]
    /\ throws' = throws + 1
    /\ UNCHANGED <<shm, data_timestamp, complete, locks, segment2_in_use,
                   number_of_queries, register, facade, query, storeCrashes,
                   serverCrashes, unlocks, lost>>

\* Mutant: the counter is decremented without the query mutex.
SkipLockAfterQuery(t) ==
    /\ Goto(t, "q_finish", "q_leave")
    /\ UNCHANGED <<shm, data_timestamp, complete, locks, segment2_in_use, counts,
                   facade, query, faults>>

LockAfterQuery(t) ==
    /\ query_mutex > 0
    /\ Goto(t, "q_finish", "q_leave")
    /\ query_mutex' = query_mutex - 1
    /\ UNCHANGED <<shm, data_timestamp, complete, pending_update_mutex,
                   segment2_in_use, counts, facade, query, faults>>

\* Mutant: the counter is not decremented.
LeaveUncounted(t) ==
    /\ Goto(t, "q_decrement", "idle")
    /\ query_mutex' = query_mutex + 1
    /\ UNCHANGED <<shm, data_timestamp, complete, pending_update_mutex,
                   segment2_in_use, counts, facade, query, faults>>

\* Decrement, notify_all when 0 (nobody ever waits), unlock.
LeaveQuery(t) ==
    /\ Goto(t, "q_decrement", "idle")
    /\ number_of_queries' = [number_of_queries EXCEPT ![Home[t]] = register[t] - 1]
    /\ register' = [register EXCEPT ![t] = 0]
    /\ query_mutex' = query_mutex + 1
    /\ UNCHANGED <<shm, data_timestamp, complete, pending_update_mutex,
                   segment2_in_use, leaked, facade, query, faults>>

-----------------------------------------------------------------------------
(* Faults of processes, and the tool that repairs them *)

\* A server is killed: its threads vanish, locks they hold stay taken.
CrashServer(s) ==
    LET mine == {t \in Threads : Home[t] = s} IN
    /\ serverCrashes < MaxServerCrashes
    /\ pc[s] # "off"
    /\ pc' = [a \in Actors |-> IF a = s THEN "off"
                               ELSE IF a \in mine THEN "idle" ELSE pc[a]]
    /\ lost' = lost + Cardinality(QueryHolders \cap mine)
    /\ serverCrashes' = serverCrashes + 1
    /\ number_of_queries' = [number_of_queries EXCEPT ![s] = 0]
    /\ register' = [t \in Threads |-> IF t \in mine THEN 0 ELSE register[t]]
    /\ leaked' = [leaked EXCEPT ![s] = 0]
    /\ overtaken' = overtaken \ mine
    /\ m_layout_memory' = [m_layout_memory EXCEPT ![s] = NoSegment]
    /\ m_large_memory' = [m_large_memory EXCEPT ![s] = NoSegment]
    /\ m_query_graph' = [m_query_graph EXCEPT ![s] = NoSegment]
    /\ m_static_rtree' = [t \in Threads |->
           IF t \in mine THEN [timestamp |-> 0, tree |-> NoSegment] ELSE m_static_rtree[t]]
    /\ UNCHANGED <<shm, data_timestamp, complete, locks, segment2_in_use, CURRENT,
                   seen, queries, storeCrashes, unlocks, throws>>

\* unlock_all_mutexes: unlocks each named mutex, whether it is taken or not.
UnlockAll ==
    /\ unlocks < MaxUnlocks
    /\ unlocks' = unlocks + 1
    /\ pending_update_mutex' = pending_update_mutex + 1
    /\ query_mutex' = query_mutex + 1
    /\ UNCHANGED <<shm, data_timestamp, complete, pc, segment2_in_use, counts,
                   facade, query, storeCrashes, serverCrashes, throws, lost>>

-----------------------------------------------------------------------------
Init ==
    /\ shm = [r \in Regions |-> IF r = "CURRENT_REGIONS" THEN Zeroed ELSE NoSegment]
    /\ data_timestamp = [layout |-> "CURRENT_REGIONS", data |-> "CURRENT_REGIONS",
                         timestamp |-> 0]
    /\ complete = {}
    /\ pending_update_mutex = 1
    /\ query_mutex = 1
    /\ pc = [a \in Actors |-> IF a \in Servers THEN "off"
                              ELSE IF a \in Threads THEN "idle" ELSE "s_start"]
    /\ segment2_in_use = [d \in Stores |-> FALSE]
    /\ number_of_queries = [p \in Servers \cup Stores |-> 0]
    /\ register = [t \in Threads |-> 0]
    /\ leaked = [s \in Servers |-> 0]
    /\ CURRENT = [s \in Servers |-> NoTriple]
    /\ m_layout_memory = [s \in Servers |-> NoSegment]
    /\ m_large_memory = [s \in Servers |-> NoSegment]
    /\ m_query_graph = [s \in Servers |-> NoSegment]
    /\ m_static_rtree = [t \in Threads |-> [timestamp |-> 0, tree |-> NoSegment]]
    /\ seen = [t \in Threads |-> {}]
    /\ overtaken = {}
    /\ queries = [t \in Threads |-> 0]
    /\ storeCrashes = 0 /\ serverCrashes = 0 /\ unlocks = 0 /\ throws = 0
    /\ lost = 0

StoreStep(d) ==
    \/ StartStore(d) \/ ReleasePending(d) \/ ChooseSegment(d) \/ GetLayoutRegion(d)
    \/ GetDataRegion(d) \/ FillData(d) \/ LockForSwap(d) \/ SwapLayout(d)
    \/ SwapData(d) \/ SwapTimestamp(d) \/ DeletePreviousData(d)
    \/ DeletePreviousLayout(d) \/ ReleaseAfterSwap(d)

ReloadStep(a) ==
    \/ CheckTriple(a) \/ RemovePrevious(a) \/ CopyLayout(a) \/ CopyData(a)
    \/ CopyTimestamp(a) \/ GetLayoutMemory(a) \/ GetLargeMemory(a) \/ LoadFacade(a)

ThreadStep(t) ==
    \/ ReloadStep(t) \/ AbortQuery(t)
    \/ LockQuery(t) \/ EnterQuery(t) \/ ReadCount(t) \/ IncrementCount(t) \/ ReleaseQuery(t)
    \/ SearchRTree(t) \/ SearchGraph(t) \/ LockAfterQuery(t) \/ LeaveQuery(t)

ServerStep(s) == ReloadStep(s) \/ AbortStart(s)

\* No process is in the middle of anything: the system may rest here.
Quiescent ==
    /\ \A d \in Stores : pc[d] \in {"s_start", "s_done", "s_crashed"}
    /\ \A s \in Servers : pc[s] \in {"off", "up"}
    /\ \A t \in Threads : pc[t] = "idle"

Rest == Quiescent /\ UNCHANGED vars

Next ==
    \/ \E d \in Stores : StoreStep(d) \/ CrashStore(d)
    \/ \E s \in Servers : StartServer(s) \/ ServerStep(s) \/ CrashServer(s)
    \/ \E t \in Threads : BeginQuery(t) \/ ThreadStep(t) \/ HandleThrows(t)
    \/ UnlockAll
    \/ Rest

Spec == Init /\ [][Next]_vars

\* Every process that can run keeps running; clients and the operator need not.
Fairness ==
    /\ \A d \in Stores : WF_vars(StoreStep(d) /\ pc[d] # "s_start")
    /\ \A s \in Servers : WF_vars(ServerStep(s))
    /\ \A t \in Threads : WF_vars(ThreadStep(t))

FairSpec == Spec /\ Fairness

-----------------------------------------------------------------------------
(* Properties *)

\* Type correctness of the shared memory, the semaphores and every process; the
\* named semaphores never fall below zero.
TypeOK ==
    /\ shm \in [Regions -> Segments]
    /\ data_timestamp \in SharedDataTimestamp
    /\ complete \subseteq Stores
    /\ pending_update_mutex \in Nat /\ query_mutex \in Nat
    /\ pc \in [Actors -> ServerPC \cup ThreadPC \cup StorePC]
    /\ \A s \in Servers : pc[s] \in ServerPC
    /\ \A t \in Threads : pc[t] \in ThreadPC
    /\ \A d \in Stores : pc[d] \in StorePC
    /\ segment2_in_use \in [Stores -> BOOLEAN]
    /\ number_of_queries \in [Servers \cup Stores -> Int]
    /\ register \in [Threads -> Int]
    /\ leaked \in [Servers -> Nat]
    /\ CURRENT \in [Servers -> SharedDataTimestamp]
    /\ m_layout_memory \in [Servers -> Segments]
    /\ m_large_memory \in [Servers -> Segments]
    /\ m_query_graph \in [Servers -> Views]
    /\ m_static_rtree \in [Threads -> [timestamp : Nat, tree : Views]]
    /\ seen \in [Threads -> SUBSET Views]
    /\ overtaken \subseteq Threads
    /\ queries \in [Threads -> Nat]
    /\ storeCrashes \in Nat /\ serverCrashes \in Nat /\ unlocks \in Nat
    /\ throws \in Nat /\ lost \in Nat

\* Unless unlock_all_mutexes was used, the section of RunQuery that reloads, the
\* one that decrements and datastore's swap exclude each other, across processes,
\* exceptions and kills.
QueryExclusion ==
    unlocks = 0 => \A a, b \in QueryHolders : a = b

\* Unless unlock_all_mutexes was used, no update of the plain int number_of_queries is
\* lost: it counts the running queries of a server and the ones an exception ended, so
\* the assertion 0 <= number_of_queries of RunQuery holds.  A datastore's own counter
\* stays 0.
QueryCount ==
    /\ unlocks = 0 => \A s \in Servers :
         number_of_queries[s] = Cardinality(Running(s)) + leaked[s]
    /\ \A d \in Stores : number_of_queries[d] = 0

\* A worker never acts on a torn triple: once copied, and until it releases the
\* query mutex, its CURRENT_* equal what CURRENT_REGIONS says.
TripleNotTorn ==
    unlocks = 0 =>
      \A t \in Threads :
        pc[t] \in {"rl_getLayout", "rl_getData", "rl_load", "q_release"} =>
          CURRENT[Home[t]] = data_timestamp

\* When a worker leaves CheckAndReloadFacade, its facade shows the complete data
\* set that CURRENT_REGIONS designates: no query starts on outdated data.
CurrentAnswer ==
    \A t \in Threads : pc[t] = "q_release" =>
      /\ m_query_graph[Home[t]] \in complete
      /\ m_query_graph[Home[t]] = shm[data_timestamp.layout]
      /\ m_query_graph[Home[t]] = shm[data_timestamp.data]

\* no_running_queries_condition: as data would be exchanged only while no query is
\* running, everything a query reads, through its thread's r-tree and through the
\* facade, comes from a single completely loaded data set that stays mapped.
OneDataSetPerQuery ==
    \A t \in Threads : pc[t] = "q_finish" =>
      \E d \in complete : seen[t] = {d}

\* With any number of workers a query reads a single completely loaded data set, unless
\* another worker reloaded the facade while the query was being handled.  A thread whose
\* r-tree was loaded in the middle of such a reload keeps it until the next update; with
\* the first r-tree it loads undisturbed its queries are sound again.
MixedOnlyIfOvertaken ==
    \A t \in Threads : pc[t] = "q_finish" /\ t \notin overtaken =>
      \E d \in complete : seen[t] = {d}

\* Outside of datastore's swap, the segments that CURRENT_REGIONS names exist and
\* hold one complete data set: osrm-routed can be started at any time.
PublishedDataAvailable ==
    data_timestamp.timestamp > 0 /\ (\A d \in Stores : pc[d] \notin StoreQueryPC) =>
      /\ shm[data_timestamp.layout] \in complete
      /\ shm[data_timestamp.data] = shm[data_timestamp.layout]

\* "release the previous shared memory segments": what CheckAndReloadFacade
\* removes is not what CURRENT_REGIONS designates.
ReleasesPreviousOnly ==
    \A a \in Servers \cup Threads : pc[a] = "rl_remove" =>
      /\ CURRENT[Proc(a)].layout # data_timestamp.layout
      /\ CURRENT[Proc(a)].data # data_timestamp.data

\* no_running_queries_condition: datastore exchanges the regions only while no
\* query is running.
SwapWaitsForQueries ==
    \A d \in Stores : pc[d] \in StoreQueryPC => \A s \in Servers : Running(s) = {}

\* Every query that was accepted is answered (RunQuery): no worker waits forever for
\* a named mutex, also when other queries end by an exception.
QueriesEnd == \A t \in Threads : pc[t] # "idle" ~> pc[t] = "idle"

\* Every datastore that was started publishes its data (datastore's main()).
UpdatesEnd == \A d \in Stores : pc[d] # "s_start" ~> pc[d] = "s_done"
=============================================================================
